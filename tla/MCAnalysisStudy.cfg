\* Two processes, a candidate model and two residuals that exceed the budget together, a crash.
CONSTANTS
  p1 = p1
  p2 = p2
  a = a
  b = b
  c = c
  Process = {p1, p2}
  Value = {a, b, c}
  Candidate = {a}
  Nbytes <- ArraySizes
  Payload <- PayloadSizes
  Budget = 6
  Policy = "until_study_completion"
  MaxCalls = 3
  MaxValidations = 2
  MaxCrashes = 1
SPECIFICATION Spec
SYMMETRY Symmetry
INVARIANTS
  OverrunBounded
  ChargedOnce
  ValidationsKept
\* A completed study accepts no call.
CHECK_DEADLOCK FALSE
