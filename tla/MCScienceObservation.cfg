\* Two bright exposures of a two-point dither, the command given three times, or
\* twice with a failing task or a crash in between.
CONSTANTS
  e1 = e1
  e2 = e2
  m1 = m1
  m2 = m2
  Measured = {m1, m2}
  Valid <- Validities
  Exposure <- Both
  DitherSize = 2
  Primary <- Both
  Bright <- Both
  Workers = 2
  MaxRuns = 3
  MaxMeasured = 1
SPECIFICATION Spec
INVARIANTS
  MembersWhole
  OwnUnlessReturned
  BaselinesShared
\* The command is given a bounded number of times.
CHECK_DEADLOCK FALSE
