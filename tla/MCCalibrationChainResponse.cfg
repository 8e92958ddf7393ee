\* One physical CCD, two workers, nothing fails: the response is made of what
\* happens to be published.
CONSTANTS
  LL = LL
  LU = LU
  Amp = {LL, LU}
  Exposure = Exposure
  Workers = 2
  MaxFaults = 0
SPECIFICATION Spec
SYMMETRY Symmetry
INVARIANTS
  ResponseFromSucceeded
\* The run ends.
CHECK_DEADLOCK FALSE
