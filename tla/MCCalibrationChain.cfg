\* One physical CCD, two workers, one task that raises or one product that does
\* not pass.
CONSTANTS
  LL = LL
  LU = LU
  Amp = {LL, LU}
  Exposure = Exposure
  Workers = 2
  MaxFaults = 1
SPECIFICATION Spec
SYMMETRY Symmetry
INVARIANTS
  NothingLost
  EvictedProven
  LampsReleased
\* The run ends.
CHECK_DEADLOCK FALSE
