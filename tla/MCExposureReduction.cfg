\* One exposure of two physical CCDs, at most one frame and one calibration
\* missing, and any of four response builds, two of them valid at its time;
\* then three iterations, four PSF intervals and up to two extinction models.
CONSTANTS
  CCD <- TwoCCDs
  Build <- FourBuilds
  Covers <- Coverage
  InTime <- Timely
  MaxIterations = 3
  Intervals = 4
  MinPoints = 3
  MaxRows = 2
SPECIFICATION ExposureSpec
CONSTRAINT OneFrame
INVARIANTS
  Accounted
  PassMeansWhole
  ResponseIsBest
  RefinementKept
  ExtinctionOnce
\* The task ends.
CHECK_DEADLOCK FALSE
