------------------------- MODULE MCExposureReduction -------------------------
(* Two physical CCDs and four response builds, and what follows one frame.  *)
EXTENDS ExposureScience

TwoCCDs    == <<<<"LL", "LU">>, <<"RU", "RL">>>>
FourBuilds == 1..4
Coverage   == <<{"LL", "LU", "RU"}, {"LL", "LU", "RU", "RL"}, {"LL", "LU"}, {"LL", "LU", "RL"}>>
Timely     == {1, 3}

\* What follows does not depend on how the frame came about but for status.
OneFrame ==
  \/ step = "frame"
  \/ frame = Amp /\ active = Build /\ failures = {} /\ exclusions \in {{}, {"LL"}}
=============================================================================
