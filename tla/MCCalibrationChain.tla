-------------------------- MODULE MCCalibrationChain -------------------------
(* The two amplifiers of one physical CCD.                                  *)
EXTENDS CalibrationChain, TLC

CONSTANTS LL, LU

Symmetry == Permutations(Amp)
=============================================================================
