------------------------ MODULE MCScienceObservation ------------------------
(* TLC instance of ScienceObservation: two exposures of a pattern of two.   *)
EXTENDS ScienceObservation, TLC

CONSTANTS e1, e2, m1, m2

\* One measured baseline is valid for both, one begins between them.
Both       == {e1, e2}
Validities == (m1 :> {e1, e2}) @@ (m2 :> {e2})
=============================================================================
