--------------------------- MODULE MCAnalysisStudy ---------------------------
(* TLC instance of AnalysisStudy.                                           *)
EXTENDS AnalysisStudy, TLC

CONSTANTS p1, p2, a, b, c

Symmetry == Permutations({p1, p2}) \union Permutations({b, c})

\* The files of an array are larger than the array.
ArraySizes   == (a :> 2) @@ (b :> 3) @@ (c :> 3)
PayloadSizes == (a :> 3) @@ (b :> 4) @@ (c :> 4)
=============================================================================
