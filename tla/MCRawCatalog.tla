---------------------------- MODULE MCRawCatalog ----------------------------
(* TLC instance of RawCatalog.                                              *)
EXTENDS RawCatalog, TLC

CONSTANTS s1, s2, t, n, dateTar, loose, test, m1, m2, m3, e1, e2, i1, i2

Symmetry == Permutations({s1, s2})

\* An archive of two members, one nested in a date-tar, a loose frame of another
\* night that shares an IFU slot with a member, and a loose frame of a test
\* observation.
Layouts   == (t :> <<m1, m2>>) @@ (n :> <<m3>>)
Files     == (t :> t) @@ (n :> dateTar)
Nights    == (loose :> 1) @@ (test :> 1) @@ (t :> 2) @@ (n :> 1)
Exposures == (loose :> e1) @@ (test :> e1) @@ (m3 :> e1) @@ (m1 :> e2) @@ (m2 :> e2)
Slots     == (loose :> i1) @@ (test :> i1) @@ (m1 :> i1) @@ (m2 :> i2) @@ (m3 :> i2)
=============================================================================
