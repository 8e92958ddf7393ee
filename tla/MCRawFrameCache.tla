--------------------------- MODULE MCRawFrameCache ---------------------------
(* TLC instance of RunCaches, and with it of RawFrameCache.                 *)
EXTENDS RunCaches, TLC

CONSTANTS r1, r2, r3, a, b, c, big, reversed, swapped, own

\* One frame fills the cache, two fill it together, one is over its limit.
Sizes == (a :> 2) @@ (b :> 1) @@ (c :> 1) @@ (big :> 3)

\* Two fibers an amplifier; the other table numbers the right side backwards.
MCContents == [default   |-> <<1, 2, 3, 4, 5, 6, 7, 8>>,
               alternate |-> <<1, 2, 3, 4, 8, 7, 6, 5>>]

MCReversals == (reversed :> <<5, 8>>) @@ (swapped :> <<>>) @@ (own :> <<5, 8>>)
MCSwaps == (reversed :> <<>>) @@ (swapped :> << <<2, 3>> >>) @@ (own :> <<>>)
MCAmps  == <<"LU", "LL", "RL", "RU">>

\* resolve_trace_reference, for every set of up to three dated directories:
\* no other is nearer, and of two at one distance the earlier one is taken.
ASSUME \A x, y, z \in 1..5 : \A day \in 1..5 :
  x < y /\ y < z =>
    LET s == TraceReference(<<x, y, z>>, day)
    IN  \A n \in {x, y, z} : Distance(s, day) < Distance(n, day) \/ s = n
                             \/ (Distance(s, day) = Distance(n, day) /\ s < n)
=============================================================================
