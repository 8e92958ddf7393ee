------------------------------ MODULE MCCadence ------------------------------
(* Up to four frames at any of five times.                                  *)
EXTENDS Cadence, FiniteSetsExt

Hours == 0..4

InTime(t, S)   == \A f, g \in S : f < g => t[f] <= t[g]
Times(F)       == [F -> Hours]
\* Filed under the UTC day of its time, or from noon on under the next.
Filed(k, t, x, n) ==
  {[id |-> f, kind |-> k[f], time |-> t[f], exptime |-> x[f], block |-> NoBlock, night |-> n[f]] :
     f \in DOMAIN t}
ByDay(t)          == [f \in DOMAIN t |-> t[f] \div 2]
FromNoon(t)       == [f \in DOMAIN t |-> (t[f] + 1) \div 2]
Loose(t)          == [f \in DOMAIN t |-> NoNight]
Headed(k, t, x)   == Filed(k, t, x, ByDay(t))
Alike(v)          == [f \in 1..4 |-> v]
Labelled(S, b)    == {[f EXCEPT !.block = b[f.id]] : f \in S}

\* Two Hg and two Cd frames, some of a block; three darks of two classes, biases,
\* Cd or science frames; flats and twilights under a custom cadence.
AnyCampaigns ==
  {Labelled(Headed(<<"hg", "hg", "cd", "cd">>, t, Alike(1)),
            IF t[4] <= t[3] + 1 THEN <<NoBlock, NoBlock, 1, 2>> ELSE Alike(NoBlock)) :
     t \in {u \in Times(1..4) : InTime(u, {1, 2}) /\ InTime(u, {3, 4}) /\ 0 \in {u[1], u[3]}}}
   \union {Labelled(Headed(Alike("cd"), t, Alike(1)), b) :
            t \in {u \in Times(1..3) : InTime(u, 1..3)}, b \in {<<1, 2, 1>>, <<1, NoBlock, 1>>}}
   \union {Headed(Alike("dark"), t, x) : t \in {u \in Times(1..3) : InTime(u, 1..3)}, x \in {<<1, 1, 1>>, <<1, 2, 1>>, <<1, 1, 2>>, <<1, 2, 2>>}}
   \union {Headed(Alike("bias"), t, Alike(1)) : t \in {u \in Times(1..3) : \E f \in 1..3 : u[f] = 0}}
   \union {Filed(Alike("flat"), t, Alike(1), FromNoon(t)) : t \in {u \in Times(1..4) : InTime(u, 1..4) /\ u[1] = 0}}
   \union UNION {{Filed(Alike("twi"), t, Alike(1), n) : n \in {FromNoon(t), [Loose(t) EXCEPT ![1] = 0]}} :
                   t \in {u \in Times(1..3) : InTime(u, 1..3)}}
   \union {Headed(Alike("sci"), t, Alike(1)) : t \in {u \in Times(1..3) : InTime(u, 1..3)}}

Policies   == [bias |-> "rolling_24h", dark |-> "isolated", sci |-> "intervals",
               hg |-> "calendar", cd |-> "block", flat |-> "count", twi |-> "time"]
Spans      == [bias |-> 1, dark |-> 1, sci |-> 1, hg |-> 2, cd |-> 3, flat |-> 1, twi |-> 1]
Minima     == [bias |-> 1, dark |-> 1, sci |-> 2, hg |-> 1, cd |-> 1, flat |-> 2, twi |-> 2]
ThreeSpans == <<<<1, 3>>, <<2, 4>>, <<4, 5>>>>
TwoNames   == <<"A", "B", "A">>
\* A hash of the frames of a group, not in their order.
IdOf(g)    == (5 * FoldSet(LAMBDA f, n : n + 2 ^ f.id, 0, g)) % 31
Always     == [by |-> "utc", first |-> 0, last |-> 2]
AnyWindows == {Always, [by |-> "utc", first |-> 1, last |-> 2], [by |-> "night", first |-> 0, last |-> 1]}
=============================================================================
