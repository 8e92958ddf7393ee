-------------------------- MODULE CalibrationProofs ---------------------------
(***************************************************************************)
(* What Cadence plans and makes, for any campaigns, policies and windows,   *)
(* and what CalibrationChain publishes and evicts, for any amplifiers,      *)
(* number of workers and faults.                                            *)
(***************************************************************************)
EXTENDS Cadence, CalibrationChain, FiniteSetTheorems, TLAPS

-----------------------------------------------------------------------------
(* Induction and recursion over 0..N                                       *)

LEMMA LeastSet ==
  ASSUME NEW S, IsFiniteSet(S), NEW F \in SUBSET SUBSET S, F # {}
  PROVE  \E m \in F : \A k \in F : k \subseteq m => k = m
<1>1. IsWellFoundedOn(StrictSubsetOrdering(S), SUBSET S)
  BY FS_FiniteSubsetsOfFinite, FS_StrictSubsetOrderingWellFounded
<1>2. \E m \in F : \A k \in F : ~ (<<k, m>> \in StrictSubsetOrdering(S))
  BY <1>1, WFMin
<1> QED
  BY <1>2 DEF StrictSubsetOrdering

LEMMA LeastNatural ==
  ASSUME NEW T \in SUBSET Nat, T # {}
  PROVE  \E m \in T : \A k \in T : m <= k
<1>1. PICK n \in T : TRUE
  OBVIOUS
<1> DEFINE S == 1..n
           F == {1..k : k \in {j \in T : j <= n}}
<1>2. F \in SUBSET SUBSET S
  OBVIOUS
<1>3. IsFiniteSet(S)
  BY FS_Interval
<1>4. S \in F
  OBVIOUS
<1>5. PICK m \in F : \A k \in F : k \subseteq m => k = m
  <2> HIDE DEF F, S
  <2> QED
    BY <1>2, <1>3, <1>4, LeastSet
<1>6. PICK j \in T : j <= n /\ m = 1..j
  OBVIOUS
<1>7. ASSUME NEW k \in T, k < j PROVE FALSE
  <2>1. 1..k \in F /\ 1..k \subseteq 1..j
    BY <1>6, <1>7
  <2>2. 1..k = 1..j
    BY <2>1, <1>5, <1>6
  <2>3. j \in 1..j /\ j \notin 1..k
    BY <1>7
  <2> QED
    BY <2>2, <2>3
<1> QED
  BY <1>7

\* Induction up to N, for a predicate that is a function.
LEMMA UpTo ==
  ASSUME NEW N \in Nat, NEW P \in [0..N -> BOOLEAN], P[0], \A i \in 1..N : P[i - 1] => P[i]
  PROVE  \A i \in 0..N : P[i]
<1> DEFINE Bad == {i \in 0..N : ~ P[i]}
<1>1. SUFFICES ASSUME Bad # {} PROVE FALSE
  OBVIOUS
<1>2. PICK m \in Bad : \A k \in Bad : m <= k
  <2>1. Bad \in SUBSET Nat
    OBVIOUS
  <2> HIDE DEF Bad
  <2> QED
    BY <1>1, <2>1, LeastNatural
<1>3. m \in 1..N /\ m - 1 \in 0..N /\ m - 1 \notin Bad
  BY <1>2
<1> QED
  BY <1>2, <1>3

StepsIn(N, V) == [1..N -> [V -> V]]

Follows(f, N, V, v, step) ==
  f \in [0..N -> V] /\ f[0] = v /\ \A i \in 1..N : f[i] = step[i][f[i - 1]]

\* A function on 0..N that is defined from its value before, in V.
LEMMA Recursive ==
  ASSUME NEW N \in Nat, NEW V, NEW v \in V, NEW step \in StepsIn(N, V)
  PROVE  \E f : Follows(f, N, V, v, step)
<1> USE DEF StepsIn
<1> DEFINE Rec(m) ==
             \E f \in [0..m -> V] :
               f[0] = v /\ \A i \in 1..m : f[i] = step[i][f[i - 1]]
           P == [m \in 0..N |-> Rec(m)]
<1>1. P \in [0..N -> BOOLEAN]
  OBVIOUS
<1>2. Rec(0)
  <2> DEFINE f == [i \in 0..0 |-> v]
  <2>1. f \in [0..0 -> V] /\ f[0] = v
    OBVIOUS
  <2> HIDE DEF f
  <2> QED
    BY <2>1
<1>3. ASSUME NEW m \in 1..N, Rec(m - 1) PROVE Rec(m)
  <2>1. PICK g \in [0..(m - 1) -> V] :
               g[0] = v /\ \A i \in 1..(m - 1) : g[i] = step[i][g[i - 1]]
    BY <1>3
  <2> DEFINE f == [i \in 0..m |-> IF i = m THEN step[m][g[m - 1]] ELSE g[i]]
  <2>2. step[m][g[m - 1]] \in V
    OBVIOUS
  <2>3. f \in [0..m -> V]
    BY <2>2
  <2>4. ASSUME NEW i \in 1..m PROVE f[i] = step[i][f[i - 1]]
    <3>1. CASE i = m
      BY <3>1
    <3>2. CASE i # m
      <4>1. i \in 1..(m - 1) /\ f[i] = g[i] /\ f[i - 1] = g[i - 1]
        BY <3>2
      <4> QED
        BY <4>1, <2>1
    <3> QED
      BY <3>1, <3>2
  <2>5. f[0] = v
    BY <2>1
  <2> HIDE DEF f
  <2> QED
    BY <2>3, <2>4, <2>5
<1>4. \A m \in 0..N : P[m]
  <2>1. P[0]
    BY <1>2
  <2>2. \A m \in 1..N : P[m - 1] => P[m]
    <3> HIDE DEF Rec
    <3> TAKE m \in 1..N
    <3>1. m \in 0..N /\ m - 1 \in 0..N
      OBVIOUS
    <3> QED
      BY <3>1, <1>3
  <2> HIDE DEF P
  <2> QED
    BY <1>1, <2>1, <2>2, UpTo
<1>5. Rec(N)
  <2> HIDE DEF Rec
  <2> QED
    BY <1>4
<1> QED
  BY <1>5 DEF Follows

-----------------------------------------------------------------------------
(* Sorting                                                                 *)

\* R orders the members of S strictly and totally.
StrictOrder(S, R) ==
  /\ \A x \in S : <<x, x>> \notin R
  /\ \A x, y, z \in S : <<x, y>> \in R /\ <<y, z>> \in R => <<x, z>> \in R
  /\ \A x, y \in S : x # y => <<x, y>> \in R \/ <<y, x>> \in R

Ascending(s, S, R) ==
  /\ s \in [1..Cardinality(S) -> S]
  /\ \A i, j \in 1..Cardinality(S) : i < j => <<s[i], s[j]>> \in R

\* A finite set that is not empty has a last member.
LEMMA LastMember ==
  ASSUME NEW S, IsFiniteSet(S), S # {}, NEW R, StrictOrder(S, R)
  PROVE  \E m \in S : \A x \in S \ {m} : <<x, m>> \in R
<1> DEFINE Above(y) == {x \in S : <<y, x>> \in R}
           F == {Above(y) : y \in S}
<1>1. PICK a \in F : \A k \in F : k \subseteq a => k = a
  <2>1. F \in SUBSET SUBSET S /\ F # {}
    OBVIOUS
  <2> HIDE DEF F
  <2> QED
    BY <2>1, LeastSet
<1>2. PICK m \in S : a = Above(m)
  BY <1>1
<1>3. ASSUME NEW x \in S, <<m, x>> \in R PROVE FALSE
  <2>1. Above(x) \subseteq Above(m)
    BY <1>3 DEF StrictOrder
  <2>2. x \in Above(m) /\ x \notin Above(x)
    BY <1>3 DEF StrictOrder
  <2>3. Above(x) \in F
    OBVIOUS
  <2> HIDE DEF Above, F
  <2> QED
    BY <1>1, <1>2, <2>1, <2>2, <2>3
<1> QED
  BY <1>3 DEF StrictOrder

LEMMA AscendingExists ==
  ASSUME NEW S, IsFiniteSet(S), NEW R, StrictOrder(S, R)
  PROVE  \E s : Ascending(s, S, R)
<1> DEFINE Bad == {T \in SUBSET S : ~ \E s : Ascending(s, T, R)}
<1>1. SUFFICES ASSUME Bad # {} PROVE FALSE
  OBVIOUS
<1>2. PICK T \in Bad : \A U \in Bad : U \subseteq T => U = T
  <2>1. Bad \in SUBSET SUBSET S
    OBVIOUS
  <2> HIDE DEF Bad
  <2> QED
    BY <1>1, <2>1, LeastSet
<1>3. T \in SUBSET S /\ IsFiniteSet(T) /\ ~ \E s : Ascending(s, T, R)
  BY <1>2, FS_Subset
<1>4. CASE T = {}
  <2>1. Cardinality(T) = 0
    BY <1>4, FS_EmptySet
  <2>2. 1..0 = {}
    OBVIOUS
  <2>3. Ascending([i \in 1..0 |-> i], T, R)
    BY <2>1, <2>2 DEF Ascending
  <2> QED
    BY <1>3, <2>3
<1>5. CASE T # {}
  <2>1. StrictOrder(T, R)
    BY <1>3 DEF StrictOrder
  <2>2. PICK m \in T : \A x \in T \ {m} : <<x, m>> \in R
    BY <1>3, <1>5, <2>1, LastMember
  <2> DEFINE U == T \ {m}
             n == Cardinality(T)
  <2>3. /\ IsFiniteSet(U) /\ Cardinality(U) = n - 1 /\ n \in Nat /\ n - 1 \in Nat
    <3>1. IsFiniteSet(U) /\ Cardinality(U) = Cardinality(T) - 1
      BY <1>3, <2>2, FS_RemoveElement
    <3>2. Cardinality(U) \in Nat /\ Cardinality(T) \in Nat
      BY <1>3, <3>1, FS_CardinalityType
    <3> QED
      BY <3>1, <3>2
  <2>4. PICK s : Ascending(s, U, R)
    BY <1>2, <1>3, <2>2
  <2> DEFINE t == [i \in 1..n |-> IF i = n THEN m ELSE s[i]]
  <2>5. s \in [1..(n - 1) -> U] /\ \A i, j \in 1..(n - 1) : i < j => <<s[i], s[j]>> \in R
    BY <2>3, <2>4 DEF Ascending
  <2>6. \A i \in 1..n : i # n => i \in 1..(n - 1) /\ t[i] = s[i] /\ s[i] \in U
    <3> HIDE DEF n, U
    <3> QED
      BY <2>3, <2>5
  <2>7. t \in [1..n -> T]
    BY <2>6
  <2>8. ASSUME NEW i \in 1..n, NEW j \in 1..n, i < j PROVE <<t[i], t[j]>> \in R
    <3>1. i # n /\ i \in 1..(n - 1) /\ t[i] = s[i] /\ s[i] \in U
      <4> HIDE DEF n, U, t
      <4> QED
        BY <2>3, <2>6, <2>8
    <3>2. CASE j = n
      BY <2>2, <3>1, <3>2
    <3>3. CASE j # n
      <4> HIDE DEF n, U, t
      <4> QED
        BY <2>5, <2>6, <2>8, <3>1, <3>3
    <3> QED
      BY <3>2, <3>3
  <2>9. Ascending(t, T, R)
    <3> HIDE DEF t
    <3> QED
      BY <2>7, <2>8 DEF Ascending
  <2> QED
    BY <1>3, <2>9
<1> QED
  BY <1>4, <1>5

LEMMA SortedAscending ==
  ASSUME NEW S, IsFiniteSet(S), NEW R, StrictOrder(S, R)
  PROVE  /\ Cardinality(S) \in Nat
         /\ Ascending(Sorted(S, R), S, R)
         /\ \A i, j \in 1..Cardinality(S) : Sorted(S, R)[i] = Sorted(S, R)[j] => i = j
         /\ \A x \in S : \E i \in 1..Cardinality(S) : Sorted(S, R)[i] = x
<1> DEFINE n == Cardinality(S)
           s == Sorted(S, R)
<1>1. n \in Nat
  BY FS_CardinalityType
<1>2. Ascending(s, S, R)
  <2>1. PICK q : Ascending(q, S, R)
    BY AscendingExists
  <2>2. q \in [1..n -> S] /\ \A i, j \in DOMAIN q : i < j => <<q[i], q[j]>> \in R
    BY <2>1 DEF Ascending
  <2>3. s \in [1..n -> S] /\ \A i, j \in DOMAIN s : i < j => <<s[i], s[j]>> \in R
    BY <2>2 DEF Sorted
  <2> HIDE DEF s
  <2> QED
    BY <2>3 DEF Ascending
<1> HIDE DEF s
<1>3. \A i, j \in 1..n : s[i] = s[j] => i = j
  <2> SUFFICES ASSUME NEW i \in 1..n, NEW j \in 1..n, s[i] = s[j], i # j PROVE FALSE
    OBVIOUS
  <2>1. (i < j \/ j < i) /\ s[i] \in S /\ s[j] \in S
    BY <1>1, <1>2 DEF Ascending
  <2>2. <<s[i], s[i]>> \in R
    BY <1>2, <2>1 DEF Ascending
  <2> QED
    BY <2>1, <2>2 DEF StrictOrder
<1>4. s \in Injection(1..n, S)
  <2>1. s \in [1..n -> S]
    BY <1>2 DEF Ascending
  <2> HIDE DEF n
  <2> QED
    BY <1>3, <2>1 DEF Injection, IsInjective
<1>5. Cardinality(1..n) = n
  BY <1>1, FS_Interval
<1>6. s \in Surjection(1..n, S)
  BY <1>4, <1>5, FS_Injection
<1>7. \A x \in S : \E i \in 1..n : s[i] = x
  BY <1>6 DEF Surjection
<1> QED
  BY <1>1, <1>2, <1>3, <1>7 DEF s

\* Frames of one campaign.
Frames(S) == S \in SUBSET Frame /\ IsFiniteSet(S) /\ \A f, g \in S : f.id = g.id => f = g

LEMMA SomeFrames ==
  ASSUME NEW S, Frames(S), NEW T \in SUBSET S
  PROVE  Frames(T) /\ Cardinality(T) \in Nat /\ \A f \in T : f.time \in Nat
<1>1. IsFiniteSet(T)
  BY FS_Subset DEF Frames
<1> QED
  BY <1>1, FS_CardinalityType DEF Frames, Frame

LEMMA TimeOrder ==
  ASSUME NEW S, Frames(S)
  PROVE  /\ StrictOrder(S, ByTime(S))
         /\ \A f, g \in S : <<f, g>> \in ByTime(S) => f.time <= g.time
<1> DEFINE R == ByTime(S)
<1>1. \A f \in S : f.time \in Nat /\ f.id \in Nat
  BY DEF Frames, Frame
<1>2. ASSUME NEW f \in S, NEW g \in S
      PROVE  <<f, g>> \in R <=> (f.time < g.time \/ (f.time = g.time /\ f.id < g.id))
  <2>1. <<f, g>> \in S \X S /\ <<f, g>>[1] = f /\ <<f, g>>[2] = g
    OBVIOUS
  <2> QED
    BY <2>1 DEF ByTime
<1> HIDE DEF R
<1>3. \A f \in S : <<f, f>> \notin R
  BY <1>1, <1>2
<1>4. \A f, g, h \in S : <<f, g>> \in R /\ <<g, h>> \in R => <<f, h>> \in R
  BY <1>1, <1>2
<1>5. \A f, g \in S : f # g => <<f, g>> \in R \/ <<g, f>> \in R
  BY <1>1, <1>2 DEF Frames
<1>6. \A f, g \in S : <<f, g>> \in R => f.time <= g.time
  BY <1>1, <1>2
<1> QED
  BY <1>3, <1>4, <1>5, <1>6 DEF StrictOrder, R

\* Rows in the order of their times.
InOrder(rows, n) ==
  /\ DOMAIN rows = 1..n
  /\ \A i \in 1..n : rows[i].time \in Nat
  /\ \A i, j \in 1..n : i <= j => rows[i].time <= rows[j].time

\* In time order.
LEMMA ChronologicalSorted ==
  ASSUME NEW S, Frames(S), NEW n, n = Cardinality(S), NEW rows, rows = Chronological(S)
  PROVE  /\ n \in Nat /\ rows \in [1..n -> S] /\ Len(rows) = n /\ InOrder(rows, n)
         /\ \A i, j \in 1..n : rows[i] = rows[j] => i = j
         /\ \A f \in S : \E i \in 1..n : rows[i] = f
<1> DEFINE R == ByTime(S)
<1>1. \A f \in S : f.time \in Nat
  BY DEF Frames, Frame
<1>2. StrictOrder(S, R) /\ \A f, g \in S : <<f, g>> \in R => f.time <= g.time
  BY TimeOrder
<1>3. rows = Sorted(S, R)
  BY DEF Chronological
<1> HIDE DEF R
<1>4. /\ n \in Nat /\ Ascending(rows, S, R)
      /\ \A i, j \in 1..n : rows[i] = rows[j] => i = j
      /\ \A f \in S : \E i \in 1..n : rows[i] = f
  BY <1>2, <1>3, SortedAscending DEF Frames
<1>5. rows \in [1..n -> S] /\ \A i, j \in 1..n : i < j => <<rows[i], rows[j]>> \in R
  BY <1>4 DEF Ascending
<1>6. Len(rows) = n
  <2>1. rows \in Seq(S)
    BY <1>4, <1>5
  <2> QED
    BY <1>4, <1>5, <2>1
<1>7. ASSUME NEW i \in 1..n, NEW j \in 1..n, i <= j PROVE rows[i].time <= rows[j].time
  <2>1. rows[i] \in S /\ rows[j] \in S
    BY <1>5
  <2>2. CASE i = j
    BY <1>1, <2>1, <2>2
  <2>3. CASE i < j
    BY <1>2, <1>5, <2>1, <2>3
  <2> QED
    BY <1>4, <1>7, <2>2, <2>3
<1>8. InOrder(rows, n)
  BY <1>1, <1>5, <1>7 DEF InOrder
<1> QED
  BY <1>4, <1>5, <1>6, <1>8

\* The first and the last time of a group.
LEMMA FirstAndLast ==
  ASSUME NEW S, Frames(S), S # {}
  PROVE  /\ \E f \in S : f.time = FirstTime(S)
         /\ \E f \in S : f.time = LastTime(S)
         /\ \A f \in S : FirstTime(S) <= f.time /\ f.time <= LastTime(S)
         /\ FirstTime(S) \in Nat /\ LastTime(S) \in Nat
<1> DEFINE T == {f.time : f \in S}
<1>1. \A f \in S : f.time \in Nat
  BY DEF Frames, Frame
<1>2. PICK t \in T : \A u \in T : t <= u
  <2>1. T \in SUBSET Nat /\ T # {}
    BY <1>1
  <2> HIDE DEF T
  <2> QED
    BY <2>1, LeastNatural
<1>3. FirstTime(S) \in T /\ \A f \in S : FirstTime(S) <= f.time
  <2>1. t \in T /\ \A f \in S : t <= f.time
    BY <1>2
  <2> HIDE DEF T
  <2> QED
    BY <2>1 DEF FirstTime, T
<1>4. PICK m \in S : \A x \in S \ {m} : <<x, m>> \in ByTime(S)
  BY TimeOrder, LastMember DEF Frames
<1>5. \A f \in S : f.time <= m.time
  <2> TAKE f \in S
  <2>1. CASE f = m
    BY <1>1, <2>1
  <2>2. CASE f # m
    BY <1>4, <2>2, TimeOrder
  <2> QED
    BY <2>1, <2>2
<1>6. LastTime(S) \in T /\ \A f \in S : LastTime(S) >= f.time
  <2>1. m.time \in T /\ \A f \in S : m.time >= f.time
    BY <1>1, <1>5
  <2> HIDE DEF T
  <2> QED
    BY <2>1 DEF LastTime, T
<1> QED
  BY <1>1, <1>3, <1>6

-----------------------------------------------------------------------------
(* Isolated groups                                                         *)

LEMMA BeginsRecursive ==
  ASSUME NEW n \in Nat, NEW rows, DOMAIN rows = 1..n, NEW limit, NEW L, L = Begins(rows, limit)
  PROVE  /\ L \in [1..n -> 0..n]
         /\ \A i \in 1..n : L[i] = IF i > 1 /\ Fits(rows, L[i - 1], i, limit) THEN L[i - 1] ELSE i
<1> DEFINE Rec(f) == f = [i \in 1..n |->
                            IF i > 1 /\ Fits(rows, f[i - 1], i, limit) THEN f[i - 1] ELSE i]
           step == [i \in 1..n |-> [x \in 0..n |->
                      IF i > 1 /\ Fits(rows, x, i, limit) THEN x ELSE i]]
<1>1. PICK f : Follows(f, n, 0..n, 0, step)
  <2>1. step \in StepsIn(n, 0..n) /\ 0 \in 0..n
    BY DEF StepsIn
  <2> HIDE DEF step
  <2> QED
    BY <2>1, Recursive
<1>2. f \in [0..n -> 0..n] /\ f[0] = 0 /\ \A i \in 1..n : f[i] = step[i][f[i - 1]]
  <2> HIDE DEF step
  <2> QED
    BY <1>1 DEF Follows
<1> DEFINE g == [i \in 1..n |-> f[i]]
<1>3. ASSUME NEW i \in 1..n
      PROVE  g[i] = IF i > 1 /\ Fits(rows, g[i - 1], i, limit) THEN g[i - 1] ELSE i
  <2>1. f[i - 1] \in 0..n /\ f[i] = step[i][f[i - 1]]
    <3>1. i - 1 \in 0..n
      OBVIOUS
    <3> HIDE DEF step
    <3> QED
      BY <1>2, <3>1
  <2>2. f[i] = IF i > 1 /\ Fits(rows, f[i - 1], i, limit) THEN f[i - 1] ELSE i
    BY <2>1
  <2>3. i > 1 => g[i - 1] = f[i - 1]
    OBVIOUS
  <2> HIDE DEF step
  <2> QED
    BY <2>2, <2>3
<1>4. Rec(g)
  <2>1. g = [i \in 1..n |-> g[i]]
    OBVIOUS
  <2> HIDE DEF g
  <2> QED
    BY <1>3, <2>1
<1>5. L = CHOOSE first : Rec(first)
  BY DEF Begins
<1>6. Rec(L)
  <2> HIDE DEF Rec, g
  <2> QED
    BY <1>4, <1>5
<1>7. \A i \in 1..n : L[i] = IF i > 1 /\ Fits(rows, L[i - 1], i, limit) THEN L[i - 1] ELSE i
  BY <1>6
<1>8. L = [i \in 1..n |-> L[i]]
  BY <1>6
<1>9. \A i \in 0..n : i = 0 \/ L[i] \in 0..n
  <2> DEFINE P == [i \in 0..n |-> i = 0 \/ L[i] \in 0..n]
  <2>1. P[0]
    <3>1. 0 \in 0..n
      OBVIOUS
    <3> QED
      BY <3>1
  <2>2. \A i \in 1..n : P[i - 1] => P[i]
    <3> TAKE i \in 1..n
    <3>1. i \in 0..n /\ i - 1 \in 0..n /\ (i > 1 => i - 1 # 0)
      OBVIOUS
    <3> QED
      BY <1>7, <3>1
  <2>3. P \in [0..n -> BOOLEAN]
    OBVIOUS
  <2>4. \A i \in 0..n : P[i]
    <3> HIDE DEF P
    <3> QED
      BY <2>1, <2>2, <2>3, UpTo
  <2> QED
    BY <2>4
<1> QED
  <2>1. \A i \in 1..n : L[i] \in 0..n
    BY <1>9
  <2> QED
    BY <1>7, <1>8, <2>1

\* A group is an interval of rows that begins with its first, and fits.
LEMMA BeginsAt ==
  ASSUME NEW n \in Nat, NEW rows, InOrder(rows, n), NEW limit \in Nat,
         NEW L, L = Begins(rows, limit)
  PROVE  \A i \in 1..n : /\ L[i] \in 1..i
                         /\ \A j \in L[i]..i : L[j] = L[i]
                         /\ rows[i].time <= rows[L[i]].time + limit
<1> DEFINE Q(i) == /\ L[i] \in 1..i
                   /\ \A j \in L[i]..i : L[j] = L[i]
                   /\ rows[i].time <= rows[L[i]].time + limit
           P == [i \in 0..n |-> i = 0 \/ Q(i)]
<1>1. \A i \in 1..n : rows[i].time \in Nat
  BY DEF InOrder
<1>2. \A i \in 1..n : L[i] = IF i > 1 /\ Fits(rows, L[i - 1], i, limit) THEN L[i - 1] ELSE i
  BY BeginsRecursive DEF InOrder
<1>3. ASSUME NEW i \in 1..n, i = 1 \/ Q(i - 1) PROVE Q(i)
  <2>1. CASE L[i] = i
    <3>1. \A j \in L[i]..i : j = i
      BY <2>1
    <3> QED
      BY <1>1, <2>1, <3>1
  <2>2. CASE L[i] # i
    <3>1. i > 1 /\ Fits(rows, L[i - 1], i, limit) /\ L[i] = L[i - 1] /\ i - 1 \in 1..n
      BY <1>2, <2>2
    <3>2. Q(i - 1)
      BY <1>3, <3>1
    <3>3. L[i] \in 1..i /\ L[i] \in 1..n
      BY <3>1, <3>2
    <3>4. \A j \in L[i]..i : L[j] = L[i]
      <4> TAKE j \in L[i]..i
      <4>1. j = i \/ j \in L[i - 1]..(i - 1)
        BY <3>1, <3>3
      <4> QED
        BY <3>1, <3>2, <4>1
    <3>5. rows[i].time <= rows[L[i]].time + limit
      BY <1>1, <3>1, <3>3 DEF Fits
    <3> QED
      BY <3>3, <3>4, <3>5
  <2> QED
    BY <2>1, <2>2
<1>4. \A i \in 0..n : P[i]
  <2>1. 0 \in 0..n /\ P[0] /\ P \in [0..n -> BOOLEAN]
    <3>1. 0 \in 0..n
      OBVIOUS
    <3> HIDE DEF Q
    <3> QED
      BY <3>1
  <2>2. \A i \in 1..n : P[i - 1] => P[i]
    <3> TAKE i \in 1..n
    <3>1. i \in 0..n /\ i - 1 \in 0..n /\ (i - 1 = 0 => i = 1)
      OBVIOUS
    <3> HIDE DEF Q
    <3> QED
      BY <1>3, <3>1
  <2> HIDE DEF P
  <2> QED
    BY <2>1, <2>2, UpTo
<1> QED
  <2> SUFFICES ASSUME NEW i \in 1..n PROVE Q(i)
    OBVIOUS
  <2>1. i \in 0..n /\ i # 0
    OBVIOUS
  <2> HIDE DEF Q
  <2> QED
    BY <1>4, <2>1

\* Two rows are in one group when the first of the one reaches the other.
LEMMA SameGroup ==
  ASSUME NEW n \in Nat, NEW rows, InOrder(rows, n), NEW limit \in Nat,
         NEW L, L = Begins(rows, limit), NEW i \in 1..n, NEW p \in 1..n
  PROVE  L[p] = L[i] <=> rows[p].time - rows[L[i]].time \in 0..limit
<1>1. /\ \A j \in 1..n : rows[j].time \in Nat
      /\ \A j, k \in 1..n : j <= k => rows[j].time <= rows[k].time
  BY DEF InOrder
<1>2. \A j \in 1..n : /\ L[j] \in 1..j /\ L[j] \in 1..n
                      /\ \A k \in L[j]..j : L[k] = L[j]
                      /\ rows[j].time <= rows[L[j]].time + limit
  BY BeginsAt
<1>3. \A j \in 1..n : j > 1 /\ rows[j].time <= rows[L[j - 1]].time + limit => L[j] = L[j - 1]
  <2>1. \A j \in 1..n : L[j] = IF j > 1 /\ Fits(rows, L[j - 1], j, limit) THEN L[j - 1] ELSE j
    BY BeginsRecursive DEF InOrder
  <2> TAKE j \in 1..n
  <2> HAVE j > 1 /\ rows[j].time <= rows[L[j - 1]].time + limit
  <2>2. j - 1 \in 1..n
    OBVIOUS
  <2>3. L[j - 1] \in 1..n
    BY <1>2, <2>2
  <2>4. rows[j].time \in Nat /\ rows[L[j - 1]].time \in Nat
    BY <1>1, <2>3
  <2> QED
    BY <2>1, <2>4 DEF Fits
<1>4. ASSUME L[p] = L[i] PROVE rows[p].time - rows[L[i]].time \in 0..limit
  <2>1. L[i] \in 1..n /\ L[i] <= p
    BY <1>2, <1>4
  <2>2. rows[L[i]].time \in Nat /\ rows[p].time \in Nat /\ rows[L[i]].time <= rows[p].time
    BY <1>1, <2>1
  <2>3. rows[p].time <= rows[L[i]].time + limit
    BY <1>2, <1>4
  <2> QED
    BY <2>2, <2>3
<1>5. ASSUME rows[p].time - rows[L[i]].time \in 0..limit PROVE L[p] = L[i]
  <2> DEFINE l == L[i]
  <2>1. l \in 1..n /\ L[l] = l /\ l <= i
    BY <1>2
  <2>2. rows[l].time \in Nat /\ rows[p].time \in Nat
    BY <1>1, <2>1
  <2>3. rows[l].time <= rows[p].time /\ rows[p].time <= rows[l].time + limit
    BY <1>5, <2>2
  <2> HIDE DEF l
  <2>4. CASE l <= p
    <3> DEFINE Q == [j \in 0..(p - l) |-> L[l + j] = l]
    <3>1. p - l \in Nat
      BY <2>1, <2>4
    <3>2. Q[0] /\ Q \in [0..(p - l) -> BOOLEAN]
      <4>1. 0 \in 0..(p - l) /\ l + 0 = l
        BY <2>1, <3>1
      <4>2. L[l + 0] = l
        BY <2>1, <4>1
      <4> QED
        BY <4>1, <4>2
    <3>3. \A j \in 1..(p - l) : Q[j - 1] => Q[j]
      <4> TAKE j \in 1..(p - l)
      <4> HAVE Q[j - 1]
      <4>1. j - 1 \in 0..(p - l) /\ j \in 0..(p - l) /\ l + j \in 1..n /\ l + j > 1 /\ l + j <= p
        BY <2>1, <3>1
      <4>2. L[l + (j - 1)] = l
        BY <4>1
      <4>3. l + (j - 1) = (l + j) - 1
        BY <2>1
      <4>4. rows[l + j].time \in Nat /\ rows[l + j].time <= rows[p].time
        BY <1>1, <4>1
      <4>5. rows[l + j].time <= rows[l].time + limit
        BY <2>2, <2>3, <4>4
      <4> QED
        BY <1>3, <4>1, <4>2, <4>3, <4>5
    <3>4. \A j \in 0..(p - l) : Q[j]
      <4> HIDE DEF Q
      <4> QED
        BY <3>1, <3>2, <3>3, UpTo
    <3>5. p - l \in 0..(p - l) /\ l + (p - l) = p
      BY <2>1, <3>1
    <3> QED
      BY <3>4, <3>5 DEF l
  <2>5. CASE p < l
    <3> DEFINE m == L[l - 1]
    <3>1. l > 1 /\ l - 1 \in 1..n /\ p <= l - 1
      BY <2>1, <2>5
    <3>2. m \in 1..n /\ m <= l - 1 /\ \A k \in m..(l - 1) : L[k] = m
      BY <1>2, <3>1
    <3>3. rows[m].time \in Nat
      BY <1>1, <3>2
    <3>4. rows[p].time <= rows[l].time
      BY <1>1, <2>1, <2>5
    <3>5. ~ (rows[l].time <= rows[m].time + limit)
      <4>1. L[l] # m
        BY <2>1, <3>1, <3>2
      <4> QED
        BY <1>3, <2>1, <3>1, <4>1
    <3> HIDE DEF m
    <3>6. CASE p <= m
      <4>1. rows[p].time <= rows[m].time
        BY <1>1, <3>2, <3>6
      <4> QED
        BY <2>2, <2>3, <3>3, <3>5, <4>1
    <3>7. CASE m < p
      <4>1. L[p] = m
        BY <3>1, <3>2, <3>7
      <4>2. rows[p].time <= rows[m].time + limit
        BY <1>2, <4>1
      <4> QED
        BY <2>2, <2>3, <3>3, <3>5, <4>2
    <3> QED
      BY <3>2, <3>6, <3>7
  <2> QED
    BY <2>1, <2>4, <2>5
<1> QED
  BY <1>4, <1>5

\* The groups are a partition, each of all frames within the limit after its first.
LEMMA SplitGroups ==
  ASSUME NEW S, Frames(S), NEW limit \in Nat
  PROVE  /\ \A G \in Split(S, limit) :
              \E l \in S : l \in G /\ G = {f \in S : f.time - l.time \in 0..limit}
         /\ \A f \in S : \E G \in Split(S, limit) : f \in G
         /\ \A G, H \in Split(S, limit) : G \intersect H # {} => G = H
<1> DEFINE n == Cardinality(S)
           rows == Chronological(S)
           L == Begins(rows, limit)
           Of(i) == {rows[j] : j \in {m \in 1..n : L[m] = L[i]}}
<1>1. /\ n \in Nat /\ rows \in [1..n -> S] /\ InOrder(rows, n)
      /\ \A i, j \in 1..n : rows[i] = rows[j] => i = j
      /\ \A f \in S : \E i \in 1..n : rows[i] = f
  BY ChronologicalSorted
<1>2. Split(S, limit) = {Of(i) : i \in 1..n}
  <2>1. DOMAIN rows = 1..n
    BY <1>1
  <2>2. PartitionBy(1..n, L) = {{m \in 1..n : L[m] = L[i]} : i \in 1..n}
    BY DEF PartitionBy
  <2>3. Split(S, limit) = {{rows[j] : j \in places} : places \in PartitionBy(1..n, L)}
    <3> HIDE DEF n
    <3> QED
      BY <2>1 DEF Split
  <2> HIDE DEF n, rows, L
  <2>4. ASSUME NEW G \in Split(S, limit) PROVE \E i \in 1..n : G = Of(i)
    <3>1. PICK places \in PartitionBy(1..n, L) : G = {rows[j] : j \in places}
      BY <2>3
    <3>2. PICK i \in 1..n : places = {m \in 1..n : L[m] = L[i]}
      BY <2>2
    <3> QED
      BY <3>1, <3>2
  <2>5. ASSUME NEW i \in 1..n PROVE Of(i) \in Split(S, limit)
    <3>1. PICK places \in PartitionBy(1..n, L) : places = {m \in 1..n : L[m] = L[i]}
      BY <2>2
    <3>2. Of(i) = {rows[j] : j \in places}
      BY <3>1
    <3> HIDE DEF Of
    <3> QED
      BY <2>3, <3>2
  <2> HIDE DEF Of
  <2> QED
    BY <2>4, <2>5
<1> HIDE DEF n, rows
<1>3. \A i \in 1..n : L[i] \in 1..n /\ L[L[i]] = L[i]
  <2>1. \A i \in 1..n : L[i] \in 1..i /\ \A j \in L[i]..i : L[j] = L[i]
    BY <1>1, BeginsAt
  <2> HIDE DEF L
  <2> QED
    BY <1>1, <2>1
<1>4. \A i, p \in 1..n : L[p] = L[i] <=> rows[p].time - rows[L[i]].time \in 0..limit
  BY <1>1, SameGroup
<1> HIDE DEF L
<1>5. ASSUME NEW i \in 1..n
      PROVE  rows[L[i]] \in S /\ rows[L[i]] \in Of(i)
             /\ Of(i) = {f \in S : f.time - rows[L[i]].time \in 0..limit}
  <2>1. rows[L[i]] \in S /\ rows[L[i]] \in Of(i)
    BY <1>1, <1>3
  <2>2. ASSUME NEW f \in Of(i) PROVE f \in S /\ f.time - rows[L[i]].time \in 0..limit
    BY <1>1, <1>4
  <2>3. ASSUME NEW f \in S, f.time - rows[L[i]].time \in 0..limit PROVE f \in Of(i)
    <3>1. PICK p \in 1..n : rows[p] = f
      BY <1>1
    <3>2. L[p] = L[i]
      BY <1>4, <2>3, <3>1
    <3> QED
      BY <3>1, <3>2
  <2> HIDE DEF Of
  <2> QED
    BY <2>1, <2>2, <2>3
<1>6. \A f \in S : \E i \in 1..n : f \in Of(i)
  BY <1>1
<1>7. ASSUME NEW i \in 1..n, NEW j \in 1..n, Of(i) \intersect Of(j) # {} PROVE Of(i) = Of(j)
  <2>1. PICK f : f \in Of(i) /\ f \in Of(j)
    BY <1>7
  <2>2. PICK p \in 1..n, q \in 1..n : L[p] = L[i] /\ L[q] = L[j] /\ rows[p] = f /\ rows[q] = f
    BY <2>1
  <2>3. L[i] = L[j]
    BY <1>1, <2>2
  <2> QED
    BY <2>3
<1> HIDE DEF Of
<1> QED
  BY <1>2, <1>5, <1>6, <1>7

-----------------------------------------------------------------------------
(* Groups                                                                  *)

LEMMA Policies ==
  /\ \A k \in Grouped : Policy[k] \in {"isolated", "rolling_24h", "calendar", "intervals", "block"}
  /\ \A k \in Kind : Span[k] \in Nat \ {0} /\ Minimum[k] \in Nat
  /\ \A k \in Kind \ Grouped : Policy[k] \in {"time", "count"}
  /\ Grouped \subseteq Kind
  /\ Day \in Nat \ {0} /\ Separation \in Nat
  BY CadenceAssumption DEF Grouped, Kind

LEMMA VisibleFrames ==
  ASSUME NEW v, Frames(DOMAIN v), NEW k
  PROVE  /\ Visible(v, k) \subseteq DOMAIN v /\ Frames(Visible(v, k))
         /\ Scoped(v, k) \subseteq DOMAIN v /\ Frames(Scoped(v, k))
<1>1. Visible(v, k) \subseteq DOMAIN v /\ Scoped(v, k) \subseteq DOMAIN v
  BY DEF Visible, Scoped
<1> QED
  BY <1>1, SomeFrames

\* Groups of some time, and how long.
Spanned(k) == Policy[k] \in {"isolated", "rolling_24h"}
Limit(k)   == IF Policy[k] = "isolated" THEN Span[k] ELSE Day

\* A frame is in the bucket of l.
Reached(v, k, l, f) ==
  IF Spanned(k) THEN f.time - l.time \in 0..Limit(k)
  ELSE Inside(k, f) /\ KeyOf(v, k, f) = KeyOf(v, k, l)

BucketOf(v, k, l) == {f \in Visible(v, k) : Reached(v, k, l, f)}

LEMMA LimitType ==
  ASSUME NEW k \in Grouped
  PROVE  Limit(k) \in Nat /\ Limit(k) >= 0
<1>1. Span[k] \in Nat /\ Day \in Nat
  BY Policies
<1> QED
  BY <1>1 DEF Limit

LEMMA SpannedBuckets ==
  ASSUME NEW v, NEW k, Spanned(k)
  PROVE  Buckets(v, k) = Split(Visible(v, k), Limit(k))
<1> DEFINE S == Visible(v, k)
<1>1. {f \in S : Inside(k, f)} = S
  BY DEF Inside, Spanned
<1> HIDE DEF S
<1>2. CASE Policy[k] = "isolated"
  BY <1>1, <1>2 DEF Buckets, Limit, S
<1>3. CASE Policy[k] = "rolling_24h"
  BY <1>1, <1>3 DEF Buckets, Limit, S
<1> QED
  BY <1>2, <1>3 DEF Spanned

LEMMA BucketsWhole ==
  ASSUME NEW v, Frames(DOMAIN v), NEW k \in Grouped
  PROVE  /\ \A B \in Buckets(v, k) : \E l \in Visible(v, k) : l \in B /\ B = BucketOf(v, k, l)
         /\ \A f \in Visible(v, k) : Inside(k, f) => \E B \in Buckets(v, k) : f \in B
         /\ \A B, C \in Buckets(v, k) : B \intersect C # {} => B = C
<1> DEFINE S == Visible(v, k)
           I == {f \in S : Inside(k, f)}
<1>1. Frames(S)
  BY VisibleFrames
<1>2. Limit(k) \in Nat
  BY LimitType
<1>3. CASE Spanned(k)
  <2>1. I = S
    BY <1>3 DEF Inside, Spanned
  <2>2. Buckets(v, k) = Split(S, Limit(k))
    BY <1>3, SpannedBuckets
  <2>3. \A l : BucketOf(v, k, l) = {f \in S : f.time - l.time \in 0..Limit(k)}
    BY <1>3 DEF BucketOf, Reached
  <2> HIDE DEF S, I
  <2>4. /\ \A G \in Split(S, Limit(k)) :
             \E l \in S : l \in G /\ G = {f \in S : f.time - l.time \in 0..Limit(k)}
        /\ \A f \in S : \E G \in Split(S, Limit(k)) : f \in G
        /\ \A G, H \in Split(S, Limit(k)) : G \intersect H # {} => G = H
    BY <1>1, <1>2, SplitGroups
  <2>5. ASSUME NEW B \in Buckets(v, k)
        PROVE  \E l \in S : l \in B /\ B = BucketOf(v, k, l)
    <3>1. PICK l \in S : l \in B /\ B = {f \in S : f.time - l.time \in 0..Limit(k)}
      BY <2>2, <2>4
    <3>2. B = BucketOf(v, k, l)
      BY <2>3, <3>1
    <3> QED
      BY <3>1, <3>2
  <2> QED
    BY <2>1, <2>2, <2>4, <2>5 DEF S
<1>4. CASE ~Spanned(k)
  <2> DEFINE key == [f \in I |-> KeyOf(v, k, f)]
  <2>1. Buckets(v, k) = PartitionBy(I, key)
    BY <1>4, Policies DEF Buckets, Spanned
  <2>2. \A l \in I : BucketOf(v, k, l) = {g \in I : key[g] = key[l]}
    BY <1>4 DEF BucketOf, Reached
  <2>3. Buckets(v, k) = {{g \in I : key[g] = key[f]} : f \in I}
    BY <2>1 DEF PartitionBy
  <2>4. I \subseteq S /\ \A f \in S : Inside(k, f) => f \in I
    OBVIOUS
  <2> HIDE DEF key, I, S
  <2>5. ASSUME NEW B \in Buckets(v, k)
        PROVE  \E l \in S : l \in B /\ B = BucketOf(v, k, l)
    <3>1. PICK l \in I : B = {g \in I : key[g] = key[l]}
      BY <2>3
    <3> QED
      BY <2>2, <2>4, <3>1
  <2>6. ASSUME NEW f \in S, Inside(k, f) PROVE \E B \in Buckets(v, k) : f \in B
    <3>1. f \in {g \in I : key[g] = key[f]} /\ {g \in I : key[g] = key[f]} \in Buckets(v, k)
      BY <2>3, <2>4, <2>6
    <3> QED
      BY <3>1
  <2>7. \A B, C \in Buckets(v, k) : B \intersect C # {} => B = C
    BY <2>3
  <2> QED
    BY <2>5, <2>6, <2>7 DEF S
<1> QED
  BY <1>3, <1>4

\* A group is what is of one class in a bucket.
LEMMA GroupsOfBuckets ==
  ASSUME NEW v, NEW k
  PROVE  /\ \A g \in Groups(v, k) : \E B \in Buckets(v, k) : \E e \in B :
              g = {f \in B : Class(v, k, f) = Class(v, k, e)} /\ Cardinality(g) >= Minimum[k]
         /\ \A B \in Buckets(v, k) : \A e \in B :
              LET g == {f \in B : Class(v, k, f) = Class(v, k, e)}
              IN  Cardinality(g) >= Minimum[k] => g \in Groups(v, k)
<1> DEFINE Of(B, e) == {f \in B : Class(v, k, f) = Class(v, k, e)}
           key(B) == [f \in B |-> Class(v, k, f)]
<1>1. ASSUME NEW B
      PROVE  PartitionBy(B, key(B)) = {Of(B, e) : e \in B}
  <2>1. \A f, e \in B : key(B)[f] = key(B)[e] <=> Class(v, k, f) = Class(v, k, e)
    OBVIOUS
  <2>2. \A e \in B : {g \in B : key(B)[g] = key(B)[e]} = Of(B, e)
    BY <2>1
  <2> HIDE DEF Of, key
  <2> QED
    BY <2>2 DEF PartitionBy
<1>2. Groups(v, k) = {g \in UNION {PartitionBy(B, key(B)) : B \in Buckets(v, k)} :
                        Cardinality(g) >= Minimum[k]}
  BY DEF Groups
<1> HIDE DEF key
<1>3. \A g \in Groups(v, k) : \E B \in Buckets(v, k) : \E e \in B :
        g = Of(B, e) /\ Cardinality(g) >= Minimum[k]
  <2> HIDE DEF Of
  <2> QED
    BY <1>1, <1>2
<1>4. \A B \in Buckets(v, k) : \A e \in B :
        Cardinality(Of(B, e)) >= Minimum[k] => Of(B, e) \in Groups(v, k)
  <2> HIDE DEF Of
  <2> QED
    BY <1>1, <1>2
<1> QED
  BY <1>3, <1>4

LEMMA ClassOfOthers ==
  ASSUME NEW v, NEW k, k # "dark", NEW f
  PROVE  Class(v, k, f) = 0
  BY DEF Class

\* A group is all of its class in the bucket of one frame, and no other group is
\* partly in that bucket; no frame is in two groups, and none is dropped that is in
\* an interval when one is enough.
LEMMA GroupsReach ==
  ASSUME NEW v, Frames(DOMAIN v), NEW k \in Grouped
  PROVE  /\ \A g \in Groups(v, k) : g # {} /\ g \subseteq Visible(v, k)
         /\ \A g \in Groups(v, k) : \E l \in Visible(v, k) :
              /\ l \in g \/ k = "dark"
              /\ \A e \in g : g = {f \in BucketOf(v, k, l) : Class(v, k, f) = Class(v, k, e)}
              /\ \A h \in Groups(v, k) :
                   h \subseteq BucketOf(v, k, l) \/ h \intersect BucketOf(v, k, l) = {}
         /\ \A g, h \in Groups(v, k) : g \intersect h # {} => g = h
         /\ Minimum[k] <= 1 =>
              \A f \in Visible(v, k) : Inside(k, f) => \E g \in Groups(v, k) : f \in g
<1> DEFINE S == Visible(v, k)
           Of(B, e) == {f \in B : Class(v, k, f) = Class(v, k, e)}
<1>1. Frames(S)
  BY VisibleFrames
<1> HIDE DEF S
<1>2. /\ \A B \in Buckets(v, k) : \E l \in S : l \in B /\ B = BucketOf(v, k, l)
      /\ \A f \in S : Inside(k, f) => \E B \in Buckets(v, k) : f \in B
      /\ \A B, C \in Buckets(v, k) : B \intersect C # {} => B = C
      /\ \A l : BucketOf(v, k, l) \subseteq S
  BY BucketsWhole DEF S, BucketOf
<1>3. ASSUME NEW g \in Groups(v, k)
      PROVE  \E B \in Buckets(v, k) : \E e \in B : g = Of(B, e)
  BY GroupsOfBuckets
<1>4. \A g \in Groups(v, k) : g # {} /\ g \subseteq S
  BY <1>2, <1>3
<1>5. ASSUME NEW g \in Groups(v, k)
      PROVE  \E l \in S :
               /\ l \in g \/ k = "dark"
               /\ \A e \in g : g = Of(BucketOf(v, k, l), e)
               /\ \A h \in Groups(v, k) :
                    h \subseteq BucketOf(v, k, l) \/ h \intersect BucketOf(v, k, l) = {}
  <2>1. PICK B \in Buckets(v, k) : \E c \in B : g = Of(B, c)
    BY <1>3
  <2>2. PICK c \in B : g = Of(B, c)
    BY <2>1
  <2>3. PICK l \in S : l \in B /\ B = BucketOf(v, k, l)
    BY <1>2
  <2>4. l \in g \/ k = "dark"
    BY <2>2, <2>3, ClassOfOthers
  <2>5. \A e \in g : g = Of(B, e)
    BY <2>2
  <2>6. ASSUME NEW h \in Groups(v, k), h \intersect B # {} PROVE h \subseteq B
    <3>1. PICK C \in Buckets(v, k) : \E d \in C : h = Of(C, d)
      BY <1>3
    <3>2. h \subseteq C
      BY <3>1
    <3>3. B = C
      BY <1>2, <2>6, <3>2
    <3> QED
      BY <3>2, <3>3
  <2> HIDE DEF Of
  <2> QED
    BY <2>3, <2>4, <2>5, <2>6
<1>6. ASSUME NEW g \in Groups(v, k), NEW h \in Groups(v, k), g \intersect h # {}
      PROVE  g = h
  <2>1. PICK e : e \in g /\ e \in h
    BY <1>6
  <2>2. PICK B \in Buckets(v, k) : \E c \in B : g = Of(B, c)
    BY <1>3
  <2>3. PICK C \in Buckets(v, k) : \E c \in C : h = Of(C, c)
    BY <1>3
  <2>4. g = Of(B, e) /\ h = Of(C, e) /\ e \in B /\ e \in C
    BY <2>1, <2>2, <2>3
  <2>5. B = C
    BY <1>2, <2>4
  <2> QED
    BY <2>4, <2>5
<1>7. ASSUME Minimum[k] <= 1, NEW f \in S, Inside(k, f)
      PROVE  \E g \in Groups(v, k) : f \in g
  <2>1. PICK B \in Buckets(v, k) : f \in B
    BY <1>2, <1>7
  <2>2. B \subseteq S /\ f \in Of(B, f) /\ Of(B, f) \subseteq B
    BY <1>2, <2>1
  <2>3. Cardinality(Of(B, f)) >= 1
    <3>1. IsFiniteSet(Of(B, f)) /\ Of(B, f) # {}
      BY <1>1, <2>2, FS_Subset DEF Frames
    <3> HIDE DEF Of
    <3> QED
      BY <3>1, FS_EmptySet, FS_CardinalityType
  <2>4. Minimum[k] \in Nat /\ Cardinality(Of(B, f)) \in Nat
    <3>1. Of(B, f) \subseteq S
      BY <2>2
    <3> HIDE DEF Of
    <3> QED
      BY <1>1, <3>1, SomeFrames, Policies
  <2>5. Of(B, f) \in Groups(v, k)
    <3>1. Cardinality(Of(B, f)) >= Minimum[k]
      <4> HIDE DEF Of
      <4> QED
        BY <1>7, <2>3, <2>4
    <3> QED
      BY <2>1, <3>1, GroupsOfBuckets
  <2> QED
    BY <2>2, <2>5
<1> QED
  BY <1>4, <1>5, <1>6, <1>7 DEF S

LEMMA Division ==
  ASSUME NEW a \in Nat, NEW b \in Nat, NEW d \in Nat \ {0}, a < b, a \div d # b \div d
  PROVE  (a \div d + 1) * d <= (b \div d) * d
<1> DEFINE p == a \div d
           q == b \div d
<1>1. p \in Int /\ q \in Int /\ d * p <= a /\ a < d * (p + 1) /\ d * q <= b /\ b < d * (q + 1)
  OBVIOUS
<1>2. p + 1 <= q
  <2>1. SUFFICES ASSUME q + 1 <= p PROVE FALSE
    BY <1>1 DEF p, q
  <2> HIDE DEF p, q
  <2>2. d * (q + 1) <= d * p
    BY <1>1, <2>1
  <2> QED
    BY <1>1, <2>2
<1> HIDE DEF p, q
<1>3. (p + 1) * d <= q * d
  BY <1>1, <1>2
<1> QED
  BY <1>3 DEF p, q

\* The interval of a time begins with it or before and ends after it, and it is the
\* only one with its start and end that any time is in.
LEMMA IntervalHolds ==
  ASSUME NEW t, IntervalsAt(t) # {}
  PROVE  /\ IntervalAt(t) \in IntervalsAt(t) /\ IntervalAt(t) \in Nat
         /\ IntervalAt(t) \in DOMAIN Intervals
         /\ Intervals[IntervalAt(t)][1] <= t /\ t < Intervals[IntervalAt(t)][2]
         /\ \A j \in IntervalsAt(t) : IntervalAt(t) <= j
<1> DEFINE T == IntervalsAt(t)
<1>1. T \in SUBSET Nat /\ T # {}
  <2>1. Intervals \in Seq(Nat \X Nat)
    BY CadenceAssumption
  <2>2. DOMAIN Intervals \subseteq Nat
    BY <2>1
  <2> QED
    BY <2>2 DEF IntervalsAt
<1>2. PICK i \in T : \A j \in T : i <= j
  <2> HIDE DEF T
  <2> QED
    BY <1>1, LeastNatural
<1>3. IntervalAt(t) \in T /\ \A j \in T : IntervalAt(t) <= j
  BY <1>2 DEF IntervalAt
<1> QED
  BY <1>1, <1>3 DEF IntervalsAt

LEMMA OneInterval ==
  ASSUME NEW t, IntervalsAt(t) # {}, NEW u, IntervalsAt(u) # {},
         Intervals[IntervalAt(t)] = Intervals[IntervalAt(u)]
  PROVE  IntervalAt(t) = IntervalAt(u)
<1>1. IntervalAt(t) \in IntervalsAt(u) /\ IntervalAt(u) \in IntervalsAt(t)
  BY IntervalHolds DEF IntervalsAt
<1>2. IntervalAt(t) \in Nat /\ IntervalAt(u) \in Nat
  BY IntervalHolds
<1>3. IntervalAt(t) <= IntervalAt(u) /\ IntervalAt(u) <= IntervalAt(t)
  BY <1>1, IntervalHolds
<1> QED
  BY <1>2, <1>3

LEMMA ClassOfGroup ==
  ASSUME NEW v, Frames(DOMAIN v), NEW k \in Grouped, NEW g \in Groups(v, k)
  PROVE  \A e \in g : GroupClass(v, k, g) = Class(v, k, e)
<1>1. PICK c : c = CHOOSE f \in g : TRUE
  OBVIOUS
<1>2. c \in g
  BY <1>1, GroupsReach
<1>3. \A e \in g : Class(v, k, c) = Class(v, k, e)
  BY <1>2, GroupsReach
<1> QED
  BY <1>1, <1>3 DEF GroupClass

\* The intervals of two groups are one after the other.
LEMMA ApplicableInOrder ==
  ASSUME NEW v, Frames(DOMAIN v), NEW k \in Grouped,
         NEW g \in Groups(v, k), NEW h \in Groups(v, k),
         FirstTime(g) < FirstTime(h), GroupClass(v, k, g) = GroupClass(v, k, h),
         ~ MayOverlap(k, g, h)
  PROVE  Applicable(k, g)[2] <= Applicable(k, h)[1]
<1> DEFINE S == Visible(v, k)
<1>1. /\ g # {} /\ g \subseteq S /\ h # {} /\ h \subseteq S
      /\ g \intersect h # {} => g = h
  BY GroupsReach
<1>2. Frames(S) /\ Frames(g) /\ Frames(h)
  BY <1>1, VisibleFrames, SomeFrames
<1>3. PICK m \in h : m.time = FirstTime(h)
  BY <1>1, <1>2, FirstAndLast
<1>4. PICK e \in g : e.time = FirstTime(g)
  BY <1>1, <1>2, FirstAndLast
<1>5. PICK n \in g : n.time = LastTime(g)
  BY <1>1, <1>2, FirstAndLast
<1>6. e.time \in Nat /\ m.time \in Nat /\ n.time \in Nat /\ e.time < m.time
  BY <1>1, <1>2, <1>3, <1>4, <1>5, FirstAndLast, SomeFrames
<1>7. PICK l \in S :
        /\ l \in g \/ k = "dark"
        /\ \A c \in g : g = {f \in BucketOf(v, k, l) : Class(v, k, f) = Class(v, k, c)}
  BY GroupsReach
<1>8. l.time \in Nat /\ Reached(v, k, l, e) /\ Reached(v, k, l, n)
  <2>1. e \in BucketOf(v, k, l) /\ n \in BucketOf(v, k, l)
    BY <1>7
  <2> QED
    BY <1>2, <2>1 DEF BucketOf, Frames, Frame
<1>9. ~ Reached(v, k, l, m)
  <2>1. Class(v, k, m) = Class(v, k, e)
    BY ClassOfGroup
  <2>2. Reached(v, k, l, m) => m \in g
    BY <1>1, <1>7, <2>1 DEF BucketOf
  <2>3. m \notin g
    BY <1>1, <1>6, <1>3, <1>4
  <2> QED
    BY <2>2, <2>3
<1>10. Span[k] \in Nat \ {0} /\ Day \in Nat \ {0}
  BY Policies
<1>11. CASE Spanned(k)
  <2>1. /\ e.time - l.time \in 0..Limit(k) /\ n.time - l.time \in 0..Limit(k)
        /\ ~ (m.time - l.time \in 0..Limit(k))
    BY <1>8, <1>9, <1>11 DEF Reached
  <2>2. l.time <= e.time /\ n.time <= l.time + Limit(k) /\ l.time + Limit(k) < m.time
    BY <1>6, <1>8, <2>1, LimitType
  <2>3. CASE Policy[k] = "isolated"
    <3>1. Applicable(k, g)[2] = n.time /\ Applicable(k, h)[1] = m.time
      BY <1>3, <1>5, <2>3 DEF Applicable
    <3> QED
      BY <1>6, <1>8, <2>2, <3>1, LimitType
  <2>4. CASE Policy[k] = "rolling_24h"
    <3>1. Applicable(k, g)[2] = e.time + Day /\ Applicable(k, h)[1] = m.time
      BY <1>3, <1>4, <2>4 DEF Applicable
    <3>2. l \in g /\ Limit(k) = Day
      BY <1>7, <2>4 DEF MayOverlap, Limit
    <3>3. e.time <= l.time
      BY <1>1, <1>2, <1>4, <3>2, FirstAndLast
    <3> QED
      BY <1>6, <1>8, <1>10, <2>2, <3>1, <3>2, <3>3
  <2> QED
    BY <1>11, <2>3, <2>4 DEF Spanned
<1>12. CASE ~Spanned(k)
  <2>1. Inside(k, e) /\ KeyOf(v, k, e) = KeyOf(v, k, l)
    BY <1>8, <1>12 DEF Reached
  <2>2. Inside(k, m)
    <3>1. PICK r \in S : h = {f \in BucketOf(v, k, r) : Class(v, k, f) = Class(v, k, m)}
      BY GroupsReach
    <3>2. Reached(v, k, r, m)
      BY <3>1 DEF BucketOf
    <3> QED
      BY <1>12, <3>2 DEF Reached
  <2>3. KeyOf(v, k, m) # KeyOf(v, k, e)
    BY <1>9, <1>12, <2>1, <2>2 DEF Reached
  <2>4. CASE Policy[k] = "calendar"
    <3>1. e.time \div Span[k] # m.time \div Span[k]
      BY <2>3, <2>4 DEF KeyOf
    <3>2. (e.time \div Span[k] + 1) * Span[k] <= (m.time \div Span[k]) * Span[k]
      BY <1>6, <1>10, <3>1, Division
    <3> QED
      BY <1>3, <1>4, <2>4, <3>2 DEF Applicable
  <2>5. CASE Policy[k] = "intervals"
    <3> DEFINE I == Intervals[IntervalAt(e.time)]
               J == Intervals[IntervalAt(m.time)]
    <3>1. IntervalsAt(e.time) # {} /\ IntervalsAt(m.time) # {}
      BY <2>1, <2>2, <2>5 DEF Inside
    <3>2. /\ I[1] <= e.time /\ m.time < J[2]
          /\ IntervalAt(e.time) \in DOMAIN Intervals /\ IntervalAt(m.time) \in DOMAIN Intervals
      BY <3>1, IntervalHolds
    <3>3. I[1] \in Nat /\ I[2] \in Nat /\ J[1] \in Nat /\ J[2] \in Nat
      <4>1. \A x \in DOMAIN Intervals : Intervals[x] \in Nat \X Nat
        BY CadenceAssumption
      <4>2. \A x \in DOMAIN Intervals : Intervals[x][1] \in Nat /\ Intervals[x][2] \in Nat
        BY <4>1
      <4> QED
        BY <3>2, <4>2
    <3>4. I # J
      <4>1. IntervalAt(e.time) # IntervalAt(m.time)
        BY <2>3, <2>5 DEF KeyOf
      <4> QED
        BY <3>1, <4>1, OneInterval
    <3>5. Applicable(k, g) = I /\ Applicable(k, h) = J
      BY <1>3, <1>4, <2>5 DEF Applicable
    <3> HIDE DEF I, J
    <3>6. ~ (I[1] < J[2] /\ J[1] < I[2])
      BY <2>5, <3>4, <3>5 DEF MayOverlap, Overlap
    <3> QED
      BY <1>6, <3>2, <3>3, <3>5, <3>6
  <2> QED
    BY <1>12, <2>4, <2>5, Policies DEF MayOverlap, Spanned
<1> QED
  BY <1>11, <1>12

-----------------------------------------------------------------------------
(* Windows of a count                                                      *)

LEMMA EndOfIs ==
  ASSUME NEW n \in Nat, NEW rows, Len(rows) = n, InOrder(rows, n), NEW k \in Kind, NEW i \in 1..n
  PROVE  /\ EndOf(rows, k, i) \in i..n /\ EndOf(rows, k, i) \in Ends(rows, k, i)
         /\ \A j \in Ends(rows, k, i) : j <= EndOf(rows, k, i)
<1> DEFINE E == Ends(rows, k, i)
           T == {n - j : j \in E}
<1>1. More(k) \in Nat
  BY Policies DEF More
<1>2. i \in E
  <2>1. rows[i].time - rows[i].time = 0
    BY DEF InOrder
  <2>2. 0 \div Day = 0 /\ Span[k] \in Nat
    BY Policies
  <2>3. Days(rows, i, i) <= Span[k]
    BY <2>1, <2>2 DEF Days
  <2> QED
    BY <1>1, <2>3 DEF Ends
<1>3. E \subseteq i..n
  BY DEF Ends
<1> HIDE DEF E
<1>4. PICK t \in T : \A u \in T : t <= u
  <2>1. T \in SUBSET Nat /\ T # {}
    BY <1>2, <1>3
  <2> HIDE DEF T
  <2> QED
    BY <2>1, LeastNatural
<1>5. PICK j \in E : t = n - j
  BY <1>4
<1>6. \A l \in E : l <= j
  <2> TAKE l \in E
  <2>1. n - j <= n - l
    BY <1>4, <1>5
  <2> QED
    BY <1>3, <2>1
<1>7. EndOf(rows, k, i) \in E /\ \A l \in E : l <= EndOf(rows, k, i)
  BY <1>5, <1>6 DEF EndOf, E
<1> QED
  BY <1>3, <1>7 DEF E

Rolled(f, n, stop, w, next) ==
  f = [i \in 1..(n + 1) |-> IF stop[i] THEN {} ELSE {w[i]} \union f[next[i]]]

\* A function on 1..N+1 that is defined from a later value of its.
LEMMA Downward ==
  ASSUME NEW n \in Nat, NEW stop, stop[n + 1], NEW w,
         NEW next, \A i \in 1..n : next[i] \in (i + 1)..(n + 1)
  PROVE  \E f : Rolled(f, n, stop, w, next)
<1> DEFINE Rec(m, f) ==
             f = [i \in (n + 1 - m)..(n + 1) |-> IF stop[i] THEN {} ELSE {w[i]} \union f[next[i]]]
           P == [m \in 0..n |-> \E f : Rec(m, f)]
<1>1. \E f : Rec(0, f)
  <2> DEFINE f == [i \in (n + 1)..(n + 1) |-> {}]
  <2>1. \A i \in (n + 1)..(n + 1) : i = n + 1 /\ stop[i]
    OBVIOUS
  <2>2. f = [i \in (n + 1)..(n + 1) |-> IF stop[i] THEN {} ELSE {w[i]} \union f[next[i]]]
    BY <2>1
  <2>3. (n + 1) - 0 = n + 1
    OBVIOUS
  <2> HIDE DEF f
  <2> QED
    BY <2>2, <2>3
<1>2. ASSUME NEW m \in 1..n, NEW g, Rec(m - 1, g) PROVE \E f : Rec(m, f)
  <2> DEFINE a == n + 1 - m
             f == [i \in a..(n + 1) |->
                     IF i = a THEN IF stop[a] THEN {} ELSE {w[a]} \union g[next[a]] ELSE g[i]]
  <2>1. a \in 1..n /\ n + 1 - (m - 1) = a + 1
    OBVIOUS
  <2>2. g = [i \in (a + 1)..(n + 1) |-> IF stop[i] THEN {} ELSE {w[i]} \union g[next[i]]]
    BY <1>2, <2>1
  <2> HIDE DEF a
  <2>3. \A i \in a..(n + 1) : i # a => i \in (a + 1)..(n + 1)
    BY <2>1
  <2>4. \A i \in a..(n + 1) : i # n + 1 => /\ next[i] \in (a + 1)..(n + 1)
                                          /\ f[next[i]] = g[next[i]]
    <3> TAKE i \in a..(n + 1)
    <3> HAVE i # n + 1
    <3>1. i \in 1..n
      BY <2>1
    <3>2. next[i] \in (i + 1)..(n + 1)
      BY <3>1
    <3>3. next[i] \in (a + 1)..(n + 1)
      BY <2>1, <3>2
    <3> QED
      BY <2>1, <3>3
  <2>5. ASSUME NEW i \in a..(n + 1)
        PROVE  f[i] = IF stop[i] THEN {} ELSE {w[i]} \union f[next[i]]
    <3>1. CASE i = a
      <4>1. i # n + 1
        BY <2>1, <3>1
      <4>2. f[i] = IF stop[a] THEN {} ELSE {w[a]} \union g[next[a]]
        BY <3>1
      <4> HIDE DEF f
      <4> QED
        BY <2>4, <3>1, <4>1, <4>2
    <3>2. CASE i # a
      <4>1. i \in (a + 1)..(n + 1) /\ f[i] = g[i]
        BY <2>3, <3>2
      <4>2. f[i] = IF stop[i] THEN {} ELSE {w[i]} \union g[next[i]]
        BY <2>2, <4>1
      <4> HIDE DEF f
      <4>3. CASE i = n + 1
        BY <4>2, <4>3
      <4>4. CASE i # n + 1
        BY <2>4, <4>2, <4>4
      <4> QED
        BY <4>3, <4>4
    <3> QED
      BY <3>1, <3>2
  <2>6. f = [i \in a..(n + 1) |-> f[i]]
    OBVIOUS
  <2> HIDE DEF f
  <2>7. f = [i \in a..(n + 1) |-> IF stop[i] THEN {} ELSE {w[i]} \union f[next[i]]]
    BY <2>5, <2>6
  <2> QED
    BY <2>7 DEF a
<1>3. \A m \in 0..n : P[m]
  <2>1. P[0] /\ P \in [0..n -> BOOLEAN]
    <3>1. 0 \in 0..n
      OBVIOUS
    <3> HIDE DEF Rec
    <3> QED
      BY <1>1, <3>1
  <2>2. \A m \in 1..n : P[m - 1] => P[m]
    <3> TAKE m \in 1..n
    <3>1. m \in 0..n /\ m - 1 \in 0..n
      OBVIOUS
    <3> HIDE DEF Rec
    <3> QED
      BY <1>2, <3>1
  <2> HIDE DEF P
  <2> QED
    BY <2>1, <2>2, UpTo
<1>4. \E f : Rec(n, f)
  <2>1. n \in 0..n
    OBVIOUS
  <2> HIDE DEF Rec
  <2> QED
    BY <1>3, <2>1
<1>5. n + 1 - n = 1
  OBVIOUS
<1> QED
  BY <1>4, <1>5 DEF Rolled

\* C is where the windows from row i on begin, one after the end of the other.
Chained(C, i, n, rows, k) ==
  /\ C \subseteq i..n
  /\ \A a \in C : Closed(rows, k, a)
  /\ \A a \in C : a = i \/ \E b \in C : b < a /\ a = EndOf(rows, k, b) + 1
  /\ i <= n /\ Closed(rows, k, i) => i \in C
  /\ \A a \in C : EndOf(rows, k, a) + 1 <= n /\ Closed(rows, k, EndOf(rows, k, a) + 1)
                    => EndOf(rows, k, a) + 1 \in C

WindowOf(rows, k, a) == <<rows[a].time, rows[EndOf(rows, k, a)].time>>

LEMMA ChainExtends ==
  ASSUME NEW n \in Nat, NEW rows, Len(rows) = n, InOrder(rows, n), NEW k \in Kind,
         NEW i \in 1..n, NEW C
  PROVE  /\ ~ Closed(rows, k, i) => Chained({}, i, n, rows, k)
         /\ Closed(rows, k, i) /\ Chained(C, EndOf(rows, k, i) + 1, n, rows, k)
              => Chained({i} \union C, i, n, rows, k)
<1>1. ~ Closed(rows, k, i) => Chained({}, i, n, rows, k)
  BY DEF Chained
<1>2. ASSUME Closed(rows, k, i), Chained(C, EndOf(rows, k, i) + 1, n, rows, k)
      PROVE  Chained({i} \union C, i, n, rows, k)
  <2> DEFINE e == EndOf(rows, k, i)
             D == {i} \union C
  <2>1. e \in i..n
    BY EndOfIs
  <2> HIDE DEF e
  <2>2. /\ C \subseteq (e + 1)..n /\ \A a \in C : Closed(rows, k, a)
        /\ \A a \in C : a = e + 1 \/ \E b \in C : b < a /\ a = EndOf(rows, k, b) + 1
        /\ e + 1 <= n /\ Closed(rows, k, e + 1) => e + 1 \in C
        /\ \A a \in C : EndOf(rows, k, a) + 1 <= n /\ Closed(rows, k, EndOf(rows, k, a) + 1)
                          => EndOf(rows, k, a) + 1 \in C
    BY <1>2 DEF Chained, e
  <2>3. D \subseteq i..n /\ \A a \in D : Closed(rows, k, a)
    BY <1>2, <2>1, <2>2
  <2>4. ASSUME NEW a \in D
        PROVE  a = i \/ \E b \in D : b < a /\ a = EndOf(rows, k, b) + 1
    <3>1. CASE a = e + 1
      <4>1. i \in D /\ i < a /\ a = EndOf(rows, k, i) + 1
        BY <2>1, <3>1 DEF e
      <4> QED
        BY <4>1
    <3> QED
      BY <2>2, <2>4, <3>1
  <2>5. ASSUME NEW a \in D, EndOf(rows, k, a) + 1 <= n, Closed(rows, k, EndOf(rows, k, a) + 1)
        PROVE  EndOf(rows, k, a) + 1 \in D
    <3>1. CASE a = i
      BY <2>2, <2>5, <3>1 DEF e
    <3>2. CASE a \in C
      BY <2>2, <2>5, <3>2
    <3> QED
      BY <3>1, <3>2
  <2> QED
    BY <2>3, <2>4, <2>5 DEF Chained
<1> QED
  BY <1>1, <1>2

LEMMA WindowsChained ==
  ASSUME NEW S, Frames(S), NEW k \in Kind, NEW n, n = Cardinality(S),
         NEW rows, rows = Chronological(S)
  PROVE  \E C : /\ Chained(C, 1, n, rows, k)
                /\ CountWindows(S, k) = {WindowOf(rows, k, a) : a \in C}
<1>1. n \in Nat /\ Len(rows) = n /\ InOrder(rows, n)
  BY ChronologicalSorted
<1> DEFINE Stop(i) == i > n \/ ~ Closed(rows, k, i)
           Rec(f) == f = [i \in 1..(n + 1) |->
                            IF Stop(i) THEN {}
                            ELSE {WindowOf(rows, k, i)} \union f[EndOf(rows, k, i) + 1]]
           roll == CHOOSE f : Rec(f)
<1>2. CountWindows(S, k) = roll[1]
  <2>1. CountWindows(S, k) =
          (CHOOSE f : f = [i \in 1..(Len(rows) + 1) |->
             IF i > Len(rows) \/ ~ Closed(rows, k, i) THEN {}
             ELSE {<<rows[i].time, rows[EndOf(rows, k, i)].time>>} \union f[EndOf(rows, k, i) + 1]])[1]
    BY DEF CountWindows
  <2> QED
    BY <1>1, <2>1 DEF WindowOf
<1>3. \A i \in 1..n : EndOf(rows, k, i) \in i..n /\ EndOf(rows, k, i) + 1 \in (i + 1)..(n + 1)
  BY <1>1, EndOfIs
<1>4. \E f : Rec(f)
  <2> DEFINE stop == [i \in 1..(n + 1) |-> Stop(i)]
             w    == [i \in 1..n |-> WindowOf(rows, k, i)]
             next == [i \in 1..n |-> EndOf(rows, k, i) + 1]
  <2>1. stop[n + 1]
    <3>1. n + 1 \in 1..(n + 1) /\ n + 1 > n
      BY <1>1
    <3>2. Stop(n + 1)
      BY <3>1
    <3> HIDE DEF Stop
    <3> QED
      BY <3>1, <3>2
  <2>2. \A i \in 1..n : next[i] \in (i + 1)..(n + 1)
    BY <1>3
  <2>4. ASSUME NEW i \in 1..(n + 1)
        PROVE  /\ stop[i] = Stop(i)
               /\ ~ Stop(i) => w[i] = WindowOf(rows, k, i) /\ next[i] = EndOf(rows, k, i) + 1
    <3>1. ~ Stop(i) => i \in 1..n
      BY <1>1
    <3> HIDE DEF Stop
    <3> QED
      BY <3>1
  <2> HIDE DEF stop, w, next, Stop
  <2>3. PICK f : Rolled(f, n, stop, w, next)
    BY <1>1, <2>1, <2>2, Downward
  <2>5. Rec(f)
    <3>1. \A i \in 1..(n + 1) :
            (IF stop[i] THEN {} ELSE {w[i]} \union f[next[i]])
              = (IF Stop(i) THEN {} ELSE {WindowOf(rows, k, i)} \union f[EndOf(rows, k, i) + 1])
      BY <2>4
    <3> QED
      BY <2>3, <3>1 DEF Rolled
  <2> QED
    BY <2>5
<1>5. Rec(roll)
  <2> HIDE DEF Rec
  <2> QED
    BY <1>4
<1> HIDE DEF roll
<1>6. \A i \in 1..(n + 1) :
        roll[i] = IF Stop(i) THEN {}
                  ELSE {WindowOf(rows, k, i)} \union roll[EndOf(rows, k, i) + 1]
  BY <1>5
<1> HIDE DEF Rec
<1> DEFINE Good(i) == \E C : Chained(C, i, n, rows, k)
                             /\ roll[i] = {WindowOf(rows, k, a) : a \in C}
           Bad == {n + 1 - i : i \in {j \in 1..(n + 1) : ~ Good(j)}}
<1>7. Bad = {}
  <2> SUFFICES ASSUME Bad # {} PROVE FALSE
    OBVIOUS
  <2>1. PICK m \in Bad : \A l \in Bad : m <= l
    <3>1. Bad \in SUBSET Nat
      BY <1>1
    <3> HIDE DEF Bad
    <3> QED
      BY <3>1, LeastNatural
  <2>2. PICK i \in 1..(n + 1) : ~ Good(i) /\ m = n + 1 - i
    BY <2>1
  <2>3. \A j \in 1..(n + 1) : j > i => Good(j)
    <3> TAKE j \in 1..(n + 1)
    <3> HAVE j > i
    <3>1. ~ (n + 1 - i <= n + 1 - j)
      BY <1>1
    <3>2. ~ Good(j) => n + 1 - j \in Bad
      OBVIOUS
    <3> HIDE DEF Bad, Good
    <3> QED
      BY <2>1, <2>2, <3>1, <3>2
  <2>4. CASE i = n + 1
    <3>1. Stop(i) /\ ~ (i <= n)
      BY <1>1, <2>4
    <3>2. roll[i] = {}
      <4> HIDE DEF Stop
      <4> QED
        BY <1>6, <3>1
    <3>3. Chained({}, i, n, rows, k)
      BY <3>1 DEF Chained
    <3> QED
      BY <2>2, <3>2, <3>3
  <2>5. CASE i # n + 1 /\ ~ Closed(rows, k, i)
    <3>1. i \in 1..n
      BY <1>1, <2>5
    <3>2. Chained({}, i, n, rows, k)
      BY <1>1, <2>5, <3>1, ChainExtends
    <3>3. Stop(i) /\ i \in 1..(n + 1)
      BY <2>5
    <3>4. roll[i] = {}
      <4> HIDE DEF Stop
      <4> QED
        BY <1>6, <3>3
    <3> QED
      BY <2>2, <3>2, <3>4
  <2>6. CASE i # n + 1 /\ Closed(rows, k, i)
    <3>1. i \in 1..n
      BY <1>1, <2>6
    <3>2. EndOf(rows, k, i) + 1 \in 1..(n + 1) /\ EndOf(rows, k, i) + 1 > i
      <4>1. EndOf(rows, k, i) \in i..n
        BY <1>3, <3>1
      <4> QED
        BY <1>1, <3>1, <4>1
    <3>3. PICK C : /\ Chained(C, EndOf(rows, k, i) + 1, n, rows, k)
                   /\ roll[EndOf(rows, k, i) + 1] = {WindowOf(rows, k, a) : a \in C}
      BY <2>3, <3>2
    <3>4. Chained({i} \union C, i, n, rows, k)
      BY <1>1, <2>6, <3>1, <3>3, ChainExtends
    <3>5. roll[i] = {WindowOf(rows, k, i)} \union {WindowOf(rows, k, a) : a \in C}
      <4>1. ~ Stop(i)
        BY <1>1, <2>6, <3>1
      <4> HIDE DEF Stop
      <4> QED
        BY <1>6, <3>3, <4>1
    <3>6. roll[i] = {WindowOf(rows, k, a) : a \in {i} \union C}
      BY <3>5
    <3> QED
      BY <2>2, <3>4, <3>6
  <2> QED
    BY <2>4, <2>5, <2>6
<1>8. Good(1)
  <2>1. 1 \in 1..(n + 1)
    BY <1>1
  <2> HIDE DEF Good
  <2> QED
    BY <1>7, <2>1
<1> QED
  BY <1>2, <1>8

\* The windows do not overlap, and only what comes after them is in none.
LEMMA WindowsApart ==
  ASSUME NEW n \in Nat, NEW rows, Len(rows) = n, InOrder(rows, n), NEW k \in Kind,
         NEW C, Chained(C, 1, n, rows, k)
  PROVE  /\ \A a, b \in C : a < b => EndOf(rows, k, a) < b
         /\ \A m \in 1..n : (\A a \in C : ~ (a <= m /\ m <= EndOf(rows, k, a)))
              => \A a \in C : EndOf(rows, k, a) < m
<1> DEFINE E(a) == EndOf(rows, k, a)
<1>1. C \subseteq 1..n /\ \A a \in C : E(a) \in a..n
  BY EndOfIs DEF Chained
<1>2. \A a \in C : a = 1 \/ \E b \in C : b < a /\ a = E(b) + 1
  BY DEF Chained
<1> HIDE DEF E
<1>3. \A a, b \in C : a < b => E(a) < b
  <2> DEFINE Bad == {b \in C : \E a \in C : a < b /\ b <= E(a)}
  <2> SUFFICES ASSUME Bad # {} PROVE FALSE
    BY <1>1
  <2>1. PICK b \in Bad : \A d \in Bad : b <= d
    <3>1. \A c \in C : c \in Nat
      BY <1>1
    <3>2. Bad \in SUBSET Nat
      BY <3>1
    <3> HIDE DEF Bad
    <3> QED
      BY <3>2, LeastNatural
  <2>2. PICK a \in C : a < b /\ b <= E(a)
    BY <2>1
  <2>3. PICK c \in C : c < b /\ b = E(c) + 1
    BY <1>1, <1>2, <2>1, <2>2
  <2>4. CASE c = a
    BY <1>1, <2>2, <2>3, <2>4
  <2>5. CASE a < c
    <3>1. c \in Bad
      BY <1>1, <2>2, <2>3, <2>5
    <3> QED
      BY <1>1, <2>1, <2>3, <3>1
  <2>6. CASE c < a
    <3>1. a \in Bad
      BY <1>1, <2>1, <2>2, <2>3, <2>6
    <3> QED
      BY <1>1, <2>1, <2>2, <3>1
  <2> QED
    BY <1>1, <2>4, <2>5, <2>6
<1>4. ASSUME NEW m \in 1..n, \A a \in C : ~ (a <= m /\ m <= E(a)), NEW d \in C, ~ (E(d) < m)
      PROVE  FALSE
  <2> DEFINE T == {a \in C : a > m}
  <2>1. d \in T
    BY <1>1, <1>4
  <2>2. PICK a \in T : \A b \in T : a <= b
    <3>1. \A c \in C : c \in Nat
      BY <1>1
    <3>2. T \in SUBSET Nat /\ T # {}
      BY <2>1, <3>1
    <3> HIDE DEF T
    <3> QED
      BY <3>2, LeastNatural
  <2>3. a \in C /\ a > m /\ a # 1
    BY <2>2
  <2>4. PICK b \in C : b < a /\ a = E(b) + 1
    BY <1>2, <2>3
  <2>5. b <= m
    BY <1>1, <2>2, <2>4
  <2>6. m <= E(b)
    BY <1>1, <2>3, <2>4
  <2> QED
    BY <1>4, <2>4, <2>5, <2>6
<1> QED
  BY <1>3, <1>4 DEF E

\* Whatever the custom cadence: its windows begin and end at a frame, do not overlap, and only
\* what comes after them is in none.
LEMMA CustomWindowsApart ==
  ASSUME NEW v, Frames(DOMAIN v), NEW k \in Kind \ Grouped, NEW b,
         NEW S, S = Scoped(v, k), NEW W, W = CustomWindows(v, k, b)
  PROVE  /\ \A w \in W : /\ w[1] \in Nat /\ w[2] \in Nat /\ w[1] <= w[2]
                         /\ \E f \in S : f.time = w[1]
                         /\ \E f \in S : f.time = w[2]
         /\ \A w, u \in W : w[1] < u[1] => w[2] <= u[1]
         /\ \A f \in S : (\A w \in W : ~ (w[1] <= f.time /\ f.time <= w[2]))
              => \A w \in W : w[2] <= f.time
<1>1. Frames(S)
  BY VisibleFrames
<1>2. CASE Policy[k] = "time"
  <2>1. W = TimeWindows(S, k, b)
    BY <1>2 DEF CustomWindows
  <2>2. \A w \in W : S # {} /\ w = <<FirstTime(S), LastTime(S)>>
    BY <2>1 DEF TimeWindows
  <2>3. S # {} => /\ \E f \in S : f.time = FirstTime(S)
                  /\ \E f \in S : f.time = LastTime(S)
                  /\ \A f \in S : FirstTime(S) <= f.time /\ f.time <= LastTime(S)
                  /\ FirstTime(S) \in Nat /\ LastTime(S) \in Nat
    BY <1>1, FirstAndLast
  <2>4. \A w \in W : /\ w[1] = FirstTime(S) /\ w[2] = LastTime(S)
                     /\ w[1] \in Nat /\ w[2] \in Nat /\ w[1] <= w[2]
                     /\ \E f \in S : f.time = w[1]
                     /\ \E f \in S : f.time = w[2]
    <3> TAKE w \in W
    <3>1. w[1] = FirstTime(S) /\ w[2] = LastTime(S) /\ S # {}
      BY <2>2
    <3>2. PICK f \in S : f.time = FirstTime(S)
      BY <2>3, <3>1
    <3>3. FirstTime(S) <= LastTime(S)
      BY <2>3, <3>1, <3>2
    <3> QED
      BY <2>3, <3>1, <3>2, <3>3
  <2>5. \A w, u \in W : ~ (w[1] < u[1])
    BY <2>4
  <2>6. \A f \in S : \A w \in W : w[1] <= f.time /\ f.time <= w[2]
    BY <2>3, <2>4
  <2> QED
    BY <2>4, <2>5, <2>6
<1>3. CASE Policy[k] # "time"
  <2>1. W = CountWindows(S, k)
    BY <1>3 DEF CustomWindows
  <2> DEFINE n    == Cardinality(S)
             rows == Chronological(S)
             E(a) == EndOf(rows, k, a)
  <2>2. /\ n \in Nat /\ rows \in [1..n -> S] /\ Len(rows) = n /\ InOrder(rows, n)
        /\ \A f \in S : \E i \in 1..n : rows[i] = f
    BY <1>1, ChronologicalSorted
  <2>3. PICK C : /\ Chained(C, 1, n, rows, k)
                 /\ W = {WindowOf(rows, k, a) : a \in C}
    BY <1>1, <2>1, WindowsChained
  <2> HIDE DEF n, rows
  <2>4. C \subseteq 1..n /\ \A a \in C : E(a) \in a..n
    BY <2>2, <2>3, EndOfIs DEF Chained
  <2>5. /\ \A a, d \in C : a < d => E(a) < d
        /\ \A m \in 1..n : (\A a \in C : ~ (a <= m /\ m <= E(a))) => \A a \in C : E(a) < m
    BY <2>2, <2>3, WindowsApart
  <2> HIDE DEF E
  <2>6. \A w \in W : \E a \in C : w = <<rows[a].time, rows[E(a)].time>>
    BY <2>3 DEF WindowOf, E
  <2>7. /\ \A i \in 1..n : rows[i].time \in Nat
        /\ \A i, j \in 1..n : i <= j => rows[i].time <= rows[j].time
    BY <2>2 DEF InOrder
  <2>8. ASSUME NEW w \in W
        PROVE  /\ w[1] \in Nat /\ w[2] \in Nat /\ w[1] <= w[2]
               /\ \E f \in S : f.time = w[1]
               /\ \E f \in S : f.time = w[2]
    <3>1. PICK a \in C : w = <<rows[a].time, rows[E(a)].time>>
      BY <2>6
    <3>2. a \in 1..n /\ E(a) \in 1..n /\ a <= E(a)
      BY <2>2, <2>4
    <3>3. rows[a] \in S /\ rows[E(a)] \in S /\ w[1] = rows[a].time /\ w[2] = rows[E(a)].time
      BY <2>2, <3>1, <3>2
    <3> QED
      BY <2>7, <3>2, <3>3
  <2>9. ASSUME NEW w \in W, NEW u \in W, w[1] < u[1]
        PROVE  w[2] <= u[1]
    <3>1. PICK a \in C : w = <<rows[a].time, rows[E(a)].time>>
      BY <2>6
    <3>2. PICK d \in C : u = <<rows[d].time, rows[E(d)].time>>
      BY <2>6
    <3>3. a \in 1..n /\ d \in 1..n /\ E(a) \in 1..n
      BY <2>2, <2>4
    <3>4. rows[a].time < rows[d].time
      BY <2>9, <3>1, <3>2
    <3>5. ~ (d <= a)
      BY <2>7, <3>3, <3>4
    <3>6. E(a) <= d
      BY <2>5, <3>3, <3>5
    <3>7. rows[E(a)].time <= rows[d].time
      BY <2>7, <3>3, <3>6
    <3> QED
      BY <3>1, <3>2, <3>7
  <2>10. ASSUME NEW f \in S, \A w \in W : ~ (w[1] <= f.time /\ f.time <= w[2]), NEW u \in W
         PROVE  u[2] <= f.time
    <3>1. PICK m \in 1..n : rows[m] = f
      BY <2>2
    <3>2. ASSUME NEW a \in C PROVE ~ (a <= m /\ m <= E(a))
      <4> DEFINE w == WindowOf(rows, k, a)
      <4>1. w \in W /\ w[1] = rows[a].time /\ w[2] = rows[E(a)].time
        BY <2>3 DEF WindowOf, E
      <4>2. a \in 1..n /\ E(a) \in 1..n
        BY <2>2, <2>4
      <4> HIDE DEF w
      <4>3. ~ (rows[a].time <= rows[m].time /\ rows[m].time <= rows[E(a)].time)
        BY <2>10, <3>1, <4>1
      <4> QED
        BY <2>7, <4>2, <4>3
    <3>3. PICK d \in C : u = <<rows[d].time, rows[E(d)].time>>
      BY <2>6
    <3>4. E(d) < m /\ E(d) \in 1..n
      BY <2>2, <2>4, <2>5, <3>2
    <3>5. rows[E(d)].time <= rows[m].time
      BY <2>7, <3>4
    <3> QED
      BY <3>1, <3>3, <3>5
  <2> QED
    BY <2>8, <2>9, <2>10
<1> QED
  BY <1>2, <1>3

\* There is a target with the frames of every window, and every target is one of a window.
LEMMA WindowTargetsAre ==
  ASSUME NEW v, Frames(DOMAIN v), NEW k \in Kind \ Grouped, NEW b,
         NEW W, W = CustomWindows(v, k, b)
  PROVE  /\ \A t \in WindowTargets(v, k, b) : \E w \in W : t = WindowTarget(v, k, w)
         /\ \A w \in W : \E t \in WindowTargets(v, k, b) : t.frames = Between(v, k, w[1], w[2])
<1> DEFINE Of(w) == WindowTarget(v, k, w).frames
           earliest(w) == \A u \in W : Of(u) = Of(w) => w[1] <= u[1]
<1>1. WindowTargets(v, k, b) = {WindowTarget(v, k, w) : w \in {u \in W : earliest(u)}}
  BY DEF WindowTargets
<1>2. \A w : Of(w) = Between(v, k, w[1], w[2])
  BY DEF WindowTarget
<1> HIDE DEF Of
<1>3. ASSUME NEW w \in W PROVE \E u \in W : earliest(u) /\ Of(u) = Of(w)
  <2> DEFINE T == {u[1] : u \in {x \in W : Of(x) = Of(w)}}
  <2>1. T \in SUBSET Nat /\ T # {}
    BY CustomWindowsApart
  <2>2. PICK m \in T : \A l \in T : m <= l
    <3> HIDE DEF T
    <3> QED
      BY <2>1, LeastNatural
  <2>3. PICK u \in W : Of(u) = Of(w) /\ u[1] = m
    BY <2>2
  <2>4. \A x \in W : Of(x) = Of(w) => x[1] \in T
    OBVIOUS
  <2> HIDE DEF T
  <2>5. earliest(u)
    BY <2>2, <2>3, <2>4
  <2> QED
    BY <2>3, <2>5
<1>4. ASSUME NEW w \in W
      PROVE  \E t \in WindowTargets(v, k, b) : t.frames = Between(v, k, w[1], w[2])
  <2>1. PICK u \in W : earliest(u) /\ Of(u) = Of(w)
    BY <1>3
  <2>2. WindowTarget(v, k, u) \in WindowTargets(v, k, b)
    BY <1>1, <2>1
  <2>3. WindowTarget(v, k, u).frames = Between(v, k, w[1], w[2])
    BY <1>2, <2>1 DEF Of
  <2> QED
    BY <2>2, <2>3
<1> QED
  BY <1>1, <1>4

-----------------------------------------------------------------------------
(* The targets of a plan                                                   *)

\* What is planned of a kind, and the pairs, are told apart by the kind of the target.
LEMMA TargetsOfKind ==
  ASSUME NEW v, NEW b
  PROVE  /\ \A k \in Grouped : {t.frames : t \in {u \in Targets(v, b) : u.kind = k}} = Groups(v, k)
         /\ \A k \in Kind \ Grouped : {u \in Targets(v, b) : u.kind = k} = WindowTargets(v, k, b)
         /\ {t.frames : t \in {u \in Targets(v, b) : u.kind = "arc"}}
              = (IF {"hg", "cd"} \subseteq Grouped THEN Pairs(Groups(v, "hg"), Groups(v, "cd")) ELSE {})
<1> DEFINE X == UNION {{GroupTarget(v, k, g) : g \in Groups(v, k)} : k \in Grouped}
           Y == UNION {WindowTargets(v, k, b) : k \in Kind \ Grouped}
<1>1. \A t : t \in Targets(v, b) <=> t \in X \/ t \in Y \/ t \in Arcs(v)
  <2>1. Targets(v, b) = X \union Y \union Arcs(v)
    BY DEF Targets
  <2> HIDE DEF X, Y
  <2> QED
    BY <2>1
<1>2. \A k : \A g : GroupTarget(v, k, g).kind = k /\ GroupTarget(v, k, g).frames = g
  BY DEF GroupTarget
<1>3. \A k : \A t \in WindowTargets(v, k, b) : t.kind = k
  BY DEF WindowTargets, WindowTarget
<1>4. \A t \in Arcs(v) : t.kind = "arc"
  BY DEF Arcs
<1>5. "arc" \notin Kind /\ Grouped \subseteq Kind
  BY DEF Kind, Grouped
<1>6. /\ \A t \in X : \E k \in Grouped : \E g \in Groups(v, k) : t = GroupTarget(v, k, g)
      /\ \A k \in Grouped : \A g \in Groups(v, k) : GroupTarget(v, k, g) \in X
  OBVIOUS
<1>7. /\ \A t \in Y : \E k \in Kind \ Grouped : t \in WindowTargets(v, k, b)
      /\ \A k \in Kind \ Grouped : \A t \in WindowTargets(v, k, b) : t \in Y
  OBVIOUS
<1> HIDE DEF X, Y
<1>8. ASSUME NEW k \in Grouped
      PROVE  {t.frames : t \in {u \in Targets(v, b) : u.kind = k}} = Groups(v, k)
  <2>1. ASSUME NEW t \in Targets(v, b), t.kind = k PROVE t.frames \in Groups(v, k)
    <3>1. t \in X
      BY <1>1, <1>3, <1>4, <1>5, <1>7, <2>1
    <3>2. PICK l \in Grouped : \E g \in Groups(v, l) : t = GroupTarget(v, l, g)
      BY <1>6, <3>1
    <3> QED
      BY <1>2, <2>1, <3>2
  <2>2. ASSUME NEW g \in Groups(v, k)
        PROVE  \E t \in Targets(v, b) : t.kind = k /\ t.frames = g
    BY <1>1, <1>2, <1>6
  <2> QED
    BY <2>1, <2>2
<1>9. ASSUME NEW k \in Kind \ Grouped
      PROVE  {u \in Targets(v, b) : u.kind = k} = WindowTargets(v, k, b)
  <2>1. ASSUME NEW t \in Targets(v, b), t.kind = k PROVE t \in WindowTargets(v, k, b)
    <3>1. t \in Y
      BY <1>1, <1>2, <1>4, <1>5, <1>6, <2>1
    <3> QED
      BY <1>3, <1>7, <2>1, <3>1
  <2>2. \A t \in WindowTargets(v, k, b) : t \in Targets(v, b) /\ t.kind = k
    BY <1>1, <1>3, <1>7
  <2> QED
    BY <2>1, <2>2
<1>10. {u \in Targets(v, b) : u.kind = "arc"} = Arcs(v)
  <2>1. \A t \in Targets(v, b) : t.kind = "arc" => t \in Arcs(v)
    BY <1>1, <1>2, <1>3, <1>5, <1>6, <1>7
  <2> QED
    BY <1>1, <1>4, <2>1
<1> DEFINE P == IF {"hg", "cd"} \subseteq Grouped THEN Pairs(Groups(v, "hg"), Groups(v, "cd")) ELSE {}
<1>11. {t.frames : t \in Arcs(v)} = P
  <2>1. Arcs(v) = {[kind |-> "arc", frames |-> p] : p \in P}
    BY DEF Arcs
  <2> HIDE DEF P
  <2>2. /\ \A t \in Arcs(v) : \E p \in P : t = [kind |-> "arc", frames |-> p]
        /\ \A p \in P : [kind |-> "arc", frames |-> p] \in Arcs(v)
    BY <2>1
  <2>3. \A t \in Arcs(v) : t.frames \in P
    BY <2>2
  <2>4. \A p \in P : \E t \in Arcs(v) : t.frames = p
    <3> TAKE p \in P
    <3>1. [kind |-> "arc", frames |-> p].frames = p
      OBVIOUS
    <3> QED
      BY <2>2, <3>1
  <2> QED
    BY <2>3, <2>4
<1> QED
  BY <1>8, <1>9, <1>10, <1>11
-----------------------------------------------------------------------------
(* The last plan                                                           *)

Status == {"absent", "row", "whole"}

\* The plan is what its listing gives, or nothing was listed.
PlanInv ==
  /\ taken \in Campaigns
  /\ catalog \in [taken -> Status] /\ seen \in [taken -> Status]
  /\ \/ \E b \in BOOLEAN : plan = Targets(seen, b)
     \/ plan = {} /\ \A f \in taken : seen[f] = "absent"

LEMMA PlanInvInvariant == CadenceSpec => []PlanInv
<1>1. CadenceInit => PlanInv
  BY DEF CadenceInit, PlanInv, Status
<1>2. PlanInv /\ [CadenceNext]_cadenceVars => PlanInv'
  <2> SUFFICES ASSUME PlanInv, [CadenceNext]_cadenceVars PROVE PlanInv'
    OBVIOUS
  <2> USE DEF PlanInv
  <2>1. ASSUME NEW f \in taken, ScanRow(f) PROVE PlanInv'
    BY <2>1 DEF ScanRow, Status
  <2>2. ASSUME NEW f \in taken, ScanDetails(f) PROVE PlanInv'
    BY <2>2 DEF ScanDetails, Status
  <2>3. ASSUME NEW w \in Windows, Plan(w) PROVE PlanInv'
    <3>1. /\ seen' = [f \in taken |-> IF InWindow(w, f) THEN catalog[f] ELSE "absent"]
          /\ plan' = IF Discovered(w) THEN Targets(seen', w.by = "utc" /\ w # Everything) ELSE {}
          /\ taken' = taken /\ catalog' = catalog
      BY <2>3 DEF Plan, Listing
    <3>2. seen' \in [taken -> Status]
      BY <3>1 DEF Status
    <3>3. CASE Discovered(w)
      <4>1. \E b \in BOOLEAN : plan' = Targets(seen', b)
        BY <3>1, <3>3
      <4> QED
        BY <3>1, <3>2, <4>1
    <3>4. CASE ~ Discovered(w)
      <4>1. \A f \in taken : seen'[f] = "absent"
        BY <3>1, <3>4 DEF Discovered, Known
      <4> QED
        BY <3>1, <3>2, <3>4, <4>1
    <3> QED
      BY <3>3, <3>4
  <2>4. ASSUME NEW t \in todo, Make(t) PROVE PlanInv'
    BY <2>4 DEF Make
  <2>5. ASSUME EndRun PROVE PlanInv'
    BY <2>5 DEF EndRun
  <2>6. CASE UNCHANGED cadenceVars
    BY <2>6 DEF cadenceVars
  <2> QED
    BY <2>1, <2>2, <2>3, <2>4, <2>5, <2>6 DEF CadenceNext
<1> QED
  BY <1>1, <1>2, PTL DEF CadenceSpec

\* What is planned of a kind, by what was listed.
LEMMA PlannedOfKind ==
  ASSUME PlanInv
  PROVE  /\ Frames(DOMAIN seen)
         /\ \/ plan = {} /\ \A k : Visible(seen, k) = {} /\ Scoped(seen, k) = {}
            \/ \E b \in BOOLEAN :
                 /\ \A k \in Grouped : Planned(k) = Groups(seen, k)
                 /\ \A k \in Kind \ Grouped : {u \in plan : u.kind = k} = WindowTargets(seen, k, b)
                 /\ Planned("arc") = IF {"hg", "cd"} \subseteq Grouped
                                    THEN Pairs(Groups(seen, "hg"), Groups(seen, "cd")) ELSE {}
<1>1. DOMAIN seen = taken /\ Frames(DOMAIN seen)
  BY CadenceAssumption DEF PlanInv, Frames
<1>2. CASE plan = {} /\ \A f \in taken : seen[f] = "absent"
  <2>1. \A k : Visible(seen, k) = {} /\ Scoped(seen, k) = {}
    BY <1>1, <1>2 DEF Visible, Scoped
  <2> QED
    BY <1>1, <1>2, <2>1
<1>3. ASSUME NEW b \in BOOLEAN, plan = Targets(seen, b)
      PROVE  /\ \A k \in Grouped : Planned(k) = Groups(seen, k)
             /\ \A k \in Kind \ Grouped : {u \in plan : u.kind = k} = WindowTargets(seen, k, b)
             /\ Planned("arc") = IF {"hg", "cd"} \subseteq Grouped
                                THEN Pairs(Groups(seen, "hg"), Groups(seen, "cd")) ELSE {}
  BY <1>3, TargetsOfKind DEF Planned
<1> QED
  BY <1>1, <1>2, <1>3 DEF PlanInv

LEMMA TogetherIs ==
  ASSUME NEW k \in Grouped, NEW l
  PROVE  Together(k, l) = BucketOf(seen, k, l)
<1>1. CASE Policy[k] = "isolated"
  BY <1>1 DEF Together, BucketOf, Reached, Spanned, Limit
<1>2. CASE Policy[k] = "rolling_24h"
  BY <1>2 DEF Together, BucketOf, Reached, Spanned, Limit
<1>3. CASE ~Spanned(k)
  <2>1. Policy[k] # "isolated" /\ Policy[k] # "rolling_24h"
    BY <1>3 DEF Spanned
  <2> QED
    BY <1>3, <2>1 DEF Together, BucketOf, Reached
<1> QED
  BY <1>1, <1>2, <1>3 DEF Spanned

\* Cadence!GroupsWhole: under every policy of every kind, a group is all frames of its
\* class that belong together with one of them, the intervals of two groups meet in a
\* point at most, with the exceptions of MayOverlap, and no frame is dropped without a
\* reason (resolve_calibration_groups, exposure_count_windows).
THEOREM GroupsWholeCorrect == CadenceSpec => []GroupsWhole
<1>1. PlanInv => GroupsWhole
  <2> SUFFICES ASSUME PlanInv PROVE GroupsWhole
    OBVIOUS
  <2>1. Frames(DOMAIN seen)
    BY PlannedOfKind
  <2>2. CASE plan = {} /\ \A k : Visible(seen, k) = {} /\ Scoped(seen, k) = {}
    <3>1. \A k : Planned(k) = {} /\ {u \in plan : u.kind = k} = {}
      BY <2>2 DEF Planned
    <3> QED
      BY <2>2, <3>1 DEF GroupsWhole
  <2>3. ASSUME NEW b \in BOOLEAN,
               \A k \in Grouped : Planned(k) = Groups(seen, k),
               \A k \in Kind \ Grouped : {u \in plan : u.kind = k} = WindowTargets(seen, k, b)
        PROVE  GroupsWhole
    <3>1. ASSUME NEW k \in Grouped
          PROVE  /\ \A g \in Planned(k) : \E l \in Visible(seen, k) :
                      /\ l \in g \/ k = "dark"
                      /\ \A e \in g :
                           g = {f \in Together(k, l) : Class(seen, k, f) = Class(seen, k, e)}
                      /\ \A h \in Planned(k) :
                           h \subseteq Together(k, l) \/ h \intersect Together(k, l) = {}
                 /\ \A g, h \in Planned(k) :
                      FirstTime(g) < FirstTime(h) /\ GroupClass(seen, k, g) = GroupClass(seen, k, h)
                        /\ ~ MayOverlap(k, g, h)
                        => Applicable(k, g)[2] <= Applicable(k, h)[1]
                 /\ Minimum[k] <= 1 =>
                      \A f \in Visible(seen, k) \ UNION Planned(k) : ~ Inside(k, f)
      <4>1. Planned(k) = Groups(seen, k)
        BY <2>3
      <4>2. \A g \in Planned(k) : \E l \in Visible(seen, k) :
              /\ l \in g \/ k = "dark"
              /\ \A e \in g : g = {f \in Together(k, l) : Class(seen, k, f) = Class(seen, k, e)}
              /\ \A h \in Planned(k) :
                   h \subseteq Together(k, l) \/ h \intersect Together(k, l) = {}
        <5> TAKE g \in Planned(k)
        <5>1. PICK l \in Visible(seen, k) :
                /\ l \in g \/ k = "dark"
                /\ \A e \in g : g = {f \in BucketOf(seen, k, l) : Class(seen, k, f) = Class(seen, k, e)}
                /\ \A h \in Groups(seen, k) :
                     h \subseteq BucketOf(seen, k, l) \/ h \intersect BucketOf(seen, k, l) = {}
          BY <2>1, <4>1, GroupsReach
        <5>2. Together(k, l) = BucketOf(seen, k, l)
          BY TogetherIs
        <5> QED
          BY <4>1, <5>1, <5>2
      <4>3. \A g, h \in Planned(k) :
              FirstTime(g) < FirstTime(h) /\ GroupClass(seen, k, g) = GroupClass(seen, k, h)
                /\ ~ MayOverlap(k, g, h)
                => Applicable(k, g)[2] <= Applicable(k, h)[1]
        BY <2>1, <4>1, ApplicableInOrder
      <4>4. Minimum[k] <= 1 =>
              \A f \in Visible(seen, k) \ UNION Planned(k) : ~ Inside(k, f)
        BY <2>1, <4>1, GroupsReach
      <4> QED
        BY <4>2, <4>3, <4>4
    <3>2. ASSUME NEW k \in Kind \ Grouped
          PROVE  /\ \A s, t \in {u \in plan : u.kind = k} : s.from < t.from => s.to <= t.from
                 /\ \A f \in Scoped(seen, k) \ UNION Planned(k) :
                      \A t \in {u \in plan : u.kind = k} : t.to <= f.time
      <4> DEFINE W == CustomWindows(seen, k, b)
                 S == Scoped(seen, k)
                 T == {u \in plan : u.kind = k}
      <4>1. T = WindowTargets(seen, k, b)
        BY <2>3
      <4>2. /\ \A w, u \in W : w[1] < u[1] => w[2] <= u[1]
            /\ \A f \in S : (\A w \in W : ~ (w[1] <= f.time /\ f.time <= w[2]))
                 => \A w \in W : w[2] <= f.time
        BY <2>1, CustomWindowsApart
      <4>3. /\ \A t \in T : \E w \in W : t = WindowTarget(seen, k, w)
            /\ \A w \in W : \E t \in T : t.frames = Between(seen, k, w[1], w[2])
        BY <2>1, <4>1, WindowTargetsAre
      <4>4. Planned(k) = {t.frames : t \in T}
        BY DEF Planned
      <4> HIDE DEF W, S, T
      <4>5. \A t \in T : \E w \in W : t.from = w[1] /\ t.to = w[2]
        BY <4>3 DEF WindowTarget
      <4>6. \A f \in S \ UNION Planned(k) : \A w \in W : ~ (w[1] <= f.time /\ f.time <= w[2])
        BY <4>3, <4>4 DEF Between, S
      <4>7. \A s, t \in T : s.from < t.from => s.to <= t.from
        BY <4>2, <4>5
      <4>8. \A f \in S \ UNION Planned(k) : \A t \in T : t.to <= f.time
        BY <4>2, <4>5, <4>6
      <4> QED
        BY <4>7, <4>8 DEF S, T
    <3> QED
      BY <3>1, <3>2 DEF GroupsWhole
  <2> QED
    BY <2>2, <2>3, PlannedOfKind
<1> QED
  BY <1>1, PlanInvInvariant, PTL
-----------------------------------------------------------------------------
(* Lamp pairs                                                              *)

\* Groups that can be told apart by their identities.
Lamps(G) ==
  /\ IsFiniteSet(G)
  /\ \A g \in G : FirstTime(g) \in Nat /\ GroupId(g) \in Nat
  /\ \A g, h \in G : GroupId(g) = GroupId(h) => g = h

LEMMA ByFirstTimeSorted ==
  ASSUME NEW G, Lamps(G), NEW n, n = Cardinality(G), NEW hg, hg = Sorted(G, ByFirstTime(G))
  PROVE  /\ n \in Nat /\ hg \in [1..n -> G]
         /\ \A g \in G : \E i \in 1..n : hg[i] = g
         /\ \A i, j \in 1..n : hg[i] = hg[j] => i = j
         /\ \A i, j \in 1..n : i < j => Earlier(hg[i], hg[j])
<1> DEFINE R == ByFirstTime(G)
<1>1. \A g, h \in G : <<g, h>> \in R <=> Earlier(g, h)
  <2> TAKE g, h \in G
  <2>1. <<g, h>> \in G \X G /\ <<g, h>>[1] = g /\ <<g, h>>[2] = h
    OBVIOUS
  <2> QED
    BY <2>1 DEF ByFirstTime
<1> HIDE DEF R
<1>2. StrictOrder(G, R)
  <2>1. \A x \in G : <<x, x>> \notin R
    BY <1>1 DEF Lamps, Earlier
  <2>2. \A x, y, z \in G : <<x, y>> \in R /\ <<y, z>> \in R => <<x, z>> \in R
    BY <1>1 DEF Lamps, Earlier
  <2>3. \A x, y \in G : x # y => <<x, y>> \in R \/ <<y, x>> \in R
    BY <1>1 DEF Lamps, Earlier
  <2> QED
    BY <2>1, <2>2, <2>3 DEF StrictOrder
<1>3. /\ n \in Nat /\ Ascending(hg, G, R)
      /\ \A i, j \in 1..n : hg[i] = hg[j] => i = j
      /\ \A g \in G : \E i \in 1..n : hg[i] = g
  BY <1>2, SortedAscending DEF Lamps, R
<1>4. hg \in [1..n -> G] /\ \A i, j \in 1..n : i < j => <<hg[i], hg[j]>> \in R
  BY <1>3 DEF Ascending
<1>5. \A i, j \in 1..n : i < j => Earlier(hg[i], hg[j])
  <2> TAKE i, j \in 1..n
  <2>1. hg[i] \in G /\ hg[j] \in G
    BY <1>4
  <2> QED
    BY <1>1, <1>4, <2>1
<1> QED
  BY <1>3, <1>4, <1>5

\* Groups whose centers are known.
Centered(G) == \A g \in G : Center2(g) \in Nat /\ GroupId(g) \in Nat

LEMMA NearestIs ==
  ASSUME NEW G, Centered(G), NEW h, Center2(h) \in Nat, NEW S \in SUBSET G, S # {}
  PROVE  Nearest(h, S) \in S /\ \A d \in S : Apart2(h, Nearest(h, S)) <= Apart2(h, d)
<1> DEFINE T == {Apart2(h, c) : c \in S}
<1>1. \A c \in S : Apart2(h, c) \in Nat /\ Center2(c) \in Nat /\ GroupId(c) \in Nat
  BY DEF Apart2, Centered
<1>2. PICK t \in T : \A u \in T : t <= u
  <2>1. T \in SUBSET Nat /\ T # {}
    BY <1>1
  <2> HIDE DEF T
  <2> QED
    BY <2>1, LeastNatural
<1>3. \A c \in S : Apart2(h, c) \in T
  OBVIOUS
<1> DEFINE U == {Center2(c) : c \in {x \in S : Apart2(h, x) = t}}
<1>4. PICK m \in U : \A l \in U : m <= l
  <2>1. U \in SUBSET Nat /\ U # {}
    BY <1>1, <1>2
  <2> HIDE DEF U
  <2> QED
    BY <2>1, LeastNatural
<1> DEFINE I == {GroupId(c) : c \in {x \in S : Apart2(h, x) = t /\ Center2(x) = m}}
<1>5. PICK d \in I : \A l \in I : d <= l
  <2>1. I \in SUBSET Nat /\ I # {}
    BY <1>1, <1>4
  <2> HIDE DEF I
  <2> QED
    BY <2>1, LeastNatural
<1>6. PICK c \in S : Apart2(h, c) = t /\ Center2(c) = m /\ GroupId(c) = d
  BY <1>5
<1>7. /\ \A x \in S : Apart2(h, x) = t => Center2(x) \in U
      /\ \A x \in S : Apart2(h, x) = t /\ Center2(x) = m => GroupId(x) \in I
  OBVIOUS
<1> HIDE DEF T, U, I
<1> DEFINE Best(y) ==
             \A x \in S : Apart2(h, y) < Apart2(h, x) \/ (Apart2(h, y) = Apart2(h, x) /\ Preferred(y, x))
<1>8. Best(c)
  <2> SUFFICES ASSUME NEW x \in S
               PROVE  Apart2(h, c) < Apart2(h, x) \/ (Apart2(h, c) = Apart2(h, x) /\ Preferred(c, x))
    OBVIOUS
  <2>1. t <= Apart2(h, x) /\ t \in Nat /\ Apart2(h, x) \in Nat
    BY <1>1, <1>2, <1>3, <1>6
  <2>2. ASSUME Apart2(h, x) = t PROVE Preferred(c, x)
    <3>1. m <= Center2(x) /\ m \in Nat /\ Center2(x) \in Nat
      BY <1>1, <1>4, <1>6, <1>7, <2>2
    <3>2. Center2(x) = m => d <= GroupId(x)
      BY <1>5, <1>7, <2>2
    <3> QED
      BY <1>6, <3>1, <3>2 DEF Preferred
  <2> QED
    BY <1>6, <2>1, <2>2
<1>9. Nearest(h, S) = CHOOSE y \in S : Best(y)
  BY DEF Nearest
<1> HIDE DEF Best
<1>10. Nearest(h, S) \in S /\ Best(Nearest(h, S))
  BY <1>8, <1>9
<1>11. \A x \in S : \/ Apart2(h, Nearest(h, S)) < Apart2(h, x)
                   \/ Apart2(h, Nearest(h, S)) = Apart2(h, x)
  BY <1>10 DEF Best
<1> QED
  BY <1>1, <1>10, <1>11

\* The pairs when the first i Hg groups have had their turn.
PairsOf(P, i, hg, cds) ==
  /\ \A p \in P : \E j \in 1..i : \E c \in cds : p = <<hg[j], c>>
  /\ \A p, q \in P : p[1] = q[1] <=> p[2] = q[2]
  /\ \A p \in P : Apart2(p[1], p[2]) <= 2 * Separation
  /\ \A j \in 1..i : \A c \in Near(hg[j], cds) :
       \E p \in P : \/ p[1] = hg[j] /\ Apart2(hg[j], p[2]) <= Apart2(hg[j], c)
                    \/ p[2] = c /\ \E l \in 1..(j - 1) : p[1] = hg[l]

LEMMA PairsGrow ==
  ASSUME NEW n \in Nat, NEW hgs, NEW hg \in [1..n -> hgs], NEW cds,
         \A i, j \in 1..n : hg[i] = hg[j] => i = j, Centered(hgs), Centered(cds),
         NEW i \in 1..n, NEW P, PairsOf(P, i - 1, hg, cds)
  PROVE  PairsOf(P \union Choice(hg[i], Available(cds, P)), i, hg, cds)
<1> DEFINE h == hg[i]
           A == Available(cds, P)
           N == Nearest(h, Near(h, A))
<1>1. A \subseteq cds /\ \A c \in cds : c \in A <=> \A p \in P : p[2] # c
  BY DEF Available
<1>2. h \in hgs /\ Center2(h) \in Nat
  BY DEF Centered
<1> HIDE DEF h
<1>3. /\ \A p \in P : \E j \in 1..(i - 1) : \E c \in cds : p = <<hg[j], c>>
      /\ \A p, q \in P : p[1] = q[1] <=> p[2] = q[2]
      /\ \A p \in P : Apart2(p[1], p[2]) <= 2 * Separation
      /\ \A j \in 1..(i - 1) : \A c \in Near(hg[j], cds) :
           \E p \in P : \/ p[1] = hg[j] /\ Apart2(hg[j], p[2]) <= Apart2(hg[j], c)
                        \/ p[2] = c /\ \E l \in 1..(j - 1) : p[1] = hg[l]
  BY DEF PairsOf
<1>8. ASSUME NEW j \in 1..(i - 1), NEW c \in Near(hg[j], cds)
      PROVE  \E p \in P : \/ p[1] = hg[j] /\ Apart2(hg[j], p[2]) <= Apart2(hg[j], c)
                          \/ p[2] = c /\ \E l \in 1..(j - 1) : p[1] = hg[l]
  BY DEF PairsOf
<1>4. \A c \in Near(h, cds) : c \in cds /\ (c \in A => c \in Near(h, A))
  BY <1>1 DEF Near
<1>5. ASSUME NEW c \in Near(h, cds), c \notin A
      PROVE  \E p \in P : p[2] = c /\ \E l \in 1..(i - 1) : p[1] = hg[l]
  <2>1. PICK p \in P : p[2] = c
    BY <1>1, <1>4, <1>5
  <2>2. PICK j \in 1..(i - 1) : \E d \in cds : p = <<hg[j], d>>
    BY <1>3
  <2> QED
    BY <2>1, <2>2
<1> HIDE DEF A
<1>6. CASE Near(h, A) = {}
  <2>1. Choice(h, A) = {}
    BY <1>6 DEF Choice
  <2>2. \A j \in 1..i : \A c \in Near(hg[j], cds) :
          \E p \in P : \/ p[1] = hg[j] /\ Apart2(hg[j], p[2]) <= Apart2(hg[j], c)
                       \/ p[2] = c /\ \E l \in 1..(j - 1) : p[1] = hg[l]
    <3> TAKE j \in 1..i
    <3>1. CASE j = i
      <4>1. \A c \in Near(h, cds) : c \notin A
        BY <1>4, <1>6
      <4> QED
        BY <1>5, <3>1, <4>1 DEF h
    <3>2. CASE j # i
      <4>1. j \in 1..(i - 1)
        BY <3>2
      <4> QED
        BY <1>3, <4>1
    <3> QED
      BY <3>1, <3>2
  <2>3. PairsOf(P, i, hg, cds)
    <3>1. \A j \in 1..(i - 1) : j \in 1..i
      OBVIOUS
    <3>2. \A p \in P : \E j \in 1..i : \E c \in cds : p = <<hg[j], c>>
      BY <1>3, <3>1
    <3> QED
      BY <1>3, <2>2, <3>2 DEF PairsOf
  <2>4. P \union Choice(h, A) = P
    BY <2>1
  <2> QED
    BY <2>3, <2>4 DEF h, A
<1>7. CASE Near(h, A) # {}
  <2> DEFINE Q == P \union {<<h, N>>}
  <2>1. P \union Choice(h, A) = Q
    BY <1>7 DEF Choice
  <2>2. N \in Near(h, A) /\ \A d \in Near(h, A) : Apart2(h, N) <= Apart2(h, d)
    <3>1. Near(h, A) \in SUBSET cds
      BY <1>1 DEF Near
    <3> QED
      BY <1>2, <1>7, <3>1, NearestIs
  <2> HIDE DEF N
  <2>3. N \in A /\ N \in cds /\ Apart2(h, N) <= 2 * Separation
    BY <1>1, <2>2 DEF Near
  <2>4. \A p \in P : p[2] # N
    BY <1>1, <2>3
  <2>5. \A p \in P : p[1] # h
    <3> TAKE p \in P
    <3>1. PICK j \in 1..(i - 1) : \E c \in cds : p = <<hg[j], c>>
      BY <1>3
    <3>2. j \in 1..n /\ j # i
      OBVIOUS
    <3>3. hg[j] # hg[i]
      BY <3>2
    <3> QED
      BY <3>1, <3>3 DEF h
  <2>6. \A q \in Q : q \in P \/ (q = <<h, N>> /\ q[1] = h /\ q[2] = N)
    OBVIOUS
  <2>7. P \subseteq Q /\ <<h, N>> \in Q /\ <<h, N>>[1] = h /\ <<h, N>>[2] = N
    OBVIOUS
  <2> HIDE DEF Q
  <2>8. ASSUME NEW q \in Q PROVE \E j \in 1..i : \E c \in cds : q = <<hg[j], c>>
    <3>1. CASE q \in P
      <4>1. PICK j \in 1..(i - 1) : \E c \in cds : q = <<hg[j], c>>
        BY <1>3, <3>1
      <4>2. j \in 1..i
        OBVIOUS
      <4> QED
        BY <4>1, <4>2
    <3>2. CASE q = <<h, N>>
      <4>1. i \in 1..i
        OBVIOUS
      <4> QED
        BY <2>3, <3>2, <4>1 DEF h
    <3> QED
      BY <2>6, <3>1, <3>2
  <2>9. \A p, q \in Q : p[1] = q[1] <=> p[2] = q[2]
    BY <1>3, <2>4, <2>5, <2>6
  <2>10. \A q \in Q : Apart2(q[1], q[2]) <= 2 * Separation
    BY <1>3, <2>3, <2>6
  <2>11. ASSUME NEW j \in 1..i, NEW c \in Near(hg[j], cds)
         PROVE  \E p \in Q : \/ p[1] = hg[j] /\ Apart2(hg[j], p[2]) <= Apart2(hg[j], c)
                             \/ p[2] = c /\ \E l \in 1..(j - 1) : p[1] = hg[l]
    <3>1. CASE j = i /\ c \in A
      <4>1. hg[j] = h /\ c \in Near(h, A)
        BY <1>4, <2>11, <3>1 DEF h
      <4> QED
        BY <2>2, <2>7, <4>1
    <3>2. CASE j = i /\ c \notin A
      BY <1>5, <2>7, <3>2 DEF h
    <3>3. CASE j # i
      <4>1. j \in 1..(i - 1)
        BY <3>3
      <4>2. PICK p \in P : \/ p[1] = hg[j] /\ Apart2(hg[j], p[2]) <= Apart2(hg[j], c)
                           \/ p[2] = c /\ \E l \in 1..(j - 1) : p[1] = hg[l]
        BY <1>8, <4>1
      <4> QED
        BY <2>7, <4>2
    <3> QED
      BY <3>1, <3>2, <3>3
  <2>12. PairsOf(Q, i, hg, cds)
    BY <2>8, <2>9, <2>10, <2>11 DEF PairsOf
  <2> QED
    BY <2>1, <2>12 DEF h, A
<1> QED
  BY <1>6, <1>7

Turns(pairs, n, hg, cds) ==
  /\ pairs[0] = {}
  /\ \A i \in 1..n : pairs[i] = pairs[i - 1] \union Choice(hg[i], Available(cds, pairs[i - 1]))

LEMMA PairsRecursive ==
  ASSUME NEW hgs, NEW n \in Nat, n = Cardinality(hgs), NEW hg \in [1..n -> hgs],
         hg = Sorted(hgs, ByFirstTime(hgs)), NEW cds, Centered(hgs), Centered(cds)
  PROVE  \E pairs : Turns(pairs, n, hg, cds) /\ pairs[n] = Pairs(hgs, cds)
<1> DEFINE V == SUBSET (hgs \X cds)
           Turn(i, x) == x \union Choice(hg[i], Available(cds, x))
           Rec(f) == f = [i \in 0..n |-> IF i = 0 THEN {} ELSE Turn(i, f[i - 1])]
           step == [i \in 1..n |-> [x \in V |-> Turn(i, x)]]
<1>1. ASSUME NEW i \in 1..n, NEW x \in V PROVE Turn(i, x) \in V
  <2> DEFINE A == Available(cds, x)
  <2>1. A \subseteq cds /\ hg[i] \in hgs /\ Center2(hg[i]) \in Nat
    BY DEF Available, Centered
  <2> HIDE DEF A
  <2>2. Choice(hg[i], A) \in V
    <3>1. CASE Near(hg[i], A) = {}
      BY <3>1 DEF Choice
    <3>2. CASE Near(hg[i], A) # {}
      <4>1. Near(hg[i], A) \in SUBSET cds
        BY <2>1 DEF Near
      <4>2. Nearest(hg[i], Near(hg[i], A)) \in cds
        BY <2>1, <3>2, <4>1, NearestIs
      <4> QED
        BY <2>1, <3>2, <4>2 DEF Choice
    <3> QED
      BY <3>1, <3>2
  <2> HIDE DEF V
  <2>3. x \union Choice(hg[i], A) \in V
    BY <2>2 DEF V
  <2> QED
    BY <2>3 DEF A
<1> HIDE DEF V, Turn
<1>2. PICK f : Follows(f, n, V, {}, step)
  <2>1. step \in StepsIn(n, V)
    BY <1>1 DEF StepsIn
  <2>2. {} \in V
    BY DEF V
  <2> HIDE DEF step
  <2> QED
    BY <2>1, <2>2, Recursive
<1>3. f \in [0..n -> V] /\ f[0] = {} /\ \A i \in 1..n : f[i] = step[i][f[i - 1]]
  <2> HIDE DEF step
  <2> QED
    BY <1>2 DEF Follows
<1>4. \A i \in 1..n : f[i] = Turn(i, f[i - 1])
  <2> TAKE i \in 1..n
  <2>1. i - 1 \in 0..n
    OBVIOUS
  <2>2. f[i - 1] \in V
    BY <1>3, <2>1
  <2> QED
    BY <1>3, <2>2
<1> HIDE DEF step
<1>5. \E g : Rec(g)
  <2>1. \A i \in 0..n : f[i] = IF i = 0 THEN {} ELSE Turn(i, f[i - 1])
    BY <1>3, <1>4
  <2>2. f = [i \in 0..n |-> IF i = 0 THEN {} ELSE Turn(i, f[i - 1])]
    BY <1>3, <2>1
  <2> QED
    BY <2>2
<1> DEFINE pairs == CHOOSE g : Rec(g)
<1>6. Pairs(hgs, cds) = pairs[n]
  BY DEF Pairs, Turn
<1>7. Rec(pairs)
  <2> HIDE DEF Rec
  <2> QED
    BY <1>5
<1> HIDE DEF pairs
<1>8. pairs[0] = {} /\ \A i \in 1..n : pairs[i] = Turn(i, pairs[i - 1])
  <2>1. 0 \in 0..n /\ \A i \in 1..n : i \in 0..n /\ i # 0
    OBVIOUS
  <2> QED
    BY <1>7, <2>1
<1> QED
  BY <1>6, <1>8 DEF Turn, Turns

\* pair_lamp_groups, for any groups that can be told apart.
LEMMA PairsStable ==
  ASSUME NEW hgs, Lamps(hgs), Centered(hgs), NEW cds, Centered(cds), NEW P, P = Pairs(hgs, cds)
  PROVE  /\ P \subseteq hgs \X cds
         /\ \A p, q \in P : p[1] = q[1] <=> p[2] = q[2]
         /\ \A p \in P : Apart2(p[1], p[2]) <= 2 * Separation
         /\ \A h \in hgs : \A c \in Near(h, cds) :
              \E p \in P : \/ p[1] = h /\ Apart2(h, p[2]) <= Apart2(h, c)
                           \/ p[2] = c /\ Earlier(p[1], h)
<1> DEFINE n  == Cardinality(hgs)
           hg == Sorted(hgs, ByFirstTime(hgs))
<1>1. /\ n \in Nat /\ hg \in [1..n -> hgs]
      /\ \A g \in hgs : \E i \in 1..n : hg[i] = g
      /\ \A i, j \in 1..n : hg[i] = hg[j] => i = j
      /\ \A i, j \in 1..n : i < j => Earlier(hg[i], hg[j])
  BY ByFirstTimeSorted
<1>7. n = Cardinality(hgs) /\ hg = Sorted(hgs, ByFirstTime(hgs))
  OBVIOUS
<1> HIDE DEF n, hg
<1>8. PICK pairs : Turns(pairs, n, hg, cds) /\ pairs[n] = P
  <2>1. n \in Nat /\ hg \in [1..n -> hgs]
    BY <1>1
  <2> QED
    BY <1>7, <2>1, PairsRecursive
<1>2. /\ pairs[0] = {} /\ pairs[n] = P
      /\ \A i \in 1..n : pairs[i] = pairs[i - 1] \union Choice(hg[i], Available(cds, pairs[i - 1]))
  BY <1>8 DEF Turns
<1>3. PairsOf(P, n, hg, cds)
  <2> DEFINE Good == [i \in 0..n |-> PairsOf(pairs[i], i, hg, cds)]
  <2>1. Good[0]
    <3>1. 0 \in 0..n
      BY <1>1
    <3>2. PairsOf({}, 0, hg, cds)
      BY DEF PairsOf
    <3> QED
      BY <1>2, <3>1, <3>2
  <2>2. \A i \in 1..n : Good[i - 1] => Good[i]
    <3> TAKE i \in 1..n
    <3>1. i \in 0..n /\ i - 1 \in 0..n
      BY <1>1
    <3>2. PairsOf(pairs[i - 1], i - 1, hg, cds) => PairsOf(pairs[i], i, hg, cds)
      <4>1. PairsOf(pairs[i - 1], i - 1, hg, cds)
              => PairsOf(pairs[i - 1] \union Choice(hg[i], Available(cds, pairs[i - 1])), i, hg, cds)
        BY <1>1, PairsGrow
      <4> QED
        BY <1>2, <4>1
    <3> QED
      BY <3>1, <3>2
  <2>3. Good \in [0..n -> BOOLEAN]
    BY DEF PairsOf
  <2>4. Good[n]
    <3>1. n \in 0..n
      BY <1>1
    <3> HIDE DEF Good
    <3> QED
      BY <1>1, <2>1, <2>2, <2>3, <3>1, UpTo
  <2>5. n \in 0..n
    BY <1>1
  <2> QED
    BY <1>2, <2>4, <2>5
<1>4. /\ \A p \in P : \E j \in 1..n : \E c \in cds : p = <<hg[j], c>>
      /\ \A p, q \in P : p[1] = q[1] <=> p[2] = q[2]
      /\ \A p \in P : Apart2(p[1], p[2]) <= 2 * Separation
      /\ \A j \in 1..n : \A c \in Near(hg[j], cds) :
           \E p \in P : \/ p[1] = hg[j] /\ Apart2(hg[j], p[2]) <= Apart2(hg[j], c)
                        \/ p[2] = c /\ \E l \in 1..(j - 1) : p[1] = hg[l]
  BY <1>3 DEF PairsOf
<1>5. P \subseteq hgs \X cds
  <2>1. \A p \in P : p \in hgs \X cds
    <3> TAKE p \in P
    <3>1. PICK j \in 1..n : \E c \in cds : p = <<hg[j], c>>
      BY <1>4
    <3> QED
      BY <1>1, <3>1
  <2> QED
    BY <2>1
<1>6. ASSUME NEW h \in hgs, NEW c \in Near(h, cds)
      PROVE  \E p \in P : \/ p[1] = h /\ Apart2(h, p[2]) <= Apart2(h, c)
                          \/ p[2] = c /\ Earlier(p[1], h)
  <2>1. PICK j \in 1..n : hg[j] = h
    BY <1>1
  <2>2. PICK p \in P : \/ p[1] = h /\ Apart2(h, p[2]) <= Apart2(h, c)
                       \/ p[2] = c /\ \E l \in 1..(j - 1) : p[1] = hg[l]
    BY <1>4, <2>1
  <2>3. \A l \in 1..(j - 1) : Earlier(hg[l], h)
    <3> TAKE l \in 1..(j - 1)
    <3>1. l \in 1..n /\ l < j
      BY <1>1
    <3> QED
      BY <1>1, <2>1, <3>1
  <2> QED
    BY <2>2, <2>3
<1> QED
  BY <1>4, <1>5, <1>6
\* The groups of a lamp can be told apart by their identities.
LEMMA LampGroups ==
  ASSUME NEW v, DOMAIN v \in Campaigns, Frames(DOMAIN v), NEW k \in Grouped
  PROVE  Lamps(Groups(v, k)) /\ Centered(Groups(v, k))
<1> DEFINE G == Groups(v, k)
           S == Visible(v, k)
<1>1. Frames(S) /\ S \subseteq DOMAIN v
  BY VisibleFrames
<1>2. \A g \in G : g # {} /\ g \subseteq S
  BY GroupsReach
<1> HIDE DEF G, S
<1>3. \A g \in G : FirstTime(g) \in Nat /\ LastTime(g) \in Nat
  <2> TAKE g \in G
  <2>1. Frames(g) /\ g # {}
    BY <1>1, <1>2, SomeFrames
  <2> QED
    BY <2>1, FirstAndLast
<1>4. G \subseteq SUBSET DOMAIN v
  BY <1>1, <1>2
<1>5. \A g, h \in G : GroupId(g) \in Nat /\ (GroupId(g) = GroupId(h) => g = h)
  <2>1. \A X \in Campaigns : \A g, h \in SUBSET X : /\ GroupId(g) \in Nat
                                                  /\ (GroupId(g) = GroupId(h) => g = h)
    BY CadenceAssumption
  <2>2. PICK X : X = DOMAIN v
    OBVIOUS
  <2>3. \A g \in G : g \in SUBSET X
    BY <1>4, <2>2
  <2> QED
    BY <2>1, <2>2, <2>3
<1>6. IsFiniteSet(G)
  <2>1. IsFiniteSet(SUBSET S)
    BY <1>1, FS_SUBSET DEF Frames
  <2>2. G \subseteq SUBSET S
    BY <1>2
  <2> QED
    BY <2>1, <2>2, FS_Subset
<1>7. Lamps(G)
  BY <1>3, <1>5, <1>6 DEF Lamps
<1>8. Centered(G)
  BY <1>3, <1>5 DEF Centered, Center2
<1> QED
  BY <1>7, <1>8 DEF G

\* Cadence!PairsNearest: lamp pairs are one-to-one, within the limit, and a Cd group that
\* is nearer than the partner went to an earlier Hg group (pair_lamp_groups).
THEOREM PairsNearestCorrect == CadenceSpec => []PairsNearest
<1>1. PlanInv => PairsNearest
  <2> SUFFICES ASSUME PlanInv PROVE PairsNearest
    OBVIOUS
  <2>1. Frames(DOMAIN seen) /\ DOMAIN seen \in Campaigns
    BY PlannedOfKind DEF PlanInv
  <2>2. CASE plan = {}
    <3>1. \A k : Planned(k) = {}
      BY <2>2 DEF Planned
    <3> QED
      BY <3>1 DEF PairsNearest
  <2>3. ASSUME {"hg", "cd"} \subseteq Grouped,
               Planned("hg") = Groups(seen, "hg"), Planned("cd") = Groups(seen, "cd"),
               Planned("arc") = Pairs(Groups(seen, "hg"), Groups(seen, "cd"))
        PROVE  PairsNearest
    <3> DEFINE H == Planned("hg")
               C == Planned("cd")
    <3>1. Lamps(H) /\ Centered(H) /\ Centered(C) /\ Planned("arc") = Pairs(H, C)
      BY <2>1, <2>3, LampGroups
    <3> HIDE DEF H, C
    <3>2. /\ Planned("arc") \subseteq H \X C
          /\ \A p, q \in Planned("arc") : p[1] = q[1] <=> p[2] = q[2]
          /\ \A p \in Planned("arc") : Apart2(p[1], p[2]) <= 2 * Separation
          /\ \A h \in H : \A c \in Near(h, C) :
               \E p \in Planned("arc") : \/ p[1] = h /\ Apart2(h, p[2]) <= Apart2(h, c)
                                         \/ p[2] = c /\ Earlier(p[1], h)
      BY <3>1, PairsStable
    <3> QED
      BY <3>2 DEF PairsNearest, H, C
  <2>4. ASSUME ~ {"hg", "cd"} \subseteq Grouped, Planned("arc") = {}
        PROVE  PairsNearest
    BY <2>4 DEF PairsNearest
  <2>5. \/ plan = {}
        \/ /\ \A k \in Grouped : Planned(k) = Groups(seen, k)
           /\ Planned("arc") = IF {"hg", "cd"} \subseteq Grouped
                              THEN Pairs(Groups(seen, "hg"), Groups(seen, "cd")) ELSE {}
    BY PlannedOfKind
  <2> QED
    BY <2>2, <2>3, <2>4, <2>5
<1> QED
  BY <1>1, PlanInvInvariant, PTL
-----------------------------------------------------------------------------
(* More frames                                                             *)

\* S has what comes before its members.
Stem(S, T) == S \subseteq T /\ \A f \in S : \A g \in T : g.time < f.time => g \in S

LEMMA FirstTimeOf ==
  ASSUME NEW S, Frames(S), NEW f \in S, \A g \in S : f.time <= g.time
  PROVE  FirstTime(S) = f.time
<1>1. f.time \in Nat
  BY DEF Frames, Frame
<1>2. PICK g \in S : g.time = FirstTime(S)
  BY FirstAndLast
<1>3. FirstTime(S) <= f.time /\ FirstTime(S) \in Nat
  BY FirstAndLast
<1> QED
  BY <1>1, <1>2, <1>3

LEMMA SplitFirst ==
  ASSUME NEW S, Frames(S), NEW limit \in Nat, NEW G \in Split(S, limit)
  PROVE  /\ \E l \in G : l.time = FirstTime(G)
         /\ FirstTime(G) \in Nat /\ G = {f \in S : f.time - FirstTime(G) \in 0..limit}
<1>1. PICK l \in S : l \in G /\ G = {f \in S : f.time - l.time \in 0..limit}
  BY SplitGroups
<1>2. Frames(G) /\ l.time \in Nat
  BY <1>1, SomeFrames
<1>3. \A f \in G : l.time <= f.time
  BY <1>1, <1>2, SomeFrames
<1>4. FirstTime(G) = l.time
  BY <1>1, <1>2, <1>3, FirstTimeOf
<1> QED
  BY <1>1, <1>2, <1>4

\* The frame where a group begins does not change with frames that come later.
LEMMA SplitStems ==
  ASSUME NEW T, Frames(T), NEW S, Stem(S, T), NEW limit \in Nat,
         NEW G \in Split(S, limit), NEW H \in Split(T, limit), G \intersect H # {}
  PROVE  FirstTime(G) = FirstTime(H)
<1> DEFINE Meet(e, A, B) == e \in A /\ e \in B /\ FirstTime(A) # FirstTime(B)
           Wrong == {e \in S : \E A \in Split(S, limit) : \E B \in Split(T, limit) : Meet(e, A, B)}
           Bad == {e.time : e \in Wrong}
<1>1. Frames(S) /\ S \subseteq T /\ \A f \in S : \A g \in T : g.time < f.time => g \in S
  BY SomeFrames DEF Stem
<1>2. \A f \in T : f.time \in Nat
  BY DEF Frames, Frame
<1>3. /\ \A A \in Split(S, limit) :
           /\ \E l \in A : l.time = FirstTime(A)
           /\ FirstTime(A) \in Nat /\ A = {f \in S : f.time - FirstTime(A) \in 0..limit}
      /\ \A B \in Split(T, limit) :
           /\ \E l \in B : l.time = FirstTime(B)
           /\ FirstTime(B) \in Nat /\ B = {f \in T : f.time - FirstTime(B) \in 0..limit}
  BY <1>1, SplitFirst
<1>4. /\ \A f \in S : \E A \in Split(S, limit) : f \in A
      /\ \A A, B \in Split(S, limit) : A \intersect B # {} => A = B
      /\ \A f \in T : \E A \in Split(T, limit) : f \in A
      /\ \A A, B \in Split(T, limit) : A \intersect B # {} => A = B
  BY <1>1, SplitGroups
<1>5. Wrong = {}
  <2> SUFFICES ASSUME Wrong # {} PROVE FALSE
    OBVIOUS
  <2>1. PICK m \in Bad : \A l \in Bad : m <= l
    <3>1. Bad \in SUBSET Nat /\ Bad # {}
      BY <1>1, <1>2
    <3> HIDE DEF Bad
    <3> QED
      BY <3>1, LeastNatural
  <2>2. PICK e \in S : e.time = m /\ \E A \in Split(S, limit) : \E B \in Split(T, limit) : Meet(e, A, B)
    BY <2>1
  <2>3. PICK A \in Split(S, limit), B \in Split(T, limit) :
          e \in A /\ e \in B /\ FirstTime(A) # FirstTime(B)
    BY <2>2
  <2>4. ASSUME NEW f \in S, f.time < e.time,
               NEW C \in Split(S, limit), NEW D \in Split(T, limit), f \in C, f \in D
        PROVE  FirstTime(C) = FirstTime(D)
    <3>1. f.time \notin Bad
      BY <1>1, <1>2, <2>1, <2>2, <2>4
    <3>2. f \notin Wrong
      BY <3>1
    <3> QED
      BY <2>4, <3>2
  <2> HIDE DEF Wrong, Bad
  <2>5. PICK a \in A : a.time = FirstTime(A)
    BY <1>3
  <2>6. PICK b \in B : b.time = FirstTime(B)
    BY <1>3
  <2>7. /\ a \in S /\ b \in T /\ e \in T
        /\ e.time - a.time \in 0..limit /\ e.time - b.time \in 0..limit
        /\ a.time \in Nat /\ b.time \in Nat /\ e.time \in Nat
    BY <1>1, <1>2, <1>3, <2>3, <2>5, <2>6
  <2>8. CASE a.time < b.time
    <3>1. PICK D \in Split(T, limit) : a \in D
      BY <1>1, <1>4, <2>7
    <3>2. FirstTime(D) = a.time
      BY <2>4, <2>5, <2>7, <2>8, <3>1
    <3>3. b \in D
      <4>1. b.time - FirstTime(D) \in 0..limit
        BY <2>7, <2>8, <3>2
      <4> QED
        BY <1>3, <2>7, <4>1
    <3>4. D = B
      BY <1>4, <2>6, <3>3
    <3> QED
      BY <2>6, <2>8, <2>7, <3>2, <3>4
  <2>9. CASE b.time < a.time
    <3>1. b \in S
      BY <1>1, <2>7, <2>9
    <3>2. PICK D \in Split(S, limit) : b \in D
      BY <1>4, <3>1
    <3>3. FirstTime(D) = b.time
      BY <2>4, <2>6, <2>7, <2>9, <3>1, <3>2
    <3>4. a \in D
      <4>1. a.time - FirstTime(D) \in 0..limit
        BY <2>7, <2>9, <3>3
      <4> QED
        BY <1>3, <2>7, <4>1
    <3>5. D = A
      BY <1>4, <2>5, <3>4
    <3> QED
      BY <2>5, <2>7, <2>9, <3>3, <3>5
  <2> QED
    BY <2>3, <2>5, <2>6, <2>7, <2>8, <2>9
<1>6. PICK e \in G : e \in H
  OBVIOUS
<1>7. e \in S
  BY <1>3, <1>6
<1> QED
  BY <1>5, <1>6, <1>7
\* A catalog that has the frames in P, with their details.
View(X, P) == [f \in X |-> IF f \in P THEN "whole" ELSE "absent"]

OfKind(P, k) == {f \in P : f.kind = k}
OfRaw(P, k)  == {f \in P : RawType(f.kind) = RawType(k)}

ClassIn(k, f) == IF k = "dark" THEN f.exptime ELSE 0

LEMMA ViewOf ==
  ASSUME NEW X, Frames(X), NEW P \in SUBSET X, NEW k
  PROVE  /\ DOMAIN View(X, P) = X /\ Frames(DOMAIN View(X, P))
         /\ Visible(View(X, P), k) = OfKind(P, k) /\ Scoped(View(X, P), k) = OfRaw(P, k)
         /\ \A f \in P : Class(View(X, P), k, f) = ClassIn(k, f)
<1>1. DOMAIN View(X, P) = X
  BY DEF View
<1>2. Visible(View(X, P), k) = OfKind(P, k)
  <2>1. \A f \in X : View(X, P)[f] \in (IF k \in ByHeader THEN {} ELSE {"row"}) \union {"whole"} <=> f \in P
    BY DEF View
  <2> QED
    BY <1>1, <2>1 DEF Visible, OfKind
<1>3. \A f \in P : Class(View(X, P), k, f) = ClassIn(k, f)
  BY DEF Class, ClassIn, View
<1>4. Scoped(View(X, P), k) = OfRaw(P, k)
  <2>1. \A f \in X : View(X, P)[f] # "absent" <=> f \in P
    BY DEF View
  <2> QED
    BY <1>1, <2>1 DEF Scoped, OfRaw
<1> QED
  BY <1>1, <1>2, <1>3, <1>4

LEMMA StemOfKind ==
  ASSUME NEW P, NEW Q, Stem(P, Q), NEW k
  PROVE  Stem(OfKind(P, k), OfKind(Q, k)) /\ Stem(OfRaw(P, k), OfRaw(Q, k))
  BY DEF Stem, OfKind, OfRaw

\* A group goes on from the same frame, with the frames it had, when later ones are seen.
LEMMA GroupsStems ==
  ASSUME NEW X, Frames(X), NEW Q \in SUBSET X, NEW P, Stem(P, Q), NEW k \in Grouped,
         NEW g \in Groups(View(X, P), k), NEW h \in Groups(View(X, Q), k), g \intersect h # {}
  PROVE  FirstTime(g) = FirstTime(h) /\ g \subseteq h
<1> DEFINE v == View(X, P)
           u == View(X, Q)
           S == OfKind(P, k)
           T == OfKind(Q, k)
<1>1. P \in SUBSET X /\ P \subseteq Q
  BY DEF Stem
<1>2. /\ Frames(DOMAIN v) /\ Visible(v, k) = S /\ \A f \in S : Class(v, k, f) = ClassIn(k, f)
      /\ Frames(DOMAIN u) /\ Visible(u, k) = T /\ \A f \in T : Class(u, k, f) = ClassIn(k, f)
  <2>1. Frames(DOMAIN v) /\ Visible(v, k) = S /\ \A f \in P : Class(v, k, f) = ClassIn(k, f)
    BY <1>1, ViewOf
  <2>2. Frames(DOMAIN u) /\ Visible(u, k) = T /\ \A f \in Q : Class(u, k, f) = ClassIn(k, f)
    BY ViewOf
  <2>3. S \subseteq P /\ T \subseteq Q
    BY DEF OfKind
  <2> HIDE DEF v, u, S, T
  <2> QED
    BY <2>1, <2>2, <2>3
<1>3. Frames(S) /\ Frames(T) /\ Stem(S, T) /\ S \subseteq T
  <2>1. Stem(S, T)
    BY StemOfKind
  <2> HIDE DEF v, u, S, T
  <2>2. Frames(S) /\ Frames(T)
    <3>1. Frames(Visible(v, k)) /\ Frames(Visible(u, k))
      BY <1>2, VisibleFrames
    <3> QED
      BY <1>2, <3>1
  <2> QED
    BY <2>1, <2>2 DEF Stem
<1> HIDE DEF v, u, S, T
<1>a. g \in Groups(v, k) /\ h \in Groups(u, k)
  BY DEF v, u
<1>4. g # {} /\ g \subseteq S /\ h # {} /\ h \subseteq T
  BY <1>2, <1>a, GroupsReach
<1>5. PICK e \in g : e \in h
  OBVIOUS
<1>6. \A f \in S : /\ (Class(v, k, f) = Class(v, k, e) <=> ClassIn(k, f) = ClassIn(k, e))
                  /\ (Class(u, k, f) = Class(u, k, e) <=> ClassIn(k, f) = ClassIn(k, e))
  BY <1>2, <1>3, <1>4, <1>5
<1>7. ASSUME Spanned(k)
      PROVE  \A f \in S : f \in g <=> f \in h
  <2>1. Buckets(v, k) = Split(S, Limit(k)) /\ Buckets(u, k) = Split(T, Limit(k))
    BY <1>2, <1>7, SpannedBuckets
  <2>2. PICK B \in Split(S, Limit(k)) : \E c \in B : g = {f \in B : Class(v, k, f) = Class(v, k, c)}
    BY <1>a, <2>1, GroupsOfBuckets
  <2>3. PICK C \in Split(T, Limit(k)) : \E c \in C : h = {f \in C : Class(u, k, f) = Class(u, k, c)}
    BY <1>a, <2>1, GroupsOfBuckets
  <2>4. /\ e \in B /\ g = {f \in B : Class(v, k, f) = Class(v, k, e)}
        /\ e \in C /\ h = {f \in C : Class(u, k, f) = Class(u, k, e)}
    BY <1>5, <2>2, <2>3
  <2>5. FirstTime(B) = FirstTime(C)
    BY <1>3, <2>4, LimitType, SplitStems
  <2>6. /\ B = {f \in S : f.time - FirstTime(B) \in 0..Limit(k)}
        /\ C = {f \in T : f.time - FirstTime(C) \in 0..Limit(k)}
    BY <1>3, LimitType, SplitFirst
  <2>7. \A f \in S : f \in B <=> f \in C
    BY <1>3, <2>5, <2>6
  <2> QED
    <3> TAKE f \in S
    <3>1. /\ f \in g <=> (f \in B /\ Class(v, k, f) = Class(v, k, e))
          /\ f \in h <=> (f \in C /\ Class(u, k, f) = Class(u, k, e))
      BY <2>4
    <3>2. f \in B <=> f \in C
      BY <2>7
    <3>3. Class(v, k, f) = Class(v, k, e) <=> ClassIn(k, f) = ClassIn(k, e)
      BY <1>6
    <3>4. Class(u, k, f) = Class(u, k, e) <=> ClassIn(k, f) = ClassIn(k, e)
      BY <1>6
    <3> QED
      BY <3>1, <3>2, <3>3, <3>4
<1>8. ASSUME ~ Spanned(k)
      PROVE  \A f \in S : f \in g <=> f \in h
  <2>1. PICK l : g = {f \in BucketOf(v, k, l) : Class(v, k, f) = Class(v, k, e)}
    BY <1>2, <1>a, GroupsReach
  <2>2. PICK m : h = {f \in BucketOf(u, k, m) : Class(u, k, f) = Class(u, k, e)}
    BY <1>2, <1>5, <1>a, GroupsReach
  <2>3. /\ \A f \in S : f \in BucketOf(v, k, l) <=> Inside(k, f) /\ KeyOf(v, k, f) = KeyOf(v, k, l)
        /\ \A f \in T : f \in BucketOf(u, k, m) <=> Inside(k, f) /\ KeyOf(u, k, f) = KeyOf(u, k, m)
    BY <1>2, <1>8 DEF BucketOf, Reached
  <2>4. KeyOf(v, k, e) = KeyOf(v, k, l) /\ KeyOf(u, k, e) = KeyOf(u, k, m) /\ e \in S
    BY <1>4, <1>5, <2>1, <2>2, <2>3
  <2>5. \A f \in S : KeyOf(v, k, f) = KeyOf(u, k, f)
    <3> TAKE f \in S
    <3>1. f \in P /\ f \in Q /\ f \in X
      BY <1>1 DEF S, OfKind
    <3>2. v[f] = "whole" /\ u[f] = "whole"
      BY <3>1 DEF v, u, View
    <3> QED
      BY <3>2 DEF KeyOf
  <2>6. \A f \in S : f \in BucketOf(v, k, l) <=> f \in BucketOf(u, k, m)
    BY <1>3, <2>3, <2>4, <2>5
  <2> QED
    <3> TAKE f \in S
    <3>1. /\ f \in g <=> (f \in BucketOf(v, k, l) /\ Class(v, k, f) = Class(v, k, e))
          /\ f \in h <=> (f \in BucketOf(u, k, m) /\ Class(u, k, f) = Class(u, k, e))
      BY <2>1, <2>2
    <3> QED
      BY <1>6, <2>6, <3>1
<1>9. \A f \in S : f \in g <=> f \in h
  BY <1>7, <1>8
<1>10. g \subseteq h
  BY <1>4, <1>9
<1>11. Frames(g) /\ Frames(h) /\ (\A f \in T : f.time \in Nat)
  BY <1>3, <1>4, SomeFrames
<1>12. PICK f \in g : f.time = FirstTime(g)
  BY <1>4, <1>11, FirstAndLast
<1>13. \A i \in h : f.time <= i.time
  <2> TAKE i \in h
  <2>1. SUFFICES ASSUME i.time < f.time PROVE FALSE
    BY <1>3, <1>4, <1>11
  <2>2. i \in S
    BY <1>3, <1>4, <2>1 DEF Stem
  <2>3. i \in g
    BY <1>9, <2>2
  <2>4. FirstTime(g) <= i.time /\ i.time \in Nat /\ FirstTime(g) \in Nat
    BY <1>4, <1>11, <2>3, FirstAndLast, SomeFrames
  <2> QED
    BY <1>12, <2>1, <2>4
<1>14. FirstTime(h) = f.time
  BY <1>10, <1>11, <1>13, FirstTimeOf
<1> QED
  BY <1>10, <1>12, <1>14

LEMMA DivisionMonotone ==
  ASSUME NEW a \in Nat, NEW b \in Nat, NEW d \in Nat \ {0}, a <= b
  PROVE  a \div d <= b \div d /\ a \div d \in Int /\ b \div d \in Int
<1> DEFINE p == a \div d
           q == b \div d
<1>1. p \in Int /\ q \in Int /\ d * p <= a /\ a < d * (p + 1) /\ d * q <= b /\ b < d * (q + 1)
  OBVIOUS
<1>2. p <= q
  <2>1. SUFFICES ASSUME q + 1 <= p PROVE FALSE
    BY <1>1 DEF p, q
  <2> HIDE DEF p, q
  <2>2. d * (q + 1) <= d * p
    BY <1>1, <2>1
  <2> QED
    BY <1>1, <2>2
<1> QED
  BY <1>1, <1>2 DEF p, q

\* The rows of S.
Enumerates(rows, n, S) ==
  rows \in [1..n -> S] /\ InOrder(rows, n) /\ \A f \in S : \E m \in 1..n : rows[m] = f

\* Different frames of S before t.
Before(q, i, S, t) ==
  /\ q \in [1..i -> S]
  /\ \A j, l \in 1..i : q[j] = q[l] => j = l
  /\ \A j \in 1..i : q[j].time < t

\* No i rows are before the i-th one.
LEMMA TooMany ==
  ASSUME NEW S, NEW n \in Nat, NEW rows, Enumerates(rows, n, S),
         NEW i \in 1..n, NEW q, Before(q, i, S, rows[i].time)
  PROVE  FALSE
<1> DEFINE at == [j \in 1..i |-> CHOOSE m \in 1..n : rows[m] = q[j]]
<1>6. /\ rows \in [1..n -> S] /\ InOrder(rows, n)
      /\ \A f \in S : \E m \in 1..n : rows[m] = f
  BY DEF Enumerates
<1>7. /\ q \in [1..i -> S]
      /\ \A j, l \in 1..i : q[j] = q[l] => j = l
      /\ \A j \in 1..i : q[j].time < rows[i].time
  BY DEF Before
<1>1. \A j \in 1..i : at[j] \in 1..(i - 1) /\ rows[at[j]] = q[j]
  <2> TAKE j \in 1..i
  <2>1. at[j] \in 1..n /\ rows[at[j]] = q[j]
    BY <1>6, <1>7
  <2> HIDE DEF at
  <2>2. ~ (i <= at[j])
    <3>1. rows[at[j]].time < rows[i].time /\ rows[at[j]].time \in Nat /\ rows[i].time \in Nat
      BY <1>6, <1>7, <2>1 DEF InOrder
    <3> QED
      BY <1>6, <2>1, <3>1 DEF InOrder
  <2> QED
    BY <2>1, <2>2
<1>2. at \in [1..i -> 1..(i - 1)]
  BY <1>1
<1> HIDE DEF at
<1>3. /\ IsFiniteSet(1..i) /\ IsFiniteSet(1..(i - 1))
      /\ Cardinality(1..i) = i /\ Cardinality(1..(i - 1)) = i - 1
  <2>1. IsFiniteSet(1..i) /\ Cardinality(1..i) = IF 1 > i THEN 0 ELSE i - 1 + 1
    BY FS_Interval
  <2> DEFINE p == i - 1
  <2>2. p \in Nat
    OBVIOUS
  <2> HIDE DEF p
  <2>3. IsFiniteSet(1..p) /\ Cardinality(1..p) = IF 1 > p THEN 0 ELSE p - 1 + 1
    BY <2>2, FS_Interval
  <2>4. Cardinality(1..i) = i
    BY <2>1
  <2>5. Cardinality(1..p) = p
    BY <2>2, <2>3
  <2> QED
    BY <2>1, <2>3, <2>4, <2>5 DEF p
<1> DEFINE A == 1..i
           B == 1..(i - 1)
<1>4. IsFiniteSet(A) /\ IsFiniteSet(B) /\ Cardinality(B) < Cardinality(A) /\ at \in [A -> B]
  BY <1>2, <1>3
<1> HIDE DEF A, B
<1>5. PICK x, y \in A : x # y /\ at[x] = at[y]
  BY <1>4, FS_PigeonHole
<1> QED
  BY <1>1, <1>5, <1>7 DEF A

\* Frames that come later do not change the times of the rows there were.
LEMMA TimesAgree ==
  ASSUME NEW T, Frames(T), NEW S, Stem(S, T),
         NEW n, n = Cardinality(S), NEW rs, rs = Chronological(S),
         NEW N, N = Cardinality(T), NEW rt, rt = Chronological(T)
  PROVE  /\ n \in Nat /\ N \in Nat /\ n <= N
         /\ \A i \in 1..n : rs[i].time = rt[i].time
<1>1. Frames(S) /\ S \subseteq T /\ \A f \in S : \A g \in T : g.time < f.time => g \in S
  BY SomeFrames DEF Stem
<1>2. /\ n \in Nat /\ rs \in [1..n -> S] /\ InOrder(rs, n)
      /\ \A i, j \in 1..n : rs[i] = rs[j] => i = j
      /\ \A f \in S : \E i \in 1..n : rs[i] = f
  BY <1>1, ChronologicalSorted
<1>3. /\ N \in Nat /\ rt \in [1..N -> T] /\ InOrder(rt, N)
      /\ \A i, j \in 1..N : rt[i] = rt[j] => i = j
      /\ \A f \in T : \E i \in 1..N : rt[i] = f
  BY ChronologicalSorted
<1>4. n <= N
  BY <1>1, FS_Subset DEF Frames
<1>5. ASSUME NEW i \in 1..n PROVE rs[i].time = rt[i].time
  <2>1. i \in 1..N /\ rs[i] \in S /\ rt[i] \in T /\ rs[i].time \in Nat /\ rt[i].time \in Nat
    BY <1>2, <1>3, <1>4 DEF InOrder
  <2>2. \A j \in 1..i : /\ j \in 1..n /\ j \in 1..N
                        /\ rs[j] \in S /\ rs[j].time \in Nat /\ rs[j].time <= rs[i].time
                        /\ rt[j] \in T /\ rt[j].time \in Nat /\ rt[j].time <= rt[i].time
    <3> TAKE j \in 1..i
    <3>1. j \in 1..n /\ j \in 1..N /\ j <= i
      BY <1>2, <1>4, <2>1
    <3> QED
      BY <1>2, <1>3, <2>1, <3>1 DEF InOrder
  <2>3. CASE rs[i].time < rt[i].time
    <3> DEFINE q == [j \in 1..i |-> rs[j]]
    <3>1. q \in [1..i -> T] /\ \A j \in 1..i : q[j] = rs[j]
      BY <1>1, <2>2
    <3> HIDE DEF q
    <3>2. /\ \A j, l \in 1..i : q[j] = q[l] => j = l
          /\ \A j \in 1..i : q[j].time < rt[i].time
      BY <1>2, <2>1, <2>2, <2>3, <3>1
    <3>3. Before(q, i, T, rt[i].time) /\ Enumerates(rt, N, T)
      BY <1>3, <3>1, <3>2 DEF Before, Enumerates
    <3> QED
      BY <1>3, <2>1, <3>3, TooMany
  <2>4. CASE rt[i].time < rs[i].time
    <3> DEFINE q == [j \in 1..i |-> rt[j]]
    <3>1. \A j \in 1..i : rt[j].time < rs[i].time /\ rt[j] \in S
      <4> TAKE j \in 1..i
      <4>1. rt[j].time < rs[i].time
        BY <2>1, <2>2, <2>4
      <4> QED
        BY <1>1, <2>1, <2>2, <4>1
    <3>2. q \in [1..i -> S] /\ \A j \in 1..i : q[j] = rt[j]
      BY <3>1
    <3> HIDE DEF q
    <3>3. /\ \A j, l \in 1..i : q[j] = q[l] => j = l
          /\ \A j \in 1..i : q[j].time < rs[i].time
      BY <1>3, <2>2, <3>1, <3>2
    <3>4. Before(q, i, S, rs[i].time) /\ Enumerates(rs, n, S)
      BY <1>2, <3>2, <3>3 DEF Before, Enumerates
    <3> QED
      BY <1>2, <3>4, TooMany
  <2> QED
    BY <2>1, <2>3, <2>4
<1> QED
  BY <1>2, <1>3, <1>4, <1>5

\* A window grows at most, when rows are added after the last one, and only the last window.
LEMMA EndsAgree ==
  ASSUME NEW n \in Nat, NEW rs, Len(rs) = n, InOrder(rs, n),
         NEW N \in Nat, NEW rt, Len(rt) = N, InOrder(rt, N), n <= N,
         \A i \in 1..n : rs[i].time = rt[i].time, NEW k \in Kind, NEW i \in 1..n
  PROVE  /\ EndOf(rs, k, i) <= EndOf(rt, k, i)
         /\ EndOf(rs, k, i) < n => EndOf(rs, k, i) = EndOf(rt, k, i)
         /\ Closed(rs, k, i) => Closed(rt, k, i)
<1> DEFINE e == EndOf(rs, k, i)
           E == EndOf(rt, k, i)
<1>1. i \in 1..N
  OBVIOUS
<1>2. /\ e \in i..n /\ e \in Ends(rs, k, i) /\ \A j \in Ends(rs, k, i) : j <= e
      /\ E \in i..N /\ E \in Ends(rt, k, i) /\ \A j \in Ends(rt, k, i) : j <= E
  BY <1>1, EndOfIs
<1> HIDE DEF e, E
<1>3. Span[k] \in Nat /\ Minimum[k] \in Nat /\ Day \in Nat \ {0} /\ More(k) \in Nat
  BY Policies DEF More
<1>4. /\ \A j : j \in Ends(rs, k, i) <=> (j \in i..n /\ j <= i + More(k) /\ Days(rs, i, j) <= Span[k])
      /\ \A j : j \in Ends(rt, k, i) <=> (j \in i..N /\ j <= i + More(k) /\ Days(rt, i, j) <= Span[k])
  BY DEF Ends
<1>5. \A j \in i..n : j \in i..N /\ Days(rs, i, j) = Days(rt, i, j)
  <2> TAKE j \in i..n
  <2>1. j \in 1..n
    OBVIOUS
  <2> QED
    BY <2>1 DEF Days
<1>6. ASSUME NEW j \in i..N, NEW l \in i..N, j <= l
      PROVE  Days(rt, i, j) <= Days(rt, i, l) /\ Days(rt, i, j) \in Int /\ Days(rt, i, l) \in Int
  <2> DEFINE a == rt[j].time - rt[i].time
             b == rt[l].time - rt[i].time
  <2>1. j \in 1..N /\ l \in 1..N /\ i <= j
    OBVIOUS
  <2>2. /\ rt[i].time \in Nat /\ rt[j].time \in Nat /\ rt[l].time \in Nat
        /\ rt[i].time <= rt[j].time /\ rt[j].time <= rt[l].time
    BY <1>1, <1>6, <2>1 DEF InOrder
  <2>3. a \in Nat /\ b \in Nat /\ a <= b
    BY <2>2
  <2> HIDE DEF a, b
  <2>4. a \div Day <= b \div Day /\ a \div Day \in Int /\ b \div Day \in Int
    BY <1>3, <2>3, DivisionMonotone
  <2> QED
    BY <2>4 DEF Days, a, b
<1>7. e <= E
  BY <1>2, <1>4, <1>5
<1>8. ASSUME e < n PROVE e = E
  <2>1. SUFFICES ASSUME e < E PROVE FALSE
    BY <1>2, <1>7
  <2>2. e + 1 \in i..n /\ e + 1 \in i..N /\ e + 1 <= E /\ E <= i + More(k)
    BY <1>2, <1>4, <1>8, <2>1
  <2>3. Days(rt, i, e + 1) <= Days(rt, i, E) /\ Days(rt, i, E) <= Span[k]
        /\ Days(rt, i, e + 1) \in Int /\ Days(rt, i, E) \in Int
    BY <1>2, <1>4, <1>6, <2>2
  <2>4. Days(rs, i, e + 1) <= Span[k]
    BY <1>3, <1>5, <2>2, <2>3
  <2>5. e + 1 <= i + More(k)
    BY <1>2, <1>3, <2>2
  <2>6. e + 1 \in Ends(rs, k, i)
    BY <1>4, <2>2, <2>4, <2>5
  <2> QED
    BY <1>2, <2>6
<1>9. ASSUME Closed(rs, k, i) PROVE Closed(rt, k, i)
  <2>1. e - i + 1 >= Minimum[k] \/ Days(rs, i, e) >= Span[k]
    BY <1>9 DEF Closed, e
  <2>2. E - i + 1 >= Minimum[k] \/ Days(rt, i, E) >= Span[k]
    <3>1. CASE e - i + 1 >= Minimum[k]
      BY <1>2, <1>3, <1>7, <3>1
    <3>2. CASE Days(rs, i, e) >= Span[k]
      <4>1. e \in i..N /\ Days(rs, i, e) = Days(rt, i, e)
        BY <1>2, <1>5
      <4>2. Days(rt, i, e) <= Days(rt, i, E) /\ Days(rt, i, e) \in Int /\ Days(rt, i, E) \in Int
        BY <1>2, <1>6, <1>7, <4>1
      <4> QED
        BY <1>3, <3>2, <4>1, <4>2
    <3> QED
      BY <2>1, <3>1, <3>2
  <2> QED
    BY <2>2 DEF Closed, E
<1> QED
  BY <1>7, <1>8, <1>9 DEF e, E
LEMMA ChainStems ==
  ASSUME NEW n \in Nat, NEW rs, Len(rs) = n, InOrder(rs, n),
         NEW N \in Nat, NEW rt, Len(rt) = N, InOrder(rt, N), n <= N,
         \A i \in 1..n : rs[i].time = rt[i].time, NEW k \in Kind,
         NEW C, Chained(C, 1, n, rs, k), NEW D, Chained(D, 1, N, rt, k)
  PROVE  C \subseteq D
<1> DEFINE Bad == C \ D
<1>1. /\ C \subseteq 1..n /\ \A a \in C : Closed(rs, k, a)
      /\ \A a \in C : a = 1 \/ \E b \in C : b < a /\ a = EndOf(rs, k, b) + 1
  BY DEF Chained
<1>2. /\ D \subseteq 1..N
      /\ 1 <= N /\ Closed(rt, k, 1) => 1 \in D
      /\ \A a \in D : EndOf(rt, k, a) + 1 <= N /\ Closed(rt, k, EndOf(rt, k, a) + 1)
                        => EndOf(rt, k, a) + 1 \in D
  BY DEF Chained
<1>3. \A i \in 1..n : /\ EndOf(rs, k, i) \in i..n
                      /\ EndOf(rs, k, i) < n => EndOf(rs, k, i) = EndOf(rt, k, i)
                      /\ Closed(rs, k, i) => Closed(rt, k, i)
  <2> TAKE i \in 1..n
  <2>1. EndOf(rs, k, i) \in i..n
    BY EndOfIs
  <2>2. /\ EndOf(rs, k, i) < n => EndOf(rs, k, i) = EndOf(rt, k, i)
        /\ Closed(rs, k, i) => Closed(rt, k, i)
    BY EndsAgree
  <2> QED
    BY <2>1, <2>2
<1>4. Bad = {}
  <2> SUFFICES ASSUME Bad # {} PROVE FALSE
    OBVIOUS
  <2>1. PICK a \in Bad : \A b \in Bad : a <= b
    <3>1. Bad \in SUBSET Nat
      <4>1. \A c \in C : c \in Nat
        BY <1>1
      <4> QED
        BY <4>1
    <3> HIDE DEF Bad
    <3> QED
      BY <3>1, LeastNatural
  <2>2. a \in C /\ a \notin D /\ a \in 1..n /\ Closed(rs, k, a)
    BY <1>1
  <2>3. Closed(rt, k, a)
    BY <1>3, <2>2
  <2>4. CASE a = 1
    <3>1. 1 <= N
      BY <2>2, <2>4
    <3> QED
      BY <1>2, <2>2, <2>3, <2>4, <3>1
  <2>5. CASE a # 1
    <3>1. PICK b \in C : b < a /\ a = EndOf(rs, k, b) + 1
      BY <1>1, <2>2, <2>5
    <3>2. b \in 1..n /\ b \in D
      BY <1>1, <2>1, <2>2, <3>1
    <3>3. EndOf(rs, k, b) \in b..n
      BY <1>3, <3>2
    <3>4. EndOf(rt, k, b) + 1 = a /\ a <= N
      BY <1>3, <2>2, <3>1, <3>2, <3>3
    <3> QED
      BY <1>2, <2>2, <2>3, <3>2, <3>4
  <2> QED
    BY <2>4, <2>5
<1> QED
  BY <1>4

\* Windows that share more than an end begin together, if the ones are from a stem of the
\* frames of the others.
LEMMA CountStems ==
  ASSUME NEW T, Frames(T), NEW S, Stem(S, T), NEW k \in Kind,
         NEW w \in CountWindows(S, k), NEW u \in CountWindows(T, k), NEW t \in Nat,
         w[1] <= t, t <= w[2], u[1] <= t, t <= u[2], w[2] # u[1], u[2] # w[1]
  PROVE  w[1] = u[1]
<1> DEFINE n  == Cardinality(S)
           rs == Chronological(S)
           N  == Cardinality(T)
           rt == Chronological(T)
<1>1. Frames(S)
  BY SomeFrames DEF Stem
<1>2. /\ n \in Nat /\ Len(rs) = n /\ InOrder(rs, n)
      /\ N \in Nat /\ Len(rt) = N /\ InOrder(rt, N)
  BY <1>1, ChronologicalSorted
<1>3. n <= N /\ \A i \in 1..n : rs[i].time = rt[i].time
  BY TimesAgree
<1>4. PICK C : Chained(C, 1, n, rs, k) /\ CountWindows(S, k) = {WindowOf(rs, k, a) : a \in C}
  BY <1>1, WindowsChained
<1>5. PICK D : Chained(D, 1, N, rt, k) /\ CountWindows(T, k) = {WindowOf(rt, k, a) : a \in D}
  BY WindowsChained
<1> HIDE DEF n, rs, N, rt
<1>6. C \subseteq D
  BY <1>2, <1>3, <1>4, <1>5, ChainStems
<1>7. C \subseteq 1..n /\ D \subseteq 1..N
  BY <1>4, <1>5 DEF Chained
<1>8. PICK a \in C : w = WindowOf(rs, k, a)
  BY <1>4
<1>9. PICK d \in D : u = WindowOf(rt, k, d)
  BY <1>5
<1> DEFINE e == EndOf(rs, k, a)
           E(x) == EndOf(rt, k, x)
<1>10. /\ w[1] = rs[a].time /\ w[2] = rs[e].time
       /\ u[1] = rt[d].time /\ u[2] = rt[E(d)].time
  BY <1>8, <1>9 DEF WindowOf
<1>11. a \in D /\ a \in 1..n /\ a \in 1..N /\ d \in 1..N
  BY <1>6, <1>7
<1>12. e \in a..n /\ E(a) \in a..N /\ E(d) \in d..N
  BY <1>2, <1>11, EndOfIs
<1>13. e <= E(a)
  BY <1>2, <1>3, <1>11, EndsAgree
<1>14. \A x, y \in D : x < y => E(x) < y
  BY <1>2, <1>5, WindowsApart
<1> HIDE DEF e, E
<1>15. /\ \A i \in 1..N : rt[i].time \in Nat
       /\ \A i, j \in 1..N : i <= j => rt[i].time <= rt[j].time
  BY <1>2 DEF InOrder
<1>16. e \in 1..n /\ e \in 1..N /\ E(d) \in 1..N
  BY <1>2, <1>3, <1>11, <1>12
<1>17. w[1] = rt[a].time /\ w[2] = rt[e].time
  BY <1>3, <1>10, <1>11, <1>16
<1>18. CASE a < d
  <2>1. e <= d
    BY <1>11, <1>12, <1>13, <1>14, <1>18
  <2>2. w[2] <= u[1] /\ w[2] \in Nat /\ u[1] \in Nat
    BY <1>10, <1>11, <1>15, <1>16, <1>17, <2>1
  <2> QED
    BY <2>2
<1>19. CASE d < a
  <2>1. E(d) <= a
    BY <1>11, <1>12, <1>14, <1>16, <1>19
  <2>2. u[2] <= w[1] /\ u[2] \in Nat /\ w[1] \in Nat
    BY <1>10, <1>11, <1>15, <1>16, <1>17, <2>1
  <2> QED
    BY <2>2
<1>20. CASE a = d
  BY <1>10, <1>17, <1>20
<1> QED
  BY <1>11, <1>18, <1>19, <1>20

LEMMA CustomStems ==
  ASSUME NEW X, Frames(X), NEW Q \in SUBSET X, NEW P, Stem(P, Q), NEW k \in Kind \ Grouped,
         NEW b, NEW w \in CustomWindows(View(X, P), k, b),
         NEW c, NEW u \in CustomWindows(View(X, Q), k, c), NEW t \in Nat,
         w[1] <= t, t <= w[2], u[1] <= t, t <= u[2], w[2] # u[1], u[2] # w[1]
  PROVE  w[1] = u[1]
<1> DEFINE v == View(X, P)
           z == View(X, Q)
           S == OfRaw(P, k)
           T == OfRaw(Q, k)
<1>1. P \in SUBSET X
  BY DEF Stem
<1>2. Frames(DOMAIN v) /\ Scoped(v, k) = S
  BY <1>1, ViewOf
<1>3. Frames(DOMAIN z) /\ Scoped(z, k) = T
  BY ViewOf
<1>4. Stem(S, T)
  BY StemOfKind
<1> HIDE DEF v, z, S, T
<1>5. Frames(S) /\ Frames(T)
  <2>1. Frames(Scoped(v, k)) /\ Frames(Scoped(z, k))
    BY <1>2, <1>3, VisibleFrames
  <2> QED
    BY <1>2, <1>3, <2>1
<1>6. w \in CustomWindows(v, k, b) /\ u \in CustomWindows(z, k, c)
  BY DEF v, z
<1>7. CASE Policy[k] = "time"
  <2>1. w \in TimeWindows(S, k, b) /\ u \in TimeWindows(T, k, c)
    BY <1>2, <1>3, <1>6, <1>7 DEF CustomWindows
  <2>2. S # {} /\ w[1] = FirstTime(S) /\ u[1] = FirstTime(T)
    BY <2>1 DEF TimeWindows
  <2>3. PICK f \in S : f.time = FirstTime(S)
    BY <1>5, <2>2, FirstAndLast
  <2>4. f \in T /\ \A g \in T : f.time <= g.time
    <3>1. f \in T
      BY <1>4 DEF Stem
    <3>2. \A g \in T : g.time \in Nat
      BY <1>5, SomeFrames
    <3>3. \A g \in S : f.time <= g.time
      BY <1>5, <2>3, FirstAndLast
    <3>4. \A g \in T : f.time <= g.time
      <4> TAKE g \in T
      <4>1. CASE g \in S
        BY <3>3, <4>1
      <4>2. CASE g \notin S
        BY <1>4, <3>1, <3>2, <4>2 DEF Stem
      <4> QED
        BY <4>1, <4>2
    <3> QED
      BY <3>1, <3>4
  <2>5. FirstTime(T) = f.time
    BY <1>5, <2>4, FirstTimeOf
  <2> QED
    BY <2>2, <2>3, <2>5
<1>8. CASE Policy[k] # "time"
  <2>1. w \in CountWindows(S, k) /\ u \in CountWindows(T, k)
    BY <1>2, <1>3, <1>6, <1>8 DEF CustomWindows
  <2> QED
    BY <1>4, <1>5, <2>1, CountStems
<1> QED
  BY <1>7, <1>8
-----------------------------------------------------------------------------
(* What is made of campaigns that come in time                             *)

\* The frames that plans and runs have listed: of any two sets the one goes on with the other.
Chain(C, K) ==
  /\ \A P \in C : Stem(P, K)
  /\ \A P, Q \in C : P \subseteq Q \/ Q \subseteq P

LEMMA StemsInChain ==
  ASSUME NEW C, NEW K, Chain(C, K), NEW P \in C, NEW Q \in C, P \subseteq Q
  PROVE  Stem(P, Q)
  BY DEF Chain, Stem

\* m is of a window of the frames in P, and has those in R.
WindowMade(m, P, R, X) ==
  /\ P \subseteq R
  /\ \E b \in BOOLEAN : \E w \in CustomWindows(View(X, P), m.kind, b) :
       m.from = w[1] /\ m.to = w[2] /\ m.frames = Between(View(X, R), m.kind, w[1], w[2])

MadeFrom(m, C, X) ==
  \/ m.kind = "arc"
  \/ m.kind \in Grouped /\ \E P \in C : m.frames \in Groups(View(X, P), m.kind)
  \/ m.kind \in Kind \ Grouped /\ \E P, R \in C : WindowMade(m, P, R, X)

LEMMA GroupsContinue ==
  ASSUME NEW X, Frames(X), NEW K \in SUBSET X, NEW C, Chain(C, K), NEW k \in Grouped,
         NEW P \in C, NEW g \in Groups(View(X, P), k),
         NEW Q \in C, NEW h \in Groups(View(X, Q), k), g \intersect h # {}
  PROVE  FirstTime(g) = FirstTime(h) /\ (g \subseteq h \/ h \subseteq g)
<1>1. P \in SUBSET X /\ Q \in SUBSET X /\ (P \subseteq Q \/ Q \subseteq P)
  BY DEF Chain, Stem
<1>2. CASE P \subseteq Q
  <2>1. Stem(P, Q)
    BY <1>2, StemsInChain
  <2> QED
    BY <1>1, <2>1, GroupsStems
<1>3. CASE Q \subseteq P
  <2>1. Stem(Q, P) /\ h \intersect g # {}
    BY <1>3, StemsInChain
  <2>2. FirstTime(h) = FirstTime(g) /\ h \subseteq g
    BY <1>1, <2>1, GroupsStems
  <2> QED
    BY <2>2
<1> QED
  BY <1>1, <1>2, <1>3

LEMMA WindowFirst ==
  ASSUME NEW X, Frames(X), NEW P \in SUBSET X, NEW R \in SUBSET X,
         NEW m, m.kind \in Kind \ Grouped, WindowMade(m, P, R, X)
  PROVE  /\ m.from \in Nat /\ m.to \in Nat
         /\ FirstTime(m.frames) = m.from
         /\ \A f : f \in m.frames
              <=> (f \in R /\ RawType(f.kind) = RawType(m.kind) /\ m.from <= f.time /\ f.time <= m.to)
         /\ \E f \in P : RawType(f.kind) = RawType(m.kind) /\ f.time = m.to
<1> DEFINE k == m.kind
           v == View(X, P)
<1>1. PICK b \in BOOLEAN : \E w \in CustomWindows(v, k, b) :
        m.from = w[1] /\ m.to = w[2] /\ m.frames = Between(View(X, R), k, w[1], w[2])
  BY DEF WindowMade
<1>13. PICK w \in CustomWindows(v, k, b) :
         m.from = w[1] /\ m.to = w[2] /\ m.frames = Between(View(X, R), k, w[1], w[2])
  BY <1>1
<1>2. P \subseteq R
  BY DEF WindowMade
<1>3. Frames(DOMAIN v) /\ Scoped(v, k) = OfRaw(P, k)
  BY ViewOf
<1>4. Scoped(View(X, R), k) = OfRaw(R, k)
  BY ViewOf
<1> HIDE DEF v, k
<1>5. /\ w[1] \in Nat /\ w[2] \in Nat /\ w[1] <= w[2]
      /\ \E f \in Scoped(v, k) : f.time = w[1]
      /\ \E f \in Scoped(v, k) : f.time = w[2]
  BY <1>13, <1>3, CustomWindowsApart DEF k
<1>6. \A f : f \in m.frames <=> (f \in R /\ RawType(f.kind) = RawType(k) /\ m.from <= f.time /\ f.time <= m.to)
  BY <1>13, <1>4 DEF Between, OfRaw
<1>7. PICK f \in P : RawType(f.kind) = RawType(k) /\ f.time = m.from
  BY <1>13, <1>3, <1>5 DEF OfRaw
<1>8. m.frames \in SUBSET X
  BY <1>6
<1>9. Frames(m.frames)
  BY <1>8, SomeFrames
<1>10. f \in m.frames /\ \A g \in m.frames : f.time <= g.time
  BY <1>13, <1>2, <1>5, <1>6, <1>7
<1>11. FirstTime(m.frames) = m.from
  BY <1>7, <1>9, <1>10, FirstTimeOf
<1>12. \E e \in P : RawType(e.kind) = RawType(k) /\ e.time = m.to
  BY <1>13, <1>3, <1>5 DEF OfRaw
<1> QED
  BY <1>13, <1>5, <1>6, <1>11, <1>12 DEF k

LEMMA WindowsContinue ==
  ASSUME NEW X, Frames(X), NEW K \in SUBSET X, NEW C, Chain(C, K),
         NEW m, NEW n, m.kind \in Kind \ Grouped, n.kind = m.kind,
         MadeFrom(m, C, X), MadeFrom(n, C, X),
         m.frames \intersect n.frames # {}, m.to # n.from, n.to # m.from
  PROVE  /\ FirstTime(m.frames) = FirstTime(n.frames)
         /\ m.frames \subseteq n.frames \/ n.frames \subseteq m.frames
<1>8. "arc" \notin Kind
  BY DEF Kind
<1>9. PICK P \in C, R \in C : WindowMade(m, P, R, X)
  BY <1>8 DEF MadeFrom
<1>10. PICK Q \in C, U \in C : WindowMade(n, Q, U, X)
  BY <1>8 DEF MadeFrom
<1>1. /\ P \in SUBSET X /\ Q \in SUBSET X /\ R \in SUBSET X /\ U \in SUBSET X
      /\ P \subseteq Q \/ Q \subseteq P
      /\ R \subseteq U \/ U \subseteq R
      /\ R \subseteq K /\ U \subseteq K
      /\ P \subseteq R /\ Q \subseteq U
      /\ \A f \in R, g \in K : g.time < f.time => g \in R
      /\ \A f \in U, g \in K : g.time < f.time => g \in U
  BY <1>9, <1>10 DEF Chain, Stem, WindowMade
<1>2. /\ m.from \in Nat /\ m.to \in Nat
      /\ FirstTime(m.frames) = m.from
      /\ \A f : f \in m.frames
           <=> (f \in R /\ RawType(f.kind) = RawType(m.kind) /\ m.from <= f.time /\ f.time <= m.to)
      /\ \E f \in P : RawType(f.kind) = RawType(m.kind) /\ f.time = m.to
  BY <1>1, <1>9, WindowFirst
<1>3. /\ n.from \in Nat /\ n.to \in Nat
      /\ FirstTime(n.frames) = n.from
      /\ \A f : f \in n.frames
           <=> (f \in U /\ RawType(f.kind) = RawType(m.kind) /\ n.from <= f.time /\ f.time <= n.to)
      /\ \E f \in Q : RawType(f.kind) = RawType(m.kind) /\ f.time = n.to
  <2>1. n.kind \in Kind \ Grouped
    OBVIOUS
  <2> QED
    BY <1>1, <1>10, <2>1, WindowFirst
<1>4. m.from = n.from
  <2>1. PICK e \in m.frames : e \in n.frames
    OBVIOUS
  <2>2. e.time \in Nat /\ m.from <= e.time /\ e.time <= m.to /\ n.from <= e.time /\ e.time <= n.to
    BY <1>1, <1>2, <1>3, <2>1, SomeFrames
  <2>3. PICK b \in BOOLEAN : \E w \in CustomWindows(View(X, P), m.kind, b) :
          m.from = w[1] /\ m.to = w[2]
    BY <1>9 DEF WindowMade
  <2>7. PICK w \in CustomWindows(View(X, P), m.kind, b) : m.from = w[1] /\ m.to = w[2]
    BY <2>3
  <2>4. PICK c \in BOOLEAN : \E u \in CustomWindows(View(X, Q), m.kind, c) :
          n.from = u[1] /\ n.to = u[2]
    BY <1>10 DEF WindowMade
  <2>8. PICK u \in CustomWindows(View(X, Q), m.kind, c) : n.from = u[1] /\ n.to = u[2]
    BY <2>4
  <2>5. CASE P \subseteq Q
    <3>1. Stem(P, Q)
      BY <2>5, StemsInChain
    <3> QED
      BY <1>1, <2>2, <2>7, <2>8, <3>1, CustomStems
  <2>6. CASE Q \subseteq P
    <3>1. Stem(Q, P)
      BY <2>6, StemsInChain
    <3>2. u[1] = w[1]
      BY <1>1, <2>2, <2>7, <2>8, <3>1, CustomStems
    <3> QED
      BY <2>7, <2>8, <3>2
  <2> QED
    BY <1>1, <2>5, <2>6
<1>5. CASE m.to = n.to
  BY <1>1, <1>2, <1>3, <1>4, <1>5
<1>6. CASE m.to < n.to
  <2>1. PICK h \in U : h.time = n.to
    BY <1>1, <1>3
  <2>2. ASSUME NEW f \in m.frames PROVE f \in n.frames
    <3>1. f \in K /\ f \in X /\ RawType(f.kind) = RawType(m.kind) /\ m.from <= f.time /\ f.time <= m.to
      BY <1>1, <1>2
    <3>2. f.time \in Nat
      BY <3>1, SomeFrames
    <3>3. f.time < h.time /\ f.time <= n.to
      BY <1>2, <1>3, <1>6, <2>1, <3>1, <3>2
    <3> QED
      BY <1>1, <1>3, <1>4, <3>1, <3>3
  <2> QED
    BY <1>2, <1>3, <1>4, <2>2
<1>7. CASE n.to < m.to
  <2>1. PICK h \in R : h.time = m.to
    BY <1>1, <1>2
  <2>2. ASSUME NEW f \in n.frames PROVE f \in m.frames
    <3>1. f \in K /\ f \in X /\ RawType(f.kind) = RawType(m.kind) /\ n.from <= f.time /\ f.time <= n.to
      BY <1>1, <1>3
    <3>2. f.time \in Nat
      BY <3>1, SomeFrames
    <3>3. f.time < h.time /\ f.time <= m.to
      BY <1>2, <1>3, <1>7, <2>1, <3>1, <3>2
    <3> QED
      BY <1>1, <1>2, <1>4, <3>1, <3>3
  <2> QED
    BY <1>2, <1>3, <1>4, <2>2
<1> QED
  BY <1>2, <1>3, <1>5, <1>6, <1>7

\* Whatever is made from the frames of a chain is disjoint, or the one continues the other.
LEMMA MadeContinue ==
  ASSUME NEW X, Frames(X), NEW K \in SUBSET X, NEW C, Chain(C, K),
         NEW m, NEW n, MadeFrom(m, C, X), MadeFrom(n, C, X), m.kind # "arc", n.kind = m.kind,
         m.frames \intersect n.frames # {}, ~ (Windowed(m) /\ (m.to = n.from \/ n.to = m.from))
  PROVE  /\ FirstTime(m.frames) = FirstTime(n.frames)
         /\ m.frames \subseteq n.frames \/ n.frames \subseteq m.frames
<1>1. CASE m.kind \in Grouped
  <2>1. PICK P \in C : m.frames \in Groups(View(X, P), m.kind)
    BY <1>1 DEF MadeFrom
  <2>2. PICK Q \in C : n.frames \in Groups(View(X, Q), m.kind)
    BY <1>1 DEF MadeFrom
  <2> QED
    BY <1>1, <2>1, <2>2, GroupsContinue
<1>2. CASE m.kind \in Kind \ Grouped
  <2>1. m.to # n.from /\ n.to # m.from
    BY <1>2 DEF Windowed
  <2> QED
    BY <1>2, <2>1, WindowsContinue
<1> QED
  BY <1>1, <1>2 DEF MadeFrom
Whole == {f \in taken : catalog[f] = "whole"}

\* Of a campaign that comes in time: only the last frame may lack its details, and what was
\* listed and made is from prefixes of what is known.
Prefixes(C) ==
  /\ Chain(C, Known)
  /\ \A P \in C : P \subseteq Whole \/ P = Known
  /\ \E P \in C : P \subseteq Whole /\ seen = View(taken, P)
  /\ \A m \in made : MadeFrom(m, C, taken)

InTime ==
  /\ \A f \in Known \ Whole : \A g \in Known : g.time <= f.time /\ (g \notin Whole => g = f)
  /\ \E C : Prefixes(C)

OrderInv == PlanInv /\ todo \subseteq plan /\ (orderly => InTime)

LEMMA MoreMade ==
  ASSUME NEW C, NEW D, C \subseteq D, NEW X, NEW m, MadeFrom(m, C, X)
  PROVE  MadeFrom(m, D, X)
  BY DEF MadeFrom

LEMMA TargetIs ==
  ASSUME NEW v, NEW b, NEW t \in Targets(v, b)
  PROVE  \/ \E k \in Grouped : \E g \in Groups(v, k) : t = GroupTarget(v, k, g)
         \/ \E k \in Kind \ Grouped : t \in WindowTargets(v, k, b)
         \/ t.kind = "arc" /\ \E p : t = [kind |-> "arc", frames |-> p]
<1> DEFINE A == UNION {{GroupTarget(v, k, g) : g \in Groups(v, k)} : k \in Grouped}
           B == UNION {WindowTargets(v, k, b) : k \in Kind \ Grouped}
<1>1. Targets(v, b) = A \union B \union Arcs(v)
  BY DEF Targets
<1>2. \A u \in A : \E k \in Grouped : \E g \in Groups(v, k) : u = GroupTarget(v, k, g)
  OBVIOUS
<1>3. \A u \in B : \E k \in Kind \ Grouped : u \in WindowTargets(v, k, b)
  OBVIOUS
<1> HIDE DEF A, B
<1>4. \A u \in Arcs(v) : u.kind = "arc" /\ \E p : u = [kind |-> "arc", frames |-> p]
  BY DEF Arcs
<1> QED
  BY <1>1, <1>2, <1>3, <1>4

\* What is registered is of the frames that were listed and of those that are known by now.
LEMMA RegisteredFrom ==
  ASSUME PlanInv, NEW C, NEW P \in C, P \subseteq Whole, Known \in C, Whole \in C,
         NEW b \in BOOLEAN, NEW t \in Targets(View(taken, P), b)
  PROVE  MadeFrom(Registered(t), C, taken)
<1> DEFINE v == View(taken, P)
<1>1. Frames(taken) /\ Whole \subseteq Known /\ Known \in SUBSET taken /\ P \in SUBSET taken
  BY CadenceAssumption DEF PlanInv, Frames, Whole, Known
<1>2. Frames(DOMAIN v)
  BY <1>1, ViewOf
<1>3. \A k : Visible(v, k) = OfKind(P, k)
  BY <1>1, ViewOf
<1>4. "arc" \notin Kind /\ Grouped \subseteq Kind
  BY DEF Kind, Grouped
<1> HIDE DEF v
<1>5. Registered(t) = [t EXCEPT !.frames = QueryInputs(t)]
  BY DEF Registered
<1>6. ASSUME NEW k \in Grouped, NEW g \in Groups(v, k), t = GroupTarget(v, k, g)
      PROVE  MadeFrom(Registered(t), C, taken)
  <2>1. t = [kind |-> k, frames |-> g, class |-> GroupClass(v, k, g)]
    BY <1>6 DEF GroupTarget
  <2>2. t.kind = k /\ t.frames = g /\ ~ Windowed(t) /\ t.kind # "arc"
    BY <1>4, <2>1 DEF Windowed
  <2>3. QueryInputs(t) = g
    <3>1. g \subseteq Visible(v, k)
      BY <1>2, GroupsReach
    <3>2. g \subseteq Known
      BY <1>1, <1>3, <3>1 DEF OfKind
    <3> QED
      BY <2>2, <3>2 DEF QueryInputs, ById
  <2>4. Registered(t).kind = k /\ Registered(t).frames = g
    BY <1>5, <2>1, <2>3
  <2> QED
    BY <2>4 DEF MadeFrom, v
<1>7. ASSUME NEW k \in Kind \ Grouped, t \in WindowTargets(v, k, b)
      PROVE  MadeFrom(Registered(t), C, taken)
  <2> DEFINE R == Known
  <2>1. PICK w \in CustomWindows(v, k, b) : t = WindowTarget(v, k, w)
    BY <1>2, <1>7, WindowTargetsAre
  <2>2. t = [kind |-> k, frames |-> Between(v, k, w[1], w[2]), from |-> w[1], to |-> w[2]]
    BY <2>1 DEF WindowTarget
  <2>3. t.kind = k /\ t.from = w[1] /\ t.to = w[2] /\ Windowed(t)
    BY <2>2 DEF Windowed
  <2>4. R \in C /\ R \in SUBSET taken /\ P \subseteq R
    BY <1>1
  <2>5. Scoped(catalog, k) = OfRaw(R, k)
    <3>1. DOMAIN catalog = taken
      BY DEF PlanInv
    <3> QED
      BY <3>1 DEF Scoped, OfRaw, Known
  <2> HIDE DEF R
  <2>6. Scoped(View(taken, R), k) = OfRaw(R, k)
    BY <1>1, <2>4, ViewOf
  <2>7. QueryInputs(t) = Between(View(taken, R), k, w[1], w[2])
    <3>1. QueryInputs(t) = Between(catalog, k, w[1], w[2])
      BY <1>4, <2>3 DEF QueryInputs
    <3>2. Scoped(catalog, k) = Scoped(View(taken, R), k)
      BY <2>5, <2>6
    <3> QED
      BY <3>1, <3>2 DEF Between
  <2>8. /\ Registered(t).kind = k /\ Registered(t).from = w[1] /\ Registered(t).to = w[2]
        /\ Registered(t).frames = Between(View(taken, R), k, w[1], w[2])
    BY <1>5, <2>2, <2>7
  <2>9. WindowMade(Registered(t), P, R, taken)
    BY <2>1, <2>4, <2>8 DEF WindowMade, v
  <2> QED
    BY <2>4, <2>8, <2>9 DEF MadeFrom
<1>8. ASSUME NEW p, t = [kind |-> "arc", frames |-> p]
      PROVE  MadeFrom(Registered(t), C, taken)
  <2>1. Registered(t).kind = "arc"
    BY <1>5, <1>8
  <2> QED
    BY <2>1 DEF MadeFrom
<1> QED
  BY <1>6, <1>7, <1>8, TargetIs DEF v

LEMMA OrderInvInvariant == CadenceSpec => []OrderInv
<1>1. CadenceInit /\ PlanInv => OrderInv
  <2> SUFFICES ASSUME CadenceInit, PlanInv PROVE OrderInv
    OBVIOUS
  <2>1. Known = {} /\ Whole = {} /\ made = {} /\ seen = [f \in taken |-> "absent"]
    BY DEF CadenceInit, Known, Whole
  <2>2. View(taken, {}) = seen
    BY <2>1 DEF View
  <2>3. Prefixes({{}})
    BY <2>1, <2>2 DEF Prefixes, Chain, Stem
  <2> QED
    BY <2>1, <2>3 DEF OrderInv, InTime, CadenceInit
<1>2. OrderInv /\ PlanInv' /\ [CadenceNext]_cadenceVars => OrderInv'
  <2> SUFFICES ASSUME OrderInv, PlanInv', [CadenceNext]_cadenceVars PROVE OrderInv'
    OBVIOUS
  <2>1. /\ PlanInv /\ todo \subseteq plan /\ (orderly => InTime)
        /\ Frames(taken) /\ DOMAIN catalog = taken /\ Whole \subseteq Known /\ Known \subseteq taken
        /\ catalog \in [taken -> Status]
    BY CadenceAssumption DEF OrderInv, PlanInv, Frames, Whole, Known
  <2>2. \A f \in taken : f.time \in Nat
    BY <2>1, SomeFrames
  <2>3. ASSUME NEW f \in taken, ScanRow(f) PROVE OrderInv'
    <3>1. /\ taken' = taken /\ seen' = seen /\ plan' = plan /\ todo' = todo /\ made' = made
          /\ catalog[f] = "absent" /\ catalog' = [catalog EXCEPT ![f] = "row"]
          /\ orderly' = (orderly /\ \A g \in Known : catalog[g] = "whole" /\ g.time <= f.time)
      BY <2>3 DEF ScanRow
    <3>2. Known' = Known \union {f} /\ Whole' = Whole /\ f \notin Known
      BY <2>1, <3>1 DEF Known, Whole
    <3>3. ASSUME orderly' PROVE InTime'
      <4>1. Known = Whole /\ \A g \in Known : g.time <= f.time
        BY <2>1, <3>1, <3>3 DEF Whole
      <4>2. PICK C : Prefixes(C)
        BY <2>1, <3>1, <3>3 DEF InTime
      <4>3. Chain(C, Known')
        <5>1. ASSUME NEW P \in C PROVE Stem(P, Known')
          <6>1. P \subseteq Known /\ \A p \in P : \A g \in Known : g.time < p.time => g \in P
            BY <4>2 DEF Prefixes, Chain, Stem
          <6>2. \A p \in P : ~ (f.time < p.time)
            BY <2>1, <2>2, <4>1, <6>1
          <6> QED
            BY <3>2, <6>1, <6>2 DEF Stem
        <5> QED
          BY <4>2, <5>1 DEF Prefixes, Chain
      <4>4. \A P \in C : P \subseteq Whole'
        BY <3>2, <4>1, <4>2 DEF Prefixes
      <4>5. Prefixes(C)'
        BY <3>1, <3>2, <4>2, <4>3, <4>4 DEF Prefixes
      <4>6. \A h \in Known' \ Whole' : h = f
        BY <3>2, <4>1
      <4>7. \A h \in Known' \ Whole' : \A g \in Known' : g.time <= h.time /\ (g \notin Whole' => g = h)
        BY <2>2, <3>2, <4>1, <4>6
      <4> QED
        BY <4>5, <4>7 DEF InTime
    <3> QED
      BY <2>1, <3>1, <3>3 DEF OrderInv
  <2>4. ASSUME NEW f \in taken, ScanDetails(f) PROVE OrderInv'
    <3>1. /\ taken' = taken /\ seen' = seen /\ plan' = plan /\ todo' = todo /\ made' = made
          /\ catalog[f] = "row" /\ catalog' = [catalog EXCEPT ![f] = "whole"] /\ orderly' = orderly
      BY <2>4 DEF ScanDetails
    <3>2. Known' = Known /\ Whole' = Whole \union {f} /\ f \in Known \ Whole
      BY <2>1, <3>1 DEF Known, Whole
    <3>3. ASSUME orderly' PROVE InTime'
      <4>1. Whole' = Known'
        BY <2>1, <3>1, <3>2, <3>3 DEF InTime
      <4>2. PICK C : Prefixes(C)
        BY <2>1, <3>1, <3>3 DEF InTime
      <4>3. \A P \in C : P \subseteq Known
        BY <4>2 DEF Prefixes, Chain, Stem
      <4>4. Prefixes(C)'
        BY <3>1, <3>2, <4>1, <4>2, <4>3 DEF Prefixes
      <4> QED
        BY <4>1, <4>4 DEF InTime
    <3> QED
      BY <2>1, <3>1, <3>3 DEF OrderInv
  <2>5. ASSUME NEW w \in Windows, Plan(w) PROVE OrderInv'
    <3>1. /\ taken' = taken /\ catalog' = catalog /\ made' = made /\ todo' \subseteq plan'
          /\ seen' = [f \in taken |-> IF InWindow(w, f) THEN catalog[f] ELSE "absent"]
          /\ orderly' = (orderly /\ \A f \in Known :
                           catalog[f] = "whole" /\ \A g \in Known :
                             InWindow(w, g) /\ f.time <= g.time => InWindow(w, f))
      BY <2>5 DEF Plan, Listing
    <3>2. Known' = Known /\ Whole' = Whole
      BY <3>1 DEF Known, Whole
    <3>3. ASSUME orderly' PROVE InTime'
      <4>12. PICK N : N = {f \in Known : InWindow(w, f)}
        OBVIOUS
      <4>1. Known = Whole
        BY <2>1, <3>1, <3>3 DEF Whole
      <4>2. PICK C : Prefixes(C)
        BY <2>1, <3>1, <3>3 DEF InTime
      <4>3. \A f \in N : \A g \in Known : g.time <= f.time => g \in N
        BY <3>1, <3>3, <4>12
      <4>4. seen' = View(taken, N)
        <5>1. \A f \in taken : (IF InWindow(w, f) THEN catalog[f] ELSE "absent")
                                 = (IF f \in N THEN "whole" ELSE "absent")
          BY <3>1, <3>3, <4>12 DEF Known
        <5> QED
          BY <3>1, <5>1 DEF View
      <4>5. N \subseteq Known
        BY <4>12
      <4>6. \A P \in C : P \subseteq Known /\ \A p \in P : \A g \in Known : g.time < p.time => g \in P
        BY <4>2 DEF Prefixes, Chain, Stem
      <4>7. Stem(N, Known)
        BY <2>1, <2>2, <4>3, <4>5 DEF Stem
      <4>8. ASSUME NEW P \in C PROVE P \subseteq N \/ N \subseteq P
        <5>1. SUFFICES ASSUME NEW p \in P, p \notin N, NEW q \in N, q \notin P PROVE FALSE
          OBVIOUS
        <5>2. p \in Known /\ q \in Known /\ p.time \in Nat /\ q.time \in Nat
          BY <2>1, <2>2, <4>5, <4>6
        <5> QED
          BY <4>3, <4>6, <5>1, <5>2
      <4>9. Chain(C \union {N}, Known)
        BY <4>2, <4>7, <4>8 DEF Prefixes, Chain
      <4>10. \A m \in made : MadeFrom(m, C \union {N}, taken)
        BY <4>2, MoreMade DEF Prefixes
      <4>11. Prefixes(C \union {N})'
        <5>5. PICK D : D = C \union {N}
          OBVIOUS
        <5>1. Chain(D, Known') /\ \A P \in D : P \subseteq Whole' \/ P = Known'
          BY <3>2, <4>1, <4>5, <4>6, <4>9, <5>5
        <5>2. N \in D /\ N \subseteq Whole' /\ seen' = View(taken', N)
          BY <3>1, <3>2, <4>1, <4>4, <4>5, <5>5
        <5>3. \A m \in made' : MadeFrom(m, D, taken')
          BY <3>1, <4>10, <5>5
        <5>4. Prefixes(D)'
          BY <5>1, <5>2, <5>3 DEF Prefixes
        <5> QED
          BY <5>4, <5>5
      <4> QED
        BY <3>2, <4>1, <4>11 DEF InTime
    <3> QED
      BY <3>1, <3>3 DEF OrderInv
  <2>6. ASSUME NEW t \in todo, Make(t) PROVE OrderInv'
    <3>1. /\ taken' = taken /\ catalog' = catalog /\ seen' = seen /\ plan' = plan
          /\ todo' = todo \ {t} /\ made' = made \union {Registered(t)} /\ orderly' = orderly
      BY <2>6 DEF Make
    <3>2. Known' = Known /\ Whole' = Whole
      BY <3>1 DEF Known, Whole
    <3>3. ASSUME orderly' PROVE InTime'
      <4>1. \A f \in Known \ Whole : \A g \in Known : g.time <= f.time /\ (g \notin Whole => g = f)
        BY <2>1, <3>1, <3>3 DEF InTime
      <4>2. PICK C : Prefixes(C)
        BY <2>1, <3>1, <3>3 DEF InTime
      <4>13. PICK D : D = C \union {Known, Whole}
        OBVIOUS
      <4>3. /\ \A P \in C : Stem(P, Known) /\ (P \subseteq Whole \/ P = Known)
            /\ \A P, Q \in C : P \subseteq Q \/ Q \subseteq P
            /\ \A P \in C : P \subseteq Known
        BY <4>2 DEF Prefixes, Chain, Stem
      <4>4. Stem(Known, Known) /\ Stem(Whole, Known)
        <5>1. \A f \in Whole : \A g \in Known : g.time < f.time => g \in Whole
          BY <2>1, <2>2, <4>1
        <5> QED
          BY <2>1, <5>1 DEF Stem
      <4>5. Chain(D, Known)
        <5>1. \A P \in D : Stem(P, Known)
          BY <4>3, <4>4, <4>13
        <5>2. \A P, Q \in D : P \subseteq Q \/ Q \subseteq P
          BY <2>1, <4>3, <4>13
        <5> QED
          BY <5>1, <5>2 DEF Chain
      <4>6. PICK P \in C : P \subseteq Whole /\ seen = View(taken, P)
        BY <4>2 DEF Prefixes
      <4>7. PICK b \in BOOLEAN : t \in Targets(View(taken, P), b)
        BY <2>1, <4>6 DEF PlanInv
      <4>8. P \in D /\ Known \in D /\ Whole \in D /\ C \subseteq D
        BY <4>13
      <4>9. \A X \in D : X \subseteq Whole \/ X = Known
        BY <4>3, <4>13
      <4>10. MadeFrom(Registered(t), D, taken)
        BY <2>1, <4>6, <4>7, <4>8, RegisteredFrom
      <4>11. \A m \in made : MadeFrom(m, D, taken)
        BY <4>2, <4>8, MoreMade DEF Prefixes
      <4>12. Prefixes(D)'
        <5>1. Chain(D, Known') /\ \A X \in D : X \subseteq Whole' \/ X = Known'
          BY <3>2, <4>5, <4>9
        <5>2. P \subseteq Whole' /\ seen' = View(taken', P)
          BY <3>1, <3>2, <4>6
        <5>3. \A m \in made' : MadeFrom(m, D, taken')
          BY <3>1, <4>10, <4>11
        <5> QED
          BY <4>8, <5>1, <5>2, <5>3 DEF Prefixes
      <4> QED
        BY <3>2, <4>1, <4>12 DEF InTime
    <3> QED
      BY <2>1, <3>1, <3>3 DEF OrderInv
  <2>7. ASSUME EndRun PROVE OrderInv'
    BY <2>1, <2>7 DEF EndRun, OrderInv, InTime, Prefixes, Known, Whole
  <2>8. CASE UNCHANGED cadenceVars
    BY <2>1, <2>8 DEF cadenceVars, OrderInv, InTime, Prefixes, Known, Whole
  <2> QED
    BY <2>3, <2>4, <2>5, <2>6, <2>7, <2>8 DEF CadenceNext
<1> QED
  BY <1>1, <1>2, PlanInvInvariant, PTL DEF CadenceSpec

\* Cadence!OnlyExtended: when frames come in time and whole, masters of a kind are of disjoint
\* frames, or the one continues the other from the same first frame, however the plans and runs
\* go (graph.py:already_has_inputs, cadence.py:_split_isolated).
THEOREM OnlyExtendedCorrect == CadenceSpec => []OnlyExtended
<1>1. OrderInv => OnlyExtended
  <2> SUFFICES ASSUME OrderInv, orderly,
                      NEW m \in made, NEW n \in made, m.kind # "arc", n.kind # "arc",
                      m.kind = n.kind, m.frames \intersect n.frames # {},
                      ~ (Windowed(m) /\ (m.to = n.from \/ n.to = m.from))
               PROVE  /\ FirstTime(m.frames) = FirstTime(n.frames)
                      /\ m.frames \subseteq n.frames \/ n.frames \subseteq m.frames
    BY DEF OnlyExtended
  <2>1. PICK C : Prefixes(C)
    BY DEF OrderInv, InTime
  <2>2. Frames(taken) /\ Known \in SUBSET taken
    BY CadenceAssumption DEF OrderInv, PlanInv, Frames, Known
  <2>3. Chain(C, Known) /\ MadeFrom(m, C, taken) /\ MadeFrom(n, C, taken)
    BY <2>1 DEF Prefixes
  <2> QED
    BY <2>2, <2>3, MadeContinue
<1> QED
  BY <1>1, OrderInvInvariant, PTL
\* Every frame that was listed is known.
TypeInv == CadenceTypeOK /\ PlanInv /\ \A f \in taken : seen[f] # "absent" => f \in Known

\* What has an identity is registered as it was planned.
LEMMA RegisteredAsPlanned ==
  ASSUME TypeInv, NEW t \in plan
  PROVE  /\ Registered(t).kind = t.kind /\ t.kind \in Kind \union {"arc"}
         /\ ~ Windowed(t) => Registered(t) = t
<1>1. PICK b \in BOOLEAN : t \in Targets(seen, b)
  BY DEF TypeInv, PlanInv
<1>2. Frames(DOMAIN seen) /\ DOMAIN seen = taken
  BY PlannedOfKind DEF TypeInv, PlanInv
<1>3. "arc" \notin Kind /\ Grouped \subseteq Kind
  BY DEF Kind, Grouped
<1>4. Registered(t) = [t EXCEPT !.frames = QueryInputs(t)]
  BY DEF Registered
<1>5. ASSUME NEW k \in Grouped, NEW g \in Groups(seen, k), t = GroupTarget(seen, k, g)
      PROVE  Registered(t) = t /\ t.kind = k
  <2>1. t = [kind |-> k, frames |-> g, class |-> GroupClass(seen, k, g)]
    BY <1>5 DEF GroupTarget
  <2>2. t.kind = k /\ t.frames = g /\ ~ Windowed(t) /\ t.kind # "arc"
    BY <1>3, <2>1 DEF Windowed
  <2>3. g \subseteq Known
    <3>1. g \subseteq Visible(seen, k)
      BY <1>2, GroupsReach
    <3>2. \A f \in Visible(seen, k) : f \in taken /\ seen[f] # "absent"
      BY <1>2 DEF Visible
    <3> QED
      BY <3>1, <3>2 DEF TypeInv
  <2>4. QueryInputs(t) = t.frames
    BY <2>2, <2>3 DEF QueryInputs, ById
  <2> QED
    BY <1>4, <2>1, <2>2, <2>4
<1>6. ASSUME NEW k \in Kind \ Grouped, t \in WindowTargets(seen, k, b)
      PROVE  Registered(t).kind = t.kind /\ t.kind = k /\ Windowed(t)
  <2>1. PICK w : t = WindowTarget(seen, k, w)
    BY <1>6 DEF WindowTargets
  <2>2. t = [kind |-> k, frames |-> Between(seen, k, w[1], w[2]), from |-> w[1], to |-> w[2]]
    BY <2>1 DEF WindowTarget
  <2> QED
    BY <1>4, <2>2 DEF Windowed
<1>7. ASSUME NEW p, t = [kind |-> "arc", frames |-> p]
      PROVE  Registered(t) = t /\ t.kind = "arc"
  <2>1. QueryInputs(t) = p
    BY <1>3, <1>7 DEF QueryInputs, Windowed
  <2> QED
    BY <1>4, <1>7, <2>1
<1> QED
  BY <1>1, <1>3, <1>5, <1>6, <1>7, TargetIs

\* Type correctness of Cadence; of what is to be made, only windows may be registered.
THEOREM CadenceTypeCorrect == CadenceSpec => []CadenceTypeOK
<1>1. CadenceInit /\ PlanInv => TypeInv
  BY CadenceAssumption DEF CadenceInit, TypeInv, CadenceTypeOK, Known
<1>2. TypeInv /\ PlanInv' /\ [CadenceNext]_cadenceVars => TypeInv'
  <2> SUFFICES ASSUME TypeInv, PlanInv', [CadenceNext]_cadenceVars PROVE TypeInv'
    OBVIOUS
  <2>1. /\ taken \in Campaigns
        /\ catalog \in [taken -> Status] /\ seen \in [taken -> Status]
        /\ \A t \in plan \union made : t.kind \in Kind \union {"arc"}
        /\ todo \subseteq plan /\ \A t \in todo \intersect made : Windowed(t)
        /\ plans \in 0..MaxPlans /\ orderly \in BOOLEAN
        /\ \A f \in taken : seen[f] # "absent" => catalog[f] # "absent"
    BY DEF TypeInv, CadenceTypeOK, Status, Known
  <2>2. ASSUME /\ taken' = taken /\ catalog' \in [taken -> Status] /\ seen' \in [taken -> Status]
               /\ \A t \in plan' \union made' : t.kind \in Kind \union {"arc"}
               /\ todo' \subseteq plan' /\ \A t \in todo' \intersect made' : Windowed(t)
               /\ plans' \in 0..MaxPlans /\ orderly' \in BOOLEAN
               /\ \A f \in taken : seen'[f] # "absent" => catalog'[f] # "absent"
        PROVE  TypeInv'
    BY <2>1, <2>2 DEF TypeInv, CadenceTypeOK, Status, Known, Windowed
  <2>3. ASSUME NEW f \in taken, ScanRow(f) PROVE TypeInv'
    <3>1. /\ taken' = taken /\ seen' = seen /\ plan' = plan /\ todo' = todo /\ made' = made
          /\ plans' = plans /\ catalog' = [catalog EXCEPT ![f] = "row"] /\ orderly' \in BOOLEAN
      BY <2>1, <2>3 DEF ScanRow
    <3>2. /\ catalog' \in [taken -> Status]
          /\ \A g \in taken : seen[g] # "absent" => catalog'[g] # "absent"
      BY <2>1, <3>1 DEF Status
    <3> QED
      BY <2>1, <2>2, <3>1, <3>2
  <2>4. ASSUME NEW f \in taken, ScanDetails(f) PROVE TypeInv'
    <3>1. /\ taken' = taken /\ seen' = seen /\ plan' = plan /\ todo' = todo /\ made' = made
          /\ plans' = plans /\ catalog' = [catalog EXCEPT ![f] = "whole"] /\ orderly' = orderly
      BY <2>4 DEF ScanDetails
    <3>2. /\ catalog' \in [taken -> Status]
          /\ \A g \in taken : seen[g] # "absent" => catalog'[g] # "absent"
      BY <2>1, <3>1 DEF Status
    <3> QED
      BY <2>1, <2>2, <3>1, <3>2
  <2>5. ASSUME NEW w \in Windows, Plan(w) PROVE TypeInv'
    <3>1. /\ taken' = taken /\ catalog' = catalog /\ made' = made
          /\ todo' = {t \in plan' : Windowed(t) \/ t \notin made}
          /\ plans' = plans + 1 /\ plans < MaxPlans /\ orderly' \in BOOLEAN
          /\ seen' = [f \in taken |-> IF InWindow(w, f) THEN catalog[f] ELSE "absent"]
      BY <2>1, <2>5 DEF Plan, Listing
    <3>2. plan' = {} \/ \E b \in BOOLEAN : plan' = Targets(seen', b)
      BY DEF PlanInv
    <3>3. ASSUME NEW t \in plan' PROVE t.kind \in Kind \union {"arc"}
      <4>1. PICK b \in BOOLEAN : t \in Targets(seen', b)
        BY <3>2
      <4>2. PICK v : v = seen'
        OBVIOUS
      <4>3. t \in Targets(v, b)
        BY <4>1, <4>2
      <4>4. \A k : \A g : GroupTarget(v, k, g).kind = k
        BY DEF GroupTarget
      <4>5. \A k : \A u \in WindowTargets(v, k, b) : u.kind = k
        BY DEF WindowTargets, WindowTarget
      <4>6. Grouped \subseteq Kind
        BY DEF Grouped
      <4> QED
        BY <4>3, <4>4, <4>5, <4>6, TargetIs
    <3>4. /\ seen' \in [taken -> Status] /\ plans' \in 0..MaxPlans
          /\ \A f \in taken : seen'[f] # "absent" => catalog[f] # "absent"
      BY <2>1, <3>1, CadenceAssumption DEF Status
    <3> QED
      BY <2>1, <2>2, <3>1, <3>3, <3>4
  <2>6. ASSUME NEW t \in todo, Make(t) PROVE TypeInv'
    <3>1. /\ taken' = taken /\ catalog' = catalog /\ seen' = seen /\ plan' = plan
          /\ plans' = plans /\ orderly' = orderly
          /\ todo' = todo \ {t} /\ made' = made \union {Registered(t)}
      BY <2>6 DEF Make
    <3>2. /\ Registered(t).kind = t.kind /\ t.kind \in Kind \union {"arc"}
          /\ ~ Windowed(t) => Registered(t) = t
      BY <2>1, RegisteredAsPlanned
    <3>3. \A u \in todo' \intersect made' : Windowed(u)
      BY <2>1, <3>1, <3>2 DEF Windowed
    <3> QED
      BY <2>1, <2>2, <3>1, <3>2, <3>3
  <2>7. ASSUME EndRun PROVE TypeInv'
    BY <2>1, <2>2, <2>7 DEF EndRun
  <2>8. CASE UNCHANGED cadenceVars
    BY <2>1, <2>2, <2>8 DEF cadenceVars
  <2> QED
    BY <2>3, <2>4, <2>5, <2>6, <2>7, <2>8 DEF CadenceNext
<1>3. TypeInv => CadenceTypeOK
  BY DEF TypeInv
<1> QED
  BY <1>1, <1>2, <1>3, PlanInvInvariant, PTL DEF CadenceSpec

-----------------------------------------------------------------------------
(* The calibration tasks                                                   *)

Spectrum == {"ldlsSpectrum", "twilightSpectrum"} \X Amp

\* A task works when what it is made of was made, publishes before it is
\* judged and is judged before it succeeds; a product has no parents before.
Lifecycle ==
  /\ \A t \in Task :
       /\ status[t] \in {"waiting", "loaded", "scattered", "blocked"} => verdict[t] = "absent"
       /\ status[t] = "published" => verdict[t] = "unjudged"
       /\ status[t] = "succeeded" => verdict[t] # "absent"
       /\ t # Response /\ status[t] \in Active \union {"succeeded"} => Succeeded(Prerequisites(t))
  /\ \A t \in Spectrum :
       /\ status[t] \in {"waiting", "loaded", "blocked"} => verdict[ScatterOf(t)] = "absent"
       /\ status[t] = "scattered" => verdict[ScatterOf(t)] # "absent"
  /\ \A p \in Product : verdict[p] = "absent" => parents[p] = {}
  /\ {"twilightSpectrum", "ldlsSpectrum", "wavelength"} \X found \subseteq Published

IInv ==
  /\ TypeOK
  /\ Lifecycle
  /\ EvictedProven

-----------------------------------------------------------------------------
(* The plan and the lineage                                                *)

LEMMA Kinds ==
  /\ Task \subseteq Product /\ Response \in Task
  /\ \A t \in Task : t # Response => t[1] \in TaskKind /\ t[2] \in Amp /\ t = <<t[1], t[2]>>
  /\ \A a \in Amp : \A k \in TaskKind : <<k, a>> \in Task /\ <<k, a>> # Response
  /\ \A t \in Task : t[1] \in {"ldlsSpectrum", "twilightSpectrum"} <=> t \in Spectrum
  /\ Spectrum \subseteq Task \ {Response}
<1>1. Task \subseteq Product /\ Response \in Task
  BY DEF Task, Product
<1>2. \A t \in Task : t # Response => t[1] \in TaskKind /\ t[2] \in Amp /\ t = <<t[1], t[2]>>
  BY DEF Task
<1>4. Response[1] = "response" /\ "response" \notin TaskKind
  BY DEF Response, TaskKind
<1>3. \A a \in Amp : \A k \in TaskKind : <<k, a>> \in Task /\ <<k, a>> # Response
  <2> SUFFICES ASSUME NEW a \in Amp, NEW k \in TaskKind
               PROVE  <<k, a>> \in Task /\ <<k, a>> # Response
    OBVIOUS
  <2>1. <<k, a>> \in Task
    BY DEF Task
  <2>2. <<k, a>>[1] = k
    OBVIOUS
  <2> QED
    BY <1>4, <2>1, <2>2
<1>5. \A t \in Task : t[1] \in {"ldlsSpectrum", "twilightSpectrum"} => t \in Spectrum
  BY <1>2, <1>4 DEF Spectrum
<1>6. Spectrum \subseteq Task \ {Response}
  <2> SUFFICES ASSUME NEW t \in Spectrum PROVE t \in Task \ {Response}
    OBVIOUS
  <2>1. t[1] \in TaskKind /\ t[2] \in Amp /\ t = <<t[1], t[2]>>
    BY DEF Spectrum, TaskKind
  <2> QED
    BY <1>3, <2>1
<1>7. \A t \in Spectrum : t[1] \in {"ldlsSpectrum", "twilightSpectrum"}
  BY DEF Spectrum
<1> QED
  BY <1>1, <1>2, <1>3, <1>5, <1>6, <1>7

LEMMA Scatters ==
  /\ \A t \in Spectrum : ScatterOf(t) \in Product /\ ScatterOf(t) \notin Task
  /\ \A t, u \in Spectrum : ScatterOf(t) = ScatterOf(u) => t = u
<1>1. \A t \in Spectrum : /\ t[1] \in {"ldlsSpectrum", "twilightSpectrum"} /\ t[2] \in Amp
                           /\ t = <<t[1], t[2]>>
  BY DEF Spectrum
<1>2. \A t \in Spectrum : ScatterOf(t)[1] \in {"ldlsScatter", "twilightScatter"}
                         /\ ScatterOf(t)[2] = t[2]
  BY DEF ScatterOf
<1>3. \A t \in Spectrum : ScatterOf(t) \in Product
  BY <1>1 DEF ScatterOf, Product
<1>4. \A t \in Spectrum : ScatterOf(t) \notin Task
  <2>1. \A u \in Task : u[1] \in TaskKind \union {"response"}
    BY DEF Task, Response
  <2>2. \A k \in TaskKind \union {"response"} : k \notin {"ldlsScatter", "twilightScatter"}
    BY DEF TaskKind
  <2> QED
    BY <1>2, <2>1, <2>2
<1>5. ASSUME NEW t \in Spectrum, NEW u \in Spectrum, ScatterOf(t) = ScatterOf(u)
      PROVE  t = u
  <2>1. t[2] = u[2]
    BY <1>2, <1>5
  <2>2. ScatterOf(t)[1] = ScatterOf(u)[1]
    BY <1>5
  <2>3. t[1] = "ldlsSpectrum" <=> ScatterOf(t)[1] = "ldlsScatter"
    BY <1>1 DEF ScatterOf
  <2>4. u[1] = "ldlsSpectrum" <=> ScatterOf(u)[1] = "ldlsScatter"
    BY <1>1 DEF ScatterOf
  <2>5. t[1] = u[1]
    BY <1>1, <2>2, <2>3, <2>4
  <2> QED
    BY <1>1, <2>1, <2>5
<1> QED
  BY <1>3, <1>4, <1>5

LEMMA PrerequisiteTasks ==
  ASSUME NEW t \in Task
  PROVE  Prerequisites(t) \subseteq Task \ {Response}
<1>1. \A K \in SUBSET TaskKind : K \X Amp \subseteq Task \ {Response}
  <2> SUFFICES ASSUME NEW K \in SUBSET TaskKind, NEW u \in K \X Amp
               PROVE  u \in Task \ {Response}
    OBVIOUS
  <2>1. u[1] \in TaskKind /\ u[2] \in Amp /\ u = <<u[1], u[2]>>
    OBVIOUS
  <2> QED
    BY Kinds, <2>1
<1>2. {"lamp", "ldls", "arc", "trace", "twilight", "twilightSpectrum"} \subseteq TaskKind
  BY DEF TaskKind
<1>3. Prerequisites(t) \in {{<<"lamp", t[2]>>}, {<<"ldls", t[2]>>}, {<<"arc", t[2]>>, <<"trace", t[2]>>}}
      \/ Prerequisites(t) \in {{"ldls", "trace"} \X Amp, {"twilight", "trace"} \X Amp,
                              {"twilightSpectrum"} \X Amp, {}}
  BY DEF Prerequisites
<1>4. CASE t = Response
  <2>1. Prerequisites(t) = {"twilightSpectrum"} \X Amp
    BY <1>4 DEF Response, Prerequisites
  <2> QED
    BY <1>1, <1>2, <2>1
<1>5. CASE t # Response
  <2>1. t[2] \in Amp
    BY <1>5, Kinds
  <2>2. <<"lamp", t[2]>> \in Task \ {Response} /\ <<"ldls", t[2]>> \in Task \ {Response}
        /\ <<"arc", t[2]>> \in Task \ {Response} /\ <<"trace", t[2]>> \in Task \ {Response}
    BY <1>2, <2>1, Kinds
  <2>3. {"ldls", "trace"} \X Amp \subseteq Task \ {Response}
        /\ {"twilight", "trace"} \X Amp \subseteq Task \ {Response}
        /\ {"twilightSpectrum"} \X Amp \subseteq Task \ {Response}
    BY <1>1, <1>2
  <2> QED
    BY <1>3, <2>2, <2>3
<1> QED
  BY <1>4, <1>5

LEMMA UpMonotonic ==
  ASSUME NEW p, NEW X, NEW Y, X \subseteq Y,
         \A x \in X : parents[x] \subseteq parents'[x]
  PROVE  Up(p, X) \subseteq Up(p, Y)'
BY DEF Up

\* What a product is made of is not forgotten.
LEMMA AncestorsStay ==
  ASSUME TypeOK, NEW p \in Product, \A x \in Product : parents[x] \subseteq parents'[x]
  PROVE  Ancestors(p) \subseteq Ancestors(p)'
<1>1. \A X \in SUBSET Product : Up(p, X) \subseteq Product
  BY DEF TypeOK, Up, Published
<1> DEFINE A == Up(p, {p})
           B == Up(p, A)
           C == Up(p, B)
<1>2. A \subseteq Product /\ B \subseteq Product /\ C \subseteq Product
  BY <1>1
<1>3. A \subseteq A'
  BY UpMonotonic
<1>4. B \subseteq B'
  <2> HIDE DEF A
  <2> QED
    BY <1>2, <1>3, UpMonotonic
<1>5. C \subseteq C'
  <2> HIDE DEF B
  <2> QED
    BY <1>2, <1>4, UpMonotonic
<1>6. Up(p, C) \subseteq Up(p, C)'
  <2> HIDE DEF C
  <2> QED
    BY <1>2, <1>5, UpMonotonic
<1> QED
  BY <1>6 DEF Ancestors

\* The traversal stays among the products and in the scope.
LEMMA AncestorsScope ==
  ASSUME TypeOK, NEW p \in Product, NEW m \in Ancestors(p)
  PROVE  m \in Product /\ m[2] = p[2]
<1> DEFINE P(X) == \A x \in X : x \in Product /\ x[2] = p[2]
<1>1. \A X \in SUBSET Product : P(X) => P(Up(p, X)) /\ Up(p, X) \subseteq Product
  BY DEF TypeOK, Up, Published, SameScope
<1>2. P({p})
  OBVIOUS
<1>3. P(Up(p, {p})) /\ Up(p, {p}) \subseteq Product
  BY <1>1, <1>2
<1>4. P(Up(p, Up(p, {p}))) /\ Up(p, Up(p, {p})) \subseteq Product
  BY <1>1, <1>3
<1>5. P(Up(p, Up(p, Up(p, {p})))) /\ Up(p, Up(p, Up(p, {p}))) \subseteq Product
  BY <1>1, <1>4
<1>6. P(Up(p, Up(p, Up(p, Up(p, {p})))))
  BY <1>1, <1>5
<1> QED
  BY <1>6 DEF Ancestors

\* Evidence is not taken back.
LEMMA EvidenceStays ==
  ASSUME TypeOK, EvictedProven, evicted' = evicted,
         \A p \in Product : verdict[p] = "pass" => verdict'[p] = "pass",
         \A x \in Product : parents[x] \subseteq parents'[x]
  PROVE  EvictedProven'
<1> SUFFICES ASSUME NEW m \in evicted
             PROVE  /\ verdict'[m] = "pass"
                    /\ \A K \in Evidence[m[1]] : \E q \in Product :
                         q[1] \in K /\ q[2] = m[2] /\ verdict'[q] = "pass" /\ m \in Ancestors(q)'
  BY DEF EvictedProven
<1>1. m \in Product /\ verdict'[m] = "pass"
  BY DEF TypeOK, EvictedProven, Published
<1>2. \A q \in Product : Ancestors(q) \subseteq Ancestors(q)'
  BY AncestorsStay
<1> QED
  BY <1>1, <1>2 DEF EvictedProven

\* What has succeeded stays so when a task that has not moves.
LEMMA SucceededStays ==
  ASSUME TypeOK, NEW t \in Task, status[t] # "succeeded", NEW s, status' = [status EXCEPT ![t] = s]
  PROVE  /\ \A T \in SUBSET Task : Succeeded(T) => Succeeded(T)'
         /\ \A u \in Task : Succeeded(Prerequisites(u)) => Succeeded(Prerequisites(u))'
<1>1. \A T \in SUBSET Task : Succeeded(T) => Succeeded(T)'
  BY DEF TypeOK, Succeeded
<1>2. \A u \in Task : Prerequisites(u) \in SUBSET Task /\ Prerequisites(u)' = Prerequisites(u)
  BY PrerequisiteTasks DEF Prerequisites
<1> QED
  BY <1>1, <1>2 DEF Succeeded

-----------------------------------------------------------------------------
(* The steps                                                               *)

LEMMA InitIInv == Init => IInv
<1> SUFFICES ASSUME Init PROVE IInv
  OBVIOUS
<1>1. TypeOK
  BY CalibrationChainAssumption, Kinds DEF Init, TypeOK, Active, Published
<1>2. Lifecycle
  BY Kinds, Scatters DEF Init, Lifecycle, Active
<1>3. EvictedProven
  BY DEF Init, EvictedProven
<1> QED
  BY <1>1, <1>2, <1>3 DEF IInv

\* A step of a task that publishes and judges nothing.
LEMMA StatusStep ==
  ASSUME IInv, NEW t \in Task, NEW s \in {"loaded", "blocked", "failed"},
         status' = [status EXCEPT ![t] = s],
         s \in {"loaded", "blocked"} => status[t] = "waiting",
         s = "failed" => status[t] \in {"waiting"} \union Active,
         s = "loaded" /\ t # Response => Succeeded(Prerequisites(t)),
         {"twilightSpectrum", "ldlsSpectrum", "wavelength"} \X found' \subseteq Published,
         found' \subseteq Amp, lost' \subseteq lost \union ({t} \intersect {u \in {t} : s = "failed"}), faults' \in 0..MaxFaults,
         UNCHANGED <<parents, verdict, evicted>>
  PROVE  IInv'
<1>1. TypeOK /\ Lifecycle /\ EvictedProven /\ Published' = Published
  BY DEF IInv, Published
<1>2. status[t] # "succeeded" /\ status[t] \notin {"failed", "blocked"}
  BY DEF Active
<1>3. \A u \in Task : status'[u] = IF u = t THEN s ELSE status[u]
  BY <1>1 DEF TypeOK
<1>4. TypeOK'
  <2>1. lost' \subseteq {u \in Task : status'[u] = "failed"}
    BY <1>1, <1>2, <1>3 DEF TypeOK
  <2>2. s \in {"waiting"} \union Active \union Settled
    BY DEF Active, Settled
  <2> QED
    BY <1>1, <2>1, <2>2 DEF TypeOK
<1>5. Lifecycle'
  <2>1. \A u \in Task : Succeeded(Prerequisites(u)) => Succeeded(Prerequisites(u))'
    BY <1>1, <1>2, SucceededStays
  <2>2. \A u \in Task :
          /\ status'[u] \in {"waiting", "loaded", "scattered", "blocked"} => verdict'[u] = "absent"
          /\ status'[u] = "published" => verdict'[u] = "unjudged"
          /\ status'[u] = "succeeded" => verdict'[u] # "absent"
    BY <1>1, <1>3 DEF Lifecycle
  <2>3. \A u \in Task : u # Response /\ status'[u] \in Active \union {"succeeded"} =>
          Succeeded(Prerequisites(u))'
    BY <1>1, <1>3, <2>1 DEF Lifecycle, Active
  <2>4. \A u \in Spectrum :
          /\ status'[u] \in {"waiting", "loaded", "blocked"} => verdict'[ScatterOf(u)] = "absent"
          /\ status'[u] = "scattered" => verdict'[ScatterOf(u)] # "absent"
    BY <1>1, <1>3, Kinds DEF Lifecycle
  <2>5. \A q \in Product : verdict'[q] = "absent" => parents'[q] = {}
    BY <1>1 DEF Lifecycle
  <2> QED
    BY <1>1, <2>2, <2>3, <2>4, <2>5 DEF Lifecycle, Active, ScatterOf
<1>6. EvictedProven'
  BY <1>1, EvidenceStays
<1> QED
  BY <1>4, <1>5, <1>6 DEF IInv

LEMMA BlockStep ==
  ASSUME IInv, NEW t \in Task, Block(t)
  PROVE  IInv'
BY StatusStep DEF Block, IInv, TypeOK, Lifecycle

LEMMA LoadStep ==
  ASSUME IInv, NEW t \in Task, Load(t)
  PROVE  IInv'
<1> DEFINE s == IF t \in lost' THEN "failed" ELSE "loaded"
<1>1. /\ status[t] = "waiting" /\ status' = [status EXCEPT ![t] = s]
      /\ Succeeded(Prerequisites(t))
      /\ lost' \subseteq lost \union {t}
      /\ UNCHANGED <<parents, verdict, evicted, found, faults>>
  BY DEF Load
<1>2. t \notin lost => (t \in lost' <=> s = "failed")
  OBVIOUS
<1>3. t \notin lost
  BY <1>1 DEF IInv, TypeOK
<1>4. lost' \subseteq lost \union ({t} \intersect {u \in {t} : s = "failed"}) /\ s \in {"failed", "loaded"}
  BY <1>1
<1> HIDE DEF s
<1>5. /\ {"twilightSpectrum", "ldlsSpectrum", "wavelength"} \X found' \subseteq Published
      /\ found' \subseteq Amp /\ faults' \in 0..MaxFaults
  BY <1>1 DEF IInv, TypeOK, Lifecycle
<1> QED
  BY <1>1, <1>4, <1>5, StatusStep

LEMMA LoadResponseStep ==
  ASSUME IInv, LoadResponse
  PROVE  IInv'
<1> DEFINE s == IF Participants = {} THEN "failed" ELSE "loaded"
<1>1. /\ status[Response] = "waiting" /\ status' = [status EXCEPT ![Response] = s]
      /\ found' = Participants
      /\ UNCHANGED <<parents, verdict, evicted, lost, faults>>
  BY DEF LoadResponse
<1>2. {"twilightSpectrum", "ldlsSpectrum", "wavelength"} \X found' \subseteq Published
  <2> SUFFICES ASSUME NEW k \in {"twilightSpectrum", "ldlsSpectrum", "wavelength"}, NEW a \in Participants
               PROVE  <<k, a>> \in Published
    BY <1>1
  <2>1. a \in Amp /\ <<k, a>> \in Inputs(a)
    BY DEF Participants
  <2>2. <<k, a>> \in Task /\ <<k, a>> \in Product
    BY <2>1, Kinds DEF TaskKind
  <2> QED
    BY <2>1, <2>2 DEF Inputs, RowsOf, PlannedGroups, Published, IInv, Lifecycle
<1>3. s \in {"failed", "loaded"}
  OBVIOUS
<1> HIDE DEF s
<1>4. found' \subseteq Amp /\ faults' \in 0..MaxFaults
  BY <1>1 DEF IInv, TypeOK, Participants
<1> QED
  BY <1>1, <1>2, <1>3, <1>4, Kinds, StatusStep

LEMMA FailStep ==
  ASSUME IInv, NEW t \in Task, Fail(t)
  PROVE  IInv'
<1>1. faults' \in 0..MaxFaults
  BY CalibrationChainAssumption DEF Fail, Fault, IInv, TypeOK
<1> QED
  BY <1>1, StatusStep DEF Fail, IInv, TypeOK, Lifecycle

LEMMA FaultType ==
  ASSUME TypeOK, faults' = faults \/ Fault
  PROVE  faults' \in 0..MaxFaults
BY CalibrationChainAssumption DEF TypeOK, Fault

LEMMA PublishScatterStep ==
  ASSUME IInv, NEW t \in Task, PublishScatter(t)
  PROVE  IInv'
<1> DEFINE q == ScatterOf(t)
<1>1. PICK v \in {"pass", "fail"} : verdict' = [verdict EXCEPT ![q] = v]
  BY DEF PublishScatter
<1>2. /\ t \in Spectrum /\ t # Response /\ status[t] = "loaded"
      /\ parents' = [parents EXCEPT ![q] = Prerequisites(t)]
      /\ status' = [status EXCEPT ![t] = "scattered"]
      /\ UNCHANGED <<evicted, found, lost>> /\ (faults' = faults \/ Fault)
  BY Kinds DEF PublishScatter
<1>3. TypeOK /\ Lifecycle /\ EvictedProven
  BY DEF IInv
<1>4. q \in Product /\ q \notin Task /\ \A u \in Spectrum : ScatterOf(u) = q => u = t
  BY <1>2, Scatters
<1>5. verdict[q] = "absent" /\ parents[q] = {} /\ Succeeded(Prerequisites(t))
  BY <1>2, <1>3, <1>4 DEF Lifecycle, Active
<1>6. Prerequisites(t) \subseteq Published
  BY <1>3, <1>5, PrerequisiteTasks, Kinds DEF Succeeded, Published, Lifecycle
<1> HIDE DEF q
<1>7. /\ \A u \in Task : status'[u] = IF u = t THEN "scattered" ELSE status[u]
      /\ \A x \in Product : /\ verdict'[x] = IF x = q THEN v ELSE verdict[x]
                            /\ parents'[x] = IF x = q THEN Prerequisites(t) ELSE parents[x]
  BY <1>1, <1>2, <1>3, <1>4 DEF TypeOK
<1>8. Published' = Published \union {q}
  BY <1>4, <1>7 DEF Published
<1>9. TypeOK'
  <2>1. faults' \in 0..MaxFaults
    BY <1>2, <1>3, FaultType
  <2>2. parents' \in [Product -> SUBSET Published']
    BY <1>2, <1>3, <1>6, <1>8 DEF TypeOK
  <2>3. lost' \subseteq {u \in Task : status'[u] = "failed"}
    BY <1>2, <1>3, <1>7 DEF TypeOK
  <2> QED
    BY <1>1, <1>2, <1>3, <1>8, <2>1, <2>2, <2>3 DEF TypeOK, Active
<1>10. Lifecycle'
  <2>1. \A u \in Task : Succeeded(Prerequisites(u)) => Succeeded(Prerequisites(u))'
    BY <1>2, <1>3, SucceededStays
  <2>2. \A u \in Task : verdict'[u] = verdict[u]
    BY <1>4, <1>7, Kinds
  <2>3. \A u \in Task :
          /\ status'[u] \in {"waiting", "loaded", "scattered", "blocked"} => verdict'[u] = "absent"
          /\ status'[u] = "published" => verdict'[u] = "unjudged"
          /\ status'[u] = "succeeded" => verdict'[u] # "absent"
    BY <1>2, <1>3, <1>7, <2>2 DEF Lifecycle
  <2>4. \A u \in Task : u # Response /\ status'[u] \in Active \union {"succeeded"} =>
          Succeeded(Prerequisites(u))'
    BY <1>3, <1>5, <1>7, <2>1 DEF Lifecycle
  <2>5. \A u \in Spectrum :
          /\ status'[u] \in {"waiting", "loaded", "blocked"} => verdict'[ScatterOf(u)] = "absent"
          /\ status'[u] = "scattered" => verdict'[ScatterOf(u)] # "absent"
    <3>1. \A u \in Spectrum : verdict'[ScatterOf(u)] = IF u = t THEN v ELSE verdict[ScatterOf(u)]
      BY <1>4, <1>7, Scatters DEF q
    <3> QED
      BY <1>3, <1>7, <3>1, Kinds DEF Lifecycle
  <2>6. \A x \in Product : verdict'[x] = "absent" => parents'[x] = {}
    BY <1>3, <1>7 DEF Lifecycle
  <2> QED
    BY <1>2, <1>3, <1>8, <2>3, <2>4, <2>5, <2>6 DEF Lifecycle, Active, ScatterOf
<1>11. EvictedProven'
  BY <1>2, <1>3, <1>5, <1>7, EvidenceStays
<1> QED
  BY <1>9, <1>10, <1>11 DEF IInv

\* The parents of a product are there when it is published.
LEMMA ParentsPublished ==
  ASSUME IInv, NEW t \in Task,
         status[t] = IF t[1] \in {"ldlsSpectrum", "twilightSpectrum"} THEN "scattered" ELSE "loaded"
  PROVE  Parents(t) \subseteq Published
<1>1. TypeOK /\ Lifecycle
  BY DEF IInv
<1>2. CASE t = Response
  BY <1>1, <1>2 DEF Lifecycle, Parents, Response
<1>3. CASE t # Response
  <2>1. Succeeded(Prerequisites(t)) /\ t[1] \in TaskKind /\ t[2] \in Amp /\ t[1] # "response"
    BY <1>1, <1>3, Kinds DEF Lifecycle, Active, TaskKind
  <2>2. \A u \in Task : status[u] = "succeeded" => u \in Published
    BY <1>1, Kinds DEF Lifecycle, Published
  <2>3. Prerequisites(t) \subseteq Published
    BY <2>1, <2>2, PrerequisiteTasks DEF Succeeded
  <2>4. CASE t[1] = "wavelength"
    <3>1. <<"trace", t[2]>> \in Task /\ <<"ldls", t[2]>> \in Task /\ <<"trace", t[2]>> # Response
      BY <2>1, Kinds DEF TaskKind
    <3>2. status[<<"trace", t[2]>>] = "succeeded"
      BY <2>1, <2>4 DEF Succeeded, Prerequisites
    <3>3. Succeeded(Prerequisites(<<"trace", t[2]>>))
      BY <1>1, <3>1, <3>2 DEF Lifecycle
    <3>4. status[<<"ldls", t[2]>>] = "succeeded"
      BY <3>3 DEF Succeeded, Prerequisites
    <3> QED
      BY <2>2, <2>3, <2>4, <3>1, <3>4 DEF Parents
  <2>5. CASE t[1] \in {"ldlsSpectrum", "twilightSpectrum"}
    <3>1. t \in Spectrum /\ status[t] = "scattered"
      BY <2>5, Kinds
    <3>2. ScatterOf(t) \in Published
      BY <1>1, <3>1, Scatters DEF Lifecycle, Published
    <3>3. Prerequisites(t) = (IF t[1] = "ldlsSpectrum" THEN {"ldls", "trace"} ELSE {"twilight", "trace"}) \X Amp
      BY <2>5 DEF Prerequisites
    <3>4. Parents(t) = {<<IF t[1] = "ldlsSpectrum" THEN "ldls" ELSE "twilight", t[2]>>,
                        <<"trace", t[2]>>, ScatterOf(t)}
      BY <2>5 DEF Parents
    <3> QED
      BY <2>1, <2>3, <3>2, <3>3, <3>4
  <2>6. CASE t[1] \notin {"wavelength", "ldlsSpectrum", "twilightSpectrum"}
    BY <2>1, <2>3, <2>6 DEF Parents
  <2> QED
    BY <2>4, <2>5, <2>6
<1> QED
  BY <1>2, <1>3

LEMMA PublishStep ==
  ASSUME IInv, NEW t \in Task, Publish(t)
  PROVE  IInv'
<1>1. /\ status[t] = IF t[1] \in {"ldlsSpectrum", "twilightSpectrum"} THEN "scattered" ELSE "loaded"
      /\ parents' = [parents EXCEPT ![t] = Parents(t)]
      /\ verdict' = [verdict EXCEPT ![t] = "unjudged"]
      /\ status' = [status EXCEPT ![t] = "published"]
      /\ UNCHANGED <<evicted, found, lost, faults>>
  BY DEF Publish
<1>2. TypeOK /\ Lifecycle /\ EvictedProven /\ t \in Product
  BY Kinds DEF IInv
<1>3. Parents(t) \subseteq Published
  BY <1>1, ParentsPublished
<1>4. verdict[t] = "absent" /\ parents[t] = {}
  BY <1>1, <1>2 DEF Lifecycle
<1>5. /\ \A u \in Task : status'[u] = IF u = t THEN "published" ELSE status[u]
      /\ \A x \in Product : /\ verdict'[x] = IF x = t THEN "unjudged" ELSE verdict[x]
                            /\ parents'[x] = IF x = t THEN Parents(t) ELSE parents[x]
  BY <1>1, <1>2 DEF TypeOK
<1>6. Published' = Published \union {t}
  BY <1>2, <1>5 DEF Published
<1>7. TypeOK'
  <2>1. parents' \in [Product -> SUBSET Published']
    BY <1>1, <1>2, <1>3, <1>6 DEF TypeOK
  <2>2. lost' \subseteq {u \in Task : status'[u] = "failed"}
    BY <1>1, <1>2, <1>5 DEF TypeOK
  <2> QED
    BY <1>1, <1>2, <1>6, <2>1, <2>2 DEF TypeOK, Active
<1>8. Lifecycle'
  <2>1. \A u \in Task : Succeeded(Prerequisites(u)) => Succeeded(Prerequisites(u))'
    BY <1>1, <1>2, SucceededStays
  <2>2. \A u \in Task :
          /\ status'[u] \in {"waiting", "loaded", "scattered", "blocked"} => verdict'[u] = "absent"
          /\ status'[u] = "published" => verdict'[u] = "unjudged"
          /\ status'[u] = "succeeded" => verdict'[u] # "absent"
    BY <1>2, <1>5, Kinds DEF Lifecycle
  <2>3. \A u \in Task : u # Response /\ status'[u] \in Active \union {"succeeded"} =>
          Succeeded(Prerequisites(u))'
    BY <1>1, <1>2, <1>5, <2>1 DEF Lifecycle, Active
  <2>4. \A u \in Spectrum :
          /\ status'[u] \in {"waiting", "loaded", "blocked"} => verdict'[ScatterOf(u)] = "absent"
          /\ status'[u] = "scattered" => verdict'[ScatterOf(u)] # "absent"
    <3>1. \A u \in Spectrum : verdict'[ScatterOf(u)] = verdict[ScatterOf(u)]
      BY <1>5, Scatters
    <3> QED
      BY <1>2, <1>5, <3>1, Kinds DEF Lifecycle
  <2>5. \A x \in Product : verdict'[x] = "absent" => parents'[x] = {}
    BY <1>2, <1>5 DEF Lifecycle
  <2> QED
    BY <1>1, <1>2, <1>6, <2>2, <2>3, <2>4, <2>5 DEF Lifecycle, Active, ScatterOf
<1>9. EvictedProven'
  BY <1>1, <1>2, <1>4, <1>5, EvidenceStays
<1> QED
  BY <1>7, <1>8, <1>9 DEF IInv

LEMMA JudgeStep ==
  ASSUME IInv, NEW t \in Task, Judge(t)
  PROVE  IInv'
<1>1. PICK v \in {"pass", "fail"} : verdict' = [verdict EXCEPT ![t] = v]
  BY DEF Judge
<1>2. /\ status[t] = "published" /\ status' = [status EXCEPT ![t] = "succeeded"]
      /\ evicted' = evicted \union Released(t, verdict')
      /\ UNCHANGED <<parents, found, lost>> /\ (faults' = faults \/ Fault)
  BY DEF Judge
<1>3. TypeOK /\ Lifecycle /\ EvictedProven /\ t \in Product /\ verdict[t] = "unjudged"
  BY <1>2, Kinds DEF IInv, Lifecycle
<1>4. /\ \A u \in Task : status'[u] = IF u = t THEN "succeeded" ELSE status[u]
      /\ \A x \in Product : verdict'[x] = IF x = t THEN v ELSE verdict[x]
  BY <1>1, <1>2, <1>3 DEF TypeOK
<1>5. Published' = Published
  BY <1>3, <1>4 DEF Published
<1>6. \A m \in Released(t, verdict') :
        /\ m \in Product /\ verdict'[m] = "pass"
        /\ \A K \in Evidence[m[1]] : \E q \in Product :
             q[1] \in K /\ q[2] = m[2] /\ verdict'[q] = "pass" /\ m \in Ancestors(q)
  <2> SUFFICES ASSUME NEW m \in Released(t, verdict')
               PROVE  /\ m \in Product /\ verdict'[m] = "pass"
                      /\ \A K \in Evidence[m[1]] : \E q \in Product :
                           q[1] \in K /\ q[2] = m[2] /\ verdict'[q] = "pass" /\ m \in Ancestors(q)
    OBVIOUS
  <2>1. m \in Ancestors(t) /\ Proven(m, verdict')
    BY DEF Released
  <2>2. m \in Product
    BY <1>3, <2>1, AncestorsScope
  <2>3. \A q \in Published : q \in Product /\ (m \in Ancestors(q) => q[2] = m[2])
    BY <1>3, AncestorsScope DEF Published
  <2> QED
    BY <2>1, <2>2, <2>3 DEF Proven
<1>7. TypeOK'
  <2>1. faults' \in 0..MaxFaults
    BY <1>2, <1>3, FaultType
  <2>2. lost' \subseteq {u \in Task : status'[u] = "failed"}
    BY <1>2, <1>3, <1>4 DEF TypeOK
  <2>3. Released(t, verdict') \subseteq Published'
    BY <1>6 DEF Published
  <2> QED
    BY <1>1, <1>2, <1>3, <1>5, <2>1, <2>2, <2>3 DEF TypeOK, Settled
<1>8. Lifecycle'
  <2>1. \A u \in Task : Succeeded(Prerequisites(u)) => Succeeded(Prerequisites(u))'
    BY <1>2, <1>3, SucceededStays
  <2>2. \A u \in Task :
          /\ status'[u] \in {"waiting", "loaded", "scattered", "blocked"} => verdict'[u] = "absent"
          /\ status'[u] = "published" => verdict'[u] = "unjudged"
          /\ status'[u] = "succeeded" => verdict'[u] # "absent"
    BY <1>3, <1>4, Kinds DEF Lifecycle
  <2>3. \A u \in Task : u # Response /\ status'[u] \in Active \union {"succeeded"} =>
          Succeeded(Prerequisites(u))'
    BY <1>2, <1>3, <1>4, <2>1 DEF Lifecycle, Active
  <2>4. \A u \in Spectrum :
          /\ status'[u] \in {"waiting", "loaded", "blocked"} => verdict'[ScatterOf(u)] = "absent"
          /\ status'[u] = "scattered" => verdict'[ScatterOf(u)] # "absent"
    <3>1. \A u \in Spectrum : verdict'[ScatterOf(u)] = verdict[ScatterOf(u)]
      BY <1>4, Scatters
    <3> QED
      BY <1>3, <1>4, <3>1, Kinds DEF Lifecycle
  <2>5. \A x \in Product : verdict'[x] = "absent" => parents'[x] = {}
    BY <1>2, <1>3, <1>4 DEF Lifecycle
  <2> QED
    BY <1>2, <1>3, <1>5, <2>2, <2>3, <2>4, <2>5 DEF Lifecycle, Active, ScatterOf
<1>9. EvictedProven'
  <2>1. \A q : Ancestors(q)' = Ancestors(q)
    BY <1>2 DEF Ancestors, Up
  <2>2. evicted \subseteq Product
    BY <1>3 DEF TypeOK, Published
  <2>3. \A x \in Product : verdict[x] = "pass" => verdict'[x] = "pass"
    BY <1>3, <1>4
  <2> QED
    BY <1>2, <1>3, <1>6, <2>1, <2>2, <2>3 DEF EvictedProven
<1> QED
  BY <1>7, <1>8, <1>9 DEF IInv

LEMMA StutterStep ==
  ASSUME IInv, UNCHANGED vars
  PROVE  IInv'
<1> USE DEF vars
<1>1. TypeOK'
  BY DEF IInv, TypeOK, Published
<1>2. Lifecycle'
  BY DEF IInv, Lifecycle, Succeeded, Prerequisites, ScatterOf, Published, Active
<1>3. EvictedProven'
  BY EvidenceStays DEF IInv
<1> QED
  BY <1>1, <1>2, <1>3 DEF IInv

-----------------------------------------------------------------------------
(* Nothing is lost, and lamps are released                                 *)

\* Only lamps are ever evicted in a run, after the arc that is made of them;
\* the traversal from the response leaves its scope at once.
OnlyLamps ==
  \A m \in evicted : m[1] = "lamp" /\ m[2] \in Amp /\ status[<<"arc", m[2]>>] = "succeeded"

\* The lamps whose evidence is complete are gone when the wavelength map is judged.
LampsGone ==
  \A a \in Amp :
    status[<<"wavelength", a>>] = "succeeded" /\ Proven(<<"lamp", a>>, verdict)
      => <<"lamp", a>> \in evicted

\* What a published product descends from is settled.
LEMMA LineageSettled ==
  ASSUME TypeOK, NEW p \in Published, \A x \in Published : parents'[x] = parents[x]
  PROVE  Ancestors(p)' = Ancestors(p)
<1>1. \A X \in SUBSET Published : Up(p, X) \subseteq Published
  BY DEF TypeOK, Up, Published
<1>2. \A X \in SUBSET Published : {parents'[x] : x \in X} = {parents[x] : x \in X}
  OBVIOUS
<1> DEFINE A == Up(p, {p})
           B == Up(p, A)
           C == Up(p, B)
<1>3. {p} \subseteq Published /\ A \subseteq Published /\ B \subseteq Published /\ C \subseteq Published
  BY <1>1
<1>4. A' = A
  BY <1>2, <1>3 DEF Up, SameScope
<1>5. B' = B
  <2> HIDE DEF A
  <2> QED
    BY <1>2, <1>3, <1>4 DEF Up, SameScope
<1>6. C' = C
  <2> HIDE DEF B
  <2> QED
    BY <1>2, <1>3, <1>5 DEF Up, SameScope
<1>7. Up(p, C)' = Up(p, C)
  <2> HIDE DEF C
  <2> QED
    BY <1>2, <1>3, <1>6 DEF Up, SameScope
<1> QED
  BY <1>7 DEF Ancestors

\* The tasks of an amplifier that a lamp is proven by.
LEMMA LampTasks ==
  ASSUME IInv, NEW a \in Amp, status[<<"wavelength", a>>] \in Active \union {"succeeded"}
  PROVE  /\ {<<"lamp", a>>, <<"arc", a>>, <<"wavelength", a>>} \subseteq Task \ {Response}
         /\ status[<<"arc", a>>] = "succeeded" /\ status[<<"lamp", a>>] = "succeeded"
         /\ <<"arc", a>> \in Published /\ <<"lamp", a>> \in Published
<1>1. {<<"lamp", a>>, <<"arc", a>>, <<"wavelength", a>>} \subseteq Task \ {Response}
  BY Kinds DEF TaskKind
<1>2. status[<<"arc", a>>] = "succeeded"
  BY <1>1 DEF IInv, Lifecycle, Succeeded, Prerequisites
<1>3. status[<<"lamp", a>>] = "succeeded"
  BY <1>1, <1>2 DEF IInv, Lifecycle, Succeeded, Prerequisites
<1> QED
  BY <1>1, <1>2, <1>3, Kinds DEF IInv, Lifecycle, Published

\* What succeeded stays so, and the verdict and lineage of its product with it;
\* no product of a task passes in the step that publishes it.
Settling ==
  /\ \A u \in Task : status[u] = "succeeded" => status'[u] = "succeeded" /\ verdict'[u] = verdict[u]
  /\ \A x \in Published : parents'[x] = parents[x]
  /\ \A u \in Task : verdict'[u] = "pass" => u \in Published
  /\ evicted \subseteq evicted'

LEMMA Settles ==
  ASSUME IInv, [Next]_vars
  PROVE  Settling
<1> USE DEF IInv
<1>7. /\ \A u \in Task : verdict[u] = "pass" => u \in Published
      /\ \A u \in Task : status[u] = "published" => u \in Published
  BY Kinds DEF Published, Lifecycle
<1>1. ASSUME NEW t \in Task, PublishScatter(t)
      PROVE  Settling
  <2>1. /\ t \in Spectrum /\ status[t] = "loaded" /\ ScatterOf(t) \in Product
        /\ ScatterOf(t) \notin Task
    BY <1>1, Kinds, Scatters DEF PublishScatter
  <2>2. ScatterOf(t) \notin Published
    BY <2>1 DEF Lifecycle, Published
  <2> QED
    BY <1>1, <1>7, <2>1, <2>2, Kinds DEF PublishScatter, Settling, TypeOK, Published
<1>2. ASSUME NEW t \in Task, Publish(t)
      PROVE  Settling
  <2>1. t \notin Published /\ status[t] \in {"loaded", "scattered"}
    BY <1>2 DEF Publish, Lifecycle, Published
  <2> QED
    BY <1>2, <1>7, <2>1, Kinds DEF Publish, Settling, TypeOK, Published
<1>3. ASSUME NEW t \in Task, Judge(t)
      PROVE  Settling
  BY <1>3, <1>7, Kinds DEF Judge, Settling, TypeOK
<1>4. ASSUME NEW t \in Task, Block(t) \/ Load(t) \/ Fail(t)
      PROVE  Settling
  BY <1>4, <1>7 DEF Block, Load, Fail, Settling, TypeOK, Active
<1>5. CASE LoadResponse
  BY <1>5, <1>7 DEF LoadResponse, Settling, TypeOK
<1>6. CASE UNCHANGED vars
  BY <1>6, <1>7 DEF vars, Settling
<1> QED
  BY <1>1, <1>2, <1>3, <1>4, <1>5, <1>6 DEF Next

\* What the hook of a task releases is a lamp, when its wavelength map is judged.
LEMMA ReleasesLamps ==
  ASSUME IInv, NEW t \in Task, NEW v, NEW m \in Released(t, v)
  PROVE  m[1] = "lamp" /\ m[2] \in Amp /\ t = <<"wavelength", m[2]>>
<1>1. m \in Ancestors(t) /\ m[1] \in DOMAIN Trigger /\ Trigger[m[1]] = t[1]
  BY DEF Released
<1>2. m \in Product /\ m[2] = t[2]
  BY <1>1, AncestorsScope, Kinds DEF IInv
<1>3. m[1] \in {"lamp", "twilight", "ldls"}
  BY <1>1 DEF Trigger
<1>4. m[2] \in Amp
  BY <1>2, <1>3 DEF Product, Task, Response
<1>5. t # Response
  BY <1>2, <1>4, CalibrationChainAssumption DEF Response
<1>6. t[1] # "response" /\ t = <<t[1], t[2]>>
  BY <1>5, Kinds DEF TaskKind
<1>7. m[1] = "lamp" /\ t[1] = "wavelength"
  BY <1>1, <1>3, <1>6 DEF Trigger
<1> QED
  BY <1>2, <1>4, <1>6, <1>7

LEMMA OnlyLampsStep ==
  ASSUME IInv, OnlyLamps, [Next]_vars
  PROVE  OnlyLamps'
<1> SUFFICES ASSUME NEW m \in evicted'
             PROVE  m[1] = "lamp" /\ m[2] \in Amp /\ status'[<<"arc", m[2]>>] = "succeeded"
  BY DEF OnlyLamps
<1>1. Settling
  BY Settles
<1>2. CASE m \in evicted
  <2>1. m[1] = "lamp" /\ m[2] \in Amp /\ status[<<"arc", m[2]>>] = "succeeded"
    BY <1>2 DEF OnlyLamps
  <2>2. <<"arc", m[2]>> \in Task
    BY <2>1, Kinds DEF TaskKind
  <2> QED
    BY <1>1, <2>1, <2>2 DEF Settling
<1>3. CASE m \notin evicted
  <2>1. PICK t \in Task : Judge(t)
    BY <1>3 DEF Next, vars, Block, Load, LoadResponse, PublishScatter, Publish, Fail
  <2>2. m \in Released(t, verdict') /\ status[t] = "published"
    BY <1>3, <2>1 DEF Judge
  <2>3. m[1] = "lamp" /\ m[2] \in Amp /\ t = <<"wavelength", m[2]>>
    BY <2>2, ReleasesLamps
  <2>4. <<"arc", m[2]>> \in Task /\ status[<<"arc", m[2]>>] = "succeeded"
    BY <2>2, <2>3, LampTasks DEF Active
  <2> QED
    BY <1>1, <2>3, <2>4 DEF Settling
<1> QED
  BY <1>2, <1>3

\* A task that still has to load a lamp is the arc.
LEMMA NothingLostStep ==
  ASSUME IInv, OnlyLamps, NothingLost, [Next]_vars
  PROVE  NothingLost'
<1>1. ASSUME NEW t \in Task, Load(t)
      PROVE  Prerequisites(t) \intersect evicted = {}
  <2> SUFFICES ASSUME NEW m \in Prerequisites(t), m \in evicted
               PROVE  FALSE
    OBVIOUS
  <2>1. m[1] = "lamp" /\ status[<<"arc", m[2]>>] = "succeeded"
    BY DEF OnlyLamps
  <2>2. t # Response /\ status[t] = "waiting" /\ t = <<t[1], t[2]>> /\ t[1] # "response"
    BY <1>1, Kinds DEF Load, TaskKind
  <2>3. t[1] = "arc" /\ m = <<"lamp", t[2]>>
    BY <2>1, <2>2 DEF Prerequisites
  <2> QED
    BY <2>1, <2>2, <2>3
<1>2. ASSUME NEW t \in Task, Load(t)
      PROVE  lost' = lost
  BY <1>1, <1>2 DEF Load
<1> QED
  BY <1>2 DEF NothingLost, Next, vars, Block, LoadResponse, PublishScatter, Publish, Judge, Fail

\* A wavelength map that was judged leaves the evidence of its lamps as it is.
LEMMA LampsGoneStep ==
  ASSUME IInv, IInv', LampsGone, [Next]_vars
  PROVE  LampsGone'
<1> SUFFICES ASSUME NEW a \in Amp, status'[<<"wavelength", a>>] = "succeeded",
                    Proven(<<"lamp", a>>, verdict)'
             PROVE  <<"lamp", a>> \in evicted'
  BY DEF LampsGone
<1> DEFINE lamp == <<"lamp", a>>
           map == <<"wavelength", a>>
<1>1. /\ Settling
      /\ TypeOK /\ TypeOK' /\ Lifecycle
  BY Settles DEF IInv
<1>2. map \in Task /\ lamp \in Product /\ lamp[1] = "lamp" /\ lamp[2] = a
      /\ Evidence[lamp[1]] = {{"arc"}, {"wavelength"}}
  BY Kinds DEF TaskKind, Evidence
<1>3. /\ verdict'[lamp] = "pass"
      /\ \A K \in {{"arc"}, {"wavelength"}} : \E q \in Published' :
           q[1] \in K /\ verdict'[q] = "pass" /\ lamp \in Ancestors(q)'
  BY <1>2 DEF Proven
<1>4. status[map] \in {"published", "succeeded"}
  <2>1. ASSUME NEW t \in Task, NEW x, x # "succeeded", status' = [status EXCEPT ![t] = x]
        PROVE  status[map] = "succeeded"
    BY <1>1, <1>2, <2>1 DEF TypeOK
  <2>2. ASSUME NEW t \in Task, status[t] = "published", status' = [status EXCEPT ![t] = "succeeded"]
        PROVE  status[map] \in {"published", "succeeded"}
    BY <1>1, <1>2, <2>2 DEF TypeOK
  <2>3. (\A u \in Task : ~ Judge(u)) => status[map] = "succeeded"
    BY <2>1, Kinds DEF Next, vars, Block, Load, LoadResponse, PublishScatter, Publish, Fail
  <2> QED
    BY <2>2, <2>3 DEF Judge
<1>5. /\ lamp \in Task /\ <<"arc", a>> \in Task /\ <<"arc", a>> \in Published
      /\ status[lamp] = "succeeded" /\ status[<<"arc", a>>] = "succeeded"
      /\ map \in Published /\ Published \subseteq Product
  <2>1. verdict[map] # "absent"
    BY <1>1, <1>2, <1>4 DEF Lifecycle
  <2> QED
    BY <1>2, <1>4, <2>1, LampTasks, Kinds DEF Active, Published
<1>6. \A q \in Published : Ancestors(q)' = Ancestors(q) /\ (lamp \in Ancestors(q) => q[2] = a)
  BY <1>1, <1>2, <1>5, LineageSettled, AncestorsScope DEF Settling
<1>7. /\ verdict'[<<"arc", a>>] = "pass" /\ lamp \in Ancestors(<<"arc", a>>)
      /\ verdict'[map] = "pass" /\ lamp \in Ancestors(map)
  <2>1. ASSUME NEW k \in {"arc", "wavelength"}
        PROVE  verdict'[<<k, a>>] = "pass" /\ lamp \in Ancestors(<<k, a>>)
    <3>1. PICK q \in Published' : q[1] = k /\ verdict'[q] = "pass" /\ lamp \in Ancestors(q)'
      BY <1>3
    <3>2. q \in Product /\ q[1] \notin {"response", "ldlsScatter", "twilightScatter"}
      BY <3>1 DEF Published
    <3>3. q \in Task /\ q # Response
      BY <3>2 DEF Product, Response
    <3>4. q \in Published /\ q = <<q[1], q[2]>>
      BY <1>1, <3>1, <3>3, Kinds DEF Settling
    <3>5. q = <<k, a>>
      BY <1>6, <3>1, <3>4
    <3> QED
      BY <1>6, <3>1, <3>4, <3>5
  <2> QED
    BY <2>1
<1>8. verdict'[lamp] = verdict[lamp] /\ verdict'[<<"arc", a>>] = verdict[<<"arc", a>>]
  BY <1>1, <1>5 DEF Settling
<1>9. CASE status[map] = "succeeded"
  <2>1. verdict'[map] = verdict[map]
    BY <1>1, <1>2, <1>9 DEF Settling
  <2>2. Proven(lamp, verdict)
    BY <1>2, <1>3, <1>5, <1>7, <1>8, <2>1 DEF Proven
  <2> QED
    BY <1>1, <1>9, <2>2 DEF LampsGone, Settling
<1>10. CASE status[map] = "published"
  <2>1. PICK t \in Task : Judge(t)
    BY <1>1, <1>2, <1>10, Kinds
       DEF Next, vars, Block, Load, LoadResponse, PublishScatter, Publish, Fail, TypeOK
  <2>2. t = map
    BY <1>1, <1>2, <1>10, <2>1 DEF Judge, TypeOK
  <2>3. Proven(lamp, verdict')
    BY <1>2, <1>3, <1>5, <1>7 DEF Proven
  <2>4. lamp \in Released(map, verdict')
    BY <1>2, <1>7, <2>3 DEF Released, Trigger
  <2> QED
    BY <2>1, <2>2, <2>4 DEF Judge
<1> QED
  BY <1>4, <1>9, <1>10

-----------------------------------------------------------------------------
(* The theorems                                                            *)

\* The invariant that the others follow from.
THEOREM Invariance == Spec => []IInv
<1>1. IInv /\ [Next]_vars => IInv'
  BY BlockStep, LoadStep, LoadResponseStep, PublishScatterStep, PublishStep, JudgeStep, FailStep, StutterStep
     DEF Next
<1> QED
  BY InitIInv, <1>1, PTL DEF Spec

\* Type correctness of the calibration chain: products are made of products
\* that were published before them.
THEOREM TypeCorrect == Spec => []TypeOK
<1>1. IInv => TypeOK
  BY DEF IInv
<1> QED
  BY <1>1, Invariance, PTL

\* An evicted payload is proven rebuildable, and stays so.
THEOREM EvictedProvenCorrect == Spec => []EvictedProven
<1>1. IInv => EvictedProven
  BY DEF IInv
<1> QED
  BY <1>1, Invariance, PTL

\* Retention never takes a payload from a task that still has to load it.
THEOREM NothingLostCorrect == Spec => []NothingLost
<1>1. Init => OnlyLamps /\ NothingLost
  BY DEF Init, OnlyLamps, NothingLost
<1>2. IInv /\ OnlyLamps /\ NothingLost /\ [Next]_vars => OnlyLamps' /\ NothingLost'
  BY OnlyLampsStep, NothingLostStep
<1> QED
  BY <1>1, <1>2, Invariance, PTL DEF Spec

\* The hook releases a lamp when its evidence is complete, not only at the end
\* of the run.
THEOREM LampsReleasedCorrect == Spec => []LampsReleased
<1>1. Init => LampsGone
  <2>1. \A a \in Amp : <<"wavelength", a>> \in Task
    BY Kinds DEF TaskKind
  <2> QED
    BY <2>1 DEF Init, LampsGone
<1>2. IInv /\ IInv' /\ LampsGone /\ [Next]_vars => LampsGone'
  BY LampsGoneStep
<1>3. LampsGone => LampsReleased
  BY DEF LampsGone, LampsReleased
<1> QED
  BY <1>1, <1>2, <1>3, Invariance, PTL DEF Spec
=============================================================================
