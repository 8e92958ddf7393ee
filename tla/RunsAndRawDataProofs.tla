------------------------- MODULE RunsAndRawDataProofs -------------------------
(***************************************************************************)
(* What a reduction starts from, for any instance: the runs that prepare   *)
(* calibrations night after night (Replanning), the catalog of the raw     *)
(* archive they select from (RawCatalog), and the caches their threads     *)
(* read raw frames and fiber positions through (RunCaches).                *)
(***************************************************************************)
EXTENDS Replanning, RunCaches, RawCatalog, FiniteSetTheorems, TLAPS

-----------------------------------------------------------------------------
(* Recursion over 0..N                                                      *)

LEMMA LeastSet ==
  ASSUME NEW S, IsFiniteSet(S), NEW F \in SUBSET SUBSET S, F # {}
  PROVE  \E m \in F : \A k \in F : k \subseteq m => k = m
<1>1. IsWellFoundedOn(StrictSubsetOrdering(S), SUBSET S)
  BY FS_FiniteSubsetsOfFinite, FS_StrictSubsetOrderingWellFounded
<1>2. \E m \in F : \A k \in F : ~ (<<k, m>> \in StrictSubsetOrdering(S))
  BY <1>1, WFMin
<1> QED
  BY <1>2 DEF StrictSubsetOrdering

LEMMA LeastNatural ==
  ASSUME NEW T \in SUBSET Nat, T # {}
  PROVE  \E m \in T : \A k \in T : m <= k
<1>1. PICK n \in T : TRUE
  OBVIOUS
<1> DEFINE S == 1..n
           F == {1..k : k \in {j \in T : j <= n}}
<1>2. F \in SUBSET SUBSET S
  OBVIOUS
<1>3. IsFiniteSet(S)
  BY FS_Interval
<1>4. S \in F
  OBVIOUS
<1>5. PICK m \in F : \A k \in F : k \subseteq m => k = m
  <2> HIDE DEF F, S
  <2> QED
    BY <1>2, <1>3, <1>4, LeastSet
<1>6. PICK j \in T : j <= n /\ m = 1..j
  OBVIOUS
<1>7. ASSUME NEW k \in T, k < j PROVE FALSE
  <2>1. 1..k \in F /\ 1..k \subseteq 1..j
    BY <1>6, <1>7
  <2>2. 1..k = 1..j
    BY <2>1, <1>5, <1>6
  <2>3. j \in 1..j /\ j \notin 1..k
    BY <1>7
  <2> QED
    BY <2>2, <2>3
<1> QED
  BY <1>7

\* Induction up to N, for a predicate that is a function.
LEMMA UpTo ==
  ASSUME NEW N \in Nat, NEW P \in [0..N -> BOOLEAN], P[0], \A i \in 1..N : P[i - 1] => P[i]
  PROVE  \A i \in 0..N : P[i]
<1> DEFINE Bad == {i \in 0..N : ~ P[i]}
<1>1. SUFFICES ASSUME Bad # {} PROVE FALSE
  OBVIOUS
<1>2. PICK m \in Bad : \A k \in Bad : m <= k
  <2>1. Bad \in SUBSET Nat
    OBVIOUS
  <2> HIDE DEF Bad
  <2> QED
    BY <1>1, <2>1, LeastNatural
<1>3. m \in 1..N /\ m - 1 \in 0..N /\ m - 1 \notin Bad
  BY <1>2
<1> QED
  BY <1>2, <1>3

StepsIn(N, V) == [1..N -> [V -> V]]

Follows(f, N, V, v, step) ==
  f \in [0..N -> V] /\ f[0] = v /\ \A i \in 1..N : f[i] = step[i][f[i - 1]]

\* A function on 0..N that is defined from its value before, in V.
LEMMA Recursive ==
  ASSUME NEW N \in Nat, NEW V, NEW v \in V, NEW step \in StepsIn(N, V)
  PROVE  \E f : Follows(f, N, V, v, step)
<1> USE DEF StepsIn
<1> DEFINE Rec(m) ==
             \E f \in [0..m -> V] :
               f[0] = v /\ \A i \in 1..m : f[i] = step[i][f[i - 1]]
           P == [m \in 0..N |-> Rec(m)]
<1>1. P \in [0..N -> BOOLEAN]
  OBVIOUS
<1>2. Rec(0)
  <2> DEFINE f == [i \in 0..0 |-> v]
  <2>1. f \in [0..0 -> V] /\ f[0] = v
    OBVIOUS
  <2> HIDE DEF f
  <2> QED
    BY <2>1
<1>3. ASSUME NEW m \in 1..N, Rec(m - 1) PROVE Rec(m)
  <2>1. PICK g \in [0..(m - 1) -> V] :
               g[0] = v /\ \A i \in 1..(m - 1) : g[i] = step[i][g[i - 1]]
    BY <1>3
  <2> DEFINE f == [i \in 0..m |-> IF i = m THEN step[m][g[m - 1]] ELSE g[i]]
  <2>2. step[m][g[m - 1]] \in V
    OBVIOUS
  <2>3. f \in [0..m -> V]
    BY <2>2
  <2>4. ASSUME NEW i \in 1..m PROVE f[i] = step[i][f[i - 1]]
    <3>1. CASE i = m
      BY <3>1
    <3>2. CASE i # m
      <4>1. i \in 1..(m - 1) /\ f[i] = g[i] /\ f[i - 1] = g[i - 1]
        BY <3>2
      <4> QED
        BY <4>1, <2>1
    <3> QED
      BY <3>1, <3>2
  <2>5. f[0] = v
    BY <2>1
  <2> HIDE DEF f
  <2> QED
    BY <2>3, <2>4, <2>5
<1>4. \A m \in 0..N : P[m]
  <2>1. P[0]
    BY <1>2
  <2>2. \A m \in 1..N : P[m - 1] => P[m]
    <3> HIDE DEF Rec
    <3> TAKE m \in 1..N
    <3>1. m \in 0..N /\ m - 1 \in 0..N
      OBVIOUS
    <3> QED
      BY <3>1, <1>3
  <2> HIDE DEF P
  <2> QED
    BY <1>1, <2>1, <2>2, UpTo
<1>5. Rec(N)
  <2> HIDE DEF Rec
  <2> QED
    BY <1>4
<1> QED
  BY <1>5 DEF Follows

-----------------------------------------------------------------------------
(* Planning                                                                *)

MarkedUpTo(n, S) ==
  S \union {t \in Target : rank[t] = n /\ (PriorFailure(t) \/ BlockedBy(t, S) \/ Condemned(t))}

\* The recursion has a value, and marks a target by what is marked before it.
LEMMA MarkedSteps ==
  \E m : /\ m[0] = {} /\ Marked = m[Cardinality(Target)]
         /\ \A n \in 1..Cardinality(Target) : m[n] = MarkedUpTo(n, m[n - 1])
<1> DEFINE N == Cardinality(Target)
           K == SUBSET Target
           step == [n \in 1..N |-> [S \in K |-> MarkedUpTo(n, S)]]
           IsMarked(g) ==
             g = [n \in 0..N |->
                    IF n = 0 THEN {}
                    ELSE g[n - 1] \union
                           {t \in Target : /\ rank[t] = n
                                          /\ \/ PriorFailure(t) \/ BlockedBy(t, g[n - 1])
                                             \/ Condemned(t)}]
<1>1. N \in Nat
  BY ReplanningAssumption, FS_CardinalityType
<1>2. step \in StepsIn(N, K)
  BY DEF StepsIn, MarkedUpTo
<1>3. PICK f : Follows(f, N, K, {}, step)
  <2>1. {} \in K
    OBVIOUS
  <2> HIDE DEF N, K, step
  <2> QED
    BY <1>1, <1>2, <2>1, Recursive
<1>4. f \in [0..N -> K] /\ f[0] = {} /\ \A n \in 1..N : f[n] = step[n][f[n - 1]]
  BY <1>3 DEF Follows
<1>5. IsMarked(f)
  <2>1. ASSUME NEW n \in 0..N
        PROVE  f[n] = IF n = 0 THEN {}
                      ELSE f[n - 1] \union
                             {t \in Target : /\ rank[t] = n
                                            /\ \/ PriorFailure(t) \/ BlockedBy(t, f[n - 1])
                                               \/ Condemned(t)}
    <3>1. CASE n = 0
      BY <1>4, <3>1
    <3>2. CASE n # 0
      <4>1. n \in 1..N /\ f[n - 1] \in K
        <5> HIDE DEF step, K, N
        <5> QED
          BY <1>1, <1>4, <3>2
      <4>2. f[n] = step[n][f[n - 1]]
        <5> HIDE DEF step, K, N
        <5> QED
          BY <1>4, <4>1
      <4>3. f[n] = MarkedUpTo(n, f[n - 1])
        <5> HIDE DEF K, N
        <5> QED
          BY <4>1, <4>2
      <4> HIDE DEF step, K, N
      <4> QED
        BY <3>2, <4>3 DEF MarkedUpTo
    <3> QED
      BY <3>1, <3>2
  <2> HIDE DEF N, K, step
  <2> QED
    BY <2>1, <1>4
<1>6. Marked = (CHOOSE g : IsMarked(g))[N]
  BY DEF Marked
<1> DEFINE m == CHOOSE g : IsMarked(g)
<1>7. IsMarked(m)
  <2> HIDE DEF IsMarked
  <2> QED
    BY <1>5
<1>8. m[0] = {} /\ \A n \in 1..N : m[n] = MarkedUpTo(n, m[n - 1])
  <2> HIDE DEF m, N
  <2>1. \A n \in 0..N : n = 0 => m[n] = {}
    BY <1>7
  <2>2. 0 \in 0..N
    BY <1>1
  <2>3. ASSUME NEW n \in 1..N PROVE m[n] = MarkedUpTo(n, m[n - 1])
    <3>1. n \in 0..N /\ n # 0
      BY <1>1
    <3> QED
      BY <1>7, <3>1 DEF MarkedUpTo
  <2> QED
    BY <2>1, <2>2, <2>3
<1> QED
  BY <1>6, <1>8

\* What is marked before a target that is not marked does not block it.
LEMMA Unmarked ==
  ASSUME NEW t \in Target \ Marked
  PROVE  /\ ~ PriorFailure(t) /\ ~ Condemned(t)
         /\ ~ BlockedBy(t, {u \in Marked : rank[u] < rank[t]})
<1> DEFINE N == Cardinality(Target)
<1>1. N \in Nat /\ rank \in [Target -> 1..N]
  BY ReplanningAssumption, FS_CardinalityType
<1>2. PICK m : /\ m[0] = {} /\ Marked = m[N]
               /\ \A n \in 1..N : m[n] = MarkedUpTo(n, m[n - 1])
  BY MarkedSteps
<1> HIDE DEF N
<1>3. \A i \in 0..N : \A u \in m[i] : u \in Target /\ rank[u] <= i
  <2> DEFINE Q == [i \in 0..N |-> \A u \in m[i] : u \in Target /\ rank[u] <= i]
  <2>1. Q[0]
    <3>1. 0 \in 0..N /\ \A u \in m[0] : u \in Target /\ rank[u] <= 0
      BY <1>1, <1>2
    <3> QED
      BY <3>1
  <2>2. ASSUME NEW i \in 1..N, Q[i - 1] PROVE Q[i]
    <3>1. i \in 0..N /\ i - 1 \in 0..N
      BY <1>1
    <3>2. \A u \in m[i - 1] : u \in Target /\ rank[u] <= i - 1
      BY <2>2, <3>1
    <3>3. \A u \in m[i] : u \in Target /\ rank[u] <= i
      <4> HIDE DEF Q
      <4> QED
        BY <1>1, <1>2, <3>2 DEF MarkedUpTo
    <3> QED
      BY <3>1, <3>3
  <2>3. Q \in [0..N -> BOOLEAN]
    OBVIOUS
  <2>4. \A i \in 0..N : Q[i]
    <3> HIDE DEF Q
    <3> QED
      BY <1>1, <2>1, <2>2, <2>3, UpTo
  <2> QED
    BY <2>4
<1>4. \A i \in 0..N : \A j \in 0..N : i <= j => m[i] \subseteq m[j] /\ \A u \in m[j] : rank[u] <= i => u \in m[i]
  <2> TAKE i \in 0..N
  <2> DEFINE Q == [j \in 0..N |-> i <= j => m[i] \subseteq m[j] /\ \A u \in m[j] : rank[u] <= i => u \in m[i]]
  <2>1. Q[0]
    <3>1. 0 \in 0..N /\ (i <= 0 => i = 0)
      BY <1>1
    <3> QED
      BY <3>1
  <2>2. ASSUME NEW j \in 1..N, Q[j - 1] PROVE Q[j]
    <3>1. j \in 0..N /\ j - 1 \in 0..N
      BY <1>1
    <3>2. i <= j - 1 => m[i] \subseteq m[j - 1] /\ \A u \in m[j - 1] : rank[u] <= i => u \in m[i]
      BY <2>2, <3>1
    <3>3. i <= j => m[i] \subseteq m[j] /\ \A u \in m[j] : rank[u] <= i => u \in m[i]
      <4> HIDE DEF Q
      <4>1. CASE i <= j - 1
        BY <1>1, <1>2, <3>2, <4>1 DEF MarkedUpTo
      <4>2. CASE i = j
        BY <4>2
      <4> QED
        BY <4>1, <4>2
    <3> QED
      BY <3>1, <3>3
  <2>3. Q \in [0..N -> BOOLEAN]
    OBVIOUS
  <2>4. \A j \in 0..N : Q[j]
    <3> HIDE DEF Q
    <3> QED
      BY <1>1, <2>1, <2>2, <2>3, UpTo
  <2> QED
    BY <2>4
<1>5. rank[t] \in 1..N /\ rank[t] - 1 \in 0..N /\ rank[t] \in 0..N /\ N \in 0..N
  BY <1>1
<1>6. t \notin m[rank[t]]
  BY <1>2, <1>4, <1>5
<1>7. ~ (PriorFailure(t) \/ BlockedBy(t, m[rank[t] - 1]) \/ Condemned(t))
  BY <1>2, <1>5, <1>6 DEF MarkedUpTo
<1>8. {u \in Marked : rank[u] < rank[t]} \subseteq m[rank[t] - 1]
  <2>1. ASSUME NEW u \in Marked, rank[u] < rank[t] PROVE u \in m[rank[t] - 1]
    <3>1. u \in m[N] /\ u \in Target
      BY <1>2, <1>3, <1>5
    <3>2. rank[u] <= rank[t] - 1 /\ rank[t] - 1 <= N
      BY <1>1, <2>1, <3>1
    <3> QED
      BY <1>4, <1>5, <3>1, <3>2
  <2> QED
    BY <2>1
<1> QED
  BY <1>7, <1>8 DEF BlockedBy

-----------------------------------------------------------------------------
(* The invariant                                                           *)

\* What the run in progress has planned, and what its tasks have made of it.
RunInv ==
  /\ phase = "idle" => planned = {}
  /\ \A t \in Target : status[t] # "none" => t \in planned
  /\ forced /\ phase = "running" => planned = Target

Made ==
  \A t \in Target : status[t] \in {"published", "succeeded"} => made[t] \in Products(t)

Done ==
  \A t \in Target : status[t] = "succeeded" =>
    registry[made[t]].verdict = "pass" /\ registry[made[t]].by = policy

ParentsCovered ==
  \A t \in planned : \A p \in Parents[t] : p \in planned \/ Products(p) # {}

GateCovered ==
  \A t \in planned : \A b \in GateSources(t, Bias) : b \in planned \/ Accepted(b)

Ready ==
  \A t \in Target : Active(t) => \A d \in DependsOn(t) : status[d] = "succeeded"

Verdicts ==
  \A i \in Product : registry[i].by <= policy /\ (registry[i].verdict = "fail" => registry[i].of \in Bias)

Fresh ==
  ~ forced => \A t \in Target : status[t] \in {"waiting", "running"} =>
    /\ last[t] \notin Failures
    /\ \A i \in Products(t) :
         t \in Bias /\ (registry[i].verdict = "none" \/ registry[i].by < policy)

IInv ==
  /\ TypeOK /\ RunInv /\ Made /\ Done /\ ParentsCovered /\ GateCovered
  /\ Ready /\ Verdicts /\ Fresh

-----------------------------------------------------------------------------
(* What the choices of a run return                                        *)

LEMMA LatestOf ==
  ASSUME NEW n \in Nat, NEW S \in SUBSET (1..n), S # {}
  PROVE  \E i \in S : \A j \in S : j <= i
<1> DEFINE T == {n - i : i \in S}
<1>1. T \in SUBSET Nat /\ T # {}
  <2>1. \A i \in S : n - i \in Nat
    OBVIOUS
  <2> QED
    BY <2>1
<1>2. PICK m \in T : \A k \in T : m <= k
  <2> HIDE DEF T
  <2> QED
    BY <1>1, LeastNatural
<1>3. PICK i \in S : m = n - i
  OBVIOUS
<1>4. ASSUME NEW j \in S PROVE j <= i
  <2>1. n - j \in T
    OBVIOUS
  <2> HIDE DEF T
  <2> QED
    BY <1>2, <1>3, <2>1
<1> QED
  BY <1>4

LEMMA NearestOf ==
  ASSUME NEW n \in Nat, NEW S \in SUBSET (1..n), S # {}, NEW d \in [S -> Nat]
  PROVE  \E i \in S : \A j \in S : d[i] < d[j] \/ (d[i] = d[j] /\ j <= i)
<1> DEFINE T == {d[i] : i \in S}
<1>1. T \in SUBSET Nat /\ T # {}
  OBVIOUS
<1>2. PICK m \in T : \A k \in T : m <= k
  <2> HIDE DEF T
  <2> QED
    BY <1>1, LeastNatural
<1> DEFINE R == {i \in S : d[i] = m}
<1>3. R \in SUBSET (1..n) /\ R # {}
  OBVIOUS
<1>4. PICK i \in R : \A j \in R : j <= i
  <2> HIDE DEF R
  <2> QED
    BY <1>3, LatestOf
<1>5. ASSUME NEW j \in S PROVE d[i] < d[j] \/ (d[i] = d[j] /\ j <= i)
  <2>1. m <= d[j] /\ d[i] = m /\ m \in Nat /\ d[j] \in Nat
    BY <1>2
  <2>2. d[j] = m => j <= i
    BY <1>4
  <2> QED
    BY <2>1, <2>2
<1> QED
  BY <1>5

\* What the registry keeps of a product.
Entry == [of : Target, from : SUBSET Nat, evicted : BOOLEAN,
          verdict : {"none", "pass", "fail"}, by : 0..MaxPolicy]

LEMMA EntryType ==
  ASSUME TypeOK
  PROVE  /\ Product = 1..Len(registry) /\ Len(registry) \in Nat
         /\ \A i \in Product : /\ registry[i] \in Entry
                               /\ registry[i].of \in Target /\ registry[i].evicted \in BOOLEAN
                               /\ registry[i].verdict \in {"none", "pass", "fail"}
                               /\ registry[i].by \in 0..MaxPolicy
<1>1. registry \in Seq(Entry)
  BY DEF TypeOK, Entry
<1>2. Product = 1..Len(registry) /\ Len(registry) \in Nat
  BY <1>1 DEF Product
<1>3. \A i \in Product : registry[i] \in Entry
  BY <1>1, <1>2
<1> QED
  BY <1>2, <1>3 DEF Entry

\* What select_best returns is in the registry.
LEMMA SelectBestType ==
  ASSUME TypeOK, NEW t \in Target, NEW k
  PROVE  SelectBest(t, k) \in {0} \union Product
<1> DEFINE n == Len(registry)
           found == {i \in Product : kindOf[registry[i].of] = k}
           from(i) == 2 * start[registry[i].of]
           to(i)   == 2 * end[registry[i].of]
           valid == {i \in found : from(i) <= Mid2(t) /\ Mid2(t) <= to(i)}
           dist(i) == IF Mid2(t) < from(i) THEN from(i) - Mid2(t)
                      ELSE IF Mid2(t) > to(i) THEN Mid2(t) - to(i) ELSE 0
           d == [i \in found |-> dist(i)]
<1>1. Product = 1..n /\ n \in Nat /\ \A i \in Product : registry[i].of \in Target
  BY EntryType
<1>2. Mid2(t) \in Int
  BY ReplanningAssumption DEF Mid2, Date
<1>3. \A i \in found : from(i) \in Int /\ to(i) \in Int
  <2>1. \A u \in Target : 2 * start[u] \in Int /\ 2 * end[u] \in Int
    BY ReplanningAssumption
  <2> QED
    BY <1>1, <2>1
<1>4. d \in [found -> Nat]
  <2> HIDE DEF found, from, to
  <2> QED
    BY <1>2, <1>3
<1>5. valid # {} => \E i \in valid : \A j \in valid : j <= i
  <2>1. valid \in SUBSET (1..n)
    BY <1>1
  <2> HIDE DEF valid, n
  <2> QED
    BY <1>1, <2>1, LatestOf
<1>6. found # {} => \E i \in found : \A j \in found : dist(i) < dist(j) \/ (dist(i) = dist(j) /\ j <= i)
  <2>1. found \in SUBSET (1..n)
    BY <1>1
  <2>2. found # {} => \E i \in found : \A j \in found : d[i] < d[j] \/ (d[i] = d[j] /\ j <= i)
    <3> HIDE DEF found, n, d
    <3> QED
      BY <1>1, <1>4, <2>1, NearestOf
  <2>3. \A i \in found : d[i] = dist(i)
    OBVIOUS
  <2> HIDE DEF found, n, d, dist
  <2> QED
    BY <2>2, <2>3
<1>7. SelectBest(t, k) =
        IF found = {} THEN 0
        ELSE IF valid # {} THEN CHOOSE i \in valid : \A j \in valid : j <= i
        ELSE CHOOSE i \in found :
               \A j \in found : dist(i) < dist(j) \/ (dist(i) = dist(j) /\ j <= i)
  BY DEF SelectBest
<1>8. found \subseteq Product /\ valid \subseteq Product
  OBVIOUS
<1> HIDE DEF found, valid, dist
<1> QED
  BY <1>5, <1>6, <1>7, <1>8

LEMMA DependsOnPlanned ==
  ASSUME NEW t \in Target
  PROVE  DependsOn(t) \subseteq planned
<1>1. ByKind(t) \subseteq planned
  BY DEF ByKind
<1>2. GateSources(t, planned \intersect Bias) \subseteq planned
  BY DEF GateSources
<1> QED
  BY <1>1, <1>2 DEF DependsOn

\* Of any targets, one comes first.
LEMMA FirstOf ==
  ASSUME NEW S \in SUBSET Target, S # {}
  PROVE  \E d \in S : \A u \in S : rank[d] <= rank[u]
<1>1. rank \in [Target -> 1..Cardinality(Target)] /\ Cardinality(Target) \in Nat
  BY ReplanningAssumption, FS_CardinalityType
<1> DEFINE T == {rank[d] : d \in S}
<1>2. T \in SUBSET Nat /\ T # {}
  BY <1>1
<1>3. PICK m \in T : \A k \in T : m <= k
  <2> HIDE DEF T
  <2> QED
    BY <1>2, LeastNatural
<1> QED
  BY <1>3

LEMMA ResolvedType ==
  ASSUME TypeOK, NEW t \in Target
  PROVE  Resolved(t) \subseteq {0} \union Product
<1>1. ASSUME NEW k PROVE Resolve(t, k) \in {0} \union Product
  <2> DEFINE given == {d \in DependsOn(t) : kindOf[d] = k}
  <2>1. given \in SUBSET Target
    BY DependsOnPlanned DEF TypeOK
  <2>2. given # {} => \E d \in given : \A u \in given : rank[d] <= rank[u]
    <3> HIDE DEF given
    <3> QED
      BY <2>1, FirstOf
  <2>3. Resolve(t, k) = IF given = {} THEN SelectBest(t, k)
                        ELSE made[CHOOSE d \in given : \A u \in given : rank[d] <= rank[u]]
    BY DEF Resolve
  <2> HIDE DEF given
  <2> QED
    BY <2>1, <2>2, <2>3, SelectBestType DEF TypeOK
<1> QED
  BY <1>1 DEF Resolved

\* A guard in the run is a prerequisite.
LEMMA GuardPlanned ==
  ASSUME NEW t \in Target, NEW b \in GateSources(t, Bias), b \in planned
  PROVE  b \in DependsOn(t)
<1>1. b \in Bias
  BY DEF GateSources
<1>2. b \in GateSources(t, planned \intersect Bias)
  BY <1>1 DEF GateSources
<1> QED
  BY <1>2 DEF DependsOn

\* A guard overlaps its target or is within the tolerance.
LEMMA GuardNear ==
  ASSUME NEW t \in Target, NEW b \in GateSources(t, Bias)
  PROVE  b \in Bias /\ kindOf[t] \in Gated /\ (Overlap(b, t) \/ Within(b, t))
BY DEF GateSources

-----------------------------------------------------------------------------
(* Every step keeps the invariant                                          *)

LEMMA InitIInv == Init => IInv
<1> SUFFICES ASSUME Init PROVE IInv
  OBVIOUS
<1> USE DEF Init
<1>1. TypeOK
  <2>1. registry \in Seq(Entry)
    OBVIOUS
  <2>2. policy \in 1..MaxPolicy /\ forces + crashes <= MaxDisturbances
    BY ReplanningAssumption
  <2> QED
    BY <2>1, <2>2 DEF TypeOK, Product, Entry
<1>2. Product = {} /\ \A t \in Target : status[t] = "none"
  BY DEF Product
<1>3. RunInv /\ Made /\ Done /\ ParentsCovered /\ GateCovered /\ Ready /\ Verdicts /\ Fresh
  BY <1>2 DEF RunInv, Made, Done, ParentsCovered, GateCovered, Ready, Active, Verdicts, Fresh
<1> QED
  BY <1>1, <1>3 DEF IInv

\* What is planned has no product it could reuse, no failure behind it, and
\* before it nothing terminal that would block it.
LEMMA PlanStep == ASSUME IInv, Plan PROVE IInv'
<1> USE DEF IInv
<1>1. /\ planned' = Missing /\ forced' = FALSE /\ registry' = registry /\ policy' = policy
      /\ status' = [t \in Target |-> IF t \in planned' THEN "waiting" ELSE "none"]
      /\ phase' = IF planned' = {} THEN "idle" ELSE "running"
      /\ last' = last /\ made' = made
  BY DEF Plan
<1>2. \A t \in Target : status'[t] \in {"waiting", "none"}
  BY <1>1
<1>3. TypeOK'
  BY DEF TypeOK, Plan, Missing, Product
<1>4. RunInv' /\ Made' /\ Done' /\ Ready' /\ Verdicts'
  BY <1>1, <1>2 DEF RunInv, Made, Done, Ready, Active, Verdicts, Product
<1>5. \A t \in Target : Products(t)' = Products(t) /\ (Accepted(t))' = Accepted(t)
  BY <1>1 DEF Products, Product, Accepted
<1>6. ASSUME NEW t \in Missing
      PROVE  /\ last[t] \notin Failures
             /\ \A i \in Products(t) :
                  t \in Bias /\ (registry[i].verdict = "none" \/ registry[i].by < policy)
             /\ \A p \in Parents[t] : p \in Missing \/ Products(p) # {}
             /\ \A b \in GateSources(t, Bias) : b \in Missing \/ Accepted(b)
  <2>1. t \in Target \ Marked /\ ~ Existing(t)
    BY DEF Missing
  <2>2. /\ ~ PriorFailure(t) /\ ~ Condemned(t)
        /\ ~ BlockedBy(t, {u \in Marked : rank[u] < rank[t]})
    BY <2>1, Unmarked
  <2>3. ASSUME NEW i \in Products(t)
        PROVE  t \in Bias /\ (registry[i].verdict = "none" \/ registry[i].by < policy)
    <3>1. i \in Product /\ registry[i].of = t
      BY DEF Products
    <3>2. ~ Usable(i) /\ ~ (registry[i].verdict = "fail" /\ registry[i].by = policy)
      BY <2>1, <2>2 DEF Existing, Condemned
    <3>3. /\ registry[i].verdict \in {"none", "pass", "fail"} /\ registry[i].by \in Nat
          /\ policy \in Nat
      BY <3>1, EntryType, ReplanningAssumption, SMTT(40) DEF TypeOK
    <3>4. registry[i].by <= policy /\ (registry[i].verdict = "fail" => t \in Bias)
      BY <3>1 DEF Verdicts
    <3> QED
      BY <3>1, <3>2, <3>3, <3>4 DEF Usable
  <2>4. ASSUME NEW p \in Parents[t] PROVE p \in Missing \/ Products(p) # {}
    <3>1. p \in Target /\ rank[p] < rank[t]
      BY <2>1, ReplanningAssumption
    <3>2. p \notin Marked
      BY <2>2, <3>1 DEF BlockedBy
    <3> QED
      BY <3>1, <3>2 DEF Missing, Existing
  <2>5. ASSUME NEW b \in GateSources(t, Bias) PROVE b \in Missing \/ Accepted(b)
    <3>1. b \in Bias /\ kindOf[t] \in Gated /\ (Overlap(b, t) \/ Within(b, t))
      BY <2>1, GuardNear
    <3>2. b \in Target /\ rank[b] < rank[t]
      BY <2>1, <3>1, ReplanningAssumption DEF Bias
    <3>3. b \notin Marked
      BY <2>2, <3>1, <3>2 DEF BlockedBy
    <3>4. Existing(b) => Accepted(b)
      BY <3>1 DEF Existing, Usable, Accepted, Products
    <3> QED
      BY <3>2, <3>3, <3>4 DEF Missing
  <2> QED
    BY <2>2, <2>3, <2>4, <2>5 DEF PriorFailure
<1>7. Missing \subseteq Target
  BY DEF Missing
<1>8. ParentsCovered'
  <2> SUFFICES ASSUME NEW t \in planned', NEW p \in Parents[t]
               PROVE  p \in planned' \/ Products(p)' # {}
    BY DEF ParentsCovered
  <2>1. p \in Target /\ t \in Missing
    BY <1>1, <1>7, ReplanningAssumption
  <2> QED
    BY <1>1, <1>5, <1>6, <2>1
<1>9. GateCovered'
  <2> SUFFICES ASSUME NEW t \in planned', NEW b \in GateSources(t, Bias)
               PROVE  b \in planned' \/ (Accepted(b))'
    BY DEF GateCovered
  <2>1. t \in Missing /\ b \in Target
    BY <1>1, <1>7, GuardNear DEF Bias
  <2> QED
    BY <1>1, <1>5, <1>6, <2>1
<1>10. Fresh'
  <2> SUFFICES ASSUME NEW t \in Target, status'[t] \in {"waiting", "running"}
               PROVE  /\ last'[t] \notin Failures
                      /\ \A i \in Products(t)' :
                           t \in Bias /\ (registry'[i].verdict = "none" \/ registry'[i].by < policy')
    BY DEF Fresh
  <2>1. t \in Missing
    BY <1>1
  <2> QED
    BY <1>1, <1>5, <1>6, <2>1
<1> QED
  BY <1>3, <1>4, <1>8, <1>9, <1>10

LEMMA PlanForcedStep == ASSUME IInv, PlanForced PROVE IInv'
<1> USE DEF IInv
<1>1. /\ planned' = Target /\ forced' = TRUE /\ registry' = registry /\ policy' = policy
      /\ status' = [t \in Target |-> "waiting"] /\ phase' = "running"
  BY DEF PlanForced
<1>2. TypeOK'
  BY ReplanningAssumption DEF TypeOK, PlanForced, Product
<1>3. RunInv' /\ Made' /\ Done' /\ Ready' /\ Verdicts' /\ Fresh'
  BY <1>1 DEF RunInv, Made, Done, Ready, Active, Verdicts, Fresh, Product
<1>4. ParentsCovered'
  BY <1>1, ReplanningAssumption DEF ParentsCovered
<1>5. GateCovered'
  BY <1>1, GuardNear DEF GateCovered, Bias
<1> QED
  BY <1>2, <1>3, <1>4, <1>5

\* What the steps of a task leave of the invariant as it is.
LEMMA Kept ==
  ASSUME IInv, phase' = phase, forced' = forced, planned' = planned, policy' = policy,
         registry' = registry
  PROVE  /\ ParentsCovered' /\ GateCovered' /\ Verdicts'
         /\ \A t \in Target : /\ DependsOn(t)' = DependsOn(t)
                              /\ Products(t)' = Products(t)
BY DEF IInv, ParentsCovered, GateCovered, Verdicts, Product, Products, Accepted, DependsOn, ByKind

\* The task of a target leaves its status behind, and no other's.
LEMMA StatusStep ==
  ASSUME IInv, phase' = phase, forced' = forced, planned' = planned, policy' = policy,
         registry' = registry, last' = last,
         NEW t \in Target, status[t] \in {"waiting", "running", "published"}, NEW s,
         status' = [status EXCEPT ![t] = s], made' = made,
         \/ s \in {"failed", "blocked"}
         \/ s = "running" /\ Dispatched(t)
  PROVE  /\ RunInv' /\ Made' /\ Done' /\ ParentsCovered' /\ GateCovered' /\ Ready' /\ Verdicts'
         /\ Fresh'
<1> USE DEF IInv
<1>1. /\ ParentsCovered' /\ GateCovered' /\ Verdicts'
      /\ \A u \in Target : DependsOn(u)' = DependsOn(u) /\ Products(u)' = Products(u)
  BY Kept
<1>2. /\ status \in [Target -> {"none", "waiting", "running", "published"} \union Settled]
      /\ status'[t] = s /\ \A u \in Target \ {t} : status'[u] = status[u]
      /\ s \in {"failed", "blocked", "running"}
  BY DEF TypeOK
<1>3. RunInv' /\ Made' /\ Done'
  BY <1>1, <1>2 DEF RunInv, Made, Done
<1>4. Ready'
  <2> SUFFICES ASSUME NEW u \in Target, (Active(u))', NEW d \in DependsOn(u)'
               PROVE  status'[d] = "succeeded"
    BY DEF Ready
  <2>1. d \in DependsOn(u) /\ d \in Target
    BY <1>1, DependsOnPlanned DEF TypeOK
  <2>2. status[d] = "succeeded"
    BY <1>2, <2>1 DEF Ready, Active, Dispatched
  <2> QED
    BY <1>2, <2>1, <2>2
<1>5. Fresh'
  <2>1. s = "running" => status[t] = "waiting"
    BY DEF Dispatched
  <2> QED
    BY <1>1, <1>2, <2>1 DEF Fresh
<1> QED
  BY <1>1, <1>3, <1>4, <1>5

LEMMA BlockStep == ASSUME IInv, NEW t \in Target, Block(t) PROVE IInv'
<1>1. TypeOK'
  BY DEF IInv, TypeOK, Block, Settled, Product
<1> QED
  BY <1>1, StatusStep DEF IInv, Block

LEMMA LoadStep == ASSUME IInv, NEW t \in Target, Load(t) PROVE IInv'
<1>1. Resolved(t) \subseteq Product
  BY ResolvedType DEF IInv, Load
<1>2. TypeOK'
  BY <1>1 DEF IInv, TypeOK, Load, Product
<1> QED
  BY <1>2, StatusStep DEF IInv, Load, Dispatched

LEMMA LoadFailsStep == ASSUME IInv, NEW t \in Target, LoadFails(t) PROVE IInv'
<1>1. TypeOK'
  BY DEF IInv, TypeOK, LoadFails, Fails, Settled, Failures, Product
<1> QED
  BY <1>1, StatusStep DEF IInv, LoadFails, Fails, Dispatched

LEMMA TaskFailsStep == ASSUME IInv, NEW t \in Target, TaskFails(t) PROVE IInv'
<1>1. TypeOK'
  BY DEF IInv, TypeOK, TaskFails, Fails, Settled, Failures, Product
<1> QED
  BY <1>1, StatusStep DEF IInv, TaskFails, Fails

\* A published product joins the registry, or was there.
LEMMA PublishStep == ASSUME IInv, NEW t \in Target, Publish(t) PROVE IInv'
<1> USE DEF IInv
<1> DEFINE same == {i \in Products(t) : registry[i].from = input[t]}
           e == [of |-> t, from |-> input[t], evicted |-> FALSE, verdict |-> "none", by |-> 0]
           n == Len(registry)
<1>1. /\ status[t] = "running" /\ phase' = phase /\ forced' = forced /\ planned' = planned
      /\ policy' = policy /\ last' = last /\ input' = input
      /\ status' = [status EXCEPT ![t] = "published"]
  BY DEF Publish
<1>2. /\ Product = 1..n /\ n \in Nat /\ registry \in Seq(Entry)
      /\ \A i \in Product : registry[i] \in Entry
  BY EntryType DEF TypeOK, Entry
<1>3. /\ registry' \in Seq(Entry) /\ Product \subseteq Product'
      /\ \A i \in Product : registry'[i] = registry[i]
      /\ \A i \in Product' \ Product : registry'[i] = e
      /\ \E i \in Products(t)' : made' = [made EXCEPT ![t] = i]
  <2>1. CASE same # {}
    <3> DEFINE i == CHOOSE j \in same : TRUE
    <3>1. i \in same
      BY <2>1
    <3>2. registry' = registry /\ made' = [made EXCEPT ![t] = i]
      BY <2>1 DEF Publish
    <3>3. i \in Products(t)
      BY <3>1
    <3> HIDE DEF i
    <3> QED
      BY <1>2, <3>2, <3>3 DEF Products, Product
  <2>2. CASE same = {}
    <3>1. registry' = Append(registry, e) /\ made' = [made EXCEPT ![t] = n + 1]
      BY <2>2 DEF Publish
    <3>2. e \in Entry
      <4>1. input[t] \in SUBSET Nat
        BY <1>2 DEF TypeOK
      <4> QED
        BY <4>1, ReplanningAssumption DEF Entry
    <3>3. e.of = t
      OBVIOUS
    <3> HIDE DEF e
    <3>4. /\ registry' \in Seq(Entry) /\ Len(registry') = n + 1
          /\ \A i \in 1..n : registry'[i] = registry[i]
          /\ registry'[n + 1] = e
      BY <1>2, <3>1, <3>2
    <3>5. Product' = 1..(n + 1)
      BY <3>4 DEF Product
    <3>6. n + 1 \in Products(t)'
      BY <1>2, <3>3, <3>4, <3>5 DEF Products
    <3>7. Product \subseteq Product' /\ Product' \ Product = {n + 1}
      BY <1>2, <3>5
    <3> QED
      BY <1>2, <3>1, <3>4, <3>6, <3>7
  <2> QED
    BY <2>1, <2>2
<1> HIDE DEF same, n
<1>4. PICK i \in Products(t)' : made' = [made EXCEPT ![t] = i]
  BY <1>3
<1>5. i \in Product' /\ registry'[i].of = t
  BY DEF Products
<1>6. TypeOK'
  <2>1. /\ status' \in [Target -> {"none", "waiting", "running", "published"} \union Settled]
        /\ made' \in [Target -> {0} \union Product'] /\ input' \in [Target -> SUBSET Product']
    BY <1>1, <1>3, <1>4, <1>5 DEF TypeOK
  <2> QED
    BY <1>1, <1>3, <2>1 DEF TypeOK, Publish, Entry
<1>7. /\ e.of = t /\ e.verdict = "none" /\ e.by = 0
  OBVIOUS
<1> HIDE DEF e
<1>8. \A u \in Target : /\ Products(u) \subseteq Products(u)'
                        /\ u # t => Products(u)' = Products(u)
                        /\ Accepted(u) => (Accepted(u))'
                        /\ DependsOn(u)' = DependsOn(u)
  BY <1>1, <1>3, <1>7 DEF Products, Accepted, DependsOn, ByKind
<1>9. /\ status'[t] = "published" /\ \A u \in Target \ {t} : status'[u] = status[u]
      /\ made'[t] = i /\ \A u \in Target \ {t} : made'[u] = made[u]
  BY <1>1, <1>4 DEF TypeOK
<1>10. RunInv' /\ Made'
  BY <1>1, <1>8, <1>9 DEF RunInv, Made
<1>11. Done'
  <2>1. \A u \in Target : status[u] = "succeeded" => made[u] \in Product
    BY DEF Made, Products
  <2> QED
    BY <1>1, <1>3, <1>9, <2>1 DEF Done
<1>12. ParentsCovered'
  <2>1. \A u \in planned : \A p \in Parents[u] : p \in Target
    BY ReplanningAssumption DEF TypeOK
  <2> QED
    BY <1>1, <1>8, <2>1 DEF ParentsCovered
<1>13. GateCovered'
  <2>1. \A u \in planned : \A b \in GateSources(u, Bias) : b \in Target
    BY GuardNear DEF Bias, TypeOK
  <2> QED
    BY <1>1, <1>8, <2>1 DEF GateCovered
<1>14. Ready'
  <2> SUFFICES ASSUME NEW u \in Target, (Active(u))', NEW d \in DependsOn(u)'
               PROVE  status'[d] = "succeeded"
    BY DEF Ready
  <2>1. d \in DependsOn(u) /\ d \in Target
    BY <1>8, DependsOnPlanned DEF TypeOK
  <2>2. status[d] = "succeeded"
    BY <1>1, <1>9, <2>1 DEF Ready, Active
  <2> QED
    BY <1>1, <1>9, <2>1, <2>2
<1>15. Verdicts'
  <2>1. 0 <= policy
    BY ReplanningAssumption DEF TypeOK
  <2> QED
    BY <1>1, <1>3, <1>7, <2>1 DEF Verdicts
<1>16. Fresh'
  <2>1. \A u \in Target : \A j \in Products(u) : j \in Product
    BY DEF Products
  <2> QED
    BY <1>1, <1>3, <1>8, <1>9, <2>1 DEF Fresh
<1> QED
  BY <1>6, <1>10, <1>11, <1>12, <1>13, <1>14, <1>15, <1>16

\* A verdict is written on the product of the judged task; eviction touches no
\* verdict.
LEMMA JudgeStep == ASSUME IInv, NEW t \in Target, Judge(t) PROVE IInv'
<1> USE DEF IInv
<1> DEFINE i == made[t]
           judged(v) == [registry EXCEPT ![i].verdict = v, ![i].by = policy]
<1>1. /\ status[t] = "published" /\ phase' = phase /\ forced' = forced /\ planned' = planned
      /\ policy' = policy /\ last' = last /\ made' = made /\ input' = input
  BY DEF Judge
<1>2. /\ Product = 1..Len(registry) /\ Len(registry) \in Nat /\ registry \in Seq(Entry)
      /\ \A j \in Product : registry[j] \in Entry
      /\ i \in Product /\ registry[i].of = t
  BY <1>1, EntryType DEF TypeOK, Entry, Made, Products
<1>3. \/ registry' = registry /\ Fails(t, "evicted")
      \/ /\ t \in noisy[policy] /\ Fails(t, "qa") /\ registry' = judged("fail")
      \/ /\ status' = [status EXCEPT ![t] = "succeeded"] /\ error' = error
         /\ registry' = Evicted(judged("pass"), i)
  BY DEF Judge
<1>4. CASE registry' = registry /\ Fails(t, "evicted")
  <2>1. TypeOK'
    BY <1>4 DEF TypeOK, Judge, Fails, Settled, Failures, Product
  <2> QED
    BY <1>1, <1>4, <2>1, StatusStep DEF Fails
<1>5. CASE registry' # registry \/ ~ Fails(t, "evicted")
  <2>1. PICK v \in {"pass", "fail"} :
          /\ v = "fail" => /\ t \in noisy[policy] /\ Fails(t, "qa")
                           /\ registry' = judged("fail")
          /\ v = "pass" => /\ status' = [status EXCEPT ![t] = "succeeded"] /\ error' = error
                           /\ registry' = Evicted(judged("pass"), i)
    BY <1>3, <1>5
  <2>2. /\ judged(v) \in [Product -> Entry]
        /\ judged(v)[i].of = t /\ judged(v)[i].verdict = v /\ judged(v)[i].by = policy
        /\ \A j \in Product \ {i} : judged(v)[j] = registry[j]
    <3>1. policy \in 0..MaxPolicy /\ v \in {"none", "pass", "fail"}
      BY ReplanningAssumption DEF TypeOK
    <3> DEFINE x == [registry[i] EXCEPT !.verdict = v, !.by = policy]
    <3>2. registry[i] \in Entry
      BY <1>2
    <3>3. x \in Entry /\ x.of = t /\ x.verdict = v /\ x.by = policy
      <4> HIDE DEF i
      <4> QED
        BY <1>2, <3>1, <3>2 DEF Entry
    <3>4. judged(v) = [registry EXCEPT ![i] = x]
      BY <1>2 DEF Entry
    <3>5. registry \in [Product -> Entry]
      BY <1>2
    <3> HIDE DEF x, i, judged
    <3> QED
      BY <1>2, <3>3, <3>4, <3>5
  <2> DEFINE q == judged(v)
  <2> HIDE DEF q
  <2>3. /\ q \in [Product -> Entry]
        /\ q[i].of = t /\ q[i].verdict = v /\ q[i].by = policy
        /\ \A j \in Product \ {i} : q[j] = registry[j]
    BY <2>2 DEF q
  <2>4. /\ registry' \in [Product -> Entry]
        /\ \A j \in Product : /\ registry'[j].of = q[j].of /\ registry'[j].verdict = q[j].verdict
                              /\ registry'[j].by = q[j].by
    <3>1. CASE v = "fail"
      BY <2>1, <2>3, <3>1 DEF q
    <3>2. CASE v = "pass"
      <4>1. registry' = Evicted(q, i)
        BY <2>1, <3>2 DEF q
      <4> HIDE DEF i
      <4>2. PICK gone : registry' = [j \in DOMAIN q |-> [q[j] EXCEPT !.evicted = @ \/ gone[j]]]
        <5> DEFINE g == [j \in DOMAIN q |->
                           /\ kindOf[q[j].of] \in Releases[kindOf[q[i].of]]
                           /\ j \in Lineage(q, i)
                           /\ \A k \in Evidence[kindOf[q[j].of]] : \E m \in DOMAIN q :
                                kindOf[q[m].of] = k /\ q[m].verdict = "pass" /\ j \in Lineage(q, m)]
        <5>1. registry' = [j \in DOMAIN q |-> [q[j] EXCEPT !.evicted = @ \/ g[j]]]
          BY <4>1 DEF Evicted
        <5> HIDE DEF g
        <5> QED
          BY <5>1
      <4>3. ASSUME NEW j \in Product
            PROVE  /\ [q[j] EXCEPT !.evicted = @ \/ gone[j]] \in Entry
                   /\ registry'[j] = [q[j] EXCEPT !.evicted = @ \/ gone[j]]
        <5>1. q[j] \in Entry /\ (q[j].evicted \/ gone[j]) \in BOOLEAN
          BY <2>3
        <5>2. registry'[j] = [q[j] EXCEPT !.evicted = q[j].evicted \/ gone[j]]
          BY <2>3, <4>2
        <5> QED
          BY <5>1, <5>2 DEF Entry
      <4>4. registry' = [j \in Product |-> registry'[j]]
        BY <2>3, <4>2
      <4>5. registry' \in [Product -> Entry]
        BY <4>3, <4>4
      <4>6. ASSUME NEW j \in Product
            PROVE  /\ registry'[j].of = q[j].of /\ registry'[j].verdict = q[j].verdict
                   /\ registry'[j].by = q[j].by
        <5>1. PICK e : e = q[j]
          OBVIOUS
        <5>2. e \in Entry /\ registry'[j] = [e EXCEPT !.evicted = @ \/ gone[j]]
          BY <2>3, <4>3, <5>1
        <5>3. /\ registry'[j].of = e.of /\ registry'[j].verdict = e.verdict
              /\ registry'[j].by = e.by
          BY <5>2 DEF Entry
        <5> QED
          BY <5>1, <5>3
      <4> QED
        BY <4>5, <4>6
    <3> QED
      BY <3>1, <3>2
  <2> HIDE DEF i, judged
  <2>5. Product' = Product /\ registry' \in Seq(Entry)
    <3>1. Product' = Product
      BY <2>4 DEF Product
    <3>2. registry' \in [1..Len(registry) -> Entry]
      BY <1>2, <2>4
    <3> QED
      BY <1>2, <3>1, <3>2
  <2>6. /\ status' = [status EXCEPT ![t] = IF v = "pass" THEN "succeeded" ELSE "failed"]
        /\ error' \in [Target -> {"none"} \union Failures]
    BY <2>1 DEF Fails, TypeOK, Failures
  <2>7. TypeOK'
    <3>1. status' \in [Target -> {"none", "waiting", "running", "published"} \union Settled]
      BY <2>6 DEF TypeOK, Settled
    <3> QED
      BY <1>1, <2>5, <2>6, <3>1 DEF TypeOK, Judge, Entry
  <2>8. \A j \in Product : registry'[j].of = registry[j].of
    BY <1>2, <2>3, <2>4
  <2>9. \A u \in Target : Products(u)' = Products(u) /\ DependsOn(u)' = DependsOn(u)
    BY <1>1, <2>5, <2>8 DEF Products, DependsOn, ByKind
  <2>10. \A j \in Product \ {i} :
           registry'[j].verdict = registry[j].verdict /\ registry'[j].by = registry[j].by
    BY <2>3, <2>4
  <2>11. registry'[i].verdict = v /\ registry'[i].by = policy
    BY <1>2, <2>3, <2>4
  <2>12. \A u \in Target \ {t} : Accepted(u) => (Accepted(u))'
    BY <1>1, <1>2, <2>9, <2>10 DEF Accepted, Products
  <2>13. /\ status'[t] \in {"succeeded", "failed"} /\ (status'[t] = "succeeded" => v = "pass")
         /\ \A u \in Target \ {t} : status'[u] = status[u]
    BY <2>6 DEF TypeOK
  <2>14. RunInv' /\ Made'
    <3>1. made[t] \in Products(t) /\ t \in planned
      BY <1>1 DEF Made, RunInv
    <3> QED
      BY <1>1, <2>9, <2>13, <3>1 DEF RunInv, Made
  <2>15. Done'
    <3> SUFFICES ASSUME NEW u \in Target, status'[u] = "succeeded"
                 PROVE  registry'[made[u]].verdict = "pass" /\ registry'[made[u]].by = policy
      BY <1>1 DEF Done
    <3>1. CASE u = t
      BY <2>11, <2>13, <3>1 DEF i
    <3>2. CASE u # t
      <4>1. status[u] = "succeeded"
        BY <2>13, <3>2
      <4>2. made[u] \in Product /\ registry[made[u]].of = u
        BY <4>1 DEF Made, Products
      <4> QED
        BY <1>2, <2>10, <3>2, <4>1, <4>2 DEF Done
    <3> QED
      BY <3>1, <3>2
  <2>16. ParentsCovered'
    <3>1. \A u \in planned : \A p \in Parents[u] : p \in Target
      BY ReplanningAssumption DEF TypeOK
    <3> QED
      BY <1>1, <2>9, <3>1 DEF ParentsCovered
  <2>17. GateCovered'
    <3>1. t \in planned /\ \A u \in planned : \A b \in GateSources(u, Bias) : b \in Target
      BY <1>1, GuardNear DEF Bias, TypeOK, RunInv
    <3> QED
      BY <1>1, <2>12, <3>1 DEF GateCovered
  <2>18. Ready'
    <3> SUFFICES ASSUME NEW u \in Target, (Active(u))', NEW d \in DependsOn(u)'
                 PROVE  status'[d] = "succeeded"
      BY DEF Ready
    <3>1. d \in DependsOn(u) /\ d \in Target
      BY <2>9, DependsOnPlanned DEF TypeOK
    <3>2. status[d] = "succeeded"
      BY <2>13, <3>1 DEF Ready, Active
    <3> QED
      BY <1>1, <2>13, <3>1, <3>2
  <2>19. Verdicts'
    <3>1. v = "fail" => t \in Bias
      BY <2>1 DEF TypeOK
    <3>2. policy <= policy
      BY ReplanningAssumption DEF TypeOK
    <3> QED
      BY <1>1, <1>2, <2>5, <2>8, <2>10, <2>11, <3>1, <3>2 DEF Verdicts
  <2>20. Fresh'
    <3>1. \A u \in Target \ {t} : \A j \in Products(u) : j \in Product \ {i}
      BY <1>2 DEF Products
    <3> QED
      BY <1>1, <2>9, <2>10, <2>13, <3>1 DEF Fresh
  <2> QED
    BY <2>7, <2>14, <2>15, <2>16, <2>17, <2>18, <2>19, <2>20
<1> QED
  BY <1>3, <1>4, <1>5

\* Between runs nothing is planned, and the invariant says nothing of a run.
LEMMA EndOfRun ==
  ASSUME IInv, NoRun, phase' = "idle", registry' = registry, policy' = policy
  PROVE  /\ RunInv' /\ Made' /\ Done' /\ ParentsCovered' /\ GateCovered' /\ Ready' /\ Verdicts'
         /\ Fresh'
<1>1. planned' = {} /\ \A t \in Target : status'[t] = "none"
  BY DEF NoRun
<1>2. Verdicts'
  BY DEF IInv, Verdicts, Product
<1> QED
  BY <1>1, <1>2 DEF RunInv, Made, Done, ParentsCovered, GateCovered, Ready, Active, Fresh

LEMMA FinishStep == ASSUME IInv, Finish PROVE IInv'
<1>1. Recorded \in [Target -> {"none", "succeeded", "blocked"} \union Failures]
  <2> SUFFICES ASSUME NEW t \in planned
               PROVE  Outcome(t) \in {"none", "succeeded", "blocked"} \union Failures
    BY DEF IInv, TypeOK, Recorded
  <2>1. t \in Target /\ status[t] \in Settled
    BY DEF IInv, TypeOK, Finish
  <2> QED
    BY <2>1 DEF IInv, TypeOK, Outcome, Settled
<1>2. TypeOK'
  BY <1>1 DEF IInv, TypeOK, Finish, NoRun, Product
<1> QED
  BY <1>2, EndOfRun DEF IInv, Finish

LEMMA CrashStep == ASSUME IInv, Crash PROVE IInv'
<1>1. TypeOK'
  BY ReplanningAssumption DEF IInv, TypeOK, Crash, NoRun, Product
<1> QED
  BY <1>1, EndOfRun DEF IInv, Crash

\* A new policy makes every verdict an older one's.
LEMMA NewPolicyStep == ASSUME IInv, NewPolicy PROVE IInv'
<1> USE DEF IInv
<1>1. /\ phase = "idle" /\ policy' = policy + 1 /\ policy \in Nat /\ phase' = phase
      /\ planned' = planned /\ status' = status /\ registry' = registry /\ forced' = forced
  BY ReplanningAssumption DEF NewPolicy, run, TypeOK
<1>2. TypeOK'
  BY ReplanningAssumption DEF TypeOK, NewPolicy, run, Product
<1>3. planned = {} /\ \A t \in Target : status[t] = "none"
  <2>1. planned = {}
    BY <1>1 DEF RunInv
  <2> QED
    BY <2>1 DEF RunInv
<1>4. Verdicts'
  <2>1. \A i \in Product : registry[i].by \in Nat
    BY EntryType, ReplanningAssumption
  <2> QED
    BY <1>1, <2>1 DEF Verdicts, Product
<1> QED
  BY <1>1, <1>2, <1>3, <1>4
     DEF RunInv, Made, Done, ParentsCovered, GateCovered, Ready, Active, Fresh

-----------------------------------------------------------------------------
(* The theorems                                                            *)

\* The invariant that the others follow from.
THEOREM Invariance == Spec => []IInv
<1>1. IInv /\ [Next]_vars => IInv'
  <2> SUFFICES ASSUME IInv, [Next]_vars PROVE IInv'
    OBVIOUS
  <2>1. CASE UNCHANGED vars
    <3>1. /\ phase' = phase /\ forced' = forced /\ planned' = planned /\ status' = status
          /\ error' = error /\ input' = input /\ made' = made /\ registry' = registry
          /\ last' = last /\ policy' = policy /\ noisy' = noisy /\ forces' = forces
          /\ crashes' = crashes
      BY <2>1 DEF vars, run
    <3>2. TypeOK'
      BY <3>1 DEF IInv, TypeOK, Product
    <3>3. /\ ParentsCovered' /\ GateCovered' /\ Verdicts'
          /\ \A t \in Target : DependsOn(t)' = DependsOn(t) /\ Products(t)' = Products(t)
      BY <3>1, Kept
    <3>4. RunInv' /\ Made' /\ Done' /\ Ready' /\ Fresh'
      BY <3>1, <3>3 DEF IInv, RunInv, Made, Done, Ready, Active, Fresh
    <3> QED
      BY <3>2, <3>3, <3>4 DEF IInv
  <2> QED
    BY <2>1, PlanStep, PlanForcedStep, BlockStep, LoadStep, LoadFailsStep, TaskFailsStep,
       PublishStep, JudgeStep, FinishStep, CrashStep, NewPolicyStep DEF Next, Task
<1> QED
  BY InitIInv, <1>1, PTL DEF Spec

\* Type correctness: what select_best and the prerequisites' results name is in
\* the registry, and what a run records is an outcome.
THEOREM TypeCorrect == Spec => []TypeOK
<1>1. IInv => TypeOK
  BY DEF IInv
<1> QED
  BY <1>1, Invariance, PTL

\* A gated task works only behind biases that have passed the current policy.
THEOREM GateHoldsCorrect == Spec => []GateHolds
<1>1. IInv => GateHolds
  <2> SUFFICES ASSUME IInv, NEW t \in Target, Active(t), NEW b \in GateSources(t, Bias)
               PROVE  Accepted(b)
    BY DEF GateHolds
  <2>1. t \in planned /\ b \in Target
    BY GuardNear DEF IInv, RunInv, Active, Bias
  <2>2. CASE b \in planned
    <3>1. status[b] = "succeeded"
      BY <2>2, GuardPlanned DEF IInv, Ready
    <3> QED
      BY <2>1, <3>1 DEF IInv, Made, Done, Accepted
  <2> QED
    BY <2>1, <2>2 DEF IInv, GateCovered
<1> QED
  BY <1>1, Invariance, PTL

\* A derived task works only when each parent has a product.
THEOREM ParentsReadyCorrect == Spec => []ParentsReady
<1>1. IInv => ParentsReady
  <2> SUFFICES ASSUME IInv, NEW t \in Target, Active(t), NEW p \in Parents[t]
               PROVE  Products(p) # {}
    BY DEF ParentsReady
  <2>1. t \in planned /\ p \in Target
    BY ReplanningAssumption DEF IInv, RunInv, Active
  <2>2. CASE p \in planned
    <3>1. p \in DependsOn(t)
      BY <2>2 DEF DependsOn
    <3> QED
      BY <2>1, <3>1 DEF IInv, Ready, Made
  <2> QED
    BY <2>1, <2>2 DEF IInv, ParentsCovered
<1> QED
  BY <1>1, Invariance, PTL

\* An unforced run repeats no failed task and nothing that has been accepted.
THEOREM NothingRepeatedCorrect == Spec => []NothingRepeated
<1>1. IInv => NothingRepeated
  BY DEF IInv, Fresh, NothingRepeated
<1> QED
  BY <1>1, Invariance, PTL

-----------------------------------------------------------------------------
(* RawCatalog                                                              *)

\* The functions of the state.
CatalogShape ==
  /\ CatalogTypeOK
  /\ length \in [Archive -> Nat]
  /\ todo \in [Scanner -> SUBSET (Loose \union Archive)]
  /\ pos \in [Scanner -> Nat] /\ listed \in [Scanner -> Nat] /\ meta \in [Scanner -> Nat]
  /\ evidence \in [Scanner -> SUBSET RawFrame]
  /\ due \in [Scanner -> SUBSET RawFrame]

\* Frames scan s has still to register: in containers it has not visited, in
\* the one it visits, and the one in its hands.
ToVisit(s) ==
  (todo[s] \intersect Loose)
    \union UNION {First(a, length[a]) : a \in todo[s] \intersect Archive}

InArchive(s) ==
  IF active[s] = Nothing \/ stage[s] \in {"stat", "persist"} THEN {}
  ELSE {Layout[active[s]][j] : j \in (pos[s] + 1)..Available(s)}

InHand(s) ==
  IF stage[s] \in {"ensure", "build", "header", "row", "details"} THEN {current[s]} ELSE {}

Ahead(s) == ToVisit(s) \union InArchive(s) \union InHand(s)

Behind(s) == {f \in RawFrame : rows[f] >= 1 /\ ExposureOf[f] \in populated[s]}

\* Exposures of which scan s, and slots of which every scan, has read the header
\* of each frame it registered.
Legible(s, e) == \A g \in unread[s] : ExposureOf[g] # e
Known(i)      == \A r \in Scanner : \A g \in unread[r] : SlotOf[g] # i

\* Where a scan is.
Place(s) ==
  /\ stage[s] \in {"idle", "done"} => active[s] = Nothing
  /\ stage[s] = "done" => todo[s] = {}
  /\ stage[s] \in {"ensure", "build", "header", "stat", "persist"} => active[s] # Nothing
  /\ stage[s] \in {"stat", "persist"} => ordered
  /\ ~ ordered => evidence[s] = {}
  /\ stage[s] \in {"ensure", "build", "header", "row", "details"} => current[s] \in RawFrame
  /\ stage[s] = "details" => rows[current[s]] >= 1 /\ (legible[s] \/ current[s] \in unread[s])

\* What it knows of its archive is not ahead of the archive.
Extent(s) ==
  /\ active[s] # Nothing => pos[s] <= Begun(active[s]) /\ listed[s] <= Begun(active[s])
  /\ stage[s] = "build" => meta[s] <= Written(active[s])

\* What its process has cached is true of the registry, or of a header.
Caches(s) ==
  /\ \A e \in populated[s] : details[e] # "none" /\ (Legible(s, e) => details[e] = "full")
  /\ \A i \in Slot : Known(i) => metaCache[s][i] # "madeUp"

\* No frame that was there when it began is passed over.
Progress(s) == stage[s] # "idle" => due[s] \ Ignored \subseteq Ahead(s) \union Behind(s)

Rows ==
  \A f \in RawFrame :
    /\ f \notin Loose => rows[f] <= 1
    /\ rows[f] >= 1 => amplifier[f] # "none"
    /\ Known(SlotOf[f]) => amplifier[f] # "madeUp"

Indexed ==
  ~ordered => \A a \in Archive : index[a] # Nothing =>
    /\ index[a].meta <= Written(a)
    /\ index[a].meta = Written(a) => index[a].members = First(a, length[a])

CatalogIInv ==
  /\ CatalogShape /\ Rows /\ Indexed
  /\ \A s \in Scanner : Place(s) /\ Extent(s) /\ Caches(s) /\ Progress(s)

\* A step leaves scan s where it is.
Still(s) ==
  /\ stage'[s] = stage[s] /\ todo'[s] = todo[s] /\ active'[s] = active[s] /\ pos'[s] = pos[s]
  /\ listed'[s] = listed[s] /\ current'[s] = current[s] /\ legible'[s] = legible[s]
  /\ evidence'[s] = evidence[s]
  /\ meta'[s] = meta[s] /\ metaCache'[s] = metaCache[s] /\ populated'[s] = populated[s]
  /\ due'[s] = due[s] /\ unread'[s] = unread[s]

\* A step takes nothing back from the archives and the registry.
Onward ==
  /\ ordered' = ordered
  /\ \A a \in Archive : length[a] <= length'[a] /\ Begun(a) <= Begun(a)' /\ Written(a) <= Written(a)'
  /\ \A r \in Scanner : unread[r] \subseteq unread'[r]
  /\ \A f \in RawFrame : rows[f] <= rows'[f]
  /\ \A e \in Exposure : /\ details[e] # "none" => details'[e] # "none"
                         /\ details[e] = "full" => details'[e] = "full"

LEMMA Prefix ==
  ASSUME NEW a \in Archive, NEW n \in Nat, n <= Len(Layout[a])
  PROVE  /\ First(a, n) \subseteq RawFrame
         /\ \A m \in Nat : m <= n => First(a, m) \subseteq First(a, n)
         /\ \A j \in 1..n : Layout[a][j] \in RawFrame
<1>1. Layout[a] \in Seq(RawFrame)
  BY CatalogAssumption
<1>2. \A j \in 1..n : Layout[a][j] \in RawFrame
  BY <1>1
<1> QED
  BY <1>2 DEF First

\* How much of an archive is there.
LEMMA Extents ==
  ASSUME CatalogShape, NEW a \in Archive
  PROVE  /\ length[a] \in Nat /\ Begun(a) \in Nat /\ Written(a) \in Nat /\ Len(Layout[a]) \in Nat
         /\ length[a] <= Begun(a) /\ Begun(a) <= Len(Layout[a])
         /\ length[a] <= Len(Layout[a])
<1>1. Layout[a] \in Seq(RawFrame)
  BY CatalogAssumption
<1>2. Len(Layout[a]) \in Nat
  BY <1>1
<1>3. length[a] \in 0..Len(Layout[a]) /\ (torn[a] => length[a] < Len(Layout[a]))
  BY DEF CatalogShape, CatalogTypeOK
<1> QED
  BY <1>2, <1>3 DEF Begun, Written

LEMMA SameExtents ==
  ASSUME CatalogShape, UNCHANGED storage
  PROVE  /\ \A a \in Archive : Begun(a)' = Begun(a) /\ Written(a)' = Written(a) /\ CutShort(a)' = CutShort(a)
         /\ \A a \in Archive : /\ length[a] <= length'[a] /\ Begun(a) <= Begun(a)'
                                /\ Written(a) <= Written(a)'
<1>1. \A a \in Archive : Begun(a)' = Begun(a) /\ Written(a)' = Written(a) /\ CutShort(a)' = CutShort(a)
  BY DEF Begun, Written, CutShort, storage
<1>2. \A a \in Archive : length[a] \in Nat /\ Begun(a) \in Nat /\ Written(a) \in Nat
  BY Extents
<1> QED
  BY <1>1, <1>2 DEF storage

LEMMA ScanType ==
  ASSUME CatalogShape, NEW s \in Scanner
  PROVE  /\ todo[s] \subseteq Loose \union Archive /\ pos[s] \in Nat /\ listed[s] \in Nat
         /\ meta[s] \in Nat /\ evidence[s] \subseteq RawFrame /\ due[s] \subseteq RawFrame
         /\ active[s] \in Archive \union {Nothing} /\ current[s] \in RawFrame \union {Nothing}
         /\ populated[s] \subseteq Exposure
         /\ metaCache[s] \in [Slot -> {"none", "madeUp", "ofHeader"}]
         /\ legible[s] \in BOOLEAN /\ unread[s] \subseteq RawFrame
         /\ active[s] # Nothing =>
              /\ active[s] \in Archive /\ length[active[s]] \in Nat
              /\ Begun(active[s]) \in Nat /\ Written(active[s]) \in Nat
              /\ Begun(active[s]) <= Len(Layout[active[s]]) /\ Available(s) \in Nat
         /\ Loose \subseteq RawFrame /\ Nothing \notin RawFrame
<1> QED
  BY Extents, CatalogAssumption DEF CatalogShape, CatalogTypeOK, Available, Loose

\* A scan that does not move keeps what is said of it.
LEMMA StillKept ==
  ASSUME CatalogIInv, CatalogShape', NEW s \in Scanner, Still(s), Onward
  PROVE  (Place(s) /\ Extent(s) /\ Caches(s) /\ Progress(s))'
<1> USE DEF CatalogIInv, Still
<1>1. /\ pos[s] \in Nat /\ listed[s] \in Nat /\ meta[s] \in Nat /\ due[s] \subseteq RawFrame
      /\ populated[s] \subseteq Exposure /\ todo[s] \subseteq Loose \union Archive
      /\ active[s] # Nothing => active[s] \in Archive
      /\ current[s] \in RawFrame \union {Nothing}
  BY ScanType
<1>2. \A a \in Archive :
        /\ length[a] \in Nat /\ length'[a] \in Nat /\ First(a, length[a]) \subseteq First(a, length'[a])
        /\ Begun(a) \in Nat /\ Begun(a)' \in Nat /\ Begun(a) <= Begun(a)'
        /\ Written(a) \in Nat /\ Written(a)' \in Nat /\ Written(a) <= Written(a)'
  <2>1. \A a \in Archive : /\ length'[a] \in Nat /\ Begun(a)' \in Nat /\ Written(a)' \in Nat
                           /\ length'[a] <= Len(Layout[a])
    <3> SUFFICES ASSUME NEW a \in Archive
                 PROVE  /\ length'[a] \in Nat /\ Begun(a)' \in Nat /\ Written(a)' \in Nat
                        /\ length'[a] <= Len(Layout[a])
      OBVIOUS
    <3>1. Len(Layout[a]) \in Nat
      BY CatalogAssumption, Extents
    <3>2. length'[a] \in 0..Len(Layout[a])
      BY DEF CatalogShape, CatalogTypeOK
    <3> QED
      BY <3>1, <3>2 DEF Begun, Written
  <2>2. \A a \in Archive : /\ length[a] \in Nat /\ Begun(a) \in Nat /\ Written(a) \in Nat
                           /\ length[a] <= length'[a] /\ Begun(a) <= Begun(a)' /\ Written(a) <= Written(a)'
    BY Extents DEF Onward
  <2> QED
    BY <2>1, <2>2, Prefix
<1>3. \A f \in RawFrame : rows[f] \in Nat /\ rows'[f] \in Nat /\ rows[f] <= rows'[f]
  BY DEF CatalogShape, CatalogTypeOK, Onward
<1>4. Place(s)'
  BY <1>1, <1>3 DEF Place, Onward
<1>5. Extent(s)'
  BY <1>1, <1>2 DEF Extent, Place
<1>6. Caches(s)'
  <2>1. \A e : Legible(s, e)' => Legible(s, e)
    BY DEF Legible
  <2>2. \A i : Known(i)' => Known(i)
    BY DEF Known, Onward
  <2> QED
    BY <1>1, <2>1, <2>2 DEF Caches, Onward
<1>7. Progress(s)'
  <2>1. Behind(s) \subseteq Behind(s)'
    BY <1>3 DEF Behind
  <2>2. InArchive(s) \subseteq InArchive(s)'
    <3>1. active[s] # Nothing => Available(s) \in Nat /\ Available(s)' \in Nat
                                /\ Available(s) <= Available(s)'
      BY <1>1, <1>2 DEF Available, Streamed, Onward
    <3> QED
      BY <1>1, <3>1 DEF InArchive
  <2>3. ToVisit(s) \subseteq ToVisit(s)' /\ InHand(s)' = InHand(s)
    BY <1>2 DEF ToVisit, InHand
  <2>4. Ahead(s) \subseteq Ahead(s)'
    BY <2>2, <2>3 DEF Ahead
  <2> QED
    BY <2>1, <2>4 DEF Progress
<1> QED
  BY <1>4, <1>5, <1>6, <1>7

LEMMA ScannerStep ==
  ASSUME CatalogIInv, CatalogShape', NEW s \in Scanner, \A r \in Scanner \ {s} : Still(r), Onward,
         Rows', Indexed', (Place(s) /\ Extent(s) /\ Caches(s) /\ Progress(s))'
  PROVE  CatalogIInv'
BY StillKept DEF CatalogIInv

\* A step that leaves archives and registry as they are.
LEMMA QuietStep ==
  ASSUME CatalogIInv, CatalogShape', NEW s \in Scanner, \A r \in Scanner \ {s} : Still(r),
         UNCHANGED <<storage, catalog>>, unread' = unread,
         (Place(s) /\ Extent(s) /\ Caches(s) /\ Progress(s))'
  PROVE  CatalogIInv'
<1>1. Onward
  <2>1. CatalogShape
    BY DEF CatalogIInv
  <2>2. /\ \A f \in RawFrame : rows[f] <= rows'[f]
        /\ \A e \in Exposure : /\ details[e] # "none" => details'[e] # "none"
                               /\ details[e] = "full" => details'[e] = "full"
    BY <2>1 DEF CatalogShape, CatalogTypeOK, catalog
  <2> QED
    BY <2>1, <2>2, SameExtents DEF Onward, storage
<1>2. Rows' /\ Indexed'
  BY SameExtents DEF CatalogIInv, Rows, Known, Indexed, storage, catalog
<1> QED
  BY <1>1, <1>2, ScannerStep

-----------------------------------------------------------------------------
LEMMA CachesKept ==
  ASSUME CatalogIInv, NEW s \in Scanner, details' = details, populated' = populated,
         metaCache' = metaCache, unread' = unread
  PROVE  Caches(s)'
<1>1. Caches(s)
  BY DEF CatalogIInv
<1>2. (\A e : Legible(s, e)' = Legible(s, e)) /\ (\A i : Known(i)' = Known(i))
  BY DEF Legible, Known
<1> QED
  BY <1>1, <1>2 DEF Caches

LEMMA CatalogInitIInv == CatalogInit => CatalogIInv
<1> SUFFICES ASSUME CatalogInit PROVE CatalogIInv
  OBVIOUS
<1> USE DEF CatalogInit
<1>1. \A a \in Archive : Len(Layout[a]) \in Nat
  BY CatalogAssumption
<1>2. CatalogTypeOK
  <2>1. \A a \in Archive : length[a] \in 0..Len(Layout[a]) /\ (torn[a] => length[a] < Len(Layout[a]))
    BY <1>1 DEF Begun
  <2> QED
    BY <2>1 DEF CatalogTypeOK
<1>3. CatalogShape
  BY <1>2 DEF CatalogShape
<1>4. Rows /\ Indexed
  BY DEF Rows, Indexed
<1>5. \A s \in Scanner : Place(s) /\ Extent(s) /\ Caches(s) /\ Progress(s)
  BY DEF Place, Extent, Caches, Progress
<1> QED
  BY <1>3, <1>4, <1>5 DEF CatalogIInv

LEMMA BeginStep ==
  ASSUME CatalogIInv, NEW s \in Scanner, NEW first \in Night, NEW until \in Night,
         Begin(s, first, until)
  PROVE  CatalogIInv'
<1> USE DEF CatalogIInv
<1> DEFINE chosen == {c \in Loose \union Archive : ordered => NightOf[c] \in first..until}
           D == (chosen \intersect Loose) \union
                  UNION {First(a, length[a]) : a \in chosen \intersect Archive}
<1>1. /\ stage[s] \in {"idle", "done"} /\ stage' = [stage EXCEPT ![s] = "next"]
      /\ todo' = [todo EXCEPT ![s] = chosen] /\ due' = [due EXCEPT ![s] = D]
      /\ metaCache' = [metaCache EXCEPT ![s] = [i \in Slot |-> "none"]]
      /\ populated' = [populated EXCEPT ![s] = {}]
      /\ active' = active /\ pos' = pos /\ listed' = listed /\ current' = current
      /\ evidence' = evidence /\ meta' = meta /\ legible' = legible /\ unread' = unread
      /\ UNCHANGED <<storage, catalog>>
  BY DEF Begin, Goto
<1>2. chosen \subseteq Loose \union Archive /\ D \subseteq RawFrame
  <2>1. \A a \in Archive : First(a, length[a]) \subseteq RawFrame
    BY Extents, Prefix
  <2> QED
    BY <2>1 DEF Loose
<1> HIDE DEF chosen, D
<1>3. CatalogShape'
  BY <1>1, <1>2 DEF CatalogShape, CatalogTypeOK, storage, catalog
<1>4. \A r \in Scanner \ {s} : Still(r)
  BY <1>1 DEF CatalogShape, CatalogTypeOK, Still
<1>5. /\ stage'[s] = "next" /\ todo'[s] = chosen /\ due'[s] = D /\ populated'[s] = {}
      /\ metaCache'[s] = [i \in Slot |-> "none"] /\ active'[s] = Nothing
  BY <1>1 DEF CatalogShape, CatalogTypeOK, Place
<1>6. Place(s)' /\ Extent(s)' /\ Caches(s)'
  BY <1>1, <1>5, SameExtents DEF Place, Extent, Caches, storage
<1>7. Progress(s)'
  <2>1. D \subseteq Ahead(s)'
    BY <1>1, <1>5 DEF D, Ahead, ToVisit, storage
  <2> QED
    BY <1>5, <2>1 DEF Progress
<1> QED
  BY <1>1, <1>3, <1>4, <1>6, <1>7, QuietStep

LEMMA NextLooseStep ==
  ASSUME CatalogIInv, NEW s \in Scanner, NEW f \in Loose, NextLoose(s, f)
  PROVE  CatalogIInv'
<1> USE DEF CatalogIInv
<1>1. /\ stage[s] = "next" /\ stage' = [stage EXCEPT ![s] = "row"] /\ active[s] = Nothing
      /\ todo' = [todo EXCEPT ![s] = @ \ {f}] /\ current' = [current EXCEPT ![s] = f]
      /\ active' = active /\ pos' = pos /\ listed' = listed /\ evidence' = evidence
      /\ meta' = meta /\ metaCache' = metaCache /\ populated' = populated /\ due' = due
      /\ legible' = [legible EXCEPT ![s] = f \notin Broken] /\ unread' = unread
      /\ UNCHANGED <<storage, catalog>>
  BY DEF NextLoose, Goto, caches, history
<1>2. f \in RawFrame
  BY DEF Loose
<1>3. CatalogShape'
  BY <1>1, <1>2 DEF CatalogShape, CatalogTypeOK, storage, catalog
<1>4. \A r \in Scanner \ {s} : Still(r)
  BY <1>1 DEF CatalogShape, CatalogTypeOK, Still
<1>5. stage'[s] = "row" /\ todo'[s] = todo[s] \ {f} /\ current'[s] = f
  BY <1>1 DEF CatalogShape, CatalogTypeOK
<1>6. Place(s)' /\ Extent(s)' /\ Caches(s)'
  BY <1>1, <1>2, <1>5 DEF Place, Extent, Caches, Legible, Known, storage, catalog
<1>7. Progress(s)'
  <2>1. f \notin Archive
    BY <1>2, CatalogAssumption
  <2>2. ToVisit(s) \subseteq ToVisit(s)' \union InHand(s)' /\ InArchive(s) = {} /\ InHand(s) = {}
    BY <1>1, <1>5, <2>1 DEF ToVisit, InHand, InArchive, storage
  <2>3. Behind(s) \subseteq Behind(s)'
    BY <1>1 DEF Behind, catalog
  <2> QED
    BY <1>1, <1>5, <2>2, <2>3 DEF Progress, Ahead
<1> QED
  BY <1>1, <1>3, <1>4, <1>6, <1>7, QuietStep

LEMMA OpenArchiveStep ==
  ASSUME CatalogIInv, NEW s \in Scanner, NEW a \in Archive, OpenArchive(s, a)
  PROVE  CatalogIInv'
<1> USE DEF CatalogIInv
<1>1. /\ stage[s] = "next" /\ stage' = stage /\ active[s] = Nothing
      /\ todo' = [todo EXCEPT ![s] = @ \ {a}] /\ active' = [active EXCEPT ![s] = a]
      /\ pos' = [pos EXCEPT ![s] = 0] /\ listed' = [listed EXCEPT ![s] = length[a]]
      /\ evidence' = [evidence EXCEPT ![s] = {}]
      /\ current' = current
      /\ meta' = meta /\ metaCache' = metaCache /\ populated' = populated /\ due' = due
      /\ legible' = legible /\ unread' = unread
      /\ UNCHANGED <<storage, catalog>>
  BY DEF OpenArchive, caches, history
<1>2. /\ length[a] \in Nat /\ length[a] <= Begun(a) /\ Begun(a) \in Nat
      /\ length[a] <= Len(Layout[a]) /\ a # Nothing /\ a \notin Loose
  BY Extents, CatalogAssumption DEF Loose
<1>3. CatalogShape'
  BY <1>1, <1>2 DEF CatalogShape, CatalogTypeOK, storage, catalog
<1>4. \A r \in Scanner \ {s} : Still(r)
  BY <1>1 DEF CatalogShape, CatalogTypeOK, Still
<1>5. /\ todo'[s] = todo[s] \ {a} /\ active'[s] = a /\ pos'[s] = 0 /\ listed'[s] = length[a]
      /\ evidence'[s] = {}
  BY <1>1 DEF CatalogShape, CatalogTypeOK
<1>6. Place(s)' /\ Extent(s)' /\ Caches(s)'
  BY <1>1, <1>2, <1>5, SameExtents DEF Place, Extent, Caches, Legible, Known, storage, catalog
<1>7. Progress(s)'
  <2>1. First(a, length[a]) \subseteq InArchive(s)'
    <3>1. \A j \in 1..length[a] : j \in 1..Begun(a)
      BY <1>2
    <3>2. Available(s)' = length[a] \/ Available(s)' = Begun(a)
      BY <1>1, <1>5, SameExtents DEF Available
    <3> QED
      BY <1>1, <1>2, <1>5, <3>1, <3>2 DEF InArchive, First
  <2>2. ToVisit(s) \subseteq ToVisit(s)' \union InArchive(s)' /\ InArchive(s) = {} /\ InHand(s) = {}
    BY <1>1, <1>2, <1>5, <2>1 DEF ToVisit, InHand, InArchive, storage
  <2>3. Behind(s) \subseteq Behind(s)'
    BY <1>1 DEF Behind, catalog
  <2> QED
    BY <1>1, <1>5, <2>2, <2>3 DEF Progress, Ahead
<1> QED
  BY <1>1, <1>3, <1>4, <1>6, <1>7, QuietStep

\* What an archive that is passed over had is no longer asked of the scan.
LEMMA SkipArchiveStep ==
  ASSUME CatalogIInv, NEW s \in Scanner, NEW a \in Archive, SkipArchive(s, a)
  PROVE  CatalogIInv'
<1> USE DEF CatalogIInv
<1>1. /\ stage[s] = "next" /\ stage' = stage /\ active[s] = Nothing /\ active' = active
      /\ todo' = [todo EXCEPT ![s] = @ \ {a}] /\ due' = [due EXCEPT ![s] = @ \ Members(a)]
      /\ pos' = pos /\ listed' = listed /\ current' = current /\ evidence' = evidence
      /\ meta' = meta /\ metaCache' = metaCache /\ populated' = populated
      /\ legible' = legible /\ unread' = unread
      /\ UNCHANGED <<storage, catalog>>
  BY DEF SkipArchive, caches
<1>2. a \notin Loose /\ First(a, length[a]) \subseteq Members(a)
  <2>1. \A j \in 1..length[a] : j \in 1..Len(Layout[a])
    BY Extents
  <2> QED
    BY <2>1, CatalogAssumption DEF Loose, First, Members
<1>3. CatalogShape'
  BY <1>1 DEF CatalogShape, CatalogTypeOK, storage, catalog
<1>4. \A r \in Scanner \ {s} : Still(r)
  BY <1>1 DEF CatalogShape, CatalogTypeOK, Still
<1>5. todo'[s] = todo[s] \ {a} /\ due'[s] = due[s] \ Members(a)
  BY <1>1 DEF CatalogShape, CatalogTypeOK
<1>6. Place(s)' /\ Extent(s)' /\ Caches(s)'
  BY <1>1, <1>5, SameExtents DEF Place, Extent, Caches, Legible, Known, storage, catalog
<1>7. Progress(s)'
  <2>1. ToVisit(s) \ Members(a) \subseteq ToVisit(s)' /\ InArchive(s) = {} /\ InHand(s) = {}
    BY <1>1, <1>2, <1>5 DEF ToVisit, InHand, InArchive, storage
  <2>2. Behind(s) \subseteq Behind(s)'
    BY <1>1 DEF Behind, catalog
  <2> QED
    BY <1>1, <1>5, <2>1, <2>2 DEF Progress, Ahead
<1> QED
  BY <1>1, <1>3, <1>4, <1>6, <1>7, QuietStep

LEMMA NextMemberStep ==
  ASSUME CatalogIInv, NEW s \in Scanner, NextMember(s)
  PROVE  CatalogIInv'
<1> USE DEF CatalogIInv
<1> DEFINE f == Layout[active[s]][pos[s] + 1]
<1>1. /\ stage[s] = "next" /\ active[s] # Nothing /\ pos[s] < Available(s)
      /\ pos' = [pos EXCEPT ![s] = @ + 1] /\ current' = [current EXCEPT ![s] = f]
      /\ evidence' = [evidence EXCEPT ![s] = IF ordered THEN @ \union {f} ELSE @]
      /\ \E l \in {"ensure", "header", "row"} : stage' = [stage EXCEPT ![s] = l]
      /\ \E h : legible' = [legible EXCEPT ![s] = ordered /\ h]
      /\ unread' = unread
      /\ active' = active /\ todo' = todo /\ listed' = listed
      /\ meta' = meta /\ metaCache' = metaCache /\ populated' = populated /\ due' = due
      /\ UNCHANGED <<storage, catalog>>
  BY DEF NextMember, Goto, caches, history
<1>2. /\ pos[s] \in Nat /\ listed[s] \in Nat /\ evidence[s] \subseteq RawFrame
      /\ active[s] \in Archive /\ Begun(active[s]) \in Nat
      /\ Begun(active[s]) <= Len(Layout[active[s]]) /\ Available(s) \in Nat
      /\ evidence[s] \subseteq First(active[s], pos[s])
  BY <1>1, ScanType DEF CatalogShape, CatalogTypeOK
<1>3. Available(s) <= Begun(active[s])
  BY <1>1, <1>2 DEF Available, Extent
<1>4. f \in RawFrame /\ pos[s] + 1 <= Begun(active[s])
  BY <1>1, <1>2, <1>3, Prefix
<1> HIDE DEF f
<1>5. /\ pos'[s] = pos[s] + 1 /\ current'[s] = f /\ stage'[s] \in {"ensure", "header", "row"}
      /\ evidence'[s] = IF ordered THEN evidence[s] \union {f} ELSE evidence[s]
  BY <1>1 DEF CatalogShape, CatalogTypeOK
<1>6. evidence'[s] \subseteq First(active[s], pos[s] + 1)
  BY <1>2, <1>5 DEF First, f
<1>7. CatalogShape'
  <2>1. /\ pos' \in [Scanner -> Nat] /\ current' \in [Scanner -> RawFrame \union {Nothing}]
        /\ evidence' \in [Scanner -> SUBSET RawFrame]
        /\ stage' \in [Scanner -> {"idle", "next", "ensure", "build", "header", "row", "details",
                                   "stat", "persist", "done"}]
    BY <1>1, <1>2, <1>4 DEF CatalogShape, CatalogTypeOK
  <2>2. \A r \in Scanner \ {s} : evidence'[r] = evidence[r] /\ pos'[r] = pos[r]
    BY <1>1 DEF CatalogShape
  <2>3. \A r \in Scanner : /\ todo[r] \subseteq Loose \union Archive
                           /\ active[r] # Nothing => evidence'[r] \subseteq First(active[r], pos'[r])
                           /\ pos'[r] \in Nat
    BY <1>5, <1>6, <2>1, <2>2 DEF CatalogShape, CatalogTypeOK
  <2> QED
    BY <1>1, <2>1, <2>3 DEF CatalogShape, CatalogTypeOK, storage, catalog
<1>8. \A r \in Scanner \ {s} : Still(r)
  BY <1>1 DEF CatalogShape, CatalogTypeOK, Still
<1>9. Place(s)' /\ Extent(s)' /\ Caches(s)'
  <2>1. Place(s)'
    BY <1>1, <1>2, <1>4, <1>5 DEF Place, storage, catalog
  <2>2. Extent(s)'
    BY <1>1, <1>2, <1>4, <1>5, ScanType, SameExtents DEF Place, Extent, storage, catalog
  <2>3. Caches(s)'
    BY <1>1, CachesKept DEF catalog
  <2> QED
    BY <2>1, <2>2, <2>3
<1>10. Progress(s)'
  <2>1. InArchive(s) \subseteq InArchive(s)' \union InHand(s)'
    <3>1. \A j \in (pos[s] + 1)..Available(s) : j = pos[s] + 1 \/ j \in (pos[s] + 1 + 1)..Available(s)
      BY <1>2
    <3>2. Available(s)' = Available(s)
      BY <1>1, <1>2, SameExtents DEF Available, Streamed, storage
    <3> QED
      BY <1>1, <1>2, <1>5, <3>1, <3>2 DEF InArchive, InHand, f
  <2>2. ToVisit(s)' = ToVisit(s) /\ InHand(s) = {}
    BY <1>1 DEF ToVisit, InHand, storage
  <2>3. Behind(s) \subseteq Behind(s)'
    BY <1>1 DEF Behind, catalog
  <2> QED
    BY <1>1, <2>1, <2>2, <2>3 DEF Progress, Ahead
<1> QED
  BY <1>1, <1>7, <1>8, <1>9, <1>10, QuietStep

LEMMA EndArchiveStep ==
  ASSUME CatalogIInv, NEW s \in Scanner, EndArchive(s)
  PROVE  CatalogIInv'
<1> USE DEF CatalogIInv
<1>1. /\ stage[s] = "next" /\ active[s] # Nothing /\ pos[s] = Available(s)
      /\ \/ evidence[s] # {} /\ stage' = [stage EXCEPT ![s] = "stat"] /\ active' = active
         \/ active' = [active EXCEPT ![s] = Nothing] /\ stage' = stage
      /\ pos' = pos /\ current' = current /\ evidence' = evidence /\ todo' = todo
      /\ listed' = listed
      /\ meta' = meta /\ metaCache' = metaCache /\ populated' = populated /\ due' = due
      /\ legible' = legible /\ unread' = unread
      /\ UNCHANGED <<storage, catalog>>
  BY DEF EndArchive, Goto, caches, history
<1>2. CatalogShape'
  BY <1>1 DEF CatalogShape, CatalogTypeOK, storage, catalog
<1>3. \A r \in Scanner \ {s} : Still(r)
  BY <1>1 DEF CatalogShape, CatalogTypeOK, Still
<1>4. \/ evidence[s] # {} /\ stage'[s] = "stat" /\ active'[s] = active[s]
      \/ active'[s] = Nothing /\ stage'[s] = "next"
  BY <1>1 DEF CatalogShape, CatalogTypeOK
<1>5. Place(s)' /\ Extent(s)' /\ Caches(s)'
  <2>1. Place(s)'
    BY <1>1, <1>4 DEF Place, storage, catalog
  <2>2. Extent(s)'
    BY <1>1, <1>4, ScanType, SameExtents DEF Place, Extent, storage, catalog
  <2>3. Caches(s)'
    BY <1>1, CachesKept DEF catalog
  <2> QED
    BY <2>1, <2>2, <2>3
<1>6. Progress(s)'
  <2>1. InArchive(s) = {} /\ InHand(s) = {}
    <3>1. (pos[s] + 1)..Available(s) = {}
      BY <1>1, ScanType
    <3> QED
      BY <1>1, <3>1 DEF InArchive, InHand
  <2>2. ToVisit(s)' = ToVisit(s)
    BY <1>1 DEF ToVisit, storage
  <2>3. Behind(s) \subseteq Behind(s)'
    BY <1>1 DEF Behind, catalog
  <2> QED
    BY <1>1, <2>1, <2>2, <2>3 DEF Progress, Ahead
<1> QED
  BY <1>1, <1>2, <1>3, <1>5, <1>6, QuietStep

\* Nothing is said of a scan that has ended early.
LEMMA IdleStep ==
  ASSUME CatalogIInv, NEW s \in Scanner,
         stage' = [stage EXCEPT ![s] = "idle"], active' = [active EXCEPT ![s] = Nothing],
         todo' = todo, pos' = pos, listed' = listed, current' = current, evidence' = evidence,
         meta' = meta, metaCache' = metaCache, populated' = populated, due' = due,
         legible' = legible, unread' = unread, UNCHANGED <<storage, catalog>>
  PROVE  CatalogIInv'
<1> USE DEF CatalogIInv
<1>1. CatalogShape'
  BY DEF CatalogShape, CatalogTypeOK, storage, catalog
<1>2. \A r \in Scanner \ {s} : Still(r)
  BY DEF CatalogShape, CatalogTypeOK, Still
<1>3. stage'[s] = "idle" /\ active'[s] = Nothing
  BY DEF CatalogShape, CatalogTypeOK
<1>4. (Place(s) /\ Extent(s) /\ Caches(s) /\ Progress(s))'
  BY <1>3 DEF Place, Extent, Caches, Progress, Legible, Known, storage, catalog
<1> QED
  BY <1>1, <1>2, <1>4, QuietStep

LEMMA TraversalRaisesStep ==
  ASSUME CatalogIInv, NEW s \in Scanner, TraversalRaises(s)
  PROVE  CatalogIInv'
<1> USE DEF CatalogIInv
<1>1. /\ stage' = [stage EXCEPT ![s] = "idle"] /\ active' = [active EXCEPT ![s] = Nothing]
      /\ todo' = todo /\ pos' = pos /\ listed' = listed /\ current' = current
      /\ evidence' = evidence
      /\ meta' = meta /\ metaCache' = metaCache /\ populated' = populated /\ due' = due
      /\ legible' = legible /\ unread' = unread
      /\ UNCHANGED <<storage, catalog>>
  BY DEF TraversalRaises, Goto, caches, history
<1> QED
  BY <1>1, IdleStep

LEMMA EndScanStep ==
  ASSUME CatalogIInv, NEW s \in Scanner, EndScan(s)
  PROVE  CatalogIInv'
<1> USE DEF CatalogIInv
<1>1. /\ stage[s] = "next" /\ active[s] = Nothing /\ todo[s] = {}
      /\ stage' = [stage EXCEPT ![s] = "done"]
      /\ UNCHANGED <<storage, catalog, visit, caches, bounds, history>>
  BY DEF EndScan, Goto
<1>2. CatalogShape'
  BY <1>1 DEF CatalogShape, CatalogTypeOK, storage, catalog, visit, caches, history
<1>3. \A r \in Scanner \ {s} : Still(r)
  BY <1>1 DEF CatalogShape, CatalogTypeOK, Still, visit, caches, history
<1>4. stage'[s] = "done"
  BY <1>1 DEF CatalogShape, CatalogTypeOK
<1>5. Place(s)' /\ Extent(s)' /\ Caches(s)'
  <2>1. Place(s)'
    BY <1>1, <1>4 DEF Place, storage, catalog, visit, caches, history
  <2>2. Extent(s)'
    BY <1>1, <1>4, ScanType, SameExtents DEF Place, Extent, storage, catalog, visit, caches, history
  <2>3. Caches(s)'
    BY <1>1, CachesKept DEF catalog, visit, caches, history
  <2> QED
    BY <2>1, <2>2, <2>3
<1>6. Progress(s)'
  <2>1. Ahead(s) = {}
    BY <1>1 DEF Ahead, ToVisit, InArchive, InHand
  <2>2. Behind(s) \subseteq Behind(s)'
    BY <1>1 DEF Behind, catalog, caches
  <2> QED
    BY <1>1, <2>1, <2>2 DEF Progress, history
<1> QED
  BY <1>1, <1>2, <1>3, <1>5, <1>6, QuietStep DEF history

LEMMA StatAfterStep ==
  ASSUME CatalogIInv, NEW s \in Scanner, StatAfter(s)
  PROVE  CatalogIInv'
<1> USE DEF CatalogIInv
<1>1. /\ stage[s] = "stat" /\ stage' = [stage EXCEPT ![s] = "persist"]
      /\ meta' = [meta EXCEPT ![s] = Written(active[s])] /\ active' = active
      /\ pos' = pos /\ current' = current /\ evidence' = evidence /\ todo' = todo
      /\ listed' = listed /\ metaCache' = metaCache /\ populated' = populated /\ due' = due
      /\ legible' = legible /\ unread' = unread
      /\ UNCHANGED <<storage, catalog>>
  BY DEF StatAfter, Stat, Goto, caches, history
<1>2. active[s] # Nothing /\ Written(active[s]) \in Nat
  BY <1>1, ScanType DEF Place
<1>3. CatalogShape'
  BY <1>1, <1>2 DEF CatalogShape, CatalogTypeOK, storage, catalog
<1>4. \A r \in Scanner \ {s} : Still(r)
  BY <1>1 DEF CatalogShape, CatalogTypeOK, Still
<1>5. stage'[s] = "persist"
  BY <1>1 DEF CatalogShape, CatalogTypeOK
<1>6. Place(s)' /\ Extent(s)' /\ Caches(s)'
  <2>1. Place(s)'
    BY <1>1, <1>2, <1>5 DEF Place, storage, catalog
  <2>2. Extent(s)'
    BY <1>1, <1>2, <1>5, ScanType, SameExtents DEF Place, Extent, storage, catalog
  <2>3. Caches(s)'
    BY <1>1, CachesKept DEF catalog
  <2> QED
    BY <2>1, <2>2, <2>3
<1>7. Progress(s)'
  <2>1. Ahead(s)' = Ahead(s)
    BY <1>1, <1>5 DEF Ahead, ToVisit, InArchive, InHand, storage
  <2>2. Behind(s) \subseteq Behind(s)'
    BY <1>1 DEF Behind, catalog
  <2> QED
    BY <1>1, <2>1, <2>2 DEF Progress
<1> QED
  BY <1>1, <1>3, <1>4, <1>6, <1>7, QuietStep

\* Only an ordered traversal persists what it saw.
LEMMA PersistStep ==
  ASSUME CatalogIInv, NEW s \in Scanner, Persist(s)
  PROVE  CatalogIInv'
<1> USE DEF CatalogIInv
<1>1. /\ stage[s] = "persist" /\ stage' = [stage EXCEPT ![s] = "next"]
      /\ active' = [active EXCEPT ![s] = Nothing]
      /\ \/ index' = index
         \/ index' = [index EXCEPT ![active[s]] = [meta |-> meta[s], members |-> evidence[s]]]
      /\ meta' = meta
      /\ pos' = pos /\ current' = current /\ evidence' = evidence /\ todo' = todo
      /\ listed' = listed /\ metaCache' = metaCache /\ populated' = populated /\ due' = due
      /\ legible' = legible /\ unread' = unread
      /\ rows' = rows /\ amplifier' = amplifier /\ details' = details
      /\ UNCHANGED storage
  BY DEF Persist, Replace, Goto, caches, history
<1>2. active[s] \in Archive /\ ordered /\ meta[s] \in Nat /\ evidence[s] \subseteq RawFrame
  BY <1>1, ScanType DEF Place
<1>3. CatalogShape'
  <2>1. [meta |-> meta[s], members |-> evidence[s]] \in IndexRows
    BY <1>2 DEF IndexRows
  <2>2. index' \in [Archive -> IndexRows \union {Nothing}]
    BY <1>1, <1>2, <2>1 DEF CatalogShape, CatalogTypeOK
  <2> QED
    BY <1>1, <2>2 DEF CatalogShape, CatalogTypeOK, storage
<1>4. \A r \in Scanner \ {s} : Still(r)
  BY <1>1 DEF CatalogShape, CatalogTypeOK, Still
<1>5. Onward /\ Rows' /\ Indexed'
  BY <1>1, <1>2, SameExtents DEF Onward, Rows, Known, Indexed, CatalogShape, CatalogTypeOK, storage
<1>6. stage'[s] = "next" /\ active'[s] = Nothing
  BY <1>1 DEF CatalogShape, CatalogTypeOK
<1>7. Place(s)' /\ Extent(s)' /\ Caches(s)'
  BY <1>1, <1>6 DEF Place, Extent, Caches, Legible, Known, storage
<1>8. Progress(s)'
  <2>1. Ahead(s)' = Ahead(s)
    BY <1>1, <1>6 DEF Ahead, ToVisit, InArchive, InHand, storage
  <2>2. Behind(s)' = Behind(s)
    BY <1>1 DEF Behind
  <2> QED
    BY <1>1, <2>1, <2>2 DEF Progress
<1> QED
  BY <1>3, <1>4, <1>5, <1>7, <1>8, ScannerStep

LEMMA EnsureIndexStep ==
  ASSUME CatalogIInv, NEW s \in Scanner, EnsureIndex(s)
  PROVE  CatalogIInv'
<1> USE DEF CatalogIInv
<1>1. /\ stage[s] = "ensure"
      /\ \E l \in {"header", "build"} : stage' = [stage EXCEPT ![s] = l]
      /\ meta' = [meta EXCEPT ![s] = Written(active[s])] /\ active' = active
      /\ pos' = pos /\ current' = current /\ evidence' = evidence /\ todo' = todo
      /\ listed' = listed /\ metaCache' = metaCache /\ populated' = populated /\ due' = due
      /\ legible' = legible /\ unread' = unread
      /\ UNCHANGED <<storage, catalog>>
  BY DEF EnsureIndex, Stat, Goto, caches, history
<1>2. active[s] # Nothing /\ Written(active[s]) \in Nat
  BY <1>1, ScanType DEF Place
<1>3. CatalogShape'
  BY <1>1, <1>2 DEF CatalogShape, CatalogTypeOK, storage, catalog
<1>4. \A r \in Scanner \ {s} : Still(r)
  BY <1>1 DEF CatalogShape, CatalogTypeOK, Still
<1>5. stage'[s] \in {"header", "build"} /\ meta'[s] = Written(active[s])
  BY <1>1 DEF CatalogShape, CatalogTypeOK
<1>6. Place(s)' /\ Extent(s)' /\ Caches(s)'
  <2>1. Place(s)'
    BY <1>1, <1>2, <1>5 DEF Place, storage, catalog
  <2>2. Extent(s)'
    BY <1>1, <1>2, <1>5, ScanType, SameExtents DEF Place, Extent, storage, catalog
  <2>3. Caches(s)'
    BY <1>1, CachesKept DEF catalog
  <2> QED
    BY <2>1, <2>2, <2>3
<1>7. Progress(s)'
  <2>1. Ahead(s)' = Ahead(s)
    <3>1. Available(s)' = Available(s)
      BY <1>1, <1>2, ScanType, SameExtents DEF Available, Streamed, storage
    <3> QED
      BY <1>1, <1>5, <3>1 DEF Ahead, ToVisit, InArchive, InHand, storage
  <2>2. Behind(s)' = Behind(s)
    BY <1>1 DEF Behind, catalog
  <2> QED
    BY <1>1, <2>1, <2>2 DEF Progress
<1> QED
  BY <1>1, <1>3, <1>4, <1>6, <1>7, QuietStep

\* The archive may have grown since stat: then what is stored is not current.
LEMMA BuildIndexStep ==
  ASSUME CatalogIInv, NEW s \in Scanner, BuildIndex(s)
  PROVE  CatalogIInv'
<1> USE DEF CatalogIInv
<1> DEFINE a == active[s]
           new == [meta |-> meta[s], members |-> First(a, length[a])]
<1>1. /\ stage[s] = "build" /\ stage' = [stage EXCEPT ![s] = "header"]
      /\ index' = index \/ index' = [index EXCEPT ![a] = new]
      /\ rows' = rows /\ amplifier' = amplifier /\ details' = details
      /\ UNCHANGED <<storage, visit, caches, history>>
  BY DEF BuildIndex, Replace, Goto
<1>2. /\ a \in Archive /\ meta[s] \in Nat /\ length[a] \in Nat /\ meta[s] <= Written(a) /\ Written(a) \in Nat
      /\ First(a, length[a]) \subseteq RawFrame
  BY <1>1, ScanType, Extents, Prefix DEF Place, Extent
<1> HIDE DEF a
<1>3. CatalogShape'
  <2>1. new \in IndexRows
    BY <1>2 DEF IndexRows
  <2>2. index' \in [Archive -> IndexRows \union {Nothing}]
    <3> HIDE DEF new
    <3> QED
      BY <1>1, <1>2, <2>1 DEF CatalogShape, CatalogTypeOK
  <2> QED
    BY <1>1, <2>2 DEF CatalogShape, CatalogTypeOK, storage, visit, caches, history
<1>4. \A r \in Scanner \ {s} : Still(r)
  BY <1>1 DEF CatalogShape, CatalogTypeOK, Still, visit, caches, history
<1>5. Onward /\ Rows'
  BY <1>1, SameExtents DEF Onward, Rows, Known, CatalogShape, CatalogTypeOK, storage, history
<1>6. Indexed'
  <2>1. /\ index'[a] = index[a] \/ index'[a] = new
        /\ \A b \in Archive \ {a} : index'[b] = index[b]
    BY <1>1, <1>2 DEF CatalogShape, CatalogTypeOK
  <2>2. \A b \in Archive : First(b, length[b])' = First(b, length[b])
    BY <1>1 DEF First, storage
  <2> QED
    BY <1>1, <1>2, <2>1, <2>2, SameExtents DEF Indexed, storage
<1>7. stage'[s] = "header"
  BY <1>1 DEF CatalogShape, CatalogTypeOK
<1>8. Place(s)' /\ Extent(s)' /\ Caches(s)'
  BY <1>1, <1>7, ScanType, SameExtents DEF Place, Extent, Caches, Legible, Known, storage, visit, caches, history
<1>9. Progress(s)'
  <2>1. Ahead(s)' = Ahead(s)
    <3>1. Available(s)' = Available(s)
      BY <1>1, <1>2, SameExtents DEF Available, Streamed, storage, visit, a
    <3> QED
      BY <1>1, <1>7, <3>1 DEF Ahead, ToVisit, InArchive, InHand, storage, visit
  <2>2. Behind(s)' = Behind(s)
    BY <1>1 DEF Behind, caches
  <2> QED
    BY <1>1, <2>1, <2>2 DEF Progress, history
<1> QED
  BY <1>3, <1>4, <1>5, <1>6, <1>8, <1>9, ScannerStep

LEMMA ReadHeaderStep ==
  ASSUME CatalogIInv, NEW s \in Scanner, ReadHeader(s)
  PROVE  CatalogIInv'
<1> USE DEF CatalogIInv
<1>1. /\ stage[s] = "header" /\ stage' = [stage EXCEPT ![s] = "row"]
      /\ \E h \in BOOLEAN : legible' = [legible EXCEPT ![s] = h]
      /\ active' = active /\ unread' = unread
      /\ pos' = pos /\ current' = current /\ evidence' = evidence /\ todo' = todo /\ meta' = meta
      /\ listed' = listed /\ metaCache' = metaCache /\ populated' = populated /\ due' = due
      /\ UNCHANGED <<storage, catalog>>
  BY DEF ReadHeader, Readings, AtOffset, Goto, caches, history
<1>2. CatalogShape'
  BY <1>1 DEF CatalogShape, CatalogTypeOK, storage, catalog
<1>3. \A r \in Scanner \ {s} : Still(r)
  BY <1>1 DEF CatalogShape, CatalogTypeOK, Still
<1>4. stage'[s] = "row"
  BY <1>1 DEF CatalogShape, CatalogTypeOK
<1>5. Place(s)' /\ Extent(s)' /\ Caches(s)'
  BY <1>1, <1>4, ScanType, SameExtents DEF Place, Extent, Caches, Legible, Known, storage, catalog
<1>6. Progress(s)'
  <2>1. Ahead(s)' = Ahead(s)
    <3>1. active[s] \in Archive
      BY <1>1, ScanType DEF Place
    <3>2. Available(s)' = Available(s)
      BY <1>1, <3>1, SameExtents DEF Available, Streamed, storage
    <3> QED
      BY <1>1, <1>4, <3>2 DEF Ahead, ToVisit, InArchive, InHand, storage
  <2>2. Behind(s)' = Behind(s)
    BY <1>1 DEF Behind, catalog
  <2> QED
    BY <1>1, <2>1, <2>2 DEF Progress
<1> QED
  BY <1>1, <1>2, <1>3, <1>5, <1>6, QuietStep

\* What a frame is given as its amplifier is of a header if any frame of its
\* slot could only give that.
LEMMA InsertRowStep ==
  ASSUME CatalogIInv, NEW s \in Scanner, InsertRow(s)
  PROVE  CatalogIInv'
<1> USE DEF CatalogIInv
<1> DEFINE f == current[s]
<1>1. /\ stage[s] = "row"
      /\ details' = details /\ index' = index /\ populated' = populated
      /\ UNCHANGED <<storage, visit, due>>
  BY DEF InsertRow
<1>2. f \in RawFrame /\ SlotOf[f] \in Slot
  BY <1>1, CatalogAssumption DEF Place
<1>3. CASE f \in Ignored
  <2>1. /\ stage' = [stage EXCEPT ![s] = "next"] /\ rows' = rows /\ amplifier' = amplifier
        /\ metaCache' = metaCache /\ unread' = unread
    BY <1>3 DEF InsertRow, Goto
  <2>2. CatalogShape'
    BY <1>1, <2>1 DEF CatalogShape, CatalogTypeOK, storage, visit
  <2>3. \A r \in Scanner \ {s} : Still(r)
    BY <1>1, <2>1 DEF CatalogShape, CatalogTypeOK, Still, visit
  <2>4. stage'[s] = "next"
    BY <2>1 DEF CatalogShape, CatalogTypeOK
  <2>5. Place(s)' /\ Extent(s)' /\ Caches(s)'
    BY <1>1, <2>1, <2>4, ScanType, SameExtents DEF Place, Extent, Caches, Legible, Known, storage, visit
  <2>6. Progress(s)'
    <3>1. active[s] # Nothing => Available(s)' = Available(s)
      BY <1>1, ScanType, SameExtents DEF Available, Streamed, storage, visit
    <3>2. Ahead(s) \subseteq Ahead(s)' \union {f}
      BY <1>1, <2>4, <3>1 DEF Ahead, ToVisit, InArchive, InHand, storage, visit
    <3>3. Behind(s)' = Behind(s)
      BY <1>1, <2>1 DEF Behind
    <3> QED
      BY <1>1, <1>3, <3>2, <3>3 DEF Progress
  <2> QED
    BY <1>1, <2>1, <2>2, <2>3, <2>5, <2>6, QuietStep DEF catalog
<1>4. CASE f \notin Ignored
  <2> DEFINE id == Identity(s, f)
             n == IF Conflicts(f) THEN rows[f] ELSE rows[f] + 1
  <2>1. /\ stage' = [stage EXCEPT ![s] = "details"]
        /\ metaCache' = [metaCache EXCEPT ![s][SlotOf[f]] = id]
        /\ amplifier' = [amplifier EXCEPT ![f] = id]
        /\ rows' = [rows EXCEPT ![f] = n]
        /\ unread' = [unread EXCEPT ![s] = IF legible[s] THEN @ ELSE @ \union {f}]
    BY <1>4 DEF InsertRow, Goto
  <2>13. /\ unread' \in [Scanner -> SUBSET RawFrame]
         /\ unread[s] \subseteq unread'[s] /\ (legible[s] \/ f \in unread'[s])
         /\ \A r \in Scanner \ {s} : unread'[r] = unread[r]
    BY <1>2, <2>1 DEF CatalogShape, CatalogTypeOK
  <2>14. \A i : Known(i)' => Known(i)
    BY <2>13 DEF Known
  <2>15. \A e : Legible(s, e)' => Legible(s, e)
    BY <2>13 DEF Legible
  <2>2. /\ id \in {"madeUp", "ofHeader"} /\ (\A i \in {SlotOf[f]} : Known(i)' => id = "ofHeader")
        /\ n \in Nat /\ rows[f] <= n /\ n >= 1 /\ (f \notin Loose => n <= 1)
        /\ rows[f] \in Nat
    <3>1. metaCache[s][SlotOf[f]] \in {"none", "madeUp", "ofHeader"}
      BY <1>2, ScanType
    <3>2. id \in {"madeUp", "ofHeader"}
      BY <3>1 DEF Identity, Header
    <3>3. ASSUME NEW i \in {SlotOf[f]}, Known(i)' PROVE id = "ofHeader"
      <4>1. f \notin unread'[s] /\ metaCache[s][SlotOf[f]] # "madeUp"
        BY <1>2, <2>14, <3>3 DEF Known, Caches
      <4>2. legible[s]
        BY <2>13, <4>1
      <4> QED
        BY <3>1, <4>1, <4>2 DEF Identity, Header
    <3>4. rows[f] \in Nat /\ (f \notin Loose => rows[f] <= 1)
      BY <1>2 DEF Rows, CatalogShape, CatalogTypeOK
    <3>5. n \in Nat /\ rows[f] <= n /\ n >= 1 /\ (f \notin Loose => n <= 1)
      BY <3>4 DEF Conflicts
    <3> QED
      BY <3>2, <3>3, <3>4, <3>5
  <2> HIDE DEF id, n, f
  <2>3. /\ metaCache' \in [Scanner -> [Slot -> {"none", "madeUp", "ofHeader"}]]
        /\ \A i \in Slot : metaCache'[s][i] = IF i = SlotOf[f] THEN id ELSE metaCache[s][i]
        /\ \A r \in Scanner \ {s} : metaCache'[r] = metaCache[r]
    BY <1>2, <2>1, <2>2 DEF CatalogShape, CatalogTypeOK
  <2>4. /\ amplifier' \in [RawFrame -> {"none", "madeUp", "ofHeader"}]
        /\ rows' \in [RawFrame -> Nat]
        /\ amplifier'[f] = id /\ rows'[f] = n
        /\ \A g \in RawFrame \ {f} : amplifier'[g] = amplifier[g] /\ rows'[g] = rows[g]
    BY <1>2, <2>1, <2>2 DEF CatalogShape, CatalogTypeOK
  <2>5. CatalogShape'
    BY <1>1, <2>1, <2>3, <2>4, <2>13 DEF CatalogShape, CatalogTypeOK, storage, visit
  <2>6. \A r \in Scanner \ {s} : Still(r)
    BY <1>1, <2>1, <2>3, <2>13 DEF CatalogShape, CatalogTypeOK, Still, visit
  <2>7. Onward
    <3>1. \A g \in RawFrame : rows[g] \in Nat
      BY DEF CatalogShape, CatalogTypeOK
    <3>2. \A g \in RawFrame : rows[g] <= rows'[g]
      BY <2>2, <2>4, <3>1
    <3> QED
      BY <1>1, <2>13, <3>2, SameExtents DEF Onward, CatalogShape, CatalogTypeOK, storage
  <2>8. Rows' /\ Indexed'
    <3>1. Rows'
      BY <1>2, <2>2, <2>4, <2>14 DEF Rows
    <3> QED
      BY <1>1, <3>1, SameExtents DEF Indexed, storage
  <2>9. stage'[s] = "details"
    BY <2>1 DEF CatalogShape, CatalogTypeOK
  <2>10. Place(s)' /\ Extent(s)'
    BY <1>1, <1>2, <2>2, <2>4, <2>9, <2>13, ScanType, SameExtents DEF Place, Extent, storage, visit, f
  <2>11. Caches(s)'
    BY <1>1, <2>2, <2>3, <2>14, <2>15 DEF Caches
  <2>12. Progress(s)'
    <3>1. active[s] # Nothing => Available(s)' = Available(s)
      BY <1>1, ScanType, SameExtents DEF Available, Streamed, storage, visit
    <3>2. Ahead(s) = Ahead(s)'
      BY <1>1, <2>9, <3>1 DEF Ahead, ToVisit, InArchive, InHand, storage, visit
    <3>3. Behind(s) \subseteq Behind(s)'
      BY <1>1, <2>2, <2>4 DEF Behind
    <3> QED
      BY <1>1, <3>2, <3>3 DEF Progress
  <2> QED
    BY <2>5, <2>6, <2>7, <2>8, <2>10, <2>11, <2>12, ScannerStep
<1> QED
  BY <1>3, <1>4

LEMMA InsertDetailsStep ==
  ASSUME CatalogIInv, NEW s \in Scanner, InsertDetails(s)
  PROVE  CatalogIInv'
<1> USE DEF CatalogIInv
<1> DEFINE f == current[s]
           e == ExposureOf[f]
           new == IF e \in populated[s] \/ details[e] = "full" THEN details[e]
                  ELSE IF legible[s] THEN "full" ELSE "empty"
<1>1. /\ stage[s] = "details" /\ stage' = [stage EXCEPT ![s] = "next"]
      /\ details' = [details EXCEPT ![e] = new]
      /\ populated' = [populated EXCEPT ![s] = @ \union {e}]
      /\ rows' = rows /\ amplifier' = amplifier /\ index' = index /\ metaCache' = metaCache
      /\ UNCHANGED <<storage, visit, history>>
  BY DEF InsertDetails, Goto
<1>2. f \in RawFrame /\ e \in Exposure /\ rows[f] >= 1
  BY <1>1, CatalogAssumption DEF Place
<1>3. /\ new \in {"empty", "full"} /\ (details[e] = "full" => new = "full")
      /\ (Legible(s, e) => new = "full")
  <2>1. details[e] \in {"none", "empty", "full"}
    BY <1>2 DEF CatalogShape, CatalogTypeOK
  <2>2. Legible(s, e) => legible[s]
    BY <1>1, <1>2 DEF Legible, Place
  <2>3. e \in populated[s] => details[e] # "none" /\ (Legible(s, e) => details[e] = "full")
    BY DEF Caches
  <2> QED
    BY <2>1, <2>2, <2>3
<1> HIDE DEF new, e, f
<1>4. /\ details' \in [Exposure -> {"none", "empty", "full"}]
      /\ details'[e] = new /\ \A x \in Exposure \ {e} : details'[x] = details[x]
      /\ populated' \in [Scanner -> SUBSET Exposure]
      /\ populated'[s] = populated[s] \union {e}
      /\ \A r \in Scanner \ {s} : populated'[r] = populated[r]
  BY <1>1, <1>2, <1>3 DEF CatalogShape, CatalogTypeOK
<1>5. CatalogShape'
  BY <1>1, <1>4 DEF CatalogShape, CatalogTypeOK, storage, visit, history
<1>6. \A r \in Scanner \ {s} : Still(r)
  BY <1>1, <1>4 DEF CatalogShape, CatalogTypeOK, Still, visit, history
<1>7. Onward
  <2>1. \A x \in Exposure : /\ details[x] # "none" => details'[x] # "none"
                            /\ details[x] = "full" => details'[x] = "full"
    BY <1>3, <1>4
  <2> QED
    BY <1>1, <2>1, SameExtents DEF Onward, CatalogShape, CatalogTypeOK, storage, history
<1>8. Rows' /\ Indexed'
  BY <1>1, SameExtents DEF Rows, Known, Indexed, storage, history
<1>9. stage'[s] = "next"
  BY <1>1 DEF CatalogShape, CatalogTypeOK
<1>10. Place(s)' /\ Extent(s)'
  BY <1>1, <1>9, ScanType, SameExtents DEF Place, Extent, storage, visit, history
<1>11. Caches(s)'
  <2>1. populated[s] \subseteq Exposure
    BY ScanType
  <2> QED
    BY <1>1, <1>3, <1>4, <2>1 DEF Caches, Legible, Known, history
<1>12. Progress(s)'
  <2>1. active[s] # Nothing => Available(s)' = Available(s)
    BY <1>1, SameExtents, ScanType DEF Available, Streamed, storage, visit
  <2>2. Ahead(s) \subseteq Ahead(s)' \union {f}
    BY <1>1, <1>9, <2>1 DEF Ahead, ToVisit, InArchive, InHand, storage, visit, f
  <2>3. Behind(s) \union {f} \subseteq Behind(s)'
    BY <1>1, <1>2, <1>4 DEF Behind, e
  <2> QED
    BY <1>1, <2>2, <2>3 DEF Progress, history
<1> QED
  BY <1>5, <1>6, <1>7, <1>8, <1>10, <1>11, <1>12, ScannerStep

\* An archive that grows makes every index of it that was current an old one.
LEMMA GrowStep ==
  ASSUME CatalogIInv, NEW a \in Archive, Grow(a)
  PROVE  CatalogIInv'
<1> USE DEF CatalogIInv
<1>1. /\ length[a] < Len(Layout[a]) /\ torn' = [torn EXCEPT ![a] = ~@]
      /\ length' = [length EXCEPT ![a] = IF torn[a] THEN @ + 1 ELSE @]
      /\ ordered' = ordered /\ stage' = stage
      /\ UNCHANGED <<catalog, visit, caches, history>>
  BY DEF Grow
<1>2. \A b \in Archive : /\ length[b] \in Nat /\ Begun(b) \in Nat /\ Written(b) \in Nat
                         /\ Len(Layout[b]) \in Nat /\ torn[b] \in BOOLEAN
  BY Extents DEF CatalogShape, CatalogTypeOK
<1>3. /\ length' \in [Archive -> Nat] /\ torn' \in [Archive -> BOOLEAN]
      /\ \/ torn[a] /\ ~torn'[a] /\ length'[a] = length[a] + 1
         \/ ~torn[a] /\ torn'[a] /\ length'[a] = length[a]
      /\ \A b \in Archive \ {a} : length'[b] = length[b] /\ torn'[b] = torn[b]
  <2>1. length \in [Archive -> Nat] /\ torn \in [Archive -> BOOLEAN]
    BY DEF CatalogShape, CatalogTypeOK
  <2>2. /\ torn' \in [Archive -> BOOLEAN] /\ torn'[a] = ~torn[a]
        /\ \A b \in Archive \ {a} : torn'[b] = torn[b]
    BY <1>1, <2>1
  <2>3. \A n \in Nat : n + 1 \in Nat
    OBVIOUS
  <2>4. /\ length' \in [Archive -> Nat]
        /\ length'[a] = IF torn[a] THEN length[a] + 1 ELSE length[a]
        /\ \A b \in Archive \ {a} : length'[b] = length[b]
    BY <1>1, <2>1, <2>3
  <2> QED
    BY <2>1, <2>2, <2>4
<1>4. CatalogShape'
  <2>1. \A b \in Archive : length[b] \in 0..Len(Layout[b]) /\ (torn[b] => length[b] < Len(Layout[b]))
    BY DEF CatalogShape, CatalogTypeOK
  <2>2. length'[a] \in 0..Len(Layout[a]) /\ (torn'[a] => length'[a] < Len(Layout[a]))
    BY <1>1, <1>2, <1>3
  <2>3. \A b \in Archive : length'[b] \in 0..Len(Layout[b]) /\ (torn'[b] => length'[b] < Len(Layout[b]))
    BY <1>3, <2>1, <2>2
  <2> QED
    BY <1>1, <1>3, <2>3 DEF CatalogShape, CatalogTypeOK, catalog, visit, caches, history
<1>5. /\ length[a] <= length'[a] /\ Begun(a) <= Begun(a)' /\ Written(a)' = Written(a) + 1
      /\ \A b \in Archive \ {a} : /\ length'[b] = length[b] /\ Begun(b)' = Begun(b)
                                  /\ Written(b)' = Written(b)
  <2>1. length[a] <= length'[a] /\ Begun(a) <= Begun(a)' /\ Written(a)' = Written(a) + 1
    <3>1. CASE torn[a]
      <4>1. length'[a] = length[a] + 1 /\ ~torn'[a]
        BY <1>3, <3>1
      <4>2. Begun(a) = length[a] + 1 /\ Begun(a)' = length[a] + 1
        BY <1>2, <3>1, <4>1 DEF Begun
      <4> QED
        BY <1>2, <4>1, <4>2 DEF Written
    <3>2. CASE ~torn[a]
      <4>1. length'[a] = length[a] /\ torn'[a]
        BY <1>3, <3>2
      <4>2. Begun(a) = length[a] /\ Begun(a)' = length[a] + 1
        BY <1>2, <3>2, <4>1 DEF Begun
      <4> QED
        BY <1>2, <4>1, <4>2 DEF Written
    <3> QED
      BY <3>1, <3>2
  <2>2. \A b \in Archive \ {a} : /\ length'[b] = length[b] /\ Begun(b)' = Begun(b)
                                 /\ Written(b)' = Written(b)
    BY <1>3 DEF Begun, Written
  <2> QED
    BY <2>1, <2>2
<1>6. Onward
  <2>1. \A b \in Archive : length[b] <= length'[b] /\ Begun(b) <= Begun(b)' /\ Written(b) <= Written(b)'
    BY <1>2, <1>5
  <2> QED
    BY <1>1, <2>1 DEF Onward, CatalogShape, CatalogTypeOK, catalog, history
<1>7. \A r \in Scanner : Still(r)
  BY <1>1 DEF Still, visit, caches, history
<1>8. Rows'
  BY <1>1 DEF Rows, Known, catalog, history
<1>9. Indexed'
  <2> SUFFICES ASSUME ~ ordered, NEW b \in Archive, index[b] # Nothing
               PROVE  /\ index[b].meta <= Written(b)'
                      /\ index[b].meta = Written(b)' => index[b].members = First(b, length'[b])
    BY <1>1 DEF Indexed, First, catalog
  <2>1. index[b].meta \in Nat
    BY DEF CatalogShape, CatalogTypeOK, IndexRows
  <2>2. index[b].meta <= Written(b) /\ (index[b].meta = Written(b) => index[b].members = First(b, length[b]))
    BY DEF Indexed
  <2>3. CASE b = a
    BY <1>2, <1>5, <2>1, <2>2, <2>3
  <2>4. CASE b # a
    BY <1>5, <2>2, <2>4
  <2> QED
    BY <2>3, <2>4
<1> QED
  BY <1>4, <1>6, <1>7, <1>8, <1>9, StillKept

LEMMA ScanDiesStep ==
  ASSUME CatalogIInv, NEW s \in Scanner, ScanDies(s)
  PROVE  CatalogIInv'
<1>1. /\ stage' = [stage EXCEPT ![s] = "idle"] /\ active' = [active EXCEPT ![s] = Nothing]
      /\ todo' = todo /\ pos' = pos /\ listed' = listed /\ current' = current
      /\ evidence' = evidence
      /\ meta' = meta /\ metaCache' = metaCache /\ populated' = populated /\ due' = due
      /\ legible' = legible /\ unread' = unread
      /\ UNCHANGED <<storage, catalog>>
  BY DEF ScanDies, Goto, caches, history
<1> QED
  BY <1>1, IdleStep

\* The invariant that the theorems of the scans follow from.
THEOREM CatalogInvariance == CatalogSpec => []CatalogIInv
<1>1. CatalogIInv /\ [CatalogNext]_catalogVars => CatalogIInv'
  <2> SUFFICES ASSUME CatalogIInv, [CatalogNext]_catalogVars PROVE CatalogIInv'
    OBVIOUS
  <2>1. CASE UNCHANGED catalogVars
    <3>1. /\ UNCHANGED <<storage, catalog, visit, caches, history>> /\ stage' = stage
      BY <2>1 DEF catalogVars
    <3>2. CatalogShape'
      BY <3>1 DEF CatalogIInv, CatalogShape, CatalogTypeOK, storage, catalog, visit, caches, history
    <3>3. Rows' /\ Indexed' /\ Onward
      BY <3>1, SameExtents DEF CatalogIInv, Rows, Known, Indexed, Onward, CatalogShape, CatalogTypeOK,
                               storage, catalog, history
    <3>4. \A r \in Scanner : Still(r)
      BY <3>1 DEF Still, visit, caches, history
    <3> QED
      BY <3>2, <3>3, <3>4, StillKept DEF CatalogIInv
  <2>2. CASE CatalogNext
    BY <2>2, BeginStep, NextLooseStep, OpenArchiveStep, SkipArchiveStep, NextMemberStep,
       EndArchiveStep, TraversalRaisesStep, EndScanStep, StatAfterStep, PersistStep, EnsureIndexStep, BuildIndexStep,
       ReadHeaderStep, InsertRowStep,
       InsertDetailsStep, GrowStep, ScanDiesStep DEF CatalogNext
  <2> QED
    BY <2>1, <2>2
<1> QED
  BY CatalogInitIInv, <1>1, PTL DEF CatalogSpec

\* Type correctness of the raw registry and of every scan.
THEOREM CatalogTypeCorrect == CatalogSpec => []CatalogTypeOK
<1>1. CatalogIInv => CatalogTypeOK
  BY DEF CatalogIInv, CatalogShape
<1> QED
  BY <1>1, CatalogInvariance, PTL

\* What a scan that has ended had to register is behind it.
LEMMA EndedBehind ==
  ASSUME CatalogIInv, NEW s \in Scanner, Ended(s), NEW f \in due[s] \ Ignored
  PROVE  f \in RawFrame /\ rows[f] >= 1 /\ ExposureOf[f] \in populated[s]
<1>1. stage[s] = "done" /\ active[s] = Nothing /\ todo[s] = {}
  BY DEF CatalogIInv, Place, Ended
<1>2. Ahead(s) = {}
  BY <1>1 DEF Ahead, ToVisit, InArchive, InHand
<1> QED
  BY <1>1, <1>2 DEF CatalogIInv, Progress, Behind

\* A scan that ends has registered every frame that was there when it began,
\* in archives it did not pass over.
THEOREM ScanCompleteCorrect == CatalogSpec => []ScanComplete
<1>1. CatalogIInv => ScanComplete
  <2> SUFFICES ASSUME CatalogIInv, NEW s \in Scanner, Ended(s), NEW f \in due[s] \ Ignored
               PROVE  rows[f] >= 1 /\ details[ExposureOf[f]] # "none" /\ (f \notin Loose => rows[f] = 1)
    BY DEF ScanComplete
  <2>1. f \in RawFrame /\ rows[f] >= 1 /\ ExposureOf[f] \in populated[s]
    BY EndedBehind
  <2>2. rows[f] \in Nat /\ (f \notin Loose => rows[f] <= 1)
    BY <2>1 DEF CatalogIInv, CatalogShape, CatalogTypeOK, Rows
  <2>3. details[ExposureOf[f]] # "none"
    BY <2>1 DEF CatalogIInv, Caches
  <2> QED
    BY <2>1, <2>2, <2>3
<1> QED
  BY <1>1, CatalogInvariance, PTL

\* Its exposures have their details in full if it has read the headers of their
\* frames, its frames the amplifier of their header if every scan has.
THEOREM MetadataWholeCorrect == CatalogSpec => []MetadataWhole
<1>1. CatalogIInv => MetadataWhole
  <2> SUFFICES ASSUME CatalogIInv, NEW s \in Scanner, Ended(s), NEW f \in due[s] \ Ignored
               PROVE  /\ Legible(s, ExposureOf[f]) => details[ExposureOf[f]] = "full"
                      /\ Known(SlotOf[f]) => amplifier[f] = "ofHeader"
    BY DEF MetadataWhole, Legible, Known
  <2>1. f \in RawFrame /\ rows[f] >= 1 /\ ExposureOf[f] \in populated[s]
    BY EndedBehind
  <2>2. amplifier[f] \in {"none", "madeUp", "ofHeader"}
    BY <2>1 DEF CatalogIInv, CatalogShape, CatalogTypeOK
  <2> QED
    BY <2>1, <2>2 DEF CatalogIInv, Caches, Rows
<1> QED
  BY <1>1, CatalogInvariance, PTL

\* An index of ensure_tar_index that claims to be current lists all members.
THEOREM IndexCurrentCorrect == CatalogSpec => []IndexCurrent
<1>1. CatalogIInv => IndexCurrent
  BY DEF CatalogIInv, Indexed, IndexCurrent, Matches
<1> QED
  BY <1>1, CatalogInvariance, PTL

-----------------------------------------------------------------------------
(* What the cache holds                                                    *)

\* The sizes of the first frames, summed up.
Sums(w, s) ==
  w \in [0..Len(s) -> Int] /\ w[0] = 0 /\ \A i \in 1..Len(s) : w[i] = w[i - 1] + Size[s[i]]

LEMMA SumsUnique ==
  ASSUME NEW s \in Seq(Frame), NEW v, NEW w, Sums(v, s), Sums(w, s)
  PROVE  v = w
<1> USE DEF Sums
<1> DEFINE N == Len(s)
           Q == [i \in 0..N |-> v[i] = w[i]]
<1>1. N \in Nat /\ Size \in [Frame -> Nat] /\ \A i \in 1..N : s[i] \in Frame
  BY CacheAssumption
<1>2. Q[0]
  OBVIOUS
<1>3. ASSUME NEW i \in 1..N, Q[i - 1] PROVE Q[i]
  <2>1. i \in 0..N /\ i - 1 \in 0..N
    BY <1>1
  <2>2. v[i - 1] = w[i - 1]
    BY <1>3, <2>1
  <2>3. v[i] = w[i]
    BY <2>2
  <2> QED
    BY <2>1, <2>3
<1>4. Q \in [0..N -> BOOLEAN]
  OBVIOUS
<1>5. \A i \in 0..N : Q[i]
  <2> HIDE DEF Q, N
  <2> QED
    BY <1>1, <1>2, <1>3, <1>4, UpTo
<1>6. \A i \in 0..N : v[i] = w[i]
  BY <1>5
<1> QED
  BY <1>6

\* Weight is the last of these sums.
LEMMA WeightSums ==
  ASSUME NEW s \in Seq(Frame)
  PROVE  \E w : Sums(w, s) /\ Weight(s) = w[Len(s)]
<1> DEFINE N == Len(s)
           step == [n \in 1..N |-> [x \in Int |-> x + Size[s[n]]]]
           IsSum(g) == g = [i \in 0..N |-> IF i = 0 THEN 0 ELSE g[i - 1] + Size[s[i]]]
<1>1. N \in Nat /\ Size \in [Frame -> Nat] /\ \A i \in 1..N : s[i] \in Frame
  BY CacheAssumption
<1>2. step \in StepsIn(N, Int)
  BY <1>1 DEF StepsIn
<1>3. PICK f : Follows(f, N, Int, 0, step)
  <2>1. 0 \in Int
    OBVIOUS
  <2> HIDE DEF N, step
  <2> QED
    BY <1>1, <1>2, <2>1, Recursive
<1>4. f \in [0..N -> Int] /\ f[0] = 0 /\ \A n \in 1..N : f[n] = f[n - 1] + Size[s[n]]
  <2>1. f \in [0..N -> Int] /\ f[0] = 0 /\ \A n \in 1..N : f[n] = step[n][f[n - 1]]
    BY <1>3 DEF Follows
  <2>2. ASSUME NEW n \in 1..N PROVE f[n] = f[n - 1] + Size[s[n]]
    <3>1. f[n - 1] \in Int
      <4>1. n - 1 \in 0..N
        BY <1>1
      <4> HIDE DEF N, step
      <4> QED
        BY <2>1, <4>1
    <3> QED
      BY <2>1, <3>1
  <2> QED
    BY <2>1, <2>2
<1>5. IsSum(f)
  <2>1. ASSUME NEW n \in 0..N
        PROVE  f[n] = IF n = 0 THEN 0 ELSE f[n - 1] + Size[s[n]]
    <3>1. n # 0 => n \in 1..N
      BY <1>1
    <3> QED
      BY <1>4, <3>1
  <2> HIDE DEF N
  <2> QED
    BY <1>4, <2>1
<1>6. Weight(s) = (CHOOSE g : IsSum(g))[N]
  BY DEF Weight
<1> DEFINE w == CHOOSE g : IsSum(g)
<1>7. IsSum(w)
  <2> HIDE DEF IsSum
  <2> QED
    BY <1>5
<1>8. Sums(w, s)
  <2> HIDE DEF w, step
  <2>1. w = f
    <3> DEFINE Q == [i \in 0..N |-> w[i] = f[i]]
    <3>1. DOMAIN w = 0..N /\ \A i \in 0..N : w[i] = IF i = 0 THEN 0 ELSE w[i - 1] + Size[s[i]]
      BY <1>7
    <3>2. Q[0]
      <4>1. 0 \in 0..N
        BY <1>1
      <4> QED
        BY <3>1, <1>4, <4>1
    <3>3. ASSUME NEW i \in 1..N, Q[i - 1] PROVE Q[i]
      <4>1. i \in 0..N /\ i - 1 \in 0..N /\ i # 0
        BY <1>1
      <4>2. w[i - 1] = f[i - 1]
        BY <3>3, <4>1
      <4>3. w[i] = f[i]
        BY <3>1, <1>4, <4>1, <4>2
      <4> QED
        BY <4>1, <4>3
    <3>4. Q \in [0..N -> BOOLEAN]
      OBVIOUS
    <3>5. \A i \in 0..N : Q[i]
      <4> HIDE DEF Q, N
      <4> QED
        BY <1>1, <3>2, <3>3, <3>4, UpTo
    <3>6. w = [i \in 0..N |-> w[i]]
      BY <1>7
    <3> HIDE DEF N
    <3> QED
      BY <3>1, <3>5, <3>6, <1>4
  <2> QED
    BY <1>4, <2>1 DEF Sums
<1> QED
  BY <1>6, <1>8

LEMMA WeightOf ==
  ASSUME NEW s \in Seq(Frame), NEW w, Sums(w, s)
  PROVE  Weight(s) = w[Len(s)] /\ Weight(s) \in Int
<1>1. PICK v : Sums(v, s) /\ Weight(s) = v[Len(s)]
  BY WeightSums
<1>2. v = w /\ Len(s) \in Nat
  BY <1>1, SumsUnique
<1> QED
  BY <1>1, <1>2 DEF Sums

LEMMA WeightAppend ==
  ASSUME NEW s \in Seq(Frame), NEW f \in Frame
  PROVE  Weight(Append(s, f)) = Weight(s) + Size[f]
<1>1. PICK w : Sums(w, s) /\ Weight(s) = w[Len(s)]
  BY WeightSums
<1> DEFINE n == Len(s)
           t == Append(s, f)
           v == [i \in 0..(n + 1) |-> IF i = n + 1 THEN w[n] + Size[f] ELSE w[i]]
<1>2. n \in Nat /\ t \in Seq(Frame) /\ Len(t) = n + 1 /\ t[n + 1] = f
      /\ \A i \in 1..n : t[i] = s[i]
  OBVIOUS
<1>3. w \in [0..n -> Int] /\ w[0] = 0 /\ \A i \in 1..n : w[i] = w[i - 1] + Size[s[i]]
  BY <1>1 DEF Sums
<1>4. Size[f] \in Nat
  BY CacheAssumption
<1> HIDE DEF t
<1>5. Sums(v, t)
  <2>1. v \in [0..(n + 1) -> Int] /\ v[0] = 0
    BY <1>2, <1>3, <1>4
  <2>2. ASSUME NEW i \in 1..(n + 1) PROVE v[i] = v[i - 1] + Size[t[i]]
    <3>1. CASE i = n + 1
      BY <3>1, <1>2
    <3>2. CASE i # n + 1
      <4>1. i \in 1..n /\ i - 1 # n + 1 /\ i - 1 \in 0..(n + 1)
        BY <3>2, <1>2
      <4> QED
        BY <4>1, <1>2, <1>3, SMTT(40)
    <3> QED
      BY <3>1, <3>2
  <2> HIDE DEF v
  <2> QED
    BY <1>2, <2>1, <2>2 DEF Sums
<1>6. Weight(t) = v[n + 1]
  BY <1>2, <1>5, WeightOf
<1> QED
  BY <1>1, <1>2, <1>6 DEF t

Distinct(s) == \A i, j \in 1..Len(s) : s[i] = s[j] => i = j

\* The oldest frames and the others make up the weight.
LEMMA WeightSplit ==
  ASSUME NEW s \in Seq(Frame), NEW k \in 0..Len(s)
  PROVE  /\ SubSeq(s, 1, k) \in Seq(Frame) /\ SubSeq(s, k + 1, Len(s)) \in Seq(Frame)
         /\ Weight(s) = Weight(SubSeq(s, 1, k)) + Weight(SubSeq(s, k + 1, Len(s)))
         /\ Weight(SubSeq(s, 1, k)) \in Int /\ Weight(SubSeq(s, k + 1, Len(s))) \in Int
<1>1. PICK w : Sums(w, s) /\ Weight(s) = w[Len(s)]
  BY WeightSums
<1> DEFINE n == Len(s)
           a == SubSeq(s, 1, k)
           b == SubSeq(s, k + 1, n)
           u == [i \in 0..k |-> w[i]]
           v == [i \in 0..(n - k) |-> w[k + i] - w[k]]
<1>2. n \in Nat /\ k \in Nat /\ k <= n /\ n - k \in Nat
  OBVIOUS
<1>3. w \in [0..n -> Int] /\ w[0] = 0 /\ \A i \in 1..n : w[i] = w[i - 1] + Size[s[i]]
  BY <1>1 DEF Sums
<1>4. a \in Seq(Frame) /\ Len(a) = k /\ \A i \in 1..k : a[i] = s[i]
  BY <1>2
<1>5. b \in Seq(Frame) /\ Len(b) = n - k /\ \A i \in 1..(n - k) : b[i] = s[k + i]
  BY <1>2
<1> HIDE DEF a, b
<1>6. \A f \in Frame : Size[f] \in Nat
  BY CacheAssumption
<1>7. Sums(u, a)
  <2>1. u \in [0..k -> Int] /\ u[0] = 0
    BY <1>2, <1>3
  <2>2. ASSUME NEW i \in 1..k PROVE u[i] = u[i - 1] + Size[a[i]]
    BY <1>2, <1>3, <1>4
  <2> HIDE DEF u
  <2> QED
    BY <1>4, <2>1, <2>2 DEF Sums
<1>8. Sums(v, b)
  <2>1. \A i \in 0..(n - k) : k + i \in 0..n
    BY <1>2
  <2>2. v \in [0..(n - k) -> Int]
    BY <1>2, <1>3, <2>1
  <2>3. v[0] = 0
    BY <1>2, <1>3
  <2>4. ASSUME NEW i \in 1..(n - k) PROVE v[i] = v[i - 1] + Size[b[i]]
    <3>1. k + i \in 1..n /\ i \in 0..(n - k) /\ i - 1 \in 0..(n - k) /\ (k + i) - 1 = k + (i - 1)
      BY <1>2
    <3>2. w[k + i] = w[k + (i - 1)] + Size[s[k + i]]
      BY <1>3, <3>1
    <3>3. w[k] \in Int /\ w[k + (i - 1)] \in Int /\ Size[s[k + i]] \in Nat
      BY <1>2, <1>3, <1>6, <3>1
    <3> QED
      BY <1>5, <3>1, <3>2, <3>3
  <2> HIDE DEF v
  <2> QED
    BY <1>5, <2>2, <2>3, <2>4 DEF Sums
<1>9. Weight(a) = w[k] /\ Weight(a) \in Int
  BY <1>2, <1>4, <1>7, WeightOf
<1>10. Weight(b) = v[n - k] /\ Weight(b) \in Int
  BY <1>2, <1>5, <1>8, WeightOf
<1>11. v[n - k] = w[n] - w[k]
  BY <1>2
<1> QED
  BY <1>1, <1>2, <1>3, <1>4, <1>5, <1>9, <1>10, <1>11, SMTT(40) DEF a, b

\* A frame that is moved to the end has one entry, and what is held otherwise
\* stays.
LEMMA LatestKeeps ==
  ASSUME NEW s \in Seq(Frame), Distinct(s), NEW f \in Frame
  PROVE  /\ Latest(s, f) \in Seq(Frame) /\ Distinct(Latest(s, f))
         /\ Weight(Latest(s, f)) =
              IF \E j \in 1..Len(s) : s[j] = f THEN Weight(s) ELSE Weight(s) + Size[f]
<1> DEFINE n == Len(s)
           t == Latest(s, f)
<1>1. n \in Nat /\ \A j \in 1..n : s[j] \in Frame
  OBVIOUS
<1>2. CASE \A j \in 1..n : s[j] # f
  <2>1. t = Append(s, f)
    BY <1>2 DEF Latest
  <2>2. Distinct(Append(s, f))
    BY <1>1, <1>2 DEF Distinct
  <2> QED
    BY <1>2, <2>1, <2>2, WeightAppend
<1>3. CASE \E j \in 1..n : s[j] = f
  <2>1. PICK i \in 1..n :
          /\ s[i] = f
          /\ t = [j \in 1..n |-> IF j < i THEN s[j] ELSE IF j < n THEN s[j + 1] ELSE f]
    BY <1>3 DEF Latest
  <2>2. t \in Seq(Frame) /\ Len(t) = n
    <3>1. \A j \in 1..n : j < n => j + 1 \in 1..n
      BY <1>1
    <3>2. t \in [1..n -> Frame]
      BY <1>1, <2>1, <3>1
    <3> HIDE DEF t
    <3> QED
      BY <1>1, <3>2
  <2> HIDE DEF t
  <2>3. Distinct(t)
    BY <1>1, <2>1, <2>2 DEF Distinct
  <2>4. PICK w : Sums(w, s) /\ Weight(s) = w[n]
    BY WeightSums
  <2>5. w \in [0..n -> Int] /\ w[0] = 0 /\ \A j \in 1..n : w[j] = w[j - 1] + Size[s[j]]
    BY <2>4 DEF Sums
  <2>6. \A g \in Frame : Size[g] \in Nat
    BY CacheAssumption
  <2> DEFINE v == [j \in 0..n |-> IF j < i THEN w[j] ELSE IF j < n THEN w[j + 1] - Size[f]
                                  ELSE w[n]]
  <2>7. Sums(v, t)
    <3>1. v \in [0..n -> Int] /\ v[0] = 0
      BY <1>1, <2>1, <2>5, <2>6
    <3>2. ASSUME NEW j \in 1..n PROVE v[j] = v[j - 1] + Size[t[j]]
      <4>1. j \in 0..n /\ j - 1 \in 0..n /\ (j < n => j + 1 \in 1..n /\ j + 1 \in 0..n)
        BY <1>1
      <4>2. w[j] = w[j - 1] + Size[s[j]] /\ w[j] \in Int /\ w[j - 1] \in Int /\ Size[s[j]] \in Nat
        BY <1>1, <2>5, <2>6, <4>1
      <4>3. j < n => w[j + 1] = w[j] + Size[s[j + 1]] /\ w[j + 1] \in Int /\ Size[s[j + 1]] \in Nat
        <5> SUFFICES ASSUME j < n PROVE w[j + 1] = w[j] + Size[s[j + 1]] /\ w[j + 1] \in Int /\ Size[s[j + 1]] \in Nat
          OBVIOUS
        <5>1. j + 1 \in 1..n /\ (j + 1) - 1 = j
          BY <4>1
        <5> QED
          BY <1>1, <2>5, <2>6, <4>1, <5>1
      <4>4. Size[f] \in Nat /\ i \in Nat
        BY <2>6, <1>1
      <4>5. CASE j < i
        BY <4>1, <4>2, <4>5, <2>1, <1>1
      <4>6. CASE j = i /\ j < n
        BY <4>1, <4>2, <4>3, <4>4, <4>6, <2>1, <1>1, SMTT(40)
      <4>7. CASE j = i /\ j = n
        BY <4>1, <4>2, <4>4, <4>7, <2>1, <1>1
      <4>8. CASE j > i /\ j < n
        <5>1. v[j] = w[j + 1] - Size[f] /\ v[j - 1] = w[j] - Size[f] /\ t[j] = s[j + 1]
          BY <4>1, <4>8, <2>1, <1>1
        <5> QED
          BY <4>2, <4>3, <4>4, <4>8, <5>1
      <4>9. CASE j > i /\ j = n
        <5>1. v[j] = w[n] /\ v[j - 1] = w[n] - Size[f] /\ t[j] = f
          BY <4>1, <4>9, <2>1, <1>1
        <5> QED
          BY <4>2, <4>4, <4>9, <5>1
      <4> QED
        BY <4>5, <4>6, <4>7, <4>8, <4>9, <4>4, <1>1
    <3> HIDE DEF v
    <3> QED
      BY <2>2, <3>1, <3>2 DEF Sums
  <2>8. Weight(t) = v[n]
    BY <2>2, <2>7, WeightOf
  <2>9. v[n] = w[n]
    BY <1>1, <2>1
  <2> QED
    BY <1>3, <2>2, <2>3, <2>4, <2>8, <2>9 DEF t
<1> QED
  BY <1>2, <1>3

\* Eviction stops, and then the counter fits or nothing is held.
LEMMA VictimsOf ==
  ASSUME NEW s \in Seq(Frame), NEW counted \in Int
  PROVE  /\ Victims(s, counted) \in 0..Len(s)
         /\ \/ counted - Weight(SubSeq(s, 1, Victims(s, counted))) <= Limit
            \/ Victims(s, counted) = Len(s)
<1> DEFINE n == Len(s)
           Fits(k) == counted - Weight(SubSeq(s, 1, k)) <= Limit
           T == {k \in 0..n : Fits(k) \/ k = n}
<1>1. n \in T /\ T \in SUBSET Nat
  OBVIOUS
<1>2. PICK k \in T : \A j \in T : k <= j
  <2> HIDE DEF T
  <2> QED
    BY <1>1, LeastNatural
<1>3. k \in 0..n /\ (Fits(k) \/ k = n)
  OBVIOUS
<1>4. \A j \in 0..n : Weight(SubSeq(s, 1, j)) \in Int
  BY WeightSplit
<1>5. ASSUME NEW j \in 0..(k - 1) PROVE counted - Weight(SubSeq(s, 1, j)) > Limit
  <2>1. j \in 0..n /\ j \notin T
    BY <1>2, <1>3
  <2>2. ~ Fits(j)
    BY <2>1
  <2> QED
    BY <1>4, <2>1, <2>2, CacheAssumption
<1> HIDE DEF T
<1> QED
  BY <1>3, <1>5 DEF Victims

-----------------------------------------------------------------------------
(* The calls of load                                                       *)

\* A registered Event belongs to a thread that reads its frame.
EventsHeld ==
  \A f \in Frame : inflight[f] # NoReader => pc[inflight[f]] = "read" /\ wanted[inflight[f]] = f

\* A thread waits for a registered Event.
WaitersServed == \A r \in Reader : pc[r] = "wait" => inflight[wanted[r]] # NoReader

CallsInv == CacheTypeOK /\ EventsHeld /\ WaitersServed

-----------------------------------------------------------------------------
LEMMA InitCallsInv == CacheInit => CallsInv
<1> SUFFICES ASSUME CacheInit PROVE CallsInv
  OBVIOUS
<1>1. (CHOOSE f \in Frame : TRUE) \in Frame
  BY CacheAssumption
<1>2. wanted \in [Reader -> Frame] /\ loads \in 0..MaxLoads
  BY <1>1, CacheAssumption DEF CacheInit
<1>3. CacheTypeOK
  BY <1>2 DEF CacheInit, CacheTypeOK
<1> QED
  BY <1>3 DEF CacheInit, CallsInv, EventsHeld, WaitersServed

\* A load is over: its Event, if there is one, is gone with its waiters.
LEMMA ReleaseStep ==
  ASSUME CallsInv, NEW r \in Reader, pc[r] = "read", Release(r, wanted[r]), wanted' = wanted
  PROVE  /\ inflight' \in [Frame -> Reader \union {NoReader}]
         /\ pc' \in [Reader -> {"idle", "read", "wait", "woken"}]
         /\ EventsHeld' /\ WaitersServed'
<1> USE DEF CallsInv, CacheTypeOK, Release
<1>1. /\ inflight' \in [Frame -> Reader \union {NoReader}]
      /\ pc' \in [Reader -> {"idle", "read", "wait", "woken"}]
  OBVIOUS
<1>2. EventsHeld'
  <2> SUFFICES ASSUME NEW f \in Frame, inflight'[f] # NoReader
               PROVE  pc'[inflight'[f]] = "read" /\ wanted'[inflight'[f]] = f
    BY DEF EventsHeld
  <2>1. f # wanted[r] /\ inflight'[f] = inflight[f] /\ inflight[f] \in Reader
    OBVIOUS
  <2>2. pc[inflight[f]] = "read" /\ wanted[inflight[f]] = f
    BY <2>1 DEF EventsHeld
  <2> QED
    BY <2>1, <2>2
<1>3. WaitersServed'
  BY DEF WaitersServed
<1> QED
  BY <1>1, <1>2, <1>3

\* The three answers of the first block under the lock.
LEMMA AskStep ==
  ASSUME CallsInv, NEW r \in Reader, NEW f \in Frame, Ask(r, f)
  PROVE  CallsInv'
<1> USE DEF CallsInv, CacheTypeOK
<1>1. /\ pc[r] = "idle" /\ loads < MaxLoads /\ loads' = loads + 1
      /\ wanted' = [wanted EXCEPT ![r] = f]
      /\ cleared' = cleared
  BY DEF Ask
<1>2. loads' \in 0..MaxLoads
  BY <1>1, CacheAssumption
<1>3. \A g \in Frame : inflight[g] # r
  BY <1>1, CacheAssumption DEF EventsHeld
<1>4. CASE pc' = pc /\ inflight' = inflight
  BY <1>1, <1>2, <1>3, <1>4 DEF EventsHeld, WaitersServed
<1>5. CASE /\ inflight[f] = NoReader /\ inflight' = [inflight EXCEPT ![f] = r]
           /\ pc' = [pc EXCEPT ![r] = "read"]
  <2>1. CacheTypeOK'
    BY <1>1, <1>2, <1>5
  <2>2. EventsHeld'
    BY <1>1, <1>3, <1>5 DEF EventsHeld
  <2>3. WaitersServed'
    BY <1>1, <1>5, CacheAssumption DEF WaitersServed
  <2> QED
    BY <2>1, <2>2, <2>3
<1>6. CASE /\ inflight[f] # NoReader /\ pc' = [pc EXCEPT ![r] = "wait"]
           /\ inflight' = inflight
  <2>1. CacheTypeOK'
    BY <1>1, <1>2, <1>6
  <2>2. EventsHeld' /\ WaitersServed'
    BY <1>1, <1>3, <1>6 DEF EventsHeld, WaitersServed
  <2> QED
    BY <2>1, <2>2
<1> QED
  BY <1>4, <1>5, <1>6 DEF Ask

LEMMA LookAgainStep ==
  ASSUME CallsInv, NEW r \in Reader, LookAgain(r)
  PROVE  CallsInv'
<1> USE DEF CallsInv, CacheTypeOK, LookAgain, held, calls
<1>1. pc[r] = "woken" /\ pc' \in {[pc EXCEPT ![r] = "idle"], [pc EXCEPT ![r] = "read"]}
  OBVIOUS
<1>2. CacheTypeOK'
  BY <1>1
<1>3. EventsHeld' /\ WaitersServed'
  BY <1>1 DEF EventsHeld, WaitersServed
<1> QED
  BY <1>2, <1>3

LEMMA ReadFailsStep ==
  ASSUME CallsInv, NEW r \in Reader, ReadFails(r)
  PROVE  CallsInv'
BY ReleaseStep DEF CallsInv, CacheTypeOK, ReadFails, held, calls

LEMMA ReadDoneStep ==
  ASSUME CallsInv, NEW r \in Reader, ReadDone(r)
  PROVE  CallsInv'
BY ReleaseStep DEF CallsInv, CacheTypeOK, ReadDone, calls

LEMMA ClearRunStep ==
  ASSUME CallsInv, ClearRun
  PROVE  CallsInv'
BY DEF CallsInv, CacheTypeOK, EventsHeld, WaitersServed, ClearRun

\* What is held: a frame once, no more than is counted, no more than the limit.
HeldInv ==
  /\ cache \in Seq(Frame) /\ Distinct(cache)
  /\ bytes \in Int
  /\ Weight(cache) <= bytes /\ Weight(cache) <= Limit

LEMMA WeightEmpty == <<>> \in Seq(Frame) /\ Distinct(<<>>) /\ Weight(<<>>) = 0
<1> DEFINE w == [i \in 0..0 |-> 0]
<1>1. <<>> \in Seq(Frame) /\ Len(<<>>) = 0
  OBVIOUS
<1>2. w \in [0..0 -> Int] /\ w[0] = 0
  OBVIOUS
<1>3. Sums(w, <<>>)
  <2> HIDE DEF w
  <2> QED
    BY <1>1, <1>2 DEF Sums
<1> HIDE DEF w
<1>4. Weight(<<>>) = w[0]
  BY <1>1, <1>3, WeightOf
<1> QED
  BY <1>1, <1>2, <1>4 DEF Distinct

LEMMA InsertKeeps ==
  ASSUME HeldInv, NEW f \in Frame, Insert(f)
  PROVE  HeldInv'
<1>1. CASE Size[f] > Limit
  BY <1>1 DEF HeldInv, Insert, held
<1>2. CASE ~ (Size[f] > Limit)
  <2> DEFINE frames  == Latest(cache, f)
             counted == bytes + Size[f]
             k       == Victims(frames, counted)
             gone    == SubSeq(frames, 1, k)
             rest    == SubSeq(frames, k + 1, Len(frames))
  <2>1. cache' = rest /\ bytes' = counted - Weight(gone)
    BY <1>2 DEF Insert
  <2>2. /\ frames \in Seq(Frame) /\ Distinct(frames) /\ counted \in Int
        /\ Weight(frames) <= counted
    <3>1. Size[f] \in Nat /\ Weight(cache) \in Int /\ bytes \in Int
      <4>1. Weight(cache) \in Int
        BY WeightSums, WeightOf DEF HeldInv
      <4> QED
        BY <4>1, CacheAssumption DEF HeldInv
    <3>2. /\ frames \in Seq(Frame) /\ Distinct(frames)
          /\ Weight(frames) = Weight(cache) \/ Weight(frames) = Weight(cache) + Size[f]
      BY LatestKeeps DEF HeldInv
    <3> QED
      BY <3>1, <3>2 DEF HeldInv
  <2> HIDE DEF frames, counted
  <2>3. k \in 0..Len(frames) /\ (counted - Weight(gone) <= Limit \/ k = Len(frames))
    BY <2>2, VictimsOf
  <2> HIDE DEF k
  <2>4. /\ gone \in Seq(Frame) /\ rest \in Seq(Frame)
        /\ Weight(frames) = Weight(gone) + Weight(rest)
        /\ Weight(gone) \in Int /\ Weight(rest) \in Int
    BY <2>2, <2>3, WeightSplit
  <2>5. Distinct(rest)
    <3>1. Len(rest) = Len(frames) - k /\ \A i \in 1..Len(rest) : rest[i] = frames[k + i]
      BY <2>2, <2>3
    <3> HIDE DEF rest
    <3> QED
      BY <2>2, <2>3, <3>1 DEF Distinct
  <2>6. k = Len(frames) => rest = <<>>
    BY <2>2, <2>3
  <2> HIDE DEF rest, gone
  <2>7. Weight(rest) <= counted - Weight(gone)
    BY <2>2, <2>4
  <2>8. Weight(rest) <= Limit
    <3>1. CASE counted - Weight(gone) <= Limit
      BY <2>2, <2>4, <2>7, <3>1, CacheAssumption
    <3>2. CASE k = Len(frames)
      BY <2>6, <3>2, WeightEmpty, CacheAssumption
    <3> QED
      BY <2>3, <3>1, <3>2
  <2> QED
    BY <2>1, <2>2, <2>4, <2>5, <2>7, <2>8 DEF HeldInv
<1> QED
  BY <1>1, <1>2

LEMMA AskKeeps ==
  ASSUME HeldInv, NEW r \in Reader, NEW f \in Frame, Ask(r, f)
  PROVE  HeldInv'
<1>1. bytes' = bytes /\ (cache' = cache \/ (f \in Cached /\ cache' = Latest(cache, f)))
  BY DEF Ask
<1>2. CASE cache' = cache
  BY <1>1, <1>2 DEF HeldInv
<1>3. CASE f \in Cached /\ cache' = Latest(cache, f)
  <2>1. \E j \in 1..Len(cache) : cache[j] = f
    BY <1>3 DEF Cached
  <2>2. /\ Latest(cache, f) \in Seq(Frame) /\ Distinct(Latest(cache, f))
        /\ Weight(Latest(cache, f)) = Weight(cache)
    BY <2>1, LatestKeeps DEF HeldInv
  <2> QED
    BY <1>1, <1>3, <2>2 DEF HeldInv
<1> QED
  BY <1>1, <1>2, <1>3

CacheIInv == CallsInv /\ HeldInv

LEMMA CacheInitIInv == CacheInit => CacheIInv
BY InitCallsInv, WeightEmpty, CacheAssumption DEF CacheInit, CacheIInv, HeldInv

LEMMA CacheNextIInv == CacheIInv /\ [CacheNext]_cacheVars => CacheIInv'
<1> SUFFICES ASSUME CacheIInv, [CacheNext]_cacheVars PROVE CacheIInv'
  OBVIOUS
<1>1. CASE UNCHANGED cacheVars
  BY <1>1 DEF CacheIInv, CallsInv, CacheTypeOK, EventsHeld, WaitersServed, HeldInv, cacheVars, held, calls
<1>2. ASSUME NEW r \in Reader, NEW f \in Frame, Ask(r, f) PROVE CacheIInv'
  BY <1>2, AskStep, AskKeeps DEF CacheIInv
<1>3. ASSUME NEW r \in Reader, Continue(r) PROVE CacheIInv'
  <2>1. CASE LookAgain(r)
    BY <2>1, LookAgainStep DEF CacheIInv, HeldInv, LookAgain, held
  <2>2. CASE ReadFails(r)
    BY <2>2, ReadFailsStep DEF CacheIInv, HeldInv, ReadFails, held
  <2>3. CASE ReadDone(r)
    <3>1. wanted[r] \in Frame
      BY DEF CacheIInv, CallsInv, CacheTypeOK
    <3>2. Insert(wanted[r])
      BY <2>3 DEF ReadDone
    <3> QED
      BY <2>3, <3>1, <3>2, ReadDoneStep, InsertKeeps DEF CacheIInv
  <2> QED
    BY <1>3, <2>1, <2>2, <2>3 DEF Continue
<1>4. CASE ClearRun
  BY <1>4, ClearRunStep, WeightEmpty, CacheAssumption DEF CacheIInv, HeldInv, ClearRun
<1> QED
  BY <1>1, <1>2, <1>3, <1>4 DEF CacheNext

LEMMA HeldBounded ==
  ASSUME HeldInv PROVE CacheBounded
<1> DEFINE n == Len(cache)
<1>1. n \in Nat /\ cache \in [1..n -> Frame] /\ cache \in Seq(Frame) /\ Distinct(cache)
  BY DEF HeldInv
<1>2. cache \in Bijection(1..n, Cached)
  BY <1>1 DEF Bijection, Injection, Surjection, IsInjective, Distinct, Cached
<1>3. IsFiniteSet(1..n) /\ Cardinality(1..n) = n
  BY <1>1, FS_Interval
<1>4. Cardinality(Cached) = n
  <2> HIDE DEF n
  <2> QED
    BY <1>2, <1>3, FS_Bijection DEF ExistsBijection
<1> QED
  BY <1>1, <1>4 DEF HeldInv, CacheBounded


-----------------------------------------------------------------------------
(* RunCaches                                                               *)

\* Tables with every position once.
Orders ==
  {table \in [1..Fibers -> 1..Fibers] : \A p \in 1..Fibers : \E q \in 1..Fibers : table[q] = p}

LEMMA FibersType == Fibers \in Nat /\ PerAmp \in Nat /\ PerAmp # 0 /\ Len(Amps) \in Nat
BY GeometryAssumption DEF Fibers

LEMMA ContentsOrdered ==
  ASSUME NEW t \in Tables
  PROVE  Contents[t] \in Orders
<1> DEFINE S == 1..Fibers
<1>1. Contents[t] \in Injection(S, S)
  <2>1. Contents[t] \in [S -> S] /\ \A i, j \in S : Contents[t][i] = Contents[t][j] => i = j
    BY GeometryAssumption
  <2> HIDE DEF S
  <2> QED
    BY <2>1 DEF Injection, IsInjective
<1>2. IsFiniteSet(S)
  BY FibersType, FS_Interval
<1>3. Contents[t] \in Surjection(S, S)
  <2> HIDE DEF S
  <2> QED
    BY <1>1, <1>2, FS_Injection
<1> QED
  BY <1>3 DEF Surjection, Orders

LEMMA ReversedOrdered ==
  ASSUME NEW table \in Orders, NEW u \in Ifu
  PROVE  Reversed(table, u) \in Orders
<1>1. CASE Reversals[u] = <<>>
  BY <1>1 DEF Reversed
<1>2. CASE Reversals[u] # <<>>
  <2>1. PICK low \in 1..Fibers, high \in 1..Fibers : Reversals[u] = <<low, high>>
    <3>1. Reversals[u] \in {<<>>} \union ((1..Fibers) \X (1..Fibers))
      BY GeometryAssumption
    <3>2. Reversals[u] \in (1..Fibers) \X (1..Fibers)
      BY <1>2, <3>1, Zenon
    <3> QED
      BY <3>2
  <2>2. table \in [1..Fibers -> 1..Fibers] /\ \A p \in 1..Fibers : \E q \in 1..Fibers : table[q] = p
    BY DEF Orders
  <2> DEFINE turned == [i \in 1..Fibers |->
                          IF i \in low..high THEN table[low + high - i] ELSE table[i]]
  <2>3. Reversed(table, u) = turned
    BY <1>2, <2>1, <2>2 DEF Reversed
  <2>4. \A i \in low..high : low + high - i \in low..high /\ i \in 1..Fibers
                             /\ low + high - (low + high - i) = i
    BY FibersType
  <2>5. turned \in [1..Fibers -> 1..Fibers]
    BY <2>2, <2>4
  <2>6. ASSUME NEW p \in 1..Fibers PROVE \E q \in 1..Fibers : turned[q] = p
    <3>1. PICK q \in 1..Fibers : table[q] = p
      BY <2>2
    <3>2. CASE q \in low..high
      <4>1. low + high - q \in 1..Fibers /\ turned[low + high - q] = p
        BY <2>4, <3>1, <3>2
      <4> QED
        BY <4>1
    <3>3. CASE q \notin low..high
      BY <3>1, <3>3
    <3> QED
      BY <3>2, <3>3
  <2> HIDE DEF turned
  <2> QED
    BY <2>3, <2>5, <2>6 DEF Orders
<1> QED
  BY <1>1, <1>2

LEMMA SwappedOrdered ==
  ASSUME NEW table \in Orders, NEW x \in 1..Fibers, NEW y \in 1..Fibers
  PROVE  Swapped(table, <<x, y>>) \in Orders
<1>1. table \in [1..Fibers -> 1..Fibers] /\ \A p \in 1..Fibers : \E q \in 1..Fibers : table[q] = p
  BY DEF Orders
<1> DEFINE swap == Swapped(table, <<x, y>>)
<1>2. /\ swap \in [1..Fibers -> 1..Fibers] /\ swap[x] = table[y] /\ swap[y] = table[x]
      /\ \A q \in 1..Fibers : q # x /\ q # y => swap[q] = table[q]
  BY <1>1 DEF Swapped
<1> HIDE DEF swap
<1>3. ASSUME NEW p \in 1..Fibers PROVE \E q \in 1..Fibers : swap[q] = p
  <2>1. PICK q \in 1..Fibers : table[q] = p
    BY <1>1
  <2>2. CASE q = x
    BY <1>2, <2>1, <2>2
  <2>3. CASE q = y
    BY <1>2, <2>1, <2>3
  <2>4. CASE q # x /\ q # y
    BY <1>2, <2>1, <2>4
  <2> QED
    BY <2>2, <2>3, <2>4
<1> QED
  BY <1>2, <1>3 DEF Orders, swap

LEMMA CorrectedOrdered ==
  ASSUME NEW table \in Orders, NEW u \in Ifu
  PROVE  Corrected(table, u) \in Orders
<1> DEFINE N == Len(Swaps[u])
           first == Reversed(table, u)
           step == [n \in 1..N |-> [o \in Orders |-> Swapped(o, Swaps[u][n])]]
           IsAfter(g) ==
             g = [n \in 0..N |-> IF n = 0 THEN Reversed(table, u)
                                 ELSE Swapped(g[n - 1], Swaps[u][n])]
<1>1. N \in Nat /\ \A n \in 1..N : Swaps[u][n] \in (1..Fibers) \X (1..Fibers)
  BY GeometryAssumption
<1>2. first \in Orders
  BY ReversedOrdered
<1>3. ASSUME NEW n \in 1..N, NEW o \in Orders PROVE Swapped(o, Swaps[u][n]) \in Orders
  <2>1. PICK x \in 1..Fibers, y \in 1..Fibers : Swaps[u][n] = <<x, y>>
    BY <1>1
  <2> QED
    BY <2>1, SwappedOrdered
<1>4. step \in StepsIn(N, Orders)
  BY <1>3 DEF StepsIn
<1>5. PICK f : Follows(f, N, Orders, first, step)
  <2> HIDE DEF N, step, first
  <2> QED
    BY <1>1, <1>2, <1>4, Recursive
<1>6. f \in [0..N -> Orders] /\ f[0] = first /\ \A n \in 1..N : f[n] = step[n][f[n - 1]]
  BY <1>5 DEF Follows
<1>7. IsAfter(f)
  <2>1. ASSUME NEW n \in 0..N
        PROVE  f[n] = IF n = 0 THEN Reversed(table, u) ELSE Swapped(f[n - 1], Swaps[u][n])
    <3>1. CASE n = 0
      BY <1>6, <3>1
    <3>2. CASE n # 0
      <4>1. n \in 1..N /\ n - 1 \in 0..N
        <5> HIDE DEF N
        <5> QED
          BY <1>1, <3>2
      <4>2. f[n - 1] \in Orders
        <5> HIDE DEF N, step
        <5> QED
          BY <1>6, <4>1
      <4>3. f[n] = step[n][f[n - 1]]
        <5> HIDE DEF N, step
        <5> QED
          BY <1>6, <4>1
      <4>4. f[n] = Swapped(f[n - 1], Swaps[u][n])
        <5> HIDE DEF N
        <5> QED
          BY <4>1, <4>2, <4>3
      <4> QED
        BY <3>2, <4>4
    <3> QED
      BY <3>1, <3>2
  <2> HIDE DEF N, step, first
  <2> QED
    BY <1>6, <2>1
<1>8. Corrected(table, u) = (CHOOSE g : IsAfter(g))[N]
  BY DEF Corrected
<1> DEFINE g == CHOOSE g : IsAfter(g)
<1>9. IsAfter(g)
  <2> HIDE DEF IsAfter
  <2> QED
    BY <1>7
<1>10. \A n \in 0..N : g[n] \in Orders
  <2>1. \A n \in 0..N : g[n] = IF n = 0 THEN Reversed(table, u) ELSE Swapped(g[n - 1], Swaps[u][n])
    <3> HIDE DEF g, N
    <3> QED
      BY <1>9
  <2> HIDE DEF g
  <2> DEFINE Q == [n \in 0..N |-> g[n] \in Orders]
  <2>2. Q[0]
    <3>1. 0 \in 0..N
      BY <1>1
    <3>2. g[0] = first
      BY <2>1, <3>1
    <3> QED
      BY <1>2, <3>1, <3>2
  <2>3. ASSUME NEW n \in 1..N, Q[n - 1] PROVE Q[n]
    <3>1. n \in 0..N /\ n - 1 \in 0..N /\ n # 0
      BY <1>1
    <3>2. g[n - 1] \in Orders
      BY <2>3, <3>1
    <3>3. g[n] = Swapped(g[n - 1], Swaps[u][n])
      BY <2>1, <3>1
    <3>4. g[n] \in Orders
      BY <1>3, <3>2, <3>3
    <3> QED
      BY <3>1, <3>4
  <2>4. Q \in [0..N -> BOOLEAN]
    OBVIOUS
  <2>5. \A n \in 0..N : Q[n]
    <3> HIDE DEF Q, N
    <3> QED
      BY <1>1, <2>2, <2>3, <2>4, UpTo
  <2> QED
    BY <2>5
<1> HIDE DEF g, N
<1>11. N \in 0..N
  BY <1>1
<1> QED
  BY <1>8, <1>10, <1>11 DEF g

\* A fiber is one of one amplifier.
LEMMA OfAmp ==
  \A q \in 1..Fibers : \E a \in 1..Len(Amps) : \E i \in 1..PerAmp : q = a * PerAmp + 1 - i
<1> DEFINE N == Len(Amps)
           P == PerAmp
           Split(n) == \A q \in 1..(P * n) : \E a \in 1..n : \E i \in 1..P : q = a * P + 1 - i
           Q == [n \in 0..N |-> Split(n)]
<1>1. N \in Nat /\ P \in Nat /\ P # 0
  BY FibersType
<1> HIDE DEF N, P
<1>2. Q[0]
  <2>1. 0 \in 0..N /\ P * 0 = 0
    BY <1>1
  <2>2. Split(0)
    BY <2>1
  <2> QED
    BY <2>1, <2>2
<1>3. ASSUME NEW n \in 1..N, Q[n - 1] PROVE Q[n]
  <2>1. n \in 0..N /\ n - 1 \in 0..N /\ n \in Nat /\ n - 1 \in Nat
    BY <1>1
  <2>2. Split(n - 1)
    BY <1>3, <2>1
  <2>3. P * n = P * (n - 1) + P /\ n * P = P * n /\ P * n \in Nat /\ P * (n - 1) \in Nat
    BY <1>1, <2>1
  <2>4. ASSUME NEW q \in 1..(P * n) PROVE \E a \in 1..n : \E i \in 1..P : q = a * P + 1 - i
    <3>1. CASE q <= P * (n - 1)
      <4>1. q \in 1..(P * (n - 1))
        BY <2>3, <3>1
      <4>2. PICK a \in 1..(n - 1) : \E i \in 1..P : q = a * P + 1 - i
        BY <2>2, <4>1
      <4>3. a \in 1..n
        BY <2>1
      <4> QED
        BY <4>2, <4>3
    <3>2. CASE q > P * (n - 1)
      <4> DEFINE i == P * n + 1 - q
      <4>1. i \in 1..P /\ q = P * n + 1 - i
        BY <1>1, <2>3, <3>2
      <4>2. n \in 1..n
        BY <2>1
      <4> HIDE DEF i
      <4>3. q = n * P + 1 - i
        BY <2>3, <4>1
      <4> QED
        BY <4>1, <4>2, <4>3
    <3> QED
      BY <2>3, <3>1, <3>2
  <2>5. Split(n)
    BY <2>4
  <2> QED
    BY <2>1, <2>5
<1>4. Q \in [0..N -> BOOLEAN]
  OBVIOUS
<1>5. Q[N]
  <2>1. N \in 0..N
    BY <1>1
  <2> HIDE DEF Q
  <2> QED
    BY <1>1, <1>2, <1>3, <1>4, <2>1, UpTo
<1>6. Split(N)
  <2>1. N \in 0..N
    BY <1>1
  <2> HIDE DEF Split
  <2> QED
    BY <1>5, <2>1
<1> QED
  BY <1>6 DEF N, P, Fibers

LEMMA Everywhere ==
  ASSUME NEW table \in Orders, NEW p \in 1..Fibers
  PROVE  \E a \in 1..Len(Amps) : \E i \in 1..PerAmp : ByAmp(table)[a][i] = p
<1>1. PICK q \in 1..Fibers : table[q] = p
  BY DEF Orders
<1>2. PICK a \in 1..Len(Amps), i \in 1..PerAmp : q = a * PerAmp + 1 - i
  BY OfAmp
<1>3. ByAmp(table)[a][i] = table[a * PerAmp + 1 - i]
  BY DEF ByAmp, Positions
<1>4. ByAmp(table)[a][i] = p
  BY <1>1, <1>2, <1>3
<1> QED
  BY <1>4

GeometryInv ==
  /\ DOMAIN parsed = Tables /\ DOMAIN at = Reader /\ DOMAIN ifu = Reader
  /\ DOMAIN working = Reader /\ DOMAIN offsets = Reader
  /\ \A t \in Tables : parsed[t] \in {<<>>, Contents[t]}
  /\ \A r \in Reader : at[r] # "out" => ifu[r] \in Ifu
  /\ \A r \in Reader : at[r] = "correct" => working[r] = Contents[TableOf(ifu[r])]
  /\ \A r \in Reader : offsets[r] # <<>> =>
       ifu[r] \in Ifu /\ offsets[r] = ByAmp(Corrected(Contents[TableOf(ifu[r])], ifu[r]))

CachesIInv == CacheIInv /\ GeometryInv

LEMMA TableOfType == \A u : TableOf(u) \in Tables
BY DEF TableOf, Tables

LEMMA AskOffsetsStep ==
  ASSUME CachesIInv, NEW r \in Reader, NEW u \in Ifu, AskOffsets(r, u)
  PROVE  CachesIInv'
<1>1. loads' = loads + 1 /\ loads < MaxLoads
      /\ UNCHANGED <<held, inflight, pc, wanted, cleared>>
  BY DEF AskOffsets
<1>2. CacheIInv'
  BY <1>1, CacheAssumption DEF CachesIInv, CacheIInv, CallsInv, HeldInv, CacheTypeOK, EventsHeld, WaitersServed, held
<1>3. parsed[TableOf(u)] # <<>> => parsed[TableOf(u)] = Contents[TableOf(u)]
  BY TableOfType DEF CachesIInv, GeometryInv
<1>4. /\ ifu' = [ifu EXCEPT ![r] = u]
      /\ offsets' = [offsets EXCEPT ![r] = <<>>]
      /\ working' = [working EXCEPT ![r] = parsed[TableOf(u)]]
      /\ at' = [at EXCEPT ![r] = IF parsed[TableOf(u)] = <<>> THEN "parse" ELSE "correct"]
      /\ parsed' = parsed
  BY DEF AskOffsets, Go
<1>5. GeometryInv'
  BY <1>3, <1>4 DEF CachesIInv, GeometryInv
<1> QED
  BY <1>2, <1>5 DEF CachesIInv

LEMMA CallsUnchanged == CacheIInv /\ UNCHANGED cacheVars => CacheIInv'
BY CacheNextIInv

LEMMA ParseStep ==
  ASSUME CachesIInv, NEW r \in Reader, Parse(r)
  PROVE  CachesIInv'
<1>1. UNCHANGED cacheVars /\ ifu' = ifu /\ offsets' = offsets /\ at[r] = "parse"
  BY DEF Parse
<1>2. CacheIInv'
  BY <1>1, CallsUnchanged DEF CachesIInv
<1>3. CASE at' = [at EXCEPT ![r] = "out"] /\ parsed' = parsed /\ working' = working
  <2>1. GeometryInv'
    BY <1>1, <1>3 DEF CachesIInv, GeometryInv
  <2> QED
    BY <1>2, <2>1 DEF CachesIInv
<1>4. CASE /\ parsed' = [parsed EXCEPT ![TableOf(ifu[r])] = Contents[TableOf(ifu[r])]]
           /\ working' = [working EXCEPT ![r] = Contents[TableOf(ifu[r])]]
           /\ at' = [at EXCEPT ![r] = "correct"]
  <2>1. GeometryInv'
    BY <1>1, <1>4, TableOfType DEF CachesIInv, GeometryInv
  <2> QED
    BY <1>2, <2>1 DEF CachesIInv
<1> QED
  BY <1>3, <1>4 DEF Parse, Go

LEMMA CorrectStep ==
  ASSUME CachesIInv, NEW r \in Reader, Correct(r)
  PROVE  CachesIInv'
<1>1. /\ UNCHANGED cacheVars /\ ifu' = ifu /\ at[r] = "correct" /\ parsed' = parsed
      /\ offsets' = [offsets EXCEPT ![r] = ByAmp(Corrected(working[r], ifu[r]))]
      /\ working' = [working EXCEPT ![r] = <<>>]
      /\ at' = [at EXCEPT ![r] = "out"]
  BY DEF Correct, Retained, Go
<1>2. CacheIInv'
  BY <1>1, CallsUnchanged DEF CachesIInv
<1>3. working[r] = Contents[TableOf(ifu[r])] /\ ifu[r] \in Ifu
  BY <1>1 DEF CachesIInv, GeometryInv
<1>4. GeometryInv'
  BY <1>1, <1>3 DEF CachesIInv, GeometryInv
<1> QED
  BY <1>2, <1>4 DEF CachesIInv

-----------------------------------------------------------------------------
(* The theorems                                                            *)

\* The invariant that the others follow from.
THEOREM CachesInvariance == CachesSpec => []CachesIInv
<1>1. GeometryInit => CachesIInv
  BY CacheInitIInv DEF GeometryInit, CachesIInv, GeometryInv
<1>2. CachesIInv /\ [LocatesOrLoads]_allCaches => CachesIInv'
  <2> SUFFICES ASSUME CachesIInv, [LocatesOrLoads]_allCaches PROVE CachesIInv'
    OBVIOUS
  <2>1. CASE UNCHANGED geometry /\ [CacheNext]_cacheVars
    <3>1. CacheIInv'
      BY <2>1, CacheNextIInv DEF CachesIInv
    <3>2. GeometryInv'
      BY <2>1 DEF CachesIInv, GeometryInv, geometry
    <3> QED
      BY <3>1, <3>2 DEF CachesIInv
  <2>2. CASE UNCHANGED allCaches
    BY <2>1, <2>2 DEF allCaches
  <2>3. ASSUME NEW r \in Reader, (\E f \in Frame : Ask(r, f)) \/ Continue(r), UNCHANGED geometry
        PROVE  CachesIInv'
    BY <2>1, <2>3 DEF CacheNext
  <2>4. CASE ClearRun /\ UNCHANGED geometry
    BY <2>1, <2>4 DEF CacheNext
  <2>5. ASSUME NEW t \in Tables, Mend(t) PROVE CachesIInv'
    <3>1. UNCHANGED <<cacheVars, parsed, at, ifu, working, offsets>>
      BY <2>5 DEF Mend
    <3>2. CacheIInv'
      BY <3>1, CallsUnchanged DEF CachesIInv
    <3> QED
      BY <3>1, <3>2 DEF CachesIInv, GeometryInv
  <2> QED
    BY <2>2, <2>3, <2>4, <2>5, AskOffsetsStep, ParseStep, CorrectStep DEF LocatesOrLoads
<1> QED
  BY <1>1, <1>2, PTL DEF CachesSpec

\* Type correctness of the calls of load.
THEOREM CacheTypeCorrect == CachesSpec => []CacheTypeOK
<1>1. CachesIInv => CacheTypeOK
  BY DEF CachesIInv, CacheIInv, CallsInv
<1> QED
  BY <1>1, CachesInvariance, PTL

\* Whoever waits has somebody who reads for him, also when reads fail.
THEOREM WaiterHasReaderCorrect == CachesSpec => []WaiterHasReader
<1>1. CachesIInv => WaiterHasReader
  BY DEF CachesIInv, CacheIInv, CallsInv, CacheTypeOK, EventsHeld, WaitersServed, WaiterHasReader
<1> QED
  BY <1>1, CachesInvariance, PTL

\* The cache of a run holds a frame once and stays within its limit, for any
\* sizes, limit and threads, although the counter may count a frame twice.
THEOREM CacheBoundedCorrect == CachesSpec => []CacheBounded
<1>1. CachesIInv => CacheBounded
  BY HeldBounded DEF CachesIInv, CacheIInv
<1> QED
  BY <1>1, CachesInvariance, PTL

\* Any threads that look up any IFUs get each one's own geometry, with every
\* fiber in it.
THEOREM GeometryOfIfuCorrect == CachesSpec => []GeometryOfIfu
<1>1. CachesIInv => GeometryOfIfu
  <2> SUFFICES ASSUME CachesIInv, NEW r \in Reader, offsets[r] # <<>>
               PROVE  /\ offsets[r] = ByAmp(Corrected(Contents[TableOf(ifu[r])], ifu[r]))
                      /\ \A p \in 1..Fibers : \E a \in 1..Len(Amps) : \E i \in 1..PerAmp :
                           offsets[r][a][i] = p
    BY DEF GeometryOfIfu
  <2>1. ifu[r] \in Ifu /\ offsets[r] = ByAmp(Corrected(Contents[TableOf(ifu[r])], ifu[r]))
    BY DEF CachesIInv, GeometryInv
  <2>2. Corrected(Contents[TableOf(ifu[r])], ifu[r]) \in Orders
    BY <2>1, TableOfType, ContentsOrdered, CorrectedOrdered
  <2> QED
    BY <2>1, <2>2, Everywhere
<1> QED
  BY <1>1, CachesInvariance, PTL
=============================================================================
