-------------------------- MODULE DagExecutorProofs --------------------------
(***************************************************************************)
(* Theorems about DagExecutor for every set of nodes, pool size and number *)
(* of retries.  IInv is inductive; the safety invariants follow from it.   *)
(***************************************************************************)
EXTENDS CommandRun, FiniteSetTheorems, SequenceTheorems, TLAPS

Started == phase \notin {"building", "rejected"}

\* Nothing of run() has happened while the graph is declared or rejected.
NotStarted ==
  ~Started =>
    /\ ready = <<>>
    /\ pc = "dispatch"
    /\ \A n \in Node : progress[n] \in {"absent", "pending", "cached", "skipped"}

\* A registered node is a task node of GraphProgress, and its dependencies
\* are registered once the check has passed.
GraphInv ==
  /\ phase # "rejected" =>
       \A n \in Node :
         rank[n] > 0 <=> progress[n] \in {"pending", "running", "succeeded", "failed", "blocked"}
  /\ Started => \A n \in Registered : deps[n] \subseteq Registered

\* The coordinator's sets and futures say what GraphProgress says, but for a
\* node whose line could not be written: that one is not submitted.
MirrorInv ==
  /\ unsuccessful = {n \in Node : progress[n] \in {"failed", "blocked"}}
  /\ results = {n \in Node : progress[n] = "succeeded"}
  /\ \A n \in Node : future[n] # "none" => progress[n] = "running"
  /\ phase \notin {"draining", "interrupted"} =>
       \A n \in Node : progress[n] = "running" => future[n] # "none"
  /\ completed \subseteq Done
  /\ pc # "collect" => completed = {}

\* indeg counts the unsettled dependencies.
IndegInv ==
  Started => \A n \in Registered : indeg[n] = Cardinality({d \in deps[n] : ~Terminal(d)})

\* The deque holds the pending nodes with no unsettled dependency, once each.
ReadyInv ==
  /\ \A i \in 1..Len(ready) : progress[ready[i]] = "pending" /\ indeg[ready[i]] = 0
  /\ \A i, j \in 1..Len(ready) : ready[i] = ready[j] => i = j
  /\ Started => \A n \in Node :
       progress[n] = "pending" /\ indeg[n] = 0 => \E i \in 1..Len(ready) : ready[i] = n

AttemptInv ==
  \A n \in Node :
    /\ attempts[n] <= MaxRetries + 1
    /\ progress[n] \notin {"running", "succeeded", "failed"} => attempts[n] <= MaxRetries
    /\ progress[n] = "failed" => attempts[n] = MaxRetries + 1

PoolInv == Cardinality(InFlight) <= MaxWorkers

OrderInv == Started => OrderRespected

IInv ==
  /\ TypeOK
  /\ NotStarted
  /\ GraphInv
  /\ MirrorInv
  /\ IndegInv
  /\ ReadyInv
  /\ AttemptInv
  /\ PoolInv
  /\ OrderInv
  /\ InputsComplete

-----------------------------------------------------------------------------
(* Lemmas                                                                  *)

\* A subset of Node is finite, so it has a cardinality.
LEMMA NodeSubset ==
  ASSUME NEW S \in SUBSET Node
  PROVE  IsFiniteSet(S) /\ Cardinality(S) \in Nat
BY ExecutorAssumption, FS_Subset, FS_CardinalityType

\* What appending nodes in registration order does to a deque.
LEMMA AppendInOrder ==
  ASSUME rank \in [Node -> Nat],
         NEW S \in SUBSET Node, NEW s \in InOrder(S), NEW q \in Seq(Node)
  PROVE  /\ s \in Seq(Node)
         /\ q \o s \in Seq(Node)
         /\ Len(q \o s) = Len(q) + Len(s)
         /\ \A i \in 1..Len(q) : (q \o s)[i] = q[i]
         /\ \A i \in 1..Len(s) : (q \o s)[Len(q) + i] = s[i] /\ s[i] \in S
         /\ \A i, j \in 1..Len(s) : s[i] = s[j] => i = j
         /\ \A n \in S : \E i \in 1..Len(s) : s[i] = n
<1>1. /\ Cardinality(S) \in Nat
      /\ s \in [1..Cardinality(S) -> S]
  BY NodeSubset DEF InOrder
<1>2. s \in Seq(Node) /\ Len(s) = Cardinality(S) /\ DOMAIN s = 1..Len(s)
  BY <1>1
<1>3. \A i, j \in 1..Len(s) : s[i] = s[j] => i = j
  <2>1. \A i, j \in 1..Len(s) : i < j => rank[s[i]] < rank[s[j]]
    BY <1>2 DEF InOrder
  <2>2. \A i \in 1..Len(s) : rank[s[i]] \in Nat
    BY <1>1, <1>2
  <2> QED
    BY <1>2, <2>1, <2>2
<1>4. \A n \in S : \E i \in 1..Len(s) : s[i] = n
  BY <1>2 DEF InOrder
<1>5. \A i \in 1..Len(s) : s[i] \in S
  BY <1>1, <1>2
<1>6. /\ q \o s \in Seq(Node)
      /\ Len(q \o s) = Len(q) + Len(s)
      /\ \A i \in 1..Len(q) + Len(s) :
            (q \o s)[i] = IF i <= Len(q) THEN q[i] ELSE s[i - Len(q)]
  BY <1>2, ConcatProperties
<1>7. Len(q) \in Nat /\ Len(s) \in Nat
  BY <1>2
<1> QED
  BY <1>2, <1>3, <1>4, <1>5, <1>6, <1>7

\* Settling a node takes exactly itself out of a set of unsettled nodes.
LEMMA SettleOne ==
  ASSUME TypeOK, NEW n \in Node, ~Terminal(n), NEW s \in TerminalStates,
         progress' = [progress EXCEPT ![n] = s],
         NEW S \in SUBSET Node
  PROVE  Cardinality({d \in S : ~Terminal(d)'}) =
           IF n \in S THEN Cardinality({d \in S : ~Terminal(d)}) - 1
                      ELSE Cardinality({d \in S : ~Terminal(d)})
<1> DEFINE U == {d \in S : ~Terminal(d)}
           V == {d \in S : ~Terminal(d)'}
<1>1. \A d \in S : Terminal(d)' <=> (Terminal(d) \/ d = n)
  BY DEF TypeOK, Terminal
<1>2. V = U \ {n}
  BY <1>1 DEF Terminal
<1>3. IsFiniteSet(U)
  BY NodeSubset
<1>4. n \in U <=> n \in S
  OBVIOUS
<1> HIDE DEF U, V
<1>5. Cardinality(V) = IF n \in S THEN Cardinality(U) - 1 ELSE Cardinality(U)
  BY <1>2, <1>3, <1>4, FS_RemoveElement
<1> QED
  BY <1>5 DEF U, V

\* An in-degree of zero means that every dependency is settled.
LEMMA ZeroIndeg ==
  ASSUME TypeOK, IndegInv, Started, NEW m \in Registered, indeg[m] = 0
  PROVE  \A d \in deps[m] : Terminal(d)
<1> DEFINE U == {d \in deps[m] : ~Terminal(d)}
<1>1. deps[m] \in SUBSET Node
  BY DEF TypeOK, Registered
<1>2. IsFiniteSet(U)
  BY <1>1, NodeSubset
<1>3. Cardinality(U) = 0
  BY DEF IndegInv
<1>4. U = {}
  <2> HIDE DEF U
  <2> QED
    BY <1>2, <1>3, FS_EmptySet
<1> QED
  BY <1>4

\* The deque q holds what ready must hold once n has left it.
HoldsAllBut(q, n) ==
  /\ \A i \in 1..Len(q) : q[i] # n /\ progress[q[i]] = "pending" /\ indeg[q[i]] = 0
  /\ \A i, j \in 1..Len(q) : q[i] = q[j] => i = j
  /\ \A m \in Node : m # n /\ progress[m] = "pending" /\ indeg[m] = 0
       => \E i \in 1..Len(q) : q[i] = m

\* A node is settled and its dependents are released: the common part of
\* DispatchBlocked, CollectFailure and CollectSuccess.
LEMMA Settle ==
  ASSUME IInv, phase = "running",
         NEW n \in Registered, ~Terminal(n), \A d \in deps[n] : Terminal(d),
         NEW s \in {"failed", "blocked", "succeeded"},
         s = "blocked" <=> \E d \in Needed(n) : Unsuccessful(d),
         NEW q \in Seq(Node), HoldsAllBut(q, n),
         Transition(n, s), Release(n, q), UNCHANGED graph
  PROVE  /\ phase' = phase
         /\ progress' = [progress EXCEPT ![n] = s]
         /\ indeg' \in [Node -> Int] /\ ready' \in Seq(Node)
         /\ GraphInv' /\ IndegInv' /\ ReadyInv' /\ OrderInv'
<1> USE DEF IInv, Registered
<1>0. Started /\ s \in TerminalStates /\ n \in Node
  BY DEF Started, TerminalStates
<1>1. phase' = phase /\ progress' = [progress EXCEPT ![n] = s]
  BY DEF Transition, Terminal
<1>2. Started' /\ rank' = rank /\ deps' = deps /\ tolerant' = tolerant
  BY <1>1 DEF Started, graph
<1>3. \A m \in Node : progress[m]' = IF m = n THEN s ELSE progress[m]
  BY <1>1 DEF TypeOK
<1>4. \A m \in Node : Terminal(m)' <=> Terminal(m) \/ m = n
  BY <1>0, <1>3 DEF Terminal
<1>5. indeg' \in [Node -> Int]
  BY DEF Release, TypeOK
<1>6. GraphInv'
  <2>1. progress[n] \in {"pending", "running", "succeeded", "failed", "blocked"}
    BY <1>0 DEF GraphInv
  <2>2. \A m \in Node :
          rank'[m] > 0 <=> progress'[m] \in {"pending", "running", "succeeded", "failed", "blocked"}
    BY <1>2, <1>3, <2>1 DEF GraphInv
  <2>3. \A m \in Registered : deps[m] \subseteq Registered
    BY <1>0 DEF GraphInv
  <2> QED
    BY <1>2, <2>2, <2>3 DEF GraphInv
<1>7. IndegInv'
  <2> SUFFICES ASSUME NEW m \in Registered
               PROVE  indeg'[m] = Cardinality({d \in deps[m] : ~Terminal(d)'})
    BY <1>2 DEF IndegInv
  <2>1. deps[m] \in SUBSET Node
    BY DEF TypeOK
  <2>2. Cardinality({d \in deps[m] : ~Terminal(d)'})
          = IF n \in deps[m] THEN Cardinality({d \in deps[m] : ~Terminal(d)}) - 1
                             ELSE Cardinality({d \in deps[m] : ~Terminal(d)})
    BY <1>0, <1>1, <2>1, SettleOne
  <2>3. indeg'[m] = IF n \in deps[m] THEN indeg[m] - 1 ELSE indeg[m]
    BY DEF Release, Dependents
  <2>4. indeg[m] = Cardinality({d \in deps[m] : ~Terminal(d)})
    BY <1>0 DEF IndegInv
  <2> QED
    BY <2>2, <2>3, <2>4
<1> DEFINE R == {m \in Dependents(n) : indeg[m] = 1}
<1>8. PICK t \in InOrder(R) : ready' = q \o t
  BY DEF Release
<1>R. /\ R \in SUBSET Node
      /\ \A m \in Node : m \in R <=> m \in Dependents(n) /\ indeg[m] = 1
  BY DEF Dependents
<1> HIDE DEF R
<1>9. /\ ready' \in Seq(Node)
      /\ Len(ready') = Len(q) + Len(t)
      /\ \A i \in 1..Len(q) : ready'[i] = q[i]
      /\ \A i \in 1..Len(t) : ready'[Len(q) + i] = t[i] /\ t[i] \in R
      /\ \A i, j \in 1..Len(t) : t[i] = t[j] => i = j
      /\ \A m \in R : \E i \in 1..Len(t) : t[i] = m
  <2>1. rank \in [Node -> Nat]
    BY DEF TypeOK
  <2>2. /\ t \in Seq(Node)
        /\ q \o t \in Seq(Node)
        /\ Len(q \o t) = Len(q) + Len(t)
        /\ \A i \in 1..Len(q) : (q \o t)[i] = q[i]
        /\ \A i \in 1..Len(t) : (q \o t)[Len(q) + i] = t[i] /\ t[i] \in R
        /\ \A i, j \in 1..Len(t) : t[i] = t[j] => i = j
        /\ \A m \in R : \E i \in 1..Len(t) : t[i] = m
    BY <1>R, <1>8, <2>1, AppendInOrder, ZenonT(60)
  <2> QED
    BY <1>8, <2>2
<1>10. OrderInv'
  <2> SUFFICES ASSUME NEW m \in Registered,
                      progress'[m] \in {"running", "succeeded", "failed", "blocked"}
               PROVE  /\ \A d \in deps[m] : Terminal(d)'
                      /\ progress'[m] = "blocked" <=> \E d \in Needed(m) : Unsuccessful(d)'
    BY <1>2 DEF OrderInv, OrderRespected, Needed
  <2>1. \A d \in deps[m] : Terminal(d) /\ d \in Node
    <3>1. CASE m = n
      BY <3>1 DEF TypeOK
    <3>2. CASE m # n
      BY <1>0, <1>3, <3>2 DEF OrderInv, OrderRespected, TypeOK
    <3> QED
      BY <3>1, <3>2
  <2>2. \A d \in deps[m] : d # n /\ progress'[d] = progress[d]
    BY <1>3, <2>1
  <2>3. (\E d \in Needed(m) : Unsuccessful(d)') <=> (\E d \in Needed(m) : Unsuccessful(d))
    BY <2>2 DEF Needed, Unsuccessful
  <2>4. progress'[m] = "blocked" <=> \E d \in Needed(m) : Unsuccessful(d)
    BY <1>0, <1>3 DEF OrderInv, OrderRespected
  <2> QED
    BY <1>4, <2>1, <2>3, <2>4
<1>11. ReadyInv'
  <2>1. \A m \in Registered : n \in deps[m] => progress[m] = "pending" /\ m # n
    BY <1>0 DEF OrderInv, OrderRespected, GraphInv
  <2>2. \A m \in Registered : indeg[m] = 0 => n \notin deps[m]
    BY <1>0, ZeroIndeg
  <2>3. \A m \in Node : progress[m] = "pending" => m \in Registered
    BY <1>0 DEF GraphInv
  <2>4. \A m \in Node : indeg'[m] = IF m \in Dependents(n) THEN indeg[m] - 1 ELSE indeg[m]
    BY DEF Release
  <2>5. \A i \in 1..Len(q) : q[i] \in Node
    BY ElementOfSeq
  <2>6. Len(q) \in Nat /\ Len(t) \in Nat
    BY <1>8, <1>R, NodeSubset DEF InOrder
  <2>7. \A i \in 1..Len(q) : progress'[q[i]] = "pending" /\ indeg'[q[i]] = 0
    BY <1>3, <2>2, <2>3, <2>4, <2>5 DEF HoldsAllBut, Dependents
  <2>8. \A i \in 1..Len(t) : progress'[t[i]] = "pending" /\ indeg'[t[i]] = 0
    <3> SUFFICES ASSUME NEW i \in 1..Len(t)
                 PROVE  progress'[t[i]] = "pending" /\ indeg'[t[i]] = 0
      OBVIOUS
    <3>1. t[i] \in Dependents(n) /\ indeg[t[i]] = 1 /\ t[i] \in Node
      BY <1>9, <1>R
    <3>2. progress[t[i]] = "pending" /\ t[i] # n
      BY <2>1, <3>1 DEF Dependents
    <3> QED
      BY <1>3, <2>4, <3>1, <3>2
  <2>9. \A i \in 1..Len(q), j \in 1..Len(t) : q[i] # t[j]
    BY <1>9, <1>R, SMTT(40) DEF HoldsAllBut
  <2>10. \A i \in 1..Len(ready') :
           \/ i \in 1..Len(q) /\ ready'[i] = q[i]
           \/ \E j \in 1..Len(t) : i = Len(q) + j /\ ready'[i] = t[j]
    <3> SUFFICES ASSUME NEW i \in 1..Len(ready'), i \notin 1..Len(q)
                 PROVE  \E j \in 1..Len(t) : i = Len(q) + j /\ ready'[i] = t[j]
      BY <1>9
    <3>1. i - Len(q) \in 1..Len(t) /\ i = Len(q) + (i - Len(q))
      BY <1>9, <2>6
    <3>2. ready'[Len(q) + (i - Len(q))] = t[i - Len(q)]
      BY <1>9, <3>1
    <3>3. Len(q) + (i - Len(q)) = i
      BY <1>9, <2>6
    <3> QED
      BY <3>1, <3>2, <3>3
  <2>11. \A i \in 1..Len(ready') : progress'[ready'[i]] = "pending" /\ indeg'[ready'[i]] = 0
    BY <2>7, <2>8, <2>10, ZenonT(60)
  <2>12. \A i, j \in 1..Len(ready') : ready'[i] = ready'[j] => i = j
    <3> SUFFICES ASSUME NEW i \in 1..Len(ready'), NEW j \in 1..Len(ready'),
                        ready'[i] = ready'[j]
                 PROVE  i = j
      OBVIOUS
    <3>1. CASE i \in 1..Len(q) /\ ready'[i] = q[i]
      <4>1. j \in 1..Len(q) /\ ready'[j] = q[j]
        BY <2>9, <2>10, <3>1
      <4> QED
        BY <3>1, <4>1, ZenonT(60) DEF HoldsAllBut
    <3>2. CASE \E k \in 1..Len(t) : i = Len(q) + k /\ ready'[i] = t[k]
      <4>1. PICK k \in 1..Len(t) : i = Len(q) + k /\ ready'[i] = t[k]
        BY <3>2
      <4>2. PICK l \in 1..Len(t) : j = Len(q) + l /\ ready'[j] = t[l]
        BY <2>9, <2>10, <4>1
      <4> QED
        BY <1>9, <4>1, <4>2
    <3> QED
      BY <2>10, <3>1, <3>2
  <2>13. \A m \in Node : progress'[m] = "pending" /\ indeg'[m] = 0
                       => \E i \in 1..Len(ready') : ready'[i] = m
    <3> SUFFICES ASSUME NEW m \in Node, progress'[m] = "pending", indeg'[m] = 0
                 PROVE  \E i \in 1..Len(ready') : ready'[i] = m
      OBVIOUS
    <3>1. m # n /\ progress[m] = "pending"
      BY <1>3
    <3>2. CASE m \in Dependents(n)
      <4>1. m \in R
        BY <1>R, <2>4, <3>2 DEF TypeOK
      <4>2. PICK i \in 1..Len(t) : t[i] = m
        BY <1>9, <4>1
      <4>3. Len(q) + i \in 1..Len(ready')
        BY <1>9, <2>6
      <4> QED
        BY <1>9, <4>2, <4>3
    <3>3. CASE m \notin Dependents(n)
      <4>1. PICK i \in 1..Len(q) : q[i] = m
        BY <2>4, <3>1, <3>3 DEF HoldsAllBut
      <4>2. i \in 1..Len(ready')
        BY <1>9, <2>6
      <4> QED
        BY <1>9, <4>1, <4>2
    <3> QED
      BY <3>2, <3>3
  <2> QED
    BY <2>11, <2>12, <2>13 DEF ReadyInv
<1> QED
  BY <1>1, <1>5, <1>6, <1>7, <1>9, <1>10, <1>11

-----------------------------------------------------------------------------
(* IInv is inductive                                                       *)

LEMMA InitIInv == Init => IInv
<1> SUFFICES ASSUME Init PROVE IInv
  OBVIOUS
<1> USE DEF Init
<1>1. TypeOK
  <2>1. ready \in Seq(Node)
    BY EmptySeq
  <2>2. phase \in Phases /\ progress \in [Node -> ProgressStates] /\ future \in [Node -> FutureStates]
    BY DEF Phases, ProgressStates, FutureStates
  <2>3. rank \in [Node -> Nat] /\ indeg \in [Node -> Int] /\ attempts \in [Node -> Nat]
    OBVIOUS
  <2>4. /\ deps \in [Node -> SUBSET Node] /\ tolerant \in [Node -> SUBSET Node]
        /\ inputs \in [Node -> SUBSET Node]
    OBVIOUS
  <2>5. interrupted \in BOOLEAN
    OBVIOUS
  <2> QED
    BY <2>1, <2>2, <2>3, <2>4, <2>5 DEF TypeOK
<1>2. InFlight = {}
  BY DEF InFlight
<1>3. PoolInv
  BY <1>2, ExecutorAssumption, FS_EmptySet DEF PoolInv
<1>4. ~Started
  BY DEF Started
<1>6. NotStarted /\ IndegInv /\ OrderInv
  BY <1>4 DEF NotStarted, IndegInv, OrderInv
<1>7. ReadyInv
  BY <1>4 DEF ReadyInv
<1>8. GraphInv
  BY <1>4 DEF GraphInv
<1>5. MirrorInv /\ AttemptInv /\ InputsComplete
  BY ExecutorAssumption DEF MirrorInv, AttemptInv, InputsComplete, Done, Outcomes
<1> QED
  BY <1>1, <1>3, <1>5, <1>6, <1>7, <1>8 DEF IInv

\* add_task and add_observed touch only the declared graph.
LEMMA BuildIInv == IInv /\ Build => IInv'
<1> SUFFICES ASSUME IInv, Build PROVE IInv'
  OBVIOUS
<1>1. phase = "building" /\ phase' \in {"building", "rejected"} /\ ~Started /\ ~Started'
  BY DEF Build, AddTask, AddTaskRaises, AddObserved, Started
<1>2. UNCHANGED <<loop, worker, runStatus>>
  BY DEF Build, AddTask, AddTaskRaises, AddObserved
<1>3. UNCHANGED <<pc, indeg, ready, attempts, unsuccessful, results, completed, interrupted,
                  future, inputs, runStatus>>
  BY <1>2 DEF loop, worker
<1>4. /\ rank' \in [Node -> Nat] /\ deps' \in [Node -> SUBSET Node]
      /\ tolerant' \in [Node -> SUBSET Node] /\ progress' \in [Node -> ProgressStates]
      /\ \A n \in Node :
           /\ progress'[n] = progress[n] \/ progress[n] = "absent"
           /\ progress'[n] \in {"absent", "pending", "cached", "skipped"}
           /\ phase' # "rejected" => (rank'[n] > 0 <=> progress'[n] = "pending")
  <2>1. \A n \in Node :
          /\ progress[n] \in {"absent", "pending", "cached", "skipped"}
          /\ phase # "rejected" => (rank[n] > 0 <=> progress[n] = "pending")
    BY <1>1 DEF IInv, NotStarted, GraphInv
  <2>T. /\ rank \in [Node -> Nat] /\ deps \in [Node -> SUBSET Node]
        /\ tolerant \in [Node -> SUBSET Node] /\ progress \in [Node -> ProgressStates]
    BY DEF IInv, TypeOK
  <2>2. CASE \E n \in Node : AddTask(n)
    <3>1. PICK n \in Node : AddTask(n)
      BY <2>2
    <3>2. Cardinality(Registered) + 1 \in Nat /\ Cardinality(Registered) + 1 > 0
      BY NodeSubset DEF Registered
    <3>3. PICK d \in SUBSET Node, t \in SUBSET Node :
            deps' = [deps EXCEPT ![n] = d] /\ tolerant' = [tolerant EXCEPT ![n] = t]
      BY <3>1 DEF AddTask
    <3>4. deps' \in [Node -> SUBSET Node] /\ tolerant' \in [Node -> SUBSET Node]
      BY <3>3 DEF IInv, TypeOK
    <3>5. rank' = [rank EXCEPT ![n] = Cardinality(Registered) + 1]
      BY <3>1 DEF AddTask
    <3>6. rank' \in [Node -> Nat] /\ \A m \in Node : rank'[m] > 0 <=> rank[m] > 0 \/ m = n
      BY <3>2, <3>5 DEF IInv, TypeOK
    <3>7. CASE progress[n] = "absent"
      <4>1. progress' = [progress EXCEPT ![n] = "pending"]
        BY <3>1, <3>7 DEF AddTask
      <4> QED
        BY <1>1, <2>1, <2>T, <3>4, <3>6, <3>7, <4>1 DEF ProgressStates
    <3>8. CASE progress[n] # "absent"
      <4>1. progress' = progress /\ phase' = "rejected"
        BY <3>1, <3>8 DEF AddTask
      <4> QED
        BY <2>1, <2>T, <3>4, <3>6, <4>1
    <3> QED
      BY <3>7, <3>8
  <2>3. CASE \E n \in Node : AddTaskRaises(n)
    <3>1. rank' = rank /\ deps' = deps /\ tolerant' = tolerant /\ progress' = progress
      BY <2>3 DEF AddTaskRaises, graph
    <3> QED
      BY <1>1, <2>1, <2>T, <3>1
  <2>4. CASE \E n \in Node : \E s \in {"cached", "skipped"} : AddObserved(n, s)
    <3>1. PICK n \in Node, s \in {"cached", "skipped"} : AddObserved(n, s)
      BY <2>4
    <3>2. rank' = rank /\ deps' = deps /\ tolerant' = tolerant
      BY <3>1 DEF AddObserved, graph
    <3>3. CASE rank[n] = 0 /\ progress[n] = "absent"
      <4>1. progress' = [progress EXCEPT ![n] = s]
        BY <3>1, <3>3 DEF AddObserved
      <4> QED
        BY <1>1, <2>1, <2>T, <3>2, <3>3, <4>1 DEF ProgressStates, TerminalStates
    <3>4. CASE ~(rank[n] = 0 /\ progress[n] = "absent")
      <4>1. progress' = progress
        BY <3>1, <3>4 DEF AddObserved
      <4> QED
        BY <1>1, <2>1, <2>T, <3>2, <4>1
    <3> QED
      BY <3>3, <3>4
  <2> QED
    BY <2>2, <2>3, <2>4 DEF Build
<1>5. TypeOK'
  BY <1>1, <1>3, <1>4 DEF IInv, TypeOK, Phases
<1>6. NotStarted' /\ IndegInv' /\ OrderInv'
  BY <1>1, <1>3, <1>4 DEF IInv, NotStarted, IndegInv, OrderInv
<1>7. GraphInv'
  BY <1>1, <1>4 DEF GraphInv
<1>8. MirrorInv'
  <2>1. \A n \in Node : future[n] = "none" /\ progress[n] \notin {"failed", "blocked", "succeeded"}
    BY <1>1 DEF IInv, MirrorInv, NotStarted
  <2>2. unsuccessful = {} /\ results = {}
    BY <2>1 DEF IInv, MirrorInv
  <2>3. \A n \in Node : progress'[n] \notin {"running", "failed", "blocked", "succeeded"}
    BY <1>4
  <2> QED
    BY <1>3, <2>1, <2>2, <2>3 DEF IInv, MirrorInv, Done
<1>9. ReadyInv'
  <2>1. ready = <<>> /\ ready' = <<>>
    BY <1>1, <1>3 DEF IInv, NotStarted
  <2> QED
    BY <1>1, <2>1 DEF ReadyInv
<1>10. AttemptInv' /\ PoolInv'
  BY <1>3, <1>4 DEF IInv, AttemptInv, PoolInv, InFlight
<1>11. InputsComplete'
  <2>1. \A n \in Node : future'[n] = "none"
    BY <1>1, <1>3 DEF IInv, MirrorInv, NotStarted
  <2> QED
    BY <2>1 DEF InputsComplete, Outcomes
<1> QED
  BY <1>5, <1>6, <1>7, <1>8, <1>9, <1>10, <1>11 DEF IInv

\* The check accepts the graph: every dependency is registered and pending,
\* so every in-degree is the number of dependencies.
LEMMA StartIInv == IInv /\ (StartRun \/ StartRejected) => IInv'
<1>1. ASSUME IInv, StartRejected PROVE IInv'
  <2>1. /\ phase = "building" /\ phase' = "rejected"
        /\ UNCHANGED <<rank, deps, tolerant, progress, pc, indeg, ready, attempts, unsuccessful,
                       results, completed, interrupted, future, inputs, runStatus>>
    BY <1>1 DEF StartRejected, graph, loop, worker
  <2>2. ~Started /\ ~Started'
    BY <2>1 DEF Started
  <2>3. TypeOK'
    BY <1>1, <2>1 DEF IInv, TypeOK, Phases
  <2>4. NotStarted' /\ GraphInv' /\ IndegInv' /\ ReadyInv' /\ OrderInv'
    BY <1>1, <2>1, <2>2 DEF IInv, NotStarted, GraphInv, IndegInv, ReadyInv, OrderInv
  <2>5. MirrorInv' /\ AttemptInv' /\ PoolInv' /\ InputsComplete'
    BY <1>1, <2>1 DEF IInv, MirrorInv, AttemptInv, PoolInv, InputsComplete, InFlight, Done, Needed
  <2> QED
    BY <2>3, <2>4, <2>5 DEF IInv
<1>2. ASSUME IInv, StartRun PROVE IInv'
  <2>1. /\ phase = "building" /\ phase' = "running" /\ ~Started /\ Started'
        /\ UNCHANGED <<rank, deps, tolerant, progress, pc, attempts, unsuccessful, results,
                       completed, interrupted, future, inputs, runStatus>>
    BY <1>2 DEF StartRun, graph, worker, Started
  <2>2. /\ \A n \in Node : progress[n] \in {"absent", "pending", "cached", "skipped"}
        /\ \A n \in Node : rank[n] > 0 <=> progress[n] = "pending"
    BY <1>2, <2>1 DEF IInv, NotStarted, GraphInv
  <2>3. \A n \in Registered : deps[n] \subseteq Registered
    BY <1>2 DEF StartRun, WellFormed
  <2>4. \A n \in Node : deps[n] \in SUBSET Node /\ Cardinality(deps[n]) \in Nat
    BY <1>2, NodeSubset DEF IInv, TypeOK
  <2>5. indeg' = [n \in Node |-> Cardinality(deps[n])]
    BY <1>2 DEF StartRun
  <2> DEFINE R == {n \in Registered : deps[n] = {}}
  <2>6. ready' \in InOrder(R)
    BY <1>2 DEF StartRun
  <2>7. R \in SUBSET Node /\ \A n \in Node : n \in R <=> rank[n] > 0 /\ deps[n] = {}
    BY DEF Registered
  <2>8. rank \in [Node -> Nat] /\ <<>> \in Seq(Node)
    BY <1>2, EmptySeq DEF IInv, TypeOK
  <2> HIDE DEF R
  <2>9. /\ ready' \in Seq(Node)
        /\ \A i \in 1..Len(ready') : ready'[i] \in R
        /\ \A i, j \in 1..Len(ready') : ready'[i] = ready'[j] => i = j
        /\ \A n \in R : \E i \in 1..Len(ready') : ready'[i] = n
    BY <2>6, <2>7, <2>8, AppendInOrder, Zenon
  <2>10. TypeOK'
    <3>1. indeg' \in [Node -> Int]
      BY <2>4, <2>5
    <3> QED
      BY <1>2, <2>1, <2>9, <3>1 DEF IInv, TypeOK, Phases
  <2>11. NotStarted'
    BY <2>1 DEF NotStarted
  <2>12. GraphInv'
    BY <1>2, <2>1, <2>2, <2>3 DEF GraphInv, Registered
  <2>13. IndegInv'
    <3> SUFFICES ASSUME NEW n \in Registered
                 PROVE  indeg'[n] = Cardinality({d \in deps[n] : ~Terminal(d)'})
      BY <2>1 DEF IndegInv, Registered
    <3>1. \A d \in deps[n] : ~Terminal(d)'
      BY <2>1, <2>2, <2>3 DEF Registered, Terminal, TerminalStates
    <3>2. {d \in deps[n] : ~Terminal(d)'} = deps[n]
      BY <3>1 DEF Terminal
    <3> QED
      BY <2>5, <3>2 DEF Registered
  <2>14. ReadyInv'
    <3>1. \A n \in R : progress'[n] = "pending" /\ indeg'[n] = 0
      BY <2>1, <2>2, <2>5, <2>7, FS_EmptySet
    <3>2. \A n \in Node : progress'[n] = "pending" /\ indeg'[n] = 0 => n \in R
      <4> SUFFICES ASSUME NEW n \in Node, progress'[n] = "pending", indeg'[n] = 0
                   PROVE  n \in R
        OBVIOUS
      <4>1. IsFiniteSet(deps[n]) /\ Cardinality(deps[n]) = 0
        BY <2>4, <2>5, NodeSubset
      <4>2. deps[n] = {}
        BY <4>1, FS_EmptySet
      <4> QED
        BY <2>1, <2>2, <2>7, <4>2
    <3> QED
      BY <2>9, <3>1, <3>2 DEF ReadyInv
  <2>15. MirrorInv' /\ AttemptInv' /\ PoolInv' /\ InputsComplete'
    BY <1>2, <2>1 DEF IInv, MirrorInv, AttemptInv, PoolInv, InputsComplete, InFlight, Done, Needed
  <2>16. OrderInv'
    BY <2>1, <2>2 DEF OrderInv, OrderRespected, Registered
  <2> QED
    BY <2>10, <2>11, <2>12, <2>13, <2>14, <2>15, <2>16 DEF IInv
<1> QED
  BY <1>1, <1>2

\* Steps that only move the coordinator: waiting, returning from wait, the
\* end of the loop, an interrupt and the shutdown of the pool.
LEMMA QuietIInv ==
  ASSUME IInv, Started, Started',
         phase' \in Phases,
         phase \in {"draining", "interrupted"} => phase' \in {"draining", "interrupted"},
         pc' \in {"dispatch", "wait", "collect"},
         completed' \subseteq Done, pc' # "collect" => completed' = {},
         runStatus' \in {"none", "succeeded", "failed", "interrupted"},
         UNCHANGED <<rank, deps, tolerant, progress, indeg, ready, attempts, unsuccessful,
                     results, interrupted, future, inputs>>
  PROVE  IInv'
<1>1. TypeOK'
  BY DEF IInv, TypeOK, Done
<1>2. NotStarted' /\ OrderInv'
  BY DEF IInv, NotStarted, OrderInv, OrderRespected, Registered, Terminal, Unsuccessful, Needed
<1>3. GraphInv'
  BY DEF IInv, GraphInv, Registered, Started
<1>4. IndegInv' /\ ReadyInv'
  BY DEF IInv, IndegInv, ReadyInv, Registered, Terminal
<1>5. MirrorInv'
  BY DEF IInv, MirrorInv, Done
<1>6. AttemptInv' /\ PoolInv' /\ InputsComplete'
  BY DEF IInv, AttemptInv, PoolInv, InputsComplete, InFlight, Needed
<1> QED
  BY <1>1, <1>2, <1>3, <1>4, <1>5, <1>6 DEF IInv

LEMMA WorkerIInv == ASSUME IInv, NEW n \in Node, Worker(n) PROVE IInv'
<1>1. /\ UNCHANGED <<phase, rank, deps, tolerant, progress, pc, indeg, ready, attempts,
                      unsuccessful, results, completed, interrupted, runStatus>>
      /\ future[n] \in {"submitted", "executing"}
  BY DEF Worker, WorkerBegin, WorkerEnd, graph, loop
<1>2. /\ future' \in [Node -> FutureStates] /\ inputs' \in [Node -> SUBSET Node]
      /\ \A m \in Node : m # n => future'[m] = future[m] /\ inputs'[m] = inputs[m]
      /\ future'[n] # "none"
      /\ \/ future'[n] = "executing" /\ inputs'[n] = deps[n] \intersect results
         \/ future[n] = "executing" /\ future'[n] \in Outcomes /\ inputs'[n] = inputs[n]
  <2>1. future \in [Node -> FutureStates] /\ inputs \in [Node -> SUBSET Node]
    BY DEF IInv, TypeOK
  <2>2. deps[n] \intersect results \in SUBSET Node
    BY DEF IInv, TypeOK
  <2>3. CASE WorkerBegin(n)
    BY <2>1, <2>2, <2>3 DEF WorkerBegin, FutureStates
  <2>4. CASE WorkerEnd(n)
    BY <2>1, <2>4 DEF WorkerEnd, FutureStates, Outcomes
  <2> QED
    BY <2>3, <2>4 DEF Worker
<1>3. progress[n] = "running" /\ Started /\ Started' /\ rank[n] > 0
  <2>1. progress[n] = "running"
    BY <1>1 DEF IInv, MirrorInv
  <2>2. Started
    BY <2>1 DEF IInv, NotStarted
  <2> QED
    BY <1>1, <2>1, <2>2 DEF IInv, GraphInv, Started
<1>4. InFlight' = InFlight /\ Done \subseteq Done'
  BY <1>1, <1>2 DEF InFlight, Done, Outcomes
<1>5. TypeOK'
  BY <1>1, <1>2 DEF IInv, TypeOK
<1>6. NotStarted' /\ GraphInv' /\ IndegInv' /\ ReadyInv' /\ AttemptInv' /\ OrderInv'
  <2>1. NotStarted' /\ GraphInv' /\ AttemptInv'
    BY <1>1 DEF IInv, NotStarted, GraphInv, AttemptInv, Started, Registered
  <2>2. IndegInv' /\ ReadyInv'
    BY <1>1, <1>3 DEF IInv, IndegInv, ReadyInv, Registered, Terminal
  <2>3. OrderInv'
    BY <1>1, <1>3
    DEF IInv, OrderInv, OrderRespected, Registered, Terminal, Unsuccessful, Needed
  <2> QED
    BY <2>1, <2>2, <2>3
<1>7. MirrorInv'
  BY <1>1, <1>2, <1>4 DEF IInv, MirrorInv
<1>8. PoolInv'
  BY <1>4 DEF IInv, PoolInv
<1>9. InputsComplete'
  <2> SUFFICES ASSUME NEW m \in Node, future'[m] \in {"executing"} \union Outcomes
               PROVE  /\ inputs'[m] = {d \in deps[m] : progress[d] = "succeeded"}
                      /\ Needed(m) \subseteq inputs'[m]
    BY <1>1 DEF InputsComplete, Needed
  <2>1. CASE m # n
    BY <1>2, <2>1 DEF IInv, InputsComplete
  <2>2. CASE m = n /\ future[n] = "executing" /\ inputs'[n] = inputs[n]
    BY <2>2 DEF IInv, InputsComplete
  <2>3. CASE m = n /\ inputs'[n] = deps[n] \intersect results
    <3>1. n \in Registered
      BY <1>3 DEF Registered
    <3>2. \A d \in deps[n] : Terminal(d) /\ rank[d] > 0 /\ d \in Node
      BY <1>3, <3>1 DEF IInv, OrderInv, OrderRespected, GraphInv, Registered
    <3>3. ~ \E d \in Needed(n) : Unsuccessful(d)
      BY <1>3, <3>1 DEF IInv, OrderInv, OrderRespected
    <3>4. phase # "rejected"
      BY <1>3 DEF Started
    <3>5. \A d \in Needed(n) : progress[d] = "succeeded"
      BY <3>2, <3>3, <3>4
      DEF Needed, Unsuccessful, Terminal, TerminalStates, IInv, GraphInv
    <3>6. inputs'[n] = {d \in deps[n] : progress[d] = "succeeded"}
      BY <2>3, <3>2 DEF IInv, MirrorInv
    <3> QED
      BY <2>3, <3>5, <3>6 DEF Needed
  <2> QED
    BY <1>2, <2>1, <2>2, <2>3
<1> QED
  BY <1>5, <1>6, <1>7, <1>8, <1>9 DEF IInv

\* What dispatch knows about the node at the head of the deque.
LEMMA HeadOfReady ==
  ASSUME IInv, MayDispatch
  PROVE  /\ Started
         /\ Head(ready) \in Registered
         /\ progress[Head(ready)] = "pending" /\ indeg[Head(ready)] = 0
         /\ ~Terminal(Head(ready))
         /\ future[Head(ready)] = "none"
         /\ \A d \in deps[Head(ready)] : Terminal(d)
         /\ Tail(ready) \in Seq(Node)
         /\ HoldsAllBut(Tail(ready), Head(ready))
<1> DEFINE n == Head(ready)
           q == Tail(ready)
<1>1. Started /\ ready # <<>> /\ ready \in Seq(Node)
  BY DEF MayDispatch, Started, IInv, TypeOK
<1>2. /\ n \in Node /\ q \in Seq(Node) /\ Len(q) = Len(ready) - 1
      /\ \A i \in 1..Len(q) : q[i] = ready[i + 1]
  BY <1>1, HeadTailProperties
<1>3. Len(ready) \in Nat /\ Len(ready) > 0 /\ n = ready[1]
  BY <1>1
<1>4. progress[n] = "pending" /\ indeg[n] = 0
  BY <1>3 DEF IInv, ReadyInv
<1>5. n \in Registered
  BY <1>1, <1>2, <1>4 DEF IInv, GraphInv, Registered, Started
<1>6. \A d \in deps[n] : Terminal(d)
  BY <1>1, <1>4, <1>5, ZeroIndeg DEF IInv
<1>7. ~Terminal(n) /\ future[n] = "none"
  BY <1>2, <1>4 DEF Terminal, TerminalStates, IInv, MirrorInv
<1>8. HoldsAllBut(q, n)
  <2>1. \A i \in 1..Len(q) : i + 1 \in 1..Len(ready) /\ i + 1 # 1
    BY <1>2, <1>3
  <2>2. /\ \A i \in 1..Len(ready) : progress[ready[i]] = "pending" /\ indeg[ready[i]] = 0
        /\ \A i, j \in 1..Len(ready) : ready[i] = ready[j] => i = j
        /\ \A m \in Node : progress[m] = "pending" /\ indeg[m] = 0
                           => \E i \in 1..Len(ready) : ready[i] = m
    BY <1>1 DEF IInv, ReadyInv
  <2>3. \A i \in 1..Len(q) : q[i] # n /\ progress[q[i]] = "pending" /\ indeg[q[i]] = 0
    BY <1>2, <1>3, <2>1, <2>2
  <2>4. \A i, j \in 1..Len(q) : q[i] = q[j] => i = j
    BY <1>2, <1>3, <2>1, <2>2
  <2>5. ASSUME NEW m \in Node, m # n, progress[m] = "pending", indeg[m] = 0
        PROVE  \E i \in 1..Len(q) : q[i] = m
    <3>1. PICK i \in 1..Len(ready) : ready[i] = m
      BY <2>2, <2>5
    <3>2. i - 1 \in 1..Len(q) /\ (i - 1) + 1 = i
      BY <1>2, <1>3, <2>5, <3>1
    <3> QED
      BY <1>2, <3>1, <3>2
  <2> HIDE DEF n, q
  <2> QED
    BY <2>3, <2>4, <2>5 DEF HoldsAllBut
<1> QED
  BY <1>1, <1>2, <1>4, <1>5, <1>6, <1>7, <1>8

LEMMA BlockedIInv == IInv /\ DispatchBlocked => IInv'
<1> SUFFICES ASSUME IInv, DispatchBlocked PROVE IInv'
  OBVIOUS
<1> DEFINE n == Head(ready)
           q == Tail(ready)
<1>1. /\ MayDispatch /\ phase = "running"
      /\ FailedDependencies(n) # {}
      /\ unsuccessful' = unsuccessful \union {n}
      /\ Transition(n, "blocked") /\ Release(n, q)
      /\ UNCHANGED <<rank, deps, tolerant, pc, attempts, results, completed, interrupted,
                     future, inputs, runStatus>>
  BY DEF DispatchBlocked, MayDispatch, graph, worker
<1>2. /\ Started /\ n \in Registered /\ progress[n] = "pending"
      /\ ~Terminal(n) /\ future[n] = "none" /\ \A d \in deps[n] : Terminal(d)
      /\ q \in Seq(Node) /\ HoldsAllBut(q, n)
  BY <1>1, HeadOfReady
<1>3. \E d \in Needed(n) : Unsuccessful(d)
  BY <1>1 DEF FailedDependencies, Needed, Unsuccessful, IInv, MirrorInv
<1>4. UNCHANGED graph
  BY <1>1 DEF graph
<1> HIDE DEF n, q
<1>5. /\ phase' = phase /\ progress' = [progress EXCEPT ![n] = "blocked"]
      /\ indeg' \in [Node -> Int] /\ ready' \in Seq(Node)
      /\ GraphInv' /\ IndegInv' /\ ReadyInv' /\ OrderInv'
  BY <1>1, <1>2, <1>3, <1>4, Settle
<1>6. n \in Node /\ \A m \in Node : progress'[m] = IF m = n THEN "blocked" ELSE progress[m]
  BY <1>2, <1>5 DEF Registered, IInv, TypeOK
<1>7. TypeOK'
  BY <1>1, <1>5, <1>6 DEF IInv, TypeOK, ProgressStates, TerminalStates
<1>8. NotStarted'
  BY <1>2, <1>5 DEF NotStarted, Started
<1>9. MirrorInv'
  BY <1>1, <1>2, <1>6 DEF IInv, MirrorInv, Done
<1>10. AttemptInv' /\ PoolInv'
  BY <1>1, <1>2, <1>6 DEF IInv, AttemptInv, PoolInv, InFlight
<1>11. InputsComplete'
  <2> SUFFICES ASSUME NEW m \in Node, future[m] \in {"executing"} \union Outcomes
               PROVE  {d \in deps[m] : progress'[d] = "succeeded"}
                        = {d \in deps[m] : progress[d] = "succeeded"}
    BY <1>1 DEF IInv, InputsComplete, Needed
  <2>1. \A d \in deps[m] : d \in Node
    BY DEF IInv, TypeOK
  <2> QED
    BY <1>2, <1>6, <2>1
<1> QED
  BY <1>5, <1>7, <1>8, <1>9, <1>10, <1>11 DEF IInv

LEMMA RunIInv == IInv /\ DispatchRun => IInv'
<1> SUFFICES ASSUME IInv, DispatchRun PROVE IInv'
  OBVIOUS
<1> DEFINE n == Head(ready)
           q == Tail(ready)
<1>1. /\ MayDispatch /\ phase = "running" /\ Cardinality(InFlight) < MaxWorkers
      /\ FailedDependencies(n) = {}
      /\ attempts' = [attempts EXCEPT ![n] = @ + 1]
      /\ Transition(n, "running")
      /\ future' = [future EXCEPT ![n] = "submitted"]
      /\ ready' = q
      /\ UNCHANGED <<rank, deps, tolerant, pc, indeg, unsuccessful, results, completed,
                     interrupted, inputs, runStatus>>
  BY DEF DispatchRun, MayDispatch, graph
<1>2. /\ Started /\ n \in Registered /\ progress[n] = "pending"
      /\ ~Terminal(n) /\ future[n] = "none" /\ \A d \in deps[n] : Terminal(d)
      /\ q \in Seq(Node) /\ HoldsAllBut(q, n)
  BY <1>1, HeadOfReady
<1> HIDE DEF n, q
<1>3. n \in Node /\ phase' = phase /\ progress' = [progress EXCEPT ![n] = "running"] /\ Started'
  BY <1>1, <1>2 DEF Transition, Terminal, Registered, Started
<1>4. /\ \A m \in Node : progress'[m] = IF m = n THEN "running" ELSE progress[m]
      /\ \A m \in Node : future'[m] = IF m = n THEN "submitted" ELSE future[m]
      /\ \A m \in Node : attempts'[m] = IF m = n THEN attempts[n] + 1 ELSE attempts[m]
  BY <1>1, <1>3 DEF IInv, TypeOK
<1>5. TypeOK'
  BY <1>1, <1>2, <1>3 DEF IInv, TypeOK, ProgressStates, FutureStates
<1>6. NotStarted'
  BY <1>3 DEF NotStarted
<1>7. \A m \in Node : Terminal(m)' <=> Terminal(m)
  BY <1>2, <1>4 DEF Terminal, TerminalStates
<1>8. GraphInv'
  <2>1. \A m \in Node :
          rank[m] > 0 <=> progress[m] \in {"pending", "running", "succeeded", "failed", "blocked"}
    BY <1>2 DEF IInv, GraphInv, Started
  <2> QED
    BY <1>1, <1>2, <1>4, <2>1 DEF IInv, GraphInv, Registered
<1>9. IndegInv'
  <2> SUFFICES ASSUME NEW m \in Registered
               PROVE  indeg[m] = Cardinality({d \in deps[m] : ~Terminal(d)'})
    BY <1>1 DEF IndegInv, Registered
  <2>1. {d \in deps[m] : ~Terminal(d)'} = {d \in deps[m] : ~Terminal(d)}
    BY <1>7 DEF IInv, TypeOK, Registered
  <2> QED
    BY <1>2, <2>1 DEF IInv, IndegInv
<1>10. ReadyInv'
  <2>1. \A i \in 1..Len(q) : q[i] \in Node
    BY <1>2, ElementOfSeq
  <2> QED
    BY <1>1, <1>2, <1>4, <2>1 DEF HoldsAllBut, ReadyInv
<1>11. MirrorInv'
  BY <1>1, <1>2, <1>4 DEF IInv, MirrorInv, Done, Outcomes
<1>12. AttemptInv'
  BY <1>1, <1>2, <1>4, ExecutorAssumption DEF IInv, TypeOK, AttemptInv
<1>13. PoolInv'
  <2>1. InFlight' = InFlight \union {n}
    BY <1>3, <1>4 DEF InFlight
  <2>2. n \notin InFlight
    BY <1>2 DEF InFlight
  <2>3. IsFiniteSet(InFlight) /\ Cardinality(InFlight) \in Nat
    BY NodeSubset DEF InFlight
  <2>4. Cardinality(InFlight') = Cardinality(InFlight) + 1
    BY <2>1, <2>2, <2>3, FS_AddElement
  <2> QED
    BY <1>1, <2>3, <2>4, ExecutorAssumption DEF PoolInv
<1>14. OrderInv'
  <2>1. ~ \E d \in Needed(n) : Unsuccessful(d)
    <3>1. \A d \in deps[n] : d \in Node
      BY <1>3 DEF IInv, TypeOK
    <3>2. unsuccessful = {d \in Node : progress[d] \in {"failed", "blocked"}}
      BY DEF IInv, MirrorInv
    <3> QED
      BY <1>1, <3>1, <3>2 DEF FailedDependencies, Needed, Unsuccessful
  <2>2. \A d \in Node : Unsuccessful(d)' <=> Unsuccessful(d)
    BY <1>2, <1>4 DEF Unsuccessful
  <2>3. \A m \in Node : deps[m] \subseteq Node /\ Needed(m) \subseteq Node
    BY DEF IInv, TypeOK, Needed
  <2> SUFFICES ASSUME NEW m \in Registered,
                      progress'[m] \in {"running", "succeeded", "failed", "blocked"}
               PROVE  /\ \A d \in deps[m] : Terminal(d)'
                      /\ progress'[m] = "blocked" <=> \E d \in Needed(m) : Unsuccessful(d)'
    BY <1>1 DEF OrderInv, OrderRespected, Needed, Registered
  <2>4. m \in Node
    BY DEF Registered
  <2>5. (\E d \in Needed(m) : Unsuccessful(d)') <=> (\E d \in Needed(m) : Unsuccessful(d))
    BY <2>2, <2>3, <2>4
  <2>6. CASE m = n
    BY <1>2, <1>4, <1>7, <2>1, <2>3, <2>4, <2>5, <2>6
  <2>7. CASE m # n
    <3>1. /\ \A d \in deps[m] : Terminal(d)
          /\ progress[m] = "blocked" <=> \E d \in Needed(m) : Unsuccessful(d)
      BY <1>2, <1>4, <2>4, <2>7 DEF IInv, OrderInv, OrderRespected
    <3> QED
      BY <1>4, <1>7, <2>3, <2>4, <2>5, <2>7, <3>1
  <2> QED
    BY <2>6, <2>7
<1>15. InputsComplete'
  <2> SUFFICES ASSUME NEW m \in Node, future'[m] \in {"executing"} \union Outcomes
               PROVE  /\ inputs[m] = {d \in deps[m] : progress'[d] = "succeeded"}
                      /\ Needed(m) \subseteq inputs[m]
    BY <1>1 DEF InputsComplete, Needed
  <2>1. m # n /\ future[m] \in {"executing"} \union Outcomes
    BY <1>4 DEF Outcomes
  <2>2. \A d \in deps[m] : progress'[d] = "succeeded" <=> progress[d] = "succeeded"
    BY <1>2, <1>4 DEF IInv, TypeOK
  <2> QED
    BY <2>1, <2>2 DEF IInv, InputsComplete
<1> QED
  BY <1>5, <1>6, <1>8, <1>9, <1>10, <1>11, <1>12, <1>13, <1>14, <1>15 DEF IInv

\* What collecting a future knows about its node, and does to the futures.
LEMMA Collected ==
  ASSUME IInv, NEW n \in Node, Collecting(n)
  PROVE  /\ Started /\ phase = "running" /\ n \in Registered
         /\ progress[n] = "running" /\ ~Terminal(n)
         /\ indeg[n] = 0 /\ \A d \in deps[n] : Terminal(d)
         /\ ~ \E d \in Needed(n) : Unsuccessful(d)
         /\ HoldsAllBut(ready, n)
         /\ pc' \in {"dispatch", "collect"}
         /\ future' \in [Node -> FutureStates]
         /\ \A m \in Node : future'[m] = IF m = n THEN "none" ELSE future[m]
         /\ InFlight' \subseteq InFlight
         /\ completed' \subseteq Done'
         /\ pc' # "collect" => completed' = {}
<1>1. /\ phase = "running" /\ pc = "collect" /\ n \in completed
      /\ completed' = completed \ {n}
      /\ pc' = IF completed = {n} THEN "dispatch" ELSE "collect"
      /\ future' = [future EXCEPT ![n] = "none"]
  BY DEF Collecting
<1>2. Started
  BY <1>1 DEF Started
<1>3. future[n] # "none" /\ progress[n] = "running"
  BY <1>1 DEF IInv, MirrorInv, Done, Outcomes
<1>4. n \in Registered /\ ~Terminal(n)
  BY <1>2, <1>3 DEF IInv, GraphInv, Started, Registered, Terminal, TerminalStates
<1>5. /\ \A d \in deps[n] : Terminal(d)
      /\ ~ \E d \in Needed(n) : Unsuccessful(d)
  BY <1>2, <1>3, <1>4 DEF IInv, OrderInv, OrderRespected
<1>6. indeg[n] = 0
  <2>1. {d \in deps[n] : ~Terminal(d)} = {}
    BY <1>5
  <2>2. indeg[n] = Cardinality({d \in deps[n] : ~Terminal(d)})
    BY <1>2, <1>4 DEF IInv, IndegInv
  <2> QED
    BY <2>1, <2>2, FS_EmptySet
<1>7. HoldsAllBut(ready, n)
  BY <1>2, <1>3 DEF IInv, ReadyInv, HoldsAllBut
<1>8. \A m \in Node : future'[m] = IF m = n THEN "none" ELSE future[m]
  BY <1>1 DEF IInv, TypeOK
<1>9. future' \in [Node -> FutureStates]
  BY <1>1 DEF IInv, TypeOK, FutureStates
<1>10. InFlight' \subseteq InFlight
  BY <1>8 DEF InFlight
<1>11. completed' \subseteq Done'
  BY <1>1, <1>8 DEF IInv, MirrorInv, Done
<1>12. pc' \in {"dispatch", "collect"} /\ (pc' # "collect" => completed' = {})
  BY <1>1
<1> QED
  BY <1>1, <1>2, <1>3, <1>4, <1>5, <1>6, <1>7, <1>8, <1>9, <1>10, <1>11, <1>12

LEMMA RetryIInv == ASSUME IInv, NEW n \in Node, CollectRetry(n) PROVE IInv'
<1>1. /\ Collecting(n) /\ attempts[n] <= MaxRetries
      /\ Transition(n, "pending")
      /\ ready' = Append(ready, n)
      /\ UNCHANGED <<rank, deps, tolerant, indeg, attempts, unsuccessful, results,
                     interrupted, inputs, runStatus>>
  BY DEF CollectRetry, graph
<1>2. /\ Started /\ phase = "running" /\ n \in Registered
      /\ progress[n] = "running" /\ ~Terminal(n)
      /\ indeg[n] = 0 /\ \A d \in deps[n] : Terminal(d)
      /\ HoldsAllBut(ready, n)
      /\ pc' \in {"dispatch", "collect"}
      /\ future' \in [Node -> FutureStates]
      /\ \A m \in Node : future'[m] = IF m = n THEN "none" ELSE future[m]
      /\ InFlight' \subseteq InFlight
      /\ completed' \subseteq Done'
      /\ pc' # "collect" => completed' = {}
  BY <1>1, Collected
<1>3. phase' = phase /\ progress' = [progress EXCEPT ![n] = "pending"] /\ Started'
  BY <1>1, <1>2 DEF Transition, Terminal, Started
<1>4. \A m \in Node : progress'[m] = IF m = n THEN "pending" ELSE progress[m]
  BY <1>3 DEF IInv, TypeOK
<1>5. /\ ready \in Seq(Node) /\ ready' \in Seq(Node)
      /\ Len(ready) \in Nat /\ Len(ready') = Len(ready) + 1
      /\ \A i \in 1..Len(ready) : ready'[i] = ready[i] /\ ready[i] \in Node
      /\ ready'[Len(ready) + 1] = n
  BY <1>1 DEF IInv, TypeOK
<1>6. TypeOK'
  BY <1>1, <1>2, <1>3, <1>5 DEF IInv, TypeOK, ProgressStates, Done
<1>7. NotStarted'
  BY <1>3 DEF NotStarted
<1>8. \A m \in Node : Terminal(m)' <=> Terminal(m)
  BY <1>2, <1>4 DEF Terminal, TerminalStates
<1>9. GraphInv'
  <2>1. \A m \in Node :
          rank[m] > 0 <=> progress[m] \in {"pending", "running", "succeeded", "failed", "blocked"}
    BY <1>2 DEF IInv, GraphInv, Started
  <2> QED
    BY <1>1, <1>2, <1>4, <2>1 DEF IInv, GraphInv, Registered
<1>10. IndegInv'
  <2> SUFFICES ASSUME NEW m \in Registered
               PROVE  indeg[m] = Cardinality({d \in deps[m] : ~Terminal(d)'})
    BY <1>1 DEF IndegInv, Registered
  <2>1. {d \in deps[m] : ~Terminal(d)'} = {d \in deps[m] : ~Terminal(d)}
    BY <1>8 DEF IInv, TypeOK, Registered
  <2> QED
    BY <1>2, <2>1 DEF IInv, IndegInv
<1>11. ReadyInv'
  <2>1. \A i \in 1..Len(ready') : i \in 1..Len(ready) \/ i = Len(ready) + 1
    BY <1>5
  <2>2. \A i \in 1..Len(ready') : progress'[ready'[i]] = "pending" /\ indeg[ready'[i]] = 0
    BY <1>2, <1>4, <1>5, <2>1 DEF HoldsAllBut
  <2>3. \A i, j \in 1..Len(ready') : ready'[i] = ready'[j] => i = j
    BY <1>2, <1>5, <2>1 DEF HoldsAllBut
  <2>4. ASSUME NEW m \in Node, progress'[m] = "pending", indeg[m] = 0
        PROVE  \E i \in 1..Len(ready') : ready'[i] = m
    <3>1. CASE m = n
      <4>1. Len(ready) + 1 \in 1..Len(ready')
        BY <1>5
      <4> QED
        BY <1>5, <3>1, <4>1
    <3>2. CASE m # n
      <4>1. PICK i \in 1..Len(ready) : ready[i] = m
        BY <1>2, <1>4, <2>4, <3>2 DEF HoldsAllBut
      <4>2. i \in 1..Len(ready')
        BY <1>5
      <4> QED
        BY <1>5, <4>1, <4>2
    <3> QED
      BY <3>1, <3>2
  <2> QED
    BY <1>1, <2>2, <2>3, <2>4 DEF ReadyInv
<1>12. MirrorInv'
  BY <1>1, <1>2, <1>4 DEF IInv, MirrorInv
<1>13. AttemptInv'
  BY <1>1, <1>4 DEF IInv, AttemptInv
<1>14. PoolInv'
  <2>1. IsFiniteSet(InFlight) /\ Cardinality(InFlight) \in Nat /\ Cardinality(InFlight') \in Nat
    BY NodeSubset DEF InFlight
  <2>2. Cardinality(InFlight') <= Cardinality(InFlight)
    BY <1>2, <2>1, FS_Subset
  <2> QED
    BY <2>1, <2>2, ExecutorAssumption DEF IInv, PoolInv
<1>15. OrderInv'
  <2>1. \A d \in Node : Unsuccessful(d)' <=> Unsuccessful(d)
    BY <1>2, <1>4 DEF Unsuccessful
  <2>2. \A m \in Node : deps[m] \subseteq Node /\ Needed(m) \subseteq Node
    BY DEF IInv, TypeOK, Needed
  <2> SUFFICES ASSUME NEW m \in Registered,
                      progress'[m] \in {"running", "succeeded", "failed", "blocked"}
               PROVE  /\ \A d \in deps[m] : Terminal(d)'
                      /\ progress'[m] = "blocked" <=> \E d \in Needed(m) : Unsuccessful(d)'
    BY <1>1 DEF OrderInv, OrderRespected, Needed, Registered
  <2>3. m \in Node /\ progress'[m] = progress[m]
    BY <1>4 DEF Registered
  <2>4. /\ \A d \in deps[m] : Terminal(d)
        /\ progress[m] = "blocked" <=> \E d \in Needed(m) : Unsuccessful(d)
    BY <1>2, <2>3 DEF IInv, OrderInv, OrderRespected
  <2> QED
    BY <1>8, <2>1, <2>2, <2>3, <2>4
<1>16. InputsComplete'
  <2> SUFFICES ASSUME NEW m \in Node, future'[m] \in {"executing"} \union Outcomes
               PROVE  /\ inputs[m] = {d \in deps[m] : progress'[d] = "succeeded"}
                      /\ Needed(m) \subseteq inputs[m]
    BY <1>1 DEF InputsComplete, Needed
  <2>1. m # n /\ future[m] \in {"executing"} \union Outcomes
    BY <1>2 DEF Outcomes
  <2>2. \A d \in deps[m] : progress'[d] = "succeeded" <=> progress[d] = "succeeded"
    BY <1>2, <1>4 DEF IInv, TypeOK
  <2> QED
    BY <2>1, <2>2 DEF IInv, InputsComplete
<1> QED
  BY <1>6, <1>7, <1>9, <1>10, <1>11, <1>12, <1>13, <1>14, <1>15, <1>16 DEF IInv

LEMMA SettleIInv ==
  ASSUME IInv, NEW n \in Node, CollectFailure(n) \/ CollectSuccess(n)
  PROVE  IInv'
<1> DEFINE s == IF future[n] = "ok" THEN "succeeded" ELSE "failed"
<1>1. /\ Collecting(n)
      /\ s = "failed" => attempts[n] > MaxRetries
      /\ unsuccessful' = IF s = "failed" THEN unsuccessful \union {n} ELSE unsuccessful
      /\ results' = IF s = "succeeded" THEN results \union {n} ELSE results
      /\ Transition(n, s) /\ Release(n, ready)
      /\ UNCHANGED <<rank, deps, tolerant, attempts, inputs, runStatus>>
  BY DEF CollectFailure, CollectSuccess, graph
<1>2. interrupted' \in BOOLEAN
  <2>1. interrupted \in BOOLEAN
    BY DEF IInv, TypeOK
  <2>2. CASE CollectFailure(n)
    BY <2>2, Zenon DEF CollectFailure
  <2>3. CASE CollectSuccess(n)
    BY <2>1, <2>3, Zenon DEF CollectSuccess
  <2> QED
    BY <2>2, <2>3
<1>3. s \in {"failed", "succeeded"}
  OBVIOUS
<1> HIDE DEF s
<1>4. /\ Started /\ phase = "running" /\ n \in Registered
      /\ progress[n] = "running" /\ ~Terminal(n)
      /\ \A d \in deps[n] : Terminal(d)
      /\ ~ \E d \in Needed(n) : Unsuccessful(d)
      /\ HoldsAllBut(ready, n)
      /\ pc' \in {"dispatch", "collect"}
      /\ future' \in [Node -> FutureStates]
      /\ \A m \in Node : future'[m] = IF m = n THEN "none" ELSE future[m]
      /\ InFlight' \subseteq InFlight
      /\ completed' \subseteq Done'
      /\ pc' # "collect" => completed' = {}
  BY <1>1, Collected
<1>5. /\ phase' = phase /\ progress' = [progress EXCEPT ![n] = s]
      /\ indeg' \in [Node -> Int] /\ ready' \in Seq(Node)
      /\ GraphInv' /\ IndegInv' /\ ReadyInv' /\ OrderInv'
  <2>1. UNCHANGED graph
    BY <1>1 DEF graph
  <2>2. s = "blocked" <=> \E d \in Needed(n) : Unsuccessful(d)
    BY <1>3, <1>4
  <2>3. ready \in Seq(Node)
    BY DEF IInv, TypeOK
  <2> QED
    BY <1>1, <1>3, <1>4, <2>1, <2>2, <2>3, Settle
<1>6. \A m \in Node : progress'[m] = IF m = n THEN s ELSE progress[m]
  BY <1>5 DEF IInv, TypeOK
<1>7. TypeOK'
  <2>1. progress' \in [Node -> ProgressStates]
    BY <1>3, <1>5 DEF IInv, TypeOK, ProgressStates, TerminalStates
  <2>2. unsuccessful' \subseteq Node /\ results' \subseteq Node /\ completed' \subseteq Node
    BY <1>1, <1>4 DEF IInv, TypeOK, Done
  <2> QED
    BY <1>1, <1>2, <1>4, <1>5, <2>1, <2>2 DEF IInv, TypeOK
<1>8. NotStarted'
  BY <1>4, <1>5 DEF NotStarted, Started
<1>9. MirrorInv'
  <2>1. unsuccessful' = {m \in Node : progress'[m] \in {"failed", "blocked"}}
    BY <1>1, <1>3, <1>4, <1>6 DEF IInv, MirrorInv
  <2>2. results' = {m \in Node : progress'[m] = "succeeded"}
    BY <1>1, <1>3, <1>4, <1>6 DEF IInv, MirrorInv
  <2>3. \A m \in Node : future'[m] # "none" <=> progress'[m] = "running"
    BY <1>3, <1>4, <1>6 DEF IInv, MirrorInv
  <2> QED
    BY <1>4, <2>1, <2>2, <2>3 DEF MirrorInv
<1>10. AttemptInv'
  BY <1>1, <1>3, <1>4, <1>6, ExecutorAssumption DEF IInv, AttemptInv, TypeOK
<1>11. PoolInv'
  <2>1. IsFiniteSet(InFlight) /\ Cardinality(InFlight) \in Nat /\ Cardinality(InFlight') \in Nat
    BY NodeSubset DEF InFlight
  <2>2. Cardinality(InFlight') <= Cardinality(InFlight)
    BY <1>4, <2>1, FS_Subset
  <2> QED
    BY <2>1, <2>2, ExecutorAssumption DEF IInv, PoolInv
<1>12. InputsComplete'
  <2> SUFFICES ASSUME NEW m \in Node, future'[m] \in {"executing"} \union Outcomes
               PROVE  /\ inputs[m] = {d \in deps[m] : progress'[d] = "succeeded"}
                      /\ Needed(m) \subseteq inputs[m]
    BY <1>1 DEF InputsComplete, Needed
  <2>1. m # n /\ future[m] \in {"executing"} \union Outcomes
    BY <1>4 DEF Outcomes
  <2>2. progress[m] = "running" /\ m \in Registered
    BY <1>4, <2>1 DEF IInv, MirrorInv, GraphInv, Started, Registered, Outcomes
  <2>3. \A d \in deps[m] : d # n /\ d \in Node
    BY <1>4, <2>2 DEF IInv, OrderInv, OrderRespected, TypeOK
  <2>4. \A d \in deps[m] : progress'[d] = progress[d]
    BY <1>6, <2>3
  <2> QED
    BY <2>1, <2>4 DEF IInv, InputsComplete
<1> QED
  BY <1>5, <1>7, <1>8, <1>9, <1>10, <1>11, <1>12 DEF IInv

LEMMA MoveIInv ==
  ASSUME IInv, StartWait \/ WaitReturns \/ Finish \/ Interrupt \/ PoolShutdown
  PROVE  IInv'
<1>0. UNCHANGED <<rank, deps, tolerant, progress, indeg, ready, attempts, unsuccessful,
                  results, interrupted, future, inputs>>
  BY DEF StartWait, WaitReturns, Finish, Interrupt, PoolShutdown, graph, loop, worker
<1>1. /\ Started /\ Started' /\ phase' \in Phases
      /\ phase \in {"draining", "interrupted"} => phase' \in {"draining", "interrupted"}
  BY DEF StartWait, WaitReturns, Finish, Interrupt, PoolShutdown, Started, Phases
<1>2. runStatus' \in {"none", "succeeded", "failed", "interrupted"}
  <2>1. runStatus \in {"none", "succeeded", "failed", "interrupted"}
    BY DEF IInv, TypeOK
  <2> QED
    BY <2>1 DEF StartWait, WaitReturns, Finish, Interrupt, PoolShutdown, FinalStatus
<1>3. pc \in {"dispatch", "wait", "collect"} /\ completed \subseteq Done /\ (pc # "collect" => completed = {})
  BY DEF IInv, TypeOK, MirrorInv
<1>4. /\ pc' \in {"dispatch", "wait", "collect"}
      /\ completed' \subseteq Done
      /\ pc' # "collect" => completed' = {}
  BY <1>3 DEF StartWait, WaitReturns, Finish, Interrupt, PoolShutdown, loop
<1> QED
  BY <1>0, <1>1, <1>2, <1>4, QuietIInv

LEMMA StutterIInv == IInv /\ UNCHANGED vars => IInv'
<1> SUFFICES ASSUME IInv, UNCHANGED vars PROVE IInv'
  OBVIOUS
<1> USE DEF vars, graph, loop, worker
<1>1. TypeOK' /\ NotStarted' /\ GraphInv' /\ AttemptInv'
  BY DEF IInv, TypeOK, NotStarted, GraphInv, AttemptInv, Started, Registered
<1>2. MirrorInv' /\ PoolInv' /\ InputsComplete'
  BY DEF IInv, MirrorInv, PoolInv, InputsComplete, InFlight, Done, Needed
<1>3. IndegInv' /\ ReadyInv'
  BY DEF IInv, IndegInv, ReadyInv, Started, Registered, Terminal
<1>4. OrderInv'
  BY DEF IInv, OrderInv, OrderRespected, Started, Registered, Terminal, Unsuccessful, Needed
<1> QED
  BY <1>1, <1>2, <1>3, <1>4 DEF IInv

LEMMA NextIInv == IInv /\ [Next]_vars => IInv'
<1> SUFFICES ASSUME IInv, [Next]_vars PROVE IInv'
  OBVIOUS
<1>1. CASE Build
  BY <1>1, BuildIInv
<1>2. CASE StartRun \/ StartRejected
  BY <1>2, StartIInv
<1>3. CASE DispatchBlocked
  BY <1>3, BlockedIInv
<1>4. CASE DispatchRun
  BY <1>4, RunIInv
<1>5. CASE \E n \in Node : CollectRetry(n)
  BY <1>5, RetryIInv
<1>6. CASE \E n \in Node : CollectFailure(n) \/ CollectSuccess(n)
  BY <1>6, SettleIInv
<1>7. CASE StartWait \/ WaitReturns \/ Finish \/ Interrupt \/ PoolShutdown
  BY <1>7, MoveIInv
<1>8. CASE \E n \in Node : Worker(n)
  BY <1>8, WorkerIInv
<1>9. CASE UNCHANGED vars
  BY <1>9, StutterIInv
<1> QED
  BY <1>1, <1>2, <1>3, <1>4, <1>5, <1>6, <1>7, <1>8, <1>9 DEF Next, Coordinator

\* IInv holds in every state of every run, whatever the graph, the number of
\* threads and of retries.
THEOREM Invariance == Spec => []IInv
BY InitIInv, NextIInv, PTL DEF Spec

\* Every variable keeps its type.
THEOREM TypeCorrect == Spec => []TypeOK
<1>1. IInv => TypeOK
  BY DEF IInv
<1> QED
  BY <1>1, Invariance, PTL

\* Every attempt reads exactly the results of the dependencies that succeeded,
\* and lacks only failed dependencies it tolerates.
THEOREM InputsCompleteCorrect == Spec => []InputsComplete
<1>1. IInv => InputsComplete
  BY DEF IInv
<1> QED
  BY <1>1, Invariance, PTL

\* No node starts or settles before its dependencies, and a node is blocked
\* exactly when a dependency it needs failed or was blocked.
THEOREM OrderCorrect == Spec => []OrderRespected
<1>1. IInv => OrderRespected
  BY DEF IInv, OrderInv, NotStarted, OrderRespected, Registered
<1> QED
  BY <1>1, Invariance, PTL

\* The pool is never given more attempts than threads, nor a node more
\* attempts than its retries allow.
THEOREM BoundsCorrect == Spec => []BoundsRespected
<1>1. IInv => BoundsRespected
  BY DEF IInv, PoolInv, AttemptInv, BoundsRespected
<1> QED
  BY <1>1, Invariance, PTL

\* While a run goes on every unsettled node is in the deque once, in the
\* pool, or behind as many unsettled dependencies as its in-degree says.
THEOREM NoLostNodeCorrect == Spec => []NoLostNode
<1>1. IInv => NoLostNode
  <2> SUFFICES ASSUME IInv, phase = "running"
               PROVE  /\ \A n \in Registered :
                           indeg[n] = Cardinality({d \in deps[n] : ~Terminal(d)})
                      /\ {n \in Registered : ~Terminal(n)} = Queued \union InFlight \union Waiting
                      /\ Queued \intersect InFlight = {}
                      /\ (Queued \union InFlight) \intersect Waiting = {}
                      /\ \A i, j \in 1..Len(ready) : ready[i] = ready[j] => i = j
    BY DEF NoLostNode
  <2>1. Started
    BY DEF Started
  <2>2. \A n \in Registered :
          /\ indeg[n] = Cardinality({d \in deps[n] : ~Terminal(d)})
          /\ indeg[n] \in Nat
    <3> SUFFICES ASSUME NEW n \in Registered
                 PROVE  /\ indeg[n] = Cardinality({d \in deps[n] : ~Terminal(d)})
                        /\ indeg[n] \in Nat
      OBVIOUS
    <3>1. {d \in deps[n] : ~Terminal(d)} \in SUBSET Node
      BY DEF IInv, TypeOK, Registered
    <3>2. Cardinality({d \in deps[n] : ~Terminal(d)}) \in Nat
      BY <3>1, NodeSubset
    <3> QED
      BY <2>1, <3>2 DEF IInv, IndegInv
  <2>3. \A n \in Node : n \in Queued <=> progress[n] = "pending" /\ indeg[n] = 0
    <3>1. \A i \in 1..Len(ready) : ready[i] \in Node
      BY ElementOfSeq DEF IInv, TypeOK
    <3> QED
      BY <2>1, <3>1 DEF IInv, ReadyInv, Queued
  <2>4. Queued \subseteq Node
    BY ElementOfSeq DEF IInv, TypeOK, Queued
  <2>5. \A n \in Node : n \in InFlight <=> progress[n] = "running"
    BY DEF IInv, MirrorInv, InFlight
  <2>6. \A n \in Node : n \in Registered /\ ~Terminal(n) <=> progress[n] \in {"pending", "running"}
    BY <2>1 DEF IInv, GraphInv, Started, Registered, Terminal, TerminalStates
  <2>7. \A n \in InFlight : indeg[n] = 0
    <3> SUFFICES ASSUME NEW n \in InFlight PROVE indeg[n] = 0
      OBVIOUS
    <3>1. n \in Registered /\ progress[n] = "running"
      BY <2>5, <2>6 DEF InFlight
    <3>2. {d \in deps[n] : ~Terminal(d)} = {}
      BY <2>1, <3>1 DEF IInv, OrderInv, OrderRespected
    <3> QED
      BY <2>2, <3>1, <3>2, FS_EmptySet
  <2>8. \A n \in Waiting : ~Terminal(n)
    <3> SUFFICES ASSUME NEW n \in Waiting, Terminal(n) PROVE FALSE
      OBVIOUS
    <3>1. n \in Registered /\ indeg[n] > 0
      BY DEF Waiting
    <3>2. progress[n] \in {"succeeded", "failed", "blocked"}
      BY <2>1, <3>1 DEF IInv, GraphInv, Started, Registered, Terminal, TerminalStates
    <3>3. {d \in deps[n] : ~Terminal(d)} = {}
      BY <2>1, <3>1, <3>2 DEF IInv, OrderInv, OrderRespected
    <3>4. indeg[n] = 0
      BY <2>2, <3>1, <3>3, FS_EmptySet
    <3> QED
      BY <3>1, <3>4
  <2>9. Waiting \subseteq Registered /\ \A n \in Registered : n \in Waiting <=> indeg[n] # 0
    <3>1. \A n \in Registered : indeg[n] \in Nat
      BY <2>2
    <3>2. \A n \in Registered : indeg[n] > 0 <=> indeg[n] # 0
      BY <3>1
    <3> QED
      BY <3>2 DEF Waiting
  <2>10. Registered \subseteq Node /\ InFlight \subseteq Node
    BY DEF Registered, InFlight
  <2>11. {n \in Registered : ~Terminal(n)} = Queued \union InFlight \union Waiting
    BY <2>3, <2>4, <2>5, <2>6, <2>8, <2>9, <2>10
  <2>12. Queued \intersect InFlight = {}
    BY <2>3, <2>5, <2>10
  <2>13. (Queued \union InFlight) \intersect Waiting = {}
    BY <2>3, <2>4, <2>7, <2>9
  <2> QED
    BY <2>2, <2>11, <2>12, <2>13 DEF IInv, ReadyInv
<1> QED
  BY <1>1, Invariance, PTL

-----------------------------------------------------------------------------
(* What the steps of the coordinator do to a node                          *)

LEMMA BlockedNode ==
  ASSUME IInv, DispatchBlocked, NEW n, n = Head(ready)
  PROVE  /\ n \in Registered /\ progress[n] = "pending" /\ phase' = phase
         /\ progress' = [progress EXCEPT ![n] = "blocked"]
         /\ \A d \in deps[n] : Terminal(d)
         /\ \E d \in Needed(n) : Unsuccessful(d)
         /\ FailedDependencies(n) # {} /\ unsuccessful' = unsuccessful \union {n}
         /\ UNCHANGED <<rank, deps, tolerant, attempts, future, interrupted, runStatus>>
<1>1. MayDispatch /\ FailedDependencies(n) # {} /\ Transition(n, "blocked")
  BY DEF DispatchBlocked
<1>2. n \in Registered /\ progress[n] = "pending" /\ ~Terminal(n) /\ \A d \in deps[n] : Terminal(d)
  BY <1>1, HeadOfReady
<1>3. \E d \in Needed(n) : Unsuccessful(d)
  BY <1>1 DEF FailedDependencies, Needed, Unsuccessful, IInv, MirrorInv
<1> QED
  BY <1>1, <1>2, <1>3 DEF Transition, Terminal, DispatchBlocked, graph, worker

LEMMA DispatchedNode ==
  ASSUME IInv, DispatchRun, NEW n, n = Head(ready)
  PROVE  /\ n \in Registered /\ progress[n] = "pending" /\ phase' = phase
         /\ future[n] = "none"
         /\ progress' = [progress EXCEPT ![n] = "running"]
         /\ attempts' = [attempts EXCEPT ![n] = @ + 1]
         /\ future' = [future EXCEPT ![n] = "submitted"]
         /\ \A d \in deps[n] : Terminal(d)
         /\ FailedDependencies(n) = {}
         /\ UNCHANGED <<rank, deps, tolerant, unsuccessful, interrupted, runStatus>>
<1>1. MayDispatch /\ Transition(n, "running")
  BY DEF DispatchRun
<1>2. /\ n \in Registered /\ progress[n] = "pending" /\ ~Terminal(n) /\ future[n] = "none"
      /\ \A d \in deps[n] : Terminal(d)
  BY <1>1, HeadOfReady
<1> QED
  BY <1>1, <1>2 DEF Transition, Terminal, DispatchRun, graph

LEMMA CollectedNode ==
  ASSUME IInv, NEW n \in Node, CollectRetry(n) \/ CollectFailure(n) \/ CollectSuccess(n)
  PROVE  /\ n \in Registered /\ progress[n] = "running" /\ future[n] \in Outcomes
         /\ phase' = phase /\ phase = "running"
         /\ progress' = [progress EXCEPT ![n] = IF CollectRetry(n) THEN "pending"
                                                ELSE IF future[n] = "ok" THEN "succeeded"
                                                ELSE "failed"]
         /\ CollectRetry(n) => future[n] # "ok"
         /\ future' = [future EXCEPT ![n] = "none"]
         /\ \A d \in deps[n] : Terminal(d)
         /\ ~ \E d \in Needed(n) : Unsuccessful(d)
         /\ unsuccessful' = IF progress'[n] = "failed" THEN unsuccessful \union {n} ELSE unsuccessful
         /\ progress'[n] = "failed" \/ interrupted' = interrupted
         /\ UNCHANGED <<rank, deps, tolerant, attempts, runStatus>>
<1>1. Collecting(n)
  BY DEF CollectRetry, CollectFailure, CollectSuccess
<1>2. /\ n \in Registered /\ progress[n] = "running" /\ ~Terminal(n) /\ phase = "running"
      /\ \A d \in deps[n] : Terminal(d)
      /\ ~ \E d \in Needed(n) : Unsuccessful(d)
  BY <1>1, Collected
<1>3. future[n] \in Outcomes /\ future' = [future EXCEPT ![n] = "none"]
  BY <1>1 DEF Collecting, IInv, MirrorInv, Done
<1>4. ~ (CollectRetry(n) /\ (CollectFailure(n) \/ CollectSuccess(n)))
  <2>1. attempts[n] \in Int /\ MaxRetries \in Int
    BY ExecutorAssumption DEF IInv, TypeOK
  <2> QED
    BY <2>1 DEF CollectRetry, CollectFailure, CollectSuccess
<1>5. /\ phase' = phase
      /\ progress' = [progress EXCEPT ![n] = IF CollectRetry(n) THEN "pending"
                                             ELSE IF future[n] = "ok" THEN "succeeded"
                                             ELSE "failed"]
  BY <1>2, <1>4 DEF CollectRetry, CollectFailure, CollectSuccess, Transition, Terminal
<1>6. progress \in [Node -> ProgressStates]
  BY DEF IInv, TypeOK
<1>7. /\ unsuccessful' = IF progress'[n] = "failed" THEN unsuccessful \union {n} ELSE unsuccessful
      /\ progress'[n] = "failed" \/ interrupted' = interrupted
      /\ UNCHANGED <<rank, deps, tolerant, attempts, runStatus>>
  BY <1>4, <1>5, <1>6 DEF CollectRetry, CollectFailure, CollectSuccess, graph
<1> QED
  BY <1>2, <1>3, <1>5, <1>7 DEF CollectRetry

-----------------------------------------------------------------------------
(* The executor implements TaskGraphRun                                    *)

\* The status of a task that runs, in a started executor.
LEMMA StatusOf ==
  ASSUME IInv, Started, phase # "rejected", NEW n \in Registered
  PROVE  /\ n \in Node
         /\ taskStatus[n] = IF progress[n] \in {"pending", "running"} THEN "waiting"
                            ELSE progress[n]
         /\ Declared(deps)[n] = deps[n] /\ Declared(tolerant)[n] = tolerant[n]
         /\ Terminal(n) <=> taskStatus[n] \in Abstract!Settled
BY DEF IInv, GraphInv, Registered, taskStatus, Declared, Terminal, TerminalStates, Abstract!Settled

LEMMA SimulateSame ==
  ASSUME UNCHANGED <<rank, deps, tolerant>>,
         \A n \in Node : taskStatus'[n] = taskStatus[n]
  PROVE  UNCHANGED Abstract!vars
<1>1. taskStatus' = taskStatus
  BY DEF taskStatus
<1>2. Declared(deps)' = Declared(deps) /\ Declared(tolerant)' = Declared(tolerant)
  BY <1>1 DEF Declared
<1> QED
  BY <1>1, <1>2 DEF Abstract!vars

LEMMA SimulateAdd ==
  ASSUME IInv, NEW n \in Node, AddTask(n)
  PROVE  Abstract!Declare(n) \/ UNCHANGED Abstract!vars
<1>1. /\ phase = "building" /\ rank[n] = 0
      /\ rank' = [rank EXCEPT ![n] = Cardinality(Registered) + 1]
      /\ IF progress[n] = "absent"
           THEN progress' = [progress EXCEPT ![n] = "pending"]
           ELSE UNCHANGED progress
  BY DEF AddTask
<1>2. PICK d \in SUBSET Node :
        \E t \in SUBSET d : /\ deps' = [deps EXCEPT ![n] = d]
                           /\ tolerant' = [tolerant EXCEPT ![n] = t]
  BY DEF AddTask
<1>3. PICK t \in SUBSET d : /\ deps' = [deps EXCEPT ![n] = d]
                            /\ tolerant' = [tolerant EXCEPT ![n] = t]
  BY <1>2
<1>4. rank'[n] # 0 /\ \A m \in Node : m # n => rank'[m] = rank[m]
  <2>1. Registered \in SUBSET Node
    BY DEF Registered
  <2>2. Cardinality(Registered) + 1 # 0
    BY <2>1, NodeSubset
  <2> QED
    BY <1>1, <2>2 DEF IInv, TypeOK
<1>5. /\ progress \in [Node -> ProgressStates] /\ deps \in [Node -> SUBSET Node]
      /\ tolerant \in [Node -> SUBSET Node]
  BY DEF IInv, TypeOK
<1>6. taskStatus[n] = "undeclared" /\ \A m \in Node : taskStatus[m] \notin Abstract!Settled
  BY <1>1 DEF taskStatus, Abstract!Settled, IInv, NotStarted, Started
<1>7. CASE progress[n] = "absent"
  <2>1. progress'[n] = "pending" /\ \A m \in Node : m # n => progress'[m] = progress[m]
    BY <1>1, <1>5, <1>7
  <2>2. taskStatus'[n] = "waiting" /\ \A m \in Node : m # n => taskStatus'[m] = taskStatus[m]
    BY <1>4, <2>1 DEF taskStatus
  <2>3. taskStatus' = [taskStatus EXCEPT ![n] = "waiting"]
    BY <2>2 DEF taskStatus
  <2>4. Declared(deps)' = [Declared(deps) EXCEPT ![n] = d]
    BY <1>3, <1>5, <2>2 DEF Declared
  <2>5. Declared(tolerant)' = [Declared(tolerant) EXCEPT ![n] = t]
    BY <1>3, <1>5, <2>2 DEF Declared
  <2> QED
    BY <1>6, <2>3, <2>4, <2>5 DEF Abstract!Declare
<1>8. CASE progress[n] # "absent"
  <2>1. progress[n] \in {"cached", "skipped"} /\ progress' = progress
    BY <1>1, <1>5, <1>8 DEF IInv, GraphInv, NotStarted, Started, ProgressStates, TerminalStates
  <2>2. \A m \in Node : taskStatus'[m] = taskStatus[m]
    BY <1>4, <2>1 DEF taskStatus
  <2>3. taskStatus' = taskStatus
    BY <2>2 DEF taskStatus
  <2>4. Declared(deps)' = Declared(deps) /\ Declared(tolerant)' = Declared(tolerant)
    BY <1>3, <1>5, <1>6, <2>3 DEF Declared
  <2> QED
    BY <2>3, <2>4 DEF Abstract!vars
<1> QED
  BY <1>7, <1>8

\* A node that is settled: blocked, or executed to its end.
LEMMA SimulateSettle ==
  ASSUME IInv, phase = "running", NEW n \in Registered, progress[n] \in {"pending", "running"},
         NEW s \in {"failed", "blocked", "succeeded"},
         \A d \in deps[n] : Terminal(d),
         s = "blocked" <=> \E d \in Needed(n) : Unsuccessful(d),
         progress' = [progress EXCEPT ![n] = s],
         UNCHANGED <<rank, deps, tolerant>>
  PROVE  Abstract!Execute(n) \/ Abstract!Block(n)
<1>0. Started /\ phase # "rejected" /\ n \in Node
  BY DEF Started, Registered
<1>1. /\ Declared(deps)[n] = deps[n] /\ Declared(tolerant)[n] = tolerant[n]
      /\ taskStatus[n] = "waiting"
  BY <1>0, StatusOf
<1>2. deps[n] \subseteq Registered
  BY <1>0 DEF IInv, GraphInv
<1>3. \A d \in deps[n] : taskStatus[d] \in Abstract!Settled
  BY <1>0, <1>2, StatusOf
<1>4. \A d \in deps[n] : taskStatus[d] = progress[d] /\ taskStatus[d] \in {"succeeded", "failed", "blocked"}
  <2> SUFFICES ASSUME NEW d \in deps[n] PROVE taskStatus[d] = progress[d]
    BY <1>3 DEF Abstract!Settled
  <2> QED
    BY <1>0, <1>2, <1>3, StatusOf DEF Abstract!Settled
<1>5. Abstract!Due(n)
  BY <1>1, <1>3 DEF Abstract!Due
<1>6. Abstract!Needed(n) = Needed(n)
  BY <1>1 DEF Abstract!Needed, Needed
<1>7. (\E d \in Needed(n) : taskStatus[d] # "succeeded") <=> s = "blocked"
  BY <1>4 DEF Needed, Unsuccessful
<1>8. /\ progress \in [Node -> ProgressStates] /\ rank[n] # 0
  BY DEF IInv, TypeOK, Registered
<1>9. taskStatus' = [taskStatus EXCEPT ![n] = s]
  <2>1. taskStatus'[n] = s /\ \A m \in Node : m # n => taskStatus'[m] = taskStatus[m]
    BY <1>0, <1>8 DEF taskStatus
  <2> QED
    BY <2>1, ZenonT(60) DEF taskStatus
<1>10. Declared(deps)' = Declared(deps) /\ Declared(tolerant)' = Declared(tolerant)
  <2>1. \A m \in Node : taskStatus'[m] = "undeclared" <=> taskStatus[m] = "undeclared"
    BY <1>1, <1>9 DEF taskStatus
  <2> QED
    BY <2>1 DEF Declared
<1>11. CASE s = "blocked"
  BY <1>5, <1>6, <1>7, <1>9, <1>10, <1>11 DEF Abstract!Block
<1>12. CASE s # "blocked"
  <2>1. s \in {"succeeded", "failed"}
    BY <1>12
  <2> QED
    BY <1>5, <1>6, <1>7, <1>9, <1>10, <1>12, <2>1 DEF Abstract!Execute
<1> QED
  BY <1>11, <1>12

LEMMA SimulateStep == IInv /\ [Next]_vars => [Abstract!Next]_(Abstract!vars)
<1> SUFFICES ASSUME IInv, [Next]_vars PROVE Abstract!Next \/ UNCHANGED Abstract!vars
  OBVIOUS
<1>1. CASE UNCHANGED <<rank, deps, tolerant, progress>>
  BY <1>1, SimulateSame DEF taskStatus
<1>2. ASSUME NEW n \in Node, AddTask(n) PROVE Abstract!Next \/ UNCHANGED Abstract!vars
  BY <1>2, SimulateAdd DEF Abstract!Next
<1>3. ASSUME NEW n \in Node, NEW s \in {"cached", "skipped"}, AddObserved(n, s)
      PROVE  UNCHANGED Abstract!vars
  <2>1. UNCHANGED <<rank, deps, tolerant>> /\ \A m \in Node : progress'[m] = progress[m] \/ rank[m] = 0
    BY <1>3 DEF AddObserved, graph, IInv, TypeOK
  <2> QED
    BY <2>1, SimulateSame DEF taskStatus
<1>4. CASE DispatchBlocked
  <2> DEFINE n == Head(ready)
  <2>1. /\ n \in Registered /\ progress[n] = "pending" /\ phase = "running"
        /\ progress' = [progress EXCEPT ![n] = "blocked"]
        /\ \A d \in deps[n] : Terminal(d)
        /\ \E d \in Needed(n) : Unsuccessful(d)
        /\ UNCHANGED <<rank, deps, tolerant>>
    BY <1>4, BlockedNode DEF DispatchBlocked, MayDispatch
  <2> HIDE DEF n
  <2> QED
    BY <2>1, SimulateSettle DEF Abstract!Next, Registered
<1>5. CASE DispatchRun
  <2> DEFINE n == Head(ready)
  <2>1. /\ n \in Registered /\ progress[n] = "pending"
        /\ progress' = [progress EXCEPT ![n] = "running"]
        /\ UNCHANGED <<rank, deps, tolerant>>
    BY <1>5, DispatchedNode
  <2> HIDE DEF n
  <2> QED
    BY <2>1, SimulateSame DEF taskStatus, IInv, TypeOK
<1>6. ASSUME NEW n \in Node, CollectRetry(n) \/ CollectFailure(n) \/ CollectSuccess(n)
      PROVE  Abstract!Next \/ UNCHANGED Abstract!vars
  <2>1. /\ n \in Registered /\ progress[n] = "running" /\ phase = "running"
        /\ \A d \in deps[n] : Terminal(d)
        /\ ~ \E d \in Needed(n) : Unsuccessful(d)
        /\ UNCHANGED <<rank, deps, tolerant>>
        /\ progress' = [progress EXCEPT ![n] = IF CollectRetry(n) THEN "pending"
                                               ELSE IF future[n] = "ok" THEN "succeeded"
                                               ELSE "failed"]
    BY <1>6, CollectedNode
  <2>2. CASE CollectRetry(n)
    BY <2>1, <2>2, SimulateSame DEF taskStatus, IInv, TypeOK
  <2>3. CASE ~ CollectRetry(n)
    <3>1. PICK s \in {"succeeded", "failed"} : progress' = [progress EXCEPT ![n] = s]
      BY <2>1, <2>3
    <3> QED
      BY <2>1, <3>1, SimulateSettle DEF Abstract!Next
  <2> QED
    BY <2>2, <2>3
<1>7. CASE \/ \E n \in Node : AddTaskRaises(n) \/ Worker(n)
           \/ StartRun \/ StartRejected \/ StartWait \/ WaitReturns \/ Finish \/ PoolShutdown
           \/ Interrupt \/ UNCHANGED vars
  BY <1>1, <1>7
     DEF AddTaskRaises, Worker, WorkerBegin, WorkerEnd, StartRun, StartRejected, StartWait,
         WaitReturns, Finish, PoolShutdown, Interrupt, vars, graph
<1> QED
  BY <1>2, <1>3, <1>4, <1>5, <1>6, <1>7 DEF Next, Build, Coordinator

LEMMA SimulateInit == Init => Abstract!Init
BY DEF Init, Abstract!Init, taskStatus, Declared

\* Whatever the queue, the threads and the retries do, the executor settles
\* each task of any graph once, after its prerequisites, executing it only if
\* those it needs succeeded, as TaskGraphRun says.
THEOREM Implements == Spec => ImplementsGraphRun
BY Invariance, SimulateInit, SimulateStep, PTL DEF Spec, ImplementsGraphRun, Abstract!Spec

-----------------------------------------------------------------------------
(* The executor with its reporter                                          *)

\* A line is written, and its node held, by the coordinator of a running loop,
\* which writes the first one before it submits anything.
LineInv ==
  /\ held \subseteq {n \in Node : future[n] = "submitted"}
  /\ ~ emitting => held = {}
  /\ emitting => mode # "off" /\ phase = "running" /\ pc # "wait"
  /\ heartbeat # "none" => last # NoLine
  /\ mode # "off" /\ last = NoLine /\ phase = "running" => emitting /\ InFlight = {}

LEMMA InitLineInv == RunInit => LineInv
BY DEF RunInit, Init, ReportInit, LineInv

\* What the lines are after a step of the loop.
LEMMA TellLine ==
  ASSUME LineInv, NEW after \in SUBSET Node, Tell(after),
         phase' = "running", pc' # "wait", \A n \in after : future'[n] = "submitted",
         (~ emitting /\ phase = "running") \/ InFlight' = {}
  PROVE  LineInv'
<1>1. /\ emitting' <=> mode # "off"
      /\ held' = IF mode = "off" THEN {} ELSE after
      /\ UNCHANGED <<mode, heartbeat, last>>
  <2>1. emitting' = (mode # "off") /\ held' = (IF mode = "off" THEN {} ELSE after)
    BY DEF Tell
  <2>2. emitting' <=> mode # "off"
    BY <2>1, Zenon
  <2> QED
    BY <2>1, <2>2 DEF Tell, Quiet
<1>2. heartbeat # "none" => last # NoLine
  BY DEF LineInv
<1>3. ~ emitting /\ phase = "running" /\ mode # "off" => last # NoLine
  BY DEF LineInv
<1>4. NoLine' = NoLine
  BY DEF NoLine, ProgressStates, TerminalStates
<1> QED
  BY <1>1, <1>2, <1>3, <1>4 DEF LineInv

\* A step of the loop, or of a thread, that has no line.
LEMMA UntoldLine ==
  ASSUME LineInv, UNCHANGED <<mode, emitting, held, heartbeat, last>>,
         ~ emitting, phase' = "running" => phase = "running"
  PROVE  LineInv'
<1>1. held = {} /\ NoLine' = NoLine
  BY DEF LineInv, NoLine, ProgressStates, TerminalStates
<1> QED
  BY <1>1 DEF LineInv

LEMMA LineStep == IInv /\ LineInv /\ [ReportNext]_all => LineInv'
<1> SUFFICES ASSUME IInv, LineInv, [ReportNext]_all PROVE LineInv'
  OBVIOUS
<1>0. NoLine' = NoLine /\ NoLine.by = "none"
  BY DEF NoLine, ProgressStates, TerminalStates
<1>1. CASE Build /\ UNCHANGED report
  <2>1. phase = "building" /\ phase' # "running"
    BY <1>1 DEF Build, AddTask, AddTaskRaises, AddObserved
  <2> QED
    BY <1>1, <2>1, UntoldLine DEF report, lines, LineInv
<1>2. CASE BeginRun
  <2>1. phase = "building" /\ phase' = "running" /\ UNCHANGED <<pc, future>> /\ Tell({})
    BY <1>2 DEF BeginRun, StartRun, worker
  <2>2. pc = "dispatch" /\ InFlight' = {}
    BY <2>1 DEF IInv, NotStarted, Started, MirrorInv, InFlight
  <2> QED
    BY <2>1, <2>2, TellLine
<1>3. CASE ReportBlocked
  <2>1. ~ emitting /\ phase = "running" /\ phase' = phase /\ pc' # "wait" /\ Tell({})
    BY <1>3, BlockedNode DEF ReportBlocked, DispatchBlocked, MayDispatch
  <2> QED
    BY <2>1, TellLine
<1>4. CASE ReportMoved
  <2>1. CASE DispatchRun /\ Tell({Head(ready)})
    <3>1. ~ emitting /\ phase = "running" /\ phase' = phase /\ pc' # "wait"
      BY <1>4, <2>1, DispatchedNode DEF ReportMoved, DispatchRun, MayDispatch
    <3>2. Head(ready) \in Node /\ future'[Head(ready)] = "submitted"
      BY <2>1, DispatchedNode DEF IInv, TypeOK, Registered
    <3> QED
      BY <2>1, <3>1, <3>2, TellLine
  <2>2. ASSUME NEW n \in Node, CollectRetry(n) \/ CollectFailure(n) \/ CollectSuccess(n), Tell({})
        PROVE  LineInv'
    <3>1. ~ emitting /\ phase = "running" /\ phase' = phase /\ pc' # "wait"
      BY <1>4, <2>2, CollectedNode
         DEF ReportMoved, CollectRetry, CollectFailure, CollectSuccess, Collecting
    <3> QED
      BY <2>2, <3>1, TellLine
  <2> QED
    BY <1>4, <2>1, <2>2 DEF ReportMoved
<1>5. CASE Untold
  <2>1. ~ emitting /\ UNCHANGED report /\ (phase' = "running" => phase = "running")
    BY <1>5 DEF Untold, StartRejected, StartWait, WaitReturns, PoolShutdown
  <2> QED
    BY <2>1, UntoldLine DEF report, lines
<1>6. CASE LoopEnds
  BY <1>6, UntoldLine DEF LoopEnds, Finish, lines
<1>7. ASSUME NEW n \in Node, ReportedWorker(n) PROVE LineInv'
  <2>1. /\ UNCHANGED <<phase, pc, mode, emitting, held, heartbeat, last>>
        /\ n \notin held
        /\ future[n] # "none" /\ future' \in [Node -> FutureStates]
        /\ future'[n] # "none" /\ \A m \in Node : m # n => future'[m] = future[m]
    BY <1>7
       DEF ReportedWorker, WorkerBegin, WorkerEnd, Quiet, loop, IInv, TypeOK, LineInv, Outcomes,
           FutureStates
  <2>2. InFlight' = InFlight
    BY <2>1 DEF InFlight
  <2> QED
    BY <1>0, <2>1, <2>2 DEF LineInv
<1>8. CASE Emit
  <2>1. emitting' = FALSE /\ held' = {} /\ UNCHANGED vars
    BY <1>8 DEF Emit
  <2>2. \/ last'.by = "coordinator"
        \/ last # NoLine /\ last' = last
    BY <1>8 DEF Emit
  <2>3. last' # NoLine
    BY <1>0, <2>2
  <2> QED
    BY <1>0, <2>1, <2>3 DEF LineInv
<1>9. CASE EmitFails
  <2>1. phase' # "running" /\ emitting' = FALSE /\ held' = {} /\ UNCHANGED <<heartbeat, last>>
    BY <1>9 DEF EmitFails
  <2> QED
    BY <1>0, <2>1 DEF LineInv
<1>10. CASE Interrupt /\ UNCHANGED report
  <2>1. ~ emitting /\ phase' # "running"
    BY <1>10 DEF Interrupt, LineInv
  <2> QED
    BY <1>10, <2>1, UntoldLine DEF report, lines
<1>11. CASE Heartbeat
  <2>1. UNCHANGED <<phase, pc, future, mode, emitting, held>> /\ heartbeat # "none"
    BY <1>11 DEF Heartbeat, Beat, BeatWrites, BeatStops, vars, loop, worker
  <2>2. last' = last \/ last'.by = "heartbeat"
    BY <1>11 DEF Heartbeat, Beat, BeatWrites, BeatStops
  <2>3. last' # NoLine
    BY <1>0, <2>1, <2>2 DEF LineInv
  <2> QED
    BY <1>0, <2>1, <2>3 DEF LineInv
<1>12. CASE Closing
  <2>1. UNCHANGED <<phase, pc, future, mode, emitting, held, heartbeat>>
    BY <1>12
       DEF Closing, Stop, Join, LastLine, WriteReport, Persist, Then, vars, loop, worker
  <2>2. last' = last \/ last'.by = "final"
    BY <1>12 DEF Closing, Stop, Join, LastLine, WriteReport, Persist
  <2>3. last' = NoLine => last = NoLine
    BY <1>0, <2>2
  <2> QED
    BY <1>0, <2>1, <2>3 DEF LineInv, InFlight
<1>13. CASE UNCHANGED all
  BY <1>0, <1>13 DEF all, vars, report, lines, loop, worker, LineInv, InFlight
<1> QED
  BY <1>1, <1>2, <1>3, <1>4, <1>5, <1>6, <1>7, <1>8, <1>9, <1>10, <1>11, <1>12, <1>13
     DEF ReportNext, Executing, ReportedCoordinator

\* A line that cannot be written ends the loop, and its node is not submitted.
LEMMA EmitFailsIInv == ASSUME IInv, LineInv, EmitFails PROVE IInv'
<1>1. /\ emitting /\ phase = "running" /\ phase' \in {"interrupted", "draining"}
      /\ future' = [n \in Node |-> IF n \in held THEN "none" ELSE future[n]]
      /\ UNCHANGED <<rank, deps, tolerant, progress, pc, indeg, ready, attempts, unsuccessful,
                     results, completed, interrupted, inputs, runStatus>>
  BY DEF EmitFails, graph, loop
<1>2. Started /\ Started'
  BY <1>1 DEF Started
<1>3. \A n \in Node : future'[n] = future[n] \/ (future'[n] = "none" /\ future[n] = "submitted")
  BY <1>1 DEF LineInv
<1>4. TypeOK'
  <2>1. interrupted \in BOOLEAN
    BY DEF IInv, TypeOK
  <2>2. future' \in [Node -> FutureStates] /\ phase' \in Phases
    BY <1>1 DEF IInv, TypeOK, FutureStates, Phases
  <2> QED
    BY <1>1, <2>1, <2>2 DEF IInv, TypeOK
<1>5. NotStarted' /\ OrderInv' /\ IndegInv' /\ ReadyInv'
  BY <1>1, <1>2
     DEF IInv, NotStarted, OrderInv, OrderRespected, IndegInv, ReadyInv, Registered, Terminal,
         Unsuccessful, Needed
<1>6. GraphInv'
  BY <1>1, <1>2 DEF IInv, GraphInv, Registered, Started
<1>7. MirrorInv'
  BY <1>1, <1>3 DEF IInv, MirrorInv, Done, Outcomes
<1>8. AttemptInv' /\ InputsComplete'
  BY <1>1, <1>3 DEF IInv, AttemptInv, InputsComplete, Needed, Outcomes
<1>9. PoolInv'
  <2>1. InFlight' \subseteq InFlight /\ InFlight \in SUBSET Node
    BY <1>3 DEF InFlight
  <2>2. Cardinality(InFlight') <= Cardinality(InFlight)
    BY <2>1, NodeSubset, FS_Subset
  <2>3. Cardinality(InFlight) \in Nat /\ Cardinality(InFlight') \in Nat /\ MaxWorkers \in Nat
    BY <2>1, NodeSubset, ExecutorAssumption
  <2> QED
    BY <2>2, <2>3 DEF IInv, PoolInv
<1> QED
  BY <1>4, <1>5, <1>6, <1>7, <1>8, <1>9 DEF IInv

\* What the reporter's steps are for the executor.
LEMMA ReportedStep == [ReportNext]_all => [Next]_vars \/ EmitFails
<1> SUFFICES ASSUME [ReportNext]_all PROVE [Next]_vars \/ EmitFails
  OBVIOUS
<1>1. CASE (Build \/ Interrupt) /\ UNCHANGED report
  BY <1>1 DEF Next
<1>2. CASE BeginRun \/ ReportBlocked \/ ReportMoved \/ Untold \/ LoopEnds
  BY <1>2 DEF BeginRun, ReportBlocked, ReportMoved, Untold, LoopEnds, Next, Coordinator
<1>3. ASSUME NEW n \in Node, ReportedWorker(n) PROVE Next
  BY <1>3 DEF ReportedWorker, Next, Worker
<1>4. CASE Emit \/ Heartbeat \/ Closing \/ UNCHANGED all
  BY <1>4 DEF Emit, Heartbeat, Beat, BeatWrites, BeatStops, Closing, Stop, Join, LastLine,
              WriteReport, Persist, Then, all
<1> QED
  BY <1>1, <1>2, <1>3, <1>4 DEF ReportNext, Executing, ReportedCoordinator

LEMMA ReportedIInv == IInv /\ LineInv /\ [ReportNext]_all => IInv'
BY ReportedStep, NextIInv, EmitFailsIInv

\* A command, whatever it plans, declares and runs its graph as any caller.
LEMMA CommandStep == [CommandNext]_<<all, command>> => [ReportNext]_all
<1> SUFFICES ASSUME [CommandNext]_<<all, command>> PROVE [ReportNext]_all
  OBVIOUS
<1>1. CASE stage = "caller" /\ ReportNext /\ UNCHANGED command
  BY <1>1
<1>2. CASE Load \/ PlanTargets \/ Identify \/ RunRaises \/ SumUp \/ UNCHANGED <<all, command>>
  BY <1>2 DEF Load, PlanTargets, Identify, RunRaises, SumUp
<1>3. ASSUME NEW n \in Node, AddScheduled(n) PROVE ReportNext
  BY <1>3 DEF AddScheduled, ReportNext, Build
<1>4. CASE Run
  BY <1>4 DEF Run, ReportNext
<1> QED
  BY <1>1, <1>2, <1>3, <1>4 DEF CommandNext

LEMMA CommandIInv == IInv /\ LineInv /\ [CommandNext]_<<all, command>> => IInv' /\ LineInv'
BY CommandStep, LineStep, ReportedIInv

LEMMA CommandInitIInv == CommandInit => IInv /\ LineInv
BY InitIInv, InitLineInv DEF CommandInit, RunInit

\* The inductive invariant holds of the executor under the command and its
\* reporter, whose lines may fail in the middle of a step.
THEOREM CommandInvariance == CommandSpec => [](IInv /\ LineInv)
BY CommandInitIInv, CommandIInv, PTL DEF CommandSpec

\* In a command too every attempt reads exactly the results of the
\* dependencies that succeeded.
THEOREM CommandInputsComplete == CommandSpec => []InputsComplete
<1>1. IInv => InputsComplete
  BY DEF IInv
<1> QED
  BY <1>1, CommandInvariance, PTL

\* The runs of a command implement TaskGraphRun, up to the line that cannot be
\* written.
THEOREM CommandImplements == CommandSpec => ImplementsGraphRun
<1>1. IInv /\ LineInv /\ [CommandNext]_<<all, command>> => [Abstract!Next]_(Abstract!vars)
  <2> SUFFICES ASSUME IInv, [CommandNext]_<<all, command>>
               PROVE  [Abstract!Next]_(Abstract!vars)
    OBVIOUS
  <2>1. CASE [Next]_vars
    BY <2>1, SimulateStep
  <2>2. CASE EmitFails
    BY <2>2, SimulateSame DEF EmitFails, graph, taskStatus
  <2> QED
    BY <2>1, <2>2, CommandStep, ReportedStep
<1>2. CommandInit => Abstract!Init
  BY SimulateInit DEF CommandInit, RunInit
<1> QED
  BY <1>1, <1>2, CommandInvariance, PTL DEF CommandSpec, ImplementsGraphRun, Abstract!Spec

-----------------------------------------------------------------------------
(* The end of a run                                                        *)

Idle == \A n \in Node : future[n] \notin {"submitted", "executing"}

\* A loop that was left has nothing in the pool, and run() goes on only after
\* one that ended with every node settled.
LoopInv ==
  /\ phase \in {"finished", "interrupted"} => Idle
  /\ closing # "no" =>
       /\ phase = "finished"
       /\ \A n \in Node : progress[n] \in TerminalStates \union {"absent"}

\* After the join of the heartbeat thread, and after the last line.
LastInv ==
  mode # "off" /\ ~ timedOut =>
    /\ closing \in {"last", "report", "persist", "closed"} => Joined
    /\ closing \in {"report", "persist", "closed"} =>
         last.by = "final" /\ last.counts["pending"] = 0 /\ last.counts["running"] = 0

LEMMA IdleStep ==
  ASSUME IInv, LineInv, phase \in {"finished", "interrupted"} => Idle, [Next]_vars \/ EmitFails,
         phase' \in {"finished", "interrupted"}
  PROVE  Idle'
<1>1. CASE UNCHANGED <<phase, future>>
  BY <1>1 DEF Idle
<1>2. CASE Finish \/ PoolShutdown
  BY <1>2 DEF Finish, PoolShutdown, worker, Idle, InFlight, Done, Outcomes
<1>3. CASE EmitFails
  <2>1. InFlight = {} /\ UNCHANGED progress /\ future' = [n \in Node |-> IF n \in held THEN "none" ELSE future[n]]
    BY <1>3 DEF EmitFails, LineInv
  <2> QED
    BY <2>1 DEF InFlight, Idle
<1>4. ASSUME NEW n \in Node, Worker(n) PROVE FALSE
  BY <1>4 DEF Worker, WorkerBegin, WorkerEnd, Idle
<1>5. CASE Build
  BY <1>5 DEF Build, AddTask, AddTaskRaises, AddObserved, worker
<1>6. CASE StartRun \/ StartRejected \/ DispatchBlocked \/ StartWait \/ WaitReturns \/ Interrupt
  BY <1>6, BlockedNode
     DEF StartRun, StartRejected, DispatchBlocked, MayDispatch, StartWait, WaitReturns, Interrupt
<1>7. CASE DispatchRun
  BY <1>7, DispatchedNode DEF DispatchRun, MayDispatch
<1>8. ASSUME NEW n \in Node, CollectRetry(n) \/ CollectFailure(n) \/ CollectSuccess(n) PROVE FALSE
  BY <1>8, CollectedNode
<1>9. CASE UNCHANGED vars
  BY <1>1, <1>9 DEF vars, worker
<1> QED
  BY <1>2, <1>3, <1>4, <1>5, <1>6, <1>7, <1>8, <1>9 DEF Next, Coordinator

\* A finished loop stays finished, and no node changes any more.
LEMMA FinishedStays ==
  ASSUME IInv, LineInv, phase = "finished", [ReportNext]_all
  PROVE  phase' = "finished" /\ progress' = progress /\ emitting' = emitting
<1>1. CASE UNCHANGED <<phase, progress, emitting>>
  BY <1>1
<1>2. CASE Build /\ UNCHANGED report
  BY <1>2 DEF Build, AddTask, AddTaskRaises, AddObserved
<1>3. CASE \/ BeginRun \/ ReportBlocked \/ Untold \/ LoopEnds \/ Emit \/ EmitFails
           \/ Interrupt /\ UNCHANGED report
  BY <1>3
     DEF BeginRun, StartRun, ReportBlocked, DispatchBlocked, MayDispatch, Untold, StartRejected,
         StartWait, WaitReturns, PoolShutdown, LoopEnds, Finish, Emit, EmitFails, Interrupt, LineInv
<1>4. CASE ReportMoved
  BY <1>4
     DEF ReportMoved, DispatchRun, MayDispatch, CollectRetry, CollectFailure, CollectSuccess,
         Collecting
<1>5. ASSUME NEW n \in Node, ReportedWorker(n) PROVE UNCHANGED <<phase, progress, emitting>>
  BY <1>5 DEF ReportedWorker, WorkerBegin, WorkerEnd
<1>6. CASE Heartbeat \/ UNCHANGED all
  BY <1>6 DEF Heartbeat, Beat, BeatWrites, BeatStops, all, vars, report, lines
<1>7. CASE Closing
  BY <1>7 DEF Closing, Stop, Join, LastLine, WriteReport, Persist, Then, vars
<1> QED
  BY <1>1, <1>2, <1>3, <1>4, <1>5, <1>6, <1>7 DEF ReportNext, Executing, ReportedCoordinator

\* Only the end of the loop and the statements after it move "closing".
LEMMA ClosingMoves ==
  ASSUME [ReportNext]_all, ~ LoopEnds, ~ Closing
  PROVE  UNCHANGED <<closing, timedOut, mode>>
<1>1. CASE \/ (Build /\ UNCHANGED report) \/ (Interrupt /\ UNCHANGED report) \/ BeginRun \/ ReportBlocked
           \/ ReportMoved \/ Untold \/ Emit \/ EmitFails \/ Heartbeat \/ UNCHANGED all
  BY <1>1
     DEF report, lines, BeginRun, ReportBlocked, ReportMoved, Tell, Quiet, Untold, Emit, EmitFails,
         Heartbeat, Beat, BeatWrites, BeatStops, all
<1>2. ASSUME NEW n \in Node, ReportedWorker(n) PROVE UNCHANGED <<closing, timedOut, mode>>
  BY <1>2 DEF ReportedWorker, Quiet
<1> QED
  BY <1>1, <1>2 DEF ReportNext, Executing, ReportedCoordinator

LEMMA LoopStep == IInv /\ LineInv /\ LoopInv /\ [ReportNext]_all => LoopInv'
<1> SUFFICES ASSUME IInv, LineInv, LoopInv, [ReportNext]_all PROVE LoopInv'
  OBVIOUS
<1>1. phase' \in {"finished", "interrupted"} => Idle'
  BY IdleStep, ReportedStep DEF LoopInv
<1>2. CASE closing # "no"
  <2>1. phase = "finished" /\ \A n \in Node : progress[n] \in TerminalStates \union {"absent"}
    BY <1>2 DEF LoopInv
  <2>2. phase' = "finished" /\ progress' = progress
    BY <2>1, FinishedStays
  <2> QED
    BY <1>1, <2>1, <2>2 DEF LoopInv
<1>3. CASE closing = "no"
  <2>1. CASE LoopEnds
    <3>1. closing' # "no" => phase' = "finished"
      BY <1>3, <2>1 DEF LoopEnds
    <3>2. phase' = "finished" => \A n \in Node : progress[n] \in TerminalStates \union {"absent"}
      BY <2>1 DEF LoopEnds, Finish
    <3>3. progress' = progress
      BY <2>1 DEF LoopEnds, Finish
    <3> QED
      BY <1>1, <3>1, <3>2, <3>3 DEF LoopInv
  <2>2. CASE ~ LoopEnds
    <3>1. closing' = "no"
      BY <1>3, <2>2, ClosingMoves DEF Closing, Stop, Join, LastLine, WriteReport, Persist
    <3> QED
      BY <1>1, <3>1 DEF LoopInv
  <2> QED
    BY <2>1, <2>2
<1> QED
  BY <1>2, <1>3

\* A snapshot of settled nodes counts none that is pending or running.
LEMMA SettledSnapshot ==
  ASSUME \A n \in Node : progress[n] \in TerminalStates \union {"absent"}
  PROVE  Snapshot["pending"] = 0 /\ Snapshot["running"] = 0
<1>1. {"pending", "running"} \subseteq ProgressStates \ {"absent"}
  BY DEF ProgressStates
<1>2. {n \in Node : progress[n] = "pending"} = {} /\ {n \in Node : progress[n] = "running"} = {}
  BY DEF TerminalStates
<1> QED
  BY <1>1, <1>2, FS_EmptySet DEF Snapshot

LEMMA LastStep == IInv /\ LineInv /\ LoopInv /\ LastInv /\ [ReportNext]_all => LastInv'
<1> SUFFICES ASSUME IInv, LineInv, LoopInv, LastInv, [ReportNext]_all PROVE LastInv'
  OBVIOUS
<1>0. closing # "no" => phase = "finished" /\ ~ emitting
  BY DEF LoopInv, LineInv
<1>1. CASE LoopEnds
  BY <1>1 DEF LoopEnds, lines, LastInv, Joined, LineInv, LoopInv, Finish
<1>2. CASE Stop
  BY <1>2 DEF Stop, Then, LastInv
<1>3. CASE Join
  <2>1. timedOut' = ~ Joined /\ closing' = "last" /\ UNCHANGED <<mode, heartbeat>>
    BY <1>3 DEF Join, Then
  <2>2. ~ timedOut' => Joined
    BY <2>1, Zenon
  <2> QED
    BY <2>1, <2>2 DEF LastInv, Joined
<1>4. CASE LastLine
  <2>1. UNCHANGED <<mode, heartbeat, timedOut>> /\ closing = "last"
    BY <1>4 DEF LastLine, Then
  <2>2. \/ last' = [by |-> "final", counts |-> Snapshot] /\ closing' = "report"
        \/ closing' = "raised"
    BY <1>4 DEF LastLine, Then
  <2>3. Snapshot["pending"] = 0 /\ Snapshot["running"] = 0
    BY <2>1, SettledSnapshot DEF LoopInv
  <2> QED
    BY <2>1, <2>2, <2>3 DEF LastInv, Joined
<1>5. CASE WriteReport \/ Persist
  BY <1>5 DEF WriteReport, Persist, Then, LastInv, Joined
<1>6. CASE ~ LoopEnds /\ ~ Closing /\ closing = "no"
  BY <1>6, ClosingMoves DEF LastInv
<1>7. CASE ~ LoopEnds /\ ~ Closing /\ closing # "no"
  <2>1. UNCHANGED <<closing, timedOut, mode>> /\ phase = "finished" /\ ~ emitting
    BY <1>0, <1>7, ClosingMoves
  <2>2. Joined => last' = last /\ Joined'
    <3>1. CASE Heartbeat
      BY <3>1 DEF Heartbeat, Beat, BeatWrites, BeatStops, Joined
    <3>2. CASE \/ Build \/ BeginRun \/ ReportBlocked \/ ReportMoved \/ Emit \/ EmitFails
      BY <2>1, <3>2
         DEF Build, AddTask, AddTaskRaises, AddObserved, BeginRun, StartRun, ReportBlocked,
             DispatchBlocked, MayDispatch, ReportMoved, DispatchRun, CollectRetry, CollectFailure,
             CollectSuccess, Collecting, Emit, EmitFails
    <3>3. CASE UNCHANGED report \/ UNCHANGED all
      BY <3>3 DEF all, report, lines, Joined
    <3>4. ASSUME NEW n \in Node, ReportedWorker(n) PROVE UNCHANGED <<last, heartbeat>>
      BY <3>4 DEF ReportedWorker, Quiet
    <3> QED
      BY <1>7, <3>1, <3>2, <3>3, <3>4 DEF ReportNext, Executing, ReportedCoordinator, Untold, Joined
  <2> QED
    BY <2>1, <2>2 DEF LastInv
<1> QED
  BY <1>1, <1>2, <1>3, <1>4, <1>5, <1>6, <1>7 DEF Closing

LEMMA EndHolds == LoopInv /\ LastInv => QuietAtEnd
BY DEF LoopInv, LastInv, Idle, QuietAtEnd

\* When run() has returned nothing follows it: no task executes, and unless
\* the heartbeat thread was given up on, the last line is the final one, in
\* which every node is settled.
THEOREM QuietAtEndCorrect == CommandSpec => []QuietAtEnd
<1>1. CommandInit => LoopInv /\ LastInv
  BY DEF CommandInit, RunInit, Init, ReportInit, LoopInv, LastInv
<1>2. IInv /\ LineInv /\ LoopInv /\ LastInv /\ [CommandNext]_<<all, command>> => LoopInv' /\ LastInv'
  BY CommandStep, LoopStep, LastStep
<1>3. CommandSpec => [](LoopInv /\ LastInv)
  BY <1>1, <1>2, CommandInvariance, PTL DEF CommandSpec
<1> QED
  BY <1>3, EndHolds, PTL

-----------------------------------------------------------------------------
(* What the rows of a run say                                              *)

\* A node that was tried once is never blocked after that, since what it
\* waits for is settled and nothing it needs failed; and no node is blocked,
\* nor a run interrupted, unless some node failed.
TriedInv ==
  /\ ~ Started => ~ interrupted /\ \A n \in Node : attempts[n] = 0
  /\ \A n \in Node : progress[n] \in {"running", "succeeded", "failed"} => attempts[n] > 0
  /\ \A n \in Registered : attempts[n] > 0 =>
       FailedDependencies(n) = {} /\ \A d \in deps[n] : Terminal(d)
  /\ \A n \in Node : progress[n] = "blocked" => attempts[n] = 0
  /\ interrupted \/ (\E n \in Node : progress[n] = "blocked") =>
       \E n \in Node : progress[n] = "failed"

\* A node whose dependencies are settled does not depend on one that is not.
LEMMA TriedDependencies ==
  ASSUME IInv, TriedInv, NEW m \in Registered, attempts[m] > 0,
         NEW n \in Node, ~ Terminal(n), unsuccessful' \subseteq unsuccessful \union {n},
         UNCHANGED <<deps, tolerant>>, \A k \in Node : k # n => progress'[k] = progress[k]
  PROVE  FailedDependencies(m)' = {} /\ \A d \in deps[m] : Terminal(d)'
<1>1. FailedDependencies(m) = {} /\ \A d \in deps[m] : Terminal(d) /\ d # n
  BY DEF TriedInv
<1>2. deps[m] \subseteq Node
  BY DEF IInv, TypeOK, Registered
<1> QED
  BY <1>1, <1>2 DEF FailedDependencies, Terminal

LEMMA TriedStep == IInv /\ TriedInv /\ ([Next]_vars \/ EmitFails) /\ IInv' => TriedInv'
<1> SUFFICES ASSUME IInv, TriedInv, [Next]_vars \/ EmitFails, IInv' PROVE TriedInv'
  OBVIOUS
<1>0. /\ progress \in [Node -> ProgressStates] /\ attempts \in [Node -> Nat]
      /\ Registered \subseteq Node
  BY DEF IInv, TypeOK, Registered
<1>1. CASE UNCHANGED <<rank, deps, tolerant, progress, attempts, unsuccessful, interrupted>> /\ (Started <=> Started')
  BY <1>1 DEF TriedInv, Registered, FailedDependencies, Terminal
<1>2. CASE ~ Started' /\ UNCHANGED <<attempts, interrupted>> /\ ~ Started
  <2>1. ~ interrupted'
    BY <1>2, Zenon DEF TriedInv
  <2>2. \A n \in Node : attempts'[n] = 0
    BY <1>2 DEF TriedInv
  <2>3. \A n \in Node : progress'[n] \in {"absent", "pending", "cached", "skipped"}
    BY <1>2 DEF IInv, NotStarted
  <2>4. Registered' \subseteq Node
    BY DEF Registered
  <2> QED
    BY <2>1, <2>2, <2>3, <2>4 DEF TriedInv
<1>3. CASE Build \/ StartRejected
  <2>1. ~ Started /\ ~ Started' /\ UNCHANGED <<attempts, interrupted>>
    BY <1>3 DEF Build, AddTask, AddTaskRaises, AddObserved, StartRejected, Started, loop
  <2> QED
    BY <1>2, <2>1
<1>4. CASE StartRun
  <2>1. ~ Started /\ UNCHANGED <<rank, deps, tolerant, progress, attempts, unsuccessful, interrupted>>
    BY <1>4 DEF StartRun, Started, graph
  <2> QED
    BY <2>1 DEF TriedInv, Registered, IInv, NotStarted
<1>5. CASE DispatchBlocked
  <2> DEFINE n == Head(ready)
  <2>1. /\ n \in Registered /\ progress[n] = "pending" /\ phase' = phase /\ Started
        /\ progress' = [progress EXCEPT ![n] = "blocked"]
        /\ \E d \in Needed(n) : Unsuccessful(d)
        /\ FailedDependencies(n) # {} /\ unsuccessful' = unsuccessful \union {n}
        /\ UNCHANGED <<rank, deps, tolerant, attempts, interrupted>>
    BY <1>5, BlockedNode DEF DispatchBlocked, MayDispatch, Started
  <2> HIDE DEF n
  <2>2. attempts[n] = 0
    BY <1>0, <2>1 DEF TriedInv
  <2>3. progress'[n] = "blocked" /\ \A m \in Node : m # n => progress'[m] = progress[m]
    BY <1>0, <2>1
  <2>4. \A m \in Registered : attempts[m] > 0 =>
          FailedDependencies(m)' = {} /\ \A d \in deps[m] : Terminal(d)'
    <3>1. n \in Node /\ ~ Terminal(n)
      BY <1>0, <2>1 DEF Terminal, TerminalStates
    <3> QED
      BY <2>1, <2>3, <3>1, TriedDependencies
  <2>5. \E m \in Node : progress'[m] = "failed"
    <3>1. PICK d \in Needed(n) : progress[d] \in {"failed", "blocked"}
      BY <2>1 DEF Unsuccessful
    <3>2. d \in Node
      BY <1>0, <2>1 DEF Needed, IInv, TypeOK
    <3>3. PICK m \in Node : progress[m] = "failed"
      BY <3>1, <3>2 DEF TriedInv
    <3> QED
      BY <2>1, <2>3, <3>3
  <2>6. Registered' = Registered /\ Started'
    BY <2>1 DEF Registered, Started
  <2> QED
    BY <2>1, <2>2, <2>3, <2>4, <2>5, <2>6 DEF TriedInv
<1>6. CASE DispatchRun
  <2>1. PICK n \in Registered :
        /\ progress[n] = "pending" /\ phase' = phase /\ Started
        /\ progress' = [progress EXCEPT ![n] = "running"]
        /\ attempts' = [attempts EXCEPT ![n] = @ + 1]
        /\ \A d \in deps[n] : Terminal(d)
        /\ FailedDependencies(n) = {}
        /\ UNCHANGED <<rank, deps, tolerant, unsuccessful, interrupted>>
    BY <1>6, DispatchedNode DEF DispatchRun, MayDispatch, Started
  <2>2. /\ progress'[n] = "running" /\ \A m \in Node : m # n => progress'[m] = progress[m]
        /\ attempts'[n] > 0 /\ \A m \in Node : m # n => attempts'[m] = attempts[m]
    BY <1>0, <2>1
  <2>3. n \in Node /\ ~ Terminal(n)
    BY <1>0, <2>1 DEF Terminal, TerminalStates
  <2>4. \A m \in Registered : attempts[m] > 0 =>
          FailedDependencies(m)' = {} /\ \A d \in deps[m] : Terminal(d)'
    BY <2>1, <2>2, <2>3, TriedDependencies
  <2>5. FailedDependencies(n)' = {} /\ \A d \in deps[n] : Terminal(d)'
    <3>1. \A d \in deps[n] : d # n /\ d \in Node
      BY <2>1, <2>3 DEF IInv, TypeOK
    <3> QED
      BY <2>1, <2>2, <3>1 DEF FailedDependencies, Terminal
  <2>6. Registered' = Registered /\ Started'
    BY <2>1 DEF Registered, Started
  <2>7. interrupted \/ (\E m \in Node : progress[m] = "blocked") =>
          \E m \in Node : progress'[m] = "failed"
    BY <2>1, <2>2 DEF TriedInv
  <2> QED
    BY <1>0, <2>1, <2>2, <2>4, <2>5, <2>6, <2>7 DEF TriedInv
<1>7. ASSUME NEW n \in Node, CollectRetry(n) \/ CollectFailure(n) \/ CollectSuccess(n)
      PROVE  TriedInv'
  <2>1. /\ n \in Registered /\ progress[n] = "running" /\ phase' = phase /\ phase = "running"
        /\ unsuccessful' \subseteq unsuccessful \union {n}
        /\ progress'[n] = "failed" \/ interrupted' = interrupted
        /\ UNCHANGED <<rank, deps, tolerant, attempts>>
    BY <1>7, CollectedNode
  <2>2. PICK s \in {"pending", "succeeded", "failed"} : progress' = [progress EXCEPT ![n] = s]
    BY <1>7, CollectedNode
  <2>3. progress'[n] = s /\ \A m \in Node : m # n => progress'[m] = progress[m]
    BY <1>0, <2>2
  <2>4. ~ Terminal(n) /\ attempts[n] > 0
    BY <2>1 DEF Terminal, TerminalStates, TriedInv
  <2>5. \A m \in Registered : attempts[m] > 0 =>
          FailedDependencies(m)' = {} /\ \A d \in deps[m] : Terminal(d)'
    BY <2>1, <2>3, <2>4, TriedDependencies
  <2>6. Registered' = Registered /\ Started'
    BY <2>1 DEF Registered, Started
  <2>7. interrupted' \/ (\E m \in Node : progress'[m] = "blocked") =>
          \E m \in Node : progress'[m] = "failed"
    <3>1. CASE progress'[n] = "failed"
      BY <3>1
    <3>2. CASE progress'[n] # "failed"
      <4>1. interrupted' = interrupted
        BY <2>1, <3>2
      <4>2. \A m \in Node : progress'[m] = "blocked" => progress[m] = "blocked"
        BY <2>3
      <4>3. \A m \in Node : progress[m] = "failed" => progress'[m] = "failed"
        BY <2>1, <2>3
      <4> QED
        BY <4>1, <4>2, <4>3, Zenon DEF TriedInv
    <3> QED
      BY <3>1, <3>2
  <2> QED
    BY <2>1, <2>3, <2>4, <2>5, <2>6, <2>7 DEF TriedInv
<1>8. CASE \/ StartWait \/ WaitReturns \/ Finish \/ PoolShutdown \/ Interrupt \/ EmitFails
  BY <1>1, <1>8
     DEF StartWait, WaitReturns, Finish, PoolShutdown, Interrupt, EmitFails, Started, graph, loop
<1>9. CASE UNCHANGED vars \/ \E n \in Node : Worker(n)
  BY <1>1, <1>9 DEF Worker, WorkerBegin, WorkerEnd, vars, graph, loop, Started
<1> QED
  BY <1>3, <1>4, <1>5, <1>6, <1>7, <1>8, <1>9 DEF Next, Coordinator

\* The timings of a node: one for each attempt but the last, all failed, and
\* that of the last one if it has begun.
Past(n) == {Timing(n, i, "failed") : i \in 1..(attempts[n] - 1)}

LastStatus(n) ==
  IF future[n] = "executing" THEN "running"
  ELSE IF progress[n] = "succeeded" \/ future[n] = "ok" THEN "succeeded"
  ELSE "failed"

Latest(n) ==
  IF progress[n] = "blocked" THEN {Timing(n, 0, "blocked")}
  ELSE IF attempts[n] = 0 \/ future[n] = "submitted" THEN {}
  ELSE {Timing(n, attempts[n], LastStatus(n))}

TimingsOf(n) == {t \in timings : t.task = n}

LedgerInv ==
  phase \in {"running", "finished"} =>
    /\ \A n \in Registered : TimingsOf(n) = Past(n) \union Latest(n)
    /\ \A t \in timings : t.task \notin Registered => t.status # "running"

\* A step that concerns no node but n.
LEMMA LedgerOfOne ==
  ASSUME LedgerInv, phase \in {"running", "finished"}, NEW n \in Node, UNCHANGED rank,
         \A m \in Node : m # n =>
           /\ progress'[m] = progress[m] /\ attempts'[m] = attempts[m] /\ future'[m] = future[m]
           /\ TimingsOf(m)' = TimingsOf(m),
         n \in Registered => TimingsOf(n)' = Past(n)' \union Latest(n)',
         \A t \in timings' : t.task \notin Registered => t \in timings
  PROVE  LedgerInv'
<1>1. Registered' = Registered /\ Registered \subseteq Node
  BY DEF Registered
<1>2. ASSUME NEW m \in Registered, m # n
      PROVE  TimingsOf(m)' = Past(m)' \union Latest(m)'
  <2>1. TimingsOf(m)' = Past(m) \union Latest(m)
    BY <1>1, <1>2 DEF LedgerInv
  <2>2. Past(m)' = Past(m) /\ Latest(m)' = Latest(m)
    BY <1>1, <1>2 DEF Past, Latest, LastStatus
  <2> QED
    BY <2>1, <2>2
<1>3. \A t \in timings' : t.task \notin Registered => t.status # "running"
  BY DEF LedgerInv
<1> QED
  BY <1>1, <1>2, <1>3 DEF LedgerInv

LEMMA LedgerSame ==
  ASSUME LedgerInv, phase \in {"running", "finished"}, UNCHANGED <<rank, attempts, timings>>,
         \A n \in Node : progress'[n] = progress[n] /\ future'[n] = future[n]
  PROVE  LedgerInv'
<1>1. \A n \in Node : Past(n)' = Past(n) /\ Latest(n)' = Latest(n) /\ TimingsOf(n)' = TimingsOf(n)
  BY DEF Past, Latest, LastStatus, TimingsOf
<1>2. Registered' = Registered /\ Registered \subseteq Node
  BY DEF Registered
<1> QED
  BY <1>1, <1>2 DEF LedgerInv

\* One more failed attempt is behind a node.
LEMMA PastGrows ==
  ASSUME NEW n \in Node, NEW k \in Nat
  PROVE  {Timing(n, i, "failed") : i \in 1..k}
           = {Timing(n, i, "failed") : i \in 1..(k - 1)}
               \union (IF k = 0 THEN {} ELSE {Timing(n, k, "failed")})
<1>1. CASE k = 0
  BY <1>1
<1>2. CASE k # 0
  <2>1. 1..k = 1..(k - 1) \union {k}
    BY <1>2
  <2> QED
    BY <1>2, <2>1
<1> QED
  BY <1>1, <1>2

LEMMA LedgerBegins == ASSUME IInv, TriedInv, BeginRun, IInv' PROVE LedgerInv'
<1>1. /\ ~ Started /\ UNCHANGED <<rank, progress, attempts, future>>
      /\ timings' = {Timing(n, 0, progress[n]) : n \in Observed}
      /\ phase = "building"
  BY DEF BeginRun, StartRun, Started, graph, worker
<1>2. Registered' = Registered
  BY <1>1 DEF Registered
<1>3. \A n \in Registered : n \in Node /\ n \notin Observed /\ progress[n] # "blocked" /\ attempts[n] = 0
  BY <1>1 DEF Registered, Observed, IInv, GraphInv, NotStarted, TriedInv
<1>4. ASSUME NEW n \in Registered PROVE TimingsOf(n)' = Past(n)' \union Latest(n)'
  <2>1. TimingsOf(n)' = {}
    BY <1>1, <1>3 DEF TimingsOf, Timing
  <2>2. Past(n)' = {} /\ Latest(n)' = {}
    BY <1>1, <1>3 DEF Past, Latest
  <2> QED
    BY <2>1, <2>2
<1>5. \A t \in timings' : t.status # "running"
  BY <1>1 DEF Timing, Observed
<1> QED
  BY <1>2, <1>4, <1>5 DEF LedgerInv

LEMMA LedgerBlocked == ASSUME IInv, TriedInv, LedgerInv, ReportBlocked PROVE LedgerInv'
<1>1. PICK n \in Registered :
        /\ progress[n] = "pending" /\ phase = "running"
        /\ progress' = [progress EXCEPT ![n] = "blocked"]
        /\ FailedDependencies(n) # {}
        /\ UNCHANGED <<rank, attempts, future>>
        /\ timings' = timings \union {Timing(n, 0, "blocked")}
  BY BlockedNode DEF ReportBlocked, Recorded, DispatchBlocked, MayDispatch
<1>2. n \in Node /\ progress \in [Node -> ProgressStates] /\ attempts[n] = 0
  <2>1. n \in Node /\ progress \in [Node -> ProgressStates] /\ attempts[n] \in Nat
    BY DEF IInv, TypeOK, Registered
  <2>2. ~ attempts[n] > 0
    BY <1>1 DEF TriedInv
  <2> QED
    BY <2>1, <2>2
<1>3. \A m \in Node : m # n => TimingsOf(m)' = TimingsOf(m)
  BY <1>1 DEF TimingsOf, Timing
<1>4. TimingsOf(n) = {}
  <2>1. Past(n) = {} /\ Latest(n) = {}
    BY <1>1, <1>2 DEF Past, Latest
  <2> QED
    BY <1>1, <2>1 DEF LedgerInv
<1>5. TimingsOf(n)' = {Timing(n, 0, "blocked")}
  BY <1>1, <1>4 DEF TimingsOf, Timing
<1>6. Past(n)' = {} /\ Latest(n)' = {Timing(n, 0, "blocked")}
  BY <1>1, <1>2 DEF Past, Latest
<1>7. \A t \in timings' : t.task \notin Registered => t \in timings
  BY <1>1 DEF Timing
<1> QED
  BY <1>1, <1>2, <1>3, <1>5, <1>6, <1>7, LedgerOfOne

LEMMA LedgerDispatched ==
  ASSUME IInv, TriedInv, LedgerInv, DispatchRun, UNCHANGED timings
  PROVE  LedgerInv'
<1>1. PICK n \in Registered :
        /\ progress[n] = "pending" /\ phase = "running" /\ future[n] = "none"
        /\ progress' = [progress EXCEPT ![n] = "running"]
        /\ attempts' = [attempts EXCEPT ![n] = @ + 1]
        /\ future' = [future EXCEPT ![n] = "submitted"]
        /\ UNCHANGED rank
  BY DispatchedNode DEF DispatchRun, MayDispatch
<1>2. /\ n \in Node /\ progress \in [Node -> ProgressStates] /\ attempts \in [Node -> Nat]
      /\ future \in [Node -> FutureStates] /\ attempts[n] \in Nat
  BY <1>1 DEF IInv, TypeOK, Registered
<1>3. \A m \in Node : m # n =>
        progress'[m] = progress[m] /\ attempts'[m] = attempts[m] /\ future'[m] = future[m]
  BY <1>1, <1>2
<1>4. progress'[n] = "running" /\ attempts'[n] = attempts[n] + 1 /\ future'[n] = "submitted"
  BY <1>1, <1>2
<1>5. \A m \in Node : TimingsOf(m)' = TimingsOf(m)
  BY DEF TimingsOf
<1>6. TimingsOf(n) = Past(n) \union Latest(n)
  BY <1>1 DEF LedgerInv
<1>7. Latest(n) = IF attempts[n] = 0 THEN {} ELSE {Timing(n, attempts[n], "failed")}
  BY <1>1 DEF Latest, LastStatus
<1>8. Past(n)' = {Timing(n, i, "failed") : i \in 1..attempts[n]} /\ Latest(n)' = {}
  <2>1. attempts'[n] - 1 = attempts[n]
    BY <1>2, <1>4
  <2> QED
    BY <1>4, <2>1 DEF Past, Latest
<1>9. TimingsOf(n)' = Past(n)' \union Latest(n)'
  BY <1>2, <1>5, <1>6, <1>7, <1>8, PastGrows DEF Past
<1> QED
  BY <1>1, <1>2, <1>3, <1>5, <1>9, LedgerOfOne

LEMMA LedgerCollected ==
  ASSUME IInv, TriedInv, LedgerInv, UNCHANGED timings, NEW n \in Node,
         CollectRetry(n) \/ CollectFailure(n) \/ CollectSuccess(n)
  PROVE  LedgerInv'
<1>1. /\ n \in Registered /\ progress[n] = "running" /\ future[n] \in Outcomes
      /\ phase = "running" /\ future' = [future EXCEPT ![n] = "none"]
      /\ UNCHANGED <<rank, attempts>>
      /\ progress' = [progress EXCEPT ![n] = IF CollectRetry(n) THEN "pending"
                                             ELSE IF future[n] = "ok" THEN "succeeded"
                                             ELSE "failed"]
      /\ CollectRetry(n) => future[n] # "ok"
  BY CollectedNode
<1>2. progress \in [Node -> ProgressStates] /\ future \in [Node -> FutureStates]
  BY DEF IInv, TypeOK
<1>3. \A m \in Node : m # n => progress'[m] = progress[m] /\ future'[m] = future[m]
  BY <1>1, <1>2
<1>4. /\ progress'[n] \in {"pending", "succeeded", "failed"} /\ future'[n] = "none"
      /\ progress'[n] = "succeeded" <=> future[n] = "ok"
  BY <1>1, <1>2
<1>5. \A m \in Node : TimingsOf(m)' = TimingsOf(m)
  BY DEF TimingsOf
<1>6. Past(n)' = Past(n) /\ Latest(n)' = Latest(n)
  BY <1>1, <1>4 DEF Past, Latest, LastStatus, Outcomes
<1>7. TimingsOf(n)' = Past(n)' \union Latest(n)'
  BY <1>1, <1>5, <1>6 DEF LedgerInv
<1> QED
  BY <1>1, <1>3, <1>5, <1>7, LedgerOfOne

LEMMA LedgerWorks ==
  ASSUME IInv, TriedInv, LedgerInv, phase \in {"running", "finished"},
         NEW n \in Node, ReportedWorker(n)
  PROVE  LedgerInv'
<1>1. /\ UNCHANGED <<rank, progress, attempts>> /\ future[n] \in {"submitted", "executing"}
  BY DEF ReportedWorker, WorkerBegin, WorkerEnd, graph, loop
<1>2. n \in Registered /\ progress[n] = "running" /\ attempts[n] > 0
  BY <1>1 DEF IInv, MirrorInv, GraphInv, Registered, TriedInv
<1>3. future \in [Node -> FutureStates] /\ attempts[n] \in Nat
  BY DEF IInv, TypeOK
<1>4. TimingsOf(n) = Past(n) \union Latest(n)
  BY <1>2 DEF LedgerInv
<1>5. Past(n)' = Past(n)
  BY <1>1 DEF Past
<1>6. CASE WorkerBegin(n) /\ Begin(n)
  <2>1. /\ future[n] = "submitted" /\ future' = [future EXCEPT ![n] = "executing"]
        /\ timings' = timings \union {Timing(n, attempts[n], "running")}
    BY <1>6 DEF WorkerBegin, Begin, Stamped
  <2>2. future'[n] = "executing" /\ \A m \in Node : m # n => future'[m] = future[m]
    BY <1>3, <2>1
  <2>3. \A m \in Node : m # n => TimingsOf(m)' = TimingsOf(m)
    BY <2>1 DEF TimingsOf, Timing
  <2>4. TimingsOf(n)' = TimingsOf(n) \union {Timing(n, attempts[n], "running")}
    BY <2>1 DEF TimingsOf, Timing
  <2>5. Latest(n) = {} /\ Latest(n)' = {Timing(n, attempts[n], "running")}
    BY <1>1, <1>2, <1>3, <2>1, <2>2 DEF Latest, LastStatus
  <2>6. \A t \in timings' : t.task \notin Registered => t \in timings
    BY <1>2, <2>1 DEF Timing
  <2>7. TimingsOf(n)' = Past(n)' \union Latest(n)'
    BY <1>4, <1>5, <2>4, <2>5
  <2> QED
    BY <1>1, <2>2, <2>3, <2>6, <2>7, LedgerOfOne
<1>7. CASE WorkerEnd(n) /\ End(n)
  <2>1. PICK o \in Outcomes : future[n] = "executing" /\ future' = [future EXCEPT ![n] = o]
    BY <1>7 DEF WorkerEnd
  <2>2. future'[n] = o /\ \A m \in Node : m # n => future'[m] = future[m]
    BY <1>3, <2>1
  <2> DEFINE st == IF o = "ok" THEN "succeeded" ELSE "failed"
             After(t) == IF t.task = n /\ t.status = "running" THEN [t EXCEPT !.status = st] ELSE t
  <2>3. timings' = {After(t) : t \in timings}
    BY <1>7, <2>2 DEF End
  <2>4. \A t : After(t).task = t.task
    OBVIOUS
  <2>5. \A t : t.task # n => After(t) = t
    OBVIOUS
  <2>6. Latest(n) = {Timing(n, attempts[n], "running")}
    BY <1>2, <2>1 DEF Latest, LastStatus
  <2>7. Latest(n)' = {Timing(n, attempts[n], st)}
    BY <1>1, <1>2, <2>2 DEF Latest, LastStatus, Outcomes
  <2>8. After(Timing(n, attempts[n], "running")) = Timing(n, attempts[n], st)
    BY DEF Timing
  <2>9. \A t \in Past(n) : After(t) = t
    BY DEF Past, Timing
  <2> HIDE DEF After, st
  <2>10. \A m \in Node : m # n => TimingsOf(m)' = TimingsOf(m)
    BY <2>3, <2>4, <2>5 DEF TimingsOf
  <2>11. TimingsOf(n)' = {After(t) : t \in TimingsOf(n)}
    BY <2>3, <2>4 DEF TimingsOf
  <2>12. TimingsOf(n)' = Past(n) \union {Timing(n, attempts[n], st)}
    BY <1>4, <2>6, <2>8, <2>9, <2>11
  <2>13. \A t \in timings' : t.task \notin Registered => t \in timings
    BY <1>2, <2>3, <2>4, <2>5
  <2> QED
    BY <1>1, <1>5, <2>2, <2>7, <2>10, <2>12, <2>13, LedgerOfOne
<1> QED
  BY <1>6, <1>7 DEF ReportedWorker

LEMMA LedgerStep == IInv /\ LineInv /\ TriedInv /\ LedgerInv /\ [ReportNext]_all => LedgerInv'
<1> SUFFICES ASSUME IInv, LineInv, TriedInv, LedgerInv, [ReportNext]_all,
                    phase' \in {"running", "finished"}
             PROVE  LedgerInv'
  BY DEF LedgerInv
<1>0. IInv'
  BY ReportedIInv
<1>1. CASE BeginRun
  BY <1>0, <1>1, LedgerBegins
<1>2. CASE ReportBlocked
  BY <1>2, LedgerBlocked
<1>3. CASE ReportMoved
  <2>1. UNCHANGED timings
    BY <1>3 DEF ReportMoved
  <2> QED
    BY <1>3, <2>1, LedgerDispatched, LedgerCollected DEF ReportMoved
<1>4. ASSUME NEW n \in Node, ReportedWorker(n) PROVE LedgerInv'
  <2>1. phase' = phase
    BY <1>4 DEF ReportedWorker, WorkerBegin, WorkerEnd
  <2> QED
    BY <1>4, <2>1, LedgerWorks
<1>5. CASE Build /\ UNCHANGED report
  BY <1>5 DEF Build, AddTask, AddTaskRaises, AddObserved
<1>6. CASE \/ Untold \/ LoopEnds \/ Emit \/ EmitFails \/ Heartbeat \/ Closing \/ UNCHANGED all
           \/ Interrupt /\ UNCHANGED report
  <2>1. ~ EmitFails /\ ~ Interrupt
    BY DEF EmitFails, Interrupt
  <2>2. CASE Untold \/ LoopEnds
    <3>1. phase \in {"running", "finished"} /\ UNCHANGED <<rank, attempts, timings, progress, future>>
      BY <2>2
         DEF Untold, StartRejected, StartWait, WaitReturns, PoolShutdown, LoopEnds, Finish, report,
             recorder, graph, loop, worker
    <3> QED
      BY <3>1, LedgerSame
  <2>3. CASE Emit \/ Heartbeat \/ Closing \/ UNCHANGED all
    <3>1. phase \in {"running", "finished"} /\ UNCHANGED <<rank, attempts, timings, progress, future>>
      BY <2>3
         DEF Emit, Heartbeat, Beat, BeatWrites, BeatStops, Closing, Stop, Join, LastLine,
             WriteReport, Persist, Then, all, vars, report, recorder, graph, loop, worker
    <3> QED
      BY <3>1, LedgerSame
  <2> QED
    BY <1>6, <2>1, <2>2, <2>3
<1> QED
  BY <1>1, <1>2, <1>3, <1>4, <1>5, <1>6 DEF ReportNext, Executing, ReportedCoordinator

\* What is persisted is what the run recorded, under the status it ended with.
RowsInv ==
  /\ closing # "no" => runStatus = FinalStatus
  /\ summary # "none" => closing # "no" /\ rows = timings /\ summary = runStatus

\* Once the loop has ended, nothing that the status or the rows say changes.
LEMMA FinishedQuiet ==
  ASSUME IInv, LineInv, LoopInv, phase = "finished", [ReportNext]_all
  PROVE  UNCHANGED <<timings, runStatus, progress, unsuccessful, interrupted>>
<1>1. CASE Build \/ BeginRun \/ ReportBlocked \/ LoopEnds \/ EmitFails \/ Interrupt
  BY <1>1
     DEF Build, AddTask, AddTaskRaises, AddObserved, BeginRun, StartRun, ReportBlocked,
         DispatchBlocked, MayDispatch, LoopEnds, Finish, EmitFails, Interrupt
<1>2. CASE ReportMoved \/ Untold
  BY <1>2
     DEF ReportMoved, DispatchRun, MayDispatch, CollectRetry, CollectFailure, CollectSuccess,
         Collecting, Untold, StartRejected, StartWait, WaitReturns, PoolShutdown
<1>3. ASSUME NEW n \in Node, ReportedWorker(n) PROVE FALSE
  BY <1>3 DEF ReportedWorker, WorkerBegin, WorkerEnd, LoopInv, Idle
<1>4. CASE Emit \/ Heartbeat \/ UNCHANGED all
  BY <1>4 DEF Emit, Heartbeat, Beat, BeatWrites, BeatStops, all, vars, report, recorder, loop
<1>5. CASE Closing
  BY <1>5 DEF Closing, Stop, Join, LastLine, WriteReport, Persist, Then, vars, loop
<1> QED
  BY <1>1, <1>2, <1>3, <1>4, <1>5 DEF ReportNext, Executing, ReportedCoordinator

LEMMA RowsStep == IInv /\ LineInv /\ LoopInv /\ RowsInv /\ [ReportNext]_all => RowsInv'
<1> SUFFICES ASSUME IInv, LineInv, LoopInv, RowsInv, [ReportNext]_all PROVE RowsInv'
  OBVIOUS
<1>1. CASE closing # "no"
  <2>1. UNCHANGED <<timings, runStatus, progress, unsuccessful, interrupted>>
    BY <1>1, FinishedQuiet DEF LoopInv
  <2>2. FinalStatus' = FinalStatus
    BY <2>1 DEF FinalStatus
  <2>3. \/ UNCHANGED <<rows, summary>>
        \/ rows' = timings /\ summary' = runStatus
    <3>1. ASSUME NEW n \in Node, ReportedWorker(n) PROVE UNCHANGED <<rows, summary>>
      BY <3>1 DEF ReportedWorker, Quiet
    <3>2. CASE \/ (Build /\ UNCHANGED report) \/ (Interrupt /\ UNCHANGED report) \/ BeginRun
               \/ ReportBlocked \/ ReportMoved \/ Untold \/ LoopEnds \/ Emit \/ EmitFails
               \/ Heartbeat \/ UNCHANGED all
      BY <3>2
         DEF report, recorder, BeginRun, ReportBlocked, ReportMoved, Tell, Quiet, Untold, LoopEnds,
             Emit, EmitFails, Heartbeat, Beat, BeatWrites, BeatStops, all
    <3>3. CASE Closing
      BY <3>3 DEF Closing, Stop, Join, LastLine, WriteReport, Persist
    <3> QED
      BY <3>1, <3>2, <3>3 DEF ReportNext, Executing, ReportedCoordinator
  <2>4. closing' # "no"
    <3>1. CASE LoopEnds
      BY <1>1, <3>1 DEF LoopEnds
    <3>2. CASE Closing
      BY <3>2 DEF Closing, Stop, Join, LastLine, WriteReport, Persist, Then
    <3> QED
      BY <1>1, <3>1, <3>2, ClosingMoves
  <2> QED
    BY <1>1, <2>1, <2>2, <2>3, <2>4 DEF RowsInv
<1>2. CASE closing = "no"
  <2>1. summary = "none"
    BY <1>2 DEF RowsInv
  <2>2. CASE LoopEnds
    <3>1. closing' # "no" => runStatus' = FinalStatus
      BY <1>2, <2>2 DEF LoopEnds, Finish
    <3>2. FinalStatus' = FinalStatus /\ summary' = summary
      BY <2>2 DEF LoopEnds, Finish, FinalStatus, loop, recorder
    <3> QED
      BY <2>1, <3>1, <3>2 DEF RowsInv
  <2>3. CASE ~ LoopEnds
    <3>1. ~ Closing
      BY <1>2 DEF Closing, Stop, Join, LastLine, WriteReport, Persist
    <3>2. closing' = "no"
      BY <1>2, <2>3, <3>1, ClosingMoves
    <3>3. summary' = summary
      <4>1. ASSUME NEW n \in Node, ReportedWorker(n) PROVE summary' = summary
        BY <4>1 DEF ReportedWorker, Quiet
      <4>2. CASE \/ (Build /\ UNCHANGED report) \/ (Interrupt /\ UNCHANGED report) \/ BeginRun
                 \/ ReportBlocked \/ ReportMoved \/ Untold \/ Emit \/ EmitFails \/ Heartbeat
                 \/ UNCHANGED all
        BY <4>2
           DEF report, recorder, BeginRun, ReportBlocked, ReportMoved, Tell, Quiet, Untold, Emit,
               EmitFails, Heartbeat, Beat, BeatWrites, BeatStops, all
      <4> QED
        BY <2>3, <3>1, <4>1, <4>2 DEF ReportNext, Executing, ReportedCoordinator
    <3> QED
      BY <2>1, <3>2, <3>3 DEF RowsInv
  <2> QED
    BY <2>2, <2>3
<1> QED
  BY <1>1, <1>2

\* The rows of a task of a run whose rows are written.
LEMMA RowsOfTask ==
  ASSUME IInv, LoopInv, TriedInv, LedgerInv, RowsInv, summary # "none", NEW n \in Registered
  PROVE  \/ /\ progress[n] = "blocked"
            /\ Rows(n) = {Timing(n, 0, "blocked")}
         \/ /\ progress[n] \in {"succeeded", "failed"} /\ attempts[n] \in Nat \ {0}
            /\ Rows(n) = Past(n) \union {Timing(n, attempts[n], progress[n])}
<1>1. n \in Node /\ progress[n] \in {"succeeded", "failed", "blocked"} /\ phase = "finished"
  BY DEF Registered, RowsInv, LoopInv, TerminalStates, IInv, GraphInv
<1>2. future[n] = "none"
  BY <1>1 DEF IInv, MirrorInv
<1>3. Rows(n) = Past(n) \union Latest(n)
  BY <1>1 DEF RowsInv, Rows, TimingsOf, LedgerInv
<1>4. CASE progress[n] = "blocked"
  <2>1. attempts[n] = 0
    BY <1>1, <1>4 DEF TriedInv
  <2>2. Past(n) = {}
    BY <2>1 DEF Past
  <2> QED
    BY <1>3, <1>4, <2>2 DEF Latest
<1>5. CASE progress[n] # "blocked"
  <2>1. attempts[n] \in Nat \ {0}
    BY <1>1, <1>5 DEF TriedInv, IInv, TypeOK
  <2>2. Latest(n) = {Timing(n, attempts[n], progress[n])}
    BY <1>1, <1>2, <1>5, <2>1 DEF Latest, LastStatus
  <2> QED
    BY <1>1, <1>3, <1>5, <2>1, <2>2
<1> QED
  BY <1>4, <1>5

\* One row for each attempt.
LEMMA RowsCounted ==
  ASSUME NEW R, NEW A, IsFiniteSet(A), A = {r.attempt : r \in R},
         \A r, s \in R : r.attempt = s.attempt => r = s
  PROVE  Cardinality(R) = Cardinality(A)
<1> DEFINE f == [a \in A |-> CHOOSE r \in R : r.attempt = a]
<1>1. \A a \in A : f[a] \in R /\ f[a].attempt = a
  OBVIOUS
<1>2. \A r \in R : r.attempt \in A /\ f[r.attempt] = r
  BY <1>1
<1>3. f \in Bijection(A, R)
  <2>1. f \in [A -> R]
    BY <1>1
  <2> HIDE DEF f
  <2> QED
    BY <1>1, <1>2, <2>1 DEF Bijection, Injection, Surjection, IsInjective
<1> HIDE DEF f
<1> QED
  BY <1>3, FS_Bijection DEF ExistsBijection

\* What the rows say of a task that was tried.
LEMMA RowsOfTried ==
  ASSUME NEW n \in Node, NEW a \in Nat \ {0}, NEW s \in {"succeeded", "failed"}, attempts[n] = a,
         Rows(n) = Past(n) \union {Timing(n, a, s)}
  PROVE  /\ {r.attempt : r \in Rows(n)} = 1..a
         /\ Cardinality(Rows(n)) = Cardinality({r.attempt : r \in Rows(n)})
         /\ LatestFailed(n) <=> s = "failed"
         /\ \A r \in Rows(n) : r.status # "running"
<1>1. \A r \in Rows(n) : \/ r = Timing(n, a, s)
                         \/ \E i \in 1..(a - 1) : r = Timing(n, i, "failed")
  BY DEF Past
<1>2. Timing(n, a, s) \in Rows(n) /\ \A i \in 1..(a - 1) : Timing(n, i, "failed") \in Rows(n)
  BY DEF Past
<1>3. \A i, t : Timing(n, i, t).attempt = i /\ Timing(n, i, t).status = t
  BY DEF Timing
<1> HIDE DEF Timing
<1>4. \A r \in Rows(n) : r.attempt \in 1..a
  BY <1>1, <1>3
<1>5. \A i \in 1..a : \E r \in Rows(n) : r.attempt = i
  <2> TAKE i \in 1..a
  <2>1. i = a \/ i \in 1..(a - 1)
    OBVIOUS
  <2> QED
    BY <1>2, <1>3, <2>1
<1>6. {r.attempt : r \in Rows(n)} = 1..a
  BY <1>4, <1>5
<1>7. \A q, r \in Rows(n) : q.attempt = r.attempt => q = r
  <2>1. \A r \in Rows(n) : r = IF r.attempt = a THEN Timing(n, a, s) ELSE Timing(n, r.attempt, "failed")
    <3> TAKE r \in Rows(n)
    <3>1. CASE r = Timing(n, a, s)
      BY <3>1, <1>3
    <3>2. ASSUME NEW i \in 1..(a - 1), r = Timing(n, i, "failed")
          PROVE  r.attempt = i /\ i # a
      BY <3>2, <1>3
    <3> QED
      BY <1>1, <3>1, <3>2
  <2> QED
    BY <2>1
<1>8. IsFiniteSet(1..a)
  BY FS_Interval
<1>9. Cardinality(Rows(n)) = Cardinality({r.attempt : r \in Rows(n)})
  BY <1>6, <1>7, <1>8, RowsCounted
<1>10. LatestFailed(n) <=> s = "failed"
  <2>1. ASSUME s = "failed" PROVE LatestFailed(n)
    BY <1>2, <1>3, <1>4, <2>1 DEF LatestFailed
  <2>2. ASSUME LatestFailed(n) PROVE s = "failed"
    <3>1. PICK r \in Rows(n) : r.status = "failed" /\ \A q \in Rows(n) : q.attempt <= r.attempt
      BY <2>2 DEF LatestFailed
    <3>2. a <= r.attempt
      BY <1>2, <1>3, <3>1
    <3>3. r = Timing(n, a, s)
      BY <1>2, <1>3, <1>4, <1>7, <3>2
    <3> QED
      BY <1>3, <3>1, <3>3
  <2> QED
    BY <2>1, <2>2
<1>11. \A r \in Rows(n) : r.status # "running"
  BY <1>1, <1>3
<1> QED
  BY <1>6, <1>9, <1>10, <1>11

\* And of one that was not.
LEMMA RowsOfBlocked ==
  ASSUME NEW n \in Node, Rows(n) = {Timing(n, 0, "blocked")}
  PROVE  /\ {r.attempt : r \in Rows(n)} = {0}
         /\ Cardinality(Rows(n)) = Cardinality({r.attempt : r \in Rows(n)})
         /\ ~ LatestFailed(n)
         /\ \A r \in Rows(n) : r.status # "running"
<1>1. {r.attempt : r \in Rows(n)} = {0} /\ \A r \in Rows(n) : r.status = "blocked"
  BY DEF Timing
<1>2. Cardinality(Rows(n)) = 1 /\ Cardinality({0}) = 1
  BY FS_Singleton
<1> QED
  BY <1>1, <1>2 DEF LatestFailed

\* The run says "succeeded" when all of its tasks did.
LEMMA StatusTrue ==
  ASSUME IInv, LoopInv, TriedInv, RowsInv, summary # "none"
  PROVE  summary = "succeeded" <=> \A n \in Registered : progress[n] = "succeeded"
<1>1. /\ summary = FinalStatus /\ phase = "finished"
      /\ \A n \in Node : progress[n] \in TerminalStates \union {"absent"}
  BY DEF RowsInv, LoopInv
<1>2. \A n \in Node : n \in Registered <=> progress[n] \in {"succeeded", "failed", "blocked"}
  BY <1>1 DEF IInv, GraphInv, Registered, TerminalStates
<1>3. (\E n \in unsuccessful : progress[n] = "failed") <=> \E n \in Node : progress[n] = "failed"
  BY DEF IInv, MirrorInv
<1>4. interrupted \/ (\E n \in Node : progress[n] = "blocked") => \E n \in Node : progress[n] = "failed"
  BY DEF TriedInv
<1>5. summary = "succeeded" <=> ~ interrupted /\ ~ \E n \in Node : progress[n] = "failed"
  BY <1>1, <1>3 DEF FinalStatus
<1>6. Registered \subseteq Node
  BY DEF Registered
<1> QED
  BY <1>2, <1>4, <1>5, <1>6

LEMMA PersistedHolds ==
  IInv /\ LoopInv /\ TriedInv /\ LedgerInv /\ RowsInv => OutcomesPersisted
<1> SUFFICES ASSUME IInv, LoopInv, TriedInv, LedgerInv, RowsInv, summary # "none"
             PROVE  OutcomesPersisted
  BY DEF OutcomesPersisted
<1>1. ASSUME NEW n \in Registered
      PROVE  /\ {r.attempt : r \in Rows(n)} = IF progress[n] = "blocked" THEN {0} ELSE 1..attempts[n]
             /\ Cardinality(Rows(n)) = Cardinality({r.attempt : r \in Rows(n)})
             /\ LatestFailed(n) <=> progress[n] = "failed"
             /\ \A r \in Rows(n) : r.status # "running"
  <2>1. n \in Node
    BY DEF Registered
  <2>2. CASE progress[n] = "blocked" /\ Rows(n) = {Timing(n, 0, "blocked")}
    BY <2>1, <2>2, RowsOfBlocked
  <2>3. CASE /\ progress[n] \in {"succeeded", "failed"} /\ attempts[n] \in Nat \ {0}
             /\ Rows(n) = Past(n) \union {Timing(n, attempts[n], progress[n])}
    <3>1. /\ {r.attempt : r \in Rows(n)} = 1..attempts[n]
          /\ Cardinality(Rows(n)) = Cardinality({r.attempt : r \in Rows(n)})
          /\ LatestFailed(n) <=> progress[n] = "failed"
          /\ \A r \in Rows(n) : r.status # "running"
      BY <2>1, <2>3, RowsOfTried
    <3> QED
      BY <2>3, <3>1
  <2> QED
    BY <2>2, <2>3, RowsOfTask
<1>2. \A r \in rows : r.status # "running"
  <2>1. \A r \in rows : r.task \notin Registered => r.status # "running"
    BY DEF RowsInv, LoopInv, LedgerInv
  <2> QED
    BY <1>1, <2>1 DEF Rows
<1> QED
  BY <1>1, <1>2, StatusTrue DEF OutcomesPersisted

\* The persisted rows say what happened: one for each attempt, the last one as
\* the task ended, and "succeeded" for the run exactly when all tasks did.
THEOREM OutcomesPersistedCorrect == CommandSpec => []OutcomesPersisted
<1> DEFINE Told == LoopInv /\ TriedInv /\ LedgerInv /\ RowsInv
<1>1. CommandInit => Told
  BY DEF CommandInit, RunInit, Init, ReportInit, LoopInv, TriedInv, LedgerInv, RowsInv, Started,
         Registered
<1>2. IInv /\ LineInv /\ Told /\ [CommandNext]_<<all, command>> => Told'
  BY CommandStep, ReportedStep, ReportedIInv, LoopStep, TriedStep, LedgerStep, RowsStep
<1>3. CommandSpec => []Told
  <2> HIDE DEF Told
  <2> QED
    BY <1>1, <1>2, CommandInvariance, PTL DEF CommandSpec
<1>4. IInv /\ Told => OutcomesPersisted
  BY PersistedHolds
<1> QED
  BY <1>3, <1>4, CommandInvariance, PTL

-----------------------------------------------------------------------------
(* Recursion over 0..N: the definitions of CommandRun that walk the node    *)
(* list are recursive functions, and what they compute is shown by the      *)
(* least index at which it would fail.                                      *)

LEMMA LeastSet ==
  ASSUME NEW S, IsFiniteSet(S), NEW F \in SUBSET SUBSET S, F # {}
  PROVE  \E m \in F : \A k \in F : k \subseteq m => k = m
<1>1. IsWellFoundedOn(StrictSubsetOrdering(S), SUBSET S)
  BY FS_FiniteSubsetsOfFinite, FS_StrictSubsetOrderingWellFounded
<1>2. \E m \in F : \A k \in F : ~ (<<k, m>> \in StrictSubsetOrdering(S))
  BY <1>1, WFMin
<1> QED
  BY <1>2 DEF StrictSubsetOrdering

LEMMA LeastNatural ==
  ASSUME NEW T \in SUBSET Nat, T # {}
  PROVE  \E m \in T : \A k \in T : m <= k
<1>1. PICK n \in T : TRUE
  OBVIOUS
<1> DEFINE S == 1..n
           F == {1..k : k \in {j \in T : j <= n}}
<1>2. F \in SUBSET SUBSET S
  OBVIOUS
<1>3. IsFiniteSet(S)
  BY FS_Interval
<1>4. S \in F
  OBVIOUS
<1>5. PICK m \in F : \A k \in F : k \subseteq m => k = m
  <2> HIDE DEF F, S
  <2> QED
    BY <1>2, <1>3, <1>4, LeastSet
<1>6. PICK j \in T : j <= n /\ m = 1..j
  OBVIOUS
<1>7. ASSUME NEW k \in T, k < j PROVE FALSE
  <2>1. 1..k \in F /\ 1..k \subseteq 1..j
    BY <1>6, <1>7
  <2>2. 1..k = 1..j
    BY <2>1, <1>5, <1>6
  <2>3. j \in 1..j /\ j \notin 1..k
    BY <1>7
  <2> QED
    BY <2>2, <2>3
<1> QED
  BY <1>7

\* Induction up to N, for a predicate that is a function.
LEMMA UpTo ==
  ASSUME NEW N \in Nat, NEW P \in [0..N -> BOOLEAN], P[0], \A i \in 1..N : P[i - 1] => P[i]
  PROVE  \A i \in 0..N : P[i]
<1> DEFINE Bad == {i \in 0..N : ~ P[i]}
<1>1. SUFFICES ASSUME Bad # {} PROVE FALSE
  OBVIOUS
<1>2. PICK m \in Bad : \A k \in Bad : m <= k
  <2>1. Bad \in SUBSET Nat
    OBVIOUS
  <2> HIDE DEF Bad
  <2> QED
    BY <1>1, <2>1, LeastNatural
<1>3. m \in 1..N /\ m - 1 \in 0..N /\ m - 1 \notin Bad
  BY <1>2
<1> QED
  BY <1>2, <1>3

StepsIn(N, K) == [1..N -> [SUBSET K -> SUBSET K]]

Follows(f, N, K, step) ==
  f \in [0..N -> SUBSET K] /\ f[0] = {} /\ \A i \in 1..N : f[i] = step[i][f[i - 1]]

\* A function on 0..N that is defined from its value before, in SUBSET K.
LEMMA Recursive ==
  ASSUME NEW N \in Nat, NEW K, NEW step \in StepsIn(N, K)
  PROVE  \E f : Follows(f, N, K, step)
<1> USE DEF StepsIn
<1> DEFINE Rec(m) ==
             \E f \in [0..m -> SUBSET K] :
               f[0] = {} /\ \A i \in 1..m : f[i] = step[i][f[i - 1]]
           P == [m \in 0..N |-> Rec(m)]
<1>1. P \in [0..N -> BOOLEAN]
  OBVIOUS
<1>2. Rec(0)
  <2> DEFINE f == [i \in 0..0 |-> {}]
  <2>1. f \in [0..0 -> SUBSET K] /\ f[0] = {}
    OBVIOUS
  <2> HIDE DEF f
  <2> QED
    BY <2>1
<1>3. ASSUME NEW m \in 1..N, Rec(m - 1) PROVE Rec(m)
  <2>1. PICK g \in [0..(m - 1) -> SUBSET K] :
               g[0] = {} /\ \A i \in 1..(m - 1) : g[i] = step[i][g[i - 1]]
    BY <1>3
  <2> DEFINE f == [i \in 0..m |-> IF i = m THEN step[m][g[m - 1]] ELSE g[i]]
  <2>2. step[m][g[m - 1]] \in SUBSET K
    OBVIOUS
  <2>3. f \in [0..m -> SUBSET K]
    BY <2>2
  <2>4. ASSUME NEW i \in 1..m PROVE f[i] = step[i][f[i - 1]]
    <3>1. CASE i = m
      BY <3>1
    <3>2. CASE i # m
      <4>1. i \in 1..(m - 1) /\ f[i] = g[i] /\ f[i - 1] = g[i - 1]
        BY <3>2
      <4> QED
        BY <4>1, <2>1
    <3> QED
      BY <3>1, <3>2
  <2>5. f[0] = {}
    BY <2>1
  <2> HIDE DEF f
  <2> QED
    BY <2>3, <2>4, <2>5
<1>4. \A m \in 0..N : P[m]
  <2>1. P[0]
    BY <1>2
  <2>2. \A m \in 1..N : P[m - 1] => P[m]
    <3> HIDE DEF Rec
    <3> TAKE m \in 1..N
    <3>1. m \in 0..N /\ m - 1 \in 0..N
      OBVIOUS
    <3> QED
      BY <3>1, <1>3
  <2> HIDE DEF P
  <2> QED
    BY <1>1, <2>1, <2>2, UpTo
<1>5. Rec(N)
  <2> HIDE DEF Rec
  <2> QED
    BY <1>4
<1> QED
  BY <1>5 DEF Follows

-----------------------------------------------------------------------------
(* The kinds of a command                                                  *)

\* The node list is finite.
LEMMA Kinds ==
  /\ Len(KindAt) \in Nat
  /\ \A i \in 1..Len(KindAt) : KindAt[i] \in Kind
  /\ IsFiniteSet(Kind)
<1>1. Len(KindAt) = 14 /\ DOMAIN KindAt = 1..14
  BY DEF KindAt
<1>2. \A i \in 1..14 : KindAt[i] \in Kind
  BY <1>1 DEF Kind
<1>3. IsFiniteSet(Kind)
  <2> DEFINE I == 1..Len(KindAt)
             f == [i \in I |-> KindAt[i]]
  <2>1. f \in Surjection(I, Kind)
    BY <1>1, <1>2 DEF Surjection, Kind
  <2>2. Len(KindAt) \in Nat
    BY <1>1
  <2>3. IsFiniteSet(I)
    BY <2>2, FS_Interval
  <2> HIDE DEF I, f
  <2> QED
    BY <2>1, <2>3, FS_Surjection DEF ExistsSurjection
<1> QED
  BY <1>1, <1>2, <1>3

\* What each node of the list emits.
LEMMA EmissionSteps ==
  /\ Emission[0] = {}
  /\ \A i \in 1..Len(KindAt) :
       Emission[i] = Emission[i - 1]
                       \union {k \in {KindAt[i]} \intersect Nodes : Emitted(k, Emission[i - 1])}
<1> DEFINE N == Len(KindAt)
           K == Nodes
           step == [i \in 1..N |-> [S \in SUBSET K |->
                      S \union {k \in {KindAt[i]} \intersect K : Emitted(k, S)}]]
<1>1. N \in Nat
  BY Kinds
<1>2. step \in StepsIn(N, K)
  BY DEF StepsIn
<1>3. PICK f : Follows(f, N, K, step)
  <2> HIDE DEF N, K, step
  <2> QED
    BY <1>1, <1>2, Recursive
<1>4. f \in [0..N -> SUBSET K] /\ f[0] = {} /\ \A i \in 1..N : f[i] = step[i][f[i - 1]]
  BY <1>3 DEF Follows
<1> DEFINE IsEmission(g) ==
             g = [i \in 0..N |-> IF i = 0 THEN {}
                                 ELSE LET S == g[i - 1]
                                      IN  S \union {k \in {KindAt[i]} \intersect K : Emitted(k, S)}]
<1>5. IsEmission(f)
  <2>1. ASSUME NEW i \in 0..N
        PROVE  f[i] = IF i = 0 THEN {}
                      ELSE LET S == f[i - 1]
                           IN  S \union {k \in {KindAt[i]} \intersect K : Emitted(k, S)}
    <3>1. CASE i = 0
      BY <1>4, <3>1
    <3>2. CASE i # 0
      <4>1. i \in 1..N /\ f[i - 1] \in SUBSET K
        <5> HIDE DEF step, K, N
        <5> QED
          BY <1>1, <1>4, <3>2
      <4>2. f[i] = step[i][f[i - 1]]
        <5> HIDE DEF step, K
        <5> QED
          BY <1>4, <3>2
      <4> QED
        BY <3>2, <4>1, <4>2
    <3> QED
      BY <3>1, <3>2
  <2> HIDE DEF N, K
  <2> QED
    BY <2>1, <1>4
<1>6. Emission = CHOOSE g : IsEmission(g)
  BY DEF Emission
<1>7. IsEmission(Emission)
  <2> HIDE DEF IsEmission
  <2> QED
    BY <1>5, <1>6
<1>8. \A i \in 0..N : Emission[i] = IF i = 0 THEN {}
                                   ELSE LET S == Emission[i - 1]
                                        IN  S \union {k \in {KindAt[i]} \intersect K : Emitted(k, S)}
  <2> HIDE DEF N, K
  <2> QED
    BY <1>7
<1>9. Emission[0] = {}
  <2> HIDE DEF N, K
  <2>1. \A i \in 0..N : i = 0 => Emission[i] = {}
    BY <1>8
  <2>2. 0 \in 0..N
    BY <1>1
  <2> QED
    BY <2>1, <2>2
<1>10. ASSUME NEW i \in 1..N
      PROVE  Emission[i] = Emission[i - 1]
                 \union {k \in {KindAt[i]} \intersect K : Emitted(k, Emission[i - 1])}
  <2> HIDE DEF N, K
  <2>1. i \in 0..N /\ i # 0
    BY <1>1
  <2> QED
    BY <1>8, <2>1
<1> QED
  BY <1>9, <1>10

\* What is condemned up to each node of the list.
LEMMA CondemnedSteps ==
  /\ Condemned[0] = {}
  /\ \A i \in 1..Len(KindAt) :
       Condemned[i] = Condemned[i - 1]
                       \union {k \in {KindAt[i]} \intersect Targets : (k \in setup.found.bad \/ Upstream(k) \intersect Condemned[i - 1] # {})}
<1> DEFINE N == Len(KindAt)
           K == Targets
           step == [i \in 1..N |-> [S \in SUBSET K |->
                      S \union {k \in {KindAt[i]} \intersect K : (k \in setup.found.bad \/ Upstream(k) \intersect S # {})}]]
<1>1. N \in Nat
  BY Kinds
<1>2. step \in StepsIn(N, K)
  BY DEF StepsIn
<1>3. PICK f : Follows(f, N, K, step)
  <2> HIDE DEF N, K, step
  <2> QED
    BY <1>1, <1>2, Recursive
<1>4. f \in [0..N -> SUBSET K] /\ f[0] = {} /\ \A i \in 1..N : f[i] = step[i][f[i - 1]]
  BY <1>3 DEF Follows
<1> DEFINE IsCondemned(g) ==
             g = [i \in 0..N |-> IF i = 0 THEN {}
                                 ELSE LET S == g[i - 1]
                                      IN  S \union {k \in {KindAt[i]} \intersect K : (k \in setup.found.bad \/ Upstream(k) \intersect S # {})}]
<1>5. IsCondemned(f)
  <2>1. ASSUME NEW i \in 0..N
        PROVE  f[i] = IF i = 0 THEN {}
                      ELSE LET S == f[i - 1]
                           IN  S \union {k \in {KindAt[i]} \intersect K : (k \in setup.found.bad \/ Upstream(k) \intersect S # {})}
    <3>1. CASE i = 0
      BY <1>4, <3>1
    <3>2. CASE i # 0
      <4>1. i \in 1..N /\ f[i - 1] \in SUBSET K
        <5> HIDE DEF step, K, N
        <5> QED
          BY <1>1, <1>4, <3>2
      <4>2. f[i] = step[i][f[i - 1]]
        <5> HIDE DEF step, K
        <5> QED
          BY <1>4, <3>2
      <4> QED
        BY <3>2, <4>1, <4>2
    <3> QED
      BY <3>1, <3>2
  <2> HIDE DEF N, K
  <2> QED
    BY <2>1, <1>4
<1>6. Condemned = CHOOSE g : IsCondemned(g)
  BY DEF Condemned
<1>7. IsCondemned(Condemned)
  <2> HIDE DEF IsCondemned
  <2> QED
    BY <1>5, <1>6
<1>8. \A i \in 0..N : Condemned[i] = IF i = 0 THEN {}
                                   ELSE LET S == Condemned[i - 1]
                                        IN  S \union {k \in {KindAt[i]} \intersect K : (k \in setup.found.bad \/ Upstream(k) \intersect S # {})}
  <2> HIDE DEF N, K
  <2> QED
    BY <1>7
<1>9. Condemned[0] = {}
  <2> HIDE DEF N, K
  <2>1. \A i \in 0..N : i = 0 => Condemned[i] = {}
    BY <1>8
  <2>2. 0 \in 0..N
    BY <1>1
  <2> QED
    BY <2>1, <2>2
<1>10. ASSUME NEW i \in 1..N
      PROVE  Condemned[i] = Condemned[i - 1]
                 \union {k \in {KindAt[i]} \intersect K : (k \in setup.found.bad \/ Upstream(k) \intersect Condemned[i - 1] # {})}
  <2> HIDE DEF N, K
  <2>1. i \in 0..N /\ i # 0
    BY <1>1
  <2> QED
    BY <1>8, <2>1
<1> QED
  BY <1>9, <1>10

\* What has left the queue after each round.
LEMMA OrderedSteps ==
  /\ Ordered[0] = {}
  /\ \A i \in 1..Cardinality(Kind) : Ordered[i] = Leaving(Ordered[i - 1])
<1> DEFINE N == Cardinality(Kind)
           K == Nodes
           step == [i \in 1..N |-> [S \in SUBSET K |-> Leaving(S)]]
<1>1. N \in Nat
  BY Kinds, FS_CardinalityType
<1>2. step \in StepsIn(N, K)
  BY DEF StepsIn, Leaving
<1>3. PICK f : Follows(f, N, K, step)
  <2> HIDE DEF N, K, step
  <2> QED
    BY <1>1, <1>2, Recursive
<1>4. f \in [0..N -> SUBSET K] /\ f[0] = {} /\ \A i \in 1..N : f[i] = step[i][f[i - 1]]
  BY <1>3 DEF Follows
<1> DEFINE IsOrdered(g) ==
             g = [i \in 0..N |-> IF i = 0 THEN {} ELSE LET S == g[i - 1] IN Leaving(S)]
<1>5. IsOrdered(f)
  <2>1. ASSUME NEW i \in 0..N
        PROVE  f[i] = IF i = 0 THEN {} ELSE LET S == f[i - 1] IN Leaving(S)
    <3>1. CASE i = 0
      BY <1>4, <3>1
    <3>2. CASE i # 0
      <4>1. i \in 1..N /\ f[i - 1] \in SUBSET K
        <5> HIDE DEF step, K, N
        <5> QED
          BY <1>1, <1>4, <3>2
      <4>2. f[i] = step[i][f[i - 1]]
        <5> HIDE DEF step, K
        <5> QED
          BY <1>4, <4>1
      <4> QED
        BY <3>2, <4>1, <4>2
    <3> QED
      BY <3>1, <3>2
  <2> HIDE DEF N, K
  <2> QED
    BY <2>1, <1>4
<1>6. Ordered = CHOOSE g : IsOrdered(g)
  BY DEF Ordered
<1>7. IsOrdered(Ordered)
  <2> HIDE DEF IsOrdered
  <2> QED
    BY <1>5, <1>6
<1>8. \A i \in 0..N : Ordered[i] = IF i = 0 THEN {} ELSE Leaving(Ordered[i - 1])
  <2> HIDE DEF N, K
  <2> QED
    BY <1>7
<1> HIDE DEF N
<1>9. Ordered[0] = {}
  BY <1>1, <1>8
<1>10. ASSUME NEW i \in 1..N PROVE Ordered[i] = Leaving(Ordered[i - 1])
  <2>1. i \in 0..N /\ i # 0
    BY <1>1
  <2> QED
    BY <1>8, <2>1
<1> QED
  BY <1>9, <1>10 DEF N

\* The targets are of the kinds in the graph, and what is condemned is a
\* target.
LEMMA TargetsIn ==
  /\ Targets \subseteq Nodes
  /\ Condemned[Len(KindAt)] \subseteq Targets
<1> DEFINE N == Len(KindAt)
           P == [i \in 0..N |-> Emission[i] \subseteq Nodes]
           Q == [i \in 0..N |-> Condemned[i] \subseteq Targets]
<1>1. N \in Nat
  BY Kinds
<1>2. \A i \in 0..N : P[i]
  <2>1. P[0]
    <3>1. 0 \in 0..N /\ Emission[0] \subseteq Nodes
      BY <1>1, EmissionSteps
    <3> HIDE DEF N
    <3> QED
      BY <3>1
  <2>2. ASSUME NEW i \in 1..N, P[i - 1] PROVE P[i]
    <3> HIDE DEF N
    <3>1. i \in 0..N /\ i - 1 \in 0..N
      BY <1>1
    <3>2. Emission[i - 1] \subseteq Nodes
      BY <2>2, <3>1
    <3>3. Emission[i] \subseteq Nodes
      <4> HIDE DEF P
      <4> QED
        BY <3>2, EmissionSteps DEF N
    <3> QED
      BY <3>3, <3>1
  <2>3. P \in [0..N -> BOOLEAN]
    OBVIOUS
  <2> HIDE DEF P, N
  <2> QED
    BY <1>1, <2>1, <2>2, <2>3, UpTo
<1>3. \A i \in 0..N : Q[i]
  <2>1. Q[0]
    <3>1. 0 \in 0..N /\ Condemned[0] \subseteq Targets
      BY <1>1, CondemnedSteps
    <3> HIDE DEF N
    <3> QED
      BY <3>1
  <2>2. ASSUME NEW i \in 1..N, Q[i - 1] PROVE Q[i]
    <3> HIDE DEF N
    <3>1. i \in 0..N /\ i - 1 \in 0..N
      BY <1>1
    <3>2. Condemned[i - 1] \subseteq Targets
      BY <2>2, <3>1
    <3>3. Condemned[i] \subseteq Targets
      <4> HIDE DEF Q
      <4> QED
        BY <3>2, CondemnedSteps DEF N
    <3> QED
      BY <3>3, <3>1
  <2>3. Q \in [0..N -> BOOLEAN]
    OBVIOUS
  <2> HIDE DEF Q, N
  <2> QED
    BY <1>1, <2>1, <2>2, <2>3, UpTo
<1>4. N \in 0..N
  BY <1>1
<1>5. Emission[N] \subseteq Nodes /\ Condemned[N] \subseteq Targets
  <2> HIDE DEF N
  <2> QED
    BY <1>2, <1>3, <1>4
<1> QED
  BY <1>5 DEF Targets

\* The order is complete: after as many rounds as there are kinds, no other
\* kind can leave the queue.
LEMMA OrderComplete ==
  LET sorted == Ordered[Cardinality(Kind)] IN Leaving(sorted) = sorted
<1> DEFINE N == Cardinality(Kind)
           O == Ordered
<1>1. N \in Nat /\ IsFiniteSet(Kind)
  BY Kinds, FS_CardinalityType
<1>2. O[0] = {} /\ \A i \in 1..N : O[i] = Leaving(O[i - 1])
  BY OrderedSteps
<1>3. \A S : Leaving(S) \subseteq Kind
  BY DEF Leaving, Nodes
<1>4. \A S, T : S \subseteq T => Leaving(S) \subseteq Leaving(T)
  BY DEF Leaving
<1> HIDE DEF N, O
<1> DEFINE P == [i \in 0..N |-> O[i] \subseteq Kind /\ O[i] \subseteq Leaving(O[i])]
           Q == [i \in 0..N |-> Leaving(O[i]) = O[i] \/ Cardinality(O[i]) >= i]
<1>5. \A i \in 0..N : P[i]
  <2>1. P[0]
    <3>1. 0 \in 0..N /\ O[0] \subseteq Kind /\ O[0] \subseteq Leaving(O[0])
      BY <1>1, <1>2
    <3> QED
      BY <3>1
  <2>2. ASSUME NEW i \in 1..N, P[i - 1] PROVE P[i]
    <3>1. i \in 0..N /\ i - 1 \in 0..N
      BY <1>1
    <3>2. O[i - 1] \subseteq Leaving(O[i - 1])
      BY <2>2, <3>1
    <3>3. O[i] = Leaving(O[i - 1])
      BY <1>2
    <3>4. O[i] \subseteq Kind /\ O[i] \subseteq Leaving(O[i])
      <4> HIDE DEF P
      <4> QED
        BY <1>3, <1>4, <3>2, <3>3
    <3> QED
      BY <3>1, <3>4
  <2>3. P \in [0..N -> BOOLEAN]
    OBVIOUS
  <2> HIDE DEF P
  <2> QED
    BY <1>1, <2>1, <2>2, <2>3, UpTo
<1>6. \A i \in 0..N : IsFiniteSet(O[i]) /\ Cardinality(O[i]) \in Nat
  BY <1>1, <1>5, FS_Subset, FS_CardinalityType
<1>7. \A i \in 0..N : Q[i]
  <2>1. Q[0]
    <3>1. 0 \in 0..N
      BY <1>1
    <3>2. Cardinality(O[0]) >= 0
      BY <1>6, <3>1
    <3> QED
      BY <3>1, <3>2
  <2>2. ASSUME NEW i \in 1..N, Q[i - 1] PROVE Q[i]
    <3>1. i \in 0..N /\ i - 1 \in 0..N
      BY <1>1
    <3>2. O[i] = Leaving(O[i - 1])
      BY <1>2
    <3>3. CASE Leaving(O[i - 1]) = O[i - 1]
      BY <3>1, <3>2, <3>3
    <3>4. CASE Leaving(O[i - 1]) # O[i - 1]
      <4>1. Cardinality(O[i - 1]) >= i - 1
        BY <2>2, <3>1, <3>4
      <4>2. O[i - 1] \subseteq O[i] /\ O[i - 1] # O[i]
        BY <1>5, <3>1, <3>2, <3>4
      <4>3. Cardinality(O[i - 1]) <= Cardinality(O[i]) /\ Cardinality(O[i - 1]) # Cardinality(O[i])
        <5> HIDE DEF P, Q
        <5> QED
          BY <1>6, <3>1, <4>2, FS_Subset
      <4>4. Cardinality(O[i]) >= i
        <5> HIDE DEF P, Q
        <5> QED
          BY <1>6, <3>1, <4>1, <4>3
      <4> QED
        BY <3>1, <4>4
    <3> QED
      BY <3>3, <3>4
  <2>3. Q \in [0..N -> BOOLEAN]
    OBVIOUS
  <2> HIDE DEF Q
  <2> QED
    BY <1>1, <2>1, <2>2, <2>3, UpTo
<1>8. N \in 0..N
  BY <1>1
<1>9. O[N] \subseteq Kind /\ O[N] \subseteq Leaving(O[N])
  BY <1>5, <1>8
<1>10. Leaving(O[N]) = O[N] \/ Cardinality(O[N]) >= N
  BY <1>7, <1>8
<1>11. CASE Cardinality(O[N]) >= N
  <2>1. Cardinality(O[N]) = Cardinality(Kind)
    <3>1. Cardinality(O[N]) <= Cardinality(Kind)
      BY <1>1, <1>9, FS_Subset
    <3> QED
      BY <1>1, <1>6, <1>11, <3>1 DEF N
  <2>2. O[N] = Kind
    BY <1>1, <1>9, <2>1, FS_Subset
  <2> QED
    BY <1>3, <1>9, <2>2 DEF N, O
<1> QED
  BY <1>10, <1>11 DEF N, O

\* Where the order leaves a kind out, the edges have a cycle.
LEMMA LeftOutCyclic ==
  ASSUME Valid, ~ (Nodes \subseteq InTheOrder)
  PROVE  Cyclic
<1> DEFINE sorted == Ordered[Cardinality(Kind)]
           Out == Nodes \ sorted
           S == Out \intersect {e[1] : e \in Edges}
<1>1. Out # {}
  BY DEF InTheOrder
<1>2. Leaving(sorted) = sorted
  BY OrderComplete
<1> HIDE DEF sorted
<1>3. \A k \in Out : \E j \in S : j \in Sources(k)
  <2> TAKE k \in Out
  <2>1. PICK j \in Sources(k) : j \notin sorted
    BY <1>2 DEF Leaving
  <2>2. PICK e \in Edges : e[1] = j
    BY <2>1 DEF Sources
  <2>3. j \in Nodes
    BY <2>2 DEF Valid
  <2> QED
    BY <2>1, <2>2, <2>3
<1>4. S # {}
  BY <1>1, <1>3
<1>5. \A k \in S : Sources(k) \intersect S # {}
  BY <1>3
<1> QED
  BY <1>4, <1>5 DEF Cyclic

-----------------------------------------------------------------------------
(* The execution report                                                    *)

\* Before it ends a command has not summed up.  Its graph is valid once it has
\* been loaded, nothing is added to the executor before the nodes have their
\* ids, the plan divides the targets, each planned kind has one node, and what
\* runs is what was scheduled.
PlanInv ==
  /\ stage # "ended" => summed = NoReport
  /\ stage \in {"plan", "schedule", "add", "run"} => Valid
  /\ stage \in {"load", "plan", "schedule"} =>
       phase = "building" /\ \A n \in Node : rank[n] = 0
  /\ stage \in {"schedule", "add", "run"} =>
       /\ plan.terminal \subseteq Targets /\ plan.existing \subseteq Targets
       /\ plan.existing \intersect plan.terminal = {}
       /\ plan.planned = Targets \ (plan.terminal \union plan.existing)
  /\ stage \in {"add", "run"} =>
       \A k \in plan.planned : Cardinality({n \in Node : kindOf[n] = k}) = 1
  /\ stage = "run" => Registered = NodesOf(Scheduled)

LEMMA SameSetup ==
  UNCHANGED setup => UNCHANGED <<Targets, Valid, Edges, Nodes, InTheOrder, Cyclic>>
<1>1. UNCHANGED setup => UNCHANGED <<Edges, Nodes>>
  BY DEF Edges, Nodes
<1>2. UNCHANGED setup => Targets' = Targets
  BY <1>1 DEF Targets, Emission, Emitted
<1>3. UNCHANGED <<Edges, Nodes>> => Ordered' = Ordered
  BY DEF Ordered, Leaving, Sources
<1>4. UNCHANGED <<Edges, Nodes>> => UNCHANGED <<Valid, InTheOrder, Cyclic>>
  BY <1>3 DEF Valid, InTheOrder, Cyclic, Sources
<1> QED
  BY <1>1, <1>2, <1>4

\* No step of the executor declares a task once the run has started.
LEMMA RankStays == Executing => UNCHANGED rank
<1> SUFFICES ASSUME Executing PROVE UNCHANGED rank
  OBVIOUS
<1>1. CASE ReportedCoordinator
  BY <1>1
     DEF ReportedCoordinator, BeginRun, StartRun, ReportBlocked, DispatchBlocked, ReportMoved,
         DispatchRun, CollectRetry, CollectFailure, CollectSuccess, Untold, StartRejected,
         StartWait, WaitReturns, PoolShutdown, LoopEnds, Finish, Emit, EmitFails, graph, vars
<1>2. CASE Interrupt \/ \E n \in Node : ReportedWorker(n)
  BY <1>2 DEF Interrupt, ReportedWorker, WorkerBegin, WorkerEnd, graph
<1>3. CASE Heartbeat \/ Closing
  BY <1>3
     DEF Heartbeat, Beat, BeatWrites, BeatStops, Closing, Stop, Join, LastLine, WriteReport,
         Persist, Then, vars, graph
<1> QED
  BY <1>1, <1>2, <1>3 DEF Executing

LEMMA PlanStep == PlanInv /\ [CommandNext]_<<all, command>> => PlanInv'
<1> SUFFICES ASSUME PlanInv, [CommandNext]_<<all, command>> PROVE PlanInv'
  OBVIOUS
<1>1. UNCHANGED setup
  BY DEF CommandNext, command, Load, PlanTargets, Identify, AddScheduled, Run, RunRaises, SumUp
<1>2. UNCHANGED <<Targets, Valid, InTheOrder>>
  BY <1>1, SameSetup
<1>3. CASE (stage = "caller" /\ ReportNext /\ UNCHANGED command) \/ RunRaises \/ SumUp
  BY <1>3 DEF PlanInv, command, RunRaises, SumUp, EndWith
<1>4. CASE Load
  BY <1>2, <1>4 DEF PlanInv, Load, EndWith, all, vars, graph
<1>5. CASE PlanTargets
  <2>1. /\ stage = "plan" /\ Valid /\ phase = "building" /\ \A n \in Node : rank[n] = 0
        /\ summed = NoReport
    BY <1>5 DEF PlanTargets, PlanInv
  <2>2. UNCHANGED <<phase, rank, summed>> /\ stage' \in {"ended", "schedule"}
    BY <1>5 DEF PlanTargets, EndWith, all, vars, graph
  <2>3. stage' = "schedule" =>
          /\ plan'.terminal \subseteq Targets /\ plan'.existing \subseteq Targets
          /\ plan'.existing \intersect plan'.terminal = {}
          /\ plan'.planned = Targets \ (plan'.terminal \union plan'.existing)
    <3> DEFINE terminal == IF setup.force THEN {} ELSE Condemned[Len(KindAt)]
               existing == IF setup.force THEN {}
                           ELSE (Targets \intersect setup.found.made) \ terminal
               planned == Targets \ (terminal \union existing)
    <3>1. stage' = "schedule" =>
            plan' = [planned |-> planned, existing |-> existing, terminal |-> terminal]
      BY <1>5 DEF PlanTargets, EndWith
    <3>2. terminal \subseteq Targets /\ existing \subseteq Targets
          /\ existing \intersect terminal = {}
      BY TargetsIn
    <3> HIDE DEF terminal, existing
    <3> QED
      BY <3>1, <3>2
  <2> QED
    BY <1>2, <2>1, <2>2, <2>3 DEF PlanInv
<1>6. CASE Identify
  <2>1. /\ stage = "schedule" /\ stage' = "add" /\ UNCHANGED <<plan, summed>>
        /\ \A k \in plan.planned : Cardinality({n \in Node : kindOf'[n] = k}) = 1
    BY <1>6 DEF Identify
  <2> QED
    BY <1>2, <2>1 DEF PlanInv
<1>7. ASSUME NEW n \in Node, AddScheduled(n) PROVE PlanInv'
  <2>1. /\ stage = "add" /\ UNCHANGED <<plan, kindOf, summed>>
        /\ stage' = IF Registered' = NodesOf(Scheduled) THEN "run" ELSE "add"
    BY <1>7 DEF AddScheduled
  <2>2. NodesOf(Scheduled)' = NodesOf(Scheduled)
    BY <1>2, <2>1 DEF NodesOf, Scheduled
  <2> QED
    BY <1>2, <2>1, <2>2 DEF PlanInv
<1>8. CASE Run
  <2>1. stage = "run" /\ UNCHANGED <<stage, plan, kindOf, summed, rank>>
    BY <1>8, RankStays DEF Run
  <2>2. NodesOf(Scheduled)' = NodesOf(Scheduled) /\ Registered' = Registered
    BY <1>2, <2>1 DEF NodesOf, Scheduled, Registered
  <2> QED
    BY <1>2, <2>1, <2>2 DEF PlanInv
<1>9. CASE UNCHANGED <<all, command>>
  <2>1. UNCHANGED <<stage, plan, kindOf, summed, rank, phase>>
    BY <1>9 DEF all, command, vars, graph
  <2>2. NodesOf(Scheduled)' = NodesOf(Scheduled) /\ Registered' = Registered
    BY <1>2, <2>1 DEF NodesOf, Scheduled, Registered
  <2> QED
    BY <1>2, <2>1, <2>2 DEF PlanInv
<1> QED
  BY <1>3, <1>4, <1>5, <1>6, <1>7, <1>8, <1>9 DEF CommandNext

\* The counts of two sets that have nothing in common.
LEMMA CountBoth ==
  ASSUME NEW S, NEW T, IsFiniteSet(S), IsFiniteSet(T), S \intersect T = {}
  PROVE  /\ IsFiniteSet(S \union T)
         /\ Cardinality(S) \in Nat /\ Cardinality(T) \in Nat
         /\ Cardinality(S \union T) = Cardinality(S) + Cardinality(T)
BY FS_Union, FS_EmptySet, FS_CardinalityType

\* The parts of a plan make up the targets, and all that is planned is
\* scheduled but for what is on a cycle or behind one.
LEMMA PlanCounts ==
  ASSUME PlanInv, stage \in {"schedule", "add", "run"}
  PROVE  /\ IsFiniteSet(Scheduled)
         /\ {Cardinality(plan.planned), Cardinality(plan.existing), Cardinality(plan.terminal)}
              \subseteq Nat
         /\ Cardinality(Targets) = Cardinality(plan.planned) + Cardinality(plan.existing)
                                     + Cardinality(plan.terminal)
         /\ Cardinality(plan.terminal) = 0 => plan.terminal = {}
         /\ Scheduled = plan.planned \/ Cyclic
<1>1. /\ plan.terminal \subseteq Targets /\ plan.existing \subseteq Targets
      /\ plan.existing \intersect plan.terminal = {}
      /\ plan.planned = Targets \ (plan.terminal \union plan.existing)
      /\ Valid
  BY DEF PlanInv
<1>2. Targets \subseteq Nodes /\ Nodes \subseteq Kind
  BY TargetsIn DEF Nodes
<1>3. IsFiniteSet(Targets)
  BY <1>2, Kinds, FS_Subset
<1>4. IsFiniteSet(plan.planned) /\ IsFiniteSet(plan.existing) /\ IsFiniteSet(plan.terminal)
  BY <1>1, <1>3, FS_Subset
<1>5. IsFiniteSet(Scheduled)
  BY <1>4, FS_Subset DEF Scheduled
<1>6. (plan.planned \union plan.existing) \union plan.terminal = Targets
  BY <1>1
<1>7. Cardinality(plan.planned \union plan.existing)
        = Cardinality(plan.planned) + Cardinality(plan.existing)
      /\ IsFiniteSet(plan.planned \union plan.existing)
  BY <1>1, <1>4, CountBoth
<1>8. Cardinality((plan.planned \union plan.existing) \union plan.terminal)
        = Cardinality(plan.planned \union plan.existing) + Cardinality(plan.terminal)
  BY <1>1, <1>4, <1>7, CountBoth
<1>9. Scheduled = plan.planned \/ Cyclic
  BY <1>1, <1>2, LeftOutCyclic DEF Scheduled
<1>10. /\ Cardinality(plan.planned) \in Nat /\ Cardinality(plan.existing) \in Nat
       /\ Cardinality(plan.terminal) \in Nat
  BY <1>4, FS_CardinalityType
<1> QED
  BY <1>4, <1>5, <1>6, <1>7, <1>8, <1>9, <1>10, FS_EmptySet

\* As many nodes as kinds that are scheduled.
LEMMA NodesCounted ==
  ASSUME PlanInv, stage = "run"
  PROVE  Cardinality(Registered) = Cardinality(Scheduled)
<1> DEFINE f == [k \in Scheduled |-> CHOOSE n \in Node : kindOf[n] = k]
<1>1. ASSUME NEW k \in Scheduled PROVE \E x : {n \in Node : kindOf[n] = k} = {x}
  <2>1. Cardinality({n \in Node : kindOf[n] = k}) = 1
    BY DEF PlanInv, Scheduled
  <2>2. IsFiniteSet({n \in Node : kindOf[n] = k})
    BY ExecutorAssumption, FS_Subset
  <2> QED
    BY <2>1, <2>2, FS_Singleton
<1>2. \A k \in Scheduled : f[k] \in Node /\ kindOf[f[k]] = k
  <2> TAKE k \in Scheduled
  <2>1. \E n \in Node : kindOf[n] = k
    BY <1>1
  <2> QED
    BY <2>1
<1>3. \A n \in Node : kindOf[n] \in Scheduled => f[kindOf[n]] = n
  <2> TAKE n \in Node
  <2> SUFFICES ASSUME kindOf[n] \in Scheduled PROVE f[kindOf[n]] = n
    OBVIOUS
  <2> DEFINE k == kindOf[n]
  <2>1. f[k] \in {m \in Node : kindOf[m] = k} /\ n \in {m \in Node : kindOf[m] = k}
    BY <1>2
  <2> QED
    BY <1>1, <2>1
<1>4. Registered = NodesOf(Scheduled)
  BY DEF PlanInv
<1>5. f \in Bijection(Scheduled, Registered)
  <2>1. f \in [Scheduled -> Registered]
    BY <1>2, <1>4 DEF NodesOf
  <2>2. \A n \in Registered : kindOf[n] \in Scheduled /\ f[kindOf[n]] = n
    BY <1>3, <1>4 DEF NodesOf
  <2> HIDE DEF f
  <2> QED
    BY <1>2, <2>1, <2>2 DEF Bijection, Injection, Surjection, IsInjective
<1>6. IsFiniteSet(Scheduled)
  BY PlanCounts
<1> HIDE DEF f
<1> QED
  BY <1>5, <1>6, FS_Bijection DEF ExistsBijection

\* What a command sums up, counts every task that was scheduled.
LEMMA TasksCounted ==
  ASSUME IInv, LoopInv, TriedInv, PlanInv,
         \/ stage = "run" /\ closing = "closed"
         \/ stage = "schedule" /\ Scheduled = {}
  PROVE  /\ {Ended("succeeded"), Ended("failed"), Ended("blocked")} \subseteq Nat
         /\ Cardinality(Scheduled) = Ended("succeeded") + Ended("failed") + Ended("blocked")
         /\ Ended("failed") = 0 =>
              \A k \in Scheduled : \E n \in Registered : kindOf[n] = k /\ progress[n] = "succeeded"
<1> DEFINE A(s) == {n \in Registered : progress[n] = s}
<1>1. IsFiniteSet(Registered) /\ Registered \subseteq Node
  BY ExecutorAssumption, FS_Subset DEF Registered
<1>2. IsFiniteSet(A("succeeded")) /\ IsFiniteSet(A("failed")) /\ IsFiniteSet(A("blocked"))
  BY <1>1, FS_Subset
<1>3. CASE stage = "schedule" /\ Scheduled = {}
  <2>1. Registered = {}
    BY <1>3 DEF PlanInv, Registered, IInv, TypeOK
  <2>2. Cardinality({}) = 0
    BY FS_EmptySet
  <2>3. Ended("succeeded") = 0 /\ Ended("failed") = 0 /\ Ended("blocked") = 0
    BY <2>1, <2>2 DEF Ended
  <2> QED
    BY <1>3, <2>2, <2>3
<1>4. CASE stage = "run" /\ closing = "closed"
  <2>1. /\ phase = "finished"
        /\ \A n \in Registered : progress[n] \in {"succeeded", "failed", "blocked"}
    BY <1>1, <1>4 DEF LoopInv, TerminalStates, IInv, GraphInv, Registered
  <2>2. (A("succeeded") \union A("failed")) \union A("blocked") = Registered
    BY <2>1
  <2>3. /\ IsFiniteSet(A("succeeded") \union A("failed"))
        /\ Cardinality(A("succeeded") \union A("failed"))
             = Cardinality(A("succeeded")) + Cardinality(A("failed"))
        /\ Cardinality(A("succeeded")) \in Nat /\ Cardinality(A("failed")) \in Nat
    <3>1. A("succeeded") \intersect A("failed") = {}
      OBVIOUS
    <3> HIDE DEF A
    <3> QED
      BY <1>2, <3>1, CountBoth
  <2>4. /\ Cardinality((A("succeeded") \union A("failed")) \union A("blocked"))
             = Cardinality(A("succeeded") \union A("failed")) + Cardinality(A("blocked"))
        /\ Cardinality(A("blocked")) \in Nat
    <3>1. (A("succeeded") \union A("failed")) \intersect A("blocked") = {}
      OBVIOUS
    <3> HIDE DEF A
    <3> QED
      BY <1>2, <2>3, <3>1, CountBoth
  <2>5. \A s : Ended(s) = Cardinality(A(s))
    BY DEF Ended
  <2>6. Cardinality(Registered) = Cardinality(Scheduled)
    BY <1>4, NodesCounted
  <2>7. ASSUME Ended("failed") = 0, NEW k \in Scheduled
        PROVE  \E n \in Registered : kindOf[n] = k /\ progress[n] = "succeeded"
    <3>1. A("failed") = {}
      <4> HIDE DEF A
      <4> QED
        BY <1>2, <2>5, <2>7, FS_EmptySet
    <3>2. \A n \in Node : progress[n] = "failed" => n \in Registered
      BY <2>1 DEF IInv, GraphInv, Registered
    <3>3. \A n \in Node : progress[n] # "failed" /\ progress[n] # "blocked"
      BY <1>1, <3>1, <3>2 DEF TriedInv
    <3>4. Cardinality({n \in Node : kindOf[n] = k}) = 1
      BY <1>4 DEF PlanInv, Scheduled
    <3>5. PICK n \in Node : kindOf[n] = k
      <4>1. Cardinality({}) # 1
        BY FS_EmptySet
      <4> QED
        BY <3>4, <4>1
    <3>6. n \in Registered
      BY <1>4, <3>5 DEF PlanInv, NodesOf
    <3> QED
      BY <2>1, <3>3, <3>5, <3>6
  <2> HIDE DEF A
  <2> QED
    BY <2>2, <2>3, <2>4, <2>5, <2>6, <2>7
<1> QED
  BY <1>3, <1>4

LEMMA ReportHolds ==
  ASSUME IInv, LoopInv, TriedInv, PlanInv, SumUp PROVE ReportTruthful'
<1> SUFFICES ASSUME summed' # NoReport PROVE ReportTruthful'
  BY DEF ReportTruthful
<1>1. /\ summed' = ReportOf(Cardinality(Scheduled)) /\ exit' = ExitCode
      /\ UNCHANGED <<all, setup, plan, kindOf>> /\ stage \in {"schedule", "run"}
  BY DEF SumUp, EndWith, PlanInv
<1> DEFINE p == Cardinality(plan.planned)  e == Cardinality(plan.existing)
           t == Cardinality(plan.terminal) c == Cardinality(Scheduled)
           s == Ended("succeeded") f == Ended("failed") b == Ended("blocked")
<1>2. /\ {p, e, t, s, f, b} \subseteq Nat /\ c = s + f + b
      /\ Cardinality(Targets) = p + e + t
      /\ c = p \/ Cyclic
  BY <1>1, PlanCounts, TasksCounted DEF SumUp
<1>3. /\ summed'.total = c + e + t /\ summed'.succeeded = s /\ summed'.failed = f
      /\ summed'.blocked = b /\ summed'.cached = e /\ summed'.skipped = t
      /\ summed'.outcome = "completed" => ~ (f > 0) /\ ~ (t > 0)
  BY <1>1 DEF ReportOf
<1>4. exit' = "0" /\ setup.strict => ~ (f > 0) /\ plan.terminal = {}
  BY <1>1 DEF ExitCode
<1>5. ASSUME f = 0, plan.terminal = {}, ~ Cyclic, NEW k \in Targets PROVE Provided(k)
  <2>1. Scheduled = plan.planned
    BY <1>1, <1>5, PlanCounts
  <2>2. k \in plan.existing \/ k \in Scheduled
    BY <1>1, <1>5, <2>1 DEF PlanInv
  <2>3. k \in Scheduled => \E n \in Registered : kindOf[n] = k /\ progress[n] = "succeeded"
    BY <1>5, TasksCounted DEF SumUp
  <2> QED
    BY <2>2, <2>3 DEF Provided
<1>6. t = 0 => plan.terminal = {}
  BY <1>1, PlanCounts
<1>7. UNCHANGED <<Targets, Cyclic>> /\ \A k : Provided(k)' = Provided(k)
  BY <1>1, SameSetup DEF Provided, Registered, all, vars, graph
<1>8. UNCHANGED setup
  BY <1>1
<1> HIDE DEF p, e, t, c, s, f, b
<1>9. summed'.total
        = summed'.succeeded + summed'.failed + summed'.blocked + summed'.cached + summed'.skipped
  BY <1>2, <1>3
<1>10. summed'.total = Cardinality(Targets) \/ Cyclic
  BY <1>2, <1>3
<1>11. summed'.outcome = "completed" \/ (exit' = "0" /\ setup.strict) =>
         (\A k \in Targets : Provided(k)) \/ Cyclic
  <2>1. summed'.outcome = "completed" \/ (exit' = "0" /\ setup.strict) =>
          f = 0 /\ plan.terminal = {}
    BY <1>2, <1>3, <1>4, <1>6
  <2> QED
    BY <2>1, <1>5
<1> QED
  BY <1>7, <1>8, <1>9, <1>10, <1>11 DEF ReportTruthful

LEMMA ReportStep ==
  IInv /\ LoopInv /\ TriedInv /\ PlanInv /\ ReportTruthful /\ [CommandNext]_<<all, command>>
    => ReportTruthful'
<1> SUFFICES ASSUME IInv, LoopInv, TriedInv, PlanInv, ReportTruthful,
                    [CommandNext]_<<all, command>>, summed' # NoReport
             PROVE  ReportTruthful'
  BY DEF ReportTruthful
<1>1. CASE SumUp
  BY <1>1, ReportHolds
<1>2. CASE ~ SumUp
  <2>1. UNCHANGED summed
    BY <1>2 DEF CommandNext, command, Load, PlanTargets, Identify, AddScheduled, Run, RunRaises
  <2>2. stage = "ended"
    BY <2>1 DEF PlanInv
  <2>3. UNCHANGED <<all, command>>
    BY <1>2, <2>2 DEF CommandNext, Load, PlanTargets, Identify, AddScheduled, Run, RunRaises
  <2>4. UNCHANGED <<setup, summed, exit, plan, kindOf, rank, progress>>
    BY <2>3 DEF all, command, vars, graph
  <2>5. UNCHANGED <<Targets, Cyclic>> /\ \A k : Provided(k)' = Provided(k)
    BY <2>4, SameSetup DEF Provided, Registered
  <2> QED
    BY <2>4, <2>5 DEF ReportTruthful
<1> QED
  BY <1>1, <1>2

\* Whatever the planning file, the registry and the run are, the report of a
\* command counts every target once, and claims no target that is not there,
\* unless the edges of the file form a cycle.
THEOREM ReportTruthfulCorrect == CommandSpec => []ReportTruthful
<1> DEFINE Told == LoopInv /\ TriedInv /\ PlanInv /\ ReportTruthful
<1>1. CommandInit => Told
  BY DEF CommandInit, RunInit, Init, ReportInit, LoopInv, TriedInv, PlanInv, ReportTruthful,
         Started, Registered
<1>2. IInv /\ LineInv /\ Told /\ [CommandNext]_<<all, command>> => Told'
  BY CommandStep, ReportedStep, ReportedIInv, LoopStep, TriedStep, PlanStep, ReportStep
<1>3. CommandSpec => []Told
  <2> HIDE DEF Told
  <2> QED
    BY <1>1, <1>2, CommandInvariance, PTL DEF CommandSpec
<1> QED
  BY <1>3, PTL
=============================================================================
