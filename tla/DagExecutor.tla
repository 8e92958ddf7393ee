----------------------------- MODULE DagExecutor -----------------------------
(***************************************************************************)
(* PlanningExecutor: a graph of tasks is declared, validated, and run by   *)
(* one coordinating thread and a pool of MaxWorkers threads.  The          *)
(* coordinator alternates between dispatching ready nodes, waiting for     *)
(* futures, and collecting the ones that completed; the workers read the   *)
(* coordinator's results dictionary while it runs.                         *)
(***************************************************************************)
EXTENDS Integers, Sequences, FiniteSets

CONSTANTS Node,        \* node ids a caller may use
          MaxWorkers,  \* size of the thread pool, after the max(1, .) of __init__
          MaxRetries   \* extra attempts a failing task gets

ASSUME ExecutorAssumption ==
  /\ IsFiniteSet(Node)
  /\ MaxWorkers \in Nat \ {0}
  /\ MaxRetries \in Nat

VARIABLES
  phase,        \* where the executor object is in its life
  rank,         \* insertion rank in _nodes; 0: not in _nodes
  deps,         \* node.deps
  tolerant,     \* node.success_tolerant_dependencies
  progress,     \* GraphProgress: state of each progress node
  pc,           \* where the coordinator is in the loop of run()
  indeg,        \* dependencies not released yet
  ready,        \* the deque of nodes to dispatch
  attempts,
  unsuccessful, \* failed and blocked nodes
  results,      \* nodes whose result is recorded
  future,       \* state of each node's pending future; "none": not in in_flight
  completed,    \* futures returned by wait() and not collected yet
  inputs,       \* dependencies whose results the running attempt was given
  interrupted,  \* a task ended with KeyboardInterrupt or SystemExit
  runStatus     \* status given to performance.finish()

graph  == <<rank, deps, tolerant>>
loop   == <<pc, indeg, ready, attempts, unsuccessful, results, completed, interrupted>>
worker == <<future, inputs>>
vars   == <<phase, graph, progress, loop, worker, runStatus>>

TerminalStates == {"succeeded", "failed", "blocked", "cached", "skipped"}
ProgressStates == {"absent", "pending", "running"} \union TerminalStates
Outcomes       == {"ok", "error", "interrupt"}
FutureStates   == {"none", "submitted", "executing"} \union Outcomes
Phases         == {"building", "rejected", "running", "error",
                   "draining", "interrupted", "finished"}

Registered == {n \in Node : rank[n] > 0}
InFlight   == {n \in Node : future[n] # "none"}
Done       == {n \in Node : future[n] \in Outcomes}

TypeOK ==
  /\ phase \in Phases
  /\ rank \in [Node -> Nat]
  /\ deps \in [Node -> SUBSET Node]
  /\ tolerant \in [Node -> SUBSET Node]
  /\ progress \in [Node -> ProgressStates]
  /\ pc \in {"dispatch", "wait", "collect"}
  /\ indeg \in [Node -> Int]
  /\ ready \in Seq(Node)
  /\ attempts \in [Node -> Nat]
  /\ unsuccessful \subseteq Node
  /\ results \subseteq Node
  /\ future \in [Node -> FutureStates]
  /\ completed \subseteq Node
  /\ inputs \in [Node -> SUBSET Node]
  /\ interrupted \in BOOLEAN
  /\ runStatus \in {"none", "succeeded", "failed", "interrupted"}

Init ==
  /\ phase = "building"
  /\ rank = [n \in Node |-> 0]
  /\ deps = [n \in Node |-> {}]
  /\ tolerant = [n \in Node |-> {}]
  /\ progress = [n \in Node |-> "absent"]
  /\ pc = "dispatch"
  /\ indeg = [n \in Node |-> 0]
  /\ ready = <<>>
  /\ attempts = [n \in Node |-> 0]
  /\ unsuccessful = {}
  /\ results = {}
  /\ future = [n \in Node |-> "none"]
  /\ completed = {}
  /\ inputs = [n \in Node |-> {}]
  /\ interrupted = FALSE
  /\ runStatus = "none"

-----------------------------------------------------------------------------
(* Declaring the graph                                                     *)

\* add_task; the node is stored in _nodes before progress.add_node, which
\* raises when the id was already observed.
AddTask(n) ==
  /\ phase = "building"
  /\ rank[n] = 0
  /\ \E d \in SUBSET Node : \E t \in SUBSET d :
        /\ deps'     = [deps EXCEPT ![n] = d]
        /\ tolerant' = [tolerant EXCEPT ![n] = t]
  /\ rank' = [rank EXCEPT ![n] = Cardinality(Registered) + 1]
  /\ IF progress[n] = "absent"
       THEN progress' = [progress EXCEPT ![n] = "pending"] /\ UNCHANGED phase
       ELSE phase' = "rejected" /\ UNCHANGED progress
  /\ UNCHANGED <<loop, worker, runStatus>>

\* add_task of an id it already has, or with a tolerant dependency that is
\* not a dependency: ValueError, which its callers do not catch.
AddTaskRaises(n) ==
  /\ phase = "building"
  /\ rank[n] > 0 \/ \E d, t \in SUBSET Node : ~(t \subseteq d)
  /\ phase' = "rejected"
  /\ UNCHANGED <<graph, progress, loop, worker, runStatus>>

\* add_observed: work the planner found cached or chose to skip.
AddObserved(n, s) ==
  /\ phase = "building"
  /\ IF rank[n] = 0 /\ progress[n] = "absent"
       THEN progress' = [progress EXCEPT ![n] = s] /\ UNCHANGED phase
       ELSE phase' = "rejected" /\ UNCHANGED progress
  /\ UNCHANGED <<graph, loop, worker, runStatus>>

-----------------------------------------------------------------------------
(* Starting a run                                                          *)

Dependents(n) == {m \in Registered : n \in deps[m]}

\* The nodes the check of _indeg_and_dependents has visited after k rounds.
Peeled[k \in Nat] ==
  IF k = 0 THEN {}
  ELSE {n \in Registered : deps[n] \subseteq Peeled[k - 1]}

\* Mutant: no check for a cycle.
WellFormedAnyGraph == \A n \in Registered : deps[n] \subseteq Registered

WellFormed ==
  /\ \A n \in Registered : deps[n] \subseteq Registered
  /\ Peeled[Cardinality(Registered)] = Registered

\* S in the order of _nodes, which the lists of dependents follow.
InOrder(S) ==
  {s \in [1..Cardinality(S) -> S] :
     /\ \A i, j \in DOMAIN s : i < j => rank[s[i]] < rank[s[j]]
     /\ \A n \in S : \E i \in DOMAIN s : s[i] = n}

StartRun ==
  /\ phase = "building"
  /\ WellFormed
  /\ phase' = "running"
  /\ indeg' = [n \in Node |-> Cardinality(deps[n])]
  /\ ready' \in InOrder({n \in Registered : deps[n] = {}})
  /\ UNCHANGED <<graph, progress, pc, attempts, unsuccessful, results,
                 completed, interrupted, worker, runStatus>>

StartRejected ==
  /\ phase = "building"
  /\ ~WellFormed
  /\ phase' = "rejected"
  /\ UNCHANGED <<graph, progress, loop, worker, runStatus>>

-----------------------------------------------------------------------------
(* The coordinator                                                         *)

\* GraphProgress.transition; it raises out of run() on a terminal node.
Transition(n, s) ==
  IF progress[n] \in TerminalStates
    THEN phase' = "error" /\ UNCHANGED progress
    ELSE progress' = [progress EXCEPT ![n] = s] /\ UNCHANGED phase

\* release(n): q is the deque the newly ready dependents are appended to.
Release(n, q) ==
  /\ indeg' = [m \in Node |-> IF m \in Dependents(n) THEN indeg[m] - 1 ELSE indeg[m]]
  /\ \E s \in InOrder({m \in Dependents(n) : indeg[m] = 1}) : ready' = q \o s

\* Mutant: failures are ignored.
FailedDependenciesIgnored(n) == {}

FailedDependencies(n) == (deps[n] \intersect unsuccessful) \ tolerant[n]

MayDispatch ==
  /\ phase = "running"
  /\ pc = "dispatch"
  /\ ready # <<>>
  /\ Cardinality(InFlight) < MaxWorkers

\* A node with a failed prerequisite never reaches the pool.
DispatchBlocked ==
  /\ MayDispatch
  /\ LET n == Head(ready) IN
       /\ FailedDependencies(n) # {}
       /\ unsuccessful' = unsuccessful \union {n}
       /\ Transition(n, "blocked")
       /\ Release(n, Tail(ready))
  /\ UNCHANGED <<graph, pc, attempts, results, completed, interrupted, worker, runStatus>>

DispatchRun ==
  /\ MayDispatch
  /\ LET n == Head(ready) IN
       /\ FailedDependencies(n) = {}
       /\ attempts' = [attempts EXCEPT ![n] = @ + 1]
       /\ Transition(n, "running")
       /\ future' = [future EXCEPT ![n] = "submitted"]
  /\ ready' = Tail(ready)
  /\ UNCHANGED <<graph, pc, indeg, unsuccessful, results, completed, interrupted,
                 inputs, runStatus>>

\* Nothing more to dispatch: block in wait(FIRST_COMPLETED).
StartWait ==
  /\ phase = "running"
  /\ pc = "dispatch"
  /\ ready = <<>> \/ Cardinality(InFlight) >= MaxWorkers
  /\ InFlight # {}
  /\ pc' = "wait"
  /\ UNCHANGED <<phase, graph, progress, indeg, ready, attempts, unsuccessful, results,
                 completed, interrupted, worker, runStatus>>

\* wait() returns every future that is done at that moment.
WaitReturns ==
  /\ phase = "running"
  /\ pc = "wait"
  /\ Done # {}
  /\ completed' = Done
  /\ pc' = "collect"
  /\ UNCHANGED <<phase, graph, progress, indeg, ready, attempts, unsuccessful, results,
                 interrupted, worker, runStatus>>

\* One iteration of "for future in completed", a set: in any order.
Collecting(n) ==
  /\ phase = "running"
  /\ pc = "collect"
  /\ n \in completed
  /\ completed' = completed \ {n}
  /\ pc' = IF completed = {n} THEN "dispatch" ELSE "collect"
  /\ future' = [future EXCEPT ![n] = "none"]

CollectRetry(n) ==
  /\ Collecting(n)
  /\ future[n] # "ok"
  /\ attempts[n] <= MaxRetries
  /\ Transition(n, "pending")
  /\ ready' = Append(ready, n)
  /\ UNCHANGED <<graph, indeg, attempts, unsuccessful, results, interrupted, inputs,
                 runStatus>>

CollectFailure(n) ==
  /\ Collecting(n)
  /\ future[n] # "ok"
  /\ attempts[n] > MaxRetries
  /\ interrupted' = (interrupted \/ future[n] = "interrupt")
  /\ unsuccessful' = unsuccessful \union {n}
  /\ Transition(n, "failed")
  /\ Release(n, ready)
  /\ UNCHANGED <<graph, attempts, results, inputs, runStatus>>

CollectSuccess(n) ==
  /\ Collecting(n)
  /\ future[n] = "ok"
  /\ results' = results \union {n}
  /\ Transition(n, "succeeded")
  /\ Release(n, ready)
  /\ UNCHANGED <<graph, attempts, unsuccessful, interrupted, inputs, runStatus>>

FinalStatus ==
  IF interrupted THEN "interrupted"
  ELSE IF \E n \in unsuccessful : progress[n] = "failed" THEN "failed"
  ELSE "succeeded"

\* The loop ends; finalize() raises if a progress node is not terminal.
Finish ==
  /\ phase = "running"
  /\ pc = "dispatch"
  /\ ready = <<>>
  /\ InFlight = {}
  /\ IF \A n \in Node : progress[n] \in TerminalStates \union {"absent"}
       THEN /\ phase' = "finished"
            /\ runStatus' = FinalStatus
       ELSE phase' = "error" /\ UNCHANGED runStatus
  /\ UNCHANGED <<graph, progress, loop, worker>>

\* KeyboardInterrupt in the coordinator, which spends its time in wait():
\* leaving the with-block waits for the pool, and nothing is collected.
Interrupt ==
  /\ phase = "running"
  /\ pc = "wait"
  /\ phase' = "draining"
  /\ UNCHANGED <<graph, progress, loop, worker, runStatus>>

PoolShutdown ==
  /\ phase = "draining"
  /\ InFlight \subseteq Done
  /\ phase' = "interrupted"
  /\ UNCHANGED <<graph, progress, loop, worker, runStatus>>

-----------------------------------------------------------------------------
(* The pool                                                                *)

\* run_one: a pool thread takes the attempt and reads results.
WorkerBegin(n) ==
  /\ future[n] = "submitted"
  /\ future' = [future EXCEPT ![n] = "executing"]
  /\ inputs' = [inputs EXCEPT ![n] = deps[n] \intersect results]
  /\ UNCHANGED <<phase, graph, progress, loop, runStatus>>

\* task.run returns or raises; run_one never lets the exception escape.
WorkerEnd(n) ==
  /\ future[n] = "executing"
  /\ \E o \in Outcomes : future' = [future EXCEPT ![n] = o]
  /\ UNCHANGED <<phase, graph, progress, loop, inputs, runStatus>>

-----------------------------------------------------------------------------
Build ==
  \/ \E n \in Node : AddTask(n)
  \/ \E n \in Node : AddTaskRaises(n)
  \/ \E n \in Node : \E s \in {"cached", "skipped"} : AddObserved(n, s)

Coordinator ==
  \/ StartRun
  \/ StartRejected
  \/ DispatchBlocked
  \/ DispatchRun
  \/ StartWait
  \/ WaitReturns
  \/ \E n \in Node : CollectRetry(n)
  \/ \E n \in Node : CollectFailure(n)
  \/ \E n \in Node : CollectSuccess(n)
  \/ Finish
  \/ PoolShutdown

Worker(n) == WorkerBegin(n) \/ WorkerEnd(n)

Next ==
  \/ Build
  \/ Coordinator
  \/ Interrupt
  \/ \E n \in Node : Worker(n)

Spec == Init /\ [][Next]_vars

\* A started run goes on, and every task returns or raises.
FairSpec ==
  /\ Spec
  /\ WF_vars(phase \in {"running", "draining"} /\ Coordinator)
  /\ \A n \in Node : WF_vars(Worker(n))

-----------------------------------------------------------------------------
(* Properties                                                              *)

Needed(n) == deps[n] \ tolerant[n]
Terminal(n) == progress[n] \in TerminalStates
Unsuccessful(n) == progress[n] \in {"failed", "blocked"}
Queued == {ready[i] : i \in 1..Len(ready)}
Waiting == {n \in Registered : indeg[n] > 0}

\* An attempt, which reads results from its own thread while the coordinator
\* writes it, sees the result of every dependency that succeeded and lacks
\* only failed dependencies it tolerates (run_one, planning_executor.py:248).
InputsComplete ==
  \A n \in Node : future[n] \in {"executing"} \union Outcomes =>
    /\ inputs[n] = {d \in deps[n] : progress[d] = "succeeded"}
    /\ Needed(n) \subseteq inputs[n]

\* A node that was started or settled has only settled dependencies, and it
\* is blocked exactly when one it needs failed or was blocked itself: no
\* retry, release or late completion starts it early or blocks it wrongly.
OrderRespected ==
  \A n \in Registered : progress[n] \in {"running", "succeeded", "failed", "blocked"} =>
    /\ \A d \in deps[n] : Terminal(d)
    /\ progress[n] = "blocked" <=> \E d \in Needed(n) : Unsuccessful(d)

\* While a run goes on every unsettled node is in exactly one place: the
\* deque, once; the pool; or behind as many unsettled dependencies as its
\* in-degree says.  A node in none of them would never run, one in two would
\* run twice.
NoLostNode ==
  phase = "running" =>
    /\ \A n \in Registered : indeg[n] = Cardinality({d \in deps[n] : ~Terminal(d)})
    /\ {n \in Registered : ~Terminal(n)} = Queued \union InFlight \union Waiting
    /\ Queued \intersect InFlight = {}
    /\ (Queued \union InFlight) \intersect Waiting = {}
    /\ \A i, j \in 1..Len(ready) : ready[i] = ready[j] => i = j

\* The pool never gets more attempts than it has threads, so a submitted
\* attempt starts at once; a node fails only when its attempts are used up
\* and never gets one more.
BoundsRespected ==
  /\ Cardinality(InFlight) <= MaxWorkers
  /\ \A n \in Node :
       /\ attempts[n] <= MaxRetries + 1
       /\ progress[n] = "failed" => attempts[n] = MaxRetries + 1

\* The abstract view of a run.
taskStatus ==
  [n \in Node |->
     IF rank[n] = 0 \/ progress[n] \in {"cached", "skipped"} THEN "undeclared"
     ELSE IF progress[n] \in {"pending", "running"} THEN "waiting"
     ELSE progress[n]]

Declared(f) == [n \in Node |-> IF taskStatus[n] = "undeclared" THEN {} ELSE f[n]]

Abstract == INSTANCE TaskGraphRun
              WITH status <- taskStatus, deps <- Declared(deps),
                   tolerant <- Declared(tolerant)

\* Whatever the queue, the threads and the retries do, a run settles each
\* task once, after its prerequisites, as TaskGraphRun says.
ImplementsGraphRun == Abstract!Spec
=============================================================================
