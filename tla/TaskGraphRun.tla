---------------------------- MODULE TaskGraphRun ----------------------------
(***************************************************************************)
(* What one run of a task graph promises, whatever the executor's queues,  *)
(* threads and retries do: every declared task is settled once, after all  *)
(* of its prerequisites, and it is executed only if every prerequisite     *)
(* whose success it needs has succeeded; otherwise it is blocked.          *)
(* DagExecutor, the model of PlanningExecutor, implements this module.     *)
(***************************************************************************)
CONSTANT Node

VARIABLES status,    \* [Node -> Status]
          deps,      \* [Node -> SUBSET Node]: all prerequisites
          tolerant   \* [Node -> SUBSET Node]: those that may fail

vars == <<status, deps, tolerant>>

Settled == {"succeeded", "failed", "blocked"}
Status  == {"undeclared", "waiting"} \union Settled

Init ==
  /\ status   = [n \in Node |-> "undeclared"]
  /\ deps     = [n \in Node |-> {}]
  /\ tolerant = [n \in Node |-> {}]

\* The graph is declared before any of it runs.
Declare(n) ==
  /\ status[n] = "undeclared"
  /\ \A m \in Node : status[m] \notin Settled
  /\ \E d \in SUBSET Node : \E t \in SUBSET d :
        /\ deps'     = [deps EXCEPT ![n] = d]
        /\ tolerant' = [tolerant EXCEPT ![n] = t]
  /\ status' = [status EXCEPT ![n] = "waiting"]

Due(n) == status[n] = "waiting" /\ \A d \in deps[n] : status[d] \in Settled

Needed(n) == deps[n] \ tolerant[n]

Execute(n) ==
  /\ Due(n)
  /\ \A d \in Needed(n) : status[d] = "succeeded"
  /\ \E s \in {"succeeded", "failed"} : status' = [status EXCEPT ![n] = s]
  /\ UNCHANGED <<deps, tolerant>>

Block(n) ==
  /\ Due(n)
  /\ \E d \in Needed(n) : status[d] # "succeeded"
  /\ status' = [status EXCEPT ![n] = "blocked"]
  /\ UNCHANGED <<deps, tolerant>>

Next == \E n \in Node : Declare(n) \/ Execute(n) \/ Block(n)

Spec == Init /\ [][Next]_vars
=============================================================================
