----------------------------- MODULE Replanning -----------------------------
(***************************************************************************)
(* "run calibrations", again and again, on one amplifier.  Each run plans   *)
(* from the registry and the recorded outcomes of earlier runs             *)
(* (ReductionGraph.plan), turns the planned targets into a graph           *)
(* (schedule), executes it (what TaskGraphRun promises of the executor)    *)
(* and, unless the process dies, records how each task ended.  The tasks   *)
(* read and write the registry while the graph runs.  Times are integers;  *)
(* sums of two times stand for twice their middle.                         *)
(***************************************************************************)
EXTENDS Integers, Sequences, FiniteSets

CONSTANTS
  Target,     \* every target the raw catalogue gives rise to
  kindOf, start, end,   \* a target's kind and window
  rank,       \* the order in which plan() emits targets
  Parents,    \* parent_groups: the targets a target was derived from
  BiasKind,   \* the kind under a hard QA policy, the source of every qa_gate
  Gated,      \* kinds with a qa_gate edge from BiasKind
  Edges,      \* the other edges, as pairs of kinds
  Requires,   \* kind -> kinds whose product its task insists on
  Releases,   \* kind -> kinds its task evicts once their evidence is complete
  Evidence,   \* evictable kind -> kinds that must have passed QA downstream
  Reread,     \* kinds whose QA evaluation loads the evictable component
  Day,        \* time units in a calendar day
  Tolerance,  \* tolerance_days of the gates, in time units
  MaxPolicy, MaxDisturbances  \* bounds: policies; forced runs and crashes together

ASSUME ReplanningAssumption ==
  /\ \A t \in Target : start[t] \in Nat /\ end[t] \in Nat /\ start[t] <= end[t]
  /\ IsFiniteSet(Target) /\ rank \in [Target -> 1..Cardinality(Target)]
  /\ \A t, u \in Target : rank[t] = rank[u] => t = u
  /\ Parents \in [Target -> SUBSET Target]
  /\ \A t \in Target : \A p \in Parents[t] : rank[p] < rank[t]
  /\ BiasKind \notin Gated
  /\ \A b, t \in Target : kindOf[b] = BiasKind /\ kindOf[t] \in Gated => rank[b] < rank[t]
  /\ Day \in Nat \ {0} /\ Tolerance \in Nat
  /\ MaxPolicy \in Nat \ {0} /\ MaxDisturbances \in Nat

VARIABLES
  phase,     \* "idle" between runs, "running" while a graph is executed
  forced,    \* --force-replan
  planned,   \* report.planned
  status,    \* of the planned tasks
  error,     \* what a failed task raised
  input,     \* products a running task has loaded
  made,      \* product its publication returned; 0: none yet
  registry,  \* products in order of publication
  last,      \* latest recorded outcome of each task (performance_tasks)
  policy,    \* version of the QA policy
  noisy,     \* bias targets each policy version fails: a fact of the raw data
  forces, crashes

run  == <<planned, status, error, input, made>>
vars == <<phase, forced, run, registry, last, policy, noisy, forces, crashes>>

Failures == {"error", "missing", "evicted", "qa"}
Settled  == {"succeeded", "failed", "blocked"}
Product  == DOMAIN registry
Bias     == {b \in Target : kindOf[b] = BiasKind}

TypeOK ==
  /\ phase \in {"idle", "running"}
  /\ forced \in BOOLEAN
  /\ planned \subseteq Target
  /\ status \in [Target -> {"none", "waiting", "running", "published"} \union Settled]
  /\ error \in [Target -> {"none"} \union Failures]
  /\ input \in [Target -> SUBSET Product]
  /\ made \in [Target -> {0} \union Product]
  /\ registry \in Seq([of : Target, from : SUBSET Nat, evicted : BOOLEAN,
                       verdict : {"none", "pass", "fail"}, by : 0..MaxPolicy])
  /\ last \in [Target -> {"none", "succeeded", "blocked"} \union Failures]
  /\ policy \in 1..MaxPolicy
  /\ noisy \in [1..MaxPolicy -> SUBSET Bias]
  /\ forces \in Nat /\ crashes \in Nat /\ forces + crashes <= MaxDisturbances

NoRun ==
  /\ planned' = {}
  /\ status' = [t \in Target |-> "none"]
  /\ error' = [t \in Target |-> "none"]
  /\ input' = [t \in Target |-> {}]
  /\ made' = [t \in Target |-> 0]

Init ==
  /\ phase = "idle" /\ forced = FALSE
  /\ planned = {}
  /\ status = [t \in Target |-> "none"]
  /\ error = [t \in Target |-> "none"]
  /\ input = [t \in Target |-> {}]
  /\ made = [t \in Target |-> 0]
  /\ registry = <<>>
  /\ last = [t \in Target |-> "none"]
  /\ policy = 1
  /\ noisy \in [1..MaxPolicy -> SUBSET Bias]
  /\ forces = 0 /\ crashes = 0

-----------------------------------------------------------------------------
(* Planning                                                                *)

Products(t) == {i \in Product : registry[i].of = t}

Center2(t)     == start[t] + end[t]
Distance2(x, y) == IF x >= y THEN x - y ELSE y - x
Overlap(b, t)  == start[b] <= end[t] /\ start[t] <= end[b]
Within(b, t)   == Distance2(Center2(b), Center2(t)) <= 2 * Tolerance

\* Mutant: a bias whose QA was never saved counts as usable.
UsableUnjudged(i) == registry[i].verdict # "fail"

\* qa_disposition: a bias must have a verdict of the current policy.
Usable(i) ==
  /\ registry[i].verdict # "fail"
  /\ registry[i].of \in Bias => registry[i].verdict = "pass" /\ registry[i].by = policy

\* already_has_inputs
Existing(t)  == \E i \in Products(t) : Usable(i)
Condemned(t) ==
  /\ ~Existing(t)
  /\ \E i \in Products(t) : registry[i].verdict = "fail" /\ registry[i].by = policy

\* Mutant: recorded outcomes are not consulted.
PriorFailureNever(t) == FALSE

PriorFailure(t) == last[t] \in Failures

\* Mutant: only the gates propagate.
BlockedByGate(t, S) ==
  kindOf[t] \in Gated /\ \E b \in S \intersect Bias : Overlap(b, t) \/ Within(b, t)

\* terminal_blocker, where S is what was marked terminal before t.
BlockedBy(t, S) ==
  \/ Parents[t] \intersect S # {}
  \/ kindOf[t] \in Gated /\ \E b \in S \intersect Bias : Overlap(b, t) \/ Within(b, t)

\* The targets emit() marks terminal, in the order plan() emits them.
Marked ==
  LET upTo[n \in 0..Cardinality(Target)] ==
        IF n = 0 THEN {}
        ELSE upTo[n - 1] \union
               {t \in Target : /\ rank[t] = n
                              /\ (PriorFailure(t) \/ BlockedBy(t, upTo[n - 1]) \/ Condemned(t))}
  IN  upTo[Cardinality(Target)]

Missing == {t \in Target \ Marked : ~Existing(t)}

\* An empty plan returns before the executor is built.
Plan ==
  /\ phase = "idle"
  /\ planned' = Missing
  /\ forced' = FALSE
  /\ status' = [t \in Target |-> IF t \in planned' THEN "waiting" ELSE "none"]
  /\ phase' = IF planned' = {} THEN "idle" ELSE "running"
  /\ UNCHANGED <<error, input, made, registry, last, policy, noisy, forces, crashes>>

PlanForced ==
  /\ phase = "idle"
  /\ forces + crashes < MaxDisturbances
  /\ forces' = forces + 1
  /\ planned' = Target
  /\ forced' = TRUE
  /\ status' = [t \in Target |-> "waiting"]
  /\ phase' = "running"
  /\ UNCHANGED <<error, input, made, registry, last, policy, noisy, crashes>>

-----------------------------------------------------------------------------
(* Scheduling                                                              *)

\* _qa_gate_dependencies among the biases P: every overlapping one, or else
\* the nearest if it is within the tolerance.
GateSources(t, P) ==
  LET overlapping == {b \in P : Overlap(b, t)}
      closer(b, c) == LET x == Distance2(Center2(b), Center2(t))
                          y == Distance2(Center2(c), Center2(t))
                      IN  x < y \/ (x = y /\ rank[b] <= rank[c])
  IN  IF kindOf[t] \notin Gated THEN {}
      ELSE IF overlapping # {} THEN overlapping
      ELSE {b \in P : Within(b, t) /\ \A c \in P : closer(b, c)}

\* Without parent groups, an edge counts only if its source is unambiguous.
ByKind(t) ==
  LET sources(e) == {u \in planned : kindOf[u] = e[1]}
  IN  UNION {sources(e) : e \in {x \in Edges : x[2] = kindOf[t] /\ Cardinality(sources(x)) = 1}}

DependsOn(t) ==
  (IF Parents[t] # {} THEN Parents[t] \intersect planned ELSE ByKind(t))
    \union GateSources(t, planned \intersect Bias)

-----------------------------------------------------------------------------
(* Tasks                                                                   *)

\* _target_mid_time keeps only the dates of the window.
Date(x) == x - (x % Day)
Mid2(t) == Date(start[t]) + Date(end[t])

\* select_best: the newest product valid at the middle time, or else the
\* nearest one, newest first; 0 when there is none.
SelectBest(t, k) ==
  LET rows  == {i \in Product : kindOf[registry[i].of] = k}
      from(i) == 2 * start[registry[i].of]
      to(i)   == 2 * end[registry[i].of]
      valid == {i \in rows : from(i) <= Mid2(t) /\ Mid2(t) <= to(i)}
      dist(i) == IF Mid2(t) < from(i) THEN from(i) - Mid2(t)
                 ELSE IF Mid2(t) > to(i) THEN Mid2(t) - to(i) ELSE 0
  IN  IF rows = {} THEN 0
      ELSE IF valid # {} THEN CHOOSE i \in valid : \A j \in valid : j <= i
      ELSE CHOOSE i \in rows :
             \A j \in rows : dist(i) < dist(j) \/ (dist(i) = dist(j) /\ j <= i)

\* The result of the first prerequisite of that kind, or else what the
\* registry selects.
Resolve(t, k) ==
  LET given == {d \in DependsOn(t) : kindOf[d] = k}
  IN  IF given = {} THEN SelectBest(t, k)
      ELSE made[CHOOSE d \in given : \A u \in given : rank[d] <= rank[u]]

Resolved(t) == {Resolve(t, k) : k \in Requires[kindOf[t]]}

\* The executor dispatches t: every prerequisite has succeeded.
Dispatched(t) ==
  /\ phase = "running"
  /\ status[t] = "waiting"
  /\ \A d \in DependsOn(t) : status[d] = "succeeded"

Fails(t, e) ==
  /\ status' = [status EXCEPT ![t] = "failed"]
  /\ error' = [error EXCEPT ![t] = e]

Block(t) ==
  /\ phase = "running"
  /\ status[t] = "waiting"
  /\ \A d \in DependsOn(t) : status[d] \in Settled
  /\ \E d \in DependsOn(t) : status[d] # "succeeded"
  /\ status' = [status EXCEPT ![t] = "blocked"]
  /\ UNCHANGED <<phase, forced, planned, error, input, made, registry, last,
                 policy, noisy, forces, crashes>>

Load(t) ==
  /\ Dispatched(t)
  /\ 0 \notin Resolved(t)
  /\ \A i \in Resolved(t) : ~registry[i].evicted
  /\ status' = [status EXCEPT ![t] = "running"]
  /\ input' = [input EXCEPT ![t] = Resolved(t)]
  /\ UNCHANGED <<phase, forced, planned, error, made, registry, last,
                 policy, noisy, forces, crashes>>

LoadFails(t) ==
  /\ Dispatched(t)
  /\ \/ 0 \in Resolved(t) /\ Fails(t, "missing")
     \/ /\ 0 \notin Resolved(t)
        /\ \E i \in Resolved(t) : registry[i].evicted
        /\ Fails(t, "evicted")
  /\ UNCHANGED <<phase, forced, planned, input, made, registry, last,
                 policy, noisy, forces, crashes>>

TaskFails(t) ==
  /\ status[t] \in {"running", "published"}
  /\ Fails(t, "error")
  /\ UNCHANGED <<phase, forced, planned, input, made, registry, last,
                 policy, noisy, forces, crashes>>

\* persist_request: one product per revision, that is, per target and inputs.
Publish(t) ==
  /\ status[t] = "running"
  /\ LET same == {i \in Products(t) : registry[i].from = input[t]} IN
       IF same # {}
         THEN /\ made' = [made EXCEPT ![t] = CHOOSE i \in same : TRUE]
              /\ UNCHANGED registry
         ELSE /\ registry' = Append(registry, [of |-> t, from |-> input[t], evicted |-> FALSE,
                                               verdict |-> "none", by |-> 0])
              /\ made' = [made EXCEPT ![t] = Len(registry) + 1]
  /\ status' = [status EXCEPT ![t] = "published"]
  /\ UNCHANGED <<phase, forced, planned, error, input, last,
                 policy, noisy, forces, crashes>>

\* Every product a product was made from, directly or not, in registry r.
Lineage(r, i) ==
  LET above[j \in DOMAIN r] == r[j].from \union UNION {above[m] : m \in r[j].from}
  IN  above[i]

\* evict_payloads_triggered_by, on the registry r in which i has passed QA.
Evicted(r, i) ==
  LET complete(j) == \A k \in Evidence[kindOf[r[j].of]] : \E m \in DOMAIN r :
                        kindOf[r[m].of] = k /\ r[m].verdict = "pass" /\ j \in Lineage(r, m)
      gone(j) == /\ kindOf[r[j].of] \in Releases[kindOf[r[i].of]]
                 /\ j \in Lineage(r, i)
                 /\ complete(j)
  IN  [j \in DOMAIN r |-> [r[j] EXCEPT !.evicted = @ \/ gone(j)]]

\* evaluate_qa and the retention hook after it.
Judge(t) ==
  /\ status[t] = "published"
  /\ LET i == made[t]
         judged(v) == [registry EXCEPT ![i].verdict = v, ![i].by = policy]
     IN  IF registry[i].evicted /\ kindOf[t] \in Reread
           THEN Fails(t, "evicted") /\ UNCHANGED registry
         ELSE IF t \in noisy[policy]
           THEN Fails(t, "qa") /\ registry' = judged("fail")
         ELSE /\ status' = [status EXCEPT ![t] = "succeeded"]
              /\ registry' = Evicted(judged("pass"), i)
              /\ UNCHANGED error
  /\ UNCHANGED <<phase, forced, planned, input, made, last,
                 policy, noisy, forces, crashes>>

-----------------------------------------------------------------------------
(* The end of a run, and what happens between runs                          *)

Outcome(t) == IF status[t] = "failed" THEN error[t] ELSE status[t]

\* Mutant: only a run without failures is recorded.
RecordedIfClean ==
  IF \E t \in planned : status[t] # "succeeded" THEN last
  ELSE [t \in Target |-> IF t \in planned THEN Outcome(t) ELSE last[t]]

\* PerformanceRun.persist
Recorded == [t \in Target |-> IF t \in planned THEN Outcome(t) ELSE last[t]]

Finish ==
  /\ phase = "running"
  /\ \A t \in planned : status[t] \in Settled
  /\ last' = Recorded
  /\ phase' = "idle"
  /\ NoRun
  /\ UNCHANGED <<forced, registry, policy, noisy, forces, crashes>>

\* The process ends: nothing of the run is recorded but its products.
Crash ==
  /\ phase = "running"
  /\ forces + crashes < MaxDisturbances
  /\ crashes' = crashes + 1
  /\ phase' = "idle"
  /\ NoRun
  /\ UNCHANGED <<forced, registry, last, policy, noisy, forces>>

NewPolicy ==
  /\ phase = "idle"
  /\ policy < MaxPolicy
  /\ policy' = policy + 1
  /\ UNCHANGED <<phase, forced, run, registry, last, noisy, forces, crashes>>

Task(t) == Block(t) \/ Load(t) \/ LoadFails(t) \/ TaskFails(t) \/ Publish(t) \/ Judge(t)

Next ==
  \/ Plan
  \/ PlanForced
  \/ \E t \in Target : Task(t)
  \/ Finish
  \/ Crash
  \/ NewPolicy

Spec == Init /\ [][Next]_vars

\* Tasks return, the executor goes on, and somebody keeps rerunning: one of
\* the three happens as long as one of them can.
FairSpec == Spec /\ WF_vars(Plan \/ Finish \/ \E t \in Target : Task(t))

-----------------------------------------------------------------------------
(* Properties                                                              *)

Active(t) == status[t] \in {"running", "published"}
Accepted(b) == \E i \in Products(b) : registry[i].verdict = "pass" /\ registry[i].by = policy

\* A gated task works on an amplifier only when every bias that guards it,
\* planned in this run or left over from earlier ones, forced or not, has
\* passed the current policy: the planner's shortcut for finished biases and
\* the scheduler's dependencies for planned ones leave no gap, whatever runs
\* were cut short (scheduler.py:109, graph.py:268).
GateHolds ==
  \A t \in Target : Active(t) => \A b \in GateSources(t, Bias) : Accepted(b)

\* A derived task starts only after each of its parents has a product, from
\* this run or an earlier one (scheduler.py:175, graph.py:269).
ParentsReady ==
  \A t \in Target : Active(t) => \A p \in Parents[t] : Products(p) # {}

\* An unforced run never executes a task whose last recorded attempt failed,
\* and of the tasks that have a product only biases without a verdict of the
\* current policy: neither a crash nor a new policy makes anything else run
\* again (graph.py:310).
NothingRepeated ==
  \A t \in Target : ~forced /\ status[t] = "running" =>
    /\ last[t] \notin Failures
    /\ \A i \in Products(t) :
         t \in Bias /\ (registry[i].verdict = "none" \/ registry[i].by < policy)

\* Whoever reruns often enough reaches a plan with nothing left to execute,
\* although tasks may fail, runs may be cut short and policies may change:
\* the outcomes persisted at the end of a run (timing.py:682) and the rows of
\* a run that was cut short together settle every target.
PlansRunOut == <>[](phase = "idle" /\ Missing = {})
=============================================================================
