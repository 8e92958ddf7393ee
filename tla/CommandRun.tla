----------------------------- MODULE CommandRun -----------------------------
(***************************************************************************)
(* The calibration command around the executor: the planning file is read   *)
(* over the default graph and validated, targets are planned from what is   *)
(* scanned and what earlier runs left, scheduled in the order of their      *)
(* kinds, run, and summed up in the execution report and the exit code.     *)
(* There is one group of each kind at most, all of one night, and a target  *)
(* stands for its kind.                                                     *)
(***************************************************************************)
EXTENDS RunReport

CONSTANTS
  PlanningFiles, \* what --planning-yaml may hold: [legal, disabled, edges]
  Situations     \* what a command finds: [scanned, made, bad], sets of kinds

Inputs ==
  [master_arc     |-> {"master_hg", "master_cd"},
   trace_map      |-> {"master_ldls"},
   wavelength_map |-> {"master_arc", "trace_map"},
   ldls_spectrum  |-> {"master_ldls", "trace_map"},
   twi_spectrum   |-> {"master_twilight", "trace_map"},
   sci_spectrum   |-> {"master_sci", "trace_map"},
   fiber_response |-> {"twi_spectrum", "ldls_spectrum", "wavelength_map", "sci_spectrum"}]

\* In the order of the node list.
KindAt == <<"master_bias", "master_dark", "master_ldls", "master_hg", "master_cd", "master_arc",
            "master_twilight", "master_sci", "trace_map", "wavelength_map", "ldls_spectrum",
            "twi_spectrum", "sci_spectrum", "fiber_response">>
Kind == {KindAt[i] : i \in DOMAIN KindAt}

ASSUME CommandAssumption ==
  /\ \A f \in PlanningFiles :
       /\ f.legal \in BOOLEAN /\ f.disabled \subseteq Kind
       /\ f.edges \subseteq Kind \X Kind \X {"qa_gate", "optional", "valid"}
  /\ \A s \in Situations :
       s.scanned \subseteq Kind \ DOMAIN Inputs /\ s.made \subseteq Kind /\ s.bad \subseteq Kind

VARIABLES
  stage,  \* where the command is; "caller": the executor is used without it
  setup,  \* its planning file, its situation and its flags
  plan,   \* [planned, existing, terminal], sets of kinds
  kindOf, \* node -> the kind whose target it runs
  first,  \* how the first task that failed ended
  summed, \* the execution report
  exit    \* how the process ends

command == <<stage, setup, plan, kindOf, first, summed, exit>>

NoReport == [outcome |-> "none"]

Setups == [file : PlanningFiles, found : Situations, planOnly : BOOLEAN, strict : BOOLEAN,
           force : BOOLEAN]

CommandInit ==
  /\ RunInit
  /\ \/ stage = "load" /\ setup \in Setups
     \/ stage = "caller" /\ setup = CHOOSE s \in Setups : TRUE
  /\ plan = [planned |-> {}, existing |-> {}, terminal |-> {}]
  /\ kindOf = [n \in Node |-> "none"]
  /\ first = "none" /\ summed = NoReport /\ exit = "none"

EndWith(how) == stage' = "ended" /\ exit' = how

-----------------------------------------------------------------------------
(* The graph of kinds                                                      *)

\* default_calibration_graph: accepted biases gate everything but the fiber
\* response, whose science spectrum is optional.
DefaultEdges ==
  {<<"master_bias", k, "qa_gate">> : k \in Kind \ {"master_bias", "fiber_response"}}
   \union {<<"master_dark", k, "valid">> : k \in {"master_ldls", "master_twilight", "master_sci"}}
   \union {<<e[1], e[2], IF e[1] = "sci_spectrum" THEN "optional" ELSE "valid">> :
             e \in {p \in Kind \X DOMAIN Inputs : p[1] \in Inputs[p[2]]}}

\* apply_overrides: configured edges replace all others.
Edges == IF setup.file.edges = {} THEN DefaultEdges ELSE setup.file.edges

Nodes == Kind \ setup.file.disabled

Valid == \A e \in Edges : {e[1], e[2]} \subseteq Nodes

\* load_planning_config and validate_graph, neither of which is caught.
Load ==
  /\ stage = "load"
  /\ IF setup.file.legal /\ Valid THEN stage' = "plan" /\ UNCHANGED exit ELSE EndWith("raised")
  /\ UNCHANGED <<all, setup, plan, kindOf, first, summed>>

-----------------------------------------------------------------------------
(* Targets                                                                 *)

\* A derived target is emitted for its first input, where the others are there
\* too or the edge from them is optional; the response for its spectra alone.
Emitted(k, S) ==
  IF k \notin DOMAIN Inputs THEN k \in setup.found.scanned
  ELSE IF k = "fiber_response" THEN "twi_spectrum" \in S
  ELSE \A i \in Inputs[k] : i \in S \/ (i = "trace_map" /\ <<i, k, "optional">> \in Edges)

\* What the first i nodes emit.
Emission[i \in 0..Len(KindAt)] ==
  IF i = 0 THEN {}
  ELSE LET S == Emission[i - 1]
       IN  S \union {k \in {KindAt[i]} \intersect Nodes : Emitted(k, S)}

Targets == Emission[Len(KindAt)]

Gates(k) == {e[1] : e \in {f \in Edges : f[2] = k /\ f[3] = "qa_gate"}} \ {"fiber_response"}

\* parent_groups and the gates; the aggregate, which has no amplifier, has none.
Upstream(k) ==
  IF k = "fiber_response" THEN {}
  ELSE Gates(k) \union (IF k \in DOMAIN Inputs THEN Inputs[k] ELSE {})

\* emit: what failed or was rejected is not made again, nor what it blocks,
\* even where that exists, provided that it was emitted before.
Condemned[i \in 0..Len(KindAt)] ==
  IF i = 0 THEN {}
  ELSE LET S == Condemned[i - 1]
       IN  S \union {k \in {KindAt[i]} \intersect Targets :
                       k \in setup.found.bad \/ Upstream(k) \intersect S # {}}

\* The planner looks for the edge from the spectra of a response.
PlanRaises ==
  "fiber_response" \in Targets /\ \A e \in Edges : <<e[1], e[2]>> # <<"twi_spectrum", "fiber_response">>

\* ReductionGraph.plan, and the report of the plan.
PlanTargets ==
  /\ stage = "plan"
  /\ LET terminal == IF setup.force THEN {} ELSE Condemned[Len(KindAt)]
         existing == IF setup.force THEN {} ELSE (Targets \intersect setup.found.made) \ terminal
         planned  == Targets \ (terminal \union existing)
     IN  /\ Cardinality(planned) <= Cardinality(Node)  \* bound
         /\ IF PlanRaises THEN UNCHANGED plan
            ELSE plan' = [planned |-> planned, existing |-> existing, terminal |-> terminal]
  /\ IF PlanRaises THEN EndWith("raised")
     ELSE IF setup.planOnly THEN EndWith("0")
     ELSE stage' = "schedule" /\ UNCHANGED exit
  /\ UNCHANGED <<all, setup, kindOf, first, summed>>

-----------------------------------------------------------------------------
(* The schedule                                                            *)

Sources(k) == {e[1] : e \in {f \in Edges : f[2] = k}}

\* Mutant: kinds without an edge are not in the order.
LeavingWithEdges(S) ==
  {k \in Nodes : (\E e \in Edges : k \in {e[1], e[2]}) /\ Sources(k) \subseteq S}

\* The kinds that leave the queue once those of S have.
Leaving(S) == {k \in Nodes : Sources(k) \subseteq S}

\* _topo_order_kinds after i rounds.
Ordered[i \in 0..Cardinality(Kind)] == IF i = 0 THEN {} ELSE LET S == Ordered[i - 1] IN Leaving(S)

\* Kinds on a cycle, and behind one, are left out, unless there are no others.
InTheOrder ==
  LET sorted == Ordered[Cardinality(Kind)] IN IF sorted = {} THEN Nodes ELSE sorted

Scheduled == plan.planned \intersect InTheOrder

\* Groups bind a derived target to its parents, edges a raw one, and the gates
\* both; all of them where they are planned, scheduled or not.
Needs(k) ==
  plan.planned \intersect
    (IF k = "fiber_response" THEN {"twi_spectrum"}
     ELSE IF k \in DOMAIN Inputs THEN Upstream(k)
     ELSE Gates(k) \union Sources(k))

NodesOf(S) == {n \in Node : kindOf[n] \in S}

\* target_node_id for each planned target.
Identify ==
  /\ stage = "schedule" /\ Scheduled # {}
  /\ kindOf' \in [Node -> plan.planned \union {"none"}]
  /\ \A k \in plan.planned : Cardinality({n \in Node : kindOf'[n] = k}) = 1
  /\ stage' = "add"
  /\ UNCHANGED <<all, setup, plan, first, summed, exit>>

\* add_task for each scheduled one, in the order of their kinds; an id that is
\* not added stays unknown to the executor.
AddScheduled(n) ==
  /\ stage = "add" /\ kindOf[n] \in Scheduled
  /\ Ordered[Cardinality(Kind)] # {} =>
       NodesOf(Sources(kindOf[n]) \intersect Scheduled) \subseteq Registered
  /\ AddTask(n)
  /\ deps'[n] = NodesOf(Needs(kindOf[n]))
  /\ tolerant'[n] = IF kindOf[n] = "fiber_response" THEN deps'[n] ELSE {}
  /\ stage' = IF Registered' = NodesOf(Scheduled) THEN "run" ELSE "add"
  /\ UNCHANGED <<report, setup, plan, kindOf, first, summed, exit>>

-----------------------------------------------------------------------------
(* The run and its report                                                  *)

\* One step of the executor, its threads or its reporter; failures are kept
\* in the order in which they are collected.
Run ==
  /\ stage = "run"
  /\ Executing
  /\ LET failing == {n \in Node : progress[n] # "failed" /\ progress'[n] = "failed"} IN
       first' = IF first = "none" /\ failing # {} THEN future[CHOOSE n \in failing : TRUE] ELSE first
  /\ UNCHANGED <<stage, setup, plan, kindOf, summed, exit>>

\* Anything but the error that reports failed tasks leaves as a traceback.
RunRaises ==
  /\ stage = "run"
  /\ closing = "raised" \/ phase \in {"rejected", "error", "interrupted"}
  /\ EndWith("raised")
  /\ UNCHANGED <<all, setup, plan, kindOf, first, summed>>

Ended(s) == Cardinality({n \in Registered : progress[n] = s})

\* _write_execution_report
ReportOf(tasks) ==
  LET terminal == Cardinality(plan.terminal)
      existing == Cardinality(plan.existing)
  IN [outcome   |-> IF Ended("failed") > 0 THEN "completed_with_task_errors"
                    ELSE IF terminal > 0 THEN "completed_with_terminal_qa"
                    ELSE "completed",
      total     |-> tasks + existing + terminal,
      succeeded |-> Ended("succeeded"), failed |-> Ended("failed"), blocked |-> Ended("blocked"),
      cached    |-> existing, skipped |-> terminal]

ExitCode ==
  IF Ended("failed") > 0 /\ first = "interrupt" THEN "130"
  ELSE IF setup.strict /\ (Ended("failed") > 0 \/ plan.terminal # {}) THEN "1"
  ELSE "0"

\* The report is written for what ran, or when there is nothing to run.
SumUp ==
  /\ \/ stage = "run" /\ closing = "closed"
     \/ stage = "schedule" /\ Scheduled = {}
  /\ \/ summed' = ReportOf(Cardinality(Scheduled)) /\ EndWith(ExitCode)
     \/ UNCHANGED summed /\ EndWith("raised")
  /\ UNCHANGED <<all, setup, plan, kindOf, first>>

CommandNext ==
  \/ stage = "caller" /\ ReportNext /\ UNCHANGED command
  \/ Load
  \/ PlanTargets
  \/ Identify
  \/ \E n \in Node : AddScheduled(n)
  \/ Run
  \/ RunRaises
  \/ SumUp

CommandSpec == CommandInit /\ [][CommandNext]_<<all, command>>

FairCommandSpec == CommandSpec /\ Fairness

-----------------------------------------------------------------------------
(* Properties                                                              *)

Provided(k) == k \in plan.existing \/ \E n \in Registered : kindOf[n] = k /\ progress[n] = "succeeded"

Cyclic == \E S \in SUBSET {e[1] : e \in Edges} : S # {} /\ \A k \in S : Sources(k) \intersect S # {}

\* The execution report counts every target once, and a command says that it
\* has completed, or exits 0 where failures are to count, only when all of its
\* targets are provided, although the schedule, the executor and the planner
\* each leave out what they cannot handle; configured edges that form a cycle
\* lose targets silently (scheduler.py:60, cli/virusflow.py:843).
ReportTruthful ==
  summed # NoReport =>
    /\ summed.total = summed.succeeded + summed.failed + summed.blocked + summed.cached + summed.skipped
    /\ summed.total = Cardinality(Targets) \/ Cyclic
    /\ summed.outcome = "completed" \/ (exit = "0" /\ setup.strict) =>
         (\A k \in Targets : Provided(k)) \/ Cyclic
=============================================================================
