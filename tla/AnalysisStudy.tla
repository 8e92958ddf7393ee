---------------------------- MODULE AnalysisStudy ----------------------------
(***************************************************************************)
(* One analysis study (analytics/materialization.py) used by several       *)
(* processes: intermediates and candidate models are retained under a byte *)
(* budget, comparisons are recorded in its summary, completion removes     *)
(* what was kept until then.  The registry connection autocommits, so each *)
(* statement is a step; payloads are published under a revision, one per   *)
(* value and study, as in Publication.                                     *)
(***************************************************************************)
EXTENDS Integers, FiniteSets

CONSTANTS Process,
          Value,          \* arrays that may be materialized
          Candidate,      \* those that are candidate models
          Nbytes,         \* size of each array
          Payload,        \* size of its files
          Budget,         \* expected_bytes of the study
          Policy,         \* its retention policy
          MaxCalls,       \* bound on calls of materialize and publish_candidate
          MaxValidations, \* bound on calls of record_validation
          MaxCrashes

Policies == {"none", "selected", "outliers", "all", "until_study_completion", "permanent"}

ASSUME StudyAssumption ==
  /\ IsFiniteSet(Process) /\ Process # {}
  /\ IsFiniteSet(Value) /\ Value # {}
  /\ Candidate \subseteq Value
  /\ Nbytes \in [Value -> Nat]
  /\ Payload \in [Value -> Nat]
  /\ Budget \in Nat
  /\ Policy \in Policies
  /\ MaxCalls \in Nat /\ MaxValidations \in Nat /\ MaxCrashes \in Nat

VARIABLES
  state,     \* state of the study row
  used,      \* its materialized_bytes
  recorded,  \* values with a row in analysis_materializations
  registry,  \* state of the Artifact of each value
  stored,    \* values whose payload files exist
  summary,   \* validations in summary_json
  pc,        \* where each process is
  value,     \* the value it publishes
  read,      \* the summary it read
  todo,      \* what it has yet to purge, as listed
  calls, crashes,
  made,      \* history: validations recorded so far
  overlap,   \* history: two summaries were under way at once
  late,      \* history: values under way while a completion was
  uncounted  \* history: values recorded by a process that died before counting

study   == <<state, used, recorded, summary>>
files   == <<registry, stored>>
process == <<pc, value, read, todo>>
bounds  == <<calls, crashes>>
history == <<made, overlap, late, uncounted>>
vars    == <<study, files, process, bounds, history>>

Steps == {"idle", "budget", "lookup", "write", "register", "check", "purge", "retire",
          "look", "insert", "count", "append", "list", "remove"}

TypeOK ==
  /\ state \in {"active", "complete"}
  /\ used \in Nat
  /\ recorded \subseteq Value
  /\ registry \in [Value -> {"none", "active", "obsolete"}]
  /\ stored \subseteq Value
  /\ made \in 0..MaxValidations
  /\ summary \subseteq 1..made
  /\ pc \in [Process -> Steps]
  /\ value \in [Process -> Value]
  /\ read \in [Process -> SUBSET (1..MaxValidations)]
  /\ todo \in [Process -> SUBSET Value]
  /\ calls \in 0..MaxCalls
  /\ crashes \in 0..MaxCrashes
  /\ overlap \in BOOLEAN
  /\ late \subseteq Value
  /\ uncounted \subseteq recorded

\* create.
Init ==
  /\ state = "active"
  /\ used = 0
  /\ recorded = {}
  /\ registry = [v \in Value |-> "none"]
  /\ stored = {}
  /\ summary = {}
  /\ pc = [p \in Process |-> "idle"]
  /\ value = [p \in Process |-> CHOOSE v \in Value : TRUE]
  /\ read = [p \in Process |-> {}]
  /\ todo = [p \in Process |-> {}]
  /\ calls = 0
  /\ crashes = 0
  /\ made = 0
  /\ overlap = FALSE
  /\ late = {}
  /\ uncounted = {}

Goto(p, l) == pc' = [pc EXCEPT ![p] = l]

Completing == \E p \in Process : pc[p] = "remove"

-----------------------------------------------------------------------------
(* materialize and publish_candidate                                       *)

\* _retain
Retain(selected, outlier) ==
  \/ Policy = "selected" /\ selected
  \/ Policy = "outliers" /\ outlier
  \/ Policy \in {"all", "until_study_completion", "permanent"}

\* get: raises unless the study is active; what is not retained is only
\* computed.  Candidates are retained under every policy.
Start(p, v) ==
  /\ pc[p] = "idle"
  /\ calls < MaxCalls
  /\ state = "active"
  /\ v \in Candidate \/ \E selected, outlier \in BOOLEAN : Retain(selected, outlier)
  /\ value' = [value EXCEPT ![p] = v]
  /\ Goto(p, "budget")
  /\ calls' = calls + 1
  /\ late' = IF Completing THEN late \union {v} ELSE late
  /\ UNCHANGED <<study, files, read, todo, crashes, made, overlap, uncounted>>

\* Raises when the array itself would exceed the budget.
CheckBudget(p) ==
  /\ pc[p] = "budget"
  /\ Goto(p, IF used + Nbytes[value[p]] > Budget THEN "idle" ELSE "lookup")
  /\ UNCHANGED <<study, files, value, read, todo, bounds, history>>

\* persist_request: an active Artifact of the revision is the answer.
LookUp(p) ==
  /\ pc[p] = "lookup"
  /\ Goto(p, IF registry[value[p]] = "active" THEN "check" ELSE "write")
  /\ UNCHANGED <<study, files, value, read, todo, bounds, history>>

WritePayload(p) ==
  /\ pc[p] = "write"
  /\ stored' = stored \union {value[p]}
  /\ Goto(p, "register")
  /\ UNCHANGED <<study, registry, value, read, todo, bounds, history>>

\* A row that is there, active or obsolete, answers; otherwise a new one does.
Register(p) ==
  /\ pc[p] = "register"
  /\ registry' = [registry EXCEPT ![value[p]] = IF @ = "none" THEN "active" ELSE @]
  /\ Goto(p, "check")
  /\ UNCHANGED <<study, stored, value, read, todo, bounds, history>>

\* Mutant: the size of the files is not compared with the budget.
FitsUnchecked(v) == TRUE

Fits(v) == used + Payload[v] <= Budget

\* _record_retained: the files may be larger than the array was.
CheckAgain(p) ==
  /\ pc[p] = "check"
  /\ Goto(p, IF Fits(value[p]) THEN "look" ELSE "purge")
  /\ UNCHANGED <<study, files, value, read, todo, bounds, history>>

Purge(p) ==
  /\ pc[p] = "purge"
  /\ stored' = stored \ {value[p]}
  /\ Goto(p, "retire")
  /\ UNCHANGED <<study, registry, value, read, todo, bounds, history>>

\* set_state, and RuntimeError.
Retire(p) ==
  /\ pc[p] = "retire"
  /\ registry' = [registry EXCEPT ![value[p]] = "obsolete"]
  /\ Goto(p, "idle")
  /\ UNCHANGED <<study, stored, value, read, todo, bounds, history>>

\* Mutant: an Artifact the study has already is counted again.
LookForRowAgain(p) ==
  /\ pc[p] = "look"
  /\ Goto(p, IF value[p] \in recorded THEN "count" ELSE "insert")
  /\ UNCHANGED <<study, files, value, read, todo, bounds, history>>

LookForRow(p) ==
  /\ pc[p] = "look"
  /\ Goto(p, IF value[p] \in recorded THEN "idle" ELSE "insert")
  /\ UNCHANGED <<study, files, value, read, todo, bounds, history>>

\* The primary key rejects the row when another process was first.
InsertRow(p) ==
  /\ pc[p] = "insert"
  /\ recorded' = recorded \union {value[p]}
  /\ Goto(p, IF value[p] \in recorded THEN "idle" ELSE "count")
  /\ UNCHANGED <<state, used, summary, files, value, read, todo, bounds, history>>

Count(p) ==
  /\ pc[p] = "count"
  /\ used' = used + Payload[value[p]]
  /\ Goto(p, "idle")
  /\ UNCHANGED <<state, recorded, summary, files, value, read, todo, bounds, history>>

-----------------------------------------------------------------------------
(* record_validation: the summary is read, extended and written back        *)

ReadSummary(p) ==
  /\ pc[p] = "idle"
  /\ made + Cardinality({q \in Process : pc[q] = "append"}) < MaxValidations
  /\ read' = [read EXCEPT ![p] = summary]
  /\ overlap' = (overlap \/ \E q \in Process : pc[q] = "append")
  /\ Goto(p, "append")
  /\ UNCHANGED <<study, files, value, todo, bounds, made, late, uncounted>>

\* Mutant: the list starts afresh.
ExtendedAfresh(p) == {made + 1}

Extended(p) == read[p] \union {made + 1}

WriteSummary(p) ==
  /\ pc[p] = "append"
  /\ made' = made + 1
  /\ summary' = Extended(p)
  /\ Goto(p, "idle")
  /\ UNCHANGED <<state, used, recorded, files, value, read, todo, bounds, overlap, late, uncounted>>

-----------------------------------------------------------------------------
(* complete, which looks at no state                                       *)

UnderWay == {value[p] : p \in {q \in Process : pc[q] \in
               {"budget", "lookup", "write", "register", "check", "purge", "retire",
                "look", "insert", "count"}}}

StartCompletion(p) ==
  /\ pc[p] = "idle"
  /\ Goto(p, "list")
  /\ UNCHANGED <<study, files, value, read, todo, bounds, history>>

ListRows(p) ==
  /\ pc[p] = "list"
  /\ todo' = [todo EXCEPT ![p] = IF Policy = "until_study_completion" THEN recorded ELSE {}]
  /\ late' = late \union UnderWay
  /\ Goto(p, "remove")
  /\ UNCHANGED <<study, files, value, read, bounds, made, overlap, uncounted>>

RemovePayload(p, v) ==
  /\ pc[p] = "remove"
  /\ v \in todo[p]
  /\ stored' = stored \ {v}
  /\ todo' = [todo EXCEPT ![p] = @ \ {v}]
  /\ UNCHANGED <<study, registry, pc, value, read, bounds, history>>

MayClose(p) == pc[p] = "remove" /\ todo[p] = {}

\* The summary of the call replaces the one that is there.
Close(p) ==
  /\ MayClose(p)
  /\ state' = "complete"
  /\ summary' = {}
  /\ todo' = [todo EXCEPT ![p] = {}]
  /\ Goto(p, "idle")
  /\ UNCHANGED <<used, recorded, files, value, read, bounds, history>>

\* The process dies between two statements; another one takes its place.
Crash(p) ==
  /\ pc[p] # "idle"
  /\ crashes < MaxCrashes
  /\ crashes' = crashes + 1
  /\ uncounted' = IF pc[p] = "count" THEN uncounted \union {value[p]} ELSE uncounted
  /\ todo' = [todo EXCEPT ![p] = {}]
  /\ Goto(p, "idle")
  /\ UNCHANGED <<study, files, value, read, calls, made, overlap, late>>

Next == \E p \in Process :
  \/ \E v \in Value : Start(p, v) \/ RemovePayload(p, v)
  \/ CheckBudget(p) \/ LookUp(p) \/ WritePayload(p) \/ Register(p)
  \/ CheckAgain(p) \/ Purge(p) \/ Retire(p) \/ LookForRow(p) \/ InsertRow(p) \/ Count(p)
  \/ ReadSummary(p) \/ WriteSummary(p)
  \/ StartCompletion(p) \/ ListRows(p) \/ Close(p)
  \/ Crash(p)

Spec == Init /\ [][Next]_vars

-----------------------------------------------------------------------------
(* Properties                                                              *)

\* The sum of size[x] over all x in S.
Total(size, S) ==
  LET total[T \in SUBSET DOMAIN size] ==
        IF T = {} THEN 0
        ELSE LET x == CHOOSE x \in T : TRUE IN size[x] + total[T \ {x}]
  IN  total[S]

Bytes(V) == Total(Payload, V)

Largest == CHOOSE n \in {Payload[v] : v \in Value} : \A v \in Value : Payload[v] <= n

\* The budget is checked in one statement and spent in another, so processes
\* may overrun it, but by no more than one Artifact for each other process.
OverrunBounded == used <= Budget + (Cardinality(Process) - 1) * Largest

\* The bytes charged to the study are those of the Artifacts it recorded, each
\* once, whoever publishes them again; only a process that dies between the row
\* and the count leaves bytes uncharged.
ChargedOnce ==
  used = Bytes(recorded \ (uncounted \union {value[p] : p \in {q \in Process : pc[q] = "count"}}))

\* A study that keeps payloads until completion has none left when it is
\* complete, also after a completion that died half-way, except those that were
\* being published meanwhile.
CompletionPurges ==
  Policy = "until_study_completion" /\ state = "complete" => recorded \intersect stored \subseteq late

\* Validations recorded one after the other are all in the summary.
ValidationsKept == ~overlap /\ state = "active" => summary = 1..made
=============================================================================
