---------------------------- MODULE QualityReview ----------------------------
(***************************************************************************)
(* The QA of the Artifact whose payload PayloadEviction moves about: tasks  *)
(* and "qa eval" evaluate it (evaluate_and_save), side by side, against a   *)
(* policy file that is edited meanwhile; evictions, of the retention hook   *)
(* or of "cleanup cache", ask for its verdict.  An evaluation loads the     *)
(* payload, judges what it was handed, and saves its facts, its decision    *)
(* and its result row in statements of their own.                           *)
(***************************************************************************)
EXTENDS PayloadEviction, Sequences

CONSTANTS
  Own,      \* the kind in Kind that stands for the Artifact's own QA
  Main,     \* the component an evaluation loads
  Measure,  \* values of the metric, the read noise of a bias
  NoFact,   \* no value: None, or null in the registry
  Unset,    \* no such row
  Policies  \* the policy files in the order they are put in place, each with
            \*   version, default, policy: raw values; fallback: of the metric;
            \*   checks: set of [where : SUBSET Measure, severity : STRING];
            \*   section: the file has one for this kind

Raw == {"absent", "false", "true", "hard", "soft", "off"}

Values   == Measure \union {NoFact}
Statuses == {"pass", "warn", "fail"}

PolicyFile ==
  [version : STRING, default : Raw, section : BOOLEAN, policy : Raw,
   checks : SUBSET [where : SUBSET Measure, severity : STRING], fallback : Values]

\* The rows of qa_decisions.
Decisions ==
  [status : Statuses, usability : {"usable", "degraded", "unusable"}, by : STRING]

ASSUME QualityReviewAssumption ==
  /\ Own \in Kind /\ Main \in Component
  /\ NoFact \notin Measure /\ Unset \notin Values \union Statuses \union Decisions
  /\ Policies \in Seq(PolicyFile) /\ Policies # <<>>
  /\ \A i, j \in DOMAIN Policies : Policies[i].version = Policies[j].version => i = j

VARIABLES
  file,      \* the policy file in place, an index of Policies
  engine,    \* file each evaluator's process has loaded, 0: none
  reviewPc,  \* where each evaluator is in evaluate_and_save
  given,     \* the metric it was handed
  fact,      \* row of the metric in qa_facts
  decision,  \* row in qa_decisions
  result,    \* status of the row in qa_results
  listed,    \* what "cleanup cache" made of the row before it called evict_payload
  contested, \* history: evaluators whose writes another one's came between
  whole      \* history: the last evaluation wrote alone, from first to last

evaluation == <<file, engine, reviewPc, given>>
bundle     == <<fact, decision, result>>
history    == <<contested, whole>>
review     == <<evaluation, bundle, listed, history>>
all        == <<vars, review>>

ReviewTypeOK ==
  /\ TypeOK
  /\ file \in DOMAIN Policies
  /\ engine \in [Reader -> {0} \union DOMAIN Policies]
  /\ reviewPc \in [Reader -> {"load", "facts", "decision", "results", "done", "blocked", "died"}]
  /\ given \in [Reader -> Values]
  /\ fact \in Values \union {Unset}
  /\ decision \in Decisions \union {Unset}
  /\ result \in Statuses \union {Unset}
  /\ listed \in [Evictor -> {"no", "candidate", "skipped"}]
  /\ contested \subseteq Reader
  /\ whole \in BOOLEAN

ReviewInit ==
  /\ Init
  /\ file = 1
  /\ engine = [v \in Reader |-> 0]
  /\ reviewPc = [v \in Reader |-> "load"]
  /\ given = [v \in Reader |-> NoFact]
  /\ fact = Unset
  /\ decision = Unset
  /\ result = Unset
  /\ listed = [e \in Evictor |-> "no"]
  /\ contested = {}
  /\ whole = FALSE

-----------------------------------------------------------------------------
(* QAEngine                                                                *)

\* YAML reads an unquoted off as a boolean; true says nothing of its own.
DefaultPolicy(p) ==
  CASE p.default = "false" -> "off"
    [] p.default \in {"true", "absent"} -> "soft"
    [] OTHER -> p.default

PolicyFor(p) ==
  CASE ~p.section \/ p.policy \in {"true", "absent"} -> DefaultPolicy(p)
    [] p.policy = "false" -> "off"
    [] OTHER -> p.policy

\* _extract_metrics: the value, or the default of the metric.
Metric(p, g) == IF g = NoFact THEN p.fallback ELSE g

\* _safe_eval evaluates every operand of "m is not None and m <= x", so that
\* a missing value is an error in the comparison; an error is a no.
Holds(c, m) == m \in c.where

Checks(p) == IF p.section THEN p.checks ELSE {}

\* A severity that is not a warning is a failure.
Fired(p, m, warning) ==
  \E c \in Checks(p) : (c.severity = "warn_if_false") = warning /\ ~Holds(c, m)

Judge(p, m) ==
  IF PolicyFor(p) = "off" THEN "pass"
  ELSE IF Fired(p, m, FALSE) THEN "fail"
  ELSE IF Fired(p, m, TRUE) THEN "warn"
  ELSE "pass"

ShouldBlock(p, s) == PolicyFor(p) = "hard" /\ s = "fail"

-----------------------------------------------------------------------------
(* evaluate_and_save                                                       *)

EditPolicy ==
  /\ file < Len(Policies)
  /\ file' = file + 1
  /\ UNCHANGED <<vars, engine, reviewPc, given, bundle, listed, history>>

\* evaluate_and_save asks for the engine before the payload; the process may
\* have read the file long before, for another Artifact.
LoadEngine(v) ==
  /\ engine[v] = 0
  /\ readerPc[v] = "idle"
  /\ engine' = [engine EXCEPT ![v] = file]
  /\ UNCHANGED <<vars, file, reviewPc, given, bundle, listed, history>>

\* A task hands over what it measured; "qa eval" what --meta says, the summary
\* or nothing at all.  The payload is loaded, or else the load raised.
Evaluate(v, g) ==
  /\ reviewPc[v] = "load"
  /\ engine[v] # 0
  /\ readerPc[v] = "loaded"
  /\ given' = [given EXCEPT ![v] = g]
  /\ reviewPc' = [reviewPc EXCEPT ![v] = "facts"]
  /\ UNCHANGED <<vars, file, engine, bundle, listed, history>>

\* Mutant: the file is read again at every use.
EngineReread(v) == Policies[file]

Engine(v) == Policies[engine[v]]

Judged(v)  == Metric(Engine(v), given[v])
Verdict(v) == Judge(Engine(v), Judged(v))

\* Evaluators between their first write and their last.
Writing == {v \in Reader : reviewPc[v] \in {"decision", "results"}}

\* v writes between the first and the last write of the others.
Contest(v) == contested' = contested \union (Writing \ {v})

\* What it was handed, or else the metric the rules looked at, if any.
Fact(v) == IF given[v] # NoFact THEN given[v]
           ELSE IF PolicyFor(Engine(v)) = "off" \/ ~Engine(v).section THEN fact
           ELSE Judged(v)

SaveFacts(v) ==
  /\ reviewPc[v] = "facts"
  /\ fact' = Fact(v)
  /\ reviewPc' = [reviewPc EXCEPT ![v] = "decision"]
  /\ Contest(v)
  /\ whole' = FALSE
  /\ UNCHANGED <<vars, file, engine, given, decision, result, listed>>

Usability(v) == IF ShouldBlock(Engine(v), Verdict(v)) THEN "unusable"
                ELSE IF Verdict(v) = "pass" THEN "usable" ELSE "degraded"

\* _require_validated.
Valid(d) == d.status # "fail" /\ d.usability # "unusable"

SaveDecision(v) ==
  /\ reviewPc[v] = "decision"
  /\ decision' = [status |-> Verdict(v), usability |-> Usability(v),
                  by |-> Engine(v).version]
  /\ IF Valid(decision')
       THEN evidence' = evidence \union {Own} /\ UNCHANGED reviews
       ELSE /\ evidence' = evidence \ {Own}
            /\ Own \in evidence => reviews < MaxReviews
            /\ reviews' = IF Own \in evidence THEN reviews + 1 ELSE reviews
  /\ reviewPc' = [reviewPc EXCEPT ![v] = "results"]
  /\ Contest(v)
  /\ whole' = FALSE
  /\ UNCHANGED <<store, evictor, reader, lost, crashes, file, engine, given, fact, result,
                 listed>>

\* evaluate_qa raises when the policy is hard and the verdict a failure.
SaveResults(v) ==
  /\ reviewPc[v] = "results"
  /\ result' = Verdict(v)
  /\ reviewPc' = [reviewPc EXCEPT
       ![v] = IF ShouldBlock(Engine(v), Verdict(v)) THEN "blocked" ELSE "done"]
  /\ Contest(v)
  /\ whole' = (v \notin contested)
  /\ UNCHANGED <<vars, file, engine, given, fact, decision, listed>>

EvaluatorDies(v) ==
  /\ reviewPc[v] \in {"decision", "results"}
  /\ crashes < MaxCrashes
  /\ crashes' = crashes + 1
  /\ reviewPc' = [reviewPc EXCEPT ![v] = "died"]
  /\ UNCHANGED <<store, evidence, evictor, reader, lost, reviews, file, engine, given,
                 bundle, listed, history>>

-----------------------------------------------------------------------------
(* cleanup_cache                                                           *)

\* The rows are listed before the first eviction: this one is a candidate if
\* a component that may go is present then.
ListCandidates(e) ==
  /\ pc[e] = "idle"
  /\ listed[e] = "no"
  /\ listed' = [listed EXCEPT ![e] =
       IF \E c \in Target : payloadState[c] = "present" THEN "candidate" ELSE "skipped"]
  /\ UNCHANGED <<vars, evaluation, bundle, history>>

-----------------------------------------------------------------------------
(* Who reads the verdict                                                   *)

\* "artifacts" and "qa list" join qa_results.
ListedStatus == result

\* The planner prefers the decision.
PlannedStatus == IF decision # Unset THEN decision.status ELSE result

\* get_qa_bundle.
BundleStatus == IF decision = Unset /\ fact = Unset THEN result
                ELSE IF decision = Unset THEN Unset
                ELSE decision.status

-----------------------------------------------------------------------------
Reviewing(v) ==
  \/ LoadEngine(v)
  \/ \E g \in Values : Evaluate(v, g)
  \/ SaveFacts(v)
  \/ SaveDecision(v)
  \/ SaveResults(v)
  \/ EvaluatorDies(v)

Keeping ==
  \/ \E e \in Evictor : listed[e] # "skipped" /\ Evict(e)
  \/ \E r \in Reader : Read(r) /\ (engine[r] # 0 => wanted'[r] = {Main})
  \/ \E k \in Kind \ {Own} : Validate(k) \/ FailReview(k)
  \/ \E c \in Component : LoseFile(c)

ReviewedNext ==
  \/ Keeping /\ UNCHANGED review
  \/ \E v \in Reader : Reviewing(v)
  \/ \E e \in Evictor : ListCandidates(e)
  \/ EditPolicy

ReviewedSpec == ReviewInit /\ [][ReviewedNext]_all

-----------------------------------------------------------------------------
(* Properties                                                              *)

PolicyOf(version) == CHOOSE i \in DOMAIN Policies : Policies[i].version = version

\* After an evaluation that no other one wrote into, whatever crashed, raced
\* or was edited before, the stored verdict is what the policy of the stored
\* version says of the stored fact, and the three readers of the verdict, who
\* look at different tables, see it alike (database.py:2842).
VerdictFollowsFacts ==
  whole =>
    LET p == Policies[PolicyOf(decision.by)]
    IN  /\ decision.status = Judge(p, fact)
        /\ (decision.usability = "unusable") = ShouldBlock(p, decision.status)
        /\ ListedStatus = PlannedStatus /\ BundleStatus = PlannedStatus
=============================================================================
