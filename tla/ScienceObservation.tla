------------------------- MODULE ScienceObservation -------------------------
(***************************************************************************)
(* cmd_run_observation: an ExposureTask for every exposure, two at a time,  *)
(* and an ObservationTask that waits for all of them.  An ExposureTask      *)
(* publishes its exposure's astrometry, response and completion and hands   *)
(* its calibrated fibers on in memory; the ObservationTask selects the      *)
(* exposures' products anew from the registry and concatenates the fibers.  *)
(* A command may be given again, after a failure, a crash or a success.     *)
(*                                                                          *)
(* A product is its revision: what its content and its ancestors depend on. *)
(* Kinds that depend on the same and that no task selects are one with the  *)
(* kind they are published beside.  The products of one exposure published  *)
(* by this command only: no other process works on the exposures.           *)
(***************************************************************************)
EXTENDS Integers, Sequences, FiniteSets, SequencesExt

CONSTANTS
  Exposure,   \* the exposures of the observation
  DitherSize, \* length of the nominal dither pattern
  Primary,    \* exposures that VIRUS took as the primary instrument
  Bright,     \* exposures with a source in their detections or configuration
  Measured,   \* baselines someone may derive from standard stars
  Valid,      \* for each of them, the exposures taken while it is valid
  Workers,    \* size of the executor's pool
  MaxRuns,    \* bound: commands, failing tasks and crashes together
  MaxMeasured \* bound: baselines that are derived

ASSUME ScienceObservationAssumption ==
  /\ IsFiniteSet(Exposure) /\ Exposure # {}
  /\ Primary \subseteq Exposure /\ Bright \subseteq Exposure
  /\ Measured \intersect {"seed", "none"} = {} /\ Valid \in [Measured -> SUBSET Exposure]
  /\ {DitherSize, Workers, MaxRuns, MaxMeasured} \subseteq Nat /\ Workers > 0

Kind    == {"initial", "final", "response", "source", "times", "completion"}
Catalog == {"matched", "unmatched"}
None    == "none"

\* Baselines, and what revisions are made of.
Base == {"seed"} \union Measured
Rev  == {<<>>} \union {<<c>> : c \in Catalog \union {None}}
          \union ((Catalog \union {None}) \X (Base \union {None}))

VARIABLES
  made,      \* exposure -> kind -> revisions of its rows, oldest first
  judged,    \* <<exposure, kind, revision>> with a QA verdict
  baselines, \* baseline response rows, oldest first
  at,        \* exposure -> where its task is
  catalog,   \* exposure -> what matching its detections to the catalog gave
  baseline,  \* exposure -> the baseline its task selected
  observing, \* where the command is
  chosen,    \* exposure -> kind -> what the ObservationTask selected
  runs, faults,
  earlier    \* history: made and baselines when the command was given

registry == <<made, judged, baselines>>
counters == <<runs, faults>>
vars == <<registry, at, catalog, baseline, observing, chosen, counters, earlier>>

\* The rest of a revision: its kind and exposure are given where it is used.
Revision(e, k) ==
  CASE k \in {"initial", "times"} -> <<>>
    [] k = "final" -> <<catalog[e]>>
    [] OTHER -> <<catalog[e], baseline[e]>>

Steps == {<<"idle">>, <<"match">>, <<"select">>, <<"import">>, <<"done">>, <<"failed">>}
           \union ({"publish", "judge"} \X Kind)

TypeOK ==
  /\ made \in [Exposure -> [Kind -> Seq(Rev)]]
  /\ judged \subseteq Exposure \X Kind \X Rev
  /\ baselines \in Seq(Base)
  /\ at \in [Exposure -> Steps]
  /\ catalog \in [Exposure -> Catalog \union {None}]
  /\ baseline \in [Exposure -> Base \union {None}]
  /\ observing \in {"idle", "exposures", "states", "summary", "combine", "spectrum"}
  /\ DOMAIN chosen \subseteq Exposure
  /\ runs \in 0..MaxRuns /\ faults \in 0..MaxRuns
  /\ earlier \in [made : [Exposure -> [Kind -> Seq(Rev)]], baselines : Seq(Base)]

Nothing == [e \in Exposure |-> None]
NothingMade == [e \in Exposure |-> [k \in Kind |-> <<>>]]

Init ==
  /\ made = NothingMade /\ judged = {} /\ baselines = <<>>
  /\ at = [e \in Exposure |-> <<"idle">>] /\ catalog = Nothing /\ baseline = Nothing
  /\ observing = "idle" /\ chosen = <<>>
  /\ runs = 0 /\ faults = 0
  /\ earlier = [made |-> NothingMade, baselines |-> <<>>]

-----------------------------------------------------------------------------
(* ExposureTask                                                            *)

Stepping(e) == observing = "exposures" /\ at[e] \notin {<<"idle">>, <<"done">>, <<"failed">>}
Goto(e, l) == at' = [at EXCEPT ![e] = l]
KeepsRun == UNCHANGED <<observing, chosen, counters, earlier>>

Start(e) ==
  /\ observing = "exposures" /\ at[e] = <<"idle">>
  /\ Cardinality({f \in Exposure : Stepping(f)}) < Workers
  /\ Goto(e, <<"publish", "initial">>)
  /\ UNCHANGED <<registry, catalog, baseline>> /\ KeepsRun

\* Where the task goes when a product is judged.
After(e, k) ==
  CASE k = "initial" -> <<"match">>
    [] k = "final" -> <<"select">>
    [] k = "response" /\ e \in Bright -> <<"publish", "source">>
    [] k = "response" /\ e \notin Bright -> <<"publish", "times">>
    [] k = "source" -> <<"publish", "times">>
    [] k = "times" -> <<"publish", "completion">>
    [] k = "completion" -> <<"done">>

\* Mutant: a product that is there already is not judged again.
JudgedUnlessThere(e, k) ==
  IF Revision(e, k) \in ToSet(made[e][k]) THEN After(e, k) ELSE <<"judge", k>>

Published(e, k) == <<"judge", k>>

\* An active row of the same revision answers the request.
Extended(rows, rev) == IF rev \in ToSet(rows) THEN rows ELSE Append(rows, rev)

Publish(e, k) ==
  LET rev == Revision(e, k)
  IN  /\ Stepping(e) /\ at[e] = <<"publish", k>>
      /\ made' = [made EXCEPT ![e][k] = Extended(@, rev)]
      /\ Goto(e, Published(e, k))
      /\ UNCHANGED <<judged, baselines, catalog, baseline>> /\ KeepsRun

Judge(e, k) ==
  /\ Stepping(e) /\ at[e] = <<"judge", k>>
  /\ judged' = judged \union {<<e, k, Revision(e, k)>>}
  /\ Goto(e, After(e, k))
  /\ UNCHANGED <<made, baselines, catalog, baseline>> /\ KeepsRun

\* The search may fail and the fit may not succeed: the header's pointing
\* stays.
Match(e) ==
  /\ Stepping(e) /\ at[e] = <<"match">>
  /\ \E c \in Catalog : catalog' = [catalog EXCEPT ![e] = c]
  /\ Goto(e, <<"publish", "final">>)
  /\ UNCHANGED <<registry, baseline>> /\ KeepsRun

\* The validity of a baseline is asked at the time of the exposure; that of the
\* seed is open.
Applies(b, e) == b \in Measured => e \in Valid[b]

Candidates(e) == {i \in DOMAIN baselines : Applies(baselines[i], e)}

\* The newest baseline that is valid, or the seed, which is imported.
SelectBaseline(e) ==
  /\ Stepping(e) /\ at[e] = <<"select">>
  /\ \/ \E i \in Candidates(e) :
          /\ \A j \in Candidates(e) : j <= i
          /\ baseline' = [baseline EXCEPT ![e] = baselines[i]]
          /\ Goto(e, <<"publish", "response">>)
     \/ Candidates(e) = {} /\ UNCHANGED baseline /\ Goto(e, <<"import">>)
  /\ UNCHANGED <<registry, catalog>> /\ KeepsRun

\* Mutant: the seed is published for the exposure, not for the instrument.
SeedOfExposure(e) == e

SeedOf(e) == "seed"

ImportBaseline(e) ==
  /\ Stepping(e) /\ at[e] = <<"import">>
  /\ baseline' = [baseline EXCEPT ![e] = SeedOf(e)]
  /\ baselines' = Extended(baselines, SeedOf(e))
  /\ Goto(e, <<"publish", "response">>)
  /\ UNCHANGED <<made, judged, catalog>> /\ KeepsRun

\* Bound: a fault takes the place of a command, and another command follows.
MayFault == runs + faults + 1 < MaxRuns

\* Reduction, inference or publication raises.
Fail(e) ==
  /\ Stepping(e) /\ MayFault
  /\ faults' = faults + 1
  /\ Goto(e, <<"failed">>)
  /\ UNCHANGED <<registry, catalog, baseline, observing, chosen, runs, earlier>>

ExposureTask(e) ==
  \/ Start(e) \/ Match(e) \/ SelectBaseline(e) \/ ImportBaseline(e) \/ Fail(e)
  \/ \E k \in Kind : Publish(e, k) \/ Judge(e, k)

\* Someone derives a baseline from standard stars.
MeasureBaseline(b) ==
  /\ observing # "idle" /\ b \notin ToSet(baselines)
  /\ Cardinality(ToSet(baselines) \ {"seed"}) < MaxMeasured
  /\ baselines' = Append(baselines, b)
  /\ UNCHANGED <<made, judged, at, catalog, baseline>> /\ KeepsRun

-----------------------------------------------------------------------------
(* The command and its ObservationTask                                     *)

Ends == observing' = "idle" /\ chosen' = <<>>
KeepsTasks == UNCHANGED <<registry, at, catalog, baseline>>

Command ==
  /\ observing = "idle" /\ runs + faults < MaxRuns
  /\ runs' = runs + 1
  /\ observing' = "exposures"
  /\ at' = [e \in Exposure |-> <<"idle">>] /\ catalog' = Nothing /\ baseline' = Nothing
  /\ earlier' = [made |-> made, baselines |-> baselines]
  /\ UNCHANGED <<registry, chosen, faults>>

MayObserve == \A e \in Exposure : at[e] = <<"done">>

Settle ==
  /\ observing = "exposures"
  /\ \A e \in Exposure : at[e] \in {<<"done">>, <<"failed">>}
  /\ IF MayObserve THEN observing' = "states" /\ UNCHANGED chosen ELSE Ends
  /\ KeepsTasks /\ UNCHANGED <<counters, earlier>>

\* Mutant: the oldest row.
SelectOldest(e, k) == IF made[e][k] = <<>> THEN None ELSE made[e][k][1]

\* select_best: the row created last, whatever it was judged.
SelectBest(e, k) == IF made[e][k] = <<>> THEN None ELSE made[e][k][Len(made[e][k])]

Read == Kind \ {"source"}

Observe(e) ==
  /\ observing = "states" /\ e \notin DOMAIN chosen
  /\ chosen' = [f \in DOMAIN chosen \union {e} |->
       IF f = e THEN [k \in Read |-> SelectBest(e, k)] ELSE chosen[f]]
  /\ observing' = IF DOMAIN chosen' = Exposure THEN "summary" ELSE "states"
  /\ KeepsTasks /\ UNCHANGED <<counters, earlier>>

\* assignment.complete: a standard dither, and as many members as it has.
CompleteDither == Primary = Exposure /\ Cardinality(Exposure) = DitherSize

\* Membership, assignment, registration, coverage and summary.
Summarise ==
  /\ observing = "summary"
  /\ IF CompleteDither THEN observing' = "combine" /\ UNCHANGED chosen ELSE Ends
  /\ KeepsTasks /\ UNCHANGED <<counters, earlier>>

\* calibrated_fiber_observation: the fibers the tasks handed on.
Combine ==
  /\ observing = "combine"
  /\ IF Bright = Exposure THEN observing' = "spectrum" /\ UNCHANGED chosen ELSE Ends
  /\ KeepsTasks /\ UNCHANGED <<counters, earlier>>

\* observation_source_spectrum
CombineSpectra ==
  /\ observing = "spectrum"
  /\ Ends /\ KeepsTasks /\ UNCHANGED <<counters, earlier>>

\* The ObservationTask raises, or the process dies.
Break ==
  /\ observing # "idle" /\ MayFault
  /\ faults' = faults + 1
  /\ Ends /\ KeepsTasks /\ UNCHANGED <<runs, earlier>>

Next ==
  \/ Command \/ Settle \/ Summarise \/ Combine \/ CombineSpectra \/ Break
  \/ \E b \in Measured : MeasureBaseline(b)
  \/ \E e \in Exposure : ExposureTask(e) \/ Observe(e)

Spec == Init /\ [][Next]_vars

-----------------------------------------------------------------------------
(* Properties                                                              *)

Products(e) == Kind \ (IF e \in Bright THEN {} ELSE {"source"})

\* An observation is assembled from exposures that this command completed,
\* each with every product registered and judged, those an earlier command
\* published and did not live to judge included (exposure.py _request,
\* cmd_run_observation's depends_on).
MembersWhole ==
  observing \in {"states", "summary", "combine", "spectrum"} =>
    \A e \in Exposure : \A k \in Products(e) :
      /\ Revision(e, k) \in ToSet(made[e][k])
      /\ <<e, k, Revision(e, k)>> \in judged

\* The astrometry, response and completion recorded for a member are those
\* its fibers were calibrated with; what was selected can only be another
\* row when this command published nothing new: its row was there, and a
\* later one too (observation.py select_best after the ExposureTasks).
OwnUnlessReturned ==
  \A e \in DOMAIN chosen : \A k \in Read :
    chosen[e][k] = Revision(e, k) \/ Revision(e, k) \in ToSet(earlier.made[e][k])

\* Two exposures of one observation at which the same baselines are valid are
\* calibrated with one baseline, unless one that is valid for them came while
\* they were reduced: a measured one, or the seed, imported for a third
\* exposure at which none of those they had is valid (_select_or_import_baseline).
BaselinesShared ==
  observing \in {"combine", "spectrum"} => \A e, f \in Exposure :
    \/ baseline[e] = baseline[f]
    \/ \E b \in ToSet(baselines) : Applies(b, e) # Applies(b, f)
    \/ \E b \in ToSet(baselines) \ ToSet(earlier.baselines) :
         Applies(b, e) /\ (b \notin Measured => \E c \in ToSet(earlier.baselines) : Applies(c, e))
=============================================================================
