-------------------------- MODULE ExposureReduction --------------------------
(***************************************************************************)
(* ExposureTask.run up to the global fiber frame: select the calibrations   *)
(* of every raw amplifier, reduce the two amplifiers of one physical CCD    *)
(* after the other, model their scattered light, extract each of them, and  *)
(* assemble what was extracted.  An amplifier that cannot be carried on is  *)
(* recorded and left out; the completion verdict is derived from what was   *)
(* recorded.  Calibration runs may fill a gap in the registry meanwhile.    *)
(***************************************************************************)
EXTENDS Integers, Sequences, FiniteSets

CONSTANTS
  CCD,        \* the physical CCDs in the order they are visited: <<lower, upper>>
  Build,      \* the exposure_fiber_response builds, numbered as they were created
  Covers,     \* build -> its amplifier_keys
  InTime      \* builds valid at the time of the exposure

Amp  == UNION {{CCD[i][1], CCD[i][2]} : i \in DOMAIN CCD}

\* CALIBRATION_KINDS, Bias and Dark as one: each is needed where the other is.
Kind == {"bias_dark", "ldls", "arc", "trace", "wavelength"}

ASSUME ExposureReductionAssumption ==
  /\ CCD \in Seq(Amp \X Amp) /\ CCD # <<>>
  /\ \A i, j \in DOMAIN CCD : \A m, n \in 1..2 : CCD[i][m] = CCD[j][n] => i = j /\ m = n
  /\ IsFiniteSet(Build) /\ Build = 1..Cardinality(Build)
  /\ Covers \in [Build -> SUBSET Amp]
  /\ InTime \subseteq Build

VARIABLES
  raw,        \* amplifiers with a science frame of the exposure
  gap,        \* <<amplifier, kind>> the registry has nothing of
  active,     \* response builds in state active
  pc,         \* where run is
  ccd,        \* the CCD it is at
  response,   \* the build _ensure_calibrations chose, 0: none
  calibration, \* amplifier -> kinds selected for it
  reduced,    \* amplifiers whose dense detector state is in memory
  models,     \* CCDs whose scattered-light model was published
  results,    \* amp_results
  exclusions, \* wavelength_fiber_exclusions
  failures,   \* amplifiers with a recorded failure
  frame,      \* amplifiers of the global fiber frame
  status      \* of the completion product

facts    == <<raw, active>>
selected == <<response, calibration>>
records  == <<results, exclusions, failures>>
vars == <<facts, gap, pc, ccd, selected, reduced, models, records, frame, status>>

Lower == CCD[ccd][1]
Upper == CCD[ccd][2]
Both  == {Lower, Upper}

TypeOK ==
  /\ raw \subseteq Amp /\ raw # {} /\ active \subseteq Build
  /\ gap \subseteq Amp \X Kind
  /\ pc \in {"select", "lower", "upper", "model", "extractLower", "extractUpper", "release",
             "assemble", "done", "raised"}
  /\ ccd \in 1..(Len(CCD) + 1)
  /\ calibration \in [Amp -> SUBSET (Kind \union {"response"})]
  /\ reduced \subseteq raw /\ models \subseteq DOMAIN CCD
  /\ results \subseteq raw /\ exclusions \subseteq raw /\ failures \subseteq raw
  /\ frame \subseteq results
  /\ status \in {"none", "pass", "warn"}

\* All amplifiers or all but one were read out; at most one calibration of
\* one amplifier was never published.
Init ==
  /\ raw \in {Amp} \union {Amp \ {a} : a \in Amp}
  /\ active \in SUBSET Build
  /\ gap \in {{}} \union {{g} : g \in Amp \X Kind}
  /\ pc = "select" /\ ccd = 1
  /\ response = 0 /\ calibration = [a \in Amp |-> {}]
  /\ reduced = {} /\ models = {}
  /\ results = {} /\ exclusions = {} /\ failures = {}
  /\ frame = {} /\ status = "none"

-----------------------------------------------------------------------------
(* _ensure_calibrations                                                    *)

\* The n-th build of a list that has the newest first.
NewestFirst(n) == Cardinality(Build) + 1 - n

Overlap(b) == IF b = 0 THEN -1 ELSE Cardinality(raw \intersect Covers[b])

\* A candidate of B replaces the best so far only if it covers more.
Better(b, c, B) == IF c \in B /\ Overlap(c) > Overlap(b) THEN c ELSE b

Scan(start, B) ==
  LET best[n \in 0..Cardinality(Build)] ==
        IF n = 0 THEN start ELSE Better(best[n - 1], NewestFirst(n), B)
  IN  best[Cardinality(Build)]

\* Mutant: a build that is valid at the time is never exchanged.
ChosenInTime ==
  LET timely == Scan(0, active \intersect InTime)
  IN  IF timely # 0 THEN timely ELSE Scan(0, active)

\* The builds valid at the time first, all of them after that.
Chosen ==
  LET timely == Scan(0, active \intersect InTime)
  IN  IF Overlap(timely) = Cardinality(raw) THEN timely ELSE Scan(timely, active)

Covered(b) == IF b = 0 THEN {} ELSE Covers[b]

\* Every kind by latest_valid, then nearest; the response from the build.
Kinds(a, b) == {k \in Kind : <<a, k>> \notin gap}
                 \union (IF a \in Covered(b) THEN {"response"} ELSE {})

Complete == Kind \union {"response"}

Select ==
  /\ pc = "select"
  /\ response' = Chosen
  /\ calibration' = [a \in Amp |-> IF a \in raw THEN Kinds(a, response') ELSE {}]
  /\ failures' = {a \in raw : calibration'[a] # Complete}
  /\ pc' = IF failures' = raw THEN "raised" ELSE "lower"
  /\ UNCHANGED <<facts, gap, ccd, reduced, models, results, exclusions, frame, status>>

\* A calibration run publishes what was missing.
Recalibrate ==
  /\ gap # {}
  /\ pc \notin {"done", "raised"}
  /\ gap' = {}
  /\ UNCHANGED <<facts, pc, ccd, selected, reduced, models, records, frame, status>>

-----------------------------------------------------------------------------
(* One physical CCD after the other                                        *)

Goto(l) == pc' = l /\ UNCHANGED ccd

NextCCD ==
  /\ ccd' = ccd + 1
  /\ pc' = IF ccd = Len(CCD) THEN "assemble" ELSE "lower"

\* Mutant: only amplifiers that are processed are recorded.
LoneRecordedNever == failures

\* The amplifiers of the CCD that are there although their partner is not.
LoneRecorded == failures \union (Both \intersect raw)

NoPartner ==
  /\ pc = "lower"
  /\ ~(Both \subseteq raw)
  /\ failures' = LoneRecorded
  /\ NextCCD
  /\ UNCHANGED <<facts, gap, selected, reduced, models, results, exclusions, frame, status>>

\* ReducedScienceAmplifierTask looks in the registry for what was not
\* selected, and does without an LDLS mask.
MayReduce(a) == "bias_dark" \in calibration[a] \/ <<a, "bias_dark">> \notin gap

\* reduced_state of the lower amplifier, then of the upper one.
Reduce(a, ok) ==
  IF ok
    THEN MayReduce(a) /\ reduced' = reduced \union {a} /\ UNCHANGED failures
    ELSE failures' = failures \union {a} /\ UNCHANGED reduced

ReduceLower ==
  /\ pc = "lower"
  /\ Both \subseteq raw
  /\ \E ok \in BOOLEAN : Reduce(Lower, ok)
  /\ Goto("upper")
  /\ UNCHANGED <<facts, gap, selected, models, results, exclusions, frame, status>>

ReduceUpper ==
  /\ pc = "upper"
  /\ \E ok \in BOOLEAN : Reduce(Upper, ok)
  /\ Goto("model")
  /\ UNCHANGED <<facts, gap, selected, models, results, exclusions, frame, status>>

Dropped == Both

MayModel ==
  /\ Both \subseteq reduced
  /\ \A a \in Both : "trace" \in calibration[a]

\* PhysicalCCDTask publishes the model, whatever its QA status.
Model ==
  /\ pc = "model"
  /\ MayModel
  /\ models' = models \union {ccd}
  /\ Goto("extractLower")
  /\ UNCHANGED <<facts, gap, selected, reduced, records, frame, status>>

\* No trace was selected, a state is missing, or PhysicalCCDTask raises,
\* before its model is published or after that.
GiveUp ==
  /\ pc = "model"
  /\ failures' = failures \union Both
  /\ reduced' = reduced \ Dropped
  /\ models' \in {models} \union (IF MayModel THEN {models \union {ccd}} ELSE {})
  /\ NextCCD
  /\ UNCHANGED <<facts, gap, selected, results, exclusions, frame, status>>

\* One amplifier of the CCD: left out, or its spectrum with all of its
\* wavelength rows or some.  The exclusions are recorded before the amplifier
\* without any valid row is left out.
LeaveOut(a) ==
  /\ failures' = failures \union {a}
  /\ exclusions' \in {exclusions} \union
       (IF {"wavelength", "response"} \subseteq calibration[a] THEN {exclusions \union {a}} ELSE {})
  /\ UNCHANGED results

Extract(a) ==
  /\ {"wavelength", "response"} \subseteq calibration[a]
  /\ results' = results \union {a}
  /\ exclusions' \in {exclusions, exclusions \union {a}}
  /\ UNCHANGED failures

ExtractLower ==
  /\ pc = "extractLower"
  /\ LeaveOut(Lower) \/ Extract(Lower)
  /\ Goto("extractUpper")
  /\ UNCHANGED <<facts, gap, selected, reduced, models, frame, status>>

ExtractUpper ==
  /\ pc = "extractUpper"
  /\ LeaveOut(Upper) \/ Extract(Upper)
  /\ Goto("release")
  /\ UNCHANGED <<facts, gap, selected, reduced, models, frame, status>>

\* A payload that cannot be loaded ends the task: this part is not in a try.
LoadFails ==
  /\ pc \in {"extractLower", "extractUpper"}
  /\ Goto("raised")
  /\ UNCHANGED <<facts, gap, selected, reduced, models, records, frame, status>>

Release ==
  /\ pc = "release"
  /\ reduced' = reduced \ Both
  /\ NextCCD
  /\ UNCHANGED <<facts, gap, selected, models, records, frame, status>>

-----------------------------------------------------------------------------
(* _assemble_global_fiber_frame and build_completion_coverage               *)

\* Mutant: excluded wavelength rows do not count.
CleanOfFailures(F) == F = {}

\* The completion is a pass: F are the failures, exclusions as recorded.
Clean(F) == F = {} /\ exclusions = {}

\* U: amplifiers of IFU slots the fplane configuration does not have.
Assemble ==
  /\ pc = "assemble"
  /\ results # {}
  /\ \E U \in SUBSET results :
       /\ failures' = failures \union U
       /\ frame' = results \ U
       /\ IF frame' = {} THEN Goto("raised") /\ UNCHANGED status
          ELSE Goto("done") /\ status' = IF Clean(failures') THEN "pass" ELSE "warn"
  /\ UNCHANGED <<facts, gap, selected, reduced, models, results, exclusions>>

NothingExtracted ==
  /\ pc = "assemble"
  /\ results = {}
  /\ Goto("raised")
  /\ UNCHANGED <<facts, gap, selected, reduced, models, records, frame, status>>

Next ==
  \/ Select
  \/ Recalibrate
  \/ NoPartner
  \/ ReduceLower
  \/ ReduceUpper
  \/ GiveUp
  \/ Model
  \/ ExtractLower
  \/ ExtractUpper
  \/ LoadFails
  \/ Release
  \/ Assemble
  \/ NothingExtracted

Spec == Init /\ [][Next]_vars

-----------------------------------------------------------------------------
(* Properties                                                              *)

\* Amplifiers of CCDs the loop has left behind.
Past == {a \in raw : \E i \in 1..(ccd - 1) : a \in {CCD[i][1], CCD[i][2]}}

\* No amplifier disappears: one the loop has passed is extracted or has a
\* failure on record, and one that is not in the frame has a failure, whatever
\* went wrong with its partner (exposure.py:1661, exposure.py:706).
Accounted ==
  /\ Past \subseteq results \union failures
  /\ pc = "done" => raw = frame \union failures

\* A completion product that says "pass" stands for every fiber of every
\* amplifier that was read out, each calibrated from the one selected build
\* (completion.py:27).
PassMeansWhole ==
  status = "pass" =>
    frame = raw /\ exclusions = {} /\ \A a \in raw : calibration[a] = Complete

\* The detector states in memory are those of the CCD being worked on: they
\* are dropped on every way out of it (exposure.py:1687, 1711, 1854).
ReleasedPromptly ==
  /\ reduced \subseteq (IF ccd \in DOMAIN CCD THEN Both ELSE {})
  /\ pc \in {"lower", "assemble", "done"} => reduced = {}

\* An extracted spectrum rests on a published model of its own CCD, made of
\* two reduced states, and on a partner that was read out (exposure.py:1673).
SpectraHaveModels ==
  /\ \A i \in DOMAIN CCD : {CCD[i][1], CCD[i][2]} \intersect results # {} =>
       i \in models /\ {CCD[i][1], CCD[i][2]} \subseteq raw
  /\ pc \in {"extractLower", "extractUpper"} => Both \subseteq reduced

\* The two scans choose the build that covers most of the exposure; of those
\* one that is valid at its time, and then the newest (exposure.py:245).
ResponseIsBest ==
  LET Rank(b) == <<Overlap(b), IF b \in InTime THEN 1 ELSE 0, b>>
      Above(x, y) == \/ x[1] > y[1]
                     \/ x[1] = y[1] /\ x[2] > y[2]
                     \/ x[1] = y[1] /\ x[2] = y[2] /\ x[3] > y[3]
  IN  pc # "select" /\ active # {} =>
        response # 0 /\ \A b \in active \ {response} : Above(Rank(response), Rank(b))
=============================================================================
