--------------------------- MODULE ExposureScience ---------------------------
(***************************************************************************)
(* ExposureTask.run from the global fiber frame on: the loop that infers    *)
(* pointing, sources and sky together, the products of its last accepted    *)
(* solution, the baseline's atmosphere and the extinction that goes with    *)
(* it, and the extraction of a point source by a chromatic PSF.  The        *)
(* reduction is ExposureReduction; this part starts where it has assembled  *)
(* a frame.                                                                 *)
(*                                                                          *)
(* A pointing is the number of steps the fits have moved it; a model of the *)
(* extinction is the identity it declares and the payload it was made of.   *)
(***************************************************************************)
EXTENDS ExposureReduction, SequencesExt

CONSTANTS
  MaxIterations, \* exposure_inference_max_iterations
  Intervals,     \* psf_interval_count
  MinPoints,     \* valid intervals a chromatic fit takes
  MaxRows        \* bound: extinction models in the registry beforehand

ASSUME ExposureScienceAssumption ==
  {MaxIterations, Intervals, MinPoints, MaxRows} \subseteq Nat \ {0}

Nowhere == "none"

VARIABLES
  step,       \* where the rest of run is
  accepted,   \* the ExposureInferenceState kept from the last iteration
  history,    \* what became of each iteration
  verdicts,   \* QA status of the exposure's products so far
  site,       \* atmospheric_extinction_model rows, oldest first
  atmosphere, \* what the selected baseline and the configuration ask for
  evaluated,  \* the extinction model evaluated for the exposure
  recorded,   \* the one in the parents of its response
  corrected,  \* the one its calibrated fibers were corrected with
  fits        \* validity of the PSF intervals fitted so far

inference  == <<accepted, history>>
extinction == <<evaluated, recorded, corrected>>
science    == <<step, inference, verdicts, site, atmosphere, extinction, fits>>

Identity == {"mcdonald", "other"}
NoState  == [iteration |-> 0, pointing |-> 0, refined |-> FALSE, found |-> FALSE]
NoSky    == [content |-> Nowhere, required |-> Nowhere, configured |-> Nowhere, row |-> 0]

\* In the order they are published.
Solution == <<"source_detection_catalog", "catalog_match_table", "final_astrometry",
              "fiber_sky_coordinates", "sky_fiber_mask", "exposure_illumination_correction",
              "sky_model">>
Closing  == <<"exposure_mode_classification", "effective_exposure_time",
              "exposure_completion_manifest">>

\* What the registry may hold: the bundled model, and ones of another site,
\* complete or not.
Rows == {[identity |-> "mcdonald", payload |-> "bundled", complete |-> TRUE]}
          \union [identity : {"other"}, payload : {"foreign"}, complete : BOOLEAN]

ScienceInit ==
  /\ step = "frame"
  /\ accepted = NoState /\ history = <<>>
  /\ verdicts = <<>>
  /\ site = <<>>
  /\ atmosphere = NoSky /\ evaluated = <<>> /\ recorded = <<>> /\ corrected = <<>>
  /\ fits = <<>>

-----------------------------------------------------------------------------
(* _solve_exposure_inference                                               *)

\* The header's pointing is published first.
StartInference ==
  /\ step = "frame" /\ pc = "done"
  /\ step' = "infer"
  /\ verdicts' = [k \in {"initial_astrometry"} |-> "pass"]
  /\ UNCHANGED <<inference, site, atmosphere, extinction, fits>>

\* Mutant: a fit that fails replaces what was accepted.
RetainedNever(success) == FALSE

\* A fit that fails is not mixed with a solution that was accepted.
Retained(success) == ~success /\ accepted # NoState

\* Sky mask, illumination and coordinates moved less than their tolerances.
Converged(state, steady) ==
  accepted # NoState /\ steady /\ state.pointing = accepted.pointing

\* What one iteration makes of the last: detection, fit, object mask, sky
\* fibers, sky model.
Solved(success, shift, found) ==
  [iteration |-> Len(history) + 1, pointing |-> accepted.pointing + shift,
   refined |-> success, found |-> found]

Infer ==
  /\ step = "infer"
  /\ \E success, steady, found \in BOOLEAN :
     \E shift \in IF success THEN 0..1 ELSE {0} :
       LET state == Solved(success, shift, found)
       IN  /\ success => found
           /\ history' = Append(history, [refined |-> success, shift |-> shift])
           /\ accepted' = IF Retained(success) THEN accepted ELSE state
           /\ step' = IF \/ Retained(success)
                         \/ Converged(state, steady)
                         \/ Len(history') = MaxIterations
                        THEN "solution" ELSE "infer"
  /\ UNCHANGED <<verdicts, site, atmosphere, extinction, fits>>

\* Products whose verdict tells whether the pointing is the header's.
Astrometric == {"catalog_match_table", "final_astrometry", "fiber_sky_coordinates"}

Judged(k, v) == [j \in DOMAIN verdicts \union {k} |-> IF j = k THEN v ELSE verdicts[j]]

\* The i-th of the products is the first that is not published yet.
Upcoming(products, i) ==
  /\ products[i] \notin DOMAIN verdicts
  /\ \A j \in 1..(i - 1) : products[j] \in DOMAIN verdicts

PublishSolution ==
  /\ step = "solution"
  /\ \E i \in DOMAIN Solution :
       LET k == Solution[i] IN
         /\ Upcoming(Solution, i)
         /\ verdicts' = Judged(k, IF k \in Astrometric /\ ~accepted.refined THEN "warn" ELSE "pass")
         /\ step' = IF i = Len(Solution) THEN "baseline" ELSE "solution"
  /\ UNCHANGED <<inference, site, atmosphere, extinction, fits>>

-----------------------------------------------------------------------------
(* The atmosphere of the baseline                                          *)

\* The baseline declares what of the atmosphere it contains; a model can be
\* configured by its row or by its file.  Nothing before reads the rows.
SelectBaseline ==
  /\ step = "baseline"
  /\ \E rows \in UNION {[1..n -> Rows] : n \in 0..MaxRows} :
     \E content \in {"absorbed_unknown", "removed_with_model"} :
     \E required \in IF content = "removed_with_model" THEN Identity ELSE {Nowhere} :
     \E configured \in {Nowhere, "path", "artifact"} :
     \E row \in IF configured = "artifact" THEN 1..(MaxRows + 1) ELSE {0} :
       /\ site' = rows
       /\ atmosphere' = [content |-> content, required |-> required,
                         configured |-> configured, row |-> row]
  /\ step' = "extinction"
  /\ UNCHANGED <<inference, verdicts, extinction, fits>>

\* _complete_extinction_candidates
Candidate(i) == site[i].complete /\ site[i].identity = atmosphere.required

Candidates == {i \in DOMAIN site : Candidate(i)}

\* Mutant: a configured row is taken for what it says it is.
ConfiguredExists == atmosphere.row \in DOMAIN site

ConfiguredIsCandidate == atmosphere.row \in Candidates

\* resolve_atmospheric_extinction: the identity is the configuration's, for
\* a file that was given too.
Imported == [identity |-> "mcdonald",
             payload |-> IF atmosphere.configured = "path" THEN "given" ELSE "bundled",
             complete |-> TRUE]

Evaluate(model) ==
  /\ evaluated' = <<model>> /\ step' = "response"
  /\ UNCHANGED <<recorded, corrected>>
Separated == step = "extinction" /\ atmosphere.content = "removed_with_model"

\* A second extinction would be applied on top of the one in the baseline.
NoExtinction ==
  /\ step = "extinction" /\ atmosphere.content = "absorbed_unknown"
  /\ step' = IF atmosphere.configured # Nowhere THEN "raised" ELSE "response"
  /\ UNCHANGED <<inference, verdicts, site, atmosphere, extinction, fits>>

UseConfigured ==
  /\ Separated /\ atmosphere.configured = "artifact"
  /\ IF ConfiguredIsCandidate
       THEN Evaluate(site[atmosphere.row]) ELSE step' = "raised" /\ UNCHANGED extinction
  /\ UNCHANGED <<inference, verdicts, site, atmosphere, fits>>

UseNewest ==
  /\ Separated /\ atmosphere.configured = Nowhere
  /\ Candidates # {}
  /\ Evaluate(site[Max(Candidates)])
  /\ UNCHANGED <<inference, verdicts, site, atmosphere, fits>>

\* The model is published, or found published, for the instrument.
ImportModel ==
  /\ Separated /\ atmosphere.configured # "artifact"
  /\ atmosphere.configured = Nowhere => Candidates = {}
  /\ IF Imported.identity # atmosphere.required
       THEN step' = "raised" /\ UNCHANGED <<site, extinction>>
       ELSE /\ site' = IF Imported \in ToSet(site) THEN site ELSE Append(site, Imported)
            /\ Evaluate(Imported)
  /\ UNCHANGED <<inference, verdicts, atmosphere, fits>>

\* The exposure has no positive airmass, the baseline no identity of its
\* model, or the range policy refuses a wavelength.
ExtinctionFails ==
  /\ Separated
  /\ step' = "raised"
  /\ UNCHANGED <<inference, verdicts, site, atmosphere, extinction, fits>>

\* fiber_response_model, with the model among its parents.
PublishResponse ==
  /\ step = "response"
  /\ verdicts' = Judged("fiber_response_model", "warn")
  /\ recorded' = evaluated
  /\ step' = "calibrate"
  /\ UNCHANGED <<inference, site, atmosphere, evaluated, corrected, fits>>

\* apply_relative_response takes a correction if and only if the baseline has
\* been separated from one; its result stays in memory.
Calibrate ==
  /\ step = "calibrate"
  /\ IF (atmosphere.content = "removed_with_model") = (evaluated # <<>>)
       THEN corrected' = evaluated /\ step' = "source"
       ELSE step' = "raised" /\ UNCHANGED corrected
  /\ UNCHANGED <<inference, verdicts, site, atmosphere, evaluated, recorded, fits>>

-----------------------------------------------------------------------------
(* _run_point_source_extraction                                            *)

\* A position may be configured; otherwise the brightest detection is it.
SourceKnown(override) == override \/ accepted.found

LocateSource ==
  /\ step = "source"
  /\ \E override, inRange \in BOOLEAN :
       IF SourceKnown(override) /\ inRange
         THEN verdicts' = Judged("dar_seed_model", "pass") /\ step' = "psf"
         ELSE UNCHANGED verdicts /\ step' = "close"
  /\ UNCHANGED <<inference, site, atmosphere, extinction, fits>>

\* A spatial_psf_measurement for each interval of wavelength.
FitInterval ==
  /\ step = "psf"
  /\ \E valid \in BOOLEAN : fits' = Append(fits, valid)
  /\ step' = IF Len(fits') = Intervals THEN "chromatic" ELSE "psf"
  /\ UNCHANGED <<inference, verdicts, site, atmosphere, extinction>>

Fittable == Cardinality({i \in DOMAIN fits : fits[i]}) >= MinPoints

\* With too few valid intervals the model is the seed.
FitChromatic ==
  /\ step = "chromatic"
  /\ verdicts' = Judged("chromatic_psf_model", IF Fittable THEN "pass" ELSE "warn")
  /\ step' = "extract"
  /\ UNCHANGED <<inference, site, atmosphere, extinction, fits>>

\* The verdict is on the part of the PSF that no fiber covers.
ExtractSource ==
  /\ step = "extract"
  /\ \E v \in {"pass", "warn"} : verdicts' = Judged("point_source_extraction", v)
  /\ step' = "close"
  /\ UNCHANGED <<inference, site, atmosphere, extinction, fits>>

\* The completion's verdict is the reduction's.
Close ==
  /\ step = "close"
  /\ \E i \in DOMAIN Closing :
       LET k == Closing[i] IN
         /\ Upcoming(Closing, i)
         /\ verdicts' = Judged(k, IF k = "exposure_completion_manifest" THEN status ELSE "pass")
         /\ step' = IF i = Len(Closing) THEN "completed" ELSE "close"
  /\ UNCHANGED <<inference, site, atmosphere, extinction, fits>>

-----------------------------------------------------------------------------
Science ==
  \/ StartInference
  \/ Infer
  \/ PublishSolution
  \/ SelectBaseline
  \/ NoExtinction
  \/ UseConfigured
  \/ UseNewest
  \/ ImportModel
  \/ ExtinctionFails
  \/ PublishResponse
  \/ Calibrate
  \/ LocateSource
  \/ FitInterval
  \/ FitChromatic
  \/ ExtractSource
  \/ Close

ExposureInit == Init /\ ScienceInit

ExposureNext ==
  \/ Next /\ UNCHANGED science
  \/ Science /\ UNCHANGED vars

ExposureSpec == ExposureInit /\ [][ExposureNext]_<<vars, science>>

-----------------------------------------------------------------------------
(* Properties                                                              *)

Moved(h) == Cardinality({i \in DOMAIN h : h[i].shift = 1})

\* A refinement that was found is not lost to one that fails: when the loop
\* has ended, the solution has every step of the fits that succeeded, and its
\* astrometry is judged the header's only if no fit ever succeeded
\* (exposure.py:914).
RefinementKept ==
  step \notin {"frame", "infer"} =>
    /\ accepted.pointing = Moved(history)
    /\ \A k \in Astrometric \intersect DOMAIN verdicts :
         verdicts[k] = "pass" <=> \E i \in DOMAIN history : history[i].refined

\* The atmosphere is taken out once and as it was put in: the fibers of a
\* baseline that contains it get no model; of one it was removed from, they
\* get a complete model of the identity it was removed with, by whatever way
\* that was selected, and the published response names it (exposure.py:2325,
\* exposure.py:572).
ExtinctionOnce ==
  step \in {"source", "psf", "chromatic", "extract", "close", "completed"} =>
    /\ recorded = corrected
    /\ IF atmosphere.content = "absorbed_unknown"
         THEN corrected = <<>>
         ELSE /\ corrected # <<>>
              /\ corrected[1].complete /\ corrected[1].identity = atmosphere.required
              /\ corrected[1] \in ToSet(site)
=============================================================================
