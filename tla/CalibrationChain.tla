-------------------------- MODULE CalibrationChain ---------------------------
(***************************************************************************)
(* One run of the calibration tasks of one physical CCD, from the dense     *)
(* masters to the exposure-wide fiber response.  The executor dispatches a   *)
(* task when its prerequisites have succeeded; the response is dispatched    *)
(* when the twilight spectra have ended, one way or another, and looks its   *)
(* other inputs up in the registry.  A published product is judged, and its  *)
(* task then evicts the payloads that its lineage proves rebuildable.        *)
(***************************************************************************)
EXTENDS Integers, FiniteSets

CONSTANTS
  Amp,         \* the two amplifiers of the CCD
  Exposure,    \* the scope of the response: no amplifier
  Workers,     \* tasks the executor runs at a time
  MaxFaults    \* tasks that raise of themselves and products that fail QA

ASSUME CalibrationChainAssumption ==
  /\ Exposure \notin Amp
  /\ Workers \in Nat \ {0}
  /\ MaxFaults \in Nat

\* "lamp" is master_hg and master_cd, which are treated alike.
TaskKind == {"lamp", "arc", "ldls", "twilight", "trace", "wavelength",
             "ldlsSpectrum", "twilightSpectrum"}
Response == <<"response", Exposure>>
Task     == (TaskKind \X Amp) \union {Response}

\* Each spectrum task publishes a scattered-light model first.
ScatterOf(t) == <<IF t[1] = "ldlsSpectrum" THEN "ldlsScatter" ELSE "twilightScatter", t[2]>>
Product      == Task \union ({"ldlsScatter", "twilightScatter"} \X Amp)

VARIABLES
  status,    \* of each task
  parents,   \* product -> the products it was published with as parents
  verdict,   \* product -> its QA verdict
  evicted,   \* products whose dense component was evicted as rebuildable
  found,     \* amplifiers the response task found complete: its participants
  lost,      \* tasks that found an input evicted
  faults

vars == <<status, parents, verdict, evicted, found, lost, faults>>

Settled   == {"succeeded", "failed", "blocked"}
Active    == {"loaded", "scattered", "published"}
Published == {p \in Product : verdict[p] # "absent"}

TypeOK ==
  /\ status \in [Task -> {"waiting"} \union Active \union Settled]
  /\ verdict \in [Product -> {"absent", "unjudged", "pass", "fail"}]
  /\ parents \in [Product -> SUBSET Published]
  /\ evicted \subseteq Published
  /\ found \subseteq Amp
  /\ lost \subseteq {t \in Task : status[t] = "failed"}
  /\ faults \in 0..MaxFaults

Init ==
  /\ status = [t \in Task |-> "waiting"]
  /\ parents = [p \in Product |-> {}]
  /\ verdict = [p \in Product |-> "absent"]
  /\ evicted = {} /\ found = {} /\ lost = {}
  /\ faults = 0

-----------------------------------------------------------------------------
(* The plan                                                                *)

\* The parent groups of a target; both amplifiers of a physical CCD for the
\* spectra.  The targets of the response are its twilight spectra only: the
\* other kinds come from other exposures, and are not selected.
Prerequisites(t) ==
  CASE t[1] = "arc"              -> {<<"lamp", t[2]>>}
    [] t[1] = "trace"            -> {<<"ldls", t[2]>>}
    [] t[1] = "wavelength"       -> {<<"arc", t[2]>>, <<"trace", t[2]>>}
    [] t[1] = "ldlsSpectrum"     -> {"ldls", "trace"} \X Amp
    [] t[1] = "twilightSpectrum" -> {"twilight", "trace"} \X Amp
    [] t[1] = "response"         -> {"twilightSpectrum"} \X Amp
    [] OTHER                     -> {}

Succeeded(T) == \A t \in T : status[t] = "succeeded"
Ended(T)     == \A t \in T : status[t] \in Settled

Idle == Cardinality({t \in Task : status[t] \in Active}) < Workers

Block(t) ==
  /\ t # Response
  /\ status[t] = "waiting"
  /\ Ended(Prerequisites(t)) /\ ~Succeeded(Prerequisites(t))
  /\ status' = [status EXCEPT ![t] = "blocked"]
  /\ UNCHANGED <<parents, verdict, evicted, found, lost, faults>>

\* What a task loads; it fails if a payload is gone.  A wavelength map takes
\* an LDLS mask along, which is never evicted.
Load(t) ==
  /\ t # Response
  /\ status[t] = "waiting" /\ Idle
  /\ Succeeded(Prerequisites(t))
  /\ lost' = {u \in {t} : Prerequisites(u) \intersect evicted # {}} \union lost
  /\ status' = [status EXCEPT ![t] = IF t \in lost' THEN "failed" ELSE "loaded"]
  /\ UNCHANGED <<parents, verdict, evicted, found, faults>>

\* The groups the response was planned with, other than the twilights.
PlannedGroups(a) == {<<"ldlsSpectrum", a>>, <<"wavelength", a>>}

\* What the registry has of planned groups at this moment, judged or not.
RowsOf(groups) == groups \intersect Published

\* The twilight spectra of this run that succeeded, and what there is of the others.
Inputs(a) ==
  {t \in {<<"twilightSpectrum", a>>} : status[t] = "succeeded"} \union RowsOf(PlannedGroups(a))

Participants == {a \in Amp : {"twilightSpectrum", "ldlsSpectrum", "wavelength"} \X {a} = Inputs(a)}

LoadResponse ==
  /\ status[Response] = "waiting" /\ Idle
  /\ Ended(Prerequisites(Response))
  /\ found' = Participants
  /\ status' = [status EXCEPT ![Response] = IF Participants = {} THEN "failed" ELSE "loaded"]
  /\ UNCHANGED <<parents, verdict, evicted, lost, faults>>

-----------------------------------------------------------------------------
(* Publication, QA and retention                                           *)

Fault == faults < MaxFaults /\ faults' = faults + 1

\* publish and evaluate_qa of the scattered-light model of a spectrum.
PublishScatter(t) ==
  /\ t[1] \in {"ldlsSpectrum", "twilightSpectrum"}
  /\ status[t] = "loaded"
  /\ parents' = [parents EXCEPT ![ScatterOf(t)] = Prerequisites(t)]
  /\ \/ verdict' = [verdict EXCEPT ![ScatterOf(t)] = "pass"] /\ UNCHANGED faults
     \/ verdict' = [verdict EXCEPT ![ScatterOf(t)] = "fail"] /\ Fault
  /\ status' = [status EXCEPT ![t] = "scattered"]
  /\ UNCHANGED <<evicted, found, lost>>

Parents(t) ==
  CASE t[1] = "wavelength"       -> Prerequisites(t) \union {<<"ldls", t[2]>>}
    [] t[1] = "ldlsSpectrum"     -> {<<"ldls", t[2]>>, <<"trace", t[2]>>, ScatterOf(t)}
    [] t[1] = "twilightSpectrum" -> {<<"twilight", t[2]>>, <<"trace", t[2]>>, ScatterOf(t)}
    [] t[1] = "response"         -> {"twilightSpectrum", "ldlsSpectrum", "wavelength"} \X found
    [] OTHER                     -> Prerequisites(t)

Publish(t) ==
  /\ status[t] = IF t[1] \in {"ldlsSpectrum", "twilightSpectrum"} THEN "scattered" ELSE "loaded"
  /\ parents' = [parents EXCEPT ![t] = Parents(t)]
  /\ verdict' = [verdict EXCEPT ![t] = "unjudged"]
  /\ status' = [status EXCEPT ![t] = "published"]
  /\ UNCHANGED <<evicted, found, lost, faults>>

\* Evictable kind -> the kinds that prove it rebuildable, of which the last
\* triggers its eviction.
Evidence == [lamp     |-> {{"arc"}, {"wavelength"}},
             twilight |-> {{"ldlsScatter", "twilightScatter"}, {"twilightSpectrum"}, {"response"}},
             ldls     |-> {{"trace"}, {"ldlsScatter", "twilightScatter"}, {"ldlsSpectrum"},
                           {"response"}}]
Trigger == [lamp |-> "wavelength", twilight |-> "response", ldls |-> "response"]

\* Mutant: the traversal crosses hardware scopes.
SameScopeAny(p, q) == TRUE

SameScope(p, q) == p[2] = q[2]

\* A generation above X, of what p descends from in its own scope; the longest
\* lineage has five products.
Up(p, X) == X \union {q \in UNION {parents[x] : x \in X} : SameScope(p, q)}

Ancestors(p) == Up(p, Up(p, Up(p, Up(p, {p})))) \ {p}

\* Mutant: the trigger is proof enough.
ProvenByTrigger(m, v) == v[m] = "pass"

\* v: the verdicts with the one just saved.
Proven(m, v) ==
  /\ v[m] = "pass"
  /\ \A K \in Evidence[m[1]] : \E q \in Published :
       q[1] \in K /\ v[q] = "pass" /\ m \in Ancestors(q)

\* Mutant: the hook runs before the verdict is saved.
ReleasedBeforeQA(t, v) ==
  {m \in Ancestors(t) : m[1] \in DOMAIN Trigger /\ Trigger[m[1]] = t[1] /\ Proven(m, verdict)}

\* evict_payloads_triggered_by: candidates without evidence are refused.
Released(t, v) ==
  {m \in Ancestors(t) : m[1] \in DOMAIN Trigger /\ Trigger[m[1]] = t[1] /\ Proven(m, v)}

\* evaluate_qa, and the retention hook after it.
Judge(t) ==
  /\ status[t] = "published"
  /\ \/ verdict' = [verdict EXCEPT ![t] = "pass"] /\ UNCHANGED faults
     \/ verdict' = [verdict EXCEPT ![t] = "fail"] /\ Fault
  /\ evicted' = evicted \union Released(t, verdict')
  /\ status' = [status EXCEPT ![t] = "succeeded"]
  /\ UNCHANGED <<parents, found, lost>>

\* A task raises, before or after it has published.
Fail(t) ==
  /\ status[t] \in Active
  /\ Fault
  /\ status' = [status EXCEPT ![t] = "failed"]
  /\ UNCHANGED <<parents, verdict, evicted, found, lost>>

Next ==
  \/ \E t \in Task :
       \/ Block(t)
       \/ Load(t)
       \/ PublishScatter(t)
       \/ Publish(t)
       \/ Judge(t)
       \/ Fail(t)
  \/ LoadResponse

Spec == Init /\ [][Next]_vars

-----------------------------------------------------------------------------
(* Properties                                                              *)

\* No task finds a payload gone that a task beside it has released: whoever
\* still has to load a master keeps its evidence incomplete or is of another
\* scope (calibs.py:285, retention.py:21).
NothingLost == lost = {}

\* An evicted payload can be rebuilt: it passed QA, and so did a product of
\* each required kind made from it on the same hardware (service.py:1219).
EvictedProven ==
  \A m \in evicted :
    /\ verdict[m] = "pass"
    /\ \A K \in Evidence[m[1]] : \E q \in Product :
         q[1] \in K /\ q[2] = m[2] /\ verdict[q] = "pass" /\ m \in Ancestors(q)

\* The hook that runs once, after the wavelength map is judged, is not too
\* early: lamps whose evidence is complete at the end of the run are gone
\* (calibs.py:281).
LampsReleased ==
  Ended(Task) => \A a \in Amp :
    status[<<"wavelength", a>>] = "succeeded" /\ Proven(<<"lamp", a>>, verdict)
      => <<"lamp", a>> \in evicted

\* The response is made from the spectra and wavelength maps that succeed in
\* the run, all of them and no others: "Selections are frozen by the planner.
\* Build an ID index from only terminal-successful scheduled dependencies"
\* (calibs.py:878).
ResponseFromSucceeded ==
  Ended(Task) /\ status[Response] = "succeeded" =>
    found = {a \in Amp :
               Succeeded({"twilightSpectrum", "ldlsSpectrum", "wavelength"} \X {a})}
=============================================================================
