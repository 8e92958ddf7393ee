--------------------------- MODULE PayloadEviction ---------------------------
(***************************************************************************)
(* The payload files of one Artifact while several callers evict it        *)
(* (evict_payload, from the retention hook of overlapping runs or from     *)
(* cleanup_cache) and others load it or ask for its status.  An eviction   *)
(* moves files aside, commits the component states, then deletes; nothing  *)
(* locks the Artifact, and every state write is unconditional.             *)
(***************************************************************************)
EXTENDS Integers, FiniteSets

CONSTANTS Evictor, Reader,
          Component,     \* payload components of the Artifact
          Target,        \* those its policy allows to evict
          Kind,          \* what its retention rule requires validated: descendant
                         \* kinds and its own QA; {}: a cache kind, without a rule
          MaxLosses,     \* bound on files lost from storage
          MaxCrashes,
          MaxReviews     \* bound on descendants whose later QA fails

ASSUME EvictionAssumption ==
  /\ IsFiniteSet(Component)
  /\ Target \subseteq Component
  /\ Target # {}
  /\ MaxLosses \in Nat
  /\ MaxCrashes \in Nat
  /\ MaxReviews \in Nat

VARIABLES
  payloadState, \* payload_state of each component row
  published,    \* components whose file is at its path
  aside,        \* components moved aside and not deleted, by evictor
  evidence,     \* kinds with a validated, complete descendant
  pc,           \* where each evictor is in evict_payload
  seen,         \* component states its list_components returned
  absent,       \* components whose file it found missing
  readerPc,     \* where each reader is
  wanted,       \* components the reader asks for
  gone,         \* components whose file the reader found missing
  lost,         \* components whose file storage lost
  crashes, reviews

store   == <<payloadState, published, aside>>
evictor == <<pc, seen, absent>>
reader  == <<readerPc, wanted, gone>>
bounds  == <<lost, crashes, reviews>>
vars    == <<store, evidence, evictor, reader, bounds>>

States     == {"present", "evicted", "missing"}
EvictorPcs == {"idle", "gate", "preflight", "report", "stage", "unlink", "restore",
               "evicted", "refused", "crashed"}
ReaderPcs  == {"idle", "check", "report", "read", "loaded", "evicted", "missing", "error"}

TypeOK ==
  /\ payloadState \in [Component -> States]
  /\ published \subseteq Component
  /\ aside \in [Evictor -> SUBSET Component]
  /\ evidence \subseteq Kind
  /\ pc \in [Evictor -> EvictorPcs]
  /\ seen \in [Evictor -> [Component -> States]]
  /\ absent \in [Evictor -> SUBSET Component]
  /\ readerPc \in [Reader -> ReaderPcs]
  /\ wanted \in [Reader -> SUBSET Component]
  /\ gone \in [Reader -> SUBSET Component]
  /\ lost \subseteq Component
  /\ crashes \in 0..MaxCrashes
  /\ reviews \in 0..MaxReviews

Init ==
  /\ payloadState = [c \in Component |-> "present"]
  /\ published = Component
  /\ aside = [e \in Evictor |-> {}]
  /\ evidence = {}
  /\ pc = [e \in Evictor |-> "idle"]
  /\ seen = [e \in Evictor |-> payloadState]
  /\ absent = [e \in Evictor |-> {}]
  /\ readerPc = [r \in Reader |-> "idle"]
  /\ wanted = [r \in Reader |-> {}]
  /\ gone = [r \in Reader |-> {}]
  /\ lost = {}
  /\ crashes = 0
  /\ reviews = 0

-----------------------------------------------------------------------------
(* evict_payload                                                           *)

Goto(e, l) == pc' = [pc EXCEPT ![e] = l]

\* set_artifact_component_payload_states: an UPDATE that looks at no old state.
Record(C, s) == payloadState' = [c \in Component |-> IF c \in C THEN s ELSE payloadState[c]]

\* Components still to be moved; the snapshot decides, not the table.
ToMove(e) == {c \in Target : seen[e][c] = "present"}

ReadComponents(e) ==
  /\ pc[e] = "idle"
  /\ seen' = [seen EXCEPT ![e] = payloadState]
  /\ Goto(e, IF \A c \in Target : payloadState[c] = "evicted" THEN "evicted" ELSE "gate")
  /\ UNCHANGED <<store, evidence, absent, reader, bounds>>

\* Mutant: one validated descendant is enough.
EvidenceCompleteAny == Kind = {} \/ evidence # {}

EvidenceComplete == evidence = Kind

\* _require_validated and _require_eviction_descendants, then the refusal to
\* evict what is recorded as missing.
CheckEvidence(e) ==
  /\ pc[e] = "gate"
  /\ Goto(e, IF EvidenceComplete /\ \A c \in Target : seen[e][c] # "missing"
               THEN "preflight" ELSE "refused")
  /\ UNCHANGED <<store, evidence, seen, absent, reader, bounds>>

CheckFiles(e) ==
  /\ pc[e] = "preflight"
  /\ absent' = [absent EXCEPT ![e] = ToMove(e) \ published]
  /\ Goto(e, IF ToMove(e) \subseteq published THEN "stage" ELSE "report")
  /\ UNCHANGED <<store, evidence, seen, reader, bounds>>

ReportAbsent(e) ==
  /\ pc[e] = "report"
  /\ Record(absent[e], "missing")
  /\ Goto(e, "refused")
  /\ UNCHANGED <<published, aside, evidence, seen, absent, reader, bounds>>

MoveAside(e, c) ==
  /\ pc[e] = "stage"
  /\ c \in (ToMove(e) \ aside[e]) \intersect published
  /\ published' = published \ {c}
  /\ aside' = [aside EXCEPT ![e] = @ \union {c}]
  /\ UNCHANGED <<payloadState, evidence, evictor, reader, bounds>>

AllAside(e) == aside[e] = ToMove(e)

\* Mutant: what was moved is deleted after a failure too.
StageFailsUnlinks(e) ==
  /\ pc[e] = "stage"
  /\ AllAside(e) \/ \E c \in ToMove(e) \ aside[e] : c \notin published
  /\ Goto(e, "unlink")
  /\ UNCHANGED <<store, evidence, seen, absent, reader, bounds>>

\* stat() of a file that is not at its path, or the database refuses the
\* update: everything moved so far goes back.
StageFails(e) ==
  /\ pc[e] = "stage"
  /\ AllAside(e) \/ \E c \in ToMove(e) \ aside[e] : c \notin published
  /\ Goto(e, "restore")
  /\ UNCHANGED <<store, evidence, seen, absent, reader, bounds>>

CommitEvicted(e) ==
  /\ pc[e] = "stage"
  /\ AllAside(e)
  /\ Record(aside[e], "evicted")
  /\ Goto(e, "unlink")
  /\ UNCHANGED <<published, aside, evidence, seen, absent, reader, bounds>>

Unlink(e, c) ==
  /\ pc[e] = "unlink"
  /\ c \in aside[e]
  /\ aside' = [aside EXCEPT ![e] = @ \ {c}]
  /\ UNCHANGED <<payloadState, published, evidence, evictor, reader, bounds>>

PutBack(e, c) ==
  /\ pc[e] = "restore"
  /\ c \in aside[e]
  /\ aside' = [aside EXCEPT ![e] = @ \ {c}]
  /\ published' = published \union {c}
  /\ UNCHANGED <<payloadState, evidence, evictor, reader, bounds>>

\* Mutant: the loop over the moved files stops early.
EndEvictionEarly(e) ==
  /\ pc[e] \in {"unlink", "restore"}
  /\ Goto(e, IF pc[e] = "unlink" THEN "evicted" ELSE "refused")
  /\ UNCHANGED <<store, evidence, seen, absent, reader, bounds>>

EndEviction(e) ==
  /\ pc[e] \in {"unlink", "restore"}
  /\ aside[e] = {}
  /\ Goto(e, IF pc[e] = "unlink" THEN "evicted" ELSE "refused")
  /\ UNCHANGED <<store, evidence, seen, absent, reader, bounds>>

Crash(e) ==
  /\ pc[e] \notin {"idle", "evicted", "refused", "crashed"}
  /\ crashes < MaxCrashes
  /\ crashes' = crashes + 1
  /\ Goto(e, "crashed")
  /\ UNCHANGED <<store, evidence, seen, absent, reader, lost, reviews>>

-----------------------------------------------------------------------------
(* load_component of one component, payload_status of all of them          *)

ReadGoto(r, l) == readerPc' = [readerPc EXCEPT ![r] = l]

\* _component_payload_state of the rows.
Overall(C) == IF \E c \in C : payloadState[c] = "missing" THEN "missing"
              ELSE IF \E c \in C : payloadState[c] = "evicted" THEN "evicted"
              ELSE "present"

StartReading(r, C) ==
  /\ readerPc[r] = "idle"
  /\ wanted' = [wanted EXCEPT ![r] = C]
  /\ ReadGoto(r, IF Overall(C) = "present" THEN "check" ELSE Overall(C))
  /\ UNCHANGED <<store, evidence, evictor, gone, bounds>>

LoadComponent(r, c) == StartReading(r, {c})
PayloadStatus(r)    == StartReading(r, Component)

\* is_file() of each path.
LookForFiles(r) ==
  /\ readerPc[r] = "check"
  /\ gone' = [gone EXCEPT ![r] = wanted[r] \ published]
  /\ ReadGoto(r, IF wanted[r] \subseteq published THEN "read" ELSE "report")
  /\ UNCHANGED <<store, evidence, evictor, wanted, bounds>>

\* _record_missing_component.
ReportGone(r) ==
  /\ readerPc[r] = "report"
  /\ Record(gone[r], "missing")
  /\ ReadGoto(r, "missing")
  /\ UNCHANGED <<published, aside, evidence, evictor, wanted, gone, bounds>>

\* The serializer and the checksum open the path once more.
ReadFile(r) ==
  /\ readerPc[r] = "read"
  /\ ReadGoto(r, IF wanted[r] \subseteq published THEN "loaded" ELSE "error")
  /\ UNCHANGED <<store, evidence, evictor, wanted, gone, bounds>>

-----------------------------------------------------------------------------
(* The rest of the system                                                  *)

\* A descendant of kind k is published and its QA validates it.
Validate(k) ==
  /\ k \in Kind \ evidence
  /\ evidence' = evidence \union {k}
  /\ UNCHANGED <<store, evictor, reader, bounds>>

\* A rerun evaluates the QA of that descendant again, and it fails.
FailReview(k) ==
  /\ k \in evidence
  /\ reviews < MaxReviews
  /\ evidence' = evidence \ {k}
  /\ reviews' = reviews + 1
  /\ UNCHANGED <<store, evictor, reader, lost, crashes>>

LoseFile(c) ==
  /\ c \in published
  /\ Cardinality(lost) < MaxLosses
  /\ published' = published \ {c}
  /\ lost' = lost \union {c}
  /\ UNCHANGED <<payloadState, aside, evidence, evictor, reader, crashes, reviews>>

-----------------------------------------------------------------------------
Evict(e) ==
  \/ ReadComponents(e)
  \/ CheckEvidence(e)
  \/ CheckFiles(e)
  \/ ReportAbsent(e)
  \/ \E c \in Component : MoveAside(e, c)
  \/ StageFails(e)
  \/ CommitEvicted(e)
  \/ \E c \in Component : Unlink(e, c)
  \/ \E c \in Component : PutBack(e, c)
  \/ EndEviction(e)
  \/ Crash(e)

Read(r) ==
  \/ \E c \in Component : LoadComponent(r, c)
  \/ PayloadStatus(r)
  \/ LookForFiles(r)
  \/ ReportGone(r)
  \/ ReadFile(r)

Environment ==
  \/ \E k \in Kind : Validate(k)
  \/ \E k \in Kind : FailReview(k)
  \/ \E c \in Component : LoseFile(c)

Next ==
  \/ \E e \in Evictor : Evict(e)
  \/ \E r \in Reader : Read(r)
  \/ Environment

Spec == Init /\ [][Next]_vars

-----------------------------------------------------------------------------
(* Properties                                                              *)

Somewhere(c) == c \in published \/ \E e \in Evictor : c \in aside[e]
Destroyed    == {c \in Component : ~Somewhere(c)} \ lost
AtRest       == \A e \in Evictor : pc[e] \in {"idle", "evicted", "refused"}

\* A payload is deleted by an eviction only after it was classified: what the
\* registry calls present was never deleted, whichever evictors raced, failed
\* half-way or crashed (service.py:1063-1071).
NothingPresentDestroyed == \A c \in Destroyed : payloadState[c] # "present"

\* Unless QA goes back on a descendant, whatever eviction deleted was allowed
\* to go and its compact evidence is complete.
DestroyedOnlyWithEvidence ==
  Destroyed # {} /\ reviews = 0 => Destroyed \subseteq Target /\ evidence = Kind

\* The targets are classified together: none is evicted while another is
\* still present.
EvictedTogether ==
  (\E c \in Component : payloadState[c] = "evicted") =>
    \A c \in Target : payloadState[c] # "present"

\* When no eviction is running and none crashed, a component that counts as
\* present is at its path unless storage lost it, and no file stays aside.
NothingLeftAside ==
  AtRest => /\ \A e \in Evictor : aside[e] = {}
            /\ \A c \in Component \ lost : payloadState[c] = "present" => c \in published

\* A component is moved aside by one evictor at a time, and never while a
\* file is at its path: a rollback overwrites no other file.
OneHolder ==
  /\ \A e \in Evictor : aside[e] \intersect published = {}
  /\ \A e, f \in Evictor : e # f => aside[e] \intersect aside[f] = {}
=============================================================================
