------------------------ MODULE PayloadEvictionProofs ------------------------
(***************************************************************************)
(* The safety properties of PayloadEviction for any number of evictors,    *)
(* readers and components, and any bounds on faults; and of QualityReview, *)
(* which runs the evaluations of the Artifact's QA beside it, for any      *)
(* policy files.                                                           *)
(***************************************************************************)
EXTENDS QualityReview, TLAPS

\* The program counters past the evidence gate.
Admitted == {"preflight", "report", "stage", "unlink", "restore"}

\* A snapshot is never behind the table: no state goes back to present.
SeenInv ==
  \A e \in Evictor : \A c \in Component :
    payloadState[c] = "present" => seen[e][c] = "present"

\* Only targets are moved aside, and only an evictor that is at it, or that
\* died, has any.
AsideInv ==
  \A e \in Evictor :
    /\ aside[e] \subseteq Target
    /\ aside[e] # {} => pc[e] \in {"stage", "unlink", "restore", "crashed"}

\* What is about to be deleted is already classified.
UnlinkInv ==
  \A e \in Evictor : pc[e] = "unlink" => \A c \in aside[e] : payloadState[c] # "present"

\* The evidence that admitted an eviction stays complete.
EvidenceInv == reviews = 0 => \A e \in Evictor : pc[e] \in Admitted => evidence = Kind

IInv ==
  /\ TypeOK
  /\ SeenInv
  /\ AsideInv
  /\ UnlinkInv
  /\ EvidenceInv
  /\ OneHolder
  /\ NothingPresentDestroyed
  /\ EvictedTogether
  /\ DestroyedOnlyWithEvidence

-----------------------------------------------------------------------------
LEMMA InitIInv == Init => IInv
<1> SUFFICES ASSUME Init PROVE IInv
  OBVIOUS
<1> USE DEF Init
<1>1. TypeOK
  BY EvictionAssumption DEF TypeOK, States, EvictorPcs, ReaderPcs
<1>2. Destroyed = {}
  BY DEF Destroyed, Somewhere
<1>3. SeenInv /\ AsideInv /\ UnlinkInv /\ EvidenceInv
  BY DEF SeenInv, AsideInv, UnlinkInv, EvidenceInv, Admitted
<1>4. OneHolder /\ NothingPresentDestroyed /\ EvictedTogether /\ DestroyedOnlyWithEvidence
  BY <1>2, EvictionAssumption
     DEF OneHolder, NothingPresentDestroyed, EvictedTogether, DestroyedOnlyWithEvidence
<1> QED
  BY <1>1, <1>3, <1>4 DEF IInv

\* A step that leaves the files alone, and records at most that something is
\* missing or, of all that is still present among the targets, evicted.
LEMMA Reclassified ==
  ASSUME IInv, TypeOK', UNCHANGED <<published, aside, lost>>,
         NEW C \in SUBSET Component, NEW s \in {"missing", "evicted"}, Record(C, s),
         s = "evicted" => \A c \in Target : payloadState[c] = "present" => c \in C
  PROVE  /\ OneHolder' /\ NothingPresentDestroyed' /\ EvictedTogether'
         /\ Destroyed' = Destroyed
         /\ \A c \in Component : payloadState'[c] = "present" => payloadState[c] = "present"
<1>1. \A c \in Component : /\ payloadState'[c] = "present" => payloadState[c] = "present"
                           /\ c \in C => payloadState'[c] = s
                           /\ c \notin C => payloadState'[c] = payloadState[c]
  BY DEF Record
<1>2. Destroyed' = Destroyed
  BY DEF Destroyed, Somewhere
<1>3. OneHolder'
  BY DEF IInv, OneHolder
<1>4. NothingPresentDestroyed'
  BY <1>1, <1>2 DEF IInv, NothingPresentDestroyed, Destroyed
<1>5. EvictedTogether'
  <2> SUFFICES ASSUME NEW c \in Component, payloadState'[c] = "evicted",
                      NEW d \in Target
               PROVE  payloadState'[d] # "present"
    BY DEF EvictedTogether
  <2>1. d \in Component
    BY EvictionAssumption
  <2>2. CASE s = "evicted"
    BY <1>1, <2>1, <2>2
  <2>3. CASE s = "missing"
    <3>1. payloadState[c] = "evicted"
      BY <1>1, <2>3
    <3>2. payloadState[d] # "present"
      BY <3>1 DEF IInv, EvictedTogether
    <3> QED
      BY <1>1, <2>1, <3>2
  <2> QED
    BY <2>2, <2>3
<1> QED
  BY <1>1, <1>2, <1>3, <1>4, <1>5

\* A step that changes neither files nor states.
LEMMA SameStore ==
  ASSUME IInv, UNCHANGED <<payloadState, published, aside, lost>>
  PROVE  /\ OneHolder' /\ NothingPresentDestroyed' /\ EvictedTogether'
         /\ Destroyed' = Destroyed
<1>1. Destroyed' = Destroyed
  BY DEF Destroyed, Somewhere
<1> QED
  BY <1>1 DEF IInv, OneHolder, NothingPresentDestroyed, EvictedTogether

-----------------------------------------------------------------------------
(* Steps of an evictor that move no file                                   *)

\* Where an evictor may go without a file being moved.
LEMMA EvictorGoes ==
  ASSUME IInv, NEW e \in Evictor, NEW l \in EvictorPcs, Goto(e, l), TypeOK',
         UNCHANGED <<published, aside, evidence, lost, reviews>>,
         \A c \in Component : payloadState'[c] = "present" => payloadState[c] = "present",
         SeenInv', OneHolder', NothingPresentDestroyed', EvictedTogether',
         Destroyed' = Destroyed,
         aside[e] # {} => l \in {"stage", "unlink", "restore", "crashed"},
         l = "unlink" => \A c \in aside[e] : payloadState'[c] # "present",
         l \in Admitted => pc[e] \in Admitted \/ evidence = Kind
  PROVE  IInv'
<1>1. pc' = [pc EXCEPT ![e] = l] /\ pc \in [Evictor -> EvictorPcs]
  BY DEF Goto, IInv, TypeOK
<1>2. AsideInv'
  BY <1>1 DEF IInv, AsideInv
<1>3. UnlinkInv'
  <2> SUFFICES ASSUME NEW f \in Evictor, pc'[f] = "unlink", NEW c \in aside[f]
               PROVE  payloadState'[c] # "present"
    BY DEF UnlinkInv
  <2>1. c \in Component
    BY EvictionAssumption DEF IInv, AsideInv
  <2>2. CASE f = e
    BY <1>1, <2>2
  <2>3. CASE f # e
    BY <1>1, <2>1, <2>3 DEF IInv, UnlinkInv
  <2> QED
    BY <2>2, <2>3
<1>4. EvidenceInv'
  BY <1>1 DEF IInv, EvidenceInv
<1>5. DestroyedOnlyWithEvidence'
  BY DEF IInv, DestroyedOnlyWithEvidence
<1> QED
  BY <1>2, <1>3, <1>4, <1>5 DEF IInv

LEMMA ReadIInv == ASSUME IInv, NEW e \in Evictor, ReadComponents(e) PROVE IInv'
<1> DEFINE l == IF \A c \in Target : payloadState[c] = "evicted" THEN "evicted" ELSE "gate"
<1>1. /\ pc[e] = "idle" /\ Goto(e, l)
      /\ seen' = [seen EXCEPT ![e] = payloadState]
      /\ UNCHANGED <<payloadState, published, aside, evidence, absent, readerPc, wanted, gone,
                     lost, crashes, reviews>>
  BY DEF ReadComponents, store, reader, bounds
<1>2. l \in {"evicted", "gate"}
  OBVIOUS
<1> HIDE DEF l
<1>3. TypeOK'
  BY <1>1, <1>2 DEF IInv, TypeOK, Goto, EvictorPcs
<1>4. SeenInv'
  BY <1>1 DEF IInv, SeenInv, TypeOK
<1>5. aside[e] = {}
  BY <1>1 DEF IInv, AsideInv
<1>6. l \in EvictorPcs /\ l \notin Admitted
  BY <1>2 DEF EvictorPcs, Admitted
<1>7. OneHolder' /\ NothingPresentDestroyed' /\ EvictedTogether' /\ Destroyed' = Destroyed
  BY <1>1, SameStore
<1> QED
  BY <1>1, <1>2, <1>3, <1>4, <1>5, <1>6, <1>7, EvictorGoes

LEMMA CheckIInv ==
  ASSUME IInv, NEW e \in Evictor, CheckEvidence(e) \/ CheckFiles(e)
  PROVE  IInv'
<1>1. /\ UNCHANGED <<payloadState, published, aside, evidence, seen, readerPc, wanted, gone,
                     lost, crashes, reviews>>
      /\ absent' \in [Evictor -> SUBSET Component]
      /\ pc[e] \in {"gate", "preflight"}
      /\ \E l \in {"preflight", "refused", "stage", "report"} :
           /\ Goto(e, l)
           /\ l \in Admitted => pc[e] \in Admitted \/ evidence = Kind
  <2>1. CASE CheckEvidence(e)
    BY <2>1 DEF CheckEvidence, EvidenceComplete, store, reader, bounds, IInv, TypeOK, Admitted
  <2>2. CASE CheckFiles(e)
    <3>1. ToMove(e) \ published \in SUBSET Component
      BY EvictionAssumption DEF ToMove
    <3> QED
      BY <2>2, <3>1 DEF CheckFiles, store, reader, bounds, IInv, TypeOK, Admitted
  <2> QED
    BY <2>1, <2>2
<1>2. PICK l \in {"preflight", "refused", "stage", "report"} :
           /\ Goto(e, l)
           /\ l \in Admitted => pc[e] \in Admitted \/ evidence = Kind
  BY <1>1
<1>3. TypeOK'
  BY <1>1, <1>2 DEF IInv, TypeOK, Goto, EvictorPcs
<1>4. SeenInv'
  BY <1>1 DEF IInv, SeenInv
<1>5. aside[e] = {}
  BY <1>1 DEF IInv, AsideInv
<1>6. l \in EvictorPcs
  BY DEF EvictorPcs
<1>7. OneHolder' /\ NothingPresentDestroyed' /\ EvictedTogether' /\ Destroyed' = Destroyed
  BY <1>1, SameStore
<1> QED
  BY <1>1, <1>2, <1>3, <1>4, <1>5, <1>6, <1>7, EvictorGoes

LEMMA ReportIInv == ASSUME IInv, NEW e \in Evictor, ReportAbsent(e) PROVE IInv'
<1>1. /\ pc[e] = "report" /\ Goto(e, "refused") /\ Record(absent[e], "missing")
      /\ UNCHANGED <<published, aside, evidence, seen, absent, readerPc, wanted, gone,
                     lost, crashes, reviews>>
  BY DEF ReportAbsent, reader, bounds
<1>2. absent[e] \in SUBSET Component
  BY DEF IInv, TypeOK
<1>3. TypeOK'
  BY <1>1, <1>2 DEF IInv, TypeOK, Goto, Record, EvictorPcs, States
<1>4. /\ OneHolder' /\ NothingPresentDestroyed' /\ EvictedTogether' /\ Destroyed' = Destroyed
      /\ \A c \in Component : payloadState'[c] = "present" => payloadState[c] = "present"
  BY <1>1, <1>2, <1>3, Reclassified
<1>5. SeenInv'
  BY <1>1, <1>4 DEF IInv, SeenInv
<1>6. aside[e] = {}
  BY <1>1 DEF IInv, AsideInv
<1>7. "refused" \in EvictorPcs /\ "refused" \notin Admitted
  BY DEF EvictorPcs, Admitted
<1> QED
  BY <1>1, <1>3, <1>4, <1>5, <1>6, <1>7, EvictorGoes

\* The states are committed when all that was present is aside; the rest of
\* the targets was not present then and is not now.
LEMMA CommitIInv == ASSUME IInv, NEW e \in Evictor, CommitEvicted(e) PROVE IInv'
<1>1. /\ pc[e] = "stage" /\ AllAside(e) /\ Goto(e, "unlink") /\ Record(aside[e], "evicted")
      /\ UNCHANGED <<published, aside, evidence, seen, absent, readerPc, wanted, gone,
                     lost, crashes, reviews>>
  BY DEF CommitEvicted, reader, bounds
<1>2. aside[e] \in SUBSET Component
  BY DEF IInv, TypeOK
<1>3. \A c \in Target : payloadState[c] = "present" => c \in aside[e]
  BY <1>1, EvictionAssumption DEF AllAside, ToMove, IInv, SeenInv
<1>4. TypeOK'
  BY <1>1, <1>2 DEF IInv, TypeOK, Goto, Record, EvictorPcs, States
<1>5. /\ OneHolder' /\ NothingPresentDestroyed' /\ EvictedTogether' /\ Destroyed' = Destroyed
      /\ \A c \in Component : payloadState'[c] = "present" => payloadState[c] = "present"
  BY <1>1, <1>2, <1>3, <1>4, Reclassified
<1>6. SeenInv'
  BY <1>1, <1>5 DEF IInv, SeenInv
<1>7. \A c \in aside[e] : payloadState'[c] # "present"
  BY <1>1, <1>2 DEF Record
<1>8. "unlink" \in EvictorPcs /\ pc[e] \in Admitted
  BY <1>1 DEF EvictorPcs, Admitted
<1> QED
  BY <1>1, <1>4, <1>5, <1>6, <1>7, <1>8, EvictorGoes

LEMMA LeaveIInv ==
  ASSUME IInv, NEW e \in Evictor, StageFails(e) \/ EndEviction(e) \/ Crash(e)
  PROVE  IInv'
<1>1. /\ UNCHANGED <<payloadState, published, aside, evidence, seen, absent, readerPc, wanted,
                     gone, lost, reviews>>
      /\ crashes' \in 0..MaxCrashes
      /\ \E l \in {"restore", "evicted", "refused", "crashed"} :
           /\ Goto(e, l)
           /\ l = "restore" => pc[e] = "stage"
           /\ aside[e] # {} => l \in {"restore", "crashed"}
  <2>1. CASE StageFails(e)
    BY <2>1 DEF StageFails, store, reader, bounds, IInv, TypeOK
  <2>2. CASE EndEviction(e)
    BY <2>2 DEF EndEviction, store, reader, bounds, IInv, TypeOK
  <2>3. CASE Crash(e)
    BY <2>3, EvictionAssumption DEF Crash, store, reader, bounds, IInv, TypeOK
  <2> QED
    BY <2>1, <2>2, <2>3
<1>2. PICK l \in {"restore", "evicted", "refused", "crashed"} :
           /\ Goto(e, l)
           /\ l = "restore" => pc[e] = "stage"
           /\ aside[e] # {} => l \in {"restore", "crashed"}
  BY <1>1
<1>3. TypeOK'
  BY <1>1, <1>2 DEF IInv, TypeOK, Goto, EvictorPcs
<1>4. SeenInv'
  BY <1>1 DEF IInv, SeenInv
<1>5. /\ l \in EvictorPcs
      /\ l \in Admitted => pc[e] \in Admitted
      /\ l # "unlink"
      /\ aside[e] # {} => l \in {"stage", "unlink", "restore", "crashed"}
  BY <1>2 DEF EvictorPcs, Admitted
<1>6. OneHolder' /\ NothingPresentDestroyed' /\ EvictedTogether' /\ Destroyed' = Destroyed
  BY <1>1, SameStore
<1> QED
  BY <1>1, <1>2, <1>3, <1>4, <1>5, <1>6, EvictorGoes

-----------------------------------------------------------------------------
(* Steps of an evictor that move or delete a file                          *)

LEMMA MoveAsideIInv ==
  ASSUME IInv, NEW e \in Evictor, NEW c \in Component, MoveAside(e, c)
  PROVE  IInv'
<1>1. /\ pc[e] = "stage" /\ c \in published /\ c \in Target
      /\ published' = published \ {c}
      /\ aside' = [aside EXCEPT ![e] = @ \union {c}]
      /\ UNCHANGED <<payloadState, evidence, pc, seen, absent, readerPc, wanted, gone,
                     lost, crashes, reviews>>
  BY DEF MoveAside, ToMove, evictor, reader, bounds
<1>2. aside \in [Evictor -> SUBSET Component]
  BY DEF IInv, TypeOK
<1>3. TypeOK'
  BY <1>1 DEF IInv, TypeOK
<1>4. SeenInv' /\ AsideInv' /\ UnlinkInv' /\ EvidenceInv'
  BY <1>1, <1>2 DEF IInv, SeenInv, AsideInv, UnlinkInv, EvidenceInv
<1>5. OneHolder'
  BY <1>1, <1>2 DEF IInv, OneHolder
<1>6. Destroyed' = Destroyed
  BY <1>1, <1>2 DEF Destroyed, Somewhere
<1>7. NothingPresentDestroyed' /\ EvictedTogether' /\ DestroyedOnlyWithEvidence'
  BY <1>1, <1>6 DEF IInv, NothingPresentDestroyed, EvictedTogether, DestroyedOnlyWithEvidence
<1> QED
  BY <1>3, <1>4, <1>5, <1>7 DEF IInv

LEMMA PutBackIInv ==
  ASSUME IInv, NEW e \in Evictor, NEW c \in Component, PutBack(e, c)
  PROVE  IInv'
<1>1. /\ pc[e] = "restore" /\ c \in aside[e]
      /\ published' = published \union {c}
      /\ aside' = [aside EXCEPT ![e] = @ \ {c}]
      /\ UNCHANGED <<payloadState, evidence, pc, seen, absent, readerPc, wanted, gone,
                     lost, crashes, reviews>>
  BY DEF PutBack, evictor, reader, bounds
<1>2. aside \in [Evictor -> SUBSET Component]
  BY DEF IInv, TypeOK
<1>3. TypeOK'
  BY <1>1 DEF IInv, TypeOK
<1>4. SeenInv' /\ AsideInv' /\ UnlinkInv' /\ EvidenceInv'
  BY <1>1, <1>2 DEF IInv, SeenInv, AsideInv, UnlinkInv, EvidenceInv
<1>5. OneHolder'
  BY <1>1, <1>2 DEF IInv, OneHolder
<1>6. Destroyed' = Destroyed
  BY <1>1, <1>2 DEF Destroyed, Somewhere
<1>7. NothingPresentDestroyed' /\ EvictedTogether' /\ DestroyedOnlyWithEvidence'
  BY <1>1, <1>6 DEF IInv, NothingPresentDestroyed, EvictedTogether, DestroyedOnlyWithEvidence
<1> QED
  BY <1>3, <1>4, <1>5, <1>7 DEF IInv

\* The only step that destroys a payload.
LEMMA UnlinkIInv ==
  ASSUME IInv, NEW e \in Evictor, NEW c \in Component, Unlink(e, c)
  PROVE  IInv'
<1>1. /\ pc[e] = "unlink" /\ c \in aside[e]
      /\ aside' = [aside EXCEPT ![e] = @ \ {c}]
      /\ UNCHANGED <<payloadState, published, evidence, pc, seen, absent, readerPc, wanted,
                     gone, lost, crashes, reviews>>
  BY DEF Unlink, evictor, reader, bounds
<1>2. aside \in [Evictor -> SUBSET Component]
  BY DEF IInv, TypeOK
<1>3. TypeOK'
  BY <1>1 DEF IInv, TypeOK
<1>4. SeenInv' /\ AsideInv' /\ UnlinkInv' /\ EvidenceInv'
  BY <1>1, <1>2 DEF IInv, SeenInv, AsideInv, UnlinkInv, EvidenceInv
<1>5. OneHolder'
  BY <1>1, <1>2 DEF IInv, OneHolder
<1>6. Destroyed' \subseteq Destroyed \union {c}
  BY <1>1, <1>2 DEF Destroyed, Somewhere
<1>7. payloadState[c] # "present" /\ c \in Target
  BY <1>1 DEF IInv, UnlinkInv, AsideInv
<1>8. NothingPresentDestroyed' /\ EvictedTogether'
  BY <1>1, <1>6, <1>7 DEF IInv, NothingPresentDestroyed, EvictedTogether
<1>9. DestroyedOnlyWithEvidence'
  <2>1. reviews = 0 => evidence = Kind
    BY <1>1 DEF IInv, EvidenceInv, Admitted
  <2> QED
    BY <1>1, <1>6, <1>7, <2>1 DEF IInv, DestroyedOnlyWithEvidence
<1> QED
  BY <1>3, <1>4, <1>5, <1>8, <1>9 DEF IInv

-----------------------------------------------------------------------------
(* Readers and the rest of the system                                      *)

LEMMA ReaderIInv == ASSUME IInv, NEW r \in Reader, Read(r) PROVE IInv'
<1>1. ASSUME UNCHANGED <<payloadState, published, aside, evidence, pc, seen, absent, lost,
                         crashes, reviews>>, TypeOK'
      PROVE  IInv'
  <2>1. OneHolder' /\ NothingPresentDestroyed' /\ EvictedTogether' /\ Destroyed' = Destroyed
    BY <1>1, SameStore
  <2> QED
    BY <1>1, <2>1 DEF IInv, SeenInv, AsideInv, UnlinkInv, EvidenceInv, DestroyedOnlyWithEvidence
<1>2. ASSUME NEW C \in SUBSET Component, StartReading(r, C) PROVE IInv'
  <2>1. Overall(C) \in {"present", "missing", "evicted"}
    BY DEF Overall
  <2>2. TypeOK'
    BY <1>2, <2>1 DEF StartReading, ReadGoto, IInv, TypeOK, ReaderPcs, store, evictor, bounds
  <2> QED
    BY <1>1, <1>2, <2>2 DEF StartReading, store, evictor, bounds
<1>3. CASE \E c \in Component : LoadComponent(r, c)
  BY <1>2, <1>3 DEF LoadComponent
<1>4. CASE PayloadStatus(r)
  BY <1>2, <1>4 DEF PayloadStatus
<1>5. CASE LookForFiles(r)
  <2>1. TypeOK'
    BY <1>5 DEF LookForFiles, ReadGoto, IInv, TypeOK, ReaderPcs, store, evictor, bounds
  <2> QED
    BY <1>1, <1>5, <2>1 DEF LookForFiles, store, evictor, bounds
<1>6. CASE ReadFile(r)
  <2>1. TypeOK'
    BY <1>6 DEF ReadFile, ReadGoto, IInv, TypeOK, ReaderPcs, store, evictor, bounds
  <2> QED
    BY <1>1, <1>6, <2>1 DEF ReadFile, store, evictor, bounds
<1>7. CASE ReportGone(r)
  <2>1. /\ Record(gone[r], "missing") /\ ReadGoto(r, "missing")
        /\ UNCHANGED <<published, aside, evidence, pc, seen, absent, wanted, gone, lost,
                       crashes, reviews>>
    BY <1>7 DEF ReportGone, evictor, bounds
  <2>2. gone[r] \in SUBSET Component
    BY DEF IInv, TypeOK
  <2>3. TypeOK'
    BY <2>1, <2>2 DEF IInv, TypeOK, ReadGoto, Record, ReaderPcs, States
  <2>4. /\ OneHolder' /\ NothingPresentDestroyed' /\ EvictedTogether' /\ Destroyed' = Destroyed
        /\ \A c \in Component : payloadState'[c] = "present" => payloadState[c] = "present"
    BY <2>1, <2>2, <2>3, Reclassified
  <2>5. SeenInv' /\ AsideInv' /\ EvidenceInv' /\ DestroyedOnlyWithEvidence'
    BY <2>1, <2>4 DEF IInv, SeenInv, AsideInv, EvidenceInv, DestroyedOnlyWithEvidence
  <2>6. UnlinkInv'
    BY <2>1, <2>4, EvictionAssumption DEF IInv, UnlinkInv, AsideInv
  <2> QED
    BY <2>3, <2>4, <2>5, <2>6 DEF IInv
<1> QED
  BY <1>3, <1>4, <1>5, <1>6, <1>7 DEF Read

LEMMA EvidenceIInv ==
  ASSUME IInv, NEW k \in Kind, Validate(k) \/ FailReview(k)
  PROVE  IInv'
<1>1. /\ UNCHANGED <<payloadState, published, aside, pc, seen, absent, readerPc, wanted, gone,
                     lost, crashes>>
      /\ evidence' \subseteq Kind /\ reviews' \in 0..MaxReviews
      /\ reviews' = 0 => reviews = 0 /\ evidence # Kind
  <2>1. CASE Validate(k)
    BY <2>1 DEF Validate, store, evictor, reader, bounds, IInv, TypeOK
  <2>2. CASE FailReview(k)
    BY <2>2, EvictionAssumption DEF FailReview, store, evictor, reader, IInv, TypeOK
  <2> QED
    BY <2>1, <2>2
<1>2. TypeOK'
  BY <1>1 DEF IInv, TypeOK
<1>3. OneHolder' /\ NothingPresentDestroyed' /\ EvictedTogether' /\ Destroyed' = Destroyed
  BY <1>1, SameStore
<1>4. SeenInv' /\ AsideInv' /\ UnlinkInv'
  BY <1>1 DEF IInv, SeenInv, AsideInv, UnlinkInv
<1>5. EvidenceInv' /\ DestroyedOnlyWithEvidence'
  BY <1>1, <1>3 DEF IInv, EvidenceInv, DestroyedOnlyWithEvidence
<1> QED
  BY <1>2, <1>3, <1>4, <1>5 DEF IInv

\* A lost file is nowhere, but no eviction destroyed it.
LEMMA LoseIInv == ASSUME IInv, NEW c \in Component, LoseFile(c) PROVE IInv'
<1>1. /\ c \in published
      /\ published' = published \ {c} /\ lost' = lost \union {c}
      /\ UNCHANGED <<payloadState, aside, evidence, pc, seen, absent, readerPc, wanted, gone,
                     crashes, reviews>>
  BY DEF LoseFile, evictor, reader
<1>2. TypeOK'
  BY <1>1 DEF IInv, TypeOK
<1>3. SeenInv' /\ AsideInv' /\ UnlinkInv' /\ EvidenceInv' /\ OneHolder'
  BY <1>1 DEF IInv, SeenInv, AsideInv, UnlinkInv, EvidenceInv, OneHolder
<1>4. Destroyed' \subseteq Destroyed
  BY <1>1 DEF Destroyed, Somewhere
<1>5. NothingPresentDestroyed' /\ EvictedTogether' /\ DestroyedOnlyWithEvidence'
  BY <1>1, <1>4 DEF IInv, NothingPresentDestroyed, EvictedTogether, DestroyedOnlyWithEvidence
<1> QED
  BY <1>2, <1>3, <1>5 DEF IInv

LEMMA StutterIInv == IInv /\ UNCHANGED vars => IInv'
<1> SUFFICES ASSUME IInv, UNCHANGED vars PROVE IInv'
  OBVIOUS
<1> USE DEF vars, store, evictor, reader, bounds
<1>1. OneHolder' /\ NothingPresentDestroyed' /\ EvictedTogether' /\ Destroyed' = Destroyed
  BY SameStore
<1>2. TypeOK' /\ SeenInv' /\ AsideInv' /\ UnlinkInv' /\ EvidenceInv' /\ DestroyedOnlyWithEvidence'
  BY <1>1 DEF IInv, TypeOK, SeenInv, AsideInv, UnlinkInv, EvidenceInv, DestroyedOnlyWithEvidence
<1> QED
  BY <1>1, <1>2 DEF IInv

-----------------------------------------------------------------------------
LEMMA NextIInv == IInv /\ [Next]_vars => IInv'
<1> SUFFICES ASSUME IInv, [Next]_vars PROVE IInv'
  OBVIOUS
<1>1. ASSUME NEW e \in Evictor, Evict(e) PROVE IInv'
  BY <1>1, ReadIInv, CheckIInv, ReportIInv, MoveAsideIInv, LeaveIInv, CommitIInv, UnlinkIInv,
     PutBackIInv DEF Evict
<1>2. ASSUME NEW r \in Reader, Read(r) PROVE IInv'
  BY <1>2, ReaderIInv
<1>3. CASE Environment
  BY <1>3, EvidenceIInv, LoseIInv DEF Environment
<1>4. CASE UNCHANGED vars
  BY <1>4, StutterIInv
<1> QED
  BY <1>1, <1>2, <1>3, <1>4 DEF Next

\* The inductive invariant holds in every reachable state of evict_payload,
\* load_component and what goes on around them.
THEOREM Invariance == Spec => []IInv
BY InitIInv, NextIInv, PTL DEF Spec

\* Type correctness of PayloadEviction.
THEOREM TypeCorrect == Spec => []TypeOK
<1>1. IInv => TypeOK
  BY DEF IInv
<1> QED
  BY <1>1, Invariance, PTL

\* No two evictions hold one component, and no rollback overwrites a file.
THEOREM OneHolderCorrect == Spec => []OneHolder
<1>1. IInv => OneHolder
  BY DEF IInv
<1> QED
  BY <1>1, Invariance, PTL

\* No eviction deletes a payload that the registry calls present.
THEOREM NothingPresentDestroyedCorrect == Spec => []NothingPresentDestroyed
<1>1. IInv => NothingPresentDestroyed
  BY DEF IInv
<1> QED
  BY <1>1, Invariance, PTL

\* The targets of an eviction are classified together.
THEOREM EvictedTogetherCorrect == Spec => []EvictedTogether
<1>1. IInv => EvictedTogether
  BY DEF IInv
<1> QED
  BY <1>1, Invariance, PTL

\* Nothing is deleted before its evidence is complete.
THEOREM EvidenceCorrect == Spec => []DestroyedOnlyWithEvidence
<1>1. IInv => DestroyedOnlyWithEvidence
  BY DEF IInv
<1> QED
  BY <1>1, Invariance, PTL

LEMMA LeavesNothing == IInv => NothingLeftAside
<1> SUFFICES ASSUME IInv, AtRest PROVE NothingLeftAside
  BY DEF NothingLeftAside
<1>1. \A e \in Evictor : aside[e] = {}
  BY DEF IInv, AsideInv, AtRest
<1>2. ASSUME NEW c \in Component \ lost, payloadState[c] = "present" PROVE c \in published
  BY <1>1, <1>2 DEF IInv, NothingPresentDestroyed, Destroyed, Somewhere
<1> QED
  BY <1>1, <1>2 DEF NothingLeftAside

\* When all evictions have ended nothing is aside, and what counts as present
\* is at its path or was lost by storage.
THEOREM NothingLeftAsideCorrect == Spec => []NothingLeftAside
BY LeavesNothing, Invariance, PTL

-----------------------------------------------------------------------------
(* QualityReview                                                           *)

\* What the steps of QualityReview do to the payloads: a step of
\* PayloadEviction, or an evaluator that dies.
EvaluatorGone ==
  /\ crashes < MaxCrashes /\ crashes' = crashes + 1
  /\ UNCHANGED <<store, evidence, evictor, reader, lost, reviews>>

LEMMA ReviewedStep ==
  ASSUME [ReviewedNext]_all
  PROVE  [Next]_vars \/ EvaluatorGone
<1>1. CASE Keeping
  BY <1>1 DEF Keeping, Next, Environment
<1>2. ASSUME NEW v \in Reader, Reviewing(v) PROVE [Next]_vars \/ EvaluatorGone
  <2>1. CASE SaveDecision(v)
    <3>1. UNCHANGED <<store, evictor, reader, lost, crashes>>
      BY <2>1 DEF SaveDecision
    <3>2. CASE Own \in evidence' /\ Own \notin evidence
      <4>1. Validate(Own)
        BY <2>1, <3>2, QualityReviewAssumption DEF SaveDecision, Validate, bounds
      <4> QED
        BY <4>1, QualityReviewAssumption DEF Next, Environment
    <3>3. CASE Own \notin evidence' /\ Own \in evidence
      <4>1. FailReview(Own)
        BY <2>1, <3>3, QualityReviewAssumption DEF SaveDecision, FailReview
      <4> QED
        BY <4>1, QualityReviewAssumption DEF Next, Environment
    <3>4. CASE Own \in evidence' <=> Own \in evidence
      <4>1. UNCHANGED <<evidence, reviews>>
        BY <2>1, <3>4 DEF SaveDecision
      <4> QED
        BY <3>1, <4>1 DEF vars, bounds
    <3> QED
      BY <3>2, <3>3, <3>4
  <2>2. CASE EvaluatorDies(v)
    BY <2>2 DEF EvaluatorDies, EvaluatorGone
  <2>3. CASE ~ SaveDecision(v) /\ ~ EvaluatorDies(v)
    BY <1>2, <2>3 DEF Reviewing, LoadEngine, Evaluate, SaveFacts, SaveResults
  <2> QED
    BY <2>1, <2>2, <2>3
<1>3. ASSUME NEW e \in Evictor, ListCandidates(e) PROVE UNCHANGED vars
  BY <1>3 DEF ListCandidates
<1>4. CASE EditPolicy \/ UNCHANGED all
  BY <1>4 DEF EditPolicy, all
<1> QED
  BY <1>1, <1>2, <1>3, <1>4 DEF ReviewedNext

LEMMA ReviewedIInv == IInv /\ [ReviewedNext]_all => IInv'
<1> SUFFICES ASSUME IInv, [ReviewedNext]_all PROVE IInv'
  OBVIOUS
<1>1. CASE [Next]_vars
  BY <1>1, NextIInv
<1>2. CASE EvaluatorGone
  <2>1. TypeOK'
    BY <1>2, EvictionAssumption
       DEF EvaluatorGone, IInv, TypeOK, store, evictor, reader
  <2>2. UNCHANGED <<payloadState, published, aside, evidence, pc, seen, lost, reviews>>
    BY <1>2 DEF EvaluatorGone, store, evictor
  <2> QED
    BY <2>1, <2>2
       DEF IInv, SeenInv, AsideInv, UnlinkInv, EvidenceInv, OneHolder, NothingPresentDestroyed,
           EvictedTogether, DestroyedOnlyWithEvidence, Destroyed, Somewhere, Admitted
<1> QED
  BY <1>1, <1>2, ReviewedStep

\* Evaluations of the QA, which make and break the evidence of an eviction
\* while it runs, leave the payloads' properties as they are.
THEOREM ReviewedSafe ==
  ReviewedSpec => [](/\ NothingPresentDestroyed
                     /\ DestroyedOnlyWithEvidence
                     /\ NothingLeftAside)
<1>1. IInv => NothingPresentDestroyed /\ DestroyedOnlyWithEvidence /\ NothingLeftAside
  BY LeavesNothing DEF IInv
<1>2. ReviewInit => IInv
  BY InitIInv DEF ReviewInit
<1> QED
  BY <1>1, <1>2, ReviewedIInv, PTL DEF ReviewedSpec

-----------------------------------------------------------------------------
(* The stored verdict                                                      *)

Decided(v) == [status |-> Verdict(v), usability |-> Usability(v), by |-> Engine(v).version]

\* An evaluation past its load has the policies its process loaded.
EngineInv ==
  /\ file \in DOMAIN Policies
  /\ engine \in [Reader -> {0} \union DOMAIN Policies]
  /\ reviewPc \in
       [Reader -> {"load", "facts", "decision", "results", "done", "blocked", "died"}]
  /\ given \in [Reader -> Values]
  /\ \A v \in Reader : reviewPc[v] # "load" => engine[v] # 0

\* What an evaluation that nobody wrote into has written is still there.
UncontestedInv ==
  \A v \in Writing \ contested :
    /\ fact = Fact(v)
    /\ reviewPc[v] = "results" => decision = Decided(v)

\* The rows of an evaluation that wrote alone are those of one policy file.
WholeInv ==
  whole => \E i \in DOMAIN Policies :
    /\ decision \in Decisions /\ decision.by = Policies[i].version
    /\ decision.status = Judge(Policies[i], fact)
    /\ decision.usability = "unusable" <=> ShouldBlock(Policies[i], decision.status)
    /\ result = decision.status

VerdictInv == EngineInv /\ UncontestedInv /\ WholeInv

LEMMA InitVerdictInv == ReviewInit => VerdictInv
<1> SUFFICES ASSUME ReviewInit PROVE VerdictInv
  OBVIOUS
<1>1. EngineInv
  BY QualityReviewAssumption DEF ReviewInit, EngineInv, Values
<1>2. Writing = {}
  BY DEF ReviewInit, Writing
<1>3. ~ whole
  BY DEF ReviewInit
<1> QED
  BY <1>1, <1>2, <1>3 DEF VerdictInv, UncontestedInv, WholeInv

\* The file an evaluation past its load judges by.
LEMMA EngineOf ==
  ASSUME EngineInv, NEW v \in Reader, reviewPc[v] # "load"
  PROVE  /\ engine[v] \in DOMAIN Policies
         /\ Engine(v) \in PolicyFile
         /\ Engine(v).version \in STRING
<1>1. engine[v] \in DOMAIN Policies
  BY DEF EngineInv
<1>2. Engine(v) \in PolicyFile
  BY <1>1, QualityReviewAssumption DEF Engine
<1> QED
  BY <1>1, <1>2 DEF PolicyFile

LEMMA JudgeType ==
  ASSUME NEW p, NEW m
  PROVE  Judge(p, m) \in Statuses
BY DEF Judge, Statuses

LEMMA DecidedType ==
  ASSUME EngineInv, NEW v \in Reader, reviewPc[v] # "load"
  PROVE  Decided(v) \in Decisions
<1>1. Engine(v).version \in STRING
  BY EngineOf
<1>2. Verdict(v) \in Statuses
  BY JudgeType DEF Verdict
<1>3. Usability(v) \in {"usable", "degraded", "unusable"}
  BY DEF Usability
<1> QED
  BY <1>1, <1>2, <1>3 DEF Decided, Decisions

\* Judging the fact an evaluation saved gives the verdict it came to: what
\* was not saved made no difference to the verdict.
LEMMA FactDecides ==
  ASSUME EngineInv, NEW v \in Reader, fact = Fact(v)
  PROVE  Judge(Engine(v), fact) = Verdict(v)
<1>1. CASE given[v] # NoFact
  BY <1>1 DEF Fact, Verdict, Judged, Metric
<1>2. CASE given[v] = NoFact /\ PolicyFor(Engine(v)) = "off"
  BY <1>2 DEF Verdict, Judge
<1>3. CASE given[v] = NoFact /\ PolicyFor(Engine(v)) # "off" /\ ~ Engine(v).section
  <2>1. \A m, w : ~ Fired(Engine(v), m, w)
    BY <1>3 DEF Fired, Checks
  <2> QED
    BY <1>3, <2>1 DEF Verdict, Judge
<1>4. CASE given[v] = NoFact /\ PolicyFor(Engine(v)) # "off" /\ Engine(v).section
  BY <1>4 DEF Fact, Verdict
<1> QED
  BY <1>1, <1>2, <1>3, <1>4

\* Saving the facts again changes nothing.
LEMMA FactTwice ==
  ASSUME NEW v \in Reader, UNCHANGED <<engine, given>>, fact' = Fact(v)
  PROVE  fact' = Fact(v)'
BY DEF Fact, Judged, Engine

\* A step that leaves the tables and the evaluations alone.
LEMMA SameReview ==
  ASSUME VerdictInv, EngineInv', UNCHANGED <<bundle, history>>,
         \A v \in Reader : reviewPc[v] # "load" =>
           engine'[v] = engine[v] /\ given'[v] = given[v],
         Writing' \subseteq Writing,
         \A v \in Writing' : reviewPc'[v] = reviewPc[v]
  PROVE  VerdictInv'
<1> USE DEF bundle, history
<1>1. UncontestedInv'
  <2> SUFFICES ASSUME NEW v \in Writing' \ contested
               PROVE  /\ fact = Fact(v)'
                      /\ reviewPc'[v] = "results" => decision = Decided(v)'
    BY DEF UncontestedInv
  <2>1. v \in Writing /\ v \in Reader /\ reviewPc[v] # "load"
    BY DEF Writing
  <2>2. engine'[v] = engine[v] /\ given'[v] = given[v]
    BY <2>1
  <2>3. Fact(v)' = Fact(v) /\ Decided(v)' = Decided(v)
    BY <2>2 DEF Fact, Decided, Judged, Verdict, Usability, Engine
  <2> QED
    BY <2>1, <2>3 DEF VerdictInv, UncontestedInv
<1>2. WholeInv'
  BY DEF VerdictInv, WholeInv
<1> QED
  BY <1>1, <1>2 DEF VerdictInv

LEMMA EngineStep == ASSUME EngineInv, [ReviewedNext]_all PROVE EngineInv'
<1> USE DEF EngineInv
<1>1. CASE UNCHANGED review
  BY <1>1 DEF review, evaluation
<1>2. CASE EditPolicy
  BY <1>2, QualityReviewAssumption DEF EditPolicy
<1>3. ASSUME NEW v \in Reader, Reviewing(v) PROVE EngineInv'
  <2>1. CASE LoadEngine(v)
    BY <1>3, <2>1 DEF LoadEngine
  <2>2. ASSUME NEW g \in Values, Evaluate(v, g) PROVE EngineInv'
    BY <1>3, <2>2 DEF Evaluate
  <2>3. CASE SaveFacts(v) \/ SaveDecision(v) \/ SaveResults(v) \/ EvaluatorDies(v)
    <3>1. UNCHANGED <<file, engine, given>> /\ reviewPc[v] # "load"
      BY <2>3 DEF SaveFacts, SaveDecision, SaveResults, EvaluatorDies
    <3>2. PICK l \in {"decision", "results", "done", "blocked", "died"} :
            reviewPc' = [reviewPc EXCEPT ![v] = l]
      BY <2>3 DEF SaveFacts, SaveDecision, SaveResults, EvaluatorDies
    <3> QED
      BY <3>1, <3>2
  <2> QED
    BY <1>3, <2>1, <2>2, <2>3 DEF Reviewing
<1>4. ASSUME NEW e \in Evictor, ListCandidates(e) PROVE EngineInv'
  BY <1>4 DEF ListCandidates, evaluation
<1> QED
  BY <1>1, <1>2, <1>3, <1>4 DEF ReviewedNext, all

\* A write of v contests the evaluations that are between their writes.
LEMMA WriteContests ==
  ASSUME VerdictInv, EngineInv', NEW v \in Reader, UNCHANGED <<engine, given>>,
         reviewPc[v] \in {"facts", "decision", "results"}, Contest(v),
         \A w \in Reader : w # v => reviewPc'[w] = reviewPc[w],
         v \in Writing' \ contested =>
           /\ fact' = Fact(v)'
           /\ reviewPc'[v] = "results" => decision' = Decided(v)',
         WholeInv'
  PROVE  VerdictInv'
<1>1. UncontestedInv'
  <2> SUFFICES ASSUME NEW w \in Writing' \ contested'
               PROVE  /\ fact' = Fact(w)'
                      /\ reviewPc'[w] = "results" => decision' = Decided(w)'
    BY DEF UncontestedInv
  <2>1. w = v
    BY DEF Writing, Contest
  <2>2. v \notin contested
    BY <2>1 DEF Contest
  <2> QED
    BY <2>1, <2>2
<1> QED
  BY <1>1 DEF VerdictInv

LEMMA SaveFactsStep ==
  ASSUME VerdictInv, EngineInv', NEW v \in Reader, SaveFacts(v)
  PROVE  VerdictInv'
<1>1. /\ UNCHANGED <<engine, given>> /\ fact' = Fact(v) /\ Contest(v) /\ whole' = FALSE
      /\ reviewPc[v] = "facts" /\ reviewPc' = [reviewPc EXCEPT ![v] = "decision"]
  BY DEF SaveFacts
<1>2. fact' = Fact(v)'
  BY <1>1, FactTwice
<1>3. WholeInv'
  BY <1>1 DEF WholeInv
<1>4. reviewPc'[v] = "decision" /\ \A w \in Reader : w # v => reviewPc'[w] = reviewPc[w]
  BY <1>1 DEF VerdictInv, EngineInv
<1> QED
  BY <1>1, <1>2, <1>3, <1>4, WriteContests

LEMMA SaveDecisionStep ==
  ASSUME VerdictInv, EngineInv', NEW v \in Reader, SaveDecision(v)
  PROVE  VerdictInv'
<1>1. /\ UNCHANGED <<engine, given, fact>> /\ decision' = Decided(v) /\ Contest(v)
      /\ whole' = FALSE /\ reviewPc[v] = "decision"
      /\ reviewPc' = [reviewPc EXCEPT ![v] = "results"]
  BY DEF SaveDecision, Decided
<1>2. decision' = Decided(v)' /\ Fact(v)' = Fact(v)
  BY <1>1 DEF Fact, Decided, Judged, Verdict, Usability, Engine
<1>3. WholeInv'
  BY <1>1 DEF WholeInv
<1>4. \A w \in Reader : w # v => reviewPc'[w] = reviewPc[w]
  BY <1>1 DEF VerdictInv, EngineInv
<1>5. v \in Writing
  BY <1>1 DEF Writing
<1>6. v \notin contested => fact' = Fact(v)'
  BY <1>1, <1>2, <1>5 DEF VerdictInv, UncontestedInv
<1> QED
  BY <1>1, <1>2, <1>3, <1>4, <1>6, WriteContests

LEMMA SaveResultsStep ==
  ASSUME VerdictInv, EngineInv', NEW v \in Reader, SaveResults(v)
  PROVE  VerdictInv'
<1>1. /\ UNCHANGED <<engine, given, fact, decision>> /\ result' = Verdict(v) /\ Contest(v)
      /\ whole' = (v \notin contested) /\ reviewPc[v] = "results"
  BY DEF SaveResults
<1>2. PICK l \in {"done", "blocked"} : reviewPc' = [reviewPc EXCEPT ![v] = l]
  BY DEF SaveResults
<1>3. reviewPc'[v] = l /\ \A w \in Reader : w # v => reviewPc'[w] = reviewPc[w]
  BY <1>2 DEF VerdictInv, EngineInv
<1>4. v \notin Writing'
  BY <1>3 DEF Writing
<1>5. WholeInv'
  <2> SUFFICES ASSUME v \notin contested
               PROVE  \E i \in DOMAIN Policies :
                        /\ decision \in Decisions /\ decision.by = Policies[i].version
                        /\ decision.status = Judge(Policies[i], fact)
                        /\ decision.usability = "unusable"
                             <=> ShouldBlock(Policies[i], decision.status)
                        /\ Verdict(v) = decision.status
    BY <1>1, Zenon DEF WholeInv
  <2>1. fact = Fact(v) /\ decision = Decided(v)
    BY <1>1 DEF VerdictInv, UncontestedInv, Writing
  <2>2. engine[v] \in DOMAIN Policies /\ Decided(v) \in Decisions
    BY <1>1, EngineOf, DecidedType DEF VerdictInv
  <2>3. Judge(Engine(v), fact) = Verdict(v)
    BY <2>1, FactDecides DEF VerdictInv
  <2>4. /\ Decided(v).status = Verdict(v) /\ Decided(v).by = Engine(v).version
        /\ Decided(v).usability = Usability(v)
    BY DEF Decided
  <2>5. Usability(v) = "unusable" <=> ShouldBlock(Engine(v), Verdict(v))
    BY DEF Usability
  <2> QED
    BY <2>1, <2>2, <2>3, <2>4, <2>5 DEF Engine
<1> QED
  BY <1>1, <1>3, <1>4, <1>5, WriteContests

LEMMA VerdictStep == VerdictInv /\ [ReviewedNext]_all => VerdictInv'
<1> SUFFICES ASSUME VerdictInv, [ReviewedNext]_all PROVE VerdictInv'
  OBVIOUS
<1> USE EngineStep
<1>1. EngineInv'
  BY DEF VerdictInv
<1>2. CASE UNCHANGED review
  BY <1>1, <1>2, SameReview DEF review, evaluation, Writing
<1>3. CASE EditPolicy
  BY <1>1, <1>3, SameReview DEF EditPolicy, Writing
<1>4. ASSUME NEW e \in Evictor, ListCandidates(e) PROVE VerdictInv'
  BY <1>1, <1>4, SameReview DEF ListCandidates, evaluation, Writing
<1>5. ASSUME NEW v \in Reader, Reviewing(v) PROVE VerdictInv'
  <2>1. CASE LoadEngine(v)
    BY <1>1, <2>1, SameReview DEF LoadEngine, Writing, VerdictInv, EngineInv
  <2>2. ASSUME NEW g \in Values, Evaluate(v, g) PROVE VerdictInv'
    <3>1. /\ UNCHANGED <<bundle, history, engine>> /\ reviewPc[v] = "load"
          /\ given' = [given EXCEPT ![v] = g]
          /\ reviewPc' = [reviewPc EXCEPT ![v] = "facts"]
      BY <2>2 DEF Evaluate
    <3>2. \A w \in Reader : reviewPc[w] # "load" => given'[w] = given[w]
      BY <3>1 DEF VerdictInv, EngineInv
    <3>3. \A w \in Writing' : w \in Writing /\ reviewPc'[w] = reviewPc[w]
      BY <3>1 DEF VerdictInv, EngineInv, Writing
    <3> QED
      BY <1>1, <3>1, <3>2, <3>3, SameReview
  <2>3. CASE EvaluatorDies(v)
    <3>1. /\ UNCHANGED <<bundle, history, engine, given>>
          /\ reviewPc' = [reviewPc EXCEPT ![v] = "died"]
      BY <2>3 DEF EvaluatorDies
    <3>2. \A w \in Writing' : w \in Writing /\ reviewPc'[w] = reviewPc[w]
      BY <3>1 DEF VerdictInv, EngineInv, Writing
    <3> QED
      BY <1>1, <3>1, <3>2, SameReview
  <2> QED
    BY <1>1, <1>5, <2>1, <2>2, <2>3, SaveFactsStep, SaveDecisionStep, SaveResultsStep
       DEF Reviewing
<1> QED
  BY <1>2, <1>3, <1>4, <1>5 DEF ReviewedNext, all

LEMMA VerdictHolds == VerdictInv => VerdictFollowsFacts
<1> SUFFICES ASSUME VerdictInv, whole PROVE VerdictFollowsFacts
  BY DEF VerdictFollowsFacts
<1>1. PICK i \in DOMAIN Policies :
        /\ decision \in Decisions /\ decision.by = Policies[i].version
        /\ decision.status = Judge(Policies[i], fact)
        /\ decision.usability = "unusable" <=> ShouldBlock(Policies[i], decision.status)
        /\ result = decision.status
  BY DEF VerdictInv, WholeInv
<1>2. PolicyOf(decision.by) = i
  BY <1>1, QualityReviewAssumption DEF PolicyOf
<1>3. decision # Unset
  BY <1>1, QualityReviewAssumption
<1>4. ListedStatus = PlannedStatus /\ BundleStatus = PlannedStatus
  BY <1>1, <1>3 DEF ListedStatus, PlannedStatus, BundleStatus
<1>5. (decision.usability = "unusable") = ShouldBlock(Policies[i], decision.status)
  BY <1>1 DEF ShouldBlock
<1> QED
  BY <1>1, <1>2, <1>4, <1>5, Zenon DEF VerdictFollowsFacts

\* Whatever evaluations crash, race or read an edited policy file, the stored
\* verdict of one that wrote alone is what the file of the stored version says
\* of the stored fact, and the three readers of the verdict agree.
THEOREM VerdictFollowsFactsCorrect == ReviewedSpec => []VerdictFollowsFacts
BY InitVerdictInv, VerdictStep, VerdictHolds, PTL DEF ReviewedSpec
=============================================================================
