-------------------------- MODULE PublicationProofs --------------------------
(***************************************************************************)
(* Publication for any number of publishers, revisions and slots and any   *)
(* bounds on crashes and lock errors: its safety invariants, and that it   *)
(* implements RevisionStore.                                               *)
(***************************************************************************)
EXTENDS Publication, TLAPS

\* A call has a revision from its request on.
CallInv == \A p \in Publisher : pc[p] = "idle" <=> revision[p] = NoRevision

\* Only a call that is done was answered.
AnswerInv == \A p \in Publisher : answer[p] # 0 => pc[p] = "done"

\* A publisher in the middle of a registration holds a row of its own that
\* is no record; its provenance is there when the details are written.
HoldInv ==
  \A p \in InFlight :
    /\ shell[p] \in Ids \ records
    /\ artifacts[shell[p]] = revision[p]
    /\ pc[p] = "details" => shell[p] \in provenance
    /\ \A q \in InFlight : q # p => shell[q] # shell[p]

\* A call that used up its tries has failed.
AttemptInv == \A p \in Publisher : attempt[p] < MaxAttempts \/ pc[p] = "failed"

\* Relations are applied to the record of the call's revision.
FoundInv ==
  \A p \in Publisher : pc[p] = "apply" =>
    found[p] \in records /\ artifacts[found[p]] = revision[p]

\* A revision has one record.
UniqueInv == \A i, j \in records : artifacts[i] = artifacts[j] => i = j

\* What a call was answered with is the record of its revision.
AnsweredInv ==
  \A p \in Publisher : answer[p] # 0 =>
    answer[p] \in records /\ artifacts[answer[p]] = revision[p]

IInv ==
  /\ TypeOK
  /\ CallInv
  /\ AnswerInv
  /\ AttemptInv
  /\ HoldInv
  /\ FoundInv
  /\ UniqueInv
  /\ AnsweredInv
  /\ RecordsWhole
  /\ SlotsHonest

InFlightPcs == {"provenance", "details", "undoProvenance", "undoArtifact"}

-----------------------------------------------------------------------------
LEMMA InitIInv == Init => IInv
<1> SUFFICES ASSUME Init PROVE IInv
  OBVIOUS
<1> USE DEF Init
<1>1. TypeOK
  <2>1. artifacts \in Seq(Revision \union {NoRevision}) /\ Len(artifacts) = 0
    OBVIOUS
  <2>2. integrity \in [Publisher -> BOOLEAN] /\ swept \in {"no", "keep", "delete"}
    BY Zenon
  <2> QED
    BY <2>1, <2>2, PublicationAssumption DEF TypeOK, Running, Ids
<1>2. InFlight = {}
  BY DEF InFlight
<1>3. CallInv /\ AnswerInv /\ AttemptInv /\ HoldInv /\ FoundInv /\ UniqueInv /\ AnsweredInv
  BY <1>2, PublicationAssumption
     DEF CallInv, AnswerInv, AttemptInv, HoldInv, FoundInv, UniqueInv, AnsweredInv
<1>4. RecordsWhole /\ SlotsHonest
  BY DEF RecordsWhole, SlotsHonest
<1> QED
  BY <1>1, <1>3, <1>4 DEF IInv

\* A step of p that changes no table and answers nobody.
LEMMA Goes ==
  ASSUME IInv, TypeOK', AttemptInv', NEW p \in Publisher, NEW l, Goto(p, l),
         UNCHANGED <<revision, slot, shell, artifacts, provenance, records, owner, answer>>,
         pc[p] \notin {"idle", "done"}, l \notin {"idle", "done"},
         l \in InFlightPcs => pc[p] \in InFlightPcs,
         l # "details",
         \A q \in Publisher : q # p => found'[q] = found[q],
         l = "apply" => found'[p] \in records /\ artifacts[found'[p]] = revision[p]
  PROVE  IInv'
<1>1. pc' = [pc EXCEPT ![p] = l] /\ DOMAIN pc = Publisher
  BY DEF Goto, IInv, TypeOK
<1>2. pc'[p] = l /\ \A q \in Publisher : q # p => pc'[q] = pc[q]
  BY <1>1
<1>3. CallInv' /\ AnswerInv' /\ AttemptInv' /\ AnsweredInv'
  BY <1>2 DEF IInv, CallInv, AnswerInv, AttemptInv, AnsweredInv
<1>4. InFlight' \subseteq InFlight
  BY <1>2 DEF InFlight, InFlightPcs
<1>5. HoldInv'
  <2> SUFFICES ASSUME NEW q \in InFlight'
               PROVE  /\ shell[q] \in Ids \ records
                      /\ artifacts[shell[q]] = revision[q]
                      /\ pc'[q] = "details" => shell[q] \in provenance
                      /\ \A s \in InFlight' : s # q => shell[s] # shell[q]
    BY DEF HoldInv, Ids
  <2>1. q \in InFlight /\ q \in Publisher
    BY <1>4 DEF InFlight
  <2>2. pc'[q] = "details" => pc[q] = "details"
    BY <1>2, <2>1
  <2> QED
    BY <1>4, <2>1, <2>2 DEF IInv, HoldInv
<1>6. FoundInv'
  BY <1>2 DEF IInv, FoundInv
<1>7. UniqueInv' /\ RecordsWhole' /\ SlotsHonest'
  BY DEF IInv, UniqueInv, RecordsWhole, SlotsHonest, Live, Ids
<1> QED
  BY <1>3, <1>5, <1>6, <1>7 DEF IInv

LEMMA RequestIInv == ASSUME IInv, NEW p \in Publisher, Request(p) PROVE IInv'
<1>1. /\ pc[p] = "idle" /\ Goto(p, "lookup")
      /\ UNCHANGED <<attempt, shell, integrity, found, answer, artifacts, provenance, records,
                     owner, obsolete, files, swept, sweep, purging, crashes, locks>>
  BY DEF Request, shellDb, detailDb, operator, faults
<1>2. PICK r \in Revision : revision' = [revision EXCEPT ![p] = r]
  BY DEF Request
<1>3. PICK s \in Slot \union {NoSlot} : slot' = [slot EXCEPT ![p] = s]
  BY DEF Request
<1>4. pc' = [pc EXCEPT ![p] = "lookup"]
  BY <1>1 DEF Goto
<1>5. TypeOK'
  <2>1. integrity' \in [Publisher -> BOOLEAN] /\ swept' \in {"no", "keep", "delete"}
    BY <1>1, Zenon DEF IInv, TypeOK
  <2> QED
    BY <1>1, <1>2, <1>3, <1>4, <2>1 DEF IInv, TypeOK, Running, Ids
<1> USE DEF IInv, TypeOK
<1>6. answer[p] = 0 /\ r # NoRevision
  BY <1>1, PublicationAssumption DEF AnswerInv
<1>7. CallInv'
  BY <1>2, <1>4, <1>6 DEF CallInv
<1>8. AnswerInv' /\ AnsweredInv'
  BY <1>1, <1>2, <1>4, <1>6 DEF AnswerInv, AnsweredInv
<1>14. AttemptInv'
  BY <1>1, <1>4 DEF AttemptInv
<1>9. InFlight' = InFlight /\ p \notin InFlight
  BY <1>1, <1>4 DEF InFlight
<1>10. HoldInv'
  <2>1. \A q \in InFlight : pc'[q] = pc[q] /\ revision'[q] = revision[q]
    BY <1>2, <1>4, <1>9 DEF InFlight
  <2> QED
    BY <1>1, <1>9, <2>1 DEF HoldInv, Ids
<1>11. FoundInv'
  BY <1>1, <1>2, <1>4 DEF FoundInv
<1>12. UniqueInv' /\ RecordsWhole'
  BY <1>1 DEF UniqueInv, RecordsWhole, Live, Ids
<1>13. SlotsHonest'
  BY <1>1, <1>3, <1>6 DEF SlotsHonest
<1> QED
  BY <1>5, <1>7, <1>8, <1>10, <1>11, <1>12, <1>13, <1>14

\* Steps of a call up to the first row, and its failures.
LEMMA CallIInv ==
  ASSUME IInv, NEW p \in Publisher,
         \/ LookupMiss(p) \/ ApplyLocked(p) \/ WritePayload(p) \/ WriteFails(p) \/ CheckSize(p)
         \/ Refuse(p) \/ SaveLocked(p) \/ DetailsRejected(p) \/ DetailsLocked(p) \/ UndoLocked(p) \/ Crash(p)
  PROVE  IInv'
<1> DEFINE L == {"write", "failed", "size", "artifact", "undoProvenance", "crashed"}
<1>1. /\ UNCHANGED <<revision, slot, shell, artifacts, provenance, records, owner, answer, found,
                     obsolete, swept, sweep, purging>>
      /\ files' \subseteq Revision
      /\ attempt' \in [Publisher -> 0..MaxAttempts]
      /\ integrity' \in [Publisher -> BOOLEAN]
      /\ crashes' \in 0..MaxCrashes /\ locks' \in 0..MaxLocks
      /\ pc[p] \notin {"idle", "done"}
      /\ \A q \in Publisher : q # p => attempt'[q] = attempt[q]
      /\ \E l \in L : /\ Goto(p, l) /\ (l \in InFlightPcs => pc[p] \in InFlightPcs)
                      /\ attempt'[p] < MaxAttempts \/ l = "failed"
  <2> USE DEF call, shellDb, detailDb, operator, faults, InFlightPcs
  <2>0. /\ files \subseteq Revision /\ attempt \in [Publisher -> 0..MaxAttempts]
        /\ integrity \in [Publisher -> BOOLEAN] /\ crashes \in 0..MaxCrashes
        /\ locks \in 0..MaxLocks /\ MaxLocks \in Nat /\ MaxCrashes \in Nat
        /\ MaxAttempts \in Nat \ {0}
    BY PublicationAssumption, Zenon DEF IInv, TypeOK
  <2>00. attempt[p] < MaxAttempts \/ pc[p] = "failed"
    BY DEF IInv, AttemptInv
  <2>1. CASE LookupMiss(p)
    BY <2>0, <2>00, <2>1 DEF LookupMiss
  <2>2. CASE ApplyLocked(p)
    BY <2>0, <2>00, <2>2 DEF ApplyLocked, Lock
  <2>3. CASE WritePayload(p)
    <3>1. revision[p] \in Revision
      BY <2>3 DEF WritePayload, IInv, CallInv, TypeOK
    <3> QED
      BY <2>0, <2>00, <2>3, <3>1 DEF WritePayload, Written
  <2>4. CASE WriteFails(p)
    BY <2>0, <2>00, <2>4 DEF WriteFails
  <2>5. CASE CheckSize(p)
    BY <2>0, <2>00, <2>5 DEF CheckSize
  <2>6. CASE SaveLocked(p)
    <3>1. /\ attempt[p] \in Nat /\ attempt[p] < MaxAttempts
          /\ attempt' = [attempt EXCEPT ![p] = attempt[p] + 1]
          /\ pc[p] \in {"artifact", "provenance"}
      BY <2>0, <2>00, <2>6 DEF SaveLocked
    <3>2. attempt' \in [Publisher -> 0..MaxAttempts] /\ attempt'[p] = attempt[p] + 1
      BY <2>0, <3>1
    <3>3. crashes' = crashes /\ locks' \in 0..MaxLocks
      BY <2>0, <2>6 DEF SaveLocked, Lock
    <3>4. CASE attempt[p] + 1 < MaxAttempts
      BY <2>0, <2>6, <3>1, <3>2, <3>3, <3>4 DEF SaveLocked
    <3>5. CASE ~(attempt[p] + 1 < MaxAttempts)
      BY <2>0, <2>6, <3>1, <3>2, <3>3, <3>5 DEF SaveLocked
    <3> QED
      BY <3>4, <3>5
  <2>7. CASE DetailsRejected(p)
    <3>1. integrity' \in [Publisher -> BOOLEAN]
      BY <2>0, <2>00, <2>7, Zenon DEF DetailsRejected
    <3> QED
      BY <2>0, <2>00, <2>7, <3>1 DEF DetailsRejected
  <2>8. CASE DetailsLocked(p)
    BY <2>0, <2>00, <2>8 DEF DetailsLocked, Lock
  <2>9. CASE UndoLocked(p)
    BY <2>0, <2>00, <2>9 DEF UndoLocked, Lock
  <2>10. CASE Crash(p)
    BY <2>0, <2>00, <2>10 DEF Crash, Running
  <2>11. CASE Refuse(p)
    BY <2>0, <2>00, <2>11 DEF Refuse
  <2> QED
    BY <2>1, <2>2, <2>3, <2>4, <2>5, <2>6, <2>7, <2>8, <2>9, <2>10, <2>11
<1>2. PICK l \in L : /\ Goto(p, l) /\ (l \in InFlightPcs => pc[p] \in InFlightPcs)
                     /\ attempt'[p] < MaxAttempts \/ l = "failed"
  BY <1>1
<1>3. TypeOK'
  <2>1. pc' \in [Publisher -> Running \union {"idle", "done", "failed", "crashed"}]
    BY <1>2 DEF Goto, IInv, TypeOK, Running
  <2>2. swept' \in {"no", "keep", "delete"}
    BY <1>1, Zenon DEF IInv, TypeOK
  <2> QED
    BY <1>1, <2>1, <2>2 DEF IInv, TypeOK, Ids
<1>4. AttemptInv'
  BY <1>1, <1>2 DEF AttemptInv, Goto, IInv, TypeOK
<1> QED
  BY <1>1, <1>2, <1>3, <1>4, Goes

\* Steps that find the record of the revision.
LEMMA FindIInv ==
  ASSUME IInv, NEW p \in Publisher, LookupHit(p) \/ Resolve(p)
  PROVE  IInv'
<1>1. /\ UNCHANGED <<revision, slot, attempt, shell, integrity, artifacts, provenance, records,
                     owner, answer, obsolete, swept, sweep, purging, crashes, locks>>
      /\ files' \subseteq files
      /\ pc[p] \in {"lookup", "resolve"}
      /\ \/ Goto(p, "failed") /\ found' = found
         \/ /\ Goto(p, "apply")
            /\ \E i \in FindByRevision(revision[p]) : found' = [found EXCEPT ![p] = i]
  <2>1. CASE LookupHit(p)
    BY <2>1 DEF LookupHit, call, shellDb, detailDb, operator, faults
  <2>2. CASE Resolve(p)
    BY <2>2 DEF Resolve, call, shellDb, detailDb, operator, faults
  <2> QED
    BY <2>1, <2>2
<1>2. files' \subseteq Revision /\ integrity' \in [Publisher -> BOOLEAN] /\ swept' \in {"no", "keep", "delete"}
  BY <1>1, Zenon DEF IInv, TypeOK
<1>5. ASSUME NEW l, Goto(p, l) PROVE AttemptInv'
  BY <1>1, <1>5 DEF AttemptInv, Goto, IInv, TypeOK
<1>3. CASE Goto(p, "failed") /\ found' = found
  <2>1. TypeOK'
    BY <1>1, <1>2, <1>3 DEF IInv, TypeOK, Ids, Goto, Running
  <2> QED
    BY <1>1, <1>3, <1>5, <2>1, Goes DEF InFlightPcs
<1>4. ASSUME Goto(p, "apply"), NEW i \in FindByRevision(revision[p]),
             found' = [found EXCEPT ![p] = i]
      PROVE  IInv'
  <2>1. i \in records /\ artifacts[i] = revision[p] /\ i \in Ids
    BY DEF FindByRevision, IInv, TypeOK
  <2>2. TypeOK'
    BY <1>1, <1>2, <1>4, <2>1 DEF IInv, TypeOK, Ids, Goto, Running
  <2>3. found'[p] = i /\ \A q \in Publisher : q # p => found'[q] = found[q]
    BY <1>4 DEF IInv, TypeOK
  <2> QED
    BY <1>1, <1>4, <1>5, <2>1, <2>2, <2>3, Goes DEF InFlightPcs
<1> QED
  BY <1>1, <1>3, <1>4

-----------------------------------------------------------------------------
(* Steps that change the tables                                            *)

\* What is known of records outlives a step that keeps their rows and sends
\* nobody to apply relations.
LEMMA RecordsKept ==
  ASSUME IInv, \A i \in records : artifacts'[i] = artifacts[i],
         UNCHANGED <<records, answer, found, revision>>,
         \A q \in Publisher : pc'[q] = "apply" => pc[q] = "apply"
  PROVE  AnsweredInv' /\ FoundInv' /\ UniqueInv'
<1>1. AnsweredInv'
  BY DEF IInv, AnsweredInv
<1>2. FoundInv'
  BY DEF IInv, FoundInv
<1>3. UniqueInv'
  <2> SUFFICES ASSUME NEW i \in records, NEW j \in records, artifacts'[i] = artifacts'[j]
               PROVE  i = j
    BY DEF UniqueInv
  <2> QED
    BY DEF IInv, UniqueInv
<1> QED
  BY <1>1, <1>2, <1>3

LEMMA InsertArtifactIInv == ASSUME IInv, NEW p \in Publisher, InsertArtifact(p) PROVE IInv'
<1> DEFINE n == Len(artifacts) + 1
<1>1. /\ pc[p] = "artifact" /\ Goto(p, "provenance")
      /\ artifacts' = Append(artifacts, revision[p])
      /\ shell' = [shell EXCEPT ![p] = n]
      /\ UNCHANGED <<revision, slot, attempt, integrity, found, answer, provenance, records,
                     owner, obsolete, files, swept, sweep, purging, crashes, locks>>
  BY DEF InsertArtifact, call, detailDb, operator, faults
<1>2. revision[p] \in Revision
  BY <1>1 DEF IInv, TypeOK, CallInv
<1>3. /\ artifacts' \in Seq(Revision \union {NoRevision})
      /\ Ids' = Ids \union {n} /\ n \notin Ids /\ n # 0
      /\ artifacts'[n] = revision[p]
      /\ \A i \in Ids : artifacts'[i] = artifacts[i]
  BY <1>1, <1>2 DEF IInv, TypeOK, Ids
<1>4. /\ pc' = [pc EXCEPT ![p] = "provenance"]
      /\ integrity' \in [Publisher -> BOOLEAN] /\ swept' \in {"no", "keep", "delete"}
  BY <1>1, Zenon DEF Goto, IInv, TypeOK
<1>5. records \subseteq Ids /\ provenance \subseteq Ids
  BY DEF IInv, TypeOK
<1> HIDE DEF n
<1>6. TypeOK'
  <2> USE DEF IInv, TypeOK
  <2>1. shell' \in [Publisher -> Ids' \union {0}]
    BY <1>1, <1>3
  <2>2. pc' \in [Publisher -> Running \union {"idle", "done", "failed", "crashed"}]
    BY <1>4 DEF Running
  <2>3. /\ found' \in [Publisher -> Ids' \union {0}] /\ answer' \in [Publisher -> Ids' \union {0}]
        /\ owner' \in [Slot -> Ids' \union {0}]
    BY <1>1, <1>3
  <2> QED
    BY <1>1, <1>3, <1>4, <2>1, <2>2, <2>3
<1>7. CallInv' /\ AnswerInv' /\ AttemptInv'
  BY <1>1, <1>4 DEF IInv, TypeOK, CallInv, AnswerInv, AttemptInv
<1>8. \A i \in records : i \in Ids /\ artifacts'[i] = artifacts[i]
  BY <1>3, <1>5
<1>9. AnsweredInv' /\ FoundInv' /\ UniqueInv'
  <2>1. \A q \in Publisher : pc'[q] = "apply" => pc[q] = "apply"
    BY <1>4 DEF IInv, TypeOK
  <2> QED
    BY <1>1, <1>8, <2>1, RecordsKept
<1>10. RecordsWhole' /\ SlotsHonest'
  BY <1>1, <1>3, <1>5, <1>8 DEF IInv, RecordsWhole, SlotsHonest, Live
<1>11. InFlight' = InFlight \union {p} /\ p \notin InFlight
  BY <1>1, <1>4 DEF InFlight, IInv, TypeOK
<1>12. HoldInv'
  <2>1. \A q \in InFlight : /\ pc'[q] = pc[q] /\ shell'[q] = shell[q]
                            /\ shell[q] \in Ids \ records
                            /\ artifacts'[shell[q]] = revision[q]
                            /\ pc[q] = "details" => shell[q] \in provenance
                            /\ \A s \in InFlight : s # q => shell[s] # shell[q]
    BY <1>1, <1>3, <1>4, <1>11, ZenonT(60) DEF IInv, TypeOK, HoldInv, InFlight
  <2>2. pc'[p] = "provenance" /\ shell'[p] = n
    BY <1>1, <1>4 DEF IInv, TypeOK
  <2>3. n \notin records
    BY <1>3, <1>5
  <2>4. ASSUME NEW q \in InFlight'
        PROVE  /\ shell'[q] \in Ids' \ records'
               /\ artifacts'[shell'[q]] = revision'[q]
               /\ pc'[q] = "details" => shell'[q] \in provenance'
               /\ \A s \in InFlight' : s # q => shell'[s] # shell'[q]
    <3>1. \A s \in InFlight' : s = p \/ (s \in InFlight /\ shell'[s] = shell[s] /\ shell'[s] # n)
      BY <1>3, <1>11, <2>1
    <3>2. \A s \in InFlight' : s # q => shell'[s] # shell'[q]
      BY <1>11, <2>1, <2>2, <3>1
    <3>3. UNCHANGED <<records, revision, provenance>>
      BY <1>1
    <3>4. shell'[q] \in Ids' \ records' /\ artifacts'[shell'[q]] = revision'[q]
      BY <1>3, <2>1, <2>2, <2>3, <3>1, <3>3
    <3>5. pc'[q] = "details" => shell'[q] \in provenance'
      BY <2>1, <2>2, <3>1, <3>3
    <3> QED
      BY <3>2, <3>4, <3>5
  <2> QED
    BY <2>4 DEF HoldInv
<1> QED
  BY <1>6, <1>7, <1>9, <1>10, <1>12 DEF IInv

LEMMA InsertProvenanceIInv ==
  ASSUME IInv, NEW p \in Publisher, InsertProvenance(p)
  PROVE  IInv'
<1>1. /\ pc[p] = "provenance" /\ Goto(p, "details")
      /\ provenance' = provenance \union {shell[p]}
      /\ UNCHANGED <<revision, slot, attempt, shell, integrity, found, answer, artifacts, records,
                     owner, obsolete, files, swept, sweep, purging, crashes, locks>>
  BY DEF InsertProvenance, call, detailDb, operator, faults
<1>2. /\ pc' = [pc EXCEPT ![p] = "details"] /\ Ids' = Ids
      /\ integrity' \in [Publisher -> BOOLEAN] /\ swept' \in {"no", "keep", "delete"}
  BY <1>1, Zenon DEF Goto, IInv, TypeOK, Ids
<1>3. InFlight' = InFlight /\ p \in InFlight
  BY <1>1, <1>2 DEF InFlight, IInv, TypeOK
<1>4. shell[p] \in Ids
  BY <1>3 DEF IInv, HoldInv
<1>5. TypeOK'
  BY <1>1, <1>2, <1>4 DEF IInv, TypeOK, Running
<1>6. CallInv' /\ AnswerInv' /\ AttemptInv' /\ AnsweredInv' /\ FoundInv' /\ UniqueInv'
  BY <1>1, <1>2 DEF IInv, TypeOK, CallInv, AnswerInv, AttemptInv, AnsweredInv, FoundInv, UniqueInv
<1>7. RecordsWhole' /\ SlotsHonest'
  BY <1>1, <1>2 DEF IInv, RecordsWhole, SlotsHonest, Live
<1>8. HoldInv'
  <2>1. \A q \in InFlight : q # p => pc'[q] = pc[q]
    BY <1>2 DEF InFlight, IInv, TypeOK
  <2> QED
    BY <1>1, <1>2, <1>3, <2>1 DEF IInv, HoldInv
<1> QED
  BY <1>5, <1>6, <1>7, <1>8 DEF IInv

\* p is answered with i: a new record, or one it found.
LEMMA Decides ==
  ASSUME IInv, NEW p \in Publisher, pc[p] \in {"details", "apply"},
         NEW i \in Ids, i # 0, artifacts[i] = revision[p],
         records' = records \union {i}, i \in Live \intersect provenance,
         i \in records \/ RevisionFree(revision[p]),
         \A q \in InFlight : q # p => shell[q] # i,
         MayRealize(i, slot[p]), Realize(i, slot[p]),
         answer' = [answer EXCEPT ![p] = i], Goto(p, "done"),
         UNCHANGED <<revision, slot, attempt, shell, integrity, found, artifacts, provenance,
                     obsolete, files, swept, sweep, purging, crashes, locks>>
  PROVE  IInv'
<1>1. /\ pc' = [pc EXCEPT ![p] = "done"] /\ Ids' = Ids
      /\ integrity' \in [Publisher -> BOOLEAN] /\ swept' \in {"no", "keep", "delete"}
  BY Zenon DEF Goto, IInv, TypeOK, Ids
<1>2. owner' = [t \in Slot |-> IF t = slot[p] THEN i ELSE owner[t]]
  BY DEF Realize
<1>3. TypeOK'
  <2>1. owner' \in [Slot -> Ids \union {0}]
    BY <1>2 DEF IInv, TypeOK
  <2>2. answer' \in [Publisher -> Ids \union {0}]
    BY DEF IInv, TypeOK
  <2>3. pc' \in [Publisher -> Running \union {"idle", "done", "failed", "crashed"}]
    BY <1>1 DEF IInv, TypeOK, Running
  <2> QED
    BY <1>1, <2>1, <2>2, <2>3 DEF IInv, TypeOK
<1>4. CallInv' /\ AnswerInv' /\ AttemptInv' /\ AnsweredInv'
  BY <1>1 DEF IInv, TypeOK, CallInv, AnswerInv, AttemptInv, AnsweredInv
<1>5. FoundInv'
  BY <1>1 DEF IInv, TypeOK, FoundInv
<1>6. UniqueInv'
  BY DEF IInv, UniqueInv, RevisionFree, FindByRevision
<1>7. RecordsWhole'
  BY <1>1 DEF IInv, RecordsWhole, Live
<1>8. SlotsHonest'
  <2>1. ASSUME NEW q \in Publisher, answer'[q] # 0, slot[q] # NoSlot
        PROVE  owner'[slot[q]] = answer'[q]
    <3>1. slot[q] \in Slot
      BY <2>1 DEF IInv, TypeOK
    <3>2. CASE q = p
      BY <1>2, <3>1, <3>2 DEF IInv, TypeOK
    <3>3. CASE q # p
      <4>1. answer'[q] = answer[q] /\ owner[slot[q]] = answer[q] /\ answer[q] # 0
        BY <2>1, <3>3 DEF IInv, TypeOK, SlotsHonest
      <4>2. slot[q] = slot[p] => owner[slot[q]] = i
        BY <2>1, <4>1 DEF MayRealize
      <4> QED
        BY <1>2, <3>1, <4>1, <4>2
    <3> QED
      BY <3>2, <3>3
  <2>2. \A s \in Slot : owner'[s] # 0 => owner'[s] \in records'
    BY <1>2 DEF IInv, SlotsHonest
  <2>3. ASSUME NEW s \in Slot, NEW t \in Slot, owner'[s] = owner'[t], owner'[s] # 0
        PROVE  s = t
    <3>1. \A u \in Slot : slot[p] \in Slot /\ u # slot[p] => owner[u] # i
      BY PublicationAssumption DEF MayRealize
    <3> QED
      BY <1>2, <2>3, <3>1 DEF IInv, SlotsHonest
  <2> QED
    BY <2>1, <2>2, <2>3 DEF SlotsHonest
<1>9. HoldInv'
  <2>1. InFlight' = InFlight \ {p}
    BY <1>1 DEF InFlight, IInv, TypeOK
  <2>2. \A q \in InFlight' : q \in InFlight /\ pc'[q] = pc[q] /\ shell[q] # i
    BY <1>1, <2>1 DEF InFlight, IInv, TypeOK
  <2> QED
    BY <1>1, <2>1, <2>2 DEF IInv, HoldInv
<1> QED
  BY <1>3, <1>4, <1>5, <1>6, <1>7, <1>8, <1>9 DEF IInv

LEMMA CommitIInv == ASSUME IInv, NEW p \in Publisher, CommitDetails(p) PROVE IInv'
<1>1. p \in InFlight
  BY DEF CommitDetails, InFlight
<1>2. /\ shell[p] \in Ids \ records /\ artifacts[shell[p]] = revision[p]
      /\ shell[p] \in provenance /\ \A q \in InFlight : q # p => shell[q] # shell[p]
  BY <1>1 DEF CommitDetails, IInv, HoldInv
<1>3. revision[p] # NoRevision
  BY DEF CommitDetails, IInv, CallInv
<1>4. shell[p] \in Live /\ shell[p] # 0
  BY <1>2, <1>3 DEF Live, Ids
<1> QED
  BY <1>2, <1>4, Decides DEF CommitDetails, call, shellDb, operator, faults

LEMMA ApplyIInv == ASSUME IInv, NEW p \in Publisher, ApplyRelations(p) PROVE IInv'
<1>1. /\ pc[p] = "apply"
      /\ UNCHANGED <<revision, slot, attempt, shell, integrity, found, artifacts, provenance,
                     records, obsolete, files, swept, sweep, purging, crashes, locks>>
  BY DEF ApplyRelations, call, shellDb, operator, faults
<1>2. CASE MayRealize(found[p], slot[p])
  <2>1. found[p] \in records /\ artifacts[found[p]] = revision[p]
    BY <1>1 DEF IInv, FoundInv
  <2>2. found[p] \in Ids /\ found[p] # 0 /\ found[p] \in Live \intersect provenance
    BY <2>1 DEF IInv, TypeOK, Ids, RecordsWhole
  <2>3. \A q \in InFlight : shell[q] # found[p]
    BY <2>1 DEF IInv, HoldInv
  <2>4. records' = records \union {found[p]}
    BY <1>1, <2>1
  <2> QED
    BY <1>1, <1>2, <2>1, <2>2, <2>3, <2>4, Decides DEF ApplyRelations
<1>3. CASE ~MayRealize(found[p], slot[p])
  <2>1. Goto(p, "failed") /\ UNCHANGED <<owner, answer>>
    BY <1>3 DEF ApplyRelations
  <2>2. integrity' \in [Publisher -> BOOLEAN] /\ swept' \in {"no", "keep", "delete"}
    BY <1>1, Zenon DEF IInv, TypeOK
  <2>3. TypeOK'
    BY <1>1, <2>1, <2>2 DEF IInv, TypeOK, Ids, Goto, Running
  <2>4. AttemptInv'
    BY <1>1, <2>1 DEF AttemptInv, Goto, IInv, TypeOK
  <2> QED
    BY <1>1, <2>1, <2>3, <2>4, Goes DEF InFlightPcs
<1> QED
  BY <1>2, <1>3

LEMMA DeleteProvenanceIInv ==
  ASSUME IInv, NEW p \in Publisher, DeleteProvenance(p)
  PROVE  IInv'
<1>1. /\ pc[p] = "undoProvenance" /\ Goto(p, "undoArtifact")
      /\ provenance' = provenance \ {shell[p]}
      /\ UNCHANGED <<revision, slot, attempt, shell, integrity, found, answer, artifacts, records,
                     owner, obsolete, files, swept, sweep, purging, crashes, locks>>
  BY DEF DeleteProvenance, RolledBack, call, detailDb, operator, faults
<1>2. /\ pc' = [pc EXCEPT ![p] = "undoArtifact"] /\ Ids' = Ids
      /\ integrity' \in [Publisher -> BOOLEAN] /\ swept' \in {"no", "keep", "delete"}
  BY <1>1, Zenon DEF Goto, IInv, TypeOK, Ids
<1>3. InFlight' = InFlight /\ p \in InFlight
  BY <1>1, <1>2 DEF InFlight, IInv, TypeOK
<1>4. TypeOK'
  BY <1>1, <1>2 DEF IInv, TypeOK, Running
<1>5. CallInv' /\ AnswerInv' /\ AttemptInv' /\ AnsweredInv' /\ FoundInv' /\ UniqueInv' /\ SlotsHonest'
  BY <1>1, <1>2 DEF IInv, TypeOK, CallInv, AnswerInv, AttemptInv, AnsweredInv, FoundInv, UniqueInv, SlotsHonest
<1>6. RecordsWhole'
  <2>1. shell[p] \notin records
    BY <1>3 DEF IInv, HoldInv
  <2> QED
    BY <1>1, <1>2, <2>1 DEF IInv, RecordsWhole, Live
<1>7. HoldInv'
  <2>1. pc'[p] # "details" /\ \A q \in InFlight : q # p => pc'[q] = pc[q]
    BY <1>2 DEF InFlight, IInv, TypeOK
  <2> QED
    BY <1>1, <1>2, <1>3, <2>1 DEF IInv, HoldInv
<1> QED
  BY <1>4, <1>5, <1>6, <1>7 DEF IInv

LEMMA DeleteArtifactIInv ==
  ASSUME IInv, NEW p \in Publisher, DeleteArtifact(p)
  PROVE  IInv'
<1> DEFINE l == IF integrity[p] THEN "resolve" ELSE "failed"
<1>1. /\ pc[p] = "undoArtifact" /\ Goto(p, l)
      /\ artifacts' = [i \in Ids |-> IF i \in {shell[p]} THEN NoRevision ELSE artifacts[i]]
      /\ UNCHANGED <<revision, slot, attempt, shell, integrity, found, answer, provenance, records,
                     owner, obsolete, files, swept, sweep, purging, crashes, locks>>
  BY DEF DeleteArtifact, RolledBack, call, detailDb, operator, faults
<1>2. l \in {"resolve", "failed"}
  OBVIOUS
<1> HIDE DEF l
<1>3. /\ artifacts' \in Seq(Revision \union {NoRevision}) /\ Ids' = Ids
      /\ \A i \in Ids : i # shell[p] => artifacts'[i] = artifacts[i]
  BY <1>1 DEF IInv, TypeOK, Ids
<1>4. /\ pc' = [pc EXCEPT ![p] = l]
      /\ integrity' \in [Publisher -> BOOLEAN] /\ swept' \in {"no", "keep", "delete"}
  BY <1>1, Zenon DEF Goto, IInv, TypeOK
<1>5. InFlight' = InFlight \ {p} /\ p \in InFlight
  BY <1>1, <1>2, <1>4 DEF InFlight, IInv, TypeOK
<1>6. shell[p] \notin records /\ records \subseteq Ids
  BY <1>5 DEF IInv, HoldInv, TypeOK
<1>7. TypeOK'
  BY <1>1, <1>2, <1>3, <1>4 DEF IInv, TypeOK, Running
<1>8. CallInv' /\ AnswerInv' /\ AttemptInv' /\ SlotsHonest'
  BY <1>1, <1>2, <1>4 DEF IInv, TypeOK, CallInv, AnswerInv, AttemptInv, SlotsHonest
<1>9. \A i \in records : artifacts'[i] = artifacts[i]
  BY <1>3, <1>6
<1>10. AnsweredInv' /\ FoundInv' /\ UniqueInv'
  <2>1. \A q \in Publisher : pc'[q] = "apply" => pc[q] = "apply"
    BY <1>2, <1>4 DEF IInv, TypeOK
  <2> QED
    BY <1>1, <1>9, <2>1, RecordsKept
<1>11. RecordsWhole'
  BY <1>1, <1>3, <1>6, <1>9 DEF IInv, RecordsWhole, Live
<1>12. HoldInv'
  <2>1. \A q \in InFlight' : /\ q \in InFlight /\ q # p /\ pc'[q] = pc[q]
                             /\ shell[q] \in Ids /\ shell[q] # shell[p]
    BY <1>4, <1>5 DEF InFlight, IInv, TypeOK, HoldInv
  <2> QED
    BY <1>1, <1>3, <1>5, <2>1 DEF IInv, HoldInv
<1> QED
  BY <1>7, <1>8, <1>10, <1>11, <1>12 DEF IInv

\* invalidate_kinds makes records obsolete and removes files.
LEMMA InvalidateIInv == IInv /\ Invalidate => IInv'
<1> SUFFICES ASSUME IInv, Invalidate PROVE IInv'
  OBVIOUS
<1>1. /\ UNCHANGED <<pc, revision, slot, attempt, shell, integrity, found, answer, artifacts,
                     provenance, records, owner, crashes, locks>>
      /\ obsolete' \subseteq records /\ files' \subseteq Revision
      /\ swept' \in {"no", "keep", "delete"} /\ sweep' \subseteq Ids /\ purging' \in Ids \union {0}
  <2> USE DEF call, shellDb, detailDb, operator, faults
  <2>0. /\ obsolete \subseteq records /\ files \subseteq Revision /\ swept \in {"no", "keep", "delete"}
        /\ sweep \subseteq Ids /\ purging \in Ids \union {0}
    BY Zenon DEF IInv, TypeOK
  <2>1. CASE ListRows
    <3>1. sweep' \subseteq Ids
      BY <2>1 DEF ListRows, CountsAsActive, Live
    <3>2. swept' \in {"no", "keep", "delete"}
      BY <2>1, Zenon DEF ListRows
    <3> QED
      BY <2>0, <2>1, <3>1, <3>2 DEF ListRows
  <2>2. CASE \E i \in sweep : InvalidateRow(i)
    BY <2>0, <2>2 DEF InvalidateRow, SetObsolete
  <2>3. CASE PurgePayload
    BY <2>0, <2>3 DEF PurgePayload
  <2> QED
    BY <2>1, <2>2, <2>3 DEF Invalidate
<1>2. integrity' \in [Publisher -> BOOLEAN]
  BY <1>1, Zenon DEF IInv, TypeOK
<1>3. TypeOK'
  BY <1>1, <1>2 DEF IInv, TypeOK, Ids
<1>4. CallInv' /\ AnswerInv' /\ AttemptInv' /\ AnsweredInv' /\ FoundInv' /\ UniqueInv'
  BY <1>1 DEF IInv, CallInv, AnswerInv, AttemptInv, AnsweredInv, FoundInv, UniqueInv
<1>5. HoldInv' /\ RecordsWhole' /\ SlotsHonest'
  BY <1>1 DEF IInv, HoldInv, InFlight, RecordsWhole, SlotsHonest, Live, Ids
<1> QED
  BY <1>3, <1>4, <1>5 DEF IInv

LEMMA StutterIInv == IInv /\ UNCHANGED vars => IInv'
<1> SUFFICES ASSUME IInv, UNCHANGED vars PROVE IInv'
  OBVIOUS
<1> USE DEF vars, call, shellDb, detailDb, operator, faults
<1>1. integrity' \in [Publisher -> BOOLEAN] /\ swept' \in {"no", "keep", "delete"}
  BY Zenon DEF IInv, TypeOK
<1>2. TypeOK'
  BY <1>1 DEF IInv, TypeOK, Ids
<1>3. CallInv' /\ AnswerInv' /\ AttemptInv' /\ AnsweredInv' /\ FoundInv' /\ UniqueInv'
  BY DEF IInv, CallInv, AnswerInv, AttemptInv, AnsweredInv, FoundInv, UniqueInv
<1>4. HoldInv' /\ RecordsWhole' /\ SlotsHonest'
  BY DEF IInv, HoldInv, InFlight, RecordsWhole, SlotsHonest, Live, Ids
<1> QED
  BY <1>2, <1>3, <1>4 DEF IInv

LEMMA NextIInv == IInv /\ [Next]_vars => IInv'
<1> SUFFICES ASSUME IInv, [Next]_vars PROVE IInv'
  OBVIOUS
<1>1. ASSUME NEW p \in Publisher, Publish(p) PROVE IInv'
  BY <1>1, RequestIInv, CallIInv, FindIInv, ApplyIInv, InsertArtifactIInv, InsertProvenanceIInv,
     CommitIInv, DeleteProvenanceIInv, DeleteArtifactIInv DEF Publish
<1>2. CASE UNCHANGED vars
  BY <1>2, StutterIInv
<1> QED
  BY <1>1, <1>2, InvalidateIInv DEF Next

\* The inductive invariant holds in every reachable state of persist_request,
\* its registration, its rollback and invalidate_kinds.
THEOREM Invariance == Spec => []IInv
BY InitIInv, NextIInv, PTL DEF Spec

\* Type correctness of Publication.
THEOREM TypeCorrect == Spec => []TypeOK
<1>1. IInv => TypeOK
  BY DEF IInv
<1> QED
  BY <1>1, Invariance, PTL

\* No rollback deletes a row of a committed record.
THEOREM RecordsWholeCorrect == Spec => []RecordsWhole
<1>1. IInv => RecordsWhole
  BY DEF IInv
<1> QED
  BY <1>1, Invariance, PTL

\* All callers of a revision are answered with its one record.
THEOREM AnswersAgreeCorrect == Spec => []AnswersAgree
<1>1. IInv => AnswersAgree
  BY DEF IInv, AnsweredInv, UniqueInv, AnswersAgree
<1> QED
  BY <1>1, Invariance, PTL

\* A measurement-group slot is realized once, by a record, as answered.
THEOREM SlotsHonestCorrect == Spec => []SlotsHonest
<1>1. IInv => SlotsHonest
  BY DEF IInv
<1> QED
  BY <1>1, Invariance, PTL

-----------------------------------------------------------------------------
(* The refinement                                                          *)

\* The record of a revision is what the abstract registry has for it.
LEMMA RegistryOfRecord ==
  ASSUME IInv, NEW i \in records, artifacts[i] \in Revision
  PROVE  registryOf[artifacts[i]] = i
<1>1. FindByRevision(artifacts[i]) = {i}
  BY DEF FindByRevision, IInv, UniqueInv
<1>2. (CHOOSE k \in {i} : TRUE) = i
  OBVIOUS
<1> QED
  BY <1>1, <1>2 DEF registryOf

LEMMA RegistryOfOthers ==
  ASSUME IInv, NEW r \in Revision, registryOf[r] # 0
  PROVE  registryOf[r] \in records /\ artifacts[registryOf[r]] = r
<1>1. FindByRevision(r) # {} /\ registryOf[r] = CHOOSE i \in FindByRevision(r) : TRUE
  BY DEF registryOf
<1>2. registryOf[r] \in FindByRevision(r)
  BY <1>1
<1> QED
  BY <1>2 DEF FindByRevision

\* A step that keeps the records, their rows and what callers see.
LEMMA StoreStutters ==
  ASSUME IInv, UNCHANGED <<revision, slot, records, owner, answer>>,
         \A i \in records : artifacts'[i] = artifacts[i]
  PROVE  UNCHANGED Abstract!storeVars
<1>1. \A r : FindByRevision(r)' = FindByRevision(r)
  BY DEF FindByRevision
<1>2. ASSUME NEW r \in Revision PROVE registryOf'[r] = registryOf[r]
  <2>1. CASE FindByRevision(r) = {}
    BY <1>1, <2>1 DEF registryOf
  <2>2. CASE FindByRevision(r) # {}
    <3>1. registryOf[r] = CHOOSE i \in FindByRevision(r) : TRUE
      BY <2>2 DEF registryOf
    <3>2. registryOf'[r] = CHOOSE i \in FindByRevision(r)' : TRUE
      BY <1>1, <2>2 DEF registryOf
    <3>3. registryOf[r] \in FindByRevision(r) /\ registryOf'[r] \in FindByRevision(r)'
      BY <1>1, <2>2, <3>1, <3>2
    <3>4. \A i, j \in FindByRevision(r) : i = j
      BY DEF FindByRevision, IInv, UniqueInv
    <3> QED
      BY <1>1, <3>3, <3>4
  <2> QED
    BY <2>1, <2>2
<1>3. registryOf' = registryOf
  BY <1>2 DEF registryOf
<1> QED
  BY <1>3 DEF Abstract!storeVars

\* p is answered with i, the record it made or found.
LEMMA StorePublishes ==
  ASSUME IInv, NEW p \in Publisher, pc[p] \in {"details", "apply"},
         NEW i \in Ids, artifacts[i] = revision[p],
         records' = records \union {i},
         i \in records \/ RevisionFree(revision[p]),
         MayRealize(i, slot[p]), Realize(i, slot[p]),
         answer' = [answer EXCEPT ![p] = i],
         UNCHANGED <<revision, slot, artifacts>>
  PROVE  Abstract!Publish(p, i)
<1>1. revision[p] \in Revision /\ revision[p] # NoRevision /\ answer[p] = 0
  BY PublicationAssumption DEF IInv, TypeOK, CallInv, AnswerInv
<1>2. i \in Nat \ {0}
  BY DEF IInv, TypeOK, Ids
<1>3. \A r : FindByRevision(r)' = IF r = revision[p] THEN {i} ELSE FindByRevision(r)
  BY DEF FindByRevision, RevisionFree, IInv, UniqueInv
<1>4. registryOf' = [registryOf EXCEPT ![revision[p]] = i]
  <2>1. ASSUME NEW r \in Revision
        PROVE  registryOf'[r] = IF r = revision[p] THEN i ELSE registryOf[r]
    <3>1. CASE r = revision[p]
      <4>1. registryOf'[r] = CHOOSE k \in FindByRevision(r)' : TRUE
        BY <1>3, <3>1 DEF registryOf
      <4>2. registryOf'[r] \in FindByRevision(r)'
        BY <1>3, <3>1, <4>1
      <4> QED
        BY <1>3, <3>1, <4>2
    <3>2. CASE r # revision[p] /\ FindByRevision(r) = {}
      BY <1>3, <3>2 DEF registryOf
    <3>3. CASE r # revision[p] /\ FindByRevision(r) # {}
      <4>1. /\ registryOf[r] = CHOOSE k \in FindByRevision(r) : TRUE
            /\ registryOf'[r] = CHOOSE k \in FindByRevision(r)' : TRUE
        BY <1>3, <3>3 DEF registryOf
      <4>2. registryOf[r] \in FindByRevision(r) /\ registryOf'[r] \in FindByRevision(r)'
        BY <1>3, <3>3, <4>1
      <4>3. \A j, k \in FindByRevision(r) : j = k
        BY DEF FindByRevision, IInv, UniqueInv
      <4> QED
        BY <1>3, <3>3, <4>2, <4>3
    <3> QED
      BY <3>1, <3>2, <3>3
  <2>2. registryOf = [r \in Revision |-> registryOf[r]]
    BY DEF registryOf
  <2>3. registryOf' = [r \in Revision |-> registryOf'[r]]
    BY DEF registryOf
  <2> QED
    BY <1>1, <2>1, <2>2, <2>3
<1>5. CASE i \in records
  <2>1. registryOf[revision[p]] = i
    BY <1>1, <1>5, RegistryOfRecord
  <2> QED
    BY <1>1, <1>2, <1>4, <2>1 DEF Abstract!Publish, Abstract!MayRealize, MayRealize, Realize
<1>6. CASE i \notin records
  <2>1. registryOf[revision[p]] = 0
    BY <1>1, <1>6 DEF registryOf, RevisionFree
  <2>2. i \notin Abstract!Registered
    BY <1>6, RegistryOfOthers DEF Abstract!Registered
  <2> QED
    BY <1>1, <1>2, <1>4, <2>1, <2>2 DEF Abstract!Publish, Abstract!MayRealize, MayRealize, Realize
<1> QED
  BY <1>5, <1>6

LEMMA StoreInit == Init => Abstract!Init
<1> SUFFICES ASSUME Init PROVE Abstract!Init
  OBVIOUS
<1>1. registryOf = [r \in Revision |-> 0]
  BY DEF Init, registryOf, FindByRevision
<1> QED
  BY <1>1 DEF Init, Abstract!Init

LEMMA StoreAction ==
  ASSUME IInv, NEW p \in Publisher, Publish(p)
  PROVE  Abstract!Next \/ UNCHANGED Abstract!storeVars
<1> USE DEF call, shellDb, detailDb, operator, faults
<1>1. CASE Request(p)
  <2>1. revision[p] = NoRevision
    BY <1>1 DEF Request, IInv, CallInv
  <2>2. registryOf' = registryOf
    BY <1>1 DEF Request, registryOf, FindByRevision
  <2>3. Abstract!Ask(p)
    BY <1>1, <2>1, <2>2 DEF Request, Abstract!Ask
  <2> QED
    BY <2>3 DEF Abstract!Next
<1>2. CASE CommitDetails(p)
  <2>1. p \in InFlight /\ shell[p] \in Ids /\ artifacts[shell[p]] = revision[p]
    BY <1>2 DEF CommitDetails, InFlight, IInv, HoldInv
  <2>2. Abstract!Publish(p, shell[p])
    BY <1>2, <2>1, StorePublishes DEF CommitDetails
  <2>3. answer'[p] = shell[p]
    BY <1>2 DEF CommitDetails, IInv, TypeOK
  <2> QED
    BY <2>2, <2>3 DEF Abstract!Next
<1>3. CASE ApplyRelations(p)
  <2>1. found[p] \in records /\ artifacts[found[p]] = revision[p] /\ found[p] \in Ids
    BY <1>3 DEF ApplyRelations, IInv, FoundInv, TypeOK
  <2>2. CASE MayRealize(found[p], slot[p])
    <3>1. records' = records \union {found[p]}
      BY <1>3, <2>1 DEF ApplyRelations
    <3>2. Abstract!Publish(p, found[p])
      BY <1>3, <2>1, <2>2, <3>1, StorePublishes DEF ApplyRelations
    <3>3. answer'[p] = found[p]
      BY <1>3, <2>2 DEF ApplyRelations, IInv, TypeOK
    <3> QED
      BY <3>2, <3>3 DEF Abstract!Next
  <2>3. CASE ~MayRealize(found[p], slot[p])
    BY <1>3, <2>3, StoreStutters DEF ApplyRelations
  <2> QED
    BY <2>2, <2>3
<1>4. CASE InsertArtifact(p)
  <2>1. \A i \in records : artifacts'[i] = artifacts[i]
    BY <1>4 DEF InsertArtifact, IInv, TypeOK, Ids
  <2> QED
    BY <1>4, <2>1, StoreStutters DEF InsertArtifact
<1>5. CASE DeleteArtifact(p)
  <2>1. p \in InFlight /\ shell[p] \notin records /\ records \subseteq Ids
    BY <1>5 DEF DeleteArtifact, InFlight, IInv, HoldInv, TypeOK
  <2>2. \A i \in records : artifacts'[i] = artifacts[i]
    BY <1>5, <2>1 DEF DeleteArtifact, RolledBack
  <2> QED
    BY <1>5, <2>2, StoreStutters DEF DeleteArtifact
<1>6. CASE \/ Refuse(p) \/ LookupHit(p) \/ LookupMiss(p) \/ ApplyLocked(p) \/ WritePayload(p) \/ WriteFails(p)
           \/ CheckSize(p) \/ InsertProvenance(p) \/ SaveLocked(p)
  BY <1>6, StoreStutters
     DEF Refuse, LookupHit, LookupMiss, ApplyLocked, WritePayload, WriteFails, CheckSize,
         InsertProvenance, SaveLocked
<1>7. CASE \/ DetailsRejected(p) \/ DetailsLocked(p) \/ DeleteProvenance(p) \/ UndoLocked(p)
           \/ Resolve(p) \/ Crash(p)
  BY <1>7, StoreStutters
     DEF DetailsRejected, DetailsLocked, DeleteProvenance, UndoLocked, Resolve, Crash
<1> QED
  BY <1>1, <1>2, <1>3, <1>4, <1>5, <1>6, <1>7 DEF Publish

LEMMA StoreStep == IInv /\ [Next]_vars => [Abstract!Next]_(Abstract!storeVars)
<1> SUFFICES ASSUME IInv, [Next]_vars PROVE Abstract!Next \/ UNCHANGED Abstract!storeVars
  OBVIOUS
<1>1. CASE UNCHANGED vars
  BY <1>1, StoreStutters DEF vars, call, shellDb, detailDb
<1>2. CASE Invalidate
  <2>1. UNCHANGED <<revision, slot, artifacts, records, owner, answer>>
    BY <1>2
       DEF Invalidate, ListRows, InvalidateRow, PurgePayload, call, shellDb, detailDb
  <2> QED
    BY <2>1, StoreStutters
<1> QED
  BY <1>1, <1>2, StoreAction DEF Next

-----------------------------------------------------------------------------
(* The payloads of active records                                          *)

\* A payload that nobody removes unless an invalidation was told to.
Kept(r) == r \notin Oversize /\ (swept # "delete" => r \in files)

\* What is about to be registered was written and is not too large.
Sized ==
  \A p \in Publisher : pc[p] \in {"size", "artifact", "provenance", "details"} =>
    Kept(revision[p]) \/ (pc[p] = "size" /\ revision[p] \in Oversize)

RecordsPresent == \A i \in records : Kept(artifacts[i])

\* Whoever lost the race for a revision finds the record that won.
Collided ==
  \A p \in Publisher :
    /\ integrity[p] => pc[p] # "idle" /\ FindByRevision(revision[p]) # {}
    /\ pc[p] = "resolve" => integrity[p]

PayloadInv ==
  /\ Sized
  /\ RecordsPresent
  /\ Collided
  /\ swept # "delete" => purging = 0

\* Records stay, with the rows they have.
LEMMA RowsStay ==
  ASSUME IInv, [Next]_vars
  PROVE  /\ records \subseteq records'
         /\ \A i \in records : artifacts'[i] = artifacts[i]
         /\ \A r : FindByRevision(r) \subseteq FindByRevision(r)'
<1> USE DEF call, shellDb, detailDb, operator, faults
<1>1. records \subseteq records' /\ \A i \in records : artifacts'[i] = artifacts[i]
  <2>1. CASE UNCHANGED vars
    BY <2>1 DEF vars
  <2>2. CASE Invalidate
    BY <2>2 DEF Invalidate, ListRows, InvalidateRow, PurgePayload
  <2>3. ASSUME NEW p \in Publisher, InsertArtifact(p)
        PROVE  records \subseteq records' /\ \A i \in records : artifacts'[i] = artifacts[i]
    BY <2>3 DEF InsertArtifact, IInv, TypeOK, Ids
  <2>4. ASSUME NEW p \in Publisher, DeleteArtifact(p)
        PROVE  records \subseteq records' /\ \A i \in records : artifacts'[i] = artifacts[i]
    <3>1. p \in InFlight /\ shell[p] \notin records /\ records \subseteq Ids
      BY <2>4 DEF DeleteArtifact, InFlight, IInv, HoldInv, TypeOK
    <3> QED
      BY <2>4, <3>1 DEF DeleteArtifact, RolledBack
  <2>5. ASSUME NEW p \in Publisher, Publish(p), ~ InsertArtifact(p), ~ DeleteArtifact(p)
        PROVE  records \subseteq records' /\ artifacts' = artifacts
    BY <2>5
       DEF Publish, Request, Refuse, LookupHit, LookupMiss, ApplyRelations, ApplyLocked, WritePayload,
           WriteFails, CheckSize, InsertProvenance, SaveLocked, CommitDetails, DetailsRejected,
           DetailsLocked, DeleteProvenance, UndoLocked, Resolve, Crash
  <2> QED
    BY <2>1, <2>2, <2>3, <2>4, <2>5 DEF Next
<1> QED
  BY <1>1 DEF FindByRevision

LEMMA KeptStays ==
  ASSUME IInv, PayloadInv, [Next]_vars
  PROVE  \A r \in Revision : Kept(r) => Kept(r)'
<1> SUFFICES ASSUME NEW r \in Revision, Kept(r) PROVE Kept(r)'
  OBVIOUS
<1> USE DEF call, shellDb, detailDb, operator, faults, Kept
<1>1. CASE UNCHANGED vars
  BY <1>1 DEF vars
<1>2. CASE Invalidate
  BY <1>2 DEF Invalidate, ListRows, InvalidateRow, PurgePayload, PayloadInv
<1>3. ASSUME NEW p \in Publisher, Resolve(p)
      PROVE  Kept(r)'
  <2>1. RemovedOnConflict(p) = {}
    BY <1>3 DEF Resolve, PayloadInv, Collided, RemovedOnConflict
  <2> QED
    BY <1>3, <2>1 DEF Resolve
<1>4. ASSUME NEW p \in Publisher, CheckSize(p) \/ WritePayload(p)
      PROVE  Kept(r)'
  BY <1>4 DEF CheckSize, WritePayload, Written
<1>5. ASSUME NEW p \in Publisher, Publish(p), ~ Resolve(p), ~ CheckSize(p), ~ WritePayload(p)
      PROVE  UNCHANGED <<files, swept>>
  BY <1>5
     DEF Publish, Request, Refuse, LookupHit, LookupMiss, ApplyRelations, ApplyLocked, WriteFails,
         InsertArtifact, InsertProvenance, SaveLocked, CommitDetails, DetailsRejected, DetailsLocked,
         DeleteProvenance, DeleteArtifact, UndoLocked, Crash
<1> QED
  BY <1>1, <1>2, <1>3, <1>4, <1>5 DEF Next

LEMMA SizedStep ==
  ASSUME IInv, PayloadInv, [Next]_vars
  PROVE  Sized'
<1> DEFINE W == {"size", "artifact", "provenance", "details"}
           K(r) == r \notin Oversize /\ (swept' # "delete" => r \in files')
           Fits(q) == pc'[q] \in W =>
                        K(revision'[q]) \/ (pc'[q] = "size" /\ revision'[q] \in Oversize)
<1> SUFFICES \A q \in Publisher : Fits(q)
  BY Zenon DEF Sized, Kept
<1> USE DEF call, shellDb, detailDb, operator, faults
<1>1. ASSUME NEW q \in Publisher, revision'[q] = revision[q],
             pc'[q] \in W => pc[q] \in W,
             pc'[q] = "size" => pc[q] = "size",
             pc[q] = "size" /\ pc'[q] \in W \ {"size"} => revision[q] \notin Oversize
      PROVE  Fits(q)
  <2> SUFFICES ASSUME pc'[q] \in W PROVE Fits(q)
    OBVIOUS
  <2>1. pc[q] \in W /\ revision[q] \in Revision
    BY <1>1 DEF IInv, CallInv, TypeOK
  <2>2. Kept(revision[q]) \/ (pc[q] = "size" /\ revision[q] \in Oversize)
    BY <2>1 DEF PayloadInv, Sized
  <2>3. ASSUME Kept(revision[q]) PROVE K(revision[q])
    BY <2>1, <2>3, KeptStays DEF Kept
  <2> QED
    BY <1>1, <2>1, <2>2, <2>3
<1>2. CASE UNCHANGED vars \/ Invalidate
  <2>1. UNCHANGED <<pc, revision>>
    BY <1>2 DEF vars, Invalidate, ListRows, InvalidateRow, PurgePayload
  <2> QED
    BY <1>1, <2>1
<1>3. ASSUME NEW p \in Publisher, Publish(p), NEW q \in Publisher
      PROVE  Fits(q)
  <2> USE DEF IInv, TypeOK
  <2> HIDE DEF Fits
  <2>0. CASE Request(p)
    <3>1. q # p => revision'[q] = revision[q] /\ pc'[q] = pc[q]
      BY <2>0 DEF Request, Goto
    <3>2. pc'[p] = "lookup"
      BY <2>0 DEF Request, Goto
    <3> QED
      BY <3>1, <3>2, <1>1 DEF Fits
  <2>1. CASE WritePayload(p)
    <3>1. q # p => pc'[q] = pc[q]
      BY <2>1 DEF WritePayload, Goto
    <3>2. pc'[p] = "size" /\ files' = files \union {revision[p]} /\ revision' = revision
      BY <2>1 DEF WritePayload, Goto, Written
    <3> QED
      BY <3>1, <3>2, <1>1 DEF Fits
  <2>2. CASE CheckSize(p)
    <3>1. q # p => pc'[q] = pc[q]
      BY <2>2 DEF CheckSize, Goto
    <3>2. /\ pc[p] = "size" /\ revision' = revision
          /\ pc'[p] = "failed" \/ (pc'[p] = "artifact" /\ revision[p] \notin Oversize)
      BY <2>2 DEF CheckSize, Goto
    <3> QED
      BY <3>1, <3>2, <1>1
  <2>3. CASE InsertArtifact(p) \/ InsertProvenance(p) \/ SaveLocked(p)
    <3>1. q # p => pc'[q] = pc[q]
      BY <2>3 DEF InsertArtifact, InsertProvenance, SaveLocked, Goto
    <3>2. pc[p] \in W \ {"size"} /\ pc'[p] # "size" /\ revision' = revision
      BY <2>3 DEF InsertArtifact, InsertProvenance, SaveLocked, Goto
    <3> QED
      BY <3>1, <3>2, <1>1
  <2>4. CASE \/ Refuse(p) \/ LookupHit(p) \/ LookupMiss(p) \/ ApplyRelations(p) \/ ApplyLocked(p)
             \/ WriteFails(p) \/ CommitDetails(p) \/ DetailsRejected(p)
    <3>1. q # p => pc'[q] = pc[q]
      BY <2>4
         DEF Refuse, LookupHit, LookupMiss, ApplyRelations, ApplyLocked, WriteFails, CommitDetails,
             DetailsRejected, Goto
    <3>2. pc'[p] \notin W /\ revision' = revision
      BY <2>4
         DEF Refuse, LookupHit, LookupMiss, ApplyRelations, ApplyLocked, WriteFails, CommitDetails,
             DetailsRejected, Goto
    <3> QED
      BY <3>1, <3>2, <1>1
  <2>5. CASE \/ DetailsLocked(p) \/ DeleteProvenance(p) \/ DeleteArtifact(p) \/ UndoLocked(p) \/ Resolve(p)
             \/ Crash(p)
    <3>1. q # p => pc'[q] = pc[q]
      BY <2>5 DEF DetailsLocked, DeleteProvenance, DeleteArtifact, UndoLocked, Resolve, Crash, Goto
    <3>2. pc'[p] \notin W /\ revision' = revision
      BY <2>5 DEF DetailsLocked, DeleteProvenance, DeleteArtifact, UndoLocked, Resolve, Crash, Goto
    <3> QED
      BY <3>1, <3>2, <1>1
  <2> QED
    BY <1>3, <2>0, <2>1, <2>2, <2>3, <2>4, <2>5 DEF Publish
<1> QED
  BY <1>2, <1>3 DEF Next

\* A record's payload was written before its details.
LEMMA RecordsPresentStep ==
  ASSUME IInv, PayloadInv, [Next]_vars
  PROVE  RecordsPresent'
<1> DEFINE K(r) == r \notin Oversize /\ (swept' # "delete" => r \in files')
<1> SUFFICES ASSUME NEW i \in records' PROVE K(artifacts'[i])
  BY Zenon DEF RecordsPresent, Kept
<1> USE DEF call, shellDb, detailDb, operator, faults
<1>1. ASSUME NEW r \in Revision, Kept(r) PROVE K(r)
  BY <1>1, KeptStays DEF Kept
<1>2. CASE i \in records
  <2>1. artifacts'[i] = artifacts[i]
    BY <1>2, RowsStay
  <2>2. artifacts[i] \in Revision
    BY <1>2 DEF IInv, RecordsWhole, Live, Ids, TypeOK
  <2> QED
    BY <1>1, <1>2, <2>1, <2>2 DEF PayloadInv, RecordsPresent
<1>3. CASE i \notin records
  <2>1. PICK p \in Publisher : CommitDetails(p)
    BY <1>3
       DEF Next, vars, Invalidate, ListRows, InvalidateRow, PurgePayload, Publish, Request, Refuse,
           LookupHit, LookupMiss, ApplyRelations, ApplyLocked, WritePayload, WriteFails, CheckSize,
           InsertArtifact, InsertProvenance, SaveLocked, DetailsRejected, DetailsLocked,
           DeleteProvenance, DeleteArtifact, UndoLocked, Resolve, Crash
  <2>2. pc[p] = "details" /\ i = shell[p] /\ artifacts' = artifacts
    BY <1>3, <2>1 DEF CommitDetails
  <2>3. p \in InFlight /\ artifacts[i] = revision[p]
    BY <2>2 DEF InFlight, IInv, HoldInv
  <2>4. revision[p] \in Revision /\ Kept(revision[p])
    BY <2>2 DEF IInv, CallInv, TypeOK, PayloadInv, Sized
  <2> QED
    BY <1>1, <2>2, <2>3, <2>4
<1> QED
  BY <1>2, <1>3

LEMMA CollidedStep ==
  ASSUME IInv, PayloadInv, [Next]_vars
  PROVE  Collided'
<1> DEFINE Met(q) == /\ integrity'[q] => pc'[q] # "idle" /\ FindByRevision(revision[q])' # {}
                     /\ pc'[q] = "resolve" => integrity'[q]
<1> SUFFICES \A q \in Publisher : Met(q)
  BY Zenon DEF Collided
<1> USE DEF call, shellDb, detailDb, operator, faults
<1>1. ASSUME NEW q \in Publisher, revision'[q] = revision[q],
             pc'[q] = "idle" => pc[q] = "idle",
             integrity'[q] => integrity[q] \/ FindByRevision(revision[q]) # {},
             pc[q] # "idle" \/ integrity'[q] = integrity[q],
             pc'[q] = "resolve" => integrity'[q]
      PROVE  Met(q)
  <2>1. FindByRevision(revision[q]) \subseteq FindByRevision(revision[q])'
    <3>1. \A r : FindByRevision(r) \subseteq {j \in records' : artifacts'[j] = r}
      BY RowsStay DEF FindByRevision
    <3> QED
      BY <1>1, <3>1 DEF FindByRevision
  <2> QED
    BY <1>1, <2>1 DEF PayloadInv, Collided
<1>2. CASE UNCHANGED vars \/ Invalidate
  <2>1. UNCHANGED <<pc, revision, integrity>>
    BY <1>2 DEF vars, Invalidate, ListRows, InvalidateRow, PurgePayload
  <2> QED
    BY <1>1, <2>1 DEF PayloadInv, Collided
<1>3. ASSUME NEW p \in Publisher, Publish(p), NEW q \in Publisher
      PROVE  Met(q)
  <2> HIDE DEF Met
  <2>1. /\ pc \in [Publisher -> Running \union {"idle", "done", "failed", "crashed"}]
        /\ revision \in [Publisher -> Revision \union {NoRevision}]
        /\ integrity \in [Publisher -> BOOLEAN]
    BY DEF IInv, TypeOK
  <2>2. integrity[q] => pc[q] # "idle" /\ FindByRevision(revision[q]) # {}
    BY DEF PayloadInv, Collided
  <2>3. pc[q] = "resolve" => integrity[q]
    BY DEF PayloadInv, Collided
  <2>4. CASE Request(p)
    <3>1. integrity' = integrity /\ pc'[p] = "lookup" /\ pc[p] = "idle"
      BY <2>1, <2>4 DEF Request, Goto
    <3>2. q # p => revision'[q] = revision[q] /\ pc'[q] = pc[q]
      BY <2>1, <2>4 DEF Request, Goto
    <3>3. CASE q = p
      BY <2>2, <3>1, <3>3 DEF Met
    <3>4. CASE q # p
      BY <1>1, <2>3, <3>1, <3>2, <3>4
    <3> QED
      BY <3>3, <3>4
  <2>5. CASE DetailsRejected(p)
    <3>1. /\ revision' = revision
          /\ integrity' = [integrity EXCEPT ![p] = ~RevisionFree(revision[p])]
          /\ pc[p] = "details"
          /\ pc' = [pc EXCEPT ![p] = "undoProvenance"]
      BY <2>5 DEF DetailsRejected, Goto
    <3>2. q # p => pc'[q] = pc[q] /\ integrity'[q] = integrity[q]
      BY <2>1, <3>1
    <3>3. pc'[p] = "undoProvenance"
      BY <2>1, <3>1
    <3>4. integrity'[p] <=> FindByRevision(revision[p]) # {}
      BY <2>1, <3>1, Zenon DEF RevisionFree
    <3>5. CASE q = p
      BY <1>1, <3>1, <3>3, <3>4, <3>5
    <3>6. CASE q # p
      BY <1>1, <2>3, <3>1, <3>2, <3>6
    <3> QED
      BY <3>5, <3>6
  <2>6. CASE DeleteArtifact(p)
    <3>1. UNCHANGED <<revision, integrity>> /\ pc[p] = "undoArtifact"
      BY <2>6 DEF DeleteArtifact
    <3>2. pc' = [pc EXCEPT ![p] = IF integrity[p] THEN "resolve" ELSE "failed"]
      BY <2>6 DEF DeleteArtifact, Goto
    <3>3. q # p => pc'[q] = pc[q]
      BY <2>1, <3>2
    <3>4. pc'[p] = (IF integrity[p] THEN "resolve" ELSE "failed")
      BY <2>1, <3>2
    <3> QED
      BY <1>1, <2>3, <3>1, <3>3, <3>4
  <2>7. CASE \/ Refuse(p) \/ LookupHit(p) \/ LookupMiss(p) \/ ApplyRelations(p) \/ ApplyLocked(p)
             \/ WritePayload(p) \/ WriteFails(p) \/ CheckSize(p)
    <3>1. q # p => pc'[q] = pc[q]
      BY <2>1, <2>7
         DEF Refuse, LookupHit, LookupMiss, ApplyRelations, ApplyLocked, WritePayload, WriteFails,
             CheckSize, Goto
    <3>2. /\ pc'[p] \notin {"idle", "resolve"} /\ pc[p] # "idle"
          /\ UNCHANGED <<revision, integrity>>
      BY <2>1, <2>7
         DEF Refuse, LookupHit, LookupMiss, ApplyRelations, ApplyLocked, WritePayload, WriteFails,
             CheckSize, Goto
    <3> QED
      BY <1>1, <2>3, <3>1, <3>2
  <2>8. CASE \/ InsertArtifact(p) \/ InsertProvenance(p) \/ SaveLocked(p) \/ CommitDetails(p)
             \/ DetailsLocked(p) \/ DeleteProvenance(p) \/ UndoLocked(p) \/ Resolve(p) \/ Crash(p)
    <3>1. q # p => pc'[q] = pc[q]
      BY <2>1, <2>8
         DEF InsertArtifact, InsertProvenance, SaveLocked, CommitDetails, DetailsLocked,
             DeleteProvenance, UndoLocked, Resolve, Crash, Goto
    <3>2. /\ pc'[p] \notin {"idle", "resolve"} /\ pc[p] # "idle"
          /\ UNCHANGED <<revision, integrity>>
      BY <2>1, <2>8
         DEF InsertArtifact, InsertProvenance, SaveLocked, CommitDetails, DetailsLocked,
             DeleteProvenance, UndoLocked, Resolve, Crash, Goto, Running
    <3> QED
      BY <1>1, <2>3, <3>1, <3>2
  <2> QED
    BY <1>3, <2>4, <2>5, <2>6, <2>7, <2>8 DEF Publish
<1> QED
  BY <1>2, <1>3 DEF Next

\* Only an invalidation that was told to delete payloads is about to.
LEMMA PurgingStep ==
  ASSUME PayloadInv, [Next]_vars
  PROVE  (swept # "delete" => purging = 0)'
<1> USE DEF call, shellDb, detailDb, operator, faults, PayloadInv
<1>1. CASE UNCHANGED vars
  BY <1>1 DEF vars
<1>2. CASE Invalidate
  BY <1>2 DEF Invalidate, ListRows, InvalidateRow, PurgePayload
<1>3. ASSUME NEW p \in Publisher, Publish(p)
      PROVE  UNCHANGED <<swept, purging>>
  BY <1>3
     DEF Publish, Request, Refuse, LookupHit, LookupMiss, ApplyRelations, ApplyLocked, WritePayload,
         WriteFails, CheckSize, InsertArtifact, InsertProvenance, SaveLocked, CommitDetails,
         DetailsRejected, DetailsLocked, DeleteProvenance, DeleteArtifact, UndoLocked, Resolve, Crash
<1> QED
  BY <1>1, <1>2, <1>3 DEF Next

LEMMA InitPayloadInv == Init => PayloadInv
<1> SUFFICES ASSUME Init PROVE PayloadInv
  OBVIOUS
<1>1. Sized /\ RecordsPresent /\ (swept # "delete" => purging = 0)
  BY DEF Init, Sized, RecordsPresent
<1>2. Collided
  <2>1. \A p \in Publisher : ~ integrity[p] /\ pc[p] = "idle"
    BY DEF Init
  <2> QED
    BY <2>1 DEF Collided
<1> QED
  BY <1>1, <1>2 DEF PayloadInv

\* The payload of an active record is on disk as long as no invalidation was
\* told to delete payloads: the losers of a race for a revision, whose path
\* they share with the winner, never remove the file under its record.
THEOREM ActivePayloadPresentCorrect == Spec => []ActivePayloadPresent
<1>1. IInv /\ PayloadInv /\ [Next]_vars => PayloadInv'
  BY SizedStep, RecordsPresentStep, CollidedStep, PurgingStep, Zenon DEF PayloadInv
<1>2. PayloadInv => ActivePayloadPresent
  BY DEF PayloadInv, RecordsPresent, Kept, ActivePayloadPresent
<1>3. Spec => []PayloadInv
  BY Invariance, InitPayloadInv, <1>1, PTL DEF Spec
<1> QED
  BY <1>2, <1>3, PTL

\* Publication registers, realizes and answers atomically: the statements of
\* persist_request and its rollback, of any number of publishers, implement
\* RevisionStore.
THEOREM Implements == Spec => ImplementsRevisionStore
BY Invariance, StoreInit, StoreStep, PTL DEF Spec, ImplementsRevisionStore, Abstract!Spec
=============================================================================
