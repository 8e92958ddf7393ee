----------------------------- MODULE Publication -----------------------------
(***************************************************************************)
(* ArtifactService.persist_request and the registration under it.  Several *)
(* publishers (pool threads, other processes) write payload files, insert  *)
(* an artifacts row and a provenance row as statements of their own, then  *)
(* the canonical details in one transaction; a failure of the last is      *)
(* undone by two more statements.  An operator runs invalidate_kinds in    *)
(* between.                                                                *)
(***************************************************************************)
EXTENDS Integers, Sequences, FiniteSets

CONSTANTS Publisher,
          Revision, NoRevision,  \* logical revisions: content, so also payload paths
          Slot, NoSlot,          \* slots of one declared measurement group
          Oversize,              \* revisions over the byte limit of their kind
          MaxAttempts,           \* tries save_artifact makes on a locked database
          MaxCrashes, MaxLocks   \* bounds on crashes and on "database is locked"

ASSUME PublicationAssumption ==
  /\ IsFiniteSet(Publisher)
  /\ NoRevision \notin Revision
  /\ NoSlot \notin Slot
  /\ Oversize \subseteq Revision
  /\ MaxAttempts \in Nat \ {0}
  /\ MaxCrashes \in Nat
  /\ MaxLocks \in Nat

VARIABLES
  pc,          \* the statement of persist_request a publisher is at
  revision,    \* what it publishes
  slot,        \* the slot its request is a member of, or NoSlot
  attempt,     \* tries of save_artifact made
  shell,       \* artifacts row its last try inserted
  integrity,   \* the details failed with IntegrityError
  found,       \* id of the row find_by_revision gave
  answer,      \* id of the Artifact it returned, 0: none yet
  artifacts,   \* the artifacts table by id: revision of the row's payload path
  provenance,  \* ids with a provenance row
  records,     \* ids with committed canonical details
  obsolete,    \* records whose state is obsolete
  owner,       \* artifact_id of each measurement group slot, 0: NULL
  files,       \* revisions with a complete payload at their path
  swept,       \* invalidate_kinds has listed the registry, and whether it was
               \* called with delete_payloads
  sweep,       \* rows it still has to go through
  purging,     \* row whose payload it is about to delete, 0: none
  crashes, locks

call     == <<revision, slot>>
shellDb  == <<artifacts, provenance>>
detailDb == <<records, owner>>
operator == <<swept, sweep, purging>>
faults   == <<crashes, locks>>
vars == <<pc, call, attempt, shell, integrity, found, answer, shellDb, detailDb, obsolete,
          files, operator, faults>>

Running == {"lookup", "apply", "write", "size", "artifact", "provenance", "details",
            "undoProvenance", "undoArtifact", "resolve"}

Ids == 1..Len(artifacts)

TypeOK ==
  /\ pc \in [Publisher -> Running \union {"idle", "done", "failed", "crashed"}]
  /\ revision \in [Publisher -> Revision \union {NoRevision}]
  /\ slot \in [Publisher -> Slot \union {NoSlot}]
  /\ attempt \in [Publisher -> 0..MaxAttempts]
  /\ shell \in [Publisher -> Ids \union {0}]
  /\ integrity \in [Publisher -> BOOLEAN]
  /\ found \in [Publisher -> Ids \union {0}]
  /\ answer \in [Publisher -> Ids \union {0}]
  /\ artifacts \in Seq(Revision \union {NoRevision})
  /\ provenance \subseteq Ids
  /\ records \subseteq Ids
  /\ obsolete \subseteq records
  /\ owner \in [Slot -> Ids \union {0}]
  /\ files \subseteq Revision
  /\ swept \in {"no", "keep", "delete"}
  /\ sweep \subseteq Ids
  /\ purging \in Ids \union {0}
  /\ crashes \in 0..MaxCrashes
  /\ locks \in 0..MaxLocks

Init ==
  /\ pc = [p \in Publisher |-> "idle"]
  /\ revision = [p \in Publisher |-> NoRevision]
  /\ slot = [p \in Publisher |-> NoSlot]
  /\ attempt = [p \in Publisher |-> 0]
  /\ shell = [p \in Publisher |-> 0]
  /\ integrity = [p \in Publisher |-> FALSE]
  /\ found = [p \in Publisher |-> 0]
  /\ answer = [p \in Publisher |-> 0]
  /\ artifacts = <<>>
  /\ provenance = {}
  /\ records = {}
  /\ obsolete = {}
  /\ owner = [s \in Slot |-> 0]
  /\ files = {}
  /\ swept = "no"
  /\ sweep = {}
  /\ purging = 0
  /\ crashes = 0
  /\ locks = 0

-----------------------------------------------------------------------------
Goto(p, l) == pc' = [pc EXCEPT ![p] = l]

\* find_by_revision: the row of the record with this revision.
FindByRevision(r) == {i \in records : artifacts[i] = r}

\* Mutant: revision is not UNIQUE.
RevisionFreeAlways(r) == TRUE

RevisionFree(r) == FindByRevision(r) = {}

\* realize_measurement_group_slot accepts i for the slot, and the UNIQUE
\* constraint on (group, artifact) holds afterwards.
MayRealize(i, s) == s # NoSlot => owner[s] \in {0, i} /\ \A t \in Slot \ {s} : owner[t] # i

Realize(i, s) == owner' = [t \in Slot |-> IF t = s THEN i ELSE owner[t]]

\* One more "database is locked" error.
Lock == locks < MaxLocks /\ locks' = locks + 1

-----------------------------------------------------------------------------
(* persist_request                                                         *)

Request(p) ==
  /\ pc[p] = "idle"
  /\ \E r \in Revision : revision' = [revision EXCEPT ![p] = r]
  /\ \E s \in Slot \union {NoSlot} : slot' = [slot EXCEPT ![p] = s]
  /\ Goto(p, "lookup")
  /\ UNCHANGED <<attempt, shell, integrity, found, answer, shellDb, detailDb, obsolete,
                 files, operator, faults>>

\* The contract of the kind, or persist_request, finds a part of the request missing.
Refuse(p) ==
  /\ pc[p] = "lookup"
  /\ Goto(p, "failed")
  /\ UNCHANGED <<call, attempt, shell, integrity, found, answer, shellDb, detailDb, obsolete,
                 files, operator, faults>>

\* An active Artifact of the revision is reused, whatever its payload.
LookupHit(p) ==
  /\ pc[p] = "lookup"
  /\ \E i \in FindByRevision(revision[p]) \ obsolete : found' = [found EXCEPT ![p] = i]
  /\ Goto(p, "apply")
  /\ UNCHANGED <<call, attempt, shell, integrity, answer, shellDb, detailDb, obsolete,
                 files, operator, faults>>

LookupMiss(p) ==
  /\ pc[p] = "lookup"
  /\ FindByRevision(revision[p]) \subseteq obsolete
  /\ Goto(p, "write")
  /\ UNCHANGED <<call, attempt, shell, integrity, found, answer, shellDb, detailDb,
                 obsolete, files, operator, faults>>

\* apply_measurement_group_relations, one transaction, on the row found.
ApplyRelations(p) ==
  /\ pc[p] = "apply"
  /\ IF MayRealize(found[p], slot[p])
       THEN /\ Realize(found[p], slot[p])
            /\ answer' = [answer EXCEPT ![p] = found[p]]
            /\ Goto(p, "done")
       ELSE Goto(p, "failed") /\ UNCHANGED <<owner, answer>>
  /\ UNCHANGED <<call, attempt, shell, integrity, found, shellDb, records, obsolete,
                 files, operator, faults>>

ApplyLocked(p) ==
  /\ pc[p] = "apply"
  /\ Lock
  /\ Goto(p, "failed")
  /\ UNCHANGED <<call, attempt, shell, integrity, found, answer, shellDb, detailDb,
                 obsolete, files, operator, crashes>>

\* write_array_fits: a temporary file is moved over the path, or what another
\* publisher has just moved there is taken for it; same revision, same bytes.
Written(p) == files \union {revision[p]}

WritePayload(p) ==
  /\ pc[p] = "write"
  /\ files' = Written(p)
  /\ Goto(p, "size")
  /\ UNCHANGED <<call, attempt, shell, integrity, found, answer, shellDb, detailDb,
                 obsolete, operator, faults>>

\* A serializer raises, or the disk budget is exceeded; nothing is removed.
WriteFails(p) ==
  /\ pc[p] = "write"
  /\ Goto(p, "failed")
  /\ UNCHANGED <<call, attempt, shell, integrity, found, answer, shellDb, detailDb,
                 obsolete, files, operator, faults>>

CheckSize(p) ==
  /\ pc[p] = "size"
  /\ IF revision[p] \in Oversize
       THEN files' = files \ {revision[p]} /\ Goto(p, "failed")
       ELSE Goto(p, "artifact") /\ UNCHANGED files
  /\ UNCHANGED <<call, attempt, shell, integrity, found, answer, shellDb, detailDb,
                 obsolete, operator, faults>>

-----------------------------------------------------------------------------
(* save_artifact: two statements, each committed by itself                 *)

InsertArtifact(p) ==
  /\ pc[p] = "artifact"
  /\ artifacts' = Append(artifacts, revision[p])
  /\ shell' = [shell EXCEPT ![p] = Len(artifacts) + 1]
  /\ Goto(p, "provenance")
  /\ UNCHANGED <<call, attempt, integrity, found, answer, provenance, detailDb, obsolete,
                 files, operator, faults>>

InsertProvenance(p) ==
  /\ pc[p] = "provenance"
  /\ provenance' = provenance \union {shell[p]}
  /\ Goto(p, "details")
  /\ UNCHANGED <<call, attempt, shell, integrity, found, answer, artifacts, detailDb,
                 obsolete, files, operator, faults>>

\* Either statement meets a lock: the next try starts at the first again.
SaveLocked(p) ==
  /\ pc[p] \in {"artifact", "provenance"}
  /\ Lock
  /\ attempt' = [attempt EXCEPT ![p] = @ + 1]
  /\ Goto(p, IF attempt[p] + 1 < MaxAttempts THEN "artifact" ELSE "failed")
  /\ UNCHANGED <<call, shell, integrity, found, answer, shellDb, detailDb, obsolete,
                 files, operator, crashes>>

-----------------------------------------------------------------------------
(* save_artifact_details, and its rollback in RegistryAdapter.register     *)

CommitDetails(p) ==
  /\ pc[p] = "details"
  /\ RevisionFree(revision[p])
  /\ MayRealize(shell[p], slot[p])
  /\ records' = records \union {shell[p]}
  /\ Realize(shell[p], slot[p])
  /\ answer' = [answer EXCEPT ![p] = shell[p]]
  /\ Goto(p, "done")
  /\ UNCHANGED <<call, attempt, shell, integrity, found, shellDb, obsolete, files,
                 operator, faults>>

\* The revision is UNIQUE; its INSERT comes before the slots are looked at.
DetailsRejected(p) ==
  /\ pc[p] = "details"
  /\ ~RevisionFree(revision[p]) \/ ~MayRealize(shell[p], slot[p])
  /\ integrity' = [integrity EXCEPT ![p] = ~RevisionFree(revision[p])]
  /\ Goto(p, "undoProvenance")
  /\ UNCHANGED <<call, attempt, shell, found, answer, shellDb, detailDb, obsolete, files,
                 operator, faults>>

DetailsLocked(p) ==
  /\ pc[p] = "details"
  /\ Lock
  /\ Goto(p, "undoProvenance")
  /\ UNCHANGED <<call, attempt, shell, integrity, found, answer, shellDb, detailDb,
                 obsolete, files, operator, crashes>>

\* Mutants: the rollback deletes by path, or does not happen.
RolledBackByPath(p) == {i \in Ids : artifacts[i] = revision[p]}
RolledBackNever(p) == {}

\* Ids whose rows the rollback deletes.
RolledBack(p) == {shell[p]}

DeleteProvenance(p) ==
  /\ pc[p] = "undoProvenance"
  /\ provenance' = provenance \ RolledBack(p)
  /\ Goto(p, "undoArtifact")
  /\ UNCHANGED <<call, attempt, shell, integrity, found, answer, artifacts, detailDb,
                 obsolete, files, operator, faults>>

\* persist_request goes on only after an IntegrityError.
DeleteArtifact(p) ==
  /\ pc[p] = "undoArtifact"
  /\ artifacts' = [i \in Ids |-> IF i \in RolledBack(p) THEN NoRevision ELSE artifacts[i]]
  /\ Goto(p, IF integrity[p] THEN "resolve" ELSE "failed")
  /\ UNCHANGED <<call, attempt, shell, integrity, found, answer, provenance, detailDb,
                 obsolete, files, operator, faults>>

\* A lock error in the rollback replaces the error being handled.
UndoLocked(p) ==
  /\ pc[p] \in {"undoProvenance", "undoArtifact"}
  /\ Lock
  /\ Goto(p, "failed")
  /\ UNCHANGED <<call, attempt, shell, integrity, found, answer, shellDb, detailDb,
                 obsolete, files, operator, crashes>>

\* Mutant: the loser of the race removes what it wrote.
RemovedOnConflictAlways(p) == {revision[p]}

RemovedOnConflict(p) == IF FindByRevision(revision[p]) = {} THEN {revision[p]} ELSE {}

\* The row of the publisher that won, whatever its state.
Resolve(p) ==
  /\ pc[p] = "resolve"
  /\ files' = files \ RemovedOnConflict(p)
  /\ IF FindByRevision(revision[p]) = {}
       THEN Goto(p, "failed") /\ UNCHANGED found
       ELSE /\ \E i \in FindByRevision(revision[p]) : found' = [found EXCEPT ![p] = i]
            /\ Goto(p, "apply")
  /\ UNCHANGED <<call, attempt, shell, integrity, answer, shellDb, detailDb, obsolete,
                 operator, faults>>

Crash(p) ==
  /\ pc[p] \in Running
  /\ crashes < MaxCrashes
  /\ crashes' = crashes + 1
  /\ Goto(p, "crashed")
  /\ UNCHANGED <<call, attempt, shell, integrity, found, answer, shellDb, detailDb,
                 obsolete, files, operator, locks>>

-----------------------------------------------------------------------------
(* The operator                                                            *)

Live == {i \in Ids : artifacts[i] # NoRevision}

\* A row without details has no state, and no state counts as active.
CountsAsActive == Live \ obsolete

\* invalidate_kinds, once: the registry is listed before any row is changed.
ListRows ==
  /\ swept = "no"
  /\ swept' \in {"keep", "delete"}
  /\ \E K \in SUBSET Revision : sweep' = {i \in CountsAsActive : artifacts[i] \in K}
  /\ UNCHANGED <<pc, call, attempt, shell, integrity, found, answer, shellDb, detailDb,
                 obsolete, files, purging, faults>>

SetObsolete(i) == obsolete' = obsolete \union ({i} \intersect records)

\* set_state updates no record when the row has none.
InvalidateRow(i) ==
  /\ i \in sweep
  /\ purging = 0
  /\ sweep' = sweep \ {i}
  /\ SetObsolete(i)
  /\ purging' = IF swept = "delete" THEN i ELSE 0
  /\ UNCHANGED <<pc, call, attempt, shell, integrity, found, answer, shellDb, detailDb,
                 files, swept, faults>>

\* _purge_payload; it raises out of invalidate_kinds when the row is gone.
PurgePayload ==
  /\ purging # 0
  /\ purging' = 0
  /\ IF purging \in Live
       THEN files' = files \ {artifacts[purging]} /\ UNCHANGED sweep
       ELSE sweep' = {} /\ UNCHANGED files
  /\ UNCHANGED <<pc, call, attempt, shell, integrity, found, answer, shellDb, detailDb,
                 obsolete, swept, faults>>

-----------------------------------------------------------------------------
Publish(p) ==
  \/ Request(p)
  \/ Refuse(p)
  \/ LookupHit(p)
  \/ LookupMiss(p)
  \/ ApplyRelations(p)
  \/ ApplyLocked(p)
  \/ WritePayload(p)
  \/ WriteFails(p)
  \/ CheckSize(p)
  \/ InsertArtifact(p)
  \/ InsertProvenance(p)
  \/ SaveLocked(p)
  \/ CommitDetails(p)
  \/ DetailsRejected(p)
  \/ DetailsLocked(p)
  \/ DeleteProvenance(p)
  \/ DeleteArtifact(p)
  \/ UndoLocked(p)
  \/ Resolve(p)
  \/ Crash(p)

Invalidate ==
  \/ ListRows
  \/ \E i \in sweep : InvalidateRow(i)
  \/ PurgePayload

Next ==
  \/ \E p \in Publisher : Publish(p)
  \/ Invalidate

Spec == Init /\ [][Next]_vars

-----------------------------------------------------------------------------
(* Properties                                                              *)

Shells == Live \ records
InFlight == {p \in Publisher : pc[p] \in {"provenance", "details", "undoProvenance",
                                          "undoArtifact"}}

\* Publishers of one revision that return an Artifact return the same one,
\* and it is the registered record of that revision, whoever won the race
\* (persist_request, service.py:386).
AnswersAgree ==
  \A p \in Publisher : answer[p] # 0 =>
    /\ answer[p] \in records
    /\ artifacts[answer[p]] = revision[p]
    /\ \A q \in Publisher : answer[q] # 0 /\ revision[q] = revision[p] => answer[q] = answer[p]

\* A committed record keeps its artifacts and provenance rows: no rollback,
\* which deletes both by id, ever hits the rows of a record.
RecordsWhole == records \subseteq Live \intersect provenance

\* A publisher answered for a slot sees its Artifact in the slot, slots of
\* the group have different Artifacts, and each is a record: a slot is never
\* left pointing at a row that a rollback deletes.
SlotsHonest ==
  /\ \A p \in Publisher : answer[p] # 0 /\ slot[p] # NoSlot => owner[slot[p]] = answer[p]
  /\ \A s \in Slot : owner[s] # 0 => owner[s] \in records
  /\ \A s, t \in Slot : owner[s] = owner[t] /\ owner[s] # 0 => s = t

\* The payload of an active record is on disk: the publishers that lose a
\* race or fail never remove the file they share with the one that won.  An
\* invalidation that deletes payloads may: it lists rows not yet registered.
ActivePayloadPresent ==
  swept # "delete" => \A i \in records \ obsolete : artifacts[i] \in files

\* The abstract view: what is registered, realized and answered.
registryOf ==
  [r \in Revision |->
     IF FindByRevision(r) = {} THEN 0 ELSE CHOOSE i \in FindByRevision(r) : TRUE]

Abstract == INSTANCE RevisionStore WITH registry <- registryOf

\* However the statements of several publishers, lock errors and crashes
\* interleave, publication registers and answers atomically.
ImplementsRevisionStore == Abstract!Spec
=============================================================================
