---------------------------- MODULE RevisionStore ----------------------------
(***************************************************************************)
(* What publication promises: a revision is registered at most once, every *)
(* publisher of it is answered with the same Artifact, and a measurement   *)
(* group slot is realized once, together with the answer.  A publication   *)
(* that fails leaves no trace here.                                        *)
(***************************************************************************)
EXTENDS Integers

CONSTANTS Publisher, Revision, NoRevision, Slot, NoSlot

VARIABLES
  revision,  \* what each publisher asked to publish
  slot,      \* the slot its Artifact is to realize, or NoSlot
  registry,  \* id registered for a revision, 0 for none
  owner,     \* id that realizes a slot, 0 for none
  answer     \* id a publisher was answered with, 0 for none

storeVars == <<revision, slot, registry, owner, answer>>

Init ==
  /\ revision = [p \in Publisher |-> NoRevision]
  /\ slot = [p \in Publisher |-> NoSlot]
  /\ registry = [r \in Revision |-> 0]
  /\ owner = [s \in Slot |-> 0]
  /\ answer = [p \in Publisher |-> 0]

Ask(p) ==
  /\ revision[p] = NoRevision
  /\ \E r \in Revision : revision' = [revision EXCEPT ![p] = r]
  /\ \E s \in Slot \union {NoSlot} : slot' = [slot EXCEPT ![p] = s]
  /\ UNCHANGED <<registry, owner, answer>>

Registered == {registry[r] : r \in Revision} \ {0}

\* The slot is free or already i's, and i realizes no other slot.
MayRealize(i, s) == s # NoSlot => owner[s] \in {0, i} /\ \A t \in Slot \ {s} : owner[t] # i

\* p is answered with the Artifact i, a new one or the revision's.
Publish(p, i) ==
  /\ i \in Nat \ {0}
  /\ revision[p] # NoRevision
  /\ answer[p] = 0
  /\ IF registry[revision[p]] = 0 THEN i \notin Registered
                                  ELSE i = registry[revision[p]]
  /\ MayRealize(i, slot[p])
  /\ registry' = [registry EXCEPT ![revision[p]] = i]
  /\ owner' = [s \in Slot |-> IF s = slot[p] THEN i ELSE owner[s]]
  /\ answer' = [answer EXCEPT ![p] = i]
  /\ UNCHANGED <<revision, slot>>

Next == \E p \in Publisher : Ask(p) \/ Publish(p, answer'[p])

Spec == Init /\ [][Next]_storeVars
=============================================================================
