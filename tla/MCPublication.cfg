\* Two publishers of three revisions, one of them too large, and two slots; rows are
\* invalidated with and without their payloads; one crash and two lock errors.
CONSTANTS
  p1 = p1
  p2 = p2
  r1 = r1
  r2 = r2
  r3 = r3
  s1 = s1
  s2 = s2
  NoRevision = NoRevision
  NoSlot = NoSlot
  Publisher = {p1, p2}
  Revision = {r1, r2, r3}
  Slot = {s1, s2}
  Oversize = {r3}
  MaxAttempts = 2
  MaxCrashes = 1
  MaxLocks = 2
SPECIFICATION Spec
SYMMETRY Symmetry
INVARIANTS
  RecordsWhole
  ActivePayloadPresent
PROPERTY ImplementsRevisionStore
\* Publications end; nothing is left to do then.
CHECK_DEADLOCK FALSE
