------------------------------ MODULE RawCatalog ------------------------------
(***************************************************************************)
(* virusflow scan: raw frames of the selected nights, loose or in tar      *)
(* archives that may still grow, are registered in the raw registry, and   *)
(* the positions of archive members are indexed for direct reads.  Under a *)
(* root with night directories an archive is traversed in order and its    *)
(* index written afterwards from what was seen; under another root the     *)
(* members are listed first and the index is built by ensure_tar_index.    *)
(* An archive that ends within a member ends the traversal in the first    *)
(* case and is passed over in the second.  Every statement autocommits;    *)
(* several scans may run.                                                  *)
(***************************************************************************)
EXTENDS Integers, Sequences, FiniteSets

CONSTANTS Scanner, RawFrame, Archive, Night,
          Layout,     \* the members an archive will have in the end, in order
          Outer,      \* the file of an archive: itself, or the date-tar it is nested in
          NightOf,    \* the night of a loose frame or of an archive
          Exposure, ExposureOf,
          Slot, SlotOf,
          Broken,     \* frames whose header cannot be read
          Ignored,    \* frames of test observations (number >= 999)
          Nothing,
          MaxScans, MaxCrashes, MaxGrowth

Members(a) == {Layout[a][i] : i \in 1..Len(Layout[a])}
Loose == RawFrame \ UNION {Members(a) : a \in Archive}

ASSUME CatalogAssumption ==
  /\ Night \subseteq Nat
  /\ Layout \in [Archive -> Seq(RawFrame)]
  /\ \A a \in Archive : Outer[a] \in Archive => Outer[a] = a
  /\ NightOf \in [Loose \union Archive -> Night]
  /\ ExposureOf \in [RawFrame -> Exposure]
  /\ SlotOf \in [RawFrame -> Slot]
  /\ RawFrame \intersect Archive = {} /\ Nothing \notin RawFrame \union Archive
  /\ MaxScans \in Nat /\ MaxCrashes \in Nat /\ MaxGrowth \in Nat

VARIABLES
  \* the storage
  length,    \* whole members of each archive so far
  torn,      \* the next member of it has been written in part
  ordered,   \* the root has night directories
  \* the raw registry
  rows,      \* rows of raw_files, by frame
  amplifier, \* the amplifier identity in them: of the header, or made up
  details,   \* exposure_details: none, empty or full
  index,     \* tar_files and tar_members of an archive, or Nothing
  \* each scan
  stage, todo,  \* loose frames and archives still to be visited
  active,    \* the archive being visited
  pos,       \* members of it taken so far
  listed,    \* members of it when it was listed, under another root
  current,   \* the frame being registered
  legible,   \* its header could be read
  evidence,  \* members whose position was observed
  meta,      \* what stat said
  metaCache, \* _IFUSLOT_META_CACHE of the process: unread, made up or of a header
  populated, \* _POPULATED_EXPOSURE_DETAILS of the process
  scans, deaths, growth,
  due,       \* history: the frames that were there when a scan began, in
             \* archives it has not passed over
  unread     \* history: frames a scan registered without having read the header

storage == <<length, torn, ordered>>
catalog == <<rows, amplifier, details, index>>
visit   == <<todo, active, pos, listed, current, legible, evidence, meta>>
caches  == <<metaCache, populated>>
bounds  == <<scans, deaths, growth>>
history == <<due, unread>>
catalogVars == <<storage, catalog, stage, visit, caches, bounds, history>>

First(a, n) == {Layout[a][i] : i \in 1..n}

\* Members whose tar header is there, and how much is written, which stat tells.
Begun(a)   == length[a] + (IF torn[a] THEN 1 ELSE 0)
Written(a) == length[a] + Begun(a)

\* The file it is in ends within a member, its own or one beside it.
CutShort(a) == \E b \in Archive : Outer[b] = Outer[a] /\ torn[b]

IndexRows == [meta : Nat, members : SUBSET RawFrame]

CatalogTypeOK ==
  /\ \A a \in Archive : length[a] \in 0..Len(Layout[a])
  /\ torn \in [Archive -> BOOLEAN]
  /\ \A a \in Archive : torn[a] => length[a] < Len(Layout[a])
  /\ ordered \in BOOLEAN
  /\ rows \in [RawFrame -> Nat]
  /\ amplifier \in [RawFrame -> {"none", "madeUp", "ofHeader"}]
  /\ details \in [Exposure -> {"none", "empty", "full"}]
  /\ index \in [Archive -> IndexRows \union {Nothing}]
  /\ stage \in [Scanner -> {"idle", "next", "ensure", "build", "header", "row", "details",
                         "stat", "persist", "done"}]
  /\ active \in [Scanner -> Archive \union {Nothing}]
  /\ current \in [Scanner -> RawFrame \union {Nothing}]
  /\ legible \in [Scanner -> BOOLEAN]
  /\ \A s \in Scanner : /\ todo[s] \subseteq Loose \union Archive
                        /\ active[s] # Nothing => evidence[s] \subseteq First(active[s], pos[s])
                        /\ pos[s] \in Nat /\ listed[s] \in Nat /\ meta[s] \in Nat
  /\ metaCache \in [Scanner -> [Slot -> {"none", "madeUp", "ofHeader"}]]
  /\ populated \in [Scanner -> SUBSET Exposure]
  /\ unread \in [Scanner -> SUBSET RawFrame]

CatalogInit ==
  /\ length \in [Archive -> 0..1]
  /\ torn \in [Archive -> BOOLEAN]
  /\ \A a \in Archive : Begun(a) <= Len(Layout[a])
  /\ ordered \in BOOLEAN
  /\ rows = [f \in RawFrame |-> 0]
  /\ amplifier = [f \in RawFrame |-> "none"]
  /\ details = [e \in Exposure |-> "none"]
  /\ index = [a \in Archive |-> Nothing]
  /\ stage = [s \in Scanner |-> "idle"]
  /\ todo = [s \in Scanner |-> {}]
  /\ active = [s \in Scanner |-> Nothing]
  /\ pos = [s \in Scanner |-> 0]
  /\ listed = [s \in Scanner |-> 0]
  /\ current = [s \in Scanner |-> Nothing]
  /\ legible = [s \in Scanner |-> FALSE]
  /\ evidence = [s \in Scanner |-> {}]
  /\ meta = [s \in Scanner |-> 0]
  /\ metaCache = [s \in Scanner |-> [i \in Slot |-> "none"]]
  /\ populated = [s \in Scanner |-> {}]
  /\ scans = 0
  /\ deaths = 0
  /\ growth = 0
  /\ due = [s \in Scanner |-> {}]
  /\ unread = [s \in Scanner |-> {}]

Goto(s, l) == stage' = [stage EXCEPT ![s] = l]

-----------------------------------------------------------------------------
(* Discovery (storage/filesystem.py and the loop of cmd_scan)               *)

\* A new process: empty caches, and the containers of an inclusive night range,
\* which a root without night directories ignores.
Begin(s, first, last) ==
  LET chosen == {c \in Loose \union Archive : ordered => NightOf[c] \in first..last}
  IN /\ stage[s] \in {"idle", "done"}
     /\ scans < MaxScans
     /\ scans' = scans + 1
     /\ todo' = [todo EXCEPT ![s] = chosen]
     /\ metaCache' = [metaCache EXCEPT ![s] = [i \in Slot |-> "none"]]
     /\ populated' = [populated EXCEPT ![s] = {}]
     /\ due' = [due EXCEPT ![s] =
          (chosen \intersect Loose) \union
            UNION {First(a, length[a]) : a \in chosen \intersect Archive}]
     /\ Goto(s, "next")
     /\ UNCHANGED <<storage, catalog, active, pos, listed, current, legible, evidence, meta,
                    deaths, growth, unread>>

\* Night after night under a root with night directories; loose frames first.
Precedes(c, d) ==
  \/ ordered /\ NightOf[c] < NightOf[d]
  \/ (ordered => NightOf[c] = NightOf[d]) /\ c \in Loose /\ d \in Archive

Foremost(s) == {c \in todo[s] : \A d \in todo[s] : ~ Precedes(d, c)}

NextLoose(s, f) ==
  /\ stage[s] = "next"
  /\ active[s] = Nothing
  /\ f \in Foremost(s) \intersect Loose
  /\ todo' = [todo EXCEPT ![s] = @ \ {f}]
  /\ current' = [current EXCEPT ![s] = f]
  /\ legible' = [legible EXCEPT ![s] = f \notin Broken]
  /\ Goto(s, "row")
  /\ UNCHANGED <<storage, catalog, active, pos, listed, evidence, meta, caches, bounds, history>>

\* An archive is read member by member under night directories and within a
\* date-tar; a plain archive under another root is listed when it is opened.
Streamed(a) == ordered \/ Outer[a] # a

OpenArchive(s, a) ==
  /\ stage[s] = "next"
  /\ active[s] = Nothing
  /\ a \in Foremost(s) \intersect Archive
  /\ Streamed(a) \/ ~CutShort(a)
  /\ todo' = [todo EXCEPT ![s] = @ \ {a}]
  /\ active' = [active EXCEPT ![s] = a]
  /\ pos' = [pos EXCEPT ![s] = 0]
  /\ listed' = [listed EXCEPT ![s] = length[a]]
  /\ evidence' = [evidence EXCEPT ![s] = {}]
  /\ UNCHANGED <<storage, catalog, stage, current, legible, meta, caches, bounds, history>>

\* Without night directories an archive that cannot be listed, and with it all
\* that is nested in it, is passed over without a word.
SkipArchive(s, a) ==
  /\ stage[s] = "next"
  /\ active[s] = Nothing
  /\ a \in Foremost(s) \intersect Archive
  /\ ~ordered /\ CutShort(a)
  /\ todo' = [todo EXCEPT ![s] = @ \ {a}]
  /\ due' = [due EXCEPT ![s] = @ \ Members(a)]
  /\ UNCHANGED <<storage, catalog, stage, active, pos, listed, current, legible, evidence, meta,
                 caches, bounds, unread>>

Available(s) == IF Streamed(active[s]) THEN Begun(active[s]) ELSE listed[s]

\* What a reader at the position of a member makes of its header: that of a
\* member written in part may be there or not.
AtOffset(a, i) ==
  IF Layout[a][i] \in Broken THEN {FALSE} ELSE IF i > length[a] THEN BOOLEAN ELSE {TRUE}

\* An ordered traversal reads the header in passing and notes the position;
\* otherwise the first member has the index built.
NextMember(s) ==
  /\ stage[s] = "next"
  /\ active[s] # Nothing
  /\ pos[s] < Available(s)
  /\ pos' = [pos EXCEPT ![s] = @ + 1]
  /\ LET f == Layout[active[s]][pos[s] + 1]
     IN /\ current' = [current EXCEPT ![s] = f]
        /\ evidence' = [evidence EXCEPT ![s] = IF ordered THEN @ \union {f} ELSE @]
  /\ \E h \in AtOffset(active[s], pos[s] + 1) :
       legible' = [legible EXCEPT ![s] = ordered /\ h]
  /\ Goto(s, IF ordered THEN "row" ELSE IF pos[s] = 0 THEN "ensure" ELSE "header")
  /\ UNCHANGED <<storage, catalog, todo, active, listed, meta, caches, bounds, history>>

\* finish_tar, when the next source is of another container or there is none; a
\* nested archive may also end within a member.
EndArchive(s) ==
  /\ stage[s] = "next"
  /\ active[s] # Nothing
  /\ pos[s] = Available(s)
  /\ ~(ordered /\ torn[active[s]])
  /\ IF evidence[s] # {}
       THEN Goto(s, "stat") /\ UNCHANGED active
       ELSE active' = [active EXCEPT ![s] = Nothing] /\ UNCHANGED stage
  /\ UNCHANGED <<storage, catalog, todo, pos, listed, current, legible, evidence, meta, caches,
                 bounds, history>>

\* The error of an ordered traversal that ends within a member is nobody's: the
\* command fails and what was seen of the archive is not persisted.
TraversalRaises(s) ==
  /\ stage[s] = "next"
  /\ active[s] # Nothing
  /\ pos[s] = Available(s)
  /\ ordered /\ torn[active[s]]
  /\ active' = [active EXCEPT ![s] = Nothing]
  /\ Goto(s, "idle")
  /\ UNCHANGED <<storage, catalog, todo, pos, listed, current, legible, evidence, meta, caches,
                 bounds, history>>

EndScan(s) ==
  /\ stage[s] = "next"
  /\ active[s] = Nothing
  /\ todo[s] = {}
  /\ Goto(s, "done")
  /\ UNCHANGED <<storage, catalog, visit, caches, bounds, history>>

-----------------------------------------------------------------------------
(* The index (registry/database.py)                                         *)

Matches(a, m) == index[a] # Nothing /\ index[a].meta = m

Stat(s) == meta' = [meta EXCEPT ![s] = Written(active[s])]

\* persist_tar_index_from_evidence: stat follows the traversal.
StatAfter(s) ==
  /\ stage[s] = "stat"
  /\ Stat(s)
  /\ Goto(s, "persist")
  /\ UNCHANGED <<storage, catalog, todo, active, pos, listed, current, legible, evidence,
                 caches, bounds, history>>

\* The savepoint makes the replacement one step.
Replace(a, m, members) == index' = [index EXCEPT ![a] = [meta |-> m, members |-> members]]

Persist(s) ==
  /\ stage[s] = "persist"
  /\ IF Matches(active[s], meta[s])
       THEN UNCHANGED index
       ELSE Replace(active[s], meta[s], evidence[s])
  /\ active' = [active EXCEPT ![s] = Nothing]
  /\ Goto(s, "next")
  /\ UNCHANGED <<storage, rows, amplifier, details, todo, pos, listed, current, legible,
                 evidence, meta, caches, bounds, history>>

\* ensure_tar_index: stat precedes the reading of the members.
EnsureIndex(s) ==
  /\ stage[s] = "ensure"
  /\ Stat(s)
  /\ Goto(s, IF Matches(active[s], Written(active[s])) THEN "header" ELSE "build")
  /\ UNCHANGED <<storage, catalog, todo, active, pos, listed, current, legible, evidence,
                 caches, bounds, history>>

\* Mutant: the metadata stored is that of the file as it was listed.
BuildIndexListed(s) ==
  /\ stage[s] = "build"
  /\ \/ CutShort(active[s]) /\ UNCHANGED index
     \/ ~torn[active[s]] /\ Replace(active[s], Written(active[s]), First(active[s], listed[s]))
  /\ Goto(s, "header")
  /\ UNCHANGED <<storage, rows, amplifier, details, visit, caches, bounds, history>>

\* An archive that cannot be listed leaves the index as it is; the caller ignores
\* the error.
BuildIndex(s) ==
  /\ stage[s] = "build"
  /\ \/ CutShort(active[s]) /\ UNCHANGED index
     \/ ~torn[active[s]] /\ Replace(active[s], meta[s], First(active[s], length[active[s]]))
  /\ Goto(s, "header")
  /\ UNCHANGED <<storage, rows, amplifier, details, visit, caches, bounds, history>>

-----------------------------------------------------------------------------
(* register_raw_file                                                        *)

\* A member is read at its indexed position, or else looked up in the archive,
\* which fails in one that cannot be listed.
Readings(s) ==
  IF index[active[s]] # Nothing /\ current[s] \in index[active[s]].members
    THEN AtOffset(active[s], pos[s])
    ELSE {h \in BOOLEAN : IF h THEN current[s] \notin Broken /\ ~torn[active[s]]
                          ELSE current[s] \in Broken \/ CutShort(active[s])}

ReadHeader(s) ==
  /\ stage[s] = "header"
  /\ \E h \in Readings(s) : legible' = [legible EXCEPT ![s] = h]
  /\ Goto(s, "row")
  /\ UNCHANGED <<storage, catalog, todo, active, pos, listed, current, evidence, meta, caches,
                 bounds, history>>

Header(s) == IF legible[s] THEN "ofHeader" ELSE "madeUp"

\* Mutant: the identity read once is used for every slot.
IdentityOfAny(s, f) ==
  IF \A i \in Slot : metaCache[s][i] = "none" THEN Header(s)
  ELSE metaCache[s][CHOOSE i \in Slot : metaCache[s][i] # "none"]

\* The identity of an IFU slot is read once in a process.
Identity(s, f) ==
  IF metaCache[s][SlotOf[f]] = "none" THEN Header(s) ELSE metaCache[s][SlotOf[f]]

\* The unique index does not see two rows of a loose frame as equal, because
\* their tar_member is NULL.
Conflicts(f) == f \notin Loose /\ rows[f] > 0

InsertRow(s) ==
  LET f == current[s]
  IN /\ stage[s] = "row"
     /\ IF f \in Ignored
          THEN Goto(s, "next") /\ UNCHANGED <<rows, amplifier, metaCache, unread>>
          ELSE /\ metaCache' = [metaCache EXCEPT ![s][SlotOf[f]] = Identity(s, f)]
               /\ amplifier' = [amplifier EXCEPT ![f] = Identity(s, f)]
               /\ rows' = [rows EXCEPT ![f] = IF Conflicts(f) THEN @ ELSE @ + 1]
               /\ unread' = [unread EXCEPT ![s] = IF legible[s] THEN @ ELSE @ \union {f}]
               /\ Goto(s, "details")
     /\ UNCHANGED <<storage, details, index, visit, populated, bounds, due>>

\* Mutant: an exposure that has a row already counts as populated.
InsertDetailsOfNew(s) ==
  LET f == current[s]
      e == ExposureOf[f]
  IN /\ stage[s] = "details"
     /\ details' = [details EXCEPT ![e] =
          IF rows[f] > 1 \/ \E g \in RawFrame \ {f} : ExposureOf[g] = e /\ rows[g] > 0 THEN @
          ELSE IF legible[s] THEN "full" ELSE "empty"]
     /\ populated' = [populated EXCEPT ![s] = @ \union {e}]
     /\ Goto(s, "next")
     /\ UNCHANGED <<storage, rows, amplifier, index, visit, metaCache, bounds, history>>

\* Once for each exposure and process; a value that is there is kept.
InsertDetails(s) ==
  LET f == current[s]
      e == ExposureOf[f]
  IN /\ stage[s] = "details"
     /\ details' = [details EXCEPT ![e] =
          IF e \in populated[s] \/ @ = "full" THEN @
          ELSE IF legible[s] THEN "full" ELSE "empty"]
     /\ populated' = [populated EXCEPT ![s] = @ \union {e}]
     /\ Goto(s, "next")
     /\ UNCHANGED <<storage, rows, amplifier, index, visit, metaCache, bounds, history>>

-----------------------------------------------------------------------------

\* An archive is still being copied to the root: the next member begins, or is
\* there as a whole.
Grow(a) ==
  /\ length[a] < Len(Layout[a])
  /\ growth < MaxGrowth
  /\ growth' = growth + 1
  /\ torn' = [torn EXCEPT ![a] = ~@]
  /\ length' = [length EXCEPT ![a] = IF torn[a] THEN @ + 1 ELSE @]
  /\ UNCHANGED <<ordered, catalog, stage, visit, caches, scans, deaths, history>>

\* The process of a scan dies.
ScanDies(s) ==
  /\ stage[s] \notin {"idle", "done"}
  /\ deaths < MaxCrashes
  /\ deaths' = deaths + 1
  /\ active' = [active EXCEPT ![s] = Nothing]
  /\ Goto(s, "idle")
  /\ UNCHANGED <<storage, catalog, todo, pos, listed, current, legible, evidence, meta, caches,
                 scans, growth, history>>

CatalogNext ==
  \/ \E s \in Scanner :
       \/ \E first, last \in Night : Begin(s, first, last)
       \/ \E f \in Loose : NextLoose(s, f)
       \/ \E a \in Archive : OpenArchive(s, a) \/ SkipArchive(s, a)
       \/ NextMember(s) \/ EndArchive(s) \/ TraversalRaises(s) \/ EndScan(s)
       \/ StatAfter(s) \/ Persist(s) \/ EnsureIndex(s) \/ BuildIndex(s)
       \/ ReadHeader(s) \/ InsertRow(s) \/ InsertDetails(s) \/ ScanDies(s)
  \/ \E a \in Archive : Grow(a)

CatalogSpec == CatalogInit /\ [][CatalogNext]_catalogVars

-----------------------------------------------------------------------------
(* Properties                                                              *)

Ended(s) == stage[s] = "done"

\* A scan that ends has registered every frame that was there when it began,
\* but for archives it found cut short under a root without night directories,
\* each with its exposure's details, whatever an earlier scan that died left
\* half done, and no archive member twice.
ScanComplete ==
  \A s \in Scanner : Ended(s) => \A f \in due[s] \ Ignored :
    rows[f] >= 1 /\ details[ExposureOf[f]] # "none" /\ (f \notin Loose => rows[f] = 1)

\* An exposure has its details in full as soon as a process that could read the
\* header of each frame of it that it met has ended its scan, whatever the
\* processes before it could read; and a frame has the amplifier of its header
\* while every process could read those of the slot.
MetadataWhole ==
  \A s \in Scanner : Ended(s) => \A f \in due[s] \ Ignored :
    /\ (\A g \in unread[s] : ExposureOf[g] # ExposureOf[f])
         => details[ExposureOf[f]] = "full"
    /\ (\A r \in Scanner : \A g \in unread[r] : SlotOf[g] # SlotOf[f])
         => amplifier[f] = "ofHeader"

\* An index that claims to describe the archive as it is, lists all its whole
\* members, when it was built by ensure_tar_index.
IndexCurrent ==
  ~ordered => \A a \in Archive :
    Matches(a, Written(a)) => index[a].members = First(a, length[a])
=============================================================================
