------------------------------ MODULE RunCaches ------------------------------
(***************************************************************************)
(* The two caches the threads of a run share: the raw frames of            *)
(* RawFrameCache, and the fiber-position tables of ConfigurationService.   *)
(* A table is parsed once per process, without a lock, and every IFU's     *)
(* corrections are made on a copy of it; the positions go back by          *)
(* amplifier, in the order of the extracted spectra.                       *)
(***************************************************************************)
EXTENDS RawFrameCache

CONSTANTS
  Ifu,         \* IFUIDs that are looked up
  PerAmp,      \* fibers of an amplifier (112)
  Amps,        \* amplifiers in the order of their slices
  Alternate,   \* IFUs with a table of their own, "alternate"
  Contents,    \* what each table file holds: the position of each fiber
  Reversals,   \* right_side_reversals: IFU -> the first and last fiber, or <<>>
  Swaps        \* coordinate_swaps: IFU -> pairs of fibers

Tables == {"default", "alternate"}
Fibers == PerAmp * Len(Amps)

ASSUME GeometryAssumption ==
  /\ PerAmp \in Nat \ {0}
  /\ Amps \in Seq(STRING)
  /\ Alternate \subseteq Ifu
  /\ Contents \in [Tables -> [1..Fibers -> 1..Fibers]]
  /\ \A t \in Tables : \A i, j \in 1..Fibers : Contents[t][i] = Contents[t][j] => i = j
  /\ \A u \in Ifu : Reversals[u] \in {<<>>} \union ((1..Fibers) \X (1..Fibers))
  /\ \A u \in Ifu : Swaps[u] \in Seq((1..Fibers) \X (1..Fibers))

VARIABLES
  parsed,  \* tables _load_fiber_position_table has retained
  broken,  \* tables whose file is absent or of another shape
  at,      \* where each thread is in fiber_offsets
  ifu,     \* the IFU it was last asked for
  working, \* the table in its hands
  offsets  \* what fiber_offsets last returned to it, <<>>: nothing

geometry == <<parsed, broken, at, ifu, working, offsets>>
allCaches == <<cacheVars, geometry>>

GeometryInit ==
  /\ CacheInit
  /\ parsed = [t \in Tables |-> <<>>]
  /\ broken \in SUBSET Tables
  /\ at = [r \in Reader |-> "out"]
  /\ ifu = [r \in Reader |-> CHOOSE u \in Ifu : TRUE]
  /\ working = [r \in Reader |-> <<>>]
  /\ offsets = [r \in Reader |-> <<>>]

-----------------------------------------------------------------------------
(* One IFU's table                                                         *)

TableOf(u) == IF u \in Alternate THEN "alternate" ELSE "default"

\* The rows from first to last, last one first.
Reversed(table, u) ==
  IF Reversals[u] = <<>> THEN table
  ELSE LET low  == Reversals[u][1]
           high == Reversals[u][2]
       IN  [i \in DOMAIN table |->
              IF i \in low..high THEN table[low + high - i] ELSE table[i]]

\* Mutant: the second assignment reads what the first one wrote.
SwappedInPlace(table, pair) == [table EXCEPT ![pair[1]] = table[pair[2]]]

\* Two fibers change places.
Swapped(table, pair) ==
  [table EXCEPT ![pair[1]] = table[pair[2]], ![pair[2]] = table[pair[1]]]

Corrected(table, u) ==
  LET after[n \in 0..Len(Swaps[u])] ==
        IF n = 0 THEN Reversed(table, u) ELSE Swapped(after[n - 1], Swaps[u][n])
  IN  after[Len(Swaps[u])]

\* fiber_positions of the a-th amplifier: its slice, backwards.
Positions(table, a) == [i \in 1..PerAmp |-> table[a * PerAmp + 1 - i]]

ByAmp(table) == [a \in 1..Len(Amps) |-> Positions(table, a)]

-----------------------------------------------------------------------------
(* fiber_offsets in a thread                                               *)

Go(r, l) == at' = [at EXCEPT ![r] = l]

AskOffsets(r, u) ==
  /\ pc[r] = "idle" /\ at[r] = "out"
  /\ ~cleared
  /\ loads < MaxLoads
  /\ loads' = loads + 1
  /\ ifu' = [ifu EXCEPT ![r] = u]
  /\ offsets' = [offsets EXCEPT ![r] = <<>>]
  /\ working' = [working EXCEPT ![r] = parsed[TableOf(u)]]
  /\ Go(r, IF parsed[TableOf(u)] = <<>> THEN "parse" ELSE "correct")
  /\ UNCHANGED <<held, inflight, pc, wanted, cleared, parsed, broken>>

\* A file that is absent or of another shape raises, which is not retained;
\* threads that missed together parse it each.
Parse(r) ==
  /\ at[r] = "parse"
  /\ IF TableOf(ifu[r]) \in broken
       THEN Go(r, "out") /\ UNCHANGED <<parsed, working>>
       ELSE /\ parsed' = [parsed EXCEPT ![TableOf(ifu[r])] = Contents[TableOf(ifu[r])]]
            /\ working' = [working EXCEPT ![r] = Contents[TableOf(ifu[r])]]
            /\ Go(r, "correct")
  /\ UNCHANGED <<cacheVars, broken, ifu, offsets>>

\* Mutant: the corrections are made in the retained table.
RetainedCorrected(r) ==
  [parsed EXCEPT ![TableOf(ifu[r])] = Corrected(working[r], ifu[r])]

\* The retained tables after the corrections, which are made on a copy.
Retained(r) == parsed

Correct(r) ==
  /\ at[r] = "correct"
  /\ parsed' = Retained(r)
  /\ offsets' = [offsets EXCEPT ![r] = ByAmp(Corrected(working[r], ifu[r]))]
  /\ working' = [working EXCEPT ![r] = <<>>]
  /\ Go(r, "out")
  /\ UNCHANGED <<cacheVars, broken, ifu>>

\* The operator puts a table in place.
Mend(t) ==
  /\ t \in broken
  /\ broken' = broken \ {t}
  /\ UNCHANGED <<cacheVars, parsed, at, ifu, working, offsets>>

LocatesOrLoads ==
  \/ \E r \in Reader : at[r] = "out" /\ ((\E f \in Frame : Ask(r, f)) \/ Continue(r))
       /\ UNCHANGED geometry
  \/ (\A r \in Reader : at[r] = "out") /\ ClearRun /\ UNCHANGED geometry
  \/ \E r \in Reader : (\E u \in Ifu : AskOffsets(r, u)) \/ Parse(r) \/ Correct(r)
  \/ \E t \in Tables : Mend(t)

CachesSpec == GeometryInit /\ [][LocatesOrLoads]_allCaches

\* A physical read returns or raises, and a thread that was woken goes on.
FairCaches ==
  /\ CachesSpec
  /\ \A r \in Reader : WF_allCaches(Continue(r) /\ UNCHANGED geometry)

-----------------------------------------------------------------------------
(* Trace references                                                        *)

\* resolve_trace_reference among the directories named in names, in their
\* sorted order: the nearest in days, the first of several; a name that is no
\* date, not a number here, is infinitely far.
Distance(name, day) == IF name > day THEN name - day ELSE day - name

Nearer(x, y, day) == x \in Nat /\ (y \in Nat => Distance(x, day) < Distance(y, day))

TraceReference(names, day) ==
  names[CHOOSE i \in DOMAIN names :
          \A j \in DOMAIN names :
            /\ ~Nearer(names[j], names[i], day)
            /\ j < i => Nearer(names[i], names[j], day)]

-----------------------------------------------------------------------------
(* Properties                                                              *)

\* Where a fiber is depends on its IFU alone: whatever IFUs were looked up
\* before or beside it, and whether the file was there at first, a thread gets
\* its table with its corrections, and every position exactly once
\* (config/service.py:241).
GeometryOfIfu ==
  \A r \in Reader : offsets[r] # <<>> =>
    /\ offsets[r] = ByAmp(Corrected(Contents[TableOf(ifu[r])], ifu[r]))
    /\ \A p \in 1..Fibers : \E a \in 1..Len(Amps) : \E i \in 1..PerAmp : offsets[r][a][i] = p
=============================================================================
