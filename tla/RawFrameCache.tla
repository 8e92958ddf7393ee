---------------------------- MODULE RawFrameCache ----------------------------
(***************************************************************************)
(* RawFrameLoader (io/raw.py): the pool threads of one run load raw frames *)
(* through a process-wide cache with a byte limit.  The first thread that  *)
(* misses a frame reads it and registers an Event, on which later threads  *)
(* wait; a thread that wakes and still misses reads too, without           *)
(* registering.  Only the blocks under _cache_lock are atomic.             *)
(***************************************************************************)
EXTENDS Integers, Sequences, FiniteSets

CONSTANTS Reader,      \* pool threads
          Frame,       \* raw frame identities
          Size,        \* bytes of each frame
          Limit,       \* VIRUSFLOW_RAW_CACHE_MAX_BYTES
          NoReader,
          MaxLoads     \* bound on load calls of the run

ASSUME CacheAssumption ==
  /\ IsFiniteSet(Frame) /\ Frame # {}
  /\ Size \in [Frame -> Nat]
  /\ Limit \in Nat
  /\ NoReader \notin Reader
  /\ MaxLoads \in Nat

VARIABLES
  cache,     \* _cache of this run, oldest first
  bytes,     \* _cache_bytes of this run
  inflight,  \* the thread whose Event is registered for a frame, or NoReader
  pc,        \* where each thread is in load
  wanted,    \* the frame it was last asked for
  loads,     \* load calls so far
  cleared    \* the run is over and clear_run_cache was called

held  == <<cache, bytes>>
calls == <<wanted, loads, cleared>>
cacheVars ==  <<held, inflight, pc, calls>>

\* For what is held see CacheBounded.
CacheTypeOK ==
  /\ inflight \in [Frame -> Reader \union {NoReader}]
  /\ pc \in [Reader -> {"idle", "read", "wait", "woken"}]
  /\ wanted \in [Reader -> Frame]
  /\ loads \in 0..MaxLoads
  /\ cleared \in BOOLEAN

CacheInit ==
  /\ cache = <<>>
  /\ bytes = 0
  /\ inflight = [f \in Frame |-> NoReader]
  /\ pc = [r \in Reader |-> "idle"]
  /\ wanted = [r \in Reader |-> CHOOSE f \in Frame : TRUE]
  /\ loads = 0
  /\ cleared = FALSE

-----------------------------------------------------------------------------
(* The cache                                                               *)

Cached == {cache[i] : i \in 1..Len(cache)}

Weight(frames) ==
  LET sum[i \in 0..Len(frames)] == IF i = 0 THEN 0 ELSE sum[i - 1] + Size[frames[i]]
  IN  sum[Len(frames)]

\* move_to_end, of a key that is there or is put there.
Latest(frames, f) ==
  LET n == Len(frames)
      i == CHOOSE j \in 1..n : frames[j] = f
  IN  IF \A j \in 1..n : frames[j] # f THEN Append(frames, f)
      ELSE [j \in 1..n |-> IF j < i THEN frames[j] ELSE IF j < n THEN frames[j + 1] ELSE f]

\* Mutant: one victim at most is evicted.
VictimsAtMostOne(frames, counted) == IF counted > Limit /\ frames # <<>> THEN 1 ELSE 0

\* How many of the oldest frames the loop pops: until the counter fits or no
\* victim is left.
Victims(frames, counted) ==
  CHOOSE k \in 0..Len(frames) :
    /\ counted - Weight(SubSeq(frames, 1, k)) <= Limit \/ k = Len(frames)
    /\ \A j \in 0..(k - 1) : counted - Weight(SubSeq(frames, 1, j)) > Limit

\* The counter grows also when the frame was there.
Insert(f) ==
  IF Size[f] > Limit
    THEN UNCHANGED held
    ELSE LET frames  == Latest(cache, f)
             counted == bytes + Size[f]
             k       == Victims(frames, counted)
             gone    == SubSeq(frames, 1, k)
         IN /\ cache' = SubSeq(frames, k + 1, Len(frames))
            /\ bytes' = counted - Weight(gone)

-----------------------------------------------------------------------------
(* load                                                                    *)

\* The first block under the lock: found, or first to miss, or somebody reads.
Ask(r, f) ==
  /\ pc[r] = "idle"
  /\ ~cleared
  /\ loads < MaxLoads
  /\ loads' = loads + 1
  /\ wanted' = [wanted EXCEPT ![r] = f]
  /\ \/ /\ f \in Cached
        /\ cache' = Latest(cache, f)
        /\ UNCHANGED <<pc, inflight>>
     \/ /\ f \notin Cached
        /\ inflight[f] = NoReader
        /\ inflight' = [inflight EXCEPT ![f] = r]
        /\ pc' = [pc EXCEPT ![r] = "read"]
        /\ UNCHANGED cache
     \/ /\ f \notin Cached
        /\ inflight[f] # NoReader
        /\ pc' = [pc EXCEPT ![r] = "wait"]
        /\ UNCHANGED <<cache, inflight>>
  /\ UNCHANGED <<bytes, cleared>>

\* After wait(): the second look, which neither moves the entry nor registers.
LookAgain(r) ==
  /\ pc[r] = "woken"
  /\ pc' = [pc EXCEPT ![r] = IF wanted[r] \in Cached THEN "idle" ELSE "read"]
  /\ UNCHANGED <<held, inflight, calls>>

\* Mutant: only the thread that registered the Event sets it.
ReleaseOwnOnly(r, f) ==
  /\ inflight' = [inflight EXCEPT ![f] = NoReader]
  /\ pc' = [q \in Reader |-> IF q = r THEN "idle"
                             ELSE IF pc[q] = "wait" /\ wanted[q] = f /\ inflight[f] = r
                               THEN "woken" ELSE pc[q]]

\* Whatever Event is registered for the frame is popped and set, also one of
\* another thread; then this load returns or raises.
Release(r, f) ==
  /\ inflight' = [inflight EXCEPT ![f] = NoReader]
  /\ pc' = [q \in Reader |-> IF q = r THEN "idle"
                             ELSE IF pc[q] = "wait" /\ wanted[q] = f THEN "woken"
                             ELSE pc[q]]

\* Mutant: the exception leaves the Event registered.
ReadFailsSilently(r) ==
  /\ pc[r] = "read"
  /\ pc' = [pc EXCEPT ![r] = "idle"]
  /\ UNCHANGED <<held, inflight, calls>>

\* _read_physical raises.
ReadFails(r) ==
  /\ pc[r] = "read"
  /\ Release(r, wanted[r])
  /\ UNCHANGED <<held, calls>>

ReadDone(r) ==
  /\ pc[r] = "read"
  /\ Insert(wanted[r])
  /\ Release(r, wanted[r])
  /\ UNCHANGED calls

\* clear_run_cache, which run calls after it left the pool.
ClearRun ==
  /\ ~cleared
  /\ \A r \in Reader : pc[r] = "idle"
  /\ cleared' = TRUE
  /\ cache' = <<>>
  /\ bytes' = 0
  /\ UNCHANGED <<inflight, pc, wanted, loads>>

Continue(r) == LookAgain(r) \/ ReadFails(r) \/ ReadDone(r)

CacheNext ==
  \/ \E r \in Reader : (\E f \in Frame : Ask(r, f)) \/ Continue(r)
  \/ ClearRun

CacheSpec == CacheInit /\ [][CacheNext]_cacheVars

\* A physical read returns or raises, and a thread that was woken goes on.
FairCacheSpec == CacheSpec /\ \A r \in Reader : WF_cacheVars(Continue(r))

-----------------------------------------------------------------------------
(* Properties                                                              *)

\* What the cache of a run holds stays within its byte limit, although several
\* threads insert the same frame and the counter then counts it twice: a frame
\* has at most one entry, and the counter never falls short of what is held, so
\* eviction starts in time (raw.py:137).
CacheBounded ==
  /\ cache \in Seq(Frame)
  /\ Cardinality(Cached) = Len(cache)
  /\ Weight(cache) <= bytes
  /\ Weight(cache) <= Limit

\* Nobody waits for an Event that nobody will set: for each frame waited for
\* there is a registered Event, and the thread that registered it still reads.
WaiterHasReader ==
  \A r \in Reader : pc[r] = "wait" =>
    \E q \in Reader : inflight[wanted[r]] = q /\ pc[q] = "read" /\ wanted[q] = wanted[r]

\* Every load ends: no thread waits for ever, also when reads fail.
LoadsEnd == \A r \in Reader : pc[r] # "idle" ~> pc[r] = "idle"
=============================================================================
