----------------------------- MODULE RunReport -----------------------------
(***************************************************************************)
(* What a run of PlanningExecutor tells about itself: the timing record of  *)
(* every attempt, written by the pool threads and the coordinator and       *)
(* persisted when the loop has ended, and the progress lines that the       *)
(* coordinator and a heartbeat thread write.  Each step of DagExecutor is   *)
(* taken with what it reports; a line that cannot be written ends the run.  *)
(***************************************************************************)
EXTENDS DagExecutor

VARIABLES
  mode,      \* how the reporter renders; "off": progress=False
  emitting,  \* the coordinator has a line to write
  held,      \* the node that it submits to the pool after this line
  heartbeat, \* the periodic thread
  beat,      \* the snapshot the thread took and has not written yet
  last,      \* the last line: who wrote it, and its snapshot
  timings,   \* PerformanceRun.tasks
  rows,      \* performance_tasks of this run
  summary,   \* status in its performance_runs row
  closing,   \* where run() is after the loop
  timedOut   \* the thread was not joined in time

lines    == <<mode, emitting, held, heartbeat, beat, last>>
recorder == <<timings, rows, summary>>
report   == <<lines, recorder, closing, timedOut>>

\* GraphProgress.snapshot: how many nodes are in each state.
Snapshot == [s \in ProgressStates \ {"absent"} |-> Cardinality({n \in Node : progress[n] = s})]

NoLine == [by |-> "none", counts |-> [s \in ProgressStates \ {"absent"} |-> 0]]

ReportInit ==
  /\ mode \in {"off", "tty", "plain"}
  /\ emitting = FALSE /\ held = {} /\ heartbeat = "none"
  /\ beat = NoLine.counts /\ last = NoLine
  /\ timings = {} /\ rows = {} /\ summary = "none"
  /\ closing = "no" /\ timedOut = FALSE

-----------------------------------------------------------------------------
(* PerformanceRun                                                          *)

Timing(n, k, s) == [task |-> n, attempt |-> k, status |-> s]

\* Mutant: attempts are counted from zero again after a retry.
StampedFirst(n) == 1

\* The number of the attempt, read by the pool thread.
Stamped(n) == attempts[n]

Begin(n) == timings' = timings \union {Timing(n, Stamped(n), "running")}

\* The record of the thread's own attempt; an interrupt is a failure here.
End(n) ==
  timings' = {IF t.task = n /\ t.status = "running"
                THEN [t EXCEPT !.status = IF future'[n] = "ok" THEN "succeeded" ELSE "failed"]
                ELSE t : t \in timings}

\* record_terminal, for what is never run.
Recorded(n, s) == timings' = timings \union {Timing(n, 0, s)}

Observed == {n \in Node : progress[n] \in {"cached", "skipped"}}

-----------------------------------------------------------------------------
(* Steps of the executor with what they report                             *)

Quiet == UNCHANGED <<mode, heartbeat, beat, last, rows, summary, closing, timedOut>>

\* A line is to be written, after which the nodes of "after" go to the pool.
Tell(after) ==
  /\ emitting' = (mode # "off")
  /\ held' = IF mode = "off" THEN {} ELSE after
  /\ Quiet

BeginRun ==
  /\ StartRun
  /\ timings' = {Timing(n, 0, progress[n]) : n \in Observed}
  /\ Tell({})

ReportBlocked ==
  /\ ~emitting /\ DispatchBlocked
  /\ Recorded(Head(ready), "blocked")
  /\ Tell({})

\* A transition and the emit after it; the timing is only passed on.
ReportMoved ==
  /\ ~emitting
  /\ \/ DispatchRun /\ Tell({Head(ready)})
     \/ \E n \in Node : (CollectRetry(n) \/ CollectFailure(n) \/ CollectSuccess(n)) /\ Tell({})
  /\ UNCHANGED timings

Untold ==
  /\ ~emitting
  /\ StartRejected \/ StartWait \/ WaitReturns \/ PoolShutdown
  /\ UNCHANGED report

LoopEnds ==
  /\ ~emitting /\ Finish
  /\ closing' = IF phase' = "finished" THEN "stop" ELSE closing
  /\ UNCHANGED <<lines, recorder, timedOut>>

ReportedWorker(n) ==
  \/ n \notin held /\ WorkerBegin(n) /\ Begin(n) /\ UNCHANGED <<emitting, held>> /\ Quiet
  \/ WorkerEnd(n) /\ End(n) /\ UNCHANGED <<emitting, held>> /\ Quiet

-----------------------------------------------------------------------------
(* ProgressReporter                                                        *)

\* emit: nothing but the coordinator moves the progress, so its snapshot is
\* current when it gets the lock.  The first line starts the thread; without a
\* terminal a later one is only written when the interval has passed.
Emit ==
  /\ emitting /\ phase \in {"running", "finished"}
  /\ \/ last' = [by |-> "coordinator", counts |-> Snapshot]
     \/ mode = "plain" /\ last # NoLine /\ UNCHANGED last
  /\ emitting' = FALSE /\ held' = {}
  /\ heartbeat' = IF heartbeat = "none" /\ mode = "plain" THEN "waiting" ELSE heartbeat
  /\ UNCHANGED <<vars, mode, beat, recorder, closing, timedOut>>

\* The stream or the structured file cannot be written: the exception leaves
\* the loop like an interrupt, or start() before there is a pool.  What waited
\* for the line is not submitted.
EmitFails ==
  /\ emitting /\ phase = "running"
  /\ emitting' = FALSE /\ held' = {}
  /\ future' = [n \in Node |-> IF n \in held THEN "none" ELSE future[n]]
  /\ phase' = IF last = NoLine THEN "interrupted" ELSE "draining"
  /\ UNCHANGED <<graph, progress, loop, inputs, runStatus, mode, heartbeat, beat, last,
                 recorder, closing, timedOut>>

Stopped == closing \notin {"no", "stop"}

\* _periodic: the interval passes, a snapshot is taken, then the lock.
Beat ==
  /\ heartbeat = "waiting" /\ ~Stopped
  /\ heartbeat' = "beating" /\ beat' = Snapshot
  /\ UNCHANGED <<vars, mode, emitting, held, last, recorder, closing, timedOut>>

BeatWrites ==
  /\ heartbeat = "beating"
  /\ \/ heartbeat' = "waiting" /\ last' = [by |-> "heartbeat", counts |-> beat]
     \/ heartbeat' = "ended" /\ UNCHANGED last
  /\ UNCHANGED <<vars, mode, emitting, held, beat, recorder, closing, timedOut>>

BeatStops ==
  /\ heartbeat = "waiting" /\ Stopped
  /\ heartbeat' = "ended"
  /\ UNCHANGED <<vars, mode, emitting, held, beat, last, recorder, closing, timedOut>>

-----------------------------------------------------------------------------
(* run() after the loop                                                    *)

Then(c) == closing' = c /\ UNCHANGED <<vars, mode, held, heartbeat, beat, timings>>

\* finish: set the event, join for at most two intervals, write the last line.
Stop ==
  /\ closing = "stop"
  /\ Then(IF mode = "off" THEN "report" ELSE "join")
  /\ UNCHANGED <<emitting, last, rows, summary, timedOut>>

\* Mutant: the thread is not joined.
JoinedAlways == TRUE

Joined == heartbeat \notin {"waiting", "beating"}

Join ==
  /\ closing = "join"
  /\ timedOut' = ~Joined
  /\ Then("last")
  /\ UNCHANGED <<emitting, last, rows, summary>>

LastLine ==
  /\ closing = "last"
  /\ \/ last' = [by |-> "final", counts |-> Snapshot] /\ Then("report")
     \/ UNCHANGED last /\ Then("raised")
  /\ UNCHANGED <<emitting, rows, summary, timedOut>>

\* The report's files, where they are asked for.
WriteReport ==
  /\ closing = "report"
  /\ Then("persist") \/ Then("raised")
  /\ UNCHANGED <<emitting, last, rows, summary, timedOut>>

\* The run's row and one for each attempt, in one transaction, which a report
\* that was not written or a registry that stays locked prevents.
Persist ==
  /\ closing = "persist"
  /\ \/ rows' = timings /\ summary' = runStatus /\ Then("closed")
     \/ UNCHANGED <<rows, summary>> /\ Then("raised")
  /\ UNCHANGED <<emitting, last, timedOut>>

Closing == Stop \/ Join \/ LastLine \/ WriteReport \/ Persist

-----------------------------------------------------------------------------
ReportedCoordinator ==
  \/ BeginRun
  \/ ReportBlocked
  \/ ReportMoved
  \/ Untold
  \/ LoopEnds
  \/ Emit
  \/ EmitFails

Heartbeat == Beat \/ BeatWrites \/ BeatStops

Executing ==
  \/ ReportedCoordinator
  \/ Interrupt /\ UNCHANGED report
  \/ \E n \in Node : ReportedWorker(n)
  \/ Heartbeat
  \/ Closing

ReportNext ==
  \/ Build /\ UNCHANGED report
  \/ Executing

all == <<vars, report>>

RunInit == Init /\ ReportInit

ReportSpec == RunInit /\ [][ReportNext]_all

\* As in FairSpec; a write returns or raises, and the thread gets the lock.
Fairness ==
  /\ WF_all(phase \in {"running", "draining"} /\ ReportedCoordinator)
  /\ \A n \in Node : WF_all(ReportedWorker(n))
  /\ WF_all(Closing)

FairReportSpec == ReportSpec /\ Fairness

-----------------------------------------------------------------------------
(* Properties                                                              *)

Rows(n) == {r \in rows : r.task = n}

\* list_latest_terminal_task_failures: the latest attempt of a task failed.
LatestFailed(n) ==
  \E r \in Rows(n) : r.status = "failed" /\ \A s \in Rows(n) : s.attempt <= r.attempt

\* The rows tell the next plan what happened: one for each attempt although
\* threads write them, none unfinished, the last one as the task ended, so
\* that the tasks it takes for failed are those that were; and the run says
\* "succeeded" exactly when all of them did (timing.py:682, database.py:2601).
OutcomesPersisted ==
  summary # "none" =>
    /\ summary = "succeeded" <=> \A n \in Registered : progress[n] = "succeeded"
    /\ \A n \in Registered :
         /\ {r.attempt : r \in Rows(n)} = IF progress[n] = "blocked" THEN {0} ELSE 1..attempts[n]
         /\ Cardinality(Rows(n)) = Cardinality({r.attempt : r \in Rows(n)})
         /\ LatestFailed(n) <=> progress[n] = "failed"
    /\ \A r \in rows : r.status # "running"

\* When run() has returned nothing follows it: no task executes, and unless
\* the heartbeat thread was given up on, the last line is the final one, in
\* which every node is settled (progress.py:478, planning_executor.py:261).
QuietAtEnd ==
  /\ phase \in {"finished", "interrupted"} =>
       \A n \in Node : future[n] \notin {"submitted", "executing"}
  /\ closing = "closed" /\ mode # "off" /\ ~timedOut =>
       /\ last.by = "final"
       /\ last.counts["pending"] = 0 /\ last.counts["running"] = 0

\* A started run returns or raises: no wait(), no worker, no line and no
\* thread holds it up, and finalize finds every node settled
\* (planning_executor.py:301, progress.py:152).
RunEnds ==
  phase = "running" ~> closing \in {"closed", "raised"} \/ phase = "interrupted"
=============================================================================
