# VIRUSFlow: a TLA+ verification project

VIRUSFlow reduces the frames of a spectrograph with many detectors. It catalogs
raw frames, groups them into calibration targets, executes graphs of tasks on a
thread pool, publishes every result as an immutable Artifact in a SQLite
registry with payload files beside it, removes dense payloads again when
compact evidence exists, and reduces science exposures with the calibrations it
selects from the registry. Several processes may share one registry. This
project models that control. The numbers (images, fits, spectra) are left out.

1. Inventory of the system
2. Modules and how they correspond to the code
3. Runs, bounds, fairness
4. Proofs
5. What the code does otherwise than it says
6. What is not modelled
7. Plan

## 1. Inventory

Paths are below `src/virusflow/`.

| Component | State | Operations | Interacts with |
|---|---|---|---|
| Raw scanning (`storage/filesystem.py`, `registry/database.py`, `cli/virusflow.py` `cmd_scan`) | rows of frames, exposures and amplifiers; tar member index; caches of the process | scan a range of nights, index an archive | planner, raw frame cache; other scans |
| Cadence (`planning/cadence.py`) | none | group the frames of a kind, pair lamp groups | planner; reads a catalog that scans extend |
| Planner (`planning/graph.py`) | none of its own; reads registry, verdicts and recorded outcomes | `plan`, `--force-replan` | input of the scheduler |
| Scheduler (`planning/scheduler.py`) | none; produces node ids and dependencies | `schedule`, QA gates | input of the executor |
| Executor (`executors/planning_executor.py`, `progress.py`) | nodes and dependencies, in-degrees, the ready deque, in-flight futures, results, attempts, progress states | `add_task`, `add_observed`, `run` and its pool threads, interrupt, progress lines and the heartbeat thread | calls tasks on pool threads, which read its results while it writes them; gives outcomes to the performance recorder |
| Calibration command (`cli/virusflow.py` `cmd_run_calibrations`, `planning/config.py`, `planning/validate.py`, `planning/defaults.py`) | the graph of kinds, the plan, the execution report | read and validate a planning file, plan, schedule, run, report, exit code | planner, scheduler, executor |
| Calibration tasks (`tasks/calibs.py`) | loaded inputs | resolve inputs, load, compute, publish, evaluate QA, trigger retention | registry and payloads |
| Exposure reduction (`tasks/exposure.py`, `tasks/science.py`) | reduced amplifiers in memory, failures, exclusions; the accepted solution of the inference; the extinction in use | select calibrations, reduce, model, extract, assemble; infer pointing, sources and sky; take out the extinction; extract a point source | registry, raw frame cache |
| Science observation (`tasks/exposure.py`, `tasks/observation.py`, `cmd_run_observation`) | products of the exposures, the shared baseline | match a catalog, publish, judge, select members, combine | registry, executor |
| Publication (`publication/service.py`, `artifacts/service.py` `persist_request`, `artifacts/registry_adapter.py`, `registry/database.py`) | `artifacts`, `provenance`, canonical details, measurement-group slots, payload files | publish, roll back, apply group relations, invalidate by kind, purge payload | called by every task; shares the registry with other processes |
| Payload retention (`artifacts/retention.py`, `artifacts/service.py` `evict_payload`, `load_component`) | payload state of each component, files, files set aside | evict, load, report status, record missing | triggered after a publication; read by tasks and by QA |
| QA (`qa/engine.py`, `artifacts/qa_service.py`, `cmd_qa_eval`, `cmd_cleanup_cache`) | the policy file as the process read it; facts, a decision with its policy version and a result per Artifact | evaluate and save; block under a hard policy | loads payloads that retention evicts; read by planner and by retention |
| Performance recorder (`performance/timing.py`) | outcome of each attempt, persisted at the end of a run | record, persist | read by the planner of the next run |
| Measurement groups (`registry/database.py`, `artifacts/service.py`) | groups, write-once slots, frozen selections | declare, realize, select | publication, the fiber response |
| Raw frame cache (`io/raw.py`) | entries with their sizes, reads under way | load, clear | pool threads of a run |
| Instrument configuration (`config/service.py`, `io/catalogs.py`) | parsed fiber-position tables | positions of an IFU's fibers, nearest trace reference | pool threads of a run |
| Analysis studies (`analytics/`) | budget, retained Artifacts, validations in a summary | materialize, publish a candidate, record a validation, complete | publication, other processes |

What is hard here, and what would make it right:

* **Scanning and grouping.** Scans die half-way, overlap, and meet archives that
  still grow; what a frame's group is depends on what else was scanned. Right:
  a scan that ends has everything but what it passed over, an index that claims to
  be current is, groups are whole and do not overlap without a reason, and a frame
  does not change its group.
* **Executor.** Two threads share the results dictionary; one node passes
  through in-degree, deque, pool and retry. Right: every node is settled once,
  after its prerequisites, with the results of all that succeeded; failure
  reaches exactly what needs the failed node; a run ends.
* **What a run says of itself.** Two threads write lines, pool threads append to
  the record that the coordinator persists, a line may fail to be written, and
  planner, schedule and executor each leave out what they cannot handle. Right:
  the record is what happened, nothing follows the last line, and a command that
  says "completed" has provided every target.
* **Planner, scheduler, QA, recorder.** Each decides from state that another
  one wrote in an earlier, perhaps unfinished, run. Right: nothing gated works
  on unaccepted biases, nothing that failed is silently repeated, inputs are
  made before they are used, and rerunning comes to an end.
* **QA.** Facts, decision and result are statements of their own, under a policy
  file that may be edited, for an Artifact whose payload may be evicted. Right:
  what is stored belongs together, and all who read the verdict see the same.
* **Publication.** One publication is a file write and three commits, undone by
  two more, with other publishers of the same revision and slot at any point
  between them. Right: every caller of one revision gets one Artifact, no
  rollback touches a committed record, a slot is decided once.
* **Retention.** Rename, commit and unlink are separate, nothing locks the
  Artifact, and the evidence is looked at before the deletion. Right: nothing
  that the registry calls present was deleted, what is evicted can be rebuilt,
  and no task that still needs a payload finds it gone.
* **Exposures and observations.** Any of the many amplifiers may lack a frame, a
  calibration, or fail anywhere; commands are repeated after failures. Right:
  no amplifier disappears unrecorded, "pass" means all of it, a refinement that
  succeeded is kept, extinction is taken out once, and an observation is made of
  the products its fibers were calibrated with.
* **Caches.** Readers wait for each other, and share parsed tables that each
  corrects for its own IFU. Right: every load ends, the limit holds although the
  byte counter is approximate, and positions depend on the IFU alone.
* **Studies.** Budget, rows and counter are separate statements of several
  processes. Right: bytes are charged once, an overrun is bounded, completion
  keeps nothing unrecorded.

`PROJECT.json` lists the hazards at the lines where they bite, each with the
properties that cover it, or the reason why none does.

## 2. Modules

| Module | Role |
|---|---|
| `TaskGraphRun` | abstract: what a run of a task graph promises |
| `DagExecutor` | the executor; implements `TaskGraphRun` |
| `RunReport` | extends `DagExecutor`: timing record, progress lines, heartbeat, what follows the loop |
| `CommandRun` | extends `RunReport`: the calibration command from its planning file to its exit code |
| `RevisionStore` | abstract: a store in which a revision and a slot are decided once |
| `Publication` | publication with its separate commits; implements `RevisionStore` |
| `PayloadEviction` | the payload files of one Artifact under eviction and loading |
| `QualityReview` | extends `PayloadEviction`: QA evaluations of that Artifact, policy edits, `cleanup cache` |
| `Replanning` | plan, schedule, execute and record, again and again, on one amplifier |
| `Cadence` | groups and lamp pairs of a catalog that grows between the plans |
| `RawCatalog` | scans: rows, details, amplifiers, the archive index |
| `RawFrameCache` | the loads of one run through the shared cache |
| `RunCaches` | extends `RawFrameCache`: the fiber-position tables the same threads share |
| `CalibrationChain` | the calibration tasks of one physical CCD with their evictions |
| `ExposureReduction` | an exposure up to its global fiber frame |
| `ExposureScience` | extends `ExposureReduction`: inference, extinction, calibrated fibers, point source |
| `ScienceObservation` | `run observation`: exposures, their products, the combination |
| `AnalysisStudy` | one study used by several processes |
| `RunsAndRawDataProofs` | inductive invariants and theorems of `Replanning`, `RawCatalog` and `RunCaches` |
| `CalibrationProofs` | inductive invariants and theorems of `Cadence` and `CalibrationChain` |
| `...Proofs` | the same of the module of that name and those that extend it |
| `MC...` | instances for TLC |

Some definitions carry the comment "Mutant". No action uses them. Each is a
plausible mistake in the definition that follows it (a dropped guard, a
comparison before a decrement, a copy instead of a move), and is there to show
that the properties can tell it from the code: put in place of the original, it
makes a property fail. `PROJECT.json` pairs them.

### DagExecutor

| Model | Code |
|---|---|
| `AddTask`, `AddTaskRaises`, `AddObserved` | `add_task` and `add_observed`, with the node stored before `progress.add_node` can raise |
| `WellFormed`, `Peeled` | the validation in `_indeg_and_dependents`; `Peeled[k]` is what Kahn's loop has visited after k rounds |
| `InOrder` | lists of dependents follow the insertion order of `_nodes` |
| `DispatchBlocked`, `DispatchRun`, `Release` | one iteration of the dispatch loop and the nested `release` |
| `StartWait`, `WaitReturns`, `CollectRetry/Failure/Success` | `wait(FIRST_COMPLETED)` and the loop over the returned set, in any order |
| `WorkerBegin`, `WorkerEnd` | `run_one` on a pool thread: it reads `results`, then returns or records the exception |
| `Transition`, `Finish` | `GraphProgress.transition` and `finalize`, with their exceptions as the phase `"error"` |
| `Interrupt`, `PoolShutdown` | KeyboardInterrupt in the coordinator and the exit of the `with` block |

`rank` is the insertion order, `indeg` the in-degree dictionary, `future` the
state of the node's entry in `in_flight`, `inputs` the dependencies whose
results the attempt was handed. Graphs are not assumed well-formed: cycles,
unknown ids, self-dependencies, duplicates and observed ids all occur.
The refinement to `TaskGraphRun` forgets queue, pool and retries; pending and
running are "waiting"; cached and skipped work is not part of the graph.

### RunReport

Every step of the executor is taken with what it reports (`ReportedWorker`,
`ReportedCoordinator`). `Begin` and `End` are the `with` block that a pool thread
opens around an attempt (`timing.py`), `Recorded` the outcome of a blocked node,
`Tell` a transition with the line it asks for; the node that is being dispatched
is `held` until its line is written (`Emit`), and a line that cannot be written
(`EmitFails`) raises out of the loop. `Beat` takes the snapshot, `BeatWrites`
writes it later under the lock. `Stop`, `Join` (which may time out), `LastLine`,
`WriteReport` and `Persist` are what `run` does after its loop, in this order. A
timing is a task, an attempt and a status; durations and phases are left out.

### CommandRun

`Load` reads the planning file over the default graph and validates it;
`PlanTargets` is `ReductionGraph.plan` for at most one group of each kind:
`Emitted` says which targets the inputs give, `Condemned` which are terminal;
`InTheOrder` is `_topo_order_kinds`, which drops kinds on a cycle; `Needs` are the
dependencies the schedule gives a target, including those to targets it dropped;
`AddScheduled` hands them to the executor, whose steps are `Run`. `SumUp` is
`_write_execution_report` and the exit code. `Edges` and `Emission` follow the
literal kinds of `planning/defaults.py`.

### Publication

A publisher is one call of `persist_request`; `pc` names its next statement.
Files are written before any row exists. `InsertArtifact` and
`InsertProvenance` are commits of their own, `CommitDetails` is the transaction
that the UNIQUE revision and the write-once slots decide. `DetailsRejected`,
`DeleteProvenance` and `DeleteArtifact` are the rollback in
`RegistryAdapter.register`, `Resolve` the conflict path after an
IntegrityError, which removes the loser's files only when nobody else has the
revision. A "database is locked" error may meet a statement up to `MaxLocks`
times (`SaveLocked`, `DetailsLocked`, `ApplyLocked`, `UndoLocked`); a process
may die between any two statements (`Crash`). `ListRows`, `InvalidateRow` and
`PurgePayload` are `invalidate_kinds`. Ids are never reused (the table is
AUTOINCREMENT), so `artifacts` is a sequence and a deleted row is `NoRevision`
in its place. `Refuse` is a request that the publication service or the
serializer turns away before any row exists; `Written` says which requests leave
files behind.

### PayloadEviction

One Artifact, several evictors and readers. `ReadComponents` takes the
snapshot that everything later relies on, `CheckEvidence` is the lineage gate,
`CheckFiles` and `ReportAbsent` the preflight, `MoveAside`, `CommitEvicted`,
`Unlink` and `PutBack` the staged deletion. `evidence` stands for the
descendant kinds that are published and validated and, as one more kind, the
Artifact's own validation; a later QA that fails (`FailReview`) takes one away.
A file is at its path, set aside by one evictor, or gone.

### QualityReview

The Artifact of `PayloadEviction` under `evaluate_and_save`: a reader that loaded
the payload evaluates it (`Evaluate`), saves the facts, the decision and the
result row in three steps (`SaveFacts`, `SaveDecision`, `SaveResults`), and may die
between them. `Judge` is `QAEngine.evaluate` for a kind with one metric, with the
policy raw values, their normalisation and the defaults (`PolicyFor`, `Metric`);
an engine is loaded once by each process (`LoadEngine`), and the file is replaced
meanwhile (`EditPolicy`). The decision is the `Own` evidence of the eviction
gate. `ListCandidates` is the listing of `cleanup cache` before its evictions.
`ListedStatus`, `PlannedStatus` and `BundleStatus` are the three ways a verdict is
read. `contested` and `whole` are history variables: whose writes another
evaluation came between, and whether the last write completed an evaluation
that was alone.

### Replanning

One amplifier, a fixed set of targets with integer times. `Plan` evaluates
`ReductionGraph.plan` in one step: nothing else runs in the process then.
`Marked` is the set that `emit` marks terminal; because parents and biases are
emitted first it is the only solution of its defining equation. `DependsOn` is
`schedule`, with gates (`GateSources`) that prefer overlapping biases to the
nearest one, parent groups, or kind edges with one candidate. Execution uses
what `TaskGraphRun` promises, and resolves task inputs as
`_resolve_artifact` does. `Publish` reuses the row of an existing revision,
evicted or not; `Judge` is `evaluate_qa` and the retention hook. `Finish`
records the outcomes in one step; `Crash` loses them and keeps the products.
`noisy` fixes which biases each policy version rejects: a fact of the data.

### Cadence

The frames of one amplifier, records of what their headers say; `catalog` is
what the registry has of each: nothing, its row, or the row and its exposure's
details. `Visible` is what `resolve_calibration_groups` does not exclude,
`Buckets` and `Groups` its groups (`Begins` is the loop of `_split_isolated`, as
a function from the place of a frame to that of the frame its group begins
with; `KeyOf` is `_calendar_key` and the name of a configured interval), `Pairs`
the greedy loop of `pair_lamp_groups`, `Targets` what `ReductionGraph.plan`
emits. Any kind may have any policy: "block" stands for `observing_block` and
`dark_time` without configured intervals, which group by the label in the header
and without one by the month, and "intervals" for the two with them, where
intervals of one name make one bucket. A group is the set of its frames, as its
identity, `GroupId`, is a hash of its raw ids and exposure class, and assumed to
be injective. `ScanRow` and `ScanDetails` may come in any order of the frames
and between the steps of a run. Times are integers; a day is `Day` of them, and
weeks and months are periods of any length; a policy the code does not know is
"block" without labels. A window of UTC days or of observing nights restricts what a plan lists
(`Listing`); a frame's `night` is the label of its archive or directory,
whatever its time. `TimeWindows` and `CountWindows` are the two custom cadences,
which give windows without an identity: they are planned again every time, and
read their frames when they are executed (`QueryInputs`), while the frames of
other targets are the planned ids. They see frames by type, which the two lamps
share (`Scoped`), and lamps under one are in no pair (`Arcs`). `orderly` is a history variable that says
that nobody scanned an earlier frame late, planned before a frame's details were
there, or planned over a window that leaves out a frame and has a later one or
one of the same time.

### RawCatalog

A scan walks the loose files and the archives of its nights in order
(`Foremost`; without night directories, of all nights), reads the header
(`NextLoose`, `NextMember`, `ReadHeader`), inserts the frame, its amplifier and
then its exposure's details (`InsertRow`, `InsertDetails`), and writes an
archive's index, either from what the traversal met (`StatAfter`, `Persist`) or
by listing it (`EnsureIndex`, `BuildIndex`). An archive that is being copied has
whole members (`length`) and perhaps one that is written in part (`torn`):
`Grow` begins the next member or completes it. What a scan makes of such an
archive depends on the root: under night directories the traversal registers
what it meets, the torn member too, and then raises, which ends the scan
(`TraversalRaises`); under another root a plain archive cannot be listed and is
passed over with all that is nested in its file (`SkipArchive`, by `Outer`), and
the scan goes on and ends as done. `due` loses the members of an archive that
was passed over, `unread` has the frames whose header a scan could not read. A
process may also die anywhere (`ScanDies`), and its caches (`metaCache`,
`populated`) live as long as a scan. `InsertRow` takes the upserts of amplifier,
exposure and frame in one step. Where an archive nested in a date-tar ends short
while the date-tar is whole, the code's index builder would read on into the
date-tar; the model leaves the index as it is.

### RawFrameCache

`Ask` and `LookAgain` are the two looks under the lock, with the registration
of an Event; `ReadFails` and `ReadDone` end a read; `Insert` puts the frame in,
counts its bytes and evicts from the other end (`Victims`); `Release` pops and
sets the Event; `ClearRun` is the end of the run.

### RunCaches

A thread outside `load` may ask for the offsets of an IFU: `Parse` reads the table
of the IFU (`TableOf`) unless it is retained, without a lock, so that two threads
may parse it; `Correct` reverses and swaps fibers on a copy and splits the
result by amplifier (`ByAmp`). `Mend` puts a table file in place that was
missing or malformed. `TraceReference` is the choice of the dated directory
nearest to a night; it is compared with its definition in `MCRawFrameCache`.

### CalibrationChain

`Prerequisites` are the edges of the default graph, the response's only those
to the twilight spectra. `Load` reads the payloads of a task's inputs, `Publish`
registers its product, `Judge` writes the verdict and runs the retention hook:
`Ancestors` is the traversal of the lineage, which stays within a scope
(`SameScope`), `Proven` the evidence of `RETENTION_RULES`, `Released` what is
evicted. `LoadResponse` asks the registry for what is published at its
dispatch. `PayloadEviction` shows the inside of the eviction, which is one step
here.

### ExposureReduction

One step for each stage of the loop over the physical CCDs: `Select` chooses
the calibrations of all amplifiers and the response build, `Reduce...`,
`Model`, `Extract...` may fail, each way out releases what is in memory
(`Release`, `GiveUp`, `NoPartner`, `LoadFails`), `Assemble` concatenates and
gives the verdict (`Clean`). `Recalibrate` lets a calibration run fill a gap.

### ExposureScience

`Infer` is one iteration of `_solve_exposure_inference`; what the fits find is a
choice, a pointing is the number of steps it has moved, and `Retained` and
`Converged` are the two early ends of the loop. `PublishSolution` publishes the
products in their order with their verdicts. `SelectBaseline` is where the rows
of the extinction models, what the baseline contains and what is configured
come in; `UseConfigured`, `UseNewest` and `ImportModel` are the three ways to a
model, `NoExtinction` the refusal to apply one twice, `PublishResponse` and
`Calibrate` its use. `LocateSource` to `ExtractSource` are the point source, `Close`
the last products.

### ScienceObservation

A product is its revision: what its content and ancestors depend on, i.e. the
answer of the catalog and the baseline. `Match` is the catalog query, which may
come out differently next time; `SelectBaseline` and `ImportBaseline` find or
seed the baseline, among those that are valid at the time of the exposure
(`Candidates`, `Valid`; the validity of the seed is open); `Published` returns the existing row of a revision
(and still judges it). `Observe` is the ObservationTask, which selects its
members' products anew (`SelectBest`). `Command` gives the command again.

### AnalysisStudy

Every autocommitted statement is a step: `CheckBudget`, the publication
(`LookUp`, `WritePayload`, `Register`), the second check of the budget with
purge and retirement (`CheckAgain`, `Purge`, `Retire`), `LookForRow`,
`InsertRow`, `Count`; `ReadSummary` and `WriteSummary` of a validation;
`StartCompletion`, `ListRows`, `RemovePayload`, `Close`.

## 3. Runs

All runs are breadth-first and exhaustive within their bounds.

| Run | Bounds | Shows |
|---|---|---|
| `MCDagExecutor` (`CommandRun`) | every graph over three ids, two threads, one retry, an interrupt; with a reporter, every graph over two; commands over six planning files and five situations with at most three planned targets, without a reporter | no node is started early or blocked wrongly; the executor implements `TaskGraphRun`; the persisted outcomes and the report are true; nothing follows the end; a run ends |
| `MCPublication` | two publishers, three revisions (one over its size limit), two slots, one crash, two lock errors, invalidation with and without purge | no record loses a row, active payloads are there, and publication implements `RevisionStore` |
| `MCPayloadEviction` (`QualityReview`) | any three of two evictors and two readers who may be evaluators, two dense components and a retained one, one lost file, one crash, one withdrawn review, two policy files | what counts as present is not destroyed, destruction only with evidence, nothing stays aside, the stored verdict follows from the stored fact |
| `MCReplanning` | a bias, two lamp groups, their arcs, a wavelength map; two QA policies; one forced run or one crash | `GateHolds`, `NothingRepeated`, `ParentsReady`, and that rerunning ends |
| `MCCadence` | two Hg and two Cd frames, some with block labels, three Cd frames of alternating blocks, up to four flats under the count cadence, three darks of two classes, biases, science frames in overlapping intervals of which two share a name, or twilights under the time cadence, at any of five times; two plans over everything, a range of UTC days or one of nights | groups and windows whole, and apart but for the exceptions, pairs stable, registered groups only extended |
| `MCRawCatalog` | two scans, at once or one after the other, two nights, an archive of two members and one of one member in a date-tar, a loose frame and a test frame, one death of a process, two growths | a scan that ends has everything it did not pass over, whatever died before; index current |
| `MCRawFrameCache` (`RunCaches`) | three threads, four frames of which one fills the cache and one is over the limit, three IFUs, four loads or lookups | the limit, every load ends, positions depend on the IFU alone |
| `MCCalibrationChain` | two amplifiers, two workers, one fault | nothing needed is evicted, what is evicted is proven, lamps are released |
| `MCExposureReduction` (`ExposureScience`) | two physical CCDs, four builds, a missing frame, a missing calibration, failures anywhere; then, for complete frames and one with an excluded amplifier, three iterations, four PSF intervals, two extinction models | no amplifier disappears, pass means whole, the best build, refinements are kept, extinction once |
| `MCScienceObservation` | two exposures, two workers, three commands or faults, the seed and one measured baseline, valid at both exposures or at the second | members whole, members' own products, one baseline where the same are valid |
| `MCAnalysisStudy` | two processes, three values over the budget together, a crash | overrun bounded, bytes charged once, validations kept |
| `MCCalibrationChainResponse` | no fault | a counterexample, see section 5 |

Why these bounds are enough to be of use. Executor: three nodes give chains,
forks, joins, and every cycle of length one to three; two threads give
out-of-order completion. With a reporter two ids are enough for a line of each
thread about either node; the planning files are the default graph, and one for
each way in which a configured one differs (illegal, a kind disabled, a cycle,
kinds without edges, needless gates). Publication: a race needs two publishers
of one revision; the crash and the locks let a third call come upon what a first
left. Eviction: two evictors race, and so do two evaluations beside an eviction;
the retained component shows that eviction stays within its targets; two
policies, under which one value gets different verdicts, are enough to mix them.
Replanning: two lamp groups tell pairing from selection by kind, and the chain
down to the wavelength map reaches the eviction of the lamps. Cadence: two
groups of either lamp are the least in which a nearer partner is taken by
another; three frames the least in which a span measured from the frame before
differs, and in which two blocks interleave; every way of grouping is that of
one kind. Catalog: two scans of archives that grow under them, or one after the
other has died; two growths complete a member that was met torn, or begin and
complete one. Cache: one thread reads, one waits, one evicts; the
three IFUs are the three kinds of correction. Exposure: a second CCD shows what
the first leaves behind; four builds differ in overlap, time and age; with three
iterations a success can come before, between and after failures. The constraint
`OneFrame` continues only a few outcomes of the reduction, as what follows reads
nothing of them but the status. Observation: two exposures at once, and two
commands after a first; a baseline that is valid at one exposure only is the
least in which the times of the exposures matter. The theorems of section 4 cover every size.

Deadlock is not checked in these instances: an executor object ends, callers
return, and a bounded sequence of runs ends with an empty plan.

Symmetry is used only for interchangeable model values (publishers, slots,
evictors, processes, scanners, exposures, amplifiers), and never in a run with a
liveness property. `MCDagExecutor` restricts the order of registration of its
interchangeable ids by a constraint instead; what it cuts off is a renaming of
what it keeps.

Fairness.

* `DagExecutor!FairSpec`: weak fairness of the coordinator *once a run is
  started* (a Python thread in a loop without locks), and of each pool thread,
  which assumes that `task.run` returns or raises. Nobody is obliged to start a
  run or to interrupt it.
* `RunReport!Fairness`, used by `FairReportSpec` and `FairCommandSpec`: the same
  of the steps with their reports, and of what follows the loop: a write returns
  or raises. Nothing is assumed of the heartbeat thread; the coordinator's
  `join` has a timeout.
* `RunCaches!FairCaches`: weak fairness of each thread inside `load`: a physical
  read returns or raises, a woken thread goes on. Nobody has to load.
* `Replanning!FairSpec`: weak fairness of each task and of the end of a run,
  for the same reason, and of `Plan`. The latter says that somebody keeps
  invoking the command; the code does not, and `PlansRunOut` is to be read
  "whoever reruns often enough". Nothing is assumed of forced runs, crashes and
  new policies, which are bounded.

`ActivePayloadPresent` excepts a purge by `invalidate_kinds` (section 5), and
`OnlyExtended` and `BaselinesShared` say in themselves when they hold.

## 4. Proofs

Each theorem is `Spec => []P` (or, for a refinement, `Spec =>` the abstract
specification) for every value of the constants that satisfies the module's
named assumption. Where one module extends another, the theorems are of the
specification of the whole: `CommandSpec`, `ReviewedSpec`, `CachesSpec`,
`ExposureSpec`. The catalog has `CatalogSpec` and the cadence `CadenceSpec`, since
one module holds the proofs of several.

| Module | Theorems |
|---|---|
| `DagExecutorProofs` (`CommandRun`) | `TypeCorrect`, `InputsCompleteCorrect`, `OrderCorrect`, `BoundsCorrect`, `NoLostNodeCorrect`, `Implements`; `CommandInputsComplete`, `CommandImplements`, `QuietAtEndCorrect`, `OutcomesPersistedCorrect`, `ReportTruthfulCorrect` |
| `PublicationProofs` | `TypeCorrect`, `RecordsWholeCorrect`, `AnswersAgreeCorrect`, `SlotsHonestCorrect`, `ActivePayloadPresentCorrect`, `Implements` |
| `PayloadEvictionProofs` (`QualityReview`) | `TypeCorrect`, `OneHolderCorrect`, `NothingPresentDestroyedCorrect`, `EvictedTogetherCorrect`, `EvidenceCorrect`, `NothingLeftAsideCorrect`; `ReviewedSafe`, `VerdictFollowsFactsCorrect` |
| `RunsAndRawDataProofs` (`Replanning`, `RawCatalog`, `RunCaches`) | `TypeCorrect`, `GateHoldsCorrect`, `ParentsReadyCorrect`, `NothingRepeatedCorrect`; `CatalogTypeCorrect`, `ScanCompleteCorrect`, `MetadataWholeCorrect`, `IndexCurrentCorrect`; `CacheTypeCorrect`, `WaiterHasReaderCorrect`, `CacheBoundedCorrect`, `GeometryOfIfuCorrect` |
| `CalibrationProofs` (`Cadence`, `CalibrationChain`) | `GroupsWholeCorrect`, `PairsNearestCorrect`, `OnlyExtendedCorrect`, `CadenceTypeCorrect`; `TypeCorrect`, `EvictedProvenCorrect`, `NothingLostCorrect`, `LampsReleasedCorrect` |
| `ExposureReductionProofs` (`ExposureScience`) | `TypeCorrect`, `AccountedCorrect`, `PassMeansWholeCorrect`, `ReleasedPromptlyCorrect`, `SpectraHaveModelsCorrect`, `ResponseIsBestCorrect`; `RefinementKeptCorrect`, `ExtinctionOnceCorrect` |
| `ScienceObservationProofs` | `TypeCorrect`, `MembersWholeCorrect`, `OwnUnlessReturnedCorrect`, `BaselinesSharedCorrect` |
| `AnalysisStudyProofs` | `TypeCorrect`, `OverrunBoundedCorrect`, `ChargedOnceCorrect`, `ValidationsKeptCorrect`, `CompletionPurgesCorrect` |

The properties are not inductive; each module's `IInv` strengthens them. The
assumptions say what the code gives: finite sets, sizes and times that are
numbers; that `plan` emits parents, and biases, before what needs them (`rank` of
`Replanning`); that policies of different content have different versions
(`QualityReview`); that builds are numbered in the order of their rows
(`ExposureReduction`); that a frame has one id and groups of different frames have
different identities (`Cadence`); that raw frames and archives are different things, and
that an archive is nested at most once (`RawCatalog`).

**Executor.** `IInv` ties together the executor's several records of one node:
`NotStarted` (nothing of a run has happened while the graph is declared),
`GraphInv` (the registered nodes are those with a state, and an accepted graph
mentions no other), `MirrorInv` (`unsuccessful`, `results` and `in_flight` say
the same as the progress states), `IndegInv` (an in-degree counts the unsettled
dependencies), `ReadyInv` (the deque holds exactly the pending nodes with
in-degree 0, once), `AttemptInv`, `PoolInv`, `OrderInv`. The heart is lemma
`Settle`: when a node is settled and released, each in-degree of a dependent
falls by one and the nodes appended to the deque are exactly those whose count
reaches zero. `SettleOne` is the set-theoretic fact behind it, `AppendInOrder`
the fact about the order of release, `ZeroIndeg` its converse. In the
refinement (`Implements`) blocking a node is the abstract `Block` and collecting
its last attempt the abstract `Execute` (`SimulateSettle`), and both find their
guards in `ReadyInv`, `OrderInv` and `MirrorInv`; queue, pool and retries stutter.

**Report and command.** A step of `CommandSpec` is one of the executor, or leaves
the executor alone, or is `EmitFails`, the exception out of the loop, which has a
lemma of its own. `LineInv` says when a line is being written and what
it holds back, `LoopInv` and `LastInv` order what follows the loop
(`QuietAtEnd`). For `OutcomesPersisted`, `LedgerInv` says what the timings of a
node are at every moment, by its state and its attempts; `TriedInv` that a node
which was tried is never blocked afterwards; `RowsInv` that what is
persisted is what was recorded. `ReportTruthful` follows from `PlanInv` and from
`LeftOutCyclic`: a kind that the topological order leaves out has a source that
is left out too, so that the left-out kinds contain a cycle.

**Publication.** `HoldInv`: a publisher between its artifacts insert and the end
of its registration holds a row that is no record and that nobody else holds; so
deleting by id cannot hit a record. `UniqueInv`: a revision has one record, which
the UNIQUE constraint gives. `FoundInv` and `AnsweredInv`: what a call found, and
what it was answered with, is the record of its revision. `CallInv`, `AnswerInv`
and `AttemptInv` tie the position in the call to its revision, answer and tries.
Lemma `Goes` does all steps that change no table, `Decides` the two that answer a
caller. In the refinement those two (`StorePublishes`) are the atomic
publication, `Request` is the question, and every other statement, rollback or
fault is a stutter (`StoreStutters`). `PayloadInv` adds the files: what is about to
be registered was written (`Sized`), records keep their files unless a purge
removed them (`RecordsPresent`), and who is about to remove the files of its call after a
conflict finds the record that won (`Collided`).

**Eviction and QA.** `SeenInv` (a snapshot is never behind the table, as no state
returns to present), `AsideInv` (which files an evictor holds at each of its
steps), `UnlinkInv` (what it unlinks no longer counts as present), `EvidenceInv`
(without a failed review, the evidence that admitted an eviction stays complete).
An evaluator that dies takes no step of `PayloadEviction`, so `ReviewedSpec` does
not imply its `Spec`; `ReviewedSafe` shows the invariant preserved by that step as
well. `VerdictInv` is what an evaluation has behind it: its process read one policy
file (`EngineInv`), what it wrote is still there if nobody wrote between
(`UncontestedInv`), and the rows of an evaluation that was alone are those of
that policy (`WholeInv`).

**Exposure.** `Position` relates the step to the counter of CCDs and to what the
CCD at hand has; `Carried` says that what is done of it is extracted or
recorded; `Verdict` ties the status to what was recorded. With them `Accounted`,
`ReleasedPromptly` and `SpectraHaveModels` are preserved by every way out of the
loop. `ScanBest` says what a scan of builds returns, `Best` composes the two scans
of `Chosen`, and `Selection` that what was chosen stays. `Kept` relates the
accepted solution to the whole history of fits, `Extinct` each stage of the
extinction to the next. `ExposureReduces` carries the theorems of the reduction
over to `ExposureSpec`: what follows the global frame changes nothing of it.

**Observation.** `Progress`: what an exposure task has behind it is registered and
judged. `Rows`: the newest row of a kind is what the task published, unless its
row was there when the command was given. `Selected`: what the observation has
read so far is what it would select now. `Baselines`: what an exposure took is the
last baseline that was there and valid for it when the command was given, or one
that came since, or else the seed.

**Runs.** `Marked` is a recursive function over the order of emission; `Unmarked`
and its companions say that it solves its defining equation. `ParentsCovered` and
`GateCovered`: what a run plans has each parent, and each bias that guards it,
planned too or already usable. `Ready`: an active task's dependencies have
succeeded; `Made` and `Done` what that means in the registry; `Fresh` what an
unforced run has left to execute; `Verdicts` that only biases fail.

**Cadence.** Time order makes places of frames (`SortedAscending`: a finite set has
an ascending enumeration, so that the `CHOOSE` of `Sorted` names one), and what a
loop does is a recursive function of the place, proved about through its steps.

* *Groups.* `PlanInv`: the plan is the targets of what was listed. The rest is about
  one listing, whatever it is. A frame that begins a group is its own leader and
  all frames of the group fit it (`BeginsAt`); two frames with one leader are
  together, and a frame within reach of a leader that is not before it has that
  leader (`SameGroup`). Hence buckets are whole (`BucketsWhole`) and groups of a class
  in the order of their intervals (`ApplicableInOrder`), but for those of
  `MayOverlap`. A key is of the frame alone, so that keyed buckets are whole anyway. The windows of a count
  cadence form a chain (`Chained`): each begins at the frame after the end of the one before
  (`WindowsChained`), and what is left over comes after all of them.
* *Pairs.* `PairsGrow` is the invariant of the turns of the greedy loop: after turn i
  pairs are one-to-one and within the limit, and every near Cd group of an Hg
  group that had its turn is with an earlier one or no nearer than the partner.
  `PairsStable` is what it says at the end.
* *Registered groups.* `OrderInv`: while the history is orderly, there are sets
  of frames, each the earliest of the next up to frames of one time (`Stem`,
  `Chain`), from which the last plan and all that is registered were made
  (`Prefixes`, `MadeFrom`), and what is known is the last of them; a frame
  without details is the latest (`InTime`). So two registered groups come from a
  set and a stem of it. For isolated groups the argument takes the earliest
  frame whose group begins at different times in the two (`SplitStems`); a keyed
  group only gets frames with its key (`GroupsStems`). For the
  count cadence the times at the places of the stem are those at the same places
  of the whole (`TimesAgree`, by counting the earlier ones: `TooMany`), so that
  its windows are the whole's (`EndsAgree`, `ChainStems`), but for the last,
  which may have grown.

**Catalog.** A scan is in a `Place`, and what it knows of its archive (`Extent`) and
has cached (`Caches`) is true, or was. `Progress`: of the frames that were there
when it began, each is ahead of it (`Ahead`) or registered with its exposure
handled (`Behind`); passing over an archive takes its members out of both sides.
`Rows` and `Indexed` are about the tables alone. `Onward` and
`Still` do the step of another scan, which only adds.

**Caches.** `EventsHeld`: a registered Event belongs to a thread that reads that
frame; `WaitersServed` adds that a waiter's Event is still registered. `HeldInv`:
frames are in the cache once, and the bytes they take are at most those counted
and at most the limit; the counter may be too high, but an eviction takes the
weight of its victims off it (`VictimsOf`, `WeightSplit`). `Orders`: a
table that is reversed and swapped has every position once (`CorrectedOrdered`),
and each amplifier gets its own part of it (`OfAmp`).

**Study.** `Validating` counts the validations being recorded, `Counting` puts the
row before its count, `Summaries` says that without an overlap the summary being
extended is the study's own, `Completion` that what is recorded and stored at the
end is late or still to be removed. `Claims`: what is charged, and what the
processes that found room have still to add, exceeds the budget by no more than
the bound; when a process finds room, its own claim fits, and the others have at
most one Artifact each. `Once`: what is about to be counted is recorded, and about
to be counted by one process. Both rest on the lemmas on `Total`, a sum over a
finite set: it does not depend on the order in which elements are taken
(`TotalAdds`), nor on the sizes of others (`TotalAgrees`).

**Chain.** `Lifecycle` ties a task's status to the verdict of its product and to
its prerequisites; a verdict that was given does not change (`Settling`). Evidence
therefore stays evidence, because lineage only grows: lemmas `AncestorsStay` and
`AncestorsScope`. `OnlyLamps`: only lamps are evicted, and after the arc made of
them succeeded, so nobody still needs them (`NothingLost`); `LampsGone`: whoever
is judged last finds the evidence complete (`LampsReleased`).

Recursive functions are proved about through their steps. The library's induction
theorems take an operator as a parameter, which the provers cannot instantiate;
instead `LeastSet` and `LeastNatural` (no set of numbers, or of subsets of a finite
set, is without a least one) give induction for a predicate that is a function
(`UpTo`) or a family of sets (`SubsetInduction`).

Every safety property of the passing runs is a theorem. Only model-checked are
the liveness properties `RunEnds`, `PlansRunOut` and `LoadsEnd`, which are out of
the prover's reach. `NoLostNode` and `WaiterHasReader` are proved and not among the
runs' properties, where `ImplementsGraphRun` and `LoadsEnd` say more.

## 5. What the code does otherwise than it says

One of these has a run: `MCCalibrationChainResponse`. The fiber response
(`tasks/calibs.py:884`) looks its LDLS spectra and wavelength maps up in the
registry when it is dispatched, and waits for the twilight spectra only; the
comment above (878) says that it takes what succeeded among the scheduled
dependencies. An amplifier whose other inputs are published a little later is
left out for good, since a partial response counts as existing; and a product
whose task then fails its QA is taken.

The others were met while modelling; the models behave as the code does, and
their properties are stated so as to allow it.

Publication and retention:

* `save_artifact` retries from the artifacts insert after a lock at the
  provenance insert (`database.py:1674`); the first row stays without details,
  one for each lock, although
  `tests/test_storage_materialization_revision.py:243` expects no orphans.
* `select_best` (`service.py:427`) counts a row without details as active, so a
  task can select a row that is rolled back; no property is stated of it.
* `invalidate_kinds` with purging deletes the file of a publication in flight,
  whose record then becomes active without it.
* A reader that looks while an eviction has the file set aside records it as
  missing (`service.py:1198`); when the eviction fails and puts the file back,
  nothing corrects the record. Of two overlapping evictions the one that finds
  the file set aside records it as missing, whichever commits last.
* Publishing an evicted or obsolete revision again returns the existing row and
  writes nothing that counts (`service.py:227`, `386`), so a QA evaluation of it
  cannot load the component.

QA:

* `save_qa_bundle` (`database.py:2842`) and what follows it are several statements. A
  re-evaluation that is cut short leaves the old verdict beside new facts, and
  two that overlap can leave facts, decision and result of different
  evaluations; the planner reads the decision, `qa list` and `artifacts` read the
  result. `VerdictFollowsFacts` says when this cannot be.
* `qa eval` without `--meta` judges a bias without its read noise: the verdict is
  a failure, and the stored fact is overwritten with null.
* A policy file that is missing or cannot be read counts as version 1 without
  rules, under which everything passes, and stays so for the process.
* Rules such as `m is not None and m <= x` evaluate both operands; a missing value
  is an error in the comparison and fails the rule, not the first operand.
* A scalar that is handed over under the name of a reduced metric is stored as
  the fact, while the rule judges the reduction. An evicted payload cannot be
  evaluated again.

Running and reporting:

* A progress line that cannot be written raises in the dispatch loop
  (`progress.py:440`): the run ends, pool threads finish what they execute, and no
  outcome of the run is persisted. After an interrupt or such an exception the
  heartbeat thread is not told to stop, as `_stop` is set at the regular end only.
* Heartbeat lines may describe an earlier state than the line before them.
* The exit code is 130 only if the interrupt is the first failure that is
  collected; after another one it is that of a failed run.
* A planning file whose edges form a cycle loses targets silently
  (`scheduler.py:60`), and the report says "completed": `Cyclic` in
  `ReportTruthful`. Disabling a kind while the default edges are kept always
  fails validation; edges without one from the twilight spectra to the response
  make planning raise (`graph.py:541`).

Planning:

* `schedule` keeps a kind edge only when there is one source
  (`scheduler.py:185`); with the darks of two months planned a flat may run
  first, fail for want of a dark, and stay terminal (`tasks/base.py:87`).
* What is not a dependency of this run is selected by kind and by the midnight
  of the date, whatever groups were paired: a resumed arc may take another
  group's lamp (`tasks/base.py:80`, against `docs/calibration-cadence.md:19`).
* `output_measurement_group` is read (`planning/adapter.py:58`, `calibs.py:248`)
  and never set by the planner, so that no slot of a group is realized and a
  selection has no existing members (`graph.py:577`). A response planned after
  its twilight spectra exist takes those of its own run only (`graph.py:585`):
  none, and it fails, or a few, and the partial response counts as existing.
  `docs/architecture/MeasurementGroup_Terra_Implementation_Plan.md:881` speaks
  of "frozen cached/scheduled bindings".
* A product other than a bias that was published and not judged, because its run
  was cut short, counts as usable in the next plan (`graph.py:188`): it is never
  judged then, and what its verdict would have released is kept.
* `terminal_blocker` follows parents and gates only, so a target behind an
  ordinary edge of a blocked one is executed by the next run; and it counts any
  failed bias in tolerance where the scheduler counted only the overlapping
  ones, so a target that ran may later be reported terminal.

Scanning and grouping:

* "Scanning is idempotent" (`docs/calibration-cadence.md:28`) holds for archive
  members. Loose frames get a second row, because the unique index
  (`database.py:280`) has a NULL member; the new raw id also changes the identity
  of every group that has the frame, so its masters are made again.
* An unreadable header fills the IFU-slot cache of the process with nothing, and
  later frames of the slot get a made-up amplifier. Readers use indexed offsets
  without comparing the mtime. The index made from a traversal is stamped with a stat
  taken after it (`database.py:3129`), hence `~ordered` in `IndexCurrent`.
* An archive that is still being copied, or cannot be read, ends a scan under night
  directories (`filesystem.py:85`) and leaves what was seen of it without an index.
  Under another root it is passed over without a word (`filesystem.py:346`, and
  `:290` for one nested in a date-tar, after the members that could be read), and a
  date-tar takes all that is nested in it along: the scan ends as complete without
  those frames (`due` in `ScanComplete`). A range of nights is ignored there
  (`filesystem.py:387`). A member read at its position when its data are not all
  there may or may not have a header, so a frame of it can get a made-up amplifier
  and empty details (`unread` in `MetadataWhole`).
* Named observing blocks (`cadence.py:101`) may alternate, and their groups, which
  apply from their first frame to their last, then overlap
  (`MayOverlap`). So do darks under `rolling_24h`, which are split by class
  after they were put in a bucket and apply for a day from the first of the class.
  Configured intervals may overlap (`cadence.py:303`): a frame belongs to the
  first that has it, and the groups of two then apply at the same time. Intervals of
  one name are one bucket (`cadence.py:308`), which applies in the interval of its
  first frame, whatever the intervals of its others.
* Frames scanned late, a planning window that starts inside a group, or a plan
  between a frame's row and its details regroup frames, and leave overlapping
  active masters (`orderly` in `OnlyExtended`). An Hg group whose nearer Cd group
  is scanned later is paired anew, and two arcs of it are active. Pairing is
  greedy in time: an earlier Hg group may take the Cd group that is nearer to a
  later one, which `docs/calibration-cadence.md:19` does not say.
* `exposure_count_windows` (`cadence.py:492`) stops at the first bucket that is
  too small, unless its span has reached the limit, and drops all frames after
  it; its docstring closes the window and goes on. `.days` floors the span, and a
  window of at least one frame takes two.
* The time cadence does not look at `every_days`, and with a planning window not
  at `min_n_inputs` either. Targets of both custom cadences have no identity, so
  that every plan makes them again; two windows may share frames of one instant.
  Lamps under one share their windows, since these go by the frame type `cmp`, and
  no arc is planned of them (`graph.py:383`).
* A custom-cadence target that was planned for a range of nights reads its frames
  at dispatch without the nights (`tasks/base.py:122`), so frames of other nights in
  its window get in. `list_zipcodes` filters by UTC day only when both bounds are
  given. Darks planned before their details are known may be of several
  classes; the task then fails (`calibs.py:115`).

Exposures and observations:

* A chromatic PSF is evaluated outside the wavelengths of its valid intervals,
  against `docs/architecture/artifact-kinds-and-equation-inversion.md:498`.
* `resolve_atmospheric_extinction` gives every file the identity of the bundled
  model, so a file of another site cannot be told from it, and one that its
  baseline needs is refused.
* A build that overlaps more wins over one that is valid in time
  (`exposure.py:265`), against `docs/architecture/ExposureTask_Evidence_Action_Flow.md`.
* `tasks/science.py:198` and `tasks/observation.py:202` give raw row ids as
  Artifact parents, which
  `test_raw_parent_id_collision_is_kept_out_of_artifact_lineage` guards elsewhere.
* A missing arc or LDLS alone records a failure although extraction does not
  need it; failures of calibrations that were selected again stay recorded; a
  load that fails outside the `try` ends the exposure after its models were
  published; the QA of a scattered-light model is never consulted; the count of
  reduced amplifiers in the completion is always 0.
* When the catalog matches, does not, and matches again, the publication returns
  the first row, while `select_best` picks the row of the second answer
  (`docs/architecture/artifact-kinds-and-equation-inversion.md:485`):
  `OwnUnlessReturned`.
* A seed baseline left unjudged by a crash is never judged. A measured baseline
  published between an empty selection and the import of the seed is older than
  the seed and superseded by it (`exposure.py:398`). The validity of a baseline is
  asked at the time of each exposure (`exposure.py:324`), so that one observation
  may combine two baselines when one begins or ends between its exposures, with
  nothing measured meanwhile; also when one is measured meanwhile, or when the seed
  is imported for an exposure at which no other is valid and, being the newest,
  supersedes the measured one for those after it: the exceptions of
  `BaselinesShared`. The completion counts rows of earlier attempts.

Cache, studies, chain:

* The byte counter leaks when a frame is inserted twice, so that later in a run
  entries are evicted too early; two threads that were woken may read the same
  frame, where `docs/performance.md:79` says "single-flight". A
  `VIRUSFLOW_RAW_CACHE_MAX_BYTES` that is not a number raises after the read and
  leaves the waiters hanging; the model assumes a number.
* Materializing a value again when the study is over budget purges and obsoletes
  the Artifact that another study shares. `complete` overwrites the summary with
  its own, validations included (`docs/examples.md:88`).
* LDLS and twilight masters are never evicted: the traversal of the lineage stays
  within an amplifier and the response has none, although
  `docs/getting-started.md:86` says they are.

## 6. What is not modelled

* Numerical algorithms, serialisers, plotting, reports: no control in them.
* Schema creation, migrations, and the queries that only report
  (`find_artifact_summaries`, `storage_summary`, `describe` and the like); the
  parsing of file names, headers and the command line; scripts run by hand.
* Durations, phases and statistics of the performance recorder.
* The reductions of arrays to the metrics that QA rules compare: a metric is a
  value of a small set, and a policy has one.
* The sums of exposure times and the illumination that `master_sci` groups need,
  and pairs across amplifiers.
* Kinds under a soft policy: a failing verdict of theirs neither blocks nor
  fails anything, so `Replanning` lets only biases fail. Their verdict counts
  as evidence for retention, which `PayloadEviction` and `CalibrationChain` model.
* I/O failures of the retention hook, which are logged and ignored.
* The declaration of measurement groups and the ranking of persisted ones.
* In `CalibrationChain` nobody fails to load an input, because `NothingLost`
  holds: that branch of `Load` is there and never taken.

## 7. Plan

Done: the executor with its reporter and the command around it, publication,
retention with QA, replanning, scanning, the caches, studies, the calibration
chain, exposures, observations and cadence, with proofs for all of them.

Left: the declaration and ranking of measurement groups.
