# RunRail in TLA+

RunRail queues, schedules and executes workflows on one machine and keeps long-running
services beside them. API requests, the scheduler, worker processes with their thread
pools and the service supervisors are concurrent writers of one SQL database (SQLite in
WAL mode, or PostgreSQL); what keeps them apart is conditional `UPDATE`s, statuses and
timestamps. A browser frontend reads that database through requests and websockets that
are late, lost or out of order, and decides by itself much of what it tells a person.
These specifications model both sides; TLC checks them on small instances and TLAPS proves
their safety properties for every instance.

Python paths are relative to `src/src/runrail/`, TypeScript ones to `src/frontend/src/`.

## Inventory

The server:

| component | state | operations | correct when |
|---|---|---|---|
| run queue (`worker/queue.py`) | `workflow_runs`, lock columns | select a candidate, pass over, claim | limits and locks hold, nobody starves |
| service locks (`services/locks.py`) | `services.state`, `state_since` | `try_claim`, `service_blocks_run` | no clash with runs, waiting services get a turn |
| run row (`api/routes_runs.py`, `api/routes_runcontrol.py`, `api/crud.py`) | status, `started_at`, `finished_at`, `resume_count`, `claimed_by` | create, cancel, retry (a new run), resume, decide a gate | one executor per segment, terminal stays terminal until resumed |
| worker process (`worker/service.py`) | executor pool, heartbeat row | claim pass, submit, beat, recover, stop | a dead worker's runs are ended, a live one's left alone |
| task graph (`worker/service.py`) | `task_runs`, locals of `_execute_task_graph` | dispatch, attempts, gates, park, finalize, reuse on resume | gates asked and honoured, nothing stale reused |
| task definitions (`api/routes_workflows.py`) | tasks of a workflow | create, edit, delete, order | the order shown is the order run |
| supervisor (`services/supervisor.py`) | lease row, services, processes | reconcile, start, stop, restart, back off, take over | one supervisor acts, one process per service |
| scheduler (`scheduler/service.py`) | jobs, runs | fire, coalesce, missed runs, deadlines | one run per fire, misses noticed |
| retention (`maintenance.py`) | expired runs, files | preview, batch delete, orphan sweep | nothing deleted that was not announced, that is live, or that is pinned |
| activity and gaps (`activity.py`, `schedule_gaps.py`), log search (`logsearch.py`), reports (`reports.py`) | – | bounded scans of what is there | they say what they left out |
| environments, alerts, code tracking, import and export, backup, runners | | builds, messages, snapshots, files, processes | I/O, or sequential; see `PROJECT.json` |

The browser keeps state of its own beside what it read: the stamp of the bell, drafts of
forms, optimistic rows, the last answer of each request, timers and sockets. Its components
are the run page with its gate cards, lanes and queue explanation (`App.tsx`,
`components/ApprovalGate.tsx`), the runs list, the log viewer and log search, the workflow
page with its forms for parameters, tasks, locks, schedule and snooze, the services' page,
board, windows and log, the wallboard, schedule gaps and heatmap, notes, the resume dialog,
reports, settings and the bell.

How they interact: requests and the scheduler insert `queued` runs; a worker's claim loop
selects one, claims it by a conditional `UPDATE`, may hand it back (paused schedule,
building environment, gate budget) and submits it to its pool; the executor writes task
rows, parks at gates or finalizes; a decision requeues a parked run; a resume reopens an
ended one in a new *segment*. Services and runs exclude one another through the lock
columns alone. Workers recover from their peers' deaths by heartbeats. Pages learn of all
this by polling while something looks live, and by messages that may not arrive.

Hard behaviours, each with its line under `hazards` in `PROJECT.json`: two claims of one
resource by different code paths; starvation guards on both sides; a cancel, decision or
resume that acts on a row read earlier; a worker that dies, or only stalls, between any two
commits; `started_at`, at once the time line's origin and the mark of a held slot; a page
whose poll stops too early, whose answers land in the wrong order, or that states a fact
(a complete search, an idle scheduler, a report's newer run) derived from lists read at different
moments or cut at a limit.

## Modules

Server:

| module | models |
|---|---|
| `ResourceLock` | abstract: what a lock promises its claimants, whoever implements it |
| `RunQueue` | queue, locks, run rows, worker processes, recovery; services as lock holders |
| `RunGraph` | one run: the executor's loop, task threads, gates, park, finalize, cancel, resume, crash |
| `Retention` | cleanup passes, statement by statement, and the sweep, beside runs that start, end and resume |

Browser, each with the part of the server behind it:

| module | models |
|---|---|
| `QueueWhy` | what the run page says a queued run waits for, over the rows of `RunQueue` |
| `RunShape` | cards, lanes and graph of the run page, over the rows of `RunGraph` |
| `RunPage`, `RunsPage`, `Notifications` | a run's page with its gate card and cancel; the list of runs; the bell over the activity feed |
| `LogViewer`, `WorkflowPage`, `ApprovalPoll`, `ServicePage` | views that poll or follow a socket |
| `ScheduleGaps`, `Wallboard` | missed fires as headline and heatmap; tiles, overdue, verdict |
| `RunForm`, `WorkflowEditor`, `TaskEditor` | run forms and backfill; parameters and lock; tasks, with the handlers and the worker's order |
| `Zones`, `Cron`, `ScheduleBuilder`, `ServiceWindows` | wall clocks that jump; cron expressions and their next fire; the schedule form; weeks of windows |
| `RunNotes`, `LogSearch`, `ResumeDialog`, `Settings`, `ServiceLog`, `ReportPanel` | forms and panels over one or two requests each |

`MCRunQueue`, `MCTurns`, `MCRunGraph`, `MCPages`, `MCPanels`, `MCEditors` and `MCForms`
instantiate them for TLC; `RunQueueProofs`, `RunGraphProofs`, `ReuseProofs`, `PagesProofs`,
`PanelsProofs`, `EditorsProofs`, `FormsProofs` and `CalendarProofs` hold the proofs. `QueueWhy`
extends `RunQueue` and `RunShape` extends `RunGraph`: what a page derives is compared with
the rows the server has. The small pages of one MC module share nothing; a behaviour is of
one of them and the others are at rest, so a run's states are the sum of theirs.

### RunQueue

`run`, `service` and `setting` are the tables; one committed statement or transaction is one
action. What the code holds between two commits is state too, so others step in there:

* `pass` is `claim_runnable_run` with `claim_next_run`: `SelectRun` reads the candidates and
  picks one, `ClaimRun` is the `UPDATE` that re-checks, then `DropRun`, `RequeueRun` or
  `SubmitJob`; `EndPass` ends a pass with nothing to do.
* `executor` is the pool of every worker: `StartJob` loads the run (and so the segment it will
  serve), `WriteTaskRow`, `ParkRun`, `FinishRun`, `JobRaises`.
* `cancelling` is a cancel request between its read (`CancelRead`) and its commit.
* `worker`, `beating`: `StartWorker`, `Beat`, `GoStale`, `Crash`, `Recover`. A worker may go
  stale and live on (a suspended laptop, a stopped process).
* `stamp` orders `created_at` and `state_since`; only the order matters to the guards, and
  equal timestamps are among the outcomes.
* A service is its lock state; leases, processes and windows are left out.

Settings may be saved at any time (`EditSetting`). `RestSpec` restricts this to saves nobody
is holding under (`EditAtRest`): a lock that changes under its holder can clash by the user's
own choice, so lock and limit safety are claimed, checked and proved under that assumption
only. The code does not enforce it for services (`api/routes_services.py:131-134`).

### RunGraph

The rows of `task_runs` are kept per task in id order; everything an executor knows of an
earlier entry it reads from them (`Satisfied` = `_walk`, `Decided` =
`_decided_this_segment`, `GateIs` = `_gate_decision`). `ex` holds the locals of
`_execute_task_graph` and where it is: poll, dispatch, wait, final, and the two outcomes of
the parking transaction between its `UPDATE` and its commit. `job[t]` is the thread of a task
with its attempt, its row and the segment it read when it started. A decision takes three
steps, as in `_decide`: the gate's `UPDATE`, the count of open gates, the requeue.
`OneWriter` says whether an open write transaction keeps other writers out (SQLite) or only
locks its rows (PostgreSQL); `Survives` whether a worker that is taken for dead may work on.
`cut` remembers since which segment a task may have been missed by a lost worker.

### The pages

A page's state is what its component keeps: the last response, drafts, flags of effects
(`alive`, `latest`), timers. A request is three steps where the order matters: asked,
answered by the server with what it has then, landed or lost. Where a handler reads or checks in
several statements, so does the model: `RunPage` reads the run and its rows apart (`ServeRun`,
`ServeRows`) and its executor writes a gate after the poll that allowed it (`PollFindsRunning`,
`OpenGate`); `TaskEditor` checks a request against the tasks it read (`CheckTask`, `OthersAsk`)
and commits later (`CommitTask`, `OthersCommit`); `ReportPanel` answers the latest page in several
reads (`PickRun`, `CountFailures`, `NameNewer`). Requests in flight are sets, so
they land in any order; mishaps (a lost request or message, a closed socket) are bounded by
the `Max...Mishaps` constants. Timers fire at any moment from their time on. Other people and
the worker move the server's rows through the same handlers. The calendar is scaled down in
`Cron` and `ServiceWindows` (hours of a few minutes, days of a few hours, a week of three
days), in zones whose clock moves once, forward or back, by a whole hour or less.

The scan of `LogSearch` is given by its outcome, as sets: the logs it gets to (`Rows`, the
least of its bounds), what it finds in them (`Found`) and what the limit leaves of it
(`First`); the loop of the code computes the same from front to back. A line is a unit of
bytes: one without a match, with one, or with one only past the `MAX_MATCH_BYTES` that are
searched (`match_past`). The deadline may fall inside a log (`Deadlines`).

`WorkflowEditor` has the server's bounds on a form (`BeyondBounds`: `MAX_PARAMETERS`,
`MAX_CHOICES`, a text too long), which the browser's `draftProblem` does not repeat, and the
locks a peer has had since the editor opened (`had`). `RunNotes` tells a body the server took
(`settled`) from one whose failure a toast told (`told`).

### Retention

`passes` says for each pass which statement it is at and what it read: select a batch, delete
the rows that are expired still, ask which are left, remove the files of the others, and at the
end list the directories and ask which have a run. Two passes may overlap (the scheduled one
and `runrail cleanup`) and stop anywhere. `touched` and `successes` are history: when something
last happened to a run, and which runs ever succeeded.

### Simplifications

Read these beside the definitions they are about:

* A preview of a cleanup is complete (`Settings.Debounced`); the code's may be partial when its
  budget is used up (`system.py:62`, `:302`, `maintenance.py:180-182`).
* `ResumeDialog.Refused` rereads the plan of the choice of now; the code's closure that of its
  own render (`ResumeDialog.tsx:126`). `PlanIsOfTheChoice` says nothing after a refusal.
* `RunForm.InitialValue`: "yesterday" is the day before; in the code now less 24 hours
  (`runForms.ts:36-44`), another day in the hours about a clock change.
* `RunQueue.ResumeRun`, `Recover` and `ClaimService` are one step each. The code reads and
  checks first (`api/routes_runcontrol.py:71-79`, `worker/service.py:900-928`), and writes
  `waiting_lock` after a claim that failed (`services/supervisor.py:316-326`).
* `HoldersAreInTheWay` compares lists read at one moment; one of a stale list is not claimed.
* Which task cards are open is not modelled: a card decides that once, when it is mounted
  (`App.tsx:1874-1875`), not from the rows it shows later.
* `OwnCardIsTrue` is about a card earned by the page's own recorded click; how a decision that
  was lost or came second is explained by a row read later is modelled without a property.
* `WholeLogShown` is checked with one stream on view and sockets that close, not for a switch
  of tab or a socket that never opens.
* A run that was resumed early (`resume_early`) can be over and still worked on; `Retention`
  has no such run: it would have to go on for the days of the cutoff.

## Runs

| run | bounds | distinct states | shows |
|---|---|---|---|
| `locks` | a run each of an exclusive and a shared workflow, a shared and an exclusive service, 2 workers, one resource | 1.2 M | no clash, no circle of starvation guards, `ResourceLock` implemented (`LocksRefined`), no false accusation |
| `segments` | 2 runs of a gated workflow with limit 1, 1 worker, 1 resume, builds, pause, edits at rest | 0.39 M | slots never overspent |
| `crashes` | 1 run, 2 workers of which one may stall or die, cancels, 1 resume | 0.25 M | one executor until resumed, slot and lock kept; dead workers' runs end |
| `turns` | an exclusive run behind 2 shared ones that recur, or a shared service beside a run of each kind that do | 29 k | runs and services get their turn; shared runs pass an exclusive run that waits for a service |
| `graph_segments` | 3 tasks (2 gated, one with a retry, one below both), 2 threads, 1 resume with or without a forced task, crashes | 0.73 M | gates, reuse, parking, what the page draws; runs end and rows settle |
| `pages` | 3 instants of the feed with a limit of 1 row; a run page over 2 segments with 2 reads in flight and 1 trouble (a resume, a lost reply or read); a list of two days | 1.5 M | nothing marked read unseen; cards right; badge, page and rows settle |
| `panels` | 2 log chunks, 2 mutes, 1 gate, 2 service starts, crontabs over 5 instants, 2 workflows on the wallboard | 0.56 M | whole logs, pages that catch up, misses and dead schedulers shown |
| `editors` | forms of 2 parameters, 3 tasks, 2 resources, forms of 1 choice and 2 parameters at most, weeks of 3 days in 2 zones | 1.4 M | what is saved, started and promised is what was shown |
| `forms` | 2 notes, 2 logs of 2 lines, 2 tasks, 3 saves, 2 sessions, 2 runs and 2 overlapping passes of batches of 1 over 2 days, 2 notebooks with 2 attempts, 3 runs of the latest page | 1.9 M | nothing typed lost untold, claims true, deletions announced, live runs and the newest success spared |
| `resume_early`, `graph_late_requeue`, `graph_stale_reuse` | 1 run | – | disagreements, below |

Why the bounds are enough: a property about locks is about a pair of holders and at most
one bystander that waits; one resource suffices because no rule relates two; two workers give
every race on one row. One resume gives each order of "old segment, new segment". In the
graph, two gates are needed for one to be decided while the other opens, a task below both
for skips and reuse, a second attempt for the lanes. On a page two requests in flight give
both orders of landing, and one lost one every wrong belief; limits of one or two rows make
every list reach its cut. What is proved does not rest on these bounds. Constants such as
`MayCrash`, `Editable` or `Cancellable` name what the environment may do in a run; each is on
in at least one run. Deadlock is not checked: a system whose runs have all ended, or a page
whose bounds are used up, rightly stands still.

Each property of a passing run is paired (`mutants`) with a plausible bug of the code that
breaks it, kept beside the definition it mutates.

### Fairness

Liveness assumes weak fairness of what the code schedules, and no more. Server: a worker that
is up keeps polling, because `WorkerService.run` loops until stopped and survives exceptions;
recovery runs each half minute; the supervisor reconciles every service each second; a
command exits or is timed out; a request once begun ends; a worker that died goes stale
eventually, since its heartbeat only ages. Browser: an interval fires as long as the tab is
visible and the page polls at all (that is a guard, not an assumption: the poll that stops
too early is what the properties are about); a request is answered or fails, and fails only
so often; a socket that is open delivers. Nobody has to enqueue, decide, cancel, resume, edit
or click. No step is assumed to win a race infinitely often.

## Proofs

Theorems hold for every value of the constants under the modules' assumptions. These are
finite sets and well-typed settings (`QueueAssumption`, `GraphAssumption`), a graph without
cycles (`AcyclicAssumption`: `topological_tasks` refuses any other), bounds that are naturals,
and for the forms that stored definitions are ones the server accepts (`RunFormAssumption`,
`EditorAssumption`, `BuilderAssumption`, `TaskAssumption`). TLC evaluates all of them on its instances. A set
`Text` stands for the strings of the forms: the provers know no type of strings.

`RunQueueProofs` (any number of runs, workers, services, resumes, edits):

* `TypeCorrect`: `Spec => []TypeOK`, one lemma per kind of step.
* `LockSafety`, `LimitSafety`, `LockRefinement`: `RestSpec` keeps `LocksExclude` and
  `WithinLimits` and implements `ResourceLock`. All three rest on one fact about the steps
  (`StepKinds`): a step lets go of locks and slots (`LetsGo`), or grants them to one run that
  was `Claimable` at that moment (`GrantsRun`), or to one service that did not conflict
  (`GrantsService`), or saves settings at rest (`Saves`). `LocksExclude` is inductive with
  `TypeOK`: what is granted was compatible with every holder, and nothing else grants. The
  argument fails without the re-check in the claim's `UPDATE`.
* `FirstSegmentOnce` (`OneExecutorUntilResumed`): strengthened to `SegmentInv`, which says for
  each run what its row, the claims on it and its jobs can be together (`RowOK`) and that in
  its first segment there is at most one claim or job of it (`FirstSegment`). No assumption on
  stalls is needed: recovery ends a run and never queues it again.
* `SlotKept` (`KeepsLockMidSegment`): from the same invariant, for every step; a later segment is
  excepted while a claim older than the resume is left (`ClaimedEarlier`), see `_requeue` below.
* `NoDeadlock` (`SomeoneCanGo`): of the claimants a circle would need, take the oldest
  (`OldestOf`, by the well-foundedness of the naturals); nobody older waits for the resource, so
  neither guard bars it. Settings, ties and numbers are arbitrary.
* `NoFalseAccusation` (`HoldersAreInTheWay`): the page's counts and the claim's select the same
  rows, by `TypeOK`. It is about lists read at one moment; see below for the others.

`RunGraphProofs`, `ReuseProofs` (any graph, attempts, threads, resumes):

* `TypeCorrect`: `Spec => []TypeOK`.
* `GatesHonoured` (`ApprovedBeforeExecuted`) and `ThreadsServe`, when a worker taken for dead is
  dead (`Survives \subseteq {FALSE}`). The property says nothing of why a thread may write a
  row, so it is strengthened to `IInv`: run, executor and threads agree on the segment and
  nobody resumes under an executor (`Served`); a dispatched gated task has its approval, and a
  thread writes a row of its own that is an attempt (`AtWork`); gate rows are never attempts
  (`GateRows`). The code does not guarantee the assumption; without it a late thread works for
  a segment that is not its executor's (`service.py:480-482`, `513`).
* `ParkingSafe` (`ParkedIsDecidable`), with one writer as well (`OneWriter`, that is SQLite):
  `ParkInv` adds that a parking transaction that decided to wait still sees an open gate. On
  PostgreSQL a decision between the park's count and its commit is lost.
* `SuccessesAreCurrent` (`CurrentUnlessCut`): `BookInv` says how the newest rows of a task and of
  its upstreams lie in time while an executor is at work (`Booked`, `Places`), and that with
  none at work what a resume would reuse is current (`ReuseIsCurrent`) unless a lost worker
  cut the segment before that task. Acyclicity is used to go up a chain of reused tasks.
* `PageAgrees` (`SurfacesAgree`): on top of these, `LaneInv` orders the rows of each lane: an
  attempt begins only once the one before it was settled, so a live bar is its lane's last. The
  graph, which orders by attempt alone, then picks the card's row through every resume, unless
  an earlier segment got further with the task than the last one (`Relapsed`).

`PagesProofs`:

* `CardIsTrue` (`OwnCardIsTrue`): `CardInv` ties a click that the server recorded to the gate's
  row; a row is decided once, so a card that was earned stays right.
* `ReadIsSeen` (`ReadWasShown`): `BellInv` says that a response accounts for every event up to
  its stamp (`Accounts`), on screen, in flight and in storage, and that what is stamped as read
  was seen (`SeenUpTo`); the panel shows the response it stamps.

`PanelsProofs`:

* `GapsAreTold` (`NoMissIsHidden`): `GapsInv` keeps every scan, landed or in flight, `Faithful`:
  what its cap cut off is older than its floor. Headline and day marks then follow.
* `ReportsAreTheRows` (`ReportIsTheRows`): `ReportInv` says that the lists follow the run that
  was read, a frame follows the probe of its own address, and the latest link its newest
  answer; probes that were aborted land without effect on it. For an answer read in parts,
  `Picked` says that a later report than the one picked ended since: so the newer run named
  has none, or ended during the read, and then the property excepts it.
* `DeadSchedulerNoticed` (`DeadSchedulerShows`): `WallInv` orders the runs by their time; the
  first fire after the newest run of a workflow is then at most the fire that was owed.
* `CleanupIsSafe` (`CleanupSpares`), for any runs, days, passes and batches: `RetentionInv` says
  that a run that is over was last touched when it finished (`RunsFollow`), that a success
  stays one until its row goes, and that what a pass may remove files of has no row and never
  will again (`PassFollows`). The re-check in the `DELETE` and the survivors asked for after it
  are what keep a resumed run and its files.

`EditorsProofs`:

* `RunsStartAsShown` (`RunsAsShown`): `RunFormInv` says that what a request carries is what the
  dialog showed under the form it showed (`SentIsShown`); what the server adds is the default.
* `EditorIsTrue` (`EditorKeepsItsWord`): from the types of flow, drafts and locks
  (`EditorTypes`): an accepted form reads back as the drafts that were sent, the lock saved is
  the one published. A list, asked for, answered or landed, shows each peer with a lock it had
  while the editor was open (`PeersHad`), so what is said of sharing is true of that lock.
* `TasksAreListed` (`TasksRunAsListed`): `TasksInv` says that names are unique and a row says
  once what to run (`Table`; as `TaskAssumption` says, others submit what the form does). A run
  can take all tasks exactly if every set of them has one that waits for none of it
  (`Grounded`; `RunnableIsGrounded`, `GroundedIsRunnable`): then no round of the worker stalls,
  so the page's rounds, which break a stall, are the same (`PageOrderIsTheWorkers`). An edit
  closes a cycle only through the task it edits (`EditedGrounded`), which `has_cycle` refuses
  but for the rename excepted. Lists in order of ids and the rounds themselves are shown to
  exist by a least counterexample (`AscendingLists`, `RoundsExist`). A request between its
  check and its commit satisfies the check on the rows it read (`Checked`); what it leaves when
  those have changed since is `overtaken`, and excepted.

`FormsProofs`:

* `NotesAreKept` (`NothingTypedIsLost`): `NotesInv` adds that an answered write is settled, so
  removing its draft loses nothing, and that a row shown before the server took it belongs to
  an edit under way (`ShownIsTaken`), whose note to go back to is a settled one (`WritesKnown`):
  so a rollback never brings up a text nobody saved.
* `PlanIsCurrent` (`PlanIsOfTheChoice`): `PlanInv` says that only the newest effect's read is
  alive. It holds until a resume is refused; the read after a refusal is not guarded.
* `LogFollowsTheView` (`LogIsOfTheRun`): of all reads only the latest may land, and it is of the
  session on view.
* `NothingDeletedUnseen` (`DeletionAnnounced`): `SettingsInv` says that every figure in a save, in
  the table or in a cleanup was once previewed in full (`EveryFigureShown`).
* `SearchClaimsHold` (`ClaimsHold`): `SearchInv` says that what is on screen is the answer of some
  scan with the filters it was asked with. A scan that nothing stopped read every log
  (`CompleteHasAll`, from the least of its bounds), one without caveats every line, and an answer
  below the limit holds everything that was found (`FirstIsAll`). Excepted are matches past the
  searched part of a line and past a cut that masking hides (`PassedOver`).

`CalendarProofs` (days, hours, months and weeks of any length, any zone that moves its clock
once, by less than two days; `ZonesAssumption` is the code's "a day either side brackets any
transition"):

* `FormKeepsTheSchedule` (`RoundTripKeepsTheSchedule`): `BuilderInv` says that an untouched form
  means what is stored; lemmas show that an expression the server can read opens as a form
  that means the same (`OpensAsItself`) and that what the dropdowns write they read back
  (`DropdownsRead`), for every calendar.
* `NextFireIsTrue` (`NextFireIsTheServers`), for zones whose change keeps to one day (`KeepsDay`,
  see below) and any expression that reads. `Fires` are the server's instants of a wall time
  (`FiresAgree`). The day walk is exact because in such a zone the instants of an earlier day's
  wall times are before those of a later day's: nothing fires between two days of the walk, what
  its search skips within a day is past, and what it leaves unsearched is later than the best
  found. `NoFireIsMissed`: with a horizon longer than the calendar takes to repeat (366 * 8 days
  in the code) no fire of any day lies before the one named.
* `ScheduleIsShown` (`ShownIsTheSchedule`): by `WindowsTyped` alone, for any windows. The code turns a
  wall time into an instant by `WallInstant`; it is the first instant at which the clock has
  reached that time (`Reached`), by cases on the jump. So an instant is in an occurrence when
  the furthest the clock has read by then (`Furthest`) is between its wall times, which the
  open windows of a day and the day before decide. Merged spans are disjoint and cover what
  the occurrences cover, so the answer at an instant is the end of its span or the least start
  to come; a week of wall times without a break stays so for every week. For the grid, the
  marks painted and the open instants of a quiet week are in bijection.

Only model-checked:

* Liveness, which the prover does not do: `CrashedRunsRecover`, `ExclusiveRunStarts`,
  `WaitingServiceStarts`, `SharedRunsPassService`, `RunSettles`, `BadgeSettles`,
  `SettlesOnScreen`, `LiveRowsSettle`, `WholeLogShown`, `GoesQuiet`, `GatesAreSeen`,
  `PageCatchesUp`.
* What contradicts the code's word, below: those runs expect a violation.

## Disagreements between the code and what it says

Checked (each a finding in `PROJECT.json`):

* `resume_early` (`OneExecutorPerRun`): a cancel that read `queued` stamps a run finished although a worker claimed
  it meanwhile; it can be resumed at once and two executors work on it.
* `graph_late_requeue` (`RefusedByAPerson`): a requeue based on an old count re-enters a run that parked again; the
  open gate is taken for a rejection.
* `graph_stale_reuse` (`SuccessIsCurrent`): a worker is lost after an upstream task was run again; the next resume
  reuses the old success below it.

Seen while modelling; where a property would fail by one, its statement excepts it by name.

Queue and runs:

* A decision between the park's count and its commit is lost on PostgreSQL
  (`worker/service.py:668-674`); a thread takes the segment it serves from the row at the time
  it starts (`:480-482`, `:513`); a forced re-run marker counts as work, so a resumed run handed
  back by a building environment keeps its slot (`:813-816`).
* `_requeue` (`worker/service.py:811-823`) checks the status but not `claimed_by`, so after a stale
  cancel and an early resume a worker may hand its old claim back and null `started_at` of a
  run in work, although `worker/queue.py:24-31` says a run is mid-flight "from its first claim".
* `open_gate` does not look at the run again after the poll (`worker/service.py:164-170`, `:551`):
  a gate written on a run cancelled in between is offered for ever by a page that no longer
  polls, although the page says of it that it "Renders nothing when no gate is open, so it needs
  no status guard" (`App.tsx:1592`). `get_run` reads the run and its rows apart
  (`api/routes_runs.py:56-61`): across a resume the page may rest on the gate of before.
  `SettlesOnScreen` excepts both (`slipped`).
* `cancel_run` writes by primary key, so a cancel read before a run succeeded overwrites the
  success; a cancelled run gives its slot up while its executor winds down, and one handed
  back by a live worker is not always stamped finished.
* A restarted service gives up its lock (`services/locks.py:114-115`).
* A gate opened just after a cancel on a worker that then dies leaves an open row in the
  cancelled run; after a resume its lane says "waiting" beside a live attempt
  (`App.tsx:1834-1850`). The graph colours a resumed run by the highest attempt number
  (`App.tsx:1654`), though `attempts.ts:6-7` says the surfaces cannot disagree; `SurfacesAgree`
  excepts the tasks where that is another row than the card's (`Relapsed`).
* `update_task` validates before it renames the siblings (`api/routes_workflows.py:214-230`): one
  edit that renames a task and makes it wait for a task that waits for it leaves a cycle,
  although "Reject ... dependency cycles at write time" (`:50`). Two edits are not serialised:
  each checked before the other's commit, they may leave a cycle as well, an unknown
  dependency or a task with the sources of two types (`:51`, `api/crud.py:17`).
  `TasksRunAsListed` excepts both (`RenamedOntoDependant`, `overtaken`).

Schedules and services:

* `serviceWindows.ts:152-158`: `nextChange` promises null for a gapless week, but a window inside
  an always-open stretch makes its 8-day horizon a flip; `services/windows.py:127-146` the same.
* The handover line names the first waiting service by name while the queue is by
  `state_since` (`serviceStatus.ts:93`); the wallboard may give the end of a window as the start
  of a handover (`serviceStatus.ts:94-96`).
* The cron preview walks civil days (`cron.ts:10-11`), so where a change does not keep to one it
  errs: it misses a fire in a gap that ends at midnight (America/Nuuk, Scoresbysund) and takes
  those of a night that goes back over midnight out of order. `KeepsDay` excepts them. A window
  that a clock change swallows reads "always on".
* Gaps: a streak joins misses across fires that ran; "Every scheduled run happened" also when
  all were blocked or paused; a day that was scanned in part reads as on time; the Runs page
  drops the zone of a heatmap's link (`Heatmap.tsx:244`, `App.tsx:1136-1140`).
* Wallboard: "overdue" also for a workflow that is queued, paused or was just enabled; runs
  beyond the 300 read hide it; "All systems nominal" before any answer.

Pages:

* A lost decision leaves a card "approved" for a row that was never read
  (`ApprovalGate.tsx:331-338`). The queue's explanation may accuse a run that has ended, when its
  three lists are of different moments (`App.tsx:1305-1308`).
* Log search: `truncated` is measured after masking, which may hide the cut of a log
  (`logsearch.py:179-181`); a match past the first 8 KB of a line is passed over by a search that
  calls itself complete (`:42-46`, `:77-90`); `ClaimsHold` excepts both (`PassedOver`). Clear does
  not cancel a search that is out.
* The log viewer's fetches on close and error are not guarded against a switch of tab
  (`LogViewer.tsx:128-140`); a lost log read after a switch leaves the other run's text; a
  service's log is not read again when a run ends.
* Resume dialog: the read after a refused submit is not guarded; a resume taken after its
  dialog closed closes one opened since. A task's modal closes whichever one is open by then.
* Notes: a rollback can restore an older original; "Nothing was written" is false when only
  the reply was lost; an edit that fails is rolled back and its text is gone
  (`RunNotes.tsx:144-156`), a toast says so: `NothingTypedIsLost` counts it as told.
* Settings: any response resets drafts, and answers out of order leave the page stale; retention
  saved while a cleanup runs starts none of its own.
* The form's check says "Same rules as the server" (`runForms.ts:128`) but has none of its bounds
  on parameters, choices and lengths (`run_parameters.py:49-50`, `:61-62`, `:95-96`, `:125-126`):
  such a form is refused on saving; `EditorKeepsItsWord` excepts it (`BeyondBounds`).
* Editors write every field from a row read earlier; a yes/no parameter without default is
  saved with default no; a lock name of spaces is accepted and saves the lock away
  (`LockField.tsx:26-28`); "no other workflow" ignores services; two partial saves can each
  pass `check_schedulable` and leave a scheduled workflow with a required value.
* Reports: the run's own report address is resolved at probe time; the latest page may frame
  a newer run than its banner names; the banner says of a newer run that it produced no
  notebook when that run ended with one while the answer was read (`reports.py:364-388`), which `ReportIsTheRows`
  excepts (`since`); an aborted probe whose answer had arrived still counts.

## Not modelled

Listed with reasons in `PROJECT.json`: the supervisor's lease, take-over and back-off; the
environment build; missed-run alerts, deadlines and auto-pause; process I/O, log capture,
text masking, code tracking, import and export, backup, migrations; drawing, wording and
formatting. A failed SQL statement is not modelled (a job that raises is). Workflows and runs
are not deleted under an executor. Five hazards have no property: a stalled supervisor's lease, a
rebuild under a claimed run, two schedulers, lock settings edited under a holder, and the line of
who takes over a lock, on the services board.

## Plan

1. Done: the queue and the task graph with their proofs; the pages, boards, calendar and forms of
   the browser; all safety properties that the passing runs check are theorems.
2. Next: the type invariants of the pages as theorems of their own where a reader wants them.
3. An abstract machine of one run's status and segment that both `RunQueue` and `RunGraph`
   implement, so that the two views of a run agree by proof.
