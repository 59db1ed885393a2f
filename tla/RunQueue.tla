------------------------------ MODULE RunQueue ------------------------------
(***************************************************************************)
(* The run queue and its locks: how worker processes claim queued runs,    *)
(* how services take the resources they share with runs, and how a run's   *)
(* row moves from queued to a terminal status and back by a resume.        *)
(*                                                                         *)
(* One row of the database is one element of a function: `run' is the      *)
(* table workflow_runs, `service' the table services, `setting' the lock   *)
(* columns of workflows and services.  Every SQL statement or transaction  *)
(* that commits is one action; what the Python code does between two       *)
(* commits (a claim it has not dispatched, a cancel request that has read  *)
(* the row but not written it) is state of its own, so other processes     *)
(* interleave there.  Tasks inside a run are abstracted to "the segment    *)
(* has rows".                                                              *)
(***************************************************************************)
EXTENDS Naturals, FiniteSets

CONSTANTS
  Run,            \* run ids
  Workflow,       \* workflow ids
  Service,        \* service ids
  Worker,         \* worker process instances; a restart is a new instance
  NoResource,     \* lock_resource IS NULL
  NoRun,          \* no candidate
  NoOne,          \* claimed_by IS NULL
  Unread,         \* a submitted job that has not loaded its run yet
  WorkflowOf,     \* Run -> Workflow
  InitialSetting, \* the lock settings rows start with
  SettingChoices, \* the settings a save may write
  Editable,       \* workflows and services someone edits
  Backfill,       \* runs whose trigger_type is backfill
  Scheduled,      \* runs whose trigger_type is schedule
  Recurring,      \* run ids a later fire takes again (a fresh row)
  Cancellable,    \* runs someone may cancel
  Gated,          \* workflows with an approval gate
  MayRaise,       \* runs whose job may die of an exception
  MayBuild,       \* workflows whose environment may be (re)building
  MayPause,       \* workflows whose schedule may be disabled or snoozed
  MayCrash,       \* workers that may be killed
  MayStall,       \* live workers whose heartbeat may go stale
  Concurrency,    \* executing runs per worker (worker_concurrency)
  ClaimSkipLimit, \* _CLAIM_SKIP_LIMIT
  MaxResume       \* bound: resumes per run

VARIABLES
  run,        \* workflow_runs: status, started_at, finished_at, resume_count, claimed_by
  worked,     \* segments in which an executor wrote a task row or a gate row
  marked,     \* segments in which a resume wrote forced re-run markers
  executor,   \* jobs in the workers' pools: worker, run, the segment it serves
  pass,       \* each worker's claim pass: step, candidate, skipped, held
  worker,     \* each worker process: new, up, down
  beating,    \* workers whose heartbeat is fresh (younger than WORKER_STALE_AFTER)
  cancelling, \* cancel requests between their read and their commit
  service,    \* services.state
  stamp,      \* order of runs.created_at and services.state_since
  setting,    \* lock_resource, lock_mode, max_concurrent_runs
  building,   \* workflows one of whose environments is mid-build
  paused      \* workflows disabled, or snoozed with "pause scheduled runs"

runVars     == <<run, worked, marked>>
serviceVars == <<service>>
configVars  == <<setting, building, paused>>
workerVars  == <<executor, pass, worker, beating>>
vars == <<run, worked, marked, executor, pass, worker, beating, cancelling,
          service, stamp, setting, building, paused>>

Claimant == Run \cup Service
Segment  == 0..MaxResume
Terminal == {"success", "failed", "cancelled"}
Status   == {"none", "queued", "running", "waiting_approval"} \cup Terminal
Mode     == {"exclusive", "shared"}

ServiceState == {"off", "waiting_lock", "starting", "running", "stopping"}
HOLDING      == {"starting", "running", "stopping"}

ASSUME QueueAssumption ==
  /\ IsFiniteSet(Run) /\ IsFiniteSet(Service)
  /\ Run \cap Service = {} /\ Workflow \cap Service = {}
  /\ WorkflowOf \in [Run -> Workflow]
  /\ MaxResume \in Nat /\ Concurrency \in Nat /\ ClaimSkipLimit \in Nat
  /\ InitialSetting \in [Workflow \cup Service -> SettingChoices]
  /\ \A c \in SettingChoices : c.mode \in Mode /\ c.limit \in Nat \ {0}
  /\ NoRun \notin Run /\ NoOne \notin Worker /\ Unread \notin Nat

-----------------------------------------------------------------------------
(* Locks: runrail/worker/queue.py and runrail/services/locks.py.           *)

\* A run is mid-flight from its first claim until it lands terminal.
Occupies(r) ==
  \/ run[r].status \in {"running", "waiting_approval"}
  \/ run[r].status = "queued" /\ run[r].started

Holding(s) == service[s] \in HOLDING

LockOf(r) == setting[WorkflowOf[r]]

SameResource(a, b) == a.resource # NoResource /\ a.resource = b.resource

\* Two claims on one resource that cannot both be granted.
Incompatible(a, b) == SameResource(a, b) /\ "exclusive" \in {a.mode, b.mode}

\* Mutant: the budget counts running runs only.
SiblingsRunningOnly(r) ==
  {o \in Run : o # r /\ WorkflowOf[o] = WorkflowOf[r] /\ run[o].status = "running"}

\* OTHER runs of the same workflow that hold one of its concurrency slots.
Siblings(r) ==
  {o \in Run : o # r /\ WorkflowOf[o] = WorkflowOf[r] /\ Occupies(o)}

WithinBudget(r) == Cardinality(Siblings(r)) < LockOf(r).limit

\* Mutants of the barrier: there is none; it ignores what the run waits for.
BarredNever(r) == FALSE
BarredAlways(r) ==
  \E h \in Run :
    /\ h # r
    /\ SameResource(LockOf(h), LockOf(r))
    /\ run[h].status = "queued" /\ LockOf(h).mode = "exclusive"
    /\ LockOf(r).mode = "shared" /\ ~run[r].started

\* The starvation barrier: an exclusive run waiting its turn bars new shared
\* runs, unless a service holds the resource and so is what it waits for.
Barred(r) ==
  \E h \in Run :
    /\ h # r
    /\ SameResource(LockOf(h), LockOf(r))
    /\ run[h].status = "queued" /\ LockOf(h).mode = "exclusive"
    /\ LockOf(r).mode = "shared" /\ ~run[r].started
    /\ ~\E s \in Service : Holding(s) /\ SameResource(setting[s], LockOf(h))

ResourceBlocked(r) ==
  \/ \E h \in Run : h # r /\ Occupies(h) /\ Incompatible(LockOf(h), LockOf(r))
  \/ Barred(r)

\* Mutants: a waiting service bars every new run; no waiting one bars.
ServiceBlocksYounger(r) ==
  \E s \in Service :
    /\ Incompatible(setting[s], LockOf(r))
    /\ Holding(s) \/ (service[s] = "waiting_lock" /\ ~run[r].started)
ServiceBlocksHolding(r) ==
  \E s \in Service : Incompatible(setting[s], LockOf(r)) /\ Holding(s)

\* A service that holds the resource denies it; one that waits for it bars
\* only new runs queued after it began to wait.
ServiceBlocksRun(r) ==
  \E s \in Service :
    /\ Incompatible(setting[s], LockOf(r))
    /\ \/ Holding(s)
       \/ service[s] = "waiting_lock" /\ ~run[r].started /\ stamp[s] < stamp[r]

\* The WHERE clause of the claim, in the SELECT and again in the UPDATE.
Claimable(r) ==
  /\ run[r].status = "queued"
  /\ WithinBudget(r)
  /\ ~ResourceBlocked(r)
  /\ ~ServiceBlocksRun(r)

\* Backfills last, then the oldest.  Equal timestamps are broken by id in the
\* code and by choice here.
ClaimsBefore(a, b) ==
  IF (a \in Backfill) = (b \in Backfill) THEN stamp[a] < stamp[b] ELSE b \in Backfill

\* Mutant: services look at runs and not at one another.
ServiceConflictsRunsOnly(s, waiting) ==
  \E r \in Run : Occupies(r) /\ Incompatible(LockOf(r), setting[s])

\* _conflicts: what denies service s its resource now.  `waiting' is whether
\* the service already waits, so that its state_since orders it.
ServiceConflicts(s, waiting) ==
  \/ \E r \in Run :
       \/ Occupies(r) /\ Incompatible(LockOf(r), setting[s])
       \/ /\ SameResource(LockOf(r), setting[s])
          /\ run[r].status = "queued" /\ ~run[r].started
          /\ LockOf(r).mode = "exclusive" /\ setting[s].mode = "shared"
          /\ waiting => stamp[r] < stamp[s]
  \/ \E o \in Service :
       /\ o # s
       /\ Incompatible(setting[o], setting[s])
       /\ \/ Holding(o)
          \/ service[o] = "waiting_lock" /\ (waiting => stamp[o] < stamp[s])

\* Only the order of timestamps is ever read, so they are kept as ranks: c
\* gets the newest one, or (a tie) shares it, and the others close up.  A row
\* that will not be queued again keeps none.
Stamped == {r \in Run : /\ run[r].status # "none"
                        /\ run[r].status \in Terminal => run[r].seg < MaxResume} \cup
           {s \in Service : service[s] = "waiting_lock"}
Arrive(c, mayTie) ==
  LET others == Stamped \ {c}
      rank(d) == 1 + Cardinality({x \in others : stamp[x] < stamp[d]})
      newest == {d \in others : \A x \in others : stamp[x] <= stamp[d]}
  IN \E now \in {1 + Cardinality(others)} \cup {rank(d) : d \in IF mayTie THEN newest ELSE {}} :
       stamp' = [d \in Claimant |->
                   IF d = c THEN now ELSE IF d \in others THEN rank(d) ELSE 0]

-----------------------------------------------------------------------------
(* Enqueueing, cancelling, resuming and deciding: the API's requests.      *)

FreshRun == [status |-> "queued", started |-> FALSE, finished |-> FALSE,
             seg |-> 0, owner |-> NoOne]

\* A manual run, a retry, a backfill date or a scheduled fire: a new row.  The
\* next fire of a recurring one is at a later moment, never a tie.
CreateRun(r) ==
  /\ \/ run[r].status = "none"
     \/ /\ r \in Recurring /\ run[r].status \in Terminal /\ cancelling[r] = "no"
        /\ \A e \in executor : e.run # r
        /\ \A w \in Worker : pass[w].run # r
  /\ run' = [run EXCEPT ![r] = FreshRun]
  /\ worked' = [worked EXCEPT ![r] = {}]
  /\ marked' = [marked EXCEPT ![r] = {}]
  /\ Arrive(r, run[r].status = "none")
  /\ UNCHANGED <<workerVars, cancelling, serviceVars, configVars>>

\* cancel_run reads the row and decides from it whether to stamp finished_at ...
CancelRead(r) ==
  /\ r \in Cancellable /\ cancelling[r] = "no"
  /\ run[r].status \in {"queued", "running", "waiting_approval"}
  /\ cancelling' = [cancelling EXCEPT
       ![r] = IF run[r].status = "running" THEN "stopping" ELSE "settles_now"]
  /\ UNCHANGED <<runVars, workerVars, serviceVars, stamp, configVars>>

\* ... and writes it by primary key, whatever the row says by then.
CancelCommit(r) ==
  /\ cancelling[r] # "no"
  /\ run' = [run EXCEPT ![r] = [@ EXCEPT
       !.status = "cancelled", !.finished = run[r].finished \/ cancelling[r] = "settles_now"]]
  /\ cancelling' = [cancelling EXCEPT ![r] = "no"]
  /\ UNCHANGED <<worked, marked, workerVars, serviceVars, stamp, configVars>>

\* A human resume opens a new segment; forced re-runs leave markers in it.
ResumeRun(r) ==
  /\ run[r].status = "failed" \/ (run[r].status = "cancelled" /\ run[r].finished)
  /\ run[r].seg < MaxResume
  /\ run' = [run EXCEPT ![r] = [@ EXCEPT !.status = "queued", !.seg = run[r].seg + 1,
                                          !.started = FALSE, !.finished = FALSE]]
  /\ \E forced \in BOOLEAN :
       marked' = [marked EXCEPT ![r] = IF forced THEN @ \cup {run[r].seg + 1} ELSE @]
  /\ UNCHANGED <<worked, workerVars, cancelling, serviceVars, stamp, configVars>>

\* The last open gate of a parked run is decided: the run re-enters the queue.
DecideGate(r) ==
  /\ run[r].status = "waiting_approval"
  /\ run' = [run EXCEPT ![r].status = "queued"]
  /\ UNCHANGED <<worked, marked, workerVars, cancelling, serviceVars, stamp, configVars>>

-----------------------------------------------------------------------------
(* A worker's claim pass: claim_runnable_run and claim_next_run.           *)

Idle == [step |-> "idle", run |-> NoRun, seg |-> 0, skip |-> {}, held |-> {}]

Busy(w) == {e \in executor : e.worker = w}

Candidates(w) ==
  {r \in Run : /\ Claimable(r)
               /\ r \notin pass[w].skip
               /\ WorkflowOf[r] \notin pass[w].held}

\* The SELECT: the oldest claimable run.  A pass starts only with a free slot.
SelectRun(w) ==
  /\ worker[w] = "up"
  /\ \/ pass[w].step = "idle" /\ Cardinality(Busy(w)) < Concurrency
     \/ /\ pass[w].step = "next"
        /\ Cardinality(pass[w].skip) + Cardinality(pass[w].held) < ClaimSkipLimit
  /\ \E r \in Candidates(w) :
       /\ \A o \in Candidates(w) : ~ClaimsBefore(o, r)
       /\ pass' = [pass EXCEPT ![w] = [@ EXCEPT !.step = "selected", !.run = r]]
  /\ UNCHANGED <<runVars, executor, worker, beating, cancelling, serviceVars, stamp, configVars>>

\* Nothing left to claim, or too many runs passed over: sleep until the next poll.
EndPass(w) ==
  /\ pass[w].step = "next"
  /\ \/ Candidates(w) = {}
     \/ Cardinality(pass[w].skip) + Cardinality(pass[w].held) >= ClaimSkipLimit
  /\ pass' = [pass EXCEPT ![w] = Idle]
  /\ UNCHANGED <<runVars, executor, worker, beating, cancelling, serviceVars, stamp, configVars>>

\* Mutant: the UPDATE trusts the SELECT.
ClaimRunUnchecked(w) ==
  /\ pass[w].step = "selected"
  /\ LET r == pass[w].run IN
     /\ run' = [run EXCEPT ![r] = [@ EXCEPT !.status = "running", !.started = TRUE, !.owner = w]]
     /\ pass' = [pass EXCEPT ![w] = [@ EXCEPT !.step = "claimed", !.seg = run[r].seg]]
  /\ UNCHANGED <<worked, marked, executor, worker, beating, cancelling, serviceVars, stamp, configVars>>

\* The conditional UPDATE re-checks every condition; zero rows ends the pass.
ClaimRun(w) ==
  /\ pass[w].step = "selected"
  /\ LET r == pass[w].run IN
     IF Claimable(r)
     THEN /\ run' = [run EXCEPT ![r] = [@ EXCEPT !.status = "running", !.started = TRUE, !.owner = w]]
          /\ pass' = [pass EXCEPT ![w] = [@ EXCEPT !.step = "claimed", !.seg = run[r].seg]]
     ELSE /\ pass' = [pass EXCEPT ![w] = Idle]
          /\ UNCHANGED run
  /\ UNCHANGED <<worked, marked, executor, worker, beating, cancelling, serviceVars, stamp, configVars>>

\* A scheduled iteration, never executed, of a workflow paused since it was queued.
PausedSinceQueued(w) ==
  LET r == pass[w].run IN
  /\ r \in Scheduled /\ pass[w].seg = 0
  /\ WorkflowOf[r] \in paused
  /\ worked[r] \cup marked[r] = {}

\* More runs running or parked than the limit: only once the limit was lowered.
OverBudget(r) ==
  Cardinality({o \in Run : /\ WorkflowOf[o] = WorkflowOf[r]
                           /\ run[o].status \in {"running", "waiting_approval"}})
    > LockOf(r).limit

NotStartable(w) ==
  LET r == pass[w].run IN WorkflowOf[r] \in building \/ OverBudget(r)

\* _stamp_if_cancelled
Stamp(row) == IF row.status = "cancelled" THEN [row EXCEPT !.finished = TRUE] ELSE row

DropRun(w) ==
  /\ pass[w].step = "claimed" /\ PausedSinceQueued(w)
  /\ LET r == pass[w].run IN
     /\ run' = [run EXCEPT ![r] =
          Stamp(IF @.status = "running"
                THEN [@ EXCEPT !.status = "cancelled", !.finished = TRUE] ELSE @)]
     /\ pass' = [pass EXCEPT ![w] = [@ EXCEPT !.step = "next", !.run = NoRun,
                                             !.skip = pass[w].skip \cup {r}]]
  /\ UNCHANGED <<worked, marked, executor, worker, beating, cancelling, serviceVars, stamp, configVars>>

\* Mutant: every run handed back loses its started_at.
RequeueRunUnstarted(w) ==
  /\ pass[w].step = "claimed" /\ ~PausedSinceQueued(w) /\ NotStartable(w)
  /\ LET r == pass[w].run IN
     /\ run' = [run EXCEPT ![r] =
          Stamp(IF @.status = "running"
                THEN [@ EXCEPT !.status = "queued", !.started = FALSE] ELSE @)]
     /\ pass' = [pass EXCEPT ![w] = [@ EXCEPT !.step = "next", !.run = NoRun,
                                             !.held = pass[w].held \cup {WorkflowOf[r]}]]
  /\ UNCHANGED <<worked, marked, executor, worker, beating, cancelling, serviceVars, stamp, configVars>>

\* Hand the run back; one that has executed nothing in this segment is again
\* a run that never started.
RequeueRun(w) ==
  /\ pass[w].step = "claimed" /\ ~PausedSinceQueued(w) /\ NotStartable(w)
  /\ LET r == pass[w].run
         touched == pass[w].seg \in worked[r] \cup marked[r]
     IN
     /\ run' = [run EXCEPT ![r] =
          Stamp(IF @.status = "running"
                THEN [@ EXCEPT !.status = "queued", !.started = run[r].started /\ touched] ELSE @)]
     /\ pass' = [pass EXCEPT ![w] = [@ EXCEPT !.step = "next", !.run = NoRun,
                                             !.held = pass[w].held \cup {WorkflowOf[r]}]]
  /\ UNCHANGED <<worked, marked, executor, worker, beating, cancelling, serviceVars, stamp, configVars>>

SubmitJob(w) ==
  /\ pass[w].step = "claimed" /\ ~PausedSinceQueued(w) /\ ~NotStartable(w)
  /\ executor' = executor \cup {[worker |-> w, run |-> pass[w].run, seg |-> Unread]}
  /\ pass' = [pass EXCEPT ![w] = Idle]
  /\ UNCHANGED <<runVars, worker, beating, cancelling, serviceVars, stamp, configVars>>

-----------------------------------------------------------------------------
(* A run's executor: execute_workflow_run, seen from the run's row.        *)

\* The job thread loads the run and serves whatever segment it then shows.
StartJob(e) ==
  /\ e.seg = Unread
  /\ executor' = (executor \ {e}) \cup {[e EXCEPT !.seg = run[e.run].seg]}
  /\ UNCHANGED <<runVars, pass, worker, beating, cancelling, serviceVars, stamp, configVars>>

\* The graph writes a task row or opens a gate in its segment.
WriteTaskRow(e) ==
  /\ e.seg # Unread
  /\ worked' = [worked EXCEPT ![e.run] = @ \cup {e.seg}]
  /\ UNCHANGED <<run, marked, workerVars, cancelling, serviceVars, stamp, configVars>>

\* Gates are open: release the run and the worker.  When every gate was
\* decided meanwhile the same transaction requeues it.
ParkRun(e) ==
  /\ WorkflowOf[e.run] \in Gated /\ e.seg \in worked[e.run]
  /\ run[e.run].status = "running" /\ run[e.run].seg = e.seg
  /\ \E status \in {"waiting_approval", "queued"} :
       run' = [run EXCEPT ![e.run].status = status]
  /\ executor' = executor \ {e}
  /\ UNCHANGED <<worked, marked, pass, worker, beating, cancelling, serviceVars, stamp, configVars>>

\* The finalize: every write fenced to the executor's segment, the outcome to
\* a row still running.
FinishRun(e) ==
  /\ e.seg # Unread
  /\ \E outcome \in Terminal :
       run' = [run EXCEPT ![e.run] =
         IF @.seg # e.seg THEN @
         ELSE IF @.status = "running" THEN [@ EXCEPT !.status = outcome, !.finished = TRUE]
         ELSE [@ EXCEPT !.finished = TRUE]]
  /\ executor' = executor \ {e}
  /\ UNCHANGED <<worked, marked, pass, worker, beating, cancelling, serviceVars, stamp, configVars>>

\* The job raised: _watch_job fails the run if it is still this worker's.
JobRaises(e) ==
  /\ e.run \in MayRaise
  /\ run' = [run EXCEPT ![e.run] =
       IF @.status = "running" /\ @.owner = e.worker
       THEN [@ EXCEPT !.status = "failed", !.finished = TRUE] ELSE @]
  /\ executor' = executor \ {e}
  /\ UNCHANGED <<worked, marked, pass, worker, beating, cancelling, serviceVars, stamp, configVars>>

-----------------------------------------------------------------------------
(* Worker processes: start, heartbeat, crash, recovery.                    *)

\* Mutant: only runs no worker ever claimed count as abandoned.
AbandonedUnclaimed(r, w) == run[r].owner = NoOne

\* Runs no live worker executes, as worker w sees them.
Abandoned(r, w) == run[r].owner # w /\ run[r].owner \notin beating

\* Mutant: interrupted runs are queued again.
RecoveredRequeues(w) ==
  [r \in Run |->
     IF Abandoned(r, w) /\ run[r].status = "running"
     THEN [run[r] EXCEPT !.status = "queued"] ELSE run[r]]

\* recover_interrupted_runs, on the run rows.
Recovered(w) ==
  [r \in Run |->
     IF ~Abandoned(r, w) THEN run[r]
     ELSE IF run[r].status = "running"
          THEN [run[r] EXCEPT !.status = "failed", !.finished = TRUE]
          ELSE Stamp(run[r])]

\* A worker process begins: it beats, then recovers, before claiming anything.
StartWorker(w) ==
  /\ worker[w] = "new"
  /\ worker' = [worker EXCEPT ![w] = "up"]
  /\ beating' = beating \cup {w}
  /\ run' = Recovered(w)
  /\ UNCHANGED <<worked, marked, executor, pass, cancelling, serviceVars, stamp, configVars>>

Recover(w) ==
  /\ worker[w] = "up"
  /\ run' = Recovered(w)
  /\ UNCHANGED <<worked, marked, workerVars, cancelling, serviceVars, stamp, configVars>>

Beat(w) ==
  /\ worker[w] = "up" /\ w \notin beating
  /\ beating' = beating \cup {w}
  /\ UNCHANGED <<runVars, executor, pass, worker, cancelling, serviceVars, stamp, configVars>>

\* Ninety seconds without a beat: the process is dead, or only stalled.
GoStale(w) ==
  /\ w \in beating
  /\ worker[w] = "down" \/ w \in MayStall
  /\ beating' = beating \ {w}
  /\ UNCHANGED <<runVars, executor, pass, worker, cancelling, serviceVars, stamp, configVars>>

\* A kill, a power cut, a second Ctrl+C: the jobs go with the process.
Crash(w) ==
  /\ worker[w] = "up" /\ w \in MayCrash
  /\ worker' = [worker EXCEPT ![w] = "down"]
  /\ executor' = executor \ Busy(w)
  /\ pass' = [pass EXCEPT ![w] = Idle]
  /\ UNCHANGED <<runVars, beating, cancelling, serviceVars, stamp, configVars>>

-----------------------------------------------------------------------------
(* Services, as far as their locks go: try_claim and the states around it. *)

\* A claim that fails leaves a service waiting; its turn dates from then.
ClaimService(s, from, waiting) ==
  /\ service[s] = from
  /\ \/ /\ setting[s].resource = NoResource \/ ~ServiceConflicts(s, waiting)
        /\ service' = [service EXCEPT ![s] = "starting"]
        /\ UNCHANGED stamp
     \/ /\ setting[s].resource # NoResource /\ ServiceConflicts(s, waiting)
        /\ ~waiting
        /\ service' = [service EXCEPT ![s] = "waiting_lock"]
        /\ Arrive(s, TRUE)
  /\ UNCHANGED <<runVars, workerVars, cancelling, configVars>>

StartService(s)    == ClaimService(s, "off", FALSE)
RetryService(s)    == ClaimService(s, "waiting_lock", TRUE)
RestartService(s)  == ClaimService(s, "stopping", FALSE)

MoveService(s, from, to) ==
  /\ service[s] \in from
  /\ service' = [service EXCEPT ![s] = to]
  /\ UNCHANGED <<runVars, workerVars, cancelling, stamp, configVars>>

LaunchService(s) == MoveService(s, {"starting"}, "running")
StopService(s)   == MoveService(s, {"running"}, "stopping")

\* Stopped, exited, failed to start, or found dead by a supervisor taking over.
ServiceEnds(s)   == MoveService(s, HOLDING, "off")

\* No longer wanted while it waits (its window closed, someone pressed Stop).
GiveUpWaiting(s) == MoveService(s, {"waiting_lock"}, "off")

-----------------------------------------------------------------------------
(* Configuration.                                                          *)

\* update_workflow, update_service: the stored lock changes at once.
EditSetting(c) ==
  /\ c \in Editable
  /\ \E new \in SettingChoices :
       /\ new # setting[c]
       /\ setting' = [setting EXCEPT ![c] = new]
  /\ UNCHANGED <<runVars, workerVars, cancelling, serviceVars, stamp, building, paused>>

\* The lock settings of something that holds its resource are left alone.
AtRest(c) ==
  /\ c \in Workflow => \A r \in Run : WorkflowOf[r] = c => ~Occupies(r)
  /\ c \in Service => ~Holding(c)

EditAtRest(c) == AtRest(c) /\ EditSetting(c)

Toggle(set, x) == IF x \in set THEN set \ {x} ELSE set \cup {x}

\* An environment of the workflow starts or ends a build.
ToggleBuild(f) ==
  /\ f \in MayBuild
  /\ building' = Toggle(building, f)
  /\ UNCHANGED <<runVars, workerVars, cancelling, serviceVars, stamp, setting, paused>>

\* The schedule is disabled, auto-paused or snoozed; or back on.
TogglePause(f) ==
  /\ f \in MayPause
  /\ paused' = Toggle(paused, f)
  /\ UNCHANGED <<runVars, workerVars, cancelling, serviceVars, stamp, setting, building>>

-----------------------------------------------------------------------------
Init ==
  /\ run = [r \in Run |-> [FreshRun EXCEPT !.status = "none"]]
  /\ worked = [r \in Run |-> {}]
  /\ marked = [r \in Run |-> {}]
  /\ executor = {}
  /\ pass = [w \in Worker |-> Idle]
  /\ worker = [w \in Worker |-> "new"]
  /\ beating = {}
  /\ cancelling = [r \in Run |-> "no"]
  /\ service = [s \in Service |-> "off"]
  /\ stamp = [c \in Claimant |-> 0]
  /\ setting = InitialSetting
  /\ building = {}
  /\ paused = {}

RunNext(r) == CreateRun(r) \/ CancelRead(r) \/ CancelCommit(r) \/ ResumeRun(r) \/ DecideGate(r)

PassNext(w) ==
  SelectRun(w) \/ EndPass(w) \/ ClaimRun(w) \/ DropRun(w) \/ RequeueRun(w) \/ SubmitJob(w)

WorkerNext(w) == StartWorker(w) \/ Recover(w) \/ Beat(w) \/ GoStale(w) \/ Crash(w)

ExecutorNext(e) ==
  StartJob(e) \/ WriteTaskRow(e) \/ ParkRun(e) \/ FinishRun(e) \/ JobRaises(e)

ServiceNext(s) ==
  \/ StartService(s) \/ RetryService(s) \/ RestartService(s)
  \/ LaunchService(s) \/ StopService(s) \/ ServiceEnds(s) \/ GiveUpWaiting(s)

ToggleNext == \E f \in Workflow : ToggleBuild(f) \/ TogglePause(f)

StepNext ==
  \/ \E r \in Run : RunNext(r)
  \/ \E w \in Worker : PassNext(w) \/ WorkerNext(w)
  \/ \E e \in executor : ExecutorNext(e)
  \/ \E s \in Service : ServiceNext(s)
  \/ ToggleNext

Next     == StepNext \/ \E c \in Workflow \cup Service : EditSetting(c)
RestNext == StepNext \/ \E c \in Workflow \cup Service : EditAtRest(c)

Spec == Init /\ [][Next]_vars

\* Spec where settings are only saved at rest.
RestSpec == Init /\ [][RestNext]_vars

-----------------------------------------------------------------------------
(* What a worker's and a person's schedule guarantee.  A worker process    *)
(* that is up keeps polling (run() loops until it is stopped and survives  *)
(* every exception), a task ends (its command exits or times out), and the *)
(* supervisor reconciles every service on every tick, recovery runs every  *)
(* half minute, a request that was begun ends.  Nobody is assumed to       *)
(* resume, decide, cancel, edit or enqueue anything.                       *)
Fairness ==
  /\ \A w \in Worker :
       /\ WF_vars(SelectRun(w)) /\ WF_vars(EndPass(w)) /\ WF_vars(ClaimRun(w))
       /\ WF_vars(DropRun(w)) /\ WF_vars(RequeueRun(w)) /\ WF_vars(SubmitJob(w))
       /\ WF_vars(StartWorker(w)) /\ WF_vars(Recover(w))
       /\ WF_vars(worker[w] = "down" /\ GoStale(w))
  /\ \A w \in Worker, r \in Run :
       /\ WF_vars(\E e \in executor : e.worker = w /\ e.run = r /\ StartJob(e))
       /\ WF_vars(\E e \in executor : e.worker = w /\ e.run = r /\ FinishRun(e))
  /\ \A s \in Service : WF_vars(RetryService(s)) /\ WF_vars(LaunchService(s))
  /\ \A r \in Run : WF_vars(CancelCommit(r))

FairSpec == Spec /\ Fairness

-----------------------------------------------------------------------------
(* Properties.                                                             *)

Row == [status : Status, started : BOOLEAN, finished : BOOLEAN,
        seg : Segment, owner : Worker \cup {NoOne}]

Job == [worker : Worker, run : Run, seg : Segment \cup {Unread}]

Pass == [step : {"idle", "next", "selected", "claimed"}, run : Run \cup {NoRun},
         seg : Segment, skip : SUBSET Run, held : SUBSET Workflow]

\* Every variable has its type, and a pass past its SELECT names a run.
TypeOK ==
  /\ run \in [Run -> Row]
  /\ worked \in [Run -> SUBSET Segment]
  /\ marked \in [Run -> SUBSET Segment]
  /\ executor \in SUBSET Job
  /\ pass \in [Worker -> Pass]
  /\ \A w \in Worker : pass[w].step \in {"selected", "claimed"} => pass[w].run \in Run
  /\ worker \in [Worker -> {"new", "up", "down"}]
  /\ beating \in SUBSET Worker
  /\ cancelling \in [Run -> {"no", "stopping", "settles_now"}]
  /\ service \in [Service -> ServiceState]
  /\ stamp \in [Claimant -> Nat]
  /\ setting \in [Workflow \cup Service -> SettingChoices]
  /\ building \in SUBSET Workflow
  /\ paused \in SUBSET Workflow

Holders == {r \in Run : Occupies(r)} \cup {s \in Service : Holding(s)}
ClaimOf == [c \in Claimant |-> IF c \in Run THEN LockOf(c) ELSE setting[c]]

\* However claims of runs and services interleave, two holders of one named
\* resource both hold it shared (queue.py:_resource_blocked, locks.py:_conflicts).
LocksExclude ==
  \A c, d \in Holders : c # d => ~Incompatible(ClaimOf[c], ClaimOf[d])

\* No workflow ever has more runs mid-flight - running, parked on a gate, or
\* handed back by a decision - than its max_concurrent_runs allows.
WithinLimits ==
  \A f \in Workflow :
    Cardinality({r \in Run : WorkflowOf[r] = f /\ Occupies(r)}) <= setting[f].limit

\* The queue and the services keep the promise of ResourceLock.
Locks == INSTANCE ResourceLock
           WITH Claimants <- Claimant, held <- Holders, claim <- ClaimOf
LocksRefined == Locks!Spec

\* "Deadlock is structurally impossible" (models.py, Workflow.lock_resource):
\* when nobody holds a resource that queued runs or waiting services want,
\* their starvation guards never bar one another in a circle - one can go.
Wants(c, x) ==
  \/ c \in Run /\ run[c].status = "queued" /\ LockOf(c).resource = x
  \/ c \in Service /\ service[c] = "waiting_lock" /\ setting[c].resource = x
CanGo(c) == IF c \in Run THEN Claimable(c) ELSE ~ServiceConflicts(c, TRUE)
SomeoneCanGo ==
  \A x \in {setting[c].resource : c \in Workflow \cup Service} \ {NoResource} :
    LET wanting == {c \in Claimant : Wants(c, x)} IN
    (wanting # {} /\ \A h \in Holders : ClaimOf[h].resource # x)
      => \E c \in wanting : CanGo(c)

\* A worker still passes over a run for a segment it claimed before a resume.
ClaimedEarlier(r) ==
  \E w \in Worker : pass[w].step = "claimed" /\ pass[w].run = r /\ pass[w].seg # run[r].seg

\* A run that has executed part of its segment keeps its slot and its lock,
\* through gates, decisions, re-claims and requeues, until it lands terminal
\* (queue.py:_occupies_slot, service.py:_requeue): always in its first segment,
\* and in a later one unless a claim made before the resume is still handed back.
KeepsLockMidSegment ==
  [][\A r \in Run :
       (/\ Occupies(r) /\ run[r].seg \in worked[r]
        /\ run[r].seg = 0 \/ ~ClaimedEarlier(r))
         => (Occupies(r)' \/ run'[r].status \in Terminal)]_vars

\* Nobody resumed it, so one executor serves the run's first segment, for all
\* the cancels, crashes, stalls, recoveries and gates around its claim.
OneExecutorUntilResumed ==
  \A d, e \in executor : (d.run = e.run /\ d.seg = 0 /\ e.seg = 0) => d = e

\* At most one executor works on a run at any time: routes_runcontrol.py:62-64
\* refuses a resume while the run is still stopping, so that no worker claims
\* the new segment while the old executor still runs.
OneExecutorPerRun ==
  \A d, e \in executor :
    (d.run = e.run /\ d.seg # Unread /\ e.seg # Unread) => d = e

\* "A queued exclusive run also bars new shared runs from starting, or a steady
\* drip of hourly jobs would mean the monthly job never got its turn"
\* (CHANGELOG.md:531): whatever runs keep arriving, it leaves the queue, unless a
\* service takes the resource and keeps it.
ExclusiveRunStarts ==
  \A r \in Run :
    (run[r].status = "queued" /\ LockOf(r).mode = "exclusive")
      ~> (run[r].status # "queued" \/ \E s \in Service : Holding(s))

\* "A steady stream of GPU jobs cannot starve a model whose window has opened"
\* (locks.py:8-10): a service that waits stops waiting.
WaitingServiceStarts ==
  \A s \in Service : (service[s] = "waiting_lock") ~> (service[s] # "waiting_lock")

\* "An always-on shared service no longer holds back every shared run"
\* (CHANGELOG.md:183-184), even with an exclusive run queued behind the service.
SharedRunsPassService ==
  \A r \in Run, s \in Service :
    (run[r].status = "queued" /\ LockOf(r).mode = "shared" /\ service[s] = "running")
      ~> (run[r].status # "queued" \/ ~Holding(s))

\* "A force-quit leaves phantom running runs that permanently occupy their
\* workflow's slot" (service.py:890-892): recovery by another worker ends that.
CrashedRunsRecover ==
  \A r \in Run, w \in Worker :
    (run[r].status = "running" /\ run[r].owner = w /\ worker[w] = "down")
      ~> (run[r].status # "running" \/ run[r].owner # w)
=============================================================================
