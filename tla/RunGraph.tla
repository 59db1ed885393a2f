------------------------------ MODULE RunGraph ------------------------------
(***************************************************************************)
(* One run and its task graph: what its executor does between the claim    *)
(* and the finalize, through approval gates, cancels, crashes and resumes. *)
(*                                                                         *)
(* A run is executed in segments; a resume opens the next one, an approval *)
(* re-enters the current one.  Everything an entry knows of what happened  *)
(* before it reads from the rows of the table task_runs: `rows' keeps each *)
(* task's rows in the order of their ids.                                  *)
(*                                                                         *)
(* The run has one worker slot to be executed in, and a cancel is one step *)
(* (RunQueue has both races).  A failed statement is not modelled.         *)
(***************************************************************************)
EXTENDS Naturals, Sequences, FiniteSets

CONSTANTS
  Task,        \* the workflow's tasks, as the claim reads them
  Deps,        \* Task -> SUBSET Task: depends_on_json
  Gated,       \* tasks with requires_approval
  Attempts,    \* Task -> retries + 1
  Parallelism, \* task_parallelism
  Forcible,    \* tasks someone may ask a resume to run again
  MaxResume,   \* bound: resumes
  OneWriter,   \* SQLite: an open write transaction keeps every other writer out
  Survives     \* whether a worker taken for dead may live on: {FALSE} or {TRUE, FALSE}

VARIABLES
  run,      \* the run's row: status, resume_count, whether finished_at is set
  rows,     \* task_runs, per task: segment (resume_index), attempt, status
  ex,       \* the executor: where _execute_task_graph is, and its local variables
  job,      \* per task, the thread that executes it (_run_task)
  deciding, \* per task, a decision request between its commits (_decide)
  gone,     \* no worker that still beats claims the run
  cut       \* history: the last segment whose worker was lost in the middle of it

vars == <<run, rows, ex, job, deciding, gone, cut>>

Terminal   == {"success", "failed", "cancelled"}
GateStatus == {"awaiting_approval", "approved", "rejected"}

ASSUME GraphAssumption ==
  /\ IsFiniteSet(Task) /\ Gated \subseteq Task /\ Forcible \subseteq Task
  /\ Deps \in [Task -> SUBSET Task]
  /\ Attempts \in [Task -> Nat \ {0}]
  /\ Parallelism \in Nat \ {0} /\ MaxResume \in Nat
  /\ OneWriter \in BOOLEAN /\ Survives \subseteq BOOLEAN

\* topological_tasks refuses a cycle of dependencies before anything executes.
ASSUME AcyclicAssumption ==
  \A S \in SUBSET Task : S # {} => \E t \in S : Deps[t] \cap S = {}

-----------------------------------------------------------------------------
(* What the rows say.                                                      *)

Row(segment, attempt, status) == [seg |-> segment, attempt |-> attempt, status |-> status]

\* Row i of t comes before row j in the order of segment, attempt and id.
Before(t, i, j) ==
  LET p == rows[t][i]
      q == rows[t][j]
  IN \/ p.seg < q.seg
     \/ p.seg = q.seg /\ p.attempt < q.attempt
     \/ p.seg = q.seg /\ p.attempt = q.attempt /\ i < j

\* The last of some rows of t has one of these statuses.
LastIn(t, among, statuses) ==
  \E i \in among : /\ rows[t][i].status \in statuses
                   /\ \A j \in among : j # i => Before(t, j, i)

\* Mutant: a success counts by itself, whatever its upstream does.
SatisfiedAlone == {t \in Task : LastIn(t, DOMAIN rows[t], {"success"})}

\* The successes that carry over: the newest row of the task, and of every
\* task upstream of it, is a success.
Satisfied ==
  UNION {S \in SUBSET Task :
           \A t \in S : LastIn(t, DOMAIN rows[t], {"success"}) /\ Deps[t] \subseteq S}

\* Tasks whose newest settled row of the segment, markers and gates aside, has
\* one of these statuses.
Decided(segment, statuses) ==
  {t \in Task :
     LastIn(t, {i \in DOMAIN rows[t] :
                  /\ rows[t][i].seg = segment
                  /\ rows[t][i].status \in {"success", "failed", "skipped", "cancelled"}
                  /\ ~(rows[t][i].attempt = 0 /\ rows[t][i].status = "cancelled")}, statuses)}

\* Mutant: an earlier segment's answer still counts.
GateIsAnySegment(t, segment, status) ==
  LET gates == {i \in DOMAIN rows[t] : rows[t][i].status \in GateStatus}
  IN IF gates = {} THEN status = "none"
     ELSE \E i \in gates : rows[t][i].status = status /\ \A j \in gates : j <= i

\* The state of t's newest gate in the segment, or none.
GateIs(t, segment, status) ==
  LET gates == {i \in DOMAIN rows[t] : /\ rows[t][i].seg = segment
                                       /\ rows[t][i].status \in GateStatus}
  IN IF gates = {} THEN status = "none"
     ELSE \E i \in gates : rows[t][i].status = status /\ \A j \in gates : j <= i

SomeRow(segment, status) ==
  \E t \in Task : \E i \in DOMAIN rows[t] :
    rows[t][i].seg = segment /\ rows[t][i].status = status

OpenGates == SomeRow(run.seg, "awaiting_approval")

Write(t, row) == [rows EXCEPT ![t] = Append(@, row)]

\* Every row of one status gets another.
Settle(table, from, to) ==
  [t \in Task |-> [i \in DOMAIN table[t] |->
     IF table[t][i].status = from THEN [table[t][i] EXCEPT !.status = to] ELSE table[t][i]]]

-----------------------------------------------------------------------------
(* The executor: execute_workflow_run and _execute_task_graph.             *)

Off == [step |-> "off", seg |-> 0, won |-> {}, lost |-> {}, left |-> {},
        ready |-> {}, pending |-> {}, stop |-> FALSE]

NoJob == [step |-> "none", attempt |-> 1, seg |-> 0, row |-> 0]

\* The transaction that parks the run is open: its row is locked.
Parking == ex.step \in {"waiting_approval", "queued"}

\* Should work on the run stop? (_run_stopped)
Stopped(segment) == run.status \in Terminal \/ run.seg # segment

Busy    == {t \in Task : job[t].step \in {"check", "start", "exec"}}
Done    == {t \in Task : job[t].step \in {"won", "lost"}}
Running == {t \in Task : job[t].step # "none"}

\* The claim, and the start of the graph: what is reused and what this segment
\* already decided.
Claim ==
  /\ run.status = "queued" /\ ex.step = "off"
  /\ run' = [run EXCEPT !.status = "running"]
  /\ gone' = FALSE
  /\ LET lost == Decided(run.seg, {"failed", "skipped", "cancelled"})
         won  == (Satisfied \ lost) \cup Decided(run.seg, {"success"})
     IN ex' = [Off EXCEPT !.step = "poll", !.seg = run.seg, !.won = won, !.lost = lost,
                          !.left = Task \ (won \cup lost)]
  /\ UNCHANGED <<rows, job, deciding, cut>>

Ready == {t \in ex.left : Deps[t] \subseteq ex.won \cup ex.lost}

\* The head of the loop: has the run ended, and which tasks can be settled now?
\* Tasks left over without a gate to wait for would be a cycle of dependencies.
Poll ==
  /\ ex.step = "poll"
  /\ ex.left = {} \/ ex.pending # {} \/ Ready # {} \/ Running # {}
  /\ ex' = [ex EXCEPT
       !.stop = ex.stop \/ Stopped(ex.seg),
       !.ready = Ready, !.left = ex.left \ Ready,
       !.step = IF Ready # {} THEN "dispatch" ELSE IF Running # {} THEN "wait" ELSE "final"]
  /\ UNCHANGED <<run, rows, job, deciding, gone, cut>>

\* Settle one ready task: note the cancel, skip it, ask, refuse it or submit it.
Dispatch(t) ==
  /\ ex.step = "dispatch" /\ t \in ex.ready
  /\ LET rest == [ex EXCEPT !.ready = ex.ready \ {t},
                            !.step = IF ex.ready = {t} THEN "poll" ELSE "dispatch"]
         skip == \E d \in Deps[t] : d \notin ex.won
     IN \/ /\ ex.stop \/ skip
           /\ rows' = Write(t, Row(ex.seg, 1, IF ex.stop THEN "cancelled" ELSE "skipped"))
           /\ ex' = [rest EXCEPT !.lost = ex.lost \cup {t}]
           /\ UNCHANGED job
        \/ /\ ~ex.stop /\ ~skip /\ t \in Gated /\ GateIs(t, ex.seg, "none")
           /\ rows' = Write(t, Row(ex.seg, 0, "awaiting_approval"))
           /\ ex' = [rest EXCEPT !.pending = ex.pending \cup {t}]
           /\ UNCHANGED job
        \/ /\ ~ex.stop /\ ~skip /\ t \in Gated
           /\ ~GateIs(t, ex.seg, "none") /\ ~GateIs(t, ex.seg, "approved")
           /\ ex' = [rest EXCEPT !.lost = ex.lost \cup {t}]
           /\ UNCHANGED <<rows, job>>
        \/ /\ ~ex.stop /\ ~skip /\ (t \in Gated => GateIs(t, ex.seg, "approved"))
           /\ job' = [job EXCEPT ![t] = [NoJob EXCEPT !.step = "queued"]]
           /\ ex' = rest
           /\ UNCHANGED rows
  /\ UNCHANGED <<run, deciding, gone, cut>>

\* wait(FIRST_COMPLETED), then the outcome of every thread that is done.
Collect ==
  /\ ex.step = "wait" /\ Done # {}
  /\ ex' = [ex EXCEPT !.step = "poll",
                      !.won = @ \cup {t \in Done : job[t].step = "won"},
                      !.lost = @ \cup {t \in Done : job[t].step = "lost"}]
  /\ job' = [t \in Task |-> IF t \in Done THEN NoJob ELSE job[t]]
  /\ UNCHANGED <<run, rows, deciding, gone, cut>>

\* _final_status.
Outcome ==
  IF ex.won # {} /\ ex.lost = {} THEN "success"
  ELSE IF SomeRow(ex.seg, "rejected") /\ ~SomeRow(ex.seg, "failed") THEN "cancelled"
  ELSE "failed"

\* Mutant: the gates are not counted again.
ParkUpdateBlind ==
  /\ ex.step = "final" /\ ex.pending # {}
  /\ run.status = "running" /\ run.seg = ex.seg
  /\ ex' = [ex EXCEPT !.step = "waiting_approval"]
  /\ UNCHANGED <<run, rows, job, deciding, gone, cut>>

\* Gates are open: release the run.  The UPDATE locks its row; the count of
\* open gates in the same transaction says whether it waits or goes on.
ParkUpdate ==
  /\ ex.step = "final" /\ ex.pending # {}
  /\ run.status = "running" /\ run.seg = ex.seg
  /\ ex' = [ex EXCEPT !.step = IF OpenGates THEN "waiting_approval" ELSE "queued"]
  /\ UNCHANGED <<run, rows, job, deciding, gone, cut>>

ParkCommit ==
  /\ Parking
  /\ run' = [run EXCEPT !.status = ex.step]
  /\ ex' = Off
  /\ UNCHANGED <<rows, job, deciding, gone, cut>>

\* The finalize, fenced to the segment; an open gate is nobody's to decide now.
Finish ==
  /\ ex.step = "final"
  /\ ex.pending = {} \/ run.status # "running" \/ run.seg # ex.seg
  /\ \/ run.seg # ex.seg /\ UNCHANGED <<run, rows>>
     \/ /\ run.seg = ex.seg
        /\ run' = [run EXCEPT !.status = IF @ = "running" THEN Outcome ELSE @, !.finished = TRUE]
        /\ rows' = Settle(rows, "awaiting_approval", "cancelled")
  /\ ex' = Off
  /\ UNCHANGED <<job, deciding, gone, cut>>

-----------------------------------------------------------------------------
(* A task's thread: _run_task.                                             *)

\* A thread is free: it loads the run, and with it the segment it works for.
JobLoad(t) ==
  /\ job[t].step = "queued" /\ Cardinality(Busy) < Parallelism
  /\ job' = [job EXCEPT ![t].step = "check", ![t].seg = run.seg]
  /\ UNCHANGED <<run, rows, ex, deciding, gone, cut>>

\* Before every attempt: has the run ended?
JobCheck(t) ==
  /\ job[t].step = "check"
  /\ IF Stopped(job[t].seg)
     THEN /\ job' = [job EXCEPT ![t].step = "lost"]
          /\ rows' = IF job[t].attempt = 1 THEN Write(t, Row(job[t].seg, 1, "cancelled")) ELSE rows
     ELSE job' = [job EXCEPT ![t].step = "start"] /\ UNCHANGED rows
  /\ UNCHANGED <<run, ex, deciding, gone, cut>>

\* The attempt's row, before its command starts.
JobStart(t) ==
  /\ job[t].step = "start"
  /\ rows' = Write(t, Row(job[t].seg, job[t].attempt, "running"))
  /\ job' = [job EXCEPT ![t].step = "exec", ![t].row = Len(rows[t]) + 1]
  /\ UNCHANGED <<run, ex, deciding, gone, cut>>

\* The command exits by itself, or is killed once the poll sees the run ended.
JobEnd(t) ==
  /\ job[t].step = "exec"
  /\ \E result \in {"success", "failed"} \cup (IF Stopped(job[t].seg) THEN {"cancelled"} ELSE {}) :
       /\ rows' = [rows EXCEPT ![t][job[t].row].status = result]
       /\ job' = [job EXCEPT ![t] =
            IF result = "success" THEN [@ EXCEPT !.step = "won"]
            ELSE IF result = "failed" /\ job[t].attempt < Attempts[t]
                 THEN [@ EXCEPT !.step = "check", !.attempt = job[t].attempt + 1]
            ELSE [@ EXCEPT !.step = "lost"]]
  /\ UNCHANGED <<run, ex, deciding, gone, cut>>

-----------------------------------------------------------------------------
(* Requests: cancel, resume, approve and reject.                           *)

CancelRun ==
  /\ run.status \in {"queued", "running", "waiting_approval"} /\ ~Parking
  /\ run' = [run EXCEPT !.status = "cancelled", !.finished = run.status # "running"]
  /\ rows' = Settle(rows, "awaiting_approval", "cancelled")
  /\ UNCHANGED <<ex, job, deciding, gone, cut>>

\* Only what did not succeed runs again, and what the person asks for: a marker
\* row in the new segment says so.
ResumeRun(forced) ==
  /\ run.status = "failed" \/ (run.status = "cancelled" /\ run.finished)
  /\ run.seg < MaxResume
  /\ run' = [status |-> "queued", seg |-> run.seg + 1, finished |-> FALSE]
  /\ rows' = [t \in Task |-> IF t \in forced THEN Append(rows[t], Row(run.seg + 1, 0, "cancelled"))
                                             ELSE rows[t]]
  /\ UNCHANGED <<ex, job, deciding, gone, cut>>

\* A decision is three commits' worth: the gate, then the count of open gates ...
DecideGate(t) ==
  /\ deciding[t] = "no" /\ (OneWriter => ~Parking)
  /\ \E i \in DOMAIN rows[t], answer \in {"approved", "rejected"} :
       /\ rows[t][i].status = "awaiting_approval"
       /\ rows' = [rows EXCEPT ![t][i].status = answer]
  /\ deciding' = [deciding EXCEPT ![t] = "decided"]
  /\ UNCHANGED <<run, ex, job, gone, cut>>

CountGates(t) ==
  /\ deciding[t] = "decided"
  /\ deciding' = [deciding EXCEPT ![t] = IF OpenGates THEN "no" ELSE "requeue"]
  /\ UNCHANGED <<run, rows, ex, job, gone, cut>>

\* ... and the requeue, of a run that is parked by then.
Requeue(t) ==
  /\ deciding[t] = "requeue" /\ (OneWriter => ~Parking)
  /\ run' = [run EXCEPT !.status = IF @ = "waiting_approval" THEN "queued" ELSE @]
  /\ deciding' = [deciding EXCEPT ![t] = "no"]
  /\ UNCHANGED <<rows, ex, job, gone, cut>>

-----------------------------------------------------------------------------
(* The worker process is lost, and another recovers the run.               *)

\* Killed, its threads and an open transaction go with it; stalled, they live on.
LoseWorker ==
  /\ ~gone
  /\ gone' = TRUE
  /\ \E survives \in Survives :
       IF survives THEN UNCHANGED <<ex, job, cut>>
                   ELSE /\ ex' = Off /\ job' = [t \in Task |-> NoJob]
                        /\ cut' = IF ex.step = "off" THEN cut ELSE ex.seg
  /\ UNCHANGED <<run, rows, deciding>>

SomeRunning == \E t \in Task : \E i \in DOMAIN rows[t] : rows[t][i].status = "running"

\* Mutant: rows are repaired only on the runs it fails.
OrphanedNever == FALSE

\* A run that ended while one of its tasks was executing.
Orphaned == run.status \in Terminal /\ SomeRunning

\* Mutant: only a run with a task at work counts as interrupted.
RecoverExecuting ==
  /\ gone /\ ~Parking
  /\ run' = IF run.status = "running" /\ SomeRunning
            THEN [run EXCEPT !.status = "failed", !.finished = TRUE]
            ELSE [run EXCEPT !.finished = @ \/ run.status = "cancelled"]
  /\ rows' = IF SomeRunning
             THEN Settle(Settle(rows, "running", "failed"), "awaiting_approval", "cancelled")
             ELSE rows
  /\ UNCHANGED <<ex, job, deciding, gone, cut>>

\* recover_interrupted_runs, for this run.
Recover ==
  /\ gone /\ ~Parking
  /\ run' = IF run.status = "running" THEN [run EXCEPT !.status = "failed", !.finished = TRUE]
            ELSE [run EXCEPT !.finished = @ \/ run.status = "cancelled"]
  /\ rows' = IF run.status = "running" \/ Orphaned
             THEN Settle(Settle(rows, "running", "failed"), "awaiting_approval", "cancelled")
             ELSE rows
  /\ UNCHANGED <<ex, job, deciding, gone, cut>>

-----------------------------------------------------------------------------
Init ==
  /\ run = [status |-> "queued", seg |-> 0, finished |-> FALSE]
  /\ rows = [t \in Task |-> <<>>]
  /\ ex = Off
  /\ job = [t \in Task |-> NoJob]
  /\ deciding = [t \in Task |-> "no"]
  /\ gone = TRUE
  /\ cut = 0

JobNext(t) == JobLoad(t) \/ JobCheck(t) \/ JobStart(t) \/ JobEnd(t)

DecisionNext(t) == DecideGate(t) \/ CountGates(t) \/ Requeue(t)

Next ==
  \/ Claim \/ Poll \/ Collect \/ ParkUpdate \/ ParkCommit \/ Finish
  \/ \E t \in Task : Dispatch(t) \/ JobNext(t) \/ DecisionNext(t)
  \/ CancelRun
  \/ \E forced \in SUBSET Forcible : ResumeRun(forced)
  \/ LoseWorker \/ Recover

Spec == Init /\ [][Next]_vars

\* An executor's loop goes on until it ends, a command exits or is timed out,
\* a request that was begun ends, and every worker looks for abandoned runs
\* each half minute.  Nobody has to decide, cancel or resume anything.
Fairness ==
  /\ WF_vars(Poll) /\ WF_vars(Collect) /\ WF_vars(ParkUpdate) /\ WF_vars(ParkCommit)
  /\ WF_vars(Finish) /\ WF_vars(Recover)
  /\ \A t \in Task : WF_vars(Dispatch(t)) /\ WF_vars(JobNext(t))
  /\ \A t \in Task : WF_vars(CountGates(t)) /\ WF_vars(Requeue(t))

FairSpec == Spec /\ Fairness

-----------------------------------------------------------------------------
(* Properties.                                                             *)

Segment   == 0..MaxResume
RowStatus == {"running", "success", "failed", "skipped", "cancelled"} \cup GateStatus
RowType   == [seg : Segment, attempt : Nat, status : RowStatus]

RunType == [status : {"queued", "running", "waiting_approval"} \cup Terminal,
            seg : Segment, finished : BOOLEAN]
ExType  == [step : {"off", "poll", "dispatch", "wait", "final", "waiting_approval", "queued"},
            seg : Segment, won : SUBSET Task, lost : SUBSET Task, left : SUBSET Task,
            ready : SUBSET Task, pending : SUBSET Task, stop : BOOLEAN]
JobType == [step : {"none", "queued", "check", "start", "exec", "won", "lost"},
            attempt : Nat \ {0}, seg : Segment, row : Nat]

\* Every variable has its type, and a task at work has its row.
TypeOK ==
  /\ run \in RunType
  /\ rows \in [Task -> Seq(RowType)]
  /\ ex \in ExType
  /\ job \in [Task -> JobType]
  /\ \A t \in Task : job[t].step = "exec" => job[t].row \in DOMAIN rows[t]
  /\ deciding \in [Task -> {"no", "decided", "requeue"}]
  /\ gone \in BOOLEAN
  /\ cut \in Segment

\* A parked run never waits for nobody: one of its gates is open, or a decision
\* on one has yet to requeue it (service.py:671-674: "parked on gates nobody can
\* decide again, it held its slot and lock for good").
ParkedIsDecidable ==
  run.status = "waiting_approval" =>
    OpenGates \/ \E t \in Task : deciding[t] # "no"

Executed(t, segment) ==
  {i \in DOMAIN rows[t] : /\ rows[t][i].seg = segment /\ rows[t][i].attempt > 0
                          /\ rows[t][i].status \in {"running", "success", "failed"}}

\* A gated task only ever executes in a segment in which a person approved it:
\* resuming a run asks again (service.py:_gate_decision).
ApprovedBeforeExecuted ==
  \A t \in Gated, s \in Segment :
    Executed(t, s) # {} =>
      \E i \in DOMAIN rows[t] : rows[t][i].seg = s /\ rows[t][i].status = "approved"

Successes(t) == {i \in DOMAIN rows[t] : rows[t][i].status = "success"}

\* No success of d is of a later segment than every success of t.
NoneLater(d, t) ==
  \A i \in Successes(d) : \E j \in Successes(t) : rows[d][i].seg <= rows[t][j].seg

\* A worker was lost in a segment after all successes of t.
CutSince(t) == \A j \in Successes(t) : rows[t][j].seg < cut

\* A successful run is evidence about the whole graph: every task succeeded, and
\* none with the results of an upstream that was run again later (service.py:117-119,
\* "a success that predates a re-running upstream [...] is not evidence about the
\* current graph").
SuccessIsCurrent ==
  run.status = "success" =>
    \A t \in Task : Successes(t) # {} /\ \A d \in Deps[t] : NoneLater(d, t)

\* The same, save for a task that a lost worker did not get to: recovery writes
\* no row for it, and the next resume takes its old success for a current one.
CurrentUnlessCut ==
  run.status = "success" =>
    \A t \in Task :
      Successes(t) # {} /\ \A d \in Deps[t] : NoneLater(d, t) \/ CutSince(t)

\* Only a person's rejection refuses a gated task (service.py:572 takes every
\* gate that is not approved for a rejected one).
RefusedByAPerson ==
  \A t \in Gated :
    (t \in ex.lost /\ ~ex.stop /\ Deps[t] \subseteq ex.won /\ run.seg = ex.seg)
      => ~GateIs(t, ex.seg, "awaiting_approval")

\* A task's thread works for the segment its executor serves: a resume's segment
\* "belongs to another executor" (service.py:480-482).
JobsServeTheirSegment == \A t \in Busy : job[t].seg = ex.seg

\* A run at work, or an ended run with a task row left running.
Unsettled == run.status = "running" \/ (run.status \in Terminal /\ SomeRunning)

\* Nothing a worker began stays that way, whoever cancels, dies or recovers: the
\* run ends, parks or is recovered, and no task spins for ever on a run that
\* ended (service.py:902-906).
RunSettles == Unsettled ~> ~Unsettled
=============================================================================
