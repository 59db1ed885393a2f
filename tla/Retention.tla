----------------------------- MODULE Retention -----------------------------
(***************************************************************************)
(* A retention pass (cleanup_runs in maintenance.py) beside a workflow     *)
(* whose runs are started, ended, cancelled and resumed, and beside other  *)
(* passes: the scheduled one and `runrail cleanup` may overlap.  A pass    *)
(* selects a batch of expired runs, deletes the rows that are expired      *)
(* still, asks which are left, and removes the files of the others; at its *)
(* end it sweeps the directories of runs that have no row.  Run ids are    *)
(* never reused.  Deleting the workflow is left out, and so are the files  *)
(* outside a run's directories.                                            *)
(***************************************************************************)
EXTENDS Naturals, FiniteSets

CONSTANTS
    MaxRuns,    \* runs the workflow ever has
    MaxTime,    \* days that pass
    Pass,       \* passes that may overlap
    BatchSize   \* _BATCH

ASSUME RetentionAssumption == {MaxRuns, MaxTime} \subseteq Nat /\ BatchSize \in Nat \ {0}

VARIABLES
    today,
    runRow,     \* each run: its status, "none" before it is created, "deleted" when its row is gone
    finishedAt, \* its finished_at, or NotYet
    touched,    \* history: when something last happened to it
    runDirs,    \* the runs that have directories on disk
    successes,  \* history: the runs that ever succeeded
    passes      \* each pass: the statement it is at, and what it read

retentionVars == <<today, runRow, finishedAt, touched, runDirs, successes, passes>>

RunIds == 1 .. MaxRuns
NotYet == MaxTime + 1
Terminal == {"success", "failed", "cancelled"}
HasRow(r) == runRow[r] \notin {"none", "deleted"}

NoPass == [at |-> "idle", cutoff |-> 0, after |-> 0, batch |-> {}, left |-> {}]

RetentionInit ==
    /\ today = 0 /\ runRow = [r \in RunIds |-> "none"] /\ finishedAt = [r \in RunIds |-> NotYet]
    /\ touched = [r \in RunIds |-> 0] /\ runDirs = {} /\ successes = {}
    /\ passes = [p \in Pass |-> NoPass]

----------------------------------------------------------------------------
\* The runs.
Happens(r, status, finished) ==
    /\ runRow' = [runRow EXCEPT ![r] = status] /\ finishedAt' = [finishedAt EXCEPT ![r] = finished]
    /\ touched' = [touched EXCEPT ![r] = today]

DayPasses ==
    /\ today < MaxTime /\ today' = today + 1
    /\ UNCHANGED <<runRow, finishedAt, touched, runDirs, successes, passes>>

\* Ids rise.
TriggerRun(r) ==
    /\ runRow[r] = "none" /\ (\A q \in RunIds : q < r => runRow[q] # "none")
    /\ Happens(r, "live", NotYet)
    /\ UNCHANGED <<today, runDirs, successes, passes>>

WriteFiles(r) ==
    /\ runRow[r] \in {"live", "stopping"} /\ runDirs' = runDirs \cup {r}
    /\ touched' = [touched EXCEPT ![r] = today]
    /\ UNCHANGED <<today, runRow, finishedAt, successes, passes>>

\* A cancelled run whose task still works has no finished_at until its worker stops.
EndRun(r) ==
    /\ \/ runRow[r] = "live" /\ \E end \in Terminal : Happens(r, end, today)
       \/ runRow[r] = "live" /\ Happens(r, "stopping", NotYet)
       \/ runRow[r] = "stopping" /\ Happens(r, "cancelled", today)
    /\ successes' = IF runRow'[r] = "success" THEN successes \cup {r} ELSE successes
    /\ UNCHANGED <<today, runDirs, passes>>

\* The same run, which goes on.
ReviveRun(r) ==
    /\ runRow[r] \in {"failed", "cancelled"} /\ Happens(r, "live", NotYet)
    /\ UNCHANGED <<today, runDirs, successes, passes>>

----------------------------------------------------------------------------
\* A pass, one statement at a time.
PassGoes(p, to) ==
    /\ passes' = [passes EXCEPT ![p] = to]
    /\ UNCHANGED <<today, finishedAt, touched, successes>>

NewestSuccess(r) == runRow[r] = "success" /\ \A q \in RunIds : runRow[q] = "success" => q <= r

Expired(r, cutoff) == runRow[r] \in Terminal /\ finishedAt[r] < cutoff /\ ~NewestSuccess(r)

\* Any number of days: what finished before the cutoff is older than that.
StartPass(p) ==
    /\ passes[p].at = "idle"
    /\ \E cutoff \in 0 .. today : PassGoes(p, [NoPass EXCEPT !.at = "select", !.cutoff = cutoff])
    /\ UNCHANGED <<runRow, runDirs>>

SelectBatch(p) ==
    /\ passes[p].at = "select"
    /\ LET due == {r \in RunIds : r > passes[p].after /\ Expired(r, passes[p].cutoff)}
           batch == {r \in due : Cardinality({q \in due : q < r}) < BatchSize}
       IN  IF batch = {} THEN PassGoes(p, [passes[p] EXCEPT !.at = "list"])
           ELSE \E last \in batch :
                  /\ \A r \in batch : r <= last
                  /\ PassGoes(p, [passes[p] EXCEPT !.at = "delete", !.batch = batch, !.after = last])
    /\ UNCHANGED <<runRow, runDirs>>

\* Checked again: a run resumed since it was selected is live.
DeleteRows(p) ==
    /\ passes[p].at = "delete"
    /\ runRow' = [r \in RunIds |-> IF r \in passes[p].batch /\ Expired(r, passes[p].cutoff) THEN "deleted" ELSE runRow[r]]
    /\ PassGoes(p, [passes[p] EXCEPT !.at = "ask"]) /\ UNCHANGED runDirs

\* Mutant of Survivors: the batch is as good as deleted.
NoSurvivors(p) == {}
Survivors(p) == {r \in passes[p].batch : HasRow(r)}
AskSurvivors(p) ==
    /\ passes[p].at = "ask"
    /\ PassGoes(p, [passes[p] EXCEPT !.at = "remove", !.left = passes[p].batch \ Survivors(p)])
    /\ UNCHANGED <<runRow, runDirs>>

\* A directory that will not go stays for a later pass.
RemoveFiles(p) ==
    /\ passes[p].at \in {"remove", "sweep"}
    /\ \E r \in passes[p].left :
        /\ runDirs' \in {runDirs, runDirs \ {r}}
        /\ PassGoes(p, [passes[p] EXCEPT !.left = @ \ {r}])
    /\ UNCHANGED runRow

NextBatch(p) ==
    /\ passes[p].at = "remove" /\ passes[p].left = {}
    /\ PassGoes(p, [passes[p] EXCEPT !.at = "select", !.batch = {}]) /\ UNCHANGED <<runRow, runDirs>>

\* _sweep_orphans: the directories, then which of them have a run.
ListDirectories(p) ==
    /\ passes[p].at = "list"
    /\ PassGoes(p, [passes[p] EXCEPT !.at = "alive", !.batch = runDirs]) /\ UNCHANGED <<runRow, runDirs>>

AskAlive(p) ==
    /\ passes[p].at = "alive"
    /\ PassGoes(p, [passes[p] EXCEPT !.at = "sweep", !.left = passes[p].batch \ Survivors(p)])
    /\ UNCHANGED <<runRow, runDirs>>

\* It ends, or its process does, anywhere.
EndPass(p) == passes[p].at # "idle" /\ PassGoes(p, NoPass) /\ UNCHANGED <<runRow, runDirs>>

RetentionNext ==
    \/ DayPasses
    \/ \E r \in RunIds : TriggerRun(r) \/ WriteFiles(r) \/ EndRun(r) \/ ReviveRun(r)
    \/ \E p \in Pass : \/ StartPass(p) \/ SelectBatch(p) \/ DeleteRows(p) \/ AskSurvivors(p) \/ RemoveFiles(p)
                       \/ NextBatch(p) \/ ListDirectories(p) \/ AskAlive(p) \/ EndPass(p)

RetentionSpec == RetentionInit /\ [][RetentionNext]_retentionVars

----------------------------------------------------------------------------
(***************************************************************************)
(* Retention takes only what is over (cleanup_runs): whatever runs, ends or *)
(* is resumed between the statements of overlapping passes, a run whose row *)
(* goes is live no more and nothing has happened to it since the cutoff,    *)
(* the newest success of the workflow stays, which its pinned report points *)
(* at, and files go only of runs whose rows are gone.                       *)
(***************************************************************************)
CleanupSpares ==
    [][/\ \A r \in RunIds : HasRow(r) /\ runRow'[r] = "deleted" =>
            /\ runRow[r] \in Terminal
            /\ \E p \in Pass : touched[r] < passes[p].cutoff
            /\ r \in successes => \E newer \in successes : newer > r
       /\ \A r \in runDirs \ runDirs' : runRow[r] = "deleted"]_retentionVars
=============================================================================
