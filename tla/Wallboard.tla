------------------------------ MODULE Wallboard ------------------------------
(* The wallboard (App.tsx): one tile per workflow, judged by the browser from  *)
(* the newest RunLimit runs and the list of workflows, as a reading now brings *)
(* them; and behind it the scheduler, whose silence the board is to notice.    *)
EXTENDS Integers, Sequences, FiniteSets

CONSTANTS Flow, Cron,  \* the workflows; Cron: the one with a schedule
          FireTimes,   \* when its schedule fires
          Grace,       \* the two minutes a fire may be late
          RunLimit,    \* runs the board asks for
          MaxBoardTime, MaxBoardRuns

ASSUME WallboardAssumption ==
  /\ Cron \in Flow /\ FireTimes \subseteq Nat
  /\ {Grace, MaxBoardTime, MaxBoardRuns} \subseteq Nat /\ RunLimit \in Nat \ {0}

VARIABLES time,      \* the clock, the board's and the server's
          diedAt,    \* when the scheduler died, Alive while it lives
          schedule,  \* the scheduled workflow's row: enabled, paused (a mute that skips fires)
          runsDb    \* the runs, newest first

wallVars == <<time, diedAt, schedule, runsDb>>

Alive == MaxBoardTime + 1
LiveStatus == {"queued", "running", "waiting_approval"}
HasStatus(runs, s) == \E i \in runs : runsDb[i].status = s

(* -------------------------------- the board ------------------------------ *)
\* Runs by their place in the list that was read.
PageOfRuns   == {i \in DOMAIN runsDb : i <= RunLimit}
Mine(f)      == {i \in PageOfRuns : runsDb[i].flow = f}
Newest(runs) == CHOOSE i \in runs : \A j \in runs : i <= j
Completed(f) == {i \in Mine(f) : runsDb[i].status \in {"success", "failed"}}
LastEnd(f)   == runsDb[Newest(Completed(f))].status
Streak(f)    == Cardinality({i \in Completed(f) : \A j \in Completed(f) : j <= i => runsDb[j].status = "failed"})

\* The first fire after the newest run; the day after MaxBoardTime is beyond the model.
FirstFireAfter(t) == IF \E u \in FireTimes : u > t THEN CHOOSE u \in FireTimes : u > t /\ \A v \in FireTimes : v > t => u <= v
               ELSE Alive
\* Mutant of Overdue: the fire expected is the one after the oldest run.
OverdueSinceTheOldest(f) ==
  /\ f = Cron /\ schedule.enabled /\ Mine(f) # {}
  /\ LET oldest   == CHOOSE i \in Mine(f) : \A j \in Mine(f) : j <= i
         expected == FirstFireAfter(runsDb[oldest].at)
     IN  expected < time - Grace /\ \A i \in Mine(f) : runsDb[i].at < expected

Overdue(f) ==
  /\ f = Cron /\ schedule.enabled /\ Mine(f) # {}
  /\ LET expected == FirstFireAfter(runsDb[Newest(Mine(f))].at)
     IN  expected < time - Grace /\ \A i \in Mine(f) : runsDb[i].at < expected

TileStatus(f) ==
  CASE HasStatus(Mine(f), "waiting_approval") -> "waiting"
    [] ~HasStatus(Mine(f), "waiting_approval") /\ HasStatus(Mine(f), "running") -> "running"
    [] OTHER -> IF Completed(f) # {} /\ LastEnd(f) = "failed" THEN "failed"
                ELSE IF Overdue(f) THEN "overdue"
                ELSE IF Completed(f) # {} THEN LastEnd(f)
                ELSE IF Mine(f) # {} THEN runsDb[Newest(Mine(f))].status
                ELSE "never"

WB_RANK == [failed |-> 0, waiting |-> 1, overdue |-> 2, running |-> 3, queued |-> 4, success |-> 5, cancelled |-> 6, never |-> 7]
Leads(f, g) ==
  \/ WB_RANK[TileStatus(f)] < WB_RANK[TileStatus(g)]
  \/ WB_RANK[TileStatus(f)] = WB_RANK[TileStatus(g)] /\ Streak(f) > Streak(g)

\* The headline; down services come from their own board.
Tiled(s) == {f \in Flow : TileStatus(f) = s}
Mood == IF Tiled("failed") \cup Tiled("overdue") # {} THEN "attention"
        ELSE IF Tiled("waiting") # {} \/ HasStatus(PageOfRuns, "running") THEN "active" ELSE "calm"
Verdict == CASE Tiled("failed") # {} -> "failing"
             [] Tiled("failed") = {} /\ Tiled("overdue") # {} -> "overdue"
             [] Mood = "active" -> IF Tiled("waiting") # {} THEN "waiting" ELSE "running"
             [] Mood = "calm" -> "nominal"

(* --------------------------------- the server ---------------------------- *)
WallInit ==
  /\ time = 0 /\ diedAt = Alive
  /\ schedule = [enabled |-> TRUE, paused |-> FALSE]
  /\ runsDb = <<>>

Enqueue(f, t, scheduled) ==
  runsDb' = <<[flow |-> f, at |-> t, scheduled |-> scheduled, status |-> "queued"]>> \o runsDb

\* enqueue_scheduled: not while paused or disabled, nor behind a queued iteration.
FireDue(t) ==
  /\ t \in FireTimes /\ diedAt = Alive /\ schedule.enabled /\ ~schedule.paused
  /\ ~\E i \in DOMAIN runsDb : runsDb[i].scheduled /\ runsDb[i].status = "queued"

ClockTicks ==
  /\ time < MaxBoardTime /\ time' = time + 1
  /\ IF FireDue(time + 1)
     THEN Len(runsDb) < MaxBoardRuns /\ Enqueue(Cron, time + 1, TRUE)
     ELSE UNCHANGED runsDb
  /\ UNCHANGED <<diedAt, schedule>>

SchedulerDies == diedAt = Alive /\ diedAt' = time /\ UNCHANGED <<time, schedule, runsDb>>

RunByHand ==
  /\ Len(runsDb) < MaxBoardRuns
  /\ \E f \in Flow : Enqueue(f, time, FALSE)
  /\ UNCHANGED <<time, diedAt, schedule>>

Moves(s) == IF s = "queued" THEN {"running", "cancelled"}
            ELSE IF s = "running" THEN {"waiting_approval", "success", "failed", "cancelled"}
            ELSE IF s = "waiting_approval" THEN {"queued", "cancelled"} ELSE {}
RunMoves ==
  /\ \E i \in DOMAIN runsDb : \E s \in Moves(runsDb[i].status) : runsDb' = [runsDb EXCEPT ![i].status = s]
  /\ UNCHANGED <<time, diedAt, schedule>>

EditSchedule ==
  /\ schedule' \in {[schedule EXCEPT !.enabled = ~@], [schedule EXCEPT !.paused = ~@]}
  /\ UNCHANGED <<time, diedAt, runsDb>>

WallNext == ClockTicks \/ SchedulerDies \/ RunByHand \/ RunMoves \/ EditSchedule

WallSpec == WallInit /\ [][WallNext]_wallVars

(* ------------------------------- properties ------------------------------ *)
(* "A silently dead scheduler" is not silent on the wallboard: once a fire it  *)
(* owed is older than the grace, a workflow with a run among the ones read and *)
(* none in flight reads overdue or failed, in front of every workflow that is  *)
(* well, and the headline asks for attention -- through manual runs, pauses,   *)
(* edits and the limit on the runs that are read.                              *)
Silent == \E t \in FireTimes : t > diedAt /\ t < time - Grace
                               /\ \A i \in DOMAIN runsDb : runsDb[i].flow = Cron => runsDb[i].at < t
DeadSchedulerShows ==
  (/\ schedule.enabled /\ Mine(Cron) # {} /\ Silent
   /\ \A s \in LiveStatus \ {"queued"} : ~HasStatus(Mine(Cron), s))
  => /\ TileStatus(Cron) \in {"overdue", "failed"} /\ Mood = "attention" /\ Verdict \in {"failing", "overdue"}
     /\ \A f \in Flow : TileStatus(f) \in {"success", "cancelled", "never", "queued"} => Leads(Cron, f)
=============================================================================
