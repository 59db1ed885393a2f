--------------------------- MODULE ServiceWindows ---------------------------
(* A scheduled service's week (serviceWindows.ts) and the editor that builds   *)
(* it (WeekEditor.tsx): a list of windows drawn on a grid by dragging, edited  *)
(* row by row, and shown back as a grid, a number of hours and the instant the *)
(* schedule next flips -- "exactly what the supervisor will do".  The week is  *)
(* scaled down to WeekDays days of DayUnits, snapped to Snap by the grid.      *)
EXTENDS Zones, Sequences, SequencesExt

CONSTANTS Snap,         \* the grid's snap, in units (30 minutes)
          InputTimes,   \* the times typed into a row's time inputs
          MaxWindows,   \* bound: windows in the list
          FirstDay      \* a week of instants from this civil day is looked at

ASSUME WindowsAssumption ==
  /\ Snap \in 1 .. DayUnits - 1 /\ InputTimes \subseteq 0 .. DayUnits - 1
  /\ MaxWindows \in Nat /\ FirstDay \in Nat \ {0}

VARIABLES windows,   \* the host's list, in the order of the rows
          drag,      \* the bar being dragged over the grid
          zone

windowVars == <<windows, drag, zone>>

NoTime == -1
NoDrag == [row |-> -1, from |-> 0, to |-> 0]
Days   == 0 .. WeekDays - 1

Weekday(day) == day % WeekDays
Valid(w) == w.start # NoTime /\ w.end # NoTime
CrossesMidnight(w) == w.end <= w.start

\* wallInstant: a time in a gap becomes the instant the clock jumps.
WallInstant(wall) ==
  LET instant == ZonedTime(zone, wall)
  IN  IF Wall(zone, instant) = wall THEN instant
      ELSE Min({t \in instant - DayUnits .. instant : OffsetAt(zone, t) = OffsetAt(zone, instant + DayUnits)})

(* intervals: the occurrences that start on `count` days from `first`, merged: *)
(* a window that ends where another starts continues it.                       *)
Occurrence(day, w) ==
  [from |-> WallInstant(WallTime(day, w.start)),
   to   |-> WallInstant(WallTime(IF CrossesMidnight(w) THEN day + 1 ELSE day, w.end))]

Occurrences(first, count) ==
  {span \in {Occurrence(p[1], windows[p[2]]) :
               p \in {q \in (first .. first + count - 1) \X DOMAIN windows :
                        Valid(windows[q[2]]) /\ Weekday(q[1]) \in windows[q[2]].days}} :
     span.to > span.from}

\* Mutant of Continues: a window that starts where another ends is a new one.
ContinuesOnlyInside(spans, s) == \E r \in spans : r.from < s.from /\ s.from < r.to
Continues(spans, s) == \E r \in spans : r.from < s.from /\ s.from <= r.to

Merged(spans) ==
  LET starts == {s.from : s \in {r \in spans : ~Continues(spans, r)}}
  IN  {[from |-> f, to |-> Max({s.to : s \in {r \in spans :
          f <= r.from /\ ~\E g \in starts : f < g /\ g <= r.from}})] : f \in starts}

Intervals(first, count) == Merged(Occurrences(first, count))

Horizon == WeekDays + 1
Around(day) == Intervals(day - 1, Horizon + 1)
Within(span, t) == span.from <= t /\ t < span.to

Active(spans, t) == \E s \in spans : Within(s, t)

\* nextChange: the next flip, or Never for a week without one.
Change(spans, t) ==
  LET here     == {s \in spans : Within(s, t)}
      to_come  == {s.from : s \in {r \in spans : r.from > t}}
      unbroken == Cardinality(spans) = 1 /\ \A s \in here : s.to - s.from >= WeekDays * DayUnits
  IN  IF here # {} THEN (IF unbroken THEN Never ELSE (CHOOSE s \in here : TRUE).to)
      ELSE IF to_come # {} THEN Min(to_come) ELSE Never

\* scheduleSummary, the line under the editor.
Summary(active, change) ==
  IF windows = <<>> THEN "no windows"
  ELSE IF change = Never THEN (IF active THEN "always on" ELSE "never runs")
  ELSE IF active THEN "closes" ELSE "opens"

(* weekSegments: what each window paints on each weekday row, the overnight    *)
(* tail on the next row.                                                       *)
Segments(row) ==
  UNION {LET w == windows[i]
             tail == [from |-> 0, to |-> w.end]
         IN  IF ~Valid(w) THEN {}
             ELSE (IF row \in w.days
                   THEN {[from |-> w.start, to |-> IF CrossesMidnight(w) THEN DayUnits ELSE w.end]} ELSE {})
                  \cup (IF CrossesMidnight(w) /\ w.end > 0 /\ (row - 1) % WeekDays \in w.days
                        THEN {tail} ELSE {}) : i \in DOMAIN windows}

Painted(row) == {u \in 0 .. DayUnits - 1 : \E s \in Segments(row) : s.from <= u /\ u < s.to}

\* weeklyHours, and TodayBar's mark of the segment that is open now.
WeeklyUnits == Cardinality({mark \in Days \X (0 .. DayUnits - 1) : mark[2] \in Painted(mark[1])})
NowMarked(t) == \E s \in Segments(Weekday(DayOf(zone, t))) : s.from <= UnitOf(zone, t) /\ UnitOf(zone, t) < s.to

(* ------------------------------ the editor ------------------------------- *)
WindowsInit == windows = <<>> /\ drag = NoDrag /\ zone \in Zones

GridMinutes == {m \in 0 .. DayUnits : m % Snap = 0}
Room == Len(windows) < MaxWindows

PointerDown(row, minute) ==
  /\ Room /\ drag = NoDrag
  /\ \A s \in Segments(row) : ~(s.from <= minute /\ minute < s.to)
  /\ drag' = [row |-> row, from |-> minute, to |-> minute]
  /\ UNCHANGED <<windows, zone>>

PointerMove(minute) ==
  /\ drag # NoDrag
  /\ drag' = [drag EXCEPT !.to = minute]
  /\ UNCHANGED <<windows, zone>>

\* finishDrag: on pointer up, and on a pointer the browser cancels.
FinishDrag ==
  LET from == Min({drag.from, drag.to})
      to   == Max({drag.from, drag.to})
  IN  /\ drag # NoDrag
      /\ drag' = NoDrag
      /\ windows' = IF to - from >= Snap
                    THEN Append(windows, [days |-> {drag.row}, start |-> from, end |-> IF to = DayUnits THEN 0 ELSE to])
                    ELSE windows
      /\ UNCHANGED zone

LeaveGrid == drag # NoDrag /\ drag' = NoDrag /\ UNCHANGED <<windows, zone>>

\* The rows: update, toggleDay, the two time inputs, remove.
Update(i, w) == windows' = [windows EXCEPT ![i] = w] /\ UNCHANGED <<drag, zone>>

ToggleDay(i, day) ==
  LET days == windows[i].days
  IN  drag = NoDrag /\ Update(i, [windows[i] EXCEPT !.days = IF day \in days THEN days \ {day} ELSE days \cup {day}])
SetStart(i, time) == drag = NoDrag /\ Update(i, [windows[i] EXCEPT !.start = time])
SetEnd(i, time)   == drag = NoDrag /\ Update(i, [windows[i] EXCEPT !.end = time])
RemoveRow(i) ==
  drag = NoDrag /\ windows' = RemoveAt(windows, i) /\ UNCHANGED <<drag, zone>>

\* "Add window" and the presets, whose hours are the scaled ones.
WorkDays == 0 .. WeekDays - 2
NineToFive == [days |-> WorkDays, start |-> Snap, end |-> DayUnits - Snap]
Presets == {<<NineToFive>>,
            <<[days |-> Days, start |-> DayUnits - Snap, end |-> Snap]>>,
            <<[days |-> Days \ WorkDays, start |-> 0, end |-> 0]>>}

AddWindow == Room /\ drag = NoDrag /\ windows' = Append(windows, NineToFive) /\ UNCHANGED <<drag, zone>>
Preset    == drag = NoDrag /\ windows' \in Presets /\ UNCHANGED <<drag, zone>>

WindowsNext ==
  \/ \E row \in Days, m \in GridMinutes : PointerDown(row, m)
  \/ \E m \in GridMinutes : PointerMove(m)
  \/ FinishDrag \/ LeaveGrid \/ AddWindow \/ Preset
  \/ \E i \in DOMAIN windows :
       \/ \E day \in Days : ToggleDay(i, day)
       \/ \E time \in InputTimes \cup {NoTime} : SetStart(i, time) \/ SetEnd(i, time)
       \/ RemoveRow(i)

WindowsSpec == WindowsInit /\ [][WindowsNext]_windowVars

(* ------------------------------- properties ------------------------------ *)
(* The reference: a window is open from the first instant the wall clock has   *)
(* reached its start to the first at which it has reached its end, whichever   *)
(* day it began on.                                                            *)
Reached(wall) == Min({t \in wall - DayUnits .. wall + DayUnits : Wall(zone, t) >= wall})

Opens(day, w)  == Reached(WallTime(day, w.start))
Closes(day, w) == Reached(WallTime(IF CrossesMidnight(w) THEN day + 1 ELSE day, w.end))

Open(t) ==
  \E i \in DOMAIN windows : \E day \in {DayOf(zone, t), DayOf(zone, t) - 1} :
    /\ Valid(windows[i]) /\ Weekday(day) \in windows[i].days
    /\ Opens(day, windows[i]) <= t /\ t < Closes(day, windows[i])

\* A window, or a break between two, that a gap swallows is lost for that week.
Boundaries == UNION {{windows[i].start, windows[i].end} : i \in {j \in DOMAIN windows : Valid(windows[j])}}
NoneLost ==
  \A day \in FirstDay - 1 .. FirstDay + 2 * WeekDays, u, v \in Boundaries :
    u # v => Reached(WallTime(day, u)) # Reached(WallTime(day, v))

\* A week in which the clock does not move, nor a day before or after it.
QuietDays == FirstDay + 2 * WeekDays .. FirstDay + 3 * WeekDays - 1
QuietTime == WallTime(FirstDay + 2 * WeekDays - 1, 0) .. WallTime(FirstDay + 3 * WeekDays + 1, 0)
QuietWeek == {t \in QuietTime : DayOf(zone, t) \in QuietDays}
Settled == drag = NoDrag

\* The days of whose instants the answers are looked at, and all they look ahead at.
LookedAt == FirstDay .. FirstDay + WeekDays - 1
OpenInstants == {t \in (FirstDay - 1) * DayUnits .. (FirstDay + WeekDays + Horizon + 2) * DayUnits : Open(t)}

(* The next flip the page names (scheduleSummary: "closes", "opens" and when)  *)
(* is the first instant after now at which the schedule really opens or shuts, *)
(* through midnight, adjacent windows and a clock change; and a schedule that  *)
(* stays as it is is never said to change within the week.  (A window or a     *)
(* break a gap swallows is left out: its next week is beyond the horizon.)     *)
NextChangeFlips ==
  Settled /\ KeepsDay(zone) /\ NoneLost =>
    LET open == OpenInstants
    IN  \A day \in LookedAt :
          LET spans == Around(day)
          IN  \A t \in {u \in (day - 1) * DayUnits .. (day + 2) * DayUnits : DayOf(zone, u) = day} :
                LET flips  == {u \in t + 1 .. t + Horizon * DayUnits : (u \in open) # (t \in open)}
                    change == Change(spans, t)
                IN  /\ Active(spans, t) = (t \in open)
                    /\ IF flips # {}
                       THEN change = Min(flips) /\ Summary(t \in open, change) = (IF t \in open THEN "closes" ELSE "opens")
                       ELSE change = Never \/ change > t + (WeekDays - 1) * DayUnits

(* What the week grid paints, the hours it adds up and the now-marked segment  *)
(* are the schedule the supervisor follows, in a week the clock does not move. *)
GridIsTheSchedule ==
  Settled /\ zone.jump \notin QuietTime =>
    LET open == {t \in QuietWeek : Open(t)}
    IN  /\ \A t \in QuietWeek : LET row == Weekday(DayOf(zone, t)) IN
             (t \in open) = (UnitOf(zone, t) \in Painted(row)) /\ NowMarked(t) = (t \in open)
        /\ WeeklyUnits = Cardinality(open)

\* What the editor shows of a schedule, in a line and as a grid, is when the service
\* really runs (serviceWindows.ts, nextChange and weekSegments).
ShownIsTheSchedule == NextChangeFlips /\ GridIsTheSchedule
=============================================================================
