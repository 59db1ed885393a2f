-------------------------- MODULE ScheduleBuilder --------------------------
(* The schedule form (ScheduleBuilder.tsx): dropdowns that write a cron        *)
(* expression and a zone into the host's form, and read a stored one back --   *)
(* "anything the dropdowns can't express opens as Advanced".  The server       *)
(* stores what it can read and refuses the rest.                               *)
EXTENDS Cron

CONSTANTS StoredCrons,    \* expressions a workflow may have (written anywhere)
          TypedCrons,     \* expressions typed in the Advanced field
          MinutePresets,  \* offered by "every few minutes"
          MaxEdits        \* bound: changes made to the form

VARIABLES form,     \* State of the builder
          formZone, \* its timezone
          stored,   \* the workflow's schedule on the server: [cron, zone]
          touched,  \* the form was changed since it was opened
          edits

formVars == <<form, formZone, stored, touched, edits>>

Manual == Expression({}, {}, {}, {}, {})   \* no cron
NoZone == "no zone"     \* schedule_timezone is null
UTC    == "UTC"
Author == "author"      \* viewerZone()
Schedule(cron_, zone) == [cron |-> cron_, zone |-> zone]

Clock == (0 .. HourRule.hi) \X (0 .. MinuteRule.hi)
SafeDays == 1 .. MonthDays - 1     \* 1-28: days every month has
Weekdays == 0 .. WeekDays - 1
Modes == {"none", "minutes", "hourly", "daily", "weekly", "monthly", "custom"}
Defaults == [mode |-> "none", everyMinutes |-> 1, atMinute |-> 0, time |-> <<1, 0>>,
             days |-> {1}, dayOfMonth |-> 1, custom |-> Manual]
In(mode) == [Defaults EXCEPT !.mode = mode]

\* What the form starts with is among what its dropdowns offer.
ASSUME BuilderAssumption ==
  /\ StoredCrons \cup TypedCrons \subseteq Crons /\ MinutePresets \subseteq 1 .. MinuteRule.hi /\ MaxEdits \in Nat
  /\ Defaults.time \in Clock /\ Defaults.days \subseteq Weekdays /\ Defaults.dayOfMonth \in SafeDays

\* The shapes parseCron tells apart: */n, one plain number, plain numbers.
NumbersIn(field)  == \A p \in field : p = Num(p.first) /\ p.first # None
Number(field)   == Cardinality(field) = 1 /\ NumbersIn(field)
Values(field)   == {p.first : p \in field}
Value(field)    == Min(Values(field))
PartOf(field)   == CHOOSE p \in field : TRUE

ParseCron(e) ==
  LET custom   == [In("custom") EXCEPT !.custom = e]
      time     == <<Value(e.hour), Value(e.minute)>>
      everyDay == e.dom = Wild /\ e.dow = Wild
      timed    == e.month = Wild /\ Number(e.minute) /\ Number(e.hour)
      stepped  == Cardinality(e.minute) = 1 /\ PartOf(e.minute).first = None
  IN  IF e.month = Wild /\ stepped /\ e.hour = Wild /\ everyDay
      THEN [In("minutes") EXCEPT !.everyMinutes = IF e.minute = Wild THEN 1 ELSE PartOf(e.minute).step]
      ELSE IF e.month = Wild /\ Number(e.minute) /\ e.hour = Wild /\ everyDay
      THEN [In("hourly") EXCEPT !.atMinute = Value(e.minute)]
      ELSE IF timed /\ everyDay THEN [In("daily") EXCEPT !.time = time]
      ELSE IF timed /\ e.dom = Wild /\ NumbersIn(e.dow) /\ Values(e.dow) \subseteq Weekdays
      THEN [In("weekly") EXCEPT !.time = time, !.days = Values(e.dow)]
      ELSE IF timed /\ e.dow = Wild /\ Number(e.dom) /\ Value(e.dom) \in SafeDays
      THEN [In("monthly") EXCEPT !.time = time, !.dayOfMonth = Value(e.dom)]
      ELSE custom

ToCron(f) ==
  LET At(dom, dow) == Expression({Num(f.time[2])}, {Num(f.time[1])}, dom, Wild, dow)
  IN  CASE f.mode = "none"    -> Manual
        [] f.mode = "minutes" -> Expression(IF f.everyMinutes <= 1 THEN Wild ELSE {Every(f.everyMinutes)}, Wild, Wild, Wild, Wild)
        [] f.mode = "hourly"  -> Expression({Num(f.atMinute)}, Wild, Wild, Wild, Wild)
        [] f.mode = "daily"   -> At(Wild, Wild)
        [] f.mode = "weekly"  -> IF f.days = {} THEN Manual ELSE At(Wild, {Num(d) : d \in f.days})
        [] f.mode = "monthly" -> At({Num(f.dayOfMonth)}, Wild)
        [] f.mode = "custom"  -> f.custom

(* ------------------------------- the form -------------------------------- *)
\* The builder as it mounts on a stored schedule.
Opened(schedule) == IF schedule.cron = Manual THEN In("none") ELSE ParseCron(schedule.cron)

\* Mutant of OpenedZone: a schedule without a zone opens in the viewer's.
OpenedZoneOfViewer(schedule) == IF schedule.zone # NoZone THEN schedule.zone ELSE Author
OpenedZone(schedule) ==
  IF schedule.zone # NoZone THEN schedule.zone ELSE IF schedule.cron # Manual THEN UTC ELSE Author

StoredSchedules ==
  {s \in {Schedule(c, z) : c \in StoredCrons \cup {Manual}, z \in {NoZone, UTC, Author}} :
     s.cron # Manual => Reads(s.cron)}

FormInit ==
  /\ stored \in StoredSchedules
  /\ form = Opened(stored) /\ formZone = OpenedZone(stored)
  /\ touched = FALSE /\ edits = 0

Edit == edits < MaxEdits /\ edits' = edits + 1 /\ touched' = TRUE
Set(f) == Edit /\ form' = f /\ UNCHANGED <<formZone, stored>>

PickMode    == \E mode \in Modes : Set([form EXCEPT !.mode = mode])
PickMinutes == form.mode = "minutes" /\ \E n \in MinutePresets : Set([form EXCEPT !.everyMinutes = n])
PickMinute  == form.mode = "hourly" /\ \E m \in 0 .. MinuteRule.hi : Set([form EXCEPT !.atMinute = m])
PickTime    == form.mode \in {"daily", "weekly", "monthly"} /\ \E t \in Clock : Set([form EXCEPT !.time = t])
PickDom     == form.mode = "monthly" /\ \E d \in SafeDays : Set([form EXCEPT !.dayOfMonth = d])
PickDay     == form.mode = "weekly" /\ \E d \in Weekdays :
                 Set([form EXCEPT !.days = IF d \in @ THEN @ \ {d} ELSE @ \cup {d}])
Type        == form.mode = "custom" /\ \E e \in TypedCrons \cup {Manual} : Set([form EXCEPT !.custom = e])
PickZone ==
  /\ form.mode # "none"
  /\ Edit /\ formZone' \in {UTC, Author}
  /\ UNCHANGED <<form, stored>>

\* The hidden inputs the host submits; the server answers 422 to what it cannot read.
Submitted == IF ToCron(form) = Manual THEN Schedule(Manual, NoZone) ELSE Schedule(ToCron(form), formZone)
Save ==
  /\ ToCron(form) = Manual \/ Reads(ToCron(form))
  /\ stored' = Submitted
  /\ UNCHANGED <<form, formZone, touched, edits>>

Reopen ==
  /\ form' = Opened(stored) /\ formZone' = OpenedZone(stored) /\ touched' = FALSE
  /\ UNCHANGED <<stored, edits>>

FormNext ==
  \/ PickMode \/ PickMinutes \/ PickMinute \/ PickTime \/ PickDom \/ PickDay
  \/ Type \/ PickZone \/ Save \/ Reopen

FormSpec == FormInit /\ [][FormNext]_formVars

(* ------------------------------- properties ------------------------------ *)
\* What a schedule means to the server: no zone is UTC.
Meaning(schedule) ==
  IF schedule.cron = Manual THEN <<>>
  ELSE <<Read(schedule.cron), IF schedule.zone = NoZone THEN UTC ELSE schedule.zone>>

\* Saved untouched, a form leaves the schedule it was opened on as it was.
UntouchedKept == ~touched => Meaning(Submitted) = Meaning(stored)

\* What the dropdowns write, the server reads, and a form shows the same.
DropdownsAreReadBack ==
  form.mode # "custom" /\ ToCron(form) # Manual =>
    /\ Reads(ToCron(form))
    /\ ParseCron(ToCron(form)).mode = form.mode
    /\ ToCron(ParseCron(ToCron(form))) = ToCron(form)

(* A schedule goes through the form unchanged both ways: opening a workflow    *)
(* and saving it leaves its schedule as it was, whoever wrote the expression,  *)
(* and whatever the dropdowns are set to opens again as it was set -- they     *)
(* never read a schedule as a simpler one.                                     *)
RoundTripKeepsTheSchedule == UntouchedKept /\ DropdownsAreReadBack
=============================================================================
