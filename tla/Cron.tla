-------------------------------- MODULE Cron --------------------------------
(* When a schedule fires next (cron.ts): five fields read into the minutes,    *)
(* hours and days they allow, and the next instant found by walking civil days *)
(* and resolving each wall time in the workflow's zone.  The calendar is       *)
(* scaled down: HourUnits minutes an hour, DayUnits a day, WeekDays a week,    *)
(* MonthDays a month, two months a year.                                       *)
EXTENDS Zones, Sequences

CONSTANTS HourUnits,   \* minutes in an hour (60)
          MonthDays,   \* days in a month
          Shift,       \* no zone moves its clock by more (3 hours)
          CronHorizon  \* civil days looked at (8 years)

ASSUME CronAssumption ==
  /\ {HourUnits, MonthDays, CronHorizon} \subseteq Nat \ {0}
  /\ Shift \in Nat
  /\ \A zone \in Zones : zone.before - zone.after \in -Shift .. Shift

(* ------------------------------ the grammar ------------------------------ *)
(* A field is a set of parts: `*`, `N`, `A-B`, each with an optional /step.    *)
None == -1
Star      == [first |-> None, last |-> None, step |-> None]
Every(n)  == [Star EXCEPT !.step = n]
Num(n)    == [first |-> n, last |-> None, step |-> None]
Span(a, b) == [first |-> a, last |-> b, step |-> None]
Wild      == {Star}

\* RULES: what `*` covers and the highest number written out.
Rule(lo, hi, max) == [lo |-> lo, hi |-> hi, max |-> max]
MinuteRule == Rule(0, HourUnits - 1, HourUnits - 1)
HourRule   == Rule(0, DayUnits \div HourUnits - 1, DayUnits \div HourUnits - 1)
DomRule    == Rule(1, MonthDays, MonthDays)
MonthRule  == Rule(1, 2, 2)
DowRule    == Rule(0, WeekDays - 1, WeekDays)   \* the last one a second Sunday

\* expand: the numbers of one part and whether the field's rule accepts it.
Low(part, rule)  == IF part.first = None THEN rule.lo ELSE part.first
High(part, rule) ==
  IF part.first = None THEN rule.hi
  ELSE IF part.last # None THEN part.last
  ELSE IF part.step # None THEN rule.hi ELSE part.first
Accepts(part, rule) ==
  /\ part.step = None \/ (part.step >= 1 /\ (part.first = None => part.step <= rule.max - rule.lo))
  /\ Low(part, rule) <= High(part, rule)
  /\ rule.lo <= Low(part, rule) /\ High(part, rule) <= rule.max
Expand(field, rule) ==
  UNION {{v \in Low(p, rule) .. High(p, rule) :
            (v - Low(p, rule)) % (IF p.step = None THEN 1 ELSE p.step) = 0} : p \in field}

Expression(minute, hour, dom, month, dow) ==
  [minute |-> minute, hour |-> hour, dom |-> dom, month |-> month, dow |-> dow]

\* An expression has a part or more in each field; only one that starts somewhere ends somewhere.
Parts     == {p \in [first : Int, last : Int, step : Int] : p.first = None => p.last = None}
CronField == {field \in SUBSET Parts : field # {} /\ IsFiniteSet(field)}
Crons     == [minute : CronField, hour : CronField, dom : CronField, month : CronField, dow : CronField]

\* read: what the server would refuse is refused here.
Reads(e) ==
  /\ \A p \in e.minute : Accepts(p, MinuteRule)
  /\ \A p \in e.hour : Accepts(p, HourRule)
  /\ \A p \in e.dom : Accepts(p, DomRule)
  /\ \A p \in e.month : Accepts(p, MonthRule)
  /\ \A p \in e.dow : Accepts(p, DowRule)
  /\ e.dom = Wild \/ e.dow = Wild

Pinned(e) == \A p \in e.hour : p.first # None /\ p.step = None

Read(e) ==
  [minutes |-> Expand(e.minute, MinuteRule), hours |-> Expand(e.hour, HourRule),
   dom |-> Expand(e.dom, DomRule), months |-> Expand(e.month, MonthRule),
   dows |-> {d % WeekDays : d \in Expand(e.dow, DowRule)}, pinned |-> Pinned(e)]

(* ---------------------------- next occurrence ---------------------------- *)
DayMatches(spec, day) ==
  /\ ((day \div MonthDays) % 2) + 1 \in spec.months
  /\ (day % MonthDays) + 1 \in spec.dom
  /\ day % WeekDays \in spec.dows

\* Mutant of Fires: a repeated night fires twice, pinned or not.
FiresTwice(spec, zone, wall) == ZonedInstants(zone, wall)

\* The instants a wall time fires at: a pinned hour once on a repeated night.
Fires(spec, zone, wall) ==
  IF spec.pinned THEN {ZonedTime(zone, wall)} ELSE ZonedInstants(zone, wall)

(* compute's search of one day: wall times in order, the ones the offset at    *)
(* `after` puts far before it skipped, until one lies far past the best found. *)
Times(spec, day) == {WallTime(day, h * HourUnits + m) : h \in spec.hours, m \in spec.minutes}

Searched(spec, zone, day, after) ==
  LET Guess(wall) == wall - OffsetAt(zone, after)
      tried == {w \in Times(spec, day) : Guess(w) >= after - Shift}
      late(w) == {t \in Fires(spec, zone, w) : t > after}
      Stopped(w) == \E v \in tried : v < w /\ \E t \in late(v) : Guess(w) > t + Shift
  IN  UNION {late(w) : w \in {v \in tried : ~Stopped(v)}}

NextOccurrence(e, zone, after) ==
  LET spec  == Read(e)
      today == DayOf(zone, after)
      days  == {d \in today .. today + CronHorizon - 1 :
                  DayMatches(spec, d) /\ Searched(spec, zone, d, after) # {}}
  IN  IF ~Reads(e) \/ days = {} THEN Never
      ELSE Min(Searched(spec, zone, Min(days), after))

(* --------------------------- the chain of fires -------------------------- *)
(* The builder's preview and the dashboard's list walk from one fire to the    *)
(* next, each computed from the one before.                                    *)
CONSTANTS CronFields,  \* expressions walked
          WalkFrom,    \* instants a walk starts at
          WalkUntil    \* bound: a walk stops there

ASSUME WalkAssumption ==
  /\ CronFields \subseteq Crons /\ \A e \in CronFields : Reads(e)
  /\ WalkFrom \subseteq Int /\ WalkUntil \in Int

VARIABLES cron, cronZone, cursor
walkVars == <<cron, cronZone, cursor>>

WalkInit == cron \in CronFields /\ cronZone \in Zones /\ cursor \in WalkFrom

\* UpcomingList: the cursor moves to the fire just found.
Advance ==
  /\ cursor < WalkUntil
  /\ NextOccurrence(cron, cronZone, cursor) # Never
  /\ cursor' = NextOccurrence(cron, cronZone, cursor)
  /\ UNCHANGED <<cron, cronZone>>

WalkNext == Advance
WalkSpec == WalkInit /\ [][WalkNext]_walkVars

(* The server's fires, told by what the wall clock reads: every instant that   *)
(* reads a scheduled time, the first of them for a pinned hour, and for a time *)
(* nobody reads the instant the offset before the jump puts it at.             *)
ServerFires(spec, zone, wall) ==
  LET reading == {t \in wall - 2 * DayUnits .. wall + 2 * DayUnits : Wall(zone, t) = wall}
  IN  IF reading = {} THEN {wall - zone.before}
      ELSE IF spec.pinned THEN {Min(reading)} ELSE reading

(* The next run the browser promises is the next one the server fires: no fire *)
(* is skipped and none invented, through a day the clock jumps, a night it     *)
(* goes back and an offset that is not a whole hour.                           *)
NextFireIsTheServers == KeepsDay(cronZone) =>
  LET spec  == Read(cron)
      today == DayOf(cronZone, cursor)
      fires == {t \in UNION {UNION {ServerFires(spec, cronZone, w) : w \in Times(spec, d)} :
                              d \in {c \in today - 2 .. today + CronHorizon - 1 : DayMatches(spec, c)}} : t > cursor}
  IN  NextOccurrence(cron, cronZone, cursor) = IF fires = {} THEN Never ELSE Min(fires)
=============================================================================
