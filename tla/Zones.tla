------------------------------- MODULE Zones -------------------------------
(* The zone arithmetic the browser does through Intl (cron.ts): no offset      *)
(* table, only "what does the wall clock read at this instant".  A zone moves  *)
(* its clock once, at `jump`, from the offset `before` to the offset `after`:  *)
(* forward it leaves a gap of wall times nobody reads, back it repeats some.   *)
(* Instants and wall times are integers, a civil day is DayUnits of them.      *)
EXTENDS Integers, FiniteSetsExt

CONSTANTS DayUnits,   \* wall units in a civil day
          WeekDays,   \* days of the week (7)
          Zones       \* the zones looked at, records [jump, before, after]

\* No zone is more than a day from UTC: "a day either side brackets any transition".
ASSUME ZonesAssumption ==
  /\ {DayUnits, WeekDays} \subseteq Nat \ {0}
  /\ Zones \subseteq [jump : Int, before : -DayUnits .. DayUnits, after : -DayUnits .. DayUnits]

\* External: Intl's formatter, the offset in force at an instant.
OffsetAt(zone, t) == IF t < zone.jump THEN zone.before ELSE zone.after

\* wallParts: the wall clock at an instant, as civil day and unit of that day.
Wall(zone, t)   == t + OffsetAt(zone, t)
DayOf(zone, t)  == Wall(zone, t) \div DayUnits
UnitOf(zone, t) == Wall(zone, t) % DayUnits
WallTime(day, unit) == day * DayUnits + unit

(* zonedInstants: the offsets a day either side of the wall time are tried and *)
(* read back.  Both read on the night the clock goes back; neither in a gap,   *)
(* which resolves with the offset before the jump.                             *)
ZonedInstants(zone, wall) ==
  LET earlier    == wall - OffsetAt(zone, wall - DayUnits)
      later      == wall - OffsetAt(zone, wall + DayUnits)
      earlyReads == Wall(zone, earlier) = wall
      lateReads  == Wall(zone, later) = wall
  IN  IF earlyReads THEN {earlier} \cup (IF lateReads THEN {later} ELSE {})
      ELSE IF lateReads THEN {later} ELSE {earlier}

\* zonedTimeToUtc: the earlier of them.
ZonedTime(zone, wall) == Min(ZonedInstants(zone, wall))

(* A zone whose change keeps to one day: the wall times it passes over or       *)
(* repeats, and the ones the former are resolved to.  A search by civil days is *)
(* not exact in the zones this leaves out (Nuuk, where spring passes over the   *)
(* last hour of a day and so resolves it to the first one of the next).         *)
KeepsDay(z) ==
  LET from == z.jump + (IF z.before < z.after THEN z.before ELSE z.after)
      to   == z.jump + (IF z.before < z.after THEN 2 * z.after - z.before ELSE z.before)
  IN  z.before # z.after => from \div DayUnits = (to - 1) \div DayUnits

\* The answer when there is no next fire or next change (null).
Never == -1
=============================================================================
