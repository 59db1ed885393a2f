---------------------------- MODULE ScheduleGaps ----------------------------
(* Missed scheduled runs (ScheduleGaps.tsx) and the activity grid they are     *)
(* marked on (Heatmap.tsx).  A crontab owes fires; each ran, was missed, was   *)
(* blocked by a queued run or fell in a pause.  The page asks the server for a *)
(* scan of them, which a cap can cut short, and says in one headline, in rows  *)
(* of adjacent misses and in a mark per day what became of every fire.         *)
EXTENDS Integers, FiniteSetsExt, Sequences

CONSTANTS Crontabs,    \* sets of instants a schedule fires at
          MaxGapClock, \* bound: the clock
          ScanWindow,  \* instants a scan goes back (30 days)
          FireCap,     \* fires one scan walks
          Tolerance,   \* a younger fire's run may still arrive
          DayLength,   \* instants in a day
          Ranges,      \* days the grid can show
          MaxGapReads, \* bound: scans asked for
          MaxGapMishaps \* bound: scans that fail

ASSUME GapsAssumption == DayLength \in Nat \ {0} /\ FireCap \in Nat \ {0} /\ {ScanWindow, Tolerance} \subseteq Nat

VARIABLES gapClock,    \* the server's clock; the workflow is created at 0
          crontab,     \* the instants its schedule fires at
          became,      \* what became of each fire so far
          scan,        \* data of useScheduleGaps: the last scan landed, or NoScan
          scanError,   \* its error
          asked,       \* nonce: scans asked for so far
          answers,     \* answers on their way: the nonce and the scan (or Failed)
          range,       \* days the activity grid shows
          gapMishaps

gapVars == <<gapClock, crontab, became, scan, scanError, asked, answers, range, gapMishaps>>

Outcomes == {"ran", "missed", "blocked", "paused"}
NoScan == [since |-> -1, until |-> -1, fires |-> {}, complete |-> FALSE]
Lost   == [since |-> -2, until |-> -2, fires |-> {}, complete |-> FALSE]

GapInit ==
  /\ gapClock = 0 /\ crontab \in Crontabs /\ became = <<>>
  /\ scan = NoScan /\ scanError = FALSE
  /\ asked = 1 /\ answers = {}
  /\ range \in Ranges /\ gapMishaps = 0

(* ------------------------------- the server ------------------------------ *)
\* The clock moves on; a fire that comes due meets its fate.
Owed == DOMAIN became
PassTime ==
  /\ gapClock < MaxGapClock
  /\ gapClock' = gapClock + 1
  /\ IF gapClock + 1 \in crontab
     THEN \E o \in Outcomes : became' = [f \in Owed \cup {gapClock + 1} |-> IF f \in Owed THEN became[f] ELSE o]
     ELSE UNCHANGED became
  /\ UNCHANGED <<crontab, scan, scanError, asked, answers, range, gapMishaps>>

\* find_gaps: the newest FireCap fires of the window, and whether that is all.
FindGaps ==
  LET until == gapClock - Tolerance
      since == Max({0, until - ScanWindow})
      owed  == {f \in Owed : since <= f /\ f <= until}
      kept  == {f \in owed : Cardinality({g \in owed : g > f}) < FireCap}
  IN  [since |-> IF kept # owed THEN Min(kept) ELSE since, until |-> until,
       fires |-> {<<f, became[f]>> : f \in kept}, complete |-> kept = owed]

AnswerScan ==
  /\ ~\E a \in answers : a.nonce = asked
  /\ answers' = answers \cup {[nonce |-> asked, scan |-> FindGaps]}
  /\ UNCHANGED <<gapClock, crontab, became, scan, scanError, asked, range, gapMishaps>>

FailScan ==
  /\ ~\E a \in answers : a.nonce = asked
  /\ gapMishaps < MaxGapMishaps
  /\ answers' = answers \cup {[nonce |-> asked, scan |-> Lost]}
  /\ gapMishaps' = gapMishaps + 1
  /\ UNCHANGED <<gapClock, crontab, became, scan, scanError, asked, range>>

(* -------------------------------- the page ------------------------------- *)
\* useScheduleGaps: only the newest request's answer is taken.
LandScan(a) ==
  /\ answers' = answers \ {a}
  /\ IF a.nonce # asked THEN UNCHANGED <<scan, scanError>>
     ELSE IF a.scan = Lost THEN scanError' = TRUE /\ UNCHANGED scan
     ELSE scan' = a.scan /\ scanError' = FALSE
  /\ UNCHANGED <<gapClock, crontab, became, asked, range, gapMishaps>>

\* Loading: the newest request has not landed.  Re-scan may be pressed meanwhile.
Rescan ==
  /\ scan # NoScan \/ scanError
  /\ asked < MaxGapReads
  /\ asked' = asked + 1
  /\ UNCHANGED <<gapClock, crontab, became, scan, scanError, answers, range, gapMishaps>>

PickRange ==
  /\ range' \in Ranges \ {range}
  /\ UNCHANGED <<gapClock, crontab, became, scan, scanError, asked, answers, gapMishaps>>

GapNext == PassTime \/ AnswerScan \/ FailScan \/ (\E a \in answers : LandScan(a)) \/ Rescan \/ PickRange
GapSpec == GapInit /\ [][GapNext]_gapVars

(* ---------------------------- what it says ------------------------------- *)
Fates(outcome) == {fire[1] : fire \in {g \in scan.fires : g[2] = outcome}}
Missed   == Fates("missed")
Expected == Cardinality(scan.fires)

\* Mutant of Headline: no miss among what was scanned is taken for all clear.
HeadlineOfTheScanned ==
  IF scan = NoScan THEN IF scanError THEN "could not check" ELSE "loading"
  ELSE IF crontab = {} THEN "on demand"
  ELSE IF Expected = 0 THEN "nothing due"
  ELSE IF Missed # {} THEN "never happened" ELSE "every run happened"

Headline ==
  IF scan = NoScan THEN IF scanError THEN "could not check" ELSE "loading"
  ELSE IF crontab = {} THEN "on demand"
  ELSE IF Expected = 0 THEN "nothing due"
  ELSE IF Missed # {} THEN "never happened"
  ELSE IF scan.complete THEN "every run happened" ELSE "no misses in the part scanned"

\* A grid day's mark and tooltip.
Today == gapClock \div DayLength
GridDays == {d \in Today - range + 1 .. Today : d >= 0}
DayFires(d) == {fire \in scan.fires : fire[1] \div DayLength = d}
InScan(d) == scan # NoScan /\ (d + 1) * DayLength > scan.since
DayTip(d) ==
  IF scan = NoScan \/ crontab = {} THEN "nothing"
  ELSE IF ~InScan(d) THEN "not scanned"
  ELSE IF \E fire \in DayFires(d) : fire[2] = "missed" THEN "missed"
  ELSE IF \E fire \in DayFires(d) : fire[2] # "ran" THEN "skipped or not owed"
  ELSE IF DayFires(d) # {} THEN "all on time" ELSE "nothing"

(* ------------------------------- properties ------------------------------ *)
ReallyMissed == {f \in Owed : became[f] = "missed"}

\* When the headline says every run happened, no fire owed in the window was missed.
AllClearIsTrue ==
  Headline = "every run happened" =>
    \A f \in ReallyMissed : ~(scan.until - ScanWindow <= f /\ f <= scan.until)

\* A day with a miss is hatched on the grid, or the grid says it was not scanned.
\* The day the scan's floor falls in is the exception.
MissesAreMarked ==
  scan # NoScan =>
    \A f \in ReallyMissed : LET d == f \div DayLength IN
      (f <= scan.until /\ d \in GridDays /\ d # scan.since \div DayLength) => DayTip(d) \in {"missed", "not scanned"}

(* No miss hides: neither the headline nor a day of the activity grid looks    *)
(* checked and clean while the schedule owed a fire there that never ran --    *)
(* after a scan that was cut short, one that failed, one that is old, or a     *)
(* range that reaches back beyond it.                                          *)
NoMissIsHidden == AllClearIsTrue /\ MissesAreMarked
=============================================================================
