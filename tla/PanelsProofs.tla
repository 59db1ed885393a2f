----------------------------- MODULE PanelsProofs -----------------------------
(***************************************************************************)
(* Proofs about what the schedule gaps say, for every crontab, every scan  *)
(* window and cap, and any number of scans in flight, lost or out of date. *)
(***************************************************************************)
EXTENDS ScheduleGaps, ReportPanel, Wallboard, Retention, FiniteSetTheorems, WellFoundedInduction, TLAPS

-----------------------------------------------------------------------------
(* Least and greatest elements.                                            *)

LEMMA LeastNatural ==
  ASSUME NEW S, S \subseteq Nat, S # {}
  PROVE  \E m \in S : \A n \in S : m <= n
<1>1. PICK m \in S : \A n \in S : <<n, m>> \notin OpToRel(<, Nat)
  BY NatLessThanWellFounded, WFMin
<1>2. ASSUME NEW n \in S, n < m PROVE <<n, m>> \in OpToRel(<, Nat)
  BY <1>2 DEF OpToRel
<1>3. \A n \in S : ~(n < m) /\ n \in Nat /\ m \in Nat
  BY <1>1, <1>2
<1> QED
  BY <1>3

LEMMA GreatestBelow ==
  ASSUME NEW b \in Nat, NEW S, S \subseteq 0 .. b, S # {}
  PROVE  \E m \in S : \A n \in S : n <= m
<1> DEFINE T == {b - n : n \in S}
<1>1. \A n \in S : n \in Nat /\ n <= b /\ b - n \in Nat
  OBVIOUS
<1>2. T \subseteq Nat /\ T # {}
  BY <1>1
<1>3. PICK k \in T : \A n \in T : k <= n
  BY <1>2, LeastNatural
<1>4. PICK m \in S : k = b - m
  OBVIOUS
<1>5. ASSUME NEW n \in S PROVE n <= m
  <2>1. b - n \in T
    OBVIOUS
  <2>2. b - m <= b - n
    BY <1>3, <1>4, <2>1
  <2> QED
    BY <1>1, <2>2
<1> QED
  BY <1>5

LEMMA MinIsLeast ==
  ASSUME NEW S, S \subseteq Nat, S # {}
  PROVE  Min(S) \in S /\ \A n \in S : Min(S) <= n
BY LeastNatural DEF Min

LEMMA MaxOfTwo ==
  ASSUME NEW a \in Int
  PROVE  Max({0, a}) \in Nat /\ Max({0, a}) >= a /\ Max({0, a}) \in {0, a}
<1>1. \E m \in {0, a} : \A n \in {0, a} : m >= n
  <2>1. CASE a >= 0
    BY <2>1
  <2>2. CASE a < 0
    BY <2>2
  <2> QED
    BY <2>1, <2>2
<1>2. Max({0, a}) \in {0, a} /\ \A n \in {0, a} : Max({0, a}) >= n
  BY <1>1 DEF Max
<1> QED
  BY <1>2

-----------------------------------------------------------------------------
(* The schedule gaps.                                                      *)

\* A scan tells the fate of every fire owed since its floor; a complete one has the
\* whole window above its floor.
Faithful(s) ==
  /\ s.since \in Nat /\ s.until \in Int /\ s.until <= gapClock
  /\ \A f \in Owed : s.since <= f /\ f <= s.until => <<f, became[f]>> \in s.fires
  /\ s.complete => s.since = 0 \/ s.since = s.until - ScanWindow

GapsInv ==
  /\ gapClock \in Nat
  /\ Owed \subseteq crontab \cap (1 .. gapClock)
  /\ scan = NoScan \/ Faithful(scan)
  /\ \A a \in answers : a.scan = Lost \/ Faithful(a.scan)

LEMMA InitGaps == GapInit => GapsInv
BY DEF GapInit, GapsInv, Owed

\* The server's scan is faithful: what its cap cuts off is older than its floor.
LEMMA ScanIsFaithful ==
  ASSUME GapsInv
  PROVE  Faithful(FindGaps)
<1> DEFINE until == gapClock - Tolerance
           since == Max({0, until - ScanWindow})
           owed  == {f \in Owed : since <= f /\ f <= until}
           later(f) == {g \in owed : g > f}
           kept  == {f \in owed : Cardinality(later(f)) < FireCap}
<1>1. /\ gapClock \in Nat /\ Tolerance \in Nat /\ ScanWindow \in Nat /\ FireCap \in Nat \ {0}
      /\ until \in Int /\ until <= gapClock
      /\ Owed \subseteq 1 .. gapClock
  BY GapsAssumption DEF GapsInv
<1>2. since \in Nat /\ since >= until - ScanWindow /\ (since = 0 \/ since = until - ScanWindow)
  BY <1>1, MaxOfTwo
<1> HIDE DEF since, until
<1>3. kept \subseteq owed /\ owed \subseteq 0 .. gapClock
  <2>1. owed \subseteq Owed
    OBVIOUS
  <2>2. 1 .. gapClock \subseteq 0 .. gapClock
    BY <1>1
  <2> QED
    BY <1>1, <2>1, <2>2
<1>4. ASSUME NEW f \in owed PROVE IsFiniteSet(later(f)) /\ Cardinality(later(f)) \in Nat
  <2>1. IsFiniteSet(0 .. gapClock)
    BY <1>1, FS_Interval
  <2>2. later(f) \subseteq 0 .. gapClock
    BY <1>3
  <2>3. IsFiniteSet(later(f))
    BY <2>1, <2>2, FS_Subset
  <2> QED
    BY <2>3, FS_CardinalityType
<1>5. ASSUME NEW f \in kept, NEW g \in owed, f <= g PROVE g \in kept
  <2>1. later(g) \subseteq later(f)
    BY <1>1, <1>3, <1>5
  <2>2. Cardinality(later(g)) <= Cardinality(later(f))
    BY <1>3, <1>4, <2>1, FS_Subset
  <2> QED
    BY <1>1, <1>3, <1>4, <2>2
<1>6. ASSUME owed # {} PROVE kept # {}
  <2>1. PICK m \in owed : \A n \in owed : n <= m
    BY <1>1, <1>3, <1>6, GreatestBelow
  <2>2. later(m) = {}
    BY <1>1, <1>3, <2>1
  <2>3. Cardinality(later(m)) = 0
    BY <2>2, FS_EmptySet
  <2> QED
    BY <1>1, <2>1, <2>3
<1> DEFINE floor == IF kept # owed THEN Min(kept) ELSE since
<1>7. floor \in Nat /\ \A f \in Owed : floor <= f /\ f <= until => f \in kept
  <2>1. CASE kept = owed
    BY <1>1, <1>2, <2>1
  <2>2. CASE kept # owed
    <3>1. kept # {} /\ kept \subseteq Nat
      BY <1>1, <1>3, <1>6, <2>2
    <3>2. Min(kept) \in kept /\ \A n \in kept : Min(kept) <= n
      BY <3>1, MinIsLeast
    <3>3. ASSUME NEW f \in Owed, Min(kept) <= f, f <= until PROVE f \in kept
      <4>1. since <= Min(kept) /\ Min(kept) \in Nat
        BY <1>3, <3>1, <3>2
      <4>2. f \in owed
        BY <1>1, <1>2, <3>3, <4>1
      <4> QED
        BY <1>5, <3>2, <3>3, <4>2
    <3> QED
      BY <2>2, <3>1, <3>2, <3>3
  <2> QED
    BY <2>1, <2>2
<1>8. FindGaps = [since |-> floor, until |-> until, fires |-> {<<f, became[f]>> : f \in kept},
                  complete |-> kept = owed]
  BY DEF FindGaps, until, since
<1> HIDE DEF floor, kept, owed
<1>9. FindGaps.complete => floor = since
  BY <1>8 DEF floor
<1> QED
  BY <1>1, <1>2, <1>7, <1>8, <1>9 DEF Faithful

\* A scan stays faithful: what comes due is younger than every scan there is.
LEMMA StillFaithful ==
  ASSUME GapsInv, NEW s, Faithful(s),
         PassTime \/ UNCHANGED <<gapClock, crontab, became>>
  PROVE  Faithful(s)'
<1>1. CASE UNCHANGED <<gapClock, crontab, became>>
  BY <1>1 DEF Faithful, Owed
<1>2. CASE PassTime
  <2>1. /\ gapClock \in Nat /\ gapClock' = gapClock + 1
        /\ \A f \in Owed' : (f \in Owed /\ became'[f] = became[f]) \/ f = gapClock + 1
    BY <1>2 DEF PassTime, Owed, GapsInv
  <2>2. s.until \in Int /\ s.until <= gapClock
    BY DEF Faithful
  <2>3. ASSUME NEW f \in Owed', s.since <= f, f <= s.until PROVE <<f, became'[f]>> \in s.fires
    <3>1. f \in Owed /\ became'[f] = became[f]
      BY <2>1, <2>2, <2>3
    <3> QED
      BY <2>3, <3>1 DEF Faithful
  <2>4. s.until <= gapClock'
    BY <2>1, <2>2
  <2> QED
    BY <2>3, <2>4 DEF Faithful
<1> QED
  BY <1>1, <1>2

LEMMA GapsStep ==
  ASSUME GapsInv, [GapNext]_gapVars
  PROVE  GapsInv'
<1>1. PassTime \/ UNCHANGED <<gapClock, crontab, became>>
  BY DEF GapNext, gapVars, AnswerScan, FailScan, LandScan, Rescan, PickRange
<1>2. /\ gapClock' \in Nat
      /\ Owed' \subseteq crontab' \cap (1 .. gapClock')
  <2>1. CASE PassTime
    <3>1. /\ gapClock \in Nat /\ gapClock' = gapClock + 1 /\ crontab' = crontab
          /\ Owed \subseteq crontab \cap (1 .. gapClock)
          /\ Owed' = Owed \/ (Owed' = Owed \cup {gapClock + 1} /\ gapClock + 1 \in crontab)
      BY <2>1 DEF PassTime, Owed, GapsInv
    <3>2. \A f \in Owed' : f \in crontab /\ f \in 1 .. gapClock + 1
      BY <3>1
    <3> QED
      BY <3>1, <3>2
  <2>2. CASE UNCHANGED <<gapClock, crontab, became>>
    BY <2>2 DEF GapsInv, Owed
  <2> QED
    BY <1>1, <2>1, <2>2
<1>3. ASSUME NEW s, Faithful(s) PROVE Faithful(s)'
  BY <1>1, <1>3, StillFaithful
<1>4. \A a \in answers' : a.scan = Lost \/ (Faithful(a.scan))'
  <2>1. ASSUME NEW a \in answers PROVE a.scan = Lost \/ (Faithful(a.scan))'
    BY <1>3, <2>1 DEF GapsInv
  <2>2. CASE answers' \subseteq answers
    BY <2>1, <2>2
  <2>3. CASE AnswerScan
    <3>1. PICK s : s = FindGaps
      OBVIOUS
    <3>2. Faithful(s)'
      BY <1>3, <3>1, ScanIsFaithful
    <3>3. ASSUME NEW a \in answers' PROVE a.scan = Lost \/ (Faithful(a.scan))'
      <4>1. CASE a \in answers
        BY <2>1, <4>1
      <4>2. CASE a \notin answers
        <5>1. a.scan = s
          BY <2>3, <3>1, <3>3, <4>2 DEF AnswerScan
        <5> QED
          BY <3>2, <5>1 DEF Faithful
      <4> QED
        BY <4>1, <4>2
    <3> QED
      BY <3>3
  <2>4. CASE FailScan
    BY <2>1, <2>4 DEF FailScan
  <2> QED
    BY <2>2, <2>3, <2>4 DEF GapNext, gapVars, PassTime, LandScan, Rescan, PickRange
<1>5. scan' = NoScan \/ (Faithful(scan))'
  <2>1. CASE scan' = scan
    BY <1>3, <2>1 DEF GapsInv, Faithful
  <2>2. ASSUME NEW a \in answers, LandScan(a), scan' # scan PROVE (Faithful(scan))'
    <3>1. a.scan # Lost /\ scan' = a.scan
      BY <2>2 DEF LandScan
    <3>2. Faithful(a.scan)
      BY <3>1 DEF GapsInv
    <3>3. PICK s : s = a.scan
      OBVIOUS
    <3>4. Faithful(s)'
      BY <1>3, <3>2, <3>3
    <3> QED
      BY <3>1, <3>3, <3>4 DEF Faithful
  <2> QED
    BY <2>1, <2>2 DEF GapNext, gapVars, PassTime, AnswerScan, FailScan, Rescan, PickRange
<1> QED
  BY <1>2, <1>4, <1>5 DEF GapsInv

\* A miss the scan covers is among the misses the page counts and marks.
LEMMA MissIsTold ==
  ASSUME GapsInv, scan # NoScan, NEW f \in ReallyMissed, scan.since <= f, f <= scan.until
  PROVE  <<f, "missed">> \in scan.fires /\ f \in Missed
<1>1. <<f, "missed">> \in scan.fires
  BY DEF GapsInv, Faithful, ReallyMissed
<1> QED
  BY <1>1 DEF Missed, Fates

LEMMA FloorBelow ==
  ASSUME NEW c \in Nat, NEW owed, owed \subseteq 1 .. c, NEW f \in owed,
         NEW since \in Nat, NEW until \in Int, NEW window \in Nat,
         since = 0 \/ since = until - window, until - window <= f
  PROVE  since <= f
<1>1. f \in 1 .. c
  OBVIOUS
<1> QED
  BY <1>1

LEMMA AllClearHolds ==
  ASSUME GapsInv
  PROVE  AllClearIsTrue
<1> SUFFICES ASSUME Headline = "every run happened", NEW f \in ReallyMissed,
                    scan.until - ScanWindow <= f, f <= scan.until
             PROVE  FALSE
  BY DEF AllClearIsTrue
<1>1. scan # NoScan /\ Missed = {} /\ scan.complete
  BY DEF Headline
<1>2. f \in Owed /\ Owed \subseteq 1 .. gapClock /\ gapClock \in Nat /\ Faithful(scan)
  BY <1>1 DEF GapsInv, ReallyMissed
<1>3. /\ scan.since \in Nat /\ scan.until \in Int /\ ScanWindow \in Nat
      /\ scan.since = 0 \/ scan.since = scan.until - ScanWindow
  BY <1>1, <1>2, GapsAssumption DEF Faithful
<1>4. scan.since <= f
  BY <1>2, <1>3, FloorBelow
<1> QED
  BY <1>1, <1>4, MissIsTold

\* Days are in the order of their instants.
LEMMA Division ==
  ASSUME NEW a \in Nat, NEW d \in Nat \ {0}
  PROVE  a \div d \in Nat /\ (a \div d) * d <= a /\ a < (a \div d + 1) * d
<1>1. a \div d \in Nat
  OBVIOUS
<1>2. (a \div d) * d <= a
  OBVIOUS
<1>3. a < (a \div d + 1) * d
  OBVIOUS
<1> QED
  BY <1>1, <1>2, <1>3

LEMMA DaysInOrder ==
  ASSUME NEW a \in Nat, NEW b \in Nat, a \div DayLength # b \div DayLength,
         (b \div DayLength + 1) * DayLength > a
  PROVE  a <= b
<1>1. DayLength \in Nat \ {0}
  BY GapsAssumption
<1>2. PICK m, n : m = a \div DayLength /\ n = b \div DayLength
  OBVIOUS
<1>3. /\ m \in Nat /\ a < (m + 1) * DayLength /\ m * DayLength <= a
      /\ n \in Nat /\ n * DayLength <= b
      /\ m # n /\ (n + 1) * DayLength > a
  BY <1>1, <1>2, Division
<1>4. m <= n
  <2>1. ASSUME m > n PROVE FALSE
    <3>1. m >= n + 1
      BY <1>3, <2>1
    <3>2. m * DayLength >= (n + 1) * DayLength
      BY <1>1, <1>3, <3>1
    <3> QED
      BY <1>1, <1>3, <3>2
  <2> QED
    BY <1>3, <2>1
<1>5. m + 1 <= n
  BY <1>3, <1>4
<1>6. (m + 1) * DayLength <= n * DayLength
  BY <1>1, <1>3, <1>5
<1> QED
  BY <1>1, <1>3, <1>6

LEMMA MarksHold ==
  ASSUME GapsInv
  PROVE  MissesAreMarked
<1> SUFFICES ASSUME scan # NoScan, NEW f \in ReallyMissed, f <= scan.until,
                    f \div DayLength # scan.since \div DayLength,
                    InScan(f \div DayLength)
             PROVE  DayTip(f \div DayLength) = "missed"
  BY DEF MissesAreMarked, DayTip, GapsInv, ReallyMissed
<1>1. crontab # {} /\ f \in Nat /\ scan.since \in Nat
  BY DEF GapsInv, ReallyMissed, Faithful
<1>2. scan.since <= f
  BY <1>1, DaysInOrder DEF InScan
<1>3. <<f, "missed">> \in DayFires(f \div DayLength)
  BY <1>2, MissIsTold DEF DayFires
<1> QED
  BY <1>1, <1>3 DEF DayTip

(* NoMissIsHidden for any number of scans asked for, landed in any order, failed *)
(* or out of date (ScheduleGaps.tsx, Heatmap.tsx): neither the headline nor a    *)
(* day of the grid looks checked and clean over a fire that never ran.           *)
THEOREM GapsAreTold == GapSpec => []NoMissIsHidden
<1>1. GapsInv => NoMissIsHidden
  BY AllClearHolds, MarksHold DEF NoMissIsHidden
<1> QED
  BY <1>1, InitGaps, GapsStep, PTL DEF GapSpec

-----------------------------------------------------------------------------
(* The reports of a run and of a workflow.                                 *)

Url == [kind : {"bare", "task", "attempt", "latest"}, task : Nat, attempt : Nat]
ViewerType ==
  [entry : Nat \X Nat, url : Url, probe : {"none", "asked", "ok", "failed"}, stray : {"none", "ok", "failed"},
   phase : {"rendering", "ready", "failed"}, frame : Nat \X Nat, busy : BOOLEAN]

ReportTypes ==
  /\ ranDb \in [Notebook -> 0 .. MaxTries] /\ liveDb \subseteq Notebook
  /\ \A t \in liveDb : ranDb[t] < MaxTries
  /\ page \in {"run", "report", "latest"}
  /\ flowRuns \in [1 .. MaxFlowRuns -> {"live", "notebook", "plain", "failed"}]
  /\ outputsLost \in BOOLEAN
  /\ viewer \in ViewerType

\* A list of attempts the run had, or has by now.
Had(list) == list \in [Notebook -> Nat] /\ \A t \in Notebook : list[t] <= ranDb[t]

\* The lists the page has and awaits are of the run's past, none older than the run it shows.
ListsFollow ==
  /\ Had(seenRun.ran)
  /\ outputs = NoOutputs \/ Had(outputs)
  /\ page # "latest" /\ asking.at = "answered" =>
       Had(asking.ran) /\ (page = "run" => \A t \in Notebook : seenRun.ran[t] <= asking.ran[t])
  /\ page = "run" /\ asking = NoRead /\ ~outputsLost =>
       outputs = NoOutputs \/ \A t \in Notebook : seenRun.ran[t] <= outputs[t]

\* A viewer is of a row of the list, at the address the list makes of it.
Fits(v, out, lost) ==
  v = NoViewer \/
    /\ ~lost /\ out # NoOutputs
    /\ v.entry[1] \in With(out) /\ v.entry[2] \in 1 .. out[v.entry[1]]
    /\ v.url = Src(out, v.entry)

\* What a frame can be of, by the address it was loaded from some time ago.
Framed(v) ==
  v.frame # <<0, 0>> =>
    /\ v.url.kind = "attempt" => v.frame = v.entry
    /\ v.url.kind = "task" =>
         v.frame[1] = v.entry[1] /\ v.entry[2] <= v.frame[2] /\ v.frame[2] <= ranDb[v.entry[1]]
    /\ v.url.kind = "bare" =>
         v.frame[1] \in Notebook /\ 1 <= v.frame[2] /\ v.frame[2] <= ranDb[v.frame[1]]

ViewerFollows == page # "latest" => Fits(viewer, outputs, outputsLost) /\ Framed(viewer)

\* What a banner says stays so: a success is never taken back.
Holds(said) ==
  /\ said.run \in Nat /\ (said.run # 0 => said.run \in DOMAIN flowRuns /\ flowRuns[said.run] = "notebook")
  /\ said.newer # 0 =>
       said.newer \in DOMAIN flowRuns /\ (flowRuns[said.newer] = "plain" \/ said.newer \in said.since)

\* An answer that is being put together: a later report than the one picked ended since.
Picked(said) ==
  /\ said.run \in DOMAIN flowRuns /\ flowRuns[said.run] = "notebook" /\ said.newer = 0
  /\ \A r \in DOMAIN flowRuns : r > said.run /\ flowRuns[r] = "notebook" => r \in said.since

LatestRead ==
  [at : {"none", "asked", "picked", "counted", "answered"}, ran : [Notebook -> Nat],
   latest : [run : Nat, newer : Nat, failed : SUBSET Nat, since : SUBSET Nat]]

LatestFollows ==
  /\ Holds(banner)
  /\ page = "latest" =>
       /\ outputs = NoOutputs
       /\ asking \in LatestRead
       /\ asking.at = "answered" => Holds(asking.latest)
       /\ asking.at \in {"picked", "counted"} => Picked(asking.latest)
       /\ viewer = NoViewer \/ viewer.url = LatestUrl
       /\ viewer.frame # <<0, 0>> => viewer.frame[1] >= banner.run

ReportInv == ReportTypes /\ ListsFollow /\ ViewerFollows /\ LatestFollows

\* The first of some notebooks, the newest of some runs.
LEMMA FirstIsOne ==
  ASSUME NEW S, S \subseteq Notebook, S # {}
  PROVE  FirstOf(S) \in S
<1>1. S \subseteq Nat
  BY ReportAssumption
<1>2. \E t \in S : \A u \in S : t <= u
  BY <1>1, LeastNatural
<1> QED
  BY <1>2 DEF FirstOf

LEMMA NewestIs ==
  ASSUME ReportTypes, NEW ends
  PROVE  /\ NewestWith(ends) \in Nat
         /\ NewestWith(ends) # 0 => NewestWith(ends) \in DOMAIN flowRuns /\ flowRuns[NewestWith(ends)] \in ends
         /\ \A r \in DOMAIN flowRuns : flowRuns[r] \in ends => r <= NewestWith(ends)
<1> DEFINE those == {r \in DOMAIN flowRuns : flowRuns[r] \in ends}
           n == NewestWith(ends)
<1>1. DOMAIN flowRuns = 1 .. MaxFlowRuns /\ MaxFlowRuns \in Nat
  BY ReportAssumption DEF ReportTypes
<1>2. those \subseteq 0 .. MaxFlowRuns
  <2>1. those \subseteq 1 .. MaxFlowRuns
    BY <1>1
  <2> QED
    BY <1>1, <2>1
<1> HIDE DEF those
<1>3. \E m \in those \cup {0} : \A r \in those : r <= m
  <2>1. CASE those = {}
    BY <2>1
  <2>2. CASE those # {}
    BY <1>1, <1>2, <2>2, GreatestBelow
  <2> QED
    BY <2>1, <2>2
<1>4. n = CHOOSE m \in those \cup {0} : \A r \in those : r <= m
  BY DEF NewestWith, those
<1>5. n \in those \cup {0} /\ \A r \in those : r <= n
  BY <1>3, <1>4
<1> HIDE DEF n
<1>6. n \in Nat
  BY <1>1, <1>2, <1>5
<1>7. (n # 0 => n \in DOMAIN flowRuns /\ flowRuns[n] \in ends) /\ \A r \in DOMAIN flowRuns : flowRuns[r] \in ends => r <= n
  BY <1>5 DEF those
<1> QED
  BY <1>6, <1>7 DEF n

\* What the server's read is made of.
LEMMA ReadFields ==
  /\ NoRead \in LatestRead /\ Asked \in LatestRead /\ NoRead.at = "none" /\ Asked.at = "asked"
  /\ Holds(NoRead.latest) /\ Holds(Asked.latest) /\ Holds(NoBanner)
BY DEF NoRead, Asked, NoBanner, NoAttempts, LatestRead, Holds

LEMMA ReadOn ==
  ASSUME asking \in LatestRead, NEW to \in {"picked", "counted", "answered"},
         NEW latest \in [run : Nat, newer : Nat, failed : SUBSET Nat, since : SUBSET Nat],
         asking' = [asking EXCEPT !.at = to, !.latest = latest]
  PROVE  asking' \in LatestRead /\ asking'.at = to /\ asking'.latest = latest
BY DEF LatestRead

-----------------------------------------------------------------------------
\* The fields of a viewer that is mounted, or probes another time.
LEMMA MountedFields ==
  ASSUME NEW entry \in Nat \X Nat, NEW url \in Url
  PROVE  /\ Mounted(entry, url) \in ViewerType
         /\ Mounted(entry, url).entry = entry /\ Mounted(entry, url).url = url
         /\ Mounted(entry, url).frame = <<0, 0>>
BY DEF Mounted, NoViewer, ViewerType, Url, Bare

LEMMA ProbingFields ==
  ASSUME NEW v \in ViewerType, NEW url \in Url
  PROVE  /\ Probing(v, url) \in ViewerType
         /\ Probing(v, url).entry = v.entry /\ Probing(v, url).url = url
         /\ Probing(v, url).frame = <<0, 0>>
<1>1. (IF v.probe \in {"ok", "failed"} THEN v.probe ELSE v.stray) \in {"none", "ok", "failed"}
  BY DEF ViewerType
<1> QED
  BY <1>1 DEF Probing, ViewerType

LEMMA NoViewerFields ==
  /\ NoViewer \in ViewerType /\ NoViewer.frame = <<0, 0>> /\ NoViewer.probe = "none" /\ NoViewer.stray = "none"
  /\ NoViewer.phase = "rendering" /\ NoViewer.busy = FALSE
BY DEF NoViewer, ViewerType, Url, Bare

\* The address of a row, by its kind.
LEMMA SrcIs ==
  ASSUME NEW out \in [Notebook -> Nat], NEW entry \in Nat \X Nat, entry[1] \in Notebook
  PROVE  /\ Src(out, entry) \in Url /\ Src(out, entry).kind \in {"bare", "task", "attempt"}
         /\ Src(out, entry).kind = "bare" =>
              With(out) = {entry[1]} /\ out[entry[1]] = 1 /\ Src(out, entry) = Bare
         /\ Src(out, entry).kind = "task" => entry[2] = out[entry[1]] /\ Src(out, entry) = ByTask(entry[1])
         /\ Src(out, entry).kind = "attempt" => Src(out, entry) = ByAttempt(entry[1], entry[2])
<1>1. entry[1] \in Nat /\ entry[2] \in Nat
  OBVIOUS
<1>2. CASE With(out) = {entry[1]} /\ out[entry[1]] = 1
  BY <1>1, <1>2 DEF Src, Bare, Url
<1>3. CASE ~(With(out) = {entry[1]} /\ out[entry[1]] = 1)
  <2>1. Src(out, entry) = ReportUrl(out, entry[1], entry[2])
    BY <1>3 DEF Src
  <2>2. CASE entry[2] = out[entry[1]]
    BY <1>1, <2>1, <2>2 DEF ReportUrl, ByTask, Url
  <2>3. CASE entry[2] # out[entry[1]]
    BY <1>1, <2>1, <2>3 DEF ReportUrl, ByAttempt, Url
  <2> QED
    BY <2>2, <2>3
<1> QED
  BY <1>2, <1>3

\* What React keeps or mounts fits the list it is rendered from.
LEMMA ViewerFits ==
  ASSUME ReportTypes, Framed(viewer), NEW out, out = NoOutputs \/ Had(out),
         NEW lost \in BOOLEAN, NEW key, NEW pick
  PROVE  /\ Viewer(out, lost, key, pick) \in ViewerType
         /\ Fits(Viewer(out, lost, key, pick), out, lost) /\ Framed(Viewer(out, lost, key, pick))
<1> DEFINE v == Viewer(out, lost, key, pick)
           t == EffectiveOpen(out, key)
           entry == Entry(out, pick, t)
           url == Src(out, entry)
           none == lost \/ out = NoOutputs \/ With(out) = {} \/ t \notin With(out)
<1>1. CASE none
  <2>1. v = NoViewer
    BY <1>1 DEF Viewer
  <2> QED
    BY <2>1, NoViewerFields DEF Fits, Framed
<1>2. CASE ~none
  <2>1. /\ ~lost /\ out # NoOutputs /\ out \in [Notebook -> Nat]
        /\ t \in With(out) /\ t \in Notebook /\ t \in Nat /\ out[t] \in Nat \ {0}
    <3>1. ~lost /\ out # NoOutputs /\ out \in [Notebook -> Nat] /\ t \in With(out)
      BY <1>2 DEF Had
    <3> HIDE DEF t
    <3>2. t \in Notebook /\ out[t] > 0
      BY <3>1 DEF With
    <3>3. t \in Nat /\ out[t] \in Nat
      BY <3>1, <3>2, ReportAssumption
    <3> QED
      BY <3>1, <3>2, <3>3
  <2> HIDE DEF t
  <2>2. entry = <<t, entry[2]>> /\ entry[1] = t /\ entry[2] \in 1 .. out[t]
    BY <2>1 DEF Entry
  <2>3. entry \in Nat \X Nat
    BY <2>1, <2>2
  <2>4. url \in Url
    BY <2>1, <2>2, <2>3, SrcIs
  <2>5. v = CASE viewer.entry # entry -> Mounted(entry, url)
              [] viewer.entry = entry /\ viewer.url # url -> Probing(viewer, url)
              [] OTHER -> viewer
    BY <1>2 DEF Viewer, t
  <2>6. viewer \in ViewerType
    BY DEF ReportTypes
  <2> HIDE DEF entry, url, v
  <2>7. v \in ViewerType /\ v.entry = entry /\ v.url = url /\ Framed(v)
    <3>1. CASE viewer.entry # entry
      <4>1. v = Mounted(entry, url)
        BY <2>5, <3>1
      <4> QED
        BY <2>3, <2>4, <4>1, MountedFields DEF Framed
    <3>2. CASE viewer.entry = entry /\ viewer.url # url
      <4>1. v = Probing(viewer, url)
        BY <2>5, <3>2
      <4> QED
        BY <2>4, <2>6, <3>2, <4>1, ProbingFields DEF Framed
    <3>3. CASE viewer.entry = entry /\ viewer.url = url
      <4>1. v = viewer
        BY <2>5, <3>3
      <4> QED
        BY <2>6, <3>3, <4>1
    <3> QED
      BY <3>1, <3>2, <3>3
  <2>8. Fits(v, out, lost)
    BY <2>1, <2>2, <2>7 DEF Fits, url
  <2> QED
    BY <2>7, <2>8 DEF v
<1> QED
  BY <1>1, <1>2

-----------------------------------------------------------------------------
LEMMA InitReport == ReportInit => ReportInv
<1> SUFFICES ASSUME ReportInit PROVE ReportInv
  OBVIOUS
<1>1. ReportTypes
  <2>1. MaxTries \in Nat /\ ranDb \in [Notebook -> 0 .. MaxTries]
    BY ReportAssumption DEF ReportInit, NoAttempts
  <2>2. flowRuns \in [1 .. MaxFlowRuns -> {"live", "notebook", "plain", "failed"}]
    BY DEF ReportInit
  <2>3. viewer \in ViewerType
    BY NoViewerFields DEF ReportInit
  <2> QED
    BY <2>1, <2>2, <2>3 DEF ReportInit, ReportTypes
<1>2. ListsFollow
  BY ReportAssumption DEF ReportInit, ListsFollow, Had, NoAttempts, RunNow, Asked, NoRead
<1>3. ViewerFollows /\ LatestFollows
  <2>1. viewer = NoViewer /\ banner = NoBanner /\ outputs = NoOutputs /\ asking = Asked
    BY DEF ReportInit
  <2>2. ViewerFollows
    BY <2>1, NoViewerFields DEF ViewerFollows, Fits, Framed
  <2>3. LatestFollows
    BY <2>1, ReadFields, NoViewerFields DEF LatestFollows
  <2> QED
    BY <2>2, <2>3
<1> QED
  BY <1>1, <1>2, <1>3 DEF ReportInv

\* The run's attempts only grow in number.
LEMMA HadStays ==
  ASSUME NEW list, Had(list), \A t \in Notebook : ranDb[t] \in Nat /\ ranDb'[t] \in Nat /\ ranDb[t] <= ranDb'[t]
  PROVE  Had(list)'
BY DEF Had

LEMMA FramedStays ==
  ASSUME Framed(viewer), viewer' = viewer, viewer \in ViewerType, Fits(viewer, outputs, outputsLost),
         \A t \in Notebook : ranDb[t] \in Nat /\ ranDb'[t] \in Nat /\ ranDb[t] <= ranDb'[t]
  PROVE  Framed(viewer)'
<1>1. CASE viewer.frame = <<0, 0>>
  BY <1>1 DEF Framed
<1>2. CASE viewer.frame # <<0, 0>>
  <2>1. viewer.entry[1] \in Notebook /\ viewer.frame[2] \in Nat
    BY <1>2, NoViewerFields DEF Fits, With, ViewerType
  <2> QED
    BY <2>1 DEF Framed
<1> QED
  BY <1>1, <1>2

LEMMA RunGoesOnFollows ==
  ASSUME ReportInv, RunGoesOn
  PROVE  ReportInv'
<1>1. ReportTypes /\ ListsFollow /\ ViewerFollows /\ LatestFollows
  BY DEF ReportInv
<1>2. UNCHANGED <<flowRuns, page, banner, seenRun, outputs, outputsLost, asking, openKey, pickedTry, viewer>>
  BY DEF RunGoesOn
<1>3. /\ ranDb' \in [Notebook -> 0 .. MaxTries] /\ liveDb' \subseteq Notebook
      /\ \A t \in liveDb' : ranDb'[t] < MaxTries
      /\ \A t \in Notebook : ranDb[t] <= ranDb'[t]
  <2>1. /\ ranDb \in [Notebook -> 0 .. MaxTries] /\ liveDb \subseteq Notebook /\ MaxTries \in Nat
        /\ \A t \in liveDb : ranDb[t] < MaxTries
    BY <1>1, ReportAssumption DEF ReportTypes
  <2>2. ASSUME NEW t \in Notebook \ liveDb, ranDb[t] < MaxTries, liveDb' = liveDb \cup {t}, ranDb' = ranDb
        PROVE  <1>3!:
    BY <2>1, <2>2
  <2>3. ASSUME NEW t \in liveDb, liveDb' = liveDb \ {t}, ranDb' = [ranDb EXCEPT ![t] = @ + 1]
        PROVE  <1>3!:
    <3>1. \A u \in Notebook : ranDb'[u] = IF u = t THEN ranDb[u] + 1 ELSE ranDb[u]
      BY <2>1, <2>3
    <3>2. ranDb[t] + 1 \in 0 .. MaxTries
      BY <2>1
    <3>3. ranDb' \in [Notebook -> 0 .. MaxTries]
      BY <2>1, <2>3, <3>2
    <3>4. \A u \in liveDb' : u # t /\ u \in liveDb
      BY <2>3
    <3> QED
      BY <2>1, <2>3, <3>1, <3>3, <3>4
  <2>4. CASE UNCHANGED <<ranDb, liveDb>>
    BY <2>1, <2>4
  <2> QED
    BY <2>2, <2>3, <2>4 DEF RunGoesOn
<1>4. \A t \in Notebook : ranDb[t] \in Nat /\ ranDb'[t] \in Nat /\ ranDb[t] <= ranDb'[t]
  BY <1>1, <1>3 DEF ReportTypes
<1>5. ReportTypes'
  BY <1>1, <1>2, <1>3 DEF ReportTypes
<1>6. ASSUME NEW list, Had(list) PROVE Had(list)'
  BY <1>4, <1>6, HadStays
<1>7. ListsFollow'
  BY <1>1, <1>2, <1>6 DEF ListsFollow, Had
<1>8. ViewerFollows'
  <2>1. ASSUME page # "latest" PROVE Fits(viewer, outputs, outputsLost)' /\ Framed(viewer)'
    BY <1>1, <1>2, <1>4, <2>1, FramedStays DEF ViewerFollows, ReportTypes, Fits
  <2> QED
    BY <1>2, <2>1 DEF ViewerFollows
<1>9. LatestFollows'
  BY <1>1, <1>2 DEF LatestFollows, Holds, Picked
<1> QED
  BY <1>5, <1>7, <1>8, <1>9 DEF ReportInv

\* The page reads the run again.
LEMMA SeeRunFollows ==
  ASSUME ReportInv, SeeRun
  PROVE  ReportInv'
<1>1. ReportTypes /\ ListsFollow /\ ViewerFollows /\ LatestFollows
  BY DEF ReportInv
<1>2. /\ page = "run" /\ asking' = Asked /\ outputsLost' = FALSE
      /\ seenRun' = RunNow
      /\ UNCHANGED <<ranDb, liveDb, flowRuns, page, banner>>
  BY DEF SeeRun, reportDb
<1>3. \/ outputs' = NoOutputs /\ viewer' = NoViewer
      \/ outputs' = outputs /\ viewer' = Viewer(outputs, FALSE, openKey, pickedTry)
  BY DEF SeeRun
<1>4. outputs = NoOutputs \/ Had(outputs)
  BY <1>1 DEF ListsFollow
<1>5. viewer' \in ViewerType /\ Fits(viewer', outputs', FALSE) /\ Framed(viewer')
  <2>1. CASE viewer' = NoViewer
    BY <2>1, NoViewerFields DEF Fits, Framed
  <2>2. CASE outputs' = outputs /\ viewer' = Viewer(outputs, FALSE, openKey, pickedTry)
    BY <1>1, <1>2, <1>4, <2>2, ViewerFits DEF ViewerFollows
  <2> QED
    BY <1>3, <2>1, <2>2
<1>6. ReportTypes'
  BY <1>1, <1>2, <1>5 DEF ReportTypes
<1>7. ListsFollow'
  <2>1. Had(seenRun'.ran)
    BY <1>1, <1>2 DEF RunNow, Had, ReportTypes
  <2>2. outputs' = NoOutputs \/ Had(outputs')
    BY <1>3, <1>4
  <2>3. asking'.at = "asked" /\ asking' # NoRead
    BY <1>2 DEF Asked, NoRead
  <2> QED
    BY <1>2, <2>1, <2>2, <2>3 DEF ListsFollow, Had
<1>8. ViewerFollows'
  BY <1>2, <1>5 DEF ViewerFollows, Fits, Framed
<1>9. LatestFollows'
  BY <1>1, <1>2 DEF LatestFollows, Holds, Picked
<1> QED
  BY <1>6, <1>7, <1>8, <1>9 DEF ReportInv

\* The list of reports is answered, lands or is lost.
LEMMA OutputsFollow ==
  ASSUME ReportInv, AnswerOutputs \/ LandOutputs \/ LoseOutputs
  PROVE  ReportInv'
<1>1. ReportTypes /\ ListsFollow /\ ViewerFollows /\ LatestFollows
  BY DEF ReportInv
<1>2. UNCHANGED <<ranDb, liveDb, flowRuns, page, banner, seenRun>>
  BY DEF AnswerOutputs, LandOutputs, LoseOutputs, reportDb
<1>3. Had(ranDb) /\ Had(seenRun.ran) /\ (outputs = NoOutputs \/ Had(outputs))
  BY <1>1 DEF Had, ReportTypes, ListsFollow
<1>4. CASE AnswerOutputs
  <2>1. /\ page # "latest" /\ asking'.at = "answered" /\ asking'.ran = ranDb /\ asking' # NoRead
        /\ UNCHANGED <<outputs, outputsLost, viewer>>
    BY <1>4 DEF AnswerOutputs, Asked, NoRead
  <2>2. ReportTypes'
    BY <1>1, <1>2, <2>1 DEF ReportTypes
  <2>3. ListsFollow'
    BY <1>2, <1>3, <2>1 DEF ListsFollow, Had
  <2>4. ViewerFollows' /\ LatestFollows'
    BY <1>1, <1>2, <2>1 DEF ViewerFollows, Fits, Framed, LatestFollows, Holds, Picked
  <2> QED
    BY <2>2, <2>3, <2>4 DEF ReportInv
<1>5. CASE LandOutputs
  <2>1. /\ page # "latest" /\ asking' = NoRead /\ outputs' = asking.ran /\ outputsLost' = outputsLost
        /\ viewer' = Viewer(outputs', outputsLost, openKey, pickedTry)
        /\ asking.at = "answered"
    BY <1>5 DEF LandOutputs
  <2>2. Had(outputs') /\ (page = "run" => \A t \in Notebook : seenRun.ran[t] <= outputs'[t])
    BY <1>1, <2>1 DEF ListsFollow
  <2>3. viewer' \in ViewerType /\ Fits(viewer', outputs', outputsLost) /\ Framed(viewer')
    BY <1>1, <2>1, <2>2, ViewerFits DEF ViewerFollows, ReportTypes
  <2>4. ReportTypes'
    BY <1>1, <1>2, <2>1, <2>3 DEF ReportTypes
  <2>5. ListsFollow'
    BY <1>2, <1>3, <2>1, <2>2 DEF ListsFollow, Had, NoRead
  <2>6. ViewerFollows' /\ LatestFollows'
    BY <1>1, <1>2, <2>1, <2>3 DEF ViewerFollows, Fits, Framed, LatestFollows, Holds, Picked
  <2> QED
    BY <2>4, <2>5, <2>6 DEF ReportInv
<1>6. CASE LoseOutputs
  <2>1. asking' = NoRead /\ outputsLost' = TRUE /\ viewer' = NoViewer /\ outputs' = outputs
    BY <1>6 DEF LoseOutputs
  <2>2. ReportTypes'
    BY <1>1, <1>2, <2>1, NoViewerFields DEF ReportTypes
  <2>3. ListsFollow'
    BY <1>2, <1>3, <2>1 DEF ListsFollow, Had, NoRead
  <2>4. ViewerFollows' /\ LatestFollows'
    BY <1>1, <1>2, <2>1, ReadFields, NoViewerFields DEF ViewerFollows, Fits, Framed, LatestFollows, Holds, Picked
  <2> QED
    BY <2>2, <2>3, <2>4 DEF ReportInv
<1> QED
  BY <1>4, <1>5, <1>6

\* Runs of the workflow end, also while the server is between two statements.
LEMMA FlowRunMovesKeeps ==
  ASSUME ReportInv, FlowRunMoves
  PROVE  ReportInv'
<1>1. ReportTypes /\ ListsFollow /\ ViewerFollows /\ LatestFollows
  BY DEF ReportInv
<1>2. page = "latest" /\ UNCHANGED <<ranDb, liveDb, page, seenRun, outputs, banner, outputsLost, viewer>>
  BY DEF FlowRunMoves
<1>3. ViewerFollows' /\ ListsFollow'
  BY <1>1, <1>2 DEF ViewerFollows, ListsFollow, Had
<1>4. PICK r \in DOMAIN flowRuns :
        /\ \/ flowRuns[r] = "live" /\ \E end \in {"notebook", "plain", "failed"} : flowRuns' = [flowRuns EXCEPT ![r] = end]
           \/ flowRuns[r] = "failed" /\ flowRuns' = [flowRuns EXCEPT ![r] = "live"]
        /\ asking' = IF asking.at \in {"picked", "counted"} THEN [asking EXCEPT !.latest.since = @ \cup {r}] ELSE asking
  BY DEF FlowRunMoves
<1>5. /\ flowRuns \in [1 .. MaxFlowRuns -> {"live", "notebook", "plain", "failed"}] /\ r \in Nat
      /\ asking \in LatestRead
  BY <1>1, <1>2, ReportAssumption DEF ReportTypes, LatestFollows
<1>6. /\ flowRuns' \in [1 .. MaxFlowRuns -> {"live", "notebook", "plain", "failed"}]
      /\ DOMAIN flowRuns' = DOMAIN flowRuns
      /\ \A q \in DOMAIN flowRuns : flowRuns[q] \in {"notebook", "plain"} => flowRuns'[q] = flowRuns[q]
      /\ \A q \in DOMAIN flowRuns : q # r => flowRuns'[q] = flowRuns[q]
  BY <1>4, <1>5
<1>7. ReportTypes'
  BY <1>1, <1>2, <1>6 DEF ReportTypes
<1>8. /\ asking' \in LatestRead /\ asking'.at = asking.at
      /\ asking.at = "answered" => asking'.latest = asking.latest
      /\ asking.at \in {"picked", "counted"} =>
           /\ asking'.latest.run = asking.latest.run /\ asking'.latest.newer = asking.latest.newer
           /\ asking'.latest.since = asking.latest.since \cup {r}
  <2>1. CASE asking.at \in {"picked", "counted"}
    <3>1. PICK latest : latest = [asking.latest EXCEPT !.since = @ \cup {r}]
      OBVIOUS
    <3>2. asking' = [asking EXCEPT !.latest = latest]
      BY <1>4, <2>1, <3>1
    <3>3. asking.latest \in [run : Nat, newer : Nat, failed : SUBSET Nat, since : SUBSET Nat]
      BY <1>5 DEF LatestRead
    <3>4. /\ latest \in [run : Nat, newer : Nat, failed : SUBSET Nat, since : SUBSET Nat]
          /\ latest.run = asking.latest.run /\ latest.newer = asking.latest.newer
          /\ latest.since = asking.latest.since \cup {r}
      BY <1>5, <3>1, <3>3
    <3>5. asking' \in LatestRead /\ asking'.at = asking.at /\ asking'.latest = latest
      BY <1>5, <3>2, <3>4 DEF LatestRead
    <3> QED
      BY <2>1, <3>4, <3>5
  <2>2. CASE asking.at \notin {"picked", "counted"}
    BY <1>4, <1>5, <2>2
  <2> QED
    BY <2>1, <2>2
<1>9. ASSUME NEW said, Holds(said) PROVE Holds(said)'
  BY <1>6, <1>9 DEF Holds
<1>10. asking.at \in {"picked", "counted"} => Picked(asking.latest)'
  BY <1>1, <1>2, <1>6, <1>8 DEF LatestFollows, Picked
<1>11. LatestFollows'
  BY <1>1, <1>2, <1>8, <1>9, <1>10 DEF LatestFollows, Holds, Picked
<1> QED
  BY <1>3, <1>7, <1>11 DEF ReportInv

\* The statements of an answer.
LEMMA MetaKeeps ==
  ASSUME ReportInv, PickRun \/ CountFailures \/ NameNewer
  PROVE  ReportInv'
<1>1. ReportTypes /\ ListsFollow /\ ViewerFollows /\ LatestFollows
  BY DEF ReportInv
<1>2. page = "latest" /\ UNCHANGED <<ranDb, liveDb, flowRuns, page, seenRun, outputs, banner, outputsLost, viewer>>
  BY DEF PickRun, CountFailures, NameNewer, LatestReportMeta, reportDb
<1>3. ViewerFollows' /\ ListsFollow'
  BY <1>1, <1>2 DEF ViewerFollows, ListsFollow, Had
<1>4. ReportTypes'
  BY <1>1, <1>2 DEF ReportTypes
<1>5. asking \in LatestRead /\ asking.latest \in [run : Nat, newer : Nat, failed : SUBSET Nat, since : SUBSET Nat]
  BY <1>1, <1>2 DEF LatestFollows, LatestRead
<1>6. ASSUME asking' \in LatestRead,
             asking'.at = "answered" => Holds(asking'.latest),
             asking'.at \in {"picked", "counted"} => Picked(asking'.latest)
      PROVE  ReportInv'
  <2>1. LatestFollows'
    BY <1>1, <1>2, <1>6 DEF LatestFollows, Holds, Picked
  <2> QED
    BY <1>3, <1>4, <2>1 DEF ReportInv
<1>7. DOMAIN flowRuns \subseteq Nat
  BY <1>1, ReportAssumption DEF ReportTypes
<1>8. CASE PickRun
  <2>1. PICK run : run = NewestWith({"notebook"})
    OBVIOUS
  <2>2. PICK to : to = IF run = 0 THEN "answered" ELSE "picked"
    OBVIOUS
  <2>3. PICK latest : latest = [NoBanner EXCEPT !.run = run]
    OBVIOUS
  <2>4. asking' = [asking EXCEPT !.at = to, !.latest = latest]
    BY <1>8, <2>1, <2>2, <2>3 DEF PickRun, LatestReportMeta
  <2>5. /\ run \in Nat /\ (run # 0 => run \in DOMAIN flowRuns /\ flowRuns[run] = "notebook")
        /\ \A r \in DOMAIN flowRuns : flowRuns[r] = "notebook" => r <= run
    BY <1>1, <2>1, NewestIs
  <2>6. /\ latest \in [run : Nat, newer : Nat, failed : SUBSET Nat, since : SUBSET Nat]
        /\ latest.run = run /\ latest.newer = 0
    BY <2>3, <2>5 DEF NoBanner
  <2>7. asking' \in LatestRead /\ asking'.at = to /\ asking'.latest = latest
    BY <1>5, <2>2, <2>4, <2>6, ReadOn
  <2>8. Holds(latest) /\ (to = "picked" => Picked(latest))
    BY <1>7, <2>2, <2>5, <2>6 DEF Holds, Picked
  <2> QED
    BY <1>6, <2>2, <2>7, <2>8
<1>9. CASE CountFailures
  <2>1. PICK failures : failures = {r \in DOMAIN flowRuns : r > asking.latest.run /\ flowRuns[r] = "failed"}
    OBVIOUS
  <2>2. PICK latest : latest = [asking.latest EXCEPT !.failed = failures]
    OBVIOUS
  <2>3. asking' = [asking EXCEPT !.at = "counted", !.latest = latest] /\ asking.at = "picked"
    BY <1>9, <2>1, <2>2 DEF CountFailures, LatestReportMeta
  <2>4. failures \subseteq Nat
    BY <1>7, <2>1
  <2>5. /\ latest \in [run : Nat, newer : Nat, failed : SUBSET Nat, since : SUBSET Nat]
        /\ latest.run = asking.latest.run /\ latest.newer = asking.latest.newer /\ latest.since = asking.latest.since
    BY <1>5, <2>2, <2>4
  <2>6. asking' \in LatestRead /\ asking'.at = "counted" /\ asking'.latest = latest
    BY <1>5, <2>3, <2>5, ReadOn
  <2>7. Picked(latest)
    BY <1>1, <1>2, <2>3, <2>5 DEF LatestFollows, Picked
  <2> QED
    BY <1>6, <2>6, <2>7
<1>10. CASE NameNewer
  <2>1. PICK newest : newest = NewestWith({"notebook", "plain"})
    OBVIOUS
  <2>2. PICK newer : newer = IF newest > asking.latest.run THEN newest ELSE 0
    OBVIOUS
  <2>3. PICK latest : latest = [asking.latest EXCEPT !.newer = newer]
    OBVIOUS
  <2>4. asking' = [asking EXCEPT !.at = "answered", !.latest = latest] /\ asking.at = "counted"
    BY <1>10, <2>1, <2>2, <2>3 DEF NameNewer, LatestReportMeta
  <2>5. newest \in Nat /\ (newest # 0 => newest \in DOMAIN flowRuns /\ flowRuns[newest] \in {"notebook", "plain"})
    BY <1>1, <2>1, NewestIs
  <2>6. /\ latest \in [run : Nat, newer : Nat, failed : SUBSET Nat, since : SUBSET Nat]
        /\ latest.run = asking.latest.run /\ latest.newer = newer /\ latest.since = asking.latest.since
    BY <1>5, <2>2, <2>3, <2>5
  <2>7. asking' \in LatestRead /\ asking'.at = "answered" /\ asking'.latest = latest
    BY <1>5, <2>4, <2>6, ReadOn
  <2>8. Picked(asking.latest)
    BY <1>1, <1>2, <2>4 DEF LatestFollows
  <2>9. Holds(latest)
    BY <1>5, <1>7, <2>2, <2>5, <2>6, <2>8 DEF Holds, Picked
  <2> QED
    BY <1>6, <2>7, <2>9
<1> QED
  BY <1>8, <1>9, <1>10

\* The answer lands, or says that there is no report.
LEMMA LandLatestKeeps ==
  ASSUME ReportInv, LandLatest
  PROVE  ReportInv'
<1>1. ReportTypes /\ ListsFollow /\ ViewerFollows /\ LatestFollows
  BY DEF ReportInv
<1>2. /\ page = "latest" /\ UNCHANGED <<ranDb, liveDb, page, seenRun, outputs>>
  BY DEF LandLatest, reportDb
<1>3. ViewerFollows' /\ ListsFollow'
  BY <1>1, <1>2 DEF ViewerFollows, ListsFollow, Had
<1>4. asking.at = "answered" /\ asking' = NoRead /\ flowRuns' = flowRuns /\ Holds(asking.latest)
  BY <1>1, <1>2 DEF LandLatest, reportDb, LatestFollows
<1>5. asking' \in LatestRead /\ asking'.at = "none"
  BY <1>4, ReadFields
<1>6. CASE asking.latest.run = 0
  <2>1. outputsLost' = TRUE /\ UNCHANGED <<banner, viewer>>
    BY <1>6 DEF LandLatest
  <2>2. ReportTypes' /\ LatestFollows'
    BY <1>1, <1>2, <1>4, <1>5, <2>1 DEF ReportTypes, LatestFollows, Holds, Picked
  <2> QED
    BY <1>3, <2>2 DEF ReportInv
<1>7. CASE asking.latest.run # 0
  <2>1. /\ banner' = asking.latest /\ outputsLost' = outputsLost
        /\ viewer' = Mounted(<<asking.latest.run, 0>>, LatestUrl)
    BY <1>7 DEF LandLatest
  <2>2. <<asking.latest.run, 0>> \in Nat \X Nat /\ LatestUrl \in Url
    BY <1>4 DEF Holds, LatestUrl, Url
  <2>3. viewer' \in ViewerType /\ viewer'.url = LatestUrl /\ viewer'.frame = <<0, 0>>
    BY <2>1, <2>2, MountedFields
  <2>4. ReportTypes'
    BY <1>1, <1>2, <1>4, <2>1, <2>3 DEF ReportTypes
  <2>5. LatestFollows'
    BY <1>1, <1>2, <1>4, <1>5, <2>1, <2>3 DEF LatestFollows, Holds, Picked
  <2> QED
    BY <1>3, <2>4, <2>5 DEF ReportInv
<1> QED
  BY <1>6, <1>7

LEMMA LatestStays ==
  ASSUME ReportInv, FlowRunMoves \/ PickRun \/ CountFailures \/ NameNewer \/ LandLatest
  PROVE  ReportInv'
BY FlowRunMovesKeeps, MetaKeeps, LandLatestKeeps

\* A step that leaves alone everything but the viewer and the reader's picks.
LEMMA ViewerOnly ==
  ASSUME ReportInv, UNCHANGED <<reportDb, page, banner, seenRun, outputs, outputsLost, asking>>,
         viewer' \in ViewerType,
         page # "latest" => Fits(viewer', outputs, outputsLost) /\ Framed(viewer'),
         page = "latest" => (viewer' = NoViewer \/ viewer'.url = LatestUrl)
                            /\ (viewer'.frame # <<0, 0>> => viewer'.frame[1] >= banner.run)
  PROVE  ReportInv'
<1>1. ReportTypes /\ ListsFollow /\ ViewerFollows /\ LatestFollows
  BY DEF ReportInv
<1>2. UNCHANGED <<ranDb, liveDb, flowRuns>>
  BY DEF reportDb
<1>3. ReportTypes' /\ ListsFollow'
  BY <1>1, <1>2 DEF ReportTypes, ListsFollow, Had
<1>4. ViewerFollows' /\ LatestFollows'
  BY <1>1, <1>2 DEF ViewerFollows, Fits, Framed, LatestFollows, Holds, Picked
<1> QED
  BY <1>3, <1>4 DEF ReportInv

LEMMA ReaderFollows ==
  ASSUME ReportInv, NEW t \in Notebook, ViewReport(t) \/ \E a \in 1 .. MaxTries : PickAttempt(t, a)
  PROVE  ReportInv'
<1>1. /\ ReportTypes /\ outputsLost \in BOOLEAN /\ (outputs = NoOutputs \/ Had(outputs))
      /\ page # "latest" => Framed(viewer)
      /\ page = "latest" => outputs = NoOutputs
  BY DEF ReportInv, ReportTypes, ListsFollow, ViewerFollows, LatestFollows
<1>2. /\ outputs # NoOutputs
      /\ UNCHANGED <<reportDb, page, banner, seenRun, outputs, outputsLost, asking>>
      /\ \E key, pick : viewer' = Viewer(outputs, outputsLost, key, pick)
  BY DEF ViewReport, PickAttempt, ReportRows
<1>3. viewer' \in ViewerType /\ Fits(viewer', outputs, outputsLost) /\ Framed(viewer')
  BY <1>1, <1>2, ViewerFits
<1> QED
  BY <1>1, <1>2, <1>3, ViewerOnly

\* A viewer that keeps its row and address, and its frame or none, stays as good.
LEMMA SameAddress ==
  ASSUME ReportInv, UNCHANGED <<reportDb, page, banner, seenRun, outputs, outputsLost, asking>>,
         viewer # NoViewer, viewer' \in ViewerType, viewer'.entry = viewer.entry, viewer'.url = viewer.url,
         viewer'.frame \in {viewer.frame, <<0, 0>>}
  PROVE  ReportInv'
<1>1. /\ page # "latest" => Fits(viewer, outputs, outputsLost) /\ Framed(viewer)
      /\ page = "latest" => viewer.url = LatestUrl /\ (viewer.frame # <<0, 0>> => viewer.frame[1] >= banner.run)
  BY DEF ReportInv, ViewerFollows, LatestFollows
<1>2. page # "latest" => Fits(viewer', outputs, outputsLost) /\ Framed(viewer')
  <2> SUFFICES ASSUME page # "latest" PROVE Fits(viewer', outputs, outputsLost) /\ Framed(viewer')
    OBVIOUS
  <2>1. Fits(viewer', outputs, outputsLost)
    BY <1>1 DEF Fits
  <2>2. CASE viewer'.frame = <<0, 0>>
    BY <2>1, <2>2 DEF Framed
  <2>3. CASE viewer'.frame = viewer.frame
    BY <1>1, <2>1, <2>3 DEF Framed
  <2> QED
    BY <2>1, <2>2, <2>3
<1>3. page = "latest" => viewer'.url = LatestUrl /\ (viewer'.frame # <<0, 0>> => viewer'.frame[1] >= banner.run)
  BY <1>1
<1> QED
  BY <1>2, <1>3, ViewerOnly

\* The frame loads what its address is taken for by now.
LEMMA FrameFollows ==
  ASSUME ReportInv, LoadFrame
  PROVE  ReportInv'
<1>1. /\ ReportTypes /\ viewer \in ViewerType /\ (outputs = NoOutputs \/ Had(outputs))
      /\ ranDb \in [Notebook -> Nat]
      /\ page # "latest" => Fits(viewer, outputs, outputsLost) /\ Framed(viewer)
      /\ page = "latest" => viewer = NoViewer \/ viewer.url = LatestUrl
      /\ Holds(banner)
  BY DEF ReportInv, ReportTypes, ListsFollow, ViewerFollows, LatestFollows
<1>2. /\ viewer' = [viewer EXCEPT !.frame = PickNotebook(viewer.url)]
      /\ UNCHANGED <<reportDb, page, banner, seenRun, outputs, outputsLost, asking>>
      /\ viewer # NoViewer
  BY NoViewerFields DEF LoadFrame, Shows
<1> DEFINE frame == PickNotebook(viewer.url)
<1>3. CASE page = "latest"
  <2>1. frame = <<NewestWith({"notebook"}), 0>>
    BY <1>1, <1>2, <1>3 DEF PickNotebook, LatestUrl
  <2>2. NewestWith({"notebook"}) \in Nat /\ NewestWith({"notebook"}) >= banner.run
    <3>1. /\ NewestWith({"notebook"}) \in Nat
          /\ \A r \in DOMAIN flowRuns : flowRuns[r] = "notebook" => r <= NewestWith({"notebook"})
      BY <1>1, NewestIs
    <3> QED
      BY <1>1, <3>1 DEF Holds
  <2> HIDE DEF frame
  <2>3. frame \in Nat \X Nat /\ frame[1] >= banner.run
    BY <2>1, <2>2
  <2>4. viewer' \in ViewerType /\ viewer'.url = LatestUrl /\ viewer'.frame = frame
    BY <1>1, <1>2, <1>3, <2>3 DEF ViewerType, frame
  <2> QED
    BY <1>2, <1>3, <2>3, <2>4, ViewerOnly
<1>4. CASE page # "latest"
  <2>1. /\ Had(outputs) /\ outputs \in [Notebook -> Nat] /\ Fits(viewer, outputs, outputsLost)
        /\ viewer.entry[1] \in With(outputs) /\ viewer.entry[1] \in Notebook
        /\ viewer.entry \in Nat \X Nat /\ viewer.entry = <<viewer.entry[1], viewer.entry[2]>>
        /\ viewer.url = Src(outputs, viewer.entry)
    BY <1>1, <1>2, <1>4 DEF Fits, Had, With, ViewerType
  <2>2. viewer.url.kind \in {"bare", "task", "attempt"}
    BY <2>1, SrcIs
  <2>3. frame \in Nat \X Nat /\ Framed([viewer EXCEPT !.frame = frame])
    <3>1. CASE viewer.url.kind = "bare"
      <4>1. With(ranDb) \subseteq Notebook /\ viewer.entry[1] \in With(ranDb)
        BY <1>1, <2>1 DEF With, Had
      <4>2. FirstOf(With(ranDb)) \in With(ranDb)
        BY <4>1, FirstIsOne
      <4>3. PICK t \in Notebook : t = FirstOf(With(ranDb)) /\ ranDb[t] > 0 /\ t \in Nat /\ ranDb[t] \in Nat
        BY <1>1, <4>2, ReportAssumption DEF With
      <4>4. frame = <<t, ranDb[t]>>
        BY <3>1, <4>3 DEF PickNotebook
      <4> HIDE DEF frame
      <4>5. frame \in Nat \X Nat /\ frame[1] = t /\ frame[2] = ranDb[t]
        BY <4>3, <4>4
      <4> QED
        BY <1>1, <3>1, <4>3, <4>5 DEF Framed, ViewerType
    <3>2. CASE viewer.url.kind = "task"
      <4>1. viewer.entry[2] = outputs[viewer.entry[1]] /\ viewer.url = ByTask(viewer.entry[1])
        BY <2>1, <3>2, SrcIs
      <4>2. frame = <<viewer.entry[1], ranDb[viewer.entry[1]]>>
        BY <4>1 DEF PickNotebook, ByTask
      <4>3. viewer.entry[1] \in Nat /\ ranDb[viewer.entry[1]] \in Nat /\ viewer.entry[2] <= ranDb[viewer.entry[1]]
        BY <1>1, <2>1, <4>1, ReportAssumption DEF Had
      <4> HIDE DEF frame
      <4>4. frame \in Nat \X Nat /\ frame[1] = viewer.entry[1] /\ frame[2] = ranDb[viewer.entry[1]]
        BY <4>2, <4>3
      <4> QED
        BY <1>1, <3>2, <4>3, <4>4 DEF Framed, ViewerType
    <3>3. CASE viewer.url.kind = "attempt"
      <4>1. viewer.url = ByAttempt(viewer.entry[1], viewer.entry[2])
        BY <2>1, <3>3, SrcIs
      <4>2. frame = viewer.entry
        BY <2>1, <4>1 DEF PickNotebook, ByAttempt
      <4> HIDE DEF frame
      <4> QED
        BY <1>1, <2>1, <3>3, <4>2 DEF Framed, ViewerType
    <3> QED
      BY <2>2, <3>1, <3>2, <3>3
  <2> HIDE DEF frame
  <2>4. viewer' = [viewer EXCEPT !.frame = frame]
    BY <1>2 DEF frame
  <2>5. viewer' \in ViewerType /\ viewer'.entry = viewer.entry /\ viewer'.url = viewer.url /\ Framed(viewer')
    BY <1>1, <2>3, <2>4 DEF ViewerType
  <2>6. Fits(viewer', outputs, outputsLost)
    BY <1>2, <2>1, <2>5 DEF Fits
  <2> QED
    BY <1>2, <1>4, <2>5, <2>6, ViewerOnly
<1> QED
  BY <1>3, <1>4

LEMMA ViewerStepFollows ==
  ASSUME ReportInv, Rerender \/ Rerendered \/ AnswerProbe \/ LandProbe \/ LandStray
  PROVE  ReportInv'
<1>1. viewer \in ViewerType /\ viewer.url \in Url
  BY DEF ReportInv, ReportTypes, ViewerType
<1>2. UNCHANGED <<reportDb, page, banner, seenRun, outputs, outputsLost, asking>>
  BY DEF Rerender, Rerendered, AnswerProbe, LandProbe, LandStray, Shows
<1>3. viewer # NoViewer
  BY NoViewerFields DEF Rerender, Rerendered, AnswerProbe, LandProbe, LandStray
<1>4. /\ viewer' \in ViewerType /\ viewer'.entry = viewer.entry /\ viewer'.url = viewer.url
      /\ viewer'.frame \in {viewer.frame, <<0, 0>>}
  <2>1. CASE Rerender
    BY <1>1, <2>1 DEF Rerender, ViewerType
  <2>2. CASE Rerendered
    <3>1. PICK v \in ViewerType : v = Probing(viewer, viewer.url) /\ v.entry = viewer.entry
                                 /\ v.url = viewer.url /\ v.frame = <<0, 0>>
      BY <1>1, ProbingFields
    <3>2. viewer' = [v EXCEPT !.busy = FALSE]
      BY <2>2, <3>1 DEF Rerendered, Shows
    <3> QED
      BY <3>1, <3>2 DEF ViewerType
  <2>3. CASE AnswerProbe
    BY <1>1, <2>3 DEF AnswerProbe, Shows, ViewerType
  <2>4. CASE LandProbe
    BY <1>1, <2>4 DEF LandProbe, Shows, Said, ViewerType
  <2>5. CASE LandStray
    BY <1>1, <2>5 DEF LandStray, Shows, Said, ViewerType
  <2> QED
    BY <2>1, <2>2, <2>3, <2>4, <2>5
<1> QED
  BY <1>1, <1>2, <1>3, <1>4, SameAddress

LEMMA ReportStep ==
  ASSUME ReportInv, [ReportNext]_reportVars
  PROVE  ReportInv'
<1>1. CASE UNCHANGED reportVars
  <2>1. UNCHANGED <<reportDb, page, banner, seenRun, outputs, outputsLost, asking, viewer>>
    BY <1>1 DEF reportVars, reportDb
  <2> QED
    BY <2>1, ViewerOnly DEF ReportInv, ReportTypes, ViewerFollows, LatestFollows
<1>2. CASE ReportNext
  BY <1>2, RunGoesOnFollows, SeeRunFollows, OutputsFollow, LatestStays, ReaderFollows,
     ViewerStepFollows, FrameFollows DEF ReportNext
<1> QED
  BY <1>1, <1>2

\* A frame of the list that is the server's by now is of the row it is under.
LEMMA FrameIsTheRow ==
  ASSUME ReportInv, page # "latest", viewer.frame # <<0, 0>>, outputs = ranDb
  PROVE  viewer.frame = viewer.entry
<1>1. /\ viewer \in ViewerType /\ ranDb \in [Notebook -> Nat] /\ Had(outputs)
      /\ Fits(viewer, ranDb, outputsLost) /\ Framed(viewer)
  BY DEF ReportInv, ReportTypes, ViewerFollows, Had
<1>2. /\ viewer.entry \in Nat \X Nat /\ viewer.frame \in Nat \X Nat
      /\ viewer.entry[1] \in Notebook /\ viewer.entry[2] \in 1 .. ranDb[viewer.entry[1]]
      /\ viewer.url = Src(ranDb, viewer.entry)
  BY <1>1, NoViewerFields DEF Fits, With, ViewerType
<1>3. viewer.frame[1] = viewer.entry[1] /\ viewer.frame[2] = viewer.entry[2]
  <2>1. CASE viewer.url.kind = "bare"
    <3>1. With(ranDb) = {viewer.entry[1]} /\ ranDb[viewer.entry[1]] = 1
      BY <1>1, <1>2, <2>1, SrcIs
    <3>2. viewer.frame[1] \in Notebook /\ 1 <= viewer.frame[2] /\ viewer.frame[2] <= ranDb[viewer.frame[1]]
      BY <1>1, <2>1 DEF Framed
    <3>3. viewer.frame[1] \in With(ranDb)
      BY <1>1, <1>2, <3>2 DEF With
    <3> QED
      BY <1>1, <1>2, <3>1, <3>2, <3>3
  <2>2. CASE viewer.url.kind = "task"
    BY <1>1, <1>2, <2>2, SrcIs DEF Framed
  <2>3. CASE viewer.url.kind = "attempt"
    BY <1>1, <2>3 DEF Framed
  <2> QED
    BY <1>1, <1>2, <2>1, <2>2, <2>3, SrcIs
<1> QED
  BY <1>2, <1>3

(* ReportIsTheRows for any number of notebooks, attempts, runs, reads and probes  *)
(* (ReportPanel.tsx, reports.py): every attempt shown as finished is listed, the  *)
(* frame under a row is that row's, a latest link never frames an older run, and  *)
(* a newer run it says has no notebook has none or ended while that was found out. *)
THEOREM ReportsAreTheRows == ReportSpec => []ReportIsTheRows
<1>1. ASSUME ReportInv PROVE ReportIsTheRows
  <2>1. ReportTypes /\ ListsFollow /\ LatestFollows
    BY <1>1 DEF ReportInv
  <2>2. ASSUME page = "run", asking = NoRead, ~outputsLost, NEW t \in Notebook
        PROVE  seenRun.ran[t] <= outputs[t]
    <3>1. CASE outputs = NoOutputs
      <4>1. seenRun.ran[t] \in Nat /\ ranDb[t] \in 0 .. MaxTries /\ seenRun.ran[t] <= ranDb[t] /\ MaxTries \in Nat
        BY <2>1, ReportAssumption DEF ListsFollow, Had, ReportTypes
      <4> QED
        BY <3>1, <4>1 DEF NoOutputs
    <3>2. CASE outputs # NoOutputs
      BY <2>1, <2>2, <3>2 DEF ListsFollow
    <3> QED
      BY <3>1, <3>2
  <2>3. page # "latest" /\ viewer.frame # <<0, 0>> /\ outputs = ranDb => viewer.frame = viewer.entry
    BY <1>1, FrameIsTheRow
  <2>4. page = "latest" /\ viewer.frame # <<0, 0>> => viewer.frame[1] >= banner.run
    BY <2>1 DEF LatestFollows
  <2>5. banner.newer # 0 => flowRuns[banner.newer] = "plain" \/ banner.newer \in banner.since
    BY <2>1 DEF LatestFollows, Holds, Picked
  <2> QED
    BY <2>2, <2>3, <2>4, <2>5 DEF ReportIsTheRows
<1>2. ReportInv => ReportIsTheRows
  BY <1>1
<1> QED
  BY <1>2, InitReport, ReportStep, PTL DEF ReportSpec

-----------------------------------------------------------------------------
(* The wallboard.                                                          *)

RunRow == [flow : Flow, at : Nat, scheduled : BOOLEAN,
           status : {"queued", "running", "waiting_approval", "success", "failed", "cancelled"}]

\* Runs are listed newest first.
WallInv ==
  /\ time \in Nat
  /\ runsDb \in Seq(RunRow)
  /\ \A i \in DOMAIN runsDb : runsDb[i].at <= time
  /\ \A i, j \in DOMAIN runsDb : i <= j => runsDb[j].at <= runsDb[i].at

LEMMA RunRows ==
  ASSUME WallInv, NEW i \in DOMAIN runsDb
  PROVE  i \in Nat /\ runsDb[i] \in RunRow /\ runsDb[i].at \in Nat /\ time \in Nat /\ runsDb[i].at <= time
<1>1. runsDb \in Seq(RunRow) /\ time \in Nat /\ runsDb[i].at <= time
  BY DEF WallInv
<1>2. i \in Nat /\ runsDb[i] \in RunRow
  BY <1>1
<1>3. runsDb[i].at \in Nat
  BY <1>2 DEF RunRow
<1> QED
  BY <1>1, <1>2, <1>3

LEMMA InitWall == WallInit => WallInv
BY DEF WallInit, WallInv

LEMMA Pushed ==
  ASSUME NEW S, NEW s \in Seq(S), NEW e \in S
  PROVE  /\ <<e>> \o s \in Seq(S) /\ Len(<<e>> \o s) = Len(s) + 1
         /\ (<<e>> \o s)[1] = e
         /\ \A i \in 2 .. Len(s) + 1 : (<<e>> \o s)[i] = s[i - 1]
OBVIOUS

LEMMA EnqueueKeepsOrder ==
  ASSUME WallInv, time' \in Nat, time <= time', NEW f \in Flow, NEW scheduled \in BOOLEAN,
         Enqueue(f, time', scheduled)
  PROVE  WallInv'
<1> DEFINE row == [flow |-> f, at |-> time', scheduled |-> scheduled, status |-> "queued"]
<1>1. row \in RunRow /\ row.at = time' /\ time' \in Nat
  BY DEF RunRow
<1>2. runsDb' = <<row>> \o runsDb /\ runsDb \in Seq(RunRow) /\ time \in Nat
  BY DEF Enqueue, WallInv
<1> HIDE DEF row
<1>3. /\ runsDb' \in Seq(RunRow) /\ Len(runsDb') = Len(runsDb) + 1 /\ runsDb'[1] = row
      /\ \A i \in 2 .. Len(runsDb) + 1 : runsDb'[i] = runsDb[i - 1]
  BY <1>1, <1>2, Pushed
<1>4. /\ DOMAIN runsDb = 1 .. Len(runsDb) /\ DOMAIN runsDb' = 1 .. Len(runsDb) + 1 /\ Len(runsDb) \in Nat
  BY <1>2, <1>3
<1>5. ASSUME NEW i \in DOMAIN runsDb'
      PROVE  runsDb'[i].at \in Nat /\ runsDb'[i].at <= time' /\ (i # 1 => i - 1 \in DOMAIN runsDb /\ runsDb'[i] = runsDb[i - 1])
  <2>1. CASE i = 1
    <3>1. runsDb'[i].at = time'
      BY <1>1, <1>3, <2>1
    <3> QED
      BY <1>1, <2>1, <3>1
  <2>2. CASE i # 1
    <3>1. i - 1 \in DOMAIN runsDb /\ runsDb'[i] = runsDb[i - 1]
      BY <1>3, <1>4, <2>2
    <3>2. runsDb[i - 1].at \in Nat /\ runsDb[i - 1].at <= time
      BY <3>1, RunRows
    <3> QED
      BY <1>1, <1>2, <2>2, <3>1, <3>2
  <2> QED
    BY <2>1, <2>2
<1>6. ASSUME NEW i \in DOMAIN runsDb', NEW j \in DOMAIN runsDb', i <= j
      PROVE  runsDb'[j].at <= runsDb'[i].at
  <2>1. CASE i = 1
    BY <1>1, <1>3, <1>5, <2>1
  <2>2. CASE i # 1
    <3>1. j # 1 /\ i - 1 <= j - 1
      BY <1>4, <1>6, <2>2
    <3> QED
      BY <1>5, <2>2, <3>1 DEF WallInv
  <2> QED
    BY <2>1, <2>2
<1> QED
  BY <1>3, <1>5, <1>6 DEF WallInv

LEMMA WallStep ==
  ASSUME WallInv, [WallNext]_wallVars
  PROVE  WallInv'
<1>1. CASE ClockTicks
  <2>1. time' \in Nat /\ time <= time' /\ time' = time + 1
    BY <1>1 DEF ClockTicks, WallInv
  <2>2. CASE UNCHANGED runsDb
    <3>1. /\ time \in Nat /\ runsDb \in Seq(RunRow)
          /\ \A i \in DOMAIN runsDb : runsDb[i].at \in Nat /\ runsDb[i].at <= time
      BY RunRows DEF WallInv
    <3>2. \A i \in DOMAIN runsDb : runsDb[i].at <= time + 1
      BY <3>1
    <3> QED
      BY <2>1, <2>2, <3>1, <3>2 DEF WallInv
  <2>3. CASE Enqueue(Cron, time + 1, TRUE)
    BY <2>1, <2>3, EnqueueKeepsOrder, WallboardAssumption
  <2> QED
    BY <1>1, <2>2, <2>3 DEF ClockTicks
<1>2. CASE RunByHand
  <2>1. time' = time /\ time \in Nat /\ \E f \in Flow : Enqueue(f, time, FALSE)
    BY <1>2 DEF RunByHand, WallInv
  <2>2. PICK f \in Flow : Enqueue(f, time, FALSE)
    BY <2>1
  <2>3. time' \in Nat /\ time <= time'
    BY <2>1
  <2>4. Enqueue(f, time', FALSE)
    BY <2>1, <2>2, Zenon DEF Enqueue
  <2> QED
    BY <2>3, <2>4, EnqueueKeepsOrder
<1>3. CASE RunMoves
  <2>1. PICK i \in DOMAIN runsDb : \E s \in Moves(runsDb[i].status) : runsDb' = [runsDb EXCEPT ![i].status = s]
    BY <1>3 DEF RunMoves
  <2>6. PICK s \in Moves(runsDb[i].status) : runsDb' = [runsDb EXCEPT ![i].status = s]
    BY <2>1
  <2>2. /\ time' = time /\ runsDb \in Seq(RunRow) /\ runsDb[i] \in RunRow
        /\ s \in {"queued", "running", "waiting_approval", "success", "failed", "cancelled"}
    BY <1>3 DEF RunMoves, Moves, WallInv
  <2>3. PICK row : row = [runsDb[i] EXCEPT !.status = s]
    OBVIOUS
  <2>4. row \in RunRow /\ row.at = runsDb[i].at /\ runsDb' = [runsDb EXCEPT ![i] = row]
    BY <2>6, <2>2, <2>3 DEF RunRow
  <2>5. runsDb' \in Seq(RunRow) /\ DOMAIN runsDb' = DOMAIN runsDb /\ \A j \in DOMAIN runsDb : runsDb'[j].at = runsDb[j].at
    BY <2>2, <2>4
  <2> QED
    BY <2>2, <2>5 DEF WallInv
<1>4. CASE SchedulerDies \/ EditSchedule \/ UNCHANGED wallVars
  BY <1>4 DEF SchedulerDies, EditSchedule, wallVars, WallInv
<1> QED
  BY <1>1, <1>2, <1>3, <1>4 DEF WallNext

\* The fire the board waits for is one that came too long ago.
LEMMA SilentIsOverdue ==
  ASSUME WallInv, schedule.enabled, Mine(Cron) # {}, Silent
  PROVE  Overdue(Cron)
<1>1. /\ Mine(Cron) \subseteq DOMAIN runsDb /\ Mine(Cron) \subseteq Nat
      /\ \A i \in Mine(Cron) : runsDb[i].at \in Nat /\ runsDb[i].flow = Cron
  <2>1. \A i \in DOMAIN runsDb : i \in Nat /\ runsDb[i].at \in Nat
    BY RunRows
  <2> QED
    BY <2>1 DEF Mine, PageOfRuns
<1>2. PICK m \in Mine(Cron) : m = Newest(Mine(Cron)) /\ \A i \in Mine(Cron) : m <= i
  <2>1. \E i \in Mine(Cron) : \A j \in Mine(Cron) : i <= j
    BY <1>1, LeastNatural
  <2> QED
    BY <2>1 DEF Newest
<1>3. \A i \in Mine(Cron) : runsDb[i].at <= runsDb[m].at
  BY <1>1, <1>2 DEF WallInv
<1>4. PICK t \in FireTimes : t < time - Grace /\ \A i \in Mine(Cron) : runsDb[i].at < t
  BY <1>1 DEF Silent
<1> DEFINE after == {u \in FireTimes : u > runsDb[m].at}
           e == FirstFireAfter(runsDb[m].at)
<1>5. after \subseteq Nat /\ t \in after
  BY <1>2, <1>4, WallboardAssumption
<1>6. \E u \in FireTimes : u > runsDb[m].at /\ \A v \in FireTimes : v > runsDb[m].at => u <= v
  <2>1. PICK u \in after : \A v \in after : u <= v
    BY <1>5, LeastNatural
  <2> QED
    BY <2>1
<1>7. e = CHOOSE u \in FireTimes : u > runsDb[m].at /\ \A v \in FireTimes : v > runsDb[m].at => u <= v
  BY <1>6 DEF FirstFireAfter
<1>8. e \in FireTimes /\ e > runsDb[m].at /\ e <= t
  BY <1>5, <1>6, <1>7
<1> HIDE DEF e
<1>9. /\ e \in Nat /\ t \in Nat /\ Grace \in Nat /\ time \in Nat
  BY <1>8, WallboardAssumption DEF WallInv
<1>10. e < time - Grace /\ \A i \in Mine(Cron) : runsDb[i].at < e
  BY <1>1, <1>2, <1>3, <1>4, <1>8, <1>9
<1> QED
  BY <1>2, <1>10 DEF Overdue, e

(* DeadSchedulerShows for every schedule, grace, number of workflows and of runs     *)
(* read (App.tsx, the wallboard): a scheduler that owes a fire is never silent there. *)
THEOREM DeadSchedulerNoticed == WallSpec => []DeadSchedulerShows
<1>1. ASSUME WallInv PROVE DeadSchedulerShows
  <2> SUFFICES ASSUME schedule.enabled, Mine(Cron) # {}, Silent,
                      \A s \in LiveStatus \ {"queued"} : ~HasStatus(Mine(Cron), s)
               PROVE  /\ TileStatus(Cron) \in {"overdue", "failed"} /\ Mood = "attention" /\ Verdict \in {"failing", "overdue"}
                      /\ \A f \in Flow : TileStatus(f) \in {"success", "cancelled", "never", "queued"} => Leads(Cron, f)
    BY DEF DeadSchedulerShows
  <2>1. Overdue(Cron)
    BY <1>1, SilentIsOverdue
  <2>2. ~HasStatus(Mine(Cron), "waiting_approval") /\ ~HasStatus(Mine(Cron), "running")
    BY DEF LiveStatus
  <2>3. TileStatus(Cron) = IF Completed(Cron) # {} /\ LastEnd(Cron) = "failed" THEN "failed" ELSE "overdue"
    BY <2>1, <2>2 DEF TileStatus
  <2>4. TileStatus(Cron) \in {"overdue", "failed"}
    BY <2>3
  <2>5. Cron \in Flow /\ (Cron \in Tiled("failed") \/ Cron \in Tiled("overdue"))
    BY <2>4, WallboardAssumption DEF Tiled
  <2>6. Mood = "attention"
    BY <2>5 DEF Mood
  <2>7. Verdict \in {"failing", "overdue"}
    <3>1. CASE Tiled("failed") # {}
      BY <2>6, <3>1 DEF Verdict
    <3>2. CASE Tiled("failed") = {} /\ Tiled("overdue") # {}
      BY <2>6, <3>2 DEF Verdict
    <3> QED
      BY <2>5, <3>1, <3>2
  <2>8. ASSUME NEW f \in Flow, TileStatus(f) \in {"success", "cancelled", "never", "queued"} PROVE Leads(Cron, f)
    BY <2>4, <2>8 DEF Leads, WB_RANK
  <2> QED
    BY <2>4, <2>6, <2>7, <2>8
<1>2. WallInv => DeadSchedulerShows
  BY <1>1
<1> QED
  BY <1>2, InitWall, WallStep, PTL DEF WallSpec

-----------------------------------------------------------------------------
(* The retention pass.                                                     *)

Statuses == {"none", "live", "stopping", "deleted"} \cup Terminal
PassShape == [at : {"idle", "select", "delete", "ask", "remove", "list", "alive", "sweep"},
              cutoff : Nat, after : Nat, batch : SUBSET RunIds, left : SUBSET RunIds]

RunsFollow ==
  /\ runRow \in [RunIds -> Statuses] /\ finishedAt \in [RunIds -> Nat] /\ touched \in [RunIds -> Nat]
  /\ today \in Nat /\ runDirs \subseteq RunIds /\ \A r \in runDirs : runRow[r] # "none"
  /\ \A r \in RunIds : runRow[r] \in Terminal => touched[r] = finishedAt[r]
  /\ \A r \in RunIds : runRow[r] = "success" => r \in successes
  /\ \A r \in RunIds : r \in successes => runRow[r] \in {"success", "deleted"}

\* What a pass selected or found on disk has had a row; what it removes has none any more.
PassFollows(pass) ==
  /\ pass \in PassShape
  /\ \A r \in pass.batch : runRow[r] # "none"
  /\ \A r \in pass.left : runRow[r] = "deleted"

RetentionInv == RunsFollow /\ passes \in [Pass -> PassShape] /\ \A p \in Pass : PassFollows(passes[p])

LEMMA InitRetention == RetentionInit => RetentionInv
BY RetentionAssumption DEF RetentionInit, RetentionInv, RunsFollow, PassFollows, PassShape, NoPass, RunIds, NotYet, Statuses, Terminal

\* A run is created, ends or goes on: no row that is gone comes back.
LEMMA RowMoves ==
  ASSUME RetentionInv, NEW r \in RunIds, NEW status \in {"live", "stopping", "success", "failed", "cancelled"},
         NEW finished \in Nat, runRow[r] \notin {"success", "deleted"},
         Happens(r, status, finished), status \in Terminal => finished = today,
         runDirs' = runDirs, passes' = passes, today' = today,
         successes' = IF status = "success" THEN successes \cup {r} ELSE successes
  PROVE  RetentionInv'
<1>1. /\ runRow \in [RunIds -> Statuses] /\ finishedAt \in [RunIds -> Nat]
      /\ touched \in [RunIds -> Nat] /\ today \in Nat /\ status \in Statuses
  BY DEF RetentionInv, RunsFollow, Statuses, Terminal
<1>2. /\ runRow' \in [RunIds -> Statuses] /\ runRow'[r] = status /\ finishedAt' \in [RunIds -> Nat]
      /\ finishedAt'[r] = finished /\ touched' \in [RunIds -> Nat] /\ touched'[r] = today
      /\ \A q \in RunIds : q # r =>
           runRow'[q] = runRow[q] /\ finishedAt'[q] = finishedAt[q] /\ touched'[q] = touched[q]
  BY <1>1 DEF Happens
<1>3. status \notin {"none", "deleted"} /\ r \notin successes
  BY DEF RetentionInv, RunsFollow
<1>4. RunsFollow'
  BY <1>2, <1>3 DEF RetentionInv, RunsFollow
<1>5. ASSUME NEW p \in Pass PROVE PassFollows(passes[p])'
  <2>1. PassFollows(passes[p]) /\ passes[p].batch \subseteq RunIds /\ passes[p].left \subseteq RunIds
    BY DEF RetentionInv, PassFollows, PassShape
  <2> QED
    BY <1>2, <1>3, <2>1 DEF PassFollows
<1> QED
  BY <1>4, <1>5 DEF RetentionInv

\* A step of a pass, which may take rows away, or directories of runs without one.
LEMMA PassMoves ==
  ASSUME RetentionInv, NEW p \in Pass, NEW to, PassGoes(p, to), PassFollows(to)',
         runDirs' \subseteq runDirs,
         runRow' \in [RunIds -> Statuses],
         \A r \in RunIds : runRow'[r] = runRow[r] \/ (runRow[r] \in Terminal /\ runRow'[r] = "deleted")
  PROVE  RetentionInv'
<1>1. passes' \in [Pass -> PassShape] /\ passes'[p] = to /\ \A q \in Pass : q # p => passes'[q] = passes[q]
  BY DEF RetentionInv, PassGoes, PassFollows
<1>2. UNCHANGED <<today, finishedAt, touched, successes>>
  BY DEF PassGoes
<1>3. RunsFollow'
  BY <1>2 DEF RetentionInv, RunsFollow, Terminal
<1>4. ASSUME NEW q \in Pass PROVE PassFollows(passes[q])'
  <2>1. CASE q = p
    BY <1>1, <2>1 DEF PassFollows
  <2>2. CASE q # p
    <3>1. PassFollows(passes[q]) /\ passes[q].batch \subseteq RunIds /\ passes[q].left \subseteq RunIds
      BY DEF RetentionInv, PassFollows, PassShape
    <3> QED
      BY <1>1, <2>2, <3>1 DEF PassFollows, Terminal
  <2> QED
    BY <2>1, <2>2
<1> QED
  BY <1>1, <1>3, <1>4 DEF RetentionInv

\* The property of a step, under its own name to be proved of each.
Spares ==
  /\ \A r \in RunIds : HasRow(r) /\ runRow'[r] = "deleted" =>
       /\ runRow[r] \in Terminal
       /\ \E p \in Pass : touched[r] < passes[p].cutoff
       /\ r \in successes => \E newer \in successes : newer > r
  /\ \A r \in runDirs \ runDirs' : runRow[r] = "deleted"

LEMMA RunStep ==
  ASSUME RetentionInv, NEW r \in RunIds, TriggerRun(r) \/ WriteFiles(r) \/ EndRun(r) \/ ReviveRun(r)
  PROVE  RetentionInv' /\ Spares
<1>1. /\ runRow \in [RunIds -> Statuses] /\ touched \in [RunIds -> Nat] /\ today \in Nat /\ NotYet \in Nat
  BY RetentionAssumption DEF RetentionInv, RunsFollow, NotYet
<1>2. ASSUME NEW status \in {"live", "stopping", "success", "failed", "cancelled"}, NEW finished,
             Happens(r, status, finished)
      PROVE  \A q \in RunIds : runRow'[q] = "deleted" => runRow[q] = "deleted"
  BY <1>1, <1>2 DEF Happens
<1>3. CASE TriggerRun(r) \/ ReviveRun(r)
  <2>1. /\ Happens(r, "live", NotYet) /\ runRow[r] \notin {"success", "deleted"}
        /\ UNCHANGED <<today, runDirs, successes, passes>>
    BY <1>3 DEF TriggerRun, ReviveRun
  <2>2. RetentionInv'
    BY <1>1, <2>1, RowMoves DEF Terminal
  <2> QED
    BY <1>2, <2>1, <2>2 DEF Spares, HasRow
<1>4. CASE WriteFiles(r)
  <2>1. /\ runRow[r] \in {"live", "stopping"} /\ runDirs' = runDirs \cup {r}
        /\ touched' = [touched EXCEPT ![r] = today]
        /\ UNCHANGED <<today, runRow, finishedAt, successes, passes>>
    BY <1>4 DEF WriteFiles
  <2>2. touched' \in [RunIds -> Nat] /\ \A q \in RunIds : q # r => touched'[q] = touched[q]
    BY <1>1, <2>1
  <2>3. RunsFollow'
    BY <2>1, <2>2 DEF RetentionInv, RunsFollow, Terminal
  <2>4. RetentionInv'
    BY <2>1, <2>3 DEF RetentionInv, PassFollows
  <2> QED
    BY <2>1, <2>4 DEF Spares, HasRow
<1>5. CASE EndRun(r)
  <2>1. /\ UNCHANGED <<today, runDirs, passes>> /\ runRow[r] \in {"live", "stopping"}
        /\ successes' = IF runRow'[r] = "success" THEN successes \cup {r} ELSE successes
    BY <1>5 DEF EndRun
  <2>2. PICK status \in {"stopping", "success", "failed", "cancelled"}, finished \in {today, NotYet} :
          Happens(r, status, finished) /\ (status \in Terminal => finished = today)
    BY <1>5 DEF EndRun, Terminal
  <2>3. runRow'[r] = status
    BY <1>1, <2>2 DEF Happens
  <2>4. RetentionInv'
    <3>1. finished \in Nat /\ runRow[r] \notin {"success", "deleted"}
      BY <1>1, <2>1
    <3>2. successes' = IF status = "success" THEN successes \cup {r} ELSE successes
      BY <2>1, <2>3
    <3> QED
      BY <2>1, <2>2, <3>1, <3>2, RowMoves
  <2> QED
    BY <1>2, <2>1, <2>2, <2>4 DEF Spares, HasRow
<1> QED
  BY <1>3, <1>4, <1>5

LEMMA DeleteStep ==
  ASSUME RetentionInv, NEW p \in Pass, DeleteRows(p)
  PROVE  RetentionInv' /\ Spares
<1>1. PassFollows(passes[p]) /\ passes[p] \in PassShape /\ RunsFollow
  BY DEF RetentionInv, PassFollows
<1>2. runRow' = [r \in RunIds |-> IF r \in passes[p].batch /\ Expired(r, passes[p].cutoff) THEN "deleted" ELSE runRow[r]]
      /\ runDirs' = runDirs
  BY DEF DeleteRows
<1>3. \A r \in RunIds : runRow'[r] = runRow[r] \/ (runRow'[r] = "deleted" /\ Expired(r, passes[p].cutoff))
  BY <1>2
<1>4. runRow' \in [RunIds -> Statuses]
  BY <1>1, <1>2 DEF RunsFollow, Statuses
<1>5. PICK to : to = [passes[p] EXCEPT !.at = "ask"] /\ PassGoes(p, to)
  BY DEF DeleteRows
<1>6. to \in PassShape /\ to.batch = passes[p].batch /\ to.left = passes[p].left
  BY <1>1, <1>5 DEF PassShape
<1>7. passes[p].batch \subseteq RunIds /\ passes[p].left \subseteq RunIds
  BY <1>1 DEF PassShape
<1>8. PassFollows(to)'
  BY <1>1, <1>3, <1>6, <1>7 DEF PassFollows, Expired, Terminal
<1>9. RetentionInv'
  BY <1>2, <1>3, <1>4, <1>5, <1>8, PassMoves DEF Expired
<1>10. ASSUME NEW r \in RunIds, HasRow(r), runRow'[r] = "deleted"
       PROVE  /\ runRow[r] \in Terminal /\ touched[r] < passes[p].cutoff
              /\ r \in successes => \E newer \in successes : newer > r
  <2>1. Expired(r, passes[p].cutoff)
    BY <1>3, <1>10 DEF HasRow
  <2>2. runRow[r] \in Terminal /\ touched[r] < passes[p].cutoff
    BY <1>1, <2>1 DEF Expired, RunsFollow
  <2>3. ASSUME r \in successes PROVE \E newer \in successes : newer > r
    <3>1. runRow[r] = "success"
      BY <1>1, <2>2, <2>3 DEF RunsFollow, Terminal
    <3>2. PICK q \in RunIds : runRow[q] = "success" /\ ~(q <= r)
      BY <2>1, <3>1 DEF Expired, NewestSuccess
    <3>3. q \in successes /\ q \in Nat /\ r \in Nat
      BY <1>1, <3>2 DEF RunsFollow, RunIds
    <3> QED
      BY <3>2, <3>3
  <2> QED
    BY <2>2, <2>3
<1> QED
  BY <1>2, <1>9, <1>10 DEF Spares

LEMMA PassStep ==
  ASSUME RetentionInv, NEW p \in Pass,
         StartPass(p) \/ SelectBatch(p) \/ AskSurvivors(p) \/ RemoveFiles(p)
           \/ NextBatch(p) \/ ListDirectories(p) \/ AskAlive(p) \/ EndPass(p)
  PROVE  RetentionInv' /\ Spares
<1>1. PassFollows(passes[p]) /\ passes[p] \in PassShape /\ RunsFollow
  BY DEF RetentionInv, PassFollows
<1>2. runRow' = runRow /\ runRow \in [RunIds -> Statuses]
  BY <1>1 DEF RunsFollow, StartPass, SelectBatch, AskSurvivors, RemoveFiles, NextBatch, ListDirectories, AskAlive, EndPass
<1>3. ASSUME NEW to, PassGoes(p, to), PassFollows(to), runDirs' \subseteq runDirs,
             \A r \in runDirs \ runDirs' : runRow[r] = "deleted"
      PROVE  RetentionInv' /\ Spares
  <2>1. PassFollows(to)'
    BY <1>2, <1>3 DEF PassFollows
  <2>2. RetentionInv'
    BY <1>2, <1>3, <2>1, PassMoves
  <2> QED
    BY <1>2, <1>3, <2>2 DEF Spares, HasRow
<1>4. CASE StartPass(p)
  <2>1. PICK cutoff \in 0 .. today : PassGoes(p, [NoPass EXCEPT !.at = "select", !.cutoff = cutoff])
    BY <1>4 DEF StartPass
  <2>2. PassFollows([NoPass EXCEPT !.at = "select", !.cutoff = cutoff])
    <3>1. today \in Nat
      BY <1>1 DEF RunsFollow
    <3>2. cutoff \in Nat
      BY <3>1
    <3> QED
      BY <3>2 DEF PassFollows, PassShape, NoPass
  <2> QED
    BY <1>3, <1>4, <2>1, <2>2 DEF StartPass
<1>5. CASE SelectBatch(p)
  <2>1. PICK due : due = {r \in RunIds : r > passes[p].after /\ Expired(r, passes[p].cutoff)}
    OBVIOUS
  <2>2. PICK batch : batch = {r \in due : Cardinality({q \in due : q < r}) < BatchSize}
    OBVIOUS
  <2>3. batch \subseteq RunIds /\ \A r \in batch : runRow[r] # "none"
    BY <2>1, <2>2 DEF Expired, Terminal
  <2>4. CASE PassGoes(p, [passes[p] EXCEPT !.at = "list"])
    <3>1. PassFollows([passes[p] EXCEPT !.at = "list"])
      BY <1>1 DEF PassFollows, PassShape
    <3> QED
      BY <1>3, <1>5, <2>4, <3>1 DEF SelectBatch
  <2>5. ASSUME NEW last \in batch, PassGoes(p, [passes[p] EXCEPT !.at = "delete", !.batch = batch, !.after = last])
        PROVE  RetentionInv' /\ Spares
    <3>1. last \in Nat
      BY <2>3 DEF RunIds
    <3>2. PassFollows([passes[p] EXCEPT !.at = "delete", !.batch = batch, !.after = last])
      BY <1>1, <2>3, <3>1 DEF PassFollows, PassShape
    <3> QED
      BY <1>3, <1>5, <2>5, <3>2 DEF SelectBatch
  <2> QED
    BY <1>5, <2>1, <2>2, <2>4, <2>5 DEF SelectBatch
<1>6. CASE AskSurvivors(p) \/ AskAlive(p)
  <2>1. PICK to : /\ PassGoes(p, to) /\ runDirs' = runDirs
                  /\ \E at \in {"remove", "sweep"} :
                       to = [passes[p] EXCEPT !.at = at, !.left = passes[p].batch \ Survivors(p)]
    BY <1>6 DEF AskSurvivors, AskAlive
  <2>2. to \in PassShape /\ to.batch = passes[p].batch /\ to.left = passes[p].batch \ Survivors(p)
    BY <1>1, <2>1 DEF PassShape
  <2>3. PassFollows(to)
    BY <1>1, <2>2 DEF PassFollows, Survivors, HasRow
  <2> QED
    BY <1>3, <2>1, <2>3
<1>7. CASE RemoveFiles(p)
  <2>1. PICK r \in passes[p].left :
          runDirs' \in {runDirs, runDirs \ {r}} /\ PassGoes(p, [passes[p] EXCEPT !.left = @ \ {r}])
    BY <1>7 DEF RemoveFiles
  <2>2. PassFollows([passes[p] EXCEPT !.left = @ \ {r}])
    BY <1>1 DEF PassFollows, PassShape
  <2> QED
    BY <1>1, <1>3, <2>1, <2>2 DEF PassFollows
<1>8. CASE NextBatch(p)
  <2>1. PassFollows([passes[p] EXCEPT !.at = "select", !.batch = {}])
    BY <1>1 DEF PassFollows, PassShape
  <2> QED
    BY <1>3, <1>8, <2>1 DEF NextBatch
<1>9. CASE ListDirectories(p)
  <2>1. PassFollows([passes[p] EXCEPT !.at = "alive", !.batch = runDirs])
    BY <1>1 DEF PassFollows, PassShape, RunsFollow
  <2> QED
    BY <1>3, <1>9, <2>1 DEF ListDirectories
<1>10. CASE EndPass(p)
  <2>1. PassFollows(NoPass)
    BY DEF PassFollows, PassShape, NoPass
  <2> QED
    BY <1>3, <1>10, <2>1 DEF EndPass
<1> QED
  BY <1>4, <1>5, <1>6, <1>7, <1>8, <1>9, <1>10

LEMMA RetentionStep == RetentionInv /\ [RetentionNext]_retentionVars => RetentionInv' /\ [Spares]_retentionVars
<1> SUFFICES ASSUME RetentionInv, [RetentionNext]_retentionVars PROVE RetentionInv' /\ [Spares]_retentionVars
  OBVIOUS
<1>1. CASE DayPasses
  <2>1. today' = today + 1 /\ UNCHANGED <<runRow, finishedAt, touched, runDirs, successes, passes>>
    BY <1>1 DEF DayPasses
  <2>2. RetentionInv'
    BY <2>1 DEF RetentionInv, RunsFollow, PassFollows
  <2> QED
    BY <2>1, <2>2 DEF Spares, HasRow
<1>2. CASE UNCHANGED retentionVars
  BY <1>2 DEF retentionVars, RetentionInv, RunsFollow, PassFollows
<1> QED
  BY <1>1, <1>2, RunStep, DeleteStep, PassStep DEF RetentionNext

\* CleanupSpares for any number of runs, days, overlapping passes and batches
\* (cleanup_runs): whatever is resumed or ends between the statements of a pass, only
\* rows of runs that are over go, and only files of runs whose rows are gone.
THEOREM CleanupIsSafe == RetentionSpec => CleanupSpares
<1>1. [Spares]_retentionVars <=>
        [/\ \A r \in RunIds : HasRow(r) /\ runRow'[r] = "deleted" =>
              /\ runRow[r] \in Terminal
              /\ \E p \in Pass : touched[r] < passes[p].cutoff
              /\ r \in successes => \E newer \in successes : newer > r
         /\ \A r \in runDirs \ runDirs' : runRow[r] = "deleted"]_retentionVars
  BY DEF Spares
<1> QED
  BY <1>1, InitRetention, RetentionStep, PTL DEF RetentionSpec, CleanupSpares
=============================================================================
