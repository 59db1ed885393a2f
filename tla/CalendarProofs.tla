--------------------------- MODULE CalendarProofs ---------------------------
(***************************************************************************)
(* Proofs about the calendar the browser works out for itself: the next    *)
(* run of a schedule is the next one the server fires (Cron), the schedule *)
(* form never changes a schedule it only opened (ScheduleBuilder), and the *)
(* week editor shows when a service really runs (ServiceWindows) -- for    *)
(* every calendar, every zone, every expression and any windows.           *)
(***************************************************************************)
EXTENDS ScheduleBuilder, ServiceWindows, FiniteSetTheorems, SequenceTheorems, WellFoundedInduction, TLAPS

LEMMA LeastNatural ==
  ASSUME NEW S, S \subseteq Nat, S # {}
  PROVE  \E m \in S : \A n \in S : m <= n
<1>1. PICK m \in S : \A n \in S : <<n, m>> \notin OpToRel(<, Nat)
  BY NatLessThanWellFounded, WFMin
<1>2. ASSUME NEW n \in S, n < m PROVE <<n, m>> \in OpToRel(<, Nat)
  BY <1>2 DEF OpToRel
<1>3. \A n \in S : ~(n < m) /\ n \in Nat /\ m \in Nat
  BY <1>1, <1>2
<1> QED
  BY <1>3

LEMMA LeastAbove ==
  ASSUME NEW b \in Int, NEW S, S \subseteq Int, S # {}, \A n \in S : n >= b
  PROVE  Min(S) \in S /\ \A n \in S : Min(S) <= n
<1> DEFINE T == {n - b : n \in S}
<1>1. T \subseteq Nat /\ T # {}
  <2>1. \A n \in S : n - b \in Nat
    OBVIOUS
  <2> QED
    BY <2>1
<1>2. PICK k \in T : \A n \in T : k <= n
  BY <1>1, LeastNatural
<1>3. PICK m \in S : k = m - b
  OBVIOUS
<1>4. ASSUME NEW n \in S PROVE m <= n
  <2>1. n - b \in T
    OBVIOUS
  <2>2. m - b <= n - b
    BY <1>2, <1>3, <2>1
  <2> QED
    BY <2>2
<1> QED
  BY <1>3, <1>4 DEF Min

LEMMA MinIs ==
  ASSUME NEW S, S \subseteq Int, NEW m \in S, \A n \in S : m <= n
  PROVE  Min(S) = m
<1>1. ASSUME NEW k \in S, \A n \in S : k <= n PROVE k = m
  <2>1. k <= m /\ m <= k /\ k \in Int /\ m \in Int
    BY <1>1
  <2> QED
    BY <2>1
<1> QED
  BY <1>1 DEF Min

LEMMA Division ==
  ASSUME NEW a \in Int, NEW d \in Nat \ {0}
  PROVE  /\ a \div d \in Int /\ (a \div d) * d <= a /\ a < (a \div d) * d + d
         /\ a % d \in 0 .. d - 1 /\ a = (a \div d) * d + (a % d)
OBVIOUS

LEMMA DayIs ==
  ASSUME NEW a \in Int, NEW q \in Int, NEW d \in Nat \ {0}, q * d <= a, a < q * d + d
  PROVE  a \div d = q
<1>1. PICK r \in Int : r = a \div d
  BY Division
<1>2. r * d <= a /\ a < r * d + d
  BY <1>1, Division
<1>3. CASE r < q
  <2>1. (r + 1) * d <= q * d
    BY <1>3
  <2> QED
    BY <1>2, <2>1
<1>4. CASE r > q
  <2>1. (q + 1) * d <= r * d
    BY <1>4
  <2> QED
    BY <1>2, <2>1
<1> QED
  BY <1>1, <1>3, <1>4

LEMMA LaterDay ==
  ASSUME NEW a \in Int, NEW b \in Int, NEW d \in Nat \ {0}, a \div d < b \div d
  PROVE  a < b
<1>1. PICK q \in Int, r \in Int : q = a \div d /\ r = b \div d
  BY Division
<1>2. a < q * d + d /\ r * d <= b
  BY <1>1, Division
<1>3. (q + 1) * d <= r * d
  BY <1>1
<1> QED
  BY <1>2, <1>3

(* ------------------------------ wall times ------------------------------- *)

LEMMA ZoneFields ==
  ASSUME NEW z \in Zones
  PROVE  /\ z.jump \in Int /\ z.before \in Int /\ z.after \in Int
         /\ z.before \in -DayUnits .. DayUnits /\ z.after \in -DayUnits .. DayUnits
         /\ DayUnits \in Nat \ {0}
<1>1. DayUnits \in Nat \ {0}
  BY ZonesAssumption
<1>2. z \in [jump : Int, before : -DayUnits .. DayUnits, after : -DayUnits .. DayUnits]
  BY ZonesAssumption
<1> QED
  BY <1>1, <1>2

\* The instants a wall time names, by the side of the change they are on.
LEMMA InstantsOf ==
  ASSUME NEW z \in Zones, NEW w \in Int
  PROVE  /\ w - z.before < z.jump /\ w - z.after >= z.jump => ZonedInstants(z, w) = {w - z.before, w - z.after}
         /\ w - z.before < z.jump /\ w - z.after < z.jump => ZonedInstants(z, w) = {w - z.before}
         /\ w - z.before >= z.jump /\ w - z.after >= z.jump => ZonedInstants(z, w) = {w - z.after}
         /\ w - z.before >= z.jump /\ w - z.after < z.jump => ZonedInstants(z, w) = {w - z.before}
<1>1. PICK J, B, A, D : J = z.jump /\ B = z.before /\ A = z.after /\ D = DayUnits
  OBVIOUS
<1>2. J \in Int /\ B \in Int /\ A \in Int /\ D \in Nat \ {0} /\ B \in -D .. D /\ A \in -D .. D
  BY <1>1, ZoneFields
<1> DEFINE earlier == w - OffsetAt(z, w - DayUnits)
           later   == w - OffsetAt(z, w + DayUnits)
<1>3. /\ earlier = IF w - D < J THEN w - B ELSE w - A
      /\ later = IF w + D < J THEN w - B ELSE w - A
  BY <1>1 DEF OffsetAt
<1>4. \A t \in Int : Wall(z, t) = w <=> IF t < J THEN t = w - B ELSE t = w - A
  BY <1>1, <1>2 DEF Wall, OffsetAt
<1>5. ZonedInstants(z, w) = IF Wall(z, earlier) = w THEN {earlier} \cup (IF Wall(z, later) = w THEN {later} ELSE {})
                            ELSE IF Wall(z, later) = w THEN {later} ELSE {earlier}
  BY DEF ZonedInstants
<1>6. earlier \in Int /\ later \in Int
  BY <1>2, <1>3
<1> HIDE DEF earlier, later
<1>7. CASE w - B < J /\ w - A >= J
  <2>1. earlier = w - B /\ later = w - A
    BY <1>2, <1>3, <1>7
  <2>2. Wall(z, earlier) = w /\ Wall(z, later) = w
    BY <1>2, <1>4, <1>6, <1>7, <2>1
  <2> QED
    BY <1>1, <1>2, <1>5, <1>7, <2>1, <2>2
<1>8. CASE w - B < J /\ w - A < J
  <2>1. earlier = w - B
    BY <1>2, <1>3, <1>8
  <2>2. Wall(z, earlier) = w
    BY <1>2, <1>4, <1>6, <1>8, <2>1
  <2>3. (later = w - A /\ Wall(z, later) = w) => later = w - B
    BY <1>2, <1>4, <1>6, <1>8
  <2>4. ZonedInstants(z, w) = {w - B}
    BY <1>3, <1>5, <2>1, <2>2, <2>3
  <2> QED
    BY <1>1, <1>2, <1>8, <2>4
<1>9. CASE w - B >= J /\ w - A >= J
  <2>1. later = w - A
    BY <1>2, <1>3, <1>9
  <2>2. Wall(z, later) = w
    BY <1>2, <1>4, <1>6, <1>9, <2>1
  <2>3. (earlier = w - B /\ Wall(z, earlier) = w) => earlier = w - A
    BY <1>2, <1>4, <1>6, <1>9
  <2>4. ZonedInstants(z, w) = {w - A}
    BY <1>3, <1>5, <2>1, <2>2, <2>3
  <2> QED
    BY <1>1, <1>2, <1>9, <2>4
<1>10. CASE w - B >= J /\ w - A < J
  <2>1. earlier = w - B
    BY <1>2, <1>3, <1>10
  <2>2. Wall(z, w - B) # w /\ Wall(z, w - A) # w
    <3>1. Wall(z, w - B) = w => B = A
      BY <1>2, <1>4, <1>10
    <3>2. Wall(z, w - A) = w => B = A
      BY <1>2, <1>4, <1>10
    <3> QED
      BY <1>2, <1>10, <3>1, <3>2
  <2>3. ZonedInstants(z, w) = {w - B}
    BY <1>3, <1>5, <2>1, <2>2
  <2> QED
    BY <1>1, <1>2, <1>10, <2>3
<1> QED
  BY <1>1, <1>2, <1>7, <1>8, <1>9, <1>10

LEMMA FirstInstant ==
  ASSUME NEW z \in Zones, NEW w \in Int
  PROVE  /\ ZonedInstants(z, w) \subseteq {w - z.before, w - z.after} /\ ZonedInstants(z, w) # {}
         /\ ZonedTime(z, w) \in ZonedInstants(z, w)
         /\ \A t \in ZonedInstants(z, w) : ZonedTime(z, w) <= t
<1>1. ZonedInstants(z, w) \subseteq {w - z.before, w - z.after} /\ ZonedInstants(z, w) # {}
  <2>1. ZonedInstants(z, w) \in {{w - z.before, w - z.after}, {w - z.before}, {w - z.after}}
    BY InstantsOf, ZoneFields
  <2> QED
    BY <2>1
<1>2. PICK b \in Int : b <= w - z.before /\ b <= w - z.after
  <2>1. CASE z.before <= z.after
    BY <2>1, ZoneFields
  <2>2. CASE z.before > z.after
    BY <2>2, ZoneFields
  <2> QED
    BY <2>1, <2>2, ZoneFields
<1>3. ZonedInstants(z, w) \subseteq Int /\ \A t \in ZonedInstants(z, w) : t >= b
  BY <1>1, <1>2, ZoneFields
<1> QED
  BY <1>1, <1>3, LeastAbove DEF ZonedTime

LEMMA FiresAre ==
  ASSUME NEW spec, NEW z \in Zones, NEW w \in Int
  PROVE  Fires(spec, z, w) \subseteq ZonedInstants(z, w) /\ Fires(spec, z, w) # {}
BY FirstInstant DEF Fires

\* The instants the builder takes for a wall time are the server's.
LEMMA FiresAgree ==
  ASSUME NEW spec, NEW z \in Zones, NEW w \in Int
  PROVE  Fires(spec, z, w) = ServerFires(spec, z, w)
<1>1. PICK J, B, A, D : J = z.jump /\ B = z.before /\ A = z.after /\ D = DayUnits
  OBVIOUS
<1>2. J \in Int /\ B \in Int /\ A \in Int /\ D \in Nat \ {0} /\ B \in -D .. D /\ A \in -D .. D
  BY <1>1, ZoneFields
<1> DEFINE reading == {t \in w - 2 * DayUnits .. w + 2 * DayUnits : Wall(z, t) = w}
<1>3. \A t \in Int : Wall(z, t) = w <=> IF t < J THEN t = w - B ELSE t = w - A
  BY <1>1, <1>2 DEF Wall, OffsetAt
<1>4. \A t : t \in reading <=> (t = w - B /\ t < J) \/ (t = w - A /\ t >= J)
  <2>1. w - B \in w - 2 * D .. w + 2 * D /\ w - A \in w - 2 * D .. w + 2 * D
    BY <1>2
  <2> QED
    BY <1>1, <1>2, <1>3, <2>1
<1>5. reading # {} => ZonedInstants(z, w) = reading
  <2> HIDE DEF reading
  <2>1. CASE w - B < J /\ w - A >= J
    <3>1. ZonedInstants(z, w) = {w - B, w - A}
      BY <1>1, <2>1, InstantsOf
    <3>2. \A t : t \in reading <=> t = w - B \/ t = w - A
      BY <1>4, <2>1
    <3> QED
      BY <3>1, <3>2
  <2>2. CASE w - B < J /\ w - A < J
    <3>1. reading = {w - B}
      BY <1>2, <1>4, <2>2
    <3> QED
      BY <1>1, <1>2, <2>2, <3>1, InstantsOf
  <2>3. CASE w - B >= J /\ w - A >= J
    <3>1. reading = {w - A}
      BY <1>2, <1>4, <2>3
    <3> QED
      BY <1>1, <1>2, <2>3, <3>1, InstantsOf
  <2>4. CASE w - B >= J /\ w - A < J
    BY <1>1, <1>2, <1>4, <2>4, InstantsOf
  <2> QED
    BY <1>2, <2>1, <2>2, <2>3, <2>4
<1>6. reading = {} => ZonedInstants(z, w) = {w - B}
  <2>1. reading = {} => w - B >= J /\ w - A < J
    BY <1>2, <1>4
  <2> QED
    BY <1>1, <2>1, InstantsOf
<1>7. reading = {} => Fires(spec, z, w) = {w - B}
  <2>1. reading = {} => ZonedTime(z, w) = w - B
    BY <1>6, FirstInstant
  <2> QED
    BY <1>6, <2>1 DEF Fires
<1>8. reading # {} => Fires(spec, z, w) = IF spec.pinned THEN {Min(reading)} ELSE reading
  BY <1>5 DEF Fires, ZonedTime
<1> QED
  BY <1>1, <1>7, <1>8 DEF ServerFires

\* Of two wall times a change concerns, in a zone that keeps its day, none is of a later day.
LEMMA OneDay ==
  ASSUME NEW z \in Zones, KeepsDay(z), NEW x \in Int, NEW y \in Int,
         x \div DayUnits < y \div DayUnits
  PROVE  /\ z.after < z.before => ~(x >= z.jump + z.after /\ y < z.jump + z.before)
         /\ z.before < z.after => ~(x >= z.jump + z.before /\ y < z.jump + 2 * z.after - z.before)
<1> DEFINE Same(from, to) == from \div DayUnits = (to - 1) \div DayUnits
<1>1. ASSUME NEW from \in Int, NEW to \in Int, Same(from, to), from <= x, y <= to - 1
      PROVE  FALSE
  <2>1. ~((to - 1) \div DayUnits < y \div DayUnits)
    BY <1>1, LaterDay, ZoneFields
  <2>2. ~(x \div DayUnits < from \div DayUnits)
    BY <1>1, LaterDay, ZoneFields
  <2>3. /\ from \div DayUnits \in Int /\ (to - 1) \div DayUnits \in Int
        /\ x \div DayUnits \in Int /\ y \div DayUnits \in Int
    BY <1>1, Division, ZoneFields
  <2> QED
    BY <1>1, <2>1, <2>2, <2>3
<1>2. CASE z.after < z.before
  <2>1. Same(z.jump + z.after, z.jump + z.before)
    <3>1. ~(z.before < z.after) /\ z.before # z.after
      BY <1>2, ZoneFields
    <3> QED
      BY <3>1 DEF KeepsDay
  <2>2. x >= z.jump + z.after /\ y < z.jump + z.before => FALSE
    <3> HIDE DEF Same
    <3> QED
      BY <1>1, <2>1, ZoneFields
  <2> QED
    BY <1>2, <2>2, ZoneFields
<1>3. CASE z.before < z.after
  <2>1. Same(z.jump + z.before, z.jump + (2 * z.after - z.before))
    <3>1. z.before # z.after
      BY <1>3, ZoneFields
    <3> QED
      BY <1>3, <3>1 DEF KeepsDay
  <2>2. x >= z.jump + z.before /\ y < z.jump + 2 * z.after - z.before => FALSE
    <3>1. z.jump + (2 * z.after - z.before) \in Int /\ z.jump + z.before \in Int
          /\ z.jump + 2 * z.after - z.before = z.jump + (2 * z.after - z.before)
      BY ZoneFields
    <3>2. ASSUME NEW to \in Int, to = z.jump + (2 * z.after - z.before), x >= z.jump + z.before, y < to
          PROVE  FALSE
      <4>1. Same(z.jump + z.before, to)
        BY <2>1, <3>2
      <4>2. z.jump + z.before <= x /\ y <= to - 1
        BY <3>1, <3>2
      <4> HIDE DEF Same
      <4> QED
        BY <1>1, <3>1, <3>2, <4>1, <4>2
    <3> QED
      BY <3>1, <3>2
  <2> QED
    BY <1>3, <2>2, ZoneFields
<1>4. CASE z.before = z.after
  BY <1>4, ZoneFields
<1> QED
  BY <1>2, <1>3, <1>4, ZoneFields

\* What an instant of a wall time is, by cases.
LEMMA InstantIs ==
  ASSUME NEW z \in Zones, NEW w \in Int, NEW t \in ZonedInstants(z, w)
  PROVE  /\ t \in Int
         /\ \/ t = w - z.before /\ t < z.jump
            \/ t = w - z.after /\ t >= z.jump
            \/ t = w - z.before /\ t >= z.jump /\ w - z.after < z.jump
<1>1. PICK J \in Int, B \in Int, A \in Int : J = z.jump /\ B = z.before /\ A = z.after
  BY ZoneFields
<1>2. CASE w - B < J /\ w - A >= J
  BY <1>1, <1>2, InstantsOf
<1>3. CASE w - B < J /\ w - A < J
  BY <1>1, <1>3, InstantsOf
<1>4. CASE w - B >= J /\ w - A >= J
  BY <1>1, <1>4, InstantsOf
<1>5. CASE w - B >= J /\ w - A < J
  BY <1>1, <1>5, InstantsOf
<1> QED
  BY <1>1, <1>2, <1>3, <1>4, <1>5

\* The fires of a day are before those of a later day.
LEMMA FiresInOrder ==
  ASSUME NEW z \in Zones, KeepsDay(z), NEW w \in Int, NEW v \in Int,
         w \div DayUnits < v \div DayUnits,
         NEW t \in ZonedInstants(z, w), NEW u \in ZonedInstants(z, v)
  PROVE  t < u
<1>1. PICK J \in Int, B \in Int, A \in Int : J = z.jump /\ B = z.before /\ A = z.after
  BY ZoneFields
<1>2. w < v
  BY LaterDay, ZoneFields
<1>3. /\ t \in Int /\ u \in Int
      /\ \/ t = w - B /\ t < J
         \/ t = w - A /\ t >= J
         \/ t = w - B /\ t >= J /\ w - A < J
      /\ \/ u = v - B /\ u < J
         \/ u = v - A /\ u >= J
         \/ u = v - B /\ u >= J /\ v - A < J
  BY <1>1, InstantIs
<1>4. /\ A < B => ~(w >= J + A /\ v < J + B)
      /\ B < A => ~(w >= J + B /\ v < J + 2 * A - B)
  BY <1>1, OneDay
<1> QED
  BY <1>2, <1>3, <1>4

\* The fires of the days before today are past.
LEMMA FiredBefore ==
  ASSUME NEW z \in Zones, KeepsDay(z), NEW w \in Int, NEW now \in Int,
         w \div DayUnits < DayOf(z, now), NEW t \in ZonedInstants(z, w)
  PROVE  t <= now
<1>1. PICK J \in Int, B \in Int, A \in Int : J = z.jump /\ B = z.before /\ A = z.after
  BY ZoneFields
<1>2. PICK v \in Int : v = Wall(z, now)
  BY ZoneFields DEF Wall, OffsetAt
<1>3. v = IF now < J THEN now + B ELSE now + A
  BY <1>1, <1>2 DEF Wall, OffsetAt
<1>4. w \div DayUnits < v \div DayUnits
  BY <1>2 DEF DayOf
<1>5. w < v
  BY <1>4, LaterDay, ZoneFields
<1>6. /\ t \in Int
      /\ \/ t = w - B /\ t < J
         \/ t = w - A /\ t >= J
         \/ t = w - B /\ t >= J /\ w - A < J
  BY <1>1, InstantIs
<1>7. /\ A < B => ~(w >= J + A /\ v < J + B)
      /\ B < A => ~(w >= J + B /\ v < J + 2 * A - B)
  BY <1>1, <1>4, OneDay
<1> QED
  BY <1>3, <1>5, <1>6, <1>7

(* ------------------------------ expressions ------------------------------ *)

LEMMA ExpandedWithin ==
  ASSUME NEW lo \in Int, NEW hi \in Int, NEW max \in Int, NEW field \in CronField,
         \A p \in field : Accepts(p, Rule(lo, hi, max))
  PROVE  Expand(field, Rule(lo, hi, max)) \subseteq lo .. max
<1> DEFINE rule == Rule(lo, hi, max)
<1>1. rule.lo = lo /\ rule.hi = hi /\ rule.max = max
  BY DEF Rule
<1>2. ASSUME NEW p \in field
      PROVE  Low(p, rule) .. High(p, rule) \subseteq lo .. max
  <2>1. lo <= Low(p, rule) /\ High(p, rule) <= max
    BY <1>1, <1>2 DEF Accepts
  <2>2. p \in Parts
    BY <1>2 DEF CronField
  <2>3. Low(p, rule) \in Int /\ High(p, rule) \in Int
    BY <1>1, <2>2 DEF Low, High, Parts
  <2> HIDE DEF rule
  <2> QED
    BY <2>1, <2>3
<1>3. ASSUME NEW v \in Expand(field, rule)
      PROVE  \E p \in field : v \in Low(p, rule) .. High(p, rule)
  BY <1>3 DEF Expand
<1> QED
  BY <1>2, <1>3

\* What the server reads is hours and minutes of a day.
LEMMA ReadWithin ==
  ASSUME NEW e \in Crons, Reads(e)
  PROVE  /\ Read(e).minutes \subseteq 0 .. HourUnits - 1
         /\ Read(e).hours \subseteq 0 .. (DayUnits \div HourUnits - 1)
<1>1. HourUnits \in Int /\ DayUnits \div HourUnits \in Int
  BY ZonesAssumption, CronAssumption
<1>2. Read(e).minutes = Expand(e.minute, MinuteRule) /\ Read(e).hours = Expand(e.hour, HourRule)
  BY DEF Read
<1>3. e.minute \in CronField /\ e.hour \in CronField
  BY DEF Crons
<1>4. Expand(e.minute, MinuteRule) \subseteq 0 .. HourUnits - 1
  <2>1. PICK h \in Int : h = HourUnits - 1
    BY <1>1
  <2>2. MinuteRule = Rule(0, h, h)
    BY <2>1 DEF MinuteRule
  <2>3. \A p \in e.minute : Accepts(p, Rule(0, h, h))
    BY <2>2 DEF Reads
  <2> QED
    BY <1>3, <2>1, <2>2, <2>3, ExpandedWithin
<1>5. Expand(e.hour, HourRule) \subseteq 0 .. (DayUnits \div HourUnits - 1)
  <2>1. PICK h \in Int : h = DayUnits \div HourUnits - 1
    BY <1>1
  <2>2. HourRule = Rule(0, h, h)
    BY <2>1 DEF HourRule
  <2>3. \A p \in e.hour : Accepts(p, Rule(0, h, h))
    BY <2>2 DEF Reads
  <2> QED
    BY <1>3, <2>1, <2>2, <2>3, ExpandedWithin
<1> QED
  BY <1>2, <1>4, <1>5

LEMMA HourOfDay ==
  ASSUME NEW D \in Nat \ {0}, NEW H \in Nat \ {0}, NEW h \in 0 .. (D \div H - 1), NEW m \in 0 .. H - 1
  PROVE  h * H + m \in 0 .. D - 1
<1>1. PICK q \in Int : q = D \div H
  BY Division
<1>2. q * H <= D
  BY <1>1, Division
<1>3. h + 1 <= q /\ h \in Nat
  BY <1>1
<1>4. (h + 1) * H <= q * H
  BY <1>1, <1>3
<1>5. h * H \in Int /\ h * H >= 0 /\ (h + 1) * H = h * H + H
  BY <1>3
<1> QED
  BY <1>2, <1>4, <1>5

\* The times of a day are of that day.
LEMMA TimesOfDay ==
  ASSUME NEW e \in Crons, Reads(e), NEW d \in Int, NEW w \in Times(Read(e), d)
  PROVE  w \in Int /\ w \div DayUnits = d
<1>1. PICK h \in Read(e).hours, m \in Read(e).minutes : w = d * DayUnits + (h * HourUnits + m)
  BY DEF Times, WallTime
<1>2. DayUnits \in Nat \ {0} /\ HourUnits \in Nat \ {0}
  BY ZonesAssumption, CronAssumption
<1>3. PICK u \in Int : u = h * HourUnits + m /\ u >= 0 /\ u < DayUnits
  <2>1. h \in 0 .. (DayUnits \div HourUnits - 1) /\ m \in 0 .. HourUnits - 1
    BY ReadWithin
  <2>2. h * HourUnits + m \in 0 .. DayUnits - 1
    BY <1>2, <2>1, HourOfDay
  <2> QED
    BY <1>2, <2>2
<1>4. PICK s \in Int : s = d * DayUnits
  BY <1>2
<1>5. w = s + u
  BY <1>1, <1>3, <1>4
<1>6. w \in Int /\ s <= w /\ w < s + DayUnits
  BY <1>2, <1>3, <1>5
<1> QED
  BY <1>2, <1>4, <1>6, DayIs

(* ------------------------------- the search ------------------------------- *)

\* All the fires of a day that are still to come.
ToCome(spec, z, d, now) == {t \in UNION {Fires(spec, z, w) : w \in Times(spec, d)} : t > now}

\* A fire is near the guess the search makes of it.
LEMMA NearTheGuess ==
  ASSUME NEW z \in Zones, NEW w \in Int, NEW now \in Int, NEW t \in ZonedInstants(z, w)
  PROVE  /\ w - OffsetAt(z, now) \in Int /\ t \in Int /\ Shift \in Int
         /\ t <= w - OffsetAt(z, now) + Shift /\ w - OffsetAt(z, now) - Shift <= t
<1>1. PICK J \in Int, B \in Int, A \in Int : J = z.jump /\ B = z.before /\ A = z.after
  BY ZoneFields
<1>2. Shift \in Nat /\ B - A \in -Shift .. Shift
  BY <1>1, CronAssumption
<1>3. t \in Int /\ (t = w - B \/ t = w - A)
  BY <1>1, InstantIs
<1>4. OffsetAt(z, now) = B \/ OffsetAt(z, now) = A
  BY <1>1 DEF OffsetAt
<1> QED
  BY <1>1, <1>2, <1>3, <1>4

\* The search of a day stops early, yet it misses nothing: what it finds has the
\* first fire to come, if any is to come.
LEMMA SearchIsExact ==
  ASSUME NEW e \in Crons, Reads(e), NEW z \in Zones, NEW d \in Int, NEW now \in Int
  PROVE  /\ Searched(Read(e), z, d, now) \subseteq ToCome(Read(e), z, d, now)
         /\ ToCome(Read(e), z, d, now) \subseteq Int
         /\ ToCome(Read(e), z, d, now) # {} =>
              /\ Searched(Read(e), z, d, now) # {}
              /\ Min(Searched(Read(e), z, d, now)) = Min(ToCome(Read(e), z, d, now))
              /\ Min(ToCome(Read(e), z, d, now)) \in ToCome(Read(e), z, d, now)
              /\ \A t \in ToCome(Read(e), z, d, now) : Min(ToCome(Read(e), z, d, now)) <= t
<1> DEFINE spec == Read(e)
           Guess(wall) == wall - OffsetAt(z, now)
           tried == {w \in Times(spec, d) : Guess(w) >= now - Shift}
           late(w) == {t \in Fires(spec, z, w) : t > now}
           Stopped(w) == \E v \in tried : v < w /\ \E t \in late(v) : Guess(w) > t + Shift
           all == ToCome(spec, z, d, now)
           found == Searched(spec, z, d, now)
<1>1. found = UNION {late(w) : w \in {v \in tried : ~Stopped(v)}}
  BY DEF Searched
<1>2. ASSUME NEW w \in Times(spec, d), NEW t \in Fires(spec, z, w)
      PROVE  /\ w \in Int /\ t \in Int /\ t \in ZonedInstants(z, w)
             /\ Guess(w) \in Int /\ Shift \in Int /\ t <= Guess(w) + Shift /\ Guess(w) - Shift <= t
  <2>1. w \in Int
    BY TimesOfDay
  <2>2. t \in ZonedInstants(z, w)
    BY <2>1, FiresAre
  <2> QED
    BY <2>1, <2>2, NearTheGuess
<1>3. found \subseteq all
  BY <1>1 DEF ToCome
<1>4. all \subseteq Int
  BY <1>2 DEF ToCome
<1>5. ASSUME all # {}
      PROVE  /\ found # {} /\ Min(found) = Min(all)
             /\ Min(all) \in all /\ \A t \in all : Min(all) <= t
  <2>1. Min(all) \in all /\ \A t \in all : Min(all) <= t
    <3>1. \A t \in all : t >= now
      BY <1>4 DEF ToCome
    <3> HIDE DEF all
    <3> QED
      BY <1>4, <1>5, <3>1, LeastAbove
  <2>2. PICK t \in all : t = Min(all)
    BY <2>1
  <2>3. PICK w \in Times(spec, d) : t \in Fires(spec, z, w) /\ t > now
    BY DEF ToCome
  <2>4. Guess(w) \in Int /\ Shift \in Int /\ t \in Int /\ t <= Guess(w) + Shift /\ Guess(w) - Shift <= t
    BY <1>2, <2>3
  <2>5. w \in tried
    <3> HIDE DEF Guess
    <3>1. Guess(w) >= now - Shift
      BY <2>3, <2>4
    <3> QED
      BY <3>1
  <2>6. ~Stopped(w)
    <3>1. ASSUME NEW v \in tried, NEW u \in late(v), Guess(w) > u + Shift PROVE FALSE
      <4>1. u \in all /\ u \in Int
        BY <1>2, <3>1 DEF ToCome
      <4>2. t <= u
        BY <2>1, <2>2, <4>1
      <4> HIDE DEF Guess
      <4> QED
        BY <2>4, <3>1, <4>1, <4>2
    <3> QED
      BY <3>1
  <2>7. t \in found
    BY <1>1, <2>3, <2>5, <2>6
  <2>8. Min(found) = t
    <3>1. found \subseteq Int /\ \A u \in found : t <= u
      BY <1>3, <1>4, <2>1, <2>2
    <3> HIDE DEF found, all
    <3> QED
      BY <2>7, <3>1, MinIs
  <2> QED
    BY <2>1, <2>2, <2>7, <2>8
<1> QED
  BY <1>3, <1>4, <1>5

\* What the server fires after `now`, of the days from `first` to the horizon's end.
ServerToCome(spec, z, first, now) ==
  {t \in UNION {UNION {ServerFires(spec, z, w) : w \in Times(spec, d)} :
                  d \in {c \in first .. DayOf(z, now) + CronHorizon - 1 : DayMatches(spec, c)}} : t > now}

LEMMA ToComeIs ==
  ASSUME NEW e \in Crons, Reads(e), NEW z \in Zones, NEW now \in Int, NEW first \in Int
  PROVE  \A t : t \in ServerToCome(Read(e), z, first, now) <=>
                  \E d \in first .. DayOf(z, now) + CronHorizon - 1 :
                     DayMatches(Read(e), d) /\ t \in ToCome(Read(e), z, d, now)
<1>1. ASSUME NEW d \in first .. DayOf(z, now) + CronHorizon - 1, NEW w \in Times(Read(e), d)
      PROVE  ServerFires(Read(e), z, w) = Fires(Read(e), z, w)
  <2>1. d \in Int
    OBVIOUS
  <2> QED
    BY <2>1, TimesOfDay, FiresAgree
<1>2. ASSUME NEW t, t \in ServerToCome(Read(e), z, first, now)
      PROVE  \E d \in first .. DayOf(z, now) + CronHorizon - 1 :
               DayMatches(Read(e), d) /\ t \in ToCome(Read(e), z, d, now)
  <2>1. t > now
    BY <1>2 DEF ServerToCome
  <2>2. PICK d \in first .. DayOf(z, now) + CronHorizon - 1 :
          DayMatches(Read(e), d) /\ t \in UNION {ServerFires(Read(e), z, w) : w \in Times(Read(e), d)}
    BY <1>2 DEF ServerToCome
  <2>3. PICK w \in Times(Read(e), d) : t \in ServerFires(Read(e), z, w)
    BY <2>2
  <2>4. t \in ToCome(Read(e), z, d, now)
    BY <1>1, <2>1, <2>3 DEF ToCome
  <2> QED
    BY <2>2, <2>4
<1>3. ASSUME NEW d \in first .. DayOf(z, now) + CronHorizon - 1, DayMatches(Read(e), d),
             NEW t \in ToCome(Read(e), z, d, now)
      PROVE  t \in ServerToCome(Read(e), z, first, now)
  <2>1. PICK w \in Times(Read(e), d) : t \in Fires(Read(e), z, w) /\ t > now
    BY DEF ToCome
  <2>2. t \in ServerFires(Read(e), z, w)
    BY <1>1, <2>1
  <2>3. t \in UNION {ServerFires(Read(e), z, v) : v \in Times(Read(e), d)}
    BY <2>2
  <2> QED
    BY <1>3, <2>1, <2>3 DEF ServerToCome
<1> QED
  BY <1>2, <1>3

\* Nothing of the days before today is to come.
LEMMA NothingOfBefore ==
  ASSUME NEW e \in Crons, Reads(e), NEW z \in Zones, KeepsDay(z), NEW now \in Int,
         NEW d \in Int, d < DayOf(z, now)
  PROVE  ToCome(Read(e), z, d, now) = {}
<1>1. ASSUME NEW t \in ToCome(Read(e), z, d, now) PROVE FALSE
  <2>1. PICK w \in Times(Read(e), d) : t \in Fires(Read(e), z, w) /\ t > now
    BY DEF ToCome
  <2>2. w \in Int /\ w \div DayUnits = d
    BY TimesOfDay
  <2>3. t \in ZonedInstants(z, w)
    BY <2>1, <2>2, FiresAre
  <2>4. t <= now /\ t \in Int
    BY <2>2, <2>3, FiredBefore, InstantIs
  <2> QED
    BY <2>1, <2>4
<1> QED
  BY <1>1

\* A fire of a day is before every one of a later day.
LEMMA DaysFireInOrder ==
  ASSUME NEW e \in Crons, Reads(e), NEW z \in Zones, KeepsDay(z), NEW now \in Int,
         NEW d \in Int, NEW c \in Int, d < c,
         NEW t \in ToCome(Read(e), z, d, now), NEW u \in ToCome(Read(e), z, c, now)
  PROVE  t < u
<1>1. PICK w \in Times(Read(e), d) : t \in Fires(Read(e), z, w)
  BY DEF ToCome
<1>2. PICK v \in Times(Read(e), c) : u \in Fires(Read(e), z, v)
  BY DEF ToCome
<1>3. w \in Int /\ w \div DayUnits = d /\ v \in Int /\ v \div DayUnits = c
  BY TimesOfDay
<1>4. t \in ZonedInstants(z, w) /\ u \in ZonedInstants(z, v)
  BY <1>1, <1>2, <1>3, FiresAre
<1>5. w \div DayUnits < v \div DayUnits
  BY <1>3
<1> QED
  BY <1>3, <1>4, <1>5, FiresInOrder

LEMMA TodayIs ==
  ASSUME NEW z \in Zones, NEW now \in Int
  PROVE  DayOf(z, now) \in Int
<1>1. Wall(z, now) \in Int /\ DayUnits \in Nat \ {0}
  BY ZoneFields DEF Wall, OffsetAt
<1> QED
  BY <1>1, Division DEF DayOf

\* The next occurrence is the first of the server's fires to come.
LEMMA NextIsTheFirst ==
  ASSUME NEW e \in Crons, Reads(e), NEW z \in Zones, KeepsDay(z), NEW now \in Int, NEW first \in Int,
         first <= DayOf(z, now)
  PROVE  /\ NextOccurrence(e, z, now) =
              IF ServerToCome(Read(e), z, first, now) = {} THEN Never ELSE Min(ServerToCome(Read(e), z, first, now))
         /\ ServerToCome(Read(e), z, first, now) # {} => NextOccurrence(e, z, now) \in ServerToCome(Read(e), z, first, now)
         /\ ServerToCome(Read(e), z, first, now) \subseteq Int
         /\ \A t \in ServerToCome(Read(e), z, first, now) : NextOccurrence(e, z, now) <= t
<1> DEFINE spec == Read(e)
           today == DayOf(z, now)
           fires == ServerToCome(spec, z, first, now)
           Found(d) == Searched(spec, z, d, now)
           days == {d \in today .. today + CronHorizon - 1 : DayMatches(spec, d) /\ Found(d) # {}}
<1>1. today \in Int /\ CronHorizon \in Nat \ {0}
  BY TodayIs, CronAssumption
<1>2. NextOccurrence(e, z, now) = IF days = {} THEN Never ELSE Min(Found(Min(days)))
  BY DEF NextOccurrence
<1>3. ASSUME NEW t \in fires
      PROVE  \E d \in days : t \in ToCome(spec, z, d, now)
  <2>1. PICK d \in first .. today + CronHorizon - 1 : DayMatches(spec, d) /\ t \in ToCome(spec, z, d, now)
    BY ToComeIs
  <2>2. d \in Int /\ ~(d < today)
    BY <1>1, <2>1, NothingOfBefore
  <2>3. Found(d) # {}
    BY <2>1, <2>2, SearchIsExact
  <2>4. d \in today .. today + CronHorizon - 1
    BY <1>1, <2>1, <2>2
  <2> QED
    BY <2>1, <2>3, <2>4
<1>4. ASSUME NEW d \in days
      PROVE  /\ ToCome(spec, z, d, now) \subseteq fires /\ ToCome(spec, z, d, now) # {}
             /\ d \in Int
  <2>1. d \in first .. today + CronHorizon - 1 /\ DayMatches(spec, d) /\ Found(d) # {} /\ d \in Int
    BY <1>1
  <2>2. ToCome(spec, z, d, now) # {}
    BY <2>1, SearchIsExact
  <2> QED
    BY <2>1, <2>2, ToComeIs
<1>5. fires \subseteq Int
  BY <1>3, <1>4, SearchIsExact
<1>6. CASE days = {}
  BY <1>2, <1>3, <1>6
<1>7. CASE days # {}
  <2>1. Min(days) \in days /\ \A d \in days : Min(days) <= d
    <3>1. days \subseteq Int /\ \A d \in days : d >= today
      BY <1>1
    <3> HIDE DEF days, today
    <3> QED
      BY <1>1, <1>7, <3>1, LeastAbove
  <2>2. PICK d \in days : d = Min(days)
    BY <2>1
  <2>3. PICK t \in Int : t = Min(ToCome(spec, z, d, now)) /\ t \in ToCome(spec, z, d, now) /\ t = Min(Found(d))
                         /\ \A u \in ToCome(spec, z, d, now) : t <= u
    BY <1>4, SearchIsExact
  <2>4. t \in fires
    BY <1>4, <2>3
  <2>5. ASSUME NEW u \in fires PROVE t <= u
    <3>1. PICK c \in days : u \in ToCome(spec, z, c, now)
      BY <1>3
    <3>2. c \in Int /\ d \in Int /\ d <= c /\ u \in Int
      BY <1>4, <1>5, <2>1, <2>2
    <3>3. CASE d = c
      BY <2>3, <3>1, <3>3
    <3>4. CASE d < c
      <4>1. t < u
        BY <2>3, <3>1, <3>2, <3>4, DaysFireInOrder
      <4> QED
        BY <3>2, <4>1
    <3> QED
      BY <3>2, <3>3, <3>4
  <2>6. NextOccurrence(e, z, now) = t
    BY <1>2, <1>7, <2>2, <2>3
  <2>7. Min(fires) = t
    <3> HIDE DEF fires
    <3> QED
      BY <1>5, <2>4, <2>5, MinIs
  <2> QED
    BY <1>5, <2>4, <2>5, <2>6, <2>7
<1> QED
  BY <1>5, <1>6, <1>7

\* Whatever the zone, the next occurrence is an instant.
LEMMA NextIsAnInstant ==
  ASSUME NEW e \in Crons, Reads(e), NEW z \in Zones, NEW now \in Int, NextOccurrence(e, z, now) # Never
  PROVE  NextOccurrence(e, z, now) \in Int
<1> DEFINE today == DayOf(z, now)
           Found(d) == Searched(Read(e), z, d, now)
           days == {d \in today .. today + CronHorizon - 1 : DayMatches(Read(e), d) /\ Found(d) # {}}
<1>1. days # {} /\ NextOccurrence(e, z, now) = Min(Found(Min(days)))
  BY DEF NextOccurrence
<1>2. Min(days) \in days
  <2>1. days \subseteq Int /\ (\A d \in days : d >= today) /\ today \in Int
    BY TodayIs
  <2> HIDE DEF days, today
  <2> QED
    BY <1>1, <2>1, LeastAbove
<1>3. PICK d \in Int : d = Min(days) /\ Found(d) # {}
  <2>1. today \in Int /\ CronHorizon \in Int
    BY TodayIs, CronAssumption
  <2>2. Min(days) \in today .. today + CronHorizon - 1 /\ Found(Min(days)) # {}
    BY <1>2
  <2> HIDE DEF today, days, Found
  <2> QED
    BY <2>1, <2>2
<1>4. Found(d) \subseteq ToCome(Read(e), z, d, now) /\ ToCome(Read(e), z, d, now) \subseteq Int
  BY SearchIsExact
<1>5. Found(d) \subseteq Int /\ \A t \in Found(d) : t >= now
  BY <1>4 DEF ToCome
<1>6. Min(Found(d)) \in Found(d)
  <2> HIDE DEF Found
  <2> QED
    BY <1>3, <1>5, LeastAbove
<1> QED
  BY <1>1, <1>3, <1>5, <1>6

Walking == cron \in CronFields /\ cronZone \in Zones /\ cursor \in Int

LEMMA WalkTyped == WalkSpec => []Walking
<1>1. WalkInit => Walking
  BY WalkAssumption DEF WalkInit, Walking
<1>2. Walking /\ [WalkNext]_walkVars => Walking'
  <2> SUFFICES ASSUME Walking, WalkNext PROVE Walking'
    BY DEF Walking, walkVars
  <2>1. cron \in Crons /\ Reads(cron)
    BY WalkAssumption DEF Walking
  <2>2. NextOccurrence(cron, cronZone, cursor) # Never => NextOccurrence(cron, cronZone, cursor) \in Int
    BY <2>1, NextIsAnInstant DEF Walking
  <2> QED
    BY <2>2 DEF WalkNext, Advance, Walking
<1> QED
  BY <1>1, <1>2, PTL DEF WalkSpec

\* The next run the browser promises is the next one the server fires: for every
\* crontab the server reads, every zone whose change keeps to one day and every instant.
THEOREM NextFireIsTrue == WalkSpec => []NextFireIsTheServers
<1>1. Walking => NextFireIsTheServers
  <2> SUFFICES ASSUME Walking, KeepsDay(cronZone)
               PROVE  NextOccurrence(cron, cronZone, cursor) =
                        IF ServerToCome(Read(cron), cronZone, DayOf(cronZone, cursor) - 2, cursor) = {} THEN Never
                        ELSE Min(ServerToCome(Read(cron), cronZone, DayOf(cronZone, cursor) - 2, cursor))
    BY DEF NextFireIsTheServers, ServerToCome
  <2>1. cron \in Crons /\ Reads(cron) /\ cronZone \in Zones /\ cursor \in Int
    BY WalkAssumption DEF Walking
  <2>2. DayOf(cronZone, cursor) - 2 \in Int /\ DayOf(cronZone, cursor) - 2 <= DayOf(cronZone, cursor)
    BY <2>1, TodayIs
  <2> QED
    BY <2>1, <2>2, NextIsTheFirst
<1> QED
  BY <1>1, WalkTyped, PTL

(* ------------------------------ the horizon ------------------------------- *)

\* The fires of the days after today are to come.
LEMMA FiresAfterToday ==
  ASSUME NEW z \in Zones, KeepsDay(z), NEW v \in Int, NEW now \in Int,
         DayOf(z, now) < v \div DayUnits, NEW t \in ZonedInstants(z, v)
  PROVE  now < t
<1>1. PICK J \in Int, B \in Int, A \in Int : J = z.jump /\ B = z.before /\ A = z.after
  BY ZoneFields
<1>2. PICK w \in Int : w = Wall(z, now)
  BY ZoneFields DEF Wall, OffsetAt
<1>3. w = IF now < J THEN now + B ELSE now + A
  BY <1>1, <1>2 DEF Wall, OffsetAt
<1>4. w \div DayUnits < v \div DayUnits
  BY <1>2 DEF DayOf
<1>5. w < v
  BY <1>4, LaterDay, ZoneFields
<1>6. /\ t \in Int
      /\ \/ t = v - B /\ t < J
         \/ t = v - A /\ t >= J
         \/ t = v - B /\ t >= J /\ v - A < J
  BY <1>1, InstantIs
<1>7. A < B => ~(w >= J + A /\ v < J + B)
  BY <1>1, <1>4, OneDay
<1> QED
  BY <1>3, <1>5, <1>6, <1>7

Period == 2 * MonthDays * WeekDays

\* The calendar repeats.
LEMMA CalendarRepeats ==
  ASSUME NEW spec, NEW d \in Int
  PROVE  /\ Period \in Nat \ {0} /\ d + Period \in Int
         /\ DayMatches(spec, d + Period) <=> DayMatches(spec, d)
<1>1. PICK M \in Nat \ {0}, W \in Nat \ {0} : M = MonthDays /\ W = WeekDays
  BY ZonesAssumption, CronAssumption
<1>2. PICK p \in Int : p = 2 * M * W
  BY <1>1
<1>3. Period = p /\ p > 0 /\ p = (2 * W) * M /\ p = (2 * M) * W
  <2>1. M * W > 0
    BY <1>1
  <2> QED
    BY <1>1, <1>2, <2>1 DEF Period
<1>4. ASSUME NEW n \in Nat \ {0}, NEW k \in Int, p = k * n
      PROVE  (d + p) \div n = d \div n + k /\ (d + p) % n = d % n
  <2>1. PICK q \in Int, r \in Int : q = d \div n /\ r = d % n
    BY Division
  <2>2. q * n <= d /\ d < q * n + n /\ d = q * n + r
    BY <2>1, Division
  <2>3. (q + k) * n = q * n + k * n
    OBVIOUS
  <2>4. (q + k) * n <= d + p /\ d + p < (q + k) * n + n
    BY <1>4, <2>2, <2>3
  <2>5. (d + p) \div n = q + k
    BY <2>4, DayIs
  <2>6. PICK s \in Int : s = (d + p) % n /\ d + p = (q + k) * n + s
    <3>1. PICK x \in Int : x = d + p
      OBVIOUS
    <3>2. x = (x \div n) * n + (x % n) /\ x % n \in Int
      BY Division
    <3> QED
      BY <2>5, <3>1, <3>2
  <2>7. s = r
    BY <1>4, <2>2, <2>3, <2>6
  <2> QED
    BY <2>1, <2>5, <2>6, <2>7
<1>5. (d + p) \div M = d \div M + 2 * W /\ (d + p) % M = d % M
  <2>1. PICK k \in Int : k = 2 * W
    BY <1>1
  <2> QED
    BY <1>1, <1>3, <1>4, <2>1
<1>6. (d + p) % W = d % W
  <2>1. PICK k \in Int : k = 2 * M
    BY <1>1
  <2> QED
    BY <1>1, <1>3, <1>4, <2>1
<1>7. (d \div M + 2 * W) % 2 = (d \div M) % 2
  <2>1. PICK q \in Int : q = d \div M
    BY <1>1, Division
  <2>2. (q + 2 * W) % 2 = q % 2
    BY <1>1
  <2> QED
    BY <2>1, <2>2
<1> QED
  BY <1>1, <1>3, <1>5, <1>6, <1>7 DEF DayMatches

\* A day that matches has one like it within a period of any day.
LEMMA MatchesAgain ==
  ASSUME NEW spec, NEW d \in Int, DayMatches(spec, d), NEW today \in Int, d > today
  PROVE  \E c \in today + 1 .. today + Period : DayMatches(spec, c)
<1> DEFINE later == {c \in Int : c > today /\ DayMatches(spec, c)}
<1>1. PICK c \in later : \A b \in later : c <= b
  <2>1. later \subseteq Int /\ d \in later /\ \A b \in later : b >= today
    OBVIOUS
  <2> HIDE DEF later
  <2> QED
    BY <2>1, LeastAbove
<1>2. Period \in Nat \ {0}
  BY CalendarRepeats
<1>3. CASE c <= today + Period
  BY <1>1, <1>2, <1>3
<1>4. CASE c > today + Period
  <2>1. c - Period \in Int /\ (c - Period) + Period = c
    BY <1>1, <1>2
  <2>2. DayMatches(spec, c - Period)
    BY <1>1, <2>1, CalendarRepeats
  <2>3. c - Period \in later
    BY <1>2, <1>4, <2>1, <2>2
  <2> QED
    BY <1>1, <1>2, <2>1, <2>3
<1> QED
  BY <1>1, <1>2, <1>3, <1>4

\* With a horizon longer than the calendar takes to repeat (HORIZON_DAYS, eight years), no
\* fire of the server, of any day, is before the next occurrence, which is one of them.
THEOREM NoFireIsMissed ==
  ASSUME CronHorizon > Period,
         NEW e \in Crons, Reads(e), NEW z \in Zones, KeepsDay(z), NEW now \in Int,
         NEW d \in Int, DayMatches(Read(e), d), NEW w \in Times(Read(e), d),
         NEW t \in ServerFires(Read(e), z, w), t > now
  PROVE  /\ now < NextOccurrence(e, z, now) /\ NextOccurrence(e, z, now) <= t
         /\ \E c \in Int : /\ DayMatches(Read(e), c)
                           /\ \E v \in Times(Read(e), c) : NextOccurrence(e, z, now) \in ServerFires(Read(e), z, v)
<1> DEFINE spec == Read(e)
           today == DayOf(z, now)
           fires == ServerToCome(spec, z, today, now)
<1>1. today \in Int /\ CronHorizon \in Int /\ Period \in Nat \ {0}
  BY TodayIs, CronAssumption, CalendarRepeats
<1>2. t \in ToCome(spec, z, d, now) /\ t \in Int
  <2>1. w \in Int
    BY TimesOfDay
  <2>2. t \in Fires(spec, z, w)
    BY <2>1, FiresAgree
  <2>3. t \in ToCome(spec, z, d, now)
    BY <2>2 DEF ToCome
  <2> QED
    BY <2>3, SearchIsExact
<1>3. d >= today
  BY <1>1, <1>2, NothingOfBefore
<1>4. \E u \in fires : u <= t
  <2>1. CASE d <= today + CronHorizon - 1
    <3>1. d \in today .. today + CronHorizon - 1
      BY <1>1, <1>3, <2>1
    <3> QED
      BY <1>1, <1>2, <3>1, ToComeIs
  <2>2. CASE d > today + CronHorizon - 1
    <3>1. PICK c \in today + 1 .. today + Period : DayMatches(spec, c)
      <4>1. d > today
        BY <1>1, <2>2
      <4> HIDE DEF today
      <4> QED
        BY <1>1, <4>1, MatchesAgain
    <3>2. c \in Int /\ c \in today .. today + CronHorizon - 1 /\ c < d /\ today < c
      BY <1>1, <2>2
    <3>3. PICK h \in spec.hours, m \in spec.minutes : w = WallTime(d, h * HourUnits + m)
      BY DEF Times
    <3>4. PICK v \in Times(spec, c) : v = WallTime(c, h * HourUnits + m)
      BY DEF Times
    <3>5. v \in Int /\ v \div DayUnits = c
      BY <3>2, TimesOfDay
    <3>6. PICK u \in Fires(spec, z, v) : u \in ZonedInstants(z, v)
      BY <3>5, FiresAre
    <3>7. u > now
      BY <3>2, <3>5, <3>6, FiresAfterToday, InstantIs
    <3>8. u \in ToCome(spec, z, c, now)
      BY <3>6, <3>7 DEF ToCome
    <3>9. u \in fires
      BY <1>1, <3>1, <3>2, <3>8, ToComeIs
    <3>10. u < t
      BY <1>2, <3>2, <3>8, DaysFireInOrder
    <3>11. u \in Int
      BY <3>5, <3>6, InstantIs
    <3> QED
      BY <1>2, <3>9, <3>10, <3>11
  <2> QED
    BY <1>1, <2>1, <2>2
<1>5. /\ NextOccurrence(e, z, now) \in fires /\ fires \subseteq Int
      /\ \A u \in fires : NextOccurrence(e, z, now) <= u
  BY <1>1, <1>4, NextIsTheFirst
<1>6. NextOccurrence(e, z, now) <= t
  BY <1>2, <1>4, <1>5
<1>7. now < NextOccurrence(e, z, now)
  <2>1. NextOccurrence(e, z, now) > now
    BY <1>5 DEF ServerToCome
  <2> QED
    BY <1>5, <2>1
<1>8. PICK c \in today .. today + CronHorizon - 1 :
        DayMatches(spec, c) /\ NextOccurrence(e, z, now) \in UNION {ServerFires(spec, z, v) : v \in Times(spec, c)}
  BY <1>5 DEF ServerToCome
<1>9. c \in Int
  BY <1>1
<1> QED
  BY <1>6, <1>7, <1>8, <1>9

(* --------------------------- the schedule form ---------------------------- *)

\* The calendar has an hour, a day and a week or more, so that `*` is read in every field.
LEMMA Calendar ==
  /\ HourUnits \in Nat \ {0} /\ MonthDays \in Nat /\ WeekDays \in Nat
  /\ 1 \in 0 .. HourRule.hi /\ 1 \in SafeDays /\ 1 \in Weekdays
  /\ HourRule.hi \in Int /\ MinuteRule.hi \in Nat /\ DomRule.hi \in Int /\ DowRule.hi \in Int
<1>1. HourRule.hi = DayUnits \div HourUnits - 1 /\ MinuteRule.hi = HourUnits - 1 /\ DomRule.hi = MonthDays
      /\ DowRule.hi = WeekDays - 1
  BY DEF HourRule, MinuteRule, DomRule, DowRule, Rule
<1>2. /\ DayUnits \in Nat /\ HourUnits \in Nat \ {0} /\ MonthDays \in Nat \ {0} /\ WeekDays \in Nat \ {0}
  BY ZonesAssumption, CronAssumption
<1>3. <<1, 0>> \in (0 .. HourRule.hi) \X (0 .. MinuteRule.hi)
  BY BuilderAssumption DEF Defaults, Clock
<1>4. 1 \in Weekdays /\ 1 \in SafeDays
  BY BuilderAssumption DEF Defaults
<1> QED
  BY <1>1, <1>2, <1>3, <1>4

LEMMA RuleFields ==
  ASSUME NEW lo, NEW hi, NEW max
  PROVE  Rule(lo, hi, max).lo = lo /\ Rule(lo, hi, max).hi = hi /\ Rule(lo, hi, max).max = max
BY DEF Rule

LEMMA PartFields ==
  /\ \A n : Num(n).first = n /\ Num(n).last = None /\ Num(n).step = None
  /\ \A n : Every(n).first = None /\ Every(n).last = None /\ Every(n).step = n
  /\ Star.first = None /\ Star.last = None /\ Star.step = None
BY DEF Num, Every, Star

\* A number, a `*` and a step the dropdowns write are parts the server accepts.
LEMMA NumberAccepted ==
  ASSUME NEW lo \in Int, NEW hi \in Int, NEW max \in Int, NEW n \in lo .. max, lo >= 0
  PROVE  Accepts(Num(n), Rule(lo, hi, max))
<1>1. n # None
  BY DEF None
<1> QED
  BY <1>1, PartFields, RuleFields DEF Accepts, Low, High

LEMMA StarAccepted ==
  ASSUME NEW lo \in Int, NEW hi \in Int, NEW max \in Int, lo <= hi, hi <= max
  PROVE  Accepts(Star, Rule(lo, hi, max))
BY PartFields, RuleFields DEF Accepts, Low, High, None

LEMMA StepAccepted ==
  ASSUME NEW n \in 1 .. MinuteRule.hi
  PROVE  Accepts(Every(n), MinuteRule)
<1>1. MinuteRule.lo = 0 /\ MinuteRule.hi = HourUnits - 1 /\ MinuteRule.max = HourUnits - 1 /\ HourUnits \in Nat
  BY RuleFields, Calendar DEF MinuteRule
<1> QED
  BY <1>1, PartFields DEF Accepts, Low, High, None

LEMMA WildsAccepted ==
  /\ Accepts(Star, MinuteRule) /\ Accepts(Star, HourRule) /\ Accepts(Star, DomRule)
  /\ Accepts(Star, MonthRule) /\ Accepts(Star, DowRule)
<1>1. Accepts(Star, MinuteRule)
  BY Calendar, StarAccepted, RuleFields DEF MinuteRule
<1>2. Accepts(Star, HourRule)
  BY Calendar, StarAccepted, RuleFields DEF HourRule
<1>3. Accepts(Star, DomRule)
  BY Calendar, StarAccepted, CronAssumption DEF DomRule
<1>4. Accepts(Star, MonthRule)
  BY StarAccepted DEF MonthRule
<1>5. Accepts(Star, DowRule)
  BY Calendar, StarAccepted, RuleFields, ZonesAssumption DEF DowRule
<1> QED
  BY <1>1, <1>2, <1>3, <1>4, <1>5

\* A field of one part, and of one number.
LEMMA OnePart ==
  ASSUME NEW p
  PROVE  PartOf({p}) = p /\ Cardinality({p}) = 1
BY FS_Singleton DEF PartOf

LEMMA OneNumber ==
  ASSUME NEW n \in Int, n # None
  PROVE  /\ Number({Num(n)}) /\ Value({Num(n)}) = n /\ {Num(n)} # Wild
         /\ PartOf({Num(n)}).first # None
<1>1. Values({Num(n)}) = {n}
  BY PartFields DEF Values
<1>2. Value({Num(n)}) = n
  BY <1>1 DEF Value, Min
<1>3. Cardinality({Num(n)}) = 1 /\ PartOf({Num(n)}) = Num(n)
  BY OnePart
<1>4. NumbersIn({Num(n)})
  BY PartFields DEF NumbersIn
<1>5. {Num(n)} # Wild
  BY PartFields DEF Wild
<1> QED
  BY <1>2, <1>3, <1>4, <1>5, PartFields DEF Number

LEMMA NumberIsOne ==
  ASSUME NEW field \in CronField, Number(field)
  PROVE  field = {Num(Value(field))} /\ Value(field) \in Int /\ Value(field) # None
<1>1. IsFiniteSet(field) /\ field \subseteq Parts
  BY DEF CronField
<1>2. PICK p : field = {p}
  BY <1>1, FS_Singleton DEF Number
<1>3. p = Num(p.first) /\ p.first # None /\ p.first \in Int
  BY <1>1, <1>2 DEF Number, NumbersIn, Parts
<1>4. Value({Num(p.first)}) = p.first
  BY <1>3, OneNumber
<1> QED
  BY <1>2, <1>3, <1>4

LEMMA NumbersAreTheirValues ==
  ASSUME NEW field, NumbersIn(field)
  PROVE  field = {Num(v) : v \in Values(field)}
BY DEF NumbersIn, Values

(* The fields of an expression.                                                  *)
LEMMA ExpressionFields ==
  ASSUME NEW minute, NEW hour, NEW dom, NEW month, NEW dow
  PROVE  LET e == Expression(minute, hour, dom, month, dow)
         IN  e.minute = minute /\ e.hour = hour /\ e.dom = dom /\ e.month = month /\ e.dow = dow
BY DEF Expression

LEMMA ExpressionOf ==
  ASSUME NEW e \in Crons
  PROVE  /\ e = Expression(e.minute, e.hour, e.dom, e.month, e.dow)
         /\ e.minute \in CronField /\ e.hour \in CronField /\ e.dom \in CronField /\ e.month \in CronField
         /\ e.dow \in CronField
BY DEF Crons, Expression

LEMMA ExpressionTyped ==
  ASSUME NEW minute \in CronField, NEW hour \in CronField, NEW dom \in CronField, NEW month \in CronField,
         NEW dow \in CronField
  PROVE  Expression(minute, hour, dom, month, dow) \in Crons
BY DEF Expression, Crons

LEMMA OneIsAField ==
  ASSUME NEW p \in Parts
  PROVE  {p} \in CronField
BY FS_Singleton DEF CronField

LEMMA FieldsWritten ==
  /\ Wild \in CronField
  /\ \A n \in Int : {Num(n)} \in CronField /\ {Every(n)} \in CronField
  /\ \A days \in SUBSET Weekdays : days # {} => {Num(d) : d \in days} \in CronField
<1>1. Star \in Parts /\ \A n \in Int : Num(n) \in Parts /\ Every(n) \in Parts
  BY DEF Star, Num, Every, Parts, None
<1>2. ASSUME NEW days \in SUBSET Weekdays, days # {} PROVE {Num(d) : d \in days} \in CronField
  <2>1. IsFiniteSet(Weekdays)
    BY Calendar, FS_Interval DEF Weekdays
  <2>2. IsFiniteSet(days)
    BY <2>1, FS_Subset
  <2>3. IsFiniteSet({Num(d) : d \in days})
    <3>1. [d \in days |-> Num(d)] \in Surjection(days, {Num(d) : d \in days})
      BY DEF Surjection
    <3> QED
      BY <2>2, <3>1, FS_Surjection
  <2>4. days \subseteq Int
    BY Calendar DEF Weekdays
  <2> QED
    BY <1>1, <1>2, <2>3, <2>4 DEF CronField
<1> QED
  BY <1>1, <1>2, OneIsAField DEF Wild

\* Of a form: each dropdown holds one of its options.
FormRow ==
  [mode : Modes, everyMinutes : {1} \cup 1 .. MinuteRule.hi, atMinute : 0 .. MinuteRule.hi, time : Clock,
   days : SUBSET Weekdays, dayOfMonth : SafeDays, custom : Crons \cup {Manual}]

LEMMA Written ==
  ASSUME NEW f
  PROVE  /\ f.mode = "none" => ToCron(f) = Manual
         /\ f.mode = "minutes" =>
              ToCron(f) = Expression(IF f.everyMinutes <= 1 THEN Wild ELSE {Every(f.everyMinutes)}, Wild, Wild, Wild, Wild)
         /\ f.mode = "hourly"  => ToCron(f) = Expression({Num(f.atMinute)}, Wild, Wild, Wild, Wild)
         /\ f.mode = "daily"   => ToCron(f) = Expression({Num(f.time[2])}, {Num(f.time[1])}, Wild, Wild, Wild)
         /\ f.mode = "weekly"  =>
              ToCron(f) = IF f.days = {} THEN Manual
                          ELSE Expression({Num(f.time[2])}, {Num(f.time[1])}, Wild, Wild, {Num(d) : d \in f.days})
         /\ f.mode = "monthly" => ToCron(f) = Expression({Num(f.time[2])}, {Num(f.time[1])}, {Num(f.dayOfMonth)}, Wild, Wild)
         /\ f.mode = "custom"  => ToCron(f) = f.custom
<1>1. f.mode = "none" => ToCron(f) = Manual
  BY Zenon DEF ToCron
<1>2. f.mode = "minutes" =>
        ToCron(f) = Expression(IF f.everyMinutes <= 1 THEN Wild ELSE {Every(f.everyMinutes)}, Wild, Wild, Wild, Wild)
  BY Zenon DEF ToCron
<1>3. f.mode = "hourly" => ToCron(f) = Expression({Num(f.atMinute)}, Wild, Wild, Wild, Wild)
  BY Zenon DEF ToCron
<1>4. f.mode = "daily" => ToCron(f) = Expression({Num(f.time[2])}, {Num(f.time[1])}, Wild, Wild, Wild)
  BY Zenon DEF ToCron
<1>5. f.mode = "weekly" =>
        ToCron(f) = IF f.days = {} THEN Manual
                    ELSE Expression({Num(f.time[2])}, {Num(f.time[1])}, Wild, Wild, {Num(d) : d \in f.days})
  BY Zenon DEF ToCron
<1>6. f.mode = "monthly" =>
        ToCron(f) = Expression({Num(f.time[2])}, {Num(f.time[1])}, {Num(f.dayOfMonth)}, Wild, Wild)
  BY Zenon DEF ToCron
<1>7. f.mode = "custom" => ToCron(f) = f.custom
  BY Zenon DEF ToCron
<1> QED
  BY <1>1, <1>2, <1>3, <1>4, <1>5, <1>6, <1>7

LEMMA WrittenMinutes ==
  ASSUME NEW f, f.mode = "minutes", f.everyMinutes \in Nat
  PROVE  /\ f.everyMinutes = 1 => ToCron(f) = Expression(Wild, Wild, Wild, Wild, Wild)
         /\ f.everyMinutes > 1 => ToCron(f) = Expression({Every(f.everyMinutes)}, Wild, Wild, Wild, Wild)
<1>1. PICK minute : minute = IF f.everyMinutes <= 1 THEN Wild ELSE {Every(f.everyMinutes)}
  OBVIOUS
<1>2. ToCron(f) = Expression(minute, Wild, Wild, Wild, Wild)
  BY <1>1, Written, Zenon
<1>3. (f.everyMinutes = 1 => minute = Wild) /\ (f.everyMinutes > 1 => minute = {Every(f.everyMinutes)})
  BY <1>1
<1> QED
  BY <1>2, <1>3

\* The shapes parseCron tells apart, in its order.
Timed(e)    == e.month = Wild /\ Number(e.minute) /\ Number(e.hour)
EveryDay(e) == e.dom = Wild /\ e.dow = Wild
IsMinutes(e) ==
  e.month = Wild /\ Cardinality(e.minute) = 1 /\ PartOf(e.minute).first = None /\ e.hour = Wild /\ EveryDay(e)
IsHourly(e)  == e.month = Wild /\ Number(e.minute) /\ e.hour = Wild /\ EveryDay(e)
IsDaily(e)   == Timed(e) /\ EveryDay(e)
IsWeekly(e)  == Timed(e) /\ e.dom = Wild /\ NumbersIn(e.dow) /\ Values(e.dow) \subseteq Weekdays
IsMonthly(e) == Timed(e) /\ e.dow = Wild /\ Number(e.dom) /\ Value(e.dom) \in SafeDays

LEMMA Parsed ==
  ASSUME NEW e
  PROVE  /\ IsMinutes(e) => ParseCron(e) = [In("minutes") EXCEPT !.everyMinutes = IF e.minute = Wild THEN 1 ELSE PartOf(e.minute).step]
         /\ IsHourly(e) /\ ~IsMinutes(e) => ParseCron(e) = [In("hourly") EXCEPT !.atMinute = Value(e.minute)]
         /\ IsDaily(e) /\ ~IsMinutes(e) /\ ~IsHourly(e) =>
              ParseCron(e) = [In("daily") EXCEPT !.time = <<Value(e.hour), Value(e.minute)>>]
         /\ IsWeekly(e) /\ ~IsMinutes(e) /\ ~IsHourly(e) /\ ~IsDaily(e) =>
              ParseCron(e) = [In("weekly") EXCEPT !.time = <<Value(e.hour), Value(e.minute)>>, !.days = Values(e.dow)]
         /\ IsMonthly(e) /\ ~IsMinutes(e) /\ ~IsHourly(e) /\ ~IsDaily(e) /\ ~IsWeekly(e) =>
              ParseCron(e) = [In("monthly") EXCEPT !.time = <<Value(e.hour), Value(e.minute)>>, !.dayOfMonth = Value(e.dom)]
         /\ ~IsMinutes(e) /\ ~IsHourly(e) /\ ~IsDaily(e) /\ ~IsWeekly(e) /\ ~IsMonthly(e) =>
              ParseCron(e) = [In("custom") EXCEPT !.custom = e]
BY DEF ParseCron, IsMinutes, IsHourly, IsDaily, IsWeekly, IsMonthly, Timed, EveryDay

\* A form of a mode, with one dropdown set.
LEMMA Fresh ==
  ASSUME NEW mode, NEW v, NEW w
  PROVE  /\ LET f == [In(mode) EXCEPT !.everyMinutes = v] IN f.mode = mode /\ f.everyMinutes = v
         /\ LET f == [In(mode) EXCEPT !.atMinute = v] IN f.mode = mode /\ f.atMinute = v
         /\ LET f == [In(mode) EXCEPT !.time = v] IN f.mode = mode /\ f.time = v
         /\ LET f == [In(mode) EXCEPT !.time = v, !.days = w] IN f.mode = mode /\ f.time = v /\ f.days = w
         /\ LET f == [In(mode) EXCEPT !.time = v, !.dayOfMonth = w] IN f.mode = mode /\ f.time = v /\ f.dayOfMonth = w
         /\ LET f == [In(mode) EXCEPT !.custom = v] IN f.mode = mode /\ f.custom = v
         /\ In(mode).mode = mode
BY DEF In, Defaults

LEMMA FreshTyped ==
  ASSUME NEW mode \in Modes
  PROVE  /\ In(mode) \in FormRow
         /\ \A v \in {1} \cup 1 .. MinuteRule.hi : [In(mode) EXCEPT !.everyMinutes = v] \in FormRow
         /\ \A v \in 0 .. MinuteRule.hi : [In(mode) EXCEPT !.atMinute = v] \in FormRow
         /\ \A v \in Clock : [In(mode) EXCEPT !.time = v] \in FormRow
         /\ \A v \in Clock, w \in SUBSET Weekdays : [In(mode) EXCEPT !.time = v, !.days = w] \in FormRow
         /\ \A v \in Clock, w \in SafeDays : [In(mode) EXCEPT !.time = v, !.dayOfMonth = w] \in FormRow
         /\ \A v \in Crons : [In(mode) EXCEPT !.custom = v] \in FormRow
<1>1. In(mode) = [mode |-> mode, everyMinutes |-> 1, atMinute |-> 0, time |-> <<1, 0>>,
                  days |-> {1}, dayOfMonth |-> 1, custom |-> Manual]
  BY DEF In, Defaults
<1>2. <<1, 0>> \in Clock /\ {1} \in SUBSET Weekdays /\ 1 \in SafeDays /\ 0 \in 0 .. MinuteRule.hi
  BY BuilderAssumption, Calendar DEF Defaults
<1>3. In(mode) \in FormRow
  BY <1>1, <1>2 DEF FormRow
<1> QED
  BY <1>3 DEF FormRow

\* What the server accepts of a number is within its rule.
LEMMA NumberWithin ==
  ASSUME NEW lo \in Int, NEW hi \in Int, NEW max \in Int, NEW n \in Int, n # None, Accepts(Num(n), Rule(lo, hi, max))
  PROVE  n \in lo .. max
BY PartFields, RuleFields DEF Accepts, Low, High

LEMMA TimeRead ==
  ASSUME NEW e \in Crons, Reads(e), Number(e.minute)
  PROVE  /\ Value(e.minute) \in 0 .. MinuteRule.hi
         /\ Number(e.hour) => <<Value(e.hour), Value(e.minute)>> \in Clock
<1>1. e.minute = {Num(Value(e.minute))} /\ Value(e.minute) \in Int /\ Value(e.minute) # None
  BY ExpressionOf, NumberIsOne
<1>2. Value(e.minute) \in 0 .. HourUnits - 1
  <2>1. Accepts(Num(Value(e.minute)), Rule(0, HourUnits - 1, HourUnits - 1))
    BY <1>1 DEF Reads, MinuteRule
  <2> QED
    BY <1>1, <2>1, NumberWithin, Calendar
<1>3. MinuteRule.hi = HourUnits - 1
  BY RuleFields DEF MinuteRule
<1>4. ASSUME Number(e.hour) PROVE Value(e.hour) \in 0 .. HourRule.hi
  <2>1. e.hour = {Num(Value(e.hour))} /\ Value(e.hour) \in Int /\ Value(e.hour) # None
    BY <1>4, ExpressionOf, NumberIsOne
  <2>2. HourRule = Rule(0, HourRule.hi, HourRule.hi)
    BY RuleFields DEF HourRule
  <2>3. Accepts(Num(Value(e.hour)), Rule(0, HourRule.hi, HourRule.hi))
    BY <2>1, <2>2 DEF Reads
  <2>4. PICK hi \in Int : hi = HourRule.hi
    BY Calendar
  <2>5. PICK n \in Int : n = Value(e.hour)
    BY <2>1
  <2>6. n # None /\ Accepts(Num(n), Rule(0, hi, hi))
    BY <2>1, <2>3, <2>4, <2>5
  <2>7. n \in 0 .. hi
    BY <2>6, NumberWithin
  <2> QED
    BY <2>4, <2>5, <2>7
<1> QED
  BY <1>2, <1>3, <1>4 DEF Clock

\* The numbers of a field of minutes that steps by one are those of `*`.
LEMMA EveryMinute == Expand({Every(1)}, MinuteRule) = Expand(Wild, MinuteRule)
<1>1. Low(Every(1), MinuteRule) = Low(Star, MinuteRule) /\ High(Every(1), MinuteRule) = High(Star, MinuteRule)
  BY PartFields DEF Low, High
<1>2. \A field \in {{Every(1)}, Wild} : Expand(field, MinuteRule) =
        {v \in Low(Star, MinuteRule) .. High(Star, MinuteRule) : (v - Low(Star, MinuteRule)) % 1 = 0}
  BY <1>1, PartFields DEF Expand, Wild, None
<1> QED
  BY <1>2

LEMMA SameButMinute ==
  ASSUME NEW one, NEW other, NEW hour, NEW dom, NEW month, NEW dow,
         Expand(one, MinuteRule) = Expand(other, MinuteRule)
  PROVE  Read(Expression(one, hour, dom, month, dow)) = Read(Expression(other, hour, dom, month, dow))
<1>1. PICK a : a = Expression(one, hour, dom, month, dow)
  OBVIOUS
<1>2. PICK b : b = Expression(other, hour, dom, month, dow)
  OBVIOUS
<1>3. Expand(a.minute, MinuteRule) = Expand(b.minute, MinuteRule) /\ a.hour = b.hour /\ a.dom = b.dom
      /\ a.month = b.month /\ a.dow = b.dow
  BY <1>1, <1>2 DEF Expression
<1>4. Read(a) = Read(b)
  BY <1>3, Zenon DEF Read, Pinned
<1> QED
  BY <1>1, <1>2, <1>4

\* No expression is the empty one.
LEMMA SomeExpression ==
  ASSUME NEW e \in Crons
  PROVE  e # Manual
BY ExpressionOf, ExpressionFields DEF Manual, CronField

\* An expression the server can read opens as a form that means the same.
LEMMA OpensAsItself ==
  ASSUME NEW e \in Crons, Reads(e)
  PROVE  ParseCron(e) \in FormRow /\ ToCron(ParseCron(e)) # Manual /\ Read(ToCron(ParseCron(e))) = Read(e)
<1>0. /\ e = Expression(e.minute, e.hour, e.dom, e.month, e.dow) /\ e # Manual
      /\ e.minute \in CronField /\ e.hour \in CronField /\ e.dom \in CronField /\ e.dow \in CronField
  BY ExpressionOf, SomeExpression
<1> DEFINE f == ParseCron(e)
<1>t. ASSUME Timed(e)
      PROVE  /\ e.minute = {Num(Value(e.minute))} /\ e.hour = {Num(Value(e.hour))} /\ e.month = Wild
             /\ <<Value(e.hour), Value(e.minute)>> \in Clock
  BY <1>0, <1>t, NumberIsOne, TimeRead DEF Timed
<1>1. CASE IsMinutes(e)
  <2>1. PICK p \in Parts : e.minute = {p}
    BY <1>0, <1>1, FS_Singleton DEF IsMinutes, CronField
  <2>2. p.first = None /\ p.last = None /\ p = [first |-> None, last |-> None, step |-> p.step] /\ p.step \in Int
    BY <1>1, <2>1, OnePart DEF IsMinutes, Parts
  <2>3. p.step = None \/ p.step \in 1 .. MinuteRule.hi
    <3>1. Accepts(p, MinuteRule)
      BY <2>1 DEF Reads
    <3>2. MinuteRule.max - MinuteRule.lo = MinuteRule.hi /\ MinuteRule.hi \in Nat
      BY RuleFields, Calendar DEF MinuteRule
    <3> QED
      BY <2>2, <3>1, <3>2 DEF Accepts
  <2>4. PICK n : n = IF e.minute = Wild THEN 1 ELSE PartOf(e.minute).step
    OBVIOUS
  <2>5. f = [In("minutes") EXCEPT !.everyMinutes = n]
    BY <1>1, <2>4, Parsed
  <2>6. f.mode = "minutes" /\ f.everyMinutes = n
    BY <2>5, Fresh
  <2>7. PICK minute : minute = IF n <= 1 THEN Wild ELSE {Every(n)}
    OBVIOUS
  <2>8. ToCron(f) = Expression(minute, Wild, Wild, Wild, Wild)
    BY <2>6, <2>7, Written
  <2>9. e = Expression(e.minute, Wild, Wild, Wild, Wild)
    BY <1>0, <1>1 DEF IsMinutes, EveryDay
  <2>10. CASE p.step = None
    <3>1. p = Star /\ e.minute = Wild
      BY <2>1, <2>2, <2>10 DEF Star, Wild
    <3>2. n = 1 /\ minute = Wild
      BY <2>4, <2>7, <3>1
    <3>3. f \in FormRow
      <4>1. n \in {1} \cup 1 .. MinuteRule.hi
        BY <3>2
      <4>2. "minutes" \in Modes
        BY DEF Modes
      <4> QED
        BY <2>5, <4>1, <4>2, FreshTyped
    <3>4. ToCron(f) = Expression(e.minute, Wild, Wild, Wild, Wild)
      BY <2>8, <3>1, <3>2
    <3> QED
      BY <1>0, <2>9, <3>3, <3>4
  <2>11. CASE p.step \in 1 .. MinuteRule.hi
    <3>1. p = Every(p.step) /\ p # Star
      BY <2>2, <2>11 DEF Every, Star, None
    <3>2. n = p.step
      BY <2>1, <2>4, <3>1, OnePart DEF Wild
    <3>3. f \in FormRow
      <4>1. n \in {1} \cup 1 .. MinuteRule.hi
        BY <2>11, <3>2
      <4>2. "minutes" \in Modes
        BY DEF Modes
      <4> QED
        BY <2>5, <4>1, <4>2, FreshTyped
    <3>4. CASE n = 1
      <4>1. minute = Wild /\ e.minute = {Every(1)}
        BY <2>1, <2>7, <3>1, <3>2, <3>4
      <4>2. Read(ToCron(f)) = Read(e)
        BY <2>8, <2>9, <4>1, EveryMinute, SameButMinute
      <4>3. ToCron(f) # Manual
        BY <2>8, <4>1, FieldsWritten, ExpressionTyped, SomeExpression
      <4> QED
        BY <3>3, <4>2, <4>3
    <3>5. CASE n # 1
      <4>1. minute = e.minute
        BY <2>1, <2>7, <2>11, <3>1, <3>2, <3>5
      <4> QED
        BY <1>0, <2>8, <2>9, <3>3, <4>1
    <3> QED
      BY <3>4, <3>5
  <2> QED
    BY <2>3, <2>10, <2>11
<1>2. CASE IsHourly(e) /\ ~IsMinutes(e)
  <2>1. f = [In("hourly") EXCEPT !.atMinute = Value(e.minute)]
    BY <1>2, Parsed
  <2>2. f.mode = "hourly" /\ f.atMinute = Value(e.minute)
    BY <2>1, Fresh
  <2>3. e.minute = {Num(Value(e.minute))} /\ Value(e.minute) \in 0 .. MinuteRule.hi
    BY <1>0, <1>2, NumberIsOne, TimeRead DEF IsHourly
  <2>4. ToCron(f) = e
    BY <1>0, <1>2, <2>2, <2>3, Written DEF IsHourly, EveryDay
  <2>5. f \in FormRow
    BY <2>1, <2>3, FreshTyped DEF Modes
  <2> QED
    BY <1>0, <2>4, <2>5
<1>3. CASE IsDaily(e) /\ ~IsMinutes(e) /\ ~IsHourly(e)
  <2>1. f = [In("daily") EXCEPT !.time = <<Value(e.hour), Value(e.minute)>>]
    BY <1>3, Parsed
  <2>2. f.mode = "daily" /\ f.time[1] = Value(e.hour) /\ f.time[2] = Value(e.minute)
    BY <2>1, Fresh
  <2>3. ToCron(f) = e
    BY <1>0, <1>3, <1>t, <2>2, Written DEF IsDaily, EveryDay
  <2>4. f \in FormRow
    BY <1>3, <1>t, <2>1, FreshTyped DEF Modes, IsDaily
  <2> QED
    BY <1>0, <2>3, <2>4
<1>4. CASE IsWeekly(e) /\ ~IsMinutes(e) /\ ~IsHourly(e) /\ ~IsDaily(e)
  <2>1. f = [In("weekly") EXCEPT !.time = <<Value(e.hour), Value(e.minute)>>, !.days = Values(e.dow)]
    BY <1>4, Parsed
  <2>2. f.mode = "weekly" /\ f.time[1] = Value(e.hour) /\ f.time[2] = Value(e.minute) /\ f.days = Values(e.dow)
    BY <2>1, Fresh
  <2>3. e.dow = {Num(d) : d \in Values(e.dow)} /\ Values(e.dow) # {} /\ Values(e.dow) \in SUBSET Weekdays
    BY <1>0, <1>4, NumbersAreTheirValues DEF IsWeekly, CronField, Values
  <2>4. ToCron(f) = e
    BY <1>0, <1>4, <1>t, <2>2, <2>3, Written DEF IsWeekly
  <2>5. f \in FormRow
    <3>1. PICK time \in Clock : time = <<Value(e.hour), Value(e.minute)>>
      BY <1>4, <1>t DEF IsWeekly
    <3>2. PICK picked \in SUBSET Weekdays : picked = Values(e.dow)
      BY <2>3
    <3>3. "weekly" \in Modes
      BY DEF Modes
    <3>4. [In("weekly") EXCEPT !.time = time, !.days = picked] \in FormRow
      BY <3>3, FreshTyped
    <3> QED
      BY <2>1, <3>1, <3>2, <3>4
  <2> QED
    BY <1>0, <2>4, <2>5
<1>5. CASE IsMonthly(e) /\ ~IsMinutes(e) /\ ~IsHourly(e) /\ ~IsDaily(e) /\ ~IsWeekly(e)
  <2>1. f = [In("monthly") EXCEPT !.time = <<Value(e.hour), Value(e.minute)>>, !.dayOfMonth = Value(e.dom)]
    BY <1>5, Parsed
  <2>2. f.mode = "monthly" /\ f.time[1] = Value(e.hour) /\ f.time[2] = Value(e.minute) /\ f.dayOfMonth = Value(e.dom)
    BY <2>1, Fresh
  <2>3. e.dom = {Num(Value(e.dom))} /\ Value(e.dom) \in SafeDays /\ e.dow = Wild
    BY <1>0, <1>5, NumberIsOne DEF IsMonthly
  <2>4. ToCron(f) = e
    BY <1>0, <1>5, <1>t, <2>2, <2>3, Written DEF IsMonthly
  <2>5. f \in FormRow
    <3>1. PICK time \in Clock : time = <<Value(e.hour), Value(e.minute)>>
      BY <1>5, <1>t DEF IsMonthly
    <3>2. PICK picked \in SafeDays : picked = Value(e.dom)
      BY <2>3
    <3>3. "monthly" \in Modes
      BY DEF Modes
    <3>4. [In("monthly") EXCEPT !.time = time, !.dayOfMonth = picked] \in FormRow
      BY <3>3, FreshTyped
    <3> QED
      BY <2>1, <3>1, <3>2, <3>4
  <2> QED
    BY <1>0, <2>4, <2>5
<1>6. CASE ~IsMinutes(e) /\ ~IsHourly(e) /\ ~IsDaily(e) /\ ~IsWeekly(e) /\ ~IsMonthly(e)
  <2>1. f = [In("custom") EXCEPT !.custom = e]
    BY <1>6, Parsed
  <2>2. f.mode = "custom" /\ f.custom = e
    BY <2>1, Fresh
  <2>3. ToCron(f) = e
    BY <2>2, Written
  <2>4. f \in FormRow
    BY <2>1, FreshTyped DEF Modes
  <2> QED
    BY <1>0, <2>3, <2>4
<1> QED
  BY <1>1, <1>2, <1>3, <1>4, <1>5, <1>6

\* The server reads every number the dropdowns offer.
LEMMA OptionsAccepted ==
  /\ \A n \in 0 .. MinuteRule.hi : Accepts(Num(n), MinuteRule)
  /\ \A n \in 0 .. HourRule.hi : Accepts(Num(n), HourRule)
  /\ \A n \in SafeDays : Accepts(Num(n), DomRule)
  /\ \A n \in Weekdays : Accepts(Num(n), DowRule)
<1>1. ASSUME NEW n \in 0 .. MinuteRule.hi PROVE Accepts(Num(n), MinuteRule)
  <2>1. PICK hi \in Nat : hi = MinuteRule.hi
    BY Calendar
  <2>2. MinuteRule = Rule(0, hi, hi)
    BY <2>1, RuleFields DEF MinuteRule
  <2> QED
    BY <2>1, <2>2, NumberAccepted
<1>2. ASSUME NEW n \in 0 .. HourRule.hi PROVE Accepts(Num(n), HourRule)
  <2>1. PICK hi \in Int : hi = HourRule.hi
    BY Calendar
  <2>2. HourRule = Rule(0, hi, hi)
    BY <2>1, RuleFields DEF HourRule
  <2> QED
    BY <2>1, <2>2, NumberAccepted
<1>3. ASSUME NEW n \in SafeDays PROVE Accepts(Num(n), DomRule)
  <2>1. n \in 1 .. MonthDays /\ MonthDays \in Int
    BY Calendar DEF SafeDays
  <2> QED
    BY <2>1, NumberAccepted DEF DomRule
<1>4. ASSUME NEW n \in Weekdays PROVE Accepts(Num(n), DowRule)
  <2>1. n \in 0 .. WeekDays /\ WeekDays \in Int /\ WeekDays - 1 \in Int
    BY Calendar DEF Weekdays
  <2> QED
    BY <2>1, NumberAccepted DEF DowRule
<1> QED
  BY <1>1, <1>2, <1>3, <1>4

\* What the dropdowns write, and what it opens as.
LEMMA DropdownsRead ==
  ASSUME NEW f \in FormRow, f.mode # "custom", ToCron(f) # Manual
  PROVE  /\ ToCron(f) \in Crons /\ Reads(ToCron(f)) /\ ParseCron(ToCron(f)).mode = f.mode
         /\ ToCron(ParseCron(ToCron(f))) = ToCron(f)
<1>1. /\ f.mode \in Modes /\ f.everyMinutes \in {1} \cup 1 .. MinuteRule.hi /\ f.atMinute \in 0 .. MinuteRule.hi
      /\ f.time \in Clock /\ f.days \in SUBSET Weekdays /\ f.dayOfMonth \in SafeDays
  BY DEF FormRow
<1>2. /\ f.time = <<f.time[1], f.time[2]>> /\ f.time[1] \in 0 .. HourRule.hi /\ f.time[2] \in 0 .. MinuteRule.hi
      /\ f.time[1] \in Int /\ f.time[2] \in Int /\ f.time[1] # None /\ f.time[2] # None
  BY <1>1 DEF Clock, None
<1>3. /\ f.atMinute \in Int /\ f.atMinute # None /\ f.dayOfMonth \in Int /\ f.dayOfMonth # None
      /\ \A d \in f.days : d \in Int /\ d # None
  BY <1>1, Calendar DEF SafeDays, Weekdays, None
<1>4. PICK e : e = ToCron(f)
  OBVIOUS
<1>n. \A n \in Int : n # None => Number({Num(n)}) /\ Value({Num(n)}) = n /\ {Num(n)} # Wild /\ PartOf({Num(n)}).first # None
  BY OneNumber
<1>w. ~Number(Wild)
  BY PartFields DEF Number, NumbersIn, Wild
<1>5. CASE f.mode = "minutes"
  <2>1. PICK n \in Nat : n = f.everyMinutes
    BY <1>1
  <2>2. CASE n = 1
    <3>1. e = Expression(Wild, Wild, Wild, Wild, Wild)
      BY <1>4, <1>5, <2>1, <2>2, WrittenMinutes
    <3>2. e.minute = Wild /\ e.hour = Wild /\ e.dom = Wild /\ e.month = Wild /\ e.dow = Wild
      BY <3>1, ExpressionFields
    <3>3. IsMinutes(e)
      BY <3>2, OnePart, PartFields DEF IsMinutes, EveryDay, Wild
    <3>4. ParseCron(e) = [In("minutes") EXCEPT !.everyMinutes = 1]
      BY <3>2, <3>3, Parsed
    <3>5. ParseCron(e).mode = "minutes" /\ ParseCron(e).everyMinutes = 1
      BY <3>4, Fresh
    <3>a. PICK g : g = ParseCron(e)
      OBVIOUS
    <3>b. g.mode = "minutes" /\ g.everyMinutes = 1 /\ g.everyMinutes \in Nat
      BY <3>5, <3>a
    <3>c. ToCron(g) = Expression(Wild, Wild, Wild, Wild, Wild)
      BY <3>b, WrittenMinutes
    <3>6. ToCron(ParseCron(e)) = e
      BY <3>1, <3>a, <3>c
    <3>7. e \in Crons
      BY <3>1, FieldsWritten, ExpressionTyped
    <3>8. Reads(e)
      BY <3>2, WildsAccepted DEF Reads, Wild
    <3> QED
      BY <1>4, <1>5, <3>5, <3>6, <3>7, <3>8
  <2>3. CASE n # 1
    <3>0. n \in 1 .. MinuteRule.hi /\ n > 1 /\ n \in Int
      BY <1>1, <2>1, <2>3, Calendar
    <3>1. e = Expression({Every(n)}, Wild, Wild, Wild, Wild)
      BY <1>4, <1>5, <2>1, <3>0, WrittenMinutes
    <3>2. e.minute = {Every(n)} /\ e.hour = Wild /\ e.dom = Wild /\ e.month = Wild /\ e.dow = Wild
      BY <3>1, ExpressionFields
    <3>a. PICK p : p = Every(n)
      OBVIOUS
    <3>b. PartOf(e.minute) = p /\ Cardinality(e.minute) = 1 /\ p.first = None /\ p.step = n
      BY <3>2, <3>a, OnePart, PartFields
    <3>3. IsMinutes(e) /\ PartOf(e.minute).step = n
      BY <3>2, <3>b DEF IsMinutes, EveryDay
    <3>4. e.minute # Wild
      BY <3>0, <3>2, PartFields DEF Wild, None
    <3>5. ParseCron(e) = [In("minutes") EXCEPT !.everyMinutes = n]
      BY <3>3, <3>4, Parsed
    <3>6. ParseCron(e).mode = "minutes" /\ ParseCron(e).everyMinutes = n
      BY <3>5, Fresh
    <3>7. ToCron(ParseCron(e)) = e
      BY <3>0, <3>1, <3>6, WrittenMinutes
    <3>8. e \in Crons
      BY <3>0, <3>1, FieldsWritten, ExpressionTyped
    <3>9. Reads(e)
      BY <3>0, <3>2, WildsAccepted, StepAccepted DEF Reads, Wild
    <3> QED
      BY <1>4, <1>5, <3>6, <3>7, <3>8, <3>9
  <2> QED
    BY <2>2, <2>3
<1>6. CASE f.mode = "hourly"
  <2>1. e = Expression({Num(f.atMinute)}, Wild, Wild, Wild, Wild)
    BY <1>4, <1>6, Written
  <2>2. e.minute = {Num(f.atMinute)} /\ e.hour = Wild /\ e.dom = Wild /\ e.month = Wild /\ e.dow = Wild
    BY <2>1, ExpressionFields
  <2>3. IsHourly(e) /\ ~IsMinutes(e) /\ Value(e.minute) = f.atMinute
    BY <1>3, <1>n, <2>2 DEF IsHourly, IsMinutes, EveryDay
  <2>4. ParseCron(e) = [In("hourly") EXCEPT !.atMinute = f.atMinute]
    BY <2>3, Parsed
  <2>5. ParseCron(e).mode = "hourly" /\ ParseCron(e).atMinute = f.atMinute
    BY <2>4, Fresh
  <2>6. ToCron(ParseCron(e)) = e
    BY <2>1, <2>5, Written
  <2>7. e \in Crons
    BY <1>3, <2>1, FieldsWritten, ExpressionTyped
  <2>8. Reads(e)
    BY <1>1, <2>2, WildsAccepted, OptionsAccepted DEF Reads, Wild
  <2> QED
    BY <1>4, <1>6, <2>5, <2>6, <2>7, <2>8
<1>7. CASE f.mode = "daily"
  <2>1. e = Expression({Num(f.time[2])}, {Num(f.time[1])}, Wild, Wild, Wild)
    BY <1>4, <1>7, Written
  <2>2. e.minute = {Num(f.time[2])} /\ e.hour = {Num(f.time[1])} /\ e.dom = Wild /\ e.month = Wild /\ e.dow = Wild
    BY <2>1, ExpressionFields
  <2>3. IsDaily(e) /\ ~IsMinutes(e) /\ ~IsHourly(e) /\ Value(e.minute) = f.time[2] /\ Value(e.hour) = f.time[1]
    BY <1>2, <1>n, <2>2 DEF IsDaily, IsHourly, IsMinutes, EveryDay, Timed
  <2>a. <<Value(e.hour), Value(e.minute)>> = f.time
    BY <1>2, <2>3
  <2>4. ParseCron(e) = [In("daily") EXCEPT !.time = f.time]
    BY <2>3, <2>a, Parsed
  <2>5. ParseCron(e).mode = "daily" /\ ParseCron(e).time = f.time
    BY <2>4, Fresh
  <2>6. ToCron(ParseCron(e)) = e
    BY <2>1, <2>5, Written
  <2>7. e \in Crons
    BY <1>2, <2>1, FieldsWritten, ExpressionTyped
  <2>8. Reads(e)
    BY <1>2, <2>2, WildsAccepted, OptionsAccepted DEF Reads, Wild
  <2> QED
    BY <1>4, <1>7, <2>5, <2>6, <2>7, <2>8
<1>8. CASE f.mode = "weekly"
  <2>0. f.days # {}
    BY <1>8, Written
  <2>1. e = Expression({Num(f.time[2])}, {Num(f.time[1])}, Wild, Wild, {Num(d) : d \in f.days})
    BY <1>4, <1>8, <2>0, Written
  <2>2. /\ e.minute = {Num(f.time[2])} /\ e.hour = {Num(f.time[1])} /\ e.dom = Wild /\ e.month = Wild
        /\ e.dow = {Num(d) : d \in f.days}
    BY <2>1, ExpressionFields
  <2>3. NumbersIn(e.dow) /\ Values(e.dow) = f.days /\ e.dow # Wild
    BY <1>3, <2>0, <2>2, PartFields DEF NumbersIn, Values, Wild
  <2>4. /\ IsWeekly(e) /\ ~IsMinutes(e) /\ ~IsHourly(e) /\ ~IsDaily(e)
        /\ Value(e.minute) = f.time[2] /\ Value(e.hour) = f.time[1]
    BY <1>1, <1>2, <1>n, <2>2, <2>3 DEF IsWeekly, IsDaily, IsHourly, IsMinutes, EveryDay, Timed
  <2>a. <<Value(e.hour), Value(e.minute)>> = f.time
    BY <1>2, <2>4
  <2>b. ParseCron(e) = [In("weekly") EXCEPT !.time = <<Value(e.hour), Value(e.minute)>>, !.days = Values(e.dow)]
    BY <2>4, Parsed
  <2>5. ParseCron(e) = [In("weekly") EXCEPT !.time = f.time, !.days = f.days]
    BY <2>3, <2>a, <2>b
  <2>6. ParseCron(e).mode = "weekly" /\ ParseCron(e).time = f.time /\ ParseCron(e).days = f.days
    BY <2>5, Fresh
  <2>7. ToCron(ParseCron(e)) = e
    BY <2>0, <2>1, <2>6, Written
  <2>8. e \in Crons
    BY <1>1, <1>2, <2>0, <2>1, FieldsWritten, ExpressionTyped
  <2>9. Reads(e)
    <3>1. \A p \in e.dow : Accepts(p, DowRule)
      BY <1>1, <2>2, OptionsAccepted
    <3> QED
      BY <1>2, <2>2, <3>1, WildsAccepted, OptionsAccepted DEF Reads, Wild
  <2> QED
    BY <1>4, <1>8, <2>6, <2>7, <2>8, <2>9
<1>9. CASE f.mode = "monthly"
  <2>1. e = Expression({Num(f.time[2])}, {Num(f.time[1])}, {Num(f.dayOfMonth)}, Wild, Wild)
    BY <1>4, <1>9, Written
  <2>2. /\ e.minute = {Num(f.time[2])} /\ e.hour = {Num(f.time[1])} /\ e.dom = {Num(f.dayOfMonth)} /\ e.month = Wild
        /\ e.dow = Wild
    BY <2>1, ExpressionFields
  <2>3. /\ IsMonthly(e) /\ ~IsMinutes(e) /\ ~IsHourly(e) /\ ~IsDaily(e) /\ ~IsWeekly(e)
        /\ Value(e.minute) = f.time[2] /\ Value(e.hour) = f.time[1] /\ Value(e.dom) = f.dayOfMonth
    BY <1>1, <1>2, <1>3, <1>n, <2>2 DEF IsMonthly, IsWeekly, IsDaily, IsHourly, IsMinutes, EveryDay, Timed
  <2>a. <<Value(e.hour), Value(e.minute)>> = f.time
    BY <1>2, <2>3
  <2>b. ParseCron(e) = [In("monthly") EXCEPT !.time = <<Value(e.hour), Value(e.minute)>>, !.dayOfMonth = Value(e.dom)]
    BY <2>3, Parsed
  <2>4. ParseCron(e) = [In("monthly") EXCEPT !.time = f.time, !.dayOfMonth = f.dayOfMonth]
    BY <2>3, <2>a, <2>b
  <2>5. ParseCron(e).mode = "monthly" /\ ParseCron(e).time = f.time /\ ParseCron(e).dayOfMonth = f.dayOfMonth
    BY <2>4, Fresh
  <2>6. ToCron(ParseCron(e)) = e
    BY <2>1, <2>5, Written
  <2>7. e \in Crons
    BY <1>2, <1>3, <2>1, FieldsWritten, ExpressionTyped
  <2>8. Reads(e)
    BY <1>1, <1>2, <2>2, WildsAccepted, OptionsAccepted DEF Reads, Wild
  <2> QED
    BY <1>4, <1>9, <2>5, <2>6, <2>7, <2>8
<1>10. f.mode # "none"
  BY Written
<1> QED
  BY <1>1, <1>5, <1>6, <1>7, <1>8, <1>9, <1>10 DEF Modes

\* A form over a stored schedule: what it submits while untouched means what is stored.
Schedules == [cron : Crons \cup {Manual}, zone : {NoZone, UTC, Author}]

BuilderInv ==
  /\ form \in FormRow /\ formZone \in {UTC, Author}
  /\ stored \in Schedules /\ (stored.cron # Manual => Reads(stored.cron))
  /\ UntouchedKept

LEMMA ScheduleFields ==
  ASSUME NEW e, NEW z
  PROVE  Schedule(e, z).cron = e /\ Schedule(e, z).zone = z
BY DEF Schedule

LEMMA OpenedMeansTheSame ==
  ASSUME NEW s \in Schedules, s.cron # Manual => Reads(s.cron), NEW f, f = Opened(s), NEW z, z = OpenedZone(s)
  PROVE  /\ f \in FormRow /\ z \in {UTC, Author}
         /\ Meaning(IF ToCron(f) = Manual THEN Schedule(Manual, NoZone) ELSE Schedule(ToCron(f), z)) = Meaning(s)
<1>0. s.cron \in Crons \cup {Manual} /\ s.zone \in {NoZone, UTC, Author}
  BY DEF Schedules
<1>1. z \in {UTC, Author} /\ (s.cron # Manual => z = IF s.zone = NoZone THEN UTC ELSE s.zone) /\ z # NoZone
  BY <1>0 DEF OpenedZone, UTC, Author, NoZone
<1>2. CASE s.cron = Manual
  <2>1. f = In("none")
    BY <1>2 DEF Opened
  <2>2. f \in FormRow /\ f.mode = "none"
    BY <2>1, FreshTyped, Fresh DEF Modes
  <2>3. ToCron(f) = Manual
    BY <2>2, Written
  <2>4. Meaning(Schedule(Manual, NoZone)) = <<>> /\ Meaning(s) = <<>>
    BY <1>2, ScheduleFields DEF Meaning
  <2> QED
    BY <1>1, <2>2, <2>3, <2>4
<1>3. CASE s.cron # Manual
  <2>1. s.cron \in Crons /\ Reads(s.cron)
    BY <1>0, <1>3
  <2>2. f = ParseCron(s.cron)
    BY <1>3 DEF Opened
  <2>3. f \in FormRow /\ ToCron(f) # Manual /\ Read(ToCron(f)) = Read(s.cron)
    BY <2>1, <2>2, OpensAsItself
  <2>4. PICK t : t = Schedule(ToCron(f), z)
    OBVIOUS
  <2>5. t.cron = ToCron(f) /\ t.zone = z
    BY <2>4, ScheduleFields
  <2>6. Meaning(t) = Meaning(s)
    BY <1>1, <1>3, <2>3, <2>5 DEF Meaning
  <2> QED
    BY <1>1, <2>3, <2>4, <2>6
<1> QED
  BY <1>2, <1>3

LEMMA SubmittedTyped ==
  ASSUME BuilderInv, ToCron(form) = Manual \/ Reads(ToCron(form))
  PROVE  Submitted \in Schedules /\ (Submitted.cron # Manual => Reads(Submitted.cron))
<1>1. form \in FormRow /\ formZone \in {UTC, Author}
  BY DEF BuilderInv
<1>2. ToCron(form) \in Crons \cup {Manual}
  <2>1. CASE form.mode = "custom"
    <3>1. form.custom \in Crons \cup {Manual}
      BY <1>1 DEF FormRow
    <3> QED
      BY <2>1, <3>1, Written
  <2>2. CASE form.mode # "custom"
    BY <1>1, <2>2, DropdownsRead
  <2> QED
    BY <2>1, <2>2
<1>3. CASE ToCron(form) = Manual
  BY <1>3 DEF Submitted, Schedule, Schedules
<1>4. CASE ToCron(form) # Manual
  BY <1>1, <1>2, <1>4 DEF Submitted, Schedule, Schedules
<1> QED
  BY <1>3, <1>4

LEMMA InitBuilder ==
  ASSUME FormInit
  PROVE  BuilderInv
<1>1. stored \in Schedules /\ (stored.cron # Manual => Reads(stored.cron))
  BY BuilderAssumption DEF FormInit, StoredSchedules, Schedule, Schedules
<1>2. form = Opened(stored) /\ formZone = OpenedZone(stored)
  BY DEF FormInit
<1> QED
  BY <1>1, <1>2, OpenedMeansTheSame DEF BuilderInv, UntouchedKept, Submitted

LEMMA SetKeeps ==
  ASSUME BuilderInv, NEW f \in FormRow, Set(f)
  PROVE  BuilderInv'
BY DEF Set, Edit, BuilderInv, UntouchedKept

LEMMA BuilderStep ==
  ASSUME BuilderInv, [FormNext]_formVars
  PROVE  BuilderInv'
<1>0. form \in FormRow
  BY DEF BuilderInv
<1>1. ASSUME NEW mode \in Modes, Set([form EXCEPT !.mode = mode]) PROVE BuilderInv'
  <2>1. [form EXCEPT !.mode = mode] \in FormRow
    BY <1>0 DEF FormRow
  <2> QED
    BY <1>1, <2>1, SetKeeps
<1>2. ASSUME NEW n \in MinutePresets, Set([form EXCEPT !.everyMinutes = n]) PROVE BuilderInv'
  <2>1. [form EXCEPT !.everyMinutes = n] \in FormRow
    BY <1>0, BuilderAssumption DEF FormRow
  <2> QED
    BY <1>2, <2>1, SetKeeps
<1>3. ASSUME NEW m \in 0 .. MinuteRule.hi, Set([form EXCEPT !.atMinute = m]) PROVE BuilderInv'
  <2>1. [form EXCEPT !.atMinute = m] \in FormRow
    BY <1>0 DEF FormRow
  <2> QED
    BY <1>3, <2>1, SetKeeps
<1>4. ASSUME NEW t \in Clock, Set([form EXCEPT !.time = t]) PROVE BuilderInv'
  <2>1. [form EXCEPT !.time = t] \in FormRow
    BY <1>0 DEF FormRow
  <2> QED
    BY <1>4, <2>1, SetKeeps
<1>5. ASSUME NEW d \in SafeDays, Set([form EXCEPT !.dayOfMonth = d]) PROVE BuilderInv'
  <2>1. [form EXCEPT !.dayOfMonth = d] \in FormRow
    BY <1>0 DEF FormRow
  <2> QED
    BY <1>5, <2>1, SetKeeps
<1>6. ASSUME NEW d \in Weekdays, Set([form EXCEPT !.days = IF d \in @ THEN @ \ {d} ELSE @ \cup {d}]) PROVE BuilderInv'
  <2>1. [form EXCEPT !.days = IF d \in @ THEN @ \ {d} ELSE @ \cup {d}] \in FormRow
    BY <1>0 DEF FormRow
  <2> QED
    BY <1>6, <2>1, SetKeeps
<1>7. ASSUME NEW e \in TypedCrons \cup {Manual}, Set([form EXCEPT !.custom = e]) PROVE BuilderInv'
  <2>1. [form EXCEPT !.custom = e] \in FormRow
    BY <1>0, BuilderAssumption DEF FormRow
  <2> QED
    BY <1>7, <2>1, SetKeeps
<1>8. CASE PickZone
  BY <1>8 DEF PickZone, Edit, BuilderInv, UntouchedKept
<1>9. CASE Save
  <2>1. stored' \in Schedules /\ (stored'.cron # Manual => Reads(stored'.cron))
    BY <1>9, SubmittedTyped DEF Save
  <2>2. Submitted' = Submitted /\ stored' = Submitted
    BY <1>9 DEF Save, Submitted
  <2> QED
    BY <1>9, <2>1, <2>2 DEF Save, BuilderInv, UntouchedKept
<1>10. CASE Reopen
  <2>1. /\ form' = Opened(stored) /\ formZone' = OpenedZone(stored) /\ stored' = stored
        /\ stored \in Schedules /\ (stored.cron # Manual => Reads(stored.cron))
    BY <1>10 DEF Reopen, BuilderInv
  <2>2. /\ form' \in FormRow /\ formZone' \in {UTC, Author}
        /\ Meaning(IF ToCron(form') = Manual THEN Schedule(Manual, NoZone) ELSE Schedule(ToCron(form'), formZone'))
             = Meaning(stored)
    BY <2>1, OpenedMeansTheSame
  <2> QED
    BY <2>1, <2>2 DEF BuilderInv, UntouchedKept, Submitted
<1>11. CASE UNCHANGED formVars
  BY <1>11 DEF formVars, BuilderInv, UntouchedKept, Submitted
<1> QED
  BY <1>1, <1>2, <1>3, <1>4, <1>5, <1>6, <1>7, <1>8, <1>9, <1>10, <1>11
     DEF FormNext, PickMode, PickMinutes, PickMinute, PickTime, PickDom, PickDay, Type

(* RoundTripKeepsTheSchedule for any calendar and any expressions stored or       *)
(* typed (ScheduleBuilder.tsx, parseCron, toCron).                                *)
THEOREM FormKeepsTheSchedule == FormSpec => []RoundTripKeepsTheSchedule
<1>1. BuilderInv /\ [FormNext]_formVars => BuilderInv'
  BY BuilderStep
<1>2. BuilderInv => RoundTripKeepsTheSchedule
  BY DropdownsRead DEF BuilderInv, RoundTripKeepsTheSchedule, DropdownsAreReadBack
<1> QED
  BY <1>1, <1>2, InitBuilder, PTL DEF FormSpec

(* ---------------------------- the service's week -------------------------- *)
LEMMA DaysGrow ==
  ASSUME NEW a \in Int, NEW b \in Int, NEW d \in Nat \ {0}, a <= b
  PROVE  a \div d \in Int /\ b \div d \in Int /\ a \div d <= b \div d
<1>1. PICK q \in Int, r \in Int : q = a \div d /\ r = b \div d
  BY Division
<1>2. ~(r < q)
  BY <1>1, LaterDay
<1> QED
  BY <1>1, <1>2

\* The latest wall time the clock of the zone has read by an instant.
Furthest(t) ==
  IF t >= zone.jump /\ Wall(zone, t) < zone.jump + zone.before - 1
  THEN zone.jump + zone.before - 1 ELSE Wall(zone, t)

LEMMA FurthestIs ==
  ASSUME zone \in Zones, NEW t \in Int
  PROVE  /\ Furthest(t) \in Int /\ Wall(zone, t) \in Int /\ Wall(zone, t) <= Furthest(t)
         /\ t < zone.jump => Furthest(t) = t + zone.before
         /\ t >= zone.jump => IF t + zone.after < zone.jump + zone.before - 1
                              THEN Furthest(t) = zone.jump + zone.before - 1
                              ELSE Furthest(t) = t + zone.after
BY ZoneFields DEF Furthest, Wall, OffsetAt

\* The first instant the clock has reached a wall time at, by cases.
LEMMA ReachedIs ==
  ASSUME zone \in Zones, NEW w \in Int
  PROVE  /\ Reached(w) \in w - DayUnits .. w + DayUnits
         /\ w - zone.before < zone.jump => Reached(w) = w - zone.before
         /\ w - zone.before >= zone.jump =>
              IF w - zone.after < zone.jump THEN Reached(w) = zone.jump ELSE Reached(w) = w - zone.after
<1>1. PICK J \in Int, B \in Int, A \in Int, D \in Nat \ {0} :
        J = zone.jump /\ B = zone.before /\ A = zone.after /\ D = DayUnits /\ B \in -D .. D /\ A \in -D .. D
  BY ZoneFields
<1> DEFINE S == {t \in w - DayUnits .. w + DayUnits : Wall(zone, t) >= w}
           m == IF w - B < J THEN w - B ELSE IF w - A < J THEN J ELSE w - A
<1>2. \A t \in Int : Wall(zone, t) = IF t < J THEN t + B ELSE t + A
  BY <1>1 DEF Wall, OffsetAt
<1>3. m \in Int /\ m \in w - D .. w + D
  BY <1>1
<1>4. m < J => m = w - B
  BY <1>1
<1>5. m >= J => m + A >= w
  BY <1>1
<1>6. Wall(zone, m) >= w
  BY <1>1, <1>2, <1>3, <1>4, <1>5
<1>7. ASSUME NEW t \in Int, Wall(zone, t) >= w PROVE m <= t
  BY <1>1, <1>2, <1>7
<1>8. m \in S /\ S \subseteq Int /\ \A t \in S : m <= t
  BY <1>1, <1>3, <1>6, <1>7
<1>9. Reached(w) = m
  BY <1>8, MinIs DEF Reached
<1> QED
  BY <1>1, <1>3, <1>9

\* A wall time has been reached by an instant when it is no later than the furthest read by then.
LEMMA ReachedBy ==
  ASSUME zone \in Zones, NEW w \in Int, NEW t \in Int
  PROVE  /\ Reached(w) \in Int
         /\ Reached(w) <= t <=> w <= Furthest(t)
<1>1. PICK J \in Int, B \in Int, A \in Int, D \in Nat \ {0} :
        J = zone.jump /\ B = zone.before /\ A = zone.after /\ D = DayUnits /\ B \in -D .. D /\ A \in -D .. D
  BY ZoneFields
<1>2. PICK r \in Int : r = Reached(w)
  BY <1>1, ReachedIs
<1>3. PICK m \in Int : m = Furthest(t)
  BY FurthestIs
<1>4. /\ w - B < J => r = w - B
      /\ w - B >= J => r = IF w - A < J THEN J ELSE w - A
  BY <1>1, <1>2, ReachedIs
<1>5. /\ t < J => m = t + B
      /\ t >= J => m = IF t + A < J + B - 1 THEN J + B - 1 ELSE t + A
  BY <1>1, <1>3, FurthestIs
<1>6. CASE w - B < J
  BY <1>4, <1>5, <1>6, <1>2, <1>3
<1>7. CASE w - B >= J
  BY <1>4, <1>5, <1>7, <1>2, <1>3
<1> QED
  BY <1>6, <1>7, <1>1

LEMMA FurthestGrows ==
  ASSUME zone \in Zones, NEW t \in Int, NEW u \in Int, t <= u
  PROVE  /\ Furthest(t) <= Furthest(u)
         /\ Furthest(u) - Furthest(t) <= (u - t) + (IF zone.before < zone.after THEN zone.after - zone.before ELSE 0)
<1>1. PICK J \in Int, B \in Int, A \in Int : J = zone.jump /\ B = zone.before /\ A = zone.after
  BY ZoneFields
<1>2. PICK m \in Int, n \in Int : m = Furthest(t) /\ n = Furthest(u)
  BY FurthestIs
<1>3. /\ t < J => m = t + B
      /\ t >= J => m = IF t + A < J + B - 1 THEN J + B - 1 ELSE t + A
      /\ u < J => n = u + B
      /\ u >= J => n = IF u + A < J + B - 1 THEN J + B - 1 ELSE u + A
  BY <1>1, <1>2, FurthestIs
<1> QED
  BY <1>1, <1>2, <1>3

\* A change that keeps its day moves the clock on by half a day at most.
LEMMA HalfADay ==
  ASSUME zone \in Zones, KeepsDay(zone)
  PROVE  2 * (zone.after - zone.before) <= DayUnits
<1>1. PICK J \in Int, B \in Int, A \in Int, D \in Nat \ {0} :
        J = zone.jump /\ B = zone.before /\ A = zone.after /\ D = DayUnits /\ B \in -D .. D /\ A \in -D .. D
  BY ZoneFields
<1>2. CASE B < A
  <2>1. (J + B) \div D = (J + (2 * A - B) - 1) \div D
    BY <1>1, <1>2 DEF KeepsDay
  <2>2. PICK q \in Int : q = (J + B) \div D
    BY Division
  <2>3. J + B \in Int /\ J + (2 * A - B) - 1 \in Int
    BY <1>1
  <2>4. q * D <= J + B /\ J + (2 * A - B) - 1 < q * D + D
    <3>1. \A a \in Int : a \div D = q => q * D <= a /\ a < q * D + D
      BY <1>1, Division
    <3> QED
      BY <2>1, <2>2, <2>3, <3>1
  <2>5. PICK p \in Int : p = q * D
    BY <1>1, <2>2
  <2> QED
    BY <1>1, <2>4, <2>5
<1>3. CASE B >= A
  BY <1>1, <1>3
<1> QED
  BY <1>1, <1>2, <1>3

LEMMA SameDay ==
  ASSUME zone \in Zones, KeepsDay(zone), NEW t \in Int
  PROVE  Furthest(t) \div DayUnits = DayOf(zone, t)
<1>1. PICK J \in Int, B \in Int, A \in Int, D \in Nat \ {0} :
        J = zone.jump /\ B = zone.before /\ A = zone.after /\ D = DayUnits /\ B \in -D .. D /\ A \in -D .. D
  BY ZoneFields
<1>2. PICK w \in Int : w = Wall(zone, t)
  BY FurthestIs
<1>3. CASE Furthest(t) = w
  BY <1>2, <1>3 DEF DayOf
<1>4. CASE Furthest(t) # w
  <2>1. A < B /\ Furthest(t) = J + B - 1 /\ J + A <= w /\ w <= J + B - 1
    BY <1>1, <1>2, <1>4 DEF Furthest, Wall, OffsetAt
  <2>2. (J + A) \div D = (J + B - 1) \div D
    BY <1>1, <2>1 DEF KeepsDay
  <2>3. J + A \in Int /\ J + B - 1 \in Int
    BY <1>1
  <2>4. (J + A) \div D <= w \div D /\ w \div D <= (J + B - 1) \div D
    BY <1>1, <1>2, <2>1, <2>3, DaysGrow
  <2>5. w \div D = (J + B - 1) \div D
    <3>1. \A a \in Int : a \div D \in Int
      BY <1>1, Division
    <3> QED
      BY <2>2, <2>3, <2>4, <1>2, <3>1
  <2> QED
    BY <1>1, <1>2, <2>1, <2>5 DEF DayOf
<1> QED
  BY <1>3, <1>4

\* Two wall times reached at one instant are of one day.
LEMMA ReachedTogether ==
  ASSUME zone \in Zones, KeepsDay(zone), NEW v \in Int, NEW w \in Int, v < w, Reached(v) = Reached(w)
  PROVE  /\ v \div DayUnits = w \div DayUnits
         /\ zone.jump + zone.before <= v /\ w <= zone.jump + zone.after /\ Reached(w) = zone.jump
<1>1. PICK J \in Int, B \in Int, A \in Int, D \in Nat \ {0} :
        J = zone.jump /\ B = zone.before /\ A = zone.after /\ D = DayUnits /\ B \in -D .. D /\ A \in -D .. D
  BY ZoneFields
<1>2. /\ v - B < J => Reached(v) = v - B
      /\ v - B >= J => Reached(v) = IF v - A < J THEN J ELSE v - A
      /\ w - B < J => Reached(w) = w - B
      /\ w - B >= J => Reached(w) = IF w - A < J THEN J ELSE w - A
  BY <1>1, ReachedIs
<1>3. J + B <= v /\ w <= J + A /\ Reached(w) = J
  BY <1>1, <1>2
<1>4. v \div DayUnits \in Int /\ w \div DayUnits \in Int /\ v \div DayUnits <= w \div DayUnits
  <2>1. DayUnits \in Nat \ {0} /\ v <= w
    BY <1>1
  <2> QED
    BY <2>1, DaysGrow
<1>5. ~(v \div DayUnits < w \div DayUnits)
  <2>1. B < A /\ v >= J + B /\ w < J + 2 * A - B
    BY <1>1, <1>2
  <2> QED
    BY <1>1, <2>1, OneDay
<1> QED
  BY <1>1, <1>3, <1>4, <1>5

\* The editor resolves a wall time to the instant the clock reaches it.
LEMMA WallInstantIs ==
  ASSUME zone \in Zones, KeepsDay(zone), NEW w \in Int
  PROVE  WallInstant(w) = Reached(w)
<1>1. PICK J \in Int, B \in Int, A \in Int, D \in Nat \ {0} :
        J = zone.jump /\ B = zone.before /\ A = zone.after /\ D = DayUnits /\ B \in -D .. D /\ A \in -D .. D
  BY ZoneFields
<1>2. \A t \in Int : Wall(zone, t) = IF t < J THEN t + B ELSE t + A
  BY <1>1 DEF Wall, OffsetAt
<1>3. PICK i : i = ZonedTime(zone, w)
  OBVIOUS
<1>4. i \in ZonedInstants(zone, w) /\ \A t \in ZonedInstants(zone, w) : i <= t
  BY <1>3, FirstInstant
<1>5. WallInstant(w) = IF Wall(zone, i) = w THEN i
                       ELSE Min({t \in i - DayUnits .. i : OffsetAt(zone, t) = OffsetAt(zone, i + DayUnits)})
  BY <1>3 DEF WallInstant
<1>6. CASE w - B < J /\ w - A >= J
  <2>1. i \in {w - B, w - A} /\ i <= w - B
    BY <1>1, <1>4, <1>6, InstantsOf
  <2>2. i = w - B
    BY <1>1, <1>6, <2>1
  <2> QED
    BY <1>1, <1>2, <1>5, <1>6, <2>2, ReachedIs
<1>7. CASE w - B < J /\ w - A < J
  <2>1. i = w - B
    BY <1>1, <1>4, <1>7, InstantsOf
  <2> QED
    BY <1>1, <1>2, <1>5, <1>7, <2>1, ReachedIs
<1>8. CASE w - B >= J /\ w - A >= J
  <2>1. i = w - A
    BY <1>1, <1>4, <1>8, InstantsOf
  <2> QED
    BY <1>1, <1>2, <1>5, <1>8, <2>1, ReachedIs
<1>9. CASE w - B >= J /\ w - A < J
  <2>1. i = w - B
    BY <1>1, <1>4, <1>9, InstantsOf
  <2> DEFINE T == {t \in i - DayUnits .. i : OffsetAt(zone, t) = OffsetAt(zone, i + DayUnits)}
  <2>2. Wall(zone, i) # w
    BY <1>1, <1>2, <1>9, <2>1
  <2>3. 2 * (A - B) <= D
    BY <1>1, HalfADay
  <2>4. OffsetAt(zone, i + DayUnits) = A
    BY <1>1, <1>9, <2>1 DEF OffsetAt
  <2>5. J \in T
    BY <1>1, <1>9, <2>1, <2>3, <2>4 DEF OffsetAt
  <2>6. T \subseteq Int /\ \A t \in T : J <= t
    BY <1>1, <1>9, <2>1, <2>4 DEF OffsetAt
  <2>7. Min(T) = J
    BY <2>5, <2>6, MinIs
  <2>8. Reached(w) = J
    BY <1>1, <1>9, ReachedIs
  <2> QED
    BY <1>5, <2>2, <2>7, <2>8
<1> QED
  BY <1>1, <1>6, <1>7, <1>8, <1>9

(* ----------------------------- merged spans ------------------------------ *)
LEMMA GreatestBelow ==
  ASSUME NEW b \in Int, NEW S, S \subseteq Int, S # {}, \A n \in S : n <= b
  PROVE  Max(S) \in S /\ \A n \in S : n <= Max(S)
<1> DEFINE T == {0 - n : n \in S}
<1>1. T \subseteq Int /\ T # {} /\ \A k \in T : k >= 0 - b
  <2>1. \A n \in S : 0 - n \in Int /\ 0 - n >= 0 - b
    OBVIOUS
  <2> QED
    BY <2>1
<1>2. Min(T) \in T /\ \A k \in T : Min(T) <= k
  <2>1. 0 - b \in Int
    OBVIOUS
  <2> HIDE DEF T
  <2> QED
    BY <1>1, <2>1, LeastAbove
<1>3. PICK m \in S : Min(T) = 0 - m
  BY <1>2
<1>4. ASSUME NEW n \in S PROVE n <= m
  <2>1. 0 - n \in T
    OBVIOUS
  <2>2. 0 - m <= 0 - n
    BY <1>2, <1>3, <2>1
  <2> QED
    BY <2>2
<1> QED
  BY <1>3, <1>4 DEF Max

SpanType == [from : Int, to : Int]
Bounded(S, lo, hi) == S \subseteq SpanType /\ \A s \in S : lo <= s.from /\ s.from < s.to /\ s.to <= hi
Starts(S) == {s.from : s \in {r \in S : ~Continues(S, r)}}
Group(S, f) == {r \in S : f <= r.from /\ ~\E g \in Starts(S) : f < g /\ g <= r.from}
LastOf(S, f) == Max({s.to : s \in Group(S, f)})

LEMMA MergedAre ==
  ASSUME NEW S
  PROVE  Merged(S) = {[from |-> f, to |-> LastOf(S, f)] : f \in Starts(S)}
BY DEF Merged, Starts, Group, LastOf

\* A start is of a span that no earlier one reaches.
LEMMA StartIs ==
  ASSUME NEW lo \in Int, NEW hi \in Int, NEW S, Bounded(S, lo, hi), NEW f \in Starts(S)
  PROVE  /\ f \in Int /\ lo <= f /\ f <= hi
         /\ \E r \in S : r.from = f /\ r \in Group(S, f)
         /\ \A r \in S : r.from < f => r.to < f
<1>1. PICK r \in S : r.from = f /\ ~Continues(S, r)
  BY DEF Starts
<1>2. f \in Int /\ lo <= f /\ f <= hi /\ Starts(S) \subseteq Int
  BY <1>1 DEF Bounded, SpanType, Starts
<1>3. r \in Group(S, f)
  BY <1>1, <1>2 DEF Group
<1>4. \A q \in S : q.from < f => q.to < f
  BY <1>1, <1>2 DEF Continues, Bounded, SpanType
<1> QED
  BY <1>1, <1>2, <1>3, <1>4

LEMMA NotAStart ==
  ASSUME NEW lo \in Int, NEW hi \in Int, NEW S, Bounded(S, lo, hi), NEW s \in S, s.from \notin Starts(S)
  PROVE  \E r \in S : r.from < s.from /\ s.from <= r.to
BY DEF Starts, Continues

LEMMA GroupOf ==
  ASSUME NEW lo \in Int, NEW hi \in Int, NEW S, Bounded(S, lo, hi), NEW s \in S
  PROVE  \E f \in Starts(S) : s \in Group(S, f)
<1>1. S \subseteq SpanType /\ s.from \in Int /\ lo <= s.from
  BY DEF Bounded, SpanType
<1> DEFINE F == {r.from : r \in S}
           G == {g \in Starts(S) : g <= s.from}
<1>2. F \subseteq Int /\ s.from \in F /\ \A n \in F : n >= lo
  BY DEF Bounded, SpanType
<1>3. Min(F) \in F /\ \A n \in F : Min(F) <= n
  BY <1>2, LeastAbove
<1>4. PICK r \in S : r.from = Min(F)
  BY <1>3
<1>5. \A q \in S : ~(q.from < r.from)
  <2>1. ASSUME NEW q \in S PROVE q.from \in Int /\ r.from \in Int /\ r.from <= q.from
    BY <1>2, <1>3, <1>4
  <2> QED
    BY <2>1
<1>6. r.from \in Starts(S) /\ r.from <= s.from
  BY <1>1, <1>2, <1>3, <1>4, <1>5, NotAStart
<1>7. G \subseteq Int /\ G # {} /\ \A n \in G : n <= s.from
  BY <1>6, StartIs
<1>8. Max(G) \in G /\ \A n \in G : n <= Max(G)
  BY <1>1, <1>7, GreatestBelow
<1>9. s \in Group(S, Max(G))
  <2>1. ASSUME NEW g \in Starts(S), Max(G) < g, g <= s.from PROVE FALSE
    <3>1. g \in G /\ g \in Int /\ Max(G) \in Int
      BY <1>7, <1>8, <2>1
    <3>2. g <= Max(G)
      BY <1>8, <3>1
    <3> QED
      BY <2>1, <3>1, <3>2
  <2> QED
    BY <1>8, <2>1 DEF Group
<1> QED
  BY <1>8, <1>9

\* A merged span ends where one of its spans does and no later one of them.
LEMMA LastIs ==
  ASSUME NEW lo \in Int, NEW hi \in Int, NEW S, Bounded(S, lo, hi), NEW f \in Starts(S)
  PROVE  /\ LastOf(S, f) \in Int /\ f < LastOf(S, f) /\ LastOf(S, f) <= hi
         /\ \E s \in Group(S, f) : s.to = LastOf(S, f)
         /\ \A s \in Group(S, f) : s.to <= LastOf(S, f)
<1> DEFINE T == {s.to : s \in Group(S, f)}
<1>1. Group(S, f) \subseteq S
  BY DEF Group
<1>2. T \subseteq Int /\ T # {} /\ \A n \in T : n <= hi
  <2>1. \A s \in Group(S, f) : s.to \in Int /\ s.to <= hi
    BY <1>1 DEF Bounded, SpanType
  <2>2. Group(S, f) # {}
    BY StartIs
  <2> QED
    BY <2>1, <2>2
<1>3. Max(T) \in T /\ \A n \in T : n <= Max(T)
  BY <1>2, GreatestBelow
<1>4. LastOf(S, f) = Max(T)
  BY DEF LastOf
<1>5. PICK r \in S : r.from = f /\ r \in Group(S, f)
  BY StartIs
<1>6. f < r.to /\ r.to <= Max(T) /\ r.to \in Int /\ f \in Int /\ Max(T) \in Int
  <2>1. r.to \in T
    BY <1>5
  <2>2. Max(T) \in Int /\ r.to <= Max(T)
    BY <1>2, <1>3, <2>1
  <2> QED
    BY <1>5, <2>2 DEF Bounded, SpanType
<1>7. f < Max(T)
  BY <1>6
<1> HIDE DEF T
<1>8. \E s \in Group(S, f) : s.to = Max(T)
  BY <1>3 DEF T
<1>9. \A s \in Group(S, f) : s.to \in T
  BY DEF T
<1> QED
  BY <1>2, <1>3, <1>4, <1>7, <1>8, <1>9

Covered(S, t) == \E s \in S : Within(s, t)

\* Merging covers the same instants.
LEMMA MergedCovers ==
  ASSUME NEW lo \in Int, NEW hi \in Int, NEW S, Bounded(S, lo, hi), NEW t \in Int
  PROVE  Covered(Merged(S), t) <=> Covered(S, t)
<1>1. ASSUME NEW s \in S, Within(s, t) PROVE Covered(Merged(S), t)
  <2>1. PICK f \in Starts(S) : s \in Group(S, f)
    BY GroupOf
  <2>2. s.from <= t /\ t < s.to /\ s.from \in Int /\ s.to \in Int
    BY <1>1 DEF Within, Bounded, SpanType
  <2>3. f \in Int /\ f <= s.from
    BY <2>1, StartIs DEF Group
  <2>4. LastOf(S, f) \in Int /\ s.to <= LastOf(S, f)
    BY <2>1, LastIs
  <2>5. f <= t /\ t < LastOf(S, f)
    BY <2>2, <2>3, <2>4
  <2> DEFINE m == [from |-> f, to |-> LastOf(S, f)]
  <2>6. m \in Merged(S)
    BY MergedAre
  <2>7. Within(m, t)
    BY <2>5 DEF Within
  <2> QED
    BY <2>6, <2>7 DEF Covered
<1>2. ASSUME NEW f \in Starts(S), f <= t, t < LastOf(S, f), ~Covered(S, t) PROVE FALSE
  <2> DEFINE P == {s.from : s \in {r \in Group(S, f) : r.from > t}}
  <2>1. Group(S, f) \subseteq S /\ f \in Int
    BY StartIs DEF Group
  <2>2. PICK e \in Group(S, f) : e.to = LastOf(S, f)
    BY LastIs
  <2>3. ASSUME NEW s \in S, s.from <= t PROVE s.to <= t
    BY <1>2, <2>3 DEF Covered, Within, Bounded, SpanType
  <2>4. e.from > t
    BY <1>2, <2>1, <2>2, <2>3 DEF Bounded, SpanType
  <2>5. P \subseteq Int /\ P # {} /\ \A n \in P : n >= t
    BY <2>1, <2>2, <2>4 DEF Bounded, SpanType
  <2>6. Min(P) \in P /\ \A n \in P : Min(P) <= n
    BY <2>5, LeastAbove
  <2>7. PICK p \in Group(S, f) : p.from = Min(P) /\ p.from > t
    BY <2>6
  <2>8. p \in S /\ p.from \in Int
    BY <2>1, <2>7 DEF Bounded, SpanType
  <2>9. p.from \notin Starts(S)
    BY <1>2, <2>1, <2>7, <2>8 DEF Group
  <2>10. PICK r \in S : r.from < p.from /\ p.from <= r.to
    BY <2>8, <2>9, NotAStart
  <2>11. r.from \in Int /\ r.to \in Int
    BY DEF Bounded, SpanType
  <2>12. ~(r.from < f)
    BY <1>2, <2>1, <2>7, <2>8, <2>10, <2>11, StartIs
  <2>13. r \in Group(S, f)
    <3>1. ASSUME NEW g \in Starts(S), f < g, g <= r.from PROVE FALSE
      <4>1. g <= p.from
        BY <2>8, <2>10, <2>11, <3>1, StartIs
      <4> QED
        BY <2>7, <3>1, <4>1 DEF Group
    <3> QED
      BY <2>1, <2>11, <2>12, <3>1 DEF Group
  <2>14. ~(r.from > t)
    <3>1. SUFFICES ASSUME r.from > t PROVE FALSE
      OBVIOUS
    <3>2. r.from \in P
      BY <2>13, <3>1
    <3>3. p.from <= r.from
      BY <2>6, <2>7, <3>2
    <3> QED
      BY <2>8, <2>10, <2>11, <3>3
  <2>15. r.to <= t
    BY <2>3, <2>11, <2>14
  <2> QED
    BY <2>7, <2>8, <2>10, <2>11, <2>15
<1>3. ASSUME NEW m \in Merged(S), Within(m, t) PROVE Covered(S, t)
  <2>1. PICK f \in Starts(S) : m = [from |-> f, to |-> LastOf(S, f)]
    BY MergedAre
  <2> QED
    BY <1>2, <1>3, <2>1 DEF Within
<1> QED
  BY <1>1, <1>3 DEF Covered

\* A merged span is as long as it can be: neither the instant before it nor its end is covered.
LEMMA MergedIsMaximal ==
  ASSUME NEW lo \in Int, NEW hi \in Int, NEW S, Bounded(S, lo, hi), NEW m \in Merged(S)
  PROVE  /\ m.from \in Int /\ m.to \in Int /\ m.from < m.to
         /\ ~Covered(S, m.from - 1) /\ ~Covered(S, m.to)
         /\ \E r \in S : r.from = m.from
<1>1. PICK f \in Starts(S) : m = [from |-> f, to |-> LastOf(S, f)]
  BY MergedAre
<1>2. f \in Int /\ LastOf(S, f) \in Int /\ f < LastOf(S, f)
  BY StartIs, LastIs
<1>3. \E r \in S : r.from = f
  BY StartIs
<1>4. ASSUME NEW r \in S, Within(r, f - 1) PROVE FALSE
  <2>1. r.from \in Int /\ r.to \in Int /\ r.from <= f - 1 /\ f - 1 < r.to
    BY <1>4 DEF Within, Bounded, SpanType
  <2>2. r.from < f
    BY <1>2, <2>1
  <2>3. r.to < f
    BY <2>2, StartIs
  <2> QED
    BY <1>2, <2>1, <2>3
<1>5. ASSUME NEW r \in S, Within(r, LastOf(S, f)) PROVE FALSE
  <2>1. r.from \in Int /\ r.to \in Int /\ r.from <= LastOf(S, f) /\ LastOf(S, f) < r.to
    BY <1>5 DEF Within, Bounded, SpanType
  <2>2. r \notin Group(S, f)
    <3>1. r \in Group(S, f) => r.to <= LastOf(S, f)
      BY LastIs
    <3> QED
      BY <1>2, <2>1, <3>1
  <2>3. CASE r.from < f
    <3>1. r.to < f
      BY <2>3, StartIs
    <3> QED
      BY <1>2, <2>1, <3>1
  <2>4. CASE \E g \in Starts(S) : f < g /\ g <= r.from
    <3>1. PICK g \in Starts(S) : f < g /\ g <= r.from
      BY <2>4
    <3>2. PICK e \in Group(S, f) : e.to = LastOf(S, f)
      BY LastIs
    <3>3. e \in S /\ e.from \in Int /\ g \in Int
      BY StartIs DEF Group, Bounded, SpanType
    <3>4. e.from < g
      BY <3>1, <3>2, <3>3 DEF Group
    <3>5. e.to < g
      BY <3>3, <3>4, StartIs
    <3> QED
      BY <1>2, <2>1, <3>1, <3>2, <3>3, <3>5
  <2> QED
    BY <1>2, <2>1, <2>2, <2>3, <2>4 DEF Group
<1> QED
  BY <1>1, <1>2, <1>3, <1>4, <1>5 DEF Covered

LEMMA OneCovers ==
  ASSUME NEW lo \in Int, NEW hi \in Int, NEW S, Bounded(S, lo, hi), NEW t \in Int,
         NEW m \in Merged(S), NEW n \in Merged(S), Within(m, t), Within(n, t)
  PROVE  m = n
<1>1. PICK f \in Starts(S) : m = [from |-> f, to |-> LastOf(S, f)]
  BY MergedAre
<1>2. PICK g \in Starts(S) : n = [from |-> g, to |-> LastOf(S, g)]
  BY MergedAre
<1>3. ASSUME NEW a \in Starts(S), NEW b \in Starts(S), a < b, b <= t, t < LastOf(S, a) PROVE FALSE
  <2>1. a \in Int /\ b \in Int /\ LastOf(S, a) \in Int
    BY StartIs, LastIs
  <2>2. PICK e \in Group(S, a) : e.to = LastOf(S, a)
    BY LastIs
  <2>3. e \in S /\ e.from \in Int
    BY DEF Group, Bounded, SpanType
  <2>4. e.from < b
    BY <1>3, <2>1, <2>2, <2>3 DEF Group
  <2>5. e.to < b
    BY <2>3, <2>4, StartIs
  <2> QED
    BY <1>3, <2>1, <2>2, <2>5
<1>4. f <= t /\ t < LastOf(S, f) /\ g <= t /\ t < LastOf(S, g)
  BY <1>1, <1>2 DEF Within
<1>5. f \in Int /\ g \in Int
  BY StartIs
<1>6. f = g
  BY <1>3, <1>4, <1>5
<1> QED
  BY <1>1, <1>2, <1>6

LEMMA MergedFinite ==
  ASSUME NEW lo \in Int, NEW hi \in Int, NEW S, Bounded(S, lo, hi)
  PROVE  IsFiniteSet(Merged(S))
<1> DEFINE g == [f \in Starts(S) |-> [from |-> f, to |-> LastOf(S, f)]]
<1>1. Starts(S) \subseteq lo .. hi
  BY StartIs
<1>2. IsFiniteSet(Starts(S))
  BY <1>1, FS_Interval, FS_Subset
<1>3. g \in Surjection(Starts(S), Merged(S))
  BY MergedAre DEF Surjection
<1> QED
  BY <1>2, <1>3, FS_Surjection

(* ------------------------- the schedule in wall time ---------------------- *)
TimeType   == {NoTime} \cup 0 .. DayUnits - 1
WindowType == [days : SUBSET Days, start : TimeType, end : TimeType]
WindowsTyped ==
  /\ windows \in Seq(WindowType) /\ zone \in Zones
  /\ drag = NoDrag \/ drag \in [row : Days, from : 0 .. DayUnits, to : 0 .. DayUnits]

\* Window i as it starts on civil day d, and whether it is open at wall time m.
WallStart(d, i) == WallTime(d, windows[i].start)
WallEnd(d, i)   == WallTime(IF CrossesMidnight(windows[i]) THEN d + 1 ELSE d, windows[i].end)
Kept(d, i)      == i \in DOMAIN windows /\ Valid(windows[i]) /\ Weekday(d) \in windows[i].days
Holds(d, i, m)  == Kept(d, i) /\ WallStart(d, i) <= m /\ m < WallEnd(d, i)
RunsAt(m)       == \E d \in Int : \E i \in DOMAIN windows : Holds(d, i, m)

LEMMA Week ==
  /\ DayUnits \in Nat \ {0} /\ WeekDays \in Nat \ {0} /\ FirstDay \in Nat \ {0}
  /\ WeekDays * DayUnits \in Nat /\ WeekDays * DayUnits >= DayUnits
<1>1. PICK D \in Nat \ {0}, W \in Nat \ {0} : D = DayUnits /\ W = WeekDays
  BY ZonesAssumption
<1>2. PICK w \in Nat : W = w + 1
  BY <1>1
<1>3. W * D = w * D + D /\ w * D \in Nat
  BY <1>2
<1> QED
  BY <1>1, <1>3, WindowsAssumption

LEMMA KeptIs ==
  ASSUME WindowsTyped, NEW d \in Int, NEW i, Kept(d, i)
  PROVE  /\ i \in DOMAIN windows /\ windows[i] \in WindowType
         /\ windows[i].start \in 0 .. DayUnits - 1 /\ windows[i].end \in 0 .. DayUnits - 1
         /\ WallStart(d, i) \in Int /\ WallEnd(d, i) \in Int
         /\ d * DayUnits <= WallStart(d, i) /\ WallStart(d, i) < d * DayUnits + DayUnits
         /\ WallStart(d, i) < WallEnd(d, i) /\ WallEnd(d, i) < d * DayUnits + 2 * DayUnits
         /\ ~CrossesMidnight(windows[i]) => WallEnd(d, i) < d * DayUnits + DayUnits
         /\ CrossesMidnight(windows[i]) => WallEnd(d, i) >= d * DayUnits + DayUnits
<1>1. i \in DOMAIN windows /\ Valid(windows[i]) /\ windows[i] \in WindowType
  BY DEF Kept, WindowsTyped
<1>2. windows[i].start \in 0 .. DayUnits - 1 /\ windows[i].end \in 0 .. DayUnits - 1
  BY <1>1 DEF Valid, WindowType, TimeType
<1>3. PICK D \in Nat \ {0}, s \in Int, e \in Int, p \in Int :
        D = DayUnits /\ s = windows[i].start /\ e = windows[i].end /\ p = d * D
  BY <1>2, Week
<1>4. WallStart(d, i) = p + s
  BY <1>3 DEF WallStart, WallTime
<1>5. (d + 1) * D = p + D
  BY <1>3
<1>6. WallEnd(d, i) = IF e <= s THEN p + D + e ELSE p + e
  BY <1>3, <1>5 DEF WallEnd, WallTime, CrossesMidnight
<1>7. CrossesMidnight(windows[i]) <=> e <= s
  BY <1>3 DEF CrossesMidnight
<1> QED
  BY <1>1, <1>2, <1>3, <1>4, <1>6, <1>7

LEMMA HoldsOn ==
  ASSUME WindowsTyped, NEW d \in Int, NEW i, NEW m \in Int, Holds(d, i, m)
  PROVE  d \in {m \div DayUnits, m \div DayUnits - 1}
<1>1. Kept(d, i) /\ WallStart(d, i) <= m /\ m < WallEnd(d, i)
  BY DEF Holds
<1>2. PICK D \in Nat \ {0} : D = DayUnits
  BY Week
<1>3. d * D <= m /\ m < d * D + 2 * D
  <2>1. d * D \in Int
    OBVIOUS
  <2> QED
    BY <1>1, <1>2, <2>1, KeptIs
<1>4. CASE m < d * D + D
  BY <1>2, <1>3, <1>4, DayIs
<1>5. CASE m >= d * D + D
  <2>1. (d + 1) * D <= m /\ m < (d + 1) * D + D
    BY <1>3, <1>5
  <2>2. m \div D = d + 1
    BY <2>1, DayIs
  <2> QED
    BY <1>2, <2>2
<1> QED
  BY <1>3, <1>4, <1>5

LEMMA Remainder ==
  ASSUME NEW a \in Int, NEW q \in Int, NEW d \in Nat \ {0}, q * d <= a, a < q * d + d
  PROVE  a % d = a - q * d
<1>1. a \div d = q
  BY DayIs
<1>2. a = (a \div d) * d + (a % d) /\ a % d \in Int
  BY Division
<1> QED
  BY <1>1, <1>2

LEMMA SameWeekday ==
  ASSUME NEW d \in Int
  PROVE  Weekday(d + WeekDays) = Weekday(d) /\ Weekday(d - WeekDays) = Weekday(d)
<1>1. PICK W \in Nat \ {0} : W = WeekDays
  BY Week
<1>2. PICK q \in Int : q = d \div W
  BY Division
<1>3. q * W <= d /\ d < q * W + W /\ d % W = d - q * W
  BY <1>2, Division, Remainder
<1>4. PICK p \in Int, r \in Int, n \in Int, m \in Int : p = q + 1 /\ r = q - 1 /\ n = d + W /\ m = d - W
  OBVIOUS
<1>5. p * W = q * W + W /\ r * W = q * W - W
  BY <1>4
<1>6. n % W = n - p * W /\ m % W = m - r * W
  <2>1. p * W <= n /\ n < p * W + W /\ r * W <= m /\ m < r * W + W
    BY <1>3, <1>4, <1>5
  <2> QED
    BY <2>1, Remainder
<1>7. (d + W) % W = d % W /\ (d - W) % W = d % W
  <2>1. n % W = d % W /\ m % W = d % W
    BY <1>3, <1>4, <1>5, <1>6
  <2> QED
    BY <1>4, <2>1
<1> QED
  BY <1>1, <1>7 DEF Weekday

LEMMA WeekOn ==
  ASSUME WindowsTyped, NEW d \in Int, NEW i, Kept(d, i), NEW k \in {WeekDays, 0 - WeekDays}
  PROVE  /\ Kept(d + k, i) /\ d + k \in Int
         /\ WallStart(d + k, i) = WallStart(d, i) + k * DayUnits
         /\ WallEnd(d + k, i) = WallEnd(d, i) + k * DayUnits
<1>1. PICK D \in Nat \ {0}, W \in Nat \ {0}, s \in Int, e \in Int :
        D = DayUnits /\ W = WeekDays /\ s = windows[i].start /\ e = windows[i].end
  BY Week, KeptIs
<1>2. k \in Int /\ d + k \in Int
  BY <1>1
<1>3. Weekday(d + k) = Weekday(d)
  <2>1. d + (0 - WeekDays) = d - WeekDays
    BY <1>1
  <2> QED
    BY <2>1, SameWeekday
<1>4. Kept(d + k, i)
  BY <1>3 DEF Kept
<1>5. (d + k) * D + s = d * D + s + k * D /\ (d + k) * D + e = d * D + e + k * D
      /\ (d + k + 1) * D + e = (d + 1) * D + e + k * D
  BY <1>2
<1> QED
  BY <1>1, <1>2, <1>4, <1>5 DEF WallStart, WallEnd, WallTime

LEMMA RunsWeekly ==
  ASSUME WindowsTyped, NEW m \in Int
  PROVE  RunsAt(m) <=> RunsAt(m + WeekDays * DayUnits)
<1>1. PICK D \in Nat \ {0}, W \in Nat \ {0}, P \in Nat : D = DayUnits /\ W = WeekDays /\ P = W * D
  BY Week
<1>2. (0 - W) * D = 0 - P
  BY <1>1
<1>3. ASSUME NEW d \in Int, NEW i, Holds(d, i, m) PROVE Holds(d + W, i, m + P)
  <2>1. Kept(d, i) /\ WallStart(d, i) \in Int /\ WallEnd(d, i) \in Int
    BY <1>3, KeptIs DEF Holds
  <2>2. Kept(d + W, i) /\ WallStart(d + W, i) = WallStart(d, i) + P /\ WallEnd(d + W, i) = WallEnd(d, i) + P
    BY <1>1, <2>1, WeekOn
  <2> QED
    BY <1>1, <1>3, <2>1, <2>2 DEF Holds
<1>4. ASSUME NEW d \in Int, NEW i, Holds(d, i, m + P) PROVE Holds(d + (0 - W), i, m)
  <2>1. Kept(d, i) /\ WallStart(d, i) \in Int /\ WallEnd(d, i) \in Int
    BY <1>4, KeptIs DEF Holds
  <2>2. /\ Kept(d + (0 - W), i)
        /\ WallStart(d + (0 - W), i) = WallStart(d, i) + (0 - P) /\ WallEnd(d + (0 - W), i) = WallEnd(d, i) + (0 - P)
    BY <1>1, <1>2, <2>1, WeekOn
  <2> QED
    BY <1>1, <1>4, <2>1, <2>2 DEF Holds
<1>5. ASSUME RunsAt(m) PROVE RunsAt(m + P)
  <2>1. PICK d \in Int, i \in DOMAIN windows : Holds(d, i, m)
    BY <1>5 DEF RunsAt
  <2> QED
    BY <1>1, <1>3, <2>1 DEF RunsAt
<1>6. ASSUME RunsAt(m + P) PROVE RunsAt(m)
  <2>1. PICK d \in Int, i \in DOMAIN windows : Holds(d, i, m + P)
    BY <1>6 DEF RunsAt
  <2> QED
    BY <1>1, <1>4, <2>1 DEF RunsAt
<1> QED
  BY <1>1, <1>5, <1>6

\* The schedule is open at an instant when it is at the latest wall time read by then.
LEMMA OpenIs ==
  ASSUME WindowsTyped, NEW t \in Int, Furthest(t) \div DayUnits = DayOf(zone, t)
  PROVE  Open(t) <=> RunsAt(Furthest(t))
<1>1. zone \in Zones /\ Furthest(t) \in Int /\ DayOf(zone, t) \in Int
  <2>1. zone \in Zones /\ Furthest(t) \in Int
    BY FurthestIs DEF WindowsTyped
  <2> QED
    BY <2>1, Division, Week
<1>2. ASSUME NEW d \in Int, NEW i, Kept(d, i)
      PROVE  Opens(d, windows[i]) <= t /\ t < Closes(d, windows[i]) <=> Holds(d, i, Furthest(t))
  <2>1. WallStart(d, i) \in Int /\ WallEnd(d, i) \in Int
    BY <1>2, KeptIs
  <2>2. Opens(d, windows[i]) = Reached(WallStart(d, i)) /\ Closes(d, windows[i]) = Reached(WallEnd(d, i))
    BY DEF Opens, Closes, WallStart, WallEnd
  <2>3. /\ Reached(WallStart(d, i)) \in Int /\ Reached(WallEnd(d, i)) \in Int
        /\ Reached(WallStart(d, i)) <= t <=> WallStart(d, i) <= Furthest(t)
        /\ Reached(WallEnd(d, i)) <= t <=> WallEnd(d, i) <= Furthest(t)
    BY <1>1, <2>1, ReachedBy
  <2> QED
    BY <1>1, <1>2, <2>1, <2>2, <2>3 DEF Holds
<1>3. Open(t) <=> \E i \in DOMAIN windows : \E d \in {DayOf(zone, t), DayOf(zone, t) - 1} : Holds(d, i, Furthest(t))
  BY <1>1, <1>2 DEF Open, Kept, Holds
<1>4. RunsAt(Furthest(t)) => \E i \in DOMAIN windows : \E d \in {DayOf(zone, t), DayOf(zone, t) - 1} : Holds(d, i, Furthest(t))
  BY <1>1, HoldsOn DEF RunsAt
<1> QED
  BY <1>1, <1>3, <1>4 DEF RunsAt

(* --------------------------- the editor's spans --------------------------- *)
LEMMA ReachedGrows ==
  ASSUME zone \in Zones, NEW v \in Int, NEW w \in Int, v <= w
  PROVE  Reached(v) \in Int /\ Reached(w) \in Int /\ Reached(v) <= Reached(w)
<1>1. PICK r \in Int : r = Reached(w)
  BY ReachedBy
<1>2. w <= Furthest(r) /\ Furthest(r) \in Int
  BY <1>1, ReachedBy, FurthestIs
<1>3. v <= Furthest(r)
  BY <1>2
<1> QED
  BY <1>1, <1>3, ReachedBy

SpanOf(d, i) == [from |-> Reached(WallStart(d, i)), to |-> Reached(WallEnd(d, i))]

LEMMA SpanIs ==
  ASSUME WindowsTyped, KeepsDay(zone), NEW d \in Int, NEW i, Kept(d, i)
  PROVE  /\ Occurrence(d, windows[i]) = SpanOf(d, i) /\ SpanOf(d, i) \in SpanType
         /\ SpanOf(d, i).from = Reached(WallStart(d, i)) /\ SpanOf(d, i).to = Reached(WallEnd(d, i))
         /\ \A t \in Int : Within(SpanOf(d, i), t) => Holds(d, i, Furthest(t))
         /\ \A t \in Int : Holds(d, i, Furthest(t)) => Within(SpanOf(d, i), t)
         /\ \A t \in Int : SpanOf(d, i).from <= t <=> WallStart(d, i) <= Furthest(t)
<1>1. WallStart(d, i) \in Int /\ WallEnd(d, i) \in Int /\ zone \in Zones
  BY KeptIs DEF WindowsTyped
<1>2. Occurrence(d, windows[i]) = SpanOf(d, i)
  BY <1>1, WallInstantIs DEF Occurrence, SpanOf, WallStart, WallEnd
<1>3. Reached(WallStart(d, i)) \in Int /\ Reached(WallEnd(d, i)) \in Int
  BY <1>1, ReachedBy
<1>4. ASSUME NEW t \in Int
      PROVE  /\ Within(SpanOf(d, i), t) => Holds(d, i, Furthest(t))
             /\ Holds(d, i, Furthest(t)) => Within(SpanOf(d, i), t)
             /\ SpanOf(d, i).from <= t <=> WallStart(d, i) <= Furthest(t)
  <2>1. /\ Reached(WallStart(d, i)) <= t <=> WallStart(d, i) <= Furthest(t)
        /\ Reached(WallEnd(d, i)) <= t <=> WallEnd(d, i) <= Furthest(t)
    BY <1>1, ReachedBy
  <2>2. Furthest(t) \in Int
    BY <1>1, FurthestIs
  <2> QED
    BY <1>1, <1>3, <2>1, <2>2 DEF Within, SpanOf, Holds
<1> QED
  BY <1>2, <1>3, <1>4 DEF SpanOf, SpanType

\* No window is lost on a day near enough.
LEMMA NotEmpty ==
  ASSUME WindowsTyped, KeepsDay(zone), NoneLost, NEW d \in FirstDay - 1 .. FirstDay + 2 * WeekDays, NEW i, Kept(d, i)
  PROVE  Reached(WallStart(d, i)) < Reached(WallEnd(d, i))
<1>1. PICK D \in Nat \ {0}, s \in Int, e \in Int, x \in Int, y \in Int :
        /\ D = DayUnits /\ s = windows[i].start /\ e = windows[i].end
        /\ x = WallStart(d, i) /\ y = WallEnd(d, i)
  BY Week, KeptIs
<1>2. d \in Int /\ zone \in Zones
  BY Week DEF WindowsTyped
<1>3. x < y /\ Reached(x) \in Int /\ Reached(y) \in Int /\ Reached(x) <= Reached(y)
  BY <1>1, <1>2, KeptIs, ReachedGrows
<1>4. ASSUME Reached(x) = Reached(y) PROVE FALSE
  <2>1. x \div D = y \div D
    BY <1>1, <1>2, <1>3, <1>4, ReachedTogether
  <2>2. PICK p \in Int : p = d * D
    BY <1>1, <1>2
  <2>3. p <= x /\ x < p + D
    BY <1>1, <1>2, <2>2, KeptIs
  <2>4. x \div D = d
    BY <1>1, <1>2, <2>2, <2>3, DayIs
  <2>5. y < p + D
    <3>1. (y \div D) * D <= y /\ y < (y \div D) * D + D
      BY <1>1, Division
    <3> QED
      BY <2>1, <2>2, <2>4, <3>1
  <2>6. ~CrossesMidnight(windows[i])
    BY <1>1, <1>2, <2>2, <2>5, KeptIs
  <2>7. x = WallTime(d, s) /\ y = WallTime(d, e)
    BY <1>1, <2>6 DEF WallStart, WallEnd
  <2>8. s # e
    BY <1>3, <2>7, <1>1
  <2>9. s \in Boundaries /\ e \in Boundaries
    BY <1>1 DEF Boundaries, Kept
  <2>10. Reached(WallTime(d, s)) # Reached(WallTime(d, e))
    BY <2>8, <2>9 DEF NoneLost
  <2> QED
    BY <1>4, <2>7, <2>10
<1> QED
  BY <1>1, <1>3, <1>4

Listed(day) == Occurrences(day - 1, Horizon + 1)

LEMMA ListedAre ==
  ASSUME WindowsTyped, KeepsDay(zone), NEW day \in Int
  PROVE  /\ \A s \in Listed(day) : \E d \in day - 1 .. day + WeekDays : \E i :
              Kept(d, i) /\ s = SpanOf(d, i) /\ s.from < s.to
         /\ \A d \in day - 1 .. day + WeekDays, i \in DOMAIN windows :
              Kept(d, i) /\ SpanOf(d, i).from < SpanOf(d, i).to => SpanOf(d, i) \in Listed(day)
<1>1. Horizon = WeekDays + 1 /\ WeekDays \in Nat
  BY Week DEF Horizon
<1>2. day - 1 .. (day - 1) + (Horizon + 1) - 1 = day - 1 .. day + WeekDays
  BY <1>1
<1> DEFINE Q == {q \in (day - 1 .. day + WeekDays) \X DOMAIN windows : Valid(windows[q[2]]) /\ Weekday(q[1]) \in windows[q[2]].days}
<1>3. Listed(day) = {span \in {Occurrence(p[1], windows[p[2]]) : p \in Q} : span.to > span.from}
  BY <1>2 DEF Listed, Occurrences
<1>4. ASSUME NEW d \in day - 1 .. day + WeekDays, NEW i, Kept(d, i)
      PROVE  Occurrence(d, windows[i]) = SpanOf(d, i) /\ SpanOf(d, i) \in SpanType
  BY <1>1, <1>4, SpanIs
<1>5. ASSUME NEW s \in Listed(day)
      PROVE  \E d \in day - 1 .. day + WeekDays : \E i : Kept(d, i) /\ s = SpanOf(d, i) /\ s.from < s.to
  <2>1. PICK p \in Q : s = Occurrence(p[1], windows[p[2]]) /\ s.to > s.from
    BY <1>3
  <2>2. p[1] \in day - 1 .. day + WeekDays /\ Kept(p[1], p[2])
    BY DEF Kept
  <2>3. s = SpanOf(p[1], p[2]) /\ s.from \in Int /\ s.to \in Int
    BY <1>4, <2>1, <2>2 DEF SpanType
  <2> QED
    BY <2>1, <2>2, <2>3
<1>6. ASSUME NEW d \in day - 1 .. day + WeekDays, NEW i \in DOMAIN windows, Kept(d, i), SpanOf(d, i).from < SpanOf(d, i).to
      PROVE  SpanOf(d, i) \in Listed(day)
  <2>1. <<d, i>> \in Q
    BY <1>6 DEF Kept
  <2>2. Occurrence(d, windows[i]) = SpanOf(d, i) /\ SpanOf(d, i).from \in Int /\ SpanOf(d, i).to \in Int
    BY <1>4, <1>6 DEF SpanType
  <2>3. SpanOf(d, i) \in {Occurrence(p[1], windows[p[2]]) : p \in Q}
    BY <2>1, <2>2
  <2> QED
    BY <1>3, <1>6, <2>2, <2>3
<1> QED
  BY <1>5, <1>6

LEMMA ListedBounded ==
  ASSUME WindowsTyped, KeepsDay(zone), NEW day \in Int
  PROVE  \E lo \in Int, hi \in Int : Bounded(Listed(day), lo, hi)
<1>1. PICK D \in Nat \ {0}, W \in Nat \ {0} : D = DayUnits /\ W = WeekDays
  BY Week
<1>2. PICK p \in Int, q \in Int : p = (day - 1) * D /\ q = (day + W) * D
  BY <1>1
<1>3. ASSUME NEW s \in Listed(day)
      PROVE  s \in SpanType /\ p - D <= s.from /\ s.from < s.to /\ s.to <= q + 3 * D
  <2>1. PICK d, i : d \in day - 1 .. day + W /\ Kept(d, i) /\ s = SpanOf(d, i) /\ s.from < s.to
    <3>1. PICK d \in day - 1 .. day + WeekDays : \E i : Kept(d, i) /\ s = SpanOf(d, i) /\ s.from < s.to
      BY <1>3, ListedAre
    <3> QED
      BY <1>1, <3>1
  <2>2. d \in Int /\ zone \in Zones
    BY <1>1, <2>1 DEF WindowsTyped
  <2>3. PICK r \in Int : r = d * D
    BY <1>1, <2>2
  <2>4. p <= r /\ r <= q
    BY <1>1, <1>2, <2>1, <2>2, <2>3
  <2>5. PICK x \in Int, y \in Int : x = WallStart(d, i) /\ y = WallEnd(d, i) /\ r <= x /\ y < r + 2 * D
    BY <1>1, <2>1, <2>2, <2>3, KeptIs
  <2>6. Reached(x) \in x - D .. x + D /\ Reached(y) \in y - D .. y + D
    BY <1>1, <2>2, <2>5, ReachedIs
  <2>7. s \in SpanType /\ s.from = Reached(x) /\ s.to = Reached(y)
    BY <2>1, <2>2, <2>5, SpanIs
  <2> QED
    BY <1>1, <2>1, <2>4, <2>5, <2>6, <2>7
<1>4. p - D \in Int /\ q + 3 * D \in Int
  BY <1>1
<1> QED
  BY <1>3, <1>4 DEF Bounded

\* The listed occurrences cover what is open, up to the last day they are listed for.
LEMMA ListedCover ==
  ASSUME WindowsTyped, KeepsDay(zone), NEW day \in Int, NEW t \in Int
  PROVE  /\ Open(t) <=> RunsAt(Furthest(t))
         /\ Covered(Listed(day), t) => Open(t)
         /\ Open(t) /\ day <= DayOf(zone, t) /\ DayOf(zone, t) <= day + WeekDays => Covered(Listed(day), t)
<1>1. zone \in Zones /\ Furthest(t) \in Int /\ Furthest(t) \div DayUnits = DayOf(zone, t) /\ DayOf(zone, t) \in Int
  <2>1. zone \in Zones
    BY DEF WindowsTyped
  <2>2. Furthest(t) \in Int /\ Furthest(t) \div DayUnits = DayOf(zone, t)
    BY <2>1, FurthestIs, SameDay
  <2> QED
    BY <2>1, <2>2, Division, Week
<1>2. Open(t) <=> RunsAt(Furthest(t))
  BY <1>1, OpenIs
<1>3. WeekDays \in Nat
  BY Week
<1>4. ASSUME Covered(Listed(day), t) PROVE RunsAt(Furthest(t))
  <2>1. PICK s \in Listed(day) : Within(s, t)
    BY <1>4 DEF Covered
  <2>2. PICK d, i : d \in day - 1 .. day + WeekDays /\ Kept(d, i) /\ s = SpanOf(d, i)
    BY <2>1, ListedAre
  <2>3. d \in Int
    BY <1>3, <2>2
  <2>4. Within(SpanOf(d, i), t) => Holds(d, i, Furthest(t))
    BY <2>2, <2>3, SpanIs
  <2> QED
    BY <2>1, <2>2, <2>3, <2>4 DEF RunsAt, Holds, Kept
<1>5. ASSUME RunsAt(Furthest(t)), day <= DayOf(zone, t), DayOf(zone, t) <= day + WeekDays
      PROVE  Covered(Listed(day), t)
  <2>1. PICK d \in Int, i \in DOMAIN windows : Holds(d, i, Furthest(t))
    BY <1>5 DEF RunsAt
  <2>2. d \in {DayOf(zone, t), DayOf(zone, t) - 1}
    BY <1>1, <2>1, HoldsOn
  <2>3. d \in day - 1 .. day + WeekDays /\ Kept(d, i)
    BY <1>1, <1>3, <1>5, <2>1, <2>2 DEF Holds
  <2>4. Within(SpanOf(d, i), t) /\ SpanOf(d, i) \in SpanType
    <3>1. Kept(d, i)
      BY <2>3
    <3>2. SpanOf(d, i) \in SpanType /\ (Holds(d, i, Furthest(t)) => Within(SpanOf(d, i), t))
      BY <3>1, SpanIs
    <3> QED
      BY <2>1, <3>2
  <2>5. SpanOf(d, i).from < SpanOf(d, i).to
    BY <2>4 DEF Within, SpanType
  <2>6. SpanOf(d, i) \in Listed(day)
    BY <2>3, <2>5, ListedAre
  <2> QED
    BY <2>4, <2>6 DEF Covered
<1> QED
  BY <1>2, <1>4, <1>5

(* ----------------------------- the next change ---------------------------- *)
\* What stays open until the clock has reached a wall time runs at that wall time, read or not.
LEMMA NoBreakBetween ==
  ASSUME WindowsTyped, KeepsDay(zone), NoneLost, NEW t \in Int, NEW m \in Int, Furthest(t) <= m, Open(t),
         m \div DayUnits \in FirstDay - 1 .. FirstDay + 2 * WeekDays,
         \A v \in Int : t <= v /\ v <= Reached(m) => Open(v)
  PROVE  RunsAt(m)
<1>1. PICK J \in Int, B \in Int, A \in Int, D \in Nat \ {0} : J = zone.jump /\ B = zone.before /\ A = zone.after /\ D = DayUnits
  BY ZoneFields DEF WindowsTyped
<1>2. zone \in Zones /\ Furthest(t) \in Int
  BY FurthestIs DEF WindowsTyped
<1>3. PICK v \in Int : v = Reached(m)
  BY <1>2, ReachedBy
<1>4. \A u \in Int : Open(u) => RunsAt(Furthest(u))
  BY ListedCover
<1>5. CASE v <= t
  <2>1. m <= Furthest(t)
    BY <1>2, <1>3, <1>5, ReachedBy
  <2>2. m = Furthest(t)
    BY <1>2, <2>1
  <2> QED
    BY <1>4, <2>2
<1>6. CASE v > t
  <2>1. PICK f \in Int, g \in Int : f = Furthest(v) /\ g = Furthest(v - 1)
    BY <1>2, FurthestIs
  <2>2. m <= f /\ g < m
    <3>1. m <= Furthest(v)
      BY <1>2, <1>3, ReachedBy
    <3>2. v - 1 \in Int /\ ~(v <= v - 1)
      OBVIOUS
    <3>3. ~(m <= Furthest(v - 1))
      BY <1>2, <1>3, <3>2, ReachedBy
    <3> QED
      BY <2>1, <3>1, <3>3
  <2>3. Open(v) /\ Open(v - 1)
    <3>1. v - 1 \in Int /\ t <= v - 1 /\ v - 1 <= v /\ t <= v
      BY <1>6
    <3> QED
      BY <1>3, <3>1
  <2>4. RunsAt(f) /\ RunsAt(g)
    BY <1>4, <2>1, <2>3
  <2>5. CASE m = f
    BY <2>4, <2>5
  <2>6. CASE m # f
    <3>1. /\ v < J => f = v + B
          /\ v >= J => IF v + A < J + B - 1 THEN f = J + B - 1 ELSE f = v + A
          /\ v - 1 < J => g = v - 1 + B
          /\ v - 1 >= J => IF v - 1 + A < J + B - 1 THEN g = J + B - 1 ELSE g = v - 1 + A
      BY <1>1, <1>2, <2>1, FurthestIs
    <3>2. v = J /\ f = J + A /\ g = J + B - 1 /\ m < f
      BY <2>2, <2>6, <3>1
    <3>3. SUFFICES ASSUME ~RunsAt(m) PROVE FALSE
      OBVIOUS
    <3>4. PICK d \in Int, i \in DOMAIN windows : Holds(d, i, f)
      BY <2>4 DEF RunsAt
    <3>5. PICK e \in Int, j \in DOMAIN windows : Holds(e, j, g)
      BY <2>4 DEF RunsAt
    <3>6. Kept(d, i) /\ Kept(e, j)
      BY <3>4, <3>5 DEF Holds
    <3>7. PICK y \in Int, y2 \in Int : y = WallStart(d, i) /\ y2 = WallEnd(d, i) /\ y <= f /\ f < y2
      BY <3>4, <3>6, KeptIs DEF Holds
    <3>8. PICK x \in Int, x2 \in Int : x = WallEnd(e, j) /\ x2 = WallStart(e, j) /\ x2 <= g /\ g < x
      BY <3>5, <3>6, KeptIs DEF Holds
    <3>9. ~Holds(d, i, m) /\ ~Holds(e, j, m)
      BY <3>3 DEF RunsAt
    <3>10. m < y /\ x <= m
      <4>1. ~(y <= m /\ m < y2) /\ ~(x2 <= m /\ m < x)
        BY <3>6, <3>7, <3>8, <3>9 DEF Holds
      <4> QED
        BY <2>2, <3>2, <3>7, <3>8, <4>1
    <3>11. Reached(x) = J /\ Reached(m) = J /\ Reached(y) = J
      <4>1. ASSUME NEW w \in Int, J + B <= w, w <= J + A PROVE Reached(w) = J
        <5>1. w - B >= J => IF w - A < J THEN Reached(w) = J ELSE Reached(w) = w - A
          BY <1>1, <1>2, ReachedIs
        <5> QED
          BY <4>1, <5>1
      <4>2. J + B <= x /\ x <= J + A /\ J + B <= m /\ m <= J + A /\ J + B <= y /\ y <= J + A
        BY <2>2, <3>2, <3>7, <3>8, <3>10
      <4> QED
        BY <4>1, <4>2
    <3>12. x \div D = m \div D \/ x = m
      <4>1. x < m => x \div DayUnits = m \div DayUnits
        BY <1>2, <3>11, ReachedTogether
      <4> QED
        BY <1>1, <3>10, <4>1
    <3>13. m \div D = y \div D
      BY <1>1, <1>2, <3>10, <3>11, ReachedTogether
    <3>14. PICK c \in Int : c = m \div D /\ x \div D = c /\ y \div D = c /\ c \in FirstDay - 1 .. FirstDay + 2 * WeekDays
      <4>1. m \div D \in Int
        BY Division
      <4> QED
        BY <1>1, <3>12, <3>13, <4>1
    <3>15. y = WallTime(c, windows[i].start)
      <4>1. PICK p \in Int : p = d * D
        BY <1>1
      <4>2. p <= y /\ y < p + D
        BY <1>1, <3>6, <3>7, <4>1, KeptIs
      <4>3. y \div D = d
        BY <4>1, <4>2, DayIs
      <4> QED
        BY <3>7, <3>14, <4>3 DEF WallStart
    <3>16. x = WallTime(c, windows[j].end)
      <4>1. PICK n \in Int : n = IF CrossesMidnight(windows[j]) THEN e + 1 ELSE e
        OBVIOUS
      <4>2. windows[j].end \in 0 .. D - 1
        BY <1>1, <3>6, KeptIs
      <4>3. x = n * D + windows[j].end
        BY <1>1, <3>8, <4>1 DEF WallEnd, WallTime
      <4>4. PICK p \in Int, r \in Int : p = n * D /\ r = windows[j].end
        BY <1>1, <4>2
      <4>5. p <= x /\ x < p + D
        BY <4>2, <4>3, <4>4
      <4>6. x \div D = n
        BY <4>4, <4>5, DayIs
      <4> QED
        BY <1>1, <3>14, <4>3, <4>6 DEF WallTime
    <3>17. windows[i].start # windows[j].end
      BY <3>10, <3>15, <3>16
    <3>18. windows[i].start \in Boundaries /\ windows[j].end \in Boundaries
      BY <3>4, <3>5, <3>6 DEF Boundaries, Kept
    <3>19. Reached(WallTime(c, windows[i].start)) # Reached(WallTime(c, windows[j].end))
      BY <3>14, <3>17, <3>18 DEF NoneLost
    <3> QED
      BY <3>11, <3>15, <3>16, <3>19
  <2> QED
    BY <2>5, <2>6
<1> QED
  BY <1>3, <1>5, <1>6

\* Where a day's instants are.
LEMMA OnADay ==
  ASSUME WindowsTyped, KeepsDay(zone), NEW t \in Int
  PROVE  /\ DayOf(zone, t) \in Int /\ Furthest(t) \in Int
         /\ DayOf(zone, t) * DayUnits <= Furthest(t) /\ Furthest(t) < DayOf(zone, t) * DayUnits + DayUnits
         /\ DayOf(zone, t) * DayUnits <= t + DayUnits
<1>1. zone \in Zones
  BY DEF WindowsTyped
<1>2. PICK D \in Nat \ {0}, w \in Int, m \in Int : D = DayUnits /\ w = Wall(zone, t) /\ m = Furthest(t) /\ w <= t + D
  <2>1. Wall(zone, t) <= t + DayUnits
    BY <1>1, ZoneFields DEF Wall, OffsetAt
  <2> QED
    BY <1>1, <2>1, FurthestIs, ZoneFields
<1>3. m \div D = DayOf(zone, t) /\ w \div D = DayOf(zone, t)
  BY <1>1, <1>2, SameDay DEF DayOf
<1>4. PICK d \in Int : d = DayOf(zone, t)
  BY <1>2, <1>3, Division
<1>5. d * D <= m /\ m < d * D + D /\ d * D <= w
  BY <1>2, <1>3, <1>4, Division
<1>6. PICK p \in Int : p = d * D
  BY <1>2
<1> QED
  BY <1>2, <1>4, <1>5, <1>6

\* What is open from t on and shuts within the horizon does so before the wall clock is a week further.
LEMMA ShutsWithinAWeek ==
  ASSUME WindowsTyped, KeepsDay(zone), NoneLost, NEW t \in Int, DayOf(zone, t) \in LookedAt,
         NEW u \in Int, t < u, u <= t + Horizon * DayUnits, ~Open(u),
         \A v \in Int : t <= v /\ v < u => Open(v)
  PROVE  Furthest(u) < Furthest(t) + WeekDays * DayUnits
<1>1. PICK D \in Nat \ {0}, W \in Nat \ {0}, P \in Nat, F \in Nat \ {0}, d \in Int :
        D = DayUnits /\ W = WeekDays /\ P = W * D /\ P >= D /\ F = FirstDay /\ d = DayOf(zone, t)
  BY Week, OnADay
<1>2. PICK m \in Int, n \in Int, k \in Int : m = Furthest(t) /\ n = Furthest(u) /\ k = Furthest(u - 1)
  BY OnADay
<1>3. SUFFICES ASSUME n >= m + P PROVE FALSE
  BY <1>1, <1>2
<1>4. zone \in Zones
  BY DEF WindowsTyped
<1>5. PICK J \in Int, B \in Int, A \in Int : J = zone.jump /\ B = zone.before /\ A = zone.after /\ 2 * (A - B) <= D
  BY <1>1, <1>4, ZoneFields, HalfADay
<1>6. PICK x \in Int : x = n - P
  OBVIOUS
<1>7. x >= m
  BY <1>3, <1>6
<1>8. x <= k
  <2>1. n - k <= (u - (u - 1)) + (IF B < A THEN A - B ELSE 0)
    <3>1. u - 1 \in Int /\ u - 1 <= u
      OBVIOUS
    <3> QED
      BY <1>2, <1>4, <1>5, <3>1, FurthestGrows
  <2>2. u - (u - 1) = 1
    OBVIOUS
  <2> QED
    BY <1>1, <1>5, <1>6, <2>1, <2>2
<1>9. Reached(x) \in Int /\ Reached(x) <= u - 1
  BY <1>2, <1>4, <1>8, ReachedBy
<1>10. \A v \in Int : t <= v /\ v <= Reached(x) => Open(v)
  BY <1>9
<1>11. Horizon * DayUnits = P + D
  BY <1>1 DEF Horizon
<1>12. x <= m + 2 * D
  <2>1. n - m <= (u - t) + (IF B < A THEN A - B ELSE 0)
    BY <1>2, <1>4, <1>5, FurthestGrows
  <2> QED
    BY <1>1, <1>5, <1>6, <1>11, <2>1
<1>13. PICK p \in Int : p = d * D
  BY <1>1
<1>14. p <= m /\ m < p + D
  BY <1>1, <1>2, <1>13, OnADay
<1>15. x \div D \in FirstDay - 1 .. FirstDay + 2 * WeekDays
  <2>1. PICK c \in Int : c = x \div D
    BY Division
  <2>2. d <= c
    <3>1. p \div D = d
      BY <1>1, <1>13, DayIs
    <3>2. p <= x
      BY <1>7, <1>14
    <3> QED
      BY <2>1, <3>1, <3>2, DaysGrow
  <2>3. c <= d + 2
    <3>1. c * D <= x
      BY <2>1, Division
    <3>2. c * D < p + 3 * D
      BY <1>12, <1>14, <3>1
    <3>3. SUFFICES ASSUME c >= d + 3 PROVE FALSE
      BY <2>1, <1>1
    <3>4. (d + 3) * D <= c * D
      BY <3>3
    <3>5. (d + 3) * D = p + 3 * D
      BY <1>13
    <3> QED
      BY <3>2, <3>4, <3>5
  <2>4. d \in F .. F + W - 1
    BY <1>1 DEF LookedAt
  <2> QED
    BY <1>1, <2>1, <2>2, <2>3, <2>4
<1>16. RunsAt(x)
  <2>1. Open(t)
    OBVIOUS
  <2> QED
    BY <1>1, <1>2, <1>7, <1>10, <1>15, <2>1, NoBreakBetween
<1>17. RunsAt(n)
  <2>1. x + WeekDays * DayUnits = n
    BY <1>1, <1>6
  <2> QED
    BY <1>16, <2>1, RunsWeekly
<1> QED
  BY <1>2, <1>17, ListedCover

\* The schedule flips at u, after t: the first instant it is otherwise than at t.
FirstFlip(t, u) ==
  /\ t < u /\ u <= t + Horizon * DayUnits /\ ~(Open(u) <=> Open(t))
  /\ \A v \in Int : t <= v /\ v < u => (Open(v) <=> Open(t))
NoFlip(t) == \A v \in Int : t <= v /\ v <= t + Horizon * DayUnits => (Open(v) <=> Open(t))

\* A span of the editor that is open at t.
LEMMA OpenSpan ==
  ASSUME WindowsTyped, KeepsDay(zone), NEW t \in Int, NEW m \in Around(DayOf(zone, t)), Within(m, t)
  PROVE  /\ m.to \in Int /\ t < m.to
         /\ \A v \in Int : t <= v /\ v < m.to => Open(v)
         /\ {s \in Around(DayOf(zone, t)) : Within(s, t)} = {m}
         /\ Open(m.to) => DayOf(zone, t) * DayUnits + (WeekDays + 1) * DayUnits <= Furthest(m.to)
<1>1. PICK day \in Int : day = DayOf(zone, t)
  BY OnADay
<1> DEFINE S == Listed(day)
<1>2. Around(day) = Merged(S)
  BY DEF Around, Intervals, Listed
<1>3. PICK lo \in Int, hi \in Int : Bounded(S, lo, hi)
  BY ListedBounded
<1> HIDE DEF S
<1>4. m \in Merged(S)
  BY <1>1, <1>2
<1>5. m.from \in Int /\ m.to \in Int /\ ~Covered(S, m.to)
  BY <1>3, <1>4, MergedIsMaximal
<1>6. m.from <= t /\ t < m.to
  BY DEF Within
<1>7. ASSUME NEW v \in Int, t <= v, v < m.to PROVE Open(v)
  <2>1. Within(m, v)
    BY <1>5, <1>6, <1>7 DEF Within
  <2>2. Covered(Merged(S), v)
    BY <1>4, <2>1 DEF Covered
  <2>3. Covered(S, v)
    BY <1>3, <2>2, MergedCovers
  <2> QED
    BY <2>3, ListedCover DEF S
<1>8. {s \in Around(day) : Within(s, t)} = {m}
  BY <1>2, <1>3, <1>4, OneCovers
<1>9. ASSUME Open(m.to) PROVE day * DayUnits + (WeekDays + 1) * DayUnits <= Furthest(m.to)
  <2>1. PICK D \in Nat \ {0}, W \in Nat \ {0}, e \in Int : D = DayUnits /\ W = WeekDays /\ e = DayOf(zone, m.to)
    BY <1>5, Week, OnADay
  <2>2. zone \in Zones /\ Furthest(t) \in Int /\ Furthest(m.to) \in Int
    BY <1>5, OnADay DEF WindowsTyped
  <2>3. Furthest(t) <= Furthest(m.to)
    BY <1>5, <1>6, <2>2, FurthestGrows
  <2>4. Furthest(t) \div DayUnits = day /\ Furthest(m.to) \div DayUnits = e
    BY <1>1, <1>5, <2>1, <2>2, SameDay
  <2>5. day <= e
    BY <2>1, <2>2, <2>3, <2>4, DaysGrow
  <2>6. e > day + W
    <3>1. ~(day <= e /\ e <= day + WeekDays)
      BY <1>5, <1>9, <2>1, ListedCover DEF S
    <3> QED
      BY <2>1, <2>5, <3>1
  <2>7. e * D <= Furthest(m.to)
    BY <1>5, <2>1, OnADay
  <2>8. (day + W + 1) * D <= e * D
    BY <2>1, <2>6
  <2>9. (day + W + 1) * D = day * D + (W + 1) * D
    OBVIOUS
  <2> QED
    BY <2>1, <2>2, <2>7, <2>8, <2>9
<1> QED
  BY <1>1, <1>5, <1>6, <1>7, <1>8, <1>9

\* An open schedule that shuts within the horizon is said to shut when it does.
LEMMA ShutsAsSaid ==
  ASSUME WindowsTyped, KeepsDay(zone), NoneLost, NEW t \in Int, DayOf(zone, t) \in LookedAt, Open(t),
         NEW u \in Int, FirstFlip(t, u)
  PROVE  Change(Around(DayOf(zone, t)), t) = u
<1>1. PICK D \in Nat \ {0}, W \in Nat \ {0}, P \in Nat, F \in Nat \ {0}, d \in Int :
        D = DayUnits /\ W = WeekDays /\ P = W * D /\ P >= D /\ F = FirstDay /\ d = DayOf(zone, t)
  BY Week, OnADay
<1>2. PICK S \in {Listed(d)}, lo \in Int, hi \in Int : S = Listed(d) /\ Around(d) = Merged(S) /\ Bounded(S, lo, hi)
  <2>1. Around(d) = Merged(Listed(d))
    BY DEF Around, Intervals, Listed
  <2>2. PICK lo \in Int, hi \in Int : Bounded(Listed(d), lo, hi)
    BY <1>1, ListedBounded
  <2> QED
    BY <2>1, <2>2
<1>3. Covered(S, t)
  BY <1>1, <1>2, ListedCover
<1>4. PICK m \in Merged(S) : Within(m, t)
  BY <1>2, <1>3, MergedCovers DEF Covered
<1>5. /\ m.to \in Int /\ t < m.to
      /\ \A v \in Int : t <= v /\ v < m.to => Open(v)
      /\ {s \in Merged(S) : Within(s, t)} = {m}
      /\ Open(m.to) => d * D + (W + 1) * D <= Furthest(m.to)
  BY <1>1, <1>2, <1>4, OpenSpan
<1>6. t < u /\ u <= t + Horizon * DayUnits /\ ~Open(u) /\ \A v \in Int : t <= v /\ v < u => Open(v)
  BY DEF FirstFlip
<1>7. Furthest(u) < Furthest(t) + P
  BY <1>1, <1>6, ShutsWithinAWeek
<1>8. PICK p \in Int, ft \in Int, fu \in Int, fe \in Int :
        /\ p = d * D /\ ft = Furthest(t) /\ fu = Furthest(u) /\ fe = Furthest(m.to)
        /\ p <= ft /\ ft < p + D
  <2>1. Furthest(t) \in Int /\ Furthest(u) \in Int /\ Furthest(m.to) \in Int
    BY <1>5, OnADay
  <2>2. d * D <= Furthest(t) /\ Furthest(t) < d * D + D /\ d * D \in Int
    BY <1>1, OnADay
  <2> QED
    BY <2>1, <2>2
<1>9. (W + 1) * D = P + D
  BY <1>1
<1>10. m.to = u
  <2>1. ~(m.to > u)
    BY <1>5, <1>6
  <2>2. ASSUME m.to < u PROVE FALSE
    <3>1. Open(m.to)
      BY <1>5, <1>6, <2>2
    <3>2. fe <= fu
      <4>1. zone \in Zones /\ m.to <= u
        BY <1>5, <2>2 DEF WindowsTyped
      <4> QED
        BY <1>5, <1>8, <4>1, FurthestGrows
    <3> QED
      BY <1>1, <1>5, <1>7, <1>8, <1>9, <3>1, <3>2
  <2> QED
    BY <1>5, <2>1, <2>2
\* The occurrence a week after the one open at t is listed too, and starts after u.
<1>11. PICK c \in Int, i \in DOMAIN windows : Holds(c, i, ft)
  <2>1. RunsAt(ft)
    BY <1>8, ListedCover
  <2> QED
    BY <2>1 DEF RunsAt
<1>12. c \in {d, d - 1} /\ Kept(c, i)
  <2>1. ft \div DayUnits = d
    BY <1>1, <1>8, SameDay DEF WindowsTyped
  <2> QED
    BY <1>11, <2>1, HoldsOn DEF Holds
<1>13. PICK x \in Int, y \in Int : x = WallStart(c, i) /\ y = WallEnd(c, i) /\ x <= ft /\ ft < y
  BY <1>11, <1>12, KeptIs DEF Holds
<1>14. Kept(c + W, i) /\ WallStart(c + W, i) = x + P /\ WallEnd(c + W, i) = y + P
  BY <1>1, <1>12, <1>13, WeekOn
<1>15. ~RunsAt(fu)
  BY <1>6, <1>8, ListedCover
<1>16. fu < x + P
  <2>1. ~(x + P <= fu /\ fu < y + P)
    <3>1. ~Holds(c + W, i, fu)
      BY <1>1, <1>15 DEF RunsAt
    <3> QED
      BY <1>14, <3>1 DEF Holds
  <2> QED
    BY <1>1, <1>7, <1>8, <1>13, <2>1
<1>17. c + W \in F - 1 .. F + 2 * W
  BY <1>1, <1>12 DEF LookedAt
<1>18. Reached(WallStart(c + W, i)) < Reached(WallEnd(c + W, i))
  BY <1>1, <1>14, <1>17, NotEmpty
<1>19. PICK s : s = SpanOf(c + W, i) /\ s.from \in Int /\ s.to \in Int /\ s.from < s.to /\ s.from > u
  <2>1. c + W \in Int
    BY <1>1
  <2>2. /\ SpanOf(c + W, i) \in SpanType
        /\ SpanOf(c + W, i).from = Reached(WallStart(c + W, i)) /\ SpanOf(c + W, i).to = Reached(WallEnd(c + W, i))
        /\ SpanOf(c + W, i).from <= u <=> WallStart(c + W, i) <= Furthest(u)
    BY <1>14, <2>1, SpanIs
  <2>3. ~(SpanOf(c + W, i).from <= u)
    BY <1>8, <1>13, <1>14, <1>16, <1>1, <2>2
  <2>4. SpanOf(c + W, i).from \in Int /\ SpanOf(c + W, i).to \in Int
    BY <2>2 DEF SpanType
  <2> QED
    BY <1>18, <2>2, <2>3, <2>4
<1>20. s \in S
  <2>1. c + W \in d - 1 .. d + WeekDays
    BY <1>1, <1>12
  <2> QED
    BY <1>2, <1>11, <1>14, <1>19, <2>1, ListedAre
<1>21. Cardinality(Merged(S)) # 1
  <2>1. SUFFICES ASSUME Cardinality(Merged(S)) = 1 PROVE FALSE
    OBVIOUS
  <2>2. IsFiniteSet(Merged(S))
    BY <1>2, MergedFinite
  <2>3. Merged(S) = {m}
    BY <1>4, <2>1, <2>2, FS_Singleton
  <2>4. Covered(S, s.from)
    BY <1>19, <1>20 DEF Covered, Within
  <2>5. Covered(Merged(S), s.from)
    BY <1>2, <1>19, <2>4, MergedCovers
  <2>6. s.from < m.to
    BY <2>3, <2>5 DEF Covered, Within
  <2> QED
    BY <1>10, <1>19, <2>6
<1>22. Change(Merged(S), t) = (CHOOSE q \in {m} : TRUE).to
  BY <1>5, <1>21 DEF Change
<1> QED
  BY <1>1, <1>2, <1>10, <1>22

\* An open schedule that stays open is not said to shut within the week.
LEMMA StaysOpenAsSaid ==
  ASSUME WindowsTyped, KeepsDay(zone), NEW t \in Int, Open(t), NoFlip(t)
  PROVE  LET change == Change(Around(DayOf(zone, t)), t)
         IN  change = Never \/ change > t + (WeekDays - 1) * DayUnits
<1>1. PICK D \in Nat \ {0}, W \in Nat \ {0}, P \in Nat, d \in Int :
        D = DayUnits /\ W = WeekDays /\ P = W * D /\ P >= D /\ d = DayOf(zone, t)
  BY Week, OnADay
<1>2. PICK S \in {Listed(d)}, lo \in Int, hi \in Int : S = Listed(d) /\ Around(d) = Merged(S) /\ Bounded(S, lo, hi)
  <2>1. Around(d) = Merged(Listed(d))
    BY DEF Around, Intervals, Listed
  <2>2. PICK lo \in Int, hi \in Int : Bounded(Listed(d), lo, hi)
    BY <1>1, ListedBounded
  <2> QED
    BY <2>1, <2>2
<1>3. Covered(S, t)
  BY <1>1, <1>2, ListedCover
<1>4. PICK m \in Merged(S) : Within(m, t)
  BY <1>2, <1>3, MergedCovers DEF Covered
<1>5. /\ m.to \in Int /\ t < m.to
      /\ {s \in Merged(S) : Within(s, t)} = {m}
      /\ Open(m.to) => d * D + (W + 1) * D <= Furthest(m.to)
  BY <1>1, <1>2, <1>4, OpenSpan
<1>6. Change(Merged(S), t) \in {Never, m.to}
  BY <1>5 DEF Change
<1>7. ASSUME ~(m.to > t + (W - 1) * D) PROVE FALSE
  <2>1. (W - 1) * D = P - D /\ (W + 1) * D = P + D
    BY <1>1
  <2>2. Horizon * DayUnits = P + D
    BY <1>1 DEF Horizon
  <2>3. m.to <= t + Horizon * DayUnits
    BY <1>1, <1>5, <1>7, <2>1, <2>2
  <2>4. Open(m.to)
    BY <1>5, <2>3 DEF NoFlip
  <2>5. zone \in Zones
    BY DEF WindowsTyped
  <2>6. PICK J \in Int, B \in Int, A \in Int : J = zone.jump /\ B = zone.before /\ A = zone.after /\ 2 * (A - B) <= D
    BY <1>1, <2>5, ZoneFields, HalfADay
  <2>7. PICK ft \in Int, fe \in Int : ft = Furthest(t) /\ fe = Furthest(m.to)
    BY <1>5, OnADay
  <2>8. fe - ft <= (m.to - t) + (IF B < A THEN A - B ELSE 0)
    <3>1. m.to \in Int /\ t <= m.to
      BY <1>5
    <3> QED
      BY <2>5, <2>6, <2>7, <3>1, FurthestGrows
  <2>9. PICK p \in Int : p = d * D
    BY <1>1
  <2>10. ft < p + D
    BY <1>1, <2>7, <2>9, OnADay
  <2>11. p + (P + D) <= fe
    BY <1>5, <2>1, <2>4, <2>7, <2>9
  <2> QED
    BY <1>1, <1>5, <1>7, <2>1, <2>6, <2>8, <2>10, <2>11
<1> QED
  BY <1>1, <1>2, <1>6, <1>7

\* A span of the editor starts with the schedule open.
LEMMA StartsOpen ==
  ASSUME WindowsTyped, KeepsDay(zone), NEW day \in Int, NEW m \in Around(day)
  PROVE  m.from \in Int /\ Open(m.from)
<1>1. Around(day) = Merged(Listed(day))
  BY DEF Around, Intervals, Listed
<1>2. PICK lo \in Int, hi \in Int : Bounded(Listed(day), lo, hi)
  BY ListedBounded
<1>3. m.from \in Int /\ m.to \in Int /\ m.from < m.to
  BY <1>1, <1>2, MergedIsMaximal
<1>4. Covered(Merged(Listed(day)), m.from)
  BY <1>1, <1>3 DEF Covered, Within
<1>5. Covered(Listed(day), m.from)
  BY <1>2, <1>3, <1>4, MergedCovers
<1> QED
  BY <1>3, <1>5, ListedCover

ToOpen(day, t) == {s.from : s \in {r \in Around(day) : r.from > t}}

LEMMA ShutIs ==
  ASSUME WindowsTyped, KeepsDay(zone), NEW t \in Int, ~Open(t)
  PROVE  /\ Change(Around(DayOf(zone, t)), t) =
              IF ToOpen(DayOf(zone, t), t) # {} THEN Min(ToOpen(DayOf(zone, t), t)) ELSE Never
         /\ \A f \in ToOpen(DayOf(zone, t), t) : f \in Int /\ f > t /\ Open(f)
<1>1. PICK day \in Int : day = DayOf(zone, t)
  BY OnADay
<1>2. PICK lo \in Int, hi \in Int : Bounded(Listed(day), lo, hi)
  BY ListedBounded
<1>3. Around(day) = Merged(Listed(day))
  BY DEF Around, Intervals, Listed
<1>4. ~Covered(Around(day), t)
  BY <1>2, <1>3, ListedCover, MergedCovers
<1>5. {s \in Around(day) : Within(s, t)} = {}
  BY <1>4 DEF Covered
<1>6. \A f \in ToOpen(day, t) : f \in Int /\ f > t /\ Open(f)
  BY StartsOpen DEF ToOpen
<1> QED
  BY <1>1, <1>5, <1>6 DEF Change, ToOpen

\* A shut schedule that opens within the horizon is said to open when it does.
LEMMA OpensAsSaid ==
  ASSUME WindowsTyped, KeepsDay(zone), NoneLost, NEW t \in Int, DayOf(zone, t) \in LookedAt, ~Open(t),
         NEW u \in Int, FirstFlip(t, u)
  PROVE  Change(Around(DayOf(zone, t)), t) = u
<1>1. PICK D \in Nat \ {0}, W \in Nat \ {0}, P \in Nat, F \in Nat \ {0}, d \in Int :
        D = DayUnits /\ W = WeekDays /\ P = W * D /\ P >= D /\ F = FirstDay /\ d = DayOf(zone, t)
  BY Week, OnADay
<1>2. PICK S \in {Listed(d)}, lo \in Int, hi \in Int : S = Listed(d) /\ Around(d) = Merged(S) /\ Bounded(S, lo, hi)
  <2>1. Around(d) = Merged(Listed(d))
    BY DEF Around, Intervals, Listed
  <2>2. PICK lo \in Int, hi \in Int : Bounded(Listed(d), lo, hi)
    BY <1>1, ListedBounded
  <2> QED
    BY <2>1, <2>2
<1>3. t < u /\ u <= t + Horizon * DayUnits /\ Open(u) /\ \A v \in Int : t <= v /\ v < u => ~Open(v)
  BY DEF FirstFlip
<1>4. zone \in Zones
  BY DEF WindowsTyped
<1>5. PICK p \in Int, ft \in Int, fu \in Int, fl \in Int :
        /\ p = d * D /\ ft = Furthest(t) /\ fu = Furthest(u) /\ fl = Furthest(u - 1)
        /\ p <= ft /\ ft < p + D
  <2>1. u - 1 \in Int
    OBVIOUS
  <2>2. Furthest(t) \in Int /\ Furthest(u) \in Int /\ Furthest(u - 1) \in Int
    BY <2>1, OnADay
  <2>3. d * D <= Furthest(t) /\ Furthest(t) < d * D + D /\ d * D \in Int
    BY <1>1, OnADay
  <2> QED
    BY <2>2, <2>3
<1>6. ft <= fl /\ fl <= fu
  <2>1. u - 1 \in Int /\ t <= u - 1 /\ u - 1 <= u
    BY <1>3
  <2> QED
    BY <1>4, <1>5, <2>1, FurthestGrows
<1>7. PICK c \in Int, i \in DOMAIN windows : Holds(c, i, fu)
  <2>1. RunsAt(fu)
    BY <1>3, <1>5, ListedCover
  <2> QED
    BY <2>1 DEF RunsAt
<1>8. PICK x \in Int, y \in Int : Kept(c, i) /\ x = WallStart(c, i) /\ y = WallEnd(c, i) /\ x <= fu /\ fu < y
  BY <1>7, KeptIs DEF Holds
<1>9. fl < x
  <2>1. u - 1 \in Int /\ t <= u - 1 /\ u - 1 < u
    BY <1>3
  <2>2. ~RunsAt(fl)
    BY <1>3, <1>5, <2>1, ListedCover
  <2>3. ~Holds(c, i, fl)
    BY <1>7, <2>2 DEF RunsAt
  <2> QED
    BY <1>6, <1>8, <2>3 DEF Holds
<1>10. Reached(x) = u
  <2>1. Reached(x) \in Int /\ Reached(x) <= u
    BY <1>4, <1>5, <1>8, ReachedBy
  <2>2. ~(Reached(x) <= u - 1)
    <3>1. u - 1 \in Int
      OBVIOUS
    <3> QED
      BY <1>4, <1>5, <1>9, <3>1, ReachedBy
  <2> QED
    BY <2>1, <2>2
<1>11. PICK q \in Int : q = c * D /\ q <= x /\ x < q + D
  <2>1. c * D \in Int
    BY <1>1
  <2> QED
    BY <1>1, <1>8, <2>1, KeptIs
<1>12. c >= d
  <2>1. p < q + D
    BY <1>5, <1>6, <1>9, <1>11
  <2>2. SUFFICES ASSUME c <= d - 1 PROVE FALSE
    BY <1>1
  <2>3. (c + 1) * D <= d * D
    BY <1>1, <2>2
  <2> QED
    BY <1>5, <1>11, <2>1, <2>3
<1>13. c <= d + W
  <2>1. SUFFICES ASSUME c > d + W PROVE FALSE
    BY <1>1
  <2>2. PICK J \in Int, B \in Int, A \in Int : J = zone.jump /\ B = zone.before /\ A = zone.after /\ 2 * (A - B) <= D
    BY <1>1, <1>4, ZoneFields, HalfADay
  <2>3. fu - ft <= (u - t) + (IF B < A THEN A - B ELSE 0)
    BY <1>3, <1>4, <1>5, <2>2, FurthestGrows
  <2>4. Horizon * DayUnits = P + D
    BY <1>1 DEF Horizon
  <2>5. fu < p + P + 3 * D
    BY <1>1, <1>3, <1>5, <2>2, <2>3, <2>4
  <2>6. c <= d + W + 2
    <3>1. SUFFICES ASSUME c >= d + W + 3 PROVE FALSE
      BY <1>1
    <3>2. (d + W + 3) * D <= c * D
      BY <1>1, <3>1
    <3>3. (d + W + 3) * D = p + P + 3 * D
      BY <1>1, <1>5
    <3> QED
      BY <1>8, <1>11, <2>5, <3>2, <3>3
  <2>7. PICK e \in Int, k \in {WeekDays, 0 - WeekDays} : e = c + k /\ e = c - W
    BY <1>1
  <2>8. k * DayUnits = 0 - P
    <3>1. k = 0 - W
      BY <1>1, <2>7
    <3> QED
      BY <1>1, <3>1
  <2>9. PICK xe \in Int, ye \in Int : Kept(e, i) /\ xe = WallStart(e, i) /\ ye = WallEnd(e, i) /\ xe = x - P /\ ye = y - P
    <3>1. Kept(e, i) /\ WallStart(e, i) = x + (0 - P) /\ WallEnd(e, i) = y + (0 - P)
      BY <1>8, <2>7, <2>8, WeekOn
    <3> QED
      BY <1>1, <3>1
  <2>10. e \in FirstDay - 1 .. FirstDay + 2 * WeekDays /\ e >= d + 1
    BY <1>1, <2>1, <2>6, <2>7 DEF LookedAt
  <2>11. Reached(xe) < Reached(ye)
    BY <2>9, <2>10, NotEmpty
  <2>12. PICK v \in Int, w \in Int : v = Reached(xe) /\ w = Reached(ye) /\ v < w
    BY <1>4, <2>9, <2>11, ReachedBy
  <2>13. Open(v)
    <3>1. xe <= Furthest(v) /\ ~(ye <= Furthest(v)) /\ Furthest(v) \in Int
      BY <1>4, <2>9, <2>12, ReachedBy, FurthestIs
    <3>2. Holds(e, i, Furthest(v))
      BY <2>9, <3>1 DEF Holds
    <3>3. RunsAt(Furthest(v))
      BY <1>7, <2>7, <3>2 DEF RunsAt
    <3> QED
      BY <3>3, ListedCover
  <2>14. v > t
    <3>1. (d + 1) * D <= e * D
      BY <1>1, <2>10
    <3>2. e * D <= xe
      BY <1>1, <2>7, <2>9, KeptIs
    <3>3. (d + 1) * D = p + D
      BY <1>1, <1>5
    <3>4. ~(xe <= ft)
      BY <1>1, <1>5, <2>9, <3>1, <3>2, <3>3
    <3> QED
      BY <1>4, <1>5, <2>9, <2>12, <3>4, ReachedBy
  <2>15. v <= u
    BY <1>1, <1>4, <1>8, <1>10, <2>9, <2>12, ReachedGrows
  <2>16. v = u
    BY <1>3, <2>13, <2>14, <2>15
  <2>17. xe \div DayUnits = x \div DayUnits
    BY <1>1, <1>4, <1>8, <1>10, <2>9, <2>12, <2>16, ReachedTogether
  <2>18. x \div D = c
    BY <1>1, <1>11, DayIs
  <2>19. xe \div D = e
    <3>1. PICK n \in Int : n = e * D /\ n <= xe /\ xe < n + D
      <4>1. e * D \in Int
        BY <1>1
      <4> QED
        BY <1>1, <2>9, <4>1, KeptIs
    <3> QED
      BY <1>1, <3>1, DayIs
  <2> QED
    BY <1>1, <2>7, <2>17, <2>18, <2>19
<1>14. PICK s \in S : s.from = u /\ Within(s, u)
  <2>1. /\ SpanOf(c, i) \in SpanType
        /\ SpanOf(c, i).from = Reached(WallStart(c, i))
        /\ Holds(c, i, Furthest(u)) => Within(SpanOf(c, i), u)
    BY <1>8, SpanIs
  <2>2. Within(SpanOf(c, i), u)
    BY <1>5, <1>7, <2>1
  <2>3. SpanOf(c, i).from < SpanOf(c, i).to
    BY <2>1, <2>2 DEF Within, SpanType
  <2>4. c \in d - 1 .. d + WeekDays
    BY <1>1, <1>12, <1>13
  <2>5. SpanOf(c, i) \in Listed(d)
    BY <1>1, <1>7, <1>8, <2>3, <2>4, ListedAre
  <2> QED
    BY <1>2, <1>8, <1>10, <2>1, <2>2, <2>5
<1>15. PICK m \in Merged(S) : Within(m, u)
  <2>1. Covered(S, u)
    BY <1>14 DEF Covered
  <2> QED
    BY <1>2, <2>1, MergedCovers DEF Covered
<1>16. m.from = u
  <2>1. m.from \in Int /\ m.to \in Int /\ m.from <= u /\ u < m.to
    BY <1>2, <1>15, MergedIsMaximal DEF Within
  <2>2. SUFFICES ASSUME m.from <= u - 1 PROVE FALSE
    BY <2>1
  <2>3. u - 1 \in Int /\ t <= u - 1 /\ u - 1 < u
    BY <1>3
  <2>4. Covered(Merged(S), u - 1)
    BY <1>15, <2>1, <2>2 DEF Covered, Within
  <2>5. Open(u - 1)
    BY <1>1, <1>2, <2>3, <2>4, MergedCovers, ListedCover
  <2> QED
    BY <1>3, <2>3, <2>5
<1>17. u \in ToOpen(d, t)
  BY <1>2, <1>3, <1>15, <1>16 DEF ToOpen
<1>18. \A f \in ToOpen(d, t) : f \in Int /\ u <= f
  <2>1. \A f \in ToOpen(d, t) : f \in Int /\ f > t /\ Open(f)
    BY <1>1, ShutIs
  <2> QED
    BY <1>3, <2>1
<1>19. Min(ToOpen(d, t)) = u
  BY <1>17, <1>18, MinIs
<1> QED
  BY <1>1, <1>17, <1>19, ShutIs

\* A shut schedule that stays shut is not said to open within the week.
LEMMA StaysShutAsSaid ==
  ASSUME WindowsTyped, KeepsDay(zone), NEW t \in Int, ~Open(t), NoFlip(t)
  PROVE  LET change == Change(Around(DayOf(zone, t)), t)
         IN  change = Never \/ change > t + (WeekDays - 1) * DayUnits
<1>1. PICK D \in Nat \ {0}, W \in Nat \ {0}, P \in Nat, d \in Int :
        D = DayUnits /\ W = WeekDays /\ P = W * D /\ P >= D /\ d = DayOf(zone, t)
  BY Week, OnADay
<1> DEFINE T == ToOpen(d, t)
<1>2. \A f \in T : f \in Int /\ f > t /\ Open(f)
  BY <1>1, ShutIs
<1>3. Change(Around(d), t) = IF T # {} THEN Min(T) ELSE Never
  BY <1>1, ShutIs
<1> HIDE DEF T
<1>4. T # {} => Min(T) \in T
  <2>1. T \subseteq Int /\ \A f \in T : f >= t
    BY <1>2
  <2> QED
    BY <2>1, LeastAbove
<1>5. Horizon * DayUnits = P + D /\ (W - 1) * D = P - D
  BY <1>1 DEF Horizon
<1>6. \A f \in T : f > t + (W - 1) * D
  <2>1. \A f \in T : ~(f <= t + Horizon * DayUnits)
    BY <1>2 DEF NoFlip
  <2> QED
    BY <1>1, <1>2, <1>5, <2>1
<1> QED
  BY <1>1, <1>3, <1>4, <1>6

LEMMA NextChangeIsTrue ==
  ASSUME WindowsTyped
  PROVE  NextChangeFlips
<1> DEFINE open == OpenInstants
           spans(day) == Around(day)
           flips(t) == {u \in t + 1 .. t + Horizon * DayUnits : (u \in open) # (t \in open)}
           change(day, t) == Change(spans(day), t)
<1>1. SUFFICES ASSUME KeepsDay(zone), NoneLost, NEW day \in LookedAt, NEW t \in Int, DayOf(zone, t) = day,
                      t \in (day - 1) * DayUnits .. (day + 2) * DayUnits
               PROVE  /\ Active(spans(day), t) = (t \in open)
                      /\ IF flips(t) # {}
                         THEN /\ change(day, t) = Min(flips(t))
                              /\ Summary(t \in open, change(day, t)) = (IF t \in open THEN "closes" ELSE "opens")
                         ELSE change(day, t) = Never \/ change(day, t) > t + (WeekDays - 1) * DayUnits
  <2>1. \A day : (day - 1) * DayUnits .. (day + 2) * DayUnits \subseteq Int
    OBVIOUS
  <2> QED
    BY <2>1, Zenon DEF NextChangeFlips
<1>2. PICK D \in Nat \ {0}, W \in Nat \ {0}, P \in Nat, F \in Nat \ {0} :
        D = DayUnits /\ W = WeekDays /\ P = W * D /\ F = FirstDay /\ day \in F .. F + W - 1
  BY Week DEF LookedAt
<1>3. Horizon = W + 1 /\ Horizon * DayUnits = P + D
  BY <1>2 DEF Horizon
<1>4. t \in Nat
  <2>1. D <= day * D
    BY <1>2
  <2>2. day * D <= t + D
    BY <1>1, <1>2, OnADay
  <2> QED
    BY <1>2, <2>1, <2>2
<1>5. ASSUME NEW u \in Int, t <= u, u <= t + Horizon * DayUnits PROVE u \in open <=> Open(u)
  <2>1. PICK p \in Int, q \in Int, r \in Int : p = (F - 1) * D /\ q = (day - 1) * D /\ r = (day + 2) * D
    BY <1>2
  <2>2. p <= q
    BY <1>2, <2>1
  <2>3. r + P + D <= (F + W + Horizon + 2) * D
    <3>1. r + P + D = (day + W + 3) * D
      BY <1>2, <2>1
    <3>2. (day + W + 3) * D <= (F + W + Horizon + 2) * D
      BY <1>2, <1>3
    <3> QED
      BY <3>1, <3>2
  <2>4. u \in (FirstDay - 1) * DayUnits .. (FirstDay + WeekDays + Horizon + 2) * DayUnits
    <3>1. PICK h \in Int : h = (F + W + Horizon + 2) * D
      BY <1>2, <1>3
    <3>2. p <= u /\ u <= h
      BY <1>1, <1>2, <1>3, <1>5, <2>1, <2>2, <2>3, <3>1
    <3> QED
      BY <1>2, <2>1, <3>1, <3>2
  <2> QED
    BY <2>4 DEF OpenInstants
<1>6. t <= t + Horizon * DayUnits
  BY <1>2, <1>3
<1>7. t \in open <=> Open(t)
  BY <1>5, <1>6
<1>8. flips(t) = {u \in t + 1 .. t + Horizon * DayUnits : ~(Open(u) <=> Open(t))}
  <2>1. \A u \in t + 1 .. t + Horizon * DayUnits : u \in Int /\ t <= u /\ u <= t + Horizon * DayUnits
    BY <1>2, <1>3
  <2> HIDE DEF open
  <2> QED
    BY <1>5, <1>7, <2>1
<1> HIDE DEF open
<1>9. Active(spans(day), t) = (t \in open)
  <2>1. PICK lo \in Int, hi \in Int : Bounded(Listed(day), lo, hi)
    BY <1>1, <1>2, ListedBounded
  <2>2. Around(day) = Merged(Listed(day))
    BY DEF Around, Intervals, Listed
  <2>3. Covered(Around(day), t) <=> Covered(Listed(day), t)
    BY <2>1, <2>2, MergedCovers
  <2>4. Covered(Listed(day), t) => Open(t)
    BY <1>1, <1>2, ListedCover
  <2>5. Open(t) => Covered(Listed(day), t)
    <3>1. day <= DayOf(zone, t) /\ DayOf(zone, t) <= day + WeekDays
      BY <1>1, <1>2
    <3> QED
      BY <1>1, <1>2, <3>1, ListedCover
  <2>6. Active(Around(day), t) <=> Covered(Around(day), t)
    BY DEF Active, Covered
  <2>7. Active(Around(day), t) \in BOOLEAN
    BY DEF Active
  <2> QED
    BY <1>7, <2>3, <2>4, <2>5, <2>6, <2>7
<1>10. CASE flips(t) # {}
  <2>1. PICK u \in flips(t) : u = Min(flips(t)) /\ \A v \in flips(t) : u <= v
    <3> DEFINE T == flips(t)
    <3>1. T \subseteq Int /\ T # {} /\ \A v \in T : v >= t
      BY <1>8, <1>10
    <3> HIDE DEF T
    <3>2. Min(T) \in T /\ \A v \in T : Min(T) <= v
      BY <3>1, LeastAbove
    <3> QED
      BY <3>2 DEF T
  <2>2. u \in Int /\ t < u /\ u <= t + Horizon * DayUnits /\ ~(Open(u) <=> Open(t))
    BY <1>2, <1>3, <1>8, <2>1
  <2>3. ASSUME NEW v \in Int, t <= v, v < u PROVE Open(v) <=> Open(t)
    <3>1. v = t \/ v \in t + 1 .. t + Horizon * DayUnits
      BY <1>2, <1>3, <2>2, <2>3
    <3>2. v \notin flips(t)
      <4>1. v \in flips(t) => u <= v
        BY <2>1
      <4> QED
        BY <2>2, <2>3, <4>1
    <3> QED
      BY <1>8, <3>1, <3>2
  <2>4. FirstFlip(t, u)
    BY <2>2, <2>3 DEF FirstFlip
  <2>5. Change(Around(day), t) = u
    BY <1>1, <2>2, <2>4, ShutsAsSaid, OpensAsSaid
  <2>6. windows # <<>>
    <3>1. PICK v \in {t, u} : Open(v)
      BY <2>2
    <3> QED
      BY <3>1 DEF Open
  <2>7. u # Never
    BY <1>4, <2>2 DEF Never
  <2>8. Summary(t \in open, u) = (IF t \in open THEN "closes" ELSE "opens")
    BY <2>6, <2>7 DEF Summary
  <2> QED
    BY <1>9, <1>10, <2>1, <2>5, <2>8
<1>11. CASE flips(t) = {}
  <2>1. ASSUME NEW v \in Int, t <= v, v <= t + Horizon * DayUnits PROVE Open(v) <=> Open(t)
    <3>1. v = t \/ v \in t + 1 .. t + Horizon * DayUnits
      BY <1>2, <1>3, <2>1
    <3> QED
      BY <1>8, <1>11, <3>1
  <2>2. NoFlip(t)
    BY <2>1 DEF NoFlip
  <2>3. change(day, t) = Never \/ change(day, t) > t + (WeekDays - 1) * DayUnits
    BY <1>1, <2>2, StaysOpenAsSaid, StaysShutAsSaid
  <2> QED
    BY <1>9, <1>11, <2>3
<1> QED
  BY <1>10, <1>11

(* -------------------------------- the grid ------------------------------- *)
LEMMA WholeWeeks ==
  ASSUME NEW a \in Int, NEW q \in Int, NEW d \in Nat \ {0}
  PROVE  (a + q * d) % d = a % d
<1>1. PICK k \in Int, p \in Int, n \in Int, e \in Int : k = a \div d /\ p = q * d /\ n = a + p /\ e = k + q
  BY Division
<1>2. k * d <= a /\ a < k * d + d
  BY <1>1, Division
<1>3. e * d = k * d + p
  BY <1>1
<1>4. a % d = a - k * d
  BY <1>2, Remainder
<1>5. n % d = n - e * d
  <2>1. e * d <= n
    BY <1>1, <1>2, <1>3
  <2>2. n < e * d + d
    BY <1>1, <1>2, <1>3
  <2> QED
    BY <2>1, <2>2, Remainder
<1>6. n % d = a % d
  <2>1. PICK x \in Int, y \in Int : x = k * d /\ y = e * d
    OBVIOUS
  <2>2. n = a + p
    BY <1>1
  <2>3. n % d = n - y /\ a % d = a - x /\ y = x + p
    BY <1>3, <1>4, <1>5, <2>1
  <2> QED
    BY <2>2, <2>3
<1> QED
  BY <1>1, <1>6

LEMMA DayBefore ==
  ASSUME NEW d \in Int
  PROVE  (Weekday(d) - 1) % WeekDays = Weekday(d - 1)
<1>1. PICK W \in Nat \ {0} : W = WeekDays
  BY Week
<1>2. PICK q \in Int, r \in Int : r = d % W /\ d = q * W + r
  <2>1. d \div W \in Int /\ d % W \in Int /\ d = (d \div W) * W + (d % W)
    BY Division
  <2> QED
    BY <2>1
<1>3. PICK a \in Int : a = r - 1
  OBVIOUS
<1>4. (a + q * W) % W = a % W
  BY <1>3, WholeWeeks
<1>5. a + q * W = d - 1
  BY <1>2, <1>3
<1>6. (d - 1) % W = (r - 1) % W
  BY <1>3, <1>4, <1>5
<1> QED
  BY <1>1, <1>2, <1>6 DEF Weekday

\* Which windows paint a unit of a row, by the day they start on.
LEMMA PaintedIs ==
  ASSUME WindowsTyped, NEW m \in Int
  PROVE  /\ m % DayUnits \in Painted(Weekday(m \div DayUnits)) <=> RunsAt(m)
         /\ m % DayUnits \in 0 .. DayUnits - 1
<1>1. PICK D \in Nat \ {0}, W \in Nat \ {0}, d \in Int, u \in Int, p \in Int :
        /\ D = DayUnits /\ W = WeekDays /\ d = m \div D /\ u = m % D /\ p = d * D
        /\ u \in 0 .. D - 1 /\ m = p + u
  <2>1. PICK D \in Nat \ {0} : D = DayUnits
    BY Week
  <2>2. PICK d \in Int : d = m \div D
    BY Division
  <2>3. m % D \in 0 .. D - 1 /\ m = d * D + (m % D) /\ d * D \in Int
    BY <2>2, Division
  <2>4. PICK u \in Int, p \in Int, W \in Nat \ {0} : u = m % D /\ p = d * D /\ W = WeekDays
    BY <2>3, Week
  <2> QED
    BY <2>1, <2>2, <2>3, <2>4
<1> DEFINE Paints(i, s) ==
             LET w == windows[i]
             IN  /\ Valid(w)
                 /\ \/ Weekday(d) \in w.days /\ s = [from |-> w.start, to |-> IF CrossesMidnight(w) THEN DayUnits ELSE w.end]
                    \/ CrossesMidnight(w) /\ w.end > 0 /\ Weekday(d - 1) \in w.days /\ s = [from |-> 0, to |-> w.end]
<1>2. \A s : s \in Segments(Weekday(d)) <=> \E i \in DOMAIN windows : Paints(i, s)
  <2>1. (Weekday(d) - 1) % WeekDays = Weekday(d - 1)
    BY DayBefore
  <2> QED
    BY <2>1 DEF Segments
<1>3. \A e : RunsAt(m) => \E i \in DOMAIN windows : Holds(d, i, m) \/ Holds(d - 1, i, m)
  BY <1>1, HoldsOn DEF RunsAt
<1>4. ASSUME NEW i \in DOMAIN windows, Kept(d, i)
      PROVE  Holds(d, i, m) <=> windows[i].start <= u /\ u < (IF CrossesMidnight(windows[i]) THEN D ELSE windows[i].end)
  <2>1. PICK s \in Int, e \in Int : s = windows[i].start /\ e = windows[i].end /\ s \in 0 .. D - 1 /\ e \in 0 .. D - 1
    BY <1>1, <1>4, KeptIs
  <2>2. (d + 1) * D = p + D
    BY <1>1
  <2>3. /\ WallStart(d, i) = p + s
        /\ WallEnd(d, i) = IF CrossesMidnight(windows[i]) THEN p + D + e ELSE p + e
    BY <1>1, <2>1, <2>2 DEF WallStart, WallEnd, WallTime
  <2> QED
    BY <1>1, <1>4, <2>1, <2>3 DEF Holds
<1>5. ASSUME NEW i \in DOMAIN windows, Kept(d - 1, i)
      PROVE  Holds(d - 1, i, m) <=> CrossesMidnight(windows[i]) /\ u < windows[i].end
  <2>1. PICK c \in Int, s \in Int, e \in Int :
          c = d - 1 /\ s = windows[i].start /\ e = windows[i].end /\ s \in 0 .. D - 1 /\ e \in 0 .. D - 1
    <3>1. PICK c \in Int : c = d - 1
      OBVIOUS
    <3>2. windows[i].start \in 0 .. DayUnits - 1 /\ windows[i].end \in 0 .. DayUnits - 1
      <4>1. Kept(c, i)
        BY <1>5, <3>1, Zenon
      <4> QED
        BY <4>1, KeptIs
    <3>3. PICK s \in Int, e \in Int : s = windows[i].start /\ e = windows[i].end
      <4>1. windows[i].start \in Int /\ windows[i].end \in Int
        BY <3>2, ZonesAssumption
      <4> QED
        BY <4>1
    <3>4. s \in 0 .. D - 1 /\ e \in 0 .. D - 1
      BY <1>1, <3>2, <3>3
    <3> QED
      BY <3>1, <3>3, <3>4
  <2>2. c * D = p - D /\ c + 1 = d
    <3>1. d = c + 1
      BY <2>1
    <3>2. (c + 1) * D = c * D + D
      OBVIOUS
    <3>3. p = (c + 1) * D
      BY <1>1, <3>1
    <3> QED
      BY <3>1, <3>2, <3>3
  <2>3. /\ WallStart(c, i) = p - D + s
        /\ WallEnd(c, i) = IF CrossesMidnight(windows[i]) THEN p + e ELSE p - D + e
    BY <1>1, <2>1, <2>2 DEF WallStart, WallEnd, WallTime
  <2>4. Holds(c, i, m) <=> CrossesMidnight(windows[i]) /\ u < windows[i].end
    BY <1>1, <1>5, <2>1, <2>3 DEF Holds
  <2> QED
    BY <2>1, <2>4
<1>6. ASSUME RunsAt(m) PROVE \E s \in Segments(Weekday(d)) : s.from <= u /\ u < s.to
  <2>1. PICK i \in DOMAIN windows : Holds(d, i, m) \/ Holds(d - 1, i, m)
    BY <1>3, <1>6
  <2>2. CASE Holds(d, i, m)
    <3>1. Kept(d, i)
      BY <2>2 DEF Holds
    <3> DEFINE s == [from |-> windows[i].start, to |-> IF CrossesMidnight(windows[i]) THEN DayUnits ELSE windows[i].end]
    <3>2. Paints(i, s)
      BY <3>1 DEF Kept
    <3>3. s \in Segments(Weekday(d))
      BY <1>2, <3>2
    <3> QED
      BY <1>1, <1>4, <2>2, <3>1, <3>3
  <2>3. CASE Holds(d - 1, i, m)
    <3>1. Kept(d - 1, i)
      BY <2>3 DEF Holds
    <3>2. CrossesMidnight(windows[i]) /\ u < windows[i].end
      BY <1>5, <2>3, <3>1
    <3>3. windows[i].end \in Int
      <4>1. d - 1 \in Int
        OBVIOUS
      <4> QED
        BY <1>1, <3>1, <4>1, KeptIs
    <3> DEFINE s == [from |-> 0, to |-> windows[i].end]
    <3>4. Paints(i, s)
      BY <1>1, <3>1, <3>2, <3>3 DEF Kept
    <3>5. s \in Segments(Weekday(d))
      BY <1>2, <3>4
    <3> QED
      BY <1>1, <3>2, <3>5
  <2> QED
    BY <2>1, <2>2, <2>3
<1>7. ASSUME NEW s \in Segments(Weekday(d)), s.from <= u, u < s.to PROVE RunsAt(m)
  <2>1. PICK i \in DOMAIN windows : Paints(i, s)
    BY <1>2
  <2>2. CASE Weekday(d) \in windows[i].days /\ s = [from |-> windows[i].start, to |-> IF CrossesMidnight(windows[i]) THEN DayUnits ELSE windows[i].end]
    <3>1. Kept(d, i)
      BY <2>1, <2>2 DEF Kept
    <3>2. Holds(d, i, m)
      BY <1>1, <1>4, <1>7, <2>2, <3>1
    <3> QED
      BY <3>2 DEF RunsAt
  <2>3. CASE CrossesMidnight(windows[i]) /\ Weekday(d - 1) \in windows[i].days /\ s = [from |-> 0, to |-> windows[i].end]
    <3>1. Kept(d - 1, i)
      BY <2>1, <2>3 DEF Kept
    <3>2. Holds(d - 1, i, m)
      BY <1>5, <1>7, <2>3, <3>1
    <3>3. d - 1 \in Int
      OBVIOUS
    <3> QED
      BY <3>2, <3>3 DEF RunsAt
  <2> QED
    BY <2>1, <2>2, <2>3
<1>8. u \in Painted(Weekday(d)) <=> \E s \in Segments(Weekday(d)) : s.from <= u /\ u < s.to
  BY <1>1 DEF Painted
<1>9. u \in Painted(Weekday(d)) <=> RunsAt(m)
  BY <1>6, <1>7, <1>8
<1> QED
  BY <1>1, <1>9

\* In a week the clock does not move it reads one offset, and nothing later before.
LEMMA QuietOffset ==
  ASSUME WindowsTyped, zone.jump \notin QuietTime
  PROVE  \E off \in Int :
           /\ -DayUnits <= off /\ off <= DayUnits
           /\ \A t \in QuietTime : Wall(zone, t) = t + off
           /\ \A t \in QuietWeek : Furthest(t) = Wall(zone, t)
<1>1. PICK J \in Int, B \in Int, A \in Int, D \in Nat \ {0} :
        J = zone.jump /\ B = zone.before /\ A = zone.after /\ D = DayUnits /\ B \in -D .. D /\ A \in -D .. D
  BY ZoneFields DEF WindowsTyped
<1>2. PICK a \in Int, b \in Int : a = (FirstDay + 2 * WeekDays - 1) * D /\ b = (FirstDay + 3 * WeekDays + 1) * D /\ QuietTime = a .. b
  <2>1. QuietTime = (FirstDay + 2 * WeekDays - 1) * DayUnits + 0 .. (FirstDay + 3 * WeekDays + 1) * DayUnits + 0
    BY DEF QuietTime, WallTime
  <2>2. PICK a \in Int, b \in Int : a = (FirstDay + 2 * WeekDays - 1) * DayUnits /\ b = (FirstDay + 3 * WeekDays + 1) * DayUnits
    BY Week
  <2>3. QuietTime = a .. b
    BY <2>1, <2>2
  <2> QED
    BY <1>1, <2>2, <2>3
<1>3. \A t \in Int : Wall(zone, t) = IF t < J THEN t + B ELSE t + A
  BY <1>1 DEF Wall, OffsetAt
<1>4. CASE J > b
  <2>1. \A t \in QuietTime : t < J /\ t \in Int
    BY <1>2, <1>4
  <2>2. \A t \in QuietWeek : t \in QuietTime
    BY DEF QuietWeek
  <2>3. \A t \in QuietWeek : Furthest(t) = Wall(zone, t)
    BY <1>1, <2>1, <2>2 DEF Furthest
  <2>4. \A t \in QuietTime : Wall(zone, t) = t + B
    BY <1>3, <2>1
  <2> QED
    BY <1>1, <2>3, <2>4
<1>5. CASE J < a
  <2>1. \A t \in QuietTime : t >= J /\ ~(t < J) /\ t \in Int
    BY <1>2, <1>5
  <2>2. \A t \in QuietTime : Wall(zone, t) = t + A
    BY <1>3, <2>1
  <2>3. ASSUME NEW t \in QuietWeek PROVE Furthest(t) = Wall(zone, t)
    <3>1. t \in QuietTime /\ DayOf(zone, t) \in QuietDays
      BY DEF QuietWeek
    <3>2. t \in Int /\ t >= J /\ Wall(zone, t) = t + A
      BY <2>1, <2>2, <3>1
    <3>3. PICK w \in Int, d \in Int : w = t + A /\ d = DayOf(zone, t) /\ d = w \div D
      <4>1. PICK w \in Int : w = t + A
        BY <3>2
      <4>2. w \div D \in Int
        BY Division
      <4> QED
        BY <1>1, <3>2, <4>1, <4>2 DEF DayOf
    <3>4. d * D <= w
      BY <3>3, Division
    <3>5. d >= FirstDay + 2 * WeekDays
      BY <3>1, <3>3, Week DEF QuietDays
    <3>6. a + D <= d * D
      <4>1. PICK f \in Int, g \in Int : f = FirstDay + 2 * WeekDays /\ g = FirstDay + 2 * WeekDays - 1
        BY Week
      <4>2. f * D <= d * D
        BY <3>5, <4>1
      <4>3. f * D = g * D + D
        <5>1. f = g + 1
          BY <4>1, Week
        <5> QED
          BY <5>1
      <4>4. a = g * D
        BY <1>2, <4>1
      <4> QED
        BY <4>2, <4>3, <4>4
    <3>7. ~(w < J + B - 1)
      <4>1. PICK p \in Int : p = d * D
        OBVIOUS
      <4>2. p <= w /\ a + D <= p
        BY <3>4, <3>6, <4>1
      <4>3. B <= D /\ J < a
        BY <1>1, <1>5
      <4> QED
        BY <1>1, <1>2, <4>2, <4>3
    <3> QED
      BY <1>1, <3>2, <3>3, <3>7 DEF Furthest
  <2> QED
    BY <1>1, <2>2, <2>3
<1> QED
  BY <1>1, <1>2, <1>4, <1>5

LEMMA OpenWhenPainted ==
  ASSUME WindowsTyped, zone.jump \notin QuietTime, NEW t \in QuietWeek
  PROVE  /\ Open(t) <=> UnitOf(zone, t) \in Painted(Weekday(DayOf(zone, t)))
         /\ NowMarked(t) <=> Open(t)
         /\ t \in QuietTime /\ t \in Int /\ DayOf(zone, t) \in QuietDays /\ UnitOf(zone, t) \in 0 .. DayUnits - 1
         /\ Wall(zone, t) = DayOf(zone, t) * DayUnits + UnitOf(zone, t)
<1>1. t \in QuietTime /\ DayOf(zone, t) \in QuietDays /\ t \in Int
  BY DEF QuietWeek, QuietTime
<1>2. Furthest(t) = Wall(zone, t)
  BY QuietOffset
<1>3. PICK w \in Int : w = Wall(zone, t) /\ w = Furthest(t)
  BY <1>1, <1>2, FurthestIs DEF WindowsTyped
<1>4. Open(t) <=> RunsAt(w)
  BY <1>1, <1>3, OpenIs DEF DayOf
<1>5. w % DayUnits \in Painted(Weekday(w \div DayUnits)) <=> RunsAt(w)
  BY PaintedIs
<1>6. w % DayUnits \in 0 .. DayUnits - 1
  BY PaintedIs
<1>7. w = (w \div DayUnits) * DayUnits + (w % DayUnits)
  BY Week, Division
<1>8. NowMarked(t) <=> UnitOf(zone, t) \in Painted(Weekday(DayOf(zone, t)))
  BY <1>3, <1>6 DEF NowMarked, Painted, UnitOf
<1> QED
  BY <1>1, <1>3, <1>4, <1>5, <1>6, <1>7, <1>8 DEF UnitOf, DayOf

LEMMA GridIsTrue ==
  ASSUME WindowsTyped
  PROVE  GridIsTheSchedule
<1> DEFINE open == {t \in QuietWeek : Open(t)}
           marks == {mark \in Days \X (0 .. DayUnits - 1) : mark[2] \in Painted(mark[1])}
<1>1. SUFFICES ASSUME zone.jump \notin QuietTime
               PROVE  /\ \A t \in QuietWeek :
                           /\ (t \in open) = (UnitOf(zone, t) \in Painted(Weekday(DayOf(zone, t))))
                           /\ NowMarked(t) = (t \in open)
                      /\ WeeklyUnits = Cardinality(open)
  BY DEF GridIsTheSchedule
<1>2. ASSUME NEW t \in QuietWeek
      PROVE  /\ (t \in open) = (UnitOf(zone, t) \in Painted(Weekday(DayOf(zone, t))))
             /\ NowMarked(t) = (t \in open)
  <2>1. t \in open <=> Open(t)
    OBVIOUS
  <2>2. NowMarked(t) \in BOOLEAN
    BY DEF NowMarked
  <2> HIDE DEF open
  <2> QED
    BY <1>1, <2>1, <2>2, OpenWhenPainted
<1>3. PICK D \in Nat \ {0}, W \in Nat \ {0}, a \in Int : D = DayUnits /\ W = WeekDays /\ a = FirstDay + 2 * WeekDays
  BY Week
<1>4. QuietDays = a .. a + W - 1
  BY <1>3, Week DEF QuietDays
<1>5. PICK off \in Int :
        /\ -DayUnits <= off /\ off <= DayUnits
        /\ \A t \in QuietTime : Wall(zone, t) = t + off
  BY <1>1, QuietOffset
<1> DEFINE f == [t \in open |-> <<Weekday(DayOf(zone, t)), UnitOf(zone, t)>>]
<1>6. ASSUME NEW t \in open PROVE f[t] \in marks
  <2>1. t \in QuietWeek /\ Open(t)
    OBVIOUS
  <2>2. UnitOf(zone, t) \in Painted(Weekday(DayOf(zone, t))) /\ UnitOf(zone, t) \in 0 .. DayUnits - 1 /\ DayOf(zone, t) \in QuietDays
    BY <1>1, <2>1, OpenWhenPainted
  <2>3. DayOf(zone, t) \in Int
    BY <1>3, <1>4, <2>2
  <2>4. Weekday(DayOf(zone, t)) \in Days
    BY <1>3, <2>3, Division DEF Weekday, Days
  <2> QED
    BY <2>2, <2>4
<1>7. ASSUME NEW t \in open, NEW u \in open, f[t] = f[u] PROVE t = u
  <2>1. t \in QuietWeek /\ u \in QuietWeek
    OBVIOUS
  <2>2. Weekday(DayOf(zone, t)) = Weekday(DayOf(zone, u)) /\ UnitOf(zone, t) = UnitOf(zone, u)
    BY <1>7
  <2>3. PICK x \in Int, y \in Int : x = DayOf(zone, t) /\ y = DayOf(zone, u) /\ x \in a .. a + W - 1 /\ y \in a .. a + W - 1
    <3>1. DayOf(zone, t) \in a .. a + W - 1 /\ DayOf(zone, u) \in a .. a + W - 1
      BY <1>1, <1>4, <2>1, OpenWhenPainted
    <3> QED
      BY <3>1
  <2>4. x = y
    <3>1. PICK k \in Int, n \in Int, r \in Int : x = k * W + r /\ y = n * W + r
      <4>1. x % W = y % W
        BY <1>3, <2>2, <2>3 DEF Weekday
      <4>2. x = (x \div W) * W + (x % W) /\ y = (y \div W) * W + (y % W) /\ x \div W \in Int /\ y \div W \in Int /\ x % W \in Int
        BY Division
      <4> QED
        BY <4>1, <4>2
    <3>2. CASE k = n
      BY <3>1, <3>2
    <3>3. CASE k < n
      <4>1. (k + 1) * W <= n * W
        BY <3>3
      <4>2. PICK p \in Int, q \in Int : p = k * W /\ q = n * W
        OBVIOUS
      <4>3. p + W <= q
        BY <4>1, <4>2
      <4> QED
        BY <2>3, <3>1, <4>2, <4>3
    <3>4. CASE n < k
      <4>1. (n + 1) * W <= k * W
        BY <3>4
      <4>2. PICK p \in Int, q \in Int : p = k * W /\ q = n * W
        OBVIOUS
      <4>3. q + W <= p
        BY <4>1, <4>2
      <4> QED
        BY <2>3, <3>1, <4>2, <4>3
    <3> QED
      BY <3>2, <3>3, <3>4
  <2>5. t \in Int /\ u \in Int /\ t + off = u + off
    <3>1. /\ t \in Int /\ t \in QuietTime /\ Wall(zone, t) = DayOf(zone, t) * DayUnits + UnitOf(zone, t)
          /\ u \in Int /\ u \in QuietTime /\ Wall(zone, u) = DayOf(zone, u) * DayUnits + UnitOf(zone, u)
      BY <1>1, <2>1, OpenWhenPainted
    <3>2. Wall(zone, t) = Wall(zone, u)
      BY <2>2, <2>3, <2>4, <3>1
    <3> QED
      BY <1>5, <3>1, <3>2
  <2> QED
    BY <2>5
<1>8. ASSUME NEW mark \in marks PROVE \E t \in open : f[t] = mark
  <2>1. PICK r \in Int, u \in Int : mark = <<r, u>> /\ r \in 0 .. W - 1 /\ u \in 0 .. D - 1 /\ u \in Painted(r)
    BY <1>3 DEF Days
  <2>2. PICK d \in Int : d \in a .. a + W - 1 /\ d % W = r
    <3>1. PICK k \in Int, s \in Int : r - a = k * W + s /\ s \in 0 .. W - 1
      <4>1. PICK m \in Int : m = r - a
        OBVIOUS
      <4>2. m = (m \div W) * W + (m % W) /\ m \div W \in Int /\ m % W \in 0 .. W - 1
        BY Division
      <4>3. PICK k \in Int, s \in Int : k = m \div W /\ s = m % W
        BY <4>2
      <4> QED
        BY <4>1, <4>2, <4>3
    <3>2. PICK d \in Int, n \in Int : d = a + s /\ n = 0 - k
      OBVIOUS
    <3>3. n * W = 0 - k * W
      BY <3>2
    <3>4. n * W <= d /\ d < n * W + W /\ d - n * W = r
      BY <2>1, <3>1, <3>2, <3>3
    <3>5. d % W = r
      BY <3>4, Remainder
    <3>6. d \in a .. a + W - 1
      BY <3>1, <3>2
    <3> QED
      BY <3>5, <3>6
  <2>3. PICK p \in Int, t \in Int : p = d * D /\ t = p + u - off
    BY <1>3
  <2>4. t \in QuietTime
    <3>1. a * D <= p /\ p <= (a + W - 1) * D
      BY <2>2, <2>3
    <3>2. PICK q \in Int, h \in Int : q = a * D /\ h = (a + W - 1) * D
      OBVIOUS
    <3>3. (a - 1) * D = q - D /\ (a + W + 1) * D = h + 2 * D
      BY <3>2
    <3>4. q - D <= t /\ t <= h + 2 * D
      BY <1>3, <1>5, <2>1, <2>3, <3>1, <3>2
    <3>5. QuietTime = (a - 1) * D + 0 .. (a + W + 1) * D + 0
      <4>1. FirstDay + 2 * WeekDays - 1 = a - 1 /\ FirstDay + 3 * WeekDays + 1 = a + W + 1
        BY <1>3, Week
      <4> QED
        BY <1>3, <4>1 DEF QuietTime, WallTime
    <3> QED
      BY <3>2, <3>3, <3>4, <3>5
  <2>5. Wall(zone, t) = p + u
    BY <1>5, <2>3, <2>4
  <2>6. DayOf(zone, t) = d /\ UnitOf(zone, t) = u
    <3>1. PICK w \in Int : w = p + u
      OBVIOUS
    <3>2. d * D <= w /\ w < d * D + D /\ w - d * D = u
      BY <2>1, <2>3, <3>1
    <3>3. w \div D = d /\ w % D = w - d * D
      BY <3>2, DayIs, Remainder
    <3> QED
      BY <1>3, <2>5, <3>1, <3>2, <3>3 DEF DayOf, UnitOf
  <2>7. t \in QuietWeek
    BY <1>4, <2>2, <2>4, <2>6 DEF QuietWeek
  <2>8. Weekday(d) = r
    BY <1>3, <2>2 DEF Weekday
  <2>9. Open(t)
    BY <1>1, <2>1, <2>6, <2>7, <2>8, OpenWhenPainted
  <2> QED
    BY <2>1, <2>6, <2>7, <2>8, <2>9
<1>9. IsFiniteSet(open)
  <2>1. WallTime(FirstDay + 2 * WeekDays - 1, 0) \in Int /\ WallTime(FirstDay + 3 * WeekDays + 1, 0) \in Int
    BY Week DEF WallTime
  <2>2. IsFiniteSet(QuietTime)
    BY <2>1, FS_Interval DEF QuietTime
  <2>3. open \in SUBSET QuietTime
    BY DEF QuietWeek
  <2> QED
    BY <2>2, <2>3, FS_Subset
<1> HIDE DEF open, marks
<1>10. f \in Bijection(open, marks)
  <2>1. f \in [open -> marks]
    <3>1. \A t \in open : <<Weekday(DayOf(zone, t)), UnitOf(zone, t)>> \in marks
      BY <1>6
    <3> QED
      BY <3>1
  <2> HIDE DEF f
  <2>2. f \in Injection(open, marks)
    BY <1>7, <2>1 DEF Injection, IsInjective
  <2>3. f \in Surjection(open, marks)
    BY <1>8, <2>1 DEF Surjection
  <2> QED
    BY <2>2, <2>3 DEF Bijection
<1>11. Cardinality(marks) = Cardinality(open)
  BY <1>9, <1>10, FS_Bijection DEF ExistsBijection
<1>12. WeeklyUnits = Cardinality(marks)
  BY DEF WeeklyUnits, marks
<1> QED
  BY <1>2, <1>11, <1>12

(* ------------------------------- the editor ------------------------------ *)
LEMMA InitWindows ==
  ASSUME WindowsInit
  PROVE  WindowsTyped
<1>1. <<>> \in Seq(WindowType)
  OBVIOUS
<1> QED
  BY <1>1 DEF WindowsInit, WindowsTyped

LEMMA PresetTyped ==
  /\ NineToFive \in WindowType
  /\ \A p \in Presets : p \in Seq(WindowType)
<1>1. PICK D \in Nat \ {0}, W \in Nat \ {0}, n \in Int : D = DayUnits /\ W = WeekDays /\ n = Snap /\ n \in 1 .. D - 1
  BY Week, WindowsAssumption
<1>2. WorkDays \subseteq Days /\ Days \ WorkDays \subseteq Days
  BY <1>1 DEF WorkDays, Days
<1>3. Snap \in TimeType /\ DayUnits - Snap \in TimeType /\ 0 \in TimeType
  BY <1>1 DEF TimeType
<1>4. NineToFive \in WindowType
  BY <1>2, <1>3 DEF NineToFive, WindowType
<1>5. /\ [days |-> Days, start |-> DayUnits - Snap, end |-> Snap] \in WindowType
      /\ [days |-> Days \ WorkDays, start |-> 0, end |-> 0] \in WindowType
  BY <1>2, <1>3 DEF WindowType
<1>6. ASSUME NEW w \in WindowType PROVE <<w>> \in Seq(WindowType)
  OBVIOUS
<1> QED
  BY <1>4, <1>5, <1>6 DEF Presets

LEMMA WindowsStep ==
  ASSUME WindowsTyped, [WindowsNext]_windowVars
  PROVE  WindowsTyped'
<1> USE DEF WindowsTyped
<1>1. PICK D \in Nat \ {0} : D = DayUnits
  BY Week
<1>2. GridMinutes \subseteq 0 .. DayUnits
  BY DEF GridMinutes
<1>3. ASSUME NEW row \in Days, NEW m \in GridMinutes, PointerDown(row, m) PROVE WindowsTyped'
  BY <1>2, <1>3 DEF PointerDown
<1>4. ASSUME NEW m \in GridMinutes, PointerMove(m) PROVE WindowsTyped'
  BY <1>2, <1>4 DEF PointerMove
<1>5. CASE FinishDrag
  <2>1. drag \in [row : Days, from : 0 .. DayUnits, to : 0 .. DayUnits]
    BY <1>5 DEF FinishDrag
  <2>2. PICK a \in 0 .. D, b \in 0 .. D : a = drag.from /\ b = drag.to
    BY <1>1, <2>1
  <2>3. PICK lo \in Int, hi \in Int : lo = Min({a, b}) /\ hi = Max({a, b}) /\ lo \in {a, b} /\ hi \in {a, b}
    <3>1. {a, b} \subseteq Int /\ {a, b} # {} /\ \A n \in {a, b} : n >= 0 /\ n <= D
      BY <1>1, <2>2
    <3>2. Min({a, b}) \in {a, b}
      BY <3>1, LeastAbove
    <3>3. Max({a, b}) \in {a, b}
      <4>1. D \in Int
        OBVIOUS
      <4> QED
        BY <3>1, <4>1, GreatestBelow
    <3> QED
      BY <3>1, <3>2, <3>3
  <2>4. drag' = NoDrag /\ zone' = zone
    BY <1>5 DEF FinishDrag
  <2> DEFINE w == [days |-> {drag.row}, start |-> lo, end |-> IF hi = DayUnits THEN 0 ELSE hi]
  <2>5. windows' = IF hi - lo >= Snap THEN Append(windows, w) ELSE windows
    BY <1>5, <2>2, <2>3 DEF FinishDrag
  <2>6. CASE hi - lo >= Snap
    <3>1. lo \in 0 .. D - 1 /\ (IF hi = D THEN 0 ELSE hi) \in 0 .. D - 1
      <4>1. lo \in 0 .. D /\ hi \in 0 .. D
        BY <2>2, <2>3
      <4>2. PICK n \in Int : n = Snap /\ n >= 1
        BY WindowsAssumption
      <4>3. hi - lo >= 1
        BY <2>6, <4>1, <4>2
      <4> QED
        BY <4>1, <4>3
    <3>2. w \in WindowType
      BY <1>1, <2>1, <3>1 DEF WindowType, TimeType
    <3> HIDE DEF w
    <3>3. Append(windows, w) \in Seq(WindowType)
      BY <3>2
    <3> QED
      BY <2>4, <2>5, <2>6, <3>3
  <2> QED
    BY <2>4, <2>5, <2>6
<1>6. CASE LeaveGrid
  BY <1>6 DEF LeaveGrid
<1>7. CASE AddWindow
  BY <1>7, PresetTyped DEF AddWindow
<1>8. CASE Preset
  BY <1>8, PresetTyped DEF Preset
<1>9. ASSUME NEW i \in DOMAIN windows, NEW w \in WindowType, Update(i, w) PROVE WindowsTyped'
  <2>1. [windows EXCEPT ![i] = w] \in Seq(WindowType)
    OBVIOUS
  <2> QED
    BY <1>9, <2>1 DEF Update
<1>10. ASSUME NEW i \in DOMAIN windows PROVE windows[i] \in WindowType
  OBVIOUS
<1>11. ASSUME NEW i \in DOMAIN windows, NEW day \in Days, ToggleDay(i, day) PROVE WindowsTyped'
  <2>1. [windows[i] EXCEPT !.days = IF day \in windows[i].days THEN windows[i].days \ {day} ELSE windows[i].days \cup {day}] \in WindowType
    BY <1>10 DEF WindowType
  <2> QED
    BY <1>9, <1>11, <2>1 DEF ToggleDay
<1>12. ASSUME NEW i \in DOMAIN windows, NEW time \in InputTimes \cup {NoTime} PROVE
         /\ SetStart(i, time) => WindowsTyped'
         /\ SetEnd(i, time) => WindowsTyped'
  <2>1. time \in TimeType
    BY <1>12, WindowsAssumption DEF TimeType
  <2>2. [windows[i] EXCEPT !.start = time] \in WindowType /\ [windows[i] EXCEPT !.end = time] \in WindowType
    BY <1>10, <2>1 DEF WindowType
  <2> QED
    BY <1>9, <2>2 DEF SetStart, SetEnd
<1>13. ASSUME NEW i \in DOMAIN windows, RemoveRow(i) PROVE WindowsTyped'
  <2>1. i \in 1 .. Len(windows)
    OBVIOUS
  <2>2. SubSeq(windows, 1, i - 1) \in Seq(WindowType)
    <3>1. \A j \in 1 .. i - 1 : windows[j] \in WindowType
      BY <2>1, ElementOfSeq
    <3> QED
      BY <2>1, <3>1, SubSeqProperties
  <2>3. SubSeq(windows, i + 1, Len(windows)) \in Seq(WindowType)
    <3>1. \A j \in i + 1 .. Len(windows) : windows[j] \in WindowType
      BY <2>1, ElementOfSeq
    <3> QED
      BY <2>1, <3>1, SubSeqProperties
  <2>4. RemoveAt(windows, i) \in Seq(WindowType)
    <3>1. PICK before \in Seq(WindowType), behind \in Seq(WindowType) :
            before = SubSeq(windows, 1, i - 1) /\ behind = SubSeq(windows, i + 1, Len(windows))
      BY <2>2, <2>3
    <3>2. before \o behind \in Seq(WindowType)
      BY ConcatProperties
    <3> QED
      BY <3>1, <3>2 DEF RemoveAt
  <2> QED
    BY <1>13, <2>4 DEF RemoveRow
<1>14. CASE UNCHANGED windowVars
  BY <1>14 DEF windowVars
<1> HIDE DEF WindowsTyped
<1> QED
  BY <1>3, <1>4, <1>5, <1>6, <1>7, <1>8, <1>11, <1>12, <1>13, <1>14 DEF WindowsNext

(* For any windows drawn or typed, in every zone whose change keeps to a day:    *)
(* the editor says the schedule closes or opens at the very instant it does, and *)
(* the grid, its hours and its now-mark are the schedule's (serviceWindows.ts,   *)
(* nextChange, weekSegments, weeklyHours).                                       *)
THEOREM ScheduleIsShown == WindowsSpec => []ShownIsTheSchedule
<1>1. WindowsSpec => []WindowsTyped
  BY InitWindows, WindowsStep, PTL DEF WindowsSpec
<1>2. WindowsTyped => ShownIsTheSchedule
  BY NextChangeIsTrue, GridIsTrue DEF ShownIsTheSchedule
<1> QED
  BY <1>1, <1>2, PTL
=============================================================================
