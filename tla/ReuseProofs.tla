---------------------------- MODULE ReuseProofs ----------------------------
(***************************************************************************)
(* Proofs about what a resume of RunGraph reuses: for every acyclic task   *)
(* graph and any number of resumes, a run that succeeds has, for every     *)
(* task, a success no older than any of its upstreams', save where a lost  *)
(* worker never got to it; and about how the run page draws such a run     *)
(* (RunShape), for any retries, gates, cancels, crashes and resumes.       *)
(***************************************************************************)
EXTENDS RunShape, RunGraphProofs, NaturalsInduction, WellFoundedInduction

SuccessIn(t, segment) == \E i \in Successes(t) : rows[t][i].seg = segment
RowIn(t, segment)     == \E i \in DOMAIN rows[t] : rows[t][i].seg = segment
Carries(t)            == LastIn(t, DOMAIN rows[t], {"success"})

\* No success of d is later than t's, unless a worker was lost since t's.
Current(d, t) == NoneLater(d, t) \/ CutSince(t)

\* A thread begins with the first attempt and has no more than the task has.
Tries(t) ==
  /\ job[t].attempt <= Attempts[t]
  /\ job[t].step \in {"none", "queued"} => job[t].attempt = 1

\* Rows are of segments the run had, and of attempts the task has.
Bounded ==
  \A t \in Task :
    /\ Tries(t)
    /\ \A i \in DOMAIN rows[t] :
         rows[t][i].seg <= run.seg /\ rows[t][i].attempt <= Attempts[t]

\* Between two entries: what the next one would reuse is current.
ReuseIsCurrent == \A t \in Satisfied : \A d \in Deps[t] : Current(d, t)

Unsubmitted == ex.left \cup ex.ready \cup ex.pending

\* An executor's books: every task is in one of its places.
Places ==
  /\ Task \subseteq ex.won \cup ex.lost \cup Unsubmitted \cup Running
  /\ ex.won \cap ex.lost = {}
  /\ (ex.won \cup ex.lost) \cap (Unsubmitted \cup Running) = {}
  /\ Unsubmitted \cap Running = {}
  /\ ex.left \cap (ex.ready \cup ex.pending) = {}
  /\ ex.ready \cap ex.pending = {}
  /\ ex.step # "dispatch" => ex.ready = {}
  /\ ex.step \in {"final", "waiting_approval", "queued"} =>
       Ready = {} /\ (ex.left = {} \/ ex.pending # {})

\* ... and the rows bear each of them out.
Booked(t) ==
  /\ t \in ex.won =>
       /\ Successes(t) # {}
       /\ SuccessIn(t, ex.seg) \/ \A d \in Deps[t] : d \in ex.won /\ Current(d, t)
  /\ t \in ex.lost => ~Carries(t)
  /\ t \in Unsubmitted => ~SuccessIn(t, ex.seg)
  /\ t \in ex.pending => RowIn(t, ex.seg)
  /\ job[t].step \in {"queued", "check", "start", "exec"} => ~SuccessIn(t, ex.seg)
  /\ job[t].attempt > 1 => RowIn(t, ex.seg)
  /\ job[t].step = "won" => SuccessIn(t, ex.seg)
  /\ job[t].step = "lost" => ~Carries(t)

BookInv ==
  /\ Bounded
  /\ ex.step = "off" => ReuseIsCurrent
  /\ ex.step # "off" => Places /\ \A t \in Task : Booked(t)
  /\ CurrentUnlessCut

\* How every step changes a task's rows but for the one that ends in success:
\* no success comes or goes, and what is added is of the run's segment.
Grown(t) ==
  /\ DOMAIN rows[t] \subseteq DOMAIN rows'[t]
  /\ \A i \in DOMAIN rows[t] :
       /\ rows'[t][i].seg = rows[t][i].seg
       /\ rows'[t][i].attempt = rows[t][i].attempt
       /\ rows'[t][i].status = "success" <=> rows[t][i].status = "success"
  /\ \A i \in DOMAIN rows'[t] \ DOMAIN rows[t] :
       /\ rows'[t][i].status # "success"
       /\ rows'[t][i].seg <= run'.seg
       /\ rows'[t][i].attempt <= Attempts[t]

-----------------------------------------------------------------------------
(* The order of a task's rows.                                             *)

LEMMA LeastNatural ==
  ASSUME NEW S, S \subseteq Nat, S # {}
  PROVE  \E m \in S : \A n \in S : ~(n < m)
<1>1. PICK m \in S : \A n \in S : <<n, m>> \notin OpToRel(<, Nat)
  BY NatLessThanWellFounded, WFMin
<1>2. ASSUME NEW n \in S, n < m PROVE <<n, m>> \in OpToRel(<, Nat)
  BY <1>2 DEF OpToRel
<1> QED
  BY <1>1, <1>2

LEMMA RowFields ==
  ASSUME TypeOK, NEW t \in Task, NEW i \in DOMAIN rows[t]
  PROVE  /\ rows[t][i] \in RowType
         /\ rows[t][i].seg \in Nat /\ rows[t][i].attempt \in Nat
         /\ i \in Nat /\ i <= Len(rows[t]) /\ Len(rows[t]) \in Nat
<1>1. rows[t] \in Seq(RowType) /\ Len(rows[t]) \in Nat /\ DOMAIN rows[t] = 1..Len(rows[t])
  BY DEF TypeOK
<1>2. rows[t][i] \in RowType
  BY <1>1
<1> QED
  BY <1>1, <1>2, GraphAssumption DEF RowType, Segment

\* Some rows of one segment have a newest one.
LEMMA NewestOf ==
  ASSUME TypeOK, Bounded, NEW t \in Task, NEW S \in SUBSET DOMAIN rows[t], S # {},
         NEW s, \A i \in S : rows[t][i].seg = s
  PROVE  \E i \in S : \A j \in S : j # i => Before(t, j, i)
<1> DEFINE left(i) == Attempts[t] - rows[t][i].attempt
           A == {left(i) : i \in S}
<1>1. \A i \in S : left(i) \in Nat
  BY RowFields, GraphAssumption DEF Bounded
<1>2. A \subseteq Nat /\ A # {}
  BY <1>1
<1>3. PICK a \in A : \A n \in A : ~(n < a)
  BY <1>2, LeastNatural
<1> DEFINE B == {Len(rows[t]) - i : i \in {j \in S : left(j) = a}}
<1>4. B \subseteq Nat /\ B # {}
  <2>1. \A j \in S : Len(rows[t]) - j \in Nat
    BY RowFields
  <2> QED
    BY <1>3, <2>1
<1>5. PICK b \in B : \A n \in B : ~(n < b)
  BY <1>4, LeastNatural
<1>6. PICK i \in S : left(i) = a /\ Len(rows[t]) - i = b
  BY <1>5
<1>7. ASSUME NEW j \in S, j # i
      PROVE  Before(t, j, i)
  <2>1. /\ rows[t][i].attempt \in Nat /\ rows[t][j].attempt \in Nat
        /\ i \in Nat /\ j \in Nat /\ Len(rows[t]) \in Nat
        /\ rows[t][j].seg = rows[t][i].seg
    BY <1>7, RowFields
  <2>2. ~(left(j) < left(i)) /\ Attempts[t] \in Nat
    BY <1>3, <1>6, <1>7, GraphAssumption
  <2>3. rows[t][j].attempt <= rows[t][i].attempt
    BY <2>1, <2>2
  <2>4. CASE rows[t][j].attempt = rows[t][i].attempt
    <3>1. left(j) = a
      BY <1>6, <2>4
    <3>2. ~(Len(rows[t]) - j < Len(rows[t]) - i)
      BY <1>5, <1>6, <1>7, <3>1
    <3>3. j < i
      BY <1>7, <2>1, <3>2
    <3> QED
      BY <2>1, <2>4, <3>3 DEF Before
  <2> QED
    BY <2>1, <2>3, <2>4 DEF Before
<1> QED
  BY <1>6, <1>7

\* A task with a row in the run's segment carries a success only from there.
LEMMA CarriesFromHere ==
  ASSUME TypeOK, Bounded, NEW t \in Task, RowIn(t, run.seg), Carries(t)
  PROVE  SuccessIn(t, run.seg)
<1>1. PICK i \in DOMAIN rows[t] :
        rows[t][i].status = "success" /\ \A j \in DOMAIN rows[t] : j # i => Before(t, j, i)
  BY DEF Carries, LastIn
<1>2. PICK j \in DOMAIN rows[t] : rows[t][j].seg = run.seg
  BY DEF RowIn
<1>3. rows[t][i].seg \in Nat /\ rows[t][i].seg <= run.seg /\ run.seg \in Nat
  BY RowFields, GraphAssumption DEF Bounded, TypeOK, RunType, Segment
<1>4. rows[t][j].seg <= rows[t][i].seg
  BY <1>1, <1>2, <1>3 DEF Before
<1>5. rows[t][i].seg = run.seg
  BY <1>2, <1>3, <1>4
<1> QED
  BY <1>1, <1>5 DEF SuccessIn, Successes

\* A success of the run's segment is as late as any.
LEMMA HereIsCurrent ==
  ASSUME TypeOK, Bounded, NEW t \in Task, NEW d \in Task, SuccessIn(t, run.seg)
  PROVE  Current(d, t)
BY DEF SuccessIn, Bounded, Current, NoneLater, Successes

-----------------------------------------------------------------------------
(* What a step that only adds rows keeps.                                  *)

LEMMA GrownSuccesses ==
  ASSUME NEW t \in Task, Grown(t)
  PROVE  /\ Successes(t)' = Successes(t)
         /\ \A i \in Successes(t) : rows'[t][i].seg = rows[t][i].seg
         /\ \A s : SuccessIn(t, s)' <=> SuccessIn(t, s)
         /\ \A s : RowIn(t, s) => RowIn(t, s)'
<1>1. /\ Successes(t)' = Successes(t)
      /\ \A i \in Successes(t) : rows'[t][i].seg = rows[t][i].seg
  BY DEF Grown, Successes
<1>2. ASSUME NEW s PROVE SuccessIn(t, s)' <=> SuccessIn(t, s)
  BY <1>1 DEF SuccessIn
<1>3. ASSUME NEW s, RowIn(t, s) PROVE RowIn(t, s)'
  BY <1>3 DEF RowIn, Grown
<1> QED
  BY <1>1, <1>2, <1>3

LEMMA GrownCarries ==
  ASSUME NEW t \in Task, Grown(t), Carries(t)'
  PROVE  Carries(t)
<1>1. PICK i \in DOMAIN rows'[t] :
        /\ rows'[t][i].status = "success"
        /\ \A j \in DOMAIN rows'[t] : j # i => Before(t, j, i)'
  BY DEF Carries, LastIn
<1>2. i \in DOMAIN rows[t] /\ rows[t][i].status = "success"
  BY <1>1 DEF Grown
<1>3. ASSUME NEW j \in DOMAIN rows[t], j # i PROVE Before(t, j, i)
  <2>1. Before(t, j, i)'
    BY <1>1, <1>3 DEF Grown
  <2> QED
    BY <1>2, <1>3, <2>1 DEF Before, Grown
<1> QED
  BY <1>2, <1>3 DEF Carries, LastIn

LEMMA GrownSatisfied ==
  ASSUME \A t \in Task : Grown(t)
  PROVE  Satisfied' \subseteq Satisfied
<1>1. ASSUME NEW S \in SUBSET Task,
             \A t \in S : Carries(t)' /\ Deps[t] \subseteq S
      PROVE  \A t \in S : Carries(t) /\ Deps[t] \subseteq S
  BY <1>1, GrownCarries
<1> QED
  BY <1>1 DEF Satisfied, Carries

LEMMA GrownCurrent ==
  ASSUME NEW t \in Task, NEW d \in Task, Grown(t), Grown(d), cut' = cut, Current(d, t)
  PROVE  Current(d, t)'
<1>1. /\ Successes(t)' = Successes(t)
      /\ \A i \in Successes(t) : rows'[t][i].seg = rows[t][i].seg
      /\ Successes(d)' = Successes(d)
      /\ \A i \in Successes(d) : rows'[d][i].seg = rows[d][i].seg
  BY GrownSuccesses
<1>2. CASE NoneLater(d, t)
  <2>1. NoneLater(d, t)'
    BY <1>1, <1>2 DEF NoneLater
  <2> QED
    BY <2>1 DEF Current
<1>3. CASE CutSince(t)
  <2>1. CutSince(t)'
    BY <1>1, <1>3 DEF CutSince
  <2> QED
    BY <2>1 DEF Current
<1> QED
  BY <1>2, <1>3 DEF Current

LEMMA GrownReuse ==
  ASSUME \A t \in Task : Grown(t), cut' = cut, ReuseIsCurrent
  PROVE  ReuseIsCurrent'
<1>1. Satisfied' \subseteq Satisfied /\ Satisfied \subseteq Task
  BY GrownSatisfied DEF Satisfied
<1>2. ASSUME NEW t \in Satisfied', NEW d \in Deps[t] PROVE Current(d, t)'
  <2>1. t \in Task /\ d \in Task /\ Current(d, t)
    BY <1>1, GraphAssumption DEF ReuseIsCurrent
  <2> QED
    BY <2>1, GrownCurrent
<1> QED
  BY <1>2 DEF ReuseIsCurrent

LEMMA GrownBounded ==
  ASSUME TypeOK, TypeOK', Bounded, \A t \in Task : Grown(t), run.seg <= run'.seg,
         \A t \in Task : Tries(t)'
  PROVE  Bounded'
<1>1. ASSUME NEW t \in Task, NEW i \in DOMAIN rows'[t]
      PROVE  rows'[t][i].seg <= run'.seg /\ rows'[t][i].attempt <= Attempts[t]
  <2>1. CASE i \in DOMAIN rows[t]
    <3>1. rows[t][i].seg \in Nat /\ run.seg \in Nat /\ run'.seg \in Nat
      BY <2>1, RowFields, GraphAssumption DEF TypeOK, RunType, Segment
    <3> QED
      BY <2>1, <3>1 DEF Grown, Bounded
  <2>2. CASE i \notin DOMAIN rows[t]
    BY <2>2 DEF Grown
  <2> QED
    BY <2>1, <2>2
<1> QED
  BY <1>1 DEF Bounded

\* What a run at its end says of its tasks only rests on their successes.
LEMMA GrownSuccess ==
  ASSUME \A t \in Task : Grown(t), cut' = cut, CurrentUnlessCut,
         run'.status = "success" => run.status = "success"
  PROVE  CurrentUnlessCut'
<1> SUFFICES ASSUME run'.status = "success", NEW t \in Task
             PROVE  /\ Successes(t)' # {}
                    /\ \A d \in Deps[t] : (NoneLater(d, t) \/ CutSince(t))'
  BY DEF CurrentUnlessCut
<1>1. Successes(t)' # {}
  BY GrownSuccesses DEF CurrentUnlessCut
<1>2. ASSUME NEW d \in Deps[t] PROVE Current(d, t)'
  <2>1. d \in Task /\ Current(d, t)
    BY GraphAssumption DEF CurrentUnlessCut, Current
  <2> QED
    BY <2>1, GrownCurrent
<1> QED
  BY <1>1, <1>2 DEF Current

-----------------------------------------------------------------------------
(* Which steps only add rows.                                              *)

LEMMA SameGrown ==
  ASSUME rows' = rows
  PROVE  \A t \in Task : Grown(t)
BY DEF Grown

LEMMA AddedGrown ==
  ASSUME TypeOK, NEW t \in Task, NEW row \in RowType, rows' = Write(t, row),
         row.status # "success", row.seg <= run'.seg, row.attempt <= Attempts[t]
  PROVE  \A u \in Task : Grown(u)
<1>1. rows \in RowTable
  BY DEF TypeOK, RowTable
<1>2. /\ \A u \in Task : DOMAIN rows[u] \subseteq DOMAIN rows'[u]
      /\ \A u \in Task : \A i \in DOMAIN rows[u] : rows'[u][i] = rows[u][i]
      /\ \A u \in Task : \A i \in DOMAIN rows'[u] :
           \/ i \in DOMAIN rows[u] /\ rows'[u][i] = rows[u][i]
           \/ u = t /\ rows'[u][i] = row
  BY <1>1, WriteTable
<1> QED
  BY <1>2 DEF Grown

\* One row gets another status (see SetStatusStep): the other tasks' rows ...
LEMMA SetGrownOthers ==
  ASSUME NEW t \in Task, NEW i \in DOMAIN rows[t], NEW status,
         \A u \in Task : DOMAIN rows'[u] = DOMAIN rows[u],
         \A u \in Task : \A j \in DOMAIN rows[u] : SameBut(u, j, u = t /\ j = i, status)
  PROVE  \A u \in Task \ {t} : Grown(u)
<1>1. ASSUME NEW u \in Task \ {t}, NEW j \in DOMAIN rows[u]
      PROVE  /\ rows'[u][j].seg = rows[u][j].seg
             /\ rows'[u][j].attempt = rows[u][j].attempt
             /\ rows'[u][j].status = rows[u][j].status
  BY DEF SameBut
<1> QED
  BY <1>1 DEF Grown

\* ... and the task's own, when no success is involved.
LEMMA SetGrown ==
  ASSUME NEW t \in Task, NEW i \in DOMAIN rows[t], NEW status,
         \A u \in Task : DOMAIN rows'[u] = DOMAIN rows[u],
         \A u \in Task : \A j \in DOMAIN rows[u] : SameBut(u, j, u = t /\ j = i, status),
         rows[t][i].status # "success", status # "success"
  PROVE  \A u \in Task : Grown(u)
<1>1. ASSUME NEW u \in Task, NEW j \in DOMAIN rows[u]
      PROVE  /\ rows'[u][j].seg = rows[u][j].seg
             /\ rows'[u][j].attempt = rows[u][j].attempt
             /\ rows'[u][j].status = "success" <=> rows[u][j].status = "success"
  <2>1. CASE u = t /\ j = i
    BY <2>1 DEF SameBut
  <2>2. CASE ~(u = t /\ j = i)
    BY <2>2 DEF SameBut
  <2> QED
    BY <2>1, <2>2
<1> QED
  BY <1>1 DEF Grown

LEMMA SettledGrown ==
  ASSUME TypeOK,
         \/ rows' = Settle(rows, "awaiting_approval", "cancelled")
         \/ rows' = Settle(Settle(rows, "running", "failed"), "awaiting_approval", "cancelled")
  PROVE  \A u \in Task : Grown(u)
<1>1. rows \in RowTable /\ "cancelled" \in RowStatus /\ "failed" \in RowStatus
  BY DEF TypeOK, RowTable, RowStatus
<1> DEFINE first == Settle(rows, "running", "failed")
<1>2. first \in RowTable /\ \A u \in Task : DOMAIN first[u] = DOMAIN rows[u]
  BY <1>1, SettleTable
<1>3. \A u \in Task : DOMAIN rows'[u] = DOMAIN rows[u]
  BY SettledTypes
<1>4. ASSUME NEW u \in Task, NEW i \in DOMAIN rows[u]
      PROVE  /\ rows'[u][i].seg = rows[u][i].seg
             /\ rows'[u][i].attempt = rows[u][i].attempt
             /\ rows'[u][i].status = "success" <=> rows[u][i].status = "success"
  <2>1. CASE rows' = Settle(rows, "awaiting_approval", "cancelled")
    <3>1. /\ rows'[u][i].seg = rows[u][i].seg
          /\ rows'[u][i].attempt = rows[u][i].attempt
          /\ rows'[u][i].status =
               IF rows[u][i].status = "awaiting_approval" THEN "cancelled" ELSE rows[u][i].status
      BY <1>1, <2>1, SettleRow
    <3> QED
      BY <3>1
  <2>2. CASE rows' = Settle(first, "awaiting_approval", "cancelled")
    <3>1. /\ i \in DOMAIN first[u]
          /\ first[u][i].seg = rows[u][i].seg /\ first[u][i].attempt = rows[u][i].attempt
          /\ first[u][i].status = IF rows[u][i].status = "running" THEN "failed" ELSE rows[u][i].status
      BY <1>1, SettleRow
    <3> HIDE DEF first
    <3>2. /\ rows'[u][i].seg = first[u][i].seg /\ rows'[u][i].attempt = first[u][i].attempt
          /\ rows'[u][i].status =
               IF first[u][i].status = "awaiting_approval" THEN "cancelled" ELSE first[u][i].status
      BY <1>1, <1>2, <2>2, <3>1, SettleRow
    <3> QED
      BY <3>1, <3>2
  <2> QED
    BY <2>1, <2>2
<1> QED
  BY <1>3, <1>4 DEF Grown

\* The markers of a resume.
LEMMA MarkedGrown ==
  ASSUME TypeOK, NEW forced \in SUBSET Forcible, ResumeRun(forced)
  PROVE  \A t \in Task : Grown(t)
<1> DEFINE marker == Row(run.seg + 1, 0, "cancelled")
<1>1. run'.seg = run.seg + 1 /\ run.seg \in Nat /\ \A t \in Task : Attempts[t] \in Nat
  BY GraphAssumption DEF ResumeRun, TypeOK, RunType, Segment
<1>2. marker.status = "cancelled" /\ marker.seg = run.seg + 1 /\ marker.attempt = 0
  BY DEF Row
<1>3. \A t \in Task : rows'[t] \in {rows[t], Append(rows[t], marker)}
  BY DEF ResumeRun
<1>8. marker \in RowType
  BY <1>1, GraphAssumption DEF ResumeRun, Row, RowType, Segment, RowStatus
<1> HIDE DEF marker
<1>4. ASSUME NEW t \in Task PROVE Grown(t)
  <2>1. rows[t] \in Seq(RowType) /\ Len(rows[t]) \in Nat /\ DOMAIN rows[t] = 1..Len(rows[t])
    BY DEF TypeOK
  <2>2. /\ DOMAIN Append(rows[t], marker) = 1..(Len(rows[t]) + 1)
        /\ \A i \in 1..Len(rows[t]) : Append(rows[t], marker)[i] = rows[t][i]
        /\ Append(rows[t], marker)[Len(rows[t]) + 1] = marker
    BY <1>8, <2>1
  <2>3. \A i \in 1..(Len(rows[t]) + 1) : i \in 1..Len(rows[t]) \/ i = Len(rows[t]) + 1
    BY <2>1
  <2>4. 1..Len(rows[t]) \subseteq 1..(Len(rows[t]) + 1)
    BY <2>1
  <2>5. /\ DOMAIN rows[t] \subseteq DOMAIN rows'[t]
        /\ \A i \in DOMAIN rows[t] : rows'[t][i] = rows[t][i]
        /\ \A i \in DOMAIN rows'[t] : i \in DOMAIN rows[t] \/ rows'[t][i] = marker
    BY <1>3, <2>1, <2>2, <2>3, <2>4
  <2>6. 0 <= Attempts[t] /\ run.seg + 1 <= run'.seg
    BY <1>1
  <2> QED
    BY <1>2, <2>5, <2>6 DEF Grown
<1> QED
  BY <1>4

-----------------------------------------------------------------------------
(* Steps that leave a task in its place.                                   *)

\* Its books stay right when its own rows, and those of the tasks that are won,
\* gain no success.
LEMMA BookedKept ==
  ASSUME NEW t \in Task, Booked(t), Grown(t), \A d \in ex.won : Grown(d),
         ex.won \subseteq Task, cut' = cut, ex'.seg = ex.seg,
         ex.won \subseteq ex'.won, t \in ex'.won => t \in ex.won,
         t \in ex'.lost => t \in ex.lost,
         t \in Unsubmitted' => t \in Unsubmitted,
         t \in ex'.pending => t \in ex.pending,
         job'[t] = job[t]
  PROVE  Booked(t)'
<1>1. /\ Successes(t)' = Successes(t)
      /\ SuccessIn(t, ex.seg)' <=> SuccessIn(t, ex.seg)
      /\ RowIn(t, ex.seg) => RowIn(t, ex.seg)'
      /\ Carries(t)' => Carries(t)
  BY GrownSuccesses, GrownCarries
<1>2. ASSUME t \in ex.won, ~SuccessIn(t, ex.seg), NEW d \in Deps[t]
      PROVE  d \in ex'.won /\ Current(d, t)'
  <2>1. d \in ex.won /\ Current(d, t)
    BY <1>2 DEF Booked
  <2> QED
    BY <2>1, GrownCurrent
<1> QED
  BY <1>1, <1>2 DEF Booked

\* When neither the executor nor a thread moves.
LEMMA NobodyMoves ==
  ASSUME TypeOK, TypeOK', BookInv, \A t \in Task : Grown(t),
         ex' = ex, job' = job, cut' = cut, run.seg <= run'.seg,
         run'.status = "success" => run.status = "success"
  PROVE  BookInv'
<1>1. Bounded' /\ CurrentUnlessCut'
  <2>1. \A t \in Task : Tries(t)'
    BY DEF BookInv, Bounded, Tries
  <2> QED
    BY <2>1, GrownBounded, GrownSuccess DEF BookInv
<1>2. ex'.step = "off" => ReuseIsCurrent'
  BY GrownReuse DEF BookInv
<1>3. ASSUME ex.step # "off" PROVE Places' /\ \A t \in Task : Booked(t)'
  <2>1. Places /\ Places'
    BY <1>3 DEF BookInv, Places, Unsubmitted, Ready, Running
  <2>2. ex.won \subseteq Task /\ Unsubmitted' = Unsubmitted
    BY DEF TypeOK, ExType, Unsubmitted
  <2> QED
    BY <1>3, <2>1, <2>2, BookedKept DEF BookInv
<1> QED
  BY <1>1, <1>2, <1>3 DEF BookInv

-----------------------------------------------------------------------------
(* Claim: what the rows say is what the books begin with.                  *)

Settled(t, segment) ==
  {i \in DOMAIN rows[t] :
     /\ rows[t][i].seg = segment
     /\ rows[t][i].status \in {"success", "failed", "skipped", "cancelled"}
     /\ ~(rows[t][i].attempt = 0 /\ rows[t][i].status = "cancelled")}

LEMMA SatisfiedCarries ==
  \A t \in Satisfied : t \in Task /\ Carries(t) /\ Deps[t] \subseteq Satisfied
BY DEF Satisfied, Carries

LEMMA DecidedLost ==
  ASSUME TypeOK, Bounded, NEW t \in Decided(run.seg, {"failed", "skipped", "cancelled"})
  PROVE  ~Carries(t)
<1>1. PICK k \in Settled(t, run.seg) :
        /\ rows[t][k].status # "success"
        /\ \A j \in Settled(t, run.seg) : j # k => Before(t, j, k)
  BY DEF Decided, LastIn, Settled
<1>2. t \in Task /\ k \in DOMAIN rows[t] /\ rows[t][k].seg = run.seg
  BY <1>1 DEF Decided, Settled
<1> SUFFICES ASSUME Carries(t) PROVE FALSE
  OBVIOUS
<1>3. PICK i \in DOMAIN rows[t] :
        rows[t][i].status = "success" /\ \A j \in DOMAIN rows[t] : j # i => Before(t, j, i)
  BY DEF Carries, LastIn
<1>4. Before(t, k, i) /\ i # k
  BY <1>1, <1>2, <1>3
<1>5. /\ rows[t][i].seg \in Nat /\ rows[t][k].seg \in Nat /\ rows[t][i].seg <= run.seg
      /\ rows[t][i].attempt \in Nat /\ rows[t][k].attempt \in Nat
      /\ i \in Nat /\ k \in Nat
  BY <1>2, <1>3, RowFields DEF Bounded
<1>6. rows[t][i].seg = run.seg
  BY <1>2, <1>4, <1>5 DEF Before
<1>7. i \in Settled(t, run.seg)
  BY <1>3, <1>6 DEF Settled
<1>8. Before(t, i, k)
  BY <1>1, <1>4, <1>7
<1> QED
  BY <1>4, <1>5, <1>8 DEF Before

LEMMA Undecided ==
  ASSUME TypeOK, Bounded, NEW t \in Task, SuccessIn(t, run.seg),
         t \notin Decided(run.seg, {"failed", "skipped", "cancelled"})
  PROVE  t \in Decided(run.seg, {"success"})
<1> DEFINE S == Settled(t, run.seg)
<1>1. S # {} /\ S \subseteq DOMAIN rows[t] /\ \A i \in S : rows[t][i].seg = run.seg
  BY DEF SuccessIn, Successes, Settled
<1>2. PICK i \in S : \A j \in S : j # i => Before(t, j, i)
  BY <1>1, NewestOf
<1>3. rows[t][i].status \in {"success", "failed", "skipped", "cancelled"}
  BY <1>2 DEF Settled
<1>4. ASSUME NEW statuses, rows[t][i].status \in statuses
      PROVE  t \in Decided(run.seg, statuses)
  BY <1>2, <1>4 DEF Decided, LastIn, Settled
<1> QED
  BY <1>3, <1>4

LEMMA DecidedWon ==
  ASSUME NEW t \in Decided(run.seg, {"success"})
  PROVE  t \in Task /\ SuccessIn(t, run.seg)
BY DEF Decided, LastIn, SuccessIn, Successes

LEMMA ClaimBooks ==
  ASSUME IInv, TypeOK', BookInv, Claim
  PROVE  BookInv'
<1> DEFINE lost == Decided(run.seg, {"failed", "skipped", "cancelled"})
           kept == Decided(run.seg, {"success"})
           won  == (Satisfied \ lost) \cup kept
<1>1. /\ TypeOK /\ Bounded /\ ReuseIsCurrent /\ run.status = "queued"
      /\ \A t \in Task : job[t].step = "none"
  BY DEF IInv, BookInv, Claim, Served
<1>2. /\ ex'.step = "poll" /\ ex'.seg = run.seg /\ ex'.won = won /\ ex'.lost = lost
      /\ ex'.left = Task \ (won \cup lost) /\ ex'.ready = {} /\ ex'.pending = {}
  BY DEF Claim, Off
<1>3. /\ rows' = rows /\ job' = job /\ cut' = cut
      /\ run'.seg = run.seg /\ run'.status = "running"
  BY <1>1 DEF Claim, TypeOK, RunType
<1>4. \A t \in Task : Grown(t)
  BY <1>3, SameGrown
<1>5. Bounded' /\ CurrentUnlessCut'
  BY <1>3 DEF BookInv, Bounded, Tries, CurrentUnlessCut
<1>6. /\ \A t \in Satisfied : t \in Task /\ Carries(t) /\ Deps[t] \subseteq Satisfied
      /\ \A t \in lost : t \in Task /\ ~Carries(t)
      /\ \A t \in kept : t \in Task /\ SuccessIn(t, run.seg)
      /\ \A t \in Task : SuccessIn(t, run.seg) => t \in lost \cup kept
  BY <1>1, SatisfiedCarries, DecidedLost, DecidedWon, Undecided DEF Decided
<1>7. won \cap lost = {}
  <2>1. ASSUME NEW t \in kept, t \in lost PROVE FALSE
    <3>1. PICK i \in Settled(t, run.seg) :
            /\ rows[t][i].status = "success"
            /\ \A j \in Settled(t, run.seg) : j # i => Before(t, j, i)
      BY DEF Decided, LastIn, Settled
    <3>2. PICK k \in Settled(t, run.seg) :
            /\ rows[t][k].status # "success"
            /\ \A j \in Settled(t, run.seg) : j # k => Before(t, j, k)
      BY <2>1 DEF Decided, LastIn, Settled
    <3>3. Before(t, i, k) /\ Before(t, k, i)
      BY <3>1, <3>2
    <3>4. /\ rows[t][i].seg \in Nat /\ rows[t][k].seg \in Nat
          /\ rows[t][i].attempt \in Nat /\ rows[t][k].attempt \in Nat
          /\ i \in Nat /\ k \in Nat
      BY <1>1, <1>6, <3>1, <3>2, RowFields DEF Settled
    <3> QED
      BY <3>3, <3>4 DEF Before
  <2> QED
    BY <2>1
<1> HIDE DEF lost, kept
<1>8. Places'
  <2>1. Running' = {}
    BY <1>1, <1>3 DEF Running
  <2>2. Unsubmitted' = Task \ (won \cup lost)
    BY <1>2 DEF Unsubmitted
  <2> QED
    BY <1>2, <1>7, <2>1, <2>2 DEF Places
<1>9. ASSUME NEW t \in Task PROVE Booked(t)'
  <2>1. /\ \A s : SuccessIn(t, s)' <=> SuccessIn(t, s)
        /\ Carries(t)' => Carries(t)
        /\ Successes(t)' = Successes(t)
        /\ \A d \in Task : Current(d, t) => Current(d, t)'
    BY <1>3, <1>4, GrownSuccesses, GrownCarries, GrownCurrent
  <2>2. SuccessIn(t, run.seg) <=> SuccessIn(t, ex.seg)'
    BY <1>2, <2>1
  <2>3. ASSUME t \in won, ~SuccessIn(t, run.seg)
        PROVE  Successes(t) # {} /\ \A d \in Deps[t] : d \in won /\ Current(d, t)'
    <3>1. t \in Satisfied /\ Carries(t)
      BY <1>6, <2>3
    <3>2. Successes(t) # {}
      BY <3>1 DEF Carries, LastIn, Successes
    <3>3. ASSUME NEW d \in Deps[t] PROVE d \in won /\ Current(d, t)'
      <4>1. d \in Satisfied /\ d \in Task
        BY <1>6, <3>1
      <4>2. d \notin lost
        BY <1>6, <4>1
      <4>3. Current(d, t)
        BY <1>1, <3>1 DEF ReuseIsCurrent
      <4> QED
        BY <2>1, <4>1, <4>2, <4>3
    <3> QED
      BY <3>2, <3>3
  <2>4. SuccessIn(t, run.seg) => Successes(t) # {}
    BY DEF SuccessIn
  <2>5. t \in Unsubmitted' => t \notin won \cup lost
    BY <1>2 DEF Unsubmitted
  <2>6. t \in Unsubmitted' => ~SuccessIn(t, run.seg)
    BY <1>6, <2>5
  <2>7. job'[t].step = "none" /\ ~(job'[t].attempt > 1)
    <3>1. job[t].attempt = 1
      BY <1>1 DEF Bounded, Tries
    <3> QED
      BY <1>1, <1>3, <3>1
  <2> HIDE DEF won
  <2> QED
    BY <1>2, <1>6, <2>1, <2>2, <2>3, <2>4, <2>6, <2>7 DEF Booked
<1> QED
  BY <1>2, <1>5, <1>8, <1>9 DEF BookInv

-----------------------------------------------------------------------------
(* The loop: poll, dispatch, collect.                                      *)

\* Who executes the run has it at work.
LEMMA AtWorkRuns ==
  ASSUME IInv, ex.step # "off"
  PROVE  run.seg = ex.seg /\ run.status # "success"
BY DEF IInv, Served

LEMMA NotCarried ==
  TypeOK /\ Bounded =>
    \A t \in Task : RowIn(t, run.seg) /\ ~SuccessIn(t, run.seg) => ~Carries(t)
BY CarriesFromHere

LEMMA NotCarriedNext ==
  (TypeOK /\ Bounded =>
    \A t \in Task : RowIn(t, run.seg) /\ ~SuccessIn(t, run.seg) => ~Carries(t))'
BY NotCarried, PTL

LEMMA PollBooks ==
  ASSUME IInv, TypeOK', BookInv, Poll
  PROVE  BookInv'
<1>1. TypeOK /\ Places /\ Bounded /\ ex.step = "poll" /\ \A t \in Task : Booked(t)
  BY DEF IInv, BookInv, Poll
<1>2. /\ ex'.seg = ex.seg /\ ex'.won = ex.won /\ ex'.lost = ex.lost /\ ex'.pending = ex.pending
      /\ ex'.ready = Ready /\ ex'.left = ex.left \ Ready
      /\ ex'.step = IF Ready # {} THEN "dispatch" ELSE IF Running # {} THEN "wait" ELSE "final"
      /\ rows' = rows /\ job' = job /\ cut' = cut /\ run' = run
      /\ ex.left = {} \/ ex.pending # {} \/ Ready # {} \/ Running # {}
  BY <1>1 DEF Poll, TypeOK, ExType
<1>3. \A t \in Task : Grown(t)
  BY <1>2, SameGrown
<1>4. Ready \subseteq ex.left /\ ex.ready = {}
  BY <1>1 DEF Ready, Places
<1>5. Running' = Running /\ Unsubmitted' = Unsubmitted
  BY <1>2, <1>4 DEF Running, Unsubmitted
<1>6. Ready = {} => Ready' = {}
  BY <1>2 DEF Ready
<1>7. Places'
  BY <1>1, <1>2, <1>4, <1>5, <1>6 DEF Places
<1>8. \A t \in Task : Booked(t)'
  <2>1. ex.won \subseteq Task
    BY <1>1 DEF TypeOK, ExType
  <2> QED
    BY <1>1, <1>2, <1>3, <1>5, <2>1, BookedKept
<1>9. Bounded' /\ CurrentUnlessCut'
  <2>1. run.status # "success"
    BY <1>1, AtWorkRuns
  <2> QED
    BY <1>1, <1>2, <2>1 DEF Bounded, Tries, CurrentUnlessCut
<1> QED
  BY <1>2, <1>7, <1>8, <1>9 DEF BookInv

LEMMA CollectBooks ==
  ASSUME IInv, TypeOK', BookInv, Collect
  PROVE  BookInv'
<1> DEFINE W == {t \in Done : job[t].step = "won"}
           L == {t \in Done : job[t].step = "lost"}
<1>1. TypeOK /\ Places /\ Bounded /\ ex.step = "wait" /\ \A t \in Task : Booked(t)
  BY DEF IInv, BookInv, Collect
<1>2. /\ ex'.seg = ex.seg /\ ex'.won = ex.won \cup W /\ ex'.lost = ex.lost \cup L
      /\ ex'.pending = ex.pending /\ ex'.ready = ex.ready /\ ex'.left = ex.left
      /\ ex'.step = "poll"
      /\ \A t \in Task : job'[t] = IF t \in Done THEN NoJob ELSE job[t]
      /\ rows' = rows /\ cut' = cut /\ run' = run
  BY <1>1 DEF Collect, TypeOK, ExType
<1>3. \A t \in Task : Grown(t)
  BY <1>2, SameGrown
<1>4. W \cup L = Done /\ W \cap L = {} /\ Done \subseteq Running
  BY DEF Done, Running
<1>5. Running' = Running \ Done /\ Unsubmitted' = Unsubmitted
  BY <1>2 DEF Running, Done, NoJob, Unsubmitted
<1>6. /\ \A t \in W : t \in Task /\ job[t].step = "won"
      /\ \A t \in L : t \in Task /\ job[t].step = "lost"
  BY DEF Done
<1> HIDE DEF W, L
<1>7. Places'
  BY <1>1, <1>2, <1>4, <1>5 DEF Places
<1>8. ASSUME NEW t \in Task PROVE Booked(t)'
  <2>1. ex.won \subseteq Task
    BY <1>1 DEF TypeOK, ExType
  <2>2. CASE t \notin Done
    BY <1>1, <1>2, <1>3, <1>4, <1>5, <2>1, <2>2, BookedKept
  <2>3. CASE t \in Done
    <3>1. /\ \A s : SuccessIn(t, s)' <=> SuccessIn(t, s)
          /\ Carries(t)' => Carries(t)
          /\ Successes(t)' = Successes(t)
      BY <1>3, GrownSuccesses, GrownCarries
    <3>2. job'[t].step = "none" /\ ~(job'[t].attempt > 1)
      BY <1>2, <2>3 DEF NoJob
    <3>3. /\ t \notin Unsubmitted' /\ t \notin ex'.pending
          /\ t \in ex'.won => t \in W
          /\ t \in ex'.lost => t \in L
      BY <1>1, <1>2, <1>4, <1>5, <2>3 DEF Places, Unsubmitted
    <3>4. t \in W => SuccessIn(t, ex.seg) /\ SuccessIn(t, ex.seg)'
      BY <1>1, <1>2, <1>6, <3>1 DEF Booked
    <3>5. SuccessIn(t, ex.seg) => Successes(t) # {}
      BY DEF SuccessIn
    <3>6. t \in L => ~Carries(t)'
      BY <1>1, <1>6, <3>1 DEF Booked
    <3> QED
      BY <3>1, <3>2, <3>3, <3>4, <3>5, <3>6 DEF Booked
  <2> QED
    BY <2>2, <2>3
<1>9. Bounded' /\ CurrentUnlessCut'
  <2>1. run.status # "success"
    BY <1>1, AtWorkRuns
  <2>2. \A t \in Task : Tries(t)'
    BY <1>1, <1>2, GraphAssumption DEF Bounded, Tries, NoJob
  <2> QED
    BY <1>1, <1>2, <2>1, <2>2 DEF Bounded, CurrentUnlessCut
<1> QED
  BY <1>2, <1>7, <1>8, <1>9 DEF BookInv

\* One task moves: the others' books stay.
LEMMA OneTaskMoves ==
  ASSUME IInv, BookInv, ex.step # "off", NEW t \in Task, t \notin ex.won,
         \A u \in Task \ {t} : Grown(u), Bounded', Places', Booked(t)',
         run' = run, cut' = cut, ex'.step # "off", ex'.seg = ex.seg,
         ex'.won = ex.won, ex'.lost \subseteq ex.lost \cup {t},
         Unsubmitted' \subseteq Unsubmitted, ex'.pending \subseteq ex.pending \cup {t},
         \A u \in Task \ {t} : job'[u] = job[u]
  PROVE  BookInv'
<1>1. ex.won \subseteq Task /\ \A u \in Task : Booked(u)
  BY DEF IInv, TypeOK, ExType, BookInv
<1>2. ASSUME NEW u \in Task \ {t} PROVE Booked(u)'
  BY <1>1, <1>2, BookedKept
<1>3. CurrentUnlessCut'
  BY AtWorkRuns DEF CurrentUnlessCut
<1> QED
  BY <1>2, <1>3 DEF BookInv

\* A task's row of the run's segment, and no success of it, keep it from being reused.
LEMMA LostHere ==
  ASSUME TypeOK', Bounded', NEW t \in Task, run'.seg = ex'.seg,
         RowIn(t, ex.seg)', ~SuccessIn(t, ex.seg)'
  PROVE  ~Carries(t)'
BY NotCarriedNext

\* The executor's locals without the task it settles.
Rest(e, t, x) == [e EXCEPT !.ready = e.ready \ {t}, !.step = x]

LEMMA RestFields ==
  ASSUME NEW e \in ExType, NEW t, NEW x \in {"poll", "dispatch"}
  PROVE  /\ Rest(e, t, x) \in ExType
         /\ Rest(e, t, x).seg = e.seg /\ Rest(e, t, x).won = e.won
         /\ Rest(e, t, x).lost = e.lost /\ Rest(e, t, x).left = e.left
         /\ Rest(e, t, x).pending = e.pending
         /\ Rest(e, t, x).ready = e.ready \ {t} /\ Rest(e, t, x).step = x
<1> DEFINE pick == [e EXCEPT !.ready = e.ready \ {t}]
           rest == [pick EXCEPT !.step = x]
<1>1. e.ready \ {t} \in SUBSET Task
  BY DEF ExType
<1>2. /\ pick \in ExType
      /\ pick.seg = e.seg /\ pick.won = e.won /\ pick.lost = e.lost /\ pick.left = e.left
      /\ pick.pending = e.pending /\ pick.ready = e.ready \ {t}
  <2>1. pick \in ExType
    BY <1>1, ExFields
  <2> QED
    BY <2>1 DEF ExType
<1>3. Rest(e, t, x) = rest
  BY DEF Rest
<1> HIDE DEF pick
<1>4. rest \in ExType
  BY <1>2, ExFields
<1>5. /\ rest.seg = pick.seg /\ rest.won = pick.won /\ rest.lost = pick.lost
      /\ rest.left = pick.left /\ rest.pending = pick.pending /\ rest.ready = pick.ready
      /\ rest.step = x
  BY <1>2 DEF ExType
<1> HIDE DEF rest
<1> QED
  BY <1>2, <1>3, <1>4, <1>5

\* The ways to settle a ready task: its rows, its thread, and what becomes of it.
Ways == {"lose", "refuse", "ask", "submit"}

Went(t, way) ==
  /\ way \in {"lose", "refuse"} => ex'.lost = ex.lost \cup {t}
  /\ way \in {"ask", "submit"} => ex'.lost = ex.lost
  /\ ex'.pending = IF way = "ask" THEN ex.pending \cup {t} ELSE ex.pending
  /\ IF way = "submit" THEN job' = [job EXCEPT ![t] = [NoJob EXCEPT !.step = "queued"]]
                       ELSE job' = job
  /\ way = "lose" => \E x \in {"cancelled", "skipped"} : rows' = Write(t, Row(ex.seg, 1, x))
  /\ way = "ask" => rows' = Write(t, Row(ex.seg, 0, "awaiting_approval"))
  /\ way \in {"refuse", "submit"} => rows' = rows
  /\ way = "refuse" => ~GateIs(t, ex.seg, "none")

LEMMA DispatchWays ==
  ASSUME TypeOK, NEW t \in Task, Dispatch(t)
  PROVE  /\ ex'.seg = ex.seg /\ ex'.won = ex.won /\ ex'.left = ex.left
         /\ ex'.ready = ex.ready \ {t}
         /\ ex'.step = IF ex.ready = {t} THEN "poll" ELSE "dispatch"
         /\ run' = run /\ cut' = cut
         /\ \E way \in Ways : Went(t, way)
<1>1. ex \in ExType
  BY DEF TypeOK
<1>2. /\ ex'.seg = ex.seg /\ ex'.won = ex.won /\ ex'.left = ex.left
      /\ ex'.ready = ex.ready \ {t}
      /\ ex'.step = IF ex.ready = {t} THEN "poll" ELSE "dispatch"
      /\ run' = run /\ cut' = cut
  <2> DEFINE x == IF ex.ready = {t} THEN "poll" ELSE "dispatch"
             rest == Rest(ex, t, x)
  <2>1. \/ ex' = rest
        \/ ex' = [rest EXCEPT !.lost = ex.lost \cup {t}]
        \/ ex' = [rest EXCEPT !.pending = ex.pending \cup {t}]
    BY DEF Dispatch, Rest
  <2>2. x \in {"poll", "dispatch"} /\ ex \in ExType
    BY <1>1 DEF TypeOK
  <2> HIDE DEF x
  <2>3. /\ rest \in ExType
        /\ rest.seg = ex.seg /\ rest.won = ex.won /\ rest.left = ex.left
        /\ rest.ready = ex.ready \ {t} /\ rest.step = x
    BY <2>2, RestFields
  <2> HIDE DEF rest
  <2>4. ex'.seg = rest.seg /\ ex'.won = rest.won /\ ex'.left = rest.left
        /\ ex'.ready = rest.ready /\ ex'.step = rest.step
    BY <2>1, <2>3 DEF ExType
  <2> QED
    BY <2>3, <2>4 DEF Dispatch, x
<1>3. \E way \in Ways : Went(t, way)
  <2> DEFINE x == IF ex.ready = {t} THEN "poll" ELSE "dispatch"
             rest == Rest(ex, t, x)
  <2>1. x \in {"poll", "dispatch"} /\ ex \in ExType
    BY <1>1 DEF TypeOK
  <2> HIDE DEF x
  <2>2. rest \in ExType /\ rest.lost = ex.lost /\ rest.pending = ex.pending
    BY <2>1, RestFields
  <2> HIDE DEF rest
  <2>3. /\ [rest EXCEPT !.lost = ex.lost \cup {t}].lost = ex.lost \cup {t}
        /\ [rest EXCEPT !.lost = ex.lost \cup {t}].pending = ex.pending
        /\ [rest EXCEPT !.pending = ex.pending \cup {t}].pending = ex.pending \cup {t}
        /\ [rest EXCEPT !.pending = ex.pending \cup {t}].lost = ex.lost
    BY <2>2 DEF ExType
  <2>4. \/ /\ rows' \in {Write(t, Row(ex.seg, 1, "cancelled")), Write(t, Row(ex.seg, 1, "skipped"))}
           /\ ex' = [rest EXCEPT !.lost = ex.lost \cup {t}] /\ job' = job
        \/ /\ rows' = Write(t, Row(ex.seg, 0, "awaiting_approval"))
           /\ ex' = [rest EXCEPT !.pending = ex.pending \cup {t}] /\ job' = job
        \/ /\ ~GateIs(t, ex.seg, "none") /\ rows' = rows
           /\ ex' = [rest EXCEPT !.lost = ex.lost \cup {t}] /\ job' = job
        \/ /\ job' = [job EXCEPT ![t] = [NoJob EXCEPT !.step = "queued"]]
           /\ ex' = rest /\ rows' = rows
    BY DEF Dispatch, x, rest, Rest
  <2>5. CASE /\ rows' \in {Write(t, Row(ex.seg, 1, "cancelled")), Write(t, Row(ex.seg, 1, "skipped"))}
             /\ ex' = [rest EXCEPT !.lost = ex.lost \cup {t}] /\ job' = job
    <3>1. "lose" \in Ways /\ Went(t, "lose")
      BY <2>3, <2>5 DEF Went, Ways
    <3> QED
      BY <3>1
  <2>6. CASE /\ rows' = Write(t, Row(ex.seg, 0, "awaiting_approval"))
             /\ ex' = [rest EXCEPT !.pending = ex.pending \cup {t}] /\ job' = job
    <3>1. "ask" \in Ways /\ Went(t, "ask")
      BY <2>3, <2>6 DEF Went, Ways
    <3> QED
      BY <3>1
  <2>7. CASE /\ ~GateIs(t, ex.seg, "none") /\ rows' = rows
             /\ ex' = [rest EXCEPT !.lost = ex.lost \cup {t}] /\ job' = job
    <3>1. "refuse" \in Ways /\ Went(t, "refuse")
      BY <2>3, <2>7 DEF Went, Ways
    <3> QED
      BY <3>1
  <2>8. CASE /\ job' = [job EXCEPT ![t] = [NoJob EXCEPT !.step = "queued"]]
             /\ ex' = rest /\ rows' = rows
    <3>1. "submit" \in Ways /\ Went(t, "submit")
      BY <2>2, <2>8 DEF Went, Ways
    <3> QED
      BY <3>1
  <2> QED
    BY <2>4, <2>5, <2>6, <2>7, <2>8
<1> QED
  BY <1>2, <1>3

LEMMA DispatchBooks ==
  ASSUME IInv, TypeOK', BookInv, NEW t \in Task, Dispatch(t)
  PROVE  BookInv'
<1>1. /\ TypeOK /\ Places /\ Bounded /\ ex.step = "dispatch" /\ t \in ex.ready
      /\ Booked(t) /\ run.seg = ex.seg
  BY AtWorkRuns DEF IInv, BookInv, Dispatch
<1>2. /\ ex'.seg = ex.seg /\ ex'.won = ex.won /\ ex'.left = ex.left
      /\ ex'.ready = ex.ready \ {t}
      /\ ex'.step = IF ex.ready = {t} THEN "poll" ELSE "dispatch"
      /\ run' = run /\ cut' = cut
  BY <1>1, DispatchWays
<1>3. PICK way \in Ways : Went(t, way)
  BY <1>1, DispatchWays
<1>4. /\ t \notin ex.won \cup ex.lost \cup ex.left \cup ex.pending \cup Running
      /\ job[t].step = "none" /\ ~SuccessIn(t, ex.seg) /\ ~(job[t].attempt > 1)
  <2>1. job[t].attempt \in Nat /\ (job[t].step = "none" => job[t].attempt = 1)
    BY <1>1 DEF Bounded, Tries, TypeOK, JobType
  <2> QED
    BY <1>1, <2>1 DEF Places, Unsubmitted, Running, Booked
<1>5. /\ \A u \in Task \ {t} : job'[u] = job[u]
      /\ job'[t].step = IF way = "submit" THEN "queued" ELSE "none"
      /\ job'[t].attempt = 1
  <2>1. job[t].attempt = 1
    BY <1>1, <1>4 DEF Bounded, Tries
  <2> QED
    BY <1>1, <1>3, <1>4, <2>1 DEF TypeOK, NoJob, Went, Ways
<1>6. \A u \in Task : Grown(u)
  <2>1. ex.seg \in Segment /\ ex.seg <= run'.seg /\ 1 <= Attempts[t] /\ 0 <= Attempts[t]
    BY <1>1, <1>2, GraphAssumption DEF TypeOK, ExType, Segment
  <2>2. ASSUME NEW n \in {0, 1}, NEW x \in {"cancelled", "skipped", "awaiting_approval"},
               rows' = Write(t, Row(ex.seg, n, x))
        PROVE  \A u \in Task : Grown(u)
    <3> DEFINE row == Row(ex.seg, n, x)
    <3>1. /\ row \in RowType /\ row.status # "success" /\ row.seg <= run'.seg
          /\ row.attempt <= Attempts[t]
      BY <2>1 DEF Row, RowType, RowStatus, GateStatus
    <3> HIDE DEF row
    <3> QED
      BY <1>1, <2>2, <3>1, AddedGrown DEF row
  <2> QED
    BY <1>3, <2>2, SameGrown DEF Went, Ways
<1>7. Bounded'
  <2>1. \A u \in Task : Tries(u)'
    BY <1>1, <1>5, GraphAssumption DEF Bounded, Tries
  <2>2. run.seg <= run'.seg
    BY <1>1, <1>2, GraphAssumption DEF TypeOK, RunType, Segment
  <2> QED
    BY <1>1, <1>6, <2>1, <2>2, GrownBounded
<1>8. Running' = IF way = "submit" THEN Running \cup {t} ELSE Running
  BY <1>4, <1>5 DEF Running
<1>9. Unsubmitted' = IF way = "ask" THEN Unsubmitted ELSE Unsubmitted \ {t}
  <2>1. t \in Unsubmitted
    BY <1>1 DEF Unsubmitted
  <2> QED
    BY <1>2, <1>3, <1>4, <2>1 DEF Unsubmitted, Went, Ways
<1>10. Places'
  BY <1>1, <1>2, <1>3, <1>4, <1>8, <1>9 DEF Places, Went, Ways
<1>11. Booked(t)'
  <2>1. ~SuccessIn(t, ex.seg)'
    BY <1>2, <1>4, <1>6, GrownSuccesses
  <2>2. way \in {"lose", "ask", "refuse"} => RowIn(t, ex.seg)'
    <3>1. ASSUME NEW n \in {0, 1}, NEW x \in {"cancelled", "skipped", "awaiting_approval"},
                 rows' = Write(t, Row(ex.seg, n, x))
          PROVE  RowIn(t, ex.seg)'
      <4>1. rows[t] \in Seq(RowType) /\ Row(ex.seg, n, x).seg = ex.seg /\ Row(ex.seg, n, x) \in RowType
        <5>1. rows[t] \in Seq(RowType) /\ ex.seg \in Segment
          BY <1>1 DEF TypeOK, ExType
        <5> QED
          BY <5>1 DEF Row, RowType, RowStatus, GateStatus
      <4>2. rows'[t] = Append(rows[t], Row(ex.seg, n, x))
        BY <1>1, <3>1 DEF Write, TypeOK
      <4>3. /\ Len(rows[t]) + 1 \in DOMAIN rows'[t]
            /\ rows'[t][Len(rows[t]) + 1] = Row(ex.seg, n, x)
        BY <4>1, <4>2
      <4> QED
        BY <1>2, <4>1, <4>3 DEF RowIn
    <3>2. ASSUME ~GateIs(t, ex.seg, "none") PROVE RowIn(t, ex.seg)
      BY <3>2 DEF GateIs, RowIn
    <3>3. RowIn(t, ex.seg) => RowIn(t, ex.seg)'
      BY <1>2, <1>6, GrownSuccesses
    <3> QED
      BY <1>3, <3>1, <3>2, <3>3 DEF Went, Ways
  <2>3. way \in {"lose", "refuse"} => ~Carries(t)'
    BY <1>1, <1>2, <1>7, <2>1, <2>2, LostHere
  <2>4. /\ t \notin ex'.won /\ (t \in ex'.lost => way \in {"lose", "refuse"})
        /\ t \in ex'.pending => way = "ask"
        /\ ~(job'[t].attempt > 1) /\ job'[t].step \in {"none", "queued"}
    BY <1>2, <1>3, <1>4, <1>5 DEF Went, Ways
  <2> QED
    BY <2>1, <2>2, <2>3, <2>4 DEF Booked
<1>12. ex'.step # "off"
  BY <1>2
<1> QED
  BY <1>1, <1>2, <1>3, <1>4, <1>5, <1>6, <1>7, <1>9, <1>10, <1>11, <1>12, OneTaskMoves DEF Went, Ways

-----------------------------------------------------------------------------
(* A task's thread.                                                        *)

LEMMA ThreadBooks ==
  ASSUME IInv, TypeOK', BookInv, NEW t \in Task, JobNext(t)
  PROVE  BookInv'
<1>1. /\ TypeOK /\ Served /\ Bounded /\ AtWork(t) /\ Tries(t)
      /\ job[t].step \in {"queued", "check", "start", "exec"}
      /\ ex' = ex /\ run' = run /\ cut' = cut
  BY DEF IInv, BookInv, Bounded, JobNext, JobLoad, JobCheck, JobStart, JobEnd
<1>2. /\ ex.step # "off" /\ Places /\ Booked(t) /\ t \in Running
      /\ run.seg = ex.seg /\ t \notin ex.won \cup ex.lost \cup Unsubmitted
      /\ ~SuccessIn(t, ex.seg)
      /\ job[t].attempt \in Nat \ {0} /\ job[t] \in JobType
      /\ ex.seg \in Segment
  <2>1. ex.step # "off"
    BY <1>1 DEF Served
  <2>2. Places /\ Booked(t) /\ t \in Running
    BY <1>1, <2>1 DEF BookInv, Running
  <2> QED
    BY <1>1, <2>1, <2>2, AtWorkRuns DEF Places, Booked, TypeOK, JobType, ExType
<1>3. \A u \in Task \ {t} : job'[u] = job[u]
  BY <1>1 DEF JobNext, JobLoad, JobCheck, JobStart, JobEnd, TypeOK
<1>4. \A u \in Task : u # t => Tries(u)'
  BY <1>1, <1>3 DEF Bounded, Tries
<1>5. run.seg <= run'.seg /\ run.seg \in Nat /\ Attempts[t] \in Nat
  BY <1>1, GraphAssumption DEF TypeOK, RunType, Segment
<1> SUFFICES /\ \A u \in Task \ {t} : Grown(u)
             /\ Bounded' /\ Booked(t)' /\ job'[t].step # "none"
  <2>1. ASSUME job'[t].step # "none" PROVE Places'
    <3>1. Running' = Running
      BY <1>2, <1>3, <2>1 DEF Running
    <3> QED
      BY <1>1, <1>2, <3>1 DEF Places, Unsubmitted, Ready
  <2>2. Unsubmitted' = Unsubmitted
    BY <1>1 DEF Unsubmitted
  <2> QED
    BY <1>1, <1>2, <1>3, <2>1, <2>2, OneTaskMoves
<1>6. ASSUME \A u \in Task : Grown(u), Tries(t)',
             job'[t].step \in {"check", "start", "exec", "lost"},
             job'[t].step = "lost" \/ job'[t].attempt > 1 => RowIn(t, ex.seg)'
      PROVE  /\ \A u \in Task \ {t} : Grown(u)
             /\ Bounded' /\ Booked(t)' /\ job'[t].step # "none"
  <2>1. Bounded'
    BY <1>1, <1>4, <1>5, <1>6, GrownBounded
  <2>2. ~SuccessIn(t, ex.seg)'
    BY <1>1, <1>2, <1>6, GrownSuccesses
  <2>3. job'[t].step = "lost" => ~Carries(t)'
    BY <1>1, <1>2, <1>6, <2>1, <2>2, LostHere
  <2>4. t \notin ex'.won \cup ex'.lost \cup Unsubmitted' /\ t \notin ex'.pending
    BY <1>1, <1>2 DEF Unsubmitted
  <2> QED
    BY <1>6, <2>1, <2>2, <2>3, <2>4 DEF Booked
<1>7. CASE JobLoad(t)
  <2> DEFINE k == [job[t] EXCEPT !.step = "check", !.seg = run.seg]
  <2>1. job' = [job EXCEPT ![t] = k] /\ rows' = rows /\ job[t].step = "queued"
    BY <1>1, <1>7 DEF JobLoad, TypeOK
  <2>2. k = Thread("check", job[t].attempt, run.seg, job[t].row)
    BY <1>1, <1>2, JobLoads DEF TypeOK, RunType
  <2> HIDE DEF k
  <2>3. job'[t].step = "check" /\ job'[t].attempt = job[t].attempt /\ job[t].attempt = 1
    BY <1>1, <2>1, <2>2 DEF Thread, Tries, TypeOK
  <2>4. Tries(t)' /\ ~(job'[t].attempt > 1)
    BY <1>1, <2>3 DEF Tries
  <2> QED
    BY <1>6, <2>1, <2>3, <2>4, SameGrown
<1>8. CASE JobCheck(t)
  <2>1. /\ job'[t].attempt = job[t].attempt /\ job'[t].step \in {"lost", "start"}
        /\ job'[t].step = "start" => rows' = rows
        /\ job'[t].step = "lost" =>
             rows' = IF job[t].attempt = 1 THEN Write(t, Row(job[t].seg, 1, "cancelled")) ELSE rows
    <3>1. /\ [job[t] EXCEPT !.step = "lost"] = Thread("lost", job[t].attempt, job[t].seg, job[t].row)
          /\ [job[t] EXCEPT !.step = "start"] = Thread("start", job[t].attempt, job[t].seg, job[t].row)
      BY <1>2, JobFields
    <3>2. CASE Stopped(job[t].seg)
      <4>1. job' = [job EXCEPT ![t] = [job[t] EXCEPT !.step = "lost"]]
        BY <1>1, <1>8, <3>2 DEF JobCheck, TypeOK
      <4>2. job'[t] = Thread("lost", job[t].attempt, job[t].seg, job[t].row)
        BY <1>1, <3>1, <4>1 DEF TypeOK
      <4> QED
        BY <1>8, <3>2, <4>2 DEF JobCheck, Thread
    <3>3. CASE ~Stopped(job[t].seg)
      <4>1. job' = [job EXCEPT ![t] = [job[t] EXCEPT !.step = "start"]]
        BY <1>1, <1>8, <3>3 DEF JobCheck, TypeOK
      <4>2. job'[t] = Thread("start", job[t].attempt, job[t].seg, job[t].row)
        BY <1>1, <3>1, <4>1 DEF TypeOK
      <4> QED
        BY <1>8, <3>3, <4>2 DEF JobCheck, Thread
    <3> QED
      BY <3>2, <3>3
  <2>2. Tries(t)' /\ job[t].seg = ex.seg
    BY <1>1, <1>8, <2>1 DEF Tries, JobCheck, Served, JobsServeTheirSegment, Busy
  <2>3. CASE job'[t].step = "lost" /\ job[t].attempt = 1
    <3> DEFINE row == Row(job[t].seg, 1, "cancelled")
    <3>1. /\ row \in RowType /\ row.status # "success" /\ row.seg = ex.seg
          /\ row.attempt <= Attempts[t]
      BY <1>1, <1>2, <2>2, GraphAssumption DEF Row, RowType, RowStatus
    <3> HIDE DEF row
    <3>2. rows' = Write(t, row) /\ rows[t] \in Seq(RowType)
      BY <1>1, <2>1, <2>3 DEF row, TypeOK
    <3>3. \A u \in Task : Grown(u)
      BY <1>1, <1>2, <1>5, <3>1, <3>2, AddedGrown
    <3>4. Len(rows[t]) + 1 \in DOMAIN rows'[t] /\ rows'[t][Len(rows[t]) + 1] = row
      BY <1>1, <3>1, <3>2 DEF Write, TypeOK
    <3>5. RowIn(t, ex.seg)'
      BY <1>1, <3>1, <3>4 DEF RowIn
    <3> QED
      BY <1>6, <2>1, <2>2, <3>3, <3>5
  <2>4. CASE ~(job'[t].step = "lost" /\ job[t].attempt = 1)
    <3>1. rows' = rows
      BY <2>1, <2>4
    <3>2. job[t].attempt > 1 => RowIn(t, ex.seg)'
      BY <1>1, <1>2, <3>1 DEF Booked, RowIn
    <3>3. job'[t].step = "lost" => job[t].attempt > 1
      BY <1>2, <2>4
    <3> QED
      BY <1>6, <2>1, <2>2, <3>1, <3>2, <3>3, SameGrown
  <2> QED
    BY <2>3, <2>4
<1>9. CASE JobStart(t)
  <2> DEFINE k == [job[t] EXCEPT !.step = "exec", !.row = Len(rows[t]) + 1]
             row == Row(job[t].seg, job[t].attempt, "running")
  <2>1. job[t].seg = ex.seg /\ rows[t] \in Seq(RowType) /\ Len(rows[t]) + 1 \in Nat
    BY <1>1, <1>9 DEF JobStart, Served, JobsServeTheirSegment, Busy, TypeOK
  <2>2. job' = [job EXCEPT ![t] = k] /\ rows' = Write(t, row)
    BY <1>1, <1>9 DEF JobStart, TypeOK
  <2>3. k = Thread("exec", job[t].attempt, job[t].seg, Len(rows[t]) + 1)
    BY <1>2, <2>1, JobStarts
  <2>4. /\ row \in RowType /\ row.status # "success" /\ row.seg = ex.seg
        /\ row.attempt <= Attempts[t]
    BY <1>1, <1>2, <2>1 DEF Row, RowType, RowStatus, Tries
  <2> HIDE DEF k, row
  <2>5. job'[t].step = "exec" /\ job'[t].attempt = job[t].attempt
    BY <1>1, <2>2, <2>3 DEF Thread, TypeOK
  <2>6. \A u \in Task : Grown(u)
    BY <1>1, <1>2, <1>5, <2>2, <2>4, AddedGrown
  <2>7. Len(rows[t]) + 1 \in DOMAIN rows'[t] /\ rows'[t][Len(rows[t]) + 1] = row
    BY <1>1, <2>1, <2>2, <2>4 DEF Write, TypeOK
  <2>8. RowIn(t, ex.seg)'
    BY <1>1, <2>4, <2>7 DEF RowIn
  <2>9. Tries(t)'
    BY <1>1, <2>5 DEF Tries
  <2> QED
    BY <1>6, <2>5, <2>6, <2>8, <2>9
<1>10. CASE JobEnd(t)
  <2> DEFINE i == job[t].row
  <2>1. PICK result \in {"success", "failed", "cancelled"} :
          /\ rows' = [rows EXCEPT ![t][job[t].row].status = result]
          /\ job' = [job EXCEPT ![t] =
               IF result = "success" THEN [@ EXCEPT !.step = "won"]
               ELSE IF result = "failed" /\ job[t].attempt < Attempts[t]
                    THEN [@ EXCEPT !.step = "check", !.attempt = job[t].attempt + 1]
               ELSE [@ EXCEPT !.step = "lost"]]
    BY <1>10 DEF JobEnd
  <2>2. /\ i \in DOMAIN rows[t] /\ result \in RowStatus /\ job[t].seg = ex.seg
        /\ rows[t][i].seg = ex.seg /\ rows \in RowTable
    BY <1>1, <1>10 DEF JobEnd, TypeOK, RowStatus, AtWork, Served, JobsServeTheirSegment, Busy, RowTable
  <2>3. /\ \A u \in Task : DOMAIN rows'[u] = DOMAIN rows[u]
        /\ \A u \in Task : \A j \in DOMAIN rows[u] : SameBut(u, j, u = t /\ j = i, result)
    <3>1. rows' = [rows EXCEPT ![t][i].status = result]
      BY <2>1
    <3> QED
      BY <2>2, <3>1, SetStatusStep
  <2>4. PICK k : /\ job' = [job EXCEPT ![t] = k]
                 /\ \/ result = "success" /\ k = Thread("won", job[t].attempt, job[t].seg, job[t].row)
                    \/ result # "success" /\ k = Thread("lost", job[t].attempt, job[t].seg, job[t].row)
                    \/ /\ result # "success" /\ job[t].attempt < Attempts[t]
                       /\ k = Thread("check", job[t].attempt + 1, job[t].seg, job[t].row)
    <3>1. job[t].attempt + 1 \in Nat \ {0}
      BY <1>2
    <3> QED
      BY <1>1, <1>2, <2>1, <3>1, JobFields, JobRetries
  <2>5. job'[t] = k
    BY <1>1, <2>4 DEF TypeOK
  <2>6. rows'[t][i].seg = ex.seg /\ rows'[t][i].status = result /\ i \in DOMAIN rows'[t]
    BY <2>2, <2>3 DEF SameBut
  <2> HIDE DEF i
  <2>7. RowIn(t, ex.seg)'
    BY <1>1, <2>6 DEF RowIn
  <2>8. CASE result = "success"
    <3>1. \A u \in Task \ {t} : Grown(u)
      BY <2>2, <2>3, SetGrownOthers
    <3>2. job'[t].step = "won" /\ job'[t].attempt = job[t].attempt
      BY <2>4, <2>5, <2>8 DEF Thread
    <3>3. SuccessIn(t, ex.seg)'
      BY <1>1, <2>6, <2>8 DEF SuccessIn, Successes
    <3>4. t \notin ex'.won \cup ex'.lost \cup Unsubmitted' /\ t \notin ex'.pending
      BY <1>1, <1>2 DEF Unsubmitted
    <3>5. Booked(t)'
      BY <2>7, <3>2, <3>3, <3>4 DEF Booked
    <3>6. Bounded'
      <4>1. Tries(t)'
        BY <1>1, <3>2 DEF Tries
      <4>2. ASSUME NEW u \in Task, NEW j \in DOMAIN rows'[u]
            PROVE  rows'[u][j].seg <= run'.seg /\ rows'[u][j].attempt <= Attempts[u]
        BY <1>1, <2>3 DEF Bounded, SameBut
      <4> QED
        BY <1>4, <4>1, <4>2 DEF Bounded
    <3> QED
      BY <3>1, <3>2, <3>5, <3>6
  <2>9. CASE result # "success"
    <3>1. rows[t][i].status # "success"
      BY <1>2, <2>2 DEF SuccessIn, Successes
    <3>2. \A u \in Task : Grown(u)
      BY <2>2, <2>3, <2>9, <3>1, SetGrown
    <3>3. job'[t].step \in {"lost", "check"}
      BY <2>4, <2>5, <2>9 DEF Thread
    <3>4. Tries(t)'
      BY <1>1, <1>2, <1>5, <2>4, <2>5, <2>9 DEF Tries, Thread
    <3> QED
      BY <1>6, <2>7, <3>2, <3>3, <3>4
  <2> QED
    BY <2>8, <2>9
<1> QED
  BY <1>7, <1>8, <1>9, <1>10 DEF JobNext

-----------------------------------------------------------------------------
(* The executor leaves the run.                                            *)

\* What is won is current.
LEMMA WonIsCurrent ==
  ASSUME IInv, BookInv, ex.step # "off", NEW t \in ex.won, NEW d \in Deps[t]
  PROVE  Successes(t) # {} /\ Current(d, t)
<1>1. t \in Task /\ d \in Task /\ TypeOK /\ Bounded /\ Booked(t) /\ run.seg = ex.seg
  BY AtWorkRuns, GraphAssumption DEF IInv, TypeOK, ExType, BookInv
<1> QED
  BY <1>1, HereIsCurrent DEF Booked

\* Once nothing is ready or at work, nothing that is left over could be reused:
\* of the tasks left that could, one would wait for no other of them, hence for
\* a gate, which is not a success.
LEMMA AtRest ==
  ASSUME IInv, BookInv, ex.step \in {"final", "waiting_approval", "queued"}
  PROVE  ReuseIsCurrent
<1>1. /\ TypeOK /\ Bounded /\ Places /\ \A t \in Task : Booked(t)
      /\ run.seg = ex.seg /\ ex.step # "off" /\ Ready = {} /\ ex.ready = {}
      /\ \A t \in Task : job[t].step = "none"
  BY AtWorkRuns DEF IInv, BookInv, Places, Served
<1>2. Task \subseteq ex.won \cup ex.lost \cup ex.left \cup ex.pending
  BY <1>1 DEF Places, Unsubmitted, Running
<1>3. ASSUME NEW t \in Task, t \in ex.pending \/ t \in ex.lost PROVE ~Carries(t)
  BY <1>1, <1>3, CarriesFromHere DEF Booked, Unsubmitted
<1>4. ex.left \cap Satisfied = {}
  <2> DEFINE S == ex.left \cap Satisfied
  <2>1. SUFFICES ASSUME S # {} PROVE FALSE
    OBVIOUS
  <2>2. S \in SUBSET Task
    BY SatisfiedCarries
  <2>3. PICK t \in S : Deps[t] \cap S = {}
    BY <2>1, <2>2, AcyclicAssumption
  <2>4. t \in Task /\ t \in ex.left /\ Deps[t] \subseteq Satisfied
    BY SatisfiedCarries
  <2>5. PICK d \in Deps[t] : d \notin ex.won \cup ex.lost
    BY <1>1, <2>4 DEF Ready
  <2>6. d \in Task /\ d \in Satisfied /\ Carries(d)
    BY <2>4, SatisfiedCarries
  <2>7. d \notin ex.left
    BY <2>3, <2>6
  <2>8. d \in ex.pending
    BY <1>2, <2>5, <2>6, <2>7
  <2> QED
    BY <1>3, <2>6, <2>8
<1>5. ASSUME NEW t \in Satisfied, NEW d \in Deps[t] PROVE Current(d, t)
  <2>1. t \in Task /\ Carries(t)
    BY SatisfiedCarries
  <2>2. t \in ex.won
    BY <1>2, <1>3, <1>4, <2>1
  <2> QED
    BY <1>1, <2>2, WonIsCurrent
<1> QED
  BY <1>5 DEF ReuseIsCurrent

LEMMA ParkBooks ==
  ASSUME IInv, TypeOK', BookInv, ParkUpdate \/ ParkCommit
  PROVE  BookInv'
<1>1. TypeOK /\ Bounded /\ run.seg = ex.seg /\ ex.step # "off" /\ run.status # "success"
  BY AtWorkRuns DEF IInv, BookInv, ParkUpdate, ParkCommit, Parking
<1>2. rows' = rows /\ job' = job /\ cut' = cut /\ \A t \in Task : Grown(t)
  BY SameGrown DEF ParkUpdate, ParkCommit
<1>3. CASE ParkUpdate
  <2>1. /\ run' = run /\ ex.step = "final" /\ ex'.step \in {"waiting_approval", "queued"}
        /\ ex'.seg = ex.seg /\ ex'.won = ex.won /\ ex'.lost = ex.lost /\ ex'.left = ex.left
        /\ ex'.ready = ex.ready /\ ex'.pending = ex.pending
    BY <1>1, <1>3 DEF ParkUpdate, TypeOK, ExType
  <2>2. Running' = Running /\ Unsubmitted' = Unsubmitted /\ Ready' = Ready
    BY <1>2, <2>1 DEF Running, Unsubmitted, Ready
  <2>3. Places /\ ex.won \subseteq Task /\ \A t \in Task : Booked(t)
    BY <1>1 DEF BookInv, TypeOK, ExType
  <2>4. Places'
    BY <2>1, <2>2, <2>3 DEF Places
  <2>5. \A t \in Task : Booked(t)'
    BY <1>2, <2>1, <2>2, <2>3, BookedKept
  <2>6. Bounded' /\ CurrentUnlessCut'
    BY <1>1, <1>2, <2>1 DEF Bounded, Tries, CurrentUnlessCut
  <2> QED
    BY <2>1, <2>4, <2>5, <2>6 DEF BookInv
<1>4. CASE ParkCommit
  <2>1. /\ run'.seg = run.seg /\ run'.status \in {"waiting_approval", "queued"}
        /\ ex'.step = "off" /\ ex.step \in {"waiting_approval", "queued"}
    BY <1>1, <1>4 DEF ParkCommit, Parking, Off, TypeOK, RunType
  <2>2. ReuseIsCurrent'
    BY <1>2, <2>1, AtRest, GrownReuse
  <2>3. Bounded' /\ CurrentUnlessCut'
    BY <1>1, <1>2, <2>1 DEF Bounded, Tries, CurrentUnlessCut
  <2> QED
    BY <2>1, <2>2, <2>3 DEF BookInv
<1> QED
  BY <1>3, <1>4

LEMMA FinishBooks ==
  ASSUME IInv, TypeOK', BookInv, Finish
  PROVE  BookInv'
<1>1. /\ TypeOK /\ Bounded /\ run.seg = ex.seg /\ ex.step = "final" /\ run.status # "success"
      /\ \A t \in Task : job[t].step = "none"
  BY AtWorkRuns DEF IInv, BookInv, Finish, Served
<1>2. /\ job' = job /\ cut' = cut /\ ex'.step = "off" /\ run'.seg = run.seg
      /\ rows' = Settle(rows, "awaiting_approval", "cancelled")
      /\ run'.status = "success" => run.status = "running" /\ Outcome = "success"
  <2> DEFINE r == [run EXCEPT !.status = IF @ = "running" THEN Outcome ELSE @]
  <2>1. /\ job' = job /\ cut' = cut /\ ex' = Off
        /\ rows' = Settle(rows, "awaiting_approval", "cancelled")
        /\ run' = [r EXCEPT !.finished = TRUE]
    BY <1>1 DEF Finish
  <2>2. r \in [status : {run.status, Outcome}, seg : Segment, finished : BOOLEAN]
        /\ r.seg = run.seg /\ r.status = IF run.status = "running" THEN Outcome ELSE run.status
    BY <1>1 DEF TypeOK, RunType
  <2> HIDE DEF r
  <2>3. run'.seg = r.seg /\ run'.status = r.status
    BY <2>1, <2>2
  <2> QED
    BY <1>1, <2>1, <2>2, <2>3 DEF Off
<1>3. \A t \in Task : Grown(t)
  BY <1>1, <1>2, SettledGrown
<1>4. ReuseIsCurrent'
  BY <1>1, <1>2, <1>3, AtRest, GrownReuse
<1>5. Bounded'
  <2>1. \A t \in Task : Tries(t)'
    BY <1>1, <1>2 DEF Bounded, Tries
  <2>2. run.seg <= run'.seg
    BY <1>1, <1>2, GraphAssumption DEF TypeOK, RunType, Segment
  <2> QED
    BY <1>1, <1>3, <2>1, <2>2, GrownBounded
<1>6. CurrentUnlessCut'
  <2> SUFFICES ASSUME run'.status = "success"
               PROVE  \A t \in Task :
                        /\ Successes(t)' # {}
                        /\ \A d \in Deps[t] : (NoneLater(d, t) \/ CutSince(t))'
    BY DEF CurrentUnlessCut
  <2>1. run.status = "running" /\ ex.lost = {} /\ ex.pending = {}
    BY <1>1, <1>2 DEF Outcome, Finish
  <2>2. Task \subseteq ex.won
    BY <1>1, <2>1 DEF BookInv, Places, Unsubmitted, Running
  <2>3. ASSUME NEW t \in Task
        PROVE  Successes(t)' # {} /\ \A d \in Deps[t] : Current(d, t)'
    <3>1. Successes(t)' # {}
      BY <1>1, <1>3, <2>2, GrownSuccesses DEF BookInv, Booked
    <3>2. ASSUME NEW d \in Deps[t] PROVE Current(d, t)'
      <4>1. d \in Task /\ Current(d, t)
        BY <1>1, <2>2, WonIsCurrent, GraphAssumption
      <4> QED
        BY <1>2, <1>3, <4>1, GrownCurrent
    <3> QED
      BY <3>1, <3>2
  <2> QED
    BY <2>3 DEF Current
<1> QED
  BY <1>2, <1>4, <1>5, <1>6 DEF BookInv

\* A task that could be reused has succeeded in the lost worker's segment, and is
\* as late as any, or the worker was lost since it did.
LEMMA LossBooks ==
  ASSUME IInv, TypeOK', BookInv, LoseWorker, Survives \subseteq {FALSE}
  PROVE  BookInv'
<1>1. /\ TypeOK /\ Bounded /\ rows' = rows /\ run' = run /\ ex'.step = "off"
      /\ cut' = IF ex.step = "off" THEN cut ELSE ex.seg
      /\ \A t \in Task : job'[t] = NoJob
  <2>1. /\ rows' = rows /\ run' = run /\ ex' = Off /\ job' = [t \in Task |-> NoJob]
        /\ cut' = IF ex.step = "off" THEN cut ELSE ex.seg
    <3>1. \A survives \in Survives : ~survives
      OBVIOUS
    <3> QED
      BY <3>1 DEF LoseWorker
  <2> QED
    BY <2>1 DEF IInv, BookInv, Off
<1>2. Bounded'
  BY <1>1, GraphAssumption DEF Bounded, Tries, NoJob
<1>3. CASE ex.step = "off"
  <2>1. cut' = cut
    BY <1>1, <1>3
  <2>2. ReuseIsCurrent' /\ CurrentUnlessCut'
    BY <1>1, <1>3, <2>1, SameGrown, GrownReuse, GrownSuccess DEF BookInv
  <2> QED
    BY <1>1, <1>2, <2>2 DEF BookInv
<1>4. CASE ex.step # "off"
  <2>1. run.seg = ex.seg /\ run.status # "success" /\ cut' = ex.seg
    BY <1>1, <1>4, AtWorkRuns
  <2>2. ASSUME NEW t \in Task, NEW d \in Task PROVE Current(d, t)'
    <3>1. CASE SuccessIn(t, run.seg)
      <4>1. NoneLater(d, t)
        BY <1>1, <3>1 DEF SuccessIn, Bounded, NoneLater, Successes
      <4>2. NoneLater(d, t)'
        BY <1>1, <4>1 DEF NoneLater, Successes
      <4> QED
        BY <4>2 DEF Current
    <3>2. CASE ~SuccessIn(t, run.seg)
      <4>1. ASSUME NEW j \in Successes(t) PROVE rows[t][j].seg < run.seg
        <5>1. /\ j \in DOMAIN rows[t] /\ rows[t][j].seg \in Nat /\ run.seg \in Nat
              /\ rows[t][j].seg <= run.seg /\ rows[t][j].seg # run.seg
          BY <1>1, <3>2, RowFields, GraphAssumption
          DEF Successes, SuccessIn, Bounded, TypeOK, RunType, Segment
        <5> QED
          BY <5>1
      <4>2. CutSince(t)'
        BY <1>1, <2>1, <4>1 DEF CutSince, Successes
      <4> QED
        BY <4>2 DEF Current
    <3> QED
      BY <3>1, <3>2
  <2>3. Satisfied' \subseteq Task
    BY DEF Satisfied
  <2>4. ReuseIsCurrent'
    BY <2>2, <2>3, GraphAssumption DEF ReuseIsCurrent
  <2>5. CurrentUnlessCut'
    BY <1>1, <2>1 DEF CurrentUnlessCut
  <2> QED
    BY <1>1, <1>2, <2>4, <2>5 DEF BookInv
<1> QED
  BY <1>3, <1>4

-----------------------------------------------------------------------------
(* Requests and recovery.                                                  *)

LEMMA RequestBooks ==
  ASSUME IInv, TypeOK', BookInv,
         \/ CancelRun
         \/ \E forced \in SUBSET Forcible : ResumeRun(forced)
         \/ \E t \in Task : DecisionNext(t)
         \/ Recover
  PROVE  BookInv'
<1>1. TypeOK /\ GateRows /\ Served /\ run.seg \in Nat
  BY GraphAssumption DEF IInv, TypeOK, RunType, Segment
<1>2. job' = job /\ ex' = ex /\ cut' = cut
  BY DEF CancelRun, ResumeRun, DecisionNext, DecideGate, CountGates, Requeue, Recover
<1> SUFFICES /\ \A t \in Task : Grown(t)
             /\ run.seg <= run'.seg
             /\ run'.status = "success" => run.status = "success"
  BY <1>1, <1>2, NobodyMoves
<1>3. CASE CancelRun
  <2>1. run'.seg = run.seg /\ run'.status = "cancelled"
    BY <1>1, <1>3 DEF CancelRun, TypeOK, RunType
  <2> QED
    BY <1>1, <1>3, <2>1, SettledGrown DEF CancelRun
<1>4. ASSUME NEW forced \in SUBSET Forcible, ResumeRun(forced)
      PROVE  /\ \A t \in Task : Grown(t)
             /\ run.seg <= run'.seg
             /\ run'.status = "success" => run.status = "success"
  <2>1. run'.seg = run.seg + 1 /\ run'.status = "queued"
    BY <1>4 DEF ResumeRun
  <2> QED
    BY <1>1, <1>4, <2>1, MarkedGrown
<1>5. ASSUME NEW t \in Task, DecisionNext(t)
      PROVE  /\ \A u \in Task : Grown(u)
             /\ run.seg <= run'.seg
             /\ run'.status = "success" => run.status = "success"
  <2>1. CASE DecideGate(t)
    <3>1. PICK i \in DOMAIN rows[t], answer \in {"approved", "rejected"} :
            /\ rows[t][i].status = "awaiting_approval"
            /\ rows' = [rows EXCEPT ![t][i].status = answer]
      BY <2>1 DEF DecideGate
    <3>2. rows \in RowTable /\ i \in DOMAIN rows[t] /\ answer \in RowStatus
      BY <1>1, <3>1 DEF TypeOK, RowTable, RowStatus, GateStatus
    <3>3. /\ \A u \in Task : DOMAIN rows'[u] = DOMAIN rows[u]
          /\ \A u \in Task : \A j \in DOMAIN rows[u] : SameBut(u, j, u = t /\ j = i, answer)
      <4>1. rows' = [rows EXCEPT ![t][i].status = answer]
        BY <3>1
      <4> QED
        BY <3>2, <4>1, SetStatusStep
    <3>4. \A u \in Task : Grown(u)
      BY <3>1, <3>2, <3>3, SetGrown
    <3> QED
      BY <1>1, <2>1, <3>4 DEF DecideGate
  <2>2. CASE CountGates(t)
    BY <1>1, <2>2, SameGrown DEF CountGates
  <2>3. CASE Requeue(t)
    <3>1. run'.seg = run.seg /\ (run'.status = "success" => run.status = "success")
      BY <1>1, <2>3 DEF Requeue, TypeOK, RunType
    <3> QED
      BY <1>1, <2>3, <3>1, SameGrown DEF Requeue
  <2> QED
    BY <1>5, <2>1, <2>2, <2>3 DEF DecisionNext
<1>6. CASE Recover
  <2>1. run'.seg = run.seg /\ (run'.status = "success" => run.status = "success")
    BY <1>1, <1>6 DEF Recover, TypeOK, RunType
  <2>2. \A t \in Task : Grown(t)
    BY <1>1, <1>6, SameGrown, SettledGrown DEF Recover
  <2> QED
    BY <1>1, <2>1, <2>2
<1> QED
  BY <1>3, <1>4, <1>5, <1>6

-----------------------------------------------------------------------------
LEMMA InitBooks == Init => BookInv
<1> SUFFICES ASSUME Init PROVE BookInv
  OBVIOUS
<1>1. Bounded
  BY GraphAssumption DEF Init, Bounded, Tries, NoJob
<1>2. ReuseIsCurrent
  <2>1. \A t \in Task : DOMAIN rows[t] = {}
    BY DEF Init
  <2> QED
    BY <2>1, SatisfiedCarries DEF ReuseIsCurrent, Carries, LastIn
<1>3. CurrentUnlessCut /\ ex.step = "off"
  BY DEF Init, CurrentUnlessCut, Off
<1> QED
  BY <1>1, <1>2, <1>3 DEF BookInv

LEMMA StepBooks ==
  ASSUME Survives \subseteq {FALSE}, IInv, BookInv, [Next]_vars
  PROVE  BookInv'
<1>1. TypeOK /\ TypeOK'
  BY StepTypes DEF IInv
<1>2. CASE UNCHANGED vars
  <2>1. /\ rows' = rows /\ ex' = ex /\ job' = job /\ cut' = cut /\ run' = run
        /\ run.seg <= run'.seg
    BY <1>1, <1>2, GraphAssumption DEF vars, TypeOK, RunType, Segment
  <2> QED
    BY <1>1, <2>1, SameGrown, NobodyMoves
<1>3. CASE Next
  BY <1>1, <1>3, ClaimBooks, PollBooks, CollectBooks, ParkBooks, FinishBooks, DispatchBooks,
     ThreadBooks, RequestBooks, LossBooks DEF Next
<1> QED
  BY <1>2, <1>3

\* For every task graph without cycles, however often a run is parked, cancelled,
\* lost and resumed, and whatever a resume is asked to run again: a run that
\* succeeds has no task whose success is older than one of its upstream's, save
\* one that a worker was lost since (service.py:_walk and Claim's reuse).
THEOREM SuccessesAreCurrent ==
  ASSUME Survives \subseteq {FALSE}
  PROVE  Spec => []CurrentUnlessCut
<1>1. IInv /\ BookInv /\ [Next]_vars => BookInv'
  BY StepBooks
<1>2. BookInv => CurrentUnlessCut
  BY DEF BookInv
<1> QED
  BY <1>1, <1>2, InitBooks, AlwaysSafe, PTL DEF Spec

-----------------------------------------------------------------------------
(* How the run page draws a run.                                          *)

(* The inductive invariant.  An attempt's row is written only when all      *)
(* attempts of its task in the segment are behind it, and a row runs only   *)
(* while its run is at large: executed, or left by a lost worker and not    *)
(* yet recovered.                                                          *)

AtLarge == run.status = "running" \/ (run.status = "cancelled" /\ ~run.finished)

\* Row i runs, as the last of its task.
RunsLast(t, i) ==
  /\ rows[t][i].seg = run.seg
  /\ \A j \in DOMAIN rows[t] : j # i => Before(t, j, i)
  /\ AtLarge
  /\ ex.step # "off" => job[t].step = "exec" /\ job[t].row = i

\* Row i is an attempt of the segment at work: it is behind the thread.
BehindThread(t, i) ==
  /\ t \notin Unsubmitted /\ job[t].step # "queued"
  /\ job[t].step \in {"check", "start"} => rows[t][i].attempt < job[t].attempt
  /\ job[t].step = "exec" => i = job[t].row \/ rows[t][i].attempt < job[t].attempt

Lane(t) ==
  /\ \A i \in DOMAIN rows[t] :
       rows[t][i].attempt = 0 => rows[t][i].status \in GateStatus \cup {"cancelled"}
  /\ \A i, j \in DOMAIN rows[t] :
       (rows[t][i].attempt > 0 /\ rows[t][i].seg = rows[t][j].seg
          /\ rows[t][i].attempt = rows[t][j].attempt) => i = j
  /\ \A i \in DOMAIN rows[t] : rows[t][i].status = "running" => RunsLast(t, i)
  /\ ex.step # "off" =>
       \A i \in DOMAIN rows[t] :
         (rows[t][i].attempt > 0 /\ rows[t][i].seg = ex.seg) => BehindThread(t, i)
  /\ job[t].step = "exec" => rows[t][job[t].row].attempt = job[t].attempt

LaneInv == \A t \in Task : Lane(t)

\* Rows are added to the run's segment, and it only grows.
Stacked ==
  \A t \in Task : \A i, j \in DOMAIN rows[t] : i < j => rows[t][i].seg <= rows[t][j].seg

\* Any rows of a task have a last one.
LEMMA LatestOf ==
  ASSUME TypeOK, Bounded, NEW t \in Task, NEW S \in SUBSET DOMAIN rows[t], S # {}
  PROVE  \E i \in S : \A j \in S : j # i => Before(t, j, i)
<1> DEFINE A == {run.seg - rows[t][i].seg : i \in S}
<1>1. /\ run.seg \in Nat
      /\ \A i \in S : rows[t][i].seg \in Nat /\ rows[t][i].seg <= run.seg
  BY RowFields, GraphAssumption DEF TypeOK, RunType, Segment, Bounded
<1>2. A \subseteq Nat /\ A # {}
  BY <1>1
<1>3. PICK a \in A : \A n \in A : ~(n < a)
  BY <1>2, LeastNatural
<1>4. PICK k \in S : run.seg - rows[t][k].seg = a
  BY <1>3
<1>5. \A j \in S : rows[t][j].seg <= rows[t][k].seg
  <2>1. ASSUME NEW j \in S PROVE rows[t][j].seg <= rows[t][k].seg
    <3>1. ~(run.seg - rows[t][j].seg < run.seg - rows[t][k].seg)
      BY <1>3, <1>4
    <3> QED
      BY <1>1, <3>1
  <2> QED
    BY <2>1
<1> DEFINE T == {j \in S : rows[t][j].seg = rows[t][k].seg}
<1>6. T \in SUBSET DOMAIN rows[t] /\ T # {}
  BY <1>4
<1>7. PICK i \in T : \A j \in T : j # i => Before(t, j, i)
  BY <1>6, NewestOf
<1>8. ASSUME NEW j \in S, j # i PROVE Before(t, j, i)
  <2>1. CASE j \in T
    BY <1>7, <1>8, <2>1
  <2>2. CASE j \notin T
    BY <1>1, <1>5, <1>7, <2>2 DEF Before
  <2> QED
    BY <2>1, <2>2
<1> QED
  BY <1>7, <1>8

\* What the pages draw follows from them.
LEMMA LaneShows ==
  ASSUME IInv, BookInv, LaneInv, Stacked
  PROVE  SurfacesAgree
<1>1. TypeOK /\ GateRows /\ Bounded /\ Stacked
  BY DEF IInv, BookInv
<1>2. ASSUME NEW t \in Task, NEW i \in DOMAIN rows[t], NEW j \in DOMAIN rows[t],
             Before(t, i, j), Before(t, j, i)
      PROVE  FALSE
  <2>1. /\ rows[t][i].seg \in Nat /\ rows[t][j].seg \in Nat
        /\ rows[t][i].attempt \in Nat /\ rows[t][j].attempt \in Nat
        /\ i \in Nat /\ j \in Nat
    BY <1>1, RowFields
  <2> QED
    BY <1>2, <2>1 DEF Before
<1>3. \A t, i, j : ByAttempt(t, i, j) <=> Before(t, i, j)
  BY DEF ByAttempt, Before
\* The last of some rows is the one that the others come before.
<1>4. ASSUME NEW t \in Task, NEW S \in SUBSET DOMAIN rows[t], NEW i \in S,
             \A j \in S : j # i => Before(t, j, i)
      PROVE  LastOf(t, S) = i
  <2>1. \A j \in S \ {i} : ByAttempt(t, j, i)
    BY <1>3, <1>4
  <2>2. ASSUME NEW k \in S, \A j \in S \ {k} : ByAttempt(t, j, k) PROVE k = i
    BY <1>2, <1>3, <1>4, <2>2
  <2> QED
    BY <2>1, <2>2 DEF LastOf
<1>5. ASSUME NEW t \in Task, NEW i \in DOMAIN rows[t], rows[t][i].attempt > 0
      PROVE  i \in AttemptsOf(t)
  BY <1>1, <1>5 DEF GateRows, AttemptsOf, IsGateRow, GATE_STATUSES, GateStatus
<1>6. ASSUME NEW t \in Task PROVE \A w \in Waits(t) : ~IsLive(t, w[1])
  <2> SUFFICES ASSUME NEW w \in Waits(t), IsLive(t, w[1]) PROVE FALSE
    OBVIOUS
  <2>1. /\ w[1] \in DOMAIN rows[t] /\ w[2] \in DOMAIN rows[t] /\ Before(t, w[1], w[2])
    BY <1>3 DEF Waits, Executions, AttemptsOf
  <2>2. RunsLast(t, w[1])
    BY <2>1 DEF LaneInv, Lane, IsLive
  <2>3. w[2] # w[1] => Before(t, w[2], w[1])
    BY <2>1, <2>2 DEF RunsLast
  <2> QED
    BY <1>2, <2>1, <2>3
<1>8. ASSUME NEW t \in Task
      PROVE  \A b, c \in Bars(t) : b.name # <<>> /\ b.name = c.name => b = c
  <2> DEFINE name(i) == IF i \in Executions(t) /\ Cardinality(Executions(t)) > 1
                        THEN Label(t, i) ELSE <<>>
             bar(i) == [row |-> i, gate |-> i \in GatesOf(t), live |-> IsLive(t, i),
                        name |-> name(i)]
  <2>1. Bars(t) = {bar(i) : i \in Executions(t) \cup GatesOf(t)}
    BY DEF Bars
  <2>2. \A i : bar(i).name = name(i)
    OBVIOUS
  <2>3. ASSUME NEW i, NEW j, name(i) # <<>>, name(i) = name(j) PROVE i = j
    <3>1. i \in Executions(t) /\ j \in Executions(t) /\ Label(t, i) = Label(t, j)
      BY <2>3
    <3>2. /\ i \in DOMAIN rows[t] /\ rows[t][i].status \notin GateStatus \cup {"cancelled"}
          /\ j \in DOMAIN rows[t] /\ rows[t][j].status \notin GateStatus \cup {"cancelled"}
      BY <3>1 DEF Executions, AttemptsOf, GateStatus
    <3>3. /\ rows[t][i].seg \in Nat /\ rows[t][j].seg \in Nat
          /\ rows[t][i].attempt \in Nat /\ rows[t][j].attempt \in Nat
          /\ rows[t][i].attempt # 0
      BY <1>1, <3>2, RowFields DEF LaneInv, Lane
    <3> DEFINE p == rows[t][i]
               q == rows[t][j]
    <3>4. p.seg = q.seg /\ p.attempt = q.attempt
      <4>1. CASE p.seg > 0 /\ q.seg > 0
        BY <3>1, <4>1 DEF Label
      <4>2. CASE ~(p.seg > 0) /\ ~(q.seg > 0)
        BY <3>1, <3>3, <4>2 DEF Label
      <4>3. CASE p.seg > 0 /\ ~(q.seg > 0)
        <5>1. <<"resume", p.seg, p.attempt>> = <<"attempt", q.attempt>>
          BY <3>1, <4>3 DEF Label
        <5>2. <<"resume", p.seg, p.attempt>>[1] = <<"attempt", q.attempt>>[1]
          BY <5>1
        <5> QED
          BY <5>2
      <4>4. CASE ~(p.seg > 0) /\ q.seg > 0
        <5>1. <<"attempt", p.attempt>> = <<"resume", q.seg, q.attempt>>
          BY <3>1, <4>4 DEF Label
        <5>2. <<"attempt", p.attempt>>[1] = <<"resume", q.seg, q.attempt>>[1]
          BY <5>1
        <5> QED
          BY <5>2
      <4> QED
        BY <4>1, <4>2, <4>3, <4>4
    <3> QED
      BY <3>2, <3>3, <3>4 DEF LaneInv, Lane
  <2> HIDE DEF name
  <2> QED
    BY <2>1, <2>2, <2>3
<1>9. ASSUME NEW t \in Task, Shown(t), FinalOf(t).attempt > 0, ~Relapsed(t)
      PROVE  GraphStatus(t) = FinalOf(t).status
  <2> DEFINE S == CardRows(t)
  <2>1. S \subseteq DOMAIN rows[t] /\ S # {}
    <3>1. DOMAIN rows[t] # {}
      <4>1. Len(rows[t]) > 0 /\ rows[t] \in Seq(RowType)
        BY <1>1, <1>9 DEF Shown, TypeOK
      <4> HIDE DEF S
      <4>2. 1 \in DOMAIN rows[t]
        BY <4>1
      <4> QED
        BY <4>2, Zenon
    <3> QED
      BY <3>1 DEF CardRows, AttemptsOf, GatesOf
  <2>2. PICK f \in S : \A j \in S : j # f => Before(t, j, f)
    BY <1>1, <2>1, LatestOf
  <2>3. LastOf(t, S) = f
    BY <1>4, <2>1, <2>2
  <2>4. FinalOf(t) = rows[t][f] /\ f \in DOMAIN rows[t] /\ rows[t][f].attempt > 0
    BY <1>9, <2>1, <2>3 DEF FinalOf
  <2>5. S = AttemptsOf(t)
    BY <1>5, <2>2, <2>4 DEF CardRows
  <2> HIDE DEF S
  <2> DEFINE isLast(i) == \A j \in DOMAIN rows[t] \ {i} :
                            \/ rows[t][j].attempt < rows[t][i].attempt
                            \/ rows[t][j].attempt = rows[t][i].attempt /\ j < i
  <2>6. ASSUME NEW j \in DOMAIN rows[t] \ {f}
        PROVE  \/ rows[t][j].attempt < rows[t][f].attempt
               \/ rows[t][j].attempt = rows[t][f].attempt /\ j < f
    <3>1. /\ rows[t][j].seg \in Nat /\ rows[t][j].attempt \in Nat /\ j \in Nat
          /\ rows[t][f].seg \in Nat /\ rows[t][f].attempt \in Nat /\ f \in Nat
      BY <1>1, <2>4, RowFields
    <3>2. CASE j \notin S
      <4>1. rows[t][j].attempt = 0
        BY <1>1, <2>5, <3>2 DEF AttemptsOf, IsGateRow, GATE_STATUSES, GateRows, GateStatus
      <4> QED
        BY <2>4, <3>1, <4>1
    <3>3. CASE j \in S
      <4>1. Before(t, j, f)
        BY <2>2, <3>3
      <4>2. rows[t][j].seg < rows[t][f].seg => ~(rows[t][j].attempt > rows[t][f].attempt)
        BY <1>9, <2>4 DEF Relapsed
      <4>3. f < j => rows[t][f].seg <= rows[t][j].seg
        BY <1>1, <2>4 DEF Stacked
      <4> QED
        BY <3>1, <4>1, <4>2, <4>3 DEF Before
    <3> QED
      BY <3>2, <3>3
  <2>7. isLast(f)
    BY <2>6
  <2>8. ASSUME NEW i \in DOMAIN rows[t], isLast(i) PROVE i = f
    <3>1. /\ rows[t][i].attempt \in Nat /\ i \in Nat
          /\ rows[t][f].attempt \in Nat /\ f \in Nat
      BY <1>1, <2>4, RowFields
    <3>2. i # f => \/ rows[t][f].attempt < rows[t][i].attempt
                   \/ rows[t][f].attempt = rows[t][i].attempt /\ f < i
      BY <2>4, <2>8
    <3>3. i # f => \/ rows[t][i].attempt < rows[t][f].attempt
                   \/ rows[t][i].attempt = rows[t][f].attempt /\ i < f
      BY <2>6
    <3> QED
      BY <3>1, <3>2, <3>3
  <2>9. GraphStatus(t) = rows[t][CHOOSE i \in DOMAIN rows[t] : isLast(i)].status
    BY <1>9 DEF GraphStatus
  <2>10. (CHOOSE i \in DOMAIN rows[t] : isLast(i)) = f
    BY <2>4, <2>7, <2>8
  <2> QED
    BY <2>4, <2>9, <2>10
<1> QED
  BY <1>6, <1>8, <1>9 DEF SurfacesAgree

-----------------------------------------------------------------------------
(* What steps do to a lane.                                                *)

\* Its rows stay, none starts to run, and none turns into an attempt.
Tame(t) ==
  /\ DOMAIN rows'[t] = DOMAIN rows[t]
  /\ \A i \in DOMAIN rows[t] :
       /\ rows'[t][i].seg = rows[t][i].seg
       /\ rows'[t][i].attempt = rows[t][i].attempt
       /\ rows'[t][i].status = "running" => rows[t][i].status = "running"
       /\ rows[t][i].attempt = 0 => rows'[t][i].status \in GateStatus \cup {"cancelled"}

LEMMA SameTame ==
  ASSUME NEW t \in Task, Lane(t), rows'[t] = rows[t]
  PROVE  Tame(t)
BY DEF Tame, Lane

LEMMA SettledTame ==
  ASSUME TypeOK, LaneInv,
         \/ rows' = Settle(rows, "awaiting_approval", "cancelled")
         \/ rows' = Settle(Settle(rows, "running", "failed"), "awaiting_approval", "cancelled")
  PROVE  \A t \in Task : Tame(t)
<1>1. rows \in RowTable /\ "cancelled" \in RowStatus /\ "failed" \in RowStatus
  BY DEF TypeOK, RowTable, RowStatus
<1> DEFINE first == Settle(rows, "running", "failed")
<1>2. first \in RowTable /\ \A u \in Task : DOMAIN first[u] = DOMAIN rows[u]
  BY <1>1, SettleTable
<1>3. \A u \in Task : DOMAIN rows'[u] = DOMAIN rows[u]
  BY SettledTypes
<1>4. ASSUME NEW u \in Task, NEW i \in DOMAIN rows[u]
      PROVE  /\ rows'[u][i].seg = rows[u][i].seg
             /\ rows'[u][i].attempt = rows[u][i].attempt
             /\ \/ rows'[u][i].status = rows[u][i].status
                \/ rows'[u][i].status = "cancelled"
                \/ rows[u][i].status = "running" /\ rows'[u][i].status = "failed"
  <2>1. CASE rows' = Settle(rows, "awaiting_approval", "cancelled")
    <3>1. /\ rows'[u][i].seg = rows[u][i].seg
          /\ rows'[u][i].attempt = rows[u][i].attempt
          /\ rows'[u][i].status =
               IF rows[u][i].status = "awaiting_approval" THEN "cancelled" ELSE rows[u][i].status
      BY <1>1, <2>1, SettleRow
    <3> QED
      BY <3>1
  <2>2. CASE rows' = Settle(first, "awaiting_approval", "cancelled")
    <3>1. /\ i \in DOMAIN first[u]
          /\ first[u][i].seg = rows[u][i].seg /\ first[u][i].attempt = rows[u][i].attempt
          /\ first[u][i].status =
               IF rows[u][i].status = "running" THEN "failed" ELSE rows[u][i].status
      BY <1>1, SettleRow
    <3> HIDE DEF first
    <3>2. /\ rows'[u][i].seg = first[u][i].seg /\ rows'[u][i].attempt = first[u][i].attempt
          /\ rows'[u][i].status =
               IF first[u][i].status = "awaiting_approval" THEN "cancelled" ELSE first[u][i].status
      BY <1>1, <1>2, <2>2, <3>1, SettleRow
    <3> QED
      BY <3>1, <3>2
  <2> QED
    BY <2>1, <2>2
<1>5. ASSUME NEW u \in Task, NEW i \in DOMAIN rows[u], rows[u][i].attempt = 0
      PROVE  rows[u][i].status \in GateStatus \cup {"cancelled"} /\ rows[u][i].status # "running"
  BY <1>5 DEF LaneInv, Lane, GateStatus
<1>6. ASSUME NEW u \in Task, NEW i \in DOMAIN rows[u]
      PROVE  /\ rows'[u][i].status = "running" => rows[u][i].status = "running"
             /\ rows[u][i].attempt = 0 => rows'[u][i].status \in GateStatus \cup {"cancelled"}
  BY <1>4, <1>5
<1> QED
  BY <1>3, <1>4, <1>6 DEF Tame

\* The part of a lane that only its rows make up.
LEMMA TameRows ==
  ASSUME NEW t \in Task, Lane(t), Tame(t)
  PROVE  /\ \A i \in DOMAIN rows'[t] :
              rows'[t][i].attempt = 0 => rows'[t][i].status \in GateStatus \cup {"cancelled"}
         /\ \A i, j \in DOMAIN rows'[t] :
              (rows'[t][i].attempt > 0 /\ rows'[t][i].seg = rows'[t][j].seg
                 /\ rows'[t][i].attempt = rows'[t][j].attempt) => i = j
         /\ \A i, j \in DOMAIN rows[t] : Before(t, i, j)' <=> Before(t, i, j)
<1>1. \A i \in DOMAIN rows[t] :
        rows'[t][i].seg = rows[t][i].seg /\ rows'[t][i].attempt = rows[t][i].attempt
  BY DEF Tame
<1>2. DOMAIN rows'[t] = DOMAIN rows[t]
  BY DEF Tame
<1>3. \A i \in DOMAIN rows'[t] :
        rows'[t][i].attempt = 0 => rows'[t][i].status \in GateStatus \cup {"cancelled"}
  BY DEF Tame
<1>4. \A i, j \in DOMAIN rows'[t] :
        (rows'[t][i].attempt > 0 /\ rows'[t][i].seg = rows'[t][j].seg
           /\ rows'[t][i].attempt = rows'[t][j].attempt) => i = j
  BY <1>1, <1>2 DEF Lane
<1>5. \A i, j \in DOMAIN rows[t] : Before(t, i, j)' <=> Before(t, i, j)
  BY <1>1 DEF Before
<1> QED
  BY <1>3, <1>4, <1>5

\* Nobody executes the run afterwards.
LEMMA LaneOff ==
  ASSUME NEW t \in Task, Lane(t), Tame(t), ex'.step = "off", job'[t].step # "exec",
         \A i \in DOMAIN rows[t] :
           rows'[t][i].status = "running" => run'.seg = run.seg /\ AtLarge'
  PROVE  Lane(t)'
<1>1. ASSUME NEW i \in DOMAIN rows'[t], rows'[t][i].status = "running"
      PROVE  RunsLast(t, i)'
  <2>1. i \in DOMAIN rows[t] /\ rows[t][i].status = "running"
    BY <1>1 DEF Tame
  <2>2. RunsLast(t, i) /\ run'.seg = run.seg /\ AtLarge'
    BY <1>1, <2>1 DEF Lane
  <2>3. rows'[t][i].seg = run'.seg
    BY <2>1, <2>2 DEF RunsLast, Tame
  <2>4. \A j \in DOMAIN rows'[t] : j # i => Before(t, j, i)'
    BY <2>1, <2>2, TameRows DEF RunsLast, Tame
  <2> QED
    BY <2>2, <2>3, <2>4 DEF RunsLast
<1> QED
  BY <1>1, TameRows DEF Lane

\* The executor goes on, and the task's thread with it, or it was done.
LEMMA LaneOn ==
  ASSUME NEW t \in Task, Lane(t), Tame(t), TypeOK, ex.step # "off", ex'.seg = ex.seg,
         run'.seg = run.seg, AtLarge', t \in Unsubmitted' => t \in Unsubmitted,
         job'[t] = job[t] \/ (job[t].step \in {"won", "lost"} /\ job'[t].step = "none")
  PROVE  Lane(t)'
<1>1. ASSUME NEW i \in DOMAIN rows'[t], rows'[t][i].status = "running"
      PROVE  RunsLast(t, i)'
  <2>1. i \in DOMAIN rows[t] /\ rows[t][i].status = "running"
    BY <1>1 DEF Tame
  <2>2. RunsLast(t, i)
    BY <2>1 DEF Lane
  <2>3. rows'[t][i].seg = run'.seg
    BY <2>1, <2>2 DEF RunsLast, Tame
  <2>4. \A j \in DOMAIN rows'[t] : j # i => Before(t, j, i)'
    BY <2>1, <2>2, TameRows DEF RunsLast, Tame
  <2>5. job[t].step = "exec" /\ job[t].row = i /\ job'[t] = job[t]
    BY <2>2 DEF RunsLast
  <2> QED
    BY <2>3, <2>4, <2>5 DEF RunsLast
<1>2. ASSUME NEW i \in DOMAIN rows'[t], rows'[t][i].attempt > 0, rows'[t][i].seg = ex'.seg
      PROVE  BehindThread(t, i)'
  <2>1. /\ i \in DOMAIN rows[t] /\ rows'[t][i].attempt = rows[t][i].attempt
        /\ rows[t][i].seg = ex.seg
    BY <1>2 DEF Tame
  <2>2. BehindThread(t, i)
    BY <1>2, <2>1 DEF Lane
  <2>3. CASE job'[t] = job[t]
    BY <2>1, <2>2, <2>3 DEF BehindThread
  <2>4. CASE job[t].step \in {"won", "lost"} /\ job'[t].step = "none"
    BY <2>2, <2>4 DEF BehindThread
  <2> QED
    BY <2>3, <2>4
<1>3. ASSUME job'[t].step = "exec" PROVE rows'[t][job'[t].row].attempt = job'[t].attempt
  <2>1. job'[t] = job[t] /\ job[t].step = "exec"
    BY <1>3
  <2>2. job[t].row \in DOMAIN rows[t]
    BY <2>1 DEF TypeOK
  <2>3. rows'[t][job[t].row].attempt = rows[t][job[t].row].attempt
    BY <2>2 DEF Tame
  <2>4. rows[t][job[t].row].attempt = job[t].attempt
    BY <2>1 DEF Lane
  <2> QED
    BY <2>1, <2>3, <2>4
<1> QED
  BY <1>1, <1>2, <1>3, TameRows DEF Lane

\* A row is added to a lane in which nothing runs.
LEMMA LaneAppended ==
  ASSUME TypeOK, NEW t \in Task, Lane(t), NEW row \in RowType, rows'[t] = Append(rows[t], row),
         \A i \in DOMAIN rows[t] : rows[t][i].status # "running",
         row.attempt = 0 => row.status \in GateStatus \cup {"cancelled"},
         row.attempt > 0 =>
           \A i \in DOMAIN rows[t] : rows[t][i].seg = row.seg => rows[t][i].attempt # row.attempt,
         NEW n, n = Len(rows[t]) + 1, row.status = "running" => RunsLast(t, n)',
         ex'.step # "off" =>
           \A i \in DOMAIN rows'[t] :
             (rows'[t][i].attempt > 0 /\ rows'[t][i].seg = ex'.seg) => BehindThread(t, i)',
         job'[t].step = "exec" => rows'[t][job'[t].row].attempt = job'[t].attempt
  PROVE  Lane(t)'
<1>1. rows[t] \in Seq(RowType) /\ Len(rows[t]) \in Nat /\ DOMAIN rows[t] = 1..Len(rows[t])
  BY DEF TypeOK
<1>2. /\ DOMAIN rows'[t] = 1..(Len(rows[t]) + 1) /\ rows'[t][Len(rows[t]) + 1] = row
      /\ \A i \in 1..Len(rows[t]) : rows'[t][i] = rows[t][i]
  BY <1>1
<1>3. \A i \in DOMAIN rows'[t] :
        (i \in DOMAIN rows[t] /\ rows'[t][i] = rows[t][i]) \/ (i = n /\ rows'[t][i] = row)
  BY <1>1, <1>2
<1>4. \A i \in DOMAIN rows'[t] :
        rows'[t][i].attempt = 0 => rows'[t][i].status \in GateStatus \cup {"cancelled"}
  BY <1>3 DEF Lane
<1>5. ASSUME NEW i \in DOMAIN rows'[t], NEW j \in DOMAIN rows'[t],
             rows'[t][i].attempt > 0, rows'[t][i].seg = rows'[t][j].seg,
             rows'[t][i].attempt = rows'[t][j].attempt
      PROVE  i = j
  <2>1. CASE i \in DOMAIN rows[t] /\ j \in DOMAIN rows[t]
    <3>1. rows'[t][i] = rows[t][i] /\ rows'[t][j] = rows[t][j]
      BY <1>1, <1>2, <2>1
    <3> QED
      BY <1>5, <2>1, <3>1 DEF Lane
  <2>2. CASE i \in DOMAIN rows[t] /\ j \notin DOMAIN rows[t]
    <3>1. rows'[t][i] = rows[t][i] /\ rows'[t][j] = row
      BY <1>1, <1>2, <1>3, <2>2
    <3> QED
      BY <1>5, <2>2, <3>1
  <2>3. CASE i \notin DOMAIN rows[t] /\ j \in DOMAIN rows[t]
    <3>1. rows'[t][i] = row /\ rows'[t][j] = rows[t][j]
      BY <1>1, <1>2, <1>3, <2>3
    <3> QED
      BY <1>5, <2>3, <3>1
  <2>4. CASE i \notin DOMAIN rows[t] /\ j \notin DOMAIN rows[t]
    <3>1. i = n /\ j = n
      BY <1>3, <2>4
    <3> QED
      BY <3>1
  <2> QED
    BY <2>1, <2>2, <2>3, <2>4
<1>6. \A i \in DOMAIN rows'[t] : rows'[t][i].status = "running" => RunsLast(t, i)'
  BY <1>3
<1> QED
  BY <1>4, <1>5, <1>6 DEF Lane

-----------------------------------------------------------------------------
(* The steps.                                                              *)

\* Requests and recovery, but for a resume: whoever they leave a row running,
\* leave its run at large.
LEMMA RequestLanes ==
  ASSUME IInv, LaneInv, \/ CancelRun
                        \/ \E t \in Task : DecisionNext(t)
                        \/ Recover
  PROVE  LaneInv'
<1>1. TypeOK /\ GateRows /\ Served /\ run \in RunType
  BY DEF IInv, TypeOK
<1>2. job' = job /\ ex' = ex
  BY DEF CancelRun, DecisionNext, DecideGate, CountGates, Requeue, Recover
<1>3. Unsubmitted' = Unsubmitted
  BY <1>2 DEF Unsubmitted
\* What is left to show of each.
<1>4. ASSUME \A t \in Task : Tame(t), run'.seg = run.seg,
             AtLarge /\ ~AtLarge' =>
               \A t \in Task : \A i \in DOMAIN rows[t] : rows'[t][i].status # "running",
             ex.step # "off" => AtLarge'
      PROVE  LaneInv'
  <2>1. ASSUME NEW t \in Task PROVE Lane(t)'
    <3>1. Lane(t) /\ Tame(t)
      BY <1>4 DEF LaneInv
    <3>2. CASE ex.step # "off"
      BY <1>1, <1>2, <1>3, <1>4, <3>1, <3>2, LaneOn
    <3>3. CASE ex.step = "off"
      <4>1. job'[t].step # "exec" /\ ex'.step = "off"
        BY <1>1, <1>2, <3>3 DEF Served
      <4>2. ASSUME NEW i \in DOMAIN rows[t], rows'[t][i].status = "running" PROVE AtLarge'
        <5>1. rows[t][i].status = "running"
          BY <3>1, <4>2 DEF Tame
        <5>2. AtLarge
          BY <3>1, <5>1 DEF Lane, RunsLast
        <5> QED
          BY <1>4, <4>2, <5>2
      <4> QED
        BY <1>4, <3>1, <4>1, <4>2, LaneOff
    <3> QED
      BY <3>2, <3>3
  <2> QED
    BY <2>1 DEF LaneInv
<1>5. CASE CancelRun
  <2>1. /\ run'.seg = run.seg /\ run'.status = "cancelled"
        /\ run'.finished = (run.status # "running")
    BY <1>1, <1>5 DEF CancelRun, RunType
  <2>2. AtLarge => AtLarge'
    BY <1>5, <2>1 DEF AtLarge, CancelRun
  <2>3. ex.step # "off" => AtLarge
    BY <1>1 DEF Served, AtLarge
  <2>4. \A t \in Task : Tame(t)
    BY <1>1, <1>5, SettledTame DEF CancelRun
  <2> QED
    BY <1>4, <2>1, <2>2, <2>3, <2>4
<1>6. ASSUME NEW u \in Task, DecisionNext(u)
      PROVE  LaneInv'
  <2>1. run'.seg = run.seg /\ (AtLarge => AtLarge')
    <3>1. CASE run' = run
      BY <3>1 DEF AtLarge
    <3>2. CASE Requeue(u)
      BY <1>1, <3>2 DEF Requeue, AtLarge, RunType
    <3> QED
      BY <1>6, <3>1, <3>2 DEF DecisionNext, DecideGate, CountGates
  <2>2. ex.step # "off" => AtLarge
    BY <1>1 DEF Served, AtLarge
  <2>3. \A t \in Task : Tame(t)
    <3>1. CASE rows' = rows
      BY <3>1, SameTame DEF LaneInv
    <3>2. CASE DecideGate(u)
      <4>1. PICK i \in DOMAIN rows[u], answer \in {"approved", "rejected"} :
              /\ rows[u][i].status = "awaiting_approval"
              /\ rows' = [rows EXCEPT ![u][i].status = answer]
        BY <3>2 DEF DecideGate
      <4>2. rows \in RowTable /\ i \in DOMAIN rows[u] /\ answer \in RowStatus
        BY <1>1, <4>1 DEF TypeOK, RowTable, RowStatus, GateStatus
      <4>3. /\ \A t \in Task : DOMAIN rows'[t] = DOMAIN rows[t]
            /\ \A t \in Task : \A j \in DOMAIN rows[t] : SameBut(t, j, t = u /\ j = i, answer)
        <5>1. rows' = [rows EXCEPT ![u][i].status = answer]
          BY <4>1
        <5> QED
          BY <4>2, <5>1, SetStatusStep
      <4>4. ASSUME NEW t \in Task, NEW j \in DOMAIN rows[t]
            PROVE  /\ rows'[t][j].seg = rows[t][j].seg
                   /\ rows'[t][j].attempt = rows[t][j].attempt
                   /\ rows'[t][j].status = rows[t][j].status \/ rows'[t][j].status = answer
        BY <4>3 DEF SameBut
      <4> QED
        BY <4>3, <4>4 DEF Tame, LaneInv, Lane, GateStatus
    <3> QED
      BY <1>6, <3>1, <3>2 DEF DecisionNext, CountGates, Requeue
  <2> QED
    BY <1>4, <2>1, <2>2, <2>3
<1>7. CASE Recover
  <2>1. ex.step = "off"
    BY <1>1, <1>7 DEF Recover, Served
  <2>2. run'.seg = run.seg
    BY <1>1, <1>7 DEF Recover, RunType
  <2>3. \A t \in Task : Tame(t)
    <3>1. CASE rows' = rows
      BY <3>1, SameTame DEF LaneInv
    <3>2. CASE rows' = Settle(Settle(rows, "running", "failed"), "awaiting_approval", "cancelled")
      BY <1>1, <3>2, SettledTame
    <3> QED
      BY <1>7, <3>1, <3>2 DEF Recover
  <2>4. ASSUME AtLarge, NEW t \in Task, NEW i \in DOMAIN rows[t]
        PROVE  rows'[t][i].status # "running"
    <3>1. CASE run.status = "running" \/ Orphaned
      <4> DEFINE first == Settle(rows, "running", "failed")
      <4>1. rows' = Settle(first, "awaiting_approval", "cancelled")
        BY <1>7, <3>1 DEF Recover
      <4>2. rows \in RowTable /\ "cancelled" \in RowStatus /\ "failed" \in RowStatus
        BY <1>1 DEF TypeOK, RowTable, RowStatus
      <4>3. first \in RowTable
        BY <4>2, SettleTable
      <4>4. /\ i \in DOMAIN first[t]
            /\ first[t][i].status =
                 IF rows[t][i].status = "running" THEN "failed" ELSE rows[t][i].status
        BY <4>2, SettleRow
      <4> HIDE DEF first
      <4>5. rows'[t][i].status =
              IF first[t][i].status = "awaiting_approval" THEN "cancelled" ELSE first[t][i].status
        BY <4>1, <4>2, <4>3, <4>4, SettleRow
      <4> QED
        BY <4>4, <4>5
    <3>2. CASE ~(run.status = "running" \/ Orphaned)
      <4>1. rows' = rows /\ run.status = "cancelled" /\ ~SomeRunning
        BY <1>7, <2>4, <3>2 DEF Recover, AtLarge, Orphaned, Terminal
      <4> QED
        BY <4>1 DEF SomeRunning
    <3> QED
      BY <3>1, <3>2
  <2> QED
    BY <1>4, <2>1, <2>2, <2>3, <2>4
<1> QED
  BY <1>5, <1>6, <1>7

\* A resume marks tasks in a new segment, of a run that nobody executes.
LEMMA ResumeLanes ==
  ASSUME IInv, LaneInv, NEW forced \in SUBSET Forcible, ResumeRun(forced)
  PROVE  LaneInv'
<1>1. TypeOK /\ Served
  BY DEF IInv
<1>2. /\ ~AtLarge /\ ex.step = "off" /\ ex' = ex /\ job' = job
      /\ \A t \in Task : job[t].step = "none"
  BY <1>1 DEF ResumeRun, AtLarge, Served
<1> DEFINE marker == Row(run.seg + 1, 0, "cancelled")
<1>3. marker \in RowType /\ marker.attempt = 0 /\ marker.status = "cancelled"
  BY <1>1, GraphAssumption DEF ResumeRun, TypeOK, RunType, Row, RowType, Segment, RowStatus
<1>4. \A t \in Task : rows'[t] \in {rows[t], Append(rows[t], marker)}
  BY DEF ResumeRun
<1> HIDE DEF marker
<1>5. ASSUME NEW t \in Task PROVE Lane(t)'
  <2>1. Lane(t) /\ \A i \in DOMAIN rows[t] : rows[t][i].status # "running"
    BY <1>2 DEF LaneInv, Lane, RunsLast
  <2>2. CASE rows'[t] = rows[t]
    <3>1. Tame(t) /\ \A i \in DOMAIN rows[t] : rows'[t][i].status # "running"
      BY <2>1, <2>2, SameTame
    <3> QED
      BY <1>2, <2>1, <3>1, LaneOff
  <2>3. CASE rows'[t] = Append(rows[t], marker)
    <3>1. PICK n : n = Len(rows[t]) + 1
      OBVIOUS
    <3>2. ~(marker.attempt > 0) /\ marker.status \in GateStatus \cup {"cancelled"}
          /\ marker.status # "running" /\ ex'.step = "off" /\ job'[t].step # "exec"
      BY <1>2, <1>3
    <3> QED
      BY <1>1, <1>3, <2>1, <2>3, <3>2, <3>1, LaneAppended
  <2> QED
    BY <1>4, <2>2, <2>3
<1> QED
  BY <1>5 DEF LaneInv

\* A claim finds no row running, and leaves no task to do of which the segment
\* has an attempt: all of them are settled, hence decided by the last.
LEMMA ClaimLanes ==
  ASSUME IInv, BookInv, LaneInv, Claim
  PROVE  LaneInv'
<1> DEFINE lost == Decided(run.seg, {"failed", "skipped", "cancelled"})
           kept == Decided(run.seg, {"success"})
<1>1. /\ TypeOK /\ Bounded /\ GateRows /\ ~AtLarge /\ rows' = rows /\ job' = job
      /\ \A t \in Task : job[t].step = "none"
  BY DEF IInv, BookInv, Claim, Served, AtLarge
<1>2. /\ ex'.seg = run.seg /\ ex'.ready = {} /\ ex'.pending = {}
      /\ ex'.left \cap (lost \cup kept) = {}
  BY DEF Claim, Off
<1>3. ASSUME NEW t \in Task, NEW i \in DOMAIN rows[t], rows[t][i].attempt > 0,
             rows[t][i].seg = run.seg
      PROVE  t \in lost \cup kept
  <2> DEFINE S == Settled(t, run.seg)
  <2>1. rows[t][i].status # "running" /\ rows[t][i].status \notin GateStatus
    BY <1>1, <1>3 DEF LaneInv, Lane, RunsLast, GateRows
  <2>2. rows[t][i].status \in RowStatus
    BY <1>1, RowFields DEF RowType
  <2>3. i \in S /\ S \subseteq DOMAIN rows[t] /\ \A j \in S : rows[t][j].seg = run.seg
    BY <1>3, <2>1, <2>2 DEF Settled, RowStatus
  <2>4. PICK k \in S : \A j \in S : j # k => Before(t, j, k)
    BY <1>1, <2>3, NewestOf
  <2>5. rows[t][k].status \in {"success", "failed", "skipped", "cancelled"}
    BY <2>4 DEF Settled
  <2>6. ASSUME NEW statuses, rows[t][k].status \in statuses
        PROVE  t \in Decided(run.seg, statuses)
    BY <2>4, <2>6 DEF Decided, LastIn, Settled
  <2> QED
    BY <2>5, <2>6
<1> HIDE DEF lost, kept
<1>4. ASSUME NEW t \in Task PROVE Lane(t)'
  <2>1. Lane(t) /\ Tame(t) /\ \A i \in DOMAIN rows'[t] : rows'[t][i].status # "running"
    BY <1>1, SameTame DEF LaneInv, Lane, RunsLast
  <2>2. ASSUME NEW i \in DOMAIN rows'[t], rows'[t][i].attempt > 0, rows'[t][i].seg = ex'.seg
        PROVE  BehindThread(t, i)'
    <3>1. t \in lost \cup kept
      BY <1>1, <1>2, <1>3, <2>2
    <3>2. t \notin Unsubmitted'
      BY <1>2, <3>1 DEF Unsubmitted
    <3> QED
      BY <1>1, <3>2 DEF BehindThread
  <2>3. job'[t].step # "exec"
    BY <1>1
  <2> QED
    BY <2>1, <2>2, <2>3, TameRows DEF Lane
<1> QED
  BY <1>4 DEF LaneInv

\* The executor's other steps.
LEMMA ExecutorLanes ==
  ASSUME IInv, BookInv, LaneInv, Poll \/ Collect \/ ParkUpdate \/ ParkCommit \/ Finish
  PROVE  LaneInv'
<1>1. TypeOK /\ Served /\ ex.step # "off" /\ run.seg = ex.seg /\ AtLarge
  BY DEF IInv, Served, AtLarge, Poll, Collect, ParkUpdate, ParkCommit, Parking, Finish
<1>2. \A t \in Task : Tame(t)
  <2>1. CASE rows' = rows
    BY <2>1, SameTame DEF LaneInv
  <2>2. CASE rows' = Settle(rows, "awaiting_approval", "cancelled")
    BY <1>1, <2>2, SettledTame
  <2> QED
    BY <2>1, <2>2 DEF Poll, Collect, ParkUpdate, ParkCommit, Finish
<1>3. CASE Poll \/ Collect \/ ParkUpdate
  <2>1. run' = run /\ ex'.seg = ex.seg
    BY <1>1, <1>3 DEF Poll, Collect, ParkUpdate, TypeOK, ExType
  <2>2. Unsubmitted' \subseteq Unsubmitted
    <3>1. CASE Poll
      <4>1. /\ ex'.left = ex.left \ Ready /\ ex'.ready = Ready /\ ex'.pending = ex.pending
            /\ Ready \subseteq ex.left
        BY <1>1, <3>1 DEF Poll, Ready, TypeOK, ExType
      <4> QED
        BY <4>1 DEF Unsubmitted
    <3>2. CASE Collect
      BY <1>1, <3>2 DEF Collect, Unsubmitted, TypeOK, ExType
    <3>3. CASE ParkUpdate
      BY <1>1, <3>3 DEF ParkUpdate, Unsubmitted, TypeOK, ExType
    <3> QED
      BY <1>3, <3>1, <3>2, <3>3
  <2>3. ASSUME NEW t \in Task
        PROVE  job'[t] = job[t] \/ (job[t].step \in {"won", "lost"} /\ job'[t].step = "none")
    BY <1>3 DEF Poll, Collect, ParkUpdate, Done, NoJob
  <2>4. AtLarge'
    BY <1>1, <2>1 DEF AtLarge
  <2>5. ASSUME NEW t \in Task PROVE Lane(t)'
    BY <1>1, <1>2, <2>1, <2>2, <2>3, <2>4, LaneOn DEF LaneInv
  <2> QED
    BY <2>5 DEF LaneInv
<1>4. CASE ParkCommit \/ Finish
  <2>1. /\ \A t \in Task : job[t].step = "none" /\ job'[t] = job[t]
        /\ ex'.step = "off"
    BY <1>1, <1>4 DEF ParkCommit, Parking, Finish, Served, Off
  <2>2. ASSUME NEW t \in Task, NEW i \in DOMAIN rows[t] PROVE rows'[t][i].status # "running"
    BY <1>1, <1>2, <2>1 DEF LaneInv, Lane, RunsLast, Tame
  <2>3. ASSUME NEW t \in Task PROVE Lane(t)'
    BY <1>2, <2>1, <2>2, LaneOff DEF LaneInv
  <2> QED
    BY <2>3 DEF LaneInv
<1> QED
  BY <1>3, <1>4

\* A worker leaves the rows of its threads running.
LEMMA LossLanes ==
  ASSUME IInv, LaneInv, LoseWorker, Survives \subseteq {FALSE}
  PROVE  LaneInv'
<1>1. /\ rows' = rows /\ run' = run /\ ex'.step = "off"
      /\ \A t \in Task : job'[t].step = "none"
  <2>1. \A survives \in Survives : ~survives
    OBVIOUS
  <2>2. rows' = rows /\ run' = run /\ ex' = Off /\ job' = [t \in Task |-> NoJob]
    BY <2>1 DEF LoseWorker
  <2> QED
    BY <2>2 DEF Off, NoJob
<1>2. ASSUME NEW t \in Task PROVE Lane(t)'
  <2>1. Lane(t) /\ Tame(t)
    BY <1>1, SameTame DEF LaneInv
  <2>2. ASSUME NEW i \in DOMAIN rows[t], rows'[t][i].status = "running" PROVE AtLarge'
    BY <1>1, <2>1, <2>2 DEF Lane, RunsLast, AtLarge
  <2> QED
    BY <1>1, <2>1, <2>2, LaneOff
<1> QED
  BY <1>2 DEF LaneInv

\* A task that is dispatched has no attempt of the segment yet.
LEMMA DispatchLanes ==
  ASSUME IInv, TypeOK', BookInv, LaneInv, NEW t \in Task, Dispatch(t)
  PROVE  LaneInv'
<1>1. /\ TypeOK /\ Served /\ Places /\ ex.step = "dispatch" /\ t \in ex.ready
      /\ run.seg = ex.seg /\ AtLarge /\ ex.seg \in Segment
  BY DEF IInv, BookInv, Served, AtLarge, Dispatch, TypeOK, ExType
<1>2. /\ ex'.seg = ex.seg /\ ex'.left = ex.left /\ ex'.ready = ex.ready \ {t} /\ run' = run
  BY <1>1, DispatchWays
<1>3. PICK way \in Ways : Went(t, way)
  BY <1>1, DispatchWays
<1>4. t \in Unsubmitted /\ t \notin ex.left /\ t \notin ex.pending /\ job[t].step = "none"
  BY <1>1 DEF Places, Unsubmitted, Running
<1>5. /\ Lane(t)
      /\ \A i \in DOMAIN rows[t] : rows[t][i].status # "running"
      /\ \A i \in DOMAIN rows[t] : ~(rows[t][i].attempt > 0 /\ rows[t][i].seg = ex.seg)
  BY <1>1, <1>4 DEF LaneInv, Lane, RunsLast, BehindThread
<1>6. /\ \A u \in Task \ {t} : job'[u] = job[u]
      /\ job'[t].step = IF way = "submit" THEN "queued" ELSE "none"
  BY <1>1, <1>3, <1>4 DEF Went, TypeOK, NoJob
<1>7. /\ Unsubmitted' \subseteq Unsubmitted
      /\ way = "lose" => t \notin Unsubmitted'
  BY <1>2, <1>3, <1>4 DEF Went, Unsubmitted
<1>8. \A u \in Task \ {t} : rows'[u] = rows[u]
  BY <1>1, <1>3 DEF Went, Ways, Write, TypeOK
<1>9. ASSUME NEW u \in Task \ {t} PROVE Lane(u)'
  <2>1. Lane(u) /\ Tame(u)
    BY <1>8, SameTame DEF LaneInv
  <2>2. AtLarge'
    BY <1>1, <1>2 DEF AtLarge
  <2> QED
    BY <1>1, <1>2, <1>6, <1>7, <2>1, <2>2, LaneOn
<1>10. Lane(t)'
  <2>1. job'[t].step # "exec"
    BY <1>6
  <2>2. CASE way \in {"refuse", "submit"}
    <3>1. rows'[t] = rows[t]
      BY <1>3, <2>2 DEF Went
    <3>2. Tame(t)
      BY <1>5, <3>1, SameTame
    <3>3. /\ \A i \in DOMAIN rows'[t] : rows'[t][i].status # "running"
          /\ \A i \in DOMAIN rows'[t] : ~(rows'[t][i].attempt > 0 /\ rows'[t][i].seg = ex'.seg)
      BY <1>2, <1>5, <3>1
    <3> QED
      BY <1>5, <2>1, <3>2, <3>3, TameRows DEF Lane
  <2>3. ASSUME NEW n \in {0, 1}, NEW status \in {"cancelled", "skipped", "awaiting_approval"},
               rows' = Write(t, Row(ex.seg, n, status)),
               n = 0 => status = "awaiting_approval", n = 1 => way = "lose"
        PROVE  Lane(t)'
    <3> DEFINE row == Row(ex.seg, n, status)
    <3>1. /\ row \in RowType /\ row.seg = ex.seg /\ row.attempt = n
          /\ row.status = status /\ row.status # "running"
      BY <1>1 DEF Row, RowType, RowStatus, GateStatus
    <3> HIDE DEF row
    <3>2. rows'[t] = Append(rows[t], row)
      BY <1>1, <2>3 DEF row, Write, TypeOK
    <3>3. row.attempt = 0 => row.status \in GateStatus \cup {"cancelled"}
      BY <2>3, <3>1 DEF GateStatus
    <3>4. row.attempt > 0 =>
            \A i \in DOMAIN rows[t] : rows[t][i].seg = row.seg => rows[t][i].attempt # row.attempt
      BY <1>5, <3>1
    <3>5. ASSUME NEW i \in DOMAIN rows'[t], rows'[t][i].attempt > 0, rows'[t][i].seg = ex'.seg
          PROVE  BehindThread(t, i)'
      <4>1. rows[t] \in Seq(RowType) /\ Len(rows[t]) \in Nat /\ DOMAIN rows[t] = 1..Len(rows[t])
        BY <1>1 DEF TypeOK
      <4>2. (i \in DOMAIN rows[t] /\ rows'[t][i] = rows[t][i]) \/ rows'[t][i] = row
        BY <3>1, <3>2, <4>1
      <4>3. way = "lose"
        BY <1>2, <1>5, <2>3, <3>1, <3>5, <4>2
      <4>4. t \notin Unsubmitted' /\ job'[t].step = "none"
        BY <1>6, <1>7, <4>3
      <4> QED
        BY <4>4 DEF BehindThread
    <3>6. PICK last : last = Len(rows[t]) + 1
      OBVIOUS
    <3> QED
      BY <1>1, <1>5, <2>1, <3>1, <3>2, <3>3, <3>4, <3>5, <3>6, LaneAppended
  <2> QED
    BY <1>3, <2>2, <2>3 DEF Went, Ways
<1> QED
  BY <1>9, <1>10 DEF LaneInv

\* A thread writes its attempt's row behind all others of its task.
LEMMA ThreadLanes ==
  ASSUME IInv, TypeOK', BookInv, LaneInv, NEW t \in Task, JobNext(t)
  PROVE  LaneInv'
<1>1. /\ TypeOK /\ Served /\ Bounded /\ AtWork(t) /\ Lane(t)
      /\ job[t].step \in {"queued", "check", "start", "exec"}
      /\ ex' = ex /\ run' = run
  BY DEF IInv, BookInv, LaneInv, JobNext, JobLoad, JobCheck, JobStart, JobEnd
<1>2. /\ ex.step # "off" /\ run.seg = ex.seg /\ ex.seg \in Segment /\ AtLarge /\ AtLarge'
      /\ job[t].attempt \in Nat \ {0} /\ job[t] \in JobType
      /\ job[t].step # "queued" => job[t].seg = ex.seg
  BY <1>1 DEF Served, AtLarge, JobsServeTheirSegment, Busy, TypeOK, ExType, JobType
<1>3. /\ \A u \in Task \ {t} : job'[u] = job[u] /\ rows'[u] = rows[u]
      /\ Unsubmitted' = Unsubmitted
  BY <1>1 DEF JobNext, JobLoad, JobCheck, JobStart, JobEnd, TypeOK, Write, Unsubmitted
<1>4. t \notin Unsubmitted
  BY <1>1, <1>2 DEF BookInv, Places, Running
<1>5. ASSUME NEW u \in Task \ {t} PROVE Lane(u)'
  <2>1. Lane(u) /\ Tame(u)
    BY <1>3, SameTame DEF LaneInv
  <2> QED
    BY <1>1, <1>2, <1>3, <2>1, LaneOn
<1> SUFFICES Lane(t)'
  BY <1>5 DEF LaneInv
<1>6. ASSUME job[t].step # "exec", NEW i \in DOMAIN rows[t] PROVE rows[t][i].status # "running"
  BY <1>1, <1>2, <1>6 DEF Lane, RunsLast
<1>7. ASSUME NEW i \in DOMAIN rows[t], rows[t][i].attempt > 0, rows[t][i].seg = ex.seg
      PROVE  BehindThread(t, i)
  BY <1>1, <1>2, <1>7 DEF Lane
\* The rows are as they were, but for how the attempt at work ended.
<1>8. ASSUME Tame(t), \A i \in DOMAIN rows[t] : rows'[t][i].status # "running",
             job'[t].step \in {"check", "start", "won", "lost"},
             job'[t].step \in {"check", "start"} =>
               \A i \in DOMAIN rows[t] :
                 (rows[t][i].attempt > 0 /\ rows[t][i].seg = ex.seg)
                   => rows[t][i].attempt < job'[t].attempt
      PROVE  Lane(t)'
  <2>1. ASSUME NEW i \in DOMAIN rows'[t], rows'[t][i].attempt > 0, rows'[t][i].seg = ex'.seg
        PROVE  BehindThread(t, i)'
    <3>1. /\ i \in DOMAIN rows[t] /\ rows'[t][i].attempt = rows[t][i].attempt
          /\ rows[t][i].seg = ex.seg
      BY <1>1, <1>8, <2>1 DEF Tame
    <3> QED
      BY <1>3, <1>4, <1>8, <2>1, <3>1 DEF BehindThread
  <2> QED
    BY <1>1, <1>8, <2>1, TameRows DEF Lane, Tame
<1>9. CASE JobLoad(t)
  <2> DEFINE k == [job[t] EXCEPT !.step = "check", !.seg = run.seg]
  <2>1. job' = [job EXCEPT ![t] = k] /\ rows' = rows /\ job[t].step = "queued"
    BY <1>1, <1>9 DEF JobLoad, TypeOK
  <2>2. k = Thread("check", job[t].attempt, run.seg, job[t].row)
    BY <1>1, <1>2, JobLoads DEF TypeOK, RunType
  <2> HIDE DEF k
  <2>3. job'[t].step = "check"
    BY <1>1, <2>1, <2>2 DEF Thread, TypeOK
  <2>4. \A i \in DOMAIN rows[t] : ~(rows[t][i].attempt > 0 /\ rows[t][i].seg = ex.seg)
    BY <1>7, <2>1 DEF BehindThread
  <2>5. Tame(t) /\ \A i \in DOMAIN rows[t] : rows'[t][i].status # "running"
    BY <1>1, <1>6, <2>1, SameTame
  <2> QED
    BY <1>8, <2>3, <2>4, <2>5
<1>10. CASE JobCheck(t)
  <2>1. PICK k : /\ job' = [job EXCEPT ![t] = k]
                 /\ \/ /\ k = Thread("start", job[t].attempt, job[t].seg, job[t].row)
                       /\ rows' = rows
                    \/ /\ k = Thread("lost", job[t].attempt, job[t].seg, job[t].row)
                       /\ rows' = IF job[t].attempt = 1
                                  THEN Write(t, Row(job[t].seg, 1, "cancelled")) ELSE rows
    <3>1. /\ [job[t] EXCEPT !.step = "lost"]
               = Thread("lost", job[t].attempt, job[t].seg, job[t].row)
          /\ [job[t] EXCEPT !.step = "start"]
               = Thread("start", job[t].attempt, job[t].seg, job[t].row)
      BY <1>2, JobFields
    <3>2. \/ job' = [job EXCEPT ![t] = [job[t] EXCEPT !.step = "start"]] /\ rows' = rows
          \/ /\ job' = [job EXCEPT ![t] = [job[t] EXCEPT !.step = "lost"]]
             /\ rows' = IF job[t].attempt = 1
                        THEN Write(t, Row(job[t].seg, 1, "cancelled")) ELSE rows
      BY <1>1, <1>10 DEF JobCheck, TypeOK
    <3> QED
      BY <3>1, <3>2
  <2>2. job'[t] = k /\ job[t].step = "check" /\ job[t].seg = ex.seg
    BY <1>1, <1>2, <1>10, <2>1 DEF JobCheck, TypeOK
  <2>3. \A i \in DOMAIN rows[t] : (rows[t][i].attempt > 0 /\ rows[t][i].seg = ex.seg)
                                 => rows[t][i].attempt < job[t].attempt
    BY <1>7, <2>2 DEF BehindThread
  <2>4. CASE rows' = rows
    <3>1. Tame(t) /\ \A i \in DOMAIN rows[t] : rows'[t][i].status # "running"
      BY <1>1, <1>6, <2>2, <2>4, SameTame
    <3>2. job'[t].step \in {"start", "lost"} /\ job'[t].attempt = job[t].attempt
      BY <2>1, <2>2 DEF Thread
    <3> QED
      BY <1>8, <2>3, <3>1, <3>2
  <2>5. CASE job[t].attempt = 1 /\ rows' = Write(t, Row(job[t].seg, 1, "cancelled")) /\ rows' # rows
    <3> DEFINE row == Row(job[t].seg, 1, "cancelled")
    <3>1. row \in RowType /\ row.seg = ex.seg /\ row.attempt = 1 /\ row.status = "cancelled"
      BY <1>2, <2>2 DEF Row, RowType, RowStatus
    <3>2. \A i \in DOMAIN rows[t] : ~(rows[t][i].attempt > 0 /\ rows[t][i].seg = ex.seg)
      <4>1. \A i \in DOMAIN rows[t] : rows[t][i].attempt \in Nat
        BY <1>1, RowFields
      <4> QED
        BY <2>3, <2>5, <4>1
    <3> HIDE DEF row
    <3>3. rows'[t] = Append(rows[t], row)
      BY <1>1, <2>5 DEF row, Write, TypeOK
    <3>4. job'[t].step = "lost"
      BY <2>1, <2>2, <2>5 DEF Thread
    <3>5. \A i \in DOMAIN rows'[t] : BehindThread(t, i)'
      BY <1>3, <1>4, <3>4 DEF BehindThread
    <3>6. /\ \A i \in DOMAIN rows[t] : rows[t][i].status # "running"
          /\ \A i \in DOMAIN rows[t] : rows[t][i].seg = row.seg => rows[t][i].attempt # row.attempt
      BY <1>6, <2>2, <3>1, <3>2
    <3>7. PICK n : n = Len(rows[t]) + 1
      OBVIOUS
    <3> QED
      BY <1>1, <3>1, <3>3, <3>4, <3>5, <3>6, <3>7, LaneAppended
  <2> QED
    BY <2>1, <2>4, <2>5
<1>11. CASE JobStart(t)
  <2> DEFINE k == [job[t] EXCEPT !.step = "exec", !.row = Len(rows[t]) + 1]
             row == Row(job[t].seg, job[t].attempt, "running")
  <2>0. PICK n : n = Len(rows[t]) + 1
    OBVIOUS
  <2>1. /\ job[t].seg = ex.seg /\ rows[t] \in Seq(RowType) /\ n \in Nat
        /\ Len(rows[t]) \in Nat /\ DOMAIN rows[t] = 1..Len(rows[t]) /\ job[t].step = "start"
    BY <1>1, <1>2, <1>11, <2>0 DEF JobStart, TypeOK
  <2>2. job' = [job EXCEPT ![t] = k] /\ rows' = Write(t, row)
    BY <1>1, <1>11 DEF JobStart, TypeOK
  <2>3. k = Thread("exec", job[t].attempt, job[t].seg, n)
    BY <1>2, <2>1, <2>0, JobStarts
  <2>4. /\ row \in RowType /\ row.status = "running" /\ row.seg = ex.seg
        /\ row.attempt = job[t].attempt
    BY <1>2, <2>1 DEF Row, RowType, RowStatus
  <2>5. \A i \in DOMAIN rows[t] : (rows[t][i].attempt > 0 /\ rows[t][i].seg = ex.seg)
                                 => rows[t][i].attempt < job[t].attempt
    BY <1>7, <2>1 DEF BehindThread
  <2> HIDE DEF k, row
  <2>6. job'[t].step = "exec" /\ job'[t].row = n /\ job'[t].attempt = job[t].attempt
    BY <1>1, <2>2, <2>3 DEF Thread, TypeOK
  <2>7. rows'[t] = Append(rows[t], row)
    BY <1>1, <2>2 DEF Write, TypeOK
  <2>8. /\ DOMAIN rows'[t] = 1..n /\ rows'[t][n] = row
        /\ \A i \in 1..Len(rows[t]) : rows'[t][i] = rows[t][i]
    BY <2>1, <2>4, <2>7, <2>0
  <2>9. \A i \in DOMAIN rows'[t] : i # n => i \in DOMAIN rows[t] /\ rows'[t][i] = rows[t][i]
    BY <2>1, <2>8, <2>0
  <2>10. RunsLast(t, n)'
    <3>1. ASSUME NEW j \in DOMAIN rows'[t], j # n PROVE Before(t, j, n)'
      <4>1. j \in DOMAIN rows[t] /\ rows'[t][j] = rows[t][j]
        BY <2>9, <3>1
      <4>2. /\ rows[t][j].seg \in Nat /\ rows[t][j].attempt \in Nat /\ ex.seg \in Nat
            /\ rows[t][j].seg <= ex.seg
        BY <1>1, <1>2, <4>1, RowFields, GraphAssumption DEF Bounded, Segment
      <4>3. rows[t][j].seg < ex.seg \/ rows[t][j].seg = ex.seg
        BY <4>2
      <4>4. rows[t][j].seg = ex.seg => rows[t][j].attempt < job[t].attempt
        <5>1. rows[t][j].attempt = 0 \/ rows[t][j].attempt > 0
          BY <4>2
        <5> QED
          BY <1>2, <2>5, <4>1, <5>1
      <4>5. rows'[t][n].seg = ex.seg /\ rows'[t][n].attempt = job[t].attempt
        BY <2>4, <2>8
      <4> QED
        BY <4>1, <4>3, <4>4, <4>5 DEF Before
    <3>2. rows'[t][n].seg = run'.seg
      BY <1>1, <1>2, <2>4, <2>8
    <3> QED
      BY <1>2, <2>6, <3>1, <3>2 DEF RunsLast
  <2>11. ASSUME NEW i \in DOMAIN rows'[t], rows'[t][i].attempt > 0, rows'[t][i].seg = ex'.seg
         PROVE  BehindThread(t, i)'
    BY <1>1, <1>3, <1>4, <2>5, <2>6, <2>9, <2>11 DEF BehindThread
  <2>12. row.attempt > 0 =>
           \A i \in DOMAIN rows[t] : rows[t][i].seg = row.seg => rows[t][i].attempt # row.attempt
    <3>1. \A i \in DOMAIN rows[t] : rows[t][i].attempt \in Nat
      BY <1>1, RowFields
    <3> QED
      BY <1>2, <2>4, <2>5, <3>1
  <2>13. /\ \A i \in DOMAIN rows[t] : rows[t][i].status # "running"
         /\ rows'[t][job'[t].row].attempt = job'[t].attempt
         /\ row.attempt # 0
    BY <1>2, <1>6, <2>1, <2>4, <2>6, <2>8
  <2> QED
    BY <1>1, <2>4, <2>7, <2>10, <2>11, <2>12, <2>13, <2>0, LaneAppended
<1>12. CASE JobEnd(t)
  <2> DEFINE i == job[t].row
  <2>1. PICK result \in {"success", "failed", "cancelled"} :
          /\ rows' = [rows EXCEPT ![t][job[t].row].status = result]
          /\ job' = [job EXCEPT ![t] =
               IF result = "success" THEN [@ EXCEPT !.step = "won"]
               ELSE IF result = "failed" /\ job[t].attempt < Attempts[t]
                    THEN [@ EXCEPT !.step = "check", !.attempt = job[t].attempt + 1]
               ELSE [@ EXCEPT !.step = "lost"]]
    BY <1>12 DEF JobEnd
  <2>2. /\ i \in DOMAIN rows[t] /\ result \in RowStatus /\ job[t].seg = ex.seg
        /\ rows[t][i].attempt = job[t].attempt /\ rows \in RowTable /\ job[t].step = "exec"
    BY <1>1, <1>2, <1>12 DEF JobEnd, TypeOK, RowStatus, RowTable, Lane
  <2>3. /\ \A u \in Task : DOMAIN rows'[u] = DOMAIN rows[u]
        /\ \A u \in Task : \A j \in DOMAIN rows[u] : SameBut(u, j, u = t /\ j = i, result)
    <3>1. rows' = [rows EXCEPT ![t][i].status = result]
      BY <2>1
    <3> QED
      BY <2>2, <3>1, SetStatusStep
  <2>4. PICK k : /\ job' = [job EXCEPT ![t] = k]
                 /\ \/ k = Thread("won", job[t].attempt, job[t].seg, job[t].row)
                    \/ k = Thread("lost", job[t].attempt, job[t].seg, job[t].row)
                    \/ k = Thread("check", job[t].attempt + 1, job[t].seg, job[t].row)
    <3>1. job[t].attempt + 1 \in Nat \ {0}
      BY <1>2
    <3> QED
      BY <1>1, <1>2, <2>1, <3>1, JobFields, JobRetries
  <2>5. /\ job'[t].step \in {"won", "lost", "check"}
        /\ job'[t].step = "check" => job'[t].attempt = job[t].attempt + 1
    BY <1>1, <2>4 DEF TypeOK, Thread
  <2> HIDE DEF i
  <2>6. ASSUME NEW j \in DOMAIN rows[t] PROVE rows'[t][j].status # "running"
    <3>1. CASE j = i
      BY <2>2, <2>3, <3>1 DEF SameBut
    <3>2. CASE j # i
      <4>1. rows'[t][j].status = rows[t][j].status
        BY <2>3, <3>2 DEF SameBut
      <4>2. rows[t][j].status # "running"
        BY <1>1, <1>2, <3>2 DEF Lane, RunsLast, i
      <4> QED
        BY <4>1, <4>2
    <3> QED
      BY <3>1, <3>2
  <2>7. Tame(t)
    <3>1. ASSUME NEW j \in DOMAIN rows[t]
          PROVE  /\ rows'[t][j].seg = rows[t][j].seg
                 /\ rows'[t][j].attempt = rows[t][j].attempt
                 /\ rows[t][j].attempt = 0 => rows'[t][j].status = rows[t][j].status
      BY <1>2, <2>2, <2>3 DEF SameBut
    <3> QED
      BY <1>1, <2>3, <2>6, <3>1 DEF Tame, Lane
  <2>8. ASSUME NEW j \in DOMAIN rows[t], rows[t][j].attempt > 0, rows[t][j].seg = ex.seg
        PROVE  rows[t][j].attempt < job[t].attempt + 1
    <3>1. j = i \/ rows[t][j].attempt < job[t].attempt
      BY <1>7, <2>2, <2>8 DEF BehindThread, i
    <3>2. rows[t][j].attempt \in Nat
      BY <1>1, RowFields
    <3> QED
      BY <1>2, <2>2, <3>1, <3>2
  <2> QED
    BY <1>8, <2>5, <2>6, <2>7, <2>8
<1> QED
  BY <1>1, <1>9, <1>10, <1>11, <1>12 DEF JobNext

-----------------------------------------------------------------------------
LEMMA InitLanes == Init => LaneInv
<1> SUFFICES ASSUME Init PROVE LaneInv
  OBVIOUS
<1>1. \A t \in Task : DOMAIN rows[t] = {}
  BY DEF Init
<1>2. ex.step = "off" /\ \A t \in Task : job[t].step = "none"
  BY DEF Init, Off, NoJob
<1> QED
  BY <1>1, <1>2 DEF LaneInv, Lane

LEMMA StepLanes ==
  ASSUME IInv, TypeOK', BookInv, LaneInv, [Next]_vars, Survives \subseteq {FALSE}
  PROVE  LaneInv'
<1>1. CASE UNCHANGED vars
  <2>1. ASSUME NEW t \in Task PROVE Lane(t)'
    BY <1>1 DEF vars, LaneInv, Lane, RunsLast, BehindThread, Before, AtLarge, Unsubmitted
  <2> QED
    BY <2>1 DEF LaneInv
<1>2. CASE Next
  BY <1>2, ClaimLanes, ExecutorLanes, DispatchLanes, ThreadLanes, RequestLanes, ResumeLanes,
     LossLanes DEF Next
<1> QED
  BY <1>1, <1>2

-----------------------------------------------------------------------------
(* Segments only ever follow each other in a task's rows.                  *)

\* A step keeps the segments of the rows, and what it adds is of the run's.
LEMMA StackKept ==
  ASSUME TypeOK, TypeOK', Bounded, Stacked, run.seg <= run'.seg,
         \A t \in Task : DOMAIN rows[t] \subseteq DOMAIN rows'[t],
         \A t \in Task : \A i \in DOMAIN rows[t] : rows'[t][i].seg = rows[t][i].seg,
         \A t \in Task : \A i \in DOMAIN rows'[t] \ DOMAIN rows[t] : rows'[t][i].seg = run'.seg
  PROVE  Stacked'
<1> SUFFICES ASSUME NEW t \in Task, NEW i \in DOMAIN rows'[t], NEW j \in DOMAIN rows'[t], i < j
             PROVE  rows'[t][i].seg <= rows'[t][j].seg
  BY DEF Stacked
<1>1. /\ run.seg \in Nat /\ run'.seg \in Nat
      /\ DOMAIN rows[t] = 1..Len(rows[t]) /\ Len(rows[t]) \in Nat
      /\ DOMAIN rows'[t] = 1..Len(rows'[t]) /\ Len(rows'[t]) \in Nat
  BY GraphAssumption DEF TypeOK, RunType, Segment
<1>2. CASE j \in DOMAIN rows[t]
  <2>1. i \in DOMAIN rows[t]
    BY <1>1, <1>2
  <2> QED
    BY <1>2, <2>1 DEF Stacked
<1>3. CASE j \notin DOMAIN rows[t] /\ i \in DOMAIN rows[t]
  <2>1. rows[t][i].seg \in Nat /\ rows[t][i].seg <= run.seg
    BY <1>3, RowFields DEF Bounded
  <2>2. rows'[t][i].seg = rows[t][i].seg /\ rows'[t][j].seg = run'.seg
    BY <1>3
  <2> QED
    BY <1>1, <2>1, <2>2
<1>4. CASE j \notin DOMAIN rows[t] /\ i \notin DOMAIN rows[t]
  BY <1>1, <1>4
<1> QED
  BY <1>2, <1>3, <1>4

LEMMA StepStacked ==
  ASSUME IInv, TypeOK', BookInv, LaneInv, Stacked, [Next]_vars
  PROVE  Stacked'
<1>1. /\ TypeOK /\ Served /\ Bounded /\ rows \in RowTable
      /\ run.seg \in Nat /\ run \in RunType /\ run.seg \in Segment
  BY GraphAssumption DEF IInv, BookInv, TypeOK, RunType, Segment, RowTable
\* Most steps leave a task as many rows as it has.
<1>2. ASSUME run'.seg = run.seg,
             rows' = rows \/ \A t \in Task : Tame(t)
                          \/ \A u \in Task : /\ DOMAIN rows'[u] = DOMAIN rows[u]
                                             /\ \A j \in DOMAIN rows[u] : rows'[u][j].seg = rows[u][j].seg
      PROVE  Stacked'
  BY <1>1, <1>2, StackKept DEF Tame
\* A row of the run's segment is added.
<1>3. ASSUME run' = run, NEW t \in Task, NEW row \in RowType, rows' = Write(t, row),
             row.seg = run.seg
      PROVE  Stacked'
  <2>1. /\ \A u \in Task : DOMAIN rows[u] \subseteq DOMAIN rows'[u]
        /\ \A u \in Task : \A i \in DOMAIN rows[u] : rows'[u][i] = rows[u][i]
        /\ \A u \in Task : \A i \in DOMAIN rows'[u] :
             i \in DOMAIN rows[u] \/ rows'[u][i] = row
    BY <1>1, <1>3, WriteTable
  <2> QED
    BY <1>1, <1>3, <2>1, StackKept
<1>4. CASE UNCHANGED vars
  BY <1>2, <1>4 DEF vars
<1>5. CASE Claim \/ Poll \/ Collect \/ ParkUpdate \/ ParkCommit \/ LoseWorker
  <2>1. rows' = rows /\ run'.seg = run.seg
    BY <1>1, <1>5 DEF Claim, Poll, Collect, ParkUpdate, ParkCommit, LoseWorker, RunType
  <2> QED
    BY <1>2, <2>1
<1>6. CASE Finish \/ CancelRun \/ Recover
  <2>1. run'.seg = run.seg
    BY <1>1, <1>6 DEF Finish, CancelRun, Recover, RunType
  <2>2. \/ rows' = rows
        \/ rows' = Settle(rows, "awaiting_approval", "cancelled")
        \/ rows' = Settle(Settle(rows, "running", "failed"), "awaiting_approval", "cancelled")
    BY <1>6 DEF Finish, CancelRun, Recover
  <2> QED
    BY <1>1, <1>2, <2>1, <2>2, SettledTame
<1>7. ASSUME NEW t \in Task, Dispatch(t) PROVE Stacked'
  <2>1. run' = run /\ ex.step # "off" /\ ex.seg = run.seg
    BY <1>1, <1>7 DEF Dispatch, Served
  <2>2. CASE rows' = rows
    BY <1>2, <2>1, <2>2
  <2>3. ASSUME NEW n \in {0, 1}, NEW status \in RowStatus, rows' = Write(t, Row(ex.seg, n, status))
        PROVE  Stacked'
    <3>1. Row(ex.seg, n, status) \in RowType /\ Row(ex.seg, n, status).seg = run.seg
      BY <1>1, <2>1 DEF Row, RowType
    <3> QED
      BY <1>3, <2>1, <2>3, <3>1
  <2>4. \/ rows' = rows
        \/ \E n \in {0, 1}, status \in RowStatus : rows' = Write(t, Row(ex.seg, n, status))
    <3>1. /\ "cancelled" \in RowStatus /\ "skipped" \in RowStatus
          /\ "awaiting_approval" \in RowStatus /\ 0 \in {0, 1} /\ 1 \in {0, 1}
      BY DEF RowStatus, GateStatus
    <3>2. \/ rows' = rows
          \/ rows' = Write(t, Row(ex.seg, 1, "cancelled"))
          \/ rows' = Write(t, Row(ex.seg, 1, "skipped"))
          \/ rows' = Write(t, Row(ex.seg, 0, "awaiting_approval"))
      BY <1>7 DEF Dispatch
    <3> QED
      BY <3>1, <3>2
  <2> QED
    BY <2>2, <2>3, <2>4
<1>8. ASSUME NEW t \in Task, JobNext(t) PROVE Stacked'
  <2>1. run' = run
    BY <1>8 DEF JobNext, JobLoad, JobCheck, JobStart, JobEnd
  <2>2. job[t].step \in {"check", "start", "exec"} => job[t].seg = run.seg
    <3>1. job[t].step \in {"check", "start", "exec"} => ex.step # "off"
      BY <1>1 DEF Served
    <3> QED
      BY <1>1, <3>1 DEF Served, JobsServeTheirSegment, Busy
  <2>3. job[t].attempt \in Nat
    BY <1>1 DEF TypeOK, JobType
  <2>4. ASSUME NEW n \in Nat, NEW status \in RowStatus, job[t].step \in {"check", "start"},
               rows' = Write(t, Row(job[t].seg, n, status))
        PROVE  Stacked'
    <3>1. /\ Row(job[t].seg, n, status) \in RowType
          /\ Row(job[t].seg, n, status).seg = run.seg
      BY <1>1, <2>2, <2>4 DEF Row, RowType
    <3> QED
      BY <1>3, <2>1, <2>4, <3>1
  <2>5. CASE rows' = rows
    BY <1>2, <2>1, <2>5
  <2>6. CASE JobCheck(t)
    <3>1. rows' = rows \/ rows' = Write(t, Row(job[t].seg, 1, "cancelled"))
      BY <2>6 DEF JobCheck
    <3>2. "cancelled" \in RowStatus /\ 1 \in Nat /\ job[t].step = "check"
      BY <2>6 DEF RowStatus, JobCheck
    <3> QED
      BY <2>4, <2>5, <3>1, <3>2
  <2>7. CASE JobStart(t)
    <3>1. "running" \in RowStatus /\ job[t].step = "start"
      BY <2>7 DEF RowStatus, JobStart
    <3> QED
      BY <2>3, <2>4, <2>7, <3>1 DEF JobStart
  <2>8. CASE JobEnd(t)
    <3>1. PICK result \in RowStatus : rows' = [rows EXCEPT ![t][job[t].row].status = result]
      BY <2>8 DEF JobEnd, RowStatus
    <3>2. job[t].row \in DOMAIN rows[t]
      BY <1>1, <2>8 DEF JobEnd, TypeOK
    <3>3. /\ \A u \in Task : DOMAIN rows'[u] = DOMAIN rows[u]
          /\ \A u \in Task : \A j \in DOMAIN rows[u] : rows'[u][j].seg = rows[u][j].seg
      BY <1>1, <3>1, <3>2, SetStatusStep DEF SameBut
    <3> QED
      BY <1>2, <2>1, <3>3
  <2> QED
    BY <1>8, <2>5, <2>6, <2>7, <2>8 DEF JobNext, JobLoad
<1>9. ASSUME NEW t \in Task, DecisionNext(t) PROVE Stacked'
  <2>1. run'.seg = run.seg
    BY <1>1, <1>9 DEF DecisionNext, DecideGate, CountGates, Requeue, RunType
  <2>2. CASE rows' = rows
    BY <1>2, <2>1, <2>2
  <2>3. CASE DecideGate(t)
    <3>1. PICK i \in DOMAIN rows[t], answer \in {"approved", "rejected"} :
            rows' = [rows EXCEPT ![t][i].status = answer]
      BY <2>3 DEF DecideGate
    <3>2. answer \in RowStatus
      BY DEF RowStatus, GateStatus
    <3>3. /\ \A u \in Task : DOMAIN rows'[u] = DOMAIN rows[u]
          /\ \A u \in Task : \A j \in DOMAIN rows[u] : rows'[u][j].seg = rows[u][j].seg
      BY <1>1, <3>1, <3>2, SetStatusStep DEF SameBut
    <3> QED
      BY <1>2, <2>1, <3>3
  <2> QED
    BY <1>9, <2>2, <2>3 DEF DecisionNext, CountGates, Requeue
<1>10. ASSUME NEW forced \in SUBSET Forcible, ResumeRun(forced) PROVE Stacked'
  <2> DEFINE marker == Row(run.seg + 1, 0, "cancelled")
  <2>1. marker.seg = run'.seg /\ run'.seg = run.seg + 1
    BY <1>10 DEF ResumeRun, Row
  <2>2. ASSUME NEW u \in Task
        PROVE  /\ DOMAIN rows[u] \subseteq DOMAIN rows'[u]
               /\ \A i \in DOMAIN rows[u] : rows'[u][i] = rows[u][i]
               /\ \A i \in DOMAIN rows'[u] \ DOMAIN rows[u] : rows'[u][i] = marker
    <3>1. rows'[u] \in {rows[u], Append(rows[u], marker)}
      BY <1>10 DEF ResumeRun
    <3>2. marker \in RowType
      BY <1>1, <1>10, GraphAssumption DEF ResumeRun, Row, RowType, RowStatus, Segment
    <3>3. rows[u] \in Seq(RowType)
      BY <1>1 DEF RowTable
    <3> HIDE DEF marker
    <3> QED
      BY <3>1, <3>2, <3>3
  <2> HIDE DEF marker
  <2> QED
    BY <1>1, <2>1, <2>2, StackKept
<1> QED
  BY <1>4, <1>5, <1>6, <1>7, <1>8, <1>9, <1>10 DEF Next

\* For every task graph without cycles, number of attempts and threads, and
\* however a run is parked, cancelled, lost and resumed: the surfaces of the run
\* page agree on what is live and, through every resume, on what a task that has
\* not relapsed ended as (App.tsx: TaskTimeline, TaskRunCard, RunDetail's graph).
THEOREM PageAgrees ==
  ASSUME Survives \subseteq {FALSE}
  PROVE  Spec => []SurfacesAgree
<1>1. IInv /\ BookInv /\ [Next]_vars => BookInv'
  BY StepBooks
<1>2. IInv /\ IInv' /\ BookInv /\ LaneInv /\ [Next]_vars => LaneInv'
  BY StepLanes DEF IInv
<1>3. IInv /\ IInv' /\ BookInv /\ LaneInv /\ Stacked /\ [Next]_vars => Stacked'
  BY StepStacked DEF IInv
<1>4. IInv /\ BookInv /\ LaneInv /\ Stacked => SurfacesAgree
  BY LaneShows
<1>5. Init => Stacked
  BY DEF Init, Stacked
<1> QED
  BY <1>1, <1>2, <1>3, <1>4, <1>5, InitBooks, InitLanes, AlwaysSafe, PTL DEF Spec
=============================================================================
