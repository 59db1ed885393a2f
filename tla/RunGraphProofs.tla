--------------------------- MODULE RunGraphProofs ---------------------------
(***************************************************************************)
(* Proofs about RunGraph for every task graph, every number of attempts,   *)
(* threads and resumes.                                                    *)
(***************************************************************************)
EXTENDS RunGraph, TLAPS

RowTable == [Task -> Seq(RowType)]

-----------------------------------------------------------------------------
(* Writing rows.                                                           *)

\* A row with another status.
LEMMA RowStatusField ==
  ASSUME NEW row \in RowType, NEW status \in RowStatus
  PROVE  /\ [row EXCEPT !.status = status] \in RowType
         /\ [row EXCEPT !.status = status].seg = row.seg
         /\ [row EXCEPT !.status = status].attempt = row.attempt
         /\ [row EXCEPT !.status = status].status = status
BY DEF RowType

\* Appending a row.
LEMMA WriteTable ==
  ASSUME rows \in RowTable, NEW t \in Task, NEW row \in RowType
  PROVE  /\ Write(t, row) \in RowTable
         /\ \A u \in Task : DOMAIN rows[u] \subseteq DOMAIN Write(t, row)[u]
         /\ \A u \in Task : \A i \in DOMAIN rows[u] : Write(t, row)[u][i] = rows[u][i]
         /\ \A u \in Task : \A i \in DOMAIN Write(t, row)[u] :
              \/ i \in DOMAIN rows[u] /\ Write(t, row)[u][i] = rows[u][i]
              \/ u = t /\ i = Len(rows[t]) + 1 /\ Write(t, row)[u][i] = row
<1>1. /\ Append(rows[t], row) \in Seq(RowType)
      /\ Len(Append(rows[t], row)) = Len(rows[t]) + 1
      /\ Append(rows[t], row)[Len(rows[t]) + 1] = row
      /\ \A i \in 1..Len(rows[t]) : Append(rows[t], row)[i] = rows[t][i]
  BY DEF RowTable
<1>2. \A u \in Task : DOMAIN rows[u] = 1..Len(rows[u]) /\ Len(rows[u]) \in Nat
  BY DEF RowTable
<1>3. /\ Write(t, row)[t] = Append(rows[t], row)
      /\ \A u \in Task : u # t => Write(t, row)[u] = rows[u]
  BY DEF Write, RowTable
<1>4. Write(t, row) \in RowTable
  BY <1>1 DEF Write, RowTable
<1>5. DOMAIN Append(rows[t], row) = 1..(Len(rows[t]) + 1)
  BY <1>1, <1>2
<1>6. ASSUME NEW u \in Task
      PROVE  /\ DOMAIN rows[u] \subseteq DOMAIN Write(t, row)[u]
             /\ \A i \in DOMAIN rows[u] : Write(t, row)[u][i] = rows[u][i]
             /\ \A i \in DOMAIN Write(t, row)[u] :
                  \/ i \in DOMAIN rows[u] /\ Write(t, row)[u][i] = rows[u][i]
                  \/ u = t /\ i = Len(rows[t]) + 1 /\ Write(t, row)[u][i] = row
  <2>1. CASE u # t
    BY <1>3, <2>1
  <2>2. CASE u = t
    <3>1. /\ Write(t, row)[u] = Append(rows[t], row)
          /\ DOMAIN rows[u] = 1..Len(rows[t]) /\ Len(rows[t]) \in Nat
      BY <1>2, <1>3, <2>2
    <3>2. DOMAIN rows[u] \subseteq DOMAIN Write(t, row)[u]
      BY <1>5, <3>1
    <3>3. \A i \in DOMAIN rows[u] : Write(t, row)[u][i] = rows[u][i]
      BY <1>1, <2>2, <3>1
    <3>4. ASSUME NEW i \in DOMAIN Write(t, row)[u]
          PROVE  \/ i \in DOMAIN rows[u] /\ Write(t, row)[u][i] = rows[u][i]
                 \/ u = t /\ i = Len(rows[t]) + 1 /\ Write(t, row)[u][i] = row
      <4>1. i \in 1..Len(rows[t]) \/ i = Len(rows[t]) + 1
        BY <1>5, <3>1, <3>4
      <4> QED
        BY <1>1, <2>2, <3>1, <3>3, <4>1
    <3> QED
      BY <3>2, <3>3, <3>4
  <2> QED
    BY <2>1, <2>2
<1> QED
  BY <1>4, <1>6

\* Giving rows of one status another.
LEMMA SettleTable ==
  ASSUME NEW table \in RowTable, NEW from, NEW to \in RowStatus
  PROVE  /\ Settle(table, from, to) \in RowTable
         /\ \A u \in Task : DOMAIN Settle(table, from, to)[u] = DOMAIN table[u]
         /\ \A u \in Task : \A i \in DOMAIN table[u] :
              Settle(table, from, to)[u][i] =
                IF table[u][i].status = from THEN [table[u][i] EXCEPT !.status = to]
                                             ELSE table[u][i]
<1> DEFINE settled(u) == [i \in DOMAIN table[u] |->
             IF table[u][i].status = from THEN [table[u][i] EXCEPT !.status = to]
                                          ELSE table[u][i]]
<1>1. ASSUME NEW u \in Task
      PROVE  settled(u) \in Seq(RowType)
  <2>1. table[u] \in Seq(RowType) /\ Len(table[u]) \in Nat /\ DOMAIN table[u] = 1..Len(table[u])
    BY DEF RowTable
  <2>2. ASSUME NEW i \in DOMAIN table[u] PROVE settled(u)[i] \in RowType
    <3>1. table[u][i] \in RowType
      BY <2>1
    <3>2. [table[u][i] EXCEPT !.status = to] \in RowType
      BY <3>1, RowStatusField
    <3> QED
      BY <3>1, <3>2
  <2>3. settled(u) \in [1..Len(table[u]) -> RowType]
    BY <2>1, <2>2
  <2> QED
    BY <2>1, <2>3
<1>2. \A u \in Task : Settle(table, from, to)[u] = settled(u)
  BY DEF Settle
<1>3. Settle(table, from, to) \in RowTable
  BY <1>1 DEF Settle, RowTable
<1> QED
  BY <1>2, <1>3

\* The same, field by field.
LEMMA SettleRow ==
  ASSUME NEW table \in RowTable, NEW from, NEW to \in RowStatus,
         NEW u \in Task, NEW i \in DOMAIN table[u]
  PROVE  /\ i \in DOMAIN Settle(table, from, to)[u]
         /\ Settle(table, from, to)[u][i].seg = table[u][i].seg
         /\ Settle(table, from, to)[u][i].attempt = table[u][i].attempt
         /\ Settle(table, from, to)[u][i].status =
              IF table[u][i].status = from THEN to ELSE table[u][i].status
<1> DEFINE row == [table[u][i] EXCEPT !.status = to]
<1>1. table[u][i] \in RowType
  BY DEF RowTable
<1>2. row.seg = table[u][i].seg /\ row.attempt = table[u][i].attempt /\ row.status = to
  BY <1>1, RowStatusField
<1>3. /\ i \in DOMAIN Settle(table, from, to)[u]
      /\ Settle(table, from, to)[u][i] =
           IF table[u][i].status = from THEN row ELSE table[u][i]
  BY DEF Settle
<1> HIDE DEF row
<1> QED
  BY <1>2, <1>3

\* Row j of u as before, but for its status where it is given another.
SameBut(u, j, changed, status) ==
  /\ rows'[u][j].seg = rows[u][j].seg
  /\ rows'[u][j].attempt = rows[u][j].attempt
  /\ changed => rows'[u][j].status = status
  /\ ~changed => rows'[u][j].status = rows[u][j].status

\* Changing the status of one row.
LEMMA SetStatusStep ==
  ASSUME rows \in RowTable, NEW t \in Task, NEW i, i \in DOMAIN rows[t],
         NEW status, status \in RowStatus,
         rows' = [rows EXCEPT ![t][i].status = status]
  PROVE  /\ rows' \in RowTable
         /\ \A u \in Task : DOMAIN rows'[u] = DOMAIN rows[u]
         /\ \A u \in Task : \A j \in DOMAIN rows[u] : SameBut(u, j, u = t /\ j = i, status)
<1> DEFINE row == [rows[t][i] EXCEPT !.status = status]
           new == [rows[t] EXCEPT ![i] = row]
<1>1. rows[t] \in Seq(RowType) /\ Len(rows[t]) \in Nat /\ DOMAIN rows[t] = 1..Len(rows[t])
  BY DEF RowTable
<1>2. rows[t][i] \in RowType
  BY <1>1
<1>3. /\ row \in RowType /\ row.status = status
      /\ row.seg = rows[t][i].seg /\ row.attempt = rows[t][i].attempt
  BY <1>2, RowStatusField
<1>4. rows' = [rows EXCEPT ![t] = new]
  OBVIOUS
<1> HIDE DEF row
<1>5. new \in [1..Len(rows[t]) -> RowType]
  BY <1>1, <1>3
<1>6. new \in Seq(RowType) /\ DOMAIN new = DOMAIN rows[t]
  BY <1>1, <1>5
<1>7. \A j \in DOMAIN rows[t] : new[j] = IF j = i THEN row ELSE rows[t][j]
  BY <1>1
<1> HIDE DEF new
<1>8. /\ rows' \in RowTable
      /\ \A u \in Task : rows'[u] = IF u = t THEN new ELSE rows[u]
  BY <1>4, <1>6 DEF RowTable
<1> QED
  BY <1>3, <1>6, <1>7, <1>8 DEF SameBut

-----------------------------------------------------------------------------
(* Types.                                                                  *)

\* What a step leaves of the executor and the threads has their types.
LEMMA OffTypes == Off \in ExType /\ NoJob \in JobType
BY GraphAssumption DEF Off, NoJob, ExType, JobType, Segment

LEMMA RunFields ==
  ASSUME NEW r \in RunType
  PROVE  /\ \A x \in {"queued", "running", "waiting_approval"} \cup Terminal :
              [r EXCEPT !.status = x] \in RunType
         /\ \A x \in BOOLEAN : [r EXCEPT !.finished = x] \in RunType
BY DEF RunType

\* A thread's record, and its updates in terms of it.
Thread(step, attempt, seg, row) ==
  [step |-> step, attempt |-> attempt, seg |-> seg, row |-> row]

LEMMA JobFields ==
  ASSUME NEW j \in JobType
  PROVE  /\ j.attempt \in Nat \ {0} /\ j.seg \in Segment /\ j.row \in Nat
         /\ [j EXCEPT !.step = "check"] = Thread("check", j.attempt, j.seg, j.row)
         /\ [j EXCEPT !.step = "start"] = Thread("start", j.attempt, j.seg, j.row)
         /\ [j EXCEPT !.step = "exec"] = Thread("exec", j.attempt, j.seg, j.row)
         /\ [j EXCEPT !.step = "won"] = Thread("won", j.attempt, j.seg, j.row)
         /\ [j EXCEPT !.step = "lost"] = Thread("lost", j.attempt, j.seg, j.row)
BY DEF JobType, Thread

LEMMA JobLoads ==
  ASSUME NEW j \in JobType, NEW s \in Segment
  PROVE  [j EXCEPT !.step = "check", !.seg = s] = Thread("check", j.attempt, s, j.row)
<1> DEFINE k == Thread("check", j.attempt, j.seg, j.row)
<1>1. [j EXCEPT !.step = "check", !.seg = s] = [[j EXCEPT !.step = "check"] EXCEPT !.seg = s]
  OBVIOUS
<1>2. [j EXCEPT !.step = "check"] = k
  BY JobFields
<1>3. [k EXCEPT !.seg = s] = Thread("check", j.attempt, s, j.row)
  BY DEF Thread
<1> HIDE DEF k
<1>4. [[j EXCEPT !.step = "check"] EXCEPT !.seg = s] = [k EXCEPT !.seg = s]
  BY <1>2
<1> QED
  BY <1>1, <1>3, <1>4

LEMMA JobStarts ==
  ASSUME NEW j \in JobType, NEW i \in Nat
  PROVE  [j EXCEPT !.step = "exec", !.row = i] = Thread("exec", j.attempt, j.seg, i)
<1> DEFINE k == Thread("exec", j.attempt, j.seg, j.row)
<1>1. [j EXCEPT !.step = "exec", !.row = i] = [[j EXCEPT !.step = "exec"] EXCEPT !.row = i]
  OBVIOUS
<1>2. [j EXCEPT !.step = "exec"] = k
  BY JobFields
<1>3. [k EXCEPT !.row = i] = Thread("exec", j.attempt, j.seg, i)
  BY DEF Thread
<1> HIDE DEF k
<1>4. [[j EXCEPT !.step = "exec"] EXCEPT !.row = i] = [k EXCEPT !.row = i]
  BY <1>2
<1> QED
  BY <1>1, <1>3, <1>4

LEMMA JobRetries ==
  ASSUME NEW j \in JobType, NEW n \in Nat \ {0}
  PROVE  [j EXCEPT !.step = "check", !.attempt = n] = Thread("check", n, j.seg, j.row)
<1> DEFINE k == Thread("check", j.attempt, j.seg, j.row)
<1>1. [j EXCEPT !.step = "check", !.attempt = n] = [[j EXCEPT !.step = "check"] EXCEPT !.attempt = n]
  OBVIOUS
<1>2. [j EXCEPT !.step = "check"] = k
  BY JobFields
<1>3. [k EXCEPT !.attempt = n] = Thread("check", n, j.seg, j.row)
  BY DEF Thread
<1> HIDE DEF k
<1>4. [[j EXCEPT !.step = "check"] EXCEPT !.attempt = n] = [k EXCEPT !.attempt = n]
  BY <1>2
<1> QED
  BY <1>1, <1>3, <1>4

\* The updates of the executor's locals.
LEMMA ExFields ==
  ASSUME NEW e \in ExType
  PROVE  /\ \A x \in {"off", "poll", "dispatch", "wait", "final", "waiting_approval", "queued"} :
              [e EXCEPT !.step = x] \in ExType
         /\ \A S \in SUBSET Task : /\ [e EXCEPT !.won = S] \in ExType
                                   /\ [e EXCEPT !.lost = S] \in ExType
                                   /\ [e EXCEPT !.ready = S] \in ExType
                                   /\ [e EXCEPT !.pending = S] \in ExType
BY DEF ExType

\* A task at work keeps its row when rows are only added or settled.
LEMMA KeepsRows ==
  ASSUME TypeOK, rows' \in RowTable,
         \A t \in Task : DOMAIN rows[t] \subseteq DOMAIN rows'[t],
         \A t \in Task : job'[t].step = "exec" => job'[t] = job[t]
  PROVE  \A t \in Task : job'[t].step = "exec" => job'[t].row \in DOMAIN rows'[t]
BY DEF TypeOK

\* The executor's own steps.
LEMMA ExecutorStepTypes ==
  ASSUME TypeOK, Claim \/ Poll \/ Collect \/ ParkUpdate \/ ParkCommit \/ Finish
  PROVE  TypeOK'
<1> USE GraphAssumption
<1>1. CASE Claim
  <2>1. run' \in RunType /\ gone' \in BOOLEAN
    BY <1>1, RunFields DEF Claim, TypeOK
  <2>2. run.seg \in Segment
    BY DEF TypeOK, RunType
  <2>3. ex' \in ExType
    <3>1. Satisfied \subseteq Task /\ \A s, S : Decided(s, S) \subseteq Task
      BY DEF Satisfied, Decided
    <3> QED
      BY <1>1, <2>2, <3>1, OffTypes DEF Claim, ExType
  <2> QED
    BY <1>1, <2>1, <2>3 DEF Claim, TypeOK
<1>2. CASE Poll
  <2>1. Stopped(ex.seg) \in BOOLEAN /\ Ready \subseteq Task
    BY DEF Stopped, Ready, TypeOK, ExType
  <2>2. ex' \in ExType
    BY <1>2, <2>1 DEF Poll, TypeOK, ExType
  <2> QED
    BY <1>2, <2>2 DEF Poll, TypeOK
<1>3. CASE Collect
  <2>1. ex' \in ExType
    BY <1>3 DEF Collect, TypeOK, ExType, Done
  <2>2. job' \in [Task -> JobType] /\ \A t \in Task : job'[t].step = "exec" => job'[t] = job[t]
    BY <1>3, OffTypes DEF Collect, TypeOK, NoJob
  <2> QED
    BY <1>3, <2>1, <2>2 DEF Collect, TypeOK
<1>4. CASE ParkUpdate
  <2>1. ex' \in ExType
    BY <1>4 DEF ParkUpdate, TypeOK, ExType
  <2> QED
    BY <1>4, <2>1 DEF ParkUpdate, TypeOK
<1>5. CASE ParkCommit
  <2>1. run' \in RunType
    BY <1>5, RunFields DEF ParkCommit, Parking, TypeOK
  <2> QED
    BY <1>5, <2>1, OffTypes DEF ParkCommit, TypeOK
<1>6. CASE Finish
  <2>1. Outcome \in Terminal
    BY DEF Outcome, Terminal
  <2>2. [run EXCEPT !.status = IF @ = "running" THEN Outcome ELSE @] \in RunType
    <3>1. (IF run.status = "running" THEN Outcome ELSE run.status)
            \in {"queued", "running", "waiting_approval"} \cup Terminal
      BY <2>1 DEF TypeOK, RunType
    <3> QED
      BY <3>1, RunFields DEF TypeOK
  <2>3. run' \in RunType
    <3> DEFINE r == [run EXCEPT !.status = IF @ = "running" THEN Outcome ELSE @]
    <3>1. run' = run \/ run' = [r EXCEPT !.finished = TRUE]
      BY <1>6 DEF Finish
    <3>2. r \in RunType
      BY <2>2
    <3> HIDE DEF r
    <3> QED
      BY <3>1, <3>2, RunFields DEF TypeOK
  <2>4. rows' \in RowTable /\ \A t \in Task : DOMAIN rows'[t] = DOMAIN rows[t]
    <3>1. CASE rows' = rows
      BY <3>1 DEF TypeOK, RowTable
    <3>2. CASE rows' = Settle(rows, "awaiting_approval", "cancelled")
      <4>1. rows \in RowTable /\ "cancelled" \in RowStatus
        BY DEF TypeOK, RowTable, RowStatus
      <4> QED
        BY <3>2, <4>1, SettleTable
    <3> QED
      BY <1>6, <3>1, <3>2 DEF Finish
  <2> QED
    BY <1>6, <2>3, <2>4, OffTypes DEF Finish, TypeOK, RowTable
<1> QED
  BY <1>1, <1>2, <1>3, <1>4, <1>5, <1>6

\* Dispatching a task, and what its thread does.
LEMMA TaskStepTypes ==
  ASSUME TypeOK, NEW t \in Task, Dispatch(t) \/ JobNext(t)
  PROVE  TypeOK'
<1> USE GraphAssumption
<1>1. rows \in RowTable /\ ex.seg \in Segment /\ job[t] \in JobType
  BY DEF TypeOK, RowTable, ExType
<1>2. ASSUME NEW s \in Segment, NEW n \in Nat, NEW status \in RowStatus
      PROVE  Row(s, n, status) \in RowType
  BY DEF Row, RowType
<1>3. CASE Dispatch(t)
  <2>1. ex' \in ExType
    <3> DEFINE pick == [ex EXCEPT !.ready = ex.ready \ {t}]
               rest == [pick EXCEPT !.step = IF ex.ready = {t} THEN "poll" ELSE "dispatch"]
    <3>1. ex.ready \ {t} \in SUBSET Task /\ ex.lost \cup {t} \in SUBSET Task
          /\ ex.pending \cup {t} \in SUBSET Task
      BY DEF TypeOK, ExType
    <3>2. pick \in ExType
      BY <3>1, ExFields DEF TypeOK
    <3> HIDE DEF pick
    <3>3. rest \in ExType
      BY <3>2, ExFields
    <3>4. \/ ex' = rest
          \/ ex' = [rest EXCEPT !.lost = ex.lost \cup {t}]
          \/ ex' = [rest EXCEPT !.pending = ex.pending \cup {t}]
      BY <1>3 DEF Dispatch, pick
    <3> HIDE DEF rest
    <3> QED
      BY <3>1, <3>3, <3>4, ExFields
  <2>2. rows' \in RowTable /\ \A u \in Task : DOMAIN rows[u] \subseteq DOMAIN rows'[u]
    <3>1. CASE rows' = rows
      BY <1>1, <3>1
    <3>2. ASSUME NEW n \in {0, 1}, NEW status \in {"cancelled", "skipped", "awaiting_approval"},
                 rows' = Write(t, Row(ex.seg, n, status))
          PROVE  rows' \in RowTable /\ \A u \in Task : DOMAIN rows[u] \subseteq DOMAIN rows'[u]
      <4>1. Row(ex.seg, n, status) \in RowType
        BY <1>1, <1>2 DEF RowStatus, GateStatus
      <4> QED
        BY <1>1, <3>2, <4>1, WriteTable
    <3> QED
      BY <1>3, <3>1, <3>2 DEF Dispatch
  <2>3. job' \in [Task -> JobType] /\ \A u \in Task : job'[u].step = "exec" => job'[u] = job[u]
    <3>1. [NoJob EXCEPT !.step = "queued"] \in JobType /\ [NoJob EXCEPT !.step = "queued"].step = "queued"
      BY OffTypes DEF JobType, NoJob
    <3> QED
      BY <1>3, <3>1 DEF Dispatch, TypeOK
  <2> QED
    BY <1>3, <2>1, <2>2, <2>3, KeepsRows DEF Dispatch, TypeOK, RowTable
<1>4. CASE JobLoad(t)
  <2> DEFINE k == [job[t] EXCEPT !.step = "check", !.seg = run.seg]
  <2>2. job' = [job EXCEPT ![t] = k]
    BY <1>4 DEF JobLoad, TypeOK
  <2>3. run.seg \in Segment
    BY DEF TypeOK, RunType
  <2>5. k = Thread("check", job[t].attempt, run.seg, job[t].row)
    BY <1>1, <2>3, JobLoads
  <2> HIDE DEF k
  <2>1. k \in JobType /\ k.step = "check"
    BY <1>1, <2>3, <2>5 DEF Thread, JobType
  <2>4. job' \in [Task -> JobType] /\ \A u \in Task : job'[u].step = "exec" => job'[u] = job[u]
    BY <2>1, <2>2 DEF TypeOK
  <2> QED
    BY <1>4, <2>4 DEF JobLoad, TypeOK
<1>5. CASE JobCheck(t)
  <2>1. job' \in [Task -> JobType] /\ \A u \in Task : job'[u].step = "exec" => job'[u] = job[u]
    <3>1. PICK k : /\ job' = [job EXCEPT ![t] = k]
                   /\ \E x \in {"lost", "start"} : k = Thread(x, job[t].attempt, job[t].seg, job[t].row)
      BY <1>1, <1>5, JobFields DEF JobCheck
    <3>2. k \in JobType /\ k.step # "exec"
      BY <1>1, <3>1 DEF Thread, JobType
    <3> QED
      BY <3>1, <3>2 DEF TypeOK
  <2>2. rows' \in RowTable /\ \A u \in Task : DOMAIN rows[u] \subseteq DOMAIN rows'[u]
    <3>1. CASE rows' = rows
      BY <1>1, <3>1
    <3>2. CASE rows' = Write(t, Row(job[t].seg, 1, "cancelled"))
      <4>1. Row(job[t].seg, 1, "cancelled") \in RowType
        BY <1>1, <1>2 DEF JobType, RowStatus
      <4> QED
        BY <1>1, <3>2, <4>1, WriteTable
    <3> QED
      BY <1>5, <3>1, <3>2 DEF JobCheck
  <2> QED
    BY <1>5, <2>1, <2>2, KeepsRows DEF JobCheck, TypeOK, RowTable
<1>6. CASE JobStart(t)
  <2> DEFINE row == Row(job[t].seg, job[t].attempt, "running")
  <2>1. row \in RowType
    BY <1>1, <1>2 DEF JobType, RowStatus
  <2>2. rows' \in RowTable /\ \A u \in Task : DOMAIN rows[u] \subseteq DOMAIN rows'[u]
    BY <1>1, <1>6, <2>1, WriteTable DEF JobStart
  <2>3. Len(rows[t]) + 1 \in DOMAIN rows'[t] /\ Len(rows[t]) \in Nat
    BY <1>1, <1>6, <2>1 DEF JobStart, Write, RowTable
  <2> DEFINE k == [job[t] EXCEPT !.step = "exec", !.row = Len(rows[t]) + 1]
  <2>4. Len(rows[t]) + 1 \in Nat
    BY <2>3
  <2>5. job' = [job EXCEPT ![t] = k]
    BY <1>6 DEF JobStart, TypeOK
  <2>8. k = Thread("exec", job[t].attempt, job[t].seg, Len(rows[t]) + 1)
    BY <1>1, <2>4, JobStarts
  <2> HIDE DEF k
  <2>6. k \in JobType /\ k.row = Len(rows[t]) + 1
    BY <1>1, <2>4, <2>8 DEF Thread, JobType
  <2>7. job' \in [Task -> JobType]
        /\ \A u \in Task : job'[u].step = "exec" => job'[u].row \in DOMAIN rows'[u]
    BY <2>2, <2>3, <2>4, <2>5, <2>6 DEF TypeOK
  <2> QED
    BY <1>6, <2>2, <2>7 DEF JobStart, TypeOK, RowTable
<1>7. CASE JobEnd(t)
  <2>1. PICK result \in {"success", "failed"} \cup (IF Stopped(job[t].seg) THEN {"cancelled"} ELSE {}) :
          /\ rows' = [rows EXCEPT ![t][job[t].row].status = result]
          /\ job' = [job EXCEPT ![t] =
               IF result = "success" THEN [@ EXCEPT !.step = "won"]
               ELSE IF result = "failed" /\ job[t].attempt < Attempts[t]
                    THEN [@ EXCEPT !.step = "check", !.attempt = job[t].attempt + 1]
               ELSE [@ EXCEPT !.step = "lost"]]
    BY <1>7, Zenon DEF JobEnd
  <2>2. job[t].row \in DOMAIN rows[t] /\ result \in RowStatus
    <3>1. job[t].step = "exec"
      BY <1>7 DEF JobEnd
    <3>2. job[t].row \in DOMAIN rows[t]
      BY <3>1 DEF TypeOK
    <3> QED
      BY <2>1, <3>2 DEF RowStatus
  <2>3. rows' \in RowTable /\ \A u \in Task : DOMAIN rows'[u] = DOMAIN rows[u]
    BY <1>1, <2>1, <2>2, SetStatusStep
  <2>4. job[t].attempt + 1 \in Nat \ {0}
    BY <1>1 DEF JobType
  <2>5. PICK k : /\ job' = [job EXCEPT ![t] = k]
                 /\ \/ k = Thread("won", job[t].attempt, job[t].seg, job[t].row)
                    \/ k = Thread("lost", job[t].attempt, job[t].seg, job[t].row)
                    \/ k = Thread("check", job[t].attempt + 1, job[t].seg, job[t].row)
    BY <1>1, <2>1, <2>4, JobFields, JobRetries
  <2>7. k \in JobType /\ k.step # "exec"
    BY <1>1, <2>4, <2>5 DEF Thread, JobType
  <2>6. job' \in [Task -> JobType] /\ \A u \in Task : job'[u].step = "exec" => job'[u] = job[u]
    BY <2>5, <2>7 DEF TypeOK
  <2> QED
    BY <1>7, <2>3, <2>6, KeepsRows DEF JobEnd, TypeOK, RowTable
<1> QED
  BY <1>3, <1>4, <1>5, <1>6, <1>7 DEF JobNext

\* Settling rows once, or twice as recovery does, keeps the table.
LEMMA SettledTypes ==
  ASSUME TypeOK
  PROVE  LET once  == Settle(rows, "awaiting_approval", "cancelled")
             twice == Settle(Settle(rows, "running", "failed"), "awaiting_approval", "cancelled")
         IN /\ once \in RowTable /\ \A t \in Task : DOMAIN once[t] = DOMAIN rows[t]
            /\ twice \in RowTable /\ \A t \in Task : DOMAIN twice[t] = DOMAIN rows[t]
<1> DEFINE first == Settle(rows, "running", "failed")
<1>1. rows \in RowTable /\ "cancelled" \in RowStatus /\ "failed" \in RowStatus
  BY DEF TypeOK, RowTable, RowStatus
<1>2. /\ Settle(rows, "awaiting_approval", "cancelled") \in RowTable
      /\ \A t \in Task : DOMAIN Settle(rows, "awaiting_approval", "cancelled")[t] = DOMAIN rows[t]
  BY <1>1, SettleTable
<1>3. first \in RowTable /\ \A t \in Task : DOMAIN first[t] = DOMAIN rows[t]
  BY <1>1, SettleTable
<1> HIDE DEF first
<1>4. /\ Settle(first, "awaiting_approval", "cancelled") \in RowTable
      /\ \A t \in Task : DOMAIN Settle(first, "awaiting_approval", "cancelled")[t] = DOMAIN first[t]
  BY <1>1, <1>3, SettleTable
<1> QED
  BY <1>2, <1>3, <1>4 DEF first

\* Requests.
LEMMA RequestStepTypes ==
  ASSUME TypeOK,
         \/ CancelRun
         \/ \E forced \in SUBSET Forcible : ResumeRun(forced)
         \/ \E t \in Task : DecisionNext(t)
  PROVE  TypeOK'
<1> USE GraphAssumption
<1>1. CASE CancelRun
  <2>1. run' \in RunType
    BY <1>1 DEF CancelRun, TypeOK, RunType, Terminal
  <2> QED
    BY <1>1, <2>1, SettledTypes DEF CancelRun, TypeOK, RowTable
<1>2. ASSUME NEW forced \in SUBSET Forcible, ResumeRun(forced)
      PROVE  TypeOK'
  <2>1. run' \in RunType /\ run.seg + 1 \in Segment
    BY <1>2 DEF ResumeRun, TypeOK, RunType, Segment
  <2>2. Row(run.seg + 1, 0, "cancelled") \in RowType
    BY <2>1 DEF Row, RowType, RowStatus
  <2>3. \A t \in Task :
          /\ rows[t] \in Seq(RowType) /\ DOMAIN rows[t] = 1..Len(rows[t]) /\ Len(rows[t]) \in Nat
          /\ Append(rows[t], Row(run.seg + 1, 0, "cancelled")) \in Seq(RowType)
          /\ DOMAIN Append(rows[t], Row(run.seg + 1, 0, "cancelled")) = 1..(Len(rows[t]) + 1)
    BY <2>2 DEF TypeOK
  <2>4. \A t \in Task : rows'[t] \in {rows[t], Append(rows[t], Row(run.seg + 1, 0, "cancelled"))}
    BY <1>2 DEF ResumeRun
  <2>5. rows' \in RowTable /\ \A t \in Task : DOMAIN rows[t] \subseteq DOMAIN rows'[t]
    <3>1. rows' \in [Task -> Seq(RowType)]
      BY <1>2, <2>3, <2>4 DEF ResumeRun
    <3>2. ASSUME NEW t \in Task PROVE DOMAIN rows[t] \subseteq DOMAIN rows'[t]
      <4>1. 1..Len(rows[t]) \subseteq 1..(Len(rows[t]) + 1)
        BY <2>3
      <4> QED
        BY <2>3, <2>4, <4>1
    <3> QED
      BY <3>1, <3>2 DEF RowTable
  <2> QED
    BY <1>2, <2>1, <2>5, KeepsRows DEF ResumeRun, TypeOK, RowTable
<1>3. ASSUME NEW t \in Task, DecisionNext(t)
      PROVE  TypeOK'
  <2>1. CASE DecideGate(t)
    <3>1. PICK i \in DOMAIN rows[t], answer \in {"approved", "rejected"} :
            rows' = [rows EXCEPT ![t][i].status = answer]
      BY <2>1 DEF DecideGate
    <3>2. rows' \in RowTable /\ \A u \in Task : DOMAIN rows'[u] = DOMAIN rows[u]
      <4>1. answer \in RowStatus /\ rows \in RowTable
        BY DEF RowStatus, GateStatus, TypeOK, RowTable
      <4> QED
        BY <3>1, <4>1, SetStatusStep
    <3> QED
      BY <2>1, <3>2, KeepsRows DEF DecideGate, TypeOK, RowTable
  <2>2. CASE CountGates(t)
    BY <2>2 DEF CountGates, TypeOK
  <2>3. CASE Requeue(t)
    <3>1. run' \in RunType
      BY <2>3 DEF Requeue, TypeOK, RunType
    <3> QED
      BY <2>3, <3>1 DEF Requeue, TypeOK
  <2> QED
    BY <1>3, <2>1, <2>2, <2>3 DEF DecisionNext
<1> QED
  BY <1>1, <1>2, <1>3

\* The loss of a worker and the recovery.
LEMMA RecoveryStepTypes ==
  ASSUME TypeOK, LoseWorker \/ Recover
  PROVE  TypeOK'
<1>1. CASE LoseWorker
  <2>1. /\ ex' \in ExType /\ job' \in [Task -> JobType]
        /\ \A t \in Task : job'[t].step = "exec" => job'[t] = job[t]
    BY <1>1, OffTypes DEF LoseWorker, TypeOK, NoJob
  <2>2. cut' \in Segment
    BY <1>1 DEF LoseWorker, TypeOK, ExType
  <2> QED
    BY <1>1, <2>1, <2>2 DEF LoseWorker, TypeOK
<1>2. CASE Recover
  <2>1. run' \in RunType
    BY <1>2 DEF Recover, TypeOK, RunType, Terminal
  <2>2. rows' \in RowTable /\ \A t \in Task : DOMAIN rows'[t] = DOMAIN rows[t]
    BY <1>2, SettledTypes DEF Recover, TypeOK, RowTable
  <2> QED
    BY <1>2, <2>1, <2>2 DEF Recover, TypeOK, RowTable
<1> QED
  BY <1>1, <1>2

LEMMA InitTypes == Init => TypeOK
BY GraphAssumption, OffTypes DEF Init, TypeOK, RunType, Segment, NoJob

LEMMA StepTypes == TypeOK /\ [Next]_vars => TypeOK'
<1>1. TypeOK /\ UNCHANGED vars => TypeOK'
  BY DEF vars, TypeOK
<1> QED
  BY <1>1, ExecutorStepTypes, TaskStepTypes, RequestStepTypes, RecoveryStepTypes DEF Next

\* Every variable keeps its type for every task graph, through decisions,
\* cancels, resumes, crashes and stalls; a task at work never loses its row.
THEOREM TypeCorrect == Spec => []TypeOK
<1> QED
  BY InitTypes, StepTypes, PTL DEF Spec

-----------------------------------------------------------------------------
(* The inductive invariant.  A gated task starts only behind an approval of *)
(* the segment it is dispatched in; that the approval still is its          *)
(* segment's when its row is written needs that executor, threads and run   *)
(* agree on the segment (Served), that no row ever loses an approval, and   *)
(* that gate rows and attempts are different rows (GateRows).               *)

Approved(table, t, segment) ==
  \E i \in DOMAIN table[t] : table[t][i].seg = segment /\ table[t][i].status = "approved"

Worked(table, t, i) ==
  table[t][i].attempt > 0 /\ table[t][i].status \in {"running", "success", "failed"}

\* The run is its executor's for as long as it has one; threads serve it.
Served ==
  /\ gone => ex.step = "off"
  /\ ex.step # "off" =>
       /\ run.seg = ex.seg
       /\ run.status = "running" \/ (run.status = "cancelled" /\ ~run.finished)
  /\ ex.step \in {"off", "final", "waiting_approval", "queued"} =>
       \A t \in Task : job[t].step = "none"
  /\ JobsServeTheirSegment

GateRows ==
  \A t \in Task : \A i \in DOMAIN rows[t] :
    rows[t][i].status \in GateStatus => rows[t][i].attempt = 0

\* A task's thread writes to a row of its own, and has its approval.
AtWork(t) ==
  /\ job[t].step = "exec" =>
       rows[t][job[t].row].seg = job[t].seg /\ rows[t][job[t].row].attempt > 0
  /\ (t \in Gated /\ job[t].step \in {"queued", "check", "start", "exec"}) =>
       Approved(rows, t, ex.seg)

IInv ==
  TypeOK /\ Served /\ GateRows /\ (\A t \in Task : AtWork(t)) /\ ApprovedBeforeExecuted

\* How a step may change the rows.
RowStep ==
  \A t \in Task :
    /\ DOMAIN rows[t] \subseteq DOMAIN rows'[t]
    /\ \A i \in DOMAIN rows[t] :
         /\ rows'[t][i].seg = rows[t][i].seg
         /\ rows'[t][i].attempt = rows[t][i].attempt
         /\ rows[t][i].status = "approved" => rows'[t][i].status = "approved"
    /\ \A i \in DOMAIN rows'[t] :
         /\ rows'[t][i].status \in GateStatus => rows'[t][i].attempt = 0
         /\ (t \in Gated /\ Worked(rows', t, i)) =>
              \/ i \in DOMAIN rows[t] /\ Worked(rows, t, i)
              \/ Approved(rows, t, rows'[t][i].seg)

\* A step that leaves the rows alone.
LEMMA RowsSame ==
  ASSUME GateRows, rows' = rows
  PROVE  RowStep
BY DEF RowStep, GateRows

\* A step that appends a row.
LEMMA RowAdded ==
  ASSUME TypeOK, GateRows, NEW t \in Task, NEW row \in RowType, rows' = Write(t, row),
         row.status \in GateStatus => row.attempt = 0,
         (t \in Gated /\ row.attempt > 0 /\ row.status \in {"running", "success", "failed"})
           => Approved(rows, t, row.seg)
  PROVE  RowStep
<1>1. rows \in RowTable
  BY DEF TypeOK, RowTable
<1>2. /\ \A u \in Task : DOMAIN rows[u] \subseteq DOMAIN rows'[u]
      /\ \A u \in Task : \A i \in DOMAIN rows[u] : rows'[u][i] = rows[u][i]
      /\ \A u \in Task : \A i \in DOMAIN rows'[u] :
           \/ i \in DOMAIN rows[u] /\ rows'[u][i] = rows[u][i]
           \/ u = t /\ rows'[u][i] = row
  BY <1>1, WriteTable
<1> QED
  BY <1>2 DEF RowStep, GateRows, Worked

\* A step that gives one row another status (see SetStatusStep).
LEMMA RowSet ==
  ASSUME GateRows, NEW t \in Task, NEW i \in DOMAIN rows[t], NEW status,
         \A u \in Task : DOMAIN rows'[u] = DOMAIN rows[u],
         \A u \in Task : \A j \in DOMAIN rows[u] : SameBut(u, j, u = t /\ j = i, status),
         rows[t][i].status # "approved",
         status \in GateStatus => rows[t][i].attempt = 0,
         (t \in Gated /\ rows[t][i].attempt > 0) => Approved(rows, t, rows[t][i].seg)
  PROVE  RowStep
<1>1. ASSUME NEW u \in Task, NEW j \in DOMAIN rows[u]
      PROVE  /\ rows[u][j].status = "approved" => rows'[u][j].status = "approved"
             /\ rows'[u][j].status \in GateStatus => rows'[u][j].attempt = 0
             /\ (u \in Gated /\ Worked(rows', u, j)) =>
                  Worked(rows, u, j) \/ Approved(rows, u, rows'[u][j].seg)
  BY <1>1 DEF GateRows, Worked, SameBut
<1> QED
  BY <1>1 DEF RowStep, SameBut

\* Recovery, a cancel and a finalize settle rows.
LEMMA RowsSettled ==
  ASSUME TypeOK, GateRows,
         \/ rows' = Settle(rows, "awaiting_approval", "cancelled")
         \/ rows' = Settle(Settle(rows, "running", "failed"), "awaiting_approval", "cancelled")
  PROVE  RowStep
<1>1. rows \in RowTable /\ "cancelled" \in RowStatus /\ "failed" \in RowStatus
  BY DEF TypeOK, RowTable, RowStatus
<1>2. ASSUME NEW table \in RowTable, NEW from, NEW to \in RowStatus,
             NEW u \in Task, NEW i \in DOMAIN table[u]
      PROVE  /\ i \in DOMAIN Settle(table, from, to)[u]
             /\ Settle(table, from, to)[u][i].seg = table[u][i].seg
             /\ Settle(table, from, to)[u][i].attempt = table[u][i].attempt
             /\ Settle(table, from, to)[u][i].status =
                  IF table[u][i].status = from THEN to ELSE table[u][i].status
  BY <1>2, SettleRow
<1> DEFINE first == Settle(rows, "running", "failed")
<1>3. first \in RowTable /\ \A u \in Task : DOMAIN first[u] = DOMAIN rows[u]
  BY <1>1, SettleTable
<1>4. \A u \in Task : DOMAIN rows'[u] = DOMAIN rows[u]
  BY SettledTypes
<1>5. ASSUME NEW u \in Task, NEW i \in DOMAIN rows[u]
      PROVE  /\ rows'[u][i].seg = rows[u][i].seg
             /\ rows'[u][i].attempt = rows[u][i].attempt
             /\ \/ rows'[u][i].status = rows[u][i].status
                \/ rows[u][i].status = "awaiting_approval" /\ rows'[u][i].status = "cancelled"
                \/ rows[u][i].status = "running" /\ rows'[u][i].status = "failed"
  <2>1. CASE rows' = Settle(rows, "awaiting_approval", "cancelled")
    BY <1>1, <1>2, <2>1
  <2>2. CASE rows' = Settle(first, "awaiting_approval", "cancelled")
    <3>1. /\ i \in DOMAIN first[u]
          /\ first[u][i].seg = rows[u][i].seg /\ first[u][i].attempt = rows[u][i].attempt
          /\ first[u][i].status = IF rows[u][i].status = "running" THEN "failed" ELSE rows[u][i].status
      BY <1>1, <1>2
    <3> HIDE DEF first
    <3>2. /\ rows'[u][i].seg = first[u][i].seg /\ rows'[u][i].attempt = first[u][i].attempt
          /\ rows'[u][i].status =
               IF first[u][i].status = "awaiting_approval" THEN "cancelled" ELSE first[u][i].status
      BY <1>1, <1>2, <1>3, <2>2, <3>1
    <3> QED
      BY <3>1, <3>2
  <2> QED
    BY <2>1, <2>2
<1> QED
  BY <1>4, <1>5 DEF RowStep, GateRows, Worked, GateStatus

\* What such a step keeps.
LEMMA RowStepKeeps ==
  ASSUME TypeOK, TypeOK', ApprovedBeforeExecuted, RowStep
  PROVE  /\ GateRows'
         /\ ApprovedBeforeExecuted'
         /\ \A t \in Task, s \in Segment : Approved(rows, t, s) => Approved(rows, t, s)'
<1>1. GateRows'
  BY DEF RowStep, GateRows
<1>2. ASSUME NEW t \in Task, NEW s \in Segment, Approved(rows, t, s)
      PROVE  Approved(rows, t, s)'
  <2>1. PICK i \in DOMAIN rows[t] : rows[t][i].seg = s /\ rows[t][i].status = "approved"
    BY <1>2 DEF Approved
  <2>2. i \in DOMAIN rows'[t] /\ rows'[t][i].seg = s /\ rows'[t][i].status = "approved"
    BY <2>1 DEF RowStep
  <2> QED
    BY <2>2 DEF Approved
<1>3. ASSUME NEW t \in Gated, NEW s \in Segment, Executed(t, s)' # {}
      PROVE  Approved(rows, t, s)'
  <2>1. t \in Task
    BY GraphAssumption
  <2>2. PICK i \in DOMAIN rows'[t] : rows'[t][i].seg = s /\ Worked(rows', t, i)
    BY <1>3 DEF Executed, Worked
  <2>3. CASE i \in DOMAIN rows[t] /\ Worked(rows, t, i)
    <3>1. rows[t][i].seg = s
      BY <2>1, <2>2, <2>3 DEF RowStep
    <3>2. i \in Executed(t, s)
      BY <2>3, <3>1 DEF Executed, Worked
    <3>3. Approved(rows, t, s)
      BY <3>2 DEF ApprovedBeforeExecuted, Approved
    <3> QED
      BY <1>2, <2>1, <3>3
  <2>4. CASE Approved(rows, t, rows'[t][i].seg)
    BY <1>2, <2>1, <2>2, <2>4
  <2> QED
    BY <2>1, <2>2, <2>3, <2>4 DEF RowStep
<1>4. ApprovedBeforeExecuted'
  BY <1>3 DEF ApprovedBeforeExecuted, Approved
<1> QED
  BY <1>1, <1>2, <1>4

\* A thread that a step leaves alone, or takes off its task, stays in order.
LEMMA WorkKept ==
  ASSUME IInv, TypeOK', RowStep, NEW t \in Task,
         \/ job'[t] = job[t] /\ (job[t].step # "none" => ex'.seg = ex.seg)
         \/ job'[t].step \in {"none", "won", "lost"}
  PROVE  AtWork(t)'
<1>1. CASE job'[t].step \in {"none", "won", "lost"}
  BY <1>1 DEF AtWork
<1>2. CASE job'[t] = job[t] /\ job[t].step # "none" /\ ex'.seg = ex.seg
  <2>1. ASSUME job[t].step = "exec"
        PROVE  rows'[t][job[t].row].seg = job[t].seg /\ rows'[t][job[t].row].attempt > 0
    <3>1. job[t].row \in DOMAIN rows[t]
      BY <2>1 DEF IInv, TypeOK
    <3>2. rows'[t][job[t].row].seg = rows[t][job[t].row].seg
          /\ rows'[t][job[t].row].attempt = rows[t][job[t].row].attempt
      BY <3>1 DEF RowStep
    <3> QED
      BY <2>1, <3>2 DEF IInv, AtWork
  <2>2. ex.seg \in Segment
    BY DEF IInv, TypeOK, ExType
  <2>3. Approved(rows, t, ex.seg) => Approved(rows', t, ex.seg)
    BY <2>2, RowStepKeeps DEF IInv, Approved
  <2> QED
    BY <1>2, <2>1, <2>3 DEF IInv, AtWork
<1> QED
  BY <1>1, <1>2

\* The executor's own steps.
LEMMA ExecutorStepSafe ==
  ASSUME IInv, Claim \/ Poll \/ Collect \/ ParkUpdate \/ ParkCommit \/ Finish
  PROVE  Served' /\ RowStep /\ \A t \in Task : AtWork(t)'
<1>1. TypeOK /\ TypeOK' /\ Served /\ GateRows
  BY ExecutorStepTypes DEF IInv
<1>2. RowStep
  <2>1. CASE rows' = rows
    BY <1>1, <2>1, RowsSame
  <2>2. CASE rows' = Settle(rows, "awaiting_approval", "cancelled")
    BY <1>1, <2>2, RowsSettled
  <2> QED
    BY <2>1, <2>2 DEF Claim, Poll, Collect, ParkUpdate, ParkCommit, Finish
<1>3. NoJob.step = "none" /\ Off.step = "off"
  BY DEF NoJob, Off
<1>4. CASE Claim
  <2>1. ex'.step = "poll" /\ ex'.seg = run.seg /\ run'.seg = run.seg /\ run'.status = "running"
    BY <1>1, <1>4 DEF Claim, Off, TypeOK, RunType
  <2>2. \A t \in Task : job'[t].step = "none" /\ job'[t] = job[t]
    BY <1>1, <1>4 DEF Claim, Served
  <2>3. Served' /\ \A t \in Task : AtWork(t)'
    BY <1>4, <2>1, <2>2 DEF Claim, Served, JobsServeTheirSegment, Busy, AtWork
  <2> QED
    BY <1>2, <2>3
<1>5. CASE Poll
  <2>1. /\ ex'.seg = ex.seg /\ ex.step = "poll"
        /\ ex'.step \in {"dispatch", "wait", "final"}
        /\ ex'.step = "final" => Running = {}
    BY <1>1, <1>5 DEF Poll, TypeOK, ExType
  <2>2. Served'
    BY <1>1, <1>5, <2>1 DEF Poll, Served, JobsServeTheirSegment, Busy, Running
  <2>3. \A t \in Task : AtWork(t)'
    BY <1>1, <1>2, <1>5, <2>1, WorkKept DEF Poll
  <2> QED
    BY <1>2, <2>2, <2>3
<1>6. CASE Collect
  <2>1. ex'.seg = ex.seg /\ ex.step = "wait" /\ ex'.step = "poll"
    BY <1>1, <1>6 DEF Collect, TypeOK, ExType
  <2>2. \A t \in Task : job'[t] = job[t] \/ job'[t].step = "none"
    BY <1>3, <1>6 DEF Collect
  <2>3. Served'
    BY <1>1, <1>6, <2>1, <2>2 DEF Collect, Served, JobsServeTheirSegment, Busy
  <2>4. \A t \in Task : AtWork(t)'
    BY <1>1, <1>2, <2>1, <2>2, WorkKept
  <2> QED
    BY <1>2, <2>3, <2>4
<1>7. CASE ParkUpdate
  <2>1. /\ ex'.seg = ex.seg /\ ex.step = "final"
        /\ ex'.step \in {"waiting_approval", "queued"}
    BY <1>1, <1>7 DEF ParkUpdate, TypeOK, ExType
  <2>2. Served'
    BY <1>1, <1>7, <2>1 DEF ParkUpdate, Served, JobsServeTheirSegment, Busy
  <2>3. \A t \in Task : AtWork(t)'
    BY <1>1, <1>2, <1>7, <2>1, WorkKept DEF ParkUpdate
  <2> QED
    BY <1>2, <2>2, <2>3
<1>8. CASE ParkCommit \/ Finish
  <2>1. ex' = Off /\ job' = job /\ \A t \in Task : job'[t].step = "none"
    BY <1>1, <1>8 DEF ParkCommit, Parking, Finish, Served
  <2>2. Served' /\ \A t \in Task : AtWork(t)'
    BY <1>3, <2>1 DEF Served, JobsServeTheirSegment, Busy, AtWork
  <2> QED
    BY <1>2, <2>2
<1> QED
  BY <1>4, <1>5, <1>6, <1>7, <1>8

\* Dispatching a task.
LEMMA DispatchSafe ==
  ASSUME IInv, NEW t \in Task, Dispatch(t)
  PROVE  Served' /\ RowStep /\ \A u \in Task : AtWork(u)'
<1>1. TypeOK /\ TypeOK' /\ Served /\ GateRows /\ ex.seg \in Segment
  BY TaskStepTypes DEF IInv, TypeOK, ExType
<1>2. ASSUME NEW n \in {0, 1}, NEW status \in {"cancelled", "skipped", "awaiting_approval"},
             status = "awaiting_approval" => n = 0,
             rows' = Write(t, Row(ex.seg, n, status))
      PROVE  RowStep
  <2> DEFINE row == Row(ex.seg, n, status)
  <2>1. /\ row \in RowType /\ row.seg = ex.seg /\ row.attempt = n /\ row.status = status
    BY <1>1 DEF Row, RowType, RowStatus, GateStatus
  <2> HIDE DEF row
  <2>2. rows' = Write(t, row)
    BY <1>2 DEF row
  <2> QED
    BY <1>1, <1>2, <2>1, <2>2, RowAdded DEF GateStatus
<1>3. RowStep
  <2>1. CASE rows' = rows
    BY <1>1, <2>1, RowsSame
  <2> QED
    BY <1>2, <2>1, Dispatch(t) DEF Dispatch
<1>4. /\ ex.step = "dispatch" /\ ex'.step \in {"poll", "dispatch"} /\ ex'.seg = ex.seg
      /\ run' = run /\ gone' = gone
  BY <1>1 DEF Dispatch, TypeOK, ExType
<1>5. \/ job' = job
      \/ /\ job' = [job EXCEPT ![t] = [NoJob EXCEPT !.step = "queued"]]
         /\ t \in Gated => GateIs(t, ex.seg, "approved")
  BY DEF Dispatch
<1>6. [NoJob EXCEPT !.step = "queued"].step = "queued"
  BY DEF NoJob
<1>7. /\ \A u \in Task : u # t => job'[u] = job[u]
      /\ job'[t] = job[t] \/ job'[t].step = "queued"
  BY <1>1, <1>5, <1>6 DEF TypeOK
<1>8. Served'
  BY <1>1, <1>4, <1>7 DEF Served, JobsServeTheirSegment, Busy
<1>9. ASSUME NEW u \in Task PROVE AtWork(u)'
  <2>1. CASE job'[u] = job[u]
    BY <1>1, <1>3, <1>4, <2>1, WorkKept
  <2>2. CASE u = t /\ job'[t] # job[t]
    <3>1. t \in Gated => Approved(rows, t, ex.seg)
      BY <1>5, <2>2 DEF GateIs, Approved
    <3>2. t \in Gated => Approved(rows, t, ex.seg)'
      BY <1>1, <1>3, <1>4, <3>1, RowStepKeeps DEF IInv, Approved
    <3> QED
      BY <1>7, <2>2, <3>2 DEF AtWork
  <2> QED
    BY <1>7, <2>1, <2>2
<1> QED
  BY <1>3, <1>8, <1>9

\* A thread's steps.
LEMMA JobStepSafe ==
  ASSUME IInv, NEW t \in Task, JobNext(t)
  PROVE  Served' /\ RowStep /\ \A u \in Task : AtWork(u)'
<1>1. /\ TypeOK /\ TypeOK' /\ Served /\ GateRows /\ ex.seg \in Segment /\ rows \in RowTable
      /\ job[t] \in JobType /\ job[t].attempt \in Nat \ {0} /\ job[t].seg \in Segment
  BY TaskStepTypes DEF IInv, TypeOK, ExType, JobType, RowTable
<1>2. /\ run' = run /\ ex' = ex /\ gone' = gone
      /\ job[t].step \in {"queued", "check", "start", "exec"}
      /\ \A u \in Task : u # t => job'[u] = job[u]
  BY <1>1 DEF JobNext, JobLoad, JobCheck, JobStart, JobEnd, TypeOK
<1>3. /\ ex.step \notin {"off", "final", "waiting_approval", "queued"} /\ run.seg = ex.seg
      /\ t \in Gated => Approved(rows, t, ex.seg)
      /\ job[t].step # "queued" => job[t].seg = ex.seg
  BY <1>1, <1>2 DEF IInv, Served, AtWork, JobsServeTheirSegment, Busy
<1>4. SUFFICES /\ RowStep
               /\ job'[t].step \in {"check", "start", "exec"} => job'[t].seg = ex.seg
               /\ job'[t].step = "exec" =>
                    rows'[t][job'[t].row].seg = job'[t].seg /\ rows'[t][job'[t].row].attempt > 0
  <2>1. Served'
    BY <1>1, <1>2, <1>3, <1>4 DEF Served, JobsServeTheirSegment, Busy
  <2>2. ASSUME NEW u \in Task, u # t PROVE AtWork(u)'
    BY <1>1, <1>2, <1>4, <2>2, WorkKept
  <2>3. AtWork(t)'
    <3>1. t \in Gated => Approved(rows, t, ex.seg)'
      BY <1>1, <1>2, <1>3, <1>4, RowStepKeeps DEF IInv, Approved
    <3> QED
      BY <1>4, <3>1 DEF AtWork
  <2> QED
    BY <1>4, <2>1, <2>2, <2>3
<1>5. CASE JobLoad(t)
  <2> DEFINE k == [job[t] EXCEPT !.step = "check", !.seg = run.seg]
  <2>1. job' = [job EXCEPT ![t] = k]
    BY <1>5 DEF JobLoad, TypeOK
  <2>2. k = Thread("check", job[t].attempt, run.seg, job[t].row)
    BY <1>1, <1>3, JobLoads
  <2> HIDE DEF k
  <2>3. job'[t].step = "check" /\ job'[t].seg = ex.seg
    BY <1>1, <1>3, <2>1, <2>2 DEF TypeOK, Thread
  <2>4. RowStep
    BY <1>1, <1>5, RowsSame DEF JobLoad
  <2> QED
    BY <2>3, <2>4
<1>6. CASE JobCheck(t)
  <2>1. PICK k : /\ job' = [job EXCEPT ![t] = k]
                 /\ \E x \in {"lost", "start"} : k = Thread(x, job[t].attempt, job[t].seg, job[t].row)
    BY <1>1, <1>6, JobFields DEF JobCheck
  <2>2. job'[t].step # "exec" /\ job'[t].seg = ex.seg
    BY <1>1, <1>3, <1>6, <2>1 DEF TypeOK, Thread, JobCheck
  <2>3. RowStep
    <3>1. CASE rows' = rows
      BY <1>1, <3>1, RowsSame
    <3>2. CASE rows' = Write(t, Row(job[t].seg, 1, "cancelled"))
      <4> DEFINE row == Row(job[t].seg, 1, "cancelled")
      <4>1. row \in RowType /\ row.status = "cancelled"
        BY <1>1 DEF Row, RowType, RowStatus
      <4> HIDE DEF row
      <4>2. rows' = Write(t, row)
        BY <3>2 DEF row
      <4> QED
        BY <1>1, <4>1, <4>2, RowAdded DEF GateStatus
    <3> QED
      BY <1>6, <3>1, <3>2 DEF JobCheck
  <2> QED
    BY <2>2, <2>3
<1>7. CASE JobStart(t)
  <2> DEFINE k == [job[t] EXCEPT !.step = "exec", !.row = Len(rows[t]) + 1]
             row == Row(job[t].seg, job[t].attempt, "running")
  <2>1. /\ row \in RowType /\ row.status = "running"
        /\ row.seg = job[t].seg /\ row.attempt = job[t].attempt
    BY <1>1 DEF Row, RowType, RowStatus
  <2>2. job' = [job EXCEPT ![t] = k] /\ rows' = Write(t, row)
    BY <1>7 DEF JobStart, TypeOK
  <2>3. Len(rows[t]) + 1 \in Nat
    BY <1>1 DEF RowTable
  <2>4. k = Thread("exec", job[t].attempt, job[t].seg, Len(rows[t]) + 1)
    BY <1>1, <2>3, JobStarts
  <2>5. job[t].seg = ex.seg
    BY <1>3, <1>7 DEF JobStart
  <2> HIDE DEF k, row
  <2>6. job'[t].seg = ex.seg /\ job'[t].row = Len(rows[t]) + 1
    BY <1>1, <2>2, <2>4, <2>5 DEF TypeOK, Thread
  <2>7. rows'[t][Len(rows[t]) + 1] = row
    BY <1>1, <2>1, <2>2 DEF Write, RowTable
  <2>8. RowStep
    BY <1>1, <1>3, <2>1, <2>2, <2>5, RowAdded DEF GateStatus
  <2> QED
    BY <1>1, <2>1, <2>5, <2>6, <2>7, <2>8
<1>8. CASE JobEnd(t)
  <2>1. PICK result \in {"success", "failed", "cancelled"} :
          /\ rows' = [rows EXCEPT ![t][job[t].row].status = result]
          /\ job' = [job EXCEPT ![t] =
               IF result = "success" THEN [@ EXCEPT !.step = "won"]
               ELSE IF result = "failed" /\ job[t].attempt < Attempts[t]
                    THEN [@ EXCEPT !.step = "check", !.attempt = job[t].attempt + 1]
               ELSE [@ EXCEPT !.step = "lost"]]
    BY <1>8 DEF JobEnd
  <2>2. /\ job[t].row \in DOMAIN rows[t] /\ result \in RowStatus /\ job[t].step = "exec"
        /\ job[t].seg = ex.seg
        /\ rows[t][job[t].row].seg = ex.seg /\ rows[t][job[t].row].attempt > 0
    BY <1>1, <1>3, <1>8 DEF JobEnd, IInv, TypeOK, RowStatus, AtWork
  <2>3. /\ rows[t][job[t].row].status # "approved"
        /\ t \in Gated => Approved(rows, t, rows[t][job[t].row].seg)
        /\ result \notin GateStatus
    BY <1>1, <1>3, <2>2 DEF GateRows, GateStatus
  <2>4. RowStep
    <3>1. /\ \A u \in Task : DOMAIN rows'[u] = DOMAIN rows[u]
          /\ \A u \in Task : \A j \in DOMAIN rows[u] :
               SameBut(u, j, u = t /\ j = job[t].row, result)
      <4>1. rows \in RowTable /\ job[t].row \in DOMAIN rows[t] /\ result \in RowStatus
        BY <1>1, <2>2
      <4>2. rows' = [rows EXCEPT ![t][job[t].row].status = result]
        BY <2>1
      <4> QED
        BY <4>1, <4>2, SetStatusStep
    <3> QED
      BY <1>1, <2>2, <2>3, <3>1, RowSet
  <2>5. job[t].attempt + 1 \in Nat \ {0}
    BY <1>1
  <2>6. PICK k : /\ job' = [job EXCEPT ![t] = k]
                 /\ \/ k = Thread("won", job[t].attempt, job[t].seg, job[t].row)
                    \/ k = Thread("lost", job[t].attempt, job[t].seg, job[t].row)
                    \/ k = Thread("check", job[t].attempt + 1, job[t].seg, job[t].row)
    BY <1>1, <2>1, <2>5, JobFields, JobRetries
  <2>7. job'[t].step # "exec" /\ job'[t].seg = ex.seg
    BY <1>1, <2>2, <2>6 DEF TypeOK, Thread
  <2> QED
    BY <2>4, <2>7
<1> QED
  BY <1>5, <1>6, <1>7, <1>8 DEF JobNext

\* Steps after which the threads are as they were.
LEMMA OthersSafe ==
  ASSUME IInv, TypeOK', RowStep, job' = job, ex' = ex
  PROVE  \A t \in Task : AtWork(t)'
BY WorkKept

\* Requests.
LEMMA RequestStepSafe ==
  ASSUME IInv,
         \/ CancelRun
         \/ \E forced \in SUBSET Forcible : ResumeRun(forced)
         \/ \E t \in Task : DecisionNext(t)
  PROVE  Served' /\ RowStep /\ \A t \in Task : AtWork(t)'
<1>1. TypeOK /\ TypeOK' /\ Served /\ GateRows
  BY RequestStepTypes DEF IInv
<1>2. job' = job /\ ex' = ex /\ gone' = gone
  BY DEF CancelRun, ResumeRun, DecisionNext, DecideGate, CountGates, Requeue
<1>3. CASE CancelRun
  <2>1. RowStep
    BY <1>1, <1>3, RowsSettled DEF CancelRun
  <2>2. /\ run'.seg = run.seg /\ run'.status = "cancelled"
        /\ run.status = "running" => ~run'.finished
        /\ run.status # "cancelled"
    BY <1>1, <1>3 DEF CancelRun, TypeOK, RunType
  <2>3. Served'
    BY <1>1, <1>2, <2>2 DEF Served, JobsServeTheirSegment, Busy
  <2> QED
    BY <1>1, <1>2, <2>1, <2>3, OthersSafe
<1>4. ASSUME NEW forced \in SUBSET Forcible, ResumeRun(forced)
      PROVE  Served' /\ RowStep /\ \A t \in Task : AtWork(t)'
  <2>1. ex.step = "off"
    BY <1>1, <1>4 DEF ResumeRun, Served
  <2>2. Served'
    BY <1>1, <1>2, <2>1 DEF Served, JobsServeTheirSegment, Busy
  <2> DEFINE marker == Row(run.seg + 1, 0, "cancelled")
  <2>3. run.seg + 1 \in Segment /\ marker \in RowType /\ marker.status = "cancelled"
    BY <1>1, <1>4, GraphAssumption
    DEF ResumeRun, TypeOK, RunType, Segment, Row, RowType, RowStatus
  <2>4. \A t \in Task : rows'[t] \in {rows[t], Append(rows[t], marker)}
    BY <1>4 DEF ResumeRun
  <2> HIDE DEF marker
  <2>5. ASSUME NEW t \in Task
        PROVE  /\ DOMAIN rows[t] \subseteq DOMAIN rows'[t]
               /\ \A i \in DOMAIN rows[t] : rows'[t][i] = rows[t][i]
               /\ \A i \in DOMAIN rows'[t] : i \in DOMAIN rows[t] \/ rows'[t][i] = marker
    <3>1. rows[t] \in Seq(RowType) /\ Len(rows[t]) \in Nat /\ DOMAIN rows[t] = 1..Len(rows[t])
      BY <1>1 DEF TypeOK
    <3>2. /\ DOMAIN Append(rows[t], marker) = 1..(Len(rows[t]) + 1)
          /\ \A i \in 1..Len(rows[t]) : Append(rows[t], marker)[i] = rows[t][i]
          /\ Append(rows[t], marker)[Len(rows[t]) + 1] = marker
      BY <2>3, <3>1
    <3>3. \A i \in 1..(Len(rows[t]) + 1) : i \in 1..Len(rows[t]) \/ i = Len(rows[t]) + 1
      BY <3>1
    <3>4. 1..Len(rows[t]) \subseteq 1..(Len(rows[t]) + 1)
      BY <3>1
    <3> QED
      BY <2>4, <3>1, <3>2, <3>3, <3>4
  <2>6. RowStep
    BY <1>1, <2>3, <2>5 DEF RowStep, GateRows, Worked, GateStatus
  <2> QED
    BY <1>1, <1>2, <2>2, <2>6, OthersSafe
<1>5. ASSUME NEW t \in Task, DecisionNext(t)
      PROVE  Served' /\ RowStep /\ \A u \in Task : AtWork(u)'
  <2>1. Served'
    <3>1. CASE run' = run
      BY <1>1, <1>2, <3>1 DEF Served, JobsServeTheirSegment, Busy
    <3>2. CASE Requeue(t) /\ run' # run
      <4>1. run.status = "waiting_approval"
        BY <1>1, <3>2 DEF Requeue, TypeOK, RunType
      <4> QED
        BY <1>1, <1>2, <4>1 DEF Served, JobsServeTheirSegment, Busy
    <3> QED
      BY <1>5, <3>1, <3>2 DEF DecisionNext, DecideGate, CountGates
  <2>2. RowStep
    <3>1. CASE DecideGate(t)
      <4>1. PICK i \in DOMAIN rows[t], answer \in {"approved", "rejected"} :
              /\ rows[t][i].status = "awaiting_approval"
              /\ rows' = [rows EXCEPT ![t][i].status = answer]
        BY <3>1 DEF DecideGate
      <4>2. /\ rows \in RowTable /\ i \in DOMAIN rows[t] /\ answer \in RowStatus
            /\ rows[t][i].attempt = 0
        BY <1>1, <4>1 DEF TypeOK, RowTable, RowStatus, GateStatus, GateRows
      <4>3. rows' = [rows EXCEPT ![t][i].status = answer]
        BY <4>1
      <4>4. /\ \A u \in Task : DOMAIN rows'[u] = DOMAIN rows[u]
            /\ \A u \in Task : \A j \in DOMAIN rows[u] : SameBut(u, j, u = t /\ j = i, answer)
        BY <4>2, <4>3, SetStatusStep
      <4> QED
        BY <1>1, <4>1, <4>2, <4>4, RowSet
    <3>2. CASE rows' = rows
      BY <1>1, <3>2, RowsSame
    <3> QED
      BY <1>5, <3>1, <3>2 DEF DecisionNext, CountGates, Requeue
  <2> QED
    BY <1>1, <1>2, <2>1, <2>2, OthersSafe
<1> QED
  BY <1>3, <1>4, <1>5

\* A lost worker's executor and threads are gone with it.
LEMMA RecoveryStepSafe ==
  ASSUME IInv, Survives \subseteq {FALSE}, LoseWorker \/ Recover
  PROVE  Served' /\ RowStep /\ \A t \in Task : AtWork(t)'
<1>1. TypeOK /\ TypeOK' /\ Served /\ GateRows
  BY RecoveryStepTypes DEF IInv
<1>2. CASE LoseWorker
  <2>1. ex' = Off /\ run' = run /\ rows' = rows /\ \A t \in Task : job'[t] = NoJob
    BY <1>2 DEF LoseWorker
  <2>2. RowStep
    BY <1>1, <2>1, RowsSame
  <2> QED
    BY <2>1, <2>2 DEF Served, JobsServeTheirSegment, Busy, AtWork, Off, NoJob
<1>3. CASE Recover
  <2>1. RowStep
    BY <1>1, <1>3, RowsSame, RowsSettled DEF Recover
  <2>2. job' = job /\ ex' = ex /\ gone' = gone /\ ex.step = "off"
    BY <1>1, <1>3 DEF Recover, Served
  <2>3. Served'
    BY <1>1, <2>2 DEF Served, JobsServeTheirSegment, Busy
  <2> QED
    BY <1>1, <2>1, <2>2, <2>3, OthersSafe
<1> QED
  BY <1>2, <1>3

LEMMA InitSafe == Init => IInv
<1> SUFFICES ASSUME Init PROVE IInv
  OBVIOUS
<1>1. TypeOK
  BY InitTypes
<1>2. Served /\ GateRows /\ \A t \in Task : AtWork(t)
  BY DEF Init, Served, JobsServeTheirSegment, Busy, GateRows, AtWork, Off, NoJob
<1>3. ApprovedBeforeExecuted
  BY GraphAssumption DEF Init, ApprovedBeforeExecuted, Executed
<1> QED
  BY <1>1, <1>2, <1>3 DEF IInv

LEMMA StepSafe ==
  ASSUME Survives \subseteq {FALSE}, IInv, [Next]_vars
  PROVE  IInv'
<1>1. CASE UNCHANGED vars
  BY <1>1 DEF vars, IInv, TypeOK, Served, GateRows, AtWork, Approved, ApprovedBeforeExecuted,
              Executed, JobsServeTheirSegment, Busy
<1>2. CASE Next
  <2>1. Served' /\ RowStep /\ \A t \in Task : AtWork(t)'
    BY <1>2, ExecutorStepSafe, DispatchSafe, JobStepSafe, RequestStepSafe, RecoveryStepSafe DEF Next
  <2>2. TypeOK'
    BY StepTypes DEF IInv
  <2> QED
    BY <2>1, <2>2, RowStepKeeps DEF IInv
<1> QED
  BY <1>1, <1>2

LEMMA AlwaysSafe ==
  ASSUME Survives \subseteq {FALSE}
  PROVE  Spec => []IInv
<1>1. IInv /\ [Next]_vars => IInv'
  BY StepSafe
<1> QED
  BY <1>1, InitSafe, PTL DEF Spec

\* For every task graph, however often a run is parked, re-entered, cancelled,
\* resumed and lost: a gated task executes only in a segment a person approved
\* it in - as long as no worker that was taken for dead works on.
THEOREM GatesHonoured ==
  ASSUME Survives \subseteq {FALSE}
  PROVE  Spec => []ApprovedBeforeExecuted
<1>1. IInv => ApprovedBeforeExecuted
  BY DEF IInv
<1> QED
  BY <1>1, AlwaysSafe, PTL

\* Under the same assumption a task's thread works for its executor's segment:
\* the disagreement of the late thread needs the stall.
THEOREM ThreadsServe ==
  ASSUME Survives \subseteq {FALSE}
  PROVE  Spec => []JobsServeTheirSegment
<1>1. IInv => JobsServeTheirSegment
  BY DEF IInv, Served
<1> QED
  BY <1>1, AlwaysSafe, PTL

-----------------------------------------------------------------------------
(* Parking.  With one writer the parking transaction is a step as far as    *)
(* gates are concerned: what it counted is still so when it commits.  From  *)
(* then on only a decision closes a gate, and it stays under way until it   *)
(* has counted the others or requeued the run.                              *)

ParkInv ==
  /\ ex.step = "waiting_approval" => OpenGates
  /\ ParkedIsDecidable

\* Nothing that ParkInv speaks of changes.
LEMMA ParkSame ==
  ASSUME ParkInv, rows' = rows, run' = run, deciding' = deciding,
         ex'.step = "waiting_approval" => ex.step = "waiting_approval"
  PROVE  ParkInv'
BY DEF ParkInv, ParkedIsDecidable, OpenGates, SomeRow

\* The run neither is parked after the step nor being parked.
LEMMA NotParked ==
  ASSUME run'.status # "waiting_approval", ex'.step # "waiting_approval"
  PROVE  ParkInv'
BY DEF ParkInv, ParkedIsDecidable

LEMMA ParkStep ==
  ASSUME OneWriter, IInv, ParkInv, [Next]_vars
  PROVE  ParkInv'
<1>1. /\ TypeOK /\ Served
      /\ ex.step # "off" => run.status \in {"running", "cancelled"}
  BY DEF IInv, Served
<1>2. CASE UNCHANGED vars
  BY <1>2, ParkSame DEF vars
<1>3. CASE Claim \/ Poll \/ Collect \/ Finish
  <2>1. ex'.step # "waiting_approval"
    <3>1. CASE Claim
      BY <3>1 DEF Claim, Off
    <3>2. CASE Poll
      BY <1>1, <3>2 DEF Poll, TypeOK, ExType
    <3>3. CASE Collect
      BY <1>1, <3>3 DEF Collect, TypeOK, ExType
    <3>4. CASE Finish
      BY <3>4 DEF Finish, Off
    <3> QED
      BY <1>3, <3>1, <3>2, <3>3, <3>4
  <2>2. run'.status # "waiting_approval"
    <3>1. Outcome # "waiting_approval"
      BY DEF Outcome
    <3> QED
      BY <1>1, <1>3, <3>1 DEF Claim, Poll, Collect, Finish, TypeOK, RunType
  <2> QED
    BY <2>1, <2>2, NotParked
<1>4. CASE ParkUpdate
  <2>1. /\ ex'.step = "waiting_approval" => OpenGates
        /\ rows' = rows /\ run' = run /\ run.status = "running"
    BY <1>1, <1>4 DEF ParkUpdate, TypeOK, ExType
  <2> QED
    BY <2>1 DEF ParkInv, ParkedIsDecidable, OpenGates, SomeRow
<1>5. CASE ParkCommit
  <2>1. /\ rows' = rows /\ run'.seg = run.seg /\ run'.status = ex.step /\ ex'.step = "off"
    BY <1>1, <1>5 DEF ParkCommit, Off, TypeOK, RunType
  <2> QED
    BY <2>1 DEF ParkInv, ParkedIsDecidable, OpenGates, SomeRow
<1>6. ASSUME NEW t \in Task, Dispatch(t) \/ JobNext(t)
      PROVE  ParkInv'
  <2>1. run' = run /\ ex.step \notin {"off", "waiting_approval"}
    BY <1>1, <1>6 DEF Dispatch, JobNext, JobLoad, JobCheck, JobStart, JobEnd, Served
  <2>2. ex'.step # "waiting_approval"
    BY <1>1, <1>6, <2>1 DEF Dispatch, JobNext, JobLoad, JobCheck, JobStart, JobEnd, TypeOK, ExType
  <2> QED
    BY <1>1, <2>1, <2>2, NotParked
<1>7. CASE CancelRun
  <2>1. run'.status = "cancelled" /\ ex'.step # "waiting_approval"
    BY <1>1, <1>7 DEF CancelRun, Parking, TypeOK, RunType
  <2> QED
    BY <2>1, NotParked
<1>8. ASSUME NEW forced \in SUBSET Forcible, ResumeRun(forced)
      PROVE  ParkInv'
  <2>1. run'.status = "queued" /\ ex'.step = "off"
    BY <1>1, <1>8 DEF ResumeRun, Served
  <2> QED
    BY <2>1, NotParked
<1>9. ASSUME NEW t \in Task, DecisionNext(t)
      PROVE  ParkInv'
  <2>1. CASE DecideGate(t)
    <3>1. ex' = ex /\ ex.step # "waiting_approval" /\ deciding'[t] # "no"
      BY <1>1, <2>1 DEF DecideGate, Parking, TypeOK
    <3> QED
      BY <3>1 DEF ParkInv, ParkedIsDecidable
  <2>2. CASE CountGates(t)
    <3>1. /\ ex' = ex /\ run' = run /\ rows' = rows
          /\ OpenGates \/ deciding'[t] # "no"
      BY <1>1, <2>2 DEF CountGates, TypeOK
    <3> QED
      BY <3>1 DEF ParkInv, ParkedIsDecidable, OpenGates, SomeRow
  <2>3. CASE Requeue(t)
    <3>1. ex'.step # "waiting_approval" /\ run'.status # "waiting_approval"
      BY <1>1, <2>3 DEF Requeue, Parking, TypeOK, RunType
    <3> QED
      BY <3>1, NotParked
  <2> QED
    BY <1>9, <2>1, <2>2, <2>3 DEF DecisionNext
<1>10. CASE LoseWorker
  <2>1. /\ run' = run /\ rows' = rows /\ deciding' = deciding
        /\ ex'.step = "waiting_approval" => ex.step = "waiting_approval"
    BY <1>10 DEF LoseWorker, Off
  <2> QED
    BY <2>1, ParkSame
<1>11. CASE Recover
  <2>1. /\ ex' = ex /\ ex.step # "waiting_approval" /\ deciding' = deciding
        /\ run'.seg = run.seg
        /\ run'.status = "waiting_approval" => run.status = "waiting_approval" /\ rows' = rows
    BY <1>1, <1>11 DEF Recover, Parking, Orphaned, Terminal, TypeOK, RunType
  <2> QED
    BY <2>1 DEF ParkInv, ParkedIsDecidable, OpenGates, SomeRow
<1> QED
  BY <1>2, <1>3, <1>4, <1>5, <1>6, <1>7, <1>8, <1>9, <1>10, <1>11 DEF Next

\* With one writer at a time, as on SQLite, no run is ever parked without a gate
\* that can be decided or a decision under way (service.py:663-679).
THEOREM ParkingSafe ==
  ASSUME OneWriter, Survives \subseteq {FALSE}
  PROVE  Spec => []ParkedIsDecidable
<1>1. Init => ParkInv
  BY DEF Init, ParkInv, ParkedIsDecidable, Off
<1>2. ASSUME IInv, ParkInv, [Next]_vars PROVE ParkInv'
  BY <1>2, ParkStep
<1>3. ParkInv => ParkedIsDecidable
  BY DEF ParkInv
<1> QED
  BY <1>1, <1>2, <1>3, AlwaysSafe, PTL DEF Spec
=============================================================================
