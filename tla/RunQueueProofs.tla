--------------------------- MODULE RunQueueProofs ---------------------------
(****************************************************************************)
(* Proofs about RunQueue for every set of runs, services and workers, every *)
(* lock setting, every limit.                                               *)
(****************************************************************************)
EXTENDS QueueWhy, FiniteSetTheorems, WellFoundedInduction, TLAPS

-----------------------------------------------------------------------------
(* Type correctness.                                                       *)

\* Timestamp ranks are natural numbers: they count elements of a finite set.
LEMMA ArriveType ==
  ASSUME NEW c \in Claimant, NEW mayTie \in BOOLEAN, Arrive(c, mayTie)
  PROVE  stamp' \in [Claimant -> Nat]
<1> DEFINE others == Stamped \ {c}
           rank(d) == 1 + Cardinality({x \in others : stamp[x] < stamp[d]})
           newest == {d \in others : \A x \in others : stamp[x] <= stamp[d]}
<1>1. IsFiniteSet(Claimant)
  BY QueueAssumption, FS_Union DEF Claimant
<1>2. others \subseteq Claimant
  BY DEF Stamped, Claimant
<1>3. IsFiniteSet(others)
  BY <1>1, <1>2, FS_Subset
<1>4. Cardinality(others) \in Nat
  BY <1>3, FS_CardinalityType
<1>5. ASSUME NEW d PROVE rank(d) \in Nat
  <2>1. {x \in others : stamp[x] < stamp[d]} \subseteq others
    OBVIOUS
  <2>2. Cardinality({x \in others : stamp[x] < stamp[d]}) \in Nat
    BY <2>1, <1>3, FS_Subset, FS_CardinalityType
  <2> QED
    BY <2>2
<1>6. PICK now \in {1 + Cardinality(others)} \cup
                   {rank(d) : d \in IF mayTie THEN newest ELSE {}} :
        stamp' = [d \in Claimant |->
                    IF d = c THEN now ELSE IF d \in others THEN rank(d) ELSE 0]
  BY DEF Arrive
<1>7. now \in Nat
  <2> HIDE DEF rank
  <2> QED
    BY <1>4, <1>5
<1> HIDE DEF rank
<1> QED
  BY <1>5, <1>6, <1>7

\* Writing a column of a row, or a field of a pass, with a value of its type.
LEMMA RowFields ==
  ASSUME NEW row \in Row
  PROVE  /\ \A x \in Status : [row EXCEPT !.status = x] \in Row
         /\ \A x \in BOOLEAN : [row EXCEPT !.started = x] \in Row
         /\ \A x \in BOOLEAN : [row EXCEPT !.finished = x] \in Row
         /\ \A x \in Segment : [row EXCEPT !.seg = x] \in Row
         /\ \A x \in Worker : [row EXCEPT !.owner = x] \in Row
BY DEF Row

LEMMA PassFields ==
  ASSUME NEW p \in Pass
  PROVE  /\ \A x \in {"next", "selected", "claimed"} : [p EXCEPT !.step = x] \in Pass
         /\ \A x \in Run \cup {NoRun} : [p EXCEPT !.run = x] \in Pass
         /\ \A x \in Segment : [p EXCEPT !.seg = x] \in Pass
         /\ \A x \in SUBSET Run : [p EXCEPT !.skip = x] \in Pass
         /\ \A x \in SUBSET Workflow : [p EXCEPT !.held = x] \in Pass
BY DEF Pass

\* _stamp_if_cancelled returns a row.
LEMMA StampType ==
  ASSUME NEW row \in Row
  PROVE  Stamp(row) \in Row
BY DEF Stamp, Row

\* Recovery returns a row for every run.
LEMMA RecoveredType ==
  ASSUME TypeOK, NEW w \in Worker
  PROVE  Recovered(w) \in [Run -> Row]
<1>1. ASSUME NEW r \in Run
      PROVE  Stamp(run[r]) \in Row /\ [run[r] EXCEPT !.status = "failed", !.finished = TRUE] \in Row
  <2>1. run[r] \in Row
    BY DEF TypeOK
  <2>2. [run[r] EXCEPT !.status = "failed", !.finished = TRUE] \in Row
    BY <2>1 DEF Row, Status, Terminal
  <2> QED
    BY <2>1, <2>2, StampType
<1> QED
  BY <1>1 DEF Recovered, TypeOK

LEMMA RunStepTypes ==
  ASSUME TypeOK, NEW r \in Run, RunNext(r)
  PROVE  TypeOK'
<1> USE QueueAssumption DEF TypeOK
<1>1. CASE CreateRun(r)
  <2>1. FreshRun \in Row
    BY DEF FreshRun, Row, Status, Segment
  <2>2. stamp' \in [Claimant -> Nat]
    BY <1>1, ArriveType DEF CreateRun, Claimant
  <2> QED
    BY <1>1, <2>1, <2>2 DEF CreateRun, workerVars, serviceVars, configVars
<1>2. CASE CancelRead(r)
  BY <1>2 DEF CancelRead, runVars, workerVars, serviceVars, configVars
<1>3. CASE CancelCommit(r)
  <2> DEFINE row == [run[r] EXCEPT !.status = "cancelled",
                                   !.finished = run[r].finished \/ cancelling[r] = "settles_now"]
  <2>1. run[r] \in Row /\ "cancelled" \in Status
    BY DEF Status, Terminal
  <2>2. row \in Row
    BY <2>1, RowFields DEF Row
  <2>3. run' \in [Run -> Row]
    BY <1>3, <2>2 DEF CancelCommit
  <2> QED
    BY <1>3, <2>3 DEF CancelCommit, workerVars, serviceVars, configVars
<1>4. CASE ResumeRun(r)
  <2>1. run[r].seg + 1 \in Segment
    BY <1>4 DEF ResumeRun, Row, Segment
  <2> DEFINE row == [run[r] EXCEPT !.status = "queued", !.seg = run[r].seg + 1,
                                   !.started = FALSE, !.finished = FALSE]
  <2>2. run' \in [Run -> Row]
    <3>1. run[r] \in Row /\ "queued" \in Status
      BY DEF Status
    <3>2. row \in Row
      BY <2>1, <3>1, RowFields
    <3> QED
      BY <1>4, <3>2 DEF ResumeRun
  <2>3. marked' \in [Run -> SUBSET Segment]
    BY <1>4, <2>1 DEF ResumeRun
  <2> QED
    BY <1>4, <2>2, <2>3 DEF ResumeRun, workerVars, serviceVars, configVars
<1>5. CASE DecideGate(r)
  <2>1. run[r] \in Row /\ "queued" \in Status
    BY DEF Status
  <2>2. [run[r] EXCEPT !.status = "queued"] \in Row
    BY <2>1 DEF Row
  <2>3. run' \in [Run -> Row]
    BY <1>5, <2>2 DEF DecideGate
  <2> QED
    BY <1>5, <2>3 DEF DecideGate, workerVars, serviceVars, configVars
<1> QED
  BY <1>1, <1>2, <1>3, <1>4, <1>5 DEF RunNext

LEMMA PassStepTypes ==
  ASSUME TypeOK, NEW w \in Worker, PassNext(w)
  PROVE  TypeOK'
<1> USE QueueAssumption DEF TypeOK
<1>1. Idle \in Pass
  BY DEF Idle, Pass, Segment
<1>2. CASE SelectRun(w)
  <2>1. PICK r \in Candidates(w) :
          pass' = [pass EXCEPT ![w] = [@ EXCEPT !.step = "selected", !.run = r]]
    BY <1>2 DEF SelectRun
  <2>2. r \in Run
    BY DEF Candidates
  <2>3. pass' \in [Worker -> Pass]
    BY <2>1, <2>2, PassFields
  <2>4. \A v \in Worker : pass'[v].step \in {"selected", "claimed"} => pass'[v].run \in Run
    BY <2>1, <2>2 DEF Pass
  <2> QED
    BY <1>2, <2>3, <2>4 DEF SelectRun, runVars, serviceVars, configVars
<1>3. CASE EndPass(w)
  BY <1>1, <1>3 DEF EndPass, Idle, runVars, serviceVars, configVars
<1>4. CASE ClaimRun(w)
  <2> DEFINE r == pass[w].run
  <2>1. r \in Run
    BY <1>4 DEF ClaimRun
  <2>2. CASE Claimable(r)
    <3>1. /\ run' = [run EXCEPT ![r] =
                       [@ EXCEPT !.status = "running", !.started = TRUE, !.owner = w]]
          /\ pass' = [pass EXCEPT ![w] = [@ EXCEPT !.step = "claimed", !.seg = run[r].seg]]
      BY <1>4, <2>2 DEF ClaimRun
    <3>2. run' \in [Run -> Row]
      BY <2>1, <3>1, RowFields, "running" \in Status DEF Status
    <3>3. pass' \in [Worker -> Pass]
      BY <2>1, <3>1, PassFields, run[r].seg \in Segment DEF Row
    <3>4. \A v \in Worker : pass'[v].step \in {"selected", "claimed"} => pass'[v].run \in Run
      BY <2>1, <3>1 DEF Pass
    <3> QED
      BY <1>4, <3>2, <3>3, <3>4 DEF ClaimRun, serviceVars, configVars
  <2>3. CASE ~Claimable(r)
    <3>1. pass' = [pass EXCEPT ![w] = Idle] /\ run' = run
      BY <1>4, <2>3 DEF ClaimRun
    <3> QED
      BY <1>1, <1>4, <3>1 DEF ClaimRun, Idle, serviceVars, configVars
  <2> QED
    BY <2>2, <2>3
<1>5. CASE DropRun(w)
  <2> DEFINE r == pass[w].run
             row == IF run[r].status = "running"
                    THEN [run[r] EXCEPT !.status = "cancelled", !.finished = TRUE] ELSE run[r]
  <2>1. r \in Run
    BY <1>5 DEF DropRun
  <2>2. row \in Row
    BY <2>1, RowFields, "cancelled" \in Status DEF Status, Terminal
  <2>3. run' = [run EXCEPT ![r] = Stamp(row)]
    BY <1>5, <2>1 DEF DropRun
  <2>4. run' \in [Run -> Row]
    <3> HIDE DEF row
    <3> QED
      BY <2>2, <2>3, StampType
  <2>5. pass' \in [Worker -> Pass]
    <3>1. pass[w] \in Pass /\ pass[w].skip \cup {r} \in SUBSET Run
      BY <2>1 DEF Pass
    <3> QED
      BY <1>5, <3>1, PassFields DEF DropRun
  <2>6. \A v \in Worker : pass'[v].step \in {"selected", "claimed"} => pass'[v].run \in Run
    BY <1>5, <2>1 DEF DropRun, Pass
  <2> QED
    BY <1>5, <2>4, <2>5, <2>6 DEF DropRun, serviceVars, configVars
<1>6. CASE RequeueRun(w)
  <2> DEFINE r == pass[w].run
             touched == pass[w].seg \in worked[r] \cup marked[r]
             row == IF run[r].status = "running"
                    THEN [run[r] EXCEPT !.status = "queued", !.started = run[r].started /\ touched]
                    ELSE run[r]
  <2>1. r \in Run
    BY <1>6 DEF RequeueRun
  <2>2. row \in Row
    <3>1. run[r] \in Row /\ "queued" \in Status /\ (run[r].started /\ touched) \in BOOLEAN
      BY <2>1 DEF Status
    <3> QED
      BY <3>1, RowFields
  <2>3. run' = [run EXCEPT ![r] = Stamp(row)]
    BY <1>6, <2>1, Zenon DEF RequeueRun
  <2>4. run' \in [Run -> Row]
    <3> HIDE DEF row
    <3> QED
      BY <2>2, <2>3, StampType
  <2>5. pass' \in [Worker -> Pass]
    <3>1. pass[w] \in Pass /\ pass[w].held \cup {WorkflowOf[r]} \in SUBSET Workflow
      BY <2>1 DEF Pass
    <3> QED
      BY <1>6, <3>1, PassFields DEF RequeueRun
  <2>6. \A v \in Worker : pass'[v].step \in {"selected", "claimed"} => pass'[v].run \in Run
    BY <1>6, <2>1 DEF RequeueRun, Pass
  <2> QED
    BY <1>6, <2>4, <2>5, <2>6 DEF RequeueRun, serviceVars, configVars
<1>7. CASE SubmitJob(w)
  <2>1. [worker |-> w, run |-> pass[w].run, seg |-> Unread] \in Job
    BY <1>7 DEF SubmitJob, Job
  <2> QED
    BY <1>1, <1>7, <2>1 DEF SubmitJob, Idle, runVars, serviceVars, configVars
<1> QED
  BY <1>2, <1>3, <1>4, <1>5, <1>6, <1>7 DEF PassNext

LEMMA WorkerStepTypes ==
  ASSUME TypeOK, NEW w \in Worker, WorkerNext(w)
  PROVE  TypeOK'
<1> USE DEF TypeOK
<1>1. CASE StartWorker(w) \/ Recover(w)
  BY <1>1, RecoveredType DEF StartWorker, Recover, workerVars, serviceVars, configVars
<1>2. CASE Beat(w) \/ GoStale(w)
  BY <1>2 DEF Beat, GoStale, runVars, serviceVars, configVars
<1>3. CASE Crash(w)
  <2>1. Idle \in Pass
    BY QueueAssumption DEF Idle, Pass, Segment
  <2> QED
    BY <1>3, <2>1 DEF Crash, Idle, runVars, serviceVars, configVars
<1> QED
  BY <1>1, <1>2, <1>3 DEF WorkerNext

LEMMA ExecutorStepTypes ==
  ASSUME TypeOK, NEW e \in executor, ExecutorNext(e)
  PROVE  TypeOK'
<1> USE DEF TypeOK
<1>1. e \in Job /\ e.run \in Run
  BY DEF Job
<1>2. CASE StartJob(e)
  <2>1. [e EXCEPT !.seg = run[e.run].seg] \in Job
    BY <1>1 DEF Job, Row
  <2> QED
    BY <1>2, <2>1 DEF StartJob, runVars, serviceVars, configVars
<1>3. CASE WriteTaskRow(e)
  <2>1. e.seg \in Segment
    BY <1>1, <1>3 DEF WriteTaskRow, Job
  <2> QED
    BY <1>1, <1>3, <2>1 DEF WriteTaskRow, workerVars, serviceVars, configVars
<1>4. CASE ParkRun(e)
  <2>1. PICK status \in Status : run' = [run EXCEPT ![e.run].status = status]
    BY <1>4 DEF ParkRun, Status
  <2>2. run' \in [Run -> Row]
    BY <1>1, <2>1, RowFields
  <2> QED
    BY <1>4, <2>2 DEF ParkRun, serviceVars, configVars
<1>5. CASE FinishRun(e)
  <2> DEFINE row == run[e.run]
             landed(outcome) ==
               IF row.seg # e.seg THEN row
               ELSE IF row.status = "running"
                    THEN [row EXCEPT !.status = outcome, !.finished = TRUE]
               ELSE [row EXCEPT !.finished = TRUE]
  <2>1. PICK outcome \in Terminal : run' = [run EXCEPT ![e.run] = landed(outcome)]
    BY <1>5 DEF FinishRun
  <2>2. outcome \in Status
    BY DEF Status
  <2>3. landed(outcome) \in Row
    BY <1>1, <2>2, RowFields
  <2>4. run' \in [Run -> Row]
    BY <2>1, <2>3
  <2> QED
    BY <1>5, <2>4 DEF FinishRun, serviceVars, configVars
<1>6. CASE JobRaises(e)
  <2>1. run' \in [Run -> Row]
    BY <1>1, <1>6, RowFields, "failed" \in Status DEF JobRaises, Status, Terminal
  <2> QED
    BY <1>6, <2>1 DEF JobRaises, serviceVars, configVars
<1> QED
  BY <1>2, <1>3, <1>4, <1>5, <1>6 DEF ExecutorNext

LEMMA ServiceStepTypes ==
  ASSUME TypeOK, NEW s \in Service, ServiceNext(s)
  PROVE  TypeOK'
<1> USE DEF TypeOK
<1>1. ASSUME NEW from, NEW waiting \in BOOLEAN, ClaimService(s, from, waiting)
      PROVE  TypeOK'
  <2>1. stamp' \in [Claimant -> Nat]
    BY <1>1, ArriveType DEF ClaimService, Claimant
  <2> QED
    BY <1>1, <2>1 DEF ClaimService, ServiceState, runVars, workerVars, configVars
<1>2. ASSUME NEW from, NEW to \in ServiceState, MoveService(s, from, to)
      PROVE  TypeOK'
  BY <1>2 DEF MoveService, runVars, workerVars, configVars
<1> QED
  BY <1>1, <1>2 DEF ServiceNext, ServiceState, StartService, RetryService, RestartService,
       LaunchService, StopService, ServiceEnds, GiveUpWaiting

LEMMA SaveStepTypes ==
  ASSUME TypeOK, NEW c \in Workflow \cup Service, EditSetting(c)
  PROVE  TypeOK'
BY DEF TypeOK, EditSetting, runVars, workerVars, serviceVars

LEMMA ToggleStepTypes ==
  ASSUME TypeOK, ToggleNext
  PROVE  TypeOK'
BY DEF TypeOK, ToggleNext, ToggleBuild, TogglePause, Toggle,
       runVars, workerVars, serviceVars

LEMMA InitTypes == Init => TypeOK
<1> SUFFICES ASSUME Init PROVE TypeOK
  OBVIOUS
<1>1. [FreshRun EXCEPT !.status = "none"] \in Row
  <2>1. FreshRun \in Row
    BY QueueAssumption DEF FreshRun, Row, Status, Segment
  <2> QED
    BY <2>1, RowFields, "none" \in Status DEF Status
<1>2. Idle \in Pass /\ Idle.step = "idle"
  BY QueueAssumption DEF Idle, Pass, Segment
<1> QED
  BY <1>1, <1>2, QueueAssumption DEF Init, TypeOK, ServiceState

LEMMA StepTypes == TypeOK /\ [Next]_vars => TypeOK'
<1> SUFFICES ASSUME TypeOK, [Next]_vars PROVE TypeOK'
  OBVIOUS
<1>1. CASE UNCHANGED vars
  BY <1>1 DEF vars, TypeOK
<1>2. CASE Next
  BY <1>2, RunStepTypes, PassStepTypes, WorkerStepTypes, ExecutorStepTypes,
     ServiceStepTypes, SaveStepTypes, ToggleStepTypes DEF Next, StepNext
<1> QED
  BY <1>1, <1>2

LEMMA RestStepTypes == TypeOK /\ [RestNext]_vars => TypeOK'
<1>1. RestNext => Next
  BY DEF RestNext, Next, EditAtRest
<1> QED
  BY <1>1, StepTypes

\* Every variable keeps its type, for all the writes of requests, workers,
\* executors, recovery, services and saves.
THEOREM TypeCorrect == Spec => []TypeOK
<1> QED
  BY InitTypes, StepTypes, PTL DEF Spec

-----------------------------------------------------------------------------
(* Locks and limits.  Both invariants, and the refinement, follow from one *)
(* fact about the steps (StepKinds): a step lets go of locks and slots, or *)
(* grants them to one claimable run, or to one service nothing denies, or  *)
(* only saves settings.                                                    *)

\* Nobody holds who did not before, and no setting changes.
LetsGo ==
  /\ \A r \in Run : Occupies(r)' => Occupies(r)
  /\ \A s \in Service : Holding(s)' => Holding(s)
  /\ setting' = setting

GrantsRun(r) ==
  /\ Claimable(r)
  /\ Occupies(r)'
  /\ \A o \in Run \ {r} : Occupies(o)' = Occupies(o)
  /\ \A s \in Service : Holding(s)' = Holding(s)
  /\ setting' = setting

GrantsService(s) ==
  /\ \/ setting[s].resource = NoResource
     \/ \E waiting \in BOOLEAN : ~ServiceConflicts(s, waiting)
  /\ Holding(s)'
  /\ \A o \in Service \ {s} : Holding(o)' = Holding(o)
  /\ \A r \in Run : Occupies(r)' = Occupies(r)
  /\ setting' = setting

Saves ==
  /\ \A r \in Run : Occupies(r)' = Occupies(r)
  /\ \A s \in Service : Holding(s)' = Holding(s)
  /\ DOMAIN setting' = DOMAIN setting
  /\ \A c \in Workflow \cup Service : setting'[c] # setting[c] => AtRest(c)

LEMMA RunStepKinds ==
  ASSUME TypeOK, NEW r \in Run, RunNext(r)
  PROVE  LetsGo
<1> USE DEF LetsGo
<1>1. service' = service /\ setting' = setting
  BY DEF RunNext, CreateRun, CancelRead, CancelCommit, ResumeRun, DecideGate,
         serviceVars, configVars
<1>2. \A s \in Service : Holding(s)' => Holding(s)
  BY <1>1 DEF Holding
<1>3. CASE CreateRun(r)
  BY <1>1, <1>2, <1>3 DEF TypeOK, CreateRun, FreshRun, Occupies
<1>4. CASE CancelRead(r)
  BY <1>1, <1>2, <1>4 DEF CancelRead, runVars, Occupies
<1>5. CASE CancelCommit(r)
  BY <1>1, <1>2, <1>5 DEF TypeOK, CancelCommit, Row, Occupies
<1>6. CASE ResumeRun(r)
  BY <1>1, <1>2, <1>6 DEF TypeOK, ResumeRun, Row, Occupies
<1>7. CASE DecideGate(r)
  BY <1>1, <1>2, <1>7 DEF TypeOK, DecideGate, Row, Occupies
<1> QED
  BY <1>3, <1>4, <1>5, <1>6, <1>7 DEF RunNext

LEMMA PassStepKinds ==
  ASSUME TypeOK, NEW w \in Worker, PassNext(w)
  PROVE  LetsGo \/ \E r \in Run : GrantsRun(r)
<1>1. service' = service /\ setting' = setting
  BY DEF PassNext, SelectRun, EndPass, ClaimRun, DropRun, RequeueRun, SubmitJob,
         serviceVars, configVars
<1>2. \A s \in Service : Holding(s)' = Holding(s)
  BY <1>1 DEF Holding
<1>3. CASE run' = run
  BY <1>1, <1>2, <1>3 DEF LetsGo, Occupies
<1>4. CASE SelectRun(w) \/ EndPass(w) \/ SubmitJob(w)
  BY <1>3, <1>4 DEF SelectRun, EndPass, SubmitJob, runVars
<1>5. CASE ClaimRun(w)
  <2>1. PICK r \in Run : r = pass[w].run
    BY <1>5 DEF ClaimRun, TypeOK
  <2>2. CASE Claimable(r)
    <3>1. run' = [run EXCEPT ![r] =
                   [@ EXCEPT !.status = "running", !.started = TRUE, !.owner = w]]
      BY <1>5, <2>1, <2>2 DEF ClaimRun
    <3>2. Occupies(r)'
      BY <2>1, <3>1 DEF Occupies, TypeOK, Row
    <3>3. \A o \in Run \ {r} : Occupies(o)' = Occupies(o)
      BY <2>1, <3>1 DEF Occupies, TypeOK
    <3> QED
      BY <1>1, <1>2, <2>1, <2>2, <3>2, <3>3 DEF GrantsRun
  <2>3. CASE ~Claimable(r)
    BY <1>3, <1>5, <2>1, <2>3 DEF ClaimRun
  <2> QED
    BY <2>2, <2>3
<1>6. CASE DropRun(w)
  <2> DEFINE r == pass[w].run
  <2>1. r \in Run
    BY <1>6 DEF DropRun, TypeOK
  <2>2. \A o \in Run : Occupies(o)' => Occupies(o)
    BY <1>6, <2>1 DEF DropRun, Stamp, Occupies, TypeOK, Row
  <2> QED
    BY <1>1, <1>2, <2>2 DEF LetsGo
<1>7. CASE RequeueRun(w)
  <2> DEFINE r == pass[w].run
  <2>1. r \in Run
    BY <1>7 DEF RequeueRun, TypeOK
  <2>2. \A o \in Run : Occupies(o)' => Occupies(o)
    BY <1>7, <2>1 DEF RequeueRun, Stamp, Occupies, TypeOK, Row
  <2> QED
    BY <1>1, <1>2, <2>2 DEF LetsGo
<1> QED
  BY <1>4, <1>5, <1>6, <1>7 DEF PassNext

LEMMA WorkerStepKinds ==
  ASSUME TypeOK, NEW w \in Worker, WorkerNext(w)
  PROVE  LetsGo
<1>1. service' = service /\ setting' = setting
  BY DEF WorkerNext, StartWorker, Recover, Beat, GoStale, Crash, serviceVars, configVars
<1>2. \A s \in Service : Holding(s)' => Holding(s)
  BY <1>1 DEF Holding
<1>3. run' = run \/ run' = Recovered(w)
  BY DEF WorkerNext, StartWorker, Recover, Beat, GoStale, Crash, runVars
<1>4. ASSUME run' = Recovered(w), NEW r \in Run, Occupies(r)'
      PROVE  Occupies(r)
  <2>1. run[r] \in Row
    BY DEF TypeOK
  <2>2. run'[r] = IF ~Abandoned(r, w) THEN run[r]
                  ELSE IF run[r].status = "running"
                       THEN [run[r] EXCEPT !.status = "failed", !.finished = TRUE]
                       ELSE Stamp(run[r])
    BY <1>4 DEF Recovered
  <2>3. CASE run'[r] = run[r]
    BY <1>4, <2>3 DEF Occupies
  <2>4. CASE run'[r] = [run[r] EXCEPT !.status = "failed", !.finished = TRUE]
    BY <1>4, <2>1, <2>4 DEF Occupies, Row
  <2>5. CASE run'[r] = Stamp(run[r])
    BY <1>4, <2>1, <2>5 DEF Stamp, Occupies, Row
  <2> QED
    BY <2>2, <2>3, <2>4, <2>5
<1>5. CASE run' = run
  BY <1>1, <1>2, <1>5 DEF LetsGo, Occupies
<1> QED
  BY <1>1, <1>2, <1>3, <1>4, <1>5 DEF LetsGo

LEMMA ExecutorStepKinds ==
  ASSUME TypeOK, NEW e \in executor, ExecutorNext(e)
  PROVE  LetsGo
<1>1. service' = service /\ setting' = setting
  BY DEF ExecutorNext, StartJob, WriteTaskRow, ParkRun, FinishRun, JobRaises,
         workerVars, serviceVars, configVars
<1>2. \A s \in Service : Holding(s)' => Holding(s)
  BY <1>1 DEF Holding
<1>3. e.run \in Run /\ run \in [Run -> Row]
  BY DEF TypeOK, Job
<1>4. CASE StartJob(e) \/ WriteTaskRow(e)
  BY <1>1, <1>2, <1>4 DEF StartJob, WriteTaskRow, runVars, LetsGo, Occupies
<1>5. CASE ParkRun(e)
  <2>1. \A r \in Run : Occupies(r)' => Occupies(r)
    BY <1>3, <1>5 DEF ParkRun, Occupies, Row
  <2> QED
    BY <1>1, <1>2, <2>1 DEF LetsGo
<1>6. CASE FinishRun(e)
  <2>1. \A r \in Run : Occupies(r)' => Occupies(r)
    BY <1>3, <1>6 DEF FinishRun, Occupies, Row, Terminal
  <2> QED
    BY <1>1, <1>2, <2>1 DEF LetsGo
<1>7. CASE JobRaises(e)
  <2>1. \A r \in Run : Occupies(r)' => Occupies(r)
    BY <1>3, <1>7 DEF JobRaises, Occupies, Row
  <2> QED
    BY <1>1, <1>2, <2>1 DEF LetsGo
<1> QED
  BY <1>4, <1>5, <1>6, <1>7 DEF ExecutorNext

LEMMA ServiceStepKinds ==
  ASSUME TypeOK, NEW s \in Service, ServiceNext(s)
  PROVE  LetsGo \/ GrantsService(s)
<1>1. ASSUME NEW from, NEW waiting \in BOOLEAN, ClaimService(s, from, waiting)
      PROVE  LetsGo \/ GrantsService(s)
  <2>1. run' = run /\ setting' = setting
    BY <1>1 DEF ClaimService, runVars, configVars
  <2>2. \A r \in Run : Occupies(r)' = Occupies(r)
    BY <2>1 DEF Occupies
  <2>3. CASE service' = [service EXCEPT ![s] = "starting"] /\
             (setting[s].resource = NoResource \/ ~ServiceConflicts(s, waiting))
    BY <2>1, <2>2, <2>3 DEF GrantsService, Holding, HOLDING, TypeOK
  <2>4. CASE service' = [service EXCEPT ![s] = "waiting_lock"]
    BY <2>1, <2>2, <2>4 DEF LetsGo, Holding, HOLDING, TypeOK
  <2> QED
    BY <1>1, <2>3, <2>4 DEF ClaimService
<1>2. ASSUME NEW from \in SUBSET ServiceState, NEW to,
             to \notin HOLDING \/ from \subseteq HOLDING,
             MoveService(s, from, to)
      PROVE  LetsGo
  <2>1. run' = run /\ setting' = setting /\ service[s] \in from
    BY <1>2 DEF MoveService, runVars, configVars
  <2>2. \A r \in Run : Occupies(r)' => Occupies(r)
    BY <2>1 DEF Occupies
  <2>3. \A o \in Service : Holding(o)' => Holding(o)
    BY <1>2, <2>1 DEF MoveService, Holding, TypeOK
  <2> QED
    BY <2>1, <2>2, <2>3 DEF LetsGo
<1>3. CASE StartService(s) \/ RetryService(s) \/ RestartService(s)
  BY <1>1, <1>3 DEF StartService, RetryService, RestartService
<1>4. CASE LaunchService(s) \/ StopService(s) \/ ServiceEnds(s) \/ GiveUpWaiting(s)
  BY <1>2, <1>4 DEF LaunchService, StopService, ServiceEnds, GiveUpWaiting,
                    HOLDING, ServiceState
<1> QED
  BY <1>3, <1>4 DEF ServiceNext

LEMMA SaveStepKinds ==
  ASSUME TypeOK, NEW c \in Workflow \cup Service, EditAtRest(c)
  PROVE  Saves
<1>1. run' = run /\ service' = service
  BY DEF EditAtRest, EditSetting, runVars, serviceVars
<1>2. DOMAIN setting' = DOMAIN setting
  BY DEF TypeOK, EditAtRest, EditSetting
<1>3. \A d \in Workflow \cup Service : setting'[d] # setting[d] => d = c
  BY DEF TypeOK, EditAtRest, EditSetting
<1>4. AtRest(c)
  BY DEF EditAtRest
<1> QED
  BY <1>1, <1>2, <1>3, <1>4 DEF Saves, Occupies, Holding

LEMMA ToggleStepKinds ==
  ASSUME ToggleNext
  PROVE  LetsGo
BY DEF ToggleNext, ToggleBuild, TogglePause, runVars, serviceVars, LetsGo, Occupies, Holding

LEMMA StepKinds ==
  ASSUME TypeOK, [RestNext]_vars
  PROVE  \/ LetsGo
         \/ \E r \in Run : GrantsRun(r)
         \/ \E s \in Service : GrantsService(s)
         \/ Saves
<1>1. CASE UNCHANGED vars
  BY <1>1 DEF vars, LetsGo, Occupies, Holding
<1>2. CASE RestNext
  BY <1>2, RunStepKinds, PassStepKinds, WorkerStepKinds, ExecutorStepKinds,
     ServiceStepKinds, SaveStepKinds, ToggleStepKinds DEF RestNext, StepNext
<1> QED
  BY <1>1, <1>2

-----------------------------------------------------------------------------
(* Exclusion.                                                              *)

LEMMA InitLocks == Init => LocksExclude
BY QueueAssumption DEF Init, LocksExclude, Holders, Occupies, Holding, HOLDING, FreshRun

\* A claimable run clashes with no other holder.
LEMMA ClaimableCompatible ==
  ASSUME NEW r \in Run, Claimable(r), NEW d \in Holders, d # r
  PROVE  ~Incompatible(ClaimOf[d], ClaimOf[r])
<1>1. ClaimOf[r] = LockOf(r)
  BY DEF ClaimOf, Claimant
<1>2. CASE d \in Run
  <2>1. Occupies(d)
    BY <1>2, QueueAssumption DEF Holders
  <2>2. ClaimOf[d] = LockOf(d)
    BY <1>2 DEF ClaimOf, Claimant
  <2> QED
    BY <1>1, <1>2, <2>1, <2>2 DEF Claimable, ResourceBlocked
<1>3. CASE d \in Service
  <2>1. Holding(d) /\ ClaimOf[d] = setting[d]
    BY <1>3, QueueAssumption DEF Holders, ClaimOf, Claimant
  <2> QED
    BY <1>1, <1>3, <2>1 DEF Claimable, ServiceBlocksRun
<1> QED
  BY <1>2, <1>3 DEF Holders

\* A service that nothing denies clashes with no other holder.
LEMMA ServiceCompatible ==
  ASSUME NEW s \in Service, NEW d \in Holders, d # s,
         setting[s].resource = NoResource \/
         \E waiting \in BOOLEAN : ~ServiceConflicts(s, waiting)
  PROVE  ~Incompatible(ClaimOf[d], ClaimOf[s])
<1>1. ClaimOf[s] = setting[s]
  BY QueueAssumption DEF ClaimOf, Claimant
<1>2. CASE setting[s].resource = NoResource
  BY <1>1, <1>2 DEF Incompatible, SameResource
<1>3. CASE d \in Run /\ setting[s].resource # NoResource
  <2>1. Occupies(d) /\ ClaimOf[d] = LockOf(d)
    BY <1>3, QueueAssumption DEF Holders, ClaimOf, Claimant
  <2> QED
    BY <1>1, <1>3, <2>1 DEF ServiceConflicts
<1>4. CASE d \in Service /\ setting[s].resource # NoResource
  <2>1. Holding(d) /\ ClaimOf[d] = setting[d]
    BY <1>4, QueueAssumption DEF Holders, ClaimOf, Claimant
  <2> QED
    BY <1>1, <1>4, <2>1 DEF ServiceConflicts
<1> QED
  BY <1>2, <1>3, <1>4 DEF Holders

LEMMA IncompatibleSym ==
  ASSUME NEW a, NEW b, Incompatible(a, b)
  PROVE  Incompatible(b, a)
BY DEF Incompatible, SameResource

\* Granting to one claimant that clashes with no other holder keeps exclusion.
LEMMA GrantKeepsExclusion ==
  ASSUME LocksExclude, NEW g \in Claimant, Holders' \subseteq Holders \cup {g},
         ClaimOf' = ClaimOf,
         \A d \in Holders : d # g => ~Incompatible(ClaimOf[d], ClaimOf[g])
  PROVE  LocksExclude'
<1> SUFFICES ASSUME NEW c \in Holders', NEW d \in Holders', c # d
             PROVE  ~Incompatible(ClaimOf[c], ClaimOf[d])
  BY DEF LocksExclude, Incompatible, SameResource
<1>1. CASE c # g /\ d # g
  BY <1>1 DEF LocksExclude
<1>2. CASE c = g
  <2>1. ~Incompatible(ClaimOf[d], ClaimOf[c])
    BY <1>2
  <2> QED
    BY <2>1, IncompatibleSym
<1>3. CASE d = g
  BY <1>3
<1> QED
  BY <1>1, <1>2, <1>3

\* Unless settings change, what a claimant claims does not.
LEMMA SameClaims ==
  ASSUME setting' = setting
  PROVE  ClaimOf' = ClaimOf
BY DEF ClaimOf, LockOf

\* A save at rest leaves what the holders claim alone.
LEMMA SavesKeepClaims ==
  ASSUME TypeOK, Saves, NEW c \in Holders
  PROVE  ClaimOf'[c] = ClaimOf[c]
<1>1. CASE c \in Run
  <2>1. WorkflowOf[c] \in Workflow \cup Service /\ Occupies(c)
    BY <1>1, QueueAssumption DEF Holders
  <2>2. setting'[WorkflowOf[c]] = setting[WorkflowOf[c]]
    BY <1>1, <2>1, QueueAssumption DEF Saves, AtRest
  <2>3. c \in Claimant
    BY <1>1 DEF Claimant
  <2> QED
    BY <1>1, <2>2, <2>3 DEF ClaimOf, LockOf
<1>2. CASE c \in Service
  <2>1. Holding(c) /\ c \notin Run /\ c \in Claimant
    BY <1>2, QueueAssumption DEF Holders, Claimant
  <2>2. setting'[c] = setting[c]
    BY <1>2, <2>1 DEF Saves, AtRest
  <2> QED
    BY <2>1, <2>2 DEF ClaimOf
<1> QED
  BY <1>1, <1>2 DEF Holders

LEMMA SavesKeepHolders ==
  ASSUME Saves
  PROVE  Holders' = Holders
BY DEF Saves, Holders

LEMMA LocksStep ==
  ASSUME TypeOK, LocksExclude, [RestNext]_vars
  PROVE  LocksExclude'
<1>1. CASE LetsGo
  <2>1. Holders' \subseteq Holders
    BY <1>1 DEF LetsGo, Holders
  <2>2. ClaimOf' = ClaimOf
    BY <1>1, SameClaims DEF LetsGo
  <2> QED
    BY <2>1, <2>2 DEF LocksExclude
<1>2. ASSUME NEW r \in Run, GrantsRun(r)
      PROVE  LocksExclude'
  <2>1. Holders' \subseteq Holders \cup {r}
    BY <1>2 DEF GrantsRun, Holders
  <2>2. ClaimOf' = ClaimOf
    BY <1>2, SameClaims DEF GrantsRun
  <2>3. \A d \in Holders : d # r => ~Incompatible(ClaimOf[d], ClaimOf[r])
    BY <1>2, ClaimableCompatible DEF GrantsRun
  <2> QED
    BY <2>1, <2>2, <2>3, GrantKeepsExclusion DEF Claimant
<1>3. ASSUME NEW s \in Service, GrantsService(s)
      PROVE  LocksExclude'
  <2>1. Holders' \subseteq Holders \cup {s}
    BY <1>3 DEF GrantsService, Holders
  <2>2. ClaimOf' = ClaimOf
    BY <1>3, SameClaims DEF GrantsService
  <2>3. \A d \in Holders : d # s => ~Incompatible(ClaimOf[d], ClaimOf[s])
    BY <1>3, ServiceCompatible DEF GrantsService
  <2> QED
    BY <2>1, <2>2, <2>3, GrantKeepsExclusion DEF Claimant
<1>4. CASE Saves
  BY <1>4, SavesKeepClaims, SavesKeepHolders DEF LocksExclude, Incompatible, SameResource
<1> QED
  BY <1>1, <1>2, <1>3, <1>4, StepKinds

\* Two holders of one resource both share it, whatever is claimed, cancelled,
\* resumed, crashed, recovered or restarted, as long as the lock settings of
\* holders are left alone (queue.py, locks.py: the two conditional UPDATEs).
THEOREM LockSafety == RestSpec => []LocksExclude
<1>1. TypeOK /\ [RestNext]_vars => TypeOK'
  BY RestStepTypes
<1>2. TypeOK /\ LocksExclude /\ [RestNext]_vars => LocksExclude'
  BY LocksStep
<1> QED
  BY <1>1, <1>2, InitTypes, InitLocks, PTL DEF RestSpec

-----------------------------------------------------------------------------
(* Concurrency limits.                                                     *)

\* The runs that hold a slot of workflow f.
Slots(f) == {r \in Run : WorkflowOf[r] = f /\ Occupies(r)}

LEMMA SlotsFinite ==
  ASSUME NEW S \in SUBSET Run
  PROVE  IsFiniteSet(S) /\ Cardinality(S) \in Nat
<1>1. IsFiniteSet(S)
  BY QueueAssumption, FS_Subset
<1> QED
  BY <1>1, FS_CardinalityType

LEMMA LimitType ==
  ASSUME TypeOK, NEW f \in Workflow
  PROVE  setting[f].limit \in Nat
BY QueueAssumption DEF TypeOK

\* Slots given up, or kept, stay within a limit that does not change.
LEMMA FewerSlots ==
  ASSUME TypeOK, NEW f \in Workflow, NEW S \in SUBSET Run, NEW T \in SUBSET S,
         Cardinality(S) <= setting[f].limit
  PROVE  Cardinality(T) <= setting[f].limit
<1>1. IsFiniteSet(S) /\ Cardinality(S) \in Nat /\ Cardinality(T) \in Nat
  BY SlotsFinite
<1>2. Cardinality(T) <= Cardinality(S)
  BY <1>1, FS_Subset
<1> QED
  BY <1>1, <1>2, LimitType

LEMMA LimitsStep ==
  ASSUME TypeOK, WithinLimits, [RestNext]_vars
  PROVE  WithinLimits'
<1> SUFFICES ASSUME NEW f \in Workflow
             PROVE  Cardinality(Slots(f)') <= setting'[f].limit
  BY DEF WithinLimits, Slots
<1>1. /\ Slots(f) \in SUBSET Run /\ Slots(f)' \in SUBSET Run
      /\ Cardinality(Slots(f)) <= setting[f].limit
  BY DEF WithinLimits, Slots
<1>2. CASE Slots(f)' \subseteq Slots(f) /\ setting'[f] = setting[f]
  BY <1>1, <1>2, FewerSlots
<1>3. CASE LetsGo
  BY <1>2, <1>3 DEF LetsGo, Slots
<1>4. ASSUME NEW r \in Run, GrantsRun(r)
      PROVE  Cardinality(Slots(f)') <= setting'[f].limit
  <2>1. setting' = setting
    BY <1>4 DEF GrantsRun
  <2>2. CASE WorkflowOf[r] # f
    <3>1. Slots(f)' \subseteq Slots(f)
      BY <1>4, <2>2 DEF GrantsRun, Slots
    <3> QED
      BY <1>2, <2>1, <3>1
  <2>3. CASE WorkflowOf[r] = f
    <3>1. Slots(f)' = Siblings(r) \cup {r}
      BY <1>4, <2>3 DEF GrantsRun, Slots, Siblings
    <3>2. Siblings(r) \in SUBSET Run /\ r \notin Siblings(r)
      BY DEF Siblings
    <3>3. IsFiniteSet(Siblings(r)) /\ Cardinality(Siblings(r)) \in Nat
      BY <3>2, SlotsFinite
    <3>4. Cardinality(Slots(f)') = Cardinality(Siblings(r)) + 1
      BY <3>1, <3>2, <3>3, FS_AddElement
    <3>5. Cardinality(Siblings(r)) < setting[f].limit
      BY <1>4, <2>3 DEF GrantsRun, Claimable, WithinBudget, LockOf
    <3> QED
      BY <2>1, <3>3, <3>4, <3>5, LimitType
  <2> QED
    BY <2>2, <2>3
<1>5. ASSUME NEW s \in Service, GrantsService(s)
      PROVE  Cardinality(Slots(f)') <= setting'[f].limit
  BY <1>2, <1>5 DEF GrantsService, Slots
<1>6. CASE Saves
  <2>1. Slots(f)' = Slots(f)
    BY <1>6 DEF Saves, Slots
  <2>2. CASE setting'[f] = setting[f]
    BY <1>2, <2>1, <2>2
  <2>3. CASE setting'[f] # setting[f]
    <3>1. Slots(f)' = {}
      BY <1>6, <2>1, <2>3 DEF Saves, AtRest, Slots
    <3>2. TypeOK'
      BY RestStepTypes
    <3>3. setting'[f].limit \in Nat
      BY <3>2, QueueAssumption DEF TypeOK
    <3> QED
      BY <3>1, <3>3, FS_EmptySet
  <2> QED
    BY <2>2, <2>3
<1> QED
  BY <1>3, <1>4, <1>5, <1>6, StepKinds

LEMMA InitLimits == Init => WithinLimits
<1> SUFFICES ASSUME Init, NEW f \in Workflow
             PROVE  Cardinality(Slots(f)) <= setting[f].limit
  BY DEF WithinLimits, Slots
<1>1. Slots(f) = {}
  BY DEF Init, Slots, Occupies, FreshRun
<1>2. setting[f].limit \in Nat
  BY InitTypes, LimitType
<1> QED
  BY <1>1, <1>2, FS_EmptySet

\* No workflow ever has more runs mid-flight than max_concurrent_runs, for any
\* number of workers and through gates, requeues and recoveries
\* (queue.py:_running_runs_for_same_workflow in the claim's UPDATE).
THEOREM LimitSafety == RestSpec => []WithinLimits
<1>1. TypeOK /\ [RestNext]_vars => TypeOK'
  BY RestStepTypes
<1>2. TypeOK /\ WithinLimits /\ [RestNext]_vars => WithinLimits'
  BY LimitsStep
<1> QED
  BY <1>1, <1>2, InitTypes, InitLimits, PTL DEF RestSpec

-----------------------------------------------------------------------------
(* Refinement: the queue and the services implement ResourceLock.          *)

LEMMA InitRefines == Init => Locks!Init
BY DEF Init, Locks!Init, Holders, Occupies, Holding, HOLDING, FreshRun

LEMMA StepRefines ==
  ASSUME TypeOK, [RestNext]_vars
  PROVE  [Locks!Next]_<<Holders, ClaimOf>>
<1>1. CASE LetsGo
  <2>1. Holders' = Holders \ (Holders \ Holders')
    BY <1>1 DEF LetsGo, Holders
  <2>2. ClaimOf' = ClaimOf
    BY <1>1, SameClaims DEF LetsGo
  <2>3. Holders \ Holders' \in SUBSET Claimant
    BY DEF Holders, Claimant
  <2>4. Locks!Release(Holders \ Holders')
    BY <2>1, <2>2 DEF Locks!Release
  <2> QED
    BY <2>3, <2>4 DEF Locks!Next
<1>2. ASSUME NEW g \in Claimant, Holders' = Holders \cup {g}, setting' = setting,
             \A d \in Holders : d # g => ~Incompatible(ClaimOf[d], ClaimOf[g])
      PROVE  [Locks!Next]_<<Holders, ClaimOf>>
  <2>1. ClaimOf' = ClaimOf
    BY <1>2, SameClaims
  <2>2. CASE g \in Holders
    BY <1>2, <2>1, <2>2
  <2>3. CASE g \notin Holders
    <3>1. \A d \in Holders : ~Locks!Clash(ClaimOf[g], ClaimOf[d])
      BY <1>2, <2>3 DEF Locks!Clash, Incompatible, SameResource
    <3>2. Locks!Acquire(g)
      BY <1>2, <2>1, <2>3, <3>1 DEF Locks!Acquire
    <3> QED
      BY <3>2 DEF Locks!Next
  <2> QED
    BY <2>2, <2>3
<1>3. ASSUME NEW r \in Run, GrantsRun(r)
      PROVE  [Locks!Next]_<<Holders, ClaimOf>>
  <2>1. Holders' = Holders \cup {r} /\ setting' = setting
    BY <1>3 DEF GrantsRun, Holders
  <2>2. \A d \in Holders : d # r => ~Incompatible(ClaimOf[d], ClaimOf[r])
    BY <1>3, ClaimableCompatible DEF GrantsRun
  <2> QED
    BY <1>2, <2>1, <2>2 DEF Claimant
<1>4. ASSUME NEW s \in Service, GrantsService(s)
      PROVE  [Locks!Next]_<<Holders, ClaimOf>>
  <2>1. Holders' = Holders \cup {s} /\ setting' = setting
    BY <1>4 DEF GrantsService, Holders
  <2>2. \A d \in Holders : d # s => ~Incompatible(ClaimOf[d], ClaimOf[s])
    BY <1>4, ServiceCompatible DEF GrantsService
  <2> QED
    BY <1>2, <2>1, <2>2 DEF Claimant
<1>5. CASE Saves
  <2>1. Holders' = Holders
    BY <1>5, SavesKeepHolders
  <2>2. DOMAIN ClaimOf' = DOMAIN ClaimOf
    BY DEF ClaimOf
  <2>3. \A c \in Holders : ClaimOf'[c] = ClaimOf[c]
    BY <1>5, SavesKeepClaims
  <2>4. Locks!Reconfigure
    BY <2>1, <2>2, <2>3 DEF Locks!Reconfigure
  <2> QED
    BY <2>4 DEF Locks!Next
<1> QED
  BY <1>1, <1>3, <1>4, <1>5, StepKinds

\* Claims of runs and services implement the lock of ResourceLock: they grant
\* one claimant at a time, only against compatible holders, and preempt nobody
\* (locks.py:14-18).
THEOREM LockRefinement == RestSpec => LocksRefined
<1>1. TypeOK /\ [RestNext]_vars => TypeOK'
  BY RestStepTypes
<1>2. TypeOK /\ [RestNext]_vars => [Locks!Next]_<<Holders, ClaimOf>>
  BY StepRefines
<1> QED
  BY <1>1, <1>2, InitTypes, InitRefines, PTL DEF RestSpec, LocksRefined, Locks!Spec

-----------------------------------------------------------------------------
(* The first segment.  A run is executed by whoever claimed it: until it   *)
(* is resumed there is at most one claim or job of it, and none while it   *)
(* waits to be claimed or decided.                                         *)

Claims(r) == {w \in Worker : pass[w].step = "claimed" /\ pass[w].run = r}
Jobs(r)   == {e \in executor : e.run = r}
Waiting   == {"none", "queued", "waiting_approval"}

OneClaimOrJob(r) ==
  /\ \A v, w \in Claims(r) : v = w
  /\ \A d, e \in Jobs(r) : d = e
  /\ Claims(r) = {} \/ Jobs(r) = {}

FirstSegment(r) ==
  /\ OneClaimOrJob(r)
  /\ run[r].status \in Waiting => Claims(r) = {} /\ Jobs(r) = {}
  /\ \A w \in Claims(r) : pass[w].seg = 0

\* The row of a run: one that runs or is parked has started; one that was never
\* created has no segment but the first.
RowOK(r) ==
  /\ run[r].status \in {"running", "waiting_approval"} => run[r].started
  /\ run[r].status = "none" => run[r].seg = 0

SegmentInv == \A r \in Run : RowOK(r) /\ (run[r].seg = 0 => FirstSegment(r))

LEMMA InitSegments == Init => SegmentInv /\ OneExecutorUntilResumed
BY DEF Init, SegmentInv, RowOK, FirstSegment, OneClaimOrJob, Claims, Jobs, Waiting,
       OneExecutorUntilResumed, FreshRun, Idle

\* A run whose row, claims and jobs a step leaves alone, or lets go of.
LEMMA Untouched ==
  ASSUME NEW r \in Run, RowOK(r), run[r].seg = 0 => FirstSegment(r),
         run'[r] = run[r] \/ /\ run'[r].seg = run[r].seg
                             /\ run'[r].status \in Terminal,
         Claims(r)' \subseteq Claims(r), Jobs(r)' \subseteq Jobs(r),
         \A w \in Claims(r)' : pass'[w].seg = pass[w].seg
  PROVE  RowOK(r)' /\ (run'[r].seg = 0 => FirstSegment(r)')
<1>1. run'[r].seg = run[r].seg /\ RowOK(r)'
  BY DEF RowOK, Terminal
<1>2. run'[r].status \in Waiting => run[r].status \in Waiting
  BY DEF Waiting, Terminal
<1>3. ASSUME run'[r].seg = 0 PROVE FirstSegment(r)'
  <2>1. FirstSegment(r)
    BY <1>1, <1>3
  <2>2. OneClaimOrJob(r)'
    BY <2>1 DEF FirstSegment, OneClaimOrJob
  <2>3. (run[r].status \in Waiting => Claims(r) = {} /\ Jobs(r) = {})'
    BY <2>1, <1>2 DEF FirstSegment
  <2>4. (\A w \in Claims(r) : pass[w].seg = 0)'
    BY <2>1 DEF FirstSegment
  <2> QED
    BY <2>2, <2>3, <2>4 DEF FirstSegment
<1> QED
  BY <1>1, <1>3

\* Runs a step has nothing to do with.
LEMMA SegmentStep ==
  ASSUME SegmentInv, NEW S \in SUBSET Run,
         \A r \in Run \ S :
           /\ run'[r] = run[r] \/ (run'[r].seg = run[r].seg /\ run'[r].status \in Terminal)
           /\ Claims(r)' \subseteq Claims(r) /\ Jobs(r)' \subseteq Jobs(r)
           /\ \A w \in Claims(r)' : pass'[w].seg = pass[w].seg,
         \A r \in S : RowOK(r)' /\ (run'[r].seg = 0 => FirstSegment(r)')
  PROVE  SegmentInv'
<1> SUFFICES ASSUME NEW r \in Run \ S
             PROVE  RowOK(r)' /\ (run'[r].seg = 0 => FirstSegment(r)')
  BY DEF SegmentInv
<1> QED
  BY Untouched DEF SegmentInv

LEMMA RunStepSegments ==
  ASSUME TypeOK, SegmentInv, NEW r \in Run, RunNext(r)
  PROVE  SegmentInv'
<1>1. pass' = pass /\ executor' = executor
  BY DEF RunNext, CreateRun, CancelRead, CancelCommit, ResumeRun, DecideGate, workerVars
<1>2. \A o \in Run : /\ Claims(o)' = Claims(o) /\ Jobs(o)' = Jobs(o)
                     /\ \A w \in Claims(o)' : pass'[w].seg = pass[w].seg
  BY <1>1 DEF Claims, Jobs
<1>3. run[r] \in Row /\ RowOK(r) /\ (run[r].seg = 0 => FirstSegment(r))
  BY DEF TypeOK, SegmentInv
<1>4. ASSUME \A o \in Run \ {r} : run'[o] = run[o],
             RowOK(r)' /\ (run'[r].seg = 0 => FirstSegment(r)')
      PROVE  SegmentInv'
  BY <1>2, <1>4, SegmentStep, {r} \in SUBSET Run
<1>5. CASE CreateRun(r)
  <2>1. run' = [run EXCEPT ![r] = FreshRun]
    BY <1>5 DEF CreateRun
  <2>2. run'[r] = FreshRun /\ \A o \in Run \ {r} : run'[o] = run[o]
    BY <2>1 DEF TypeOK
  <2>3. Claims(r) = {} /\ Jobs(r) = {}
    <3>1. CASE run[r].status = "none"
      BY <1>3, <3>1 DEF RowOK, FirstSegment, Waiting
    <3>2. CASE run[r].status # "none"
      BY <1>5, <3>2 DEF CreateRun, Claims, Jobs
    <3> QED
      BY <3>1, <3>2
  <2>4. RowOK(r)' /\ FirstSegment(r)'
    BY <1>2, <2>2, <2>3 DEF RowOK, FirstSegment, OneClaimOrJob, FreshRun
  <2> QED
    BY <1>4, <2>2, <2>4
<1>6. CASE CancelRead(r)
  BY <1>2, <1>6, SegmentStep, {} \in SUBSET Run DEF CancelRead, runVars
<1>7. CASE CancelCommit(r)
  <2>1. \A o \in Run \ {r} : run'[o] = run[o]
    BY <1>7 DEF CancelCommit, TypeOK
  <2>2. run'[r].seg = run[r].seg /\ run'[r].status \in Terminal
    BY <1>3, <1>7 DEF CancelCommit, TypeOK, Row, Terminal
  <2> QED
    BY <1>2, <2>1, <2>2, SegmentStep, {} \in SUBSET Run
<1>8. CASE ResumeRun(r)
  <2>1. \A o \in Run \ {r} : run'[o] = run[o]
    BY <1>8 DEF ResumeRun, TypeOK
  <2>2. run'[r].seg = run[r].seg + 1 /\ run'[r].status = "queued"
    BY <1>3, <1>8 DEF ResumeRun, TypeOK, Row
  <2>3. run'[r].seg # 0 /\ RowOK(r)'
    BY <1>3, <2>2, QueueAssumption DEF RowOK, Row, Segment
  <2> QED
    BY <1>4, <2>1, <2>3
<1>9. CASE DecideGate(r)
  <2>1. \A o \in Run \ {r} : run'[o] = run[o]
    BY <1>9 DEF DecideGate, TypeOK
  <2>2. /\ run'[r].seg = run[r].seg /\ run'[r].status = "queued"
        /\ run[r].status = "waiting_approval"
    BY <1>3, <1>9 DEF DecideGate, TypeOK, Row
  <2>3. RowOK(r)'
    BY <2>2 DEF RowOK
  <2>4. FirstSegment(r) => FirstSegment(r)'
    BY <1>2, <2>2 DEF FirstSegment, OneClaimOrJob, Waiting
  <2> QED
    BY <1>3, <1>4, <2>1, <2>2, <2>3, <2>4
<1> QED
  BY <1>5, <1>6, <1>7, <1>8, <1>9 DEF RunNext

\* Stamping a finish time leaves the rest of the row.
LEMMA StampFields ==
  ASSUME NEW row \in Row
  PROVE  /\ Stamp(row).seg = row.seg /\ Stamp(row).status = row.status
         /\ Stamp(row).started = row.started
BY DEF Stamp, Row

LEMMA PassStepSegments ==
  ASSUME TypeOK, SegmentInv, NEW w \in Worker, NEW r, r = pass[w].run, PassNext(w)
  PROVE  SegmentInv'
<1>1. /\ \A v \in Worker \ {w} : pass'[v] = pass[v]
      /\ DOMAIN pass' = Worker
  BY DEF TypeOK, PassNext, SelectRun, EndPass, ClaimRun, DropRun, RequeueRun, SubmitJob
<1>2. ASSUME pass'[w].step # "claimed", NEW o \in Run
      PROVE  /\ Claims(o)' = Claims(o) \ {w}
             /\ \A v \in Claims(o)' : pass'[v].seg = pass[v].seg
  BY <1>1, <1>2 DEF Claims
<1>3. ASSUME pass'[w].step # "claimed", run' = run, executor' = executor
      PROVE  SegmentInv'
  <2>1. \A o \in Run : Jobs(o)' = Jobs(o)
    BY <1>3 DEF Jobs
  <2> QED
    BY <1>2, <1>3, <2>1, SegmentStep, {} \in SUBSET Run
<1>4. CASE SelectRun(w) \/ EndPass(w)
  <2>1. pass \in [Worker -> Pass]
    BY DEF TypeOK
  <2>2. SelectRun(w) => pass'[w].step = "selected"
    BY <2>1 DEF SelectRun, Pass
  <2>3. EndPass(w) => pass'[w].step = "idle"
    BY <2>1 DEF EndPass, Idle
  <2> QED
    BY <1>3, <1>4, <2>2, <2>3 DEF SelectRun, EndPass, runVars
<1>5. CASE ClaimRun(w) /\ ~Claimable(r)
  <2>1. pass'[w].step # "claimed"
    BY <1>5 DEF ClaimRun, TypeOK, Pass, Idle
  <2> QED
    BY <1>3, <1>5, <2>1 DEF ClaimRun
<1>6. CASE ClaimRun(w) /\ Claimable(r)
  <2>1. r \in Run /\ run[r] \in Row /\ pass[w] \in Pass
    BY <1>6 DEF ClaimRun, TypeOK
  <2>2. /\ run' = [run EXCEPT ![r] = [@ EXCEPT !.status = "running", !.started = TRUE, !.owner = w]]
        /\ pass' = [pass EXCEPT ![w] = [@ EXCEPT !.step = "claimed", !.seg = run[r].seg]]
        /\ executor' = executor
    BY <1>6 DEF ClaimRun
  <2>3. /\ run'[r].status = "running" /\ run'[r].started /\ run'[r].seg = run[r].seg
        /\ \A o \in Run \ {r} : run'[o] = run[o]
    BY <2>1, <2>2 DEF TypeOK, Row
  <2>4. pass'[w].run = r /\ pass'[w].seg = run[r].seg
    BY <2>1, <2>2 DEF TypeOK, Pass
  <2>5. \A o \in Run : Jobs(o)' = Jobs(o)
    BY <2>2 DEF Jobs
  <2>6. \A o \in Run \ {r} : /\ Claims(o)' \subseteq Claims(o)
                              /\ \A v \in Claims(o)' : pass'[v].seg = pass[v].seg
    BY <1>1, <2>4 DEF Claims
  <2>7. Claims(r)' \subseteq Claims(r) \cup {w}
    BY <1>1 DEF Claims
  <2>8. RowOK(r)'
    BY <2>3 DEF RowOK
  <2>9. ASSUME run'[r].seg = 0 PROVE FirstSegment(r)'
    <3>1. Claims(r) = {} /\ Jobs(r) = {}
      BY <1>6, <2>1, <2>3, <2>9 DEF Claimable, SegmentInv, FirstSegment, Waiting
    <3>2. Claims(r)' \subseteq {w} /\ Jobs(r)' = {}
      BY <2>1, <2>5, <2>7, <3>1
    <3>3. \A v \in Claims(r)' : pass'[v].seg = 0
      BY <2>3, <2>4, <2>9, <3>2
    <3>4. run'[r].status \notin Waiting
      BY <2>3 DEF Waiting
    <3> QED
      BY <3>2, <3>3, <3>4 DEF FirstSegment, OneClaimOrJob
  <2> QED
    BY <2>1, <2>3, <2>5, <2>6, <2>8, <2>9, SegmentStep, {r} \in SUBSET Run
<1>7. CASE DropRun(w) \/ RequeueRun(w)
  <2>1. r \in Run /\ run[r] \in Row /\ pass[w] \in Pass /\ w \in Claims(r)
    BY <1>7 DEF DropRun, RequeueRun, TypeOK, Claims
  <2>2. executor' = executor /\ pass'[w].step # "claimed"
    <3>1. pass \in [Worker -> Pass] /\ pass[w] \in Pass
      BY DEF TypeOK
    <3>2. DropRun(w) => executor' = executor /\ pass'[w].step = "next"
      BY <3>1 DEF DropRun, Pass
    <3>3. RequeueRun(w) => executor' = executor /\ pass'[w].step = "next"
      BY <3>1 DEF RequeueRun, Pass
    <3> QED
      BY <1>7, <3>2, <3>3
  <2>3. \A o \in Run : Jobs(o)' = Jobs(o)
    BY <2>2 DEF Jobs
  <2>4. /\ \A o \in Run \ {r} : run'[o] = run[o]
        /\ run'[r].seg = run[r].seg
        /\ \/ run'[r].status = run[r].status /\ run'[r].started = run[r].started
           \/ run'[r].status \in {"queued", "cancelled"} /\ run[r].status = "running"
    <3>1. run \in [Run -> Row]
      BY DEF TypeOK
    <3>2. CASE DropRun(w)
      <4> DEFINE row == IF run[r].status = "running"
                        THEN [run[r] EXCEPT !.status = "cancelled", !.finished = TRUE] ELSE run[r]
      <4>1. run' = [run EXCEPT ![r] = Stamp(row)]
        BY <2>1, <3>1, <3>2 DEF DropRun
      <4>2. /\ row.seg = run[r].seg
            /\ \/ row.status = run[r].status /\ row.started = run[r].started
               \/ row.status = "cancelled" /\ run[r].status = "running"
        BY <2>1 DEF Row
      <4>3. row \in Row
        BY <2>1 DEF Row, Status, Terminal
      <4> HIDE DEF row
      <4> QED
        BY <2>1, <3>1, <4>1, <4>2, <4>3, StampFields
    <3>3. CASE RequeueRun(w)
      <4> DEFINE touched == pass[w].seg \in worked[r] \cup marked[r]
                 row == IF run[r].status = "running"
                        THEN [run[r] EXCEPT !.status = "queued", !.started = run[r].started /\ touched]
                        ELSE run[r]
      <4>1. run' = [run EXCEPT ![r] = Stamp(row)]
        BY <2>1, <3>1, <3>3, Zenon DEF RequeueRun
      <4>2. /\ row.seg = run[r].seg
            /\ \/ row.status = run[r].status /\ row.started = run[r].started
               \/ row.status = "queued" /\ run[r].status = "running"
        <5> HIDE DEF touched
        <5> QED
          BY <2>1 DEF Row
      <4>3. row \in Row
        <5>1. "queued" \in Status /\ (run[r].started /\ touched) \in BOOLEAN
          BY DEF Status
        <5> QED
          BY <2>1, <5>1, RowFields
      <4> HIDE DEF row
      <4> QED
        BY <2>1, <3>1, <4>1, <4>2, <4>3, StampFields
    <3> QED
      BY <1>7, <3>2, <3>3
  <2>5. RowOK(r)'
    BY <2>1, <2>4 DEF RowOK, SegmentInv
  <2>6. ASSUME run'[r].seg = 0 PROVE FirstSegment(r)'
    <3>1. FirstSegment(r)
      BY <2>1, <2>4, <2>6 DEF SegmentInv
    <3>2. Claims(r)' = {} /\ Jobs(r)' = {}
      BY <1>2, <2>1, <2>2, <2>3, <3>1 DEF FirstSegment, OneClaimOrJob
    <3> QED
      BY <3>2 DEF FirstSegment, OneClaimOrJob
  <2> QED
    BY <1>2, <2>1, <2>2, <2>3, <2>4, <2>5, <2>6, SegmentStep, {r} \in SUBSET Run
<1>8. CASE SubmitJob(w)
  <2> DEFINE job == [worker |-> w, run |-> r, seg |-> Unread]
  <2>1. /\ r \in Run /\ w \in Claims(r) /\ run' = run
        /\ executor' = executor \cup {job} /\ pass'[w].step # "claimed"
    BY <1>8 DEF SubmitJob, TypeOK, Claims, Idle, runVars
  <2>2. \A o \in Run \ {r} : Jobs(o)' = Jobs(o)
    BY <2>1 DEF Jobs
  <2>3. Jobs(r)' \subseteq Jobs(r) \cup {job}
    BY <2>1 DEF Jobs
  <2>4. RowOK(r)'
    BY <2>1 DEF RowOK, SegmentInv
  <2>5. ASSUME run'[r].seg = 0 PROVE FirstSegment(r)'
    <3>1. FirstSegment(r)
      BY <2>1, <2>5 DEF SegmentInv
    <3>2. Claims(r)' = {} /\ Jobs(r)' \subseteq {job}
      BY <1>2, <2>1, <2>3, <3>1 DEF FirstSegment, OneClaimOrJob
    <3>3. run'[r].status \notin Waiting
      BY <2>1, <3>1 DEF FirstSegment
    <3> QED
      BY <3>2, <3>3 DEF FirstSegment, OneClaimOrJob
  <2> QED
    BY <1>2, <2>1, <2>2, <2>4, <2>5, SegmentStep, {r} \in SUBSET Run
<1> QED
  BY <1>4, <1>5, <1>6, <1>7, <1>8 DEF PassNext

LEMMA WorkerStepSegments ==
  ASSUME TypeOK, SegmentInv, NEW w \in Worker, WorkerNext(w)
  PROVE  SegmentInv'
<1>1. \A r \in Run : run'[r] = run[r] \/ run'[r] = Recovered(w)[r]
  BY DEF WorkerNext, StartWorker, Recover, Beat, GoStale, Crash, runVars
<1>2. executor' \subseteq executor
  BY DEF WorkerNext, StartWorker, Recover, Beat, GoStale, Crash, workerVars
<1>3. pass' = pass \/ pass' = [pass EXCEPT ![w] = Idle]
  BY DEF WorkerNext, StartWorker, Recover, Beat, GoStale, Crash, workerVars
<1>4. ASSUME NEW r \in Run
      PROVE  /\ Claims(r)' \subseteq Claims(r)
             /\ \A v \in Claims(r)' : pass'[v].seg = pass[v].seg
  BY <1>3 DEF Claims, TypeOK, Idle
<1>5. \A r \in Run : Jobs(r)' \subseteq Jobs(r)
  BY <1>2 DEF Jobs
<1>6. ASSUME NEW r \in Run
      PROVE  run'[r] = run[r] \/ (run'[r].seg = run[r].seg /\ run'[r].status \in Terminal)
  <2>1. run[r] \in Row
    BY DEF TypeOK
  <2>2. \/ Recovered(w)[r] = run[r]
        \/ Recovered(w)[r] = [run[r] EXCEPT !.status = "failed", !.finished = TRUE]
        \/ Recovered(w)[r] = Stamp(run[r])
    BY DEF Recovered
  <2>3. CASE run'[r] = [run[r] EXCEPT !.status = "failed", !.finished = TRUE]
    BY <2>1, <2>3 DEF Row, Terminal
  <2>4. CASE run'[r] = Stamp(run[r]) /\ run[r].status = "cancelled"
    BY <2>1, <2>4, StampFields DEF Terminal
  <2>5. CASE run'[r] = Stamp(run[r]) /\ run[r].status # "cancelled"
    BY <2>5 DEF Stamp
  <2>6. run'[r] = run[r] \/ run'[r] = Recovered(w)[r]
    BY <1>1
  <2> QED
    BY <2>2, <2>3, <2>4, <2>5, <2>6
<1> QED
  BY <1>4, <1>5, <1>6, SegmentStep, {} \in SUBSET Run

LEMMA ExecutorStepSegments ==
  ASSUME TypeOK, SegmentInv, NEW e \in executor, ExecutorNext(e)
  PROVE  SegmentInv'
<1> DEFINE r == e.run
<1>1. e \in Job /\ r \in Run /\ run[r] \in Row /\ e \in Jobs(r)
  BY DEF TypeOK, Job, Jobs
<1>2. pass' = pass
  BY DEF ExecutorNext, StartJob, WriteTaskRow, ParkRun, FinishRun, JobRaises, workerVars
<1>3. \A o \in Run : /\ Claims(o)' = Claims(o)
                     /\ \A w \in Claims(o)' : pass'[w].seg = pass[w].seg
  BY <1>2 DEF Claims
<1>4. CASE StartJob(e)
  <2>1. run' = run /\ executor' = (executor \ {e}) \cup {[e EXCEPT !.seg = run[r].seg]}
    BY <1>4 DEF StartJob, runVars
  <2> DEFINE f == [e EXCEPT !.seg = run[r].seg]
  <2>2. f.run = r
    BY <1>1 DEF Job
  <2>3. \A o \in Run \ {r} : Jobs(o)' = Jobs(o)
    BY <2>1, <2>2 DEF Jobs
  <2>4. Jobs(r)' = (Jobs(r) \ {e}) \cup {f}
    BY <2>1, <2>2 DEF Jobs
  <2>5. RowOK(r)'
    BY <1>1, <2>1 DEF RowOK, SegmentInv
  <2>6. FirstSegment(r) => FirstSegment(r)'
    BY <1>1, <1>3, <2>1, <2>4 DEF FirstSegment, OneClaimOrJob
  <2> QED
    BY <1>1, <1>3, <2>1, <2>3, <2>5, <2>6, SegmentStep, {r} \in SUBSET Run DEF SegmentInv
<1>5. CASE WriteTaskRow(e)
  <2>1. run' = run /\ executor' = executor
    BY <1>5 DEF WriteTaskRow, workerVars
  <2> QED
    BY <1>3, <2>1, SegmentStep, {} \in SUBSET Run DEF Jobs
<1>6. CASE ParkRun(e)
  <2>1. executor' = executor \ {e}
    BY <1>6 DEF ParkRun
  <2>2. /\ \A o \in Run \ {r} : run'[o] = run[o]
        /\ run'[r].seg = run[r].seg /\ run'[r].started = run[r].started
        /\ run[r].status = "running" /\ run'[r].status \in {"queued", "waiting_approval"}
    BY <1>1, <1>6 DEF ParkRun, TypeOK, Row
  <2>3. \A o \in Run : Jobs(o)' = Jobs(o) \ {e}
    BY <2>1 DEF Jobs
  <2>4. RowOK(r)'
    BY <1>1, <2>2 DEF RowOK, SegmentInv
  <2>5. ASSUME run'[r].seg = 0 PROVE FirstSegment(r)'
    <3>1. FirstSegment(r)
      BY <1>1, <2>2, <2>5 DEF SegmentInv
    <3>2. Claims(r)' = {} /\ Jobs(r)' = {}
      BY <1>1, <1>3, <2>3, <3>1 DEF FirstSegment, OneClaimOrJob
    <3> QED
      BY <3>2 DEF FirstSegment, OneClaimOrJob
  <2> QED
    BY <1>1, <1>3, <2>2, <2>3, <2>4, <2>5, SegmentStep, {r} \in SUBSET Run
<1>7. CASE FinishRun(e) \/ JobRaises(e)
  <2>1. executor' = executor \ {e}
    BY <1>7 DEF FinishRun, JobRaises
  <2>2. \A o \in Run : Jobs(o)' \subseteq Jobs(o)
    BY <2>1 DEF Jobs
  <2>3. \A o \in Run \ {r} : run'[o] = run[o]
    BY <1>7 DEF FinishRun, JobRaises, TypeOK
  <2>4. /\ run'[r].seg = run[r].seg
        /\ \/ run'[r].status = run[r].status /\ run'[r].started = run[r].started
           \/ run'[r].status \in Terminal
    <3>1. \/ run'[r] = run[r]
          \/ run'[r] = [run[r] EXCEPT !.finished = TRUE]
          \/ \E outcome \in Terminal : run'[r] = [run[r] EXCEPT !.status = outcome, !.finished = TRUE]
      BY <1>1, <1>7 DEF FinishRun, JobRaises, TypeOK, Terminal
    <3> QED
      BY <1>1, <3>1 DEF Row
  <2>5. RowOK(r)'
    BY <1>1, <2>4 DEF RowOK, SegmentInv, Terminal
  <2>6. FirstSegment(r) => FirstSegment(r)'
    BY <1>1, <1>3, <2>2, <2>4 DEF FirstSegment, OneClaimOrJob, Waiting, Terminal
  <2> QED
    BY <1>1, <1>3, <2>2, <2>3, <2>4, <2>5, <2>6, SegmentStep, {r} \in SUBSET Run DEF SegmentInv
<1> QED
  BY <1>4, <1>5, <1>6, <1>7 DEF ExecutorNext

\* Services, saves and toggles leave runs and workers alone.
LEMMA OtherStepSegments ==
  ASSUME SegmentInv, run' = run, pass' = pass, executor' = executor
  PROVE  SegmentInv'
BY DEF SegmentInv, RowOK, FirstSegment, OneClaimOrJob, Claims, Jobs

LEMMA SegmentInvStep ==
  ASSUME TypeOK, SegmentInv, [Next]_vars
  PROVE  SegmentInv'
<1>1. CASE UNCHANGED vars
  BY <1>1, OtherStepSegments DEF vars
<1>2. ASSUME NEW s \in Service, ServiceNext(s) PROVE SegmentInv'
  BY <1>2, OtherStepSegments
     DEF ServiceNext, StartService, RetryService, RestartService, LaunchService, StopService,
         ServiceEnds, GiveUpWaiting, ClaimService, MoveService, runVars, workerVars
<1>3. ASSUME NEW c \in Workflow \cup Service, EditSetting(c) PROVE SegmentInv'
  BY <1>3, OtherStepSegments DEF EditSetting, runVars, workerVars
<1>4. CASE ToggleNext
  BY <1>4, OtherStepSegments DEF ToggleNext, ToggleBuild, TogglePause, runVars, workerVars
<1> QED
  BY <1>1, <1>2, <1>3, <1>4, RunStepSegments, PassStepSegments, WorkerStepSegments,
     ExecutorStepSegments DEF Next, StepNext

\* Jobs appear by being handed out, and are told apart by the segment they load.
LEMMA OneExecutorStep ==
  ASSUME TypeOK, SegmentInv, OneExecutorUntilResumed, [Next]_vars
  PROVE  OneExecutorUntilResumed'
<1>1. CASE executor' \subseteq executor
  BY <1>1 DEF OneExecutorUntilResumed
<1>2. ASSUME NEW w \in Worker, SubmitJob(w)
      PROVE  OneExecutorUntilResumed'
  <2>1. Unread # 0
    BY QueueAssumption
  <2> DEFINE job == [worker |-> w, run |-> pass[w].run, seg |-> Unread]
  <2>2. executor' = executor \cup {job} /\ job.seg # 0
    BY <1>2, <2>1 DEF SubmitJob
  <2> HIDE DEF job
  <2> QED
    BY <2>2 DEF OneExecutorUntilResumed
<1>3. ASSUME NEW e \in executor, StartJob(e)
      PROVE  OneExecutorUntilResumed'
  <2> DEFINE f == [e EXCEPT !.seg = run[e.run].seg]
  <2>1. e \in Job /\ e.run \in Run
    BY DEF TypeOK, Job
  <2>2. /\ executor' = (executor \ {e}) \cup {f}
        /\ f.run = e.run /\ f.seg = run[e.run].seg
    BY <1>3, <2>1 DEF StartJob, Job
  <2>3. ASSUME run[e.run].seg = 0, NEW d \in executor, d.run = e.run
        PROVE  d = e
    BY <2>1, <2>3 DEF SegmentInv, FirstSegment, OneClaimOrJob, Jobs
  <2> HIDE DEF f
  <2>4. CASE f.seg # 0
    BY <2>2, <2>4 DEF OneExecutorUntilResumed
  <2>5. CASE f.seg = 0
    <3> SUFFICES ASSUME NEW c \in executor', NEW d \in executor', c.run = d.run,
                        c.seg = 0, d.seg = 0
                 PROVE  c = d
      BY DEF OneExecutorUntilResumed
    <3>1. CASE c.run # e.run
      BY <2>2, <3>1 DEF OneExecutorUntilResumed
    <3>2. CASE c.run = e.run
      BY <2>2, <2>3, <2>5, <3>2
    <3> QED
      BY <3>1, <3>2
  <2> QED
    BY <2>4, <2>5
<1>4. ASSUME NEW r \in Run, RunNext(r) PROVE executor' \subseteq executor
  BY <1>4 DEF RunNext, CreateRun, CancelRead, CancelCommit, ResumeRun, DecideGate, workerVars
<1>5. ASSUME NEW w \in Worker, PassNext(w)
      PROVE  executor' \subseteq executor \/ SubmitJob(w)
  BY <1>5 DEF PassNext, SelectRun, EndPass, ClaimRun, DropRun, RequeueRun
<1>6. ASSUME NEW w \in Worker, WorkerNext(w) PROVE executor' \subseteq executor
  BY <1>6 DEF WorkerNext, StartWorker, Recover, Beat, GoStale, Crash, workerVars
<1>7. ASSUME NEW e \in executor, ExecutorNext(e)
      PROVE  executor' \subseteq executor \/ StartJob(e)
  BY <1>7 DEF ExecutorNext, WriteTaskRow, ParkRun, FinishRun, JobRaises, workerVars
<1>8. ASSUME NEW s \in Service, ServiceNext(s) PROVE executor' \subseteq executor
  BY <1>8 DEF ServiceNext, StartService, RetryService, RestartService, LaunchService, StopService,
              ServiceEnds, GiveUpWaiting, ClaimService, MoveService, workerVars
<1>9. (\E c \in Workflow \cup Service : EditSetting(c)) \/ ToggleNext \/ UNCHANGED vars
        => executor' \subseteq executor
  BY DEF EditSetting, ToggleNext, ToggleBuild, TogglePause, workerVars, vars
<1> QED
  BY <1>1, <1>2, <1>3, <1>4, <1>5, <1>6, <1>7, <1>8, <1>9 DEF Next, StepNext

\* Until it is resumed one executor serves a run, for any number of workers
\* that are killed, stall or recover one another's runs, and any cancels
\* (queue.py: the claim's conditional UPDATE; service.py: recovery fails a run
\* and does not queue it again).
THEOREM FirstSegmentOnce == Spec => []OneExecutorUntilResumed
<1> DEFINE Inv == TypeOK /\ SegmentInv /\ OneExecutorUntilResumed
<1>1. Init => Inv
  BY InitTypes, InitSegments
<1>2. Inv /\ [Next]_vars => Inv'
  BY StepTypes, SegmentInvStep, OneExecutorStep
<1> QED
  BY <1>1, <1>2, PTL DEF Spec

-----------------------------------------------------------------------------
(* Slots.                                                                  *)

\* Handing a run back keeps what it has done in the segment of the claim.
LEMMA RequeueKeepsSlot ==
  ASSUME TypeOK, SegmentInv, NEW w \in Worker, RequeueRun(w), NEW r \in Run,
         Occupies(r), run[r].seg \in worked[r], run[r].seg = 0 \/ ~ClaimedEarlier(r)
  PROVE  Occupies(r)' \/ run'[r].status \in Terminal
<1>1. CASE pass[w].run # r
  <2>1. run'[r] = run[r]
    BY <1>1 DEF RequeueRun, TypeOK
  <2> QED
    BY <2>1 DEF Occupies
<1>2. CASE pass[w].run = r
  <2> DEFINE touched == pass[w].seg \in worked[r] \cup marked[r]
             row == IF run[r].status = "running"
                    THEN [run[r] EXCEPT !.status = "queued", !.started = run[r].started /\ touched]
                    ELSE run[r]
  <2>1. w \in Claims(r) /\ run[r] \in Row
    BY <1>2 DEF RequeueRun, Claims, TypeOK
  <2>2. pass[w].seg = run[r].seg
    BY <2>1 DEF SegmentInv, FirstSegment, ClaimedEarlier, Claims
  <2>3. touched
    BY <2>2
  <2>4. run' = [run EXCEPT ![r] = Stamp(row)]
    BY <1>2, Zenon DEF RequeueRun
  <2>5. run'[r] = Stamp(row)
    BY <2>4 DEF TypeOK
  <2>6. CASE run[r].status = "running"
    <3>1. run[r].started
      BY <2>6 DEF SegmentInv, RowOK
    <3>2. row = [run[r] EXCEPT !.status = "queued", !.started = TRUE]
      BY <2>3, <2>6, <3>1
    <3> HIDE DEF row
    <3>3. row.status = "queued" /\ row.started
      BY <2>1, <3>2 DEF Row
    <3> QED
      BY <2>5, <3>3 DEF Stamp, Occupies
  <2>7. CASE run[r].status # "running"
    <3>1. run'[r] = Stamp(run[r])
      BY <2>5, <2>7
    <3>2. run'[r].status = run[r].status /\ run'[r].started = run[r].started
      BY <2>1, <3>1, StampFields
    <3> QED
      BY <3>2 DEF Occupies
  <2> QED
    BY <2>6, <2>7
<1> QED
  BY <1>1, <1>2

\* What every other step does to the row of a run that holds its slot.
LEMMA RunStepKeepsSlot ==
  ASSUME TypeOK, SegmentInv, NEW o \in Run, RunNext(o), NEW r \in Run, Occupies(r)
  PROVE  Occupies(r)' \/ run'[r].status \in Terminal
<1>1. run[r] \in Row /\ RowOK(r)
  BY DEF TypeOK, SegmentInv
<1>2. CASE run'[r] = run[r]
  BY <1>2 DEF Occupies
<1>3. CASE CreateRun(o) \/ CancelRead(o) \/ ResumeRun(o)
  BY <1>2, <1>3 DEF CreateRun, CancelRead, ResumeRun, runVars, TypeOK, Occupies, Terminal
<1>4. CASE CancelCommit(o)
  BY <1>1, <1>2, <1>4 DEF CancelCommit, TypeOK, Row, Terminal
<1>5. CASE DecideGate(o)
  BY <1>1, <1>2, <1>5 DEF DecideGate, TypeOK, Row, RowOK, Occupies
<1> QED
  BY <1>3, <1>4, <1>5 DEF RunNext

LEMMA PassStepKeepsSlot ==
  ASSUME TypeOK, SegmentInv, NEW w \in Worker, PassNext(w), NEW r \in Run, Occupies(r),
         run[r].seg \in worked[r], run[r].seg = 0 \/ ~ClaimedEarlier(r)
  PROVE  Occupies(r)' \/ run'[r].status \in Terminal
<1>1. CASE run'[r] = run[r]
  BY <1>1 DEF Occupies
<1>2. CASE SelectRun(w) \/ EndPass(w) \/ SubmitJob(w)
  BY <1>1, <1>2 DEF SelectRun, EndPass, SubmitJob, runVars
<1>3. CASE ClaimRun(w)
  <2>1. run[r] \in Row /\ pass[w].run \in Run
    BY <1>3 DEF TypeOK, ClaimRun
  <2>2. CASE ~Claimable(pass[w].run)
    BY <1>1, <1>3, <2>2 DEF ClaimRun
  <2>3. CASE Claimable(pass[w].run)
    <3>1. run' = [run EXCEPT ![pass[w].run] =
                   [@ EXCEPT !.status = "running", !.started = TRUE, !.owner = w]]
      BY <1>3, <2>3 DEF ClaimRun
    <3>2. CASE r # pass[w].run
      BY <1>1, <3>1, <3>2 DEF TypeOK
    <3>3. CASE r = pass[w].run
      <4>1. run'[r] = [run[r] EXCEPT !.status = "running", !.started = TRUE, !.owner = w]
        BY <2>1, <3>1, <3>3 DEF TypeOK
      <4>2. run'[r].status = "running"
        BY <2>1, <4>1 DEF Row
      <4> QED
        BY <4>2 DEF Occupies
    <3> QED
      BY <3>2, <3>3
  <2> QED
    BY <2>2, <2>3
<1>4. CASE DropRun(w)
  <2>1. run[r] \in Row
    BY DEF TypeOK
  <2>2. \/ run'[r] = run[r] \/ run'[r] = Stamp(run[r])
        \/ run'[r] = Stamp([run[r] EXCEPT !.status = "cancelled", !.finished = TRUE])
    BY <1>4 DEF DropRun, TypeOK
  <2>3. [run[r] EXCEPT !.status = "cancelled", !.finished = TRUE] \in Row
    BY <2>1 DEF Row, Status, Terminal
  <2>4. [run[r] EXCEPT !.status = "cancelled", !.finished = TRUE].status = "cancelled"
    BY <2>1 DEF Row
  <2> QED
    BY <1>1, <2>1, <2>2, <2>3, <2>4, StampFields DEF Occupies, Terminal
<1>5. CASE RequeueRun(w)
  BY <1>5, RequeueKeepsSlot
<1> QED
  BY <1>2, <1>3, <1>4, <1>5 DEF PassNext

LEMMA WorkerStepKeepsSlot ==
  ASSUME TypeOK, NEW w \in Worker, WorkerNext(w), NEW r \in Run, Occupies(r)
  PROVE  Occupies(r)' \/ run'[r].status \in Terminal
<1>1. run[r] \in Row
  BY DEF TypeOK
<1>2. run'[r] = run[r] \/ run'[r] = Recovered(w)[r]
  BY DEF WorkerNext, StartWorker, Recover, Beat, GoStale, Crash, runVars
<1>3. \/ Recovered(w)[r] = run[r]
      \/ Recovered(w)[r] = [run[r] EXCEPT !.status = "failed", !.finished = TRUE]
      \/ Recovered(w)[r] = Stamp(run[r])
  BY DEF Recovered
<1>4. CASE run'[r] = run[r]
  BY <1>4 DEF Occupies
<1>5. CASE run'[r] = [run[r] EXCEPT !.status = "failed", !.finished = TRUE]
  BY <1>1, <1>5 DEF Row, Terminal
<1>6. CASE run'[r] = Stamp(run[r])
  BY <1>1, <1>6, StampFields DEF Occupies
<1> QED
  BY <1>2, <1>3, <1>4, <1>5, <1>6

LEMMA ExecutorStepKeepsSlot ==
  ASSUME TypeOK, SegmentInv, NEW e \in executor, ExecutorNext(e), NEW r \in Run, Occupies(r)
  PROVE  Occupies(r)' \/ run'[r].status \in Terminal
<1>1. run[r] \in Row /\ RowOK(r)
  BY DEF TypeOK, SegmentInv
<1>2. CASE run'[r] = run[r]
  BY <1>2 DEF Occupies
<1>3. CASE StartJob(e) \/ WriteTaskRow(e)
  BY <1>2, <1>3 DEF StartJob, WriteTaskRow, runVars
<1>4. CASE ParkRun(e)
  <2>1. run'[r] = run[r] \/ /\ run[r].status = "running"
                            /\ run'[r].status \in {"waiting_approval", "queued"}
                            /\ run'[r].started = run[r].started
    BY <1>1, <1>4 DEF ParkRun, TypeOK, Row
  <2> QED
    BY <1>1, <1>2, <2>1 DEF RowOK, Occupies
<1>5. CASE FinishRun(e) \/ JobRaises(e)
  <2>1. run \in [Run -> Row] /\ e.run \in Run
    BY DEF TypeOK, Job
  <2>2. CASE r # e.run
    BY <1>2, <1>5, <2>1, <2>2 DEF FinishRun, JobRaises
  <2>3. CASE r = e.run
    <3>1. CASE FinishRun(e)
      <4>1. PICK outcome \in Terminal :
              run'[r] = IF run[r].seg # e.seg THEN run[r]
                        ELSE IF run[r].status = "running"
                             THEN [run[r] EXCEPT !.status = outcome, !.finished = TRUE]
                             ELSE [run[r] EXCEPT !.finished = TRUE]
        BY <2>1, <2>3, <3>1 DEF FinishRun
      <4>2. [run[r] EXCEPT !.status = outcome, !.finished = TRUE].status = outcome
        BY <1>1 DEF Row
      <4>3. /\ [run[r] EXCEPT !.finished = TRUE].status = run[r].status
            /\ [run[r] EXCEPT !.finished = TRUE].started = run[r].started
        BY <1>1 DEF Row
      <4> QED
        BY <1>2, <4>1, <4>2, <4>3 DEF Occupies
    <3>2. CASE JobRaises(e)
      <4>1. run'[r] = run[r] \/ run'[r] = [run[r] EXCEPT !.status = "failed", !.finished = TRUE]
        BY <2>1, <2>3, <3>2 DEF JobRaises
      <4>2. [run[r] EXCEPT !.status = "failed", !.finished = TRUE].status = "failed"
        BY <1>1 DEF Row
      <4> QED
        BY <1>2, <4>1, <4>2 DEF Terminal
    <3> QED
      BY <1>5, <3>1, <3>2
  <2> QED
    BY <2>2, <2>3
<1> QED
  BY <1>3, <1>4, <1>5 DEF ExecutorNext

\* A run that executed part of its segment keeps its slot and its lock until it
\* is terminal: in its first segment whatever happens, in a later one unless a
\* worker hands back a claim it made before the resume (service.py:_requeue).
THEOREM SlotKept == Spec => KeepsLockMidSegment
<1> DEFINE Keeps ==
      \A r \in Run :
        (/\ Occupies(r) /\ run[r].seg \in worked[r]
         /\ run[r].seg = 0 \/ ~ClaimedEarlier(r))
          => (Occupies(r)' \/ run'[r].status \in Terminal)
           Inv == TypeOK /\ SegmentInv
<1>1. Init => Inv
  BY InitTypes, InitSegments
<1>2. Inv /\ [Next]_vars => Inv'
  BY StepTypes, SegmentInvStep
<1>3. Inv /\ [Next]_vars => [Keeps]_vars
  <2> SUFFICES ASSUME TypeOK, SegmentInv, Next PROVE Keeps
    OBVIOUS
  <2> SUFFICES ASSUME NEW r \in Run, Occupies(r), run[r].seg \in worked[r],
                      run[r].seg = 0 \/ ~ClaimedEarlier(r)
               PROVE  Occupies(r)' \/ run'[r].status \in Terminal
    OBVIOUS
  <2>1. ASSUME run' = run PROVE Occupies(r)'
    BY <2>1 DEF Occupies
  <2>2. ASSUME NEW s \in Service, ServiceNext(s) PROVE run' = run
    BY <2>2 DEF ServiceNext, StartService, RetryService, RestartService, LaunchService, StopService,
                ServiceEnds, GiveUpWaiting, ClaimService, MoveService, runVars
  <2>3. (\E c \in Workflow \cup Service : EditSetting(c)) \/ ToggleNext => run' = run
    BY DEF EditSetting, ToggleNext, ToggleBuild, TogglePause, runVars
  <2> QED
    BY <2>1, <2>2, <2>3, RunStepKeepsSlot, PassStepKeepsSlot, WorkerStepKeepsSlot,
       ExecutorStepKeepsSlot DEF Next, StepNext
<1> QED
  BY <1>1, <1>2, <1>3, PTL DEF Spec, KeepsLockMidSegment

-----------------------------------------------------------------------------
(* Nobody is barred in a circle.                                           *)

LEMMA LeastNatural ==
  ASSUME NEW S, S \subseteq Nat, S # {}
  PROVE  \E m \in S : \A n \in S : ~(n < m)
<1>1. PICK m \in S : \A n \in S : <<n, m>> \notin OpToRel(<, Nat)
  BY NatLessThanWellFounded, WFMin
<1>2. ASSUME NEW n \in S, n < m PROVE <<n, m>> \in OpToRel(<, Nat)
  BY <1>2 DEF OpToRel
<1> QED
  BY <1>1, <1>2

\* Of some claimants, one nobody else of them is older than.
LEMMA OldestOf ==
  ASSUME TypeOK, NEW C \in SUBSET Claimant, C # {}
  PROVE  \E c \in C : \A d \in C : ~(stamp[d] < stamp[c])
<1> DEFINE S == {stamp[c] : c \in C}
<1>1. S \subseteq Nat /\ S # {}
  BY DEF TypeOK
<1>2. PICK m \in S : \A n \in S : ~(n < m)
  BY <1>1, LeastNatural
<1> QED
  BY <1>2

\* Nobody holds x: no run with x occupies a slot, no service with x is up.
Free(x) == /\ \A r \in Run : LockOf(r).resource = x => ~Occupies(r)
           /\ \A s \in Service : setting[s].resource = x => ~Holding(s)

\* The claimants of x that can bar another: services and exclusive runs.
Barring(x) == {c \in Claimant : Wants(c, x) /\ (c \in Run => LockOf(c).mode = "exclusive")}

LEMMA FreeBudget ==
  ASSUME TypeOK, NEW x, Free(x), NEW r \in Run, LockOf(r).resource = x
  PROVE  WithinBudget(r)
<1>1. Siblings(r) = {}
  BY DEF Siblings, Free, LockOf
<1>2. Cardinality(Siblings(r)) = 0
  BY <1>1, FS_EmptySet
<1>3. LockOf(r).limit \in Nat \ {0}
  BY QueueAssumption DEF TypeOK, LockOf
<1> QED
  BY <1>2, <1>3 DEF WithinBudget

\* A run that wants a free resource, with nobody that bars it queued before it.
LEMMA FreeRunGoes ==
  ASSUME TypeOK, NEW x, x # NoResource, Free(x), NEW r \in Run, Wants(r, x),
         LockOf(r).mode = "exclusive" \/ Barring(x) = {},
         \A d \in Barring(x) : ~(stamp[d] < stamp[r])
  PROVE  Claimable(r)
<1>1. run[r].status = "queued" /\ LockOf(r).resource = x /\ ~run[r].started
  BY QueueAssumption DEF Wants, Free, Occupies
<1>2. WithinBudget(r)
  BY <1>1, FreeBudget
<1>3. ASSUME NEW h \in Run, Occupies(h), Incompatible(LockOf(h), LockOf(r))
      PROVE  FALSE
  BY <1>1, <1>3 DEF Incompatible, SameResource, Free
<1>4. ASSUME Barred(r)
      PROVE  FALSE
  <2>1. PICK h \in Run : /\ SameResource(LockOf(h), LockOf(r)) /\ run[h].status = "queued"
                         /\ LockOf(h).mode = "exclusive" /\ LockOf(r).mode = "shared"
    BY <1>4 DEF Barred
  <2>2. h \in Barring(x)
    BY <1>1, <2>1 DEF Barring, Wants, SameResource, Claimant
  <2> QED
    BY <2>1, <2>2
<1>5. ASSUME ServiceBlocksRun(r)
      PROVE  FALSE
  <2>1. PICK s \in Service :
          /\ Incompatible(setting[s], LockOf(r))
          /\ Holding(s) \/ (service[s] = "waiting_lock" /\ ~run[r].started /\ stamp[s] < stamp[r])
    BY <1>5 DEF ServiceBlocksRun
  <2>2. setting[s].resource = x /\ ~Holding(s)
    BY <1>1, <2>1 DEF Incompatible, SameResource, Free
  <2>3. s \in Barring(x)
    BY <2>1, <2>2, QueueAssumption DEF Barring, Wants, Claimant
  <2> QED
    BY <2>1, <2>2, <2>3
<1> QED
  BY <1>1, <1>2, <1>3, <1>4, <1>5 DEF Claimable, ResourceBlocked

LEMMA FreeServiceGoes ==
  ASSUME TypeOK, NEW x, x # NoResource, Free(x), NEW s \in Service, Wants(s, x),
         \A d \in Barring(x) : ~(stamp[d] < stamp[s])
  PROVE  ~ServiceConflicts(s, TRUE)
<1>1. service[s] = "waiting_lock" /\ setting[s].resource = x
  BY QueueAssumption DEF Wants
<1>2. ASSUME NEW r \in Run, Occupies(r), Incompatible(LockOf(r), setting[s])
      PROVE  FALSE
  BY <1>1, <1>2 DEF Incompatible, SameResource, Free
<1>3. ASSUME NEW r \in Run, SameResource(LockOf(r), setting[s]), run[r].status = "queued",
             LockOf(r).mode = "exclusive", stamp[r] < stamp[s]
      PROVE  FALSE
  <2>1. r \in Barring(x)
    BY <1>1, <1>3 DEF Barring, Wants, SameResource, Claimant
  <2> QED
    BY <1>3, <2>1
<1>4. ASSUME NEW o \in Service, Incompatible(setting[o], setting[s]),
             Holding(o) \/ (service[o] = "waiting_lock" /\ stamp[o] < stamp[s])
      PROVE  FALSE
  <2>1. setting[o].resource = x /\ service[o] = "waiting_lock" /\ stamp[o] < stamp[s]
    BY <1>1, <1>4 DEF Incompatible, SameResource, Free
  <2>2. o \in Barring(x)
    BY <2>1, QueueAssumption DEF Barring, Wants, Claimant
  <2> QED
    BY <2>1, <2>2
<1> QED
  BY <1>2, <1>3, <1>4 DEF ServiceConflicts

\* Whatever holds, queues and waits, when nobody holds a resource that somebody
\* wants, one of those who want it is barred by none of the others: the oldest
\* service or exclusive run, or any shared run when there are none of these.
LEMMA NoCircle ==
  ASSUME TypeOK
  PROVE  SomeoneCanGo
<1> DEFINE wanting(x) == {c \in Claimant : Wants(c, x)}
<1> SUFFICES ASSUME NEW x \in {setting[c].resource : c \in Workflow \cup Service} \ {NoResource},
                    wanting(x) # {}, \A h \in Holders : ClaimOf[h].resource # x
             PROVE  \E c \in wanting(x) : CanGo(c)
  BY DEF SomeoneCanGo
<1>1. Free(x)
  <2>1. ASSUME NEW r \in Run, LockOf(r).resource = x, Occupies(r)
        PROVE  FALSE
    <3>1. r \in Holders /\ ClaimOf[r] = LockOf(r)
      BY <2>1 DEF Holders, ClaimOf, Claimant
    <3> QED
      BY <2>1, <3>1
  <2>2. ASSUME NEW s \in Service, setting[s].resource = x, Holding(s)
        PROVE  FALSE
    <3>1. s \in Holders /\ ClaimOf[s] = setting[s]
      BY <2>2, QueueAssumption DEF Holders, ClaimOf, Claimant
    <3> QED
      BY <2>2, <3>1
  <2> QED
    BY <2>1, <2>2 DEF Free
<1>2. CASE Barring(x) = {}
  <2>1. PICK c \in Claimant : Wants(c, x)
    OBVIOUS
  <2>2. c \in Run
    BY <1>2, <2>1 DEF Barring, Claimant
  <2>3. Claimable(c)
    BY <1>1, <1>2, <2>1, <2>2, FreeRunGoes
  <2> QED
    BY <2>1, <2>2, <2>3 DEF CanGo
<1>3. CASE Barring(x) # {}
  <2>1. Barring(x) \in SUBSET Claimant
    BY DEF Barring
  <2>2. PICK c \in Barring(x) : \A d \in Barring(x) : ~(stamp[d] < stamp[c])
    BY <1>3, <2>1, OldestOf
  <2>3. c \in Claimant /\ Wants(c, x) /\ (c \in Run => LockOf(c).mode = "exclusive")
    BY DEF Barring
  <2>4. CASE c \in Run
    <3>1. Claimable(c)
      BY <1>1, <2>2, <2>3, <2>4, FreeRunGoes
    <3> QED
      BY <2>3, <2>4, <3>1 DEF CanGo
  <2>5. CASE c \notin Run
    <3>1. c \in Service
      BY <2>3, <2>5 DEF Claimant
    <3>2. ~ServiceConflicts(c, TRUE)
      BY <1>1, <2>2, <2>3, <3>1, FreeServiceGoes
    <3> QED
      BY <2>3, <2>5, <3>2 DEF CanGo
  <2> QED
    BY <2>4, <2>5
<1> QED
  BY <1>2, <1>3

\* "Deadlock is structurally impossible" (models.py, Workflow.lock_resource):
\* the starvation guards of queue.py and locks.py never bar their claimants in
\* a circle, whatever the settings, the ties in time and the number of each.
THEOREM NoDeadlock == Spec => []SomeoneCanGo
BY TypeCorrect, NoCircle, PTL

-----------------------------------------------------------------------------
(* What the run page says of a queued run.                                 *)

\* The runs of r's workflow on one of the page's lists.
Counted(r, status) == {o \in Listed(status) : WorkflowOf[o] = WorkflowOf[r]}

\* The two counts of the page add up to no more slots than are taken.
LEMMA CountedSlots ==
  ASSUME TypeOK, NEW r \in Listed("queued")
  PROVE  Cardinality(Counted(r, "running"))
           + Cardinality(Counted(r, "waiting_approval"))
         <= Cardinality(Siblings(r))
<1> DEFINE going  == Counted(r, "running")
           parked == Counted(r, "waiting_approval")
<1>1. /\ going \in SUBSET Run /\ parked \in SUBSET Run /\ Siblings(r) \in SUBSET Run
      /\ going \cap parked = {}
      /\ going \cup parked \subseteq Siblings(r)
  BY DEF Counted, Listed, Siblings, Occupies
<1>2. /\ IsFiniteSet(going) /\ Cardinality(going) \in Nat
      /\ IsFiniteSet(parked) /\ Cardinality(parked) \in Nat
      /\ IsFiniteSet(Siblings(r)) /\ Cardinality(Siblings(r)) \in Nat
  BY <1>1, SlotsFinite
<1>3. Cardinality(going \cup parked) = Cardinality(going) + Cardinality(parked)
  <2>1. Cardinality(going \cap parked) = 0
    BY <1>1, FS_EmptySet
  <2>2. Cardinality(going \cup parked)
          = Cardinality(going) + Cardinality(parked) - Cardinality(going \cap parked)
    BY <1>2, FS_Union
  <2> QED
    BY <1>2, <2>1, <2>2
<1>4. Cardinality(going \cup parked) <= Cardinality(Siblings(r))
  BY <1>1, <1>2, FS_Subset
<1> QED
  BY <1>3, <1>4

\* Whoever the page says has taken the run's place keeps the worker from
\* claiming it (App.tsx, "never a false accusation"; queue.py): the page's
\* count and the claim's take the same slots, and its lock holders hold it.
THEOREM NoFalseAccusation == Spec => []HoldersAreInTheWay
<1>1. TypeOK => HoldersAreInTheWay
  <2> SUFFICES ASSUME TypeOK, NEW r \in Listed("queued"), VerdictNow(r) \in Blocked
               PROVE  ~Claimable(r)
    BY DEF HoldersAreInTheWay
  <2>1. r \in Run /\ run[r].status = "queued"
    BY DEF Listed
  <2>2. \/ Cardinality(Counted(r, "running"))
             + Cardinality(Counted(r, "waiting_approval"))
             >= LockOf(r).limit
        \/ AgainstLock(r, Listed("running") \cup Listed("waiting_approval")) # {}
    BY DEF VerdictNow, Verdict, Blocked, Counted
  <2>3. CASE AgainstLock(r, Listed("running") \cup Listed("waiting_approval")) # {}
    <3>1. PICK h \in Run : h # r /\ Occupies(h) /\ Incompatible(LockOf(h), LockOf(r))
      BY <2>3 DEF AgainstLock, Listed, Occupies
    <3> QED
      BY <3>1 DEF Claimable, ResourceBlocked
  <2>4. CASE Cardinality(Counted(r, "running"))
               + Cardinality(Counted(r, "waiting_approval"))
               >= LockOf(r).limit
    <3>1. Siblings(r) \in SUBSET Run
      BY DEF Siblings
    <3>2. Cardinality(Siblings(r)) \in Nat
      BY <3>1, SlotsFinite
    <3>3. /\ Counted(r, "running") \in SUBSET Run
          /\ Counted(r, "waiting_approval") \in SUBSET Run
      BY DEF Counted, Listed
    <3>4. /\ Cardinality(Counted(r, "running")) \in Nat
          /\ Cardinality(Counted(r, "waiting_approval")) \in Nat
      BY <3>3, SlotsFinite
    <3>5. LockOf(r).limit \in Nat
      BY <2>1, LimitType, QueueAssumption DEF LockOf
    <3>6. ~(Cardinality(Siblings(r)) < LockOf(r).limit)
      BY <2>4, <3>2, <3>4, <3>5, CountedSlots
    <3> QED
      BY <3>6 DEF Claimable, WithinBudget
  <2> QED
    BY <2>2, <2>3, <2>4
<1> QED
  BY <1>1, TypeCorrect, PTL
=============================================================================
