---------------------------------- MODULE MCPanels ----------------------------
(* Small instances of the browser's pages that poll: `panel` says which one a   *)
(* behaviour is of; the others are unmounted, with nothing in flight.           *)
EXTENDS LogViewer, WorkflowPage, ApprovalPoll, ServicePage, ScheduleGaps, Wallboard

VARIABLE panel

Panel == {"log", "workflow", "approvals", "service", "gaps", "wallboard"}

LogRest ==
  /\ ended = TRUE /\ running = FALSE /\ logs = Nothing /\ tab = "stdout" /\ onScreen = Nothing /\ loading = FALSE
  /\ socket = NoSocket /\ fetches = {} /\ switches = 0 /\ logMishaps = 0
PageRest ==
  /\ now = 1 /\ flow = NoReply /\ w = flow /\ current = flow /\ expired = FALSE /\ flowReads = {} /\ asks = {}
  /\ pop = ShutPop /\ mutes = 0 /\ reloads = 0 /\ pageMishaps = 0
ApprovalRest == ApprovalInit
ServiceRest == ServiceInit
GapRest == GapInit /\ crontab = {} /\ range = 2
WallRest == WallInit /\ runsDb = <<>>

\* Without a schedule, fires close together, fires far apart.
MCCrontabs == {{}, {1, 2, 3}, {2, 4, 6}}

Init ==
  /\ panel \in Panel
  /\ IF panel = "log" THEN LogInit ELSE LogRest
  /\ IF panel = "workflow" THEN PageInit ELSE PageRest
  /\ IF panel = "approvals" THEN ApprovalInit ELSE ApprovalRest
  /\ IF panel = "service" THEN ServiceInit ELSE ServiceRest
  /\ IF panel = "gaps" THEN GapInit ELSE GapRest
  /\ IF panel = "wallboard" THEN WallInit ELSE WallRest

panelVars == <<panel, logVars, pageVars, approvalVars, serviceVars, gapVars, wallVars>>

Keep(p, vars) == panel # p => UNCHANGED vars

Next ==
  /\ UNCHANGED panel
  /\ \/ panel = "log" /\ LogNext
     \/ panel = "workflow" /\ PageNext
     \/ panel = "approvals" /\ ApprovalNext
     \/ panel = "service" /\ ServiceNext
     \/ panel = "gaps" /\ GapNext
     \/ panel = "wallboard" /\ WallNext
  /\ Keep("log", logVars)
  /\ Keep("workflow", pageVars)
  /\ Keep("approvals", approvalVars)
  /\ Keep("service", serviceVars)
  /\ Keep("gaps", gapVars)
  /\ Keep("wallboard", wallVars)

\* The fairness of each panel's own specification, for the panel that is mounted.
Fairness ==
  /\ WF_logVars(panel = "log" /\ LearnEnd) /\ WF_logVars(panel = "log" /\ OpenSocket)
  /\ WF_logVars(panel = "log" /\ Message) /\ WF_logVars(panel = "log" /\ CloseSocket)
  /\ WF_logVars(panel = "log" /\ LandsSome)
  /\ WF_pageVars(panel = "workflow" /\ LandSome)
  /\ WF_approvalVars(panel = "approvals" /\ PollApprovals)
  /\ \A i \in 1 .. MaxReadings :
       /\ WF_approvalVars(panel = "approvals" /\ AnswerReading(i))
       /\ WF_approvalVars(panel = "approvals" /\ LandReading(i))
  /\ \A r \in Readers : WF_approvalVars(panel = "approvals" /\ Join(r))
  /\ WF_serviceVars(panel = "service" /\ Poll)
  /\ \A at \in {"asked", "done", "404", "lost"} : WF_serviceVars(panel = "service" /\ LandLoads(at))

Spec == Init /\ [][Next]_panelVars /\ Fairness
=============================================================================
