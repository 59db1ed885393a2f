------------------------------ MODULE MCPages ------------------------------
(* Small instances of the notification bell, the run page and the list of       *)
(* runs: `page` says which one a behaviour is of; the others rest.              *)
EXTENDS Notifications, RunPage, RunsPage

VARIABLE page

Page == {"bell", "run", "list"}

\* A bell in a hidden tab; a run page before its first answer.
BellRest ==
  /\ clock = 1 /\ pending = {} /\ events = {} /\ stored = 0 /\ readAt = 0 /\ boundary = 0
  /\ open = FALSE /\ bellVisible = FALSE /\ feed = NoFeed /\ lastAsked = 0 /\ wire = Idle
  /\ previous = NoCount /\ ringing = FALSE /\ bellMishaps = 0 /\ shown = {} /\ passedOver = {}
RunPageRest == RunPageInit
ListRest == ListInit /\ day = 0

\* One run, which the list narrowed to day 1 is without.
MCRow == {1}
MCDayOfRow == [r \in MCRow |-> 2]

Init ==
  /\ page \in Page
  /\ IF page = "bell" THEN BellInit ELSE BellRest
  /\ IF page = "run" THEN RunPageInit ELSE RunPageRest
  /\ IF page = "list" THEN ListInit ELSE ListRest

pagesVars == <<page, bellVars, runPageVars, listVars>>

Keep(p, vars) == page # p => UNCHANGED vars

Next ==
  /\ UNCHANGED page
  /\ \/ page = "bell" /\ BellNext
     \/ page = "run" /\ RunPageNext
     \/ page = "list" /\ ListNext
  /\ Keep("bell", bellVars)
  /\ Keep("run", runPageVars)
  /\ Keep("list", listVars)

\* The fairness of each specification, for the one a behaviour is of.
Fairness ==
  /\ WF_bellVars(page = "bell" /\ \E e \in Instant : Commit(e))
  /\ WF_bellVars(page = "bell" /\ AnswerFeed) /\ WF_bellVars(page = "bell" /\ LandFeed)
  /\ WF_bellVars(page = "bell" /\ PollFeed) /\ WF_bellVars(page = "bell" /\ RingTimer)
  /\ WF_runPageVars(page = "run" /\ ServeRun) /\ WF_runPageVars(page = "run" /\ Poll)
  /\ \A read \in RunStatus : WF_runPageVars(page = "run" /\ ServeRows(read))
  /\ \A r \in Answer : WF_runPageVars(page = "run" /\ Land(r))
  /\ WF_listVars(page = "list" /\ PollRows)
  /\ \A d \in 0 .. 1 : WF_listVars(page = "list" /\ AnswerDay(d)) /\ WF_listVars(page = "list" /\ LandDay(d))

Spec == Init /\ [][Next]_pagesVars /\ Fairness
=============================================================================
