---------------------------- MODULE ApprovalPoll ----------------------------
(* The open approval gates on the dashboard and the wallboard                  *)
(* (components/ApprovalGate.tsx, useOpenApprovals): one cache and one timer of *)
(* the module serve every reader on the page.  A reader is painted from the    *)
(* cache and joins a moment later; readings are answered in any order and may  *)
(* fail; the tab hides and comes back; pages come and go.                      *)
EXTENDS Naturals, FiniteSets

CONSTANTS Gate,              \* the approval gates runs can stop at
          MaxDecisions,      \* gates opened or decided
          MaxMoves,          \* times the viewer changes page, or hides or shows the tab
          MaxReadings,       \* readings in flight at once
          MaxApprovalMishaps \* readings that fail

ASSUME ApprovalAssumption ==
  {MaxDecisions, MaxMoves, MaxApprovalMishaps} \subseteq Nat /\ MaxReadings \in Nat \ {0}

VARIABLES openGates, \* the gates open at the server
          readers,   \* each reader: off, painted (not joined yet) or joined
          shownRows,  \* the rows each reader shows
          cache,     \* approvalRows
          ticking,   \* is approvalTimer set?
          hiddenTab, \* document.hidden
          readings,  \* requests in flight, by slot
          budget     \* decisions, moves and mishaps so far

approvalVars == <<openGates, readers, shownRows, cache, ticking, hiddenTab, readings, budget>>

\* The hero's count and the inbox of the dashboard, the wallboard's live strip.
Readers == {"hero", "inbox", "wall"}
Joined  == {r \in Readers : readers[r] = "joined"}
Mounted == {r \in Readers : readers[r] # "off"}

Loading == {"loading"}
Unsent  == [rows |-> {}, stage |-> "none"]
Asked   == [rows |-> {}, stage |-> "asked"]
Idle    == {i \in DOMAIN readings : readings[i].stage = "none"}

ApprovalInit ==
  /\ openGates = {}
  /\ readers = [r \in Readers |-> "off"]
  /\ shownRows = [r \in Readers |-> Loading]
  /\ cache = Loading
  /\ ticking = FALSE
  /\ hiddenTab = FALSE
  /\ readings = [i \in 1 .. MaxReadings |-> Unsent]
  /\ budget = [decisions |-> 0, moves |-> 0, mishaps |-> 0]

Spend(what) == budget' = [budget EXCEPT ![what] = @ + 1]

\* readApprovals: one more request, in any free slot.
ReadApprovals ==
  /\ Idle # {}
  /\ readings' = [readings EXCEPT ![CHOOSE i \in Idle : \A j \in Idle : i <= j] = Asked]

(* -------------------------------- the server ----------------------------- *)
DecideOrOpen ==
  /\ budget.decisions < MaxDecisions
  /\ \E g \in Gate : openGates' = IF g \in openGates THEN openGates \ {g} ELSE openGates \cup {g}
  /\ Spend("decisions")
  /\ UNCHANGED <<readers, shownRows, cache, ticking, hiddenTab, readings>>

AnswerReading(i) ==
  /\ readings[i].stage = "asked"
  /\ readings' = [readings EXCEPT ![i] = [rows |-> openGates, stage |-> "answered"]]
  /\ UNCHANGED <<openGates, readers, shownRows, cache, ticking, hiddenTab, budget>>

(* -------------------------------- the answers ---------------------------- *)
PublishApprovals(rows) ==
  /\ cache' = rows
  /\ shownRows' = [r \in Readers |-> IF r \in Joined THEN rows ELSE shownRows[r]]

LandReading(i) ==
  /\ readings[i].stage = "answered"
  /\ PublishApprovals(readings[i].rows)
  /\ readings' = [readings EXCEPT ![i] = Unsent]
  /\ UNCHANGED <<openGates, readers, ticking, hiddenTab, budget>>

\* The last good answer stays; only a first failure resolves "loading".
LoseReading(i) ==
  /\ readings[i].stage # "none" /\ budget.mishaps < MaxApprovalMishaps
  /\ PublishApprovals(IF cache = Loading THEN {} ELSE cache)
  /\ readings' = [readings EXCEPT ![i] = Unsent]
  /\ Spend("mishaps")
  /\ UNCHANGED <<openGates, readers, ticking, hiddenTab>>

(* -------------------------------- the readers ---------------------------- *)
PollApprovals ==
  /\ ticking
  /\ ReadApprovals
  /\ UNCHANGED <<openGates, readers, shownRows, cache, ticking, hiddenTab, budget>>

Paint(rs) ==
  /\ readers' = [r \in Readers |-> IF r \in rs THEN "painted" ELSE readers[r]]
  /\ shownRows' = [r \in Readers |-> IF r \in rs THEN cache ELSE shownRows[r]]

\* A page opens; the dashboard's inbox follows when its lists have arrived.
OpenPage ==
  /\ Mounted = {} /\ budget.moves < MaxMoves
  /\ \E page \in {"hero", "wall"} : Paint({page})
  /\ Spend("moves")
  /\ UNCHANGED <<openGates, cache, ticking, hiddenTab, readings>>

ShowInbox ==
  /\ readers["hero"] = "joined" /\ readers["inbox"] = "off"
  /\ Paint({"inbox"})
  /\ UNCHANGED <<openGates, cache, ticking, hiddenTab, readings, budget>>

\* The effect: the first reader asks and starts the timer, if the tab is seen.
Join(r) ==
  /\ readers[r] = "painted"
  /\ readers' = [readers EXCEPT ![r] = "joined"]
  /\ IF Joined = {} /\ ~hiddenTab
     THEN ReadApprovals /\ ticking' = TRUE
     ELSE UNCHANGED <<readings, ticking>>
  /\ UNCHANGED <<openGates, shownRows, cache, hiddenTab, budget>>

\* The clean-up: the last reader to leave stops the timer.
Leave(rs) ==
  /\ readers' = [r \in Readers |-> IF r \in rs THEN "off" ELSE readers[r]]
  /\ shownRows' = [r \in Readers |-> IF r \in rs THEN Loading ELSE shownRows[r]]
  /\ ticking' = (ticking /\ Joined \ rs # {})

LeavePage ==
  /\ Mounted # {} /\ \A r \in Mounted : readers[r] = "joined"
  /\ budget.moves < MaxMoves /\ Leave(Readers)
  /\ Spend("moves")
  /\ UNCHANGED <<openGates, cache, hiddenTab, readings>>

\* A reload of the lists that fails leaves the dashboard without its panels.
HideInbox ==
  /\ readers["inbox"] = "joined" /\ budget.mishaps < MaxApprovalMishaps
  /\ Leave({"inbox"})
  /\ Spend("mishaps")
  /\ UNCHANGED <<openGates, cache, hiddenTab, readings>>

\* Mutant of HideOrShow: a tab that is seen again does not start the timer.
HideOrShowOnce ==
  /\ budget.moves < MaxMoves
  /\ hiddenTab' = ~hiddenTab
  /\ ticking' = FALSE
  /\ IF hiddenTab /\ Joined # {} THEN ReadApprovals ELSE UNCHANGED readings
  /\ Spend("moves")
  /\ UNCHANGED <<openGates, readers, shownRows, cache>>

\* onApprovalVisibility, listening while anyone is joined.
HideOrShow ==
  /\ budget.moves < MaxMoves
  /\ hiddenTab' = ~hiddenTab
  /\ ticking' = (hiddenTab /\ Joined # {})
  /\ IF hiddenTab /\ Joined # {} THEN ReadApprovals ELSE UNCHANGED readings
  /\ Spend("moves")
  /\ UNCHANGED <<openGates, readers, shownRows, cache>>

ApprovalNext ==
  \/ DecideOrOpen
  \/ \E i \in DOMAIN readings : AnswerReading(i) \/ LandReading(i) \/ LoseReading(i)
  \/ PollApprovals
  \/ OpenPage \/ ShowInbox \/ LeavePage \/ HideInbox \/ HideOrShow
  \/ \E r \in Readers : Join(r)

ApprovalSpec ==
  /\ ApprovalInit /\ [][ApprovalNext]_approvalVars
  /\ WF_approvalVars(PollApprovals)
  /\ \A i \in 1 .. MaxReadings : WF_approvalVars(AnswerReading(i)) /\ WF_approvalVars(LandReading(i))
  /\ \A r \in Readers : WF_approvalVars(Join(r))

(* A gate nobody sees is a run nobody finishes: on a page that stays open in a *)
(* tab that is seen, every reader comes to show the gates that are open, and   *)
(* so the hero's count comes to agree with the inbox beside it -- although the *)
(* inbox may be painted before an answer and join after it, and an older       *)
(* answer may land last.                                                       *)
GatesAreSeen ==
  \A r \in Readers : <>[](r \in Joined /\ ~hiddenTab) => <>[](shownRows[r] = openGates)
=============================================================================
