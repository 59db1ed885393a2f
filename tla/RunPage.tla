------------------------------ MODULE RunPage ------------------------------
(*****************************************************************************)
(* The run page of the web frontend (RunDetail in App.tsx, ApprovalGate.tsx) *)
(* next to the server's run and whoever else acts on it: the worker, a       *)
(* second tab, the command line.  The page learns of the run by whole-run    *)
(* reads that are answered in any order and by the replies to its own        *)
(* clicks; an event of the server's only makes it read, and may never come.  *)
(*                                                                           *)
(* The gate is one row of the run, opened by one of its segments.            *)
(*****************************************************************************)
EXTENDS Naturals, FiniteSets

CONSTANTS
    MaxReads,       \* reads of the run in flight at once
    MaxTroubles     \* resumes of the run and requests that fail, together

ASSUME RunPageAssumption == MaxReads \in Nat \ {0} /\ MaxTroubles \in Nat

VARIABLES
    status, seg,    \* the run's row: its status and its current segment
    stopping,       \* cancelled with its executor not done yet: no finished_at
    gate,           \* the gate's row
    walk,           \* the executor, between its poll and the gate's row, or gone past it
    slipped,        \* history: the gate was written on a run that had ended, or a
                    \* read is of the run before a resume and of its tasks after it
    view,           \* the run as the page holds it, or NoRun
    asked,          \* reads sent and not served yet
    halfway,        \* reads of which the run's row was read, and not its tasks' yet
    answers,        \* reads served and not landed yet
    visible,        \* the tab is visible
    decision,       \* the click on a gate that is in flight
    card,           \* the settled card of the approval section
    mishaps         \* requests that failed

run == <<status, seg, stopping, gate, walk, slipped>>
reading == <<view, asked, halfway, answers>>
clicks == <<decision, card>>
runPageVars == <<run, reading, visible, clicks, mishaps>>

Troubles == seg - 1 + mishaps
GateStatus == {"none", "awaiting_approval", "approved", "rejected", "cancelled"}
RunStatus == {"queued", "running", "waiting_approval", "success", "failed", "cancelled"}

Live(s) == s \in {"queued", "running", "waiting_approval"}

NoRun == [status |-> "loading", gate |-> "none"]
NoCard == [says |-> "nothing", stale |-> FALSE]
NoClick == [phase |-> "idle", says |-> "approved"]

\* The page sends a read when it can; a read beyond MaxReads is not sent.
Read(n) ==
    asked' = IF n + Cardinality(halfway) + Cardinality(answers) < MaxReads THEN n + 1 ELSE n

RunPageInit ==
    /\ status = "queued" /\ seg = 1 /\ stopping = FALSE
    /\ gate = "none" /\ walk = "on" /\ slipped = FALSE
    /\ view = NoRun /\ asked = 1 /\ halfway = {} /\ answers = {}
    /\ visible = TRUE
    /\ decision = NoClick
    /\ card = NoCard
    /\ mishaps = 0

----------------------------------------------------------------------------
\* The server and the worker.

Claim ==
    /\ status = "queued" /\ status' = "running"
    /\ UNCHANGED <<seg, stopping, gate, walk, slipped, reading, visible, clicks, mishaps>>

\* The executor's poll finds the run going, and the gated task is ready.
PollFindsRunning ==
    /\ status = "running" /\ gate = "none" /\ walk = "on"
    /\ walk' = "asking"
    /\ UNCHANGED <<status, seg, stopping, gate, slipped, reading, visible, clicks, mishaps>>

\* open_gate: the row is written, whatever became of the run since that poll.
OpenGate ==
    /\ walk = "asking" /\ walk' = "pending"
    /\ gate' = "awaiting_approval"
    /\ slipped' = (slipped \/ status # "running")
    /\ UNCHANGED <<status, seg, stopping, reading, visible, clicks, mishaps>>

\* The walk ends: parked on its gate, queued again if that was decided meanwhile,
\* or the run gets its last status.
Finish ==
    /\ status = "running" /\ walk # "asking"
    /\ status' \in IF walk = "pending"
                   THEN {IF gate = "awaiting_approval" THEN "waiting_approval" ELSE "queued"}
                   ELSE {"success", "failed"} \cup (IF gate = "rejected" THEN {"cancelled"} ELSE {})
    /\ walk' = "on"
    /\ UNCHANGED <<seg, stopping, gate, slipped, reading, visible, clicks, mishaps>>

\* The executor of a cancelled run is done with it, and a gate it opened late is
\* nobody's to decide.
Stop ==
    /\ stopping /\ walk # "asking"
    /\ stopping' = FALSE /\ walk' = "on"
    /\ gate' = IF gate = "awaiting_approval" THEN "cancelled" ELSE gate
    /\ UNCHANGED <<status, seg, slipped, reading, visible, clicks, mishaps>>

\* cancel_run: the undecided gate goes with the run.
CancelRun ==
    /\ Live(status) /\ status' = "cancelled"
    /\ stopping' = (status = "running")
    /\ gate' = IF gate = "awaiting_approval" THEN "cancelled" ELSE gate
    /\ UNCHANGED <<seg, walk, slipped>>

\* Mutant of Decide: the last decision is the one that counts.
DecideAnyway(says) ==
    /\ gate # "none"
    /\ gate' = says
    /\ status' = IF status = "waiting_approval" THEN "queued" ELSE status
    /\ UNCHANGED <<seg, stopping, walk, slipped>>

\* _decide: the first decision of a gate stands; a parked run is queued again.
Decide(says) ==
    /\ gate = "awaiting_approval"
    /\ gate' = says
    /\ status' = IF status = "waiting_approval" THEN "queued" ELSE status
    /\ UNCHANGED <<seg, stopping, walk, slipped>>

\* The same handlers, asked by somebody else.
CancelElsewhere ==
    /\ CancelRun
    /\ UNCHANGED <<reading, visible, clicks, mishaps>>

DecideElsewhere ==
    /\ \E says \in {"approved", "rejected"} : Decide(says)
    /\ UNCHANGED <<reading, visible, clicks, mishaps>>

ResumeElsewhere ==
    /\ status \in {"failed", "cancelled"} /\ ~stopping /\ Troubles < MaxTroubles
    /\ status' = "queued" /\ seg' = seg + 1
    /\ UNCHANGED <<stopping, gate, walk, slipped, reading, visible, clicks, mishaps>>

----------------------------------------------------------------------------
\* How the page learns of the run.

\* The server answers a read: the run's row, and its tasks' in a statement of
\* its own (get_run).
ServeRun ==
    /\ asked > 0 /\ asked' = asked - 1
    /\ halfway' = halfway \cup {status}
    /\ UNCHANGED <<run, view, answers, visible, clicks, mishaps>>

ServeRows(read) ==
    /\ read \in halfway /\ halfway' = halfway \ {read}
    /\ answers' = answers \cup {[status |-> read, gate |-> gate]}
    /\ slipped' = (slipped \/ (~Live(read) /\ Live(status)))
    /\ UNCHANGED <<status, seg, stopping, gate, walk, view, asked, visible, clicks, mishaps>>

\* A failed read changes nothing on the page.
LoseRead ==
    /\ asked > 0 /\ Troubles < MaxTroubles
    /\ asked' = asked - 1 /\ mishaps' = mishaps + 1
    /\ UNCHANGED <<run, view, halfway, answers, visible, clicks>>

\* Answers land in any order, and the last one to land is shown.
Land(r) ==
    /\ r \in answers
    /\ answers' = answers \ {r} /\ view' = r
    /\ UNCHANGED <<run, asked, halfway, visible, clicks, mishaps>>

\* Mutant of Poll: a parked or queued run is not polled.
PollRunning ==
    /\ visible /\ view.status = "running"
    /\ Read(asked)
    /\ UNCHANGED <<run, view, halfway, answers, visible, clicks, mishaps>>

\* useLiveRefresh: while the page shows a live run and the tab is visible.
Poll ==
    /\ visible /\ Live(view.status)
    /\ Read(asked)
    /\ UNCHANGED <<run, view, halfway, answers, visible, clicks, mishaps>>

\* run_updated or task_run_updated of this run, or a note of the page's that
\* changed.  Events are lost with their socket, and a worker of its own process
\* sends none.
OnEvent ==
    /\ Read(asked)
    /\ UNCHANGED <<run, view, halfway, answers, visible, clicks, mishaps>>

Hide ==
    /\ visible /\ visible' = FALSE
    /\ UNCHANGED <<run, reading, clicks, mishaps>>

Return ==
    /\ ~visible /\ visible' = TRUE
    /\ IF Live(view.status) THEN Read(asked) ELSE UNCHANGED asked
    /\ UNCHANGED <<run, view, halfway, answers, clicks, mishaps>>

----------------------------------------------------------------------------
\* The approval section.  A gate with a settled card is not offered again.

Offered == view.gate = "awaiting_approval" /\ card = NoCard

Click(says) ==
    /\ visible /\ Offered /\ decision.phase = "idle"
    /\ decision' = [phase |-> "sent", says |-> says]
    /\ UNCHANGED <<run, reading, visible, card, mishaps>>

\* The server handles the click: recorded, or 409 "This gate is already ...".
ClickServed ==
    /\ decision.phase = "sent"
    /\ \/ Decide(decision.says) /\ decision' = [decision EXCEPT !.phase = "recorded"]
       \/ /\ gate # "awaiting_approval"
          /\ decision' = [decision EXCEPT !.phase = "already"]
          /\ UNCHANGED run
    /\ UNCHANGED <<reading, visible, card, mishaps>>

\* A card is put up, and the host page reads the run again.
Settle(says, stale) ==
    /\ card' = [says |-> says, stale |-> stale]
    /\ decision' = NoClick
    /\ Read(asked)
    /\ UNCHANGED <<run, view, halfway, answers, visible>>

ClickRecorded ==
    /\ decision.phase = "recorded"
    /\ Settle(decision.says, FALSE)
    /\ UNCHANGED mishaps

\* A settled card knows two outcomes: what is not an approval is a rejection.
CardSays(row) == IF row = "approved" THEN "approved" ELSE "rejected"

\* The loser of the race reads the row again.
ReadRow ==
    /\ decision.phase = "already"
    /\ Settle(CardSays(gate), TRUE)
    /\ UNCHANGED mishaps

\* The row cannot be read: the card is made up from the gate the page held.
ReadRowFails ==
    /\ decision.phase = "already" /\ Troubles < MaxTroubles
    /\ Settle("approved", TRUE)
    /\ mishaps' = mishaps + 1

\* The click's request or its reply is lost: a toast, and the run is read again.
ClickLost ==
    /\ decision.phase \in {"sent", "recorded"} /\ Troubles < MaxTroubles
    /\ decision' = NoClick /\ mishaps' = mishaps + 1
    /\ Read(asked)
    /\ UNCHANGED <<run, view, halfway, answers, visible, card>>

Dismiss ==
    /\ card # NoCard
    /\ card' = NoCard
    /\ UNCHANGED <<run, reading, visible, decision, mishaps>>

----------------------------------------------------------------------------
\* The page's own buttons, for the run as it is shown.

Buttons(s) ==
    IF Live(s) THEN {"cancel"}
    ELSE {"retry", "share"} \cup (IF s \in {"failed", "cancelled"} THEN {"resume"} ELSE {})

\* A click on Cancel: it reads the run again, or is refused with a toast.  The
\* page tells nothing of the request's way, so that is one step.
ClickCancel ==
    /\ visible /\ view # NoRun /\ "cancel" \in Buttons(view.status)
    /\ \/ CancelRun /\ Read(asked)
       \/ ~Live(status) /\ UNCHANGED <<run, asked>>
    /\ UNCHANGED <<view, halfway, answers, visible, clicks, mishaps>>

\* A fresh run with the same parameters, unless this one is going on after all.
\* The page goes there: another run, and another page with nothing of this one.
Retry ==
    /\ visible /\ view # NoRun /\ "retry" \in Buttons(view.status) /\ ~Live(status)
    /\ status' = "queued" /\ seg' = 1 /\ stopping' = FALSE /\ gate' = "none"
    /\ walk' = "on" /\ slipped' = FALSE
    /\ view' = NoRun /\ asked' = 1 /\ halfway' = {} /\ answers' = {}
    /\ decision' = NoClick /\ card' = NoCard
    /\ UNCHANGED <<visible, mishaps>>

RunPageNext ==
    \/ Claim \/ PollFindsRunning \/ OpenGate \/ Finish \/ Stop
    \/ CancelElsewhere \/ DecideElsewhere \/ ResumeElsewhere
    \/ ServeRun \/ (\E read \in halfway : ServeRows(read)) \/ LoseRead \/ (\E r \in answers : Land(r))
    \/ Poll \/ OnEvent \/ Hide \/ Return
    \/ (\E says \in {"approved", "rejected"} : Click(says))
    \/ ClickServed \/ ClickRecorded \/ ReadRow \/ ReadRowFails \/ ClickLost
    \/ Dismiss
    \/ ClickCancel \/ Retry

(****************************************************************************)
(* Requests are served, each answer lands, timers fire.  The page ends its  *)
(* own requests; nothing makes the run move, an event arrive or a person    *)
(* click.                                                                   *)
(****************************************************************************)
Answer == [status : RunStatus, gate : GateStatus]

RunPageFairness ==
    /\ WF_runPageVars(ServeRun) /\ WF_runPageVars(Poll)
    /\ \A read \in RunStatus : WF_runPageVars(ServeRows(read))
    /\ \A r \in Answer : WF_runPageVars(Land(r))

RunPageSpec == RunPageInit /\ [][RunPageNext]_runPageVars /\ RunPageFairness

----------------------------------------------------------------------------
(****************************************************************************)
(* A card earned by the page's own click says what the gate's row says for  *)
(* ever after: however clicks race, with others' and with a cancel, one     *)
(* decision wins and its card is right (ApprovalGate.tsx, _decide).         *)
(****************************************************************************)
OwnCardIsTrue == card # NoCard /\ ~card.stale => gate = card.says

(****************************************************************************)
(* A page left in view comes to rest, whatever is lost, in whatever order   *)
(* answers land, and though each of them is of two moments: it does not     *)
(* show a run going on that is over, nor go on offering a gate that is      *)
(* decided -- a late answer may bring the gate back, and the poll that      *)
(* answer sets going takes it away for good.  Two things may leave it on    *)
(* offer, on a page that shows the run as over and polls no more            *)
(* (hooks.ts): a gate that was written on a run cancelled since the         *)
(* executor's poll, and a read that a resume fell into.                     *)
(****************************************************************************)
SettlesOnScreen ==
    /\ <>[]visible /\ <>[]~Live(status) => <>[]~Live(view.status)
    /\ <>[]visible /\ <>[](gate # "awaiting_approval") =>
         <>[](Offered => slipped /\ ~Live(view.status))
=============================================================================
