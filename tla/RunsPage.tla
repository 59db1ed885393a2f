------------------------------ MODULE RunsPage ------------------------------
(****************************************************************************)
(* The pages that list runs (Runs and Dashboard in App.tsx): they read a    *)
(* list when an event arrives on the websocket (ws.ts), which may be down,  *)
(* and poll while a run they show is live.  The runs page is narrowed to a  *)
(* day by its address; the dashboard is the page nobody narrows.            *)
(*                                                                          *)
(* The handlers of the socket are subscribed once, with the reload of the   *)
(* first render: an event reads the day the page was opened on.             *)
(****************************************************************************)
EXTENDS Naturals, FiniteSets

CONSTANTS
    Row,            \* the runs
    DayOfRow,       \* Row -> 1..2: the day a run was created on
    MaxDelay,       \* the longest wait before the socket is opened again
    MaxListReads,   \* reads of the list in flight at once
    MaxListMishaps  \* reads lost and sockets closed

ASSUME RunsPageAssumption ==
    DayOfRow \in [Row -> 1 .. 2] /\ MaxDelay \in Nat \ {0} /\ MaxListReads \in Nat \ {0} /\ MaxListMishaps \in Nat

VARIABLES
    listDb,         \* the runs' statuses; a run not created has none
    socketAt,       \* "connecting", "open" or "closed": to be opened again
    delay,          \* reconnectDelay
    dayMounted, day,\* the day in the address at the first render, and now; 0 is all days
    statusPicked,   \* the status filter, or "any"
    table,          \* the list on the page, or NotLoaded
    listReads,      \* reads in flight
    listVisible,    \* the tab is visible
    listMishaps

listVars == <<listDb, socketAt, delay, dayMounted, day, statusPicked, table, listReads, listVisible, listMishaps>>

RowLive(s) == s \in {"queued", "running", "waiting_approval"}
NotLoaded == [r \in Row |-> "loading"]
NoRuns == [r \in Row |-> "none"]

\* A read asked for by a mount, a change of day or a button empties the list when it
\* fails; one of an event or of the poll changes nothing then.
Request(d, empties) == [day |-> d, empties |-> empties, reply |-> NotLoaded]
Reading(d, empties) ==
    listReads' = IF Cardinality(listReads) < MaxListReads THEN listReads \cup {Request(d, empties)} ELSE listReads
OfDay(d) == [r \in Row |-> IF d \in {0, DayOfRow[r]} THEN listDb[r] ELSE "none"]

ListInit ==
    /\ listDb = NoRuns /\ socketAt = "connecting" /\ delay = 1
    /\ dayMounted \in 0 .. 1 /\ day = dayMounted /\ statusPicked = "any"
    /\ table = NotLoaded /\ listReads = {Request(day, TRUE)} /\ listVisible = TRUE /\ listMishaps = 0

----------------------------------------------------------------------------
\* The runs, and the events they cause: lost without a socket, and never sent for
\* what a worker of another process does.
Heard ==
    \/ socketAt = "open" /\ Reading(dayMounted, FALSE)
    \/ UNCHANGED listReads

RunMoves(r) ==
    /\ \/ listDb[r] \in {"none", "waiting_approval"} /\ listDb' = [listDb EXCEPT ![r] = "queued"]
       \/ listDb[r] = "queued" /\ listDb' = [listDb EXCEPT ![r] = "running"]
       \/ listDb[r] = "running" /\ listDb' = [listDb EXCEPT ![r] = "waiting_approval"]
       \/ RowLive(listDb[r]) /\ listDb' = [listDb EXCEPT ![r] = "done"]
    /\ Heard
    /\ UNCHANGED <<socketAt, delay, dayMounted, day, statusPicked, table, listVisible, listMishaps>>

SocketOpens ==
    /\ socketAt = "connecting" /\ socketAt' = "open" /\ delay' = 1
    /\ UNCHANGED <<listDb, dayMounted, day, statusPicked, table, listReads, listVisible, listMishaps>>

\* Closed by either side, or never opened: the one timer is set.
SocketCloses ==
    /\ socketAt # "closed" /\ socketAt' = "closed"
    /\ listMishaps < MaxListMishaps /\ listMishaps' = listMishaps + 1
    /\ UNCHANGED <<listDb, delay, dayMounted, day, statusPicked, table, listReads, listVisible>>

Reconnect ==
    /\ socketAt = "closed" /\ socketAt' = "connecting"
    /\ delay' = IF 2 * delay < MaxDelay THEN 2 * delay ELSE MaxDelay
    /\ UNCHANGED <<listDb, dayMounted, day, statusPicked, table, listReads, listVisible, listMishaps>>

----------------------------------------------------------------------------
\* What the page reads.

AnswerList(q) ==
    /\ q \in listReads /\ q.reply = NotLoaded
    /\ listReads' = (listReads \ {q}) \cup {[q EXCEPT !.reply = OfDay(q.day)]}
    /\ UNCHANGED <<listDb, socketAt, delay, dayMounted, day, statusPicked, table, listVisible, listMishaps>>

\* Whatever was asked for first, the last answer to land is shown.
LandRows(q) ==
    /\ q \in listReads /\ q.reply # NotLoaded
    /\ listReads' = listReads \ {q} /\ table' = q.reply
    /\ UNCHANGED <<listDb, socketAt, delay, dayMounted, day, statusPicked, listVisible, listMishaps>>

LoseRows(q) ==
    /\ q \in listReads /\ listReads' = listReads \ {q}
    /\ table' = IF q.empties THEN NoRuns ELSE table
    /\ listMishaps < MaxListMishaps /\ listMishaps' = listMishaps + 1
    /\ UNCHANGED <<listDb, socketAt, delay, dayMounted, day, statusPicked, listVisible>>

\* The panel of live runs, which is also what keeps the poll going.
LiveRuns == {r \in Row : RowLive(table[r])}

\* Mutant of PollRows: a run in the queue does not count as live.
PollRowsRunning ==
    /\ listVisible /\ (\E r \in Row : table[r] = "running") /\ Reading(day, FALSE)
    /\ UNCHANGED <<listDb, socketAt, delay, dayMounted, day, statusPicked, table, listVisible, listMishaps>>

\* useLiveRefresh: the poll reads with the reload of the latest render.
PollRows ==
    /\ listVisible /\ LiveRuns # {} /\ Reading(day, FALSE)
    /\ UNCHANGED <<listDb, socketAt, delay, dayMounted, day, statusPicked, table, listVisible, listMishaps>>

HideList ==
    /\ listVisible /\ listVisible' = FALSE
    /\ UNCHANGED <<listDb, socketAt, delay, dayMounted, day, statusPicked, table, listReads, listMishaps>>
ReturnToList ==
    /\ ~listVisible /\ listVisible' = TRUE
    /\ IF LiveRuns # {} THEN Reading(day, FALSE) ELSE UNCHANGED listReads
    /\ UNCHANGED <<listDb, socketAt, delay, dayMounted, day, statusPicked, table, listMishaps>>

----------------------------------------------------------------------------
\* What the user does.

PickDay(d) ==
    /\ d # day /\ day' = d /\ Reading(d, TRUE)
    /\ UNCHANGED <<listDb, socketAt, delay, dayMounted, statusPicked, table, listVisible, listMishaps>>

FilterStatus(s) ==
    /\ statusPicked # s /\ statusPicked' = s
    /\ UNCHANGED <<listDb, socketAt, delay, dayMounted, day, table, listReads, listVisible, listMishaps>>

\* The filters leave the read alone but for the day.
ClearFilters ==
    /\ statusPicked # "any" \/ day # 0
    /\ statusPicked' = "any" /\ day' = 0
    /\ IF day # 0 THEN Reading(0, TRUE) ELSE UNCHANGED listReads
    /\ UNCHANGED <<listDb, socketAt, delay, dayMounted, table, listVisible, listMishaps>>

\* A live row has a button, and a cancel done reads the list again.
Matches(r) == statusPicked \in {"any", table[r]}
Listed == {r \in Row : table[r] \notin {"none", "loading"} /\ Matches(r)}
CancelRow(r) ==
    /\ r \in Listed /\ RowLive(table[r]) /\ RowLive(listDb[r])
    /\ listDb' = [listDb EXCEPT ![r] = "done"] /\ Reading(day, TRUE)
    /\ UNCHANGED <<socketAt, delay, dayMounted, day, statusPicked, table, listVisible, listMishaps>>

ListNext ==
    \/ (\E r \in Row : RunMoves(r) \/ CancelRow(r))
    \/ SocketOpens \/ SocketCloses \/ Reconnect
    \/ (\E q \in listReads : AnswerList(q) \/ LandRows(q) \/ LoseRows(q))
    \/ PollRows \/ HideList \/ ReturnToList
    \/ (\E d \in 0 .. 1 : PickDay(d)) \/ (\E s \in {"any", "done"} : FilterStatus(s)) \/ ClearFilters

\* Requests are answered, answers land, and the poll's timer fires.  Nothing makes a
\* run end, a socket open or a tab come back.
AnswerDay(d) == \E q \in listReads : q.day = d /\ AnswerList(q)
LandDay(d) == \E q \in listReads : q.day = d /\ LandRows(q)
ListFairness ==
    /\ WF_listVars(PollRows)
    /\ \A d \in 0 .. 1 : WF_listVars(AnswerDay(d)) /\ WF_listVars(LandDay(d))
ListSpec == ListInit /\ [][ListNext]_listVars /\ ListFairness

----------------------------------------------------------------------------
(****************************************************************************)
(* "Runs with live statuses keep pages fresh even when the WebSocket is     *)
(* unavailable" (App.tsx, useLiveRefresh): a page left in view does not go  *)
(* on showing as live a run that is over, whatever is read for the wrong    *)
(* day, lost or late.                                                       *)
(****************************************************************************)
LiveRowsSettle ==
    \A r \in Row :
        <>[]listVisible /\ <>[](listDb[r] = "done") => <>[]~RowLive(table[r])
=============================================================================
