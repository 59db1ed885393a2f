----------------------------- MODULE LogViewer -----------------------------
(****************************************************************************)
(* The log viewer of a task run (LogViewer.tsx): it reads one of two logs   *)
(* over HTTP once the task is finished, and follows it over a websocket of  *)
(* its own while the task runs.  A log is the number of chunks the task has *)
(* written to it; what is on screen is a number of chunks of either log.    *)
(****************************************************************************)
EXTENDS Naturals, FiniteSets

CONSTANTS
    MaxChunks,      \* chunks the task writes to one log
    MaxSwitches,    \* clicks on a tab
    MaxLogMishaps   \* requests and sockets that fail

ASSUME LogAssumption == MaxChunks \in Nat /\ MaxSwitches \in Nat /\ MaxLogMishaps \in Nat

VARIABLES
    logs,       \* the two log files
    ended,      \* the task has ended
    running,    \* the page takes the task for running (taskStatus)
    tab,        \* the tab chosen
    onScreen,   \* the state `log`: chunks of each log in it
    loading,    \* "Loading..." covers it
    socket,     \* the socket of the current effect
    fetches,    \* requests in flight
    switches, logMishaps

logVars == <<logs, ended, running, tab, onScreen, loading, socket, fetches, switches, logMishaps>>

Stream == {"stdout", "stderr"}
Nothing == [s \in Stream |-> 0]
Only(s, n) == [Nothing EXCEPT ![s] = n]
NoSocket == [phase |-> "none", of |-> "stdout", sent |-> 0]

\* A request for log s.  Only the effect of a finished task guards its reply: the
\* effect's cleanup makes it stale.
Fetch(s, why) == [of |-> s, why |-> why, have |-> logs[s], stale |-> FALSE]

\* The cleanup of the effect in force: its own request goes stale; closing a
\* socket that is still connecting fires onerror, which asks for the old tab.
Cleaned ==
    {[f EXCEPT !.stale = (f.stale \/ f.why = "finished")] : f \in fetches}
        \cup (IF socket.phase = "connecting" THEN {Fetch(socket.of, "error")} ELSE {})

\* The effect of a tab and a task status.
Effect(s, live) ==
    /\ loading' = TRUE
    /\ IF live
       THEN /\ onScreen' = Nothing
            /\ socket' = [phase |-> "connecting", of |-> s, sent |-> 0]
            /\ fetches' = Cleaned
       ELSE /\ socket' = NoSocket /\ fetches' = Cleaned \cup {Fetch(s, "finished")}
            /\ UNCHANGED onScreen

LogInit ==
    /\ ended \in BOOLEAN /\ running = ~ended
    /\ logs \in IF ended THEN [Stream -> 0 .. MaxChunks] ELSE {Nothing}
    /\ tab = "stdout" /\ onScreen = Nothing /\ loading = TRUE
    /\ socket = IF running THEN [NoSocket EXCEPT !.phase = "connecting"] ELSE NoSocket
    /\ fetches = IF running THEN {} ELSE {Fetch("stdout", "finished")}
    /\ switches = 0 /\ logMishaps = 0

----------------------------------------------------------------------------
\* The task, and the page learning of its end.

WriteLog(s) ==
    /\ ~ended /\ logs[s] < MaxChunks
    /\ logs' = [logs EXCEPT ![s] = @ + 1]
    /\ UNCHANGED <<ended, running, tab, onScreen, loading, socket, fetches, switches, logMishaps>>

EndTask ==
    /\ ~ended /\ ended' = TRUE
    /\ UNCHANGED <<logs, running, tab, onScreen, loading, socket, fetches, switches, logMishaps>>

LearnEnd ==
    /\ ended /\ running /\ running' = FALSE
    /\ Effect(tab, FALSE)
    /\ UNCHANGED <<logs, ended, tab, switches, logMishaps>>

SwitchTab ==
    /\ switches < MaxSwitches /\ switches' = switches + 1
    /\ \E s \in Stream \ {tab} : tab' = s /\ Effect(s, running)
    /\ UNCHANGED <<logs, ended, running, logMishaps>>

----------------------------------------------------------------------------
\* The socket.

OpenSocket ==
    /\ socket.phase = "connecting"
    /\ socket' = [socket EXCEPT !.phase = "open"] /\ loading' = FALSE
    /\ UNCHANGED <<logs, ended, running, tab, onScreen, fetches, switches, logMishaps>>

\* onmessage appends what the server had not sent yet.
Message ==
    /\ socket.phase = "open" /\ socket.sent < logs[socket.of]
    /\ socket' = [socket EXCEPT !.sent = logs[socket.of]]
    /\ onScreen' = [onScreen EXCEPT ![socket.of] = @ + (logs[socket.of] - socket.sent)]
    /\ UNCHANGED <<logs, ended, running, tab, loading, fetches, switches, logMishaps>>

\* The server closes when the task is over and all is sent; a last fetch follows.
CloseSocket ==
    /\ socket.phase = "open" /\ ended /\ socket.sent = logs[socket.of]
    /\ socket' = NoSocket
    /\ fetches' = fetches \cup {Fetch(socket.of, "close")}
    /\ UNCHANGED <<logs, ended, running, tab, onScreen, loading, switches, logMishaps>>

\* onerror falls back to HTTP, and onclose follows it.
BreakSocket ==
    /\ socket.phase # "none" /\ logMishaps < MaxLogMishaps
    /\ logMishaps' = logMishaps + 1
    /\ socket' = NoSocket /\ loading' = TRUE
    /\ fetches' = fetches \cup {Fetch(socket.of, "error"), Fetch(socket.of, "close")}
    /\ UNCHANGED <<logs, ended, running, tab, onScreen, switches>>

----------------------------------------------------------------------------
\* Mutant of LandFetch: a reply is appended.
LandAppends(f) ==
    /\ f \in fetches /\ fetches' = fetches \ {f}
    /\ IF f.stale THEN UNCHANGED <<onScreen, loading>>
       ELSE /\ onScreen' = [onScreen EXCEPT ![f.of] = @ + f.have]
            /\ loading' = (loading /\ f.why = "close")
    /\ UNCHANGED <<logs, ended, running, tab, socket, switches, logMishaps>>

\* A reply lands and is the log, unless it is stale.
LandFetch(f) ==
    /\ f \in fetches /\ fetches' = fetches \ {f}
    /\ IF f.stale THEN UNCHANGED <<onScreen, loading>>
       ELSE /\ onScreen' = Only(f.of, f.have)
            /\ loading' = (loading /\ f.why = "close")
    /\ UNCHANGED <<logs, ended, running, tab, socket, switches, logMishaps>>

\* A request that fails empties the log, or keeps what was streamed.
LoseFetch(f) ==
    /\ f \in fetches /\ fetches' = fetches \ {f}
    /\ logMishaps < MaxLogMishaps /\ logMishaps' = logMishaps + 1
    /\ IF f.stale \/ f.why = "close" THEN UNCHANGED <<onScreen, loading>>
       ELSE onScreen' = Nothing /\ loading' = FALSE
    /\ UNCHANGED <<logs, ended, running, tab, socket, switches>>

LogNext ==
    \/ (\E s \in Stream : WriteLog(s)) \/ EndTask \/ LearnEnd \/ SwitchTab
    \/ OpenSocket \/ Message \/ CloseSocket \/ BreakSocket
    \/ (\E f \in fetches : LandFetch(f) \/ LoseFetch(f))

\* The socket moves, replies land, and the page's poll learns of the task's end.
LandsSome == \E f \in fetches : LandFetch(f)
LogFairness ==
    /\ WF_logVars(LearnEnd) /\ WF_logVars(OpenSocket) /\ WF_logVars(Message)
    /\ WF_logVars(CloseSocket) /\ WF_logVars(LandsSome)

LogSpec == LogInit /\ [][LogNext]_logVars /\ LogFairness

----------------------------------------------------------------------------
(****************************************************************************)
(* A task watched to its end on one tab is shown with its whole log: the    *)
(* chunks streamed, the last fetch of the socket and the fetch of the       *)
(* finished task do not leave a hole and do not add up.                     *)
(****************************************************************************)
WholeLogShown ==
    [](switches = 0 /\ logMishaps = 0) /\ <>ended => <>[](~loading /\ onScreen = Only(tab, logs[tab]))
=============================================================================
