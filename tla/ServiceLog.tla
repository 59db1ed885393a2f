----------------------------- MODULE ServiceLog -----------------------------
(****************************************************************************)
(* The log on a service's page (ServiceLog in Services.tsx): the sessions   *)
(* are listed by reads that land in any order, one of them is on view, and  *)
(* its log is read by numbered requests of which only the latest may land.  *)
(****************************************************************************)
EXTENDS Naturals, Sequences, FiniteSets

CONSTANTS
    MaxSessions,    \* starts of the service
    MaxTailLines,   \* lines a session writes
    MaxInFlight,    \* log reads in flight at once
    MaxLists,       \* lists answered and not landed at once
    MaxTailMishaps  \* log reads lost

ASSUME ServiceLogAssumption ==
    MaxSessions \in Nat /\ {MaxTailLines, MaxInFlight, MaxLists, MaxTailMishaps} \subseteq Nat

VARIABLES
    sessions,   \* the sessions so far: over or not, and lines written
    listed,     \* the sessions on screen: whether each is over
    listReads,  \* lists answered and not landed yet
    picked,     \* the session picked, 0 for the latest
    tail,       \* the log on screen: of which session, and how many lines
    logReads,   \* log reads in flight; one at most is the latest
    lostLog,    \* history: the latest log read was lost
    tailMishaps

tailVars == <<sessions, listed, listReads, picked, tail, logReads, lostLog, tailMishaps>>

NoTail == [of |-> 0, lines |-> 0]
Viewing(pick, list) == IF pick # 0 THEN pick ELSE Len(list)

TailInit ==
    /\ sessions = <<>> /\ listed = <<>> /\ listReads = {} /\ picked = 0
    /\ tail = NoTail /\ logReads = {} /\ lostLog = FALSE /\ tailMishaps = 0

----------------------------------------------------------------------------
\* The service writes, ends and starts again.

OnView == UNCHANGED <<listed, listReads, picked, tail, logReads, lostLog, tailMishaps>>

Started ==
    /\ Len(sessions) < MaxSessions /\ \A i \in DOMAIN sessions : sessions[i].over
    /\ sessions' = Append(sessions, [over |-> FALSE, lines |-> 0]) /\ OnView

Write ==
    /\ \E i \in DOMAIN sessions : /\ ~sessions[i].over /\ sessions[i].lines < MaxTailLines
                                  /\ sessions' = [sessions EXCEPT ![i].lines = @ + 1]
    /\ OnView

Ended ==
    /\ \E i \in DOMAIN sessions : ~sessions[i].over /\ sessions' = [sessions EXCEPT ![i].over = TRUE]
    /\ OnView

----------------------------------------------------------------------------
\* What is on view.

Superseded == {[r EXCEPT !.latest = FALSE] : r \in logReads}
ReadLog(of) == Superseded \cup {[of |-> of, at |-> "asked", lines |-> 0, latest |-> TRUE]}

\* The effect of a change of the session on view.
Viewed(pick, list) ==
    LET v == Viewing(pick, list)
    IN  IF v = Viewing(picked, listed) THEN UNCHANGED <<tail, logReads, lostLog>>
        ELSE /\ lostLog' = FALSE
             /\ IF v = 0 THEN tail' = NoTail /\ logReads' = Superseded
                ELSE logReads' = ReadLog(v) /\ UNCHANGED tail

\* The page reads the list at a message, at the poll, after an order.
AnswerList ==
    /\ Cardinality(listReads) < MaxLists
    /\ listReads' = listReads \cup {[i \in DOMAIN sessions |-> sessions[i].over]}
    /\ UNCHANGED <<sessions, listed, picked, tail, logReads, lostLog, tailMishaps>>

LandList(list) ==
    /\ list \in listReads /\ listReads' = listReads \ {list}
    /\ listed' = list /\ Viewed(picked, list)
    /\ UNCHANGED <<sessions, picked, tailMishaps>>

Pick(i) ==
    /\ Len(listed) > 1 /\ i \in DOMAIN listed /\ picked' = i /\ Viewed(i, listed)
    /\ UNCHANGED <<sessions, listed, listReads, tailMishaps>>

----------------------------------------------------------------------------
\* The log is read.

\* Every two seconds while the session on view is not known to be over.
PollLog ==
    /\ Cardinality(logReads) < MaxInFlight
    /\ Viewing(picked, listed) \in DOMAIN listed /\ ~listed[Viewing(picked, listed)]
    /\ logReads' = ReadLog(Viewing(picked, listed)) /\ lostLog' = FALSE
    /\ UNCHANGED <<sessions, listed, listReads, picked, tail, tailMishaps>>

AnswerLog(r) ==
    /\ r \in logReads /\ r.at = "asked"
    /\ logReads' = (logReads \ {r}) \cup {[r EXCEPT !.at = "done", !.lines = sessions[r.of].lines]}
    /\ UNCHANGED <<sessions, listed, listReads, picked, tail, lostLog, tailMishaps>>

\* Mutant of LandLog: whichever answer comes is put on screen.
LandLogUnnumbered(r) ==
    /\ r \in logReads /\ r.at = "done" /\ logReads' = logReads \ {r}
    /\ tail' = [of |-> r.of, lines |-> r.lines]
    /\ UNCHANGED <<sessions, listed, listReads, picked, lostLog, tailMishaps>>

LandLog(r) ==
    /\ r \in logReads /\ r.at = "done" /\ logReads' = logReads \ {r}
    /\ tail' = IF r.latest THEN [of |-> r.of, lines |-> r.lines] ELSE tail
    /\ UNCHANGED <<sessions, listed, listReads, picked, lostLog, tailMishaps>>

LoseLog(r) ==
    /\ r \in logReads /\ logReads' = logReads \ {r} /\ lostLog' = (lostLog \/ r.latest)
    /\ tailMishaps < MaxTailMishaps /\ tailMishaps' = tailMishaps + 1
    /\ UNCHANGED <<sessions, listed, listReads, picked, tail>>

TailNext ==
    \/ Started \/ Write \/ Ended \/ AnswerList \/ PollLog
    \/ (\E list \in listReads : LandList(list))
    \/ (\E i \in DOMAIN listed : Pick(i))
    \/ (\E r \in logReads : AnswerLog(r) \/ LandLog(r) \/ LoseLog(r))

TailSpec == TailInit /\ [][TailNext]_tailVars

----------------------------------------------------------------------------
(****************************************************************************)
(* "A slow answer for the previous run, or an older poll, must not          *)
(* overwrite a newer one" (ServiceLog): the log on screen is of the session *)
(* on view, or that session's own read is still out, or was lost.           *)
(****************************************************************************)
LogIsOfTheRun ==
    tail.of = Viewing(picked, listed) \/ lostLog \/ \E r \in logReads : r.latest
=============================================================================
