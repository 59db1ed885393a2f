--------------------------- MODULE Notifications ---------------------------
(****************************************************************************)
(* The notification bell of the web frontend (NotificationCenter.tsx) over  *)
(* the activity feed of the server (activity.py).  The server derives the   *)
(* feed from rows it already has; what was read is one instant, kept by the *)
(* browser and sent along with every poll.                                  *)
(*                                                                          *)
(* An instant is a number: an event's `at`, a response's `generated_at`.    *)
(* 0 is the missing instant.  Past MaxClock, responses that no event        *)
(* separates carry the same instant, so polling can go on for ever.         *)
(****************************************************************************)
EXTENDS Naturals, FiniteSets

CONSTANTS
    MaxClock,   \* the instants told apart
    Limit,      \* rows a response carries
    MaxBellMishaps  \* requests that fail and page reloads, together

ASSUME BellAssumption == MaxClock \in Nat /\ Limit \in Nat \ {0} /\ MaxBellMishaps \in Nat

VARIABLES
    clock,      \* the server's clock
    pending,    \* events stamped by their writer and not committed yet
    events,     \* events committed
    open,       \* the panel is open
    bellVisible,    \* the tab is visible
    feed,       \* the last response shown, or NoFeed
    readAt,     \* the last-read instant of this page
    stored,     \* the last-read instant in localStorage
    boundary,   \* the instant the rows are drawn against
    lastAsked,  \* the stamp the feed hook last looked at
    wire,       \* the request in flight
    previous,   \* the count the ring compares with, NoCount before a feed
    ringing,    \* the bell is shaking, its timer armed
    bellMishaps,    \* requests failed and pages reloaded
    shown,      \* history: events that were rows of an open panel
    passedOver  \* history: events the stamped scans could not return

server == <<clock, pending, events>>
bell == <<feed, readAt, stored, boundary, lastAsked, previous>>
bellVars == <<server, bell, open, bellVisible, wire, ringing, bellMishaps, shown, passedOver>>

Instant == 0 .. MaxClock
NoFeed == [rows |-> {}, out |-> {}, unread |-> 0, gen |-> 0]
NoCount == MaxClock + 1

\* The newest Limit members of a set of instants.
Newest(S) == {e \in S : Cardinality({f \in S : f > e}) < Limit}

\* A response: every committed event, cut to the newest Limit, the number newer
\* than the instant the request carried, and the server's clock.  `out` is
\* history: what happened by then and is not among the rows.
Response(asked, now) ==
    [rows |-> Newest(events), out |-> pending \cup (events \ Newest(events)), unread |-> Cardinality({e \in events : e > asked}), gen |-> now]

\* The number on the bell: the server's count, unless the response is already
\* read as a whole.
Unread(read, f) == IF f = NoFeed \/ (read # 0 /\ read >= f.gen) THEN 0 ELSE f.unread

Idle == [phase |-> "idle", read |-> 0, feed |-> NoFeed]
Asked(read) == [phase |-> "asked", read |-> read, feed |-> NoFeed]

\* load(): one request at a time.
Load(read) == wire' = IF wire.phase = "idle" THEN Asked(read) ELSE wire

(****************************************************************************)
(* The feed hook's effect on a changed stamp: a stamp the current feed      *)
(* handed out is not worth another request, any other is.  `w` is what is   *)
(* in flight when the effect runs.                                          *)
(****************************************************************************)
AskAgain(read, f, w) ==
    LET looks == bellVisible /\ read # 0 /\ lastAsked # read
    IN  /\ lastAsked' = IF looks THEN read ELSE lastAsked
        /\ wire' = IF looks /\ read # f.gen /\ w.phase = "idle" THEN Asked(read) ELSE w

\* Mutant of Stamp: the clock at the time of stamping, not the response's own.
StampNow(f) == readAt' = clock /\ stored' = clock /\ passedOver' = passedOver \cup f.out

\* Stamping read: state and storage together.
Stamp(f) == readAt' = f.gen /\ stored' = f.gen /\ passedOver' = passedOver \cup f.out

\* What rendering feed f with an open panel puts before the operator.
Show(f) == shown' = shown \cup f.rows

BellInit ==
    /\ clock = 1 /\ pending = {} /\ events \in SUBSET {1}
    /\ stored \in {0, 1} /\ readAt = stored /\ boundary = stored
    /\ open = FALSE /\ bellVisible = TRUE
    /\ feed = NoFeed /\ lastAsked = stored /\ wire = Asked(stored)
    /\ previous = NoCount /\ ringing = FALSE /\ bellMishaps = 0
    /\ shown = {e \in events : e <= stored} /\ passedOver = {}

----------------------------------------------------------------------------
\* The server.  A writer stamps its row and commits it later.

Happen ==
    /\ clock < MaxClock
    /\ clock' = clock + 1
    /\ pending' = pending \cup {clock + 1}
    /\ UNCHANGED <<events, bell, open, bellVisible, wire, ringing, bellMishaps, shown, passedOver>>

Commit(e) ==
    /\ e \in pending
    /\ pending' = pending \ {e}
    /\ events' = events \cup {e}
    /\ UNCHANGED <<clock, bell, open, bellVisible, wire, ringing, bellMishaps, shown, passedOver>>

\* GET /activity: the scan, then the clock.
AnswerFeed ==
    /\ wire.phase = "asked"
    /\ \E now \in {clock, clock + 1} \cap Instant :
         /\ clock' = now
         /\ wire' = [wire EXCEPT !.phase = "answered", !.feed = Response(wire.read, now)]
    /\ UNCHANGED <<pending, events, bell, open, bellVisible, ringing, bellMishaps, shown, passedOver>>

\* Mutant of Fail: the in-flight mark is cleared by a success only.
FailStuck ==
    /\ wire.phase = "asked" /\ bellMishaps < MaxBellMishaps
    /\ wire' = [wire EXCEPT !.phase = "failed"]
    /\ bellMishaps' = bellMishaps + 1
    /\ UNCHANGED <<server, bell, open, bellVisible, ringing, shown, passedOver>>

\* A failed request: the last good feed is kept.
Fail ==
    /\ wire.phase = "asked" /\ bellMishaps < MaxBellMishaps
    /\ wire' = Idle
    /\ bellMishaps' = bellMishaps + 1
    /\ UNCHANGED <<server, bell, open, bellVisible, ringing, shown, passedOver>>

----------------------------------------------------------------------------
(****************************************************************************)
(* A response lands.  The first render counts against the old stamp, and a  *)
(* count that grew shakes the bell; an open panel then stamps itself read   *)
(* and the next render counts again.                                        *)
(****************************************************************************)
LandFeed ==
    /\ wire.phase = "answered"
    /\ LET f == wire.feed
           first == Unread(readAt, f)
           read == IF open THEN f.gen ELSE readAt
       IN  /\ feed' = f
           /\ ringing' = (ringing \/ (previous # NoCount /\ first > previous))
           /\ previous' = Unread(read, f)
           /\ IF open
              THEN Stamp(f) /\ Show(f) /\ AskAgain(read, f, Idle)
              ELSE wire' = Idle /\ UNCHANGED <<readAt, stored, shown, lastAsked, passedOver>>
    /\ UNCHANGED <<server, boundary, open, bellVisible, bellMishaps>>

\* The poll timer of a visible tab, or the Retry button.
PollFeed ==
    /\ bellVisible
    /\ Load(readAt)
    /\ UNCHANGED <<server, bell, open, bellVisible, ringing, bellMishaps, shown, passedOver>>

\* The tab goes to the background, where no timer runs, and comes back, where it
\* asks at once.
HideBell ==
    /\ bellVisible /\ bellVisible' = FALSE
    /\ UNCHANGED <<server, bell, open, wire, ringing, bellMishaps, shown, passedOver>>

ReturnToBell ==
    /\ ~bellVisible /\ bellVisible' = TRUE
    /\ Load(readAt)
    /\ UNCHANGED <<server, bell, open, ringing, bellMishaps, shown, passedOver>>

\* Opening the panel freezes the boundary of the rows, then marks the feed read.
OpenPanel ==
    /\ bellVisible /\ ~open
    /\ open' = TRUE
    /\ boundary' = readAt
    /\ IF feed = NoFeed
       THEN UNCHANGED <<readAt, stored, lastAsked, wire, previous, shown, passedOver>>
       ELSE /\ Stamp(feed) /\ Show(feed)
            /\ previous' = Unread(feed.gen, feed)
            /\ AskAgain(feed.gen, feed, wire)
    /\ UNCHANGED <<server, bellVisible, feed, ringing, bellMishaps>>

ClosePanel ==
    /\ bellVisible /\ open
    /\ open' = FALSE
    /\ UNCHANGED <<server, bell, bellVisible, wire, ringing, bellMishaps, shown, passedOver>>

\* The button is there while some row is drawn unread.
MarkAllRead ==
    /\ bellVisible /\ open
    /\ \E e \in feed.rows : e > boundary
    /\ Stamp(feed)
    /\ boundary' = feed.gen
    /\ previous' = Unread(feed.gen, feed)
    /\ AskAgain(feed.gen, feed, wire)
    /\ UNCHANGED <<server, open, bellVisible, feed, ringing, bellMishaps, shown>>

RingTimer ==
    /\ ringing /\ ringing' = FALSE
    /\ UNCHANGED <<server, bell, open, bellVisible, wire, bellMishaps, shown, passedOver>>

\* The page is loaded again: only localStorage is left.
Reload ==
    /\ bellVisible /\ bellMishaps < MaxBellMishaps /\ bellMishaps' = bellMishaps + 1
    /\ readAt' = stored /\ boundary' = stored /\ lastAsked' = stored
    /\ open' = FALSE /\ feed' = NoFeed /\ previous' = NoCount /\ ringing' = FALSE
    /\ wire' = Asked(stored)
    /\ UNCHANGED <<server, bellVisible, stored, shown, passedOver>>

BellNext ==
    \/ Happen \/ (\E e \in Instant : Commit(e)) \/ AnswerFeed \/ Fail
    \/ LandFeed \/ PollFeed \/ HideBell \/ ReturnToBell \/ RingTimer \/ Reload
    \/ OpenPanel \/ ClosePanel \/ MarkAllRead

(***************************************************************************)
(* Writers commit, the server answers, answers arrive, timers fire; what   *)
(* the operator does and which requests fail carries no fairness.          *)
(***************************************************************************)
BellFairness ==
    /\ WF_bellVars(\E e \in Instant : Commit(e)) /\ WF_bellVars(AnswerFeed) /\ WF_bellVars(LandFeed)
    /\ WF_bellVars(PollFeed) /\ WF_bellVars(RingTimer)

BellSpec == BellInit /\ [][BellNext]_bellVars /\ BellFairness

----------------------------------------------------------------------------
(****************************************************************************)
(* Nothing the operator never saw is counted as read: an event older than   *)
(* the last-read instant was a row of an open panel, unless the scan that   *)
(* was stamped could not return it, being uncommitted or past the row limit *)
(* (NotificationCenter.tsx, "would silently mark events read").             *)
(****************************************************************************)
ReadWasShown == \A e \in events : e <= readAt => e \in shown \cup passedOver

(****************************************************************************)
(* A count asked for with an older stamp can be on the bell, but not for    *)
(* good: in a tab that stays visible the bell comes to count exactly the    *)
(* committed events that are newer than the last-read instant.              *)
(****************************************************************************)
BadgeRight == feed # NoFeed /\ Unread(readAt, feed) = Cardinality({e \in events : e > readAt})
BadgeSettles == <>[]bellVisible => []<>BadgeRight

=============================================================================
