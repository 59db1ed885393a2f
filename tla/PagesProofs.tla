----------------------------- MODULE PagesProofs -----------------------------
(***************************************************************************)
(* Proofs about the run page and the notification bell, for any number of  *)
(* resumes, reads and failed requests, any length of the feed and any      *)
(* clock.                                                                  *)
(***************************************************************************)
EXTENDS Notifications, RunPage, FiniteSetTheorems, TLAPS

-----------------------------------------------------------------------------
(* The settled card of an approval gate.                                   *)

Answers  == {"approved", "rejected"}
Decision == [phase : {"idle", "sent", "recorded", "already"}, says : Answers]
Card     == [says : Answers \cup {"nothing"}, stale : BOOLEAN]

\* An executor that is about to write the gate's row finds none.
NoneYet == walk = "asking" => gate = "none"

\* The types the argument needs; a click on its way back was recorded, and so
\* was a card that is the page's own.
CardInv ==
  /\ gate \in GateStatus
  /\ NoneYet
  /\ decision \in Decision
  /\ card \in Card
  /\ decision.phase = "recorded" => gate = decision.says
  /\ OwnCardIsTrue

LEMMA InitCard == RunPageInit => CardInv
BY DEF RunPageInit, CardInv, NoneYet, GateStatus, Decision, Answers, Card, NoClick, NoCard, OwnCardIsTrue

\* A step after which the gate says what it said, unless it was undecided, and
\* which leaves the page's click and card alone.
LEMMA GateStep ==
  ASSUME CardInv, UNCHANGED <<decision, card>>, gate' \in GateStatus, NoneYet',
         gate \in Answers => gate' = gate
  PROVE  CardInv'
<1>1. decision.says \in Answers /\ (card # NoCard => card.says \in Answers \cup {"nothing"})
  BY DEF CardInv, Decision, Card
<1>2. card # NoCard /\ ~card.stale => gate = card.says
  BY DEF CardInv, OwnCardIsTrue
<1>3. "nothing" \notin GateStatus
  BY DEF GateStatus
<1>4. gate \in GateStatus
  BY DEF CardInv
<1>5. OwnCardIsTrue'
  BY <1>1, <1>2, <1>3, <1>4 DEF OwnCardIsTrue, NoCard
<1> QED
  BY <1>1, <1>5 DEF CardInv

LEMMA CardStep == CardInv /\ [RunPageNext]_runPageVars => CardInv'
<1> SUFFICES ASSUME CardInv, [RunPageNext]_runPageVars
             PROVE  CardInv'
  OBVIOUS
<1> USE DEF run, reading, clicks
<1>1. gate \in GateStatus /\ decision \in Decision /\ card \in Card
  BY DEF CardInv
<1>21. NoneYet
  BY DEF CardInv
<1>2. ASSUME UNCHANGED <<gate, decision, card>>, walk' = walk \/ walk' # "asking"
      PROVE  CardInv'
  BY <1>1, <1>21, <1>2, GateStep DEF NoneYet
<1>22. CASE PollFindsRunning
  <2>1. NoneYet'
    BY <1>22 DEF PollFindsRunning, NoneYet
  <2> QED
    BY <1>1, <1>22, <2>1, GateStep DEF PollFindsRunning
<1>3. CASE OpenGate
  <2>1. gate = "none" /\ NoneYet'
    BY <1>21, <1>3 DEF OpenGate, NoneYet
  <2> QED
    BY <1>1, <1>3, <2>1, GateStep DEF OpenGate, GateStatus, Answers
<1>23. CASE Stop
  BY <1>1, <1>23, GateStep DEF Stop, NoneYet, GateStatus, Answers
<1>4. ASSUME CancelRun, UNCHANGED <<decision, card>>
      PROVE  CardInv'
  BY <1>1, <1>21, <1>4, GateStep DEF CancelRun, NoneYet, GateStatus, Answers
<1>5. CASE DecideElsewhere
  <2>1. PICK says \in Answers : Decide(says)
    BY <1>5 DEF DecideElsewhere, Answers
  <2>2. gate = "awaiting_approval" /\ gate' = says /\ NoneYet'
    BY <1>21, <2>1 DEF Decide, NoneYet
  <2> QED
    BY <1>1, <1>5, <2>2, GateStep DEF DecideElsewhere, GateStatus, Answers
<1>6. ASSUME NEW says \in Answers, Click(says)
      PROVE  CardInv'
  BY <1>1, <1>6 DEF Click, CardInv, NoneYet, Decision, OwnCardIsTrue
<1>7. CASE ClickServed
  <2>1. decision.says \in Answers /\ [decision EXCEPT !.phase = "recorded"] \in Decision
        /\ [decision EXCEPT !.phase = "already"] \in Decision
        /\ [decision EXCEPT !.phase = "recorded"].says = decision.says
        /\ [decision EXCEPT !.phase = "already"].phase = "already"
    BY <1>1 DEF Decision
  <2>2. CASE Decide(decision.says) /\ decision' = [decision EXCEPT !.phase = "recorded"]
    <3>1. gate = "awaiting_approval" /\ gate' = decision.says /\ NoneYet'
      BY <1>21, <2>2 DEF Decide, NoneYet
    <3>2. ~(card # NoCard /\ ~card.stale)
      BY <1>1, <3>1 DEF CardInv, OwnCardIsTrue, Card, Answers
    <3>3. gate' \in GateStatus /\ card' = card
      BY <1>7, <2>1, <3>1 DEF ClickServed, GateStatus, Answers
    <3> QED
      BY <1>1, <2>1, <2>2, <3>1, <3>2, <3>3 DEF CardInv, OwnCardIsTrue
  <2>3. CASE UNCHANGED run /\ decision' = [decision EXCEPT !.phase = "already"]
    <3>1. gate' = gate /\ card' = card /\ NoneYet'
      BY <1>21, <1>7, <2>3 DEF ClickServed, NoneYet
    <3> QED
      BY <2>1, <2>3, <3>1 DEF CardInv, OwnCardIsTrue
  <2> QED
    BY <1>7, <2>2, <2>3 DEF ClickServed
<1>8. ASSUME NEW says \in Answers, NEW stale \in BOOLEAN, Settle(says, stale), stale \/ gate = says
      PROVE  CardInv'
  <2>1. /\ gate' = gate /\ decision' = NoClick /\ card' = [says |-> says, stale |-> stale]
        /\ NoneYet'
    BY <1>21, <1>8 DEF Settle, NoneYet
  <2>2. NoClick \in Decision /\ NoClick.phase = "idle" /\ [says |-> says, stale |-> stale] \in Card
    BY DEF NoClick, Decision, Answers, Card
  <2> QED
    BY <1>1, <1>8, <2>1, <2>2 DEF CardInv, OwnCardIsTrue
<1>9. CASE ClickRecorded
  <2>1. decision.says \in Answers /\ gate = decision.says
    BY <1>1, <1>9 DEF ClickRecorded, CardInv, Decision
  <2> QED
    BY <1>8, <1>9, <2>1 DEF ClickRecorded
<1>10. CASE ReadRow \/ ReadRowFails
  BY <1>8, <1>10 DEF ReadRow, ReadRowFails, CardSays, Answers
<1>11. CASE ClickLost
  BY <1>1, <1>11 DEF ClickLost, CardInv, NoneYet, NoClick, Decision, Answers, OwnCardIsTrue
<1>12. CASE Dismiss
  BY <1>1, <1>12 DEF Dismiss, CardInv, NoneYet, NoCard, Card, OwnCardIsTrue
<1>13. CASE ClickCancel
  BY <1>2, <1>4, <1>13 DEF ClickCancel
<1>14. CASE Retry
  BY <1>14 DEF Retry, CardInv, NoneYet, GateStatus, Decision, Answers, Card, NoClick, NoCard, OwnCardIsTrue
<1>15. CASE CancelElsewhere
  BY <1>4, <1>15 DEF CancelElsewhere
<1>16. CASE Claim \/ Finish \/ ResumeElsewhere \/ ServeRun \/ LoseRead \/ Poll \/ OnEvent
            \/ Hide \/ Return \/ (\E read \in halfway : ServeRows(read)) \/ \E r \in answers : Land(r)
  BY <1>2, <1>16 DEF Claim, Finish, ResumeElsewhere, ServeRun, ServeRows, LoseRead, Poll, OnEvent,
                     Hide, Return, Land
<1>17. CASE UNCHANGED runPageVars
  BY <1>2, <1>17 DEF runPageVars
<1> QED
  BY <1>22, <1>3, <1>23, <1>5, <1>6, <1>7, <1>9, <1>10, <1>11, <1>12, <1>13, <1>14, <1>15, <1>16, <1>17
     DEF RunPageNext, Answers

\* However clicks, cancels and other people's decisions race and whichever
\* requests fail, the card the page put up for its own click says what the
\* gate's row says (ApprovalGate.tsx, _decide).
THEOREM CardIsTrue == RunPageSpec => []OwnCardIsTrue
<1>1. CardInv => OwnCardIsTrue
  BY DEF CardInv
<1> QED
  BY <1>1, InitCard, CardStep, PTL DEF RunPageSpec

-----------------------------------------------------------------------------
(* The bell: what was read.                                                *)

FeedType == [rows : SUBSET Nat, out : SUBSET Nat, unread : Nat, gen : Nat]
WireType == [phase : {"idle", "asked", "answered"}, read : Nat, feed : FeedType]

Happened == events \cup pending

\* A response accounts for everything that happened by its instant: as a row,
\* or as what its scan could not return.
Accounts(f) == /\ f.gen <= clock
               /\ \A e \in Happened : e <= f.gen => e \in f.rows \cup f.out

\* Everything up to an instant was seen, or passed over by the scan.
SeenUpTo(at) == /\ at <= clock
                /\ \A e \in Happened : e <= at => e \in shown \cup passedOver

BellTypes ==
  /\ clock \in Nat /\ events \in SUBSET Nat /\ pending \in SUBSET Nat
  /\ readAt \in Nat /\ stored \in Nat
  /\ feed \in FeedType /\ wire \in WireType
  /\ Happened \subseteq 1 .. clock

\* The rows of an open panel were seen; both marks stand for what was.
BellInv ==
  /\ BellTypes
  /\ Accounts(feed)
  /\ Accounts(wire.feed)
  /\ SeenUpTo(readAt)
  /\ SeenUpTo(stored)
  /\ open => feed.rows \subseteq shown

LEMMA BlankTypes == /\ NoFeed \in FeedType /\ Idle \in WireType
                    /\ NoFeed.gen = 0 /\ NoFeed.rows = {} /\ Idle.feed = NoFeed
                    /\ \A read \in Nat : Asked(read) \in WireType /\ Asked(read).feed = NoFeed
BY DEF NoFeed, FeedType, Idle, WireType, Asked

LEMMA InitBell == BellInit => BellInv
<1> SUFFICES ASSUME BellInit PROVE BellInv
  OBVIOUS
<1>1. /\ clock = 1 /\ pending = {} /\ events \in SUBSET {1} /\ stored \in {0, 1} /\ readAt = stored
      /\ feed = NoFeed /\ wire = Asked(stored) /\ open = FALSE
      /\ shown = {e \in events : e <= stored}
  BY DEF BellInit
<1>2. BellTypes
  BY <1>1, BlankTypes DEF BellTypes, Happened
<1>3. Accounts(feed) /\ Accounts(wire.feed)
  <2>1. \A e \in Happened : e \in Nat /\ e > 0
    BY <1>1 DEF Happened
  <2>2. Accounts(NoFeed)
    BY <1>1, <2>1, BlankTypes DEF Accounts
  <2>3. wire.feed = NoFeed
    BY <1>1, BlankTypes
  <2> QED
    BY <1>1, <2>2, <2>3
<1>4. SeenUpTo(readAt) /\ SeenUpTo(stored)
  BY <1>1 DEF SeenUpTo, Happened
<1> QED
  BY <1>1, <1>2, <1>3, <1>4 DEF BellInv

\* A response as the server makes it, once its clock shows `now`.
LEMMA ResponseAccounts ==
  ASSUME BellTypes, NEW since \in Nat, NEW now \in Nat
  PROVE  /\ Response(since, now) \in FeedType
         /\ Happened \subseteq Response(since, now).rows \cup Response(since, now).out
         /\ Response(since, now).gen = now
<1>1. {e \in events : e > since} \subseteq 1 .. clock
  BY DEF BellTypes, Happened
<1>2. IsFiniteSet(1 .. clock)
  BY FS_Interval DEF BellTypes
<1>3. Cardinality({e \in events : e > since}) \in Nat
  BY <1>1, <1>2, FS_Subset, FS_CardinalityType
<1>4. Newest(events) \subseteq events
  BY DEF Newest
<1> HIDE DEF Newest
<1> QED
  BY <1>3, <1>4 DEF Response, FeedType, Happened, BellTypes

\* Time goes on; what happens from now on is newer than every response.
Later == /\ clock' \in Nat /\ clock <= clock' /\ Happened' \in SUBSET Nat
         /\ \A e \in Happened' : e \in Happened \/ e > clock
         /\ UNCHANGED <<shown, passedOver>>

LEMMA LaterAccounts ==
  ASSUME BellTypes, Later, NEW f \in FeedType, Accounts(f)
  PROVE  f.gen <= clock' /\ \A e \in Happened' : e <= f.gen => e \in f.rows \cup f.out
BY DEF BellTypes, Later, FeedType, Accounts

LEMMA LaterSeen ==
  ASSUME BellTypes, Later, NEW at \in Nat, SeenUpTo(at)
  PROVE  at <= clock' /\ \A e \in Happened' : e <= at => e \in shown' \cup passedOver'
BY DEF BellTypes, Later, SeenUpTo

\* A step of the server, or of the request in flight, that leaves the page alone.
LEMMA BellAlone ==
  ASSUME BellInv, Later, BellTypes', UNCHANGED <<feed, readAt, stored>>, open' => open,
         Accounts(wire.feed)' \/ wire'.feed = NoFeed \/ wire'.feed = wire.feed
  PROVE  BellInv'
<1>1. BellTypes /\ feed \in FeedType /\ wire.feed \in FeedType /\ readAt \in Nat /\ stored \in Nat
  BY DEF BellInv, BellTypes, WireType
<1>2. Accounts(feed)'
  BY <1>1, LaterAccounts DEF BellInv, Accounts
<1>3. Accounts(wire.feed)'
  <2>1. CASE wire'.feed = NoFeed
    BY <2>1, BlankTypes DEF Accounts, BellTypes
  <2>2. CASE wire'.feed = wire.feed
    BY <1>1, <2>2, LaterAccounts DEF BellInv, Accounts
  <2> QED
    BY <2>1, <2>2
<1>4. SeenUpTo(readAt)' /\ SeenUpTo(stored)'
  BY <1>1, LaterSeen DEF BellInv, SeenUpTo
<1>5. open' => feed'.rows \subseteq shown'
  BY DEF BellInv, Later
<1> QED
  BY <1>2, <1>3, <1>4, <1>5 DEF BellInv

LEMMA ServerSteps ==
  ASSUME BellInv, Happen \/ (\E e \in Instant : Commit(e)) \/ AnswerFeed \/ Fail
  PROVE  BellInv'
<1> USE DEF server, bell
<1>1. BellTypes /\ wire \in WireType
  BY DEF BellInv, BellTypes
<1>2. CASE Happen
  <2>1. Later /\ Happened' = Happened \cup {clock + 1} /\ wire' = wire /\ open' = open
    BY <1>1, <1>2 DEF Happen, Later, Happened, BellTypes
  <2>2. BellTypes'
    BY <1>1, <1>2, <2>1 DEF Happen, BellTypes
  <2> QED
    BY <1>2, <2>1, <2>2, BellAlone DEF Happen
<1>3. ASSUME NEW e \in Instant, Commit(e)
      PROVE  BellInv'
  <2>1. Later /\ Happened' = Happened /\ wire' = wire /\ open' = open
    BY <1>1, <1>3 DEF Commit, Later, Happened, BellTypes
  <2>2. BellTypes'
    BY <1>1, <1>3, <2>1 DEF Commit, BellTypes
  <2> QED
    BY <1>3, <2>1, <2>2, BellAlone DEF Commit
<1>4. CASE AnswerFeed
  <2>1. PICK now \in {clock, clock + 1} \cap Instant :
          /\ clock' = now
          /\ wire' = [wire EXCEPT !.phase = "answered", !.feed = Response(wire.read, now)]
    BY <1>4 DEF AnswerFeed
  <2>2. now \in Nat /\ clock <= now /\ wire.read \in Nat
    BY <1>1, <2>1 DEF BellTypes, WireType
  <2>3. Response(wire.read, now) \in FeedType
        /\ Happened \subseteq Response(wire.read, now).rows \cup Response(wire.read, now).out
        /\ Response(wire.read, now).gen = now
    BY <1>1, <2>2, ResponseAccounts
  <2> HIDE DEF Response
  <2>4. wire' \in WireType /\ wire'.feed = Response(wire.read, now)
    BY <1>1, <2>1, <2>3 DEF WireType
  <2>5. Later /\ Happened' = Happened /\ open' = open
    <3>1. Happened' = Happened /\ UNCHANGED <<open, shown, passedOver>>
      BY <1>4 DEF AnswerFeed, Happened
    <3>2. Happened \in SUBSET Nat
      BY <1>1 DEF BellTypes, Happened
    <3> QED
      BY <2>1, <2>2, <3>1, <3>2 DEF Later
  <2>6. Happened' \subseteq 1 .. clock'
    <3>1. Happened \subseteq 1 .. clock /\ clock \in Nat
      BY <1>1 DEF BellTypes
    <3> QED
      BY <2>1, <2>2, <2>5, <3>1
  <2>7. BellTypes'
    BY <1>1, <1>4, <2>1, <2>2, <2>4, <2>6 DEF AnswerFeed, BellTypes
  <2>8. Accounts(wire.feed)'
    BY <2>1, <2>2, <2>3, <2>4, <2>5 DEF Accounts
  <2>9. UNCHANGED <<feed, readAt, stored, open>>
    BY <1>4 DEF AnswerFeed
  <2> QED
    BY <2>5, <2>7, <2>8, <2>9, BellAlone
<1>5. CASE Fail
  <2>1. Later /\ Happened' = Happened /\ wire' = Idle /\ open' = open
    BY <1>1, <1>5 DEF Fail, Later, Happened, BellTypes
  <2>2. BellTypes'
    BY <1>1, <1>5, <2>1, BlankTypes DEF Fail, BellTypes
  <2> QED
    BY <1>5, <2>1, <2>2, BlankTypes, BellAlone DEF Fail
<1> QED
  BY <1>2, <1>3, <1>4, <1>5

\* A request that is sent, or is not; nothing that was read changes.
LEMMA PollSteps ==
  ASSUME BellInv, PollFeed \/ HideBell \/ ReturnToBell \/ ClosePanel \/ RingTimer
  PROVE  BellInv'
<1> USE DEF server, bell
<1>1. /\ UNCHANGED <<clock, events, pending, feed, readAt, stored, shown, passedOver>>
      /\ open' => open
      /\ wire' = wire \/ wire' = Asked(readAt)
  BY DEF PollFeed, HideBell, ReturnToBell, ClosePanel, RingTimer, Load, BellInv, BellTypes
<1>2. BellTypes /\ readAt \in Nat
  BY DEF BellInv, BellTypes
<1>3. Later /\ Happened' = Happened
  BY <1>1, <1>2 DEF Later, Happened, BellTypes
<1>4. BellTypes' /\ (wire'.feed = NoFeed \/ wire'.feed = wire.feed)
  BY <1>1, <1>2, <1>3, BlankTypes DEF BellTypes
<1> QED
  BY <1>1, <1>3, <1>4, BellAlone

\* The page takes response f and stamps itself read with it, its rows on screen.
LEMMA StampedSeen ==
  ASSUME BellTypes, UNCHANGED server, NEW f \in FeedType, Accounts(f), Stamp(f),
         shown \subseteq shown', f.rows \subseteq shown'
  PROVE  SeenUpTo(readAt)' /\ SeenUpTo(stored)' /\ readAt' \in Nat /\ stored' \in Nat
BY DEF server, Stamp, Accounts, SeenUpTo, Happened, FeedType

\* After a stamp, what is in flight is what was, or one request more.
LEMMA AskedAgain ==
  ASSUME NEW read \in Nat, NEW f \in FeedType, NEW w \in WireType, AskAgain(read, f, w)
  PROVE  wire' \in WireType /\ (wire'.feed = w.feed \/ wire'.feed = NoFeed)
BY BlankTypes DEF AskAgain

\* A response lands, on a panel that is open or not.
LEMMA LandStep ==
  ASSUME BellInv, LandFeed
  PROVE  BellInv'
<1> DEFINE f == wire.feed
<1>1. BellTypes /\ f \in FeedType /\ Accounts(f)
  BY DEF BellInv, BellTypes, WireType
<1>2. feed' = f /\ UNCHANGED server /\ open' = open
  BY DEF LandFeed
<1>3. Happened' = Happened /\ clock' = clock
  BY <1>2 DEF server, Happened
<1>4. Accounts(feed)'
  BY <1>1, <1>2, <1>3 DEF Accounts
<1>5. CASE open
  <2>1. Stamp(f) /\ Show(f) /\ AskAgain(f.gen, f, Idle)
    BY <1>5 DEF LandFeed
  <2>2. shown \subseteq shown' /\ f.rows \subseteq shown'
    BY <2>1 DEF Show
  <2>3. SeenUpTo(readAt)' /\ SeenUpTo(stored)' /\ readAt' \in Nat /\ stored' \in Nat
    BY <1>1, <1>2, <2>1, <2>2, StampedSeen
  <2>4. f.gen \in Nat
    BY <1>1 DEF FeedType
  <2>5. wire' \in WireType /\ wire'.feed = NoFeed
    BY <1>1, <2>1, <2>4, BlankTypes, AskedAgain
  <2>6. Accounts(wire.feed)'
    BY <1>1, <1>3, <2>5, BlankTypes DEF Accounts, BellTypes
  <2>7. BellTypes'
    BY <1>1, <1>2, <1>3, <2>3, <2>5 DEF BellTypes, server
  <2> QED
    BY <1>2, <1>4, <2>2, <2>3, <2>6, <2>7 DEF BellInv
<1>6. CASE ~open
  <2>1. wire' = Idle /\ UNCHANGED <<readAt, stored, shown, passedOver>>
    BY <1>6 DEF LandFeed
  <2>2. Accounts(wire.feed)'
    BY <1>1, <1>3, <2>1, BlankTypes DEF Accounts, BellTypes
  <2>3. SeenUpTo(readAt)' /\ SeenUpTo(stored)'
    BY <1>3, <2>1 DEF BellInv, SeenUpTo
  <2>4. BellTypes'
    BY <1>1, <1>2, <1>3, <2>1, BlankTypes DEF BellTypes, server
  <2> QED
    BY <1>2, <1>4, <1>6, <2>2, <2>3, <2>4 DEF BellInv
<1> QED
  BY <1>5, <1>6

\* The panel opens over the feed there is, or none.
LEMMA OpenStep ==
  ASSUME BellInv, OpenPanel
  PROVE  BellInv'
<1>1. /\ BellTypes /\ feed \in FeedType /\ Accounts(feed) /\ wire \in WireType /\ Accounts(wire.feed)
      /\ feed.gen \in Nat
  BY DEF BellInv, BellTypes, FeedType
<1>2. feed' = feed /\ UNCHANGED server
  BY DEF OpenPanel
<1>3. Happened' = Happened /\ clock' = clock
  BY <1>2 DEF server, Happened
<1>4. Accounts(feed)'
  BY <1>1, <1>2, <1>3 DEF Accounts
<1>5. CASE feed = NoFeed
  <2>1. UNCHANGED <<readAt, stored, wire, shown, passedOver>>
    BY <1>5 DEF OpenPanel
  <2>2. BellTypes' /\ SeenUpTo(readAt)' /\ SeenUpTo(stored)' /\ Accounts(wire.feed)'
    BY <1>1, <1>2, <1>3, <2>1 DEF BellInv, BellTypes, SeenUpTo, Accounts, server
  <2> QED
    BY <1>2, <1>4, <1>5, <2>2, BlankTypes DEF BellInv
<1>6. CASE feed # NoFeed
  <2>1. Stamp(feed) /\ Show(feed) /\ AskAgain(feed.gen, feed, wire)
    BY <1>6 DEF OpenPanel
  <2>2. shown \subseteq shown' /\ feed.rows \subseteq shown'
    BY <2>1 DEF Show
  <2>3. SeenUpTo(readAt)' /\ SeenUpTo(stored)' /\ readAt' \in Nat /\ stored' \in Nat
    BY <1>1, <1>2, <2>1, <2>2, StampedSeen
  <2>4. wire' \in WireType /\ (wire'.feed = wire.feed \/ wire'.feed = NoFeed)
    BY <1>1, <2>1, AskedAgain
  <2>5. Accounts(wire.feed)'
    BY <1>1, <1>3, <2>4, BlankTypes DEF Accounts, BellTypes
  <2>6. BellTypes'
    BY <1>1, <1>2, <1>3, <2>3, <2>4 DEF BellTypes, server
  <2> QED
    BY <1>2, <1>4, <2>2, <2>3, <2>5, <2>6 DEF BellInv
<1> QED
  BY <1>5, <1>6

\* "Mark all read", of rows that are on screen.
LEMMA MarkStep ==
  ASSUME BellInv, MarkAllRead
  PROVE  BellInv'
<1>1. /\ BellTypes /\ feed \in FeedType /\ Accounts(feed) /\ wire \in WireType /\ Accounts(wire.feed)
      /\ feed.gen \in Nat
  BY DEF BellInv, BellTypes, FeedType
<1>2. /\ feed' = feed /\ UNCHANGED server /\ open' = open /\ shown' = shown
      /\ Stamp(feed) /\ AskAgain(feed.gen, feed, wire)
  BY DEF MarkAllRead
<1>3. feed.rows \subseteq shown'
  BY <1>2 DEF MarkAllRead, BellInv
<1>4. Happened' = Happened /\ clock' = clock
  BY <1>2 DEF server, Happened
<1>5. SeenUpTo(readAt)' /\ SeenUpTo(stored)' /\ readAt' \in Nat /\ stored' \in Nat
  BY <1>1, <1>2, <1>3, StampedSeen
<1>6. wire' \in WireType /\ (wire'.feed = wire.feed \/ wire'.feed = NoFeed)
  BY <1>1, <1>2, AskedAgain
<1>7. Accounts(feed)' /\ Accounts(wire.feed)'
  BY <1>1, <1>2, <1>4, <1>6, BlankTypes DEF Accounts, BellTypes
<1>8. BellTypes'
  BY <1>1, <1>2, <1>4, <1>5, <1>6 DEF BellTypes, server
<1> QED
  BY <1>2, <1>3, <1>5, <1>7, <1>8 DEF BellInv

\* A page that is loaded again starts from what its browser stored.
LEMMA ReloadStep ==
  ASSUME BellInv, Reload
  PROVE  BellInv'
<1>1. BellTypes /\ stored \in Nat
  BY DEF BellInv, BellTypes
<1>2. /\ UNCHANGED <<clock, events, pending, stored, shown, passedOver>>
      /\ readAt' = stored /\ feed' = NoFeed /\ wire' = Asked(stored) /\ open' = FALSE
  BY DEF Reload, server
<1>3. Happened' = Happened
  BY <1>2 DEF Happened
<1>4. SeenUpTo(readAt)' /\ SeenUpTo(stored)'
  BY <1>2, <1>3 DEF BellInv, SeenUpTo
<1>5. BellTypes'
  BY <1>1, <1>2, <1>3, BlankTypes DEF BellTypes
<1>6. Accounts(feed)' /\ Accounts(wire.feed)'
  BY <1>1, <1>2, <1>3, BlankTypes DEF Accounts, BellTypes
<1> QED
  BY <1>2, <1>4, <1>5, <1>6 DEF BellInv

LEMMA BellStep == BellInv /\ [BellNext]_bellVars => BellInv'
<1> SUFFICES ASSUME BellInv, [BellNext]_bellVars
             PROVE  BellInv'
  OBVIOUS
<1>1. CASE UNCHANGED bellVars
  BY <1>1 DEF bellVars, server, bell, BellInv, BellTypes, Accounts, SeenUpTo, Happened
<1> QED
  BY <1>1, ServerSteps, PollSteps, LandStep, OpenStep, MarkStep, ReloadStep DEF BellNext

\* Nothing the operator never saw is counted as read, whatever is answered late,
\* lost, stamped or reloaded (NotificationCenter.tsx, "would silently mark
\* events read"): an instant is only stamped over a response that accounts for
\* everything up to it, with that response's rows on screen.
THEOREM ReadIsSeen == BellSpec => []ReadWasShown
<1>1. BellInv => ReadWasShown
  BY DEF BellInv, SeenUpTo, Happened, ReadWasShown
<1> QED
  BY <1>1, InitBell, BellStep, PTL DEF BellSpec
=============================================================================
