---------------------------- MODULE ServicePage ----------------------------
(****************************************************************************)
(* The page of one service (ServiceDetail in Services.tsx) over a           *)
(* supervisor that starts, stops and restarts it, and a service somebody    *)
(* may delete: reads of the service land in any order, messages and         *)
(* requests are lost.  The log of the page is module ServiceLog.            *)
(****************************************************************************)
EXTENDS Naturals

CONSTANTS
    MaxStarts,          \* starts of the service
    MaxOrders,          \* buttons pressed
    MaxServiceMishaps   \* requests lost

ASSUME ServiceAssumption == MaxStarts \in Nat /\ MaxOrders \in Nat /\ MaxServiceMishaps \in Nat

VARIABLES
    service,    \* the row: state, override, restart asked for, why it is being stopped
    gone,       \* the service was deleted
    onPage,     \* the service on screen
    missing,    \* "Service not found" is on screen
    loads,      \* reads in flight
    timer,      \* the 250 ms timer that gathers service_updated messages is running
    order,      \* the action asked for, or "none"
    starts, orders, serviceMishaps

serviceVars == <<service, gone, onPage, missing, loads, timer, order, starts, orders, serviceMishaps>>

ServiceRow(state, override, restart) ==
    [state |-> state, override |-> override, restart |-> restart, why |-> "none"]
Down == ServiceRow("stopped", "none", FALSE)
ShouldRun(row) == row.override = "start"                 \* a manual service
IsLive(row) == row.state \in {"running", "stopping"}
Load == [at |-> "asked", row |-> Down]

ServiceInit ==
    /\ service = Down /\ gone = FALSE /\ onPage = Down /\ missing = FALSE /\ loads = {}
    /\ timer = FALSE /\ order = "none" /\ starts = 0 /\ orders = 0 /\ serviceMishaps = 0

----------------------------------------------------------------------------
\* The supervisor and the process.  A change is announced, and the message starts
\* the page's timer again or is lost.

Announced == timer' \in {timer, TRUE} /\ UNCHANGED <<gone, onPage, missing, loads, order, orders, serviceMishaps>>

Launch ==
    /\ ~gone /\ service.state = "stopped" /\ ShouldRun(service)
    /\ starts < MaxStarts /\ starts' = starts + 1
    /\ service' = ServiceRow("running", service.override, FALSE) /\ Announced

Halt ==
    /\ service.state = "running" /\ (~ShouldRun(service) \/ service.restart)
    /\ service' = [service EXCEPT !.state = "stopping", !.why = IF service.restart THEN "restart" ELSE "stop"]
    /\ UNCHANGED starts /\ Announced

\* A restart goes straight on to the start; one asked for during a stop starts on
\* the next pass, because it also said "and do run".
Stopped ==
    /\ service.state = "stopping"
    /\ IF service.why = "restart" /\ ShouldRun(service)
       THEN /\ starts < MaxStarts /\ starts' = starts + 1
            /\ service' = ServiceRow("running", service.override, FALSE)
       ELSE service' = ServiceRow("stopped", service.override, FALSE) /\ UNCHANGED starts
    /\ Announced

\* By itself: not restarted by its policy, and held stopped, which is also the
\* record of why.
Exit ==
    /\ service.state = "running"
    /\ service' = ServiceRow("stopped", "exited", FALSE)
    /\ UNCHANGED starts /\ Announced

\* Only a stopped service can be deleted; nothing announces it.
Delete ==
    /\ ~gone /\ ~IsLive(service) /\ gone' = TRUE
    /\ UNCHANGED <<service, onPage, missing, loads, timer, order, starts, orders, serviceMishaps>>

\* What an order does.  Stop restates what a manual service does by default, so it
\* only clears; a restart pressed while it stops also means "and do run".
Ordered(what) ==
    IF what = "restart" /\ IsLive(service)
    THEN [service EXCEPT !.restart = TRUE, !.override = IF service.state = "stopping" THEN "start" ELSE @]
    ELSE [service EXCEPT !.override = IF what \in {"start", "restart"} THEN "start" ELSE "none"]

----------------------------------------------------------------------------
\* The buttons.

\* What PrimaryAction, Restart and Resume offer for the row on screen.
Orders == {"start", "stop", "restart", "resume"}
Offered(what) ==
    CASE what = "stop" -> (ShouldRun(onPage) \/ IsLive(onPage)) /\ onPage.state # "stopping"
      [] what = "start" -> ~(ShouldRun(onPage) \/ IsLive(onPage))
      [] what = "restart" -> IsLive(onPage)
      [] what = "resume" -> onPage.override = "exited" /\ ~IsLive(onPage)

Press(what) ==
    /\ ~missing /\ order = "none" /\ Offered(what) /\ orders < MaxOrders /\ orders' = orders + 1
    /\ order' = what
    /\ UNCHANGED <<service, gone, onPage, missing, loads, timer, starts, serviceMishaps>>

ServeOrder ==
    /\ order \in Orders
    /\ IF gone THEN order' = "failed" /\ UNCHANGED service ELSE order' = "done" /\ service' = Ordered(order)
    /\ UNCHANGED <<gone, onPage, missing, loads, timer, starts, orders, serviceMishaps>>

\* A toast; the page is read again unless the order failed.
OrderAnswered ==
    /\ order \in {"done", "failed"} /\ order' = "none"
    /\ loads' = IF order = "done" THEN loads \cup {Load} ELSE loads
    /\ UNCHANGED <<service, gone, onPage, missing, timer, starts, orders, serviceMishaps>>

----------------------------------------------------------------------------
\* The service is read.

Reading == UNCHANGED <<service, gone, order, starts, orders>>

\* One load follows the last message of a burst.
Gathered == timer /\ timer' = FALSE /\ loads' = loads \cup {Load} /\ Reading /\ UNCHANGED <<onPage, missing, serviceMishaps>>

\* Mutant of Poll: the page leaves it to the socket while nothing is live.
PollWhileLive == IsLive(onPage) /\ loads' = loads \cup {Load} /\ Reading /\ UNCHANGED <<onPage, missing, timer, serviceMishaps>>
Poll == loads' = loads \cup {Load} /\ Reading /\ UNCHANGED <<onPage, missing, timer, serviceMishaps>>

AnswerLoad(r) ==
    /\ r \in loads /\ r.at = "asked"
    /\ loads' = (loads \ {r}) \cup {IF gone THEN [r EXCEPT !.at = "404"] ELSE [at |-> "done", row |-> service]}
    /\ Reading /\ UNCHANGED <<onPage, missing, timer, serviceMishaps>>

LoseLoad(r) ==
    /\ r \in loads /\ r.at # "lost"
    /\ serviceMishaps < MaxServiceMishaps /\ serviceMishaps' = serviceMishaps + 1
    /\ loads' = (loads \ {r}) \cup {[at |-> "lost", row |-> Down]}
    /\ Reading /\ UNCHANGED <<onPage, missing, timer>>

\* Only a 404 means gone; a failed read leaves what was known.
LandLoad(r) ==
    /\ r \in loads /\ r.at # "asked" /\ loads' = loads \ {r}
    /\ onPage' = IF r.at = "done" THEN r.row ELSE onPage
    /\ missing' = IF r.at = "lost" THEN missing ELSE r.at = "404"
    /\ Reading /\ UNCHANGED <<timer, serviceMishaps>>

ServiceNext ==
    \/ Launch \/ Halt \/ Stopped \/ Exit \/ Delete \/ ServeOrder \/ OrderAnswered
    \/ (\E what \in Orders : Press(what))
    \/ Gathered \/ Poll
    \/ (\E r \in loads : AnswerLoad(r) \/ LandLoad(r) \/ LoseLoad(r))

LandLoads(at) == \E r \in loads : r.at = at /\ (AnswerLoad(r) \/ LandLoad(r))
ServiceSpec ==
    /\ ServiceInit /\ [][ServiceNext]_serviceVars /\ WF_serviceVars(Poll)
    /\ \A at \in {"asked", "done", "404", "lost"} : WF_serviceVars(LandLoads(at))

----------------------------------------------------------------------------
(****************************************************************************)
(* "The socket carries every change; the poll covers a dropped connection": *)
(* with messages lost and reads out of order, the page ends up showing the  *)
(* service as it is, or that it is gone.                                    *)
(****************************************************************************)
PageCatchesUp == <>[](IF gone THEN missing ELSE onPage = service)
=============================================================================
