---------------------------- MODULE WorkflowPage ----------------------------
(****************************************************************************)
(* The page of one workflow (WorkflowDetail in App.tsx) with the two        *)
(* readers of its mute: the badge, which counts down and reads the page     *)
(* again when the mute ends, and the snooze control (SnoozeControl.tsx),    *)
(* which keeps a copy.  Whole-workflow reads land in any order beside the   *)
(* replies to what the user does; a mute ends by the clock alone.           *)
(****************************************************************************)
EXTENDS Naturals, FiniteSets

CONSTANTS
    MaxNow,         \* the last instant of the clock
    MaxMutes,       \* requests of the badge and the control
    MaxPageLoads,   \* reloads the user causes: edits, removals, cancelled runs
    MaxPageMishaps  \* requests lost, before or after the server answered

ASSUME PageAssumption ==
    MaxNow \in Nat /\ MaxMutes \in Nat /\ MaxPageLoads \in Nat /\ MaxPageMishaps \in Nat

VARIABLES
    now,
    flow,       \* the server's workflow, of which its mute matters
    w,          \* the workflow on screen
    current,    \* the control's copy
    expired,    \* the badge has told this mute's end
    flowReads,  \* GET /workflows/{id} in flight
    asks,       \* mutes and un-mutes in flight, one of each button
    pop,        \* the popover: open, pauseRuns armed, the instant pending
    mutes, reloads, pageMishaps

pageVars == <<now, flow, w, current, expired, flowReads, asks, pop,
              mutes, reloads, pageMishaps>>

NoSnooze == 0       \* no snooze_until
NoReply == [until |-> NoSnooze, pauses |-> FALSE]
ShutPop == [open |-> FALSE, armed |-> FALSE, pending |-> NoSnooze]

IsMuted(f) == f.until > now
Mute(f) == <<f.until, f.pauses>>
Pressed(by) == \E a \in asks : a.by = by

\* The badge after a render of f at t: told becomes whether its end was told, and
\* a badge that tells it has the page load again.  It is mounted while there is a
\* snooze_until, so one that was not there before starts afresh.
Told(f, t) == f.until = w.until /\ expired
Ends(f, t) == f.until # NoSnooze /\ f.until <= t /\ ~Told(f, t)
FlowAsked == [at |-> "asked", reply |-> NoReply]

\* Mutant of Render: the flag is cleared at every render.
RenderAfresh(f, t, reads) ==
    LET ends == f.until # NoSnooze /\ f.until <= t
    IN  w' = f /\ expired' = ends /\ flowReads' = reads \cup (IF ends THEN {FlowAsked} ELSE {})

Render(f, t, reads) ==
    /\ w' = f /\ expired' = (Told(f, t) \/ Ends(f, t))
    /\ flowReads' = reads \cup (IF Ends(f, t) THEN {FlowAsked} ELSE {})

\* The control follows the page's workflow when its snooze fields change.
Mirrored(f, kept) == IF Mute(f) # Mute(w) THEN f ELSE kept

\* The first load has landed, perhaps with a mute that is over.
PageInit ==
    /\ now = 1
    /\ flow \in {[until |-> u, pauses |-> FALSE] : u \in {NoSnooze, 1, 2}}
    /\ w = flow /\ current = flow
    /\ expired = (flow.until = now) /\ flowReads = IF expired THEN {FlowAsked} ELSE {}
    /\ asks = {} /\ pop = ShutPop
    /\ mutes = 0 /\ reloads = 0 /\ pageMishaps = 0

----------------------------------------------------------------------------
\* The popover.

TogglePop ==
    /\ pop' = [pop EXCEPT !.open = ~pop.open]
    /\ UNCHANGED <<now, flow, w, current, expired, flowReads, asks, mutes, reloads, pageMishaps>>

\* The toggle, and a new custom date, drop the instant that waits.
Arm ==
    /\ pop.open /\ pop' = [pop EXCEPT !.armed = ~pop.armed, !.pending = NoSnooze]
    /\ UNCHANGED <<now, flow, w, current, expired, flowReads, asks, mutes, reloads, pageMishaps>>

Send(by, until, pauses) ==
    /\ ~Pressed(by) /\ mutes < MaxMutes /\ mutes' = mutes + 1
    /\ asks' = asks \cup {[by |-> by, until |-> until, pauses |-> pauses, at |-> "asked", reply |-> NoReply]}

\* A preset, or a custom date checked to be in the future: one click mutes, and
\* while runs are to be paused too the instant waits for its confirmation.
Choose(until) ==
    /\ pop.open /\ until > now /\ ~Pressed("control")
    /\ IF pop.armed
       THEN pop' = [pop EXCEPT !.pending = until] /\ UNCHANGED <<asks, mutes>>
       ELSE Send("control", until, FALSE) /\ UNCHANGED pop
    /\ UNCHANGED <<now, flow, w, current, expired, flowReads, reloads, pageMishaps>>

\* "Mute & pause runs": the instant may have passed while it waited.
Confirm ==
    /\ pop.open /\ pop.armed /\ pop.pending # NoSnooze
    /\ Send("control", pop.pending, TRUE)
    /\ UNCHANGED <<now, flow, w, current, expired, flowReads, pop, reloads, pageMishaps>>

Unmute(by) ==
    /\ IF by = "badge" THEN IsMuted(w) ELSE pop.open /\ IsMuted(current)
    /\ Send(by, NoSnooze, FALSE)
    /\ UNCHANGED <<now, flow, w, current, expired, flowReads, pop, reloads, pageMishaps>>

----------------------------------------------------------------------------
\* The rest of the page.

\* Something else was done that reads the page again: a task added, edited or
\* removed, a run of the table cancelled, the workflow saved.  PUT writes every key
\* of WorkflowIn, and the mute is none of them.
LoadAgain ==
    /\ reloads < MaxPageLoads /\ reloads' = reloads + 1
    /\ flowReads' = flowReads \cup {FlowAsked}
    /\ UNCHANGED <<now, flow, w, current, expired, asks, pop, mutes, pageMishaps>>

\* A tick that finds the mute over renders the badge once more.
Tick ==
    /\ now < MaxNow /\ now' = now + 1
    /\ Render(w, now', flowReads)
    /\ UNCHANGED <<flow, current, asks, pop, mutes, reloads, pageMishaps>>

----------------------------------------------------------------------------
\* The server.

AnswerFlow(r) ==
    /\ r \in flowReads /\ r.at = "asked"
    /\ flowReads' = (flowReads \ {r}) \cup {[at |-> "done", reply |-> flow]}
    /\ UNCHANGED <<now, flow, w, current, expired, asks, pop, mutes, reloads, pageMishaps>>

\* A mute must end in the future; an un-mute always works.
AnswerMute(a) ==
    /\ a \in asks /\ a.at = "asked"
    /\ IF a.until = NoSnooze \/ a.until > now
       THEN /\ flow' = [flow EXCEPT !.until = a.until, !.pauses = a.pauses]
            /\ asks' = (asks \ {a}) \cup {[a EXCEPT !.at = "done", !.reply = flow']}
       ELSE /\ asks' = (asks \ {a}) \cup {[a EXCEPT !.at = "failed"]} /\ UNCHANGED flow
    /\ UNCHANGED <<now, w, current, expired, flowReads, pop, mutes, reloads, pageMishaps>>

LoseOne ==
    /\ pageMishaps < MaxPageMishaps /\ pageMishaps' = pageMishaps + 1
    /\ \/ \E a \in asks : /\ a.at # "failed" /\ asks' = (asks \ {a}) \cup {[a EXCEPT !.at = "failed"]}
                          /\ UNCHANGED flowReads
       \/ \E r \in flowReads : flowReads' = flowReads \ {r} /\ UNCHANGED asks
    /\ UNCHANGED <<now, flow, w, current, expired, pop, mutes, reloads>>

----------------------------------------------------------------------------
\* Replies reach the page.

LandFlow(r) ==
    /\ r \in flowReads /\ r.at = "done"
    /\ Render(r.reply, now, flowReads \ {r}) /\ current' = Mirrored(r.reply, current)
    /\ UNCHANGED <<now, flow, asks, pop, mutes, reloads, pageMishaps>>

\* The page takes the reply for its workflow; the control also for its copy, and
\* closes with its choices cleared.
LandMute(a) ==
    /\ a \in asks /\ a.at = "done" /\ asks' = asks \ {a}
    /\ Render(a.reply, now, flowReads)
    /\ current' = Mirrored(a.reply, IF a.by = "control" THEN a.reply ELSE current)
    /\ pop' = IF a.by = "control" THEN ShutPop ELSE pop
    /\ UNCHANGED <<now, flow, mutes, reloads, pageMishaps>>

MuteFails(a) ==
    /\ a \in asks /\ a.at = "failed" /\ asks' = asks \ {a}
    /\ UNCHANGED <<now, flow, w, current, expired, flowReads, pop, mutes, reloads, pageMishaps>>

PageNext ==
    \/ TogglePop \/ Arm \/ Confirm \/ Unmute("badge") \/ Unmute("control")
    \/ (\E until \in now + 1 .. MaxNow + 1 : Choose(until))
    \/ LoadAgain \/ Tick \/ LoseOne
    \/ (\E r \in flowReads : AnswerFlow(r) \/ LandFlow(r))
    \/ (\E a \in asks : AnswerMute(a) \/ LandMute(a) \/ MuteFails(a))

LandSome == \E r \in flowReads : AnswerFlow(r) \/ LandFlow(r)
PageSpec == PageInit /\ [][PageNext]_pageVars /\ WF_pageVars(LandSome)

----------------------------------------------------------------------------
(****************************************************************************)
(* The badge tells a mute's end once (onExpire of SnoozeBadge): a read that *)
(* finds a mute long over does not start another, so the page goes quiet.   *)
(****************************************************************************)
GoesQuiet == <>[](flowReads = {})
=============================================================================
