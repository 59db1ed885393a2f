------------------------------ MODULE QueueWhy ------------------------------
(****************************************************************************)
(* What the run page tells a person who waits for a queued run (QueueWhy    *)
(* and useQueueVerdict in App.tsx), next to the queue itself: the page      *)
(* reads three status lists and the lock settings and works out by itself   *)
(* what RunQueue's claim decides.                                           *)
(****************************************************************************)
EXTENDS RunQueue

\* One status list of the API.
Listed(status) == {r \in Run : run[r].status = status}

\* The holders of one resource among some runs that cannot go along with r.
AgainstLock(r, runs) == {h \in runs \ {r} : Incompatible(LockOf(h), LockOf(r))}

\* Runs queued for r's resource that take it alone.
Barrier(r, queued) == {h \in AgainstLock(r, queued) : LockOf(h).mode = "exclusive"}

\* Mutant of Verdict: a run counts against its own workflow's limit.
VerdictCountsItself(r, running, parked, queued) ==
    IF Cardinality({o \in running \cup parked \cup {r} : WorkflowOf[o] = WorkflowOf[r]}) >= LockOf(r).limit
    THEN "concurrency"
    ELSE IF AgainstLock(r, running \cup parked) # {} THEN "lock-held" ELSE "clear"

(****************************************************************************)
(* The verdict on r from the three lists: the limit of its own workflow, a  *)
(* run that holds its resource, a run that bars it, older runs ahead of it, *)
(* or nothing.  A run two of the lists show counts twice.                   *)
(****************************************************************************)
Verdict(r, running, parked, queued) ==
    LET mine(runs) == Cardinality({o \in runs : WorkflowOf[o] = WorkflowOf[r]})
    IN  IF mine(running) + mine(parked) >= LockOf(r).limit THEN "concurrency"
        ELSE IF AgainstLock(r, running \cup parked) # {} THEN "lock-held"
        ELSE IF LockOf(r).mode = "shared" /\ Barrier(r, queued) # {} THEN "lock-barrier"
        ELSE IF \E o \in queued \ {r} : stamp[o] < stamp[r] THEN "ahead"
        ELSE "clear"

\* The three lists read at one moment.
VerdictNow(r) == Verdict(r, Listed("running"), Listed("waiting_approval"), Listed("queued"))

\* The verdicts that say who has taken the run's place.
Blocked == {"concurrency", "lock-held"}

(****************************************************************************)
(* Whoever the page says has taken the last slot of the workflow, or holds  *)
(* the resource, really keeps the worker from claiming the run (App.tsx,    *)
(* "never a false accusation"; queue.py).                                   *)
(****************************************************************************)
HoldersAreInTheWay ==
    \A r \in Listed("queued") : VerdictNow(r) \in Blocked => ~Claimable(r)
=============================================================================
