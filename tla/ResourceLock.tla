---------------------------- MODULE ResourceLock ----------------------------
(***************************************************************************)
(* What the lock settings promise, whoever implements it: claimants name   *)
(* at most one resource and a mode; holders of one resource either all     *)
(* share it or there is only one.  Nothing is preempted: a holder leaves   *)
(* only by letting go, and its claim does not change while it holds.       *)
(***************************************************************************)
EXTENDS FiniteSets

CONSTANTS Claimants, NoResource

VARIABLES
  held,  \* the claimants that hold what they claim
  claim  \* what each claimant claims: a resource (or none) and a mode

Clash(a, b) ==
  /\ a.resource # NoResource /\ a.resource = b.resource
  /\ "exclusive" \in {a.mode, b.mode}

Init == held = {}

Acquire(c) ==
  /\ c \notin held
  /\ \A d \in held : ~Clash(claim[c], claim[d])
  /\ held' = held \cup {c}
  /\ UNCHANGED claim

Release(S) ==
  /\ held' = held \ S
  /\ UNCHANGED claim

Reconfigure ==
  /\ UNCHANGED held
  /\ DOMAIN claim' = DOMAIN claim
  /\ \A c \in held : claim'[c] = claim[c]

Next ==
  \/ \E c \in Claimants : Acquire(c)
  \/ \E S \in SUBSET Claimants : Release(S)
  \/ Reconfigure

Spec == Init /\ [][Next]_<<held, claim>>
=============================================================================
