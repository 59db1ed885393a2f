------------------------------- MODULE MCTurns -------------------------------
(* Who waits for a resource that a stream of runs keeps in use: an exclusive    *)
(* run behind two shared ones, or a service beside one run of each kind.        *)
EXTENDS MCRunQueue

VARIABLE waiting

TurnInit == Init /\ waiting \in {"run", "service"}

\* In the first case no window opens, in the second the other shared run never comes.
TurnNext ==
  /\ RestNext
  /\ UNCHANGED waiting
  /\ waiting = "run" => UNCHANGED service
  /\ waiting = "service" => run'[s2] = run[s2]

TurnSpec == TurnInit /\ [][TurnNext]_<<vars, waiting>> /\ Fairness
=============================================================================
