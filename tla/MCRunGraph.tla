----------------------------- MODULE MCRunGraph -----------------------------
(* A small workflow for TLC: two independent tasks, one of them behind a gate *)
(* and one with a retry, and a gated task that needs both.                    *)
EXTENDS RunShape, TLC

CONSTANTS build, review, deploy

MCDeps == [t \in Task |-> IF t = deploy THEN Task \ {deploy} ELSE {}]

MCAttempts == [t \in Task |-> IF t = build THEN 2 ELSE 1]
=============================================================================
