--------------------------- MODULE MCBoardRescue ---------------------------
(* A small instance of BoardRescue for TLC. *)
EXTENDS BoardRescue

\* Every task serves one goal.
OneGoal == [t \in Tasks |-> "goal"]

=============================================================================
