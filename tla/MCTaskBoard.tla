---------------------------- MODULE MCTaskBoard ----------------------------
(* Small instances of TaskBoard for TLC. *)
EXTENDS TaskBoard, TLC

\* Every task serves one goal.
OneGoal == [t \in Tasks |-> "goal"]

\* Tasks of one goal are interchangeable.
TaskSymmetry == Permutations(Tasks)

=============================================================================
