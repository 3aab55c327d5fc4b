-------------------------- MODULE MCEvidenceLedger --------------------------
(* Small instances of EvidenceLedger for TLC. *)
EXTENDS EvidenceLedger

\* Every task serves one goal.
OneGoal == [t \in Tasks |-> "goal"]

=============================================================================
