---------------------------- MODULE MCWorkerSlot ----------------------------
(* Two runs of a slot, for TLC. *)
EXTENDS WorkerSlot
=============================================================================
