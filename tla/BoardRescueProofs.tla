------------------------- MODULE BoardRescueProofs -------------------------
(***************************************************************************)
(* The system whose liveness BoardRescue is about is the task board: the   *)
(* agents that vanish and the one that stays do nothing the board does not *)
(* allow, so every theorem of TaskBoardProofs holds of it.                 *)
(***************************************************************************)
EXTENDS BoardRescue, TaskBoardProofs

\* Each step of the rescuer is a step of some session of the board.
LEMMA RescueStep == ASSUME RescueNext PROVE Next
  <1> USE BoardAssumption, RescueAssumption
  <1>1. CASE Tick
    BY <1>1 DEF Next
  <1>2. CASE Others
    BY <1>2 DEF Others, Next
  <1>3. ASSUME NEW t \in Tasks, Take(t)
        PROVE  Next
    <2>1. PICK now \in Sampled, len \in Leases :
              \/ ClaimTask(t, Rescuer, len, now)
              \/ \E from \in Legacy : RecoverClaim(t, from, Rescuer, None, len, now)
      BY <1>3 DEF Take
    <2>2. CASE ClaimTask(t, Rescuer, len, now)
      BY <2>2 DEF AgentStep, Next
    <2>3. CASE \E from \in Legacy : RecoverClaim(t, from, Rescuer, None, len, now)
      <3>1. PICK from \in Agents : RecoverClaim(t, from, Rescuer, None, len, now)
        BY <2>3
      <3> QED
        BY <3>1 DEF AgentStep, Next
    <2> QED
      BY <2>1, <2>2, <2>3
  <1>4. ASSUME NEW t \in Tasks, Finish(t)
        PROVE  Next
    <2>1. PICK now \in Sampled, v \in Judged :
              RecordConformance(t, v) \/ CompleteTask(t, Rescuer, v, now)
      BY <1>4 DEF Finish
    <2>2. CASE RecordConformance(t, v)
      <3>1. BoardStep(t, now)
        BY <2>2 DEF BoardStep
      <3> QED
        BY <3>1 DEF Next
    <2>3. CASE CompleteTask(t, Rescuer, v, now)
      <3>1. now \in 0..clock
        BY DEF Sampled
      <3>2. AgentStep(t, Rescuer, now)
        BY <2>3, <3>1 DEF AgentStep
      <3> QED
        BY <3>2 DEF Next
    <2> QED
      BY <2>1, <2>2, <2>3
  <1> QED
    BY <1>1, <1>2, <1>3, <1>4 DEF RescueNext

\* The board with one agent that stays behaves as the board: the promise that
\* nothing is stranded is made about the transactions of the store and no
\* others (claim_task, recover_claim_authorized, complete_task).
THEOREM RescueIsTheBoard == RescueSpec => Spec
  <1>1. [RescueNext]_boardVars => [Next]_boardVars
    BY RescueStep
  <1> QED
    BY <1>1, PTL DEF RescueSpec, Spec

\* While the others vanish one by one, the agent that stays never takes a task
\* from somebody who may still be at work on it.
THEOREM RescueDisplacesNobody == RescueSpec => DisplacedOnlyWhenForfeit
  BY RescueIsTheBoard, NoLiveOwnerDisplaced, PTL

=============================================================================
