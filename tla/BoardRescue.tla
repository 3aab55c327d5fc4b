---------------------------- MODULE BoardRescue ----------------------------
(***************************************************************************)
(* The anti-stranding promise of the task board (PARKING_GRACE_SECS and    *)
(* the lapsed-lease arm of the claim compare-and-swap): whatever the other *)
(* agents leave behind when they vanish, one agent that keeps polling for  *)
(* work gets every task that is not waiting for a human or a predecessor.  *)
(*                                                                         *)
(* All other agents act only until the clock passes Horizon, at arbitrary  *)
(* moments and in any state of their work; then they are gone.             *)
(***************************************************************************)
EXTENDS TaskBoard

CONSTANTS
    Rescuer,        \* the agent that stays
    Horizon         \* the last instant at which any other agent acts

ASSUME RescueAssumption ==
    /\ Rescuer \in Agents \ Legacy
    /\ Horizon \in Nat

Others ==
    /\ clock <= Horizon
    /\ \E t \in Tasks, now \in Sampled :
           \/ BoardStep(t, now)
           \/ \E a \in Agents \ {Rescuer} : AgentStep(t, a, now)

\* The rescuer takes a task it does not already hold under a live lease: by
\* claiming it, or by recovering it when a legacy name still owns it.
Take(t) ==
    \E now \in Sampled, len \in Leases :
        /\ ~ HoldsLive(task[t], Rescuer, now)
        /\ \/ ClaimTask(t, Rescuer, len, now)
           \/ \E from \in Legacy :
                  RecoverClaim(t, from, Rescuer, None, len, now)

\* The rescuer checks and completes what it holds.
Finish(t) ==
    \E now \in Sampled, v \in Judged :
        \/ /\ HoldsLive(task[t], Rescuer, now) /\ v \notin verdicts[t]
           /\ RecordConformance(t, v)
        \/ CompleteTask(t, Rescuer, v, now)

RescueNext ==
    \/ Tick
    \/ Others
    \/ \E t \in Tasks : Take(t) \/ Finish(t)

\* Time passes, and the rescuer keeps polling for and working on each task.
RescueSpec ==
    /\ Init /\ [][RescueNext]_boardVars
    /\ WF_boardVars(Tick)
    /\ \A t \in Tasks : WF_boardVars(Take(t)) /\ WF_boardVars(Finish(t))

\* "A vanished owner can never deadlock the task forever": a task that is open,
\* claimed or parked is eventually judged or retired, whoever held it and
\* however they left it, as long as one agent keeps working.
NothingStranded ==
    \A t \in Tasks :
        task[t].status \in {"open", "claimed"} \cup Parked
            ~> task[t].status \in Terminal \cup {"in_review", "blocked"}

=============================================================================
