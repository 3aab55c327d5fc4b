----------------------------- MODULE TaskBoard -----------------------------
(***************************************************************************)
(* The Lodestar task board: the `tasks`, `task_handoffs` and `conformance` *)
(* tables of one repository's intent database and every transaction that   *)
(* moves a task (crates/lodestar-core/src/store/coordination and           *)
(* store/claim_transfer.rs).                                               *)
(*                                                                         *)
(* Several agent processes share the database.  Every operation is one     *)
(* BEGIN IMMEDIATE transaction, so it is one action here; what is not      *)
(* atomic is the clock: the caller samples `now` before it waits for the   *)
(* write lock, so a transaction may commit with a `now` that is up to      *)
(* MaxDelay behind the clock.                                              *)
(*                                                                         *)
(* A refused operation (an early return or an UPDATE that matches no row)  *)
(* changes nothing and is a disabled action.  Titles, notes, questions,    *)
(* declared scope and audit text are left out: no guard reads them.  The   *)
(* evidence window and the event log are added by EvidenceLedger.          *)
(***************************************************************************)
EXTENDS Integers, FiniteSets

CONSTANTS
    Tasks,          \* task ids that may ever be created
    Agents,         \* owner strings: registered sessions and legacy names
    Legacy,         \* the owner strings that are not `session:v1:...` ids
    Reviewers,      \* labels a human reviewer may declare
    GoalOf,         \* [Tasks -> goals]: the goal each task serves
    Judged,         \* the verdicts a conformance check may return
    Leases,         \* lease lengths a caller may ask for (lease_secs)
    MaxClaims,      \* MAX_CONCURRENT_CLAIMS
    Grace,          \* PARKING_GRACE_SECS
    MaxDelay,       \* bound on the age of a sampled `now` at commit
    MaxClock,       \* bound on the clock, for model checking
    None            \* SQL NULL

ASSUME BoardAssumption ==
    /\ Legacy \subseteq Agents
    /\ Judged \subseteq {"aligned", "violation", "drift", "needs_human"}
    /\ Leases \subseteq Nat
    /\ MaxClaims \in Nat \ {0}
    /\ Grace \in Nat
    /\ MaxDelay \in Nat
    /\ MaxClock \in Nat
    /\ None \notin Tasks
    /\ None \notin Agents
    /\ None \notin Int

VARIABLES
    clock,          \* the wall clock every process reads (now_unix)
    task,           \* the `tasks` table: one row per task id
    pred,           \* `task_handoffs`: the predecessor recorded for each task
    verdicts        \* `conformance`: the verdicts recorded against each task

boardVars == <<clock, task, pred, verdicts>>

----------------------------------------------------------------------------
(* Rows *)

Parked   == {"needs_input", "paused"}
Terminal == {"done", "abandoned"}
Status   == {"absent", "open", "claimed", "blocked", "in_review"}
                \cup Parked \cup Terminal

Row == [status    : Status,
        owner     : Agents \cup {None},
        lease     : Nat \cup {None},        \* lease_expires_at
        parked    : Nat \cup {None},        \* parked_at
        blockedBy : Tasks \cup {None}]

\* The claim columns as every transition out of ownership leaves them.
Unheld(status, parked, gate) ==
    [status |-> status, owner |-> None, lease |-> None,
     parked |-> parked, blockedBy |-> gate]

\* The row as every transition into ownership leaves it.
Held(a, lease, gate) ==
    [status |-> "claimed", owner |-> a, lease |-> lease,
     parked |-> None, blockedBy |-> gate]

Absent == Unheld("absent", None, None)

\* The values of `now` a transaction that commits at this instant may carry.
Sampled == {n \in 0..clock : clock - n <= MaxDelay}

Put(t, row) == task' = [task EXCEPT ![t] = row]

Holding(a) == {t \in Tasks : task[t].status = "claimed" /\ task[t].owner = a}

Init ==
    /\ clock = 0
    /\ task = [t \in Tasks |-> Absent]
    /\ pred = [t \in Tasks |-> None]
    /\ verdicts = [t \in Tasks |-> {}]

\* Time passes; nothing in the database reacts to it by itself.
Tick ==
    /\ clock < MaxClock
    /\ clock' = clock + 1
    /\ UNCHANGED <<task, pred, verdicts>>

----------------------------------------------------------------------------
(* Handoff chains *)

\* Every task downstream of t: the recursive CTE of validate_dependency_on,
\* as the least set that holds t's successors and is closed under succession.
Downstream(t) ==
    {s \in Tasks : \A S \in SUBSET Tasks :
        (\A x \in Tasks : (pred[x] = t \/ pred[x] \in S) => x \in S) => s \in S}

\* Mutant: only a direct cycle of two tasks is refused.
DependencyAllowedShallow(t, b) ==
    /\ t # b /\ pred[b] # t
    /\ task[b].status # "absent"
    /\ GoalOf[b] = GoalOf[t]
    /\ \A s \in Tasks : pred[s] = b => s = t
    /\ pred[t] \in {None, b}
    /\ task[b].status = "done" => "aligned" \in verdicts[b]
    /\ task[b].status # "abandoned"

\* The checks of validate_dependency_on that refuse b as a predecessor of t.
DependencyAllowed(t, b) ==
    /\ t # b
    /\ task[b].status # "absent"
    /\ GoalOf[b] = GoalOf[t]
    /\ \A s \in Tasks : pred[s] = b => s = t
    /\ pred[t] \in {None, b}
    /\ b \notin Downstream(t)
    /\ task[b].status = "done" => "aligned" \in verdicts[b]
    /\ task[b].status # "abandoned"

\* What validate_dependency_on returns once nothing refused the dependency.
DependencySatisfied(b) == task[b].status = "done"

\* Mutant: nobody opens the successor.
OpenNoSuccessor(tbl, p) == tbl

\* open_blocked_successor_on: the table `tbl` after p's gate is lifted.
OpenBlockedSuccessor(tbl, p) ==
    [s \in Tasks |->
        IF pred[s] = p /\ tbl[s].blockedBy = p /\ tbl[s].status = "blocked"
        THEN Unheld("open", None, None)
        ELSE tbl[s]]

----------------------------------------------------------------------------
(* Creation *)

\* create_task_after_on with no predecessor.
CreateTask(t) ==
    /\ task[t].status = "absent"
    /\ Put(t, Unheld("open", None, None))
    /\ UNCHANGED <<clock, pred, verdicts>>

\* create_task_after_on behind predecessor b: gated unless b is already done.
CreateTaskAfter(t, b) ==
    /\ task[t].status = "absent"
    /\ DependencyAllowed(t, b)
    /\ Put(t, IF DependencySatisfied(b)
              THEN Unheld("open", None, None)
              ELSE Unheld("blocked", None, b))
    /\ pred' = [pred EXCEPT ![t] = b]
    /\ UNCHANGED <<clock, verdicts>>

----------------------------------------------------------------------------
(* Claims *)

\* refuse_beyond_claim_limit does not refuse.
WithinClaimLimit(t, a) ==
    t \in Holding(a) \/ Cardinality(Holding(a)) < MaxClaims

\* Mutant: a lease that ends this very second counts as lapsed.
ClaimableTooEarly(row, a, now) ==
    /\ row.blockedBy = None
    /\ ~ (row.owner \in Legacy /\ a \notin Legacy)
    /\ \/ row.status = "open"
       \/ row.status = "claimed" /\ (row.lease <= now \/ row.owner = a)
       \/ row.status \in Parked /\ row.parked # None /\ row.parked < now - Grace

\* Mutant: the parking grace never ends.
ClaimableUnparked(row, a, now) ==
    /\ row.blockedBy = None
    /\ ~ (row.owner \in Legacy /\ a \notin Legacy)
    /\ \/ row.status = "open"
       \/ row.status = "claimed" /\ (row.lease < now \/ row.owner = a)

\* The WHERE clause of the claim compare-and-swap.
Claimable(row, a, now) ==
    /\ row.blockedBy = None
    /\ ~ (row.owner \in Legacy /\ a \notin Legacy)
    /\ \/ row.status = "open"
       \/ row.status = "claimed" /\ row.lease < now
       \/ row.status = "claimed" /\ row.owner = a
       \/ row.status \in Parked /\ row.parked # None /\ row.parked < now - Grace

ClaimTask(t, a, len, now) ==
    /\ WithinClaimLimit(t, a)
    /\ Claimable(task[t], a, now)
    /\ Put(t, Held(a, now + len, task[t].blockedBy))
    /\ UNCHANGED <<clock, pred, verdicts>>

\* The owner-and-live-lease guard shared by renewal, heartbeat and completion.
HoldsLive(row, a, now) ==
    /\ row.status = "claimed"
    /\ row.owner = a
    /\ row.lease >= now
    /\ row.blockedBy = None

RenewLease(t, a, len, now) ==
    /\ HoldsLive(task[t], a, now)
    /\ Put(t, [task[t] EXCEPT !.lease = now + len])
    /\ UNCHANGED <<clock, pred, verdicts>>

\* A heartbeat only ever extends (MAX).
TouchLease(t, a, len, now) ==
    /\ HoldsLive(task[t], a, now)
    /\ Put(t, [task[t] EXCEPT !.lease = IF @ >= now + len THEN @ ELSE now + len])
    /\ UNCHANGED <<clock, pred, verdicts>>

ReleaseTask(t, a) ==
    /\ task[t].status = "claimed"
    /\ task[t].owner = a
    /\ task[t].blockedBy = None
    /\ Put(t, Unheld("open", task[t].parked, None))
    /\ UNCHANGED <<clock, pred, verdicts>>

----------------------------------------------------------------------------
(* Parking *)

\* Mutant: the parking time is not recorded.
ParkAsUntimed(t, a, status, now) ==
    /\ task[t].status = "claimed"
    /\ task[t].owner = a
    /\ Put(t, [status |-> status, owner |-> a, lease |-> None,
               parked |-> None, blockedBy |-> task[t].blockedBy])
    /\ UNCHANGED <<clock, pred, verdicts>>

\* The row ask_question and pause_task leave; neither looks at the lease.
ParkAs(t, a, status, now) ==
    /\ task[t].status = "claimed"
    /\ task[t].owner = a
    /\ Put(t, [status |-> status, owner |-> a, lease |-> None,
               parked |-> now, blockedBy |-> task[t].blockedBy])
    /\ UNCHANGED <<clock, pred, verdicts>>

AskQuestion(t, a, now) == ParkAs(t, a, "needs_input", now)

PauseTask(t, a, now) == ParkAs(t, a, "paused", now)

\* The row answer_question and resume_task leave: claimed again, same owner.
UnparkFrom(t, status, len, now) ==
    /\ task[t].status = status
    /\ Put(t, Held(task[t].owner, now + len, task[t].blockedBy))
    /\ UNCHANGED <<clock, pred, verdicts>>

\* Anyone may answer.
AnswerQuestion(t, len, now) == UnparkFrom(t, "needs_input", len, now)

ResumeTask(t, a, len, now) ==
    /\ task[t].owner = a
    /\ UnparkFrom(t, "paused", len, now)

----------------------------------------------------------------------------
(* Recovery of a stranded claim *)

ParkedBeforeGrace(row, now) ==
    row.status = "paused" /\ row.parked # None /\ row.parked + Grace >= now

\* recover_claim_authorized: `from` is the owner the caller expects, `by` the
\* reviewer label (None when none is declared), `a` the recovering session.
\* compatible_legacy_owner holds for a session that declares the legacy name.
RecoverClaim(t, from, a, by, len, now) ==
    LET row == task[t]
        early == ParkedBeforeGrace(row, now)
        reclaimable ==
            \/ early
            \/ row.status = "claimed" /\ row.lease < now
            \/ row.status \in Parked /\ row.parked # None
                                     /\ row.parked + Grace < now
    IN
    /\ from # None /\ row.owner = from
    /\ IF early THEN by \notin {None, from, a} /\ from # a
                ELSE from \in Legacy /\ a \notin Legacy
    /\ reclaimable
    /\ Cardinality(Holding(a)) < MaxClaims
    /\ Put(t, Held(a, now + (IF len < 1 THEN 1 ELSE len), row.blockedBy))
    /\ UNCHANGED <<clock, pred, verdicts>>

----------------------------------------------------------------------------
(* Block, reopen, abandon *)

\* Mutant: the terminal guard is missing.
BlockTaskAny(t) ==
    /\ task[t].status # "absent"
    /\ Put(t, Unheld("blocked", task[t].parked, None))
    /\ UNCHANGED <<clock, pred, verdicts>>

\* block_task with no predecessor: any agent, any nonterminal task.
BlockTask(t) ==
    /\ task[t].status \notin Terminal \cup {"absent"}
    /\ Put(t, Unheld("blocked", task[t].parked, None))
    /\ UNCHANGED <<clock, pred, verdicts>>

\* block_task behind predecessor b.
BlockTaskOn(t, b) ==
    /\ task[t].status \notin Terminal \cup {"absent"}
    /\ pred[t] \in {None, b}
    /\ DependencyAllowed(t, b)
    /\ ~ DependencySatisfied(b)
    /\ Put(t, Unheld("blocked", task[t].parked, b))
    /\ pred' = [pred EXCEPT ![t] = b]
    /\ UNCHANGED <<clock, verdicts>>

\* Mutant: a handoff gate is reopened like a manual hold.
ReopenGated(t) ==
    /\ task[t].status \in {"in_review", "blocked"}
    /\ Put(t, Unheld("open", task[t].parked, None))
    /\ UNCHANGED <<clock, pred, verdicts>>

ReopenTask(t) ==
    /\ \/ task[t].status = "in_review"
       \/ task[t].status = "blocked" /\ task[t].blockedBy = None
    /\ Put(t, Unheld("open", task[t].parked, None))
    /\ UNCHANGED <<clock, pred, verdicts>>

\* Mutant: the abandoned task keeps its successor waiting.
AbandonAlone(t, now) ==
    /\ \/ task[t].status \in {"open", "in_review", "blocked"}
       \/ task[t].status = "claimed" /\ task[t].lease < now
    /\ Put(t, Unheld("abandoned", None, None))
    /\ UNCHANGED <<clock, pred, verdicts>>

\* abandon_task once any recorded branch is acknowledged.
AbandonTask(t, now) ==
    /\ \/ task[t].status \in {"open", "in_review", "blocked"}
       \/ task[t].status = "claimed" /\ task[t].lease < now
    /\ task' = OpenBlockedSuccessor(
                   [task EXCEPT ![t] = Unheld("abandoned", None, None)], t)
    /\ UNCHANGED <<clock, pred, verdicts>>

----------------------------------------------------------------------------
(* Conformance *)

\* check_conformance stores a verdict.  It validated the claim before the
\* judgement, so the claim may be gone by the time the record is inserted.
RecordConformance(t, v) ==
    /\ task[t].status # "absent"
    /\ verdicts' = [verdicts EXCEPT ![t] = @ \cup {v}]
    /\ UNCHANGED <<clock, task, pred>>

\* Mutant: an unhandled verdict is written as the status.
TargetVerbatim(v) ==
    CASE v = "aligned"   -> "done"
      [] v = "violation" -> "blocked"
      [] OTHER           -> v

TargetStatus(v) ==
    CASE v = "aligned"   -> "done"
      [] v = "violation" -> "blocked"
      [] OTHER           -> "in_review"

\* Mutant: the stored verdict is not looked up.
CompleteUnchecked(t, a, v, now) ==
    LET moved == [task EXCEPT ![t] = Unheld(TargetStatus(v), @.parked, @.blockedBy)] IN
    /\ HoldsLive(task[t], a, now)
    /\ task' = IF TargetStatus(v) = "done" THEN OpenBlockedSuccessor(moved, t)
                                           ELSE moved
    /\ UNCHANGED <<clock, pred, verdicts>>

\* transition_with_checked_conformance.
CompleteTask(t, a, v, now) ==
    LET moved == [task EXCEPT ![t] = Unheld(TargetStatus(v), @.parked, @.blockedBy)] IN
    /\ v \in verdicts[t]
    /\ HoldsLive(task[t], a, now)
    /\ task' = IF TargetStatus(v) = "done" THEN OpenBlockedSuccessor(moved, t)
                                           ELSE moved
    /\ UNCHANGED <<clock, pred, verdicts>>

\* resolve_in_review: a reviewer accepts an in_review task to done.
ResolveInReview(t) ==
    /\ task[t].status = "in_review"
    /\ task' = OpenBlockedSuccessor(
                   [task EXCEPT ![t] = Unheld("done", @.parked, None)], t)
    /\ UNCHANGED <<clock, pred, verdicts>>

----------------------------------------------------------------------------

\* The operations an agent performs under its own name.  complete_task samples
\* its `now` before it reads and validates the claim, so any time may pass
\* before its transaction.
AgentStep(t, a, now) ==
    \/ \E len \in Leases : \/ ClaimTask(t, a, len, now)
                           \/ RenewLease(t, a, len, now)
                           \/ TouchLease(t, a, len, now)
                           \/ ResumeTask(t, a, len, now)
    \/ ReleaseTask(t, a)
    \/ AskQuestion(t, a, now)
    \/ PauseTask(t, a, now)
    \/ \E v \in Judged, before \in 0..clock : CompleteTask(t, a, v, before)
    \/ \E from \in Agents, by \in Reviewers \cup {None}, len \in Leases :
           RecoverClaim(t, from, a, by, len, now)

\* The operations whose caller the board does not check against the owner.
BoardStep(t, now) ==
    \/ CreateTask(t)
    \/ \E b \in Tasks : CreateTaskAfter(t, b) \/ BlockTaskOn(t, b)
    \/ \E len \in Leases : AnswerQuestion(t, len, now)
    \/ BlockTask(t)
    \/ ReopenTask(t)
    \/ AbandonTask(t, now)
    \/ ResolveInReview(t)
    \/ \E v \in Judged : RecordConformance(t, v)

Next ==
    \/ Tick
    \/ \E t \in Tasks, now \in Sampled :
           BoardStep(t, now) \/ \E a \in Agents : AgentStep(t, a, now)

Spec == Init /\ [][Next]_boardVars

----------------------------------------------------------------------------
(* Properties *)

\* The tables only ever hold what their columns allow (row_to_task).
TypeOK ==
    /\ clock \in Nat
    /\ task \in [Tasks -> Row]
    /\ pred \in [Tasks -> Tasks \cup {None}]
    /\ verdicts \in [Tasks -> SUBSET Judged]

\* The nullable claim columns agree with the status after every one of the
\* transactions that write them separately: a task has an owner exactly while
\* it is claimed or parked, a lease exactly while it is claimed, and a parking
\* time whenever it is parked (without one the grace could never expire and
\* the pool could never take the task back).
ColumnsAgree ==
    \A t \in Tasks :
        /\ task[t].owner # None <=> task[t].status \in {"claimed"} \cup Parked
        /\ task[t].lease # None <=> task[t].status = "claimed"
        /\ task[t].status \in Parked => task[t].parked # None

\* No chain is stranded by a dead predecessor (ADR-0020): a gated task is
\* blocked, its gate is the predecessor its handoff records, and that
\* predecessor can still end and lift the gate.  Blocking, completing,
\* resolving and abandoning in any order must keep this.
GatesCanLift ==
    \A t \in Tasks : LET p == task[t].blockedBy IN
        p # None => /\ task[t].status = "blocked"
                    /\ pred[t] = p
                    /\ task[p].status \notin Terminal \cup {"absent"}

\* Handoffs stay acyclic however dependencies are added (the cycle test of
\* validate_dependency_on): no task is downstream of itself.
HandoffsAcyclic == \A t \in Tasks : t \notin Downstream(t)

\* Tasks never all wait for one another: upstream of every gated task there is
\* a live task that waits for no predecessor, so somebody can always work the
\* chain off.
SomeoneCanProceed ==
    \A t \in Tasks : task[t].blockedBy # None =>
        \E p \in Tasks : /\ t \in Downstream(p)
                         /\ task[p].blockedBy = None
                         /\ task[p].status \notin Terminal \cup {"absent"}

\* A judged outcome is backed by a stored verdict that calls for it: nothing is
\* in review without a drift or needs_human record and nothing is done without
\* an aligned record or a record a reviewer overruled.
OutcomesAreBacked ==
    \A t \in Tasks :
        /\ task[t].status = "in_review" =>
               verdicts[t] \cap {"drift", "needs_human"} # {}
        /\ task[t].status = "done" => verdicts[t] \ {"violation"} # {}

\* In this step another owner takes t from the owner it has.
Displaced(t) ==
    task[t].owner # None /\ task'[t].owner \notin {None, task[t].owner}

\* Its owner has forfeited t: the lease or the parking grace has run out, or t
\* is paused and some reviewer is neither the old nor the new owner.
Forfeited(t) ==
    LET old == task[t] IN
    \/ old.status = "claimed" /\ old.lease < clock
    \/ old.status \in Parked /\ old.parked + Grace < clock
    \/ old.status = "paused" /\ Reviewers \ {old.owner, task'[t].owner} # {}

\* An owner is displaced by another owner only once it has forfeited the task.
\* `now` may be stale when the claim or the recovery commits; that must never
\* cost a live owner its claim.
DisplacedOnlyWhenForfeit ==
    [][\A t \in Tasks : Displaced(t) => Forfeited(t)]_boardVars

\* A gate that stands is lifted in three ways only: the predecessor it names
\* ends in this very transaction, the gated task is itself abandoned, or
\* somebody withdraws the gate by hand.  It is never exchanged for another
\* predecessor's.  Withdrawing is block_task without a predecessor: it clears
\* blocked_by while the handoff record stays, and reopen_task then lets the
\* task be entered although its predecessor is still in work.
GateStandsUntilLifted ==
    [][\A t \in Tasks : LET p == task[t].blockedBy IN
        p # None =>
            \/ task'[t].status = "blocked" /\ task'[t].blockedBy = p
            \/ task'[p].status \in Terminal /\ task[p].status \notin Terminal
            \/ task'[t].status = "abandoned"
            \/ task'[t].status = "blocked" /\ task'[t].blockedBy = None
      ]_boardVars

\* Terminal rows are never revived or rewritten by any operation.
TerminalIsFinal ==
    [][\A t \in Tasks :
        task[t].status \in Terminal => task'[t] = task[t]]_boardVars

\* ADR-0067 decision 1: "An agent may hold at most MAX_CONCURRENT_CLAIMS (3)
\* tasks at once".
ClaimCapHolds == \A a \in Agents : Cardinality(Holding(a)) <= MaxClaims

=============================================================================
