----------------------- MODULE EvidenceLedgerProofs -----------------------
(***************************************************************************)
(* Machine-checked proofs about EvidenceLedger, for every set of tasks and *)
(* agents, every number of checks and recoveries and every delay.          *)
(*                                                                         *)
(* The inductive invariant LInv adds to the board's IInv that a window is  *)
(* open exactly while the task is owned, that every unleased moment of a   *)
(* window is marked, that an aligned record was made over a continuous     *)
(* window (ChecksHonest), and that a completion outstanding between its    *)
(* validation and its transaction still describes the window it validated  *)
(* for as long as its agent owns the task (CallsHonest).                   *)
(*                                                                         *)
(* RecoveryInv, inductive beside it, relates the starts of the windows in  *)
(* the log of recoveries to the current one; it gives what the walk of     *)
(* authorising_window_start returns.                                       *)
(***************************************************************************)
EXTENDS EvidenceLedger, TaskBoardProofs

\* Ledger tasks are outside handoff chains.
NoHandoffs == \A t \in Tasks : pred[t] = None

\* A claimed task whose lease is behind the clock has a marked window.
HolesMarked == \A t \in Tasks : Unleased(task[t], clock) => hole[t]

\* An aligned record was issued over a window without a counted lapse.
ChecksHonest ==
    \A t \in Tasks : \A i \in 1..Len(checks[t]) :
        checks[t][i].verdict = "aligned" => checks[t][i].lapses = 0

\* Some record of the task has this verdict and this agent's current window.
Backed(t, a, v) ==
    \E i \in 1..Len(checks[t]) :
        checks[t][i].verdict = v /\ TokenMatches(t, a, checks[t][i])

\* A call that has been validated names a task that exists, and a completion
\* carries a verdict that is backed as long as its agent owns the task.
CallsHonest ==
    /\ \A a \in Agents : pending[a] # None => task[pending[a].task].status # "absent"
    /\ \A a \in Agents : pending[a] # None /\ pending[a].op = "complete" =>
           /\ pending[a].verdict \in Judged
           /\ pending[a].now \in 0..clock
           /\ task[pending[a].task].owner = a =>
                  Backed(pending[a].task, a, pending[a].verdict)

LInv ==
    /\ IInv
    /\ LedgerTypeOK
    /\ NoHandoffs
    /\ WindowIffOwned
    /\ HolesMarked
    /\ LapsesAreReal
    /\ ChecksHonest
    /\ CallsHonest

----------------------------------------------------------------------------
(* The ledger implements the board *)

\* Every step of the ledger is a transaction of the board or leaves the board's
\* tables alone.
LEMMA StepRefines ==
    ASSUME LInv, [LedgerNext]_vars
    PROVE  [Next]_boardVars
  <1>1. CASE LedgerTick
    BY <1>1 DEF LedgerTick, Next
  <1>2. CASE UNCHANGED vars
    BY <1>2 DEF vars
  <1>3. ASSUME NEW t \in Tasks, NEW now \in Sampled,
               \/ LedgerAnswer(t, now)
               \/ LedgerUnheld(t, now)
               \/ LedgerResolve(t, now)
        PROVE  BoardStep(t, now)
    BY <1>3 DEF LedgerAnswer, LedgerUnheld, LedgerResolve, BoardStep
  <1>4. ASSUME NEW t \in Tasks, NEW now \in Sampled, NEW a \in Agents,
               LedgerAgentStep(t, a, now)
        PROVE  [Next]_boardVars
    <2>1. CASE LedgerClaim(t, a, now) \/ LedgerRenew(t, a, now)
      BY <1>4, <2>1 DEF LedgerClaim, LedgerRenew, AgentStep, Next
    <2>2. CASE LedgerRelease(t, a, now) \/ LedgerPark(t, a, now) \/ LedgerResume(t, a, now)
      BY <1>4, <2>2 DEF LedgerRelease, LedgerPark, LedgerResume, AgentStep, Next
    <2>3. CASE LedgerRecover(t, a, now)
      BY <1>4, <2>3 DEF LedgerRecover, AgentStep, Next
    <2>4. CASE CheckBegin(t, a, now) \/ CompleteBegin(t, a, now) \/ CompleteRefused(t, a)
      BY <2>4 DEF CheckBegin, CompleteBegin, CompleteRefused
    <2>5. CASE CheckRecord(t, a)
      <3>1. PICK v \in Judged : verdicts' = [verdicts EXCEPT ![t] = @ \cup {v}]
        BY <2>5 DEF CheckRecord
      <3>2. UNCHANGED <<clock, task, pred>> /\ task[t].status # "absent"
        BY <2>5 DEF CheckRecord, LInv, CallsHonest
      <3> QED
        BY <1>4, <3>1, <3>2 DEF RecordConformance, BoardStep, Next
    <2>6. CASE CompleteCommit(t, a)
      <3>1. pending[a].verdict \in Judged /\ pending[a].now \in 0..clock
        BY <2>6 DEF CompleteCommit, LInv, CallsHonest
      <3> QED
        BY <1>4, <2>6, <3>1 DEF CompleteCommit, AgentStep, Next
    <2> QED
      BY <1>4, <2>1, <2>2, <2>3, <2>4, <2>5, <2>6 DEF LedgerAgentStep
  <1> QED
    BY <1>1, <1>2, <1>3, <1>4 DEF LedgerNext, Next

----------------------------------------------------------------------------
(* Steps that append an event *)

\* A step that writes the row of t alone and appends one event for it.
EventStep(t, kind, st, now) ==
    /\ Record(t, kind, st, now)
    /\ now \in Nat /\ now <= clock
    /\ clock' = clock
    /\ \A x \in Tasks \ {t} : task'[x] = task[x]
    /\ task'[t].status # "absent"
    /\ st # None <=> task'[t].owner # None
    /\ st # None => st \in Nat /\ st <= clock

\* What an event does to the window of its task, and to no other.
LEMMA EventColumns ==
    ASSUME LInv, NEW t \in Tasks, NEW kind, NEW st, NEW now, EventStep(t, kind, st, now)
    PROVE  /\ started' \in [Tasks -> Nat \cup {None}]
           /\ lapses' \in [Tasks -> Nat]
           /\ hole' \in [Tasks -> BOOLEAN]
           /\ rescued' \in [Tasks -> Nat \cup {None}]
           /\ started'[t] = st
           /\ \A x \in Tasks \ {t} : /\ started'[x] = started[x]
                                     /\ lapses'[x] = lapses[x]
                                     /\ hole'[x] = hole[x]
           /\ Unleased(task'[t], clock) => hole'[t]
           /\ lapses'[t] > 0 => hole'[t]
           /\ task'[t].owner = task[t].owner /\ st = started[t] /\ kind # "claimed"
                  => lapses'[t] = lapses[t]
  <1>1. /\ started \in [Tasks -> Nat \cup {None}]
        /\ lapses \in [Tasks -> Nat]
        /\ hole \in [Tasks -> BOOLEAN]
        /\ rescued \in [Tasks -> Nat \cup {None}]
        /\ st \in Nat \cup {None}
    BY DEF LInv, LedgerTypeOK, EventStep
  <1> DEFINE same == <<task'[t].owner, st>> = <<task[t].owner, started[t]>>
             lapsed == kind = "claimed" /\ task[t].lease # None /\ task[t].lease < now
             unl == Unleased(task'[t], clock)
  <1>2. /\ started' = [started EXCEPT ![t] = st]
        /\ lapses' = [lapses EXCEPT ![t] =
                         IF ~ same THEN 0 ELSE IF lapsed THEN lapses[t] + 1 ELSE lapses[t]]
        /\ hole' = [hole EXCEPT ![t] = (same /\ hole[t]) \/ unl]
        /\ rescued' = [rescued EXCEPT ![t] =
                         IF same THEN rescued[t]
                         ELSE IF kind = "claim_recovered" THEN started[t] ELSE None]
    BY <1>1 DEF EventStep, Record
  <1>3. same /\ lapsed => hole[t]
    <2> SUFFICES ASSUME lapsed PROVE hole[t]
      OBVIOUS
    <2>1. task[t].status = "claimed" /\ task[t].lease \in Nat /\ clock \in Nat
      BY RowFacts DEF LInv, Coherent, IInv, TypeOK
    <2>2. Unleased(task[t], clock)
      BY <2>1 DEF Unleased, EventStep
    <2> QED
      BY <2>2 DEF LInv, HolesMarked
  <1>4. lapses[t] > 0 => hole[t]
    BY DEF LInv, LapsesAreReal
  <1>5. task'[t].owner = task[t].owner /\ st = started[t] => same
    OBVIOUS
  <1>6. unl \in BOOLEAN /\ same \in BOOLEAN
    BY DEF Unleased
  <1>7. Unleased(task'[t], clock) => unl
    OBVIOUS
  <1> HIDE DEF same, unl
  <1>8. hole'[t] = ((same /\ hole[t]) \/ unl) /\ hole' \in [Tasks -> BOOLEAN]
        /\ \A x \in Tasks \ {t} : hole'[x] = hole[x]
    BY <1>1, <1>2, <1>6
  <1>9. /\ lapses'[t] = IF ~ same THEN 0 ELSE IF lapsed THEN lapses[t] + 1 ELSE lapses[t]
        /\ lapses' \in [Tasks -> Nat]
        /\ \A x \in Tasks \ {t} : lapses'[x] = lapses[x]
    BY <1>1, <1>2
  <1>10. lapses'[t] > 0 => hole'[t]
    BY <1>1, <1>3, <1>4, <1>8, <1>9
  <1>11. started' \in [Tasks -> Nat \cup {None}] /\ rescued' \in [Tasks -> Nat \cup {None}]
         /\ started'[t] = st /\ \A x \in Tasks \ {t} : started'[x] = started[x]
    BY <1>1, <1>2
  <1> QED
    BY <1>5, <1>7, <1>8, <1>9, <1>10, <1>11

\* An event keeps the window invariants.
LEMMA EventWindows ==
    ASSUME LInv, NEW t \in Tasks, NEW kind, NEW st, NEW now, EventStep(t, kind, st, now)
    PROVE  WindowIffOwned' /\ HolesMarked' /\ LapsesAreReal'
  <1> USE EventColumns
  <1>1. WindowIffOwned'
    BY DEF WindowIffOwned, LInv, EventStep
  <1>2. HolesMarked'
    BY DEF HolesMarked, LInv, EventStep, Unleased
  <1>3. LapsesAreReal'
    BY DEF LapsesAreReal, LInv
  <1> QED
    BY <1>1, <1>2, <1>3

\* An event leaves outstanding calls honest when the owner it leaves is nobody,
\* an agent with no call outstanding, or the old owner with its old window.
LEMMA EventCalls ==
    ASSUME LInv, NEW t \in Tasks, NEW kind, NEW st, NEW now, EventStep(t, kind, st, now),
           checks' = checks,
           \A b \in Agents : pending'[b] \in {pending[b], None},
           \/ task'[t].owner = None
           \/ task'[t].owner \in Agents /\ pending[task'[t].owner] = None
           \/ task'[t].owner = task[t].owner /\ st = started[t] /\ kind # "claimed"
    PROVE  CallsHonest'
  <1> USE EventColumns
  <1> SUFFICES ASSUME NEW a \in Agents, pending'[a] # None
               PROVE  /\ task'[pending[a].task].status # "absent"
                      /\ pending[a].op = "complete" =>
                            /\ pending[a].verdict \in Judged
                            /\ pending[a].now \in 0..clock
                            /\ task'[pending[a].task].owner = a =>
                                   Backed(pending[a].task, a, pending[a].verdict)'
    BY DEF CallsHonest, EventStep
  <1>1. pending[a] # None /\ pending'[a] = pending[a] /\ pending[a].task \in Tasks
    BY DEF LInv, LedgerTypeOK, Call
  <1>2. task'[pending[a].task].status # "absent"
    BY <1>1 DEF EventStep, LInv, CallsHonest
  <1>3. ASSUME task'[pending[a].task].owner = a
        PROVE  /\ task[pending[a].task].owner = a
               /\ started'[pending[a].task] = started[pending[a].task]
               /\ lapses'[pending[a].task] = lapses[pending[a].task]
    <2>1. CASE pending[a].task # t
      BY <1>1, <1>3, <2>1 DEF EventStep
    <2>2. CASE pending[a].task = t
      BY <1>1, <1>3, <2>2, BoardAssumption
    <2> QED
      BY <2>1, <2>2
  <1>4. ASSUME pending[a].op = "complete", task'[pending[a].task].owner = a
        PROVE  Backed(pending[a].task, a, pending[a].verdict)'
    <2>1. PICK i \in 1..Len(checks[pending[a].task]) :
              /\ checks[pending[a].task][i].verdict = pending[a].verdict
              /\ TokenMatches(pending[a].task, a, checks[pending[a].task][i])
      BY <1>1, <1>3, <1>4 DEF LInv, CallsHonest, Backed
    <2> QED
      BY <1>1, <1>3, <1>4, <2>1 DEF Backed, TokenMatches
  <1> QED
    BY <1>1, <1>2, <1>4 DEF LInv, CallsHonest

\* An event that meets the conditions above keeps the whole invariant.
LEMMA EventLInv ==
    ASSUME LInv, IInv', pred' = pred,
           NEW t \in Tasks, NEW kind, NEW st, NEW now, EventStep(t, kind, st, now),
           checks' = checks,
           pending' \in [Agents -> Call \cup {None}],
           \A b \in Agents : pending'[b] \in {pending[b], None},
           transfers' \in [Tasks -> Seq(Transfer)],
           \/ task'[t].owner = None
           \/ task'[t].owner \in Agents /\ pending[task'[t].owner] = None
           \/ task'[t].owner = task[t].owner /\ st = started[t] /\ kind # "claimed"
    PROVE  LInv'
  <1>1. LedgerTypeOK'
    BY EventColumns DEF LInv, LedgerTypeOK, IInv
  <1>2. NoHandoffs' /\ ChecksHonest'
    BY DEF LInv, NoHandoffs, ChecksHonest
  <1>3. CallsHonest'
    BY EventCalls
  <1> QED
    BY <1>1, <1>2, <1>3, EventWindows DEF LInv

\* Without handoffs, ending a task writes its row alone.
LEMMA EndsAlone ==
    ASSUME LInv, NEW t \in Tasks, NEW row,
           task' = OpenBlockedSuccessor([task EXCEPT ![t] = row], t)
    PROVE  task'[t] = row /\ \A x \in Tasks \ {t} : task'[x] = task[x]
  <1>1. \A x \in Tasks : pred[x] # t
    BY BoardAssumption DEF LInv, NoHandoffs
  <1> QED
    BY <1>1 DEF OpenBlockedSuccessor, LInv, IInv, TypeOK

\* Facts about time and ownership every action uses.
LEMMA LedgerFacts ==
    ASSUME LInv, NEW t \in Tasks, NEW now \in Sampled
    PROVE  /\ now \in Nat /\ clock \in Nat /\ now <= clock
           /\ task \in [Tasks -> Row]
           /\ started[t] \in Nat \cup {None}
           /\ started[t] # None <=> task[t].owner # None
           /\ started[t] # None => started[t] <= clock
           /\ task[t].owner # None <=> task[t].status \in {"claimed"} \cup Parked
           /\ now # None
  BY BoardAssumption DEF LInv, IInv, TypeOK, LedgerTypeOK, WindowIffOwned,
        ColumnsAgree, Sampled

\* Every operation an idle agent performs keeps the invariant.
LEMMA AgentEventLInv ==
    ASSUME LInv, IInv', NEW t \in Tasks, NEW a \in Agents, NEW now \in Sampled, Idle(a),
           \/ LedgerClaim(t, a, now)
           \/ LedgerRenew(t, a, now)
           \/ LedgerRelease(t, a, now)
           \/ LedgerPark(t, a, now)
           \/ LedgerResume(t, a, now)
           \/ LedgerRecover(t, a, now)
    PROVE  LInv'
  <1> USE LedgerFacts, BoardAssumption
  <1>i. pending[a] = None /\ a # None
    BY DEF Idle
  <1>w. ASSUME NEW row, Put(t, row)
        PROVE  task'[t] = row /\ \A x \in Tasks \ {t} : task'[x] = task[x]
    BY <1>w DEF Put
  <1>t. /\ transfers \in [Tasks -> Seq(Transfer)]
        /\ pending \in [Agents -> Call \cup {None}]
    BY DEF LInv, LedgerTypeOK
  <1>k. ASSUME NEW kind, NEW st, Logged(t, kind, st, now),
               clock' = clock, pred' = pred,
               \A x \in Tasks \ {t} : task'[x] = task[x],
               task'[t].status # "absent",
               task'[t].owner = a \/ task'[t].owner = None,
               st # None <=> task'[t].owner # None,
               st # None => st \in Nat /\ st <= clock
        PROVE  LInv'
    <2>1. EventStep(t, kind, st, now)
      BY <1>k DEF EventStep, Logged
    <2>2. checks' = checks /\ pending' = pending /\ transfers' = transfers
      BY <1>k DEF Logged
    <2> QED
      BY <1>i, <1>k, <1>t, <2>1, <2>2, EventLInv
  <1>1. CASE LedgerClaim(t, a, now)
    <2>1. PICK len \in Leases : /\ ClaimTask(t, a, len, now)
                                /\ Logged(t, "claimed", ClaimedStart(t, a, now), now)
      BY <1>1 DEF LedgerClaim
    <2>2. Put(t, Held(a, now + len, task[t].blockedBy)) /\ UNCHANGED <<clock, pred>>
      BY <2>1 DEF ClaimTask
    <2>3. task'[t].owner = a /\ task'[t].status = "claimed"
      BY <1>w, <2>2 DEF Held
    <2>4. ClaimedStart(t, a, now) \in Nat /\ ClaimedStart(t, a, now) <= clock
          /\ ClaimedStart(t, a, now) # None
      BY <1>i DEF ClaimedStart
    <2> QED
      BY <1>i, <1>k, <1>w, <2>1, <2>2, <2>3, <2>4
  <1>2. CASE LedgerRenew(t, a, now)
    <2>1. PICK lease : Put(t, [task[t] EXCEPT !.lease = lease])
      BY <1>2 DEF LedgerRenew, RenewLease, TouchLease
    <2>2. /\ UNCHANGED <<clock, pred>>
          /\ task[t].status = "claimed" /\ task[t].owner = a
          /\ Logged(t, "lease_renewed", started[t], now)
      BY <1>2 DEF LedgerRenew, RenewLease, TouchLease, HoldsLive
    <2>3. task'[t].owner = a /\ task'[t].status = "claimed"
      BY <1>w, <2>1, <2>2 DEF Row
    <2> QED
      BY <1>i, <1>k, <1>w, <2>1, <2>2, <2>3
  <1>3. CASE LedgerRelease(t, a, now)
    <2>1. /\ Put(t, Unheld("open", task[t].parked, None)) /\ UNCHANGED <<clock, pred>>
          /\ Logged(t, "released", None, now)
      BY <1>3 DEF LedgerRelease, ReleaseTask
    <2>2. task'[t].owner = None /\ task'[t].status = "open"
      BY <1>w, <2>1 DEF Unheld
    <2> QED
      BY <1>k, <1>w, <2>1, <2>2
  <1>4. CASE LedgerPark(t, a, now)
    <2>1. PICK status \in Parked : ParkAs(t, a, status, now)
      BY <1>4 DEF LedgerPark, AskQuestion, PauseTask, Parked
    <2>2. /\ task'[t].owner = a /\ task'[t].status = status
          /\ \A x \in Tasks \ {t} : task'[x] = task[x]
          /\ UNCHANGED <<clock, pred>> /\ task[t].owner = a
      BY <1>w, <2>1 DEF ParkAs
    <2>3. Logged(t, "parked", started[t], now)
      BY <1>4 DEF LedgerPark
    <2> QED
      BY <1>i, <1>k, <2>1, <2>2, <2>3 DEF Parked
  <1>5. CASE LedgerResume(t, a, now)
    <2>1. PICK len \in Leases : ResumeTask(t, a, len, now)
      BY <1>5 DEF LedgerResume
    <2>2. /\ Put(t, Held(a, now + len, task[t].blockedBy)) /\ UNCHANGED <<clock, pred>>
          /\ task[t].owner = a
      BY <2>1 DEF ResumeTask, UnparkFrom
    <2>3. task'[t].owner = a /\ task'[t].status = "claimed"
      BY <1>w, <2>2 DEF Held
    <2>4. Logged(t, "resumed", started[t], now)
      BY <1>5 DEF LedgerResume
    <2> QED
      BY <1>i, <1>k, <1>w, <2>2, <2>3, <2>4
  <1>6. CASE LedgerRecover(t, a, now)
    <2>1. PICK from \in Agents, by \in Reviewers \cup {None}, len \in Leases :
              /\ RecoverClaim(t, from, a, by, len, now)
              /\ Record(t, "claim_recovered", now, now)
              /\ transfers' = [transfers EXCEPT ![t] =
                     Append(@, [from |-> from, to |-> a,
                                start |-> started[t], at |-> now])]
              /\ UNCHANGED <<checks, pending>>
      BY <1>6 DEF LedgerRecover
    <2>2. PICK lease : Put(t, Held(a, lease, task[t].blockedBy))
      BY <2>1 DEF RecoverClaim
    <2>3. task'[t].owner = a /\ task'[t].status = "claimed"
      BY <1>w, <2>2 DEF Held
    <2>4. UNCHANGED <<clock, pred>>
      BY <2>1 DEF RecoverClaim
    <2>5. EventStep(t, "claim_recovered", now, now)
      BY <1>i, <1>w, <2>1, <2>2, <2>3, <2>4 DEF EventStep
    <2>6. [from |-> from, to |-> a, start |-> started[t], at |-> now] \in Transfer
      BY <1>i, <1>t DEF Transfer
    <2>7. transfers' \in [Tasks -> Seq(Transfer)]
      <3>1. Append(transfers[t], [from |-> from, to |-> a,
                                  start |-> started[t], at |-> now])
                \in Seq(Transfer)
        BY <1>t, <2>6
      <3> QED
        BY <1>t, <2>1, <3>1
    <2> QED
      BY <1>i, <1>t, <2>1, <2>3, <2>4, <2>5, <2>7, EventLInv
  <1> QED
    BY <1>1, <1>2, <1>3, <1>4, <1>5, <1>6

\* Every event of a task that is not tied to its owner keeps the invariant.
LEMMA BoardEventLInv ==
    ASSUME LInv, IInv', NEW t \in Tasks, NEW now \in Sampled,
           \/ LedgerAnswer(t, now)
           \/ LedgerUnheld(t, now)
           \/ LedgerResolve(t, now)
    PROVE  LInv'
  <1> USE LedgerFacts, BoardAssumption
  <1>w. ASSUME NEW row, Put(t, row)
        PROVE  task'[t] = row /\ \A x \in Tasks \ {t} : task'[x] = task[x]
    BY <1>w DEF Put
  <1>t. /\ transfers \in [Tasks -> Seq(Transfer)]
        /\ pending \in [Agents -> Call \cup {None}]
    BY DEF LInv, LedgerTypeOK
  <1>k. ASSUME NEW kind, Logged(t, kind, None, now),
               clock' = clock, pred' = pred,
               \A x \in Tasks \ {t} : task'[x] = task[x],
               task'[t].status # "absent", task'[t].owner = None
        PROVE  LInv'
    <2>1. EventStep(t, kind, None, now)
      BY <1>k DEF EventStep, Logged
    <2>2. checks' = checks /\ pending' = pending /\ transfers' = transfers
      BY <1>k DEF Logged
    <2> QED
      BY <1>k, <1>t, <2>1, <2>2, EventLInv
  <1>1. CASE LedgerAnswer(t, now)
    <2>1. PICK len \in Leases : AnswerQuestion(t, len, now)
      BY <1>1 DEF LedgerAnswer
    <2>2. Put(t, Held(task[t].owner, now + len, task[t].blockedBy))
          /\ UNCHANGED <<clock, pred>>
      BY <2>1 DEF AnswerQuestion, UnparkFrom
    <2>3. task'[t].owner = task[t].owner /\ task'[t].status = "claimed"
      BY <1>w, <2>2 DEF Held
    <2>4. Logged(t, "answered", started[t], now)
      BY <1>1 DEF LedgerAnswer
    <2>5. EventStep(t, "answered", started[t], now)
      BY <1>w, <2>2, <2>3, <2>4 DEF EventStep, Logged
    <2>6. checks' = checks /\ pending' = pending /\ transfers' = transfers
      BY <2>4 DEF Logged
    <2> QED
      BY <1>t, <2>2, <2>3, <2>5, <2>6, EventLInv
  <1>2. CASE LedgerUnheld(t, now)
    <2>1. Logged(t, "unheld", None, now)
      BY <1>2 DEF LedgerUnheld
    <2>2. ASSUME NEW status, NEW parked, status # "absent",
                 Put(t, Unheld(status, parked, None)), UNCHANGED <<clock, pred>>
          PROVE  LInv'
      <3>1. task'[t].owner = None /\ task'[t].status = status
        BY <1>w, <2>2 DEF Unheld
      <3> QED
        BY <1>k, <1>w, <2>1, <2>2, <3>1
    <2>3. CASE CreateTask(t) \/ BlockTask(t) \/ ReopenTask(t)
      BY <2>2, <2>3 DEF CreateTask, BlockTask, ReopenTask
    <2>4. CASE AbandonTask(t, now)
      <3>1. task' = OpenBlockedSuccessor([task EXCEPT ![t] = Unheld("abandoned", None, None)], t)
            /\ UNCHANGED <<clock, pred>>
        BY <2>4 DEF AbandonTask
      <3>2. task'[t] = Unheld("abandoned", None, None)
            /\ \A x \in Tasks \ {t} : task'[x] = task[x]
        BY <3>1, EndsAlone
      <3>3. task'[t].owner = None /\ task'[t].status = "abandoned"
        BY <3>2 DEF Unheld
      <3> QED
        BY <1>k, <2>1, <3>1, <3>2, <3>3
    <2> QED
      BY <1>2, <2>3, <2>4 DEF LedgerUnheld
  <1>3. CASE LedgerResolve(t, now)
    <2> DEFINE row == Unheld("done", task[t].parked, None)
    <2>1. /\ task' = OpenBlockedSuccessor([task EXCEPT ![t] = row], t)
          /\ UNCHANGED <<clock, pred>>
          /\ Logged(t, "resolved", None, now)
      BY <1>3 DEF LedgerResolve, ResolveInReview
    <2>2. row.owner = None /\ row.status = "done"
      BY DEF Unheld
    <2> HIDE DEF row
    <2>3. task'[t] = row /\ \A x \in Tasks \ {t} : task'[x] = task[x]
      BY <2>1, EndsAlone
    <2> QED
      BY <1>k, <2>1, <2>2, <2>3
  <1> QED
    BY <1>1, <1>2, <1>3

\* What the transaction of a completion writes.
LEMMA CommitFacts ==
    ASSUME LInv, NEW t \in Tasks, NEW a \in Agents, CompleteCommit(t, a)
    PROVE  /\ pending[a] # None /\ pending[a].op = "complete" /\ pending[a].task = t
           /\ task[t].status = "claimed" /\ task[t].owner = a
           /\ task'[t].owner = None
           /\ task'[t].status = TargetStatus(pending[a].verdict)
           /\ \A x \in Tasks \ {t} : task'[x] = task[x]
           /\ UNCHANGED <<clock, pred, verdicts, transfers, checks>>
           /\ pending' = [pending EXCEPT ![a] = None]
           /\ Record(t, "conformance_recorded", None, pending[a].now)
  <1> DEFINE v == pending[a].verdict
             row == Unheld(TargetStatus(v), task[t].parked, task[t].blockedBy)
  <1>1. CompleteTask(t, a, v, pending[a].now)
    BY DEF CompleteCommit
  <1>2. /\ task[t].status = "claimed" /\ task[t].owner = a
        /\ UNCHANGED <<clock, pred, verdicts>>
        /\ task' = IF TargetStatus(v) = "done"
                   THEN OpenBlockedSuccessor([task EXCEPT ![t] = row], t)
                   ELSE [task EXCEPT ![t] = row]
    BY <1>1 DEF CompleteTask, HoldsLive
  <1>3. row.owner = None /\ row.status = TargetStatus(v)
    BY DEF Unheld
  <1> HIDE DEF row
  <1>4. task'[t] = row /\ \A x \in Tasks \ {t} : task'[x] = task[x]
    <2>1. CASE TargetStatus(v) = "done"
      BY <1>2, <2>1, EndsAlone
    <2>2. CASE TargetStatus(v) # "done"
      BY <1>2, <2>2 DEF LInv, IInv, TypeOK
    <2> QED
      BY <2>1, <2>2
  <1> QED
    BY <1>2, <1>3, <1>4 DEF CompleteCommit

\* The steps of check_conformance and complete_task keep the invariant.
LEMMA CallLInv ==
    ASSUME LInv, IInv', NEW t \in Tasks, NEW a \in Agents, NEW now \in Sampled,
           \/ Idle(a) /\ CheckBegin(t, a, now)
           \/ CheckRecord(t, a)
           \/ Idle(a) /\ CompleteBegin(t, a, now)
           \/ CompleteCommit(t, a)
           \/ CompleteRefused(t, a)
    PROVE  LInv'
  <1> USE LedgerFacts, BoardAssumption
  <1>t. /\ transfers \in [Tasks -> Seq(Transfer)]
        /\ checks \in [Tasks -> Seq(Check)]
        /\ pending \in [Agents -> Call \cup {None}]
        /\ lapses \in [Tasks -> Nat]
    BY DEF LInv, LedgerTypeOK
  <1>k. ASSUME UNCHANGED <<boardVars, started, lapses, transfers, checks, history>>,
               NEW c \in Call \cup {None}, pending' = [pending EXCEPT ![a] = c],
               c # None => /\ task[c.task].status # "absent"
                           /\ c.op = "complete" =>
                                  /\ c.verdict \in Judged /\ c.now \in 0..clock
                                  /\ Backed(c.task, a, c.verdict)
        PROVE  LInv'
    <2>1. LedgerTypeOK'
      BY <1>k, <1>t DEF LInv, LedgerTypeOK, IInv, history
    <2>2. NoHandoffs' /\ WindowIffOwned' /\ HolesMarked' /\ LapsesAreReal' /\ ChecksHonest'
      BY <1>k DEF LInv, NoHandoffs, WindowIffOwned, HolesMarked, LapsesAreReal,
                  ChecksHonest, Unleased, boardVars, history
    <2>3. \A x \in Tasks, b \in Agents, v \in Judged : Backed(x, b, v) => Backed(x, b, v)'
      BY <1>k DEF Backed, TokenMatches
    <2>4. \A b \in Agents : pending'[b] = IF b = a THEN c ELSE pending[b]
      BY <1>k, <1>t
    <2>5. \A b \in Agents : pending'[b] # None =>
              /\ pending'[b].task \in Tasks
              /\ task[pending'[b].task].status # "absent"
              /\ pending'[b].op = "complete" =>
                    /\ pending'[b].verdict \in Judged /\ pending'[b].now \in 0..clock
                    /\ task[pending'[b].task].owner = b =>
                           Backed(pending'[b].task, b, pending'[b].verdict)
      BY <1>k, <1>t, <2>4 DEF LInv, CallsHonest, Call
    <2>6. UNCHANGED <<task, clock>>
      BY <1>k DEF boardVars
    <2>7. CallsHonest'
      BY <2>3, <2>5, <2>6 DEF CallsHonest
    <2> QED
      BY <2>1, <2>2, <2>7 DEF LInv
  <1>1. CASE Idle(a) /\ CheckBegin(t, a, now)
    <2> DEFINE c == [op |-> "check", task |-> t, start |-> started[t],
                     verdict |-> None, now |-> None]
    <2>1. c \in Call /\ c.op = "check" /\ c.task = t
      BY DEF Call
    <2>2. /\ UNCHANGED <<boardVars, started, lapses, transfers, checks, history>>
          /\ pending' = [pending EXCEPT ![a] = c]
          /\ task[t].status # "absent"
      BY <1>1 DEF CheckBegin, ValidClaim
    <2> HIDE DEF c
    <2> QED
      BY <1>k, <2>1, <2>2
  <1>2. CASE Idle(a) /\ CompleteBegin(t, a, now)
    <2>1. PICK i \in 1..Len(checks[t]) :
              /\ TokenMatches(t, a, checks[t][i])
              /\ pending' = [pending EXCEPT ![a] =
                                [op |-> "complete", task |-> t, start |-> None,
                                 verdict |-> checks[t][i].verdict, now |-> now]]
      BY <1>2 DEF CompleteBegin
    <2> DEFINE c == [op |-> "complete", task |-> t, start |-> None,
                     verdict |-> checks[t][i].verdict, now |-> now]
    <2>2. checks[t][i] \in Check
      BY <1>t
    <2>3. checks[t][i].verdict \in Judged
      BY <2>2 DEF Check
    <2>4. /\ c \in Call /\ c.op = "complete" /\ c.task = t
          /\ c.verdict = checks[t][i].verdict /\ c.now = now
      BY <2>3 DEF Call
    <2>5. Backed(t, a, checks[t][i].verdict)
      BY <2>1 DEF Backed
    <2>6. /\ UNCHANGED <<boardVars, started, lapses, transfers, checks, history>>
          /\ task[t].status # "absent"
      BY <1>2 DEF CompleteBegin, ValidClaim
    <2>7. pending' = [pending EXCEPT ![a] = c]
      BY <2>1
    <2>8. now \in 0..clock
      OBVIOUS
    <2> HIDE DEF c
    <2> QED
      BY <1>k, <2>3, <2>4, <2>5, <2>6, <2>7, <2>8
  <1>3. CASE CompleteRefused(t, a)
    BY <1>3, <1>k DEF CompleteRefused
  <1>4. CASE CompleteCommit(t, a)
    <2>1. pending[a].now \in Nat /\ pending[a].now <= clock
      BY <1>4, CommitFacts DEF LInv, CallsHonest
    <2>2. TargetStatus(pending[a].verdict) # "absent"
      BY DEF TargetStatus
    <2>3. EventStep(t, "conformance_recorded", None, pending[a].now)
      BY <1>4, <2>1, <2>2, CommitFacts DEF EventStep
    <2>4. /\ pending' \in [Agents -> Call \cup {None}]
          /\ \A b \in Agents : pending'[b] \in {pending[b], None}
      <3>1. pending' = [pending EXCEPT ![a] = None]
        BY <1>4 DEF CompleteCommit
      <3>2. \A b \in Agents : pending'[b] = IF b = a THEN None ELSE pending[b]
        BY <1>t, <3>1
      <3> QED
        BY <1>t, <3>1, <3>2
    <2> QED
      BY <1>4, <1>t, <2>3, <2>4, CommitFacts, EventLInv
  <1>5. CASE CheckRecord(t, a)
    <2>1. PICK v \in Judged :
              /\ VerdictAllowed(t, v)
              /\ checks' = [checks EXCEPT ![t] =
                     Append(@, [agent |-> a, verdict |-> v,
                                start |-> pending[a].start, lapses |-> lapses[t]])]
      BY <1>5 DEF CheckRecord
    <2> DEFINE r == [agent |-> a, verdict |-> v, start |-> pending[a].start,
                     lapses |-> lapses[t]]
    <2>2. r \in Check /\ (r.verdict = "aligned" => r.lapses = 0)
      <3>1. pending[a].start \in Nat \cup {None}
        BY <1>5, <1>t DEF CheckRecord, Call
      <3> QED
        BY <1>t, <2>1, <3>1 DEF Check, VerdictAllowed
    <2>3. /\ UNCHANGED <<clock, task, pred, started, lapses, transfers, history>>
          /\ pending' = [pending EXCEPT ![a] = None]
      BY <1>5 DEF CheckRecord
    <2>4. checks' = [checks EXCEPT ![t] = Append(checks[t], r)]
      BY <1>t, <2>1
    <2> HIDE DEF r
    <2>5. /\ checks' \in [Tasks -> Seq(Check)]
          /\ Len(checks'[t]) = Len(checks[t]) + 1
          /\ checks'[t][Len(checks[t]) + 1] = r
          /\ \A i \in 1..Len(checks[t]) : checks'[t][i] = checks[t][i]
          /\ \A x \in Tasks \ {t} : checks'[x] = checks[x]
      BY <1>t, <2>2, <2>4
    <2>6. LedgerTypeOK'
      BY <1>t, <2>3, <2>5 DEF LInv, LedgerTypeOK, IInv, history
    <2>7. NoHandoffs' /\ WindowIffOwned' /\ HolesMarked' /\ LapsesAreReal'
      BY <2>3 DEF LInv, NoHandoffs, WindowIffOwned, HolesMarked, LapsesAreReal,
                  Unleased, history
    <2>8. ChecksHonest'
      <3> SUFFICES ASSUME NEW x \in Tasks, NEW i \in 1..Len(checks'[x]),
                          checks'[x][i].verdict = "aligned"
                   PROVE  checks'[x][i].lapses = 0
        BY DEF ChecksHonest
      <3>1. CASE x # t
        BY <2>5, <3>1 DEF LInv, ChecksHonest
      <3>2. CASE x = t /\ i \in 1..Len(checks[t])
        BY <2>5, <3>2 DEF LInv, ChecksHonest
      <3>3. CASE x = t /\ i \notin 1..Len(checks[t])
        <4>1. checks[t] \in Seq(Check)
          BY <1>t
        <4>2. i = Len(checks[t]) + 1
          BY <2>5, <3>3, <4>1
        <4> QED
          BY <2>2, <2>5, <3>3, <4>2
      <3> QED
        BY <3>1, <3>2, <3>3
    <2>9. \A x \in Tasks, b \in Agents, w \in Judged : Backed(x, b, w) => Backed(x, b, w)'
      <3> SUFFICES ASSUME NEW x \in Tasks, NEW b \in Agents, NEW w \in Judged,
                          Backed(x, b, w)
                   PROVE  Backed(x, b, w)'
        OBVIOUS
      <3>1. PICK i \in 1..Len(checks[x]) :
                checks[x][i].verdict = w /\ TokenMatches(x, b, checks[x][i])
        BY DEF Backed
      <3>2. i \in 1..Len(checks'[x]) /\ checks'[x][i] = checks[x][i]
        <4>1. CASE x = t
          <5>1. Len(checks[t]) \in Nat
            BY <1>t
          <5> QED
            BY <2>5, <4>1, <5>1
        <4>2. CASE x # t
          BY <2>5, <4>2
        <4> QED
          BY <4>1, <4>2
      <3> QED
        BY <2>3, <3>1, <3>2 DEF Backed, TokenMatches
    <2>10. \A b \in Agents : pending'[b] # None =>
              pending'[b] = pending[b] /\ pending[b].task \in Tasks
      BY <1>t, <2>3 DEF Call
    <2>11. \A b \in Agents : pending'[b] # None =>
              /\ task[pending'[b].task].status # "absent"
              /\ pending'[b].op = "complete" =>
                    /\ pending'[b].verdict \in Judged /\ pending'[b].now \in 0..clock
                    /\ task[pending'[b].task].owner = b =>
                           Backed(pending'[b].task, b, pending'[b].verdict)
      BY <2>10 DEF LInv, CallsHonest
    <2>12. CallsHonest'
      BY <2>3, <2>9, <2>10, <2>11 DEF CallsHonest
    <2> QED
      BY <2>6, <2>7, <2>8, <2>12 DEF LInv
  <1> QED
    BY <1>1, <1>2, <1>3, <1>4, <1>5

\* The only step that takes a task from claimed to done is the transaction of a
\* completion.
LEMMA DoneMeansCommit ==
    ASSUME LInv, [LedgerNext]_vars, NEW t \in Tasks,
           task[t].status = "claimed", task'[t].status = "done"
    PROVE  \E a \in Agents : CompleteCommit(t, a)
  <1>1. task' # task
    OBVIOUS
  <1>w. ASSUME NEW u \in Tasks, NEW row, row.status # "done",
               task' = [task EXCEPT ![u] = row]
        PROVE  FALSE
    BY <1>w DEF LInv, IInv, TypeOK
  <1>2. ASSUME NEW u \in Tasks, NEW now \in Sampled,
               \/ LedgerAnswer(u, now)
               \/ LedgerUnheld(u, now)
               \/ LedgerResolve(u, now)
        PROVE  FALSE
    <2>1. CASE LedgerAnswer(u, now)
      BY <1>w, <2>1 DEF LedgerAnswer, AnswerQuestion, UnparkFrom, Put, Held
    <2>2. CASE LedgerUnheld(u, now)
      <3>1. CASE CreateTask(u) \/ BlockTask(u) \/ ReopenTask(u)
        BY <1>w, <3>1 DEF CreateTask, BlockTask, ReopenTask, Put, Unheld
      <3>2. CASE AbandonTask(u, now)
        <4>1. task'[u] = Unheld("abandoned", None, None)
              /\ \A x \in Tasks \ {u} : task'[x] = task[x]
          BY <3>2, EndsAlone DEF AbandonTask
        <4> QED
          BY <4>1 DEF Unheld
      <3> QED
        BY <2>2, <3>1, <3>2 DEF LedgerUnheld
    <2>3. CASE LedgerResolve(u, now)
      <3>1. task[u].status = "in_review"
            /\ \A x \in Tasks \ {u} : task'[x] = task[x]
        BY <2>3, EndsAlone DEF LedgerResolve, ResolveInReview
      <3> QED
        BY <3>1
    <2> QED
      BY <1>2, <2>1, <2>2, <2>3
  <1>3. ASSUME NEW u \in Tasks, NEW now \in Sampled, NEW a \in Agents,
               LedgerAgentStep(u, a, now)
        PROVE  CompleteCommit(t, a)
    <2>1. CASE LedgerClaim(u, a, now)
      BY <1>w, <2>1 DEF LedgerClaim, ClaimTask, Put, Held
    <2>2. CASE LedgerRenew(u, a, now)
      <3>1. PICK lease : task' = [task EXCEPT ![u] = [task[u] EXCEPT !.lease = lease]]
        BY <2>2 DEF LedgerRenew, RenewLease, TouchLease, Put
      <3>2. task[u].status = "claimed" /\ task[u] \in Row
        BY <2>2 DEF LedgerRenew, RenewLease, TouchLease, HoldsLive, LInv, IInv, TypeOK
      <3>3. [task[u] EXCEPT !.lease = lease].status = "claimed"
        BY <3>2 DEF Row
      <3> QED
        BY <1>w, <3>1, <3>3
    <2>3. CASE LedgerRelease(u, a, now)
      BY <1>w, <2>3 DEF LedgerRelease, ReleaseTask, Put, Unheld
    <2>4. CASE LedgerPark(u, a, now)
      BY <1>w, <2>4 DEF LedgerPark, AskQuestion, PauseTask, ParkAs, Put
    <2>5. CASE LedgerResume(u, a, now)
      BY <1>w, <2>5 DEF LedgerResume, ResumeTask, UnparkFrom, Put, Held
    <2>6. CASE LedgerRecover(u, a, now)
      <3>1. PICK lease : task' = [task EXCEPT ![u] = Held(a, lease, task[u].blockedBy)]
        BY <2>6 DEF LedgerRecover, RecoverClaim, Put
      <3> QED
        BY <1>w, <3>1 DEF Held
    <2>7. CASE CheckBegin(u, a, now) \/ CompleteBegin(u, a, now)
               \/ CheckRecord(u, a) \/ CompleteRefused(u, a)
      BY <1>1, <2>7 DEF CheckBegin, CompleteBegin, CheckRecord, CompleteRefused, boardVars
    <2>8. CASE CompleteCommit(u, a)
      BY <2>8, CommitFacts
    <2> QED
      BY <1>3, <2>1, <2>2, <2>3, <2>4, <2>5, <2>6, <2>7, <2>8 DEF LedgerAgentStep
  <1> QED
    BY <1>1, <1>2, <1>3 DEF LedgerNext, LedgerTick, Tick, vars, boardVars

----------------------------------------------------------------------------
(* The theorems *)

\* The empty ledger satisfies the invariant.
LEMMA InitLInv == LedgerInit => LInv
  <1> SUFFICES ASSUME LedgerInit PROVE LInv
    OBVIOUS
  <1>1. IInv
    BY InitIInv DEF LedgerInit
  <1>2. LedgerTypeOK
    BY <1>1 DEF LedgerInit, LedgerTypeOK, IInv
  <1>3. \A t \in Tasks : task[t].status = "absent" /\ task[t].owner = None
    BY DEF LedgerInit, Init, Absent, Unheld
  <1>4. NoHandoffs /\ WindowIffOwned /\ HolesMarked /\ LapsesAreReal /\ ChecksHonest
    BY <1>3 DEF LedgerInit, Init, NoHandoffs, WindowIffOwned, HolesMarked,
                LapsesAreReal, ChecksHonest, Unleased
  <1>5. CallsHonest
    BY DEF LedgerInit, CallsHonest
  <1> QED
    BY <1>1, <1>2, <1>4, <1>5 DEF LInv

\* The inductive step.
LEMMA NextLInv == LInv /\ [LedgerNext]_vars => LInv'
  <1> SUFFICES ASSUME LInv, [LedgerNext]_vars PROVE LInv'
    OBVIOUS
  <1>1. IInv'
    BY StepRefines, NextIInv DEF LInv
  <1>2. CASE LedgerTick
    <2>1. /\ clock \in Nat /\ clock' = clock + 1 /\ UNCHANGED <<task, pred, verdicts>>
          /\ UNCHANGED <<started, lapses, transfers, checks, pending, rescued>>
          /\ hole' = [t \in Tasks |-> hole[t] \/ Unleased(task[t], clock')]
      BY <1>2 DEF LedgerTick, Tick, ledgerVars, LInv, IInv, TypeOK
    <2>2. \A t \in Tasks : hole'[t] = (hole[t] \/ Unleased(task[t], clock'))
      BY <2>1
    <2>3. hole' \in [Tasks -> BOOLEAN]
      BY <2>1 DEF Unleased, LInv, LedgerTypeOK
    <2>4. LedgerTypeOK'
      BY <1>1, <2>1, <2>3 DEF LInv, LedgerTypeOK, IInv
    <2>5. NoHandoffs' /\ ChecksHonest'
      BY <2>1 DEF LInv, NoHandoffs, ChecksHonest
    <2>6. WindowIffOwned'
      BY <2>1 DEF LInv, WindowIffOwned, LedgerTypeOK
    <2>7. HolesMarked'
      BY <2>1, <2>2 DEF HolesMarked, Unleased
    <2>8. LapsesAreReal'
      BY <2>1, <2>2 DEF LapsesAreReal, LInv
    <2>9. CallsHonest'
      BY <2>1 DEF LInv, CallsHonest, Backed, TokenMatches
    <2> QED
      BY <1>1, <2>4, <2>5, <2>6, <2>7, <2>8, <2>9 DEF LInv
  <1>3. CASE UNCHANGED vars
    BY <1>1, <1>3 DEF LInv, vars, boardVars, ledgerVars, history, LedgerTypeOK, IInv,
          NoHandoffs, WindowIffOwned, HolesMarked, LapsesAreReal, ChecksHonest,
          CallsHonest, Backed, TokenMatches, Unleased
  <1>4. ASSUME NEW t \in Tasks, NEW now \in Sampled, NEW a \in Agents,
               LedgerAgentStep(t, a, now)
        PROVE  LInv'
    BY <1>1, <1>4, AgentEventLInv, CallLInv DEF LedgerAgentStep
  <1> QED
    BY <1>1, <1>2, <1>3, <1>4, BoardEventLInv DEF LedgerNext

\* Every reachable state of the ledger satisfies the invariant.
THEOREM LedgerInvariance == LedgerSpec => []LInv
  BY InitLInv, NextLInv, PTL DEF LedgerSpec

\* The window columns, the derived counts, the records and the outstanding
\* calls keep their types through every operation of the facade.
THEOREM LedgerTypeCorrect == LedgerSpec => []LedgerTypeOK
  <1>1. LInv => LedgerTypeOK
    BY DEF LInv
  <1> QED
    BY <1>1, LedgerInvariance, PTL

\* The two-call protocol with its window columns implements the task board, so
\* every theorem about the board holds of it.
THEOREM LedgerImplementsBoard == LedgerSpec => RefinesBoard
  <1>1. LedgerInit => Init
    BY DEF LedgerInit
  <1>2. LInv /\ [LedgerNext]_vars => [Next]_boardVars
    BY StepRefines
  <1> QED
    BY <1>1, <1>2, LedgerInvariance, PTL DEF LedgerSpec, RefinesBoard, Spec

\* A window is open exactly while somebody owns the task.
THEOREM WindowAlwaysIffOwned == LedgerSpec => []WindowIffOwned
  <1>1. LInv => WindowIffOwned
    BY DEF LInv
  <1> QED
    BY <1>1, LedgerInvariance, PTL

\* The log never counts a lapse the window did not have.
THEOREM LapsesAlwaysReal == LedgerSpec => []LapsesAreReal
  <1>1. LInv => LapsesAreReal
    BY DEF LInv
  <1> QED
    BY <1>1, LedgerInvariance, PTL

\* However the calls of other agents interleave with the validation of a
\* completion and its transaction, only the window that was checked is
\* certified.
THEOREM OnlyTheCheckedWindowCertified == LedgerSpec => CertifiesTheCheckedWindow
  <1> DEFINE Certified(t) ==
                 task[t].status = "claimed" /\ task'[t].status = "done" =>
                     \E i \in 1..Len(checks[t]) :
                         /\ checks[t][i].verdict = "aligned"
                         /\ TokenMatches(t, task[t].owner, checks[t][i])
                         /\ lapses[t] = 0
  <1>1. LInv /\ [LedgerNext]_vars => [\A t \in Tasks : Certified(t)]_vars
    <2> SUFFICES ASSUME LInv, [LedgerNext]_vars, NEW t \in Tasks,
                        task[t].status = "claimed", task'[t].status = "done"
                 PROVE  \E i \in 1..Len(checks[t]) :
                         /\ checks[t][i].verdict = "aligned"
                         /\ TokenMatches(t, task[t].owner, checks[t][i])
                         /\ lapses[t] = 0
      OBVIOUS
    <2>1. PICK a \in Agents : CompleteCommit(t, a)
      BY DoneMeansCommit
    <2>2. /\ pending[a] # None /\ pending[a].op = "complete" /\ pending[a].task = t
          /\ task[t].owner = a /\ TargetStatus(pending[a].verdict) = "done"
      BY <2>1, CommitFacts
    <2>3. Backed(t, a, pending[a].verdict) /\ pending[a].verdict = "aligned"
      BY <2>2 DEF LInv, CallsHonest, TargetStatus
    <2>4. PICK i \in 1..Len(checks[t]) :
              checks[t][i].verdict = "aligned" /\ TokenMatches(t, a, checks[t][i])
      BY <2>3 DEF Backed
    <2>5. lapses[t] = 0
      BY <2>4 DEF LInv, ChecksHonest, TokenMatches
    <2> QED
      BY <2>2, <2>4, <2>5
  <1> QED
    BY <1>1, LedgerInvariance, PTL DEF LedgerSpec, CertifiesTheCheckedWindow

\* The window survives a lapse: no re-claim, renewal or recovery moves the start
\* of a window whose owner keeps the task claimed.
THEOREM WindowsSurvive == LedgerSpec => WindowSurvivesLapse
  <1> DEFINE Survives(t) ==
                 /\ task[t].status = "claimed" /\ task'[t].status = "claimed"
                 /\ task[t].owner = task'[t].owner
                 => started'[t] = started[t]
  <1>1. LInv /\ [LedgerNext]_vars => [\A t \in Tasks : Survives(t)]_vars
    <2> SUFFICES ASSUME LInv, [LedgerNext]_vars, NEW t \in Tasks,
                        task[t].status = "claimed", task'[t].status = "claimed",
                        task[t].owner = task'[t].owner
                 PROVE  started'[t] = started[t]
      OBVIOUS
    <2>1. started \in [Tasks -> Nat \cup {None}] /\ task \in [Tasks -> Row]
      BY DEF LInv, LedgerTypeOK, IInv, TypeOK
    <2>2. ASSUME NEW u \in Tasks, NEW kind, NEW st, NEW now, Record(u, kind, st, now),
                 u = t => st = started[t]
          PROVE  started'[t] = started[t]
      BY <2>1, <2>2 DEF Record
    <2>3. ASSUME NEW u \in Tasks, NEW now \in Sampled,
                 \/ LedgerAnswer(u, now)
                 \/ LedgerUnheld(u, now)
                 \/ LedgerResolve(u, now)
          PROVE  started'[t] = started[t]
      <3>1. CASE LedgerAnswer(u, now)
        BY <2>2, <3>1 DEF LedgerAnswer, Logged
      <3>2. CASE LedgerUnheld(u, now)
        <4>1. u # t
          <5>1. CASE CreateTask(u) \/ BlockTask(u) \/ ReopenTask(u)
            BY <2>1, <5>1 DEF CreateTask, BlockTask, ReopenTask, Put, Unheld
          <5>2. CASE AbandonTask(u, now)
            <6>1. task'[u] = Unheld("abandoned", None, None)
              BY <5>2, EndsAlone DEF AbandonTask
            <6> QED
              BY <6>1 DEF Unheld
          <5> QED
            BY <3>2, <5>1, <5>2 DEF LedgerUnheld
        <4> QED
          BY <2>2, <3>2, <4>1 DEF LedgerUnheld, Logged
      <3>3. CASE LedgerResolve(u, now)
        BY <2>2, <3>3 DEF LedgerResolve, ResolveInReview, Logged
      <3> QED
        BY <2>3, <3>1, <3>2, <3>3
    <2>4. ASSUME NEW u \in Tasks, NEW now \in Sampled, NEW a \in Agents,
                 LedgerAgentStep(u, a, now)
          PROVE  started'[t] = started[t]
      <3>1. CASE LedgerClaim(u, a, now)
        <4>1. PICK len \in Leases : task' = [task EXCEPT ![u] = Held(a, now + len, task[u].blockedBy)]
          BY <3>1 DEF LedgerClaim, ClaimTask, Put
        <4>2. u = t => task'[t].owner = a
          BY <2>1, <4>1 DEF Held
        <4> QED
          BY <2>2, <3>1, <4>2 DEF LedgerClaim, Logged, ClaimedStart
      <3>2. CASE LedgerRenew(u, a, now) \/ LedgerResume(u, a, now) \/ LedgerPark(u, a, now)
        BY <2>2, <3>2 DEF LedgerRenew, LedgerResume, LedgerPark, Logged
      <3>3. CASE LedgerRelease(u, a, now)
        <4>1. u # t
          BY <2>1, <3>3 DEF LedgerRelease, ReleaseTask, Put, Unheld
        <4> QED
          BY <2>2, <3>3, <4>1 DEF LedgerRelease, Logged
      <3>4. CASE LedgerRecover(u, a, now)
        <4>1. PICK from \in Agents, by \in Reviewers \cup {None}, len \in Leases :
                  RecoverClaim(u, from, a, by, len, now) /\ Record(u, "claim_recovered", now, now)
          BY <3>4 DEF LedgerRecover
        <4>2. task[u].owner # a
          BY <4>1 DEF RecoverClaim
        <4>3. PICK lease : task' = [task EXCEPT ![u] = Held(a, lease, task[u].blockedBy)]
          BY <4>1 DEF RecoverClaim, Put
        <4>4. task'[u].owner = a
          BY <2>1, <4>3 DEF Held
        <4> QED
          BY <2>2, <4>1, <4>2, <4>4
      <3>5. CASE CheckBegin(u, a, now) \/ CompleteBegin(u, a, now)
                 \/ CheckRecord(u, a) \/ CompleteRefused(u, a)
        BY <3>5 DEF CheckBegin, CompleteBegin, CheckRecord, CompleteRefused
      <3>6. CASE CompleteCommit(u, a)
        <4>1. u # t
          BY <3>6, CommitFacts, BoardAssumption DEF LInv, IInv, ColumnsAgree
        <4> QED
          BY <2>2, <3>6, <4>1 DEF CompleteCommit
      <3> QED
        BY <2>4, <3>1, <3>2, <3>3, <3>4, <3>5, <3>6 DEF LedgerAgentStep
    <2> QED
      BY <2>3, <2>4 DEF LedgerNext, LedgerTick, vars, ledgerVars
  <1> QED
    BY <1>1, LedgerInvariance, PTL DEF LedgerSpec, WindowSurvivesLapse

----------------------------------------------------------------------------
(* The walk over the recoveries *)

\* Every recovery in the log interrupted a window, and neither the window nor
\* the recovery lies in the future.
TransfersTimed ==
    \A t \in Tasks : \A i \in 1..Len(transfers[t]) :
        /\ transfers[t][i].start \in Nat
        /\ transfers[t][i].start <= clock
        /\ transfers[t][i].at <= clock

\* No recovery in the log interrupted a window that started more than MaxDelay
\* after the current one.
WindowsFollow ==
    \A t \in Tasks : started[t] # None =>
        \A i \in 1..Len(transfers[t]) : transfers[t][i].start <= started[t] + MaxDelay

\* While a recovered window is open its recovery is in the log, and no window
\* in the log started more than MaxDelay after the one it interrupted.
RescueLogged ==
    \A t \in Tasks : rescued[t] # None =>
        /\ task[t].owner # None
        /\ \E i \in 1..Len(transfers[t]) : transfers[t][i].to = task[t].owner
        /\ \A i \in 1..Len(transfers[t]) : transfers[t][i].start <= rescued[t] + MaxDelay

RecoveryInv == TransfersTimed /\ WindowsFollow /\ RescueLogged

\* The types the proofs below rest on.
LEMMA RecoveryTypes ==
    ASSUME LInv
    PROVE  /\ clock \in Nat
           /\ started \in [Tasks -> Nat \cup {None}]
           /\ rescued \in [Tasks -> Nat \cup {None}]
           /\ transfers \in [Tasks -> Seq(Transfer)]
           /\ \A t \in Tasks : Len(transfers[t]) \in Nat
           /\ \A t \in Tasks : \A i \in 1..Len(transfers[t]) : transfers[t][i] \in Transfer
  <1>1. /\ clock \in Nat
        /\ started \in [Tasks -> Nat \cup {None}]
        /\ rescued \in [Tasks -> Nat \cup {None}]
        /\ transfers \in [Tasks -> Seq(Transfer)]
    BY DEF LInv, LedgerTypeOK, TypeOK
  <1>2. ASSUME NEW t \in Tasks
        PROVE  /\ Len(transfers[t]) \in Nat
               /\ \A i \in 1..Len(transfers[t]) : transfers[t][i] \in Transfer
    <2>1. transfers[t] \in Seq(Transfer)
      BY <1>1
    <2> QED
      BY <2>1
  <1> QED
    BY <1>1, <1>2

\* An event that is not a recovery leaves the log of recoveries alone: it keeps
\* the window, closes it, or opens one at the time the call sampled.
LEMMA EventRecovery ==
    ASSUME LInv, LInv', RecoveryInv,
           NEW t \in Tasks, NEW kind, NEW st, NEW now, Record(t, kind, st, now),
           kind # "claim_recovered",
           transfers' = transfers, clock' = clock,
           \A x \in Tasks \ {t} : task'[x] = task[x],
           st \in {None, started[t]} \/ st \in Sampled
    PROVE  RecoveryInv'
  <1> USE RecoveryTypes, BoardAssumption
  <1>1. \A x \in Tasks : \A i \in 1..Len(transfers[x]) :
            /\ transfers[x][i].start \in Nat /\ transfers[x][i].start <= clock
            /\ transfers[x][i].at <= clock
    BY DEF RecoveryInv, TransfersTimed
  <1> DEFINE same == <<task'[t].owner, st>> = <<task[t].owner, started[t]>>
  <1>2. /\ started' = [started EXCEPT ![t] = st]
        /\ rescued' = [rescued EXCEPT ![t] = IF same THEN rescued[t] ELSE None]
    BY DEF Record
  <1>3. /\ started'[t] = st
        /\ rescued'[t] # None => task'[t].owner = task[t].owner /\ rescued'[t] = rescued[t]
        /\ \A x \in Tasks \ {t} : started'[x] = started[x] /\ rescued'[x] = rescued[x]
    BY <1>2
  <1> HIDE DEF same
  <1>4. TransfersTimed'
    BY <1>1 DEF TransfersTimed
  <1>5. WindowsFollow'
    <2> SUFFICES ASSUME NEW x \in Tasks, started'[x] # None, NEW i \in 1..Len(transfers[x])
                 PROVE  transfers[x][i].start <= started'[x] + MaxDelay
      BY DEF WindowsFollow
    <2>1. CASE started'[x] = started[x]
      BY <2>1 DEF RecoveryInv, WindowsFollow
    <2>2. CASE x = t /\ st \in Sampled
      <3>1. st \in Nat /\ clock <= st + MaxDelay
        BY <2>2 DEF Sampled
      <3> QED
        BY <1>1, <1>3, <2>2, <3>1
    <2> QED
      BY <1>3, <2>1, <2>2
  <1>6. RescueLogged'
    <2> SUFFICES ASSUME NEW x \in Tasks, rescued'[x] # None
                 PROVE  /\ task'[x].owner # None
                        /\ \E i \in 1..Len(transfers[x]) : transfers[x][i].to = task'[x].owner
                        /\ \A i \in 1..Len(transfers[x]) :
                               transfers[x][i].start <= rescued'[x] + MaxDelay
      BY DEF RescueLogged
    <2>1. rescued'[x] = rescued[x] /\ task'[x].owner = task[x].owner
      BY <1>3
    <2> QED
      BY <2>1 DEF RecoveryInv, RescueLogged
  <1> QED
    BY <1>4, <1>5, <1>6 DEF RecoveryInv

\* A step that leaves the windows, their owners and the log alone, while time
\* may pass.
LEMMA QuietRecovery ==
    ASSUME LInv, RecoveryInv, clock' \in Nat, clock <= clock',
           UNCHANGED <<task, started, transfers, rescued>>
    PROVE  RecoveryInv'
  <1> USE RecoveryTypes
  <1>1. \A t \in Tasks : \A i \in 1..Len(transfers[t]) :
            transfers[t][i].start \in Nat /\ transfers[t][i].at \in Nat
    BY DEF Transfer, RecoveryInv, TransfersTimed
  <1>2. TransfersTimed'
    BY <1>1 DEF RecoveryInv, TransfersTimed
  <1>3. WindowsFollow' /\ RescueLogged'
    BY DEF RecoveryInv, WindowsFollow, RescueLogged
  <1> QED
    BY <1>2, <1>3 DEF RecoveryInv

\* A recovery appends the window it interrupts, which is the one rescued.
LEMMA RecoverRecovery ==
    ASSUME LInv, LInv', RecoveryInv, NEW t \in Tasks, NEW a \in Agents, NEW now \in Sampled,
           LedgerRecover(t, a, now)
    PROVE  RecoveryInv'
  <1> USE RecoveryTypes, BoardAssumption
  <1>1. PICK from \in Agents, by \in Reviewers \cup {None}, len \in Leases :
            /\ RecoverClaim(t, from, a, by, len, now)
            /\ Record(t, "claim_recovered", now, now)
            /\ transfers' = [transfers EXCEPT ![t] =
                   Append(@, [from |-> from, to |-> a,
                              start |-> started[t], at |-> now])]
    BY DEF LedgerRecover
  <1>2. PICK lease : Put(t, Held(a, lease, task[t].blockedBy))
    BY <1>1 DEF RecoverClaim
  <1>3. /\ task'[t].owner = a /\ task[t].owner # a /\ a # None
        /\ \A x \in Tasks \ {t} : task'[x] = task[x]
        /\ clock' = clock
        /\ task[t].owner # None
    BY <1>1, <1>2, LedgerFacts DEF RecoverClaim, Put, Held
  <1>4. /\ now \in Nat /\ now <= clock /\ clock <= now + MaxDelay
        /\ started[t] \in Nat /\ started[t] <= clock
    BY <1>3, LedgerFacts DEF Sampled
  <1>5. /\ started' = [started EXCEPT ![t] = now]
        /\ rescued' = [rescued EXCEPT ![t] = started[t]]
    BY <1>1, <1>3 DEF Record
  <1>6. PICK x : x = [from |-> from, to |-> a, start |-> started[t], at |-> now]
    OBVIOUS
  <1>7. /\ transfers'[t] = Append(transfers[t], x)
        /\ \A u \in Tasks \ {t} : transfers'[u] = transfers[u]
        /\ x.to = a /\ x.start = started[t] /\ x.at = now /\ x \in Transfer
    BY <1>1, <1>4, <1>6 DEF Transfer
  <1>8. /\ Len(transfers'[t]) = Len(transfers[t]) + 1
        /\ \A i \in 1..Len(transfers[t]) : transfers'[t][i] = transfers[t][i]
        /\ transfers'[t][Len(transfers[t]) + 1] = x
    <2>1. transfers[t] \in Seq(Transfer)
      OBVIOUS
    <2> QED
      BY <1>7, <2>1
  <1>9. \A i \in 1..Len(transfers'[t]) :
            i \in 1..Len(transfers[t]) \/ i = Len(transfers[t]) + 1
    BY <1>8
  <1>10. \A u \in Tasks : \A i \in 1..Len(transfers[u]) :
            /\ transfers[u][i].start \in Nat /\ transfers[u][i].start <= clock
            /\ transfers[u][i].at <= clock
    BY DEF RecoveryInv, TransfersTimed
  <1>11. TransfersTimed'
    <2> SUFFICES ASSUME NEW u \in Tasks, NEW i \in 1..Len(transfers'[u])
                 PROVE  /\ transfers'[u][i].start \in Nat /\ transfers'[u][i].start <= clock
                        /\ transfers'[u][i].at <= clock
      BY <1>3 DEF TransfersTimed
    <2>1. CASE u # t
      BY <1>7, <1>10, <2>1
    <2>2. CASE u = t
      BY <1>4, <1>7, <1>8, <1>9, <1>10, <2>2
    <2> QED
      BY <2>1, <2>2
  <1>12. WindowsFollow'
    <2> SUFFICES ASSUME NEW u \in Tasks, started'[u] # None, NEW i \in 1..Len(transfers'[u])
                 PROVE  transfers'[u][i].start <= started'[u] + MaxDelay
      BY DEF WindowsFollow
    <2>1. CASE u # t
      BY <1>5, <1>7, <2>1 DEF RecoveryInv, WindowsFollow
    <2>2. CASE u = t
      <3>1. started'[t] = now
        BY <1>5
      <3>2. transfers'[t][i].start \in Nat /\ transfers'[t][i].start <= clock
        BY <1>4, <1>7, <1>8, <1>9, <1>10, <2>2
      <3> QED
        BY <1>4, <2>2, <3>1, <3>2
    <2> QED
      BY <2>1, <2>2
  <1>13. RescueLogged'
    <2> SUFFICES ASSUME NEW u \in Tasks, rescued'[u] # None
                 PROVE  /\ task'[u].owner # None
                        /\ \E i \in 1..Len(transfers'[u]) : transfers'[u][i].to = task'[u].owner
                        /\ \A i \in 1..Len(transfers'[u]) :
                               transfers'[u][i].start <= rescued'[u] + MaxDelay
      BY DEF RescueLogged
    <2>1. CASE u # t
      BY <1>3, <1>5, <1>7, <2>1 DEF RecoveryInv, RescueLogged
    <2>2. CASE u = t
      <3>1. rescued'[t] = started[t]
        BY <1>5
      <3>2. ASSUME NEW i \in 1..Len(transfers'[t])
            PROVE  transfers'[t][i].start <= started[t] + MaxDelay
        <4>1. CASE i \in 1..Len(transfers[t])
          <5>1. started[t] # None
            BY <1>4
          <5> QED
            BY <1>8, <4>1, <5>1 DEF RecoveryInv, WindowsFollow
        <4>2. CASE i = Len(transfers[t]) + 1
          BY <1>4, <1>7, <1>8, <4>2
        <4> QED
          BY <1>9, <4>1, <4>2
      <3>3. Len(transfers[t]) + 1 \in 1..Len(transfers'[t])
        BY <1>8
      <3> QED
        BY <1>3, <1>7, <1>8, <2>2, <3>1, <3>2, <3>3
    <2> QED
      BY <2>1, <2>2
  <1> QED
    BY <1>11, <1>12, <1>13 DEF RecoveryInv

\* The inductive step of RecoveryInv, one case per operation.
LEMMA NextRecovery == LInv /\ LInv' /\ RecoveryInv /\ [LedgerNext]_vars => RecoveryInv'
  <1> SUFFICES ASSUME LInv, LInv', RecoveryInv, [LedgerNext]_vars PROVE RecoveryInv'
    OBVIOUS
  <1> USE RecoveryTypes
  <1>w. ASSUME NEW t \in Tasks, NEW row, Put(t, row)
        PROVE  \A x \in Tasks \ {t} : task'[x] = task[x]
    BY <1>w DEF Put, LInv, IInv, TypeOK
  <1>k. ASSUME NEW t \in Tasks, NEW kind, NEW st, NEW now, Logged(t, kind, st, now),
               kind # "claim_recovered", clock' = clock,
               \A x \in Tasks \ {t} : task'[x] = task[x],
               st \in {None, started[t]} \/ st \in Sampled
        PROVE  RecoveryInv'
    <2>1. Record(t, kind, st, now) /\ transfers' = transfers
      BY <1>k DEF Logged
    <2> QED
      BY <1>k, <2>1, EventRecovery
  <1>1. CASE LedgerTick
    <2>1. clock' = clock + 1 /\ UNCHANGED <<task, started, transfers, rescued>>
      BY <1>1 DEF LedgerTick, Tick, ledgerVars
    <2> QED
      BY <2>1, QuietRecovery
  <1>2. CASE UNCHANGED vars
    BY <1>2, QuietRecovery DEF vars, boardVars, ledgerVars, history
  <1>3. ASSUME NEW t \in Tasks, NEW now \in Sampled,
               \/ LedgerAnswer(t, now)
               \/ LedgerUnheld(t, now)
               \/ LedgerResolve(t, now)
        PROVE  RecoveryInv'
    <2>1. CASE LedgerAnswer(t, now)
      <3>1. PICK row : Put(t, row)
        BY <2>1 DEF LedgerAnswer, AnswerQuestion, UnparkFrom
      <3>2. clock' = clock /\ Logged(t, "answered", started[t], now)
        BY <2>1 DEF LedgerAnswer, AnswerQuestion, UnparkFrom
      <3> QED
        BY <1>k, <1>w, <3>1, <3>2
    <2>2. CASE LedgerUnheld(t, now)
      <3>1. Logged(t, "unheld", None, now)
        BY <2>2 DEF LedgerUnheld
      <3>2. clock' = clock /\ \A x \in Tasks \ {t} : task'[x] = task[x]
        <4>1. CASE CreateTask(t) \/ BlockTask(t) \/ ReopenTask(t)
          <5>1. PICK row : Put(t, row)
            BY <4>1 DEF CreateTask, BlockTask, ReopenTask
          <5> QED
            BY <1>w, <4>1, <5>1 DEF CreateTask, BlockTask, ReopenTask
        <4>2. CASE AbandonTask(t, now)
          BY <4>2, EndsAlone DEF AbandonTask
        <4> QED
          BY <2>2, <4>1, <4>2 DEF LedgerUnheld
      <3> QED
        BY <1>k, <3>1, <3>2
    <2>3. CASE LedgerResolve(t, now)
      <3>1. Logged(t, "resolved", None, now)
        BY <2>3 DEF LedgerResolve
      <3>2. clock' = clock /\ \A x \in Tasks \ {t} : task'[x] = task[x]
        BY <2>3, EndsAlone DEF LedgerResolve, ResolveInReview
      <3> QED
        BY <1>k, <3>1, <3>2
    <2> QED
      BY <1>3, <2>1, <2>2, <2>3
  <1>4. ASSUME NEW t \in Tasks, NEW now \in Sampled, NEW a \in Agents,
               LedgerAgentStep(t, a, now)
        PROVE  RecoveryInv'
    <2>1. CASE LedgerClaim(t, a, now)
      <3>1. PICK len \in Leases : /\ ClaimTask(t, a, len, now)
                                  /\ Logged(t, "claimed", ClaimedStart(t, a, now), now)
        BY <2>1 DEF LedgerClaim
      <3>2. clock' = clock /\ Put(t, Held(a, now + len, task[t].blockedBy))
        BY <3>1 DEF ClaimTask
      <3>3. ClaimedStart(t, a, now) = started[t] \/ ClaimedStart(t, a, now) \in Sampled
        BY DEF ClaimedStart
      <3> QED
        BY <1>k, <1>w, <3>1, <3>2, <3>3
    <2>2. CASE LedgerRenew(t, a, now)
      <3>1. PICK row : Put(t, row)
        BY <2>2 DEF LedgerRenew, RenewLease, TouchLease
      <3>2. clock' = clock /\ Logged(t, "lease_renewed", started[t], now)
        BY <2>2 DEF LedgerRenew, RenewLease, TouchLease
      <3> QED
        BY <1>k, <1>w, <3>1, <3>2
    <2>3. CASE LedgerRelease(t, a, now)
      <3>1. PICK row : Put(t, row)
        BY <2>3 DEF LedgerRelease, ReleaseTask
      <3>2. clock' = clock /\ Logged(t, "released", None, now)
        BY <2>3 DEF LedgerRelease, ReleaseTask
      <3> QED
        BY <1>k, <1>w, <3>1, <3>2
    <2>4. CASE LedgerPark(t, a, now)
      <3>1. PICK row : Put(t, row)
        BY <2>4 DEF LedgerPark, AskQuestion, PauseTask, ParkAs
      <3>2. clock' = clock /\ Logged(t, "parked", started[t], now)
        BY <2>4 DEF LedgerPark, AskQuestion, PauseTask, ParkAs
      <3> QED
        BY <1>k, <1>w, <3>1, <3>2
    <2>5. CASE LedgerResume(t, a, now)
      <3>1. PICK row : Put(t, row)
        BY <2>5 DEF LedgerResume, ResumeTask, UnparkFrom
      <3>2. clock' = clock /\ Logged(t, "resumed", started[t], now)
        BY <2>5 DEF LedgerResume, ResumeTask, UnparkFrom
      <3> QED
        BY <1>k, <1>w, <3>1, <3>2
    <2>6. CASE LedgerRecover(t, a, now)
      BY <2>6, RecoverRecovery
    <2>7. CASE CheckBegin(t, a, now) \/ CompleteBegin(t, a, now)
               \/ CheckRecord(t, a) \/ CompleteRefused(t, a)
      <3>1. UNCHANGED <<clock, task, started, transfers, rescued>>
        BY <2>7 DEF CheckBegin, CompleteBegin, CheckRecord, CompleteRefused, boardVars, history
      <3> QED
        BY <3>1, QuietRecovery
    <2>8. CASE CompleteCommit(t, a)
      <3>1. /\ Record(t, "conformance_recorded", None, pending[a].now)
            /\ \A x \in Tasks \ {t} : task'[x] = task[x]
            /\ UNCHANGED <<clock, transfers>>
        BY <2>8, CommitFacts
      <3> QED
        BY <3>1, EventRecovery
    <2> QED
      BY <1>4, <2>1, <2>2, <2>3, <2>4, <2>5, <2>6, <2>7, <2>8 DEF LedgerAgentStep
  <1> QED
    BY <1>1, <1>2, <1>3, <1>4 DEF LedgerNext

\* Among the recoveries towards a holder one comes last in the sorted history,
\* so the walk reads a recovery that is in the log.
LEMMA LatestIsLogged ==
    ASSUME LInv, RecoveryInv, NEW t \in Tasks, NEW holder, TransfersTo(t, holder) # {}
    PROVE  \E i \in 1..Len(transfers[t]) : LatestTransferTo(t, holder) = transfers[t][i]
  <1> USE RecoveryTypes
  <1>1. PICK T : T = TransfersTo(t, holder)
    OBVIOUS
  <1>2. PICK log : log = transfers[t]
    OBVIOUS
  <1>3. /\ T \subseteq 1..Len(log) /\ T # {} /\ Len(log) \in Nat
        /\ \A i \in T : log[i].at \in Nat /\ log[i].at <= clock
    BY <1>1, <1>2 DEF TransfersTo, RecoveryInv, TransfersTimed, Transfer
  <1>4. PICK x \in T : \A y \in T : log[y].at <= log[x].at
    <2> DEFINE m == [i \in T |-> log[i].at]
    <2>1. m \in [T -> Nat] /\ \A i \in T : m[i] <= clock
      BY <1>3
    <2>2. \A i \in T : m[i] = log[i].at
      OBVIOUS
    <2> HIDE DEF m
    <2>3. PICK z \in T : \A y \in T : m[y] <= m[z]
      BY <1>3, <2>1, GreatestMeasure
    <2> QED
      BY <2>2, <2>3
  <1>5. PICK L : L = {i \in T : log[i].at = log[x].at}
    OBVIOUS
  <1>6. PICK y \in L : \A j \in L : j <= y
    <2> DEFINE m == [i \in L |-> i]
    <2>a. x \in L /\ \A i \in L : i \in Nat /\ i <= Len(log)
      BY <1>3, <1>5
    <2>1. m \in [L -> Nat] /\ (\A i \in L : m[i] <= Len(log)) /\ L # {}
      BY <2>a
    <2>2. \A i \in L : m[i] = i
      OBVIOUS
    <2> HIDE DEF m
    <2>3. PICK z \in L : \A j \in L : m[j] <= m[z]
      BY <1>3, <2>1, GreatestMeasure
    <2> QED
      BY <2>2, <2>3
  <1> DEFINE NotAfter(j, i) == log[j].at < log[i].at \/ (log[j].at = log[i].at /\ j <= i)
             latest == CHOOSE i \in T : \A j \in T : NotAfter(j, i)
  <1>7. y \in T /\ \A j \in T : NotAfter(j, y)
    BY <1>3, <1>4, <1>5, <1>6
  <1>8. latest \in T
    <2> HIDE DEF NotAfter
    <2> QED
      BY <1>7
  <1>9. LatestTransferTo(t, holder) = log[latest]
    BY <1>1, <1>2, Zenon DEF LatestTransferTo
  <1> HIDE DEF latest
  <1> QED
    BY <1>2, <1>3, <1>8, <1>9

\* The states of the loop of authorising_window_start.
WalkState == [holder : Agents, earliest : Nat \cup {None}]

\* One round either ends the walk where it is or moves to a window in the log.
LEMMA HopFacts ==
    ASSUME LInv, RecoveryInv, NEW t \in Tasks, NEW w \in WalkState
    PROVE  /\ WalkHop(t, w) \in WalkState
           /\ IF TransfersTo(t, w.holder) = {} THEN WalkHop(t, w) = w
              ELSE \E i \in 1..Len(transfers[t]) :
                       WalkHop(t, w).earliest = transfers[t][i].start
  <1> USE RecoveryTypes, BoardAssumption
  <1>1. CASE TransfersTo(t, w.holder) = {}
    BY <1>1 DEF WalkHop
  <1>2. CASE TransfersTo(t, w.holder) # {}
    <2>1. PICK i \in 1..Len(transfers[t]) :
              LatestTransferTo(t, w.holder) = transfers[t][i]
      BY <1>2, LatestIsLogged
    <2>2. transfers[t][i].start \in Nat /\ transfers[t][i].from \in Agents
      BY DEF RecoveryInv, TransfersTimed, Transfer
    <2>3. WalkHop(t, w) = [holder |-> transfers[t][i].from,
                           earliest |-> transfers[t][i].start]
      BY <1>2, <2>1, <2>2 DEF WalkHop
    <2> QED
      BY <1>2, <2>2, <2>3 DEF WalkState
  <1> QED
    BY <1>1, <1>2

\* The walk is what its loop computes: it starts at the owner's own window and
\* makes one hop per round.
LEMMA WalkRounds ==
    ASSUME LInv, RecoveryInv, NEW t \in Tasks, NEW owner \in Agents,
           NEW N \in Nat, N = Cardinality(Agents)
    PROVE  /\ Walk(t, owner)[0] = [holder |-> owner, earliest |-> started[t]]
           /\ \A n \in 1..N : Walk(t, owner)[n] = WalkHop(t, Walk(t, owner)[n - 1])
           /\ Walk(t, owner) \in [0..N -> WalkState]
  <1>1. PICK b : b = [holder |-> owner, earliest |-> started[t]]
    OBVIOUS
  <1>2. b \in WalkState
    BY <1>1, RecoveryTypes DEF WalkState
  <1>3. PICK F \in [WalkState -> WalkState] : \A w \in WalkState : F[w] = WalkHop(t, w)
    <2> DEFINE F == [w \in WalkState |-> WalkHop(t, w)]
    <2>1. \A w \in WalkState : WalkHop(t, w) \in WalkState
      BY HopFacts
    <2>2. F \in [WalkState -> WalkState] /\ \A w \in WalkState : F[w] = WalkHop(t, w)
      BY <2>1
    <2> QED
      BY <2>2
  <1>4. PICK g \in [0..N -> WalkState] : g[0] = b /\ \A n \in 1..N : g[n] = F[g[n - 1]]
    <2>1. Iterates(WalkState, F, b, N) # {}
      BY <1>2, IterationExists
    <2> QED
      BY <2>1 DEF Iterates
  <1> DEFINE Solves(h) == h = [n \in 0..N |-> IF n = 0 THEN b ELSE WalkHop(t, h[n - 1])]
  <1>5. Solves(g)
    <2>1. \A n \in 0..N : n # 0 => n - 1 \in 0..N /\ n \in 1..N
      OBVIOUS
    <2>2. \A n \in 0..N : g[n] = IF n = 0 THEN b ELSE WalkHop(t, g[n - 1])
      BY <1>3, <1>4, <2>1
    <2> QED
      BY <2>2
  <1>6. Walk(t, owner) = CHOOSE h : Solves(h)
    BY <1>1, Zenon DEF Walk
  <1>7. PICK h : h = Walk(t, owner) /\ Solves(h)
    <2> HIDE DEF Solves
    <2> QED
      BY <1>5, <1>6
  <1>8. h[0] = b /\ \A n \in 1..N : h[n] = WalkHop(t, h[n - 1])
    <2>1. \A n \in 0..N : h[n] = IF n = 0 THEN b ELSE WalkHop(t, h[n - 1])
      BY <1>7
    <2> QED
      BY <2>1
  <1>9. ASSUME NEW n \in 0..N
        PROVE  h[n] \in WalkState
    <2>1. \A i \in (0 + 1)..n : h[i - 1] \in WalkState => h[i] \in WalkState
      BY <1>8, HopFacts
    <2>2. n \in Nat /\ 0 \in 0..n
      OBVIOUS
    <2> QED
      BY <1>2, <1>8, <2>1, <2>2, IterationStays
  <1>10. h \in [0..N -> WalkState]
    <2>1. h = [n \in 0..N |-> IF n = 0 THEN b ELSE WalkHop(t, h[n - 1])]
      BY <1>7
    <2>2. h = [n \in 0..N |-> h[n]]
      BY <2>1
    <2> QED
      BY <1>9, <2>2
  <1> QED
    BY <1>1, <1>7, <1>8, <1>10

\* The invariants give the property: from its first round on the walk is at a
\* window of the log, and none of those starts after the rescued one.
LEMMA RescueIsReached == LInv /\ RecoveryInv => RecoveredWorkIsProvable
  <1> SUFFICES ASSUME LInv, RecoveryInv, NEW t \in Tasks, rescued[t] # None
               PROVE  EvidenceFloor(t, task[t].owner) <= rescued[t] + MaxDelay
    BY DEF RecoveredWorkIsProvable
  <1>1. PICK o : o = task[t].owner
    OBVIOUS
  <1>2. o \in Agents /\ started[t] \in Nat /\ rescued[t] \in Nat
    BY <1>1, RecoveryTypes, RowFacts DEF RecoveryInv, RescueLogged, LInv, WindowIffOwned, IInv, TypeOK, Row
  <1>3. PICK N \in Nat \ {0} : N = Cardinality(Agents)
    BY <1>2, LedgerAssumption, FS_CardinalityType, FS_EmptySet
  <1>4. PICK P : P = {w \in WalkState :
                          \E i \in 1..Len(transfers[t]) : w.earliest = transfers[t][i].start}
    OBVIOUS
  <1>5. PICK g : g = Walk(t, o)
    OBVIOUS
  <1>6. /\ g[0] = [holder |-> o, earliest |-> started[t]]
        /\ \A n \in 1..N : g[n] = WalkHop(t, g[n - 1])
        /\ \A n \in 0..N : g[n] \in WalkState
    BY <1>2, <1>3, <1>5, WalkRounds
  <1>7. g[1] \in P
    <2>1. TransfersTo(t, o) # {} /\ g[0].holder = o /\ g[0] \in WalkState
      <3>1. g[0].holder = o /\ g[0] \in WalkState
        BY <1>3, <1>6
      <3> QED
        BY <1>1, <3>1 DEF TransfersTo, RecoveryInv, RescueLogged
    <2>2. g[1] = WalkHop(t, g[0]) /\ g[1] \in WalkState
      <3>1. 1 \in 1..N /\ 1 \in 0..N /\ 1 - 1 = 0
        BY <1>3
      <3> QED
        BY <1>6, <3>1
    <2> QED
      BY <1>4, <2>1, <2>2, HopFacts
  <1>8. ASSUME NEW n \in (1 + 1)..N, g[n - 1] \in P
        PROVE  g[n] \in P
    <2>1. g[n] = WalkHop(t, g[n - 1]) /\ g[n] \in WalkState /\ g[n - 1] \in WalkState
      BY <1>3, <1>6, <1>8
    <2> QED
      BY <1>4, <1>8, <2>1, HopFacts
  <1>9. g[N] \in P
    BY <1>3, <1>7, <1>8, IterationStays
  <1>10. PICK i \in 1..Len(transfers[t]) : g[N].earliest = transfers[t][i].start
    BY <1>4, <1>9
  <1>11. g[N].earliest \in Nat /\ g[N].earliest <= rescued[t] + MaxDelay
    BY <1>10 DEF RecoveryInv, TransfersTimed, RescueLogged
  <1>12. EvidenceFloor(t, o) = IF g[N].earliest < started[t] THEN g[N].earliest ELSE started[t]
    BY <1>3, <1>5, Zenon DEF EvidenceFloor
  <1> QED
    BY <1>1, <1>2, <1>11, <1>12, BoardAssumption

\* The log of recoveries and the windows agree in every reachable state.
THEOREM RecoveryInvariance == LedgerSpec => []RecoveryInv
  <1>1. LedgerInit => RecoveryInv
    BY DEF LedgerInit, RecoveryInv, TransfersTimed, WindowsFollow, RescueLogged
  <1> QED
    BY <1>1, NextRecovery, LedgerInvariance, PTL DEF LedgerSpec

\* Recovery rescues the work already done, for every number of identities,
\* recoveries and rounds of parking, releasing and claiming in between, and
\* although the history is sorted by the time each caller sampled: the evidence
\* floor of a recovered window misses at most MaxDelay of the interrupted one.
THEOREM RecoveredWorkStaysProvable == LedgerSpec => []RecoveredWorkIsProvable
  BY RecoveryInvariance, RescueIsReached, LedgerInvariance, PTL

----------------------------------------------------------------------------
(* The bounded walk is the loop *)

\* The loop of authorising_window_start as a function of its state.
Hop(t) == [w \in WalkState |-> WalkHop(t, w)]

OwnWindow(t, owner) == [holder |-> owner, earliest |-> started[t]]

\* The loop, left to run as long as it likes, ends in state w.
LoopEndsWith(t, owner, w) ==
    \E M \in Nat : \E g \in Iterates(WalkState, Hop(t), OwnWindow(t, owner), M) :
        g[M] = w /\ TransfersTo(t, w.holder) = {}

\* The model's walk makes one round per identity.  That is as good as the loop:
\* the loop ends exactly when the bounded walk has ended, and with its result.
WalkIsTheLoop ==
    \A t \in Tasks, owner \in Agents, w \in WalkState :
        LoopEndsWith(t, owner, w) <=>
            WalkEnds(t, owner) /\ w = Walk(t, owner)[Cardinality(Agents)]

\* The walk consists of the first rounds of the loop.
LEMMA WalkIterates ==
    ASSUME LInv, RecoveryInv, NEW t \in Tasks, NEW owner \in Agents,
           NEW N \in Nat, N = Cardinality(Agents)
    PROVE  /\ Walk(t, owner) \in Iterates(WalkState, Hop(t), OwnWindow(t, owner), N)
           /\ \A w \in WalkState : Hop(t)[w] = WalkHop(t, w)
  <1>1. \A w \in WalkState : Hop(t)[w] = WalkHop(t, w)
    BY DEF Hop
  <1>2. PICK g : g = Walk(t, owner)
    OBVIOUS
  <1>3. /\ g[0] = OwnWindow(t, owner)
        /\ \A n \in 1..N : g[n] = WalkHop(t, g[n - 1])
        /\ g \in [0..N -> WalkState]
    BY <1>2, WalkRounds DEF OwnWindow
  <1>4. \A n \in 1..N : g[n] = Hop(t)[g[n - 1]]
    BY <1>1, <1>3
  <1> HIDE DEF Hop
  <1> QED
    BY <1>1, <1>2, <1>3, <1>4 DEF Iterates

\* Once the loop has nowhere to go it stays where it is.
LEMMA EndedLoopStays ==
    ASSUME LInv, RecoveryInv, NEW t \in Tasks, NEW b, NEW M \in Nat,
           NEW g \in Iterates(WalkState, Hop(t), b, M),
           NEW m \in 0..M, TransfersTo(t, g[m].holder) = {}
    PROVE  g[M] = g[m]
  <1>1. \A i \in 1..M : g[i] = Hop(t)[g[i - 1]] /\ g[i - 1] \in WalkState
    BY DEF Iterates
  <1>2. PICK P : P = {g[m]}
    OBVIOUS
  <1>3. ASSUME NEW i \in (m + 1)..M, g[i - 1] \in P
        PROVE  g[i] \in P
    <2>1. g[i] = Hop(t)[g[i - 1]] /\ g[i - 1] \in WalkState /\ g[i - 1] = g[m]
      BY <1>1, <1>2, <1>3
    <2>2. Hop(t)[g[i - 1]] = WalkHop(t, g[i - 1])
      BY <2>1 DEF Hop
    <2> QED
      BY <1>2, <2>1, <2>2 DEF WalkHop
  <1>4. g[M] \in P
    BY <1>2, <1>3, IterationStays
  <1> QED
    BY <1>2, <1>4

\* A loop that ends at all ends within one round per identity, because the
\* holder it has reached determines the next.
LEMMA LoopEndsEarly ==
    ASSUME LInv, RecoveryInv, NEW t \in Tasks, NEW b, NEW M \in Nat,
           NEW g \in Iterates(WalkState, Hop(t), b, M),
           TransfersTo(t, g[M].holder) = {}
    PROVE  \E m \in 0..M : TransfersTo(t, g[m].holder) = {} /\ m < Cardinality(Agents)
  <1> DEFINE Stops == {i \in Nat : i <= M /\ TransfersTo(t, g[i].holder) = {}}
  <1>1. Stops \subseteq Nat /\ M \in Stops
    OBVIOUS
  <1>2. PICK m \in Stops : \A i \in Stops : m <= i
    <2> HIDE DEF Stops
    <2> QED
      BY <1>1, LeastElement
  <1>3. /\ m \in Nat /\ m <= M /\ TransfersTo(t, g[m].holder) = {}
        /\ \A i \in 0..(m - 1) : TransfersTo(t, g[i].holder) # {}
    BY <1>2
  <1> HIDE DEF Stops
  <1>4. PICK E : E = {h \in Agents : TransfersTo(t, h) = {}}
    OBVIOUS
  <1>5. PICK f : f = [h \in Agents |-> IF h \in E THEN h ELSE LatestTransferTo(t, h).from]
    OBVIOUS
  <1>6. PICK c : c = [i \in 0..m |-> g[i].holder]
    OBVIOUS
  <1>7. \A i \in 0..m : g[i] \in WalkState /\ g[i].holder \in Agents
    BY <1>3 DEF Iterates, WalkState
  <1>8. c \in [0..m -> Agents] /\ \A i \in 0..m : c[i] = g[i].holder
    BY <1>6, <1>7
  <1>9. ASSUME NEW i \in 1..m
        PROVE  c[i] = f[c[i - 1]]
    <2>1. i \in 1..M /\ i \in 0..m /\ i - 1 \in 0..m
      BY <1>3, <1>9
    <2>2. g[i] = Hop(t)[g[i - 1]] /\ g[i - 1] \in WalkState /\ g[i - 1].holder \in Agents
      BY <1>7, <2>1 DEF Iterates
    <2>3. g[i] = WalkHop(t, g[i - 1])
      BY <2>2 DEF Hop
    <2>4. g[i].holder = IF TransfersTo(t, g[i - 1].holder) = {} THEN g[i - 1].holder
                        ELSE LatestTransferTo(t, g[i - 1].holder).from
      BY <2>3 DEF WalkHop
    <2>5. c[i] = g[i].holder /\ c[i - 1] = g[i - 1].holder
      BY <1>8, <2>1
    <2> QED
      BY <1>4, <1>5, <2>2, <2>4, <2>5
  <1>10. c[m] \in E /\ \A i \in 0..(m - 1) : c[i] \notin E
    BY <1>3, <1>4, <1>7, <1>8
  <1>11. m < Cardinality(Agents)
    <2>1. FirstStop(Agents, E, f, c, m)
      BY <1>8, <1>9, <1>10 DEF FirstStop
    <2> QED
      BY <1>3, <2>1, LedgerAssumption, WalkStopsEarly
  <1> QED
    BY <1>3, <1>11

\* Both directions of WalkIsTheLoop.
LEMMA WalkDecides == LInv /\ RecoveryInv => WalkIsTheLoop
  <1> SUFFICES ASSUME LInv, RecoveryInv,
                      NEW t \in Tasks, NEW owner \in Agents, NEW w \in WalkState
               PROVE  LoopEndsWith(t, owner, w) <=>
                          WalkEnds(t, owner) /\ w = Walk(t, owner)[Cardinality(Agents)]
    BY DEF WalkIsTheLoop
  <1>1. PICK N \in Nat : N = Cardinality(Agents)
    BY LedgerAssumption, FS_CardinalityType
  <1>2. PICK b : b = OwnWindow(t, owner)
    OBVIOUS
  <1>3. PICK h : h = Walk(t, owner)
    OBVIOUS
  <1>4. h \in Iterates(WalkState, Hop(t), b, N)
    BY <1>1, <1>2, <1>3, WalkIterates
  <1>5. WalkEnds(t, owner) <=> TransfersTo(t, h[N].holder) = {}
    BY <1>1, <1>3 DEF WalkEnds
  <1>6. ASSUME LoopEndsWith(t, owner, w)
        PROVE  w = h[N] /\ TransfersTo(t, h[N].holder) = {}
    <2>1. PICK M \in Nat : \E g \in Iterates(WalkState, Hop(t), b, M) :
              g[M] = w /\ TransfersTo(t, w.holder) = {}
      BY <1>2, <1>6 DEF LoopEndsWith
    <2>2. PICK g \in Iterates(WalkState, Hop(t), b, M) :
              g[M] = w /\ TransfersTo(t, w.holder) = {}
      BY <2>1
    <2>3. PICK m \in 0..M : TransfersTo(t, g[m].holder) = {} /\ m < N
      BY <1>1, <2>2, LoopEndsEarly
    <2>4. g[m] = h[m]
      <3>1. m \in Nat /\ m <= M /\ m <= N
        BY <2>3
      <3> QED
        BY <1>4, <3>1, IterationUnique
    <2>5. g[M] = g[m]
      BY <2>3, EndedLoopStays
    <2>6. h[N] = h[m]
      <3>1. m \in 0..N
        BY <2>3
      <3> QED
        BY <1>4, <2>3, <2>4, <3>1, EndedLoopStays
    <2> QED
      BY <2>2, <2>4, <2>5, <2>6
  <1>7. ASSUME TransfersTo(t, h[N].holder) = {}, w = h[N]
        PROVE  LoopEndsWith(t, owner, w)
    BY <1>2, <1>4, <1>7 DEF LoopEndsWith
  <1> QED
    BY <1>1, <1>3, <1>5, <1>6, <1>7

\* In every reachable state the bounded walk of the model decides whether the
\* unbounded loop of authorising_window_start ends, and gives its answer.
THEOREM WalkIsAlwaysTheLoop == LedgerSpec => []WalkIsTheLoop
  BY RecoveryInvariance, WalkDecides, LedgerInvariance, PTL

=============================================================================
