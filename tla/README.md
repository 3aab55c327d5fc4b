# Verification of MindLeak's intent plane

MindLeak is a family of Rust programs that give coding agents a shared memory
(MindLeak), a shared statement of intent and work (Lodestar) and a network
authority over several repositories (Ackplane).  This directory holds TLA+
models of the parts whose correctness depends on the order in which several
agents, processes and humans act, the TLC configurations that check them on
small instances, and TLAPS proofs that hold for every instance.

## 1. Inventory

| Component | State | Operations | Hard behaviour | What makes it correct | Model |
|---|---|---|---|---|---|
| Task board (`lodestar-core/store/coordination`, `claim_transfer.rs`) | `tasks`, `task_handoffs`, one SQLite file shared by all agent processes | create, claim, renew, touch, release, ask, answer, pause, resume, recover, block, reopen, abandon, complete, resolve | processes interleave; `now` is sampled before the write lock is taken; leases and parking grace expire; owners vanish | no live owner displaced, nothing stranded, handoffs acyclic, gates lifted only in known ways, terminal rows final | `TaskBoard`, `BoardRescue` |
| Evidence window and task log (`store/events.rs`, `claim_transfer.rs`) | `claim_started_at`, `task_events` | one event per transition; derived window, lapses, transfers | the log's readers infer lapses and transfers from neighbouring events | lapses real, windows survive a re-claim, recovered work provable | `EvidenceLedger` |
| Conformance (`facade/conformance`) | `conformance` records, tokens held by the caller | check, complete, resolve | read, consult a model, write: everything may change in between | only the checked window is certified | `EvidenceLedger` |
| Federated claims (`coordination/claim/federation.rs`, `lodestar-mcp/federation.rs`, `facade/executive`) | the same rows as a cache, one per node | remote decision, then unconditional local apply; heartbeat; local block, reopen, complete | crash, time-out or reordering between decision and apply | the cache shows only owners that were granted; a claimant is served in the end | `FederatedClaim` |
| Constitution and amendments (`store/amendments.rs`, `store/goals.rs`) | versions, goals, bindings | draft, adopt, supersede | live tasks move to the successor clause with no event | one active version; the log reproduces the table | not modelled |
| Designs (`design.rs`, `store/design_materialization.rs`) | items, links to tasks | propose, accept, materialise | retried materialisation | each item becomes a task once | not modelled |
| Knowledge, controls, waivers, policy packs | rows with expiry and decay | record, confirm, expire | floating-point decay | thresholds | not modelled |
| Session identity (`mindleak-session`) | registered sessions, legacy names | open, resolve, recover | mixed identities in one table | a session cannot act as a legacy owner | sets `Agents`, `Legacy` |
| MindLeak graph and maintenance (`mindleak-core/graph`, `mindleak-mcp/maintenance`) | nodes, edges, weights; a background loop | ingest, prune, reset, consolidate | maintenance against concurrent ingestion | nothing fresh is pruned | not modelled |
| Storage repository, coordinator, model client | paths, child processes | resolve, spawn, call | process and file I/O | - | not modelled |
| Ackplane claim store (`ackplane-server/claim_store`, `claim_service`) | `delegated_claims`, `delegated_claim_history` in PostgreSQL | delegate, renew, park, answer, release, recover | many nodes, late requests, the clock sampled before the row lock | a lease a custodian was told of stands against everybody else's requests; the history reproduces the lease | `FederatedClaim` |
| Supervisor queues and directives (`ackplane-supervisor` inbox, outbox, `daemon/delivery.rs`; `ackplane-server` `directive_store`, `supervisor_store`, `service`) | inbox, outbox, positions; directives, receipts | issue, deliver, decide, enqueue, resend, acknowledge, reconcile | crash, reconnect, late frames, lost answers, restored database | each directive decided once and recorded once, in order; nothing pruned unrecorded | `DirectiveDelivery`, `DirectiveContract` |
| Worker slot (`ackplane-supervisor` `daemon/runtime.rs`, `worker_adapter.rs`, `recovery`) | worker process, run marker, lease, effects, stop record | assign, observe, terminate, finish, shut down, recover | crash between any two commits, failing kills and writes, an orphaned worker | one worker per slot; lease and marker outlive it; a stopped run is cleared | `WorkerSlot` |
| Node sync (`node_sync.rs`, `sync.rs`), enrolment, migration lock | cursors, keys, advisory lock | push, pull, approve, hand over | gaps, retries, concurrent starts | no envelope skipped; one migrator | not modelled |
| Bridge, MCP servers, workctl, protocol, scripts, editor extension | none of their own | dispatch, render, encode | - | - | not modelled |

`PROJECT.json` lists every component with its files and the reason for what is
left out, and every hazard with the line where it bites.

How the parts interact: agent processes call the Lodestar facade, which runs one
`BEGIN IMMEDIATE` transaction per operation on the shared SQLite file and appends
an event with the row's after-image in the same transaction.  When a repository
is federated, the facade asks Ackplane first and copies its decision.  Ackplane
talks to supervisors through directives and receipts; supervisors run workers,
which are again agents on the board.

## 2. Modules

* **TaskBoard** - the three tables and every local transaction that moves a
  task.  `task[t]` is the row (`status`, `owner`, `lease`, `parked`,
  `blockedBy`), `pred[t]` the predecessor in `task_handoffs`, `verdicts[t]` the
  verdicts in `conformance`, `clock` the wall clock.  One action per store
  function, under its name.  A guard is the SQL `WHERE` clause together with the
  early returns; a refused call changes nothing and is a disabled action.
  SQLite serialises writers, so a transaction is one step; what is not atomic is
  the caller's `now`, so every action takes a `now` from `Sampled`, up to
  `MaxDelay` old (the busy timeout of `db.rs` is five seconds).  `CompleteTask`
  takes any earlier `now`, because `complete_task` samples it before it
  validates.  A human reviewer or an agent that calls `answer`, `block`,
  `reopen`, `abandon` or `resolve` is not checked against the owner in the code
  and is anybody here.
* **BoardRescue** - TaskBoard with one agent that keeps polling (`Take`,
  `Finish`) while all others vanish after `Horizon`.
* **EvidenceLedger** - TaskBoard plus `claim_started_at` (`started`), the lapse
  count `claim_window_on` derives (`lapses`), the transfers
  `claim_transfer_history` derives (`transfers`), the conformance records with
  the part of the token basis that concerns the claim (`checks`) and the calls
  between their read and their write (`pending`).  The log is not a variable: the
  derived values are what its readers' loops have reached.  `hole` and `rescued`
  are history variables; no action reads them.  Each action is a conjunction of a
  board action and what it does to the window, so the refinement of TaskBoard is
  the identity on the shared variables.
* **DirectiveContract** - what the control loop promises, without its queues:
  directives are issued in order, decided once in order, recorded once in order.
* **DirectiveDelivery** - the control loop of a supervisor that runs no worker.
  Server: `issued` (stream head), `receipts`, `accepted` (outbox position),
  `known` (session), `wire` (outbox frames it has not finished with).  Node:
  `inbox` (decisions), `log` and `queued` (what each outbox sequence was assigned
  to and which are still to be confirmed), and the memory of `serve_once`: its
  `phase`, delivered directives, the receipt in hand, the resend pass.  Each
  commit is a step; the receipt and the position are two commits
  (`ServerRecord`, `ServerAdvance`).  A frame outlives its connection and may be
  processed late or lost.  The server refuses for good a decision dated before its
  directive (`ServerRefuse`) and, when its connection pool is exhausted or a row
  does not decode, any frame (`ServerExhausted`, one of the faults).  `Restore`
  replaces the outbox by an older copy while the daemon is off and no frame of it is
  under way; a restore that overtakes a frame is excluded.  `Contract` is the refinement mapping to DirectiveContract.
* **WorkerSlot** - one worker slot over the runs that use it: the marker file,
  the process (`live`, `exited` with its group perhaps alive, `stopped`), the
  lease at Ackplane, the effects and receipts of the current run, and per run the
  outbox positions, the stop record and the completed recoveries.  `pc` says
  where the process that holds the state directory is between two commits;
  `Raise` is what a `DaemonError` does (the session fails, its clean-up runs
  `shutdown`, and a second error ends the process).  A claim request that its run
  gave up on (a time-out, a stop, a crash) stays undecided in `late` until
  `LateDecision` grants or drops it, at any time, the run settled or not; `stray`
  names the run whose lease came that way.  Of the outbox only positions are kept,
  because the frames are DirectiveDelivery's.
* **FederatedClaim** - the claim on one task of a federated repository: the row
  and what a replay of its history yields, requests between being signed and
  being decided, answers between being decided and being applied, and each
  node's cached row.  The row has the branch of the claim, the history has not.
  `promise` is a history variable: how long the custodian was last told its lease
  runs.  `Delegate`, `Renew`, `Release`, `Recover`, `Park` and
  `Answer` are the store's functions; `Decide` is the transaction around them.
* **TaskBoardProofs**, **BoardRescueProofs**, **EvidenceLedgerProofs**,
  **DirectiveDeliveryProofs**, **WorkerSlotProofs**, **FederatedClaimProofs** -
  theorems; **InductionLemmas** - what they share about naturals, finite sets and
  iterated functions.
* **MCTaskBoard**, **MCBoardRescue**, **MCEvidenceLedger**,
  **MCDirectiveDelivery**, **MCWorkerSlot**, **MCFederatedClaim** - instances for
  TLC.

Operators named as mutants (`ClaimableTooEarly`, `AbandonAlone`, ...) stand just
before the definition they distort.  No specification uses them; they show that
each property can fail when the code has a plausible defect.

Abstractions: titles, notes, questions, scopes and audit text are left out (no
modelled guard reads them), and branches too except in FederatedClaim, whose row
keeps the branch of the claim; a task's goal is a constant; the verdict of
the judgement is a free choice except for the cap on discontinuous windows; the
archive of transfers from before the log is empty; the token is compared by its
claim part, since goals and bindings do not change here; evidence is represented
by the earliest instant it may start at.  A session declares the legacy name
whenever it recovers a legacy owner (`compatible_legacy_owner`).  An agent has
one call outstanding at a time.  EvidenceLedger leaves handoffs out: they do not
touch the window, and TaskBoard has them.  A directive is its sequence number; a
decision is its status and whether it is dated before the directive, which is all
the server reads of it; digests, identities and heartbeats are left out.  A
confirmation digest of a stopped run is its acknowledged position, the only part
of the evidence that still changes.  Time in FederatedClaim is whole seconds, the
unit the cache keeps, so a sub-second difference between row and cache is not
visible; a nonce is a request being decided at most once.

## 3. Runs

| Run | Instance | Checks | Result |
|---|---|---|---|
| `board_claims` | 1 task, 2 sessions, 1 legacy name, the sessions as reviewers, leases 0-2, clock 0-6, delay 1 | `TypeOK`, `ColumnsAgree`, `OutcomesAreBacked`, `DisplacedOnlyWhenForfeit`, `TerminalIsFinal` | pass, 6 125 states |
| `board_chains` | 3 interchangeable tasks, 1 agent, clock 0-1 | `GatesCanLift`, `HandoffsAcyclic`, `SomeoneCanProceed`, `GateStandsUntilLifted` | pass, about 660 000 states |
| `board_rescue` | 2 tasks, 3 agents, others gone after clock 1 | `NothingStranded` | pass, 29 330 states |
| `ledger` | 1 task, 2 sessions, 2 reviewers, 2 transfers, 1 check generation, clock 0-3 | `LedgerTypeOK`, `WindowIffOwned`, `LapsesAreReal`, `RecoveredWorkIsProvable`, `WindowSurvivesLapse`, `CertifiesTheCheckedWindow`, `RefinesBoard` | pass, about 623 000 states |
| `delivery` | 3 directives, batches of 2, 2 faults, 1 restore, lagging clock allowed | `DeliveryTypeOK`, `PrunedIsRecorded`, `ServingIsReconciled`, `InboxFollowsDelivery`, `BacklogBounded`, `ImplementsContract`, `EveryDirectiveAnswered` | pass, 284 754 states |
| `worker_slot` | 2 runs, 2 directives, 2 faults | `SlotTypeOK`, `OneWorkerPerSlot`, `LeaseOutlivesWorker`, `MarkerRemovedWhenSettled`, `NoReplayIntoWorker`, `StoppedRunIsCleared` | pass, 448 041 states |
| `federated` | 3 sessions on 2 nodes, 2 of them of one agent, lease 1, clock 0-3, 3 events, the branch switched after the first instant | `FederatedTypeOK`, `HistoryRebuildsLease`, `CachedOwnerHeldClaim`, `WindowFollowsCustody`, `ClaimantServed` | pass, 1 196 324 states |
| `board_cap` | 2 tasks, 1 agent, cap 1 | `ClaimCapHolds` | violated |
| `ledger_hole` | as `ledger` | `HoledWindowNeverCertifies` | violated |
| `ledger_inherit` | as `ledger` | `FreshClaimInheritsNothing` | violated |
| `ledger_chain` | as `ledger` | `RecoveryChainResolves` | violated |
| `worker_terminate` | as `worker_slot` | `ForcedStopIsRecorded` | violated |

Bounds.  `MaxClock` is the only bound on a counter of the board.  With leases of
at most two, a grace of one and a clock of six, an owner can be claimed, lapse, be
displaced, park, outlive the grace and be displaced again.  The reviewers are the
two sessions themselves, so that a paused task has a recovery that nobody
independent can approve, which `DisplacedOnlyWhenForfeit` must exclude.  Three tasks are the
smallest chain in which a cycle is not direct and a middle task has both a
predecessor and a successor; the chain properties do not depend on time, so two
instants and a zero lease are enough to have live and lapsed claims.  In the
ledger a clock of three is enough for a claim to lapse, be taken again, be parked
and be resumed; two transfers are the shortest sequence that goes back to the
first owner.  `MaxChecks` limits when a check may begin, not when an outstanding
one records.  Stale clocks are in `board_claims` (delay one) and in the proofs
(any delay); the ledger run has none, because a second instant per call makes it
several times larger.

In `delivery` three directives are one more than a batch, so a delivery is full
while another directive waits, and two faults are enough for a frame of one
connection to be processed during the next and for the daemon to crash in between.
One restore is what an operator does; after it sequences are assigned a second
time.  In `worker_slot` two runs are the run in charge and the one that must not
start beside it, two directives are an assignment and one that refuses or
terminates, and two faults are, for example, a crash that orphans a worker and a
failure of the recovery.  In `federated` two sessions of one agent on different
nodes and one of another agent on the first node are the smallest set with both
kinds of sharing (a name, a cache); a lease of one second in a clock of three can
be granted, end, be taken over and be claimed back.  Three events, beside the
claimant's own claims, which are not counted, are two calls of competitors and a
fault: the shortest way to two windows that overlap.  One competitor may call one
second later than the others (`OneCallsLater`), since that overlap needs a claim
sampled between a claim and its repetition.

Deadlock is not checked in any run: with a bounded clock and every task terminal,
every directive answered or the runs used up, the system stops by design.

Fairness.  `BoardRescue` assumes weak fairness of the clock, and weak
fairness of `Take` and `Finish` of each task for the one agent that stays.  That
is the premise of the promise in `coordination/mod.rs` (a vanished owner can
never deadlock the task): time passes, and somebody polls and works.  Nothing is
assumed of the agents that leave; `in_review` and `blocked` wait for a human or
a predecessor and count as outcomes.  `FairDeliverySpec` assumes weak fairness
of the daemon's loop (`serve_once` and `run_session` never wait but for the network, and
every wait has a time-out) and of the server for the frames it has; issuing,
expiry, faults, copies and restores are not fair, and faults are finitely many.
`FairSlotSpec` assumes weak fairness of the daemon's own steps, which need nobody,
and of an operator who keeps confirming a stopped run after a fresh inspection;
no directive, exit or release has to succeed.  `FairFederatedSpec` assumes that
time passes, that the claimant keeps claiming and writes what it is told, and
that Ackplane works off the claimant's requests; the other sessions and the
requests nobody waits for promise nothing.  It is weak fairness of `ClaimantStep`
with `ClaimantBusy` written out for `ENABLED <<ClaimantStep>>_vars`; TLC compared
the two on 90 317 states and found them equal.

What the five violations show:

* `board_cap` - parked tasks do not count against the claim cap of ADR-0067 and
  neither resuming nor answering checks it, so pause, claim, resume exceeds it.
* `ledger_hole` - parking a lapsed claim and resuming it gives the window a new
  lease without a counted lapse, so a discontinuous window is certified aligned,
  against the comment in `verdict.rs` and the doc of `renew_lease`.
* `ledger_inherit` - the reach-back of evidence looks for a transfer to the owner
  anywhere in the task's history, so a later fresh claim by the same identity
  still inherits, against the doc of `authorising_window_start`.
* `ledger_chain` - after two sessions recovered the task from each other the same
  walk follows them in turn and does not return.
* `worker_terminate` - `dispatch` carries out a forced termination by killing the
  worker through the adapter, which forgets it; `finish` then asks the adapter to
  kill it again and gets `UnknownWorker`.  The session fails, and so does its
  clean-up, for the same reason: no terminal receipt, no stop record, no receipt
  for the directive, the lease kept until it expires, and a marker that recovery
  refuses to clear because there is no stop record.  No fault is needed.

The attempt to prove `RecoveredWorkIsProvable` showed that it has to allow for
stale clocks.  The comment on `authorising_window_start` says that the window that
authorised the work "always predates the recovery"; with three sessions and a
`now` one second old TLC finds a recovery that commits with an old `now`, opens a
window that starts before the one it interrupts, and is itself recovered.  The walk
keeps the start at the first link of the chain and not the least start, and misses
the rescued window by that second.  The property therefore says
`<= rescued[t] + MaxDelay`: what is lost is at most the time a call waited for the
write lock (the busy time-out is five seconds).  The run has no stale clocks, so
there it says what the comment says and cannot meet the reordering; only the
theorem covers every delay.

Disagreements met while modelling that have no run of their own:

* The heartbeat (`touch_lease`, called for every tool call that names a task)
  extends the cached lease of a federated claim without Ackplane, although
  ADR-0096 says the cached copy is "never written from a local decision" and
  that a lease "cannot be renewed or re-acquired without reaching Ackplane"; after
  the real lease ended, two nodes can both show a live claim.  `TouchLease` is in
  the model.
* A federated claim does not consult the local status, so a task that is done or
  blocked locally can be claimed again, and `block_task`, `reopen_task`,
  `abandon_task` and completion change the cached row without telling Ackplane
  (`SettleLocally`).  ADR-0096 asks the two to agree "bit for bit".
* Ackplane never returns a parked claim to the pool, where the local board does
  after the grace and decision 3 of ADR-0096 lets a task parked past its grace be
  claimed; `ClaimantServed` has that exception in its statement.
* `block_task` without a predecessor clears `blocked_by` of a gated task
  (`transitions.rs:54-62`) and `reopen_task` (`:97`) then opens it while its
  predecessor is in work.  The comments say that `reopen_task` "Refuses to bypass a
  handoff dependency" and that the task "opens when that predecessor completes", and
  the tool's definition (`lodestar-mcp/src/tools/executive/definitions.rs:12`) that
  "`blocked_by` keeps it unclaimable until that predecessor completes aligned".
  `GateStandsUntilLifted` names this way out; no operation opens a gated task in
  one step, or exchanges its gate for another predecessor's.
* `delegated_claims.branch` (`migrations/0005:9`, kept or overwritten by
  `lease.rs:102-106` and `recover.rs:64-68`) has no column in
  `delegated_claim_history` (`0005:18-32`; 0067 adds only `requested_node_id`), so
  the history does not rebuild the whole row, against "retained in the append-only
  history for later reconstruction" (`0005:2-3`) and ADR-0096, "the current lease is
  a projection".  `HistoryRebuildsLease` says what can be rebuilt: owner, node,
  window, lapses and parking.
* A release, renewal or park that is decided after its caller gave up on it rewinds
  the lease (`lease.rs:189-192`, `:281`, `park.rs:36`).  One session claims, its
  release times out, another's claim is sampled, the first claims again, the late
  release is decided, and the other is granted a window that starts inside the lease
  the first was told of.  `WindowFollowsCustody` makes that one exception.
* A claim that is granted after the supervisor gave up on it may leave a settled run,
  even one whose marker is gone, with the lease until it expires.  TLC reaches it: a
  late grant between the release and the removal in `confirm`.
  `MarkerRemovedWhenSettled` allows the run a lease that came that way and no other.
* An exhausted connection pool refuses a receipt for good
  (`directive_receipt.rs:190` maps every other store error to `Malformed`), and the
  refusal stops the daemon, although a retry would succeed.
* The applies of two sessions of one node are not ordered: a late release can
  clear the cached claim of the session that came after it, and a lost grant
  followed by a park and a resume leaves a row `claimed` by nobody.  Both are
  repaired by the next claim, which is what `ClaimantServed` shows.
* A voluntary release is counted as a lapse by the next `delegate`, because it is
  recorded as a lease that ended.
* A run that stopped before the server accepted any of its frames cannot be
  confirmed (`confirm` refuses an absent position), so `StoppedRunIsCleared` speaks
  of runs with a position.
* The comment on `enqueue_receipt` says that the server keys idempotency on the
  whole receipt; `receipt_digest` clears the outbox sequence first.  The model
  follows the code: a restored outbox may send one decision under two sequences
  and it is recorded once.

## 4. Proofs

The proofs use only the named assumptions `BoardAssumption`, `RescueAssumption`,
`LedgerAssumption`, `DeliveryAssumption`, `SlotAssumption` and
`FederatedAssumption`: the constants have their types, `None` is none of the other
values, and the identities of the evidence ledger are finitely many, since its walk
makes a round per identity.  The sets of tasks and nodes, and the agents everywhere
else, may be infinite, and the numbers of runs, directives, restores and faults,
the batch sizes and the delays are arbitrary.

Every safety invariant, action property and refinement that a passing run checks is
also a theorem.  Three of them seem to need induction over data (the length of a
chain, the rounds of a loop), which the provers do not have.  `InductionLemmas` gives what
replaces it: a set of naturals that is not empty has a least element
(`LeastElement`, from the well-foundedness of `<`), a bounded measure takes its
greatest value (`GreatestMeasure`), a function can be iterated (`IterationExists`,
`IterationStays`, `IterationUnique`), and a walk over a finite set stops within one
round per place or never (`WalkStopsEarly`, by the pigeonhole principle).  Each is
proved from a least counterexample.

*TaskBoard.*  None of the safety invariants is inductive alone.  The inductive
invariant `IInv` is their conjunction, `TypeOK`, `ColumnsAgree`, `GatesCanLift`
and `OutcomesAreBacked`, with `HandoffsLinear`: a task has at most one successor,
which the primary key of `task_handoffs` enforces.  `GatesCanLift` needs that to know that ending a task lifts every gate on it, and its own last conjunct to
know that the row being created, ended or blocked gates nobody who stays behind;
`OutcomesAreBacked` needs the type of the verdicts.  Rows are written by two constructors
(`Held`, `Unheld`), so most actions follow from `HeldWritten` and `UnheldWritten`;
`TaskEnded` covers the three that lift a gate.  From `IInv`:

* `BoardTypeCorrect`, `ColumnsAlwaysAgree`, `GatesAlwaysLift`,
  `OutcomesAlwaysBacked`: the invariants;
* `HandoffsStayAcyclic`: acyclicity is kept separately (`AcyclicKept`), by showing
  that the downstream set after adding an edge is contained in a closed set that
  does not hold the task;
* `ChainsNeverDeadlock`: of a gated task and the gated tasks it waits for, directly
  or through others, take one with the most tasks downstream; what it waits for has
  one more, so that one is not gated.  The measure is finite because finitely many
  tasks have ever got a predecessor (`FinitelyMany`), and grows along the chain
  because the handoffs are acyclic;
* `NoLiveOwnerDisplaced`, `GatesHold`, `TerminalStaysFinal`: the action
  properties, from one lemma on what a step can do to a row (`StepShape`).
  `GatesHold` is `GateStandsUntilLifted`, so the withdrawal by `block_task` is the
  only way to a gated task around its predecessor.

*BoardRescue.*  `RescueIsTheBoard`: every step of the agents that vanish and of the
one that stays is a step of the board, so the liveness run speaks of the board's
behaviours and the theorems above hold of them.

*EvidenceLedger.*  `LInv` adds to `IInv` the ledger's types, the absence of
handoffs, `WindowIffOwned`, `LapsesAreReal` and three facts about calls and
records: a claimed row without a live lease has its hole marked (`HolesMarked`);
an aligned record was made for a window with no lapse (`ChecksHonest`); and a
completion that is outstanding has a stored verdict, an earlier `now`, and, while
its agent still owns the task, a record whose token matches (`CallsHonest`).  The
last one is the heart of `OnlyTheCheckedWindowCertified`: the claim was validated
before the transaction, and an agent that is waiting for its own call cannot have
changed the window it owns.  `LedgerImplementsBoard` is the refinement, and
`LedgerTypeCorrect`, `WindowAlwaysIffOwned`, `LapsesAlwaysReal` and
`WindowsSurvive` follow from the same invariant.

`RecoveredWorkStaysProvable` rests on a second inductive invariant beside `LInv`:
`RecoveryInv` says that every recovery in the log interrupted a window
(`TransfersTimed`), that none of those windows starts more than `MaxDelay` after
the current one (`WindowsFollow`), and that while a recovered window is open its
recovery is in the log and none of the windows there starts more than `MaxDelay`
after the rescued one (`RescueLogged`).  From its first round on the walk stands at
a window of the log (`LatestIsLogged`: one recovery comes last in the sorted
history), so its result is early enough, whatever path it takes.  TLC checked
`RecoveryInv` first, with three sessions and a delay of one (699 732 states).
`WalkIsAlwaysTheLoop` justifies the bound in the model: the walk of one round per
identity ends exactly when the unbounded loop of `authorising_window_start` does,
and in the same state, because the holder it has reached determines the next.  So
the violation in `ledger_chain` is a loop that never returns, not a short bound.

*DirectiveDelivery.*  `DeliveryInv` (theorem `DeliveryInvariant`) says that the
ledger holds exactly the decisions of the first directives (`LedgerIsPrefix`), and
that what the daemon holds continues it: while it serves, the frames still queued,
the receipt in hand and the directives not read yet are the next ones, in this
order (`ServingContinues`).  A crash or a restored copy destroys that, and what is
left is `LogInOrder`: an enqueued receipt is recorded, the next to be recorded, or
the successor of the one enqueued before it, which is enough for the next resend
pass to record the rest in order (`ExchangeInOrder`).  The other conjuncts say that
every decision is the inbox's (`DecisionsAgree`), that the outbox and its copy lack
only a prefix (`OutboxIsTail`, `CopyIsOlder`), that what they lack is recorded and
accepted (`DeletedIsConfirmed`), that a frame on the wire is the log's and no
younger than the oldest one queued (`WireFollowsLog`), and that the accepted
position is in the log (`PositionInLog`).  None of the five properties of the run is
inductive, and neither is their conjunction.  TLC checked `DeliveryInv` first, on
the run's bounds and with four directives and two restores (542 238 states).  From
it: `DeliveryIsTyped`, `LedgerStaysPrefix`, `PrunedStaysRecorded`,
`ServingStaysReconciled`, `DeliveryNeverGaps`, `BacklogStaysBounded`, and the
refinement `DeliveryImplementsContract`, where every step but three is a stutter of
the contract.

*WorkerSlot.*  `OneWorkerPerSlot` is not inductive: that `Spawn` finds no other
worker depends on what the memory of the daemon knows about the marker at each
`pc`, and that recovery may remove a marker depends on what a stop record means.
The inductive invariant `SlotInv` (theorem `SlotInvariant`) adds to it and to
`SlotTypeOK` that runs not yet started are untouched, that a stop record implies a
stopped worker, and, per `pc`, which flags, marker and effect the process must
have.  A late decision (`LateDecisionKeeps`) can come at any of them, so `SlotInv`
cannot say that a settled run holds no lease, only that one it holds is a stray.
From it: `SlotTypeCorrect`, `SlotHasOneWorker` and the action properties
`SlotLeaseOutlivesWorker`, `SlotMarkerRemovedWhenSettled` and
`SlotNoReplayIntoWorker`, one lemma per action.

*FederatedClaim.*  `FederatedInv` (theorem `FederatedInvariant`) adds to the three
invariants of the run that the row's owner, and every owner told to a session, was
granted the task on that node (`RowWasGranted`, `ToldWasGranted`): a cached owner
comes from an answer, and an answer from the row; and that the row's lease runs at
least as long as its custodian was last told (`PromiseStands`).
`HistoryRebuildsLease` is inductive by itself given the types; what needs care is
that each of the six operations writes a different subset of the columns into its
line, and none of them the branch.  From it: `FederatedTypeCorrect`,
`FederatedHistoryRebuildsLease`, `FederatedCacheWasGranted`, and the action property
`FederatedWindows`: for any order of stale clock samples, a lease a custodian was
told of is ended early only by a request that custodian had given up on.

Only model-checked: `NothingStranded`, `EveryDirectiveAnswered`,
`StoppedRunIsCleared` and `ClaimantServed` (liveness under fairness, which the
installed provers do not support), and the five violations.

## 5. Not modelled

* **Conformance judgement and policy** (clauses, controls, waivers, packs,
  constitution, goals, amendments) - pure functions of policy rows; the models take
  the verdict as a free choice, which covers all of them, and keep a task's goal
  constant.  What is lost is the hazard that an amendment moves live tasks without
  an event.
* **Knowledge, decay, the MindLeak graph, ingestion, consolidation and
  maintenance** - floating-point weights decide what happens, and TLC has no
  reals; without the weights what remains is single inserts and deletes.
* **Designs, work commands, delegations, human decisions, evidence, telemetry,
  context and knowledge services** - one transaction per request on rows of their
  own, with a status column each; no two of them share state with the claim or
  directive protocols in a way a guard reads.
* **Event batches of node sync, enrolment, signatures, the companion** -
  cryptography and transport.  Their effect on the modelled protocols (lost, late,
  refused or timed-out calls) is in DirectiveDelivery and FederatedClaim.
* **Schema migrations, storage paths, the coordinator, MCP servers, the bridge,
  workctl, the editor extension and the scripts** - start-up, file, process, HTTP
  and argument handling with no state of their own that operations interleave on.
* Within the modelled components: several slots supervised by one process, the
  Work command a receipt may advance, lifecycle projections of a session, branches
  on the local board and scopes, question threads, `next_task`'s order.

## 6. Plan

Done: the task board and its evidence ledger; supervisor delivery against an
abstract contract; the worker slot with its recovery; federated claims; proofs of
every safety property, action property and refinement the runs check.  Next:

1. **A claim contract** - one abstract mutual-exclusion specification that both
   TaskBoard and Ackplane's side of FederatedClaim implement, checked in their runs
   and proved.
2. **When a recovery chain resolves** - a condition on who recovers from whom under
   which `WalkEnds` always holds, to set beside the violation in `ledger_chain`.
