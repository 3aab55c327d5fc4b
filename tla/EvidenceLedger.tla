--------------------------- MODULE EvidenceLedger ---------------------------
(***************************************************************************)
(* The evidence window of a claim, on top of TaskBoard: `claim_started_at`,*)
(* the two views of the task event log that conformance depends on         *)
(* (store/events.rs claim_window_on, store/claim_transfer.rs               *)
(* claim_transfer_history) and the two-call check/complete protocol of     *)
(* facade/conformance.                                                     *)
(*                                                                         *)
(* Every transition appends an event with its after-image in the same      *)
(* transaction, so the log itself is not a variable: `lapses` and          *)
(* `transfers` are the state its readers' loops have reached after every   *)
(* event appended so far.                                                  *)
(*                                                                         *)
(* check_conformance and complete_task read the task first and write in a  *)
(* later transaction (a model may be consulted in between), so each is two *)
(* actions.  An agent has one call outstanding at a time; other agents run *)
(* in between.  Tasks here are outside handoff chains.                     *)
(***************************************************************************)
EXTENDS TaskBoard, Sequences

CONSTANTS
    MaxChecks,      \* bound on the records at which a new check may begin
    MaxTransfers    \* bound on recoveries per task

\* The walk over the recoveries makes a round per identity, so there are
\* finitely many.
ASSUME LedgerAssumption ==
    /\ MaxChecks \in Nat
    /\ MaxTransfers \in Nat
    /\ IsFiniteSet(Agents)

VARIABLES
    started,        \* claim_started_at of each row
    lapses,         \* claim_window_on(t).lapses
    transfers,      \* logged_transfers(t), in log order
    checks,         \* the conformance records of t with their tokens' basis
    pending,        \* the outstanding read-then-write call of each agent
    hole,           \* history: the current window was at some time unleased
    rescued         \* history: the window start a recovery interrupted, or None

ledgerVars == <<started, lapses, transfers, checks, pending>>
history == <<hole, rescued>>
vars == <<boardVars, ledgerVars, history>>

\* A transfer names the identity it took from, the window it interrupted and the
\* `now` of the recovery (transferred_at).
Transfer == [from : Agents, to : Agents, start : Nat \cup {None}, at : Nat]

\* A conformance record: evidence.agent_id, the verdict, and the claim part of
\* the token basis (owner, claim_started_at, lapses).
Check == [agent : Agents, verdict : Judged, start : Nat \cup {None}, lapses : Nat]

\* A call that has read the task and not yet written: what it will write.
Call == [op : {"check", "complete"}, task : Tasks, start : Nat \cup {None},
         verdict : Judged \cup {None}, now : Nat \cup {None}]

LedgerInit ==
    /\ Init
    /\ started = [t \in Tasks |-> None]
    /\ lapses = [t \in Tasks |-> 0]
    /\ transfers = [t \in Tasks |-> <<>>]
    /\ checks = [t \in Tasks |-> <<>>]
    /\ pending = [a \in Agents |-> None]
    /\ hole = [t \in Tasks |-> FALSE]
    /\ rescued = [t \in Tasks |-> None]

Idle(a) == pending[a] = None

----------------------------------------------------------------------------
(* What one appended event does to the window (the loop of claim_window_on) *)

\* A claimed row without a live lease.
Unleased(row, at) == row.status = "claimed" /\ row.lease < at

\* Mutant: every claim event of the same window is counted as a lapse.
RecordAlways(t, kind, st, now) ==
    LET same == <<task'[t].owner, st>> = <<task[t].owner, started[t]>> IN
    /\ started' = [started EXCEPT ![t] = st]
    /\ lapses' = [lapses EXCEPT ![t] =
                     IF ~ same THEN 0 ELSE IF kind = "claimed" THEN @ + 1 ELSE @]
    /\ hole' = [hole EXCEPT ![t] = (same /\ @) \/ Unleased(task'[t], clock)]
    /\ rescued' = [rescued EXCEPT ![t] =
                     IF same THEN @
                     ELSE IF kind = "claim_recovered" THEN started[t] ELSE None]

\* The event's after-image has start `st` and the owner just written; the
\* previous event's lease is the lease the row had.
Record(t, kind, st, now) ==
    LET same == <<task'[t].owner, st>> = <<task[t].owner, started[t]>>
        lapsed == /\ kind = "claimed"
                  /\ task[t].lease # None
                  /\ task[t].lease < now
    IN
    /\ started' = [started EXCEPT ![t] = st]
    /\ lapses' = [lapses EXCEPT ![t] =
                     IF ~ same THEN 0 ELSE IF lapsed THEN @ + 1 ELSE @]
    /\ hole' = [hole EXCEPT ![t] = (same /\ @) \/ Unleased(task'[t], clock)]
    /\ rescued' = [rescued EXCEPT ![t] =
                     IF same THEN @
                     ELSE IF kind = "claim_recovered" THEN started[t] ELSE None]

\* A step that records an event and leaves the rest of the ledger alone.
Logged(t, kind, st, now) ==
    /\ Record(t, kind, st, now)
    /\ UNCHANGED <<transfers, checks, pending>>

\* Time passes: a claimed task whose lease is now behind the clock is unleased.
LedgerTick ==
    /\ Tick
    /\ hole' = [t \in Tasks |-> hole[t] \/ Unleased(task[t], clock')]
    /\ UNCHANGED <<ledgerVars, rescued>>

----------------------------------------------------------------------------
(* The board's transitions with the window columns they write *)

\* Mutant: every claim opens a fresh window.
ClaimedAfresh(t, a, now) == now

\* claim_started_at survives a re-claim by the owner of a claimed row only.
ClaimedStart(t, a, now) ==
    IF task[t].status = "claimed" /\ task[t].owner = a THEN started[t] ELSE now

LedgerClaim(t, a, now) ==
    \E len \in Leases : /\ ClaimTask(t, a, len, now)
                        /\ Logged(t, "claimed", ClaimedStart(t, a, now), now)

LedgerRenew(t, a, now) ==
    /\ \E len \in Leases : RenewLease(t, a, len, now) \/ TouchLease(t, a, len, now)
    /\ Logged(t, "lease_renewed", started[t], now)

\* Mutant: release forgets to close the window.
LedgerReleaseOpen(t, a, now) ==
    ReleaseTask(t, a) /\ Logged(t, "released", started[t], now)

LedgerRelease(t, a, now) ==
    ReleaseTask(t, a) /\ Logged(t, "released", None, now)

\* Parking keeps the owner and the window (ADR-0020).
LedgerPark(t, a, now) ==
    /\ AskQuestion(t, a, now) \/ PauseTask(t, a, now)
    /\ Logged(t, "parked", started[t], now)

LedgerResume(t, a, now) ==
    /\ \E len \in Leases : ResumeTask(t, a, len, now)
    /\ Logged(t, "resumed", started[t], now)

LedgerAnswer(t, now) ==
    /\ \E len \in Leases : AnswerQuestion(t, len, now)
    /\ Logged(t, "answered", started[t], now)

\* recover_claim_authorized opens a fresh window; the event names the owner it
\* took from, and logged_transfers reads the interrupted window from the
\* after-image before it.
LedgerRecover(t, a, now) ==
    \E from \in Agents, by \in Reviewers \cup {None}, len \in Leases :
        /\ Len(transfers[t]) < MaxTransfers
        /\ RecoverClaim(t, from, a, by, len, now)
        /\ Record(t, "claim_recovered", now, now)
        /\ transfers' = [transfers EXCEPT ![t] =
               Append(@, [from |-> from, to |-> a,
                          start |-> started[t], at |-> now])]
        /\ UNCHANGED <<checks, pending>>

\* Creation and every transition that ends ownership clear claim_started_at.
LedgerUnheld(t, now) ==
    /\ \/ CreateTask(t)
       \/ BlockTask(t)
       \/ ReopenTask(t)
       \/ AbandonTask(t, now)
    /\ Logged(t, "unheld", None, now)

\* resolve_task: the label must differ from the agent of the latest record.
LedgerResolve(t, now) ==
    /\ \E by \in Reviewers :
           checks[t] # <<>> => by # checks[t][Len(checks[t])].agent
    /\ ResolveInReview(t)
    /\ Logged(t, "resolved", None, now)

----------------------------------------------------------------------------
(* How far back evidence may reach (authorising_window_start) *)

TransfersTo(t, holder) == {i \in 1..Len(transfers[t]) : transfers[t][i].to = holder}

\* claim_transfer_history sorts by transferred_at, which the caller sampled
\* before its transaction; the sort is stable, so equal times keep log order.
LatestTransferTo(t, holder) ==
    LET log == transfers[t]
        NotAfter(j, i) == log[j].at < log[i].at \/ (log[j].at = log[i].at /\ j <= i)
    IN  log[CHOOSE i \in TransfersTo(t, holder) :
                \A j \in TransfersTo(t, holder) : NotAfter(j, i)]

\* Mutant: the walk never leaves the owner's own window.
WalkNowhere(t, owner) ==
    [n \in 0..Cardinality(Agents) |-> [holder |-> None, earliest |-> started[t]]]

\* One round of the loop: from the holder reached to the identity it took the
\* task from, and the window that recovery interrupted.
WalkHop(t, w) ==
    IF TransfersTo(t, w.holder) = {} THEN w
    ELSE LET x == LatestTransferTo(t, w.holder) IN
         [holder |-> x.from,
          earliest |-> IF x.start # None THEN x.start ELSE w.earliest]

\* The walk after n rounds of its loop: the holder it has reached and the
\* earliest window start it has seen.
Walk(t, owner) ==
    LET hop[n \in 0..Cardinality(Agents)] ==
            IF n = 0 THEN [holder |-> owner, earliest |-> started[t]]
            ELSE WalkHop(t, hop[n - 1])
    IN  hop

\* The next holder depends on the current one only, so a walk that has not
\* ended after one round per identity never ends.
WalkEnds(t, owner) ==
    TransfersTo(t, Walk(t, owner)[Cardinality(Agents)].holder) = {}

\* The earliest evidence validate_claim_evidence accepts from the owner.
EvidenceFloor(t, owner) ==
    LET earliest == Walk(t, owner)[Cardinality(Agents)].earliest
    IN  IF earliest < started[t] THEN earliest ELSE started[t]

----------------------------------------------------------------------------
(* check_conformance and complete_task *)

\* validate_claim_evidence returns Ok for evidence inside the window.
ValidClaim(t, a, now) ==
    /\ task[t].status = "claimed"
    /\ task[t].owner = a
    /\ task[t].lease >= now
    /\ WalkEnds(t, a)

\* check_conformance up to the judgement: the task row is read and validated.
CheckBegin(t, a, now) ==
    /\ Len(checks[t]) < MaxChecks
    /\ ValidClaim(t, a, now)
    /\ pending' = [pending EXCEPT ![a] =
                      [op |-> "check", task |-> t, start |-> started[t],
                       verdict |-> None, now |-> None]]
    /\ UNCHANGED <<boardVars, started, lapses, transfers, checks, history>>

\* Mutant: a discontinuous window is not capped.
VerdictUncapped(t, v) == TRUE

\* evaluate_conformance: a window with a counted lapse is capped at needs_human
\* unless the judgement was worse.
VerdictAllowed(t, v) == v = "aligned" => lapses[t] = 0

\* Mutant: the record is stored without the agent that was judged.
CheckRecordUnsigned(t, a) ==
    /\ pending[a] # None
    /\ pending[a].op = "check" /\ pending[a].task = t
    /\ \E v \in Judged :
           /\ VerdictAllowed(t, v)
           /\ checks' = [checks EXCEPT ![t] =
                  Append(@, [agent |-> None, verdict |-> v,
                             start |-> pending[a].start, lapses |-> lapses[t]])]
           /\ verdicts' = [verdicts EXCEPT ![t] = @ \cup {v}]
    /\ pending' = [pending EXCEPT ![a] = None]
    /\ UNCHANGED <<clock, task, pred, started, lapses, transfers, history>>

\* The judgement is in: the record is stored, and its token is made from the
\* row read at the beginning and the lapses counted now.  The lapses are read
\* for the verdict and again for the token; in between only the owner itself,
\* who is busy with this call, could add one.
CheckRecord(t, a) ==
    /\ pending[a] # None
    /\ pending[a].op = "check" /\ pending[a].task = t
    /\ \E v \in Judged :
           /\ VerdictAllowed(t, v)
           /\ checks' = [checks EXCEPT ![t] =
                  Append(@, [agent |-> a, verdict |-> v,
                             start |-> pending[a].start, lapses |-> lapses[t]])]
           /\ verdicts' = [verdicts EXCEPT ![t] = @ \cup {v}]
    /\ pending' = [pending EXCEPT ![a] = None]
    /\ UNCHANGED <<clock, task, pred, started, lapses, transfers, history>>

\* The recomputed token equals the one the record was issued with.
TokenMatches(t, a, c) ==
    c.agent = a /\ c.start = started[t] /\ c.lapses = lapses[t]

\* complete_task up to its transaction: validation against the row as read.
CompleteBegin(t, a, now) ==
    /\ ValidClaim(t, a, now)
    /\ \E i \in 1..Len(checks[t]) :
           /\ TokenMatches(t, a, checks[t][i])
           /\ pending' = [pending EXCEPT ![a] =
                             [op |-> "complete", task |-> t, start |-> None,
                              verdict |-> checks[t][i].verdict, now |-> now]]
    /\ UNCHANGED <<boardVars, started, lapses, transfers, checks, history>>

\* Mutant: the transaction trusts the row that was validated before.
CompleteStale(t, a) ==
    /\ pending[a] # None
    /\ pending[a].op = "complete" /\ pending[a].task = t
    /\ Put(t, Unheld(TargetStatus(pending[a].verdict), task[t].parked, None))
    /\ Record(t, "conformance_recorded", None, pending[a].now)
    /\ pending' = [pending EXCEPT ![a] = None]
    /\ UNCHANGED <<clock, pred, verdicts, transfers, checks>>

\* transition_with_checked_conformance, with the `now` sampled at the beginning.
CompleteCommit(t, a) ==
    /\ pending[a] # None
    /\ pending[a].op = "complete" /\ pending[a].task = t
    /\ CompleteTask(t, a, pending[a].verdict, pending[a].now)
    /\ Record(t, "conformance_recorded", None, pending[a].now)
    /\ pending' = [pending EXCEPT ![a] = None]
    /\ UNCHANGED <<transfers, checks>>

\* The compare-and-swap found the claim changed: the call fails.
CompleteRefused(t, a) ==
    /\ pending[a] # None
    /\ pending[a].op = "complete" /\ pending[a].task = t
    /\ ~ HoldsLive(task[t], a, pending[a].now)
    /\ pending' = [pending EXCEPT ![a] = None]
    /\ UNCHANGED <<boardVars, started, lapses, transfers, checks, history>>

----------------------------------------------------------------------------

LedgerAgentStep(t, a, now) ==
    \/ /\ Idle(a)
       /\ \/ LedgerClaim(t, a, now)
          \/ LedgerRenew(t, a, now)
          \/ LedgerRelease(t, a, now)
          \/ LedgerPark(t, a, now)
          \/ LedgerResume(t, a, now)
          \/ LedgerRecover(t, a, now)
          \/ CheckBegin(t, a, now)
          \/ CompleteBegin(t, a, now)
    \/ CheckRecord(t, a)
    \/ CompleteCommit(t, a)
    \/ CompleteRefused(t, a)

LedgerNext ==
    \/ LedgerTick
    \/ \E t \in Tasks, now \in Sampled :
           \/ LedgerAnswer(t, now)
           \/ LedgerUnheld(t, now)
           \/ LedgerResolve(t, now)
           \/ \E a \in Agents : LedgerAgentStep(t, a, now)

LedgerSpec == LedgerInit /\ [][LedgerNext]_vars

----------------------------------------------------------------------------
(* Properties *)

LedgerTypeOK ==
    /\ TypeOK
    /\ started \in [Tasks -> Nat \cup {None}]
    /\ lapses \in [Tasks -> Nat]
    /\ transfers \in [Tasks -> Seq(Transfer)]
    /\ checks \in [Tasks -> Seq(Check)]
    /\ pending \in [Agents -> Call \cup {None}]
    /\ hole \in [Tasks -> BOOLEAN]
    /\ rescued \in [Tasks -> Nat \cup {None}]

\* A window is open exactly while somebody owns the task, and it never starts
\* in the future: claim, park, answer, recover and every clearing transition
\* agree on claim_started_at.
WindowIffOwned ==
    \A t \in Tasks :
        /\ started[t] # None <=> task[t].owner # None
        /\ started[t] # None => started[t] <= clock

\* The log never accuses falsely: a counted lapse means the current window
\* really was unleased for a while (claim_window_on).
LapsesAreReal == \A t \in Tasks : lapses[t] > 0 => hole[t]

\* The window survives a lapse (ADR-0048): while the same owner keeps a task
\* claimed, whatever re-claims and renewals happen, its start never moves.
WindowSurvivesLapse ==
    [][\A t \in Tasks :
        /\ task[t].status = "claimed" /\ task'[t].status = "claimed"
        /\ task[t].owner = task'[t].owner
        => started'[t] = started[t]]_vars

\* A task is certified only for the window that was checked: the step that
\* makes it done under its claim has an aligned record of the same owner, the
\* same window start and the same number of lapses, although the claim was
\* validated some time before the transaction (ADR-0048 decision 5).
CertifiesTheCheckedWindow ==
    [][\A t \in Tasks :
        task[t].status = "claimed" /\ task'[t].status = "done" =>
            \E i \in 1..Len(checks[t]) :
                /\ checks[t][i].verdict = "aligned"
                /\ TokenMatches(t, task[t].owner, checks[t][i])
                /\ lapses[t] = 0]_vars

\* Recovery rescues the work already done: the owner of a recovered window may
\* submit evidence from the start of the window that was interrupted, however
\* often the task was recovered, parked and claimed before.  A call that waited
\* MaxDelay for the write lock opens a window that much before the one it
\* interrupts, and the walk, which ends at the first link of the chain rather
\* than at the earliest window, may miss that much of the work.
RecoveredWorkIsProvable ==
    \A t \in Tasks :
        task[t].status = "claimed" /\ rescued[t] # None
            /\ WalkEnds(t, task[t].owner)
        => EvidenceFloor(t, task[t].owner) <= rescued[t] + MaxDelay

\* The ledger implements the task board: whatever the calls outstanding between
\* a read and a write, every step that touches the tasks table is one of the
\* board's transactions or leaves it alone.
RefinesBoard == Spec

\* ADR-0048 decision 3, "A discontinuous window cannot certify itself": when
\* complete_task accepts an aligned check, the window it certifies has never
\* been unleased.
HoledWindowNeverCertifies ==
    [][\A a \in Agents :
        /\ Idle(a) /\ pending'[a] # None
        /\ pending'[a].op = "complete" /\ pending'[a].verdict = "aligned"
        => ~ hole[pending'[a].task]]_vars

\* claim_transfer.rs: an identity "that took it by a fresh claim rather than a
\* recovery" inherits nothing: its evidence starts with its own window.
FreshClaimInheritsNothing ==
    \A t \in Tasks :
        task[t].status = "claimed" /\ rescued[t] = None
            /\ WalkEnds(t, task[t].owner)
        => EvidenceFloor(t, task[t].owner) = started[t]

\* claim_transfer.rs: "a chain of recoveries resolves to the window that
\* started the work", so the walk over it ends for every owner.
RecoveryChainResolves ==
    \A t \in Tasks : task[t].status = "claimed" => WalkEnds(t, task[t].owner)

=============================================================================
