----------------------------- MODULE WorkerSlot -----------------------------
(***************************************************************************)
(* One worker slot of the Ackplane supervisor daemon                       *)
(* (crates/ackplane-supervisor/src): the runs that use it one after        *)
(* another, the run marker that stands for the run in charge, the worker   *)
(* process, the task's lease at Ackplane, the run's outbox positions, and  *)
(* the operator's `recover confirm`.                                       *)
(*                                                                         *)
(* A run is one session of the daemon with a fresh supervisor id and fresh *)
(* queues: runs are numbered in the order they start.  Of an outbox only   *)
(* the number of frames, the acknowledged and the accepted position and    *)
(* the position of the terminal receipt are kept; DirectiveDelivery models *)
(* the frames on the wire.  A confirmation digest is determined, once the  *)
(* run has stopped, by the acknowledged position.                          *)
(*                                                                         *)
(* The supervisor may crash between any two of its commits, which leaves   *)
(* its worker running; a kill, a marker write, a spawn, a queue write, a   *)
(* release or an answer may fail; a shutdown request cancels whatever the  *)
(* daemon is awaiting.                                                     *)
(***************************************************************************)
EXTENDS Integers, FiniteSets

CONSTANTS
    MaxRuns,        \* bound on the runs started in the slot
    MaxDirectives,  \* bound on the directives of a run
    MaxFrames,      \* bound on the frames a run queues before it stops
                    \* taking directives
    MaxFaults,      \* bound on the faults of a behaviour
    Other,          \* another session that may own the task's lease
    None            \* no marker, no lease

ASSUME SlotAssumption ==
    /\ MaxRuns \in Nat
    /\ MaxDirectives \in Nat
    /\ MaxFrames \in Nat
    /\ MaxFaults \in Nat
    /\ Other \notin Int
    /\ None \notin Int
    /\ Other # None

Runs       == 1..MaxRuns
Directives == 1..MaxDirectives

VARIABLES
    \* per run, and what outlives it
    run,        \* the last run started
    proc,       \* its worker: none, live, exited (group alive) or stopped
    last,       \* its outbox: frames enqueued
    acked,      \* its outbox: frames acknowledged
    stop,       \* stopped_worker_run: sequence of the terminal receipt, or 0
    accepted,   \* supervisor_outbox_positions at the server, 0 if absent
    bad,        \* runs with a frame the server refuses for good
    done,       \* worker_recovery_events 'completed': <<run, digest>>
    marker,     \* <slot>.worker-run.json: the run it names, or None
    torn,       \* the marker is not (known to be) completely written
    claim,      \* owner of the task's lease at Ackplane
    late,       \* per run: claim requests it gave up on, not yet decided
    stray,      \* the run whose lease such a request brought, or None
    effect,     \* directive_effects of the current run
    reported,   \* directives of the current run with an enqueued receipt
    \* the memory of the process that holds the state directory
    pc,         \* where it is
    mode,       \* serving, stopping, failing or recovering
    job,        \* the directive being assigned, or the digest confirmed
    active,     \* WorkerRuntime.active: a worker to account for
    tracked,    \* the adapter's map holds the worker
    lease,      \* WorkerRuntime.lease
    finished,   \* WorkerRuntime.finished
    faults      \* faults so far

outboxVars == <<last, acked, stop, accepted, bad, done>>
fileVars   == <<marker, torn>>
leaseVars  == <<claim, late, stray>>
inboxVars  == <<effect, reported>>
flagVars   == <<active, tracked, lease, finished>>
slotVars   == <<run, proc, outboxVars, fileVars, leaseVars, inboxVars,
                pc, mode, job, flagVars, faults>>

Zero == [r \in Runs |-> 0]

Init ==
    /\ run = 0
    /\ proc = [r \in Runs |-> "none"]
    /\ last = Zero /\ acked = Zero /\ stop = Zero /\ accepted = Zero
    /\ bad = {} /\ done = {}
    /\ marker = None /\ torn = FALSE
    /\ claim = None /\ late = Zero /\ stray = None
    /\ effect = [d \in Directives |-> "none"] /\ reported = {}
    /\ pc = "down" /\ mode = "serving" /\ job = 0
    /\ active = FALSE /\ tracked = FALSE /\ lease = FALSE /\ finished = FALSE
    /\ faults = 0

Fault == faults < MaxFaults /\ faults' = faults + 1

\* A process that still runs, or may have left descendants running.
Alive(r) == proc[r] \in {"live", "exited"}

----------------------------------------------------------------------------
(* Shared pieces *)

\* enqueue_with_stop with no marker: one more frame.
Queue == last' = [last EXCEPT ![run] = @ + 1]

\* The receipt of the directive in hand is enqueued.
QueueReceipt == Queue /\ reported' = reported \cup {job}

\* What an owner-guarded release by run r leaves of the lease.
Released(r) == IF claim = r THEN None ELSE claim

\* Ackplane's row of the lease now names owner c.
LeaseIs(c) ==
    /\ claim' = c
    /\ stray' = IF c = claim THEN stray ELSE None
    /\ UNCHANGED late

\* The session is inside `acquire`: a claim request may be on its way.
Claiming == pc = "idle" /\ mode = "serving" /\ ~lease /\ ~active /\ ~finished

\* A claim request nobody waits for any longer; Ackplane still decides it.
GiveUpClaim == late' = [late EXCEPT ![run] = @ + 1]

\* The session is cut off, perhaps inside `acquire`.
CutOff == UNCHANGED late \/ (Claiming /\ GiveUpClaim)

\* `finish` starts by killing an active worker, and ends with the lease.
FinishAt == IF active THEN "kill" ELSE IF lease THEN "release" ELSE "idle"

\* Everything in memory is gone.
Forget ==
    /\ pc' = "down" /\ mode' = "serving" /\ job' = 0
    /\ active' = FALSE /\ tracked' = FALSE /\ lease' = FALSE
    /\ finished' = FALSE

\* The process ends in order: Drop kills a worker still tracked, if it can.
ExitDaemon ==
    /\ Forget
    /\ \/ proc' = proc
       \/ tracked /\ proc' = [proc EXCEPT ![run] = "stopped"]

\* A DaemonError: the session fails, and its own clean-up ends it.
Raise ==
    IF mode = "failing"
    THEN ExitDaemon
    ELSE /\ mode' = "failing" /\ finished' = TRUE
         /\ pc' = FinishAt
         /\ UNCHANGED <<proc, job, active, tracked, lease>>

----------------------------------------------------------------------------
(* Start-up and assignment *)

\* run and WorkerRuntime::new: refused while a marker exists.
Start ==
    /\ pc = "down" /\ marker = None /\ run < MaxRuns
    /\ run' = run + 1
    /\ pc' = "idle"
    /\ effect' = [d \in Directives |-> "none"] /\ reported' = {}
    /\ UNCHANGED <<proc, outboxVars, fileVars, leaseVars, mode, job, flagVars,
                   faults>>

\* A directive is dispatched, for the first time or, as long as Ackplane has
\* no receipt for it, again.
Takes == pc = "idle" /\ mode = "serving"

\* The bound on repeated deliveries.
Room == last[run] < MaxFrames

\* A directive that gets a receipt and no more: a notification, a
\* termination of a task that is not active, an assignment the session
\* cannot take.  `refuse` replays the stored effect of a directive it knows.
ReceiptOnly(d) ==
    /\ Takes /\ Room
    /\ effect' = [effect EXCEPT ![d] = IF @ = "none" THEN "refused" ELSE @]
    /\ Queue /\ reported' = reported \cup {d}
    /\ UNCHANGED <<run, proc, acked, stop, accepted, bad, done, fileVars,
                   leaseVars, pc, mode, job, flagVars, faults>>

\* acquire: the lease is granted and tracked.
Acquire(d) ==
    /\ Takes /\ Room
    /\ Claiming
    /\ claim \in {None, run}
    /\ claim' = run /\ stray' = None /\ lease' = TRUE
    /\ job' = d /\ pc' = "granted"
    /\ UNCHANGED <<run, proc, outboxVars, fileVars, inboxVars, late, mode,
                   active, tracked, finished, faults>>

\* The claim request times out: the directive is refused, and Ackplane may
\* decide the request at any later time, or never.
AcquireTimesOut(d) ==
    /\ Takes /\ Room
    /\ Claiming
    /\ Fault
    /\ GiveUpClaim
    /\ effect' = [effect EXCEPT ![d] = IF @ = "none" THEN "refused" ELSE @]
    /\ Queue /\ reported' = reported \cup {d}
    /\ UNCHANGED <<run, proc, acked, stop, accepted, bad, done, fileVars,
                   claim, stray, pc, mode, job, flagVars>>

\* The context packet does not come: release, then refuse.
ContextFails ==
    /\ pc = "granted"
    /\ Fault
    /\ effect' = [effect EXCEPT ![job] = IF @ = "none" THEN "refused" ELSE @]
    /\ pc' = "giveback"
    /\ UNCHANGED <<run, proc, outboxVars, fileVars, leaseVars, reported, mode,
                   job, flagVars>>

\* Mutant: a directive with a stored effect is carried out again.
ApplyAgain ==
    /\ pc = "granted"
    /\ effect' = [effect EXCEPT ![job] = "unconfirmed"]
    /\ pc' = "effect"
    /\ UNCHANGED <<run, proc, outboxVars, fileVars, leaseVars, reported, mode,
                   job, flagVars, faults>>

\* apply: a stored effect is returned as it is, and is not a success;
\* otherwise the effect is stored as unconfirmed before it is tried.
Apply ==
    /\ pc = "granted"
    /\ IF effect[job] = "none"
       THEN /\ effect' = [effect EXCEPT ![job] = "unconfirmed"]
            /\ pc' = "effect"
       ELSE pc' = "giveback" /\ UNCHANGED effect
    /\ UNCHANGED <<run, proc, outboxVars, fileVars, leaseVars, reported, mode,
                   job, flagVars, faults>>

\* create_new: an existing marker refuses the assignment.
CreateMarker ==
    /\ pc = "effect"
    /\ IF marker = None
       THEN /\ marker' = run /\ torn' = TRUE
            /\ pc' = "marked"
            /\ UNCHANGED effect
       ELSE /\ effect' = [effect EXCEPT ![job] = "refused"]
            /\ pc' = "giveback"
            /\ UNCHANGED fileVars
    /\ UNCHANGED <<run, proc, outboxVars, leaseVars, reported, mode, job,
                   flagVars, faults>>

\* write_all and sync_all.
SyncMarker ==
    /\ pc = "marked"
    /\ torn' = FALSE
    /\ pc' = "synced"
    /\ UNCHANGED <<run, proc, outboxVars, marker, leaseVars, inboxVars, mode,
                   job, flagVars, faults>>

\* The write fails: refused, and the file stays behind.
MarkerWriteFails ==
    /\ pc = "marked"
    /\ Fault
    /\ effect' = [effect EXCEPT ![job] = "refused"]
    /\ pc' = "giveback"
    /\ UNCHANGED <<run, proc, outboxVars, fileVars, leaseVars, reported, mode,
                   job, flagVars>>

\* ProcessWorkerAdapter::start, tracked before anything else is written.
Spawn ==
    /\ pc = "synced"
    /\ proc' = [proc EXCEPT ![run] = "live"]
    /\ active' = TRUE /\ tracked' = TRUE
    /\ pc' = "spawned"
    /\ UNCHANGED <<run, outboxVars, fileVars, leaseVars, inboxVars, mode, job,
                   lease, finished, faults>>

\* SpawnFailed: the marker is removed again.
SpawnFails ==
    /\ pc = "synced"
    /\ Fault
    /\ marker' = None
    /\ effect' = [effect EXCEPT ![job] = "refused"]
    /\ pc' = "giveback"
    /\ UNCHANGED <<run, proc, outboxVars, torn, leaseVars, reported, mode, job,
                   flagVars>>

\* The lease of an assignment that came to nothing, and then its receipt;
\* a release that fails stays tracked for the next `observe`.
GiveBack ==
    /\ pc = "giveback"
    /\ LeaseIs(Released(run)) /\ lease' = FALSE
    /\ QueueReceipt
    /\ pc' = "idle"
    /\ UNCHANGED <<run, proc, acked, stop, accepted, bad, done, fileVars,
                   effect, mode, job, active, tracked, finished, faults>>

GiveBackFails ==
    /\ pc = "giveback"
    /\ Fault
    /\ \E c \in {claim, Released(run)} : LeaseIs(c)
    /\ QueueReceipt
    /\ pc' = "idle"
    /\ UNCHANGED <<run, proc, acked, stop, accepted, bad, done, fileVars,
                   effect, mode, job, flagVars>>

\* The effect is stored as applied.
StoreApplied ==
    /\ pc = "spawned"
    /\ effect' = [effect EXCEPT ![job] = "applied"]
    /\ pc' = "started"
    /\ UNCHANGED <<run, proc, outboxVars, fileVars, leaseVars, reported, mode,
                   job, flagVars, faults>>

\* queue_use and queue_lifecycle, two transactions.
QueueStarted ==
    /\ pc \in {"started", "used"}
    /\ Queue
    /\ pc' = IF pc = "started" THEN "used" ELSE "assigned"
    /\ UNCHANGED <<run, proc, acked, stop, accepted, bad, done, fileVars,
                   leaseVars, inboxVars, mode, job, flagVars, faults>>

\* enqueue_receipt of the applied assignment.
QueueAssigned ==
    /\ pc = "assigned"
    /\ QueueReceipt
    /\ pc' = "idle"
    /\ UNCHANGED <<run, proc, acked, stop, accepted, bad, done, fileVars,
                   leaseVars, effect, mode, job, flagVars, faults>>

----------------------------------------------------------------------------
(* The end of a worker *)

\* observe: the worker exited, or its lease could not be renewed in time.
Observe ==
    /\ pc = "idle" /\ mode = "serving" /\ active
    /\ pc' = "kill"
    /\ UNCHANGED <<run, proc, outboxVars, fileVars, leaseVars, inboxVars, mode,
                   job, flagVars, faults>>

\* observe with no worker retries a release that could not be confirmed.
RetryRelease ==
    /\ pc = "idle" /\ ~active /\ lease
    /\ pc' = "release"
    /\ UNCHANGED <<run, proc, outboxVars, fileVars, leaseVars, inboxVars, mode,
                   job, flagVars, faults>>

\* A forced termination: the effect is the kill itself, which also stops
\* tracking the worker; then `finish` is called.
Terminate(d) ==
    /\ Takes /\ active /\ effect[d] = "none"
    /\ effect' = [effect EXCEPT ![d] = "applied"]
    /\ proc' = [proc EXCEPT ![run] = "stopped"]
    /\ tracked' = FALSE
    /\ job' = d /\ pc' = "kill"
    /\ UNCHANGED <<run, outboxVars, fileVars, leaseVars, reported, mode,
                   active, lease, finished, faults>>

\* Mutant: an exited worker's process group is taken to be gone.
KillUnlessExited ==
    /\ pc = "kill" /\ tracked
    /\ proc' = [proc EXCEPT ![run] = IF @ = "exited" THEN @ ELSE "stopped"]
    /\ tracked' = FALSE
    /\ pc' = "terminal"
    /\ UNCHANGED <<run, outboxVars, fileVars, leaseVars, inboxVars, mode, job,
                   active, lease, finished, faults>>

\* adapter.terminate: the group is killed and the worker untracked.
Kill ==
    /\ pc = "kill" /\ tracked
    /\ proc' = [proc EXCEPT ![run] = "stopped"]
    /\ tracked' = FALSE
    /\ pc' = "terminal"
    /\ UNCHANGED <<run, outboxVars, fileVars, leaseVars, inboxVars, mode, job,
                   active, lease, finished, faults>>

\* adapter.terminate of a worker no longer tracked: UnknownWorker.
KillUnknown ==
    /\ pc = "kill" /\ ~tracked
    /\ Raise
    /\ UNCHANGED <<run, outboxVars, fileVars, leaseVars, inboxVars, faults>>

\* queue_lifecycle: the terminal receipt and the stop record, together.
QueueTerminal ==
    /\ pc = "terminal"
    /\ Queue
    /\ stop' = [stop EXCEPT ![run] = last[run] + 1]
    /\ active' = FALSE /\ finished' = TRUE
    /\ pc' = IF lease THEN "release" ELSE "idle"
    /\ UNCHANGED <<run, proc, acked, accepted, bad, done, fileVars, leaseVars,
                   inboxVars, mode, job, tracked, lease, faults>>

Release ==
    /\ pc = "release"
    /\ LeaseIs(Released(run)) /\ lease' = FALSE
    /\ pc' = "idle"
    /\ UNCHANGED <<run, proc, outboxVars, fileVars, inboxVars, mode, job,
                   active, tracked, finished, faults>>

\* The release is not confirmed, whether or not it was carried out.
ReleaseFails ==
    /\ pc = "release"
    /\ Fault
    /\ \E c \in {claim, Released(run)} : LeaseIs(c)
    /\ pc' = "idle"
    /\ UNCHANGED <<run, proc, outboxVars, fileVars, inboxVars, mode, job,
                   flagVars>>

\* A path, a kill or a write to a queue fails: the session fails.
StepFails ==
    /\ pc \in {"granted", "giveback", "kill", "terminal", "spawned", "started",
               "used", "assigned"}
    /\ pc = "kill" => tracked
    /\ Fault
    /\ Raise
    /\ UNCHANGED <<run, outboxVars, fileVars, leaseVars, inboxVars>>

\* The clean-up of a failed session is over: no worker, no lease.
CleanedUp ==
    /\ pc = "idle" /\ mode = "failing" /\ ~active /\ ~lease
    /\ ExitDaemon
    /\ UNCHANGED <<run, outboxVars, fileVars, leaseVars, inboxVars, faults>>

\* Mutant: the last receipts are not waited for.
AcknowledgeEarly ==
    /\ pc = "idle" /\ mode # "failing"
    /\ finished /\ ~lease
    /\ marker' = IF proc[run] # "none" THEN None ELSE marker
    /\ ExitDaemon
    /\ UNCHANGED <<run, outboxVars, torn, leaseVars, inboxVars, faults>>

\* acknowledge_finished: the marker goes, if this run started a worker, and
\* the session is over.
AcknowledgeFinished ==
    /\ pc = "idle" /\ mode # "failing"
    /\ finished /\ ~lease /\ acked[run] = last[run]
    /\ marker' = IF proc[run] # "none" THEN None ELSE marker
    /\ ExitDaemon
    /\ UNCHANGED <<run, outboxVars, torn, leaseVars, inboxVars, faults>>

----------------------------------------------------------------------------
(* Receipt delivery *)

Holds(r) == \/ pc = "idle" /\ mode # "failing" /\ r = run
            \/ pc = "replay" /\ r = marker

\* Mutant: the answer acknowledges one frame more than was sent.
DeliverPast(r) ==
    /\ Holds(r) /\ acked[r] < last[r] /\ r \notin bad
    /\ acked' = [acked EXCEPT ![r] = @ + 2]
    /\ accepted' = [accepted EXCEPT ![r] = acked[r] + 1]
    /\ UNCHANGED <<run, proc, last, stop, bad, done, fileVars, leaseVars,
                   inboxVars, pc, mode, job, flagVars, faults>>

\* The server records the oldest pending frame of run r, and answers.
Deliver(r) ==
    /\ Holds(r) /\ acked[r] < last[r] /\ r \notin bad
    /\ acked' = [acked EXCEPT ![r] = @ + 1]
    /\ accepted' = [accepted EXCEPT ![r] = acked[r] + 1]
    /\ UNCHANGED <<run, proc, last, stop, bad, done, fileVars, leaseVars,
                   inboxVars, pc, mode, job, flagVars, faults>>

\* ... and the answer is lost: a reconnect, or the end of the recovery.
AnswerLost(r) ==
    /\ Holds(r) /\ acked[r] < last[r] /\ r \notin bad
    /\ Fault
    /\ accepted' = [accepted EXCEPT ![r] = acked[r] + 1]
    /\ IF pc = "replay"
       THEN Forget
       ELSE UNCHANGED <<pc, mode, job, flagVars>>
    /\ UNCHANGED <<run, proc, last, acked, stop, bad, done, fileVars,
                   leaseVars, inboxVars>>

\* A permanent refusal ends the session, or the recovery.
FrameRefused(r) ==
    /\ Holds(r) /\ acked[r] < last[r]
    /\ \/ r \in bad /\ UNCHANGED <<bad, faults>>
       \/ r \notin bad /\ Fault /\ bad' = bad \cup {r}
    /\ IF pc = "replay"
       THEN Forget /\ UNCHANGED proc
       ELSE Raise
    /\ UNCHANGED <<run, last, acked, stop, accepted, done, fileVars,
                   leaseVars, inboxVars>>

----------------------------------------------------------------------------
(* Shutdown and crashes *)

\* A stop signal cancels what the session awaits, a claim request included,
\* and runs `shutdown`.
StopRequested ==
    /\ mode = "serving" /\ pc \in {"idle", "granted", "giveback", "release"}
    /\ mode' = "stopping" /\ finished' = TRUE
    /\ pc' = FinishAt
    /\ CutOff
    /\ UNCHANGED <<run, proc, outboxVars, fileVars, claim, stray, inboxVars,
                   job, active, tracked, lease, faults>>

\* SLOT_SHUTDOWN_GRACE has passed.
Deadline ==
    /\ mode \in {"stopping", "failing"} /\ pc \in {"idle", "release"}
    /\ Fault
    /\ Raise
    /\ UNCHANGED <<run, outboxVars, fileVars, leaseVars, inboxVars>>

\* The supervisor or the recovery dies; a worker does not die with it.
Crash ==
    /\ pc # "down"
    /\ Fault
    /\ Forget
    /\ CutOff
    /\ UNCHANGED <<run, proc, outboxVars, fileVars, claim, stray, inboxVars>>

\* A worker's main process ends.
WorkerExits ==
    /\ \E r \in Runs : proc[r] = "live" /\ proc' = [proc EXCEPT ![r] = "exited"]
    /\ UNCHANGED <<run, outboxVars, fileVars, leaseVars, inboxVars, pc, mode,
                   job, flagVars, faults>>

\* Ackplane: a lease expires, or a release its caller gave up on is carried
\* out; another session takes or leaves the task.
LeaseMoves ==
    /\ \/ claim # None /\ LeaseIs(None)
       \/ claim = None /\ LeaseIs(Other)
    /\ UNCHANGED <<run, proc, outboxVars, fileVars, inboxVars, pc, mode, job,
                   flagVars, faults>>

\* Ackplane decides a claim request that run r gave up on: it grants a lease
\* nobody waits for when the task is free, and changes no owner otherwise.
LateDecision(r) ==
    /\ late[r] > 0
    /\ late' = [late EXCEPT ![r] = @ - 1]
    /\ IF claim = None
       THEN claim' = r /\ stray' = r
       ELSE UNCHANGED <<claim, stray>>
    /\ UNCHANGED <<run, proc, outboxVars, fileVars, inboxVars, pc, mode, job,
                   flagVars, faults>>

----------------------------------------------------------------------------
(* recover confirm *)

\* Mutant: a confirmation completed before is not resolved.
ConfirmAnew(d) ==
    /\ pc = "down" /\ marker # None /\ ~torn
    /\ stop[marker] > 0
    /\ <<marker, d>> \notin done
    /\ d = acked[marker]
    /\ pc' = "connect"
    /\ mode' = "recovering" /\ job' = d
    /\ UNCHANGED <<run, proc, outboxVars, fileVars, leaseVars, inboxVars,
                   flagVars, faults>>

\* Mutant: the stop record is not asked for.
ConfirmUnstopped(d) ==
    /\ pc = "down" /\ marker # None /\ ~torn
    /\ d = acked[marker]
    /\ pc' = "connect" /\ mode' = "recovering" /\ job' = d
    /\ UNCHANGED <<run, proc, outboxVars, fileVars, leaseVars, inboxVars,
                   flagVars, faults>>

\* confirm, under the state-directory lock: the marker must be readable and
\* its run have a stop record.  A confirmation completed before goes straight
\* to the marker; another must match the evidence as it is now.
Confirm(d) ==
    /\ pc = "down" /\ marker # None /\ ~torn
    /\ stop[marker] > 0
    /\ \/ /\ <<marker, d>> \in done
          /\ acked[marker] = last[marker]
          /\ pc' = "remove"
       \/ /\ <<marker, d>> \notin done
          /\ d = acked[marker]
          /\ pc' = "connect"
    /\ mode' = "recovering" /\ job' = d
    /\ UNCHANGED <<run, proc, outboxVars, fileVars, leaseVars, inboxVars,
                   flagVars, faults>>

\* Registration: the server's position must be known and in the interval.
ConfirmReconciles ==
    /\ pc = "connect"
    /\ IF accepted[marker] > 0 /\ accepted[marker] \in acked[marker]..last[marker]
       THEN pc' = "replay" /\ UNCHANGED <<mode, job, flagVars>>
       ELSE Forget
    /\ UNCHANGED <<run, proc, outboxVars, fileVars, leaseVars, inboxVars,
                   faults>>

\* Every frame is acknowledged: the recorded owner's lease is released.
ConfirmReleases ==
    /\ pc = "replay" /\ acked[marker] = last[marker]
    /\ LeaseIs(Released(marker))
    /\ pc' = "complete"
    /\ UNCHANGED <<run, proc, outboxVars, fileVars, inboxVars, mode, job,
                   flagVars, faults>>

ConfirmReleaseFails ==
    /\ pc = "replay" /\ acked[marker] = last[marker]
    /\ Fault
    /\ \E c \in {claim, Released(marker)} : LeaseIs(c)
    /\ Forget
    /\ UNCHANGED <<run, proc, outboxVars, fileVars, inboxVars>>

\* record_recovery_event 'completed'.
ConfirmCompletes ==
    /\ pc = "complete"
    /\ done' = done \cup {<<marker, job>>}
    /\ pc' = "remove"
    /\ UNCHANGED <<run, proc, last, acked, stop, accepted, bad, fileVars,
                   leaseVars, inboxVars, mode, job, flagVars, faults>>

\* remove_matching_marker.
ConfirmRemoves ==
    /\ pc = "remove"
    /\ marker' = None
    /\ Forget
    /\ UNCHANGED <<run, proc, outboxVars, torn, leaseVars, inboxVars, faults>>

----------------------------------------------------------------------------
(* The specification *)

AssignStep ==
    \/ \E d \in Directives :
          ReceiptOnly(d) \/ Acquire(d) \/ AcquireTimesOut(d) \/ Terminate(d)
    \/ ContextFails \/ Apply
    \/ CreateMarker \/ SyncMarker \/ MarkerWriteFails
    \/ Spawn \/ SpawnFails \/ GiveBack \/ GiveBackFails
    \/ StoreApplied \/ QueueStarted \/ QueueAssigned

\* The steps of the daemon that need nobody's directive.
CleanupStep ==
    \/ Observe /\ (Alive(run) => proc[run] = "exited")
    \/ Apply \/ CreateMarker \/ SyncMarker \/ Spawn \/ GiveBack
    \/ StoreApplied \/ QueueStarted \/ QueueAssigned
    \/ RetryRelease \/ Kill \/ KillUnknown \/ QueueTerminal \/ Release
    \/ CleanedUp \/ AcknowledgeFinished
    \/ \E r \in Runs : Deliver(r) \/ FrameRefused(r)

ConfirmStep ==
    \/ marker # None /\ Confirm(acked[marker])
    \/ ConfirmReconciles \/ ConfirmReleases \/ ConfirmCompletes
    \/ ConfirmRemoves
    \/ \E r \in Runs : pc = "replay" /\ Deliver(r)

Next ==
    \/ Start
    \/ AssignStep
    \/ Observe \/ RetryRelease \/ Kill \/ KillUnknown \/ QueueTerminal
    \/ Release \/ ReleaseFails \/ StepFails \/ CleanedUp
    \/ AcknowledgeFinished
    \/ \E r \in Runs : Deliver(r) \/ AnswerLost(r) \/ FrameRefused(r)
    \/ \E r \in 1..run : LateDecision(r)
    \/ StopRequested \/ Deadline \/ Crash \/ WorkerExits \/ LeaseMoves
    \/ marker # None /\ \E d \in 0..last[marker] : Confirm(d)
    \/ ConfirmReconciles \/ ConfirmReleases \/ ConfirmReleaseFails
    \/ ConfirmCompletes \/ ConfirmRemoves

SlotSpec == Init /\ [][Next]_slotVars

\* The daemon's own steps need nobody; the operator keeps confirming a run
\* that is waiting for recovery, each time with a fresh inspection.
FairSlotSpec ==
    SlotSpec /\ WF_slotVars(CleanupStep) /\ WF_slotVars(ConfirmStep)

----------------------------------------------------------------------------
(* Properties *)

\* The positions of the outboxes and of the server's view of them.
PositionsOK ==
    /\ last \in [Runs -> Nat]
    /\ acked \in [Runs -> Nat]
    /\ accepted \in [Runs -> Nat]
    /\ stop \in [Runs -> Nat]
    /\ \A r \in Runs : /\ acked[r] <= accepted[r] /\ accepted[r] <= last[r]
                       /\ stop[r] <= last[r]

\* What is kept on disk and at Ackplane besides.
StoreOK ==
    /\ run \in 0..MaxRuns
    /\ proc \in [Runs -> {"none", "live", "exited", "stopped"}]
    /\ bad \subseteq Runs
    /\ done \subseteq Runs \X Nat
    /\ marker \in Runs \cup {None}
    /\ torn \in BOOLEAN
    /\ claim \in Runs \cup {Other, None}
    /\ late \in [Runs -> Nat]
    /\ stray \in Runs \cup {None}
    /\ effect \in [Directives -> {"none", "unconfirmed", "applied", "refused"}]
    /\ reported \subseteq Directives

\* What is kept in memory.
MemoryOK ==
    /\ pc \in {"down", "idle", "granted", "effect", "marked", "synced",
               "spawned", "started", "used", "assigned", "giveback", "kill",
               "terminal", "release", "connect", "replay", "complete",
               "remove"}
    /\ mode \in {"serving", "stopping", "failing", "recovering"}
    /\ job \in Nat
    /\ active \in BOOLEAN /\ tracked \in BOOLEAN
    /\ lease \in BOOLEAN /\ finished \in BOOLEAN
    /\ faults \in 0..MaxFaults

\* Type invariant; positions never pass what was enqueued.
SlotTypeOK == PositionsOK /\ StoreOK /\ MemoryOK

\* A worker that runs, or whose descendants may, is the one the slot's
\* complete marker names; so a slot never has two, whatever crashed, was
\* replayed or was recovered in between (assign, run, confirm).
OneWorkerPerSlot ==
    \A r \in Runs : Alive(r) => marker = r /\ ~torn

\* A lease is given back only for a worker that is gone with its group:
\* nothing writes for the task once another session may claim it, expiry
\* and lost supervisors apart (finish, confirm).
LeaseOutlivesWorker ==
    [][\A r \in Runs :
          claim = r /\ claim' # r /\ pc' # pc => ~Alive(r)]_slotVars

\* The marker of a run that started a worker is removed only when the worker
\* was stopped on record, every receipt is in Ackplane's ledger, and the run
\* holds no lease but one that was granted behind its back, by a claim request
\* it had given up on (acknowledge_finished, remove_matching_marker).
MarkerRemovedWhenSettled ==
    [][\A r \in Runs :
          marker = r /\ marker' # r =>
             \/ proc[r] = "none"
             \/ /\ proc[r] = "stopped" /\ stop[r] > 0
                /\ accepted[r] = last[r]
                /\ claim = r => stray = r]_slotVars

\* No worker is started for a directive that already has a receipt, however
\* often the directive is delivered (apply, dispatch).
NoReplayIntoWorker ==
    [][\A r \in Runs :
          proc[r] = "none" /\ proc'[r] = "live" => job \notin reported]_slotVars

\* A stopped run of which Ackplane knows a position is cleared away in the
\* end, by its own session or by recovery, unless Ackplane refuses one of
\* its frames for good (run_session, confirm).
StoppedRunIsCleared ==
    \A r \in Runs :
        stop[r] > 0 /\ accepted[r] > 0 ~> marker # r \/ r \in bad

\* What ADR-0116 says of every termination: it has a durable receipt.  With
\* no fault at all, a worker its supervisor has stopped is on record when
\* the supervisor is gone (dispatch, finish).
ForcedStopIsRecorded ==
    \A r \in Runs :
        proc[r] = "stopped" /\ pc = "down" /\ faults = 0 => stop[r] > 0

=============================================================================
