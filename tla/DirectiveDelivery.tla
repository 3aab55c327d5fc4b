------------------------- MODULE DirectiveDelivery -------------------------
(***************************************************************************)
(* The control loop between Ackplane and one supervisor session: the       *)
(* server's directive ledger and supervisor positions                      *)
(* (crates/ackplane-server/src/directive_store, supervisor_store and       *)
(* service), and the supervisor's durable inbox and outbox with the daemon *)
(* loop that moves receipts between them (crates/ackplane-supervisor/src). *)
(*                                                                         *)
(* The daemon modelled is one without workers: its identity, and so its    *)
(* inbox and outbox, survive a restart, and a directive is decided by      *)
(* `receive` alone.  WorkerSlot models the daemon that runs workers.       *)
(*                                                                         *)
(* Connections drop at any moment and the process may crash between any    *)
(* two of its commits.  A frame already handed to the server outlives its  *)
(* connection: it may be processed later, interleaved with the frames of   *)
(* the next connection, or be lost.  The server commits a receipt and the  *)
(* accepted position separately.  While the daemon is off, its outbox may  *)
(* be replaced by an older copy of itself.                                 *)
(*                                                                         *)
(* A directive is its per-session sequence number.  A decision is a status *)
(* and whether its `occurred_at` lies before the directive's `created_at`, *)
(* which is all the server reads of it; identities, payloads and digests   *)
(* are left out, and so are heartbeats, which only refresh a timestamp.    *)
(***************************************************************************)
EXTENDS Integers, Sequences, FiniteSets, FiniteSetsExt, Functions

CONSTANTS
    MaxDirectives,  \* bound on the directives issued to the session
    DeliveryBatch,  \* MAX_DELIVERY_BATCH: directives per session frame
    ResendBatch,    \* MAX_RESEND_BATCH: frames per resend pass
    ClockBehind,    \* whether the supervisor's clock may lag the server's
    MaxFaults,      \* bound on drops, crashes and losses together
    MaxRestores,    \* bound on restored outbox copies
    None            \* SQL NULL: no position recorded

VARIABLES
    \* the server
    issued,         \* directive_stream_heads: the last sequence assigned
    expired,        \* the directives whose expires_at has passed
    receipts,       \* directive_receipts: <<sequence, decision>>
    accepted,       \* supervisor_outbox_positions.accepted_sequence
    known,          \* supervisor_sessions holds this session
    wire,           \* outbox frames the server has not finished with
    \* the supervisor's databases
    inbox,          \* directive_inbox: the decision of each sequence
    log,            \* what each outbox sequence was assigned to
    queued,         \* outbound_frames: the sequences still to be confirmed
    backup,         \* an older copy of the outbox
    \* the daemon's memory
    phase,          \* where serve_once is
    buf,            \* directives delivered on this connection, unread
    hand,           \* a receipt decided and not yet enqueued
    left,           \* frames left in this resend pass
    waiting,        \* the outbox sequence in exchange, 0 if none
    exit,           \* why the daemon gave up
    faults,         \* faults so far
    restores        \* restored copies so far

serverVars == <<issued, expired, receipts, accepted, known, wire>>
durableVars == <<inbox, log, queued, backup>>
memoryVars == <<phase, buf, hand, left, waiting, exit>>
boundVars == <<faults, restores>>
deliveryVars == <<serverVars, durableVars, memoryVars, boundVars>>

Decisions == [status : {"accepted", "expired"}, early : BOOLEAN]
Receipts  == (1..MaxDirectives) \X Decisions
Frames    == [seq : Nat \ {0}, receipt : Receipts,
              step : {"sent", "recorded", "answered", "refused"},
              live : BOOLEAN]

ASSUME DeliveryAssumption ==
    /\ MaxDirectives \in Nat
    /\ DeliveryBatch \in Nat \ {0}
    /\ ResendBatch \in Nat \ {0}
    /\ DeliveryBatch <= ResendBatch
    /\ ClockBehind \in BOOLEAN
    /\ MaxFaults \in Nat
    /\ MaxRestores \in Nat
    /\ None \notin Int
    /\ None \notin Receipts

Init ==
    /\ issued = 0 /\ expired = {} /\ receipts = {} /\ accepted = None
    /\ known = FALSE /\ wire = {}
    /\ inbox = << >> /\ log = << >> /\ queued = {}
    /\ backup = [last |-> 0, queued |-> {}]
    /\ phase = "off" /\ buf = << >> /\ hand = None /\ left = 0
    /\ waiting = 0 /\ exit = "none"
    /\ faults = 0 /\ restores = 0

----------------------------------------------------------------------------
(* Positions and batches *)

\* outbound_positions: acknowledgement deletes rows, so the acknowledged
\* position is the one below the oldest row, or the last when none is left.
Acknowledged == IF queued = {} THEN Len(log) ELSE Min(queued) - 1

\* reconcile: the server is outside the interval this outbox can replay.
IncompleteEvidence ==
    /\ accepted # None
    /\ accepted > Len(log) \/ accepted < Acknowledged

\* pending(MAX_RESEND_BATCH): how many frames the pass will send.
ResendPass == Min({ResendBatch, Cardinality(queued)})

\* pending_for_session: directives with no receipt, oldest first.
Unanswered == {n \in 1..issued : \A r \in receipts : r[1] # n}

\* Mutant: the newest directives instead of the oldest.
NewestPending ==
    LET k == Min({DeliveryBatch, Cardinality(Unanswered)})
    IN  {q \in [1..k -> Unanswered] :
            /\ \A i, j \in 1..k : i < j => q[i] < q[j]
            /\ \A m \in Unanswered : m \in Range(q) \/ m < q[1]}

\* Mutant: a directive once delivered is not delivered again.
DeliveredOnce ==
    LET fresh == {n \in Unanswered : n > Len(inbox)}
        k == Min({DeliveryBatch, Cardinality(fresh)})
    IN  {q \in [1..k -> fresh] :
            /\ \A i, j \in 1..k : i < j => q[i] < q[j]
            /\ \A m \in fresh : m \in Range(q) \/ m > q[k]}

\* The one sequence the query returns for these rows.
PendingForSession ==
    LET k == Min({DeliveryBatch, Cardinality(Unanswered)})
    IN  {q \in [1..k -> Unanswered] :
            /\ \A i, j \in 1..k : i < j => q[i] < q[j]
            /\ \A m \in Unanswered : m \in Range(q) \/ m > q[k]}

\* One of the bounded number of faults.
Fault == faults < MaxFaults /\ faults' = faults + 1

----------------------------------------------------------------------------
(* Issuing directives *)

\* enqueue_in_transaction: the stream head is locked, so sequences are
\* dense and commit in order.  The target session must be known.
Issue ==
    /\ known
    /\ issued < MaxDirectives
    /\ issued' = issued + 1
    /\ UNCHANGED <<expired, receipts, accepted, known, wire,
                   durableVars, memoryVars, boundVars>>

\* expires_at passes.
Expire(n) ==
    /\ n \in 1..issued
    /\ n \notin expired
    /\ expired' = expired \cup {n}
    /\ UNCHANGED <<issued, receipts, accepted, known, wire,
                   durableVars, memoryVars, boundVars>>

----------------------------------------------------------------------------
(* The daemon *)

\* What is left of the wire when the connection is gone: the server may
\* still be working on a frame, but nobody reads its answer.
Orphaned == {[f EXCEPT !.live = FALSE] :
                f \in {g \in wire : g.step \in {"sent", "recorded"}}}

\* The connection's buffers and the pass in progress are dropped.
HangUp ==
    /\ phase' = "off"
    /\ buf' = << >>
    /\ left' = 0
    /\ waiting' = 0
    /\ wire' = Orphaned

\* Mutant: the session is announced before the pending frames are resent.
RegisterThenPoll ==
    /\ phase = "off" /\ exit = "none"
    /\ ~IncompleteEvidence
    /\ known' = TRUE
    /\ buf' \in PendingForSession
    /\ phase' = "serve"
    /\ UNCHANGED <<issued, expired, receipts, accepted, wire, durableVars,
                   hand, left, waiting, exit, boundVars>>

\* serve_once connects, registers, and reconciles its positions with the
\* one the registration's receipt reports; then the resend pass begins.
Register ==
    /\ phase = "off" /\ exit = "none"
    /\ ~IncompleteEvidence
    /\ phase' = "resend"
    /\ left' = ResendPass
    /\ UNCHANGED <<serverVars, durableVars, buf, hand, waiting, exit,
                   boundVars>>

\* IncompleteEvidence: reported, and the daemon stops for an operator.
Strand ==
    /\ phase = "off" /\ exit = "none"
    /\ IncompleteEvidence
    /\ exit' = "incomplete"
    /\ UNCHANGED <<serverVars, durableVars, phase, buf, hand, left, waiting,
                   boundVars>>

\* resend_pending sends the oldest frame and waits for its receipt.
SendFrame ==
    /\ phase = "resend" /\ left > 0 /\ waiting = 0
    /\ LET s == Min(queued)
       IN  /\ waiting' = s
           /\ wire' = wire \cup {[seq |-> s, receipt |-> log[s],
                                  step |-> "sent", live |-> TRUE]}
    /\ UNCHANGED <<issued, expired, receipts, accepted, known, durableVars,
                   phase, buf, hand, left, exit, boundVars>>

\* Mutant: the frame is pruned when the exchange ends, answered or not.
PruneUnanswered ==
    /\ waiting > 0
    /\ ~\E f \in wire : f.live /\ f.step = "refused"
    /\ queued' = queued \ (1..waiting)
    /\ left' = left - 1
    /\ waiting' = 0
    /\ wire' = {[f EXCEPT !.live = FALSE] : f \in wire}
    /\ UNCHANGED <<issued, expired, receipts, accepted, known, inbox, log,
                   backup, phase, buf, hand, exit, boundVars>>

\* The receipt arrives: acknowledge_through deletes the frame.
ReadAck ==
    /\ waiting > 0
    /\ \E f \in wire :
          /\ f.live /\ f.step = "answered"
          /\ wire' = wire \ {f}
    /\ queued' = queued \ (1..waiting)
    /\ left' = left - 1
    /\ waiting' = 0
    /\ UNCHANGED <<issued, expired, receipts, accepted, known, inbox, log,
                   backup, phase, buf, hand, exit, boundVars>>

\* A permanent rejection: RejectedFrame ends the daemon and the frame stays
\* queued.
ReadRejection ==
    /\ \E f \in wire : f.live /\ f.step = "refused"
    /\ HangUp
    /\ exit' = "rejected"
    /\ UNCHANGED <<issued, expired, receipts, accepted, known, durableVars,
                   hand, boundVars>>

\* No answer within the exchange's deadline: Disconnected.
Timeout ==
    /\ waiting > 0
    /\ ~\E f \in wire : f.live
    /\ HangUp
    /\ UNCHANGED <<issued, expired, receipts, accepted, known, durableVars,
                   hand, exit, boundVars>>

\* The session frame, once a resend pass is over: the server records the
\* session and sends the pending directives ahead of the frame's receipt, or
\* none when the query for them failed.
Poll ==
    /\ phase = "resend" /\ left = 0 /\ waiting = 0
    /\ known' = TRUE
    /\ \/ buf' \in PendingForSession /\ UNCHANGED faults
       \/ buf' = << >> /\ Fault
    /\ phase' = "serve"
    /\ UNCHANGED <<issued, expired, receipts, accepted, wire, durableVars,
                   hand, left, waiting, exit, restores>>

\* What the inbox may decide for a directive it has not seen.
Decide(n) ==
    {d \in Decisions :
        /\ d.status = IF n \in expired THEN "expired" ELSE "accepted"
        /\ d.early => ClockBehind}

\* Mutant: a redelivered directive is decided again.
ReceiveAgain ==
    /\ phase = "serve" /\ hand = None /\ buf # << >>
    /\ LET n == Head(buf)
       IN  \E d \in Decide(n) :
              /\ hand' = <<n, d>>
              /\ inbox' = IF n = Len(inbox) + 1 THEN Append(inbox, d)
                          ELSE [inbox EXCEPT ![n] = d]
    /\ buf' = Tail(buf)
    /\ UNCHANGED <<serverVars, log, queued, backup, phase, left, waiting,
                   exit, boundVars>>

\* dispatch: `receive` replays the stored decision of a directive it knows
\* and decides the next one in sequence; InboxFollowsDelivery shows that no
\* delivery leaves a gap, which `receive` would refuse.
Receive ==
    /\ phase = "serve" /\ hand = None /\ buf # << >>
    /\ LET n == Head(buf)
       IN  \/ /\ n \in DOMAIN inbox
              /\ hand' = <<n, inbox[n]>>
              /\ UNCHANGED inbox
           \/ /\ n = Len(inbox) + 1
              /\ \E d \in Decide(n) :
                    /\ hand' = <<n, d>>
                    /\ inbox' = Append(inbox, d)
    /\ buf' = Tail(buf)
    /\ UNCHANGED <<serverVars, log, queued, backup, phase, left, waiting,
                   exit, boundVars>>

\* Mutant: the frame is stored and the last sequence is not advanced.
EnqueueUnrecorded ==
    /\ hand # None /\ phase = "serve"
    /\ queued' = queued \cup {Len(log) + 1}
    /\ hand' = None
    /\ UNCHANGED <<serverVars, inbox, log, backup, phase, buf, left, waiting,
                   exit, boundVars>>

\* enqueue_receipt: the next sequence is allocated, stamped and stored.
Enqueue ==
    /\ hand # None /\ phase = "serve"
    /\ log' = Append(log, hand)
    /\ queued' = queued \cup {Len(log) + 1}
    /\ hand' = None
    /\ UNCHANGED <<serverVars, inbox, backup, phase, buf, left, waiting,
                   exit, boundVars>>

\* Every delivered directive is receipted: the next resend pass.
Served ==
    /\ phase = "serve" /\ hand = None /\ buf = << >>
    /\ phase' = "resend"
    /\ left' = ResendPass
    /\ UNCHANGED <<serverVars, durableVars, buf, hand, waiting, exit,
                   boundVars>>

----------------------------------------------------------------------------
(* The server's handling of one outbox frame *)

Become(f, step) ==
    wire' = IF f.live \/ step = "recorded"
            THEN (wire \ {f}) \cup {[f EXCEPT !.step = step]}
            ELSE wire \ {f}

\* record_receipt commits the receipt, or finds it by its digest, which
\* leaves the outbox sequence out.
ServerRecord(f) ==
    /\ f.step = "sent" /\ ~f.receipt[2].early
    /\ receipts' = receipts \cup {f.receipt}
    /\ Become(f, "recorded")
    /\ UNCHANGED <<issued, expired, accepted, known, durableVars,
                   memoryVars, boundVars>>

\* validate_receipt refuses a decision older than its directive, for good.
ServerRefuse(f) ==
    /\ f.step = "sent" /\ f.receipt[2].early
    /\ Become(f, "refused")
    /\ UNCHANGED <<issued, expired, receipts, accepted, known, durableVars,
                   memoryVars, boundVars>>

\* Mutant: the declared position is stored as it is, not if greater.
ServerOverwrite(f) ==
    /\ f.step = "recorded"
    /\ accepted' = f.seq
    /\ Become(f, "answered")
    /\ UNCHANGED <<issued, expired, receipts, known, durableVars,
                   memoryVars, boundVars>>

\* record_outbox_sequence, a transaction of its own: upward only.
ServerAdvance(f) ==
    /\ f.step = "recorded"
    /\ accepted' = IF accepted = None \/ accepted < f.seq THEN f.seq
                   ELSE accepted
    /\ Become(f, "answered")
    /\ UNCHANGED <<issued, expired, receipts, known, durableVars,
                   memoryVars, boundVars>>

----------------------------------------------------------------------------
(* Faults *)

\* The server, or its database, fails in the middle of a frame: what it
\* committed stays, and the frame is never answered.
ServerLose(f) ==
    /\ f.step \in {"sent", "recorded"}
    /\ Fault
    /\ wire' = wire \ {f}
    /\ UNCHANGED <<issued, expired, receipts, accepted, known, durableVars,
                   memoryVars, restores>>

\* The ledger's pool has no connection to give, or a stored row does not
\* decode: like an early decision, the receipt is refused for good
\* (`_ => Malformed`), and nothing of it is stored.
ServerExhausted(f) ==
    /\ f.step = "sent"
    /\ Fault
    /\ Become(f, "refused")
    /\ UNCHANGED <<issued, expired, receipts, accepted, known, durableVars,
                   memoryVars, restores>>

\* The connection drops; any exchange in progress is unanswered, although
\* the server may have recorded the session.
Disconnect ==
    /\ phase = "resend"
    /\ Fault
    /\ HangUp
    /\ known' \in {known, known \/ (left = 0 /\ waiting = 0)}
    /\ UNCHANGED <<issued, expired, receipts, accepted, durableVars,
                   hand, exit, restores>>

\* The process dies between two commits and is started again.
Crash ==
    /\ phase # "off"
    /\ Fault
    /\ HangUp
    /\ hand' = None
    /\ UNCHANGED <<issued, expired, receipts, accepted, known, durableVars,
                   exit, restores>>

\* A copy of the outbox is kept.
Copy ==
    /\ phase = "off" /\ restores < MaxRestores
    /\ backup' = [last |-> Len(log), queued |-> queued]
    /\ backup' # backup
    /\ UNCHANGED <<serverVars, inbox, log, queued, memoryVars, boundVars>>

\* The outbox is replaced by the kept copy; the connections of the daemon
\* that wrote the newer one are long gone.
Restore ==
    /\ phase = "off" /\ wire = {} /\ restores < MaxRestores
    /\ log' = SubSeq(log, 1, backup.last)
    /\ queued' = backup.queued
    /\ restores' = restores + 1
    /\ UNCHANGED <<serverVars, inbox, backup, memoryVars, faults>>

----------------------------------------------------------------------------
(* The specification *)

DaemonStep ==
    \/ Register \/ Strand
    \/ SendFrame \/ ReadAck \/ ReadRejection \/ Timeout
    \/ Poll \/ Receive \/ Enqueue \/ Served

ServerStep == \E f \in wire : ServerRecord(f) \/ ServerRefuse(f) \/ ServerAdvance(f)

Environment ==
    \/ Issue
    \/ \E n \in 1..MaxDirectives : Expire(n)
    \/ \E f \in wire : ServerLose(f) \/ ServerExhausted(f)
    \/ Disconnect \/ Crash \/ Copy \/ Restore

Next == DaemonStep \/ ServerStep \/ Environment

DeliverySpec == Init /\ [][Next]_deliveryVars

\* The daemon's loop is never blocked but on the network, and the server
\* works on every frame it has; faults are finitely many (MaxFaults).
FairDeliverySpec ==
    DeliverySpec /\ WF_deliveryVars(DaemonStep) /\ WF_deliveryVars(ServerStep)

----------------------------------------------------------------------------
(* Properties *)

\* Type invariant.
DeliveryTypeOK ==
    /\ issued \in 0..MaxDirectives
    /\ expired \subseteq 1..MaxDirectives
    /\ receipts \subseteq Receipts
    /\ accepted \in Nat \cup {None}
    /\ known \in BOOLEAN
    /\ wire \subseteq Frames
    /\ inbox \in Seq(Decisions)
    /\ log \in Seq(Receipts)
    /\ queued \subseteq 1..Len(log)
    /\ backup.last \in Nat
    /\ backup.queued \subseteq 1..backup.last
    /\ phase \in {"off", "resend", "serve"}
    /\ buf \in Seq(1..MaxDirectives)
    /\ hand \in Receipts \cup {None}
    /\ left \in 0..ResendBatch
    /\ waiting \in Nat
    /\ exit \in {"none", "incomplete", "rejected"}
    /\ faults \in 0..MaxFaults
    /\ restores \in 0..MaxRestores

\* A frame the outbox has pruned is in the server's ledger: neither a lost
\* or late answer, a crash nor a restored copy ever drops the only record
\* of a decision (resend_pending, acknowledge_through).
PrunedIsRecorded ==
    \A s \in 1..Len(log) : s \notin queued => log[s] \in receipts

\* While the daemon serves, the position the server would report lies in
\* the interval the outbox can replay, whatever frames of earlier
\* connections the server is still working through; so a daemon stops with
\* IncompleteEvidence only after its outbox was replaced (reconcile,
\* record_outbox_sequence).
ServingIsReconciled ==
    /\ phase # "off" => ~IncompleteEvidence
    /\ exit = "incomplete" => restores > 0

\* What a session frame delivers continues the inbox without a gap, so
\* `receive` never answers SequenceGap, the error that would end the daemon
\* (pending_for_session, receive).
InboxFollowsDelivery ==
    \A i \in 1..Len(buf) : buf[i] <= Len(inbox) + i

\* The outbox never owes more than one delivery batch, although nothing
\* limits it: every backlog is sent before the next batch is asked for.
BacklogBounded == Cardinality(queued) <= DeliveryBatch

\* Ackplane's ledger, seen through the queues, is the contract's ledger:
\* each decision recorded once, in order, and never a second one.
Contract == INSTANCE DirectiveContract WITH
    decided <- inbox, recorded <- receipts
ImplementsContract == Contract!ContractSpec

\* Again and again the ledger answers every directive issued so far, or the
\* daemon has stopped for an operator, however the connection behaved.
EveryDirectiveAnswered == []<>(Unanswered = {} \/ exit # "none")

=============================================================================
