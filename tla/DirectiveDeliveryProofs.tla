---------------------- MODULE DirectiveDeliveryProofs ----------------------
(***************************************************************************)
(* Proofs about DirectiveDelivery, for every number of directives, every   *)
(* batch size and every number of faults and restored copies.              *)
(*                                                                         *)
(* The ledger always holds the receipts of the first directives, and what  *)
(* the daemon holds continues it: the frames still queued, the receipt in  *)
(* hand and the directives of the batch not read yet are, in this order,   *)
(* the next directives.  The invariant says so while the daemon serves;    *)
(* the weaker LogInOrder is what a crash or a restored copy leaves of it,  *)
(* and is enough for the next resend pass to record them in order again.   *)
(***************************************************************************)
EXTENDS DirectiveDelivery, TLAPS, FiniteSetTheorems, SequenceTheorems,
        InductionLemmas

\* How many receipts the ledger holds, how many frames the outbox owes, and
\* whether a receipt waits to be enqueued.
Answered == Cardinality(receipts)
Owed     == Cardinality(queued)
InHand   == IF hand = None THEN 0 ELSE 1

\* S is what is left of 1..n when a prefix is deleted.
UpperPart(S, n) ==
    /\ IsFiniteSet(S)
    /\ Cardinality(S) <= n
    /\ S \subseteq 1..n
    /\ \A s \in 1..n : s \in S <=> s > n - Cardinality(S)

\* The receipt carries the decision the inbox holds.
FromInbox(r) == r[1] \in 1..Len(inbox) /\ r[2] = inbox[r[1]]

\* The session decides only what was issued, and whatever it has enqueued
\* or is about to enqueue is its stored decision.
DecisionsAgree ==
    /\ Len(inbox) <= issued
    /\ \A s \in 1..Len(log) : FromInbox(log[s])
    /\ hand # None => FromInbox(hand)

\* The ledger holds the decisions of the first directives.
LedgerIsPrefix ==
    /\ IsFiniteSet(receipts)
    /\ Answered <= Len(inbox)
    /\ \A r \in receipts : FromInbox(r) /\ r[1] <= Answered
    /\ \A n \in 1..Answered : <<n, inbox[n]>> \in receipts

\* An enqueued receipt is recorded, the next to be recorded, or the
\* successor of the receipt enqueued before it.
LogInOrder ==
    \A s \in 1..Len(log) :
        log[s][1] <= Answered + 1 \/ (s > 1 /\ log[s][1] = log[s - 1][1] + 1)

\* Only the oldest frames have been deleted, and a batch at most is left.
OutboxIsTail ==
    /\ UpperPart(queued, Len(log))
    /\ Owed <= DeliveryBatch

\* The kept copy is an earlier state of this very outbox.
CopyIsOlder ==
    /\ backup.last <= Len(log)
    /\ UpperPart(backup.queued, backup.last)
    /\ Cardinality(backup.queued) <= DeliveryBatch

\* The server has recorded this frame and accepted its position.
Confirmed(s) == log[s] \in receipts /\ accepted # None /\ s <= accepted

\* A frame deleted from the outbox, or missing in its copy, is confirmed.
DeletedIsConfirmed ==
    /\ \A s \in 1..Len(log) : s \notin queued => Confirmed(s)
    /\ \A s \in 1..backup.last : s \notin backup.queued => Confirmed(s)

\* A frame on the wire is the outbox's, no younger than the oldest one
\* queued, and as far as its step says.
FrameInOrder(f) ==
    /\ f.seq <= Len(log) /\ f.receipt = log[f.seq]
    /\ \A s \in queued : f.seq <= s
    /\ phase = "serve" => f.seq \notin queued
    /\ f.step \in {"recorded", "answered"} => f.receipt \in receipts
    /\ f.step \in {"answered", "refused"} => f.live
    /\ f.step = "answered" => accepted # None /\ f.seq <= accepted
    /\ f.live => f.seq = waiting

WireFollowsLog ==
    /\ \A f \in wire : FrameInOrder(f)
    /\ \A f, g \in wire : f.live /\ g.live => f = g

\* A frame is exchanged only within a resend pass, oldest first, and the
\* pass goes on until nothing is owed.
ExchangeInOrder ==
    /\ waiting > 0 =>
          phase = "resend" /\ waiting \in queued /\ \A s \in queued : waiting <= s
    /\ left = IF phase = "resend" THEN Owed ELSE 0
    /\ phase # "serve" => hand = None /\ buf = << >>

\* While serving, the queue, the hand and the buffer continue the ledger.
ServingContinues ==
    phase = "serve" =>
        /\ \A s \in queued : log[s][1] = Answered + Owed - (Len(log) - s)
        /\ hand # None => hand[1] = Answered + Owed + 1
        /\ \A i \in 1..Len(buf) : /\ buf[i] = Answered + Owed + InHand + i
                                  /\ buf[i] <= issued
        /\ Owed + InHand + Len(buf) <= DeliveryBatch
        /\ Answered + Owed + InHand <= Len(inbox)

\* The accepted position is in the log, or the daemon has not connected
\* since a copy was restored.
PositionInLog ==
    /\ \/ accepted # None => accepted <= Len(log)
       \/ wire = {} /\ phase = "off" /\ restores > 0
    /\ exit = "incomplete" => restores > 0

DeliveryInv ==
    /\ DeliveryTypeOK
    /\ DecisionsAgree
    /\ LedgerIsPrefix
    /\ LogInOrder
    /\ OutboxIsTail
    /\ CopyIsOlder
    /\ DeletedIsConfirmed
    /\ WireFollowsLog
    /\ ExchangeInOrder
    /\ ServingContinues
    /\ PositionInLog

----------------------------------------------------------------------------
(* Numbers, intervals and records *)

\* Min is the least element of a set of naturals that is not empty.
LEMMA LeastOf ==
    ASSUME NEW S, S \subseteq Nat, S # {}
    PROVE  Min(S) \in S /\ \A y \in S : Min(S) <= y
<1>1. PICK x \in S : \A y \in S : x <= y
  BY LeastElement
<1> QED
  BY <1>1 DEF Min

\* The lesser of two numbers.
LEMMA MinOfTwo ==
    ASSUME NEW a \in Nat, NEW b \in Nat
    PROVE  Min({a, b}) = IF a <= b THEN a ELSE b
BY LeastOf

\* Appending to the outbox and deleting its oldest frame keep it a tail.
LEMMA GrowUpperPart ==
    ASSUME NEW S, NEW n \in Nat, UpperPart(S, n)
    PROVE  /\ UpperPart(S \cup {n + 1}, n + 1)
           /\ Cardinality(S \cup {n + 1}) = Cardinality(S) + 1
<1>1. Cardinality(S) \in Nat
  BY FS_CardinalityType DEF UpperPart
<1>2. n + 1 \notin S
  BY <1>1 DEF UpperPart
<1>3. /\ IsFiniteSet(S \cup {n + 1})
      /\ Cardinality(S \cup {n + 1}) = Cardinality(S) + 1
  BY <1>2, FS_AddElement DEF UpperPart
<1> DEFINE T == S \cup {n + 1}
<1>4. T \subseteq 1..(n + 1)
  BY DEF UpperPart
<1>5. \A s \in 1..(n + 1) : s \in T <=> s > (n + 1) - Cardinality(T)
  BY <1>1, <1>3 DEF UpperPart
<1> QED
  BY <1>1, <1>3, <1>4, <1>5 DEF UpperPart

LEMMA ShrinkUpperPart ==
    ASSUME NEW S, NEW n \in Nat, UpperPart(S, n),
           NEW w \in S, \A s \in S : w <= s, w \in Nat \ {0}
    PROVE  /\ UpperPart(S \ (1..w), n)
           /\ Cardinality(S \ (1..w)) = Cardinality(S) - 1
           /\ S \ (1..w) = S \ {w}
<1>1. Cardinality(S) \in Nat
  BY FS_CardinalityType DEF UpperPart
<1>2. S \ (1..w) = S \ {w} /\ w = n - Cardinality(S) + 1
  BY <1>1 DEF UpperPart
<1>3. IsFiniteSet(S \ {w}) /\ Cardinality(S \ {w}) = Cardinality(S) - 1
  BY FS_RemoveElement DEF UpperPart
<1>4. \A s \in 1..n : s \in S \ {w} <=> s > n - Cardinality(S \ {w})
  BY <1>1, <1>2, <1>3 DEF UpperPart
<1>5. UpperPart(S \ {w}, n)
  BY <1>1, <1>3, <1>4 DEF UpperPart
<1> QED
  BY <1>2, <1>3, <1>5

\* A tail is empty exactly when it counts nothing, and then all is deleted.
LEMMA UpperPartFacts ==
    ASSUME NEW S, NEW n \in Nat, UpperPart(S, n)
    PROVE  /\ Cardinality(S) \in Nat
           /\ S = {} <=> Cardinality(S) = 0
BY FS_CardinalityType, FS_EmptySet DEF UpperPart

\* The empty outbox.
LEMMA EmptyUpperPart ==
    ASSUME NEW n \in Nat
    PROVE  UpperPart({}, n) /\ Cardinality({}) = 0
BY FS_EmptySet DEF UpperPart

----------------------------------------------------------------------------
(* What the invariant says of the counts and of a delivery *)

\* The counts are natural numbers.
LEMMA Counts ==
    ASSUME DeliveryTypeOK, LedgerIsPrefix, OutboxIsTail
    PROVE  /\ Answered \in Nat /\ Owed \in Nat /\ InHand \in {0, 1}
           /\ Len(inbox) \in Nat /\ Len(log) \in Nat /\ Len(buf) \in Nat
           /\ issued \in Nat
           /\ queued = {} <=> Owed = 0
<1>1. Len(inbox) \in Nat /\ Len(log) \in Nat /\ Len(buf) \in Nat
  BY LenProperties DEF DeliveryTypeOK
<1>2. Answered \in Nat
  BY FS_CardinalityType DEF LedgerIsPrefix, Answered
<1>3. Owed \in Nat /\ (queued = {} <=> Owed = 0)
  BY <1>1, UpperPartFacts DEF OutboxIsTail, Owed
<1> QED
  BY <1>1, <1>2, <1>3 DEF InHand, DeliveryTypeOK

\* The directives without a receipt are those after the ledger's last one.
LEMMA UnansweredFollow ==
    ASSUME DeliveryTypeOK, DecisionsAgree, LedgerIsPrefix, OutboxIsTail
    PROVE  /\ Unanswered = {n \in 1..issued : n > Answered}
           /\ Cardinality(Unanswered) \in Nat
<1>1. \A n \in 1..issued : n > Answered <=> \A r \in receipts : r[1] # n
  <2> SUFFICES ASSUME NEW n \in 1..issued
               PROVE  n > Answered <=> \A r \in receipts : r[1] # n
    OBVIOUS
  <2>1. CASE n > Answered
    BY <2>1, Counts DEF LedgerIsPrefix, FromInbox
  <2>2. CASE n <= Answered
    <3>1. <<n, inbox[n]>> \in receipts
      BY <2>2, Counts DEF LedgerIsPrefix
    <3> QED
      BY <2>2, <3>1, Counts
  <2> QED
    BY <2>1, <2>2, Counts
<1>2. IsFiniteSet(1..issued)
  BY Counts, FS_Interval
<1>3. IsFiniteSet(Unanswered)
  BY <1>2, FS_Subset DEF Unanswered
<1> QED
  BY <1>1, <1>3, FS_CardinalityType DEF Unanswered

\* A delivery is the next directives, in order and without a gap, and at
\* most a batch of them.
LEMMA DeliveryContinues ==
    ASSUME DeliveryTypeOK, DecisionsAgree, LedgerIsPrefix, OutboxIsTail,
           NEW q \in PendingForSession
    PROVE  /\ q \in Seq(1..MaxDirectives)
           /\ Len(q) <= DeliveryBatch
           /\ \A i \in 1..Len(q) : q[i] = Answered + i /\ q[i] <= issued
<1> DEFINE k == Min({DeliveryBatch, Cardinality(Unanswered)})
<1>1. k \in Nat /\ k <= DeliveryBatch
  BY UnansweredFollow, MinOfTwo, DeliveryAssumption
<1>2. /\ q \in [1..k -> Unanswered]
      /\ \A i, j \in 1..k : i < j => q[i] < q[j]
      /\ \A m \in Unanswered : m \in Range(q) \/ m > q[k]
  BY DEF PendingForSession
<1> HIDE DEF k
<1>3. q \in Seq(Unanswered) /\ Len(q) = k
  BY <1>1, <1>2
<1>4. Unanswered \subseteq 1..MaxDirectives /\ \A n \in Unanswered : n \in Nat
  BY DeliveryAssumption DEF Unanswered, DeliveryTypeOK
<1> DEFINE bad == {i \in 1..k : q[i] # Answered + i}
<1>5. ASSUME bad # {}
      PROVE  FALSE
  <2> DEFINE i == Min(bad)
  <2>1. i \in bad /\ \A j \in bad : i <= j
    BY <1>1, <1>5, LeastOf
  <2> HIDE DEF i
  <2>2. i \in 1..k /\ q[i] # Answered + i
    BY <2>1
  <2>3. \A j \in 1..k : j < i => q[j] = Answered + j
    BY <2>1, <1>1
  <2>4. q[i] \in 1..issued /\ q[i] > Answered
    BY <1>2, <2>2, UnansweredFollow
  <2>5. q[i] > Answered + i
    <3>1. CASE i = 1
      BY <3>1, <2>2, <2>4, Counts
    <3>2. CASE i > 1
      <4>1. i - 1 \in 1..k /\ i - 1 < i
        BY <3>2, <2>2, <1>1
      <4>2. q[i - 1] = Answered + (i - 1) /\ q[i - 1] < q[i]
        BY <4>1, <1>2, <2>2, <2>3
      <4> QED
        BY <4>2, <2>2, <2>4, Counts
    <3> QED
      BY <3>1, <3>2, <2>2
  <2> DEFINE m == Answered + i
  <2>6. m \in Unanswered
    BY <2>2, <2>4, <2>5, Counts, UnansweredFollow
  <2>7. ASSUME NEW j \in 1..k
        PROVE  q[j] # m
    <3>1. CASE j < i
      BY <3>1, <2>2, <2>3, Counts
    <3>2. CASE j = i
      BY <3>2, <2>2
    <3>3. CASE i < j
      <4>1. q[i] < q[j] /\ q[j] \in Nat
        BY <3>3, <1>2, <2>2, <1>4
      <4> QED
        BY <4>1, <2>2, <2>4, <2>5, Counts
    <3> QED
      BY <3>1, <3>2, <3>3, <2>2
  <2>8. m \notin Range(q)
    BY <2>7, <1>2 DEF Range
  <2>9. m > q[k]
    BY <2>6, <2>8, <1>2
  <2>10. k \in 1..k /\ (k = i \/ i < k)
    BY <1>1, <2>2
  <2>11. q[k] \in Nat /\ (k = i \/ q[i] < q[k])
    BY <1>2, <1>4, <2>2, <2>10
  <2> QED
    BY <2>9, <2>11, <2>2, <2>4, <2>5, Counts
<1>6. \A i \in 1..k : q[i] = Answered + i /\ q[i] <= issued
  BY <1>2, <1>5 DEF Unanswered
<1> QED
  BY <1>1, <1>3, <1>4, <1>6, SeqMonotonic

----------------------------------------------------------------------------
(* Parts a step leaves alone *)

LEMMA DecisionsStay ==
    ASSUME DecisionsAgree, UNCHANGED <<inbox, issued, log, hand>>
    PROVE  DecisionsAgree'
BY DEF DecisionsAgree, FromInbox

LEMMA LedgerStays ==
    ASSUME LedgerIsPrefix, UNCHANGED <<receipts, inbox>>
    PROVE  LedgerIsPrefix'
BY DEF LedgerIsPrefix, FromInbox, Answered

LEMMA LogStays ==
    ASSUME LogInOrder, UNCHANGED <<log, receipts>>
    PROVE  LogInOrder'
BY DEF LogInOrder, Answered

LEMMA OutboxStays ==
    ASSUME OutboxIsTail, UNCHANGED <<queued, log>>
    PROVE  OutboxIsTail'
BY DEF OutboxIsTail, Owed

LEMMA CopyStays ==
    ASSUME CopyIsOlder, UNCHANGED <<backup, log>>
    PROVE  CopyIsOlder'
BY DEF CopyIsOlder

LEMMA DeletedStays ==
    ASSUME DeletedIsConfirmed,
           UNCHANGED <<log, queued, backup, receipts, accepted>>
    PROVE  DeletedIsConfirmed'
BY DEF DeletedIsConfirmed, Confirmed

LEMMA WireStays ==
    ASSUME WireFollowsLog,
           UNCHANGED <<wire, log, queued, phase, receipts, accepted, waiting>>
    PROVE  WireFollowsLog'
BY DEF WireFollowsLog, FrameInOrder

LEMMA ExchangeStays ==
    ASSUME ExchangeInOrder,
           UNCHANGED <<waiting, phase, queued, left, hand, buf>>
    PROVE  ExchangeInOrder'
BY DEF ExchangeInOrder, Owed

LEMMA ServingStays ==
    ASSUME ServingContinues,
           UNCHANGED <<phase, queued, log, receipts, hand, buf, inbox, issued>>
    PROVE  ServingContinues'
BY DEF ServingContinues, Answered, Owed, InHand

LEMMA PositionStays ==
    ASSUME PositionInLog,
           UNCHANGED <<accepted, log, wire, phase, restores, exit>>
    PROVE  PositionInLog'
BY DEF PositionInLog

----------------------------------------------------------------------------
(* Every action keeps the invariant *)

\* Before anything was issued.
LEMMA DeliveryInitially == Init => DeliveryInv
<1> SUFFICES ASSUME Init
             PROVE  DeliveryInv
  OBVIOUS
<1> USE DEF Init
<1>1. DeliveryTypeOK
  <2>1. /\ inbox \in Seq(Decisions) /\ log \in Seq(Receipts)
        /\ buf \in Seq(1..MaxDirectives)
    BY EmptySeq
  <2>2. backup.last = 0 /\ backup.queued = {}
    OBVIOUS
  <2>3. /\ issued \in 0..MaxDirectives /\ accepted \in Nat \cup {None}
        /\ hand \in Receipts \cup {None} /\ left \in 0..ResendBatch
        /\ waiting \in Nat /\ faults \in 0..MaxFaults
        /\ restores \in 0..MaxRestores
    BY DeliveryAssumption
  <2>4. /\ expired \subseteq 1..MaxDirectives /\ receipts \subseteq Receipts
        /\ known \in BOOLEAN /\ wire \subseteq Frames
        /\ queued \subseteq 1..Len(log)
        /\ backup.last \in Nat /\ backup.queued \subseteq 1..backup.last
    BY <2>2
  <2> QED
    BY <2>1, <2>3, <2>4 DEF DeliveryTypeOK
<1>2. Len(inbox) = 0 /\ Len(log) = 0 /\ Len(buf) = 0
  OBVIOUS
<1>3. IsFiniteSet({}) /\ Cardinality({}) = 0
  BY FS_EmptySet
<1>4. DecisionsAgree
  BY <1>2 DEF DecisionsAgree
<1>5. LedgerIsPrefix /\ LogInOrder
  BY <1>2, <1>3 DEF LedgerIsPrefix, LogInOrder, Answered
<1>6. OutboxIsTail
  BY <1>2, <1>3, EmptyUpperPart, DeliveryAssumption DEF OutboxIsTail, Owed
<1>7. CopyIsOlder
  BY <1>2, <1>3, EmptyUpperPart, DeliveryAssumption DEF CopyIsOlder
<1>8. DeletedIsConfirmed
  BY <1>2 DEF DeletedIsConfirmed
<1>9. WireFollowsLog
  BY DEF WireFollowsLog
<1>10. ExchangeInOrder /\ ServingContinues
  BY <1>3 DEF ExchangeInOrder, ServingContinues, Owed
<1>11. PositionInLog
  BY DEF PositionInLog
<1> QED
  BY <1>1, <1>4, <1>5, <1>6, <1>7, <1>8, <1>9, <1>10, <1>11 DEF DeliveryInv

LEMMA IssueKeeps ==
    ASSUME DeliveryInv, Issue
    PROVE  DeliveryInv'
<1> USE DEF DeliveryInv, Issue, durableVars, memoryVars, boundVars
<1>1. DeliveryTypeOK'
  BY DeliveryAssumption DEF DeliveryTypeOK
<1>2. DecisionsAgree'
  BY Counts DEF DecisionsAgree, FromInbox
<1>3. ServingContinues'
  <2>1. \A i \in 1..Len(buf) : buf[i] \in Nat
    BY DeliveryAssumption, ElementOfSeq DEF DeliveryTypeOK
  <2> QED
    BY <2>1, Counts DEF ServingContinues, Answered, Owed, InHand
<1> QED
  BY <1>1, <1>2, <1>3, LedgerStays, LogStays, OutboxStays, CopyStays,
     DeletedStays, WireStays, ExchangeStays, PositionStays

LEMMA ExpireKeeps ==
    ASSUME DeliveryInv, NEW n \in 1..MaxDirectives, Expire(n)
    PROVE  DeliveryInv'
<1> USE DEF DeliveryInv, Expire, durableVars, memoryVars, boundVars
<1>1. DeliveryTypeOK'
  BY DeliveryAssumption DEF DeliveryTypeOK
<1> QED
  BY <1>1, DecisionsStay, LedgerStays, LogStays, OutboxStays, CopyStays,
     DeletedStays, WireStays, ExchangeStays, ServingStays, PositionStays

\* A frame on the wire has a position in the log and carries its receipt.
LEMMA FrameFacts ==
    ASSUME DeliveryInv, NEW f \in wire
    PROVE  /\ f \in Frames /\ FrameInOrder(f)
           /\ f.seq \in Nat /\ f.seq \in 1..Len(log)
           /\ f.receipt \in Receipts /\ f.receipt = log[f.seq]
           /\ f.step \in {"sent", "recorded", "answered", "refused"}
           /\ f.live \in BOOLEAN
<1>1. f \in Frames /\ FrameInOrder(f)
  BY DEF DeliveryInv, DeliveryTypeOK, WireFollowsLog
<1> QED
  BY <1>1, Counts DEF DeliveryInv, Frames, FrameInOrder

\* A frame somebody waits for is exchanged within a resend pass.
LEMMA LiveInPass ==
    ASSUME DeliveryInv, NEW f \in wire, f.live
    PROVE  waiting > 0 /\ phase = "resend" /\ f.seq = waiting
BY FrameFacts DEF DeliveryInv, FrameInOrder, ExchangeInOrder

\* Whatever ends the connection leaves the durable state as it is, and of
\* the wire only frames nobody waits for.
LEMMA HangUpKeeps ==
    ASSUME DeliveryInv, HangUp, phase # "off", hand' = None,
           exit' = exit \/ exit' = "rejected",
           UNCHANGED <<issued, expired, receipts, accepted, durableVars,
                       restores>>,
           known' \in BOOLEAN, faults' \in 0..MaxFaults
    PROVE  DeliveryInv'
<1> USE DEF DeliveryInv, HangUp, durableVars
<1>1. ASSUME NEW f \in wire'
      PROVE  /\ f \in Frames
             /\ ~f.live
             /\ FrameInOrder(f)'
  <2>1. PICK g \in wire : /\ g.step \in {"sent", "recorded"}
                          /\ f = [g EXCEPT !.live = FALSE]
    BY DEF Orphaned
  <2>2. g \in Frames /\ FrameInOrder(g)
    BY FrameFacts
  <2>3. /\ f \in Frames /\ ~f.live /\ f.seq = g.seq
        /\ f.receipt = g.receipt /\ f.step = g.step
    BY <2>1, <2>2 DEF Frames
  <2> QED
    BY <2>1, <2>2, <2>3 DEF FrameInOrder
<1>2. DeliveryTypeOK'
  <2>1. wire' \subseteq Frames
    BY <1>1
  <2>2. buf' \in Seq(1..MaxDirectives)
    BY EmptySeq
  <2> QED
    BY <2>1, <2>2, DeliveryAssumption DEF DeliveryTypeOK
<1>3. DecisionsAgree'
  BY DEF DecisionsAgree, FromInbox
<1>4. WireFollowsLog'
  BY <1>1 DEF WireFollowsLog
<1>5. ExchangeInOrder' /\ ServingContinues'
  BY DEF ExchangeInOrder, ServingContinues
<1>6. PositionInLog'
  BY DEF PositionInLog
<1> QED
  BY <1>2, <1>3, <1>4, <1>5, <1>6, LedgerStays, LogStays, OutboxStays,
     CopyStays, DeletedStays

LEMMA ReadRejectionKeeps ==
    ASSUME DeliveryInv, ReadRejection
    PROVE  DeliveryInv'
<1>1. phase = "resend"
  BY LiveInPass DEF ReadRejection
<1>2. hand = None
  BY <1>1 DEF DeliveryInv, ExchangeInOrder
<1> QED
  BY <1>1, <1>2, HangUpKeeps
  DEF ReadRejection, boundVars, DeliveryInv, DeliveryTypeOK

LEMMA TimeoutKeeps ==
    ASSUME DeliveryInv, Timeout
    PROVE  DeliveryInv'
<1>1. phase = "resend" /\ hand = None
  BY DEF Timeout, DeliveryInv, ExchangeInOrder
<1> QED
  BY <1>1, HangUpKeeps DEF Timeout, boundVars, DeliveryInv, DeliveryTypeOK

\* One fault more is within the bound.
LEMMA FaultCounted ==
    ASSUME DeliveryTypeOK, Fault
    PROVE  faults' \in 0..MaxFaults
BY DeliveryAssumption DEF DeliveryTypeOK, Fault

LEMMA DisconnectKeeps ==
    ASSUME DeliveryInv, Disconnect
    PROVE  DeliveryInv'
<1>1. phase = "resend" /\ hand' = None
  BY DEF Disconnect, DeliveryInv, ExchangeInOrder
<1>2. known' \in BOOLEAN
  BY DEF Disconnect, DeliveryInv, DeliveryTypeOK
<1> QED
  BY <1>1, <1>2, FaultCounted, HangUpKeeps DEF Disconnect, DeliveryInv

LEMMA CrashKeeps ==
    ASSUME DeliveryInv, Crash
    PROVE  DeliveryInv'
<1>1. known' \in BOOLEAN
  BY DEF Crash, DeliveryInv, DeliveryTypeOK
<1> QED
  BY <1>1, FaultCounted, HangUpKeeps DEF Crash, DeliveryInv

\* A resend pass sends all that is owed.
LEMMA PassSendsAll ==
    ASSUME DeliveryTypeOK, LedgerIsPrefix, OutboxIsTail
    PROVE  ResendPass = Owed /\ Owed \in 0..ResendBatch
<1>1. Owed \in Nat /\ Owed <= ResendBatch
  BY Counts, DeliveryAssumption DEF OutboxIsTail
<1>2. ResendPass = Min({ResendBatch, Owed})
  BY DEF ResendPass, Owed
<1> QED
  BY <1>1, <1>2, MinOfTwo, DeliveryAssumption

LEMMA RegisterKeeps ==
    ASSUME DeliveryInv, Register
    PROVE  DeliveryInv'
<1> USE DEF DeliveryInv, Register, serverVars, durableVars, boundVars
<1>1. left' = Owed /\ Owed \in 0..ResendBatch
  BY PassSendsAll
<1>2. DeliveryTypeOK'
  BY <1>1 DEF DeliveryTypeOK
<1>3. WireFollowsLog'
  BY DEF WireFollowsLog, FrameInOrder
<1>4. ExchangeInOrder' /\ ServingContinues'
  BY <1>1 DEF ExchangeInOrder, ServingContinues, Owed, DeliveryTypeOK
<1>5. PositionInLog'
  BY Counts DEF PositionInLog, IncompleteEvidence, DeliveryTypeOK
<1> QED
  BY <1>2, <1>3, <1>4, <1>5, DecisionsStay, LedgerStays, LogStays,
     OutboxStays, CopyStays, DeletedStays

LEMMA ServedKeeps ==
    ASSUME DeliveryInv, Served
    PROVE  DeliveryInv'
<1> USE DEF DeliveryInv, Served, serverVars, durableVars, boundVars
<1>1. left' = Owed /\ Owed \in 0..ResendBatch
  BY PassSendsAll
<1>2. DeliveryTypeOK'
  BY <1>1 DEF DeliveryTypeOK
<1>3. WireFollowsLog'
  BY DEF WireFollowsLog, FrameInOrder
<1>4. ExchangeInOrder' /\ ServingContinues'
  BY <1>1 DEF ExchangeInOrder, ServingContinues, Owed, DeliveryTypeOK
<1>5. PositionInLog'
  BY DEF PositionInLog
<1> QED
  BY <1>2, <1>3, <1>4, <1>5, DecisionsStay, LedgerStays, LogStays,
     OutboxStays, CopyStays, DeletedStays

\* The server is never behind what the outbox has deleted.
LEMMA NeverBehind ==
    ASSUME DeliveryInv, accepted # None
    PROVE  /\ accepted \in Nat /\ Len(log) \in Nat
           /\ Acknowledged \in 0..Len(log) /\ Acknowledged <= accepted
<1> USE DEF DeliveryInv
<1>1. /\ accepted \in Nat /\ Len(log) \in Nat
      /\ queued \subseteq 1..Len(log) /\ queued \subseteq Nat
  BY Counts DEF DeliveryTypeOK
<1>2. Acknowledged \in 0..Len(log) /\ (Acknowledged = 0 \/ Acknowledged \notin queued)
  <2>1. CASE queued = {}
    BY <2>1, <1>1 DEF Acknowledged
  <2>2. CASE queued # {}
    <3>1. PICK m \in queued : Acknowledged = m - 1 /\ \A s \in queued : m <= s
      BY <2>2, <1>1, LeastOf DEF Acknowledged
    <3>2. m \in 1..Len(log) /\ m \in Nat
      BY <1>1
    <3>3. m - 1 \in 0..Len(log)
      BY <1>1, <3>2
    <3>4. m - 1 \notin queued
      BY <3>1, <3>2
    <3> QED
      BY <3>1, <3>3, <3>4
  <2> QED
    BY <2>1, <2>2
<1>3. CASE Acknowledged = 0
  BY <1>1, <1>2, <1>3
<1>4. CASE Acknowledged # 0
  <2>1. Acknowledged \in 1..Len(log) /\ Acknowledged \notin queued
    BY <1>1, <1>2, <1>4
  <2> QED
    BY <1>1, <1>2, <2>1 DEF DeletedIsConfirmed, Confirmed
<1> QED
  BY <1>3, <1>4

LEMMA StrandKeeps ==
    ASSUME DeliveryInv, Strand
    PROVE  DeliveryInv'
<1> USE DEF DeliveryInv, Strand, serverVars, durableVars, boundVars
<1>1. DeliveryTypeOK'
  BY DEF DeliveryTypeOK
<1>2. accepted # None /\ accepted > Len(log)
  BY NeverBehind DEF IncompleteEvidence
<1>3. PositionInLog'
  BY <1>2, NeverBehind DEF PositionInLog
<1> QED
  BY <1>1, <1>3, DecisionsStay, LedgerStays, LogStays, OutboxStays,
     CopyStays, DeletedStays, WireStays, ExchangeStays, ServingStays

LEMMA SendFrameKeeps ==
    ASSUME DeliveryInv, SendFrame
    PROVE  DeliveryInv'
<1> USE DEF DeliveryInv, SendFrame, durableVars, boundVars
<1>1. /\ Len(log) \in Nat /\ queued # {}
      /\ queued \subseteq 1..Len(log) /\ queued \subseteq Nat
  BY Counts DEF DeliveryTypeOK, ExchangeInOrder
<1>2. PICK s : /\ s \in queued /\ \A t \in queued : s <= t
               /\ waiting' = s
               /\ wire' = wire \cup {[seq |-> s, receipt |-> log[s],
                                      step |-> "sent", live |-> TRUE]}
  BY <1>1, LeastOf
<1>3. PICK f : /\ f = [seq |-> s, receipt |-> log[s], step |-> "sent", live |-> TRUE]
               /\ wire' = wire \cup {f}
  BY <1>2
<1>4. s \in 1..Len(log) /\ s \in Nat \ {0}
  BY <1>1, <1>2
<1>5. log[s] \in Receipts
  BY <1>4, ElementOfSeq DEF DeliveryTypeOK
<1>6. f \in Frames /\ f.seq = s /\ f.receipt = log[s] /\ f.step = "sent" /\ f.live
  BY <1>3, <1>4, <1>5 DEF Frames
<1>7. DeliveryTypeOK'
  BY <1>2, <1>3, <1>4, <1>6 DEF DeliveryTypeOK
<1>8. \A g \in wire : ~g.live
  BY LiveInPass
<1>9. WireFollowsLog'
  <2>1. FrameInOrder(f)'
    <3>1. phase' = "resend" /\ UNCHANGED <<log, queued, receipts, accepted>>
      OBVIOUS
    <3> HIDE DEF SendFrame
    <3>2. \A t \in queued' : f.seq <= t
      BY <1>2, <1>6, <3>1
    <3>3. f.seq <= Len(log') /\ f.receipt = log'[f.seq]
      BY <1>4, <1>6, <3>1
    <3> QED
      BY <1>2, <1>6, <3>1, <3>2, <3>3 DEF FrameInOrder
  <2>2. ASSUME NEW g \in wire
        PROVE  FrameInOrder(g)'
    BY <1>8 DEF FrameInOrder, WireFollowsLog
  <2> QED
    BY <2>1, <2>2, <1>3, <1>8 DEF WireFollowsLog
<1>10. ExchangeInOrder'
  BY <1>2, <1>4 DEF ExchangeInOrder, Owed
<1>11. PositionInLog'
  BY DEF PositionInLog
<1> QED
  BY <1>7, <1>9, <1>10, <1>11, DecisionsStay, LedgerStays, LogStays,
     OutboxStays, CopyStays, DeletedStays, ServingStays

LEMMA ReadAckKeeps ==
    ASSUME DeliveryInv, ReadAck
    PROVE  DeliveryInv'
<1> USE DEF DeliveryInv, ReadAck, boundVars
<1>1. PICK f \in wire : f.live /\ f.step = "answered" /\ wire' = wire \ {f}
  OBVIOUS
<1>2. /\ waiting \in queued /\ \A s \in queued : waiting <= s
      /\ phase = "resend" /\ left = Owed
  BY DEF ExchangeInOrder
<1>3. f.seq = waiting /\ Confirmed(waiting) /\ accepted \in Nat
  BY <1>1, FrameFacts DEF FrameInOrder, Confirmed, DeliveryTypeOK
<1>4. waiting \in Nat \ {0} /\ Len(log) \in Nat
  BY Counts DEF DeliveryTypeOK
<1>5. /\ UpperPart(queued', Len(log))
      /\ Owed' = Owed - 1
      /\ queued' = queued \ {waiting}
  BY <1>2, <1>4, ShrinkUpperPart DEF OutboxIsTail, Owed
<1>6. Owed \in Nat /\ Owed # 0
  BY <1>2, Counts
<1>7. DeliveryTypeOK'
  <2>1. left' \in 0..ResendBatch
    BY <1>2, <1>6, DeliveryAssumption DEF DeliveryTypeOK
  <2> QED
    BY <2>1, <1>1, <1>5 DEF DeliveryTypeOK
<1>8. OutboxIsTail'
  BY <1>5, <1>6, DeliveryAssumption DEF OutboxIsTail
<1>9. DeletedIsConfirmed'
  BY <1>3, <1>5 DEF DeletedIsConfirmed, Confirmed
<1>10. WireFollowsLog'
  <2>1. ASSUME NEW g \in wire, g # f
        PROVE  ~g.live /\ FrameInOrder(g)'
    <3>1. ~g.live
      BY <1>1, <2>1 DEF WireFollowsLog
    <3> QED
      BY <3>1, <1>2, <1>5 DEF WireFollowsLog, FrameInOrder
  <2> QED
    BY <2>1, <1>1 DEF WireFollowsLog
<1>11. ExchangeInOrder' /\ ServingContinues'
  BY <1>2, <1>5 DEF ExchangeInOrder, ServingContinues
<1>12. PositionInLog'
  BY <1>2 DEF PositionInLog
<1> QED
  BY <1>7, <1>8, <1>9, <1>10, <1>11, <1>12, DecisionsStay, LedgerStays,
     LogStays, CopyStays

LEMMA PollKeeps ==
    ASSUME DeliveryInv, Poll
    PROVE  DeliveryInv'
<1> USE DEF DeliveryInv, Poll, durableVars
<1>1. queued = {} /\ Owed = 0 /\ hand = None
  BY Counts DEF ExchangeInOrder
<1>2. /\ buf' \in Seq(1..MaxDirectives)
      /\ Len(buf') <= DeliveryBatch
      /\ \A i \in 1..Len(buf') : buf'[i] = Answered + i /\ buf'[i] <= issued
  <2>1. CASE buf' \in PendingForSession
    BY <2>1, DeliveryContinues
  <2>2. CASE buf' = << >>
    BY <2>2, DeliveryAssumption
  <2> QED
    BY <2>1, <2>2
<1>3. faults' \in 0..MaxFaults
  BY FaultCounted DEF DeliveryTypeOK
<1>4. DeliveryTypeOK'
  BY <1>2, <1>3 DEF DeliveryTypeOK
<1>5. WireFollowsLog'
  BY <1>1 DEF WireFollowsLog, FrameInOrder
<1>6. ExchangeInOrder'
  BY <1>1 DEF ExchangeInOrder
<1>7. ServingContinues'
  <2>1. Answered' = Answered /\ Owed' = 0 /\ InHand' = 0 /\ queued' = {}
    BY <1>1 DEF Answered, Owed, InHand
  <2>2. Len(buf') \in Nat
    BY <1>2, LenProperties
  <2> QED
    BY <1>1, <1>2, <2>1, <2>2, Counts DEF ServingContinues, LedgerIsPrefix
<1>8. PositionInLog'
  BY DEF PositionInLog
<1> QED
  BY <1>4, <1>5, <1>6, <1>7, <1>8, DecisionsStay, LedgerStays, LogStays,
     OutboxStays, CopyStays, DeletedStays

\* The directive read next follows the ledger, the queue and the inbox.
LEMMA HeadContinues ==
    ASSUME DeliveryInv, phase = "serve", hand = None, buf # << >>
    PROVE  /\ Head(buf) \in 1..MaxDirectives
           /\ Head(buf) = Answered + Owed + 1 /\ Head(buf) <= issued
           /\ Tail(buf) \in Seq(1..MaxDirectives)
           /\ Len(buf) \in Nat \ {0} /\ Len(Tail(buf)) = Len(buf) - 1
           /\ \A i \in 1..Len(Tail(buf)) :
                 Tail(buf)[i] = Answered + Owed + 1 + i /\ Tail(buf)[i] <= issued
<1> USE DEF DeliveryInv
<1>1. buf \in Seq(1..MaxDirectives) /\ Len(buf) \in Nat \ {0}
  BY EmptySeq DEF DeliveryTypeOK
<1>2. /\ Head(buf) \in 1..MaxDirectives
      /\ Tail(buf) \in Seq(1..MaxDirectives)
      /\ Len(Tail(buf)) = Len(buf) - 1
      /\ \A i \in 1..Len(Tail(buf)) : Tail(buf)[i] = buf[i + 1]
  BY <1>1, HeadTailProperties
<1>3. Head(buf) = buf[1]
  BY <1>1
<1>4. InHand = 0
  BY DEF InHand
<1>5. \A i \in 1..Len(buf) : buf[i] = Answered + Owed + i /\ buf[i] <= issued
  BY <1>4, Counts DEF ServingContinues
<1>6. buf[1] = Answered + Owed + 1 /\ buf[1] <= issued
  BY <1>1, <1>5
<1>7. ASSUME NEW i \in 1..Len(Tail(buf))
      PROVE  Tail(buf)[i] = Answered + Owed + 1 + i /\ Tail(buf)[i] <= issued
  <2>1. i + 1 \in 1..Len(buf) /\ i \in Nat
    BY <1>1, <1>2
  <2>2. Tail(buf)[i] = Answered + Owed + (i + 1) /\ Tail(buf)[i] <= issued
    BY <2>1, <1>2, <1>5
  <2> QED
    BY <2>1, <2>2, Counts
<1> QED
  BY <1>1, <1>2, <1>3, <1>6, <1>7

\* Reading the next directive, once the inbox holds its decision.
LEMMA ReadKeeps ==
    ASSUME DeliveryInv, phase = "serve", hand = None, buf # << >>,
           buf' = Tail(buf), NEW d \in Decisions, hand' = <<Head(buf), d>>,
           inbox' \in Seq(Decisions), Len(inbox') \in Nat,
           Len(inbox) <= Len(inbox'), Len(inbox') <= issued,
           \A n \in 1..Len(inbox) : inbox'[n] = inbox[n],
           Head(buf) \in 1..Len(inbox'), inbox'[Head(buf)] = d,
           UNCHANGED <<serverVars, log, queued, backup, phase, left, waiting,
                       exit, boundVars>>
    PROVE  DeliveryInv'
<1> USE DEF DeliveryInv, serverVars, boundVars
<1> DEFINE h == Head(buf)
<1>1. /\ h \in 1..MaxDirectives /\ h = Answered + Owed + 1
      /\ buf' \in Seq(1..MaxDirectives)
      /\ Len(buf) \in Nat \ {0} /\ Len(buf') = Len(buf) - 1
      /\ \A i \in 1..Len(buf') :
            buf'[i] = Answered + Owed + 1 + i /\ buf'[i] <= issued
  BY HeadContinues
<1>2. hand' \in Receipts /\ hand' # None /\ hand'[1] = h /\ hand'[2] = d
  BY <1>1, DeliveryAssumption DEF Receipts
<1>3. DeliveryTypeOK'
  BY <1>1, <1>2 DEF DeliveryTypeOK
<1>4. ASSUME NEW r, FromInbox(r)
      PROVE  r[1] \in 1..Len(inbox') /\ r[2] = inbox'[r[1]]
  BY <1>4, Counts DEF FromInbox
<1>5. DecisionsAgree'
  <2>1. \A s \in 1..Len(log') : FromInbox(log[s])'
    BY <1>4 DEF DecisionsAgree, FromInbox
  <2>2. FromInbox(hand)'
    BY <1>2 DEF FromInbox
  <2> QED
    BY <2>1, <2>2 DEF DecisionsAgree
<1>6. LedgerIsPrefix'
  <2>1. Answered' = Answered
    BY DEF Answered
  <2>2. \A r \in receipts : r[1] \in 1..Len(inbox') /\ r[2] = inbox'[r[1]]
    BY <1>4 DEF LedgerIsPrefix
  <2>3. \A n \in 1..Answered : <<n, inbox'[n]>> \in receipts
    BY Counts DEF LedgerIsPrefix
  <2> QED
    BY <2>1, <2>2, <2>3, Counts DEF LedgerIsPrefix, FromInbox
<1>7. ExchangeInOrder'
  BY DEF ExchangeInOrder, Owed
<1>8. ServingContinues'
  <2>1. Answered' = Answered /\ Owed' = Owed /\ InHand' = 1 /\ InHand = 0
    BY <1>2 DEF Answered, Owed, InHand
  <2>2. Owed + Len(buf) <= DeliveryBatch
    BY <2>1, Counts DEF ServingContinues
  <2>3. \A s \in queued : log[s][1] = Answered + Owed - (Len(log) - s)
    BY DEF ServingContinues
  <2>4. Answered + Owed + 1 <= Len(inbox')
    BY <1>1
  <2>5. Owed + 1 + Len(buf') <= DeliveryBatch
    BY <1>1, <2>2, Counts, DeliveryAssumption
  <2> QED
    BY <1>1, <1>2, <2>1, <2>3, <2>4, <2>5 DEF ServingContinues
<1> QED
  BY <1>3, <1>5, <1>6, <1>7, <1>8, LogStays, OutboxStays, CopyStays,
     DeletedStays, WireStays, PositionStays

LEMMA ReceiveKeeps ==
    ASSUME DeliveryInv, Receive
    PROVE  DeliveryInv'
<1> USE DEF DeliveryInv
<1> DEFINE n == Head(buf)
<1>1. /\ phase = "serve" /\ hand = None /\ buf # << >> /\ buf' = Tail(buf)
      /\ UNCHANGED <<serverVars, log, queued, backup, phase, left, waiting,
                     exit, boundVars>>
  BY DEF Receive
<1>2. n \in Nat /\ n <= issued
  BY <1>1, HeadContinues, DeliveryAssumption
<1>3. inbox \in Seq(Decisions) /\ Len(inbox) \in Nat /\ Len(inbox) <= issued
      /\ DOMAIN inbox = 1..Len(inbox)
  BY Counts, LenProperties DEF DeliveryTypeOK, DecisionsAgree
<1>4. CASE n \in DOMAIN inbox /\ hand' = <<n, inbox[n]>> /\ inbox' = inbox
  <2>1. inbox[n] \in Decisions /\ n \in 1..Len(inbox)
    BY <1>3, <1>4, ElementOfSeq
  <2> QED
    BY <1>1, <1>3, <1>4, <2>1, ReadKeeps
<1>5. ASSUME n = Len(inbox) + 1, NEW d \in Decide(n),
             hand' = <<n, d>>, inbox' = Append(inbox, d)
      PROVE  DeliveryInv'
  <2>1. d \in Decisions
    BY <1>5 DEF Decide
  <2>2. /\ inbox' \in Seq(Decisions) /\ Len(inbox') = Len(inbox) + 1
        /\ \A i \in 1..Len(inbox) : inbox'[i] = inbox[i]
        /\ inbox'[Len(inbox) + 1] = d
    BY <1>3, <1>5, <2>1
  <2>3. n \in 1..Len(inbox') /\ Len(inbox') \in Nat
    BY <1>3, <1>5, <2>2
  <2>4. Len(inbox) <= Len(inbox') /\ Len(inbox') <= issued
    BY <1>2, <1>3, <1>5, <2>2
  <2>5. inbox'[n] = d
    BY <1>5, <2>2
  <2> QED
    BY <1>1, <1>5, <2>1, <2>2, <2>3, <2>4, <2>5, ReadKeeps
<1> QED
  BY <1>4, <1>5 DEF Receive

LEMMA EnqueueKeeps ==
    ASSUME DeliveryInv, Enqueue
    PROVE  DeliveryInv'
<1> USE DEF DeliveryInv, Enqueue, serverVars, boundVars
<1>1. /\ hand \in Receipts /\ FromInbox(hand) /\ Len(log) \in Nat
      /\ hand[1] = Answered + Owed + 1 /\ InHand = 1
  BY Counts DEF DeliveryTypeOK, DecisionsAgree, ServingContinues, InHand
<1>2. /\ log' \in Seq(Receipts) /\ Len(log') = Len(log) + 1
      /\ \A s \in 1..Len(log) : log'[s] = log[s]
      /\ log'[Len(log) + 1] = hand
  BY <1>1 DEF DeliveryTypeOK
<1>3. /\ UpperPart(queued', Len(log) + 1) /\ Owed' = Owed + 1
      /\ Answered' = Answered /\ InHand' = 0
  BY <1>1, GrowUpperPart DEF OutboxIsTail, Owed, Answered, InHand
<1>4. \A s \in 1..Len(log') : s \in 1..Len(log) \/ s = Len(log) + 1
  BY <1>1, <1>2
<1>5. DeliveryTypeOK'
  <2>1. queued' \subseteq 1..Len(log')
    BY <1>2, <1>3 DEF UpperPart
  <2> QED
    BY <1>2, <2>1 DEF DeliveryTypeOK
<1>6. DecisionsAgree'
  BY <1>1, <1>2, <1>4 DEF DecisionsAgree, FromInbox
<1>7. LogInOrder'
  <2>1. ASSUME NEW s \in 1..Len(log)
        PROVE  log'[s][1] <= Answered + 1 \/ (s > 1 /\ log'[s][1] = log'[s - 1][1] + 1)
    <3>1. s > 1 => s - 1 \in 1..Len(log)
      BY <1>1
    <3> QED
      BY <3>1, <1>2 DEF LogInOrder
  <2>2. hand[1] <= Answered + 1 \/ (Len(log) + 1 > 1 /\ hand[1] = log'[Len(log)][1] + 1)
    <3>1. CASE Owed = 0
      BY <3>1, <1>1, Counts
    <3>2. CASE Owed # 0
      <4>1. Len(log) \in queued /\ Len(log) \in 1..Len(log)
        BY <3>2, <1>1, Counts DEF OutboxIsTail, UpperPart, Owed
      <4>2. log[Len(log)][1] = Answered + Owed
        BY <4>1, Counts DEF ServingContinues
      <4> QED
        BY <4>1, <4>2, <1>1, <1>2, Counts
    <3> QED
      BY <3>1, <3>2
  <2>3. ASSUME NEW s \in 1..Len(log')
        PROVE  log'[s][1] <= Answered + 1 \/ (s > 1 /\ log'[s][1] = log'[s - 1][1] + 1)
    <3>1. CASE s = Len(log) + 1
      <4>1. log'[s] = hand /\ s - 1 = Len(log) /\ (s > 1 <=> Len(log) + 1 > 1)
        BY <3>1, <1>1, <1>2
      <4> QED
        BY <4>1, <2>2
    <3> QED
      BY <3>1, <2>1, <1>4
  <2> QED
    BY <2>3, <1>3 DEF LogInOrder
<1>8. OutboxIsTail'
  <2>1. Owed + 1 <= DeliveryBatch
    BY <1>1, Counts, DeliveryAssumption DEF ServingContinues
  <2> QED
    BY <2>1, <1>2, <1>3 DEF OutboxIsTail
<1>9. CopyIsOlder'
  BY <1>1, <1>2 DEF CopyIsOlder, DeliveryTypeOK
<1>10. DeletedIsConfirmed'
  <2>1. \A s \in 1..backup.last : s \in 1..Len(log)
    BY <1>1 DEF CopyIsOlder, DeliveryTypeOK
  <2> QED
    BY <2>1, <1>2, <1>4 DEF DeletedIsConfirmed, Confirmed
<1>11. WireFollowsLog'
  <2>1. ASSUME NEW f \in wire
        PROVE  FrameInOrder(f)'
    <3>1. f.seq \in 1..Len(log) /\ f.seq \in Nat /\ FrameInOrder(f)
      BY FrameFacts
    <3>2. f.seq <= Len(log') /\ f.seq # Len(log) + 1 /\ f.seq <= Len(log) + 1
      BY <3>1, <1>1, <1>2
    <3> QED
      BY <3>1, <3>2, <1>2 DEF FrameInOrder
  <2> QED
    BY <2>1 DEF WireFollowsLog
<1>12. ExchangeInOrder'
  BY DEF ExchangeInOrder
<1>13. ServingContinues'
  <2>1. ASSUME NEW s \in queued'
        PROVE  log'[s][1] = Answered + (Owed + 1) - (Len(log') - s)
    <3>1. CASE s = Len(log) + 1
      BY <3>1, <1>1, <1>2, Counts
    <3>2. CASE s \in queued
      <4>1. s \in 1..Len(log)
        BY <3>2 DEF DeliveryTypeOK
      <4>2. log[s][1] = Answered + Owed - (Len(log) - s)
        BY <3>2 DEF ServingContinues
      <4> QED
        BY <4>1, <4>2, <1>1, <1>2, Counts
    <3> QED
      BY <3>1, <3>2
  <2>2. \A i \in 1..Len(buf) : buf[i] = Answered + (Owed + 1) + i /\ buf[i] <= issued
    BY <1>1, Counts DEF ServingContinues
  <2>3. /\ Owed + 1 + Len(buf) <= DeliveryBatch
        /\ Answered + (Owed + 1) <= Len(inbox)
    BY <1>1, Counts DEF ServingContinues
  <2>4. /\ \A i \in 1..Len(buf') : /\ buf'[i] = Answered' + Owed' + InHand' + i
                                   /\ buf'[i] <= issued'
        /\ Owed' + InHand' + Len(buf') <= DeliveryBatch
        /\ Answered' + Owed' + InHand' <= Len(inbox')
    BY <2>2, <2>3, <1>3, Counts
  <2> QED
    BY <2>1, <2>4, <1>3 DEF ServingContinues
<1>14. PositionInLog'
  BY <1>1, <1>2 DEF PositionInLog, DeliveryTypeOK
<1> QED
  BY <1>5, <1>6, <1>7, <1>8, <1>9, <1>10, <1>11, <1>12, <1>13, <1>14,
     LedgerStays

\* What the server's step on a frame leaves on the wire: the other frames,
\* and this one at its new step unless nobody waits for its answer.
LEMMA BecomeFacts ==
    ASSUME DeliveryInv, NEW f \in wire,
           NEW step \in {"sent", "recorded", "answered", "refused"},
           Become(f, step)
    PROVE  /\ \A g \in wire' :
                 \/ g \in wire
                 \/ /\ g.seq = f.seq /\ g.receipt = f.receipt
                    /\ g.step = step /\ g.live = f.live
                    /\ g.live \/ step = "recorded"
           /\ wire' \subseteq Frames
           /\ \A g, h \in wire' : g.live /\ h.live => g = h
<1>1. PICK e : e = [f EXCEPT !.step = step]
  OBVIOUS
<1>2. f \in Frames /\ wire \subseteq Frames
  BY DEF DeliveryInv, DeliveryTypeOK
<1>3. /\ e \in Frames /\ e.seq = f.seq /\ e.receipt = f.receipt
      /\ e.step = step /\ e.live = f.live
  BY <1>1, <1>2 DEF Frames
<1>4. wire' = IF f.live \/ step = "recorded" THEN (wire \ {f}) \cup {e}
              ELSE wire \ {f}
  BY <1>1 DEF Become
<1>5. \A g, h \in wire : g.live /\ h.live => g = h
  BY DEF DeliveryInv, WireFollowsLog
<1> QED
  BY <1>2, <1>3, <1>4, <1>5

\* A frame on the wire carries a receipt the ledger has, or the next one in
\* order; and while the daemon serves, one the ledger has.
LEMMA FrameIsNext ==
    ASSUME DeliveryInv, NEW f \in wire
    PROVE  \/ f.receipt \in receipts
           \/ /\ f.receipt = <<Answered + 1, inbox[Answered + 1]>>
              /\ f.receipt \notin receipts
              /\ Answered + 1 <= Len(inbox)
              /\ phase # "serve"
<1> USE DEF DeliveryInv
<1> DEFINE s == f.seq
<1>1. s \in 1..Len(log) /\ s \in Nat /\ FrameInOrder(f) /\ f.receipt = log[s]
  BY FrameFacts
<1>2. /\ log[s] \in Receipts /\ FromInbox(log[s]) /\ log[s][1] \in Nat
      /\ log[s] = <<log[s][1], inbox[log[s][1]]>>
  <2>1. log[s] \in Receipts /\ FromInbox(log[s])
    BY <1>1, ElementOfSeq DEF DeliveryTypeOK, DecisionsAgree
  <2> QED
    BY <2>1, DeliveryAssumption DEF Receipts, FromInbox
<1>3. log[s][1] <= Answered + 1
  <2>1. CASE s > 1 /\ log[s][1] = log[s - 1][1] + 1
    <3>1. s - 1 \in 1..Len(log) /\ s - 1 \notin queued
      BY <2>1, <1>1, Counts DEF FrameInOrder
    <3>2. log[s - 1] \in receipts
      BY <3>1 DEF DeletedIsConfirmed, Confirmed
    <3>3. log[s - 1][1] <= Answered /\ log[s - 1][1] \in 1..Len(inbox)
      BY <3>2 DEF LedgerIsPrefix, FromInbox
    <3> QED
      BY <2>1, <3>3, Counts
  <2> QED
    BY <2>1, <1>1 DEF LogInOrder
<1>4. CASE log[s][1] <= Answered
  <2>1. log[s][1] \in 1..Answered
    BY <1>2, <1>4, Counts DEF FromInbox
  <2>2. log[s] \in receipts
    BY <2>1, <1>2 DEF LedgerIsPrefix
  <2> QED
    BY <2>2, <1>1
<1>5. CASE log[s][1] = Answered + 1
  <2>1. log[s] \notin receipts
    BY <1>5, Counts DEF LedgerIsPrefix
  <2>2. s \in queued
    BY <2>1, <1>1 DEF DeletedIsConfirmed, Confirmed
  <2>3. phase # "serve"
    BY <2>2, <1>1 DEF FrameInOrder
  <2>4. Answered + 1 <= Len(inbox)
    BY <1>2, <1>5, Counts DEF FromInbox
  <2> QED
    BY <2>1, <2>3, <2>4, <1>1, <1>2, <1>5
<1> QED
  BY <1>2, <1>3, <1>4, <1>5, Counts

\* Recording a frame leaves the ledger alone or extends it by the next
\* receipt.
LEMMA RecordExtends ==
    ASSUME DeliveryInv, NEW f \in wire, ServerRecord(f)
    PROVE  \/ receipts' = receipts
           \/ /\ receipts' = receipts \cup {<<Answered + 1, inbox[Answered + 1]>>}
              /\ Answered + 1 <= Len(inbox)
              /\ IsFiniteSet(receipts') /\ Answered' = Answered + 1
              /\ phase # "serve"
<1>1. CASE f.receipt \in receipts
  BY <1>1 DEF ServerRecord
<1>2. CASE f.receipt \notin receipts
  <2>1. receipts' = receipts \cup {f.receipt}
    BY DEF ServerRecord
  <2>2. IsFiniteSet(receipts') /\ Answered' = Answered + 1
    BY <1>2, <2>1, FS_AddElement DEF DeliveryInv, LedgerIsPrefix, Answered
  <2> QED
    BY <1>2, <2>1, <2>2, FrameIsNext
<1> QED
  BY <1>1, <1>2

LEMMA ServerRecordKeeps ==
    ASSUME DeliveryInv, NEW f \in wire, ServerRecord(f)
    PROVE  DeliveryInv'
<1> USE DEF DeliveryInv, ServerRecord, durableVars, memoryVars, boundVars
<1>1. /\ f \in Frames /\ f.receipt \in Receipts /\ FrameInOrder(f)
      /\ receipts \subseteq receipts' /\ f.receipt \in receipts'
  BY FrameFacts
<1>2. /\ \A g \in wire' :
            \/ g \in wire
            \/ /\ g.seq = f.seq /\ g.receipt = f.receipt
               /\ g.step = "recorded" /\ g.live = f.live
      /\ wire' \subseteq Frames
      /\ \A g, h \in wire' : g.live /\ h.live => g = h
  BY BecomeFacts
<1>3. DeliveryTypeOK'
  BY <1>1, <1>2 DEF DeliveryTypeOK
<1>4. DeletedIsConfirmed'
  BY <1>1 DEF DeletedIsConfirmed, Confirmed
<1>5. WireFollowsLog'
  BY <1>1, <1>2 DEF WireFollowsLog, FrameInOrder
<1>6. PositionInLog'
  BY DEF PositionInLog
<1>7. LedgerIsPrefix' /\ LogInOrder' /\ ServingContinues'
  <2>1. CASE receipts' = receipts
    BY <2>1, LedgerStays, LogStays, ServingStays
  <2>2. CASE receipts' # receipts
    <3> DEFINE n == Answered + 1
    <3>1. /\ receipts' = receipts \cup {<<n, inbox[n]>>}
          /\ n <= Len(inbox) /\ IsFiniteSet(receipts') /\ Answered' = n
          /\ phase # "serve"
      BY <2>2, RecordExtends
    <3>2. /\ Answered \in Nat /\ Len(inbox) \in Nat /\ Len(log) \in Nat
          /\ n \in Nat /\ n \in 1..Len(inbox)
      BY <3>1, Counts
    <3>3. LedgerIsPrefix'
      <4>1. \A r \in receipts' : FromInbox(r)' /\ r[1] <= n
        BY <3>1, <3>2 DEF LedgerIsPrefix, FromInbox
      <4>2. \A i \in 1..n : <<i, inbox[i]>> \in receipts'
        BY <3>1, <3>2 DEF LedgerIsPrefix
      <4> QED
        BY <3>1, <4>1, <4>2 DEF LedgerIsPrefix
    <3>4. LogInOrder'
      <4>1. \A s \in 1..Len(log) : log[s][1] \in Nat
        BY <3>2 DEF DecisionsAgree, FromInbox
      <4> QED
        BY <4>1, <3>1, <3>2 DEF LogInOrder
    <3> QED
      BY <3>1, <3>3, <3>4 DEF ServingContinues
  <2> QED
    BY <2>1, <2>2
<1> QED
  BY <1>3, <1>4, <1>5, <1>6, <1>7, DecisionsStay, OutboxStays, CopyStays,
     ExchangeStays

LEMMA ServerRefuseKeeps ==
    ASSUME DeliveryInv, NEW f \in wire, ServerRefuse(f)
    PROVE  DeliveryInv'
<1> USE DEF DeliveryInv, ServerRefuse, durableVars, memoryVars, boundVars
<1>1. f \in Frames /\ FrameInOrder(f)
  BY FrameFacts
<1>2. /\ \A g \in wire' :
            \/ g \in wire
            \/ /\ g.seq = f.seq /\ g.receipt = f.receipt
               /\ g.step = "refused" /\ g.live = f.live /\ g.live
      /\ wire' \subseteq Frames
      /\ \A g, h \in wire' : g.live /\ h.live => g = h
  BY BecomeFacts
<1>3. DeliveryTypeOK'
  BY <1>2 DEF DeliveryTypeOK
<1>4. WireFollowsLog'
  BY <1>1, <1>2 DEF WireFollowsLog, FrameInOrder
<1>5. PositionInLog'
  BY DEF PositionInLog
<1> QED
  BY <1>3, <1>4, <1>5, DecisionsStay, LedgerStays, LogStays, OutboxStays,
     CopyStays, DeletedStays, ExchangeStays, ServingStays

LEMMA ServerAdvanceKeeps ==
    ASSUME DeliveryInv, NEW f \in wire, ServerAdvance(f)
    PROVE  DeliveryInv'
<1> USE DEF DeliveryInv, ServerAdvance, durableVars, memoryVars, boundVars
<1>1. /\ f \in Frames /\ FrameInOrder(f) /\ f.seq \in Nat
      /\ f.seq \in 1..Len(log) /\ Len(log) \in Nat
      /\ f.receipt \in receipts
  BY FrameFacts, Counts DEF FrameInOrder
<1>2. /\ \A g \in wire' :
            \/ g \in wire
            \/ /\ g.seq = f.seq /\ g.receipt = f.receipt
               /\ g.step = "answered" /\ g.live = f.live /\ g.live
      /\ wire' \subseteq Frames
      /\ \A g, h \in wire' : g.live /\ h.live => g = h
  BY BecomeFacts
<1>3. /\ accepted' \in Nat /\ accepted' # None /\ f.seq <= accepted'
      /\ accepted # None => accepted \in Nat /\ accepted <= accepted'
      /\ accepted' = f.seq \/ accepted' = accepted
  BY <1>1, DeliveryAssumption DEF DeliveryTypeOK
<1>4. DeliveryTypeOK'
  BY <1>2, <1>3 DEF DeliveryTypeOK
<1>5. DeletedIsConfirmed'
  <2>1. ASSUME NEW s \in Nat, Confirmed(s)
        PROVE  Confirmed(s)'
    BY <2>1, <1>3 DEF Confirmed
  <2>2. \A s \in 1..Len(log) : s \in Nat
    OBVIOUS
  <2>3. \A s \in 1..backup.last : s \in Nat
    OBVIOUS
  <2> QED
    BY <2>1, <2>2, <2>3 DEF DeletedIsConfirmed
<1>6. WireFollowsLog'
  <2>1. ASSUME NEW g \in wire'
        PROVE  FrameInOrder(g)'
    <3>1. CASE g \in wire
      <4>1. FrameInOrder(g) /\ g.seq \in Nat
        BY <3>1, FrameFacts
      <4> QED
        BY <4>1, <1>3 DEF FrameInOrder
    <3>2. CASE /\ g.seq = f.seq /\ g.receipt = f.receipt
               /\ g.step = "answered" /\ g.live = f.live /\ g.live
      BY <3>2, <1>1, <1>3 DEF FrameInOrder
    <3> QED
      BY <3>1, <3>2, <1>2
  <2> QED
    BY <2>1, <1>2 DEF WireFollowsLog
<1>7. PositionInLog'
  BY <1>1, <1>3 DEF PositionInLog
<1> QED
  BY <1>4, <1>5, <1>6, <1>7, DecisionsStay, LedgerStays, LogStays,
     OutboxStays, CopyStays, ExchangeStays, ServingStays

LEMMA ServerLoseKeeps ==
    ASSUME DeliveryInv, NEW f \in wire, ServerLose(f)
    PROVE  DeliveryInv'
<1> USE DEF DeliveryInv, ServerLose, durableVars, memoryVars
<1>1. DeliveryTypeOK'
  BY FaultCounted DEF DeliveryTypeOK
<1>2. WireFollowsLog'
  BY DEF WireFollowsLog, FrameInOrder
<1>3. PositionInLog'
  BY DEF PositionInLog
<1> QED
  BY <1>1, <1>2, <1>3, DecisionsStay, LedgerStays, LogStays, OutboxStays,
     CopyStays, DeletedStays, ExchangeStays, ServingStays

LEMMA ServerExhaustedKeeps ==
    ASSUME DeliveryInv, NEW f \in wire, ServerExhausted(f)
    PROVE  DeliveryInv'
<1> USE DEF DeliveryInv, ServerExhausted, durableVars, memoryVars
<1>1. f \in Frames /\ FrameInOrder(f)
  BY FrameFacts
<1>2. /\ \A g \in wire' :
            \/ g \in wire
            \/ /\ g.seq = f.seq /\ g.receipt = f.receipt
               /\ g.step = "refused" /\ g.live = f.live /\ g.live
      /\ wire' \subseteq Frames
      /\ \A g, h \in wire' : g.live /\ h.live => g = h
  BY BecomeFacts
<1>3. DeliveryTypeOK'
  BY <1>2, FaultCounted DEF DeliveryTypeOK
<1>4. WireFollowsLog'
  BY <1>1, <1>2 DEF WireFollowsLog, FrameInOrder
<1>5. PositionInLog'
  BY DEF PositionInLog
<1> QED
  BY <1>3, <1>4, <1>5, DecisionsStay, LedgerStays, LogStays, OutboxStays,
     CopyStays, DeletedStays, ExchangeStays, ServingStays

LEMMA CopyKeeps ==
    ASSUME DeliveryInv, Copy
    PROVE  DeliveryInv'
<1> USE DEF DeliveryInv, Copy, serverVars, memoryVars, boundVars
<1>1. /\ backup'.last = Len(log) /\ backup'.queued = queued
      /\ Len(log) \in Nat
  BY Counts
<1>2. DeliveryTypeOK'
  BY <1>1 DEF DeliveryTypeOK
<1>3. CopyIsOlder'
  BY <1>1 DEF CopyIsOlder, OutboxIsTail, Owed
<1>4. DeletedIsConfirmed'
  BY <1>1 DEF DeletedIsConfirmed, Confirmed
<1> QED
  BY <1>2, <1>3, <1>4, DecisionsStay, LedgerStays, LogStays, OutboxStays,
     WireStays, ExchangeStays, ServingStays, PositionStays

LEMMA RestoreKeeps ==
    ASSUME DeliveryInv, Restore
    PROVE  DeliveryInv'
<1> USE DEF DeliveryInv, Restore, serverVars, memoryVars
<1>1. Len(log) \in Nat /\ backup.last \in 0..Len(log)
  BY Counts DEF CopyIsOlder, DeliveryTypeOK
<1>2. /\ log' \in Seq(Receipts) /\ Len(log') = backup.last
      /\ \A s \in 1..backup.last : log'[s] = log[s]
  <2>1. \A s \in 1..backup.last : log[s] \in Receipts
    BY <1>1, ElementOfSeq DEF DeliveryTypeOK
  <2> QED
    BY <1>1, <2>1, SubSeqProperties
<1>3. \A s \in 1..backup.last : s \in 1..Len(log)
  BY <1>1
<1>4. DeliveryTypeOK'
  BY <1>2, DeliveryAssumption DEF DeliveryTypeOK
<1>5. DecisionsAgree'
  BY <1>2, <1>3 DEF DecisionsAgree, FromInbox
<1>6. LogInOrder'
  <2>1. ASSUME NEW s \in 1..backup.last
        PROVE  log'[s][1] <= Answered + 1 \/ (s > 1 /\ log'[s][1] = log'[s - 1][1] + 1)
    <3>1. s > 1 => s - 1 \in 1..backup.last
      BY <1>1
    <3> QED
      BY <3>1, <1>2, <1>3 DEF LogInOrder
  <2> QED
    BY <2>1, <1>2 DEF LogInOrder, Answered
<1>7. OutboxIsTail'
  BY <1>2 DEF OutboxIsTail, CopyIsOlder, Owed
<1>8. CopyIsOlder'
  BY <1>1, <1>2 DEF CopyIsOlder
<1>9. DeletedIsConfirmed'
  BY <1>2 DEF DeletedIsConfirmed, Confirmed
<1>10. WireFollowsLog'
  BY DEF WireFollowsLog
<1>11. ExchangeInOrder' /\ ServingContinues'
  BY DEF ExchangeInOrder, ServingContinues
<1>12. PositionInLog'
  BY DEF PositionInLog, DeliveryTypeOK
<1> QED
  BY <1>4, <1>5, <1>6, <1>7, <1>8, <1>9, <1>10, <1>11, <1>12, LedgerStays

LEMMA DeliveryStep == DeliveryInv /\ [Next]_deliveryVars => DeliveryInv'
<1> SUFFICES ASSUME DeliveryInv, [Next]_deliveryVars
             PROVE  DeliveryInv'
  OBVIOUS
<1>1. CASE DaemonStep
  BY <1>1, RegisterKeeps, StrandKeeps, SendFrameKeeps, ReadAckKeeps,
     ReadRejectionKeeps, TimeoutKeeps, PollKeeps, ReceiveKeeps, EnqueueKeeps,
     ServedKeeps DEF DaemonStep
<1>2. CASE ServerStep
  BY <1>2, ServerRecordKeeps, ServerRefuseKeeps, ServerAdvanceKeeps
  DEF ServerStep
<1>3. CASE Environment
  BY <1>3, IssueKeeps, ExpireKeeps, ServerLoseKeeps, ServerExhaustedKeeps,
     DisconnectKeeps, CrashKeeps, CopyKeeps, RestoreKeeps DEF Environment
<1>4. CASE UNCHANGED deliveryVars
  <2> USE <1>4 DEF DeliveryInv, deliveryVars, serverVars, durableVars,
                   memoryVars, boundVars
  <2>1. DeliveryTypeOK'
    BY DEF DeliveryTypeOK
  <2> QED
    BY <2>1, DecisionsStay, LedgerStays, LogStays, OutboxStays, CopyStays,
       DeletedStays, WireStays, ExchangeStays, ServingStays, PositionStays
<1> QED
  BY <1>1, <1>2, <1>3, <1>4 DEF Next

\* The inductive invariant holds, whatever drops, crashes, is lost or is
\* restored (daemon/runtime.rs, outbox.rs, inbox.rs, directive_store,
\* supervisor_store).
LEMMA DeliveryInvariant == DeliverySpec => []DeliveryInv
BY DeliveryInitially, DeliveryStep, PTL DEF DeliverySpec

----------------------------------------------------------------------------
(* Theorems *)

\* Every variable of the control loop keeps its type: a sequence number is
\* an issued one, the queue is a part of the log, counters stay in bounds.
THEOREM DeliveryIsTyped == DeliverySpec => []DeliveryTypeOK
<1>1. DeliveryInv => DeliveryTypeOK
  BY DEF DeliveryInv
<1> QED
  BY <1>1, DeliveryInvariant, PTL

\* The ledger is a prefix: at any moment it holds exactly the decisions of
\* the first directives, each once, as the inbox took them (record_receipt,
\* receive).
THEOREM LedgerStaysPrefix == DeliverySpec => []LedgerIsPrefix
<1>1. DeliveryInv => LedgerIsPrefix
  BY DEF DeliveryInv
<1> QED
  BY <1>1, DeliveryInvariant, PTL

\* acknowledge_through deletes a frame only when the server has recorded its
\* receipt, whatever is lost, late, crashed or restored.
THEOREM PrunedStaysRecorded == DeliverySpec => []PrunedIsRecorded
<1>1. DeliveryInv => PrunedIsRecorded
  BY DEF DeliveryInv, PrunedIsRecorded, DeletedIsConfirmed, Confirmed
<1> QED
  BY <1>1, DeliveryInvariant, PTL

\* A serving daemon is inside the interval its outbox can replay, and one
\* that stopped with IncompleteEvidence had its outbox replaced (reconcile).
THEOREM ServingStaysReconciled == DeliverySpec => []ServingIsReconciled
<1>1. DeliveryInv => ServingIsReconciled
  <2> SUFFICES ASSUME DeliveryInv
               PROVE  ServingIsReconciled
    OBVIOUS
  <2>1. ASSUME phase # "off", IncompleteEvidence
        PROVE  FALSE
    <3>1. accepted # None /\ accepted > Len(log)
      BY <2>1, NeverBehind DEF IncompleteEvidence
    <3>2. accepted <= Len(log)
      BY <2>1, <3>1 DEF DeliveryInv, PositionInLog
    <3> QED
      BY <3>1, <3>2, NeverBehind
  <2> QED
    BY <2>1 DEF ServingIsReconciled, DeliveryInv, PositionInLog
<1> QED
  BY <1>1, DeliveryInvariant, PTL

\* A delivery never leaves a gap for `receive` to refuse, so SequenceGap
\* never ends the daemon (pending_for_session, receive).
THEOREM DeliveryNeverGaps == DeliverySpec => []InboxFollowsDelivery
<1>1. DeliveryInv => InboxFollowsDelivery
  <2> SUFFICES ASSUME DeliveryInv, NEW i \in 1..Len(buf)
               PROVE  buf[i] <= Len(inbox) + i
    BY DEF InboxFollowsDelivery
  <2>1. phase = "serve"
    BY DEF DeliveryInv, ExchangeInOrder
  <2>2. /\ buf[i] = Answered + Owed + InHand + i
        /\ Answered + Owed + InHand <= Len(inbox)
    BY <2>1 DEF DeliveryInv, ServingContinues
  <2> QED
    BY <2>2, Counts DEF DeliveryInv
<1> QED
  BY <1>1, DeliveryInvariant, PTL

\* The outbox never owes more than one delivery batch, although enqueue has
\* no limit of its own.
THEOREM BacklogStaysBounded == DeliverySpec => []BacklogBounded
<1>1. DeliveryInv => BacklogBounded
  BY DEF DeliveryInv, OutboxIsTail, Owed, BacklogBounded
<1> QED
  BY <1>1, DeliveryInvariant, PTL

\* A step of the control loop is a step of the contract, or leaves what the
\* contract sees alone.
LEMMA ContractStep ==
    ASSUME DeliveryInv, [Next]_deliveryVars
    PROVE  [Contract!ContractNext]_<<issued, inbox, receipts>>
<1> USE DEF serverVars, durableVars, memoryVars, boundVars
<1>1. CASE Issue
  BY <1>1 DEF Issue, Contract!ContractNext, Contract!IssueOne
<1>2. CASE Receive
  <2>1. UNCHANGED <<issued, receipts>>
    BY <1>2 DEF Receive
  <2>2. CASE inbox' = inbox
    BY <2>1, <2>2
  <2>3. ASSUME Head(buf) = Len(inbox) + 1, NEW d \in Decide(Head(buf)),
               inbox' = Append(inbox, d)
        PROVE  Contract!DecideOne
    <3>1. Head(buf) <= issued
      BY <1>2, HeadContinues DEF Receive
    <3>2. Len(inbox) < issued
      BY <2>3, <3>1, Counts DEF DeliveryInv
    <3>3. d \in Decisions
      BY DEF Decide
    <3> QED
      BY <2>1, <2>3, <3>2, <3>3 DEF Contract!DecideOne
  <2> QED
    BY <1>2, <2>2, <2>3 DEF Receive, Contract!ContractNext
<1>3. ASSUME NEW f \in wire, ServerRecord(f)
      PROVE  [Contract!ContractNext]_<<issued, inbox, receipts>>
  <2>1. UNCHANGED <<issued, inbox>>
    BY <1>3 DEF ServerRecord
  <2>2. CASE receipts' = receipts
    BY <2>1, <2>2
  <2>3. CASE receipts' # receipts
    <3>1. /\ receipts' = receipts \cup {<<Answered + 1, inbox[Answered + 1]>>}
          /\ Answered + 1 <= Len(inbox)
      BY <1>3, <2>3, RecordExtends
    <3>2. Contract!Cardinality(receipts) = Answered
      BY Zenon DEF Contract!Cardinality, Cardinality, Answered
    <3>3. Contract!RecordOne
      BY <2>1, <3>1, <3>2 DEF Contract!RecordOne
    <3> QED
      BY <3>3 DEF Contract!ContractNext
  <2> QED
    BY <2>2, <2>3
<1>4. CASE DaemonStep /\ ~Receive
  BY <1>4 DEF DaemonStep, Register, Strand, SendFrame, ReadAck,
     ReadRejection, Timeout, Poll, Enqueue, Served
<1>5. CASE ServerStep /\ ~\E f \in wire : ServerRecord(f)
  BY <1>5 DEF ServerStep, ServerRefuse, ServerAdvance
<1>6. CASE Environment /\ ~Issue
  BY <1>6 DEF Environment, Expire, ServerLose, ServerExhausted, Disconnect, Crash, Copy, Restore
<1>7. CASE UNCHANGED deliveryVars
  BY <1>7 DEF deliveryVars
<1> QED
  BY <1>1, <1>2, <1>3, <1>4, <1>5, <1>6, <1>7 DEF Next

\* The control loop implements its contract: each directive is decided once
\* and in order, and the ledger records each decision once and in order,
\* however often the connection dropped, the process died or the outbox was
\* replaced.
THEOREM DeliveryImplementsContract == DeliverySpec => ImplementsContract
<1>1. Init => Contract!ContractInit
  BY DEF Init, Contract!ContractInit
<1>2. DeliveryInv /\ [Next]_deliveryVars
      => [Contract!ContractNext]_Contract!contractVars
  BY ContractStep DEF Contract!contractVars
<1> QED
  BY <1>1, <1>2, DeliveryInvariant, PTL
  DEF DeliverySpec, ImplementsContract, Contract!ContractSpec

=============================================================================
