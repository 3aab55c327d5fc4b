----------------------- MODULE FederatedClaimProofs -----------------------
(***************************************************************************)
(* Proofs about FederatedClaim, for every set of sessions and nodes, every *)
(* set of lease lengths and every bound.                                   *)
(*                                                                         *)
(* What a node shows is what a session was told, and what a session was    *)
(* told is what the row was when its request was decided: the inductive    *)
(* invariant follows a grant along that way.                               *)
(***************************************************************************)
EXTENDS FederatedClaim, TLAPS

\* The holder in the row was granted the task on the node in the row.
RowWasGranted ==
    row.owner # None => <<row.owner, row.node>> \in ever

\* A session about to write an owner into its cache was told of a grant to
\* that owner on its own node.
ToldWasGranted ==
    \A s \in Sessions :
        told[s] # None /\ told[s].op \in {"claim", "renew", "recover"} =>
            <<told[s].owner, Node(s)>> \in ever

\* The lease in the row runs at least as long as its custodian was told.
PromiseStands == promise # None => promise <= row.expires

FederatedInv ==
    /\ FederatedTypeOK
    /\ HistoryRebuildsLease
    /\ PromiseStands
    /\ RowWasGranted
    /\ ToldWasGranted
    /\ CachedOwnerHeldClaim

----------------------------------------------------------------------------
(* What a decision yields *)

\* A request that has arrived carries a time, an owner and a known node.
LEMMA RequestFields ==
    ASSUME FederatedTypeOK, NEW q \in pending
    PROVE  /\ q \in Request
           /\ q.op \in Ops /\ q.by \in Sessions /\ q.owner \in Agents
           /\ q.expect \in Agents /\ q.lease \in Leases /\ q.lease \in Nat
           /\ q.at \in Nat \cup {None} /\ Branch(q) \in Branches
           /\ q.live \in BOOLEAN /\ Node(q.by) \in Nodes
           /\ q.owner # None /\ Node(q.by) # None
<1>1. q \in Request
  BY DEF FederatedTypeOK
<1>2. q.by \in Sessions /\ q.signed \in 0..MaxClock
  BY <1>1 DEF Request
<1>3. Declared[q.by] \in [0..MaxClock -> Branches]
  BY <1>2, FederatedAssumption
<1>4. Branch(q) \in Branches
  BY <1>2, <1>3 DEF Branch
<1>5. Node(q.by) \in Nodes
  BY <1>2, FederatedAssumption DEF Node
<1>6. q.lease \in Nat
  BY <1>1, FederatedAssumption DEF Request
<1> QED  BY <1>1, <1>2, <1>4, <1>5, <1>6, FederatedAssumption DEF Request

\* The fields of the row.
LEMMA RowFields ==
    ASSUME FederatedTypeOK
    PROVE  /\ row = [owner |-> row.owner, node |-> row.node,
                     branch |-> row.branch,
                     started |-> row.started, expires |-> row.expires,
                     lapses |-> row.lapses, parked |-> row.parked]
           /\ row.branch \in Branches \cup {None}
           /\ row.owner \in Agents \cup {None}
           /\ row.node \in Nodes \cup {None}
           /\ row.started \in Nat /\ row.expires \in Nat
           /\ row.lapses \in Nat /\ row.parked \in BOOLEAN
BY DEF FederatedTypeOK, Claim

\* What a grant writes: the requester, its node, a window that continues or
\* starts with the clock sample.
LEMMA GrantFields ==
    ASSUME FederatedTypeOK, NEW q \in pending, q.at # None, NEW lapses \in Nat
    PROVE  /\ GrantedTo(q, lapses).tag = "granted"
           /\ GrantedTo(q, lapses).row =
                  [owner |-> q.owner, node |-> Node(q.by),
                   branch |-> GrantedTo(q, lapses).row.branch,
                   started |-> GrantedTo(q, lapses).row.started,
                   expires |-> q.at + q.lease,
                   lapses |-> GrantedTo(q, lapses).row.lapses,
                   parked |-> row.parked]
           /\ GrantedTo(q, lapses).row.started \in Nat
           /\ GrantedTo(q, lapses).row.lapses \in Nat
           /\ GrantedTo(q, lapses).row.branch \in Branches \cup {None}
           /\ SameOwner(q) => /\ GrantedTo(q, lapses).row.started = row.started
                              /\ GrantedTo(q, lapses).row.branch = row.branch
           /\ ~SameOwner(q) => GrantedTo(q, lapses).row.started = q.at
<1> DEFINE t == IF SameOwner(q) THEN row.started ELSE q.at
           b == IF SameOwner(q) THEN row.branch ELSE Branch(q)
<1>1. t \in Nat /\ b \in Branches \cup {None}
  BY RequestFields, RowFields
<1>2. GrantedTo(q, lapses).row =
          [owner |-> q.owner, node |-> Node(q.by), branch |-> b, started |-> t,
           expires |-> q.at + q.lease, lapses |-> lapses,
           parked |-> row.parked]
  BY DEF GrantedTo, Decided
<1>3. GrantedTo(q, lapses).tag = "granted"
  BY DEF GrantedTo, Decided
<1> HIDE DEF t, b
<1>4. /\ GrantedTo(q, lapses).row.started = t
      /\ GrantedTo(q, lapses).row.branch = b
      /\ GrantedTo(q, lapses).row.lapses = lapses
  BY <1>2
<1> QED  BY <1>1, <1>2, <1>3, <1>4 DEF t, b

\* What a decision may be: nothing, a grant to the requester on its own node,
\* or a change of the lease alone that leaves the custody where it is.
LEMMA DecisionOutcome ==
    ASSUME FederatedTypeOK, NEW q \in pending, q.at # None, ~Forbidden(q)
    PROVE  LET d == Decision(q) IN
           \/ /\ d.tag \in {"rejected", "not_released", "not_parked",
                            "not_answered"}
              /\ d.row = row
           \/ /\ d.tag = "granted" /\ q.op \in {"claim", "recover"}
              /\ d.row = [owner |-> q.owner, node |-> Node(q.by),
                          branch |-> d.row.branch,
                          started |-> d.row.started,
                          expires |-> q.at + q.lease,
                          lapses |-> d.row.lapses, parked |-> row.parked]
              /\ d.row.started \in Nat /\ d.row.lapses \in Nat
              /\ d.row.branch \in Branches \cup {None}
              /\ SameOwner(q) => /\ d.row.started = row.started
                                 /\ d.row.branch = row.branch
              /\ ~SameOwner(q) =>
                     /\ d.row.started = q.at
                     /\ row.owner = None
                        \/ (~row.parked /\ row.expires < q.at)
           \/ /\ d.tag = "granted" /\ q.op = "renew"
              /\ row.owner = q.owner /\ row.node = Node(q.by)
              /\ d.row = [row EXCEPT !.expires = q.at + q.lease]
           \/ /\ d.tag = "released" /\ q.op = "release"
              /\ row.owner = q.owner /\ row.node = Node(q.by)
              /\ d.row = [row EXCEPT !.expires = q.at]
           \/ /\ d.tag = "parked" /\ q.op = "park"
              /\ row.owner = q.owner /\ row.node = Node(q.by)
              /\ d.row = [row EXCEPT !.expires = q.at, !.parked = TRUE]
           \/ /\ d.tag = "answered" /\ q.op = "answer"
              /\ row.owner = q.owner /\ row.node = Node(q.by)
              /\ d.row = [row EXCEPT !.expires = q.at + q.lease,
                                     !.parked = FALSE]
<1>1. q.at \in Nat /\ q.lease \in Nat
  BY RequestFields
<1>2. CASE q.op = "claim"
  <2>1. Decision(q) = Delegate(q)
    BY <1>2 DEF Decision
  <2>2. CASE row.owner = None
    <3>1. Decision(q) = GrantedTo(q, 0) /\ ~SameOwner(q)
      BY <2>1, <2>2, RequestFields DEF Delegate, SameOwner
    <3> QED  BY <1>2, <2>2, <3>1, GrantFields
  <2>3. CASE row.owner # None /\ (row.parked \/ (~SameOwner(q) /\ row.expires >= q.at))
    BY <2>1, <2>3 DEF Delegate, Decided
  <2>4. CASE /\ row.owner # None
             /\ ~(row.parked \/ (~SameOwner(q) /\ row.expires >= q.at))
    <3> DEFINE l == row.lapses + IF row.expires < q.at THEN 1 ELSE 0
    <3>1. Decision(q) = GrantedTo(q, l)
      BY <2>1, <2>4 DEF Delegate
    <3>2. l \in Nat
      BY RowFields
    <3>3. ~row.parked /\ (SameOwner(q) \/ row.expires < q.at)
      BY <1>1, <2>4, RowFields
    <3> HIDE DEF l
    <3> QED  BY <1>2, <3>1, <3>2, <3>3, GrantFields
  <2> QED  BY <2>2, <2>3, <2>4
<1>3. CASE q.op = "recover"
  <2>1. Decision(q) = Recover(q)
    BY <1>3 DEF Decision
  <2>2. CASE \/ row.owner = None \/ row.parked \/ row.owner # q.expect
             \/ row.expires >= q.at
    BY <2>1, <2>2 DEF Recover, Decided
  <2>3. CASE ~(\/ row.owner = None \/ row.parked \/ row.owner # q.expect
               \/ row.expires >= q.at)
    <3>1. Decision(q) = GrantedTo(q, row.lapses + 1)
      BY <2>1, <2>3 DEF Recover
    <3>2. row.lapses + 1 \in Nat /\ ~row.parked /\ row.expires < q.at
      BY <1>1, <2>3, RowFields
    <3> QED  BY <1>3, <3>1, <3>2, GrantFields
  <2> QED  BY <2>2, <2>3
<1>4. CASE q.op = "renew"
  <2>1. Decision(q) = Renew(q) /\ ~Mismatch(q)
    BY <1>4 DEF Decision, Forbidden
  <2> QED  BY <1>4, <2>1 DEF Renew, Decided, Mismatch
<1>5. CASE q.op = "release"
  <2>1. Decision(q) = Release(q)
    BY <1>5 DEF Decision
  <2> QED  BY <1>5, <2>1 DEF Release, Decided, SameOwner
<1>6. CASE q.op = "park"
  <2>1. Decision(q) = Park(q)
    BY <1>6 DEF Decision
  <2> QED  BY <1>6, <2>1 DEF Park, Decided, SameOwner
<1>7. CASE q.op = "answer"
  <2>1. Decision(q) = Answer(q) /\ ~Mismatch(q)
    BY <1>7 DEF Decision, Forbidden
  <2> QED  BY <1>7, <2>1 DEF Answer, Decided, Mismatch
<1> QED
  BY <1>2, <1>3, <1>4, <1>5, <1>6, <1>7, RequestFields DEF Ops, Grants

\* A change of the lease leaves the other columns alone.
LEMMA LeaseUpdate ==
    ASSUME row \in Claim, NEW x \in Nat, NEW r,
           r = [row EXCEPT !.expires = x]
    PROVE  /\ r \in Claim /\ r.owner = row.owner /\ r.node = row.node
           /\ r.started = row.started /\ r.parked = row.parked
           /\ r.branch = row.branch
BY DEF Claim

\* So does a change of the lease that parks the claim.
LEMMA ParkUpdate ==
    ASSUME row \in Claim, NEW x \in Nat, NEW r,
           r = [row EXCEPT !.expires = x, !.parked = TRUE]
    PROVE  /\ r \in Claim /\ r.owner = row.owner /\ r.node = row.node
           /\ r.started = row.started /\ r.branch = row.branch
BY DEF Claim

\* And one that ends the parking.
LEMMA AnswerUpdate ==
    ASSUME row \in Claim, NEW x \in Nat, NEW r,
           r = [row EXCEPT !.expires = x, !.parked = FALSE]
    PROVE  /\ r \in Claim /\ r.owner = row.owner /\ r.node = row.node
           /\ r.started = row.started /\ r.parked = FALSE
           /\ r.branch = row.branch
BY DEF Claim

\* The fields of a grant.
LEMMA GrantTyped ==
    ASSUME FederatedTypeOK, NEW q \in pending, q.at # None,
           NEW t \in Nat, NEW l \in Nat, NEW b \in Branches \cup {None}, NEW r,
           r = [owner |-> q.owner, node |-> Node(q.by), branch |-> b,
                started |-> t,
                expires |-> q.at + q.lease, lapses |-> l,
                parked |-> row.parked]
    PROVE  /\ r \in Claim /\ r.owner = q.owner /\ r.node = Node(q.by)
           /\ r.parked = row.parked
<1>1. q.at + q.lease \in Nat
  BY RequestFields
<1> QED  BY <1>1, RequestFields, RowFields DEF Claim

\* The row a decision leaves: typed; owned on a node; on the requester's node
\* after a grant or an answer; with the custody it had unless a claim or a
\* recovery moved it.
LEMMA DecisionTyped ==
    ASSUME FederatedTypeOK, NEW q \in pending, q.at # None, ~Forbidden(q)
    PROVE  LET d == Decision(q) IN
           /\ d.row \in Claim
           /\ d.tag \in {"granted", "answered"} =>
                  /\ d.row.node = Node(q.by)
                  /\ d.row.parked = (d.tag = "granted" /\ row.parked)
           /\ \/ /\ d.row.owner = row.owner /\ d.row.node = row.node
                 /\ d.row.started = row.started
                 /\ d.row.branch = row.branch
              \/ /\ d.row.owner = q.owner /\ d.row.node = Node(q.by)
                 /\ ~SameOwner(q) /\ d.row.started = q.at
                 /\ row.owner = None \/ (~row.parked /\ row.expires < q.at)
<1> DEFINE d == Decision(q)
<1>1. q.at \in Nat /\ q.lease \in Nat /\ q.at + q.lease \in Nat
  BY RequestFields
<1>2. row \in Claim
  BY DEF FederatedTypeOK
<1>3. CASE /\ d.tag \in {"rejected", "not_released", "not_parked",
                         "not_answered"}
           /\ d.row = row
  <2> HIDE DEF d
  <2>1. d.tag \notin {"granted", "answered"}
    BY <1>3
  <2> QED  BY <1>2, <1>3, <2>1 DEF d
<1>4. CASE /\ d.tag = "granted"
           /\ d.row = [owner |-> q.owner, node |-> Node(q.by),
                       branch |-> d.row.branch,
                       started |-> d.row.started,
                       expires |-> q.at + q.lease,
                       lapses |-> d.row.lapses, parked |-> row.parked]
           /\ d.row.started \in Nat /\ d.row.lapses \in Nat
           /\ d.row.branch \in Branches \cup {None}
           /\ SameOwner(q) => /\ d.row.started = row.started
                              /\ d.row.branch = row.branch
           /\ ~SameOwner(q) =>
                  /\ d.row.started = q.at
                  /\ row.owner = None
                     \/ (~row.parked /\ row.expires < q.at)
  <2>1. /\ d.row \in Claim /\ d.row.owner = q.owner
        /\ d.row.node = Node(q.by) /\ d.row.parked = row.parked
    BY <1>4, GrantTyped
  <2>2. row.parked \in BOOLEAN
    BY RowFields
  <2> HIDE DEF d
  <2>3. CASE SameOwner(q)
    BY <1>4, <2>1, <2>2, <2>3 DEF d, SameOwner
  <2>4. CASE ~SameOwner(q)
    BY <1>4, <2>1, <2>2, <2>4 DEF d
  <2> QED  BY <2>3, <2>4
<1>5. CASE /\ d.tag = "granted" /\ row.node = Node(q.by)
           /\ d.row = [row EXCEPT !.expires = q.at + q.lease]
  <2>1. /\ d.row \in Claim /\ d.row.owner = row.owner
        /\ d.row.node = row.node /\ d.row.started = row.started
        /\ d.row.parked = row.parked
        /\ d.row.branch = row.branch
    BY <1>1, <1>2, <1>5, LeaseUpdate
  <2>2. row.parked \in BOOLEAN
    BY RowFields
  <2> HIDE DEF d
  <2> QED  BY <1>5, <2>1, <2>2 DEF d
<1>6. CASE d.tag = "released" /\ d.row = [row EXCEPT !.expires = q.at]
  <2>1. /\ d.row \in Claim /\ d.row.owner = row.owner
        /\ d.row.node = row.node /\ d.row.started = row.started
        /\ d.row.branch = row.branch
    BY <1>1, <1>2, <1>6, LeaseUpdate
  <2> HIDE DEF d
  <2> QED  BY <1>6, <2>1 DEF d
<1>7. CASE /\ d.tag = "parked"
           /\ d.row = [row EXCEPT !.expires = q.at, !.parked = TRUE]
  <2>1. /\ d.row \in Claim /\ d.row.owner = row.owner
        /\ d.row.node = row.node /\ d.row.started = row.started
        /\ d.row.branch = row.branch
    BY <1>1, <1>2, <1>7, ParkUpdate
  <2> HIDE DEF d
  <2> QED  BY <1>7, <2>1 DEF d
<1>8. CASE /\ d.tag = "answered" /\ row.node = Node(q.by)
           /\ d.row = [row EXCEPT !.expires = q.at + q.lease,
                                  !.parked = FALSE]
  <2>1. /\ d.row \in Claim /\ d.row.owner = row.owner
        /\ d.row.node = row.node /\ d.row.started = row.started
        /\ d.row.parked = FALSE
        /\ d.row.branch = row.branch
    BY <1>1, <1>2, <1>8, AnswerUpdate
  <2> HIDE DEF d
  <2> QED  BY <1>8, <2>1 DEF d
<1> QED  BY <1>3, <1>4, <1>5, <1>6, <1>7, <1>8, DecisionOutcome

\* Replaying the line a decision appends to the history yields the row the
\* decision leaves.
LEMMA EntryReplays ==
    ASSUME FederatedTypeOK, NEW q \in pending, q.at # None, ~Forbidden(q)
    PROVE  Replayed(Recorded(row), Entry(q, Decision(q))) =
               Recorded(Decision(q).row)
<1> DEFINE d == Decision(q)
           e == Entry(q, d)
<1>1. d.row \in Claim /\ row \in Claim
  BY DecisionTyped DEF FederatedTypeOK
<1>2. CASE d.tag \in {"granted", "answered"}
  <2>1. /\ d.row.node = Node(q.by)
        /\ d.row.parked = (d.tag = "granted" /\ row.parked)
    BY <1>2, DecisionTyped
  <2>2. e = [tag |-> d.tag, owner |-> d.row.owner, node |-> Node(q.by),
             started |-> d.row.started, expires |-> d.row.expires,
             lapses |-> d.row.lapses]
    BY <1>2 DEF Entry
  <2> HIDE DEF d, e
  <2>3. Replayed(Recorded(row), e) =
            [owner |-> d.row.owner, node |-> d.row.node,
             started |-> d.row.started, expires |-> d.row.expires,
             lapses |-> d.row.lapses, parked |-> d.row.parked]
    BY <1>2, <2>1, <2>2 DEF Replayed, Recorded
  <2>4. Replayed(Recorded(row), e) = Recorded(d.row)
    BY <2>3 DEF Recorded
  <2> QED  BY <2>4 DEF d, e
<1>3. CASE d.tag = "released"
  <2>1. d.row = [row EXCEPT !.expires = q.at]
    BY <1>3, DecisionOutcome
  <2>2. e.tag = "released" /\ e.expires = q.at
    BY <1>3 DEF Entry
  <2> HIDE DEF d, e
  <2>3. Replayed(Recorded(row), e) = Recorded(d.row)
    BY <1>1, <2>1, <2>2 DEF Replayed, Recorded, Claim
  <2> QED  BY <2>3 DEF d, e
<1>4. CASE d.tag = "parked"
  <2>1. d.row = [row EXCEPT !.expires = q.at, !.parked = TRUE]
    BY <1>4, DecisionOutcome
  <2>2. e.tag = "parked" /\ e.expires = q.at
    BY <1>4 DEF Entry
  <2> HIDE DEF d, e
  <2>3. Replayed(Recorded(row), e) = Recorded(d.row)
    BY <1>1, <2>1, <2>2 DEF Replayed, Recorded, Claim
  <2> QED  BY <2>3 DEF d, e
<1>5. CASE d.tag \in {"rejected", "not_released", "not_parked",
                      "not_answered"}
  <2>1. d.row = row
    BY <1>5, DecisionOutcome
  <2>2. e.tag = d.tag
    BY <1>5 DEF Entry
  <2> HIDE DEF d, e
  <2>3. Replayed(Recorded(row), e) = Recorded(d.row)
    BY <1>5, <2>1, <2>2 DEF Replayed
  <2> QED  BY <2>3 DEF d, e
<1> QED  BY <1>2, <1>3, <1>4, <1>5, DecisionOutcome

\* A decision with an effect is made in the name and from the node of the
\* custodian it leaves; one without leaves the row.
LEMMA EffectiveInName ==
    ASSUME FederatedTypeOK, NEW q \in pending, q.at # None, ~Forbidden(q)
    PROVE  LET d == Decision(q) IN
           \/ d.row = row
           \/ Effective(d) /\ Custody(d.row) = <<q.owner, Node(q.by)>>
<1> DEFINE d == Decision(q)
<1>1. q.at \in Nat /\ q.at + q.lease \in Nat /\ row \in Claim
  BY RequestFields DEF FederatedTypeOK
<1>2. CASE ~Effective(d)
  BY <1>2, DecisionOutcome DEF Effective
<1>3. CASE Effective(d)
  <2>1. d.row.owner = q.owner /\ d.row.node = Node(q.by)
    <3>1. CASE d.tag = "granted" /\ q.op \in {"claim", "recover"}
      <4>1. d.row = [owner |-> q.owner, node |-> Node(q.by),
                     branch |-> d.row.branch, started |-> d.row.started,
                     expires |-> q.at + q.lease,
                     lapses |-> d.row.lapses, parked |-> row.parked]
        BY <3>1, DecisionOutcome
      <4> HIDE DEF d
      <4> QED  BY <4>1
    <3>2. CASE d.tag = "granted" /\ q.op = "renew"
      <4>1. /\ row.owner = q.owner /\ row.node = Node(q.by)
            /\ d.row = [row EXCEPT !.expires = q.at + q.lease]
        BY <3>2, DecisionOutcome
      <4> HIDE DEF d
      <4> QED  BY <1>1, <4>1, LeaseUpdate
    <3>3. CASE d.tag = "released"
      <4>1. /\ row.owner = q.owner /\ row.node = Node(q.by)
            /\ d.row = [row EXCEPT !.expires = q.at]
        BY <3>3, DecisionOutcome
      <4> HIDE DEF d
      <4> QED  BY <1>1, <4>1, LeaseUpdate
    <3>4. CASE d.tag = "parked"
      <4>1. /\ row.owner = q.owner /\ row.node = Node(q.by)
            /\ d.row = [row EXCEPT !.expires = q.at, !.parked = TRUE]
        BY <3>4, DecisionOutcome
      <4> HIDE DEF d
      <4> QED  BY <1>1, <4>1, ParkUpdate
    <3>5. CASE d.tag = "answered"
      <4>1. /\ row.owner = q.owner /\ row.node = Node(q.by)
            /\ d.row = [row EXCEPT !.expires = q.at + q.lease,
                                   !.parked = FALSE]
        BY <3>5, DecisionOutcome
      <4> HIDE DEF d
      <4> QED  BY <1>1, <4>1, AnswerUpdate
    <3>6. d.tag = "granted" => q.op \in {"claim", "recover", "renew"}
      BY DecisionOutcome
    <3> HIDE DEF d
    <3> QED  BY <1>3, <3>1, <3>2, <3>3, <3>4, <3>5, <3>6 DEF Effective
  <2> HIDE DEF d
  <2>2. Effective(d) /\ Custody(d.row) = <<q.owner, Node(q.by)>>
    BY <1>3, <2>1 DEF Custody
  <2> QED  BY <2>2 DEF d
<1> QED  BY <1>2, <1>3

\* What the custodian goes by after a decision is no later than the lease the
\* decision leaves.
LEMMA PromiseKept ==
    ASSUME FederatedTypeOK, NEW q \in pending, q.at # None, ~Forbidden(q),
           PromiseStands
    PROVE  LET d == Decision(q)
               p == Promised(q, d)
           IN  p \in Nat \cup {None} /\ (p # None => p <= d.row.expires)
<1> DEFINE d == Decision(q)
<1>1. /\ d.row.expires \in Nat /\ row.expires \in Nat
      /\ promise \in Nat \cup {None} /\ q.live \in BOOLEAN
  <2>1. d.row \in Claim
    BY DecisionTyped
  <2> HIDE DEF d
  <2> QED  BY <2>1, RowFields, RequestFields DEF Claim, FederatedTypeOK
<1>2. \/ d.row = row
      \/ Effective(d) /\ Custody(d.row) = <<q.owner, Node(q.by)>>
  BY EffectiveInName
<1>3. None \notin Nat
  BY FederatedAssumption
<1> HIDE DEF d
<1>4. /\ Promised(q, d) \in Nat \cup {None}
      /\ Promised(q, d) # None => Promised(q, d) <= d.row.expires
  BY <1>1, <1>2, <1>3 DEF Promised, PromiseStands
<1> QED  BY <1>4 DEF d

\* What a claim, a renewal or a recovery tells its session is a grant on the
\* session's own node.
LEMMA GrantIsLocal ==
    ASSUME FederatedTypeOK, NEW q \in pending, q.at # None, ~Forbidden(q),
           Granted(q, Decision(q)), q.op \in {"claim", "renew", "recover"}
    PROVE  Decision(q).row.node = Node(q.by)
<1>1. Decision(q).tag \in {"granted", "released", "parked", "answered"}
  BY DEF Granted, Effective
<1>2. Decision(q).tag \notin {"released", "parked", "answered"}
  BY DecisionOutcome
<1> QED  BY <1>1, <1>2, DecisionTyped

----------------------------------------------------------------------------
(* The invariant is inductive *)

\* The initial state satisfies the invariant.
LEMMA FederatedInit == Init => FederatedInv
<1> SUFFICES ASSUME Init PROVE FederatedInv
  OBVIOUS
<1>1. FederatedTypeOK
  BY FederatedAssumption
     DEF Init, FederatedTypeOK, Claim, Lease, Recorded, Unclaimed, Columns,
         Unowned
<1>2. HistoryRebuildsLease /\ PromiseStands /\ RowWasGranted
  BY DEF Init, HistoryRebuildsLease, PromiseStands, RowWasGranted, Unclaimed
<1>3. ToldWasGranted /\ CachedOwnerHeldClaim
  BY DEF Init, ToldWasGranted, CachedOwnerHeldClaim, Unowned
<1> QED  BY <1>1, <1>2, <1>3 DEF FederatedInv

\* A request that is sent has the type of a request.
LEMMA SendTyped ==
    ASSUME FederatedTypeOK, NEW s \in Sessions, NEW op \in Ops,
           NEW owner \in Agents, NEW expect \in Agents, NEW lease \in Leases,
           Send(s, op, owner, expect, lease)
    PROVE  /\ pending' \subseteq Request
           /\ UNCHANGED <<clock, row, replay, promise, told, cache, ever>>
<1>1. [op |-> op, by |-> s, owner |-> owner, expect |-> expect,
       lease |-> lease, signed |-> clock, at |-> None, live |-> TRUE]
          \in Request
  BY FederatedAssumption DEF FederatedTypeOK, Request
<1> QED  BY <1>1 DEF Send, FederatedTypeOK

\* A step that leaves row, history, grants and caches alone keeps what the
\* invariant says of them.
LEMMA KeepsGrants ==
    ASSUME FederatedInv, UNCHANGED <<row, replay, promise, told, cache, ever>>,
           FederatedTypeOK'
    PROVE  FederatedInv'
BY DEF FederatedInv, HistoryRebuildsLease, PromiseStands, RowWasGranted,
       ToldWasGranted, CachedOwnerHeldClaim

\* An owner's agent and node are known.
LEMMA SessionFields ==
    ASSUME NEW s \in Sessions
    PROVE  Agent(s) \in Agents /\ Node(s) \in Nodes
BY FederatedAssumption DEF Agent, Node

\* Calls and the claimant's claims.
LEMMA CallStep ==
    ASSUME FederatedInv, NEW s \in Sessions,
           Call(s) \/ CallAnswer(s) \/ KeepClaiming
    PROVE  FederatedInv'
<1>1. FederatedTypeOK
  BY DEF FederatedInv
<1>2. events' \in 0..MaxEvents
  BY <1>1, FederatedAssumption
     DEF Call, CallAnswer, KeepClaiming, Event, FederatedTypeOK
<1>3. /\ pending' \subseteq Request
      /\ UNCHANGED <<clock, row, replay, promise, told, cache, ever>>
  <2>1. CASE Call(s)
    <3>1. PICK op \in Ops, expect \in Agents, lease \in Leases :
              Send(s, op, Agent(s), expect, lease)
      BY <2>1 DEF Call
    <3> QED  BY <1>1, <3>1, SendTyped, SessionFields
  <2>2. CASE CallAnswer(s)
    <3>1. PICK lease \in Leases :
              Send(s, "answer", cache[Node(s)].owner, Agent(s), lease)
      BY <2>2 DEF CallAnswer
    <3>2. cache[Node(s)].owner \in Agents
      BY <1>1, <2>2, SessionFields
         DEF CallAnswer, FederatedTypeOK, Columns
    <3>3. "answer" \in Ops
      BY DEF Ops, Grants
    <3> QED  BY <1>1, <3>1, <3>2, <3>3, SendTyped, SessionFields
  <2>3. CASE KeepClaiming
    <3>1. PICK lease \in Leases :
              Send(Claimant, "claim", Agent(Claimant), Agent(Claimant), lease)
      BY <2>3 DEF KeepClaiming
    <3>2. "claim" \in Ops
      BY DEF Ops, Grants
    <3> QED  BY <1>1, <3>1, <3>2, SendTyped, SessionFields, FederatedAssumption
  <2> QED  BY <2>1, <2>2, <2>3
<1>4. FederatedTypeOK'
  BY <1>1, <1>2, <1>3 DEF FederatedTypeOK
<1> QED  BY <1>3, <1>4, KeepsGrants

\* Arrivals, refusals, losses and timeouts change the requests alone.
LEMMA RequestStep ==
    ASSUME FederatedInv, NEW q \in pending,
           Arrive(q) \/ Refuse(q) \/ Lose(q) \/ TimeOut(q)
    PROVE  FederatedInv'
<1>1. FederatedTypeOK
  BY DEF FederatedInv
<1>2. /\ events' \in 0..MaxEvents
      /\ UNCHANGED <<clock, row, replay, promise, told, cache, ever>>
  BY <1>1, FederatedAssumption
     DEF Arrive, Refuse, Lose, TimeOut, Event, FederatedTypeOK
<1>3. /\ [q EXCEPT !.at = clock] \in Request
      /\ [q EXCEPT !.live = FALSE] \in Request
  <2>1. q \in Request /\ clock \in Nat
    BY <1>1, FederatedAssumption DEF FederatedTypeOK
  <2> QED  BY <2>1 DEF Request
<1>4. pending' \subseteq Request
  BY <1>1, <1>3 DEF Arrive, Refuse, Lose, TimeOut, FederatedTypeOK
<1>5. FederatedTypeOK'
  BY <1>1, <1>2, <1>4 DEF FederatedTypeOK
<1> QED  BY <1>2, <1>5, KeepsGrants

\* The transaction.
LEMMA DecideStep ==
    ASSUME FederatedInv, NEW q \in pending, Decide(q)
    PROVE  FederatedInv'
<1> DEFINE d == Decision(q)
           g == [op |-> q.op, owner |-> d.row.owner,
                 started |-> d.row.started, expires |-> d.row.expires]
<1>1. FederatedTypeOK /\ q.at # None /\ ~Forbidden(q)
  BY DEF FederatedInv, Decide
<1>2. d.row \in Claim
  BY <1>1, DecisionTyped
<1>3. /\ row' = d.row
      /\ replay' = Replayed(replay, Entry(q, d))
      /\ promise' = Promised(q, d)
      /\ pending' = pending \ {q}
      /\ ever' = IF d.row.owner = None THEN ever
                 ELSE ever \cup {<<d.row.owner, d.row.node>>}
      /\ told' = IF Granted(q, d) /\ d.row.owner # None
                 THEN [told EXCEPT ![q.by] = g] ELSE told
      /\ UNCHANGED <<clock, cache, events>>
  BY DEF Decide
<1>4. replay' = Recorded(row') /\ replay' \in Lease
  <2>1. replay' = Recorded(row')
    BY <1>1, <1>3, EntryReplays DEF FederatedInv, HistoryRebuildsLease
  <2> HIDE DEF d
  <2> QED  BY <1>2, <1>3, <2>1 DEF Recorded, Claim, Lease
<1>5. d.row.owner # None => d.row.node \in Nodes
  <2>1. row.owner # None => row.node \in Nodes
    BY <1>1 DEF FederatedInv, RowWasGranted, FederatedTypeOK
  <2>2. q.owner # None /\ Node(q.by) \in Nodes
    BY <1>1, RequestFields
  <2> QED  BY <1>1, <2>1, <2>2, DecisionTyped
<1>6. ever' \subseteq Agents \X Nodes
  BY <1>1, <1>2, <1>3, <1>5 DEF FederatedTypeOK, Claim
<1>7. told' \in [Sessions -> Grant \cup {None}]
  <2>1. q.op \in Ops /\ q.by \in Sessions
    BY <1>1, RequestFields
  <2>2. d.row.owner # None => g \in Grant
    BY <1>2, <2>1 DEF Claim, Grant
  <2> HIDE DEF g, d
  <2> QED  BY <1>1, <1>3, <2>1, <2>2 DEF FederatedTypeOK
<1>13. promise' \in Nat \cup {None} /\ PromiseStands'
  BY <1>1, <1>3, PromiseKept DEF FederatedInv, PromiseStands
<1>8. FederatedTypeOK'
  <2> HIDE DEF g, d
  <2> QED  BY <1>1, <1>2, <1>3, <1>4, <1>6, <1>7, <1>13 DEF FederatedTypeOK
<1>9. RowWasGranted'
  <2> HIDE DEF g, d
  <2> QED  BY <1>3 DEF RowWasGranted
<1>10. ever \subseteq ever'
  BY <1>3
<1>11. ToldWasGranted'
  <2>1. SUFFICES ASSUME NEW s \in Sessions, told'[s] # None,
                        told'[s].op \in {"claim", "renew", "recover"}
                 PROVE  <<told'[s].owner, Node(s)>> \in ever'
    BY DEF ToldWasGranted
  <2>2. CASE told'[s] = told[s]
    BY <1>10, <2>1, <2>2 DEF FederatedInv, ToldWasGranted
  <2>3. CASE told'[s] # told[s]
    <3>1. /\ Granted(q, d) /\ d.row.owner # None
          /\ s = q.by /\ told'[s] = g
      <4> HIDE DEF g, d
      <4> QED  BY <1>1, <1>3, <2>3 DEF FederatedTypeOK
    <3>2. q.op \in {"claim", "renew", "recover"} /\ told'[s].owner = d.row.owner
      <4> HIDE DEF d
      <4> QED  BY <2>1, <3>1
    <3>3. d.row.node = Node(s)
      BY <1>1, <3>1, <3>2, GrantIsLocal
    <3> HIDE DEF g, d
    <3> QED  BY <1>3, <3>1, <3>2, <3>3
  <2> QED  BY <2>2, <2>3
<1>12. CachedOwnerHeldClaim'
  BY <1>3, <1>10 DEF FederatedInv, CachedOwnerHeldClaim
<1> QED
  BY <1>4, <1>8, <1>9, <1>11, <1>12, <1>13 DEF FederatedInv, HistoryRebuildsLease

\* The session writes what it was told into the cache of its node.
LEMMA ApplyStep ==
    ASSUME FederatedInv, NEW s \in Sessions, Apply(s)
    PROVE  FederatedInv'
<1> DEFINE n == Node(s)
           g == told[s]
           c == cache[n]
<1>1. FederatedTypeOK /\ n \in Nodes
  BY SessionFields DEF FederatedInv
<1>2. g \in Grant /\ c \in Columns
  BY <1>1 DEF FederatedTypeOK, Apply
<1>3. PICK to : /\ Put(n, to)
                /\ to \in Columns
                /\ to.owner # None => <<to.owner, n>> \in ever
  <2>1. c.owner # None => <<c.owner, n>> \in ever
    BY <1>1 DEF FederatedInv, CachedOwnerHeldClaim
  <2>2. CASE g.op \in {"claim", "renew", "recover"}
    <3> DEFINE to == [status |-> "claimed", owner |-> g.owner,
                      started |-> g.started, lease |-> g.expires]
    <3>1. Put(n, to)
      BY <2>2 DEF Apply
    <3>2. to \in Columns
      BY <1>2 DEF Grant, Columns
    <3>3. <<to.owner, n>> \in ever
      BY <2>2 DEF FederatedInv, ToldWasGranted, Apply
    <3> QED  BY <3>1, <3>2, <3>3
  <2>3. CASE g.op = "release"
    <3>1. Put(n, Unowned("open"))
      BY <2>3 DEF Apply
    <3>2. Unowned("open") \in Columns /\ Unowned("open").owner = None
      BY DEF Columns, Unowned
    <3> QED  BY <3>1, <3>2
  <2>4. CASE g.op = "park"
    <3> DEFINE to == [c EXCEPT !.status = "parked", !.lease = None]
    <3>1. Put(n, to)
      BY <2>4 DEF Apply
    <3>2. to \in Columns /\ to.owner = c.owner
      BY <1>2 DEF Columns
    <3> QED  BY <2>1, <3>1, <3>2
  <2>6. CASE g.op = "answer"
    <3> DEFINE to == [c EXCEPT !.status = "claimed", !.lease = g.expires]
    <3>1. Put(n, to)
      BY <2>6 DEF Apply
    <3>2. to \in Columns /\ to.owner = c.owner
      BY <1>2 DEF Columns, Grant
    <3> QED  BY <2>1, <3>1, <3>2
  <2> QED
    BY <1>2, <2>2, <2>3, <2>4, <2>6 DEF Grant, Ops, Grants
<1>4. /\ cache' = [cache EXCEPT ![n] = to]
      /\ told' = [told EXCEPT ![s] = None]
      /\ UNCHANGED <<clock, row, replay, promise, pending, ever, events>>
  BY <1>3 DEF Apply, Put
<1>5. FederatedTypeOK'
  BY <1>1, <1>3, <1>4 DEF FederatedTypeOK
<1>6. RowWasGranted' /\ HistoryRebuildsLease' /\ PromiseStands'
  BY <1>4 DEF FederatedInv, RowWasGranted, HistoryRebuildsLease, PromiseStands
<1>7. ToldWasGranted'
  BY <1>1, <1>4 DEF FederatedInv, ToldWasGranted, FederatedTypeOK
<1>8. CachedOwnerHeldClaim'
  BY <1>1, <1>3, <1>4
     DEF FederatedInv, CachedOwnerHeldClaim, FederatedTypeOK
<1> QED  BY <1>5, <1>6, <1>7, <1>8 DEF FederatedInv

\* A lost answer, a heartbeat and a local transition: grants are forgotten,
\* and no cached owner appears that was not there before.
LEMMA LocalStep ==
    ASSUME FederatedInv,
           \/ \E s \in Sessions :
                 \/ LoseAnswer(s)
                 \/ \E lease \in Leases : TouchLease(s, lease)
           \/ \E n \in Nodes : SettleLocally(n)
    PROVE  FederatedInv'
<1>1. FederatedTypeOK
  BY DEF FederatedInv
<1>2. CASE \E s \in Sessions : LoseAnswer(s)
  <2>1. PICK s \in Sessions : LoseAnswer(s)
    BY <1>2
  <2>2. /\ told' = [told EXCEPT ![s] = None]
        /\ UNCHANGED <<clock, row, replay, promise, pending, cache, ever>>
        /\ events' \in 0..MaxEvents
    BY <1>1, <2>1, FederatedAssumption
       DEF LoseAnswer, Event, FederatedTypeOK
  <2>3. FederatedTypeOK'
    BY <1>1, <2>2 DEF FederatedTypeOK
  <2>4. ToldWasGranted'
    BY <1>1, <2>2 DEF FederatedInv, ToldWasGranted, FederatedTypeOK
  <2>5. /\ HistoryRebuildsLease' /\ PromiseStands' /\ RowWasGranted'
        /\ CachedOwnerHeldClaim'
    BY <2>2 DEF FederatedInv, HistoryRebuildsLease, PromiseStands,
                RowWasGranted, CachedOwnerHeldClaim
  <2> QED  BY <2>3, <2>4, <2>5 DEF FederatedInv
<1>3. ASSUME NEW n \in Nodes, NEW to \in Columns, Put(n, to), Event,
             UNCHANGED <<clock, row, replay, promise, pending, told, ever>>,
             to.owner # None => to.owner = cache[n].owner
      PROVE  FederatedInv'
  <2>1. cache' = [cache EXCEPT ![n] = to] /\ events' \in 0..MaxEvents
    BY <1>1, <1>3, FederatedAssumption DEF Put, Event, FederatedTypeOK
  <2>2. FederatedTypeOK'
    BY <1>1, <1>3, <2>1 DEF FederatedTypeOK
  <2>3. /\ HistoryRebuildsLease' /\ PromiseStands' /\ RowWasGranted'
        /\ ToldWasGranted'
    BY <1>3 DEF FederatedInv, HistoryRebuildsLease, PromiseStands,
                RowWasGranted, ToldWasGranted
  <2>4. CachedOwnerHeldClaim'
    BY <1>1, <1>3, <2>1
       DEF FederatedInv, CachedOwnerHeldClaim, FederatedTypeOK
  <2> QED  BY <2>2, <2>3, <2>4 DEF FederatedInv
<1>4. CASE \E s \in Sessions, lease \in Leases : TouchLease(s, lease)
  <2>1. PICK s \in Sessions, lease \in Leases : TouchLease(s, lease)
    BY <1>4
  <2> DEFINE to == [cache[Node(s)] EXCEPT !.lease = clock + lease]
  <2>2. Node(s) \in Nodes /\ cache[Node(s)] \in Columns
    BY <1>1, SessionFields DEF FederatedTypeOK
  <2>3. clock + lease \in Nat
    BY <1>1, FederatedAssumption DEF FederatedTypeOK
  <2>4. to \in Columns /\ to.owner = cache[Node(s)].owner
    BY <2>2, <2>3 DEF Columns
  <2>5. /\ Put(Node(s), to) /\ Event
        /\ UNCHANGED <<clock, row, replay, promise, pending, told, ever>>
    BY <2>1 DEF TouchLease
  <2> HIDE DEF to
  <2> QED  BY <1>3, <2>2, <2>4, <2>5
<1>5. CASE \E n \in Nodes : SettleLocally(n)
  <2>1. PICK n \in Nodes : SettleLocally(n)
    BY <1>5
  <2>2. PICK st \in {"held", "open", "closed"} : Put(n, Unowned(st))
    BY <2>1 DEF SettleLocally
  <2>3. Unowned(st) \in Columns /\ Unowned(st).owner = None
    BY DEF Unowned, Columns
  <2>4. Event /\ UNCHANGED <<clock, row, replay, promise, pending, told, ever>>
    BY <2>1 DEF SettleLocally
  <2> QED  BY <1>3, <2>2, <2>3, <2>4
<1> QED  BY <1>2, <1>4, <1>5

\* Every step preserves the invariant.
LEMMA FederatedStep == FederatedInv /\ [Next]_vars => FederatedInv'
<1> SUFFICES ASSUME FederatedInv, [Next]_vars PROVE FederatedInv'
  OBVIOUS
<1>1. CASE Tick
  <2>1. /\ clock' \in 0..MaxClock
        /\ UNCHANGED <<row, replay, promise, pending, told, cache, ever, events>>
    BY <1>1, FederatedAssumption DEF Tick, FederatedInv, FederatedTypeOK
  <2>2. FederatedTypeOK'
    BY <2>1 DEF FederatedInv, FederatedTypeOK
  <2> QED  BY <2>1, <2>2, KeepsGrants
<1>2. CASE KeepClaiming
  BY <1>2, CallStep, FederatedAssumption
<1>3. ASSUME NEW s \in Sessions, Call(s) \/ CallAnswer(s)
      PROVE  FederatedInv'
  BY <1>3, CallStep
<1>4. ASSUME NEW s \in Sessions, Apply(s)
      PROVE  FederatedInv'
  BY <1>4, ApplyStep
<1>5. ASSUME NEW s \in Sessions,
             LoseAnswer(s) \/ \E lease \in Leases : TouchLease(s, lease)
      PROVE  FederatedInv'
  BY <1>5, LocalStep
<1>6. ASSUME NEW q \in pending,
             Arrive(q) \/ Refuse(q) \/ Lose(q) \/ TimeOut(q)
      PROVE  FederatedInv'
  BY <1>6, RequestStep
<1>7. ASSUME NEW q \in pending, Decide(q)
      PROVE  FederatedInv'
  BY <1>7, DecideStep
<1>8. ASSUME NEW n \in Nodes, SettleLocally(n)
      PROVE  FederatedInv'
  BY <1>8, LocalStep
<1>9. CASE UNCHANGED vars
  <2>1. FederatedTypeOK' /\ UNCHANGED <<row, replay, promise, told, cache, ever>>
    BY <1>9 DEF vars, FederatedInv, FederatedTypeOK
  <2> QED  BY <2>1, KeepsGrants
<1> QED
  BY <1>1, <1>2, <1>3, <1>4, <1>5, <1>6, <1>7, <1>8, <1>9 DEF Next

----------------------------------------------------------------------------
(* The theorems *)

\* The inductive invariant holds in every reachable state.
THEOREM FederatedInvariant == FederatedSpec => []FederatedInv
BY FederatedInit, FederatedStep, PTL DEF FederatedSpec

\* The claim tables, the requests under way and the task rows of every node
\* hold what their columns allow.
THEOREM FederatedTypeCorrect == FederatedSpec => []FederatedTypeOK
<1>1. FederatedInv => FederatedTypeOK
  BY DEF FederatedInv
<1> QED  BY <1>1, FederatedInvariant, PTL

\* Owner, node, window, lapses and parking of the row of delegated_claims are
\* at all times what replaying delegated_claim_history yields; nothing is said
\* of the branch, which the history does not have.
THEOREM FederatedHistoryRebuildsLease == FederatedSpec => []HistoryRebuildsLease
<1>1. FederatedInv => HistoryRebuildsLease
  BY DEF FederatedInv
<1> QED  BY <1>1, FederatedInvariant, PTL

\* A node shows no owner Ackplane did not grant the task to on that node.
THEOREM FederatedCacheWasGranted == FederatedSpec => []CachedOwnerHeldClaim
<1>1. FederatedInv => CachedOwnerHeldClaim
  BY DEF FederatedInv
<1> QED  BY <1>1, FederatedInvariant, PTL

\* A step keeps window and branch of a custodian, or starts a window after the
\* last lease the old custodian was told of, unless a request that custodian
\* had given up on was decided after it was told.
THEOREM FederatedWindows == FederatedSpec => WindowFollowsCustody
<1> DEFINE Kept ==
        IF Custody(row') = Custody(row)
        THEN row'.started = row.started /\ row'.branch = row.branch
        ELSE \/ row.owner = None
             \/ ~row.parked /\ (promise = None \/ row'.started > promise)
<1>1. FederatedInv /\ [Next]_vars => [Kept]_vars
  <2> SUFFICES ASSUME FederatedInv, Next PROVE Kept
    BY DEF vars
  <2>1. CASE UNCHANGED row
    BY <2>1
  <2>2. ASSUME NEW q \in pending, Decide(q)
        PROVE  Kept
    <3> DEFINE d == Decision(q)
    <3>1. FederatedTypeOK /\ q.at # None /\ ~Forbidden(q) /\ row' = d.row
      BY <2>2 DEF FederatedInv, Decide
    <3>2. \/ /\ d.row.owner = row.owner /\ d.row.node = row.node
             /\ d.row.started = row.started /\ d.row.branch = row.branch
          \/ /\ d.row.owner = q.owner /\ d.row.node = Node(q.by)
             /\ ~SameOwner(q) /\ d.row.started = q.at
             /\ row.owner = None \/ (~row.parked /\ row.expires < q.at)
      BY <3>1, DecisionTyped
    <3>3. /\ q.at \in Nat /\ row.expires \in Nat
          /\ promise \in Nat \cup {None}
          /\ promise # None => promise <= row.expires
      BY <3>1, RequestFields, RowFields
         DEF FederatedInv, FederatedTypeOK, PromiseStands
    <3> HIDE DEF d
    <3> QED  BY <3>1, <3>2, <3>3 DEF SameOwner, Custody
  <2>3. UNCHANGED row \/ \E q \in pending : Decide(q)
    BY DEF Next, Tick, KeepClaiming, Call, CallAnswer, Apply, LoseAnswer,
           TouchLease, Arrive, Refuse, Lose, TimeOut, SettleLocally, Send
  <2> QED  BY <2>1, <2>2, <2>3
<1> QED
  BY <1>1, FederatedInvariant, PTL DEF FederatedSpec, WindowFollowsCustody

=============================================================================
