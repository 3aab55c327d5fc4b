--------------------------- MODULE FederatedClaim ---------------------------
(***************************************************************************)
(* The claim on one task of a federated repository: Ackplane's row and     *)
(* history (ackplane-server/src/claim_store, claim_service), the sessions  *)
(* that ask it to decide (lodestar-core/src/facade/executive, lodestar-mcp *)
(* federation.rs), and the task row each node keeps as a cache             *)
(* (lodestar-core/src/store/coordination/claim/federation.rs).             *)
(*                                                                         *)
(* A call is four steps apart in time: the session signs and sends it, the *)
(* service authenticates it and samples the clock, a transaction decides   *)
(* it with that sample, and the session writes the answer into its node's  *)
(* cache.  A request or an answer may be lost, and a session that timed    *)
(* out may have its request decided later.  Sessions of one node share the *)
(* cache.  Time is in whole seconds, the unit the cache keeps.  The scope  *)
(* (paths, symbols) is left out; the history records it with every grant.  *)
(* The branch is kept: the row has that column and the history has not.    *)
(***************************************************************************)
EXTENDS Integers, FiniteSets

CONSTANTS
    Agents,     \* owner ids
    Nodes,      \* enrolled nodes, each with its own lodestar database
    Sessions,   \* the agents at work on a node: pairs <<agent, node>>
    Claimant,   \* the session that keeps claiming
    Leases,     \* lease lengths a session may ask for
    Branches,   \* branch names
    Declared,   \* the branch each session has declared at each time
    Fresh,      \* how long a signed request is accepted
    Horizon,    \* per session, the time after which it makes no further calls
                \* (the claimant's claims aside)
    MaxEvents,  \* bound on the calls beside the claimant's claims, the local
                \* writes and the faults of a behaviour, together
    MaxClock,   \* bound on time
    None        \* no owner, no branch, no lease

ASSUME FederatedAssumption ==
    /\ Sessions \subseteq Agents \X Nodes
    /\ Claimant \in Sessions
    /\ Leases \subseteq Nat \ {0}
    /\ Fresh \in Nat /\ MaxClock \in Nat
    /\ Horizon \in [Sessions -> Nat]
    /\ MaxEvents \in Nat
    /\ None \notin Agents /\ None \notin Nodes /\ None \notin Int
    /\ None \notin Branches
    /\ Declared \in [Sessions -> [0..MaxClock -> Branches]]

VARIABLES
    clock,      \* the time
    row,        \* delegated_claims
    replay,     \* what replaying delegated_claim_history yields
    promise,    \* until when the custodian was last told its lease runs; None
                \* when a request it had given up on has shortened the lease
                \* since, or made the grant (no code reads it)
    pending,    \* requests sent and not yet decided
    told,       \* per session, a grant it has not yet written to its cache
    cache,      \* per node, the claim columns of the task row
    ever,       \* owners that were ever granted the task, with their node
    events      \* calls, local writes and faults so far

vars == <<clock, row, replay, promise, pending, told, cache, ever, events>>

\* A pause is a park and a resume an answer on the wire.
Grants == {"claim", "renew", "recover", "answer"}
Ops    == Grants \cup {"release", "park"}

\* The columns of delegated_claims that delegated_claim_history has too.
Lease   == [owner : Agents \cup {None}, node : Nodes \cup {None},
            started : Nat, expires : Nat, lapses : Nat, parked : BOOLEAN]

Claim   == [owner : Agents \cup {None}, node : Nodes \cup {None},
            branch : Branches \cup {None},
            started : Nat, expires : Nat, lapses : Nat, parked : BOOLEAN]

\* live: its session is still waiting; at: the time sampled for the decision.
Request == [op : Ops, by : Sessions, owner : Agents, expect : Agents,
            lease : Leases, signed : 0..MaxClock, at : Nat \cup {None},
            live : BOOLEAN]

Grant   == [op : Ops, owner : Agents, started : Nat, expires : Nat]

\* parked: needs_input or paused.
Columns == [status : {"open", "claimed", "parked", "held", "closed"},
            owner : Agents \cup {None}, started : Nat \cup {None},
            lease : Nat \cup {None}]

\* A request carries the branch its session had declared when it was sent.
Branch(q) == Declared[q.by][q.signed]

Agent(s) == s[1]
Node(s)  == s[2]

Unclaimed == [owner |-> None, node |-> None, branch |-> None, started |-> 0,
              expires |-> 0, lapses |-> 0, parked |-> FALSE]

\* What the history has a column for.
Recorded(r) == [owner |-> r.owner, node |-> r.node, started |-> r.started,
                expires |-> r.expires, lapses |-> r.lapses,
                parked |-> r.parked]

Custody(r) == <<r.owner, r.node>>

\* A row with no owner: open, or held or closed by a local transition.
Unowned(status) ==
    [status |-> status, owner |-> None, started |-> None, lease |-> None]

Init ==
    /\ clock = 0
    /\ row = Unclaimed
    /\ replay = Recorded(Unclaimed)
    /\ promise = None
    /\ pending = {}
    /\ told = [s \in Sessions |-> None]
    /\ cache = [n \in Nodes |-> Unowned("open")]
    /\ ever = {}
    /\ events = 0

----------------------------------------------------------------------------
(* What Ackplane decides: the history tag and the row a request leads to *)

\* verify_node: the owner named is bound to another node.
Mismatch(q) == row.owner = q.owner /\ row.node # Node(q.by)

SameOwner(q) == row.owner = q.owner /\ row.node = Node(q.by)

Decided(tag, to) == [tag |-> tag, row |-> to]

\* A grant to the requester: its window and branch continue, or start now.
GrantedTo(q, lapses) ==
    Decided("granted",
        [owner |-> q.owner, node |-> Node(q.by),
         branch |-> IF SameOwner(q) THEN row.branch ELSE Branch(q),
         started |-> IF SameOwner(q) THEN row.started ELSE q.at,
         expires |-> q.at + q.lease, lapses |-> lapses,
         parked |-> row.parked])

\* Mutant: a claim whose lease has ended is still kept from everyone else.
DelegateToOwner(q) ==
    IF row.owner = None THEN GrantedTo(q, 0)
    ELSE IF row.parked \/ ~SameOwner(q)
    THEN Decided("rejected", row)
    ELSE GrantedTo(q, row.lapses + IF row.expires < q.at THEN 1 ELSE 0)

\* delegate: the first claim inserts the row; a parked claim is refused to
\* everyone, a live one to everyone but its owner.
Delegate(q) ==
    IF row.owner = None THEN GrantedTo(q, 0)
    ELSE IF row.parked \/ (~SameOwner(q) /\ row.expires >= q.at)
    THEN Decided("rejected", row)
    ELSE GrantedTo(q, row.lapses + IF row.expires < q.at THEN 1 ELSE 0)

\* Mutant: a renewal asks for a live lease and not whose it is.
RenewAnyones(q) ==
    IF row.owner = None \/ row.expires < q.at
    THEN Decided("rejected", row)
    ELSE Decided("granted", [row EXCEPT !.expires = q.at + q.lease])

Renew(q) ==
    IF row.owner # q.owner \/ row.expires < q.at
    THEN Decided("rejected", row)
    ELSE Decided("granted", [row EXCEPT !.expires = q.at + q.lease])

Recover(q) ==
    IF row.owner = None \/ row.parked \/ row.owner # q.expect
       \/ row.expires >= q.at
    THEN Decided("rejected", row)
    ELSE GrantedTo(q, row.lapses + 1)

\* Mutant: a release clears the lease instead of ending it now.
ReleaseCleared(q) ==
    IF SameOwner(q) /\ row.expires >= q.at
    THEN Decided("released", [row EXCEPT !.expires = None])
    ELSE Decided("not_released", row)

\* release: the row stays, with a lease that ends now.
Release(q) ==
    IF SameOwner(q) /\ row.expires >= q.at
    THEN Decided("released", [row EXCEPT !.expires = q.at])
    ELSE Decided("not_released", row)

Park(q) ==
    IF SameOwner(q) /\ ~row.parked
    THEN Decided("parked", [row EXCEPT !.expires = q.at, !.parked = TRUE])
    ELSE Decided("not_parked", row)

\* Mutant: an answer is recorded under the tag of an ordinary grant.
AnswerAsGrant(q) ==
    IF row.owner # q.owner \/ ~row.parked
    THEN Decided("rejected", row)
    ELSE Decided("granted", [row EXCEPT !.expires = q.at + q.lease,
                                        !.parked = FALSE])

Answer(q) ==
    IF row.owner # q.owner \/ ~row.parked
    THEN Decided("not_answered", row)
    ELSE Decided("answered", [row EXCEPT !.expires = q.at + q.lease,
                                         !.parked = FALSE])

Decision(q) ==
    CASE q.op = "claim"               -> Delegate(q)
      [] q.op = "renew"               -> Renew(q)
      [] q.op = "recover"             -> Recover(q)
      [] q.op = "release"             -> Release(q)
      [] q.op = "park"                -> Park(q)
      [] q.op = "answer"              -> Answer(q)

\* The transaction fails: the node does not hold the owner it names.
\* delegate looks only at a claim that still stands, recover not at all.
Forbidden(q) ==
    /\ Mismatch(q)
    /\ CASE q.op = "claim"   -> row.parked \/ row.expires >= q.at
         [] q.op = "recover" -> FALSE
         [] OTHER            -> TRUE

\* The line of delegated_claim_history, which has no column for the branch: a
\* release and a park record no more than who asked and when.
Entry(q, d) ==
    IF d.tag \in {"granted", "answered"}
    THEN [tag |-> d.tag, owner |-> d.row.owner, node |-> Node(q.by),
          started |-> d.row.started, expires |-> d.row.expires,
          lapses |-> d.row.lapses]
    ELSE [tag |-> d.tag, owner |-> q.owner, node |-> Node(q.by),
          started |-> q.at, expires |-> q.at, lapses |-> 0]

\* Replaying one line of the history.
Replayed(p, e) ==
    CASE e.tag \in {"granted", "answered"} ->
             [owner |-> e.owner, node |-> e.node, started |-> e.started,
              expires |-> e.expires, lapses |-> e.lapses,
              parked |-> e.tag = "granted" /\ p.parked]
      [] e.tag = "released" -> [p EXCEPT !.expires = e.expires]
      [] e.tag = "parked"   -> [p EXCEPT !.expires = e.expires,
                                         !.parked = TRUE]
      [] OTHER -> p

----------------------------------------------------------------------------
(* The call *)

Waits(s) == \E q \in pending : q.by = s /\ q.live

\* The cached row shows the session as the owner with a live lease.
HoldsLive(s) ==
    LET c == cache[Node(s)] IN
    c.status = "claimed" /\ c.owner = Agent(s) /\ c.lease >= clock

\* A session calls when it is not in a call.
Ready(s) == ~Waits(s) /\ told[s] = None

Event ==
    /\ events < MaxEvents
    /\ events' = events + 1

Send(s, op, owner, expect, lease) ==
    /\ pending' = pending \cup
          {[op |-> op, by |-> s, owner |-> owner, expect |-> expect,
            lease |-> lease, signed |-> clock, at |-> None, live |-> TRUE]}
    /\ UNCHANGED <<clock, row, replay, promise, told, cache, ever>>

\* claim, renew, release, recover, ask, pause and resume go out under the
\* session's own name.
Call(s) ==
    /\ Ready(s)
    /\ clock <= Horizon[s]
    /\ Event
    /\ \E op \in Ops, expect \in Agents, lease \in Leases :
           /\ op # "recover" => expect = Agent(s)
           /\ op \in {"release", "park"} =>
                  \A other \in Leases : lease <= other
           /\ Send(s, op, Agent(s), expect, lease)

\* answer_question is anyone's; it names the owner the cache shows.
CallAnswer(s) ==
    /\ Ready(s)
    /\ clock <= Horizon[s]
    /\ Event
    /\ cache[Node(s)].owner # None
    /\ \E lease \in Leases :
           Send(s, "answer", cache[Node(s)].owner, Agent(s), lease)

\* The claimant asks for the task whenever its board does not show it as the
\* owner with a live lease.
KeepClaiming ==
    /\ Ready(Claimant)
    /\ ~HoldsLive(Claimant)
    /\ \E lease \in Leases :
           Send(Claimant, "claim", Agent(Claimant), Agent(Claimant), lease)
    /\ UNCHANGED events

\* authenticate, then SystemTime::now(): a fresh signature and a clock sample.
Arrive(q) ==
    /\ q.at = None
    /\ clock <= q.signed + Fresh
    /\ pending' = (pending \ {q}) \cup {[q EXCEPT !.at = clock]}
    /\ UNCHANGED <<clock, row, replay, promise, told, cache, ever, events>>

\* An error: the signature is stale or the node does not hold the owner.
Refuse(q) ==
    /\ IF q.at = None THEN clock > q.signed + Fresh ELSE Forbidden(q)
    /\ pending' = pending \ {q}
    /\ UNCHANGED <<clock, row, replay, promise, told, cache, ever, events>>

\* Mutant: the session takes every answer for a grant.
AnyGrant(q, d) == q.live

\* The answer grants what was asked, and someone waits for it.
Effective(d) == d.tag \in {"granted", "released", "parked", "answered"}

Granted(q, d) == q.live /\ Effective(d)

\* What the custodian goes by afterwards: the lease as a decision in its own
\* name left it when a session waited for that decision, and otherwise what
\* it was told before, unless the lease now ends earlier than that.
Promised(q, d) ==
    IF ~Effective(d) \/ Custody(d.row) # <<q.owner, Node(q.by)>>
    THEN promise
    ELSE IF q.live THEN d.row.expires
    ELSE IF Custody(d.row) = Custody(row) /\ promise # None
            /\ promise <= d.row.expires
    THEN promise
    ELSE None

\* The transaction: the row, the history and the answer.
Decide(q) ==
    LET d == Decision(q) IN
    /\ q.at # None
    /\ ~Forbidden(q)
    /\ row' = d.row
    /\ replay' = Replayed(replay, Entry(q, d))
    /\ promise' = Promised(q, d)
    /\ pending' = pending \ {q}
    /\ ever' = IF d.row.owner = None THEN ever
               ELSE ever \cup {<<d.row.owner, d.row.node>>}
    /\ told' = IF Granted(q, d) /\ d.row.owner # None
               THEN [told EXCEPT ![q.by] =
                        [op |-> q.op, owner |-> d.row.owner,
                         started |-> d.row.started, expires |-> d.row.expires]]
               ELSE told
    /\ UNCHANGED <<clock, cache, events>>

Put(n, columns) == cache' = [cache EXCEPT ![n] = columns]

\* apply_federated_*: whatever the row has become meanwhile.
Apply(s) ==
    LET n == Node(s)
        g == told[s]
    IN
    /\ g # None
    /\ CASE g.op \in {"claim", "renew", "recover"} ->
                Put(n, [status |-> "claimed", owner |-> g.owner,
                        started |-> g.started, lease |-> g.expires])
         [] g.op = "release" -> Put(n, Unowned("open"))
         [] g.op = "park" ->
                Put(n, [cache[n] EXCEPT !.status = "parked", !.lease = None])
         [] g.op = "answer" ->
                Put(n, [cache[n] EXCEPT !.status = "claimed",
                                        !.lease = g.expires])
    /\ told' = [told EXCEPT ![s] = None]
    /\ UNCHANGED <<clock, row, replay, promise, pending, ever, events>>

----------------------------------------------------------------------------
(* Faults, local writes and time *)

\* The request never reaches its transaction: the connection, the service or
\* the connection pool failed.
Lose(q) ==
    /\ Event
    /\ pending' = pending \ {q}
    /\ UNCHANGED <<clock, row, replay, promise, told, cache, ever>>

\* CALL_TIMEOUT: the session goes on, the request may still be decided.
TimeOut(q) ==
    /\ q.live
    /\ Event
    /\ pending' = (pending \ {q}) \cup {[q EXCEPT !.live = FALSE]}
    /\ UNCHANGED <<clock, row, replay, promise, told, cache, ever>>

\* The answer is lost, or the process dies before it has written its cache.
LoseAnswer(s) ==
    /\ told[s] # None
    /\ Event
    /\ told' = [told EXCEPT ![s] = None]
    /\ UNCHANGED <<clock, row, replay, promise, pending, cache, ever>>

\* touch_lease: a call that names the task extends the cached lease alone.
TouchLease(s, lease) ==
    /\ HoldsLive(s)
    /\ cache[Node(s)].lease < clock + lease
    /\ Put(Node(s), [cache[Node(s)] EXCEPT !.lease = clock + lease])
    /\ Event
    /\ UNCHANGED <<clock, row, replay, promise, pending, told, ever>>

\* block_task, complete_task to in_review, reopen_task, abandon_task,
\* complete_task and resolve_task decide on the cached row and tell Ackplane
\* nothing.
SettleLocally(n) ==
    /\ \/ cache[n].status # "closed" /\ Put(n, Unowned("held"))
       \/ cache[n].status = "held" /\ Put(n, Unowned("open"))
       \/ cache[n].status \in {"open", "claimed", "held"}
          /\ Put(n, Unowned("closed"))
    /\ Event
    /\ UNCHANGED <<clock, row, replay, promise, pending, told, ever>>

Tick ==
    /\ clock < MaxClock
    /\ clock' = clock + 1
    /\ UNCHANGED <<row, replay, promise, pending, told, cache, ever, events>>

Next ==
    \/ Tick
    \/ KeepClaiming
    \/ \E s \in Sessions :
           \/ Call(s) \/ CallAnswer(s) \/ Apply(s) \/ LoseAnswer(s)
           \/ \E lease \in Leases : TouchLease(s, lease)
    \/ \E q \in pending :
           Arrive(q) \/ Refuse(q) \/ Decide(q) \/ Lose(q) \/ TimeOut(q)
    \/ \E n \in Nodes : SettleLocally(n)

FederatedSpec == Init /\ [][Next]_vars

\* The claimant claims, the service works off its request, and the claimant
\* writes what it is told: one of these is possible at a time.
ClaimantStep ==
    \/ KeepClaiming
    \/ Apply(Claimant)
    \/ \E q \in pending : /\ q.by = Claimant /\ q.live
                          /\ Arrive(q) \/ Refuse(q) \/ Decide(q)

\* When such a step is possible.
ClaimantBusy ==
    told[Claimant] # None \/ Waits(Claimant) \/ ~HoldsLive(Claimant)

\* Time passes, and a claimant that can go on does: weak fairness of
\* ClaimantStep, with ClaimantBusy for ENABLED.  The other sessions promise
\* nothing.
FairFederatedSpec ==
    /\ FederatedSpec
    /\ WF_vars(Tick)
    /\ []<>~ClaimantBusy \/ []<><<ClaimantStep>>_vars

----------------------------------------------------------------------------
(* Properties *)

\* The tables, the requests and the caches hold what their columns allow.
FederatedTypeOK ==
    /\ clock \in 0..MaxClock
    /\ row \in Claim
    /\ replay \in Lease
    /\ promise \in Nat \cup {None}
    /\ pending \subseteq Request
    /\ told \in [Sessions -> Grant \cup {None}]
    /\ cache \in [Nodes -> Columns]
    /\ ever \subseteq Agents \X Nodes
    /\ events \in 0..MaxEvents

\* "The current lease is a projection": replaying delegated_claim_history
\* line by line yields owner, node, window, lapses and parking of the row in
\* delegated_claims, although each of the six operations writes its own kind
\* of line.  The branch is not rebuilt: no line of the history has it.
HistoryRebuildsLease == replay = Recorded(row)

\* A node never shows an owner Ackplane did not at some time grant the task
\* to on that node, whatever was rejected, lost, late or overtaken.
CachedOwnerHeldClaim ==
    \A n \in Nodes :
        cache[n].owner # None => <<cache[n].owner, n>> \in ever

\* What a custodian was told holds until its lease ends: the custody moves
\* only to a window that starts after the last lease the custodian was told
\* of, and never away from a parked claim; a decision in another name or from
\* another node cannot shorten that lease first, however old its clock sample
\* is.  Only a request the custodian itself had given up on can (promise is
\* then None): the windows of two custodians may then overlap.  While the
\* custody stays, so do the start of the window and the branch.
WindowFollowsCustody ==
    [][IF Custody(row') = Custody(row)
       THEN row'.started = row.started /\ row'.branch = row.branch
       ELSE \/ row.owner = None
            \/ ~row.parked /\ (promise = None \/ row'.started > promise)]_vars

\* A session that keeps claiming is cached as the owner again and again, after
\* lost answers, late requests, lapses and stale writes to its node's cache,
\* once the others are silent, unless one of them left the claim parked:
\* Ackplane never returns a parked claim to the pool.
ClaimantServed ==
    []<>(row.parked \/ cache[Node(Claimant)].owner = Agent(Claimant))

=============================================================================
