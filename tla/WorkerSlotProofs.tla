-------------------------- MODULE WorkerSlotProofs --------------------------
(***************************************************************************)
(* What the worker slot guarantees for every number of runs, directives,   *)
(* frames and faults: at most one worker, a lease that outlives its        *)
(* worker, a marker that outlives the run's obligations, and no replay of  *)
(* a receipted directive into a worker.                                    *)
(***************************************************************************)
EXTENDS WorkerSlot, TLAPS

Daemon   == {"idle", "granted", "effect", "marked", "synced", "spawned",
             "started", "used", "assigned", "giveback", "kill", "terminal",
             "release"}
Recovery == {"connect", "replay", "complete", "remove"}
Running  == {"spawned", "started", "used", "assigned", "kill", "terminal"}
Trying   == {"effect", "marked", "synced"}

\* What is left of runs once they are over, and of runs not yet started.
RunInv ==
    /\ \A r \in Runs : proc[r] # "none" => r <= run
    /\ \A r \in Runs : stop[r] > 0 => proc[r] = "stopped"
    /\ \A r \in Runs : claim = r => r <= run
    /\ marker # None => marker <= run
    /\ \A p \in done : /\ p[1] <= run /\ (claim = p[1] => stray = p[1])
                       /\ stop[p[1]] > 0 /\ acked[p[1]] = last[p[1]]

\* While the daemon is up, what it remembers agrees with the files.
DaemonInv ==
    pc \in Daemon =>
       /\ run \in Runs
       /\ marker \in {None, run}
       /\ \A p \in done : p[1] # run
       /\ mode # "recovering"
       /\ active => proc[run] # "none" /\ marker = run /\ ~torn /\ stop[run] = 0
       /\ ~active => proc[run] = "none" \/ (finished /\ stop[run] > 0)
       /\ proc[run] # "none" /\ claim = run => lease \/ stray = run
       /\ pc = "idle" /\ active => ~finished /\ mode = "serving"
       /\ \A d \in reported : effect[d] # "none"

\* Where the daemon is says what it holds.
PcInv ==
    /\ pc \in Running => active
    /\ pc \in {"granted", "giveback", "release"} \cup Trying => ~active
    /\ pc \in {"granted", "giveback"} \cup Trying =>
          /\ proc[run] = "none" /\ job \in Directives
          /\ lease /\ ~finished /\ mode = "serving"
    /\ pc \in {"spawned", "started", "used", "assigned"} =>
          /\ job \in Directives /\ effect[job] # "none"
          /\ ~finished /\ mode = "serving"
    /\ pc \in Trying => effect[job] = "unconfirmed" /\ job \notin reported
    /\ pc = "giveback" => effect[job] # "none"
    /\ pc \in {"marked", "synced"} => marker = run
    /\ pc = "synced" => ~torn
    /\ pc = "terminal" => proc[run] = "stopped" /\ ~tracked
    /\ tracked => active
    /\ active => pc \in Daemon

\* A recovery holds a stopped run's complete marker.
RecoveryInv ==
    /\ pc \in Recovery => marker \in Runs /\ ~torn /\ stop[marker] > 0
    /\ pc \in {"complete", "remove"} =>
          (claim = marker => stray = marker) /\ acked[marker] = last[marker]

\* The inductive invariant.
SlotInv ==
    /\ SlotTypeOK
    /\ OneWorkerPerSlot
    /\ RunInv
    /\ DaemonInv
    /\ PcInv
    /\ RecoveryInv

\* Abbreviations, expanded everywhere.
USE DEF Daemon, Recovery, Running, Trying,
        outboxVars, fileVars, inboxVars, flagVars, leaseVars, LeaseIs,
        Claiming, GiveUpClaim, CutOff

----------------------------------------------------------------------------
(* Each action preserves the invariant *)

\* One fault more is still within the bound.
LEMMA FaultTyped ==
    ASSUME MemoryOK, Fault
    PROVE  faults' \in 0..MaxFaults
BY SlotAssumption DEF MemoryOK, Fault

\* A process that is gone remembers nothing.
LEMMA ForgetTyped ==
    ASSUME Forget, faults' \in 0..MaxFaults
    PROVE  MemoryOK'
<1>1. /\ pc' = "down" /\ mode' = "serving" /\ job' = 0
      /\ active' = FALSE /\ tracked' = FALSE
      /\ lease' = FALSE /\ finished' = FALSE
  BY DEF Forget
<1> QED
  BY <1>1 DEF MemoryOK

\* A failing session is typed, on its way out or in its clean-up.
LEMMA RaiseTyped ==
    ASSUME MemoryOK, Raise, faults' \in 0..MaxFaults
    PROVE  MemoryOK'
<1>1. CASE mode = "failing"
  <2>1. Forget
    BY <1>1 DEF Raise, ExitDaemon
  <2> QED
    BY <2>1, ForgetTyped
<1>2. CASE mode # "failing"
  <2>1. /\ mode' = "failing" /\ finished' = TRUE
        /\ pc' \in {"kill", "release", "idle"}
        /\ UNCHANGED <<job, active, tracked, lease>>
    BY <1>2 DEF Raise, FinishAt
  <2> QED
    BY <2>1 DEF MemoryOK
<1> QED
  BY <1>1, <1>2

\* One frame more keeps the positions in order.
LEMMA QueueTyped ==
    ASSUME PositionsOK, run \in Runs, Queue,
           UNCHANGED <<acked, accepted, stop>>
    PROVE  PositionsOK'
<1>1. \A r \in Runs : last'[r] \in Nat /\ last'[r] >= last[r]
  BY DEF PositionsOK, Queue
<1>2. last' \in [Runs -> Nat]
  BY DEF PositionsOK, Queue
<1> QED
  BY <1>1, <1>2 DEF PositionsOK

\* A run starts only in a slot without a marker.
LEMMA StartKeeps ==
    ASSUME SlotInv, Start
    PROVE  SlotInv'
<1>1. PositionsOK'
  BY DEF SlotInv, SlotTypeOK, PositionsOK, Start
<1>2. StoreOK'
  BY SlotAssumption DEF SlotInv, SlotTypeOK, StoreOK, DaemonInv, Start, Runs,
     Directives
<1>3. MemoryOK'
  BY DEF SlotInv, SlotTypeOK, MemoryOK, Start
<1>4. OneWorkerPerSlot'
  BY DEF SlotInv, OneWorkerPerSlot, Alive, Start
<1>5. RunInv'
  BY SlotAssumption DEF SlotInv, SlotTypeOK, RunInv, PositionsOK, StoreOK,
     DaemonInv, Start, Runs, Directives
<1>6. DaemonInv'
  BY SlotAssumption DEF SlotInv, SlotTypeOK, DaemonInv, PcInv, StoreOK,
     Start, Runs, Directives
<1>7. PcInv'
  BY DEF SlotInv, PcInv, Start
<1>8. RecoveryInv'
  BY DEF SlotInv, RecoveryInv, Start
<1> QED
  BY <1>1, <1>2, <1>3, <1>4, <1>5, <1>6, <1>7, <1>8
     DEF SlotInv, SlotTypeOK

\* A receipt alone changes the outbox and the effect.
LEMMA ReceiptOnlyKeeps ==
    ASSUME NEW d \in Directives, SlotInv, ReceiptOnly(d)
    PROVE  SlotInv'
<1>1. PositionsOK'
  <2>1. run \in Runs
    BY DEF SlotInv, DaemonInv, Daemon, ReceiptOnly, Takes
  <2>2. Queue /\ UNCHANGED <<acked, accepted, stop>>
    BY DEF ReceiptOnly
  <2> QED
    BY <2>1, <2>2, QueueTyped DEF SlotInv, SlotTypeOK
<1>2. StoreOK'
  BY DEF SlotInv, SlotTypeOK, StoreOK, ReceiptOnly, Takes, Room, Queue
<1>3. MemoryOK'
  BY DEF SlotInv, SlotTypeOK, MemoryOK, ReceiptOnly, Takes, Room, Queue
<1>4. OneWorkerPerSlot'
  BY DEF SlotInv, OneWorkerPerSlot, Alive, ReceiptOnly, Takes, Room, Queue
<1>5. RunInv'
  BY SlotAssumption DEF SlotInv, SlotTypeOK, RunInv, PositionsOK, StoreOK,
     DaemonInv, ReceiptOnly, Takes, Room, Queue, Runs, Directives
<1>6. DaemonInv'
  BY SlotAssumption DEF SlotInv, SlotTypeOK, DaemonInv, PcInv, StoreOK,
     ReceiptOnly, Takes, Room, Queue, Runs, Directives
<1>7. PcInv'
  BY DEF SlotInv, PcInv, ReceiptOnly, Takes, Room, Queue
<1>8. RecoveryInv'
  BY DEF SlotInv, RecoveryInv, ReceiptOnly, Takes, Room, Queue
<1> QED
  BY <1>1, <1>2, <1>3, <1>4, <1>5, <1>6, <1>7, <1>8
     DEF SlotInv, SlotTypeOK

\* A granted lease is tracked.
LEMMA AcquireKeeps ==
    ASSUME NEW d \in Directives, SlotInv, Acquire(d)
    PROVE  SlotInv'
<1>1. PositionsOK'
  BY DEF SlotInv, SlotTypeOK, PositionsOK, Acquire, Takes, Room
<1>2. StoreOK'
  BY SlotAssumption DEF SlotInv, SlotTypeOK, StoreOK, DaemonInv, Acquire,
     Takes, Room, Runs, Directives
<1>3. MemoryOK'
  BY SlotAssumption DEF SlotInv, SlotTypeOK, MemoryOK, StoreOK, Acquire,
     Takes, Room, Runs, Directives
<1>4. OneWorkerPerSlot'
  BY DEF SlotInv, OneWorkerPerSlot, Alive, Acquire, Takes, Room
<1>5. RunInv'
  BY SlotAssumption DEF SlotInv, SlotTypeOK, RunInv, PositionsOK, StoreOK,
     DaemonInv, Acquire, Takes, Room, Runs, Directives
<1>6. DaemonInv'
  BY DEF SlotInv, DaemonInv, Acquire, Takes, Room
<1>7. PcInv'
  BY SlotAssumption DEF SlotInv, SlotTypeOK, PcInv, DaemonInv, StoreOK,
     Acquire, Takes, Room, Runs, Directives
<1>8. RecoveryInv'
  BY DEF SlotInv, RecoveryInv, Acquire, Takes, Room
<1> QED
  BY <1>1, <1>2, <1>3, <1>4, <1>5, <1>6, <1>7, <1>8
     DEF SlotInv, SlotTypeOK

\* A claim that timed out leaves no worker.
LEMMA AcquireTimesOutKeeps ==
    ASSUME NEW d \in Directives, SlotInv, AcquireTimesOut(d)
    PROVE  SlotInv'
<1>1. PositionsOK'
  <2>1. run \in Runs
    BY DEF SlotInv, DaemonInv, Daemon, AcquireTimesOut, Takes
  <2>2. Queue /\ UNCHANGED <<acked, accepted, stop>>
    BY DEF AcquireTimesOut
  <2> QED
    BY <2>1, <2>2, QueueTyped DEF SlotInv, SlotTypeOK
<1>2. StoreOK'
  <2>1. late' \in [Runs -> Nat]
    BY DEF SlotInv, SlotTypeOK, StoreOK, DaemonInv, AcquireTimesOut, Takes
  <2> QED
    BY <2>1 DEF SlotInv, SlotTypeOK, StoreOK, AcquireTimesOut
<1>3. MemoryOK'
  BY SlotAssumption DEF SlotInv, SlotTypeOK, MemoryOK, StoreOK,
     AcquireTimesOut, Takes, Room, Queue, Fault, Runs, Directives
<1>4. OneWorkerPerSlot'
  BY DEF SlotInv, OneWorkerPerSlot, Alive, AcquireTimesOut, Takes, Room,
     Queue, Fault
<1>5. RunInv'
  <2>1. \A r \in Runs : proc'[r] # "none" => r <= run'
    BY SlotAssumption DEF SlotInv, SlotTypeOK, PositionsOK, StoreOK, RunInv,
       DaemonInv, PcInv, RecoveryInv, AcquireTimesOut, Takes, Room, Queue,
       Fault, Runs
  <2>2. \A r \in Runs : stop'[r] > 0 => proc'[r] = "stopped"
    BY SlotAssumption DEF SlotInv, SlotTypeOK, PositionsOK, StoreOK, RunInv,
       DaemonInv, PcInv, RecoveryInv, AcquireTimesOut, Takes, Room, Queue,
       Fault, Runs
  <2>3. \A r \in Runs : claim' = r => r <= run'
    BY SlotAssumption DEF SlotInv, SlotTypeOK, PositionsOK, StoreOK, RunInv,
       DaemonInv, PcInv, RecoveryInv, AcquireTimesOut, Takes, Room, Queue,
       Fault, Runs
  <2>4. marker' # None => marker' <= run'
    BY SlotAssumption DEF SlotInv, SlotTypeOK, PositionsOK, StoreOK, RunInv,
       DaemonInv, PcInv, RecoveryInv, AcquireTimesOut, Takes, Room, Queue,
       Fault, Runs
  <2>5. \A p \in done' : /\ p[1] <= run' /\ (claim' = p[1] => stray' = p[1])
                          /\ stop'[p[1]] > 0 /\ acked'[p[1]] = last'[p[1]]
    BY SlotAssumption DEF SlotInv, SlotTypeOK, PositionsOK, StoreOK, RunInv,
       DaemonInv, PcInv, RecoveryInv, AcquireTimesOut, Takes, Room, Queue,
       Fault, Runs
  <2> QED
    BY <2>1, <2>2, <2>3, <2>4, <2>5 DEF RunInv
<1>6. DaemonInv'
  BY SlotAssumption DEF SlotInv, SlotTypeOK, DaemonInv, PcInv, StoreOK,
     AcquireTimesOut, Takes, Room, Queue, Fault, Runs, Directives
<1>7. PcInv'
  BY DEF SlotInv, PcInv, AcquireTimesOut, Takes, Room, Queue, Fault
<1>8. RecoveryInv'
  BY DEF SlotInv, RecoveryInv, AcquireTimesOut, Takes, Room, Queue, Fault
<1> QED
  BY <1>1, <1>2, <1>3, <1>4, <1>5, <1>6, <1>7, <1>8
     DEF SlotInv, SlotTypeOK

\* No context, no worker.
LEMMA ContextFailsKeeps ==
    ASSUME SlotInv, ContextFails
    PROVE  SlotInv'
<1>1. PositionsOK'
  BY DEF SlotInv, SlotTypeOK, PositionsOK, ContextFails, Fault
<1>2. StoreOK'
  BY DEF SlotInv, SlotTypeOK, StoreOK, ContextFails, Fault
<1>3. MemoryOK'
  BY SlotAssumption DEF SlotInv, SlotTypeOK, MemoryOK, StoreOK, ContextFails,
     Fault, Runs, Directives
<1>4. OneWorkerPerSlot'
  BY DEF SlotInv, OneWorkerPerSlot, Alive, ContextFails, Fault
<1>5. RunInv'
  BY DEF SlotInv, RunInv, ContextFails, Fault
<1>6. DaemonInv'
  BY DEF SlotInv, DaemonInv, ContextFails, Fault
<1>7. PcInv'
  BY SlotAssumption DEF SlotInv, SlotTypeOK, PcInv, DaemonInv, StoreOK,
     ContextFails, Fault, Runs, Directives
<1>8. RecoveryInv'
  BY DEF SlotInv, RecoveryInv, ContextFails, Fault
<1> QED
  BY <1>1, <1>2, <1>3, <1>4, <1>5, <1>6, <1>7, <1>8
     DEF SlotInv, SlotTypeOK

\* A directive is tried only if it has no effect yet.
LEMMA ApplyKeeps ==
    ASSUME SlotInv, Apply
    PROVE  SlotInv'
<1>1. PositionsOK'
  BY DEF SlotInv, SlotTypeOK, PositionsOK, Apply
<1>2. StoreOK'
  BY DEF SlotInv, SlotTypeOK, StoreOK, Apply
<1>3. MemoryOK'
  BY DEF SlotInv, SlotTypeOK, MemoryOK, Apply
<1>4. OneWorkerPerSlot'
  BY DEF SlotInv, OneWorkerPerSlot, Alive, Apply
<1>5. RunInv'
  BY DEF SlotInv, RunInv, Apply
<1>6. DaemonInv'
  BY SlotAssumption DEF SlotInv, SlotTypeOK, DaemonInv, PcInv, StoreOK,
     Apply, Runs, Directives
<1>7. PcInv'
  BY SlotAssumption DEF SlotInv, SlotTypeOK, PcInv, DaemonInv, StoreOK,
     Apply, Runs, Directives
<1>8. RecoveryInv'
  BY DEF SlotInv, RecoveryInv, Apply
<1> QED
  BY <1>1, <1>2, <1>3, <1>4, <1>5, <1>6, <1>7, <1>8
     DEF SlotInv, SlotTypeOK

\* The marker is created only if there is none.
LEMMA CreateMarkerKeeps ==
    ASSUME SlotInv, CreateMarker
    PROVE  SlotInv'
<1>1. PositionsOK'
  BY DEF SlotInv, SlotTypeOK, PositionsOK, CreateMarker
<1>2. StoreOK'
  BY SlotAssumption DEF SlotInv, SlotTypeOK, StoreOK, DaemonInv,
     CreateMarker, Runs, Directives
<1>3. MemoryOK'
  BY DEF SlotInv, SlotTypeOK, MemoryOK, CreateMarker
<1>4. OneWorkerPerSlot'
  BY SlotAssumption DEF SlotInv, SlotTypeOK, OneWorkerPerSlot, Alive,
     StoreOK, DaemonInv, PcInv, CreateMarker, Runs, Directives
<1>5. RunInv'
  BY SlotAssumption DEF SlotInv, SlotTypeOK, RunInv, PositionsOK, StoreOK,
     DaemonInv, CreateMarker, Runs, Directives
<1>6. DaemonInv'
  BY SlotAssumption DEF SlotInv, SlotTypeOK, DaemonInv, PcInv, StoreOK,
     CreateMarker, Runs, Directives
<1>7. PcInv'
  BY SlotAssumption DEF SlotInv, SlotTypeOK, PcInv, DaemonInv, StoreOK,
     CreateMarker, Runs, Directives
<1>8. RecoveryInv'
  BY DEF SlotInv, RecoveryInv, CreateMarker
<1> QED
  BY <1>1, <1>2, <1>3, <1>4, <1>5, <1>6, <1>7, <1>8
     DEF SlotInv, SlotTypeOK

\* The marker is complete.
LEMMA SyncMarkerKeeps ==
    ASSUME SlotInv, SyncMarker
    PROVE  SlotInv'
<1>1. PositionsOK'
  BY DEF SlotInv, SlotTypeOK, PositionsOK, SyncMarker
<1>2. StoreOK'
  BY DEF SlotInv, SlotTypeOK, StoreOK, SyncMarker
<1>3. MemoryOK'
  BY DEF SlotInv, SlotTypeOK, MemoryOK, SyncMarker
<1>4. OneWorkerPerSlot'
  BY DEF SlotInv, OneWorkerPerSlot, Alive, SyncMarker
<1>5. RunInv'
  BY DEF SlotInv, RunInv, SyncMarker
<1>6. DaemonInv'
  BY DEF SlotInv, DaemonInv, SyncMarker
<1>7. PcInv'
  BY DEF SlotInv, PcInv, SyncMarker
<1>8. RecoveryInv'
  BY DEF SlotInv, RecoveryInv, SyncMarker
<1> QED
  BY <1>1, <1>2, <1>3, <1>4, <1>5, <1>6, <1>7, <1>8
     DEF SlotInv, SlotTypeOK

\* An unwritten marker starts nothing.
LEMMA MarkerWriteFailsKeeps ==
    ASSUME SlotInv, MarkerWriteFails
    PROVE  SlotInv'
<1>1. PositionsOK'
  BY DEF SlotInv, SlotTypeOK, PositionsOK, MarkerWriteFails, Fault
<1>2. StoreOK'
  BY DEF SlotInv, SlotTypeOK, StoreOK, MarkerWriteFails, Fault
<1>3. MemoryOK'
  BY SlotAssumption DEF SlotInv, SlotTypeOK, MemoryOK, StoreOK,
     MarkerWriteFails, Fault, Runs, Directives
<1>4. OneWorkerPerSlot'
  BY DEF SlotInv, OneWorkerPerSlot, Alive, MarkerWriteFails, Fault
<1>5. RunInv'
  BY DEF SlotInv, RunInv, MarkerWriteFails, Fault
<1>6. DaemonInv'
  BY DEF SlotInv, DaemonInv, MarkerWriteFails, Fault
<1>7. PcInv'
  BY DEF SlotInv, PcInv, MarkerWriteFails, Fault
<1>8. RecoveryInv'
  BY DEF SlotInv, RecoveryInv, MarkerWriteFails, Fault
<1> QED
  BY <1>1, <1>2, <1>3, <1>4, <1>5, <1>6, <1>7, <1>8
     DEF SlotInv, SlotTypeOK

\* A worker starts under its own complete marker.
LEMMA SpawnKeeps ==
    ASSUME SlotInv, Spawn
    PROVE  SlotInv'
<1>1. PositionsOK'
  BY DEF SlotInv, SlotTypeOK, PositionsOK, Spawn
<1>2. StoreOK'
  BY DEF SlotInv, SlotTypeOK, StoreOK, Spawn
<1>3. MemoryOK'
  BY DEF SlotInv, SlotTypeOK, MemoryOK, Spawn
<1>4. OneWorkerPerSlot'
  BY SlotAssumption DEF SlotInv, SlotTypeOK, OneWorkerPerSlot, Alive,
     StoreOK, DaemonInv, PcInv, Spawn, Runs, Directives
<1>5. RunInv'
  <2>1. \A r \in Runs : proc'[r] # "none" => r <= run'
    BY SlotAssumption DEF SlotInv, SlotTypeOK, PositionsOK, StoreOK, RunInv,
       DaemonInv, PcInv, RecoveryInv, Spawn, Runs
  <2>2. \A r \in Runs : stop'[r] > 0 => proc'[r] = "stopped"
    BY SlotAssumption DEF SlotInv, SlotTypeOK, PositionsOK, StoreOK, RunInv,
       DaemonInv, PcInv, RecoveryInv, Spawn, Runs
  <2>3. \A r \in Runs : claim' = r => r <= run'
    BY SlotAssumption DEF SlotInv, SlotTypeOK, PositionsOK, StoreOK, RunInv,
       DaemonInv, PcInv, RecoveryInv, Spawn, Runs
  <2>4. marker' # None => marker' <= run'
    BY SlotAssumption DEF SlotInv, SlotTypeOK, PositionsOK, StoreOK, RunInv,
       DaemonInv, PcInv, RecoveryInv, Spawn, Runs
  <2>5. \A p \in done' : /\ p[1] <= run' /\ (claim' = p[1] => stray' = p[1])
                          /\ stop'[p[1]] > 0 /\ acked'[p[1]] = last'[p[1]]
    BY SlotAssumption DEF SlotInv, SlotTypeOK, PositionsOK, StoreOK, RunInv,
       DaemonInv, PcInv, RecoveryInv, Spawn, Runs
  <2> QED
    BY <2>1, <2>2, <2>3, <2>4, <2>5 DEF RunInv
<1>6. DaemonInv'
  <2>1. /\ run \in Runs /\ marker = run /\ ~torn /\ proc[run] = "none"
        /\ mode # "recovering"
        /\ \A p \in done : p[1] # run
        /\ \A d \in reported : effect[d] # "none"
    BY DEF SlotInv, DaemonInv, PcInv, Spawn
  <2>2. stop[run] = 0
    BY <2>1 DEF SlotInv, SlotTypeOK, PositionsOK, RunInv
  <2>3. lease
    BY DEF SlotInv, PcInv, Spawn
  <2>4. proc'[run] = "live" /\ active' = TRUE /\ pc' = "spawned"
    BY <2>1 DEF SlotInv, SlotTypeOK, StoreOK, Spawn
  <2>5. UNCHANGED <<run, marker, torn, done, mode, reported, effect, stop, lease, claim, stray>>
    BY DEF Spawn
  <2> QED
    BY <2>1, <2>2, <2>3, <2>4, <2>5 DEF DaemonInv
<1>7. PcInv'
  BY DEF SlotInv, PcInv, Spawn
<1>8. RecoveryInv'
  BY DEF SlotInv, RecoveryInv, Spawn
<1> QED
  BY <1>1, <1>2, <1>3, <1>4, <1>5, <1>6, <1>7, <1>8
     DEF SlotInv, SlotTypeOK

\* A worker that did not start needs no marker.
LEMMA SpawnFailsKeeps ==
    ASSUME SlotInv, SpawnFails
    PROVE  SlotInv'
<1>1. PositionsOK'
  BY DEF SlotInv, SlotTypeOK, PositionsOK, SpawnFails, Fault
<1>2. StoreOK'
  BY DEF SlotInv, SlotTypeOK, StoreOK, SpawnFails, Fault
<1>3. MemoryOK'
  BY SlotAssumption DEF SlotInv, SlotTypeOK, MemoryOK, StoreOK, SpawnFails,
     Fault, Runs, Directives
<1>4. OneWorkerPerSlot'
  BY SlotAssumption DEF SlotInv, SlotTypeOK, OneWorkerPerSlot, Alive,
     StoreOK, DaemonInv, PcInv, SpawnFails, Fault, Runs, Directives
<1>5. RunInv'
  BY DEF SlotInv, RunInv, SpawnFails, Fault
<1>6. DaemonInv'
  BY SlotAssumption DEF SlotInv, SlotTypeOK, DaemonInv, PcInv, StoreOK,
     SpawnFails, Fault, Runs, Directives
<1>7. PcInv'
  BY DEF SlotInv, PcInv, SpawnFails, Fault
<1>8. RecoveryInv'
  BY DEF SlotInv, RecoveryInv, SpawnFails, Fault
<1> QED
  BY <1>1, <1>2, <1>3, <1>4, <1>5, <1>6, <1>7, <1>8
     DEF SlotInv, SlotTypeOK

\* The lease of an assignment that came to nothing.
LEMMA GiveBackKeeps ==
    ASSUME SlotInv, GiveBack
    PROVE  SlotInv'
<1>1. PositionsOK'
  <2>1. run \in Runs
    BY DEF SlotInv, DaemonInv, Daemon, GiveBack
  <2>2. Queue /\ UNCHANGED <<acked, accepted, stop>>
    BY DEF GiveBack, QueueReceipt
  <2> QED
    BY <2>1, <2>2, QueueTyped DEF SlotInv, SlotTypeOK
<1>2. StoreOK'
  BY SlotAssumption DEF SlotInv, SlotTypeOK, PositionsOK, StoreOK, DaemonInv,
     PcInv, RecoveryInv, GiveBack, QueueReceipt, Queue, Released, Runs,
     Directives
<1>3. MemoryOK'
  BY DEF SlotInv, SlotTypeOK, MemoryOK, GiveBack, QueueReceipt, Queue,
     Released
<1>4. OneWorkerPerSlot'
  BY DEF SlotInv, OneWorkerPerSlot, Alive, GiveBack, QueueReceipt, Queue,
     Released
<1>5. RunInv'
  <2>1. \A r \in Runs : proc'[r] # "none" => r <= run'
    BY SlotAssumption DEF SlotInv, SlotTypeOK, PositionsOK, StoreOK, RunInv,
       DaemonInv, PcInv, RecoveryInv, GiveBack, QueueReceipt, Queue,
       Released, Runs
  <2>2. \A r \in Runs : stop'[r] > 0 => proc'[r] = "stopped"
    BY SlotAssumption DEF SlotInv, SlotTypeOK, PositionsOK, StoreOK, RunInv,
       DaemonInv, PcInv, RecoveryInv, GiveBack, QueueReceipt, Queue,
       Released, Runs
  <2>3. \A r \in Runs : claim' = r => r <= run'
    BY SlotAssumption DEF SlotInv, SlotTypeOK, PositionsOK, StoreOK, RunInv,
       DaemonInv, PcInv, RecoveryInv, GiveBack, QueueReceipt, Queue,
       Released, Runs
  <2>4. marker' # None => marker' <= run'
    BY SlotAssumption DEF SlotInv, SlotTypeOK, PositionsOK, StoreOK, RunInv,
       DaemonInv, PcInv, RecoveryInv, GiveBack, QueueReceipt, Queue,
       Released, Runs
  <2>5. \A p \in done' : /\ p[1] <= run' /\ (claim' = p[1] => stray' = p[1])
                          /\ stop'[p[1]] > 0 /\ acked'[p[1]] = last'[p[1]]
    <3> SUFFICES ASSUME NEW p \in done
                 PROVE  /\ p[1] <= run' /\ (claim' = p[1] => stray' = p[1])
                        /\ stop'[p[1]] > 0 /\ acked'[p[1]] = last'[p[1]]
      BY DEF GiveBack
    <3>1. p[1] \in Runs /\ p[1] # run /\ run \in Runs
      BY DEF SlotInv, SlotTypeOK, StoreOK, DaemonInv, GiveBack
    <3>2. claim' \in {claim, None} /\ None # p[1]
      BY <3>1, SlotAssumption DEF GiveBack, Released, Runs
    <3>3. last'[p[1]] = last[p[1]]
      BY <3>1 DEF SlotInv, SlotTypeOK, PositionsOK, GiveBack, QueueReceipt, Queue
    <3> QED
      BY <3>2, <3>3 DEF SlotInv, RunInv, GiveBack
  <2> QED
    BY <2>1, <2>2, <2>3, <2>4, <2>5 DEF RunInv
<1>6. DaemonInv'
  BY SlotAssumption DEF SlotInv, SlotTypeOK, DaemonInv, PcInv, StoreOK,
     GiveBack, QueueReceipt, Queue, Released, Runs, Directives
<1>7. PcInv'
  BY DEF SlotInv, PcInv, GiveBack, QueueReceipt, Queue, Released
<1>8. RecoveryInv'
  BY DEF SlotInv, RecoveryInv, GiveBack, QueueReceipt, Queue, Released
<1> QED
  BY <1>1, <1>2, <1>3, <1>4, <1>5, <1>6, <1>7, <1>8
     DEF SlotInv, SlotTypeOK

\* ... or not.
LEMMA GiveBackFailsKeeps ==
    ASSUME SlotInv, GiveBackFails
    PROVE  SlotInv'
<1>1. PositionsOK'
  <2>1. run \in Runs
    BY DEF SlotInv, DaemonInv, Daemon, GiveBackFails
  <2>2. Queue /\ UNCHANGED <<acked, accepted, stop>>
    BY DEF GiveBackFails, QueueReceipt
  <2> QED
    BY <2>1, <2>2, QueueTyped DEF SlotInv, SlotTypeOK
<1>2. StoreOK'
  BY SlotAssumption DEF SlotInv, SlotTypeOK, PositionsOK, StoreOK, DaemonInv,
     PcInv, RecoveryInv, GiveBackFails, QueueReceipt, Queue, Released, Fault,
     Runs, Directives
<1>3. MemoryOK'
  BY SlotAssumption DEF SlotInv, SlotTypeOK, MemoryOK, StoreOK,
     GiveBackFails, QueueReceipt, Queue, Released, Fault, Runs, Directives
<1>4. OneWorkerPerSlot'
  BY DEF SlotInv, OneWorkerPerSlot, Alive, GiveBackFails, QueueReceipt,
     Queue, Released, Fault
<1>5. RunInv'
  <2>1. /\ last' = [last EXCEPT ![run] = @ + 1]
        /\ (claim' = claim /\ stray' = stray) \/ claim' = None
        /\ UNCHANGED <<run, proc, acked, stop, accepted, bad, done, marker,
                       torn>>
    BY DEF GiveBackFails, QueueReceipt, Queue, Released
  <2>2. run \in Runs /\ \A p \in done : p[1] # run
    BY DEF SlotInv, DaemonInv, GiveBackFails
  <2>3. last \in [Runs -> Nat] /\ done \subseteq Runs \X Nat
    BY DEF SlotInv, SlotTypeOK, PositionsOK, StoreOK
  <2>4. \A p \in done : p[1] \in Runs /\ last'[p[1]] = last[p[1]]
    BY <2>1, <2>2, <2>3
  <2>5. \A r \in Runs : r # run => last'[r] = last[r]
    BY <2>1, <2>3
  <2>6. None \notin Int
    BY SlotAssumption
  <2> QED
    BY <2>1, <2>2, <2>3, <2>4, <2>5, <2>6 DEF SlotInv, RunInv, Runs
<1>6. DaemonInv'
  BY SlotAssumption DEF SlotInv, SlotTypeOK, DaemonInv, PcInv, StoreOK,
     GiveBackFails, QueueReceipt, Queue, Released, Fault, Runs, Directives
<1>7. PcInv'
  BY DEF SlotInv, PcInv, GiveBackFails, QueueReceipt, Queue, Released, Fault
<1>8. RecoveryInv'
  BY DEF SlotInv, RecoveryInv, GiveBackFails, QueueReceipt, Queue, Released,
     Fault
<1> QED
  BY <1>1, <1>2, <1>3, <1>4, <1>5, <1>6, <1>7, <1>8
     DEF SlotInv, SlotTypeOK

\* The effect is recorded.
LEMMA StoreAppliedKeeps ==
    ASSUME SlotInv, StoreApplied
    PROVE  SlotInv'
<1>1. PositionsOK'
  BY DEF SlotInv, SlotTypeOK, PositionsOK, StoreApplied
<1>2. StoreOK'
  BY DEF SlotInv, SlotTypeOK, StoreOK, StoreApplied
<1>3. MemoryOK'
  BY DEF SlotInv, SlotTypeOK, MemoryOK, StoreApplied
<1>4. OneWorkerPerSlot'
  BY DEF SlotInv, OneWorkerPerSlot, Alive, StoreApplied
<1>5. RunInv'
  BY DEF SlotInv, RunInv, StoreApplied
<1>6. DaemonInv'
  BY DEF SlotInv, DaemonInv, StoreApplied
<1>7. PcInv'
  BY DEF SlotInv, PcInv, StoreApplied
<1>8. RecoveryInv'
  BY DEF SlotInv, RecoveryInv, StoreApplied
<1> QED
  BY <1>1, <1>2, <1>3, <1>4, <1>5, <1>6, <1>7, <1>8
     DEF SlotInv, SlotTypeOK

\* The start is recorded.
LEMMA QueueStartedKeeps ==
    ASSUME SlotInv, QueueStarted
    PROVE  SlotInv'
<1>1. PositionsOK'
  <2>1. run \in Runs
    BY DEF SlotInv, DaemonInv, Daemon, QueueStarted
  <2>2. Queue /\ UNCHANGED <<acked, accepted, stop>>
    BY DEF QueueStarted
  <2> QED
    BY <2>1, <2>2, QueueTyped DEF SlotInv, SlotTypeOK
<1>2. StoreOK'
  BY DEF SlotInv, SlotTypeOK, StoreOK, QueueStarted, Queue
<1>3. MemoryOK'
  BY DEF SlotInv, SlotTypeOK, MemoryOK, QueueStarted, Queue
<1>4. OneWorkerPerSlot'
  BY DEF SlotInv, OneWorkerPerSlot, Alive, QueueStarted, Queue
<1>5. RunInv'
  BY SlotAssumption DEF SlotInv, SlotTypeOK, RunInv, PositionsOK, StoreOK,
     DaemonInv, QueueStarted, Queue, Runs, Directives
<1>6. DaemonInv'
  BY DEF SlotInv, DaemonInv, QueueStarted, Queue
<1>7. PcInv'
  BY DEF SlotInv, PcInv, QueueStarted, Queue
<1>8. RecoveryInv'
  BY DEF SlotInv, RecoveryInv, QueueStarted, Queue
<1> QED
  BY <1>1, <1>2, <1>3, <1>4, <1>5, <1>6, <1>7, <1>8
     DEF SlotInv, SlotTypeOK

\* The assignment's receipt is queued.
LEMMA QueueAssignedKeeps ==
    ASSUME SlotInv, QueueAssigned
    PROVE  SlotInv'
<1>1. PositionsOK'
  <2>1. run \in Runs
    BY DEF SlotInv, DaemonInv, Daemon, QueueAssigned
  <2>2. Queue /\ UNCHANGED <<acked, accepted, stop>>
    BY DEF QueueAssigned, QueueReceipt
  <2> QED
    BY <2>1, <2>2, QueueTyped DEF SlotInv, SlotTypeOK
<1>2. StoreOK'
  BY SlotAssumption DEF SlotInv, SlotTypeOK, PositionsOK, StoreOK, DaemonInv,
     PcInv, RecoveryInv, QueueAssigned, QueueReceipt, Queue, Runs, Directives
<1>3. MemoryOK'
  BY DEF SlotInv, SlotTypeOK, MemoryOK, QueueAssigned, QueueReceipt, Queue
<1>4. OneWorkerPerSlot'
  BY DEF SlotInv, OneWorkerPerSlot, Alive, QueueAssigned, QueueReceipt, Queue
<1>5. RunInv'
  BY SlotAssumption DEF SlotInv, SlotTypeOK, RunInv, PositionsOK, StoreOK,
     DaemonInv, QueueAssigned, QueueReceipt, Queue, Runs, Directives
<1>6. DaemonInv'
  <2>1. /\ active /\ ~finished /\ mode = "serving"
        /\ job \in Directives /\ effect[job] # "none"
    BY DEF SlotInv, DaemonInv, PcInv, QueueAssigned
  <2>2. \A d \in reported' : effect'[d] # "none"
    BY <2>1 DEF SlotInv, DaemonInv, QueueAssigned, QueueReceipt
  <2> QED
    BY <2>1, <2>2 DEF SlotInv, DaemonInv, QueueAssigned
<1>7. PcInv'
  BY DEF SlotInv, PcInv, QueueAssigned, QueueReceipt, Queue
<1>8. RecoveryInv'
  BY DEF SlotInv, RecoveryInv, QueueAssigned, QueueReceipt, Queue
<1> QED
  BY <1>1, <1>2, <1>3, <1>4, <1>5, <1>6, <1>7, <1>8
     DEF SlotInv, SlotTypeOK

\* A worker is to be ended.
LEMMA ObserveKeeps ==
    ASSUME SlotInv, Observe
    PROVE  SlotInv'
<1>1. PositionsOK'
  BY DEF SlotInv, SlotTypeOK, PositionsOK, Observe
<1>2. StoreOK'
  BY DEF SlotInv, SlotTypeOK, StoreOK, Observe
<1>3. MemoryOK'
  BY DEF SlotInv, SlotTypeOK, MemoryOK, Observe
<1>4. OneWorkerPerSlot'
  BY DEF SlotInv, OneWorkerPerSlot, Alive, Observe
<1>5. RunInv'
  BY DEF SlotInv, RunInv, Observe
<1>6. DaemonInv'
  BY DEF SlotInv, DaemonInv, Observe
<1>7. PcInv'
  BY DEF SlotInv, PcInv, Observe
<1>8. RecoveryInv'
  BY DEF SlotInv, RecoveryInv, Observe
<1> QED
  BY <1>1, <1>2, <1>3, <1>4, <1>5, <1>6, <1>7, <1>8
     DEF SlotInv, SlotTypeOK

\* A release is retried.
LEMMA RetryReleaseKeeps ==
    ASSUME SlotInv, RetryRelease
    PROVE  SlotInv'
<1>1. PositionsOK'
  BY DEF SlotInv, SlotTypeOK, PositionsOK, RetryRelease
<1>2. StoreOK'
  BY DEF SlotInv, SlotTypeOK, StoreOK, RetryRelease
<1>3. MemoryOK'
  BY DEF SlotInv, SlotTypeOK, MemoryOK, RetryRelease
<1>4. OneWorkerPerSlot'
  BY DEF SlotInv, OneWorkerPerSlot, Alive, RetryRelease
<1>5. RunInv'
  BY DEF SlotInv, RunInv, RetryRelease
<1>6. DaemonInv'
  BY DEF SlotInv, DaemonInv, RetryRelease
<1>7. PcInv'
  BY DEF SlotInv, PcInv, RetryRelease
<1>8. RecoveryInv'
  BY DEF SlotInv, RecoveryInv, RetryRelease
<1> QED
  BY <1>1, <1>2, <1>3, <1>4, <1>5, <1>6, <1>7, <1>8
     DEF SlotInv, SlotTypeOK

\* A forced termination kills and untracks.
LEMMA TerminateKeeps ==
    ASSUME NEW d \in Directives, SlotInv, Terminate(d)
    PROVE  SlotInv'
<1>1. PositionsOK'
  BY DEF SlotInv, SlotTypeOK, PositionsOK, Terminate, Takes
<1>2. StoreOK'
  BY DEF SlotInv, SlotTypeOK, StoreOK, Terminate, Takes
<1>3. MemoryOK'
  <2>1. /\ job' = d /\ pc' = "kill" /\ tracked' = FALSE
        /\ UNCHANGED <<mode, active, lease, finished, faults>>
    BY DEF Terminate
  <2>2. d \in Nat
    BY DEF Directives
  <2> QED
    BY <2>1, <2>2 DEF SlotInv, SlotTypeOK, MemoryOK
<1>4. OneWorkerPerSlot'
  BY DEF SlotInv, OneWorkerPerSlot, Alive, Terminate, Takes
<1>5. RunInv'
  BY SlotAssumption DEF SlotInv, SlotTypeOK, RunInv, PositionsOK, StoreOK,
     DaemonInv, Terminate, Takes, Runs, Directives
<1>6. DaemonInv'
  BY DEF SlotInv, DaemonInv, Terminate, Takes
<1>7. PcInv'
  BY DEF SlotInv, PcInv, Terminate, Takes
<1>8. RecoveryInv'
  BY DEF SlotInv, RecoveryInv, Terminate, Takes
<1> QED
  BY <1>1, <1>2, <1>3, <1>4, <1>5, <1>6, <1>7, <1>8
     DEF SlotInv, SlotTypeOK

\* The worker is killed.
LEMMA KillKeeps ==
    ASSUME SlotInv, Kill
    PROVE  SlotInv'
<1>1. PositionsOK'
  BY DEF SlotInv, SlotTypeOK, PositionsOK, Kill
<1>2. StoreOK'
  BY DEF SlotInv, SlotTypeOK, StoreOK, Kill
<1>3. MemoryOK'
  BY DEF SlotInv, SlotTypeOK, MemoryOK, Kill
<1>4. OneWorkerPerSlot'
  BY DEF SlotInv, OneWorkerPerSlot, Alive, Kill
<1>5. RunInv'
  BY SlotAssumption DEF SlotInv, SlotTypeOK, RunInv, PositionsOK, StoreOK,
     DaemonInv, Kill, Runs, Directives
<1>6. DaemonInv'
  BY SlotAssumption DEF SlotInv, SlotTypeOK, DaemonInv, PcInv, StoreOK, Kill,
     Runs, Directives
<1>7. PcInv'
  BY SlotAssumption DEF SlotInv, SlotTypeOK, PcInv, DaemonInv, StoreOK, Kill,
     Runs, Directives
<1>8. RecoveryInv'
  BY DEF SlotInv, RecoveryInv, Kill
<1> QED
  BY <1>1, <1>2, <1>3, <1>4, <1>5, <1>6, <1>7, <1>8
     DEF SlotInv, SlotTypeOK

\* An untracked worker fails the session.
LEMMA KillUnknownKeeps ==
    ASSUME SlotInv, KillUnknown
    PROVE  SlotInv'
<1>1. PositionsOK'
  BY DEF SlotInv, SlotTypeOK, PositionsOK, KillUnknown, Raise, ExitDaemon,
     Forget, FinishAt
<1>2. StoreOK'
  BY DEF SlotInv, SlotTypeOK, StoreOK, KillUnknown, Raise, ExitDaemon,
     Forget, FinishAt
<1>3. MemoryOK'
  BY RaiseTyped DEF SlotInv, SlotTypeOK, MemoryOK, KillUnknown
<1>4. OneWorkerPerSlot'
  BY DEF SlotInv, OneWorkerPerSlot, Alive, KillUnknown, Raise, ExitDaemon,
     Forget, FinishAt
<1>5. RunInv'
  BY DEF SlotInv, RunInv, KillUnknown, Raise, ExitDaemon, Forget, FinishAt
<1>6. DaemonInv'
  BY DEF SlotInv, DaemonInv, KillUnknown, Raise, ExitDaemon, Forget, FinishAt
<1>7. PcInv'
  BY DEF SlotInv, PcInv, KillUnknown, Raise, ExitDaemon, Forget, FinishAt
<1>8. RecoveryInv'
  BY DEF SlotInv, RecoveryInv, KillUnknown, Raise, ExitDaemon, Forget,
     FinishAt
<1> QED
  BY <1>1, <1>2, <1>3, <1>4, <1>5, <1>6, <1>7, <1>8
     DEF SlotInv, SlotTypeOK

\* The stop record is made for a worker that is gone.
LEMMA QueueTerminalKeeps ==
    ASSUME SlotInv, QueueTerminal
    PROVE  SlotInv'
<1>1. PositionsOK'
  <2>1. run \in Runs
    BY DEF SlotInv, DaemonInv, QueueTerminal
  <2>2. /\ last' \in [Runs -> Nat] /\ stop' \in [Runs -> Nat]
        /\ last'[run] = last[run] + 1 /\ stop'[run] = last[run] + 1
        /\ \A s \in Runs \ {run} : last'[s] = last[s] /\ stop'[s] = stop[s]
        /\ UNCHANGED <<acked, accepted>>
    BY <2>1 DEF SlotInv, SlotTypeOK, PositionsOK, QueueTerminal, Queue
  <2> QED
    BY <2>1, <2>2 DEF SlotInv, SlotTypeOK, PositionsOK
<1>2. StoreOK'
  BY DEF SlotInv, SlotTypeOK, StoreOK, QueueTerminal, Queue
<1>3. MemoryOK'
  BY DEF SlotInv, SlotTypeOK, MemoryOK, QueueTerminal, Queue
<1>4. OneWorkerPerSlot'
  BY DEF SlotInv, OneWorkerPerSlot, Alive, QueueTerminal, Queue
<1>5. RunInv'
  BY SlotAssumption DEF SlotInv, SlotTypeOK, PositionsOK, StoreOK,
     OneWorkerPerSlot, Alive, RunInv, DaemonInv, PcInv, RecoveryInv,
     QueueTerminal, Queue, Runs, Directives
<1>6. DaemonInv'
  BY SlotAssumption DEF SlotInv, SlotTypeOK, PositionsOK, StoreOK,
     OneWorkerPerSlot, Alive, RunInv, DaemonInv, PcInv, RecoveryInv,
     QueueTerminal, Queue, Runs, Directives
<1>7. PcInv'
  BY DEF SlotInv, PcInv, QueueTerminal, Queue
<1>8. RecoveryInv'
  BY DEF SlotInv, RecoveryInv, QueueTerminal, Queue
<1> QED
  BY <1>1, <1>2, <1>3, <1>4, <1>5, <1>6, <1>7, <1>8
     DEF SlotInv, SlotTypeOK

\* The lease is given back.
LEMMA ReleaseKeeps ==
    ASSUME SlotInv, Release
    PROVE  SlotInv'
<1>1. PositionsOK'
  BY DEF SlotInv, SlotTypeOK, PositionsOK, Release, Released
<1>2. StoreOK'
  BY DEF SlotInv, SlotTypeOK, StoreOK, Release, Released
<1>3. MemoryOK'
  BY DEF SlotInv, SlotTypeOK, MemoryOK, Release, Released
<1>4. OneWorkerPerSlot'
  BY DEF SlotInv, OneWorkerPerSlot, Alive, Release, Released
<1>5. RunInv'
  <2>1. \A r \in Runs : proc'[r] # "none" => r <= run'
    BY SlotAssumption DEF SlotInv, SlotTypeOK, PositionsOK, StoreOK, RunInv,
       DaemonInv, PcInv, RecoveryInv, Release, Released, Runs
  <2>2. \A r \in Runs : stop'[r] > 0 => proc'[r] = "stopped"
    BY SlotAssumption DEF SlotInv, SlotTypeOK, PositionsOK, StoreOK, RunInv,
       DaemonInv, PcInv, RecoveryInv, Release, Released, Runs
  <2>3. \A r \in Runs : claim' = r => r <= run'
    BY SlotAssumption DEF SlotInv, SlotTypeOK, PositionsOK, StoreOK, RunInv,
       DaemonInv, PcInv, RecoveryInv, Release, Released, Runs
  <2>4. marker' # None => marker' <= run'
    BY SlotAssumption DEF SlotInv, SlotTypeOK, PositionsOK, StoreOK, RunInv,
       DaemonInv, PcInv, RecoveryInv, Release, Released, Runs
  <2>5. \A p \in done' : /\ p[1] <= run' /\ (claim' = p[1] => stray' = p[1])
                          /\ stop'[p[1]] > 0 /\ acked'[p[1]] = last'[p[1]]
    BY SlotAssumption DEF SlotInv, SlotTypeOK, PositionsOK, StoreOK, RunInv,
       DaemonInv, PcInv, RecoveryInv, Release, Released, Runs
  <2> QED
    BY <2>1, <2>2, <2>3, <2>4, <2>5 DEF RunInv
<1>6. DaemonInv'
  BY SlotAssumption DEF SlotInv, SlotTypeOK, DaemonInv, PcInv, StoreOK,
     Release, Released, Runs, Directives
<1>7. PcInv'
  BY DEF SlotInv, PcInv, Release, Released
<1>8. RecoveryInv'
  BY DEF SlotInv, RecoveryInv, Release, Released
<1> QED
  BY <1>1, <1>2, <1>3, <1>4, <1>5, <1>6, <1>7, <1>8
     DEF SlotInv, SlotTypeOK

\* ... or it is not known to be.
LEMMA ReleaseFailsKeeps ==
    ASSUME SlotInv, ReleaseFails
    PROVE  SlotInv'
<1>1. PositionsOK'
  BY DEF SlotInv, SlotTypeOK, PositionsOK, ReleaseFails, Released, Fault
<1>2. StoreOK'
  BY DEF SlotInv, SlotTypeOK, StoreOK, ReleaseFails, Released, Fault
<1>3. MemoryOK'
  BY SlotAssumption DEF SlotInv, SlotTypeOK, MemoryOK, StoreOK, ReleaseFails,
     Released, Fault, Runs, Directives
<1>4. OneWorkerPerSlot'
  BY DEF SlotInv, OneWorkerPerSlot, Alive, ReleaseFails, Released, Fault
<1>5. RunInv'
  <2>1. \/ claim' = claim /\ stray' = stray
        \/ claim' = None
    BY DEF ReleaseFails, Released
  <2>2. None \notin Runs
    BY SlotAssumption DEF Runs
  <2>3. \A p \in done : p[1] \in Runs
    BY DEF SlotInv, SlotTypeOK, StoreOK
  <2> QED
    BY <2>1, <2>2, <2>3 DEF SlotInv, RunInv, ReleaseFails
<1>6. DaemonInv'
  BY SlotAssumption DEF SlotInv, SlotTypeOK, DaemonInv, PcInv, StoreOK,
     ReleaseFails, Released, Fault, Runs, Directives
<1>7. PcInv'
  BY DEF SlotInv, PcInv, ReleaseFails, Released, Fault
<1>8. RecoveryInv'
  BY DEF SlotInv, RecoveryInv, ReleaseFails, Released, Fault
<1> QED
  BY <1>1, <1>2, <1>3, <1>4, <1>5, <1>6, <1>7, <1>8
     DEF SlotInv, SlotTypeOK

\* A failing step fails the session.
LEMMA StepFailsKeeps ==
    ASSUME SlotInv, StepFails
    PROVE  SlotInv'
<1>1. PositionsOK'
  BY DEF SlotInv, SlotTypeOK, PositionsOK, StepFails, Raise, ExitDaemon,
     Forget, FinishAt, Fault
<1>2. StoreOK'
  BY DEF SlotInv, SlotTypeOK, StoreOK, StepFails, Raise, ExitDaemon, Forget,
     FinishAt, Fault
<1>3. MemoryOK'
  BY RaiseTyped, FaultTyped DEF SlotInv, SlotTypeOK, StepFails
<1>4. OneWorkerPerSlot'
  BY SlotAssumption DEF SlotInv, SlotTypeOK, OneWorkerPerSlot, Alive,
     StoreOK, DaemonInv, PcInv, StepFails, Raise, ExitDaemon, Forget,
     FinishAt, Fault, Runs, Directives
<1>5. RunInv'
  <2>1. \A r \in Runs : proc'[r] # "none" => r <= run'
    BY SlotAssumption DEF SlotInv, SlotTypeOK, PositionsOK, StoreOK, RunInv,
       DaemonInv, PcInv, RecoveryInv, StepFails, Raise, ExitDaemon, Forget,
       FinishAt, Fault, Runs
  <2>2. \A r \in Runs : stop'[r] > 0 => proc'[r] = "stopped"
    BY SlotAssumption DEF SlotInv, SlotTypeOK, PositionsOK, StoreOK, RunInv,
       DaemonInv, PcInv, RecoveryInv, StepFails, Raise, ExitDaemon, Forget,
       FinishAt, Fault, Runs
  <2>3. \A r \in Runs : claim' = r => r <= run'
    BY SlotAssumption DEF SlotInv, SlotTypeOK, PositionsOK, StoreOK, RunInv,
       DaemonInv, PcInv, RecoveryInv, StepFails, Raise, ExitDaemon, Forget,
       FinishAt, Fault, Runs
  <2>4. marker' # None => marker' <= run'
    BY SlotAssumption DEF SlotInv, SlotTypeOK, PositionsOK, StoreOK, RunInv,
       DaemonInv, PcInv, RecoveryInv, StepFails, Raise, ExitDaemon, Forget,
       FinishAt, Fault, Runs
  <2>5. \A p \in done' : /\ p[1] <= run' /\ (claim' = p[1] => stray' = p[1])
                          /\ stop'[p[1]] > 0 /\ acked'[p[1]] = last'[p[1]]
    BY SlotAssumption DEF SlotInv, SlotTypeOK, PositionsOK, StoreOK, RunInv,
       DaemonInv, PcInv, RecoveryInv, StepFails, Raise, ExitDaemon, Forget,
       FinishAt, Fault, Runs
  <2> QED
    BY <2>1, <2>2, <2>3, <2>4, <2>5 DEF RunInv
<1>6. DaemonInv'
  BY DEF SlotInv, DaemonInv, StepFails, Raise, ExitDaemon, Forget, FinishAt,
     Fault
<1>7. PcInv'
  BY DEF SlotInv, PcInv, StepFails, Raise, ExitDaemon, Forget, FinishAt,
     Fault
<1>8. RecoveryInv'
  BY DEF SlotInv, RecoveryInv, StepFails, Raise, ExitDaemon, Forget,
     FinishAt, Fault
<1> QED
  BY <1>1, <1>2, <1>3, <1>4, <1>5, <1>6, <1>7, <1>8
     DEF SlotInv, SlotTypeOK

\* A failed session ends.
LEMMA CleanedUpKeeps ==
    ASSUME SlotInv, CleanedUp
    PROVE  SlotInv'
<1>1. PositionsOK'
  BY DEF SlotInv, SlotTypeOK, PositionsOK, CleanedUp, ExitDaemon, Forget
<1>2. StoreOK'
  BY DEF SlotInv, SlotTypeOK, StoreOK, CleanedUp, ExitDaemon, Forget
<1>3. MemoryOK'
  BY DEF SlotInv, SlotTypeOK, MemoryOK, CleanedUp, ExitDaemon, Forget
<1>4. OneWorkerPerSlot'
  BY SlotAssumption DEF SlotInv, SlotTypeOK, OneWorkerPerSlot, Alive,
     StoreOK, DaemonInv, PcInv, CleanedUp, ExitDaemon, Forget, Runs,
     Directives
<1>5. RunInv'
  BY SlotAssumption DEF SlotInv, SlotTypeOK, PositionsOK, StoreOK,
     OneWorkerPerSlot, Alive, RunInv, DaemonInv, PcInv, RecoveryInv,
     CleanedUp, ExitDaemon, Forget, Runs, Directives
<1>6. DaemonInv'
  BY DEF SlotInv, DaemonInv, CleanedUp, ExitDaemon, Forget
<1>7. PcInv'
  BY DEF SlotInv, PcInv, CleanedUp, ExitDaemon, Forget
<1>8. RecoveryInv'
  BY DEF SlotInv, RecoveryInv, CleanedUp, ExitDaemon, Forget
<1> QED
  BY <1>1, <1>2, <1>3, <1>4, <1>5, <1>6, <1>7, <1>8
     DEF SlotInv, SlotTypeOK

\* A finished session ends and removes its marker.
LEMMA AcknowledgeFinishedKeeps ==
    ASSUME SlotInv, AcknowledgeFinished
    PROVE  SlotInv'
<1>1. PositionsOK'
  BY DEF SlotInv, SlotTypeOK, PositionsOK, AcknowledgeFinished, ExitDaemon,
     Forget
<1>2. StoreOK'
  BY DEF SlotInv, SlotTypeOK, StoreOK, AcknowledgeFinished, ExitDaemon,
     Forget
<1>3. MemoryOK'
  BY DEF SlotInv, SlotTypeOK, MemoryOK, AcknowledgeFinished, ExitDaemon,
     Forget
<1>4. OneWorkerPerSlot'
  BY SlotAssumption DEF SlotInv, SlotTypeOK, PositionsOK, StoreOK,
     OneWorkerPerSlot, Alive, RunInv, DaemonInv, PcInv, RecoveryInv,
     AcknowledgeFinished, ExitDaemon, Forget, Runs, Directives
<1>5. RunInv'
  BY SlotAssumption DEF SlotInv, SlotTypeOK, PositionsOK, StoreOK,
     OneWorkerPerSlot, Alive, RunInv, DaemonInv, PcInv, RecoveryInv,
     AcknowledgeFinished, ExitDaemon, Forget, Runs, Directives
<1>6. DaemonInv'
  BY DEF SlotInv, DaemonInv, AcknowledgeFinished, ExitDaemon, Forget
<1>7. PcInv'
  BY DEF SlotInv, PcInv, AcknowledgeFinished, ExitDaemon, Forget
<1>8. RecoveryInv'
  BY DEF SlotInv, RecoveryInv, AcknowledgeFinished, ExitDaemon, Forget
<1> QED
  BY <1>1, <1>2, <1>3, <1>4, <1>5, <1>6, <1>7, <1>8
     DEF SlotInv, SlotTypeOK

\* A frame is delivered.
LEMMA DeliverKeeps ==
    ASSUME NEW r \in Runs, SlotInv, Deliver(r)
    PROVE  SlotInv'
<1>1. PositionsOK'
  <2>1. /\ acked' \in [Runs -> Nat] /\ accepted' \in [Runs -> Nat]
        /\ acked'[r] = acked[r] + 1 /\ accepted'[r] = acked[r] + 1
        /\ \A s \in Runs \ {r} : acked'[s] = acked[s] /\ accepted'[s] = accepted[s]
        /\ acked[r] < last[r] /\ UNCHANGED <<last, stop>>
    BY DEF SlotInv, SlotTypeOK, PositionsOK, Deliver
  <2> QED
    BY <2>1 DEF SlotInv, SlotTypeOK, PositionsOK
<1>2. StoreOK'
  BY DEF SlotInv, SlotTypeOK, StoreOK, Deliver, Holds
<1>3. MemoryOK'
  BY DEF SlotInv, SlotTypeOK, MemoryOK, Deliver, Holds
<1>4. OneWorkerPerSlot'
  BY DEF SlotInv, OneWorkerPerSlot, Alive, Deliver, Holds
<1>5. RunInv'
  <2>1. \A s \in Runs : proc'[s] # "none" => s <= run'
    BY SlotAssumption DEF SlotInv, SlotTypeOK, PositionsOK, StoreOK, RunInv,
       DaemonInv, PcInv, RecoveryInv, Deliver, Holds, Runs
  <2>2. \A s \in Runs : stop'[s] > 0 => proc'[s] = "stopped"
    BY SlotAssumption DEF SlotInv, SlotTypeOK, PositionsOK, StoreOK, RunInv,
       DaemonInv, PcInv, RecoveryInv, Deliver, Holds, Runs
  <2>3. \A s \in Runs : claim' = s => s <= run'
    BY SlotAssumption DEF SlotInv, SlotTypeOK, PositionsOK, StoreOK, RunInv,
       DaemonInv, PcInv, RecoveryInv, Deliver, Holds, Runs
  <2>4. marker' # None => marker' <= run'
    BY SlotAssumption DEF SlotInv, SlotTypeOK, PositionsOK, StoreOK, RunInv,
       DaemonInv, PcInv, RecoveryInv, Deliver, Holds, Runs
  <2>5. \A p \in done' : /\ p[1] <= run' /\ (claim' = p[1] => stray' = p[1])
                          /\ stop'[p[1]] > 0 /\ acked'[p[1]] = last'[p[1]]
    <3> SUFFICES ASSUME NEW p \in done
                 PROVE  /\ p[1] <= run' /\ (claim' = p[1] => stray' = p[1])
                        /\ stop'[p[1]] > 0 /\ acked'[p[1]] = last'[p[1]]
      BY DEF Deliver
    <3>1. p[1] \in Runs /\ acked[p[1]] = last[p[1]] /\ acked[r] < last[r]
      BY DEF SlotInv, SlotTypeOK, StoreOK, RunInv, Deliver
    <3>2. p[1] # r
      BY <3>1 DEF SlotInv, SlotTypeOK, PositionsOK
    <3>3. acked'[p[1]] = acked[p[1]]
      BY <3>1, <3>2 DEF SlotInv, SlotTypeOK, PositionsOK, Deliver
    <3> QED
      BY <3>1, <3>3 DEF SlotInv, RunInv, Deliver
  <2> QED
    BY <2>1, <2>2, <2>3, <2>4, <2>5 DEF RunInv
<1>6. DaemonInv'
  BY DEF SlotInv, DaemonInv, Deliver, Holds
<1>7. PcInv'
  BY DEF SlotInv, PcInv, Deliver, Holds
<1>8. RecoveryInv'
  BY DEF SlotInv, RecoveryInv, Deliver, Holds
<1> QED
  BY <1>1, <1>2, <1>3, <1>4, <1>5, <1>6, <1>7, <1>8
     DEF SlotInv, SlotTypeOK

\* An answer is lost.
LEMMA AnswerLostKeeps ==
    ASSUME NEW r \in Runs, SlotInv, AnswerLost(r)
    PROVE  SlotInv'
<1>1. PositionsOK'
  <2>1. /\ accepted' \in [Runs -> Nat] /\ accepted'[r] = acked[r] + 1
        /\ \A s \in Runs \ {r} : accepted'[s] = accepted[s]
        /\ acked[r] < last[r] /\ UNCHANGED <<last, acked, stop>>
    BY DEF SlotInv, SlotTypeOK, PositionsOK, AnswerLost
  <2> QED
    BY <2>1 DEF SlotInv, SlotTypeOK, PositionsOK
<1>2. StoreOK'
  BY DEF SlotInv, SlotTypeOK, StoreOK, AnswerLost, Holds, Fault, Forget
<1>3. MemoryOK'
  <2>1. faults' \in 0..MaxFaults
    BY FaultTyped DEF SlotInv, SlotTypeOK, AnswerLost
  <2>2. CASE pc = "replay"
    BY <2>1, <2>2, ForgetTyped DEF AnswerLost
  <2>3. CASE pc # "replay"
    BY <2>1, <2>3 DEF SlotInv, SlotTypeOK, MemoryOK, AnswerLost
  <2> QED
    BY <2>2, <2>3
<1>4. OneWorkerPerSlot'
  BY DEF SlotInv, OneWorkerPerSlot, Alive, AnswerLost, Holds, Fault, Forget
<1>5. RunInv'
  BY DEF SlotInv, RunInv, AnswerLost, Holds, Fault, Forget
<1>6. DaemonInv'
  BY DEF SlotInv, DaemonInv, AnswerLost, Holds, Fault, Forget
<1>7. PcInv'
  BY DEF SlotInv, PcInv, AnswerLost, Holds, Fault, Forget
<1>8. RecoveryInv'
  BY DEF SlotInv, RecoveryInv, AnswerLost, Holds, Fault, Forget
<1> QED
  BY <1>1, <1>2, <1>3, <1>4, <1>5, <1>6, <1>7, <1>8
     DEF SlotInv, SlotTypeOK

\* A frame is refused for good.
LEMMA FrameRefusedKeeps ==
    ASSUME NEW r \in Runs, SlotInv, FrameRefused(r)
    PROVE  SlotInv'
<1>1. PositionsOK'
  BY DEF SlotInv, SlotTypeOK, PositionsOK, FrameRefused, Holds, Fault,
     Forget, Raise, ExitDaemon, FinishAt
<1>2. StoreOK'
  BY DEF SlotInv, SlotTypeOK, StoreOK, FrameRefused, Holds, Fault, Forget,
     Raise, ExitDaemon, FinishAt
<1>3. MemoryOK'
  <2>1. faults' \in 0..MaxFaults
    BY FaultTyped DEF SlotInv, SlotTypeOK, MemoryOK, FrameRefused
  <2>2. CASE pc = "replay"
    BY <2>1, <2>2, ForgetTyped DEF FrameRefused
  <2>3. CASE pc # "replay"
    BY <2>1, <2>3, RaiseTyped DEF SlotInv, SlotTypeOK, FrameRefused
  <2> QED
    BY <2>2, <2>3
<1>4. OneWorkerPerSlot'
  BY DEF SlotInv, OneWorkerPerSlot, Alive, FrameRefused, Holds, Fault,
     Forget, Raise, ExitDaemon, FinishAt
<1>5. RunInv'
  BY DEF SlotInv, RunInv, FrameRefused, Holds, Fault, Forget, Raise,
     ExitDaemon, FinishAt
<1>6. DaemonInv'
  BY DEF SlotInv, DaemonInv, FrameRefused, Holds, Fault, Forget, Raise,
     ExitDaemon, FinishAt
<1>7. PcInv'
  BY DEF SlotInv, PcInv, FrameRefused, Holds, Fault, Forget, Raise,
     ExitDaemon, FinishAt
<1>8. RecoveryInv'
  BY DEF SlotInv, RecoveryInv, FrameRefused, Holds, Fault, Forget, Raise,
     ExitDaemon, FinishAt
<1> QED
  BY <1>1, <1>2, <1>3, <1>4, <1>5, <1>6, <1>7, <1>8
     DEF SlotInv, SlotTypeOK

\* A stop request cancels what is awaited.
LEMMA StopRequestedKeeps ==
    ASSUME SlotInv, StopRequested
    PROVE  SlotInv'
<1>1. PositionsOK'
  BY DEF SlotInv, SlotTypeOK, PositionsOK, StopRequested, FinishAt
<1>2. StoreOK'
  <2>1. late' \in [Runs -> Nat]
    BY DEF SlotInv, SlotTypeOK, StoreOK, DaemonInv, StopRequested
  <2> QED
    BY <2>1 DEF SlotInv, SlotTypeOK, StoreOK, StopRequested
<1>3. MemoryOK'
  BY DEF SlotInv, SlotTypeOK, MemoryOK, StopRequested, FinishAt
<1>4. OneWorkerPerSlot'
  BY DEF SlotInv, OneWorkerPerSlot, Alive, StopRequested, FinishAt
<1>5. RunInv'
  BY SlotAssumption DEF SlotInv, SlotTypeOK, RunInv, PositionsOK, StoreOK,
     DaemonInv, StopRequested, FinishAt, Runs, Directives
<1>6. DaemonInv'
  BY DEF SlotInv, DaemonInv, StopRequested, FinishAt
<1>7. PcInv'
  BY DEF SlotInv, PcInv, StopRequested, FinishAt
<1>8. RecoveryInv'
  BY DEF SlotInv, RecoveryInv, StopRequested, FinishAt
<1> QED
  BY <1>1, <1>2, <1>3, <1>4, <1>5, <1>6, <1>7, <1>8
     DEF SlotInv, SlotTypeOK

\* The grace period ends.
LEMMA DeadlineKeeps ==
    ASSUME SlotInv, Deadline
    PROVE  SlotInv'
<1>1. PositionsOK'
  BY DEF SlotInv, SlotTypeOK, PositionsOK, Deadline, Raise, ExitDaemon,
     Forget, FinishAt, Fault
<1>2. StoreOK'
  BY DEF SlotInv, SlotTypeOK, StoreOK, Deadline, Raise, ExitDaemon, Forget,
     FinishAt, Fault
<1>3. MemoryOK'
  BY RaiseTyped, FaultTyped DEF SlotInv, SlotTypeOK, Deadline
<1>4. OneWorkerPerSlot'
  BY SlotAssumption DEF SlotInv, SlotTypeOK, OneWorkerPerSlot, Alive,
     StoreOK, DaemonInv, PcInv, Deadline, Raise, ExitDaemon, Forget,
     FinishAt, Fault, Runs, Directives
<1>5. RunInv'
  BY SlotAssumption DEF SlotInv, SlotTypeOK, PositionsOK, StoreOK,
     OneWorkerPerSlot, Alive, RunInv, DaemonInv, PcInv, RecoveryInv,
     Deadline, Raise, ExitDaemon, Forget, FinishAt, Fault, Runs, Directives
<1>6. DaemonInv'
  BY DEF SlotInv, DaemonInv, Deadline, Raise, ExitDaemon, Forget, FinishAt,
     Fault
<1>7. PcInv'
  BY DEF SlotInv, PcInv, Deadline, Raise, ExitDaemon, Forget, FinishAt, Fault
<1>8. RecoveryInv'
  BY DEF SlotInv, RecoveryInv, Deadline, Raise, ExitDaemon, Forget, FinishAt,
     Fault
<1> QED
  BY <1>1, <1>2, <1>3, <1>4, <1>5, <1>6, <1>7, <1>8
     DEF SlotInv, SlotTypeOK

\* A crash forgets everything in memory.
LEMMA CrashKeeps ==
    ASSUME SlotInv, Crash
    PROVE  SlotInv'
<1>1. PositionsOK'
  BY DEF SlotInv, SlotTypeOK, PositionsOK, Crash, Forget, Fault
<1>2. StoreOK'
  BY DEF SlotInv, SlotTypeOK, StoreOK, Crash, Forget, Fault
<1>3. MemoryOK'
  BY ForgetTyped, FaultTyped DEF SlotInv, SlotTypeOK, Crash
<1>4. OneWorkerPerSlot'
  BY DEF SlotInv, OneWorkerPerSlot, Alive, Crash, Forget, Fault
<1>5. RunInv'
  BY DEF SlotInv, RunInv, Crash, Forget, Fault
<1>6. DaemonInv'
  BY DEF SlotInv, DaemonInv, Crash, Forget, Fault
<1>7. PcInv'
  BY DEF SlotInv, PcInv, Crash, Forget, Fault
<1>8. RecoveryInv'
  BY DEF SlotInv, RecoveryInv, Crash, Forget, Fault
<1> QED
  BY <1>1, <1>2, <1>3, <1>4, <1>5, <1>6, <1>7, <1>8
     DEF SlotInv, SlotTypeOK

\* A worker's main process ends.
LEMMA WorkerExitsKeeps ==
    ASSUME SlotInv, WorkerExits
    PROVE  SlotInv'
<1>1. PositionsOK'
  BY DEF SlotInv, SlotTypeOK, PositionsOK, WorkerExits
<1>2. StoreOK'
  BY DEF SlotInv, SlotTypeOK, StoreOK, WorkerExits
<1>3. MemoryOK'
  BY DEF SlotInv, SlotTypeOK, MemoryOK, WorkerExits
<1>4. OneWorkerPerSlot'
  BY DEF SlotInv, OneWorkerPerSlot, Alive, WorkerExits
<1>5. RunInv'
  BY DEF SlotInv, RunInv, WorkerExits
<1>6. DaemonInv'
  BY DEF SlotInv, DaemonInv, WorkerExits
<1>7. PcInv'
  BY DEF SlotInv, PcInv, WorkerExits
<1>8. RecoveryInv'
  BY DEF SlotInv, RecoveryInv, WorkerExits
<1> QED
  BY <1>1, <1>2, <1>3, <1>4, <1>5, <1>6, <1>7, <1>8
     DEF SlotInv, SlotTypeOK

\* The lease moves at Ackplane.
LEMMA LeaseMovesKeeps ==
    ASSUME SlotInv, LeaseMoves
    PROVE  SlotInv'
<1>1. PositionsOK'
  BY DEF SlotInv, SlotTypeOK, PositionsOK, LeaseMoves
<1>2. StoreOK'
  BY DEF SlotInv, SlotTypeOK, StoreOK, LeaseMoves
<1>3. MemoryOK'
  BY DEF SlotInv, SlotTypeOK, MemoryOK, LeaseMoves
<1>4. OneWorkerPerSlot'
  BY DEF SlotInv, OneWorkerPerSlot, Alive, LeaseMoves
<1>5. RunInv'
  BY SlotAssumption DEF SlotInv, SlotTypeOK, RunInv, PositionsOK, StoreOK,
     DaemonInv, LeaseMoves, Runs, Directives
<1>6. DaemonInv'
  BY SlotAssumption DEF SlotInv, SlotTypeOK, DaemonInv, PcInv, StoreOK,
     LeaseMoves, Runs, Directives
<1>7. PcInv'
  BY DEF SlotInv, PcInv, LeaseMoves
<1>8. RecoveryInv'
  BY SlotAssumption DEF SlotInv, SlotTypeOK, RecoveryInv, RunInv, StoreOK,
     LeaseMoves, Runs, Directives
<1> QED
  BY <1>1, <1>2, <1>3, <1>4, <1>5, <1>6, <1>7, <1>8
     DEF SlotInv, SlotTypeOK

\* A decision nobody waits for gives a run at most a stray lease.
LEMMA LateDecisionKeeps ==
    ASSUME NEW r \in 1..run, SlotInv, LateDecision(r)
    PROVE  SlotInv'
<1>0. r \in Runs /\ r <= run
  BY SlotAssumption DEF SlotInv, SlotTypeOK, StoreOK, Runs
<1>c. \/ claim' = claim /\ stray' = stray
      \/ claim' = r /\ stray' = r
  BY DEF LateDecision
<1>1. PositionsOK'
  BY DEF SlotInv, SlotTypeOK, PositionsOK, LateDecision
<1>2. StoreOK'
  <2>1. late' \in [Runs -> Nat]
    BY <1>0 DEF SlotInv, SlotTypeOK, StoreOK, LateDecision
  <2> QED
    BY <1>0, <1>c, <2>1 DEF SlotInv, SlotTypeOK, StoreOK, LateDecision
<1>3. MemoryOK'
  BY DEF SlotInv, SlotTypeOK, MemoryOK, LateDecision
<1>4. OneWorkerPerSlot'
  BY DEF SlotInv, OneWorkerPerSlot, Alive, LateDecision
<1>5. RunInv'
  BY <1>0, <1>c DEF SlotInv, RunInv, LateDecision
<1>6. DaemonInv'
  BY <1>c DEF SlotInv, DaemonInv, LateDecision
<1>7. PcInv'
  BY DEF SlotInv, PcInv, LateDecision
<1>8. RecoveryInv'
  BY <1>c DEF SlotInv, RecoveryInv, LateDecision
<1> QED
  BY <1>1, <1>2, <1>3, <1>4, <1>5, <1>6, <1>7, <1>8
     DEF SlotInv, SlotTypeOK

\* Recovery begins.
LEMMA ConfirmKeeps ==
    ASSUME NEW d \in Nat, SlotInv, Confirm(d)
    PROVE  SlotInv'
<1>1. PositionsOK'
  BY DEF SlotInv, SlotTypeOK, PositionsOK, Confirm
<1>2. StoreOK'
  BY DEF SlotInv, SlotTypeOK, StoreOK, Confirm
<1>3. MemoryOK'
  BY DEF SlotInv, SlotTypeOK, MemoryOK, Confirm
<1>4. OneWorkerPerSlot'
  BY DEF SlotInv, OneWorkerPerSlot, Alive, Confirm
<1>5. RunInv'
  BY DEF SlotInv, RunInv, Confirm
<1>6. DaemonInv'
  BY DEF SlotInv, DaemonInv, Confirm
<1>7. PcInv'
  BY DEF SlotInv, PcInv, Confirm
<1>8. RecoveryInv'
  BY SlotAssumption DEF SlotInv, SlotTypeOK, RecoveryInv, RunInv, StoreOK,
     Confirm, Runs, Directives
<1> QED
  BY <1>1, <1>2, <1>3, <1>4, <1>5, <1>6, <1>7, <1>8
     DEF SlotInv, SlotTypeOK

\* Recovery compares positions.
LEMMA ConfirmReconcilesKeeps ==
    ASSUME SlotInv, ConfirmReconciles
    PROVE  SlotInv'
<1>1. PositionsOK'
  BY DEF SlotInv, SlotTypeOK, PositionsOK, ConfirmReconciles, Forget
<1>2. StoreOK'
  BY DEF SlotInv, SlotTypeOK, StoreOK, ConfirmReconciles, Forget
<1>3. MemoryOK'
  <2>1. CASE Forget
    BY <2>1, ForgetTyped DEF SlotInv, SlotTypeOK, MemoryOK, ConfirmReconciles
  <2>2. CASE pc' = "replay" /\ UNCHANGED <<mode, job, flagVars>>
    BY <2>2 DEF SlotInv, SlotTypeOK, MemoryOK, ConfirmReconciles
  <2> QED
    BY <2>1, <2>2 DEF ConfirmReconciles
<1>4. OneWorkerPerSlot'
  BY DEF SlotInv, OneWorkerPerSlot, Alive, ConfirmReconciles, Forget
<1>5. RunInv'
  BY DEF SlotInv, RunInv, ConfirmReconciles, Forget
<1>6. DaemonInv'
  BY DEF SlotInv, DaemonInv, ConfirmReconciles, Forget
<1>7. PcInv'
  BY DEF SlotInv, PcInv, ConfirmReconciles, Forget
<1>8. RecoveryInv'
  BY DEF SlotInv, RecoveryInv, ConfirmReconciles, Forget
<1> QED
  BY <1>1, <1>2, <1>3, <1>4, <1>5, <1>6, <1>7, <1>8
     DEF SlotInv, SlotTypeOK

\* Recovery gives the lease back.
LEMMA ConfirmReleasesKeeps ==
    ASSUME SlotInv, ConfirmReleases
    PROVE  SlotInv'
<1>1. PositionsOK'
  BY DEF SlotInv, SlotTypeOK, PositionsOK, ConfirmReleases, Released
<1>2. StoreOK'
  BY DEF SlotInv, SlotTypeOK, StoreOK, ConfirmReleases, Released
<1>3. MemoryOK'
  BY DEF SlotInv, SlotTypeOK, MemoryOK, ConfirmReleases, Released
<1>4. OneWorkerPerSlot'
  BY DEF SlotInv, OneWorkerPerSlot, Alive, ConfirmReleases, Released
<1>5. RunInv'
  <2>1. \/ claim' = claim /\ stray' = stray
        \/ claim' = None
    BY DEF ConfirmReleases, Released
  <2>2. None \notin Runs
    BY SlotAssumption DEF Runs
  <2>3. \A p \in done : p[1] \in Runs
    BY DEF SlotInv, SlotTypeOK, StoreOK
  <2> QED
    BY <2>1, <2>2, <2>3 DEF SlotInv, RunInv, ConfirmReleases
<1>6. DaemonInv'
  BY DEF SlotInv, DaemonInv, ConfirmReleases, Released
<1>7. PcInv'
  BY DEF SlotInv, PcInv, ConfirmReleases, Released
<1>8. RecoveryInv'
  BY SlotAssumption DEF SlotInv, SlotTypeOK, RecoveryInv, RunInv, StoreOK,
     ConfirmReleases, Released, Runs, Directives
<1> QED
  BY <1>1, <1>2, <1>3, <1>4, <1>5, <1>6, <1>7, <1>8
     DEF SlotInv, SlotTypeOK

\* ... or cannot tell.
LEMMA ConfirmReleaseFailsKeeps ==
    ASSUME SlotInv, ConfirmReleaseFails
    PROVE  SlotInv'
<1>1. PositionsOK'
  BY DEF SlotInv, SlotTypeOK, PositionsOK, ConfirmReleaseFails, Released,
     Fault, Forget
<1>2. StoreOK'
  BY DEF SlotInv, SlotTypeOK, StoreOK, ConfirmReleaseFails, Released, Fault,
     Forget
<1>3. MemoryOK'
  BY ForgetTyped, FaultTyped DEF SlotInv, SlotTypeOK, ConfirmReleaseFails
<1>4. OneWorkerPerSlot'
  BY DEF SlotInv, OneWorkerPerSlot, Alive, ConfirmReleaseFails, Released,
     Fault, Forget
<1>5. RunInv'
  <2>1. \/ claim' = claim /\ stray' = stray
        \/ claim' = None
    BY DEF ConfirmReleaseFails, Released
  <2>2. None \notin Runs
    BY SlotAssumption DEF Runs
  <2>3. \A p \in done : p[1] \in Runs
    BY DEF SlotInv, SlotTypeOK, StoreOK
  <2> QED
    BY <2>1, <2>2, <2>3 DEF SlotInv, RunInv, ConfirmReleaseFails
<1>6. DaemonInv'
  BY DEF SlotInv, DaemonInv, ConfirmReleaseFails, Released, Fault, Forget
<1>7. PcInv'
  BY DEF SlotInv, PcInv, ConfirmReleaseFails, Released, Fault, Forget
<1>8. RecoveryInv'
  BY DEF SlotInv, RecoveryInv, ConfirmReleaseFails, Released, Fault, Forget
<1> QED
  BY <1>1, <1>2, <1>3, <1>4, <1>5, <1>6, <1>7, <1>8
     DEF SlotInv, SlotTypeOK

\* Recovery is recorded.
LEMMA ConfirmCompletesKeeps ==
    ASSUME SlotInv, ConfirmCompletes
    PROVE  SlotInv'
<1>1. PositionsOK'
  BY DEF SlotInv, SlotTypeOK, PositionsOK, ConfirmCompletes
<1>2. StoreOK'
  <2>1. marker \in Runs /\ job \in Nat
    BY DEF SlotInv, SlotTypeOK, MemoryOK, RecoveryInv, ConfirmCompletes
  <2>2. done' \subseteq Runs \X Nat
    BY <2>1 DEF SlotInv, SlotTypeOK, StoreOK, ConfirmCompletes
  <2> QED
    BY <2>2 DEF SlotInv, SlotTypeOK, StoreOK, ConfirmCompletes
<1>3. MemoryOK'
  BY DEF SlotInv, SlotTypeOK, MemoryOK, ConfirmCompletes
<1>4. OneWorkerPerSlot'
  BY DEF SlotInv, OneWorkerPerSlot, Alive, ConfirmCompletes
<1>5. RunInv'
  <2>1. \A r \in Runs : proc'[r] # "none" => r <= run'
    BY SlotAssumption DEF SlotInv, SlotTypeOK, PositionsOK, StoreOK, RunInv,
       DaemonInv, PcInv, RecoveryInv, ConfirmCompletes, Runs
  <2>2. \A r \in Runs : stop'[r] > 0 => proc'[r] = "stopped"
    BY SlotAssumption DEF SlotInv, SlotTypeOK, PositionsOK, StoreOK, RunInv,
       DaemonInv, PcInv, RecoveryInv, ConfirmCompletes, Runs
  <2>3. \A r \in Runs : claim' = r => r <= run'
    BY SlotAssumption DEF SlotInv, SlotTypeOK, PositionsOK, StoreOK, RunInv,
       DaemonInv, PcInv, RecoveryInv, ConfirmCompletes, Runs
  <2>4. marker' # None => marker' <= run'
    BY SlotAssumption DEF SlotInv, SlotTypeOK, PositionsOK, StoreOK, RunInv,
       DaemonInv, PcInv, RecoveryInv, ConfirmCompletes, Runs
  <2>5. \A p \in done' : /\ p[1] <= run' /\ (claim' = p[1] => stray' = p[1])
                          /\ stop'[p[1]] > 0 /\ acked'[p[1]] = last'[p[1]]
    <3>1. /\ marker \in Runs /\ stop[marker] > 0
          /\ claim = marker => stray = marker
          /\ acked[marker] = last[marker] /\ marker <= run
      BY SlotAssumption DEF SlotInv, RecoveryInv, RunInv, ConfirmCompletes, Runs
    <3>2. \A p \in done' : p \in done \/ p[1] = marker
      BY DEF ConfirmCompletes
    <3>3. UNCHANGED <<run, claim, stray, stop, acked, last>>
      BY DEF ConfirmCompletes
    <3> QED
      BY <3>1, <3>2, <3>3 DEF SlotInv, RunInv
  <2> QED
    BY <2>1, <2>2, <2>3, <2>4, <2>5 DEF RunInv
<1>6. DaemonInv'
  BY DEF SlotInv, DaemonInv, ConfirmCompletes
<1>7. PcInv'
  BY DEF SlotInv, PcInv, ConfirmCompletes
<1>8. RecoveryInv'
  BY DEF SlotInv, RecoveryInv, ConfirmCompletes
<1> QED
  BY <1>1, <1>2, <1>3, <1>4, <1>5, <1>6, <1>7, <1>8
     DEF SlotInv, SlotTypeOK

\* Recovery removes the marker.
LEMMA ConfirmRemovesKeeps ==
    ASSUME SlotInv, ConfirmRemoves
    PROVE  SlotInv'
<1>1. PositionsOK'
  BY DEF SlotInv, SlotTypeOK, PositionsOK, ConfirmRemoves, Forget
<1>2. StoreOK'
  BY DEF SlotInv, SlotTypeOK, StoreOK, ConfirmRemoves, Forget
<1>3. MemoryOK'
  BY DEF SlotInv, SlotTypeOK, MemoryOK, ConfirmRemoves, Forget
<1>4. OneWorkerPerSlot'
  BY SlotAssumption DEF SlotInv, SlotTypeOK, PositionsOK, StoreOK,
     OneWorkerPerSlot, Alive, RunInv, DaemonInv, PcInv, RecoveryInv,
     ConfirmRemoves, Forget, Runs, Directives
<1>5. RunInv'
  BY DEF SlotInv, RunInv, ConfirmRemoves, Forget
<1>6. DaemonInv'
  BY DEF SlotInv, DaemonInv, ConfirmRemoves, Forget
<1>7. PcInv'
  BY DEF SlotInv, PcInv, ConfirmRemoves, Forget
<1>8. RecoveryInv'
  BY DEF SlotInv, RecoveryInv, ConfirmRemoves, Forget
<1> QED
  BY <1>1, <1>2, <1>3, <1>4, <1>5, <1>6, <1>7, <1>8
     DEF SlotInv, SlotTypeOK

----------------------------------------------------------------------------
(* The invariant *)

\* The first state satisfies the invariant.
LEMMA InitEstablishes == Init => SlotInv
<1> SUFFICES ASSUME Init PROVE SlotInv
  OBVIOUS
<1>1. PositionsOK
  BY DEF Init, Zero, PositionsOK
<1>2. StoreOK
  <2>1. run \in 0..MaxRuns
    BY SlotAssumption DEF Init
  <2>2. proc \in [Runs -> {"none", "live", "exited", "stopped"}]
    BY DEF Init
  <2>3. effect \in [Directives -> {"none", "unconfirmed", "applied", "refused"}]
    BY DEF Init
  <2>4. /\ bad = {} /\ done = {} /\ marker = None /\ torn = FALSE
        /\ claim = None /\ stray = None /\ reported = {}
    BY DEF Init
  <2>5. late \in [Runs -> Nat]
    BY DEF Init, Zero
  <2> QED
    BY <2>1, <2>2, <2>3, <2>4, <2>5 DEF StoreOK
<1>3. MemoryOK
  <2>1. /\ pc = "down" /\ mode = "serving" /\ job = 0
        /\ active = FALSE /\ tracked = FALSE
        /\ lease = FALSE /\ finished = FALSE
    BY DEF Init
  <2>2. faults \in 0..MaxFaults
    BY SlotAssumption DEF Init
  <2> QED
    BY <2>1, <2>2 DEF MemoryOK
<1>4. OneWorkerPerSlot /\ RunInv
  BY SlotAssumption DEF Init, OneWorkerPerSlot, Alive, RunInv, Zero, Runs
<1>5. DaemonInv /\ PcInv /\ RecoveryInv
  BY DEF Init, DaemonInv, PcInv, RecoveryInv
<1> QED
  BY <1>1, <1>2, <1>3, <1>4, <1>5 DEF SlotInv, SlotTypeOK

\* Every step preserves the invariant.
LEMMA NextKeeps ==
    ASSUME SlotInv, [Next]_slotVars
    PROVE  SlotInv'
<1>0. \A d \in 0..last[marker] : marker # None => d \in Nat
  BY DEF SlotInv, SlotTypeOK, PositionsOK, StoreOK
<1>1. CASE Start
  BY <1>1, StartKeeps
<1>2. ASSUME NEW d \in Directives, ReceiptOnly(d)
      PROVE  SlotInv'
  BY <1>2, ReceiptOnlyKeeps
<1>3. ASSUME NEW d \in Directives, Acquire(d)
      PROVE  SlotInv'
  BY <1>3, AcquireKeeps
<1>4. ASSUME NEW d \in Directives, AcquireTimesOut(d)
      PROVE  SlotInv'
  BY <1>4, AcquireTimesOutKeeps
<1>5. CASE ContextFails
  BY <1>5, ContextFailsKeeps
<1>6. CASE Apply
  BY <1>6, ApplyKeeps
<1>7. CASE CreateMarker
  BY <1>7, CreateMarkerKeeps
<1>8. CASE SyncMarker
  BY <1>8, SyncMarkerKeeps
<1>9. CASE MarkerWriteFails
  BY <1>9, MarkerWriteFailsKeeps
<1>10. CASE Spawn
  BY <1>10, SpawnKeeps
<1>11. CASE SpawnFails
  BY <1>11, SpawnFailsKeeps
<1>12. CASE GiveBack
  BY <1>12, GiveBackKeeps
<1>13. CASE GiveBackFails
  BY <1>13, GiveBackFailsKeeps
<1>14. CASE StoreApplied
  BY <1>14, StoreAppliedKeeps
<1>15. CASE QueueStarted
  BY <1>15, QueueStartedKeeps
<1>16. CASE QueueAssigned
  BY <1>16, QueueAssignedKeeps
<1>17. CASE Observe
  BY <1>17, ObserveKeeps
<1>18. CASE RetryRelease
  BY <1>18, RetryReleaseKeeps
<1>19. ASSUME NEW d \in Directives, Terminate(d)
      PROVE  SlotInv'
  BY <1>19, TerminateKeeps
<1>20. CASE Kill
  BY <1>20, KillKeeps
<1>21. CASE KillUnknown
  BY <1>21, KillUnknownKeeps
<1>22. CASE QueueTerminal
  BY <1>22, QueueTerminalKeeps
<1>23. CASE Release
  BY <1>23, ReleaseKeeps
<1>24. CASE ReleaseFails
  BY <1>24, ReleaseFailsKeeps
<1>25. CASE StepFails
  BY <1>25, StepFailsKeeps
<1>26. CASE CleanedUp
  BY <1>26, CleanedUpKeeps
<1>27. CASE AcknowledgeFinished
  BY <1>27, AcknowledgeFinishedKeeps
<1>28. ASSUME NEW r \in Runs, Deliver(r)
      PROVE  SlotInv'
  BY <1>28, DeliverKeeps
<1>29. ASSUME NEW r \in Runs, AnswerLost(r)
      PROVE  SlotInv'
  BY <1>29, AnswerLostKeeps
<1>30. ASSUME NEW r \in Runs, FrameRefused(r)
      PROVE  SlotInv'
  BY <1>30, FrameRefusedKeeps
<1>31. CASE StopRequested
  BY <1>31, StopRequestedKeeps
<1>32. CASE Deadline
  BY <1>32, DeadlineKeeps
<1>33. CASE Crash
  BY <1>33, CrashKeeps
<1>34. CASE WorkerExits
  BY <1>34, WorkerExitsKeeps
<1>35. CASE LeaseMoves
  BY <1>35, LeaseMovesKeeps
<1>36. ASSUME NEW d \in Nat, Confirm(d)
      PROVE  SlotInv'
  BY <1>36, ConfirmKeeps
<1>37. CASE ConfirmReconciles
  BY <1>37, ConfirmReconcilesKeeps
<1>38. CASE ConfirmReleases
  BY <1>38, ConfirmReleasesKeeps
<1>39. CASE ConfirmReleaseFails
  BY <1>39, ConfirmReleaseFailsKeeps
<1>40. CASE ConfirmCompletes
  BY <1>40, ConfirmCompletesKeeps
<1>41. CASE ConfirmRemoves
  BY <1>41, ConfirmRemovesKeeps
<1>42. ASSUME NEW r \in 1..run, LateDecision(r)
      PROVE  SlotInv'
  BY <1>42, LateDecisionKeeps
<1>43. CASE UNCHANGED slotVars
  BY <1>43 DEF slotVars, SlotInv, SlotTypeOK, PositionsOK, StoreOK, MemoryOK, OneWorkerPerSlot, Alive,
     RunInv, DaemonInv, PcInv, RecoveryInv
<1> QED
  BY <1>0, <1>1, <1>2, <1>3, <1>4, <1>5, <1>6, <1>7, <1>8, <1>9, <1>10,
     <1>11, <1>12, <1>13, <1>14, <1>15, <1>16, <1>17, <1>18, <1>19, <1>20,
     <1>21, <1>22, <1>23, <1>24, <1>25, <1>26, <1>27, <1>28, <1>29, <1>30,
     <1>31, <1>32, <1>33, <1>34, <1>35, <1>36, <1>37, <1>38, <1>39, <1>40,
     <1>41, <1>42, <1>43
     DEF Next, AssignStep

\* The invariant holds in every state of every behaviour.
THEOREM SlotInvariant == SlotSpec => []SlotInv
<1>1. Init => SlotInv
  BY InitEstablishes
<1>2. SlotInv /\ [Next]_slotVars => SlotInv'
  BY NextKeeps
<1> QED
  BY <1>1, <1>2, PTL DEF SlotSpec

\* Every state is typed, and no position passes what was enqueued.
THEOREM SlotTypeCorrect == SlotSpec => []SlotTypeOK
BY SlotInvariant, PTL DEF SlotInv

\* Whatever crashes, replays or recoveries happen, a worker that may still
\* run is the one the slot's complete marker names.
THEOREM SlotHasOneWorker == SlotSpec => []OneWorkerPerSlot
BY SlotInvariant, PTL DEF SlotInv

----------------------------------------------------------------------------
(* The action properties *)

\* No step gives back the lease of a run whose worker may still run.
LEMMA LeaseOutlivesWorkerStep ==
    ASSUME SlotInv, [Next]_slotVars
    PROVE  \A r \in Runs :
              claim = r /\ claim' # r /\ pc' # pc => ~Alive(r)
<1> DEFINE G == \A r \in Runs :
              claim = r /\ claim' # r /\ pc' # pc => ~Alive(r)
<1> SUFFICES G
  OBVIOUS
<1>0. \A d \in 0..last[marker] : marker # None => d \in Nat
  BY DEF SlotInv, SlotTypeOK, PositionsOK, StoreOK
<1>1. ASSUME NEW d \in Directives, Acquire(d)
      PROVE  G
  BY <1>1, SlotAssumption DEF Acquire, Takes, Room, SlotInv, SlotTypeOK,
     StoreOK, RunInv, DaemonInv, PcInv, RecoveryInv, Runs, Alive
<1>2. ASSUME NEW d \in Directives, AcquireTimesOut(d)
      PROVE  G
  BY <1>2, SlotAssumption DEF AcquireTimesOut, Takes, Room, Queue, Fault,
     SlotInv, SlotTypeOK, StoreOK, RunInv, DaemonInv, PcInv, RecoveryInv,
     Runs, Alive
<1>3. CASE GiveBack
  BY <1>3, SlotAssumption DEF GiveBack, QueueReceipt, Queue, Released,
     SlotInv, SlotTypeOK, StoreOK, RunInv, DaemonInv, PcInv, RecoveryInv,
     Runs, Alive
<1>4. CASE GiveBackFails
  BY <1>4, SlotAssumption DEF GiveBackFails, QueueReceipt, Queue, Released,
     Fault, SlotInv, SlotTypeOK, StoreOK, RunInv, DaemonInv, PcInv,
     RecoveryInv, Runs, Alive
<1>5. CASE Release
  BY <1>5, SlotAssumption DEF Release, Released, SlotInv, SlotTypeOK,
     StoreOK, RunInv, DaemonInv, PcInv, RecoveryInv, Runs, Alive
<1>6. CASE ReleaseFails
  BY <1>6, SlotAssumption DEF ReleaseFails, Released, Fault, SlotInv,
     SlotTypeOK, StoreOK, RunInv, DaemonInv, PcInv, RecoveryInv, Runs, Alive
<1>7. CASE StopRequested
  BY <1>7, SlotAssumption DEF StopRequested, FinishAt, SlotInv, SlotTypeOK,
     StoreOK, RunInv, DaemonInv, PcInv, RecoveryInv, Runs, Alive
<1>8. CASE LeaseMoves
  BY <1>8, SlotAssumption DEF LeaseMoves, SlotInv, SlotTypeOK, StoreOK,
     RunInv, DaemonInv, PcInv, RecoveryInv, Runs, Alive
<1>9. CASE ConfirmReleases
  BY <1>9, SlotAssumption DEF ConfirmReleases, Released, SlotInv, SlotTypeOK,
     StoreOK, RunInv, DaemonInv, PcInv, RecoveryInv, Runs, Alive
<1>10. CASE ConfirmReleaseFails
  BY <1>10, SlotAssumption DEF ConfirmReleaseFails, Released, Fault, Forget,
     SlotInv, SlotTypeOK, StoreOK, RunInv, DaemonInv, PcInv, RecoveryInv,
     Runs, Alive
<1>11. CASE Start \/ ContextFails \/ Apply \/ CreateMarker \/ SyncMarker \/
           MarkerWriteFails \/ Spawn \/ SpawnFails
  BY <1>11 DEF Start, ContextFails, Fault, Apply, CreateMarker, SyncMarker,
     MarkerWriteFails, Spawn, SpawnFails
<1>12. CASE StoreApplied \/ QueueStarted \/ QueueAssigned \/ Observe \/ RetryRelease \/
           Kill \/ KillUnknown \/ QueueTerminal
  BY <1>12 DEF StoreApplied, QueueStarted, Queue, QueueAssigned,
     QueueReceipt, Observe, RetryRelease, Kill, KillUnknown, Raise,
     ExitDaemon, Forget, FinishAt, QueueTerminal
<1>13. CASE StepFails \/ CleanedUp \/ AcknowledgeFinished \/ Deadline \/ Crash \/
           WorkerExits \/ ConfirmReconciles \/ ConfirmCompletes
  BY <1>13 DEF StepFails, Raise, ExitDaemon, Forget, FinishAt, Fault,
     CleanedUp, AcknowledgeFinished, Deadline, Crash, WorkerExits,
     ConfirmReconciles, ConfirmCompletes
<1>14. CASE ConfirmRemoves
  BY <1>14 DEF ConfirmRemoves, Forget
<1>15. ASSUME NEW d \in Directives, ReceiptOnly(d)
      PROVE  G
  BY <1>15 DEF ReceiptOnly, Takes, Room, Queue
<1>16. ASSUME NEW d \in Directives, Terminate(d)
      PROVE  G
  BY <1>16 DEF Terminate, Takes
<1>17. ASSUME NEW r \in Runs, Deliver(r)
      PROVE  G
  BY <1>17 DEF Deliver, Holds
<1>18. ASSUME NEW r \in Runs, AnswerLost(r)
      PROVE  G
  BY <1>18 DEF AnswerLost, Holds, Fault, Forget
<1>19. ASSUME NEW r \in Runs, FrameRefused(r)
      PROVE  G
  BY <1>19 DEF FrameRefused, Holds, Fault, Forget, Raise, ExitDaemon,
     FinishAt
<1>20. ASSUME NEW d \in Nat, Confirm(d)
      PROVE  G
  BY <1>20 DEF Confirm
<1>21. CASE UNCHANGED slotVars
  BY <1>21 DEF slotVars
<1>22. ASSUME NEW r \in 1..run, LateDecision(r)
      PROVE  G
  BY <1>22 DEF LateDecision
<1> QED
  BY <1>0, <1>1, <1>2, <1>3, <1>4, <1>5, <1>6, <1>7, <1>8, <1>9, <1>10,
     <1>11, <1>12, <1>13, <1>14, <1>15, <1>16, <1>17, <1>18, <1>19, <1>20,
     <1>21, <1>22
     DEF Next, AssignStep

\* A lease is given back only for a worker that is gone with its group.
THEOREM SlotLeaseOutlivesWorker == SlotSpec => LeaseOutlivesWorker
<1>1. SlotInv /\ [Next]_slotVars =>
        [\A r \in Runs :
            claim = r /\ claim' # r /\ pc' # pc => ~Alive(r)]_slotVars
  BY LeaseOutlivesWorkerStep
<1> QED
  BY <1>1, SlotInvariant, PTL DEF SlotSpec, LeaseOutlivesWorker

\* No step removes the marker of a run that still owes something.
LEMMA MarkerRemovedWhenSettledStep ==
    ASSUME SlotInv, [Next]_slotVars
    PROVE  \A r \in Runs :
              marker = r /\ marker' # r =>
                 \/ proc[r] = "none"
                 \/ /\ proc[r] = "stopped" /\ stop[r] > 0
                    /\ accepted[r] = last[r]
                    /\ claim = r => stray = r
<1> DEFINE G == \A r \in Runs :
              marker = r /\ marker' # r =>
                 \/ proc[r] = "none"
                 \/ /\ proc[r] = "stopped" /\ stop[r] > 0
                    /\ accepted[r] = last[r]
                    /\ claim = r => stray = r
<1> SUFFICES G
  OBVIOUS
<1>0. \A d \in 0..last[marker] : marker # None => d \in Nat
  BY DEF SlotInv, SlotTypeOK, PositionsOK, StoreOK
<1>1. CASE Start
  BY <1>1, SlotAssumption DEF Start, SlotInv, SlotTypeOK, StoreOK, RunInv,
     DaemonInv, PcInv, RecoveryInv, Runs, Alive, PositionsOK
<1>2. CASE CreateMarker
  BY <1>2, SlotAssumption DEF CreateMarker, SlotInv, SlotTypeOK, StoreOK,
     RunInv, DaemonInv, PcInv, RecoveryInv, Runs, Alive, PositionsOK
<1>3. CASE SpawnFails
  BY <1>3, SlotAssumption DEF SpawnFails, Fault, SlotInv, SlotTypeOK,
     StoreOK, RunInv, DaemonInv, PcInv, RecoveryInv, Runs, Alive, PositionsOK
<1>4. CASE AcknowledgeFinished
  BY <1>4, SlotAssumption DEF AcknowledgeFinished, ExitDaemon, Forget,
     SlotInv, SlotTypeOK, StoreOK, RunInv, DaemonInv, PcInv, RecoveryInv,
     Runs, Alive, PositionsOK
<1>5. CASE ConfirmRemoves
  BY <1>5, SlotAssumption DEF ConfirmRemoves, Forget, SlotInv, SlotTypeOK,
     StoreOK, RunInv, DaemonInv, PcInv, RecoveryInv, Runs, Alive, PositionsOK
<1>6. CASE ContextFails \/ Apply \/ SyncMarker \/ MarkerWriteFails \/ Spawn \/ GiveBack
           \/ GiveBackFails \/ StoreApplied
  BY <1>6 DEF ContextFails, Fault, Apply, SyncMarker, MarkerWriteFails,
     Spawn, GiveBack, QueueReceipt, Queue, Released, GiveBackFails,
     StoreApplied
<1>7. CASE QueueStarted \/ QueueAssigned \/ Observe \/ RetryRelease \/ Kill \/
           KillUnknown \/ QueueTerminal \/ Release
  BY <1>7 DEF QueueStarted, Queue, QueueAssigned, QueueReceipt, Observe,
     RetryRelease, Kill, KillUnknown, Raise, ExitDaemon, Forget, FinishAt,
     QueueTerminal, Release, Released
<1>8. CASE ReleaseFails \/ StepFails \/ CleanedUp \/ StopRequested \/ Deadline \/ Crash
           \/ WorkerExits \/ LeaseMoves
  BY <1>8 DEF ReleaseFails, Released, Fault, StepFails, Raise, ExitDaemon,
     Forget, FinishAt, CleanedUp, StopRequested, Deadline, Crash,
     WorkerExits, LeaseMoves
<1>9. CASE ConfirmReconciles \/ ConfirmReleases \/ ConfirmReleaseFails \/
           ConfirmCompletes
  BY <1>9 DEF ConfirmReconciles, Forget, ConfirmReleases, Released,
     ConfirmReleaseFails, Fault, ConfirmCompletes
<1>10. ASSUME NEW d \in Directives, ReceiptOnly(d)
      PROVE  G
  BY <1>10 DEF ReceiptOnly, Takes, Room, Queue
<1>11. ASSUME NEW d \in Directives, Acquire(d)
      PROVE  G
  BY <1>11 DEF Acquire, Takes, Room
<1>12. ASSUME NEW d \in Directives, AcquireTimesOut(d)
      PROVE  G
  BY <1>12 DEF AcquireTimesOut, Takes, Room, Queue, Fault
<1>13. ASSUME NEW d \in Directives, Terminate(d)
      PROVE  G
  BY <1>13 DEF Terminate, Takes
<1>14. ASSUME NEW r \in Runs, Deliver(r)
      PROVE  G
  BY <1>14 DEF Deliver, Holds
<1>15. ASSUME NEW r \in Runs, AnswerLost(r)
      PROVE  G
  BY <1>15 DEF AnswerLost, Holds, Fault, Forget
<1>16. ASSUME NEW r \in Runs, FrameRefused(r)
      PROVE  G
  BY <1>16 DEF FrameRefused, Holds, Fault, Forget, Raise, ExitDaemon,
     FinishAt
<1>17. ASSUME NEW d \in Nat, Confirm(d)
      PROVE  G
  BY <1>17 DEF Confirm
<1>18. CASE UNCHANGED slotVars
  BY <1>18 DEF slotVars
<1>19. ASSUME NEW r \in 1..run, LateDecision(r)
      PROVE  G
  BY <1>19 DEF LateDecision
<1> QED
  BY <1>0, <1>1, <1>2, <1>3, <1>4, <1>5, <1>6, <1>7, <1>8, <1>9, <1>10,
     <1>11, <1>12, <1>13, <1>14, <1>15, <1>16, <1>17, <1>18, <1>19
     DEF Next, AssignStep

\* A marker is removed only when the worker was stopped on record, every
\* receipt is recorded and the lease is not held.
THEOREM SlotMarkerRemovedWhenSettled == SlotSpec => MarkerRemovedWhenSettled
<1>1. SlotInv /\ [Next]_slotVars =>
        [\A r \in Runs :
            marker = r /\ marker' # r =>
               \/ proc[r] = "none"
               \/ /\ proc[r] = "stopped" /\ stop[r] > 0
                  /\ accepted[r] = last[r]
                  /\ claim = r => stray = r]_slotVars
  BY MarkerRemovedWhenSettledStep
<1> QED
  BY <1>1, SlotInvariant, PTL DEF SlotSpec, MarkerRemovedWhenSettled

\* No step starts a worker for a directive that has a receipt.
LEMMA NoReplayIntoWorkerStep ==
    ASSUME SlotInv, [Next]_slotVars
    PROVE  \A r \in Runs :
              proc[r] = "none" /\ proc'[r] = "live" => job \notin reported
<1> DEFINE G == \A r \in Runs :
              proc[r] = "none" /\ proc'[r] = "live" => job \notin reported
<1> SUFFICES G
  OBVIOUS
<1>0. \A d \in 0..last[marker] : marker # None => d \in Nat
  BY DEF SlotInv, SlotTypeOK, PositionsOK, StoreOK
<1>1. CASE Spawn
  BY <1>1, SlotAssumption DEF Spawn, SlotInv, SlotTypeOK, StoreOK, RunInv,
     DaemonInv, PcInv, RecoveryInv, Runs, Alive
<1>2. ASSUME NEW d \in Directives, Terminate(d)
      PROVE  G
  BY <1>2, SlotAssumption DEF Terminate, Takes, SlotInv, SlotTypeOK, StoreOK,
     RunInv, DaemonInv, PcInv, RecoveryInv, Runs, Alive
<1>3. CASE Kill
  BY <1>3, SlotAssumption DEF Kill, SlotInv, SlotTypeOK, StoreOK, RunInv,
     DaemonInv, PcInv, RecoveryInv, Runs, Alive
<1>4. CASE KillUnknown
  BY <1>4, SlotAssumption DEF KillUnknown, Raise, ExitDaemon, Forget,
     FinishAt, SlotInv, SlotTypeOK, StoreOK, RunInv, DaemonInv, PcInv,
     RecoveryInv, Runs, Alive
<1>5. CASE StepFails
  BY <1>5, SlotAssumption DEF StepFails, Raise, ExitDaemon, Forget, FinishAt,
     Fault, SlotInv, SlotTypeOK, StoreOK, RunInv, DaemonInv, PcInv,
     RecoveryInv, Runs, Alive
<1>6. CASE CleanedUp
  BY <1>6, SlotAssumption DEF CleanedUp, ExitDaemon, Forget, SlotInv,
     SlotTypeOK, StoreOK, RunInv, DaemonInv, PcInv, RecoveryInv, Runs, Alive
<1>7. CASE AcknowledgeFinished
  BY <1>7, SlotAssumption DEF AcknowledgeFinished, ExitDaemon, Forget,
     SlotInv, SlotTypeOK, StoreOK, RunInv, DaemonInv, PcInv, RecoveryInv,
     Runs, Alive
<1>8. ASSUME NEW r \in Runs, FrameRefused(r)
      PROVE  G
  BY <1>8, SlotAssumption DEF FrameRefused, Holds, Fault, Forget, Raise,
     ExitDaemon, FinishAt, SlotInv, SlotTypeOK, StoreOK, RunInv, DaemonInv,
     PcInv, RecoveryInv, Runs, Alive
<1>9. CASE Deadline
  BY <1>9, SlotAssumption DEF Deadline, Raise, ExitDaemon, Forget, FinishAt,
     Fault, SlotInv, SlotTypeOK, StoreOK, RunInv, DaemonInv, PcInv,
     RecoveryInv, Runs, Alive
<1>10. CASE WorkerExits
  BY <1>10, SlotAssumption DEF WorkerExits, SlotInv, SlotTypeOK, StoreOK,
     RunInv, DaemonInv, PcInv, RecoveryInv, Runs, Alive
<1>11. CASE Start \/ ContextFails \/ Apply \/ CreateMarker \/ SyncMarker \/
           MarkerWriteFails \/ SpawnFails \/ GiveBack
  BY <1>11 DEF Start, ContextFails, Fault, Apply, CreateMarker, SyncMarker,
     MarkerWriteFails, SpawnFails, GiveBack, QueueReceipt, Queue, Released
<1>12. CASE GiveBackFails \/ StoreApplied \/ QueueStarted \/ QueueAssigned \/ Observe \/
           RetryRelease \/ QueueTerminal \/ Release
  BY <1>12 DEF GiveBackFails, QueueReceipt, Queue, Released, Fault,
     StoreApplied, QueueStarted, QueueAssigned, Observe, RetryRelease,
     QueueTerminal, Release
<1>13. CASE ReleaseFails \/ StopRequested \/ Crash \/ LeaseMoves \/ ConfirmReconciles \/
           ConfirmReleases \/ ConfirmReleaseFails \/ ConfirmCompletes
  BY <1>13 DEF ReleaseFails, Released, Fault, StopRequested, FinishAt, Crash,
     Forget, LeaseMoves, ConfirmReconciles, ConfirmReleases,
     ConfirmReleaseFails, ConfirmCompletes
<1>14. CASE ConfirmRemoves
  BY <1>14 DEF ConfirmRemoves, Forget
<1>15. ASSUME NEW d \in Directives, ReceiptOnly(d)
      PROVE  G
  BY <1>15 DEF ReceiptOnly, Takes, Room, Queue
<1>16. ASSUME NEW d \in Directives, Acquire(d)
      PROVE  G
  BY <1>16 DEF Acquire, Takes, Room
<1>17. ASSUME NEW d \in Directives, AcquireTimesOut(d)
      PROVE  G
  BY <1>17 DEF AcquireTimesOut, Takes, Room, Queue, Fault
<1>18. ASSUME NEW r \in Runs, Deliver(r)
      PROVE  G
  BY <1>18 DEF Deliver, Holds
<1>19. ASSUME NEW r \in Runs, AnswerLost(r)
      PROVE  G
  BY <1>19 DEF AnswerLost, Holds, Fault, Forget
<1>20. ASSUME NEW d \in Nat, Confirm(d)
      PROVE  G
  BY <1>20 DEF Confirm
<1>21. CASE UNCHANGED slotVars
  BY <1>21 DEF slotVars
<1>22. ASSUME NEW r \in 1..run, LateDecision(r)
      PROVE  G
  BY <1>22 DEF LateDecision
<1> QED
  BY <1>0, <1>1, <1>2, <1>3, <1>4, <1>5, <1>6, <1>7, <1>8, <1>9, <1>10,
     <1>11, <1>12, <1>13, <1>14, <1>15, <1>16, <1>17, <1>18, <1>19, <1>20,
     <1>21, <1>22
     DEF Next, AssignStep

\* No worker is started for a directive that already has a receipt.
THEOREM SlotNoReplayIntoWorker == SlotSpec => NoReplayIntoWorker
<1>1. SlotInv /\ [Next]_slotVars =>
        [\A r \in Runs :
            proc[r] = "none" /\ proc'[r] = "live" => job \notin reported]_slotVars
  BY NoReplayIntoWorkerStep
<1> QED
  BY <1>1, SlotInvariant, PTL DEF SlotSpec, NoReplayIntoWorker

=============================================================================
