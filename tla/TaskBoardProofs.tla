-------------------------- MODULE TaskBoardProofs --------------------------
(***************************************************************************)
(* Machine-checked proofs about TaskBoard, for every set of tasks, agents  *)
(* and reviewers and every value of the limits.                            *)
(*                                                                         *)
(* The inductive invariant is IInv: the columns of a row agree, gates can  *)
(* lift, handoffs are linear and outcomes are backed.  Every transition    *)
(* writes one row that stays live (RowWritten) or ends one task and opens  *)
(* the row waiting for it (TaskEnded); the two lemmas show that either     *)
(* preserves IInv from what the transition says about the row it writes.   *)
(***************************************************************************)
EXTENDS TaskBoard, TLAPS, FiniteSetTheorems, InductionLemmas

\* A predecessor has one successor (predecessor_id is the primary key of
\* task_handoffs), so the single lookup of open_blocked_successor_on misses
\* no waiting task.
HandoffsLinear ==
    \A s, t \in Tasks : pred[s] = pred[t] /\ pred[s] # None => s = t

IInv ==
    /\ TypeOK
    /\ ColumnsAgree
    /\ GatesCanLift
    /\ HandoffsLinear
    /\ OutcomesAreBacked

\* A row whose nullable columns agree with its status.
Coherent(row) ==
    /\ row.owner # None <=> row.status \in {"claimed"} \cup Parked
    /\ row.lease # None <=> row.status = "claimed"
    /\ row.status \in Parked => row.parked # None

Live(row) == row.status \notin Terminal \cup {"absent"}

----------------------------------------------------------------------------

\* The initial empty board satisfies the inductive invariant.
LEMMA InitIInv == Init => IInv
  <1> SUFFICES ASSUME Init PROVE IInv
    OBVIOUS
  <1> USE BoardAssumption
  <1>1. Absent \in Row
    BY DEF Absent, Unheld, Row, Status
  <1>2. TypeOK
    BY <1>1 DEF Init, TypeOK
  <1>3. ColumnsAgree
    BY DEF Init, ColumnsAgree, Absent, Unheld, Parked
  <1>4. GatesCanLift /\ HandoffsLinear /\ OutcomesAreBacked
    BY DEF Init, GatesCanLift, HandoffsLinear, OutcomesAreBacked, Absent, Unheld
  <1> QED
    BY <1>2, <1>3, <1>4 DEF IInv

\* Writing one live, coherent row preserves the invariant, provided its gate is
\* the handoff recorded for it and its predecessor is live, and an in_review
\* row has the record that calls for it.  Handoffs of other tasks and stored
\* verdicts only stay or grow.
LEMMA RowWritten ==
    ASSUME IInv,
           NEW t \in Tasks, NEW row \in Row,
           task' = [task EXCEPT ![t] = row],
           clock' = clock, verdicts' = verdicts,
           pred' \in [Tasks -> Tasks \cup {None}],
           \A x \in Tasks \ {t} : pred'[x] = pred[x],
           HandoffsLinear',
           Coherent(row), Live(row),
           row.blockedBy # None =>
               /\ row.status = "blocked"
               /\ pred'[t] = row.blockedBy
               /\ Live(task[row.blockedBy]),
           row.status = "in_review" => verdicts[t] \cap {"drift", "needs_human"} # {}
    PROVE  IInv'
  <1>1. TypeOK'
    BY DEF IInv, TypeOK
  <1>2. \A x \in Tasks : task'[x] = IF x = t THEN row ELSE task[x]
    BY DEF IInv, TypeOK
  <1>3. ColumnsAgree'
    BY <1>2 DEF IInv, ColumnsAgree, Coherent
  <1>4. GatesCanLift'
    <2> SUFFICES ASSUME NEW x \in Tasks, task'[x].blockedBy # None
                 PROVE  /\ task'[x].status = "blocked"
                        /\ pred'[x] = task'[x].blockedBy
                        /\ Live(task'[task'[x].blockedBy])
      BY DEF GatesCanLift, Live
    <2>1. task'[x].blockedBy \in Tasks
      BY <1>1 DEF TypeOK, Row
    <2>2. CASE x = t
      BY <1>2, <2>1, <2>2
    <2>3. CASE x # t
      BY <1>2, <2>1, <2>3 DEF IInv, GatesCanLift, Live
    <2> QED
      BY <2>2, <2>3
  <1>5. OutcomesAreBacked'
    BY <1>2 DEF IInv, OutcomesAreBacked, Live, Terminal
  <1> QED
    BY <1>1, <1>3, <1>4, <1>5 DEF IInv

\* Ending a task and opening the row that waits for it preserves the invariant.
LEMMA TaskEnded ==
    ASSUME IInv,
           NEW t \in Tasks, NEW row \in Row,
           task' = OpenBlockedSuccessor([task EXCEPT ![t] = row], t),
           UNCHANGED <<clock, pred, verdicts>>,
           Coherent(row), row.status \in Terminal, row.blockedBy = None,
           row.status = "done" => verdicts[t] \ {"violation"} # {}
    PROVE  /\ IInv'
           /\ task'[t] = row
           /\ \A x \in Tasks \ {t} :
                  IF task[x].blockedBy = t
                  THEN task'[x].status = "open" /\ task'[x].owner = None
                  ELSE task'[x] = task[x]
  <1> DEFINE tbl == [task EXCEPT ![t] = row]
             opened == Unheld("open", None, None)
  <1>1. \A x \in Tasks : tbl[x] = IF x = t THEN row ELSE task[x]
    BY DEF IInv, TypeOK
  <1>2. task' = [x \in Tasks |->
            IF pred[x] = t /\ tbl[x].blockedBy = t /\ tbl[x].status = "blocked"
            THEN opened ELSE tbl[x]]
    BY DEF OpenBlockedSuccessor
  <1> HIDE DEF tbl, opened
  <1>3. \A x \in Tasks : task'[x] =
            IF pred[x] = t /\ tbl[x].blockedBy = t /\ tbl[x].status = "blocked"
            THEN opened ELSE tbl[x]
    BY <1>2
  <1>o. opened \in Row /\ Coherent(opened) /\ opened.status = "open"
            /\ opened.owner = None /\ opened.blockedBy = None
    BY DEF opened, Unheld, Row, Status, Coherent, Parked
  <1>4. t # None
    BY BoardAssumption
  <1>5. task'[t] = row
    BY <1>1, <1>3, <1>4
  <1>6. \A x \in Tasks \ {t} :
            task'[x] = IF task[x].blockedBy = t THEN opened ELSE task[x]
    BY <1>1, <1>3, <1>4 DEF IInv, GatesCanLift
  <1>7. TypeOK'
    <2>1. \A x \in Tasks : tbl[x] \in Row
      BY <1>1 DEF IInv, TypeOK
    <2>2. task' \in [Tasks -> Row]
      BY <1>2, <1>o, <2>1
    <2> QED
      BY <2>2 DEF IInv, TypeOK
  <1>8. ColumnsAgree'
    <2> SUFFICES ASSUME NEW x \in Tasks PROVE Coherent(task'[x])
      BY DEF ColumnsAgree, Coherent
    <2>1. CASE x = t
      BY <1>5, <2>1
    <2>2. CASE x # t /\ task[x].blockedBy = t
      BY <1>6, <1>o, <2>2
    <2>3. CASE x # t /\ task[x].blockedBy # t
      BY <1>6, <2>3 DEF IInv, ColumnsAgree, Coherent
    <2> QED
      BY <2>1, <2>2, <2>3
  <1>9. GatesCanLift'
    <2> SUFFICES ASSUME NEW x \in Tasks, task'[x].blockedBy # None
                 PROVE  /\ task'[x].status = "blocked"
                        /\ pred'[x] = task'[x].blockedBy
                        /\ Live(task'[task'[x].blockedBy])
      BY DEF GatesCanLift, Live
    <2>1. x # t /\ task[x].blockedBy # t /\ task'[x] = task[x]
      BY <1>5, <1>6, <1>o
    <2> DEFINE p == task[x].blockedBy
    <2>3. /\ p \in Tasks \ {t}
          /\ task[x].status = "blocked" /\ pred[x] = p
          /\ Live(task[p])
      BY <2>1 DEF IInv, TypeOK, Row, GatesCanLift, Live
    <2>4. Live(task'[p])
      BY <1>6, <1>o, <2>3 DEF Live, Terminal
    <2> QED
      BY <2>1, <2>3, <2>4
  <1>10. HandoffsLinear'
    BY DEF IInv, HandoffsLinear
  <1>11. OutcomesAreBacked'
    <2> SUFFICES ASSUME NEW x \in Tasks
                 PROVE  /\ task'[x].status = "in_review" =>
                             verdicts[x] \cap {"drift", "needs_human"} # {}
                        /\ task'[x].status = "done" => verdicts[x] \ {"violation"} # {}
      BY DEF OutcomesAreBacked
    <2>1. CASE x = t
      BY <1>5, <2>1 DEF Terminal
    <2>2. CASE x # t /\ task[x].blockedBy = t
      BY <1>6, <1>o, <2>2
    <2>3. CASE x # t /\ task[x].blockedBy # t
      BY <1>6, <2>3 DEF IInv, OutcomesAreBacked
    <2> QED
      BY <2>1, <2>2, <2>3
  <1> QED
    BY <1>5, <1>6, <1>o, <1>7, <1>8, <1>9, <1>10, <1>11 DEF IInv

----------------------------------------------------------------------------
(* The transitions *)

\* What every step of the board may assume about the row it reads.
LEMMA RowFacts ==
    ASSUME IInv, NEW t \in Tasks
    PROVE  /\ task[t] \in Row
           /\ task[t].owner \in Agents \cup {None}
           /\ task[t].lease \in Nat \cup {None}
           /\ task[t].parked \in Nat \cup {None}
           /\ task[t].blockedBy \in Tasks \cup {None}
           /\ Coherent(task[t])
           /\ task[t].status # "blocked" => task[t].blockedBy = None
           /\ \A n \in Sampled : n \in Nat /\ n <= clock
  <1>1. task[t] \in Row /\ clock \in Nat
    BY DEF IInv, TypeOK
  <1> QED
    BY <1>1 DEF IInv, Row, ColumnsAgree, Coherent, GatesCanLift, Sampled

\* A step that makes a row claimed without touching its handoff.
LEMMA HeldWritten ==
    ASSUME IInv, NEW t \in Tasks, NEW a \in Agents, NEW lease \in Nat,
           task' = [task EXCEPT ![t] = Held(a, lease, None)],
           UNCHANGED <<clock, pred, verdicts>>
    PROVE  IInv'
  <1> DEFINE row == Held(a, lease, None)
  <1>1. row \in Row
    BY DEF Held, Row, Status
  <1>2. row.status = "claimed" /\ row.blockedBy = None
    BY DEF Held
  <1>3. Coherent(row) /\ Live(row)
    BY BoardAssumption DEF Held, Coherent, Live, Parked, Terminal
  <1>4. HandoffsLinear' /\ pred' \in [Tasks -> Tasks \cup {None}]
    BY DEF IInv, TypeOK, HandoffsLinear
  <1> HIDE DEF row
  <1> QED
    BY <1>1, <1>2, <1>3, <1>4, RowWritten DEF row

\* A step that leaves a row ownerless, live and ungated.
LEMMA UnheldWritten ==
    ASSUME IInv, NEW t \in Tasks, NEW status \in {"open", "blocked", "in_review"},
           NEW parked \in Nat \cup {None},
           task' = [task EXCEPT ![t] = Unheld(status, parked, None)],
           clock' = clock, verdicts' = verdicts,
           pred' \in [Tasks -> Tasks \cup {None}],
           \A x \in Tasks \ {t} : pred'[x] = pred[x],
           HandoffsLinear',
           status = "in_review" => verdicts[t] \cap {"drift", "needs_human"} # {}
    PROVE  IInv'
  <1> DEFINE row == Unheld(status, parked, None)
  <1>1. row \in Row
    BY DEF Unheld, Row, Status
  <1>2. row.status = status /\ row.blockedBy = None
    BY DEF Unheld
  <1>3. Coherent(row) /\ Live(row)
    BY DEF Unheld, Coherent, Live, Parked, Terminal
  <1> HIDE DEF row
  <1> QED
    BY <1>1, <1>2, <1>3, RowWritten DEF row

\* Recording b as the predecessor of t keeps handoffs linear, because
\* validate_dependency_on refuses a predecessor that has another successor.
LEMMA LinearKept ==
    ASSUME IInv, NEW t \in Tasks, NEW b \in Tasks,
           DependencyAllowed(t, b),
           pred' = [pred EXCEPT ![t] = b]
    PROVE  HandoffsLinear' /\ pred' \in [Tasks -> Tasks \cup {None}]
  <1>1. \A x \in Tasks : pred'[x] = IF x = t THEN b ELSE pred[x]
    BY DEF IInv, TypeOK
  <1>2. \A s \in Tasks : pred[s] = b => s = t
    BY DEF DependencyAllowed
  <1>3. pred' \in [Tasks -> Tasks \cup {None}]
    BY DEF IInv, TypeOK
  <1> QED
    BY <1>1, <1>2, <1>3 DEF IInv, HandoffsLinear

\* A step that gates a row behind a live predecessor of its own.
LEMMA GateWritten ==
    ASSUME IInv, NEW t \in Tasks, NEW b \in Tasks, NEW parked \in Nat \cup {None},
           DependencyAllowed(t, b), ~ DependencySatisfied(b),
           task' = [task EXCEPT ![t] = Unheld("blocked", parked, b)],
           pred' = [pred EXCEPT ![t] = b],
           UNCHANGED <<clock, verdicts>>
    PROVE  IInv'
  <1> DEFINE row == Unheld("blocked", parked, b)
  <1>1. row \in Row
    BY DEF Unheld, Row, Status
  <1>2. row.status = "blocked" /\ row.blockedBy = b
    BY DEF Unheld
  <1>3. Coherent(row) /\ Live(row)
    BY DEF Unheld, Coherent, Live, Parked, Terminal
  <1>4. Live(task[b])
    BY DEF DependencyAllowed, DependencySatisfied, Live, Terminal
  <1>5. HandoffsLinear' /\ pred' \in [Tasks -> Tasks \cup {None}]
    BY LinearKept
  <1>6. pred'[t] = b /\ \A x \in Tasks \ {t} : pred'[x] = pred[x]
    BY DEF IInv, TypeOK
  <1> HIDE DEF row
  <1> QED
    BY <1>1, <1>2, <1>3, <1>4, <1>5, <1>6, RowWritten DEF row

----------------------------------------------------------------------------
(* One step per action *)

\* Every operation an agent performs under its own name preserves IInv.
LEMMA AgentStepIInv ==
    ASSUME IInv, NEW t \in Tasks, NEW a \in Agents, NEW now \in Sampled,
           AgentStep(t, a, now)
    PROVE  IInv'
  <1> USE RowFacts, BoardAssumption
  <1>n. now \in Nat /\ \A len \in Leases : now + len \in Nat
    BY DEF IInv, TypeOK, Sampled
  <1>1. ASSUME NEW len \in Leases, ClaimTask(t, a, len, now)
        PROVE  IInv'
    BY <1>1, <1>n, HeldWritten DEF ClaimTask, Claimable, Put
  <1>2. ASSUME NEW lease \in Nat, HoldsLive(task[t], a, now),
               task' = [task EXCEPT ![t] = [task[t] EXCEPT !.lease = lease]],
               UNCHANGED <<clock, pred, verdicts>>
        PROVE  IInv'
    <2> DEFINE row == [task[t] EXCEPT !.lease = lease]
    <2>1. row \in Row
      BY DEF Row
    <2>2. /\ row.status = "claimed" /\ row.owner = a
          /\ row.lease = lease /\ row.blockedBy = None
      BY <1>2 DEF HoldsLive, Row
    <2>3. Coherent(row) /\ Live(row)
      BY <2>2 DEF Coherent, Live, Parked, Terminal
    <2>4. HandoffsLinear' /\ pred' \in [Tasks -> Tasks \cup {None}]
      BY <1>2 DEF IInv, TypeOK, HandoffsLinear
    <2> HIDE DEF row
    <2> QED
      BY <1>2, <2>1, <2>2, <2>3, <2>4, RowWritten DEF row
  <1>3. ASSUME NEW len \in Leases, RenewLease(t, a, len, now)
        PROVE  IInv'
    BY <1>2, <1>3, <1>n DEF RenewLease, Put
  <1>4. ASSUME NEW len \in Leases, TouchLease(t, a, len, now)
        PROVE  IInv'
    BY <1>2, <1>4, <1>n DEF TouchLease, Put, HoldsLive, Coherent
  <1>5. ASSUME NEW len \in Leases, ResumeTask(t, a, len, now)
        PROVE  IInv'
    BY <1>5, <1>n, HeldWritten DEF ResumeTask, UnparkFrom, Put
  <1>6. CASE ReleaseTask(t, a)
    BY <1>6, UnheldWritten DEF ReleaseTask, Put, IInv, TypeOK, HandoffsLinear
  <1>7. ASSUME NEW status \in Parked, ParkAs(t, a, status, now)
        PROVE  IInv'
    <2> DEFINE row == [status |-> status, owner |-> a, lease |-> None,
                       parked |-> now, blockedBy |-> None]
    <2>1. task' = [task EXCEPT ![t] = row] /\ UNCHANGED <<clock, pred, verdicts>>
      BY <1>7 DEF ParkAs, Put
    <2>2. row \in Row /\ row.status \in Parked /\ row.blockedBy = None
      BY <1>n DEF Row, Status
    <2>3. Coherent(row) /\ Live(row)
      BY <1>n DEF Coherent, Live, Parked, Terminal
    <2>4. HandoffsLinear' /\ pred' \in [Tasks -> Tasks \cup {None}]
      BY <2>1 DEF IInv, TypeOK, HandoffsLinear
    <2> HIDE DEF row
    <2> QED
      BY <2>1, <2>2, <2>3, <2>4, RowWritten DEF Parked
  <1>8. CASE AskQuestion(t, a, now) \/ PauseTask(t, a, now)
    BY <1>7, <1>8 DEF AskQuestion, PauseTask, Parked
  <1>9. ASSUME NEW v \in Judged, NEW before, CompleteTask(t, a, v, before)
         PROVE  IInv'
    <2>1. /\ v \in verdicts[t]
          /\ task[t].blockedBy = None
          /\ task[t].parked \in Nat \cup {None}
          /\ UNCHANGED <<clock, pred, verdicts>>
      BY <1>9 DEF CompleteTask, HoldsLive
    <2> DEFINE row == Unheld(TargetStatus(v), task[t].parked, None)
    <2>2. task' = IF TargetStatus(v) = "done"
                  THEN OpenBlockedSuccessor([task EXCEPT ![t] = row], t)
                  ELSE [task EXCEPT ![t] = row]
      BY <1>9, <2>1 DEF CompleteTask
    <2>3. CASE v = "aligned"
      <3>1. TargetStatus(v) = "done"
        BY <2>3 DEF TargetStatus
      <3>2. row \in Row /\ Coherent(row) /\ row.status = "done" /\ row.blockedBy = None
        BY <2>1, <3>1 DEF Unheld, Row, Status, Coherent, Parked, Terminal
      <3>3. verdicts[t] \ {"violation"} # {}
        BY <2>1, <2>3
      <3> HIDE DEF row
      <3> QED
        BY <2>1, <2>2, <3>1, <3>2, <3>3, TaskEnded DEF Terminal
    <2>4. CASE v # "aligned"
      <3>1. TargetStatus(v) \in {"blocked", "in_review"}
        BY <2>4 DEF TargetStatus
      <3>2. TargetStatus(v) = "in_review" => v \in {"drift", "needs_human"}
        BY <2>4 DEF TargetStatus
      <3>3. task' = [task EXCEPT ![t] = Unheld(TargetStatus(v), task[t].parked, None)]
        BY <2>2, <3>1
      <3> QED
        BY <2>1, <3>1, <3>2, <3>3, UnheldWritten DEF IInv, TypeOK, HandoffsLinear
    <2> QED
      BY <2>3, <2>4
  <1>10. ASSUME NEW from \in Agents, NEW by \in Reviewers \cup {None}, NEW len \in Leases,
                RecoverClaim(t, from, a, by, len, now)
         PROVE  IInv'
    <2> DEFINE lease == now + (IF len < 1 THEN 1 ELSE len)
    <2>1. lease \in Nat
      BY <1>n
    <2>2. task[t].status \in {"claimed"} \cup Parked
      BY <1>10 DEF RecoverClaim, ParkedBeforeGrace, Parked
    <2>3. task[t].blockedBy = None
      BY <2>2 DEF Parked
    <2> QED
      BY <1>10, <2>1, <2>3, HeldWritten DEF RecoverClaim, Put
  <1> QED
    BY <1>1, <1>3, <1>4, <1>5, <1>6, <1>8, <1>9, <1>10 DEF AgentStep

\* Every operation that is not tied to the owner preserves IInv.
LEMMA BoardStepIInv ==
    ASSUME IInv, NEW t \in Tasks, NEW now \in Sampled, BoardStep(t, now)
    PROVE  IInv'
  <1> USE RowFacts, BoardAssumption
  <1>n. now \in Nat /\ \A len \in Leases : now + len \in Nat
    BY DEF IInv, TypeOK, Sampled
  <1>1. CASE CreateTask(t)
    BY <1>1, UnheldWritten DEF CreateTask, Put, IInv, TypeOK, HandoffsLinear
  <1>2. ASSUME NEW b \in Tasks, CreateTaskAfter(t, b)
        PROVE  IInv'
    <2>1. CASE DependencySatisfied(b)
      <3>1. HandoffsLinear' /\ pred' \in [Tasks -> Tasks \cup {None}]
        BY <1>2, LinearKept DEF CreateTaskAfter
      <3>2. \A x \in Tasks \ {t} : pred'[x] = pred[x]
        BY <1>2 DEF CreateTaskAfter, IInv, TypeOK
      <3> QED
        BY <1>2, <2>1, <3>1, <3>2, UnheldWritten DEF CreateTaskAfter, Put
    <2>2. CASE ~ DependencySatisfied(b)
      BY <1>2, <2>2, GateWritten DEF CreateTaskAfter, Put
    <2> QED
      BY <2>1, <2>2
  <1>3. ASSUME NEW b \in Tasks, BlockTaskOn(t, b)
        PROVE  IInv'
    BY <1>3, GateWritten DEF BlockTaskOn, Put
  <1>4. ASSUME NEW len \in Leases, AnswerQuestion(t, len, now)
        PROVE  IInv'
    <2>1. task[t].owner \in Agents /\ task[t].blockedBy = None
      BY <1>4 DEF AnswerQuestion, UnparkFrom, Coherent, Parked
    <2> QED
      BY <1>4, <1>n, <2>1, HeldWritten DEF AnswerQuestion, UnparkFrom, Put
  <1>5. CASE BlockTask(t)
    BY <1>5, UnheldWritten DEF BlockTask, Put, IInv, TypeOK, HandoffsLinear
  <1>6. CASE ReopenTask(t)
    BY <1>6, UnheldWritten DEF ReopenTask, Put, IInv, TypeOK, HandoffsLinear
  <1>7. CASE AbandonTask(t, now)
    <2> DEFINE row == Unheld("abandoned", None, None)
    <2>1. row \in Row /\ Coherent(row) /\ row.status = "abandoned" /\ row.blockedBy = None
      BY DEF Unheld, Row, Status, Coherent, Parked, Terminal
    <2> HIDE DEF row
    <2> QED
      BY <1>7, <2>1, TaskEnded DEF AbandonTask, row, Terminal
  <1>8. CASE ResolveInReview(t)
    <2> DEFINE row == Unheld("done", task[t].parked, None)
    <2>1. row \in Row /\ Coherent(row) /\ row.status = "done" /\ row.blockedBy = None
      BY DEF Unheld, Row, Status, Coherent, Parked, Terminal
    <2>2. verdicts[t] \ {"violation"} # {}
      BY <1>8 DEF ResolveInReview, IInv, OutcomesAreBacked
    <2> HIDE DEF row
    <2> QED
      BY <1>8, <2>1, <2>2, TaskEnded DEF ResolveInReview, row, Terminal
  <1>9. ASSUME NEW v \in Judged, RecordConformance(t, v)
        PROVE  IInv'
    <2>1. /\ verdicts' \in [Tasks -> SUBSET Judged]
          /\ \A x \in Tasks : verdicts[x] \subseteq verdicts'[x]
      BY <1>9 DEF RecordConformance, IInv, TypeOK
    <2>2. UNCHANGED <<clock, task, pred>>
      BY <1>9 DEF RecordConformance
    <2>3. TypeOK' /\ ColumnsAgree' /\ GatesCanLift' /\ HandoffsLinear'
      BY <2>1, <2>2 DEF IInv, TypeOK, ColumnsAgree, GatesCanLift, HandoffsLinear
    <2>4. OutcomesAreBacked'
      BY <2>1, <2>2 DEF IInv, OutcomesAreBacked
    <2> QED
      BY <2>3, <2>4 DEF IInv
  <1> QED
    BY <1>1, <1>2, <1>3, <1>4, <1>5, <1>6, <1>7, <1>8, <1>9 DEF BoardStep

\* The inductive step.
LEMMA NextIInv == IInv /\ [Next]_boardVars => IInv'
  <1> SUFFICES ASSUME IInv, [Next]_boardVars PROVE IInv'
    OBVIOUS
  <1>1. CASE Tick
    <2>1. TypeOK'
      BY <1>1 DEF Tick, IInv, TypeOK
    <2> QED
      BY <1>1, <2>1 DEF Tick, IInv, ColumnsAgree, GatesCanLift, HandoffsLinear,
                       OutcomesAreBacked
  <1>2. CASE UNCHANGED boardVars
    BY <1>2 DEF boardVars, IInv, TypeOK, ColumnsAgree, GatesCanLift,
                HandoffsLinear, OutcomesAreBacked
  <1> QED
    BY <1>1, <1>2, AgentStepIInv, BoardStepIInv DEF Next

\* Every reachable state of the board satisfies the inductive invariant.
THEOREM Invariance == Spec => []IInv
  BY InitIInv, NextIInv, PTL DEF Spec

\* The columns of the tasks table are always well typed.
THEOREM BoardTypeCorrect == Spec => []TypeOK
  <1>1. IInv => TypeOK
    BY DEF IInv
  <1> QED
    BY <1>1, Invariance, PTL

\* Status, owner, lease and parking time always agree.
THEOREM ColumnsAlwaysAgree == Spec => []ColumnsAgree
  <1>1. IInv => ColumnsAgree
    BY DEF IInv
  <1> QED
    BY <1>1, Invariance, PTL

\* No chain is ever stranded by a dead predecessor.
THEOREM GatesAlwaysLift == Spec => []GatesCanLift
  <1>1. IInv => GatesCanLift
    BY DEF IInv
  <1> QED
    BY <1>1, Invariance, PTL

\* No task is ever in review or done without a verdict that accounts for it.
THEOREM OutcomesAlwaysBacked == Spec => []OutcomesAreBacked
  <1>1. IInv => OutcomesAreBacked
    BY DEF IInv
  <1> QED
    BY <1>1, Invariance, PTL

----------------------------------------------------------------------------
(* Handoffs stay acyclic *)

\* Adding the edge from b to t keeps handoffs acyclic when b is not downstream
\* of t.  R is t with a closed set of tasks below it that leaves out b.  A task
\* x that was not downstream of itself had a closed set S that leaves out x;
\* S \cap R (when x is in R) or S \cup R (when it is not) shows the same after
\* the edge is added.
LEMMA AcyclicKept ==
    ASSUME TypeOK, HandoffsAcyclic, NEW t \in Tasks, NEW b \in Tasks,
           DependencyAllowed(t, b),
           pred' = [pred EXCEPT ![t] = b]
    PROVE  HandoffsAcyclic'
  <1> SUFFICES ASSUME NEW x \in Tasks
               PROVE  \E S \in SUBSET Tasks :
                         /\ x \notin S
                         /\ \A y \in Tasks : pred'[y] = x \/ pred'[y] \in S => y \in S
    BY DEF HandoffsAcyclic, Downstream
  <1>1. b # t /\ b \notin Downstream(t)
    BY DEF DependencyAllowed
  <1>2. PICK R0 \in SUBSET Tasks :
            /\ b \notin R0
            /\ \A y \in Tasks : pred[y] = t \/ pred[y] \in R0 => y \in R0
    BY <1>1 DEF Downstream
  <1>3. PICK S0 \in SUBSET Tasks :
            /\ x \notin S0
            /\ \A y \in Tasks : pred[y] = x \/ pred[y] \in S0 => y \in S0
    BY DEF HandoffsAcyclic, Downstream
  <1> DEFINE R == R0 \cup {t}
  <1>4. /\ R \in SUBSET Tasks /\ t \in R /\ b \notin R
        /\ \A y \in Tasks : pred[y] \in R => y \in R
    BY <1>1, <1>2
  <1>5. \A y \in Tasks : pred'[y] = IF y = t THEN b ELSE pred[y]
    BY DEF TypeOK
  <1> HIDE DEF R
  <1>6. CASE x \in R
    <2>1. \A y \in Tasks : pred'[y] = x \/ pred'[y] \in S0 \cap R => y \in S0 \cap R
      BY <1>3, <1>4, <1>5, <1>6
    <2> QED
      BY <1>3, <2>1
  <1>7. CASE x \notin R
    <2>1. \A y \in Tasks : pred'[y] = x \/ pred'[y] \in S0 \cup R => y \in S0 \cup R
      BY <1>3, <1>4, <1>5, <1>7
    <2>2. S0 \cup R \in SUBSET Tasks /\ x \notin S0 \cup R
      BY <1>3, <1>4, <1>7
    <2> QED
      BY <2>1, <2>2
  <1> QED
    BY <1>6, <1>7

\* The cycle test of validate_dependency_on is enough: whatever dependencies are
\* added and in whatever order, no task is ever downstream of itself.
THEOREM HandoffsStayAcyclic == Spec => []HandoffsAcyclic
  <1>1. Init => HandoffsAcyclic
    <2> SUFFICES ASSUME Init, NEW t \in Tasks PROVE t \notin Downstream(t)
      BY DEF HandoffsAcyclic
    <2>1. \A x \in Tasks : pred[x] # t
      BY BoardAssumption DEF Init
    <2>2. \E S \in SUBSET Tasks :
              /\ t \notin S
              /\ \A x \in Tasks : (pred[x] = t \/ pred[x] \in S) => x \in S
      <3> WITNESS {} \in SUBSET Tasks
      <3> QED
        BY <2>1
    <2> QED
      BY <2>2 DEF Downstream
  <1>2. IInv /\ HandoffsAcyclic /\ [Next]_boardVars => HandoffsAcyclic'
    <2> SUFFICES ASSUME IInv, HandoffsAcyclic, [Next]_boardVars
                 PROVE  HandoffsAcyclic'
      OBVIOUS
    <2>1. CASE pred' = pred
      BY <2>1 DEF HandoffsAcyclic, Downstream
    <2>2. ASSUME NEW t \in Tasks, NEW b \in Tasks,
                 CreateTaskAfter(t, b) \/ BlockTaskOn(t, b)
          PROVE  HandoffsAcyclic'
      BY <2>2, AcyclicKept DEF IInv, CreateTaskAfter, BlockTaskOn
    <2>3. ASSUME NEW t \in Tasks, NEW a \in Agents, NEW now \in Sampled,
                 AgentStep(t, a, now)
          PROVE  pred' = pred
      BY <2>3 DEF AgentStep, ClaimTask, RenewLease, TouchLease, ResumeTask,
            UnparkFrom, ReleaseTask, AskQuestion, PauseTask, ParkAs,
            CompleteTask, RecoverClaim
    <2>4. ASSUME NEW t \in Tasks, NEW now \in Sampled, BoardStep(t, now)
          PROVE  HandoffsAcyclic'
      BY <2>1, <2>2, <2>4 DEF BoardStep, CreateTask, AnswerQuestion, UnparkFrom,
            BlockTask, ReopenTask, AbandonTask, ResolveInReview, RecordConformance
    <2>5. CASE Tick \/ UNCHANGED boardVars
      BY <2>1, <2>5 DEF Tick, boardVars
    <2> QED
      BY <2>1, <2>3, <2>4, <2>5 DEF Next
  <1> QED
    BY <1>1, <1>2, Invariance, PTL DEF Spec

----------------------------------------------------------------------------
(* Somebody can always work a chain off *)

\* Only finitely many tasks have a predecessor, whatever Tasks is.
Succeeding == {s \in Tasks : pred[s] # None}
FinitelyMany == IsFiniteSet(Succeeding)

\* A step records at most one handoff.
LEMMA FinitelyManyKept ==
    ASSUME IInv, FinitelyMany, [Next]_boardVars
    PROVE  FinitelyMany'
  <1>1. CASE pred' = pred
    BY <1>1 DEF FinitelyMany, Succeeding
  <1>2. ASSUME NEW t \in Tasks, NEW b \in Tasks,
               CreateTaskAfter(t, b) \/ BlockTaskOn(t, b)
        PROVE  FinitelyMany'
    <2>1. pred' = [pred EXCEPT ![t] = b]
      BY <1>2 DEF CreateTaskAfter, BlockTaskOn
    <2>2. Succeeding' \in SUBSET (Succeeding \cup {t})
      BY <2>1 DEF IInv, TypeOK, Succeeding
    <2>3. IsFiniteSet(Succeeding \cup {t})
      BY FS_AddElement DEF FinitelyMany
    <2> QED
      BY <2>2, <2>3, FS_Subset DEF FinitelyMany
  <1>3. ASSUME NEW t \in Tasks, NEW a \in Agents, NEW now \in Sampled,
               AgentStep(t, a, now)
        PROVE  pred' = pred
    BY <1>3 DEF AgentStep, ClaimTask, RenewLease, TouchLease, ResumeTask,
          UnparkFrom, ReleaseTask, AskQuestion, PauseTask, ParkAs,
          CompleteTask, RecoverClaim
  <1>4. ASSUME NEW t \in Tasks, NEW now \in Sampled, BoardStep(t, now)
        PROVE  FinitelyMany'
    BY <1>1, <1>2, <1>4 DEF BoardStep, CreateTask, AnswerQuestion, UnparkFrom,
          BlockTask, ReopenTask, AbandonTask, ResolveInReview, RecordConformance
  <1>5. CASE Tick \/ UNCHANGED boardVars
    BY <1>1, <1>5 DEF Tick, boardVars
  <1> QED
    BY <1>1, <1>3, <1>4, <1>5 DEF Next

\* Downstream of a predecessor lies its successor and all that is downstream
\* of the successor.
LEMMA DownstreamGrows ==
    ASSUME TypeOK, NEW p \in Tasks, NEW q \in Tasks, pred[p] = q
    PROVE  p \in Downstream(q) /\ Downstream(p) \subseteq Downstream(q)
  <1>1. p \in Downstream(q)
    BY DEF Downstream
  <1>2. ASSUME NEW s \in Downstream(p)
        PROVE  s \in Downstream(q)
    <2> SUFFICES ASSUME NEW S \in SUBSET Tasks,
                        \A x \in Tasks : (pred[x] = q \/ pred[x] \in S) => x \in S
                 PROVE  s \in S
      BY <1>2 DEF Downstream
    <2>1. p \in S
      OBVIOUS
    <2>2. \A x \in Tasks : (pred[x] = p \/ pred[x] \in S) => x \in S
      BY <2>1
    <2> QED
      BY <1>2, <2>2 DEF Downstream
  <1> QED
    BY <1>1, <1>2

\* All that is downstream of a task has a predecessor, so it is finite.
LEMMA DownstreamFinite ==
    ASSUME TypeOK, FinitelyMany, NEW p \in Tasks
    PROVE  /\ IsFiniteSet(Downstream(p))
           /\ Cardinality(Downstream(p)) \in Nat
           /\ Cardinality(Downstream(p)) <= Cardinality(Succeeding)
  <1>1. Succeeding \in SUBSET Tasks
    BY DEF Succeeding
  <1>2. \A x \in Tasks : (pred[x] = p \/ pred[x] \in Succeeding) => x \in Succeeding
    BY BoardAssumption DEF Succeeding
  <1>3. Downstream(p) \subseteq Succeeding
    BY <1>1, <1>2 DEF Downstream
  <1> QED
    BY <1>3, FS_Subset, FS_CardinalityType DEF FinitelyMany

\* Of the gated tasks at or above t, one has most tasks downstream.  The task
\* it waits for has more, so that one is not gated; and it is live.
LEMMA ChainHasLiveHead ==
    ASSUME IInv, HandoffsAcyclic, FinitelyMany
    PROVE  SomeoneCanProceed
  <1> SUFFICES ASSUME NEW t \in Tasks, task[t].blockedBy # None
               PROVE  \E p \in Tasks : /\ t \in Downstream(p)
                                       /\ task[p].blockedBy = None
                                       /\ task[p].status \notin Terminal \cup {"absent"}
    BY DEF SomeoneCanProceed
  <1> USE DEF IInv
  <1> DEFINE G == {p \in Tasks : /\ task[p].blockedBy # None
                                 /\ p = t \/ t \in Downstream(p)}
             m == [p \in G |-> Cardinality(Downstream(p))]
             N == Cardinality(Succeeding)
  <1>1. N \in Nat
    BY FS_CardinalityType DEF FinitelyMany
  <1>2. G # {} /\ G \subseteq Tasks
    OBVIOUS
  <1>3. \A p \in G : Cardinality(Downstream(p)) \in Nat /\ Cardinality(Downstream(p)) <= N
    BY DownstreamFinite
  <1>4. m \in [G -> Nat] /\ \A p \in G : m[p] <= N
    BY <1>3
  <1>5. PICK p \in G : \A g \in G : m[g] <= m[p]
    <2> HIDE DEF G, m, N
    <2> QED
      BY <1>1, <1>2, <1>4, GreatestMeasure
  <1>6. PICK q \in Tasks : /\ q = task[p].blockedBy /\ pred[p] = q
                           /\ task[q].status \notin Terminal \cup {"absent"}
    <2>1. task[p].blockedBy \in Tasks
      BY DEF TypeOK, Row
    <2> QED
      BY <2>1 DEF GatesCanLift
  <1>7. p \in Downstream(q) /\ Downstream(p) \subseteq Downstream(q)
    BY <1>6, DownstreamGrows
  <1>8. t \in Downstream(q)
    BY <1>7
  <1>9. Cardinality(Downstream(p)) < Cardinality(Downstream(q))
    <2>1. /\ IsFiniteSet(Downstream(q)) /\ Cardinality(Downstream(q)) \in Nat
          /\ Cardinality(Downstream(p)) \in Nat
      BY DownstreamFinite
    <2>2. /\ Cardinality(Downstream(p)) <= Cardinality(Downstream(q))
          /\ Cardinality(Downstream(p)) = Cardinality(Downstream(q))
                => Downstream(p) = Downstream(q)
      BY <1>7, <2>1, FS_Subset
    <2>3. p \notin Downstream(p)
      BY DEF HandoffsAcyclic
    <2> QED
      BY <1>7, <2>1, <2>2, <2>3
  <1>10. task[q].blockedBy = None
    <2>1. ASSUME q \in G
          PROVE  FALSE
      <3>1. Cardinality(Downstream(q)) <= Cardinality(Downstream(p))
        BY <1>5, <2>1
      <3> QED
        BY <1>3, <1>9, <2>1, <3>1
    <2> QED
      BY <1>8, <2>1
  <1> QED
    BY <1>6, <1>8, <1>10

\* Tasks never all wait for one another, however many there are and however
\* dependencies are added and lifted: upstream of a gated task somebody works
\* on one that waits for nobody, or can take it (block_task, complete_task,
\* abandon_task, validate_dependency_on).
THEOREM ChainsNeverDeadlock == Spec => []SomeoneCanProceed
  <1>1. Init => FinitelyMany
    <2> SUFFICES ASSUME Init PROVE FinitelyMany
      OBVIOUS
    <2>1. Succeeding = {}
      BY DEF Init, Succeeding
    <2> QED
      BY <2>1, FS_EmptySet DEF FinitelyMany
  <1>2. IInv /\ FinitelyMany /\ [Next]_boardVars => FinitelyMany'
    BY FinitelyManyKept
  <1>3. IInv /\ HandoffsAcyclic /\ FinitelyMany => SomeoneCanProceed
    BY ChainHasLiveHead
  <1> QED
    BY <1>1, <1>2, <1>3, Invariance, HandoffsStayAcyclic, PTL DEF Spec

----------------------------------------------------------------------------
(* What a step may never do *)

\* A step that rewrites the live (or absent) row of u alone.
Rewrites(u) ==
    /\ task[u].status \notin Terminal
    /\ \A x \in Tasks \ {u} : task'[x] = task[x]
    /\ task[u].blockedBy # None =>
           task'[u].status = "blocked" /\ task'[u].blockedBy \in {None, task[u].blockedBy}
    /\ Displaced(u) => Forfeited(u)

\* A step that ends u and opens what waited for it.
Ends(u) ==
    /\ task[u].status \notin Terminal
    /\ task'[u].status \in Terminal
    /\ task'[u].owner = None
    /\ task[u].blockedBy # None => task'[u].status = "abandoned"
    /\ \A x \in Tasks \ {u} :
           IF task[x].blockedBy = u
           THEN task'[x].status = "open" /\ task'[x].owner = None
           ELSE task'[x] = task[x]

\* Every operation performed by an agent rewrites one row or ends one task.
LEMMA AgentStepShape ==
    ASSUME IInv, NEW t \in Tasks, NEW a \in Agents, NEW now \in Sampled,
           AgentStep(t, a, now)
    PROVE  Rewrites(t) \/ Ends(t)
  <1> USE BoardAssumption
  <1>n. now \in Nat /\ clock \in Nat /\ now <= clock
    BY DEF IInv, TypeOK, Sampled
  <1>w. ASSUME NEW row, task' = [task EXCEPT ![t] = row]
        PROVE  task'[t] = row /\ \A x \in Tasks \ {t} : task'[x] = task[x]
    BY <1>w DEF IInv, TypeOK
  <1>k. ASSUME NEW row, task' = [task EXCEPT ![t] = row],
               row.owner \in {None, task[t].owner},
               task[t].status \in {"claimed"} \cup Parked
        PROVE  Rewrites(t)
    <2>1. task[t].blockedBy = None /\ task[t].status \notin Terminal
      BY <1>k, RowFacts DEF Parked, Terminal
    <2> QED
      BY <1>k, <1>w, <2>1 DEF Rewrites, Displaced
  <1>1. ASSUME NEW len \in Leases, ClaimTask(t, a, len, now)
        PROVE  Rewrites(t)
    <2>1. task' = [task EXCEPT ![t] = Held(a, now + len, task[t].blockedBy)]
          /\ Claimable(task[t], a, now)
      BY <1>1 DEF ClaimTask, Put
    <2>2. task'[t].owner = a /\ \A x \in Tasks \ {t} : task'[x] = task[x]
      BY <1>w, <2>1 DEF Held
    <2>3. task[t].blockedBy = None /\ task[t].status \notin Terminal
      BY <2>1 DEF Claimable, Parked, Terminal
    <2>4. Displaced(t) => Forfeited(t)
      BY <1>n, <2>1, <2>2, RowFacts
         DEF Claimable, Displaced, Forfeited, Coherent, Parked
    <2> QED
      BY <2>2, <2>3, <2>4 DEF Rewrites
  <1>2. ASSUME NEW from \in Agents, NEW by \in Reviewers \cup {None}, NEW len \in Leases,
               RecoverClaim(t, from, a, by, len, now)
        PROVE  Rewrites(t)
    <2> DEFINE lease == now + (IF len < 1 THEN 1 ELSE len)
    <2>1. task' = [task EXCEPT ![t] = Held(a, lease, task[t].blockedBy)]
      BY <1>2 DEF RecoverClaim, Put
    <2>2. task'[t].owner = a /\ \A x \in Tasks \ {t} : task'[x] = task[x]
      BY <1>w, <2>1 DEF Held
    <2>3. task[t].status \in {"claimed"} \cup Parked
      BY <1>2 DEF RecoverClaim, ParkedBeforeGrace, Parked
    <2>4. task[t].blockedBy = None /\ task[t].status \notin Terminal
      BY <2>3, RowFacts DEF Parked, Terminal
    <2>5. CASE ParkedBeforeGrace(task[t], now)
      <3>1. task[t].status = "paused" /\ by \in Reviewers \ {task[t].owner, a}
        BY <1>2, <2>5 DEF RecoverClaim, ParkedBeforeGrace
      <3> QED
        BY <2>2, <2>4, <3>1 DEF Rewrites, Forfeited
    <2>6. CASE ~ ParkedBeforeGrace(task[t], now)
      <3>1. \/ task[t].status = "claimed" /\ task[t].lease < now
            \/ /\ task[t].status \in Parked /\ task[t].parked # None
               /\ task[t].parked + Grace < now
        BY <1>2, <2>6 DEF RecoverClaim
      <3>2. Forfeited(t)
        BY <1>n, <3>1, RowFacts DEF Forfeited, Coherent
      <3> QED
        BY <2>2, <2>4, <3>2 DEF Rewrites
    <2> QED
      BY <2>5, <2>6
  <1>3. ASSUME NEW len \in Leases,
               RenewLease(t, a, len, now) \/ TouchLease(t, a, len, now)
        PROVE  Rewrites(t)
    <2>1. PICK lease : task' = [task EXCEPT ![t] = [task[t] EXCEPT !.lease = lease]]
      BY <1>3 DEF RenewLease, TouchLease, Put
    <2>2. [task[t] EXCEPT !.lease = lease].owner = task[t].owner
      BY RowFacts DEF Row
    <2> QED
      BY <1>3, <1>k, <2>1, <2>2 DEF RenewLease, TouchLease, HoldsLive
  <1>4. ASSUME NEW len \in Leases, ResumeTask(t, a, len, now)
        PROVE  Rewrites(t)
    BY <1>4, <1>k DEF ResumeTask, UnparkFrom, Put, Held, Parked
  <1>5. CASE ReleaseTask(t, a)
    BY <1>5, <1>k DEF ReleaseTask, Put, Unheld
  <1>6. CASE AskQuestion(t, a, now) \/ PauseTask(t, a, now)
    BY <1>6, <1>k DEF AskQuestion, PauseTask, ParkAs, Put
  <1>7. ASSUME NEW v \in Judged, NEW before, CompleteTask(t, a, v, before)
        PROVE  Rewrites(t) \/ Ends(t)
    <2> DEFINE row == Unheld(TargetStatus(v), task[t].parked, task[t].blockedBy)
    <2>1. /\ task[t].status = "claimed" /\ task[t].blockedBy = None
          /\ UNCHANGED <<clock, pred, verdicts>>
          /\ v \in verdicts[t]
      BY <1>7 DEF CompleteTask, HoldsLive
    <2>2. CASE TargetStatus(v) = "done"
      <3>1. task' = OpenBlockedSuccessor([task EXCEPT ![t] = row], t)
        BY <1>7, <2>2 DEF CompleteTask
      <3>2. /\ row \in Row /\ Coherent(row) /\ row.status = "done"
            /\ row.owner = None /\ row.blockedBy = None
        BY <2>1, <2>2, RowFacts DEF Unheld, Row, Status, Coherent, Parked, Terminal
      <3>3. verdicts[t] \ {"violation"} # {}
        BY <2>1, <2>2 DEF TargetStatus
      <3> HIDE DEF row
      <3>4. Ends(t)
        BY <2>1, <3>1, <3>2, <3>3, TaskEnded DEF Ends, Terminal
      <3> QED
        BY <3>4
    <2>3. CASE TargetStatus(v) # "done"
      BY <1>7, <1>k, <2>1, <2>3 DEF CompleteTask, Unheld
    <2> QED
      BY <2>2, <2>3
  <1> QED
    BY <1>1, <1>2, <1>3, <1>4, <1>5, <1>6, <1>7 DEF AgentStep

\* So does every operation that is not tied to the owner, except storing a
\* verdict, which leaves the table alone.
LEMMA BoardStepShape ==
    ASSUME IInv, NEW t \in Tasks, NEW now \in Sampled, BoardStep(t, now)
    PROVE  task' = task \/ Rewrites(t) \/ Ends(t)
  <1> USE BoardAssumption
  <1>w. ASSUME NEW status, NEW parked, NEW gate,
               task' = [task EXCEPT ![t] = Unheld(status, parked, gate)],
               task[t].status \notin Terminal,
               task[t].blockedBy # None =>
                   status = "blocked" /\ gate \in {None, task[t].blockedBy}
        PROVE  Rewrites(t)
    BY <1>w DEF IInv, TypeOK, Unheld, Rewrites, Displaced
  <1>1. CASE CreateTask(t)
    BY <1>1, <1>w, RowFacts DEF CreateTask, Put, Terminal
  <1>2. ASSUME NEW b \in Tasks, CreateTaskAfter(t, b)
        PROVE  Rewrites(t)
    BY <1>2, <1>w, RowFacts DEF CreateTaskAfter, Put, Terminal
  <1>3. CASE BlockTask(t) \/ \E b \in Tasks : BlockTaskOn(t, b)
    <2>1. CASE BlockTask(t)
      BY <1>w, <2>1 DEF BlockTask, Put
    <2>2. ASSUME NEW b \in Tasks, BlockTaskOn(t, b)
          PROVE  Rewrites(t)
      <3>1. task[t].blockedBy # None => b = task[t].blockedBy
        BY <2>2 DEF BlockTaskOn, DependencyAllowed, IInv, GatesCanLift
      <3> QED
        BY <1>w, <2>2, <3>1 DEF BlockTaskOn, Put
    <2> QED
      BY <1>3, <2>1, <2>2
  <1>4. ASSUME NEW len \in Leases, AnswerQuestion(t, len, now)
        PROVE  Rewrites(t)
    <2>1. task[t].status = "needs_input" /\ task[t].blockedBy = None
      BY <1>4, RowFacts DEF AnswerQuestion, UnparkFrom
    <2>2. /\ task'[t].owner = task[t].owner
          /\ \A x \in Tasks \ {t} : task'[x] = task[x]
      BY <1>4 DEF AnswerQuestion, UnparkFrom, Put, Held, IInv, TypeOK
    <2> QED
      BY <2>1, <2>2 DEF Rewrites, Displaced, Terminal
  <1>5. CASE ReopenTask(t)
    BY <1>5, <1>w, RowFacts DEF ReopenTask, Put, Terminal
  <1>6. CASE AbandonTask(t, now)
    <2> DEFINE row == Unheld("abandoned", None, None)
    <2>1. /\ row \in Row /\ Coherent(row) /\ row.status = "abandoned"
          /\ row.owner = None /\ row.blockedBy = None
      BY DEF Unheld, Row, Status, Coherent, Parked, Terminal
    <2>2. task[t].status \notin Terminal
      BY <1>6 DEF AbandonTask, Terminal
    <2>3. task' = OpenBlockedSuccessor([task EXCEPT ![t] = row], t)
          /\ UNCHANGED <<clock, pred, verdicts>>
      BY <1>6 DEF AbandonTask
    <2> HIDE DEF row
    <2> QED
      BY <2>1, <2>2, <2>3, TaskEnded DEF Ends, Terminal
  <1>7. CASE ResolveInReview(t)
    <2> DEFINE row == Unheld("done", task[t].parked, None)
    <2>1. /\ row \in Row /\ Coherent(row) /\ row.status = "done"
          /\ row.owner = None /\ row.blockedBy = None
      BY RowFacts DEF Unheld, Row, Status, Coherent, Parked, Terminal
    <2>2. /\ task[t].status \notin Terminal /\ task[t].blockedBy = None
          /\ verdicts[t] \ {"violation"} # {}
      BY <1>7, RowFacts DEF ResolveInReview, IInv, OutcomesAreBacked, Terminal
    <2>3. task' = OpenBlockedSuccessor([task EXCEPT ![t] = row], t)
          /\ UNCHANGED <<clock, pred, verdicts>>
      BY <1>7 DEF ResolveInReview
    <2> HIDE DEF row
    <2> QED
      BY <2>1, <2>2, <2>3, TaskEnded DEF Ends, Terminal
  <1>8. ASSUME NEW v \in Judged, RecordConformance(t, v)
        PROVE  task' = task
    BY <1>8 DEF RecordConformance
  <1> QED
    BY <1>1, <1>2, <1>3, <1>4, <1>5, <1>6, <1>7, <1>8 DEF BoardStep

\* The shape of every step of the board.
LEMMA StepShape ==
    ASSUME IInv, [Next]_boardVars
    PROVE  task' = task \/ \E u \in Tasks : Rewrites(u) \/ Ends(u)
  BY AgentStepShape, BoardStepShape DEF Next, Tick, boardVars

\* No interleaving and no stale `now` costs a live owner its claim.
THEOREM NoLiveOwnerDisplaced == Spec => DisplacedOnlyWhenForfeit
  <1>1. IInv /\ [Next]_boardVars =>
            [\A t \in Tasks : Displaced(t) => Forfeited(t)]_boardVars
    <2> SUFFICES ASSUME IInv, [Next]_boardVars, NEW t \in Tasks, Displaced(t)
                 PROVE  Forfeited(t)
      OBVIOUS
    <2>1. task' # task
      BY DEF Displaced
    <2>2. PICK u \in Tasks : Rewrites(u) \/ Ends(u)
      BY <2>1, StepShape
    <2>3. u = t /\ Rewrites(u)
      BY <2>2 DEF Displaced, Rewrites, Ends
    <2> QED
      BY <2>3 DEF Rewrites
  <1> QED
    BY <1>1, Invariance, PTL DEF Spec, DisplacedOnlyWhenForfeit

\* A standing gate goes only with its predecessor's end, with the gated task's
\* own abandonment, or by block_task without a predecessor.
THEOREM GatesHold == Spec => GateStandsUntilLifted
  <1> DEFINE Stands(t) == LET p == task[t].blockedBy IN
        p # None =>
            \/ task'[t].status = "blocked" /\ task'[t].blockedBy = p
            \/ task'[p].status \in Terminal /\ task[p].status \notin Terminal
            \/ task'[t].status = "abandoned"
            \/ task'[t].status = "blocked" /\ task'[t].blockedBy = None
  <1>1. IInv /\ [Next]_boardVars => [\A t \in Tasks : Stands(t)]_boardVars
    <2> SUFFICES ASSUME IInv, [Next]_boardVars, NEW t \in Tasks,
                        task[t].blockedBy # None
                 PROVE  Stands(t)
      OBVIOUS
    <2>1. task[t].status = "blocked"
      BY DEF IInv, GatesCanLift
    <2>2. CASE task' = task
      BY <2>1, <2>2
    <2>3. CASE task' # task
      <3>1. PICK u \in Tasks : Rewrites(u) \/ Ends(u)
        BY <2>3, StepShape
      <3>2. CASE u = t
        BY <3>1, <3>2 DEF Rewrites, Ends
      <3>3. CASE u # t
        BY <2>1, <3>1, <3>3 DEF Rewrites, Ends
      <3> QED
        BY <3>2, <3>3
    <2> QED
      BY <2>2, <2>3
  <1> QED
    BY <1>1, Invariance, PTL DEF Spec, GateStandsUntilLifted

\* No operation revives or rewrites a task that has ended.
THEOREM TerminalStaysFinal == Spec => TerminalIsFinal
  <1>1. IInv /\ [Next]_boardVars =>
            [\A t \in Tasks :
                task[t].status \in Terminal => task'[t] = task[t]]_boardVars
    <2> SUFFICES ASSUME IInv, [Next]_boardVars, NEW t \in Tasks,
                        task[t].status \in Terminal, task' # task
                 PROVE  task'[t] = task[t]
      OBVIOUS
    <2>1. PICK u \in Tasks : Rewrites(u) \/ Ends(u)
      BY StepShape
    <2>2. u # t
      BY <2>1 DEF Rewrites, Ends
    <2>3. task[t].blockedBy # u
      BY BoardAssumption DEF IInv, GatesCanLift, Terminal
    <2> QED
      BY <2>1, <2>2, <2>3 DEF Rewrites, Ends
  <1> QED
    BY <1>1, Invariance, PTL DEF Spec, TerminalIsFinal


=============================================================================
