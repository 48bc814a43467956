------------------------- MODULE FeishuFamilyProofs -------------------------
(***************************************************************************)
(* Theorems about FeishuFamily, for every number of workers, attempts and  *)
(* failures: a family of jobs implements FeishuFamilyLifecycle, its        *)
(* recommendation works on the results of the whole family, and each of    *)
(* its live jobs is somebody's duty as long as no claim lapses.            *)
(***************************************************************************)
EXTENDS FeishuFamily, SequenceTheorems, TLAPS

USE FamilyAssumption

-----------------------------------------------------------------------------
(***************************************************************************)
(* Type correctness.                                                       *)
(***************************************************************************)
LEMMA RowParts ==
    ASSUME TypeOK, NEW m \in Members
    PROVE  /\ job[m] \in Rows /\ job[m].attempts \in Nat /\ job[m].attempts + 1 \in Nat
           /\ job[m].status \in Statuses
  BY DEF TypeOK, Rows

LEMMA WorkerParts ==
    ASSUME TypeOK, NEW w \in Workers
    PROVE  /\ worker[w] \in WorkerStates /\ worker[w].job \in Members
           /\ worker[w].target \in Members /\ worker[w].todo \in Seq(Siblings)
           /\ worker[w].pending \in SUBSET Siblings /\ worker[w].then \in {"plan", "notify"}
  BY DEF TypeOK, WorkerStates

(* A row is written with a status, and only a running one keeps its lease. *)
LEMMA RowPut ==
    ASSUME TypeOK, NEW m \in Members, NEW r \in Rows, r.lease => r.status = "RUNNING",
           job' = [job EXCEPT ![m] = r]
    PROVE  /\ job' \in [Members -> Rows]
           /\ \A n \in Members : job'[n].lease => job'[n].status = "RUNNING"
  BY DEF TypeOK

LEMMA RowClaimed ==
    \A r \in Rows, n \in Nat :
       /\ [r EXCEPT !.status = "RUNNING", !.attempts = n, !.lease = TRUE] \in Rows
       /\ [r EXCEPT !.status = "RUNNING", !.attempts = n, !.lease = TRUE].status = "RUNNING"
  BY DEF Rows, Statuses, Open

LEMMA RowClosed ==
    \A r \in Rows, s \in Statuses :
       /\ [r EXCEPT !.status = s, !.lease = FALSE] \in Rows
       /\ [r EXCEPT !.status = s, !.lease = FALSE].lease = FALSE
  BY DEF Rows

LEMMA SiblingType ==
    ASSUME TypeOK, NEW t
    PROVE  NewSibling(t) \in Rows /\ NewSibling(t).lease = FALSE
  BY DEF NewSibling, NoJob, Rows, Statuses, Open, TypeOK

(* What a worker holds.                                                    *)
Pcs == {"idle", "validate", "plan", "deliver", "list", "notify", "enqueue", "mark"}

LEMMA WorkerPut ==
    ASSUME TypeOK, NEW w \in Workers, NEW r \in WorkerStates,
           worker' = [worker EXCEPT ![w] = r]
    PROVE  worker' \in [Workers -> WorkerStates]
  BY DEF TypeOK

LEMMA IdleType == Idle \in WorkerStates
  BY DEF Idle, WorkerStates, Members

LEMMA ClaimedType ==
    \A r \in WorkerStates, m \in Members, n \in Nat, pc \in Pcs :
       [r EXCEPT !.job = m, !.token = n, !.pc = pc] \in WorkerStates
  BY DEF WorkerStates, Pcs

LEMMA PcType == \A r \in WorkerStates, pc \in Pcs : [r EXCEPT !.pc = pc] \in WorkerStates
  BY DEF WorkerStates, Pcs

LEMMA AcknowledgeType ==
    ASSUME TypeOK, NEW w \in Workers, Acknowledge(w)
    PROVE  worker' \in [Workers -> WorkerStates]
  BY IdleType, WorkerPut DEF Acknowledge

LEMMA GoesType ==
    ASSUME TypeOK, NEW w \in Workers, NEW pc \in Pcs, Goes(w, pc)
    PROVE  worker' \in [Workers -> WorkerStates]
<1>1. [worker[w] EXCEPT !.pc = pc] \in WorkerStates
  BY WorkerParts, PcType
<1>2. worker' = [worker EXCEPT ![w] = [worker[w] EXCEPT !.pc = pc]]
  BY Zenon DEF Goes
<1>3. QED
  BY <1>1, <1>2, WorkerPut

LEMMA DispatchedType ==
    ASSUME TypeOK, NEW w \in Workers, Dispatched(w)
    PROVE  worker' \in [Workers -> WorkerStates]
<1>1. [worker[w] EXCEPT !.pc = worker[w].then, !.target = "root", !.then = "plan"]
         \in WorkerStates
  BY WorkerParts DEF WorkerStates, Members
<1>2. worker' = [worker EXCEPT ![w] = [worker[w] EXCEPT
                   !.pc = worker[w].then, !.target = "root", !.then = "plan"]]
  BY Zenon DEF Dispatched
<1>3. QED
  BY <1>1, <1>2, WorkerPut

LEMMA DispatchType ==
    ASSUME TypeOK, NEW w \in Workers, NEW t \in Members, worker[w].pc \in {"plan", "notify"}
    PROVE  Dispatch(w, t) \in WorkerStates
  BY WorkerParts DEF Dispatch, WorkerStates

LEMMA TodoType ==
    \A r \in WorkerStates, todo \in Seq(Siblings) : [r EXCEPT !.todo = todo] \in WorkerStates
  BY DEF WorkerStates

LEMMA PendingType ==
    \A r \in WorkerStates, p \in SUBSET Siblings : [r EXCEPT !.pending = p] \in WorkerStates
  BY DEF WorkerStates

LEMMA AfterStagingType ==
    ASSUME TypeOK, NEW w \in Workers, NEW row, worker[w].pc = "plan", worker[w].todo # <<>>,
           AfterStaging(w, Head(worker[w].todo), row)
    PROVE  worker' \in [Workers -> WorkerStates]
<1>1. Tail(worker[w].todo) \in Seq(Siblings) /\ Head(worker[w].todo) \in Members
  BY WorkerParts, HeadTailProperties DEF Members
<1>2. worker[w] \in WorkerStates /\ Dispatch(w, Head(worker[w].todo)) \in WorkerStates
  BY <1>1, WorkerParts, DispatchType
<1>3. PICK r \in WorkerStates : /\ r.todo = worker[w].todo
                                /\ worker' = [worker EXCEPT ![w] = [r EXCEPT !.todo = Tail(@)]]
  BY <1>2 DEF AfterStaging, Dispatch, WorkerStates
<1>4. [r EXCEPT !.todo = Tail(@)] \in WorkerStates
  BY <1>1, <1>3, TodoType
<1>5. QED
  BY <1>3, <1>4, WorkerPut

(* Messages are put on the queue and taken from it one at a time.          *)
LEMMA QueueType ==
    ASSUME TypeOK, NEW m \in Members
    PROVE  /\ [queue EXCEPT ![m] = @ + 1] \in [Members -> Nat]
           /\ queue[m] > 0 => [queue EXCEPT ![m] = @ - 1] \in [Members -> Nat]
<1>1. queue \in [Members -> Nat] /\ queue[m] \in Nat
  BY DEF TypeOK
<1>2. queue[m] > 0 => queue[m] - 1 \in Nat
  BY <1>1
<1>3. QED
  BY <1>1, <1>2

(* The counters stay within their bounds.                                  *)
LEMMA CounterType ==
    ASSUME TypeOK, Fault \/ Lapse \/ NoFault
    PROVE  faults' \in 0..MaxFaults /\ lapses' \in 0..MaxLapses
  BY DEF TypeOK, Fault, Lapse, NoFault

(* A member that ends or is given up.                                      *)
LEMMA CloseType ==
    ASSUME TypeOK, NEW w \in Workers, NEW s \in Statuses, Close(w, s)
    PROVE  /\ job' \in [Members -> Rows]
           /\ \A n \in Members : job'[n].lease => job'[n].status = "RUNNING"
<1>1. worker[w].job \in Members /\ job[worker[w].job] \in Rows
  BY WorkerParts, RowParts
<1>2. /\ [job[worker[w].job] EXCEPT !.status = s, !.lease = FALSE] \in Rows
      /\ [job[worker[w].job] EXCEPT !.status = s, !.lease = FALSE].lease = FALSE
  BY <1>1, RowClosed
<1>3. job' = [job EXCEPT ![worker[w].job] =
                [job[worker[w].job] EXCEPT !.status = s, !.lease = FALSE]]
  BY Zenon DEF Close
<1>4. QED
  BY <1>1, <1>2, <1>3, RowPut

(* The steps of a worker.                                                  *)
LEMMA ExecuteType ==
    ASSUME TypeOK, NEW w \in Workers, Execute(w)
    PROVE  TypeOK'
<1>a. /\ worker[w] \in WorkerStates /\ worker[w].job \in Members
      /\ worker[w].target \in Members /\ worker[w].pending \in SUBSET Siblings
  BY WorkerParts
<1>b. faults' \in 0..MaxFaults /\ lapses' \in 0..MaxLapses
  BY CounterType DEF Execute, Claim, Validate, Stage, Enqueue, Mark, Compute, Finish, List, Notify
<1>1. CASE Claim(w)
  <2>1. PICK m \in Members :
          /\ queue[m] > 0
          /\ queue' = [queue EXCEPT ![m] = @ - 1]
          /\ \/ UNCHANGED <<job, worker>>
             \/ \E pc \in {"validate", "deliver"} :
                   /\ job' = [job EXCEPT ![m] = [job[m] EXCEPT !.status = "RUNNING",
                         !.attempts = job[m].attempts + 1, !.lease = TRUE]]
                   /\ worker' = [worker EXCEPT ![w] = [Idle EXCEPT !.job = m,
                         !.token = job[m].attempts + 1, !.pc = pc]]
    BY <1>1, Zenon DEF Claim
  <2>2. queue' \in [Members -> Nat]
    BY <2>1, QueueType
  <2>3. CASE UNCHANGED <<job, worker>>
    BY <1>1, <1>b, <2>2, <2>3 DEF Claim, TypeOK
  <2>4. CASE ~UNCHANGED <<job, worker>>
    <3>1. PICK pc \in {"validate", "deliver"} :
             /\ job' = [job EXCEPT ![m] = [job[m] EXCEPT !.status = "RUNNING",
                   !.attempts = job[m].attempts + 1, !.lease = TRUE]]
             /\ worker' = [worker EXCEPT ![w] = [Idle EXCEPT !.job = m,
                   !.token = job[m].attempts + 1, !.pc = pc]]
      BY <2>1, <2>4
    <3>2. [Idle EXCEPT !.job = m, !.token = job[m].attempts + 1, !.pc = pc] \in WorkerStates
      BY IdleType, ClaimedType, RowParts DEF Pcs
    <3>3. worker' \in [Workers -> WorkerStates]
      BY <3>1, <3>2, WorkerPut
    <3>4. /\ job' \in [Members -> Rows]
          /\ \A n \in Members : job'[n].lease => job'[n].status = "RUNNING"
      BY <3>1, RowParts, RowClaimed, RowPut
    <3>5. QED
      BY <1>1, <1>b, <2>2, <3>3, <3>4 DEF Claim, TypeOK
  <2>5. QED
    BY <2>3, <2>4
<1>2. CASE Validate(w)
  <2>1. StagingOrder \in Seq(Siblings)
    BY DEF StagingOrder, Siblings, Required
  <2>2. [worker[w] EXCEPT !.pc = "plan", !.todo = StagingOrder] \in WorkerStates
    BY <1>a, <2>1 DEF WorkerStates
  <2>3. worker' = [worker EXCEPT ![w] = [worker[w] EXCEPT !.pc = "plan", !.todo = StagingOrder]]
          \/ Acknowledge(w) \/ Goes(w, "deliver")
    BY <1>2, Zenon DEF Validate
  <2>4. worker' \in [Workers -> WorkerStates]
    BY <2>2, <2>3, WorkerPut, AcknowledgeType, GoesType DEF Pcs
  <2>5. QED
    BY <1>2, <1>b, <2>4 DEF Validate, TypeOK
<1>3. CASE Stage(w)
  <2>1. Head(worker[w].todo) \in Members
    BY <1>3, WorkerParts, HeadTailProperties DEF Stage, Members
  <2>2. worker' \in [Workers -> WorkerStates]
    BY <1>3, AcknowledgeType, AfterStagingType DEF Stage
  <2>3. job' = job \/ job' = [job EXCEPT ![Head(worker[w].todo)] = NewSibling(Head(worker[w].todo))]
    BY <1>3, <2>1 DEF Stage, TypeOK
  <2>4. /\ job' \in [Members -> Rows]
        /\ \A n \in Members : job'[n].lease => job'[n].status = "RUNNING"
    BY <2>1, <2>3, SiblingType, RowPut DEF TypeOK
  <2>5. QED
    BY <1>3, <1>b, <2>2, <2>4 DEF Stage, TypeOK
<1>4. CASE Enqueue(w)
  BY <1>4, <1>a, <1>b, QueueType, GoesType DEF Enqueue, Pcs, TypeOK
<1>5. CASE Mark(w)
  <2>1. /\ [job[worker[w].target] EXCEPT !.task = TRUE] \in Rows
        /\ [job[worker[w].target] EXCEPT !.task = TRUE].lease = job[worker[w].target].lease
        /\ [job[worker[w].target] EXCEPT !.task = TRUE].status = job[worker[w].target].status
    BY <1>a, RowParts DEF Rows
  <2>2. job' = [job EXCEPT ![worker[w].target] = [job[worker[w].target] EXCEPT !.task = TRUE]]
    BY <1>5, Zenon DEF Mark
  <2>3. /\ job' \in [Members -> Rows]
        /\ \A n \in Members : job'[n].lease => job'[n].status = "RUNNING"
    BY <1>a, <2>1, <2>2, RowPut DEF TypeOK
  <2>4. QED
    BY <1>5, <1>b, <2>3, DispatchedType DEF Mark, TypeOK
<1>6. CASE Compute(w)
  BY <1>6, <1>b, AcknowledgeType, GoesType DEF Compute, Pcs, TypeOK
<1>7. CASE Finish(w)
  <2>1. worker' \in [Workers -> WorkerStates]
    BY <1>7, AcknowledgeType, GoesType DEF Finish, Pcs
  <2>2. job' = job \/ \E s \in Terminal : Close(w, s)
    BY <1>7 DEF Finish
  <2>3. /\ job' \in [Members -> Rows]
        /\ \A n \in Members : job'[n].lease => job'[n].status = "RUNNING"
    BY <2>2, CloseType DEF Statuses, TypeOK
  <2>4. QED
    BY <1>7, <1>b, <2>1, <2>3 DEF Finish, TypeOK
<1>8. CASE List(w)
  <2>1. PICK ready \in SUBSET Siblings :
           /\ frozen' = IF "recommendation" \in ready /\ frozen = NotFrozen THEN Results ELSE frozen
           /\ worker' = [worker EXCEPT ![w] = [worker[w] EXCEPT !.pc = "notify", !.pending = ready]]
    BY <1>8, Zenon DEF List
  <2>2. [worker[w] EXCEPT !.pc = "notify", !.pending = ready] \in WorkerStates
    BY <1>a DEF WorkerStates
  <2>3. frozen' \in SUBSET Members
    BY <2>1 DEF Results, Members, Siblings, TypeOK
  <2>4. QED
    BY <1>8, <1>b, <2>1, <2>2, <2>3, WorkerPut DEF List, TypeOK
<1>9. CASE Notify(w)
  <2>1. CASE Acknowledge(w)
    BY <1>9, <1>b, <2>1, AcknowledgeType DEF Notify, TypeOK
  <2>2. ASSUME NEW m \in worker[w].pending,
               worker' = [worker EXCEPT ![w] = [Dispatch(w, m) EXCEPT !.pending = @ \ {m}]]
        PROVE  worker' \in [Workers -> WorkerStates]
    <3>1. m \in Members /\ worker[w].pc = "notify"
      BY <1>9, <1>a DEF Notify, Members
    <3>2. Dispatch(w, m) \in WorkerStates
      BY <3>1, DispatchType
    <3>3. Dispatch(w, m).pending \ {m} \in SUBSET Siblings
      BY <3>2 DEF WorkerStates
    <3>4. [Dispatch(w, m) EXCEPT !.pending = Dispatch(w, m).pending \ {m}] \in WorkerStates
      BY <3>2, <3>3, PendingType
    <3>5. QED
      BY <2>2, <3>4, WorkerPut
  <2>3. QED
    BY <1>9, <1>b, <2>1, <2>2 DEF Notify, TypeOK
<1>10. QED
  BY <1>1, <1>2, <1>3, <1>4, <1>5, <1>6, <1>7, <1>8, <1>9 DEF Execute

(* Failures.                                                               *)
LEMMA FailureType ==
    ASSUME TypeOK,
           \/ \E w \in Workers : Retry(w) \/ DispatchFails(w) \/ Crash(w) \/ Redeliver(w)
           \/ \E m \in Members : Expire(m)
           \/ NewProfile
    PROVE  TypeOK'
<1>a. faults' \in 0..MaxFaults /\ lapses' \in 0..MaxLapses
  BY CounterType DEF Retry, DispatchFails, Crash, Redeliver, Expire, NewProfile
<1>1. ASSUME NEW w \in Workers, Retry(w)
      PROVE  TypeOK'
  <2>1. worker' \in [Workers -> WorkerStates]
    BY <1>1, AcknowledgeType, GoesType DEF Retry, Pcs
  <2>2. queue' \in [Members -> Nat]
    BY <1>1, QueueType, WorkerParts DEF Retry, TypeOK
  <2>3. /\ job' \in [Members -> Rows]
        /\ \A n \in Members : job'[n].lease => job'[n].status = "RUNNING"
    BY <1>1, CloseType DEF Retry, Statuses, Terminal, Open
  <2>4. QED
    BY <1>1, <1>a, <2>1, <2>2, <2>3 DEF Retry, TypeOK
<1>2. ASSUME NEW w \in Workers, DispatchFails(w)
      PROVE  TypeOK'
  BY <1>2, <1>a, DispatchedType DEF DispatchFails, TypeOK
<1>3. ASSUME NEW w \in Workers, Crash(w) \/ Redeliver(w)
      PROVE  TypeOK'
  <2>1. queue' \in [Members -> Nat]
    BY <1>3, QueueType, WorkerParts DEF Crash, Redeliver, Returned
  <2>2. worker' \in [Workers -> WorkerStates]
    BY <1>3, AcknowledgeType DEF Crash, Redeliver, TypeOK
  <2>3. QED
    BY <1>3, <1>a, <2>1, <2>2 DEF Crash, Redeliver, TypeOK
<1>4. ASSUME NEW m \in Members, Expire(m)
      PROVE  TypeOK'
  <2>1. [job[m] EXCEPT !.lease = FALSE] \in Rows /\ [job[m] EXCEPT !.lease = FALSE].lease = FALSE
    BY RowParts DEF Rows
  <2>2. job' = [job EXCEPT ![m] = [job[m] EXCEPT !.lease = FALSE]]
    BY <1>4, Zenon DEF Expire
  <2>3. QED
    BY <1>4, <1>a, <2>1, <2>2, RowPut DEF Expire, TypeOK
<1>5. CASE NewProfile
  BY <1>5, <1>a DEF NewProfile, TypeOK
<1>6. QED
  BY <1>1, <1>2, <1>3, <1>4, <1>5

LEMMA InitType == Init => TypeOK
<1> SUFFICES ASSUME Init PROVE TypeOK
    OBVIOUS
<1>1. job \in [Members -> Rows] /\ \A m \in Members : job[m].lease => job[m].status = "RUNNING"
  BY DEF Init, NoJob, Rows, Statuses, Open
<1>2. frozen \in SUBSET Members /\ queue \in [Members -> Nat]
  BY DEF Init, NotFrozen, Members, Siblings
<1>3. QED
  <2>1. worker \in [Workers -> WorkerStates]
    BY IdleType DEF Init
  <2>2. computed \in BOOLEAN /\ reviewed \in Nat
    BY DEF Init
  <2>3. faults \in 0..MaxFaults /\ lapses \in 0..MaxLapses
    BY DEF Init
  <2>4. QED
    BY <1>1, <1>2, <2>1, <2>2, <2>3 DEF TypeOK

LEMMA NextType == TypeOK /\ [Next]_vars => TypeOK'
<1> SUFFICES ASSUME TypeOK, [Next]_vars PROVE TypeOK'
    OBVIOUS
<1>1. CASE UNCHANGED vars
  BY <1>1 DEF vars, TypeOK
<1>2. QED
  BY <1>1, ExecuteType, FailureType DEF Next

(* Rows, messages and workers keep their shape, and only a running member  *)
(* has a lease.                                                            *)
THEOREM TypeCorrect == Spec => []TypeOK
  BY InitType, NextType, PTL DEF Spec

-----------------------------------------------------------------------------
(***************************************************************************)
(* What a step does to the statuses and to the inputs of the               *)
(* recommendation.                                                         *)
(***************************************************************************)
Status == [m \in Members |-> job[m].status]

Staged(m) ==
    /\ m \in Siblings /\ job[m].status = "NONE"
    /\ job["root"].status \in {"RUNNING", "SUCCEEDED"}
    /\ Status' = [Status EXCEPT ![m] = "PENDING"]
Claimed(m) ==
    /\ m \in Members /\ job[m].status \in Open /\ queue[m] > 0
    /\ Status' = [Status EXCEPT ![m] = "RUNNING"]
Closed(m, s) ==
    /\ m \in Members /\ job[m].status = "RUNNING" /\ s \in {"RETRYABLE"} \cup Terminal
    /\ Status' = [Status EXCEPT ![m] = s]
Decides ==
    /\ FamilyEnded /\ frozen = NotFrozen /\ frozen' = Results
    /\ job["recommendation"].status \in {"PENDING", "RETRYABLE"}

Moves ==
    \/ UNCHANGED frozen /\ \/ Status' = Status
                           \/ \E m \in Siblings : Staged(m)
                           \/ \E m \in Members : Claimed(m)
                           \/ \E m \in Members, s \in {"RETRYABLE"} \cup Terminal : Closed(m, s)
    \/ Decides /\ Status' = Status

LEMMA StatusPut ==
    ASSUME TypeOK, NEW m \in Members, NEW r, job' = [job EXCEPT ![m] = r]
    PROVE  Status' = [Status EXCEPT ![m] = r.status]
  BY DEF TypeOK, Status

(* A row that keeps its status.                                            *)
LEMMA StatusKept ==
    ASSUME TypeOK, NEW m \in Members, NEW r, r.status = job[m].status,
           job' = [job EXCEPT ![m] = r]
    PROVE  Status' = Status
  BY DEF TypeOK, Status

LEMMA CloseMoves ==
    ASSUME TypeOK, NEW w \in Workers, Owns(w), NEW s \in {"RETRYABLE"} \cup Terminal,
           Close(w, s)
    PROVE  \E m \in Members : Closed(m, s)
<1>1. worker[w].job \in Members /\ job[worker[w].job] \in Rows
  BY WorkerParts, RowParts
<1>2. job' = [job EXCEPT ![worker[w].job] =
                [job[worker[w].job] EXCEPT !.status = s, !.lease = FALSE]]
  BY Zenon DEF Close
<1>3. [job[worker[w].job] EXCEPT !.status = s, !.lease = FALSE].status = s
  BY <1>1 DEF Rows
<1>4. job[worker[w].job].status = "RUNNING"
  BY DEF Owns
<1>5. Closed(worker[w].job, s)
  BY <1>1, <1>2, <1>3, <1>4, StatusPut DEF Closed
<1>6. QED
  BY <1>1, <1>5

LEMMA StepMoves ==
    ASSUME TypeOK, Next
    PROVE  Moves
<1>0. ASSUME UNCHANGED <<job, frozen>> PROVE Moves
  BY <1>0 DEF Moves, Status
<1>1. ASSUME NEW w \in Workers, Claim(w) PROVE Moves
  <2>1. PICK m \in Members :
          /\ queue[m] > 0
          /\ \/ UNCHANGED job
             \/ /\ job[m].status \in Open
                /\ job' = [job EXCEPT ![m] = [job[m] EXCEPT !.status = "RUNNING",
                      !.attempts = job[m].attempts + 1, !.lease = TRUE]]
    BY <1>1, Zenon DEF Claim
  <2>2. UNCHANGED frozen
    BY <1>1 DEF Claim
  <2>3. ASSUME job[m].status \in Open,
               job' = [job EXCEPT ![m] = [job[m] EXCEPT !.status = "RUNNING",
                     !.attempts = job[m].attempts + 1, !.lease = TRUE]]
        PROVE  Claimed(m)
    <3>1. /\ [job[m] EXCEPT !.status = "RUNNING", !.attempts = job[m].attempts + 1,
                 !.lease = TRUE].status = "RUNNING"
      BY RowParts, RowClaimed
    <3>2. Status' = [Status EXCEPT ![m] = "RUNNING"]
      BY <2>3, <3>1, StatusPut
    <3>3. QED
      BY <2>1, <2>3, <3>2 DEF Claimed
  <2>4. QED
    BY <1>0, <2>1, <2>2, <2>3 DEF Moves
<1>2. ASSUME NEW w \in Workers, Stage(w) PROVE Moves
  <2>1. Head(worker[w].todo) \in Siblings
    BY <1>2, WorkerParts, HeadTailProperties DEF Stage
  <2>2. CASE UNCHANGED job
    BY <1>0, <1>2, <2>2 DEF Stage
  <2>3. CASE ~UNCHANGED job
    <3>1. /\ job[Head(worker[w].todo)].status = "NONE"
          /\ job["root"].status \in {"RUNNING", "SUCCEEDED"}
          /\ job' = [job EXCEPT ![Head(worker[w].todo)] = NewSibling(Head(worker[w].todo))]
      BY <1>2, <2>1, <2>3 DEF Stage, TypeOK, Members
    <3>2. NewSibling(Head(worker[w].todo)).status = "PENDING"
      BY DEF NewSibling, NoJob
    <3>3. Staged(Head(worker[w].todo))
      <4>1. Status' = [Status EXCEPT ![Head(worker[w].todo)] =
                          NewSibling(Head(worker[w].todo)).status]
        BY <2>1, <3>1, StatusPut DEF Members
      <4>2. QED
        BY <2>1, <3>1, <3>2, <4>1, Zenon DEF Staged
    <3>4. QED
      BY <1>2, <2>1, <3>3 DEF Stage, Moves
  <2>4. QED
    BY <2>2, <2>3
<1>3. ASSUME NEW w \in Workers, Mark(w) PROVE Moves
  <2>1. worker[w].target \in Members /\ job[worker[w].target] \in Rows
    BY WorkerParts, RowParts
  <2>2. job' = [job EXCEPT ![worker[w].target] = [job[worker[w].target] EXCEPT !.task = TRUE]]
    BY <1>3, Zenon DEF Mark
  <2>3. [job[worker[w].target] EXCEPT !.task = TRUE].status = job[worker[w].target].status
    BY <2>1 DEF Rows
  <2>4. QED
    BY <1>3, <2>1, <2>2, <2>3, StatusKept DEF Mark, Moves
<1>4. ASSUME NEW w \in Workers, Finish(w) PROVE Moves
  <2>1. UNCHANGED frozen
    BY <1>4 DEF Finish
  <2>2. UNCHANGED job \/ (Owns(w) /\ \E s \in Terminal : Close(w, s))
    BY <1>4, Zenon DEF Finish
  <2>3. QED
    BY <1>0, <2>1, <2>2, CloseMoves DEF Moves
<1>5. ASSUME NEW w \in Workers, Retry(w) PROVE Moves
  <2>1. /\ UNCHANGED frozen /\ Owns(w)
        /\ \E s \in {"RETRYABLE"} \cup Terminal : Close(w, s)
    BY <1>5 DEF Retry, Terminal
  <2>2. QED
    BY <2>1, CloseMoves DEF Moves
<1>6. ASSUME NEW w \in Workers, List(w) PROVE Moves
  <2>1. /\ UNCHANGED job
        /\ \/ UNCHANGED frozen
           \/ Decides
    BY <1>6 DEF List, Decides, Siblings
  <2>2. QED
    BY <1>0, <2>1 DEF Moves, Status
<1>7. ASSUME NEW m \in Members, Expire(m) PROVE Moves
  <2>1. job' = [job EXCEPT ![m] = [job[m] EXCEPT !.lease = FALSE]]
    BY <1>7, Zenon DEF Expire
  <2>2. [job[m] EXCEPT !.lease = FALSE].status = job[m].status
    BY RowParts DEF Rows
  <2>3. QED
    BY <1>7, <2>1, <2>2, StatusKept DEF Expire, Moves
<1>8. ASSUME NEW w \in Workers,
             Validate(w) \/ Enqueue(w) \/ Compute(w) \/ Notify(w) \/ DispatchFails(w)
                \/ Crash(w) \/ Redeliver(w)
      PROVE  Moves
  BY <1>0, <1>8 DEF Validate, Enqueue, Compute, Notify, DispatchFails, Crash, Redeliver
<1>9. CASE NewProfile
  BY <1>0, <1>9 DEF NewProfile
<1>10. QED
  BY <1>1, <1>2, <1>3, <1>4, <1>5, <1>6, <1>7, <1>8, <1>9 DEF Next, Execute

-----------------------------------------------------------------------------
(***************************************************************************)
(* The recommendation works on the results of the family.  Until its       *)
(* inputs are frozen nobody holds it: it is staged, but no message, no     *)
(* worker and no list names it.  The invariant is inductive only with      *)
(* these three together, because a worker that targets it would enqueue a  *)
(* message that another would then claim.                                  *)
(***************************************************************************)
Others == Required \cup {"root"}

Quiet(r) == r.job # "recommendation" /\ r.target # "recommendation"
               /\ "recommendation" \notin r.pending

Untouched ==
    /\ queue["recommendation"] = 0
    /\ job["recommendation"].status \in {"NONE", "PENDING"}
    /\ \A w \in Workers : Quiet(worker[w])

RecInv ==
    /\ frozen = NotFrozen => Untouched
    /\ frozen # NotFrozen => frozen = Results /\ \A m \in Others : job[m].status \in Terminal

LEMMA ResultsDiffer == Results # NotFrozen
  BY DEF Results, NotFrozen, Required

LEMMA QuietPut ==
    ASSUME TypeOK, NEW w \in Workers, NEW r, Quiet(r), \A v \in Workers : Quiet(worker[v]),
           worker' = [worker EXCEPT ![w] = r]
    PROVE  \A v \in Workers : Quiet(worker'[v])
  BY DEF TypeOK

LEMMA QuietAcknowledge ==
    ASSUME TypeOK, NEW w \in Workers, \A v \in Workers : Quiet(worker[v]), Acknowledge(w)
    PROVE  \A v \in Workers : Quiet(worker'[v])
  BY QuietPut DEF Acknowledge, Idle, Quiet

LEMMA QuietGoes ==
    ASSUME TypeOK, NEW w \in Workers, NEW pc, \A v \in Workers : Quiet(worker[v]), Goes(w, pc)
    PROVE  \A v \in Workers : Quiet(worker'[v])
<1>1. worker' = [worker EXCEPT ![w] = [worker[w] EXCEPT !.pc = pc]]
  BY Zenon DEF Goes
<1>2. Quiet([worker[w] EXCEPT !.pc = pc])
  BY WorkerParts DEF Quiet, WorkerStates
<1>3. QED
  BY <1>1, <1>2, QuietPut

LEMMA QuietDispatched ==
    ASSUME TypeOK, NEW w \in Workers, \A v \in Workers : Quiet(worker[v]), Dispatched(w)
    PROVE  \A v \in Workers : Quiet(worker'[v])
<1>1. worker' = [worker EXCEPT ![w] = [worker[w] EXCEPT
                   !.pc = worker[w].then, !.target = "root", !.then = "plan"]]
  BY Zenon DEF Dispatched
<1>2. Quiet([worker[w] EXCEPT !.pc = worker[w].then, !.target = "root", !.then = "plan"])
  BY WorkerParts DEF Quiet, WorkerStates
<1>3. QED
  BY <1>1, <1>2, QuietPut

LEMMA QuietDispatch ==
    ASSUME TypeOK, NEW w \in Workers, Quiet(worker[w]), NEW t, t # "recommendation"
    PROVE  Quiet(Dispatch(w, t)) /\ Dispatch(w, t).pending = worker[w].pending
  BY WorkerParts DEF Quiet, WorkerStates, Dispatch

(* Executing a member does not touch the recommendation.                   *)
LEMMA ExecuteQuiet ==
    ASSUME TypeOK, Untouched, NEW w \in Workers, Execute(w), frozen' = NotFrozen
    PROVE  queue'["recommendation"] = 0 /\ \A v \in Workers : Quiet(worker'[v])
<1>a. /\ worker[w] \in WorkerStates /\ Quiet(worker[w]) /\ \A v \in Workers : Quiet(worker[v])
      /\ queue["recommendation"] = 0 /\ queue \in [Members -> Nat]
  BY WorkerParts DEF Untouched, TypeOK
<1>1. CASE Claim(w)
  <2>1. PICK m \in Members :
          /\ queue[m] > 0
          /\ queue' = [queue EXCEPT ![m] = @ - 1]
          /\ \/ UNCHANGED worker
             \/ \E pc \in Pcs : worker' = [worker EXCEPT ![w] = [Idle EXCEPT !.job = m,
                                     !.token = job[m].attempts + 1, !.pc = pc]]
    BY <1>1, Zenon DEF Claim, Pcs
  <2>2. m # "recommendation" /\ queue'["recommendation"] = 0
    <3>1. queue[m] > 0 /\ queue' = [queue EXCEPT ![m] = queue[m] - 1]
      BY <2>1, Zenon
    <3>2. QED
      BY <1>a, <3>1 DEF Members, Siblings
  <2>3. ASSUME NEW pc
        PROVE  Quiet([Idle EXCEPT !.job = m, !.token = job[m].attempts + 1, !.pc = pc])
    BY <2>2 DEF Quiet, Idle
  <2>4. QED
    BY <1>a, <2>1, <2>2, <2>3, QuietPut
<1>2. CASE Validate(w)
  <2>1. worker' = [worker EXCEPT ![w] = [worker[w] EXCEPT !.pc = "plan", !.todo = StagingOrder]]
          \/ Acknowledge(w) \/ Goes(w, "deliver")
    BY <1>2, Zenon DEF Validate
  <2>2. Quiet([worker[w] EXCEPT !.pc = "plan", !.todo = StagingOrder])
    BY <1>a DEF Quiet, WorkerStates
  <2>3. QED
    BY <1>2, <1>a, <2>1, <2>2, QuietPut, QuietAcknowledge, QuietGoes DEF Validate
<1>3. CASE Stage(w)
  <2>1. CASE Acknowledge(w)
    BY <1>3, <1>a, <2>1, QuietAcknowledge DEF Stage
  <2>2. ASSUME NEW row, AfterStaging(w, Head(worker[w].todo), row)
        PROVE  \A v \in Workers : Quiet(worker'[v])
    <3>1. PICK r : /\ r = worker[w] \/ (r = Dispatch(w, Head(worker[w].todo))
                                          /\ Head(worker[w].todo) # "recommendation")
                   /\ worker' = [worker EXCEPT ![w] = [r EXCEPT !.todo = Tail(@)]]
      BY <2>2 DEF AfterStaging
    <3>2. Quiet(r)
      BY <1>a, <3>1, QuietDispatch
    <3>3. r \in WorkerStates
      <4>1. Head(worker[w].todo) \in Members
        BY <1>3, WorkerParts, HeadTailProperties DEF Stage, Members
      <4>2. QED
        BY <1>3, <1>a, <3>1, <4>1, DispatchType DEF Stage
    <3>4. Quiet([r EXCEPT !.todo = Tail(@)])
      BY <3>2, <3>3 DEF Quiet, WorkerStates
    <3>5. QED
      BY <1>a, <3>1, <3>4, QuietPut
  <2>3. QED
    BY <1>3, <1>a, <2>1, <2>2 DEF Stage
<1>4. CASE Enqueue(w)
  BY <1>4, <1>a, QuietGoes DEF Enqueue, Quiet
<1>5. CASE Mark(w)
  BY <1>5, <1>a, QuietDispatched DEF Mark
<1>6. CASE Compute(w)
  BY <1>6, <1>a, QuietAcknowledge, QuietGoes DEF Compute
<1>7. CASE Finish(w)
  BY <1>7, <1>a, QuietAcknowledge, QuietGoes DEF Finish
<1>8. CASE List(w)
  <2>1. PICK ready :
           /\ frozen' = IF "recommendation" \in ready /\ frozen = NotFrozen THEN Results ELSE frozen
           /\ worker' = [worker EXCEPT ![w] = [worker[w] EXCEPT !.pc = "notify", !.pending = ready]]
    BY <1>8, Zenon DEF List
  <2>2. CASE "recommendation" \in ready
    <3>1. frozen = NotFrozen
      BY <2>1, <2>2, ResultsDiffer
    <3>2. QED
      BY <2>1, <2>2, <3>1, ResultsDiffer
  <2>3. CASE "recommendation" \notin ready
    <3>1. Quiet([worker[w] EXCEPT !.pc = "notify", !.pending = ready])
      BY <1>a, <2>3 DEF Quiet, WorkerStates
    <3>2. QED
      BY <1>8, <1>a, <2>1, <3>1, QuietPut DEF List
  <2>4. QED
    BY <2>2, <2>3
<1>9. CASE Notify(w)
  <2>1. CASE Acknowledge(w)
    BY <1>9, <1>a, <2>1, QuietAcknowledge DEF Notify
  <2>2. ASSUME NEW m \in worker[w].pending,
               worker' = [worker EXCEPT ![w] = [Dispatch(w, m) EXCEPT !.pending = @ \ {m}]]
        PROVE  \A v \in Workers : Quiet(worker'[v])
    <3>1. m # "recommendation" /\ m \in Members /\ worker[w].pc = "notify"
      BY <1>9, <1>a DEF Quiet, Notify, WorkerStates, Members
    <3>2. Dispatch(w, m) \in WorkerStates /\ Quiet(Dispatch(w, m))
      BY <1>a, <3>1, QuietDispatch, DispatchType
    <3>3. Quiet([Dispatch(w, m) EXCEPT !.pending = @ \ {m}])
      BY <3>2 DEF Quiet, WorkerStates
    <3>4. QED
      BY <1>a, <2>2, <3>3, QuietPut
  <2>3. QED
    BY <1>9, <1>a, <2>1, <2>2 DEF Notify
<1>10. QED
  BY <1>1, <1>2, <1>3, <1>4, <1>5, <1>6, <1>7, <1>8, <1>9 DEF Execute

(* Nor does a failure.                                                     *)
LEMMA FailureQuiet ==
    ASSUME TypeOK, Untouched,
           \/ \E w \in Workers : Retry(w) \/ DispatchFails(w) \/ Crash(w) \/ Redeliver(w)
           \/ \E m \in Members : Expire(m)
           \/ NewProfile
    PROVE  queue'["recommendation"] = 0 /\ \A v \in Workers : Quiet(worker'[v])
<1>a. /\ \A v \in Workers : Quiet(worker[v])
      /\ queue["recommendation"] = 0 /\ queue \in [Members -> Nat]
  BY DEF Untouched, TypeOK
<1>1. ASSUME NEW w \in Workers, Retry(w)
      PROVE  queue'["recommendation"] = 0 /\ \A v \in Workers : Quiet(worker'[v])
  <2>1. queue'["recommendation"] = 0
    BY <1>a, <1>1 DEF Retry, Quiet, Members, Siblings
  <2>2. QED
    BY <1>a, <1>1, <2>1, QuietAcknowledge, QuietGoes DEF Retry
<1>2. ASSUME NEW w \in Workers, DispatchFails(w)
      PROVE  queue'["recommendation"] = 0 /\ \A v \in Workers : Quiet(worker'[v])
  BY <1>a, <1>2, QuietDispatched DEF DispatchFails
<1>3. ASSUME NEW w \in Workers, Crash(w) \/ Redeliver(w)
      PROVE  queue'["recommendation"] = 0 /\ \A v \in Workers : Quiet(worker'[v])
  <2>1. queue'["recommendation"] = 0
    BY <1>a, <1>3 DEF Crash, Redeliver, Returned, Quiet, Members, Siblings
  <2>2. QED
    BY <1>a, <1>3, <2>1, QuietAcknowledge DEF Crash, Redeliver
<1>4. CASE (\E m \in Members : Expire(m)) \/ NewProfile
  BY <1>a, <1>4 DEF Expire, NewProfile
<1>5. QED
  BY <1>1, <1>2, <1>3, <1>4

(* The invariant follows the statuses, which move as StepMoves says.       *)
LEMMA StatusIs == TypeOK => \A m \in Members : Status[m] = job[m].status
  BY DEF Status

LEMMA OthersKept ==
    ASSUME TypeOK, TypeOK', Moves, \A m \in Others : job[m].status \in Terminal
    PROVE  /\ \A m \in Others : job'[m].status = job[m].status
           /\ Results' = Results
<1>1. \A m \in Members : Status[m] = job[m].status /\ Status'[m] = job'[m].status
  BY DEF Status
<1>2. \A m \in Others : Status'[m] = Status[m]
  BY <1>1 DEF Moves, Staged, Claimed, Closed, Terminal, Open, Others, Members, Siblings, Status
<1>3. \A m \in Others : job'[m].status = job[m].status
  BY <1>1, <1>2 DEF Others, Members, Siblings
<1>4. QED
  BY <1>3 DEF Results, Others

LEMMA RecommendationWaits ==
    ASSUME TypeOK, TypeOK', Moves, Untouched, frozen' = NotFrozen
    PROVE  job'["recommendation"].status \in {"NONE", "PENDING"}
<1>1. \A m \in Members : Status[m] = job[m].status /\ Status'[m] = job'[m].status
  BY DEF Status
<1>2. "recommendation" \in Members
  BY DEF Members, Siblings
<1>3. CASE Status' = Status
  BY <1>1, <1>2, <1>3 DEF Untouched
<1>4. CASE \E m \in Siblings : Staged(m)
  BY <1>1, <1>2, <1>4 DEF Untouched, Staged, Status
<1>5. CASE \E m \in Members : Claimed(m)
  <2>1. PICK m \in Members : queue[m] > 0 /\ Status' = [Status EXCEPT ![m] = "RUNNING"]
    BY <1>5 DEF Claimed
  <2>2. m # "recommendation"
    BY <2>1 DEF Untouched
  <2>3. QED
    BY <1>1, <1>2, <2>1, <2>2 DEF Untouched, Status
<1>6. CASE \E m \in Members, s \in {"RETRYABLE"} \cup Terminal : Closed(m, s)
  BY <1>1, <1>2, <1>6 DEF Untouched, Closed, Status
<1>7. QED
  BY <1>3, <1>4, <1>5, <1>6 DEF Moves

LEMMA NextRec == TypeOK /\ TypeOK' /\ RecInv /\ [Next]_vars => RecInv'
<1> SUFFICES ASSUME TypeOK, TypeOK', RecInv, [Next]_vars PROVE RecInv'
    OBVIOUS
<1>1. CASE UNCHANGED vars
  BY <1>1 DEF vars, RecInv, Untouched, Results, Quiet
<1>2. CASE Next
  <2>1. Moves
    BY <1>2, StepMoves
  <2>2. ASSUME frozen' = NotFrozen PROVE Untouched'
    <3>1. frozen = NotFrozen /\ Untouched
      BY <2>1, <2>2, ResultsDiffer DEF Moves, Decides, RecInv
    <3>2. queue'["recommendation"] = 0 /\ \A v \in Workers : Quiet(worker'[v])
      BY <1>2, <2>2, <3>1, ExecuteQuiet, FailureQuiet DEF Next
    <3>3. QED
      BY <2>1, <2>2, <3>1, <3>2, RecommendationWaits DEF Untouched, Quiet
  <2>3. ASSUME frozen' # NotFrozen
        PROVE  frozen' = Results' /\ \A m \in Others : job'[m].status \in Terminal
    <3>1. CASE frozen = NotFrozen
      <4>1. frozen' = Results /\ \A m \in Others : job[m].status \in Terminal
        BY <2>1, <2>3, <3>1 DEF Moves, Decides, FamilyEnded, Others
      <4>2. QED
        BY <2>1, <4>1, OthersKept
    <3>2. CASE frozen # NotFrozen
      <4>1. frozen' = frozen
        BY <2>1, <3>2 DEF Moves, Decides
      <4>2. QED
        BY <2>1, <3>2, <4>1, OthersKept DEF RecInv
    <3>3. QED
      BY <3>1, <3>2
  <2>4. QED
    BY <2>2, <2>3 DEF RecInv
<1>3. QED
  BY <1>1, <1>2

LEMMA InitRec == Init => RecInv
  BY DEF Init, RecInv, Untouched, Quiet, Idle, NoJob, NotFrozen, Members, Siblings

THEOREM RecommendationUntouched == Spec => []RecInv
  BY InitRec, NextRec, TypeCorrect, PTL DEF Spec

(* The recommendation is not dispatched before its inputs are frozen, and  *)
(* they are the results of a family that has ended.                        *)
THEOREM RecommendationIsLast == Spec => []RecommendationSeesFamily
<1>1. RecInv => RecommendationSeesFamily
  BY DEF RecInv, RecommendationSeesFamily, Untouched, Quiet, Others, Members, Siblings
<1>2. QED
  BY <1>1, RecommendationUntouched, PTL

-----------------------------------------------------------------------------
(***************************************************************************)
(* The family implements its lifecycle.                                    *)
(***************************************************************************)
LEMMA FamilyInit == Init => Family!Init
<1> SUFFICES ASSUME Init PROVE Family!Init
    OBVIOUS
<1>1. Family!Others \cup Family!Siblings = Members
  BY DEF Family!Others, Family!Siblings, Members, Siblings, Required
<1>2. Status = [m \in Members |-> IF m = "root" THEN "PENDING" ELSE "NONE"]
  BY DEF Init, Status, NoJob
<1>3. QED
  BY <1>1, <1>2 DEF Init, Family!Init, Family!Undecided, NotFrozen, Status

LEMMA FamilyStep ==
    TypeOK /\ RecInv /\ [Next]_vars => [Family!Next]_<<Status, frozen>>
<1> SUFFICES ASSUME TypeOK, RecInv, [Next]_vars
             PROVE  Family!Next \/ UNCHANGED <<Status, frozen>>
    OBVIOUS
<1>a. /\ Family!Others = Others /\ Family!Siblings = Siblings
      /\ Family!Others \cup Family!Siblings = Members
      /\ Family!Ended = Terminal /\ Family!Undecided = NotFrozen
  BY DEF Family!Others, Family!Siblings, Family!Ended, Family!Undecided,
         Others, Siblings, Required, Members, Terminal, NotFrozen
<1>b. \A m \in Members : Status[m] = job[m].status
  BY StatusIs
<1>1. CASE UNCHANGED vars
  BY <1>1 DEF vars, Status
<1>2. CASE Next
  <2>1. Moves
    BY <1>2, StepMoves
  <2>2. ASSUME NEW m \in Siblings, Staged(m), UNCHANGED frozen
        PROVE  Family!Stage(m)
    BY <1>b, <2>2 DEF Staged, Family!Stage, Family!Becomes, Status, Members
  <2>3. ASSUME NEW m \in Members, Claimed(m), UNCHANGED frozen
        PROVE  Family!Start(m) \/ UNCHANGED <<Status, frozen>>
    <3>1. CASE job[m].status = "RUNNING"
      BY <1>b, <2>3, <3>1 DEF Claimed, Status
    <3>2. CASE job[m].status \in {"PENDING", "RETRYABLE"}
      <4>1. m = "recommendation" => frozen # NotFrozen
        BY <2>3 DEF Claimed, RecInv, Untouched
      <4>2. QED
        BY <1>a, <1>b, <2>3, <3>2, <4>1 DEF Claimed, Family!Start, Family!Becomes, Status
    <3>3. QED
      BY <2>3, <3>1, <3>2 DEF Claimed, Open
  <2>4. ASSUME NEW m \in Members, NEW s, Closed(m, s), UNCHANGED frozen
        PROVE  Family!GiveUp(m) \/ Family!End(m)
    BY <1>a, <1>b, <2>4 DEF Closed, Family!GiveUp, Family!End, Family!Becomes, Status
  <2>5. ASSUME Decides, Status' = Status
        PROVE  Family!Freeze
    <3>1. job["recommendation"].status = "PENDING"
      BY <2>5 DEF Decides, RecInv, Untouched
    <3>2. frozen' = {m \in Others : Status[m] = "SUCCEEDED"}
      BY <1>b, <2>5 DEF Decides, Results, Others, Members, Siblings
    <3>3. \A m \in Others : Status[m] \in Terminal
      BY <1>b, <2>5 DEF Decides, FamilyEnded, Others, Members, Siblings
    <3>4. frozen = NotFrozen /\ Status["recommendation"] = "PENDING"
      BY <1>b, <2>5, <3>1 DEF Decides, Members, Siblings
    <3>5. QED
      BY <1>a, <2>5, <3>2, <3>3, <3>4 DEF Family!Freeze, Status
  <2>6. QED
    BY <1>a, <2>1, <2>2, <2>3, <2>4, <2>5 DEF Moves, Family!Next
<1>3. QED
  BY <1>1, <1>2

(* The jobs of one file implement FeishuFamilyLifecycle, for every number  *)
(* of workers, attempts, faults and lapses.                                *)
THEOREM FamilyImplementsLifecycle == Spec => FamilyLifecycle
<1>1. Init => Family!Init
  BY FamilyInit
<1>2. TypeOK /\ RecInv /\ [Next]_vars => [Family!Next]_<<[m \in Members |-> job[m].status], frozen>>
  BY FamilyStep DEF Status
<1>3. QED
  BY <1>1, <1>2, TypeCorrect, RecommendationUntouched, PTL
     DEF Spec, FamilyLifecycle, Family!Spec

-----------------------------------------------------------------------------
(***************************************************************************)
(* Someone is responsible for each member, as long as the code has not     *)
(* lapsed.                                                                 *)
(***************************************************************************)
IsOpen(m) == job[m].status \in Open
Waits(m) == job[m].status = "PENDING"

(* A worker executes its member until it ends it, also while it dispatches *)
(* what it plans; afterwards it informs the members that have no task.     *)
Dispatching(w) == worker[w].pc \in {"enqueue", "mark"}
Holding(w) ==
    \/ worker[w].pc \in {"validate", "plan", "deliver"}
    \/ Dispatching(w) /\ worker[w].then = "plan"
Informs(w) ==
    \/ worker[w].pc \in {"list", "notify"}
    \/ Dispatching(w) /\ worker[w].then = "notify"

(* What the planner has still to stage: the others are staged.             *)
Planned(w) ==
    LET todo == worker[w].todo IN
    /\ worker[w].job = "root"
    /\ todo \in {StagingOrder, <<"scenario", "recommendation">>, <<"recommendation">>, <<>>}
    /\ todo # StagingOrder => job["soh"].status # "NONE"
    /\ todo \in {<<"recommendation">>, <<>>} => job["scenario"].status # "NONE"

(* A worker owns its member until it ends it, and dispatches only siblings *)
(* that are staged.                                                        *)
Claims(w) ==
    /\ Holding(w) => Owns(w)
    /\ worker[w].pc = "validate" => worker[w].job = "root"
    /\ worker[w].pc = "plan" \/ (Dispatching(w) /\ worker[w].then = "plan") => Planned(w)
    /\ Informs(w) => job[worker[w].job].status \in Terminal
    /\ \A m \in Members :
          m \in worker[w].pending \/ (Dispatching(w) /\ worker[w].target = m) =>
             m # "root" /\ job[m].status # "NONE"

Alone ==
    \A v, w \in Workers :
       Holding(v) /\ Holding(w) /\ worker[v].job = worker[w].job => v = w

(* No sibling is in conflict with the reviewed profiles, and the           *)
(* recommendation is staged last.                                          *)
Staging ==
    /\ reviewed = 0 /\ \A m \in Members : job[m].profile = 0
    /\ job["root"].status # "NONE"
    /\ job["recommendation"].status # "NONE" => \A m \in Required : job[m].status # "NONE"

(* A running member has its worker or the message of a dead one.           *)
Attended(m) ==
    /\ job[m].status = "RUNNING" =>
          queue[m] > 0 \/ \E w \in Workers : Holding(w) /\ worker[w].job = m
    /\ job[m].status = "RETRYABLE" => queue[m] > 0

(* A member that nobody has claimed has its message from the moment that a *)
(* worker has enqueued it.                                                 *)
Sent(m) ==
    Waits(m) =>
       /\ m = "root" \/ job[m].task => queue[m] > 0
       /\ \A w \in Workers : worker[w].pc = "mark" /\ worker[w].target = m => queue[m] > 0

Looks(w, m) ==
    \/ worker[w].pc = "list"
    \/ Informs(w) /\ (m \in worker[w].pending \/ (Dispatching(w) /\ worker[w].target = m))

(* Without a message, a sibling is found when the root ends, and the       *)
(* recommendation when the last of the others does.                        *)
Found(m) ==
    m # "root" /\ Waits(m) =>
       \/ queue[m] > 0
       \/ IsOpen("root") \/ (m = "recommendation" /\ \E n \in Required : IsOpen(n))
       \/ \E w \in Workers : Looks(w, m)

CalmInv ==
    /\ Staging /\ Alone
    /\ \A w \in Workers : Claims(w)
    /\ \A m \in Members : Attended(m) /\ Sent(m) /\ Found(m)

(* A step that writes no row: the worker keeps its claim or leaves a       *)
(* message, and keeps looking for whom it looked.                          *)
Keeps(w) ==
    /\ Holding(w) =>
          \/ Holding(w)' /\ worker'[w].job = worker[w].job
          \/ queue'[worker[w].job] > 0
    /\ Holding(w)' => Holding(w) /\ worker'[w].job = worker[w].job
    /\ worker'[w].pc = "mark" =>
          \/ worker[w].pc = "mark" /\ worker'[w].target = worker[w].target
          \/ queue'[worker'[w].target] > 0
    /\ \A m \in Members :
          m # "root" /\ Waits(m) /\ Looks(w, m) =>
             \/ Looks(w, m)' \/ queue'[m] > 0
             \/ IsOpen("root") \/ (m = "recommendation" /\ \E n \in Required : IsOpen(n))

LEMMA Steady ==
    ASSUME TypeOK, TypeOK', CalmInv, NEW w \in Workers, UNCHANGED <<job, reviewed>>,
           \A v \in Workers : v # w => worker'[v] = worker[v],
           \A m \in Members : queue'[m] >= queue[m],
           Claims(w)', Keeps(w)
    PROVE  CalmInv'
<1>1. \A m \in Members : queue[m] \in Nat /\ queue'[m] \in Nat
  BY DEF TypeOK
<1>2. Staging'
  BY DEF CalmInv, Staging
<1>3. Alone'
  BY DEF CalmInv, Alone, Keeps, Holding, Dispatching
<1>4. \A v \in Workers : Claims(v)'
  BY DEF CalmInv, Claims, Holding, Informs, Dispatching, Planned, Owns
<1>5. ASSUME NEW m \in Members PROVE Attended(m)' /\ Sent(m)' /\ Found(m)'
  <2>1. Attended(m)'
    BY <1>1 DEF CalmInv, Attended, Keeps, Holding, Dispatching
  <2>2. Sent(m)'
    BY <1>1 DEF CalmInv, Sent, Keeps, Waits
  <2>3. Found(m)'
    BY <1>1 DEF CalmInv, Found, Keeps, Looks, Waits, IsOpen, Informs, Dispatching
  <2>4. QED
    BY <2>1, <2>2, <2>3
<1>6. QED
  BY <1>2, <1>3, <1>4, <1>5 DEF CalmInv

(* Calm steps of a worker: no row is written.                              *)
LEMMA MineOwned ==
    ASSUME TypeOK, CalmInv, NEW w \in Workers
    PROVE  /\ Claims(w) /\ worker[w] \in WorkerStates /\ worker[w].job \in Members
           /\ Holding(w) => Owns(w) /\ job[worker[w].job].status = "RUNNING"
           /\ \A m \in Members : queue[m] \in Nat
  BY DEF TypeOK, CalmInv, Claims, Owns, WorkerStates

LEMMA ValidateCalm ==
    ASSUME TypeOK, TypeOK', CalmInv, NEW w \in Workers, Validate(w)
    PROVE  CalmInv'
<1>1. Owns(w) /\ worker[w].job = "root" /\ worker[w] \in WorkerStates /\ Claims(w)
  BY MineOwned DEF Validate, Claims, Holding
<1>2. UNCHANGED <<job, queue, reviewed>>
  BY DEF Validate
<1>3. CASE worker' = [worker EXCEPT ![w] = [@ EXCEPT !.pc = "plan", !.todo = StagingOrder]]
  <2>1. /\ worker'[w].pc = "plan" /\ worker'[w].job = "root" /\ worker'[w].todo = StagingOrder
        /\ worker'[w].token = worker[w].token /\ worker'[w].pending = worker[w].pending
        /\ \A v \in Workers : v # w => worker'[v] = worker[v]
    BY <1>1, <1>3 DEF TypeOK, WorkerStates
  <2>2. Claims(w)' /\ Keeps(w)
    BY <1>1, <1>2, <2>1 DEF Claims, Holding, Dispatching, Informs, Planned, Owns, Keeps, Looks,
        StagingOrder, Validate
  <2>3. QED
    BY <1>2, <2>1, <2>2, Steady, MineOwned
<1>4. CASE Goes(w, "deliver")
  <2>1. /\ worker'[w].pc = "deliver" /\ worker'[w].job = "root"
        /\ worker'[w].token = worker[w].token /\ worker'[w].pending = worker[w].pending
        /\ \A v \in Workers : v # w => worker'[v] = worker[v]
    BY <1>1, <1>4 DEF TypeOK, WorkerStates, Goes
  <2>2. Claims(w)' /\ Keeps(w)
    BY <1>1, <1>2, <2>1 DEF Claims, Holding, Dispatching, Informs, Owns, Keeps, Looks, Validate
  <2>3. QED
    BY <1>2, <2>1, <2>2, Steady, MineOwned
<1>5. QED
  BY <1>1, <1>3, <1>4 DEF Validate

LEMMA ComputeCalm ==
    ASSUME TypeOK, TypeOK', CalmInv, NEW w \in Workers, Compute(w)
    PROVE  CalmInv'
<1>1. Owns(w) /\ worker[w] \in WorkerStates /\ Claims(w)
  BY MineOwned DEF Compute, Claims, Holding
<1>2. UNCHANGED <<job, queue, reviewed>> /\ Goes(w, "deliver")
  BY <1>1 DEF Compute
<1>3. /\ worker'[w].pc = "deliver" /\ worker'[w].job = worker[w].job
      /\ worker'[w].token = worker[w].token /\ worker'[w].pending = worker[w].pending
      /\ \A v \in Workers : v # w => worker'[v] = worker[v]
  BY <1>1, <1>2 DEF TypeOK, WorkerStates, Goes
<1>4. Claims(w)' /\ Keeps(w)
  BY <1>1, <1>2, <1>3 DEF Claims, Holding, Dispatching, Informs, Owns, Keeps, Looks, Compute
<1>5. QED
  BY <1>2, <1>3, <1>4, Steady, MineOwned

LEMMA EnqueueCalm ==
    ASSUME TypeOK, TypeOK', CalmInv, NEW w \in Workers, Enqueue(w)
    PROVE  CalmInv'
<1>1. worker[w] \in WorkerStates /\ worker[w].target \in Members /\ Claims(w)
  BY MineOwned, WorkerParts
<1>2. /\ UNCHANGED <<job, reviewed>> /\ Goes(w, "mark")
      /\ queue' = [queue EXCEPT ![worker[w].target] = @ + 1] /\ worker[w].pc = "enqueue"
  BY DEF Enqueue
<1>3. /\ queue'[worker[w].target] > 0 /\ \A m \in Members : queue'[m] >= queue[m]
  BY <1>1, <1>2, MineOwned DEF TypeOK
<1>4. /\ worker'[w] = [worker[w] EXCEPT !.pc = "mark"]
      /\ \A v \in Workers : v # w => worker'[v] = worker[v]
  BY <1>1, <1>2 DEF TypeOK, Goes
<1>5. /\ worker'[w].pc = "mark" /\ worker'[w].job = worker[w].job
      /\ worker'[w].token = worker[w].token /\ worker'[w].target = worker[w].target
      /\ worker'[w].then = worker[w].then /\ worker'[w].pending = worker[w].pending
      /\ worker'[w].todo = worker[w].todo
  BY <1>1, <1>4 DEF WorkerStates
<1>6. Claims(w)'
  BY <1>1, <1>2, <1>5 DEF Claims, Holding, Dispatching, Informs, Owns, Planned
<1>7. Keeps(w)
  BY <1>1, <1>2, <1>3, <1>5 DEF Holding, Dispatching, Informs, Keeps, Looks
<1>8. QED
  BY <1>2, <1>3, <1>4, <1>6, <1>7, Steady

LEMMA RedeliverCalm ==
    ASSUME TypeOK, TypeOK', CalmInv, NEW w \in Workers, Redeliver(w)
    PROVE  CalmInv'
<1>1. UNCHANGED <<job, worker, reviewed>> /\ \A m \in Members : queue'[m] >= queue[m]
  BY MineOwned DEF Redeliver, Returned, TypeOK
<1>2. Claims(w)' /\ Keeps(w)
  BY <1>1, MineOwned DEF Claims, Holding, Dispatching, Informs, Owns, Planned, Keeps, Looks
<1>3. QED
  BY <1>1, <1>2, Steady

LEMMA CrashCalm ==
    ASSUME TypeOK, TypeOK', CalmInv, NEW w \in Workers, Crash(w), UNCHANGED lapses
    PROVE  CalmInv'
<1>1. /\ job[worker[w].job].status \notin Terminal /\ worker[w].job \in Members
      /\ Claims(w)
  BY MineOwned DEF Crash, Lapse, TypeOK
<1>2. /\ UNCHANGED <<job, reviewed>> /\ worker'[w] = Idle
      /\ queue' = [queue EXCEPT ![worker[w].job] = @ + 1]
      /\ \A v \in Workers : v # w => worker'[v] = worker[v]
  BY DEF Crash, Returned, Acknowledge, TypeOK
<1>3. queue'[worker[w].job] > 0 /\ \A m \in Members : queue'[m] >= queue[m]
  BY <1>1, <1>2, MineOwned DEF TypeOK
<1>4. Claims(w)'
  BY <1>2 DEF Claims, Holding, Dispatching, Informs, Idle
<1>5. Keeps(w)
  BY <1>1, <1>2, <1>3 DEF Keeps, Claims, Holding, Dispatching, Informs, Looks, Idle
<1>6. QED
  BY <1>2, <1>3, <1>4, <1>5, Steady

LEMMA DispatchedParts ==
    ASSUME TypeOK, NEW w \in Workers, Dispatched(w)
    PROVE  /\ worker'[w].pc = worker[w].then /\ worker'[w].job = worker[w].job
           /\ worker'[w].token = worker[w].token /\ worker'[w].todo = worker[w].todo
           /\ worker'[w].pending = worker[w].pending
           /\ \A v \in Workers : v # w => worker'[v] = worker[v]
<1>1. worker[w] \in WorkerStates
  BY DEF TypeOK
<1>2. /\ worker'[w] = [worker[w] EXCEPT !.pc = worker[w].then, !.target = "root",
                                        !.then = "plan"]
      /\ \A v \in Workers : v # w => worker'[v] = worker[v]
  BY DEF TypeOK, Dispatched
<1>3. QED
  BY <1>1, <1>2 DEF WorkerStates

LEMMA DispatchFailsCalm ==
    ASSUME TypeOK, TypeOK', CalmInv, NEW w \in Workers, DispatchFails(w), UNCHANGED lapses
    PROVE  CalmInv'
<1>1. worker[w].then = "plan" /\ Dispatching(w) /\ Claims(w) /\ worker[w].job = "root"
  BY MineOwned DEF DispatchFails, Lapse, TypeOK, Dispatching, Claims, Planned
<1>2. UNCHANGED <<job, queue, reviewed>> /\ Dispatched(w)
  BY DEF DispatchFails
<1>3. Claims(w)'
  BY <1>1, <1>2, DispatchedParts DEF Claims, Holding, Dispatching, Informs, Owns, Planned
<1>4. Keeps(w)
  BY <1>1, <1>2, DispatchedParts DEF Keeps, Holding, Dispatching, Informs, Looks
<1>5. QED
  BY <1>2, <1>3, <1>4, Steady, DispatchedParts, MineOwned

LEMMA NotifyCalm ==
    ASSUME TypeOK, TypeOK', CalmInv, NEW w \in Workers, Notify(w)
    PROVE  CalmInv'
<1>1. /\ worker[w].pc = "notify" /\ Claims(w) /\ worker[w] \in WorkerStates
      /\ job[worker[w].job].status \in Terminal /\ worker[w].pending \in SUBSET Siblings
  BY MineOwned, WorkerParts DEF Notify, Claims, Informs
<1>2. UNCHANGED <<job, queue, reviewed>>
  BY DEF Notify
<1>3. CASE worker[w].pending = {} /\ Acknowledge(w)
  <2>1. worker'[w] = Idle /\ \A v \in Workers : v # w => worker'[v] = worker[v]
    BY <1>3 DEF Acknowledge, TypeOK
  <2>2. Claims(w)' /\ Keeps(w)
    BY <1>1, <1>2, <1>3, <2>1
    DEF Claims, Holding, Dispatching, Informs, Keeps, Looks, Idle
  <2>3. QED
    BY <1>2, <2>1, <2>2, Steady, MineOwned
<1>4. ASSUME NEW m \in worker[w].pending,
             worker' = [worker EXCEPT ![w] = [Dispatch(w, m) EXCEPT !.pending = @ \ {m}]]
      PROVE  CalmInv'
  <2>1. /\ worker'[w] = [Dispatch(w, m) EXCEPT !.pending = @ \ {m}]
        /\ \A v \in Workers : v # w => worker'[v] = worker[v]
    BY <1>4 DEF TypeOK
  <2>2. /\ worker'[w].pc = "enqueue" /\ worker'[w].then = "notify" /\ worker'[w].target = m
        /\ worker'[w].job = worker[w].job /\ worker'[w].pending = worker[w].pending \ {m}
    BY <1>1, <2>1 DEF Dispatch, WorkerStates
  <2>3. m # "root"
    BY <1>1 DEF Siblings, Required
  <2>4. Claims(w)' /\ Keeps(w)
    BY <1>1, <1>2, <2>2, <2>3 DEF Claims, Holding, Dispatching, Informs, Keeps, Looks
  <2>5. QED
    BY <1>2, <2>1, <2>4, Steady, MineOwned
<1>5. QED
  BY <1>3, <1>4 DEF Notify

LEMMA ListCalm ==
    ASSUME TypeOK, TypeOK', CalmInv, NEW w \in Workers, List(w)
    PROVE  CalmInv'
<1> DEFINE waiting == {m \in Siblings : job[m].status \in {"PENDING", "RETRYABLE"}
                                        /\ ~job[m].task}
           ready == {m \in waiting : m = "recommendation" => FamilyEnded}
<1>1. worker[w].pc = "list" /\ worker[w] \in WorkerStates /\ UNCHANGED <<job, queue, reviewed>>
  BY MineOwned DEF List
<1>2. /\ worker'[w] = [worker[w] EXCEPT !.pc = "notify", !.pending = ready]
      /\ \A v \in Workers : v # w => worker'[v] = worker[v]
  BY Zenon DEF List, TypeOK
<1>3. /\ worker'[w].pc = "notify" /\ worker'[w].pending = ready
      /\ worker'[w].job = worker[w].job
  BY <1>1, <1>2 DEF WorkerStates
<1>4. Claims(w)'
  BY <1>1, <1>3, MineOwned DEF Claims, Holding, Dispatching, Informs, Siblings, Required
<1>5. ASSUME NEW m \in Members, m # "root", Waits(m)
      PROVE  \/ Looks(w, m)' \/ queue'[m] > 0
             \/ IsOpen("root") \/ (m = "recommendation" /\ \E n \in Required : IsOpen(n))
  <2>1. Sent(m) /\ m \in Siblings /\ Staging
    BY <1>5 DEF CalmInv, Members
  <2>2. CASE m \in ready
    BY <1>3, <2>2 DEF Looks, Informs
  <2>3. CASE job[m].task
    BY <1>1, <1>5, <2>1, <2>3 DEF Sent
  <2>4. CASE m = "recommendation" /\ ~FamilyEnded
    <3>1. PICK n \in Required \cup {"root"} : job[n].status \notin Terminal
      BY <2>4 DEF FamilyEnded
    <3>2. job[n].status # "NONE" /\ job[n].status \in Statuses
      BY <2>1, <2>4, <1>5, <3>1 DEF Staging, Waits, TypeOK, Rows, Members, Siblings
    <3>3. IsOpen(n)
      BY <3>1, <3>2 DEF Statuses, IsOpen
    <3>4. QED
      BY <2>4, <3>3, <3>1
  <2>5. QED
    BY <1>5, <2>1, <2>2, <2>3, <2>4 DEF Waits
<1>6. Keeps(w)
  BY <1>1, <1>3, <1>5 DEF Keeps, Holding, Dispatching
<1>7. QED
  BY <1>1, <1>2, <1>4, <1>6, Steady, MineOwned

(* A message of an ended member is acknowledged.                           *)
LEMMA ClaimEndedCalm ==
    ASSUME TypeOK, TypeOK', CalmInv, NEW m \in Members, job[m].status \in Terminal,
           UNCHANGED <<job, worker, reviewed>>, queue' = [queue EXCEPT ![m] = @ - 1]
    PROVE  CalmInv'
<1>1. Staging' /\ Alone' /\ \A w \in Workers : Claims(w)'
  BY DEF CalmInv, Staging, Alone, Claims, Holding, Informs, Dispatching, Planned, Owns
<1>2. ASSUME NEW n \in Members PROVE Attended(n)' /\ Sent(n)' /\ Found(n)'
  <2>1. CASE n = m
    BY <2>1 DEF Attended, Sent, Found, Waits, Terminal
  <2>2. CASE n # m
    <3>1. queue'[n] = queue[n]
      BY <2>2 DEF TypeOK
    <3>2. QED
      BY <3>1 DEF CalmInv, Attended, Sent, Found, Waits, Looks, IsOpen, Informs, Holding,
          Dispatching
  <2>3. QED
    BY <2>1, <2>2
<1>3. QED
  BY <1>1, <1>2 DEF CalmInv

(* A step that writes the row of the member that the worker takes or ends. *)
LEMMA Written ==
    ASSUME TypeOK, TypeOK', CalmInv, NEW w \in Workers, NEW m \in Members,
           UNCHANGED reviewed, IsOpen(m), ~Informs(w), Holding(w) => worker[w].job = m,
           \A v \in Workers : v # w => worker'[v] = worker[v] /\ ~(Holding(v) /\ worker[v].job = m),
           \A n \in Members : n # m => job'[n] = job[n] /\ queue'[n] = queue[n],
           job'[m].status \notin {"NONE", "PENDING"}, job'[m].profile = job[m].profile,
           Claims(w)', Attended(m)', Holding(w)' => worker'[w].job = m, worker'[w].pc # "mark",
           IsOpen(m)' \/ worker'[w].pc = "list"
    PROVE  CalmInv'
<1>1. \A n \in Members : queue[n] \in Nat /\ queue'[n] \in Nat
  BY DEF TypeOK
<1>2. Staging'
  <2>1. \A n \in Members : job[n].status # "NONE" => job'[n].status # "NONE"
    OBVIOUS
  <2>2. job["recommendation"].status = "NONE" => job'["recommendation"].status = "NONE"
    BY DEF IsOpen, Open, Members, Siblings
  <2>3. QED
    BY <2>1, <2>2 DEF CalmInv, Staging, Members, Siblings
<1>3. Alone'
  BY DEF CalmInv, Alone, Holding, Dispatching
<1>4. \A v \in Workers : Claims(v)'
  <2> SUFFICES ASSUME NEW v \in Workers, v # w PROVE Claims(v)'
      OBVIOUS
  <2>1. worker'[v] = worker[v] /\ worker[v].job \in Members /\ Claims(v)
    BY MineOwned
  <2>2. Holding(v) \/ Informs(v) => job'[worker[v].job] = job[worker[v].job]
    BY <2>1 DEF Claims, IsOpen, Open, Terminal
  <2>3. \A n \in Members : job[n].status # "NONE" => job'[n].status # "NONE"
    OBVIOUS
  <2>4. QED
    BY <2>1, <2>2, <2>3
    DEF Claims, Holding, Informs, Dispatching, Planned, Owns, Members, Siblings, Required
<1>5. ASSUME NEW n \in Members, n # m PROVE Attended(n)' /\ Sent(n)' /\ Found(n)'
  <2>1. job'[n] = job[n] /\ queue'[n] = queue[n]
    BY <1>5
  <2>2. Attended(n)'
    BY <1>5, <2>1 DEF CalmInv, Attended, Holding, Dispatching
  <2>3. Sent(n)'
    BY <2>1 DEF CalmInv, Sent, Waits
  <2>4. Found(n)'
    <3>1. Looks(w, n) => FALSE
      BY DEF Looks, Informs
    <3>2. \A v \in Workers : Looks(v, n) => Looks(v, n)'
      BY <3>1 DEF Looks, Informs, Dispatching
    <3>3. \A o \in Members : IsOpen(o) => IsOpen(o)' \/ Looks(w, n)'
      BY DEF Looks, IsOpen
    <3>4. "root" \in Members /\ Required \subseteq Members
      BY DEF Members, Siblings
    <3>5. QED
      BY <2>1, <3>2, <3>3, <3>4 DEF CalmInv, Found, Waits
  <2>5. QED
    BY <2>2, <2>3, <2>4
<1>6. Sent(m)' /\ Found(m)'
  BY DEF Sent, Found, Waits
<1>7. QED
  BY <1>2, <1>3, <1>4, <1>5, <1>6 DEF CalmInv

LEMMA ClaimCalm ==
    ASSUME TypeOK, TypeOK', CalmInv, NEW w \in Workers, Claim(w)
    PROVE  CalmInv'
<1>1. PICK m \in Members :
         /\ queue[m] > 0 /\ ~(job[m].status = "RUNNING" /\ job[m].lease)
         /\ queue' = [queue EXCEPT ![m] = @ - 1]
         /\ \/ job[m].status \in Terminal /\ UNCHANGED <<job, worker>>
            \/ /\ job[m].status \in Open
               /\ job' = [job EXCEPT ![m] = [@ EXCEPT !.status = "RUNNING",
                     !.attempts = job[m].attempts + 1, !.lease = TRUE]]
               /\ worker' = [worker EXCEPT ![w] = [Idle EXCEPT !.job = m,
                     !.token = job[m].attempts + 1,
                     !.pc = IF m = "root" /\ ~computed THEN "validate" ELSE "deliver"]]
  BY DEF Claim
<1>2. worker[w].pc = "idle" /\ UNCHANGED reviewed /\ job[m] \in Rows
  BY RowParts DEF Claim
<1>3. CASE job[m].status \in Terminal
  BY <1>1, <1>2, <1>3, ClaimEndedCalm DEF Terminal, Open
<1>4. CASE job[m].status \in Open
  <2>1. /\ job' = [job EXCEPT ![m] = [@ EXCEPT !.status = "RUNNING",
              !.attempts = job[m].attempts + 1, !.lease = TRUE]]
        /\ worker' = [worker EXCEPT ![w] = [Idle EXCEPT !.job = m,
              !.token = job[m].attempts + 1,
              !.pc = IF m = "root" /\ ~computed THEN "validate" ELSE "deliver"]]
    BY <1>1, <1>4 DEF Terminal, Open
  <2>2. /\ job'[m].status = "RUNNING" /\ job'[m].attempts = job[m].attempts + 1
        /\ job'[m].lease /\ job'[m].profile = job[m].profile
        /\ \A n \in Members : n # m => job'[n] = job[n] /\ queue'[n] = queue[n]
    BY <1>1, <1>2, <2>1 DEF TypeOK, Rows
  <2>3. /\ worker'[w].pc = (IF m = "root" /\ ~computed THEN "validate" ELSE "deliver")
        /\ worker'[w].job = m /\ worker'[w].token = job[m].attempts + 1
        /\ worker'[w].pending = {}
        /\ \A v \in Workers : v # w => worker'[v] = worker[v]
    BY <2>1 DEF TypeOK, Idle
  <2>4. Claims(w)' /\ Attended(m)'
    BY <2>2, <2>3 DEF Claims, Attended, Holding, Dispatching, Informs, Owns
  <2>5. \A v \in Workers : ~(Holding(v) /\ worker[v].job = m)
    BY <1>1, MineOwned DEF Owns
  <2>6. IsOpen(m) /\ IsOpen(m)' /\ ~Informs(w) /\ ~Holding(w)
    BY <1>2, <1>4, <2>2 DEF IsOpen, Open, Informs, Holding, Dispatching
  <2>7. job'[m].status \notin {"NONE", "PENDING"} /\ worker'[w].pc # "mark"
    BY <2>2, <2>3
  <2>8. QED
    BY <1>2, <2>2, <2>3, <2>4, <2>5, <2>6, <2>7, Written
<1>5. QED
  BY <1>1, <1>3, <1>4

(* The end of a member, or of an attempt.                                  *)
LEMMA CloseCalm ==
    ASSUME TypeOK, TypeOK', CalmInv, NEW w \in Workers, UNCHANGED reviewed,
           worker[w].pc \in {"validate", "plan", "deliver"},
           NEW s \in {"RETRYABLE", "SUCCEEDED", "FAILED"}, Close(w, s),
           \/ s = "RETRYABLE" /\ Returned(w) /\ Acknowledge(w)
           \/ s # "RETRYABLE" /\ UNCHANGED queue /\ Goes(w, "list")
    PROVE  CalmInv'
<1>0. PICK m \in Members : m = worker[w].job
  BY MineOwned
<1>1. /\ Owns(w) /\ Claims(w) /\ m \in Members /\ IsOpen(m) /\ Holding(w) /\ ~Informs(w)
      /\ worker[w] \in WorkerStates
  BY <1>0, MineOwned DEF IsOpen, Open, Owns, Holding, Informs, Dispatching
<1>2. /\ job'[m].status = s /\ job'[m].profile = job[m].profile
      /\ \A n \in Members : n # m => job'[n] = job[n] /\ queue'[n] = queue[n]
      /\ s = "RETRYABLE" => queue'[m] > 0
  BY <1>0, <1>1, MineOwned DEF Close, Returned, TypeOK, Rows
<1>3. \A v \in Workers : v # w => worker'[v] = worker[v] /\ ~(Holding(v) /\ worker[v].job = m)
  BY <1>0, <1>1 DEF CalmInv, Alone, Acknowledge, Goes, TypeOK
<1>4. Attended(m)'
  BY <1>2 DEF Attended
<1>5. CASE s = "RETRYABLE"
  <2>1. worker'[w] = Idle
    BY <1>5 DEF Acknowledge, TypeOK
  <2>2. /\ Claims(w)' /\ ~Holding(w)' /\ worker'[w].pc # "mark"
        /\ IsOpen(m)' /\ job'[m].status \notin {"NONE", "PENDING"}
    BY <1>2, <1>5, <2>1 DEF Claims, Holding, Dispatching, Informs, Idle, IsOpen, Open
  <2>3. QED
    BY <1>0, <1>1, <1>2, <1>3, <1>4, <2>2, Written
<1>6. CASE s # "RETRYABLE"
  <2>1. worker'[w].pc = "list" /\ worker'[w].job = m /\ worker'[w].pending = worker[w].pending
    BY <1>0, <1>1, <1>6 DEF Goes, TypeOK, WorkerStates
  <2>2. \A n \in Members : job[n].status # "NONE" => job'[n].status # "NONE"
    BY <1>2
  <2>3. Claims(w)'
    BY <1>0, <1>1, <1>2, <1>6, <2>1, <2>2 DEF Claims, Holding, Dispatching, Informs, Terminal
  <2>4. QED
    BY <1>0, <1>1, <1>2, <1>3, <1>4, <1>6, <2>1, <2>3, Written
<1>7. QED
  BY <1>5, <1>6

LEMMA FinishCalm ==
    ASSUME TypeOK, TypeOK', CalmInv, NEW w \in Workers, Finish(w)
    PROVE  CalmInv'
<1>1. Owns(w) /\ worker[w].pc = "deliver" /\ UNCHANGED <<queue, reviewed>>
  BY MineOwned DEF Finish, Holding
<1>2. PICK s \in Terminal : Close(w, s) /\ Goes(w, "list")
  BY <1>1 DEF Finish
<1>3. QED
  BY <1>1, <1>2, CloseCalm DEF Terminal

LEMMA RetryCalm ==
    ASSUME TypeOK, TypeOK', CalmInv, NEW w \in Workers, Retry(w)
    PROVE  CalmInv'
<1>1. CASE Close(w, "RETRYABLE") /\ Returned(w) /\ Acknowledge(w)
  BY <1>1, CloseCalm DEF Retry
<1>2. CASE Close(w, "FAILED") /\ Goes(w, "list") /\ UNCHANGED queue
  BY <1>2, CloseCalm DEF Retry
<1>3. QED
  BY <1>1, <1>2 DEF Retry, Returned

(* The task_id of a member that is dispatched.                             *)
LEMMA MarkCalm ==
    ASSUME TypeOK, TypeOK', CalmInv, NEW w \in Workers, Mark(w)
    PROVE  CalmInv'
<1>0. PICK m \in Members : m = worker[w].target
  BY WorkerParts
<1>1. /\ worker[w].pc = "mark" /\ Claims(w) /\ worker[w].then \in {"plan", "notify"}
      /\ UNCHANGED <<queue, reviewed>> /\ Dispatched(w)
      /\ job' = [job EXCEPT ![m].task = TRUE]
  BY <1>0, MineOwned, WorkerParts DEF Mark
<1>2. \A n \in Members : /\ job'[n].status = job[n].status /\ job'[n].attempts = job[n].attempts
                         /\ job'[n].lease = job[n].lease /\ job'[n].profile = job[n].profile
                         /\ n # m => job'[n] = job[n]
  BY <1>1 DEF TypeOK, Rows
<1>3. Staging'
  BY <1>1, <1>2 DEF CalmInv, Staging, Members, Siblings, Required
<1>4. /\ Holding(w)' <=> Holding(w)
      /\ \A v \in Workers : worker'[v].job = worker[v].job /\ (Holding(v)' <=> Holding(v))
  BY <1>1, DispatchedParts DEF Holding, Dispatching
<1>5. Alone'
  BY <1>4 DEF CalmInv, Alone
<1>6. ASSUME NEW v \in Workers PROVE Claims(v)'
  <2>1. worker[v].job \in Members /\ Claims(v)
    BY MineOwned
  <2>2. CASE v = w
    BY <1>1, <1>2, <2>1, <2>2, DispatchedParts
    DEF Claims, Holding, Dispatching, Informs, Planned, Owns, Members, Siblings, Required
  <2>3. CASE v # w
    BY <1>1, <1>2, <2>1, <2>3, DispatchedParts
    DEF Claims, Holding, Dispatching, Informs, Planned, Owns, Members, Siblings, Required
  <2>4. QED
    BY <2>2, <2>3
<1>7. ASSUME NEW n \in Members PROVE Attended(n)' /\ Sent(n)' /\ Found(n)'
  <2>1. Attended(n)'
    BY <1>1, <1>2, <1>4 DEF CalmInv, Attended
  <2>2. Waits(n) /\ n = m => queue[n] > 0
    BY <1>0, <1>1 DEF CalmInv, Sent
  <2>3. Sent(n)'
    BY <1>1, <1>2, <2>2, DispatchedParts DEF CalmInv, Sent, Waits
  <2>4. Found(n)'
    <3>1. n # m => \A v \in Workers : Looks(v, n) => Looks(v, n)'
      BY <1>0, <1>1, DispatchedParts DEF Looks, Informs, Dispatching
    <3>2. \A o \in Members : IsOpen(o)' <=> IsOpen(o)
      BY <1>2 DEF IsOpen
    <3>3. "root" \in Members /\ Required \subseteq Members
      BY DEF Members, Siblings
    <3>4. QED
      BY <1>1, <1>2, <2>2, <3>1, <3>2, <3>3 DEF CalmInv, Found, Waits
  <2>5. QED
    BY <2>1, <2>3, <2>4
<1>8. QED
  BY <1>3, <1>5, <1>6, <1>7 DEF CalmInv

(* A lease expires: nobody executes the member any more.                   *)
LEMMA ExpireCalm ==
    ASSUME TypeOK, TypeOK', CalmInv, NEW m \in Members, Expire(m), UNCHANGED lapses
    PROVE  CalmInv'
<1>0. job' = [job EXCEPT ![m].lease = FALSE]
  BY DEF Expire
<1>1. ~Held(m) /\ UNCHANGED <<queue, worker, reviewed>>
  BY DEF Expire, Lapse, TypeOK
<1>a. \A n \in Members : job[n] \in Rows /\
         job'[n] = IF n = m THEN [job[n] EXCEPT !.lease = FALSE] ELSE job[n]
  BY <1>0 DEF TypeOK
<1>2. \A n \in Members : /\ job'[n].status = job[n].status /\ job'[n].attempts = job[n].attempts
                         /\ job'[n].task = job[n].task /\ job'[n].profile = job[n].profile
                         /\ n # m => job'[n].lease = job[n].lease
  BY <1>a DEF Rows
<1>3. Staging'
  BY <1>1, <1>2 DEF CalmInv, Staging, Members, Siblings, Required
<1>4. Alone'
  BY <1>1 DEF CalmInv, Alone, Holding, Dispatching
<1>5. ASSUME NEW v \in Workers PROVE Claims(v)'
  <2>1. worker[v].job \in Members /\ Claims(v)
    BY MineOwned
  <2>2. Holding(v) => worker[v].job # m
    BY <1>1, <2>1 DEF Claims, Held, Holding, Dispatching
  <2>3. QED
    BY <1>1, <1>2, <2>1, <2>2
    DEF Claims, Holding, Dispatching, Informs, Planned, Owns, Members, Siblings, Required
<1>6. ASSUME NEW n \in Members PROVE Attended(n)' /\ Sent(n)' /\ Found(n)'
  <2>1. Attended(n)' /\ Sent(n)'
    BY <1>1, <1>2 DEF CalmInv, Attended, Sent, Waits, Holding, Dispatching
  <2>2. Found(n)'
    BY <1>1, <1>2 DEF CalmInv, Found, Waits, Looks, Informs, Dispatching, IsOpen, Members,
        Siblings, Required
  <2>3. QED
    BY <2>1, <2>2
<1>7. QED
  BY <1>3, <1>4, <1>5, <1>6 DEF CalmInv

(* The planner stages a sibling, and dispatches it if it has no task.      *)
LEMMA StagedWorker ==
    ASSUME TypeOK, NEW w \in Workers, NEW t \in Siblings, NEW row, worker[w].pc = "plan",
           AfterStaging(w, t, row)
    PROVE  /\ worker'[w].todo = Tail(worker[w].todo) /\ worker'[w].job = worker[w].job
           /\ worker'[w].token = worker[w].token /\ worker'[w].pending = worker[w].pending
           /\ \/ worker'[w].pc = "plan"
              \/ worker'[w].pc = "enqueue" /\ worker'[w].then = "plan" /\ worker'[w].target = t
           /\ \A v \in Workers : v # w => worker'[v] = worker[v]
<1>1. worker[w] \in WorkerStates
  BY DEF TypeOK
<1>2. PICK r \in {worker[w], Dispatch(w, t)} :
         /\ worker'[w] = [r EXCEPT !.todo = Tail(@)]
         /\ \A v \in Workers : v # w => worker'[v] = worker[v]
  BY DEF AfterStaging, TypeOK
<1>3. CASE r = worker[w]
  BY <1>1, <1>2, <1>3 DEF WorkerStates
<1>4. CASE r = Dispatch(w, t)
  <2>1. /\ r.todo = worker[w].todo /\ r.job = worker[w].job /\ r.token = worker[w].token
        /\ r.pending = worker[w].pending /\ r.pc = "enqueue" /\ r.then = "plan" /\ r.target = t
        /\ r \in WorkerStates
    BY <1>1, <1>4 DEF Dispatch, WorkerStates, Members
  <2>2. QED
    BY <1>2, <2>1 DEF WorkerStates
<1>5. QED
  BY <1>2, <1>3, <1>4

(* What it stages and what is left.                                        *)
LEMMA PlanAhead ==
    ASSUME NEW w \in Workers, Planned(w), worker[w].todo # <<>>
    PROVE  LET todo == worker[w].todo IN
           \/ todo = StagingOrder /\ Head(todo) = "soh"
              /\ Tail(todo) = <<"scenario", "recommendation">>
           \/ todo = <<"scenario", "recommendation">> /\ Head(todo) = "scenario"
              /\ Tail(todo) = <<"recommendation">>
           \/ todo = <<"recommendation">> /\ Head(todo) = "recommendation" /\ Tail(todo) = <<>>
<1> DEFINE todo == worker[w].todo
<1>1. CASE todo = StagingOrder
  <2>1. todo = <<"soh", "scenario", "recommendation">>
    BY <1>1 DEF StagingOrder
  <2>2. Head(todo) = "soh" /\ Tail(todo) = <<"scenario", "recommendation">>
    BY <2>1
  <2>3. QED
    BY <1>1, <2>2
<1>2. CASE todo = <<"scenario", "recommendation">>
  <2>1. Head(todo) = "scenario" /\ Tail(todo) = <<"recommendation">>
    BY <1>2
  <2>2. QED
    BY <1>2, <2>1
<1>3. CASE todo = <<"recommendation">>
  <2>1. Head(todo) = "recommendation" /\ Tail(todo) = <<>>
    BY <1>3
  <2>2. QED
    BY <1>3, <2>1
<1>4. QED
  BY <1>1, <1>2, <1>3 DEF Planned

LEMMA StageCalm ==
    ASSUME TypeOK, TypeOK', CalmInv, NEW w \in Workers, Stage(w)
    PROVE  CalmInv'
<1> DEFINE t == Head(worker[w].todo)
           row == IF job[t].status = "NONE" THEN NewSibling(t) ELSE job[t]
<1>1. /\ worker[w].pc = "plan" /\ worker[w].todo # <<>> /\ UNCHANGED <<queue, reviewed>>
      /\ Claims(w) /\ Planned(w) /\ Owns(w) /\ worker[w].job = "root"
      /\ job["root"].status = "RUNNING" /\ Staging
  BY MineOwned DEF Stage, Claims, Holding, Planned, Owns, CalmInv
<1>2. t \in Siblings /\ t \in Members
  BY <1>1, PlanAhead DEF Siblings, Required, Members
<1>3. row.profile = 0 /\ NewSibling(t).profile = 0
  BY <1>1, <1>2 DEF Staging, NewSibling, NoJob
<1>4. job' = [job EXCEPT ![t] = row] /\ AfterStaging(w, t, row)
  BY <1>1, <1>3 DEF Stage
<1>5. /\ worker'[w].todo = Tail(worker[w].todo) /\ worker'[w].job = "root"
      /\ worker'[w].token = worker[w].token /\ worker'[w].pending = worker[w].pending
      /\ \/ worker'[w].pc = "plan"
         \/ worker'[w].pc = "enqueue" /\ worker'[w].then = "plan" /\ worker'[w].target = t
      /\ \A v \in Workers : v # w => worker'[v] = worker[v]
  BY <1>1, <1>2, <1>4, StagedWorker
<1>6. job'[t] = row /\ \A n \in Members : n # t => job'[n] = job[n]
  BY <1>2, <1>4 DEF TypeOK
<1>7. row.status # "NONE" /\ \A n \in Members : job[n].status # "NONE" => job'[n] = job[n]
  BY <1>2, <1>6 DEF NewSibling, NoJob
<1>8. job'["root"] = job["root"] /\ t # "root"
  BY <1>1, <1>7, <1>2 DEF Members, Siblings, Required
<1>9. Claims(w)'
  <2>1. Planned(w)'
    <3>1. /\ "soh" \in Members /\ "scenario" \in Members
          /\ job["soh"].status # "NONE" => job'["soh"].status # "NONE"
          /\ job["scenario"].status # "NONE" => job'["scenario"].status # "NONE"
      BY <1>7 DEF Members, Siblings, Required
    <3>2. /\ Tail(worker[w].todo) \in {<<"scenario", "recommendation">>, <<"recommendation">>, <<>>}
          /\ job'["soh"].status # "NONE"
          /\ Tail(worker[w].todo) \in {<<"recommendation">>, <<>>} =>
                job'["scenario"].status # "NONE"
      <4>1. CASE t = "soh" /\ Tail(worker[w].todo) = <<"scenario", "recommendation">>
        <5>1. job'["soh"].status # "NONE"
          BY <1>6, <1>7, <4>1
        <5>2. Tail(worker[w].todo) \notin {<<"recommendation">>, <<>>}
          BY <4>1
        <5>3. QED
          BY <4>1, <5>1, <5>2
      <4>2. CASE t = "scenario" /\ worker[w].todo = <<"scenario", "recommendation">>
                 /\ Tail(worker[w].todo) = <<"recommendation">>
        <5>1. worker[w].todo # StagingOrder
          BY <4>2 DEF StagingOrder
        <5>2. QED
          BY <1>1, <1>6, <1>7, <3>1, <4>2, <5>1 DEF Planned
      <4>3. CASE worker[w].todo = <<"recommendation">> /\ Tail(worker[w].todo) = <<>>
        <5>1. worker[w].todo # StagingOrder
          BY <4>3 DEF StagingOrder
        <5>2. QED
          BY <1>1, <3>1, <4>3, <5>1 DEF Planned
      <4>4. QED
        BY <1>1, <4>1, <4>2, <4>3, PlanAhead
    <3>3. QED
      BY <1>5, <3>2 DEF Planned
  <2>2. Owns(w)'
    BY <1>1, <1>5, <1>8 DEF Owns
  <2>3. QED
    BY <1>1, <1>5, <1>6, <1>7, <1>8, <2>1, <2>2 DEF Claims, Holding, Dispatching, Informs
<1>10. CASE job[t].status # "NONE"
  <2>1. job' = job
    BY <1>4, <1>10 DEF TypeOK
  <2>2. Keeps(w)
    BY <1>1, <1>5 DEF Keeps, Holding, Dispatching, Informs, Looks
  <2>3. QED
    BY <1>1, <1>5, <1>9, <2>1, <2>2, Steady, MineOwned
<1>11. CASE job[t].status = "NONE"
  <2>1. row.status = "PENDING" /\ row.task = FALSE
    BY <1>11 DEF NewSibling, NoJob
  <2>2. Staging'
    <3>1. \A n \in Members : job'[n].profile = 0
      BY <1>1, <1>3, <1>6 DEF Staging
    <3>2. job'["recommendation"].status # "NONE" =>
             \A n \in Required : job'[n].status # "NONE"
      BY <1>1, <1>6, <1>7, PlanAhead
      DEF Staging, Planned, StagingOrder, Members, Siblings, Required
    <3>3. QED
      BY <1>1, <1>8, <3>1, <3>2 DEF Staging
  <2>3. \A v \in Workers : worker'[v].job = worker[v].job /\ (Holding(v)' <=> Holding(v))
    BY <1>1, <1>5 DEF Holding, Dispatching
  <2>4. Alone'
    BY <2>3 DEF CalmInv, Alone
  <2>5. ASSUME NEW v \in Workers PROVE Claims(v)'
    <3> SUFFICES ASSUME v # w PROVE Claims(v)'
        BY <1>9
    <3>1. worker'[v] = worker[v] /\ worker[v].job \in Members /\ Claims(v)
      BY <1>5, MineOwned
    <3>2. Holding(v) \/ Informs(v) => job'[worker[v].job] = job[worker[v].job]
      BY <1>7, <3>1 DEF Claims, Owns, Terminal
    <3>3. QED
      BY <1>7, <3>1, <3>2
      DEF Claims, Holding, Informs, Dispatching, Planned, Owns, Members, Siblings, Required
  <2>6. ASSUME NEW n \in Members PROVE Attended(n)' /\ Sent(n)' /\ Found(n)'
    <3>1. Attended(n)'
      BY <1>1, <1>6, <2>1, <2>3 DEF CalmInv, Attended
    <3>2. CASE n # t
      <4>1. Sent(n)'
        BY <1>1, <1>5, <1>6, <3>2 DEF CalmInv, Sent, Waits
      <4>2. QED
        BY <1>1, <1>8, <3>1, <4>1 DEF Found, IsOpen, Open
    <3>3. CASE n = t
      <4>1. \A v \in Workers : ~(worker[v].pc = "mark" /\ worker[v].target = t)
        BY <1>2, <1>11, MineOwned DEF Claims, Dispatching
      <4>2. Sent(n)'
        BY <1>5, <1>6, <1>8, <2>1, <3>3, <4>1 DEF Sent
      <4>3. QED
        BY <1>1, <1>8, <3>1, <4>2 DEF Found, IsOpen, Open
    <3>4. QED
      BY <3>2, <3>3
  <2>7. QED
    BY <2>2, <2>4, <2>5, <2>6 DEF CalmInv
<1>12. QED
  BY <1>10, <1>11

LEMMA NextCalm ==
    ASSUME TypeOK, TypeOK', CalmInv, [Next]_vars, UNCHANGED lapses
    PROVE  CalmInv'
<1>1. CASE UNCHANGED vars
  BY <1>1 DEF vars, CalmInv, Staging, Alone, Claims, Holding, Dispatching, Informs, Planned,
      Owns, Attended, Sent, Found, Waits, Looks, IsOpen
<1>2. ASSUME NEW w \in Workers, Execute(w) PROVE CalmInv'
  BY <1>2, ClaimCalm, ValidateCalm, StageCalm, EnqueueCalm, MarkCalm, ComputeCalm, FinishCalm,
     ListCalm, NotifyCalm DEF Execute
<1>3. ASSUME NEW w \in Workers, Retry(w) \/ DispatchFails(w) \/ Crash(w) \/ Redeliver(w)
      PROVE  CalmInv'
  BY <1>3, RetryCalm, DispatchFailsCalm, CrashCalm, RedeliverCalm
<1>4. ~NewProfile
  BY DEF NewProfile, Lapse, TypeOK
<1>5. QED
  BY <1>1, <1>2, <1>3, <1>4, ExpireCalm DEF Next

LEMMA InitCalm == Init => CalmInv
<1> SUFFICES ASSUME Init PROVE CalmInv
    OBVIOUS
<1>1. /\ \A m \in Members : /\ job[m].profile = 0
                            /\ job[m].status = IF m = "root" THEN "PENDING" ELSE "NONE"
                            /\ queue[m] = IF m = "root" THEN 1 ELSE 0
      /\ \A w \in Workers : worker[w] = Idle
      /\ reviewed = 0
  BY DEF Init, NoJob
<1>2. Staging
  BY <1>1 DEF Staging, Members, Siblings, Required
<1>3. ASSUME NEW w \in Workers PROVE ~Holding(w) /\ Claims(w) /\ worker[w].pc = "idle"
  <2>1. worker[w].pc = "idle" /\ worker[w].pending = {}
    BY <1>1 DEF Idle
  <2>2. QED
    BY <2>1 DEF Claims, Holding, Informs, Dispatching
<1>4. \A m \in Members : Attended(m) /\ Sent(m) /\ Found(m)
  BY <1>1, <1>3 DEF Attended, Sent, Found, Waits
<1>5. QED
  BY <1>2, <1>3, <1>4 DEF CalmInv, Alone

(* A member that is staged and has not ended is somebody's duty as long as *)
(* the code has not lapsed: it has a message, or a worker that executes,   *)
(* dispatches or lists it, or another member will look for it at its end.  *)
THEOREM FamilyIsSomeonesDuty == Spec => []SomeoneIsResponsible
<1> DEFINE Inv == lapses = 0 => CalmInv
<1>1. Init => Inv
  BY InitCalm
<1>2. TypeOK /\ TypeOK' /\ Inv /\ [Next]_vars => Inv'
  <2>1. ASSUME TypeOK, [Next]_vars, lapses' = 0 PROVE lapses = 0
    <3>0. lapses \in Nat /\ ~Lapse
      BY <2>1 DEF TypeOK, Lapse
    <3>1. CASE UNCHANGED vars
      BY <2>1, <3>1 DEF vars
    <3>2. ASSUME NEW w \in Workers, Execute(w) PROVE lapses' = lapses
      BY <3>2 DEF Execute, NoFault, Claim, Validate, Stage, Enqueue, Mark, Compute, Finish, List,
          Notify
    <3>3. ASSUME NEW w \in Workers, Retry(w) \/ DispatchFails(w) \/ Crash(w) \/ Redeliver(w)
          PROVE  lapses' = lapses
      BY <3>0, <3>3 DEF Fault, Retry, DispatchFails, Crash, Redeliver
    <3>4. ASSUME NEW m \in Members, Expire(m) PROVE lapses' = lapses
      BY <3>0, <3>4 DEF Expire, NoFault
    <3>5. ~NewProfile
      BY <3>0 DEF NewProfile
    <3>6. QED
      BY <2>1, <3>1, <3>2, <3>3, <3>4, <3>5 DEF Next
  <2>2. QED
    BY <2>1, NextCalm
<1>3. TypeOK /\ Inv => SomeoneIsResponsible
  <2> SUFFICES ASSUME TypeOK, CalmInv, NEW m \in Members, job[m].status \in Open
               PROVE  \/ queue[m] > 0 \/ \E w \in Workers : Cares(w, m)
                      \/ m # "root" /\ \E n \in Required \cup {"root"} :
                                          n # m /\ job[n].status \in Open
      BY DEF SomeoneIsResponsible
  <2>1. Attended(m) /\ Sent(m) /\ Found(m)
    BY DEF CalmInv
  <2>2. CASE job[m].status = "RUNNING"
    BY <2>1, <2>2 DEF Attended, Cares, Holding, Dispatching
  <2>3. CASE job[m].status = "RETRYABLE"
    BY <2>1, <2>3 DEF Attended
  <2>4. CASE job[m].status = "PENDING"
    BY <2>1, <2>4 DEF Sent, Found, Waits, IsOpen, Cares, Looks, Informs, Dispatching, Required
  <2>5. QED
    BY <2>2, <2>3, <2>4 DEF Open
<1>4. QED
  BY <1>1, <1>2, <1>3, TypeCorrect, PTL DEF Spec
=============================================================================
