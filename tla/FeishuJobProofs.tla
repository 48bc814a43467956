-------------------------- MODULE FeishuJobProofs --------------------------
(***************************************************************************)
(* Theorems about FeishuJob, for every number of callbacks, workers and    *)
(* failures and every lease, retry and attempt limit: types, leases and    *)
(* ends; what the user was told when a job ends; that an answered event    *)
(* has a dispatched job; that, where the retries outlast the faults, a     *)
(* live job is somebody's duty; and that each repetition has a cause of    *)
(* its own.                                                                *)
(***************************************************************************)
EXTENDS FeishuJob, FiniteSetTheorems, TLAPS

USE LimitAssumption, FiniteProcesses, FeishuBounds

-----------------------------------------------------------------------------
(***************************************************************************)
(* Type correctness.                                                       *)
(***************************************************************************)
(* The two ends of a lease.                                                *)
LEMMA Zero == 0 \in 0..LeaseTTL /\ LeaseTTL \in 0..LeaseTTL /\ LeaseTTL > 0
  BY LimitAssumption

(* The writes of the row.                                                  *)
LEMMA JobClaimed ==
    \A j \in Jobs, n \in Nat :
       [j EXCEPT !.status = "RUNNING", !.attempts = n, !.token = n, !.lease = LeaseTTL] \in Jobs
  BY Zero DEF Jobs, JobStatus

LEMMA JobEnded ==
    \A j \in Jobs, s \in JobStatus : [j EXCEPT !.status = s, !.token = 0, !.lease = 0] \in Jobs
  BY Zero DEF Jobs

LEMMA JobRenewed == \A j \in Jobs, l \in 0..LeaseTTL : [j EXCEPT !.lease = l] \in Jobs
  BY DEF Jobs

LEMMA JobStaged == \A j \in Jobs : [j EXCEPT !.status = "PENDING"] \in Jobs
  BY DEF Jobs, JobStatus

LEMMA JobDispatched == \A j \in Jobs, n \in Nat : [j EXCEPT !.task = n] \in Jobs
  BY DEF Jobs

LEMMA JobSaved ==
    \A j \in Jobs, f \in Fields : [j EXCEPT !.saved = @ \cup {f}] \in Jobs
  BY DEF Jobs

LEMMA JobParts ==
    \A j \in Jobs : /\ j.attempts \in Nat /\ j.token \in Nat /\ j.saved \in SUBSET Fields
                    /\ j.lease \in 0..LeaseTTL /\ j.status \in JobStatus
  BY DEF Jobs

LEMMA ReceiptUnclaimed ==
    \A r \in Receipts, s \in {"PROCESSED", "RETRYABLE"} :
       [r EXCEPT !.status = s, !.token = 0, !.lease = 0] \in Receipts
  BY Zero DEF Receipts

LEMMA ReceiptClaimed ==
    \A r \in Receipts :
       /\ r.claims + 1 \in Nat
       /\ [status |-> "IN_PROGRESS", claims |-> r.claims + 1, token |-> r.claims + 1,
           lease |-> LeaseTTL] \in Receipts
  BY Zero DEF Receipts

(* The callback requests.                                                  *)
CallbackPcs == {"idle", "stage", "enqueue", "mark", "acknowledge", "release"}

LEMMA HandlerPut ==
    ASSUME TypeOK, NEW h \in Handlers, NEW pc \in CallbackPcs
    PROVE  /\ At(h, pc) => handler' \in [Handlers -> Callbacks]
           /\ Answer(h) => handler' \in [Handlers -> Callbacks]
<1>1. At(h, pc) => handler' \in [Handlers -> Callbacks]
  BY DEF At, TypeOK, Callbacks, CallbackPcs
<1>2. NoCallback \in Callbacks
  BY DEF NoCallback, Callbacks
<1>3. QED
  BY <1>1, <1>2 DEF Answer, TypeOK

(* What a worker holds.                                                    *)
Pcs == {"idle", "claim", "read", "work", "deliver", "send", "checkpoint", "finish",
        "retry", "unexpected", "stop"}
Exits == {"done", "again", "lost"}

LEMMA IdleType == Idle \in WorkerStates
  BY DEF Idle, WorkerStates

LEMMA PcType == \A r \in WorkerStates, pc \in Pcs : [r EXCEPT !.pc = pc] \in WorkerStates
  BY DEF WorkerStates, Pcs

LEMMA ExitType ==
    \A r \in WorkerStates, e \in Exits : [r EXCEPT !.pc = "stop", !.exit = e] \in WorkerStates
  BY DEF WorkerStates, Exits

LEMMA ClaimType ==
    \A r \in WorkerStates, n \in Nat :
       [r EXCEPT !.pc = "read", !.token = n, !.beat = "on"] \in WorkerStates
  BY DEF WorkerStates

LEMMA SavedType ==
    \A r \in WorkerStates, f \in SUBSET Fields :
       [r EXCEPT !.pc = "deliver", !.saved = f] \in WorkerStates
  BY DEF WorkerStates

LEMMA OutcomeType ==
    \A r \in WorkerStates, pc \in Pcs, o \in Terminal :
       [r EXCEPT !.pc = pc, !.outcome = o] \in WorkerStates
  BY DEF WorkerStates, Pcs

LEMMA TodoType ==
    \A r \in WorkerStates, t \in SUBSET Parts, pc \in Pcs :
       [r EXCEPT !.todo = t, !.pc = pc] \in WorkerStates
  BY DEF WorkerStates, Pcs

LEMMA BeatType ==
    \A r \in WorkerStates, beat \in {"off", "on", "failed"}, n \in Nat :
       /\ [r EXCEPT !.beat = beat] \in WorkerStates
       /\ [r EXCEPT !.pc = "retry", !.beat = "off", !.attempt = n] \in WorkerStates
<1>1. \A r \in WorkerStates, beat \in {"off", "on", "failed"} :
         [r EXCEPT !.beat = beat] \in WorkerStates
  BY DEF WorkerStates
<1>2. \A r \in WorkerStates, n \in Nat :
         [r EXCEPT !.pc = "retry", !.beat = "off", !.attempt = n] \in WorkerStates
  BY DEF WorkerStates
<1>3. QED
  BY <1>1, <1>2

LEMMA ReadType ==
    \A r \in WorkerStates, n \in Nat, f \in SUBSET Fields, pc \in Pcs :
       [r EXCEPT !.attempt = n, !.saved = f, !.outcome = "SUCCEEDED", !.pc = pc]
          \in WorkerStates
<1> SUFFICES ASSUME NEW r \in WorkerStates, NEW n \in Nat, NEW f \in SUBSET Fields,
                    NEW pc \in Pcs, NEW o \in Terminal
             PROVE  [r EXCEPT !.attempt = n, !.saved = f, !.outcome = o, !.pc = pc]
                       \in WorkerStates
    BY DEF Terminal
<1>1. [r EXCEPT !.attempt = n, !.saved = f] \in WorkerStates
  BY DEF WorkerStates
<1>2. [[r EXCEPT !.attempt = n, !.saved = f] EXCEPT !.pc = pc, !.outcome = o] \in WorkerStates
  BY <1>1, OutcomeType
<1>3. [r EXCEPT !.attempt = n, !.saved = f, !.outcome = o, !.pc = pc]
        = [[r EXCEPT !.attempt = n, !.saved = f] EXCEPT !.pc = pc, !.outcome = o]
  BY DEF WorkerStates
<1>4. QED
  BY <1>2, <1>3

LEMMA WorkerParts ==
    \A r \in WorkerStates : /\ r.retries \in 0..MaxRetries /\ r.todo \in SUBSET Parts
                            /\ r.outcome \in Terminal \cup {"NONE"}
  BY DEF WorkerStates

LEMMA WorkerPut ==
    ASSUME TypeOK, NEW w \in Workers, NEW r \in WorkerStates,
           worker' = [worker EXCEPT ![w] = r]
    PROVE  worker' \in [Workers -> WorkerStates]
  BY DEF TypeOK

LEMMA GoesType ==
    ASSUME TypeOK, NEW w \in Workers, NEW pc \in Pcs, Goes(w, pc)
    PROVE  worker' \in [Workers -> WorkerStates]
<1>1. worker[w] \in WorkerStates
  BY DEF TypeOK
<1>2. [worker[w] EXCEPT !.pc = pc] \in WorkerStates
  BY <1>1, PcType
<1>3. worker' = [worker EXCEPT ![w] = [worker[w] EXCEPT !.pc = pc]]
  BY Zenon DEF Goes
<1>4. QED
  BY <1>2, <1>3, WorkerPut

LEMMA AcknowledgeType ==
    ASSUME TypeOK, NEW w \in Workers, Acknowledge(w)
    PROVE  worker' \in [Workers -> WorkerStates]
  BY IdleType, WorkerPut DEF Acknowledge

LEMMA LeavesType ==
    ASSUME TypeOK, NEW w \in Workers, NEW e \in Exits, Leaves(w, e)
    PROVE  worker' \in [Workers -> WorkerStates]
<1>1. worker[w] \in WorkerStates
  BY DEF TypeOK
<1>2. [worker[w] EXCEPT !.pc = "stop", !.exit = e] \in WorkerStates
  BY <1>1, ExitType
<1>3. worker' = [worker EXCEPT ![w] = [worker[w] EXCEPT !.pc = "stop", !.exit = e]]
  BY Zenon DEF Leaves
<1>4. QED
  BY <1>2, <1>3, WorkerPut

(* Messages are put on the queue and taken from it one at a time.          *)
LEMMA PutType ==
    ASSUME TypeOK, NEW r \in 0..MaxRetries, NEW c \in {0, 1}
    PROVE  [queue EXCEPT ![<<r, c>>] = @ + 1] \in [Messages -> Nat]
<1>1. <<r, c>> \in Messages
  BY DEF Messages
<1>2. queue \in [Messages -> Nat]
  BY DEF TypeOK
<1>3. QED
  BY <1>1, <1>2

LEMMA TakeType ==
    ASSUME TypeOK, NEW r \in 0..MaxRetries, queue[<<r, 0>>] > 0
    PROVE  [queue EXCEPT ![<<r, 0>>] = @ - 1] \in [Messages -> Nat]
<1>1. <<r, 0>> \in Messages
  BY DEF Messages
<1>2. queue \in [Messages -> Nat] /\ queue[<<r, 0>>] \in Nat
  BY <1>1 DEF TypeOK
<1>3. queue[<<r, 0>>] - 1 \in Nat
  BY <1>2
<1>4. QED
  BY <1>1, <1>2, <1>3

LEMMA RetryLaterType ==
    ASSUME TypeOK, NEW w \in Workers, RetryLater(w)
    PROVE  queue' \in [Messages -> Nat]
<1>1. worker[w].retries \in 0..MaxRetries
  BY WorkerParts DEF TypeOK
<1>2. CASE worker[w].retries < MaxRetries
  <2>1. worker[w].retries + 1 \in 0..MaxRetries
    BY <1>1, <1>2
  <2>2. queue' = [queue EXCEPT ![<<worker[w].retries + 1, 1>>] = @ + 1]
    BY <1>2 DEF RetryLater
  <2>3. QED
    BY <2>1, <2>2, PutType
<1>3. CASE ~(worker[w].retries < MaxRetries)
  BY <1>3 DEF RetryLater, TypeOK
<1>4. QED
  BY <1>2, <1>3

(* The steps of a callback.                                                *)
LEMMA CallbackType ==
    ASSUME TypeOK, NEW h \in Handlers, Callback(h) \/ Respond(h) \/ CallbackFails(h)
    PROVE  TypeOK'
<1>a. /\ receipt \in Receipts /\ job \in Jobs
      /\ handler \in [Handlers -> Callbacks] /\ handler[h] \in Callbacks
  BY DEF TypeOK
<1>1. CASE Callback(h)
  <2>1. receipt' \in Receipts
    BY <1>1, <1>a, ReceiptClaimed, Zenon DEF Callback
  <2>2. handler' \in [Handlers -> Callbacks]
    <3>1. [pc |-> "stage", token |-> receipt.claims + 1] \in Callbacks
      BY <1>a, ReceiptClaimed DEF Callbacks
    <3>2. QED
      BY <1>1, <1>a, <3>1 DEF Callback
  <2>3. deliveries' \in 0..MaxDeliveries
    BY <1>1 DEF Callback, TypeOK
  <2>4. QED
    BY <1>1, <2>1, <2>2, <2>3 DEF Callback, TypeOK
<1>2. CASE Stage(h)
  <2>1. job' \in Jobs
    BY <1>2, <1>a, JobStaged DEF Stage
  <2>2. handler' \in [Handlers -> Callbacks]
    BY <1>2, HandlerPut DEF Stage, CallbackPcs
  <2>3. QED
    BY <1>2, <2>1, <2>2 DEF Stage, TypeOK
<1>3. CASE Enqueue(h)
  <2>1. queue' \in [Messages -> Nat]
    <3>1. 0 \in 0..MaxRetries
      BY LimitAssumption
    <3>2. QED
      BY <1>3, <3>1, PutType DEF Enqueue
  <2>2. handler' \in [Handlers -> Callbacks]
    BY <1>3, HandlerPut DEF Enqueue, CallbackPcs
  <2>3. QED
    BY <1>3, <2>1, <2>2 DEF Enqueue, TypeOK
<1>4. CASE MarkDispatched(h)
  <2>1. handler[h].token \in Nat
    BY <1>a DEF Callbacks
  <2>2. job' \in Jobs
    BY <1>4, <1>a, <2>1, JobDispatched DEF MarkDispatched
  <2>3. handler' \in [Handlers -> Callbacks]
    BY <1>4, HandlerPut DEF MarkDispatched, CallbackPcs
  <2>4. QED
    BY <1>4, <2>2, <2>3 DEF MarkDispatched, TypeOK
<1>5. CASE MarkProcessed(h)
  <2>1. receipt' \in Receipts
    BY <1>5, <1>a, ReceiptUnclaimed DEF MarkProcessed, Unclaimed
  <2>2. handler' \in [Handlers -> Callbacks]
    BY <1>5, HandlerPut DEF MarkProcessed, CallbackPcs
  <2>3. QED
    BY <1>5, <2>1, <2>2 DEF MarkProcessed, TypeOK
<1>6. CASE MarkFailed(h)
  <2>1. receipt' \in Receipts
    BY <1>6, <1>a, ReceiptUnclaimed DEF MarkFailed, Unclaimed
  <2>2. handler' \in [Handlers -> Callbacks]
    BY <1>6, HandlerPut DEF MarkFailed, CallbackPcs
  <2>3. QED
    BY <1>6, <2>1, <2>2 DEF MarkFailed, TypeOK
<1>7. CASE CallbackFails(h)
  <2>1. handler' \in [Handlers -> Callbacks]
    BY <1>7, HandlerPut DEF CallbackFails, CallbackPcs
  <2>2. faults' \in 0..MaxFaults
    BY <1>7 DEF CallbackFails, Fault, TypeOK
  <2>3. QED
    BY <1>7, <2>1, <2>2 DEF CallbackFails, TypeOK
<1>8. QED
  BY <1>1, <1>2, <1>3, <1>4, <1>5, <1>6, <1>7 DEF Respond

(* The steps of a worker that change the row of the job.                   *)
LEMMA ExecutionType ==
    ASSUME TypeOK, NEW w \in Workers,
           Claim(w) \/ Work(w) \/ Checkpoint(w) \/ Finish(w) \/ Retry(w) \/ Renew(w)
    PROVE  TypeOK'
<1>a. worker[w] \in WorkerStates /\ job \in Jobs
  BY DEF TypeOK
<1>b. /\ worker[w].outcome \in Terminal \cup {"NONE"} /\ worker[w].todo \in SUBSET Parts
      /\ job.attempts + 1 \in Nat
  BY <1>a, WorkerParts, JobParts
<1>1. CASE Claim(w)
  <2>1. CASE Acknowledge(w) /\ UNCHANGED <<job, queue>>
    BY <1>1, <2>1, AcknowledgeType DEF Claim, TypeOK
  <2>2. CASE Acknowledge(w) /\ RetryLater(w) /\ UNCHANGED job
    BY <1>1, <2>2, AcknowledgeType, RetryLaterType DEF Claim, TypeOK
  <2>3. CASE TakeClaim(w) /\ UNCHANGED queue
    <3>1. job' \in Jobs
      BY <2>3, <1>a, <1>b, JobClaimed DEF TakeClaim
    <3>2. [worker[w] EXCEPT !.pc = "read", !.token = job.attempts + 1, !.beat = "on"]
             \in WorkerStates
      BY <1>a, <1>b, ClaimType
    <3>3. worker' = [worker EXCEPT ![w] = [worker[w] EXCEPT
                       !.pc = "read", !.token = job.attempts + 1, !.beat = "on"]]
      BY <2>3, Zenon DEF TakeClaim
    <3>4. worker' \in [Workers -> WorkerStates]
      BY <3>2, <3>3, WorkerPut
    <3>5. QED
      BY <1>1, <2>3, <3>1, <3>4 DEF Claim, TypeOK
  <2>4. QED
    BY <1>1, <2>1, <2>2, <2>3 DEF Claim
<1>2. CASE Work(w)
  <2>1. CASE Refused(w)
    BY <1>2, <2>1, LeavesType DEF Work, Refused, Exits, TypeOK
  <2>2. CASE /\ job' = [job EXCEPT !.saved = @ \cup {"results"}]
             /\ worker' = [worker EXCEPT ![w] =
                   [@ EXCEPT !.pc = "deliver", !.saved = job'.saved]]
    <3>1. job' \in Jobs /\ job'.saved \in SUBSET Fields
      BY <2>2, <1>a, JobSaved, JobParts DEF Fields
    <3>2. [worker[w] EXCEPT !.pc = "deliver", !.saved = job'.saved] \in WorkerStates
      BY <3>1, <1>a, SavedType
    <3>3. worker' = [worker EXCEPT ![w] =
                       [worker[w] EXCEPT !.pc = "deliver", !.saved = job'.saved]]
      BY <2>2, Zenon
    <3>4. worker' \in [Workers -> WorkerStates]
      BY <3>2, <3>3, WorkerPut
    <3>5. QED
      BY <1>2, <3>1, <3>4 DEF Work, TypeOK
  <2>3. ASSUME NEW pc \in Pcs, NEW o \in Terminal, UNCHANGED job,
               worker' = [worker EXCEPT ![w] = [@ EXCEPT !.pc = pc, !.outcome = o]]
        PROVE  TypeOK'
    <3>1. [worker[w] EXCEPT !.pc = pc, !.outcome = o] \in WorkerStates
      BY <1>a, OutcomeType
    <3>2. worker' = [worker EXCEPT ![w] = [worker[w] EXCEPT !.pc = pc, !.outcome = o]]
      BY <2>3, Zenon
    <3>3. worker' \in [Workers -> WorkerStates]
      BY <3>1, <3>2, WorkerPut
    <3>4. QED
      BY <1>2, <2>3, <3>3 DEF Work, TypeOK
  <2>4. CASE /\ UNCHANGED job
             /\ \/ worker' = [worker EXCEPT ![w] =
                      [@ EXCEPT !.pc = "deliver", !.outcome = "REJECTED"]]
                \/ worker' = [worker EXCEPT ![w] =
                      [@ EXCEPT !.pc = "finish", !.outcome = "FAILED"]]
    BY <2>4, <2>3 DEF Pcs, Terminal
  <2>5. QED
    BY <1>2, <2>1, <2>2, <2>4 DEF Work
<1>3. CASE Checkpoint(w)
  <2>1. CASE Refused(w)
    BY <1>3, <2>1, LeavesType DEF Checkpoint, Refused, Exits, TypeOK
  <2>2. ASSUME NEW p \in Due(w), NEW pc \in Pcs,
               job' = [job EXCEPT !.saved = @ \cup {Field(p)}],
               worker' = [worker EXCEPT ![w] =
                   [@ EXCEPT !.todo = worker[w].todo \ {p}, !.pc = pc]]
        PROVE  TypeOK'
    <3>1. p \in Parts /\ worker[w].todo \ {p} \in SUBSET Parts
      BY <1>b DEF Due
    <3>2. Field(p) \in Fields
      BY <3>1 DEF Field, Fields, Parts
    <3>3. job' \in Jobs
      BY <2>2, <3>2, <1>a, JobSaved
    <3>4. [worker[w] EXCEPT !.todo = worker[w].todo \ {p}, !.pc = pc] \in WorkerStates
      BY <3>1, <1>a, TodoType
    <3>5. worker' = [worker EXCEPT ![w] =
                       [worker[w] EXCEPT !.todo = worker[w].todo \ {p}, !.pc = pc]]
      BY <2>2, Zenon
    <3>6. worker' \in [Workers -> WorkerStates]
      BY <3>4, <3>5, WorkerPut
    <3>7. QED
      BY <1>3, <3>3, <3>6 DEF Checkpoint, TypeOK
  <2>3. CASE \E p \in Due(w) : \E pc \in {"finish", "send"} :
                /\ job' = [job EXCEPT !.saved = @ \cup {Field(p)}]
                /\ worker' = [worker EXCEPT ![w] =
                      [@ EXCEPT !.todo = worker[w].todo \ {p}, !.pc = pc]]
    BY <2>2, <2>3 DEF Pcs
  <2>4. QED
    BY <1>3, <2>1, <2>3, Zenon DEF Checkpoint
<1>4. CASE Finish(w) \/ Retry(w)
  <2>1. ASSUME NEW s \in JobStatus, NEW e \in Exits, Ended(s), Leaves(w, e)
        PROVE  TypeOK'
    <3>1. job' \in Jobs
      BY <2>1, <1>a, JobEnded DEF Ended
    <3>2. QED
      BY <1>4, <2>1, <3>1, LeavesType DEF Finish, Retry, TypeOK
  <2>2. CASE Refused(w)
    BY <1>4, <2>2, LeavesType DEF Finish, Retry, Refused, Exits, TypeOK
  <2>3. CASE Finish(w) /\ ~Refused(w)
    <3>1. worker[w].pc = "finish" /\ Ended(worker[w].outcome) /\ Leaves(w, "done")
      BY <2>3 DEF Finish
    <3>2. QED
      BY <2>1, <3>1, <1>b DEF JobStatus, Exits
  <2>4. CASE Retry(w) /\ ~Refused(w)
    <3>1. \E s \in {"FAILED", "RETRYABLE"} : \E e \in {"done", "again"} :
             Ended(s) /\ Leaves(w, e)
      BY <2>4 DEF Retry
    <3>2. QED
      BY <2>1, <3>1 DEF JobStatus, Terminal, Exits
  <2>5. QED
    BY <1>4, <2>2, <2>3, <2>4
<1>5. CASE Renew(w)
  <2>1. job' \in Jobs
    BY <1>5, <1>a, JobRenewed, Zero DEF Renew
  <2>2. QED
    BY <1>5, <2>1 DEF Renew, TypeOK
<1>6. QED
  BY <1>1, <1>2, <1>3, <1>4, <1>5

(* The other steps of a worker.                                            *)
LEMMA WorkerType ==
    ASSUME TypeOK, NEW w \in Workers,
           \/ Receive(w) \/ Read(w) \/ WorkFails(w) \/ Deliver(w) \/ Send(w)
           \/ DeliveryFails(w) \/ Unexpected(w) \/ Stop(w)
           \/ Miss(w) \/ Crash(w) \/ Redeliver(w)
    PROVE  TypeOK'
<1>a. worker[w] \in WorkerStates /\ job \in Jobs /\ sent \in [Parts -> Nat]
  BY DEF TypeOK
<1>b. /\ worker[w].retries \in 0..MaxRetries /\ worker[w].todo \in SUBSET Parts
      /\ job.attempts \in Nat /\ job.saved \in SUBSET Fields
  BY <1>a, WorkerParts, JobParts
<1>f. Fault => faults' \in 0..MaxFaults
  BY DEF Fault, TypeOK
<1>1. CASE Receive(w)
  <2>1. PICK r \in 0..MaxRetries :
           /\ queue[<<r, 0>>] > 0
           /\ queue' = [queue EXCEPT ![<<r, 0>>] = @ - 1]
           /\ worker' = [worker EXCEPT ![w] = [Idle EXCEPT !.pc = "claim", !.retries = r]]
    BY <1>1, Zenon DEF Receive
  <2>2. [Idle EXCEPT !.pc = "claim", !.retries = r] \in WorkerStates
    BY <2>1 DEF Idle, WorkerStates
  <2>3. QED
    BY <1>1, <2>1, <2>2, TakeType, WorkerPut DEF Receive, TypeOK
<1>2. CASE Read(w)
  <2>1. PICK pc \in {"deliver", "work"} :
           worker' = [worker EXCEPT ![w] = [worker[w] EXCEPT !.attempt = job.attempts,
                         !.saved = job.saved, !.outcome = "SUCCEEDED", !.pc = pc]]
    BY <1>2, Zenon DEF Read
  <2>2. [worker[w] EXCEPT !.attempt = job.attempts, !.saved = job.saved,
                          !.outcome = "SUCCEEDED", !.pc = pc] \in WorkerStates
    BY <1>a, <1>b, <2>1, ReadType DEF Pcs
  <2>3. QED
    BY <1>2, <2>1, <2>2, WorkerPut DEF Read, TypeOK
<1>3. CASE WorkFails(w)
  BY <1>3, <1>f, GoesType DEF WorkFails, Pcs, TypeOK
<1>4. CASE Deliver(w)
  <2>1. CASE Refused(w)
    BY <1>4, <2>1, LeavesType DEF Deliver, Refused, Exits, TypeOK
  <2>2. CASE worker' = [worker EXCEPT ![w].outcome = "REJECTED"]
    <3>1. [worker[w] EXCEPT !.outcome = "REJECTED"] \in WorkerStates
      BY <1>a DEF WorkerStates, Terminal
    <3>2. worker' = [worker EXCEPT ![w] = [worker[w] EXCEPT !.outcome = "REJECTED"]]
      BY <2>2, Zenon
    <3>3. worker' \in [Workers -> WorkerStates]
      BY <3>1, <3>2, WorkerPut
    <3>4. QED
      BY <1>4, <3>3 DEF Deliver, Refused, TypeOK
  <2>3. CASE \E t \in SUBSET Parts : \E pc \in {"finish", "send"} :
                worker' = [worker EXCEPT ![w] = [worker[w] EXCEPT !.todo = t, !.pc = pc]]
    <3>1. PICK t \in SUBSET Parts, pc \in {"finish", "send"} :
                worker' = [worker EXCEPT ![w] = [worker[w] EXCEPT !.todo = t, !.pc = pc]]
      BY <2>3
    <3>2. [worker[w] EXCEPT !.todo = t, !.pc = pc] \in WorkerStates
      BY <1>a, TodoType DEF Pcs
    <3>3. worker' \in [Workers -> WorkerStates]
      BY <3>1, <3>2, WorkerPut
    <3>4. QED
      BY <1>4, <3>3 DEF Deliver, Refused, TypeOK
  <2>4. {p \in Plan(worker[w].outcome) : Field(p) \notin worker[w].saved} \in SUBSET Parts
    BY DEF Plan, Parts
  <2>5. QED
    BY <1>4, <2>1, <2>2, <2>3, <2>4, Zenon DEF Deliver
<1>5. CASE Send(w) \/ DeliveryFails(w)
  <2>1. worker' \in [Workers -> WorkerStates]
    BY <1>5, GoesType DEF Send, DeliveryFails, Pcs
  <2>2. sent' \in [Parts -> Nat]
    BY <1>5, <1>a DEF Send, DeliveryFails
  <2>3. QED
    BY <1>5, <2>1, <2>2, <1>f DEF Send, DeliveryFails, TypeOK
<1>7. CASE Unexpected(w)
  <2>1. CASE Acknowledge(w)
    BY <1>7, <2>1, AcknowledgeType DEF Unexpected, TypeOK
  <2>2. CASE worker' = [worker EXCEPT ![w] = [worker[w] EXCEPT !.pc = "retry",
                           !.beat = "off", !.attempt = job.attempts]]
    <3>1. [worker[w] EXCEPT !.pc = "retry", !.beat = "off", !.attempt = job.attempts]
             \in WorkerStates
      BY <1>a, <1>b, BeatType
    <3>2. QED
      BY <1>7, <2>2, <3>1, WorkerPut DEF Unexpected, TypeOK
  <2>3. QED
    BY <1>7, <2>1, <2>2, Zenon DEF Unexpected, Acknowledge
<1>8. CASE Stop(w)
  <2>1. queue' \in [Messages -> Nat]
    BY <1>8, RetryLaterType DEF Stop, TypeOK
  <2>2. QED
    BY <1>8, <2>1, AcknowledgeType DEF Stop, TypeOK
<1>9. CASE Miss(w)
  <2>1. [worker[w] EXCEPT !.beat = "failed"] \in WorkerStates
    BY <1>a, BeatType
  <2>2. worker' = [worker EXCEPT ![w] = [worker[w] EXCEPT !.beat = "failed"]]
    BY <1>9, Zenon DEF Miss
  <2>3. worker' \in [Workers -> WorkerStates]
    BY <2>1, <2>2, WorkerPut
  <2>4. misses' \in 0..MaxMisses
    BY <1>9 DEF Miss, TypeOK
  <2>5. QED
    BY <1>9, <2>3, <2>4 DEF Miss, TypeOK
<1>10. CASE Crash(w) \/ Redeliver(w)
  <2>1. queue' \in [Messages -> Nat]
    BY <1>10, <1>b, PutType DEF Crash, Redeliver, Returned
  <2>2. worker' \in [Workers -> WorkerStates]
    BY <1>10, AcknowledgeType DEF Crash, Redeliver, TypeOK
  <2>3. QED
    BY <1>10, <2>1, <2>2, <1>f DEF Crash, Redeliver, TypeOK
<1>11. QED
  BY <1>1, <1>2, <1>3, <1>4, <1>5, <1>7, <1>8, <1>9, <1>10

(* Time.                                                                   *)
LEMMA TickType ==
    ASSUME TypeOK, Tick
    PROVE  TypeOK'
<1> USE DEF TypeOK
<1>1. Cardinality(LateHandlers) \in Nat /\ Cardinality(LateWorkers) \in Nat
  <2>1. IsFiniteSet(LateHandlers) /\ IsFiniteSet(LateWorkers)
    BY FS_Subset DEF LateHandlers, LateWorkers
  <2>2. QED
    BY <2>1, FS_CardinalityType
<1>2. faults' \in 0..MaxFaults /\ misses' \in 0..MaxMisses
  BY <1>1 DEF Tick
<1>3. receipt' \in Receipts /\ job' \in Jobs
  <2>1. \A l \in 0..LeaseTTL : Less(l) \in 0..LeaseTTL
    BY LimitAssumption DEF Less
  <2>2. receipt.lease \in 0..LeaseTTL /\ job.lease \in 0..LeaseTTL
    BY DEF Receipts, Jobs
  <2>3. [receipt EXCEPT !.lease = Less(@)] \in Receipts
    BY <2>1, <2>2 DEF Receipts
  <2>4. [job EXCEPT !.lease = Less(@)] \in Jobs
    BY <2>1, <2>2, JobRenewed
  <2>5. QED
    BY <2>3, <2>4 DEF Tick
<1>4. queue' \in [Messages -> Nat]
  <2>1. ASSUME NEW m \in Messages
        PROVE  queue[m] \in Nat /\ queue[<<m[1], 1>>] \in Nat
    BY DEF Messages
  <2>2. QED
    BY <2>1 DEF Tick
<1>5. QED
  BY <1>2, <1>3, <1>4 DEF Tick

(* The initial state.                                                      *)
LEMMA InitType == Init => TypeOK
  BY DEF Init, TypeOK, NoReceipt, NoJob, NoCallback, Idle, Receipts, Jobs, JobStatus,
         Callbacks, WorkerStates

(* Every step keeps the types.                                             *)
LEMMA NextType == TypeOK /\ [Next]_vars => TypeOK'
<1> SUFFICES ASSUME TypeOK, [Next]_vars PROVE TypeOK'
    OBVIOUS
<1>1. CASE \E h \in Handlers : Callback(h) \/ Respond(h) \/ CallbackFails(h)
  BY <1>1, CallbackType
<1>2. CASE \E w \in Workers :
              \/ Execute(w) \/ Renew(w)
              \/ WorkFails(w) \/ DeliveryFails(w) \/ Miss(w) \/ Crash(w) \/ Redeliver(w)
  BY <1>2, ExecutionType, WorkerType DEF Execute
<1>3. CASE Tick
  BY <1>3, TickType
<1>4. CASE UNCHANGED vars
  BY <1>4 DEF vars, TypeOK
<1>5. QED
  BY <1>1, <1>2, <1>3, <1>4 DEF Next

(* The row, the queue and the processes keep their shape, for any number   *)
(* of processes and any limits.                                            *)
THEOREM TypeCorrect == Spec => []TypeOK
  BY InitType, NextType, PTL DEF Spec

-----------------------------------------------------------------------------
(***************************************************************************)
(* Who writes the row of a job.  Every write of a worker passes the fence, *)
(* except the claim, which needs an expired lease.                         *)
(***************************************************************************)
Claims(w) ==
    /\ job.status \notin Terminal /\ ~Busy
    /\ job' = [job EXCEPT !.status = "RUNNING", !.attempts = job.attempts + 1,
                          !.token = job.attempts + 1, !.lease = LeaseTTL]
Saves(w) ==
    /\ Owns(w)
    /\ \E f \in Fields :
          /\ f = "results" \/ (worker[w].pc = "checkpoint" /\ \E p \in Due(w) : f = Field(p))
          /\ job' = [job EXCEPT !.saved = @ \cup {f}]
Ends(w) ==
    /\ Owns(w) /\ worker[w].pc \in {"finish", "retry"}
    /\ Ended(IF worker[w].pc = "finish" THEN worker[w].outcome
             ELSE IF worker[w].attempt >= MaxAttempts THEN "FAILED" ELSE "RETRYABLE")
Renews(w) == Owns(w) /\ job' = [job EXCEPT !.lease = LeaseTTL]

WorkerStep(w) ==
    \/ Execute(w) \/ Renew(w)
    \/ WorkFails(w) \/ DeliveryFails(w) \/ Miss(w) \/ Crash(w) \/ Redeliver(w)

(* A step of a worker writes the row in one of four ways, or not at all.   *)
LEMMA WorkerWrites ==
    ASSUME TypeOK, NEW w \in Workers, WorkerStep(w)
    PROVE  \/ UNCHANGED job \/ Saves(w) \/ Ends(w) \/ Renews(w)
           \/ Claim(w) /\ ~Busy /\ TakeClaim(w) /\ Claims(w)
<1>1. CASE Claim(w)
  BY <1>1 DEF Claim, TakeClaim, Claims
<1>2. CASE Work(w)
  BY <1>2 DEF Work, Refused, Saves, Fields
<1>3. CASE Checkpoint(w)
  <2>1. \A q \in Due(w) : Field(q) \in Fields
    BY WorkerParts DEF Due, TypeOK, Field, Fields, Parts
  <2>2. QED
    BY <1>3, <2>1 DEF Checkpoint, Refused, Saves
<1>4. CASE Finish(w)
  BY <1>4 DEF Finish, Refused, Ends
<1>5. CASE Retry(w)
  BY <1>5 DEF Retry, Refused, Ends
<1>6. CASE Renew(w)
  BY <1>6 DEF Renew, Renews
<1>7. CASE Receive(w) \/ Read(w) \/ Send(w) \/ Unexpected(w) \/ Stop(w)
  BY <1>7 DEF Receive, Read, Send, Unexpected, Stop
<1>8. CASE Deliver(w)
  BY <1>8 DEF Deliver, Refused
<1>9. CASE WorkFails(w) \/ DeliveryFails(w) \/ Miss(w) \/ Crash(w) \/ Redeliver(w)
  BY <1>9 DEF WorkFails, DeliveryFails, Miss, Crash, Redeliver
<1>10. QED
  BY <1>1, <1>2, <1>3, <1>4, <1>5, <1>6, <1>7, <1>8, <1>9 DEF WorkerStep, Execute

(* A worker does not touch the receipt or the callbacks.                   *)
LEMMA WorkerFrame ==
    ASSUME NEW w \in Workers, WorkerStep(w)
    PROVE  UNCHANGED <<receipt, handler>>
  BY DEF WorkerStep, Execute, Receive, Claim, Read, Work, Deliver, Send, Checkpoint, Finish,
         Retry, Unexpected, Stop, Renew, WorkFails, DeliveryFails, Miss, Crash, Redeliver

(* The ways in which a step writes the row.                                *)
LEMMA RowStep ==
    ASSUME TypeOK, [Next]_vars
    PROVE  \/ UNCHANGED job
           \/ \E h \in Handlers : Stage(h) \/ MarkDispatched(h)
           \/ \E w \in Workers : Claims(w) \/ Saves(w) \/ Ends(w) \/ Renews(w)
           \/ Tick
<1>1. CASE \E h \in Handlers : Callback(h) \/ Respond(h) \/ CallbackFails(h)
  BY <1>1 DEF Callback, Respond, CallbackFails, Enqueue, MarkProcessed, MarkFailed
<1>2. CASE \E w \in Workers : WorkerStep(w)
  BY <1>2, WorkerWrites
<1>3. CASE Tick \/ UNCHANGED vars
  BY <1>3 DEF vars
<1>4. QED
  BY <1>1, <1>2, <1>3 DEF Next, WorkerStep

(* While a claim has not expired, nobody but its worker ends it or takes   *)
(* the job over, however many messages and workers the job has.            *)
THEOREM LeasesHold == Spec => LeaseRespected
<1>1. ASSUME TypeOK, [Next]_vars
      PROVE  Busy /\ job'.token # job.token =>
                \E w \in Workers : /\ worker[w].token = job.token
                                   /\ worker[w].pc \in {"finish", "retry"}
  <2> SUFFICES ASSUME Busy, job'.token # job.token
               PROVE  \E w \in Workers : /\ worker[w].token = job.token
                                         /\ worker[w].pc \in {"finish", "retry"}
      OBVIOUS
  <2>a. job \in Jobs
    BY <1>1 DEF TypeOK
  <2>1. ASSUME NEW h \in Handlers, Stage(h) \/ MarkDispatched(h)
        PROVE  FALSE
    BY <2>1, <2>a DEF Stage, MarkDispatched, Jobs
  <2>2. ASSUME NEW w \in Workers, Claims(w) \/ Saves(w) \/ Renews(w)
        PROVE  FALSE
    BY <2>2, <2>a DEF Claims, Saves, Renews, Jobs
  <2>3. ASSUME NEW w \in Workers, Ends(w)
        PROVE  worker[w].token = job.token /\ worker[w].pc \in {"finish", "retry"}
    BY <2>3 DEF Ends, Owns
  <2>4. ~Tick
    BY <2>a DEF Tick, Jobs
  <2>5. QED
    BY <1>1, <2>1, <2>2, <2>3, <2>4, RowStep
<1>2. QED
  BY <1>1, TypeCorrect, PTL DEF Spec, LeaseRespected, vars

-----------------------------------------------------------------------------
(***************************************************************************)
(* A finished job has no lease, so that not even time changes it.          *)
(***************************************************************************)
NoLeaseAtEnd == job.status \in Terminal => job.lease = 0

LEMMA NoLeaseAtEndStep == TypeOK /\ NoLeaseAtEnd /\ [Next]_vars => NoLeaseAtEnd'
<1> SUFFICES ASSUME TypeOK, NoLeaseAtEnd, [Next]_vars PROVE NoLeaseAtEnd'
    OBVIOUS
<1>a. job \in Jobs
  BY DEF TypeOK
<1>1. CASE UNCHANGED job
  BY <1>1 DEF NoLeaseAtEnd
<1>2. ASSUME NEW h \in Handlers, Stage(h) \/ MarkDispatched(h)
      PROVE  NoLeaseAtEnd'
  BY <1>2, <1>a DEF Stage, MarkDispatched, NoLeaseAtEnd, Jobs, Terminal
<1>3. ASSUME NEW w \in Workers, Claims(w) \/ Saves(w) \/ Renews(w)
      PROVE  NoLeaseAtEnd'
  BY <1>3, <1>a DEF Claims, Saves, Renews, Owns, NoLeaseAtEnd, Jobs, Terminal
<1>4. ASSUME NEW w \in Workers, Ends(w)
      PROVE  NoLeaseAtEnd'
  BY <1>4, <1>a DEF Ends, Ended, NoLeaseAtEnd, Jobs
<1>5. CASE Tick
  BY <1>5, <1>a DEF Tick, Less, NoLeaseAtEnd, Jobs
<1>6. QED
  BY <1>1, <1>2, <1>3, <1>4, <1>5, RowStep

(* A finished job never changes again, except that a late mark_dispatched  *)
(* may still write its task_id.                                            *)
THEOREM EndsAreFinal == Spec => TerminalIsFinal
<1>1. Init => NoLeaseAtEnd
  BY DEF Init, NoJob, NoLeaseAtEnd
<1>2. ASSUME TypeOK, NoLeaseAtEnd, [Next]_vars
      PROVE  job.status \in Terminal => job' = [job EXCEPT !.task = job'.task]
  <2> SUFFICES ASSUME job.status \in Terminal
               PROVE  job' = [job EXCEPT !.task = job'.task]
      OBVIOUS
  <2>a. job \in Jobs /\ job.lease = 0
    BY <1>2 DEF TypeOK, NoLeaseAtEnd
  <2>b. job = [job EXCEPT !.task = job.task]
    BY <2>a DEF Jobs
  <2>1. CASE UNCHANGED job
    BY <2>1, <2>b
  <2>2. ASSUME NEW h \in Handlers, Stage(h)
        PROVE  UNCHANGED job
    BY <2>2 DEF Stage, Terminal
  <2>3. ASSUME NEW h \in Handlers, MarkDispatched(h)
        PROVE  job' = [job EXCEPT !.task = job'.task]
    BY <2>3, <2>a, <2>b DEF MarkDispatched, Jobs
  <2>4. ASSUME NEW w \in Workers, Claims(w) \/ Saves(w) \/ Ends(w) \/ Renews(w)
        PROVE  FALSE
    BY <2>4 DEF Claims, Saves, Ends, Renews, Owns, Terminal
  <2>5. ASSUME Tick
        PROVE  UNCHANGED job
    BY <2>5, <2>a DEF Tick, Less, Jobs
  <2>6. QED
    BY <1>2, <2>1, <2>2, <2>3, <2>4, <2>5, RowStep
<1>3. QED
  BY <1>1, <1>2, NoLeaseAtEndStep, TypeCorrect, PTL DEF Spec, TerminalIsFinal, vars

-----------------------------------------------------------------------------
(***************************************************************************)
(* A part that is recorded was sent.  This holds of what a worker remembers*)
(* as well as of the row, because nothing that was sent is unsent: so a    *)
(* worker that has nothing left to do has told everything, even if other   *)
(* workers have recorded parts of the answer before it or beside it.       *)
(***************************************************************************)
Told(p) == IF p \in {"card", "refusal"} THEN Cards > 0 ELSE sent[p] > 0
Recorded(saved) == \A f \in saved \ {"results"} : Told(f)

Tells(w) ==
    /\ Recorded(worker[w].saved)
    /\ worker[w].pc \in {"work", "deliver", "send", "checkpoint", "finish"} =>
          worker[w].outcome # "NONE"
    /\ worker[w].pc \in {"send", "checkpoint"} =>
          \A p \in Plan(worker[w].outcome) : p \in worker[w].todo \/ Told(p)
    /\ worker[w].pc = "checkpoint" => \A p \in Due(w) : Told(p)
    /\ worker[w].pc = "finish" =>
          worker[w].outcome = "FAILED" \/ \A p \in Plan(worker[w].outcome) : Told(p)

TellInv == EndIsTold /\ Recorded(job.saved) /\ \A w \in Workers : Tells(w)

(* Parts are sent, never unsent.                                           *)
LEMMA SentGrows ==
    ASSUME TypeOK, [Next]_vars
    PROVE  \A p \in Parts : sent'[p] >= sent[p] /\ sent'[p] \in Nat /\ sent[p] \in Nat
<1>a. sent \in [Parts -> Nat]
  BY DEF TypeOK
<1>1. CASE \E h \in Handlers : Callback(h) \/ Respond(h) \/ CallbackFails(h)
  BY <1>1, <1>a DEF Callback, Respond, Stage, Enqueue, MarkDispatched, MarkProcessed,
                    MarkFailed, CallbackFails
<1>2. ASSUME NEW w \in Workers, Send(w) \/ DeliveryFails(w)
      PROVE  sent' = sent \/ \E p \in Parts : sent' = [sent EXCEPT ![p] = @ + 1]
  <2>1. Due(w) \subseteq Parts
    BY <1>2, WorkerParts DEF Due, TypeOK
  <2>2. QED
    BY <1>2, <2>1 DEF Send, DeliveryFails
<1>3. ASSUME NEW w \in Workers, WorkerStep(w), ~(Send(w) \/ DeliveryFails(w))
      PROVE  sent' = sent
  BY <1>3 DEF WorkerStep, Execute, Receive, Claim, Read, Work, Deliver, Checkpoint, Finish,
         Retry, Unexpected, Stop, Renew, WorkFails, Miss, Crash, Redeliver
<1>4. CASE Tick \/ UNCHANGED vars
  BY <1>4, <1>a DEF Tick, vars
<1>5. QED
  BY <1>1, <1>2, <1>3, <1>4, <1>a DEF Next, WorkerStep

LEMMA ToldStays ==
    ASSUME TypeOK, [Next]_vars, NEW p \in Parts \cup Fields, p # "results", Told(p)
    PROVE  Told(p)'
<1>1. Cards' >= Cards /\ Cards \in Nat /\ Cards' \in Nat
  BY SentGrows DEF Cards, Parts
<1>2. QED
  BY <1>1, SentGrows DEF Told, Parts, Fields

(* Parts of one rank are told together.                                    *)
LEMMA DueTogether ==
    ASSUME TypeOK, NEW w \in Workers, NEW p \in Due(w), NEW q \in Due(w)
    PROVE  p = q \/ (p \in {"card", "refusal"} /\ q \in {"card", "refusal"})
<1>1. p \in Parts /\ q \in Parts /\ Rank[p] <= Rank[q] /\ Rank[q] <= Rank[p]
  BY WorkerParts DEF Due, TypeOK
<1>2. QED
  BY <1>1 DEF Parts, Rank

(* A worker that does not move still remembers what was told.              *)
LEMMA TellsStays ==
    ASSUME TypeOK, [Next]_vars, NEW w \in Workers, Tells(w), worker'[w] = worker[w]
    PROVE  Tells(w)'
<1>a. /\ worker[w].saved \in SUBSET Fields /\ worker[w].todo \in SUBSET Parts
      /\ Plan(worker[w].outcome) \subseteq Parts
  BY DEF TypeOK, WorkerStates, Plan, Parts
<1>1. Due(w)' = Due(w)
  BY DEF Due
<1>2. \A p \in Due(w) : p \in Parts
  BY <1>a DEF Due
<1>3. \A p \in Parts \cup Fields : p # "results" /\ Told(p) => Told(p)'
  BY ToldStays
<1>4. "results" \notin Parts
  BY DEF Parts
<1>5. Recorded(worker[w].saved)'
  BY <1>a, <1>3 DEF Tells, Recorded
<1>6. QED
  BY <1>a, <1>1, <1>2, <1>3, <1>4, <1>5 DEF Tells

(* A worker that stops, fails or starts over has nothing left to tell.     *)
Resting == {"idle", "claim", "read", "retry", "unexpected", "stop"}

LEMMA TellsResting ==
    ASSUME TypeOK, [Next]_vars, NEW w \in Workers, Tells(w),
           worker'[w].saved \subseteq worker[w].saved, worker'[w].pc \in Resting
    PROVE  Tells(w)'
<1>1. worker[w].saved \in SUBSET Fields
  BY DEF TypeOK, WorkerStates
<1>2. \A f \in Fields \ {"results"} : Told(f) => Told(f)'
  BY ToldStays
<1>3. Recorded(worker[w].saved)'
  BY <1>1, <1>2 DEF Tells, Recorded
<1>4. QED
  BY <1>3 DEF Tells, Resting

LEMMA RestingSteps ==
    ASSUME TypeOK, NEW w \in Workers
    PROVE  /\ Acknowledge(w) => worker'[w].saved = {} /\ worker'[w].pc \in Resting
           /\ \A exit \in Exits : Leaves(w, exit) =>
                 worker'[w].saved = worker[w].saved /\ worker'[w].pc \in Resting
           /\ \A pc \in {"retry", "unexpected"} : Goes(w, pc) =>
                 worker'[w].saved = worker[w].saved /\ worker'[w].pc \in Resting
<1>a. worker \in [Workers -> WorkerStates] /\ worker[w] \in WorkerStates
  BY DEF TypeOK
<1>1. Acknowledge(w) => worker'[w] = Idle
  BY <1>a DEF Acknowledge
<1>2. ASSUME NEW exit \in Exits, Leaves(w, exit)
      PROVE  worker'[w] = [worker[w] EXCEPT !.pc = "stop", !.exit = exit]
  BY <1>a, <1>2 DEF Leaves
<1>3. ASSUME NEW pc \in {"retry", "unexpected"}, Goes(w, pc)
      PROVE  worker'[w] = [worker[w] EXCEPT !.pc = pc]
  BY <1>a, <1>3 DEF Goes
<1>4. Acknowledge(w) => worker'[w].saved = {} /\ worker'[w].pc \in Resting
  BY <1>1 DEF Idle, Resting
<1>5. ASSUME NEW exit \in Exits, Leaves(w, exit)
      PROVE  worker'[w].saved = worker[w].saved /\ worker'[w].pc \in Resting
  BY <1>a, <1>2, <1>5 DEF Resting, WorkerStates
<1>6. ASSUME NEW pc \in {"retry", "unexpected"}, Goes(w, pc)
      PROVE  worker'[w].saved = worker[w].saved /\ worker'[w].pc \in Resting
  BY <1>a, <1>3, <1>6 DEF Resting, WorkerStates
<1>7. QED
  BY <1>4, <1>5, <1>6

(* The steps of a worker that computes or delivers.                        *)
LEMMA ReadTells ==
    ASSUME TypeOK, [Next]_vars, NEW w \in Workers, Tells(w), Recorded(job.saved), Read(w)
    PROVE  Tells(w)'
<1>1. worker[w] \in WorkerStates /\ job.saved \in SUBSET Fields
  BY JobParts DEF TypeOK
<1>2. /\ worker'[w].saved = job.saved /\ worker'[w].outcome = "SUCCEEDED"
      /\ worker'[w].pc \in {"deliver", "work"}
  BY <1>1 DEF Read, TypeOK, WorkerStates
<1>3. \A f \in Fields \ {"results"} : Told(f) => Told(f)'
  BY ToldStays
<1>4. Recorded(worker[w].saved)'
  BY <1>1, <1>2, <1>3 DEF Recorded
<1>5. QED
  BY <1>2, <1>4 DEF Tells

LEMMA WorkTells ==
    ASSUME TypeOK, [Next]_vars, NEW w \in Workers, Tells(w), Recorded(job.saved), Work(w)
    PROVE  Tells(w)'
<1>a. worker[w] \in WorkerStates /\ job \in Jobs /\ worker[w].saved \in SUBSET Fields
      /\ job.saved \in SUBSET Fields
  BY JobParts DEF TypeOK, WorkerStates
<1>b. \A f \in Fields \ {"results"} : Told(f) => Told(f)'
  BY ToldStays
<1>1. CASE Refused(w)
  BY <1>1, RestingSteps, TellsResting DEF Refused, Exits
<1>2. CASE /\ job' = [job EXCEPT !.saved = @ \cup {"results"}]
           /\ worker' = [worker EXCEPT ![w] =
                 [@ EXCEPT !.pc = "deliver", !.saved = job'.saved]]
  <2>1. job'.saved = job.saved \cup {"results"}
    BY <1>2, <1>a DEF Jobs
  <2>2. /\ worker'[w].saved = job.saved \cup {"results"}
        /\ worker'[w].outcome = worker[w].outcome /\ worker'[w].pc = "deliver"
    BY <1>2, <1>a, <2>1 DEF TypeOK, WorkerStates
  <2>3. Recorded(worker[w].saved)'
    BY <1>a, <1>b, <2>2 DEF Recorded
  <2>4. worker[w].outcome # "NONE"
    BY DEF Work, Tells
  <2>5. QED
    BY <2>2, <2>3, <2>4 DEF Tells
<1>3. CASE \/ worker' = [worker EXCEPT ![w] = [@ EXCEPT !.pc = "deliver", !.outcome = "REJECTED"]]
           \/ worker' = [worker EXCEPT ![w] = [@ EXCEPT !.pc = "finish", !.outcome = "FAILED"]]
  <2>1. /\ worker'[w].saved = worker[w].saved
        /\ \/ worker'[w].pc = "deliver" /\ worker'[w].outcome = "REJECTED"
           \/ worker'[w].pc = "finish" /\ worker'[w].outcome = "FAILED"
    <3>1. ASSUME NEW pc, NEW o,
                 worker' = [worker EXCEPT ![w] = [@ EXCEPT !.pc = pc, !.outcome = o]]
          PROVE  /\ worker'[w].saved = worker[w].saved
                 /\ worker'[w].pc = pc /\ worker'[w].outcome = o
      BY <3>1, <1>a DEF TypeOK, WorkerStates
    <3>2. QED
      BY <1>3, <3>1
  <2>2. Recorded(worker[w].saved)'
    BY <1>a, <1>b, <2>1 DEF Recorded, Tells
  <2>3. QED
    BY <2>1, <2>2 DEF Tells
<1>4. QED
  BY <1>1, <1>2, <1>3 DEF Work

LEMMA DeliverTells ==
    ASSUME TypeOK, [Next]_vars, NEW w \in Workers, Tells(w), Deliver(w)
    PROVE  Tells(w)'
<1>a. worker[w] \in WorkerStates /\ worker[w].saved \in SUBSET Fields
  BY DEF TypeOK, WorkerStates
<1>b. \A f \in (Parts \cup Fields) \ {"results"} : Told(f) => Told(f)'
  BY ToldStays
<1>c. worker[w].outcome # "NONE"
  BY DEF Deliver, Tells
<1>1. CASE Refused(w)
  BY <1>1, RestingSteps, TellsResting DEF Refused, Exits
<1>2. CASE worker' = [worker EXCEPT ![w].outcome = "REJECTED"]
  <2>1. /\ worker'[w].saved = worker[w].saved /\ worker'[w].pc = "deliver"
        /\ worker'[w].outcome = "REJECTED"
    BY <1>2, <1>a DEF Deliver, TypeOK, WorkerStates
  <2>2. Recorded(worker[w].saved)'
    BY <1>a, <1>b, <2>1 DEF Recorded, Tells
  <2>3. QED
    BY <2>1, <2>2 DEF Tells
<1>3. ASSUME NEW unsent, NEW pc,
             unsent = {p \in Plan(worker[w].outcome) : Field(p) \notin worker[w].saved},
             pc = IF unsent = {} THEN "finish" ELSE "send",
             worker' = [worker EXCEPT ![w] = [@ EXCEPT !.todo = unsent, !.pc = pc]]
      PROVE  Tells(w)'
  <2>1. /\ worker'[w].saved = worker[w].saved /\ worker'[w].pc = pc
        /\ worker'[w].todo = unsent /\ worker'[w].outcome = worker[w].outcome
    BY <1>3, <1>a DEF TypeOK, WorkerStates
  <2>2. Recorded(worker[w].saved)'
    BY <1>a, <1>b, <2>1 DEF Recorded, Tells
  <2>3. ASSUME NEW p \in Plan(worker[w].outcome), p \notin unsent
        PROVE  Told(p)'
    <3>1. p \in Parts /\ p # "results"
      BY DEF Plan, Parts
    <3>2. Field(p) \in worker[w].saved /\ Field(p) # "results"
      BY <1>3, <2>3, <3>1 DEF Field, Parts
    <3>3. Told(Field(p))
      BY <3>2 DEF Tells, Recorded
    <3>4. Told(p)
      BY <3>1, <3>3 DEF Told, Field, Parts
    <3>5. QED
      BY <1>b, <3>1, <3>4
  <2>4. QED
    BY <1>3, <1>c, <2>1, <2>2, <2>3 DEF Tells
<1>4. QED
  BY <1>1, <1>2, <1>3, Zenon DEF Deliver

LEMMA SendTells ==
    ASSUME TypeOK, [Next]_vars, NEW w \in Workers, Tells(w), Send(w)
    PROVE  Tells(w)'
<1>a. /\ worker[w] \in WorkerStates /\ worker[w].saved \in SUBSET Fields
      /\ worker[w].todo \in SUBSET Parts /\ sent \in [Parts -> Nat]
      /\ Plan(worker[w].outcome) \subseteq Parts
  BY DEF TypeOK, WorkerStates, Plan, Parts
<1>b. \A f \in (Parts \cup Fields) \ {"results"} : Told(f) => Told(f)'
  BY ToldStays
<1>1. /\ worker'[w].saved = worker[w].saved /\ worker'[w].pc = "checkpoint"
      /\ worker'[w].todo = worker[w].todo /\ worker'[w].outcome = worker[w].outcome
  BY <1>a DEF Send, Goes, TypeOK, WorkerStates
<1>2. Recorded(worker[w].saved)'
  BY <1>a, <1>b, <1>1 DEF Recorded, Tells
<1>3. PICK p \in Due(w) : sent' = [sent EXCEPT ![p] = @ + 1]
  BY DEF Send
<1>4. p \in Parts /\ Told(p)'
  <2>1. p \in Parts /\ sent[p] \in Nat /\ sent'[p] = sent[p] + 1
    BY <1>3, <1>a DEF Due
  <2>2. \A q \in Parts : sent'[q] \in Nat
    BY SentGrows
  <2>3. p \in {"card", "refusal"} => Cards' > 0
    BY <2>1, <2>2 DEF Cards, Parts
  <2>4. QED
    BY <2>1, <2>3 DEF Told
<1>5. ASSUME NEW q \in Due(w) PROVE Told(q)'
  <2>1. q = p \/ (p \in {"card", "refusal"} /\ q \in {"card", "refusal"})
    BY <1>3, <1>5, DueTogether
  <2>2. QED
    BY <1>4, <2>1 DEF Told
<1>6. Due(w)' = Due(w)
  BY <1>1 DEF Due
<1>7. "results" \notin Parts
  BY DEF Parts
<1>8. \A q \in Plan(worker[w].outcome) : q \in worker[w].todo \/ Told(q)'
  BY <1>a, <1>b, <1>7 DEF Send, Tells
<1>9. worker[w].outcome # "NONE"
  BY DEF Send, Tells
<1>10. QED
  BY <1>1, <1>2, <1>5, <1>6, <1>8, <1>9 DEF Tells

LEMMA CheckpointTells ==
    ASSUME TypeOK, [Next]_vars, NEW w \in Workers, Tells(w), Checkpoint(w)
    PROVE  Tells(w)'
<1>a. /\ worker[w] \in WorkerStates /\ worker[w].saved \in SUBSET Fields
      /\ worker[w].todo \in SUBSET Parts /\ Plan(worker[w].outcome) \subseteq Parts
  BY DEF TypeOK, WorkerStates, Plan, Parts
<1>b. \A f \in (Parts \cup Fields) \ {"results"} : Told(f) => Told(f)'
  BY ToldStays
<1>1. CASE Refused(w)
  BY <1>1, RestingSteps, TellsResting DEF Refused, Exits
<1>2. ASSUME NEW p \in Due(w), NEW rest, NEW pc, rest = worker[w].todo \ {p},
             pc = IF rest = {} THEN "finish" ELSE "send",
             worker' = [worker EXCEPT ![w] = [@ EXCEPT !.todo = rest, !.pc = pc]]
      PROVE  Tells(w)'
  <2>1. /\ worker'[w].saved = worker[w].saved /\ worker'[w].pc = pc
        /\ worker'[w].todo = rest /\ worker'[w].outcome = worker[w].outcome
    BY <1>2, <1>a DEF TypeOK, WorkerStates
  <2>2. Recorded(worker[w].saved)'
    BY <1>a, <1>b, <2>1 DEF Recorded, Tells
  <2>3. "results" \notin Parts
    BY DEF Parts
  <2>4. \A q \in Plan(worker[w].outcome) : q \in rest \/ Told(q)'
    BY <1>a, <1>b, <1>2, <2>3 DEF Checkpoint, Tells
  <2>5. worker[w].outcome # "NONE"
    BY DEF Checkpoint, Tells
  <2>6. QED
    BY <1>2, <2>1, <2>2, <2>4, <2>5 DEF Tells
<1>3. QED
  BY <1>1, <1>2, Zenon DEF Checkpoint

(* Every step of a worker leaves it with a true memory of what was told.   *)
LEMMA MoverTells ==
    ASSUME TypeOK, [Next]_vars, NEW w \in Workers, Tells(w), Recorded(job.saved), WorkerStep(w)
    PROVE  Tells(w)'
<1>a. worker \in [Workers -> WorkerStates] /\ worker[w] \in WorkerStates
  BY DEF TypeOK
<1>1. CASE Receive(w)
  <2>1. worker'[w].pc = "claim" /\ worker'[w].saved = {}
    BY <1>1, <1>a DEF Receive, Idle
  <2>2. QED
    BY <2>1, TellsResting DEF Resting
<1>2. CASE Claim(w)
  <2>1. CASE Acknowledge(w)
    BY <2>1, RestingSteps, TellsResting
  <2>2. CASE TakeClaim(w)
    <3>1. worker'[w].pc = "read" /\ worker'[w].saved = worker[w].saved
      BY <2>2, <1>a DEF TakeClaim, WorkerStates
    <3>2. QED
      BY <3>1, TellsResting DEF Resting
  <2>3. QED
    BY <1>2, <2>1, <2>2 DEF Claim
<1>3. CASE Read(w) \/ Work(w) \/ Deliver(w) \/ Send(w) \/ Checkpoint(w)
  BY <1>3, ReadTells, WorkTells, DeliverTells, SendTells, CheckpointTells
<1>4. CASE Finish(w) \/ Retry(w)
  BY <1>4, RestingSteps, TellsResting DEF Finish, Retry, Refused, Exits
<1>5. CASE Unexpected(w)
  <2>1. CASE worker' = [worker EXCEPT ![w] = Idle]
    BY <2>1, RestingSteps, TellsResting DEF Acknowledge
  <2>2. CASE worker' = [worker EXCEPT ![w] = [worker[w] EXCEPT !.pc = "retry",
                           !.beat = "off", !.attempt = job.attempts]]
    <3>1. worker'[w].pc = "retry" /\ worker'[w].saved = worker[w].saved
      BY <2>2, <1>a DEF WorkerStates
    <3>2. QED
      BY <3>1, TellsResting DEF Resting
  <2>3. QED
    BY <1>5, <2>1, <2>2, Zenon DEF Unexpected
<1>6. CASE Stop(w) \/ Crash(w)
  BY <1>6, RestingSteps, TellsResting DEF Stop, Crash
<1>7. CASE WorkFails(w) \/ DeliveryFails(w)
  BY <1>7, RestingSteps, TellsResting DEF WorkFails, DeliveryFails
<1>8. CASE Renew(w) \/ Redeliver(w)
  BY <1>8, TellsStays DEF Renew, Redeliver
<1>9. CASE Miss(w)
  <2>1. worker'[w] = [worker[w] EXCEPT !.beat = "failed"]
    BY <1>9, <1>a DEF Miss
  <2>2. /\ worker'[w].saved = worker[w].saved /\ worker'[w].pc = worker[w].pc
        /\ worker'[w].todo = worker[w].todo /\ worker'[w].outcome = worker[w].outcome
    BY <2>1, <1>a DEF WorkerStates
  <2>3. UNCHANGED sent
    BY <1>9 DEF Miss
  <2>4. Due(w)' = Due(w)
    BY <2>2 DEF Due
  <2>5. \A q : Told(q)' <=> Told(q)
    BY <2>3 DEF Told, Cards
  <2>6. QED
    BY <2>2, <2>4, <2>5 DEF Tells, Recorded
<1>10. QED
  BY <1>1, <1>2, <1>3, <1>4, <1>5, <1>6, <1>7, <1>8, <1>9 DEF WorkerStep, Execute

(* The other workers do not move.                                          *)
LEMMA OthersStay ==
    ASSUME TypeOK, NEW w \in Workers, WorkerStep(w), NEW v \in Workers, v # w
    PROVE  worker'[v] = worker[v]
<1>1. worker \in [Workers -> WorkerStates]
  BY DEF TypeOK
<1>2. CASE Receive(w) \/ Unexpected(w) \/ Stop(w) \/ Crash(w) \/ Renew(w) \/ Redeliver(w)
  BY <1>1, <1>2 DEF Receive, Unexpected, Stop, Crash, Renew, Redeliver, Acknowledge
<1>3. CASE Claim(w) \/ Read(w) \/ Miss(w)
  BY <1>1, <1>3 DEF Claim, TakeClaim, Acknowledge, Read, Miss
<1>4. CASE Work(w) \/ Deliver(w) \/ Checkpoint(w)
  BY <1>1, <1>4 DEF Work, Deliver, Checkpoint, Refused, Leaves
<1>5. CASE Send(w) \/ WorkFails(w) \/ DeliveryFails(w)
  BY <1>1, <1>5 DEF Send, WorkFails, DeliveryFails, Goes
<1>6. CASE Finish(w) \/ Retry(w)
  BY <1>1, <1>6 DEF Finish, Retry, Refused, Leaves
<1>7. QED
  BY <1>2, <1>3, <1>4, <1>5, <1>6 DEF WorkerStep, Execute

LEMMA TellsStep ==
    ASSUME TypeOK, TellInv, [Next]_vars
    PROVE  \A w \in Workers : Tells(w)'
<1> SUFFICES ASSUME NEW v \in Workers PROVE Tells(v)'
    OBVIOUS
<1>a. Tells(v) /\ Recorded(job.saved)
  BY DEF TellInv
<1>1. CASE \E h \in Handlers : Callback(h) \/ Respond(h) \/ CallbackFails(h)
  <2>1. UNCHANGED worker
    BY <1>1 DEF Callback, Respond, Stage, Enqueue, MarkDispatched, MarkProcessed,
                MarkFailed, CallbackFails
  <2>2. QED
    BY <2>1, <1>a, TellsStays
<1>2. ASSUME NEW w \in Workers, WorkerStep(w)
      PROVE  Tells(v)'
  BY <1>a, <1>2, MoverTells, OthersStay, TellsStays
<1>3. CASE Tick \/ UNCHANGED vars
  BY <1>3, <1>a, TellsStays DEF Tick, vars
<1>4. QED
  BY <1>1, <1>2, <1>3 DEF Next, WorkerStep

LEMMA TellStep == TypeOK /\ TellInv /\ [Next]_vars => TellInv'
<1> SUFFICES ASSUME TypeOK, TellInv, [Next]_vars PROVE TellInv'
    OBVIOUS
<1>a. job \in Jobs /\ job.saved \in SUBSET Fields /\ Recorded(job.saved) /\ EndIsTold
  BY JobParts DEF TypeOK, TellInv
<1>b. \A f \in (Parts \cup Fields) \ {"results"} : Told(f) => Told(f)'
  BY ToldStays
<1>c. "results" \notin Parts /\ Plan("SUCCEEDED") \subseteq Parts
      /\ Plan("REJECTED") \subseteq Parts
  BY DEF Parts, Plan
<1>d. \A s \in Terminal : EndIsTold /\ job'.status = s /\ job.status = s => EndIsTold'
  <2>1. Told("card") /\ Told("record") => (Told("card") /\ Told("record"))'
    BY <1>b DEF Parts
  <2>2. Told("report") /\ Told("notice") => (Told("report") /\ Told("notice"))'
    BY <1>b DEF Parts
  <2>3. QED
    BY <2>1, <2>2 DEF EndIsTold, Told
<1>1. ASSUME job'.saved = job.saved PROVE Recorded(job.saved)'
  BY <1>1, <1>a, <1>b DEF Recorded
<1>2. CASE UNCHANGED job
  BY <1>1, <1>2, <1>a, <1>d, TellsStep DEF TellInv, EndIsTold, Terminal
<1>3. ASSUME NEW h \in Handlers, Stage(h) \/ MarkDispatched(h)
      PROVE  TellInv'
  <2>1. job'.saved = job.saved /\ (job'.status = job.status \/ job'.status = "PENDING")
    BY <1>3, <1>a DEF Stage, MarkDispatched, Jobs
  <2>2. QED
    BY <1>1, <2>1, <1>a, <1>d, TellsStep DEF TellInv, EndIsTold, Terminal
<1>4. ASSUME NEW w \in Workers, Claims(w) \/ Renews(w)
      PROVE  TellInv'
  <2>1. job'.saved = job.saved /\ job'.status = "RUNNING"
    BY <1>4, <1>a DEF Claims, Renews, Owns, Jobs
  <2>2. QED
    BY <1>1, <2>1, TellsStep DEF TellInv, EndIsTold
<1>5. ASSUME NEW w \in Workers, Saves(w)
      PROVE  TellInv'
  <2>1. PICK f \in Fields :
           /\ f = "results" \/ (worker[w].pc = "checkpoint" /\ \E p \in Due(w) : f = Field(p))
           /\ job' = [job EXCEPT !.saved = @ \cup {f}]
    BY <1>5 DEF Saves
  <2>2. job'.saved = job.saved \cup {f} /\ job'.status = "RUNNING"
    BY <1>5, <2>1, <1>a DEF Saves, Owns, Jobs
  <2>3. f = "results" \/ Told(f)
    <3>1. \A p \in Due(w) : worker[w].pc = "checkpoint" => Told(p)
      BY DEF TellInv, Tells
    <3>2. \A p : Told(p) => Told(Field(p))
      BY DEF Told, Field
    <3>3. QED
      BY <2>1, <3>1, <3>2
  <2>4. Recorded(job.saved)'
    BY <1>a, <1>b, <2>2, <2>3 DEF Recorded
  <2>5. QED
    BY <2>2, <2>4, TellsStep DEF TellInv, EndIsTold
<1>6. ASSUME NEW w \in Workers, Ends(w)
      PROVE  TellInv'
  <2>1. /\ job'.saved = job.saved
        /\ job'.status = IF worker[w].pc = "finish" THEN worker[w].outcome
                         ELSE IF worker[w].attempt >= MaxAttempts THEN "FAILED"
                         ELSE "RETRYABLE"
    BY <1>6, <1>a DEF Ends, Ended, Jobs
  <2>2. ASSUME job'.status \in {"SUCCEEDED", "REJECTED"}
        PROVE  \A p \in Plan(job'.status) : Told(p)'
    <3>1. worker[w].pc = "finish" /\ worker[w].outcome = job'.status
      BY <2>1, <2>2
    <3>2. \A p \in Plan(job'.status) : Told(p)
      BY <2>2, <3>1 DEF TellInv, Tells
    <3>3. QED
      BY <1>b, <1>c, <2>2, <3>2
  <2>3. EndIsTold'
    BY <2>2 DEF EndIsTold, Plan, Told
  <2>4. QED
    BY <1>1, <2>1, <2>3, TellsStep DEF TellInv
<1>7. CASE Tick
  <2>1. job'.saved = job.saved /\ job'.status = job.status
    BY <1>7, <1>a DEF Tick, Jobs
  <2>2. QED
    BY <1>1, <2>1, <1>a, <1>d, TellsStep DEF TellInv, EndIsTold, Terminal
<1>8. QED
  BY <1>2, <1>3, <1>4, <1>5, <1>6, <1>7, RowStep

LEMMA TellInvariant == Spec => []TellInv
<1>1. Init => TellInv
  BY DEF Init, TellInv, EndIsTold, Recorded, Tells, NoJob, Idle
<1>2. QED
  BY <1>1, TellStep, TypeCorrect, PTL DEF Spec

(* A job ends as a success or as a rejection only after everything that    *)
(* this answer consists of has reached Feishu, for any number of workers   *)
(* that deliver it after each other or at the same time.                   *)
THEOREM AnswersAreTold == Spec => []EndIsTold
<1>1. TellInv => EndIsTold
  BY DEF TellInv
<1>2. QED
  BY <1>1, TellInvariant, PTL

-----------------------------------------------------------------------------
(***************************************************************************)
(* A callback that acknowledges has seen the job dispatched: neither the   *)
(* job nor its task_id ever disappears, whoever writes the row meanwhile.  *)
(***************************************************************************)
Durable == job.status # "NONE"

Carries(h) ==
    /\ handler[h].pc # "idle" => handler[h].token > 0
    /\ handler[h].pc \in {"enqueue", "mark", "acknowledge"} => Durable
    /\ handler[h].pc = "acknowledge" => job.task # 0

DispatchInv == AcknowledgedIsDispatched /\ \A h \in Handlers : Carries(h)

LEMMA RowStays ==
    ASSUME TypeOK, TellInv, [Next]_vars
    PROVE  /\ Durable => Durable'
           /\ job.task # 0 /\ (\A h \in Handlers : MarkDispatched(h) => handler[h].token # 0)
                => job'.task # 0
<1>a. job \in Jobs
  BY DEF TypeOK
<1>1. CASE UNCHANGED job
  BY <1>1 DEF Durable
<1>2. ASSUME NEW h \in Handlers, Stage(h)
      PROVE  (Durable => Durable') /\ job'.task = job.task
  BY <1>2, <1>a DEF Stage, Durable, Jobs
<1>3. ASSUME NEW h \in Handlers, MarkDispatched(h)
      PROVE  (Durable => Durable') /\ job'.task \in {job.task, handler[h].token}
  BY <1>3, <1>a DEF MarkDispatched, Durable, Jobs
<1>4. ASSUME NEW w \in Workers, Claims(w) \/ Saves(w) \/ Renews(w)
      PROVE  (Durable => Durable') /\ job'.task = job.task
  BY <1>4, <1>a DEF Claims, Saves, Renews, Durable, Jobs
<1>5. ASSUME NEW w \in Workers, Ends(w)
      PROVE  (Durable => Durable') /\ job'.task = job.task
  <2>1. worker[w].pc = "finish" => worker[w].outcome # "NONE"
    BY <1>5 DEF Ends, TellInv, Tells
  <2>2. QED
    BY <1>5, <1>a, <2>1 DEF Ends, Ended, Durable, Jobs
<1>6. CASE Tick
  BY <1>6, <1>a DEF Tick, Durable, Jobs
<1>7. QED
  BY <1>1, <1>2, <1>3, <1>4, <1>5, <1>6, RowStep

LEMMA DispatchStep == TypeOK /\ TellInv /\ DispatchInv /\ [Next]_vars => DispatchInv'
<1> SUFFICES ASSUME TypeOK, TellInv, DispatchInv, [Next]_vars PROVE DispatchInv'
    OBVIOUS
<1>a. /\ receipt \in Receipts /\ job \in Jobs /\ handler \in [Handlers -> Callbacks]
      /\ \A h \in Handlers : handler[h] \in Callbacks /\ handler[h].token \in Nat
  BY DEF TypeOK, Callbacks
<1>b. /\ Durable => Durable'
      /\ job.task # 0 => job'.task # 0
  <2>1. \A h \in Handlers : MarkDispatched(h) => handler[h].token # 0
    BY <1>a DEF DispatchInv, Carries, MarkDispatched
  <2>2. QED
    BY <2>1, RowStays
<1>c. /\ receipt.status = "PROCESSED" => Durable /\ job.task # 0
      /\ \A h \in Handlers : Carries(h)
  BY DEF DispatchInv, AcknowledgedIsDispatched, Durable
<1> HIDE DEF Durable
<1>1. ASSUME receipt'.status # "PROCESSED" \/ receipt.status = "PROCESSED"
      PROVE  AcknowledgedIsDispatched'
  BY <1>1, <1>b, <1>c DEF AcknowledgedIsDispatched, Durable
<1>2. ASSUME NEW h \in Handlers, UNCHANGED handler[h] PROVE Carries(h)'
  BY <1>2, <1>b, <1>c DEF Carries
<1>3. ASSUME NEW h \in Handlers, Callback(h) PROVE DispatchInv'
  <2>1. receipt'.status = receipt.status \/ receipt'.status = "IN_PROGRESS"
    BY <1>3 DEF Callback
  <2>2. \A g \in Handlers \ {h} : handler'[g] = handler[g]
    BY <1>3, <1>a DEF Callback
  <2>3. handler'[h] = handler[h] \/ (handler'[h].pc = "stage" /\ handler'[h].token > 0)
    BY <1>3, <1>a DEF Callback, Receipts
  <2>4. Carries(h)'
    BY <2>3, <1>2 DEF Carries
  <2>5. QED
    BY <1>1, <1>2, <2>1, <2>2, <2>4 DEF DispatchInv
<1>4. ASSUME NEW h \in Handlers, NEW pc, At(h, pc), Carries(h) => Carries(h)', UNCHANGED receipt
      PROVE  DispatchInv'
  <2>1. \A g \in Handlers \ {h} : handler'[g] = handler[g]
    BY <1>4, <1>a DEF At
  <2>2. QED
    BY <1>1, <1>2, <1>4, <1>c, <2>1 DEF DispatchInv
<1>5. ASSUME NEW h \in Handlers, Stage(h) \/ Enqueue(h) \/ MarkDispatched(h)
      PROVE  DispatchInv'
  <2>1. PICK pc \in CallbackPcs :
           /\ At(h, pc)
           /\ pc \in {"enqueue", "mark", "acknowledge"} => Durable'
           /\ pc = "acknowledge" => job'.task # 0
    <3>1. CASE Stage(h)
      BY <3>1, <1>a DEF Stage, CallbackPcs, Durable, Jobs
    <3>2. CASE Enqueue(h)
      BY <3>2, <1>b, <1>c DEF Enqueue, CallbackPcs, Carries
    <3>3. CASE MarkDispatched(h)
      <4>1. handler[h].token # 0
        BY <3>3, <1>a, <1>c DEF Carries, MarkDispatched
      <4>2. QED
        BY <3>3, <4>1, <1>a, <1>b, <1>c DEF MarkDispatched, CallbackPcs, Carries, Jobs
    <3>4. QED
      BY <1>5, <3>1, <3>2, <3>3
  <2>2. handler'[h].pc = pc /\ handler'[h].token = handler[h].token /\ handler[h].pc # "idle"
    BY <1>5, <2>1, <1>a DEF At, Callbacks, Stage, Enqueue, MarkDispatched
  <2>3. Carries(h)'
    BY <2>1, <2>2, <1>c DEF Carries
  <2>4. UNCHANGED receipt
    BY <1>5 DEF Stage, Enqueue, MarkDispatched
  <2>5. QED
    BY <1>4, <2>1, <2>3, <2>4
<1>6. ASSUME NEW h \in Handlers, MarkProcessed(h) \/ MarkFailed(h) \/ CallbackFails(h)
      PROVE  DispatchInv'
  <2>1. /\ \A g \in Handlers \ {h} : handler'[g] = handler[g]
        /\ \/ handler'[h].pc = "idle"
           \/ /\ handler'[h].pc = "release" /\ handler'[h].token = handler[h].token
              /\ handler[h].pc # "idle"
    BY <1>6, <1>a DEF MarkProcessed, MarkFailed, CallbackFails, At, Answer, NoCallback, Callbacks
  <2>2. receipt'.status = "PROCESSED" => receipt.status = "PROCESSED" \/ MarkProcessed(h)
    BY <1>6, <1>a DEF MarkFailed, CallbackFails, Unclaimed, Receipts
  <2>3. MarkProcessed(h) => AcknowledgedIsDispatched'
    BY <1>b, <1>c DEF MarkProcessed, Carries, AcknowledgedIsDispatched, Durable
  <2>4. AcknowledgedIsDispatched'
    BY <1>1, <2>2, <2>3
  <2>5. Carries(h)'
    BY <2>1, <1>c DEF Carries
  <2>6. QED
    BY <1>2, <2>1, <2>4, <2>5 DEF DispatchInv
<1>7. ASSUME UNCHANGED handler, receipt'.status = receipt.status PROVE DispatchInv'
  BY <1>1, <1>2, <1>7 DEF DispatchInv
<1>8. ASSUME NEW w \in Workers, WorkerStep(w) PROVE DispatchInv'
  BY <1>7, <1>8, WorkerFrame
<1>9. CASE Tick \/ UNCHANGED vars
  BY <1>7, <1>9, <1>a DEF Tick, vars, Receipts
<1>10. QED
  BY <1>3, <1>5, <1>6, <1>8, <1>9 DEF Next, Respond, WorkerStep

(* A callback is answered 200 only when its job is durable and dispatched, *)
(* whatever callbacks of the event overlap, fail or die.                   *)
THEOREM AcknowledgedMeansDispatched == Spec => []AcknowledgedIsDispatched
<1>1. Init => DispatchInv
  BY DEF Init, NoReceipt, NoCallback, DispatchInv, AcknowledgedIsDispatched, Carries
<1>2. DispatchInv => AcknowledgedIsDispatched
  BY DEF DispatchInv
<1>3. QED
  BY <1>1, <1>2, DispatchStep, TellInvariant, TypeCorrect, PTL DEF Spec

-----------------------------------------------------------------------------
(***************************************************************************)
(* Someone is responsible for a job as long as the heartbeat misses no     *)
(* round and the retries of a message outlast the faults.  A message with  *)
(* few retries left is no harm while a worker with a claim goes on, but    *)
(* that worker may be hit in its turn: so two faults is what the retries   *)
(* of one message pay for, each with the lease of a dead worker.           *)
(***************************************************************************)
RetriesOutlastFaults == MaxFaults <= 2 /\ MaxFaults * LeaseTTL <= MaxRetries

Healthy(w) ==
    worker[w].pc \in {"read", "work", "deliver", "send", "checkpoint", "finish"}
GivingUp(w) == worker[w].pc \in {"unexpected", "retry"}
Executing(w) == Healthy(w) \/ GivingUp(w)

(* Without a missed round the worker that executes owns its claim, and the *)
(* others have no claim that could be renewed.                             *)
Sober(w) ==
    /\ Executing(w) => Owns(w)
    /\ ~Executing(w) => worker[w].token # job.attempts \/ job.status # "RUNNING"
    /\ worker[w].token <= job.attempts
    /\ worker[w].beat # "failed"
SoberInv ==
    /\ job.status = "RUNNING" => job.token = job.attempts /\ job.attempts > 0
    /\ \A v, w \in Workers : Executing(v) /\ Executing(w) => v = w
    /\ \A w \in Workers : Sober(w)

(* What a step of a worker does, while nothing was missed, to a job that   *)
(* has not ended after it.                                                 *)
WorkerFault(w) == WorkFails(w) \/ DeliveryFails(w) \/ Crash(w) \/ Redeliver(w)
Bounces(w) ==
    /\ worker[w].pc = "claim" /\ Busy
    /\ RetryLater(w) /\ Acknowledge(w) /\ UNCHANGED job
Takes(w) == worker[w].pc = "claim" /\ ~Busy /\ TakeClaim(w) /\ UNCHANGED queue
Works(w) ==
    /\ Executing(w) /\ Executing(w)'
    /\ GivingUp(w) => GivingUp(w)'
    /\ Healthy(w) /\ ~WorkerFault(w) => Healthy(w)'
    /\ worker'[w].token = worker[w].token /\ worker'[w].retries = worker[w].retries
    /\ worker'[w].beat # "failed"
    /\ job'.status = job.status /\ job'.token = job.token /\ job'.attempts = job.attempts
    /\ job'.lease \in {job.lease, LeaseTTL} /\ job'.task = job.task
    /\ UNCHANGED queue
GivesUp(w) ==
    /\ worker[w].pc = "retry" /\ Owns(w)
    /\ worker'[w] = [worker[w] EXCEPT !.pc = "stop", !.exit = "again"]
    /\ job' = [job EXCEPT !.status = "RETRYABLE", !.token = 0, !.lease = 0]
    /\ UNCHANGED queue
Stops(w) ==
    /\ worker[w].pc = "stop" /\ Acknowledge(w) /\ UNCHANGED job
    /\ IF worker[w].exit = "again" THEN RetryLater(w) ELSE UNCHANGED queue

Others(w) == \A v \in Workers : v # w => worker'[v] = worker[v]

LEMMA WorkerShape ==
    ASSUME TypeOK, NEW w \in Workers
    PROVE  /\ worker[w] \in WorkerStates /\ job \in Jobs
           /\ worker[w].retries \in 0..MaxRetries /\ worker[w].token \in Nat
           /\ job.attempts \in Nat /\ job.lease \in 0..LeaseTTL /\ job.token \in Nat
  BY DEF TypeOK, WorkerStates, Jobs

LEMMA OthersRest ==
    ASSUME TypeOK, NEW w \in Workers, WorkerStep(w)
    PROVE  Others(w)
  BY DEF Others, TypeOK, WorkerStep, Execute, Receive, Claim, Read, Work, Deliver, Send,
      Checkpoint, Finish, Retry, Unexpected, Stop, Renew, WorkFails, DeliveryFails, Miss, Crash,
      Redeliver, Acknowledge, Refused, Leaves, Goes, TakeClaim

LEMMA EndedStays ==
    ASSUME TypeOK, [Next]_vars, job'.status \notin Terminal
    PROVE  job.status \notin Terminal
<1> SUFFICES ASSUME job.status \in Terminal PROVE FALSE
    OBVIOUS
<1>1. job \in Jobs
  BY DEF TypeOK
<1>2. ASSUME NEW h \in Handlers, Stage(h) \/ MarkDispatched(h) PROVE FALSE
  BY <1>1, <1>2 DEF Stage, MarkDispatched, Jobs, Terminal
<1>3. ASSUME NEW w \in Workers, Claims(w) \/ Saves(w) \/ Ends(w) \/ Renews(w) PROVE FALSE
  BY <1>3 DEF Claims, Saves, Ends, Renews, Owns, Terminal
<1>4. ~Tick
  BY <1>1 DEF Tick, Jobs
<1>5. QED
  BY <1>2, <1>3, <1>4, RowStep

LEMMA HealthyWorks ==
    ASSUME TypeOK, TellInv, SoberInv, NEW w \in Workers, job'.status \notin Terminal,
           Read(w) \/ Work(w) \/ Deliver(w) \/ Send(w) \/ Checkpoint(w) \/ Finish(w)
    PROVE  Works(w)
<1>1. /\ worker[w] \in WorkerStates /\ job \in Jobs /\ Owns(w) /\ Healthy(w)
      /\ worker[w].beat # "failed" /\ worker[w].outcome \in Terminal \cup {"NONE"}
  BY WorkerShape DEF SoberInv, Sober, Executing, Healthy, Read, Work, Deliver, Send, Checkpoint,
      Finish, WorkerStates
<1>2. ~GivingUp(w)
  BY <1>1 DEF Healthy, GivingUp
<1>3. PICK pc \in {"work", "deliver", "send", "checkpoint", "finish"} :
         \E r \in {worker'[w]} :
            /\ r.pc = pc /\ r.token = worker[w].token /\ r.retries = worker[w].retries
            /\ r.beat = worker[w].beat
            /\ UNCHANGED queue
            /\ \E f \in SUBSET Fields : job' = job \/ job' = [job EXCEPT !.saved = f]
  <2>1. CASE Read(w)
    BY <1>1, <2>1 DEF Read, TypeOK, WorkerStates
  <2>2. CASE Work(w)
    <3>1. "results" \in Fields /\ job.saved \cup {"results"} \in SUBSET Fields
      BY <1>1 DEF Fields, Jobs
    <3>2. QED
      <4>1. /\ \/ worker' = [worker EXCEPT ![w] = [@ EXCEPT !.pc = "deliver",
                                                          !.saved = job'.saved]]
               \/ worker' = [worker EXCEPT ![w] = [@ EXCEPT !.pc = "deliver",
                                                          !.outcome = "REJECTED"]]
               \/ worker' = [worker EXCEPT ![w] = [@ EXCEPT !.pc = "finish",
                                                          !.outcome = "FAILED"]]
            /\ job' = job \/ job' = [job EXCEPT !.saved = @ \cup {"results"}]
            /\ UNCHANGED queue
        BY <1>1, <2>2 DEF Work
      <4>2. PICK r : /\ worker' = [worker EXCEPT ![w] = r]
                     /\ \/ r = [worker[w] EXCEPT !.pc = "deliver", !.saved = job'.saved]
                        \/ r = [worker[w] EXCEPT !.pc = "deliver", !.outcome = "REJECTED"]
                        \/ r = [worker[w] EXCEPT !.pc = "finish", !.outcome = "FAILED"]
        BY <4>1
      <4>3. /\ r.pc \in {"deliver", "finish"} /\ r.token = worker[w].token
            /\ r.retries = worker[w].retries /\ r.beat = worker[w].beat
        BY <1>1, <4>2 DEF WorkerStates
      <4>4. worker'[w] = r
        BY <4>2 DEF TypeOK
      <4>5. QED
        BY <3>1, <4>1, <4>3, <4>4
  <2>3. CASE Deliver(w)
    <3>1. /\ \E r : /\ worker' = [worker EXCEPT ![w] = r]
                     /\ \/ \E todo, pc : /\ pc \in {"finish", "send"}
                                          /\ r = [worker[w] EXCEPT !.todo = todo, !.pc = pc]
                        \/ r = [worker[w] EXCEPT !.outcome = "REJECTED"]
          /\ UNCHANGED <<job, queue>> /\ worker[w].pc = "deliver"
      BY <1>1, <2>3 DEF Deliver
    <3>2. PICK r : /\ worker' = [worker EXCEPT ![w] = r]
                   /\ \/ \E todo, pc : /\ pc \in {"finish", "send"}
                                        /\ r = [worker[w] EXCEPT !.todo = todo, !.pc = pc]
                      \/ r = [worker[w] EXCEPT !.outcome = "REJECTED"]
      BY <3>1
    <3>3. /\ r.pc \in {"finish", "send", "deliver"} /\ r.token = worker[w].token
          /\ r.retries = worker[w].retries /\ r.beat = worker[w].beat
      BY <1>1, <3>1, <3>2 DEF WorkerStates
    <3>4. worker'[w] = r
      BY <3>2 DEF TypeOK
    <3>5. QED
      BY <3>1, <3>3, <3>4
  <2>4. CASE Send(w)
    BY <1>1, <2>4 DEF Send, Goes, TypeOK, WorkerStates
  <2>5. CASE Checkpoint(w)
    <3>1. \A p \in Due(w) : job.saved \cup {Field(p)} \in SUBSET Fields
      BY <1>1 DEF Due, Field, Fields, Parts, Jobs, WorkerStates
    <3>2. QED
      <4>1. \E p \in Due(w) : \E todo, pc :
               /\ pc \in {"finish", "send"}
               /\ job' = [job EXCEPT !.saved = @ \cup {Field(p)}]
               /\ worker' = [worker EXCEPT ![w] = [@ EXCEPT !.todo = todo, !.pc = pc]]
               /\ UNCHANGED queue
        BY <1>1, <2>5 DEF Checkpoint
      <4>2. /\ worker'[w].pc \in {"finish", "send"} /\ worker'[w].token = worker[w].token
            /\ worker'[w].retries = worker[w].retries /\ worker'[w].beat = worker[w].beat
        BY <1>1, <4>1 DEF TypeOK, WorkerStates
      <4>3. QED
        BY <3>1, <4>1, <4>2
  <2>6. CASE Finish(w)
    BY <1>1, <2>6 DEF Finish, Ended, Jobs, TellInv, Tells
  <2>7. QED
    BY <2>1, <2>2, <2>3, <2>4, <2>5, <2>6
<1>4. Healthy(w)'
  BY <1>3 DEF Healthy
<1>5. /\ job'.status = job.status /\ job'.token = job.token /\ job'.attempts = job.attempts
      /\ job'.lease = job.lease /\ job'.task = job.task
  BY <1>1, <1>3 DEF Jobs
<1>6. QED
  BY <1>1, <1>2, <1>3, <1>4, <1>5 DEF Works, Executing

LEMMA FailingWorks ==
    ASSUME TypeOK, SoberInv, NEW w \in Workers,
           Unexpected(w) \/ WorkFails(w) \/ DeliveryFails(w)
    PROVE  Works(w)
<1>1. worker[w] \in WorkerStates /\ Executing(w) /\ worker[w].beat # "failed"
  BY WorkerShape DEF SoberInv, Sober, Executing, Healthy, GivingUp, Unexpected, WorkFails,
      DeliveryFails
<1>2. /\ GivingUp(w)' /\ worker'[w].token = worker[w].token
      /\ worker'[w].retries = worker[w].retries /\ worker'[w].beat # "failed"
      /\ UNCHANGED <<job, queue>>
  <2>1. CASE Unexpected(w)
    BY <1>1, <2>1 DEF Unexpected, TypeOK, WorkerStates, GivingUp
  <2>2. CASE WorkFails(w)
    BY <1>1, <2>2 DEF WorkFails, Goes, TypeOK, WorkerStates, GivingUp
  <2>3. CASE DeliveryFails(w)
    BY <1>1, <2>3 DEF DeliveryFails, Goes, TypeOK, WorkerStates, GivingUp
  <2>4. QED
    BY <2>1, <2>2, <2>3
<1>3. Healthy(w) => WorkerFault(w)
  BY DEF Healthy, WorkerFault, Unexpected
<1>4. QED
  BY <1>1, <1>2, <1>3 DEF Works, Executing

LEMMA RenewWorks ==
    ASSUME TypeOK, SoberInv, NEW w \in Workers, Renew(w)
    PROVE  Works(w)
<1>1. Executing(w) /\ worker[w].beat # "failed" /\ job \in Jobs
  BY WorkerShape DEF SoberInv, Sober, Renew, Owns
<1>2. UNCHANGED <<worker, queue>> /\ job' = [job EXCEPT !.lease = LeaseTTL]
  BY DEF Renew
<1>3. QED
  BY <1>1, <1>2 DEF Works, Executing, Healthy, GivingUp, Jobs

LEMMA WorkerKinds ==
    ASSUME TypeOK, TellInv, SoberInv, NEW w \in Workers, WorkerStep(w), misses' = misses,
           job.status \notin Terminal, job'.status \notin Terminal
    PROVE  \/ Receive(w) \/ Bounces(w) \/ Takes(w) \/ Works(w) \/ GivesUp(w) \/ Stops(w)
           \/ Crash(w) \/ Redeliver(w)
<1>1. CASE Claim(w)
  BY <1>1 DEF Claim, Bounces, Takes
<1>2. CASE Retry(w)
  <2>1. Owns(w)
    BY <1>2 DEF Retry, SoberInv, Sober, Executing, GivingUp
  <2>2. Ended("RETRYABLE") /\ ~(worker[w].attempt >= MaxAttempts)
    BY <1>2, <2>1, WorkerShape DEF Retry, Ended, Jobs, Terminal
  <2>3. worker' = [worker EXCEPT ![w] = [@ EXCEPT !.pc = "stop", !.exit = "again"]]
    BY <1>2, <2>1, <2>2 DEF Retry, Leaves
  <2>4. QED
    BY <1>2, <2>1, <2>2, <2>3 DEF Retry, GivesUp, Ended, TypeOK
<1>3. CASE Stop(w)
  BY <1>3 DEF Stop, Stops, SoberInv, Sober
<1>4. ~Miss(w)
  BY DEF Miss, TypeOK
<1>5. QED
  BY <1>1, <1>2, <1>3, <1>4, HealthyWorks, FailingWorks, RenewWorks DEF WorkerStep, Execute

(* The callbacks leave the claim alone.                                    *)
CallbackStep(h) == Callback(h) \/ Respond(h) \/ CallbackFails(h)

LEMMA CallbackFrame ==
    ASSUME TypeOK, NEW h \in Handlers, CallbackStep(h)
    PROVE  /\ UNCHANGED <<worker, misses>>
           /\ job'.attempts = job.attempts /\ job'.token = job.token /\ job'.lease = job.lease
           /\ \/ job'.status = job.status
              \/ job.status = "NONE" /\ job'.status = "PENDING"
           /\ UNCHANGED queue \/ (Enqueue(h) /\ queue' = [queue EXCEPT ![<<0, 0>>] = @ + 1])
           /\ job'.task = job.task \/ MarkDispatched(h)
           /\ \A g \in Handlers : g # h => handler'[g] = handler[g]
<1>1. job \in Jobs /\ handler \in [Handlers -> Callbacks]
  BY DEF TypeOK
<1>2. \A g \in Handlers : g # h => handler'[g] = handler[g]
  BY <1>1 DEF CallbackStep, Callback, Respond, CallbackFails, Stage, Enqueue, MarkDispatched,
      MarkProcessed, MarkFailed, At, Answer
<1>3. CASE Callback(h) \/ CallbackFails(h) \/ Enqueue(h) \/ MarkProcessed(h) \/ MarkFailed(h)
  BY <1>2, <1>3 DEF Callback, CallbackFails, Enqueue, MarkProcessed, MarkFailed
<1>4. CASE Stage(h)
  BY <1>1, <1>2, <1>4 DEF Stage, Jobs
<1>5. CASE MarkDispatched(h)
  BY <1>1, <1>2, <1>5 DEF MarkDispatched, Jobs
<1>6. QED
  BY <1>3, <1>4, <1>5 DEF CallbackStep, Respond

LEMMA TickFrame ==
    ASSUME TypeOK, Tick
    PROVE  /\ UNCHANGED <<worker, handler>>
           /\ job' = [job EXCEPT !.lease = Less(job.lease)]
           /\ job'.attempts = job.attempts /\ job'.token = job.token
           /\ job'.lease = Less(job.lease) /\ job'.lease \in Nat
           /\ job'.status = job.status /\ job'.task = job.task
           /\ \A m \in Messages : queue'[m] =
                 IF m[2] = 0 THEN queue[m] + queue[<<m[1], 1>>] ELSE 0
  BY WorkerShape DEF Tick, Less, TypeOK, Jobs

(* A worker that executes lives to see its lease renewed.                  *)
LEMMA TickInTime ==
    ASSUME TypeOK, SoberInv, Tick, misses' = misses, NEW w \in Workers, Executing(w)
    PROVE  job.lease > 1
<1>1. Owns(w) /\ worker[w].beat # "failed" /\ job.lease \in Nat /\ job.lease > 0
  BY WorkerShape DEF SoberInv, Sober, Owns
<1>2. IsFiniteSet(LateWorkers)
  BY FS_Subset DEF LateWorkers
<1>3. Cardinality(LateWorkers) = 0
  BY <1>2, FS_CardinalityType DEF Tick, TypeOK
<1>4. LateWorkers = {}
  BY <1>2, <1>3, FS_EmptySet
<1>5. QED
  BY <1>1, <1>4 DEF LateWorkers, Owns, Busy

LEMMA SoberStep ==
    ASSUME TypeOK, TypeOK', TellInv, SoberInv, [Next]_vars, misses' = misses,
           job.status \notin Terminal, job'.status \notin Terminal
    PROVE  SoberInv'
<1>1. CASE UNCHANGED <<job, worker>>
  BY <1>1 DEF SoberInv, Sober, Executing, Healthy, GivingUp, Owns
<1>2. ASSUME NEW h \in Handlers, CallbackStep(h) PROVE SoberInv'
  BY <1>2, CallbackFrame DEF SoberInv, Sober, Executing, Healthy, GivingUp, Owns
<1>3. CASE Tick
  <2>1. \A w \in Workers : Executing(w) => Owns(w)'
    BY <1>3, TickFrame, TickInTime, WorkerShape DEF SoberInv, Sober, Owns, Less
  <2>2. QED
    BY <1>3, <2>1, TickFrame DEF SoberInv, Sober, Executing, Healthy, GivingUp, Owns
<1>4. ASSUME NEW w \in Workers, WorkerStep(w) PROVE SoberInv'
  <2>1. Others(w)
    BY <1>4, OthersRest
  <2>2. worker[w] \in WorkerStates /\ job \in Jobs /\ Sober(w)
    BY WorkerShape DEF SoberInv
  <2>3. CASE Receive(w) \/ Bounces(w) \/ Stops(w) \/ Crash(w) \/ Redeliver(w)
    <3>1. UNCHANGED job
      BY <2>3 DEF Receive, Bounces, Stops, Crash, Redeliver
    <3>2. CASE worker'[w] = worker[w]
      BY <2>1, <3>1, <3>2 DEF Others, SoberInv, Sober, Executing, Healthy, GivingUp, Owns
    <3>3. CASE worker'[w].pc \in {"idle", "claim"} /\ worker'[w].token = 0
                 /\ worker'[w].beat = "off"
      <4>1. Sober(w)' /\ ~Executing(w)'
        BY <3>1, <3>3, WorkerShape
        DEF SoberInv, Sober, Executing, Healthy, GivingUp
      <4>2. \A v \in Workers : v # w => Sober(v)' /\ (Executing(v)' <=> Executing(v))
        BY <2>1, <3>1 DEF Others, SoberInv, Sober, Executing, Healthy, GivingUp, Owns
      <4>3. QED
        BY <3>1, <4>1, <4>2 DEF SoberInv
    <3>4. Acknowledge(w) => worker'[w].pc = "idle" /\ worker'[w].token = 0
                            /\ worker'[w].beat = "off"
      BY DEF Acknowledge, Idle, TypeOK
    <3>5. Receive(w) => worker'[w].pc = "claim" /\ worker'[w].token = 0
                        /\ worker'[w].beat = "off"
      BY DEF Receive, Idle, TypeOK
    <3>6. QED
      BY <2>3, <3>2, <3>3, <3>4, <3>5 DEF Bounces, Stops, Crash, Redeliver
  <2>4. CASE Takes(w)
    <3>1. /\ job'.status = "RUNNING" /\ job'.attempts = job.attempts + 1
          /\ job'.token = job.attempts + 1 /\ job'.lease = LeaseTTL
          /\ worker'[w].pc = "read" /\ worker'[w].token = job.attempts + 1
          /\ worker'[w].beat = "on"
      BY <2>2, <2>4 DEF Takes, TakeClaim, Jobs, TypeOK, WorkerStates
    <3>2. \A v \in Workers : ~Executing(v)
      BY <2>4 DEF Takes, Busy, SoberInv, Sober, Owns
    <3>3. \A v \in Workers : v # w => Sober(v)' /\ ~Executing(v)'
      BY <2>1, <3>1, <3>2, WorkerShape
      DEF Others, SoberInv, Sober, Executing, Healthy, GivingUp
    <3>4. Sober(w)'
      BY <3>1, Zero, WorkerShape DEF Sober, Executing, Healthy, Owns
    <3>5. QED
      BY <3>1, <3>3, <3>4, WorkerShape DEF SoberInv
  <2>5. CASE Works(w)
    <3>1. Owns(w) /\ job'.lease > 0
      BY <2>2, <2>5, Zero DEF Works, Sober, Owns
    <3>2. Sober(w)' /\ Executing(w)' /\ Executing(w)
      BY <2>2, <2>5, <3>1 DEF Works, Sober, Owns
    <3>3. \A v \in Workers : v # w => ~Executing(v) /\ ~Executing(v)'
      BY <2>1, <3>2 DEF Others, SoberInv, Executing, Healthy, GivingUp
    <3>4. \A v \in Workers : v # w => Sober(v)'
      BY <2>1, <2>5, <3>3 DEF Others, Works, SoberInv, Sober
    <3>5. QED
      BY <2>5, <3>2, <3>3, <3>4 DEF Works, SoberInv
  <2>6. CASE GivesUp(w)
    <3>1. /\ job'.status = "RETRYABLE" /\ job'.attempts = job.attempts
          /\ worker'[w].pc = "stop" /\ worker'[w].token = worker[w].token
          /\ worker'[w].beat = worker[w].beat
      BY <2>2, <2>6 DEF GivesUp, Jobs, WorkerStates
    <3>2. Executing(w)
      BY <2>6 DEF GivesUp, Executing, GivingUp
    <3>3. \A v \in Workers : v # w => ~Executing(v) /\ ~Executing(v)'
      BY <2>1, <3>2 DEF Others, SoberInv, Executing, Healthy, GivingUp
    <3>4. ~Executing(w)'
      BY <3>1 DEF Executing, Healthy, GivingUp
    <3>5. \A v \in Workers : Sober(v)'
      BY <2>1, <2>2, <3>1, <3>3, <3>4 DEF Others, SoberInv, Sober
    <3>6. QED
      BY <3>1, <3>3, <3>4, <3>5 DEF SoberInv
  <2>7. QED
    BY <1>4, <2>3, <2>4, <2>5, <2>6, WorkerKinds
<1>5. QED
  BY <1>1, <1>2, <1>3, <1>4 DEF Next, vars, WorkerStep, CallbackStep

-----------------------------------------------------------------------------
(* How many retries the lease of a dead worker may still cost a message,   *)
(* which waits for its countdown (1) or not (0).                           *)
Left(c) == IF job.lease > c THEN job.lease - c ELSE 0

(* A worker goes on with its claim, or is about to send its message again, *)
(* or no claim has a worker and a message outlasts the lease - all with    *)
(* at most n retries.                                                      *)
Again(w) == worker[w].pc = "stop" /\ worker[w].exit = "again" /\ job.lease = 0
Patient(m, n) == queue[m] > 0 /\ m[1] + Left(m[2]) <= n
AtClaim(w, n) == worker[w].pc = "claim" /\ worker[w].retries + Left(0) <= n
Attended(n) ==
    \/ \E w \in Workers : Healthy(w) /\ worker[w].retries <= n
    \/ \E w \in Workers : (GivingUp(w) \/ Again(w)) /\ worker[w].retries + 1 <= n
    \/ /\ \A w \in Workers : ~Executing(w)
       /\ (\E m \in Messages : Patient(m, n)) \/ (\E w \in Workers : AtClaim(w, n))

LEMMA MessageParts ==
    \A m \in Messages : m[1] \in 0..MaxRetries /\ m[2] \in {0, 1} /\ m = <<m[1], m[2]>>
  BY DEF Messages

LEMMA AttendedMore ==
    ASSUME TypeOK, NEW n \in Nat, NEW k \in Nat, n <= k, Attended(n)
    PROVE  Attended(k)
<1>1. \A w \in Workers : worker[w].retries \in Nat
  BY WorkerShape
<1>2. \A m \in Messages : m[1] \in Nat /\ Left(m[2]) \in Nat
  <2>1. job.lease \in Nat
    BY DEF TypeOK, Jobs
  <2>2. QED
    BY <2>1, MessageParts DEF Left
<1>6. Left(0) \in Nat
  BY DEF TypeOK, Jobs, Left
<1>3. \A m \in Messages : Patient(m, n) => Patient(m, k)
  BY <1>2 DEF Patient
<1>4. \A w \in Workers : AtClaim(w, n) => AtClaim(w, k)
  BY <1>1, <1>6 DEF AtClaim
<1>5. QED
  BY <1>1, <1>3, <1>4 DEF Attended

LEMMA QueuePut ==
    ASSUME TypeOK, NEW r \in 0..MaxRetries, NEW c \in {0, 1},
           queue' = [queue EXCEPT ![<<r, c>>] = @ + 1]
    PROVE  /\ <<r, c>> \in Messages /\ queue'[<<r, c>>] = queue[<<r, c>>] + 1
           /\ queue'[<<r, c>>] > 0
           /\ \A m \in Messages : queue'[m] >= queue[m] /\ (m # <<r, c>> => queue'[m] = queue[m])
<1>1. <<r, c>> \in Messages /\ queue[<<r, c>>] \in Nat /\ \A m \in Messages : queue[m] \in Nat
  BY DEF Messages, TypeOK
<1>2. QED
  BY <1>1 DEF TypeOK

(* Where the claim and the messages stay, so does the duty.                *)
LEMMA AttendedStays ==
    ASSUME TypeOK, TypeOK', NEW n \in Nat, Attended(n), UNCHANGED worker,
           job'.lease = job.lease, \A m \in Messages : queue'[m] >= queue[m]
    PROVE  Attended(n)'
<1>1. \A m \in Messages : queue[m] \in Nat /\ queue'[m] \in Nat
  BY DEF TypeOK
<1>2. \A m \in Messages : Patient(m, n) => Patient(m, n)'
  BY <1>1 DEF Patient, Left
<1>3. QED
  BY <1>2 DEF Attended, AtClaim, Again, Healthy, GivingUp, Executing, Left

LEMMA AttendedTick ==
    ASSUME TypeOK, TypeOK', SoberInv, NEW n \in Nat, Attended(n), Tick
    PROVE  Attended(n)'
<1>1. /\ UNCHANGED worker /\ job'.lease = Less(job.lease) /\ job.lease \in Nat
      /\ \A m \in Messages : queue[m] \in Nat
  <2>1. job.lease \in Nat /\ \A m \in Messages : queue[m] \in Nat
    BY DEF TypeOK, Jobs
  <2>2. QED
    BY <2>1, TickFrame
<1>2. ASSUME NEW w \in Workers PROVE AtClaim(w, n) => AtClaim(w, n)'
  BY <1>1, WorkerShape DEF AtClaim, Left, Less
<1>3. ASSUME NEW m \in Messages, Patient(m, n) PROVE \E k \in Messages : Patient(k, n)'
  <2>1. PICK r \in 0..MaxRetries, c \in {0, 1} : m = <<r, c>>
    BY DEF Messages
  <2>2. <<r, 0>> \in Messages /\ <<r, 1>> \in Messages
    BY DEF Messages
  <2>3. queue'[<<r, 0>>] = queue[<<r, 0>>] + queue[<<r, 1>>]
    BY <2>2, TickFrame
  <2>4. queue'[<<r, 0>>] > 0
    BY <1>1, <1>3, <2>1, <2>2, <2>3 DEF Patient
  <2>5. r + Left(0)' <= n
    BY <1>1, <1>3, <2>1 DEF Patient, Left, Less
  <2>6. Patient(<<r, 0>>, n)'
    BY <2>4, <2>5 DEF Patient
  <2>7. QED
    BY <2>2, <2>6
<1>4. \A w \in Workers : Again(w) => Again(w)'
  BY <1>1 DEF Again, Less
<1>5. QED
  BY <1>1, <1>2, <1>3, <1>4 DEF Attended, Healthy, GivingUp, Executing

(* A job whose callbacks were not disturbed has one message, on the queue  *)
(* or with a worker.                                                       *)
NoMessages == \A m \in Messages : queue[m] = 0
AllIdle == \A w \in Workers : worker[w].pc = "idle"
OneMessage(m) == AllIdle /\ queue[m] = 1 /\ \A k \in Messages : k # m => queue[k] = 0
OneWorker(w) ==
    NoMessages /\ worker[w].pc # "idle" /\ \A v \in Workers : v # w => worker[v].pc = "idle"
Single == (\E m \in Messages : OneMessage(m)) \/ \E w \in Workers : OneWorker(w)

(* What other workers do is nothing to one with a claim or a message.      *)
LEMMA OtherAttends ==
    ASSUME NEW w \in Workers, Others(w), NEW v \in Workers, v # w
    PROVE  /\ Healthy(v) <=> Healthy(v)'
           /\ GivingUp(v) <=> GivingUp(v)'
           /\ Executing(v) <=> Executing(v)'
           /\ worker'[v].retries = worker[v].retries
           /\ UNCHANGED job => \A n : AtClaim(v, n) => AtClaim(v, n)'
           /\ job.lease = 0 /\ job'.lease = 0 => (Again(v) => Again(v)')
  BY DEF Others, Healthy, GivingUp, Executing, AtClaim, Again, Left

LEMMA ReceiveAttended ==
    ASSUME TypeOK, TypeOK', NEW n \in Nat, NEW w \in Workers, Others(w), Attended(n),
           Receive(w)
    PROVE  Attended(n)'
<1>1. PICK r \in 0..MaxRetries :
         /\ queue[<<r, 0>>] > 0 /\ queue' = [queue EXCEPT ![<<r, 0>>] = @ - 1]
         /\ worker'[w].pc = "claim" /\ worker'[w].retries = r
  <2>1. PICK r \in 0..MaxRetries :
           /\ queue[<<r, 0>>] > 0 /\ queue' = [queue EXCEPT ![<<r, 0>>] = @ - 1]
           /\ worker' = [worker EXCEPT ![w] = [Idle EXCEPT !.pc = "claim", !.retries = r]]
    BY DEF Receive
  <2>2. worker'[w].pc = "claim" /\ worker'[w].retries = r
    BY <2>1 DEF TypeOK, Idle
  <2>3. QED
    BY <2>1, <2>2
<1>2. worker[w].pc = "idle" /\ UNCHANGED job /\ ~Executing(w) /\ ~Executing(w)'
  BY <1>1 DEF Receive, Executing, Healthy, GivingUp
<1>3. \A v \in Workers : Executing(v) <=> Executing(v)'
  BY <1>2, OtherAttends
<1>4. CASE \E v \in Workers : Healthy(v) /\ worker[v].retries <= n
  BY <1>2, <1>4, OtherAttends DEF Attended, Executing
<1>5. CASE \E v \in Workers : (GivingUp(v) \/ Again(v)) /\ worker[v].retries + 1 <= n
  <2>1. PICK v \in Workers : (GivingUp(v) \/ Again(v)) /\ worker[v].retries + 1 <= n
    BY <1>5
  <2>2. v # w
    BY <1>2, <2>1 DEF Again, GivingUp
  <2>3. GivingUp(v)' \/ Again(v)'
    BY <1>2, <2>1, <2>2, OtherAttends DEF Again
  <2>4. QED
    BY <2>1, <2>2, <2>3, OtherAttends DEF Attended
<1>6. ASSUME \A v \in Workers : ~Executing(v), NEW m \in Messages, Patient(m, n)
      PROVE  Attended(n)'
  <2>1. CASE m = <<r, 0>>
    <3>1. AtClaim(w, n)'
      BY <1>1, <1>2, <1>6, <2>1 DEF Patient, AtClaim, Left
    <3>2. QED
      BY <1>3, <1>6, <3>1 DEF Attended
  <2>2. CASE m # <<r, 0>>
    <3>1. queue'[m] = queue[m]
      BY <1>1, <2>2 DEF TypeOK
    <3>2. Patient(m, n)'
      BY <1>2, <1>6, <3>1 DEF Patient, Left
    <3>3. QED
      BY <1>3, <1>6, <3>2 DEF Attended
  <2>3. QED
    BY <2>1, <2>2
<1>7. ASSUME \A v \in Workers : ~Executing(v), NEW v \in Workers, AtClaim(v, n)
      PROVE  Attended(n)'
  <2>1. v # w
    BY <1>2, <1>7 DEF AtClaim
  <2>2. QED
    BY <1>2, <1>3, <1>7, <2>1, OtherAttends DEF Attended
<1>8. QED
  BY <1>4, <1>5, <1>6, <1>7 DEF Attended

(* A message that is still in time when it meets a claim has a retry.      *)
LEMMA BounceAttended ==
    ASSUME TypeOK, TypeOK', SoberInv, NEW n \in Nat, n <= MaxRetries, NEW w \in Workers,
           Others(w), Attended(n), Bounces(w)
    PROVE  Attended(n)'
<1>1. /\ worker[w].pc = "claim" /\ worker'[w].pc = "idle" /\ UNCHANGED job
      /\ job.lease \in Nat /\ job.lease > 0 /\ worker[w].retries \in 0..MaxRetries
  BY WorkerShape DEF Bounces, Acknowledge, Idle, TypeOK, Busy
<1>2. ~Executing(w) /\ ~Executing(w)'
  BY <1>1 DEF Executing, Healthy, GivingUp
<1>3. \A v \in Workers : Executing(v) <=> Executing(v)'
  BY <1>2, OtherAttends
<1>4. \A m \in Messages : queue[m] \in Nat /\ queue'[m] >= queue[m]
  <2>1. worker[w].retries < MaxRetries => worker[w].retries + 1 \in 0..MaxRetries
    BY <1>1, LimitAssumption
  <2>2. CASE worker[w].retries < MaxRetries
    <3>1. queue' = [queue EXCEPT ![<<worker[w].retries + 1, 1>>] = @ + 1]
      BY <2>2 DEF Bounces, RetryLater
    <3>2. QED
      BY <2>1, <2>2, <3>1, QueuePut DEF TypeOK
  <2>3. CASE ~(worker[w].retries < MaxRetries)
    <3>1. queue' = queue
      BY <2>3 DEF Bounces, RetryLater
    <3>2. QED
      BY <3>1 DEF TypeOK
  <2>4. QED
    BY <2>2, <2>3
<1>5. CASE \E v \in Workers : Healthy(v) /\ worker[v].retries <= n
  BY <1>2, <1>5, OtherAttends DEF Attended, Executing
<1>6. CASE \E v \in Workers : (GivingUp(v) \/ Again(v)) /\ worker[v].retries + 1 <= n
  BY <1>1, <1>2, <1>6, OtherAttends DEF Attended, Executing, Again
<1>7. ASSUME \A v \in Workers : ~Executing(v), NEW m \in Messages, Patient(m, n)
      PROVE  Attended(n)'
  <2>1. Patient(m, n)'
    BY <1>1, <1>4, <1>7 DEF Patient, Left, TypeOK
  <2>2. QED
    BY <1>3, <1>7, <2>1 DEF Attended
<1>8. ASSUME \A v \in Workers : ~Executing(v), NEW v \in Workers, AtClaim(v, n), v # w
      PROVE  Attended(n)'
  BY <1>1, <1>3, <1>8, OtherAttends DEF Attended
<1>9. ASSUME \A v \in Workers : ~Executing(v), AtClaim(w, n)
      PROVE  Attended(n)'
  <2>1. worker[w].retries + job.lease <= n
    BY <1>1, <1>9 DEF AtClaim, Left
  <2>2. PICK r \in 0..MaxRetries : /\ r = worker[w].retries + 1
                                   /\ queue' = [queue EXCEPT ![<<r, 1>>] = @ + 1]
    <3>1. worker[w].retries < MaxRetries /\ worker[w].retries + 1 \in 0..MaxRetries
      BY <1>1, <2>1, LimitAssumption
    <3>2. queue' = [queue EXCEPT ![<<worker[w].retries + 1, 1>>] = @ + 1]
      BY <3>1 DEF Bounces, RetryLater
    <3>3. QED
      BY <3>1, <3>2
  <2>3. <<r, 1>> \in Messages /\ queue'[<<r, 1>>] > 0
    BY <2>2, QueuePut
  <2>4. r + Left(1)' <= n
    BY <1>1, <2>1, <2>2 DEF Left
  <2>5. Patient(<<r, 1>>, n)'
    BY <2>3, <2>4 DEF Patient
  <2>6. QED
    BY <1>3, <1>9, <2>3, <2>5 DEF Attended
<1>10. QED
  BY <1>5, <1>6, <1>7, <1>8, <1>9 DEF Attended

LEMMA TakeAttended ==
    ASSUME TypeOK, TypeOK', NEW n \in Nat, NEW w \in Workers, Attended(n), Takes(w),
           n = MaxRetries \/ Single
    PROVE  Attended(n)'
<1>1. /\ worker[w].pc = "claim" /\ worker'[w].pc = "read"
      /\ worker'[w].retries = worker[w].retries /\ worker[w].retries \in 0..MaxRetries
  BY WorkerShape DEF Takes, TakeClaim, TypeOK, WorkerStates
<1>2. CASE Single
  <2>1. OneWorker(w)
    BY <1>1, <1>2 DEF Single, OneWorker, OneMessage, AllIdle
  <2>2. AtClaim(w, n)
    BY <1>1, <2>1 DEF Attended, OneWorker, NoMessages, Patient, AtClaim, Healthy, GivingUp, Again
  <2>3. worker[w].retries <= n
    <3>1. Left(0) >= 0 /\ Left(0) \in Nat
      BY WorkerShape DEF Left
    <3>2. QED
      BY <1>1, <2>2, <3>1 DEF AtClaim
  <2>4. QED
    BY <1>1, <2>3 DEF Attended, Healthy
<1>3. CASE n = MaxRetries
  BY <1>1, <1>3, LimitAssumption DEF Attended, Healthy
<1>4. QED
  BY <1>2, <1>3

LEMMA WorkAttended ==
    ASSUME TypeOK, TypeOK', SoberInv, NEW n \in Nat, NEW w \in Workers, Others(w), Attended(n),
           Works(w), ~WorkerFault(w)
    PROVE  Attended(n)'
<1>1. /\ Executing(w) /\ Owns(w) /\ worker'[w].retries = worker[w].retries
      /\ Healthy(w) => Healthy(w)'
      /\ GivingUp(w) => GivingUp(w)'
  BY DEF Works, SoberInv, Sober
<1>2. \A v \in Workers : ~Again(v) /\ (Executing(v) => v = w)
  BY <1>1, WorkerShape DEF Again, Owns, SoberInv
<1>3. (Healthy(w) /\ worker[w].retries <= n) \/ (GivingUp(w) /\ worker[w].retries + 1 <= n)
  BY <1>1, <1>2 DEF Attended, Executing
<1>4. QED
  BY <1>1, <1>3 DEF Attended

LEMMA GiveUpAttended ==
    ASSUME TypeOK, TypeOK', SoberInv, NEW n \in Nat, NEW w \in Workers, Attended(n), GivesUp(w)
    PROVE  Attended(n)'
<1>1. /\ GivingUp(w) /\ Executing(w) /\ ~Healthy(w) /\ Owns(w)
      /\ worker[w] \in WorkerStates /\ job \in Jobs
  BY WorkerShape DEF GivesUp, GivingUp, Executing, Healthy
<1>2. \A v \in Workers : ~Again(v) /\ (Executing(v) => v = w)
  BY <1>1, WorkerShape DEF Again, Owns, SoberInv
<1>3. worker[w].retries + 1 <= n
  BY <1>1, <1>2 DEF Attended, Executing
<1>4. Again(w)' /\ worker'[w].retries = worker[w].retries
  BY <1>1 DEF GivesUp, Again, WorkerStates, Jobs
<1>5. QED
  BY <1>3, <1>4 DEF Attended

LEMMA StopAttended ==
    ASSUME TypeOK, TypeOK', SoberInv, NEW n \in Nat, n <= MaxRetries, NEW w \in Workers,
           Others(w), Attended(n), Stops(w)
    PROVE  Attended(n)'
<1>1. /\ worker[w].pc = "stop" /\ worker'[w].pc = "idle" /\ UNCHANGED job
      /\ worker[w].retries \in 0..MaxRetries /\ job.lease \in Nat
  BY WorkerShape DEF Stops, Acknowledge, Idle, TypeOK
<1>2. ~Executing(w) /\ ~Executing(w)'
  BY <1>1 DEF Executing, Healthy, GivingUp
<1>3. \A v \in Workers : Executing(v) <=> Executing(v)'
  BY <1>2, OtherAttends
<1>4. \A m \in Messages : queue[m] \in Nat /\ queue'[m] >= queue[m]
  <2>1. CASE worker[w].exit = "again" /\ worker[w].retries < MaxRetries
    <3>1. worker[w].retries + 1 \in 0..MaxRetries
      BY <1>1, <2>1, LimitAssumption
    <3>2. queue' = [queue EXCEPT ![<<worker[w].retries + 1, 1>>] = @ + 1]
      BY <2>1 DEF Stops, RetryLater
    <3>3. QED
      BY <3>1, <3>2, QueuePut DEF TypeOK
  <2>2. CASE ~(worker[w].exit = "again" /\ worker[w].retries < MaxRetries)
    <3>1. queue' = queue
      BY <2>2 DEF Stops, RetryLater
    <3>2. QED
      BY <3>1 DEF TypeOK
  <2>3. QED
    BY <2>1, <2>2
<1>5. CASE \E v \in Workers : Healthy(v) /\ worker[v].retries <= n
  BY <1>2, <1>5, OtherAttends DEF Attended, Executing
<1>6. ASSUME NEW v \in Workers, v # w, GivingUp(v) \/ Again(v), worker[v].retries + 1 <= n
      PROVE  Attended(n)'
  <2>1. GivingUp(v)' \/ Again(v)'
    BY <1>1, <1>6, OtherAttends DEF Again
  <2>2. QED
    BY <1>6, <2>1, OtherAttends DEF Attended
<1>7. ASSUME Again(w), worker[w].retries + 1 <= n
      PROVE  Attended(n)'
  <2>1. worker[w].retries < MaxRetries /\ worker[w].retries + 1 \in 0..MaxRetries
    BY <1>1, <1>7, LimitAssumption
  <2>2. queue' = [queue EXCEPT ![<<worker[w].retries + 1, 1>>] = @ + 1]
    BY <1>7, <2>1 DEF Stops, RetryLater, Again
  <2>3. PICK r \in 0..MaxRetries : /\ r = worker[w].retries + 1
                                   /\ queue' = [queue EXCEPT ![<<r, 1>>] = @ + 1]
    BY <2>1, <2>2
  <2>4. <<r, 1>> \in Messages /\ queue'[<<r, 1>>] > 0
    BY <2>3, QueuePut
  <2>5. Patient(<<r, 1>>, n)'
    BY <1>1, <1>7, <2>3, <2>4 DEF Patient, Left, Again
  <2>6. \A v \in Workers : ~Executing(v)
    BY <1>7 DEF Again, SoberInv, Sober, Owns
  <2>7. QED
    BY <1>3, <2>4, <2>5, <2>6 DEF Attended
<1>8. ASSUME \A v \in Workers : ~Executing(v), NEW m \in Messages, Patient(m, n)
      PROVE  Attended(n)'
  <2>1. Patient(m, n)'
    BY <1>1, <1>4, <1>8 DEF Patient, Left, TypeOK
  <2>2. QED
    BY <1>3, <1>8, <2>1 DEF Attended
<1>9. ASSUME \A v \in Workers : ~Executing(v), NEW v \in Workers, AtClaim(v, n)
      PROVE  Attended(n)'
  <2>1. v # w
    BY <1>1, <1>9 DEF AtClaim
  <2>2. QED
    BY <1>1, <1>3, <1>9, <2>1, OtherAttends DEF Attended
<1>10. QED
  BY <1>1, <1>5, <1>6, <1>7, <1>8, <1>9 DEF Attended, GivingUp

(* A fault of a worker costs at most a lease.                              *)
LEMMA CrashAttended ==
    ASSUME TypeOK, TypeOK', SoberInv, NEW n \in Nat, NEW w \in Workers, Others(w), Attended(n),
           Crash(w)
    PROVE  Attended(n + LeaseTTL)'
<1> DEFINE k == n + LeaseTTL
<1>0. k \in Nat /\ n <= k /\ LeaseTTL \in Nat
  BY Zero
<1>1. /\ worker'[w].pc = "idle" /\ UNCHANGED job /\ worker[w].retries \in 0..MaxRetries
      /\ job.lease \in 0..LeaseTTL /\ queue' = [queue EXCEPT ![<<worker[w].retries, 0>>] = @ + 1]
  BY WorkerShape DEF Crash, Returned, Acknowledge, Idle, TypeOK
<1>2. PICK r \in 0..MaxRetries : /\ r = worker[w].retries
                                 /\ queue' = [queue EXCEPT ![<<r, 0>>] = @ + 1]
  BY <1>1
<1>3. /\ <<r, 0>> \in Messages /\ queue'[<<r, 0>>] > 0
      /\ \A m \in Messages : queue'[m] >= queue[m]
  BY <1>2, QueuePut
<1>4. /\ \A v \in Workers : v # w => (Executing(v) <=> Executing(v)')
      /\ ~Executing(w)'
  BY <1>1, OtherAttends DEF Executing, Healthy, GivingUp
<1>5. ASSUME worker[w].retries + Left(0) <= k, \A v \in Workers : v # w => ~Executing(v)
      PROVE  Attended(k)'
  <2>1. Patient(<<r, 0>>, k)'
    BY <1>1, <1>2, <1>3, <1>5 DEF Patient, Left
  <2>2. QED
    BY <1>3, <1>4, <1>5, <2>1 DEF Attended
<1>6. Left(0) \in Nat /\ Left(0) <= LeaseTTL
  BY WorkerShape DEF Left
<1>7. CASE Attended(n) /\ Executing(w)
  <2>1. \A v \in Workers : (Executing(v) => v = w) /\ ~Again(v)
    BY <1>7, WorkerShape DEF SoberInv, Sober, Owns, Again
  <2>2. worker[w].retries <= n
    BY <1>1, <1>7, <2>1, LimitAssumption DEF Attended, Executing
  <2>3. worker[w].retries + Left(0) <= k
    BY <1>0, <1>1, <1>6, <2>2, LimitAssumption
  <2>4. QED
    BY <1>5, <2>1, <2>3
<1>8. ASSUME ~Executing(w), NEW v \in Workers, Executing(v), Attended(n) PROVE Attended(k)'
  <2>1. \A u \in Workers : (Executing(u) => u = v) /\ ~Again(u)
    BY <1>8, WorkerShape DEF SoberInv, Sober, Owns, Again
  <2>2. \/ Healthy(v) /\ worker[v].retries <= n
        \/ GivingUp(v) /\ worker[v].retries + 1 <= n
    BY <1>8, <2>1 DEF Attended, Executing
  <2>3. worker[v].retries \in Nat
    BY WorkerShape
  <2>4. \/ Healthy(v)' /\ worker'[v].retries <= k
        \/ GivingUp(v)' /\ worker'[v].retries + 1 <= k
    BY <1>0, <1>8, <2>2, <2>3, OtherAttends
  <2>5. QED
    BY <2>4 DEF Attended
<1>9. ASSUME \A v \in Workers : ~Executing(v), Attended(n) PROVE Attended(k)'
  <2>1. \A v \in Workers : ~Executing(v)'
    BY <1>4, <1>9
  <2>2. ASSUME NEW v \in Workers, Again(v), worker[v].retries + 1 <= n
        PROVE  Attended(k)'
    <3>1. CASE v = w
      BY <1>0, <1>1, <1>5, <1>9, <2>2, <3>1, LimitAssumption DEF Again, Left
    <3>2. CASE v # w
      <4>1. Again(v)' /\ worker'[v].retries + 1 <= k
        BY <1>0, <1>1, <2>2, <3>2, OtherAttends, WorkerShape DEF Again
      <4>2. QED
        BY <4>1 DEF Attended
    <3>3. QED
      BY <3>1, <3>2
  <2>3. ASSUME NEW m \in Messages, Patient(m, n) PROVE Attended(k)'
    <3>1. m[1] \in Nat /\ Left(m[2]) \in Nat /\ queue[m] \in Nat /\ queue'[m] \in Nat
      BY MessageParts, WorkerShape DEF Left, TypeOK
    <3>2. Patient(m, k)'
      BY <1>0, <1>1, <1>3, <2>3, <3>1 DEF Patient, Left
    <3>3. QED
      BY <2>1, <3>2 DEF Attended
  <2>4. ASSUME NEW v \in Workers, AtClaim(v, n) PROVE Attended(k)'
    <3>0. worker[v].retries \in Nat
      BY WorkerShape
    <3>1. CASE v = w
      BY <1>0, <1>1, <1>5, <1>6, <1>9, <2>4, <3>0, <3>1 DEF AtClaim
    <3>2. CASE v # w
      <4>1. AtClaim(v, k)
        BY <1>0, <1>6, <2>4, <3>0 DEF AtClaim
      <4>2. AtClaim(v, k)'
        BY <1>1, <3>2, <4>1, OtherAttends
      <4>3. QED
        BY <2>1, <4>2 DEF Attended
    <3>3. QED
      BY <3>1, <3>2
  <2>5. QED
    BY <1>9, <2>2, <2>3, <2>4 DEF Attended, Executing
<1>10. QED
  BY <1>7, <1>8, <1>9

LEMMA FaultAttended ==
    ASSUME TypeOK, TypeOK', SoberInv, NEW n \in Nat, NEW w \in Workers, Others(w), Attended(n),
           \/ Crash(w) \/ Redeliver(w)
           \/ Works(w) /\ UNCHANGED job
    PROVE  Attended(n + LeaseTTL)'
<1>0. n + LeaseTTL \in Nat /\ n <= n + LeaseTTL /\ LeaseTTL \in Nat /\ LeaseTTL >= 1
  BY Zero
<1>1. CASE Redeliver(w)
  <2>1. UNCHANGED <<job, worker>> /\ worker[w].retries \in 0..MaxRetries
        /\ queue' = [queue EXCEPT ![<<worker[w].retries, 0>>] = @ + 1]
    BY <1>1, WorkerShape DEF Redeliver, Returned
  <2>2. Attended(n + LeaseTTL) /\ \A m \in Messages : queue'[m] >= queue[m]
    BY <1>0, <2>1, QueuePut, AttendedMore
  <2>3. QED
    BY <1>0, <2>1, <2>2, AttendedStays
<1>2. CASE Works(w) /\ UNCHANGED job
  <2>1. /\ Executing(w) /\ Executing(w)' /\ Owns(w)
        /\ worker'[w].retries = worker[w].retries /\ worker[w].retries \in Nat
    BY <1>2, WorkerShape DEF Works, SoberInv, Sober
  <2>2. \A v \in Workers : (Executing(v) => v = w) /\ ~Again(v)
    BY <2>1, WorkerShape DEF SoberInv, Sober, Owns, Again
  <2>3. worker[w].retries <= n
    BY <2>1, <2>2 DEF Attended, Executing
  <2>4. worker'[w].retries + 1 <= n + LeaseTTL
    BY <1>0, <2>1, <2>3
  <2>5. QED
    BY <1>0, <2>1, <2>4 DEF Attended, Executing
<1>3. QED
  BY <1>1, <1>2, CrashAttended

-----------------------------------------------------------------------------
(* The job was never claimed, and its messages were never sent again; or   *)
(* the first message is with a worker that nothing has hit.                *)
Begun ==
    \/ job.task # 0 \/ job.attempts > 0 \/ ~NoMessages \/ ~AllIdle
    \/ \E h \in Handlers : handler[h].pc = "mark"
Fresh ==
    /\ job.attempts = 0 /\ job.lease = 0 /\ job.status \in {"NONE", "PENDING"}
    /\ \A m \in Messages : queue[m] > 0 => m = <<0, 0>>
    /\ \A w \in Workers : worker[w].pc # "idle" =>
          worker[w].pc = "claim" /\ worker[w].retries = 0
    /\ Begun => queue[<<0, 0>>] > 0 \/ \E w \in Workers : worker[w].pc = "claim"
First == Fresh \/ \E w \in Workers : Healthy(w) /\ worker[w].retries = 0

LEMMA FirstMessage == <<0, 0>> \in Messages /\ 0 \in 0..MaxRetries
  BY LimitAssumption DEF Messages

LEMMA FirstAttended ==
    ASSUME TypeOK, First, Begun
    PROVE  Attended(0)
<1>1. CASE \E w \in Workers : Healthy(w) /\ worker[w].retries = 0
  BY <1>1 DEF Attended
<1>2. CASE Fresh
  <2>1. Left(0) = 0 /\ \A w \in Workers : ~Executing(w)
    BY <1>2 DEF Fresh, Left, Executing, Healthy, GivingUp
  <2>2. Patient(<<0, 0>>, 0) \/ \E w \in Workers : AtClaim(w, 0)
    BY <1>2, <2>1 DEF Fresh, Patient, AtClaim
  <2>3. QED
    BY <2>1, <2>2, FirstMessage DEF Attended
<1>3. QED
  BY <1>1, <1>2 DEF First

LEMMA FirstWork ==
    ASSUME TypeOK, TypeOK', SoberInv, First, NEW w \in Workers, Others(w),
           \/ Receive(w) \/ Bounces(w) \/ Takes(w) \/ GivesUp(w) \/ Stops(w) \/ Redeliver(w)
           \/ Works(w) /\ ~WorkerFault(w)
    PROVE  First'
<1>1. ASSUME NEW v \in Workers, Healthy(v), worker[v].retries = 0 PROVE First'
  <2>1. CASE v # w
    BY <1>1, <2>1, OtherAttends DEF First
  <2>2. CASE v = w
    <3>1. ~(Receive(w) \/ Bounces(w) \/ Takes(w) \/ GivesUp(w) \/ Stops(w))
      BY <1>1, <2>2 DEF Healthy, Receive, Bounces, Takes, GivesUp, Stops
    <3>2. CASE Redeliver(w)
      BY <1>1, <2>2, <3>2 DEF Redeliver, First, Healthy
    <3>3. CASE Works(w) /\ ~WorkerFault(w)
      BY <1>1, <2>2, <3>3 DEF Works, First
    <3>4. QED
      BY <3>1, <3>2, <3>3
  <2>3. QED
    BY <2>1, <2>2
<1>2. ASSUME Fresh PROVE First'
  <2>1. ~(Bounces(w) \/ Works(w) \/ GivesUp(w) \/ Stops(w))
    BY <1>2 DEF Fresh, Bounces, Busy, Works, Executing, Healthy, GivingUp, GivesUp, Stops
  <2>2. CASE Takes(w)
    <3>1. worker'[w].pc = "read" /\ worker'[w].retries = worker[w].retries
      BY <2>2, WorkerShape DEF Takes, TakeClaim, TypeOK, WorkerStates
    <3>2. QED
      BY <1>2, <2>2, <3>1 DEF Fresh, First, Healthy, Takes
  <2>3. CASE Receive(w)
    <3>1. PICK r \in 0..MaxRetries :
             /\ queue[<<r, 0>>] > 0 /\ queue' = [queue EXCEPT ![<<r, 0>>] = @ - 1]
             /\ worker' = [worker EXCEPT ![w] = [Idle EXCEPT !.pc = "claim", !.retries = r]]
             /\ UNCHANGED job
      BY <2>3 DEF Receive
    <3>2. worker'[w].pc = "claim" /\ worker'[w].retries = r
      BY <3>1 DEF TypeOK, Idle
    <3>3. <<r, 0>> \in Messages /\ r = 0
      BY <1>2, <3>1 DEF Fresh, Messages
    <3>4. \A m \in Messages : queue'[m] > 0 => queue[m] > 0
      BY <3>1, <3>3 DEF TypeOK
    <3>5. QED
      BY <1>2, <3>1, <3>2, <3>3, <3>4 DEF Fresh, First, Others
  <2>4. CASE Redeliver(w)
    <3>1. /\ UNCHANGED <<job, worker>> /\ worker[w].pc = "claim"
          /\ queue' = [queue EXCEPT ![<<0, 0>>] = @ + 1]
      BY <1>2, <2>4 DEF Redeliver, Returned, Fresh
    <3>2. \A m \in Messages : m # <<0, 0>> => queue'[m] = queue[m]
      BY <3>1 DEF TypeOK
    <3>3. QED
      BY <1>2, <3>1, <3>2 DEF Fresh, First
  <2>5. QED
    BY <2>1, <2>2, <2>3, <2>4
<1>3. QED
  BY <1>1, <1>2 DEF First

LEMMA FirstCallback ==
    ASSUME TypeOK, TypeOK', First, NEW h \in Handlers, CallbackStep(h)
    PROVE  First'
<1>1. CASE \E w \in Workers : Healthy(w) /\ worker[w].retries = 0
  BY <1>1, CallbackFrame DEF First, Healthy
<1>2. CASE Fresh
  <2>1. /\ UNCHANGED worker /\ job'.attempts = 0 /\ job'.lease = 0
        /\ job'.status \in {"NONE", "PENDING"}
    BY <1>2, CallbackFrame DEF Fresh
  <2>2. CASE Enqueue(h)
    <3>1. queue' = [queue EXCEPT ![<<0, 0>>] = @ + 1]
      BY <2>2 DEF Enqueue
    <3>2. queue'[<<0, 0>>] > 0 /\ \A m \in Messages : m # <<0, 0>> => queue'[m] = queue[m]
      BY <3>1, FirstMessage, QueuePut
    <3>3. QED
      BY <1>2, <2>1, <3>2 DEF Fresh, First
  <2>3. CASE ~Enqueue(h)
    <3>1. UNCHANGED queue
      BY <2>3, CallbackFrame
    <3>2. handler'[h].pc # "mark" \/ handler'[h] = handler[h]
      BY <2>3 DEF CallbackStep, Callback, Respond, CallbackFails, Stage, MarkDispatched,
          MarkProcessed, MarkFailed, At, Answer, NoCallback, TypeOK, Callbacks
    <3>3. job'.task = job.task \/ handler[h].pc = "mark"
      BY CallbackFrame DEF MarkDispatched
    <3>4. Begun' => Begun
      BY <2>1, <3>1, <3>2, <3>3, CallbackFrame DEF Begun, NoMessages, AllIdle
    <3>5. QED
      BY <1>2, <2>1, <3>1, <3>4 DEF Fresh, First
  <2>4. QED
    BY <2>2, <2>3
<1>3. QED
  BY <1>1, <1>2 DEF First

LEMMA FirstTick ==
    ASSUME TypeOK, TypeOK', First, Tick
    PROVE  First'
<1>1. CASE \E w \in Workers : Healthy(w) /\ worker[w].retries = 0
  BY <1>1, TickFrame DEF First, Healthy
<1>2. CASE Fresh
  <2>1. /\ UNCHANGED <<worker, handler>> /\ job'.attempts = 0 /\ job'.lease = 0
        /\ job'.status \in {"NONE", "PENDING"} /\ job'.task = job.task
    BY <1>2, TickFrame DEF Fresh, Less
  <2>2. \A m \in Messages : queue'[m] = IF m = <<0, 0>> THEN queue[m] ELSE 0
    <3>1. \A m \in Messages : queue[m] \in Nat /\ (m # <<0, 0>> => queue[m] = 0)
      BY <1>2 DEF Fresh, TypeOK
    <3>2. ASSUME NEW m \in Messages
          PROVE  queue'[m] = IF m = <<0, 0>> THEN queue[m] ELSE 0
      <4>1. m[1] \in 0..MaxRetries /\ <<m[1], 1>> \in Messages /\ <<m[1], 1>> # <<0, 0>>
        BY MessageParts DEF Messages
      <4>2. queue[<<m[1], 1>>] = 0
        BY <3>1, <4>1
      <4>3. queue'[m] = IF m[2] = 0 THEN queue[m] ELSE 0
        BY <3>1, <4>2, TickFrame
      <4>4. m = <<0, 0>> => m[2] = 0
        OBVIOUS
      <4>5. QED
        BY <3>1, <4>3, <4>4
    <3>3. QED
      BY <3>2
  <2>3. Begun' => Begun
    BY <1>2, <2>1, <2>2, FirstMessage DEF Begun, NoMessages, AllIdle
  <2>4. QED
    BY <1>2, <2>1, <2>2, <2>3, FirstMessage DEF Fresh, First
<1>3. QED
  BY <1>1, <1>2 DEF First

-----------------------------------------------------------------------------
(* The callbacks before anything of theirs failed: one runs at a time, and *)
(* it puts one message on the queue.                                       *)
AllAnswered == \A h \in Handlers : handler[h].pc = "idle"
OneHandler(h) == HoldsReceipt(h) /\ \A g \in Handlers : g # h => handler[g].pc = "idle"
Before ==
    /\ NoMessages /\ AllIdle /\ job.task = 0 /\ job.attempts = 0
    /\ \/ receipt.status = "NONE" /\ AllAnswered
       \/ \E h \in Handlers : OneHandler(h) /\ handler[h].pc \in {"stage", "enqueue"}
After ==
    /\ Single
    /\ \/ receipt.status = "PROCESSED" /\ AllAnswered /\ job.task # 0
       \/ \E h \in Handlers :
             /\ OneHandler(h)
             /\ \/ handler[h].pc = "mark" /\ job.task = 0
                \/ handler[h].pc = "acknowledge" /\ job.task # 0
Quiet == Before \/ After

LEMMA QuietBegun == ASSUME Quiet, Begun PROVE Single /\ After
  BY DEF Quiet, Before, After, Begun, AllAnswered, OneHandler

LEMMA ReceiveFinds ==
    ASSUME NEW w \in Workers, Receive(w)
    PROVE  \E m \in Messages : queue[m] > 0
<1>1. PICK r \in 0..MaxRetries : queue[<<r, 0>>] > 0
  BY DEF Receive
<1>2. <<r, 0>> \in Messages
  BY DEF Messages
<1>3. QED
  BY <1>1, <1>2

(* A job with one message keeps it: a message that is bounced or sent      *)
(* again has a retry left.                                                 *)
LEMMA SingleWork ==
    ASSUME TypeOK, TypeOK', Single, NEW w \in Workers, Others(w),
           NEW n \in Nat, n <= MaxRetries, Attended(n),
           \/ Receive(w) \/ Bounces(w) \/ Takes(w) \/ Works(w) \/ GivesUp(w) \/ Stops(w)
           \/ Crash(w)
    PROVE  Single'
<1>0. \A m \in Messages : queue[m] \in Nat
  BY DEF TypeOK
<1>1. ASSUME NEW m \in Messages, OneMessage(m) PROVE Single'
  <2>1. Receive(w)
    BY <1>1 DEF OneMessage, AllIdle, Bounces, Takes, Works, Executing, Healthy, GivingUp,
        GivesUp, Stops, Crash
  <2>2. PICK r \in 0..MaxRetries :
           /\ queue[<<r, 0>>] > 0 /\ queue' = [queue EXCEPT ![<<r, 0>>] = @ - 1]
           /\ worker' = [worker EXCEPT ![w] = [Idle EXCEPT !.pc = "claim", !.retries = r]]
    BY <2>1 DEF Receive
  <2>3. <<r, 0>> = m
    BY <1>1, <2>2 DEF OneMessage, Messages
  <2>4. NoMessages'
    BY <1>1, <2>2, <2>3 DEF OneMessage, NoMessages, TypeOK
  <2>5. worker'[w].pc # "idle"
    BY <2>2 DEF TypeOK, Idle
  <2>6. \A v \in Workers : v # w => worker'[v].pc = "idle"
    BY <1>1 DEF OneMessage, AllIdle, Others
  <2>7. QED
    BY <2>4, <2>5, <2>6 DEF Single, OneWorker
<1>2. ASSUME OneWorker(w) PROVE Single'
  <2>1. /\ NoMessages /\ worker[w].pc # "idle" /\ worker[w].retries \in 0..MaxRetries
        /\ \A v \in Workers : v # w => worker[v].pc = "idle" /\ worker'[v].pc = "idle"
    BY <1>2, WorkerShape DEF OneWorker, Others
  <2>2. ~Receive(w)
    BY <2>1 DEF Receive
  <2>3. CASE UNCHANGED queue /\ worker'[w].pc # "idle"
    BY <2>1, <2>3 DEF Single, OneWorker, NoMessages
  <2>4. ASSUME NEW r \in 0..MaxRetries, NEW c \in {0, 1},
               queue' = [queue EXCEPT ![<<r, c>>] = @ + 1], worker'[w].pc = "idle"
        PROVE  Single'
    <3>1. /\ <<r, c>> \in Messages /\ queue'[<<r, c>>] = queue[<<r, c>>] + 1
          /\ \A m \in Messages : m # <<r, c>> => queue'[m] = queue[m]
      BY <2>4, QueuePut
    <3>2. AllIdle'
      BY <2>1, <2>4 DEF AllIdle
    <3>3. OneMessage(<<r, c>>)'
      BY <2>1, <3>1, <3>2 DEF OneMessage, NoMessages
    <3>4. QED
      BY <3>1, <3>3 DEF Single
  <2>5. Acknowledge(w) => worker'[w].pc = "idle"
    BY DEF Acknowledge, Idle, TypeOK
  <2>6. ASSUME Acknowledge(w), RetryLater(w), worker[w].retries < n PROVE Single'
    <3>1. worker[w].retries < MaxRetries /\ worker[w].retries + 1 \in 0..MaxRetries
      BY <2>1, <2>6
    <3>2. queue' = [queue EXCEPT ![<<worker[w].retries + 1, 1>>] = @ + 1]
      BY <2>6, <3>1 DEF RetryLater
    <3>3. QED
      BY <2>4, <2>5, <2>6, <3>1, <3>2
  <2>7. CASE Bounces(w)
    <3>1. worker[w].pc = "claim" /\ job.lease > 0 /\ job.lease \in Nat
      BY <2>7, WorkerShape DEF Bounces, Busy
    <3>2. AtClaim(w, n)
      BY <2>1, <3>1 DEF Attended, NoMessages, Patient, AtClaim, Healthy, GivingUp, Again
    <3>3. worker[w].retries < n
      BY <2>1, <3>1, <3>2 DEF AtClaim, Left
    <3>4. QED
      BY <2>6, <2>7, <3>3 DEF Bounces
  <2>8. CASE Stops(w)
    <3>1. worker[w].pc = "stop"
      BY <2>8 DEF Stops
    <3>2. Again(w) /\ worker[w].retries + 1 <= n
      BY <2>1, <3>1 DEF Attended, NoMessages, Patient, AtClaim, Healthy, GivingUp, Again
    <3>3. worker[w].retries < n
      BY <2>1, <3>2
    <3>4. QED
      BY <2>6, <2>8, <3>2, <3>3 DEF Stops, Again
  <2>9. CASE Crash(w)
    BY <2>1, <2>4, <2>5, <2>9 DEF Crash, Returned
  <2>10. CASE Takes(w)
    <3>1. worker'[w].pc = "read" /\ UNCHANGED queue
      BY <2>10, WorkerShape DEF Takes, TakeClaim, TypeOK, WorkerStates
    <3>2. QED
      BY <2>3, <3>1
  <2>11. CASE Works(w)
    BY <2>3, <2>11 DEF Works, Executing, Healthy, GivingUp
  <2>12. CASE GivesUp(w)
    <3>1. worker'[w].pc = "stop" /\ UNCHANGED queue
      BY <2>12, WorkerShape DEF GivesUp, TypeOK, WorkerStates
    <3>2. QED
      BY <2>3, <3>1
  <2>13. QED
    BY <2>2, <2>7, <2>8, <2>9, <2>10, <2>11, <2>12
<1>3. ASSUME NEW v \in Workers, v # w, OneWorker(v) PROVE FALSE
  <2>1. worker[w].pc = "idle" /\ NoMessages
    BY <1>3 DEF OneWorker
  <2>2. ~Receive(w)
    BY <2>1, ReceiveFinds DEF NoMessages
  <2>3. QED
    BY <2>1, <2>2 DEF Bounces, Takes, Works, Executing, Healthy, GivingUp, GivesUp, Stops, Crash
<1>4. QED
  BY <1>1, <1>2, <1>3 DEF Single

LEMMA QuietWork ==
    ASSUME TypeOK, TypeOK', Quiet, NEW w \in Workers, WorkerStep(w), Others(w),
           NEW n \in Nat, n <= MaxRetries, Attended(n),
           \/ Receive(w) \/ Bounces(w) \/ Takes(w) \/ Works(w) \/ GivesUp(w) \/ Stops(w)
           \/ Crash(w)
    PROVE  Quiet'
<1>1. UNCHANGED <<receipt, handler>> /\ job'.task = job.task
  <2>1. UNCHANGED <<receipt, handler>>
    BY WorkerFrame
  <2>2. job'.task = job.task
    BY WorkerShape DEF Receive, Bounces, Takes, TakeClaim, Works, GivesUp, Stops, Crash, Jobs
  <2>3. QED
    BY <2>1, <2>2
<1>2. Begun
  <2>1. CASE Receive(w)
    BY <2>1, ReceiveFinds DEF Begun, NoMessages
  <2>2. CASE worker[w].pc # "idle"
    BY <2>2 DEF Begun, AllIdle
  <2>3. QED
    BY <2>1, <2>2 DEF Bounces, Takes, Works, Executing, Healthy, GivingUp, GivesUp, Stops, Crash
<1>3. After /\ Single'
  BY <1>2, QuietBegun, SingleWork
<1>4. QED
  BY <1>1, <1>3 DEF Quiet, After, AllAnswered, OneHandler, HoldsReceipt

LEMMA SingleKept ==
    ASSUME Single, UNCHANGED <<queue, worker>>
    PROVE  Single'
  BY DEF Single, OneMessage, OneWorker, NoMessages, AllIdle

(* A callback at work keeps the others out, and puts the one message on    *)
(* the queue.                                                              *)
LEMMA QuietCallback ==
    ASSUME TypeOK, TypeOK', DispatchInv, Quiet, NEW h \in Handlers, Callback(h) \/ Respond(h)
    PROVE  Quiet'
<1>0. /\ job \in Jobs /\ receipt \in Receipts /\ handler \in [Handlers -> Callbacks]
      /\ handler[h].token \in Nat
  BY DEF TypeOK, Callbacks
<1>1. /\ \A g \in Handlers : g # h => handler'[g] = handler[g]
      /\ UNCHANGED worker /\ job'.attempts = job.attempts
  BY CallbackFrame DEF CallbackStep
<1>2. CASE Callback(h) /\ UNCHANGED <<receipt, handler>>
  BY <1>2, SingleKept DEF Callback, Quiet, Before, After, AllAnswered, OneHandler, HoldsReceipt,
      NoMessages, AllIdle
<1>3. CASE Callback(h) /\ ~UNCHANGED <<receipt, handler>>
  <2>1. handler[h].pc = "idle" /\ UNCHANGED <<job, queue, worker>>
    BY <1>3 DEF Callback
  <2>2. /\ receipt.status # "PROCESSED" /\ ~(receipt.status = "IN_PROGRESS" /\ receipt.lease > 0)
        /\ receipt' = [status |-> "IN_PROGRESS", claims |-> receipt.claims + 1,
                       token |-> receipt.claims + 1, lease |-> LeaseTTL]
        /\ handler' = [handler EXCEPT ![h] = [pc |-> "stage", token |-> receipt.claims + 1]]
    BY <1>3 DEF Callback
  <2>3. Before /\ AllAnswered
    BY <2>2 DEF Quiet, Before, After, OneHandler, HoldsReceipt
  <2>4. handler'[h].pc = "stage" /\ HoldsReceipt(h)'
    BY <1>0, <2>2, Zero DEF HoldsReceipt
  <2>5. OneHandler(h)'
    BY <1>1, <2>3, <2>4 DEF OneHandler, AllAnswered
  <2>6. QED
    BY <2>1, <2>3, <2>4, <2>5 DEF Quiet, Before, NoMessages, AllIdle
<1>4. CASE Respond(h)
  <2>1. handler[h].pc # "idle"
    BY <1>4 DEF Respond, Stage, Enqueue, MarkDispatched, MarkProcessed, MarkFailed
  <2>2. OneHandler(h) /\ HoldsReceipt(h)
    BY <2>1 DEF Quiet, Before, After, AllAnswered, OneHandler
  <2>3. ASSUME UNCHANGED receipt, NEW pc \in CallbackPcs, At(h, pc)
        PROVE  OneHandler(h)' /\ handler'[h].pc = pc
    <3>1. handler'[h] = [handler[h] EXCEPT !.pc = pc] /\ handler[h] \in Callbacks
      BY <1>0, <2>3 DEF At
    <3>2. handler'[h].pc = pc /\ handler'[h].token = handler[h].token
      BY <3>1 DEF Callbacks
    <3>3. QED
      BY <1>1, <2>2, <2>3, <3>2 DEF OneHandler, HoldsReceipt
  <2>4. \/ Before /\ handler[h].pc \in {"stage", "enqueue"}
        \/ After /\ \/ handler[h].pc = "mark" /\ job.task = 0
                    \/ handler[h].pc = "acknowledge" /\ job.task # 0
    BY <2>1 DEF Quiet, Before, After, AllAnswered, OneHandler
  <2>5. CASE handler[h].pc = "stage"
    <3>1. Stage(h) /\ Before
      BY <1>4, <2>4, <2>5 DEF Respond, Enqueue, MarkDispatched, MarkProcessed, MarkFailed
    <3>2. At(h, "enqueue") /\ UNCHANGED <<receipt, queue>> /\ job'.task = 0
      BY <1>0, <2>2, <3>1 DEF Stage, Before, Jobs
    <3>3. OneHandler(h)' /\ handler'[h].pc = "enqueue"
      BY <2>3, <3>2 DEF CallbackPcs
    <3>4. QED
      BY <1>1, <3>1, <3>2, <3>3 DEF Quiet, Before, NoMessages, AllIdle
  <2>6. CASE handler[h].pc = "enqueue"
    <3>1. Enqueue(h) /\ Before
      BY <1>4, <2>4, <2>6 DEF Respond, Stage, MarkDispatched, MarkProcessed, MarkFailed
    <3>2. /\ At(h, "mark") /\ UNCHANGED <<receipt, job>>
          /\ queue' = [queue EXCEPT ![<<0, 0>>] = @ + 1]
      BY <3>1 DEF Enqueue
    <3>3. OneHandler(h)' /\ handler'[h].pc = "mark"
      BY <2>3, <3>2 DEF CallbackPcs
    <3>4. /\ queue'[<<0, 0>>] = queue[<<0, 0>>] + 1
          /\ \A m \in Messages : m # <<0, 0>> => queue'[m] = queue[m]
      BY <3>2, FirstMessage, QueuePut
    <3>5. OneMessage(<<0, 0>>)'
      BY <1>1, <3>1, <3>4, FirstMessage DEF Before, OneMessage, NoMessages, AllIdle
    <3>6. QED
      BY <3>1, <3>2, <3>3, <3>5, FirstMessage DEF Quiet, Before, After, Single
  <2>7. CASE handler[h].pc = "mark"
    <3>1. MarkDispatched(h) /\ After /\ job.task = 0
      BY <1>4, <2>4, <2>7 DEF Respond, Stage, Enqueue, MarkProcessed, MarkFailed
    <3>2. /\ At(h, "acknowledge") /\ UNCHANGED <<receipt, queue>>
          /\ job' = [job EXCEPT !.task = handler[h].token]
      BY <3>1 DEF MarkDispatched
    <3>3. job'.task # 0
      BY <1>0, <2>1, <3>2 DEF DispatchInv, Carries, Jobs
    <3>4. OneHandler(h)' /\ handler'[h].pc = "acknowledge"
      BY <2>3, <3>2 DEF CallbackPcs
    <3>5. QED
      BY <1>1, <3>1, <3>2, <3>3, <3>4, SingleKept DEF Quiet, After
  <2>8. CASE handler[h].pc = "acknowledge"
    <3>1. MarkProcessed(h) /\ After /\ job.task # 0
      BY <1>4, <2>4, <2>8 DEF Respond, Stage, Enqueue, MarkDispatched, MarkFailed
    <3>2. receipt'.status = "PROCESSED" /\ Answer(h) /\ UNCHANGED <<job, queue>>
      BY <1>0, <2>2, <3>1 DEF MarkProcessed, Unclaimed, Receipts
    <3>3. handler'[h].pc = "idle"
      BY <1>0, <3>2 DEF Answer, NoCallback
    <3>4. AllAnswered'
      BY <1>1, <2>2, <3>3 DEF AllAnswered, OneHandler
    <3>5. QED
      BY <1>1, <3>1, <3>2, <3>4, SingleKept DEF Quiet, After
  <2>9. QED
    BY <2>4, <2>5, <2>6, <2>7, <2>8
<1>5. QED
  BY <1>2, <1>3, <1>4

(* A callback without a fault does not outlive its lease.                  *)
LEMMA QuietTick ==
    ASSUME TypeOK, TypeOK', Quiet, Tick, faults' = faults
    PROVE  Quiet'
<1>1. /\ UNCHANGED <<worker, handler>> /\ job'.task = job.task /\ job'.attempts = job.attempts
      /\ \A m \in Messages : queue'[m] = IF m[2] = 0 THEN queue[m] + queue[<<m[1], 1>>] ELSE 0
  BY TickFrame
<1>2. /\ receipt' = [receipt EXCEPT !.lease = Less(@)] /\ receipt \in Receipts
      /\ \A m \in Messages : queue[m] \in Nat
  BY DEF Tick, TypeOK
<1>3. LateHandlers = {}
  <2>1. IsFiniteSet(LateHandlers)
    BY FS_Subset DEF LateHandlers
  <2>2. Cardinality(LateHandlers) = 0
    BY <2>1, FS_CardinalityType DEF Tick, TypeOK
  <2>3. QED
    BY <2>1, <2>2, FS_EmptySet
<1>4. receipt'.status = receipt.status /\ receipt'.token = receipt.token
      /\ receipt'.lease = Less(receipt.lease) /\ receipt.lease \in Nat
  BY <1>2 DEF Receipts
<1>5. \A h \in Handlers : OneHandler(h) => OneHandler(h)'
  <2>1. \A h \in Handlers : HoldsReceipt(h) => HoldsReceipt(h)'
    BY <1>1, <1>3, <1>4 DEF LateHandlers, HoldsReceipt, Less
  <2>2. QED
    BY <1>1, <2>1 DEF OneHandler
<1>6. NoMessages => NoMessages'
  <2>1. ASSUME NoMessages, NEW m \in Messages PROVE queue'[m] = 0
    <3>1. <<m[1], 1>> \in Messages
      BY MessageParts DEF Messages
    <3>2. QED
      BY <1>1, <2>1, <3>1 DEF NoMessages
  <2>2. QED
    BY <2>1 DEF NoMessages
<1>7. ASSUME NEW m \in Messages, OneMessage(m) PROVE Single'
  <2>1. PICK r \in 0..MaxRetries, c \in {0, 1} : m = <<r, c>>
    BY DEF Messages
  <2>2. <<r, 0>> \in Messages /\ <<r, 1>> \in Messages
    BY DEF Messages
  <2>3. queue[m] = 1 /\ \A k \in Messages : k # m => queue[k] = 0
    BY <1>7 DEF OneMessage
  <2>4. queue'[<<r, 0>>] = 1
    <3>1. queue'[<<r, 0>>] = queue[<<r, 0>>] + queue[<<r, 1>>]
      BY <1>1, <2>2
    <3>2. \/ queue[<<r, 0>>] = 1 /\ queue[<<r, 1>>] = 0
          \/ queue[<<r, 0>>] = 0 /\ queue[<<r, 1>>] = 1
      BY <2>1, <2>2, <2>3
    <3>3. QED
      BY <3>1, <3>2
  <2>5. ASSUME NEW k \in Messages, k # <<r, 0>> PROVE queue'[k] = 0
    <3>1. PICK s \in 0..MaxRetries, d \in {0, 1} : k = <<s, d>>
      BY DEF Messages
    <3>2. CASE d = 1
      BY <1>1, <3>1, <3>2
    <3>3. CASE d = 0
      <4>1. s # r /\ <<s, 0>> \in Messages /\ <<s, 1>> \in Messages
        BY <2>5, <3>1, <3>3 DEF Messages
      <4>2. <<s, 0>> # m /\ <<s, 1>> # m
        BY <2>1, <4>1
      <4>3. queue[<<s, 0>>] = 0 /\ queue[<<s, 1>>] = 0
        BY <2>3, <4>1, <4>2
      <4>4. QED
        BY <1>1, <3>1, <3>3, <4>3
    <3>4. QED
      BY <3>1, <3>2, <3>3
  <2>6. OneMessage(<<r, 0>>)'
    BY <1>1, <1>7, <2>4, <2>5 DEF OneMessage, AllIdle
  <2>7. QED
    BY <2>2, <2>6 DEF Single
<1>8. Single => Single'
  BY <1>1, <1>6, <1>7 DEF Single, OneWorker
<1>9. QED
  BY <1>1, <1>4, <1>5, <1>6, <1>8 DEF Quiet, Before, After, AllAnswered, AllIdle

-----------------------------------------------------------------------------
(* The duty: before the first fault the callbacks are quiet and the first  *)
(* message is on its way; a fault of a callback leaves the message alone   *)
(* and one of a worker the callbacks; and a second fault finds a message   *)
(* with retries enough.                                                    *)
Duty ==
    /\ faults = 0 => Quiet /\ First
    /\ faults = 1 => First \/ (Quiet /\ (Begun => Attended(LeaseTTL)))
    /\ faults = 2 => (Begun => Attended(MaxRetries))
DutyInv == misses = 0 /\ job.status \notin Terminal => SoberInv /\ Duty

LEMMA RetriesEnough ==
    ASSUME RetriesOutlastFaults
    PROVE  /\ MaxFaults \in {0, 1, 2} /\ MaxRetries \in Nat /\ LeaseTTL \in Nat
           /\ MaxFaults > 0 => LeaseTTL <= MaxRetries
           /\ MaxFaults = 2 => LeaseTTL + LeaseTTL <= MaxRetries
<1>1. MaxFaults \in {0, 1, 2}
  BY DEF RetriesOutlastFaults
<1>2. MaxFaults = 1 => LeaseTTL <= MaxRetries
  BY DEF RetriesOutlastFaults
<1>3. MaxFaults = 2 => LeaseTTL + LeaseTTL <= MaxRetries
  BY DEF RetriesOutlastFaults
<1>4. QED
  BY <1>1, <1>2, <1>3

LEMMA DutyEnough ==
    ASSUME TypeOK, RetriesOutlastFaults, Duty, Begun
    PROVE  Attended(MaxRetries)
<1>1. faults \in {0, 1, 2} /\ (faults > 0 => LeaseTTL <= MaxRetries)
  BY RetriesEnough DEF TypeOK
<1>2. 0 <= MaxRetries /\ 0 \in Nat /\ MaxRetries \in Nat /\ LeaseTTL \in Nat
  BY RetriesEnough
<1>3. First => Attended(MaxRetries)
  BY <1>2, FirstAttended, AttendedMore
<1>4. LeaseTTL <= MaxRetries /\ Attended(LeaseTTL) => Attended(MaxRetries)
  BY <1>2, AttendedMore
<1>5. QED
  BY <1>1, <1>3, <1>4 DEF Duty

LEMMA BegunCallback ==
    ASSUME TypeOK, NEW h \in Handlers, CallbackStep(h), ~Enqueue(h), Begun'
    PROVE  Begun
<1>1. UNCHANGED <<queue, worker>> /\ job'.attempts = job.attempts
  BY CallbackFrame
<1>2. handler'[h].pc # "mark" \/ handler'[h] = handler[h]
  BY DEF CallbackStep, Callback, Respond, CallbackFails, Stage, MarkDispatched,
      MarkProcessed, MarkFailed, At, Answer, NoCallback, TypeOK, Callbacks
<1>3. job'.task = job.task \/ handler[h].pc = "mark"
  BY CallbackFrame DEF MarkDispatched
<1>4. QED
  BY <1>1, <1>2, <1>3, CallbackFrame DEF Begun, NoMessages, AllIdle

LEMMA BegunTick ==
    ASSUME TypeOK, Tick, Begun'
    PROVE  Begun
<1>1. NoMessages => NoMessages'
  <2>1. ASSUME NoMessages, NEW m \in Messages PROVE queue'[m] = 0
    <3>1. <<m[1], 1>> \in Messages
      BY MessageParts DEF Messages
    <3>2. QED
      BY <2>1, <3>1, TickFrame DEF NoMessages
  <2>2. QED
    BY <2>1 DEF NoMessages
<1>2. QED
  BY <1>1, TickFrame DEF Begun, AllIdle

LEMMA BegunWork ==
    ASSUME TypeOK, NEW w \in Workers,
           \/ Receive(w) \/ Bounces(w) \/ Takes(w) \/ Works(w) \/ GivesUp(w) \/ Stops(w)
           \/ Crash(w) \/ Redeliver(w)
    PROVE  Begun
<1>1. CASE Receive(w)
  BY <1>1, ReceiveFinds DEF Begun, NoMessages
<1>2. CASE worker[w].pc # "idle"
  BY <1>2 DEF Begun, AllIdle
<1>3. QED
  BY <1>1, <1>2 DEF Bounces, Takes, Works, Executing, Healthy, GivingUp, GivesUp, Stops, Crash,
      Redeliver

(* The first message of a job outlasts any lease.                          *)
LEMMA AttendedCallback ==
    ASSUME TypeOK, TypeOK', NEW n \in Nat, LeaseTTL <= n, Begun => Attended(n),
           NEW h \in Handlers, CallbackStep(h), Begun'
    PROVE  Attended(n)'
<1>1. UNCHANGED worker /\ job'.lease = job.lease
  BY CallbackFrame
<1>2. CASE Begun
  <2>1. \A m \in Messages : queue'[m] >= queue[m]
    <3>1. CASE UNCHANGED queue
      BY <3>1 DEF TypeOK
    <3>2. CASE queue' = [queue EXCEPT ![<<0, 0>>] = @ + 1]
      BY <3>2, FirstMessage, QueuePut
    <3>3. QED
      BY <3>1, <3>2, CallbackFrame
  <2>2. QED
    BY <1>1, <1>2, <2>1, AttendedStays
<1>3. CASE ~Begun
  <2>1. queue' = [queue EXCEPT ![<<0, 0>>] = @ + 1]
    BY <1>3, BegunCallback, CallbackFrame DEF Enqueue
  <2>2. queue'[<<0, 0>>] > 0 /\ <<0, 0>> \in Messages
    BY <2>1, FirstMessage, QueuePut
  <2>3. \A w \in Workers : ~Executing(w)'
    BY <1>1, <1>3 DEF Begun, AllIdle, Executing, Healthy, GivingUp
  <2>4. 0 + Left(0)' <= n
    BY <1>1, Zero DEF Left, TypeOK, Jobs
  <2>5. Patient(<<0, 0>>, n)'
    BY <2>2, <2>4 DEF Patient
  <2>6. QED
    BY <2>2, <2>3, <2>5 DEF Attended
<1>4. QED
  BY <1>2, <1>3

LEMMA CallbackDuty ==
    ASSUME TypeOK, TypeOK', RetriesOutlastFaults, DispatchInv, Duty,
           NEW h \in Handlers, CallbackStep(h)
    PROVE  Duty'
<1>1. faults' \in {faults, faults + 1} /\ faults \in 0..MaxFaults /\ faults' \in 0..MaxFaults
  BY DEF TypeOK, CallbackStep, Callback, Respond, CallbackFails, Fault, Stage, Enqueue,
      MarkDispatched, MarkProcessed, MarkFailed
<1>2. faults' = faults => Callback(h) \/ Respond(h)
  BY <1>1 DEF CallbackStep, CallbackFails, Fault
<1>3. CASE faults' = 0
  <2>1. faults = 0 /\ (Callback(h) \/ Respond(h))
    BY <1>1, <1>2, <1>3
  <2>2. QED
    BY <1>3, <2>1, QuietCallback, FirstCallback DEF Duty
<1>4. CASE faults' = 1
  <2>1. CASE First
    BY <1>4, <2>1, FirstCallback DEF Duty
  <2>2. CASE ~First
    <3>1. faults = 1 /\ (Callback(h) \/ Respond(h))
      BY <1>1, <1>2, <1>4, <2>2 DEF Duty
    <3>2. Quiet /\ (Begun => Attended(LeaseTTL))
      BY <2>2, <3>1 DEF Duty
    <3>3. Quiet'
      BY <3>1, <3>2, QuietCallback
    <3>4. Begun' => Attended(LeaseTTL)'
      BY <3>2, Zero, AttendedCallback
    <3>5. QED
      BY <1>4, <3>3, <3>4 DEF Duty
  <2>3. QED
    BY <2>1, <2>2
<1>5. CASE faults' = 2
  <2>1. LeaseTTL <= MaxRetries /\ MaxRetries \in Nat
    BY <1>1, <1>5, RetriesEnough
  <2>2. Begun' => Attended(MaxRetries)'
    BY <2>1, DutyEnough, AttendedCallback
  <2>3. QED
    BY <1>5, <2>2 DEF Duty
<1>6. QED
  BY <1>1, <1>3, <1>4, <1>5, RetriesEnough

LEMMA TickDuty ==
    ASSUME TypeOK, TypeOK', RetriesOutlastFaults, SoberInv, Duty, Tick
    PROVE  Duty'
<1>1. faults \in 0..MaxFaults /\ faults' \in 0..MaxFaults /\ faults <= faults'
  <2>1. IsFiniteSet(LateHandlers)
    BY FS_Subset DEF LateHandlers
  <2>2. Cardinality(LateHandlers) \in Nat
    BY <2>1, FS_CardinalityType
  <2>3. QED
    BY <2>2 DEF TypeOK, Tick
<1>2. CASE faults' = 0
  <2>1. faults = 0
    BY <1>1, <1>2
  <2>2. QED
    BY <1>2, <2>1, QuietTick, FirstTick DEF Duty
<1>3. CASE faults' = 1
  <2>1. CASE First
    BY <1>3, <2>1, FirstTick DEF Duty
  <2>2. CASE ~First
    <3>1. faults = 1
      BY <1>1, <1>3, <2>2 DEF Duty
    <3>2. Quiet /\ (Begun => Attended(LeaseTTL))
      BY <2>2, <3>1 DEF Duty
    <3>3. Quiet'
      BY <1>3, <3>1, <3>2, QuietTick
    <3>4. Begun' => Attended(LeaseTTL)'
      BY <3>2, Zero, BegunTick, AttendedTick
    <3>5. QED
      BY <1>3, <3>3, <3>4 DEF Duty
  <2>3. QED
    BY <2>1, <2>2
<1>4. CASE faults' = 2
  <2>1. Begun' => Attended(MaxRetries)'
    BY BegunTick, DutyEnough, AttendedTick, RetriesEnough
  <2>2. QED
    BY <1>4, <2>1 DEF Duty
<1>5. QED
  BY <1>1, <1>2, <1>3, <1>4, RetriesEnough

(* What the workers do without a fault keeps the message in time.          *)
LEMMA CalmWork ==
    ASSUME TypeOK, TypeOK', SoberInv, NEW n \in Nat, n <= MaxRetries, n = MaxRetries \/ Single,
           Attended(n), NEW w \in Workers, Others(w),
           \/ Receive(w) \/ Bounces(w) \/ Takes(w) \/ GivesUp(w) \/ Stops(w)
           \/ Works(w) /\ ~WorkerFault(w)
    PROVE  Attended(n)'
  BY ReceiveAttended, BounceAttended, TakeAttended, GiveUpAttended, StopAttended, WorkAttended

LEMMA WorkDuty ==
    ASSUME TypeOK, TypeOK', RetriesOutlastFaults, SoberInv, Duty, NEW w \in Workers,
           WorkerStep(w), Others(w),
           \/ Receive(w) \/ Bounces(w) \/ Takes(w) \/ Works(w) \/ GivesUp(w) \/ Stops(w)
           \/ Crash(w) \/ Redeliver(w)
    PROVE  Duty'
<1>1. faults \in 0..MaxFaults /\ faults' \in 0..MaxFaults
  BY DEF TypeOK
<1>2. /\ WorkerFault(w) => faults' = faults + 1
      /\ faults' = faults \/ WorkerFault(w)
  BY DEF WorkerFault, WorkFails, DeliveryFails, Crash, Redeliver, Fault, WorkerStep, Execute,
      Receive, Claim, Read, Work, Deliver, Send, Checkpoint, Finish, Retry, Unexpected, Stop,
      Renew, Miss
<1>3. Begun /\ Attended(MaxRetries)
  BY BegunWork, DutyEnough
<1>4. MaxRetries \in Nat /\ LeaseTTL \in Nat /\ 0 \in Nat /\ 0 <= MaxRetries
  BY RetriesEnough
<1>5. CASE faults' = faults
  <2>1. \/ Receive(w) \/ Bounces(w) \/ Takes(w) \/ GivesUp(w) \/ Stops(w)
        \/ Works(w) /\ ~WorkerFault(w)
    BY <1>1, <1>2, <1>5 DEF WorkerFault
  <2>2. CASE faults = 0
    <3>1. Quiet /\ First /\ Attended(0)
      BY <1>3, <2>2, FirstAttended DEF Duty
    <3>2. Quiet'
      BY <1>4, <2>1, <3>1, QuietWork
    <3>3. First'
      BY <2>1, <3>1, FirstWork
    <3>4. QED
      BY <1>5, <2>2, <3>2, <3>3 DEF Duty
  <2>3. CASE faults = 1
    <3>1. CASE First
      <4>1. First'
        BY <2>1, <3>1, FirstWork
      <4>2. QED
        BY <1>5, <2>3, <4>1 DEF Duty
    <3>2. CASE Quiet /\ Attended(LeaseTTL)
      <4>1. Single /\ LeaseTTL <= MaxRetries
        BY <1>1, <1>3, <2>3, <3>2, QuietBegun, RetriesEnough
      <4>2. Quiet'
        BY <1>4, <2>1, <3>2, <4>1, QuietWork
      <4>3. Attended(LeaseTTL)'
        BY <1>4, <2>1, <3>2, <4>1, CalmWork
      <4>4. QED
        BY <1>5, <2>3, <4>2, <4>3 DEF Duty
    <3>3. QED
      BY <1>3, <2>3, <3>1, <3>2 DEF Duty
  <2>4. CASE faults = 2
    <3>1. Attended(MaxRetries)'
      BY <1>3, <1>4, <2>1, CalmWork
    <3>2. QED
      BY <1>5, <2>4, <3>1 DEF Duty
  <2>5. QED
    BY <1>1, <2>2, <2>3, <2>4, RetriesEnough
<1>6. CASE WorkerFault(w)
  <2>1. \/ Crash(w) \/ Redeliver(w)
        \/ Works(w) /\ UNCHANGED job
    <3>1. CASE WorkFails(w) \/ DeliveryFails(w)
      BY <3>1, FailingWorks DEF WorkFails, DeliveryFails
    <3>2. QED
      BY <1>6, <3>1 DEF WorkerFault
  <2>2. CASE faults = 0
    <3>1. Quiet /\ First /\ Attended(0) /\ faults' = 1
      BY <1>2, <1>3, <1>6, <2>2, FirstAttended DEF Duty
    <3>2. CASE Redeliver(w)
      <4>1. First'
        BY <3>1, <3>2, FirstWork
      <4>2. QED
        BY <3>1, <4>1 DEF Duty
    <3>3. CASE ~Redeliver(w)
      <4>1. Quiet'
        BY <1>4, <2>1, <3>1, <3>3, QuietWork
      <4>2. Attended(0 + LeaseTTL)'
        BY <1>4, <2>1, <3>1, FaultAttended
      <4>3. 0 + LeaseTTL = LeaseTTL
        BY <1>4
      <4>4. Attended(LeaseTTL)'
        BY <4>2, <4>3
      <4>5. QED
        BY <3>1, <4>1, <4>4 DEF Duty
    <3>4. QED
      BY <3>2, <3>3
  <2>3. CASE faults = 1
    <3>1. faults' = 2 /\ LeaseTTL + LeaseTTL <= MaxRetries
      BY <1>1, <1>2, <1>6, <2>3, RetriesEnough
    <3>2. Attended(LeaseTTL)
      BY <1>3, <1>4, <2>3, FirstAttended, AttendedMore DEF Duty
    <3>3. PICK n \in Nat : n + LeaseTTL = MaxRetries /\ LeaseTTL <= n
      <4>1. MaxRetries - LeaseTTL \in Nat
        BY <1>4, <3>1
      <4>2. QED
        BY <1>4, <3>1, <4>1
    <3>4. Attended(n)
      BY <1>4, <3>2, <3>3, AttendedMore
    <3>5. Attended(n + LeaseTTL)'
      BY <2>1, <3>4, FaultAttended
    <3>6. Attended(MaxRetries)'
      BY <3>3, <3>5
    <3>7. QED
      BY <3>1, <3>6 DEF Duty
  <2>4. CASE faults = 2
    BY <1>1, <1>2, <1>6, <2>4, RetriesEnough
  <2>5. QED
    BY <1>1, <2>2, <2>3, <2>4, RetriesEnough
<1>7. QED
  BY <1>2, <1>5, <1>6

LEMMA DutyStep ==
    ASSUME RetriesOutlastFaults, TypeOK, TypeOK', TellInv, DispatchInv, DutyInv, [Next]_vars
    PROVE  DutyInv'
<1> SUFFICES ASSUME misses' = 0, job'.status \notin Terminal PROVE SoberInv' /\ Duty'
    BY DEF DutyInv
<1>1. misses = 0
  <2>1. misses \in Nat /\ misses' \in Nat
    BY DEF TypeOK
  <2>2. CASE Tick
    <3>1. IsFiniteSet(LateWorkers)
      BY FS_Subset DEF LateWorkers
    <3>2. Cardinality(LateWorkers) \in Nat
      BY <3>1, FS_CardinalityType
    <3>3. QED
      BY <2>1, <2>2, <3>2 DEF Tick
  <2>3. CASE ~Tick
    <3>1. misses' = misses \/ misses' = misses + 1
      <4>1. ASSUME NEW h \in Handlers, CallbackStep(h) PROVE misses' = misses
        BY <4>1, CallbackFrame
      <4>2. ASSUME NEW w \in Workers, WorkerStep(w)
            PROVE  misses' = misses \/ misses' = misses + 1
        BY <4>2 DEF WorkerStep, Execute, Receive, Claim, Read, Work, Deliver, Send, Checkpoint,
            Finish, Retry, Unexpected, Stop, Renew, WorkFails, DeliveryFails, Miss, Crash,
            Redeliver
      <4>3. QED
        BY <2>3, <4>1, <4>2 DEF Next, vars, WorkerStep, CallbackStep
    <3>2. QED
      BY <2>1, <3>1
  <2>4. QED
    BY <2>2, <2>3
<1>2. job.status \notin Terminal
  BY EndedStays
<1>3. SoberInv /\ Duty
  BY <1>1, <1>2 DEF DutyInv
<1>4. SoberInv'
  BY <1>1, <1>2, <1>3, SoberStep
<1>5. Duty'
  <2>1. ASSUME NEW h \in Handlers, CallbackStep(h) PROVE Duty'
    BY <1>3, <2>1, CallbackDuty
  <2>2. ASSUME NEW w \in Workers, WorkerStep(w) PROVE Duty'
    <3>1. Others(w)
      BY <2>2, OthersRest
    <3>2. \/ Receive(w) \/ Bounces(w) \/ Takes(w) \/ Works(w) \/ GivesUp(w) \/ Stops(w)
          \/ Crash(w) \/ Redeliver(w)
      BY <1>1, <1>2, <1>3, <2>2, WorkerKinds
    <3>3. QED
      BY <1>3, <2>2, <3>1, <3>2, WorkDuty
  <2>3. CASE Tick
    BY <1>3, <2>3, TickDuty
  <2>4. CASE UNCHANGED vars
    BY <1>3, <2>4 DEF vars, Duty, Quiet, Before, After, Single, OneMessage, OneWorker, NoMessages,
        AllIdle, AllAnswered, OneHandler, HoldsReceipt, First, Fresh, Begun, Healthy, GivingUp,
        Executing, Attended, Again, Patient, AtClaim, Left
  <2>5. QED
    BY <2>1, <2>2, <2>3, <2>4 DEF Next, WorkerStep, CallbackStep
<1>6. QED
  BY <1>4, <1>5

LEMMA DutyStart ==
    ASSUME Init
    PROVE  DutyInv
<1>1. SoberInv
  BY DEF Init, SoberInv, Sober, Executing, Healthy, GivingUp, Owns, NoJob, Idle
<1>2. NoMessages /\ AllIdle /\ AllAnswered
  BY DEF Init, NoMessages, AllIdle, AllAnswered, Idle, NoCallback
<1>3. Quiet
  BY <1>2 DEF Init, Quiet, Before, NoJob, NoReceipt
<1>4. ~Begun
  BY <1>2 DEF Init, Begun, NoJob, AllAnswered
<1>5. First
  BY <1>2, <1>4 DEF Init, First, Fresh, NoJob, NoMessages, AllIdle
<1>6. QED
  BY <1>1, <1>3, <1>5 DEF Init, DutyInv, Duty

(* A job that is acknowledged has begun, and one that is attended is       *)
(* handled.                                                                *)
LEMMA DutyHeld ==
    ASSUME RetriesOutlastFaults, TypeOK, DispatchInv, DutyInv
    PROVE  SomeoneIsResponsible
<1> SUFFICES ASSUME misses = 0, job.status \notin Terminal, receipt.status = "PROCESSED"
             PROVE  Handled
    BY DEF SomeoneIsResponsible
<1>1. Begun
  BY DEF DispatchInv, AcknowledgedIsDispatched, Begun
<1>2. Attended(MaxRetries)
  BY <1>1, DutyEnough DEF DutyInv
<1>3. QED
  BY <1>2 DEF Attended, Handled, Waiting, Patient, AtClaim, Again, Healthy, GivingUp

(* A staged job that has not ended has a message, a worker or a callback,  *)
(* or Feishu sends its event again - as long as the heartbeat misses no    *)
(* round and the retries of a message outlast the leases that at most two  *)
(* faults can leave behind, as 61 retries a minute apart outlast twice the *)
(* default lease of five minutes.                                          *)
THEOREM JobIsSomeonesDuty ==
    ASSUME RetriesOutlastFaults
    PROVE  Spec => []SomeoneIsResponsible
<1>1. Init => DispatchInv /\ DutyInv
  BY DutyStart DEF Init, NoReceipt, NoCallback, DispatchInv, AcknowledgedIsDispatched, Carries
<1>2. TypeOK /\ TypeOK' /\ TellInv /\ DispatchInv /\ DutyInv /\ [Next]_vars
         => (DispatchInv /\ DutyInv)'
  BY DispatchStep, DutyStep
<1>3. TypeOK /\ DispatchInv /\ DutyInv => SomeoneIsResponsible
  BY DutyHeld
<1>4. QED
  BY <1>1, <1>2, <1>3, TypeCorrect, TellInvariant, PTL DEF Spec

-----------------------------------------------------------------------------
(***************************************************************************)
(* Repetitions.  A part that was sent is credited to the row that records  *)
(* it, or to the owner of the claim who is about to; what was sent beyond  *)
(* that is excess, and each excess has a fault or a missed round of its    *)
(* own.  Some of these are spent before they show: a worker that has lost  *)
(* its claim and is about to send, or whose heartbeat has failed.          *)
(***************************************************************************)
Columns == {"card", "report", "notice", "record"}
Count(f) == IF f = "card" THEN Cards ELSE sent[f]
Shows(w, f) == \E p \in Due(w) : Field(p) = f
Credited(f) ==
    f \in job.saved \/ \E w \in Workers : Owns(w) /\ worker[w].pc = "checkpoint" /\ Shows(w, f)
Excess(f) == IF Credited(f) THEN Count(f) - 1 ELSE Count(f)
Repeats == Excess("card") + Excess("report") + Excess("notice") + Excess("record")

Liable(w) == IF Owns(w) THEN worker[w].beat = "failed" ELSE worker[w].pc = "send"
Liables == {w \in Workers : Liable(w)}

(* Tokens tell claims apart, so at most one worker is the owner.           *)
TokenInv ==
    /\ job.status = "RUNNING" => job.token > 0
    /\ job.token <= job.attempts
    /\ \A w \in Workers :
          /\ worker[w].token <= job.attempts
          /\ worker[w].pc \in {"idle", "claim"} => worker[w].token = 0
          /\ \A v \in Workers : v # w /\ worker[v].token = worker[w].token => worker[v].token = 0

(* What the owner of the claim read is what the row records, and what it   *)
(* still has to do is not recorded.                                        *)
Knows(w) ==
    /\ Owns(w) /\ worker[w].pc \in {"work", "deliver"} => worker[w].saved = job.saved
    /\ Owns(w) /\ worker[w].pc \in {"send", "checkpoint"} =>
          \A p \in worker[w].todo : Field(p) \notin job.saved
    /\ ~({"card", "refusal"} \subseteq worker[w].todo)

Tally == Repeats + Cardinality(Liables) <= faults + misses

TallyInv ==
    /\ TokenInv
    /\ \A w \in Workers : Knows(w)
    /\ Tally

(* What a step leaves of the memory of its worker.                         *)
Same(w) ==
    /\ worker'[w].token = worker[w].token /\ worker'[w].beat = worker[w].beat
    /\ worker'[w].todo = worker[w].todo
Cleared(w) ==
    /\ worker'[w].pc \in {"idle", "claim"} /\ worker'[w].token = 0
    /\ worker'[w].beat = "off" /\ worker'[w].todo = {}

LEMMA HelperFields ==
    ASSUME TypeOK, NEW w \in Workers
    PROVE  /\ Receive(w) => Cleared(w)
           /\ Acknowledge(w) => Cleared(w)
           /\ \A e \in Exits : Leaves(w, e) => Same(w) /\ worker'[w].pc = "stop"
           /\ \A pc \in Pcs : Goes(w, pc) =>
                 Same(w) /\ worker'[w].pc = pc /\ worker'[w].saved = worker[w].saved
           /\ TakeClaim(w) =>
                 /\ worker'[w].pc = "read" /\ worker'[w].token = job.attempts + 1
                 /\ worker'[w].beat = "on" /\ worker'[w].todo = worker[w].todo
                 /\ job' = [job EXCEPT !.status = "RUNNING", !.attempts = job.attempts + 1,
                                       !.token = job.attempts + 1, !.lease = LeaseTTL]
<1>0. worker \in [Workers -> WorkerStates] /\ worker[w] \in WorkerStates
  BY DEF TypeOK
<1>1. Receive(w) => Cleared(w)
  BY <1>0 DEF Receive, Cleared, Idle
<1>2. Acknowledge(w) => Cleared(w)
  BY <1>0 DEF Acknowledge, Cleared, Idle
<1>3. ASSUME NEW e \in Exits, Leaves(w, e) PROVE Same(w) /\ worker'[w].pc = "stop"
  BY <1>0, <1>3 DEF Leaves, Same, WorkerStates
<1>4. ASSUME NEW pc \in Pcs, Goes(w, pc)
      PROVE  Same(w) /\ worker'[w].pc = pc /\ worker'[w].saved = worker[w].saved
  BY <1>0, <1>4 DEF Goes, Same, WorkerStates
<1>5. TakeClaim(w) =>
         /\ worker'[w].pc = "read" /\ worker'[w].token = job.attempts + 1
         /\ worker'[w].beat = "on" /\ worker'[w].todo = worker[w].todo
         /\ job' = [job EXCEPT !.status = "RUNNING", !.attempts = job.attempts + 1,
                               !.token = job.attempts + 1, !.lease = LeaseTTL]
  BY <1>0 DEF TakeClaim, WorkerStates
<1>6. QED
  BY <1>1, <1>2, <1>3, <1>4, <1>5

LEMMA ReadFields ==
    ASSUME TypeOK, NEW w \in Workers, Read(w)
    PROVE  /\ Same(w) /\ worker'[w].pc \in {"work", "deliver"}
           /\ worker'[w].saved = job.saved /\ UNCHANGED <<job, sent>>
  BY DEF Read, Same, TypeOK, WorkerStates

LEMMA WorkFields ==
    ASSUME TypeOK, NEW w \in Workers, Work(w)
    PROVE  /\ Same(w) /\ UNCHANGED sent
           /\ \/ UNCHANGED job /\ worker'[w].pc = "stop"
              \/ /\ Owns(w) /\ worker'[w].pc = "deliver" /\ worker'[w].saved = job'.saved
                 /\ job' = [job EXCEPT !.saved = @ \cup {"results"}]
              \/ /\ Owns(w) /\ worker'[w].pc \in {"deliver", "finish"} /\ UNCHANGED job
                 /\ worker'[w].saved = worker[w].saved
<1>0. worker \in [Workers -> WorkerStates] /\ worker[w] \in WorkerStates
  BY DEF TypeOK
<1>1. CASE Refused(w)
  BY <1>1, HelperFields DEF Refused, Work, Exits
<1>2. CASE /\ Owns(w) /\ job' = [job EXCEPT !.saved = @ \cup {"results"}]
           /\ worker' = [worker EXCEPT ![w] =
                 [@ EXCEPT !.pc = "deliver", !.saved = job'.saved]]
  <2>1. worker'[w] = [worker[w] EXCEPT !.pc = "deliver", !.saved = job'.saved]
    BY <1>0, <1>2
  <2>2. QED
    BY <1>0, <1>2, <2>1 DEF Work, Same, WorkerStates
<1>3. ASSUME NEW pc \in {"deliver", "finish"}, NEW o, Owns(w), UNCHANGED job,
             worker' = [worker EXCEPT ![w] = [@ EXCEPT !.pc = pc, !.outcome = o]]
      PROVE  /\ Same(w) /\ worker'[w].pc \in {"deliver", "finish"}
             /\ worker'[w].saved = worker[w].saved
  BY <1>0, <1>3 DEF Same, WorkerStates
<1>4. QED
  BY <1>1, <1>2, <1>3 DEF Work

LEMMA DeliverFields ==
    ASSUME TypeOK, NEW w \in Workers, Deliver(w)
    PROVE  /\ UNCHANGED <<job, sent>>
           /\ worker'[w].token = worker[w].token /\ worker'[w].beat = worker[w].beat
           /\ \/ Same(w) /\ worker'[w].pc = "stop"
              \/ /\ Owns(w) /\ worker'[w].pc \in {"finish", "send"}
                 /\ worker'[w].todo =
                       {p \in Plan(worker[w].outcome) : Field(p) \notin worker[w].saved}
              \/ /\ Owns(w) /\ Same(w) /\ worker'[w].pc = "deliver"
                 /\ worker'[w].saved = worker[w].saved
<1>0. worker \in [Workers -> WorkerStates] /\ worker[w] \in WorkerStates
  BY DEF TypeOK
<1>1. CASE Refused(w)
  BY <1>1, HelperFields DEF Refused, Deliver, Exits, Same
<1>2. CASE worker' = [worker EXCEPT ![w].outcome = "REJECTED"] /\ Owns(w)
  BY <1>0, <1>2 DEF Deliver, Same, WorkerStates
<1>3. ASSUME NEW unsent, NEW pc \in {"finish", "send"}, Owns(w),
             unsent = {p \in Plan(worker[w].outcome) : Field(p) \notin worker[w].saved},
             worker' = [worker EXCEPT ![w] = [@ EXCEPT !.todo = unsent, !.pc = pc]]
      PROVE  /\ worker'[w].token = worker[w].token /\ worker'[w].beat = worker[w].beat
             /\ worker'[w].pc \in {"finish", "send"} /\ worker'[w].todo = unsent
  BY <1>0, <1>3 DEF WorkerStates
<1>4. UNCHANGED <<job, sent>>
  BY DEF Deliver, Refused
<1>5. QED
  BY <1>1, <1>2, <1>3, <1>4, Zenon DEF Deliver

LEMMA CheckpointFields ==
    ASSUME TypeOK, NEW w \in Workers, Checkpoint(w)
    PROVE  /\ UNCHANGED sent
           /\ worker'[w].token = worker[w].token /\ worker'[w].beat = worker[w].beat
           /\ \/ Same(w) /\ worker'[w].pc = "stop" /\ ~Owns(w) /\ UNCHANGED job
              \/ /\ Owns(w) /\ worker'[w].pc \in {"finish", "send"}
                 /\ \E p \in Due(w) : /\ job' = [job EXCEPT !.saved = @ \cup {Field(p)}]
                                      /\ worker'[w].todo = worker[w].todo \ {p}
<1>0. worker \in [Workers -> WorkerStates] /\ worker[w] \in WorkerStates
  BY DEF TypeOK
<1>1. CASE ~Owns(w) /\ Refused(w)
  BY <1>1, HelperFields DEF Refused, Checkpoint, Exits, Same
<1>2. ASSUME NEW p \in Due(w), NEW rest, NEW pc \in {"finish", "send"}, rest = worker[w].todo \ {p},
             worker' = [worker EXCEPT ![w] = [@ EXCEPT !.todo = rest, !.pc = pc]]
      PROVE  /\ worker'[w].token = worker[w].token /\ worker'[w].beat = worker[w].beat
             /\ worker'[w].pc \in {"finish", "send"} /\ worker'[w].todo = rest
  BY <1>0, <1>2 DEF WorkerStates
<1>3. CASE Owns(w)
  <2>1. PICK p \in Due(w) :
           LET rest == worker[w].todo \ {p} IN
           /\ job' = [job EXCEPT !.saved = @ \cup {Field(p)}]
           /\ worker' = [worker EXCEPT ![w] = [@ EXCEPT !.todo = rest,
                 !.pc = IF rest = {} THEN "finish" ELSE "send"]]
    BY <1>3 DEF Checkpoint
  <2>2. PICK pc \in {"finish", "send"} :
           worker' = [worker EXCEPT ![w] = [@ EXCEPT !.todo = worker[w].todo \ {p}, !.pc = pc]]
    BY <2>1
  <2>3. QED
    BY <1>2, <1>3, <2>1, <2>2 DEF Checkpoint
<1>4. QED
  BY <1>1, <1>3 DEF Checkpoint

LEMMA UnexpectedFields ==
    ASSUME TypeOK, NEW w \in Workers, Unexpected(w)
    PROVE  /\ UNCHANGED <<job, sent>> /\ worker[w].pc = "unexpected"
           /\ \/ Cleared(w)
              \/ /\ worker'[w].token = worker[w].token /\ worker'[w].beat = "off"
                 /\ worker'[w].todo = worker[w].todo /\ worker'[w].pc = "retry"
<1>0. worker \in [Workers -> WorkerStates] /\ worker[w] \in WorkerStates
  BY DEF TypeOK
<1>1. CASE worker' = [worker EXCEPT ![w] = Idle]
  BY <1>1, HelperFields DEF Unexpected, Acknowledge
<1>2. CASE worker' = [worker EXCEPT ![w] = [worker[w] EXCEPT !.pc = "retry", !.beat = "off",
                                                            !.attempt = job.attempts]]
  <2>1. worker'[w] = [worker[w] EXCEPT !.pc = "retry", !.beat = "off", !.attempt = job.attempts]
    BY <1>0, <1>2
  <2>2. QED
    BY <1>0, <2>1 DEF Unexpected, WorkerStates
<1>3. QED
  BY <1>1, <1>2, Zenon DEF Unexpected

LEMMA MissFields ==
    ASSUME TypeOK, NEW w \in Workers, Miss(w)
    PROVE  /\ UNCHANGED <<job, sent>> /\ worker'[w].token = worker[w].token
           /\ worker'[w].todo = worker[w].todo /\ worker'[w].pc = worker[w].pc
           /\ worker'[w].saved = worker[w].saved
<1>1. worker'[w] = [worker[w] EXCEPT !.beat = "failed"] /\ worker[w] \in WorkerStates
  BY DEF Miss, TypeOK
<1>2. QED
  BY <1>1 DEF Miss, WorkerStates

(* Who owns the claim: a step changes it for its own worker only.          *)
LEMMA OneOwner ==
    ASSUME TypeOK, TokenInv, NEW v \in Workers, NEW w \in Workers, Owns(v), Owns(w)
    PROVE  v = w
<1>1. job.token > 0 /\ worker[v].token = job.token /\ worker[w].token = job.token
  BY DEF TokenInv, Owns
<1>2. v # w => worker[v].token = 0
  BY <1>1 DEF TokenInv
<1>3. QED
  BY <1>1, <1>2

LEMMA RowMoves ==
    ASSUME TypeOK, NEW w \in Workers, WorkerStep(w), ~Takes(w)
    PROVE  /\ job'.attempts = job.attempts /\ job.saved \subseteq job'.saved
           /\ job'.saved = job.saved \/ Saves(w)
           /\ \/ /\ job'.status = job.status /\ job'.token = job.token
                 /\ job'.lease = job.lease \/ (Owns(w) /\ job'.lease = LeaseTTL)
              \/ /\ Owns(w) /\ worker[w].pc \in {"finish", "retry"}
                 /\ job'.status # "RUNNING" /\ job'.token = 0
<1>0. job \in Jobs /\ worker[w] \in WorkerStates
  BY DEF TypeOK
<1>1. ~(Claim(w) /\ ~Busy /\ TakeClaim(w))
  BY HelperFields DEF Takes, Claim, RetryLater, Acknowledge, Cleared
<1>2. CASE UNCHANGED job
  BY <1>2
<1>3. CASE Saves(w)
  <2>1. PICK f \in Fields : job' = [job EXCEPT !.saved = @ \cup {f}]
    BY <1>3 DEF Saves
  <2>2. QED
    BY <1>0, <1>3, <2>1 DEF Jobs
<1>4. CASE Ends(w)
  <2>1. PICK s \in (Terminal \cup {"NONE", "RETRYABLE"}) : Ended(s)
    BY <1>0, <1>4 DEF Ends, WorkerStates, Terminal
  <2>2. QED
    BY <1>0, <1>4, <2>1 DEF Ends, Ended, Jobs, Terminal
<1>5. CASE Renews(w)
  BY <1>0, <1>5 DEF Renews, Jobs
<1>6. QED
  BY <1>1, <1>2, <1>3, <1>4, <1>5, WorkerWrites

LEMMA TokenMoves ==
    ASSUME TypeOK, NEW w \in Workers, WorkerStep(w), ~Takes(w)
    PROVE  \/ Cleared(w)
           \/ /\ worker'[w].token = worker[w].token
              /\ worker'[w].pc \in {"idle", "claim"} => worker'[w].pc = worker[w].pc
<1>1. CASE Receive(w) \/ Stop(w) \/ Crash(w) \/ Claim(w)
  <2>1. ~(Claim(w) /\ ~Busy /\ TakeClaim(w))
    BY HelperFields DEF Takes, Claim, RetryLater, Acknowledge, Cleared
  <2>2. QED
    BY <1>1, <2>1, HelperFields DEF Stop, Crash, Claim
<1>2. CASE Read(w) \/ Work(w) \/ Deliver(w) \/ Checkpoint(w) \/ Unexpected(w) \/ Miss(w)
  BY <1>2, ReadFields, WorkFields, DeliverFields, CheckpointFields, UnexpectedFields, MissFields
  DEF Same
<1>3. CASE Finish(w) \/ Retry(w)
  BY <1>3, HelperFields DEF Finish, Retry, Refused, Exits, Same
<1>4. CASE Send(w) \/ WorkFails(w) \/ DeliveryFails(w)
  BY <1>4, HelperFields DEF Send, WorkFails, DeliveryFails, Pcs, Same
<1>5. CASE Renew(w) \/ Redeliver(w)
  BY <1>5 DEF Renew, Redeliver
<1>6. QED
  BY <1>1, <1>2, <1>3, <1>4, <1>5 DEF WorkerStep, Execute

LEMMA TakeMoves ==
    ASSUME TypeOK, NEW w \in Workers, Takes(w)
    PROVE  /\ job'.status = "RUNNING" /\ job'.attempts = job.attempts + 1
           /\ job'.token = job.attempts + 1 /\ job'.lease = LeaseTTL /\ job'.saved = job.saved
           /\ worker'[w].pc = "read" /\ worker'[w].token = job.attempts + 1
           /\ worker'[w].beat = "on" /\ worker'[w].todo = worker[w].todo
           /\ ~Busy /\ job.attempts \in Nat
<1>1. job \in Jobs
  BY DEF TypeOK
<1>2. QED
  BY <1>1, HelperFields DEF Takes, Jobs

LEMMA TokenStep == TypeOK /\ TypeOK' /\ TokenInv /\ [Next]_vars => TokenInv'
<1> SUFFICES ASSUME TypeOK, TypeOK', TokenInv, [Next]_vars PROVE TokenInv'
    OBVIOUS
<1>0. /\ job.attempts \in Nat /\ job.token \in Nat
      /\ \A v \in Workers : worker[v].token \in Nat
  BY WorkerShape DEF TypeOK, Jobs
<1>1. CASE UNCHANGED <<job, worker>>
  BY <1>1 DEF TokenInv
<1>2. ASSUME NEW h \in Handlers, CallbackStep(h) PROVE TokenInv'
  BY <1>2, CallbackFrame DEF TokenInv
<1>3. CASE Tick
  BY <1>3, TickFrame DEF TokenInv
<1>4. ASSUME NEW w \in Workers, WorkerStep(w) PROVE TokenInv'
  <2>1. \A v \in Workers : v # w => worker'[v] = worker[v]
    BY <1>4, OthersStay
  <2>2. CASE Takes(w)
    BY <1>0, <2>1, <2>2, TakeMoves DEF TokenInv
  <2>3. CASE ~Takes(w)
    <3>1. /\ job'.attempts = job.attempts
          /\ \/ job'.status = job.status /\ job'.token = job.token
             \/ job'.status # "RUNNING" /\ job'.token = 0
      BY <1>4, <2>3, RowMoves
    <3>2. \/ worker'[w].token = 0
          \/ /\ worker'[w].token = worker[w].token
             /\ worker'[w].pc \in {"idle", "claim"} => worker'[w].pc = worker[w].pc
      BY <1>4, <2>3, TokenMoves DEF Cleared
    <3>3. QED
      BY <1>0, <2>1, <3>1, <3>2 DEF TokenInv
  <2>4. QED
    BY <2>2, <2>3
<1>5. QED
  BY <1>1, <1>2, <1>3, <1>4 DEF Next, vars, WorkerStep, CallbackStep

LEMMA OwnerMoves ==
    ASSUME TypeOK, TypeOK', TokenInv, NEW w \in Workers, WorkerStep(w)
    PROVE  /\ \A v \in Workers : v # w => (Owns(v)' <=> Owns(v))
           /\ Owns(w)' => Owns(w) \/ Takes(w)
           /\ Owns(w) /\ worker'[w].token = worker[w].token
                 /\ worker[w].pc \notin {"finish", "retry"} => Owns(w)'
<1>0. /\ job.attempts \in Nat /\ job.token \in Nat /\ job.lease \in Nat
      /\ \A v \in Workers : worker[v].token \in Nat
  BY WorkerShape DEF TypeOK, Jobs
<1>1. \A v \in Workers : v # w => worker'[v] = worker[v]
  BY OthersStay
<1>2. CASE Takes(w)
  <2>1. \A v \in Workers : ~Owns(v)
    BY <1>2 DEF Takes, Busy, Owns
  <2>2. \A v \in Workers : v # w => ~Owns(v)'
    BY <1>0, <1>1, <1>2, TakeMoves DEF Owns, TokenInv
  <2>3. QED
    BY <1>2, <2>1, <2>2
<1>3. CASE ~Takes(w)
  <2>1. \/ /\ job'.status = job.status /\ job'.token = job.token
           /\ job'.lease = job.lease \/ (Owns(w) /\ job'.lease = LeaseTTL)
        \/ /\ Owns(w) /\ worker[w].pc \in {"finish", "retry"}
           /\ job'.status # "RUNNING" /\ job'.token = 0
    BY <1>3, RowMoves
  <2>2. \A v \in Workers : v # w /\ Owns(w) => ~Owns(v)
    BY OneOwner
  <2>3. worker'[w].token = 0 \/ worker'[w].token = worker[w].token
    BY <1>3, TokenMoves DEF Cleared
  <2>4. \A v \in Workers : v # w /\ Owns(w) => worker[v].token # job.token
    BY <1>0 DEF TokenInv, Owns
  <2>5. \A v \in Workers : v # w => (Owns(v)' <=> Owns(v))
    BY <1>1, <2>1, <2>2, <2>4 DEF Owns
  <2>6. Owns(w)' => Owns(w)
    BY <1>0, <2>1, <2>3 DEF Owns, TokenInv
  <2>7. Owns(w) /\ worker'[w].token = worker[w].token
           /\ worker[w].pc \notin {"finish", "retry"} => Owns(w)'
    BY <2>1, Zero DEF Owns
  <2>8. QED
    BY <1>3, <2>5, <2>6, <2>7
<1>4. QED
  BY <1>2, <1>3

(* A recorded part is not on the list of the owner.                        *)
LEMMA FieldOnce ==
    ASSUME TypeOK, NEW w \in Workers, Knows(w), NEW p \in Due(w), NEW q \in worker[w].todo,
           Field(p) = Field(q)
    PROVE  p = q
<1>1. p \in worker[w].todo /\ p \in Parts /\ q \in Parts
  BY WorkerParts DEF Due, TypeOK
<1>2. QED
  BY <1>1 DEF Knows, Field, Parts

LEMMA ShowsOne ==
    ASSUME TypeOK, NEW w \in Workers, NEW f, NEW g, Shows(w, f), Shows(w, g)
    PROVE  f = g
<1>1. PICK p \in Due(w), q \in Due(w) : Field(p) = f /\ Field(q) = g
  BY DEF Shows
<1>2. QED
  BY <1>1, DueTogether DEF Field

LEMMA KnowsOther ==
    ASSUME TypeOK, TypeOK', TokenInv, NEW w \in Workers, WorkerStep(w),
           NEW v \in Workers, v # w, Knows(v)
    PROVE  Knows(v)'
<1>1. worker'[v] = worker[v] /\ (Owns(v)' => Owns(v))
  BY OthersStay, OwnerMoves
<1>2. Owns(v) => job'.saved = job.saved
  BY RowMoves, TakeMoves, OneOwner DEF Saves
<1>3. QED
  BY <1>1, <1>2 DEF Knows

LEMMA KnowsMover ==
    ASSUME TypeOK, TypeOK', TokenInv, NEW w \in Workers, WorkerStep(w), Knows(w)
    PROVE  Knows(w)'
<1>0. job \in Jobs /\ worker[w] \in WorkerStates
  BY DEF TypeOK
<1>1. CASE worker'[w].todo \subseteq worker[w].todo
            /\ worker'[w].pc \notin {"work", "deliver", "send", "checkpoint"}
  BY <1>1 DEF Knows
<1>2. CASE Cleared(w) \/ Takes(w) \/ (Same(w) /\ worker'[w].pc \in {"stop", "retry", "unexpected"})
  BY <1>1, <1>2, TakeMoves DEF Cleared, Same
<1>3. CASE Receive(w) \/ Stop(w) \/ Crash(w) \/ Claim(w)
  BY <1>2, <1>3, HelperFields DEF Stop, Crash, Claim, Takes
<1>4. CASE Finish(w) \/ Retry(w) \/ WorkFails(w) \/ DeliveryFails(w)
  BY <1>2, <1>4, HelperFields DEF Finish, Retry, Refused, Exits, WorkFails, DeliveryFails, Pcs
<1>5. CASE Unexpected(w)
  BY <1>1, <1>2, <1>5, UnexpectedFields
<1>6. CASE Read(w)
  BY <1>6, ReadFields DEF Knows, Same
<1>7. CASE Work(w)
  <2>1. CASE UNCHANGED job /\ worker'[w].pc = "stop"
    BY <1>2, <1>7, <2>1, WorkFields
  <2>2. CASE worker'[w].pc = "deliver" /\ worker'[w].saved = job'.saved
    BY <1>7, <2>2, WorkFields DEF Knows, Same
  <2>3. CASE /\ Owns(w) /\ worker'[w].pc \in {"deliver", "finish"} /\ UNCHANGED job
             /\ worker'[w].saved = worker[w].saved
    BY <1>7, <2>3, WorkFields DEF Knows, Same, Work
  <2>4. QED
    BY <1>7, <2>1, <2>2, <2>3, WorkFields
<1>8. CASE Deliver(w)
  <2>1. CASE Same(w) /\ worker'[w].pc = "stop"
    BY <1>2, <2>1
  <2>2. CASE /\ Owns(w) /\ worker'[w].pc \in {"finish", "send"}
             /\ worker'[w].todo =
                   {p \in Plan(worker[w].outcome) : Field(p) \notin worker[w].saved}
    <3>1. worker[w].saved = job.saved /\ UNCHANGED job
      BY <1>8, <2>2, DeliverFields DEF Knows, Deliver
    <3>2. ~({"card", "refusal"} \subseteq Plan(worker[w].outcome))
      BY DEF Plan
    <3>3. QED
      BY <2>2, <3>1, <3>2 DEF Knows
  <2>3. CASE Owns(w) /\ Same(w) /\ worker'[w].pc = "deliver" /\ worker'[w].saved = worker[w].saved
    BY <1>8, <2>3, DeliverFields DEF Knows, Same, Deliver
  <2>4. QED
    BY <1>8, <2>1, <2>2, <2>3, DeliverFields
<1>9. CASE Send(w)
  <2>1. /\ Same(w) /\ worker'[w].pc = "checkpoint" /\ UNCHANGED job /\ worker[w].pc = "send"
    BY <1>9, HelperFields DEF Send, Pcs
  <2>2. Owns(w)' => Owns(w)
    BY <2>1 DEF Same, Owns
  <2>3. QED
    BY <2>1, <2>2 DEF Knows, Same
<1>10. CASE Checkpoint(w)
  <2>1. CASE Same(w) /\ worker'[w].pc = "stop"
    BY <1>2, <2>1
  <2>2. ASSUME Owns(w), worker'[w].pc \in {"finish", "send"}, NEW p \in Due(w),
               job' = [job EXCEPT !.saved = @ \cup {Field(p)}],
               worker'[w].todo = worker[w].todo \ {p}
        PROVE  Knows(w)'
    <3>1. job'.saved = job.saved \cup {Field(p)}
      BY <1>0, <2>2 DEF Jobs
    <3>2. \A q \in worker'[w].todo : Field(q) \notin job'.saved
      BY <1>10, <2>2, <3>1, FieldOnce DEF Knows, Checkpoint
    <3>3. QED
      BY <2>2, <3>2 DEF Knows
  <2>3. QED
    BY <1>10, <2>1, <2>2, CheckpointFields
<1>11. CASE Miss(w)
  <2>1. Owns(w)' => Owns(w)
    BY <1>11, MissFields DEF Owns
  <2>2. QED
    BY <1>11, <2>1, MissFields DEF Knows
<1>12. CASE Renew(w)
  <2>1. Owns(w) /\ worker'[w] = worker[w] /\ job'.saved = job.saved
    BY <1>0, <1>12 DEF Renew, Jobs
  <2>2. QED
    BY <2>1 DEF Knows
<1>13. CASE Redeliver(w)
  BY <1>13 DEF Redeliver, Knows, Owns
<1>14. QED
  BY <1>3, <1>4, <1>5, <1>6, <1>7, <1>8, <1>9, <1>10, <1>11, <1>12, <1>13 DEF WorkerStep, Execute

LEMMA KnowsStep ==
    ASSUME TypeOK, TypeOK', TokenInv, \A w \in Workers : Knows(w), [Next]_vars
    PROVE  \A w \in Workers : Knows(w)'
<1> SUFFICES ASSUME NEW v \in Workers PROVE Knows(v)'
    OBVIOUS
<1>0. job \in Jobs
  BY DEF TypeOK
<1>1. CASE UNCHANGED <<job, worker>>
  BY <1>1 DEF Knows, Owns
<1>2. ASSUME NEW h \in Handlers, CallbackStep(h) PROVE Knows(v)'
  <2>1. job'.saved = job.saved
    BY <1>0, <1>2 DEF CallbackStep, Callback, Respond, CallbackFails, Stage, Enqueue,
        MarkDispatched, MarkProcessed, MarkFailed, Jobs
  <2>2. QED
    BY <1>2, <2>1, CallbackFrame DEF Knows, Owns
<1>3. CASE Tick
  <2>1. job'.saved = job.saved /\ (Owns(v)' => Owns(v))
    BY <1>0, <1>3, TickFrame, WorkerShape DEF Owns, Less, Jobs
  <2>2. QED
    BY <1>3, <2>1, TickFrame DEF Knows
<1>4. ASSUME NEW w \in Workers, WorkerStep(w) PROVE Knows(v)'
  BY <1>4, KnowsOther, KnowsMover
<1>5. QED
  BY <1>1, <1>2, <1>3, <1>4 DEF Next, vars, WorkerStep, CallbackStep

(* One element more or less.                                               *)
LEMMA OneMore ==
    ASSUME NEW S, IsFiniteSet(S), NEW x, NEW R, R \subseteq S \cup {x}
    PROVE  /\ IsFiniteSet(R) /\ Cardinality(R) \in Nat /\ Cardinality(S) \in Nat
           /\ Cardinality(R) <= Cardinality(S) + 1
           /\ R \subseteq S => Cardinality(R) <= Cardinality(S)
           /\ x \in S /\ x \notin R => Cardinality(R) <= Cardinality(S) - 1
<1>1. /\ IsFiniteSet(S \cup {x}) /\ Cardinality(S) \in Nat
      /\ Cardinality(S \cup {x}) = IF x \in S THEN Cardinality(S) ELSE Cardinality(S) + 1
  BY FS_AddElement, FS_CardinalityType
<1>2. /\ IsFiniteSet(S \ {x})
      /\ Cardinality(S \ {x}) = IF x \in S THEN Cardinality(S) - 1 ELSE Cardinality(S)
  BY FS_RemoveElement
<1>3. IsFiniteSet(R) /\ Cardinality(R) \in Nat /\ Cardinality(R) <= Cardinality(S \cup {x})
  BY <1>1, FS_Subset, FS_CardinalityType
<1>4. R \subseteq S => Cardinality(R) <= Cardinality(S)
  BY FS_Subset
<1>5. x \in S /\ x \notin R => Cardinality(R) <= Cardinality(S) - 1
  <2>1. x \in S /\ x \notin R => R \subseteq S \ {x}
    OBVIOUS
  <2>2. R \subseteq S \ {x} => Cardinality(R) <= Cardinality(S \ {x})
    BY <1>2, FS_Subset
  <2>3. QED
    BY <1>2, <2>1, <2>2
<1>6. QED
  BY <1>1, <1>3, <1>4, <1>5

LEMMA LiableCount ==
    ASSUME NEW w \in Workers, \A v \in Workers : v # w => (Liable(v)' => Liable(v))
    PROVE  /\ Cardinality(Liables) \in Nat /\ Cardinality(Liables)' \in Nat
           /\ Cardinality(Liables)' <= Cardinality(Liables) + 1
           /\ (Liable(w)' => Liable(w)) => Cardinality(Liables)' <= Cardinality(Liables)
           /\ Liable(w) /\ ~Liable(w)' => Cardinality(Liables)' <= Cardinality(Liables) - 1
<1>1. IsFiniteSet(Liables)
  BY FS_Subset DEF Liables
<1>2. Liables' \subseteq Liables \cup {w}
  BY DEF Liables
<1>3. (Liable(w)' => Liable(w)) => Liables' \subseteq Liables
  BY DEF Liables
<1>4. /\ Liable(w) => w \in Liables
      /\ ~Liable(w)' => w \notin Liables'
  BY DEF Liables
<1>5. Cardinality(Liables)' = Cardinality(Liables')
  OBVIOUS
<1>6. QED
  BY <1>1, <1>2, <1>3, <1>4, <1>5, OneMore

LEMMA CountType ==
    ASSUME TypeOK
    PROVE  /\ \A f \in Columns : Count(f) \in Nat /\ Excess(f) \in Int
           /\ Repeats \in Int
<1>1. \A p \in Parts : sent[p] \in Nat
  BY DEF TypeOK
<1>2. \A f \in Columns : Count(f) \in Nat
  BY <1>1 DEF Columns, Count, Cards, Parts
<1>3. \A f \in Columns : Excess(f) \in Int
  BY <1>2 DEF Excess
<1>4. QED
  BY <1>2, <1>3 DEF Repeats, Columns

LEMMA CountMoves ==
    ASSUME TypeOK, TypeOK', NEW p \in Parts, sent' = [sent EXCEPT ![p] = @ + 1]
    PROVE  \A f \in Columns : Count(f)' = IF f = Field(p) THEN Count(f) + 1 ELSE Count(f)
<1>1. \A q \in Parts : sent[q] \in Nat /\ sent'[q] = IF q = p THEN sent[q] + 1 ELSE sent[q]
  BY DEF TypeOK
<1>2. QED
  BY <1>1 DEF Columns, Count, Cards, Parts, Field

LEMMA CountSame ==
    ASSUME UNCHANGED sent
    PROVE  \A f : Count(f)' = Count(f)
  BY DEF Count, Cards

(* Whatever is excess is a repetition, since what is credited was sent.    *)
LEMMA CreditedSent ==
    ASSUME TypeOK, TellInv, NEW f \in Columns, Credited(f)
    PROVE  Count(f) > 0
<1>1. \A p \in Parts : Told(p) => Field(p) \in Columns /\ Count(Field(p)) > 0
  BY DEF Told, Field, Count, Columns, Parts
<1>2. CASE f \in job.saved
  BY <1>2 DEF TellInv, Recorded, Told, Count, Columns
<1>3. ASSUME NEW w \in Workers, worker[w].pc = "checkpoint", Shows(w, f) PROVE Count(f) > 0
  <2>1. PICK p \in Due(w) : Field(p) = f
    BY <1>3 DEF Shows
  <2>2. Told(p) /\ p \in Parts
    BY <1>3, <2>1, WorkerParts DEF TellInv, Tells, Due, TypeOK
  <2>3. QED
    BY <1>1, <2>1, <2>2
<1>4. QED
  BY <1>2, <1>3 DEF Credited

LEMMA TallyTells ==
    ASSUME TypeOK, TellInv, TallyInv
    PROVE  OneRepeatPerFault
<1>1. \A f \in Columns : Count(f) \in Nat /\ Excess(f) \in Int /\ Extra(Count(f)) <= Excess(f)
  BY CountType, CreditedSent DEF Excess, Extra
<1>2. Cardinality(Liables) \in Nat
  BY FS_Subset, FS_CardinalityType DEF Liables
<1>3. Repeats <= faults + misses
  BY <1>2, CountType DEF TallyInv, Tally, TypeOK
<1>4. /\ Count("card") = Cards /\ Count("report") = sent["report"]
      /\ Count("notice") = sent["notice"] /\ Count("record") = sent["record"]
  BY DEF Count
<1>5. /\ "card" \in Columns /\ "report" \in Columns /\ "notice" \in Columns
      /\ "record" \in Columns
  BY DEF Columns
<1>6. \A n \in Nat : Extra(n) \in Nat
  BY DEF Extra
<1>7. QED
  BY <1>1, <1>3, <1>4, <1>5, <1>6 DEF OneRepeatPerFault, Repeats, TypeOK

LEMMA NextCounts ==
    ASSUME TypeOK'
    PROVE  /\ \A f \in Columns : Count(f)' \in Nat /\ Excess(f)' \in Int
           /\ Repeats' \in Int
<1>1. \A p \in Parts : sent'[p] \in Nat
  BY DEF TypeOK
<1>2. \A f \in Columns : Count(f)' \in Nat
  BY <1>1 DEF Columns, Count, Cards, Parts
<1>3. \A f \in Columns : Excess(f)' \in Int
  BY <1>2 DEF Excess
<1>4. QED
  BY <1>2, <1>3 DEF Repeats, Columns

(* The sum moves by what its terms move.                                   *)
LEMMA SumMoves ==
    ASSUME TypeOK, TypeOK'
    PROVE  /\ (\A f \in Columns : Excess(f)' <= Excess(f)) => Repeats' <= Repeats
           /\ \A g : (\A f \in Columns :
                         Excess(f)' <= (IF f = g THEN Excess(f) + 1 ELSE Excess(f)))
                       => Repeats' <= Repeats + 1
<1>1. /\ Excess("card") \in Int /\ Excess("report") \in Int
      /\ Excess("notice") \in Int /\ Excess("record") \in Int
  BY CountType DEF Columns
<1>2. /\ Excess("card")' \in Int /\ Excess("report")' \in Int
      /\ Excess("notice")' \in Int /\ Excess("record")' \in Int
  BY NextCounts DEF Columns
<1>3. (\A f \in Columns : Excess(f)' <= Excess(f)) =>
         /\ Excess("card")' <= Excess("card") /\ Excess("report")' <= Excess("report")
         /\ Excess("notice")' <= Excess("notice") /\ Excess("record")' <= Excess("record")
  BY DEF Columns
<1>4. ASSUME NEW g, \A f \in Columns :
                       Excess(f)' <= (IF f = g THEN Excess(f) + 1 ELSE Excess(f))
      PROVE  Repeats' <= Repeats + 1
  <2>1. /\ Excess("card")' <= (IF "card" = g THEN Excess("card") + 1 ELSE Excess("card"))
        /\ Excess("report")' <= (IF "report" = g THEN Excess("report") + 1 ELSE Excess("report"))
        /\ Excess("notice")' <= (IF "notice" = g THEN Excess("notice") + 1 ELSE Excess("notice"))
        /\ Excess("record")' <= (IF "record" = g THEN Excess("record") + 1 ELSE Excess("record"))
    BY <1>4 DEF Columns
  <2>2. QED
    BY <1>1, <1>2, <2>1 DEF Repeats
<1>5. QED
  BY <1>1, <1>2, <1>3, <1>4 DEF Repeats

(* Without a call, what stays credited stays as much in excess, and what   *)
(* does not grows by the part that lost its credit.                        *)
LEMMA CreditMoves ==
    ASSUME TypeOK, TypeOK', UNCHANGED sent
    PROVE  /\ (\A f \in Columns : Credited(f) => Credited(f)') => Repeats' <= Repeats
           /\ \A g : (\A f \in Columns : Credited(f) => Credited(f)' \/ f = g)
                       => Repeats' <= Repeats + 1
<1>1. \A f \in Columns : Count(f) \in Nat /\ Count(f)' = Count(f)
  BY CountType, CountSame
<1>2. \A f \in Columns : /\ (Credited(f) => Credited(f)') => Excess(f)' <= Excess(f)
                         /\ Excess(f)' <= Excess(f) + 1
  BY <1>1 DEF Excess
<1>3. ASSUME NEW g, \A f \in Columns : Credited(f) => Credited(f)' \/ f = g
      PROVE  Repeats' <= Repeats + 1
  BY <1>2, <1>3, SumMoves
<1>4. QED
  BY <1>2, <1>3, SumMoves

(* A call puts the part that it sends in excess, unless the part gets its  *)
(* credit with it.                                                         *)
LEMMA SendMoves ==
    ASSUME TypeOK, TypeOK', NEW p \in Parts, sent' = [sent EXCEPT ![p] = @ + 1],
           \A f \in Columns : Credited(f) => Credited(f)'
    PROVE  /\ Repeats' <= Repeats + 1
           /\ ~Credited(Field(p)) /\ Credited(Field(p))' => Repeats' <= Repeats
<1>1. \A f \in Columns :
         Count(f) \in Nat /\ Count(f)' = IF f = Field(p) THEN Count(f) + 1 ELSE Count(f)
  BY CountType, CountMoves
<1>2. \A f \in Columns : Excess(f)' <= (IF f = Field(p) THEN Excess(f) + 1 ELSE Excess(f))
  BY <1>1 DEF Excess
<1>3. ~Credited(Field(p)) /\ Credited(Field(p))' =>
         \A f \in Columns : Excess(f)' <= Excess(f)
  BY <1>1 DEF Excess
<1>4. QED
  BY <1>2, <1>3, SumMoves

(* A step keeps the credit of a part, except for what its own worker was   *)
(* about to record.                                                        *)
LEMMA CreditLost ==
    ASSUME TypeOK, TypeOK', TokenInv, NEW w \in Workers, WorkerStep(w),
           NEW f, Credited(f)
    PROVE  Credited(f)' \/ (Owns(w) /\ worker[w].pc = "checkpoint" /\ Shows(w, f))
<1>1. CASE f \in job.saved
  BY <1>1, RowMoves, TakeMoves DEF Credited
<1>2. ASSUME NEW v \in Workers, v # w, Owns(v), worker[v].pc = "checkpoint", Shows(v, f)
      PROVE  Credited(f)'
  <2>1. worker'[v] = worker[v] /\ Owns(v)'
    BY <1>2, OthersStay, OwnerMoves
  <2>2. worker'[v].pc = "checkpoint" /\ Shows(v, f)'
    BY <1>2, <2>1 DEF Shows, Due
  <2>3. QED
    BY <2>1, <2>2 DEF Credited
<1>3. QED
  BY <1>1, <1>2 DEF Credited

LEMMA CreditKept ==
    ASSUME TypeOK, TypeOK', TokenInv, NEW w \in Workers, WorkerStep(w),
           ~Crash(w), ~DeliveryFails(w) \/ worker[w].pc # "checkpoint"
    PROVE  \A f \in Columns : Credited(f) => Credited(f)'
<1> SUFFICES ASSUME NEW f \in Columns, Credited(f), Owns(w), worker[w].pc = "checkpoint",
                    Shows(w, f)
             PROVE  Credited(f)'
    BY CreditLost
<1>1. Checkpoint(w) \/ Renew(w) \/ Redeliver(w) \/ Miss(w)
  BY DEF WorkerStep, Execute, Receive, Claim, Read, Work, Deliver, Send, Finish, Retry,
      Unexpected, Stop, WorkFails
<1>2. CASE Checkpoint(w)
  <2>1. PICK p \in Due(w) : job' = [job EXCEPT !.saved = @ \cup {Field(p)}]
    BY <1>2, CheckpointFields
  <2>2. Field(p) \in job'.saved
    BY <2>1 DEF TypeOK, Jobs
  <2>3. Field(p) = f
    BY ShowsOne DEF Shows
  <2>4. QED
    BY <2>2, <2>3 DEF Credited
<1>3. CASE Renew(w) \/ Redeliver(w) \/ Miss(w)
  <2>1. /\ worker'[w].token = worker[w].token /\ worker'[w].pc = worker[w].pc
        /\ worker'[w].todo = worker[w].todo
    BY <1>3, MissFields DEF Renew, Redeliver
  <2>2. Owns(w)'
    BY <2>1, OwnerMoves
  <2>3. Shows(w, f)'
    BY <2>1 DEF Shows, Due
  <2>4. QED
    BY <2>1, <2>2, <2>3 DEF Credited
<1>4. QED
  BY <1>1, <1>2, <1>3

(* Only a missed round makes its own worker liable: no other step fails    *)
(* its heartbeat, and only an owner gets to send.                          *)
LEMMA LiableMover ==
    ASSUME TypeOK, TypeOK', TokenInv, NEW w \in Workers, WorkerStep(w), ~Miss(w), Liable(w)'
    PROVE  Liable(w)
<1>1. ~Takes(w)
  BY TakeMoves DEF Liable
<1>2. Owns(w)' => Owns(w)
  BY <1>1, OwnerMoves
<1>3. ~Cleared(w)
  BY DEF Cleared, Liable
<1>4. ASSUME Same(w), worker'[w].pc # "send" PROVE Liable(w)
  BY <1>2, <1>4 DEF Same, Liable
<1>5. CASE Receive(w) \/ Stop(w) \/ Crash(w) \/ Claim(w)
  BY <1>1, <1>3, <1>5, HelperFields DEF Stop, Crash, Claim, Takes
<1>6. CASE Finish(w) \/ Retry(w) \/ WorkFails(w) \/ DeliveryFails(w) \/ Send(w)
  BY <1>4, <1>6, HelperFields
  DEF Finish, Retry, Refused, Exits, WorkFails, DeliveryFails, Send, Pcs
<1>7. CASE Unexpected(w)
  BY <1>2, <1>3, <1>7, UnexpectedFields DEF Liable
<1>8. CASE Read(w)
  BY <1>4, <1>8, ReadFields
<1>9. CASE Work(w)
  BY <1>4, <1>9, WorkFields
<1>10. CASE Deliver(w)
  <2>1. worker'[w].token = worker[w].token /\ worker'[w].beat = worker[w].beat
    BY <1>10, DeliverFields
  <2>2. Owns(w) => Owns(w)'
    BY <1>10, <2>1, OwnerMoves DEF Deliver
  <2>3. ~Owns(w) => Same(w) /\ worker'[w].pc = "stop"
    BY <1>10, DeliverFields
  <2>4. QED
    BY <1>4, <2>1, <2>2, <2>3 DEF Liable
<1>11. CASE Checkpoint(w)
  <2>1. worker'[w].token = worker[w].token /\ worker'[w].beat = worker[w].beat
    BY <1>11, CheckpointFields
  <2>2. Owns(w) => Owns(w)'
    BY <1>11, <2>1, OwnerMoves DEF Checkpoint
  <2>3. ~Owns(w) => worker'[w].pc = "stop"
    BY <1>11, CheckpointFields
  <2>4. QED
    BY <1>2, <2>1, <2>2, <2>3 DEF Liable
<1>12. CASE Renew(w) \/ Redeliver(w)
  <2>1. worker'[w] = worker[w]
    BY <1>12 DEF Renew, Redeliver
  <2>2. Owns(w) => Owns(w)' \/ worker[w].pc \in {"finish", "retry"}
    BY <2>1, OwnerMoves
  <2>3. QED
    BY <1>2, <2>1, <2>2 DEF Liable
<1>13. QED
  BY <1>5, <1>6, <1>7, <1>8, <1>9, <1>10, <1>11, <1>12 DEF WorkerStep, Execute

LEMMA LiableOthers ==
    ASSUME TypeOK, TypeOK', TokenInv, NEW w \in Workers, WorkerStep(w)
    PROVE  \A v \in Workers : v # w => (Liable(v)' => Liable(v))
  BY OthersStay, OwnerMoves DEF Liable

(* A step that sends nothing, or only what it is owed.                     *)
LEMMA QuietTally ==
    ASSUME TypeOK, TypeOK', TokenInv, NEW w \in Workers, WorkerStep(w), UNCHANGED sent,
           ~Crash(w), ~DeliveryFails(w), ~Miss(w)
    PROVE  /\ Repeats' <= Repeats /\ Cardinality(Liables)' <= Cardinality(Liables)
           /\ Cardinality(Liables) \in Nat /\ Cardinality(Liables)' \in Nat
<1>1. Repeats' <= Repeats
  BY CreditKept, CreditMoves
<1>2. QED
  BY <1>1, LiableMover, LiableOthers, LiableCount

LEMMA SendTally ==
    ASSUME TypeOK, TypeOK', TallyInv, NEW w \in Workers, Send(w)
    PROVE  /\ Cardinality(Liables) \in Nat /\ Cardinality(Liables)' \in Nat
           /\ \/ /\ Repeats' <= Repeats
                 /\ Cardinality(Liables)' <= Cardinality(Liables)
              \/ /\ Repeats' <= Repeats + 1
                 /\ Cardinality(Liables)' <= Cardinality(Liables) - 1
<1>1. PICK p \in Due(w) : sent' = [sent EXCEPT ![p] = @ + 1]
  BY DEF Send
<1>a. p \in Parts /\ p \in worker[w].todo
  BY WorkerParts DEF Due, TypeOK
<1>b. Same(w) /\ worker'[w].pc = "checkpoint" /\ worker[w].pc = "send"
  BY HelperFields DEF Send, Pcs
<1>c. ~Crash(w) /\ ~Takes(w) /\ ~Miss(w)
  BY <1>b DEF Send, Crash, Fault, Takes, Miss, TypeOK
<1>2. UNCHANGED job /\ WorkerStep(w) /\ TokenInv
  BY DEF Send, WorkerStep, Execute, TallyInv
<1>3. \A f \in Columns : Credited(f) => Credited(f)'
  BY <1>b, <1>c, <1>2, CreditKept
<1>4. CASE Owns(w)
  <2>1. ~Credited(Field(p))
    BY <1>a, <1>b, <1>c, <1>2, <1>4, OneOwner DEF TallyInv, Knows, Credited
  <2>2. Owns(w)' /\ Due(w)' = Due(w)
    BY <1>a, <1>b, <1>c, <1>2, <1>4, OwnerMoves DEF Same, Due
  <2>3. Shows(w, Field(p))'
    BY <2>2 DEF Shows
  <2>4. Credited(Field(p))'
    BY <1>a, <1>b, <1>c, <1>2, <2>2, <2>3 DEF Credited
  <2>5. QED
    BY <1>1, <1>a, <1>b, <1>c, <1>2, <1>3, <2>1, <2>4, SendMoves, LiableMover, LiableOthers,
       LiableCount
<1>5. CASE ~Owns(w)
  <2>1. Liable(w) /\ ~Liable(w)'
    BY <1>a, <1>b, <1>c, <1>2, <1>5, OwnerMoves DEF Liable
  <2>2. QED
    BY <1>1, <1>a, <1>b, <1>c, <1>2, <1>3, <2>1, SendMoves, LiableOthers, LiableCount
<1>6. QED
  BY <1>4, <1>5

(* A crash or a failed call costs at most the credit of one part, or sends *)
(* one part without a credit.                                              *)
LEMMA FaultTally ==
    ASSUME TypeOK, TypeOK', TokenInv, NEW w \in Workers, Crash(w) \/ DeliveryFails(w)
    PROVE  /\ Repeats' <= Repeats + 1 /\ Cardinality(Liables)' <= Cardinality(Liables)
           /\ Cardinality(Liables) \in Nat /\ Cardinality(Liables)' \in Nat
<1>1. WorkerStep(w) /\ ~Miss(w)
  BY HelperFields DEF WorkerStep, Miss, Crash, DeliveryFails, Fault, TypeOK
<1>2. CASE UNCHANGED sent
  <2>1. PICK g : \A f : Shows(w, f) => f = g
    BY ShowsOne
  <2>2. Repeats' <= Repeats + 1
    BY <1>1, <1>2, <2>1, CreditLost, CreditMoves
  <2>3. QED
    BY <1>1, <2>2, LiableMover, LiableOthers, LiableCount
<1>3. ASSUME ~UNCHANGED sent PROVE Repeats' <= Repeats + 1
  <2>1. PICK p \in Due(w) : worker[w].pc = "send" /\ sent' = [sent EXCEPT ![p] = @ + 1]
    BY <1>3 DEF Crash, DeliveryFails
  <2>2. p \in Parts /\ DeliveryFails(w) /\ ~Crash(w)
    BY <1>3, WorkerParts DEF Due, TypeOK, Crash
  <2>3. \A f \in Columns : Credited(f) => Credited(f)'
    BY <1>1, <2>1, <2>2, CreditKept
  <2>4. QED
    BY <2>1, <2>2, <2>3, SendMoves
<1>4. QED
  BY <1>1, <1>2, <1>3, LiableMover, LiableOthers, LiableCount

LEMMA MissTally ==
    ASSUME TypeOK, TypeOK', TokenInv, NEW w \in Workers, Miss(w)
    PROVE  /\ Repeats' <= Repeats /\ Cardinality(Liables)' <= Cardinality(Liables) + 1
           /\ Cardinality(Liables) \in Nat /\ Cardinality(Liables)' \in Nat
<1>1. WorkerStep(w) /\ UNCHANGED sent /\ ~Crash(w) /\ ~DeliveryFails(w)
  BY DEF WorkerStep, Miss, Crash, DeliveryFails, Fault, TypeOK
<1>2. QED
  BY <1>1, CreditKept, CreditMoves, LiableOthers, LiableCount

(* When a lease expires, its owner has missed the last round or is late    *)
(* now: either pays for the part that it has sent or is about to send.     *)
LEMMA TickOwners ==
    ASSUME TypeOK, TypeOK', TokenInv, Tick
    PROVE  /\ \A v \in Workers : Owns(v)' => Owns(v)
           /\ (\A v \in Workers : Owns(v)' <=> Owns(v)) \/ (Busy /\ job.lease = 1)
           /\ Busy /\ job.lease = 1 => \A v \in Workers : ~Owns(v)'
<1>1. job.lease \in Nat
  BY WorkerShape DEF TypeOK, Jobs
<1>2. /\ job'.status = job.status /\ job'.token = job.token /\ UNCHANGED worker
      /\ job'.lease = IF job.lease > 0 THEN job.lease - 1 ELSE 0
  BY TickFrame DEF Less
<1>3. QED
  BY <1>1, <1>2 DEF Owns, Busy

LEMMA TickTally ==
    ASSUME TypeOK, TypeOK', TallyInv, Tick
    PROVE  Tally'
<1>1. /\ UNCHANGED <<worker, sent>> /\ job'.saved = job.saved
      /\ \A v \in Workers : Due(v)' = Due(v)
  BY DEF Tick, TypeOK, Jobs, Due
<1>2. /\ Cardinality(LateHandlers) \in Nat /\ Cardinality(LateWorkers) \in Nat
      /\ (LateWorkers # {} => Cardinality(LateWorkers) > 0)
  <2>1. IsFiniteSet(LateHandlers) /\ IsFiniteSet(LateWorkers)
    BY FiniteProcesses, FS_Subset DEF LateHandlers, LateWorkers
  <2>2. QED
    BY <2>1, FS_CardinalityType, FS_EmptySet
<1>3. /\ faults \in Nat /\ misses \in Nat /\ faults' >= faults /\ misses' >= misses
      /\ faults' \in Nat /\ misses' \in Nat
      /\ LateWorkers # {} => misses' >= misses + 1
  BY <1>2 DEF TypeOK, Tick
<1>4. Repeats \in Int /\ Repeats' \in Int
  BY CountType, NextCounts
<1>5. TokenInv /\ Repeats + Cardinality(Liables) <= faults + misses
  BY DEF TallyInv, Tally
<1>6. CASE \A v \in Workers : Owns(v)' <=> Owns(v)
  <2>1. \A f : Credited(f) => Credited(f)'
    BY <1>1, <1>6 DEF Credited, Shows
  <2>2. Repeats' <= Repeats
    BY <1>1, <2>1, CreditMoves
  <2>3. Liables' = Liables
    BY <1>1, <1>6 DEF Liables, Liable
  <2>4. IsFiniteSet(Liables)
    BY FiniteProcesses, FS_Subset DEF Liables
  <2>5. Cardinality(Liables) \in Nat /\ Cardinality(Liables)' = Cardinality(Liables)
    BY <2>3, <2>4, FS_CardinalityType
  <2>6. QED
    BY <1>3, <1>4, <1>5, <2>2, <2>5 DEF Tally
<1>7. ASSUME Busy, job.lease = 1, NEW w \in Workers, Owns(w)
      PROVE  Tally'
  <2>1. \A v \in Workers : v # w => ~Owns(v)
    BY <1>5, <1>7, OneOwner
  <2>2. \A v \in Workers : ~Owns(v)'
    BY <1>5, <1>7, TickOwners
  <2>3. \A v \in Workers : v # w => (Liable(v)' => Liable(v))
    BY <1>1, <2>1, <2>2 DEF Liable
  <2>4. /\ Liable(w) <=> worker[w].beat = "failed"
        /\ Liable(w)' <=> worker[w].pc = "send"
    BY <1>1, <1>7, <2>2 DEF Liable
  <2>5. worker[w].beat # "failed" => misses' >= misses + 1
    BY <1>3, <1>7 DEF LateWorkers, Owns
  <2>6. CASE worker[w].pc = "checkpoint"
    <3>1. PICK g : \A f : Shows(w, f) => f = g
      BY ShowsOne
    <3>2. \A f \in Columns : Credited(f) => Credited(f)' \/ f = g
      BY <1>1, <2>1, <3>1 DEF Credited
    <3>3. Repeats' <= Repeats + 1
      BY <1>1, <3>2, CreditMoves
    <3>4. ~Liable(w)'
      BY <2>4, <2>6
    <3>5. QED
      BY <1>3, <1>4, <1>5, <2>3, <2>4, <2>5, <3>3, <3>4, LiableCount DEF Tally
  <2>7. CASE worker[w].pc # "checkpoint"
    <3>1. \A f \in Columns : Credited(f) => Credited(f)'
      BY <1>1, <2>1, <2>7 DEF Credited
    <3>2. Repeats' <= Repeats
      BY <1>1, <3>1, CreditMoves
    <3>3. QED
      BY <1>3, <1>4, <1>5, <2>3, <2>4, <2>5, <3>2, LiableCount DEF Tally
  <2>8. QED
    BY <2>6, <2>7
<1>8. QED
  BY <1>5, <1>6, <1>7, TickOwners

LEMMA WorkerTally ==
    ASSUME TypeOK, TypeOK', TallyInv, NEW w \in Workers, WorkerStep(w)
    PROVE  Tally'
<1>1. /\ faults \in Nat /\ misses \in Nat /\ faults' \in Nat /\ misses' \in Nat
      /\ Repeats \in Int /\ Repeats' \in Int
      /\ TokenInv /\ Repeats + Cardinality(Liables) <= faults + misses
  BY CountType, NextCounts DEF TypeOK, TallyInv, Tally
<1>2. CASE Send(w)
  <2>1. faults' = faults /\ misses' = misses
    BY <1>2 DEF Send
  <2>2. QED
    BY <1>1, <1>2, <2>1, SendTally DEF Tally
<1>3. CASE Crash(w) \/ DeliveryFails(w)
  <2>1. faults' = faults + 1 /\ misses' = misses
    BY <1>3 DEF Crash, DeliveryFails, Fault
  <2>2. QED
    BY <1>1, <1>3, <2>1, FaultTally DEF Tally
<1>4. CASE Miss(w)
  <2>1. faults' = faults /\ misses' = misses + 1
    BY <1>4 DEF Miss
  <2>2. QED
    BY <1>1, <1>4, <2>1, MissTally DEF Tally
<1>5. CASE ~Send(w) /\ ~Crash(w) /\ ~DeliveryFails(w) /\ ~Miss(w)
  <2>1. UNCHANGED <<sent, misses>> /\ faults' >= faults
    <3>1. CASE Receive(w) \/ Claim(w) \/ Read(w) \/ Work(w) \/ Deliver(w)
      <4>1. UNCHANGED <<sent, misses, faults>>
        BY <3>1, Zenon DEF Receive, Claim, Read, Work, Deliver
      <4>2. QED
        BY <1>1, <4>1
    <3>2. CASE Checkpoint(w) \/ Finish(w) \/ Retry(w) \/ Unexpected(w) \/ Stop(w) \/ Renew(w)
      <4>1. UNCHANGED <<sent, misses, faults>>
        BY <3>2, Zenon DEF Checkpoint, Finish, Retry, Unexpected, Stop, Renew
      <4>2. QED
        BY <1>1, <4>1
    <3>3. CASE WorkFails(w) \/ Redeliver(w)
      BY <1>1, <3>3 DEF WorkFails, Redeliver, Fault
    <3>4. QED
      BY <1>5, <3>1, <3>2, <3>3 DEF WorkerStep, Execute
  <2>2. QED
    BY <1>1, <1>5, <2>1, QuietTally DEF Tally
<1>6. QED
  BY <1>2, <1>3, <1>4, <1>5

LEMMA TallyStep == TypeOK /\ TypeOK' /\ TallyInv /\ [Next]_vars => TallyInv'
<1> SUFFICES ASSUME TypeOK, TypeOK', TallyInv, [Next]_vars PROVE TallyInv'
    OBVIOUS
<1>1. TokenInv' /\ \A w \in Workers : Knows(w)'
  BY TokenStep, KnowsStep DEF TallyInv
<1>2. ASSUME UNCHANGED <<worker, sent, misses>>, faults' >= faults, job'.saved = job.saved,
             job'.status = job.status \/ (job.status # "RUNNING" /\ job'.status # "RUNNING"),
             job'.token = job.token, job'.lease = job.lease
      PROVE  Tally'
  <2>1. \A v \in Workers : (Owns(v)' <=> Owns(v)) /\ Due(v)' = Due(v)
    BY <1>2 DEF Owns, Due
  <2>2. \A f : Count(f)' = Count(f) /\ (Credited(f)' <=> Credited(f))
    BY <1>2, <2>1, CountSame DEF Credited, Shows
  <2>3. Repeats' = Repeats
    BY <2>2 DEF Repeats, Excess
  <2>4. Liables' = Liables
    BY <1>2, <2>1 DEF Liables, Liable
  <2>5. IsFiniteSet(Liables)
    BY FiniteProcesses, FS_Subset DEF Liables
  <2>6. Cardinality(Liables) \in Nat /\ Cardinality(Liables)' = Cardinality(Liables)
    BY <2>4, <2>5, FS_CardinalityType
  <2>7. QED
    BY <1>2, <2>3, <2>6, CountType DEF TallyInv, Tally, TypeOK
<1>3. ASSUME NEW h \in Handlers, CallbackStep(h) PROVE Tally'
  <2>1. UNCHANGED sent /\ job'.saved = job.saved /\ faults' >= faults
    BY <1>3 DEF CallbackStep, Callback, Respond, CallbackFails, Stage, Enqueue, Fault,
        MarkDispatched, MarkProcessed, MarkFailed, Jobs, TypeOK
  <2>2. QED
    BY <1>2, <1>3, <2>1, CallbackFrame
<1>4. ASSUME UNCHANGED vars PROVE Tally'
  <2>1. faults \in Nat
    BY DEF TypeOK
  <2>2. UNCHANGED <<job, worker, sent, misses, faults>>
    BY <1>4 DEF vars
  <2>3. QED
    BY <1>2, <2>1, <2>2
<1>5. Tally'
  <2>1. ASSUME NEW w \in Workers, WorkerStep(w) PROVE Tally'
    BY <2>1, WorkerTally
  <2>2. ASSUME Tick PROVE Tally'
    BY <2>2, TickTally
  <2>3. \/ \E h \in Handlers : CallbackStep(h)
        \/ \E w \in Workers : WorkerStep(w)
        \/ Tick \/ UNCHANGED vars
    BY DEF Next, WorkerStep, CallbackStep
  <2>4. QED
    BY <1>3, <1>4, <2>1, <2>2, <2>3
<1>6. QED
  BY <1>1, <1>5 DEF TallyInv

LEMMA TallyInit == Init => TallyInv
<1> SUFFICES ASSUME Init PROVE TallyInv
    OBVIOUS
<1>1. TokenInv /\ \A w \in Workers : Knows(w)
  BY DEF Init, NoJob, Idle, TokenInv, Knows, Owns
<1>2. \A f \in Columns : Count(f) = 0 /\ ~Credited(f)
  BY DEF Init, NoJob, Credited, Owns, Count, Cards, Columns, Parts
<1>3. Repeats = 0
  BY <1>2 DEF Repeats, Excess, Columns
<1>4. Liables = {}
  BY DEF Init, NoJob, Idle, Liables, Liable, Owns
<1>5. QED
  BY <1>1, <1>3, <1>4, FS_EmptySet DEF TallyInv, Tally, Init

(* Every repetition that a user sees has a fault or a missed heartbeat     *)
(* round of its own, however many messages, workers and callbacks the job  *)
(* has, and however long a worker that lost its claim goes on: the         *)
(* checkpoints are fenced, and what they record is not sent again.         *)
THEOREM RepeatsHaveCauses == Spec => []OneRepeatPerFault
<1>1. TypeOK /\ TellInv /\ TallyInv => OneRepeatPerFault
  BY TallyTells
<1>2. QED
  BY <1>1, TallyInit, TallyStep, TellInvariant, TypeCorrect, PTL DEF Spec
=============================================================================
