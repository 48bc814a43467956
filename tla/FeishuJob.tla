----------------------------- MODULE FeishuJob -----------------------------
(***************************************************************************)
(* One Feishu file message, from the callback to the delivered cards.      *)
(* The HTTP callback claims the receipt of the event, stages an analysis   *)
(* job in the same row, puts the identity of the job on the queue and      *)
(* marks job and receipt; Feishu repeats a callback that is not answered   *)
(* 200.  A worker claims the job under a lease that its heartbeat thread   *)
(* renews, computes, delivers the parts of the answer one by one with a    *)
(* checkpoint after each, and finishes the job                             *)
(* (integrations/feishu/jobs.py, sqlalchemy_receipts.py, api/feishu.py and *)
(* tasks/feishu.py).  Every transaction locks the row, so one action is    *)
(* one transaction or one external call.                                   *)
(*                                                                         *)
(* Time is kept in timers that count down together: a lease of 0 has       *)
(* expired.  One tick is the countdown of a Celery retry.                  *)
(***************************************************************************)
EXTENDS Integers, FiniteSets

CONSTANTS
    Handlers,       \* callback requests that may be in flight together
    Workers,        \* Celery worker processes
    LeaseTTL,       \* lease of a receipt and of a job, in ticks
    MaxRetries,     \* max_retries of the Celery task
    MaxAttempts,    \* max_attempts of the worker
    MaxDeliveries,  \* bound: callbacks that Feishu sends for the event
    MaxFaults,      \* bound: crashes, failed calls, late callbacks
    MaxMisses       \* bound: heartbeat rounds that fail, or come too late

ASSUME LimitAssumption ==
    /\ LeaseTTL \in Nat \ {0} /\ MaxRetries \in Nat /\ MaxAttempts \in Nat \ {0}

(* A deployment has finitely many processes.                               *)
ASSUME FiniteProcesses == IsFiniteSet(Handlers) /\ IsFiniteSet(Workers)

ASSUME FeishuBounds ==
    /\ MaxDeliveries \in Nat /\ MaxFaults \in Nat /\ MaxMisses \in Nat

(* What a delivery sends, in the order of the calls: the result card (or   *)
(* the card of a rejection, recorded in the same result_card_message_id),  *)
(* the message with the report file, the card of the report, the row of    *)
(* the table.  The uploads of an image or a file just before the message   *)
(* that shows them are part of it.                                         *)
Parts == {"card", "refusal", "report", "notice", "record"}
Rank == [card |-> 1, refusal |-> 1, report |-> 2, notice |-> 3, record |-> 4]
Plan(outcome) ==
    IF outcome = "SUCCEEDED" THEN {"card", "report", "notice", "record"}
    ELSE {"refusal", "record"}
Field(p) == IF p = "refusal" THEN "card" ELSE p

(* The columns that checkpoints fill: the results, and one per part.       *)
Fields == {"results", "card", "report", "notice", "record"}

Terminal == {"SUCCEEDED", "REJECTED", "FAILED"}
JobStatus == {"NONE", "PENDING", "RUNNING", "RETRYABLE"} \cup Terminal

(* A message: its Celery retry count, and whether its countdown still runs *)
(* (1) or it may be delivered (0).                                         *)
Messages == (0..MaxRetries) \X {0, 1}

VARIABLES
    receipt,    \* the receipt columns of the row of the event
    job,        \* the job columns of the same row
    queue,      \* broker: how often it holds each message
    handler,    \* what each callback request holds
    worker,     \* what each worker process and its heartbeat hold
    sent,       \* how often each part reached Feishu
    deliveries, \* callbacks so far
    faults,     \* faults so far
    misses      \* missed heartbeat rounds so far

vars == <<receipt, job, queue, handler, worker, sent, deliveries, faults, misses>>

NoReceipt == [status |-> "NONE", claims |-> 0, token |-> 0, lease |-> 0]
NoJob == [status |-> "NONE", task |-> 0, attempts |-> 0, token |-> 0, lease |-> 0,
          saved |-> {}]
NoCallback == [pc |-> "idle", token |-> 0]
Idle == [pc |-> "idle", retries |-> 0, token |-> 0, attempt |-> 0, saved |-> {},
         todo |-> {}, outcome |-> "NONE", exit |-> "done", beat |-> "off"]

Init ==
    /\ receipt = NoReceipt
    /\ job = NoJob
    /\ queue = [m \in Messages |-> 0]
    /\ handler = [h \in Handlers |-> NoCallback]
    /\ worker = [w \in Workers |-> Idle]
    /\ sent = [p \in Parts |-> 0]
    /\ deliveries = 0
    /\ faults = 0
    /\ misses = 0

Fault == faults < MaxFaults /\ faults' = faults + 1
-----------------------------------------------------------------------------
(***************************************************************************)
(* The callback: claim the receipt, stage, enqueue, mark, acknowledge.     *)
(***************************************************************************)
HoldsReceipt(h) ==
    receipt.status = "IN_PROGRESS" /\ receipt.token = handler[h].token /\ receipt.lease > 0

At(h, pc) == handler' = [handler EXCEPT ![h].pc = pc]
Answer(h) == handler' = [handler EXCEPT ![h] = NoCallback]

(* claim: a processed event is answered 200 and one in progress 503, and   *)
(* neither changes a row; any other is claimed with a new token.           *)
Callback(h) ==
    LET n == receipt.claims + 1
        busy == receipt.status = "IN_PROGRESS" /\ receipt.lease > 0
    IN
    /\ handler[h].pc = "idle"
    /\ deliveries < MaxDeliveries
    /\ deliveries' = deliveries + 1
    /\ IF receipt.status = "PROCESSED" \/ busy
         THEN UNCHANGED <<receipt, handler>>
         ELSE /\ receipt' = [status |-> "IN_PROGRESS", claims |-> n, token |-> n,
                             lease |-> LeaseTTL]
              /\ handler' = [handler EXCEPT ![h] = [pc |-> "stage", token |-> n]]
    /\ UNCHANGED <<job, queue, worker, sent, faults, misses>>

(* stage: the job of the event is created once, and one that has its       *)
(* task_id is not enqueued again.                                          *)
Stage(h) ==
    /\ handler[h].pc = "stage"
    /\ \/ /\ ~HoldsReceipt(h)
          /\ At(h, "release")
          /\ UNCHANGED job
       \/ /\ HoldsReceipt(h)
          /\ job' = IF job.status = "NONE" THEN [job EXCEPT !.status = "PENDING"] ELSE job
          /\ At(h, IF job.task = 0 THEN "enqueue" ELSE "acknowledge")
    /\ UNCHANGED <<receipt, queue, worker, sent, deliveries, faults, misses>>

Enqueue(h) ==
    /\ handler[h].pc = "enqueue"
    /\ queue' = [queue EXCEPT ![<<0, 0>>] = @ + 1]
    /\ At(h, "mark")
    /\ UNCHANGED <<receipt, job, worker, sent, deliveries, faults, misses>>

(* mark_dispatched: each enqueue has a task_id of its own, and the first   *)
(* one to be written stays.                                                *)
MarkDispatched(h) ==
    LET task == handler[h].token IN
    /\ handler[h].pc = "mark"
    /\ IF job.task \in {0, task}
         THEN job' = [job EXCEPT !.task = task] /\ At(h, "acknowledge")
         ELSE UNCHANGED job /\ At(h, "release")
    /\ UNCHANGED <<receipt, queue, worker, sent, deliveries, faults, misses>>

Unclaimed(status) == receipt' = [receipt EXCEPT !.status = status, !.token = 0, !.lease = 0]

(* mark_processed, and the 200 that ends the redeliveries.                 *)
MarkProcessed(h) ==
    /\ handler[h].pc = "acknowledge"
    /\ IF HoldsReceipt(h)
         THEN Unclaimed("PROCESSED") /\ Answer(h)
         ELSE UNCHANGED receipt /\ At(h, "release")
    /\ UNCHANGED <<job, queue, worker, sent, deliveries, faults, misses>>

(* Deviation: a callback that failed is acknowledged as well.              *)
AcknowledgeFailure(h) ==
    /\ handler[h].pc = "release"
    /\ IF HoldsReceipt(h) THEN Unclaimed("PROCESSED") ELSE UNCHANGED receipt
    /\ Answer(h)
    /\ UNCHANGED <<job, queue, worker, sent, deliveries, faults, misses>>

(* _mark_failed_safely, and the 503 that makes Feishu repeat the callback. *)
MarkFailed(h) ==
    /\ handler[h].pc = "release"
    /\ IF HoldsReceipt(h) THEN Unclaimed("RETRYABLE") ELSE UNCHANGED receipt
    /\ Answer(h)
    /\ UNCHANGED <<job, queue, worker, sent, deliveries, faults, misses>>

(* A call of the database or of the broker raises, or the API process dies.*)
CallbackFails(h) ==
    /\ handler[h].pc \in {"stage", "enqueue", "mark", "acknowledge"}
    /\ Fault
    /\ \/ At(h, "release")
       \/ Answer(h)
    /\ UNCHANGED <<receipt, job, queue, worker, sent, deliveries, misses>>
-----------------------------------------------------------------------------
(***************************************************************************)
(* The worker: claim, compute.                                             *)
(***************************************************************************)
(* Deviation: the fence forgets the token.                                 *)
AnyOwner(w) == job.status = "RUNNING" /\ job.lease > 0

(* The fence of _mutate_owned and renew_claim.                             *)
Owns(w) == job.status = "RUNNING" /\ job.token = worker[w].token /\ job.lease > 0
Busy == job.status = "RUNNING" /\ job.lease > 0

Goes(w, pc) == worker' = [worker EXCEPT ![w].pc = pc]
Acknowledge(w) == worker' = [worker EXCEPT ![w] = Idle]
Leaves(w, exit) == worker' = [worker EXCEPT ![w] = [@ EXCEPT !.pc = "stop", !.exit = exit]]

(* A refused write raises FeishuJobOwnershipError out of the execution.    *)
Refused(w) == UNCHANGED job /\ Leaves(w, "lost")

Receive(w) ==
    /\ worker[w].pc = "idle"
    /\ \E r \in 0..MaxRetries :
          /\ queue[<<r, 0>>] > 0
          /\ queue' = [queue EXCEPT ![<<r, 0>>] = @ - 1]
          /\ worker' = [worker EXCEPT ![w] = [Idle EXCEPT !.pc = "claim", !.retries = r]]
    /\ UNCHANGED <<receipt, job, handler, sent, deliveries, faults, misses>>

(* Deviation: the task does not come back for a retry.                     *)
NoRetry(w) == UNCHANGED queue

(* bound_task.retry(countdown = 60, max_retries = 61): the message comes   *)
(* back one tick later, or is dropped after the last retry.                *)
RetryLater(w) ==
    LET r == worker[w].retries IN
    queue' = IF r < MaxRetries THEN [queue EXCEPT ![<<r + 1, 1>>] = @ + 1] ELSE queue

TakeClaim(w) ==
    LET n == job.attempts + 1 IN
    /\ job' = [job EXCEPT !.status = "RUNNING", !.attempts = n, !.token = n,
                          !.lease = LeaseTTL]
    /\ worker' = [worker EXCEPT ![w] = [@ EXCEPT !.pc = "read", !.token = n, !.beat = "on"]]

(* Deviation: a message of a job that has ended is executed again.         *)
ClaimAgain(w) ==
    /\ worker[w].pc = "claim"
    /\ ~Busy
    /\ TakeClaim(w)
    /\ UNCHANGED <<receipt, queue, handler, sent, deliveries, faults, misses>>

(* claim: a finished job is acknowledged without a word, a running one     *)
(* makes the message come back later.                                      *)
Claim(w) ==
    /\ worker[w].pc = "claim"
    /\ \/ /\ job.status \in Terminal
          /\ Acknowledge(w)
          /\ UNCHANGED <<job, queue>>
       \/ /\ Busy
          /\ RetryLater(w)
          /\ Acknowledge(w)
          /\ UNCHANGED job
       \/ /\ job.status \notin Terminal /\ ~Busy
          /\ TakeClaim(w)
          /\ UNCHANGED queue
    /\ UNCHANGED <<receipt, handler, sent, deliveries, faults, misses>>

(* _execute_owned reads the row once; results of an earlier attempt are    *)
(* delivered as they are.                                                  *)
Read(w) ==
    /\ worker[w].pc = "read"
    /\ worker' = [worker EXCEPT ![w] = [@ EXCEPT !.attempt = job.attempts,
          !.saved = job.saved, !.outcome = "SUCCEEDED",
          !.pc = IF "results" \in job.saved THEN "deliver" ELSE "work"]]
    /\ UNCHANGED <<receipt, job, queue, handler, sent, deliveries, faults, misses>>

(* Download, validation, analysis and report, each of whose writes is      *)
(* fenced: they end with checkpointed results, with a rejection, or with   *)
(* REPORT_RESULT_INVALID.                                                  *)
Work(w) ==
    /\ worker[w].pc = "work"
    /\ \/ ~Owns(w) /\ Refused(w)
       \/ /\ Owns(w)
          /\ job' = [job EXCEPT !.saved = @ \cup {"results"}]
          /\ worker' = [worker EXCEPT ![w] =
                [@ EXCEPT !.pc = "deliver", !.saved = job'.saved]]
       \/ /\ Owns(w)
          /\ \/ worker' = [worker EXCEPT ![w] =
                   [@ EXCEPT !.pc = "deliver", !.outcome = "REJECTED"]]
             \/ worker' = [worker EXCEPT ![w] =
                   [@ EXCEPT !.pc = "finish", !.outcome = "FAILED"]]
          /\ UNCHANGED job
    /\ UNCHANGED <<receipt, queue, handler, sent, deliveries, faults, misses>>

(* A transient error of the download goes to _retry, any other exception   *)
(* out of _execute_owned.                                                  *)
WorkFails(w) ==
    /\ worker[w].pc \in {"read", "work", "deliver", "finish"}
    /\ Fault
    /\ \/ worker[w].pc = "work" /\ Goes(w, "retry")
       \/ Goes(w, "unexpected")
    /\ UNCHANGED <<receipt, job, queue, handler, sent, deliveries, misses>>
-----------------------------------------------------------------------------
(***************************************************************************)
(* The worker: deliver and finish.                                         *)
(***************************************************************************)
(* Deviation: the delivery starts over whatever was recorded.              *)
DeliverAll(w) ==
    /\ worker[w].pc = "deliver"
    /\ Owns(w)
    /\ worker' = [worker EXCEPT ![w] = [@ EXCEPT !.pc = "send", !.todo = Plan(worker[w].outcome)]]
    /\ UNCHANGED <<receipt, job, queue, handler, sent, deliveries, faults, misses>>

(* update_stage, then the parts that the row as it was read does not       *)
(* record.  validate_delivery_results may refuse a success, which is then  *)
(* rejected.                                                               *)
Deliver(w) ==
    LET unsent == {p \in Plan(worker[w].outcome) : Field(p) \notin worker[w].saved} IN
    /\ worker[w].pc = "deliver"
    /\ \/ ~Owns(w) /\ Refused(w)
       \/ /\ Owns(w)
          /\ worker' = [worker EXCEPT ![w] = [@ EXCEPT !.todo = unsent,
                !.pc = IF unsent = {} THEN "finish" ELSE "send"]]
          /\ UNCHANGED job
       \/ /\ Owns(w) /\ worker[w].outcome = "SUCCEEDED"
          /\ worker' = [worker EXCEPT ![w].outcome = "REJECTED"]
          /\ UNCHANGED job
    /\ UNCHANGED <<receipt, queue, handler, sent, deliveries, faults, misses>>

Due(w) == {p \in worker[w].todo : \A q \in worker[w].todo : Rank[p] <= Rank[q]}

(* Deviation: the part is recorded before it is sent.                      *)
RecordFirst(w) ==
    /\ worker[w].pc = "send"
    /\ Owns(w)
    /\ \E p \in Due(w) : job' = [job EXCEPT !.saved = @ \cup {Field(p)}]
    /\ Goes(w, "checkpoint")
    /\ UNCHANGED <<receipt, queue, handler, sent, deliveries, faults, misses>>

(* The next call to Feishu: an upload, a message or a table row.           *)
Send(w) ==
    /\ worker[w].pc = "send"
    /\ \E p \in Due(w) : sent' = [sent EXCEPT ![p] = @ + 1]
    /\ Goes(w, "checkpoint")
    /\ UNCHANGED <<receipt, job, queue, handler, deliveries, faults, misses>>

(* checkpoint_delivery with the reference that the call returned.          *)
Checkpoint(w) ==
    /\ worker[w].pc = "checkpoint"
    /\ \/ ~Owns(w) /\ Refused(w)
       \/ /\ Owns(w)
          /\ \E p \in Due(w) :
                LET rest == worker[w].todo \ {p} IN
                /\ job' = [job EXCEPT !.saved = @ \cup {Field(p)}]
                /\ worker' = [worker EXCEPT ![w] = [@ EXCEPT !.todo = rest,
                      !.pc = IF rest = {} THEN "finish" ELSE "send"]]
    /\ UNCHANGED <<receipt, queue, handler, sent, deliveries, faults, misses>>

(* A call of Feishu fails, with or without its effect, or the checkpoint   *)
(* does: DELIVERY_RETRYABLE.                                               *)
DeliveryFails(w) ==
    /\ worker[w].pc \in {"send", "checkpoint"}
    /\ Fault
    /\ \/ UNCHANGED sent
       \/ /\ worker[w].pc = "send"
          /\ \E p \in Due(w) : sent' = [sent EXCEPT ![p] = @ + 1]
    /\ Goes(w, "retry")
    /\ UNCHANGED <<receipt, job, queue, handler, deliveries, misses>>

Ended(status) == job' = [job EXCEPT !.status = status, !.token = 0, !.lease = 0]

(* finish.                                                                 *)
Finish(w) ==
    /\ worker[w].pc = "finish"
    /\ \/ ~Owns(w) /\ Refused(w)
       \/ Owns(w) /\ Ended(worker[w].outcome) /\ Leaves(w, "done")
    /\ UNCHANGED <<receipt, queue, handler, sent, deliveries, faults, misses>>

(* _retry: the last attempt ends the job as FAILED, without any message to *)
(* the user, and any other leaves it RETRYABLE.  Retryable errors are      *)
(* raised in both cases, except that an unexpected error of the last       *)
(* attempt (whose heartbeat has stopped already) returns.                  *)
Retry(w) ==
    LET last == worker[w].attempt >= MaxAttempts IN
    /\ worker[w].pc = "retry"
    /\ \/ ~Owns(w) /\ Refused(w)
       \/ /\ Owns(w)
          /\ Ended(IF last THEN "FAILED" ELSE "RETRYABLE")
          /\ Leaves(w, IF last /\ worker[w].beat = "off" THEN "done" ELSE "again")
    /\ UNCHANGED <<receipt, queue, handler, sent, deliveries, faults, misses>>

(* execute catches an unexpected exception and stops the heartbeat before  *)
(* _retry; the heartbeat's own error wins.                                 *)
Unexpected(w) ==
    /\ worker[w].pc = "unexpected"
    /\ worker' = [worker EXCEPT ![w] = IF worker[w].beat = "failed" THEN Idle
          ELSE [@ EXCEPT !.pc = "retry", !.beat = "off", !.attempt = job.attempts]]
    /\ UNCHANGED <<receipt, job, queue, handler, sent, deliveries, faults, misses>>

(* The end of execute, and the Celery task: heartbeat.stop() raises when a *)
(* renewal failed, and only Busy and Retryable errors are retried.         *)
Stop(w) ==
    /\ worker[w].pc = "stop"
    /\ IF worker[w].exit = "again" /\ worker[w].beat # "failed"
         THEN RetryLater(w) ELSE UNCHANGED queue
    /\ Acknowledge(w)
    /\ UNCHANGED <<receipt, job, handler, sent, deliveries, faults, misses>>
-----------------------------------------------------------------------------
(***************************************************************************)
(* The heartbeat thread, time, and the environment.                        *)
(***************************************************************************)
(* Deviation: a renewal extends the lease it finds.                        *)
StackedRenewal(w) ==
    /\ worker[w].beat = "on"
    /\ Owns(w)
    /\ job' = [job EXCEPT !.lease = @ + LeaseTTL]
    /\ UNCHANGED <<receipt, queue, handler, worker, sent, deliveries, faults, misses>>

(* renew_claim.                                                            *)
Renew(w) ==
    /\ worker[w].beat = "on"
    /\ Owns(w)
    /\ job' = [job EXCEPT !.lease = LeaseTTL]
    /\ UNCHANGED <<receipt, queue, handler, worker, sent, deliveries, faults, misses>>

(* A round of the heartbeat fails: the database raises, or the claim has   *)
(* ended, also by the worker's own last write before stop().               *)
Miss(w) ==
    /\ worker[w].beat = "on"
    /\ misses < MaxMisses
    /\ misses' = misses + 1
    /\ worker' = [worker EXCEPT ![w].beat = "failed"]
    /\ UNCHANGED <<receipt, job, queue, handler, sent, deliveries, faults>>

Returned(w) == queue' = [queue EXCEPT ![<<worker[w].retries, 0>>] = @ + 1]

(* The process dies: late acknowledgement returns its message.             *)
Crash(w) ==
    /\ worker[w].pc # "idle"
    /\ Fault
    /\ Returned(w)
    /\ Acknowledge(w)
    /\ UNCHANGED <<receipt, job, handler, sent, deliveries, misses>>

(* The broker delivers the message of a worker that is still alive again.  *)
Redeliver(w) ==
    /\ worker[w].pc # "idle"
    /\ Fault
    /\ Returned(w)
    /\ UNCHANGED <<receipt, job, handler, worker, sent, deliveries, misses>>

Less(timer) == IF timer > 0 THEN timer - 1 ELSE 0

(* Claims of live processes that the next tick lets expire.                *)
LateHandlers == {h \in Handlers : HoldsReceipt(h) /\ receipt.lease = 1}
LateWorkers ==
    {w \in Workers : /\ Busy /\ job.lease = 1
                     /\ worker[w].token = job.token /\ worker[w].beat # "failed"}

(* Time passes; a callback that outlives its lease is a fault, and a       *)
(* worker that does not renew in time a miss.                              *)
Tick ==
    /\ faults' = faults + Cardinality(LateHandlers) /\ faults' <= MaxFaults
    /\ misses' = misses + Cardinality(LateWorkers) /\ misses' <= MaxMisses
    /\ receipt' = [receipt EXCEPT !.lease = Less(@)]
    /\ job' = [job EXCEPT !.lease = Less(@)]
    /\ queue' = [m \in Messages |->
          IF m[2] = 0 THEN queue[m] + queue[<<m[1], 1>>] ELSE 0]
    /\ UNCHANGED <<handler, worker, sent, deliveries>>

Respond(h) == Stage(h) \/ Enqueue(h) \/ MarkDispatched(h) \/ MarkProcessed(h) \/ MarkFailed(h)
Execute(w) ==
    \/ Receive(w) \/ Claim(w) \/ Read(w) \/ Work(w) \/ Deliver(w) \/ Send(w)
    \/ Checkpoint(w) \/ Finish(w) \/ Retry(w) \/ Unexpected(w) \/ Stop(w)

Next ==
    \/ \E h \in Handlers : Callback(h) \/ Respond(h) \/ CallbackFails(h)
    \/ \E w \in Workers :
          \/ Execute(w) \/ Renew(w)
          \/ WorkFails(w) \/ DeliveryFails(w) \/ Miss(w) \/ Crash(w) \/ Redeliver(w)
    \/ Tick

Spec == Init /\ [][Next]_vars

(* A callback runs to its end, workers take messages and go on, and time   *)
(* passes; Feishu need not repeat anything.                                *)
Fairness ==
    /\ \A h \in Handlers : WF_vars(Respond(h))
    /\ \A w \in Workers : WF_vars(Execute(w))
    /\ WF_vars(Tick)

FairSpec == Spec /\ Fairness
-----------------------------------------------------------------------------
Receipts == [status : {"NONE", "IN_PROGRESS", "RETRYABLE", "PROCESSED"},
             claims : Nat, token : Nat, lease : 0..LeaseTTL]
Jobs == [status : JobStatus, task : Nat, attempts : Nat, token : Nat,
         lease : 0..LeaseTTL, saved : SUBSET Fields]
Callbacks == [pc : {"idle", "stage", "enqueue", "mark", "acknowledge", "release"},
              token : Nat]
WorkerStates ==
    [pc : {"idle", "claim", "read", "work", "deliver", "send", "checkpoint", "finish",
           "retry", "unexpected", "stop"},
     retries : 0..MaxRetries, token : Nat, attempt : Nat, saved : SUBSET Fields,
     todo : SUBSET Parts, outcome : Terminal \cup {"NONE"},
     exit : {"done", "again", "lost"}, beat : {"off", "on", "failed"}]

(* The type invariant: the row, the queue and the processes keep their     *)
(* shape.                                                                  *)
TypeOK ==
    /\ receipt \in Receipts
    /\ job \in Jobs
    /\ queue \in [Messages -> Nat]
    /\ handler \in [Handlers -> Callbacks]
    /\ worker \in [Workers -> WorkerStates]
    /\ sent \in [Parts -> Nat]
    /\ deliveries \in 0..MaxDeliveries
    /\ faults \in 0..MaxFaults /\ misses \in 0..MaxMisses

(* An event is answered 200 only when its job is durable and has a message *)
(* on the way or behind it, whatever callbacks overlapped or failed.       *)
AcknowledgedIsDispatched ==
    receipt.status = "PROCESSED" => job.status # "NONE" /\ job.task # 0

(* A finished job never changes again (only a late mark_dispatched may     *)
(* still write its task_id), however many messages and workers it has left.*)
TerminalIsFinal ==
    [][job.status \in Terminal => job' = [job EXCEPT !.task = job'.task]]_vars

(* While a claim has not expired, nobody but its worker ends it or takes   *)
(* the job over.                                                           *)
LeaseRespected ==
    [][Busy /\ job'.token # job.token =>
          \E w \in Workers : /\ worker[w].token = job.token
                             /\ worker[w].pc \in {"finish", "retry"}]_vars

Cards == sent["card"] + sent["refusal"]

(* What the user saw when a job has ended: a rejection at least a card and *)
(* its table row, and a success also the report and its card.              *)
EndIsTold ==
    /\ job.status \in {"SUCCEEDED", "REJECTED"} => Cards > 0 /\ sent["record"] > 0
    /\ job.status = "SUCCEEDED" => sent["report"] > 0 /\ sent["notice"] > 0

Extra(n) == IF n > 1 THEN n - 1 ELSE 0

(* Every repetition has a cause of its own: parts are sent again at most   *)
(* as often as something failed, and without a failure exactly once.  A    *)
(* result card and a rejection card count as the same part.                *)
OneRepeatPerFault ==
    Extra(Cards) + Extra(sent["report"]) + Extra(sent["notice"]) + Extra(sent["record"])
          <= faults + misses

Waiting == \E m \in Messages : queue[m] > 0
Handled ==
    \/ Waiting
    \/ \E w \in Workers : worker[w].pc # "idle"
    \/ \E h \in Handlers : handler[h].pc # "idle"

(* A staged job that has not ended has a message, a worker or a callback,  *)
(* or Feishu has not been answered 200 and sends the event again - as long *)
(* as no heartbeat round was missed.                                       *)
SomeoneIsResponsible ==
    misses = 0 /\ job.status \notin {"NONE"} \cup Terminal =>
       Handled \/ receipt.status # "PROCESSED"

(* An acknowledged event comes to an end, unless a heartbeat round is      *)
(* missed: the retries of a message outlive the lease of a dead worker.    *)
Settles == receipt.status = "PROCESSED" ~> job.status \in Terminal \/ misses > 0
=============================================================================
