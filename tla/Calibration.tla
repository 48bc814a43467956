---------------------------- MODULE Calibration ----------------------------
(***************************************************************************)
(* The calibration evidence of one model route.  An ADMIN request creates  *)
(* (or finds) the materialization of the current head of the route ledger  *)
(* and puts its identity on a queue; a worker claims it, produces the      *)
(* cohort of samples while a heartbeat thread renews the claim, and        *)
(* commits cohort and status READY together; reading a READY row of an     *)
(* older head makes it STALE.  Every transaction locks the project row, so *)
(* one action is one transaction (application/advanced_calibration_jobs.py *)
(* and audit/sql_project_ledger.py).                                       *)
(*                                                                         *)
(* Time is kept in timers that count down together: a lease of 0 has       *)
(* expired, and two leases that still run are the same instant exactly     *)
(* when their timers are equal.  One tick is the countdown of a retry.     *)
(***************************************************************************)
EXTENDS Integers, FiniteSets

CONSTANTS
    Workers,        \* Celery worker processes
    Clients,        \* HTTP requests that may be in flight together
    Keys,           \* values of the Idempotency-Key header
    NoKey,          \* no key: the decision has no materialization yet
    LeaseTTL,       \* lease_ttl of a claim, in ticks
    MaxRetries,     \* max_retries of the Celery task after Busy
    Prompt,         \* TRUE: a live worker renews or ends a claim before it expires
    CallsMayFail,   \* TRUE: calls of the database and of the broker may fail
    MaxHead,        \* bound: decisions in the ledger of the route
    MaxRequests,    \* bound: HTTP requests
    MaxFaults       \* bound: crashes, redeliveries and failed calls

ASSUME LeaseAssumption == LeaseTTL \in Nat \ {0}
ASSUME KeyAssumption == NoKey \notin Keys
ASSUME SwitchAssumption == Prompt \in BOOLEAN /\ CallsMayFail \in BOOLEAN
ASSUME CalibrationBounds ==
    /\ MaxRetries \in Nat /\ MaxHead \in Nat \ {0}
    /\ MaxRequests \in Nat /\ MaxFaults \in Nat

(* A decision of the ledger names the materialization it is the head for.  *)
Decisions == 1..MaxHead

(* A message: its decision, its Celery retry count, and whether its        *)
(* countdown still runs (1) or it may be delivered (0).                    *)
Messages == Decisions \X (0..MaxRetries) \X {0, 1}

Status == {"NONE", "PENDING", "RUNNING", "READY", "FAILED", "STALE"}

VARIABLES
    head,       \* sequence number of the stream head, 0 before any activation
    row,        \* the materialization created for each decision
    queue,      \* broker: how often it holds each message
    request,    \* what each HTTP request holds between its transactions
    worker,     \* what each worker process and its heartbeat hold
    requests,   \* HTTP requests so far
    faults      \* faults so far

vars == <<head, row, queue, request, worker, requests, faults>>

NoRow == [status |-> "NONE", key |-> NoKey, attempts |-> 0, token |-> 0,
          lease |-> 0, cohort |-> 0]
NoRequest == [pc |-> "idle", key |-> NoKey, decision |-> 0, answer |-> "NONE"]
Idle == [pc |-> "idle", decision |-> 0, retries |-> 0, token |-> 0,
         lease |-> 0, renewed |-> 0, beating |-> FALSE]

Init ==
    /\ head = 0
    /\ row = [d \in Decisions |-> NoRow]
    /\ queue = [m \in Messages |-> 0]
    /\ request = [c \in Clients |-> NoRequest]
    /\ worker = [w \in Workers |-> Idle]
    /\ requests = 0
    /\ faults = 0
-----------------------------------------------------------------------------
(***************************************************************************)
(* The HTTP side: create, then enqueue; get and list.                      *)
(***************************************************************************)
Made(k) == {d \in Decisions : row[d].key = k}

(* READY evidence of another head becomes STALE when it is read.           *)
Aged(d) ==
    IF row[d].status = "READY" /\ head # d
      THEN [row EXCEPT ![d].status = "STALE"] ELSE row

(* create returns the record of row d, and the handler goes on to enqueue. *)
Answered(c, d, table) ==
    request' = [request EXCEPT ![c] =
        [@ EXCEPT !.pc = "enqueue", !.decision = d, !.answer = table[d].status]]

(* _existing_idempotent_record: the first transaction of create.           *)
Lookup(c, k) ==
    /\ request[c].pc = "idle"
    /\ requests < MaxRequests
    /\ requests' = requests + 1
    /\ \/ /\ Made(k) = {}
          /\ request' = [request EXCEPT ![c] = [@ EXCEPT !.pc = "resolve", !.key = k]]
          /\ UNCHANGED row
       \/ \E d \in Made(k) : row' = Aged(d) /\ Answered(c, d, Aged(d))
    /\ UNCHANGED <<head, queue, worker, faults>>

(* preparation_resolver.resolve reads the active route in a session of its *)
(* own; without an active route the request is refused.                    *)
Resolve(c) ==
    /\ request[c].pc = "resolve"
    /\ request' = [request EXCEPT ![c] =
          IF head = 0 THEN NoRequest ELSE [@ EXCEPT !.pc = "insert", !.decision = head]]
    /\ UNCHANGED <<head, row, queue, worker, requests, faults>>

(* The second transaction of create: the head must not have moved; the row *)
(* of the key or of the decision is used as it is, or a row is inserted.   *)
Insert(c) ==
    LET h == request[c].decision
        k == request[c].key
        created == [NoRow EXCEPT !.status = "PENDING", !.key = k]
    IN
    /\ request[c].pc = "insert"
    /\ \/ /\ head # h
          /\ request' = [request EXCEPT ![c] = NoRequest]
          /\ UNCHANGED row
       \/ \E d \in Made(k) : head = h /\ Answered(c, d, row) /\ UNCHANGED row
       \/ /\ head = h /\ Made(k) = {}
          /\ row' = IF row[h] = NoRow THEN [row EXCEPT ![h] = created] ELSE row
          /\ Answered(c, h, row')
    /\ UNCHANGED <<head, queue, worker, requests, faults>>

Enqueue(c) ==
    /\ request[c].pc = "enqueue"
    /\ queue' = [queue EXCEPT ![<<request[c].decision, 0, 0>>] = @ + 1]
    /\ request' = [request EXCEPT ![c] = NoRequest]
    /\ UNCHANGED <<head, row, worker, requests, faults>>

(* The API process dies, or the broker refuses the message.                *)
RequestLost(c) ==
    /\ CallsMayFail
    /\ request[c].pc # "idle"
    /\ faults < MaxFaults
    /\ faults' = faults + 1
    /\ request' = [request EXCEPT ![c] = NoRequest]
    /\ UNCHANGED <<head, row, queue, worker, requests>>

(* get, and list for each of its rows.                                     *)
RefreshRecord(d) ==
    /\ row[d].status # "NONE"
    /\ row' = Aged(d)
    /\ UNCHANGED <<head, queue, request, worker, requests, faults>>
-----------------------------------------------------------------------------
(***************************************************************************)
(* The worker: one delivered message at a time, acknowledged late.         *)
(***************************************************************************)
Receive(w) ==
    /\ worker[w].pc = "idle"
    /\ \E d \in Decisions, r \in 0..MaxRetries :
          /\ queue[<<d, r, 0>>] > 0
          /\ queue' = [queue EXCEPT ![<<d, r, 0>>] = @ - 1]
          /\ worker' = [worker EXCEPT ![w] =
                [Idle EXCEPT !.pc = "claim", !.decision = d, !.retries = r]]
    /\ UNCHANGED <<head, row, request, requests, faults>>

Acknowledge(w) == worker' = [worker EXCEPT ![w] = Idle]

Busy(d) == row[d].status = "RUNNING" /\ row[d].lease > 0

(* Deviation: a Busy claim is not retried.                                 *)
NoRetry(w) == UNCHANGED queue

(* bound_task.retry(countdown = 5, max_retries = 20) of a Busy claim: the  *)
(* message comes back one tick later, or is dropped after the last retry.  *)
RetryLater(w) ==
    LET d == worker[w].decision
        r == worker[w].retries
    IN  queue' = IF r < MaxRetries THEN [queue EXCEPT ![<<d, r + 1, 1>>] = @ + 1] ELSE queue

Unclaimed(d, status) ==
    row' = [row EXCEPT ![d] = [@ EXCEPT !.status = status, !.token = 0, !.lease = 0]]

(* A new attempt with a fresh token, and the heartbeat of its claim.       *)
TakeClaim(w, d) ==
    LET n == row[d].attempts + 1 IN
    /\ row' = [row EXCEPT ![d] = [@ EXCEPT !.status = "RUNNING", !.attempts = n,
                                           !.token = n, !.lease = LeaseTTL]]
    /\ worker' = [worker EXCEPT ![w] = [@ EXCEPT !.pc = "produce", !.token = n,
                     !.lease = LeaseTTL, !.renewed = LeaseTTL, !.beating = TRUE]]

(* Deviation: a claim is granted whatever its lease says.                  *)
ClaimRunning(w) ==
    LET d == worker[w].decision IN
    /\ worker[w].pc = "claim"
    /\ row[d].status \in {"PENDING", "RUNNING", "FAILED"}
    /\ TakeClaim(w, d)
    /\ UNCHANGED <<head, queue, request, requests, faults>>

(* _claim.                                                                 *)
Claim(w) ==
    LET d == worker[w].decision IN
    /\ worker[w].pc = "claim"
    /\ \/ /\ row[d].status \in {"READY", "STALE"}
          /\ row' = Aged(d)
          /\ Acknowledge(w)
          /\ UNCHANGED queue
       \/ /\ Busy(d)
          /\ RetryLater(w)
          /\ Acknowledge(w)
          /\ UNCHANGED row
       \/ /\ row[d].status \in {"PENDING", "RUNNING", "FAILED"} /\ ~Busy(d)
          /\ head # d
          /\ row' = [row EXCEPT ![d] = [@ EXCEPT !.status = "FAILED", !.token = 0, !.lease = 0,
                                                 !.attempts = row[d].attempts + 1]]
          /\ Acknowledge(w)
          /\ UNCHANGED queue
       \/ /\ row[d].status \in {"PENDING", "RUNNING", "FAILED"} /\ ~Busy(d)
          /\ head = d
          /\ TakeClaim(w, d)
          /\ UNCHANGED queue
    /\ UNCHANGED <<head, request, requests, faults>>

(* The fence of renewal, commit and failure: this claim, with this lease,  *)
(* still stands and has not expired.                                       *)
ClaimStands(w, lease) ==
    LET r == row[worker[w].decision] IN
    r.status = "RUNNING" /\ r.token = worker[w].token /\ r.lease = lease /\ lease > 0

(* Deviation: the renewal extends the lease it finds.                      *)
StackedRenewal(w) ==
    LET d == worker[w].decision IN
    /\ worker[w].beating
    /\ head = d /\ ClaimStands(w, worker[w].renewed)
    /\ row' = [row EXCEPT ![d].lease = @ + LeaseTTL]
    /\ worker' = [worker EXCEPT ![w].renewed = @ + LeaseTTL]
    /\ UNCHANGED <<head, queue, request, requests, faults>>

(* One round of the heartbeat thread, _renew_claim; a stale fence ends it. *)
Renew(w) ==
    LET d == worker[w].decision IN
    /\ worker[w].beating
    /\ \/ /\ head = d /\ ClaimStands(w, worker[w].renewed)
          /\ row' = [row EXCEPT ![d].lease = LeaseTTL]
          /\ worker' = [worker EXCEPT ![w].renewed = LeaseTTL]
       \/ /\ ~(head = d /\ ClaimStands(w, worker[w].renewed))
          /\ worker' = [worker EXCEPT ![w].beating = FALSE]
          /\ UNCHANGED row
    /\ UNCHANGED <<head, queue, request, requests, faults>>

(* The renewal raises, before or after its transaction is committed.       *)
RenewFails(w) ==
    LET d == worker[w].decision IN
    /\ CallsMayFail
    /\ worker[w].beating
    /\ faults < MaxFaults
    /\ faults' = faults + 1
    /\ worker' = [worker EXCEPT ![w].beating = FALSE]
    /\ \/ UNCHANGED row
       \/ /\ head = d /\ ClaimStands(w, worker[w].renewed)
          /\ row' = [row EXCEPT ![d].lease = LeaseTTL]
    /\ UNCHANGED <<head, queue, request, requests>>

(* The producer returns or raises and heartbeat.stop() joins the thread.   *)
(* stop raises when a renewal failed: execute then holds the claim as it   *)
(* was taken, without any of its renewals.                                 *)
FinishProduction(w) ==
    /\ worker[w].pc = "produce"
    /\ worker' = [worker EXCEPT ![w] = [@ EXCEPT !.beating = FALSE, !.renewed = 0,
          !.pc = IF worker[w].beating THEN "commit" ELSE "fail",
          !.lease = IF worker[w].beating THEN worker[w].renewed ELSE worker[w].lease]]
    /\ UNCHANGED <<head, row, queue, request, requests, faults>>

(* The samples, their manifest and READY, and the end of the claim.        *)
Publish(w, d) ==
    row' = [row EXCEPT ![d] = [@ EXCEPT !.status = "READY", !.cohort = worker[w].token,
                                       !.token = 0, !.lease = 0]]

(* Deviation: the commit does not read the head again.                     *)
CommitForAnyHead(w) ==
    LET d == worker[w].decision IN
    /\ worker[w].pc = "commit"
    /\ ClaimStands(w, worker[w].lease)
    /\ Publish(w, d)
    /\ Acknowledge(w)
    /\ UNCHANGED <<head, queue, request, requests, faults>>

(* commit_advanced_calibration_materialization: the samples, their         *)
(* manifest and READY in one transaction.  It may refuse for reasons that  *)
(* are not modelled (the producer or the ADMIN session), and a refusal     *)
(* goes to _mark_failed.                                                   *)
Commit(w) ==
    LET d == worker[w].decision IN
    /\ worker[w].pc = "commit"
    /\ \/ /\ head = d /\ ClaimStands(w, worker[w].lease)
          /\ Publish(w, d)
          /\ Acknowledge(w)
       \/ /\ worker' = [worker EXCEPT ![w].pc = "fail"]
          /\ UNCHANGED row
    /\ UNCHANGED <<head, queue, request, requests, faults>>

(* Deviation: the failure is written without the fence.                    *)
FailUnfenced(w) ==
    /\ worker[w].pc = "fail"
    /\ Unclaimed(worker[w].decision, "FAILED")
    /\ Acknowledge(w)
    /\ UNCHANGED <<head, queue, request, requests, faults>>

(* Deviation: the worker tries again instead of recording the failure.     *)
TryAgain(w) ==
    /\ worker[w].pc = "fail"
    /\ worker' = [worker EXCEPT ![w].pc = "produce"]
    /\ UNCHANGED <<head, row, queue, request, requests, faults>>

(* _mark_failed; a stale fence raises, and the message is acknowledged too.*)
MarkFailed(w) ==
    /\ worker[w].pc = "fail"
    /\ IF ClaimStands(w, worker[w].lease)
         THEN Unclaimed(worker[w].decision, "FAILED")
         ELSE UNCHANGED row
    /\ Acknowledge(w)
    /\ UNCHANGED <<head, queue, request, requests, faults>>
-----------------------------------------------------------------------------
(***************************************************************************)
(* The environment.                                                        *)
(***************************************************************************)
Returned(w) == [queue EXCEPT ![<<worker[w].decision, worker[w].retries, 0>>] = @ + 1]

(* The process dies: late acknowledgement returns its message.             *)
Crash(w) ==
    /\ worker[w].pc # "idle"
    /\ faults < MaxFaults
    /\ faults' = faults + 1
    /\ queue' = Returned(w)
    /\ Acknowledge(w)
    /\ UNCHANGED <<head, row, request, requests>>

(* The broker delivers the message of a worker that is still alive again.  *)
Redeliver(w) ==
    /\ worker[w].pc # "idle"
    /\ faults < MaxFaults
    /\ faults' = faults + 1
    /\ queue' = Returned(w)
    /\ UNCHANGED <<head, row, request, worker, requests>>

(* activate or rollback appends a decision to the ledger of the route.     *)
RouteMoves ==
    /\ head < MaxHead
    /\ head' = head + 1
    /\ UNCHANGED <<row, queue, request, worker, requests, faults>>

Less(timer) == IF timer > 0 THEN timer - 1 ELSE 0

Tick ==
    /\ Prompt => \A w \in Workers :
          worker[w].pc \in {"produce", "commit", "fail"} =>
              ~(ClaimStands(w, 1) /\ 1 \in {worker[w].renewed, worker[w].lease})
    /\ row' = [d \in Decisions |-> [row[d] EXCEPT !.lease = Less(@)]]
    /\ worker' = [w \in Workers |->
          [worker[w] EXCEPT !.lease = Less(@), !.renewed = Less(@)]]
    /\ queue' = [m \in Messages |->
          IF m[3] = 0 THEN queue[m] + queue[<<m[1], m[2], 1>>] ELSE 0]
    /\ UNCHANGED <<head, request, requests, faults>>

Submit(c) == (\E k \in Keys : Lookup(c, k)) \/ Resolve(c) \/ Insert(c) \/ Enqueue(c)
Execute(w) ==
    Receive(w) \/ Claim(w) \/ Renew(w) \/ FinishProduction(w) \/ Commit(w) \/ MarkFailed(w)
Fault(w) == RenewFails(w) \/ Crash(w) \/ Redeliver(w)

Next ==
    \/ \E c \in Clients : Submit(c) \/ RequestLost(c)
    \/ \E d \in Decisions : RefreshRecord(d)
    \/ \E w \in Workers : Execute(w) \/ Fault(w)
    \/ RouteMoves
    \/ Tick

Spec == Init /\ [][Next]_vars

(* A request that was accepted runs to its end, workers take messages and  *)
(* go on, and time passes; nobody has to send a request, move the route or *)
(* fail.                                                                   *)
Fairness ==
    /\ \A c \in Clients : WF_vars(Resolve(c) \/ Insert(c) \/ Enqueue(c))
    /\ \A w \in Workers :
          WF_vars(Receive(w) \/ Claim(w) \/ FinishProduction(w) \/ Commit(w) \/ MarkFailed(w))
    /\ WF_vars(Tick)

FairSpec == Spec /\ Fairness
-----------------------------------------------------------------------------
Rows == [status : Status, key : Keys \cup {NoKey}, attempts : Nat, token : Nat,
         lease : 0..LeaseTTL, cohort : Nat]
Requests == [pc : {"idle", "resolve", "insert", "enqueue"}, key : Keys \cup {NoKey},
             decision : 0..MaxHead, answer : Status]
WorkerStates == [pc : {"idle", "claim", "produce", "commit", "fail"},
                 decision : 0..MaxHead, retries : 0..MaxRetries, token : Nat,
                 lease : 0..LeaseTTL, renewed : 0..LeaseTTL, beating : BOOLEAN]

(* The type invariant: every table, queue and process keeps its shape.     *)
TypeOK ==
    /\ head \in 0..MaxHead
    /\ row \in [Decisions -> Rows]
    /\ queue \in [Messages -> Nat]
    /\ request \in [Clients -> Requests]
    /\ worker \in [Workers -> WorkerStates]
    /\ requests \in 0..MaxRequests /\ faults \in 0..MaxFaults

Payload(r) ==
    /\ r.status \in {"NONE", "PENDING"} => r.attempts = 0
    /\ r.status \notin {"NONE", "PENDING"} => r.attempts > 0
    /\ r.token = IF r.status = "RUNNING" THEN r.attempts ELSE 0
    /\ r.status # "RUNNING" => r.lease = 0
    /\ r.cohort = IF r.status \in {"READY", "STALE"} THEN r.attempts ELSE 0

(* What a status says of the rest of its row: a claim exists exactly while *)
(* RUNNING and is the latest attempt, samples exist exactly once READY and *)
(* are those of the latest attempt.  The database states the same as       *)
(* ck_advanced_calibration_state_payload, so no transaction trips it.      *)
StatePayload == \A d \in Decisions : Payload(row[d])

(* What one step may do to published samples and to unexpired claims.      *)
Publishes ==
    \A d \in Decisions : row'[d].cohort # row[d].cohort => row[d].cohort = 0 /\ head = d
Respects ==
    \A d \in Decisions : Busy(d) /\ row'[d].token # row[d].token =>
       \E w \in Workers : /\ worker[w].decision = d
                          /\ worker[w].token = row[d].token
                          /\ worker'[w] = Idle

(* Published samples are final: they are published only for the decision   *)
(* that is the head at that instant and are never replaced or withdrawn,   *)
(* however often messages of the row are delivered.                        *)
CohortIsFinal == [][Publishes]_vars

(* While a claim has not expired, the row stays with the worker that holds *)
(* it: only that worker, ending its work, gives the claim up.              *)
LeaseRespected == [][Respects]_vars

(* Somebody answers for unfinished evidence of the active route: a request *)
(* about to enqueue it, a message, or a worker that has its message.       *)
SomeoneIsResponsible ==
    head > 0 /\ row[head].status \in {"PENDING", "RUNNING"} =>
       \/ \E c \in Clients : request[c].pc = "enqueue" /\ request[c].decision = head
       \/ \E m \in Messages : m[1] = head /\ queue[m] > 0
       \/ \E w \in Workers : worker[w].decision = head

(* Evidence that was requested is published or failed, unless the route    *)
(* moves first: a dead worker's lease runs out before the retries of the   *)
(* redelivered message do (20 retries of 5 s against a lease of 90 s).     *)
Settles ==
    \A d \in Decisions :
       row[d].status \in {"PENDING", "RUNNING"} ~>
           row[d].status \in {"READY", "FAILED", "STALE"} \/ head # d
=============================================================================
