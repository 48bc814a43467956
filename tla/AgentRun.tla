------------------------------ MODULE AgentRun ------------------------------
(***************************************************************************)
(* One durable Agent run: its row, its ordered steps, its dispatch record, *)
(* its approval gates, its tool results and its event log, as they are     *)
(* written by the HTTP API (application/agent_runs.py), by the Celery      *)
(* workers (application/agent_run_execution.py) and by the project ledger  *)
(* (audit/sql_project_ledger.py).  One action is one database transaction  *)
(* or one delivery of the broker; every transaction locks the run row      *)
(* first, so transactions of the same run are atomic.                      *)
(***************************************************************************)
EXTENDS Integers, Sequences, FiniteSets, FiniteSetsExt

CONSTANTS
    Workers,        \* Celery worker processes
    NSteps,         \* number of steps of the persisted plan
    Gated,          \* steps with requires_human_approval
    Local,          \* steps whose tool is not of PROJECT execution scope
    RetryOnce,      \* steps with failure_policy RETRY_ONCE
    ContextMayFail, \* may the trusted context resolver refuse a reference?
    LeaseTTL,       \* lease_ttl of a step claim, in clock ticks
    ApprovalTTL,    \* approval_ttl of a human gate, in clock ticks
    MaxRetries,     \* max_retries of the Celery task after Busy
    MaxClock,       \* bound: ticks of the clock
    MaxContext,     \* bound: how often the trusted context may drift
    MaxFaults       \* bound: crashes, redeliveries and lost dispatches

Steps == 1..NSteps

ASSUME NStepsAssumption == NSteps \in Nat \ {0}
ASSUME PlanAssumption == Gated \subseteq Steps /\ Local \subseteq Steps
ASSUME TTLAssumption == LeaseTTL \in Nat \ {0} /\ ApprovalTTL \in Nat \ {0}
ASSUME BoundsAssumption ==
    MaxRetries \in Nat /\ MaxClock \in Nat /\ MaxContext \in Nat /\ MaxFaults \in Nat
ASSUME ContextAssumption == ContextMayFail \in BOOLEAN

Terminal == {"COMPLETED", "FAILED", "CANCELLED"}
RunStatus == {"RUNNING", "AWAITING_APPROVAL"} \union Terminal
StepStatus == {"PENDING", "RUNNING", "AWAITING_APPROVAL"} \union Terminal
ApprovalStatus == {"PENDING", "APPROVED", "REJECTED", "EXPIRED", "CANCELLED"}

(* STEP_WILL_RETRY is a STEP_FAILED event whose payload says will_retry.   *)
EventType == {"RUN_CREATED", "RUN_DISPATCHED", "DISPATCH_FAILED", "APPROVAL_REQUESTED",
              "APPROVAL_APPROVED", "APPROVAL_REJECTED", "APPROVAL_EXPIRED",
              "STEP_STARTED", "STEP_COMPLETED", "STEP_WILL_RETRY", "STEP_FAILED",
              "RUN_COMPLETED", "RUN_FAILED", "RUN_CANCELLED"}

NoInput == -1           \* resolved_input_json is NULL
NoResult == [attempt |-> 0, input |-> NoInput]
NoApproval ==
    [status |-> "NONE", snapshot |-> NoInput, expires |-> 0, acted |-> 0]

Input == 0..MaxContext  \* what the context resolver makes of a step's references

VARIABLES
    run,        \* AgentRun.status
    step,       \* AgentStep rows; token is the attempt whose uuid is stored, 0 for NULL
    dispatch,   \* AgentRunDispatch.status
    approval,   \* ApprovalRequest row and its ApprovalAction, per step
    result,     \* ToolResultRecord owned by each step (unique per agent_step_id)
    events,     \* AgentEvent rows, in the order of their sequence number
    queue,      \* broker: number of waiting messages by their Celery retry count
    worker,     \* what each worker process holds in memory between transactions
    clock,      \* the wall clock
    context,    \* the version of the server-owned execution context
    faults      \* crashes, redeliveries and lost dispatches so far

vars == <<run, step, dispatch, approval, result, events, queue, worker,
          clock, context, faults>>
rows == <<run, step, dispatch, approval, result, events>>
environment == <<clock, context, faults>>

Idle == [pc |-> "idle", retries |-> 0, done |-> {}, next |-> 0,
         status |-> "PENDING", lease |-> 0, input |-> NoInput, token |-> 0]

Event(type, s) == [type |-> type, step |-> s]
Log(type, s) == events' = Append(events, Event(type, s))

Init ==
    /\ run = "RUNNING"
    /\ step = [s \in Steps |-> [status |-> "PENDING", attempts |-> 0, token |-> 0,
                                lease |-> 0, frozen |-> NoInput]]
    /\ dispatch = "PENDING"
    /\ approval = [s \in Steps |-> NoApproval]
    /\ result = [s \in Steps |-> NoResult]
    /\ events = <<Event("RUN_CREATED", 0)>>
    /\ queue = [r \in 0..MaxRetries |-> 0]
    /\ worker = [w \in Workers |-> Idle]
    /\ clock = 0
    /\ context = 0
    /\ faults = 0
-----------------------------------------------------------------------------
(***************************************************************************)
(* The HTTP side.                                                          *)
(***************************************************************************)
LeaseActive(lease) == lease > clock

Completed == {s \in Steps : step[s].status = "COMPLETED"}

(* dispatch_pending sends the message inside its transaction.              *)
Dispatch ==
    /\ run # "CANCELLED"
    /\ dispatch = "PENDING"
    /\ queue' = [queue EXCEPT ![0] = @ + 1]
    /\ dispatch' = "DISPATCHED"
    /\ Log("RUN_DISPATCHED", 0)
    /\ UNCHANGED <<run, step, approval, result, worker, environment>>

(* The broker refuses the message: the record stays PENDING.               *)
DispatchFailed ==
    /\ run # "CANCELLED"
    /\ dispatch = "PENDING"
    /\ faults < MaxFaults
    /\ faults' = faults + 1
    /\ Log("DISPATCH_FAILED", 0)
    /\ UNCHANGED <<run, step, dispatch, approval, result, queue, worker, clock, context>>

(* The message is out, the transaction that recorded it is rolled back.    *)
DispatchLost ==
    /\ run # "CANCELLED"
    /\ dispatch = "PENDING"
    /\ faults < MaxFaults
    /\ faults' = faults + 1
    /\ queue' = [queue EXCEPT ![0] = @ + 1]
    /\ UNCHANGED <<rows, worker, clock, context>>

(* Deviation: the decision forgets the row of the step.                    *)
ApproveRunOnly(s) ==
    /\ approval[s].status = "PENDING"
    /\ clock < approval[s].expires
    /\ approval' = [approval EXCEPT ![s].status = "APPROVED", ![s].acted = clock]
    /\ run' = "RUNNING"
    /\ dispatch' = "PENDING"
    /\ Log("APPROVAL_APPROVED", s)
    /\ UNCHANGED <<step, result, queue, worker, environment>>

(* _act_on_approval with target APPROVED, before the deadline.             *)
Approve(s) ==
    /\ approval[s].status = "PENDING"
    /\ clock < approval[s].expires
    /\ approval' = [approval EXCEPT ![s].status = "APPROVED", ![s].acted = clock]
    /\ run' = "RUNNING"
    /\ step' = [step EXCEPT ![s].status = "PENDING"]
    /\ dispatch' = "PENDING"
    /\ Log("APPROVAL_APPROVED", s)
    /\ UNCHANGED <<result, queue, worker, environment>>

(* Deviation: open gates survive the end of the run.                       *)
LeaveApprovalsOpen(app) == app

CancelPendingApprovals(app) ==
    [s \in Steps |-> IF app[s].status = "PENDING"
                       THEN [app[s] EXCEPT !.status = "CANCELLED"] ELSE app[s]]

(* _act_on_approval with target REJECTED, before the deadline.             *)
Reject(s) ==
    /\ approval[s].status = "PENDING"
    /\ clock < approval[s].expires
    /\ approval' = CancelPendingApprovals(
                       [approval EXCEPT ![s].status = "REJECTED", ![s].acted = clock])
    /\ run' = "CANCELLED"
    /\ step' = [step EXCEPT ![s].status = "CANCELLED"]
    /\ Log("APPROVAL_REJECTED", s)
    /\ UNCHANGED <<dispatch, result, queue, worker, environment>>

(* Either decision after the deadline closes the gate and changes nothing else. *)
Expire(s) ==
    /\ approval[s].status = "PENDING"
    /\ clock >= approval[s].expires
    /\ approval' = [approval EXCEPT ![s].status = "EXPIRED"]
    /\ Log("APPROVAL_EXPIRED", s)
    /\ UNCHANGED <<run, step, dispatch, result, queue, worker, environment>>

Cancel ==
    /\ run \notin Terminal
    /\ run' = "CANCELLED"
    /\ approval' = CancelPendingApprovals(approval)
    /\ Log("RUN_CANCELLED", 0)
    /\ UNCHANGED <<step, dispatch, result, queue, worker, environment>>

Api ==
    \/ Dispatch
    \/ DispatchFailed
    \/ DispatchLost
    \/ \E s \in Steps : Approve(s) \/ Reject(s) \/ Expire(s)
    \/ Cancel
-----------------------------------------------------------------------------
(***************************************************************************)
(* The worker: AgentRunExecutionWorker.execute, called for one message.    *)
(* pc names the transaction the worker runs next.  A worker that raises an *)
(* AgentRunExecutionError, or that returns, acknowledges its message.      *)
(***************************************************************************)
Goto(w, label) == worker' = [worker EXCEPT ![w].pc = label]
Acknowledge(w) == worker' = [worker EXCEPT ![w] = Idle]

Target(w) == worker[w].next

(* Busy: bound_task.retry sends the message again until max_retries.       *)
RetryLater(w) ==
    /\ queue' = IF worker[w].retries < MaxRetries
                  THEN [queue EXCEPT ![worker[w].retries + 1] = @ + 1]
                  ELSE queue
    /\ Acknowledge(w)

Receive(w) ==
    /\ worker[w].pc = "idle"
    /\ \E r \in 0..MaxRetries :
          /\ queue[r] > 0
          /\ queue' = [queue EXCEPT ![r] = @ - 1]
          /\ worker' = [worker EXCEPT ![w] = [Idle EXCEPT !.pc = "load", !.retries = r]]
    /\ UNCHANGED <<rows, environment>>

(* _load_run: the rows the worker will reason about from now on.           *)
Load(w) ==
    /\ worker[w].pc = "load"
    /\ \/ /\ run \in Terminal \union {"AWAITING_APPROVAL"}
          /\ Goto(w, "state")
       \/ /\ run = "RUNNING"
          /\ Completed = Steps
          /\ worker' = [worker EXCEPT ![w] =
                [Idle EXCEPT !.pc = "restore", !.retries = worker[w].retries,
                             !.done = Steps, !.status = "COMPLETED"]]
       \/ /\ run = "RUNNING"
          /\ \E s \in Steps \ Completed :
                /\ 1..(s - 1) \subseteq Completed
                /\ worker' = [worker EXCEPT ![w] =
                      [Idle EXCEPT !.pc = "restore", !.retries = worker[w].retries,
                                   !.done = Completed, !.next = s,
                                   !.status = step[s].status, !.lease = step[s].lease]]
    /\ UNCHANGED <<rows, queue, environment>>

(* _restore_completed_results reads the results in a later transaction.    *)
Restorable(w) ==
    \A s \in Steps : IF s \in worker[w].done
                       THEN result[s] # NoResult /\ result[s].input = context
                       ELSE result[s] = NoResult

Restore(w) ==
    /\ worker[w].pc = "restore"
    /\ \/ ~Restorable(w) /\ Acknowledge(w) /\ UNCHANGED queue
       \/ Restorable(w) /\ worker[w].status = "COMPLETED"
             /\ Goto(w, "complete") /\ UNCHANGED queue
       \/ Restorable(w) /\ worker[w].status = "RUNNING" /\ LeaseActive(worker[w].lease)
             /\ RetryLater(w)
       \/ /\ Restorable(w) /\ worker[w].status # "COMPLETED"
          /\ ~(worker[w].status = "RUNNING" /\ LeaseActive(worker[w].lease))
          /\ Goto(w, IF worker[w].status = "FAILED" THEN "fail" ELSE "compile")
          /\ UNCHANGED queue
    /\ UNCHANGED <<rows, environment>>

(* compile_agent_step, and the failure of its references: _fail_run without a claim. *)
Compile(w) ==
    /\ worker[w].pc = "compile"
    /\ \/ worker' = [worker EXCEPT ![w].pc = "freeze", ![w].input = context]
       \/ ContextMayFail /\ Goto(w, "fail")
    /\ UNCHANGED <<rows, queue, environment>>

(* Deviation: the snapshot follows the context instead of being frozen.    *)
Refreeze(w) ==
    LET s == Target(w) IN
    /\ worker[w].pc = "freeze"
    /\ step' = [step EXCEPT ![s].frozen = worker[w].input]
    /\ Goto(w, IF s \in Gated THEN "gate" ELSE "claim")
    /\ UNCHANGED <<run, dispatch, approval, result, events, queue, environment>>

(* _freeze_step_execution.                                                 *)
Freeze(w) ==
    LET s == Target(w) IN
    /\ worker[w].pc = "freeze"
    /\ \/ /\ step[s].frozen \in {NoInput, worker[w].input}
          /\ step' = [step EXCEPT ![s].frozen = worker[w].input]
          /\ Goto(w, IF s \in Gated THEN "gate" ELSE "claim")
       \/ /\ step[s].frozen \notin {NoInput, worker[w].input}
          /\ Acknowledge(w)
          /\ UNCHANGED step
    /\ UNCHANGED <<run, dispatch, approval, result, events, queue, environment>>

(* _is_step_approved.                                                      *)
Approved(s) ==
    /\ approval[s].status = "APPROVED"
    /\ approval[s].snapshot = step[s].frozen
    /\ approval[s].acted < approval[s].expires

Gate(w) ==
    LET s == Target(w) IN
    /\ worker[w].pc = "gate"
    /\ \/ Approved(s) /\ Goto(w, "claim")
       \/ approval[s].status \in {"NONE", "PENDING"} /\ Goto(w, "request")
       \/ /\ ~Approved(s) /\ approval[s].status \notin {"NONE", "PENDING"}
          /\ Acknowledge(w)
    /\ UNCHANGED <<rows, queue, environment>>

(* request_approval; a gate that exists is returned when its deadline is   *)
(* the same instant, and otherwise is a conflict the worker does not catch.*)
RequestApproval(w) ==
    LET s == Target(w) IN
    /\ worker[w].pc = "request"
    /\ \/ /\ run \in {"RUNNING", "AWAITING_APPROVAL"}
          /\ approval[s].status = "NONE"
          /\ approval' = [approval EXCEPT ![s] =
                [status |-> "PENDING", snapshot |-> step[s].frozen,
                 expires |-> clock + ApprovalTTL, acted |-> 0]]
          /\ run' = "AWAITING_APPROVAL"
          /\ step' = [step EXCEPT ![s].status = "AWAITING_APPROVAL"]
          /\ Log("APPROVAL_REQUESTED", s)
          /\ Goto(w, "state")
       \/ /\ run \in {"RUNNING", "AWAITING_APPROVAL"}
          /\ approval[s].status # "NONE"
          /\ approval[s].expires = clock + ApprovalTTL
          /\ Goto(w, "state")
          /\ UNCHANGED <<run, step, approval, events>>
       \/ /\ run \in Terminal \/ approval[s].status # "NONE"
          /\ Acknowledge(w)
          /\ UNCHANGED <<run, step, approval, events>>
    /\ UNCHANGED <<dispatch, result, queue, environment>>

(* Deviations: a completed step is claimed again; a running step is taken  *)
(* over without looking at its lease; a lease is stacked on the last one.  *)
ClaimableAgain(s) == step[s].status \in {"PENDING", "COMPLETED"}

ClaimableRunning(s) == step[s].status \in {"PENDING", "RUNNING"}

StackedLease(s) ==
    [step[s] EXCEPT !.status = "RUNNING", !.attempts = @ + 1,
                    !.token = step[s].attempts + 1, !.lease = @ + clock + LeaseTTL]

(* _claim_step: a new token, one more attempt, a new lease.                *)
Claimable(s) ==
    \/ step[s].status = "PENDING"
    \/ step[s].status = "RUNNING" /\ ~LeaseActive(step[s].lease)

ClaimedStep(s) ==
    [step[s] EXCEPT !.status = "RUNNING", !.attempts = @ + 1,
                    !.token = step[s].attempts + 1, !.lease = clock + LeaseTTL]

Claim(w) ==
    LET s == Target(w) IN
    /\ worker[w].pc = "claim"
    /\ \/ /\ run # "RUNNING" \/ step[s].status \notin {"PENDING", "RUNNING"}
          /\ IF run # "RUNNING" \/ step[s].status = "COMPLETED"
               THEN Goto(w, "state") ELSE Acknowledge(w)
          /\ UNCHANGED <<step, events, queue>>
       \/ /\ run = "RUNNING" /\ step[s].status = "RUNNING" /\ LeaseActive(step[s].lease)
          /\ RetryLater(w)
          /\ UNCHANGED <<step, events>>
       \/ /\ run = "RUNNING" /\ Claimable(s)
          /\ step' = [step EXCEPT ![s] = ClaimedStep(s)]
          /\ Log("STEP_STARTED", s)
          /\ worker' = [worker EXCEPT ![w].pc = IF s \in Local THEN "run" ELSE "resolve",
                                      ![w].token = step[s].attempts + 1]
          /\ UNCHANGED queue
    /\ UNCHANGED <<run, dispatch, approval, result, environment>>

(* What a grant asks of the rows, at resolve and again in the commit.      *)
HoldsClaim(w) ==
    LET s == Target(w) IN
    /\ step[s].status = "RUNNING"
    /\ step[s].token = worker[w].token
    /\ LeaseActive(step[s].lease)

(* Deviation: the commit forgets the status of the run.                    *)
LiveClaim(w) ==
    /\ dispatch = "DISPATCHED"
    /\ HoldsClaim(w)
    /\ step[Target(w)].frozen = worker[w].input
    /\ Target(w) \in Gated => Approved(Target(w))

LiveScope(w) ==
    /\ run = "RUNNING"
    /\ dispatch = "DISPATCHED"
    /\ HoldsClaim(w)
    /\ step[Target(w)].frozen = worker[w].input
    /\ Target(w) \in Gated => Approved(Target(w))

(* resolver.resolve: the grant of a PROJECT tool.                          *)
Resolve(w) ==
    /\ worker[w].pc = "resolve"
    /\ Goto(w, IF LiveScope(w) THEN "commit" ELSE "fail")
    /\ UNCHANGED <<rows, queue, environment>>

(* Deviation: the step is completed in a transaction before its result.    *)
CompleteBeforeResult(w) ==
    /\ step' = [step EXCEPT ![Target(w)].status = "COMPLETED",
                            ![Target(w)].token = 0, ![Target(w)].lease = 0]
    /\ Log("STEP_COMPLETED", Target(w))
    /\ Goto(w, "after")
    /\ UNCHANGED result

StoreResult(w) ==
    LET s == Target(w) IN
    /\ result' = [result EXCEPT ![s] =
                    [attempt |-> worker[w].token, input |-> worker[w].input]]
    /\ step' = [step EXCEPT ![s].status = "COMPLETED", ![s].token = 0, ![s].lease = 0]
    /\ Log("STEP_COMPLETED", s)
    /\ Goto(w, "after")

(* invoke_for_project_agent and commit_agent_step_result: the tool may     *)
(* fail, and so may the commit, whose transaction is then rolled back.     *)
CommitResult(w) ==
    /\ worker[w].pc = "commit"
    /\ \/ LiveScope(w) /\ result[Target(w)] = NoResult /\ StoreResult(w)
       \/ Goto(w, "fail") /\ UNCHANGED <<step, result, events>>
    /\ UNCHANGED <<run, dispatch, approval, queue, environment>>

Persistable(w) ==
    /\ HoldsClaim(w)
    /\ step[Target(w)].frozen = worker[w].input
    /\ result[Target(w)] = NoResult

(* run_constrained_workflow and _persist_step_result, which asks for the   *)
(* claim and not for the status of the run.                                *)
PersistResult(w) ==
    /\ worker[w].pc = "run"
    /\ \/ Persistable(w) /\ StoreResult(w)
       \/ /\ ~Persistable(w)
          /\ Acknowledge(w)
          /\ UNCHANGED <<step, result, events>>
    /\ UNCHANGED <<run, dispatch, approval, queue, environment>>

(* _handle_step_failure, when the tool of a Local step fails.              *)
HandleStepFailure(w) ==
    LET s == Target(w)
        fenced == step[s].status = "RUNNING" /\ step[s].token = worker[w].token
        retry == s \in RetryOnce /\ step[s].attempts < 2
    IN
    /\ worker[w].pc = "run"
    /\ \/ /\ run \in Terminal
          /\ Goto(w, "state") /\ UNCHANGED <<step, events>>
       \/ /\ run \notin Terminal /\ ~fenced
          /\ Acknowledge(w) /\ UNCHANGED <<step, events>>
       \/ /\ run \notin Terminal /\ fenced /\ retry
          /\ step' = [step EXCEPT ![s].status = "PENDING", ![s].token = 0, ![s].lease = 0]
          /\ Log("STEP_WILL_RETRY", s)
          /\ Goto(w, "state")
       \/ /\ run \notin Terminal /\ fenced /\ ~retry
          /\ Goto(w, "fail") /\ UNCHANGED <<step, events>>
    /\ UNCHANGED <<run, dispatch, approval, result, queue, environment>>

(* _fail_run: token 0 is the call without a claim token.                   *)
FailRun(w) ==
    LET s == Target(w)
        fenced == worker[w].token = 0 \/ step[s].token = worker[w].token
    IN
    /\ worker[w].pc = "fail"
    /\ \/ /\ run \in Terminal
          /\ Goto(w, "state") /\ UNCHANGED <<run, step, events>>
       \/ /\ run \notin Terminal /\ ~fenced
          /\ Acknowledge(w) /\ UNCHANGED <<run, step, events>>
       \/ /\ run \notin Terminal /\ fenced
          /\ step' = [step EXCEPT ![s].status = "FAILED", ![s].token = 0, ![s].lease = 0]
          /\ run' = "FAILED"
          /\ events' = events \o <<Event("STEP_FAILED", s), Event("RUN_FAILED", s)>>
          /\ Goto(w, "state")
    /\ UNCHANGED <<dispatch, approval, result, queue, environment>>

(* advance_once looks at the steps again after a result is stored.         *)
AfterResult(w) ==
    /\ worker[w].pc = "after"
    /\ Goto(w, IF Completed = Steps THEN "complete" ELSE "state")
    /\ UNCHANGED <<rows, queue, environment>>

(* Deviation: the end of the run is never written.                         *)
LeaveRunning(w) ==
    /\ worker[w].pc = "complete"
    /\ Goto(w, "state")
    /\ UNCHANGED <<rows, queue, environment>>

(* _complete_run.                                                          *)
CompleteRun(w) ==
    /\ worker[w].pc = "complete"
    /\ \/ /\ run \in Terminal \/ Completed # Steps
          /\ IF run \in Terminal THEN Goto(w, "state") ELSE Acknowledge(w)
          /\ UNCHANGED <<run, events>>
       \/ /\ run \notin Terminal /\ Completed = Steps
          /\ run' = "COMPLETED"
          /\ Log("RUN_COMPLETED", 0)
          /\ Goto(w, "state")
    /\ UNCHANGED <<step, dispatch, approval, result, queue, environment>>

(* Deviation: one message advances the run by one step.                    *)
ReadStateOnce(w) ==
    /\ worker[w].pc = "state"
    /\ Acknowledge(w)
    /\ UNCHANGED <<rows, queue, environment>>

(* _state, and the loop of execute: go on while the run is RUNNING.        *)
ReadState(w) ==
    /\ worker[w].pc = "state"
    /\ IF run = "RUNNING" THEN Goto(w, "load") ELSE Acknowledge(w)
    /\ UNCHANGED <<rows, queue, environment>>

Work(w) ==
    \/ Receive(w) \/ Load(w) \/ Restore(w) \/ Compile(w) \/ Freeze(w)
    \/ Gate(w) \/ RequestApproval(w) \/ Claim(w) \/ Resolve(w)
    \/ CommitResult(w) \/ PersistResult(w) \/ HandleStepFailure(w)
    \/ FailRun(w) \/ AfterResult(w) \/ CompleteRun(w) \/ ReadState(w)
-----------------------------------------------------------------------------
(***************************************************************************)
(* The broker, the clock and the context: external to the source.          *)
(***************************************************************************)
(* A lost worker process: acks_late and reject_on_worker_lost requeue its message. *)
Crash(w) ==
    /\ worker[w].pc # "idle"
    /\ faults < MaxFaults
    /\ faults' = faults + 1
    /\ queue' = [queue EXCEPT ![worker[w].retries] = @ + 1]
    /\ Acknowledge(w)
    /\ UNCHANGED <<rows, clock, context>>

(* The visibility timeout of the broker passes while the worker is at work. *)
Redeliver(w) ==
    /\ worker[w].pc # "idle"
    /\ faults < MaxFaults
    /\ faults' = faults + 1
    /\ queue' = [queue EXCEPT ![worker[w].retries] = @ + 1]
    /\ UNCHANGED <<rows, worker, clock, context>>

Tick ==
    /\ clock < MaxClock
    /\ clock' = clock + 1
    /\ UNCHANGED <<rows, queue, worker, context, faults>>

(* A new active route or artifact changes what the references resolve to.  *)
ContextDrifts ==
    /\ context < MaxContext
    /\ context' = context + 1
    /\ UNCHANGED <<rows, queue, worker, clock, faults>>

Next ==
    \/ Api
    \/ \E w \in Workers : Work(w) \/ Crash(w) \/ Redeliver(w)
    \/ Tick
    \/ ContextDrifts

Spec == Init /\ [][Next]_vars

(* The API handler that created or approved the run dispatches it in the   *)
(* same request, and a live worker executes the message it was given.      *)
Fairness == WF_vars(Dispatch) /\ \A w \in Workers : WF_vars(Work(w))

FairSpec == Spec /\ Fairness
-----------------------------------------------------------------------------
(***************************************************************************)
(* Properties.                                                             *)
(***************************************************************************)
Pc == {"idle", "load", "restore", "compile", "freeze", "gate", "request", "claim",
       "resolve", "commit", "run", "fail", "after", "complete", "state"}

Lease == 0..(MaxClock + LeaseTTL)

StepRow ==
    [status : StepStatus, attempts : Nat, token : Nat, lease : Lease,
     frozen : Input \union {NoInput}]

ApprovalRow ==
    [status : ApprovalStatus \union {"NONE"}, snapshot : Input \union {NoInput},
     expires : 0..(MaxClock + ApprovalTTL), acted : 0..MaxClock]

ResultRow == [attempt : Nat, input : Input \union {NoInput}]

EventRow == [type : EventType, step : Steps \union {0}]

Memory ==
    [pc : Pc, retries : 0..MaxRetries, done : SUBSET Steps, next : Steps \union {0},
     status : StepStatus, lease : Lease, input : Input \union {NoInput}, token : Nat]

(* The persisted columns, the broker and the memory of the workers hold    *)
(* values of their declared types.                                         *)
TypeOK ==
    /\ run \in RunStatus
    /\ step \in [Steps -> StepRow]
    /\ dispatch \in {"PENDING", "DISPATCHED"}
    /\ approval \in [Steps -> ApprovalRow]
    /\ result \in [Steps -> ResultRow]
    /\ events \in Seq(EventRow)
    /\ queue \in [0..MaxRetries -> Nat]
    /\ worker \in [Workers -> Memory]
    /\ clock \in 0..MaxClock
    /\ context \in Input
    /\ faults \in 0..MaxFaults

(* The event log, replayed from its first entry, gives the status of the   *)
(* run and of every step: the log is written by three modules of the code, *)
(* each beside its own update of the rows.                                 *)
RunAfter ==
    [type \in EventType |->
        CASE type \in {"RUN_CREATED", "APPROVAL_APPROVED"} -> "RUNNING"
          [] type = "APPROVAL_REQUESTED" -> "AWAITING_APPROVAL"
          [] type \in {"APPROVAL_REJECTED", "RUN_CANCELLED"} -> "CANCELLED"
          [] type = "RUN_COMPLETED" -> "COMPLETED"
          [] type = "RUN_FAILED" -> "FAILED"
          [] OTHER -> "SILENT"]

StepAfter ==
    [type \in EventType |->
        CASE type \in {"RUN_CREATED", "STEP_WILL_RETRY", "APPROVAL_APPROVED"} -> "PENDING"
          [] type = "STEP_STARTED" -> "RUNNING"
          [] type = "STEP_COMPLETED" -> "COMPLETED"
          [] type = "STEP_FAILED" -> "FAILED"
          [] type = "APPROVAL_REQUESTED" -> "AWAITING_APPROVAL"
          [] type = "APPROVAL_REJECTED" -> "CANCELLED"
          [] OTHER -> "SILENT"]

LastOf(indices) == events[Max(indices)].type

LogTellsState ==
    /\ run = RunAfter[LastOf({i \in DOMAIN events : RunAfter[events[i].type] # "SILENT"})]
    /\ \A s \in Steps :
          step[s].status = StepAfter[LastOf({i \in DOMAIN events :
                                 /\ StepAfter[events[i].type] # "SILENT"
                                 /\ events[i].step \in {0, s}})]

(* Results follow the plan: a completed step owns a result, a result has   *)
(* the results of all earlier steps before it, and a completed run has all *)
(* of them, whatever crashes, redeliveries and drifts happen.              *)
ResultsFollowPlan ==
    /\ \A s \in Steps : step[s].status = "COMPLETED" => result[s] # NoResult
    /\ \A s, t \in Steps : t < s /\ result[s] # NoResult => result[t] # NoResult
    /\ run = "COMPLETED" => \A s \in Steps : step[s].status = "COMPLETED"

(* What a human approved is what is executed: a gated step that runs or    *)
(* owns a result was approved before the deadline of its gate, and the     *)
(* input it runs on is the one frozen when the gate was requested.         *)
GateHonoured ==
    \A s \in Gated :
        /\ step[s].status = "RUNNING" => Approved(s)
        /\ result[s] # NoResult => Approved(s) /\ result[s].input = approval[s].snapshot

(* No half commit: a step is completed exactly when it owns a result.      *)
NoHalfCommit ==
    \A s \in Steps : step[s].status = "COMPLETED" <=> result[s] # NoResult

(* A run that has completed, failed or been cancelled never changes again. *)
TerminalIsFinal == [][(run \in Terminal) => run' = run]_vars

(* While the lease of a claim is active, no transaction but that of the    *)
(* worker holding its token moves the step: a late worker neither          *)
(* overwrites a result nor writes FAILED.                                  *)
LeaseRespected ==
    [][\A s \in Steps :
          step[s].status = "RUNNING" /\ LeaseActive(step[s].lease) /\ step'[s] # step[s] =>
              \E w \in Workers : /\ worker[w].token = step[s].token
                                 /\ Target(w) = s
                                 /\ worker'[w] # worker[w]]_vars

(* A running run is somebody's duty: a message waits, a worker executes it *)
(* or the dispatch record still asks for a message.                        *)
SomeoneIsResponsible ==
    run = "RUNNING" => \/ dispatch = "PENDING"
                       \/ \E r \in 0..MaxRetries : queue[r] > 0
                       \/ \E w \in Workers : worker[w].pc # "idle"

(* The run does not stay RUNNING: it ends or it waits for a human.         *)
Settles == run = "RUNNING" ~> run # "RUNNING"

(* The rows implement the life cycle the run promises.                     *)
Lifecycle == INSTANCE AgentRunLifecycle WITH
    status <- run,
    done <- {s \in Steps : result[s] # NoResult},
    active <- IF \E s \in Steps : step[s].status = "RUNNING"
                THEN CHOOSE s \in Steps : step[s].status = "RUNNING" ELSE 0,
    opened <- {s \in Steps : approval[s].status = "APPROVED"}

ImplementsLifecycle == Lifecycle!LSpec
=============================================================================
