------------------------- MODULE AgentRunPlanProofs -------------------------
(***************************************************************************)
(* The results of a run follow its plan, for every number of workers and   *)
(* steps, every plan and every bound.  A worker chooses the step it works  *)
(* on in one transaction and stores the result in a much later one, so the *)
(* invariant speaks of the steps before the one each worker remembers.     *)
(* The second half is about contexts that resolve: results commit whole,   *)
(* claims are respected, ends are final, the rows of a run implement       *)
(* AgentRunLifecycle and, where nothing disturbs the workers, a live run   *)
(* always has somebody responsible for it.                                 *)
(***************************************************************************)
EXTENDS AgentRunProofs

(* The steps before the one a worker works on own their results.           *)
EarlierStored(w) ==
    worker[w].pc \in Writing \union {"restore"} =>
        \A t \in Steps : t < worker[w].next => result[t] # NoResult

PlanInv == ResultsFollowPlan /\ \A w \in Workers : EarlierStored(w)

(* Results are never taken back.                                           *)
Kept == \A s \in Steps : result[s] # NoResult => result'[s] # NoResult

-----------------------------------------------------------------------------
(* A transaction that stores no result and completes no step keeps the     *)
(* plan, as long as it does not complete the run too early.                *)
LEMMA NothingStored ==
    ASSUME ResultsFollowPlan, result' = result,
           \A s \in Steps : step'[s].status = "COMPLETED" => step[s].status = "COMPLETED",
           run' = "COMPLETED" => \A s \in Steps : step'[s].status = "COMPLETED"
    PROVE  ResultsFollowPlan' /\ Kept
  BY DEF ResultsFollowPlan, Kept

LEMMA RowsKept ==
    ASSUME ResultsFollowPlan, UNCHANGED <<run, step, result>>
    PROVE  ResultsFollowPlan' /\ Kept
  BY NothingStored DEF ResultsFollowPlan

(* A worker that did not move still knows of the earlier results.          *)
LEMMA EarlierKept ==
    ASSUME NEW v \in Workers, EarlierStored(v), worker'[v] = worker[v], Kept
    PROVE  EarlierStored(v)'
  BY DEF EarlierStored, Kept

(* A worker that moves on within its step knows what it knew before.       *)
LEMMA EarlierMoved ==
    ASSUME TypeOK, NEW w \in Workers, EarlierStored(w), Kept,
           worker[w].pc \in Writing \union {"restore"}, worker'[w].next = worker[w].next
    PROVE  EarlierStored(w)'
  BY DEF EarlierStored, Kept

LEMMA NothingAhead ==
    ASSUME TypeOK, NEW w \in Workers, NEW label,
           label \in {"load", "state", "after", "complete"},
           Acknowledge(w) \/ Goto(w, label)
    PROVE  EarlierStored(w)'
<1>1. worker'[w].pc \in {"idle", "load", "state", "after", "complete"}
  BY DEF TypeOK, Acknowledge, Goto, Idle, Memory
<1>2. QED
  BY <1>1 DEF EarlierStored, Writing, Frozen, Passed

LEMMA GotoKeepsTarget ==
    ASSUME TypeOK, NEW w \in Workers, NEW label, Goto(w, label)
    PROVE  worker'[w].next = worker[w].next
  BY DEF TypeOK, Goto, Memory

(* A stored result is the next one of the plan.                            *)
LEMMA StoredInOrder ==
    ASSUME TypeOK, GateInv, PlanInv, NEW w \in Workers,
           StoreResult(w), worker[w].pc \in {"commit", "run"}, run' = run
    PROVE  ResultsFollowPlan' /\ Kept
<1>1. PICK s \in Steps : s = worker[w].next
  BY DEF GateInv, MemoryAgrees, Writing, Frozen, Passed, Target
<1>2. worker[w].input # NoInput
  BY DEF GateInv, MemoryAgrees, Frozen, Passed
<1>3. /\ result \in [Steps -> ResultRow]
      /\ result' = [result EXCEPT ![s] = [attempt |-> worker[w].token,
                                          input |-> worker[w].input]]
  BY <1>1 DEF StoreResult, TypeOK, Target
<1>4. result'[s] # NoResult /\ \A t \in Steps \ {s} : result'[t] = result[t]
  BY <1>2, <1>3 DEF NoResult
<1>5. Kept
  BY <1>4 DEF Kept
<1>6. \A t \in Steps : step'[t].status = "COMPLETED" \/ step'[t] = step[t]
  BY <1>1 DEF StoreResult, TypeOK, StepRow, Target
<1>7. \A t \in Steps \ {s} : step'[t] = step[t]
  BY <1>1 DEF StoreResult, TypeOK, Target
<1>8. \A t \in Steps : t < s => result[t] # NoResult
  BY <1>1 DEF PlanInv, EarlierStored, Writing, Frozen, Passed
<1>9. \A t \in Steps : step'[t].status = "COMPLETED" => result'[t] # NoResult
  BY <1>4, <1>7 DEF PlanInv, ResultsFollowPlan
<1>10. \A u, t \in Steps : t < u /\ result'[u] # NoResult => result'[t] # NoResult
  BY <1>4, <1>8 DEF PlanInv, ResultsFollowPlan
<1>11. run' = "COMPLETED" => \A t \in Steps : step'[t].status = "COMPLETED"
  BY <1>6 DEF PlanInv, ResultsFollowPlan
<1>12. QED
  BY <1>5, <1>9, <1>10, <1>11 DEF ResultsFollowPlan

-----------------------------------------------------------------------------
(* The decisions of the HTTP side store nothing.                           *)
LEMMA ApiPlanInv ==
    ASSUME TypeOK, PlanInv, Api
    PROVE  PlanInv'
<1>1. worker' = worker /\ result' = result
  BY DEF Api, Dispatch, DispatchFailed, DispatchLost, Approve, Reject, Expire, Cancel, rows
<1>2. ResultsFollowPlan' /\ Kept
  <2>1. CASE Dispatch \/ DispatchFailed \/ DispatchLost
    BY <2>1, RowsKept DEF Dispatch, DispatchFailed, DispatchLost, rows, PlanInv
  <2>2. ASSUME NEW s \in Steps, Approve(s) \/ Reject(s)
        PROVE  ResultsFollowPlan' /\ Kept
    <3>1. run' # "COMPLETED"
      BY <2>2 DEF Approve, Reject
    <3>2. \A t \in Steps : step'[t].status = "COMPLETED" => step[t].status = "COMPLETED"
      BY <2>2 DEF Approve, Reject, TypeOK, StepRow
    <3>3. QED
      BY <1>1, <3>1, <3>2, NothingStored DEF PlanInv
  <2>3. ASSUME NEW s \in Steps, Expire(s) PROVE ResultsFollowPlan' /\ Kept
    BY <2>3, RowsKept DEF Expire, PlanInv
  <2>4. CASE Cancel
    BY <2>4, NothingStored DEF Cancel, PlanInv
  <2>5. QED
    BY <2>1, <2>2, <2>3, <2>4 DEF Api
<1>3. QED
  BY <1>1, <1>2, EarlierKept DEF PlanInv

(* The transactions of a worker.                                           *)
LEMMA WorkPlanInv ==
    ASSUME TypeOK, GateInv, PlanInv, NEW w \in Workers, Work(w) \/ Crash(w)
    PROVE  PlanInv'
<1>0. /\ worker \in [Workers -> Memory] /\ worker[w] \in Memory
      /\ ResultsFollowPlan /\ EarlierStored(w)
  BY DEF TypeOK, PlanInv
<1>1. SUFFICES ResultsFollowPlan' /\ Kept /\ EarlierStored(w)'
  <2>1. ASSUME NEW v \in Workers \ {w}, Kept PROVE EarlierStored(v)'
    BY <2>1, OthersKept, EarlierKept DEF PlanInv
  <2>2. QED
    BY <2>1 DEF PlanInv
<1>2. CASE Receive(w) \/ AfterResult(w) \/ ReadState(w) \/ Crash(w)
  <2>1. ResultsFollowPlan' /\ Kept
    BY <1>0, <1>2, RowsKept DEF Receive, AfterResult, ReadState, Crash, rows
  <2>2. worker'[w].pc \in {"load", "idle", "complete", "state"}
    <3>1. CASE Receive(w)
      BY <1>0, <3>1 DEF Receive, Idle
    <3>2. CASE AfterResult(w) \/ ReadState(w) \/ Crash(w)
      BY <1>0, <3>2 DEF AfterResult, ReadState, Crash, Goto, Acknowledge, Idle, Memory
    <3>3. QED
      BY <1>2, <3>1, <3>2
  <2>3. QED
    BY <2>1, <2>2 DEF EarlierStored, Writing, Frozen, Passed
<1>3. CASE Load(w)
  <2>1. ResultsFollowPlan' /\ Kept
    BY <1>0, <1>3, RowsKept DEF Load, rows
  <2>2. CASE Goto(w, "state")
    BY <2>1, <2>2, NothingAhead
  <2>3. CASE worker' = [worker EXCEPT ![w] =
                [Idle EXCEPT !.pc = "restore", !.retries = worker[w].retries,
                             !.done = Steps, !.status = "COMPLETED"]]
    <3>1. worker'[w].next = 0
      BY <1>0, <2>3 DEF Idle
    <3>2. \A t \in Steps : ~(t < 0)
      BY DEF Steps
    <3>3. QED
      BY <2>1, <3>1, <3>2 DEF EarlierStored
  <2>4. ASSUME NEW s \in Steps, 1..(s - 1) \subseteq Completed,
               worker' = [worker EXCEPT ![w] =
                  [Idle EXCEPT !.pc = "restore", !.retries = worker[w].retries,
                               !.done = Completed, !.next = s,
                               !.status = step[s].status, !.lease = step[s].lease]]
        PROVE  EarlierStored(w)'
    <3>1. worker'[w].next = s
      BY <1>0, <2>4 DEF Idle
    <3>2. \A t \in Steps : t < s => t \in Completed
      BY <2>4 DEF Steps
    <3>3. \A t \in Completed : result'[t] # NoResult
      BY <1>0, <2>1 DEF Completed, ResultsFollowPlan, Kept
    <3>4. QED
      BY <3>1, <3>2, <3>3 DEF EarlierStored
  <2>5. QED
    BY <1>3, <2>1, <2>2, <2>3, <2>4 DEF Load
<1>4. CASE Restore(w) \/ Compile(w) \/ Gate(w) \/ Resolve(w)
  <2>1. ResultsFollowPlan' /\ Kept
    BY <1>0, <1>4, RowsKept DEF Restore, Compile, Gate, Resolve, rows
  <2>2. CASE Acknowledge(w) \/ RetryLater(w)
    BY <2>1, <2>2, NothingAhead DEF RetryLater
  <2>3. CASE worker'[w].next = worker[w].next
    <3>1. worker[w].pc \in Writing \union {"restore"}
      BY <1>4 DEF Restore, Compile, Gate, Resolve, Writing, Frozen, Passed
    <3>2. QED
      BY <1>0, <2>1, <2>3, <3>1, EarlierMoved
  <2>4. Compile(w) => worker'[w].next = worker[w].next
    BY <1>0 DEF Compile, Goto, Memory
  <2>5. QED
    BY <1>4, <2>2, <2>3, <2>4, GotoKeepsTarget DEF Restore, Gate, Resolve
<1>5. CASE Freeze(w) \/ RequestApproval(w) \/ Claim(w) \/ HandleStepFailure(w) \/ FailRun(w)
  <2>1. PICK s \in Steps : s = worker[w].next
    BY <1>5 DEF Freeze, RequestApproval, Claim, HandleStepFailure, FailRun,
                GateInv, MemoryAgrees, Writing, Frozen, Passed, Target
  <2>2. step \in [Steps -> StepRow] /\ step[s] \in StepRow /\ s = Target(w)
    BY <2>1 DEF TypeOK, Target
  <2>3. Freeze(w) => \A t \in Steps : step'[t].status = step[t].status
    BY <2>2 DEF Freeze, StepRow
  <2>4. \A t \in Steps : step'[t].status = "COMPLETED" => step[t].status = "COMPLETED"
    <3>1. CASE RequestApproval(w) \/ Claim(w)
      BY <2>2, <3>1 DEF RequestApproval, Claim, ClaimedStep, StepRow
    <3>2. CASE HandleStepFailure(w) \/ FailRun(w)
      BY <2>2, <3>2 DEF HandleStepFailure, FailRun, StepRow
    <3>3. QED
      BY <1>5, <2>3, <3>1, <3>2
  <2>5. run' = "COMPLETED" => run = "COMPLETED" /\ (step' = step \/ Freeze(w))
    BY <1>5 DEF Freeze, RequestApproval, Claim, HandleStepFailure, FailRun, Terminal
  <2>6. result' = result
    BY <1>5 DEF Freeze, RequestApproval, Claim, HandleStepFailure, FailRun
  <2>7. ResultsFollowPlan' /\ Kept
    BY <1>0, <2>4, <2>5, <2>3, <2>6, NothingStored DEF ResultsFollowPlan
  <2>8. worker[w].pc \in Writing
    BY <1>5 DEF Freeze, RequestApproval, Claim, HandleStepFailure, FailRun,
                Writing, Frozen, Passed
  <2>9. CASE Acknowledge(w) \/ RetryLater(w) \/ Goto(w, "state")
    BY <2>7, <2>9, NothingAhead DEF RetryLater
  <2>10. CASE worker'[w].next = worker[w].next
    BY <1>0, <2>7, <2>8, <2>10, EarlierMoved
  <2>11. CASE worker' = [worker EXCEPT ![w].pc = IF s \in Local THEN "run" ELSE "resolve",
                                       ![w].token = step[s].attempts + 1]
    BY <1>0, <2>10, <2>11 DEF Memory
  <2>12. QED
    BY <1>5, <2>1, <2>9, <2>10, <2>11, GotoKeepsTarget
    DEF Freeze, RequestApproval, Claim, HandleStepFailure, FailRun, Target
<1>6. CASE CommitResult(w) \/ PersistResult(w)
  <2>1. ResultsFollowPlan' /\ Kept
    <3>1. CASE StoreResult(w)
      BY <1>6, <3>1, StoredInOrder DEF CommitResult, PersistResult
    <3>2. CASE UNCHANGED <<step, result>>
      BY <1>0, <1>6, <3>2, RowsKept DEF CommitResult, PersistResult
    <3>3. QED
      BY <1>6, <3>1, <3>2 DEF CommitResult, PersistResult
  <2>2. CASE Acknowledge(w) \/ StoreResult(w)
    BY <2>1, <2>2, NothingAhead DEF StoreResult
  <2>3. CASE Goto(w, "fail")
    <3>1. worker[w].pc \in Writing
      BY <1>6 DEF CommitResult, PersistResult, Writing, Frozen, Passed
    <3>2. QED
      BY <1>0, <2>1, <2>3, <3>1, EarlierMoved, GotoKeepsTarget
  <2>4. QED
    BY <1>6, <2>1, <2>2, <2>3 DEF CommitResult, PersistResult
<1>7. CASE CompleteRun(w)
  <2>1. EarlierStored(w)'
    BY <1>7, NothingAhead DEF CompleteRun
  <2>2. run' = "COMPLETED" => \A t \in Steps : step'[t].status = "COMPLETED"
    BY <1>0, <1>7 DEF CompleteRun, Completed, ResultsFollowPlan
  <2>3. QED
    BY <1>0, <1>7, <2>1, <2>2, NothingStored DEF CompleteRun
<1>8. QED
  BY <1>2, <1>3, <1>4, <1>5, <1>6, <1>7 DEF Work

(* The invariant holds in every reachable state.                           *)
THEOREM PlanAgreement == Spec => [](TypeOK /\ GateInv /\ PlanInv)
<1>1. Init => PlanInv
  BY DEF Init, PlanInv, ResultsFollowPlan, EarlierStored, Idle, NoResult,
         Writing, Frozen, Passed
<1>2. TypeOK /\ GateInv /\ PlanInv /\ [Next]_vars => PlanInv'
  <2> SUFFICES ASSUME TypeOK, GateInv, PlanInv, [Next]_vars PROVE PlanInv'
      OBVIOUS
  <2>1. CASE UNCHANGED vars
    BY <2>1 DEF vars, PlanInv, ResultsFollowPlan, EarlierStored
  <2>2. CASE Api
    BY <2>2, ApiPlanInv
  <2>3. ASSUME NEW w \in Workers, Work(w) \/ Crash(w) PROVE PlanInv'
    BY <2>3, WorkPlanInv
  <2>4. CASE (\E w \in Workers : Redeliver(w)) \/ Tick \/ ContextDrifts
    <3>1. worker' = worker /\ UNCHANGED rows
      BY <2>4 DEF Redeliver, Tick, ContextDrifts
    <3>2. QED
      BY <3>1 DEF rows, PlanInv, ResultsFollowPlan, EarlierStored
  <2>5. QED
    BY <2>1, <2>2, <2>3, <2>4 DEF Next
<1>3. QED
  BY <1>1, <1>2, Agreement, PTL DEF Spec

(* The results follow the plan, with stale workers, redelivered messages   *)
(* and unfenced failures included: a completed step owns a result, no      *)
(* result is stored before those of the earlier steps, and a run is only   *)
(* COMPLETED while all of its steps are.                                   *)
THEOREM PlanIsFollowed == Spec => []ResultsFollowPlan
  BY PlanAgreement, PTL DEF PlanInv

-----------------------------------------------------------------------------
(***************************************************************************)
(* When the context resolves every reference, a run can only be failed by  *)
(* the worker that holds the claim of the step.  Then every transaction    *)
(* makes one of eight moves on the rows, and the rows implement the life   *)
(* cycle.  The invariant that shows it:                                    *)
(***************************************************************************)
Earlier(s) == \A t \in Steps : t < s => result[t] # NoResult

RowFenced(s) ==
    /\ step[s].status = "COMPLETED" <=> result[s] # NoResult
    /\ step[s].token # 0 => step[s].status = "RUNNING"
    /\ step[s].status = "RUNNING" =>
          run \in {"RUNNING", "CANCELLED"} /\ step[s].frozen # NoInput
    /\ step[s].status = "FAILED" => run = "FAILED"
    /\ step[s].status = "AWAITING_APPROVAL" => approval[s].status # "NONE"
    /\ approval[s].status # "NONE" => s \in Gated
    /\ approval[s].status = "PENDING" => run = "AWAITING_APPROVAL"
    /\ step[s].status = "RUNNING" \/ approval[s].status # "NONE" => Earlier(s)

MemoryFenced(w) ==
    /\ worker[w].status # "FAILED"
    /\ worker[w].pc \in {"gate", "request"} => Target(w) \in Gated
    /\ worker[w].pc = "run" => Target(w) \in Local
    /\ worker[w].pc \in {"resolve", "commit", "run", "fail"} => worker[w].token # 0

RowsFenced ==
    /\ run = "AWAITING_APPROVAL" => \E s \in Steps : step[s].status = "AWAITING_APPROVAL"
    /\ \A s \in Steps : RowFenced(s)

FenceInv == RowsFenced /\ \A w \in Workers : MemoryFenced(w)

(* What is known of a state when a transaction starts.                     *)
Known == TypeOK /\ GateInv /\ PlanInv /\ RowsFenced

(* At most one step runs, and none while a gate is pending.                *)
LEMMA OneRunning ==
    ASSUME Known, NEW s \in Steps, NEW t \in Steps,
           step[s].status = "RUNNING", step[t].status = "RUNNING"
    PROVE  s = t
<1>1. Earlier(s) /\ Earlier(t) /\ result[s] = NoResult /\ result[t] = NoResult
  BY DEF Known, RowsFenced, RowFenced
<1>2. ~(s < t) /\ ~(t < s)
  BY <1>1 DEF Earlier
<1>3. QED
  BY <1>2 DEF Steps

(* A gate that is not open has neither a running step nor a result.        *)
LEMMA ClosedGate ==
    ASSUME Known, NEW s \in Steps, s \in Gated, approval[s].status # "APPROVED"
    PROVE  step[s].status \notin {"RUNNING", "COMPLETED"} /\ result[s] = NoResult
           /\ step[s].token = 0
  BY DEF Known, GateInv, RowsAgree, RowsFenced, RowFenced

(* Before a step whose turn has come no other step runs or waits.          *)
LEMMA MyTurn ==
    ASSUME Known, NEW s \in Steps, Earlier(s), result[s] = NoResult,
           NEW t \in Steps, t # s
    PROVE  step[t].status # "RUNNING" /\ step[t].status # "AWAITING_APPROVAL"
           /\ approval[t].status # "PENDING"
<1>1. CASE t < s
  <2>1. result[t] # NoResult /\ step[t].status = "COMPLETED"
    BY <1>1 DEF Earlier, Known, RowsFenced, RowFenced
  <2>2. approval[t].status = "PENDING" => t \in Gated
    BY DEF Known, RowsFenced, RowFenced
  <2>3. QED
    BY <2>1, <2>2, ClosedGate
<1>2. CASE s < t
  <2>1. ~Earlier(t)
    BY <1>2 DEF Earlier
  <2>2. QED
    BY <2>1 DEF Known, RowsFenced, RowFenced
<1>3. QED
  BY <1>1, <1>2 DEF Steps

-----------------------------------------------------------------------------
(***************************************************************************)
(* The eight moves.                                                        *)
(***************************************************************************)
Alone(s) ==
    \A t \in Steps \ {s} :
        step'[t] = step[t] /\ approval'[t] = approval[t] /\ result'[t] = result[t]

(* No status changes but that of an expired gate.                          *)
Silently ==
    /\ run' = run /\ result' = result
    /\ \A t \in Steps :
          /\ \/ step'[t] = step[t]
             \/ /\ step[t].frozen = NoInput
                /\ step'[t].status = step[t].status /\ step'[t].token = step[t].token
          /\ \/ approval'[t] = approval[t]
             \/ approval[t].status = "PENDING" /\ approval'[t].status = "EXPIRED"

GateOpened(s) ==
    /\ approval[s].status = "PENDING" /\ approval'[s].status = "APPROVED"
    /\ run' = "RUNNING"
    /\ step'[s].status = "PENDING" /\ step'[s].token = step[s].token
    /\ result'[s] = result[s] /\ Alone(s)

RunStopped ==
    /\ run \notin Terminal /\ run' = "CANCELLED" /\ result' = result
    /\ \A t \in Steps :
          /\ \/ step'[t] = step[t]
             \/ /\ approval[t].status = "PENDING"
                /\ step'[t].status = "CANCELLED" /\ step'[t].token = step[t].token
          /\ \/ approval[t].status # "PENDING" /\ approval'[t] = approval[t]
             \/ /\ approval[t].status = "PENDING"
                /\ approval'[t].status \in {"REJECTED", "CANCELLED"}

GateRequested(s) ==
    /\ s \in Gated /\ Earlier(s)
    /\ run \notin Terminal /\ run' = "AWAITING_APPROVAL"
    /\ approval[s].status = "NONE" /\ approval'[s].status = "PENDING"
    /\ step'[s].status = "AWAITING_APPROVAL" /\ step'[s].token = step[s].token
    /\ result'[s] = result[s] /\ Alone(s)

StepClaimed(s) ==
    /\ run = "RUNNING" /\ run' = run /\ Earlier(s) /\ Claimable(s)
    /\ s \in Gated => approval[s].status = "APPROVED"
    /\ step'[s].status = "RUNNING" /\ step'[s].frozen # NoInput
    /\ result'[s] = result[s] /\ approval'[s] = approval[s] /\ Alone(s)

(* The worker that holds the claim of a step gives it up.                  *)
ClaimEnded(w, s) ==
    /\ step[s].status = "RUNNING" /\ worker[w].token = step[s].token
    /\ Target(w) = s /\ worker'[w] # worker[w]
    /\ step'[s].token = 0 /\ approval'[s] = approval[s] /\ Alone(s)

ResultStored(w, s) ==
    /\ ClaimEnded(w, s)
    /\ run' = run /\ (run = "RUNNING" \/ s \in Local)
    /\ step'[s].status = "COMPLETED" /\ result'[s] # NoResult

StepRetried(w, s) ==
    /\ ClaimEnded(w, s)
    /\ run \notin Terminal /\ run' = run
    /\ step'[s].status = "PENDING" /\ result'[s] = result[s]

RunFailed(w, s) ==
    /\ ClaimEnded(w, s)
    /\ run \notin Terminal /\ run' = "FAILED"
    /\ step'[s].status = "FAILED" /\ result'[s] = result[s]

RunFinished ==
    /\ run \notin Terminal /\ run' = "COMPLETED" /\ Completed = Steps
    /\ UNCHANGED <<step, approval, result>>

Move ==
    \/ Silently \/ RunStopped \/ RunFinished
    \/ \E s \in Steps :
          \/ GateOpened(s) \/ GateRequested(s) \/ StepClaimed(s)
          \/ \E w \in Workers : ResultStored(w, s) \/ StepRetried(w, s) \/ RunFailed(w, s)

-----------------------------------------------------------------------------
(* The moves of the HTTP side.                                             *)
LEMMA ApiMoves ==
    ASSUME Known, Api
    PROVE  Move
<1>0. step \in [Steps -> StepRow] /\ approval \in [Steps -> ApprovalRow]
  BY DEF Known, TypeOK
<1>1. CASE Dispatch \/ DispatchFailed \/ DispatchLost
  BY <1>1 DEF Dispatch, DispatchFailed, DispatchLost, rows, Silently, Move
<1>2. ASSUME NEW s \in Steps, Approve(s) PROVE Move
  <2>1. /\ approval' = [approval EXCEPT ![s] = [approval[s] EXCEPT !.status = "APPROVED",
                                                                    !.acted = clock]]
        /\ step' = [step EXCEPT ![s] = [step[s] EXCEPT !.status = "PENDING"]]
    BY <1>0, <1>2, Zenon DEF Approve
  <2>2. approval[s] \in ApprovalRow /\ step[s] \in StepRow
    BY <1>0
  <2>3. GateOpened(s)
    BY <1>0, <1>2, <2>1, <2>2 DEF Approve, GateOpened, Alone, ApprovalRow, StepRow
  <2>4. QED
    BY <2>3 DEF Move
<1>3. ASSUME NEW s \in Steps, Reject(s) PROVE Move
  <2>1. run = "AWAITING_APPROVAL" /\ approval[s].status = "PENDING"
    BY <1>3 DEF Reject, Known, RowsFenced, RowFenced
  <2>2. ASSUME NEW t \in Steps
        PROVE  \/ approval[t].status # "PENDING" /\ approval'[t] = approval[t]
               \/ /\ approval[t].status = "PENDING"
                  /\ approval'[t].status \in {"REJECTED", "CANCELLED"}
    BY <1>0, <1>3 DEF Reject, CancelPendingApprovals, ApprovalRow
  <2>3. ASSUME NEW t \in Steps
        PROVE  \/ step'[t] = step[t]
               \/ t = s /\ step'[t].status = "CANCELLED" /\ step'[t].token = step[t].token
    BY <1>0, <1>3 DEF Reject, StepRow
  <2>4. RunStopped
    BY <1>3, <2>1, <2>2, <2>3 DEF Reject, RunStopped, Terminal
  <2>5. QED
    BY <2>4 DEF Move
<1>4. ASSUME NEW s \in Steps, Expire(s) PROVE Move
  <2>1. ASSUME NEW t \in Steps
        PROVE  \/ approval'[t] = approval[t]
               \/ approval[t].status = "PENDING" /\ approval'[t].status = "EXPIRED"
    BY <1>0, <1>4 DEF Expire, ApprovalRow
  <2>2. QED
    BY <1>4, <2>1 DEF Expire, Silently, Move
<1>5. CASE Cancel
  <2>1. ASSUME NEW t \in Steps
        PROVE  \/ approval[t].status # "PENDING" /\ approval'[t] = approval[t]
               \/ /\ approval[t].status = "PENDING"
                  /\ approval'[t].status \in {"REJECTED", "CANCELLED"}
    BY <1>0, <1>5 DEF Cancel, CancelPendingApprovals, ApprovalRow
  <2>2. QED
    BY <1>5, <2>1 DEF Cancel, RunStopped, Move
<1>6. QED
  BY <1>1, <1>2, <1>3, <1>4, <1>5 DEF Api

(* The moves of a worker.                                                  *)
LEMMA WorkMoves ==
    ASSUME Known, NEW w \in Workers, MemoryFenced(w), Work(w) \/ Crash(w)
    PROVE  Move
<1>0. /\ worker \in [Workers -> Memory] /\ worker[w] \in Memory
      /\ step \in [Steps -> StepRow] /\ approval \in [Steps -> ApprovalRow]
      /\ result \in [Steps -> ResultRow]
      /\ MemoryAgrees(w) /\ EarlierStored(w)
  BY DEF Known, TypeOK, GateInv, PlanInv
<1>1. CASE \/ Receive(w) \/ Load(w) \/ Restore(w) \/ Compile(w) \/ Gate(w) \/ Resolve(w)
           \/ AfterResult(w) \/ ReadState(w) \/ Crash(w)
  <2>1. UNCHANGED rows
    BY <1>1 DEF Receive, Load, Restore, Compile, Gate, Resolve, AfterResult, ReadState, Crash
  <2>2. QED
    BY <2>1 DEF rows, Silently, Move
<1>2. CASE CompleteRun(w)
  <2>1. CASE UNCHANGED run
    BY <1>2, <2>1 DEF CompleteRun, Silently, Move
  <2>2. CASE ~UNCHANGED run
    BY <1>2, <2>2 DEF CompleteRun, RunFinished, Move
  <2>3. QED
    BY <2>1, <2>2
<1>3. CASE \/ Freeze(w) \/ RequestApproval(w) \/ Claim(w) \/ CommitResult(w)
           \/ PersistResult(w) \/ HandleStepFailure(w) \/ FailRun(w)
  <2>0. PICK s \in Steps : s = Target(w)
    BY <1>0, <1>3 DEF MemoryAgrees, Freeze, RequestApproval, Claim, CommitResult,
       PersistResult, HandleStepFailure, FailRun, Writing, Frozen, Passed
  <2>1. step[s] \in StepRow /\ worker[w].pc \in Writing /\ Earlier(s)
    BY <1>0, <1>3, <2>0 DEF EarlierStored, Earlier, Target, Freeze, RequestApproval, Claim,
       CommitResult, PersistResult, HandleStepFailure, FailRun, Writing, Frozen, Passed
  <2>2. CASE Freeze(w)
    <3>1. CASE step' = step
      BY <2>2, <3>1 DEF Freeze, Silently, Move
    <3>2. CASE step' # step
      <4>1. /\ step[s].frozen \in {NoInput, worker[w].input}
            /\ step' = [step EXCEPT ![s].frozen = worker[w].input]
        BY <2>0, <2>2, <3>2 DEF Freeze
      <4>2. step[s].frozen = NoInput \/ step'[s] = step[s]
        BY <1>0, <2>1, <4>1 DEF StepRow
      <4>3. step'[s].status = step[s].status /\ step'[s].token = step[s].token
        BY <1>0, <2>1, <4>1 DEF StepRow
      <4>4. \A t \in Steps \ {s} : step'[t] = step[t]
        BY <1>0, <4>1
      <4>5. QED
        BY <2>2, <4>2, <4>3, <4>4 DEF Freeze, Silently, Move
    <3>3. QED
      BY <3>1, <3>2
  <2>3. CASE RequestApproval(w)
    <3>1. CASE UNCHANGED <<run, step, approval>>
      BY <2>3, <3>1 DEF RequestApproval, Silently, Move
    <3>2. CASE ~UNCHANGED <<run, step, approval>>
      <4>1. s \in Gated
        BY <2>0, <2>3 DEF RequestApproval, MemoryFenced
      <4>2. /\ run \in {"RUNNING", "AWAITING_APPROVAL"} /\ run' = "AWAITING_APPROVAL"
            /\ approval[s].status = "NONE" /\ result' = result
            /\ approval' = [approval EXCEPT ![s] =
                  [status |-> "PENDING", snapshot |-> step[s].frozen,
                   expires |-> clock + ApprovalTTL, acted |-> 0]]
            /\ step' = [step EXCEPT ![s].status = "AWAITING_APPROVAL"]
        BY <2>0, <2>3, <3>2 DEF RequestApproval
      <4>3. /\ approval'[s].status = "PENDING"
            /\ step'[s].status = "AWAITING_APPROVAL" /\ step'[s].token = step[s].token
            /\ Alone(s)
        BY <1>0, <2>1, <4>2 DEF StepRow, Alone
      <4>4. GateRequested(s)
        BY <2>1, <4>1, <4>2, <4>3 DEF GateRequested, Terminal
      <4>5. QED
        BY <4>4 DEF Move
    <3>3. QED
      BY <3>1, <3>2
  <2>4. CASE Claim(w)
    <3>1. CASE UNCHANGED step
      BY <2>4, <3>1 DEF Claim, Silently, Move
    <3>2. CASE ~UNCHANGED step
      <4>1. /\ run = "RUNNING" /\ Claimable(s) /\ step' = [step EXCEPT ![s] = ClaimedStep(s)]
            /\ UNCHANGED <<run, approval, result>> /\ worker[w].pc = "claim"
        BY <2>0, <2>4, <3>2 DEF Claim
      <4>2. step[s].frozen # NoInput /\ (s \in Gated => approval[s].status = "APPROVED")
        BY <1>0, <2>0, <4>1 DEF MemoryAgrees, Frozen, Passed
      <4>3. /\ step'[s].status = "RUNNING" /\ step'[s].frozen = step[s].frozen
            /\ Alone(s)
        BY <1>0, <2>1, <4>1 DEF ClaimedStep, StepRow, Alone
      <4>4. StepClaimed(s)
        BY <2>1, <4>1, <4>2, <4>3 DEF StepClaimed
      <4>5. QED
        BY <4>4 DEF Move
    <3>3. QED
      BY <3>1, <3>2
  <2>5. CASE CommitResult(w) \/ PersistResult(w)
    <3>1. CASE UNCHANGED <<step, result>>
      BY <2>5, <3>1 DEF CommitResult, PersistResult, Silently, Move
    <3>2. CASE ~UNCHANGED <<step, result>>
      <4>1. /\ HoldsClaim(w) /\ StoreResult(w) /\ UNCHANGED <<run, approval>>
            /\ worker[w].pc \in {"commit", "run"}
        BY <2>5, <3>2 DEF CommitResult, PersistResult, LiveScope, Persistable
      <4>2. run = "RUNNING" \/ s \in Local
        BY <2>0, <2>5, <3>2 DEF CommitResult, PersistResult, LiveScope, MemoryFenced
      <4>3. worker[w].input # NoInput
        BY <1>0, <4>1 DEF MemoryAgrees, Frozen, Passed
      <4>4. result'[s] # NoResult
        BY <1>0, <2>0, <4>1, <4>3 DEF StoreResult, NoResult
      <4>5. /\ step'[s].status = "COMPLETED" /\ step'[s].token = 0 /\ Alone(s)
        BY <1>0, <2>0, <2>1, <4>1 DEF StoreResult, StepRow, Alone
      <4>6. worker'[w] # worker[w]
        BY <1>0, <4>1 DEF StoreResult, Goto, Memory
      <4>7. ResultStored(w, s)
        BY <2>0, <4>1, <4>2, <4>4, <4>5, <4>6 DEF ResultStored, ClaimEnded, HoldsClaim
      <4>8. QED
        BY <4>7 DEF Move
    <3>3. QED
      BY <3>1, <3>2
  <2>6. CASE HandleStepFailure(w)
    <3>1. CASE UNCHANGED step
      BY <2>6, <3>1 DEF HandleStepFailure, Silently, Move
    <3>2. CASE ~UNCHANGED step
      <4>1. /\ run \notin Terminal /\ step[s].status = "RUNNING"
            /\ step[s].token = worker[w].token /\ worker[w].pc = "run"
            /\ step' = [step EXCEPT ![s].status = "PENDING", ![s].token = 0, ![s].lease = 0]
            /\ Goto(w, "state") /\ UNCHANGED <<run, approval, result>>
        BY <2>0, <2>6, <3>2 DEF HandleStepFailure
      <4>2. step'[s].status = "PENDING" /\ step'[s].token = 0 /\ Alone(s)
        BY <1>0, <2>1, <4>1 DEF StepRow, Alone
      <4>3. worker'[w] # worker[w]
        BY <1>0, <4>1 DEF Goto, Memory
      <4>4. StepRetried(w, s)
        BY <2>0, <4>1, <4>2, <4>3 DEF StepRetried, ClaimEnded
      <4>5. QED
        BY <4>4 DEF Move
    <3>3. QED
      BY <3>1, <3>2
  <2>7. CASE FailRun(w)
    <3>1. CASE UNCHANGED <<run, step>>
      BY <2>7, <3>1 DEF FailRun, Silently, Move
    <3>2. CASE ~UNCHANGED <<run, step>>
      <4>1. worker[w].token # 0
        BY <2>7 DEF FailRun, MemoryFenced
      <4>2. /\ run \notin Terminal /\ run' = "FAILED"
            /\ step[s].token = worker[w].token /\ worker[w].pc = "fail"
            /\ step' = [step EXCEPT ![s].status = "FAILED", ![s].token = 0, ![s].lease = 0]
            /\ Goto(w, "state") /\ UNCHANGED <<approval, result>>
        BY <2>0, <2>7, <3>2, <4>1 DEF FailRun
      <4>3. step'[s].status = "FAILED" /\ step'[s].token = 0 /\ Alone(s)
        BY <1>0, <2>1, <4>2 DEF StepRow, Alone
      <4>4. worker'[w] # worker[w]
        BY <1>0, <4>2 DEF Goto, Memory
      <4>5. step[s].status = "RUNNING"
        BY <4>1, <4>2 DEF Known, RowsFenced, RowFenced
      <4>6. RunFailed(w, s)
        BY <2>0, <4>2, <4>3, <4>4, <4>5 DEF RunFailed, ClaimEnded
      <4>7. QED
        BY <4>6 DEF Move
    <3>3. QED
      BY <3>1, <3>2
  <2>8. QED
    BY <1>3, <2>2, <2>3, <2>4, <2>5, <2>6, <2>7
<1>4. QED
  BY <1>1, <1>2, <1>3 DEF Work

LEMMA NextMoves ==
    ASSUME Known, FenceInv, [Next]_vars
    PROVE  Move
<1>1. CASE Api
  BY <1>1, ApiMoves
<1>2. ASSUME NEW w \in Workers, Work(w) \/ Crash(w) PROVE Move
  BY <1>2, WorkMoves DEF FenceInv
<1>3. CASE UNCHANGED vars \/ (\E w \in Workers : Redeliver(w)) \/ Tick \/ ContextDrifts
  <2>1. UNCHANGED rows
    BY <1>3 DEF vars, rows, Redeliver, Tick, ContextDrifts
  <2>2. QED
    BY <2>1 DEF rows, Silently, Move
<1>4. QED
  BY <1>1, <1>2, <1>3 DEF Next

-----------------------------------------------------------------------------
(* A step that a move leaves alone stays fenced, if the new status of the  *)
(* run allows the state it is in.                                          *)
LEMMA AloneFenced ==
    ASSUME NEW s \in Steps, NEW t \in Steps \ {s}, RowFenced(t), Alone(s), Kept,
           step[t].status = "RUNNING" => run' \in {"RUNNING", "CANCELLED"},
           step[t].status = "FAILED" => run' = "FAILED",
           approval[t].status = "PENDING" => run' = "AWAITING_APPROVAL"
    PROVE  RowFenced(t)'
<1>1. Earlier(t) => Earlier(t)'
  BY DEF Earlier, Kept
<1>2. step'[t] = step[t] /\ approval'[t] = approval[t] /\ result'[t] = result[t]
  BY DEF Alone
<1>3. QED
  BY <1>1, <1>2 DEF RowFenced

(* Every move keeps the rows fenced.                                       *)
LEMMA MovesKeepRows ==
    ASSUME Known, Move
    PROVE  RowsFenced'
<1>0. \A t \in Steps : RowFenced(t)
  BY DEF Known, RowsFenced
<1>1. CASE Silently
  <2>1. ASSUME NEW t \in Steps PROVE RowFenced(t)'
    <3>1. Earlier(t) => Earlier(t)'
      BY <1>1 DEF Silently, Earlier
    <3>2. QED
      BY <1>0, <1>1, <3>1 DEF Silently, RowFenced
  <2>2. \A t \in Steps : step'[t].status = step[t].status
    BY <1>1 DEF Silently
  <2>3. QED
    BY <1>1, <2>1, <2>2 DEF Silently, Known, RowsFenced
<1>2. CASE RunStopped
  <2>1. ASSUME NEW t \in Steps PROVE RowFenced(t)'
    <3>1. Earlier(t) => Earlier(t)'
      BY <1>2 DEF RunStopped, Earlier
    <3>2. run # "FAILED" /\ run' = "CANCELLED" /\ result' = result
      BY <1>2 DEF RunStopped, Terminal
    <3>3. CASE step'[t] = step[t]
      BY <1>0, <1>2, <3>1, <3>2, <3>3 DEF RunStopped, RowFenced
    <3>4. CASE /\ approval[t].status = "PENDING"
               /\ step'[t].status = "CANCELLED" /\ step'[t].token = step[t].token
      <4>1. t \in Gated
        BY <1>0, <3>4 DEF RowFenced
      <4>2. result[t] = NoResult /\ step[t].token = 0
        BY <3>4, <4>1, ClosedGate
      <4>3. approval'[t].status \in {"REJECTED", "CANCELLED"}
        BY <1>2, <3>4 DEF RunStopped
      <4>4. Earlier(t)'
        BY <1>0, <3>1, <3>4 DEF RowFenced
      <4>5. QED
        BY <3>2, <3>4, <4>1, <4>2, <4>3, <4>4 DEF RowFenced
    <3>5. QED
      BY <1>2, <3>3, <3>4 DEF RunStopped
  <2>2. QED
    BY <1>2, <2>1 DEF RunStopped, RowsFenced
<1>3. CASE RunFinished
  <2>1. ASSUME NEW t \in Steps PROVE RowFenced(t)'
    <3>1. step[t].status = "COMPLETED"
      BY <1>3 DEF RunFinished, Completed
    <3>2. t \in Gated => approval[t].status = "APPROVED"
      BY <3>1, ClosedGate
    <3>3. approval[t].status # "PENDING"
      BY <1>0, <3>2 DEF RowFenced
    <3>4. Earlier(t) => Earlier(t)'
      BY <1>3 DEF RunFinished, Earlier
    <3>5. QED
      BY <1>0, <1>3, <3>1, <3>3, <3>4 DEF RunFinished, RowFenced
  <2>2. QED
    BY <1>3, <2>1 DEF RunFinished, RowsFenced
<1>4. ASSUME NEW s \in Steps, GateOpened(s) PROVE RowsFenced'
  <2>1. s \in Gated /\ Earlier(s) /\ run = "AWAITING_APPROVAL"
    BY <1>0, <1>4 DEF GateOpened, RowFenced
  <2>2. result[s] = NoResult /\ step[s].token = 0
    BY <1>4, <2>1, ClosedGate DEF GateOpened
  <2>3. Kept
    BY <1>4 DEF GateOpened, Alone, Kept
  <2>4. RowFenced(s)'
    <3>1. Earlier(s)'
      BY <2>1, <2>3 DEF Earlier, Kept
    <3>2. QED
      BY <1>4, <2>1, <2>2, <3>1 DEF GateOpened, RowFenced
  <2>5. ASSUME NEW t \in Steps \ {s} PROVE RowFenced(t)'
    <3>1. approval[t].status # "PENDING"
      BY <2>1, <2>2, MyTurn
    <3>2. QED
      BY <1>0, <1>4, <2>1, <2>3, <3>1, AloneFenced DEF GateOpened, RowFenced
  <2>6. QED
    BY <1>4, <2>4, <2>5 DEF GateOpened, RowsFenced
<1>5. ASSUME NEW s \in Steps, GateRequested(s) PROVE RowsFenced'
  <2>1. s \in Gated /\ Earlier(s) /\ result[s] = NoResult /\ step[s].token = 0
    BY <1>5, ClosedGate DEF GateRequested
  <2>2. Kept
    BY <1>5 DEF GateRequested, Alone, Kept
  <2>3. RowFenced(s)'
    <3>1. Earlier(s)'
      BY <2>1, <2>2 DEF Earlier, Kept
    <3>2. QED
      BY <1>5, <2>1, <3>1 DEF GateRequested, RowFenced
  <2>4. ASSUME NEW t \in Steps \ {s} PROVE RowFenced(t)'
    <3>1. step[t].status # "RUNNING"
      BY <2>1, MyTurn
    <3>2. step[t].status # "FAILED"
      BY <1>0, <1>5 DEF GateRequested, RowFenced, Terminal
    <3>3. QED
      BY <1>0, <1>5, <2>2, <3>1, <3>2, AloneFenced DEF GateRequested
  <2>5. QED
    BY <1>5, <2>3, <2>4 DEF GateRequested, RowsFenced
<1>6. ASSUME NEW s \in Steps, StepClaimed(s) PROVE RowsFenced'
  <2>1. Kept
    BY <1>6 DEF StepClaimed, Alone, Kept
  <2>2. RowFenced(s)'
    <3>1. Earlier(s)'
      BY <1>6, <2>1 DEF StepClaimed, Earlier, Kept
    <3>2. result[s] = NoResult
      BY <1>0, <1>6 DEF StepClaimed, Claimable, RowFenced
    <3>3. QED
      BY <1>0, <1>6, <3>1, <3>2 DEF StepClaimed, RowFenced
  <2>3. ASSUME NEW t \in Steps \ {s} PROVE RowFenced(t)'
    <3>1. step[t].status # "FAILED" /\ approval[t].status # "PENDING"
      BY <1>0, <1>6 DEF StepClaimed, RowFenced
    <3>2. QED
      BY <1>0, <1>6, <2>1, <3>1, AloneFenced DEF StepClaimed
  <2>4. QED
    BY <1>6, <2>2, <2>3 DEF StepClaimed, RowsFenced
<1>7. ASSUME NEW s \in Steps, NEW w \in Workers,
             ResultStored(w, s) \/ StepRetried(w, s)
      PROVE  RowsFenced'
  <2>1. Kept
    BY <1>7 DEF ResultStored, StepRetried, ClaimEnded, Alone, Kept
  <2>2. step[s].status = "RUNNING" /\ result[s] = NoResult /\ run' = run
    BY <1>0, <1>7 DEF ResultStored, StepRetried, ClaimEnded, RowFenced
  <2>3. RowFenced(s)'
    <3>1. Earlier(s)'
      BY <1>0, <2>1, <2>2 DEF RowFenced, Earlier, Kept
    <3>2. QED
      BY <1>0, <1>7, <2>2, <3>1 DEF ResultStored, StepRetried, ClaimEnded, RowFenced
  <2>4. ASSUME NEW t \in Steps \ {s} PROVE RowFenced(t)'
    BY <1>0, <1>7, <2>1, <2>2, AloneFenced
    DEF ResultStored, StepRetried, ClaimEnded, RowFenced
  <2>5. run \in {"RUNNING", "CANCELLED"}
    BY <1>0, <2>2 DEF RowFenced
  <2>6. QED
    BY <2>2, <2>3, <2>4, <2>5 DEF RowsFenced
<1>8. ASSUME NEW s \in Steps, NEW w \in Workers, RunFailed(w, s) PROVE RowsFenced'
  <2>1. Kept
    BY <1>8 DEF RunFailed, ClaimEnded, Alone, Kept
  <2>2. /\ step[s].status = "RUNNING" /\ result[s] = NoResult
        /\ run = "RUNNING" /\ run' = "FAILED"
    BY <1>0, <1>8 DEF RunFailed, ClaimEnded, RowFenced, Terminal
  <2>3. RowFenced(s)'
    <3>1. Earlier(s)'
      BY <1>0, <2>1, <2>2 DEF RowFenced, Earlier, Kept
    <3>2. QED
      BY <1>0, <1>8, <2>2, <3>1 DEF RunFailed, ClaimEnded, RowFenced
  <2>4. ASSUME NEW t \in Steps \ {s} PROVE RowFenced(t)'
    <3>1. step[t].status # "RUNNING"
      BY <2>2, OneRunning
    <3>2. approval[t].status # "PENDING"
      BY <1>0, <2>2 DEF RowFenced
    <3>3. QED
      BY <1>0, <1>8, <2>1, <2>2, <3>1, <3>2, AloneFenced DEF RunFailed, ClaimEnded
  <2>5. QED
    BY <2>2, <2>3, <2>4 DEF RowsFenced
<1>9. QED
  BY <1>1, <1>2, <1>3, <1>4, <1>5, <1>6, <1>7, <1>8 DEF Move

-----------------------------------------------------------------------------
(* What a worker remembers when it moves on within its step.               *)
LEMMA GotoFenced ==
    ASSUME TypeOK, NEW w \in Workers, MemoryFenced(w), NEW label, Goto(w, label),
           label \in {"gate", "request"} => Target(w) \in Gated,
           label = "run" => Target(w) \in Local,
           label \in {"resolve", "commit", "run", "fail"} => worker[w].token # 0
    PROVE  MemoryFenced(w)'
  BY DEF TypeOK, Memory, Goto, MemoryFenced, Target

LEMMA AcknowledgeFenced ==
    ASSUME TypeOK, NEW w \in Workers, Acknowledge(w) \/ RetryLater(w)
    PROVE  MemoryFenced(w)'
  BY DEF TypeOK, Acknowledge, RetryLater, Idle, MemoryFenced

(* A worker fails a run only with the token of its claim.                  *)
LEMMA WorkMemory ==
    ASSUME ~ContextMayFail, Known, NEW w \in Workers, MemoryFenced(w),
           Work(w) \/ Crash(w)
    PROVE  MemoryFenced(w)'
<1>0. TypeOK /\ worker \in [Workers -> Memory] /\ worker[w] \in Memory
  BY DEF Known, TypeOK
<1>1. CASE Receive(w)
  BY <1>0, <1>1 DEF Receive, Idle, MemoryFenced
<1>2. CASE Load(w)
  <2>1. CASE Goto(w, "state")
    BY <1>0, <2>1, GotoFenced
  <2>2. CASE worker' = [worker EXCEPT ![w] =
                [Idle EXCEPT !.pc = "restore", !.retries = worker[w].retries,
                             !.done = Steps, !.status = "COMPLETED"]]
    BY <1>0, <2>2 DEF Idle, MemoryFenced
  <2>3. ASSUME run = "RUNNING", NEW s \in Steps,
               worker' = [worker EXCEPT ![w] =
                  [Idle EXCEPT !.pc = "restore", !.retries = worker[w].retries,
                               !.done = Completed, !.next = s,
                               !.status = step[s].status, !.lease = step[s].lease]]
        PROVE  MemoryFenced(w)'
    <3>1. step[s].status # "FAILED"
      BY <2>3 DEF Known, RowsFenced, RowFenced
    <3>2. QED
      BY <1>0, <2>3, <3>1 DEF Idle, MemoryFenced
  <2>4. QED
    BY <1>2, <2>1, <2>2, <2>3 DEF Load
<1>3. CASE Restore(w)
  <2>1. CASE Goto(w, "complete") \/ Goto(w, "compile")
    BY <1>0, <2>1, GotoFenced
  <2>2. worker[w].status # "FAILED"
    BY DEF MemoryFenced
  <2>3. QED
    BY <1>0, <1>3, <2>1, <2>2, AcknowledgeFenced DEF Restore
<1>4. CASE Compile(w)
  <2>1. worker' = [worker EXCEPT ![w].pc = "freeze", ![w].input = context]
    BY <1>4 DEF Compile
  <2>2. worker'[w].pc = "freeze" /\ worker'[w].status = worker[w].status
    BY <1>0, <2>1 DEF Memory
  <2>3. QED
    BY <2>2 DEF MemoryFenced
<1>5. CASE Freeze(w)
  <2>1. CASE Goto(w, IF Target(w) \in Gated THEN "gate" ELSE "claim")
    BY <1>0, <2>1, GotoFenced
  <2>2. QED
    BY <1>0, <1>5, <2>1, AcknowledgeFenced DEF Freeze
<1>6. CASE Gate(w) \/ RequestApproval(w)
  <2>1. Target(w) \in Gated
    BY <1>6 DEF Gate, RequestApproval, MemoryFenced
  <2>2. CASE Goto(w, "claim") \/ Goto(w, "request") \/ Goto(w, "state")
    BY <1>0, <2>1, <2>2, GotoFenced
  <2>3. QED
    BY <1>0, <1>6, <2>2, AcknowledgeFenced DEF Gate, RequestApproval
<1>7. CASE Claim(w)
  <2>1. CASE Goto(w, "state")
    BY <1>0, <2>1, GotoFenced
  <2>2. CASE worker' = [worker EXCEPT
                   ![w].pc = IF Target(w) \in Local THEN "run" ELSE "resolve",
                   ![w].token = step[Target(w)].attempts + 1]
    <3>1. Target(w) \in Steps
      BY <1>7 DEF Claim, Known, GateInv, MemoryAgrees, Writing, Frozen, Passed
    <3>2. step[Target(w)].attempts + 1 # 0
      BY <1>0, <3>1 DEF TypeOK, StepRow
    <3>3. /\ worker'[w].pc = IF Target(w) \in Local THEN "run" ELSE "resolve"
          /\ worker'[w].token = step[Target(w)].attempts + 1
          /\ worker'[w].next = worker[w].next /\ worker'[w].status = worker[w].status
      BY <1>0, <2>2 DEF Memory
    <3>4. QED
      BY <3>2, <3>3 DEF MemoryFenced, Target
  <2>3. QED
    BY <1>0, <1>7, <2>1, <2>2, AcknowledgeFenced DEF Claim
<1>8. CASE \/ Resolve(w) \/ CommitResult(w) \/ PersistResult(w)
           \/ HandleStepFailure(w) \/ FailRun(w)
  <2>1. worker[w].token # 0
    BY <1>8 DEF Resolve, CommitResult, PersistResult, HandleStepFailure, FailRun,
                MemoryFenced
  <2>2. CASE \E label \in {"commit", "fail", "after", "state"} : Goto(w, label)
    BY <1>0, <2>1, <2>2, GotoFenced
  <2>3. QED
    BY <1>0, <1>8, <2>2, AcknowledgeFenced
    DEF Resolve, CommitResult, PersistResult, StoreResult, HandleStepFailure, FailRun
<1>9. CASE AfterResult(w) \/ CompleteRun(w) \/ ReadState(w) \/ Crash(w)
  <2>1. CASE \E label \in {"complete", "state", "load"} : Goto(w, label)
    BY <1>0, <2>1, GotoFenced
  <2>2. QED
    BY <1>0, <1>9, <2>1, AcknowledgeFenced
    DEF AfterResult, CompleteRun, ReadState, Crash
<1>10. QED
  BY <1>1, <1>2, <1>3, <1>4, <1>5, <1>6, <1>7, <1>8, <1>9 DEF Work

LEMMA StepMemory ==
    ASSUME ~ContextMayFail, Known, FenceInv, [Next]_vars, NEW v \in Workers
    PROVE  MemoryFenced(v)'
<1>1. MemoryFenced(v)
  BY DEF FenceInv
<1>2. CASE worker'[v] = worker[v]
  BY <1>1, <1>2 DEF MemoryFenced, Target
<1>3. CASE Work(v) \/ Crash(v)
  BY <1>1, <1>3, WorkMemory
<1>4. ASSUME NEW w \in Workers \ {v}, Work(w) \/ Crash(w)
      PROVE  MemoryFenced(v)'
  BY <1>2, <1>4, OthersKept DEF Known
<1>5. CASE Api
  BY <1>2, <1>5 DEF Api, Dispatch, DispatchFailed, DispatchLost, Approve, Reject,
                    Expire, Cancel
<1>6. CASE UNCHANGED vars \/ (\E w \in Workers : Redeliver(w)) \/ Tick \/ ContextDrifts
  BY <1>2, <1>6 DEF vars, Redeliver, Tick, ContextDrifts
<1>7. QED
  BY <1>3, <1>4, <1>5, <1>6 DEF Next

(* The invariant holds in every reachable state.                           *)
THEOREM FencedAgreement ==
    ASSUME ~ContextMayFail
    PROVE  Spec => [](Known /\ FenceInv)
<1>1. Init => FenceInv
  <2>1. Init => RowsFenced
    BY DEF Init, RowsFenced, RowFenced, NoApproval, NoResult
  <2>2. Init => \A w \in Workers : MemoryFenced(w)
    BY DEF Init, MemoryFenced, Idle
  <2>3. QED
    BY <2>1, <2>2 DEF FenceInv
<1>2. TypeOK /\ GateInv /\ PlanInv /\ FenceInv /\ [Next]_vars => FenceInv'
  <2> SUFFICES ASSUME TypeOK, GateInv, PlanInv, FenceInv, [Next]_vars PROVE FenceInv'
      OBVIOUS
  <2>1. Known
    BY DEF Known, FenceInv
  <2>2. RowsFenced'
    BY <2>1, NextMoves, MovesKeepRows
  <2>3. \A w \in Workers : MemoryFenced(w)'
    BY <2>1, StepMemory
  <2>4. QED
    BY <2>2, <2>3 DEF FenceInv
<1>3. TypeOK /\ GateInv /\ PlanInv /\ FenceInv => Known
  BY DEF Known, FenceInv
<1>4. QED
  BY <1>1, <1>2, <1>3, PlanAgreement, PTL DEF Spec

(* No half commit: with a context that resolves, a step is COMPLETED       *)
(* exactly when it owns a result, so no transaction fails or retries a     *)
(* step whose result is stored, and none completes a step without one.     *)
THEOREM NothingHalfCommitted ==
    ASSUME ~ContextMayFail
    PROVE  Spec => []NoHalfCommit
<1>1. Known => NoHalfCommit
  BY DEF Known, RowsFenced, RowFenced, NoHalfCommit
<1>2. QED
  BY <1>1, FencedAgreement, PTL

(* An end is an end: no late decision at a gate, no late failure of a      *)
(* worker and no late result changes the status of a run that has ended.   *)
THEOREM EndIsFinal ==
    ASSUME ~ContextMayFail
    PROVE  Spec => TerminalIsFinal
<1>1. Known /\ FenceInv /\ [Next]_vars => [(run \in Terminal) => run' = run]_vars
  <2> SUFFICES ASSUME Known, FenceInv, [Next]_vars, run \in Terminal PROVE run' = run
      OBVIOUS
  <2>1. Move
    BY NextMoves
  <2>2. ASSUME NEW s \in Steps PROVE ~GateOpened(s)
    BY <2>2 DEF GateOpened, Known, RowsFenced, RowFenced, Terminal
  <2>3. QED
    BY <2>1, <2>2 DEF Move, Silently, RunStopped, RunFinished, GateRequested,
       StepClaimed, ResultStored, StepRetried, RunFailed
<1>2. QED
  BY <1>1, FencedAgreement, PTL DEF Spec, TerminalIsFinal

(* The lease: while it is active, only the worker that holds the token     *)
(* moves the step.  A gate cannot be decided or requested for a running    *)
(* step, its input is frozen already, and every other writer asks for the  *)
(* token or for a lease that has run out.                                  *)
THEOREM LeaseIsRespected ==
    ASSUME ~ContextMayFail
    PROVE  Spec => LeaseRespected
<1> DEFINE Respected ==
        \A s \in Steps :
            step[s].status = "RUNNING" /\ LeaseActive(step[s].lease) /\ step'[s] # step[s] =>
                \E w \in Workers : /\ worker[w].token = step[s].token
                                   /\ Target(w) = s
                                   /\ worker'[w] # worker[w]
<1>1. Known /\ FenceInv /\ [Next]_vars => Respected
  <2> SUFFICES ASSUME Known, FenceInv, [Next]_vars, NEW s \in Steps,
                      step[s].status = "RUNNING", LeaseActive(step[s].lease),
                      step'[s] # step[s]
               PROVE  \E w \in Workers : /\ worker[w].token = step[s].token
                                         /\ Target(w) = s
                                         /\ worker'[w] # worker[w]
      OBVIOUS
  <2>1. Move
    BY NextMoves
  <2>2. step[s].frozen # NoInput
    BY DEF Known, RowsFenced, RowFenced
  <2>3. approval[s].status \notin {"PENDING", "NONE"} \/ s \notin Gated
    BY ClosedGate
  <2>4. approval[s].status # "PENDING"
    BY <2>3 DEF Known, RowsFenced, RowFenced
  <2>5. ~Silently /\ ~RunStopped /\ ~RunFinished
    BY <2>2, <2>4 DEF Silently, RunStopped, RunFinished
  <2>6. ASSUME NEW t \in Steps, Alone(t) PROVE t = s
    BY <2>6 DEF Alone
  <2>7. ASSUME NEW t \in Steps, GateOpened(t) \/ GateRequested(t) \/ StepClaimed(t)
        PROVE  FALSE
    <3>1. t = s
      BY <2>6, <2>7 DEF GateOpened, GateRequested, StepClaimed
    <3>2. QED
      BY <2>3, <2>4, <2>7, <3>1 DEF GateOpened, GateRequested, StepClaimed, Claimable
  <2>8. PICK t \in Steps, w \in Workers :
            ResultStored(w, t) \/ StepRetried(w, t) \/ RunFailed(w, t)
    BY <2>1, <2>5, <2>7 DEF Move
  <2>9. ClaimEnded(w, t)
    BY <2>8 DEF ResultStored, StepRetried, RunFailed
  <2>10. QED
    BY <2>6, <2>9 DEF ClaimEnded
<1>2. QED
  BY <1>1, FencedAgreement, PTL DEF Spec, LeaseRespected

-----------------------------------------------------------------------------
(***************************************************************************)
(* The refinement: every move is a step of the life cycle or a stutter.    *)
(***************************************************************************)
(* The step being executed, read off the rows.                             *)
Active(f) ==
    IF \E s \in Steps : f[s].status = "RUNNING"
      THEN CHOOSE s \in Steps : f[s].status = "RUNNING" ELSE 0

Done == {s \in Steps : result[s] # NoResult}
Open == {s \in Steps : approval[s].status = "APPROVED"}

LEMMA ActiveStep ==
    ASSUME NEW f, NEW s \in Steps, f[s].status = "RUNNING",
           \A t \in Steps : f[t].status = "RUNNING" => t = s
    PROVE  Active(f) = s
<1>1. Active(f) \in Steps /\ f[Active(f)].status = "RUNNING"
  BY DEF Active
<1>2. QED
  BY <1>1

LEMMA NoActiveStep ==
    ASSUME NEW f, \A t \in Steps : f[t].status # "RUNNING"
    PROVE  Active(f) = 0
  BY DEF Active

(* The active step only depends on which steps run.                        *)
LEMMA SameActive ==
    ASSUME Known, \A t \in Steps : step'[t].status = "RUNNING" <=> step[t].status = "RUNNING"
    PROVE  Active(step') = Active(step)
<1>1. CASE \A t \in Steps : step[t].status # "RUNNING"
  <2>1. Active(step) = 0
    BY <1>1, NoActiveStep
  <2>2. Active(step') = 0
    BY <1>1, NoActiveStep
  <2>3. QED
    BY <2>1, <2>2
<1>2. ASSUME NEW s \in Steps, step[s].status = "RUNNING"
      PROVE  Active(step') = Active(step)
  <2>1. \A t \in Steps : step[t].status = "RUNNING" => t = s
    BY <1>2, OneRunning
  <2>2. Active(step) = s
    BY <1>2, <2>1, ActiveStep
  <2>3. Active(step') = s
    BY <1>2, <2>1, ActiveStep
  <2>4. QED
    BY <2>2, <2>3
<1>3. QED
  BY <1>1, <1>2

(* A step whose turn has come is the next one of the plan.                 *)
LEMMA TurnIsNext ==
    ASSUME Known, NEW s \in Steps, Earlier(s), result[s] = NoResult
    PROVE  \A t \in 1..NSteps : t \in Done <=> t < s
<1>1. \A t \in Steps : s < t => result[t] = NoResult
  BY DEF Known, PlanInv, ResultsFollowPlan
<1>2. QED
  BY <1>1 DEF Earlier, Done, Steps

(* The active step is the running one, and nothing is active before a step *)
(* whose turn has come.                                                    *)
LEMMA RunningIsActive ==
    ASSUME Known, NEW s \in Steps, step[s].status = "RUNNING"
    PROVE  Active(step) = s /\ s # 0
<1>1. \A t \in Steps : step[t].status = "RUNNING" => t = s
  BY OneRunning
<1>2. QED
  BY <1>1, ActiveStep DEF Steps

LEMMA NothingActive ==
    ASSUME Known, NEW s \in Steps, Earlier(s), result[s] = NoResult,
           step[s].status # "RUNNING"
    PROVE  Active(step) = 0
<1>1. \A t \in Steps : step[t].status # "RUNNING"
  BY MyTurn
<1>2. QED
  BY <1>1, NoActiveStep

(* The life cycle, written over the rows.                                  *)
LifecycleStep ==
    \/ \E s \in Steps : Lifecycle!Start(s) \/ Lifecycle!Pause(s) \/ Lifecycle!Open(s)
    \/ Lifecycle!Retry \/ Lifecycle!Store \/ Lifecycle!Finish
    \/ Lifecycle!Fail \/ Lifecycle!Stop

Unseen ==
    run' = run /\ Done' = Done /\ Active(step') = Active(step) /\ Open' = Open

LEMMA MoveIsLifecycle ==
    ASSUME Known, Move
    PROVE  LifecycleStep \/ Unseen
<1>0. \A t \in Steps : RowFenced(t)
  BY DEF Known, RowsFenced
<1>1. CASE Silently
  <2>1. Active(step') = Active(step)
    BY <1>1, SameActive DEF Silently
  <2>2. Open' = Open /\ Done' = Done
    BY <1>1 DEF Silently, Open, Done
  <2>3. QED
    BY <1>1, <2>1, <2>2 DEF Silently, Unseen
<1>2. CASE RunStopped
  <2>1. ASSUME NEW t \in Steps
        PROVE  step'[t].status = "RUNNING" <=> step[t].status = "RUNNING"
    <3>1. approval[t].status = "PENDING" => step[t].status # "RUNNING"
      BY <1>0, ClosedGate DEF RowFenced
    <3>2. QED
      BY <1>2, <3>1 DEF RunStopped
  <2>2. Active(step') = Active(step)
    BY <2>1, SameActive
  <2>3. Open' = Open /\ Done' = Done
    BY <1>2 DEF RunStopped, Open, Done
  <2>4. run \in {"RUNNING", "AWAITING_APPROVAL"}
    BY <1>2 DEF RunStopped, Known, TypeOK, RunStatus
  <2>5. Lifecycle!Stop
    BY <1>2, <2>2, <2>3, <2>4 DEF RunStopped, Lifecycle!Stop, Active, Open, Done
  <2>6. QED
    BY <2>5 DEF LifecycleStep
<1>3. CASE RunFinished
  <2>1. \A t \in Steps : step[t].status = "COMPLETED"
    BY <1>3 DEF RunFinished, Completed
  <2>2. run = "RUNNING"
    <3>1. run # "AWAITING_APPROVAL"
      BY <2>1 DEF Known, RowsFenced
    <3>2. QED
      BY <1>3, <3>1 DEF RunFinished, Known, TypeOK, RunStatus
  <2>3. Done = 1..NSteps
    BY <1>0, <2>1 DEF RowFenced, Done, Steps
  <2>4. Lifecycle!Finish
    BY <1>3, <2>2, <2>3 DEF RunFinished, Lifecycle!Finish, Done
  <2>5. QED
    BY <2>4 DEF LifecycleStep
<1>4. ASSUME NEW s \in Steps, GateOpened(s) PROVE LifecycleStep
  <2>1. s \in Gated /\ Earlier(s) /\ run = "AWAITING_APPROVAL"
    BY <1>0, <1>4 DEF GateOpened, RowFenced
  <2>2. result[s] = NoResult /\ step[s].status # "RUNNING"
    BY <1>4, <2>1, ClosedGate DEF GateOpened
  <2>3. \A t \in 1..NSteps : t \in Done <=> t < s
    BY <2>1, <2>2, TurnIsNext
  <2>4. Active(step') = Active(step)
    <3>1. \A t \in Steps : step'[t].status = "RUNNING" <=> step[t].status = "RUNNING"
      BY <1>4, <2>2 DEF GateOpened, Alone
    <3>2. QED
      BY <3>1, SameActive
  <2>5. Done' = Done /\ Open' = Open \union {s}
    BY <1>4 DEF GateOpened, Alone, Done, Open
  <2>6. Lifecycle!Open(s)
    BY <1>4, <2>1, <2>3, <2>4, <2>5
    DEF GateOpened, Lifecycle!Open, Lifecycle!IsNext, Active, Done, Open
  <2>7. QED
    BY <2>6 DEF LifecycleStep
<1>5. ASSUME NEW s \in Steps, GateRequested(s) PROVE LifecycleStep
  <2>1. /\ s \in Gated /\ Earlier(s) /\ s \notin Open
        /\ result[s] = NoResult /\ step[s].status # "RUNNING"
    BY <1>5, ClosedGate DEF GateRequested, Open
  <2>2. \A t \in 1..NSteps : t \in Done <=> t < s
    BY <2>1, TurnIsNext
  <2>3. Active(step) = 0
    BY <2>1, NothingActive
  <2>4. \A t \in Steps : step'[t].status = "RUNNING" <=> step[t].status = "RUNNING"
    BY <1>5, <2>1 DEF GateRequested, Alone
  <2>5. Active(step') = Active(step)
    BY <2>4, SameActive
  <2>6. run = "RUNNING"
    <3>1. step[s].status # "AWAITING_APPROVAL"
      BY <1>0, <1>5 DEF GateRequested, RowFenced
    <3>2. \A t \in Steps : step[t].status # "AWAITING_APPROVAL"
      BY <2>1, <3>1, MyTurn
    <3>3. QED
      BY <1>5, <3>2 DEF GateRequested, Known, RowsFenced, TypeOK, RunStatus
  <2>7. Done' = Done /\ Open' = Open
    BY <1>5 DEF GateRequested, Alone, Done, Open
  <2>8. Lifecycle!Pause(s)
    BY <1>5, <2>1, <2>2, <2>3, <2>5, <2>6, <2>7
    DEF GateRequested, Lifecycle!Pause, Lifecycle!IsNext, Active, Done, Open
  <2>9. QED
    BY <2>8 DEF LifecycleStep
<1>6. ASSUME NEW s \in Steps, StepClaimed(s) PROVE LifecycleStep \/ Unseen
  <2>1. Earlier(s) /\ result[s] = NoResult /\ Done' = Done /\ Open' = Open /\ run' = run
    BY <1>0, <1>6 DEF StepClaimed, Claimable, RowFenced, Alone, Done, Open
  <2>2. CASE step[s].status = "RUNNING"
    <3>1. \A t \in Steps : step'[t].status = "RUNNING" <=> step[t].status = "RUNNING"
      BY <1>6, <2>2 DEF StepClaimed, Alone
    <3>2. QED
      BY <2>1, <3>1, SameActive DEF Unseen
  <2>3. CASE step[s].status # "RUNNING"
    <3>1. Active(step) = 0
      BY <2>1, <2>3, NothingActive
    <3>2. \A t \in Steps \ {s} : step[t].status # "RUNNING"
      BY <2>1, MyTurn
    <3>3. \A t \in Steps : step'[t].status = "RUNNING" => t = s
      BY <1>6, <3>2 DEF StepClaimed, Alone
    <3>4. Active(step') = s
      BY <1>6, <3>3, ActiveStep DEF StepClaimed
    <3>5. \A t \in 1..NSteps : t \in Done <=> t < s
      BY <2>1, TurnIsNext
    <3>6. s \in Gated => s \in Open
      BY <1>6 DEF StepClaimed, Open
    <3>7. Lifecycle!Start(s)
      BY <1>6, <2>1, <3>1, <3>4, <3>5, <3>6
      DEF StepClaimed, Lifecycle!Start, Lifecycle!IsNext, Active, Done, Open
    <3>8. QED
      BY <3>7 DEF LifecycleStep
  <2>4. QED
    BY <2>2, <2>3
<1>7. ASSUME NEW s \in Steps, NEW w \in Workers,
             ResultStored(w, s) \/ StepRetried(w, s) \/ RunFailed(w, s)
      PROVE  LifecycleStep
  <2>1. /\ step[s].status = "RUNNING" /\ approval'[s] = approval[s] /\ Alone(s)
        /\ run \in {"RUNNING", "CANCELLED"}
    BY <1>0, <1>7 DEF ResultStored, StepRetried, RunFailed, ClaimEnded, RowFenced
  <2>2. Active(step) = s /\ s # 0
    BY <2>1, RunningIsActive
  <2>3. \A t \in Steps : step'[t].status # "RUNNING"
    <3>1. step'[s].status # "RUNNING"
      BY <1>7 DEF ResultStored, StepRetried, RunFailed
    <3>2. \A t \in Steps \ {s} : step[t].status # "RUNNING"
      BY <2>1, OneRunning
    <3>3. QED
      BY <2>1, <3>1, <3>2 DEF Alone
  <2>4. Active(step') = 0
    BY <2>3, NoActiveStep
  <2>5. Open' = Open
    BY <2>1 DEF Alone, Open
  <2>6. CASE ResultStored(w, s)
    <3>1. Done' = Done \union {s}
      BY <2>1, <2>6 DEF ResultStored, Alone, Done
    <3>2. Lifecycle!Store
      BY <2>1, <2>2, <2>4, <2>5, <2>6, <3>1
      DEF ResultStored, Lifecycle!Store, Active, Done, Open
    <3>3. QED
      BY <3>2 DEF LifecycleStep
  <2>7. CASE StepRetried(w, s) \/ RunFailed(w, s)
    <3>1. Done' = Done
      BY <2>1, <2>7 DEF StepRetried, RunFailed, Alone, Done
    <3>2. run = "RUNNING"
      BY <2>1, <2>7 DEF StepRetried, RunFailed, Terminal
    <3>3. Lifecycle!Retry \/ Lifecycle!Fail
      BY <2>2, <2>4, <2>5, <2>7, <3>1, <3>2
      DEF StepRetried, RunFailed, Lifecycle!Retry, Lifecycle!Fail, Active, Done, Open
    <3>4. QED
      BY <3>3 DEF LifecycleStep
  <2>8. QED
    BY <1>7, <2>6, <2>7
<1>8. QED
  BY <1>1, <1>2, <1>3, <1>4, <1>5, <1>6, <1>7 DEF Move

(* With a context that resolves, the workers, the API and the broker       *)
(* together implement AgentRunLifecycle: one step at a time in the order   *)
(* of the plan, one result per step, no gated step before its gate, and    *)
(* nothing after the end but the result of a Local step that was running   *)
(* when the run was cancelled.                                             *)
THEOREM RunImplementsLifecycle ==
    ASSUME ~ContextMayFail
    PROVE  Spec => ImplementsLifecycle
<1>1. Init => Lifecycle!LInit
  <2>1. Init => Active(step) = 0 /\ Done = {} /\ Open = {}
    BY NoActiveStep DEF Init, Done, Open, NoApproval
  <2>2. QED
    BY <2>1 DEF Init, Lifecycle!LInit, Active, Done, Open
<1>2. Known /\ FenceInv /\ [Next]_vars => [Lifecycle!LNext]_(Lifecycle!lvars)
  <2> SUFFICES ASSUME Known, FenceInv, [Next]_vars
               PROVE  Lifecycle!LNext \/ UNCHANGED Lifecycle!lvars
      OBVIOUS
  <2>1. LifecycleStep \/ Unseen
    BY NextMoves, MoveIsLifecycle
  <2>2. LifecycleStep => Lifecycle!LNext
    BY Zenon DEF LifecycleStep, Lifecycle!LNext, Steps
  <2>3. Unseen => UNCHANGED Lifecycle!lvars
    BY DEF Unseen, Lifecycle!lvars, Active, Done, Open
  <2>4. QED
    BY <2>1, <2>2, <2>3
<1>3. QED
  BY <1>1, <1>2, FencedAgreement, PTL
     DEF Spec, ImplementsLifecycle, Lifecycle!LSpec

-----------------------------------------------------------------------------
(***************************************************************************)
(* Responsibility.  While no process dies, every message is delivered      *)
(* once, the context stands still and no lease runs out, a RUNNING run is  *)
(* somebody's duty.  The property itself is not inductive: a worker that   *)
(* is busy may be about to find its memory stale and to drop its message.  *)
(* The invariant says who will not: the worker that holds the claim of the *)
(* running step, or one whose memory still agrees with the rows.           *)
(***************************************************************************)
Undisturbed ==
    ~ContextMayFail /\ MaxFaults = 0 /\ MaxContext = 0 /\ MaxClock < LeaseTTL

Holds(w, s) ==
    /\ worker[w].pc \in {"resolve", "commit", "run", "fail"}
    /\ Target(w) = s
    /\ worker[w].token = step[s].token

(* A running step is held by a live worker until the run ends.             *)
RowHeld(s) ==
    /\ step[s].status = "RUNNING" => step[s].lease >= LeaseTTL
    /\ step[s].status = "RUNNING" /\ run \notin Terminal => \E w \in Workers : Holds(w, s)
    /\ result[s] # NoResult => result[s].input # NoInput

(* A step waits at its gate only in a run that waits, or has ended.        *)
RowWaits(s) ==
    /\ approval[s].status \in {"PENDING", "EXPIRED"} => step[s].status = "AWAITING_APPROVAL"
    /\ approval[s].status \in {"REJECTED", "CANCELLED"} => run \in Terminal
    /\ step[s].status = "AWAITING_APPROVAL" => run # "RUNNING"
    /\ step[s].status = "CANCELLED" => run \in Terminal

(* A worker whose next transaction will not find its memory stale.         *)
Able(w) ==
    \/ worker[w].pc \in {"load", "state", "after"}
    \/ worker[w].pc = "complete" /\ Completed = Steps
    \/ /\ worker[w].pc = "restore" /\ worker[w].done = Completed
       /\ \/ worker[w].status = "COMPLETED" /\ Completed = Steps
          \/ worker[w].status = "PENDING" /\ step[Target(w)].status = "PENDING"
    \/ /\ worker[w].pc \in {"compile", "freeze", "gate", "request", "claim"}
       /\ step[Target(w)].status = "PENDING"
       /\ worker[w].pc = "request" => approval[Target(w)].status = "NONE"

Waiting == dispatch = "PENDING" \/ \E r \in 0..MaxRetries : queue[r] > 0

Cared ==
    run = "RUNNING" =>
        \/ Waiting
        \/ \E s \in Steps : step[s].status = "RUNNING"
        \/ \E w \in Workers : Able(w)

DutyInv == (\A s \in Steps : RowHeld(s) /\ RowWaits(s)) /\ Cared

-----------------------------------------------------------------------------
(* Every move keeps the gates and the status of the run in agreement.      *)
LEMMA MovesKeepWaits ==
    ASSUME Known, Move, \A s \in Steps : RowWaits(s), NEW s \in Steps
    PROVE  RowWaits(s)'
<1>0. RowWaits(s) /\ RowFenced(s)
  BY DEF Known, RowsFenced
<1>1. CASE Silently \/ RunStopped \/ RunFinished
  BY <1>0, <1>1 DEF Silently, RunStopped, RunFinished, RowWaits, Terminal
<1>2. ASSUME NEW t \in Steps, GateOpened(t) PROVE RowWaits(s)'
  <2>1. run = "AWAITING_APPROVAL"
    BY <1>2 DEF GateOpened, Known, RowsFenced, RowFenced
  <2>2. CASE s = t
    BY <1>2, <2>2 DEF GateOpened, RowWaits
  <2>3. CASE s # t
    <3>1. step'[s] = step[s] /\ approval'[s] = approval[s]
      BY <1>2, <2>3 DEF GateOpened, Alone
    <3>2. step[s].status # "AWAITING_APPROVAL"
      <4>1. SUFFICES ASSUME step[s].status = "AWAITING_APPROVAL" PROVE FALSE
        OBVIOUS
      <4>2. Earlier(s) /\ result[s] = NoResult
        BY <1>0, <4>1 DEF RowFenced
      <4>3. QED
        BY <1>2, <2>3, <4>2, MyTurn DEF GateOpened
    <3>3. QED
      BY <1>0, <2>1, <3>1, <3>2 DEF RowWaits, Terminal
  <2>4. QED
    BY <2>2, <2>3
<1>3. ASSUME NEW t \in Steps, GateRequested(t) \/ StepClaimed(t) PROVE RowWaits(s)'
  <2>1. CASE s = t
    BY <1>0, <1>3, <2>1 DEF GateRequested, StepClaimed, RowWaits, Claimable
  <2>2. CASE s # t
    BY <1>0, <1>3, <2>2 DEF GateRequested, StepClaimed, Alone, RowWaits, Terminal
  <2>3. QED
    BY <2>1, <2>2
<1>4. ASSUME NEW t \in Steps, NEW w \in Workers,
             ResultStored(w, t) \/ StepRetried(w, t) \/ RunFailed(w, t)
      PROVE  RowWaits(s)'
  <2>1. /\ ClaimEnded(w, t)
        /\ run' = run \/ (run \notin Terminal /\ run' = "FAILED")
    BY <1>4 DEF ResultStored, StepRetried, RunFailed
  <2>2. step'[t].status \in {"COMPLETED", "PENDING", "FAILED"}
    BY <1>4 DEF ResultStored, StepRetried, RunFailed
  <2>3. CASE s = t
    BY <1>0, <2>1, <2>2, <2>3 DEF ClaimEnded, RowWaits, Terminal
  <2>4. CASE s # t
    BY <1>0, <2>1, <2>4 DEF ClaimEnded, Alone, RowWaits, Terminal
  <2>5. QED
    BY <2>3, <2>4
<1>5. QED
  BY <1>1, <1>2, <1>3, <1>4 DEF Move

(* An end stays an end.                                                    *)
LEMMA MovesKeepEnd ==
    ASSUME Known, Move, run \in Terminal
    PROVE  run' \in Terminal
<1>1. ASSUME NEW s \in Steps PROVE ~GateOpened(s)
  BY <1>1 DEF GateOpened, Known, RowsFenced, RowFenced, Terminal
<1>2. QED
  BY <1>1 DEF Move, Silently, RunStopped, RunFinished, GateRequested,
     StepClaimed, ResultStored, StepRetried, RunFailed, Terminal

(* A claim that nobody ends or renews is still held.                       *)
LEMMA ClaimUntouched ==
    ASSUME NEW s \in Steps, RowHeld(s), result'[s] = result[s],
           run \in Terminal => run' \in Terminal,
           step'[s].status = "RUNNING" =>
               /\ step[s].status = "RUNNING" /\ step'[s].token = step[s].token
               /\ step'[s].lease = step[s].lease
               /\ run' \notin Terminal =>
                     \A v \in Workers : Holds(v, s) =>
                         /\ worker'[v].pc \in {"resolve", "commit", "run", "fail"}
                         /\ worker'[v].next = worker[v].next
                         /\ worker'[v].token = worker[v].token
    PROVE  RowHeld(s)'
<1>1. step'[s].status = "RUNNING" => step'[s].lease >= LeaseTTL
  BY DEF RowHeld
<1>2. ASSUME step'[s].status = "RUNNING", run' \notin Terminal
      PROVE  \E v \in Workers : Holds(v, s)'
  <2>1. PICK v \in Workers : Holds(v, s)
    BY <1>2 DEF RowHeld
  <2>2. Holds(v, s)'
    BY <1>2, <2>1 DEF Holds, Target
  <2>3. QED
    BY <2>2
<1>3. result'[s] # NoResult => result'[s].input # NoInput
  BY DEF RowHeld
<1>4. QED
  BY <1>1, <1>2, <1>3 DEF RowHeld

LEMMA ApiKeepsClaims ==
    ASSUME Known, Api, NEW s \in Steps, RowHeld(s)
    PROVE  RowHeld(s)'
<1>0. step \in [Steps -> StepRow]
  BY DEF Known, TypeOK
<1>1. worker' = worker /\ result' = result
  BY DEF Api, Dispatch, DispatchFailed, DispatchLost, rows, Approve, Reject, Expire, Cancel
<1>2. run \in Terminal => run' \in Terminal
  BY ApiMoves, MovesKeepEnd
<1>3. step'[s] = step[s] \/ step'[s].status # "RUNNING"
  <2>1. CASE Dispatch \/ DispatchFailed \/ DispatchLost \/ Cancel \/ \E t \in Steps : Expire(t)
    BY <2>1 DEF Dispatch, DispatchFailed, DispatchLost, rows, Expire, Cancel
  <2>2. ASSUME NEW t \in Steps, Approve(t) \/ Reject(t)
        PROVE  step'[s] = step[s] \/ step'[s].status # "RUNNING"
    BY <1>0, <2>2 DEF Approve, Reject, StepRow
  <2>3. QED
    BY <2>1, <2>2 DEF Api
<1>4. QED
  BY <1>1, <1>2, <1>3, ClaimUntouched DEF Holds

(* The other workers' claims survive what a worker does to another row.    *)
LEMMA OthersHold ==
    ASSUME Known, NEW w \in Workers, Work(w), NEW s \in Steps, RowHeld(s), Move,
           result'[s] = result[s],
           step'[s].status = "RUNNING" =>
               /\ step[s].status = "RUNNING" /\ step'[s].token = step[s].token
               /\ step'[s].lease = step[s].lease
               /\ run' \notin Terminal /\ Holds(w, s) =>
                      /\ worker'[w].pc \in {"resolve", "commit", "run", "fail"}
                      /\ worker'[w].next = worker[w].next
                      /\ worker'[w].token = worker[w].token
    PROVE  RowHeld(s)'
<1>1. \A v \in Workers \ {w} : worker'[v] = worker[v]
  BY OthersKept DEF Known
<1>2. run \in Terminal => run' \in Terminal
  BY MovesKeepEnd
<1>3. QED
  BY <1>1, <1>2, ClaimUntouched DEF Holds

(* A worker that holds the claim of the running step does not give it up   *)
(* before the step has left RUNNING: with an active lease, the frozen      *)
(* input and no stored result, neither its commit nor its failure is lost. *)
LEMMA WorkKeepsClaims ==
    ASSUME Undisturbed, Known, NEW w \in Workers, MemoryFenced(w), Work(w),
           NEW s \in Steps, RowHeld(s)
    PROVE  RowHeld(s)'
<1>0. /\ worker \in [Workers -> Memory] /\ worker[w] \in Memory
      /\ step \in [Steps -> StepRow] /\ step[s] \in StepRow
      /\ result \in [Steps -> ResultRow]
      /\ MemoryAgrees(w) /\ Move
      /\ clock \in Nat /\ clock < LeaseTTL /\ LeaseTTL \in Nat
  BY WorkMoves, TTLAssumption, BoundsAssumption DEF Known, TypeOK, GateInv, Undisturbed
<1>1. CASE \/ Receive(w) \/ Load(w) \/ Restore(w) \/ Compile(w) \/ Gate(w)
           \/ AfterResult(w) \/ ReadState(w) \/ CompleteRun(w)
  <2>1. step' = step /\ result' = result /\ ~Holds(w, s)
    BY <1>1 DEF Receive, Load, Restore, Compile, Gate, AfterResult, ReadState,
                CompleteRun, rows, Holds
  <2>2. QED
    BY <1>0, <2>1, OthersHold
<1>2. CASE Freeze(w) \/ RequestApproval(w)
  <2>1. result' = result /\ ~Holds(w, s)
    BY <1>2 DEF Freeze, RequestApproval, Holds
  <2>2. \/ step'[s].status # "RUNNING"
        \/ step'[s] = step[s]
        \/ step'[s] = [step[s] EXCEPT !.frozen = worker[w].input]
    BY <1>0, <1>2 DEF Freeze, RequestApproval, StepRow
  <2>3. step'[s].status = "RUNNING" =>
            /\ step[s].status = "RUNNING" /\ step'[s].token = step[s].token
            /\ step'[s].lease = step[s].lease
    BY <1>0, <2>2 DEF StepRow
  <2>4. QED
    BY <1>0, <2>1, <2>3, OthersHold
<1>3. CASE Claim(w)
  <2>1. result' = result /\ ~Holds(w, s)
    BY <1>3 DEF Claim, Holds
  <2>2. CASE step'[s] = step[s]
    BY <1>0, <2>1, <2>2, OthersHold
  <2>3. CASE step'[s] # step[s]
    <3>1. /\ s = Target(w) /\ step' = [step EXCEPT ![s] = ClaimedStep(s)]
          /\ worker' = [worker EXCEPT ![w].pc = IF s \in Local THEN "run" ELSE "resolve",
                                      ![w].token = step[s].attempts + 1]
      BY <1>0, <1>3, <2>3 DEF Claim
    <3>2. step'[s].token = step[s].attempts + 1 /\ step'[s].lease = clock + LeaseTTL
      BY <1>0, <3>1 DEF ClaimedStep, StepRow
    <3>3. Holds(w, s)'
      BY <1>0, <3>1, <3>2 DEF Holds, Target, Memory
    <3>4. step'[s].lease >= LeaseTTL
      BY <1>0, <3>2
    <3>5. QED
      BY <2>1, <3>3, <3>4 DEF RowHeld
  <2>4. QED
    BY <2>2, <2>3
<1>4. CASE Resolve(w)
  <2>1. step' = step /\ result' = result /\ worker'[w].pc \in {"commit", "fail"}
        /\ worker'[w].next = worker[w].next /\ worker'[w].token = worker[w].token
    BY <1>0, <1>4 DEF Resolve, rows, Goto, Memory
  <2>2. QED
    BY <1>0, <2>1, OthersHold
<1>5. CASE StoreResult(w) /\ (CommitResult(w) \/ PersistResult(w))
  <2>1. Target(w) \in Steps /\ worker[w].input # NoInput
    BY <1>0, <1>5 DEF MemoryAgrees, CommitResult, PersistResult, Writing, Frozen, Passed
  <2>2. CASE s = Target(w)
    <3>1. /\ step'[s].status = "COMPLETED"
          /\ result'[s] = [attempt |-> worker[w].token, input |-> worker[w].input]
      BY <1>0, <1>5, <2>2 DEF StoreResult, StepRow
    <3>2. QED
      BY <2>1, <3>1 DEF RowHeld
  <2>3. CASE s # Target(w)
    <3>1. step'[s] = step[s] /\ result'[s] = result[s] /\ ~Holds(w, s)
      BY <1>0, <1>5, <2>1, <2>3 DEF StoreResult, Holds
    <3>2. QED
      BY <1>0, <3>1, OthersHold
  <2>4. QED
    BY <2>2, <2>3
<1>6. CASE CommitResult(w) /\ ~StoreResult(w)
  <2>1. step' = step /\ result' = result /\ Goto(w, "fail")
    BY <1>6 DEF CommitResult
  <2>2. worker'[w].pc = "fail" /\ worker'[w].next = worker[w].next
        /\ worker'[w].token = worker[w].token
    BY <1>0, <2>1 DEF Goto, Memory
  <2>3. QED
    BY <1>0, <2>1, <2>2, OthersHold
<1>7. CASE PersistResult(w) /\ ~StoreResult(w)
  <2>1. step' = step /\ result' = result /\ ~Persistable(w) /\ worker[w].pc = "run"
    BY <1>7 DEF PersistResult
  <2>2. step[s].status = "RUNNING" => ~Holds(w, s)
    <3> SUFFICES ASSUME step[s].status = "RUNNING", Holds(w, s) PROVE FALSE
        OBVIOUS
    <3>1. result[s] = NoResult
      BY DEF Known, RowsFenced, RowFenced
    <3>2. step[s].frozen = worker[w].input
      BY <1>0, <2>1 DEF Holds, MemoryAgrees, Frozen, Passed
    <3>3. LeaseActive(step[s].lease)
      BY <1>0 DEF RowHeld, LeaseActive, StepRow, Lease
    <3>4. QED
      BY <2>1, <3>1, <3>2, <3>3 DEF Persistable, HoldsClaim, Holds
  <2>3. QED
    BY <1>0, <2>1, <2>2, OthersHold
<1>8. CASE HandleStepFailure(w)
  <2>1. Target(w) \in Steps /\ worker[w].pc = "run" /\ result' = result
    BY <1>0, <1>8 DEF MemoryAgrees, HandleStepFailure, Writing, Frozen, Passed
  <2>2. CASE step' # step
    <3>1. step' = [step EXCEPT ![Target(w)].status = "PENDING", ![Target(w)].token = 0,
                               ![Target(w)].lease = 0]
      BY <1>8, <2>2 DEF HandleStepFailure
    <3>2. CASE s = Target(w)
      <4>1. step'[s].status = "PENDING"
        BY <1>0, <3>1, <3>2 DEF StepRow
      <4>2. QED
        BY <1>0, <2>1, <4>1, OthersHold
    <3>3. CASE s # Target(w)
      BY <1>0, <2>1, <3>1, <3>3, OthersHold DEF Holds
    <3>4. QED
      BY <3>2, <3>3
  <2>3. CASE step' = step
    <3>1. step[s].status = "RUNNING" /\ run' \notin Terminal /\ Holds(w, s) => Goto(w, "fail")
      <4>1. ASSUME step' = [step EXCEPT ![Target(w)].status = "PENDING",
                                        ![Target(w)].token = 0, ![Target(w)].lease = 0]
            PROVE  step[Target(w)].status = "PENDING"
        BY <1>0, <2>1, <2>3, <4>1 DEF StepRow
      <4>2. QED
        BY <1>8, <2>3, <4>1 DEF HandleStepFailure, Holds
    <3>2. Goto(w, "fail") => /\ worker'[w].pc = "fail" /\ worker'[w].next = worker[w].next
                             /\ worker'[w].token = worker[w].token
      BY <1>0 DEF Goto, Memory
    <3>3. QED
      BY <1>0, <2>1, <2>3, <3>1, <3>2, OthersHold
  <2>4. QED
    BY <2>2, <2>3
<1>9. CASE FailRun(w)
  <2>1. Target(w) \in Steps /\ worker[w].pc = "fail" /\ result' = result
    BY <1>0, <1>9 DEF MemoryAgrees, FailRun, Writing
  <2>2. CASE run' # run
    <3>1. run' = "FAILED" /\ step' = [step EXCEPT ![Target(w)].status = "FAILED",
                               ![Target(w)].token = 0, ![Target(w)].lease = 0]
      BY <1>9, <2>2 DEF FailRun
    <3>2. step'[s] = step[s] \/ step'[s].status = "FAILED"
      BY <1>0, <2>1, <3>1 DEF StepRow
    <3>3. QED
      BY <1>0, <2>1, <3>1, <3>2, OthersHold DEF Terminal
  <2>3. CASE run' = run
    <3>1. run \in Terminal \/ ~Holds(w, s)
      BY <1>9, <2>3 DEF FailRun, Holds, Terminal
    <3>2. step' = step
      BY <1>9, <2>3 DEF FailRun, Terminal
    <3>3. QED
      BY <1>0, <2>1, <2>3, <3>1, <3>2, OthersHold
  <2>4. QED
    BY <2>2, <2>3
<1>10. QED
  BY <1>1, <1>2, <1>3, <1>4, <1>5, <1>6, <1>7, <1>8, <1>9 DEF Work

-----------------------------------------------------------------------------
(* A worker stays able while no status moves under it.                     *)
LEMMA StillAble ==
    ASSUME Known, NEW v \in Workers, Able(v), worker'[v] = worker[v],
           \A t \in Steps : step'[t].status = step[t].status, approval' = approval
    PROVE  Able(v)'
<1>1. Completed' = Completed
  BY DEF Completed
<1>2. MemoryAgrees(v)
  BY DEF Known, GateInv
<1>3. worker[v].pc \in {"compile", "freeze", "gate", "request", "claim"} =>
          Target(v) \in Steps
  BY <1>2 DEF MemoryAgrees, Writing, Frozen, Passed
<1>4. worker[v].pc = "restore" /\ worker[v].status = "PENDING" => Target(v) \in Steps
  BY <1>2 DEF MemoryAgrees
<1>5. QED
  BY <1>1, <1>3, <1>4 DEF Able, Target

(* So a transaction that moves no status cares for the run if its own      *)
(* worker stays able.                                                      *)
LEMMA StillCared ==
    ASSUME Known, Cared, NEW w \in Workers, Work(w), run' = run, dispatch' = dispatch,
           \A r \in 0..MaxRetries : queue[r] > 0 => queue'[r] > 0,
           \A t \in Steps : step'[t].status = step[t].status, approval' = approval,
           run = "RUNNING" /\ Able(w) => Able(w)'
    PROVE  Cared'
<1> SUFFICES ASSUME run = "RUNNING" PROVE Cared'
    BY DEF Cared
<1>1. CASE Waiting
  BY <1>1 DEF Waiting, Cared
<1>2. CASE \E s \in Steps : step[s].status = "RUNNING"
  BY <1>2 DEF Cared
<1>3. ASSUME NEW v \in Workers, Able(v) PROVE Cared'
  <2>1. CASE v = w
    BY <1>3, <2>1 DEF Cared
  <2>2. CASE v # w
    <3>1. worker'[v] = worker[v]
      BY <2>2, OthersKept DEF Known
    <3>2. QED
      BY <1>3, <3>1, StillAble DEF Cared
  <2>3. QED
    BY <2>1, <2>2
<1>4. QED
  BY <1>1, <1>2, <1>3 DEF Cared

(* A worker that is able after its own transaction cares for the run.      *)
LEMMA NowAble ==
    ASSUME TypeOK, NEW w \in Workers, NEW label, Goto(w, label),
           label \in {"load", "state", "after"}
    PROVE  Cared'
<1>1. worker'[w].pc \in {"load", "state", "after"}
  BY DEF Goto, TypeOK, Memory
<1>2. QED
  BY <1>1 DEF Able, Cared

LEMMA ApiCares ==
    ASSUME Undisturbed, Known, Cared, Api
    PROVE  Cared'
<1>1. CASE Dispatch
  <2>1. queue' = [queue EXCEPT ![0] = @ + 1] /\ queue \in [0..MaxRetries -> Nat]
    BY <1>1 DEF Dispatch, Known, TypeOK
  <2>2. 0 \in 0..MaxRetries
    BY BoundsAssumption
  <2>3. queue'[0] > 0
    BY <2>1, <2>2
  <2>4. QED
    BY <2>2, <2>3 DEF Cared, Waiting
<1>2. CASE DispatchFailed \/ DispatchLost
  BY <1>2 DEF DispatchFailed, DispatchLost, Undisturbed, Known, TypeOK
<1>3. ASSUME NEW s \in Steps, Approve(s) \/ Reject(s) PROVE Cared'
  BY <1>3 DEF Approve, Reject, Cared, Waiting
<1>4. ASSUME NEW s \in Steps, Expire(s) PROVE Cared'
  BY <1>4 DEF Expire, Cared, Known, RowsFenced, RowFenced
<1>5. CASE Cancel
  BY <1>5 DEF Cancel, Cared
<1>6. QED
  BY <1>1, <1>2, <1>3, <1>4, <1>5 DEF Api

(* The messages that wait are taken by a worker, and only there.           *)
LEMMA QueueKept ==
    ASSUME TypeOK, NEW w \in Workers, queue' = queue \/ RetryLater(w)
    PROVE  \A r \in 0..MaxRetries : queue[r] > 0 => queue'[r] > 0
<1>1. /\ queue \in [0..MaxRetries -> Nat] /\ MaxRetries \in Nat
      /\ worker[w].retries \in 0..MaxRetries
  BY BoundsAssumption DEF TypeOK, Memory
<1>2. CASE RetryLater(w) /\ worker[w].retries < MaxRetries
  <2>1. PICK n \in 0..MaxRetries : n = worker[w].retries + 1
    BY <1>1, <1>2
  <2>2. queue' = [queue EXCEPT ![n] = queue[n] + 1]
    BY <1>2, <2>1 DEF RetryLater
  <2>3. QED
    BY <1>1, <2>2
<1>3. QED
  BY <1>1, <1>2 DEF RetryLater

(* A step that has the turn in a running run is PENDING or RUNNING.        *)
LEMMA TurnStatus ==
    ASSUME Known, run = "RUNNING", NEW s \in Steps, RowWaits(s),
           step[s].status # "COMPLETED"
    PROVE  step[s].status \in {"PENDING", "RUNNING"}
<1>1. step[s].status \in StepStatus /\ step[s].status # "FAILED"
  BY DEF Known, TypeOK, StepRow, RowsFenced, RowFenced
<1>2. QED
  BY <1>1 DEF RowWaits, StepStatus, Terminal

LEMMA LoadCares ==
    ASSUME Known, Cared, NEW w \in Workers, Load(w), \A s \in Steps : RowWaits(s)
    PROVE  Cared'
<1>0. worker \in [Workers -> Memory] /\ UNCHANGED rows
  BY DEF Known, TypeOK, Load
<1> SUFFICES ASSUME run = "RUNNING" PROVE Cared'
    BY <1>0 DEF rows, Cared
<1>1. Completed' = Completed
  BY <1>0 DEF rows, Completed
<1>2. CASE Completed = Steps /\ worker' = [worker EXCEPT ![w] =
                [Idle EXCEPT !.pc = "restore", !.retries = worker[w].retries,
                             !.done = Steps, !.status = "COMPLETED"]]
  <2>1. /\ worker'[w].pc = "restore" /\ worker'[w].done = Steps
        /\ worker'[w].status = "COMPLETED"
    BY <1>0, <1>2 DEF Idle
  <2>2. QED
    BY <1>1, <1>2, <2>1 DEF Able, Cared
<1>3. ASSUME NEW s \in Steps \ Completed, worker' = [worker EXCEPT ![w] =
                [Idle EXCEPT !.pc = "restore", !.retries = worker[w].retries,
                             !.done = Completed, !.next = s,
                             !.status = step[s].status, !.lease = step[s].lease]]
      PROVE  Cared'
  <2>1. step[s].status \in {"PENDING", "RUNNING"}
    BY TurnStatus DEF Completed
  <2>2. /\ worker'[w].pc = "restore" /\ worker'[w].done = Completed
        /\ worker'[w].next = s /\ worker'[w].status = step[s].status
    BY <1>0, <1>3 DEF Idle
  <2>3. step' = step
    BY <1>0 DEF rows
  <2>4. CASE step[s].status = "RUNNING"
    BY <2>3, <2>4 DEF Cared
  <2>5. CASE step[s].status = "PENDING"
    <3>1. Able(w)'
      BY <1>1, <2>2, <2>3, <2>5 DEF Able, Target
    <3>2. QED
      BY <3>1 DEF Cared
  <2>6. QED
    BY <2>1, <2>4, <2>5
<1>4. QED
  BY <1>2, <1>3 DEF Load, Terminal

(* What an able worker remembers can be restored: the context has not      *)
(* moved, and a step is completed exactly when it owns a result.           *)
LEMMA RestoreCares ==
    ASSUME Undisturbed, Known, Cared, NEW w \in Workers, Restore(w),
           \A s \in Steps : RowHeld(s)
    PROVE  Cared'
<1>0. /\ worker \in [Workers -> Memory] /\ worker[w] \in Memory
      /\ UNCHANGED rows /\ MemoryAgrees(w)
  BY DEF Known, TypeOK, GateInv, Restore
<1>1. ASSUME Able(w) PROVE Able(w)'
  <2>1. /\ worker[w].pc = "restore" /\ worker[w].done = Completed
        /\ \/ worker[w].status = "COMPLETED" /\ Completed = Steps
           \/ worker[w].status = "PENDING" /\ step[Target(w)].status = "PENDING"
    BY <1>1 DEF Able, Restore
  <2>2. \A s \in Steps : result[s] # NoResult => result[s].input = context
    <3>1. \A s \in Steps : result[s].input \in Input \union {NoInput} /\ context \in Input
      BY DEF Known, TypeOK, ResultRow
    <3>2. QED
      BY <3>1 DEF RowHeld, Undisturbed, Input
  <2>3. Restorable(w)
    BY <2>1, <2>2 DEF Restorable, Completed, Known, RowsFenced, RowFenced
  <2>4. Completed' = Completed /\ step' = step
    BY <1>0 DEF rows, Completed
  <2>5. CASE worker[w].status = "COMPLETED"
    <3>1. Goto(w, "complete")
      BY <2>3, <2>5 DEF Restore
    <3>2. worker'[w].pc = "complete"
      BY <1>0, <3>1 DEF Goto, Memory
    <3>3. QED
      BY <2>1, <2>4, <2>5, <3>2 DEF Able
  <2>6. CASE worker[w].status = "PENDING"
    <3>1. Goto(w, "compile")
      BY <2>3, <2>6 DEF Restore
    <3>2. worker'[w].pc = "compile" /\ worker'[w].next = worker[w].next
      BY <1>0, <3>1 DEF Goto, Memory
    <3>3. QED
      BY <2>1, <2>4, <2>6, <3>2 DEF Able, Target
  <2>7. QED
    BY <2>1, <2>5, <2>6
<1>2. \A r \in 0..MaxRetries : queue[r] > 0 => queue'[r] > 0
  BY QueueKept DEF Restore, Known
<1>3. QED
  BY <1>0, <1>1, <1>2, StillCared DEF rows, Work

(* On the way to its claim an able worker meets nothing that stops it: the *)
(* input is the frozen one, and the gate of a PENDING step in a running    *)
(* run is open or has never been requested.                                *)
LEMMA ClaimCares ==
    ASSUME Undisturbed, Known, Cared, NEW w \in Workers,
           Compile(w) \/ Freeze(w) \/ Gate(w) \/ RequestApproval(w) \/ Claim(w),
           \A s \in Steps : RowWaits(s)
    PROVE  Cared'
<1>0. /\ worker \in [Workers -> Memory] /\ worker[w] \in Memory
      /\ step \in [Steps -> StepRow] /\ approval \in [Steps -> ApprovalRow]
      /\ MemoryAgrees(w)
  BY DEF Known, TypeOK, GateInv
<1>1. PICK s \in Steps : s = Target(w)
  BY <1>0 DEF MemoryAgrees, Compile, Freeze, Gate, RequestApproval, Claim,
              Writing, Frozen, Passed
<1>2. ASSUME NEW label, Goto(w, label)
      PROVE  worker'[w].pc = label /\ worker'[w].next = worker[w].next
  BY <1>0, <1>2 DEF Goto, Memory
<1>3. \A r \in 0..MaxRetries : queue[r] > 0 => queue'[r] > 0
  BY QueueKept DEF Known, Compile, Freeze, Gate, RequestApproval, Claim
<1>4. CASE Compile(w)
  <2>1. worker' = [worker EXCEPT ![w].pc = "freeze", ![w].input = context]
        /\ UNCHANGED rows
    BY <1>4 DEF Compile, Undisturbed
  <2>2. worker'[w].pc = "freeze" /\ worker'[w].next = worker[w].next
    BY <1>0, <2>1 DEF Memory
  <2>3. Able(w) => Able(w)'
    BY <1>4, <2>1, <2>2 DEF Able, Target, Compile, rows
  <2>4. QED
    BY <1>3, <1>4, <2>1, <2>3, StillCared DEF rows, Work
<1>5. CASE Freeze(w)
  <2>1. step[s].frozen \in {NoInput, worker[w].input}
    <3>1. worker[w].input \in Input
      BY <1>0, <1>5 DEF MemoryAgrees, Freeze
    <3>2. QED
      BY <1>0, <3>1 DEF StepRow, Input, Undisturbed
  <2>2. /\ step' = [step EXCEPT ![s].frozen = worker[w].input]
        /\ Goto(w, IF s \in Gated THEN "gate" ELSE "claim")
        /\ UNCHANGED <<run, dispatch, approval>>
    BY <1>1, <1>5, <2>1 DEF Freeze
  <2>3. worker'[w].pc \in {"gate", "claim"} /\ worker'[w].next = worker[w].next
    BY <1>2, <2>2
  <2>4. \A t \in Steps : step'[t].status = step[t].status
    BY <1>0, <2>2 DEF StepRow
  <2>5. Able(w) => Able(w)'
    BY <1>1, <1>5, <2>3, <2>4 DEF Able, Target, Freeze
  <2>6. QED
    BY <1>3, <1>5, <2>2, <2>4, <2>5, StillCared DEF Work
<1>6. CASE Gate(w)
  <2>1. ASSUME run = "RUNNING", Able(w) PROVE Able(w)'
    <3>1. step[s].status = "PENDING"
      BY <1>1, <1>6, <2>1 DEF Able, Gate
    <3>2. approval[s].status \in {"NONE", "APPROVED"}
      BY <1>0, <2>1, <3>1 DEF RowWaits, ApprovalRow, ApprovalStatus, Terminal
    <3>3. approval[s].status = "APPROVED" => Approved(s)
      BY DEF Known, GateInv, RowsAgree, Approved
    <3>4. \/ Goto(w, "claim")
          \/ Goto(w, "request") /\ approval[s].status = "NONE"
      BY <1>1, <1>6, <3>2, <3>3 DEF Gate
    <3>5. UNCHANGED <<step, approval>>
      BY <1>6 DEF Gate, rows
    <3>6. QED
      BY <1>1, <1>2, <3>1, <3>4, <3>5 DEF Able, Target
  <2>2. QED
    BY <1>3, <1>6, <2>1, StillCared DEF Gate, rows, Work
<1>7. CASE RequestApproval(w)
  <2>1. CASE approval[s].status = "NONE" /\ run' = "AWAITING_APPROVAL"
    BY <2>1 DEF Cared
  <2>2. CASE UNCHANGED <<run, step, approval>>
    <3>1. ASSUME run = "RUNNING", Able(w) PROVE Able(w)'
      <4>1. Goto(w, "state")
        BY <1>1, <1>7, <2>2, <3>1 DEF RequestApproval, Able, Terminal
      <4>2. QED
        BY <1>2, <4>1 DEF Able
    <3>2. QED
      BY <1>3, <1>7, <2>2, <3>1, StillCared DEF RequestApproval, Work
  <2>3. QED
    BY <1>1, <1>7, <2>1, <2>2 DEF RequestApproval
<1>8. CASE Claim(w)
  <2>1. CASE step' = [step EXCEPT ![s] = ClaimedStep(s)]
    <3>1. step'[s].status = "RUNNING"
      BY <1>0, <2>1 DEF ClaimedStep, StepRow
    <3>2. QED
      BY <3>1 DEF Cared
  <2>2. CASE UNCHANGED step /\ step' # [step EXCEPT ![s] = ClaimedStep(s)]
    <3>1. ~(run = "RUNNING" /\ Able(w))
      BY <1>1, <1>8, <2>2 DEF Claim, Able
    <3>2. QED
      BY <1>3, <1>8, <2>2, <3>1, StillCared DEF Claim, Work
  <2>3. QED
    BY <1>1, <1>8, <2>1, <2>2 DEF Claim
<1>9. QED
  BY <1>4, <1>5, <1>6, <1>7, <1>8

(* The holder of a claim that ends it goes on itself.                      *)
LEMMA EndCares ==
    ASSUME Known, Cared, NEW w \in Workers, MemoryFenced(w),
           \/ Resolve(w) \/ CommitResult(w) \/ PersistResult(w)
           \/ HandleStepFailure(w) \/ FailRun(w)
    PROVE  Cared'
<1>0. TypeOK
  BY DEF Known
<1>1. ~Able(w) /\ dispatch' = dispatch /\ approval' = approval /\ queue' = queue
  BY DEF Able, Resolve, CommitResult, PersistResult, HandleStepFailure, FailRun, rows
<1>2. CASE run' = run /\ step' = step
  BY <1>1, <1>2, StillCared DEF Work
<1>3. CASE StoreResult(w)
  BY <1>0, <1>3, NowAble DEF StoreResult
<1>4. CASE HandleStepFailure(w) /\ ~UNCHANGED step
  BY <1>0, <1>4, NowAble DEF HandleStepFailure
<1>5. CASE FailRun(w) /\ run' = "FAILED"
  BY <1>5 DEF Cared
<1>6. QED
  BY <1>2, <1>3, <1>4, <1>5
     DEF Resolve, CommitResult, PersistResult, HandleStepFailure, FailRun, rows

LEMMA RestCares ==
    ASSUME Known, Cared, NEW w \in Workers,
           Receive(w) \/ AfterResult(w) \/ CompleteRun(w) \/ ReadState(w)
    PROVE  Cared'
<1>0. TypeOK /\ worker \in [Workers -> Memory]
  BY DEF Known, TypeOK
<1> SUFFICES ASSUME run' = "RUNNING" PROVE Cared'
    BY DEF Cared
<1>1. CASE Receive(w)
  <2>1. worker'[w].pc = "load"
    BY <1>0, <1>1 DEF Receive, Idle
  <2>2. QED
    BY <2>1 DEF Able, Cared
<1>2. CASE AfterResult(w)
  <2>1. CASE Completed # Steps
    BY <1>0, <1>2, <2>1, NowAble DEF AfterResult
  <2>2. CASE Completed = Steps
    <3>1. worker'[w].pc = "complete"
      BY <1>0, <1>2, <2>2 DEF AfterResult, Goto, Memory
    <3>2. Completed' = Steps
      BY <1>2, <2>2 DEF AfterResult, rows, Completed
    <3>3. QED
      BY <3>1, <3>2 DEF Able, Cared
  <2>3. QED
    BY <2>1, <2>2
<1>3. CASE CompleteRun(w)
  <2>1. run = "RUNNING" /\ ~Able(w) /\ UNCHANGED <<run, step, dispatch, approval, queue>>
    BY <1>3 DEF CompleteRun, Able, Terminal
  <2>2. QED
    BY <1>3, <2>1, StillCared DEF Work
<1>4. CASE ReadState(w)
  <2>1. Goto(w, "load")
    BY <1>4 DEF ReadState, rows
  <2>2. QED
    BY <1>0, <2>1, NowAble
<1>5. QED
  BY <1>1, <1>2, <1>3, <1>4

(* The invariant holds in every reachable state.                           *)
LEMMA StepDuty ==
    ASSUME Undisturbed, Known, FenceInv, DutyInv, [Next]_vars
    PROVE  DutyInv'
<1>0. Cared /\ \A s \in Steps : RowHeld(s) /\ RowWaits(s)
  BY DEF DutyInv
<1>1. \A s \in Steps : RowWaits(s)'
  BY <1>0, NextMoves, MovesKeepWaits
<1>2. CASE Api
  BY <1>0, <1>1, <1>2, ApiKeepsClaims, ApiCares DEF DutyInv
<1>3. ASSUME NEW w \in Workers, Work(w) PROVE DutyInv'
  <2>1. MemoryFenced(w)
    BY DEF FenceInv
  <2>2. \A s \in Steps : RowHeld(s)'
    BY <1>0, <1>3, <2>1, WorkKeepsClaims
  <2>3. Cared'
    BY <1>0, <1>3, <2>1, LoadCares, RestoreCares, ClaimCares, EndCares, RestCares DEF Work
  <2>4. QED
    BY <1>1, <2>2, <2>3 DEF DutyInv
<1>4. CASE UNCHANGED vars \/ Tick \/ ContextDrifts
  <2>1. UNCHANGED <<rows, queue, worker>>
    BY <1>4 DEF vars, rows, Tick, ContextDrifts
  <2>2. QED
    BY <1>0, <2>1 DEF DutyInv, RowHeld, RowWaits, Cared, Waiting, Able, Holds, Target,
                      Completed, rows
<1>5. ASSUME NEW w \in Workers PROVE ~Crash(w) /\ ~Redeliver(w)
  BY <1>5 DEF Crash, Redeliver, Undisturbed, Known, TypeOK
<1>6. QED
  BY <1>2, <1>3, <1>4, <1>5 DEF Next

(* While nothing fails around it, a RUNNING run is somebody's duty in      *)
(* every state: its dispatch is due, a message waits, or a worker executes *)
(* it.  A worker that finds another's lease and has no retry left, or      *)
(* whose memory is stale, may drop its message: the holder of the claim,   *)
(* or the one whose transaction made that memory stale, goes on.           *)
THEOREM RunIsSomeonesDuty ==
    ASSUME Undisturbed
    PROVE  Spec => []SomeoneIsResponsible
<1>1. Init => DutyInv
  <2>1. Init => \A s \in Steps : RowHeld(s) /\ RowWaits(s)
    BY DEF Init, RowHeld, RowWaits, NoApproval, NoResult
  <2>2. Init => Cared
    BY DEF Init, Cared, Waiting
  <2>3. QED
    BY <2>1, <2>2 DEF DutyInv
<1>2. Known /\ FenceInv /\ DutyInv /\ [Next]_vars => DutyInv'
  BY StepDuty
<1>3. Known /\ DutyInv => SomeoneIsResponsible
  <2> SUFFICES ASSUME Known, DutyInv, run = "RUNNING" PROVE SomeoneIsResponsible
      BY DEF SomeoneIsResponsible
  <2>1. ASSUME NEW s \in Steps, step[s].status = "RUNNING" PROVE SomeoneIsResponsible
    <3>1. PICK w \in Workers : Holds(w, s)
      BY <2>1 DEF DutyInv, RowHeld, Terminal
    <3>2. worker[w].pc # "idle"
      BY <3>1 DEF Holds
    <3>3. QED
      BY <3>2 DEF SomeoneIsResponsible
  <2>2. ASSUME NEW w \in Workers, Able(w) PROVE SomeoneIsResponsible
    <3>1. worker[w].pc # "idle"
      BY <2>2 DEF Able
    <3>2. QED
      BY <3>1 DEF SomeoneIsResponsible
  <2>3. QED
    BY <2>1, <2>2 DEF DutyInv, Cared, Waiting, SomeoneIsResponsible
<1>4. ~ContextMayFail
  BY DEF Undisturbed
<1>5. QED
  BY <1>1, <1>2, <1>3, <1>4, FencedAgreement, PTL DEF Spec
=============================================================================
