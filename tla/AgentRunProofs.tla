--------------------------- MODULE AgentRunProofs ---------------------------
(***************************************************************************)
(* Theorems about AgentRun, for every number of workers and steps, every   *)
(* plan and every bound: types, the human gate, and the event log.         *)
(***************************************************************************)
EXTENDS AgentRun, TLAPS

USE NStepsAssumption, PlanAssumption, TTLAssumption, BoundsAssumption

-----------------------------------------------------------------------------
(***************************************************************************)
(* Rows and memory after the updates the actions make.                     *)
(***************************************************************************)
(* A worker that moves to another transaction keeps a well-typed memory.   *)
LEMMA GotoType ==
    ASSUME TypeOK, NEW w \in Workers, NEW label \in Pc, Goto(w, label)
    PROVE  worker' \in [Workers -> Memory]
<1>1. worker[w] \in Memory
  BY DEF TypeOK
<1>2. [worker[w] EXCEPT !.pc = label] \in Memory
  BY <1>1 DEF Memory
<1>3. QED
  BY <1>2 DEF TypeOK, Goto

(* A worker that acknowledges its message is idle again.                   *)
LEMMA IdleType == Idle \in Memory
  BY DEF Idle, Memory, Pc, StepStatus, Terminal, Lease

LEMMA AcknowledgeType ==
    ASSUME TypeOK, NEW w \in Workers, Acknowledge(w)
    PROVE  worker' \in [Workers -> Memory]
  BY IdleType DEF TypeOK, Acknowledge

(* An appended event keeps the log well-typed.                             *)
LEMMA LogType ==
    ASSUME TypeOK, NEW type \in EventType, NEW s \in Steps \union {0}, Log(type, s)
    PROVE  events' \in Seq(EventRow)
<1>1. Event(type, s) \in EventRow
  BY DEF Event, EventRow
<1>2. QED
  BY <1>1 DEF TypeOK, Log

(* Any update of the status and of the claim of a step is a step row.      *)
LEMMA StepType ==
    ASSUME TypeOK, NEW s \in Steps, NEW st \in StepStatus
    PROVE  /\ [step EXCEPT ![s].status = st] \in [Steps -> StepRow]
           /\ [step EXCEPT ![s].status = st, ![s].token = 0, ![s].lease = 0]
                 \in [Steps -> StepRow]
<1>1. step[s] \in StepRow
  BY DEF TypeOK
<1>2. [step[s] EXCEPT !.status = st] \in StepRow
  BY <1>1 DEF StepRow
<1>3. [step[s] EXCEPT !.status = st, !.token = 0, !.lease = 0] \in StepRow
  <2>1. 0 \in Lease
    BY DEF Lease
  <2>2. QED
    BY <1>1, <2>1 DEF StepRow
<1>4. [step EXCEPT ![s].status = st] \in [Steps -> StepRow]
  BY <1>2 DEF TypeOK
<1>5. [step EXCEPT ![s].status = st, ![s].token = 0, ![s].lease = 0]
          = [step EXCEPT ![s] = [step[s] EXCEPT !.status = st, !.token = 0, !.lease = 0]]
  BY Zenon DEF TypeOK
<1>6. QED
  BY <1>3, <1>4, <1>5 DEF TypeOK

-----------------------------------------------------------------------------
(***************************************************************************)
(* The inductive invariant.  A worker acts on what it read in earlier      *)
(* transactions, so GateHonoured needs what its memory still says about    *)
(* the rows: the step it works on is of the plan, the input it compiled is *)
(* the frozen one once it has frozen it, and the gate it has passed is     *)
(* still approved.                                                         *)
(***************************************************************************)
Passed == {"claim", "resolve", "commit", "run"}
Frozen == Passed \union {"gate", "request"}
Writing == Frozen \union {"compile", "freeze", "fail"}

(* What a worker remembers agrees with the rows.                           *)
MemoryAgrees(w) ==
    /\ \/ worker[w].pc \in Writing
       \/ worker[w].pc = "restore" /\ worker[w].status # "COMPLETED"
       => Target(w) \in Steps
    /\ worker[w].pc = "freeze" => worker[w].input \in Input
    /\ worker[w].pc \in Frozen =>
          worker[w].input # NoInput /\ step[Target(w)].frozen = worker[w].input
    /\ worker[w].pc \in Passed /\ Target(w) \in Gated =>
          approval[Target(w)].status = "APPROVED"

(* The gate, the input and the result of a step agree with each other.     *)
RowsAgree(s) ==
    /\ approval[s].status # "NONE" =>
          approval[s].snapshot = step[s].frozen /\ step[s].frozen # NoInput
    /\ approval[s].status = "APPROVED" => approval[s].acted < approval[s].expires
    /\ s \in Gated /\ (step[s].status = "RUNNING" \/ result[s] # NoResult) =>
          approval[s].status = "APPROVED"
    /\ s \in Gated /\ result[s] # NoResult => result[s].input = step[s].frozen

GateInv == (\A w \in Workers : MemoryAgrees(w)) /\ (\A s \in Steps : RowsAgree(s))

-----------------------------------------------------------------------------
(***************************************************************************)
(* Type correctness.                                                       *)
(***************************************************************************)
(* The initial rows and an idle worker are of their declared types.        *)
LEMMA InitTypeOK == Init => TypeOK
<1> SUFFICES ASSUME Init PROVE TypeOK
    OBVIOUS
<1>1. events \in Seq(EventRow)
  BY DEF Init, Event, EventRow, EventType
<1>2. step \in [Steps -> StepRow]
  BY DEF Init, StepRow, StepStatus, Terminal, Lease
<1>3. approval \in [Steps -> ApprovalRow] /\ result \in [Steps -> ResultRow]
  BY DEF Init, ApprovalRow, ResultRow, NoApproval, NoResult
<1>4. QED
  BY <1>1, <1>2, <1>3, IdleType DEF Init, TypeOK, RunStatus, Terminal, Input

(* The transactions of the HTTP side keep the types.                       *)
LEMMA ApiTypeOK == TypeOK /\ Api => TypeOK'
<1> SUFFICES ASSUME TypeOK, Api PROVE TypeOK'
    OBVIOUS
<1>1. CASE Dispatch
  <2>1. events' \in Seq(EventRow)
    BY <1>1, LogType DEF Dispatch, EventType
  <2>2. QED
    BY <1>1, <2>1 DEF Dispatch, TypeOK, environment
<1>2. CASE DispatchFailed
  <2>1. events' \in Seq(EventRow)
    BY <1>2, LogType DEF DispatchFailed, EventType
  <2>2. QED
    BY <1>2, <2>1 DEF DispatchFailed, TypeOK, environment
<1>3. CASE DispatchLost
  BY <1>3 DEF DispatchLost, TypeOK, environment, rows
<1>4. ASSUME NEW s \in Steps, Approve(s) PROVE TypeOK'
  <2>1. events' \in Seq(EventRow)
    BY <1>4, LogType DEF Approve, EventType
  <2>2. [approval[s] EXCEPT !.status = "APPROVED", !.acted = clock] \in ApprovalRow
    BY DEF TypeOK, ApprovalRow, ApprovalStatus
  <2>3. approval' \in [Steps -> ApprovalRow]
    BY <1>4, <2>2 DEF Approve, TypeOK
  <2>4. step' \in [Steps -> StepRow]
    BY <1>4, StepType DEF Approve, StepStatus
  <2>5. QED
    BY <1>4, <2>1, <2>3, <2>4 DEF Approve, TypeOK, environment, RunStatus
<1>5. ASSUME NEW s \in Steps, Reject(s) PROVE TypeOK'
  <2>1. events' \in Seq(EventRow)
    BY <1>5, LogType DEF Reject, EventType
  <2>2. [approval[s] EXCEPT !.status = "REJECTED", !.acted = clock] \in ApprovalRow
    BY DEF TypeOK, ApprovalRow, ApprovalStatus
  <2>3. \A a \in ApprovalRow : [a EXCEPT !.status = "CANCELLED"] \in ApprovalRow
    BY DEF ApprovalRow, ApprovalStatus
  <2>4. [approval EXCEPT ![s].status = "REJECTED", ![s].acted = clock]
            \in [Steps -> ApprovalRow]
    BY <2>2 DEF TypeOK
  <2>5. approval' \in [Steps -> ApprovalRow]
    BY <1>5, <2>3, <2>4 DEF Reject, CancelPendingApprovals
  <2>6. step' \in [Steps -> StepRow]
    BY <1>5, StepType DEF Reject, StepStatus, Terminal
  <2>7. QED
    BY <1>5, <2>1, <2>5, <2>6 DEF Reject, TypeOK, environment, RunStatus, Terminal
<1>6. ASSUME NEW s \in Steps, Expire(s) PROVE TypeOK'
  <2>1. events' \in Seq(EventRow)
    BY <1>6, LogType DEF Expire, EventType
  <2>2. [approval[s] EXCEPT !.status = "EXPIRED"] \in ApprovalRow
    BY DEF TypeOK, ApprovalRow, ApprovalStatus
  <2>3. QED
    BY <1>6, <2>1, <2>2 DEF Expire, TypeOK, environment
<1>7. CASE Cancel
  <2>1. events' \in Seq(EventRow)
    BY <1>7, LogType DEF Cancel, EventType
  <2>2. \A a \in ApprovalRow : [a EXCEPT !.status = "CANCELLED"] \in ApprovalRow
    BY DEF ApprovalRow, ApprovalStatus
  <2>3. approval' \in [Steps -> ApprovalRow]
    BY <1>7, <2>2 DEF Cancel, CancelPendingApprovals, TypeOK
  <2>4. QED
    BY <1>7, <2>1, <2>3 DEF Cancel, TypeOK, environment, RunStatus, Terminal
<1>8. QED
  BY <1>1, <1>2, <1>3, <1>4, <1>5, <1>6, <1>7 DEF Api

(* A message that goes back to the broker keeps its counters natural.      *)
LEMMA RetryType ==
    ASSUME TypeOK, NEW w \in Workers
    PROVE  /\ [queue EXCEPT ![worker[w].retries] = @ + 1] \in [0..MaxRetries -> Nat]
           /\ RetryLater(w) => queue' \in [0..MaxRetries -> Nat]
           /\ RetryLater(w) => worker' \in [Workers -> Memory]
<1>1. worker[w].retries \in 0..MaxRetries
  BY DEF TypeOK, Memory
<1>2. queue \in [0..MaxRetries -> Nat]
  BY DEF TypeOK
<1>3. [queue EXCEPT ![worker[w].retries] = @ + 1] \in [0..MaxRetries -> Nat]
  BY <1>1, <1>2
<1>4. RetryLater(w) => queue' \in [0..MaxRetries -> Nat]
  BY <1>1, <1>2 DEF RetryLater
<1>5. RetryLater(w) => worker' \in [Workers -> Memory]
  BY AcknowledgeType DEF RetryLater
<1>6. QED
  BY <1>3, <1>4, <1>5

(* A transaction that writes no row keeps the types if the broker and the  *)
(* memories keep theirs.                                                   *)
LEMMA ReadOnlyType ==
    ASSUME TypeOK, UNCHANGED <<rows, environment>>,
           queue' \in [0..MaxRetries -> Nat], worker' \in [Workers -> Memory]
    PROVE  TypeOK'
  BY DEF TypeOK, rows, environment

(* What a worker reads from the rows, from the broker and from the context *)
(* fits its memory.                                                        *)
LEMMA ReadType ==
    ASSUME TypeOK, NEW w \in Workers,
           Receive(w) \/ Load(w) \/ Restore(w) \/ Compile(w) \/ AfterResult(w) \/ ReadState(w)
    PROVE  TypeOK'
<1>1. CASE Receive(w)
  <2>1. \A r \in 0..MaxRetries :
            [Idle EXCEPT !.pc = "load", !.retries = r] \in Memory
    BY IdleType DEF Memory, Pc
  <2>2. worker' \in [Workers -> Memory]
    BY <1>1, <2>1 DEF Receive, TypeOK
  <2>3. queue' \in [0..MaxRetries -> Nat]
    <3>1. PICK r \in 0..MaxRetries : queue[r] > 0 /\ queue' = [queue EXCEPT ![r] = @ - 1]
      BY <1>1 DEF Receive
    <3>2. queue[r] - 1 \in Nat /\ queue \in [0..MaxRetries -> Nat]
      BY <3>1 DEF TypeOK
    <3>3. QED
      BY <3>1, <3>2
  <2>4. QED
    BY <1>1, <2>2, <2>3, ReadOnlyType DEF Receive, TypeOK
<1>2. CASE Load(w)
  <2>1. worker[w].retries \in 0..MaxRetries
    BY DEF TypeOK, Memory
  <2>2. [Idle EXCEPT !.pc = "restore", !.retries = worker[w].retries,
                     !.done = Steps, !.status = "COMPLETED"] \in Memory
    BY <2>1, IdleType DEF Memory, Pc, StepStatus, Terminal
  <2>3. \A s \in Steps :
            [Idle EXCEPT !.pc = "restore", !.retries = worker[w].retries,
                         !.done = Completed, !.next = s,
                         !.status = step[s].status, !.lease = step[s].lease] \in Memory
    <3>1. Completed \in SUBSET Steps
      BY DEF Completed
    <3>2. \A s \in Steps : step[s].status \in StepStatus /\ step[s].lease \in Lease
      BY DEF TypeOK, StepRow
    <3>3. QED
      BY <2>1, <3>1, <3>2, IdleType DEF Memory, Pc
  <2>4. worker' \in [Workers -> Memory]
    <3>1. CASE Goto(w, "state")
      BY <3>1, GotoType DEF Pc
    <3>2. CASE ~Goto(w, "state")
      BY <1>2, <2>2, <2>3, <3>2 DEF Load, TypeOK
    <3>3. QED
      BY <3>1, <3>2
  <2>5. QED
    BY <1>2, <2>4, ReadOnlyType DEF Load, TypeOK
<1>3. CASE Restore(w)
  <2>1. queue' \in [0..MaxRetries -> Nat]
    BY <1>3, RetryType DEF Restore, TypeOK
  <2>2. worker' \in [Workers -> Memory]
    BY <1>3, RetryType, GotoType, AcknowledgeType DEF Restore, Pc
  <2>3. QED
    BY <1>3, <2>1, <2>2, ReadOnlyType DEF Restore, TypeOK
<1>4. CASE Compile(w)
  <2>1. worker[w] \in Memory /\ context \in Input
    BY DEF TypeOK
  <2>2. [worker[w] EXCEPT !.pc = "freeze", !.input = context] \in Memory
    BY <2>1 DEF Memory, Pc
  <2>3. [worker EXCEPT ![w].pc = "freeze", ![w].input = context]
            = [worker EXCEPT ![w] = [worker[w] EXCEPT !.pc = "freeze", !.input = context]]
    BY Zenon DEF TypeOK
  <2>4. worker' \in [Workers -> Memory]
    BY <1>4, <2>2, <2>3, GotoType DEF Compile, TypeOK, Pc
  <2>5. QED
    BY <1>4, <2>4, ReadOnlyType DEF Compile, TypeOK
<1>5. CASE AfterResult(w)
  <2>1. worker' \in [Workers -> Memory]
    BY <1>5, GotoType DEF AfterResult, Pc
  <2>2. QED
    BY <1>5, <2>1, ReadOnlyType DEF AfterResult, TypeOK
<1>6. CASE ReadState(w)
  <2>1. worker' \in [Workers -> Memory]
    BY <1>6, GotoType, AcknowledgeType DEF ReadState, Pc
  <2>2. QED
    BY <1>6, <2>1, ReadOnlyType DEF ReadState, TypeOK
<1>7. QED
  BY <1>1, <1>2, <1>3, <1>4, <1>5, <1>6

(* What a worker writes to the rows keeps the types.                       *)
LEMMA WriteType ==
    ASSUME TypeOK, NEW w \in Workers, worker[w].next \in Steps,
           \/ Freeze(w) \/ Gate(w) \/ RequestApproval(w) \/ Claim(w) \/ Resolve(w)
           \/ CommitResult(w) \/ PersistResult(w) \/ HandleStepFailure(w) \/ FailRun(w)
    PROVE  TypeOK'
<1> DEFINE s == worker[w].next
<1>0. s \in Steps /\ s = Target(w) /\ worker[w] \in Memory /\ step[s] \in StepRow
  BY DEF TypeOK, Target
<1> HIDE DEF s
<1>1. CASE Freeze(w)
  <2>1. [step[s] EXCEPT !.frozen = worker[w].input] \in StepRow
    BY <1>0 DEF StepRow, Memory
  <2>2. step' \in [Steps -> StepRow]
    BY <1>0, <1>1, <2>1 DEF Freeze, TypeOK
  <2>3. worker' \in [Workers -> Memory]
    BY <1>1, GotoType, AcknowledgeType DEF Freeze, Pc
  <2>4. QED
    BY <1>1, <2>2, <2>3 DEF Freeze, TypeOK, environment
<1>2. CASE Gate(w)
  <2>1. worker' \in [Workers -> Memory]
    BY <1>2, GotoType, AcknowledgeType DEF Gate, Pc
  <2>2. QED
    BY <1>2, <2>1, ReadOnlyType DEF Gate, TypeOK
<1>3. CASE RequestApproval(w)
  <2>1. worker' \in [Workers -> Memory]
    BY <1>3, GotoType, AcknowledgeType DEF RequestApproval, Pc
  <2>2. [status |-> "PENDING", snapshot |-> step[s].frozen,
         expires |-> clock + ApprovalTTL, acted |-> 0] \in ApprovalRow
    <3>1. clock + ApprovalTTL \in 0..(MaxClock + ApprovalTTL) /\ 0 \in 0..MaxClock
      BY DEF TypeOK
    <3>2. step[s].frozen \in Input \union {NoInput}
      BY <1>0 DEF StepRow
    <3>3. QED
      BY <3>1, <3>2 DEF ApprovalRow, ApprovalStatus
  <2>3. approval' \in [Steps -> ApprovalRow]
    BY <1>0, <1>3, <2>2 DEF RequestApproval, TypeOK
  <2>4. step' \in [Steps -> StepRow]
    <3>1. [step EXCEPT ![s].status = "AWAITING_APPROVAL"] \in [Steps -> StepRow]
      BY <1>0, StepType DEF StepStatus
    <3>2. step' \in {step, [step EXCEPT ![s].status = "AWAITING_APPROVAL"]}
      BY <1>0, <1>3 DEF RequestApproval
    <3>3. QED
      BY <3>1, <3>2 DEF TypeOK
  <2>5. events' \in Seq(EventRow)
    BY <1>0, <1>3, LogType DEF RequestApproval, EventType, TypeOK
  <2>6. run' \in RunStatus
    BY <1>3 DEF RequestApproval, TypeOK, RunStatus
  <2>7. QED
    BY <1>3, <2>1, <2>3, <2>4, <2>5, <2>6 DEF RequestApproval, TypeOK, environment
<1>4. CASE Claim(w)
  <2>1. ClaimedStep(s) \in StepRow
    <3>1. clock + LeaseTTL \in Lease
      BY DEF TypeOK, Lease
    <3>2. step[s].attempts + 1 \in Nat
      BY <1>0 DEF StepRow
    <3>3. QED
      BY <1>0, <3>1, <3>2 DEF ClaimedStep, StepRow, StepStatus
  <2>2. step' \in [Steps -> StepRow]
    BY <1>0, <1>4, <2>1 DEF Claim, TypeOK
  <2>3. events' \in Seq(EventRow)
    BY <1>0, <1>4, LogType DEF Claim, EventType, TypeOK
  <2>4. queue' \in [0..MaxRetries -> Nat]
    BY <1>4, RetryType DEF Claim, TypeOK
  <2>5. worker' \in [Workers -> Memory]
    <3>1. \A label \in {"run", "resolve"} :
              [worker[w] EXCEPT !.pc = label, !.token = step[s].attempts + 1] \in Memory
      <4>1. step[s].attempts + 1 \in Nat
        BY <1>0 DEF StepRow
      <4>2. QED
        BY <1>0, <4>1 DEF Memory, Pc
    <3>2. \A label :
              [worker EXCEPT ![w].pc = label, ![w].token = step[s].attempts + 1]
            = [worker EXCEPT ![w] = [worker[w] EXCEPT !.pc = label,
                                                      !.token = step[s].attempts + 1]]
      BY Zenon DEF TypeOK
    <3>3. CASE Goto(w, "state") \/ Acknowledge(w) \/ RetryLater(w)
      BY <3>3, GotoType, AcknowledgeType, RetryType DEF Pc
    <3>4. CASE worker' = [worker EXCEPT ![w].pc = IF s \in Local THEN "run" ELSE "resolve",
                                        ![w].token = step[s].attempts + 1]
      BY <3>1, <3>2, <3>4 DEF TypeOK
    <3>5. QED
      BY <1>0, <1>4, <3>3, <3>4 DEF Claim
  <2>6. QED
    BY <1>4, <2>2, <2>3, <2>4, <2>5 DEF Claim, TypeOK, environment
<1>5. CASE Resolve(w)
  <2>1. worker' \in [Workers -> Memory]
    BY <1>5, GotoType DEF Resolve, Pc
  <2>2. QED
    BY <1>5, <2>1, ReadOnlyType DEF Resolve, TypeOK
<1>6. ASSUME StoreResult(w)
      PROVE  /\ worker' \in [Workers -> Memory] /\ step' \in [Steps -> StepRow]
             /\ result' \in [Steps -> ResultRow] /\ events' \in Seq(EventRow)
  <2>1. [attempt |-> worker[w].token, input |-> worker[w].input] \in ResultRow
    BY <1>0 DEF Memory, ResultRow
  <2>2. result' \in [Steps -> ResultRow]
    BY <1>0, <1>6, <2>1 DEF StoreResult, TypeOK
  <2>3. step' \in [Steps -> StepRow]
    BY <1>0, <1>6, StepType DEF StoreResult, StepStatus, Terminal
  <2>4. events' \in Seq(EventRow)
    BY <1>0, <1>6, LogType DEF StoreResult, EventType
  <2>5. worker' \in [Workers -> Memory]
    BY <1>6, GotoType DEF StoreResult, Pc
  <2>6. QED
    BY <2>2, <2>3, <2>4, <2>5
<1>7. CASE CommitResult(w)
  <2>1. worker' \in [Workers -> Memory]
    BY <1>6, <1>7, GotoType DEF CommitResult, Pc
  <2>2. /\ step' \in [Steps -> StepRow] /\ result' \in [Steps -> ResultRow]
        /\ events' \in Seq(EventRow)
    BY <1>6, <1>7 DEF CommitResult, TypeOK
  <2>3. QED
    BY <1>7, <2>1, <2>2 DEF CommitResult, TypeOK, environment
<1>8. CASE PersistResult(w)
  <2>1. worker' \in [Workers -> Memory]
    BY <1>6, <1>8, AcknowledgeType DEF PersistResult
  <2>2. /\ step' \in [Steps -> StepRow] /\ result' \in [Steps -> ResultRow]
        /\ events' \in Seq(EventRow)
    BY <1>6, <1>8 DEF PersistResult, TypeOK
  <2>3. QED
    BY <1>8, <2>1, <2>2 DEF PersistResult, TypeOK, environment
<1>9. CASE HandleStepFailure(w)
  <2>1. worker' \in [Workers -> Memory]
    BY <1>9, GotoType, AcknowledgeType DEF HandleStepFailure, Pc
  <2>2. step' \in [Steps -> StepRow]
    <3>1. [step EXCEPT ![s].status = "PENDING", ![s].token = 0, ![s].lease = 0]
              \in [Steps -> StepRow]
      BY <1>0, StepType DEF StepStatus
    <3>2. step' \in {step, [step EXCEPT ![s].status = "PENDING", ![s].token = 0,
                                        ![s].lease = 0]}
      BY <1>0, <1>9 DEF HandleStepFailure
    <3>3. QED
      BY <3>1, <3>2 DEF TypeOK
  <2>3. events' \in Seq(EventRow)
    BY <1>0, <1>9, LogType DEF HandleStepFailure, EventType, TypeOK
  <2>4. QED
    BY <1>9, <2>1, <2>2, <2>3 DEF HandleStepFailure, TypeOK, environment
<1>10. CASE FailRun(w)
  <2>1. worker' \in [Workers -> Memory]
    BY <1>10, GotoType, AcknowledgeType DEF FailRun, Pc
  <2>2. step' \in [Steps -> StepRow]
    <3>1. [step EXCEPT ![s].status = "FAILED", ![s].token = 0, ![s].lease = 0]
              \in [Steps -> StepRow]
      BY <1>0, StepType DEF StepStatus, Terminal
    <3>2. step' \in {step, [step EXCEPT ![s].status = "FAILED", ![s].token = 0,
                                        ![s].lease = 0]}
      BY <1>0, <1>10 DEF FailRun
    <3>3. QED
      BY <3>1, <3>2 DEF TypeOK
  <2>3. events' \in Seq(EventRow)
    <3>1. Event("STEP_FAILED", s) \in EventRow /\ Event("RUN_FAILED", s) \in EventRow
      BY <1>0 DEF Event, EventRow, EventType
    <3>2. <<Event("STEP_FAILED", s), Event("RUN_FAILED", s)>> \in Seq(EventRow)
      BY <3>1
    <3>3. /\ events \in Seq(EventRow)
          /\ \/ events' = events
             \/ events' = events \o <<Event("STEP_FAILED", s), Event("RUN_FAILED", s)>>
      BY <1>0, <1>10 DEF FailRun, TypeOK
    <3>4. QED
      BY <3>2, <3>3
  <2>4. run' \in RunStatus
    BY <1>10 DEF FailRun, TypeOK, RunStatus, Terminal
  <2>5. QED
    BY <1>10, <2>1, <2>2, <2>3, <2>4 DEF FailRun, TypeOK, environment
<1>11. QED
  BY <1>1, <1>2, <1>3, <1>4, <1>5, <1>7, <1>8, <1>9, <1>10

(* Every step of the system keeps the types.                               *)
LEMMA StepTypeOK ==
    ASSUME TypeOK, GateInv, [Next]_vars
    PROVE  TypeOK'
<1>1. CASE UNCHANGED vars
  BY <1>1 DEF TypeOK, vars
<1>2. CASE Api
  BY <1>2, ApiTypeOK
<1>3. ASSUME NEW w \in Workers, Work(w) PROVE TypeOK'
  <2>1. CASE \/ Receive(w) \/ Load(w) \/ Restore(w) \/ Compile(w)
             \/ AfterResult(w) \/ ReadState(w)
    BY <2>1, ReadType
  <2>2. CASE CompleteRun(w)
    <3>1. worker' \in [Workers -> Memory]
      BY <2>2, GotoType, AcknowledgeType DEF CompleteRun, Pc
    <3>2. events' \in Seq(EventRow)
      BY <2>2, LogType DEF CompleteRun, EventType, TypeOK
    <3>3. QED
      BY <2>2, <3>1, <3>2 DEF CompleteRun, TypeOK, environment, RunStatus, Terminal
  <2>3. CASE \/ Freeze(w) \/ Gate(w) \/ RequestApproval(w) \/ Claim(w) \/ Resolve(w)
             \/ CommitResult(w) \/ PersistResult(w) \/ HandleStepFailure(w) \/ FailRun(w)
    <3>1. worker[w].pc \in Writing
      BY <2>3 DEF Freeze, Gate, RequestApproval, Claim, Resolve, CommitResult,
                  PersistResult, HandleStepFailure, FailRun, Writing, Frozen, Passed
    <3>2. worker[w].next \in Steps
      BY <3>1 DEF GateInv, MemoryAgrees, Target
    <3>3. QED
      BY <2>3, <3>2, WriteType
  <2>4. QED
    BY <1>3, <2>1, <2>2, <2>3 DEF Work
<1>4. ASSUME NEW w \in Workers, Crash(w) PROVE TypeOK'
  <2>1. worker' \in [Workers -> Memory] /\ queue' \in [0..MaxRetries -> Nat]
    BY <1>4, AcknowledgeType, RetryType DEF Crash
  <2>2. faults' \in 0..MaxFaults
    BY <1>4 DEF Crash, TypeOK
  <2>3. QED
    BY <1>4, <2>1, <2>2 DEF Crash, TypeOK, rows
<1>5. ASSUME NEW w \in Workers, Redeliver(w) PROVE TypeOK'
  <2>1. queue' \in [0..MaxRetries -> Nat]
    BY <1>5, RetryType DEF Redeliver
  <2>2. faults' \in 0..MaxFaults
    BY <1>5 DEF Redeliver, TypeOK
  <2>3. QED
    BY <1>5, <2>1, <2>2 DEF Redeliver, TypeOK, rows
<1>6. CASE Tick
  BY <1>6 DEF Tick, TypeOK, rows
<1>7. CASE ContextDrifts
  BY <1>7 DEF ContextDrifts, TypeOK, rows, Input
<1>8. QED
  BY <1>1, <1>2, <1>3, <1>4, <1>5, <1>6, <1>7 DEF Next

-----------------------------------------------------------------------------
(***************************************************************************)
(* The inductive step of GateInv.                                          *)
(***************************************************************************)
(* What no transaction undoes: a frozen input and an approval.             *)
Settled(s) ==
    /\ step[s].frozen # NoInput => step'[s].frozen = step[s].frozen
    /\ approval[s].status = "APPROVED" => approval'[s].status = "APPROVED"

(* The rows of a step that a transaction leaves alone, or only takes out of RUNNING. *)
Quiet(s) ==
    /\ step'[s].frozen = step[s].frozen
    /\ step'[s].status = "RUNNING" => step[s].status = "RUNNING"
    /\ approval'[s] = approval[s]
    /\ result'[s] = result[s]

LEMMA QuietRows ==
    ASSUME NEW s \in Steps, RowsAgree(s), Quiet(s)
    PROVE  RowsAgree(s)' /\ Settled(s)
  BY DEF RowsAgree, Quiet, Settled

LEMMA UnchangedRows ==
    ASSUME GateInv, UNCHANGED rows, NEW s \in Steps
    PROVE  RowsAgree(s)' /\ Settled(s)
  BY DEF GateInv, RowsAgree, Settled, rows

(* A worker that sleeps while others write keeps its agreement.            *)
LEMMA UnchangedMemory ==
    ASSUME NEW v \in Workers, MemoryAgrees(v), worker'[v] = worker[v],
           \A s \in Steps : Settled(s)
    PROVE  MemoryAgrees(v)'
<1>1. Target(v)' = Target(v)
  BY DEF Target
<1>2. worker[v].pc \in Frozen => Target(v) \in Steps
  BY DEF MemoryAgrees, Writing
<1>3. worker[v].pc \in Passed => Target(v) \in Steps
  BY <1>2 DEF Frozen
<1>4. QED
  BY <1>1, <1>2, <1>3 DEF MemoryAgrees, Settled

(* A worker between two steps of the plan remembers nothing.               *)
LEMMA NothingRemembered ==
    ASSUME TypeOK, NEW w \in Workers, NEW label,
           label \in {"load", "state", "after", "complete"},
           Acknowledge(w) \/ Goto(w, label)
    PROVE  MemoryAgrees(w)'
<1>1. worker'[w].pc \in {"idle", "load", "state", "after", "complete"}
  BY DEF TypeOK, Acknowledge, Goto, Idle, Memory
<1>2. QED
  BY <1>1 DEF MemoryAgrees, Writing, Frozen, Passed

(* An action of a worker only changes that worker's memory.                *)
LEMMA OthersKept ==
    ASSUME TypeOK, NEW w \in Workers, Work(w) \/ Crash(w), NEW v \in Workers \ {w}
    PROVE  worker'[v] = worker[v]
<1>1. CASE Receive(w) \/ Load(w) \/ Restore(w) \/ Compile(w)
  BY <1>1 DEF TypeOK, Receive, Load, Restore, Compile, Goto, Acknowledge, RetryLater
<1>2. CASE Freeze(w) \/ Gate(w) \/ RequestApproval(w) \/ Claim(w)
  BY <1>2 DEF TypeOK, Freeze, Gate, RequestApproval, Claim, Goto, Acknowledge, RetryLater
<1>3. CASE Resolve(w) \/ CommitResult(w) \/ PersistResult(w) \/ HandleStepFailure(w)
  BY <1>3 DEF TypeOK, Resolve, CommitResult, PersistResult, HandleStepFailure,
              StoreResult, Goto, Acknowledge
<1>4. CASE FailRun(w) \/ AfterResult(w) \/ CompleteRun(w) \/ ReadState(w) \/ Crash(w)
  BY <1>4 DEF TypeOK, FailRun, AfterResult, CompleteRun, ReadState, Crash, Goto, Acknowledge
<1>5. QED
  BY <1>1, <1>2, <1>3, <1>4 DEF Work

(* So the inductive step of a worker's action is about its own memory and  *)
(* about the rows it writes.                                               *)
LEMMA WorkerFrame ==
    ASSUME TypeOK, GateInv, NEW w \in Workers, Work(w) \/ Crash(w),
           MemoryAgrees(w)', \A s \in Steps : RowsAgree(s)' /\ Settled(s)
    PROVE  GateInv'
<1>1. \A v \in Workers \ {w} : MemoryAgrees(v)'
  BY OthersKept, UnchangedMemory DEF GateInv
<1>2. QED
  BY <1>1 DEF GateInv

(* The decisions of the HTTP side.                                         *)
LEMMA ApiGateInv ==
    ASSUME TypeOK, GateInv, Api
    PROVE  GateInv'
<1>1. worker' = worker
  BY DEF Api, Dispatch, DispatchFailed, DispatchLost, Approve, Reject, Expire, Cancel
<1>2. \A s \in Steps : RowsAgree(s)' /\ Settled(s)
  <2>1. CASE Dispatch \/ DispatchFailed \/ DispatchLost
    BY <2>1, QuietRows DEF Dispatch, DispatchFailed, DispatchLost, rows, Quiet, GateInv
  <2>2. ASSUME NEW s \in Steps, Approve(s), NEW t \in Steps
        PROVE  RowsAgree(t)' /\ Settled(t)
    <3>1. /\ approval' = [approval EXCEPT ![s] = [approval[s] EXCEPT !.status = "APPROVED",
                                                                      !.acted = clock]]
          /\ step' = [step EXCEPT ![s] = [step[s] EXCEPT !.status = "PENDING"]]
      BY <2>2, Zenon DEF Approve, TypeOK
    <3>2. approval[s] \in ApprovalRow /\ step[s] \in StepRow
      BY DEF TypeOK
    <3>3. CASE t = s
      <4>1. /\ approval'[s].status = "APPROVED" /\ approval'[s].acted = clock
            /\ approval'[s].snapshot = approval[s].snapshot
            /\ approval'[s].expires = approval[s].expires
            /\ step'[s].frozen = step[s].frozen /\ result' = result
        BY <2>2, <3>1, <3>2 DEF Approve, TypeOK, ApprovalRow, StepRow
      <4>2. RowsAgree(s) /\ approval[s].status = "PENDING" /\ clock < approval[s].expires
        BY <2>2 DEF Approve, GateInv
      <4>3. QED
        BY <3>3, <4>1, <4>2 DEF RowsAgree, Settled
    <3>4. CASE t # s
      <4>1. Quiet(t)
        BY <2>2, <3>1, <3>4 DEF Quiet, Approve, TypeOK
      <4>2. QED
        BY <4>1, QuietRows DEF GateInv
    <3>5. QED
      BY <3>3, <3>4
  <2>3. ASSUME NEW s \in Steps, Reject(s), NEW t \in Steps
        PROVE  RowsAgree(t)' /\ Settled(t)
    <3>1. /\ approval[t].status = "PENDING" => approval'[t].status \in {"REJECTED", "CANCELLED"}
          /\ approval[t].status # "PENDING" => approval'[t] = approval[t]
          /\ approval'[t].snapshot = approval[t].snapshot
      BY <2>3 DEF Reject, CancelPendingApprovals, TypeOK, ApprovalRow
    <3>2. /\ step'[t].frozen = step[t].frozen
          /\ step'[t].status = "RUNNING" => step[t].status = "RUNNING"
          /\ result' = result
      BY <2>3 DEF Reject, TypeOK, StepRow
    <3>3. QED
      BY <3>1, <3>2 DEF GateInv, RowsAgree, Settled
  <2>4. ASSUME NEW s \in Steps, Expire(s), NEW t \in Steps
        PROVE  RowsAgree(t)' /\ Settled(t)
    <3>1. /\ approval[t].status = "PENDING" => approval'[t].status \in {"PENDING", "EXPIRED"}
          /\ approval[t].status # "PENDING" => approval'[t] = approval[t]
          /\ approval'[t].snapshot = approval[t].snapshot
      BY <2>4 DEF Expire, TypeOK, ApprovalRow
    <3>2. step' = step /\ result' = result
      BY <2>4 DEF Expire
    <3>3. QED
      BY <3>1, <3>2 DEF GateInv, RowsAgree, Settled
  <2>5. ASSUME Cancel, NEW t \in Steps
        PROVE  RowsAgree(t)' /\ Settled(t)
    <3>1. /\ approval[t].status = "PENDING" => approval'[t].status = "CANCELLED"
          /\ approval[t].status # "PENDING" => approval'[t] = approval[t]
          /\ approval'[t].snapshot = approval[t].snapshot
      BY <2>5 DEF Cancel, CancelPendingApprovals, TypeOK, ApprovalRow
    <3>2. step' = step /\ result' = result
      BY <2>5 DEF Cancel
    <3>3. QED
      BY <3>1, <3>2 DEF GateInv, RowsAgree, Settled
  <2>6. QED
    BY <2>1, <2>2, <2>3, <2>4, <2>5 DEF Api
<1>3. QED
  BY <1>1, <1>2, UnchangedMemory DEF GateInv

(* The transactions of a worker that write no row of a step.               *)
LEMMA ReaderGateInv ==
    ASSUME TypeOK, GateInv, NEW w \in Workers,
           \/ Receive(w) \/ Load(w) \/ Restore(w) \/ Compile(w) \/ Gate(w) \/ Resolve(w)
           \/ AfterResult(w) \/ CompleteRun(w) \/ ReadState(w) \/ Crash(w)
    PROVE  GateInv'
<1>0. worker[w] \in Memory /\ worker \in [Workers -> Memory] /\ MemoryAgrees(w)
  BY DEF TypeOK, GateInv
<1>1. \A s \in Steps : RowsAgree(s)' /\ Settled(s)
  <2>1. CASE CompleteRun(w)
    BY <2>1, QuietRows DEF CompleteRun, Quiet, GateInv
  <2>2. CASE ~CompleteRun(w)
    BY <2>2, UnchangedRows DEF Receive, Load, Restore, Compile, Gate, Resolve,
                               AfterResult, ReadState, Crash
  <2>3. QED
    BY <2>1, <2>2
<1>2. MemoryAgrees(w)'
  <2>1. CASE AfterResult(w) \/ CompleteRun(w) \/ ReadState(w) \/ Crash(w)
    BY <2>1, NothingRemembered DEF AfterResult, CompleteRun, ReadState, Crash
  <2>2. CASE Receive(w)
    <3>1. worker'[w].pc = "load"
      <4>1. PICK r \in 0..MaxRetries :
               worker' = [worker EXCEPT ![w] = [Idle EXCEPT !.pc = "load", !.retries = r]]
        BY <2>2 DEF Receive
      <4>2. QED
        BY <4>1, <1>0 DEF Idle
    <3>2. QED
      BY <3>1 DEF MemoryAgrees, Writing, Frozen, Passed
  <2>3. CASE Load(w)
    <3>1. CASE Goto(w, "state")
      BY <3>1, NothingRemembered
    <3>2. CASE ~Goto(w, "state")
      <4>1. /\ worker'[w].pc = "restore"
            /\ worker'[w].status # "COMPLETED" => worker'[w].next \in Steps
        <5>1. CASE worker' = [worker EXCEPT ![w] =
                     [Idle EXCEPT !.pc = "restore", !.retries = worker[w].retries,
                                  !.done = Steps, !.status = "COMPLETED"]]
          BY <5>1, <1>0 DEF Idle
        <5>2. ASSUME NEW s \in Steps,
                     worker' = [worker EXCEPT ![w] =
                        [Idle EXCEPT !.pc = "restore", !.retries = worker[w].retries,
                                     !.done = Completed, !.next = s,
                                     !.status = step[s].status, !.lease = step[s].lease]]
              PROVE  worker'[w].pc = "restore" /\ worker'[w].next \in Steps
          BY <5>2, <1>0 DEF Idle
        <5>3. QED
          BY <2>3, <3>2, <5>1, <5>2 DEF Load
      <4>2. QED
        BY <4>1 DEF MemoryAgrees, Writing, Frozen, Passed, Target
    <3>3. QED
      BY <3>1, <3>2
  <2>4. CASE Restore(w)
    <3>1. CASE Acknowledge(w) \/ RetryLater(w) \/ Goto(w, "complete")
      BY <3>1, NothingRemembered DEF RetryLater
    <3>2. CASE /\ worker[w].status # "COMPLETED"
               /\ Goto(w, IF worker[w].status = "FAILED" THEN "fail" ELSE "compile")
      <4>1. worker'[w].pc \in {"fail", "compile"} /\ worker'[w].next = worker[w].next
        BY <3>2, <1>0 DEF Goto, Memory
      <4>2. worker[w].next \in Steps
        BY <2>4, <3>2, <1>0 DEF MemoryAgrees, Restore, Target
      <4>3. QED
        BY <4>1, <4>2 DEF MemoryAgrees, Writing, Frozen, Passed, Target
    <3>3. QED
      BY <2>4, <3>1, <3>2 DEF Restore
  <2>5. CASE Compile(w)
    <3>1. /\ worker'[w].next = worker[w].next
          /\ \/ worker'[w].pc = "fail"
             \/ worker'[w].pc = "freeze" /\ worker'[w].input = context
      BY <2>5, <1>0 DEF Compile, Goto, Memory
    <3>2. worker[w].next \in Steps /\ context \in Input
      BY <2>5, <1>0 DEF MemoryAgrees, Compile, Writing, Target, TypeOK
    <3>3. QED
      BY <3>1, <3>2 DEF MemoryAgrees, Writing, Frozen, Passed, Target
  <2>6. CASE Gate(w)
    <3>1. CASE Acknowledge(w)
      BY <3>1, NothingRemembered
    <3>2. CASE Goto(w, "request") \/ (Approved(Target(w)) /\ Goto(w, "claim"))
      <4>1. /\ worker'[w].next = worker[w].next /\ worker'[w].input = worker[w].input
            /\ \/ worker'[w].pc = "request"
               \/ worker'[w].pc = "claim" /\ approval[Target(w)].status = "APPROVED"
        BY <3>2, <1>0 DEF Goto, Memory, Approved
      <4>2. worker[w].pc = "gate" /\ step' = step /\ approval' = approval
        BY <2>6 DEF Gate, rows
      <4>3. QED
        BY <1>0, <4>1, <4>2 DEF MemoryAgrees, Writing, Frozen, Passed, Target
    <3>3. QED
      BY <2>6, <3>1, <3>2 DEF Gate
  <2>7. CASE Resolve(w)
    <3>1. /\ worker'[w].next = worker[w].next /\ worker'[w].input = worker[w].input
          /\ worker'[w].pc \in {"commit", "fail"}
      BY <2>7, <1>0 DEF Resolve, Goto, Memory
    <3>2. worker[w].pc = "resolve" /\ step' = step /\ approval' = approval
      BY <2>7 DEF Resolve, rows
    <3>3. QED
      BY <1>0, <3>1, <3>2 DEF MemoryAgrees, Writing, Frozen, Passed, Target
  <2>8. QED
    BY <2>1, <2>2, <2>3, <2>4, <2>5, <2>6, <2>7
<1>3. QED
  BY <1>1, <1>2, WorkerFrame DEF Work

(* The transactions of a worker that write the rows of its step.           *)
LEMMA WriterGateInv ==
    ASSUME TypeOK, GateInv, NEW w \in Workers, NEW s \in Steps, s = Target(w),
           \/ Freeze(w) \/ RequestApproval(w) \/ Claim(w) \/ CommitResult(w)
           \/ PersistResult(w) \/ HandleStepFailure(w) \/ FailRun(w)
    PROVE  GateInv'
<1>2. s \in Steps /\ MemoryAgrees(w) /\ RowsAgree(s)
  BY DEF GateInv
<1>3. /\ worker[w] \in Memory /\ worker \in [Workers -> Memory]
      /\ step[s] \in StepRow /\ step \in [Steps -> StepRow]
      /\ approval \in [Steps -> ApprovalRow] /\ result \in [Steps -> ResultRow]
  BY <1>2 DEF TypeOK
<1>4. s = worker[w].next /\ s = Target(w)
  BY DEF Target
<1>5. SUFFICES /\ MemoryAgrees(w)' /\ RowsAgree(s)' /\ Settled(s)
               /\ \A t \in Steps \ {s} : Quiet(t)
  BY QuietRows, WorkerFrame DEF Work, GateInv
<1>6. CASE Freeze(w)
  <2>1. \A t \in Steps \ {s} : Quiet(t)
    BY <1>2, <1>3, <1>6, <1>4 DEF Freeze, Quiet
  <2>2. CASE Acknowledge(w) /\ UNCHANGED step
    <3>1. Quiet(s)
      BY <1>6, <2>2 DEF Freeze, Quiet
    <3>2. QED
      BY <1>2, <2>1, <2>2, <3>1, QuietRows, NothingRemembered
  <2>3. CASE /\ step[s].frozen \in {NoInput, worker[w].input}
             /\ step' = [step EXCEPT ![s].frozen = worker[w].input]
             /\ Goto(w, IF s \in Gated THEN "gate" ELSE "claim")
    <3>1. /\ step'[s].frozen = worker[w].input /\ step'[s].status = step[s].status
          /\ approval' = approval /\ result' = result
      BY <1>2, <1>3, <1>6, <2>3 DEF Freeze, StepRow
    <3>2. worker[w].input # NoInput
      BY <1>2, <1>6 DEF MemoryAgrees, Freeze, Input, NoInput
    <3>3. RowsAgree(s)' /\ Settled(s)
      BY <1>2, <2>3, <3>1, <3>2 DEF RowsAgree, Settled
    <3>4. /\ worker'[w].next = s /\ worker'[w].input = worker[w].input
          /\ worker'[w].pc = IF s \in Gated THEN "gate" ELSE "claim"
      BY <1>3, <1>4, <2>3 DEF Goto, Memory
    <3>5. MemoryAgrees(w)'
      BY <1>2, <3>1, <3>2, <3>4 DEF MemoryAgrees, Target, Writing, Frozen, Passed
    <3>6. QED
      BY <2>1, <3>3, <3>5
  <2>4. QED
    BY <1>6, <2>2, <2>3, <1>4 DEF Freeze
<1>7. CASE RequestApproval(w)
  <2>1. MemoryAgrees(w)'
    BY <1>7, NothingRemembered DEF RequestApproval
  <2>2. \A t \in Steps \ {s} : Quiet(t)
    BY <1>2, <1>3, <1>7, <1>4 DEF RequestApproval, Quiet
  <2>3. CASE UNCHANGED <<step, approval>>
    BY <1>2, <1>7, <2>1, <2>2, <2>3, QuietRows DEF RequestApproval, Quiet
  <2>4. CASE /\ approval[s].status = "NONE"
             /\ approval' = [approval EXCEPT ![s] =
                   [status |-> "PENDING", snapshot |-> step[s].frozen,
                    expires |-> clock + ApprovalTTL, acted |-> 0]]
             /\ step' = [step EXCEPT ![s].status = "AWAITING_APPROVAL"]
    <3>1. /\ approval'[s].status = "PENDING" /\ approval'[s].snapshot = step[s].frozen
          /\ step'[s].frozen = step[s].frozen /\ step'[s].status = "AWAITING_APPROVAL"
          /\ result' = result
      BY <1>2, <1>3, <1>7, <2>4 DEF RequestApproval, StepRow
    <3>2. step[s].frozen # NoInput
      BY <1>2, <1>7, <1>4 DEF MemoryAgrees, RequestApproval, Frozen
    <3>3. RowsAgree(s)' /\ Settled(s)
      BY <1>2, <2>4, <3>1, <3>2 DEF RowsAgree, Settled
    <3>4. QED
      BY <2>1, <2>2, <3>3
  <2>5. QED
    BY <1>7, <2>3, <2>4, <1>4 DEF RequestApproval
<1>8. CASE Claim(w)
  <2>1. \A t \in Steps \ {s} : Quiet(t)
    BY <1>2, <1>3, <1>8, <1>4 DEF Claim, Quiet
  <2>2. CASE UNCHANGED step /\ (Goto(w, "state") \/ Acknowledge(w) \/ RetryLater(w))
    <3>1. Quiet(s)
      BY <1>8, <2>2 DEF Claim, Quiet
    <3>2. QED
      BY <1>2, <2>1, <2>2, <3>1, QuietRows, NothingRemembered DEF RetryLater
  <2>3. CASE /\ step' = [step EXCEPT ![s] = ClaimedStep(s)]
             /\ worker' = [worker EXCEPT ![w].pc = IF s \in Local THEN "run" ELSE "resolve",
                                         ![w].token = step[s].attempts + 1]
    <3>1. /\ step'[s].frozen = step[s].frozen /\ approval' = approval /\ result' = result
      BY <1>2, <1>3, <1>8, <2>3 DEF Claim, ClaimedStep, StepRow
    <3>2. worker[w].pc = "claim" /\ (s \in Gated => approval[s].status = "APPROVED")
      BY <1>2, <1>8, <1>4 DEF Claim, MemoryAgrees, Passed
    <3>3. RowsAgree(s)' /\ Settled(s)
      BY <1>2, <3>1, <3>2 DEF RowsAgree, Settled
    <3>4. /\ worker'[w].next = s /\ worker'[w].input = worker[w].input
          /\ worker'[w].pc \in {"run", "resolve"}
      BY <1>3, <1>4, <2>3 DEF Memory
    <3>5. step[s].frozen = worker[w].input /\ worker[w].input # NoInput
      BY <1>2, <3>2, <1>4 DEF MemoryAgrees, Frozen, Passed
    <3>6. MemoryAgrees(w)'
      BY <1>2, <3>1, <3>2, <3>4, <3>5 DEF MemoryAgrees, Target, Writing, Frozen, Passed
    <3>7. QED
      BY <2>1, <3>3, <3>6
  <2>4. QED
    BY <1>8, <2>2, <2>3, <1>4 DEF Claim
<1>9. ASSUME StoreResult(w), worker[w].pc \in {"commit", "run"}, approval' = approval
      PROVE  /\ MemoryAgrees(w)' /\ RowsAgree(s)' /\ Settled(s)
             /\ \A t \in Steps \ {s} : Quiet(t)
  <2>1. MemoryAgrees(w)'
    BY <1>9, NothingRemembered DEF StoreResult
  <2>2. \A t \in Steps \ {s} : Quiet(t)
    BY <1>2, <1>3, <1>9, <1>4 DEF StoreResult, Quiet
  <2>3. /\ step'[s].frozen = step[s].frozen /\ step'[s].status = "COMPLETED"
        /\ result'[s].input = worker[w].input
    BY <1>2, <1>3, <1>9, <1>4 DEF StoreResult, StepRow
  <2>4. /\ step[s].frozen = worker[w].input
        /\ s \in Gated => approval[s].status = "APPROVED"
    BY <1>2, <1>9, <1>4 DEF MemoryAgrees, Frozen, Passed
  <2>5. RowsAgree(s)' /\ Settled(s)
    BY <1>2, <1>9, <2>3, <2>4 DEF RowsAgree, Settled
  <2>6. QED
    BY <2>1, <2>2, <2>5
<1>10. CASE CommitResult(w) \/ PersistResult(w)
  <2>1. CASE StoreResult(w)
    BY <1>9, <1>10, <2>1 DEF CommitResult, PersistResult
  <2>2. CASE Acknowledge(w) /\ UNCHANGED <<step, result>>
    BY <1>2, <1>10, <2>2, QuietRows, NothingRemembered DEF CommitResult, PersistResult, Quiet
  <2>3. CASE CommitResult(w) /\ Goto(w, "fail") /\ UNCHANGED <<step, result>>
    <3>1. \A t \in Steps : Quiet(t)
      BY <2>3 DEF CommitResult, Quiet
    <3>2. worker'[w].next = s /\ worker'[w].pc = "fail"
      BY <1>3, <1>4, <2>3 DEF Goto, Memory
    <3>3. MemoryAgrees(w)'
      BY <1>2, <3>2 DEF MemoryAgrees, Target, Writing, Frozen, Passed
    <3>4. QED
      BY <1>2, <3>1, <3>3, QuietRows
  <2>4. QED
    BY <1>10, <2>1, <2>2, <2>3 DEF CommitResult, PersistResult
<1>11. CASE HandleStepFailure(w) \/ FailRun(w)
  <2>1. \A t \in Steps : Quiet(t)
    <3>1. approval' = approval /\ result' = result
      BY <1>11 DEF HandleStepFailure, FailRun
    <3>2. CASE step' = step
      BY <3>1, <3>2 DEF Quiet
    <3>3. ASSUME NEW st \in {"PENDING", "FAILED"},
                 step' = [step EXCEPT ![s].status = st, ![s].token = 0, ![s].lease = 0]
          PROVE  \A t \in Steps : Quiet(t)
      <4>1. step'[s].frozen = step[s].frozen /\ step'[s].status = st
        BY <1>3, <3>3 DEF StepRow
      <4>2. \A t \in Steps \ {s} : step'[t] = step[t]
        BY <1>3, <3>3
      <4>3. QED
        BY <3>1, <4>1, <4>2 DEF Quiet
    <3>4. QED
      BY <1>4, <1>11, <3>2, <3>3 DEF HandleStepFailure, FailRun
  <2>2. CASE Acknowledge(w) \/ Goto(w, "state")
    BY <1>2, <2>1, <2>2, QuietRows, NothingRemembered
  <2>3. CASE Goto(w, "fail")
    <3>1. worker'[w].next = s /\ worker'[w].pc = "fail"
      BY <1>3, <1>4, <2>3 DEF Goto, Memory
    <3>2. MemoryAgrees(w)'
      BY <1>2, <3>1 DEF MemoryAgrees, Target, Writing, Frozen, Passed
    <3>3. QED
      BY <1>2, <2>1, <3>2, QuietRows
  <2>4. QED
    BY <1>11, <2>2, <2>3 DEF HandleStepFailure, FailRun
<1>12. QED
  BY <1>6, <1>7, <1>8, <1>10, <1>11

(* Every step of the system keeps the agreement.                           *)
LEMMA StepGateInv ==
    ASSUME TypeOK, GateInv, [Next]_vars
    PROVE  GateInv'
<1>1. CASE UNCHANGED vars
  BY <1>1 DEF GateInv, MemoryAgrees, RowsAgree, Target, vars
<1>2. CASE Api
  BY <1>2, ApiGateInv
<1>3. ASSUME NEW w \in Workers, Work(w) \/ Crash(w) PROVE GateInv'
  <2>1. CASE \/ Receive(w) \/ Load(w) \/ Restore(w) \/ Compile(w) \/ Gate(w) \/ Resolve(w)
             \/ AfterResult(w) \/ CompleteRun(w) \/ ReadState(w) \/ Crash(w)
    BY <2>1, ReaderGateInv
  <2>2. CASE \/ Freeze(w) \/ RequestApproval(w) \/ Claim(w) \/ CommitResult(w)
             \/ PersistResult(w) \/ HandleStepFailure(w) \/ FailRun(w)
    <3>1. worker[w].pc \in Writing
      BY <2>2 DEF Freeze, RequestApproval, Claim, CommitResult, PersistResult,
                  HandleStepFailure, FailRun, Writing, Frozen, Passed
    <3>2. PICK s \in Steps : s = Target(w)
      BY <3>1 DEF GateInv, MemoryAgrees
    <3>3. QED
      BY <2>2, <3>2, WriterGateInv
  <2>3. QED
    BY <1>3, <2>1, <2>2 DEF Work
<1>4. CASE (\E w \in Workers : Redeliver(w)) \/ Tick \/ ContextDrifts
  <2>1. worker' = worker /\ UNCHANGED rows
    BY <1>4 DEF Redeliver, Tick, ContextDrifts
  <2>2. QED
    BY <2>1, UnchangedRows, UnchangedMemory DEF GateInv
<1>5. QED
  BY <1>1, <1>2, <1>3, <1>4 DEF Next

-----------------------------------------------------------------------------
(* The inductive invariant holds in every reachable state.                 *)
THEOREM Agreement == Spec => [](TypeOK /\ GateInv)
<1>1. Init => TypeOK /\ GateInv
  <2>1. Init => GateInv
    BY DEF Init, GateInv, MemoryAgrees, RowsAgree, Idle, NoApproval, NoResult,
           Writing, Frozen, Passed
  <2>2. QED
    BY <2>1, InitTypeOK
<1>2. TypeOK /\ GateInv /\ [Next]_vars => TypeOK' /\ GateInv'
  BY StepTypeOK, StepGateInv
<1>3. QED
  BY <1>1, <1>2, PTL DEF Spec

(* Type correctness: the persisted columns, the broker and the memory of   *)
(* the workers hold values of their declared types, for every plan, any    *)
(* number of workers and every bound.                                      *)
THEOREM TypeCorrect == Spec => []TypeOK
  BY Agreement, PTL

(* The human gate: in every run of every plan, however many workers crash, *)
(* messages are redelivered, contexts drift or deadlines pass, a gated     *)
(* step runs or owns a result only after a timely approval, and its result *)
(* was computed from the input the human saw.                              *)
THEOREM GateIsHonoured == Spec => []GateHonoured
<1>1. GateInv => GateHonoured
  BY PlanAssumption DEF GateInv, RowsAgree, GateHonoured, Approved
<1>2. QED
  BY <1>1, Agreement, PTL

-----------------------------------------------------------------------------
(***************************************************************************)
(* The event log.  LogTellsState looks for the last event that speaks of   *)
(* the run or of a step; the invariant says which one that is.             *)
(***************************************************************************)
Tells(f, log, status) ==
    \E i \in 1..Len(log) :
        /\ f[log[i]] = status /\ status # "SILENT"
        /\ \A j \in 1..Len(log) : i < j => f[log[j]] = "SILENT"

SaysOfRun == [e \in EventRow |-> RunAfter[e.type]]
SaysOfStep(s) ==
    [e \in EventRow |-> IF e.step \in {0, s} THEN StepAfter[e.type] ELSE "SILENT"]

LogInv ==
    /\ Tells(SaysOfRun, events, run)
    /\ \A s \in Steps : Tells(SaysOfStep(s), events, step[s].status)

(* What a log tells after one more event.                                  *)
LEMMA TellsMore ==
    ASSUME NEW f, NEW log \in Seq(EventRow), NEW status, NEW e \in EventRow,
           Tells(f, log, status), NEW next,
           next = IF f[e] = "SILENT" THEN status ELSE f[e]
    PROVE  Tells(f, Append(log, e), next)
<1> DEFINE n == Len(log) + 1
<1>1. /\ Len(Append(log, e)) = n /\ Append(log, e)[n] = e /\ Len(log) \in Nat
      /\ \A j \in 1..Len(log) : Append(log, e)[j] = log[j]
  OBVIOUS
<1>2. CASE f[e] = "SILENT"
  <2>1. PICK i \in 1..Len(log) :
           /\ f[log[i]] = status /\ status # "SILENT"
           /\ \A j \in 1..Len(log) : i < j => f[log[j]] = "SILENT"
    BY DEF Tells
  <2>2. i \in 1..n /\ Append(log, e)[i] = log[i]
    BY <1>1
  <2>3. ASSUME NEW j \in 1..n, i < j PROVE f[Append(log, e)[j]] = "SILENT"
    <3>1. j = n \/ j \in 1..Len(log)
      BY <1>1
    <3>2. QED
      BY <1>1, <1>2, <2>1, <2>3, <3>1
  <2>4. QED
    BY <1>1, <1>2, <2>1, <2>2, <2>3 DEF Tells
<1>3. CASE f[e] # "SILENT"
  <2>1. n \in 1..n /\ \A j \in 1..n : ~(n < j)
    BY <1>1
  <2>2. QED
    BY <1>1, <1>3, <2>1 DEF Tells
<1>4. QED
  BY <1>2, <1>3

(* An event that says of the run and of every step what its transaction    *)
(* does to them keeps the log true.                                        *)
LEMMA LogStep ==
    ASSUME NEW log \in Seq(EventRow), NEW r, NEW st,
           Tells(SaysOfRun, log, r), \A t \in Steps : Tells(SaysOfStep(t), log, st[t]),
           NEW type \in EventType, NEW s \in Steps \union {0}, NEW r2, NEW st2,
           r2 = IF RunAfter[type] = "SILENT" THEN r ELSE RunAfter[type],
           \A t \in Steps : st2[t] = IF s \in {0, t} /\ StepAfter[type] # "SILENT"
                                       THEN StepAfter[type] ELSE st[t]
    PROVE  /\ Append(log, Event(type, s)) \in Seq(EventRow)
           /\ Tells(SaysOfRun, Append(log, Event(type, s)), r2)
           /\ \A t \in Steps : Tells(SaysOfStep(t), Append(log, Event(type, s)), st2[t])
<1> DEFINE e == Event(type, s)
<1>1. e \in EventRow /\ e.type = type /\ e.step = s
  BY DEF Event, EventRow
<1>2. SaysOfRun[e] = RunAfter[type]
  BY <1>1 DEF SaysOfRun
<1>3. \A t \in Steps :
         SaysOfStep(t)[e] = IF s \in {0, t} THEN StepAfter[type] ELSE "SILENT"
  BY <1>1 DEF SaysOfStep
<1> HIDE DEF e
<1>4. Tells(SaysOfRun, Append(log, e), r2)
  BY <1>1, <1>2, TellsMore
<1>5. ASSUME NEW t \in Steps PROVE Tells(SaysOfStep(t), Append(log, e), st2[t])
  <2>1. st2[t] = IF SaysOfStep(t)[e] = "SILENT" THEN st[t] ELSE SaysOfStep(t)[e]
    BY <1>3
  <2>2. QED
    BY <1>1, <2>1, TellsMore
<1>6. QED
  BY <1>1, <1>4, <1>5 DEF e

(* The statuses of the steps, and what a transaction does to one of them.  *)
Statuses(rows_) == [t \in Steps |-> rows_[t].status]

LEMMA LogKept ==
    ASSUME TypeOK, LogInv, NEW type \in EventType, NEW s \in Steps \union {0}, Log(type, s),
           run' = IF RunAfter[type] = "SILENT" THEN run ELSE RunAfter[type],
           \A t \in Steps : step'[t].status =
               IF s \in {0, t} /\ StepAfter[type] # "SILENT"
                 THEN StepAfter[type] ELSE step[t].status
    PROVE  LogInv'
<1>1. events \in Seq(EventRow) /\ events' = Append(events, Event(type, s))
  BY DEF TypeOK, Log
<1>2. \A t \in Steps : Tells(SaysOfStep(t), events, Statuses(step)[t])
  BY DEF LogInv, Statuses
<1>3. \A t \in Steps : Statuses(step')[t] =
         IF s \in {0, t} /\ StepAfter[type] # "SILENT" THEN StepAfter[type] ELSE Statuses(step)[t]
  BY DEF Statuses
<1>4. /\ Tells(SaysOfRun, events', run')
      /\ \A t \in Steps : Tells(SaysOfStep(t), events', Statuses(step')[t])
  BY <1>1, <1>2, <1>3, LogStep DEF LogInv
<1>5. QED
  BY <1>4 DEF LogInv, Statuses

LEMMA LogUntouched ==
    ASSUME LogInv, run' = run, events' = events,
           \A t \in Steps : step'[t].status = step[t].status
    PROVE  LogInv'
  BY DEF LogInv

(* What the events of the program say.                                     *)
LEMMA Meaning ==
    /\ EventType # {}
    /\ \A type \in {"RUN_DISPATCHED", "DISPATCH_FAILED", "APPROVAL_EXPIRED"} :
          RunAfter[type] = "SILENT" /\ StepAfter[type] = "SILENT"
    /\ RunAfter["APPROVAL_APPROVED"] = "RUNNING" /\ StepAfter["APPROVAL_APPROVED"] = "PENDING"
    /\ RunAfter["APPROVAL_REJECTED"] = "CANCELLED"
    /\ StepAfter["APPROVAL_REJECTED"] = "CANCELLED"
    /\ RunAfter["RUN_CANCELLED"] = "CANCELLED" /\ StepAfter["RUN_CANCELLED"] = "SILENT"
    /\ RunAfter["APPROVAL_REQUESTED"] = "AWAITING_APPROVAL"
    /\ StepAfter["APPROVAL_REQUESTED"] = "AWAITING_APPROVAL"
    /\ RunAfter["STEP_STARTED"] = "SILENT" /\ StepAfter["STEP_STARTED"] = "RUNNING"
    /\ RunAfter["STEP_COMPLETED"] = "SILENT" /\ StepAfter["STEP_COMPLETED"] = "COMPLETED"
    /\ RunAfter["STEP_WILL_RETRY"] = "SILENT" /\ StepAfter["STEP_WILL_RETRY"] = "PENDING"
    /\ RunAfter["STEP_FAILED"] = "SILENT" /\ StepAfter["STEP_FAILED"] = "FAILED"
    /\ RunAfter["RUN_FAILED"] = "FAILED" /\ StepAfter["RUN_FAILED"] = "SILENT"
    /\ RunAfter["RUN_COMPLETED"] = "COMPLETED" /\ StepAfter["RUN_COMPLETED"] = "SILENT"
  BY DEF RunAfter, StepAfter, EventType

(* Each action of the API logs what it does.                               *)
LEMMA ApiLog == TypeOK /\ LogInv /\ Api => LogInv'
<1> SUFFICES ASSUME TypeOK, LogInv, Api PROVE LogInv'
    OBVIOUS
<1>0. step \in [Steps -> StepRow]
  BY DEF TypeOK
<1>1. CASE Dispatch \/ DispatchFailed
  <2>1. PICK type \in {"RUN_DISPATCHED", "DISPATCH_FAILED"} :
           Log(type, 0) /\ UNCHANGED <<run, step>>
    BY <1>1 DEF Dispatch, DispatchFailed
  <2>2. type \in EventType /\ RunAfter[type] = "SILENT" /\ StepAfter[type] = "SILENT"
    BY Meaning DEF EventType
  <2>3. QED
    BY <2>1, <2>2, LogKept
<1>2. CASE DispatchLost
  BY <1>2, LogUntouched DEF DispatchLost, rows
<1>3. ASSUME NEW s \in Steps, Approve(s) PROVE LogInv'
  <2>1. \A t \in Steps : step'[t].status = IF s \in {0, t} THEN "PENDING" ELSE step[t].status
    BY <1>3, <1>0 DEF Approve, StepRow, Steps
  <2>2. "APPROVAL_APPROVED" \in EventType /\ run' = "RUNNING" /\ Log("APPROVAL_APPROVED", s)
    BY <1>3 DEF Approve, EventType
  <2>3. QED
    BY <2>1, <2>2, Meaning, LogKept
<1>4. ASSUME NEW s \in Steps, Reject(s) PROVE LogInv'
  <2>1. \A t \in Steps : step'[t].status = IF s \in {0, t} THEN "CANCELLED" ELSE step[t].status
    BY <1>4, <1>0 DEF Reject, StepRow, Steps
  <2>2. "APPROVAL_REJECTED" \in EventType /\ run' = "CANCELLED" /\ Log("APPROVAL_REJECTED", s)
    BY <1>4 DEF Reject, EventType
  <2>3. QED
    BY <2>1, <2>2, Meaning, LogKept
<1>5. ASSUME NEW s \in Steps, Expire(s) PROVE LogInv'
  <2>1. "APPROVAL_EXPIRED" \in EventType /\ Log("APPROVAL_EXPIRED", s) /\ UNCHANGED <<run, step>>
    BY <1>5 DEF Expire, EventType
  <2>2. QED
    BY <2>1, Meaning, LogKept
<1>6. CASE Cancel
  <2>1. /\ "RUN_CANCELLED" \in EventType /\ Log("RUN_CANCELLED", 0)
        /\ run' = "CANCELLED" /\ UNCHANGED step
    BY <1>6 DEF Cancel, EventType
  <2>2. QED
    BY <2>1, Meaning, LogKept
<1>7. QED
  BY <1>1, <1>2, <1>3, <1>4, <1>5, <1>6 DEF Api

(* An event of step s that says its new status.                            *)
LEMMA StepLog ==
    ASSUME TypeOK, LogInv, NEW s \in Steps, NEW type \in EventType, Log(type, s),
           RunAfter[type] = "SILENT", StepAfter[type] # "SILENT", run' = run,
           NEW row, row.status = StepAfter[type], step' = [step EXCEPT ![s] = row]
    PROVE  LogInv'
<1>1. step \in [Steps -> StepRow] /\ s # 0
  BY DEF TypeOK, Steps
<1>2. \A t \in Steps : step'[t].status =
         IF s \in {0, t} /\ StepAfter[type] # "SILENT" THEN StepAfter[type] ELSE step[t].status
  BY <1>1
<1>3. QED
  BY <1>2, LogKept

(* The two events of a failed run.                                         *)
LEMMA FailureLog ==
    ASSUME TypeOK, LogInv, NEW s \in Steps, run' = "FAILED",
           events' = events \o <<Event("STEP_FAILED", s), Event("RUN_FAILED", s)>>,
           \A t \in Steps : step'[t].status = IF t = s THEN "FAILED" ELSE step[t].status
    PROVE  LogInv'
<1> DEFINE middle == Append(events, Event("STEP_FAILED", s))
<1>0. {"STEP_FAILED", "RUN_FAILED"} \subseteq EventType /\ events \in Seq(EventRow) /\ s # 0
  BY DEF EventType, TypeOK, Steps
<1>1. events' = Append(middle, Event("RUN_FAILED", s))
  <2>1. Event("STEP_FAILED", s) \in EventRow /\ Event("RUN_FAILED", s) \in EventRow
    BY <1>0 DEF Event, EventRow
  <2> HIDE DEF middle
  <2>2. ASSUME NEW a \in EventRow, NEW b \in EventRow
        PROVE  events \o <<a, b>> = Append(Append(events, a), b)
    BY <1>0
  <2>3. QED
    BY <2>1, <2>2 DEF middle
<1>2. \A t \in Steps : Tells(SaysOfStep(t), events, Statuses(step)[t])
  BY DEF LogInv, Statuses
<1>3. /\ middle \in Seq(EventRow)
      /\ Tells(SaysOfRun, middle, run)
      /\ \A t \in Steps : Tells(SaysOfStep(t), middle, Statuses(step')[t])
  <2>1. \A t \in Steps : Statuses(step')[t] =
           IF s \in {0, t} /\ StepAfter["STEP_FAILED"] # "SILENT"
             THEN StepAfter["STEP_FAILED"] ELSE Statuses(step)[t]
    BY <1>0, Meaning DEF Statuses
  <2>2. run = IF RunAfter["STEP_FAILED"] = "SILENT" THEN run ELSE RunAfter["STEP_FAILED"]
    BY Meaning
  <2>3. QED
    BY <1>0, <1>2, <2>1, <2>2, LogStep DEF LogInv
<1> HIDE DEF middle
<1>4. /\ Tells(SaysOfRun, events', run')
      /\ \A t \in Steps : Tells(SaysOfStep(t), events', Statuses(step')[t])
  <2>1. run' = IF RunAfter["RUN_FAILED"] = "SILENT" THEN run ELSE RunAfter["RUN_FAILED"]
    BY Meaning
  <2> DEFINE now == Statuses(step')
  <2>2. \A t \in Steps : Tells(SaysOfStep(t), middle, now[t])
    BY <1>3
  <2> HIDE DEF now
  <2>3. \A t \in Steps : now[t] =
           IF s \in {0, t} /\ StepAfter["RUN_FAILED"] # "SILENT"
             THEN StepAfter["RUN_FAILED"] ELSE now[t]
    BY Meaning
  <2>4. /\ "RUN_FAILED" \in EventType /\ s \in Steps \union {0}
        /\ middle \in Seq(EventRow) /\ Tells(SaysOfRun, middle, run)
    BY <1>0, <1>3
  <2>5. /\ Tells(SaysOfRun, Append(middle, Event("RUN_FAILED", s)), run')
        /\ \A t \in Steps : Tells(SaysOfStep(t), Append(middle, Event("RUN_FAILED", s)), now[t])
    BY <2>1, <2>2, <2>3, <2>4, LogStep
  <2>6. QED
    BY <1>1, <2>5 DEF now
<1>5. QED
  BY <1>4 DEF LogInv, Statuses

(* Each transaction of a worker logs what it does.                         *)
LEMMA WorkLog ==
    ASSUME TypeOK, GateInv, LogInv, NEW w \in Workers, Work(w) PROVE LogInv'
<1> DEFINE s == Target(w)
<1>0. /\ step \in [Steps -> StepRow]
      /\ worker[w].pc \in Writing => s \in Steps
  BY DEF TypeOK, GateInv, MemoryAgrees
<1>1. CASE UNCHANGED <<run, events>> /\ \A t \in Steps : step'[t].status = step[t].status
  BY <1>1, LogUntouched
<1>2. CASE UNCHANGED rows
  BY <1>1, <1>2 DEF rows
<1>3. CASE Freeze(w)
  <2>1. \A t \in Steps : step'[t].status = step[t].status
    BY <1>0, <1>3 DEF Freeze, StepRow
  <2>2. QED
    BY <1>1, <1>3, <2>1 DEF Freeze
<1>4. CASE RequestApproval(w)
  <2>0. s \in Steps
    BY <1>0, <1>4 DEF RequestApproval, Writing, Frozen
  <2>1. CASE UNCHANGED <<run, step, events>>
    BY <1>1, <2>1
  <2>2. CASE /\ run' = "AWAITING_APPROVAL"
             /\ step' = [step EXCEPT ![s].status = "AWAITING_APPROVAL"]
             /\ Log("APPROVAL_REQUESTED", s)
    <3>1. \A t \in Steps : step'[t].status =
             IF s \in {0, t} THEN "AWAITING_APPROVAL" ELSE step[t].status
      BY <1>0, <2>0, <2>2 DEF StepRow, Steps
    <3>2. "APPROVAL_REQUESTED" \in EventType
      BY DEF EventType
    <3>3. QED
      BY <2>0, <2>2, <3>1, <3>2, Meaning, LogKept
  <2>3. QED
    BY <1>4, <2>1, <2>2 DEF RequestApproval
<1>5. CASE Claim(w)
  <2>0. s \in Steps /\ run' = run
    BY <1>0, <1>5 DEF Claim, Writing, Frozen, Passed
  <2>1. CASE UNCHANGED <<step, events>>
    BY <1>1, <2>0, <2>1
  <2>2. CASE step' = [step EXCEPT ![s] = ClaimedStep(s)] /\ Log("STEP_STARTED", s)
    <3>1. "STEP_STARTED" \in EventType /\ ClaimedStep(s).status = "RUNNING"
      BY <1>0, <2>0 DEF EventType, ClaimedStep, StepRow
    <3>2. QED
      BY <2>0, <2>2, <3>1, Meaning, StepLog
  <2>3. QED
    BY <1>5, <2>1, <2>2 DEF Claim
<1>6. CASE CommitResult(w) \/ PersistResult(w)
  <2>0. s \in Steps /\ run' = run
    BY <1>0, <1>6 DEF CommitResult, PersistResult, Writing, Frozen, Passed
  <2>1. CASE UNCHANGED <<step, events>>
    BY <1>1, <2>0, <2>1
  <2>2. CASE StoreResult(w)
    <3> DEFINE row == [step[s] EXCEPT !.status = "COMPLETED", !.token = 0, !.lease = 0]
    <3>1. step' = [step EXCEPT ![s] = row] /\ Log("STEP_COMPLETED", s)
      BY <2>2 DEF StoreResult
    <3>2. "STEP_COMPLETED" \in EventType /\ row.status = "COMPLETED"
      BY <1>0, <2>0 DEF EventType, StepRow
    <3> HIDE DEF row
    <3>3. QED
      BY <2>0, <3>1, <3>2, Meaning, StepLog
  <2>3. QED
    BY <1>6, <2>1, <2>2 DEF CommitResult, PersistResult
<1>7. CASE HandleStepFailure(w)
  <2>0. s \in Steps /\ run' = run
    BY <1>0, <1>7 DEF HandleStepFailure, Writing, Frozen, Passed
  <2>1. CASE UNCHANGED <<step, events>>
    BY <1>1, <2>0, <2>1
  <2>2. CASE /\ step' = [step EXCEPT ![s].status = "PENDING", ![s].token = 0, ![s].lease = 0]
             /\ Log("STEP_WILL_RETRY", s)
    <3> DEFINE row == [step[s] EXCEPT !.status = "PENDING", !.token = 0, !.lease = 0]
    <3>1. step' = [step EXCEPT ![s] = row]
      BY <2>2
    <3>2. "STEP_WILL_RETRY" \in EventType /\ row.status = "PENDING"
      BY <1>0, <2>0 DEF EventType, StepRow
    <3> HIDE DEF row
    <3>3. /\ RunAfter["STEP_WILL_RETRY"] = "SILENT"
          /\ StepAfter["STEP_WILL_RETRY"] # "SILENT"
          /\ row.status = StepAfter["STEP_WILL_RETRY"]
      BY <3>2, Meaning
    <3>4. QED
      BY <2>0, <2>2, <3>1, <3>2, <3>3, StepLog
  <2>3. QED
    BY <1>7, <2>1, <2>2 DEF HandleStepFailure
<1>8. CASE FailRun(w)
  <2>0. s \in Steps
    BY <1>0, <1>8 DEF FailRun, Writing
  <2>1. CASE UNCHANGED <<run, step, events>>
    BY <1>1, <2>1
  <2>2. CASE /\ step' = [step EXCEPT ![s].status = "FAILED", ![s].token = 0, ![s].lease = 0]
             /\ run' = "FAILED"
             /\ events' = events \o <<Event("STEP_FAILED", s), Event("RUN_FAILED", s)>>
    <3>1. \A t \in Steps : step'[t].status = IF t = s THEN "FAILED" ELSE step[t].status
      BY <1>0, <2>0, <2>2 DEF StepRow
    <3>2. QED
      BY <2>0, <2>2, <3>1, FailureLog
  <2>3. QED
    BY <1>8, <2>1, <2>2 DEF FailRun
<1>9. CASE CompleteRun(w)
  <2>1. UNCHANGED step
    BY <1>9 DEF CompleteRun
  <2>2. CASE UNCHANGED <<run, events>>
    BY <1>1, <2>1, <2>2
  <2>3. CASE run' = "COMPLETED" /\ Log("RUN_COMPLETED", 0)
    <3>1. "RUN_COMPLETED" \in EventType
      BY DEF EventType
    <3>2. QED
      BY <2>1, <2>3, <3>1, Meaning, LogKept
  <2>4. QED
    BY <1>9, <2>2, <2>3 DEF CompleteRun
<1>10. QED
  BY <1>2, <1>3, <1>4, <1>5, <1>6, <1>7, <1>8, <1>9
     DEF Work, Receive, Load, Restore, Compile, Gate, Resolve, AfterResult, ReadState

(* What an invariant of the log says of its last speaking event.           *)
LEMMA LastSpeaker ==
    ASSUME NEW f, NEW log, NEW status, Len(log) \in Nat, Tells(f, log, status),
           NEW S, S = {i \in 1..Len(log) : f[log[i]] # "SILENT"}
    PROVE  Max(S) \in S /\ f[log[Max(S)]] = status
<1>1. PICK i \in 1..Len(log) :
         /\ f[log[i]] = status /\ status # "SILENT"
         /\ \A j \in 1..Len(log) : i < j => f[log[j]] = "SILENT"
  BY DEF Tells
<1>2. i \in S /\ \A j \in S : i >= j
  BY <1>1
<1>3. \A m \in S : (\A j \in S : m >= j) => m = i
  BY <1>2
<1>4. Max(S) = i
  BY <1>2, <1>3 DEF Max
<1>5. QED
  BY <1>1, <1>4

LEMMA LogMeaning == TypeOK /\ LogInv => LogTellsState
<1> SUFFICES ASSUME TypeOK, LogInv PROVE LogTellsState
    OBVIOUS
<1>1. /\ Len(events) \in Nat /\ DOMAIN events = 1..Len(events)
      /\ \A i \in 1..Len(events) : events[i] \in EventRow
  BY DEF TypeOK
<1>2. run = RunAfter[LastOf({i \in DOMAIN events : RunAfter[events[i].type] # "SILENT"})]
  <2> DEFINE S == {i \in DOMAIN events : RunAfter[events[i].type] # "SILENT"}
  <2>1. \A i \in 1..Len(events) : SaysOfRun[events[i]] = RunAfter[events[i].type]
    BY <1>1 DEF SaysOfRun
  <2>2. S = {i \in 1..Len(events) : SaysOfRun[events[i]] # "SILENT"}
    BY <1>1, <2>1
  <2> HIDE DEF S
  <2>3. SaysOfRun[events[Max(S)]] = run /\ Max(S) \in S
    BY <1>1, <2>2, LastSpeaker DEF LogInv
  <2>4. RunAfter[events[Max(S)].type] = run
    BY <1>1, <2>1, <2>3 DEF S
  <2>5. QED
    BY <2>4 DEF LastOf, S
<1>3. ASSUME NEW s \in Steps
      PROVE  step[s].status = StepAfter[LastOf({i \in DOMAIN events :
                                   /\ StepAfter[events[i].type] # "SILENT"
                                   /\ events[i].step \in {0, s}})]
  <2> DEFINE S == {i \in DOMAIN events : /\ StepAfter[events[i].type] # "SILENT"
                                         /\ events[i].step \in {0, s}}
  <2>1. \A i \in 1..Len(events) : SaysOfStep(s)[events[i]] =
           IF events[i].step \in {0, s} THEN StepAfter[events[i].type] ELSE "SILENT"
    BY <1>1 DEF SaysOfStep
  <2>2. S = {i \in 1..Len(events) : SaysOfStep(s)[events[i]] # "SILENT"}
    BY <1>1, <2>1
  <2> HIDE DEF S
  <2>3. SaysOfStep(s)[events[Max(S)]] = step[s].status /\ Max(S) \in S
    BY <1>1, <2>2, LastSpeaker DEF LogInv
  <2>4. StepAfter[events[Max(S)].type] = step[s].status
    BY <1>1, <2>1, <2>3 DEF S
  <2>5. QED
    BY <2>4 DEF LastOf, S
<1>4. QED
  BY <1>2, <1>3 DEF LogTellsState

(* The event log: replayed from its first entry it gives the status of the *)
(* run and of every step, however the API, the workers and the ledger      *)
(* interleave their transactions, for every plan and every bound.          *)
THEOREM LogIsReplayable == Spec => []LogTellsState
<1>1. Init => LogInv
  <2> SUFFICES ASSUME Init PROVE LogInv
      OBVIOUS
  <2>1. /\ events = <<Event("RUN_CREATED", 0)>> /\ run = "RUNNING"
        /\ \A s \in Steps : step[s].status = "PENDING"
    BY DEF Init
  <2>2. /\ Event("RUN_CREATED", 0) \in EventRow /\ Event("RUN_CREATED", 0).step = 0
        /\ RunAfter[Event("RUN_CREATED", 0).type] = "RUNNING"
        /\ StepAfter[Event("RUN_CREATED", 0).type] = "PENDING"
    BY DEF Event, EventRow, EventType, RunAfter, StepAfter
  <2> DEFINE e == Event("RUN_CREATED", 0)
  <2>3. SaysOfRun[e] = "RUNNING" /\ \A s \in Steps : SaysOfStep(s)[e] = "PENDING"
    BY <2>2 DEF SaysOfRun, SaysOfStep
  <2> HIDE DEF e
  <2>4. \A f, status : f[e] = status /\ status # "SILENT" => Tells(f, <<e>>, status)
    BY DEF Tells
  <2>5. events = <<e>>
    BY <2>1 DEF e
  <2>6. QED
    BY <2>1, <2>3, <2>4, <2>5 DEF LogInv
<1>2. TypeOK /\ GateInv /\ LogInv /\ [Next]_vars => LogInv'
  <2> SUFFICES ASSUME TypeOK, GateInv, LogInv, [Next]_vars PROVE LogInv'
      OBVIOUS
  <2>1. CASE Api
    BY <2>1, ApiLog
  <2>2. ASSUME NEW w \in Workers, Work(w) PROVE LogInv'
    BY <2>2, WorkLog
  <2>3. CASE \/ \E w \in Workers : Crash(w) \/ Redeliver(w)
             \/ Tick \/ ContextDrifts \/ UNCHANGED vars
    BY <2>3, LogUntouched DEF Crash, Redeliver, Tick, ContextDrifts, vars, rows
  <2>4. QED
    BY <2>1, <2>2, <2>3 DEF Next
<1>3. QED
  BY <1>1, <1>2, Agreement, LogMeaning, PTL DEF Spec
=============================================================================
