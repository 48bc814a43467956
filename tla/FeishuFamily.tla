---------------------------- MODULE FeishuFamily ----------------------------
(***************************************************************************)
(* The family of jobs of one uploaded file.  The root job validates the    *)
(* data and then plans its siblings: a SOH trajectory, a comparison of     *)
(* operation scenarios and an engineering recommendation.  The first two   *)
(* are dispatched at once; the recommendation waits until root and both    *)
(* siblings have ended, and works on exactly their results.  Every job     *)
(* that ends looks for siblings that have no task yet and dispatches them  *)
(* (integrations/feishu/jobs.py and sibling_planner.py).                   *)
(*                                                                         *)
(* FeishuJob models one execution in detail.  Here a lease holds or has    *)
(* expired, delivery is part of the last write, and a message has no retry *)
(* count.                                                                  *)
(***************************************************************************)
EXTENDS Integers, Sequences

CONSTANTS
    Workers,        \* Celery worker processes
    MaxAttempts,    \* max_attempts of the worker
    MaxFaults,      \* bound: crashes and failed calls that the code recovers from
    MaxLapses       \* bound: those that it does not, see Lapse

ASSUME FamilyAssumption ==
    /\ MaxAttempts \in Nat \ {0} /\ MaxFaults \in Nat /\ MaxLapses \in Nat

Required == {"soh", "scenario"}
Siblings == Required \cup {"recommendation"}
Members == Siblings \cup {"root"}

(* Nothing in the family tells a rejected job from a failed one: FAILED    *)
(* stands for both.                                                        *)
Terminal == {"SUCCEEDED", "FAILED"}
Open == {"PENDING", "RUNNING", "RETRYABLE"}
Statuses == {"NONE"} \cup Open \cup Terminal

(* recommendation_upstream_result_ids before they are frozen.              *)
NotFrozen == {"recommendation"}

(* The order in which plan_validated_siblings stages them.                 *)
StagingOrder == <<"soh", "scenario", "recommendation">>

VARIABLES
    job,        \* the row of each member
    computed,   \* the root has its analysis and report
    frozen,     \* members whose results the recommendation works on
    queue,      \* broker: messages of each member
    worker,     \* what each worker process holds
    reviewed,   \* version of the reviewed profiles that workers load at start
    faults,     \* faults so far
    lapses      \* lapses so far

vars == <<job, computed, frozen, queue, worker, reviewed, faults, lapses>>

NoJob == [status |-> "NONE", task |-> FALSE, attempts |-> 0, lease |-> FALSE, profile |-> 0]
Idle == [pc |-> "idle", job |-> "root", token |-> 0, todo |-> <<>>, pending |-> {},
         target |-> "root", then |-> "plan"]

(* The callback has staged and dispatched the root.                        *)
Init ==
    /\ job = [m \in Members |->
          IF m = "root" THEN [NoJob EXCEPT !.status = "PENDING", !.task = TRUE] ELSE NoJob]
    /\ computed = FALSE
    /\ frozen = NotFrozen
    /\ queue = [m \in Members |-> IF m = "root" THEN 1 ELSE 0]
    /\ worker = [w \in Workers |-> Idle]
    /\ reviewed = 0
    /\ faults = 0
    /\ lapses = 0

Fault == faults < MaxFaults /\ faults' = faults + 1 /\ UNCHANGED lapses

(* What the code has no answer to: a claim that expires under a live       *)
(* worker, a notification that is cut short, a profile that changes        *)
(* between two attempts of the root.                                       *)
Lapse == lapses < MaxLapses /\ lapses' = lapses + 1 /\ UNCHANGED faults

NoFault == UNCHANGED <<faults, lapses>>

Owns(w) ==
    LET r == job[worker[w].job] IN
    r.status = "RUNNING" /\ r.attempts = worker[w].token /\ r.lease

Goes(w, pc) == worker' = [worker EXCEPT ![w].pc = pc]
Acknowledge(w) == worker' = [worker EXCEPT ![w] = Idle]
-----------------------------------------------------------------------------
(***************************************************************************)
(* Executing a member.                                                     *)
(***************************************************************************)
(* A message of a member that has ended is acknowledged; one of a running  *)
(* member stays on the queue until the claim ends or expires.  A root that *)
(* has its results goes straight to their delivery.                        *)
Claim(w) ==
    /\ worker[w].pc = "idle"
    /\ \E m \in Members :
          /\ queue[m] > 0
          /\ ~(job[m].status = "RUNNING" /\ job[m].lease)
          /\ queue' = [queue EXCEPT ![m] = @ - 1]
          /\ \/ job[m].status \in Terminal /\ UNCHANGED <<job, worker>>
             \/ /\ job[m].status \in Open
                /\ job' = [job EXCEPT ![m] = [@ EXCEPT !.status = "RUNNING",
                      !.attempts = job[m].attempts + 1, !.lease = TRUE]]
                /\ worker' = [worker EXCEPT ![w] = [Idle EXCEPT !.job = m,
                      !.token = job[m].attempts + 1,
                      !.pc = IF m = "root" /\ ~computed THEN "validate" ELSE "deliver"]]
    /\ UNCHANGED <<computed, frozen, reviewed>> /\ NoFault

(* Validation of the root, whose result is checkpointed before planning; a *)
(* refusal leads to a rejection.  A stale claim ends the execution.        *)
Validate(w) ==
    /\ worker[w].pc = "validate"
    /\ \/ ~Owns(w) /\ Acknowledge(w)
       \/ /\ Owns(w)
          /\ worker' = [worker EXCEPT ![w] = [@ EXCEPT !.pc = "plan", !.todo = StagingOrder]]
       \/ Owns(w) /\ Goes(w, "deliver")
    /\ UNCHANGED <<job, computed, frozen, queue, reviewed>> /\ NoFault

(* The analysis of the root after planning: results, or a rejection.       *)
Compute(w) ==
    /\ worker[w].pc = "plan" /\ worker[w].todo = <<>>
    /\ \/ ~Owns(w) /\ Acknowledge(w) /\ UNCHANGED computed
       \/ Owns(w) /\ computed' = TRUE /\ Goes(w, "deliver")
       \/ Owns(w) /\ Goes(w, "deliver") /\ UNCHANGED computed
    /\ UNCHANGED <<job, frozen, queue, reviewed>> /\ NoFault

(* Deviation: the last write leaves the lease.                             *)
KeepLease(w, status) == job' = [job EXCEPT ![worker[w].job] = [@ EXCEPT !.status = status]]

Close(w, status) ==
    job' = [job EXCEPT ![worker[w].job] = [@ EXCEPT !.status = status, !.lease = FALSE]]

(* Deviation: a job that ends does not look for its siblings.              *)
FinishSilently(w) ==
    /\ worker[w].pc = "deliver"
    /\ Owns(w)
    /\ \E s \in Terminal : Close(w, s)
    /\ Acknowledge(w)
    /\ UNCHANGED <<computed, frozen, queue, reviewed>> /\ NoFault

(* finish, with which a success, a rejection and a failure end.            *)
Finish(w) ==
    /\ worker[w].pc = "deliver"
    /\ \/ ~Owns(w) /\ Acknowledge(w) /\ UNCHANGED job
       \/ /\ Owns(w)
          /\ \E s \in Terminal :
                /\ worker[w].job = "root" /\ ~computed => s # "SUCCEEDED"
                /\ Close(w, s)
          /\ Goes(w, "list")
    /\ UNCHANGED <<computed, frozen, queue, reviewed>> /\ NoFault

(* Deviation: a message does not come back for a retry.                    *)
NoRetry(w) ==
    /\ worker[w].pc \in {"validate", "plan", "deliver"}
    /\ Owns(w)
    /\ Fault
    /\ Close(w, "RETRYABLE")
    /\ Acknowledge(w)
    /\ UNCHANGED <<computed, frozen, queue, reviewed>>

(* _retry after an error: RETRYABLE with its message back on the queue, or *)
(* FAILED after the last attempt.                                          *)
Retry(w) ==
    /\ worker[w].pc \in {"validate", "plan", "deliver"}
    /\ Owns(w)
    /\ Fault
    /\ \/ /\ worker[w].token < MaxAttempts
          /\ Close(w, "RETRYABLE")
          /\ queue' = [queue EXCEPT ![worker[w].job] = @ + 1]
          /\ Acknowledge(w)
       \/ /\ worker[w].token >= MaxAttempts
          /\ Close(w, "FAILED")
          /\ Goes(w, "list")
          /\ UNCHANGED queue
    /\ UNCHANGED <<computed, frozen, reviewed>>
-----------------------------------------------------------------------------
(***************************************************************************)
(* Planning and dispatching siblings.                                      *)
(***************************************************************************)
Dispatch(w, t) == [worker[w] EXCEPT !.pc = "enqueue", !.target = t, !.then = worker[w].pc]
Dispatched(w) ==
    worker' = [worker EXCEPT ![w] =
        [@ EXCEPT !.pc = worker[w].then, !.target = "root", !.then = "plan"]]

(* The sibling that was staged is dispatched at once, except for the       *)
(* recommendation and for one that has its task.                           *)
AfterStaging(w, t, row) ==
    worker' = [worker EXCEPT ![w] =
        [IF row.task \/ t = "recommendation" THEN worker[w] ELSE Dispatch(w, t)
           EXCEPT !.todo = Tail(@)]]

NewSibling(t) ==
    [NoJob EXCEPT !.status = "PENDING", !.profile = IF t = "soh" THEN 0 ELSE reviewed]

(* Deviation: a sibling is found by its request, not by its task.          *)
StageByRequest(w) ==
    LET t == Head(worker[w].todo)
        same == job[t].status # "NONE" /\ job[t].profile = NewSibling(t).profile
        row == IF same THEN job[t] ELSE NewSibling(t)
    IN
    /\ worker[w].pc = "plan" /\ worker[w].todo # <<>>
    /\ job["root"].status \in {"RUNNING", "SUCCEEDED"}
    /\ job' = [job EXCEPT ![t] = row]
    /\ AfterStaging(w, t, row)
    /\ UNCHANGED <<computed, frozen, queue, reviewed>> /\ NoFault

(* stage_sibling: one sibling per task, bound to the reviewed profile or   *)
(* ruleset of its first request; another one is a conflict, and the worker *)
(* gives up as if it had lost its claim.  Planning does not look at the    *)
(* claim itself, only at the status of the root.                           *)
Stage(w) ==
    LET t == Head(worker[w].todo)
        row == IF job[t].status = "NONE" THEN NewSibling(t) ELSE job[t]
        source == job["root"].status \in {"RUNNING", "SUCCEEDED"}
        conflict == row.profile # NewSibling(t).profile
    IN
    /\ worker[w].pc = "plan" /\ worker[w].todo # <<>>
    /\ \/ /\ ~source \/ conflict
          /\ Acknowledge(w)
          /\ UNCHANGED job
       \/ /\ source /\ ~conflict
          /\ job' = [job EXCEPT ![t] = row]
          /\ AfterStaging(w, t, row)
    /\ UNCHANGED <<computed, frozen, queue, reviewed>> /\ NoFault

Enqueue(w) ==
    /\ worker[w].pc = "enqueue"
    /\ queue' = [queue EXCEPT ![worker[w].target] = @ + 1]
    /\ Goes(w, "mark")
    /\ UNCHANGED <<job, computed, frozen, reviewed>> /\ NoFault

(* mark_dispatched: the task_id is written once, a second one is refused   *)
(* and the refusal is suppressed.                                          *)
Mark(w) ==
    /\ worker[w].pc = "mark"
    /\ job' = [job EXCEPT ![worker[w].target].task = TRUE]
    /\ Dispatched(w)
    /\ UNCHANGED <<computed, frozen, queue, reviewed>> /\ NoFault

(* The broker or the database refuses a dispatch, which is suppressed: the *)
(* sibling waits for the next job of the family to end.                    *)
DispatchFails(w) ==
    /\ worker[w].pc \in {"enqueue", "mark"}
    /\ IF worker[w].then = "plan" THEN Fault ELSE Lapse
    /\ Dispatched(w)
    /\ UNCHANGED <<job, computed, frozen, queue, reviewed>>

(* Deviation: the recommendation does not wait for the root.               *)
SiblingsEnded == \A m \in Required : job[m].status \in Terminal

(* _freeze_ready_recommendation_inputs: both siblings and the root ended.  *)
FamilyEnded == \A m \in Required \cup {"root"} : job[m].status \in Terminal

Results == {m \in Required \cup {"root"} : job[m].status = "SUCCEEDED"}

(* list_undispatched_siblings, after a job has ended.                      *)
List(w) ==
    LET waiting == {m \in Siblings : job[m].status \in {"PENDING", "RETRYABLE"} /\ ~job[m].task}
        ready == {m \in waiting : m = "recommendation" => FamilyEnded}
    IN
    /\ worker[w].pc = "list"
    /\ frozen' = IF "recommendation" \in ready /\ frozen = NotFrozen THEN Results ELSE frozen
    /\ worker' = [worker EXCEPT ![w] = [@ EXCEPT !.pc = "notify", !.pending = ready]]
    /\ UNCHANGED <<job, computed, queue, reviewed>> /\ NoFault

(* dispatch_pending, one sibling after the other, and then the message of  *)
(* the job that has ended is acknowledged.                                 *)
Notify(w) ==
    /\ worker[w].pc = "notify"
    /\ \/ worker[w].pending = {} /\ Acknowledge(w)
       \/ \E m \in worker[w].pending :
             worker' = [worker EXCEPT ![w] = [Dispatch(w, m) EXCEPT !.pending = @ \ {m}]]
    /\ UNCHANGED <<job, computed, frozen, queue, reviewed>> /\ NoFault
-----------------------------------------------------------------------------
(***************************************************************************)
(* The environment.                                                        *)
(***************************************************************************)
Returned(w) == queue' = [queue EXCEPT ![worker[w].job] = @ + 1]

(* The process dies and its message returns: a new attempt, unless the job *)
(* has ended already.                                                      *)
Crash(w) ==
    /\ worker[w].pc # "idle"
    /\ IF job[worker[w].job].status \in Terminal THEN Lapse ELSE Fault
    /\ Returned(w)
    /\ Acknowledge(w)
    /\ UNCHANGED <<job, computed, frozen, reviewed>>

(* The broker delivers the message of a worker that is still alive again.  *)
Redeliver(w) ==
    /\ worker[w].pc # "idle"
    /\ Fault
    /\ Returned(w)
    /\ UNCHANGED <<job, computed, frozen, worker, reviewed>>

Held(m) == \E w \in Workers : worker[w].pc # "idle" /\ worker[w].job = m /\ Owns(w)

(* A lease runs out: of a dead worker, or of one whose heartbeat failed.   *)
Expire(m) ==
    /\ job[m].lease
    /\ IF Held(m) THEN Lapse ELSE NoFault
    /\ job' = [job EXCEPT ![m].lease = FALSE]
    /\ UNCHANGED <<computed, frozen, queue, worker, reviewed>>

(* Workers are deployed with a new reviewed profile or ruleset.            *)
NewProfile ==
    /\ Lapse
    /\ reviewed' = reviewed + 1
    /\ UNCHANGED <<job, computed, frozen, queue, worker>>

Execute(w) ==
    \/ Claim(w) \/ Validate(w) \/ Stage(w) \/ Enqueue(w) \/ Mark(w)
    \/ Compute(w) \/ Finish(w) \/ List(w) \/ Notify(w)

Next ==
    \/ \E w \in Workers :
          Execute(w) \/ Retry(w) \/ DispatchFails(w) \/ Crash(w) \/ Redeliver(w)
    \/ \E m \in Members : Expire(m)
    \/ NewProfile

Spec == Init /\ [][Next]_vars

(* Workers take messages and go on, and the lease of a dead worker expires.*)
Fairness ==
    /\ \A w \in Workers : WF_vars(Execute(w))
    /\ \A m \in Members : WF_vars(Expire(m) /\ NoFault)

FairSpec == Spec /\ Fairness
-----------------------------------------------------------------------------
Rows == [status : Statuses, task : BOOLEAN, attempts : Nat, lease : BOOLEAN, profile : Nat]
WorkerStates ==
    [pc : {"idle", "validate", "plan", "deliver", "list", "notify", "enqueue", "mark"},
     job : Members, token : Nat, todo : Seq(Siblings), pending : SUBSET Siblings,
     target : Members, then : {"plan", "notify"}]

(* The type invariant: rows, messages and workers keep their shape, and    *)
(* only a running member has a lease.                                      *)
TypeOK ==
    /\ job \in [Members -> Rows]
    /\ \A m \in Members : job[m].lease => job[m].status = "RUNNING"
    /\ computed \in BOOLEAN
    /\ frozen \in SUBSET Members
    /\ queue \in [Members -> Nat]
    /\ worker \in [Workers -> WorkerStates]
    /\ reviewed \in Nat
    /\ faults \in 0..MaxFaults /\ lapses \in 0..MaxLapses

(* The recommendation has a message, a worker or a task only after its     *)
(* inputs were frozen, and they are the results of a family that has ended *)
(* - although any of its members may list the siblings at any time.        *)
RecommendationSeesFamily ==
    \/ /\ frozen # NotFrozen /\ frozen = Results
       /\ \A m \in Members \ {"recommendation"} : job[m].status \in Terminal
    \/ /\ frozen = NotFrozen
       /\ queue["recommendation"] = 0
       /\ job["recommendation"].status \in {"NONE", "PENDING"}
       /\ \A w \in Workers : "recommendation" \notin worker[w].pending

(* The family implements FeishuFamilyLifecycle: a member that has ended     *)
(* never starts again, siblings are staged while the root runs, and the    *)
(* recommendation starts once, on the outcome of the others.               *)
Family == INSTANCE FeishuFamilyLifecycle WITH
              status <- [m \in Members |-> job[m].status], inputs <- frozen
FamilyLifecycle == Family!Spec

Cares(w, m) ==
    \/ worker[w].pc # "idle" /\ worker[w].job = m
    \/ worker[w].pc \in {"enqueue", "mark"} /\ worker[w].target = m
    \/ worker[w].pc = "list" \/ m \in worker[w].pending

(* A member that is staged and has not ended has a message or a worker, or *)
(* another member that will look for it when it ends - unless the code     *)
(* lapsed: every member finds the one that was not dispatched, and the     *)
(* recommendation is found by the last one.                                *)
SomeoneIsResponsible ==
    lapses = 0 =>
       \A m \in Members : job[m].status \in Open =>
          \/ queue[m] > 0
          \/ \E w \in Workers : Cares(w, m)
          \/ m # "root" /\ \E n \in Required \cup {"root"} : n # m /\ job[n].status \in Open

(* The family comes to rest with every staged member ended, unless the     *)
(* code lapses.                                                            *)
Unfinished == {m \in Members : job[m].status \in Open}
FamilySettles == Unfinished # {} ~> Unfinished = {} \/ lapses > 0
=============================================================================
