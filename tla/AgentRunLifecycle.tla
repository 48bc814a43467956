-------------------------- MODULE AgentRunLifecycle --------------------------
(***************************************************************************)
(* What an Agent run promises to the project that started it: the steps of *)
(* the plan are executed one at a time and in order, each stores exactly   *)
(* one result, a gated step only starts after its gate was opened, and a   *)
(* run that has ended stays ended.  Nothing is said of workers, leases,    *)
(* messages or time.                                                       *)
(***************************************************************************)
EXTENDS Integers

CONSTANTS NSteps, Gated, Local

VARIABLES
    status,     \* status of the run
    done,       \* steps that own a result
    active,     \* the step being executed, 0 when there is none
    opened      \* gates a human has opened

lvars == <<status, done, active, opened>>

LInit == status = "RUNNING" /\ done = {} /\ active = 0 /\ opened = {}

IsNext(s) == \A t \in 1..NSteps : t \in done <=> t < s

Start(s) ==
    /\ status = "RUNNING" /\ active = 0 /\ IsNext(s)
    /\ s \in Gated => s \in opened
    /\ active' = s
    /\ UNCHANGED <<status, done, opened>>

Retry ==
    /\ status = "RUNNING" /\ active # 0
    /\ active' = 0
    /\ UNCHANGED <<status, done, opened>>

(* A Local step that was active when the run was cancelled may still store. *)
Store ==
    /\ active # 0
    /\ status = "RUNNING" \/ (status = "CANCELLED" /\ active \in Local)
    /\ done' = done \union {active}
    /\ active' = 0
    /\ UNCHANGED <<status, opened>>

Pause(s) ==
    /\ status = "RUNNING" /\ active = 0
    /\ s \in Gated \ opened /\ IsNext(s)
    /\ status' = "AWAITING_APPROVAL"
    /\ UNCHANGED <<done, active, opened>>

Open(s) ==
    /\ status = "AWAITING_APPROVAL" /\ IsNext(s)
    /\ status' = "RUNNING"
    /\ opened' = opened \union {s}
    /\ UNCHANGED <<done, active>>

Finish ==
    /\ status = "RUNNING" /\ done = 1..NSteps
    /\ status' = "COMPLETED"
    /\ UNCHANGED <<done, active, opened>>

Fail ==
    /\ status = "RUNNING" /\ active # 0
    /\ status' = "FAILED"
    /\ active' = 0
    /\ UNCHANGED <<done, opened>>

Stop ==
    /\ status \in {"RUNNING", "AWAITING_APPROVAL"}
    /\ status' = "CANCELLED"
    /\ UNCHANGED <<done, active, opened>>

LNext ==
    \/ \E s \in 1..NSteps : Start(s) \/ Pause(s) \/ Open(s)
    \/ Retry \/ Store \/ Finish \/ Fail \/ Stop

LSpec == LInit /\ [][LNext]_lvars
=============================================================================
