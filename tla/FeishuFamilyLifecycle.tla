----------------------- MODULE FeishuFamilyLifecycle -----------------------
(***************************************************************************)
(* What the jobs of one uploaded file promise together: each is staged     *)
(* once, is attempted until it ends, and does not change after that; the   *)
(* engineering recommendation is attempted only on inputs that were frozen *)
(* when all the others had ended.  No workers, leases, messages or crashes.*)
(***************************************************************************)
VARIABLES
    status,     \* of each member
    inputs      \* members whose results the recommendation uses

Others == {"root", "soh", "scenario"}
Siblings == {"soh", "scenario", "recommendation"}
Ended == {"SUCCEEDED", "FAILED"}
Undecided == {"recommendation"}

Init ==
    /\ status = [m \in Others \cup Siblings |-> IF m = "root" THEN "PENDING" ELSE "NONE"]
    /\ inputs = Undecided

Becomes(m, s) == status' = [status EXCEPT ![m] = s]

Stage(m) ==
    /\ status[m] = "NONE"
    /\ status["root"] \in {"RUNNING", "SUCCEEDED"}
    /\ Becomes(m, "PENDING")
    /\ UNCHANGED inputs

Start(m) ==
    /\ status[m] \in {"PENDING", "RETRYABLE"}
    /\ m = "recommendation" => inputs # Undecided
    /\ Becomes(m, "RUNNING")
    /\ UNCHANGED inputs

GiveUp(m) ==
    /\ status[m] = "RUNNING"
    /\ Becomes(m, "RETRYABLE")
    /\ UNCHANGED inputs

End(m) ==
    /\ status[m] = "RUNNING"
    /\ \E s \in Ended : Becomes(m, s)
    /\ UNCHANGED inputs

Freeze ==
    /\ inputs = Undecided
    /\ status["recommendation"] = "PENDING"
    /\ \A m \in Others : status[m] \in Ended
    /\ inputs' = {m \in Others : status[m] = "SUCCEEDED"}
    /\ UNCHANGED status

Next ==
    \/ \E m \in Siblings : Stage(m)
    \/ \E m \in Others \cup Siblings : Start(m) \/ GiveUp(m) \/ End(m)
    \/ Freeze

Spec == Init /\ [][Next]_<<status, inputs>>
=============================================================================
