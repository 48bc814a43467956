----------------------------- MODULE TrainingRun -----------------------------
(***************************************************************************)
(* The training engine and the run directories it leaves                   *)
(* (training/engine.py).  One process at a time trains the runs of a suite *)
(* one after the other.  After every epoch it renames a checkpoint into    *)
(* the directory, moves the pointers last.json and best.json, prunes old   *)
(* checkpoints and appends to the logs: each is a file operation of its    *)
(* own, and the process may die between any two of them.  A process that   *)
(* is started again goes on from last.json.                                *)
(*                                                                         *)
(* Checkpoints hold the weights, the optimizer and the random state, so    *)
(* what an epoch computes depends on nothing but the run and the epoch:    *)
(* curve is drawn the first time and stays.  The suites that call the      *)
(* engine are in ModelSelection and MatrSuite.                             *)
(***************************************************************************)
EXTENDS Integers, FiniteSets, FiniteSetsExt

CONSTANTS
    Runs,           \* run directories
    MaxEpochs,      \* max_epochs
    Interval,       \* validation_interval
    Patience,       \* early_stopping_patience
    KeepRecent,     \* keep_recent_checkpoints
    Metrics,        \* values of the selection metric, the smaller the better
    MaxCrashes,     \* bound: processes that die
    MaxSignals      \* bound: SIGINT and SIGTERM that the engine handles

ASSUME TrainingAssumption ==
    /\ MaxEpochs \in Nat \ {0} /\ Interval \in Nat \ {0} /\ Patience \in Nat \ {0}
    /\ KeepRecent \in Nat \ {0} /\ Metrics \subseteq Nat \ {0}

ASSUME TrainingBounds == MaxCrashes \in Nat /\ MaxSignals \in Nat

Epochs == 1..MaxEpochs
Validated == {e \in Epochs : e % Interval = 0}

(* What a checkpoint says of the progress.                                 *)
Progress == [best : 0..MaxEpochs, stale : 0..MaxEpochs]
NoCheckpoint == [best |-> 0, stale |-> MaxEpochs + 1]

Complete == {"COMPLETED", "EARLY_STOPPED"}
NoResult == [status |-> "NONE", last |-> 0, best |-> 0]

VARIABLES
    curve,      \* metric of each validation, 0 before it was first computed
    dirs,       \* checkpoint directories of a run
    last, best, \* its pointers: an epoch, or 0 for a missing file
    rows,       \* metrics_validation.csv: how often it has each epoch
    result,     \* run_status.json
    proc,       \* the engine's local variables; pc names its next file operation
    lapsed,     \* what deaths at a bad moment have left behind
    crashes,    \* deaths so far
    signals     \* handled signals so far

disk == <<dirs, last, best, rows, result>>
vars == <<curve, disk, proc, lapsed, crashes, signals>>

Down == [pc |-> "down", run |-> CHOOSE r \in Runs : TRUE, limit |-> 1, epoch |-> 0,
         best |-> 0, stale |-> 0, weights |-> 0, improved |-> FALSE, flag |-> FALSE,
         status |-> "NONE"]

EngineInit ==
    /\ curve = [r \in Runs |-> [v \in Validated |-> 0]]
    /\ dirs = [r \in Runs |-> [e \in Epochs |-> NoCheckpoint]]
    /\ last = [r \in Runs |-> 0]
    /\ best = [r \in Runs |-> 0]
    /\ rows = [r \in Runs |-> [v \in Validated |-> 0]]
    /\ result = [r \in Runs |-> NoResult]
    /\ proc = Down
    /\ lapsed = [r \in Runs |-> {}]
    /\ crashes = 0
    /\ signals = 0

Present(r) == {e \in Epochs : dirs[r][e] # NoCheckpoint}

Goes(pc) == proc' = [proc EXCEPT !.pc = pc]

(* An exception that nobody catches ends the process.                      *)
Raises == proc' = Down

Undisturbed == UNCHANGED <<lapsed, crashes, signals>>
-----------------------------------------------------------------------------
(***************************************************************************)
(* The call of run: open the directory.                                    *)
(***************************************************************************)
(* What a complete run is served with.                                     *)
Served(r) == IF best[r] # 0 THEN best[r] ELSE last[r]

(* Deviation: early stopping counts anew after a restart.                  *)
ResumedAfresh(r) ==
    IF last[r] = 0 THEN [proc EXCEPT !.pc = "train"]
    ELSE [proc EXCEPT !.pc = "train", !.epoch = last[r], !.weights = last[r],
                      !.best = dirs[r][last[r]].best]

(* Deviation: the epoch that was resumed counts as done twice.             *)
ResumedAhead(r) ==
    IF last[r] = 0 THEN [proc EXCEPT !.pc = "train"]
    ELSE [proc EXCEPT !.pc = "train", !.epoch = last[r] + 1, !.weights = last[r],
                      !.best = dirs[r][last[r]].best, !.stale = dirs[r][last[r]].stale]

(* _resume: from the start, or from the checkpoint that last.json names.   *)
Resumed(r) ==
    IF last[r] = 0 THEN [proc EXCEPT !.pc = "train"]
    ELSE [proc EXCEPT !.pc = "train", !.epoch = last[r], !.weights = last[r],
                      !.best = dirs[r][last[r]].best, !.stale = dirs[r][last[r]].stale]

(* Deviation: a restart trains from the first epoch.                       *)
OpenAnew ==
    /\ proc.pc = "open"
    /\ Goes("train")
    /\ UNCHANGED <<curve, disk>> /\ Undisturbed

(* A run that is complete is restored and skipped; any other goes on.      *)
Open ==
    LET r == proc.run
        complete == result[r].status \in Complete
        pointer == IF complete THEN Served(r) ELSE last[r]
    IN
    /\ proc.pc = "open"
    /\ IF pointer # 0 /\ pointer \notin Present(r) THEN Raises
       ELSE proc' = IF complete
                      THEN [proc EXCEPT !.pc = "returned", !.weights = pointer,
                                        !.status = "SKIPPED_COMPLETED"]
                      ELSE Resumed(r)
    /\ UNCHANGED <<curve, disk>> /\ Undisturbed
-----------------------------------------------------------------------------
(***************************************************************************)
(* The loop over the epochs.                                               *)
(***************************************************************************)
(* Train, validate and save the checkpoint, which becomes visible with a   *)
(* rename; one that exists already is refused.                             *)
TrainEpoch ==
    LET r == proc.run
        e == proc.epoch + 1
        known == IF curve[r][e] # 0 THEN {curve[r][e]} ELSE Metrics
    IN
    /\ proc.pc = "train" /\ proc.epoch < proc.limit
    /\ \E m \in IF e \in Validated THEN known ELSE {0} :
          LET improved == e \in Validated /\ (proc.best = 0 \/ m < curve[r][proc.best])
              progress == [best |-> IF improved THEN e ELSE proc.best,
                           stale |-> IF improved THEN 0
                                     ELSE IF e \in Validated THEN proc.stale + 1
                                     ELSE proc.stale]
          IN
          /\ curve' = IF e \in Validated THEN [curve EXCEPT ![r][e] = m] ELSE curve
          /\ IF e \in Present(r) THEN Raises /\ UNCHANGED dirs
             ELSE /\ dirs' = [dirs EXCEPT ![r][e] = progress]
                  /\ proc' = [proc EXCEPT !.pc = "last", !.epoch = e, !.weights = e,
                        !.improved = improved, !.best = progress.best,
                        !.stale = progress.stale]
    /\ UNCHANGED <<last, best, rows, result>> /\ Undisturbed

PointLast ==
    /\ proc.pc = "last"
    /\ last' = [last EXCEPT ![proc.run] = proc.epoch]
    /\ Goes(IF proc.improved THEN "best" ELSE "prune")
    /\ UNCHANGED <<curve, dirs, best, rows, result>> /\ Undisturbed

PointBest ==
    /\ proc.pc = "best"
    /\ best' = [best EXCEPT ![proc.run] = proc.epoch]
    /\ Goes("prune")
    /\ UNCHANGED <<curve, dirs, last, rows, result>> /\ Undisturbed

Newest(r) ==
    {e \in Present(r) : Cardinality({f \in Present(r) : f > e}) < KeepRecent}

(* Deviation: the best checkpoint is not kept.                             *)
KeptRecent(r) == Newest(r) \cup {last[r]}

(* _prune_checkpoints keeps the most recent ones and those with a pointer. *)
Kept(r) == Newest(r) \cup {last[r], best[r]}

Prune ==
    LET r == proc.run IN
    /\ proc.pc = "prune"
    /\ dirs' = [dirs EXCEPT ![r] =
          [e \in Epochs |-> IF e \in Kept(r) THEN dirs[r][e] ELSE NoCheckpoint]]
    /\ Goes("log")
    /\ UNCHANGED <<curve, last, best, rows, result>> /\ Undisturbed

StopsEarly == proc.epoch \in Validated /\ proc.stale >= Patience
Leaves(status) == proc' = [proc EXCEPT !.pc = "record", !.status = status]

(* logger.record, and the decisions at the end of an epoch.                *)
Log ==
    /\ proc.pc = "log"
    /\ rows' = IF proc.epoch \in Validated
                 THEN [rows EXCEPT ![proc.run][proc.epoch] = @ + 1] ELSE rows
    /\ IF StopsEarly THEN Leaves("EARLY_STOPPED")
       ELSE IF proc.flag THEN Leaves("INTERRUPTED")
       ELSE Goes("train")
    /\ UNCHANGED <<curve, dirs, last, best, result>> /\ Undisturbed

(* The limit of the call is reached, or was reached by an earlier one.     *)
LoopEnds ==
    /\ proc.pc = "train" /\ proc.epoch >= proc.limit
    /\ Leaves(IF proc.limit < MaxEpochs THEN "PAUSED_STAGE" ELSE "COMPLETED")
    /\ UNCHANGED <<curve, disk>> /\ Undisturbed

(* run_status.json.                                                        *)
Record ==
    /\ proc.pc = "record"
    /\ result' = [result EXCEPT ![proc.run] =
          [status |-> proc.status, last |-> proc.epoch, best |-> proc.best]]
    /\ Goes(IF proc.status \in Complete THEN "restore" ELSE "returned")
    /\ UNCHANGED <<curve, dirs, last, best, rows>> /\ Undisturbed

(* The model that the caller gets back.                                    *)
Restore ==
    LET e == Served(proc.run) IN
    /\ proc.pc = "restore"
    /\ IF e \in Present(proc.run)
         THEN proc' = [proc EXCEPT !.pc = "returned", !.weights = e] ELSE Raises
    /\ UNCHANGED <<curve, disk>> /\ Undisturbed

Engine ==
    \/ Open \/ TrainEpoch \/ PointLast \/ PointBest \/ Prune \/ Log
    \/ LoopEnds \/ Record \/ Restore
-----------------------------------------------------------------------------
(***************************************************************************)
(* Signals and deaths.                                                     *)
(***************************************************************************)
(* SIGINT or SIGTERM while the engine has its handlers installed.          *)
Signal ==
    /\ proc.pc \in {"train", "last", "best", "prune", "log"}
    /\ ~proc.flag
    /\ signals < MaxSignals
    /\ signals' = signals + 1
    /\ proc' = [proc EXCEPT !.flag = TRUE]
    /\ UNCHANGED <<curve, disk, lapsed, crashes>>

(* What a death between two file operations leaves behind.                 *)
(*   stuck: a checkpoint that last.json does not name; it can neither be   *)
(*          resumed from nor saved again;                                  *)
(*   best:  a best epoch in the progress that best.json does not name;     *)
(*   row:   a validation that is not in the log;                           *)
(*   stop:  a last checkpoint at which training should have ended.         *)
Window ==
    (IF proc.pc = "last" THEN {"stuck"} ELSE {})
    \cup (IF proc.pc = "best" THEN {"best"} ELSE {})
    \cup (IF proc.pc \in {"best", "prune", "log"} /\ proc.epoch \in Validated
            THEN {"row"} ELSE {})
    \cup (IF proc.pc \in {"prune", "log", "record"} /\ StopsEarly THEN {"stop"} ELSE {})

(* The process is killed, also by a signal outside the loop.               *)
Crash ==
    /\ proc.pc # "down"
    /\ crashes < MaxCrashes
    /\ crashes' = crashes + 1
    /\ lapsed' = [lapsed EXCEPT ![proc.run] = @ \cup Window]
    /\ proc' = Down
    /\ UNCHANGED <<curve, disk, signals>>
-----------------------------------------------------------------------------
(***************************************************************************)
(* What training without any interruption computes.                        *)
(***************************************************************************)
(* The best validation of a curve up to epoch n, the first of equals.      *)
BestAt(c, n) ==
    LET seen == {v \in Validated : v <= n} IN
    IF seen = {} THEN 0
    ELSE CHOOSE v \in seen : \A u \in seen : c[v] < c[u] \/ (c[v] = c[u] /\ v <= u)

StaleAt(c, n) == Cardinality({v \in Validated : BestAt(c, n) < v /\ v <= n})

(* Where early stopping ends a run with that limit.                        *)
StopAt(c, limit) ==
    Min({v \in Validated : v <= limit /\ StaleAt(c, v) >= Patience} \cup {limit})
-----------------------------------------------------------------------------
Processes ==
    [pc : {"down", "suite", "open", "train", "last", "best", "prune", "log", "record",
           "restore", "returned"},
     run : Runs, limit : Epochs, epoch : 0..MaxEpochs, best : 0..MaxEpochs,
     stale : 0..MaxEpochs, weights : 0..MaxEpochs, improved : BOOLEAN, flag : BOOLEAN,
     status : Complete \cup {"NONE", "INTERRUPTED", "PAUSED_STAGE", "SKIPPED_COMPLETED"}]
Results ==
    [status : Complete \cup {"NONE", "INTERRUPTED", "PAUSED_STAGE"},
     last : 0..MaxEpochs, best : 0..MaxEpochs]

EngineTypeOK ==
    /\ curve \in [Runs -> [Validated -> Metrics \cup {0}]]
    /\ dirs \in [Runs -> [Epochs -> Progress \cup {NoCheckpoint}]]
    /\ last \in [Runs -> 0..MaxEpochs] /\ best \in [Runs -> 0..MaxEpochs]
    /\ rows \in [Runs -> [Validated -> Nat]]
    /\ result \in [Runs -> Results]
    /\ proc \in Processes
    /\ lapsed \in [Runs -> SUBSET {"stuck", "best", "row", "stop"}]
    /\ crashes \in 0..MaxCrashes /\ signals \in 0..MaxSignals

(* Whatever is pruned and wherever the process dies, the pointers name     *)
(* checkpoints that exist, and the best one is not newer than the last.    *)
PointersResolve ==
    \A r \in Runs : /\ {last[r], best[r]} \subseteq Present(r) \cup {0}
                    /\ best[r] <= last[r]

(* Every checkpoint holds the progress of an uninterrupted training: its   *)
(* best epoch and the validations since then are those of the curve up to  *)
(* its epoch, however often training was killed and resumed before.        *)
ProgressAsUninterrupted ==
    \A r \in Runs : \A e \in Present(r) :
       dirs[r][e] = [best |-> BestAt(curve[r], e), stale |-> StaleAt(curve[r], e)]

(* Deaths and restarts change nothing in what a run computes: not its      *)
(* progress, nor the epoch at which it ends and its best one, nor the      *)
(* validations it logs, each once, nor the weights it hands over - except  *)
(* for what the moment of a death is known to leave behind.                *)
RunAsUninterrupted ==
    /\ ProgressAsUninterrupted
    /\ \A r \in Runs :
          LET complete == result[r].status \in Complete
              unlogged == {v \in Validated : proc.run = r /\ proc.epoch = v
                                             /\ proc.pc \in {"best", "prune", "log"}}
          IN
          /\ complete /\ "stop" \notin lapsed[r] =>
                /\ result[r].last = StopAt(curve[r], MaxEpochs)
                /\ result[r].best = BestAt(curve[r], result[r].last)
          /\ complete /\ "best" \notin lapsed[r] /\ proc.run = r /\ proc.pc = "returned" =>
                proc.weights = IF result[r].best # 0 THEN result[r].best ELSE result[r].last
          /\ "row" \notin lapsed[r] =>
                \A v \in Validated :
                   rows[r][v] = IF v <= last[r] /\ v \notin unlogged THEN 1 ELSE 0
=============================================================================
