--------------------------- MODULE TrainingProofs ---------------------------
(***************************************************************************)
(* Theorems about the training engine as the selection drives it, for      *)
(* every set of candidates and axes, every number of epochs and every      *)
(* limit, whichever metrics training yields and however often the process  *)
(* is signalled or killed.                                                 *)
(***************************************************************************)
EXTENDS ModelSelection, WellFoundedInduction, TLAPS

USE TrainingAssumption, TrainingBounds

-----------------------------------------------------------------------------
(* A set of metrics has a least one.                                       *)
LEMMA LeastExists ==
    ASSUME NEW S \in SUBSET Nat, S # {}
    PROVE  Min(S) \in S /\ \A n \in S : Min(S) <= n
<1>1. \E m \in S : \A n \in S : <<n, m>> \notin OpToRel(<, Nat)
  BY WFMin, NatLessThanWellFounded, Zenon
<1>2. PICK m \in S : \A n \in S : <<n, m>> \notin OpToRel(<, Nat)
  BY <1>1
<1>3. \A n \in S : m <= n
  <2> SUFFICES ASSUME NEW n \in S, ~(m <= n) PROVE FALSE
    OBVIOUS
  <2>a. n \in Nat /\ m \in Nat /\ n < m
    OBVIOUS
  <2>1. <<n, m>> \in OpToRel(<, Nat)
    BY <2>a, Zenon DEF OpToRel
  <2>2. QED
    BY <1>2, <2>1
<1>4. QED
  BY <1>3 DEF Min
-----------------------------------------------------------------------------
(***************************************************************************)
(* The engine's invariant: what the local variables of the process know of *)
(* the directory between two file operations.                              *)
(***************************************************************************)
Ends == Complete \cup {"INTERRUPTED", "PAUSED_STAGE"}

(* No more validations without improvement than epochs, and the status to  *)
(* record is one that training ends with.                                  *)
Counted ==
    /\ proc.stale <= proc.epoch
    /\ \A r \in Runs : \A e \in Present(r) : dirs[r][e].stale <= e
    /\ proc.pc = "record" => proc.status \in Ends

(* Where last.json stands.                                                 *)
Placed ==
    /\ proc.pc = "open" => proc.epoch = 0 /\ proc.stale = 0
    /\ proc.pc = "train" => last[proc.run] = proc.epoch
    /\ proc.pc = "last" => last[proc.run] <= proc.epoch
    /\ proc.pc \in {"best", "prune", "log"} => last[proc.run] = proc.epoch
    /\ proc.pc \in {"last", "best", "prune", "log"} => proc.epoch \in Present(proc.run)

EngineInv == EngineTypeOK /\ PointersResolve /\ Counted /\ Placed

-----------------------------------------------------------------------------
(* The records.                                                            *)
Pcs == {"down", "suite", "open", "train", "last", "best", "prune", "log", "record",
        "restore", "returned"}
Statuses == Complete \cup {"NONE", "INTERRUPTED", "PAUSED_STAGE", "SKIPPED_COMPLETED"}

LEMMA Parts ==
    \A p \in Processes :
       /\ p.pc \in Pcs /\ p.run \in Runs /\ p.limit \in Epochs /\ p.epoch \in 0..MaxEpochs
       /\ p.best \in 0..MaxEpochs /\ p.stale \in 0..MaxEpochs /\ p.weights \in 0..MaxEpochs
  BY DEF Processes, Pcs

LEMMA PcType == \A p \in Processes, pc \in Pcs : [p EXCEPT !.pc = pc] \in Processes
  BY DEF Processes, Pcs

LEMMA StatusType ==
    \A p \in Processes, pc \in Pcs, st \in Statuses :
       [p EXCEPT !.pc = pc, !.status = st] \in Processes
  BY DEF Processes, Pcs, Statuses

LEMMA WeightsType ==
    \A p \in Processes, pc \in Pcs, w \in 0..MaxEpochs :
       [p EXCEPT !.pc = pc, !.weights = w] \in Processes
  BY DEF Processes, Pcs

LEMMA FlagType == \A p \in Processes : [p EXCEPT !.flag = TRUE] \in Processes
  BY DEF Processes

LEMMA ResumedType ==
    \A p \in Processes, e, b, s \in 0..MaxEpochs :
       [p EXCEPT !.pc = "train", !.epoch = e, !.weights = e, !.best = b, !.stale = s]
          \in Processes
  BY DEF Processes

LEMMA TrainedType ==
    \A p \in Processes, e, b, s \in 0..MaxEpochs, i \in BOOLEAN :
       [p EXCEPT !.pc = "last", !.epoch = e, !.weights = e, !.improved = i, !.best = b,
                 !.stale = s] \in Processes
<1> SUFFICES ASSUME NEW p \in Processes, NEW e \in 0..MaxEpochs, NEW b \in 0..MaxEpochs,
                    NEW s \in 0..MaxEpochs, NEW i \in BOOLEAN
             PROVE  [p EXCEPT !.pc = "last", !.epoch = e, !.weights = e, !.improved = i,
                              !.best = b, !.stale = s] \in Processes
    OBVIOUS
<1>1. [p EXCEPT !.pc = "last", !.epoch = e, !.weights = e] \in Processes
  BY DEF Processes
<1>2. \A q \in Processes : [q EXCEPT !.improved = i, !.best = b, !.stale = s] \in Processes
  BY DEF Processes
<1>3. [p EXCEPT !.pc = "last", !.epoch = e, !.weights = e, !.improved = i,
                !.best = b, !.stale = s]
        = [[p EXCEPT !.pc = "last", !.epoch = e, !.weights = e]
             EXCEPT !.improved = i, !.best = b, !.stale = s]
  BY DEF Processes
<1>4. QED
  BY <1>1, <1>2, <1>3, Zenon

(* A process that is down, and one that has just been started.             *)
LEMMA DownType ==
    ASSUME Runs # {}
    PROVE  /\ Down \in Processes /\ Down.pc = "down" /\ Down.epoch = 0 /\ Down.stale = 0
           /\ [Down EXCEPT !.pc = "suite"] \in Processes
<1>1. (CHOOSE r \in Runs : TRUE) \in Runs
  OBVIOUS
<1>2. 1 \in Epochs /\ 0 \in 0..MaxEpochs
  BY DEF Epochs
<1>3. Down \in Processes
  BY <1>1, <1>2 DEF Down, Processes
<1>4. QED
  BY <1>3, PcType DEF Down, Pcs

(* A directory with a checkpoint has its epoch as an epoch, and a progress.*)
LEMMA PresentProgress ==
    ASSUME EngineTypeOK, NEW r \in Runs, NEW e \in Present(r)
    PROVE  /\ e \in Epochs /\ dirs[r][e] \in Progress
           /\ dirs[r][e].best \in 0..MaxEpochs /\ dirs[r][e].stale \in 0..MaxEpochs
<1>1. e \in Epochs /\ dirs[r][e] # NoCheckpoint
  BY DEF Present
<1>2. dirs[r][e] \in Progress
  BY <1>1 DEF EngineTypeOK
<1>3. QED
  BY <1>1, <1>2 DEF Progress

LEMMA ProgressIsNone == \A g \in Progress : g # NoCheckpoint
  BY DEF Progress, NoCheckpoint
-----------------------------------------------------------------------------
(***************************************************************************)
(* The steps that leave the directories alone.                             *)
(***************************************************************************)
LEMMA ProcOnly ==
    ASSUME EngineInv, UNCHANGED <<curve, disk>>, UNCHANGED <<lapsed, crashes, signals>>,
           proc' \in Processes,
           proc'.stale <= proc'.epoch, proc'.pc = "record" => proc'.status \in Ends,
           Placed'
    PROVE  EngineInv'
<1>1. EngineTypeOK'
  BY DEF EngineInv, EngineTypeOK, disk
<1>2. PointersResolve'
  BY DEF EngineInv, PointersResolve, Present, disk
<1>3. Counted'
  BY DEF EngineInv, Counted, Present, disk
<1>4. QED
  BY <1>1, <1>2, <1>3 DEF EngineInv

LEMMA ProcDown ==
    ASSUME EngineTypeOK, proc' = Down
    PROVE  /\ proc' \in Processes /\ proc'.stale <= proc'.epoch /\ proc'.pc # "record"
           /\ Placed'
<1>1. Runs # {}
  BY DEF EngineTypeOK, Processes
<1>2. QED
  BY <1>1, DownType DEF Placed

LEMMA OpenInv ==
    ASSUME EngineInv, Open
    PROVE  EngineInv'
<1> DEFINE r == proc.run
           complete == result[r].status \in Complete
           pointer == IF complete THEN Served(r) ELSE last[r]
<1>a. /\ EngineTypeOK /\ proc \in Processes /\ r \in Runs
      /\ last[r] \in 0..MaxEpochs /\ best[r] \in 0..MaxEpochs /\ pointer \in 0..MaxEpochs
  BY Parts DEF EngineInv, EngineTypeOK, Served
<1>b. /\ UNCHANGED <<curve, disk>> /\ UNCHANGED <<lapsed, crashes, signals>>
      /\ proc.epoch = 0 /\ proc.stale = 0 /\ proc.pc = "open"
  BY DEF Open, Undisturbed, EngineInv, Placed
<1>1. CASE Raises
  BY <1>1, <1>a, <1>b, ProcDown, ProcOnly DEF Raises
<1>2. CASE proc' = [proc EXCEPT !.pc = "returned", !.weights = pointer,
                                !.status = "SKIPPED_COMPLETED"]
  <2>1. [proc EXCEPT !.pc = "returned", !.weights = pointer] \in Processes
    BY <1>a, WeightsType DEF Pcs
  <2>2. [[proc EXCEPT !.pc = "returned", !.weights = pointer]
            EXCEPT !.pc = "returned", !.status = "SKIPPED_COMPLETED"] \in Processes
    BY <2>1, StatusType DEF Pcs, Statuses
  <2>3. proc' = [[proc EXCEPT !.pc = "returned", !.weights = pointer]
                   EXCEPT !.pc = "returned", !.status = "SKIPPED_COMPLETED"]
    BY <1>2, <1>a DEF Processes
  <2>4. /\ proc' \in Processes /\ proc'.pc = "returned" /\ proc'.epoch = 0
        /\ proc'.stale = 0
    BY <2>2, <2>3, <1>a, <1>b DEF Processes
  <2>5. QED
    BY <2>4, <1>b, ProcOnly DEF Placed
<1>3. CASE proc' = Resumed(r) /\ last[r] = 0
  <2>1. proc' = [proc EXCEPT !.pc = "train"]
    BY <1>3 DEF Resumed
  <2>2. proc' \in Processes
    BY <2>1, <1>a, PcType DEF Pcs
  <2>3. proc'.pc = "train" /\ proc'.epoch = 0 /\ proc'.stale = 0 /\ proc'.run = r
    BY <2>1, <1>a, <1>b DEF Processes
  <2>4. last' = last
    BY <1>b DEF disk
  <2>5. QED
    BY <2>2, <2>3, <2>4, <1>3, <1>b, ProcOnly DEF Placed
<1>4. CASE proc' = Resumed(r) /\ last[r] # 0
  <2>1. last[r] \in Present(r)
    BY <1>a, <1>4 DEF EngineInv, PointersResolve
  <2>2. /\ dirs[r][last[r]].best \in 0..MaxEpochs /\ dirs[r][last[r]].stale \in 0..MaxEpochs
        /\ dirs[r][last[r]].stale <= last[r]
    BY <1>a, <2>1, PresentProgress DEF EngineInv, Counted
  <2>3. proc' = [proc EXCEPT !.pc = "train", !.epoch = last[r], !.weights = last[r],
                   !.best = dirs[r][last[r]].best, !.stale = dirs[r][last[r]].stale]
    BY <1>4 DEF Resumed
  <2>4. proc' \in Processes
    BY <2>2, <2>3, <1>a, ResumedType
  <2>5. /\ proc'.pc = "train" /\ proc'.epoch = last[r] /\ proc'.run = r
        /\ proc'.stale = dirs[r][last[r]].stale
    BY <2>3, <1>a DEF Processes
  <2>6. last' = last
    BY <1>b DEF disk
  <2>7. QED
    BY <2>2, <2>4, <2>5, <2>6, <1>b, ProcOnly DEF Placed
<1>5. QED
  BY <1>1, <1>2, <1>3, <1>4 DEF Open

LEMMA LoopEndsInv ==
    ASSUME EngineInv, LoopEnds
    PROVE  EngineInv'
<1>a. proc \in Processes /\ proc.stale <= proc.epoch
  BY DEF EngineInv, EngineTypeOK, Counted
<1>b. UNCHANGED <<curve, disk>> /\ UNCHANGED <<lapsed, crashes, signals>>
  BY DEF LoopEnds, Undisturbed
<1>1. PICK st \in {"PAUSED_STAGE", "COMPLETED"} :
         proc' = [proc EXCEPT !.pc = "record", !.status = st]
  BY Zenon DEF LoopEnds, Leaves
<1>2. st \in Statuses /\ st \in Ends
  BY DEF Statuses, Ends, Complete
<1>3. proc' \in Processes
  BY <1>1, <1>2, <1>a, StatusType DEF Pcs
<1>4. /\ proc'.pc = "record" /\ proc'.status = st /\ proc'.epoch = proc.epoch
      /\ proc'.stale = proc.stale
  BY <1>1, <1>a DEF Processes
<1>5. QED
  BY <1>2, <1>3, <1>4, <1>a, <1>b, ProcOnly DEF Placed

LEMMA RestoreInv ==
    ASSUME EngineInv, Restore
    PROVE  EngineInv'
<1> DEFINE e == Served(proc.run)
<1>a. /\ EngineTypeOK /\ proc \in Processes /\ proc.stale <= proc.epoch
      /\ e \in 0..MaxEpochs
  BY Parts DEF EngineInv, EngineTypeOK, Counted, Served
<1>b. UNCHANGED <<curve, disk>> /\ UNCHANGED <<lapsed, crashes, signals>>
  BY DEF Restore, Undisturbed
<1>1. CASE Raises
  BY <1>1, <1>a, <1>b, ProcDown, ProcOnly DEF Raises
<1>2. CASE proc' = [proc EXCEPT !.pc = "returned", !.weights = e]
  <2>1. proc' \in Processes
    BY <1>2, <1>a, WeightsType DEF Pcs
  <2>2. proc'.pc = "returned" /\ proc'.epoch = proc.epoch /\ proc'.stale = proc.stale
    BY <1>2, <1>a DEF Processes
  <2>3. QED
    BY <2>1, <2>2, <1>a, <1>b, ProcOnly DEF Placed
<1>3. QED
  BY <1>1, <1>2 DEF Restore
-----------------------------------------------------------------------------
(***************************************************************************)
(* The steps that write to a directory.                                    *)
(***************************************************************************)
LEMMA TrainEpochInv ==
    ASSUME EngineInv, TrainEpoch
    PROVE  EngineInv'
<1> DEFINE r == proc.run
           e == proc.epoch + 1
           known == IF curve[r][e] # 0 THEN {curve[r][e]} ELSE Metrics
<1>a. /\ EngineTypeOK /\ PointersResolve /\ proc \in Processes /\ r \in Runs
      /\ proc.stale <= proc.epoch /\ proc.pc = "train" /\ last[r] = proc.epoch
      /\ proc.best \in 0..MaxEpochs /\ proc.stale \in 0..MaxEpochs /\ proc.epoch \in Nat
  BY Parts DEF EngineInv, EngineTypeOK, Counted, Placed, TrainEpoch
<1>b. e \in Epochs /\ e \in 0..MaxEpochs
  BY <1>a, Parts DEF TrainEpoch, Epochs
<1>c. UNCHANGED <<last, best, rows, result>> /\ UNCHANGED <<lapsed, crashes, signals>>
  BY DEF TrainEpoch, Undisturbed
<1>d. PICK m \in IF e \in Validated THEN known ELSE {0} :
         LET improved == e \in Validated /\ (proc.best = 0 \/ m < curve[r][proc.best])
             progress == [best |-> IF improved THEN e ELSE proc.best,
                          stale |-> IF improved THEN 0
                                    ELSE IF e \in Validated THEN proc.stale + 1
                                    ELSE proc.stale]
         IN
         /\ curve' = IF e \in Validated THEN [curve EXCEPT ![r][e] = m] ELSE curve
         /\ IF e \in Present(r) THEN Raises /\ UNCHANGED dirs
            ELSE /\ dirs' = [dirs EXCEPT ![r][e] = progress]
                 /\ proc' = [proc EXCEPT !.pc = "last", !.epoch = e, !.weights = e,
                       !.improved = improved, !.best = progress.best,
                       !.stale = progress.stale]
  BY Zenon DEF TrainEpoch
<1> DEFINE improved == e \in Validated /\ (proc.best = 0 \/ m < curve[r][proc.best])
           b == IF improved THEN e ELSE proc.best
           s == IF improved THEN 0 ELSE IF e \in Validated THEN proc.stale + 1 ELSE proc.stale
<1>1. curve' \in [Runs -> [Validated -> Metrics \cup {0}]]
  <2>1. CASE e \in Validated
    <3>1. m \in Metrics \cup {0}
      BY <1>a, <1>d, <2>1 DEF EngineTypeOK
    <3>2. QED
      BY <1>a, <1>d, <2>1, <3>1 DEF EngineTypeOK
  <2>2. QED
    BY <1>a, <1>d, <2>1 DEF EngineTypeOK
<1>2. CASE e \in Present(r)
  <2>1. proc' = Down /\ dirs' = dirs
    BY <1>2, <1>d DEF Raises
  <2>2. proc' \in Processes /\ proc'.stale <= proc'.epoch /\ proc'.pc # "record" /\ Placed'
    BY <1>a, <2>1, ProcDown
  <2>3. EngineTypeOK'
    BY <1>1, <1>a, <1>c, <2>1, <2>2 DEF EngineTypeOK
  <2>4. QED
    BY <2>1, <2>2, <2>3, <1>c DEF EngineInv, PointersResolve, Counted, Present
<1>3. CASE e \notin Present(r)
  <2>1. /\ b \in 0..MaxEpochs /\ s \in 0..MaxEpochs /\ s <= e /\ improved \in BOOLEAN
    BY <1>a, <1>b DEF Epochs
  <2>2. /\ dirs' = [dirs EXCEPT ![r][e] = [best |-> b, stale |-> s]]
        /\ proc' = [proc EXCEPT !.pc = "last", !.epoch = e, !.weights = e,
                                !.improved = improved, !.best = b, !.stale = s]
    BY <1>3, <1>d
  <2>3. proc' \in Processes
    BY <2>1, <2>2, <1>a, <1>b, TrainedType
  <2>4. proc'.pc = "last" /\ proc'.epoch = e /\ proc'.stale = s /\ proc'.run = r
    BY <2>2, <1>a DEF Processes
  <2>5. [best |-> b, stale |-> s] \in Progress
    BY <2>1 DEF Progress
  <2>6. dirs' \in [Runs -> [Epochs -> Progress \cup {NoCheckpoint}]]
    BY <2>2, <2>5, <1>a, <1>b DEF EngineTypeOK
  <2>7. EngineTypeOK'
    BY <1>1, <1>a, <1>c, <2>3, <2>6 DEF EngineTypeOK
  <2>8. \A q \in Runs : \A f \in Epochs :
           dirs'[q][f] = IF q = r /\ f = e THEN [best |-> b, stale |-> s] ELSE dirs[q][f]
    BY <2>2, <1>a, <1>b DEF EngineTypeOK
  <2>9. \A q \in Runs : \A f \in Epochs :
           f \in Present(q)' <=> f \in Present(q) \/ (q = r /\ f = e)
    <3>1. [best |-> b, stale |-> s] # NoCheckpoint
      BY <2>5, ProgressIsNone
    <3>2. QED
      BY <2>8, <3>1 DEF Present
  <2>10. PointersResolve'
    BY <2>9, <1>a, <1>c DEF PointersResolve, Present
  <2>11. Counted'
    <3>1. \A q \in Runs : \A f \in Present(q)' : dirs'[q][f].stale <= f
      <4> SUFFICES ASSUME NEW q \in Runs, NEW f \in Present(q)'
                   PROVE  dirs'[q][f].stale <= f
          OBVIOUS
      <4>1. f \in Epochs
        BY DEF Present
      <4>2. CASE q = r /\ f = e
        BY <4>1, <4>2, <2>1, <2>8
      <4>3. CASE ~(q = r /\ f = e)
        BY <4>1, <4>3, <2>8, <2>9 DEF EngineInv, Counted
      <4>4. QED
        BY <4>2, <4>3
    <3>2. QED
      BY <2>1, <2>4, <3>1 DEF Counted
  <2>12. Placed'
    BY <2>4, <2>9, <1>a, <1>b, <1>c DEF Placed
  <2>13. QED
    BY <2>7, <2>10, <2>11, <2>12 DEF EngineInv
<1>4. QED
  BY <1>2, <1>3

LEMMA PointLastInv ==
    ASSUME EngineInv, PointLast
    PROVE  EngineInv'
<1>a. /\ EngineTypeOK /\ PointersResolve /\ Counted /\ proc \in Processes
      /\ proc.run \in Runs /\ proc.epoch \in 0..MaxEpochs
      /\ last[proc.run] <= proc.epoch /\ proc.epoch \in Present(proc.run)
  BY Parts DEF EngineInv, EngineTypeOK, Placed, PointLast
<1>b. /\ UNCHANGED <<curve, dirs, best, rows, result>> /\ UNCHANGED <<lapsed, crashes, signals>>
      /\ last' = [last EXCEPT ![proc.run] = proc.epoch]
  BY DEF PointLast, Undisturbed
<1>1. PICK pc \in {"best", "prune"} : proc' = [proc EXCEPT !.pc = pc]
  BY Zenon DEF PointLast, Goes
<1>2. proc' \in Processes
  BY <1>1, <1>a, PcType DEF Pcs
<1>3. /\ proc'.pc = pc /\ proc'.run = proc.run /\ proc'.epoch = proc.epoch
      /\ proc'.stale = proc.stale
  BY <1>1, <1>a DEF Processes
<1>4. /\ last' \in [Runs -> 0..MaxEpochs]
      /\ \A r \in Runs : last'[r] = IF r = proc.run THEN proc.epoch ELSE last[r]
  BY <1>a, <1>b DEF EngineTypeOK
<1>5. EngineTypeOK'
  BY <1>a, <1>b, <1>2, <1>4 DEF EngineTypeOK
<1>6. PointersResolve'
  <2> SUFFICES ASSUME NEW r \in Runs
               PROVE  {last'[r], best[r]} \subseteq Present(r) \cup {0} /\ best[r] <= last'[r]
      BY <1>b DEF PointersResolve, Present
  <2>1. last[r] \in Nat /\ best[r] \in Nat /\ best[r] <= last[r]
    BY <1>a DEF PointersResolve, EngineTypeOK
  <2>2. QED
    BY <2>1, <1>4, <1>a DEF PointersResolve
<1>7. Counted'
  BY <1>a, <1>b, <1>1, <1>3 DEF Counted, Present
<1>8. Placed'
  BY <1>a, <1>b, <1>1, <1>3, <1>4 DEF Placed, Present
<1>9. QED
  BY <1>5, <1>6, <1>7, <1>8 DEF EngineInv

LEMMA PointBestInv ==
    ASSUME EngineInv, PointBest
    PROVE  EngineInv'
<1>a. /\ EngineTypeOK /\ PointersResolve /\ Counted /\ proc \in Processes
      /\ proc.run \in Runs /\ proc.epoch \in 0..MaxEpochs
      /\ last[proc.run] = proc.epoch /\ proc.epoch \in Present(proc.run)
  BY Parts DEF EngineInv, EngineTypeOK, Placed, PointBest
<1>b. /\ UNCHANGED <<curve, dirs, last, rows, result>> /\ UNCHANGED <<lapsed, crashes, signals>>
      /\ best' = [best EXCEPT ![proc.run] = proc.epoch]
      /\ proc' = [proc EXCEPT !.pc = "prune"]
  BY DEF PointBest, Undisturbed, Goes
<1>1. proc' \in Processes
  BY <1>a, <1>b, PcType DEF Pcs
<1>2. /\ proc'.pc = "prune" /\ proc'.run = proc.run /\ proc'.epoch = proc.epoch
      /\ proc'.stale = proc.stale
  BY <1>a, <1>b DEF Processes
<1>3. /\ best' \in [Runs -> 0..MaxEpochs]
      /\ \A r \in Runs : best'[r] = IF r = proc.run THEN proc.epoch ELSE best[r]
  BY <1>a, <1>b DEF EngineTypeOK
<1>4. EngineTypeOK'
  BY <1>a, <1>b, <1>1, <1>3 DEF EngineTypeOK
<1>5. PointersResolve'
  BY <1>a, <1>b, <1>3 DEF PointersResolve, Present
<1>6. Counted'
  BY <1>a, <1>b, <1>2 DEF Counted, Present
<1>7. Placed'
  BY <1>a, <1>b, <1>2 DEF Placed, Present
<1>8. QED
  BY <1>4, <1>5, <1>6, <1>7 DEF EngineInv

(* Pruning keeps what the pointers name.                                   *)
LEMMA PruneInv ==
    ASSUME EngineInv, Prune
    PROVE  EngineInv'
<1> DEFINE r == proc.run
<1>a. /\ EngineTypeOK /\ PointersResolve /\ Counted /\ proc \in Processes /\ r \in Runs
      /\ last[r] = proc.epoch /\ proc.epoch \in Present(r)
  BY Parts DEF EngineInv, EngineTypeOK, Placed, Prune
<1>b. /\ UNCHANGED <<curve, last, best, rows, result>> /\ UNCHANGED <<lapsed, crashes, signals>>
      /\ dirs' = [dirs EXCEPT ![r] =
            [e \in Epochs |-> IF e \in Kept(r) THEN dirs[r][e] ELSE NoCheckpoint]]
      /\ proc' = [proc EXCEPT !.pc = "log"]
  BY DEF Prune, Undisturbed, Goes
<1>1. proc' \in Processes
  BY <1>a, <1>b, PcType DEF Pcs
<1>2. /\ proc'.pc = "log" /\ proc'.run = r /\ proc'.epoch = proc.epoch
      /\ proc'.stale = proc.stale
  BY <1>a, <1>b DEF Processes
<1>3. /\ \A e \in Epochs : dirs'[r][e] = IF e \in Kept(r) THEN dirs[r][e] ELSE NoCheckpoint
      /\ \A q \in Runs : q # r => dirs'[q] = dirs[q]
  BY <1>a, <1>b DEF EngineTypeOK
<1>4. dirs' \in [Runs -> [Epochs -> Progress \cup {NoCheckpoint}]]
  <2>1. [e \in Epochs |-> IF e \in Kept(r) THEN dirs[r][e] ELSE NoCheckpoint]
           \in [Epochs -> Progress \cup {NoCheckpoint}]
    BY <1>a DEF EngineTypeOK
  <2>2. QED
    BY <2>1, <1>a, <1>b DEF EngineTypeOK
<1>5. \A q \in Runs : /\ Present(q)' \subseteq Present(q)
                      /\ \A e \in {last[q], best[q]} : e \in Present(q) => e \in Present(q)'
  <2> SUFFICES ASSUME NEW q \in Runs
               PROVE  /\ Present(q)' \subseteq Present(q)
                      /\ \A e \in {last[q], best[q]} : e \in Present(q) => e \in Present(q)'
      OBVIOUS
  <2>1. Present(q)' = {e \in Epochs : dirs'[q][e] # NoCheckpoint}
    BY DEF Present
  <2>2. CASE q # r
    BY <1>3, <2>1, <2>2 DEF Present
  <2>3. CASE q = r
    <3>1. \A e \in Epochs : dirs'[q][e] = IF e \in Kept(r) THEN dirs[q][e] ELSE NoCheckpoint
      BY <1>3, <2>3
    <3>2. last[q] \in Kept(r) /\ best[q] \in Kept(r)
      BY <2>3 DEF Kept
    <3>3. QED
      BY <2>1, <3>1, <3>2 DEF Present
  <2>4. QED
    BY <2>2, <2>3
<1>6. EngineTypeOK'
  BY <1>a, <1>b, <1>1, <1>4 DEF EngineTypeOK
<1>7. PointersResolve'
  <2> SUFFICES ASSUME NEW q \in Runs
               PROVE  {last[q], best[q]} \subseteq Present(q)' \cup {0} /\ best[q] <= last[q]
      BY <1>b DEF PointersResolve
  <2>1. {last[q], best[q]} \subseteq Present(q) \cup {0} /\ best[q] <= last[q]
    BY <1>a DEF PointersResolve
  <2>2. QED
    BY <2>1, <1>5
<1>8. Counted'
  <2>1. \A q \in Runs : \A e \in Present(q)' : dirs'[q][e].stale <= e
    <3> SUFFICES ASSUME NEW q \in Runs, NEW e \in Present(q)'
                 PROVE  dirs'[q][e].stale <= e
        OBVIOUS
    <3>1. e \in Present(q) /\ e \in Epochs /\ dirs'[q][e] # NoCheckpoint
      <4>1. e \in Epochs /\ dirs'[q][e] # NoCheckpoint
        BY DEF Present
      <4>2. e \in Present(q)
        BY <1>5
      <4>3. QED
        BY <4>1, <4>2
    <3>2. dirs'[q][e] = dirs[q][e]
      BY <3>1, <1>3
    <3>3. QED
      BY <3>1, <3>2, <1>a DEF Counted
  <2>2. QED
    BY <2>1, <1>a, <1>2 DEF Counted
<1>9. Placed'
  BY <1>a, <1>b, <1>2, <1>5 DEF Placed
<1>10. QED
  BY <1>6, <1>7, <1>8, <1>9 DEF EngineInv

LEMMA LogInv ==
    ASSUME EngineInv, Log
    PROVE  EngineInv'
<1>a. /\ EngineTypeOK /\ PointersResolve /\ Counted /\ proc \in Processes
      /\ proc.run \in Runs /\ last[proc.run] = proc.epoch /\ proc.epoch \in Present(proc.run)
  BY Parts DEF EngineInv, EngineTypeOK, Placed, Log
<1>b. /\ UNCHANGED <<curve, dirs, last, best, result>> /\ UNCHANGED <<lapsed, crashes, signals>>
      /\ rows' = IF proc.epoch \in Validated
                   THEN [rows EXCEPT ![proc.run][proc.epoch] = @ + 1] ELSE rows
  BY DEF Log, Undisturbed
<1>1. /\ proc' \in Processes /\ proc'.run = proc.run /\ proc'.epoch = proc.epoch
      /\ proc'.stale = proc.stale /\ proc'.pc \in {"record", "train"}
      /\ proc'.pc = "record" => proc'.status \in Ends
  <2>1. CASE \E st \in {"EARLY_STOPPED", "INTERRUPTED"} :
                proc' = [proc EXCEPT !.pc = "record", !.status = st]
    <3>1. PICK st \in {"EARLY_STOPPED", "INTERRUPTED"} :
             proc' = [proc EXCEPT !.pc = "record", !.status = st]
      BY <2>1
    <3>2. st \in Statuses /\ st \in Ends
      BY DEF Statuses, Ends, Complete
    <3>3. proc' \in Processes
      BY <3>1, <3>2, <1>a, StatusType DEF Pcs
    <3>4. QED
      BY <3>1, <3>2, <3>3, <1>a DEF Processes
  <2>2. CASE proc' = [proc EXCEPT !.pc = "train"]
    <3>1. proc' \in Processes
      BY <2>2, <1>a, PcType DEF Pcs
    <3>2. QED
      BY <2>2, <3>1, <1>a DEF Processes
  <2>3. QED
    BY <2>1, <2>2, Zenon DEF Log, Leaves, Goes
<1>2. rows' \in [Runs -> [Validated -> Nat]]
  BY <1>a, <1>b DEF EngineTypeOK
<1>3. EngineTypeOK'
  BY <1>a, <1>b, <1>1, <1>2 DEF EngineTypeOK
<1>4. PointersResolve'
  BY <1>a, <1>b DEF PointersResolve, Present
<1>5. Counted'
  BY <1>a, <1>b, <1>1 DEF Counted, Present
<1>6. Placed'
  BY <1>a, <1>b, <1>1 DEF Placed
<1>7. QED
  BY <1>3, <1>4, <1>5, <1>6 DEF EngineInv

LEMMA RecordInv ==
    ASSUME EngineInv, Record
    PROVE  EngineInv'
<1>a. /\ EngineTypeOK /\ PointersResolve /\ Counted /\ proc \in Processes
      /\ proc.run \in Runs /\ proc.status \in Ends
      /\ proc.epoch \in 0..MaxEpochs /\ proc.best \in 0..MaxEpochs
  BY Parts DEF EngineInv, EngineTypeOK, Counted, Record
<1>b. /\ UNCHANGED <<curve, dirs, last, best, rows>> /\ UNCHANGED <<lapsed, crashes, signals>>
      /\ result' = [result EXCEPT ![proc.run] =
            [status |-> proc.status, last |-> proc.epoch, best |-> proc.best]]
  BY DEF Record, Undisturbed
<1>1. PICK pc \in {"restore", "returned"} : proc' = [proc EXCEPT !.pc = pc]
  BY Zenon DEF Record, Goes
<1>2. /\ proc' \in Processes /\ proc'.pc = pc /\ proc'.epoch = proc.epoch
      /\ proc'.stale = proc.stale
  <2>1. proc' \in Processes
    BY <1>1, <1>a, PcType DEF Pcs
  <2>2. QED
    BY <2>1, <1>1, <1>a DEF Processes
<1>3. [status |-> proc.status, last |-> proc.epoch, best |-> proc.best] \in Results
  BY <1>a DEF Results, Ends, Complete
<1>4. EngineTypeOK'
  BY <1>a, <1>b, <1>2, <1>3 DEF EngineTypeOK
<1>5. PointersResolve' /\ Counted' /\ Placed'
  BY <1>a, <1>b, <1>1, <1>2 DEF PointersResolve, Counted, Placed, Present
<1>6. QED
  BY <1>4, <1>5 DEF EngineInv

LEMMA InterruptionInv ==
    ASSUME EngineInv, Signal \/ Crash
    PROVE  EngineInv'
<1>a. /\ EngineTypeOK /\ PointersResolve /\ Counted /\ Placed /\ proc \in Processes
      /\ proc.run \in Runs
  BY Parts DEF EngineInv, EngineTypeOK
<1>1. CASE Signal
  <2>1. proc' = [proc EXCEPT !.flag = TRUE] /\ UNCHANGED <<curve, disk, lapsed, crashes>>
    BY <1>1 DEF Signal
  <2>2. /\ proc' \in Processes /\ proc'.pc = proc.pc /\ proc'.epoch = proc.epoch
        /\ proc'.stale = proc.stale /\ proc'.run = proc.run /\ proc'.status = proc.status
    <3>1. proc' \in Processes
      BY <2>1, <1>a, FlagType
    <3>2. QED
      BY <2>1, <3>1, <1>a DEF Processes
  <2>3. signals' \in 0..MaxSignals
    BY <1>1, <1>a DEF Signal, EngineTypeOK
  <2>4. EngineTypeOK'
    BY <1>a, <2>1, <2>2, <2>3 DEF EngineTypeOK, disk
  <2>5. PointersResolve' /\ Counted' /\ Placed'
    BY <1>a, <2>1, <2>2 DEF PointersResolve, Counted, Placed, Present, disk
  <2>6. QED
    BY <2>4, <2>5 DEF EngineInv
<1>2. CASE Crash
  <2>1. /\ proc' = Down /\ UNCHANGED <<curve, disk, signals>>
        /\ lapsed' = [lapsed EXCEPT ![proc.run] = @ \cup Window]
    BY <1>2 DEF Crash
  <2>2. proc' \in Processes /\ proc'.stale <= proc'.epoch /\ proc'.pc # "record" /\ Placed'
    BY <1>a, <2>1, ProcDown
  <2>3. Window \subseteq {"stuck", "best", "row", "stop"}
    BY Zenon DEF Window
  <2>4. lapsed' \in [Runs -> SUBSET {"stuck", "best", "row", "stop"}]
    BY <1>a, <2>1, <2>3 DEF EngineTypeOK
  <2>5. crashes' \in 0..MaxCrashes
    BY <1>2, <1>a DEF Crash, EngineTypeOK
  <2>6. EngineTypeOK'
    BY <1>a, <2>1, <2>2, <2>4, <2>5 DEF EngineTypeOK, disk
  <2>7. PointersResolve' /\ Counted'
    BY <1>a, <2>1, <2>2 DEF PointersResolve, Counted, Present, disk
  <2>8. QED
    BY <2>2, <2>6, <2>7 DEF EngineInv
<1>3. QED
  BY <1>1, <1>2

LEMMA EngineStepInv ==
    ASSUME EngineInv, Engine
    PROVE  EngineInv'
  BY OpenInv, TrainEpochInv, PointLastInv, PointBestInv, PruneInv, LogInv, LoopEndsInv,
     RecordInv, RestoreInv DEF Engine
-----------------------------------------------------------------------------
(***************************************************************************)
(* The suite.                                                              *)
(***************************************************************************)
Suites ==
    [stage : 0..3, left : SUBSET Runs, seen : [Runs -> Metrics \cup {0}], decided : Decisions]

SuiteInv ==
    /\ suite \in Suites
    /\ trace \in Decisions
    /\ proc.pc # "down" => suite.stage \in 1..3

IInv == EngineInv /\ SuiteInv

LEMMA RunsExist == Runs # {} /\ \A c \in Candidates, a \in Axes \cup {"stage"} : <<c, a>> \in Runs
<1>1. \A c \in Candidates, a \in Axes \cup {"stage"} : <<c, a>> \in Runs
  BY RunDirectories
<1>2. PICK c \in Candidates : TRUE
  BY SelectionAssumption
<1>3. <<c, "stage">> \in Runs
  BY <1>1
<1>4. QED
  BY <1>1, <1>3

LEMMA NoSuiteType == NoSuite \in Suites
  BY DEF NoSuite, Undecided, Suites, Decisions

LEMMA LaunchedType ==
    \A u \in Suites, l \in SUBSET Runs : [u EXCEPT !.stage = 1, !.left = l] \in Suites
<1>1. \A u \in Suites : [u EXCEPT !.stage = 1] \in Suites
  BY DEF Suites
<1>2. \A u \in Suites, l \in SUBSET Runs : [u EXCEPT !.left = l] \in Suites
  BY DEF Suites
<1>3. \A u \in Suites, l \in SUBSET Runs :
         [u EXCEPT !.stage = 1, !.left = l] = [[u EXCEPT !.stage = 1] EXCEPT !.left = l]
  BY DEF Suites
<1>4. QED
  BY <1>1, <1>2, <1>3

LEMMA StageRunsType == \A cs \in SUBSET Candidates, n \in 1..3 : StageRuns(cs, n) \in SUBSET Runs
  BY RunDirectories DEF StageRuns

LEMMA DecidedType ==
    ASSUME NEW n \in 1..3, NEW d \in Decisions, NEW metric
    PROVE  Decided(n, d, metric) \in Decisions
<1>a. /\ d.survivors \in SUBSET Candidates /\ d.finalists \in SUBSET Candidates
      /\ d.selected \in SUBSET Candidates
  BY DEF Decisions
<1>1. \A f, k : \A cs \in SUBSET Candidates : Ranked(cs, f, k) \in SUBSET Candidates
  BY DEF Ranked
<1>2. Selected(d.finalists, metric) \in SUBSET Candidates
  BY <1>a DEF Selected
<1>3. \A cs \in SUBSET Candidates :
         /\ [d EXCEPT !.survivors = cs] \in Decisions
         /\ [d EXCEPT !.finalists = cs] \in Decisions
         /\ [d EXCEPT !.selected = cs] \in Decisions
  BY DEF Decisions
<1>4. CASE n = 1
  <2>1. Ranked(Candidates, StageMetric(metric), Half(Cardinality(Candidates)))
           \in SUBSET Candidates
    BY <1>1
  <2>2. Decided(n, d, metric) =
           [d EXCEPT !.survivors = Ranked(Candidates, StageMetric(metric), Half(Cardinality(Candidates)))]
    BY <1>4 DEF Decided
  <2>3. QED
    BY <1>3, <2>1, <2>2, Zenon
<1>5. CASE n = 2
  <2>1. Ranked(d.survivors, StageMetric(metric), Finalists) \in SUBSET Candidates
    BY <1>1, <1>a
  <2>2. Decided(n, d, metric) =
           [d EXCEPT !.finalists = Ranked(d.survivors, StageMetric(metric), Finalists)]
    BY <1>5 DEF Decided
  <2>3. QED
    BY <1>3, <2>1, <2>2, Zenon
<1>6. CASE n = 3
  <2>1. Decided(n, d, metric) = [d EXCEPT !.selected = Selected(d.finalists, metric)]
    BY <1>6 DEF Decided
  <2>2. QED
    BY <1>2, <1>3, <2>1, Zenon
<1>7. QED
  BY <1>4, <1>5, <1>6

(* The metric of a run that has logged a validation is one of the metrics. *)
LEMMA ValidationMetricType ==
    ASSUME EngineTypeOK, NEW r \in Runs, Logged(r) # {}
    PROVE  ValidationMetric(r) \in Metrics \cup {0}
<1> DEFINE S == {curve[r][v] : v \in Logged(r)}
<1>1. S \subseteq Metrics \cup {0} /\ S # {}
  BY DEF EngineTypeOK, Logged
<1>2. S \in SUBSET Nat
  <2>1. Metrics \cup {0} \subseteq Nat
    OBVIOUS
  <2> HIDE DEF S
  <2>2. QED
    BY <1>1, <2>1
<1>3. Min(S) \in S
  BY <1>1, <1>2, LeastExists
<1>4. QED
  BY <1>1, <1>3, Zenon DEF ValidationMetric

(* A step of the suite changes only the process and its own variables.     *)
LEMMA SuiteStepEngine ==
    ASSUME IInv, Launch \/ Call \/ Collect \/ Decide
    PROVE  EngineInv'
<1>a. /\ EngineInv /\ EngineTypeOK /\ proc \in Processes /\ proc.stale <= proc.epoch
      /\ UNCHANGED <<curve, disk>> /\ UNCHANGED <<lapsed, crashes, signals>>
  BY DEF IInv, EngineInv, EngineTypeOK, Counted, Launch, Call, Collect, Decide
<1>b. /\ Down \in Processes /\ Down.epoch = 0 /\ Down.stale = 0
      /\ [Down EXCEPT !.pc = "suite"] \in Processes
  BY RunsExist, DownType
<1>1. CASE proc' = Down
  BY <1>1, <1>a, ProcDown, ProcOnly
<1>2. CASE proc' = [Down EXCEPT !.pc = "suite"]
  <2>1. proc'.pc = "suite" /\ proc'.epoch = 0 /\ proc'.stale = 0
    BY <1>2, <1>b DEF Processes
  <2>2. QED
    BY <1>2, <1>a, <1>b, <2>1, ProcOnly DEF Placed
<1>3. CASE \E r \in Runs, n \in Epochs :
              proc' = [Down EXCEPT !.pc = "open", !.run = r, !.limit = n]
  <2>1. PICK r \in Runs, n \in Epochs :
           proc' = [Down EXCEPT !.pc = "open", !.run = r, !.limit = n]
    BY <1>3
  <2>2. proc' \in Processes
    BY <1>b, <2>1 DEF Processes
  <2>3. proc'.pc = "open" /\ proc'.epoch = 0 /\ proc'.stale = 0
    BY <1>b, <2>1 DEF Processes
  <2>4. QED
    BY <1>a, <2>2, <2>3, ProcOnly DEF Placed
<1>4. CASE proc' = [proc EXCEPT !.pc = "suite"]
  <2>1. proc' \in Processes
    BY <1>4, <1>a, PcType DEF Pcs
  <2>2. proc'.pc = "suite" /\ proc'.epoch = proc.epoch /\ proc'.stale = proc.stale
    BY <1>4, <1>a DEF Processes
  <2>3. QED
    BY <1>a, <2>1, <2>2, ProcOnly DEF Placed
<1>5. CASE UNCHANGED proc
  <2>1. UNCHANGED vars
    BY <1>a, <1>5 DEF vars
  <2>2. QED
    BY <1>a, <2>1 DEF vars, disk, EngineInv, EngineTypeOK, PointersResolve, Counted, Placed, Present
<1>6. CASE Launch
  BY <1>2, <1>6 DEF Launch
<1>7. CASE Call
  <2>1. PICK r \in suite.left :
           proc' = [Down EXCEPT !.pc = "open", !.run = r,
                       !.limit = IF suite.stage = 1 THEN Stage1Limit ELSE MaxEpochs]
    BY <1>7 DEF Call
  <2>2. r \in Runs
    BY DEF IInv, SuiteInv, Suites
  <2>3. (IF suite.stage = 1 THEN Stage1Limit ELSE MaxEpochs) \in Epochs
    BY SelectionAssumption DEF Epochs
  <2>4. QED
    BY <1>3, <2>1, <2>2, <2>3
<1>8. CASE Collect
  BY <1>1, <1>4, <1>8 DEF Collect, Raises, Goes
<1>9. CASE Decide
  BY <1>1, <1>5, <1>9 DEF Decide, Raises
<1>10. QED
  BY <1>6, <1>7, <1>8, <1>9

LEMMA SuiteStepSuite ==
    ASSUME IInv, Launch \/ Call \/ Collect \/ Decide
    PROVE  SuiteInv'
<1>a. /\ EngineTypeOK /\ proc \in Processes /\ proc.run \in Runs
      /\ suite \in Suites /\ trace \in Decisions
  BY Parts DEF IInv, SuiteInv, EngineInv, EngineTypeOK
<1>b. Down \in Processes /\ Down.pc = "down"
  BY RunsExist, DownType
<1>1. CASE Launch
  <2>1. [NoSuite EXCEPT !.stage = 1, !.left = StageRuns(Candidates, 1)] \in Suites
    <3>1. StageRuns(Candidates, 1) \in SUBSET Runs
      BY StageRunsType
    <3>2. QED
      BY <3>1, LaunchedType, NoSuiteType, Zenon
  <2>2. suite' \in Suites /\ suite'.stage = 1 /\ trace' = trace
    BY <1>1, <2>1, NoSuiteType DEF Launch, Suites
  <2>3. QED
    BY <1>a, <2>2 DEF SuiteInv
<1>2. CASE Call
  <2>1. suite' = suite /\ trace' = trace /\ proc.pc = "suite"
    BY <1>2 DEF Call
  <2>2. QED
    BY <1>a, <2>1 DEF IInv, SuiteInv
<1>3. CASE Collect
  <2>1. trace' = trace /\ proc.pc = "returned" /\ suite.stage \in 1..3
    BY <1>3 DEF Collect, IInv, SuiteInv
  <2>2. CASE Logged(proc.run) = {}
    BY <1>3, <1>a, <1>b, <2>1, <2>2, NoSuiteType DEF Collect, Raises, SuiteInv
  <2>3. CASE Logged(proc.run) # {}
    <3>1. ValidationMetric(proc.run) \in Metrics \cup {0}
      BY <1>a, <2>3, ValidationMetricType
    <3>2. suite' = [suite EXCEPT !.left = @ \ {proc.run},
                                 !.seen[proc.run] = ValidationMetric(proc.run)]
      BY <1>3, <2>3 DEF Collect
    <3>3. suite' \in Suites /\ suite'.stage = suite.stage
      BY <1>a, <3>1, <3>2 DEF Suites
    <3>4. QED
      BY <1>a, <2>1, <3>3 DEF SuiteInv
  <2>4. QED
    BY <2>2, <2>3
<1>4. CASE Decide
  <2> DEFINE n == suite.stage
             d == Decided(n, suite.decided, suite.seen)
             go == StageRuns(IF n = 1 THEN d.survivors ELSE d.finalists, n + 1)
  <2>1. n \in 1..3 /\ suite.decided \in Decisions
    BY <1>4, <1>a DEF Decide, IInv, SuiteInv, Suites
  <2>2. d \in Decisions
    BY <2>1, DecidedType
  <2>3. CASE n < 3
    <3>1. n + 1 \in 1..3 /\ n + 1 \in 0..3
      BY <2>1, <2>3
    <3>2. go \in SUBSET Runs
      <4>1. d.survivors \in SUBSET Candidates /\ d.finalists \in SUBSET Candidates
        BY <2>2 DEF Decisions
      <4>2. QED
        BY <3>1, <4>1, StageRunsType
    <3>3. /\ suite' = [suite EXCEPT !.stage = n + 1, !.decided = d, !.left = go]
          /\ UNCHANGED <<proc, trace>>
      BY <1>4, <2>3 DEF Decide
    <3>4. suite' \in Suites /\ suite'.stage = n + 1
      BY <1>a, <2>2, <3>1, <3>2, <3>3 DEF Suites
    <3>5. QED
      BY <1>a, <3>1, <3>3, <3>4 DEF SuiteInv
  <2>4. CASE ~(n < 3)
    <3>1. trace' = d /\ suite' = NoSuite /\ proc' = Down
      BY <1>4, <2>4 DEF Decide, Raises
    <3>2. QED
      BY <1>b, <2>2, <3>1, NoSuiteType DEF SuiteInv
  <2>5. QED
    BY <2>3, <2>4
<1>5. QED
  BY <1>1, <1>2, <1>3, <1>4

(* A step of the engine forgets the suite when the process ends.           *)
LEMMA ForgottenType ==
    ASSUME IInv, proc.pc # "down", Forgotten, UNCHANGED trace
    PROVE  SuiteInv'
<1>1. CASE proc'.pc = "down"
  BY <1>1, NoSuiteType DEF Forgotten, IInv, SuiteInv
<1>2. CASE proc'.pc # "down"
  BY <1>2 DEF Forgotten, IInv, SuiteInv
<1>3. QED
  BY <1>1, <1>2
-----------------------------------------------------------------------------
(***************************************************************************)
(* The theorems.                                                           *)
(***************************************************************************)
LEMMA InitInv == Init => IInv
<1> SUFFICES ASSUME Init PROVE IInv
    OBVIOUS
<1>1. Down \in Processes /\ Down.pc = "down" /\ Down.epoch = 0 /\ Down.stale = 0
  BY RunsExist, DownType
<1>2. Present(proc.run) = {} /\ \A r \in Runs : Present(r) = {}
  BY <1>1 DEF Init, EngineInit, Present, Processes
<1>3. EngineTypeOK
  BY <1>1 DEF Init, EngineInit, EngineTypeOK, NoResult, Results, Complete
<1>4. PointersResolve
  BY DEF Init, EngineInit, PointersResolve
<1>5. Counted /\ Placed
  BY <1>1, <1>2 DEF Init, EngineInit, Counted, Placed
<1>6. SuiteInv
  BY <1>1, NoSuiteType DEF Init, EngineInit, SuiteInv, Undecided, Decisions
<1>7. QED
  BY <1>3, <1>4, <1>5, <1>6 DEF IInv, EngineInv

LEMMA StepInv == IInv /\ [Next]_selectionVars => IInv'
<1> SUFFICES ASSUME IInv, [Next]_selectionVars PROVE IInv'
    OBVIOUS
<1>1. CASE Launch \/ Call \/ Collect \/ Decide
  BY <1>1, SuiteStepEngine, SuiteStepSuite DEF IInv
<1>2. CASE EngineStep
  <2>1. Engine /\ Forgotten /\ UNCHANGED trace
    BY <1>2 DEF EngineStep
  <2>2. EngineInv'
    BY <2>1, EngineStepInv DEF IInv
  <2>3. proc.pc # "down"
    BY <2>1 DEF Engine, Open, TrainEpoch, PointLast, PointBest, Prune, Log, LoopEnds,
                Record, Restore
  <2>4. QED
    BY <2>1, <2>2, <2>3, ForgottenType DEF IInv
<1>3. CASE Interruption
  <2>1. (Signal \/ Crash) /\ Forgotten /\ UNCHANGED trace
    BY <1>3 DEF Interruption
  <2>2. EngineInv'
    BY <2>1, InterruptionInv DEF IInv
  <2>3. proc.pc # "down"
    BY <2>1 DEF Signal, Crash
  <2>4. QED
    BY <2>1, <2>2, <2>3, ForgottenType DEF IInv
<1>4. CASE UNCHANGED selectionVars
  BY <1>4 DEF selectionVars, vars, disk, IInv, EngineInv, SuiteInv, EngineTypeOK,
              PointersResolve, Counted, Placed, Present
<1>5. QED
  BY <1>1, <1>2, <1>3, <1>4 DEF Next, Works

(* Type correctness of the engine and the suite.                           *)
THEOREM SelectionTypeOK == Spec => []TypeOK
<1>1. IInv => TypeOK
  BY DEF IInv, EngineInv, SuiteInv, Suites, TypeOK
<1>2. QED
  BY InitInv, StepInv, <1>1, PTL DEF Spec

(* Wherever a process dies and whatever it prunes, last.json and best.json *)
(* name checkpoints that exist, and the best one is not the newer one.     *)
THEOREM SelectionPointersResolve == Spec => []PointersResolve
<1>1. IInv => PointersResolve
  BY DEF IInv, EngineInv
<1>2. QED
  BY InitInv, StepInv, <1>1, PTL DEF Spec
=============================================================================
