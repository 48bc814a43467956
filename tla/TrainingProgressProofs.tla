----------------------- MODULE TrainingProgressProofs -----------------------
(***************************************************************************)
(* The progress in the checkpoints, the end of a run, its log and the      *)
(* weights it hands over are those of an uninterrupted training, for every *)
(* curve, limit and patience, and however often the process is signalled   *)
(* or killed; and a selection decides over such runs as if it had never    *)
(* been killed.                                                            *)
(***************************************************************************)
EXTENDS TrainingProofs, FiniteSetTheorems

USE TrainingAssumption, TrainingBounds

-----------------------------------------------------------------------------
(***************************************************************************)
(* Lemmas about the best validation of a curve and those since then.       *)
(***************************************************************************)
Curves == [Validated -> Nat]

IsBest(c, n, v) ==
    /\ v \in Validated /\ v <= n
    /\ \A u \in Validated : u <= n => c[v] < c[u] \/ (c[v] = c[u] /\ v <= u)

LEMMA ValidatedPositive == Validated \subseteq Nat \ {0} /\ IsFiniteSet(Validated)
<1>1. IsFiniteSet(Epochs)
  BY FS_Interval DEF Epochs
<1>2. Validated \subseteq Epochs
  BY DEF Validated
<1>3. Epochs \subseteq Nat \ {0}
  BY DEF Epochs
<1>4. IsFiniteSet(Validated)
  BY <1>1, <1>2, FS_Subset
<1>5. QED
  BY <1>2, <1>3, <1>4

LEMMA BestUnique ==
    ASSUME NEW c \in Curves, NEW n \in Nat, NEW v, NEW w, IsBest(c, n, v), IsBest(c, n, w)
    PROVE  v = w
<1>1. v \in Nat /\ w \in Nat /\ c[v] \in Nat /\ c[w] \in Nat
  BY ValidatedPositive DEF IsBest, Curves
<1>2. /\ c[v] < c[w] \/ (c[v] = c[w] /\ v <= w)
      /\ c[w] < c[v] \/ (c[w] = c[v] /\ w <= v)
  BY DEF IsBest
<1>3. QED
  BY <1>1, <1>2

LEMMA BestExists ==
    ASSUME NEW c \in Curves, NEW n \in Nat, NEW u \in Validated, u <= n
    PROVE  \E v : IsBest(c, n, v)
<1> DEFINE seen == {v \in Validated : v <= n}
           S == {c[v] : v \in seen}
           T == {v \in seen : c[v] = Min(S)}
<1>1. S \in SUBSET Nat /\ S # {}
  BY DEF Curves
<1>2. Min(S) \in S /\ \A x \in S : Min(S) <= x
  <2> HIDE DEF S
  <2>1. QED
    BY <1>1, LeastExists
<1>3. T \in SUBSET Nat /\ T # {}
  BY <1>2, ValidatedPositive
<1>4. Min(T) \in T /\ \A x \in T : Min(T) <= x
  <2> HIDE DEF T
  <2>1. QED
    BY <1>3, LeastExists
<1>5. ASSUME NEW w \in Validated, w <= n
      PROVE  c[Min(T)] < c[w] \/ (c[Min(T)] = c[w] /\ Min(T) <= w)
  <2>1. w \in seen /\ c[w] \in S /\ c[w] \in Nat /\ c[Min(T)] = Min(S) /\ Min(S) \in Nat
    BY <1>1, <1>2, <1>4, <1>5 DEF Curves
  <2>2. Min(S) <= c[w]
    BY <1>2, <2>1
  <2>3. c[w] = Min(S) => w \in T
    BY <2>1
  <2> HIDE DEF S, T, seen
  <2>4. QED
    BY <1>4, <2>1, <2>2, <2>3
<1>6. IsBest(c, n, Min(T))
  BY <1>4, <1>5 DEF IsBest
<1>7. QED
  BY <1>6

LEMMA BestAtIsBest ==
    ASSUME NEW c \in Curves, NEW n \in Nat
    PROVE  /\ (\A v \in Validated : ~(v <= n)) => BestAt(c, n) = 0
           /\ (\E v \in Validated : v <= n) =>
                 IsBest(c, n, BestAt(c, n)) /\ BestAt(c, n) # 0
<1> DEFINE seen == {v \in Validated : v <= n}
<1>1. CASE seen = {}
  BY <1>1 DEF BestAt
<1>2. CASE seen # {}
  <2>1. PICK v : IsBest(c, n, v)
    BY <1>2, BestExists
  <2>2. v \in seen /\ \A u \in seen : c[v] < c[u] \/ (c[v] = c[u] /\ v <= u)
    BY <2>1 DEF IsBest
  <2>3. BestAt(c, n) = CHOOSE w \in seen : \A u \in seen : c[w] < c[u] \/ (c[w] = c[u] /\ w <= u)
    BY <1>2 DEF BestAt
  <2>4. /\ BestAt(c, n) \in seen
        /\ \A u \in seen : c[BestAt(c, n)] < c[u] \/ (c[BestAt(c, n)] = c[u] /\ BestAt(c, n) <= u)
    BY <2>2, <2>3
  <2>5. IsBest(c, n, BestAt(c, n))
    BY <2>4 DEF IsBest
  <2>6. QED
    BY <1>2, <2>4, <2>5, ValidatedPositive
<1>3. QED
  BY <1>1, <1>2

LEMMA BestIs ==
    ASSUME NEW c \in Curves, NEW n \in Nat, NEW v, IsBest(c, n, v)
    PROVE  BestAt(c, n) = v
<1>1. IsBest(c, n, BestAt(c, n))
  BY BestAtIsBest DEF IsBest
<1>2. QED
  BY <1>1, BestUnique

(* One more epoch: TrainEpoch's comparison.                                *)
Improves(c, n) ==
    n + 1 \in Validated /\ (BestAt(c, n) = 0 \/ c[n + 1] < c[BestAt(c, n)])

LEMMA BestStep ==
    ASSUME NEW c \in Curves, NEW n \in Nat
    PROVE  BestAt(c, n + 1) = IF Improves(c, n) THEN n + 1 ELSE BestAt(c, n)
<1>a. \A v \in Validated : v \in Nat /\ v # 0 /\ c[v] \in Nat
  BY ValidatedPositive DEF Curves
<1>1. CASE \A v \in Validated : ~(v <= n)
  <2>1. BestAt(c, n) = 0
    BY <1>1, BestAtIsBest
  <2>2. CASE n + 1 \in Validated
    <3>1. IsBest(c, n + 1, n + 1)
      BY <1>a, <1>1, <2>2 DEF IsBest
    <3>2. QED
      BY <2>1, <2>2, <3>1, BestIs DEF Improves
  <2>3. CASE n + 1 \notin Validated
    <3>1. \A v \in Validated : ~(v <= n + 1)
      BY <1>a, <1>1, <2>3
    <3>2. QED
      BY <2>1, <2>3, <3>1, BestAtIsBest DEF Improves
  <2>4. QED
    BY <2>2, <2>3
<1>2. CASE \E v \in Validated : v <= n
  <2> DEFINE b == BestAt(c, n)
  <2>1. IsBest(c, n, b) /\ b # 0 /\ b \in Validated /\ b <= n
    BY <1>2, BestAtIsBest DEF IsBest
  <2>2. CASE Improves(c, n)
    <3>1. n + 1 \in Validated /\ c[n + 1] < c[b]
      BY <2>1, <2>2 DEF Improves
    <3>2. ASSUME NEW u \in Validated, u <= n + 1
          PROVE  c[n + 1] < c[u] \/ (c[n + 1] = c[u] /\ n + 1 <= u)
      <4>1. CASE u = n + 1
        BY <1>a, <4>1
      <4>2. CASE u <= n
        BY <1>a, <2>1, <3>1, <4>2 DEF IsBest
      <4>3. QED
        BY <1>a, <3>2, <4>1, <4>2
    <3>3. IsBest(c, n + 1, n + 1)
      BY <3>1, <3>2 DEF IsBest
    <3>4. QED
      BY <2>2, <3>3, BestIs
  <2>3. CASE ~Improves(c, n)
    <3>1. n + 1 \in Validated => c[b] <= c[n + 1]
      BY <1>a, <2>1, <2>3 DEF Improves
    <3>2. ASSUME NEW u \in Validated, u <= n + 1
          PROVE  c[b] < c[u] \/ (c[b] = c[u] /\ b <= u)
      <4>1. CASE u = n + 1
        <5>1. c[b] \in Nat /\ c[u] \in Nat /\ b \in Nat /\ u \in Nat
          BY <1>a, <2>1
        <5>2. c[b] <= c[u] /\ b <= u
          BY <2>1, <3>1, <4>1, <5>1
        <5>3. QED
          BY <5>1, <5>2
      <4>2. CASE u <= n
        BY <1>a, <2>1, <4>2 DEF IsBest
      <4>3. QED
        BY <1>a, <3>2, <4>1, <4>2
    <3>3. IsBest(c, n + 1, b)
      BY <1>a, <2>1, <3>2 DEF IsBest
    <3>4. QED
      BY <2>3, <3>3, BestIs
  <2>4. QED
    BY <2>2, <2>3
<1>3. QED
  BY <1>1, <1>2

LEMMA BestBound ==
    ASSUME NEW c \in Curves, NEW n \in Nat
    PROVE  BestAt(c, n) \in Nat /\ BestAt(c, n) <= n
<1>1. CASE \A v \in Validated : ~(v <= n)
  BY <1>1, BestAtIsBest
<1>2. CASE \E v \in Validated : v <= n
  <2>1. IsBest(c, n, BestAt(c, n))
    BY <1>2, BestAtIsBest
  <2>2. QED
    BY <2>1, ValidatedPositive DEF IsBest
<1>3. QED
  BY <1>1, <1>2

LEMMA StaleStep ==
    ASSUME NEW c \in Curves, NEW n \in Nat
    PROVE  StaleAt(c, n + 1) = IF Improves(c, n) THEN 0
                               ELSE IF n + 1 \in Validated THEN StaleAt(c, n) + 1
                               ELSE StaleAt(c, n)
<1> DEFINE Since(b, k) == {v \in Validated : b < v /\ v <= k}
<1>a. \A v \in Validated : v \in Nat
  BY ValidatedPositive
<1>b. BestAt(c, n) \in Nat /\ BestAt(c, n) <= n
  BY BestBound
<1>1. CASE Improves(c, n)
  <2>1. BestAt(c, n + 1) = n + 1
    BY <1>1, BestStep
  <2>2. Since(n + 1, n + 1) = {}
    BY <1>a
  <2>3. QED
    BY <1>1, <2>1, <2>2, FS_EmptySet DEF StaleAt
<1>2. CASE ~Improves(c, n) /\ n + 1 \in Validated
  <2>1. BestAt(c, n + 1) = BestAt(c, n)
    BY <1>2, BestStep
  <2>2. Since(BestAt(c, n), n + 1) = Since(BestAt(c, n), n) \cup {n + 1}
    BY <1>a, <1>b, <1>2
  <2>3. IsFiniteSet(Since(BestAt(c, n), n))
    BY ValidatedPositive, FS_Subset
  <2>4. n + 1 \notin Since(BestAt(c, n), n)
    BY <1>a
  <2>5. Cardinality(Since(BestAt(c, n), n) \cup {n + 1})
          = Cardinality(Since(BestAt(c, n), n)) + 1
    BY <2>3, <2>4, FS_AddElement
  <2>6. QED
    BY <1>2, <2>1, <2>2, <2>5 DEF StaleAt
<1>3. CASE ~Improves(c, n) /\ n + 1 \notin Validated
  <2>1. BestAt(c, n + 1) = BestAt(c, n)
    BY <1>3, BestStep
  <2>2. Since(BestAt(c, n), n + 1) = Since(BestAt(c, n), n)
    BY <1>a, <1>b, <1>3
  <2>3. QED
    BY <1>3, <2>1, <2>2 DEF StaleAt, Improves
<1>4. QED
  BY <1>1, <1>2, <1>3

(* Only the curve up to the epoch matters.                                 *)
LEMMA Agreement ==
    ASSUME NEW c \in Curves, NEW d \in Curves, NEW n \in Nat,
           \A v \in Validated : v <= n => c[v] = d[v]
    PROVE  BestAt(c, n) = BestAt(d, n) /\ StaleAt(c, n) = StaleAt(d, n)
<1>1. BestAt(c, n) = BestAt(d, n)
  <2>1. CASE \A v \in Validated : ~(v <= n)
    BY <2>1, BestAtIsBest
  <2>2. CASE \E v \in Validated : v <= n
    <3>1. IsBest(c, n, BestAt(c, n))
      BY <2>2, BestAtIsBest
    <3>2. IsBest(d, n, BestAt(c, n))
      BY <3>1 DEF IsBest
    <3>3. QED
      BY <3>2, BestIs
  <2>3. QED
    BY <2>1, <2>2
<1>2. QED
  BY <1>1 DEF StaleAt

(* Before the first epoch.                                                 *)
LEMMA Start ==
    ASSUME NEW c \in Curves
    PROVE  BestAt(c, 0) = 0 /\ StaleAt(c, 0) = 0
<1>1. \A v \in Validated : v \in Nat /\ ~(v <= 0)
  BY ValidatedPositive
<1>2. BestAt(c, 0) = 0
  BY <1>1, BestAtIsBest
<1>3. {v \in Validated : BestAt(c, 0) < v /\ v <= 0} = {}
  BY <1>1
<1>4. QED
  BY <1>2, <1>3, FS_EmptySet DEF StaleAt
-----------------------------------------------------------------------------
(***************************************************************************)
(* The invariant.                                                          *)
(***************************************************************************)
Running == {"train", "last", "best", "prune", "log"}

(* Every validation up to a checkpoint has been computed.                  *)
Computed == \A r \in Runs : \A e \in Present(r) : \A v \in Validated : v <= e => curve[r][v] # 0

(* What the process counts is what the curve says up to its epoch.         *)
InStep ==
    /\ proc.pc = "open" => proc.best = 0
    /\ proc.pc \in Running =>
          /\ proc.best = BestAt(curve[proc.run], proc.epoch)
          /\ proc.stale = StaleAt(curve[proc.run], proc.epoch)
          /\ \A v \in Validated : v <= proc.epoch => curve[proc.run][v] # 0

ProgressInv == ProgressAsUninterrupted /\ Computed /\ InStep

LEMMA CurveType ==
    ASSUME EngineTypeOK
    PROVE  \A r \in Runs : curve[r] \in Curves
<1> SUFFICES ASSUME NEW r \in Runs PROVE curve[r] \in Curves
    OBVIOUS
<1>1. Metrics \cup {0} \subseteq Nat
  OBVIOUS
<1>2. curve[r] \in [Validated -> Metrics \cup {0}]
  BY DEF EngineTypeOK
<1>3. QED
  BY <1>1, <1>2 DEF Curves

(* Steps that draw nothing and change no checkpoint that they keep.        *)
LEMMA CheckpointsKept ==
    ASSUME ProgressInv, curve' = curve,
           \A r \in Runs : \A e \in Present(r)' : e \in Present(r) /\ dirs'[r][e] = dirs[r][e]
    PROVE  ProgressAsUninterrupted' /\ Computed'
<1>1. ASSUME NEW r \in Runs, NEW e \in Present(r)'
      PROVE  dirs'[r][e] = [best |-> BestAt(curve[r], e), stale |-> StaleAt(curve[r], e)]
  BY <1>1 DEF ProgressInv, ProgressAsUninterrupted
<1>2. ASSUME NEW r \in Runs, NEW e \in Present(r)', NEW v \in Validated, v <= e
      PROVE  curve[r][v] # 0
  BY <1>2 DEF ProgressInv, Computed
<1>3. ProgressAsUninterrupted'
  BY <1>1 DEF ProgressAsUninterrupted
<1>4. QED
  BY <1>2, <1>3 DEF Computed

LEMMA DirsKept ==
    ASSUME ProgressInv, curve' = curve, dirs' = dirs
    PROVE  ProgressAsUninterrupted' /\ Computed'
<1>1. \A r \in Runs : \A e \in Present(r)' : e \in Present(r) /\ dirs'[r][e] = dirs[r][e]
  BY DEF Present
<1>2. QED
  BY <1>1, CheckpointsKept

(* The process goes on with the epoch it is in, or leaves the loop.        *)
LEMMA SameEpoch ==
    ASSUME InStep, curve' = curve, proc.pc \in Running, proc'.pc # "open",
           proc'.pc \in Running =>
              /\ proc'.run = proc.run /\ proc'.epoch = proc.epoch
              /\ proc'.best = proc.best /\ proc'.stale = proc.stale
    PROVE  InStep'
  BY DEF InStep

LEMMA Stopped ==
    ASSUME proc'.pc \notin Running \cup {"open"}
    PROVE  InStep'
  BY DEF InStep, Running

LEMMA ResumedInStep ==
    ASSUME EngineInv, ProgressInv, Open
    PROVE  InStep'
<1> DEFINE r == proc.run
<1>a. /\ proc \in Processes /\ r \in Runs /\ curve[r] \in Curves /\ curve' = curve
      /\ proc.epoch = 0 /\ proc.stale = 0 /\ proc.best = 0 /\ proc.pc = "open"
      /\ EngineTypeOK
  BY Parts, CurveType DEF EngineInv, EngineTypeOK, Placed, ProgressInv, InStep, Open
<1>b. Runs # {}
  BY <1>a
<1>1. CASE proc' = Down
  BY <1>1, <1>b, DownType, Stopped DEF Running
<1>2. CASE \E p \in Nat : proc' = [proc EXCEPT !.pc = "returned", !.weights = p,
                                               !.status = "SKIPPED_COMPLETED"]
  <2>1. proc'.pc = "returned"
    BY <1>2, <1>a DEF Processes
  <2>2. QED
    BY <2>1, Stopped DEF Running
<1>3. CASE proc' = Resumed(r) /\ last[r] = 0
  <2>1. proc' = [proc EXCEPT !.pc = "train"]
    BY <1>3 DEF Resumed
  <2>2. /\ proc'.pc = "train" /\ proc'.run = r /\ proc'.epoch = 0 /\ proc'.best = 0
        /\ proc'.stale = 0
    BY <2>1, <1>a DEF Processes
  <2>3. \A v \in Validated : ~(v <= 0)
    BY ValidatedPositive
  <2>4. BestAt(curve[r], 0) = 0 /\ StaleAt(curve[r], 0) = 0
    BY <1>a, Start
  <2>5. QED
    BY <2>2, <2>3, <2>4, <1>a DEF InStep
<1>4. CASE proc' = Resumed(r) /\ last[r] # 0
  <2>1. last[r] \in Present(r)
    BY <1>a, <1>4 DEF EngineInv, PointersResolve
  <2>2. /\ dirs[r][last[r]].best = BestAt(curve[r], last[r])
        /\ dirs[r][last[r]].stale = StaleAt(curve[r], last[r])
        /\ \A v \in Validated : v <= last[r] => curve[r][v] # 0
    <3>1. dirs[r][last[r]] = [best |-> BestAt(curve[r], last[r]),
                              stale |-> StaleAt(curve[r], last[r])]
      BY <1>a, <2>1 DEF ProgressInv, ProgressAsUninterrupted
    <3>2. \A v \in Validated : v <= last[r] => curve[r][v] # 0
      BY <1>a, <2>1 DEF ProgressInv, Computed
    <3>3. QED
      BY <3>1, <3>2
  <2>3. proc' = [proc EXCEPT !.pc = "train", !.epoch = last[r], !.weights = last[r],
                   !.best = dirs[r][last[r]].best, !.stale = dirs[r][last[r]].stale]
    BY <1>4 DEF Resumed
  <2>4. /\ proc'.pc = "train" /\ proc'.run = r /\ proc'.epoch = last[r]
        /\ proc'.best = dirs[r][last[r]].best /\ proc'.stale = dirs[r][last[r]].stale
    BY <2>3, <1>a DEF Processes
  <2>5. QED
    BY <2>2, <2>4, <1>a DEF InStep
<1>5. QED
  <2>1. Served(r) \in Nat /\ last[r] \in Nat
    BY <1>a DEF Served, EngineTypeOK
  <2>2. QED
    BY <2>1, <1>1, <1>2, <1>3, <1>4 DEF Open, Raises

(* One more epoch counts as the curve does.                                *)
LEMMA TrainedInStep ==
    ASSUME EngineInv, ProgressInv, TrainEpoch
    PROVE  ProgressInv'
<1> DEFINE r == proc.run
           n == proc.epoch
           e == n + 1
           known == IF curve[r][e] # 0 THEN {curve[r][e]} ELSE Metrics
<1>a. /\ EngineTypeOK /\ proc \in Processes /\ r \in Runs /\ n \in Nat /\ proc.pc = "train"
      /\ e \in Epochs /\ curve[r] \in Curves /\ curve \in [Runs -> [Validated -> Metrics \cup {0}]]
      /\ dirs \in [Runs -> [Epochs -> Progress \cup {NoCheckpoint}]]
  <2>1. /\ EngineTypeOK /\ proc \in Processes /\ proc.pc = "train" /\ n < proc.limit
        /\ curve \in [Runs -> [Validated -> Metrics \cup {0}]]
        /\ dirs \in [Runs -> [Epochs -> Progress \cup {NoCheckpoint}]]
    BY DEF EngineInv, EngineTypeOK, TrainEpoch
  <2>2. r \in Runs /\ n \in Nat /\ proc.limit \in Epochs
    BY <2>1, Parts
  <2>3. e \in Epochs
    BY <2>1, <2>2 DEF Epochs
  <2>4. QED
    BY <2>1, <2>2, <2>3, CurveType
<1>b. /\ proc.best = BestAt(curve[r], n) /\ proc.stale = StaleAt(curve[r], n)
      /\ \A v \in Validated : v <= n => curve[r][v] # 0
  BY <1>a DEF ProgressInv, InStep, Running
<1>c. PICK m \in IF e \in Validated THEN known ELSE {0} :
         LET improved == e \in Validated /\ (proc.best = 0 \/ m < curve[r][proc.best])
             progress == [best |-> IF improved THEN e ELSE proc.best,
                          stale |-> IF improved THEN 0
                                    ELSE IF e \in Validated THEN proc.stale + 1
                                    ELSE proc.stale]
         IN
         /\ curve' = IF e \in Validated THEN [curve EXCEPT ![r][e] = m] ELSE curve
         /\ IF e \in Present(r) THEN Raises /\ UNCHANGED dirs
            ELSE /\ dirs' = [dirs EXCEPT ![r][e] = progress]
                 /\ proc' = [proc EXCEPT !.pc = "last", !.epoch = e, !.weights = e,
                       !.improved = improved, !.best = progress.best,
                       !.stale = progress.stale]
  BY Zenon DEF TrainEpoch
<1> DEFINE improved == e \in Validated /\ (proc.best = 0 \/ m < curve[r][proc.best])
           b == IF improved THEN e ELSE proc.best
           s == IF improved THEN 0 ELSE IF e \in Validated THEN proc.stale + 1 ELSE proc.stale
<1>1. e \in Validated => m \in Metrics /\ m # 0 /\ (curve[r][e] # 0 => m = curve[r][e])
  BY <1>a, <1>c
<1>2. /\ \A q \in Runs : \A v \in Validated :
            curve'[q][v] = IF q = r /\ v = e THEN m ELSE curve[q][v]
      /\ \A q \in Runs : curve'[q] \in Curves
  <2>1. curve' \in [Runs -> [Validated -> Metrics \cup {0}]]
    BY <1>a, <1>c, <1>1
  <2>2. Metrics \cup {0} \subseteq Nat
    OBVIOUS
  <2>3. \A q \in Runs : \A v \in Validated :
            curve'[q][v] = IF q = r /\ v = e THEN m ELSE curve[q][v]
    BY <1>a, <1>c
  <2>4. QED
    BY <2>1, <2>2, <2>3 DEF Curves
<1>3. ASSUME NEW q \in Runs, NEW f \in Present(q)
      PROVE  /\ dirs[q][f] = [best |-> BestAt(curve'[q], f), stale |-> StaleAt(curve'[q], f)]
             /\ \A v \in Validated : v <= f => curve'[q][v] # 0
  <2>1. /\ dirs[q][f] = [best |-> BestAt(curve[q], f), stale |-> StaleAt(curve[q], f)]
        /\ \A v \in Validated : v <= f => curve[q][v] # 0
    BY DEF ProgressInv, ProgressAsUninterrupted, Computed
  <2>2. \A v \in Validated : v <= f => curve'[q][v] = curve[q][v]
    BY <1>1, <1>2, <2>1
  <2>3. curve[q] \in Curves /\ f \in Nat
    BY <1>a, CurveType DEF Present, Epochs
  <2>4. BestAt(curve'[q], f) = BestAt(curve[q], f) /\ StaleAt(curve'[q], f) = StaleAt(curve[q], f)
    BY <1>2, <2>2, <2>3, Agreement
  <2>5. QED
    BY <2>1, <2>2, <2>4
<1>4. CASE e \in Present(r)
  <2>1. proc' = Down /\ dirs' = dirs
    BY <1>4, <1>c DEF Raises
  <2>2. InStep'
    <3>1. Runs # {}
      BY <1>a
    <3>2. QED
      BY <2>1, <3>1, DownType, Stopped DEF Running
  <2>3. \A q \in Runs : Present(q)' = Present(q)
    BY <2>1 DEF Present
  <2>4. QED
    BY <1>3, <2>1, <2>2, <2>3 DEF ProgressInv, ProgressAsUninterrupted, Computed
<1>5. CASE e \notin Present(r)
  <2>1. /\ dirs' = [dirs EXCEPT ![r][e] = [best |-> b, stale |-> s]]
        /\ proc' = [proc EXCEPT !.pc = "last", !.epoch = e, !.weights = e,
                                !.improved = improved, !.best = b, !.stale = s]
    BY <1>5, <1>c
  <2>2. /\ proc'.pc = "last" /\ proc'.epoch = e /\ proc'.run = r /\ proc'.best = b
        /\ proc'.stale = s
    BY <2>1, <1>a DEF Processes
  <2>3. \A q \in Runs : \A f \in Epochs :
           dirs'[q][f] = IF q = r /\ f = e THEN [best |-> b, stale |-> s] ELSE dirs[q][f]
    BY <2>1, <1>a
  <2>4. BestAt(curve'[r], n) = proc.best /\ StaleAt(curve'[r], n) = proc.stale
    <3>1. \A v \in Validated : v <= n => curve'[r][v] = curve[r][v]
      BY <1>a, <1>2, ValidatedPositive
    <3>2. QED
      BY <1>a, <1>b, <1>2, <3>1, Agreement
  <2>5. improved <=> Improves(curve'[r], n)
    <3>1. CASE e \in Validated
      <4>1. curve'[r][e] = m
        BY <1>a, <1>2, <3>1
      <4>2. CASE proc.best = 0
        BY <2>4, <3>1, <4>2 DEF Improves
      <4>3. CASE proc.best # 0
        <5>1. \E v \in Validated : v <= n
          BY <1>a, <1>b, <4>3, BestAtIsBest
        <5>2. proc.best \in Validated /\ proc.best <= n
          BY <1>a, <1>b, <5>1, BestAtIsBest DEF IsBest
        <5>3. curve'[r][proc.best] = curve[r][proc.best]
          BY <1>a, <1>2, <5>2, ValidatedPositive
        <5>4. QED
          BY <2>4, <3>1, <4>1, <4>3, <5>3 DEF Improves
      <4>4. QED
        BY <4>2, <4>3
    <3>2. CASE e \notin Validated
      BY <3>2 DEF Improves
    <3>3. QED
      BY <3>1, <3>2
  <2>6. b = BestAt(curve'[r], e)
    BY <1>a, <1>2, <2>4, <2>5, BestStep
  <2>7. s = StaleAt(curve'[r], e)
    BY <1>a, <1>2, <2>4, <2>5, StaleStep
  <2>8. \A v \in Validated : v <= e => curve'[r][v] # 0
    BY <1>a, <1>b, <1>1, <1>2, ValidatedPositive
  <2>9. InStep'
    BY <2>2, <2>6, <2>7, <2>8 DEF InStep
  <2>10. ASSUME NEW q \in Runs, NEW f \in Present(q)'
         PROVE  /\ dirs'[q][f] = [best |-> BestAt(curve'[q], f), stale |-> StaleAt(curve'[q], f)]
                /\ \A v \in Validated : v <= f => curve'[q][v] # 0
    <3>1. f \in Epochs /\ dirs'[q][f] # NoCheckpoint
      BY <2>10 DEF Present
    <3>2. CASE q = r /\ f = e
      BY <2>3, <2>6, <2>7, <2>8, <3>1, <3>2
    <3>3. CASE ~(q = r /\ f = e)
      <4>1. dirs'[q][f] = dirs[q][f] /\ f \in Present(q)
        BY <2>3, <3>1, <3>3 DEF Present
      <4>2. QED
        BY <1>3, <4>1
    <3>4. QED
      BY <3>2, <3>3
  <2>11. QED
    BY <2>9, <2>10 DEF ProgressInv, ProgressAsUninterrupted, Computed
<1>6. QED
  BY <1>4, <1>5

LEMMA EngineProgress ==
    ASSUME EngineInv, ProgressInv, Engine
    PROVE  ProgressInv'
<1>a. proc \in Processes /\ proc.run \in Runs /\ EngineTypeOK
  BY Parts DEF EngineInv, EngineTypeOK
<1>1. CASE Open
  <2>1. curve' = curve /\ dirs' = dirs
    BY <1>1 DEF Open, disk
  <2>2. QED
    BY <1>1, <2>1, DirsKept, ResumedInStep DEF ProgressInv
<1>2. CASE TrainEpoch
  BY <1>2, TrainedInStep
<1>3. CASE PointLast \/ PointBest
  <2>1. curve' = curve /\ dirs' = dirs /\ proc.pc \in Running
    BY <1>3 DEF PointLast, PointBest, Running
  <2>2. PICK pc \in {"best", "prune"} : proc' = [proc EXCEPT !.pc = pc]
    BY <1>3, Zenon DEF PointLast, PointBest, Goes
  <2>3. /\ proc'.pc = pc /\ proc'.run = proc.run /\ proc'.epoch = proc.epoch
        /\ proc'.best = proc.best /\ proc'.stale = proc.stale
    BY <2>2, <1>a DEF Processes
  <2>4. InStep'
    BY <2>1, <2>3, SameEpoch DEF ProgressInv
  <2>5. QED
    BY <2>1, <2>4, DirsKept DEF ProgressInv
<1>4. CASE Prune
  <2>1. /\ curve' = curve /\ proc.pc \in Running
        /\ proc' = [proc EXCEPT !.pc = "log"]
        /\ dirs' = [dirs EXCEPT ![proc.run] =
              [e \in Epochs |-> IF e \in Kept(proc.run) THEN dirs[proc.run][e]
                                ELSE NoCheckpoint]]
    BY <1>4 DEF Prune, Goes, Running
  <2>2. \A q \in Runs : \A e \in Epochs :
           dirs'[q][e] = IF q = proc.run /\ e \notin Kept(q) THEN NoCheckpoint ELSE dirs[q][e]
    BY <2>1, <1>a DEF EngineTypeOK
  <2>3. \A q \in Runs : \A e \in Present(q)' : e \in Present(q) /\ dirs'[q][e] = dirs[q][e]
    <3> SUFFICES ASSUME NEW q \in Runs, NEW e \in Present(q)'
                 PROVE  e \in Present(q) /\ dirs'[q][e] = dirs[q][e]
        OBVIOUS
    <3>1. e \in Epochs /\ dirs'[q][e] # NoCheckpoint
      BY DEF Present
    <3>2. dirs'[q][e] = dirs[q][e]
      BY <2>2, <3>1
    <3>3. QED
      BY <3>1, <3>2 DEF Present
  <2>4. /\ proc'.pc = "log" /\ proc'.run = proc.run /\ proc'.epoch = proc.epoch
        /\ proc'.best = proc.best /\ proc'.stale = proc.stale
    BY <2>1, <1>a DEF Processes
  <2>5. InStep'
    BY <2>1, <2>4, SameEpoch DEF ProgressInv
  <2>6. QED
    BY <2>1, <2>3, <2>5, CheckpointsKept DEF ProgressInv
<1>5. CASE Log
  <2>1. curve' = curve /\ dirs' = dirs /\ proc.pc \in Running
    BY <1>5 DEF Log, Running
  <2>2. CASE proc' = [proc EXCEPT !.pc = "train"]
    <3>1. /\ proc'.pc = "train" /\ proc'.run = proc.run /\ proc'.epoch = proc.epoch
          /\ proc'.best = proc.best /\ proc'.stale = proc.stale
      BY <2>2, <1>a DEF Processes
    <3>2. InStep'
      BY <2>1, <3>1, SameEpoch DEF ProgressInv
    <3>3. QED
      BY <2>1, <3>2, DirsKept DEF ProgressInv
  <2>3. CASE \E st \in {"EARLY_STOPPED", "INTERRUPTED"} :
                proc' = [proc EXCEPT !.pc = "record", !.status = st]
    <3>1. proc'.pc = "record"
      BY <2>3, <1>a DEF Processes
    <3>2. InStep'
      BY <3>1, Stopped DEF Running
    <3>3. QED
      BY <2>1, <3>2, DirsKept DEF ProgressInv
  <2>4. QED
    BY <1>5, <2>2, <2>3, Zenon DEF Log, Leaves, Goes
<1>6. CASE LoopEnds \/ Record \/ Restore
  <2>1. curve' = curve /\ dirs' = dirs
    BY <1>6 DEF LoopEnds, Record, Restore, disk
  <2>2. CASE proc' = Down
    BY <2>1, <2>2, <1>a, DownType, DirsKept, Stopped DEF ProgressInv, Running
  <2>3. CASE \E w : \E pc \in {"restore", "returned"} :
                proc' = [proc EXCEPT !.pc = pc] \/ proc' = [proc EXCEPT !.pc = pc, !.weights = w]
    <3>1. proc'.pc \in {"restore", "returned"}
      BY <2>3, <1>a DEF Processes
    <3>2. QED
      BY <2>1, <3>1, DirsKept, Stopped DEF ProgressInv, Running
  <2>4. CASE \E st : proc' = [proc EXCEPT !.pc = "record", !.status = st]
    <3>1. proc'.pc = "record"
      BY <2>4, <1>a DEF Processes
    <3>2. QED
      BY <2>1, <3>1, DirsKept, Stopped DEF ProgressInv, Running
  <2>5. CASE LoopEnds
    BY <1>6, <2>4, <2>5, Zenon DEF LoopEnds, Leaves
  <2>6. CASE Record
    BY <2>3, <2>6, Zenon DEF Record, Goes
  <2>7. CASE Restore
    BY <2>2, <2>3, <2>7, Zenon DEF Restore, Raises
  <2>8. QED
    BY <1>6, <2>5, <2>6, <2>7
<1>7. QED
  BY <1>1, <1>2, <1>3, <1>4, <1>5, <1>6 DEF Engine

LEMMA OtherProgress ==
    ASSUME IInv, ProgressInv,
           Launch \/ Call \/ Collect \/ Decide \/ Signal \/ Crash \/ UNCHANGED selectionVars
    PROVE  ProgressInv'
<1>a. /\ proc \in Processes /\ proc.run \in Runs /\ EngineTypeOK
      /\ Down \in Processes /\ Down.pc = "down" /\ Down.best = 0
  <2>1. EngineTypeOK /\ proc \in Processes
    BY DEF IInv, EngineInv, EngineTypeOK
  <2>2. QED
    BY <2>1, RunsExist, Parts, DownType DEF Down
<1>b. curve' = curve /\ dirs' = dirs
  BY DEF Launch, Call, Collect, Decide, Signal, Crash, selectionVars, vars, disk
<1>1. CASE proc' = Down \/ proc' = [Down EXCEPT !.pc = "suite"]
                        \/ proc' = [proc EXCEPT !.pc = "suite"]
  <2>1. proc'.pc \in {"down", "suite"}
    BY <1>1, <1>a DEF Processes
  <2>2. QED
    BY <1>b, <2>1, DirsKept, Stopped DEF ProgressInv, Running
<1>2. CASE \E r, n : proc' = [Down EXCEPT !.pc = "open", !.run = r, !.limit = n]
  <2>1. proc'.pc = "open" /\ proc'.best = 0
    BY <1>2, <1>a DEF Processes
  <2>2. InStep'
    BY <2>1 DEF InStep, Running
  <2>3. QED
    BY <1>b, <2>2, DirsKept DEF ProgressInv
<1>3. CASE UNCHANGED proc
  <2>1. InStep'
    BY <1>3, <1>b DEF InStep, ProgressInv
  <2>2. QED
    BY <1>b, <2>1, DirsKept DEF ProgressInv
<1>4. CASE Signal
  <2>1. proc' = [proc EXCEPT !.flag = TRUE] /\ proc.pc \in Running
    BY <1>4 DEF Signal, Running
  <2>2. /\ proc'.pc = proc.pc /\ proc'.run = proc.run /\ proc'.epoch = proc.epoch
        /\ proc'.best = proc.best /\ proc'.stale = proc.stale
    BY <2>1, <1>a DEF Processes
  <2>3. InStep'
    BY <1>b, <2>1, <2>2, SameEpoch DEF ProgressInv, Running
  <2>4. QED
    BY <1>b, <2>3, DirsKept DEF ProgressInv
<1>5. QED
  BY <1>1, <1>2, <1>3, <1>4, Zenon
     DEF Launch, Call, Collect, Decide, Crash, Raises, Goes, selectionVars, vars

LEMMA ProgressInit == Init => ProgressInv
<1> SUFFICES ASSUME Init PROVE ProgressInv
    OBVIOUS
<1>1. \A r \in Runs : Present(r) = {}
  BY DEF Init, EngineInit, Present
<1>2. proc.pc = "down"
  BY DEF Init, EngineInit, Down
<1>3. QED
  BY <1>1, <1>2 DEF ProgressInv, ProgressAsUninterrupted, Computed, InStep, Running

LEMMA ProgressStep == IInv /\ ProgressInv /\ [Next]_selectionVars => ProgressInv'
<1> SUFFICES ASSUME IInv, ProgressInv, [Next]_selectionVars PROVE ProgressInv'
    OBVIOUS
<1>1. CASE EngineStep
  BY <1>1, EngineProgress DEF EngineStep, IInv
<1>2. CASE ~EngineStep
  BY <1>2, OtherProgress DEF Next, Works, Interruption
<1>3. QED
  BY <1>1, <1>2

(* Every checkpoint holds the progress of an uninterrupted training, for   *)
(* any curve, any limits and any number of signals and deaths: early       *)
(* stopping and the choice of the best epoch do not notice a restart.      *)
THEOREM CheckpointsAsUninterrupted == Spec => []ProgressAsUninterrupted
<1>1. ProgressInv => ProgressAsUninterrupted
  BY DEF ProgressInv
<1>2. QED
  BY InitInv, StepInv, ProgressInit, ProgressStep, <1>1, PTL DEF Spec
-----------------------------------------------------------------------------
(***************************************************************************)
(* The end of a run.  The pointers and the log follow the curve, and early *)
(* stopping is never passed over, except for what a death has left behind. *)
(***************************************************************************)
Ended(r) == result[r].status \in Complete

(* Training up to epoch n meets no reason to stop.                         *)
Unstopped(c, n) == \A v \in Validated : v <= n => StaleAt(c, v) < Patience

(* The process is about to end the run early.                              *)
Stopping(r) == proc.run = r /\ proc.pc \in {"prune", "log", "record"} /\ StopsEarly

MovesBest(r) == proc.run = r /\ proc.pc = "best"

Unlogged(r) ==
    {v \in Validated : proc.run = r /\ proc.epoch = v /\ proc.pc \in {"best", "prune", "log"}}

(* What the directory of a run says of its curve.                          *)
RunEnd(r) ==
    /\ Ended(r) => /\ result[r].last = last[r]
                   /\ result[r].best = BestAt(curve[r], last[r])
    /\ "best" \notin lapsed[r] /\ ~MovesBest(r) => best[r] = BestAt(curve[r], last[r])
    /\ "stop" \notin lapsed[r] =>
          IF Ended(r) THEN last[r] = StopAt(curve[r], MaxEpochs)
          ELSE Unstopped(curve[r], IF Stopping(r) THEN last[r] - 1 ELSE last[r])

RunLogged(r) ==
    "row" \notin lapsed[r] =>
       \A v \in Validated : rows[r][v] = IF v <= last[r] /\ v \notin Unlogged(r) THEN 1 ELSE 0

(* What the process knows of the run it works on.                          *)
ProcEnd ==
    /\ proc.pc \in Running \cup {"record"} => ~Ended(proc.run)
    /\ proc.pc = "last" =>
          /\ proc.epoch = last[proc.run] + 1
          /\ BestAt(curve[proc.run], proc.epoch) =
                IF proc.improved THEN proc.epoch ELSE BestAt(curve[proc.run], last[proc.run])
    /\ proc.pc = "best" => proc.best = proc.epoch
    /\ proc.pc = "record" =>
          /\ proc.epoch = last[proc.run]
          /\ proc.best = BestAt(curve[proc.run], proc.epoch)
          /\ proc.stale = StaleAt(curve[proc.run], proc.epoch)
          /\ proc.status = "COMPLETED" => proc.epoch = MaxEpochs
          /\ proc.status = "EARLY_STOPPED" => StopsEarly
          /\ StopsEarly /\ "stop" \notin lapsed[proc.run] => proc.status = "EARLY_STOPPED"
    /\ proc.pc = "returned" /\ Ended(proc.run) => proc.weights = Served(proc.run)

EndInv == ProcEnd /\ \A r \in Runs : RunEnd(r) /\ RunLogged(r)

(* Lemmas about the end that a curve gives to a run.                       *)
LEMMA StaleIsNat ==
    ASSUME NEW c, NEW n
    PROVE  StaleAt(c, n) \in Nat
<1>1. IsFiniteSet({v \in Validated : BestAt(c, n) < v /\ v <= n})
  BY ValidatedPositive, FS_Subset
<1>2. QED
  BY <1>1, FS_CardinalityType DEF StaleAt

LEMMA FreshAtBest ==
    ASSUME NEW c, NEW n \in Nat, BestAt(c, n) = n
    PROVE  StaleAt(c, n) = 0
<1>1. \A v \in Validated : ~(n < v /\ v <= n)
  BY ValidatedPositive
<1>2. {v \in Validated : BestAt(c, n) < v /\ v <= n} = {}
  BY <1>1
<1>3. QED
  BY <1>2, FS_EmptySet DEF StaleAt

LEMMA UnstoppedStep ==
    ASSUME NEW c, NEW n \in Nat, Unstopped(c, n),
           n + 1 \in Validated => StaleAt(c, n + 1) < Patience
    PROVE  Unstopped(c, n + 1)
<1> SUFFICES ASSUME NEW v \in Validated, v <= n + 1 PROVE StaleAt(c, v) < Patience
    BY DEF Unstopped
<1>1. v \in Nat /\ (v = n + 1 \/ v <= n)
  BY ValidatedPositive
<1>2. QED
  BY <1>1 DEF Unstopped

LEMMA UnstoppedAgreement ==
    ASSUME NEW c \in Curves, NEW d \in Curves, NEW n \in Int,
           \A v \in Validated : v <= n => c[v] = d[v]
    PROVE  Unstopped(c, n) <=> Unstopped(d, n)
<1>1. ASSUME NEW v \in Validated, v <= n PROVE StaleAt(c, v) = StaleAt(d, v)
  <2>1. v \in Nat /\ \A u \in Validated : u \in Nat /\ (u <= v => u <= n)
    BY <1>1, ValidatedPositive
  <2>2. QED
    BY <2>1, Agreement
<1>2. QED
  BY <1>1 DEF Unstopped

LEMMA StopsAt ==
    ASSUME NEW c, NEW limit \in Nat, NEW n \in Nat, n <= limit,
           \/ n \in Validated /\ StaleAt(c, n) >= Patience /\ Unstopped(c, n - 1)
           \/ n = limit /\ Unstopped(c, n)
    PROVE  StopAt(c, limit) = n
<1> DEFINE S == {v \in Validated : v <= limit /\ StaleAt(c, v) >= Patience} \cup {limit}
<1>1. n \in S
  OBVIOUS
<1>2. ASSUME NEW x \in S PROVE n <= x
  <2>1. CASE x = limit
    BY <2>1
  <2>2. CASE x # limit
    <3>1. x \in Validated /\ x \in Nat /\ StaleAt(c, x) >= Patience /\ StaleAt(c, x) \in Nat
      BY <1>2, <2>2, ValidatedPositive, StaleIsNat
    <3>2. ~(x <= n - 1)
      BY <3>1 DEF Unstopped
    <3>3. QED
      BY <3>1, <3>2
  <2>3. QED
    BY <2>1, <2>2
<1>3. S \subseteq Nat
  BY ValidatedPositive
<1> HIDE DEF S
<1>4. \A x \in S : (\A y \in S : x <= y) => x = n
  BY <1>1, <1>2, <1>3
<1>5. Min(S) = n
  BY <1>1, <1>2, <1>4 DEF Min
<1>6. QED
  BY <1>5 DEF StopAt, S

(* A run whose files a step leaves alone, and which the process is in the  *)
(* same place of.                                                          *)
LEMMA RunKept ==
    ASSUME NEW r \in Runs, RunEnd(r), RunLogged(r),
           curve'[r] = curve[r], last'[r] = last[r], best'[r] = best[r],
           rows'[r] = rows[r], result'[r] = result[r], lapsed'[r] = lapsed[r],
           Stopping(r)' <=> Stopping(r), MovesBest(r)' <=> MovesBest(r),
           Unlogged(r)' = Unlogged(r)
    PROVE  RunEnd(r)' /\ RunLogged(r)'
  BY DEF RunEnd, RunLogged, Ended

(* The process works on at most one run.                                   *)
LEMMA NotWorkedOn ==
    ASSUME NEW r, proc.run # r \/ proc.pc \notin {"best", "prune", "log", "record"}
    PROVE  ~Stopping(r) /\ ~MovesBest(r) /\ Unlogged(r) = {}
  BY DEF Stopping, MovesBest, Unlogged

LEMMA OtherRuns ==
    ASSUME EndInv, NEW r \in Runs, r # proc.run, r # proc'.run \/ proc'.pc \notin {"best", "prune", "log", "record"},
           curve'[r] = curve[r], last'[r] = last[r], best'[r] = best[r],
           rows'[r] = rows[r], result'[r] = result[r], lapsed'[r] = lapsed[r]
    PROVE  RunEnd(r)' /\ RunLogged(r)'
<1>1. ~Stopping(r) /\ ~MovesBest(r) /\ Unlogged(r) = {}
  BY NotWorkedOn
<1>2. ~Stopping(r)' /\ ~MovesBest(r)' /\ Unlogged(r)' = {}
  BY DEF Stopping, MovesBest, Unlogged
<1>3. QED
  BY <1>1, <1>2, RunKept DEF EndInv

(* The steps of the engine that write to the directory of the run.         *)
LEMMA TrainedEnd ==
    ASSUME EngineInv, ProgressInv, ProgressInv', EndInv, TrainEpoch
    PROVE  EndInv'
<1>0. PICK r : r = proc.run
  OBVIOUS
<1> DEFINE n == proc.epoch
           e == n + 1
           known == IF curve[r][e] # 0 THEN {curve[r][e]} ELSE Metrics
<1>a. /\ EngineTypeOK /\ proc \in Processes /\ r \in Runs /\ n \in Nat /\ proc.pc = "train"
      /\ e \in Epochs /\ curve[r] \in Curves /\ curve \in [Runs -> [Validated -> Metrics \cup {0}]]
      /\ last[r] = n
  <2>1. /\ EngineTypeOK /\ proc \in Processes /\ proc.pc = "train" /\ n < proc.limit
        /\ curve \in [Runs -> [Validated -> Metrics \cup {0}]]
    BY DEF EngineInv, EngineTypeOK, TrainEpoch
  <2>2. r \in Runs /\ n \in Nat /\ proc.limit \in Epochs
    BY <1>0, <2>1, Parts
  <2>3. e \in Epochs
    BY <2>1, <2>2 DEF Epochs
  <2>4. last[r] = n
    BY <1>0, <2>1 DEF EngineInv, Placed
  <2>5. QED
    BY <1>0, <2>1, <2>2, <2>3, <2>4, CurveType
<1>b. /\ proc.best = BestAt(curve[r], n) /\ proc.stale = StaleAt(curve[r], n) /\ ~Ended(r)
  BY <1>0, <1>a DEF ProgressInv, InStep, Running, EndInv, ProcEnd
<1>c. PICK m \in IF e \in Validated THEN known ELSE {0} :
         LET improved == e \in Validated /\ (proc.best = 0 \/ m < curve[r][proc.best])
             progress == [best |-> IF improved THEN e ELSE proc.best,
                          stale |-> IF improved THEN 0
                                    ELSE IF e \in Validated THEN proc.stale + 1
                                    ELSE proc.stale]
         IN
         /\ curve' = IF e \in Validated THEN [curve EXCEPT ![r][e] = m] ELSE curve
         /\ IF e \in Present(r) THEN Raises /\ UNCHANGED dirs
            ELSE /\ dirs' = [dirs EXCEPT ![r][e] = progress]
                 /\ proc' = [proc EXCEPT !.pc = "last", !.epoch = e, !.weights = e,
                       !.improved = improved, !.best = progress.best,
                       !.stale = progress.stale]
  BY <1>0, Zenon DEF TrainEpoch
<1>d. UNCHANGED <<last, best, rows, result, lapsed>>
  BY DEF TrainEpoch, Undisturbed
<1> DEFINE improved == e \in Validated /\ (proc.best = 0 \/ m < curve[r][proc.best])
           b == IF improved THEN e ELSE proc.best
           s == IF improved THEN 0 ELSE IF e \in Validated THEN proc.stale + 1 ELSE proc.stale
<1>1. /\ curve'[r] \in Curves /\ \A v \in Validated : v <= n => curve'[r][v] = curve[r][v]
      /\ \A q \in Runs : q # r => curve'[q] = curve[q]
  <2>1. m \in Metrics \cup {0}
    BY <1>0, <1>a, <1>c
  <2>2. curve' \in [Runs -> [Validated -> Metrics \cup {0}]]
    BY <1>0, <1>a, <1>c, <2>1
  <2>3. Metrics \cup {0} \subseteq Nat
    OBVIOUS
  <2>4. \A v \in Validated : v <= n => v # e
    BY <1>0, <1>a, ValidatedPositive
  <2>5. QED
    BY <1>0, <1>a, <1>c, <2>2, <2>3, <2>4 DEF Curves
<1>2. BestAt(curve'[r], n) = BestAt(curve[r], n)
  BY <1>0, <1>a, <1>1, Agreement
<1>3. Unstopped(curve'[r], n) <=> Unstopped(curve[r], n)
  BY <1>0, <1>a, <1>1, UnstoppedAgreement
<1>4. /\ proc'.pc \in {"down", "last"}
      /\ proc'.pc = "last" => /\ proc'.run = r /\ proc'.epoch = e
                              /\ proc'.improved = improved /\ proc'.best = b
  <2>1. CASE e \in Present(r)
    <3>1. proc' = Down
      BY <1>c, <2>1 DEF Raises
    <3>2. QED
      BY <1>0, <1>a, <3>1, DownType
  <2>2. CASE e \notin Present(r)
    <3>1. proc' = [proc EXCEPT !.pc = "last", !.epoch = e, !.weights = e,
                          !.improved = improved, !.best = b, !.stale = s]
      BY <1>c, <2>2
    <3>2. QED
      BY <1>0, <1>a, <3>1 DEF Processes
  <2>3. QED
    BY <2>1, <2>2
<1>5. ProcEnd'
  <2>1. CASE proc'.pc = "down"
    BY <2>1 DEF ProcEnd, Running
  <2>2. CASE proc'.pc = "last"
    <3>1. proc'.best = BestAt(curve'[r], e)
      BY <1>0, <1>4, <2>2 DEF ProgressInv, InStep, Running
    <3>2. ~Ended(r)'
      BY <1>b, <1>d DEF Ended
    <3>3. BestAt(curve'[r], e) = IF improved THEN e ELSE BestAt(curve'[r], n)
      BY <1>b, <1>2, <1>4, <2>2, <3>1
    <3>4. QED
      BY <1>0, <1>a, <1>4, <1>d, <2>2, <3>2, <3>3 DEF ProcEnd
  <2>3. QED
    BY <1>4, <2>1, <2>2
<1>6. ASSUME NEW q \in Runs PROVE RunEnd(q)' /\ RunLogged(q)'
  <2>1. CASE q # r
    BY <1>0, <1>1, <1>4, <1>d, <2>1, OtherRuns
  <2>2. CASE q = r
    <3>1. ~Stopping(r) /\ ~MovesBest(r) /\ Unlogged(r) = {}
      BY <1>0, <1>a, NotWorkedOn
    <3>2. ~Stopping(r)' /\ ~MovesBest(r)' /\ Unlogged(r)' = {}
      BY <1>0, <1>4 DEF Stopping, MovesBest, Unlogged
    <3>3. RunEnd(r) /\ RunLogged(r)
      BY <1>0, <1>a DEF EndInv
    <3>4. RunLogged(r)'
      BY <1>d, <3>1, <3>2, <3>3 DEF RunLogged
    <3>5. RunEnd(r)'
      BY <1>0, <1>a, <1>b, <1>d, <1>2, <1>3, <3>1, <3>2, <3>3 DEF RunEnd, Ended
    <3>6. QED
      BY <2>2, <3>4, <3>5
  <2>3. QED
    BY <2>1, <2>2
<1>7. QED
  BY <1>5, <1>6 DEF EndInv

LEMMA PointLastEnd ==
    ASSUME EngineInv, ProgressInv, EndInv, PointLast
    PROVE  EndInv'
<1>0. PICK r : r = proc.run
  OBVIOUS
<1> DEFINE n == last[r]
<1>a. /\ EngineTypeOK /\ proc \in Processes /\ r \in Runs /\ n \in Nat /\ proc.pc = "last"
      /\ proc.epoch \in Nat /\ proc.epoch = n + 1 /\ ~Ended(r)
      /\ BestAt(curve[r], n + 1) = IF proc.improved THEN n + 1 ELSE BestAt(curve[r], n)
      /\ proc.best = BestAt(curve[r], n + 1) /\ proc.stale = StaleAt(curve[r], n + 1)
  <2>1. EngineTypeOK /\ proc \in Processes /\ r \in Runs /\ n \in Nat /\ proc.pc = "last"
    BY <1>0, Parts DEF EngineInv, EngineTypeOK, PointLast
  <2>2. proc.epoch = n + 1 /\ ~Ended(r)
        /\ BestAt(curve[r], n + 1) = IF proc.improved THEN n + 1 ELSE BestAt(curve[r], n)
    BY <1>0, <2>1 DEF EndInv, ProcEnd, Running
  <2>3. proc.best = BestAt(curve[r], n + 1) /\ proc.stale = StaleAt(curve[r], n + 1)
    BY <1>0, <2>1, <2>2 DEF ProgressInv, InStep, Running
  <2>4. QED
    BY <2>1, <2>2, <2>3
<1>b. /\ UNCHANGED <<curve, dirs, best, rows, result, lapsed>>
      /\ last' = [last EXCEPT ![r] = proc.epoch]
      /\ proc' = [proc EXCEPT !.pc = IF proc.improved THEN "best" ELSE "prune"]
  BY <1>0 DEF PointLast, Undisturbed, Goes
<1>1. /\ proc'.pc = IF proc.improved THEN "best" ELSE "prune"
      /\ proc'.run = r /\ proc'.epoch = n + 1 /\ proc'.stale = proc.stale /\ proc'.best = proc.best
  BY <1>0, <1>a, <1>b DEF Processes
<1>2. last'[r] = n + 1 /\ \A q \in Runs : q # r => last'[q] = last[q]
  BY <1>0, <1>a, <1>b DEF EngineTypeOK
<1>3. ProcEnd'
  BY <1>0, <1>a, <1>b, <1>1 DEF ProcEnd, Ended, Running
<1>4. ~Stopping(r) /\ ~MovesBest(r) /\ Unlogged(r) = {}
  BY <1>0, <1>a, NotWorkedOn
<1>5. RunLogged(r)'
  <2>1. \A v \in Validated : v \in Nat
    BY ValidatedPositive
  <2>2. Unlogged(r)' = {v \in Validated : n + 1 = v}
    BY <1>0, <1>1 DEF Unlogged
  <2>3. QED
    BY <1>0, <1>a, <1>b, <1>2, <1>4, <2>1, <2>2 DEF RunLogged, EndInv
<1>6. RunEnd(r)'
  <2>1. ~Ended(r)'
    BY <1>0, <1>a, <1>b DEF Ended
  <2>2. "best" \notin lapsed[r] /\ ~MovesBest(r)' => best[r] = BestAt(curve[r], n + 1)
    BY <1>0, <1>a, <1>1, <1>4 DEF MovesBest, RunEnd, EndInv
  <2>3. CASE "stop" \notin lapsed[r]
    <3>1. Unstopped(curve[r], n)
      BY <1>0, <1>a, <1>4, <2>3 DEF RunEnd, EndInv
    <3>2. CASE Stopping(r)'
      BY <1>0, <1>a, <1>b, <1>2, <2>1, <2>2, <3>1, <3>2 DEF RunEnd
    <3>3. CASE ~Stopping(r)'
      <4>1. n + 1 \in Validated => StaleAt(curve[r], n + 1) < Patience
        <5>1. CASE proc.improved
          BY <1>0, <1>a, <5>1, FreshAtBest
        <5>2. CASE ~proc.improved
          <6>1. ~(n + 1 \in Validated /\ proc.stale >= Patience)
            BY <1>0, <1>1, <3>3, <5>2 DEF Stopping, StopsEarly
          <6>2. QED
            BY <1>0, <1>a, <6>1, StaleIsNat
        <5>3. QED
          BY <5>1, <5>2
      <4>2. Unstopped(curve[r], n + 1)
        BY <1>0, <1>a, <3>1, <4>1, UnstoppedStep
      <4>3. QED
        BY <1>b, <1>2, <2>1, <2>2, <3>3, <4>2 DEF RunEnd
    <3>4. QED
      BY <3>2, <3>3
  <2>4. CASE "stop" \in lapsed[r]
    BY <1>b, <1>2, <2>1, <2>2, <2>4 DEF RunEnd
  <2>5. QED
    BY <2>3, <2>4
<1>7. \A q \in Runs : q # r => RunEnd(q)' /\ RunLogged(q)'
  BY <1>0, <1>b, <1>1, <1>2, OtherRuns
<1>8. QED
  BY <1>3, <1>5, <1>6, <1>7 DEF EndInv

LEMMA PointBestEnd ==
    ASSUME EngineInv, ProgressInv, EndInv, PointBest
    PROVE  EndInv'
<1>0. PICK r : r = proc.run
  OBVIOUS
<1> DEFINE n == proc.epoch
<1>a. /\ EngineTypeOK /\ proc \in Processes /\ r \in Runs /\ n \in Nat /\ proc.pc = "best"
      /\ last[r] = n /\ ~Ended(r) /\ BestAt(curve[r], n) = n /\ proc.stale = 0
  <2>1. EngineTypeOK /\ proc \in Processes /\ r \in Runs /\ n \in Nat /\ proc.pc = "best"
    BY <1>0, Parts DEF EngineInv, EngineTypeOK, PointBest
  <2>2. last[r] = n /\ ~Ended(r) /\ proc.best = n
    BY <1>0, <2>1 DEF EngineInv, Placed, EndInv, ProcEnd, Running
  <2>3. proc.best = BestAt(curve[r], n) /\ proc.stale = StaleAt(curve[r], n)
    BY <1>0, <2>1 DEF ProgressInv, InStep, Running
  <2>4. QED
    BY <2>1, <2>2, <2>3, FreshAtBest
<1>b. /\ UNCHANGED <<curve, dirs, last, rows, result, lapsed>>
      /\ best' = [best EXCEPT ![r] = n]
      /\ proc' = [proc EXCEPT !.pc = "prune"]
  BY <1>0 DEF PointBest, Undisturbed, Goes
<1>1. proc'.pc = "prune" /\ proc'.run = r /\ proc'.epoch = n /\ proc'.stale = 0
  BY <1>0, <1>a, <1>b DEF Processes
<1>2. best'[r] = n /\ \A q \in Runs : q # r => best'[q] = best[q]
  BY <1>a, <1>b DEF EngineTypeOK
<1>3. ProcEnd'
  BY <1>0, <1>a, <1>b, <1>1 DEF ProcEnd, Ended, Running
<1>4. ~Stopping(r) /\ ~Stopping(r)' /\ ~MovesBest(r)' /\ Unlogged(r)' = Unlogged(r)
  BY <1>0, <1>a, <1>1 DEF Stopping, StopsEarly, MovesBest, Unlogged
<1>5. RunEnd(r)' /\ RunLogged(r)'
  BY <1>a, <1>b, <1>2, <1>4 DEF RunEnd, RunLogged, Ended, EndInv
<1>6. \A q \in Runs : q # r => RunEnd(q)' /\ RunLogged(q)'
  BY <1>0, <1>b, <1>1, <1>2, OtherRuns
<1>7. QED
  BY <1>3, <1>5, <1>6 DEF EndInv

LEMMA LogEnd ==
    ASSUME EngineInv, ProgressInv, EndInv, Log
    PROVE  EndInv'
<1>0. PICK r : r = proc.run
  OBVIOUS
<1> DEFINE n == proc.epoch
<1>a. /\ EngineTypeOK /\ proc \in Processes /\ r \in Runs /\ n \in Nat /\ proc.pc = "log"
      /\ last[r] = n /\ ~Ended(r)
      /\ proc.best = BestAt(curve[r], n) /\ proc.stale = StaleAt(curve[r], n)
  <2>1. EngineTypeOK /\ proc \in Processes /\ r \in Runs /\ n \in Nat /\ proc.pc = "log"
    BY <1>0, Parts DEF EngineInv, EngineTypeOK, Log
  <2>2. last[r] = n /\ ~Ended(r)
    BY <1>0, <2>1 DEF EngineInv, Placed, EndInv, ProcEnd, Running
  <2>3. proc.best = BestAt(curve[r], n) /\ proc.stale = StaleAt(curve[r], n)
    BY <1>0, <2>1 DEF ProgressInv, InStep, Running
  <2>4. QED
    BY <2>1, <2>2, <2>3
<1>b. /\ UNCHANGED <<curve, dirs, last, best, result, lapsed>>
      /\ rows' = IF n \in Validated THEN [rows EXCEPT ![r][n] = @ + 1] ELSE rows
  BY <1>0 DEF Log, Undisturbed
<1>1. /\ proc'.run = r /\ proc'.epoch = n /\ proc'.stale = proc.stale /\ proc'.best = proc.best
      /\ \/ proc'.pc = "train" /\ ~StopsEarly
         \/ proc'.pc = "record" /\ proc'.status = IF StopsEarly THEN "EARLY_STOPPED" ELSE "INTERRUPTED"
  <2>1. CASE proc' = [proc EXCEPT !.pc = "train"] /\ ~StopsEarly
    BY <1>0, <1>a, <2>1 DEF Processes
  <2>2. CASE proc' = [proc EXCEPT !.pc = "record", !.status = "EARLY_STOPPED"] /\ StopsEarly
    BY <1>0, <1>a, <2>2 DEF Processes
  <2>3. CASE proc' = [proc EXCEPT !.pc = "record", !.status = "INTERRUPTED"] /\ ~StopsEarly
    BY <1>0, <1>a, <2>3 DEF Processes
  <2>4. QED
    BY <2>1, <2>2, <2>3, Zenon DEF Log, Leaves, Goes
<1>2. /\ \A v \in Validated : rows'[r][v] = IF v = n THEN rows[r][v] + 1 ELSE rows[r][v]
      /\ \A q \in Runs : q # r => rows'[q] = rows[q]
  BY <1>a, <1>b DEF EngineTypeOK
<1>3. StopsEarly' <=> StopsEarly
  BY <1>1 DEF StopsEarly
<1>4. ProcEnd'
  BY <1>0, <1>a, <1>b, <1>1, <1>3 DEF ProcEnd, Ended, Running
<1>5. /\ Stopping(r)' <=> Stopping(r)
      /\ ~MovesBest(r) /\ ~MovesBest(r)'
      /\ Unlogged(r) = {v \in Validated : n = v} /\ Unlogged(r)' = {}
  BY <1>0, <1>a, <1>1, <1>3 DEF Stopping, MovesBest, Unlogged
<1>6. RunEnd(r)'
  BY <1>a, <1>b, <1>5 DEF RunEnd, Ended, EndInv
<1>7. RunLogged(r)'
  <2>1. \A v \in Validated : v \in Nat
    BY ValidatedPositive
  <2>2. QED
    BY <1>a, <1>b, <1>2, <1>5, <2>1 DEF RunLogged, EndInv
<1>8. \A q \in Runs : q # r => RunEnd(q)' /\ RunLogged(q)'
  BY <1>0, <1>b, <1>1, <1>2, OtherRuns
<1>9. QED
  BY <1>4, <1>6, <1>7, <1>8 DEF EndInv

LEMMA RecordEnd ==
    ASSUME EngineInv, EndInv, Record
    PROVE  EndInv'
<1>0. PICK r : r = proc.run
  OBVIOUS
<1> DEFINE n == proc.epoch
<1>a. /\ EngineTypeOK /\ proc \in Processes /\ r \in Runs /\ n \in Nat /\ proc.pc = "record"
      /\ n <= MaxEpochs
  BY <1>0, Parts DEF EngineInv, EngineTypeOK, Record
<1>b. /\ last[r] = n /\ ~Ended(r) /\ proc.status \in Ends
      /\ proc.best = BestAt(curve[r], n) /\ proc.stale = StaleAt(curve[r], n)
      /\ proc.status = "COMPLETED" => n = MaxEpochs
      /\ proc.status = "EARLY_STOPPED" => StopsEarly
      /\ StopsEarly /\ "stop" \notin lapsed[r] => proc.status = "EARLY_STOPPED"
  BY <1>0, <1>a DEF EndInv, ProcEnd, EngineInv, Counted
<1>c. /\ UNCHANGED <<curve, dirs, last, best, rows, lapsed>>
      /\ result' = [result EXCEPT ![r] =
            [status |-> proc.status, last |-> n, best |-> proc.best]]
      /\ proc' = [proc EXCEPT !.pc = IF proc.status \in Complete THEN "restore" ELSE "returned"]
  BY <1>0 DEF Record, Undisturbed, Goes
<1>1. proc'.pc = (IF proc.status \in Complete THEN "restore" ELSE "returned") /\ proc'.run = r
  BY <1>0, <1>a, <1>c DEF Processes
<1>2. /\ result'[r].status = proc.status /\ result'[r].last = n /\ result'[r].best = proc.best
      /\ \A q \in Runs : q # r => result'[q] = result[q]
  BY <1>a, <1>c DEF EngineTypeOK
<1>3. ProcEnd'
  BY <1>1, <1>2 DEF ProcEnd, Ended, Running
<1>4. /\ Stopping(r) <=> StopsEarly
      /\ ~Stopping(r)' /\ ~MovesBest(r) /\ ~MovesBest(r)'
      /\ Unlogged(r)' = {} /\ Unlogged(r) = {}
  BY <1>0, <1>a, <1>1 DEF Stopping, MovesBest, Unlogged
<1>5. RunEnd(r) /\ RunLogged(r)
  BY <1>a DEF EndInv
<1>6. RunLogged(r)'
  BY <1>c, <1>4, <1>5 DEF RunLogged
<1>7. "stop" \notin lapsed[r] /\ proc.status \in Complete => n = StopAt(curve[r], MaxEpochs)
  <2> SUFFICES ASSUME "stop" \notin lapsed[r], proc.status \in Complete
               PROVE  n = StopAt(curve[r], MaxEpochs)
      OBVIOUS
  <2>1. CASE proc.status = "EARLY_STOPPED"
    <3>1. n \in Validated /\ StaleAt(curve[r], n) >= Patience
      BY <1>b, <2>1 DEF StopsEarly
    <3>2. Unstopped(curve[r], n - 1)
      BY <1>b, <1>4, <1>5, <2>1 DEF RunEnd
    <3>3. QED
      BY <1>a, <3>1, <3>2, StopsAt
  <2>2. CASE proc.status = "COMPLETED"
    <3>1. n = MaxEpochs /\ ~Stopping(r)
      BY <1>b, <1>4, <2>2
    <3>2. Unstopped(curve[r], n)
      BY <1>b, <1>5, <3>1 DEF RunEnd
    <3>3. QED
      BY <1>a, <3>1, <3>2, StopsAt
  <2>3. QED
    BY <2>1, <2>2 DEF Complete
<1>8. "stop" \notin lapsed[r] /\ proc.status \notin Complete => ~StopsEarly
  BY <1>b DEF Complete
<1>9. RunEnd(r)'
  <2>1. Ended(r)' <=> proc.status \in Complete
    BY <1>2 DEF Ended
  <2>2. Ended(r)' => result'[r].last = last'[r] /\ result'[r].best = BestAt(curve'[r], last'[r])
    BY <1>b, <1>c, <1>2
  <2>3. "best" \notin lapsed'[r] => best'[r] = BestAt(curve'[r], last'[r])
    BY <1>c, <1>4, <1>5 DEF RunEnd
  <2>4. "stop" \notin lapsed'[r] =>
           IF Ended(r)' THEN last'[r] = StopAt(curve'[r], MaxEpochs)
           ELSE Unstopped(curve'[r], last'[r])
    BY <1>b, <1>c, <1>4, <1>5, <1>7, <1>8, <2>1 DEF RunEnd
  <2>5. QED
    BY <1>4, <2>2, <2>3, <2>4 DEF RunEnd
<1>10. \A q \in Runs : q # r => RunEnd(q)' /\ RunLogged(q)'
  BY <1>0, <1>c, <1>1, <1>2, OtherRuns
<1>11. QED
  BY <1>3, <1>6, <1>9, <1>10 DEF EndInv

LEMMA CrashEnd ==
    ASSUME EngineInv, EndInv, Crash
    PROVE  EndInv'
<1>0. PICK r : r = proc.run
  OBVIOUS
<1>a. EngineTypeOK /\ proc \in Processes /\ r \in Runs
  BY <1>0, Parts DEF EngineInv, EngineTypeOK
<1>b. /\ UNCHANGED <<curve, disk>> /\ proc' = Down
      /\ lapsed' = [lapsed EXCEPT ![r] = @ \cup Window]
  BY <1>0 DEF Crash
<1>c. UNCHANGED <<curve, dirs, last, best, rows, result>>
  BY <1>b DEF disk
<1>1. proc'.pc = "down"
  BY <1>a, <1>b, DownType
<1>2. lapsed'[r] = lapsed[r] \cup Window /\ \A q \in Runs : q # r => lapsed'[q] = lapsed[q]
  BY <1>a, <1>b DEF EngineTypeOK
<1>3. ProcEnd'
  BY <1>1 DEF ProcEnd, Running
<1>4. ~Stopping(r)' /\ ~MovesBest(r)' /\ Unlogged(r)' = {}
  BY <1>1 DEF Stopping, MovesBest, Unlogged
<1>5. /\ MovesBest(r) => "best" \in Window
      /\ Stopping(r) => "stop" \in Window
      /\ Unlogged(r) # {} => "row" \in Window
  BY <1>0 DEF MovesBest, Stopping, Unlogged, Window
<1>6. RunEnd(r) /\ RunLogged(r)
  BY <1>a DEF EndInv
<1>7. RunEnd(r)'
  BY <1>c, <1>2, <1>4, <1>5, <1>6 DEF RunEnd, Ended
<1>8. RunLogged(r)'
  BY <1>c, <1>2, <1>4, <1>5, <1>6 DEF RunLogged
<1>9. \A q \in Runs : q # r => RunEnd(q)' /\ RunLogged(q)'
  BY <1>0, <1>c, <1>1, <1>2, OtherRuns
<1>10. QED
  BY <1>3, <1>7, <1>8, <1>9 DEF EndInv

(* Steps that write nothing the invariant speaks of.                       *)
LEMMA QuietEnd ==
    ASSUME EndInv, UNCHANGED <<curve, last, best, rows, result, lapsed>>,
           \A r \in Runs : /\ Stopping(r)' <=> Stopping(r)
                           /\ MovesBest(r)' <=> MovesBest(r)
                           /\ Unlogged(r)' = Unlogged(r),
           ProcEnd'
    PROVE  EndInv'
<1>1. ASSUME NEW r \in Runs PROVE RunEnd(r)' /\ RunLogged(r)'
  BY RunKept DEF EndInv
<1>2. QED
  BY <1>1 DEF EndInv

LEMMA IdleEnd ==
    ASSUME EndInv, UNCHANGED <<curve, last, best, rows, result, lapsed>>,
           proc.pc \notin {"best", "prune", "log", "record"},
           proc'.pc \notin {"best", "prune", "log", "record"},
           ProcEnd'
    PROVE  EndInv'
<1>1. ASSUME NEW r \in Runs
      PROVE  /\ Stopping(r)' <=> Stopping(r)
             /\ MovesBest(r)' <=> MovesBest(r)
             /\ Unlogged(r)' = Unlogged(r)
  BY DEF Stopping, MovesBest, Unlogged
<1>2. QED
  BY <1>1, QuietEnd

LEMMA PruneEnd ==
    ASSUME EngineInv, EndInv, Prune \/ Signal
    PROVE  EndInv'
<1>a. proc \in Processes /\ UNCHANGED <<curve, last, best, rows, result, lapsed>>
  BY DEF EngineInv, EngineTypeOK, Prune, Signal, Undisturbed, disk
<1>1. /\ proc'.pc = IF Prune THEN "log" ELSE proc.pc
      /\ proc'.run = proc.run /\ proc'.epoch = proc.epoch /\ proc'.stale = proc.stale
      /\ proc'.best = proc.best /\ proc'.improved = proc.improved
      /\ Prune => proc.pc = "prune"
      /\ ~Prune => proc.pc \in Running
  <2>1. CASE Prune
    BY <1>a, <2>1 DEF Prune, Goes, Processes
  <2>2. CASE ~Prune
    <3>1. Signal
      BY <2>2
    <3>2. proc' = [proc EXCEPT !.flag = TRUE] /\ proc.pc \in Running
      BY <3>1 DEF Signal, Running
    <3>3. QED
      BY <1>a, <2>2, <3>2 DEF Processes
  <2>3. QED
    BY <2>1, <2>2
<1>2. StopsEarly' <=> StopsEarly
  BY <1>1 DEF StopsEarly
<1>3. ASSUME NEW r \in Runs
      PROVE  /\ Stopping(r)' <=> Stopping(r)
             /\ MovesBest(r)' <=> MovesBest(r)
             /\ Unlogged(r)' = Unlogged(r)
  BY <1>1, <1>2 DEF Stopping, MovesBest, Unlogged
<1>4. ProcEnd'
  BY <1>a, <1>1, Zenon DEF EndInv, ProcEnd, Ended, Running
<1>5. QED
  BY <1>a, <1>3, <1>4, QuietEnd

LEMMA OpenEnd ==
    ASSUME EngineInv, EndInv, Open
    PROVE  EndInv'
<1>0. PICK r : r = proc.run
  OBVIOUS
<1>a. /\ proc \in Processes /\ r \in Runs /\ proc.pc = "open"
      /\ UNCHANGED <<curve, last, best, rows, result, lapsed>>
  BY <1>0, Parts DEF EngineInv, EngineTypeOK, Open, Undisturbed, disk
<1>1. ProcEnd' /\ proc'.pc \in {"down", "returned", "train"}
  <2>1. CASE proc' = Down
    <3>1. proc'.pc = "down"
      BY <1>a, <2>1, DownType
    <3>2. QED
      BY <3>1 DEF ProcEnd, Running
  <2>2. CASE proc' = [proc EXCEPT !.pc = "returned", !.weights = Served(r),
                                  !.status = "SKIPPED_COMPLETED"]
    <3>1. proc'.pc = "returned" /\ proc'.run = r /\ proc'.weights = Served(r)
      BY <1>0, <1>a, <2>2 DEF Processes
    <3>2. Served(r)' = Served(r)
      BY <1>a DEF Served
    <3>3. QED
      BY <3>1, <3>2 DEF ProcEnd, Running
  <2>3. CASE proc' = Resumed(r) /\ ~Ended(r)
    <3>1. proc'.pc = "train" /\ proc'.run = r
      BY <1>0, <1>a, <2>3 DEF Resumed, Processes
    <3>2. ~Ended(r)'
      BY <1>a, <2>3 DEF Ended
    <3>3. QED
      BY <3>1, <3>2 DEF ProcEnd, Running
  <2>4. QED
    BY <1>0, <2>1, <2>2, <2>3, Zenon DEF Open, Raises, Ended
<1>2. QED
  BY <1>a, <1>1, IdleEnd

LEMMA RestoreEnd ==
    ASSUME EngineInv, EndInv, Restore
    PROVE  EndInv'
<1>0. PICK r : r = proc.run
  OBVIOUS
<1>a. /\ proc \in Processes /\ r \in Runs /\ proc.pc = "restore"
      /\ UNCHANGED <<curve, last, best, rows, result, lapsed>>
  BY <1>0, Parts DEF EngineInv, EngineTypeOK, Restore, Undisturbed, disk
<1>1. ProcEnd' /\ proc'.pc \in {"down", "returned"}
  <2>1. CASE proc' = Down
    <3>1. proc'.pc = "down"
      BY <1>a, <2>1, DownType
    <3>2. QED
      BY <3>1 DEF ProcEnd, Running
  <2>2. CASE proc' = [proc EXCEPT !.pc = "returned", !.weights = Served(r)]
    <3>1. proc'.pc = "returned" /\ proc'.run = r /\ proc'.weights = Served(r)
      BY <1>0, <1>a, <2>2 DEF Processes
    <3>2. Served(r)' = Served(r)
      BY <1>a DEF Served
    <3>3. QED
      BY <3>1, <3>2 DEF ProcEnd, Running
  <2>3. QED
    BY <1>0, <2>1, <2>2, Zenon DEF Restore, Raises
<1>2. QED
  BY <1>a, <1>1, IdleEnd

LEMMA LoopEndsEnd ==
    ASSUME EngineInv, ProgressInv, EndInv, LoopEnds
    PROVE  EndInv'
<1>0. PICK r : r = proc.run
  OBVIOUS
<1> DEFINE n == proc.epoch
<1>a. /\ EngineTypeOK /\ proc \in Processes /\ r \in Runs /\ n \in Nat /\ n <= MaxEpochs
      /\ proc.limit \in Epochs /\ proc.pc = "train" /\ n >= proc.limit
      /\ UNCHANGED <<curve, dirs, last, best, rows, result, lapsed>>
  BY <1>0, Parts DEF EngineInv, EngineTypeOK, LoopEnds, Undisturbed, disk
<1>b. /\ last[r] = n /\ ~Ended(r)
      /\ proc.best = BestAt(curve[r], n) /\ proc.stale = StaleAt(curve[r], n)
  BY <1>0, <1>a DEF EngineInv, Placed, EndInv, ProcEnd, ProgressInv, InStep, Running
<1>1. /\ proc'.pc = "record" /\ proc'.run = r /\ proc'.epoch = n
      /\ proc'.best = proc.best /\ proc'.stale = proc.stale
      /\ proc'.status = IF proc.limit < MaxEpochs THEN "PAUSED_STAGE" ELSE "COMPLETED"
  <2>1. proc' = [proc EXCEPT !.pc = "record",
                   !.status = IF proc.limit < MaxEpochs THEN "PAUSED_STAGE" ELSE "COMPLETED"]
    BY DEF LoopEnds, Leaves
  <2>2. QED
    BY <1>0, <1>a, <2>1 DEF Processes
<1>2. RunEnd(r) /\ RunLogged(r) /\ ~Stopping(r) /\ ~MovesBest(r) /\ Unlogged(r) = {}
  BY <1>0, <1>a, NotWorkedOn DEF EndInv
<1>3. "stop" \notin lapsed[r] => Unstopped(curve[r], n)
  BY <1>b, <1>2 DEF RunEnd
<1>4. "stop" \notin lapsed[r] => ~StopsEarly'
  <2>1. StopsEarly' <=> n \in Validated /\ StaleAt(curve[r], n) >= Patience
    BY <1>b, <1>1 DEF StopsEarly
  <2>2. n \in Validated /\ "stop" \notin lapsed[r] => StaleAt(curve[r], n) < Patience
    BY <1>a, <1>3 DEF Unstopped
  <2>3. QED
    BY <2>1, <2>2, StaleIsNat
<1>5. proc'.status = "COMPLETED" => n = MaxEpochs
  BY <1>a, <1>1 DEF Epochs
<1>6. ProcEnd'
  BY <1>a, <1>b, <1>1, <1>4, <1>5 DEF ProcEnd, Ended, Running
<1>7. ~MovesBest(r)' /\ Unlogged(r)' = {} /\ (Stopping(r)' => StopsEarly')
  BY <1>1 DEF MovesBest, Unlogged, Stopping
<1>8. RunLogged(r)'
  BY <1>a, <1>2, <1>7 DEF RunLogged
<1>9. RunEnd(r)'
  BY <1>a, <1>2, <1>4, <1>7 DEF RunEnd, Ended
<1>10. \A q \in Runs : q # r => RunEnd(q)' /\ RunLogged(q)'
  BY <1>0, <1>a, <1>1, OtherRuns
<1>11. QED
  BY <1>6, <1>8, <1>9, <1>10 DEF EndInv

(* The steps of the suite.                                                 *)
LEMMA SuiteEnd ==
    ASSUME IInv, EndInv, Launch \/ Call \/ Collect \/ Decide \/ UNCHANGED selectionVars
    PROVE  EndInv'
<1>a. /\ proc \in Processes /\ Down \in Processes /\ Down.pc = "down"
      /\ UNCHANGED <<curve, last, best, rows, result, lapsed>>
  BY RunsExist, DownType
     DEF IInv, EngineInv, EngineTypeOK, Launch, Call, Collect, Decide, selectionVars, vars, disk
<1>1. CASE proc' = proc
  <2>1. ProcEnd'
    BY <1>a, <1>1, Zenon DEF EndInv, ProcEnd, Ended, Served, StopsEarly
  <2>2. ASSUME NEW r \in Runs
        PROVE  /\ Stopping(r)' <=> Stopping(r)
               /\ MovesBest(r)' <=> MovesBest(r)
               /\ Unlogged(r)' = Unlogged(r)
    BY <1>1 DEF Stopping, StopsEarly, MovesBest, Unlogged
  <2>3. QED
    BY <1>a, <2>1, <2>2, QuietEnd
<1>2. CASE proc' # proc
  <2>1. proc.pc \in {"down", "suite", "returned"}
    BY <1>2 DEF Launch, Call, Collect, Decide, selectionVars, vars
  <2>2. proc'.pc \in {"down", "suite", "open"}
    <3>1. CASE \/ proc' = Down \/ proc' = [Down EXCEPT !.pc = "suite"]
               \/ proc' = [proc EXCEPT !.pc = "suite"]
               \/ \E r, n : proc' = [Down EXCEPT !.pc = "open", !.run = r, !.limit = n]
      BY <1>a, <3>1 DEF Processes
    <3>2. QED
      BY <1>2, <3>1, Zenon DEF Launch, Call, Collect, Decide, Raises, Goes, selectionVars, vars
  <2>3. ProcEnd'
    BY <2>2 DEF ProcEnd, Running
  <2>4. QED
    BY <1>a, <2>1, <2>2, <2>3, IdleEnd
<1>3. QED
  BY <1>1, <1>2

LEMMA EndInit == Init => EndInv
<1> SUFFICES ASSUME Init PROVE EndInv
    OBVIOUS
<1>1. proc.pc = "down"
  BY DEF Init, EngineInit, Down
<1>2. ProcEnd
  BY <1>1 DEF ProcEnd, Running
<1>3. ASSUME NEW r \in Runs PROVE RunEnd(r) /\ RunLogged(r)
  <2>1. /\ last[r] = 0 /\ best[r] = 0 /\ ~Ended(r) /\ curve[r] \in Curves
        /\ \A v \in Validated : rows[r][v] = 0 /\ v \in Nat /\ ~(v <= 0)
    BY ValidatedPositive DEF Init, EngineInit, Ended, NoResult, Complete, Curves
  <2>2. ~Stopping(r) /\ ~MovesBest(r) /\ Unlogged(r) = {}
    BY <1>1, NotWorkedOn
  <2>3. BestAt(curve[r], 0) = 0
    BY <2>1, Start
  <2>4. Unstopped(curve[r], 0)
    BY <2>1 DEF Unstopped
  <2>5. QED
    BY <2>1, <2>2, <2>3, <2>4 DEF RunEnd, RunLogged
<1>4. QED
  BY <1>2, <1>3 DEF EndInv

LEMMA EndStep ==
    ASSUME IInv, ProgressInv, ProgressInv', EndInv, [Next]_selectionVars
    PROVE  EndInv'
<1>1. EngineInv
  BY DEF IInv
<1>2. CASE Engine
  BY <1>1, <1>2, OpenEnd, TrainedEnd, PointLastEnd, PointBestEnd, PruneEnd, LogEnd,
     LoopEndsEnd, RecordEnd, RestoreEnd DEF Engine
<1>3. CASE Signal \/ Crash
  BY <1>1, <1>3, PruneEnd, CrashEnd
<1>4. CASE Launch \/ Call \/ Collect \/ Decide \/ UNCHANGED selectionVars
  BY <1>4, SuiteEnd
<1>5. QED
  BY <1>2, <1>3, <1>4 DEF Next, Works, EngineStep, Interruption

LEMMA EndOfRun == ProgressInv /\ EndInv => RunAsUninterrupted
<1> SUFFICES ASSUME ProgressInv, EndInv PROVE RunAsUninterrupted
    OBVIOUS
<1>1. ASSUME NEW r \in Runs, result[r].status \in Complete, "stop" \notin lapsed[r]
      PROVE  /\ result[r].last = StopAt(curve[r], MaxEpochs)
             /\ result[r].best = BestAt(curve[r], result[r].last)
  BY <1>1 DEF EndInv, RunEnd, Ended
<1>2. ASSUME NEW r \in Runs, result[r].status \in Complete, "best" \notin lapsed[r],
             proc.run = r, proc.pc = "returned"
      PROVE  proc.weights = IF result[r].best # 0 THEN result[r].best ELSE result[r].last
  <2>1. Ended(r) /\ ~MovesBest(r)
    BY <1>2 DEF Ended, MovesBest
  <2>2. best[r] = result[r].best /\ last[r] = result[r].last
    BY <1>2, <2>1 DEF EndInv, RunEnd
  <2>3. proc.weights = Served(r)
    BY <1>2, <2>1 DEF EndInv, ProcEnd
  <2>4. QED
    BY <2>2, <2>3 DEF Served
<1>3. ASSUME NEW r \in Runs, "row" \notin lapsed[r], NEW v \in Validated
      PROVE  rows[r][v] = IF v <= last[r] /\ v \notin Unlogged(r) THEN 1 ELSE 0
  BY <1>3 DEF EndInv, RunLogged
<1>4. QED
  BY <1>1, <1>2, <1>3 DEF RunAsUninterrupted, ProgressInv, Unlogged

(* A run ends at the epoch at which an uninterrupted training of the same  *)
(* curve ends, with the same best epoch, hands over the weights of that    *)
(* epoch and has logged every validation once, whichever metrics training  *)
(* yields, whatever the limits and the patience and however often the      *)
(* process is killed and started again - except for what the moment of a   *)
(* death is known to leave behind.                                         *)
THEOREM RunsAsUninterrupted == Spec => []RunAsUninterrupted
<1>1. IInv /\ ProgressInv /\ EndInv /\ [Next]_selectionVars => ProgressInv' /\ EndInv'
  BY ProgressStep, EndStep
<1>2. QED
  BY InitInv, StepInv, ProgressInit, EndInit, EndOfRun, <1>1, PTL DEF Spec
-----------------------------------------------------------------------------
(***************************************************************************)
(* Lemmas about the end of a run and the evidence it gives.                *)
(***************************************************************************)
LEMMA StopIs ==
    ASSUME NEW c, NEW limit \in Nat, NEW n, n = StopAt(c, limit)
    PROVE  /\ n \in Nat /\ n <= limit
           /\ n = limit \/ (n \in Validated /\ StaleAt(c, n) >= Patience)
           /\ Unstopped(c, n - 1)
<1> DEFINE S == {v \in Validated : v <= limit /\ StaleAt(c, v) >= Patience} \cup {limit}
<1>1. S \in SUBSET Nat /\ S # {}
  BY ValidatedPositive
<1>2. n = Min(S)
  BY DEF StopAt
<1>3. n \in S /\ \A x \in S : n <= x
  <2> HIDE DEF S
  <2>1. QED
    BY <1>1, <1>2, LeastExists
<1>4. ASSUME NEW v \in Validated, v <= n - 1 PROVE StaleAt(c, v) < Patience
  <2>1. v \in Nat /\ StaleAt(c, v) \in Nat /\ n \in Nat
    BY <1>1, <1>3, ValidatedPositive, StaleIsNat
  <2>2. n <= limit
    BY <1>3
  <2>3. v <= limit /\ ~(n <= v)
    BY <1>4, <2>1, <2>2
  <2>4. v \notin S
    BY <1>3, <2>3
  <2>5. QED
    BY <2>1, <2>3, <2>4
<1>5. QED
  BY <1>1, <1>3, <1>4 DEF Unstopped

(* A run is past its end when training may stop at an earlier epoch.       *)
LEMMA StopBefore ==
    ASSUME NEW c, NEW limit \in Nat, NEW n \in Nat,
           n >= limit \/ (n \in Validated /\ StaleAt(c, n) >= Patience)
    PROVE  StopAt(c, limit) <= n
<1>0. PICK s : s = StopAt(c, limit)
  OBVIOUS
<1>1. s \in Nat /\ s <= limit /\ Unstopped(c, s - 1)
  BY <1>0, StopIs
<1>2. CASE n >= limit
  BY <1>0, <1>1, <1>2
<1>3. CASE n \in Validated /\ StaleAt(c, n) >= Patience
  <2>1. ~(n <= s - 1)
    BY <1>1, <1>3, StaleIsNat DEF Unstopped
  <2>2. QED
    BY <1>0, <1>1, <2>1
<1>4. QED
  BY <1>2, <1>3

LEMMA StopBeyond ==
    ASSUME NEW c, NEW limit \in Nat, NEW n \in Nat, n < limit, Unstopped(c, n)
    PROVE  n + 1 <= StopAt(c, limit)
<1>0. PICK s : s = StopAt(c, limit)
  OBVIOUS
<1>1. s \in Nat /\ (s = limit \/ (s \in Validated /\ StaleAt(c, s) >= Patience))
  BY <1>0, StopIs
<1>2. CASE s = limit
  BY <1>0, <1>2
<1>3. CASE s \in Validated /\ StaleAt(c, s) >= Patience
  <2>1. ~(s <= n)
    BY <1>3, StaleIsNat DEF Unstopped
  <2>2. QED
    BY <1>0, <1>1, <2>1
<1>4. QED
  BY <1>1, <1>2, <1>3

LEMMA StopMonotone ==
    ASSUME NEW c, NEW limit \in Nat, NEW max \in Nat, limit <= max
    PROVE  StopAt(c, limit) <= StopAt(c, max)
<1>1. PICK n : n = StopAt(c, max)
  OBVIOUS
<1>2. n \in Nat /\ (n = max \/ (n \in Validated /\ StaleAt(c, n) >= Patience))
  BY <1>1, StopIs
<1>3. QED
  BY <1>1, <1>2, StopBefore

(* Where a run ends is settled once it has got there.                      *)
LEMMA StopAgreement ==
    ASSUME NEW c \in Curves, NEW d \in Curves, NEW limit \in Nat, NEW n \in Nat,
           \A v \in Validated : v <= n => c[v] = d[v],
           StopAt(c, limit) <= n
    PROVE  StopAt(d, limit) = StopAt(c, limit)
<1>0. PICK s : s = StopAt(c, limit)
  OBVIOUS
<1>1. /\ s \in Nat /\ s <= limit /\ s <= n /\ Unstopped(c, s - 1)
      /\ s = limit \/ (s \in Validated /\ StaleAt(c, s) >= Patience)
  BY <1>0, StopIs
<1>2. \A v \in Validated : v \in Nat
  BY ValidatedPositive
<1>3. \A v \in Validated : v <= s => c[v] = d[v]
  BY <1>1, <1>2
<1>4. StaleAt(d, s) = StaleAt(c, s)
  BY <1>1, <1>3, Agreement
<1>5. Unstopped(d, s - 1)
  <2>1. \A v \in Validated : v <= s - 1 => c[v] = d[v]
    BY <1>1, <1>2, <1>3
  <2>2. s - 1 \in Int
    BY <1>1
  <2>3. QED
    BY <1>1, <2>1, <2>2, UnstoppedAgreement
<1>6. CASE s \in Validated /\ StaleAt(c, s) >= Patience
  BY <1>0, <1>1, <1>4, <1>5, <1>6, StopsAt
<1>7. CASE s = limit /\ ~(s \in Validated /\ StaleAt(c, s) >= Patience)
  <2>1. Unstopped(d, s)
    <3> SUFFICES ASSUME NEW v \in Validated, v <= s PROVE StaleAt(d, v) < Patience
        BY DEF Unstopped
    <3>1. v = s \/ v <= s - 1
      BY <1>1, <1>2
    <3>2. QED
      BY <1>4, <1>5, <1>7, <3>1, StaleIsNat DEF Unstopped
  <2>2. QED
    BY <1>0, <1>1, <1>7, <2>1, StopsAt
<1>8. QED
  BY <1>1, <1>6, <1>7

(* The best metric of the validations up to epoch n.                       *)
Evidence(c, n) ==
    LET seen == {v \in Validated : v <= n} IN
    IF seen = {} THEN 0 ELSE Min({c[v] : v \in seen})

LEMMA EvidenceAgreement ==
    ASSUME NEW c, NEW d, NEW n, \A v \in Validated : v <= n => c[v] = d[v]
    PROVE  Evidence(c, n) = Evidence(d, n)
<1>1. {c[v] : v \in {u \in Validated : u <= n}} = {d[v] : v \in {u \in Validated : u <= n}}
  OBVIOUS
<1>2. QED
  BY <1>1 DEF Evidence

LEMMA EvidenceImproves ==
    ASSUME NEW c \in Curves, NEW n \in Nat, NEW m \in Nat, n <= m,
           NEW u \in Validated, u <= n
    PROVE  Evidence(c, m) <= Evidence(c, n)
<1> DEFINE S(k) == {c[v] : v \in {w \in Validated : w <= k}}
<1>1. \A v \in Validated : v \in Nat /\ c[v] \in Nat
  BY ValidatedPositive DEF Curves
<1>2. /\ S(n) \in SUBSET Nat /\ S(n) # {} /\ S(m) \in SUBSET Nat /\ S(m) # {}
      /\ S(n) \subseteq S(m)
  BY <1>1
<1>3. Evidence(c, n) = Min(S(n)) /\ Evidence(c, m) = Min(S(m))
  BY <1>1 DEF Evidence
<1> HIDE DEF S
<1>4. Min(S(n)) \in S(n) /\ \A x \in S(m) : Min(S(m)) <= x
  BY <1>2, LeastExists
<1>5. QED
  BY <1>2, <1>3, <1>4

LEMMA EvidenceType ==
    ASSUME NEW c \in Curves, NEW n
    PROVE  Evidence(c, n) \in Nat
<1> DEFINE S == {c[v] : v \in {w \in Validated : w <= n}}
<1>1. S \in SUBSET Nat
  BY DEF Curves
<1>2. S # {} => Min(S) \in S
  <2> HIDE DEF S
  <2>1. QED
    BY <1>1, LeastExists
<1>3. QED
  BY <1>1, <1>2 DEF Evidence
-----------------------------------------------------------------------------
(***************************************************************************)
(* Lemmas about the decisions.                                             *)
(***************************************************************************)
LEMMA RankedAgreement ==
    ASSUME NEW S, NEW m, NEW k, NEW n, \A c \in S : m[c] = k[c]
    PROVE  Ranked(S, m, n) = Ranked(S, k, n)
<1>1. ASSUME NEW c \in S
      PROVE  {d \in S : m[d] < m[c] \/ (m[d] = m[c] /\ d < c)}
                = {d \in S : k[d] < k[c] \/ (k[d] = k[c] /\ d < c)}
  OBVIOUS
<1>2. QED
  BY <1>1 DEF Ranked

LEMMA SelectedAgreement ==
    ASSUME NEW S, NEW m, NEW k, \A c \in S, a \in Axes : m[<<c, a>>] = k[<<c, a>>]
    PROVE  Selected(S, m) = Selected(S, k)
<1>1. \A c \in S : Scores(c, m) = Scores(c, k)
  BY DEF Scores
<1>2. \A c, d \in S : Better(c, d, m) <=> Better(c, d, k)
  BY <1>1 DEF Better
<1>3. QED
  BY <1>2 DEF Selected

(* The candidates before one of them: a strict total order.                *)
Before(S, m, c) == {d \in S : m[d] < m[c] \/ (m[d] = m[c] /\ d < c)}

LEMMA BeforeOrder ==
    ASSUME NEW S \in SUBSET Nat, IsFiniteSet(S), NEW m, \A c \in S : m[c] \in Nat,
           NEW c \in S, NEW d \in S
    PROVE  /\ c = d \/ c \in Before(S, m, d) \/ d \in Before(S, m, c)
           /\ d \in Before(S, m, c) =>
                 /\ c \notin Before(S, m, d)
                 /\ Before(S, m, d) \subseteq Before(S, m, c)
                 /\ Cardinality(Before(S, m, d)) < Cardinality(Before(S, m, c))
           /\ c \notin Before(S, m, c)
           /\ IsFiniteSet(Before(S, m, c)) /\ Cardinality(Before(S, m, c)) \in Nat
<1>1. c \in Nat /\ d \in Nat /\ m[c] \in Nat /\ m[d] \in Nat
  OBVIOUS
<1>2. c = d \/ c \in Before(S, m, d) \/ d \in Before(S, m, c)
  BY <1>1 DEF Before
<1>3. c \notin Before(S, m, c) /\ d \notin Before(S, m, d)
  BY <1>1 DEF Before
<1>4. IsFiniteSet(Before(S, m, c)) /\ Cardinality(Before(S, m, c)) \in Nat
  <2>1. Before(S, m, c) \subseteq S
    BY DEF Before
  <2>2. QED
    BY <2>1, FS_Subset, FS_CardinalityType
<1>5. ASSUME d \in Before(S, m, c)
      PROVE  /\ c \notin Before(S, m, d)
             /\ Before(S, m, d) \subseteq Before(S, m, c)
             /\ Cardinality(Before(S, m, d)) < Cardinality(Before(S, m, c))
  <2>1. c \notin Before(S, m, d)
    BY <1>1, <1>5 DEF Before
  <2>2. \A e \in Before(S, m, d) : e \in Before(S, m, c)
    BY <1>1, <1>5 DEF Before
  <2>3. Before(S, m, d) # Before(S, m, c)
    BY <1>3, <1>5
  <2>4. Before(S, m, d) \in SUBSET Before(S, m, c)
    BY <2>2
  <2>5. /\ IsFiniteSet(Before(S, m, d))
        /\ Cardinality(Before(S, m, d)) <= Cardinality(Before(S, m, c))
        /\ Cardinality(Before(S, m, d)) # Cardinality(Before(S, m, c))
    BY <1>4, <2>3, <2>4, FS_Subset
  <2>6. Cardinality(Before(S, m, d)) \in Nat
    BY <2>5, FS_CardinalityType
  <2>7. QED
    BY <1>4, <2>1, <2>4, <2>5, <2>6
<1>6. QED
  BY <1>2, <1>3, <1>4, <1>5

(* Those that are ranked are before all the others.                        *)
LEMMA RankedFirst ==
    ASSUME NEW S \in SUBSET Nat, IsFiniteSet(S), NEW m, \A c \in S : m[c] \in Nat, NEW n \in Nat,
           NEW c \in Ranked(S, m, n), NEW d \in S \ Ranked(S, m, n)
    PROVE  c \in Before(S, m, d)
<1>1. c \in S /\ c # d /\ Cardinality(Before(S, m, c)) < n /\ ~(Cardinality(Before(S, m, d)) < n)
  BY DEF Ranked, Before
<1>2. CASE d \in Before(S, m, c)
  <2>1. Cardinality(Before(S, m, d)) < Cardinality(Before(S, m, c))
    BY <1>1, <1>2, BeforeOrder
  <2>2. Cardinality(Before(S, m, d)) \in Nat /\ Cardinality(Before(S, m, c)) \in Nat
    BY <1>1, BeforeOrder
  <2>3. QED
    BY <1>1, <2>1, <2>2
<1>3. QED
  BY <1>1, <1>2, BeforeOrder

LEMMA RankedAtMost ==
    ASSUME NEW S \in SUBSET Nat, IsFiniteSet(S), NEW m, \A c \in S : m[c] \in Nat, NEW n \in Nat
    PROVE  /\ IsFiniteSet(Ranked(S, m, n))
           /\ Cardinality(Ranked(S, m, n)) \in Nat
           /\ Cardinality(Ranked(S, m, n)) <= n
<1>0. PICK R : R = Ranked(S, m, n)
  OBVIOUS
<1>1. R \subseteq S /\ \A c \in R : Cardinality(Before(S, m, c)) < n
  BY <1>0 DEF Ranked, Before
<1>2. IsFiniteSet(R) /\ Cardinality(R) \in Nat
  BY <1>1, FS_Subset, FS_CardinalityType
<1>3. CASE R = {}
  BY <1>0, <1>2, <1>3, FS_EmptySet
<1>4. CASE R # {}
  <2> DEFINE After(c) == n - Cardinality(Before(S, m, c))
             T == {After(c) : c \in R}
  <2>1. \A c \in R : Cardinality(Before(S, m, c)) \in Nat /\ After(c) \in Nat
    BY <1>1, BeforeOrder
  <2>2. T \in SUBSET Nat /\ T # {}
    BY <1>4, <2>1
  <2>3. Min(T) \in T /\ \A x \in T : Min(T) <= x
    <3> HIDE DEF T
    <3>1. QED
      BY <2>2, LeastExists
  <2>4. PICK c \in R : \A d \in R : After(c) <= After(d)
    BY <2>3
  <2>5. R \subseteq Before(S, m, c) \cup {c}
    <3> SUFFICES ASSUME NEW d \in R, d # c, d \notin Before(S, m, c) PROVE FALSE
        OBVIOUS
    <3>1. c \in Before(S, m, d)
      BY <1>1, BeforeOrder
    <3>2. Cardinality(Before(S, m, c)) < Cardinality(Before(S, m, d))
      BY <1>1, <3>1, BeforeOrder
    <3>3. QED
      BY <2>1, <2>4, <3>2
  <2>6. IsFiniteSet(Before(S, m, c)) /\ c \notin Before(S, m, c)
    BY <1>1, BeforeOrder
  <2>7. /\ IsFiniteSet(Before(S, m, c) \cup {c})
        /\ Cardinality(Before(S, m, c) \cup {c}) = Cardinality(Before(S, m, c)) + 1
    BY <2>6, FS_AddElement
  <2>8. Cardinality(R) <= Cardinality(Before(S, m, c)) + 1
    BY <2>5, <2>7, FS_Subset
  <2>9. QED
    BY <1>0, <1>1, <1>2, <2>1, <2>8
<1>5. QED
  BY <1>3, <1>4

LEMMA RankedFull ==
    ASSUME NEW S \in SUBSET Nat, IsFiniteSet(S), NEW m, \A c \in S : m[c] \in Nat, NEW n \in Nat,
           S \ Ranked(S, m, n) # {}
    PROVE  n <= Cardinality(Ranked(S, m, n))
<1>0. PICK R : R = Ranked(S, m, n)
  OBVIOUS
<1>1. R \subseteq S /\ \A c \in S : c \in R <=> Cardinality(Before(S, m, c)) < n
  BY <1>0 DEF Ranked, Before
<1>2. IsFiniteSet(R) /\ Cardinality(R) \in Nat
  BY <1>1, FS_Subset, FS_CardinalityType
<1> DEFINE T == {Cardinality(Before(S, m, c)) : c \in S \ R}
<1>3. T \in SUBSET Nat /\ T # {}
  <2>1. \A c \in S \ R : Cardinality(Before(S, m, c)) \in Nat
    BY BeforeOrder
  <2>2. QED
    BY <1>0, <2>1
<1>4. Min(T) \in T /\ \A x \in T : Min(T) <= x
  <2> HIDE DEF T
  <2>1. QED
    BY <1>3, LeastExists
<1>5. PICK d \in S \ R : \A e \in S \ R : Cardinality(Before(S, m, d)) <= Cardinality(Before(S, m, e))
  BY <1>4
<1>6. Before(S, m, d) \subseteq R
  <2> SUFFICES ASSUME NEW e \in Before(S, m, d), e \notin R PROVE FALSE
      OBVIOUS
  <2>1. e \in S
    BY DEF Before
  <2>2. Cardinality(Before(S, m, e)) < Cardinality(Before(S, m, d))
    BY <2>1, BeforeOrder
  <2>3. Cardinality(Before(S, m, e)) \in Nat /\ Cardinality(Before(S, m, d)) \in Nat
    BY <2>1, BeforeOrder
  <2>4. QED
    BY <1>5, <2>1, <2>2, <2>3
<1>7. Cardinality(Before(S, m, d)) <= Cardinality(R) /\ Cardinality(Before(S, m, d)) \in Nat
  BY <1>2, <1>6, FS_Subset, BeforeOrder
<1>8. ~(Cardinality(Before(S, m, d)) < n)
  BY <1>1
<1>9. QED
  BY <1>0, <1>2, <1>7, <1>8

(* Whoever is ranked stays so when only those that are ranked improve.     *)
LEMMA RankedImproves ==
    ASSUME NEW S \in SUBSET Nat, IsFiniteSet(S), NEW n \in Nat,
           NEW m, \A c \in S : m[c] \in Nat,
           NEW k, \A c \in S : k[c] \in Nat,
           \A c \in Ranked(S, m, n) : k[c] <= m[c],
           \A c \in S \ Ranked(S, m, n) : k[c] = m[c]
    PROVE  Ranked(S, k, n) = Ranked(S, m, n)
<1>0. PICK R : R = Ranked(S, m, n)
  OBVIOUS
<1>1. R \subseteq S
  BY <1>0 DEF Ranked
<1>2. IsFiniteSet(R) /\ Cardinality(R) \in Nat /\ Cardinality(R) <= n
  BY <1>0, RankedAtMost
<1>3. ASSUME NEW c \in R, NEW d \in S \ R
      PROVE  c \in Before(S, k, d) /\ d \notin Before(S, k, c)
  <2>1. c \in Before(S, m, d)
    BY <1>0, RankedFirst
  <2>2. /\ c \in S /\ c \in Nat /\ d \in Nat /\ m[c] \in Nat /\ k[c] \in Nat /\ m[d] \in Nat
        /\ k[c] <= m[c] /\ k[d] = m[d]
    BY <1>0, <1>1
  <2>3. c \in Before(S, k, d)
    BY <2>1, <2>2 DEF Before
  <2>4. QED
    BY <2>2, <2>3, BeforeOrder
<1>4. ASSUME NEW c \in R PROVE Cardinality(Before(S, k, c)) < n
  <2>1. c \in S
    BY <1>1
  <2>2. Before(S, k, c) \subseteq R \ {c}
    <3>1. Before(S, k, c) \subseteq S /\ c \notin Before(S, k, c)
      BY <2>1, BeforeOrder DEF Before
    <3>2. QED
      BY <1>3, <3>1
  <2>3. IsFiniteSet(R \ {c}) /\ Cardinality(R \ {c}) = Cardinality(R) - 1
    BY <1>2, FS_RemoveElement
  <2>4. Cardinality(Before(S, k, c)) <= Cardinality(R) - 1
    BY <2>2, <2>3, FS_Subset
  <2>5. Cardinality(Before(S, k, c)) \in Nat
    BY <2>1, BeforeOrder
  <2>6. QED
    BY <1>2, <2>4, <2>5
<1>5. ASSUME NEW d \in S \ R PROVE ~(Cardinality(Before(S, k, d)) < n)
  <2>1. R \subseteq Before(S, k, d)
    BY <1>3
  <2>2. IsFiniteSet(Before(S, k, d)) /\ Cardinality(Before(S, k, d)) \in Nat
    BY BeforeOrder
  <2>3. Cardinality(R) <= Cardinality(Before(S, k, d))
    BY <2>1, <2>2, FS_Subset
  <2>4. n <= Cardinality(R)
    BY <1>0, RankedFull
  <2>5. QED
    BY <1>2, <2>2, <2>3, <2>4
<1>6. \A c \in S : Cardinality(Before(S, k, c)) < n <=> c \in R
  BY <1>4, <1>5
<1>7. Ranked(S, k, n) = {c \in S : Cardinality(Before(S, k, c)) < n}
  BY DEF Ranked, Before
<1>8. QED
  BY <1>0, <1>1, <1>6, <1>7
-----------------------------------------------------------------------------
(***************************************************************************)
(* The selection.  Its stages are repeated over directories in which later *)
(* stages have trained; they decide the same because only the candidates   *)
(* that a stage has kept are ever trained on, and that only improves them. *)
(***************************************************************************)
Untouched == signals = 0 /\ \A r \in Runs : {"row", "stop"} \cap lapsed[r] = {}

StageRun(c) == <<c, "stage">>

(* The run has got to where training with that limit ends.                 *)
Reached(r, limit) == StopAt(curve[r], limit) <= last[r]

(* The decisions of an undisturbed selection.                              *)
FirstEvidence == [r \in Runs |-> Untroubled(r, Stage1Limit)]
FullEvidence == [r \in Runs |-> Untroubled(r, MaxEpochs)]
First == Decided(1, Undecided, FirstEvidence)
Second == Decided(2, First, FullEvidence)

StageOneDone ==
    \A c \in Candidates :
       /\ Reached(StageRun(c), Stage1Limit)
       /\ \E v \in Validated : v <= StopAt(curve[StageRun(c)], Stage1Limit)
StageTwoDone ==
    StageOneDone /\ \A c \in First.survivors : Reached(StageRun(c), MaxEpochs)
AllDone ==
    StageTwoDone /\ \A c \in Second.finalists, a \in Axes : Reached(<<c, a>>, MaxEpochs)

(* What the present stage trains, and how far.                             *)
Field ==
    IF suite.stage = 1 THEN Candidates
    ELSE IF suite.stage = 2 THEN suite.decided.survivors ELSE suite.decided.finalists
Limit == IF suite.stage = 1 THEN Stage1Limit ELSE MaxEpochs

(* Only a survivor is trained beyond the first stage.                      *)
AheadInv ==
    \A c \in Candidates :
       StopAt(curve[StageRun(c)], Stage1Limit) < last[StageRun(c)]
          => StageOneDone /\ c \in First.survivors

DecidedInv ==
    /\ suite.stage = 1 => suite.decided = Undecided
    /\ suite.stage = 2 => StageOneDone /\ suite.decided = First
    /\ suite.stage = 3 => StageTwoDone /\ suite.decided = Second

Collected(r) ==
    /\ Reached(r, Limit)
    /\ \E v \in Validated : v <= last[r]
    /\ suite.seen[r] = Evidence(curve[r], last[r])

CollectedInv ==
    suite.stage # 0 =>
       /\ suite.left \subseteq StageRuns(Field, suite.stage)
       /\ \A r \in StageRuns(Field, suite.stage) \ suite.left : Collected(r)

Working == Running \cup {"open", "record", "restore", "returned"}

WorkInv ==
    /\ proc.pc \in Working => ~proc.flag /\ proc.run \in suite.left /\ proc.limit = Limit
    /\ proc.pc = "last" => proc.epoch <= StopAt(curve[proc.run], proc.limit)
    /\ proc.pc \in {"record", "restore", "returned"} => Reached(proc.run, proc.limit)

TraceInv == trace # Undecided => AllDone /\ trace = Reference

SelectionInv ==
    Untouched => AheadInv /\ DecidedInv /\ CollectedInv /\ WorkInv /\ TraceInv

(* Where a run stands at the end of a call.                                *)
LEMMA EndReached ==
    ASSUME EngineTypeOK, EndInv, NEW r \in Runs, NEW limit \in Epochs,
           "stop" \notin lapsed[r], Ended(r)
    PROVE  Reached(r, limit)
<1>1. last[r] = StopAt(curve[r], MaxEpochs)
  BY DEF EndInv, RunEnd
<1>2. limit \in Nat /\ limit <= MaxEpochs
  BY DEF Epochs
<1>3. QED
  BY <1>1, <1>2, StopMonotone DEF Reached

LEMMA ExactEnd ==
    ASSUME EngineTypeOK, EndInv, NEW r \in Runs, "stop" \notin lapsed[r], ~Stopping(r),
           Reached(r, MaxEpochs)
    PROVE  last[r] = StopAt(curve[r], MaxEpochs)
<1>1. CASE Ended(r)
  BY <1>1 DEF EndInv, RunEnd
<1>2. CASE ~Ended(r)
  <2>1. Unstopped(curve[r], last[r])
    BY <1>2 DEF EndInv, RunEnd
  <2>2. last[r] \in Nat /\ last[r] <= MaxEpochs
    BY DEF EngineTypeOK
  <2>3. PICK s : s = StopAt(curve[r], MaxEpochs)
    OBVIOUS
  <2>4. s \in Nat /\ s <= MaxEpochs
    BY <2>3, StopIs
  <2>5. ~(last[r] < MaxEpochs)
    BY <2>1, <2>2, <2>3, <2>4, StopBeyond DEF Reached
  <2>6. last[r] = MaxEpochs
    BY <2>2, <2>5
  <2>7. QED
    BY <2>1, <2>2, <2>6, StopsAt
<1>3. QED
  BY <1>1, <1>2

LEMMA UntroubledIs ==
    ASSUME NEW r, NEW limit
    PROVE  Untroubled(r, limit) = Evidence(curve[r], StopAt(curve[r], limit))
  BY DEF Untroubled, Evidence

(* A run goes on, and what it has computed stays.                          *)
Onward ==
    \A r \in Runs :
       /\ last[r] \in Nat /\ last'[r] \in Nat /\ last[r] <= last'[r]
       /\ curve[r] \in Curves /\ curve'[r] \in Curves
       /\ \A v \in Validated : v <= last[r] => curve[r][v] = curve'[r][v]

LEMMA ReachedOnward ==
    ASSUME Onward, NEW r \in Runs, NEW limit \in Nat, Reached(r, limit)
    PROVE  /\ Reached(r, limit)' /\ StopAt(curve'[r], limit) = StopAt(curve[r], limit)
           /\ Untroubled(r, limit)' = Untroubled(r, limit)
<1>0. PICK s : s = StopAt(curve[r], limit)
  OBVIOUS
<1>1. s \in Nat /\ s <= last[r] /\ last[r] \in Nat /\ last'[r] \in Nat /\ last[r] <= last'[r]
  BY <1>0, StopIs DEF Reached, Onward
<1>2. StopAt(curve'[r], limit) = s
  BY <1>0, <1>1, StopAgreement DEF Onward
<1>3. Reached(r, limit)'
  BY <1>1, <1>2 DEF Reached
<1>4. \A v \in Validated : v <= s => curve[r][v] = curve'[r][v]
  <2>1. \A v \in Validated : v \in Nat
    BY ValidatedPositive
  <2>2. QED
    BY <1>1, <2>1 DEF Onward
<1>5. Evidence(curve[r], s) = Evidence(curve'[r], s)
  BY <1>4, EvidenceAgreement
<1>6. Untroubled(r, limit)' = Evidence(curve'[r], StopAt(curve'[r], limit))
  BY DEF Untroubled, Evidence
<1>7. QED
  BY <1>0, <1>2, <1>3, <1>5, <1>6, UntroubledIs

LEMMA SelectionConstants ==
    /\ Stage1Limit \in Nat /\ Stage1Limit \in Epochs /\ MaxEpochs \in Nat /\ MaxEpochs \in Epochs
    /\ \A c \in Candidates : StageRun(c) \in Runs /\ \A a \in Axes : <<c, a>> \in Runs
    /\ Candidates \in SUBSET Nat /\ IsFiniteSet(Candidates) /\ Half(Cardinality(Candidates)) \in Nat
<1>1. Stage1Limit \in Epochs /\ MaxEpochs \in Epochs /\ Epochs \subseteq Nat
  BY SelectionAssumption DEF Epochs
<1>2. Cardinality(Candidates) \in Nat
  BY SelectionAssumption, FS_CardinalityType
<1>3. Half(Cardinality(Candidates)) \in Nat
  BY <1>2 DEF Half
<1>4. QED
  BY <1>1, <1>3, SelectionAssumption, RunsExist DEF StageRun

LEMMA FirstIs ==
    /\ First = [survivors |-> Ranked(Candidates, StageMetric(FirstEvidence),
                                     Half(Cardinality(Candidates))),
                finalists |-> {}, selected |-> {}]
    /\ First.survivors \subseteq Candidates
<1> DEFINE R == Ranked(Candidates, StageMetric(FirstEvidence), Half(Cardinality(Candidates)))
<1>1. First = [Undecided EXCEPT !.survivors = R]
  BY DEF First, Decided
<1>2. R \subseteq Candidates
  BY DEF Ranked
<1> HIDE DEF R
<1>3. First = [survivors |-> R, finalists |-> {}, selected |-> {}]
  BY <1>1 DEF Undecided
<1>4. QED
  BY <1>2, <1>3 DEF R

LEMMA SecondIs ==
    /\ Second = [survivors |-> First.survivors,
                 finalists |-> Ranked(First.survivors, StageMetric(FullEvidence), Finalists),
                 selected |-> {}]
    /\ Second.finalists \subseteq Candidates
<1>1. Second = [First EXCEPT !.finalists =
                   Ranked(First.survivors, StageMetric(FullEvidence), Finalists)]
  BY DEF Second, Decided
<1>2. Second = [survivors |-> First.survivors,
                finalists |-> Ranked(First.survivors, StageMetric(FullEvidence), Finalists),
                selected |-> {}]
  BY <1>1, FirstIs
<1>3. QED
  BY <1>2, FirstIs DEF Ranked

LEMMA ReferenceIs ==
    Reference = [Second EXCEPT !.selected = Selected(Second.finalists, FullEvidence)]
<1>1. Reference = Decided(3, Second, FullEvidence)
  BY DEF Reference, First, Second, FirstEvidence, FullEvidence
<1>2. QED
  BY <1>1 DEF Decided

LEMMA StageOneOnward ==
    ASSUME Onward, StageOneDone
    PROVE  /\ StageOneDone' /\ First' = First
<1>1. ASSUME NEW c \in Candidates
      PROVE  /\ Reached(StageRun(c), Stage1Limit)'
             /\ StopAt(curve'[StageRun(c)], Stage1Limit) = StopAt(curve[StageRun(c)], Stage1Limit)
             /\ Untroubled(StageRun(c), Stage1Limit)' = Untroubled(StageRun(c), Stage1Limit)
  <2>1. StageRun(c) \in Runs /\ Reached(StageRun(c), Stage1Limit)
    BY SelectionConstants DEF StageOneDone
  <2>2. QED
    BY <2>1, ReachedOnward, SelectionConstants
<1>2. StageOneDone'
  BY <1>1 DEF StageOneDone, StageRun
<1>3. StageMetric(FirstEvidence') = StageMetric(FirstEvidence)
  <2>1. ASSUME NEW c \in Candidates
        PROVE  FirstEvidence'[<<c, "stage">>] = FirstEvidence[<<c, "stage">>]
    BY <1>1, SelectionConstants DEF FirstEvidence, StageRun
  <2>2. QED
    BY <2>1 DEF StageMetric
<1>4. First' = First
  <2>1. First' = Decided(1, Undecided, FirstEvidence')
    BY DEF First, Decided, StageMetric
  <2>2. Decided(1, Undecided, FirstEvidence') = Decided(1, Undecided, FirstEvidence)
    BY <1>3 DEF Decided
  <2>3. QED
    BY <2>1, <2>2 DEF First
<1>5. QED
  BY <1>2, <1>4

LEMMA StageTwoOnward ==
    ASSUME Onward, StageTwoDone
    PROVE  /\ StageTwoDone' /\ Second' = Second
<1>1. StageOneDone' /\ First' = First
  BY StageOneOnward DEF StageTwoDone
<1>2. ASSUME NEW c \in First.survivors
      PROVE  /\ StageRun(c) \in Runs
             /\ Reached(StageRun(c), MaxEpochs)'
             /\ Untroubled(StageRun(c), MaxEpochs)' = Untroubled(StageRun(c), MaxEpochs)
  <2>1. StageRun(c) \in Runs /\ Reached(StageRun(c), MaxEpochs)
    BY FirstIs, SelectionConstants DEF StageTwoDone
  <2>2. QED
    BY <2>1, ReachedOnward, SelectionConstants
<1>3. StageTwoDone'
  BY <1>1, <1>2 DEF StageTwoDone, StageRun
<1>4. ASSUME NEW c \in First.survivors
      PROVE  StageMetric(FullEvidence')[c] = StageMetric(FullEvidence)[c]
  <2>1. FullEvidence'[<<c, "stage">>] = FullEvidence[<<c, "stage">>]
    BY <1>2 DEF FullEvidence, StageRun
  <2>2. QED
    BY <2>1, FirstIs DEF StageMetric
<1>5. Ranked(First.survivors, StageMetric(FullEvidence'), Finalists)
         = Ranked(First.survivors, StageMetric(FullEvidence), Finalists)
  BY <1>4, RankedAgreement
<1>6. Second' = [First' EXCEPT !.finalists =
                   Ranked(First'.survivors, StageMetric(FullEvidence'), Finalists)]
  BY DEF Second, Decided, StageMetric
<1>7. QED
  BY <1>1, <1>3, <1>5, <1>6 DEF Second, Decided

LEMMA AllOnward ==
    ASSUME Onward, AllDone
    PROVE  AllDone' /\ Reference' = Reference
<1>1. StageTwoDone' /\ Second' = Second
  BY StageTwoOnward DEF AllDone
<1>2. ASSUME NEW c \in Second.finalists, NEW a \in Axes
      PROVE  /\ <<c, a>> \in Runs
             /\ Reached(<<c, a>>, MaxEpochs)'
             /\ Untroubled(<<c, a>>, MaxEpochs)' = Untroubled(<<c, a>>, MaxEpochs)
  <2>1. <<c, a>> \in Runs /\ Reached(<<c, a>>, MaxEpochs)
    BY SecondIs, SelectionConstants DEF AllDone
  <2>2. QED
    BY <2>1, ReachedOnward, SelectionConstants
<1>3. AllDone'
  BY <1>1, <1>2 DEF AllDone
<1>4. \A c \in Second.finalists, a \in Axes : FullEvidence'[<<c, a>>] = FullEvidence[<<c, a>>]
  BY <1>2 DEF FullEvidence
<1>5. Selected(Second.finalists, FullEvidence') = Selected(Second.finalists, FullEvidence)
  BY <1>4, SelectedAgreement
<1>6. Reference' = [Second' EXCEPT !.selected = Selected(Second'.finalists, FullEvidence')]
  <2>1. Reference' = Decided(3, Second', FullEvidence')
    BY DEF Reference, First, Second, FirstEvidence, FullEvidence
  <2>2. QED
    BY <2>1 DEF Decided
<1>7. QED
  BY <1>1, <1>3, <1>5, <1>6, ReferenceIs

(* What the stages decide at their end.                                    *)
LEMMA DecideOne ==
    ASSUME IInv, SelectionInv, Untouched, suite.stage = 1, suite.left = {}
    PROVE  StageOneDone /\ Decided(1, Undecided, suite.seen) = First
<1> DEFINE stop(c) == StopAt(curve[StageRun(c)], Stage1Limit)
           m == StageMetric(FirstEvidence)
           k == StageMetric(suite.seen)
           n == Half(Cardinality(Candidates))
<1>1. ASSUME NEW c \in Candidates
      PROVE  /\ StageRun(c) \in Runs /\ curve[StageRun(c)] \in Curves
             /\ last[StageRun(c)] \in Nat /\ stop(c) \in Nat /\ stop(c) <= last[StageRun(c)]
             /\ \E v \in Validated : v <= last[StageRun(c)]
             /\ m[c] = Evidence(curve[StageRun(c)], stop(c))
             /\ k[c] = Evidence(curve[StageRun(c)], last[StageRun(c)])
             /\ stop(c) < last[StageRun(c)] => StageOneDone /\ c \in First.survivors
  <2>1. StageRun(c) \in Runs /\ EngineTypeOK /\ StageRun(c) \in StageRuns(Field, 1)
    BY SelectionConstants DEF IInv, EngineInv, StageRun, StageRuns, Field
  <2>2. curve[StageRun(c)] \in Curves /\ last[StageRun(c)] \in Nat
    BY <2>1, CurveType DEF EngineTypeOK
  <2>3. Collected(StageRun(c))
    BY <2>1 DEF SelectionInv, CollectedInv
  <2>4. stop(c) \in Nat /\ stop(c) <= last[StageRun(c)]
    BY <2>3, StopIs, SelectionConstants DEF Collected, Reached, Limit
  <2>5. m[c] = Evidence(curve[StageRun(c)], stop(c))
    BY <2>1, UntroubledIs DEF StageMetric, FirstEvidence, StageRun
  <2>6. k[c] = Evidence(curve[StageRun(c)], last[StageRun(c)])
    BY <2>3 DEF Collected, StageMetric, StageRun
  <2>7. QED
    BY <2>1, <2>2, <2>3, <2>4, <2>5, <2>6 DEF SelectionInv, AheadInv, Collected
<1>2. StageOneDone
  <2>1. CASE \E c \in Candidates : stop(c) < last[StageRun(c)]
    BY <1>1, <2>1
  <2>2. CASE \A c \in Candidates : ~(stop(c) < last[StageRun(c)])
    <3>1. \A c \in Candidates : stop(c) = last[StageRun(c)]
      BY <1>1, <2>2
    <3>2. QED
      BY <1>1, <3>1 DEF StageOneDone, Reached
  <2>3. QED
    BY <2>1, <2>2
<1>3. Ranked(Candidates, k, n) = Ranked(Candidates, m, n)
  <2>1. \A c \in Candidates : m[c] \in Nat /\ k[c] \in Nat
    BY <1>1, EvidenceType
  <2>2. ASSUME NEW c \in Candidates PROVE k[c] <= m[c]
    <3>1. PICK u \in Validated : u <= stop(c)
      BY <1>2 DEF StageOneDone
    <3>2. QED
      BY <1>1, <3>1, EvidenceImproves
  <2>3. ASSUME NEW c \in Candidates, c \notin Ranked(Candidates, m, n) PROVE k[c] = m[c]
    <3>1. c \notin First.survivors
      BY <2>3, FirstIs
    <3>2. stop(c) = last[StageRun(c)]
      BY <1>1, <3>1
    <3>3. QED
      BY <1>1, <3>2
  <2>4. Ranked(Candidates, m, n) \subseteq Candidates
    BY DEF Ranked
  <2> HIDE DEF m, k, n
  <2>5. n \in Nat
    BY SelectionConstants DEF n
  <2>6. QED
    BY <2>1, <2>2, <2>3, <2>4, <2>5, SelectionConstants, RankedImproves
<1>4. QED
  BY <1>2, <1>3 DEF Decided, First

(* The evidence of a run that has been trained to its end.                 *)
LEMMA FullMetric ==
    ASSUME IInv, EndInv, Untouched, SelectionInv, proc.pc = "suite", suite.stage \in {2, 3},
           NEW r \in Runs, Collected(r)
    PROVE  Reached(r, MaxEpochs) /\ suite.seen[r] = FullEvidence[r]
<1>1. Reached(r, MaxEpochs) /\ suite.seen[r] = Evidence(curve[r], last[r])
  BY DEF Collected, Limit
<1>2. last[r] = StopAt(curve[r], MaxEpochs)
  BY <1>1, ExactEnd, NotWorkedOn DEF IInv, EngineInv, Untouched
<1>3. QED
  BY <1>1, <1>2, UntroubledIs DEF FullEvidence

LEMMA DecideTwo ==
    ASSUME IInv, EndInv, SelectionInv, Untouched, proc.pc = "suite",
           suite.stage = 2, suite.left = {}
    PROVE  StageTwoDone /\ Decided(2, First, suite.seen) = Second
<1>1. StageOneDone /\ suite.decided = First /\ Field = First.survivors
  BY DEF SelectionInv, DecidedInv, Field
<1>2. ASSUME NEW c \in First.survivors
      PROVE  /\ Reached(StageRun(c), MaxEpochs)
             /\ StageMetric(suite.seen)[c] = StageMetric(FullEvidence)[c]
  <2>1. c \in Candidates /\ c \in Field
    BY <1>1, FirstIs
  <2>a. StageRun(c) \in Runs /\ StageRun(c) \in StageRuns(Field, 2)
    BY <2>1, SelectionConstants DEF StageRuns, StageRun
  <2>2. Collected(StageRun(c))
    BY <2>a DEF SelectionInv, CollectedInv
  <2>3. QED
    BY <2>1, <2>a, <2>2, FullMetric DEF StageMetric, StageRun
<1>3. Ranked(First.survivors, StageMetric(suite.seen), Finalists)
         = Ranked(First.survivors, StageMetric(FullEvidence), Finalists)
  BY <1>2, RankedAgreement
<1>4. QED
  BY <1>1, <1>2, <1>3 DEF StageTwoDone, Decided, Second

LEMMA DecideThree ==
    ASSUME IInv, EndInv, SelectionInv, Untouched, proc.pc = "suite",
           suite.stage = 3, suite.left = {}
    PROVE  AllDone /\ Decided(3, Second, suite.seen) = Reference
<1>1. StageTwoDone /\ suite.decided = Second /\ Field = Second.finalists
  BY DEF SelectionInv, DecidedInv, Field
<1>2. ASSUME NEW c \in Second.finalists, NEW a \in Axes
      PROVE  /\ Reached(<<c, a>>, MaxEpochs)
             /\ suite.seen[<<c, a>>] = FullEvidence[<<c, a>>]
  <2>1. <<c, a>> \in Runs /\ <<c, a>> \in StageRuns(Field, 3)
    BY <1>1, SecondIs, SelectionConstants DEF StageRuns
  <2>2. Collected(<<c, a>>)
    BY <2>1 DEF SelectionInv, CollectedInv
  <2>3. QED
    BY <2>1, <2>2, FullMetric
<1>3. Selected(Second.finalists, suite.seen) = Selected(Second.finalists, FullEvidence)
  BY <1>2, SelectedAgreement
<1>4. QED
  BY <1>1, <1>2, <1>3, ReferenceIs DEF AllDone, Decided

(* What every step keeps.                                                  *)
LEMMA StepOnward ==
    ASSUME IInv, IInv', EndInv, [Next]_selectionVars
    PROVE  /\ Onward
           /\ \A r \in Runs : r # proc.run \/ proc.pc \notin {"train", "last"}
                 => curve'[r] = curve[r] /\ last'[r] = last[r]
<1>a. /\ EngineTypeOK /\ proc \in Processes /\ proc.run \in Runs
      /\ curve \in [Runs -> [Validated -> Metrics \cup {0}]]
      /\ last \in [Runs -> 0..MaxEpochs]
  BY Parts DEF IInv, EngineInv, EngineTypeOK
<1>b. \A r \in Runs : /\ curve[r] \in Curves /\ curve'[r] \in Curves
                      /\ last[r] \in Nat /\ last'[r] \in Nat
  <2>1. \A r \in Runs : curve[r] \in Curves
    BY <1>a, CurveType
  <2>2. curve' \in [Runs -> [Validated -> Metrics \cup {0}]] /\ last' \in [Runs -> 0..MaxEpochs]
    BY DEF IInv, EngineInv, EngineTypeOK
  <2>3. Metrics \cup {0} \subseteq Nat
    OBVIOUS
  <2>4. \A r \in Runs : curve'[r] \in Curves
    BY <2>2, <2>3 DEF Curves
  <2>5. QED
    BY <1>a, <2>1, <2>2, <2>4
<1>1. CASE TrainEpoch
  <2>1. /\ proc.pc = "train" /\ last' = last
        /\ \/ curve' = curve
           \/ \E m : curve' = [curve EXCEPT ![proc.run][proc.epoch + 1] = m]
    BY <1>1, Zenon DEF TrainEpoch
  <2>2. last[proc.run] = proc.epoch
    BY <2>1 DEF IInv, EngineInv, Placed
  <2>3. proc.epoch \in Nat
    BY <1>a, Parts
  <2>4. \A r \in Runs : \A v \in Validated : v <= last[r] => curve[r][v] = curve'[r][v]
    <3> SUFFICES ASSUME NEW r \in Runs, NEW v \in Validated, v <= last[r]
                 PROVE  curve[r][v] = curve'[r][v]
        OBVIOUS
    <3>1. v \in Nat
      BY ValidatedPositive
    <3>2. r # proc.run \/ v # proc.epoch + 1
      BY <2>2, <2>3, <3>1
    <3>3. CASE curve' = curve
      BY <3>3
    <3>4. CASE \E m : curve' = [curve EXCEPT ![proc.run][proc.epoch + 1] = m]
      <4>1. PICK m : curve' = [curve EXCEPT ![proc.run][proc.epoch + 1] = m]
        BY <3>4
      <4>2. curve'[r] = IF r = proc.run THEN [curve[r] EXCEPT ![proc.epoch + 1] = m] ELSE curve[r]
        BY <1>a, <4>1
      <4>3. curve[r] \in [Validated -> Metrics \cup {0}]
        BY <1>a
      <4>4. QED
        BY <3>2, <4>2, <4>3
    <3>5. QED
      BY <2>1, <3>3, <3>4
  <2>5. \A r \in Runs : r # proc.run => curve'[r] = curve[r]
    BY <1>a, <2>1
  <2>6. QED
    BY <1>b, <2>1, <2>4, <2>5 DEF Onward
<1>2. CASE PointLast
  <2>1. /\ proc.pc = "last" /\ curve' = curve
        /\ last' = [last EXCEPT ![proc.run] = proc.epoch]
    BY <1>2 DEF PointLast
  <2>2. proc.epoch = last[proc.run] + 1
    BY <2>1 DEF EndInv, ProcEnd
  <2>3. \A r \in Runs : last'[r] = IF r = proc.run THEN last[r] + 1 ELSE last[r]
    BY <1>a, <2>1, <2>2
  <2>4. \A r \in Runs : last[r] <= last'[r]
    BY <1>b, <2>3
  <2>5. QED
    BY <1>b, <2>1, <2>3, <2>4 DEF Onward
<1>3. CASE ~TrainEpoch /\ ~PointLast
  <2>1. curve' = curve /\ last' = last
    BY <1>3 DEF Next, Works, EngineStep, Engine, Interruption, Launch, Call, Collect, Decide,
       Open, PointBest, Prune, Log, LoopEnds, Record, Restore, Signal, Crash, selectionVars,
       vars, disk
  <2>2. QED
    BY <1>b, <2>1 DEF Onward
<1>4. QED
  BY <1>1, <1>2, <1>3

LEMMA UntouchedBefore ==
    ASSUME IInv, IInv', [Next]_selectionVars, Untouched'
    PROVE  Untouched /\ ~Signal
<1>a. /\ signals \in Nat /\ lapsed \in [Runs -> SUBSET {"stuck", "best", "row", "stop"}]
      /\ proc.run \in Runs
  BY Parts DEF IInv, EngineInv, EngineTypeOK
<1>1. /\ signals' = IF Signal THEN signals + 1 ELSE signals
      /\ lapsed' = lapsed \/ lapsed' = [lapsed EXCEPT ![proc.run] = @ \cup Window]
  <2>1. CASE Signal
    BY <2>1 DEF Signal
  <2>2. CASE ~Signal
    BY <2>2, Zenon DEF Next, Works, EngineStep, Engine, Interruption, Launch, Call, Collect, Decide,
       Open, TrainEpoch, PointLast, PointBest, Prune, Log, LoopEnds, Record, Restore,
       Crash, Undisturbed, selectionVars, vars
  <2>3. QED
    BY <2>1, <2>2
<1>2. \A r \in Runs : lapsed[r] \subseteq lapsed'[r]
  BY <1>a, <1>1
<1>3. signals = 0 /\ ~Signal
  BY <1>a, <1>1 DEF Untouched
<1>4. QED
  BY <1>2, <1>3 DEF Untouched

LEMMA AheadStep ==
    ASSUME IInv, EndInv, SelectionInv, Untouched, Onward, [Next]_selectionVars,
           \A r \in Runs : r # proc.run \/ proc.pc \notin {"train", "last"}
              => curve'[r] = curve[r] /\ last'[r] = last[r]
    PROVE  AheadInv'
<1> SUFFICES ASSUME NEW c \in Candidates,
                    StopAt(curve'[StageRun(c)], Stage1Limit) < last'[StageRun(c)]
             PROVE  StageOneDone' /\ c \in First'.survivors
    BY DEF AheadInv, StageRun
<1>0. PICK r : r = StageRun(c)
  OBVIOUS
<1>a. /\ r \in Runs /\ Stage1Limit \in Nat /\ last[r] \in Nat /\ last'[r] \in Nat
      /\ curve[r] \in Curves /\ curve'[r] \in Curves
      /\ \A v \in Validated : v <= last[r] => curve[r][v] = curve'[r][v]
  BY <1>0, SelectionConstants DEF Onward
<1> SUFFICES StageOneDone /\ c \in First.survivors
    BY StageOneOnward
<1>1. CASE StopAt(curve[r], Stage1Limit) < last[r]
  BY <1>0, <1>1 DEF SelectionInv, AheadInv
<1>2. CASE ~(StopAt(curve[r], Stage1Limit) < last[r]) /\ last'[r] = last[r]
  <2>1. PICK s : s = StopAt(curve'[r], Stage1Limit)
    OBVIOUS
  <2>2. s \in Nat /\ s < last[r]
    BY <1>0, <1>a, <1>2, <2>1, StopIs
  <2>3. \A v \in Validated : v <= last[r] => curve'[r][v] = curve[r][v]
    BY <1>a
  <2>4. StopAt(curve[r], Stage1Limit) = s
    BY <1>a, <2>1, <2>2, <2>3, StopAgreement
  <2>5. QED
    BY <1>2, <2>2, <2>4
<1>3. CASE ~(StopAt(curve[r], Stage1Limit) < last[r]) /\ last'[r] # last[r]
  <2>1. r = proc.run /\ proc.pc = "last" /\ PointLast
    <3>1. r = proc.run /\ proc.pc \in {"train", "last"}
      BY <1>a, <1>3
    <3>2. TrainEpoch => last' = last
      BY DEF TrainEpoch
    <3>3. PointLast \/ last' = last
      BY <3>2 DEF Next, Works, EngineStep, Engine, Interruption, Launch, Call, Collect, Decide,
         Open, PointBest, Prune, Log, LoopEnds, Record, Restore, Signal, Crash,
         selectionVars, vars, disk
    <3>4. QED
      BY <1>3, <3>1, <3>3 DEF PointLast
  <2>2. last'[r] = proc.epoch /\ curve' = curve
    BY <1>a, <2>1 DEF PointLast, IInv, EngineInv, EngineTypeOK
  <2>3. proc.epoch <= StopAt(curve[r], Limit) /\ r \in suite.left /\ proc.epoch \in Nat
    <3>1. proc.pc \in Working
      BY <2>1 DEF Working, Running
    <3>2. proc \in Processes
      BY DEF IInv, EngineInv, EngineTypeOK
    <3>3. QED
      BY <2>1, <3>1, <3>2, Parts DEF SelectionInv, WorkInv
  <2>4. suite.stage \in 1..3
    BY <2>1 DEF IInv, SuiteInv
  <2>5. suite.stage # 1
    <3>1. PICK s : s = StopAt(curve[r], Stage1Limit)
      OBVIOUS
    <3>2. s \in Nat /\ s < proc.epoch
      BY <1>0, <1>a, <2>2, <3>1, StopIs
    <3>3. QED
      BY <2>3, <3>1, <3>2 DEF Limit
  <2>6. c \in Field
    <3>1. r \in StageRuns(Field, suite.stage)
      BY <2>3, <2>4 DEF SelectionInv, CollectedInv
    <3>2. QED
      BY <1>0, <3>1 DEF StageRuns, StageRun
  <2>7. CASE suite.stage = 2
    BY <2>6, <2>7 DEF SelectionInv, DecidedInv, Field
  <2>8. CASE suite.stage = 3
    <3>1. StageTwoDone /\ c \in Second.finalists
      BY <2>6, <2>8 DEF SelectionInv, DecidedInv, Field
    <3>2. QED
      BY <3>1, SecondIs DEF StageTwoDone, Ranked
  <2>9. QED
    BY <2>4, <2>5, <2>7, <2>8
<1>4. QED
  BY <1>1, <1>2, <1>3

LEMMA WorkStep ==
    ASSUME SelectionInv, Untouched, proc.pc \in Working, suite' = suite,
           proc'.run = proc.run, proc'.limit = proc.limit, proc'.flag = proc.flag,
           proc'.pc = "last" => proc'.epoch <= StopAt(curve'[proc.run], proc.limit),
           proc'.pc \in {"record", "restore", "returned"}
              => StopAt(curve'[proc.run], proc.limit) <= last'[proc.run]
    PROVE  WorkInv'
<1>1. ~proc.flag /\ proc.run \in suite.left /\ proc.limit = Limit
  BY DEF SelectionInv, WorkInv
<1>2. Limit' = Limit
  BY DEF Limit
<1>3. QED
  BY <1>1, <1>2 DEF WorkInv, Reached

LEMMA WorkEnds ==
    ASSUME proc'.pc \in {"down", "suite"}
    PROVE  WorkInv'
  BY DEF WorkInv, Working, Running

LEMMA WorkEngine ==
    ASSUME IInv, IInv', ProgressInv, EndInv, SelectionInv, Untouched, EngineStep
    PROVE  WorkInv'
<1>0. PICK r : r = proc.run
  OBVIOUS
<1> DEFINE n == proc.epoch
           limit == proc.limit
<1>a. /\ EngineTypeOK /\ proc \in Processes /\ r \in Runs /\ n \in Nat /\ last[r] \in Nat
      /\ limit \in Epochs /\ limit \in Nat /\ curve[r] \in Curves /\ curve'[r] \in Curves
      /\ "stop" \notin lapsed[r] /\ proc' \in Processes
  <2>1. EngineTypeOK /\ proc \in Processes /\ r \in Runs /\ proc' \in Processes
    BY <1>0, Parts DEF IInv, EngineInv, EngineTypeOK
  <2>2. n \in Nat /\ limit \in Epochs /\ limit \in Nat /\ last[r] \in Nat
    BY <1>0, <2>1, Parts DEF EngineTypeOK, Epochs
  <2>3. curve[r] \in Curves
    BY <2>1, CurveType
  <2>4. curve'[r] \in Curves
    <3>1. Metrics \cup {0} \subseteq Nat
      OBVIOUS
    <3>2. curve' \in [Runs -> [Validated -> Metrics \cup {0}]]
      BY DEF IInv, EngineInv, EngineTypeOK
    <3>3. QED
      BY <2>1, <3>1, <3>2 DEF Curves
  <2>5. QED
    BY <2>1, <2>2, <2>3, <2>4 DEF Untouched
<1>b. Engine /\ suite' = IF proc'.pc = "down" THEN NoSuite ELSE suite
  BY DEF EngineStep, Forgotten
<1>c. Down.pc = "down"
  BY DEF Down
<1>d. proc.pc \in Working
  BY <1>b DEF Engine, Open, TrainEpoch, PointLast, PointBest, Prune, Log, LoopEnds, Record,
     Restore, Working, Running
<1>e. ~proc.flag
  BY <1>d DEF SelectionInv, WorkInv
<1>1. CASE proc'.pc = "down"
  BY <1>1, WorkEnds
<1>2. CASE proc'.pc # "down" /\ Open
  <2>a. UNCHANGED <<curve, last>> /\ proc.pc = "open"
    BY <1>2 DEF Open, disk
  <2>1. CASE Ended(r) /\ \E w : proc' = [proc EXCEPT !.pc = "returned", !.weights = w,
                                                     !.status = "SKIPPED_COMPLETED"]
    <3>1. /\ proc'.pc = "returned" /\ proc'.run = r /\ proc'.limit = limit
          /\ proc'.flag = proc.flag
      BY <1>0, <1>a, <2>1 DEF Processes
    <3>2. StopAt(curve[r], limit) <= last[r]
      BY <1>a, <2>1, EndReached DEF Reached
    <3>3. QED
      BY <1>0, <1>2, <1>b, <1>d, <2>a, <3>1, <3>2, WorkStep
  <2>2. CASE proc' = Resumed(r)
    <3>1. /\ proc'.pc = "train" /\ proc'.run = r /\ proc'.limit = limit
          /\ proc'.flag = proc.flag
      BY <1>0, <1>a, <2>2 DEF Resumed, Processes
    <3>2. QED
      BY <1>0, <1>2, <1>b, <1>d, <3>1, WorkStep
  <2>3. QED
    BY <1>0, <1>2, <1>c, <2>1, <2>2, Zenon DEF Open, Raises, Ended
<1>3. CASE proc'.pc # "down" /\ TrainEpoch
  <2>1. /\ proc.pc = "train" /\ n < limit /\ last' = last
        /\ \/ curve' = curve
           \/ \E m : curve' = [curve EXCEPT ![r][n + 1] = m]
        /\ \E i, b, s : proc' = [proc EXCEPT !.pc = "last", !.epoch = n + 1, !.weights = n + 1,
                                    !.improved = i, !.best = b, !.stale = s]
    <3>1. /\ proc.pc = "train" /\ n < limit /\ last' = last
          /\ \/ curve' = curve
             \/ \E m : curve' = [curve EXCEPT ![r][n + 1] = m]
      BY <1>0, <1>3, Zenon DEF TrainEpoch
    <3>2. \E i, b, s : proc' = [proc EXCEPT !.pc = "last", !.epoch = n + 1, !.weights = n + 1,
                                    !.improved = i, !.best = b, !.stale = s]
      <4>1. proc' # Down
        BY <1>3, <1>c
      <4>2. PICK m \in IF n + 1 \in Validated
                         THEN IF curve[proc.run][n + 1] # 0 THEN {curve[proc.run][n + 1]} ELSE Metrics
                         ELSE {0} :
               LET improved == n + 1 \in Validated
                                  /\ (proc.best = 0 \/ m < curve[proc.run][proc.best])
                   progress == [best |-> IF improved THEN n + 1 ELSE proc.best,
                                stale |-> IF improved THEN 0
                                          ELSE IF n + 1 \in Validated THEN proc.stale + 1
                                          ELSE proc.stale]
               IN IF n + 1 \in Present(proc.run) THEN proc' = Down
                  ELSE proc' = [proc EXCEPT !.pc = "last", !.epoch = n + 1, !.weights = n + 1,
                                  !.improved = improved, !.best = progress.best,
                                  !.stale = progress.stale]
        BY <1>3, Zenon DEF TrainEpoch, Raises
      <4> DEFINE i == n + 1 \in Validated /\ (proc.best = 0 \/ m < curve[proc.run][proc.best])
                 b == IF i THEN n + 1 ELSE proc.best
                 s == IF i THEN 0
                      ELSE IF n + 1 \in Validated THEN proc.stale + 1 ELSE proc.stale
      <4>3. proc' = [proc EXCEPT !.pc = "last", !.epoch = n + 1, !.weights = n + 1,
                                 !.improved = i, !.best = b, !.stale = s]
        BY <4>1, <4>2
      <4> HIDE DEF i, b, s
      <4>4. QED
        BY <4>3, Zenon
    <3>3. QED
      BY <3>1, <3>2
  <2>2. /\ proc'.pc = "last" /\ proc'.run = r /\ proc'.limit = limit
        /\ proc'.flag = proc.flag /\ proc'.epoch = n + 1
    BY <1>0, <1>a, <2>1 DEF Processes
  <2>3. last[r] = n /\ ~Ended(r)
    BY <1>0, <2>1 DEF IInv, EngineInv, Placed, EndInv, ProcEnd, Running
  <2>4. Unstopped(curve[r], n)
    BY <1>0, <1>a, <2>1, <2>3, NotWorkedOn DEF EndInv, RunEnd
  <2>5. Unstopped(curve'[r], n)
    <3>1. \A v \in Validated : v <= n => v \in Nat /\ v # n + 1
      BY <1>a, ValidatedPositive
    <3>2. \A v \in Validated : v <= n => curve[r][v] = curve'[r][v]
      <4>1. CASE curve' = curve
        BY <4>1
      <4>2. CASE \E m : curve' = [curve EXCEPT ![r][n + 1] = m]
        <5>1. PICK m : curve' = [curve EXCEPT ![r][n + 1] = m]
          BY <4>2
        <5>2. curve'[r] = [curve[r] EXCEPT ![n + 1] = m]
          BY <1>a, <5>1 DEF EngineTypeOK
        <5>3. QED
          BY <1>a, <3>1, <5>2 DEF Curves
      <4>3. QED
        BY <2>1, <4>1, <4>2
    <3>3. n \in Int
      BY <1>a
    <3>4. QED
      BY <1>a, <2>4, <3>2, <3>3, UnstoppedAgreement
  <2>6. n + 1 <= StopAt(curve'[r], limit)
    BY <1>a, <2>1, <2>5, StopBeyond
  <2>7. QED
    BY <1>0, <1>3, <1>b, <1>d, <2>2, <2>6, WorkStep
<1>4. CASE proc'.pc # "down" /\ (PointLast \/ PointBest \/ Prune)
  <2>1. \E pc \in {"best", "prune", "log"} : proc' = [proc EXCEPT !.pc = pc]
    BY <1>4, Zenon DEF PointLast, PointBest, Prune, Goes
  <2>2. /\ proc'.pc \in {"best", "prune", "log"} /\ proc'.run = r /\ proc'.limit = limit
        /\ proc'.flag = proc.flag
    BY <1>0, <1>a, <2>1 DEF Processes
  <2>3. QED
    BY <1>0, <1>4, <1>b, <1>d, <2>2, WorkStep
<1>5. CASE proc'.pc # "down" /\ Log
  <2>a. /\ UNCHANGED <<curve, last>> /\ proc.pc = "log" /\ last[r] = n
        /\ proc.stale = StaleAt(curve[r], n)
    BY <1>0, <1>5 DEF Log, IInv, EngineInv, Placed, ProgressInv, InStep, Running
  <2>1. CASE StopsEarly /\ proc' = [proc EXCEPT !.pc = "record", !.status = "EARLY_STOPPED"]
    <3>1. /\ proc'.pc = "record" /\ proc'.run = r /\ proc'.limit = limit
          /\ proc'.flag = proc.flag
      BY <1>0, <1>a, <2>1 DEF Processes
    <3>2. StopAt(curve[r], limit) <= n
      BY <1>a, <2>a, <2>1, StopBefore DEF StopsEarly
    <3>3. QED
      BY <1>0, <1>5, <1>b, <1>d, <2>a, <3>1, <3>2, WorkStep
  <2>2. CASE proc' = [proc EXCEPT !.pc = "train"]
    <3>1. /\ proc'.pc = "train" /\ proc'.run = r /\ proc'.limit = limit
          /\ proc'.flag = proc.flag
      BY <1>0, <1>a, <2>2 DEF Processes
    <3>2. QED
      BY <1>0, <1>5, <1>b, <1>d, <3>1, WorkStep
  <2>3. QED
    BY <1>5, <1>e, <2>1, <2>2, Zenon DEF Log, Leaves, Goes
<1>6. CASE proc'.pc # "down" /\ LoopEnds
  <2>1. /\ UNCHANGED <<curve, last>> /\ last[r] = n /\ n >= limit
        /\ \E st : proc' = [proc EXCEPT !.pc = "record", !.status = st]
    BY <1>0, <1>6, Zenon DEF LoopEnds, Leaves, disk, IInv, EngineInv, Placed
  <2>2. /\ proc'.pc = "record" /\ proc'.run = r /\ proc'.limit = limit
        /\ proc'.flag = proc.flag
    BY <1>0, <1>a, <2>1 DEF Processes
  <2>3. StopAt(curve[r], limit) <= n
    BY <1>a, <2>1, StopBefore
  <2>4. QED
    BY <1>0, <1>6, <1>b, <1>d, <2>1, <2>2, <2>3, WorkStep
<1>7. CASE proc'.pc # "down" /\ (Record \/ Restore)
  <2>1. /\ UNCHANGED <<curve, last>> /\ proc.pc \in {"record", "restore"}
        /\ \E pc \in {"restore", "returned"} :
              \/ proc' = [proc EXCEPT !.pc = pc]
              \/ \E w : proc' = [proc EXCEPT !.pc = pc, !.weights = w]
    <3>1. UNCHANGED <<curve, last>> /\ proc.pc \in {"record", "restore"}
      BY <1>7 DEF Record, Restore, disk
    <3>2. CASE Record
      BY <3>1, <3>2, Zenon DEF Record, Goes
    <3>3. CASE Restore
      BY <1>7, <1>c, <3>1, <3>3, Zenon DEF Restore, Raises
    <3>4. QED
      BY <1>7, <3>2, <3>3
  <2>2. /\ proc'.pc \in {"restore", "returned"} /\ proc'.run = r /\ proc'.limit = limit
        /\ proc'.flag = proc.flag
    BY <1>0, <1>a, <2>1 DEF Processes
  <2>3. StopAt(curve[r], limit) <= last[r]
    BY <1>0, <2>1 DEF SelectionInv, WorkInv, Reached
  <2>4. QED
    BY <1>0, <1>7, <1>b, <1>d, <2>1, <2>2, <2>3, WorkStep
<1>8. QED
  BY <1>b, <1>1, <1>2, <1>3, <1>4, <1>5, <1>6, <1>7 DEF Engine

LEMMA NoneCollected ==
    ASSUME suite' = NoSuite
    PROVE  DecidedInv' /\ CollectedInv'
<1>1. suite'.stage = 0
  BY DEF NoSuite
<1>2. QED
  BY <1>1 DEF DecidedInv, CollectedInv

LEMMA DecidedKept ==
    ASSUME SelectionInv, Untouched, Onward, suite'.stage = suite.stage,
           suite'.decided = suite.decided
    PROVE  DecidedInv' /\ Field' = Field /\ Limit' = Limit
<1>1. Field' = Field /\ Limit' = Limit
  BY DEF Field, Limit
<1>2. CASE suite.stage = 2
  BY <1>1, <1>2, StageOneOnward DEF SelectionInv, DecidedInv
<1>3. CASE suite.stage = 3
  BY <1>1, <1>3, StageTwoOnward DEF SelectionInv, DecidedInv
<1>4. CASE suite.stage \notin {2, 3}
  BY <1>1, <1>4 DEF SelectionInv, DecidedInv
<1>5. QED
  BY <1>1, <1>2, <1>3, <1>4

LEMMA FieldRuns ==
    ASSUME IInv, suite.stage # 0
    PROVE  StageRuns(Field, suite.stage) \subseteq Runs /\ suite.stage \in 1..3
<1>1. suite \in Suites
  BY DEF IInv, SuiteInv
<1>2. suite.stage \in 1..3
  BY <1>1 DEF Suites
<1>3. Field \in SUBSET Candidates
  BY <1>1 DEF Suites, Decisions, Field
<1>4. QED
  BY <1>2, <1>3, StageRunsType

LEMMA SuiteKept ==
    ASSUME IInv, SelectionInv, Untouched, Onward, suite' = suite,
           \A r \in Runs : r # proc.run \/ proc.pc \notin {"train", "last"}
              => curve'[r] = curve[r] /\ last'[r] = last[r]
    PROVE  DecidedInv' /\ CollectedInv'
<1>1. DecidedInv' /\ Field' = Field /\ Limit' = Limit
  BY DecidedKept
<1>2. ASSUME suite.stage # 0, NEW r \in StageRuns(Field, suite.stage) \ suite.left
      PROVE  Collected(r)'
  <2>1. r \in Runs /\ Collected(r)
    BY <1>2, FieldRuns DEF SelectionInv, CollectedInv
  <2>2. r # proc.run \/ proc.pc \notin {"train", "last"}
    BY <1>2 DEF SelectionInv, WorkInv, Working, Running
  <2>3. curve'[r] = curve[r] /\ last'[r] = last[r]
    BY <2>1, <2>2
  <2>4. QED
    BY <1>1, <2>1, <2>3 DEF Collected, Reached
<1>3. QED
  BY <1>1, <1>2 DEF SelectionInv, CollectedInv, StageRuns

LEMMA LoggedIs ==
    ASSUME EngineTypeOK, EndInv, Untouched, NEW r \in Runs, proc.pc = "returned", Logged(r) # {}
    PROVE  /\ ValidationMetric(r) = Evidence(curve[r], last[r])
           /\ \E v \in Validated : v <= last[r]
<1>1. Unlogged(r) = {} /\ "row" \notin lapsed[r]
  BY NotWorkedOn DEF Untouched
<1>2. \A v \in Validated : rows[r][v] = IF v <= last[r] THEN 1 ELSE 0
  BY <1>1 DEF EndInv, RunLogged
<1>3. Logged(r) = {v \in Validated : v <= last[r]}
  BY <1>2 DEF Logged
<1>4. QED
  BY <1>3 DEF ValidationMetric, Evidence

LEMMA CollectSelection ==
    ASSUME IInv, EndInv, SelectionInv, Untouched, Onward, Collect
    PROVE  DecidedInv' /\ CollectedInv' /\ WorkInv'
<1>0. PICK r : r = proc.run
  OBVIOUS
<1>a. /\ EngineTypeOK /\ proc \in Processes /\ r \in Runs /\ suite \in Suites
      /\ proc.pc = "returned" /\ UNCHANGED <<curve, last>>
  BY <1>0, Parts DEF IInv, SuiteInv, EngineInv, EngineTypeOK, Collect, disk
<1>1. CASE Logged(r) = {}
  <2>1. suite' = NoSuite /\ proc'.pc = "down"
    BY <1>0, <1>1 DEF Collect, Raises, Down
  <2>2. QED
    BY <2>1, NoneCollected, WorkEnds
<1>2. CASE Logged(r) # {}
  <2>1. /\ suite' = [suite EXCEPT !.left = @ \ {r}, !.seen[r] = ValidationMetric(r)]
        /\ proc'.pc = "suite"
    BY <1>0, <1>a, <1>2 DEF Collect, Goes, Processes
  <2>2. /\ suite'.stage = suite.stage /\ suite'.decided = suite.decided
        /\ suite'.left = suite.left \ {r}
        /\ suite'.seen[r] = ValidationMetric(r)
        /\ \A q \in Runs : q # r => suite'.seen[q] = suite.seen[q]
    BY <1>a, <2>1 DEF Suites
  <2>3. DecidedInv' /\ Field' = Field /\ Limit' = Limit
    BY <2>2, DecidedKept
  <2>4. Reached(r, Limit) /\ r \in suite.left
    BY <1>0, <1>a DEF SelectionInv, WorkInv, Working
  <2>5. Collected(r)'
    BY <1>a, <1>2, <2>2, <2>3, <2>4, LoggedIs DEF Collected, Reached
  <2>6. ASSUME suite.stage # 0, NEW q \in StageRuns(Field, suite.stage) \ suite.left
        PROVE  Collected(q)'
    <3>1. q \in Runs /\ Collected(q) /\ q # r
      BY <2>4, <2>6, FieldRuns DEF SelectionInv, CollectedInv
    <3>2. QED
      BY <1>a, <2>2, <2>3, <3>1 DEF Collected, Reached
  <2>7. CollectedInv'
    <3>1. StageRuns(Field, suite.stage)' = StageRuns(Field, suite.stage)
      BY <2>2, <2>3 DEF StageRuns
    <3>2. QED
      BY <2>2, <2>5, <2>6, <3>1 DEF SelectionInv, CollectedInv
  <2>8. QED
    BY <2>1, <2>3, <2>7, WorkEnds
<1>3. QED
  BY <1>1, <1>2

LEMMA DecideSelection ==
    ASSUME IInv, EndInv, SelectionInv, Untouched, Onward, Decide
    PROVE  DecidedInv' /\ CollectedInv' /\ WorkInv' /\ TraceInv'
<1> DEFINE d == Decided(suite.stage, suite.decided, suite.seen)
<1>a. /\ suite \in Suites /\ proc.pc = "suite" /\ suite.left = {} /\ suite.stage \in 1..3
  BY DEF Decide, IInv, SuiteInv
<1>1. CASE suite.stage < 3
  <2>1. /\ suite' = [suite EXCEPT !.stage = suite.stage + 1, !.decided = d,
                       !.left = StageRuns(IF suite.stage = 1 THEN d.survivors ELSE d.finalists,
                                          suite.stage + 1)]
        /\ proc' = proc /\ trace' = trace
    BY <1>1 DEF Decide
  <2>2. /\ suite'.stage = suite.stage + 1 /\ suite'.decided = d
        /\ suite'.left = StageRuns(IF suite.stage = 1 THEN d.survivors ELSE d.finalists,
                                   suite.stage + 1)
    BY <1>a, <2>1 DEF Suites
  <2>3. WorkInv'
    BY <1>a, <2>1, WorkEnds
  <2>4. TraceInv'
    BY <2>1, AllOnward DEF SelectionInv, TraceInv
  <2>5. CollectedInv'
    <3>1. suite.stage = 1 \/ suite.stage = 2
      BY <1>a, <1>1
    <3>2. suite'.left = StageRuns(Field, suite.stage)'
      <4>1. Field' = IF suite.stage = 1 THEN d.survivors ELSE d.finalists
        BY <2>2, <3>1 DEF Field
      <4>2. QED
        BY <2>2, <4>1 DEF StageRuns
    <3>3. QED
      BY <3>2 DEF CollectedInv
  <2>6. DecidedInv'
    <3>1. CASE suite.stage = 1
      <4>1. StageOneDone /\ d = First
        BY <1>a, <3>1, DecideOne DEF SelectionInv, DecidedInv
      <4>2. QED
        BY <2>2, <3>1, <4>1, StageOneOnward DEF DecidedInv
    <3>2. CASE suite.stage = 2
      <4>1. StageTwoDone /\ d = Second
        BY <1>a, <3>2, DecideTwo DEF SelectionInv, DecidedInv
      <4>2. QED
        BY <2>2, <3>2, <4>1, StageTwoOnward DEF DecidedInv
    <3>3. QED
      BY <1>a, <1>1, <3>1, <3>2
  <2>7. QED
    BY <2>3, <2>4, <2>5, <2>6
<1>2. CASE ~(suite.stage < 3)
  <2>1. suite.stage = 3
    BY <1>a, <1>2
  <2>2. trace' = d /\ suite' = NoSuite /\ proc'.pc = "down"
    BY <1>2 DEF Decide, Raises, Down
  <2>3. AllDone /\ d = Reference
    BY <1>a, <2>1, DecideThree DEF SelectionInv, DecidedInv
  <2>4. TraceInv'
    BY <2>2, <2>3, AllOnward DEF TraceInv
  <2>5. QED
    BY <2>2, <2>4, NoneCollected, WorkEnds
<1>3. QED
  BY <1>1, <1>2

LEMMA LaunchSelection ==
    ASSUME IInv, SelectionInv, Untouched, Onward, Launch \/ Call,
           \A r \in Runs : r # proc.run \/ proc.pc \notin {"train", "last"}
              => curve'[r] = curve[r] /\ last'[r] = last[r]
    PROVE  DecidedInv' /\ CollectedInv' /\ WorkInv'
<1>a. Down \in Processes /\ ~Down.flag
  BY RunsExist, DownType DEF Down
<1>1. CASE Launch
  <2>1. /\ proc' = [Down EXCEPT !.pc = "suite"]
        /\ suite' = [NoSuite EXCEPT !.stage = 1, !.left = StageRuns(Candidates, 1)]
    BY <1>1 DEF Launch
  <2>2. proc'.pc = "suite"
    BY <1>a, <2>1 DEF Processes
  <2>3. /\ suite'.stage = 1 /\ suite'.left = StageRuns(Candidates, 1)
        /\ suite'.decided = Undecided
    BY <2>1 DEF NoSuite
  <2>4. Field' = Candidates
    BY <2>3 DEF Field
  <2>5. CollectedInv'
    BY <2>3, <2>4 DEF CollectedInv, StageRuns
  <2>6. QED
    BY <2>2, <2>3, <2>5, WorkEnds DEF DecidedInv
<1>2. CASE Call
  <2>1. suite' = suite
    BY <1>2 DEF Call
  <2>2. PICK r \in suite.left : proc' = [Down EXCEPT !.pc = "open", !.run = r, !.limit = Limit]
    BY <1>2, Zenon DEF Call, Limit
  <2>3. proc'.pc = "open" /\ proc'.run = r /\ proc'.limit = Limit /\ ~proc'.flag
    BY <1>a, <2>2 DEF Processes
  <2>4. Limit' = Limit
    BY <2>1 DEF Limit
  <2>5. WorkInv'
    BY <2>1, <2>3, <2>4 DEF WorkInv
  <2>6. QED
    BY <2>1, <2>5, SuiteKept
<1>3. QED
  BY <1>1, <1>2

LEMMA SelectionInit == Init => SelectionInv
<1> SUFFICES ASSUME Init PROVE SelectionInv
    OBVIOUS
<1>1. proc.pc = "down" /\ suite.stage = 0 /\ trace = Undecided
  BY DEF Init, EngineInit, Down, NoSuite
<1>2. DecidedInv /\ CollectedInv /\ WorkInv /\ TraceInv
  BY <1>1 DEF DecidedInv, CollectedInv, WorkInv, Working, Running, TraceInv
<1>3. AheadInv
  <2> SUFFICES ASSUME NEW c \in Candidates PROVE ~(StopAt(curve[StageRun(c)], Stage1Limit) < last[StageRun(c)])
      BY DEF AheadInv
  <2>1. last[StageRun(c)] = 0
    BY SelectionConstants DEF Init, EngineInit
  <2>2. PICK s : s = StopAt(curve[StageRun(c)], Stage1Limit)
    OBVIOUS
  <2>3. s \in Nat
    BY <2>2, StopIs, SelectionConstants
  <2>4. QED
    BY <2>1, <2>2, <2>3
<1>4. QED
  BY <1>2, <1>3 DEF SelectionInv

LEMMA SelectionStep ==
    ASSUME IInv, IInv', ProgressInv, EndInv, SelectionInv, [Next]_selectionVars
    PROVE  SelectionInv'
<1> SUFFICES ASSUME Untouched'
             PROVE  (AheadInv /\ DecidedInv /\ CollectedInv /\ WorkInv /\ TraceInv)'
    BY DEF SelectionInv
<1>1. Untouched /\ ~Signal
  BY UntouchedBefore
<1>2. Onward /\ \A r \in Runs : r # proc.run \/ proc.pc \notin {"train", "last"}
                   => curve'[r] = curve[r] /\ last'[r] = last[r]
  BY StepOnward
<1>3. AheadInv'
  BY <1>1, <1>2, AheadStep
<1>4. ASSUME trace' = trace PROVE TraceInv'
  BY <1>1, <1>2, <1>4, AllOnward DEF SelectionInv, TraceInv
<1>5. CASE EngineStep
  <2>1. trace' = trace /\ (suite' = suite \/ suite' = NoSuite)
    BY <1>5 DEF EngineStep, Forgotten
  <2>2. DecidedInv' /\ CollectedInv'
    BY <1>1, <1>2, <2>1, SuiteKept, NoneCollected
  <2>3. WorkInv'
    BY <1>1, <1>5, WorkEngine
  <2>4. QED
    BY <1>3, <1>4, <2>1, <2>2, <2>3
<1>6. CASE Crash /\ Interruption
  <2>1. trace' = trace /\ proc'.pc = "down" /\ suite' = NoSuite
    BY <1>6 DEF Interruption, Forgotten, Crash, Down
  <2>2. QED
    BY <1>3, <1>4, <2>1, NoneCollected, WorkEnds
<1>7. CASE Launch \/ Call
  <2>1. trace' = trace
    BY <1>7 DEF Launch, Call
  <2>2. QED
    BY <1>1, <1>2, <1>3, <1>4, <1>7, <2>1, LaunchSelection
<1>8. CASE Collect
  <2>1. trace' = trace
    BY <1>8 DEF Collect
  <2>2. QED
    BY <1>1, <1>2, <1>3, <1>4, <1>8, <2>1, CollectSelection
<1>9. CASE Decide
  BY <1>1, <1>2, <1>3, <1>9, DecideSelection
<1>10. CASE UNCHANGED selectionVars
  <2>1. proc' = proc /\ suite' = suite /\ trace' = trace /\ curve' = curve /\ last' = last
    BY <1>10 DEF selectionVars, vars, disk
  <2>2. DecidedInv' /\ CollectedInv'
    BY <1>1, <1>2, <2>1, SuiteKept
  <2>3. Limit' = Limit /\ \A r, n : Reached(r, n)' <=> Reached(r, n)
    BY <2>1 DEF Limit, Reached
  <2>4. WorkInv'
    BY <1>1, <2>1, <2>3 DEF SelectionInv, WorkInv
  <2>5. QED
    BY <1>3, <1>4, <2>1, <2>2, <2>4
<1>11. QED
  BY <1>1, <1>5, <1>6, <1>7, <1>8, <1>9, <1>10 DEF Next, Works, Interruption

(* A selection that was killed and started again, in whichever stage and   *)
(* however often, selects what an undisturbed one does on the same curves, *)
(* for every set of candidates and axes, every limit and every number of   *)
(* survivors: what later stages have logged only improves candidates that  *)
(* the first stage has kept.  Excepted are signals, which cut a run short, *)
(* and deaths that lose a row of a log or the end of a run.                *)
THEOREM SelectionsAreReproducible == Spec => []SelectionIsReproducible
<1>1. IInv /\ ProgressInv /\ EndInv /\ [Next]_selectionVars => ProgressInv' /\ EndInv'
  BY ProgressStep, EndStep
<1>2. IInv /\ IInv' /\ ProgressInv /\ EndInv /\ SelectionInv /\ [Next]_selectionVars
         => SelectionInv'
  BY SelectionStep
<1>3. SelectionInv => SelectionIsReproducible
  BY DEF SelectionInv, Untouched, TraceInv, SelectionIsReproducible
<1>4. QED
  BY InitInv, StepInv, ProgressInit, EndInit, SelectionInit, <1>1, <1>2, <1>3, PTL DEF Spec
=============================================================================
