--------------------------- MODULE ModelSelection ---------------------------
(***************************************************************************)
(* The selection of model candidates (training/advanced_orchestrator.py    *)
(* and advanced_selection.py), for one family.  Stage 1 trains every       *)
(* candidate up to a first limit, stage 2 trains the better half on, in    *)
(* the same run directories, and the finalists are trained again on every  *)
(* axis of a grid, after which the best one is selected.  The suite has no *)
(* state of its own on disk before the end: a process that is started      *)
(* again runs all stages from the first, over directories in which later   *)
(* stages have already trained, and must come to the same decisions.       *)
(***************************************************************************)
EXTENDS TrainingRun

CONSTANTS
    Candidates,     \* of the family; their identifiers are ordered
    Axes,           \* grid of the recheck
    Stage1Limit,    \* epoch limit of stage 1
    Finalists       \* candidates that stage 2 keeps at most

ASSUME SelectionAssumption ==
    /\ Candidates \subseteq Nat /\ Candidates # {} /\ IsFiniteSet(Candidates)
    /\ IsFiniteSet(Axes)
    /\ Stage1Limit \in Epochs /\ Finalists \in Nat \ {0}

ASSUME RunDirectories == Runs = Candidates \X (Axes \cup {"stage"})

VARIABLES
    suite,      \* local variables of _execute_selection
    trace       \* selection_manifest.json: the decisions of each stage

selectionVars == <<vars, suite, trace>>

Undecided == [survivors |-> {}, finalists |-> {}, selected |-> {}]
NoSuite == [stage |-> 0, left |-> {}, seen |-> [r \in Runs |-> 0], decided |-> Undecided]

Init == EngineInit /\ suite = NoSuite /\ trace = Undecided

StageRuns(candidates, stage) ==
    candidates \X (IF stage = 3 THEN Axes ELSE {"stage"})

(* A process is started; also after the selection is done.                 *)
Launch ==
    /\ proc.pc = "down"
    /\ proc' = [Down EXCEPT !.pc = "suite"]
    /\ suite' = [NoSuite EXCEPT !.stage = 1, !.left = StageRuns(Candidates, 1)]
    /\ UNCHANGED <<curve, disk, lapsed, crashes, signals, trace>>

(* The runs of a stage are trained in order.                               *)
Call ==
    /\ proc.pc = "suite" /\ suite.left # {}
    /\ \E r \in suite.left :
          /\ \A q \in suite.left : r[1] <= q[1]
          /\ proc' = [Down EXCEPT !.pc = "open", !.run = r,
                         !.limit = IF suite.stage = 1 THEN Stage1Limit ELSE MaxEpochs]
    /\ UNCHANGED <<curve, disk, lapsed, crashes, signals, suite, trace>>

Logged(r) == {v \in Validated : rows[r][v] > 0}

(* Deviation: the latest validation counts.                                *)
LatestMetric(r) == curve[r][Max(Logged(r))]

(* _validation_metric: the best validation in the log, whichever stage     *)
(* has logged it.                                                          *)
ValidationMetric(r) == Min({curve[r][v] : v \in Logged(r)})

(* The evidence of a run that has returned, whatever its status; without a *)
(* validation it is missing, and the process ends.                         *)
Collect ==
    LET r == proc.run IN
    /\ proc.pc = "returned"
    /\ IF Logged(r) = {} THEN Raises /\ suite' = NoSuite
       ELSE /\ Goes("suite")
            /\ suite' = [suite EXCEPT !.left = @ \ {r}, !.seen[r] = ValidationMetric(r)]
    /\ UNCHANGED <<curve, disk, lapsed, crashes, signals, trace>>

(* _rank_stage: the first n by metric and identifier.                      *)
Ranked(candidates, metric, n) ==
    {c \in candidates :
       Cardinality({d \in candidates : metric[d] < metric[c]
                                       \/ (metric[d] = metric[c] /\ d < c)}) < n}
Half(n) == (n + 1) \div 2

(* What a candidate has achieved on the axes, one seed each.               *)
Scores(c, metric) == [a \in Axes |-> metric[<<c, a>>]]

Degradation(scores) == Max(Range(scores)) - Min(Range(scores))
Squares(scores) == SumFunction([a \in Axes |-> scores[a] * scores[a]])

(* _recheck_rank: mean, degradation and stability over the axes, then the  *)
(* identifier.  Equal numbers of equal sum compare in their deviation as   *)
(* their squares do.                                                       *)
Better(c, d, metric) ==
    LET s == Scores(c, metric)
        t == Scores(d, metric)
    IN
    \/ SumFunction(s) < SumFunction(t)
    \/ /\ SumFunction(s) = SumFunction(t)
       /\ \/ Degradation(s) < Degradation(t)
          \/ /\ Degradation(s) = Degradation(t)
             /\ \/ Squares(s) < Squares(t)
                \/ Squares(s) = Squares(t) /\ c < d

Selected(finalists, metric) ==
    {c \in finalists : \A d \in finalists \ {c} : Better(c, d, metric)}

StageMetric(metric) == [c \in Candidates |-> metric[<<c, "stage">>]]

(* What the evidence of a stage decides.                                   *)
Decided(stage, decided, metric) ==
    CASE stage = 1 -> [decided EXCEPT !.survivors =
                          Ranked(Candidates, StageMetric(metric), Half(Cardinality(Candidates)))]
      [] stage = 2 -> [decided EXCEPT !.finalists =
                          Ranked(decided.survivors, StageMetric(metric), Finalists)]
      [] stage = 3 -> [decided EXCEPT !.selected = Selected(decided.finalists, metric)]

(* The end of a stage: the next one, or the manifest and the end.          *)
Decide ==
    LET stage == suite.stage
        decided == Decided(stage, suite.decided, suite.seen)
    IN
    /\ proc.pc = "suite" /\ suite.left = {}
    /\ IF stage < 3
         THEN /\ suite' = [suite EXCEPT !.stage = stage + 1, !.decided = decided,
                             !.left = StageRuns(IF stage = 1 THEN decided.survivors
                                                ELSE decided.finalists, stage + 1)]
              /\ UNCHANGED <<proc, trace>>
         ELSE trace' = decided /\ suite' = NoSuite /\ Raises
    /\ UNCHANGED <<curve, disk, lapsed, crashes, signals>>
-----------------------------------------------------------------------------
(* The suite's variables are lost with the process.                        *)
Forgotten == suite' = (IF proc'.pc = "down" THEN NoSuite ELSE suite)

EngineStep == Engine /\ Forgotten /\ UNCHANGED trace
Interruption == (Signal \/ Crash) /\ Forgotten /\ UNCHANGED trace

Works == Call \/ Collect \/ Decide \/ EngineStep
Next == Launch \/ Works \/ Interruption

Spec == Init /\ [][Next]_selectionVars

(* A process goes on, and the operator starts the command again.           *)
FairSpec == Spec /\ WF_selectionVars(Works) /\ WF_selectionVars(Launch)
-----------------------------------------------------------------------------
Decisions ==
    [survivors : SUBSET Candidates, finalists : SUBSET Candidates,
     selected : SUBSET Candidates]

TypeOK ==
    /\ EngineTypeOK
    /\ suite \in [stage : 0..3, left : SUBSET Runs, seen : [Runs -> Metrics \cup {0}],
                  decided : Decisions]
    /\ trace \in Decisions

(* The evidence of a run that nothing ever disturbed.                      *)
Untroubled(r, limit) ==
    LET seen == {v \in Validated : v <= StopAt(curve[r], limit)} IN
    IF seen = {} THEN 0 ELSE Min({curve[r][v] : v \in seen})

Reference ==
    LET first == [r \in Runs |-> Untroubled(r, Stage1Limit)]
        full == [r \in Runs |-> Untroubled(r, MaxEpochs)]
    IN Decided(3, Decided(2, Decided(1, Undecided, first), full), full)

(* A selection that was killed and started again, however often and in     *)
(* whichever stage, selects what an undisturbed one does, although the     *)
(* evidence of its first stage then holds what later stages have logged -  *)
(* unless a signal has cut a run short, or a death has lost a row of a log *)
(* or the end of a run.                                                    *)
SelectionIsReproducible ==
    trace # Undecided /\ signals = 0 /\ (\A r \in Runs : {"row", "stop"} \cap lapsed[r] = {})
      => trace = Reference

(* Every selection is finished, however often it is killed, unless a death *)
(* leaves a checkpoint that can neither be resumed from nor saved again,   *)
(* or takes the only row of a log that its stage would have.               *)
SelectionSettles ==
    <>(trace # Undecided \/ \E r \in Runs : {"stuck", "row"} \cap lapsed[r] # {})
=============================================================================
