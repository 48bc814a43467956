------------------------------ MODULE MatrSuite ------------------------------
(***************************************************************************)
(* The matrix of MATR runs (training/orchestrator.py), for the models that *)
(* the training engine trains.  Each run is trained and then evaluated on  *)
(* the test cells; its metrics are published with a manifest, and a run    *)
(* with a manifest is not called again.                                    *)
(***************************************************************************)
EXTENDS TrainingRun

VARIABLES
    left,       \* runs that the process has still to do
    manifest    \* run_manifest.json: the runs that have one

suiteVars == <<vars, left, manifest>>

Init == EngineInit /\ left = {} /\ manifest = {}

SameDisk == UNCHANGED <<curve, disk, lapsed, crashes, signals>>

Launch ==
    /\ proc.pc = "down"
    /\ proc' = [Down EXCEPT !.pc = "suite"] /\ left' = Runs
    /\ SameDisk /\ UNCHANGED manifest

(* _load_completed_run: what was published is read again.                  *)
Skip ==
    /\ proc.pc = "suite"
    /\ \E r \in left \cap manifest : left' = left \ {r}
    /\ SameDisk /\ UNCHANGED <<proc, manifest>>

Call ==
    /\ proc.pc = "suite"
    /\ \E r \in left \ manifest :
          proc' = [Down EXCEPT !.pc = "open", !.run = r, !.limit = MaxEpochs]
    /\ SameDisk /\ UNCHANGED <<left, manifest>>

(* Whatever the engine has returned is evaluated and published.            *)
Publish ==
    /\ proc.pc = "returned"
    /\ manifest' = manifest \cup {proc.run}
    /\ left' = left \ {proc.run}
    /\ Goes("suite")
    /\ SameDisk

Aggregate ==
    /\ proc.pc = "suite" /\ left = {}
    /\ proc' = Down
    /\ SameDisk /\ UNCHANGED <<left, manifest>>

Next ==
    \/ Launch \/ Skip \/ Call \/ Publish \/ Aggregate
    \/ (Engine \/ Signal \/ Crash) /\ UNCHANGED <<left, manifest>>

Spec == Init /\ [][Next]_suiteVars
-----------------------------------------------------------------------------
(* What the runbook says of an interruption with Ctrl-C: the same command  *)
(* resumes the interrupted model from its last checkpoint.  A run that the *)
(* engine has recorded as INTERRUPTED can then not be published: it would  *)
(* be skipped.  _run_one does not look at the status.                      *)
InterruptedIsResumed == \A r \in manifest : result[r].status # "INTERRUPTED"
=============================================================================
