# Verification of the battery-life platform's durable protocols

TLA+ models, TLC configurations and TLAPS proofs for the parts of the platform
that have to stay correct while several processes, a broker, a database and
human decisions interleave, or when a process is killed between two writes. Paths are relative to `src/`; `quanxin_life/x` means
`src/quanxin_life/x` inside it.

- `tlasany M.tla` parses, `tlc -config X.cfg MC….tla` checks, `tlapm M.tla` proves.
- `PROJECT.json` maps every definition to the lines it models, and lists runs,
  mutants, hazards, findings and theorems.

## 1. Inventory of the system

A FastAPI server, PostgreSQL, Redis with Celery workers, a Feishu/Aily chat
integration and a Next.js front end estimate the life of battery cells. Most of
the code is numeric (models, training, tools, metrics); the logic that is hard
to test is in a few durable protocols.

| Component | State it keeps | Operations | Interacts with | Modelled |
|---|---|---|---|---|
| Agent run service (`application/agent_runs.py`) | `agent_runs`, `agent_steps`, dispatch record, approvals, event log | create, dispatch, request approval, approve, reject, cancel, reads | API, broker, worker | `AgentRun` |
| Agent run execution (`application/agent_run_execution.py`, `tasks/agent_runs.py`, `agents/execution_adapter.py`) | the same rows, tool results, worker memory | one message carries a run through load, restore, compile, freeze, gate, claim, run, persist, fail, complete | broker, service, grants, ledger | `AgentRun` |
| Invocation grants (`application/agent_run_invocation.py`) | none; reads rows twice | resolve a grant, revalidate it in the commit | ledger | `AgentRun` (`Resolve`, `LiveScope`) |
| Calibration materialization (`application/advanced_calibration_jobs.py`, `tasks/advanced_calibration.py`, `infrastructure/calibration_queue.py`) | materialization rows, samples, claim, heartbeat thread | create, get, list, enqueue, claim, renew, produce, commit, fail | API, broker, ledger, route ledger | `Calibration` |
| Project audit ledger (`audit/sql_project_ledger.py`) | results, scopes, bindings | the two commits that join a result to its owner; registration; reads | both workers, Feishu | partly |
| Model route activation (`application/model_route_activation.py`) | append-only decisions, stream heads | activate, rollback, list, resolve | API, calibration, tools | `RouteActivation` |
| Feishu callbacks and receipts (`api/feishu.py`, `integrations/feishu/events.py`, `sqlalchemy_receipts.py`) | the receipt columns of the row of an event: status, claim, lease | claim, stage the job, enqueue, mark dispatched, acknowledge or release | Feishu, jobs, broker | `FeishuJob` |
| Feishu jobs (`integrations/feishu/jobs.py`, `report_delivery.py`, `tasks/feishu.py`) | the job columns of the same row: status, attempts, lease, checkpoints; a heartbeat thread | claim, renew, validate, compute, send card, file, table row, checkpoint, retry, reject, fail, finish | Feishu, broker, ledger | `FeishuJob` |
| Feishu job families (`sibling_planner.py`, `jobs.py`) | one job per member of a file's family, frozen inputs of the recommendation | plan and stage siblings, dispatch, freeze, notify | jobs, broker | `FeishuFamily` |
| Training engine (`training/engine.py`, `checkpoint.py`) | run directories: checkpoints, two pointers, logs, `run_status.json` | open or resume, train an epoch, save, point, prune, log, record, restore | suites, signals | `TrainingRun` |
| Model selection (`training/advanced_orchestrator.py`, `advanced_selection.py`) | nothing before `selection_manifest.json` | three stages of runs, ranking, selection | engine | `ModelSelection` |
| MATR matrix (`training/orchestrator.py`) | manifest and metrics of each run | train, evaluate, publish, skip, aggregate | engine | `MatrSuite` |
| Run event stream (`api/agent_runs.py`) | cursor of one SSE client | read events, read status, stop | service | planned |
| API, auth, planning, tools, data, models, metrics, reports, front end, deployment | rows or files of their own, one transaction at a time | – | – | not modelled (section 8) |

What makes each of the modelled components hard:

- **Delivery.** Celery acknowledges late (`task_acks_late`,
  `reject_on_worker_lost`), so a crash or a visibility timeout delivers a message
  again, possibly while its first delivery is still at work.
- **Transactions.** A worker runs a step in about ten transactions and keeps in
  memory what it read in earlier ones. `session_scope`
  (`quanxin_life/persistence/database.py`) commits or rolls back each; every one
  of them locks the run row (or the project row, for calibration and for route
  decisions) first, which is why one action of a model is one transaction. The
  reads of the route ledger lock nothing: there one action is one statement.
- **Leases and fences.** Claims carry a token and an expiry; a worker that comes
  back late must be refused, also when a heartbeat thread renewed the lease.
- **Effects outside the database.** A Feishu job sends cards, files and table rows
  that no rollback takes back; a callback that is not answered 200 comes again.
- **Kills.** A training process has no transactions: it writes a checkpoint, two
  pointers, three logs and a status one after the other, and must be resumed from
  whatever a kill between two of them leaves.
- **People and routes.** Approvals have deadlines, and the active model route may
  move between the freeze of an input, its approval and its execution.

What makes them correct:

- *Agent run*: the log replays to the rows; results follow the plan; a gated step
  runs exactly on what was approved; a step is complete exactly when it owns a
  result; an ended run stays ended; an active claim is respected; a running run
  is somebody's duty and settles.
- *Calibration*: a row carries a claim or samples only in the statuses the schema
  allows; samples are published only for the current decision and are final; an
  unexpired claim is respected; requested evidence is published or failed.
- *Route activation*: decisions form a chain that verification never rejects; at
  most one is made on a head; a repeated request gets its own event; a list is a
  state the ledger had.
- *Feishu job*: an event is answered 200 only when its job is durable and
  dispatched; a finished job stays finished; an unexpired claim is respected; what
  the user was shown fits the end of the job; no part of an answer repeats without
  a fault of its own; an acknowledged job ends.
- *Feishu family*: the recommendation works on the results of the ended family and
  on nothing else; every staged sibling is dispatched by somebody; the family rests.
- *Training*: the pointers resolve; a resumed run has the progress, the end, the log
  and the weights of one that was never interrupted; a restarted selection selects
  what an undisturbed one does, and is finished.
- *Event stream*: a client receives every event exactly once, up to the terminal one.

## 2. Modules

| Module | Role |
|---|---|
| `AgentRun` | one run, its API, workers, broker, clock and drifting context; properties at the end |
| `AgentRunLifecycle` | what a run promises, without workers, leases or messages |
| `MCAgentRun` | TLC instance of `AgentRun` (symmetry of the workers) |
| `AgentRunProofs` | type correctness, `GateHonoured` and `LogTellsState` |
| `AgentRunPlanProofs` | `ResultsFollowPlan`, from the invariant of `AgentRunProofs`; with a context that resolves `NoHalfCommit`, `TerminalIsFinal`, `LeaseRespected` and the refinement of `AgentRunLifecycle`; undisturbed, `SomeoneIsResponsible` |
| `Calibration` | the calibration evidence of one model route |
| `MCCalibration` | TLC instance of `Calibration` |
| `CalibrationProofs` | types, `StatePayload`, `CohortIsFinal`, `LeaseRespected`; where the retries outlast the faults, `SomeoneIsResponsible` |
| `RouteActivation` | the decision ledger of a project's routes: writers and one reader |
| `RouteHead` | what the ledger promises to those who use a route: versions that grow by one, each serving another artifact |
| `MCRouteActivation` | TLC instance of `RouteActivation` (symmetry of the keys) |
| `RouteActivationProofs` | types, `LedgerIsSound`, `OneDecisionPerHead`, `RetryIsAnswered`, `ListedTogether`, the refinement of `RouteHead` |
| `FeishuJob` | one Feishu event: receipt, job, callbacks, workers, heartbeats, broker, and what the user was sent |
| `MCFeishuJob` | TLC instance of `FeishuJob` |
| `FeishuJobProofs` | types, `AcknowledgedIsDispatched`, `TerminalIsFinal`, `LeaseRespected`, `EndIsTold`, `OneRepeatPerFault`; where the retries outlast the faults, `SomeoneIsResponsible` |
| `FeishuFamily` | the jobs of one uploaded file and how they dispatch each other |
| `FeishuFamilyLifecycle` | what a family promises: the life of each member, and one freeze |
| `MCFeishuFamily` | TLC instance of `FeishuFamily` |
| `FeishuFamilyProofs` | types, `RecommendationSeesFamily`, `SomeoneIsResponsible`, the refinement of `FeishuFamilyLifecycle` |
| `TrainingRun` | the training engine and its run directories; no driver of its own |
| `ModelSelection` | extends `TrainingRun` with the suite that selects a model |
| `MatrSuite` | extends `TrainingRun` with the matrix of MATR runs |
| `MCModelSelection` | TLC instance of `ModelSelection` |
| `TrainingProofs` | types and `PointersResolve`, with the engine's inductive invariant |
| `TrainingProgressProofs` | `RunAsUninterrupted` and `SelectionIsReproducible`, from the invariant of `TrainingProofs` |

Definitions whose comment begins with *Deviation* are not part of any next-state
relation. Each is a plausible bug (a dropped fence, a missing retry, an order
swapped) that replaces the definition after it when a property's strength is
tested; `PROJECT.json` pairs them under "mutants".

### AgentRun and the code

| Variable | Code |
|---|---|
| `run`, `step`, `dispatch` | `AgentRun.status`, `AgentStep` rows, `AgentRunDispatch.status` |
| `approval` | `ApprovalRequest` row of a step with its `ApprovalAction` |
| `result` | the `ToolResultRecord` that names the step (unique per step) |
| `events` | `AgentEvent` rows in sequence order |
| `queue` | the Celery queue as counts of messages by retry number |
| `worker` | local variables of `execute`/`advance_once` that outlive a transaction; `pc` names the next transaction |
| `clock`, `context` | the wall clock; what the trusted resolver makes of a step's references |

Claim tokens are uuids in the code; in the model a token is the number of the
attempt that made it, which is as unique. Digests (`execution_snapshot_sha256`,
`plan_hash`, grant signatures) are modelled by what they are compared for: the
frozen input is a version number and two digests are equal when the versions
are. The plan, with its tools, gates and failure policies, is fixed at creation
and hence constants (`NSteps`, `Gated`, `Local`, `RetryOnce`). A `PROJECT` tool
commits through the ledger under a grant (`Resolve`, `CommitResult`); the others
(`Local`) run inside the worker and persist with `PersistResult`.

`Approve`, `Reject`, `Cancel`, `Dispatch` are the service's transactions. The
worker's actions follow `advance_once` from top to bottom; an exception that
reaches `execute_agent_run` acknowledges the message, and only
`AgentRunClaimBusy` retries it (`RetryLater`). `Compile` is the single place
where `_fail_run` is called without a claim token: `ContextMayFail` switches it,
because with it some promises do not hold (section 6).

### Calibration and the code

`row[d]` is the materialization created for decision `d` of the route ledger,
`head` the sequence number of the stream head, `request[c]` an HTTP request
between its transactions, `worker[w]` a worker with its heartbeat thread
(`beating`, `renewed`: what the thread believes; `lease`: what `execute`
believes). `Lookup`, `Resolve`, `Insert`, `Enqueue` are the transactions of
`create` and of the handler after it. `Renew` and `RenewFails` are rounds of the
heartbeat; `FinishProduction` is the return of the producer together with
`heartbeat.stop()`. When a renewal failed, `stop` raises and `execute` continues
with the claim as it was taken, without its renewals, so its `_mark_failed` is
refused by the fence: the model keeps that.

Time is kept in timers that count down. Two leases that still run are the same
instant exactly when their timers are equal, which is all the fence compares,
and the state space stays finite without a bound on time. A tick is the countdown of a
retry; the message rejoins the queue at the next one.

### RouteActivation and the code

| Variable | Code |
|---|---|
| `ledger` | the `ModelRouteActivationEvent` rows of a project in the order of their insertion |
| `head` | `ModelRouteActivationStreamHead.head_event_id` of each route, 0 without a row |
| `source` | the artifacts the server's registry resolves and whose rows match it |
| `reader` | the local variables of one call of `list_events`, `resolve_verified_active_model_route` or `list_verified_active_model_routes`; `pc` names its next statement |

An event's place in the ledger stands for its uuid and for its SHA-256, both
unique, so `previous_event_sha256`, `expected_previous_event_sha256` and
`rollback_target_event_id` are places. Two requests have one `request_sha256`
exactly when they are equal. The user, the reason and the time are part of the
request and left out: nothing is decided on them.

`activate` and `rollback` lock the project row before they read anything
(`_active_project`), so each is one action; a refused or repeated request
changes nothing and is what `Answer` says of it rather than an action. Because
of that lock the handler of `IntegrityError` cannot be reached on PostgreSQL.
The readers run under READ COMMITTED, which is what `create_engine` leaves
(`persistence/database.py` sets no isolation): `seen` is the prefix of
the ledger that the statement selecting the events saw, and the heads are those
of the later statement. `Confirm` is the second transaction of a resolution,
which does lock the project. `list` calls `resolve` for each route of its snapshot and ends
with `Compare`. The order of the routes is left open.

`Calibration` sees one route of this ledger as a number that grows (`RouteMoves`);
`RouteHead` is the abstract form of that, and `ImplementsRouteHead` shows that the
ledger provides it.

### FeishuJob and the code

| Variable | Code |
|---|---|
| `receipt`, `job` | the receipt and the job columns of one `FeishuEventReceipt` row |
| `queue` | messages of the job by Celery retry number, and whether a countdown runs |
| `handler[h]` | a callback request: the next transaction and the claim token it holds |
| `worker[w]` | a worker's local variables, and `beat`, its heartbeat thread |
| `sent` | how often each part of the answer reached Feishu (not in the code; what the user sees) |

`Callback`, `Stage`, `Enqueue`, `MarkDispatched`, `MarkProcessed` and `MarkFailed`
are the transactions and the call to the broker of one request; `CallbackFails` is an
exception in any of them. A worker's actions follow `execute` and
`_execute_owned`; `Send` is the call to Feishu and `Checkpoint` the transaction
after it, so that a crash, or a lease that is taken over, can fall between them.
An upload is folded into the message that shows it, and the checkpoints of the
analysis and of the report's result into one (`results`): neither is seen by the
user. `Stop` is `heartbeat.stop()`, which turns a failed round into
`FeishuJobOwnershipError`, whatever the worker was about to raise. A failed
round, or one that runs after the worker's last write, is a *miss*; failing calls,
crashes, redeliveries and callbacks that outlive their lease are *faults*. One tick
is the countdown of a Celery retry. The retries inside the Feishu client are part of a
call. The checks an Aily job makes of its source and the replay of a rejected job
are left out: they refuse, or stage a row as `Stage` does.

### FeishuFamily and the code

`job[m]` is the row of the root, the SOH trajectory, the scenario comparison or the
recommendation; `frozen` is `recommendation_upstream_result_ids`; `computed` says that the
root's analysis and report are checkpointed. `Stage` is one call of `stage_sibling`,
`List` is `list_undispatched_siblings`, which also freezes, and `Notify` takes the
next of the listed jobs to `Enqueue` and `Mark`. An execution is coarser than in
`FeishuJob`: a lease holds or has expired, messages have no retry count, the
delivery is part of the last write, and FAILED stands for REJECTED too, which
nothing in a family tells apart. `reviewed` stands for the profile and the ruleset
that a worker loads at its start. What the code has no answer to (a claim that
expires under a live worker, a notification that is cut short, a profile that changes
between two attempts) is a *lapse*; everything it recovers from is a fault.

### TrainingRun, ModelSelection, MatrSuite and the code

| Variable | Code |
|---|---|
| `dirs`, `last`, `best` | `checkpoints/epoch-*` with the progress they hold, `last.json`, `best.json` |
| `rows` | `metrics_validation.csv` |
| `result` | `run_status.json` |
| `proc` | the local variables of `TrainingEngine.run`; `pc` names its next file operation |
| `curve` | the metric each validation yields |
| `lapsed` | what kills at a bad moment have left in a run's directory (not in the code) |
| `suite`, `trace` | the local variables of `_execute_selection`; `selection_manifest.json` |
| `left`, `manifest` | runs still to do; runs with a `run_manifest.json` (`MatrSuite`) |

A checkpoint holds weights, optimizer and the random state (`checkpoint.py`), so an
epoch that is trained a second time yields what it yielded the first time: `curve`
is drawn once, and otherwise arbitrary. Each file operation that becomes visible
with a rename or an append is one action; temporary directories and a pruning that
is cut short leave nothing that is read again. `Open` with the result of a complete run
restores and skips it. The selection metric of the engine and the MAE the suite
reads are one number. A signal is handled inside the epoch loop; outside it the
default handlers are installed again, and it is a kill (`Crash`). `Launch` is the
operator who starts the command again.

`ModelSelection` has one family, one seed per axis of the recheck and the limits
`Stage1Limit` and `MaxEpochs` for the 30 and 90 epochs of the code. The suite keeps
nothing on disk, so a restart begins with stage 1 over directories that later
stages have trained further: `ValidationMetric` then sees rows the first pass
did not. `Reference` is what the three stages decide on runs that were
never disturbed, written over the curves alone.

`Window` names the four leftovers of a kill that the code does not repair: a checkpoint
that `last.json` does not name (`stuck`), a best epoch that `best.json` does not name
(`best`), a validation that is missing in the log (`row`), and a run whose last checkpoint
should have ended it (`stop`). The properties except exactly these, run by run.

## 3. Runs

| Run | Question | Result |
|---|---|---|
| `agent_run_faults` | are rows, log, plan and gates consistent whatever fails? | holds |
| `agent_run_fenced` | do results commit whole, ended runs stay ended, claims get respected, and do the rows implement `AgentRunLifecycle`, as long as compiling a step never fails? | holds |
| `agent_run_progress` | does a run always have somebody, and does it settle? | holds |
| `agent_run_reopened` | does a failed run stay failed? | violated, finding 1 |
| `agent_run_lost_message` | does a run survive a worker's crash? | violated, finding 2 |
| `calibration_fenced` | are rows, samples and claims sound with failing heartbeats, crashes and moving routes? | holds |
| `calibration_settles` | is requested evidence published or failed, one crash included? | holds |
| `route_decisions` | whatever is decided, does the ledger verify, is each head decided on once, are retries answered, is a list a real state, do the heads implement `RouteHead`? | holds |
| `feishu_job` | is an answered event carried to its end, and told once, by overlapping callbacks and workers that crash, fail and come late? | holds |
| `feishu_family` | does the recommendation see the ended family, is every sibling dispatched, does the family rest and implement `FeishuFamilyLifecycle`? | holds |
| `training_selection` | do kills and restarts change nothing in what a run computes and a selection decides, and is it finished? | holds |
| `training_interrupted` | is a run that was interrupted with Ctrl-C resumed later? | violated, finding 3 |

Deadlock checking is off except in `training_selection`, where the command can
always be started again: a run, a job or a matrix may end, or wait for a human, and
the bounded environment then has nothing left to do.

### Bounds and why they are enough

- `agent_run_faults`, `agent_run_fenced`: two workers, because every race is
  between the holder of a claim and one late worker; two steps, of which one is
  Local with `RETRY_ONCE` and the other a gated PROJECT step, so that every path
  of the worker exists and a completed step precedes a gate; one clock tick with
  both lifetimes 1, so that leases and deadlines expire; one drift of the
  context; one retry; one fault, which may be a crash, a redelivery, a refused
  dispatch or a dispatch whose commit is lost. About 2 million distinct states each.
- `agent_run_progress`: four steps with each combination of Local and gated.
  Clock, drift and faults are 0: approvals alone already put a second message
  beside a worker that has not finished with the first, and a fault breaks the
  property (finding 2).
- `calibration_fenced`: two workers, a lease of two ticks, so that a renewal
  differs from the claim it renews; two decisions; three requests with two keys,
  one at a time; two faults, so that a crash and a redelivery meet.
- `calibration_settles`: one request and one fault. The lease is 2 ticks and
  there are 3 retries, which keeps the order of the code's values (lease 90 s;
  20 retries of 5 s, 100 s in all) with the margin of one retry. A second fault
  on the same message does lose it (hazards).
- `route_decisions`: two routes, because a list mixes heads of several; two
  artifacts and four decisions, because a route has to be activated twice before
  it can be rolled back, and rolled back before the head returns to an artifact
  it served; four keys, so that every decision may have its own or one may be
  asked for again; one artifact that may be retired. One reader is enough, since
  readers write nothing. The requests are all those that can be formed from
  the events so far, sound or not. About 64,000 distinct states.
- `feishu_job`: two callbacks and two workers, because every race is between an
  owner and one late process; a lease of two ticks, so that a renewal differs from
  the claim; three retries, which outlive a lease as the code's 61 of 60 s outlive
  300 s; two attempts, so that one is resumed; one fault and one miss, so that they
  meet. Two faults with these three retries strand the job, and three faults do even with
  six (hazards, section 4).
- `feishu_family`: all four members, two workers, two attempts, one fault, one lapse.
- `training_selection`: two candidates, of which one survives, a grid of one axis,
  three epochs that are all validated, two metrics, patience 2: so a run stops early
  or not, improves or not, and stage 2 goes beyond stage 1. Two kills, because the second
  may hit the restart; one checkpoint kept, so that pruning must respect the pointers.
  1.4 million distinct states. With one finalist the rank of the recheck decides
  nothing; it was checked once with three candidates, two finalists, two epochs and one
  kill (400,000 states), and once with three candidates and three epochs.
- `training_interrupted`: two runs of two epochs.

All runs are bounded by `MaxClock`, `MaxContext`, `MaxFaults`, `MaxRequests`,
`MaxHead`, `MaxDecisions`, `MaxDeliveries`, `MaxMisses`, `MaxLapses`, `MaxCrashes`,
`MaxSignals` in the guards. Symmetry is used only in runs that check no liveness.

### Fairness and why the code justifies it

- `AgentRun`: weak fairness of `Dispatch` (the handlers of create and approve
  call `dispatch_pending` in the same request) and of each worker's `Work` (a live
  Celery process executes the message it was given). No fairness for approvals,
  cancellation, the clock or faults. The code comment in `api/agent_runs.py:91`
  relies on a scheduler to retry a refused dispatch; there is none in the
  repository, so `Settles` assumes a dispatch that is not refused.
- `Calibration`: weak fairness of the rest of an accepted request, of each
  worker, and of time. None for new requests, the heartbeat, route moves or
  faults. `Prompt` says that a live worker renews or ends its claim before it
  expires; the constructor enforces `heartbeat_interval < lease_ttl`
  (`advanced_calibration_jobs.py:631-636`), and `calibration_fenced` drops it.

- `FeishuJob`: weak fairness of the steps of a callback and of a worker, heartbeats
  included where a step waits for them, and of time. None for callbacks that Feishu may
  repeat, redeliveries, failures and crashes: `Settles` starts from an event that was
  answered 200, and its message is in the broker.
- `FeishuFamily`: weak fairness of each worker, and of the expiry of a lease whose worker
  is dead (`Expire(m) /\ NoFault`).
- `ModelSelection`: weak fairness of the process (`Works`: it is sequential code) and of
  `Launch`: the runbook tells the operator to start the same command again. None for
  signals and kills.

## 4. What is proved

For every number of workers, steps, keys, decisions and every bound, with TLAPS:

| Theorem | Statement |
|---|---|
| `AgentRunProofs!TypeCorrect` | `Spec => []TypeOK` |
| `AgentRunProofs!GateIsHonoured` | `Spec => []GateHonoured` |
| `AgentRunProofs!LogIsReplayable` | `Spec => []LogTellsState` |
| `AgentRunPlanProofs!PlanIsFollowed` | `Spec => []ResultsFollowPlan` |
| `AgentRunPlanProofs!NothingHalfCommitted` | `Spec => []NoHalfCommit`, assuming `~ContextMayFail` |
| `AgentRunPlanProofs!EndIsFinal` | `Spec => TerminalIsFinal`, assuming `~ContextMayFail` |
| `AgentRunPlanProofs!LeaseIsRespected` | `Spec => LeaseRespected`, assuming `~ContextMayFail` |
| `AgentRunPlanProofs!RunImplementsLifecycle` | `Spec => ImplementsLifecycle`, assuming `~ContextMayFail` |
| `AgentRunPlanProofs!RunIsSomeonesDuty` | `Spec => []SomeoneIsResponsible`, assuming `Undisturbed` |
| `CalibrationProofs!PayloadFollowsStatus` | `Spec => []StatePayload` |
| `CalibrationProofs!CohortsAreFinal` | `Spec => CohortIsFinal` |
| `CalibrationProofs!ClaimsAreRespected` | `Spec => LeaseRespected` |
| `CalibrationProofs!TypeCorrect` | `Spec => []TypeOK` |
| `CalibrationProofs!EvidenceIsSomeonesDuty` | `Spec => []SomeoneIsResponsible`, assuming `Orderly` |
| `RouteActivationProofs!TypeCorrect` | `Spec => []TypeOK` |
| `RouteActivationProofs!LedgerStaysSound` | `Spec => []LedgerIsSound` |
| `RouteActivationProofs!HeadsAreDecidedOnce` | `Spec => []OneDecisionPerHead` |
| `RouteActivationProofs!RetriesAreAnswered` | `Spec => []RetryIsAnswered` |
| `RouteActivationProofs!ListsAreConsistent` | `Spec => []ListedTogether` |
| `RouteActivationProofs!HeadsAreVersions` | `Spec => ImplementsRouteHead` |
| `FeishuJobProofs!TypeCorrect` | `Spec => []TypeOK` |
| `FeishuJobProofs!AcknowledgedMeansDispatched` | `Spec => []AcknowledgedIsDispatched` |
| `FeishuJobProofs!EndsAreFinal` | `Spec => TerminalIsFinal` |
| `FeishuJobProofs!LeasesHold` | `Spec => LeaseRespected` |
| `FeishuJobProofs!AnswersAreTold` | `Spec => []EndIsTold` |
| `FeishuJobProofs!RepeatsHaveCauses` | `Spec => []OneRepeatPerFault` |
| `FeishuJobProofs!JobIsSomeonesDuty` | `Spec => []SomeoneIsResponsible`, assuming `RetriesOutlastFaults` |
| `FeishuFamilyProofs!TypeCorrect` | `Spec => []TypeOK` |
| `FeishuFamilyProofs!RecommendationIsLast` | `Spec => []RecommendationSeesFamily` |
| `FeishuFamilyProofs!FamilyImplementsLifecycle` | `Spec => FamilyLifecycle` |
| `FeishuFamilyProofs!FamilyIsSomeonesDuty` | `Spec => []SomeoneIsResponsible` |
| `TrainingProofs!SelectionTypeOK` | `Spec => []TypeOK` |
| `TrainingProofs!SelectionPointersResolve` | `Spec => []PointersResolve` |
| `TrainingProgressProofs!CheckpointsAsUninterrupted` | `Spec => []ProgressAsUninterrupted` |
| `TrainingProgressProofs!RunsAsUninterrupted` | `Spec => []RunAsUninterrupted` |
| `TrainingProgressProofs!SelectionsAreReproducible` | `Spec => []SelectionIsReproducible` |

The assumptions are those named in the modules: `NSteps` and the lifetimes are
positive, gated and Local steps are steps of the plan, bounds are naturals.
Nothing is assumed of the workers of `AgentRun` and `Calibration`; those of
`FeishuJob` and its callbacks are finitely many, since they are counted. Five theorems
assume something of `ContextMayFail` (finding 1 shows why they must). Of the routes,
artifacts and keys it is assumed only that `None` is not an artifact and that what may be
retired is one. `Undisturbed`, `Orderly` and `RetriesOutlastFaults` are explained below,
under *Somebody's duty*.

**GateHonoured is not inductive**, because a worker passes the gate in one
transaction and claims, runs and commits in later ones. `GateInv` adds what the
worker's memory still says about the rows: a worker past the gate works on a
step of the plan, the input it compiled is the frozen one, and its gate is
approved for good (an approval never leaves APPROVED and a frozen input never
changes once a gate exists for it). `RowsAgree` says the same for each step's
rows: a RUNNING step that is gated is approved, and a snapshot is frozen before
its gate is requested. Each
transaction is shown to keep the part it can disturb; those that only read are
handled by one frame lemma.

**LogTellsState** selects the last event that speaks of the run or of a step by a
`Max` over indices. `LogInv` says the same with a witness: some event names the status
and all later ones are silent. Appending an event keeps it (`TellsMore`) when its
transaction changes run and steps as the event says, which is shown for each transaction
of the API and of the workers; a failed run appends two events. Only the steps'
statuses matter, so the proof needs of `GateInv` no more than that a worker's target
is a step of the plan.

**ResultsFollowPlan is not inductive** either: the worker selects the first
incomplete step from a list it read earlier. `PlanInv` adds that every step
before the one a worker holds already owns its result, which no transaction takes
away (`Kept`), and so whoever stores a result stores it in order, whatever other
workers have done since. This holds with `ContextMayFail`, late workers and
redeliveries; it is the reason why duplicated messages do no harm to the results.

**The refinement of `AgentRunLifecycle`** adds `FenceInv` to these two. Its rows
(`RowFenced`): a token is only stored for a RUNNING step, a RUNNING step belongs to
a run that is RUNNING or was cancelled, a pending gate to one that awaits approval,
and whatever runs or has a gate has the results of all earlier steps. With
`GateInv` it follows that at most one step runs (`OneRunning`), that none runs or
waits beside a step whose turn has come (`MyTurn`), and that a gate not yet open has
no result behind it (`ClosedGate`). Its memories (`MemoryFenced`): a worker that
resolves, commits, runs or fails holds a token, which is where `~ContextMayFail` is
needed, since a reference that does not resolve calls `_fail_run` without one. The
proof then goes in two halves: every transaction makes one of eight `Move`s on the
rows (`NextMoves`), and every move keeps `RowsFenced`, leaves ended runs and claimed
steps alone, and is a step of the life cycle or a stutter (`MoveIsLifecycle`). The
abstract `active` is the one RUNNING step, so it changes only by a claim of a PENDING
step and by the holder of the token; taking over a lapsed claim is a stutter.

**Calibration.** `Shape` (types of the head, the rows and the decision a worker
holds) with `StatePayload` is inductive, and the two action properties follow
from the same case analysis: each transaction either leaves the row alone, ages
it, inserts it, or changes it behind the guard of `_claim` or the fence
`ClaimStands`. `LeaseRespected` needs `StatePayload`, since the fence compares
tokens and only the payload says that the token of a RUNNING row is its latest
attempt. `Shape` with `Counters` (the messages of the broker and the two bounded counts) makes
`TypeOK`: a message is only taken where one is.

**Route ledger.** `TypeOK` with `Chained` is inductive: every event follows, in the
sense of `_verify_chain`, the event that was last on its route when it was
appended, it was expected there, and each head is the last event of its route.
Soundness of the ledger follows by projecting each event to its route. Two decisions
of one route on the same head would both have that head as the last event before
them, but the earlier of them lies between it and the later one: hence
`HeadsAreDecidedOnce`. `Last` is the maximum of a set, a CHOOSE in the library's
definition; `Greatest` with the lemma `GreatestIsMax` says which event it selects, and the
other lemmas argue from that. For the refinement, an append
changes the version and the artifact of one route, because a guard of both writers
asks for another artifact; all other steps stutter.

`RetriesAreAnswered` adds `OneKey`: a key occurs in one event at most, since an append needs
an unbound one; so a repeated request never meets the head and repeats only its own
event. `ListsAreConsistent` follows the reader statement by statement (`ListInv`): the
event found for a route lies between its last event in the snapshot and its head now,
and the final comparison, which finds the last events of the two equal, leaves no room
between them. Whatever a statement saw is a prefix of the ledger and stays one
(`KnownKept`).

**Feishu job.** Whether the user was told is not decided in one step: parts are sent
by several attempts, each of which starts from the checkpoints the one before it
left. `TellInv` says what each of the two memories implies of what was sent: a field
the row has saved was sent (`Recorded`), and a worker that is past some parts
has sent them, or found them saved (`Tells`, one clause per place in the delivery). A
worker whose lease was taken over keeps its memory, which stays true because `sent`
only grows (`SentGrows`, `TellsStay`). `AcknowledgedIsDispatched` needs what a
callback carries between its transactions (`DispatchInv`: whoever is past the broker has a durable job,
whoever is past the mark a task). `LeaseRespected` and `TerminalIsFinal` follow
from the fence `Owns`, on which all writers of the job agree (`WorkerWrites`), and
from an ended job having no lease (`NoLeaseAtEnd`).

**Feishu family.** `StepMoves` reads every step of every worker as a move of
`FeishuFamilyLifecycle`, a freeze, or a stutter. The recommendation is *untouched*
until the freeze: it has no message, no worker lists it, and it is at most staged.
Steps before the freeze keep it so (`ExecuteQuiet`, `FailureQuiet`), a freeze finds all others ended, and
ended members keep their results (`OthersKept`), so what was frozen stays the
result of the family.

**Training.** The pointers cannot be kept alone: `Prune` reads them, and the process
holds an epoch that no pointer names yet. `Placed` says where `last.json` stands
beside the process at each file operation, and `Counted` bounds the count
of validations without improvement by the epoch. Together with the types they are
inductive under every step of the engine, a kill between any two of them, and the
suite. On top of it `CheckpointsAsUninterrupted` says of the process in memory what
it says of the checkpoints: `BestStep` and `StaleStep` show that one epoch of the engine does to best
epoch and count what the definitions over the whole curve do, and a resume reads back
a checkpoint for which it already holds. `BestAt` is a CHOOSE, so that a best
validation exists and is unique is proved first. The rest of `RunAsUninterrupted`
speaks of the end of a run. `EndInv` carries it through the epochs: a run that has not
ended has met no reason to stop up to `last.json` (`Unstopped`), unless the process is
just about to end it (`Stopping`); `best.json` is the best validation up to `last.json`, unless it
is just being moved; and the log has each validation up to it once, unless it is just
being written. A death in one of these moments is what `lapsed` notes, so nothing is
lost in any other (`CrashEnd`). A run ends at `last.json`, and `StopsAt` says that the first reason
to stop, or the limit, is where the definition over the whole curve ends it.

**The selection** is reproducible although its first stage, when repeated, reads
evidence it did not have the first time. `SelectionInv` says why: a run is beyond the end
of its first stage only if that stage was decided and has kept its candidate
(`AheadInv`), so the evidence that has changed belongs to survivors, and more of a curve can
only improve the best metric (`EvidenceImproves`). `RankedImproves` shows that those who are
ranked stay so when only they improve: each is still before all the others, at most
`n` are ranked, and exactly `n` if somebody is not. In the later stages a run is
trained to its end, so its evidence is the reference's (`ExactEnd`, `FullMetric`).
What a stage has decided rests on parts of curves that never change again
(`StopAgreement`, `ReachedOnward`), so `Reference` stays the same once it can be
computed. That a death takes the suite's memory with it is what makes the proof short: only the
directories have to be spoken of.

**Repetitions.** `OneRepeatPerFault` compares what was sent with what failed, and the
two do not move together: a worker that lost its claim sends its part long after the round
that it missed, and a part is sent before it is recorded. `TallyInv` books both. A part is
`Credited` once, to the row that records it or to the owner who is about to; all it was
sent beyond that is `Excess`. A worker is `Liable` if its cause has been counted and its
repetition has not: it has lost its claim and is about to send, or it owns the claim and its
heartbeat has failed. `Tally` says that excess and liable workers together never exceed
faults and missed rounds. Each step moves them as it pays: an owner's `Send` gives the part
a credit that it did not have (`Knows`: what an owner has still to do is not recorded); a send
without a claim turns a liable worker into an excess; a crash takes the credit of one part
at most; an expiring lease has one owner (`OneOwner`, from `TokenInv`), who was liable or is late
now. No bound and no fairness enter.

**Somebody's duty.** `SomeoneIsResponsible` of the four services says that whatever has not
ended has a message, a process or a caller that will care for it. It is a safety
property, but a message carries its retry count and is dropped when it has none left, so
it holds only while the retries outlast what can hold a message up. Each theorem names
what it needs, and TLC strands the work when a part of it is left out.

- *Agent run.* `Undisturbed`: contexts resolve, no fault, no drift, and no claim expires
  (`MaxClock < LeaseTTL`). Approvals, cancellations and any number of messages remain. A
  RUNNING step is held by a live worker (`RowHeld`), a run between two steps has a dispatch,
  a message or a worker that will see it so (`Cared`); a worker whose memory is stale gives up only
  because somebody else has moved on. Finding 2 is what happens with a fault.
- *Calibration.* `Orderly`: a live worker renews in time, calls do not fail, and either
  there is no fault, or one, on the only request, with `LeaseTTL <= MaxRetries`. While the
  claim holds, its owner cares (`Holder`); otherwise some message has retries left for the rest
  of the lease. Before the fault a single request is a single message that was never
  retried (`Solo`), so the message of the dead worker has all its retries. With a second
  request that message may have spent them beside another worker.
- *Feishu job.* `RetriesOutlastFaults`: at most two faults, and `MaxFaults * LeaseTTL <=
  MaxRetries`, as 61 retries of 60 s outlast two leases of 300 s. Without a missed round
  whoever executes owns the claim (`SoberInv`). Before the first fault there is one callback
  and one message, or the first message is still to come; after it a message with a
  lease of retries left, which the second fault may use up. A third fault
  strands the job although each has a lease of retries: a duplicate spends its own beside
  the first owner, takes over when that one dies, and dies after the other message has
  spent its own.
- *Feishu family.* Nothing is assumed: messages have no retry count there, and what the
  code has no answer to is a lapse, which the property excepts. `CalmInv` says that one
  worker at most works on a member (`Alone`), that a running member has it or the
  message of a dead one (`Attended`), that a member that is marked as dispatched and not yet
  claimed has its message (`Sent`), and that one without a message is found by somebody who
  has yet to list it (`Found`).

## 5. What is only model-checked

Liveness: `Settles` of three modules, `FamilySettles` and `SelectionSettles`. The theorems on
`SomeoneIsResponsible` cover all values of the constants that meet their assumptions, those
of the runs that check it among them.

## 6. Findings

1. **A failed run can be reopened** (`agent_run_reopened`). `_fail_run` without a
   claim token fails a run that awaits approval and leaves the approval PENDING;
   `_act_on_approval` does not look at the run, and approving sets it RUNNING.
2. **A crash strands a run** (`agent_run_lost_message`). The redelivered message
   is Busy for 30 minutes, its retries last 100 seconds, and then it is dropped.
3. **An interrupted model is published and never resumed** (`training_interrupted`).
   On Ctrl-C the engine returns INTERRUPTED, `_run_one` evaluates the weights of that
   epoch and writes the manifest that makes the same command skip the run, where
   the runbook says that it resumes it.

Seen while modelling, kept as hazards or in a model, and without a run of their own:

- A late worker can write FAILED over an active claim, through the same `_fail_run`
  as in finding 1; `agent_run_fenced` excludes it with `ContextMayFail = FALSE`.
- A request of calibration evidence that races one with its key over a route change
  may be answered READY with the evidence of the older route
  (`advanced_calibration_jobs.py:276`).
- A read of the route ledger selects events and heads with two statements; a decision
  between them ends it with the error of a broken ledger (`Proceed` and `ReadHeads`
  have this step).
- A missed heartbeat round strands an acknowledged Feishu job; `SomeoneIsResponsible`
  and `Settles` of `FeishuJob` say so in their condition `misses = 0`.
- A kill between a checkpoint and `last.json` makes every restart fail; see `stuck`.
- A selection that was interrupted by a signal takes the run for completed evidence.

## 7. Plan

In the order of their importance; (a) means done.

1. (a) `AgentRun`, `AgentRunLifecycle`, their runs and the first theorems.
2. (a) `Calibration`, its runs and theorems.
3. (a) `RouteActivation` with `RouteHead`, its runs and theorems.
4. (a) `FeishuJob`, `FeishuFamily` with `FeishuFamilyLifecycle`, their runs and theorems.
5. (a) `TrainingRun` with `ModelSelection` and `MatrSuite`, their runs and theorems.
6. `AgentRunStream`: the SSE reader over the log of `AgentRun`.
7. (a) Proofs of `TerminalIsFinal`, `NoHalfCommit`, `LeaseRespected` and of the
   refinement of `AgentRunLifecycle` by `AgentRun` under `~ContextMayFail`.
8. (a) Proofs of type correctness of `Calibration`, of `LogTellsState` of `AgentRun`,
   and of `RetryIsAnswered` and `ListedTogether` of `RouteActivation`.
9. (a) Proofs of `RunAsUninterrupted` and `SelectionIsReproducible`.
10. (a) Proofs of `SomeoneIsResponsible` of the four services and of `OneRepeatPerFault`.

## 8. What is not modelled and why

- Tools, models, training tasks, metrics, data parsing, reports: numeric or sequential
  transformations without shared state; a tool call is "returns or fails".
- Authentication, role checks and request parsing: refusals before the first
  transaction, which change nothing the models have.
- The planner: a plan is a constant of `AgentRun`.
- Signatures, digests, canonical JSON: compared for equality only.
- The front end, deployment scripts, migrations and the vendored simulator.
- The replay of rejected Feishu jobs and the Aily entry points: checks before a row is
  staged or executed as in `FeishuJob`.
- Smoke and final runs of the advanced suite, baselines and models fitted in one call:
  they use the engine, or no durable state. Checks of hashes and contexts of run directories refuse
  what another configuration has written.
- Project reports: a report has no lease or retry, so the first crash loses it (hazards).
- Several runs at once: they share no rows, and the broker does not order messages.
