# LearningOS: TLA+ models, model checking and proofs

LearningOS is a local-first learning platform: a FastAPI backend over one SQLite
database, a separate worker process that runs learners' code in isolated child
processes, tools that install, update and migrate it, and an older runtime (V2) that
keeps its state in JSON files. This directory specifies the parts that carry the
program's own logic. Every definition is translated from the source; `PROJECT.json`
names the lines (`map`), what each run checks (`runs`), which deliberate bug each
property is known to catch (`mutants`), what is hard to test and which property is
for it (`hazards`), and where code and documents disagree (`findings`).

All paths below are relative to the repository.

## 1. Inventory

### Backend: `platform/backend/app`

One uvicorn process. The handlers are `async def` with synchronous bodies, so inside
the process they run one at a time; only `tutor_chat` and `create_artifact` await
anything. Other processes open the same database: the update tool and the V2 importer
(WAL mode, `busy_timeout` 5 s).

| component | state | operations | what is hard | what must hold |
|---|---|---|---|---|
| mission session runtime (`api/runtime.py`, `api/routes.py`) | `mission_sessions`, `stage_attempts`, `predictions`, `executions`, `submissions` | create session, enter stage, seal a prediction, execute, submit, evaluate the gate | `execute_stage` reads, blocks on the worker, then writes; submit and gate commit twice; a crash in between; calls in any order and repeated | stages in order; an execution belongs to an open attempt and to the sealed prediction; a submission is final; a completed session is closed |
| competency gate (`core/gates.py`) | `competency_mastery` | satisfy criteria, threshold, repair plan, increment levels | threshold at 0, 1 and above; claims shared by all sessions of a learner in a mission; repeated evaluation | a certificate stays deserved; levels are earned; the repair plan suffices |
| evidence (`core/evidence.py`) | `evidence_items`, `artifacts`, `provenance` | build and persist claims, list claims, record activity | the ledger event is a second transaction whose failure is swallowed | evidence and submissions agree; the ledger never tells of what did not happen |
| today dispatcher (`core/projection.py`, `core/flagship.py`) | none of its own | next action, projections, unlocking by blocking prerequisites | it derives its own view of tables others write | what it recommends is accepted; it never blocks; whoever follows it finishes |
| event ledger (`db/ledger.py`) | `learning_events` | append with a hash chain | the latest hash is read outside the transaction of the insert | append-only; every row hangs on the ledger; one chain with one writer |
| learners (`api/routes.py`) | `learners`, `competency_mastery` | create a learner, raise a level | the level is read before the transaction that writes it | no level is lost |
| curriculum registry (`core/registry.py`, `mission_loader.py`, `mdl_validator.py`) | `curriculum_packages`, `missions`, a cache | validate and load packages | replaces specifications under running sessions | a running session stays playable |
| database, migrations, backup (`db/`) | the file, `_schema_migrations`, archives | migrate, back up, restore | two starters read what is pending before either locks; database and artifacts are copied in two steps; writing an archive or extracting it may be cut short | migrations once each and in order; an archive has every artifact its rows cite |
| tutor (`core/tutor.py`) | none | chat | the lock is checked before an `await` | no assistance in a locked stage |
| artifact store, security, secrets, config | files | put/get, token, keys, settings | write by rename; start-up races | content matches its name |
| in-child runners (`execution/`) | none that outlives a job | run scripts, tests, notebooks | sequential | abstracted to the result file |

### Worker: `platform/worker`

| component | state | operations | what is hard | what must hold |
|---|---|---|---|---|
| daemon (`daemon.py`) | job table under a lock, a thread for each connection | execute_task, cancel, health, shutdown | every interleaving of request thread, cancel, shutdown and signal | a cancelled job ends; a stop leaves no noted process |
| sandbox (`sandbox.py`, `restricted_child.py`) | a process group and a result file for each job | preflight, spawn, supervise, collect | exit, cancel, deadline, output limit and CPU limit race | no process behind an answer; the answer is what happened |
| client (`core/worker_client.py`) | none | RPC with a timeout | the daemon disappears; it answers late | the job it left behind ends; it is told what happened |
| watchdog (`watchdog.py`) | restart counter, stop flag | start, watch, restart, forward signals | signals between any two steps | bounded restarts; no orphan; a stop ends it |

### Tools

| component | state | operations | what is hard | what must hold |
|---|---|---|---|---|
| update and rollback (`tools/platform/update.py`, `rollback.py`) | archives, a pointer to one, a stamp | back up, point, migrate, load, record; restore elsewhere | each step may be the last one; the server runs meanwhile | an update can be undone by default; a restored home is its archive |
| V2 importer (`v2_migrate.py`) | the rows of an imported learner, their ledger events | allocate identities, archive, write, append | it looks first and writes later, a commit for each learner and event, beside the backend | nothing of a learner who was there is overwritten unasked; what it reports is there |
| development supervisor (`dev.py`) | the processes it started | start, watch, stop | asked to stop while it starts; services that ignore SIGTERM; a socket path it shares | it ends, and leaves nothing it did not kill |
| installer, `secrets.py`, `state_guard.py`, `tools/authoring` | single files | sequences of checks | little | see section 6 |

### V2 runtime: `learning_os`

A command line and a threading dashboard server in two processes over seven JSON files, each
read whole and rewritten whole, without locks.

| component | state | operations | what is hard | what must hold |
|---|---|---|---|---|
| missions, sessions, evidence, gate | `learner`, `sessions`, `evidence` | start, hand in, gate | a call changes several files one after the other, and is cut anywhere | a PASSED mission has its evidence; what was reported recorded is there |
| learner model, autonomy ratchet | `model`, `autonomy` | ingest, tally, ratchet, refresh | derived from the other files by separate writes | the model agrees with what it is derived from |
| retention, side quests, advice | `retention`, `quests` | schedule, due, complete, open, close | due events are marked by the dashboard as well | one retrieval waiting for each competency; none forgotten |

### Flagship agent: `missions/M37` to `missions/M39`

| component | state | operations | what is hard | what must hold |
|---|---|---|---|---|
| tool runtime and ledger of effects (M37) | entries by idempotency key | execute a tool | an effect that is asked for again | an effect for each key, once |
| workflow (M38) | agent state, checkpoints | visit a node, interrupt, resume | killed, resumed from an old checkpoint, resumed twice; two bounds, one kept in the checkpoint and one anew in each run | no effect without a grant or twice; a run ends by its own bound |
| fallback ladder (M39) | attempts, failures, circuit | climb, judge, give up | a rung that fails after an effect | what is reported is what was done |

`platform/frontend` is presentation over the API. The other directories under `missions/`,
`labs/`, `datasets/` and `simulations/` are content: notebooks, exercises and numerical code.

### How the parts interact

The frontend calls the backend over HTTP. The backend calls the worker over a Unix
socket, one blocking RPC for each execution, and records whatever comes back,
"unavailable" included. The runtime writes evidence that the gate reads; the gate
writes levels and completions that the dispatcher reads; both append to the ledger
in transactions of their own. The watchdog (or `dev.py`, which starts the daemon
directly) owns the daemon; the daemon owns the children. Both daemons use one socket path, and nothing but that path
keeps them apart. The importer opens the backend's database. The update tool works on the data
home of a server that may be running; rollback writes another home, to which
`LEARNINGOS_HOME` is pointed by hand.

## 2. Plan

Done: 1 `GateContract`, `GateSessions` and `GateSessionsProofs`; 2 `SessionRuntime`, `MissionJourney` (the abstract
specification it refines), `SessionRuntimeProofs`; 3 `Today`, proved about in `SessionRuntimeProofs`; 4 `EventLedger`,
proved about in `V2ImportProofs`; 5 `WorkerDaemon`, `Watchdog` and their proofs; 6 `DataHome`,
`DataHomeProofs`; 7 `V2Import`, composed with `EventLedger`, and `V2ImportProofs`;
8 `LearningLoop`, `LearningLoopProofs`; 9 `WorkerHost`, composing `Watchdog`, the supervisor
and what daemons do with the socket path, proved about in `WatchdogProofs`;
10 `AgentWorkflow`, `RobustAgent` and `RobustAgentProofs`.

What would come next, in this order:

11. `CurriculumReload`, extending `SessionRuntime`: `_persist` (`registry.py:89`) replaces
    specifications under running sessions; which of the properties survive that.
12. `TutorLock`: `tutor_chat` checks the assistance lock, awaits the provider and answers
    (`tutor.py:221`).
13. Proofs: each safety property that a passing run checks has a theorem. What could be added is
    that `RobustAgent` implements an abstract purchase.

## 3. The modules and the code

An operator `Mutant_X`, next to the definition it resembles, is that definition with a
plausible bug. No specification uses it; putting it in the definition's place is how
each property is known to be able to fail. A module `MC...` gives the constants of a module
their values for TLC.

**GateContract** is a library without state: `criterion_satisfied`,
`meets_pass_threshold`, `evaluate_contract`, `build_repair_plan`, and the claims of
`persist_submission_evidence`, for missions with a knowledge node and without one (`node` is a record
that names its own). Thresholds are in hundredths. **GateSessions** puts it
into a small state machine (a contract, submissions in any order, a new session of the mission), in
which its properties are stated and proved about. **MCGateContract** gives it its contracts.

**SessionRuntime** has one action for each handler. `sessions`, `attempts`, `evidence`,
`mastery` and `activity` are the tables; a handler's guard is its 404, 409 and 422
returns. `busy` is the handler that is half way: `SendToWorker`/`RecordExecution` are
the halves of `execute_stage`, and `RecordActivity` is the second transaction of submit
and gate. `Abandon` is a crash or a swallowed failure there. Idempotent replies are
stuttering steps. Two pieces of the code have no counterpart because no state reaches
them: the branch of `enter_stage` for a session whose current stage is empty or
"start" (`create_session` always sets the first stage), and the statuses PAUSED and
ABANDONED, which nothing writes.

**MissionJourney** is what all this promises: enrol, do stages in order, be certified
when the work done deserves it, rise in level only by being certified. Attempts,
predictions, evidence rows, ledger and crashes are gone; `SessionRuntime` maps sessions to
enrolments, SUBMITTED stages to a counter, COMPLETED sessions to certificates.

**Today** extends `SessionRuntime` with `NextAction` as an operator over its tables, and
with a second specification in which learners do only what it recommends. The
learner's steps model no code and are marked external in the map.

**EventLedger** splits `append` into `ReadLatest` and `Insert`, with `Lose` for a failed
insert. A writer is a connection. SHA-256 is taken as collision-free: the hash is the
tuple of what it covers.

**WorkerDaemon** has the client's request, the request thread from registration to
response, the polling loop of `run_job` one check at a time, cancels, the child and
the stop of the daemon. `_Job.status` is left out, as the daemon never reads it. Time
is left out: a deadline is a step that may come at any moment. The child's own alarm
is set later than the deadline of the loop, so its file says TIMEOUT only when `late`
is true. The kernel's limits, on CPU time and on the size of a file, may end the child at any time, and the
code may end its own process at any time with any exit code: an attribute such as `random._os` is not
restricted. With exit code 0 and no result file the answer is SUCCESS.

**DataHome** has two processes over the same homes, the server and the update tool, each a
record of where it is and what it remembers: `Migrate` is `run_migrations` up to the pending
list, `Dump`, `List` and `Pack` are `create_backup` (database, the walk over `artifacts/`, the
end of the file), `Apply` is the transaction. `Put` and `FinishPut` are the temporary file and
the rename of an upload; `seen` is whether a walk that is under way has listed that temporary
file. `Rollback` is `rollback_to_dest`, and also `POST /system/restore` with a `dest_home`;
without one it is refused, because the server's own home is never empty. An archive is `torn` when its writer
was killed and `cut` when writing failed. What the code cannot see, `ran[v]` (how often
migration v took effect), `sound` and `told`, is history. `Cite` assumes that a learner cites
an upload; the server takes the hash it is given.

**Watchdog** has one action for each step of the loop between which a Python signal
handler can run, `Start` (Popen) and `Name` (the assignment) being two of them.

**WorkerHost** extends it with the path of the socket. `Probe`, `Unlink`, `Bind` and `Listen`
are `_prepare_socket` and the start of `serve_forever`, `Cleanup` is `_cleanup`, a crash leaves
the path naming a dead socket. There are two daemons, that of the watchdog, whose steps are
`Watchdog`'s, and that of the supervisor, whose `start`, watch loop, `request_stop` and
`shutdown` are `DevStart` to `Reap`. Left out: the readiness smoke, the preflight, a listen
backlog that is full, and jobs, which are in `WorkerDaemon`.

**V2Import** extends `EventLedger`: the importer and the backend are its writers. `Start` to
`InsertEvent` are `import_source`, one action between two commits or two reads; `Abort` is a
constraint, an error or a kill at any of them. Of the backend there is what shares a row with an
import: `Register`, an event, and the two halves of `increment_competencies`. Contents of
artifacts, display names and `--dry-run` are left out.

**LearningLoop** describes a call as a list of steps. A step reads one file (`Read`, or `Raise`
when it cannot be parsed), may truncate (`Truncate`) and rewrite it (`Write`), and decides with
`Follow` what comes next; `Effect` is what it writes. So `gate evaluate`, for example, is
`judge`, `pass` or `glance`, `tally`, `reward`, one `schedule` for each competency with the
`refresh` it brings, `ratchet` and `log`. A file is `Torn` when it does not parse: truncated, or
written over a longer text. `Cut` ends a call anywhere. The command line is one caller, each
thread of the dashboard server another. Left out: the text of sessions, the list of due events
in the model, misconceptions and confidence, blockers and prerequisites, and the advice itself.

**AgentWorkflow** has the node handlers of M38 as functions from agent to agent, `Visit` as one
turn of the loop of `run_workflow` with M37's `execute_tool` inside, `Interrupt` and `AbortRun`
as its other ends, `resume` from any checkpoint saved, and `Kill`. What the model proposes is
arbitrary: done, nothing, a malformed call, a lookup, a lookup that fails, or a post under any
key. The defects a learner may switch on are left out, and so is the repair loop of M37's
runtime, which M38 does not use.

**RobustAgent** puts the ladder of M39 on top: a task is `run_robust_task`, each rung a run of
`AgentWorkflow` with the policy of that rung instead of an arbitrary model, `Judge` the verdict
on it. A process runs one task, or uses the agent directly; a kill during a task ends both and is
not an action. What memory retrieval decides is the route, a parameter.

## 4. The runs

| run | what it shows | bounds, and why they are enough |
|---|---|---|
| `gate_contract` | the gate as a function | 28,242 contracts: all of up to 2 criteria (2 stages, one that does not exist or none; a competency or none; a kind or none; its own knowledge node or not), and all of 3 criteria that differ in stage and kind; thresholds 0, 1, those at and beside a half, 0.33 and 0.34 around a third, 0.66 and 0.67 around two thirds, and the counts 2 and 3. For a threshold of two decimals the doubles of the code decide like hundredths: an equal ratio is rounded to the same double, and another one is far more than a rounding error away; the shipped missions all ask for 1.0 |
| `session_solo` | all handlers in any order, with crashes | one session of a 3-stage mission with an experiment or of a 2-stage mission that passes at a third and names a missing stage; 2 predictions, so that re-sealing shows; the session is the unit these properties speak of |
| `today_any` | the dispatcher in every state; sharing between learners and sessions; refinement | 2 learners (symmetric), 2 sessions in all, of 3 missions, of which two are blocked, one by a mission the catalog lacks, and one has no knowledge node; two sessions are enough for a claim of another session or of another learner |
| `today_follow` | following the dispatcher ends | the same missions without the second; one session per mission is what the dispatcher makes |
| `ledger` | the ledger and the learners with an importer and the backend as writers | 3 rows, enough for a fork and a twin; 2 runs of one importer, so that a run meets what an earlier one left, forced or not; three bundles, two of one learner at different moments, with colliding user names; levels up to 2, so that the cap shows |
| `worker` | the races of one job, and that it ends | one job: jobs share nothing but the stop of the daemon, and the proofs cover any number |
| `watchdog` | who may start on the socket path, orphans, stops of the watchdog and of the supervisor | 2 restarts (the code has 8; the bound is proved for any number), 2 signals, two services; the watchdog's daemon starts up to three times beside that of the supervisor, in either order |
| `data_home` | update, rollback, backups and a running server over the same homes, each killed anywhere | 2 homes (one live, one restored, and back), 1 artifact, 2 migrations (an older and a newer), 2 archives: an update on top of an earlier one, or with its own snapshot before migrating |
| `learning_loop` | commands and dashboard requests over the seven files | 1 mission, 1 competency, 1 dashboard thread; 5 units of `MaxCalls`, where a command or a cut costs one and a request two: enough for evidence, gate, completion and a second completion beside a request; 2 retention stages and 2 days, so that a ladder ends; 2 records, one that passes the gate and one that does not |
| `agent_workflow` | the agent alone and under the ladder | 2 keys, the purchase's and another; 3 runs, so that a checkpoint is resumed twice; 2 proposals in each (the ladder has the code's 8 and 4); attempt bound and circuit threshold 1 to 3, around the 2 rungs; a safety ceiling of 4, which cuts runs short, or the default |
| `watchdog_race`, `data_home_cut` | expected violations | the findings below; `data_home_cut` needs 2 artifacts, one that is cited and one that is being uploaded |

`CHECK_DEADLOCK FALSE` is set where the system may stop: every job answered and the daemon
down, the watchdog and the supervisor ended, every mission complete, the calls of the bound used up.

### What is checked

*Session runtime.* `PipelineOrder`: stages are walked in order, one open at a time.
`WorkerHoldsStage`: the attempt that sent code is still open when the worker answers.
`PredictionSealed`: an experiment runs under the prediction on record. `SubmissionFinal`
and `CompletedFrozen`: what is submitted or completed does not move. `CompletedStillPasses`:
the gate of a completed session would pass again in every later state. `EvidenceProvenance`,
`MasteryEarned`, `ActivityTruthful`: evidence, levels and ledger events each go back to work
that was done. `ImplementsJourney`: the refinement.

*Gate.* `RepairPlanSuffices`: whoever submits the target stages of the repair plan passes.
`GateMonotone`: more work never turns a passing gate into a failing one.

*Today.* `RecommendationAccepted`: what it recommends the handlers take. For the learner who
follows it `SpineRespected` (one open session, prerequisites first) and `JourneyEnds`.

*Ledger and import.* `ChainRooted`: every row hangs on one older row of its learner.
`LinearAlone`: one chain while one connection writes alone; two that read the same latest hash do
give a learner two events with the same `prev_hash`. `WholeWhenTold`: an import that printed its
map of ids has every learner and every event of the bundle in its ledger, in order. `Additive`: it
touches the row of a learner who was there only with `--force`, after archiving that row, and lowers
no level. `LevelsKept`: as long as nobody uses `--force`, a gate overwrites what it has read.

*Worker.* `NoJobOutlivesAnswer`: no process runs on behind an answer. `AnswerHonest`: the answer is what
happened to the process; a SUCCESS without a result file is an exit with code 0, and never a child that
was killed. `StopKillsNoted`: a clean stop leaves no process that was on record. `CancelEndsJob` and
`JobsEnd`: cancelled jobs and jobs past their deadline end, also those whose client has gone.
*Watchdog and supervisor:* `NoOrphan`, `WatchedStopEnds`;
`StartsSafely`: unless two daemons start or clean up at once, the one that serves is the one the
path names, and a start fails on account of a living daemon only; `DevStops`: the supervisor ends
and leaves nothing that it did not kill.

*Data home.* `ArchiveClosed`: an archive written to its end, and a home restored from one,
have every artifact their rows cite; it holds because the database is copied first.
`MigratedOnce`: each migration at most once and none before an older one; it holds because the
version is a primary key inside the transaction. `DefaultUndoes`: whatever the update has
changed, the archive that a rollback takes by default undoes it; it holds because the pointer
is written before anything is changed, and because a run that follows a failed one has a new
archive of its own. `RestoredExactly`: what is reported restored is the archive alone.

*Learning loop.* `OneOpenEvent`: no two retrievals of a competency wait at once, even when stale
copies are written back. `ToldStaysTrue`: as long as the evidence file can be read, it has all evidence that was
reported recorded, and what every PASSED mission passed its gate with. A command that is cut between emptying the
file and writing it does lose all of it (`storage.py:28`); the property then says that the loss stays visible, since every
later command that needs the file raises, and none puts a default or a shorter list in its place.
`ModelAgrees` and `LadderKept` speak of histories in which no call was cut and no stale copy was
written back (`harmed` is FALSE), because otherwise the code loses updates: the derived model agrees
with the files, and the retention ladder forgets nothing.

*Agent.* `EffectsHonest`: over any interruptions, kills and resumptions no key is posted twice along a
line of checkpoints (the ledger is part of the checkpoint and goes back with it), nothing without a grant,
and what counts as completed was posted. `LadderHonest`: what a task reports
is what all its runs did. `RunEnds`: a run ends by its bound on turns and never by the safety ceiling
of visits, unless its caller set one.

### Fairness

`FollowSpec`: strong fairness of the learner's steps, because another handler may be half
way whenever the learner calls, and weak fairness of the second half of a handler: the
client of the worker has a timeout and a dead process is started again. This is an
assumption about the learner, not about the code.

`WorkerDaemon`: weak fairness of each request thread. None for the client, none
for the child, which may loop for ever, and none for its deadline, so that
`CancelEndsJob` does not lean on it and `JobsEnd` speaks of jobs whose deadline has passed. None for cancels, stops and crashes.

`Watchdog` and `WorkerHost`: weak fairness of the loops of watchdog and supervisor, and of a daemon
that is starting, stopping or was sent a SIGTERM: each is a process that runs. None for signals, crashes,
requests, the wall-clock cap, or the end of another service, which may ignore its SIGTERM.

`AgentWorkflow` and `RobustAgent`: weak fairness of the loop that drives the nodes and of the ladder,
both plain loops of one process. None for callers and kills.

### Findings

1. `watchdog_race`: a stop signal during Popen is lost for the daemon that is being started.
2. `data_home_cut`: a backup that fails while it adds the artifacts leaves a readable archive under
   its final name. The update that wrote it stops, its pointer is not written, and a home
   without an older pointer falls back to the newest archive by date, which is this one. The
   rollback reports success with artifacts missing. `ArchiveClosed` is about archives that were
   written to their end and is not affected.

Not runs, but visible in the models:

* A session is completed with stages that were never entered when its contract is met without them
  (`gates.py:321`; WP-122, line 55, says all required stages come first): the last stage of
  the missions carries no required evidence. `MissionJourney` therefore certifies at any stage.
* Evaluating the gate of a COMPLETED session raises its levels again, up to 5 (`EvaluateGate` has no
  guard on the status), and so does `gate evaluate` in the V2 runtime for the autonomy level.
* A busy job may end in CRASHED where WP-140, line 25, promises a clean TIMEOUT: the CPU limit equals the
  deadline (`sandbox.py:457`, `sandbox.py:534`).
* A child that ends its process with exit code 0 before its result was written is answered SUCCESS
  (`sandbox.py:537`), although nobody knows that the code ran to its end. `AnswerHonest` names this case.
* A job that is between Popen and its callback when the daemon stops, and every job of a daemon that is
  killed, runs on until its CPU limit (`daemon.py:133`); nothing looks for it.
* An update that is killed between the archive and the pointer leaves the default of a rollback at the
  archive before it, where the help of `rollback.py` (line 160) says the latest; nothing has been changed
  at that point, so `DefaultUndoes` does not speak of it. WP-142 describes a failed migration as
  restored from a snapshot; the code rolls back the transaction, and the snapshot stays unused.
* An update that failed half way and is tried again points the rollback at a backup of the half-updated home;
  `DefaultUndoes` speaks of what the current run has changed.
* Two bundles with the same id or sanitized user name cannot both be imported without `--force`: the
  second aborts, and each retry imports the first under another fresh id. With `--force` two bundles of one
  learner are merged without a word, and a gate may overwrite the level an import has just raised.
* Two daemons that start at the same moment can both find a stale socket, and the second then unlinks the
  path of the first; `StartsSafely` assumes `[]Calm` for that reason.
* `GET /api/dashboard` marks due events and so rewrites `retention` and `model` from a stale copy; what the
  command line wrote in between is lost, which is why `ModelAgrees` and `LadderKept` exclude it.
* An approval is sticky: only the first effect of a workflow pauses, and a later `denied` is ignored after a
  grant. A key that is posted again with another amount returns the entry on record. A denied purchase is
  reported as degraded by M39, since the rung below it succeeds.

## 5. The proofs

Checked by TLAPS for every value of the constants, under the assumptions named in the
modules: `BoundsAssumption`, `NumStagesAssumption`, `ExperimentsAssumption`,
`ContractAssumption`, `ArtifactsAssumption` and `SentinelAssumption` (bounds are naturals, the
catalog's functions have their types, sentinels are no ordinary values), `CatalogAssumption` (the catalog
lists every mission, and blocking prerequisites come earlier), `ContractsAssumption`, `MaxRowsAssumption`,
`WatchdogAssumption`, `HostAssumption`, `DataHomeAssumption`, `ImportAssumption`, `LoopAssumption`,
`AgentAssumption` and `LadderAssumption`. TLC evaluates them on every run. `WorkerDaemon` has none.

**SessionRuntimeProofs.** `TypeCorrect` first. The safety theorems share the inductive
invariant `Inv`: types, `PipelineOrder`, `WorkerHoldsStage` and `PredictionSealed`. None is
inductive alone but the types: that an execution lands in an open attempt rests on
`busy` holding the stage, and that later stages have no attempt rests on executions landing
in the current one.
`SubmissionFinal` follows from `Inv` and the lemma that a step writes only to the current
stage. `CompletedFrozen` follows from the guards that need an ACTIVE session, together with
`WorkerHoldsStage` for the one write that has no such guard. `CompletedStillPasses` adds
that evidence and submissions only grow (`EvidenceGrows`) and that the verdict is monotone
in them (`VerdictMonotone`: more claims satisfy no fewer positions, and cardinalities of
finite sets are monotone).
`EvidenceProvenance` is inductive together with `Inv`: rows keep their learner and mission,
what is submitted stays submitted, and only `submit_stage` submits. `MasteryEarned` rests on it
(`PassedWorked`: a criterion the gate counts was worked for by that learner). `ActivityTruthful`
is strengthened to say that the event about to be written has happened too, since it is written
in a transaction of its own.
`ImplementsJourneyHolds` is the refinement: the stages a session has submitted are always
`1..n` (`DonePrefix`), so counting them loses nothing; `create_session`, `submit_stage` and a
passing `evaluate_gate` are steps of `MissionJourney`, where `PassedAnswered` and
`ThresholdMonotone` give that the certificate is deserved, and every other step stutters. It
needs that no mission is named `Unset` (`SentinelAssumption`).

For `Today` the invariant gains `WaitsAtLast`: `submit_stage` opens the next stage in the same commit,
so a session whose current stage is SUBMITTED is at its last one, where the recommended gate is what the
handlers accept. With it `RecommendationAcceptedHolds` is a case analysis over `project_today`.
`SpineRespectedHolds` is about the learner who follows it: `FollowNextIs` shows that such a step either
creates no session or starts the recommended mission, for which no session is ACTIVE and no session of the
mission exists; what has been completed stays completed (`CompletedFrozen`), so a prerequisite met once is met
for good.

**GateSessionsProofs.** What a criterion asks for is the existence of a claim or of a submitted stage, so
more of either satisfies no fewer (`GateMonotoneHolds`). The plan targets the stage of every criterion that
fails: if each contract names stages and its threshold is a ratio, submitting those satisfies all positions,
and a ratio of all is reached (`RepairPlanSufficesHolds`). Contracts may be of any length, and stages and
artifacts any sets.

**V2ImportProofs.** The first part is about `EventLedger` alone. The invariant says that hashes are unique, that every row hangs on an
older one, and that the predecessor a writer has read is a row of its learner, or there was
none. `LinearAloneHolds` adds, for a writer that is alone throughout, that what it has read is
still the latest.
The second part is about the importer. `ImportImplementsLedger` shows that each step of the composition is a step of
`EventLedger`'s `Spec` or a stutter, so `ChainRooted` and `LinearAlone` are inherited. `ImportInv` says
what a run may rely on between looking and writing: an identity that overwrites comes from a forced run,
was taken when it was planned, and is in the archive when it is written, since no learner is ever
deleted; `ImportAdditive` follows. `ImportKeepsLevels` follows from the same plan: an unforced run inserts
only. `WholeInv` adds how far a run has come: all items before the current one are whole, and the current
one has its first `sent` events, witnessed by increasing positions, which rows appended later do not
disturb.

**WorkerDaemonProofs.** The invariant is per job and relates the thread's place to the process
and to the table: no process before SPAWNED, none alive after DECIDED, an answer that agrees
with file, exit code, signal and cancel flag, and a client that was told that answer. Each action is
shown to keep the invariant of its own job and to leave the others alone, so the result
holds for any number of jobs. `StopKillsNotedHolds` adds, from a stop on, what becomes of a process whose group was on
record when the stop took its snapshot: it is on the list of groups to kill until it is dead, and the daemon does not
exit before.

**WatchdogProofs.** The invariant adds where the loop may be while a daemon runs, and that
`restarts` is at most the bound until the loop ends. `WorkerHost` then maps each of its steps to one of
the watchdog or to a stutter (`ChangesRefine`), as far as this invariant sees, so `HostNoOrphan` follows
from the same argument. `HostStartsSafely` needs `Exclusive`: of two daemons at most one is between probe
and bind, and none cleans up then. That is what the hypothesis `[]Calm` gives at each step, and with it
`Bound` and `Reachable` are kept.

**LearningLoopProofs.** A call writes back what it has read, however old. So `LoopInv` says of the events
in the file and of those in every copy a call holds that at most one of each competency waits, and
that each list of steps is one its command can bring about; each effect keeps that. `TruthInv`, for
`ToldStaysTrue`, rests on the evidence and the learner's progress being written by the command line alone:
`Evidence` is the file, or the command's copy while it rewrites the file; it only grows, the gate is monotone
in it, and a `pass` step is planned only after a verdict on it.

`LadderKeptHolds` and `ModelAgreesHolds` are about runs in which nobody was harmed. There no copy is stale
(`Calm`), so a file can be replaced by what it will be once the rewrite under way is finished (`Now`), which
changes at once when a step is taken and at no other time (`CalmSteps`). What the files owe each other in the
middle of a command must then be found in what is left of the command: `Plan` says which steps these are, by
the step the command is at. `LadderOK` is `LadderKept` with these exceptions: a competency of a passed
mission that is not scheduled yet has a `schedule` step, or the `reward` that brings it; an event that is
neither open nor at its last stage has its successor in the plan; a verdict that was reported stands unless
the same event is completed again. For the model at most one step is owed (`Owed`), and `Paid` gives the files as
they are after it: those agree at every moment (`AgreeInv`), whether a step owes something, pays what is owed
or does neither. A dashboard thread writes none of the model's sources, and marks due what stays open. Both
need that finite counts and sequences grow by one record at a time, for any length of the files.

**RobustAgentProofs.** `Sound` relates agent and ledger, at every node, also in each checkpoint, and is kept
by each node's handler for an arbitrary proposal; the ladder restricts the proposals, so it inherits the
invariant. `NeverCutOff` is the safety half of `RunEnds`: a run has visited at most `Spent` nodes, one and
five for each turn counted in its checkpoint, which the default ceiling exceeds.
`LadderHonestHolds` follows a rung along what its fixtures propose (`OnScript`): look up, post under the one key, be
done, or malformed throughout when a failure is injected. `Entries` is what has been posted at each place of
that script, so a rung that ends before the post left nothing, and a task climbs only with an empty ledger. It
needs `MAX_STEPS` to be at least 3, the turns that a purchase takes (the code has 8): with fewer a rung would be
cut off after its post and before it is complete.

**DataHomeProofs.** The homes share a sequence of archives, and most of the invariant says what a
process may rely on between two of its steps although the other one works on the same home.
`Apart` and `Packing`: the archive a process is writing is its own, and as the process began it.
`Copying`: what the copy of the database cites has been listed or is in the home, since artifacts
are never removed; `ArchiveClosed` follows when the archive is closed. `Dumped`: the copy is in
order and no newer than the live database. `Pending`: an older migration than one that a process
read as pending is pending too, or took effect since, and then `Appliable` fails; `MigratedOnce`
follows. `Pointing` and `Undoing` carry the archive of the running update from its end to the
pointer and beyond; `DefaultUndoes` follows. `Restored` keeps a home that was
reported restored out of the processes' reach until `Switch`; `RestoredExactly` follows. Each
action has a lemma for each part it can disturb. TLC has checked the same invariant on the
instance of `data_home`.

Only model-checked: all liveness (`JourneyEnds`, `CancelEndsJob`, `JobsEnd`,
`WatchedStopEnds`, `DevStops`, `RunEnds`), since it depends on fairness and ENABLED, which the prover does not
handle. Every invariant and every action property that a passing run checks is stated by a theorem.

## 6. Not modelled

See the components with status `not_modelled`, each with its reason. The main ones: curriculum reloads and
the tutor's lock (section 2), the installer, secrets and configuration, which write single files; the text of
the migrations, `config.json` and the probe of `update --simulate`; the advice and the retrieval of the V2
runtime, which only read; the runners inside the child, the validation of curriculum, the authoring tools and
the frontend, which are sequential code or presentation, abstracted to what they leave behind.

By lines, most of the repository is curriculum: the code of the missions other than M37 to M39, the
notebooks under `labs/`, and datasets. That code is numerical (embeddings, ranking, backpropagation,
evaluation metrics over fixed data), sequential, and keeps no state between calls; what it computes is a matter
of floating point and of data, about which a model of states and steps has nothing to say. It is therefore
left out, and the share of the repository's lines that `map` names is small for this reason.

Assumed throughout: SQLite transactions are atomic and durable; SHA-256 has no collisions;
a process group that is sent SIGKILL is gone when `kill_process_group` returns; the backend is
one process; a rename replaces a file at once, while `open(..., "w")` first empties it.
