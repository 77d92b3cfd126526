# compute-backend: TLA+ models and proofs

Specifications of the job path of this repository - the orchestrator, the
runners that drain its queues, the admin service that works on the same stores -
and of the services around it, with TLC instances and TLAPS proofs.

## The system

| component | code | state | operations | talks to |
|---|---|---|---|---|
| orchestrator | `orchestrator/src/state.rs`, `main.rs` | per process: `jobs: RwLock<HashMap<Uuid, JobRecord>>`, one `watch` channel per record; shared: Postgres `jobs`, `job_events`; Redis `job:<id>`, `queue:[<node>:]<model>` | submit, details/status, stream, cancel, runner event | Postgres, Redis, model registry, control plane |
| registry cache | `orchestrator/src/registry.rs` | models by external id and by id, fetch time | look-ups, refresh, fetch | admin service |
| node selection | `orchestrator/src/control_plane.rs` | none | first READY node with the model | control plane |
| runner worker | `runners/template/app/worker.py`, `runner-qwen/app/worker.py` | the job it holds | BLPOP, GET payload, report, generate, report | Redis, orchestrator |
| flux runner, `pkg/queue` | `runner-flux/app/worker.py`, `pkg/queue/redis.go` | `job:<id>` records with a status of their own, ids in two lists | enqueue, dequeue, complete, fail | Redis, orchestrator |
| admin service | `cmd/admin-rest/main.go` | none of its own | clear lists, wipe Redis, delete rows, import and promote models | Redis, Postgres |
| model registry | `pkg/modelregistry/postgres.go` | models, versions, runner configurations | create, import, promote, list | Postgres |
| control plane | `pkg/controlplane/*` (its binary is not in the repository) | nodes, assignments, events, in a JSON file or Postgres | create, update, assign, provision, delete | SSH to nodes |
| builder | `cmd/builder/main.go`, `pkg/builder/*` | build records, logs, subscriber channels | create, run, stream logs | shell command, registry |
| gateway | `cmd/gateway/main.go`, `pkg/orchestrator/client.go` | none | proxies, 15 s client timeout | orchestrator |
| stubs | webhook dispatcher, workflow engine, auth, telemetry, falcompat | none | - | - |

What is hard about it, and what makes it correct:

* **Orchestrator.** A handler is cut at every `await`, and dropped there when its
  caller hangs up or an error returns. The table is written under the lock, but
  the row, the event and the last `send_replace` after it; `ensure_job_cached`
  takes a lock, a query and another lock. The deployment runs two replicas, each
  with its own table. Correct means: what a caller was told is true of Postgres and
  Redis whatever fails afterwards; the process that took a job never forgets what it
  was told of it; a job is canceled once and never waits again; an id is handed out once.
* **Runners.** At most once: BLPOP removes the id first. Errors of a report are
  logged and dropped; what raises outside of the `try` of `process_job` ends a job unreported.
  Correct means: no job runs twice, and without accidents every job that its runner can read and
  report on ends as the runner said.
* **Admin service.** Removes rows, lists and payloads while handlers hold copies.
* **Builder.** Goroutines of builds and of log streams share a lock, a slice that one
  reads without it, and buffered channels that are closed while others send. Correct
  means: no line falls between replay and broadcast; nobody sends to a closed channel;
  builds and streams end.
* **Control plane.** With a file every update is under a mutex, but its event is saved
  in a section of its own and a failed save leaves the map ahead of the file; with Postgres an
  update is a read, a change and an upsert without a transaction. Nothing keeps two
  provisioning runs of a node apart. Correct means: what was acknowledged holds; a node is
  PROVISIONING because a run is at work on it; a node found for a model serves it.
* **Model registry.** A creation or an import is up to three statements without a
  transaction. Correct means: what was to be promoted is served, or something failed.
* **Registry cache and node selection.** A fetch holds no lock; what it brings is stored
  as new when it is stored. Model, version and node come from three answers. Correct means: a
  submission is refused only with a reason, and its job has a version of the model asked for.
* **Gateway.** Gives up after 15 s while the orchestrator goes on.
* **Flux runner, `pkg/queue`.** One id in two lists, taken by BLPOP from one and by LREM from
  the other; errors of the backend run into a name that is not imported. Correct means: one run
  per job, and a result or an ERROR for each.

## Modules

| module | models | how |
|---|---|---|
| `Orchestrator` | the job store with all its handlers | one process per HTTP request; one action per stretch between two awaits |
| `JobLifecycle` | what the orchestrator promises of one job | status, absorbed reports, granted cancellations |
| `OrchestratorRefinement` | `Orchestrator` implements `JobLifecycle` | status and log lines of the record that `create_job` made, while its process lives |
| `Platform` | orchestrator, runners, admin service, Redis expiry | runners wait for the handlers of the reports they post |
| `Builder` | builds, their logs and their readers | one process per goroutine; one action per stretch between two waits for the lock, a channel or the command |
| `ControlPlane` | the node stores, the provisioner and the host it installs | one process per goroutine; one action per lock section, statement or command of the host |
| `ModelRegistry` | models, versions, promotion and their handlers | one action per statement |
| `Admission` | how a submission becomes a job: gateway, registry cache, node selection, over `ModelRegistry` | one process per submission, cut at its awaits |
| `NodeQueue` | `pkg/queue` and the flux worker | one action per Redis command |
| `OrchestratorProofs` | `Shape` is an invariant | TLAPS |
| `OrchestratorSafety` | audit, positions, submissions, deliveries | TLAPS |
| `OrchestratorTable` | the records a process created, and the refinement of `JobLifecycle` | TLAPS |
| `PlatformProofs` | the safety properties of `Platform` | TLAPS, over the three above |
| `BuilderProofs`, `ControlPlaneProofs`, `AdmissionProofs`, `NodeQueueProofs` | the safety properties of the module named | TLAPS |
| `MCOrchestrator`, `MCPlatform`, `MCBuilder`, `MCControlPlane`, `MCAdmission`, `MCNodeQueue` | instances for TLC | event bodies, runners and their lists, command output, names and older models, symmetry |

How `Orchestrator` corresponds to `state.rs`:

* `mem`, `notifier` are `StateInner.jobs` of each replica, data and sender;
  `watch` is the value in a channel. A channel is named by the handler that made
  it (`create_job` or `ensure_job_cached`).
* `pc`, `proc`, `target`, `event`, `local`, `sender`, `answer` are a handler's
  place, replica, job, body, its clone of the data, the sender it cloned, and the response.
* `rows`, `audit` are the two Postgres tables, `keys` and `queue` what Redis holds,
  `delivered` counts pops, `clock` is `Utc::now()` at submission.
* A job is named by its submission, a log line or result by the request that
  carried it. `lines` is therefore the set of requests whose line is in the log, which is
  what tells a stale copy from a fresh one.
* `Abandon` is every error that `?` returns and every dropped connection, at any
  await. `CancelIgnoresDbError` is the `let _ =` of `cancel_job`. `Restart` is the
  death of a process with all its handlers.
* `BeginSubmit` follows model and node resolution, so a submission that fails
  before it draws its id leaves no trace and is not a step. The list is any queue.
* `updated_at`, `store_io`, `fal_webhook`, artifacts and payload bodies are not
  in the model: no handler's control depends on them.
* A stream that would send the same snapshot twice sends it once.
* `idType` is the type of the id columns. The code binds each id as a `String`; every schema in the
  repository (`cmd/admin-rest/main.go:37`, `data/migrations/0002_job_store.sql`) makes it a UUID, and
  `tokio-postgres` refuses the one for the other. With `"uuid"` every statement about a job is an error (`Refused`;
  `Executes` is false), with `"text"` - a database that was set up otherwise, or code that binds the `Uuid` - the
  statements do what they say. `Init` has both. With `"uuid"` no submission is answered 201
  and no report 202 when a database is configured, so what the properties say of rows and audit is said of
  `"text"`, and what they say of the table and the lists of both.
* `Own(r, j)` holds of a record that `create_job` made in this life of process r. After a restart, or at the
  other replica, `ensure_job_cached` makes a record of the row: its channel has the name of the handler that looked
  the job up. Two look-ups that miss may both do so, and the second overwrites what was
  changed in between (`PutAgain`). The properties about the table are about `Own` records; of the others
  `TableMovesOnward` says that nothing but this overwrite takes them back.

`Platform` adds the worker loop (`stage`, `held`, `call`). A report is a request of
`Orchestrator`; `Answered` is the return of `post_event`, with success or
not; `PostLost` is a connection error or the 30 s read timeout, after which the handler
may still be running; `Crash` loses the job. Three exits of the worker need no accident. `BodyRaises`: a
payload that is a string, a list, a number or true (`odd`) raises at `payload_body.get`, outside of the `try`, and the
loop polls on (`LetGo`). `ClientRaises`: the callback client, made on first use, raises - `httpx.Timeout` is called
with three of its four values, which the pinned release refuses. `Unsent`: without a callback URL `post_event` returns
at once. `Init` draws `odd` and `client`, and `Readable` is the job these exits spare. `ClearQueue`, `WipeRedis`, `DeleteJob` and
`KeyExpires` are the admin endpoints and the 24 h TTL.

How `Builder` corresponds to `cmd/builder/main.go` and `pkg/builder/store.go`:

* `script` is what `runBuild` has still to call, chosen by mode and outcome; `pc` is
  where a goroutine is inside `AppendLog`, `CloseSubscribers` or its pipe.
* `lock` is set only where a holder waits or writes in more than one step
  (`Subscribe`, `CloseSubscribers`); every other critical section is one action that needs it free.
* A line is its index in `rec.logs`, so `logs` is a length. `settled` and `replayed` tell
  what became of each line for each reader.
* `RangeLoop` reads `rec.subscribers` without the lock. Beside the old or the new value a racing
  read may see a torn slice, and the process dies (`RangeTorn`), as it does on a
  send to a closed channel (`DeliverToClosed`). The service then starts empty, which
  is a new behaviour of the model.
* `Overlong` are the outputs that may have a line longer than a `Scanner` takes: `ScanFails` then ends the
  reader while the command still writes, and nobody empties the pipe (`Undrained`). A command in this
  position may block for ever, so its exit is fair only outside of it.
* `unread` is drawn when the command starts: a line that is printed late is one that is read late.
* Postgres is left out because it never holds a build: `PostgresStore.Create` names 10
  columns and gives 11 values. With a database configured, every `GET` of a build is a 404.

How `ControlPlane` corresponds to `pkg/controlplane`:

* `kind` is the store the server was built with: `Store` keeps `row` in memory and `disk` in
  its file, `PostgresStore` keeps `row` in its table. `UpdateFile` and `Note` are the two lock
  sections of `Store.UpdateStatus`; `ReadRow` and `SaveRow` are the two statements of
  `PostgresStore.UpdateNode`. `Save` is `save` with its error.
* A node is its status and the models assigned to it. Credentials, versions and the text
  of events are left out; that an event saves the whole file is not. `UpdateSecrets` does to the
  store what assigning a model once more does, so `Edit` stands for both.
* A run r is one call of `Provision`; runs are numbered in the order they start. `WriteEnv`, `PushCompose`,
  `Move`, `RestartUnit` and `Check` are the commands of `installRunner`, each with its error.
* Of a host the model has the SSH user (`root`), the account `vyvo`, the compose file in `/tmp`
  and the installed one, and the one the unit was last started with. A second run that finds the
  unit up does not restart it by the script's `systemctl start`, only by its own restart.
* `stale`, `shared` are history: a save overwrote a row that had changed, or a caller of `CreateNode` put a
  node over one that was there, or gave it a status of its own; runs overlapped. `life`, `acked` are what callers were told.
* `ServerRestarts` loses the goroutines and, with the file, what was never saved.
* `PushCompose` may fail with any part of the file written (`Written`): `Create` empties it first.
* `CreateFile` always registers a new node that is PENDING. `CreateRow` (Postgres) keeps an id and a status the caller
  gave, and upserts; the model does not register a node again once it is `stale`.
* `docs/control_plane.md:51` (PENDING, PROVISIONING, READY or ERROR) is followed by `StatusMovesAsDocumented`. Lines
  48-49, where the setup script is executed first and the files are written after it, are not followed by
  the code: `installRunner` writes the files first (`provisioner.go:186`, `WriteEnv`) and gives them to an account
  that only the script, which runs later (194, `AddAccount`), adds. A user who is not root never gets a
  fresh host past the first file. This is read off the code, and no run is about it.

How `ModelRegistry` and `Admission` correspond to their code:

* `model`, `version` are the two tables, `past` the answers `GET /api/models` has had: a cached
  or fetched listing is an index into it, 0 for an empty one. Versions have no status in the
  model: `PromoteVersion` does not ask for it, and neither does any reader here.
* `pc`, `ask`, `step`, `got`, `found`, `job` are a handler's place in `create_job` and
  `resolve_model`, its identifier, which of the four look-ups it makes, the listing fetched and not stored,
  the one that had the model, and its selection. The rest of `create_job` is the module
  `Orchestrator`, here one step (`Admit`).
* `fresh` is `fetched_at.elapsed() < ttl`, and `Expire` its end. `rolledBack` and `late` are history: an
  older listing was stored over a newer one; a listing read before an expiry was stored after it.
  Both happen in the run, and both properties fail without their excuse.
* `Fleets` is every answer the control plane may give: any model with any version on any node, as no store
  compares the two. A
  submission without a control plane configured takes no node and is not in this module.
* The timeout is a step only once the handler is at its last two places: earlier, a handler
  that is dropped and one that never goes on look alike.
* A job is pushed to the list of the identifier that was asked for. A submission that names a
  model by its row id, or by a name that only matches by its last part, is therefore queued where no
  worker listens; this needs no interleaving and is not a property.

How `NodeQueue` corresponds to `pkg/queue/redis.go` and `runner-flux/app/worker.py`:

* `record`, `list` are `job:<id>` and how often each of the two lists has each job; the order in a list is left out.
* `EnqueueAgain` is a push the Go client repeats because its answer was lost (go-redis does, by default): two copies in one
  list. `Loses` is a pop whose answer is lost: the id is gone and nobody has it.
  `enqueue` is how far `EnqueueJob` is. `pc`, `cur` are a worker's or consumer's place and job.
* `params` is what the worker finds in the record: a prompt, none (as in every job the
  orchestrator queues, whose record has a `payload` and no `params`), or what raises an exception before the `try`.
* `client` is the callback client, as in `Platform`: `"none"` without a URL, when `post_event` returns and sends
  nothing; `"works"`; or `"raises"`, on `httpx.Timeout` with three of its four values, outside of the `try` of
  `post_event`. `ended` has the jobs with a result or with an ERROR report that was sent.
* `Run` ends in a result or an exception. `except HTTPException` names nothing in that module, so an exception
  becomes a NameError: the record stays processing and nothing is reported.

## Runs

| run | instance | shows |
|---|---|---|
| `OrchestratorLife` | 1 process and its restarts, 1 job, 2 cancellations, 1 report | `TypeOK`; of the records the process created: `TableIsAhead`, `AcceptedIsKept`: no row, channel or copy is ahead of one or replaces it; `OneCancellation`; `TableIsLifecycle`: they implement `JobLifecycle`; of all records `TableMovesOnward` |
| `OrchestratorRestarts` | 2 replicas, restarts, 1 submission, 1 report, 1 stream | `DeliveredAtMostOnce`, `CreatedIsDurable`, `ListedIsReady`, `AcceptedIsAudited`, `PositionOnlyInQueue` |
| `PlatformReliable` | 1 process, 2 jobs, 4 reports, 1 runner, no accidents, fairness | `ThroughIsEnded`, `EndedIsFinal`, `EverySubmissionEnds` (liveness) |
| `PlatformHostile` | 1 process, 1 job, 1 report, 1 stream, 2 runners on 2 lists, every accident and admin operation | `OneRunner`, `DeletedStaysDeleted` |
| `OrchestratorSnapshot` | 1 report, 1 poll, 1 stream, no failure | violated `StreamShowsTheRecord`: the poll sends the snapshot it took before the report, after it |
| `OrchestratorStream` | 1 report, 1 stream, fairness, no failure | violated `StreamTerminates`: the sender stays in the table |
| `PlatformCancel` | 1 job, 1 cancellation, 1 runner, no accidents | violated `CanceledIsNotRun`: the id stays in the list |
| `BuilderLogs` | 1 build in either mode, 1 reader, channels of 2, 1 simulated step, 1 printed line that may be too long, fairness | `NoLineFallsBetween`, `SucceededHasWhatWasRead`, `PanicNeedsFailure`, `ClosedOnce`; `EveryBuildEnds`, `EveryStreamIsClosed` (liveness) |
| `ControlPlane` | 1 node, 1 model, 2 provisioning runs, 1 editor, either store, root or not, 2 restarts or storage errors, until the node is stale | `AcknowledgedHolds`, `ProvisioningHasRun`, `FoundIsLoaded`, `StatusMovesAsDocumented` |
| `Admission` | 2 models, one there before, with two names of one last part; 2 versions, 1 administrator at a time with others' single statements, 2 submissions, 3 listings, 1 failure | `UnservedNeedsFailure`; `UnknownNeedsFailure`, `StaleOnlyByLateFetch`, `JobOnItsVersion` |
| `NodeQueue` | 1 job, for a node or not, 2 workers of the node, 1 without a node, 1 Go consumer, 2 mishaps, fairness | `OneRunUnlessRaced`; `EveryPopEnds` (liveness) |
| `BuilderDrain` | the same, command mode | violated `SucceededIsDrained`: `cmd.Wait` closes the pipes under their readers |

The bounds are the smallest at which the steps the properties speak of can
interleave. Every request is one handler invocation, so two requests to an
endpoint are two overlapping invocations; a handler has at most one
unlocked window, so a stale copy needs its holder and one more writer. After a restart of
`OrchestratorLife` the submission's row is there, and the cancellations and the report look it up: three
handlers are one more than the overwrite needs. Two jobs,
in `PlatformReliable`, are what a position and a list order need. The restarts run has two replicas
because an id or a row left by one is then used by the other; its theorems below
hold for every number. Deadlock is not checked: a service without callers waits.

In the builder's run a channel of 2 instead of 32 brings both a full channel and a replay
that does not fit within three lines; one reader meets up to three writers (the build and
its two pipe readers); a second reader adds no interaction but the wait for the lock,
which the writers already have. A line that is too long is one that `ScanFails` leaves unread, whatever its length.

In `ControlPlane` two runs and an editor are three writers of one row: a stale copy needs two, and
the run that finds the traces of another one is the second. One model is enough, because what is lost
or kept is an assignment. Nodes share the file, and nothing else; with a mutex and whole
saves a second node adds no case. In `Admission` a rollback needs two overlapping fetches and one
change of the listing, a late fetch an expiry between answer and store; three listings have
room for creation and promotion of a model beside the older one. Jobs of `NodeQueue` share no key
but the lists, whose order is left out, so one job shows every case; two workers of a node are needed for the gap
between BLPOP and LREM. `MaxMishaps` and `MaxFailures` are 1 where the properties excuse what a failure
explains, and are then about what happens without one; `MaxMishaps` is 2 in `NodeQueue`, for a repeated push beside another mishap,
and in `ControlPlane`, for a failed save and the restart that shows it. There the state constraint `UntilStale`
does not follow a node beyond the step that makes it `stale`: it stays so, and nothing but `TypeOK`, which is proved, is
claimed of it from there. No liveness is checked in that run.

Fairness. `FairSpec` and `ReliableSpec` assume weak fairness of every handler that has
begun (the Tokio scheduler polls each task that is ready) and of each runner (one
asyncio task in a `while True`). Nothing obliges a caller to come, and `Dequeue`
happens only as a runner's step in `Platform`. Neither specification contains failures:
with them a job may be lost (a crash after BLPOP), which the code does not repair.
`BuilderSpec` is fair to each goroutine and each registered reader (the Go scheduler,
and `sync.RWMutex`, which starves nobody) and assumes that a command exits, unless it still writes to a
pipe that nobody reads any more.

`ControlPlane` assumes no fairness and has no liveness property: the SSH handshake, SFTP and the moves of files have no
deadline, `runCommand` opens its session outside of the `select` on the half hour's context
(`provisioner.go:448`), and no storage call takes a context. `NodeQueue` is fair to a worker that has a job; the backend returns or raises. `Admission`
has no liveness property: a fetch has no timeout.

What does *not* hold, and is therefore not claimed: a record that a process made of a row is not
invalidated when another replica writes the row, and two look-ups that miss - at the other replica, or after a
restart - can put the row back over an accepted report or a granted cancellation, so none of the properties about
`Own` records is true of it, nor is the finality of an outcome; a row may lack a report that the table has; with
the repository's UUID columns no job is stored at all, although `docs/phase2c_orchestrator_artifacts.md:13` says
"Orchestrator stores job record in Postgres (`jobs` table) and enqueues work": with a database configured each
submission fails at `InsertRow`, before its id is pushed; a job whose
enqueue failed stays in the table as IN_QUEUE and is counted in the position
of every later job; a late report moves a finished job; a job whose payload is no object, or whose runner's
callback client raises, is dropped unreported. A builder whose reader asks for
a log of more than 32 lines stops for good (`Stuck`), holding the lock of the store; a command that still writes after one of its lines was
too long may never exit (`Undrained`), and its build stays RUNNING; a
command that fails may take the process with it; a reader that comes after the end of
a build waits for ever. A node may be PROVISIONING without a run after a restart; with Postgres
an assignment can be lost and a deleted node can come back; a model whose import failed halfway
stays unserved, as its external id is taken; a job on two lists can run twice in the
gap between BLPOP and LREM, amid its pushes, after a repeated push, or by a worker that knows one list only. The liveness properties of `Builder`
name `Stuck`, `Undrained` and the death of the process as their exceptions, and a reader that came in time as their premise; the
liveness properties of `Platform` have `Readable` and the `"text"` columns as theirs; the properties of `ControlPlane`, `Admission` and `NodeQueue` name the rest as theirs.

## Proofs

Every invariant and every action property that a passing run checks is a theorem, for every
value of the constants, and so is the refinement of `JobLifecycle`. The pattern is the same
throughout: an inductive invariant, a lemma that the initial states have it, a lemma
that a step keeps it with one step per action, and a theorem that draws the property from it.

| module | theorem | property | over |
|---|---|---|---|
| `OrchestratorProofs` | `TypeCorrect`, `ShapeInvariant` | `TypeOK` | `Spec` |
| `OrchestratorSafety` | `PositionCorrect` | `PositionOnlyInQueue` | `Spec` |
| | `AuditCorrect` | `AcceptedIsAudited` | `Spec` |
| | `ListedCorrect`, `CreatedCorrect` | `ListedIsReady`, `CreatedIsDurable` | `Spec` |
| | `DeliveryCorrect` | `DeliveredAtMostOnce` | `Spec` |
| `OrchestratorTable` | `TableAheadCorrect`, `OnwardCorrect` | `TableIsAhead`, `TableMovesOnward` | `Spec` |
| | `AcceptedCorrect`, `CancellationCorrect` | `AcceptedIsKept`, `OneCancellation` | `Spec` |
| | `LifecycleRefinement` | `TableIsLifecycle` | `Spec` |
| `PlatformProofs` | `PlatformTypeCorrect`, `OneRunnerCorrect` | `PlatformTypeOK`, `OneRunner` | `HostileSpec` |
| | `DeletedCorrect` | `DeletedStaysDeleted` | `HostileSpec` |
| | `ThroughCorrect`, `EndedCorrect` | `ThroughIsEnded`, `EndedIsFinal` | `ReliableSpec`, one process |
| `BuilderProofs` | `BuilderTypeCorrect`, `NoLineCorrect` | `BuilderTypeOK`, `NoLineFallsBetween` | `BuilderSpec` |
| | `SucceededCorrect` | `SucceededHasWhatWasRead` | `BuilderSpec` |
| | `ClosedCorrect`, `PanicCorrect` | `ClosedOnce`, `PanicNeedsFailure` | `BuilderSpec` |
| `ControlPlaneProofs` | `TypeCorrect`, `AcknowledgedCorrect` | `TypeOK`, `AcknowledgedHolds` | `Spec` |
| | `ProvisioningHasRunCorrect` | `ProvisioningHasRun` | `Spec` |
| | `FoundCorrect` | `FoundIsLoaded` | `Spec` |
| | `StatusCorrect` | `StatusMovesAsDocumented` | `Spec` |
| `AdmissionProofs` | `AdmissionTypeCorrect`, `ServedCorrect` | `AdmissionTypeOK`, `UnservedNeedsFailure` | `Spec` |
| | `KnownIsFound`, `JobOnItsVersionCorrect` | `UnknownNeedsFailure`, `JobOnItsVersion` | `Spec` |
| | `StaleCorrect` | `StaleOnlyByLateFetch` | `Spec` |
| `NodeQueueProofs` | `QueueTypeCorrect`, `OneRunCorrect` | `QueueTypeOK`, `OneRunUnlessRaced` | `Spec` |

The bounds (`MaxMishaps`, `MaxFailures`, `MaxListings`) are constants like the others: the theorems hold for each
of their values. No theorem uses the fairness of its specification.

### The inductive invariants, and why the properties need them

**Orchestrator, any number of replicas.** `TypeOK` is not inductive: a step
that stores `mem[r][j]` changed needs the record to be there, one that sends needs a
channel, one that unwraps its copy needs it. `Shape` adds `Bound` (where a handler
stands tells what it holds, and that its job is in the table of its replica) and
`Channels` (a record has its channel). `OrchestratorSafety` adds to `Shape`:

* `PositionOnlyInQueue` is inductive as it stands;
* `AuditBound` - a report past `record_event` has its entry;
* `Ready` - what a submission left behind at each step;
* `Once` - an id has one place in all the lists, none before its push and none after its pop. The
  property counts pops only; that there is no second one depends on where the id still is.

**Orchestrator, the records a process created.** `OrchestratorTable` has no hypothesis on the replicas: `Spec` has any number of
them, and restarts of each. `Fits` says why a record that `create_job` made never falls behind: nobody learns of the id
before the record is there, so no handler of this process that could overwrite it ever misses (who stands at `readRow` or
`cacheRow` is about a job that is not `Own`), and the channel that came with the record is in no other hands. A restart
ends all of this at once: the record goes, and with it every handler and channel that could tell. `TableIsAhead` is
inductive beside `Shape` and `Fits`; its part about rows needs that this replica is the only one, because the other
writes the row from a copy of its own. `Told` adds what callers were told: a report past its
mutation is in the table, a granted cancellation has taken its job out of the queue.
`LifecycleRefinement` shows that each step of the service is a step of `JobLifecycle` on one job, a death that
takes a set of jobs with it (`Forget`), or not visible.

**Platform.** Over accidents: `Apart` (two workers never hold the same job, and who holds one has popped it)
with `Once`; an accident or an admin operation only takes places from the lists. Without accidents and
with one orchestrator process (`Replicas = {Primary}`): `Alone` (every record is one that this process created, so it never reads a row),
`Waits` (a worker waits for the handler of its report; its job has ended just when the last report has been taken)
and `Attended` (a job that was handed out has a worker or has ended; every report is one worker's).

**Builder.** `NoLineFallsBetween` is about the moment between `AppendLog`'s append and its range loop, and it
takes the lock (`Locked`), what each reader's channel holds and who is on the way to it (`Streams`), and for a reader
whose channel is closed, that the build's own goroutines are past their broadcasts. That is `Courses`: of which
`runBuild` path a build is, how many calls it has left, and that its two pipe readers ran from `start` to the
drains. `PanicNeedsFailure` follows because only the path of a failed command closes before both
readers were drained.

**Control plane.** `Placed` says what a goroutine holds where it stands; `HasRun` excludes the run that has stored its outcome and has
yet to note it; `Stack` follows a compose file from what the run read to `/tmp`, the installed file and the unit, as
long as no two runs overlapped; `Fresh` (nothing is known of a node before it is created) makes
`AcknowledgedHolds` inductive; `Shown` ties the status of a node to the place of its run.

**Admission.** `PastInOrder`: listings only grow, the last is the table, a default is a version of its model -
so a model once listed with a default is in every later listing. `Creators` and `Attended`: a model to be promoted
is READY, or the one request that created it is at work, or a failure or a foreign version is on record. Of a submission,
`Standing`, `Sought`, and `OnItsVersion` (the default in the listing that was found is a version of the model, and the assignment
was chosen by it); of the cache, `InTime`.

**Queues of a node.** `Budget` counts, per job, pops made, copies on lists and pushes to come: two at most, and one more for each mishap. `OneCopy`:
a job that was popped, without the races the property names, is on no list, or its worker is about to remove
the copy. `OneHolder`: a job popped once has one holder, with nothing more to write once the record is completed.

### Assumptions

All are named in the modules that declare the constants, and TLC evaluates them in the runs.

* The identifiers of different kinds of actors differ (`EndpointsDisjoint`, `WorkersDisjoint`,
  `GoroutinesDisjoint`, parts of `BuilderConstants`), and so do values from `None`
  (`NoneIsNoValue`, `NoneIsNoRow`, `NoneIsNoAnswer`, part of `ConstantsTyped`).
* Types of constants: `ConstantsTyped`, `ListensTyped`, `BuilderConstants` (a channel takes at least one line),
  `RegistryBounds`, `BoundsAreCounts`, `MishapsAreCounted`, `RunsAreNumbered`; `WantedAreModels`, `ServedAreNames`.
* `JobsFinite`: a position is the cardinality of a set of jobs.
* `OlderIsTable`: a version that is there before belongs to one model, as its primary key and foreign key have it.
* `RunnersPost`: the reports that the runners send are among the modelled event bodies.
* `ThroughCorrect` and `EndedCorrect` have the hypothesis `Replicas = {Primary}`, where the table above says "one process".

### Only model-checked

The liveness properties - `EverySubmissionEnds`, `EveryBuildEnds`, `EveryStreamIsClosed`,
`EveryPopEnds` - rest on fairness and ENABLED, which the prover does not handle; TLC checks them on the instances above.
The violation runs are counterexamples, and need no proof.

## Plan

1. `Orchestrator`, `JobLifecycle`, `OrchestratorRefinement`, `Platform` - done.
2. `Builder` - done.
3. `ControlPlane` - done.
4. `ModelRegistry`, and `Admission` over it (cache, selection, gateway) - done.
5. `NodeQueue` - done.
6. Proofs of every invariant and action property the passing runs check, and of the refinement - done.
7. Left: shorter proofs where a lemma of one action repeats what its neighbour shows
   (`BuilderProofs`, `AdmissionProofs`), and in `OrchestratorTable` what holds of a record that only one look-up made of a row.

Not modelled and not planned: inference backends, object storage, deployment manifests,
build scripts, the stub services, `/v1/internal/sync` (a canned answer). In the model registry,
`UpdateVersionRunnerConfig` (it rewrites an image and parameters no reader here looks at), the preview of an
import and the read-only endpoints. In the gateway, the handlers that pass one request on.
