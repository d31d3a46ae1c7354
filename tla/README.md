# Kaiion in TLA+

Kaiion is a local proxy in front of the OpenAI Responses API. A request is
answered *live* (the provider is called at once, through a rate scheduler) or
through a *durable Batch job* (the request is stored in SQLite, uploaded,
submitted as a batch and polled until its outcome is stored). This directory
holds TLA+ models of those two paths, of the routing between them and of the
commands that start and stop the server, TLC configurations that check them on
small instances, and TLAPS proofs of the properties that matter most.

`tlc -config X.cfg M` runs a check, `tlapm M.tla` checks the proofs of a module.
Paths below are relative to the crate (`src/` is its source directory).

## 1. The system

| part | code | state it keeps | operations | how it interacts |
|---|---|---|---|---|
| Durable job table | `db.rs`, `job_store.rs`, `domain.rs`, migrations | one row per job: status, input file, batch, submission time, outcome; a side table of request bodies and Idempotency-Keys | `enqueue`, `mark_uploaded`, `begin_submission`, `mark_submission_uncertain`, `mark_submitted`, `store_outcome`, list and get | called by handlers and workers; each UPDATE compares the status it expects |
| Worker registry and batch driver | `driver.rs` | map from job to watch channel, under an async mutex; per worker a private copy of the job state | `subscribe`, `run`, `advance`, `apply_batch_status` | handlers subscribe, one spawned task per job drives it and publishes states on the channel |
| Job endpoints and batch responses | `jobs.rs`, `proxy.rs` | a snapshot of the job while the handler runs | `batch_response`, `submit`, `get_job`, `resume`, `list`, `resume_from_env`, `route` | enqueue, then subscribe, then wait for a terminal state |
| Live scheduler | `scheduling.rs` | queue, usage events, live requests, pacing marks, sessions, under one async mutex; a oneshot channel per waiter | `acquire`, `complete`, `abort`, `preview`, drop of a permit or of a waiter | every caller may dispatch any other; leases release slots from `Drop` through spawned tasks |
| Scheduling policy | `scheduling_policy.rs` | immutable | `validate`, `max_wait` | bounds on which the arithmetic above relies |
| Scheduled direct path | `proxy.rs` | deadline and attempt counter of one request | retry loop, usage observer of streamed bodies | calls `acquire`, then the provider, then `complete` or `abort`; may hand the request to the batch path |
| OpenAI client | `openai.rs` | none | upload, create, get, find, download | every call can fail, retryably or not; a create can take effect after its caller gave up |
| Routing, request identity | `routing.rs`, `request.rs`, `proxy.rs`, `job_store.rs` | none of its own; reads `jobs` and `job_requests` | hashing, normalisation, `check_idempotency`, `find`, route choice | decides which job a request is, and whether it goes live |
| SSE encoding | `sse.rs` | none | events of a streamed response | used by `batch_response` |
| Process lifecycle | `lifecycle.rs`, `atomic_file.rs`, `main.rs` | PID file, readiness marker, saved configuration | start, stop, restart, status, logs | separate CLI processes and the servers they spawn share the files |
| Configuration, CLI | `config.rs`, `configure.rs`, `job_cli.rs`, `main.rs` | none | parsing, file editing, HTTP calls | none of its own |

What is hard, and what makes each part correct:

* **Job table.** Several workers (before and after a restart, or spawned from
  stale snapshots) update one row. Correct: a row always decodes, only moves
  forward, and an outcome is never replaced.
* **Driver and registry.** Crashes and lost replies between recording a
  submission, sending it and recording its batch; snapshots read before the
  registry lock; eviction of a finished worker while a handler joins it.
  Correct: at most one create request per job, recorded before it is sent; one
  worker per job; nobody waits for a channel that is dead; what clients are told
  is what is stored; accepted batches end in a stored outcome.
* **Scheduler.** The clock is read before the mutex is waited for; callers
  dispatch each other; callers vanish at every await; permits travel through
  channels and leases. Correct: no limit is exceeded, no slot and no queue entry
  leaks, twins are served in order, every `acquire` returns.
* **Direct path.** Retries, each with a fresh `acquire`, under one deadline; an
  attempt may have run although its answer was lost. Correct: nothing is sent
  twice, live or in Batch, that may have been charged, unless a key makes it
  safe; what may have been charged stays on the books; one request never holds
  two slots; the deadline bounds all waits together.
* **Routing and identity.** Two requests with one Idempotency-Key meet in the
  tables, before and after the check that turns the second away. Correct: a key
  stands for one payload, what a client was given can be resumed, a stored job
  is not sent live.
* **Lifecycle.** Commands are killed between two system calls, saves fail half way,
  the power goes, PIDs are reused, binaries are replaced, servers hang, and two CLI
  processes can act on the same files at once. Correct: every server that is up is
  the one the PID file names, `start` reports its own child, the saved configuration
  can be read and is that of the server, a program that is seen not to be a server
  is never signalled, every command returns.

`PROJECT.json` lists every component, the hazards at their source lines and the
properties aimed at them.

## 2. Modules

| module | models | extends |
|---|---|---|
| `JobStore` | the rows of `jobs` and every statement that changes them, with its WHERE clause and the columns it sets | |
| `BatchDriver` | handlers, registry, workers, provider, crash and restart around that table | `JobStore` |
| `DurableJobs` | the abstract life of a job: accept, commit, send, finish, tell | |
| `MCBatchDriver` | symmetry for the runs | `BatchDriver` |
| `Quota` | the stateless quota arithmetic: rule matching, rolling windows, pacing, readiness, priority | |
| `Permits` | what the scheduler promises to those who call `acquire`: slots taken, received, given back | |
| `Scheduler` | the shared state, `acquire` step by step, `dispatch_ready`, `complete`, `abort`, drop handlers; implements `Permits` | `Quota` |
| `MCScheduler` | policies and requests for the runs | `Scheduler` |
| `RequestIdentity` | what a request carries, its session key, its two digests, `batch_supported` | |
| `LiveRequests` | `POST /v1/responses` from routing to its answer: the composition of `Permits`, the retry loop, the provider and the two tables | `RequestIdentity`, instance of `Permits` |
| `MCLiveRequests` | requests for the run | `LiveRequests` |
| `Lifecycle` | the commands `start`, `stop`, `restart`, the servers, their files | |
| `QuotaProofs` | facts about the quota arithmetic, and the inductions they need | `Quota` |
| `SchedulerQuotaProofs` | theorems about the queue, its order and the rates | `SchedulerProofs`, `QuotaProofs` |
| other `...Proofs` | theorems | the module they are about |

Two layers meet at `Permits`: `Scheduler` implements it (checked and proved), and
`LiveRequests` instantiates it, so that what holds of a request holds with the
scheduler of the code below it. `DurableJobs` is the same kind of seam above
`BatchDriver`: `LiveRequests` ends a batch request at the committed row, and
`BatchDriver` begins there.

### JobStore

A row keeps `status` and the nullable columns, because `TryFrom<RawJob>`
rejects a row whose set columns do not fit its status; a model with an abstract
state could not express a forgotten `= NULL`. `May...` are the WHERE clauses
(no row hit is `TransitionConflict`), `...Row` the SET clauses. Payloads are
abstracted to where they came from: `by` is the batch whose files were read, or
`Kaiion` for a `failed_response`. `StoreSpec` allows any statement with any
argument a Rust caller can pass.

### BatchDriver

A worker's `pc` names the operation it does next, `state` is its own copy of the
job state (`Job` in `run`), `chan` the last value in its watch channel, `got`
what it holds between two awaits. Every await after which another task could
have moved is a step boundary. `advance` is split along its match:

| code | actions |
|---|---|
| `Queued` | `Upload`, `MarkUploaded` |
| `Uploaded` | `BeginSubmission`, `CreateBatch`, then `CreateOk`, `CreateRetryable` or `CreatePermanent`, then `MarkSubmitted` or `MarkUncertain` |
| `Submitting` | `MarkUncertain` |
| `SubmissionUncertain` | `FindBatch`, `MarkSubmitted` |
| `Submitted` | `GetBatch`, `FetchFile`, `FetchRetryable`, `StoreOutcome` |
| `DriverError::Permanent` | `ProviderPermanent`, `StoreFailure` |
| `DriverError::Conflict` | `Reread` |
| `DriverError::Retryable` from SQLite | `DbError` |
| after `run` | `Exit` |

Handlers are `Enqueue`, `Snapshot`, `SubscribeOpen`, `SubscribeDone`, `Answer`,
`Resume`, `GetJob`, `Disconnect`; start-up is `Start`, `StartupResume`, `Serve`;
`Crash` forgets everything but the table and the provider. Steps that leave
everything as it was (a retryable error before the sleep, a batch still running,
a scan that finds nothing) are stuttering steps and not written down.

The provider is external: a create request is in flight until it takes effect
or never does, whatever its caller was answered; a batch is listed any time
after it exists (a scan may miss it, which also stands for the paging of
`find_batch`), and ends in any of the ways `apply_batch_status` distinguishes.
One process uses the database, as the crate's README requires.

### Quota and Scheduler

`Quota` has the operators of `scheduling.rs` from `readiness` on, over sets of
usage events and a function of pacing marks. Time is counted in ticks, `Second`
ticks to a second; `NULL` is `None`. The removal of one expired event after the
other in `rolling_fit` is written as what it computes: the first expiry at which
the rest leaves room.

`Scheduler` has one program counter per call of `acquire`:

| pc | where the caller is |
|---|---|
| `new`, `queueing` | before `acquire`; waiting for the first critical section, or sleeping for Retry-After before it |
| `poll` | has read `now`, waits for the mutex at the top of the loop |
| `check` | has left the critical section, before `try_recv` and the deadline test |
| `yield`, `sleep` | at `yield_now`; in the `select!` |
| `expire` | past its deadline, waits for the mutex |
| `held` | has the permit: its request is at the provider |
| `completing`, `aborting` | in `complete` or `abort`, lease disarmed, waiting for the mutex |
| `done` | gone |

`chan[r]` is its oneshot channel, `tasks` the tasks that the drop handlers of
`PermitLease` (`Release`) and `PendingGuard` (`Unpend`) spawned. A critical
section is one step, except that `dispatch_available` runs `dispatch_ready`
several times: while it does, `lock` holds its `now` and nobody else enters.
A caller may vanish wherever it awaits: `CancelQueueing`, `CancelWaiting`,
`CancelHeld`, and, with `LossyCompletion`, `CancelCompleting`. `sent` is a
history variable: the true time of each dispatch that was not aborted.

A Rust id is replaced by the call it belongs to, which it identifies; the id as
a number is kept for the tie-break. Session signals and classification in the
priority score, `RecommendBatch`, and requests that are turned away before they
reach the queue are left out.

To `Permits` a call has a slot while it is in `active`, and its `stage` is read off
its pc (`StageOf`): it waits from its first call until it has the permit, holds it
until `complete` or `abort` has run, and is over from then on. `Legal` are the sets
of calls within every matching `max_concurrency` (`WithinLimits`).

### RequestIdentity and LiveRequests

A digest is the tuple of the components that are hashed, so two digests are equal
exactly if what they cover is. Fields removed by normalisation are `volatile`;
what stays of `client_metadata` is `thread` and `turn`. The estimate of the cost
policy is the field `policy` of a request.

`pc[c]` is where the handler of request `c` is:

| pc | code | actions |
|---|---|---|
| `new` | `responses`, `route` | `Arrive` |
| `check`, `find` | `check_idempotency`, `Database::find`, `RoutingPolicy::decide` | `CheckKey`, `Find` |
| `preview` | `scheduled_direct_response` up to the loop | `Preview` |
| `top` | the head of the loop: deadline, `acquire` | `Top` |
| `waiting` | in `acquire`, under `timeout` | `Grant`, `Send`, `Decline`, `TimeOut` |
| `sending` | the request is at the provider | `Respond`: `Lost`, `Refused`, `Passed`, `Retried` |
| `body` | the body streams to the client | `BodyEnds` |
| `ending` | in `complete` or `abort` | `Ended` |
| `enqueue` | `batch_response` up to the commit of `enqueue` | `Enqueue` |

`fate` records what became of each attempt at the provider and `ledger` what the
usage event of the attempt says: the estimate it was dispatched with, nothing
(`abort`), zero (`complete` for a 429) or what the body reported. `met` records
what the tables held when the request came. The sleep for Retry-After is in
`acquire`, so it is the part of `waiting` in which `Grant` is disabled. Time is the
age of each request, since nothing compares the clocks of two. A client may
vanish at every await (`Vanish`).

### Lifecycle

A command's `pc` names the system call it makes next: `Read` to `Unready` for
`start_at`, `Look` to `Unmark` for `stop`, `Load` before `stop` for `restart`.
`proc[p]` is what runs under a PID: a server from `booting` over `bound` (the
listener), `ready` (the marker is written) and `serving` (`/healthz` answers) to
`draining`; a process that was killed (`dying`) and one whose parent has not
waited for it (`zombie`), which `process_alive` still takes for alive; a program
of somebody else. SIGTERM ends a server at once before it serves, as its handler
is installed then, and makes it drain afterwards. `Interrupt` kills a command at
any step but one, `Foreign` and `Outsider` let other programs take a PID or answer
on the address.

`is_owned_process` judges by the link `/proc/<pid>/exe`. `exe[p]` says what a
command finds there: its own binary, another one, or nothing it can read
(`hidden`), in which case `unwrap_or(true)` takes the process for a server; of a
`denied` program (another user's) the link cannot be read and the signal is refused
with EPERM (`Refused`), which ends `stop` with an error. A program of somebody
else, taken to be another binary than Kaiion's, has any of the last three; a server
starts with the first, and `Upgrade`, which replaces the binary, gives those that
are up the second ("... (deleted)"). Where there is no `/proc` a server's link is
unreadable too and is judged like a matching one.

`Save`, `Fill`, `Sync` and `Commit` are the four steps of `atomic_file::write`:
open the temporary file, write, `sync_all`, rename. Each may fail, which ends
`start` with an error, and between any two the command may be killed. `tmp` is what
the temporary holds, `config_disk` what a power cut (`Power`) would leave of the
saved configuration: a file that was renamed before it was flushed is torn by it.
Directory entries are taken to reach the disk in order; that the last rename may be
lost with the power is the same as a cut one step earlier. Without `sync_all` the
file would be torn (the mutant of `SavedIsWhole`).

## 3. Runs

| run | question | result |
|---|---|---|
| `BatchDriverSafety` | two clients, two worker slots, two create requests, one job; crashes, and restarts with and without `--resume-from-env` | eight invariants hold, among them `AtMostOneCreate`, `NoWaiterOrphaned`, `ToldIsDurable`, `OutcomeIsOfOwnBatch` and `RowsDecode`; so do `RowsOnlyAdvance` and the refinement `ImplementsDurableJobs` |
| `BatchDriverLiveness` | does an accepted batch end in a stored outcome, is a waiter answered? | yes, once crashes stop: `AcceptedJobFinishes`, `WaiterIsAnswered` |
| `SchedulerSlots` | one slot, a token window, a small queue, coalescing, usage reports, a request that can never fit, callers that vanish anywhere but in `complete` and `abort` | `ConcurrencyCap`, `QueueIsBounded`, `NoWaiterForgotten`, `NoSlotLeaks`, `FifoAmongEquals` hold, and so does the refinement `ImplementsPermits` |
| `SchedulerRates` | two requests in four ticks over all credentials and one in two ticks per credential, a lag between clock and mutex, aborts, callers that vanish anywhere | `RollingCount`, `DispatchesArePaced` hold |
| `SchedulerWaits` | two callers, one slot, one with Retry-After and a longer wait cap | `AcquireReturns`, `LostPermitIsReleased` hold |
| `LiveRequests` | two requests from routing to their answer, one retry each: a replay, a reused key, lost and refused connections, 429 and 5xx with any Retry-After, fallbacks to Batch, clients that vanish | `OneSlotPerClient`, `NoSilentDuplicate`, `ChargesAreCounted`, `AcceptedIsResumable`, `KeyIsOneRequest`, `StoredStaysBatch`, `WaitIsBounded` and `NobodyIsStuck` hold |
| `Lifecycle` | one shell, two PIDs, two addresses: start, stop and restart in any order, with saves that fail, killed between steps; servers that crash or hang, programs on a stale PID with any link, replaced binaries, power cuts | `MarkerIsOwn`, `ServersAreManaged`, `SavedIsRunning`, `SavedIsWhole`, `StoppedIsGone`, `OthersAreSafe` and `CommandsReturn` hold |
| `PermanentError`, `StaleWorker`, `IdleSlot`, `SlotLeak`, `StartRace` | section 4 | violated |

`RollingCount` and `DispatchesArePaced` measure the *real* time of dispatches
and allow for `MaxLag`, the time a caller can spend between reading the clock
and having the mutex: the code compares against the instant it read, so its
promise is only that good. With `MaxLag = 0` they are the plain statements.

`NoSilentDuplicate` is about requests without an Idempotency-Key. One with a key
is retried after a 5xx, which is what the key is for, and if the retries run into
the deadline it may end in Batch after live work was done;
`docs/scheduling-plan.md:113` ("Do not start live work and then silently duplicate
it in Batch") could be read as forbidding that, `docs/scheduling-plan.md:111` makes
the exception. `StoredStaysBatch` is about jobs that are stored when the request
comes: an auto request that looks and finds nothing may go live while another
stores the same job, and the README does not promise otherwise ("auto-selected
direct calls also are not durable jobs").

### Bounds

* One job: jobs share nothing but the registry map and the table, both indexed
  by job, and a statement touches one row.
* Two clients, two workers, two create requests are what it takes for a stale
  snapshot, a successor worker and a second create to meet. The liveness run has
  one of each: a stuck worker or waiter needs only itself.
* Crashes are not bounded; the number of create requests is, by `BatchIds`.
* Three callers of `acquire`: one in flight, one waiting, one that arrives or
  vanishes; two of them twins. `next_id` is bounded by their number.
* `MaxTime` stops the clock after the windows, paces and wait caps (two to four
  ticks) have run out; `LastArrival` ends arrivals earlier, so that what they
  started plays out in full. `SchedulerWaits` lets the clock run past the
  longest deadline (arrival at 1, cap 3); the other runs state safety only. In
  `SchedulerRates` the third caller enters the queue at tick 3, one tick before
  the first event of the window expires.
* `MaxLag` is 1 where lag matters and 0 elsewhere.
* Usage is NULL or less than the estimate, the values that change what fits.
* `LiveRequests`: two clients are what a replay and a reused key take; one retry
  has a first, a repeated and a last attempt; `MaxWait` is one tick and `RetryAfters`
  has one value that fits and one that does not. `MaxAge` stops the clock of a
  request one tick past its deadline. Nothing forces `Grant`, so `Legal` may hold
  every set of calls: whatever a limit forbids is among the behaviours in which the
  scheduler did not grant. A job without a `job_requests` row (stored before that
  table existed) is there or not at the start.
* `Lifecycle`: one command at a time (two at once is `StartRace`), two PIDs for a
  server and a stale one or somebody else's program, two addresses for a saved and
  a new configuration (`StartRace` needs only one). Three bounds on the environment:
  while a command runs no PID is reused and the binary is not replaced, and no
  command is killed between `spawn` and `write_pid`, unless the power goes and the
  child with it. In the first and the last case the code has no way to know; the
  last would leave a server no file names.

### Fairness

* Batch path: spawned tasks and handlers are polled (weak fairness on their
  steps). A statement or provider call that may fail is tried again at every
  poll interval, so it is enabled over and over, not continuously: strong
  fairness says that it does not fail every time, which no code could make up
  for. The steps after `create_batch`, which is never repeated, have weak
  fairness. The provider settles, lists and ends what it accepted. `StaysUp`
  (crashes stop) is a premise.
* Scheduler: tokio's mutex is FIFO, so whoever waits for it gets it, though
  others hold it in between: strong fairness for the steps under the mutex and
  for the spawned tasks; weak fairness for the clock, `dispatch_available` and
  the steps without a lock. Nobody is obliged to call `acquire` or to give a
  permit back, so `AcquireReturns` cannot lean on slots becoming free.

* Requests: handlers are polled and their timers go off. Nothing makes the
  provider answer or the scheduler grant or decline, so `NobodyIsStuck` says that
  whoever waits for neither the provider nor its body gets on.
* Lifecycle: commands run while they can, their deadlines pass, and a process that
  got SIGKILL is gone in the end. Servers are promised nothing: one may hang while
  it boots or drains, and `CommandsReturn` holds all the same.

Deadlock is checked in the batch and lifecycle runs and switched off where
callers are finite and the clock stops.

## 4. Where the code and its documents differ

Each is a run of its own whose property quotes the document; TLC finds a
behaviour of the code that breaks it.

1. **`PermanentError`** (`src/driver.rs:201`). After `begin_submission` the row
   says `submitting` but `run` still has `Uploaded`, so storing the failure of a
   permanently refused create conflicts; the worker rereads, goes to
   `submission_uncertain` and scans for a batch that does not exist, for ever.
   `docs/thermonuclear-remediation.md:215`: "Provider protocol violations reach
   a durable terminal state instead of retrying forever."
2. **`StaleWorker`** (`src/driver.rs:216`). A worker in `submission_uncertain`
   polls the provider's list and never reads the row. Spawned from a snapshot
   taken before its predecessor failed the job, it stays registered for good.
   Same file, line 214: "Worker-registry size returns to baseline after all
   streams and jobs terminate."
3. **`IdleSlot`** (`src/scheduling.rs:994`). `dispatch_available` drops the
   instant at which a request will be ready. A waiter held back by the
   concurrency limit sleeps to its deadline; if the slot is freed while a pace
   still holds, nobody wakes it when the pace ends. On waking at its deadline
   `acquire` still dispatches it (line 474 comes before the test at 486), unless the
   timeout around `acquire` drops the call first and answers `max_wait_exceeded`
   (`src/proxy.rs:368`). `README.md:177`: "live/direct requests are queued in
   memory and dispatched when the configured request, token, and concurrency
   limits permit".
4. **`SlotLeak`** (`src/scheduling.rs:540`). `complete` and `abort` disarm the
   lease before they wait for the mutex; a connection that drops there leaves
   the slot taken until a restart. The test at `src/scheduling.rs:1550`:
   "dropping a permit should release its slot".

5. **`StartRace`** (`src/lifecycle.rs:221`). `wait_for_ready` asks whether there is
   a marker and whether somebody answers `/healthz`. Of two `start` commands that
   both found no server, the second overwrites the PID file, and takes the marker
   and the health of the first one's server for its own child's, which may be
   about to fail to bind: the server that runs is then not the one the PID file
   names. `README.md:40`: "`start` waits for a child-owned readiness marker and
   `/healthz` before returning". With one command at a time the sentence holds
   (`MarkerIsOwn` in `Lifecycle`).

Two more can be read off the model and have no run of their own. `SubscribeOpen`
tests the snapshot its handler took before the lock, so a worker may be spawned
for a job that has finished meanwhile (the document's line 213: "Terminal jobs
do not start workers."); it meets a conflict, rereads the row and stops, unless
it is the worker of `StaleWorker`. `ProviderPermanent` and `StoreFailure` turn
`submission_uncertain` into `failed` when the list scan is refused, say for a
revoked key (`README.md:105`: "The state remains explicit in SQLite").

## 5. Proofs

All theorems hold for every value of the constants; the assumptions are the
named ASSUMEs of the modules, which TLC evaluates in the runs: `NULL` is no value,
callers are finite, a policy is one `validate` accepts (`PolicyIsValid`), bounds
are naturals, and policies, requests and usage reports have the unsigned fields of
their Rust types (`PolicyIsTyped`, `RequestsAreTyped`, `UsagesAreTyped`).

| theorem | statement | argument |
|---|---|---|
| `TableAlwaysDecodes` | `StoreSpec => [](RowsTypeOK /\ RowsDecode)` | inductive as it stands; needs that a set column differs from NULL |
| `TableOnlyAdvances` | `StoreSpec => RowsOnlyAdvance` | case by case from the WHERE clauses, with `RowsDecode` |
| `TypeCorrect` | `Spec => []TypeOK` (batch path) | `BaseInv` |
| `DriverUsesTable` | `Spec => StoreSpec` | every step of the batch path is a statement of `JobStore` or leaves the rows alone, by `BaseInv` |
| `DriverRowsOnlyAdvance` | `Spec => RowsOnlyAdvance` | the two before |
| `AtMostOnce` | `Spec => []AtMostOneCreate` | `BaseInv /\ CreateInv` |
| `CreateOnRecord` | `Spec => []CreateIsOnRecord` | the same |
| `OneWorker` | `Spec => []OneWorkerPerJob` | `WatchInv` |
| `NobodyOrphaned` | `Spec => []NoWaiterOrphaned` | `WatchInv` |
| `ToldIsStored` | `Spec => []ToldIsDurable` | `ToldInv`, with `WatchInv` |
| `OutcomesAreOwn` | `Spec => []OutcomeIsOfOwnBatch` | `OwnInv` |
| `DriverImplementsDurableJobs` | `Spec => ImplementsDurableJobs` | all of these and `SubmitInv`, step by step |
| `WaitersAreRemembered` | `Spec => []NoWaiterForgotten` | `OwnerInv` |
| `LimitsAreKept` | `Spec => []ConcurrencyCap` | `OwnerInv /\ ActiveCap /\ ClockInv` |
| `SlotsHaveOwners` | `LossyCompletion = FALSE` implies `Spec => []NoSlotLeaks` | `OwnerInv` and slot ownership |
| `SchedulerImplementsPermits` | `Spec => ImplementsPermits` | `OwnerInv /\ ActiveCap /\ ClockInv`, step by step |
| `ReadinessIsAnInstant` | `readiness` answers `NULL` or an instant that has not passed; at that instant all marks, windows and limits permit the request | `rolling_fit` always finds an instant for a request that is not impossible |
| `RebuiltMarksHold` | every event left after an abort holds back its successors by `rebuild_pacing` | the replay, event by event: no mark ever falls |
| `SchedulerIsTyped` | `Spec => []TypeOK` (scheduler) | `OwnerInv /\ TypeInv /\ QueueIsBounded` |
| `QueueKeepsItsBounds` | `Spec => []QueueIsBounded` | the same; the byte counter is an exact sum |
| `EqualsAreServedInOrder` | `Spec => FifoAmongEquals` | `TypeInv /\ EntriesAreOrdered` |
| `RatesAreKept` | `Spec => []DispatchesArePaced` | `MemoryInv` |
| `WindowsAreKept` | `Spec => []RollingCount` | `MemoryInv` |
| `TypesAreKept` (requests) | `Spec => []TypeOK` | `IInv /\ WaitInv` |
| `NeverTwoSlots` | `Spec => []OneSlotPerClient` | `IInv`, the part on slots |
| `BooksAreKept` | `Spec => []ChargesAreCounted` | `IInv`, the part on the books |
| `NeverSilentlyTwice` | `Spec => []NoSilentDuplicate` | `IInv`, the part on what has run |
| `DeadlineHolds` | `Spec => WaitIsBounded` | `IInv /\ WaitInv` |
| `AcceptedIsStored` | `Spec => []AcceptedIsResumable` | `StoreInv` |
| `KeysAreExclusive` | `Spec => []KeyIsOneRequest` | `StoreInv` |
| `StoredIsNeverLive` | `Spec => []StoredStaysBatch` | `IInv /\ StoredInv` |
| `TypesAreKept` (lifecycle) | `Spec => []TypeOK` | the lifecycle's `IInv` |
| `StartedByItsOwn` | `Spec => []MarkerIsOwn` | the same |
| `NoServerIsLost` | `Spec => []ServersAreManaged` | the same |
| `RestartKnows` | `Spec => []SavedIsRunning` | the same |
| `SavedIsNeverTorn` | `Spec => []SavedIsWhole` | the same |
| `StoppedMeansStopped` | `Spec => []StoppedIsGone` | the same |
| `NobodyElseIsKilled` | `Spec => []OthersAreSafe` | the same |

The lifecycle theorems assume `Shells = {shell}`: commands run one at a time, with
any number of PIDs and addresses and any number of interrupted commands. Without
it `MarkerIsOwn` is false (`StartRace`).

*`BaseInv`.* `TypeOK` is not inductive: that `mark_uploaded` writes a file id
and `store` an outcome depends on what `got` holds at each `pc`. `BaseInv` ties
the two together, says that a worker's private state decodes (the WHERE clauses
compare with it), and that a held job exists.

*`CreateInv`.* That there is one create request does not follow from there being
one so far. The invariant says that a row before `submitting` has no create
request, that at most one worker of a job stands at `create`, and that while one
does its row is `submitting` or later and no request has been sent. A row never goes
back (`TableOnlyAdvances`), so the conditional update in `begin_submission`
admits one worker, once. `SubmitInv` sharpens this for the refinement: the row of
a worker at `create` is still `submitting`, because nobody else works for the job.

*`WatchInv`.* `OneWorkerPerJob` and `NoWaiterOrphaned` need each other: a channel a
handler waits on belongs to a live worker of the handler's own job, so that the
value it keeps when that worker exits is the terminal one the worker last sent;
a registered worker is live; only a waiting handler holds a channel.

*`ToldInv`.* Every copy of a row, in a worker, in its channel or in a handler, that
carries an outcome carries the one in the table, so whatever is told from it is
too. It is inductive because an outcome in the table never changes.

*`OwnInv`.* Every batch a row, a worker's state or a handler's snapshot names is one
the provider accepted for that job; what a worker carries between two awaits
(`got`) is its own request, batch, result or outcome; a listed batch is an accepted
one. The provider only ever adds to what it knows (`Grows`), which is why a stale
copy stays right.

*The refinement to `DurableJobs`* maps the statuses to four phases. A worker's steps
stay hidden except `BeginSubmission` (commit), `CreateBatch` (send: `SubmitInv` says
that the phase is `committed`, `CreateInv` that nothing was sent) and the two that
store an outcome (finish: `OwnInv` says whose it is); handlers accept in `Enqueue`
and tell in `Answer`, `SubscribeDone` and `GetJob` (`ToldInv`). Everything else,
crashes included, is a stutter.

*`OwnerInv`.* Entries in `active`, channels, leases and tasks are tied together:
an answer in a channel has a receiver that waits, a permit in a channel or in a
caller's hands has an entry in `active`, tasks belong to callers that are gone,
and a queue entry to a caller that waits or to a task about to remove it. Thus a
live request always has an entry and `ConcurrencyCap` follows from the same
statement about `active` (`ActiveCap`), which `readiness` tests before each
insertion. `ClockInv` says that the instants `dispatch_ready` works with are
instants and never `NULL`: `readiness` answers `NULL` when the limit is reached,
so a result equal to `now` means that there was room.

*Queue and order.* `TypeOK` of the scheduler is not inductive: the sleep `acquire` computes
is a number only because `readiness` answers one, and that needs the usage events
and the marks to be typed (`TypeInv`) and a request that fits no window to have been
refused before. `QueueIsBounded` says that `pending_bytes` *is* the sum over the
entries; it is kept because whoever removes an entry (`dispatch_ready`, its caller,
the task of its guard) subtracts what that entry added, and an entry is removed once
(`OwnerInv`). `EntriesAreOrdered` says that a later id was enqueued no earlier, which
the one critical section of `Enqueue` establishes; an older twin is then ready
exactly when the younger is (`readiness` cannot tell them apart) and has aged no less,
at whatever instant the dispatching caller has read.

*Rates.* That the recorded history keeps the quotas says little: the record is
dated by readings of the clock that may be old, pruned by others, and rebuilt by
`abort`. `MemoryInv` relates it to the true time of each dispatch (`sent`):
no reading in use is older than `MaxLag` (`ReadingsAreRecent`); every dispatch that was
not aborted has its event, dated at most `MaxLag` before it, until it is out of every
window (`DispatchesAreRemembered`); and a mark holds back its successors until its pace has
passed (`MarksHoldBack`). Reconciling usage changes no date, pruning at an instant that
has passed forgets nothing that still counts, and a pace is never longer than the
longest window, so `abort`, which rebuilds the marks from the events that are left,
still finds what it needs. A dispatch then sees an event for each request of any
window that reaches to the present, and `cap_fit` leaves room for it. TLC checked the
three parts as invariants of `SchedulerSlots` and `SchedulerRates` before they were
proved.

*Sums and replays.* `BytesOf`, `rebuild_pacing` and `EventsWithout` are recursive functions.
The library's induction theorems cannot be instantiated, so `QuotaProofs` states induction
about *sets* of values (`SubsetInduction`, `NumberInduction`), from the library's
theorem that strict inclusion of finite sets is well-founded. With it
the recursion of each function is shown to have a solution, and what it
computes is proved for every argument.

*Requests.* `IInv` says of each request where its slot can be (`SlotsOfClient`), what
the books say of the attempt in hand and of those before it (`BooksOfClient`), and,
without a key, at which points an attempt may have run: not while the handler is
still to send or to enqueue (`RunsOfClient`). `WaitInv` ties the age of a request
to its deadline at each `pc`; without it `TimeOut` and `Send` could come in either
order. `StoreInv` adds to the two properties that a key names one job within a
session, which the SELECT in `enqueue`'s transaction keeps. `AcceptedIsResumable`
also says that every job but the oldest has its row in `job_requests`: who loses
the race for a key rolls its job back. `StoredInv` carries what the
tables held on arrival from `Arrive` over `CheckKey` and `Find` to the route.

*Lifecycle.* `IInv` has one part per file and process the running command may rely on:
the PID it looked at is still the one in the file (`PidPart`), nobody is up but the
process of the PID file or a child not yet written down (`UpPart`), the
saved configuration is the running one (`SavedPart`), the marker can only be the
child's (`MarkerPart`), what `stop` is about to signal is its server or a program
whose link cannot be read (`SafePart`), and what is renamed is on the disk, so that
`config_disk` and `config_file` agree and neither is torn (`DiskPart`).
`NobodyElseIsKilled` is as strong as `is_owned_process` allows, see section 6.

*Only model-checked*: liveness (`AcceptedJobFinishes`, `WaiterIsAnswered`,
`AcquireReturns`, `LostPermitIsReleased`, `NobodyIsStuck`, `CommandsReturn`), which
is out of the prover's reach together with ENABLED. Every other property of a passing
run is a theorem.

## 6. Not modelled

* Sessions (priority signals, cache affinity), the classifier, and how the scheduler
  comes to recommend Batch: `Decline` in `LiveRequests` allows the answers `acquire`
  and `preview` can give, at any time. The retry ceiling at the entry of `acquire`.
* `u64` wrap-around of `next_id` (2^64 requests) and rounding of `f64` paces.
* `direct_response` with the scheduler disabled, which sends one request and keeps
  no state; requests turned away with 400 or 401 before anything is looked up.
* `explain_route`, `list`, `models`, `health`, `status`, `logs`: they read only.
* SSE encoding and the token counts read from a stream: a body ends with a usage
  report or without one. Token estimates are a field of the request.
* The paging of `find_batch` (a batch may be missed at any scan) and the JSON of
  files and batches.
* Lifecycle: the Windows branches, a `current_exe` that fails, and I/O errors other
  than those of `spawn`, `write_pid` and the save.
* That `is_owned_process` tells more than the link does. Two things follow which
  the model has and no property forbids, since no document of the repository
  promises otherwise. A program of somebody else that has a stale PID and whose link
  cannot be read (no `/proc`, or a program of the same user that is not dumpable)
  counts as owned (`unwrap_or(true)`, `src/lifecycle.rs:339`): `start` refuses to run
  beside it and `stop` signals it. And after an upgrade the link of the running
  server names another binary: `start`, `stop` and `restart` refuse it as another
  process, until it ends by itself or by a signal from elsewhere.
* Configuration, `configure` and the CLI: parsing and file editing by a single process.

## 7. Plan

Done, in this order: table, batch path, its abstract specification, quota
arithmetic, scheduler; then the seam `Permits`, request identity and the live path
above it, the lifecycle commands, and the theorems about all of them. Next:

1. Sessions and batch recommendation in `Scheduler`: who is asked to fall back, and
   that a recommendation never comes after a slot was taken.
2. Token windows over real time, and `rolling_fit` against a reference definition
   over bounded inputs.
3. The event stream of `batch_response` and the paging of `find_batch`.
4. Proofs: token windows as the request windows now, and the statements of `JobStore`
   and `job_requests` as one database.
