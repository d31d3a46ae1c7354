----------------------------- MODULE BatchDriver -----------------------------
(***************************************************************************)
(* The durable Batch path of Kaiion, from the HTTP handlers to the         *)
(* provider:                                                               *)
(*                                                                         *)
(*   - the handlers that enqueue, resume or watch a job                    *)
(*     (batch_response in proxy.rs; submit, resume, get_job in jobs.rs),   *)
(*   - the worker registry and its watch channels (WorkerRegistry),        *)
(*   - one worker task per job (JobDriver::run and JobDriver::advance),    *)
(*   - the provider's batches, as seen through openai.rs (external),       *)
(*   - process crashes, restarts and resume_from_env.                      *)
(*                                                                         *)
(* Every await at which another task, the provider or a crash can come     *)
(* between is a step boundary.  A worker's pc names the operation it will  *)
(* perform next; the JobState it works from is its own copy ("state"),     *)
(* which can be stale.  A retryable provider error, a negative list scan   *)
(* and a batch that is still running all lead to the poll sleep and back   *)
(* to the loop top with nothing changed, so they are stuttering steps and  *)
(* are not written down.                                                   *)
(*                                                                         *)
(* README.md allows one process per database, so there is one process.     *)
(***************************************************************************)
EXTENDS JobStore

CONSTANTS
    Clients,       \* HTTP connections that call the job endpoints
    Workers,       \* slots for spawned worker tasks
    ResumeFromEnv  \* values of the --resume-from-env flag a start may have

ASSUME NullIsNoTask == NULL \notin Jobs \cup Workers

ASSUME ResumeFromEnvIsFlag == ResumeFromEnv \subseteq BOOLEAN

VARIABLES
    proc,      \* "down", "starting" (in resume_from_env) or "up"
    todo,      \* jobs resume_from_env has yet to subscribe to
    registry,  \* WorkerRegistry.workers: [Jobs -> Workers \cup {NULL}]
    worker,    \* the worker tasks
    client,    \* the request handlers
    batch,     \* the provider: what became of each create request
    told       \* history: the outcomes any client was ever given, per job

vars == <<rows, proc, todo, registry, worker, client, batch, told>>

-------------------------------------------------------------------------------
(* The provider (external).  BatchIds names create requests: the id is the *)
(* one the batch will have if the provider accepts the request.            *)

BatchPhases == {"free", "inflight", "void", "running", "ended"}

\* How a batch can end.  "output" is what the record with our custom_id in
\* the output file amounts to; "malformed" covers every file that
\* parse_batch_output or the status match after it rejects.
BatchResults ==
    [status : {"completed"},
     output : {"completed", "failed", "incomplete", "malformed"},
     error  : {FALSE}]
    \cup [status : {"completed", "failed", "expired", "cancelled"},
          output : {"none"}, error : BOOLEAN]

FreeBatch == [job |-> NULL, phase |-> "free", listed |-> FALSE, result |-> NULL]

Accepted(b) == batch[b].phase \in {"running", "ended"}

\* The file apply_batch_status downloads before it can store an outcome.
NeedsFile(result) == result.output # "none" \/ result.error

\* apply_batch_status: the outcome a result stands for, by batch b.
OutcomeOf(b, result) ==
    [kind |-> IF result.status # "completed" THEN result.status
              ELSE IF result.output = "none" THEN "failed"
              ELSE result.output,
     by   |-> b]

-------------------------------------------------------------------------------
(* Tasks and handlers.                                                     *)

NoState == EmptyRow("absent")

IdleWorker == [job |-> NULL, pc |-> "idle", state |-> NoState,
               chan |-> NoState, got |-> NULL]

IdleClient == [job |-> NULL, pc |-> "idle", wants |-> FALSE,
               val |-> NoState, src |-> NULL]

\* Operations of a worker that talk to SQLite and may get an error that is
\* not a conflict (busy, pool exhausted, I/O).
DbSteps == {"mark_uploaded", "mark_created", "mark_found", "mark_uncertain",
            "store", "fail", "reread"}

WorkerPcs == DbSteps \cup {"idle", "top", "create", "create_wait", "fetch", "exit"}

\* The value a waiting handler sees in its watch receiver: the channel's
\* current value, or the last one sent once the senders are gone.
Seen(c) == IF client[c].src # NULL THEN worker[client[c].src].chan
           ELSE client[c].val

Init ==
    /\ StoreInit
    /\ proc = "down"
    /\ todo = {}
    /\ registry = [j \in Jobs |-> NULL]
    /\ worker = [w \in Workers |-> IdleWorker]
    /\ client = [c \in Clients |-> IdleClient]
    /\ batch = [b \in BatchIds |-> FreeBatch]
    /\ told = [j \in Jobs |-> {}]

-------------------------------------------------------------------------------
(* Process: start-up, resume_from_env, crash.                              *)

\* Slip: a job whose submission was cut short is not listed as open.
StartForgetsSubmitting ==
    /\ proc = "down"
    /\ \/ TRUE \in ResumeFromEnv /\ proc' = "starting"
          /\ todo' = {j \in Jobs : rows[j].status \in OpenStatuses \ {"submitting"}}
       \/ FALSE \in ResumeFromEnv /\ proc' = "up" /\ todo' = {}
    /\ UNCHANGED <<rows, registry, worker, client, batch, told>>

\* build_router, up to the first list page of resume_from_env.  Nobody else
\* writes to the table before the server is up, so the jobs that are open in
\* the list are still open, with the same state, when they are read.
Start ==
    /\ proc = "down"
    /\ \/ TRUE \in ResumeFromEnv /\ proc' = "starting"
          /\ todo' = {j \in Jobs : rows[j].status \in OpenStatuses}
       \/ FALSE \in ResumeFromEnv /\ proc' = "up" /\ todo' = {}
    /\ UNCHANGED <<rows, registry, worker, client, batch, told>>

\* Slip: spawn without looking for a registered worker.
AttachAlwaysSpawns(j, snapshot) ==
    \E w \in Workers :
        /\ worker[w].pc = "idle"
        /\ registry' = [registry EXCEPT ![j] = w]
        /\ worker' = [worker EXCEPT ![w] =
               [job |-> j, pc |-> "top", state |-> snapshot,
                chan |-> snapshot, got |-> NULL]]

\* WorkerRegistry::subscribe for a state that is not terminal: under the
\* lock, join the registered worker or insert a sender and spawn one.
Attach(j, snapshot) ==
    \/ registry[j] # NULL /\ UNCHANGED <<registry, worker>>
    \/ /\ registry[j] = NULL
       /\ \E w \in Workers :
              /\ worker[w].pc = "idle"
              /\ registry' = [registry EXCEPT ![j] = w]
              /\ worker' = [worker EXCEPT ![w] =
                     [job |-> j, pc |-> "top", state |-> snapshot,
                      chan |-> snapshot, got |-> NULL]]

StartupResume(j) ==
    /\ proc = "starting"
    /\ j \in todo
    /\ todo' = todo \ {j}
    /\ Attach(j, rows[j])
    /\ UNCHANGED <<rows, proc, client, batch, told>>

Serve ==
    /\ proc = "starting"
    /\ todo = {}
    /\ proc' = "up"
    /\ UNCHANGED <<rows, todo, registry, worker, client, batch, told>>

\* The process dies (crash, SIGKILL, a failed start, or the end of a graceful
\* shutdown): every task, channel and connection is gone, SQLite and the
\* provider are not, and a create request on its way is still on its way.
Crash ==
    /\ proc # "down"
    /\ proc' = "down"
    /\ todo' = {}
    /\ registry' = [j \in Jobs |-> NULL]
    /\ worker' = [w \in Workers |-> IdleWorker]
    /\ client' = [c \in Clients |-> IdleClient]
    /\ UNCHANGED <<rows, batch, told>>

-------------------------------------------------------------------------------
(* Handlers.                                                               *)

\* batch_response (wants a terminal answer) and submit (wants only the 202):
\* the enqueue transaction.
Enqueue(c, j) ==
    /\ proc = "up"
    /\ client[c].pc = "idle"
    /\ enqueue(j)
    /\ \E wants \in BOOLEAN :
           client' = [client EXCEPT ![c] =
               [IdleClient EXCEPT !.pc = "get", !.job = j, !.wants = wants]]
    /\ UNCHANGED <<proc, todo, registry, worker, batch, told>>

\* The read after the commit of enqueue: from here on the handler holds a
\* snapshot of the job.
Snapshot(c) ==
    /\ client[c].pc = "get"
    /\ client' = [client EXCEPT ![c].pc = "subscribe",
                                ![c].val = rows[client[c].job]]
    /\ UNCHANGED <<rows, proc, todo, registry, worker, batch, told>>

\* resume: owned_request of a job that exists.
Resume(c, j) ==
    /\ proc = "up"
    /\ client[c].pc = "idle"
    /\ rows[j].status # "absent"
    /\ client' = [client EXCEPT ![c] =
           [IdleClient EXCEPT !.pc = "subscribe", !.job = j, !.val = rows[j]]]
    /\ UNCHANGED <<rows, proc, todo, registry, worker, batch, told>>

\* The snapshot was already terminal: the receiver of a channel of its own.
\* submit and resume answer with the snapshot (job_view).
SubscribeDone(c) ==
    /\ client[c].pc = "subscribe"
    /\ IsTerminal(client[c].val)
    /\ IF client[c].wants
       THEN /\ client' = [client EXCEPT ![c].pc = "wait"]
            /\ UNCHANGED told
       ELSE /\ client' = [client EXCEPT ![c] = IdleClient]
            /\ told' = [told EXCEPT ![client[c].job] =
                                        @ \cup {client[c].val.outcome}]
    /\ UNCHANGED <<rows, proc, todo, registry, worker, batch>>

SubscribeOpen(c) ==
    /\ client[c].pc = "subscribe"
    /\ ~IsTerminal(client[c].val)
    /\ Attach(client[c].job, client[c].val)
    /\ client' = [client EXCEPT ![c] =
           IF client[c].wants
           THEN [client[c] EXCEPT !.pc = "wait", !.src = registry'[client[c].job]]
           ELSE IdleClient]
    /\ UNCHANGED <<rows, proc, todo, batch, told>>

\* The loop of batch_response ends: with the terminal value, or with "batch
\* worker stopped before reaching a terminal state" if the senders are gone.
Answer(c) ==
    /\ client[c].pc = "wait"
    /\ client[c].src = NULL \/ IsTerminal(Seen(c))
    /\ told' = IF IsTerminal(Seen(c))
               THEN [told EXCEPT ![client[c].job] = @ \cup {Seen(c).outcome}]
               ELSE told
    /\ client' = [client EXCEPT ![c] = IdleClient]
    /\ UNCHANGED <<rows, proc, todo, registry, worker, batch>>

\* get_job: reads the row and changes nothing.
GetJob(j) ==
    /\ proc = "up"
    /\ IsTerminal(rows[j])
    /\ told' = [told EXCEPT ![j] = @ \cup {rows[j].outcome}]
    /\ UNCHANGED <<rows, proc, todo, registry, worker, client, batch>>

\* The connection is dropped, or a handler's query fails with an error.
Disconnect(c) ==
    /\ client[c].pc # "idle"
    /\ client' = [client EXCEPT ![c] = IdleClient]
    /\ UNCHANGED <<rows, proc, todo, registry, worker, batch, told>>

-------------------------------------------------------------------------------
(* The worker: JobDriver::run around JobDriver::advance.                   *)

Goto(w, pc, got) ==
    worker' = [worker EXCEPT ![w].pc = pc, ![w].got = got]

\* run adopts a state, sends it to the watch channel and either returns (the
\* state is terminal) or goes round the loop again.
Adopt(w, state) ==
    worker' = [worker EXCEPT ![w].state = state, ![w].chan = state,
                             ![w].pc = IF IsTerminal(state) THEN "exit" ELSE "top",
                             ![w].got = NULL]

AtTop(w, status) == worker[w].pc = "top" /\ worker[w].state.status = status

\* A conditional update by worker w: "update" is the statement and "may" its
\* WHERE clause; no row is DriverError::Conflict.
Transition(w, may, update) ==
    \/ update /\ Adopt(w, rows'[worker[w].job])
    \/ ~may /\ UNCHANGED rows /\ Goto(w, "reread", NULL)

\* Queued: upload the input file.
Upload(w) ==
    /\ AtTop(w, "queued")
    /\ \E f \in FileIds : Goto(w, "mark_uploaded", f)
    /\ UNCHANGED <<rows, proc, todo, registry, client, batch, told>>

MarkUploaded(w) ==
    /\ worker[w].pc = "mark_uploaded"
    /\ Transition(w, MayMarkUploaded(worker[w].job),
                  mark_uploaded(worker[w].job, worker[w].got))
    /\ UNCHANGED <<proc, todo, registry, client, batch, told>>

\* Slip: the create request is sent first and recorded when it is answered.
BeginSubmissionUnrecorded(w) ==
    /\ AtTop(w, "uploaded")
    /\ Goto(w, "create", NULL)
    /\ UNCHANGED <<rows, proc, todo, registry, client, batch, told>>

\* Uploaded: record the submission durably, then send the create request.
BeginSubmission(w) ==
    /\ AtTop(w, "uploaded")
    /\ LET j == worker[w].job
           f == worker[w].state.file
       IN \/ begin_submission(j, f) /\ Goto(w, "create", NULL)
          \/ ~MayBeginSubmission(j, f) /\ UNCHANGED rows /\ Goto(w, "reread", NULL)
    /\ UNCHANGED <<proc, todo, registry, client, batch, told>>

CreateBatch(w) ==
    /\ worker[w].pc = "create"
    /\ \E b \in BatchIds :
           /\ batch[b].phase = "free"
           /\ batch' = [batch EXCEPT ![b].phase = "inflight",
                                     ![b].job = worker[w].job]
           /\ Goto(w, "create_wait", b)
    /\ UNCHANGED <<rows, proc, todo, registry, client, told>>

CreateOk(w) ==
    /\ worker[w].pc = "create_wait"
    /\ Accepted(worker[w].got)
    /\ Goto(w, "mark_created", worker[w].got)
    /\ UNCHANGED <<rows, proc, todo, registry, client, batch, told>>

\* Timeout, transport error, 429 or 5xx, whatever became of the request.
CreateRetryable(w) ==
    /\ worker[w].pc = "create_wait"
    /\ Goto(w, "mark_uncertain", NULL)
    /\ UNCHANGED <<rows, proc, todo, registry, client, batch, told>>

\* A 4xx for a request that created nothing, or a success whose body does not
\* parse.  The local state is still Uploaded when run handles this.
CreatePermanent(w) ==
    /\ worker[w].pc = "create_wait"
    /\ batch[worker[w].got].phase # "inflight"
    /\ Goto(w, "fail", NULL)
    /\ UNCHANGED <<rows, proc, todo, registry, client, batch, told>>

\* mark_submitted after a create (expects submitting) or after a list scan
\* (expects the local status).
MarkSubmitted(w) ==
    /\ worker[w].pc \in {"mark_created", "mark_found"}
    /\ LET e == IF worker[w].pc = "mark_created" THEN "submitting"
                ELSE worker[w].state.status
       IN Transition(w, MayReplace(worker[w].job, e),
                     mark_submitted(worker[w].job, e, worker[w].got))
    /\ UNCHANGED <<proc, todo, registry, client, batch, told>>

\* After a retryable create error, and for a job found in Submitting.
MarkUncertain(w) ==
    /\ worker[w].pc = "mark_uncertain" \/ AtTop(w, "submitting")
    /\ Transition(w, MayMarkUncertain(worker[w].job),
                  mark_submission_uncertain(worker[w].job))
    /\ UNCHANGED <<proc, todo, registry, client, batch, told>>

\* SubmissionUncertain: scan the provider's batch list for our job id.
FindBatch(w) ==
    /\ AtTop(w, "submission_uncertain")
    /\ \E b \in BatchIds : /\ batch[b].job = worker[w].job
                           /\ batch[b].listed
                           /\ Goto(w, "mark_found", b)
    /\ UNCHANGED <<rows, proc, todo, registry, client, batch, told>>

\* Submitted: poll the batch; once it has ended, fetch the file its outcome
\* is in, or store the outcome, or fail for want of any file.
GetBatch(w) ==
    /\ AtTop(w, "submitted")
    /\ LET b == worker[w].state.batch
           r == batch[b].result
       IN /\ batch[b].phase = "ended"
          /\ IF NeedsFile(r) THEN Goto(w, "fetch", r)
             ELSE IF r.status = "completed" THEN Goto(w, "fail", NULL)
             ELSE Goto(w, "store", OutcomeOf(b, r))
    /\ UNCHANGED <<rows, proc, todo, registry, client, batch, told>>

\* Slip: the status of the response in the output file is not looked at.
FetchFileUnchecked(w) ==
    /\ worker[w].pc = "fetch"
    /\ Goto(w, "store", OutcomeOf(worker[w].state.batch, worker[w].got))
    /\ UNCHANGED <<rows, proc, todo, registry, client, batch, told>>

\* Slip: whatever is in the file is stored as Completed.
FetchFileAlwaysCompleted(w) ==
    /\ worker[w].pc = "fetch"
    /\ Goto(w, "store", [kind |-> "completed", by |-> worker[w].state.batch])
    /\ UNCHANGED <<rows, proc, todo, registry, client, batch, told>>

\* get_file_content for the batch object in hand and, for an output file,
\* parse_batch_output.
FetchFile(w) ==
    /\ worker[w].pc = "fetch"
    /\ LET b == worker[w].state.batch
           r == worker[w].got
       IN IF r.output = "malformed" THEN Goto(w, "fail", NULL)
          ELSE Goto(w, "store", OutcomeOf(b, r))
    /\ UNCHANGED <<rows, proc, todo, registry, client, batch, told>>

\* A retryable error at the file download goes back through the poll sleep.
FetchRetryable(w) ==
    /\ worker[w].pc = "fetch"
    /\ Goto(w, "top", NULL)
    /\ UNCHANGED <<rows, proc, todo, registry, client, batch, told>>

\* Any of these calls but create_batch is answered with an error that is not
\* retryable: a 4xx, or a success whose body does not parse.
ProviderPermanent(w) ==
    /\ \/ worker[w].pc = "fetch"
       \/ \E s \in {"queued", "submission_uncertain", "submitted"} : AtTop(w, s)
    /\ Goto(w, "fail", NULL)
    /\ UNCHANGED <<rows, proc, todo, registry, client, batch, told>>

StoreOutcome(w) ==
    /\ worker[w].pc = "store"
    /\ Transition(w, MayReplace(worker[w].job, worker[w].state.status),
                  store_outcome(worker[w].job, worker[w].state.status, worker[w].got))
    /\ UNCHANGED <<proc, todo, registry, client, batch, told>>

\* Slip: the failure is sent to the waiters even if it cannot be stored.
StoreFailureSendsFirst(w) ==
    /\ worker[w].pc = "fail"
    /\ Adopt(w, OutcomeRow(worker[w].state, FailedByKaiion))
    /\ UNCHANGED <<rows, proc, todo, registry, client, batch, told>>

\* DriverError::Permanent: store a failure of our own, expecting the LOCAL
\* status; a conflict goes back to the row.
StoreFailure(w) ==
    /\ worker[w].pc = "fail"
    /\ Transition(w, MayReplace(worker[w].job, worker[w].state.status),
                  store_outcome(worker[w].job, worker[w].state.status, FailedByKaiion))
    /\ UNCHANGED <<proc, todo, registry, client, batch, told>>

\* Slip: run returns after any conflict.
RereadGivesUp(w) ==
    /\ worker[w].pc = "reread"
    /\ worker' = [worker EXCEPT ![w].state = rows[worker[w].job],
                                ![w].chan = rows[worker[w].job],
                                ![w].pc = "exit", ![w].got = NULL]
    /\ UNCHANGED <<rows, proc, todo, registry, client, batch, told>>

\* Slip: a conflict is only logged.
RereadIgnoresRow(w) ==
    /\ worker[w].pc = "reread"
    /\ Goto(w, "top", NULL)
    /\ UNCHANGED <<rows, proc, todo, registry, client, batch, told>>

\* driver_state: after a conflict, take over what the row says.
Reread(w) ==
    /\ worker[w].pc = "reread"
    /\ Adopt(w, rows[worker[w].job])
    /\ UNCHANGED <<rows, proc, todo, registry, client, batch, told>>

\* SQLite answers with an error other than a conflict, and has not applied
\* the statement: back to the top, local state unchanged, what was fetched
\* forgotten.
DbError(w) ==
    /\ worker[w].pc \in DbSteps
    /\ Goto(w, "top", NULL)
    /\ UNCHANGED <<rows, proc, todo, registry, client, batch, told>>

\* run has returned: evict the registry entry.  Receivers keep the last value.
Exit(w) ==
    /\ worker[w].pc = "exit"
    /\ registry' = [registry EXCEPT ![worker[w].job] = NULL]
    /\ client' = [c \in Clients |->
           IF client[c].src = w
           THEN [client[c] EXCEPT !.src = NULL, !.val = worker[w].chan]
           ELSE client[c]]
    /\ worker' = [worker EXCEPT ![w] = IdleWorker]
    /\ UNCHANGED <<rows, proc, todo, batch, told>>

-------------------------------------------------------------------------------
(* The provider (external): a create request takes effect, or never does,  *)
(* at any time after it was sent; the batch shows up in the list at any    *)
(* time after that, and ends in any way.                                   *)

Accept(b) ==
    /\ batch[b].phase = "inflight"
    /\ batch' = [batch EXCEPT ![b].phase = "running"]
    /\ UNCHANGED <<rows, proc, todo, registry, worker, client, told>>

Refuse(b) ==
    /\ batch[b].phase = "inflight"
    /\ batch' = [batch EXCEPT ![b].phase = "void"]
    /\ UNCHANGED <<rows, proc, todo, registry, worker, client, told>>

Enlist(b) ==
    /\ Accepted(b)
    /\ ~batch[b].listed
    /\ batch' = [batch EXCEPT ![b].listed = TRUE]
    /\ UNCHANGED <<rows, proc, todo, registry, worker, client, told>>

End(b) ==
    /\ batch[b].phase = "running"
    /\ \E r \in BatchResults :
           batch' = [batch EXCEPT ![b].phase = "ended", ![b].result = r]
    /\ UNCHANGED <<rows, proc, todo, registry, worker, client, told>>

-------------------------------------------------------------------------------

ProcessNext == Start \/ (\E j \in Jobs : StartupResume(j)) \/ Serve \/ Crash

ClientNext ==
    \/ \E c \in Clients, j \in Jobs : Enqueue(c, j) \/ Resume(c, j)
    \/ \E c \in Clients : \/ Snapshot(c) \/ SubscribeDone(c) \/ SubscribeOpen(c)
                          \/ Answer(c) \/ Disconnect(c)
    \/ \E j \in Jobs : GetJob(j)

WorkerNext ==
    \E w \in Workers :
        \/ Upload(w) \/ MarkUploaded(w) \/ BeginSubmission(w)
        \/ CreateBatch(w) \/ CreateOk(w) \/ CreateRetryable(w) \/ CreatePermanent(w)
        \/ MarkSubmitted(w) \/ MarkUncertain(w) \/ FindBatch(w)
        \/ GetBatch(w) \/ FetchFile(w) \/ FetchRetryable(w) \/ ProviderPermanent(w)
        \/ StoreOutcome(w) \/ StoreFailure(w) \/ Reread(w) \/ DbError(w) \/ Exit(w)

ProviderNext == \E b \in BatchIds : Accept(b) \/ Refuse(b) \/ Enlist(b) \/ End(b)

Next == ProcessNext \/ ClientNext \/ WorkerNext \/ ProviderNext

Spec == Init /\ [][Next]_vars

-------------------------------------------------------------------------------
(* Safety.                                                                 *)

\* Shape of the state; a worker's "got" has the type its pc needs.
TypeOK ==
    /\ RowsTypeOK
    /\ proc \in {"down", "starting", "up"}
    /\ todo \subseteq Jobs
    /\ registry \in [Jobs -> Workers \cup {NULL}]
    /\ worker \in [Workers -> [job : Jobs \cup {NULL}, pc : WorkerPcs,
                               state : RowTypes, chan : RowTypes,
                               got : FileIds \cup BatchIds \cup BatchResults
                                     \cup Outcomes \cup {NULL}]]
    /\ client \in [Clients -> [job : Jobs \cup {NULL},
                               pc : {"idle", "get", "subscribe", "wait"},
                               wants : BOOLEAN, val : RowTypes,
                               src : Workers \cup {NULL}]]
    /\ batch \in [BatchIds -> [job : Jobs \cup {NULL}, phase : BatchPhases,
                               listed : BOOLEAN, result : BatchResults \cup {NULL}]]
    /\ told \in [Jobs -> SUBSET Outcomes]

\* At-most-once cost: over every crash, restart, lost or late reply, stale
\* snapshot and SQLite error, at most one create request is ever sent for a
\* job (advance, JobState::Uploaded).
AtMostOneCreate ==
    \A b1, b2 \in BatchIds :
        /\ batch[b1].phase # "free"
        /\ batch[b2].phase # "free"
        /\ batch[b1].job = batch[b2].job
        => b1 = b2

\* A create request is on record before it is sent: whatever dies afterwards,
\* the row says at least submitting, so a restart can tell that the provider
\* may hold a batch (begin_submission before create_batch).
CreateIsOnRecord ==
    \A b \in BatchIds :
        batch[b].phase # "free" => Rank(rows[batch[b].job].status) >= 3

\* One worker per job: a registered worker is alive and works for that job,
\* and every live worker is the registered one (subscribe spawns under the
\* lock, and the entry is removed only after run has returned).
OneWorkerPerJob ==
    /\ \A j \in Jobs : registry[j] # NULL => worker[registry[j]].job = j
    /\ \A w \in Workers :
           worker[w].pc # "idle" => registry[worker[w].job] = w

\* A handler that waits for a job never finds its channel closed on a value
\* that is not terminal, so "batch worker stopped before reaching a terminal
\* state" is never the answer (run returns only after sending such a value).
NoWaiterOrphaned ==
    \A c \in Clients :
        client[c].pc = "wait" /\ client[c].src = NULL => IsTerminal(client[c].val)

\* Whatever any client was ever told to be the job's outcome is the outcome in
\* the table: no terminal value is reported before it is durable, and two
\* clients, before and after any number of crashes, never get different ones.
ToldIsDurable ==
    \A j \in Jobs : told[j] \subseteq {rows[j].outcome}

\* A row refers only to the job's own batch, one the provider did accept, and
\* a stored outcome that claims to come from a batch is what that batch ended
\* with (mark_submitted after create or find; apply_batch_status).
OutcomeIsOfOwnBatch ==
    \A j \in Jobs :
        /\ rows[j].batch # NULL =>
               Accepted(rows[j].batch) /\ batch[rows[j].batch].job = j
        /\ rows[j].outcome # NULL /\ rows[j].outcome.by # Kaiion =>
               LET b == rows[j].outcome.by
               IN /\ batch[b].job = j
                  /\ batch[b].phase = "ended"
                  /\ rows[j].outcome = OutcomeOf(b, batch[b].result)

-------------------------------------------------------------------------------
(* Fairness.  Tasks the runtime polls make progress (WF).  An operation    *)
(* that can fail is retried at every poll; SF says that it does not fail   *)
(* every single time, which is what the environment owes the code.         *)

DbWrite(w) == \/ MarkUploaded(w) \/ BeginSubmission(w) \/ MarkSubmitted(w)
              \/ MarkUncertain(w) \/ StoreOutcome(w) \/ StoreFailure(w)

ProviderCall(w) == Upload(w) \/ FindBatch(w) \/ GetBatch(w)

NeverRetried(w) == \/ CreateBatch(w) \/ CreateOk(w) \/ CreateRetryable(w)
                   \/ CreatePermanent(w) \/ Exit(w)

WorkerFairness ==
    \A w \in Workers :
        /\ SF_vars(DbWrite(w)) /\ SF_vars(Reread(w))
        /\ SF_vars(ProviderCall(w)) /\ SF_vars(FetchFile(w))
        /\ WF_vars(NeverRetried(w))

HandlerFairness ==
    /\ \A c \in Clients :
           WF_vars(Snapshot(c) \/ SubscribeDone(c) \/ SubscribeOpen(c) \/ Answer(c))
    /\ WF_vars(Start \/ Serve \/ \E j \in Jobs : StartupResume(j))

ProviderFairness ==
    \A b \in BatchIds : WF_vars(Accept(b) \/ Refuse(b) \/ Enlist(b) \/ End(b))

FairSpec == Spec /\ WorkerFairness /\ HandlerFairness /\ ProviderFairness

-------------------------------------------------------------------------------
(* Liveness.                                                               *)

StaysUp == <>[](proc # "down")

\* A job whose batch the provider accepted reaches a stored outcome without
\* any client, if the process stops crashing and resumes jobs on start-up:
\* neither a crash between create and mark_submitted, nor a conflict, nor a
\* lost reply strands it (run, driver_state, resume_from_env).
AcceptedJobFinishes ==
    StaysUp => \A b \in BatchIds, j \in Jobs :
        (Accepted(b) /\ batch[b].job = j) ~> IsTerminal(rows[j])

\* Nobody waits forever for an outcome that is stored: a handler that joined
\* the worker at the last moment, or spawned a new one from a stale snapshot,
\* gets its answer (or its connection ends).  This is about jobs whose batch
\* the provider accepted; for the others see RegistryDrains.
WaiterIsAnswered ==
    \A c \in Clients, j \in Jobs :
        (/\ client[c].pc = "wait" /\ client[c].job = j /\ IsTerminal(rows[j])
         /\ \E b \in BatchIds : Accepted(b) /\ batch[b].job = j)
            ~> (client[c].pc # "wait")

-------------------------------------------------------------------------------
(* Refinement: the workers, channels, SQL and crashes implement the plain  *)
(* life of a job in DurableJobs.                                           *)

OriginOf(o) == IF o.by = Kaiion THEN NULL ELSE o.by

Abstract == INSTANCE DurableJobs WITH
    Requests <- BatchIds,
    Nothing  <- NULL,
    Origin   <- OriginOf,
    phase    <- [j \in Jobs |->
                    IF rows[j].status = "absent" THEN "absent"
                    ELSE IF rows[j].status \in {"queued", "uploaded"} THEN "open"
                    ELSE IF IsTerminal(rows[j]) THEN "done" ELSE "committed"],
    sent     <- [j \in Jobs |->
                    {b \in BatchIds : batch[b].phase # "free" /\ batch[b].job = j}],
    outcome  <- [j \in Jobs |-> rows[j].outcome]

\* Every behaviour of the batch path is one of DurableJobs: one commitment,
\* one create request after it and before the outcome, one outcome, and no
\* client is ever told another.
ImplementsDurableJobs == Abstract!Spec

-------------------------------------------------------------------------------
(* Claims of the documentation that the code does not keep.                *)

\* "Provider protocol violations reach a durable terminal state instead of
\* retrying forever": a job whose create request got a permanent error (the
\* local state is still Uploaded then) gets a stored outcome.
PermanentErrorIsFinal ==
    StaysUp => \A j \in Jobs :
        (\E w \in Workers : /\ worker[w].job = j /\ worker[w].pc = "fail"
                            /\ worker[w].state.status = "uploaded")
            ~> IsTerminal(rows[j])

\* "Worker-registry size returns to baseline after all streams and jobs
\* terminate": a worker does not stay registered for good once its job's
\* outcome is stored.
RegistryDrains ==
    \A j \in Jobs : IsTerminal(rows[j]) ~> registry[j] = NULL

===============================================================================
