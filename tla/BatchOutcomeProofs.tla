--------------------------- MODULE BatchOutcomeProofs ---------------------------
(***************************************************************************)
(* Theorems about BatchDriver, continued: who works for a job, who waits   *)
(* for whom, whose the outcome is, and that the whole implements           *)
(* DurableJobs, for any number of jobs, clients, workers and batches.      *)
(***************************************************************************)
EXTENDS BatchDriverProofs

\* The actions of a worker that has not returned from run.
Running(w) ==
    \/ Upload(w) \/ MarkUploaded(w) \/ BeginSubmission(w)
    \/ CreateBatch(w) \/ CreateOk(w) \/ CreateRetryable(w) \/ CreatePermanent(w)
    \/ MarkSubmitted(w) \/ MarkUncertain(w) \/ FindBatch(w)
    \/ GetBatch(w) \/ FetchFile(w) \/ FetchRetryable(w) \/ ProviderPermanent(w)
    \/ StoreOutcome(w) \/ StoreFailure(w) \/ Reread(w) \/ DbError(w)

\* Such a worker stays with its job; it keeps its state or takes over the row.
LEMMA WorkerMoves ==
    ASSUME BaseInv, NEW w \in Workers, Running(w)
    PROVE  /\ worker[w].pc # "idle" /\ worker'[w].pc # "idle"
           /\ worker'[w].job = worker[w].job
           /\ worker'[w].state \in {worker[w].state, rows'[worker[w].job]}
           /\ \A v \in Workers : v # w => worker'[v] = worker[v]
           /\ UNCHANGED <<proc, todo, registry, client, told>>
  <1> DEFINE j == worker[w].job
             Moves(state) == /\ worker'[w].pc # "idle" /\ worker'[w].job = j
                             /\ worker'[w].state = state
                             /\ \A v \in Workers : v # w => worker'[v] = worker[v]
  <1>0. worker \in [Workers -> WorkerTypes]
    BY DEF BaseInv, WorkersOK
  <1>1. ASSUME NEW pc, NEW got, pc # "idle", Goto(w, pc, got) PROVE Moves(worker[w].state)
    BY <1>0, <1>1 DEF Goto, WorkerTypes
  <1>2. ASSUME NEW state, Adopt(w, state) PROVE Moves(state)
    BY <1>0, <1>2 DEF Adopt, WorkerTypes
  <1> HIDE DEF Moves
  <1>3. CASE \/ MarkUploaded(w) \/ MarkSubmitted(w) \/ MarkUncertain(w)
             \/ StoreOutcome(w) \/ StoreFailure(w)
    <2>1. \/ Goto(w, "reread", NULL) \/ Adopt(w, rows'[j])
      BY <1>3 DEF MarkUploaded, MarkSubmitted, MarkUncertain, StoreOutcome, StoreFailure,
         Transition
    <2>2. Moves(worker[w].state) \/ Moves(rows'[j])
      BY <1>1, <1>2, <2>1
    <2> QED BY <1>3, <2>2 DEF Moves, MarkUploaded, MarkSubmitted, MarkUncertain, StoreOutcome,
               StoreFailure, AtTop
  <1>4. CASE Reread(w)
    BY <1>2, <1>4 DEF Moves, Reread
  <1>5. CASE Upload(w)
    BY <1>1, <1>5 DEF Moves, Upload, AtTop
  <1>6. CASE BeginSubmission(w)
    <2>1. Moves(worker[w].state)
      BY <1>1, <1>6 DEF BeginSubmission
    <2> QED BY <1>6, <2>1 DEF Moves, BeginSubmission, AtTop
  <1>7. CASE CreateBatch(w)
    BY <1>1, <1>7 DEF Moves, CreateBatch
  <1>8. CASE CreateOk(w) \/ CreateRetryable(w) \/ CreatePermanent(w)
    BY <1>1, <1>8 DEF Moves, CreateOk, CreateRetryable, CreatePermanent
  <1>9. CASE FindBatch(w)
    BY <1>1, <1>9 DEF Moves, FindBatch, AtTop
  <1>10. CASE GetBatch(w)
    <2>1. Moves(worker[w].state)
      BY <1>1, <1>10 DEF GetBatch
    <2> QED BY <1>10, <2>1 DEF Moves, GetBatch, AtTop
  <1>11. CASE FetchFile(w)
    <2>1. Moves(worker[w].state)
      BY <1>1, <1>11 DEF FetchFile
    <2> QED BY <1>11, <2>1 DEF Moves, FetchFile
  <1>12. CASE FetchRetryable(w) \/ ProviderPermanent(w) \/ DbError(w)
    <2>1. Moves(worker[w].state)
      BY <1>1, <1>12 DEF FetchRetryable, ProviderPermanent, DbError
    <2> QED BY <1>12, <2>1 DEF Moves, FetchRetryable, ProviderPermanent, DbError, DbSteps, AtTop
  <1> QED BY <1>3, <1>4, <1>5, <1>6, <1>7, <1>8, <1>9, <1>10, <1>11, <1>12 DEF Running

-------------------------------------------------------------------------------
(* Who works for a job, and who waits for whom.                            *)

\* A handler that waits without a worker has a terminal value; the worker that
\* a handler watches is there, and works for the handler's job.
WatchInv ==
    /\ OneWorkerPerJob
    /\ \A j \in Jobs : registry[j] # NULL => worker[registry[j]].pc # "idle"
    /\ \A c \in Clients :
          /\ client[c].pc # "wait" => client[c].src = NULL
          /\ client[c].src # NULL => /\ worker[client[c].src].pc # "idle"
                                     /\ worker[client[c].src].job = client[c].job
    /\ NoWaiterOrphaned

\* Nobody works or waits when the process first starts.
LEMMA WatchInit == Init => WatchInv
  BY NullIsNoTask DEF Init, WatchInv, OneWorkerPerJob, NoWaiterOrphaned, IdleWorker, IdleClient

\* Steps that leave registry and handlers alone, and every worker with its job.
LEMMA WorkersStay ==
    ASSUME BaseInv, WatchInv, UNCHANGED <<registry, client>>,
           \A v \in Workers : /\ worker'[v].job = worker[v].job
                              /\ worker'[v].pc = "idle" <=> worker[v].pc = "idle"
    PROVE  WatchInv'
  <1>1. registry \in [Jobs -> Workers \cup {NULL}]
        /\ \A c \in Clients : client[c].src \in Workers \cup {NULL}
    BY DEF BaseInv, ProcessOK, ClientsOK, ClientTypes
  <1> QED BY <1>1 DEF WatchInv, OneWorkerPerJob, NoWaiterOrphaned

\* A handler that is not left waiting for a worker.
LEMMA HandlerStays ==
    ASSUME BaseInv, WatchInv, NEW c \in Clients, NEW new, UNCHANGED <<registry, worker>>,
           client' = [client EXCEPT ![c] = new],
           new.src = NULL, new.pc = "wait" => IsTerminal(new.val)
    PROVE  WatchInv'
  <1>1. \A d \in Clients : client'[d] = client[d] \/ client'[d] = new
    BY DEF BaseInv, ClientsOK
  <1> QED BY <1>1 DEF WatchInv, OneWorkerPerJob, NoWaiterOrphaned

\* subscribe joins the registered worker, or registers the one it spawns.
LEMMA AttachRegisters ==
    ASSUME BaseInv, WatchInv, NEW j \in Jobs, NEW snapshot, Attach(j, snapshot)
    PROVE  /\ OneWorkerPerJob'
           /\ \A k \in Jobs : registry'[k] # NULL => worker'[registry'[k]].pc # "idle"
           /\ registry'[j] \in Workers
           /\ \A v \in Workers : worker[v].pc # "idle" => worker'[v] = worker[v]
  <1>0. registry \in [Jobs -> Workers \cup {NULL}] /\ worker \in [Workers -> WorkerTypes]
        /\ \A w \in Workers : worker[w].pc # "idle" => worker[w].job \in Jobs
    BY DEF BaseInv, ProcessOK, WorkersOK, HeldJobsExist, InTable
  <1>1. CASE registry[j] # NULL /\ UNCHANGED <<registry, worker>>
    BY <1>0, <1>1 DEF WatchInv, OneWorkerPerJob
  <1>2. ASSUME NEW w \in Workers, registry[j] = NULL, worker[w].pc = "idle",
               registry' = [registry EXCEPT ![j] = w],
               worker' = [worker EXCEPT ![w] = [job |-> j, pc |-> "top", state |-> snapshot,
                                                chan |-> snapshot, got |-> NULL]]
        PROVE  /\ OneWorkerPerJob'
               /\ \A k \in Jobs : registry'[k] # NULL => worker'[registry'[k]].pc # "idle"
               /\ registry'[j] \in Workers
               /\ \A v \in Workers : worker[v].pc # "idle" => worker'[v] = worker[v]
    <2>1. /\ worker'[w].job = j /\ worker'[w].pc = "top" /\ registry'[j] = w
          /\ \A v \in Workers : v # w => worker'[v] = worker[v]
          /\ \A k \in Jobs : k # j => registry'[k] = registry[k]
      BY <1>0, <1>2
    <2>2. \A k \in Jobs : registry[k] # w
      BY <1>2, NullIsNoTask DEF WatchInv
    <2>3. \A v \in Workers : worker[v].pc # "idle" => worker[v].job # j
      BY <1>2, NullIsNoTask DEF WatchInv, OneWorkerPerJob
    <2> QED BY <1>0, <1>2, <2>1, <2>2, <2>3 DEF WatchInv, OneWorkerPerJob
  <1> QED BY <1>1, <1>2, <1>0, NullIsNoTask DEF Attach

\* A worker that has returned leaves the registry, and its last value, which is
\* terminal, to those who wait.
LEMMA ExitKeepsWatch ==
    ASSUME BaseInv, WatchInv, NEW w \in Workers, Exit(w)
    PROVE  WatchInv'
  <1> DEFINE j == worker[w].job
  <1>0. /\ registry \in [Jobs -> Workers \cup {NULL}] /\ worker \in [Workers -> WorkerTypes]
        /\ client \in [Clients -> ClientTypes]
        /\ \A v \in Workers : worker[v].pc # "idle" => worker[v].job \in Jobs
        /\ WorkerShape(worker[w])
    BY DEF BaseInv, ProcessOK, WorkersOK, ClientsOK, HeldJobsExist, InTable
  <1>1. worker[w].pc = "exit" /\ j \in Jobs /\ registry[j] = w /\ IsTerminal(worker[w].chan)
    BY <1>0 DEF Exit, WatchInv, OneWorkerPerJob, WorkerShape
  <1>2. /\ registry' = [registry EXCEPT ![j] = NULL]
        /\ worker' = [worker EXCEPT ![w] = IdleWorker]
        /\ \A c \in Clients :
               client'[c] = IF client[c].src = w
                            THEN [client[c] EXCEPT !.src = NULL, !.val = worker[w].chan]
                            ELSE client[c]
    BY DEF Exit
  <1>5. /\ \A v \in Workers : v # w => worker'[v] = worker[v]
        /\ worker'[w].pc = "idle" /\ registry'[j] = NULL
        /\ \A k \in Jobs : k # j => registry'[k] = registry[k]
    BY <1>0, <1>1, <1>2 DEF IdleWorker
  <1> HIDE DEF j
  <1>6. \A v \in Workers : v # w /\ worker[v].pc # "idle" =>
            worker[v].job # j /\ registry[worker[v].job] = v
    BY <1>1 DEF WatchInv, OneWorkerPerJob, j
  <1>7. \A k \in Jobs : k # j /\ registry[k] # NULL =>
            /\ registry[k] \in Workers /\ worker[registry[k]].pc # "idle"
            /\ worker[registry[k]].job = k
    BY <1>0 DEF WatchInv, OneWorkerPerJob
  <1>8. \A k \in Jobs : k # j => registry[k] # w
    BY <1>1, NullIsNoTask DEF WatchInv, OneWorkerPerJob, j
  <1>9. OneWorkerPerJob'
    <2>1. ASSUME NEW v \in Workers, worker'[v].pc # "idle" PROVE registry'[worker'[v].job] = v
      <3>1. v # w /\ worker'[v] = worker[v] /\ worker[v].pc # "idle"
        BY <1>5, <2>1
      <3> QED BY <1>0, <1>5, <1>6, <3>1
    <2>2. ASSUME NEW k \in Jobs, registry'[k] # NULL PROVE worker'[registry'[k]].job = k
      BY <1>5, <1>7, <1>8, <2>2
    <2> QED BY <2>1, <2>2 DEF OneWorkerPerJob
  <1>3. OneWorkerPerJob' /\ \A k \in Jobs : registry'[k] # NULL => worker'[registry'[k]].pc # "idle"
    <2>1. ASSUME NEW k \in Jobs, registry'[k] # NULL PROVE worker'[registry'[k]].pc # "idle"
      BY <1>5, <1>7, <1>8, <2>1
    <2> QED BY <1>9, <2>1
  <1>4. ASSUME NEW c \in Clients
        PROVE  /\ client'[c].pc # "wait" => client'[c].src = NULL
               /\ client'[c].src # NULL => /\ worker'[client'[c].src].pc # "idle"
                                           /\ worker'[client'[c].src].job = client'[c].job
               /\ client'[c].pc = "wait" /\ client'[c].src = NULL => IsTerminal(client'[c].val)
    <2>1. CASE client[c].src = w
      <3>1. /\ client'[c].src = NULL /\ client'[c].val = worker[w].chan
        BY <1>0, <1>2, <2>1 DEF ClientTypes
      <3> QED BY <1>1, <3>1
    <2>2. CASE client[c].src # w
      <3>1. client'[c] = client[c]
        BY <1>2, <2>2
      <3>2. client[c].src # NULL => worker'[client[c].src] = worker[client[c].src]
        BY <1>0, <1>2, <2>2 DEF ClientTypes
      <3> QED BY <3>1, <3>2 DEF WatchInv, NoWaiterOrphaned
    <2> QED BY <2>1, <2>2
  <1> QED BY <1>3, <1>4 DEF WatchInv, NoWaiterOrphaned

\* Handlers and the start-up loop.
LEMMA ClientsKeepWatch ==
    ASSUME BaseInv, WatchInv, ClientNext \/ ProcessNext
    PROVE  WatchInv'
  <1>0. /\ client \in [Clients -> ClientTypes]
        /\ \A c \in Clients : client[c].pc # "idle" => client[c].job \in Jobs
    BY DEF BaseInv, ClientsOK, HeldJobsExist, InTable
  <1>00. IdleClient.src = NULL /\ IdleClient.pc = "idle"
    BY DEF IdleClient
  <1>1. ASSUME NEW c \in Clients, NEW j \in Jobs, Enqueue(c, j) PROVE WatchInv'
    <2>1. PICK wants \in BOOLEAN : client' = [client EXCEPT ![c] =
               [IdleClient EXCEPT !.pc = "get", !.job = j, !.wants = wants]]
      BY <1>1 DEF Enqueue
    <2> DEFINE new == [IdleClient EXCEPT !.pc = "get", !.job = j, !.wants = wants]
    <2>2. new.src = NULL /\ new.pc = "get"
      BY DEF IdleClient
    <2>3. UNCHANGED <<registry, worker>>
      BY <1>1 DEF Enqueue
    <2> HIDE DEF new
    <2> QED BY <2>1, <2>2, <2>3, HandlerStays DEF new
  <1>2. ASSUME NEW c \in Clients, NEW j \in Jobs, Resume(c, j) PROVE WatchInv'
    <2> DEFINE new == [IdleClient EXCEPT !.pc = "subscribe", !.job = j, !.val = rows[j]]
    <2>1. client' = [client EXCEPT ![c] = new] /\ UNCHANGED <<registry, worker>>
      BY <1>2 DEF Resume
    <2>2. new.src = NULL /\ new.pc = "subscribe"
      BY DEF IdleClient
    <2> HIDE DEF new
    <2> QED BY <2>1, <2>2, HandlerStays
  <1>3. ASSUME NEW c \in Clients, Snapshot(c) PROVE WatchInv'
    <2> DEFINE new == [client[c] EXCEPT !.pc = "subscribe", !.val = rows[client[c].job]]
    <2>1. client' = [client EXCEPT ![c] = new] /\ new.src = NULL /\ new.pc = "subscribe"
      BY <1>0, <1>3 DEF Snapshot, ClientTypes, WatchInv
    <2> QED BY <1>3, <2>1, HandlerStays DEF Snapshot
  <1>4. ASSUME NEW c \in Clients, SubscribeDone(c) PROVE WatchInv'
    <2>1. CASE client[c].wants
      <3> DEFINE new == [client[c] EXCEPT !.pc = "wait"]
      <3>1. client' = [client EXCEPT ![c] = new]
        BY <1>0, <1>4, <2>1 DEF SubscribeDone, ClientTypes
      <3>2. new.src = NULL /\ IsTerminal(new.val)
        BY <1>0, <1>4 DEF SubscribeDone, ClientTypes, WatchInv
      <3> QED BY <1>4, <3>1, <3>2, HandlerStays DEF SubscribeDone
    <2>2. CASE ~client[c].wants
      <3>1. client' = [client EXCEPT ![c] = IdleClient] /\ UNCHANGED <<registry, worker>>
        BY <1>4, <2>2 DEF SubscribeDone
      <3> QED BY <1>00, <3>1, HandlerStays
    <2> QED BY <2>1, <2>2
  <1>5. ASSUME NEW c \in Clients, SubscribeOpen(c) PROVE WatchInv'
    <2> DEFINE j == client[c].job
               new == IF client[c].wants
                      THEN [client[c] EXCEPT !.pc = "wait", !.src = registry'[j]]
                      ELSE IdleClient
    <2>1. j \in Jobs /\ Attach(j, client[c].val) /\ client' = [client EXCEPT ![c] = new]
      BY <1>0, <1>5 DEF SubscribeOpen
    <2>2. /\ OneWorkerPerJob'
          /\ \A k \in Jobs : registry'[k] # NULL => worker'[registry'[k]].pc # "idle"
          /\ registry'[j] \in Workers
          /\ \A v \in Workers : worker[v].pc # "idle" => worker'[v] = worker[v]
      BY <2>1, AttachRegisters
    <2>3. /\ new.pc # "wait" => new.src = NULL
          /\ new.src # NULL => new.src = registry'[j] /\ new.job = j
          /\ new.pc = "wait" => new.src = registry'[j]
      BY <1>0, <1>5 DEF SubscribeOpen, ClientTypes, IdleClient
    <2>4. registry'[j] # NULL /\ worker'[registry'[j]].job = j
      BY <2>1, <2>2, NullIsNoTask DEF OneWorkerPerJob
    <2>5. client'[c] = new /\ \A d \in Clients : d # c => client'[d] = client[d]
      BY <1>0, <2>1
    <2>6. \A d \in Clients : client[d].src \in Workers \cup {NULL}
      BY <1>0 DEF ClientTypes
    <2> HIDE DEF new
    <2>7. ASSUME NEW d \in Clients
          PROVE  /\ client'[d].pc # "wait" => client'[d].src = NULL
                 /\ client'[d].src # NULL => /\ worker'[client'[d].src].pc # "idle"
                                             /\ worker'[client'[d].src].job = client'[d].job
                 /\ client'[d].pc = "wait" /\ client'[d].src = NULL => IsTerminal(client'[d].val)
      <3>1. CASE d = c
        BY <2>1, <2>2, <2>3, <2>4, <2>5, <3>1
      <3>2. CASE d # c
        BY <2>2, <2>5, <2>6, <3>2 DEF WatchInv, NoWaiterOrphaned
      <3> QED BY <3>1, <3>2
    <2> QED BY <2>2, <2>7 DEF WatchInv, NoWaiterOrphaned
  <1>6. ASSUME NEW c \in Clients, Answer(c) \/ Disconnect(c) PROVE WatchInv'
    <2>1. client' = [client EXCEPT ![c] = IdleClient] /\ UNCHANGED <<registry, worker>>
      BY <1>6 DEF Answer, Disconnect
    <2> QED BY <1>00, <2>1, HandlerStays
  <1>7. ASSUME NEW j \in Jobs, GetJob(j) PROVE WatchInv'
    BY <1>7, WorkersStay DEF GetJob
  <1>8. CASE Start \/ Serve
    BY <1>8, WorkersStay DEF Start, Serve
  <1>9. CASE Crash
    BY <1>9, NullIsNoTask DEF Crash, WatchInv, OneWorkerPerJob, NoWaiterOrphaned, IdleWorker,
       IdleClient
  <1>10. ASSUME NEW j \in Jobs, StartupResume(j) PROVE WatchInv'
    <2>1. /\ OneWorkerPerJob'
          /\ \A k \in Jobs : registry'[k] # NULL => worker'[registry'[k]].pc # "idle"
          /\ \A v \in Workers : worker[v].pc # "idle" => worker'[v] = worker[v]
      BY <1>10, AttachRegisters DEF StartupResume
    <2>2. UNCHANGED client /\ \A d \in Clients : client[d].src \in Workers \cup {NULL}
      BY <1>0, <1>10 DEF StartupResume, ClientTypes
    <2> QED BY <2>1, <2>2 DEF WatchInv, NoWaiterOrphaned
  <1> QED BY <1>1, <1>2, <1>3, <1>4, <1>5, <1>6, <1>7, <1>8, <1>9, <1>10
          DEF ClientNext, ProcessNext

\* Who works and who waits is kept in order by every step.
LEMMA WatchStep == BaseInv /\ WatchInv /\ [Next]_vars => WatchInv'
  <1> SUFFICES ASSUME BaseInv, WatchInv, [Next]_vars PROVE WatchInv'
    OBVIOUS
  <1>1. CASE UNCHANGED vars
    BY <1>1, WorkersStay DEF vars
  <1>2. CASE ProviderNext
    BY <1>2, WorkersStay DEF ProviderNext, Accept, Refuse, Enlist, End
  <1>3. ASSUME NEW w \in Workers, Running(w) PROVE WatchInv'
    <2>1. /\ worker[w].pc # "idle" /\ worker'[w].pc # "idle"
          /\ worker'[w].job = worker[w].job
          /\ \A v \in Workers : v # w => worker'[v] = worker[v]
          /\ UNCHANGED <<registry, client>>
      BY <1>3, WorkerMoves
    <2>2. \A v \in Workers : /\ worker'[v].job = worker[v].job
                             /\ worker'[v].pc = "idle" <=> worker[v].pc = "idle"
      BY <2>1
    <2> QED BY <2>1, <2>2, WorkersStay
  <1>4. CASE WorkerNext
    BY <1>3, <1>4, ExitKeepsWatch DEF WorkerNext, Running
  <1> QED BY <1>1, <1>2, <1>4, ClientsKeepWatch DEF Next

\* One worker per job, for any number of handlers that subscribe, resume and
\* vanish and over any number of restarts (WorkerRegistry::subscribe).
THEOREM OneWorker == Spec => []OneWorkerPerJob
  <1>1. WatchInv => OneWorkerPerJob
    BY DEF WatchInv
  <1> QED BY <1>1, BaseInit, BaseStep, WatchInit, WatchStep, PTL DEF Spec

\* No handler is ever answered "batch worker stopped before reaching a terminal
\* state": a channel closes on a terminal value only.
THEOREM NobodyOrphaned == Spec => []NoWaiterOrphaned
  <1>1. WatchInv => NoWaiterOrphaned
    BY DEF WatchInv
  <1> QED BY <1>1, BaseInit, BaseStep, WatchInit, WatchStep, PTL DEF Spec

-------------------------------------------------------------------------------
(* What clients are told.                                                  *)

\* A copy of a row whose outcome, if it has one, is the one in the table R.
Agrees(R, j, row) == row.outcome # NULL => R[j].outcome = row.outcome

\* Every copy that a worker or a handler holds agrees with the table, and so
\* does what clients were told.
ToldInv ==
    /\ \A w \in Workers : worker[w].pc # "idle" => Agrees(rows, worker[w].job, worker[w].state)
    /\ \A c \in Clients : client[c].pc # "idle" => Agrees(rows, client[c].job, client[c].val)
    /\ ToldIsDurable

\* An outcome in the table stays as it is.
LEMMA OutcomesStay ==
    ASSUME BaseInv, [StoreNext]_rows, NEW j \in Jobs, rows[j].outcome # NULL
    PROVE  rows'[j] = rows[j]
  <1>1. IsTerminal(rows[j])
    BY DEF BaseInv, StoreInv, RowsDecode, Decodes
  <1> QED BY <1>1, StepsAdvance DEF BaseInv

\* Nobody has been told anything when the process first starts.
LEMMA ToldInit == Init => ToldInv
  BY DEF Init, ToldInv, ToldIsDurable, IdleWorker, IdleClient

\* A step by which workers and handlers keep their copies or take over rows of
\* their jobs, and tell what they hold.
LEMMA CopiesAgree ==
    ASSUME BaseInv, ToldInv, [StoreNext]_rows,
           \A w \in Workers : worker'[w].pc # "idle" =>
               /\ worker'[w].job \in Jobs
               /\ \/ Agrees(rows, worker'[w].job, worker'[w].state)
                  \/ worker'[w].state = rows'[worker'[w].job],
           \A c \in Clients : client'[c].pc # "idle" =>
               /\ client'[c].job \in Jobs
               /\ \/ Agrees(rows, client'[c].job, client'[c].val)
                  \/ client'[c].val = rows'[client'[c].job],
           \A j \in Jobs : told'[j] \subseteq told[j] \cup ({rows[j].outcome} \ {NULL})
    PROVE  ToldInv'
  <1>1. \A j \in Jobs : rows[j].outcome # NULL => rows'[j].outcome = rows[j].outcome
    BY OutcomesStay
  <1>2. \A j \in Jobs : \A row : Agrees(rows, j, row) => Agrees(rows', j, row)
    BY <1>1 DEF Agrees
  <1>3. \A j \in Jobs : Agrees(rows', j, rows'[j])
    BY DEF Agrees
  <1>4. \A w \in Workers : worker'[w].pc # "idle" => Agrees(rows', worker'[w].job, worker'[w].state)
    BY <1>2, <1>3
  <1>5. \A c \in Clients : client'[c].pc # "idle" => Agrees(rows', client'[c].job, client'[c].val)
    BY <1>2, <1>3
  <1>6. \A j \in Jobs : told'[j] \subseteq {rows'[j].outcome}
    <2>1. \A j \in Jobs : told[j] \subseteq {rows[j].outcome} \ {NULL}
      BY NullIsNoValue DEF BaseInv, ProcessOK, ToldInv, ToldIsDurable
    <2> QED BY <1>1, <2>1
  <1> QED BY <1>4, <1>5, <1>6 DEF ToldInv, ToldIsDurable

\* What Attach gives a worker is the snapshot of the handler, or the row.
LEMMA AttachCopies ==
    ASSUME BaseInv, NEW j \in Jobs, NEW snapshot, Attach(j, snapshot),
           NEW v \in Workers, worker'[v].pc # "idle"
    PROVE  \/ worker'[v] = worker[v]
           \/ worker'[v].job = j /\ worker'[v].state = snapshot
  BY DEF Attach, BaseInv, WorkersOK

\* Handlers and the start-up loop.
LEMMA ClientsKeepTold ==
    ASSUME BaseInv, WatchInv, ToldInv, ClientNext \/ ProcessNext, [Next]_vars
    PROVE  ToldInv'
  <1>0. /\ client \in [Clients -> ClientTypes]
        /\ told \in [Jobs -> SUBSET Outcomes]
        /\ \A c \in Clients : client[c].pc # "idle" =>
               client[c].job \in Jobs /\ Agrees(rows, client[c].job, client[c].val)
        /\ \A w \in Workers : worker[w].pc # "idle" =>
               worker[w].job \in Jobs /\ Agrees(rows, worker[w].job, worker[w].state)
        /\ [StoreNext]_rows
    BY StepsAreTableSteps
       DEF BaseInv, ClientsOK, ProcessOK, HeldJobsExist, InTable, ToldInv
  <1>00. Agrees(rows, IdleClient.job, NoState) /\ IdleClient.pc = "idle" /\ IdleClient.val = NoState
         /\ \A j : Agrees(rows, j, NoState)
    BY DEF IdleClient, Agrees, NoState, EmptyRow
  <1>1. ASSUME NEW c \in Clients, NEW new, client' = [client EXCEPT ![c] = new],
               new.pc # "idle" => new.job \in Jobs /\ Agrees(rows, new.job, new.val),
               UNCHANGED worker,
               \A j \in Jobs : told'[j] \subseteq told[j] \cup ({rows[j].outcome} \ {NULL})
        PROVE  ToldInv'
    <2>1. \A d \in Clients : client'[d] = client[d] \/ client'[d] = new
      BY <1>0, <1>1
    <2>2. \A d \in Clients : client'[d].pc # "idle" =>
              client'[d].job \in Jobs /\ Agrees(rows, client'[d].job, client'[d].val)
      BY <1>0, <1>1, <2>1
    <2> QED BY <1>0, <1>1, <2>2, CopiesAgree
  <1>2. ASSUME NEW c \in Clients, NEW j \in Jobs, Enqueue(c, j) PROVE ToldInv'
    <2>1. PICK wants \in BOOLEAN : client' = [client EXCEPT ![c] =
               [IdleClient EXCEPT !.pc = "get", !.job = j, !.wants = wants]]
      BY <1>2 DEF Enqueue
    <2> DEFINE new == [IdleClient EXCEPT !.pc = "get", !.job = j, !.wants = wants]
    <2>2. new.job = j /\ new.val = NoState
      BY DEF IdleClient
    <2>3. UNCHANGED <<worker, told>>
      BY <1>2 DEF Enqueue
    <2> HIDE DEF new
    <2> QED BY <1>00, <1>1, <2>1, <2>2, <2>3 DEF new
  <1>3. ASSUME NEW c \in Clients, NEW j \in Jobs, Resume(c, j) PROVE ToldInv'
    <2> DEFINE new == [IdleClient EXCEPT !.pc = "subscribe", !.job = j, !.val = rows[j]]
    <2>1. client' = [client EXCEPT ![c] = new] /\ UNCHANGED <<worker, told>>
      BY <1>3 DEF Resume
    <2>2. new.job = j /\ Agrees(rows, new.job, new.val)
      BY DEF IdleClient, Agrees
    <2> HIDE DEF new
    <2> QED BY <1>1, <2>1, <2>2
  <1>4. ASSUME NEW c \in Clients, Snapshot(c) PROVE ToldInv'
    <2> DEFINE new == [client[c] EXCEPT !.pc = "subscribe", !.val = rows[client[c].job]]
    <2>1. client' = [client EXCEPT ![c] = new] /\ UNCHANGED <<worker, told>>
      BY <1>0, <1>4 DEF Snapshot, ClientTypes
    <2>2. new.job \in Jobs /\ Agrees(rows, new.job, new.val)
      BY <1>0, <1>4 DEF Snapshot, ClientTypes, Agrees
    <2> HIDE DEF new
    <2> QED BY <1>1, <2>1, <2>2
  <1>5. ASSUME NEW j \in Jobs, NEW o, told' = [told EXCEPT ![j] = @ \cup {o}],
               rows[j].outcome = o, o # NULL
        PROVE  \A k \in Jobs : told'[k] \subseteq told[k] \cup ({rows[k].outcome} \ {NULL})
    BY <1>0, <1>5
  <1>6. \A c \in Clients : client[c].pc # "idle" /\ IsTerminal(client[c].val) =>
            client[c].val.outcome # NULL
    BY DEF BaseInv, ClientsOK, ClientShape, Decodes
  <1>7. ASSUME NEW c \in Clients, SubscribeDone(c) PROVE ToldInv'
    <2>1. CASE client[c].wants
      <3> DEFINE new == [client[c] EXCEPT !.pc = "wait"]
      <3>1. client' = [client EXCEPT ![c] = new] /\ UNCHANGED <<worker, told>>
        BY <1>0, <1>7, <2>1 DEF SubscribeDone, ClientTypes
      <3>2. new.job \in Jobs /\ Agrees(rows, new.job, new.val)
        BY <1>0, <1>7 DEF SubscribeDone, ClientTypes
      <3> HIDE DEF new
      <3> QED BY <1>1, <3>1, <3>2
    <2>2. CASE ~client[c].wants
      <3>1. /\ client' = [client EXCEPT ![c] = IdleClient] /\ UNCHANGED worker
            /\ told' = [told EXCEPT ![client[c].job] = @ \cup {client[c].val.outcome}]
        BY <1>7, <2>2 DEF SubscribeDone
      <3>2. /\ client[c].job \in Jobs /\ client[c].val.outcome # NULL
            /\ rows[client[c].job].outcome = client[c].val.outcome
        BY <1>0, <1>6, <1>7 DEF SubscribeDone, Agrees
      <3>3. \A k \in Jobs : told'[k] \subseteq told[k] \cup ({rows[k].outcome} \ {NULL})
        BY <1>5, <3>1, <3>2
      <3> QED BY <1>00, <1>1, <3>1, <3>3
    <2> QED BY <2>1, <2>2
  <1>8. ASSUME NEW c \in Clients, SubscribeOpen(c) PROVE ToldInv'
    <2> DEFINE j == client[c].job
               new == IF client[c].wants
                      THEN [client[c] EXCEPT !.pc = "wait", !.src = registry'[j]]
                      ELSE IdleClient
    <2>1. /\ j \in Jobs /\ Attach(j, client[c].val) /\ Agrees(rows, j, client[c].val)
          /\ client' = [client EXCEPT ![c] = new] /\ UNCHANGED told
      BY <1>0, <1>8 DEF SubscribeOpen
    <2>2. new.pc # "idle" => new.job = j /\ new.val = client[c].val
      BY <1>0, <1>00 DEF ClientTypes
    <2> HIDE DEF new
    <2>3. \A d \in Clients : client'[d].pc # "idle" =>
              client'[d].job \in Jobs /\ Agrees(rows, client'[d].job, client'[d].val)
      BY <1>0, <2>1, <2>2
    <2>4. \A w \in Workers : worker'[w].pc # "idle" =>
              worker'[w].job \in Jobs /\ Agrees(rows, worker'[w].job, worker'[w].state)
      BY <1>0, <2>1, AttachCopies
    <2> QED BY <1>0, <2>1, <2>3, <2>4, CopiesAgree
  <1>9. ASSUME NEW c \in Clients, Answer(c) PROVE ToldInv'
    <2>1. client' = [client EXCEPT ![c] = IdleClient] /\ UNCHANGED worker
      BY <1>9 DEF Answer
    <2>2. client[c].job \in Jobs /\ Agrees(rows, client[c].job, Seen(c))
      <3>1. CASE client[c].src = NULL
        BY <1>0, <1>9, <3>1 DEF Answer, Seen
      <3>2. CASE client[c].src # NULL
        BY <1>0, <1>9, <3>2 DEF Answer, Seen, WatchInv, BaseInv, WorkersOK, WorkerShape,
           ClientTypes
      <3> QED BY <3>1, <3>2
    <2>3. IsTerminal(Seen(c)) => Seen(c).outcome # NULL
      BY <1>0 DEF Seen, BaseInv, WorkersOK, WorkerShape, ClientsOK, ClientShape, Decodes,
         ClientTypes
    <2>4. \A k \in Jobs : told'[k] \subseteq told[k] \cup ({rows[k].outcome} \ {NULL})
      <3>1. CASE IsTerminal(Seen(c))
        BY <1>5, <1>9, <2>2, <2>3, <3>1 DEF Answer, Agrees
      <3>2. CASE ~IsTerminal(Seen(c))
        BY <1>9, <3>2 DEF Answer
      <3> QED BY <3>1, <3>2
    <2> QED BY <1>00, <1>1, <2>1, <2>4
  <1>10. ASSUME NEW c \in Clients, Disconnect(c) PROVE ToldInv'
    <2>1. client' = [client EXCEPT ![c] = IdleClient] /\ UNCHANGED <<worker, told>>
      BY <1>10 DEF Disconnect
    <2> QED BY <1>00, <1>1, <2>1
  <1>11. ASSUME NEW j \in Jobs, GetJob(j) PROVE ToldInv'
    <2>1. rows[j].outcome # NULL
      BY <1>11 DEF GetJob, BaseInv, StoreInv, RowsDecode, Decodes
    <2>2. \A k \in Jobs : told'[k] \subseteq told[k] \cup ({rows[k].outcome} \ {NULL})
      BY <1>5, <1>11, <2>1 DEF GetJob
    <2> QED BY <1>0, <1>11, <2>2, CopiesAgree DEF GetJob
  <1>12. CASE Start \/ Serve
    BY <1>0, <1>12, CopiesAgree DEF Start, Serve
  <1>13. CASE Crash
    BY <1>0, <1>13, CopiesAgree DEF Crash, IdleWorker, IdleClient
  <1>14. ASSUME NEW j \in Jobs, StartupResume(j) PROVE ToldInv'
    <2>1. Attach(j, rows[j]) /\ UNCHANGED <<client, told>>
      BY <1>14 DEF StartupResume
    <2>2. \A w \in Workers : worker'[w].pc # "idle" =>
              worker'[w].job \in Jobs /\ Agrees(rows, worker'[w].job, worker'[w].state)
      BY <1>0, <2>1, AttachCopies DEF Agrees
    <2> QED BY <1>0, <2>1, <2>2, CopiesAgree
  <1> QED BY <1>2, <1>3, <1>4, <1>7, <1>8, <1>9, <1>10, <1>11, <1>12, <1>13, <1>14
          DEF ClientNext, ProcessNext

\* What is held, and what is told, is in the table after every step.
LEMMA ToldStep == BaseInv /\ WatchInv /\ ToldInv /\ [Next]_vars => ToldInv'
  <1> SUFFICES ASSUME BaseInv, WatchInv, ToldInv, [Next]_vars PROVE ToldInv'
    OBVIOUS
  <1>0. /\ \A c \in Clients : client[c].pc # "idle" =>
               client[c].job \in Jobs /\ Agrees(rows, client[c].job, client[c].val)
        /\ \A w \in Workers : worker[w].pc # "idle" =>
               worker[w].job \in Jobs /\ Agrees(rows, worker[w].job, worker[w].state)
        /\ [StoreNext]_rows
    BY StepsAreTableSteps DEF BaseInv, HeldJobsExist, InTable, ToldInv
  <1>1. CASE UNCHANGED vars
    BY <1>0, <1>1, CopiesAgree DEF vars
  <1>2. CASE ProviderNext
    BY <1>0, <1>2, CopiesAgree DEF ProviderNext, Accept, Refuse, Enlist, End
  <1>3. ASSUME NEW w \in Workers, Running(w) PROVE ToldInv'
    <2>1. /\ worker[w].pc # "idle" /\ worker'[w].job = worker[w].job
          /\ worker'[w].state \in {worker[w].state, rows'[worker[w].job]}
          /\ \A v \in Workers : v # w => worker'[v] = worker[v]
          /\ UNCHANGED <<client, told>>
      BY <1>3, WorkerMoves
    <2>2. \A v \in Workers : worker'[v].pc # "idle" =>
              /\ worker'[v].job \in Jobs
              /\ \/ Agrees(rows, worker'[v].job, worker'[v].state)
                 \/ worker'[v].state = rows'[worker'[v].job]
      BY <1>0, <2>1
    <2> QED BY <1>0, <2>1, <2>2, CopiesAgree
  <1>4. ASSUME NEW w \in Workers, Exit(w) PROVE ToldInv'
    <2>1. /\ worker[w].pc = "exit" /\ worker' = [worker EXCEPT ![w] = IdleWorker]
          /\ UNCHANGED <<rows, told>>
          /\ \A c \in Clients :
                 client'[c] = IF client[c].src = w
                              THEN [client[c] EXCEPT !.src = NULL, !.val = worker[w].chan]
                              ELSE client[c]
      BY <1>4 DEF Exit
    <2>2. /\ worker \in [Workers -> WorkerTypes] /\ client \in [Clients -> ClientTypes]
          /\ worker[w].chan = worker[w].state
      BY DEF BaseInv, WorkersOK, WorkerShape, ClientsOK
    <2>3. \A v \in Workers : worker'[v].pc # "idle" => worker'[v] = worker[v]
      BY <2>1, <2>2 DEF IdleWorker
    <2>4. ASSUME NEW c \in Clients, client'[c].pc # "idle"
          PROVE  client'[c].job \in Jobs /\ Agrees(rows, client'[c].job, client'[c].val)
      <3>1. CASE client[c].src = w
        <4>3. client'[c] = [client[c] EXCEPT !.src = NULL, !.val = worker[w].chan]
          BY <2>1, <3>1
        <4>4. client[c] \in ClientTypes
          BY <2>2
        <4>1. /\ client'[c].pc = client[c].pc /\ client'[c].job = client[c].job
              /\ client'[c].val = worker[w].state
          BY <2>2, <4>3, <4>4 DEF ClientTypes
        <4>2. worker[w].job = client[c].job
          BY <3>1, NullIsNoTask DEF WatchInv
        <4> QED BY <1>0, <2>1, <2>4, <4>1, <4>2
      <3>2. CASE client[c].src # w
        BY <1>0, <2>1, <2>4, <3>2
      <3> QED BY <3>1, <3>2
    <2> QED BY <1>0, <2>1, <2>3, <2>4, CopiesAgree
  <1>5. CASE WorkerNext
    BY <1>3, <1>4, <1>5 DEF WorkerNext, Running
  <1> QED BY <1>1, <1>2, <1>5, ClientsKeepTold DEF Next

\* Whatever any client was ever told is the outcome in the table: nothing is told
\* before it is durable, and no two clients are told different outcomes, over any
\* number of crashes and workers.
THEOREM ToldIsStored == Spec => []ToldIsDurable
  <1>1. ToldInv => ToldIsDurable
    BY DEF ToldInv
  <1> QED BY <1>1, BaseInit, BaseStep, WatchInit, WatchStep, ToldInit, ToldStep, PTL DEF Spec

-------------------------------------------------------------------------------
(* Whose the outcome is.                                                   *)

\* In the provider's batches B: b is there, and is the job's.
Has(B, b, j) == B[b].phase \in {"running", "ended"} /\ B[b].job = j

OwnRow(B, j, row) == row.batch # NULL => Has(B, row.batch, j)

\* The outcome is Kaiion's own, or what the job's batch ended with.
EndsWith(B, j, o) ==
    o # NULL /\ o.by # Kaiion =>
        B[o.by].job = j /\ B[o.by].phase = "ended" /\ o = OutcomeOf(o.by, B[o.by].result)

\* What a worker carries from one call to the next is about its own batch.
WorkerOwns(B, r) ==
    /\ OwnRow(B, r.job, r.state)
    /\ r.pc = "create_wait" => B[r.got].phase # "free" /\ B[r.got].job = r.job
    /\ r.pc \in {"mark_created", "mark_found"} => Has(B, r.got, r.job)
    /\ r.pc = "fetch" => B[r.state.batch].phase = "ended" /\ r.got = B[r.state.batch].result
    /\ r.pc = "store" => EndsWith(B, r.job, r.got)

OwnInv ==
    /\ \A b \in BatchIds : batch[b].listed => Accepted(b)
    /\ \A j \in Jobs : OwnRow(batch, j, rows[j]) /\ EndsWith(batch, j, rows[j].outcome)
    /\ \A w \in Workers : worker[w].pc # "idle" => WorkerOwns(batch, worker[w])
    /\ \A c \in Clients : client[c].pc # "idle" => OwnRow(batch, client[c].job, client[c].val)

\* No row names a batch when the process first starts.
LEMMA OwnInit == Init => OwnInv
  <1> SUFFICES ASSUME Init PROVE OwnInv
    OBVIOUS
  <1>1. \A j \in Jobs : rows[j].batch = NULL /\ rows[j].outcome = NULL
    BY DEF Init, StoreInit, EmptyRow
  <1> QED BY <1>1 DEF Init, OwnInv, OwnRow, EndsWith, IdleWorker, IdleClient, FreeBatch

\* From B to C the provider forgets nothing.
Grows(B, C) ==
    \A b \in BatchIds :
        /\ B[b].phase # "free" => C[b].phase # "free" /\ C[b].job = B[b].job
        /\ B[b].phase \in {"running", "ended"} => C[b].phase \in {"running", "ended"}
        /\ B[b].phase = "ended" => C[b].phase = "ended" /\ C[b].result = B[b].result

\* What was the job's stays the job's.
LEMMA OwnershipLasts ==
    ASSUME NEW B, NEW C, Grows(B, C), NEW j
    PROVE  /\ \A b \in BatchIds : Has(B, b, j) => Has(C, b, j)
           /\ \A row \in RowTypes : OwnRow(B, j, row) => OwnRow(C, j, row)
           /\ \A o \in Outcomes \cup {NULL} : EndsWith(B, j, o) => EndsWith(C, j, o)
           /\ \A r : WorkerShape(r) /\ r.job = j /\ WorkerOwns(B, r) => WorkerOwns(C, r)
  <1>1. \A b \in BatchIds : Has(B, b, j) => Has(C, b, j)
    BY DEF Grows, Has
  <1>2. \A row \in RowTypes : OwnRow(B, j, row) => OwnRow(C, j, row)
    BY <1>1 DEF OwnRow, RowTypes
  <1>3. \A o \in Outcomes \cup {NULL} : EndsWith(B, j, o) => EndsWith(C, j, o)
    <2> SUFFICES ASSUME NEW o \in Outcomes, EndsWith(B, j, o), o # NULL, o.by # Kaiion
                 PROVE  C[o.by].job = j /\ C[o.by].phase = "ended"
                        /\ o = OutcomeOf(o.by, C[o.by].result)
      BY DEF EndsWith
    <2>1. o.by \in BatchIds
      BY DEF Outcomes
    <2> QED BY <2>1 DEF EndsWith, Grows
  <1>4. ASSUME NEW r, WorkerShape(r), r.job = j, WorkerOwns(B, r) PROVE WorkerOwns(C, r)
    <2>1. OwnRow(C, j, r.state)
      BY <1>2, <1>4 DEF WorkerOwns, WorkerShape, WorkerTypes
    <2>2. r.pc = "create_wait" => C[r.got].phase # "free" /\ C[r.got].job = r.job
      BY <1>4 DEF WorkerOwns, WorkerShape, Grows
    <2>3. r.pc \in {"mark_created", "mark_found"} => Has(C, r.got, r.job)
      BY <1>1, <1>4 DEF WorkerOwns, WorkerShape
    <2>4. r.pc = "fetch" => C[r.state.batch].phase = "ended" /\ r.got = C[r.state.batch].result
      <3> SUFFICES ASSUME r.pc = "fetch" PROVE C[r.state.batch].phase = "ended"
                                               /\ r.got = C[r.state.batch].result
        OBVIOUS
      <3>1. r.state.batch \in BatchIds
        BY <1>4, SubmittedHasBatch DEF WorkerShape
      <3> QED BY <1>4, <3>1 DEF WorkerOwns, Grows
    <2>5. r.pc = "store" => EndsWith(C, r.job, r.got)
      BY <1>3, <1>4 DEF WorkerOwns, WorkerShape
    <2> QED BY <1>4, <2>1, <2>2, <2>3, <2>4, <2>5 DEF WorkerOwns
  <1> QED BY <1>1, <1>2, <1>3, <1>4

\* No step makes the provider forget.
LEMMA ProviderRemembers ==
    ASSUME BaseInv, OwnInv, [Next]_vars
    PROVE  Grows(batch, batch') /\ \A b \in BatchIds : batch'[b].listed => Accepted(b)'
  <1>0. batch \in [BatchIds -> BatchTypes]
    BY DEF BaseInv, BatchesOK
  <1>1. CASE UNCHANGED batch
    BY <1>1 DEF OwnInv, Grows, Accepted
  <1>2. ASSUME NEW b \in BatchIds, Accept(b) \/ Refuse(b) \/ Enlist(b) \/ End(b)
        PROVE  Grows(batch, batch') /\ \A a \in BatchIds : batch'[a].listed => Accepted(a)'
    <2>1. \A a \in BatchIds : a # b => batch'[a] = batch[a]
      BY <1>0, <1>2 DEF Accept, Refuse, Enlist, End
    <2>2. CASE Accept(b)
      BY <1>0, <2>1, <2>2 DEF Accept, OwnInv, Grows, Accepted, BatchTypes
    <2>3. CASE Refuse(b)
      BY <1>0, <2>1, <2>3 DEF Refuse, OwnInv, Grows, Accepted, BatchTypes
    <2>4. CASE Enlist(b)
      BY <1>0, <2>1, <2>4 DEF Enlist, OwnInv, Grows, Accepted, BatchTypes
    <2>5. CASE End(b)
      BY <1>0, <2>1, <2>5 DEF End, OwnInv, Grows, Accepted, BatchTypes
    <2> QED BY <1>2, <2>2, <2>3, <2>4, <2>5
  <1>3. ASSUME NEW w \in Workers, CreateBatch(w)
        PROVE  Grows(batch, batch') /\ \A a \in BatchIds : batch'[a].listed => Accepted(a)'
    <2>1. PICK b \in BatchIds : /\ batch[b].phase = "free"
                                /\ batch' = [batch EXCEPT ![b].phase = "inflight",
                                                          ![b].job = worker[w].job]
      BY <1>3 DEF CreateBatch
    <2>2. /\ batch'[b].listed = batch[b].listed
          /\ \A a \in BatchIds : a # b => batch'[a] = batch[a]
      BY <1>0, <2>1 DEF BatchTypes
    <2> QED BY <2>1, <2>2 DEF OwnInv, Grows, Accepted
  <1>4. CASE ProcessNext \/ ClientNext
    BY <1>1, <1>4 DEF ProcessNext, Start, StartupResume, Serve, Crash, ClientNext, Enqueue, Resume,
       Snapshot, SubscribeDone, SubscribeOpen, Answer, Disconnect, GetJob
  <1>5. CASE WorkerNext
    BY <1>1, <1>3, <1>5 DEF WorkerNext, Upload, MarkUploaded, BeginSubmission, CreateOk,
       CreateRetryable, CreatePermanent, MarkSubmitted, MarkUncertain, FindBatch, GetBatch,
       FetchFile, FetchRetryable, ProviderPermanent, StoreOutcome, StoreFailure, Reread, DbError,
       Exit
  <1>6. CASE UNCHANGED vars
    BY <1>1, <1>6 DEF vars
  <1> QED BY <1>2, <1>4, <1>5, <1>6 DEF Next, ProviderNext

\* A step after which every row, worker and handler is as it was, or owns what
\* it refers to.
LEMMA OwnersStay ==
    ASSUME BaseInv, BaseInv', OwnInv, [Next]_vars,
           \A j \in Jobs : \/ rows'[j] = rows[j]
                           \/ OwnRow(batch', j, rows'[j]) /\ EndsWith(batch', j, rows'[j].outcome),
           \A w \in Workers : worker'[w].pc # "idle" =>
               worker'[w] = worker[w] \/ WorkerOwns(batch', worker'[w]),
           \A c \in Clients : client'[c].pc # "idle" =>
               client'[c] = client[c] \/ OwnRow(batch', client'[c].job, client'[c].val)
    PROVE  OwnInv'
  <1>1. Grows(batch, batch') /\ \A b \in BatchIds : batch'[b].listed => Accepted(b)'
    BY ProviderRemembers
  <1>2. ASSUME NEW j \in Jobs
        PROVE  OwnRow(batch', j, rows'[j]) /\ EndsWith(batch', j, rows'[j].outcome)
    <2>1. rows[j] \in RowTypes /\ rows[j].outcome \in Outcomes \cup {NULL}
      BY DEF BaseInv, StoreInv, RowsTypeOK, RowTypes
    <2>2. OwnRow(batch, j, rows[j]) /\ EndsWith(batch, j, rows[j].outcome)
      BY DEF OwnInv
    <2>3. OwnRow(batch', j, rows[j]) /\ EndsWith(batch', j, rows[j].outcome)
      BY <1>1, <2>1, <2>2, OwnershipLasts
    <2> QED BY <2>3
  <1>3. ASSUME NEW w \in Workers, worker'[w].pc # "idle" PROVE WorkerOwns(batch', worker'[w])
    <2>1. worker'[w] = worker[w] => WorkerShape(worker[w]) /\ WorkerOwns(batch, worker[w])
      BY <1>3 DEF BaseInv, WorkersOK, OwnInv
    <2> QED BY <1>1, <1>3, <2>1, OwnershipLasts
  <1>4. ASSUME NEW c \in Clients, client'[c].pc # "idle"
        PROVE  OwnRow(batch', client'[c].job, client'[c].val)
    <2>1. client'[c] = client[c] =>
              client[c].val \in RowTypes /\ OwnRow(batch, client[c].job, client[c].val)
      BY <1>4 DEF BaseInv, ClientsOK, ClientTypes, OwnInv
    <2> QED BY <1>1, <1>4, <2>1, OwnershipLasts
  <1> QED BY <1>1, <1>2, <1>3, <1>4 DEF OwnInv

\* A worker that moves on with what it got, the table as it is or changed by a
\* statement that names no batch.
LEMMA GotoOwns ==
    ASSUME BaseInv, BaseInv', OwnInv, [Next]_vars, NEW w \in Workers, NEW pc, NEW got,
           worker[w].pc # "idle", Goto(w, pc, got), UNCHANGED client,
           \A j \in Jobs : rows'[j].batch \in {rows[j].batch, NULL}
                           /\ rows'[j].outcome = rows[j].outcome,
           LET j == worker[w].job
           IN /\ pc = "create_wait" => batch'[got].phase # "free" /\ batch'[got].job = j
              /\ pc \in {"mark_created", "mark_found"} => Has(batch', got, j)
              /\ pc = "fetch" => /\ batch'[worker[w].state.batch].phase = "ended"
                                 /\ got = batch'[worker[w].state.batch].result
              /\ pc = "store" => EndsWith(batch', j, got)
    PROVE  OwnInv'
  <1>0. worker \in [Workers -> WorkerTypes] /\ worker[w].state \in RowTypes
    BY DEF BaseInv, WorkersOK, WorkerTypes
  <1>1. Grows(batch, batch')
    BY ProviderRemembers
  <1>2. /\ worker'[w].pc = pc /\ worker'[w].got = got
        /\ worker'[w].job = worker[w].job /\ worker'[w].state = worker[w].state
        /\ \A v \in Workers : v # w => worker'[v] = worker[v]
    BY <1>0 DEF Goto, WorkerTypes
  <1>3. OwnRow(batch', worker[w].job, worker[w].state)
    BY <1>0, <1>1, OwnershipLasts DEF OwnInv, WorkerOwns
  <1>4. WorkerOwns(batch', worker'[w])
    BY <1>2, <1>3 DEF WorkerOwns
  <1>5. ASSUME NEW j \in Jobs
        PROVE  OwnRow(batch', j, rows'[j]) /\ EndsWith(batch', j, rows'[j].outcome)
    <2>1. rows[j] \in RowTypes /\ rows[j].outcome \in Outcomes \cup {NULL}
      BY DEF BaseInv, StoreInv, RowsTypeOK, RowTypes
    <2>2. OwnRow(batch', j, rows[j]) /\ EndsWith(batch', j, rows[j].outcome)
      BY <1>1, <2>1, OwnershipLasts DEF OwnInv
    <2> QED BY <2>2 DEF OwnRow
  <1> QED BY <1>2, <1>4, <1>5, OwnersStay

\* A worker that takes over a row that owns what it refers to.
LEMMA AdoptOwns ==
    ASSUME BaseInv, BaseInv', OwnInv, [Next]_vars, NEW w \in Workers,
           worker[w].pc # "idle", Adopt(w, rows'[worker[w].job]), UNCHANGED client,
           \A k \in Jobs : k # worker[w].job => rows'[k] = rows[k],
           LET j == worker[w].job
           IN OwnRow(batch', j, rows'[j]) /\ EndsWith(batch', j, rows'[j].outcome)
    PROVE  OwnInv'
  <1>1. worker \in [Workers -> WorkerTypes] /\ worker[w].job \in Jobs
    BY DEF BaseInv, WorkersOK, HeldJobsExist, InTable
  <1>2. /\ worker'[w].pc \in {"exit", "top"} /\ worker'[w].job = worker[w].job
        /\ worker'[w].state = rows'[worker[w].job]
        /\ \A v \in Workers : v # w => worker'[v] = worker[v]
    BY <1>1 DEF Adopt, WorkerTypes
  <1>3. WorkerOwns(batch', worker'[w])
    BY <1>2 DEF WorkerOwns
  <1> QED BY <1>2, <1>3, OwnersStay

\* The steps of a worker that issue a statement.
LEMMA UpdatesOwn ==
    ASSUME BaseInv, BaseInv', OwnInv, [Next]_vars, NEW w \in Workers,
           \/ MarkUploaded(w) \/ MarkSubmitted(w) \/ MarkUncertain(w)
           \/ StoreOutcome(w) \/ StoreFailure(w) \/ Reread(w)
    PROVE  OwnInv'
  <1> DEFINE j == worker[w].job
  <1>0. /\ worker[w].pc # "idle" /\ j \in Jobs /\ WorkerShape(worker[w])
        /\ WorkerOwns(batch, worker[w])
        /\ rows \in [Jobs -> RowTypes] /\ rows[j] \in RowTypes
        /\ UNCHANGED <<client, batch>>
        /\ OwnRow(batch, j, rows[j]) /\ EndsWith(batch, j, rows[j].outcome)
    <2>1. worker[w].pc # "idle" /\ UNCHANGED <<client, batch>>
      BY DEF MarkUploaded, MarkSubmitted, MarkUncertain, StoreOutcome, StoreFailure, Reread, AtTop
    <2> QED BY <2>1 DEF BaseInv, HeldJobsExist, InTable, WorkersOK, StoreInv, RowsTypeOK, OwnInv
  <1>1. ASSUME Goto(w, "reread", NULL), UNCHANGED rows PROVE OwnInv'
    BY <1>0, <1>1, GotoOwns
  <1>2. ASSUME NEW new, rows' = [rows EXCEPT ![j] = new], Adopt(w, rows'[j]),
               OwnRow(batch, j, new), EndsWith(batch, j, new.outcome)
        PROVE  OwnInv'
    <2>1. rows'[j] = new /\ \A k \in Jobs : k # j => rows'[k] = rows[k]
      BY <1>0, <1>2
    <2>2. OwnRow(batch', j, rows'[j]) /\ EndsWith(batch', j, rows'[j].outcome)
      BY <1>0, <1>2, <2>1
    <2> QED BY <1>0, <1>2, <2>1, <2>2, AdoptOwns
  <1>3. CASE MarkUploaded(w)
    <2> DEFINE new == UploadedRow(rows[j], worker[w].got)
    <2>1. OwnRow(batch, j, new) /\ EndsWith(batch, j, new.outcome)
      BY <1>0 DEF UploadedRow, RowTypes, OwnRow
    <2> HIDE DEF new
    <2>2. \/ rows' = [rows EXCEPT ![j] = new] /\ Adopt(w, rows'[j])
          \/ UNCHANGED rows /\ Goto(w, "reread", NULL)
      BY <1>3 DEF MarkUploaded, Transition, mark_uploaded, new
    <2> QED BY <1>1, <1>2, <2>1, <2>2
  <1>4. CASE MarkUncertain(w)
    <2> DEFINE new == UncertainRow(rows[j])
    <2>1. OwnRow(batch, j, new) /\ EndsWith(batch, j, new.outcome)
      BY <1>0 DEF UncertainRow, RowTypes, OwnRow
    <2> HIDE DEF new
    <2>2. \/ rows' = [rows EXCEPT ![j] = new] /\ Adopt(w, rows'[j])
          \/ UNCHANGED rows /\ Goto(w, "reread", NULL)
      BY <1>4 DEF MarkUncertain, Transition, mark_submission_uncertain, new
    <2> QED BY <1>1, <1>2, <2>1, <2>2
  <1>5. CASE MarkSubmitted(w)
    <2> DEFINE new == SubmittedRow(rows[j], worker[w].got)
    <2>1. Has(batch, worker[w].got, j)
      BY <1>0, <1>5 DEF MarkSubmitted, WorkerOwns
    <2>2. OwnRow(batch, j, new) /\ EndsWith(batch, j, new.outcome)
      BY <1>0, <2>1 DEF SubmittedRow, RowTypes, OwnRow
    <2> HIDE DEF new
    <2>3. \/ rows' = [rows EXCEPT ![j] = new] /\ Adopt(w, rows'[j])
          \/ UNCHANGED rows /\ Goto(w, "reread", NULL)
      BY <1>5 DEF MarkSubmitted, Transition, mark_submitted, new
    <2> QED BY <1>1, <1>2, <2>2, <2>3
  <1>6. ASSUME NEW o, EndsWith(batch, j, o)
        PROVE  /\ OwnRow(batch, j, OutcomeRow(rows[j], o))
               /\ EndsWith(batch, j, OutcomeRow(rows[j], o).outcome)
    <2>1. OutcomeRow(rows[j], o).batch = NULL /\ OutcomeRow(rows[j], o).outcome = o
      BY <1>0 DEF OutcomeRow, RowTypes
    <2> QED BY <1>6, <2>1 DEF OwnRow
  <1>7. CASE StoreOutcome(w)
    <2> DEFINE new == OutcomeRow(rows[j], worker[w].got)
    <2>1. EndsWith(batch, j, worker[w].got)
      BY <1>0, <1>7 DEF StoreOutcome, WorkerOwns
    <2>2. OwnRow(batch, j, new) /\ EndsWith(batch, j, new.outcome)
      BY <1>6, <2>1
    <2> HIDE DEF new
    <2>3. \/ rows' = [rows EXCEPT ![j] = new] /\ Adopt(w, rows'[j])
          \/ UNCHANGED rows /\ Goto(w, "reread", NULL)
      BY <1>7 DEF StoreOutcome, Transition, store_outcome, new
    <2> QED BY <1>1, <1>2, <2>2, <2>3
  <1>8. CASE StoreFailure(w)
    <2> DEFINE new == OutcomeRow(rows[j], FailedByKaiion)
    <2>1. EndsWith(batch, j, FailedByKaiion)
      BY DEF EndsWith, FailedByKaiion
    <2>2. OwnRow(batch, j, new) /\ EndsWith(batch, j, new.outcome)
      BY <1>6, <2>1
    <2> HIDE DEF new
    <2>3. \/ rows' = [rows EXCEPT ![j] = new] /\ Adopt(w, rows'[j])
          \/ UNCHANGED rows /\ Goto(w, "reread", NULL)
      BY <1>8 DEF StoreFailure, Transition, store_outcome, new
    <2> QED BY <1>1, <1>2, <2>2, <2>3
  <1>9. CASE Reread(w)
    BY <1>0, <1>9, AdoptOwns DEF Reread
  <1> QED BY <1>3, <1>4, <1>5, <1>7, <1>8, <1>9

\* What the record of a batch that ended with r amounts to is its outcome.
LEMMA OutcomeIsTheBatchs ==
    ASSUME NEW B, NEW j, NEW b, B[b].job = j, B[b].phase = "ended"
    PROVE  EndsWith(B, j, OutcomeOf(b, B[b].result))
  BY DEF EndsWith, OutcomeOf

\* The steps of a worker that call the provider, or begin the submission.
LEMMA CallsOwn ==
    ASSUME BaseInv, BaseInv', OwnInv, [Next]_vars, NEW w \in Workers,
           \/ Upload(w) \/ BeginSubmission(w) \/ CreateBatch(w) \/ CreateOk(w)
           \/ CreateRetryable(w) \/ CreatePermanent(w) \/ FindBatch(w) \/ GetBatch(w)
           \/ FetchFile(w) \/ FetchRetryable(w) \/ ProviderPermanent(w) \/ DbError(w)
    PROVE  OwnInv'
  <1> DEFINE j == worker[w].job
             b == worker[w].state.batch
  <1>0. /\ worker[w].pc # "idle" => /\ j \in Jobs /\ WorkerOwns(batch, worker[w])
        /\ WorkerShape(worker[w])
        /\ rows \in [Jobs -> RowTypes] /\ batch \in [BatchIds -> BatchTypes]
    BY DEF BaseInv, HeldJobsExist, InTable, WorkersOK, StoreInv, RowsTypeOK, BatchesOK, OwnInv
  <1>1. ASSUME NEW pc, NEW got, worker[w].pc # "idle", Goto(w, pc, got), UNCHANGED <<rows, client>>,
               pc \notin {"create_wait", "mark_created", "mark_found", "fetch", "store"}
        PROVE  OwnInv'
    BY <1>1, GotoOwns
  <1>2. CASE Upload(w)
    BY <1>1, <1>2 DEF Upload, AtTop
  <1>3. CASE BeginSubmission(w)
    <2>1. /\ worker[w].pc = "top" /\ UNCHANGED client
          /\ Goto(w, "create", NULL) \/ Goto(w, "reread", NULL)
          /\ UNCHANGED rows \/ rows' = [rows EXCEPT ![j] = SubmittingRow(rows[j])]
      BY <1>3 DEF BeginSubmission, begin_submission, AtTop
    <2>2. \A k \in Jobs : rows'[k].batch \in {rows[k].batch, NULL}
                          /\ rows'[k].outcome = rows[k].outcome
      <3>1. CASE UNCHANGED rows
        BY <3>1
      <3>2. ASSUME NEW new, new = SubmittingRow(rows[j]), rows' = [rows EXCEPT ![j] = new],
                   NEW k \in Jobs
            PROVE  rows'[k].batch \in {rows[k].batch, NULL}
                   /\ rows'[k].outcome = rows[k].outcome
        <4>1. new.batch = rows[j].batch /\ new.outcome = rows[j].outcome
          <5>1. rows[j] \in RowTypes
            BY <1>0, <2>1
          <5> QED BY <3>2, <5>1 DEF SubmittingRow, RowTypes
        <4>2. CASE k = j
          <5>1. rows'[k] = new
            BY <1>0, <3>2, <4>2, <2>1
          <5> QED BY <4>1, <4>2, <5>1
        <4>3. CASE k # j
          BY <1>0, <3>2, <4>3, <2>1
        <4> QED BY <4>2, <4>3
      <3> QED BY <2>1, <3>1, <3>2
    <2> QED BY <2>1, <2>2, GotoOwns
  <1>4. CASE CreateBatch(w)
    <2>1. PICK a \in BatchIds :
              /\ batch' = [batch EXCEPT ![a].phase = "inflight", ![a].job = j]
              /\ Goto(w, "create_wait", a)
      BY <1>4 DEF CreateBatch
    <2>2. batch'[a].phase # "free" /\ batch'[a].job = j
      BY <1>0, <2>1 DEF BatchTypes
    <2> QED BY <1>4, <2>1, <2>2, GotoOwns DEF CreateBatch
  <1>5. CASE CreateOk(w)
    <2>1. Has(batch', worker[w].got, j)
      BY <1>0, <1>5 DEF CreateOk, WorkerOwns, Has, Accepted
    <2> QED BY <1>5, <2>1, GotoOwns DEF CreateOk
  <1>6. CASE CreateRetryable(w) \/ CreatePermanent(w)
    BY <1>1, <1>6 DEF CreateRetryable, CreatePermanent
  <1>7. CASE FindBatch(w)
    <2>1. PICK a \in BatchIds : batch[a].job = j /\ batch[a].listed /\ Goto(w, "mark_found", a)
      BY <1>7 DEF FindBatch
    <2>2. Has(batch', a, j)
      BY <1>7, <2>1 DEF FindBatch, OwnInv, Has, Accepted
    <2> QED BY <1>7, <2>1, <2>2, GotoOwns DEF FindBatch, AtTop
  <1>8. CASE GetBatch(w) \/ FetchFile(w)
    <2>1. /\ worker[w].pc \in {"top", "fetch"} /\ UNCHANGED <<rows, client, batch>>
          /\ worker[w].state.status = "submitted" /\ batch[b].phase = "ended"
      BY <1>0, <1>8 DEF GetBatch, AtTop, FetchFile, WorkerShape, WorkerOwns
    <2>2. b \in BatchIds /\ batch[b].job = j
      BY <1>0, <2>1, SubmittedHasBatch, NullIsNoValue DEF WorkerOwns, OwnRow, Has
    <2>3. EndsWith(batch', j, OutcomeOf(b, batch[b].result))
      BY <2>1, <2>2, OutcomeIsTheBatchs
    <2>4. \/ Goto(w, "fetch", batch[b].result) \/ Goto(w, "fail", NULL)
          \/ Goto(w, "store", OutcomeOf(b, batch[b].result))
      <3>1. CASE GetBatch(w)
        BY <3>1 DEF GetBatch
      <3>2. CASE FetchFile(w)
        BY <1>0, <3>2 DEF FetchFile, WorkerOwns
      <3> QED BY <1>8, <3>1, <3>2
    <2>5. CASE Goto(w, "fetch", batch[b].result)
      BY <2>1, <2>5, GotoOwns
    <2>6. CASE Goto(w, "store", OutcomeOf(b, batch[b].result))
      BY <2>1, <2>3, <2>6, GotoOwns
    <2> QED BY <1>1, <2>1, <2>4, <2>5, <2>6
  <1>9. CASE FetchRetryable(w) \/ ProviderPermanent(w) \/ DbError(w)
    BY <1>1, <1>9 DEF FetchRetryable, ProviderPermanent, DbError, DbSteps, AtTop
  <1> QED BY <1>2, <1>3, <1>4, <1>5, <1>6, <1>7, <1>8, <1>9

\* Handlers, the start-up loop, and workers that have returned.
LEMMA ClientsKeepOwn ==
    ASSUME BaseInv, BaseInv', WatchInv, OwnInv, [Next]_vars,
           ClientNext \/ ProcessNext \/ \E w \in Workers : Exit(w)
    PROVE  OwnInv'
  <1>0. /\ client \in [Clients -> ClientTypes] /\ worker \in [Workers -> WorkerTypes]
        /\ rows \in [Jobs -> RowTypes]
        /\ \A c \in Clients : client[c].pc # "idle" =>
               client[c].job \in Jobs /\ OwnRow(batch, client[c].job, client[c].val)
        /\ \A j \in Jobs : OwnRow(batch, j, rows[j])
    BY DEF BaseInv, ClientsOK, WorkersOK, StoreInv, RowsTypeOK, HeldJobsExist, InTable, OwnInv
  <1>00. /\ IdleClient.pc = "idle" /\ IdleClient.val = NoState
         /\ \A j : OwnRow(batch, j, NoState)
    BY DEF IdleClient, OwnRow, NoState, EmptyRow
  <1>1. ASSUME NEW c \in Clients, NEW new, client' = [client EXCEPT ![c] = new],
               new.pc # "idle" => OwnRow(batch, new.job, new.val),
               UNCHANGED <<rows, worker, batch>>
        PROVE  OwnInv'
    <2>1. \A d \in Clients : client'[d].pc # "idle" =>
              client'[d] = client[d] \/ OwnRow(batch', client'[d].job, client'[d].val)
      BY <1>0, <1>1
    <2> QED BY <1>1, <2>1, OwnersStay
  <1>2. ASSUME NEW c \in Clients, NEW j \in Jobs, Enqueue(c, j) PROVE OwnInv'
    <2>1. PICK wants \in BOOLEAN : client' = [client EXCEPT ![c] =
               [IdleClient EXCEPT !.pc = "get", !.job = j, !.wants = wants]]
      BY <1>2 DEF Enqueue
    <2> DEFINE new == [IdleClient EXCEPT !.pc = "get", !.job = j, !.wants = wants]
    <2>2. OwnRow(batch, new.job, new.val)
      BY <1>00 DEF IdleClient
    <2>3. UNCHANGED <<worker, batch>>
      BY <1>2 DEF Enqueue
    <2> HIDE DEF new
    <2>4. client' = [client EXCEPT ![c] = new]
      BY <2>1 DEF new
    <2>5. \A d \in Clients : client'[d].pc # "idle" =>
              client'[d] = client[d] \/ OwnRow(batch', client'[d].job, client'[d].val)
      BY <1>0, <2>2, <2>3, <2>4
    <2>6. \A k \in Jobs : \/ rows'[k] = rows[k]
                          \/ OwnRow(batch', k, rows'[k]) /\ EndsWith(batch', k, rows'[k].outcome)
      <3>1. CASE UNCHANGED rows
        BY <3>1
      <3>2. CASE rows' = [rows EXCEPT ![j] = EmptyRow("queued")]
        <4>1. OwnRow(batch', j, EmptyRow("queued"))
              /\ EndsWith(batch', j, EmptyRow("queued").outcome)
          BY DEF EmptyRow, OwnRow, EndsWith
        <4> QED BY <1>0, <3>2, <4>1
      <3> QED BY <1>2, <3>1, <3>2 DEF Enqueue, enqueue
    <2> QED BY <2>3, <2>5, <2>6, OwnersStay
  <1>3. ASSUME NEW c \in Clients, NEW j \in Jobs, Resume(c, j) PROVE OwnInv'
    <2> DEFINE new == [IdleClient EXCEPT !.pc = "subscribe", !.job = j, !.val = rows[j]]
    <2>1. client' = [client EXCEPT ![c] = new] /\ UNCHANGED <<rows, worker, batch>>
      BY <1>3 DEF Resume
    <2>2. OwnRow(batch, new.job, new.val)
      BY <1>0 DEF IdleClient
    <2> HIDE DEF new
    <2> QED BY <1>1, <2>1, <2>2
  <1>4. ASSUME NEW c \in Clients, Snapshot(c) PROVE OwnInv'
    <2> DEFINE new == [client[c] EXCEPT !.pc = "subscribe", !.val = rows[client[c].job]]
    <2>1. client' = [client EXCEPT ![c] = new] /\ UNCHANGED <<rows, worker, batch>>
      BY <1>0, <1>4 DEF Snapshot, ClientTypes
    <2>2. OwnRow(batch, new.job, new.val)
      BY <1>0, <1>4 DEF Snapshot, ClientTypes
    <2> HIDE DEF new
    <2> QED BY <1>1, <2>1, <2>2
  <1>5. ASSUME NEW c \in Clients, SubscribeDone(c) PROVE OwnInv'
    <2> DEFINE new == [client[c] EXCEPT !.pc = "wait"]
    <2>1. /\ client' = [client EXCEPT ![c] = new] \/ client' = [client EXCEPT ![c] = IdleClient]
          /\ UNCHANGED <<rows, worker, batch>>
      BY <1>0, <1>5 DEF SubscribeDone, ClientTypes
    <2>2. OwnRow(batch, new.job, new.val)
      BY <1>0, <1>5 DEF SubscribeDone, ClientTypes
    <2> HIDE DEF new
    <2> QED BY <1>00, <1>1, <2>1, <2>2
  <1>6. ASSUME NEW j \in Jobs, NEW snapshot, Attach(j, snapshot), OwnRow(batch, j, snapshot),
               NEW v \in Workers, worker'[v].pc # "idle"
        PROVE  worker'[v] = worker[v] \/ WorkerOwns(batch, worker'[v])
    BY <1>0, <1>6 DEF Attach, WorkerOwns
  <1>7. ASSUME NEW c \in Clients, SubscribeOpen(c) PROVE OwnInv'
    <2> DEFINE j == client[c].job
               new == IF client[c].wants
                      THEN [client[c] EXCEPT !.pc = "wait", !.src = registry'[j]]
                      ELSE IdleClient
    <2>1. /\ j \in Jobs /\ Attach(j, client[c].val) /\ OwnRow(batch, j, client[c].val)
          /\ client' = [client EXCEPT ![c] = new] /\ UNCHANGED <<rows, batch>>
      BY <1>0, <1>7 DEF SubscribeOpen
    <2>2. new.pc # "idle" => OwnRow(batch, new.job, new.val)
      BY <1>0, <1>00, <2>1 DEF ClientTypes
    <2> HIDE DEF new
    <2>3. \A d \in Clients : client'[d].pc # "idle" =>
              client'[d] = client[d] \/ OwnRow(batch', client'[d].job, client'[d].val)
      BY <1>0, <2>1, <2>2
    <2>4. \A v \in Workers : worker'[v].pc # "idle" =>
              worker'[v] = worker[v] \/ WorkerOwns(batch', worker'[v])
      BY <1>6, <2>1
    <2> QED BY <2>1, <2>3, <2>4, OwnersStay
  <1>8. ASSUME NEW c \in Clients, Answer(c) \/ Disconnect(c) PROVE OwnInv'
    <2>1. client' = [client EXCEPT ![c] = IdleClient] /\ UNCHANGED <<rows, worker, batch>>
      BY <1>8 DEF Answer, Disconnect
    <2> QED BY <1>00, <1>1, <2>1
  <1>9. CASE (\E j \in Jobs : GetJob(j)) \/ Start \/ Serve
    BY <1>9, OwnersStay DEF GetJob, Start, Serve
  <1>10. CASE Crash
    <2>1. /\ \A v \in Workers : worker'[v].pc = "idle"
          /\ \A c \in Clients : client'[c].pc = "idle"
          /\ UNCHANGED <<rows, batch>>
      BY <1>10 DEF Crash, IdleWorker, IdleClient
    <2> QED BY <2>1, OwnersStay
  <1>11. ASSUME NEW j \in Jobs, StartupResume(j) PROVE OwnInv'
    <2>1. Attach(j, rows[j]) /\ UNCHANGED <<rows, client, batch>>
      BY <1>11 DEF StartupResume
    <2>2. \A v \in Workers : worker'[v].pc # "idle" =>
              worker'[v] = worker[v] \/ WorkerOwns(batch', worker'[v])
      BY <1>0, <1>6, <2>1
    <2> QED BY <2>1, <2>2, OwnersStay
  <1>12. ASSUME NEW w \in Workers, Exit(w) PROVE OwnInv'
    <2>1. /\ worker[w].pc = "exit" /\ worker' = [worker EXCEPT ![w] = IdleWorker]
          /\ UNCHANGED <<rows, batch>>
          /\ \A c \in Clients :
                 client'[c] = IF client[c].src = w
                              THEN [client[c] EXCEPT !.src = NULL, !.val = worker[w].chan]
                              ELSE client[c]
      BY <1>12 DEF Exit
    <2>2. \A v \in Workers : worker'[v].pc # "idle" => worker'[v] = worker[v]
      BY <1>0, <2>1 DEF IdleWorker
    <2>3. worker[w].chan = worker[w].state /\ OwnRow(batch, worker[w].job, worker[w].state)
      BY <2>1 DEF BaseInv, WorkersOK, WorkerShape, OwnInv, WorkerOwns
    <2>4. ASSUME NEW c \in Clients, client'[c].pc # "idle"
          PROVE  client'[c] = client[c] \/ OwnRow(batch', client'[c].job, client'[c].val)
      <3>1. CASE client[c].src = w
        <4>1. client'[c].job = client[c].job /\ client'[c].val = worker[w].state
          BY <1>0, <2>1, <2>3, <3>1 DEF ClientTypes
        <4>2. worker[w].job = client[c].job
          BY <3>1, NullIsNoTask DEF WatchInv
        <4> QED BY <2>1, <2>3, <4>1, <4>2
      <3>2. CASE client[c].src # w
        BY <2>1, <3>2
      <3> QED BY <3>1, <3>2
    <2> QED BY <2>1, <2>2, <2>4, OwnersStay
  <1> QED BY <1>2, <1>3, <1>4, <1>5, <1>7, <1>8, <1>9, <1>10, <1>11, <1>12
          DEF ClientNext, ProcessNext

\* Rows, workers and handlers refer to batches of their own after every step.
LEMMA OwnStep == BaseInv /\ WatchInv /\ OwnInv /\ [Next]_vars => OwnInv'
  <1> SUFFICES ASSUME BaseInv, WatchInv, OwnInv, [Next]_vars PROVE OwnInv'
    OBVIOUS
  <1>0. BaseInv'
    BY BaseStep
  <1>1. CASE UNCHANGED vars
    BY <1>0, <1>1, OwnersStay DEF vars
  <1>2. CASE ProviderNext
    <2>1. UNCHANGED <<rows, worker, client>>
      BY <1>2 DEF ProviderNext, Accept, Refuse, Enlist, End
    <2> QED BY <1>0, <2>1, OwnersStay
  <1>3. CASE WorkerNext
    BY <1>0, <1>3, UpdatesOwn, CallsOwn, ClientsKeepOwn DEF WorkerNext
  <1> QED BY <1>0, <1>1, <1>2, <1>3, ClientsKeepOwn DEF Next

\* A row names only a batch that the provider accepted for this job, and a
\* stored outcome is Kaiion's own or what the job's own batch ended with: no
\* job is ever given the result of another (create, find_batch,
\* apply_batch_status).
THEOREM OutcomesAreOwn == Spec => []OutcomeIsOfOwnBatch
  <1>1. OwnInv => OutcomeIsOfOwnBatch
    BY DEF OwnInv, OutcomeIsOfOwnBatch, OwnRow, Has, EndsWith, Accepted
  <1> QED BY <1>1, BaseInit, BaseStep, WatchInit, WatchStep, OwnInit, OwnStep, PTL DEF Spec

-------------------------------------------------------------------------------
(* The batch path implements DurableJobs.                                  *)

\* The variables of DurableJobs, as the refinement mapping has them.
PhaseOf(row) == IF row.status = "absent" THEN "absent"
                ELSE IF row.status \in {"queued", "uploaded"} THEN "open"
                ELSE IF IsTerminal(row) THEN "done" ELSE "committed"

Phases == [j \in Jobs |-> PhaseOf(rows[j])]

SentBy(j) == {b \in BatchIds : batch[b].phase # "free" /\ batch[b].job = j}

Sent == [j \in Jobs |-> SentBy(j)]

OutcomesOf == [j \in Jobs |-> rows[j].outcome]

\* The batch path begins where DurableJobs does.
LEMMA AbstractInit == Init => Abstract!Init
  <1> SUFFICES ASSUME Init PROVE Abstract!Init
    OBVIOUS
  <1>1. \A j \in Jobs : PhaseOf(rows[j]) = "absent" /\ rows[j].outcome = NULL
    BY DEF Init, StoreInit, EmptyRow, PhaseOf
  <1>2. \A j \in Jobs : SentBy(j) = {}
    BY DEF Init, FreeBatch, SentBy
  <1>3. Phases = [j \in Jobs |-> "absent"] /\ Sent = [j \in Jobs |-> {}]
        /\ OutcomesOf = [j \in Jobs |-> NULL] /\ told = [j \in Jobs |-> {}]
    BY <1>1, <1>2 DEF Phases, Sent, OutcomesOf, Init
  <1> QED BY <1>3 DEF Abstract!Init, Phases, PhaseOf, Sent, SentBy, OutcomesOf

\* The actions of DurableJobs in these terms.
LEMMA AbstractActions ==
    ASSUME NEW j \in Jobs
    PROVE  /\ UNCHANGED <<Phases, Sent, OutcomesOf, told>> => UNCHANGED Abstract!jobVars
           /\ /\ Phases[j] = "absent" /\ Phases' = [Phases EXCEPT ![j] = "open"]
              /\ UNCHANGED <<Sent, OutcomesOf, told>>
              => Abstract!Accept(j)
           /\ /\ Phases[j] = "open" /\ Phases' = [Phases EXCEPT ![j] = "committed"]
              /\ UNCHANGED <<Sent, OutcomesOf, told>>
              => Abstract!Commit(j)
           /\ /\ Phases[j] = "committed" /\ Sent[j] = {}
              /\ \E b \in BatchIds : Sent' = [Sent EXCEPT ![j] = {b}]
              /\ UNCHANGED <<Phases, OutcomesOf, told>>
              => Abstract!Send(j)
           /\ /\ Phases[j] \in {"open", "committed"}
              /\ \E o \in Outcomes : /\ OriginOf(o) \in Sent[j] \cup {NULL}
                                     /\ OutcomesOf' = [OutcomesOf EXCEPT ![j] = o]
              /\ Phases' = [Phases EXCEPT ![j] = "done"]
              /\ UNCHANGED <<Sent, told>>
              => Abstract!Finish(j)
           /\ /\ Phases[j] = "done"
              /\ told' = [told EXCEPT ![j] = @ \cup {OutcomesOf[j]}]
              /\ UNCHANGED <<Phases, Sent, OutcomesOf>>
              => Abstract!Tell(j)
  BY DEF Abstract!jobVars, Abstract!Accept, Abstract!Commit, Abstract!Send, Abstract!Finish,
     Abstract!Tell, Phases, PhaseOf, Sent, SentBy, OutcomesOf

\* A worker about to send has the row in submitting: nobody else works for its
\* job, so nobody else can have moved the row on.
SubmitInv == \A w \in Workers : worker[w].pc = "create" => rows[worker[w].job].status = "submitting"

\* Of the steps of a worker, BeginSubmission alone brings it to "create", and
\* none touches the row of another job.
LEMMA WorkerAndRow ==
    ASSUME BaseInv, NEW v \in Workers, Running(v)
    PROVE  /\ \A k \in Jobs : k # worker[v].job => rows'[k] = rows[k]
           /\ worker'[v].pc = "create" => rows'[worker[v].job].status = "submitting"
  <1> DEFINE j == worker[v].job
  <1>0. /\ worker \in [Workers -> WorkerTypes] /\ rows \in [Jobs -> RowTypes]
        /\ worker[v].pc # "idle" => j \in Jobs
    BY DEF BaseInv, WorkersOK, HeldJobsExist, InTable, StoreInv, RowsTypeOK
  <1>1. ASSUME NEW pc, NEW got, pc # "create", Goto(v, pc, got) PROVE worker'[v].pc # "create"
    BY <1>0, <1>1 DEF Goto, WorkerTypes
  <1>2. ASSUME NEW state, Adopt(v, state) PROVE worker'[v].pc # "create"
    BY <1>0, <1>2 DEF Adopt, WorkerTypes
  <1>3. CASE \/ MarkUploaded(v) \/ MarkSubmitted(v) \/ MarkUncertain(v)
             \/ StoreOutcome(v) \/ StoreFailure(v)
    <2>1. Goto(v, "reread", NULL) \/ Adopt(v, rows'[j])
      BY <1>3 DEF MarkUploaded, MarkSubmitted, MarkUncertain, StoreOutcome, StoreFailure,
         Transition
    <2> QED BY <1>1, <1>2, <1>3, <2>1, WorkerUpdates
  <1>4. CASE BeginSubmission(v)
    <2>1. \/ begin_submission(j, worker[v].state.file)
          \/ Goto(v, "reread", NULL)
      BY <1>4 DEF BeginSubmission
    <2>2. j \in Jobs
      BY <1>4, AtTopShape DEF BeginSubmission
    <2>3. begin_submission(j, worker[v].state.file) => rows'[j].status = "submitting"
      BY <1>0, <2>2 DEF begin_submission, SubmittingRow, RowTypes
    <2> QED BY <1>1, <1>4, <2>1, <2>3, WorkerUpdates
  <1>5. CASE Reread(v)
    BY <1>2, <1>5 DEF Reread
  <1>6. CASE Upload(v) \/ FindBatch(v)
    BY <1>1, <1>6 DEF Upload, FindBatch
  <1>7. CASE CreateBatch(v)
    BY <1>1, <1>7 DEF CreateBatch
  <1>8. CASE CreateOk(v) \/ CreateRetryable(v) \/ CreatePermanent(v)
    BY <1>1, <1>8 DEF CreateOk, CreateRetryable, CreatePermanent
  <1>9. CASE GetBatch(v)
    BY <1>1, <1>9 DEF GetBatch
  <1>10. CASE FetchFile(v)
    BY <1>1, <1>10 DEF FetchFile
  <1>11. CASE FetchRetryable(v) \/ ProviderPermanent(v) \/ DbError(v)
    BY <1>1, <1>11 DEF FetchRetryable, ProviderPermanent, DbError
  <1> QED BY <1>3, <1>4, <1>5, <1>6, <1>7, <1>8, <1>9, <1>10, <1>11 DEF Running

\* What a worker is about to send is on record as being sent, in every state.
LEMMA SubmitStep == BaseInv /\ WatchInv /\ SubmitInv /\ [Next]_vars => SubmitInv'
  <1> SUFFICES ASSUME BaseInv, WatchInv, SubmitInv, [Next]_vars,
                      NEW w \in Workers, worker'[w].pc = "create"
               PROVE  rows'[worker'[w].job].status = "submitting"
    BY DEF SubmitInv
  <1>0. /\ worker \in [Workers -> WorkerTypes] /\ rows \in [Jobs -> RowTypes]
        /\ \A v \in Workers : worker[v].pc # "idle" => worker[v].job \in Jobs
    BY DEF BaseInv, WorkersOK, HeldJobsExist, InTable, StoreInv, RowsTypeOK
  <1>1. ASSUME worker'[w] = worker[w], UNCHANGED rows
        PROVE  rows'[worker'[w].job].status = "submitting"
    BY <1>1 DEF SubmitInv
  <1>2. CASE UNCHANGED vars \/ ProviderNext
    BY <1>1, <1>2 DEF vars, ProviderNext, Accept, Refuse, Enlist, End
  <1>3. ASSUME NEW j, NEW snapshot, Attach(j, snapshot) PROVE worker'[w] = worker[w]
    BY <1>0, <1>3 DEF Attach
  <1>4. CASE ProcessNext
    <2>1. CASE Start \/ Serve
      BY <1>1, <2>1 DEF Start, Serve
    <2>2. ASSUME NEW j \in Jobs, StartupResume(j)
          PROVE  rows'[worker'[w].job].status = "submitting"
      <3>1. worker'[w] = worker[w] /\ UNCHANGED rows
        BY <1>3, <2>2 DEF StartupResume
      <3> QED BY <1>1, <3>1
    <2>3. CASE Crash
      BY <2>3 DEF Crash, IdleWorker
    <2> QED BY <1>4, <2>1, <2>2, <2>3 DEF ProcessNext
  <1>5. ASSUME NEW c \in Clients, NEW j \in Jobs, Enqueue(c, j)
        PROVE  rows'[worker'[w].job].status = "submitting"
    <2>1. /\ UNCHANGED worker /\ worker[w].job \in Jobs
          /\ rows[worker[w].job].status = "submitting"
      BY <1>0, <1>5 DEF Enqueue, SubmitInv
    <2>2. rows'[worker[w].job] = rows[worker[w].job]
      BY <1>0, <1>5, <2>1 DEF Enqueue, enqueue
    <2> QED BY <2>1, <2>2
  <1>6. CASE ClientNext
    BY <1>1, <1>3, <1>5, <1>6 DEF ClientNext, Resume, Snapshot, SubscribeDone, SubscribeOpen,
       Answer, Disconnect, GetJob
  <1>7. ASSUME NEW v \in Workers, Running(v)
        PROVE  rows'[worker'[w].job].status = "submitting"
    <2>1. /\ worker[v].pc # "idle" /\ worker'[v].job = worker[v].job
          /\ \A u \in Workers : u # v => worker'[u] = worker[u]
      BY <1>7, WorkerMoves
    <2>2. CASE w = v
      BY <1>7, <2>1, <2>2, WorkerAndRow
    <2>3. CASE w # v
      <3>1. /\ worker'[w] = worker[w] /\ worker[w].job \in Jobs
            /\ rows[worker[w].job].status = "submitting"
        BY <1>0, <2>1, <2>3 DEF SubmitInv
      <3>2. worker[w].job # worker[v].job
        BY <2>1, <2>3, <3>1 DEF WatchInv, OneWorkerPerJob
      <3> QED BY <1>7, <3>1, <3>2, WorkerAndRow
    <2> QED BY <2>2, <2>3
  <1>8. ASSUME NEW v \in Workers, Exit(v) PROVE rows'[worker'[w].job].status = "submitting"
    <2>1. worker'[w] = worker[w] /\ UNCHANGED rows
      BY <1>0, <1>8 DEF Exit, IdleWorker
    <2> QED BY <1>1, <2>1
  <1>9. CASE WorkerNext
    BY <1>7, <1>8, <1>9 DEF WorkerNext, Running
  <1> QED BY <1>2, <1>4, <1>6, <1>9 DEF Next

\* No worker is about to send anything when the process first starts.
LEMMA SubmitInit == Init => SubmitInv
  BY DEF Init, SubmitInv, IdleWorker

AbstractStep == [Abstract!Next]_(Abstract!jobVars)

\* Steps that DurableJobs does not see: rows and answers stay, and the provider
\* gets no new request.
LEMMA Stutters ==
    ASSUME UNCHANGED <<rows, told>>,
           \A b \in BatchIds : /\ batch'[b].phase # "free" <=> batch[b].phase # "free"
                               /\ batch'[b].job = batch[b].job
    PROVE  AbstractStep
  <1>1. UNCHANGED <<Phases, OutcomesOf, told>>
    BY DEF Phases, OutcomesOf
  <1>2. \A j \in Jobs : SentBy(j)' = SentBy(j)
    BY DEF SentBy
  <1>3. UNCHANGED Sent
    BY <1>2 DEF Sent
  <1> QED BY <1>1, <1>3 DEF AbstractStep, Abstract!jobVars, Phases, PhaseOf, Sent, SentBy,
             OutcomesOf

\* A step that writes one row, as DurableJobs sees it.
LEMMA RowChange ==
    ASSUME BaseInv, NEW j \in Jobs, NEW row \in RowTypes,
           rows' = [rows EXCEPT ![j] = row], UNCHANGED <<batch, told>>
    PROVE  /\ Phases' = [Phases EXCEPT ![j] = PhaseOf(row)]
           /\ OutcomesOf' = [OutcomesOf EXCEPT ![j] = row.outcome]
           /\ UNCHANGED <<Sent, told>>
           /\ Phases[j] = PhaseOf(rows[j]) /\ OutcomesOf[j] = rows[j].outcome
  <1>0. rows \in [Jobs -> RowTypes]
    BY DEF BaseInv, StoreInv, RowsTypeOK
  <1>1. \A k \in Jobs : rows'[k] = IF k = j THEN row ELSE rows[k]
    BY <1>0
  <1>2. Phases' = [k \in Jobs |-> PhaseOf(rows'[k])]
        /\ OutcomesOf' = [k \in Jobs |-> rows'[k].outcome]
    BY DEF Phases, OutcomesOf, PhaseOf, IsTerminal
  <1>3. \A k \in Jobs : /\ PhaseOf(rows'[k]) = IF k = j THEN PhaseOf(row) ELSE PhaseOf(rows[k])
                        /\ rows'[k].outcome = IF k = j THEN row.outcome ELSE rows[k].outcome
    BY <1>1 DEF PhaseOf
  <1>5. Phases' = [Phases EXCEPT ![j] = PhaseOf(row)]
    BY <1>2, <1>3 DEF Phases
  <1>6. OutcomesOf' = [OutcomesOf EXCEPT ![j] = row.outcome]
    BY <1>2, <1>3 DEF OutcomesOf
  <1>4. UNCHANGED Sent
    BY DEF Sent, SentBy
  <1> QED BY <1>4, <1>5, <1>6 DEF Phases, OutcomesOf

\* A row that is written without its phase and outcome changing.
LEMMA SamePhase ==
    ASSUME BaseInv, NEW j \in Jobs, NEW row \in RowTypes,
           rows' = [rows EXCEPT ![j] = row], UNCHANGED <<batch, told>>,
           PhaseOf(row) = PhaseOf(rows[j]), row.outcome = rows[j].outcome
    PROVE  AbstractStep
  <1>1. PhaseOf(row) = Phases[j] /\ row.outcome = OutcomesOf[j]
    BY DEF Phases, OutcomesOf
  <1>2. /\ Phases' = [Phases EXCEPT ![j] = PhaseOf(row)]
        /\ OutcomesOf' = [OutcomesOf EXCEPT ![j] = row.outcome]
        /\ UNCHANGED <<Sent, told>>
    BY RowChange
  <1>3. UNCHANGED <<Phases, OutcomesOf>>
    BY <1>1, <1>2 DEF Phases, OutcomesOf
  <1> QED BY <1>2, <1>3, AbstractActions DEF AbstractStep

\* mark_uploaded, mark_submission_uncertain and mark_submitted leave a job where
\* DurableJobs has it.
LEMMA QuietUpdates ==
    ASSUME BaseInv, NEW j \in Jobs, UNCHANGED <<batch, told>>,
           \/ \E f \in FileIds : mark_uploaded(j, f)
           \/ mark_submission_uncertain(j)
           \/ \E b \in BatchIds, e \in {"submitting", "submission_uncertain"} :
                  mark_submitted(j, e, b)
    PROVE  AbstractStep
  <1>0. rows[j] \in RowTypes
    BY DEF BaseInv, StoreInv, RowsTypeOK
  <1>1. ASSUME NEW f \in FileIds, mark_uploaded(j, f) PROVE AbstractStep
    <2>1. /\ UploadedRow(rows[j], f) \in RowTypes
          /\ PhaseOf(UploadedRow(rows[j], f)) = PhaseOf(rows[j])
          /\ UploadedRow(rows[j], f).outcome = rows[j].outcome
      BY <1>0, <1>1 DEF mark_uploaded, MayMarkUploaded, UploadedRow, RowTypes, PhaseOf,
         OpenStatuses
    <2> QED BY <1>1, <2>1, SamePhase DEF mark_uploaded
  <1>2. CASE mark_submission_uncertain(j)
    <2>1. /\ UncertainRow(rows[j]) \in RowTypes
          /\ PhaseOf(UncertainRow(rows[j])) = PhaseOf(rows[j])
          /\ UncertainRow(rows[j]).outcome = rows[j].outcome
      BY <1>0, <1>2 DEF mark_submission_uncertain, MayMarkUncertain, UncertainRow, RowTypes,
         PhaseOf, OpenStatuses, IsTerminal, OutcomeKinds
    <2> QED BY <1>2, <2>1, SamePhase DEF mark_submission_uncertain
  <1>3. ASSUME NEW b \in BatchIds, NEW e \in {"submitting", "submission_uncertain"},
               mark_submitted(j, e, b)
        PROVE  AbstractStep
    <2>1. /\ SubmittedRow(rows[j], b) \in RowTypes
          /\ PhaseOf(SubmittedRow(rows[j], b)) = PhaseOf(rows[j])
          /\ SubmittedRow(rows[j], b).outcome = rows[j].outcome
      BY <1>0, <1>3 DEF mark_submitted, MayReplace, SubmittedRow, RowTypes, PhaseOf,
         OpenStatuses, IsTerminal, OutcomeKinds
    <2> QED BY <1>3, <2>1, SamePhase DEF mark_submitted
  <1> QED BY <1>1, <1>2, <1>3

\* enqueue accepts a job that is new and leaves another alone.
LEMMA EnqueueAccepts ==
    ASSUME BaseInv, NEW j \in Jobs, enqueue(j), UNCHANGED <<batch, told>>
    PROVE  AbstractStep
  <1>1. CASE rows[j].status # "absent"
    BY <1>1, Stutters DEF enqueue
  <1>2. CASE rows[j].status = "absent"
    <2>1. EmptyRow("queued") \in RowTypes /\ PhaseOf(EmptyRow("queued")) = "open"
          /\ EmptyRow("queued").outcome = NULL
      BY DEF EmptyRow, RowTypes, PhaseOf, OpenStatuses
    <2>2. rows[j].outcome = NULL /\ PhaseOf(rows[j]) = "absent"
      BY <1>2 DEF BaseInv, StoreInv, RowsDecode, Decodes, IsTerminal, OutcomeKinds, PhaseOf
    <2>3. /\ Phases' = [Phases EXCEPT ![j] = PhaseOf(EmptyRow("queued"))]
          /\ OutcomesOf' = [OutcomesOf EXCEPT ![j] = EmptyRow("queued").outcome]
          /\ UNCHANGED <<Sent, told>>
      BY <1>2, <2>1, RowChange DEF enqueue
    <2>4. Phases[j] = "absent" /\ OutcomesOf' = OutcomesOf
      BY <2>1, <2>2, <2>3 DEF Phases, OutcomesOf
    <2>5. Abstract!Accept(j)
      BY <2>1, <2>3, <2>4, AbstractActions
    <2> QED BY <2>5 DEF AbstractStep, Abstract!Next
  <1> QED BY <1>1, <1>2

\* begin_submission decides that the job goes to the provider.
LEMMA BeginCommits ==
    ASSUME BaseInv, NEW j \in Jobs, NEW f, begin_submission(j, f), UNCHANGED <<batch, told>>
    PROVE  AbstractStep
  <1> DEFINE row == SubmittingRow(rows[j])
  <1>1. rows[j] \in RowTypes /\ rows[j].status = "uploaded"
    BY DEF BaseInv, StoreInv, RowsTypeOK, begin_submission, MayBeginSubmission
  <1>2. /\ row \in RowTypes /\ PhaseOf(row) = "committed" /\ row.outcome = rows[j].outcome
        /\ PhaseOf(rows[j]) = "open"
    BY <1>1 DEF SubmittingRow, RowTypes, PhaseOf, OpenStatuses, IsTerminal, OutcomeKinds
  <1>3. rows' = [rows EXCEPT ![j] = row]
    BY DEF begin_submission
  <1> HIDE DEF row
  <1>4. /\ Phases' = [Phases EXCEPT ![j] = PhaseOf(row)]
        /\ OutcomesOf' = [OutcomesOf EXCEPT ![j] = row.outcome]
        /\ UNCHANGED <<Sent, told>>
    BY <1>2, <1>3, RowChange
  <1>5. Phases[j] = "open" /\ OutcomesOf' = OutcomesOf
    BY <1>2, <1>4 DEF Phases, OutcomesOf
  <1>6. Abstract!Commit(j)
    BY <1>2, <1>4, <1>5, AbstractActions
  <1> QED BY <1>6 DEF AbstractStep, Abstract!Next

\* store_outcome finishes the job, with Kaiion's own outcome or with that of a
\* batch sent for it.
LEMMA OutcomeFinishes ==
    ASSUME BaseInv, NEW j \in Jobs, NEW e \in OpenStatuses, NEW o \in Outcomes,
           store_outcome(j, e, o), o.by = Kaiion \/ o.by \in SentBy(j),
           UNCHANGED <<batch, told>>
    PROVE  AbstractStep
  <1> DEFINE row == OutcomeRow(rows[j], o)
  <1>1. rows[j] \in RowTypes /\ rows[j].status \in OpenStatuses
    BY DEF BaseInv, StoreInv, RowsTypeOK, store_outcome, MayReplace
  <1>2. /\ row \in RowTypes /\ PhaseOf(row) = "done" /\ row.outcome = o
    BY <1>1 DEF OutcomeRow, RowTypes, PhaseOf, OpenStatuses, IsTerminal, OutcomeKinds, Outcomes
  <1>3. PhaseOf(rows[j]) \in {"open", "committed"}
    BY <1>1 DEF PhaseOf, OpenStatuses, IsTerminal, OutcomeKinds
  <1>4. rows' = [rows EXCEPT ![j] = row]
    BY DEF store_outcome
  <1> HIDE DEF row
  <1>5. /\ Phases' = [Phases EXCEPT ![j] = PhaseOf(row)]
        /\ OutcomesOf' = [OutcomesOf EXCEPT ![j] = row.outcome]
        /\ UNCHANGED <<Sent, told>>
    BY <1>2, <1>4, RowChange
  <1>6. Phases[j] \in {"open", "committed"} /\ OriginOf(o) \in Sent[j] \cup {NULL}
    BY <1>3 DEF Phases, Sent, OriginOf
  <1>7. Abstract!Finish(j)
    BY <1>2, <1>5, <1>6, AbstractActions
  <1> QED BY <1>7 DEF AbstractStep, Abstract!Next

\* A client is told what is in the table.
LEMMA Tells ==
    ASSUME BaseInv, NEW j \in Jobs, NEW o, o # NULL, rows[j].outcome = o,
           told' = [told EXCEPT ![j] = @ \cup {o}], UNCHANGED <<rows, batch>>
    PROVE  AbstractStep
  <1>1. UNCHANGED <<Phases, Sent, OutcomesOf>>
    BY DEF Phases, Sent, SentBy, OutcomesOf
  <1>2. IsTerminal(rows[j])
    BY DEF BaseInv, StoreInv, RowsDecode, Decodes
  <1>3. PhaseOf(rows[j]) = "done"
    BY <1>2 DEF IsTerminal, OutcomeKinds, PhaseOf
  <1>4. Phases[j] = "done" /\ OutcomesOf[j] = o
    BY <1>3 DEF Phases, OutcomesOf
  <1>5. Abstract!Tell(j)
    BY <1>1, <1>4, AbstractActions
  <1> QED BY <1>5 DEF AbstractStep, Abstract!Next

\* create_batch sends the one request of a job that is committed to it.
LEMMA CreateSends ==
    ASSUME BaseInv, CreateInv, SubmitInv, NEW w \in Workers, CreateBatch(w)
    PROVE  AbstractStep
  <1>00. PICK j \in Jobs : j = worker[w].job
    BY DEF BaseInv, HeldJobsExist, InTable, CreateBatch
  <1>0. /\ batch \in [BatchIds -> BatchTypes]
        /\ rows[j].status = "submitting" /\ ~SentFor(j)
        /\ UNCHANGED <<rows, told>>
    BY <1>00 DEF BaseInv, BatchesOK, SubmitInv, CreateInv, CreateBatch
  <1>1. PICK b \in BatchIds : batch[b].phase = "free"
            /\ batch' = [batch EXCEPT ![b].phase = "inflight", ![b].job = j]
    BY <1>00 DEF CreateBatch
  <1>2. /\ \A a \in BatchIds : a # b => batch'[a] = batch[a]
        /\ batch'[b].phase = "inflight" /\ batch'[b].job = j
    BY <1>0, <1>1 DEF BatchTypes
  <1>3. SentBy(j) = {} /\ SentBy(j)' = {b}
    <2>1. \A a \in BatchIds : ~(batch[a].phase # "free" /\ batch[a].job = j)
      BY <1>0 DEF SentFor
    <2>2. \A a \in BatchIds : (batch'[a].phase # "free" /\ batch'[a].job = j) <=> a = b
      BY <1>2, <2>1
    <2>3. {a \in BatchIds : batch'[a].phase # "free" /\ batch'[a].job = j} = {b}
      BY <2>2
    <2> QED BY <2>1, <2>3 DEF SentBy
  <1>4. \A k \in Jobs : k # j => SentBy(k)' = SentBy(k)
    <2> SUFFICES ASSUME NEW k \in Jobs, k # j PROVE SentBy(k)' = SentBy(k)
      OBVIOUS
    <2>1. \A a \in BatchIds : (batch'[a].phase # "free" /\ batch'[a].job = k)
                               <=> (batch[a].phase # "free" /\ batch[a].job = k)
      BY <1>1, <1>2
    <2> QED BY <2>1 DEF SentBy
  <1>5. Sent' = [Sent EXCEPT ![j] = {b}] /\ Sent[j] = {}
    BY <1>0, <1>3, <1>4 DEF Sent
  <1>6. UNCHANGED <<Phases, OutcomesOf, told>>
    BY <1>0 DEF Phases, OutcomesOf
  <1>7. PhaseOf(rows[j]) = "committed"
    BY <1>0 DEF PhaseOf, IsTerminal, OutcomeKinds
  <1>8. Phases[j] = "committed"
    BY <1>0, <1>7 DEF Phases
  <1>9. Abstract!Send(j)
    BY <1>0, <1>5, <1>6, <1>8, AbstractActions
  <1> QED BY <1>9 DEF AbstractStep, Abstract!Next

\* Handlers and the process accept jobs and tell what they were told by the
\* table; nothing else they do shows in DurableJobs.
LEMMA ClientsAreAbstract ==
    ASSUME BaseInv, WatchInv, ToldInv, ClientNext \/ ProcessNext
    PROVE  AbstractStep
  <1>1. ASSUME UNCHANGED <<rows, batch, told>> PROVE AbstractStep
    BY <1>1, Stutters
  <1>2. ASSUME NEW c \in Clients, NEW row, client[c].pc # "idle", Decodes(row), IsTerminal(row),
               Agrees(rows, client[c].job, row), UNCHANGED <<rows, batch>>,
               told' = [told EXCEPT ![client[c].job] = @ \cup {row.outcome}]
        PROVE  AbstractStep
    <2>1. PICK j \in Jobs : j = client[c].job
      BY <1>2 DEF BaseInv, HeldJobsExist, InTable
    <2>2. row.outcome # NULL /\ rows[j].outcome = row.outcome
      BY <1>2, <2>1 DEF Decodes, Agrees
    <2>3. told' = [told EXCEPT ![j] = @ \cup {row.outcome}]
      BY <1>2, <2>1
    <2> QED BY <1>2, <2>2, <2>3, Tells
  <1>3. ASSUME NEW c \in Clients, client[c].pc # "idle"
        PROVE  Decodes(client[c].val) /\ Agrees(rows, client[c].job, client[c].val)
    BY <1>3 DEF BaseInv, ClientsOK, ClientShape, ToldInv
  <1>4. CASE ProcessNext
    <2>1. UNCHANGED <<rows, batch, told>>
      BY <1>4 DEF ProcessNext, Start, StartupResume, Serve, Crash
    <2> QED BY <1>1, <2>1
  <1>5. ASSUME NEW c \in Clients, NEW j \in Jobs, Enqueue(c, j) PROVE AbstractStep
    BY <1>5, EnqueueAccepts DEF Enqueue
  <1>6. ASSUME NEW c \in Clients, NEW j \in Jobs, Resume(c, j) PROVE AbstractStep
    BY <1>1, <1>6 DEF Resume
  <1>7. ASSUME NEW c \in Clients, Snapshot(c) \/ SubscribeOpen(c) \/ Disconnect(c)
        PROVE  AbstractStep
    BY <1>1, <1>7 DEF Snapshot, SubscribeOpen, Disconnect
  <1>8. ASSUME NEW c \in Clients, SubscribeDone(c) PROVE AbstractStep
    <2>1. CASE UNCHANGED told
      BY <1>1, <1>8, <2>1 DEF SubscribeDone
    <2>2. CASE told' = [told EXCEPT ![client[c].job] = @ \cup {client[c].val.outcome}]
      <3>1. client[c].pc # "idle" /\ IsTerminal(client[c].val) /\ UNCHANGED <<rows, batch>>
        BY <1>8 DEF SubscribeDone
      <3> QED BY <1>2, <1>3, <2>2, <3>1
    <2> QED BY <1>8, <2>1, <2>2 DEF SubscribeDone
  <1>9. ASSUME NEW c \in Clients, Answer(c) PROVE AbstractStep
    <2>1. client[c].pc # "idle" /\ UNCHANGED <<rows, batch>>
      BY <1>9 DEF Answer
    <2>2. CASE ~IsTerminal(Seen(c))
      BY <1>1, <1>9, <2>2 DEF Answer
    <2>3. CASE IsTerminal(Seen(c))
      <3>1. told' = [told EXCEPT ![client[c].job] = @ \cup {Seen(c).outcome}]
        BY <1>9, <2>3 DEF Answer
      <3>2. Decodes(Seen(c)) /\ Agrees(rows, client[c].job, Seen(c))
        <4>1. CASE client[c].src = NULL
          BY <1>3, <2>1, <4>1 DEF Seen
        <4>2. CASE client[c].src # NULL
          <5> DEFINE w == client[c].src
          <5>1. w \in Workers /\ worker[w].pc # "idle" /\ worker[w].job = client[c].job
            BY <4>2 DEF BaseInv, ClientsOK, ClientTypes, WatchInv
          <5>2. Decodes(worker[w].state) /\ worker[w].chan = worker[w].state
                /\ Agrees(rows, worker[w].job, worker[w].state)
            BY <5>1 DEF BaseInv, WorkersOK, WorkerShape, ToldInv
          <5> QED BY <4>2, <5>1, <5>2 DEF Seen
        <4> QED BY <4>1, <4>2
      <3> QED BY <1>2, <2>1, <2>3, <3>1, <3>2
    <2> QED BY <2>2, <2>3
  <1>10. ASSUME NEW j \in Jobs, GetJob(j) PROVE AbstractStep
    <2>1. rows[j].outcome # NULL
      BY <1>10 DEF GetJob, BaseInv, StoreInv, RowsDecode, Decodes
    <2> QED BY <1>10, <2>1, Tells DEF GetJob
  <1>11. CASE ClientNext
    BY <1>5, <1>6, <1>7, <1>8, <1>9, <1>10, <1>11 DEF ClientNext
  <1> QED BY <1>4, <1>11

\* Workers commit, send and finish; the rest of what they do stays hidden.
LEMMA WorkersAreAbstract ==
    ASSUME BaseInv, CreateInv, OwnInv, SubmitInv, WorkerNext
    PROVE  AbstractStep
  <1>1. ASSUME UNCHANGED <<rows, batch, told>> PROVE AbstractStep
    BY <1>1, Stutters
  <1>2. ASSUME NEW w \in Workers, worker[w].pc # "idle" PROVE \E j \in Jobs : j = worker[w].job
    BY <1>2 DEF BaseInv, HeldJobsExist, InTable
  <1>3. \A w \in Workers : WorkerShape(worker[w])
    BY DEF BaseInv, WorkersOK
  <1>4. ASSUME NEW w \in Workers, MarkUploaded(w) PROVE AbstractStep
    <2>1. PICK j \in Jobs : j = worker[w].job
      BY <1>2, <1>4 DEF MarkUploaded
    <2>2. mark_uploaded(j, worker[w].got) \/ UNCHANGED rows
      BY <1>4, <2>1 DEF MarkUploaded, Transition
    <2>3. worker[w].got \in FileIds
      BY <1>3, <1>4 DEF WorkerShape, MarkUploaded
    <2> QED BY <1>1, <1>4, <2>2, <2>3, QuietUpdates DEF MarkUploaded
  <1>5. ASSUME NEW w \in Workers, MarkSubmitted(w) PROVE AbstractStep
    <2> DEFINE e == IF worker[w].pc = "mark_created" THEN "submitting"
                    ELSE worker[w].state.status
    <2>1. PICK j \in Jobs : j = worker[w].job
      BY <1>2, <1>5 DEF MarkSubmitted
    <2>2. mark_submitted(j, e, worker[w].got) \/ UNCHANGED rows
      BY <1>5, <2>1 DEF MarkSubmitted, Transition
    <2>3. worker[w].got \in BatchIds /\ e \in {"submitting", "submission_uncertain"}
      BY <1>3, <1>5 DEF WorkerShape, MarkSubmitted
    <2> HIDE DEF e
    <2> QED BY <1>1, <1>5, <2>2, <2>3, QuietUpdates DEF MarkSubmitted
  <1>6. ASSUME NEW w \in Workers, MarkUncertain(w) PROVE AbstractStep
    <2>1. PICK j \in Jobs : j = worker[w].job
      BY <1>2, <1>6 DEF MarkUncertain, AtTop
    <2>2. mark_submission_uncertain(j) \/ UNCHANGED rows
      BY <1>6, <2>1 DEF MarkUncertain, Transition
    <2> QED BY <1>1, <1>6, <2>2, QuietUpdates DEF MarkUncertain
  <1>7. ASSUME NEW w \in Workers, BeginSubmission(w) PROVE AbstractStep
    <2>1. PICK j \in Jobs : j = worker[w].job
      BY <1>2, <1>7 DEF BeginSubmission, AtTop
    <2>2. begin_submission(j, worker[w].state.file) \/ UNCHANGED rows
      BY <1>7, <2>1 DEF BeginSubmission
    <2> QED BY <1>1, <1>7, <2>2, BeginCommits DEF BeginSubmission
  <1>8. ASSUME NEW w \in Workers, NEW o \in Outcomes, StoreOutcome(w) \/ StoreFailure(w),
               \/ UNCHANGED rows
               \/ store_outcome(worker[w].job, worker[w].state.status, o),
               EndsWith(batch, worker[w].job, o)
        PROVE  AbstractStep
    <2>1. PICK j \in Jobs : j = worker[w].job
      BY <1>2, <1>8 DEF StoreOutcome, StoreFailure
    <2>2. UNCHANGED <<batch, told>> /\ worker[w].state.status \in OpenStatuses
      BY <1>3, <1>8 DEF WorkerShape, StoreOutcome, StoreFailure
    <2>3. o.by = Kaiion \/ o.by \in SentBy(j)
      BY <1>8, <2>1, NullIsNoValue DEF EndsWith, SentBy, Outcomes
    <2>4. UNCHANGED rows \/ store_outcome(j, worker[w].state.status, o)
      BY <1>8, <2>1
    <2> QED BY <1>1, <2>2, <2>3, <2>4, OutcomeFinishes
  <1>9. ASSUME NEW w \in Workers, StoreOutcome(w) PROVE AbstractStep
    <2>1. worker[w].got \in Outcomes /\ EndsWith(batch, worker[w].job, worker[w].got)
      BY <1>3, <1>9 DEF WorkerShape, OwnInv, WorkerOwns, StoreOutcome
    <2> QED BY <1>8, <1>9, <2>1 DEF StoreOutcome, Transition
  <1>10. ASSUME NEW w \in Workers, StoreFailure(w) PROVE AbstractStep
    <2>1. FailedByKaiion \in Outcomes /\ EndsWith(batch, worker[w].job, FailedByKaiion)
      BY DEF FailedByKaiion, Outcomes, OutcomeKinds, EndsWith
    <2> QED BY <1>8, <1>10, <2>1 DEF StoreFailure, Transition
  <1>11. ASSUME NEW w \in Workers, CreateBatch(w) PROVE AbstractStep
    BY <1>11, CreateSends
  <1>12. ASSUME NEW w \in Workers,
                \/ Upload(w) \/ CreateOk(w) \/ CreateRetryable(w) \/ CreatePermanent(w)
                \/ FindBatch(w) \/ GetBatch(w) \/ FetchFile(w) \/ FetchRetryable(w)
                \/ ProviderPermanent(w) \/ Reread(w) \/ DbError(w) \/ Exit(w)
         PROVE  AbstractStep
    <2>1. UNCHANGED <<rows, batch, told>>
      BY <1>12 DEF Upload, CreateOk, CreateRetryable, CreatePermanent, FindBatch, GetBatch,
         FetchFile, FetchRetryable, ProviderPermanent, Reread, DbError, Exit
    <2> QED BY <1>1, <2>1
  <1> QED BY <1>4, <1>5, <1>6, <1>7, <1>9, <1>10, <1>11, <1>12 DEF WorkerNext

\* Every step of the batch path is one of DurableJobs, or does not show there.
LEMMA StepIsAbstract ==
    BaseInv /\ WatchInv /\ ToldInv /\ CreateInv /\ OwnInv /\ SubmitInv /\ [Next]_vars
        => AbstractStep
  <1> SUFFICES ASSUME BaseInv, WatchInv, ToldInv, CreateInv, OwnInv, SubmitInv, [Next]_vars
               PROVE  AbstractStep
    OBVIOUS
  <1>1. CASE UNCHANGED vars
    BY <1>1, Stutters DEF vars
  <1>2. CASE ProviderNext
    <2>1. batch \in [BatchIds -> BatchTypes]
      BY DEF BaseInv, BatchesOK
    <2>2. UNCHANGED <<rows, told>>
      BY <1>2 DEF ProviderNext, Accept, Refuse, Enlist, End
    <2>3. ASSUME NEW a \in BatchIds, Accept(a) \/ Refuse(a) \/ Enlist(a) \/ End(a),
                 NEW b \in BatchIds
          PROVE  /\ batch'[b].phase # "free" <=> batch[b].phase # "free"
                 /\ batch'[b].job = batch[b].job
      BY <2>1, <2>3 DEF Accept, Refuse, Enlist, End, BatchTypes
    <2> QED BY <1>2, <2>2, <2>3, Stutters DEF ProviderNext
  <1> QED BY <1>1, <1>2, ClientsAreAbstract, WorkersAreAbstract DEF Next

\* The workers, channels, SQL updates, crashes and provider of the batch path
\* implement the plain life of a job: it is committed once, one create request
\* is sent after that and before the outcome, the outcome is stored once and is
\* Kaiion's or that request's, and no client is told another.
THEOREM DriverImplementsDurableJobs == Spec => ImplementsDurableJobs
  BY BaseInit, BaseStep, WatchInit, WatchStep, ToldInit, ToldStep, CreateInit, CreateStep,
     OwnInit, OwnStep, SubmitInit, SubmitStep, AbstractInit, StepIsAbstract, PTL
     DEF Spec, ImplementsDurableJobs, Abstract!Spec, AbstractStep

===============================================================================
