--------------------------- MODULE BatchDriverProofs ---------------------------
(***************************************************************************)
(* Theorems about BatchDriver for any number of jobs, clients, workers,    *)
(* files and batches.                                                      *)
(***************************************************************************)
EXTENDS BatchDriver, JobStoreProofs

-------------------------------------------------------------------------------
(* The base invariant: types, what each program counter says about the     *)
(* worker's own data, and that nobody holds a job that is not in the table.*)

InTable(j) == j \in Jobs /\ rows[j].status # "absent"

WorkerTypes == [job : Jobs \cup {NULL}, pc : WorkerPcs,
                state : RowTypes, chan : RowTypes,
                got : FileIds \cup BatchIds \cup BatchResults \cup Outcomes \cup {NULL}]

ClientTypes == [job : Jobs \cup {NULL}, pc : {"idle", "get", "subscribe", "wait"},
                wants : BOOLEAN, val : RowTypes, src : Workers \cup {NULL}]

BatchTypes == [job : Jobs \cup {NULL}, phase : BatchPhases,
               listed : BOOLEAN, result : BatchResults \cup {NULL}]

\* What a worker record says for itself.
WorkerShape(r) ==
    /\ r \in WorkerTypes
    /\ Decodes(r.state)
    /\ r.chan = r.state
    /\ r.pc \notin {"idle", "exit"} => r.state.status \in OpenStatuses
    /\ r.pc = "exit" => IsTerminal(r.state)
    /\ r.pc = "mark_uploaded" => r.got \in FileIds
    /\ r.pc \in {"create_wait", "mark_created", "mark_found"} => r.got \in BatchIds
    /\ r.pc = "mark_found" => r.state.status = "submission_uncertain"
    /\ r.pc = "fetch" => r.state.status = "submitted" /\ r.got \in BatchResults
    /\ r.pc = "store" => r.got \in Outcomes

WorkersOK == /\ worker \in [Workers -> WorkerTypes]
             /\ \A w \in Workers : WorkerShape(worker[w])

\* A snapshot a handler holds is a decoded row of the table.
ClientShape(r) ==
    /\ r \in ClientTypes
    /\ Decodes(r.val)
    /\ r.pc \in {"subscribe", "wait"} => r.val.status # "absent"

ClientsOK == /\ client \in [Clients -> ClientTypes]
             /\ \A c \in Clients : ClientShape(client[c])

BatchesOK == /\ batch \in [BatchIds -> BatchTypes]
             /\ \A b \in BatchIds :
                    /\ batch[b].phase # "free" => batch[b].job \in Jobs
                    /\ batch[b].phase = "ended" => batch[b].result \in BatchResults

ProcessOK == /\ proc \in {"down", "starting", "up"}
             /\ todo \subseteq Jobs
             /\ registry \in [Jobs -> Workers \cup {NULL}]
             /\ told \in [Jobs -> SUBSET Outcomes]

\* Jobs that tasks, handlers and the start-up loop hold are in the table; a
\* job the start-up loop has not reached has no worker, and no handler runs
\* before the server is up.
HeldJobsExist ==
    /\ \A w \in Workers : worker[w].pc # "idle" =>
           InTable(worker[w].job) /\ worker[w].job \notin todo /\ proc # "down"
    /\ \A c \in Clients : client[c].pc # "idle" => InTable(client[c].job) /\ proc = "up"
    /\ todo # {} => proc = "starting"
    /\ \A j \in todo : rows[j].status \in OpenStatuses

BaseInv == StoreInv /\ WorkersOK /\ ClientsOK /\ BatchesOK /\ ProcessOK /\ HeldJobsExist

-------------------------------------------------------------------------------

\* The row of an absent job is a well-typed row that decodes.
LEMMA NoStateIsGood == NoState \in RowTypes /\ Decodes(NoState) /\ NoState.status = "absent"
  BY NullIsNoValue DEF NoState, EmptyRow, RowTypes, Decodes, IsTerminal,
     OpenStatuses, OutcomeKinds

\* A worker and a client that do nothing have the shapes TypeOK asks for.
LEMMA IdleShapes == WorkerShape(IdleWorker) /\ ClientShape(IdleClient)
  BY NoStateIsGood DEF WorkerShape, ClientShape, IdleWorker, IdleClient,
     WorkerTypes, ClientTypes, WorkerPcs, DbSteps

\* The typing invariant holds when the process first starts.
LEMMA BaseInit == Init => BaseInv
  <1> SUFFICES ASSUME Init PROVE BaseInv
    OBVIOUS
  <1>1. StoreInv
    BY NoStateIsGood DEF Init, StoreInit, StoreInv, RowsTypeOK, RowsDecode, NoState
  <1>2. WorkersOK /\ ClientsOK
    BY IdleShapes DEF Init, WorkersOK, ClientsOK, WorkerShape, ClientShape
  <1>3. BatchesOK
    BY DEF Init, BatchesOK, FreeBatch, BatchTypes, BatchPhases
  <1>4. ProcessOK /\ HeldJobsExist
    BY DEF Init, ProcessOK, HeldJobsExist, IdleWorker, IdleClient
  <1> QED BY <1>1, <1>2, <1>3, <1>4 DEF BaseInv

\* A worker that moves on, and one that adopts a decoded state.
LEMMA GotoKeepsShape ==
    ASSUME WorkersOK, NEW w \in Workers, NEW pc \in WorkerPcs \ {"idle", "exit"},
           NEW got \in FileIds \cup BatchIds \cup BatchResults \cup Outcomes \cup {NULL},
           worker[w].pc \notin {"idle", "exit"},
           pc = "mark_uploaded" => got \in FileIds,
           pc \in {"create_wait", "mark_created", "mark_found"} => got \in BatchIds,
           pc = "mark_found" => worker[w].state.status = "submission_uncertain",
           pc = "fetch" => worker[w].state.status = "submitted" /\ got \in BatchResults,
           pc = "store" => got \in Outcomes,
           Goto(w, pc, got)
    PROVE  WorkersOK'
  <1> DEFINE new == [worker[w] EXCEPT !.pc = pc, !.got = got]
  <1>1. worker' = [worker EXCEPT ![w] = new]
    BY DEF Goto, WorkersOK, WorkerTypes
  <1>2. WorkerShape(new)
    BY DEF WorkersOK, WorkerShape, WorkerTypes
  <1> QED BY <1>1, <1>2 DEF WorkersOK, WorkerShape

\* A worker that takes a decoded row as its state (run) keeps its shape.
LEMMA AdoptKeepsShape ==
    ASSUME WorkersOK, NEW w \in Workers, NEW state, GoodRow(state),
           state.status # "absent", worker[w].pc # "idle", Adopt(w, state)
    PROVE  WorkersOK'
  <1> DEFINE new == [worker[w] EXCEPT !.state = state, !.chan = state,
                         !.pc = IF IsTerminal(state) THEN "exit" ELSE "top", !.got = NULL]
  <1>1. worker' = [worker EXCEPT ![w] = new]
    BY DEF Adopt, WorkersOK, WorkerTypes
  <1>2. state.status \in OpenStatuses \/ IsTerminal(state)
    BY DEF GoodRow, RowTypes, IsTerminal
  <1>3. WorkerShape(new)
    BY <1>2 DEF WorkersOK, WorkerShape, WorkerTypes, GoodRow, WorkerPcs, DbSteps
  <1> QED BY <1>1, <1>3 DEF WorkersOK, WorkerShape

\* A row that exists is never deleted.
LEMMA RowsPersist ==
    ASSUME StoreInv, [StoreNext]_rows, NEW j \in Jobs, rows[j].status # "absent"
    PROVE  rows'[j].status # "absent"
  <1>1. CASE rows'[j] = rows[j]
    BY <1>1
  <1>2. CASE rows'[j] # rows[j]
    <2>1. Rank(rows[j].status) < Rank(rows'[j].status)
      BY <1>2, StepsAdvance
    <2>2. Rank("absent") = 0 /\ Rank(rows[j].status) \in Nat
      BY DEF Rank
    <2> QED BY <2>1, <2>2
  <1> QED BY <1>1, <1>2

\* A step of one worker on its own job keeps the base invariant.
LEMMA WorkerStepKeepsBase ==
    ASSUME BaseInv, NEW w \in Workers, worker[w].pc # "idle",
           WorkersOK', BatchesOK', [StoreNext]_rows,
           \A k \in Jobs : k # worker[w].job => rows'[k] = rows[k],
           \A v \in Workers : /\ worker'[v].job = worker[v].job
                              /\ worker'[v].pc # "idle" => worker[v].pc # "idle",
           UNCHANGED <<proc, todo, registry, client, told>>
    PROVE  BaseInv'
  <1>1. StoreInv'
    BY StoreStep DEF BaseInv
  <1>2. ClientsOK' /\ ProcessOK'
    BY DEF BaseInv, ClientsOK, ProcessOK
  <1>3. \A j \in Jobs : rows[j].status # "absent" => rows'[j].status # "absent"
    BY RowsPersist DEF BaseInv
  <1>4. HeldJobsExist'
    BY <1>3 DEF BaseInv, HeldJobsExist, InTable, ProcessOK
  <1> QED BY <1>1, <1>2, <1>4 DEF BaseInv

\* Worker steps that leave the table alone.
LEMMA QuietStepKeepsBase ==
    ASSUME BaseInv, NEW w \in Workers, NEW pc, NEW got, WorkersOK', BatchesOK',
           worker[w].pc # "idle", pc # "idle", Goto(w, pc, got),
           UNCHANGED <<rows, proc, todo, registry, client, told>>
    PROVE  BaseInv'
  <1>1. \A v \in Workers : /\ worker'[v].job = worker[v].job
                           /\ worker'[v].pc # "idle" => worker[v].pc # "idle"
    BY DEF Goto, BaseInv, WorkersOK, WorkerTypes
  <1> QED BY <1>1, WorkerStepKeepsBase

\* Worker steps that issue a conditional update: the statement is one of the
\* table's operations on the worker's own row, and the worker either adopts
\* the row it returns or goes to re-read it.
LEMMA TransitionKeepsBase ==
    ASSUME BaseInv, NEW w \in Workers, worker[w].pc \notin {"idle", "exit"},
           [StoreNext]_rows,
           \A k \in Jobs : k # worker[w].job => rows'[k] = rows[k],
           Adopt(w, rows'[worker[w].job]) \/ Goto(w, "reread", NULL),
           UNCHANGED <<proc, todo, registry, client, batch, told>>
    PROVE  BaseInv'
  <1> DEFINE j == worker[w].job
  <1>1. j \in Jobs /\ rows'[j].status # "absent" /\ GoodRow(rows'[j])
    <2>1. InTable(j)
      BY DEF BaseInv, HeldJobsExist
    <2>2. rows'[j].status # "absent"
      BY <2>1, RowsPersist DEF BaseInv, InTable
    <2>3. StoreInv'
      BY StoreStep DEF BaseInv
    <2> QED BY <2>1, <2>2, <2>3 DEF InTable, StoreInv, RowsTypeOK, RowsDecode, GoodRow
  <1>2. WorkersOK'
    <2>1. CASE Adopt(w, rows'[j])
      BY <1>1, <2>1, AdoptKeepsShape DEF BaseInv
    <2>2. CASE Goto(w, "reread", NULL)
      BY <2>2, GotoKeepsShape DEF BaseInv, WorkerPcs, DbSteps
    <2> QED BY <2>1, <2>2
  <1>3. \A v \in Workers : /\ worker'[v].job = worker[v].job
                           /\ worker'[v].pc # "idle" => worker[v].pc # "idle"
    BY DEF Adopt, Goto, BaseInv, WorkersOK, WorkerTypes
  <1>4. BatchesOK'
    BY DEF BaseInv, BatchesOK
  <1> QED BY <1>2, <1>3, <1>4, WorkerStepKeepsBase

-------------------------------------------------------------------------------
(* The updates the workers issue are operations of JobStore.               *)

\* What the shape of a worker gives at the top of the loop.
LEMMA AtTopShape ==
    ASSUME BaseInv, NEW w \in Workers, NEW s, AtTop(w, s)
    PROVE  worker[w].pc \notin {"idle", "exit"} /\ worker[w].job \in Jobs
  BY DEF AtTop, BaseInv, HeldJobsExist, InTable

\* An UPDATE by a worker is a statement of JobStore on the row of its own job.
LEMMA WorkerUpdates ==
    ASSUME BaseInv, NEW w \in Workers,
           \/ MarkUploaded(w) \/ BeginSubmission(w) \/ MarkSubmitted(w)
           \/ MarkUncertain(w) \/ StoreOutcome(w) \/ StoreFailure(w)
    PROVE  /\ [StoreNext]_rows
           /\ \A k \in Jobs : k # worker[w].job => rows'[k] = rows[k]
           /\ worker[w].pc \notin {"idle", "exit"}
  <1> DEFINE j == worker[w].job
  <1>0. /\ WorkerShape(worker[w])
        /\ worker[w].pc # "idle" => j \in Jobs
        /\ rows \in [Jobs -> RowTypes]
    BY DEF BaseInv, WorkersOK, HeldJobsExist, InTable, StoreInv, RowsTypeOK
  <1>1. CASE MarkUploaded(w)
    <2>1. worker[w].got \in FileIds /\ j \in Jobs
      BY <1>0, <1>1 DEF MarkUploaded, WorkerShape
    <2>2. mark_uploaded(j, worker[w].got) \/ UNCHANGED rows
      BY <1>1 DEF MarkUploaded, Transition
    <2>3. CASE mark_uploaded(j, worker[w].got)
      BY <1>0, <1>1, <2>1, <2>3 DEF StoreNext, mark_uploaded, MarkUploaded
    <2> QED BY <1>1, <2>2, <2>3 DEF MarkUploaded
  <1>2. CASE BeginSubmission(w)
    <2>1. worker[w].pc \notin {"idle", "exit"} /\ j \in Jobs
      BY <1>2, AtTopShape DEF BeginSubmission
    <2>2. begin_submission(j, worker[w].state.file) \/ UNCHANGED rows
      BY <1>2 DEF BeginSubmission
    <2>3. CASE begin_submission(j, worker[w].state.file)
      <3>1. worker[w].state.file \in FileIds
        BY <1>0, <1>2, NullIsNoValue DEF BeginSubmission, AtTop, WorkerShape, WorkerTypes,
           RowTypes, Decodes
      <3> QED BY <1>0, <2>1, <2>3, <3>1 DEF StoreNext, begin_submission
    <2> QED BY <2>1, <2>2, <2>3
  <1>3. CASE MarkSubmitted(w)
    <2> DEFINE e == IF worker[w].pc = "mark_created" THEN "submitting"
                    ELSE worker[w].state.status
    <2>1. /\ worker[w].got \in BatchIds /\ j \in Jobs
          /\ worker[w].pc \notin {"idle", "exit"}
          /\ e \in {"submitting", "submission_uncertain"}
      BY <1>0, <1>3 DEF MarkSubmitted, WorkerShape
    <2>2. mark_submitted(j, e, worker[w].got) \/ UNCHANGED rows
      BY <1>3 DEF MarkSubmitted, Transition
    <2>3. CASE mark_submitted(j, e, worker[w].got)
      <3>1. StoreNext
        BY <2>1, <2>3 DEF StoreNext
      <3> QED BY <1>0, <2>1, <2>3, <3>1 DEF mark_submitted
    <2> QED BY <2>1, <2>2, <2>3
  <1>4. CASE MarkUncertain(w)
    <2>1. worker[w].pc \notin {"idle", "exit"} /\ j \in Jobs
      BY <1>0, <1>4, AtTopShape DEF MarkUncertain
    <2>2. mark_submission_uncertain(j) \/ UNCHANGED rows
      BY <1>4 DEF MarkUncertain, Transition
    <2>3. CASE mark_submission_uncertain(j)
      BY <1>0, <2>1, <2>3 DEF StoreNext, mark_submission_uncertain
    <2> QED BY <2>1, <2>2, <2>3
  <1>5. CASE StoreOutcome(w)
    <2>1. /\ worker[w].got \in Outcomes /\ j \in Jobs
          /\ worker[w].pc \notin {"idle", "exit"}
          /\ worker[w].state.status \in OpenStatuses
      BY <1>0, <1>5 DEF StoreOutcome, WorkerShape
    <2>2. store_outcome(j, worker[w].state.status, worker[w].got) \/ UNCHANGED rows
      BY <1>5 DEF StoreOutcome, Transition
    <2>3. CASE store_outcome(j, worker[w].state.status, worker[w].got)
      BY <1>0, <2>1, <2>3 DEF StoreNext, store_outcome
    <2> QED BY <2>1, <2>2, <2>3
  <1>6. CASE StoreFailure(w)
    <2>1. /\ j \in Jobs /\ worker[w].pc \notin {"idle", "exit"}
          /\ worker[w].state.status \in OpenStatuses
      BY <1>0, <1>6 DEF StoreFailure, WorkerShape
    <2>2. store_outcome(j, worker[w].state.status, FailedByKaiion) \/ UNCHANGED rows
      BY <1>6 DEF StoreFailure, Transition
    <2>3. FailedByKaiion \in Outcomes
      BY DEF FailedByKaiion, Outcomes, OutcomeKinds
    <2>4. CASE store_outcome(j, worker[w].state.status, FailedByKaiion)
      BY <1>0, <2>1, <2>3, <2>4 DEF StoreNext, store_outcome
    <2> QED BY <2>1, <2>2, <2>4
  <1> QED BY <1>1, <1>2, <1>3, <1>4, <1>5, <1>6

-------------------------------------------------------------------------------
(* Every step keeps the base invariant.                                    *)

\* What parse_batch_output makes of a result is an outcome store_outcome accepts.
LEMMA OutcomeOfResult ==
    ASSUME NEW b \in BatchIds, NEW r \in BatchResults, r.output # "malformed"
    PROVE  OutcomeOf(b, r) \in Outcomes
  BY DEF OutcomeOf, BatchResults, Outcomes, OutcomeKinds

\* A worker in the Submitted state knows a batch id.
LEMMA SubmittedHasBatch ==
    ASSUME NEW r, WorkerShape(r), r.state.status = "submitted"
    PROVE  r.state.batch \in BatchIds
  BY NullIsNoValue DEF WorkerShape, WorkerTypes, RowTypes, Decodes

\* Every step of a worker (run, advance, apply_batch_status) keeps the typing.
LEMMA WorkerNextKeepsBase ==
    ASSUME BaseInv, NEW w \in Workers,
           \/ Upload(w) \/ MarkUploaded(w) \/ BeginSubmission(w)
           \/ CreateBatch(w) \/ CreateOk(w) \/ CreateRetryable(w) \/ CreatePermanent(w)
           \/ MarkSubmitted(w) \/ MarkUncertain(w) \/ FindBatch(w)
           \/ GetBatch(w) \/ FetchFile(w) \/ FetchRetryable(w) \/ ProviderPermanent(w)
           \/ StoreOutcome(w) \/ StoreFailure(w) \/ Reread(w) \/ DbError(w) \/ Exit(w)
    PROVE  BaseInv'
  <1>0. /\ WorkersOK /\ BatchesOK
        /\ WorkerShape(worker[w])
        /\ UNCHANGED batch => BatchesOK'
    BY DEF BaseInv, WorkersOK, BatchesOK
  <1> USE DEF WorkerPcs, DbSteps
  <1>1. CASE Upload(w)
    <2>1. PICK f \in FileIds : Goto(w, "mark_uploaded", f)
      BY <1>1 DEF Upload
    <2>2. WorkersOK'
      BY <1>0, <1>1, <2>1, GotoKeepsShape DEF Upload, AtTop
    <2> QED BY <1>0, <1>1, <2>1, <2>2, QuietStepKeepsBase DEF Upload, AtTop
  <1>2. CASE MarkUploaded(w)
    BY <1>2, WorkerUpdates, TransitionKeepsBase DEF MarkUploaded, Transition
  <1>3. CASE BeginSubmission(w)
    <2>1. PICK pc \in {"create", "reread"} : Goto(w, pc, NULL)
      BY <1>3 DEF BeginSubmission
    <2>2. WorkersOK'
      BY <1>0, <1>3, <2>1, GotoKeepsShape DEF BeginSubmission, AtTop
    <2>3. \A v \in Workers : /\ worker'[v].job = worker[v].job
                             /\ worker'[v].pc # "idle" => worker[v].pc # "idle"
      BY <1>0, <1>3, <2>1 DEF Goto, WorkersOK, WorkerTypes, BeginSubmission, AtTop
    <2>4. UNCHANGED <<proc, todo, registry, client, batch, told>>
      BY <1>3 DEF BeginSubmission
    <2> QED BY <1>0, <1>3, <2>2, <2>3, <2>4, WorkerUpdates, WorkerStepKeepsBase
  <1>4. CASE CreateBatch(w)
    <2>1. PICK b \in BatchIds :
              /\ batch[b].phase = "free"
              /\ batch' = [batch EXCEPT ![b].phase = "inflight",
                                        ![b].job = worker[w].job]
              /\ Goto(w, "create_wait", b)
      BY <1>4 DEF CreateBatch
    <2>2. worker[w].job \in Jobs
      BY <1>4 DEF CreateBatch, BaseInv, HeldJobsExist, InTable
    <2>3. BatchesOK'
      BY <1>0, <2>1, <2>2 DEF BatchesOK, BatchTypes, BatchPhases
    <2>4. WorkersOK'
      BY <1>0, <1>4, <2>1, GotoKeepsShape DEF CreateBatch
    <2> QED BY <1>4, <2>1, <2>3, <2>4, QuietStepKeepsBase DEF CreateBatch
  <1>5. CASE CreateOk(w)
    <2>1. WorkersOK'
      BY <1>0, <1>5, GotoKeepsShape DEF CreateOk, WorkerShape
    <2> QED BY <1>0, <1>5, <2>1, QuietStepKeepsBase DEF CreateOk
  <1>6. CASE CreateRetryable(w)
    <2>1. WorkersOK'
      BY <1>0, <1>6, GotoKeepsShape DEF CreateRetryable
    <2> QED BY <1>0, <1>6, <2>1, QuietStepKeepsBase DEF CreateRetryable
  <1>7. CASE CreatePermanent(w)
    <2>1. WorkersOK'
      BY <1>0, <1>7, GotoKeepsShape DEF CreatePermanent
    <2> QED BY <1>0, <1>7, <2>1, QuietStepKeepsBase DEF CreatePermanent
  <1>8. CASE MarkSubmitted(w)
    BY <1>8, WorkerUpdates, TransitionKeepsBase DEF MarkSubmitted, Transition
  <1>9. CASE MarkUncertain(w)
    BY <1>9, WorkerUpdates, TransitionKeepsBase DEF MarkUncertain, Transition
  <1>10. CASE FindBatch(w)
    <2>1. PICK b \in BatchIds : Goto(w, "mark_found", b)
      BY <1>10 DEF FindBatch
    <2>2. WorkersOK'
      BY <1>0, <1>10, <2>1, GotoKeepsShape DEF FindBatch, AtTop
    <2> QED BY <1>0, <1>10, <2>1, <2>2, QuietStepKeepsBase DEF FindBatch, AtTop
  <1>11. CASE GetBatch(w)
    <2> DEFINE b == worker[w].state.batch
               r == batch[b].result
    <2>1. b \in BatchIds /\ r \in BatchResults
      BY <1>0, <1>11, SubmittedHasBatch DEF GetBatch, AtTop, BatchesOK
    <2>2. CASE NeedsFile(r)
      <3>1. Goto(w, "fetch", r)
        BY <1>11, <2>2 DEF GetBatch
      <3>2. WorkersOK'
        BY <1>0, <1>11, <2>1, <3>1, GotoKeepsShape DEF GetBatch, AtTop
      <3> QED BY <1>0, <1>11, <3>1, <3>2, QuietStepKeepsBase DEF GetBatch, AtTop
    <2>3. CASE ~NeedsFile(r) /\ r.status = "completed"
      <3>1. Goto(w, "fail", NULL)
        BY <1>11, <2>3 DEF GetBatch
      <3>2. WorkersOK'
        BY <1>0, <1>11, <3>1, GotoKeepsShape DEF GetBatch, AtTop
      <3> QED BY <1>0, <1>11, <3>1, <3>2, QuietStepKeepsBase DEF GetBatch, AtTop
    <2>4. CASE ~NeedsFile(r) /\ r.status # "completed"
      <3>1. Goto(w, "store", OutcomeOf(b, r))
        BY <1>11, <2>4 DEF GetBatch
      <3>2. OutcomeOf(b, r) \in Outcomes
        BY <2>1, <2>4, OutcomeOfResult DEF NeedsFile
      <3>4. worker[w].pc = "top"
        BY <1>11 DEF GetBatch, AtTop
      <3>3. WorkersOK'
        BY <1>0, <3>1, <3>2, <3>4, GotoKeepsShape
      <3> QED BY <1>0, <1>11, <3>1, <3>3, QuietStepKeepsBase DEF GetBatch, AtTop
    <2> QED BY <2>2, <2>3, <2>4
  <1>12. CASE FetchFile(w)
    <2> DEFINE b == worker[w].state.batch
               r == worker[w].got
    <2>1. b \in BatchIds /\ r \in BatchResults
      BY <1>0, <1>12, SubmittedHasBatch DEF FetchFile, WorkerShape
    <2>2. CASE r.output = "malformed"
      <3>1. Goto(w, "fail", NULL)
        BY <1>12, <2>2 DEF FetchFile
      <3>2. WorkersOK'
        BY <1>0, <1>12, <3>1, GotoKeepsShape DEF FetchFile
      <3> QED BY <1>0, <1>12, <3>1, <3>2, QuietStepKeepsBase DEF FetchFile
    <2>3. CASE r.output # "malformed"
      <3>1. Goto(w, "store", OutcomeOf(b, r))
        BY <1>12, <2>3 DEF FetchFile
      <3>3. OutcomeOf(b, r) \in Outcomes
        BY <2>1, <2>3, OutcomeOfResult
      <3>4. WorkersOK'
        BY <1>0, <1>12, <3>1, <3>3, GotoKeepsShape DEF FetchFile
      <3> QED BY <1>0, <1>12, <3>1, <3>4, QuietStepKeepsBase DEF FetchFile
    <2> QED BY <2>2, <2>3
  <1>13. CASE FetchRetryable(w)
    <2>1. WorkersOK'
      BY <1>0, <1>13, GotoKeepsShape DEF FetchRetryable
    <2> QED BY <1>0, <1>13, <2>1, QuietStepKeepsBase DEF FetchRetryable
  <1>14. CASE ProviderPermanent(w)
    <2>1. worker[w].pc \in {"fetch", "top"}
      BY <1>14 DEF ProviderPermanent, AtTop
    <2>2. WorkersOK'
      BY <1>0, <1>14, <2>1, GotoKeepsShape DEF ProviderPermanent
    <2> QED BY <1>0, <1>14, <2>1, <2>2, QuietStepKeepsBase DEF ProviderPermanent
  <1>15. CASE StoreOutcome(w)
    BY <1>15, WorkerUpdates, TransitionKeepsBase DEF StoreOutcome, Transition
  <1>16. CASE StoreFailure(w)
    BY <1>16, WorkerUpdates, TransitionKeepsBase DEF StoreFailure, Transition
  <1>17. CASE Reread(w)
    BY <1>17, TransitionKeepsBase DEF Reread
  <1>18. CASE DbError(w)
    <2>1. WorkersOK'
      BY <1>0, <1>18, GotoKeepsShape DEF DbError
    <2> QED BY <1>0, <1>18, <2>1, QuietStepKeepsBase DEF DbError
  <1>19. CASE Exit(w)
    <2>1. StoreInv' /\ BatchesOK'
      BY <1>0, <1>19 DEF Exit, BaseInv, StoreInv, RowsTypeOK, RowsDecode
    <2>2. WorkersOK'
      <3>1. worker' = [worker EXCEPT ![w] = IdleWorker]
        BY <1>19 DEF Exit
      <3>2. IdleWorker \in WorkerTypes
        BY IdleShapes DEF WorkerShape
      <3>3. worker' \in [Workers -> WorkerTypes]
        BY <1>0, <3>1, <3>2 DEF WorkersOK
      <3>4. \A v \in Workers : worker'[v] \in {worker[v], IdleWorker}
        BY <1>0, <3>1 DEF WorkersOK
      <3>5. \A v \in Workers : WorkerShape(worker'[v])
        BY <1>0, <3>4, IdleShapes DEF WorkersOK
      <3> QED BY <3>3, <3>5 DEF WorkersOK
    <2>11. /\ client \in [Clients -> ClientTypes] /\ \A c \in Clients : ClientShape(client[c])
           /\ client' = [c \in Clients |->
                  IF client[c].src = w
                  THEN [client[c] EXCEPT !.src = NULL, !.val = worker[w].chan]
                  ELSE client[c]]
      BY <1>19 DEF Exit, BaseInv, ClientsOK
    <2>3. worker[w].chan \in RowTypes /\ Decodes(worker[w].chan)
          /\ worker[w].chan.status # "absent"
      BY <1>0, <1>19 DEF Exit, WorkerShape, WorkerTypes, IsTerminal, OutcomeKinds
    <2>4. ClientsOK'
      <3>1. ASSUME NEW c \in Clients PROVE ClientShape(client'[c])
        <4>1. CASE client[c].src = w
          <5>1. client'[c] = [client[c] EXCEPT !.src = NULL, !.val = worker[w].chan]
            BY <2>11, <4>1
          <5>2. client[c] \in ClientTypes /\ ClientShape(client[c])
            BY <2>11
          <5>3. client'[c] \in ClientTypes /\ client'[c].val = worker[w].chan
            BY <2>3, <5>1, <5>2 DEF ClientTypes
          <5> QED BY <2>3, <5>3 DEF ClientShape
        <4>2. CASE client[c].src # w
          BY <2>11, <4>2
        <4> QED BY <4>1, <4>2
      <3> QED BY <2>11, <3>1 DEF ClientsOK, ClientShape
    <2>5. worker[w].job \in Jobs
      BY <1>19 DEF Exit, BaseInv, HeldJobsExist, InTable
    <2>6. ProcessOK'
      BY <1>19, <2>5 DEF Exit, BaseInv, ProcessOK
    <2>7. \A c \in Clients : client'[c].pc = client[c].pc /\ client'[c].job = client[c].job
      BY <2>11 DEF ClientTypes
    <2>8. \A v \in Workers : worker'[v].pc # "idle" => worker'[v] = worker[v]
      <3>1. worker' = [worker EXCEPT ![w] = IdleWorker] /\ IdleWorker.pc = "idle"
        BY <1>19 DEF Exit, IdleWorker
      <3> QED BY <1>0, <3>1 DEF WorkersOK
    <2>9. UNCHANGED <<rows, proc, todo>> /\ HeldJobsExist
      BY <1>19 DEF Exit, BaseInv
    <2>10. HeldJobsExist'
      BY <2>7, <2>8, <2>9 DEF HeldJobsExist, InTable
    <2> QED BY <2>1, <2>2, <2>4, <2>6, <2>10 DEF BaseInv
  <1> QED BY <1>1, <1>2, <1>3, <1>4, <1>5, <1>6, <1>7, <1>8, <1>9, <1>10, <1>11,
             <1>12, <1>13, <1>14, <1>15, <1>16, <1>17, <1>18, <1>19

\* subscribe: what Attach leaves behind.
LEMMA AttachKeepsWorkers ==
    ASSUME BaseInv, NEW j \in Jobs, NEW snapshot, GoodRow(snapshot),
           snapshot.status \in OpenStatuses, Attach(j, snapshot)
    PROVE  /\ WorkersOK'
           /\ registry' \in [Jobs -> Workers \cup {NULL}]
           /\ \A v \in Workers : worker'[v].pc # "idle" =>
                  worker'[v].job = j \/ worker'[v] = worker[v]
  <1>1. CASE registry[j] # NULL /\ UNCHANGED <<registry, worker>>
    BY <1>1 DEF BaseInv, WorkersOK, ProcessOK
  <1>2. ASSUME NEW w \in Workers, worker[w].pc = "idle",
               registry' = [registry EXCEPT ![j] = w],
               worker' = [worker EXCEPT ![w] =
                     [job |-> j, pc |-> "top", state |-> snapshot,
                      chan |-> snapshot, got |-> NULL]]
        PROVE  /\ WorkersOK'
               /\ registry' \in [Jobs -> Workers \cup {NULL}]
               /\ \A v \in Workers : worker'[v].pc # "idle" =>
                      worker'[v].job = j \/ worker'[v] = worker[v]
    <2> DEFINE new == [job |-> j, pc |-> "top", state |-> snapshot,
                       chan |-> snapshot, got |-> NULL]
    <2>1. WorkerShape(new)
      BY DEF WorkerShape, WorkerTypes, GoodRow, WorkerPcs, DbSteps
    <2>2. WorkersOK'
      BY <1>2, <2>1 DEF BaseInv, WorkersOK, WorkerShape
    <2> QED BY <1>2, <2>2 DEF BaseInv, ProcessOK, WorkersOK
  <1> QED BY <1>1, <1>2 DEF Attach

\* A crash, a restart and resume_from_env keep the typing.
LEMMA ProcessNextKeepsBase ==
    ASSUME BaseInv, ProcessNext
    PROVE  BaseInv'
  <1>1. CASE Start
    <2>1. StoreInv' /\ WorkersOK' /\ ClientsOK' /\ BatchesOK' /\ ProcessOK'
      BY <1>1 DEF Start, BaseInv, StoreInv, RowsTypeOK, RowsDecode, WorkersOK, ClientsOK,
         BatchesOK, ProcessOK
    <2>2. HeldJobsExist'
      BY <1>1, ResumeFromEnvIsFlag DEF Start, BaseInv, HeldJobsExist, InTable
    <2> QED BY <2>1, <2>2 DEF BaseInv
  <1>2. ASSUME NEW j \in Jobs, StartupResume(j) PROVE BaseInv'
    <2>1. GoodRow(rows[j]) /\ rows[j].status \in OpenStatuses
      BY <1>2 DEF StartupResume, BaseInv, HeldJobsExist, StoreInv, RowsTypeOK, RowsDecode,
         GoodRow
    <2>2. /\ WorkersOK'
          /\ registry' \in [Jobs -> Workers \cup {NULL}]
          /\ \A v \in Workers : worker'[v].pc # "idle" =>
                 worker'[v].job = j \/ worker'[v] = worker[v]
      BY <1>2, <2>1, AttachKeepsWorkers DEF StartupResume
    <2>3. StoreInv' /\ ClientsOK' /\ BatchesOK' /\ ProcessOK'
      BY <1>2, <2>2 DEF StartupResume, BaseInv, StoreInv, RowsTypeOK, RowsDecode, ClientsOK,
         BatchesOK, ProcessOK
    <2>4. rows[j].status # "absent"
      BY <2>1 DEF OpenStatuses
    <2>5. HeldJobsExist'
      BY <1>2, <2>2, <2>4 DEF StartupResume, BaseInv, HeldJobsExist, InTable
    <2> QED BY <2>2, <2>3, <2>5 DEF BaseInv
  <1>3. CASE Serve
    BY <1>3 DEF Serve, BaseInv, StoreInv, RowsTypeOK, RowsDecode, WorkersOK, ClientsOK,
       BatchesOK, ProcessOK, HeldJobsExist, InTable
  <1>4. CASE Crash
    <2>1. WorkersOK' /\ ClientsOK'
      BY <1>4, IdleShapes DEF Crash, WorkersOK, ClientsOK, WorkerShape, ClientShape
    <2>2. StoreInv' /\ BatchesOK' /\ ProcessOK'
      BY <1>4 DEF Crash, BaseInv, StoreInv, RowsTypeOK, RowsDecode, BatchesOK, ProcessOK
    <2>3. HeldJobsExist'
      BY <1>4 DEF Crash, HeldJobsExist, IdleWorker, IdleClient
    <2> QED BY <2>1, <2>2, <2>3 DEF BaseInv
  <1> QED BY <1>1, <1>2, <1>3, <1>4 DEF ProcessNext

\* A step of one handler that leaves table, workers and registry alone.
LEMMA HandlerStepKeepsBase ==
    ASSUME BaseInv, NEW c \in Clients, NEW new, ClientShape(new),
           client' = [client EXCEPT ![c] = new],
           new.pc # "idle" => InTable(new.job) /\ proc = "up",
           told' \in [Jobs -> SUBSET Outcomes],
           UNCHANGED <<rows, proc, todo, registry, worker, batch>>
    PROVE  BaseInv'
  <1>1. ClientsOK'
    BY DEF BaseInv, ClientsOK, ClientShape
  <1>2. StoreInv' /\ WorkersOK' /\ BatchesOK' /\ ProcessOK'
    BY DEF BaseInv, StoreInv, RowsTypeOK, RowsDecode, WorkersOK, BatchesOK, ProcessOK
  <1>3. HeldJobsExist'
    BY DEF BaseInv, HeldJobsExist, InTable, ClientsOK
  <1> QED BY <1>1, <1>2, <1>3 DEF BaseInv

\* What the provider does keeps the typing.
LEMMA ProviderNextKeepsBase ==
    ASSUME BaseInv, ProviderNext
    PROVE  BaseInv'
  <1>1. PICK b \in BatchIds : Accept(b) \/ Refuse(b) \/ Enlist(b) \/ End(b)
    BY DEF ProviderNext
  <1>2. BatchesOK'
    <2> USE DEF BaseInv, BatchesOK, BatchTypes, BatchPhases
    <2>1. CASE Accept(b)
      BY <2>1 DEF Accept
    <2>2. CASE Refuse(b)
      BY <2>2 DEF Refuse
    <2>3. CASE Enlist(b)
      BY <2>3 DEF Enlist
    <2>4. CASE End(b)
      <3>1. PICK r \in BatchResults :
                batch' = [batch EXCEPT ![b].phase = "ended", ![b].result = r]
        BY <2>4 DEF End
      <3>2. batch[b].phase # "free" /\ batch[b] \in BatchTypes /\ batch[b].job \in Jobs
        BY <2>4 DEF End
      <3> DEFINE new == [batch[b] EXCEPT !.phase = "ended", !.result = r]
      <3>3. new \in BatchTypes /\ new.job \in Jobs /\ new.result = r
        BY <3>2
      <3>4. batch' = [batch EXCEPT ![b] = new]
        BY <3>1
      <3> HIDE DEF new
      <3> QED BY <3>3, <3>4
    <2> QED BY <1>1, <2>1, <2>2, <2>3, <2>4
  <1>3. UNCHANGED <<rows, proc, todo, registry, worker, client, told>>
    BY <1>1 DEF Accept, Refuse, Enlist, End
  <1> QED BY <1>2, <1>3 DEF BaseInv, StoreInv, RowsTypeOK, RowsDecode, WorkersOK, ClientsOK,
             ProcessOK, HeldJobsExist, InTable

\* Submitting, attaching and receiving (jobs.rs, proxy.rs) keep the typing.
LEMMA ClientNextKeepsBase ==
    ASSUME BaseInv, ClientNext
    PROVE  BaseInv'
  <1>0. /\ told \in [Jobs -> SUBSET Outcomes]
        /\ \A j \in Jobs : GoodRow(rows[j])
        /\ \A c \in Clients : ClientShape(client[c])
        /\ \A c \in Clients : client[c].pc # "idle" => InTable(client[c].job) /\ proc = "up"
        /\ client \in [Clients -> ClientTypes]
    BY DEF BaseInv, ProcessOK, StoreInv, RowsTypeOK, RowsDecode, GoodRow, ClientsOK, HeldJobsExist
  <1>1. ASSUME NEW c \in Clients, NEW j \in Jobs, Enqueue(c, j) PROVE BaseInv'
    <2>1. PICK wants \in BOOLEAN : client' = [client EXCEPT ![c] =
               [IdleClient EXCEPT !.pc = "get", !.job = j, !.wants = wants]]
      BY <1>1 DEF Enqueue
    <2> DEFINE new == [IdleClient EXCEPT !.pc = "get", !.job = j, !.wants = wants]
    <2>2. ClientShape(new) /\ new.job = j
      BY IdleShapes DEF ClientShape, ClientTypes, IdleClient
    <2>3. ClientsOK'
      BY <1>0, <2>1, <2>2 DEF ClientsOK, ClientShape
    <2>4. StoreNext
      BY <1>1 DEF Enqueue, StoreNext
    <2>5. StoreInv'
      BY <2>4, StoreStep DEF BaseInv
    <2>6. WorkersOK' /\ BatchesOK' /\ ProcessOK'
      BY <1>1 DEF Enqueue, BaseInv, WorkersOK, BatchesOK, ProcessOK
    <2>7. \A k \in Jobs : rows[k].status # "absent" => rows'[k].status # "absent"
      BY <2>4, RowsPersist DEF BaseInv
    <2>8. rows'[j].status # "absent"
      BY <1>0, <1>1 DEF Enqueue, enqueue, EmptyRow, BaseInv, StoreInv, RowsTypeOK
    <2>9. proc = "up" /\ todo = {} /\ UNCHANGED <<proc, todo, worker>>
      BY <1>1 DEF Enqueue, BaseInv, HeldJobsExist
    <2>10. \A v \in Clients : client'[v].pc # "idle" =>
               client'[v].job = j \/ client'[v] = client[v]
      BY <1>0, <2>1, <2>2
    <2>11. HeldJobsExist'
      BY <2>7, <2>8, <2>9, <2>10 DEF BaseInv, HeldJobsExist, InTable
    <2> QED BY <2>3, <2>5, <2>6, <2>11 DEF BaseInv
  <1>2. ASSUME NEW c \in Clients, NEW j \in Jobs, Resume(c, j) PROVE BaseInv'
    <2> DEFINE new == [IdleClient EXCEPT !.pc = "subscribe", !.job = j, !.val = rows[j]]
    <2>1. ClientShape(new) /\ InTable(new.job)
      BY <1>0, <1>2, IdleShapes DEF Resume, ClientShape, ClientTypes, IdleClient, GoodRow, InTable
    <2> QED BY <1>0, <1>2, <2>1, HandlerStepKeepsBase DEF Resume
  <1>3. ASSUME NEW c \in Clients, Snapshot(c) PROVE BaseInv'
    <2> DEFINE new == [client[c] EXCEPT !.pc = "subscribe", !.val = rows[client[c].job]]
    <2>1. client' = [client EXCEPT ![c] = new]
      BY <1>0, <1>3 DEF Snapshot, ClientTypes
    <2>2. InTable(client[c].job) /\ proc = "up"
      BY <1>0, <1>3 DEF Snapshot
    <2>3. ClientShape(new) /\ new.job = client[c].job
      BY <1>0, <1>3, <2>2 DEF Snapshot, ClientShape, ClientTypes, GoodRow, InTable
    <2> QED BY <1>0, <1>3, <2>1, <2>2, <2>3, HandlerStepKeepsBase DEF Snapshot
  <1>4. ASSUME NEW c \in Clients, SubscribeDone(c) PROVE BaseInv'
    <2>1. InTable(client[c].job) /\ proc = "up"
      BY <1>0, <1>4 DEF SubscribeDone
    <2>2. CASE client[c].wants
      <3> DEFINE new == [client[c] EXCEPT !.pc = "wait"]
      <3>1. client' = [client EXCEPT ![c] = new]
        BY <1>0, <1>4, <2>2 DEF SubscribeDone, ClientTypes
      <3>2. ClientShape(new) /\ new.job = client[c].job
        BY <1>0, <1>4 DEF SubscribeDone, ClientShape, ClientTypes
      <3> QED BY <1>0, <1>4, <2>1, <2>2, <3>1, <3>2, HandlerStepKeepsBase DEF SubscribeDone
    <2>3. CASE ~client[c].wants
      <3>1. client' = [client EXCEPT ![c] = IdleClient]
        BY <1>4, <2>3 DEF SubscribeDone
      <3>2. client[c].val.outcome \in Outcomes
        BY <1>0, <1>4, NullIsNoValue DEF SubscribeDone, ClientShape, ClientTypes, RowTypes, Decodes
      <3>3. told' \in [Jobs -> SUBSET Outcomes]
        BY <1>0, <1>4, <2>1, <2>3, <3>2 DEF SubscribeDone, InTable
      <3> QED BY <1>4, <3>1, <3>3, IdleShapes, HandlerStepKeepsBase DEF SubscribeDone, IdleClient
    <2> QED BY <2>2, <2>3
  <1>5. ASSUME NEW c \in Clients, SubscribeOpen(c) PROVE BaseInv'
    <2> DEFINE j == client[c].job
    <2>1. InTable(j) /\ proc = "up"
      BY <1>0, <1>5 DEF SubscribeOpen
    <2>2. GoodRow(client[c].val) /\ client[c].val.status \in OpenStatuses
      BY <1>0, <1>5 DEF SubscribeOpen, ClientShape, ClientTypes, GoodRow, RowTypes, IsTerminal
    <2>3. /\ WorkersOK'
          /\ registry' \in [Jobs -> Workers \cup {NULL}]
          /\ \A v \in Workers : worker'[v].pc # "idle" =>
                 worker'[v].job = j \/ worker'[v] = worker[v]
      BY <1>5, <2>1, <2>2, AttachKeepsWorkers DEF SubscribeOpen, InTable
    <2> DEFINE new == IF client[c].wants
                      THEN [client[c] EXCEPT !.pc = "wait", !.src = registry'[j]]
                      ELSE IdleClient
    <2>4. client' = [client EXCEPT ![c] = new]
      BY <1>5 DEF SubscribeOpen
    <2>5. registry'[j] \in Workers \cup {NULL}
      BY <2>1, <2>3 DEF InTable
    <2>6. ClientShape(new) /\ (new.pc # "idle" => new.job = j)
      BY <1>0, <1>5, <2>5, IdleShapes DEF SubscribeOpen, ClientShape, ClientTypes, IdleClient
    <2>7. ClientsOK'
      BY <1>0, <2>4, <2>6 DEF ClientsOK, ClientShape
    <2>8. StoreInv' /\ BatchesOK' /\ ProcessOK'
      BY <1>5, <2>3 DEF SubscribeOpen, BaseInv, StoreInv, RowsTypeOK, RowsDecode, BatchesOK,
         ProcessOK
    <2>9. todo = {} /\ UNCHANGED <<rows, proc, todo>>
      BY <1>5, <2>1 DEF SubscribeOpen, BaseInv, HeldJobsExist
    <2>10. \A v \in Clients : client'[v].pc # "idle" =>
               client'[v].job = j \/ client'[v] = client[v]
      BY <1>0, <2>4, <2>6
    <2>11. HeldJobsExist'
      BY <2>1, <2>3, <2>9, <2>10 DEF BaseInv, HeldJobsExist, InTable
    <2> QED BY <2>3, <2>7, <2>8, <2>11 DEF BaseInv
  <1>6. ASSUME NEW c \in Clients, Answer(c) PROVE BaseInv'
    <2>1. Seen(c) \in RowTypes /\ Decodes(Seen(c))
      BY <1>0, <1>6 DEF Seen, BaseInv, WorkersOK, WorkerShape, WorkerTypes, ClientShape, ClientTypes
    <2>2. IsTerminal(Seen(c)) => Seen(c).outcome \in Outcomes
      BY <2>1, NullIsNoValue DEF RowTypes, Decodes
    <2>3. client[c].job \in Jobs
      BY <1>0, <1>6 DEF Answer, InTable
    <2>4. told' \in [Jobs -> SUBSET Outcomes]
      BY <1>0, <1>6, <2>2, <2>3 DEF Answer
    <2> QED BY <1>6, <2>4, IdleShapes, HandlerStepKeepsBase DEF Answer, IdleClient
  <1>7. ASSUME NEW c \in Clients, Disconnect(c) PROVE BaseInv'
    BY <1>0, <1>7, IdleShapes, HandlerStepKeepsBase DEF Disconnect, IdleClient
  <1>8. ASSUME NEW j \in Jobs, GetJob(j) PROVE BaseInv'
    <2>1. rows[j].outcome \in Outcomes
      BY <1>0, <1>8, NullIsNoValue DEF GetJob, GoodRow, RowTypes, Decodes
    <2>2. ProcessOK'
      BY <1>8, <2>1 DEF GetJob, BaseInv, ProcessOK
    <2> QED BY <1>8, <2>2 DEF GetJob, BaseInv, StoreInv, RowsTypeOK, RowsDecode, WorkersOK,
               ClientsOK, BatchesOK, HeldJobsExist, InTable
  <1> QED BY <1>1, <1>2, <1>3, <1>4, <1>5, <1>6, <1>7, <1>8 DEF ClientNext

\* The typing invariant is inductive.
LEMMA BaseStep == BaseInv /\ [Next]_vars => BaseInv'
  <1> SUFFICES ASSUME BaseInv, [Next]_vars PROVE BaseInv'
    OBVIOUS
  <1>1. CASE UNCHANGED vars
    BY <1>1 DEF vars, BaseInv, StoreInv, RowsTypeOK, RowsDecode, WorkersOK, ClientsOK, BatchesOK,
       ProcessOK, HeldJobsExist, InTable
  <1>2. CASE WorkerNext
    BY <1>2, WorkerNextKeepsBase DEF WorkerNext
  <1> QED BY <1>1, <1>2, ProcessNextKeepsBase, ClientNextKeepsBase, ProviderNextKeepsBase DEF Next

\* Types: every variable, and every field of every worker, handler and batch,
\* keeps its type in every behaviour.
THEOREM TypeCorrect == Spec => []TypeOK
  <1>1. BaseInv => TypeOK
    BY DEF BaseInv, TypeOK, StoreInv, WorkersOK, ClientsOK, BatchesOK, ProcessOK, WorkerTypes,
       ClientTypes, BatchTypes
  <1> QED BY <1>1, BaseInit, BaseStep, PTL DEF Spec

-------------------------------------------------------------------------------
(* The batch path uses the table only through its operations.              *)

\* Every step of the driver changes the table by a JobStore statement or not at all.
LEMMA StepsAreTableSteps ==
    ASSUME BaseInv, [Next]_vars
    PROVE  [StoreNext]_rows
  <1>1. CASE UNCHANGED vars
    BY <1>1 DEF vars
  <1>2. CASE ProcessNext
    BY <1>2 DEF ProcessNext, Start, StartupResume, Serve, Crash
  <1>3. CASE ProviderNext
    BY <1>3 DEF ProviderNext, Accept, Refuse, Enlist, End
  <1>4. CASE ClientNext
    <2>1. ASSUME NEW c \in Clients, NEW j \in Jobs, Enqueue(c, j) PROVE [StoreNext]_rows
      BY <2>1 DEF Enqueue, StoreNext
    <2>2. CASE UNCHANGED rows
      BY <2>2
    <2> QED BY <1>4, <2>1, <2>2 DEF ClientNext, Resume, Snapshot, SubscribeDone, SubscribeOpen,
               Answer, Disconnect, GetJob
  <1>5. ASSUME NEW w \in Workers,
               \/ MarkUploaded(w) \/ BeginSubmission(w) \/ MarkSubmitted(w)
               \/ MarkUncertain(w) \/ StoreOutcome(w) \/ StoreFailure(w)
        PROVE  [StoreNext]_rows
    BY <1>5, WorkerUpdates
  <1>6. ASSUME NEW w \in Workers,
               \/ Upload(w) \/ CreateBatch(w) \/ CreateOk(w) \/ CreateRetryable(w)
               \/ CreatePermanent(w) \/ FindBatch(w) \/ GetBatch(w) \/ FetchFile(w)
               \/ FetchRetryable(w) \/ ProviderPermanent(w) \/ Reread(w) \/ DbError(w)
               \/ Exit(w)
        PROVE  UNCHANGED rows
    BY <1>6 DEF Upload, CreateBatch, CreateOk, CreateRetryable, CreatePermanent, FindBatch,
       GetBatch, FetchFile, FetchRetryable, ProviderPermanent, Reread, DbError, Exit
  <1>7. CASE WorkerNext
    BY <1>5, <1>6, <1>7 DEF WorkerNext
  <1> QED BY <1>1, <1>2, <1>3, <1>4, <1>7 DEF Next

\* The workers, handlers and restarts together are callers the table allows
\* for, so all it promises holds for them.
THEOREM DriverUsesTable == Spec => StoreSpec
  <1>1. Init => StoreInit
    BY DEF Init
  <1>2. BaseInv /\ [Next]_vars => [StoreNext]_rows
    BY StepsAreTableSteps
  <1> QED BY <1>1, <1>2, BaseInit, BaseStep, PTL DEF Spec, StoreSpec

\* Over crashes, stale snapshots and lost replies, rows only move forward and a
\* stored outcome is final.
THEOREM DriverRowsOnlyAdvance == Spec => RowsOnlyAdvance
  BY DriverUsesTable, TableOnlyAdvances, PTL

-------------------------------------------------------------------------------
(* At most one create request.                                             *)

Early == {"absent", "queued", "uploaded"}

SentFor(j) == \E b \in BatchIds : batch[b].phase # "free" /\ batch[b].job = j

\* A job has sent nothing while its row is early; a worker about to send (pc
\* "create") has won begin_submission, is the only one for its job, and
\* nothing has been sent for it yet.  The uniqueness rests on the WHERE clause
\* of begin_submission alone, not on there being one worker.
CreateInv ==
    /\ \A j \in Jobs : SentFor(j) => rows[j].status \notin Early
    /\ \A w \in Workers : worker[w].pc = "create" =>
           rows[worker[w].job].status \notin Early /\ ~SentFor(worker[w].job)
    /\ \A v, w \in Workers : worker[v].pc = "create" /\ worker[w].pc = "create"
           /\ worker[v].job = worker[w].job => v = w
    /\ AtMostOneCreate

\* A row is past Queued and Uploaded exactly when its rank says so.
LEMMA EarlyByRank ==
    ASSUME NEW row \in RowTypes
    PROVE  row.status \notin Early <=> Rank(row.status) >= 3
  BY DEF RowTypes, OpenStatuses, OutcomeKinds, Early, Rank

\* A row that has left Queued and Uploaded never returns to them.
LEMMA NotEarlyPersists ==
    ASSUME StoreInv, [StoreNext]_rows, NEW j \in Jobs, rows[j].status \notin Early
    PROVE  rows'[j].status \notin Early
  <1>1. StoreInv'
    BY StoreStep
  <1>2. rows[j] \in RowTypes /\ rows'[j] \in RowTypes
    BY <1>1 DEF StoreInv, RowsTypeOK
  <1>3. CASE rows'[j] = rows[j]
    BY <1>3
  <1>4. CASE rows'[j] # rows[j]
    <2>1. Rank(rows[j].status) < Rank(rows'[j].status)
      BY <1>4, StepsAdvance
    <2>2. Rank(rows[j].status) >= 3 /\ Rank(rows[j].status) \in Nat /\ Rank(rows'[j].status) \in Nat
      BY <1>2, EarlyByRank DEF Rank
    <2>3. Rank(rows'[j].status) >= 3
      BY <2>1, <2>2
    <2> QED BY <1>2, <2>3, EarlyByRank
  <1> QED BY <1>3, <1>4

\* Steps that send nothing and bring no worker to "create".
LEMMA OtherStepsKeepCreate ==
    ASSUME BaseInv, CreateInv, [Next]_vars,
           \A w \in Workers : worker'[w].pc = "create" => worker'[w] = worker[w],
           \A b \in BatchIds : /\ batch'[b].phase # "free" => batch[b].phase # "free"
                               /\ batch'[b].job = batch[b].job
    PROVE  CreateInv'
  <1>1. \A j \in Jobs : rows[j].status \notin Early => rows'[j].status \notin Early
    BY StepsAreTableSteps, NotEarlyPersists DEF BaseInv
  <1>2. \A j : SentFor(j)' => SentFor(j)
    BY DEF SentFor
  <1>3. \A w \in Workers : worker[w].pc = "create" => worker[w].job \in Jobs
    BY DEF BaseInv, HeldJobsExist, InTable
  <1>4. \A j \in Jobs : SentFor(j)' => rows'[j].status \notin Early
    BY <1>1, <1>2 DEF CreateInv
  <1>5. \A w \in Workers : worker'[w].pc = "create" =>
            /\ rows'[worker'[w].job].status \notin Early
            /\ \A b \in BatchIds :
                   ~(batch'[b].phase # "free" /\ batch'[b].job = worker'[w].job)
    BY <1>1, <1>3 DEF CreateInv, SentFor
  <1>6. AtMostOneCreate'
    BY DEF CreateInv, AtMostOneCreate
  <1>7. \A v, w \in Workers : worker'[v].pc = "create" /\ worker'[w].pc = "create"
            /\ worker'[v].job = worker'[w].job => v = w
    BY DEF CreateInv
  <1> QED BY <1>4, <1>5, <1>6, <1>7 DEF CreateInv, SentFor

\* begin_submission lets at most one worker into the state that creates a batch.
LEMMA BeginKeepsCreate ==
    ASSUME BaseInv, CreateInv, NEW w \in Workers, BeginSubmission(w)
    PROVE  CreateInv'
  <1> DEFINE j == worker[w].job
             f == worker[w].state.file
  <1>0. [Next]_vars /\ worker \in [Workers -> WorkerTypes] /\ rows \in [Jobs -> RowTypes]
    BY DEF Next, WorkerNext, BaseInv, WorkersOK, StoreInv, RowsTypeOK
  <1>1. CASE Goto(w, "reread", NULL)
    <2>1. \A v \in Workers : worker'[v].pc = "create" => worker'[v] = worker[v]
      BY <1>0, <1>1 DEF Goto, WorkerTypes
    <2> QED BY <1>0, <2>1, OtherStepsKeepCreate DEF BeginSubmission
  <1>2. CASE begin_submission(j, f) /\ Goto(w, "create", NULL)
    <2>1. j \in Jobs
      BY AtTopShape DEF BeginSubmission
    <2>2. rows[j].status = "uploaded" /\ rows'[j].status = "submitting"
      BY <1>0, <1>2, <2>1 DEF begin_submission, MayBeginSubmission, SubmittingRow, RowTypes
    <2>3. ~SentFor(j) /\ \A v \in Workers : worker[v].pc = "create" => worker[v].job # j
      BY <2>1, <2>2 DEF CreateInv, Early
    <2>4. \A k \in Jobs : rows[k].status \notin Early => rows'[k].status \notin Early
      BY <1>0, StepsAreTableSteps, NotEarlyPersists DEF BaseInv
    <2>5. UNCHANGED batch
      BY DEF BeginSubmission
    <2>6. /\ worker'[w].pc = "create" /\ worker'[w].job = j
          /\ \A v \in Workers : v # w => worker'[v] = worker[v]
      BY <1>0, <1>2 DEF Goto, WorkerTypes
    <2>7. \A v \in Workers : worker[v].pc = "create" => worker[v].job \in Jobs
      BY DEF BaseInv, HeldJobsExist, InTable
    <2>8. \A k \in Jobs : SentFor(k)' => rows'[k].status \notin Early
      BY <2>4, <2>5 DEF CreateInv, SentFor
    <2>9. \A v \in Workers : worker'[v].pc = "create" =>
              /\ rows'[worker'[v].job].status \notin Early
              /\ \A b \in BatchIds :
                     ~(batch'[b].phase # "free" /\ batch'[b].job = worker'[v].job)
      BY <2>2, <2>3, <2>4, <2>5, <2>6, <2>7 DEF CreateInv, SentFor, Early
    <2>10. \A u, v \in Workers : worker'[u].pc = "create" /\ worker'[v].pc = "create"
               /\ worker'[u].job = worker'[v].job => u = v
      BY <2>3, <2>6 DEF CreateInv
    <2>11. AtMostOneCreate'
      BY <2>5 DEF CreateInv, AtMostOneCreate
    <2> QED BY <2>8, <2>9, <2>10, <2>11 DEF CreateInv, SentFor
  <1> QED BY <1>1, <1>2 DEF BeginSubmission

\* Sending the create request keeps the count of creates at most one.
LEMMA SendKeepsCreate ==
    ASSUME BaseInv, CreateInv, NEW w \in Workers, CreateBatch(w)
    PROVE  CreateInv'
  <1> DEFINE j == worker[w].job
  <1>0. /\ worker \in [Workers -> WorkerTypes] /\ batch \in [BatchIds -> BatchTypes]
        /\ UNCHANGED rows
    BY DEF BaseInv, WorkersOK, BatchesOK, CreateBatch
  <1>1. PICK b \in BatchIds :
            /\ batch[b].phase = "free"
            /\ batch' = [batch EXCEPT ![b].phase = "inflight", ![b].job = j]
            /\ Goto(w, "create_wait", b)
    BY DEF CreateBatch
  <1>2. /\ batch'[b].phase # "free" /\ batch'[b].job = j
        /\ \A a \in BatchIds : a # b => batch'[a] = batch[a]
    BY <1>0, <1>1 DEF BatchTypes
  <1>3. /\ worker'[w].pc # "create"
        /\ \A v \in Workers : v # w => worker'[v] = worker[v]
    BY <1>0, <1>1 DEF Goto, WorkerTypes
  <1>4. rows[j].status \notin Early /\ ~SentFor(j)
    BY DEF CreateBatch, CreateInv
  <1>5. \A v \in Workers : v # w /\ worker[v].pc = "create" => worker[v].job # j
    BY DEF CreateBatch, CreateInv
  <1>6. \A k \in Jobs : SentFor(k)' => rows'[k].status \notin Early
    BY <1>0, <1>2, <1>4 DEF CreateInv, SentFor
  <1>7. \A v \in Workers : worker'[v].pc = "create" =>
            /\ rows'[worker'[v].job].status \notin Early
            /\ \A a \in BatchIds :
                   ~(batch'[a].phase # "free" /\ batch'[a].job = worker'[v].job)
    BY <1>0, <1>2, <1>3, <1>5 DEF CreateInv, SentFor
  <1>8. \A u, v \in Workers : worker'[u].pc = "create" /\ worker'[v].pc = "create"
            /\ worker'[u].job = worker'[v].job => u = v
    BY <1>3 DEF CreateInv
  <1>9. AtMostOneCreate'
    BY <1>2, <1>4 DEF CreateInv, AtMostOneCreate, SentFor
  <1> QED BY <1>6, <1>7, <1>8, <1>9 DEF CreateInv, SentFor

\* The invariant about batch creation is inductive.
LEMMA CreateStep == BaseInv /\ CreateInv /\ [Next]_vars => CreateInv'
  <1> SUFFICES ASSUME BaseInv, CreateInv, [Next]_vars PROVE CreateInv'
    OBVIOUS
  <1>0. worker \in [Workers -> WorkerTypes] /\ batch \in [BatchIds -> BatchTypes]
    BY DEF BaseInv, WorkersOK, BatchesOK
  <1>1. CASE UNCHANGED vars
    BY <1>1, OtherStepsKeepCreate DEF vars
  <1>2. CASE ProcessNext \/ ClientNext
    <2>1. UNCHANGED batch
      BY <1>2 DEF ProcessNext, Start, StartupResume, Serve, Crash, ClientNext, Enqueue, Resume,
         Snapshot, SubscribeDone, SubscribeOpen, Answer, Disconnect, GetJob
    <2>2. ASSUME NEW j, NEW snapshot, Attach(j, snapshot)
          PROVE  \A w \in Workers : worker'[w].pc = "create" => worker'[w] = worker[w]
      BY <1>0, <2>2 DEF Attach
    <2>3. CASE Crash
      BY <2>1, <2>3, OtherStepsKeepCreate DEF Crash, IdleWorker
    <2>4. CASE \/ \E j \in Jobs : StartupResume(j)
               \/ \E c \in Clients : SubscribeOpen(c)
      BY <2>1, <2>2, <2>4, OtherStepsKeepCreate DEF StartupResume, SubscribeOpen
    <2>5. CASE UNCHANGED worker
      BY <2>1, <2>5, OtherStepsKeepCreate
    <2> QED BY <1>2, <2>3, <2>4, <2>5 DEF ProcessNext, Start, Serve, ClientNext, Enqueue, Resume,
               Snapshot, SubscribeDone, Answer, Disconnect, GetJob
  <1>3. CASE ProviderNext
    <2>1. PICK b \in BatchIds : Accept(b) \/ Refuse(b) \/ Enlist(b) \/ End(b)
      BY <1>3 DEF ProviderNext
    <2>2. UNCHANGED worker
      BY <2>1 DEF Accept, Refuse, Enlist, End
    <2>3. \A a \in BatchIds : /\ batch'[a].phase # "free" => batch[a].phase # "free"
                              /\ batch'[a].job = batch[a].job
      <3>1. CASE Accept(b)
        BY <1>0, <3>1 DEF Accept, BatchTypes
      <3>2. CASE Refuse(b)
        BY <1>0, <3>2 DEF Refuse, BatchTypes
      <3>3. CASE Enlist(b)
        BY <1>0, <3>3 DEF Enlist, BatchTypes
      <3>4. CASE End(b)
        BY <1>0, <3>4 DEF End, BatchTypes
      <3> QED BY <2>1, <3>1, <3>2, <3>3, <3>4
    <2> QED BY <2>2, <2>3, OtherStepsKeepCreate
  <1>4. ASSUME NEW w \in Workers, NEW pc, NEW got, pc # "create", Goto(w, pc, got),
               UNCHANGED batch
        PROVE  CreateInv'
    <2>1. \A v \in Workers : worker'[v].pc = "create" => worker'[v] = worker[v]
      BY <1>0, <1>4 DEF Goto, WorkerTypes
    <2> QED BY <1>4, <2>1, OtherStepsKeepCreate
  <1>5. ASSUME NEW w \in Workers, NEW state, Adopt(w, state), UNCHANGED batch
        PROVE  CreateInv'
    <2>1. \A v \in Workers : worker'[v].pc = "create" => worker'[v] = worker[v]
      BY <1>0, <1>5 DEF Adopt, WorkerTypes
    <2> QED BY <1>5, <2>1, OtherStepsKeepCreate
  <1>6. CASE WorkerNext
    <2>1. PICK w \in Workers :
            \/ Upload(w) \/ MarkUploaded(w) \/ BeginSubmission(w)
            \/ CreateBatch(w) \/ CreateOk(w) \/ CreateRetryable(w) \/ CreatePermanent(w)
            \/ MarkSubmitted(w) \/ MarkUncertain(w) \/ FindBatch(w)
            \/ GetBatch(w) \/ FetchFile(w) \/ FetchRetryable(w) \/ ProviderPermanent(w)
            \/ StoreOutcome(w) \/ StoreFailure(w) \/ Reread(w) \/ DbError(w) \/ Exit(w)
      BY <1>6 DEF WorkerNext
    <2>2. CASE BeginSubmission(w)
      BY <2>2, BeginKeepsCreate
    <2>3. CASE CreateBatch(w)
      BY <2>3, SendKeepsCreate
    <2>4. CASE \/ MarkUploaded(w) \/ MarkSubmitted(w) \/ MarkUncertain(w)
               \/ StoreOutcome(w) \/ StoreFailure(w) \/ Reread(w)
      <3>1. UNCHANGED batch
        BY <2>4 DEF MarkUploaded, MarkSubmitted, MarkUncertain, StoreOutcome, StoreFailure, Reread
      <3>2. \/ Goto(w, "reread", NULL) \/ Adopt(w, rows'[worker[w].job])
            \/ Adopt(w, rows[worker[w].job])
        BY <2>4 DEF MarkUploaded, MarkSubmitted, MarkUncertain, StoreOutcome, StoreFailure, Reread,
           Transition
      <3> QED BY <1>4, <1>5, <3>1, <3>2
    <2>5. CASE Upload(w) \/ FindBatch(w)
      BY <1>4, <2>5 DEF Upload, FindBatch
    <2>6. CASE CreateOk(w) \/ CreateRetryable(w) \/ CreatePermanent(w)
      BY <1>4, <2>6 DEF CreateOk, CreateRetryable, CreatePermanent
    <2>7. CASE GetBatch(w)
      BY <1>4, <2>7 DEF GetBatch
    <2>8. CASE FetchFile(w)
      BY <1>4, <2>8 DEF FetchFile
    <2>9. CASE FetchRetryable(w) \/ ProviderPermanent(w) \/ DbError(w)
      BY <1>4, <2>9 DEF FetchRetryable, ProviderPermanent, DbError
    <2>10. CASE Exit(w)
      <3>1. \A v \in Workers : worker'[v].pc = "create" => worker'[v] = worker[v]
        BY <1>0, <2>10 DEF Exit, IdleWorker
      <3> QED BY <2>10, <3>1, OtherStepsKeepCreate DEF Exit
    <2> QED BY <2>1, <2>2, <2>3, <2>4, <2>5, <2>6, <2>7, <2>8, <2>9, <2>10
  <1> QED BY <1>1, <1>2, <1>3, <1>6 DEF Next

\* No batch has been created when the process first starts.
LEMMA CreateInit == Init => CreateInv
  BY DEF Init, CreateInv, SentFor, AtMostOneCreate, FreeBatch, IdleWorker

\* At-most-once cost, for any number of jobs, workers and clients: over every
\* crash, restart, lost or late reply, stale snapshot and SQLite error, at most
\* one create request is ever sent for a job.
THEOREM AtMostOnce == Spec => []AtMostOneCreate
  <1>1. CreateInv => AtMostOneCreate
    BY DEF CreateInv
  <1> QED BY <1>1, BaseInit, BaseStep, CreateInit, CreateStep, PTL DEF Spec

\* A create request is sent only for a job whose row already says submitting
\* or later, so a restart can always tell that the provider may hold a batch.
THEOREM CreateOnRecord == Spec => []CreateIsOnRecord
  <1>1. BaseInv /\ CreateInv => CreateIsOnRecord
    BY EarlyByRank DEF BaseInv, StoreInv, RowsTypeOK, BatchesOK, CreateInv, SentFor,
       CreateIsOnRecord
  <1> QED BY <1>1, BaseInit, BaseStep, CreateInit, CreateStep, PTL DEF Spec

===============================================================================
