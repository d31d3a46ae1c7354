----------------------------- MODULE LiveRequests -----------------------------
(***************************************************************************)
(* POST /v1/responses end to end, with a scheduling policy (proxy.rs): a   *)
(* request is routed to Batch or to the live path; the live path asks the  *)
(* scheduler for a permit, sends, retries what is safe to retry within one *)
(* deadline, and may still fall back to Batch.                             *)
(*                                                                         *)
(* The scheduler is Permits, which Scheduler implements: each attempt of a *)
(* client is one call of acquire.  What preview recommends is any answer,  *)
(* where the request allows one; so is what the provider does.             *)
(*                                                                         *)
(* Every await is a step boundary, and a client may vanish at each (the    *)
(* handler's future is dropped).  Time is the age of each request.         *)
(***************************************************************************)
EXTENDS RequestIdentity, Naturals, FiniteSets

CONSTANTS
    Clients,      \* requests being handled
    Workloads,    \* what they may ask for: functions from Clients to requests
    Legacy,       \* jobs stored before job_requests existed
    MaxRetries,   \* policy.max_retries
    MaxWait,      \* policy.max_wait, in ticks
    MaxAge,       \* bound: where the clock of a request stops, past MaxWait
    RetryAfters,  \* Retry-After values of the provider, in ticks
    Legal         \* the sets of calls the limits allow to be live together

Attempts == 0..MaxRetries

Calls == Clients \X Attempts

ASSUME WaitsAreNumbers ==
    MaxRetries \in Nat /\ MaxWait \in Nat \ {0} /\ MaxAge \in Nat /\ RetryAfters \subseteq Nat

ASSUME NullIsNoAnswer == NULL \notin {"batch", "live", "unavailable", "conflict", "error"}

VARIABLES
    stage, slots,  \* the scheduler, see Permits
    req,           \* what each client asks for
    pc,            \* where its handler is
    attempt,       \* attempt
    age,           \* ticks since the retry loop began
    deadline,      \* deadline, on that scale
    pause,         \* upstream_retry_after; in acquire, the end of its sleep
    ending,        \* how the permit is given back, and what comes then
    fate,          \* history: what became of each call at the provider
    ledger,        \* what the scheduler's usage event of the call says
    jobs,          \* table jobs
    job_requests,  \* table job_requests
    met,           \* history: what the tables held when the request came
    answer         \* what the client was told

scheduler == <<stage, slots>>
database == <<jobs, job_requests>>
loop == <<attempt, age, deadline, pause, ending>>
calls == <<fate, ledger>>
vars == <<scheduler, req, pc, loop, calls, database, met, answer>>

L == INSTANCE Permits

-------------------------------------------------------------------------------

Call(c) == <<c, attempt[c]>>

\* The call may have run at the provider, and been charged.
RanFates == {"sent", "server_error", "lost", "ok"}

MayHaveRun(k) == fate[k] \in RanFates

Fates == RanFates \cup {"none", "refused", "limited"}

LedgerValues == {"none", "estimate", "zero", "actual"}

Pcs == {"new", "check", "find", "preview", "top", "waiting", "sending", "ending",
        "body", "enqueue", "done", "gone"}

Endings == [how : {"abort", "estimate", "zero", "actual"}, next : {"top", "enqueue", "done"}]

Answers == {NULL, "batch", "live", "unavailable", "conflict", "error"}

\* allow_batch_fallback
Fallback(c) == req[c].mode = "auto" /\ batch_supported(req[c])

Remaining(c) == IF age[c] < deadline[c] THEN deadline[c] - age[c] ELSE 0

Goto(c, there) == pc' = [pc EXCEPT ![c] = there]

\* The handler's locals go with it.
Forget(c) ==
    /\ attempt' = [attempt EXCEPT ![c] = 0] /\ age' = [age EXCEPT ![c] = 0]
    /\ deadline' = [deadline EXCEPT ![c] = 0] /\ pause' = [pause EXCEPT ![c] = 0]
    /\ ending' = [ending EXCEPT ![c] = NULL]

Reply(c, what) == Goto(c, "done") /\ answer' = [answer EXCEPT ![c] = what] /\ Forget(c)

\* batch_response takes over from the retry loop.
GoBatch(c) == Goto(c, "enqueue") /\ UNCHANGED answer /\ Forget(c)

\* ScheduledDirect::Batch if preview finds a reason, otherwise Unavailable.
BatchOrUnavailable(c) ==
    \/ Fallback(c) /\ GoBatch(c)
    \/ Reply(c, "unavailable")

KeyOwners(c) == {r.job : r \in {r \in job_requests :
                    r.key # NoHash /\ r.job.auth = req[c].auth
                                 /\ r.key = idempotency_hash(req[c])}}

\* The key of the request belongs to a job, and to another one.
KeyTaken(c) == KeyOwners(c) \ {JobOf(req[c])} # {}

Init ==
    /\ L!Init
    /\ req \in Workloads
    /\ pc = [c \in Clients |-> "new"]
    /\ attempt = [c \in Clients |-> 0] /\ age = [c \in Clients |-> 0]
    /\ deadline = [c \in Clients |-> 0] /\ pause = [c \in Clients |-> 0]
    /\ ending = [c \in Clients |-> NULL]
    /\ fate = [k \in Calls |-> "none"] /\ ledger = [k \in Calls |-> "none"]
    /\ jobs \in SUBSET Legacy /\ job_requests = {}
    /\ met = [c \in Clients |-> "nothing"]
    /\ answer = [c \in Clients |-> NULL]

-------------------------------------------------------------------------------
(* Routing (responses, route).                                             *)

Met(c) == IF KeyTaken(c) THEN "key taken"
          ELSE IF JobOf(req[c]) \in jobs THEN "job" ELSE "nothing"

Arrive(c) ==
    /\ pc[c] = "new"
    /\ met' = [met EXCEPT ![c] = Met(c)]
    /\ \/ req[c].mode = "auto" /\ batch_supported(req[c]) /\ Goto(c, "check")
       \/ req[c].mode = "auto" /\ ~batch_supported(req[c]) /\ Goto(c, "preview")
       \/ req[c].mode = "direct" /\ Goto(c, "preview")
       \/ req[c].mode = "batch" /\ Goto(c, "enqueue")
    /\ UNCHANGED <<scheduler, req, loop, calls, database, answer>>

\* Slip in CheckKey: the check is left to enqueue.
CheckNothing(c) ==
    /\ pc[c] = "check"
    /\ Goto(c, "find") /\ UNCHANGED answer
    /\ UNCHANGED <<scheduler, req, loop, calls, database, met>>

\* check_idempotency
CheckKey(c) ==
    /\ pc[c] = "check"
    /\ IF KeyTaken(c) THEN Reply(c, "conflict")
       ELSE Goto(c, "find") /\ UNCHANGED <<answer, loop>>
    /\ UNCHANGED <<scheduler, req, calls, database, met>>

\* Slip in Find: the policy decides, whatever is stored.
FindByPolicy(c) ==
    /\ pc[c] = "find"
    /\ Goto(c, IF req[c].policy = "batch" THEN "enqueue" ELSE "preview")
    /\ UNCHANGED <<scheduler, req, loop, calls, database, met, answer>>

\* Database::find, then the routing policy.
Find(c) ==
    /\ pc[c] = "find"
    /\ Goto(c, IF JobOf(req[c]) \in jobs \/ req[c].policy = "batch" THEN "enqueue"
               ELSE "preview")
    /\ UNCHANGED <<scheduler, req, loop, calls, database, met, answer>>

\* Slip in Enqueue: the job of a request whose key has another owner stays.
EnqueueAndKeep(c) ==
    /\ pc[c] = "enqueue"
    /\ jobs' = jobs \cup {JobOf(req[c])}
    /\ \/ /\ KeyTaken(c)
          /\ Reply(c, "conflict") /\ UNCHANGED job_requests
       \/ /\ ~KeyTaken(c)
          /\ job_requests' = job_requests \cup {[job |-> JobOf(req[c]),
                                                 key |-> idempotency_hash(req[c])]}
          /\ Reply(c, "batch")
    /\ UNCHANGED <<scheduler, req, calls, met>>

\* batch_response up to the durable job: Database::enqueue is one transaction,
\* rolled back if the key has another owner.  BatchDriver has what follows.
Enqueue(c) ==
    /\ pc[c] = "enqueue"
    /\ \/ /\ ~batch_supported(req[c])
          /\ Reply(c, "error") /\ UNCHANGED database
       \/ /\ batch_supported(req[c]) /\ KeyTaken(c)
          /\ Reply(c, "conflict") /\ UNCHANGED database
       \/ /\ batch_supported(req[c]) /\ ~KeyTaken(c)
          /\ jobs' = jobs \cup {JobOf(req[c])}
          /\ job_requests' = job_requests \cup {[job |-> JobOf(req[c]),
                                                 key |-> idempotency_hash(req[c])]}
          /\ Reply(c, "batch")
    /\ UNCHANGED <<scheduler, req, calls, met>>

-------------------------------------------------------------------------------
(* The retry loop (scheduled_direct_response).                             *)

\* Batch at once, or set the deadline and enter the loop.
Preview(c) ==
    /\ pc[c] = "preview"
    /\ \/ Fallback(c) /\ Goto(c, "enqueue") /\ UNCHANGED deadline
       \/ Goto(c, "top") /\ deadline' = [deadline EXCEPT ![c] = age[c] + MaxWait]
    /\ UNCHANGED <<scheduler, req, attempt, age, pause, ending, calls, database, met, answer>>

\* Slip in Top: every attempt has a deadline of its own.
TopAfresh(c) ==
    /\ pc[c] = "top"
    /\ deadline' = [deadline EXCEPT ![c] = age[c] + MaxWait]
    /\ Goto(c, "waiting")
    /\ L!Ask(Call(c))
    /\ pause' = [pause EXCEPT ![c] = age[c] + pause[c]]
    /\ UNCHANGED <<req, attempt, age, ending, calls, database, met, answer>>

\* The head of the loop: call acquire, if there is time left.
Top(c) ==
    /\ pc[c] = "top"
    /\ \/ /\ Remaining(c) = 0
          /\ BatchOrUnavailable(c)
          /\ UNCHANGED scheduler
       \/ /\ Remaining(c) > 0
          /\ Goto(c, "waiting")
          /\ L!Ask(Call(c))
          /\ pause' = [pause EXCEPT ![c] = age[c] + pause[c]]
          /\ UNCHANGED <<attempt, age, deadline, ending, answer>>
    /\ UNCHANGED <<req, calls, database, met>>

\* The scheduler takes a slot for an attempt that is past its Retry-After.
Grant(c) ==
    /\ pc[c] = "waiting" /\ age[c] >= pause[c]
    /\ L!Grant(Call(c))
    /\ ledger' = [ledger EXCEPT ![Call(c)] = "estimate"]
    /\ UNCHANGED <<req, pc, loop, fate, database, met, answer>>

\* acquire returns a permit, and the request goes out.
Send(c) ==
    /\ pc[c] = "waiting"
    /\ L!Receive(Call(c))
    /\ fate' = [fate EXCEPT ![Call(c)] = "sent"]
    /\ Goto(c, "sending")
    /\ UNCHANGED <<req, loop, ledger, database, met, answer>>

\* acquire returns RecommendBatch or RetryExhausted.
Decline(c) ==
    /\ pc[c] = "waiting" /\ Call(c) \notin slots
    /\ L!GiveUp(Call(c))
    /\ BatchOrUnavailable(c)
    /\ UNCHANGED <<req, calls, database, met>>

\* Slip: nothing bounds the wait but the scheduler.
TimeOutNever(c) == FALSE /\ Goto(c, pc[c])

\* tokio::time::timeout drops acquire, whatever is in its channel.
TimeOut(c) ==
    /\ pc[c] = "waiting" /\ Remaining(c) = 0
    /\ L!GiveUp(Call(c))
    /\ BatchOrUnavailable(c)
    /\ UNCHANGED <<req, calls, database, met>>

-------------------------------------------------------------------------------
(* What comes back from the provider.                                      *)

End(c, how, next) ==
    /\ Goto(c, "ending")
    /\ ending' = [ending EXCEPT ![c] = [how |-> how, next |-> next]]

\* A body is passed on, whatever its status.
StartBody(c) == Goto(c, "body") /\ UNCHANGED ending

\* Slip in RetriesLeft: the first attempt is not counted.
OneRetryMore(c) == attempt[c] <= MaxRetries

RetriesLeft(c) == attempt[c] < MaxRetries

\* Slip in Lost: every transport error is taken for a failure to connect.
LostAborts(c) ==
    /\ fate' = [fate EXCEPT ![Call(c)] = "lost"]
    /\ End(c, "abort", IF RetriesLeft(c) THEN "top" ELSE "done")
    /\ UNCHANGED pause

\* A transport error other than is_connect: it may have run.
Lost(c) ==
    /\ fate' = [fate EXCEPT ![Call(c)] = "lost"]
    /\ End(c, "estimate", "done")
    /\ UNCHANGED pause

\* is_connect: nothing reached the provider.
Refused(c) ==
    /\ fate' = [fate EXCEPT ![Call(c)] = "refused"]
    /\ End(c, "abort", IF RetriesLeft(c) THEN "top" ELSE "done")
    /\ pause' = [pause EXCEPT ![c] = 0]

\* Slip in ServerErrorRetried: a 5xx is retried without an Idempotency-Key.
AnyServerErrorRetried(c) == TRUE

\* safe_server_retry
ServerErrorRetried(c) == req[c].key # NULL

\* A status that is not retried, or not any more.
Passed(c) ==
    /\ \/ fate' = [fate EXCEPT ![Call(c)] = "ok"]
       \/ fate' = [fate EXCEPT ![Call(c)] = "limited"] /\ ~RetriesLeft(c)
       \/ /\ fate' = [fate EXCEPT ![Call(c)] = "server_error"]
          /\ ~(RetriesLeft(c) /\ ServerErrorRetried(c))
    /\ StartBody(c)
    /\ UNCHANGED pause

\* 429, or 5xx with an Idempotency-Key, while retries are left: try again, or,
\* if the provider asks for more time than there is, fall back or pass it on.
Retried(c, status) ==
    /\ RetriesLeft(c)
    /\ status = "server_error" => ServerErrorRetried(c)
    /\ fate' = [fate EXCEPT ![Call(c)] = status]
    /\ \/ \E delay \in {d \in RetryAfters : d > Remaining(c)} :
             /\ \/ status = "limited" /\ Fallback(c) /\ End(c, "zero", "enqueue")
                \/ StartBody(c)
             /\ UNCHANGED pause
       \/ \E delay \in {d \in RetryAfters : d <= Remaining(c)} \cup {0} :
             /\ End(c, IF status = "limited" THEN "zero" ELSE "estimate", "top")
             /\ pause' = [pause EXCEPT ![c] = delay]

Respond(c) ==
    /\ pc[c] = "sending"
    /\ \/ Lost(c) \/ Refused(c) \/ Passed(c)
       \/ Retried(c, "limited") \/ Retried(c, "server_error")
    /\ UNCHANGED <<scheduler, req, attempt, age, deadline, ledger, database, met, answer>>

\* The body ends or breaks off; complete gets the usage that was seen, if any.
BodyEnds(c) ==
    /\ pc[c] = "body"
    /\ \/ End(c, "estimate", "done")
       \/ fate[Call(c)] = "ok" /\ End(c, "actual", "done")
    /\ UNCHANGED <<scheduler, req, attempt, age, deadline, pause, calls, database, met, answer>>

Reconciled(how, entry) == CASE how = "abort" -> "none"
                            [] how = "estimate" -> entry
                            [] OTHER -> how

\* A body, whole or broken off, is a live answer.
Told(c) == IF fate[Call(c)] \in {"ok", "limited", "server_error"} THEN "live" ELSE "error"

\* What comes after complete or abort.
Proceed(c) ==
    \/ /\ ending[c].next = "top" /\ Goto(c, "top")
       /\ attempt' = [attempt EXCEPT ![c] = @ + 1]
       /\ ending' = [ending EXCEPT ![c] = NULL]
       /\ UNCHANGED <<age, deadline, pause, answer>>
    \/ ending[c].next = "enqueue" /\ GoBatch(c)
    \/ ending[c].next = "done" /\ Reply(c, Told(c))

\* Slip in Ended: the permit is dropped, its lease will give the slot back.
EndedByLease(c) ==
    /\ pc[c] = "ending"
    /\ L!Drop(Call(c))
    /\ ledger' = [ledger EXCEPT ![Call(c)] = Reconciled(ending[c].how, @)]
    /\ Proceed(c)
    /\ UNCHANGED <<req, fate, database, met>>

\* complete or abort has run: the slot is free, the usage event reconciled.
Ended(c) ==
    /\ pc[c] = "ending"
    /\ L!Finish(Call(c))
    /\ ledger' = [ledger EXCEPT ![Call(c)] = Reconciled(ending[c].how, @)]
    /\ Proceed(c)
    /\ UNCHANGED <<req, fate, database, met>>

\* The client is gone and the handler's future is dropped.
Vanish(c) ==
    /\ pc[c] \notin {"new", "done", "gone"}
    /\ Goto(c, "gone") /\ Forget(c)
    /\ CASE pc[c] = "waiting" -> L!GiveUp(Call(c))
         [] pc[c] \in {"sending", "ending", "body"} -> L!Drop(Call(c))
         [] OTHER -> UNCHANGED scheduler
    /\ UNCHANGED <<req, calls, database, met, answer>>

\* The slot of a call that is over comes back.
Return(k) == L!Return(k) /\ UNCHANGED <<req, pc, loop, calls, database, met, answer>>

\* A timeout that is due goes off before time goes on.
Tick(c) ==
    /\ pc[c] \in {"top", "waiting", "sending", "ending"} /\ age[c] < MaxAge
    /\ pc[c] = "waiting" => Remaining(c) > 0
    /\ age' = [age EXCEPT ![c] = @ + 1]
    /\ UNCHANGED <<scheduler, req, pc, attempt, deadline, pause, ending, calls, database,
                   met, answer>>

Handle(c) ==
    \/ Arrive(c) \/ CheckKey(c) \/ Find(c) \/ Enqueue(c)
    \/ Preview(c) \/ Top(c) \/ Send(c) \/ Decline(c) \/ TimeOut(c) \/ Ended(c)

Next ==
    \/ \E c \in Clients : \/ Handle(c) \/ Grant(c) \/ Respond(c) \/ BodyEnds(c)
                          \/ Vanish(c) \/ Tick(c)
    \/ \E k \in Calls : Return(k)

Spec == Init /\ [][Next]_vars

\* The runtime polls the handlers and its timers go off.  Nothing makes the
\* provider answer, or the scheduler grant or decline.
Fairness ==
    \A c \in Clients :
        /\ WF_vars(Arrive(c) \/ CheckKey(c) \/ Find(c) \/ Enqueue(c) \/ Preview(c) \/ Top(c))
        /\ WF_vars(TimeOut(c)) /\ WF_vars(Ended(c)) /\ WF_vars(Tick(c))

FairSpec == Spec /\ Fairness

-------------------------------------------------------------------------------
(* Properties.                                                             *)

\* Shape of the state.
TypeOK ==
    /\ stage \in [Calls -> L!Stages] /\ slots \subseteq Calls
    /\ req \in Workloads /\ pc \in [Clients -> Pcs]
    /\ attempt \in [Clients -> Attempts]
    /\ age \in [Clients -> 0..MaxAge] /\ deadline \in [Clients -> Nat]
    /\ pause \in [Clients -> Nat] /\ ending \in [Clients -> Endings \cup {NULL}]
    /\ fate \in [Calls -> Fates] /\ ledger \in [Calls -> LedgerValues]
    /\ answer \in [Clients -> Answers]

\* A request never has two slots at once, however often it retries: under
\* max_concurrency = 1 it would wait for itself (complete and abort before
\* continue).
OneSlotPerClient ==
    \A c \in Clients : Cardinality({k \in slots : k[1] = c}) <= 1

\* "An ambiguous connection loss after possible acceptance must not issue a
\* duplicate live request": without an Idempotency-Key at most one attempt may
\* have run at the provider, and a request that may have run live is not stored
\* as a Batch job on top (is_connect, safe_server_retry, the fallbacks).
NoSilentDuplicate ==
    \A c \in Clients : req[c].key = NULL =>
        /\ \A i, j \in Attempts : MayHaveRun(<<c, i>>) /\ MayHaveRun(<<c, j>>) => i = j
        /\ answer[c] = "batch" => \A i \in Attempts : ~MayHaveRun(<<c, i>>)

\* What may have been charged stays on the books of the token limits: no
\* attempt that may have run is refunded, whichever way it ended (abort only for
\* is_connect, complete with zeros only for 429).
ChargesAreCounted == \A k \in Calls : MayHaveRun(k) => ledger[k] \in {"estimate", "actual"}

\* One deadline bounds all the waits of a request: nothing is sent later.
WaitIsBounded ==
    [][\A c \in Clients, i \in Attempts :
          fate[<<c, i>>] = "none" /\ fate'[<<c, i>>] # "none" => age[c] <= MaxWait]_vars

\* A job a client was given can be resumed by whoever comes after: its request
\* is stored, under the key it came with; and a client that was turned away, its
\* key being another's, leaves no job behind (one transaction in enqueue).
AcceptedIsResumable ==
    /\ \A c \in Clients : answer[c] = "batch" =>
          [job |-> JobOf(req[c]), key |-> idempotency_hash(req[c])] \in job_requests
    /\ \A j \in jobs \ Legacy : \E r \in job_requests : r.job = j

\* "The same explicit idempotency key with a changed payload within its session
\* scope returns HTTP 409": two clients who were both given a job under one key
\* were given the same one, for the same payload.
KeyIsOneRequest ==
    \A c, d \in Clients :
        /\ answer[c] = "batch" /\ answer[d] = "batch"
        /\ req[c].auth = req[d].auth /\ req[c].key # NULL /\ req[c].key = req[d].key
        /\ req[c].session # NULL /\ req[c].session = req[d].session
        => JobOf(req[c]) = JobOf(req[d]) /\ req[c].body = req[d].body

\* "Existing batch jobs stay on batch in auto mode even after policy changes,
\* avoiding a second charge": an auto request that finds its job, or its key in
\* the hands of another, when it comes is not sent live (order of route).
StoredStaysBatch ==
    \A c \in Clients :
        Fallback(c) /\ met[c] # "nothing" =>
            /\ \A i \in Attempts : fate[<<c, i>>] = "none"
            /\ answer[c] = "batch" => met[c] = "job"

\* Every request comes to the provider or to an answer: neither a retry loop nor
\* a wait for a slot goes on for ever, though the scheduler may never grant one.
NobodyIsStuck ==
    \A c \in Clients : (pc[c] # "new") ~> (pc[c] \in {"sending", "body", "done", "gone"})

===============================================================================
