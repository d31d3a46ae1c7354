------------------------------- MODULE Scheduler -------------------------------
(***************************************************************************)
(* The live scheduler of Kaiion (scheduling.rs): concurrent calls of       *)
(* acquire queue up behind one async mutex, any of them may dispatch any   *)
(* other through a oneshot channel, permits are given back by complete,    *)
(* abort or a task that a dropped PermitLease spawns, and every caller may *)
(* vanish at any await (client disconnect, the timeout in proxy.rs).       *)
(*                                                                         *)
(* A step boundary is an await, a release of the mutex, or a reading of    *)
(* the clock that is used after the mutex has been waited for.             *)
(* dispatch_available runs dispatch_ready several times under the mutex:   *)
(* "lock" is the instant it works with while it does.                      *)
(*                                                                         *)
(* The races inside dispatch_ready in which a receiver closes between two  *)
(* lines are the ones in which it closes just before or just after.        *)
(***************************************************************************)
EXTENDS Quota

CONSTANTS
    Usages,           \* token usage complete may report: [input, output] or NULL
    MaxTime,          \* bound: the clock stops here
    LastArrival,      \* bound: no call of acquire after this
    MaxLag,           \* bound: longest wait for the mutex, in ticks
    LossyCompletion   \* may a caller vanish while it waits in complete or abort?

ASSUME BoundsAreNumbers == MaxTime \in Nat /\ MaxLag \in Nat /\ LastArrival \in Nat

\* The counts of UsageUpdate are unsigned.
ASSUME UsagesAreTyped ==
    \A u \in Usages : u # NULL => u.input \in Nat /\ u.output \in Nat

ASSUME LossyCompletionIsFlag == LossyCompletion \in BOOLEAN

VARIABLES
    clock,          \* Instant::now()
    lock,           \* NULL, or the "now" of a dispatch_available in progress
    pending,        \* State.pending: the requests that have an entry
    pending_bytes,  \* State.pending_bytes
    next_id,        \* State.next_id
    events,         \* State.events: sequence of UsageEvent
    active,         \* State.active: the requests that have an entry
    pacing,         \* State.pacing: function on the marks that are set
    coalesce_until, \* State.coalesce_until
    chan,           \* the oneshot channel of each request
    h,              \* the callers
    tasks,          \* tasks spawned by the drop handlers
    sent            \* history: when a request that was not aborted got its permit

queue == <<pending, pending_bytes, coalesce_until>>
quota == <<events, active, pacing>>
vars == <<clock, lock, queue, next_id, quota, chan, h, tasks, sent>>

-------------------------------------------------------------------------------

Fresh == [pc |-> "new", deadline |-> 0, now |-> 0, wake |-> 0, enqueued_at |-> 0, id |-> 0]

Finished == [Fresh EXCEPT !.pc = "done"]

\* acquire holds the receiver and an armed PendingGuard.
WaitingPcs == {"yield", "poll", "check", "sleep", "expire"}

Waiting(r) == h[r].pc \in WaitingPcs

\* The caller holds the permit: its request may be at the provider.
InFlight(r) == h[r].pc \in {"held", "completing", "aborting"}

TaskKinds == {"release", "unpend"}

Init ==
    /\ clock = 0 /\ lock = NULL
    /\ pending = {} /\ pending_bytes = 0 /\ coalesce_until = NULL /\ next_id = 0
    /\ events = << >> /\ active = {} /\ pacing = << >>
    /\ chan = [r \in Reqs |-> NULL]
    /\ h = [r \in Reqs |-> Fresh]
    /\ tasks = {}
    /\ sent = [r \in Reqs |-> NULL]

-------------------------------------------------------------------------------
(* The queue.                                                              *)

BytesOf(rs) == MapThenSumSet(LAMBDA r : Request[r].bytes, rs)

\* Slip in remove_pending: bytes are given back for entries that are gone.
remove_pendingTwice(rs) ==
    /\ pending' = pending \ rs
    /\ pending_bytes' = Since(pending_bytes, BytesOf(rs))

\* State::remove_pending for each of rs that has an entry.
remove_pending(rs) ==
    /\ pending' = pending \ rs
    /\ pending_bytes' = Since(pending_bytes, BytesOf(rs \cap pending))

CoalesceUnlessEmpty == coalesce_until' = IF pending' = {} THEN NULL ELSE coalesce_until

\* Slip in Before: the later id wins a tie.
BeforeLatestFirst(p, q, now) ==
    LET sp == priority_score(Request[p], h[p].enqueued_at, now)
        sq == priority_score(Request[q], h[q].enqueued_at, now)
    IN \/ sp > sq
       \/ sp = sq /\ h[p].enqueued_at < h[q].enqueued_at
       \/ sp = sq /\ h[p].enqueued_at = h[q].enqueued_at /\ h[p].id > h[q].id

\* The order in which dispatch_ready serves requests that are ready.
Before(p, q, now) ==
    LET sp == priority_score(Request[p], h[p].enqueued_at, now)
        sq == priority_score(Request[q], h[q].enqueued_at, now)
    IN \/ sp > sq
       \/ sp = sq /\ h[p].enqueued_at < h[q].enqueued_at
       \/ sp = sq /\ h[p].enqueued_at = h[q].enqueued_at /\ h[p].id < h[q].id

QueueReady(now) == coalesce_until = NULL \/ now >= coalesce_until

Oversized == {r \in Reqs : Impossible(Request[r])}

\* Slip in Dead: nobody looks whether the receiver is still there.
DeadIfOversized == pending \cap Oversized

\* Entries that are taken out: the receiver is gone, or it can never fit.
Dead == {r \in pending : ~Waiting(r) \/ r \in Oversized}

ReadyAt(r, evs, marks, now) == readiness(Request[r], evs, active, marks, now)

ReadyNow(evs, marks, now) ==
    {r \in pending \ Dead : QueueReady(now) /\ ReadyAt(r, evs, marks, now) = now}

\* What dispatch_ready returns.
NextDue(evs, marks, now) ==
    LET later == {t \in {coalesce_until}
                        \cup {ReadyAt(r, evs, marks, now) : r \in pending \ Dead} :
                     t # NULL /\ t > now}
    IN IF ReadyNow(evs, marks, now) # {} THEN now
       ELSE IF pending = Dead \/ later = {} THEN NULL ELSE Min(later)

Dispatch(r, evs, marks, now) ==
    LET q == Request[r]
    IN /\ events' = Append(evs, [req |-> r, at |-> now, input |-> q.input, output |-> q.output])
       /\ active' = active \cup {r}
       /\ pacing' = update_pacing(marks, q, q.input, q.output, now)
       /\ sent' = [sent EXCEPT ![r] = clock]

\* Slip in Answer: an entry that can never fit is taken out without a word.
AnswerPermitOnly(r, best) == IF r = best THEN "permit" ELSE chan[r]

\* What dispatch_ready leaves in the channel of r.
Answer(r, best) == IF r = best THEN "permit"
                   ELSE IF r \in Dead /\ Waiting(r) THEN "refused"
                   ELSE chan[r]

\* Take out the dead, then dispatch the first of those that are ready.
dispatch_ready(evs, marks, now) ==
    LET ready == ReadyNow(evs, marks, now)
    IN \/ \E best \in ready :
              /\ \A r \in ready \ {best} : Before(best, r, now)
              /\ remove_pending(Dead \cup {best})
              /\ Dispatch(best, evs, marks, now)
              /\ chan' = [r \in Reqs |-> Answer(r, best)]
              /\ UNCHANGED coalesce_until
       \/ /\ ready = {}
          /\ remove_pending(Dead)
          /\ chan' = [r \in Reqs |-> Answer(r, NULL)]
          /\ coalesce_until' = IF pending' = {} \/ QueueReady(now) THEN NULL
                               ELSE coalesce_until
          /\ events' = evs /\ pacing' = marks
          /\ UNCHANGED <<active, sent>>

\* One round of dispatch_available; it ends when nothing is due, and leaves
\* the instant at which something will be to nobody.
DispatchStep ==
    /\ lock # NULL
    /\ dispatch_ready(events, pacing, lock)
    /\ lock' = IF NextDue(events, pacing, lock) = lock THEN lock ELSE NULL
    /\ UNCHANGED <<clock, next_id, h, tasks>>

-------------------------------------------------------------------------------
(* acquire.                                                                *)

\* Up to the sleep for an upstream Retry-After.  Requests that preview, the
\* retry ceiling or the wait cap turns away at once are not among Reqs.
Arrive(r) ==
    /\ h[r].pc = "new" /\ clock <= LastArrival
    /\ h' = [h EXCEPT ![r].pc = "queueing",
                      ![r].deadline = clock + MaxWait(Request[r]),
                      ![r].wake = clock + Request[r].retry_after]
    /\ UNCHANGED <<clock, lock, queue, next_id, quota, chan, tasks, sent>>

HasRoom(r) == /\ Cardinality(pending) < Policy.max_pending
              /\ Request[r].bytes <= Since(Policy.max_pending_bytes, pending_bytes)

\* The first critical section: take a place in the queue, or queue_full.  The
\* loop then reads the clock and waits for the mutex again.
Enqueue(r) ==
    /\ h[r].pc = "queueing" /\ clock >= h[r].wake
    /\ lock = NULL
    /\ events' = pruned_events(events, clock)
    /\ pacing' = pruned_pacing(pacing, clock)
    /\ \/ /\ HasRoom(r)
          /\ next_id' = next_id + 1
          /\ coalesce_until' = IF pending = {} THEN clock + Policy.queue_coalesce
                               ELSE coalesce_until
          /\ pending' = pending \cup {r}
          /\ pending_bytes' = pending_bytes + Request[r].bytes
          /\ h' = [h EXCEPT ![r].pc = "poll", ![r].now = clock, ![r].wake = 0,
                            ![r].id = next_id, ![r].enqueued_at = clock]
       \/ /\ ~HasRoom(r)
          /\ h' = [h EXCEPT ![r] = Finished]
          /\ UNCHANGED <<queue, next_id>>
    /\ UNCHANGED <<clock, lock, active, chan, tasks, sent>>

\* After yield_now: the clock is read before the mutex is waited for.
Yielded(r) ==
    /\ h[r].pc = "yield"
    /\ h' = [h EXCEPT ![r].pc = "poll", ![r].now = clock]
    /\ UNCHANGED <<clock, lock, queue, next_id, quota, chan, tasks, sent>>

\* Slip in DropReceiver: the permit in the channel is forgotten.
DropReceiverLeaks(r) ==
    /\ chan' = [chan EXCEPT ![r] = NULL]
    /\ UNCHANGED tasks

\* The receiver goes away; a permit in it is dropped, with its lease.
DropReceiver(r) ==
    /\ chan' = [chan EXCEPT ![r] = NULL]
    /\ tasks' = IF chan[r] = "permit" THEN tasks \cup {[kind |-> "release", req |-> r]}
                ELSE tasks

\* The critical section of the loop: leave if the request can never fit,
\* otherwise dispatch whoever is first, and remember for how long to sleep.
Poll(r) ==
    /\ h[r].pc = "poll"
    /\ lock = NULL
    /\ LET now == h[r].now
           evs == pruned_events(events, now)
           marks == pruned_pacing(pacing, now)
           remaining == Since(h[r].deadline, now)
           due == NextDue(evs, marks, now)
       IN \/ /\ r \in Oversized
             /\ remove_pending({r})
             /\ CoalesceUnlessEmpty
             /\ h' = [h EXCEPT ![r] = Finished]
             /\ DropReceiver(r)
             /\ events' = evs /\ pacing' = marks
             /\ UNCHANGED <<active, sent>>
          \/ /\ r \notin Oversized
             /\ dispatch_ready(evs, marks, now)
             /\ h' = [h EXCEPT ![r].pc = "check",
                      ![r].wake = IF due = NULL THEN remaining
                                  ELSE Min({due - now, remaining})]
             /\ UNCHANGED tasks
    /\ UNCHANGED <<clock, lock, next_id>>

\* try_recv after the critical section, or the select! during the sleep.
Receive(r) ==
    /\ h[r].pc \in {"check", "sleep"}
    /\ chan[r] # NULL
    /\ h' = [h EXCEPT ![r] = IF chan[r] = "permit" THEN [Finished EXCEPT !.pc = "held"]
                             ELSE Finished]
    /\ chan' = [chan EXCEPT ![r] = NULL]
    /\ UNCHANGED <<clock, lock, queue, next_id, quota, tasks, sent>>

\* Slip in Check: the deadline is not looked at.
CheckWithoutDeadline(r) ==
    /\ h[r].pc = "check"
    /\ chan[r] = NULL
    /\ h' = [h EXCEPT ![r] =
           IF h[r].wake = 0 THEN [h[r] EXCEPT !.pc = "yield", !.now = 0]
           ELSE [h[r] EXCEPT !.pc = "sleep", !.now = 0, !.wake = clock + h[r].wake]]
    /\ UNCHANGED <<clock, lock, queue, next_id, quota, chan, tasks, sent>>

\* Nothing received: give up at the deadline, go round at once, or sleep.
Check(r) ==
    /\ h[r].pc = "check"
    /\ chan[r] = NULL
    /\ h' = [h EXCEPT ![r] =
           IF clock >= h[r].deadline
           THEN [h[r] EXCEPT !.pc = "expire", !.now = 0, !.wake = 0]
           ELSE IF h[r].wake = 0 THEN [h[r] EXCEPT !.pc = "yield", !.now = 0]
           ELSE [h[r] EXCEPT !.pc = "sleep", !.now = 0, !.wake = clock + h[r].wake]]
    /\ UNCHANGED <<clock, lock, queue, next_id, quota, chan, tasks, sent>>

\* The sleep is over: round the loop, where the clock is read again.
Wake(r) ==
    /\ h[r].pc = "sleep"
    /\ clock >= h[r].wake
    /\ h' = [h EXCEPT ![r].pc = "poll", ![r].now = clock, ![r].wake = 0]
    /\ UNCHANGED <<clock, lock, queue, next_id, quota, chan, tasks, sent>>

\* max_wait_exceeded.  A permit may have been sent since the try_recv.
Expire(r) ==
    /\ h[r].pc = "expire"
    /\ lock = NULL
    /\ remove_pending({r})
    /\ CoalesceUnlessEmpty
    /\ h' = [h EXCEPT ![r] = Finished]
    /\ DropReceiver(r)
    /\ UNCHANGED <<clock, lock, next_id, quota, sent>>

-------------------------------------------------------------------------------
(* The end of a live request: complete, abort.  Both disarm the lease      *)
(* before they wait for the mutex, and complete reads the clock there too. *)

Complete(r) ==
    /\ h[r].pc = "held"
    /\ h' = [h EXCEPT ![r].pc = "completing", ![r].now = clock]
    /\ UNCHANGED <<clock, lock, queue, next_id, quota, chan, tasks, sent>>

Reconciled(r, usage) ==
    [i \in DOMAIN events |->
        IF events[i].req = r /\ usage # NULL
        THEN [events[i] EXCEPT !.input = usage.input, !.output = usage.output]
        ELSE events[i]]

CompleteLocked(r) ==
    /\ h[r].pc = "completing"
    /\ lock = NULL
    /\ active' = active \ {r}
    /\ \E usage \in Usages : events' = pruned_events(Reconciled(r, usage), h[r].now)
    /\ pacing' = pruned_pacing(pacing, h[r].now)
    /\ lock' = h[r].now
    /\ h' = [h EXCEPT ![r] = Finished]
    /\ UNCHANGED <<clock, queue, next_id, chan, tasks, sent>>

\* The request is known not to have reached the provider.
Abort(r) ==
    /\ h[r].pc = "held"
    /\ h' = [h EXCEPT ![r].pc = "aborting"]
    /\ UNCHANGED <<clock, lock, queue, next_id, quota, chan, tasks, sent>>

\* events.retain: the events of the other requests, in their order.
EventsWithout(r, evs) ==
    LET Upto[n \in 0..Len(evs)] ==
            IF n = 0 THEN << >>
            ELSE IF evs[n].req = r THEN Upto[n-1] ELSE Append(Upto[n-1], evs[n])
    IN Upto[Len(evs)]

AbortLocked(r) ==
    /\ h[r].pc = "aborting"
    /\ lock = NULL
    /\ active' = active \ {r}
    /\ LET left == EventsWithout(r, events)
       IN /\ events' = pruned_events(left, clock)
          /\ pacing' = pruned_pacing(rebuild_pacing(left), clock)
    /\ sent' = [sent EXCEPT ![r] = NULL]
    /\ lock' = clock
    /\ h' = [h EXCEPT ![r] = Finished]
    /\ UNCHANGED <<clock, queue, next_id, chan, tasks>>

-------------------------------------------------------------------------------
(* Callers that vanish, and the tasks their drop handlers spawn.           *)

CancelQueueing(r) ==
    /\ h[r].pc = "queueing"
    /\ h' = [h EXCEPT ![r] = Finished]
    /\ UNCHANGED <<clock, lock, queue, next_id, quota, chan, tasks, sent>>

\* Drop for PendingGuard, and for the permit if one is in the channel.
CancelWaiting(r) ==
    /\ Waiting(r) /\ h[r].pc # "check"
    /\ h' = [h EXCEPT ![r] = Finished]
    /\ chan' = [chan EXCEPT ![r] = NULL]
    /\ tasks' = tasks \cup {[kind |-> "unpend", req |-> r]}
                      \cup {t \in [kind : {"release"}, req : {r}] : chan[r] = "permit"}
    /\ UNCHANGED <<clock, lock, queue, next_id, quota, sent>>

\* Slip in CancelHeld: a permit without a lease.
CancelHeldWithoutLease(r) ==
    /\ h[r].pc = "held"
    /\ h' = [h EXCEPT ![r] = Finished]
    /\ UNCHANGED <<clock, lock, queue, next_id, quota, chan, tasks, sent>>

\* Drop for PermitLease, while it is armed.
CancelHeld(r) ==
    /\ h[r].pc = "held"
    /\ h' = [h EXCEPT ![r] = Finished]
    /\ tasks' = tasks \cup {[kind |-> "release", req |-> r]}
    /\ UNCHANGED <<clock, lock, queue, next_id, quota, chan, sent>>

\* The future of complete or abort is dropped while it waits for the mutex:
\* the lease is disarmed already.
CancelCompleting(r) ==
    /\ LossyCompletion
    /\ h[r].pc \in {"completing", "aborting"}
    /\ h' = [h EXCEPT ![r] = Finished]
    /\ UNCHANGED <<clock, lock, queue, next_id, quota, chan, tasks, sent>>

Release(r) ==
    /\ [kind |-> "release", req |-> r] \in tasks
    /\ lock = NULL
    /\ tasks' = tasks \ {[kind |-> "release", req |-> r]}
    /\ active' = active \ {r}
    /\ lock' = IF r \in active THEN clock ELSE NULL
    /\ UNCHANGED <<clock, queue, next_id, events, pacing, chan, h, sent>>

Unpend(r) ==
    /\ [kind |-> "unpend", req |-> r] \in tasks
    /\ lock = NULL
    /\ tasks' = tasks \ {[kind |-> "unpend", req |-> r]}
    /\ remove_pending({r})
    /\ CoalesceUnlessEmpty
    /\ events' = pruned_events(events, clock)
    /\ pacing' = pruned_pacing(pacing, clock)
    /\ lock' = clock
    /\ UNCHANGED <<clock, next_id, active, chan, h, sent>>

-------------------------------------------------------------------------------

\* Time passes; nobody takes longer than MaxLag from reading the clock, through
\* the wait for the mutex, to the end of what follows without an await.
Tick ==
    /\ clock < MaxTime
    /\ lock # NULL => clock - lock < MaxLag
    /\ \A r \in Reqs :
           h[r].pc \in {"poll", "check", "completing"} => clock - h[r].now < MaxLag
    /\ clock' = clock + 1
    /\ UNCHANGED <<lock, queue, next_id, quota, chan, h, tasks, sent>>

CallerNext(r) ==
    \/ Arrive(r) \/ Enqueue(r) \/ Yielded(r) \/ Poll(r) \/ Receive(r)
    \/ Check(r) \/ Wake(r) \/ Expire(r)
    \/ Complete(r) \/ CompleteLocked(r) \/ Abort(r) \/ AbortLocked(r)
    \/ CancelQueueing(r) \/ CancelWaiting(r) \/ CancelHeld(r) \/ CancelCompleting(r)
    \/ Release(r) \/ Unpend(r)

Next == Tick \/ DispatchStep \/ \E r \in Reqs : CallerNext(r)

Spec == Init /\ [][Next]_vars

-------------------------------------------------------------------------------
(* Safety.                                                                 *)

\* Shape of the state.
TypeOK ==
    /\ clock \in 0..MaxTime
    /\ lock \in Nat \cup {NULL}
    /\ pending \subseteq Reqs /\ active \subseteq Reqs
    /\ pending_bytes \in Nat /\ next_id \in Nat
    /\ coalesce_until \in Nat \cup {NULL}
    /\ chan \in [Reqs -> {NULL, "permit", "refused"}]
    /\ h \in [Reqs -> [pc : WaitingPcs \cup {"new", "queueing", "held", "completing",
                                             "aborting", "done"},
                       deadline : Nat, now : Nat, wake : Nat,
                       enqueued_at : Nat, id : Nat]]
    /\ tasks \subseteq [kind : TaskKinds, req : Reqs]
    /\ sent \in [Reqs -> Nat \cup {NULL}]

\* max_concurrency caps simultaneous live requests: however permits are
\* passed on, lost in a channel, dropped or given back, no rule ever has more
\* requests in flight in one of its scopes than it allows (readiness,
\* active_matches).
ConcurrencyCap ==
    \A l \in Rules, r \in Reqs :
        l.max_concurrency # NULL /\ rule_matches(l, Request[r]) =>
            Cardinality({q \in Reqs : InFlight(q) /\ SameQuota(l, Request[r], Request[q])})
                <= l.max_concurrency

\* max_requests and max_rps bound every rolling window, measured by the real
\* time of the dispatches, but for the time a caller can spend between reading
\* the clock and getting the mutex (rolling_fit, prune_events).
RollingCount ==
    \A l \in Rules, r \in Reqs, t \in 0..MaxTime :
        RequestCap(l) # NULL /\ rule_matches(l, Request[r]) =>
            Cardinality({q \in Reqs : /\ sent[q] # NULL
                                      /\ SameQuota(l, Request[r], Request[q])
                                      /\ sent[q] \in t .. t + Window(l) - MaxLag - 1})
                <= RequestCap(l)

\* max_rps spaces dispatches: two requests of one scope are never dispatched
\* closer together than the pace, but for that same time, even after an abort
\* has rebuilt the marks (update_pacing, rebuild_pacing).
DispatchesArePaced ==
    \A l \in Rules, p, q \in Reqs :
        /\ l.max_rps # NULL /\ rule_matches(l, Request[p])
        /\ SameQuota(l, Request[p], Request[q])
        /\ p # q /\ sent[p] # NULL /\ sent[q] # NULL /\ sent[p] <= sent[q]
        => sent[q] - sent[p] >= Second \div l.max_rps - MaxLag

\* A caller that waits has an entry in the queue or an answer in its channel,
\* so acquire never returns ScheduleError::WaiterCancelled.
NoWaiterForgotten == \A r \in Reqs : Waiting(r) => r \in pending \/ chan[r] # NULL

\* The queue keeps its bounds, and the byte counter never drifts from the
\* entries it counts, whoever removes them (remove_pending, PendingGuard).
QueueIsBounded ==
    /\ pending_bytes = BytesOf(pending)
    /\ pending_bytes <= Policy.max_pending_bytes
    /\ Cardinality(pending) <= Policy.max_pending

\* An entry in State.active has an owner that will remove it: a caller with
\* the permit, a channel with the permit in it, or a task that gives it back.
NoSlotLeaks ==
    \A r \in active : \/ InFlight(r)
                      \/ chan[r] = "permit"
                      \/ [kind |-> "release", req |-> r] \in tasks

Twins(p, q) == [Request[p] EXCEPT !.bytes = 0] = [Request[q] EXCEPT !.bytes = 0]

\* Stable FIFO ordering within equal priority: of two requests that differ in
\* nothing, the one that came second is not dispatched while the first waits,
\* whoever does the dispatching and with whatever reading of the clock.
FifoAmongEquals ==
    [][\A p, q \in pending :
          /\ Twins(p, q) /\ h[p].id < h[q].id /\ Waiting(p)
          /\ sent[q] = NULL /\ sent'[q] # NULL
          => p \notin pending']_vars

-------------------------------------------------------------------------------
(* What all this amounts to for a caller.                                  *)

StageOf(pc) == CASE pc = "new" -> "idle"
                 [] pc \in WaitingPcs \cup {"queueing"} -> "waiting"
                 [] pc \in {"held", "completing", "aborting"} -> "holding"
                 [] pc = "done" -> "over"

\* The sets of requests no max_concurrency forbids to be live together.
WithinLimits(S) ==
    \A l \in Rules, r \in Reqs :
        l.max_concurrency # NULL /\ rule_matches(l, Request[r]) =>
            Cardinality({a \in S : SameQuota(l, Request[r], Request[a])})
                <= l.max_concurrency

P == INSTANCE Permits WITH
        Calls <- Reqs,
        Legal <- {S \in SUBSET Reqs : WithinLimits(S)},
        stage <- [r \in Reqs |-> StageOf(h[r].pc)],
        slots <- active

\* To its callers the scheduler is Permits: whatever the queue, the channels,
\* the leases and the clean-up tasks do, a call is given one slot at most, once,
\* while it waits, within the limits, and loses it only when it ends or after.
ImplementsPermits == P!Spec

-------------------------------------------------------------------------------
(* Liveness.                                                               *)

\* The runtime polls every task, the mutex is handed over in FIFO order (so
\* whoever waits for it gets it, though others get it in between: SF), and
\* time passes.  Nothing obliges a caller to arrive, or to give a permit back.
UnderLock(r) == Enqueue(r) \/ Poll(r) \/ Expire(r) \/ CompleteLocked(r) \/ AbortLocked(r)

WithoutLock(r) == Yielded(r) \/ Receive(r) \/ Check(r) \/ Wake(r)

Fairness ==
    /\ WF_vars(Tick) /\ WF_vars(DispatchStep)
    /\ \A r \in Reqs : /\ SF_vars(UnderLock(r)) /\ WF_vars(WithoutLock(r))
                       /\ SF_vars(Release(r) \/ Unpend(r))

FairSpec == Spec /\ Fairness

\* The wait is bounded: every acquire returns, with a permit or a refusal, no
\* matter who holds the slots and for how long (the loop around its deadline).
AcquireReturns ==
    \A r \in Reqs : (h[r].pc # "new") ~> (InFlight(r) \/ h[r].pc = "done")

\* A permit nobody received gives its slot back (Drop for PermitLease).
LostPermitIsReleased ==
    \A r \in Reqs : (r \in active /\ h[r].pc = "done") ~> (r \notin active)

-------------------------------------------------------------------------------
(* Claims of the documentation that the code does not keep.                *)

\* Everybody is asleep and nobody is about to wake up.
Quiet ==
    /\ lock = NULL /\ tasks = {}
    /\ \A r \in Reqs : /\ chan[r] = NULL
                       /\ h[r].pc \in {"new", "sleep", "held", "done"}
                       /\ h[r].pc = "sleep" => h[r].wake > clock

\* "live/direct requests are queued in memory and dispatched when the
\* configured request, token, and concurrency limits permit": time does not
\* pass with everybody asleep while the limits permit a queued request.
DispatchedWhenPermitted ==
    [][clock' # clock /\ Quiet => ReadyNow(events, pacing, clock) = {}]_vars

===============================================================================
