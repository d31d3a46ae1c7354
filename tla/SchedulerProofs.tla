---------------------------- MODULE SchedulerProofs ----------------------------
(***************************************************************************)
(* Theorems about Scheduler for any number of callers, any policy and any  *)
(* clock.                                                                  *)
(***************************************************************************)
EXTENDS Scheduler, FiniteSetTheorems, TLAPS

-------------------------------------------------------------------------------
(* The inductive invariant: who may own what.                              *)

\* Each variable is a function or a set of the right kind; the clock and the
\* quota arithmetic play no part in the argument.
Shape ==
    /\ pending \subseteq Reqs /\ active \subseteq Reqs
    /\ chan \in [Reqs -> {NULL, "permit", "refused"}]
    /\ DOMAIN h = Reqs /\ \A r \in Reqs : DOMAIN h[r] = DOMAIN Fresh
    /\ tasks \subseteq [kind : TaskKinds, req : Reqs]

\* An answer is in a channel only while its receiver lives, and a caller with
\* an answer has left the queue.
AnswersHaveReceivers ==
    \A r \in Reqs : chan[r] # NULL => Waiting(r) /\ r \notin pending

\* A permit that is out, in a caller's hands or in a channel, is on the books.
PermitsAreActive ==
    \A r \in Reqs : InFlight(r) \/ chan[r] = "permit" => r \in active

\* Only a caller that is gone has a clean-up task.
TasksAreOfTheGone == \A t \in tasks : h[t.req].pc = "done"

\* An entry in the queue has a caller that waits for it, or is being removed.
EntriesHaveCallers ==
    \A r \in pending : \/ Waiting(r)
                       \/ h[r].pc = "done" /\ [kind |-> "unpend", req |-> r] \in tasks

\* State.active itself is within every limit: what readiness counts.
SlotsOf(l, q) == {a \in active : SameQuota(l, q, Request[a])}

ActiveCap ==
    \A l \in Rules, r \in Reqs :
        l.max_concurrency # NULL /\ rule_matches(l, Request[r]) =>
            Cardinality(SlotsOf(l, Request[r])) <= l.max_concurrency

OwnerInv == /\ Shape /\ AnswersHaveReceivers /\ PermitsAreActive
            /\ TasksAreOfTheGone /\ EntriesHaveCallers /\ NoWaiterForgotten

-------------------------------------------------------------------------------
(* Who owns what.                                                          *)

\* Nobody owns anything before the first call.
LEMMA OwnerInit == Init => OwnerInv
  BY NullIsNoValue DEF Init, OwnerInv, Shape, AnswersHaveReceivers, PermitsAreActive,
     TasksAreOfTheGone, EntriesHaveCallers, NoWaiterForgotten, Waiting, WaitingPcs,
     InFlight, Fresh, TaskKinds

\* What dispatch_ready does to the queue, the slots and the channels: it takes
\* the dead out and hands at most one permit to a caller that waits.
LEMMA DispatchEffect ==
    ASSUME OwnerInv, NEW evs, NEW marks, NEW now, dispatch_ready(evs, marks, now)
    PROVE  \E best \in (pending \ Dead) \cup {NULL} :
              /\ pending' = pending \ (Dead \cup {best})
              /\ active' = active \cup ({best} \cap Reqs)
              /\ chan' = [r \in Reqs |-> Answer(r, best)]
              /\ best # NULL => ReadyAt(best, evs, marks, now) = now
  <1>1. CASE \E best \in ReadyNow(evs, marks, now) :
                 /\ remove_pending(Dead \cup {best})
                 /\ Dispatch(best, evs, marks, now)
                 /\ chan' = [r \in Reqs |-> Answer(r, best)]
    <2>1. PICK best \in ReadyNow(evs, marks, now) :
                 /\ remove_pending(Dead \cup {best})
                 /\ Dispatch(best, evs, marks, now)
                 /\ chan' = [r \in Reqs |-> Answer(r, best)]
      BY <1>1
    <2>2. best \in pending \ Dead /\ best \in Reqs
      BY <2>1 DEF ReadyNow, OwnerInv, Shape
    <2> QED BY <2>1, <2>2 DEF ReadyNow, remove_pending, Dispatch
  <1>2. CASE /\ remove_pending(Dead)
             /\ chan' = [r \in Reqs |-> Answer(r, NULL)]
             /\ active' = active
    <2>1. pending' = pending \ (Dead \cup {NULL})
      BY <1>2, CallersAreFinite DEF remove_pending, OwnerInv, Shape
    <2> QED BY <1>2, <2>1, CallersAreFinite
  <1> QED BY <1>1, <1>2 DEF dispatch_ready

\* So dispatch_ready keeps the invariant while the callers stay where they are.
LEMMA DispatchKeepsOwner ==
    ASSUME OwnerInv, NEW evs, NEW marks, NEW now, dispatch_ready(evs, marks, now),
           DOMAIN h' = Reqs, \A r \in Reqs : DOMAIN h'[r] = DOMAIN Fresh, tasks' = tasks,
           \A r \in Reqs : /\ Waiting(r)' <=> Waiting(r)
                           /\ InFlight(r)' <=> InFlight(r)
                           /\ h[r].pc = "done" => h'[r].pc = "done"
    PROVE  OwnerInv'
  <1>1. PICK best \in (pending \ Dead) \cup {NULL} :
              /\ pending' = pending \ (Dead \cup {best})
              /\ active' = active \cup ({best} \cap Reqs)
              /\ chan' = [r \in Reqs |-> Answer(r, best)]
    BY DispatchEffect
  <1>2. \A r \in Reqs : chan'[r] = Answer(r, best)
    BY <1>1
  <1>3. Shape'
    BY <1>1 DEF Shape, OwnerInv, Answer
  <1>4. AnswersHaveReceivers'
    BY <1>1, <1>2, CallersAreFinite DEF AnswersHaveReceivers, OwnerInv, Answer, Dead
  <1>5. PermitsAreActive'
    BY <1>1, <1>2, NullIsNoValue DEF PermitsAreActive, OwnerInv, Answer
  <1>6. TasksAreOfTheGone'
    BY DEF TasksAreOfTheGone, OwnerInv, Shape
  <1>7. EntriesHaveCallers'
    BY <1>1 DEF EntriesHaveCallers, OwnerInv, Shape
  <1>8. NoWaiterForgotten'
    BY <1>1, <1>2, NullIsNoValue DEF NoWaiterForgotten, OwnerInv, Answer, Dead
  <1> QED BY <1>3, <1>4, <1>5, <1>6, <1>7, <1>8 DEF OwnerInv


\* A caller that goes on, without touching the queue, the slots, the channels or
\* the tasks, keeps the invariant if it neither starts nor stops to wait, takes
\* no permit it does not have, and is not one that is gone.
LEMMA MoveKeepsOwner ==
    ASSUME OwnerInv, NEW r \in Reqs,
           DOMAIN h' = Reqs, \A q \in Reqs : DOMAIN h'[q] = DOMAIN Fresh,
           \A q \in Reqs \ {r} : h'[q] = h[q],
           Waiting(r)' <=> Waiting(r), InFlight(r)' => InFlight(r), h[r].pc # "done",
           UNCHANGED <<pending, active, chan, tasks>>
    PROVE  OwnerInv'
  <1>1. Shape'
    BY DEF Shape, OwnerInv
  <1>2. AnswersHaveReceivers' /\ PermitsAreActive' /\ NoWaiterForgotten'
    BY DEF AnswersHaveReceivers, PermitsAreActive, NoWaiterForgotten, OwnerInv, Waiting, InFlight
  <1>3. TasksAreOfTheGone' /\ EntriesHaveCallers'
    BY DEF TasksAreOfTheGone, EntriesHaveCallers, OwnerInv, Shape, Waiting
  <1> QED BY <1>1, <1>2, <1>3 DEF OwnerInv

\* The steps of a caller between two critical sections.
LEMMA StepsOfACaller ==
    ASSUME OwnerInv, NEW r \in Reqs,
           Arrive(r) \/ Yielded(r) \/ Check(r) \/ Wake(r) \/ Complete(r) \/ Abort(r)
               \/ CancelQueueing(r) \/ CancelCompleting(r)
    PROVE  OwnerInv'
  <1>0. /\ DOMAIN h = Reqs /\ \A q \in Reqs : DOMAIN h[q] = DOMAIN Fresh
        /\ "pc" \in DOMAIN Fresh /\ DOMAIN Finished = DOMAIN Fresh /\ Finished.pc = "done"
    BY DEF OwnerInv, Shape, Fresh, Finished
  <1>1. /\ DOMAIN h' = Reqs /\ \A q \in Reqs : DOMAIN h'[q] = DOMAIN Fresh
        /\ \A q \in Reqs \ {r} : h'[q] = h[q]
        /\ UNCHANGED <<pending, active, chan, tasks>>
        /\ h[r].pc # "done"
    BY <1>0 DEF Arrive, Yielded, Check, Wake, Complete, Abort, CancelQueueing,
       CancelCompleting, queue, quota
  <1>2. CASE Yielded(r) \/ Check(r) \/ Wake(r)
    <2>1. h[r].pc \in WaitingPcs
      BY <1>2 DEF Yielded, Check, Wake, WaitingPcs
    <2>2. h'[r].pc \in {"poll", "expire", "yield", "sleep"}
      <3>1. CASE Yielded(r) \/ Wake(r)
        BY <1>0, <3>1 DEF Yielded, Wake
      <3>2. CASE Check(r)
        BY <1>0, <3>2 DEF Check
      <3> QED BY <1>2, <3>1, <3>2
    <2>3. (Waiting(r)' <=> Waiting(r)) /\ ~InFlight(r)'
      BY <2>1, <2>2 DEF Waiting, WaitingPcs, InFlight
    <2> QED BY <1>1, <2>3, MoveKeepsOwner
  <1>3. CASE Arrive(r) \/ CancelQueueing(r)
    <2>1. h[r].pc \in {"new", "queueing"}
      BY <1>3 DEF Arrive, CancelQueueing
    <2>2. h'[r].pc \in {"queueing", "done"}
      BY <1>0, <1>3 DEF Arrive, CancelQueueing
    <2>3. ~Waiting(r)' /\ ~Waiting(r) /\ ~InFlight(r)'
      BY <2>1, <2>2 DEF Waiting, WaitingPcs, InFlight
    <2> QED BY <1>1, <2>3, MoveKeepsOwner
  <1>4. CASE Complete(r) \/ Abort(r) \/ CancelCompleting(r)
    <2>1. h[r].pc \in {"held", "completing", "aborting"}
      BY <1>4 DEF Complete, Abort, CancelCompleting
    <2>2. h'[r].pc \in {"completing", "aborting", "done"}
      BY <1>0, <1>4 DEF Complete, Abort, CancelCompleting
    <2>3. ~Waiting(r)' /\ ~Waiting(r) /\ InFlight(r)
      BY <2>1, <2>2 DEF Waiting, WaitingPcs, InFlight
    <2> QED BY <1>1, <2>3, MoveKeepsOwner
  <1> QED BY <1>2, <1>3, <1>4

\* Facts about the callers' records that every step below starts from.
LEMMA CallerRecords ==
    ASSUME OwnerInv
    PROVE  /\ DOMAIN h = Reqs /\ \A q \in Reqs : DOMAIN h[q] = DOMAIN Fresh
           /\ "pc" \in DOMAIN Fresh /\ DOMAIN Finished = DOMAIN Fresh /\ Finished.pc = "done"
           /\ \A q \in Reqs : ~(Waiting(q) /\ InFlight(q))
           /\ \A q \in Reqs : h[q].pc = "done" => ~Waiting(q) /\ ~InFlight(q)
  BY DEF OwnerInv, Shape, Fresh, Finished, Waiting, WaitingPcs, InFlight

\* A caller enters the queue and begins to wait, or is turned away.
LEMMA EnqueueKeepsOwner ==
    ASSUME OwnerInv, NEW r \in Reqs, Enqueue(r)
    PROVE  OwnerInv'
  <1>1. CASE HasRoom(r)
    <2>1. /\ pending' = pending \cup {r}
          /\ UNCHANGED <<active, chan, tasks>>
          /\ \A q \in Reqs \ {r} : h'[q] = h[q]
          /\ DOMAIN h' = Reqs /\ \A q \in Reqs : DOMAIN h'[q] = DOMAIN Fresh
          /\ h[r].pc = "queueing" /\ h'[r].pc = "poll"
      BY <1>1, CallerRecords DEF Enqueue
    <2>2. Shape'
      BY <2>1 DEF Shape, OwnerInv
    <2>3. chan[r] = NULL /\ \A t \in tasks : t.req # r
      BY <2>1 DEF OwnerInv, AnswersHaveReceivers, TasksAreOfTheGone, Waiting, WaitingPcs
    <2>4. AnswersHaveReceivers' /\ PermitsAreActive' /\ NoWaiterForgotten'
      BY <2>1, <2>3 DEF OwnerInv, AnswersHaveReceivers, PermitsAreActive,
         NoWaiterForgotten, Waiting, WaitingPcs, InFlight
    <2>5. TasksAreOfTheGone' /\ EntriesHaveCallers'
      BY <2>1, <2>3 DEF OwnerInv, Shape, TasksAreOfTheGone, EntriesHaveCallers,
         Waiting, WaitingPcs
    <2> QED BY <2>2, <2>4, <2>5 DEF OwnerInv
  <1>2. CASE ~HasRoom(r)
    <2>1. /\ UNCHANGED <<pending, active, chan, tasks>>
          /\ \A q \in Reqs \ {r} : h'[q] = h[q]
          /\ DOMAIN h' = Reqs /\ \A q \in Reqs : DOMAIN h'[q] = DOMAIN Fresh
          /\ h[r].pc = "queueing" /\ h'[r].pc = "done"
      BY <1>2, CallerRecords DEF Enqueue, queue
    <2>2. /\ Waiting(r)' <=> Waiting(r) 
          /\ InFlight(r)' => InFlight(r)
      BY <2>1 DEF Waiting, WaitingPcs, InFlight
    <2> QED BY <2>1, <2>2, MoveKeepsOwner
  <1> QED BY <1>1, <1>2

\* A caller that stops waiting and is gone: its entry goes now or has a task
\* that removes it, a permit in its channel goes with the channel.
LEMMA LeavingKeepsOwner ==
    ASSUME OwnerInv, NEW r \in Reqs, Waiting(r),
           h' = [h EXCEPT ![r] = Finished],
           chan' = [chan EXCEPT ![r] = NULL],
           active' = active,
           pending' \subseteq pending, pending \ {r} \subseteq pending',
           tasks \subseteq tasks', tasks' \subseteq [kind : TaskKinds, req : Reqs],
           \A t \in tasks' \ tasks : t.req = r,
           r \in pending' => [kind |-> "unpend", req |-> r] \in tasks'
    PROVE  OwnerInv'
  <1>1. /\ \A q \in Reqs \ {r} : h'[q] = h[q] /\ chan'[q] = chan[q]
        /\ DOMAIN h' = Reqs /\ \A q \in Reqs : DOMAIN h'[q] = DOMAIN Fresh
        /\ h'[r].pc = "done" /\ chan'[r] = NULL
    BY CallerRecords DEF OwnerInv, Shape
  <1>2. Shape'
    BY <1>1 DEF Shape, OwnerInv
  <1>3. AnswersHaveReceivers' /\ PermitsAreActive' /\ NoWaiterForgotten'
    BY <1>1, NullIsNoValue DEF OwnerInv, AnswersHaveReceivers, PermitsAreActive,
       NoWaiterForgotten, Waiting, WaitingPcs, InFlight
  <1>4. TasksAreOfTheGone' /\ EntriesHaveCallers'
    BY <1>1 DEF OwnerInv, Shape, TasksAreOfTheGone, EntriesHaveCallers, Waiting
  <1> QED BY <1>2, <1>3, <1>4 DEF OwnerInv

\* Poll, Expire and CancelWaiting: the ways to stop waiting without a permit.
LEMMA PollKeepsOwner ==
    ASSUME OwnerInv, NEW r \in Reqs, Poll(r)
    PROVE  OwnerInv'
  <1>0. h[r].pc = "poll" /\ Waiting(r)
    BY DEF Poll, Waiting, WaitingPcs
  <1>1. CASE r \in Oversized
    <2>1. /\ remove_pending({r})
          /\ h' = [h EXCEPT ![r] = Finished]
          /\ chan' = [chan EXCEPT ![r] = NULL]
          /\ active' = active
      BY <1>1 DEF Poll, DropReceiver
    <2>2. /\ tasks \subseteq tasks' /\ tasks' \subseteq [kind : TaskKinds, req : Reqs]
          /\ \A t \in tasks' \ tasks : t.req = r
      BY <1>1 DEF Poll, DropReceiver, TaskKinds, OwnerInv, Shape
    <2> QED BY <1>0, <2>1, <2>2, LeavingKeepsOwner DEF remove_pending, OwnerInv, Shape
  <1>2. CASE r \notin Oversized
    <2>1. PICK evs, marks, wake :
              /\ dispatch_ready(evs, marks, h[r].now)
              /\ h' = [h EXCEPT ![r].pc = "check", ![r].wake = wake]
              /\ tasks' = tasks
      BY <1>2 DEF Poll
    <2>2. /\ DOMAIN h' = Reqs /\ \A q \in Reqs : DOMAIN h'[q] = DOMAIN Fresh
          /\ \A q \in Reqs \ {r} : h'[q] = h[q]
          /\ h'[r].pc = "check"
      BY <2>1, CallerRecords
    <2>3. \A q \in Reqs : /\ Waiting(q)' <=> Waiting(q)
                          /\ InFlight(q)' <=> InFlight(q)
                          /\ h[q].pc = "done" => h'[q].pc = "done"
      BY <1>0, <2>2 DEF Waiting, WaitingPcs, InFlight
    <2> QED BY <1>0, <2>1, <2>2, <2>3, DispatchKeepsOwner
  <1> QED BY <1>1, <1>2

\* max_wait_exceeded, and a caller that vanishes while it waits.
LEMMA ExpireKeepsOwner ==
    ASSUME OwnerInv, NEW r \in Reqs, Expire(r) \/ CancelWaiting(r)
    PROVE  OwnerInv'
  <1>1. CASE Expire(r)
    <2>1. /\ Waiting(r) /\ h' = [h EXCEPT ![r] = Finished]
          /\ chan' = [chan EXCEPT ![r] = NULL] /\ active' = active
          /\ pending' = pending \ {r}
      BY <1>1 DEF Expire, Waiting, WaitingPcs, DropReceiver, remove_pending, quota
    <2>2. /\ tasks \subseteq tasks' /\ tasks' \subseteq [kind : TaskKinds, req : Reqs]
          /\ \A t \in tasks' \ tasks : t.req = r
      BY <1>1 DEF Expire, DropReceiver, TaskKinds, OwnerInv, Shape
    <2> QED BY <2>1, <2>2, LeavingKeepsOwner
  <1>2. CASE CancelWaiting(r)
    <2>1. /\ Waiting(r) /\ h' = [h EXCEPT ![r] = Finished]
          /\ chan' = [chan EXCEPT ![r] = NULL] /\ active' = active
          /\ pending' = pending
      BY <1>2 DEF CancelWaiting, queue, quota
    <2>2. /\ tasks \subseteq tasks' /\ tasks' \subseteq [kind : TaskKinds, req : Reqs]
          /\ \A t \in tasks' \ tasks : t.req = r
          /\ [kind |-> "unpend", req |-> r] \in tasks'
      BY <1>2 DEF CancelWaiting, TaskKinds, OwnerInv, Shape
    <2> QED BY <2>1, <2>2, LeavingKeepsOwner
  <1> QED BY <1>1, <1>2

\* The caller takes what is in its channel.
LEMMA ReceiveKeepsOwner ==
    ASSUME OwnerInv, NEW r \in Reqs, Receive(r)
    PROVE  OwnerInv'
  <1>0. /\ Waiting(r) /\ chan[r] # NULL /\ r \notin pending
        /\ chan' = [chan EXCEPT ![r] = NULL]
        /\ UNCHANGED <<pending, active, tasks>>
    BY DEF Receive, Waiting, WaitingPcs, queue, quota, OwnerInv, AnswersHaveReceivers
  <1>1. CASE chan[r] = "permit"
    <2>1. /\ \A q \in Reqs \ {r} : h'[q] = h[q] /\ chan'[q] = chan[q]
          /\ DOMAIN h' = Reqs /\ \A q \in Reqs : DOMAIN h'[q] = DOMAIN Fresh
          /\ h'[r].pc = "held" /\ chan'[r] = NULL
      BY <1>0, <1>1, CallerRecords DEF Receive, OwnerInv, Shape
    <2>2. Shape' /\ \A t \in tasks : t.req # r
      BY <1>0, <2>1, CallerRecords DEF Shape, OwnerInv, TasksAreOfTheGone
    <2>3. AnswersHaveReceivers' /\ PermitsAreActive' /\ NoWaiterForgotten'
      BY <1>0, <1>1, <2>1 DEF OwnerInv, AnswersHaveReceivers, PermitsAreActive,
         NoWaiterForgotten, Waiting, WaitingPcs, InFlight
    <2>4. TasksAreOfTheGone' /\ EntriesHaveCallers'
      BY <1>0, <2>1, <2>2 DEF OwnerInv, Shape, TasksAreOfTheGone, EntriesHaveCallers, Waiting
    <2> QED BY <2>2, <2>3, <2>4 DEF OwnerInv
  <1>2. CASE chan[r] # "permit"
    <2>1. h' = [h EXCEPT ![r] = Finished]
      BY <1>2 DEF Receive
    <2> QED BY <1>0, <2>1, LeavingKeepsOwner DEF OwnerInv, Shape
  <1> QED BY <1>1, <1>2

\* A permit is given back, or its caller goes and leaves a task to do so.
LEMMA ReturningKeepsOwner ==
    ASSUME OwnerInv, NEW r \in Reqs,
           CompleteLocked(r) \/ AbortLocked(r) \/ CancelHeld(r)
    PROVE  OwnerInv'
  <1>1. /\ InFlight(r) /\ h' = [h EXCEPT ![r] = Finished]
        /\ UNCHANGED <<pending, chan>>
        /\ active' = active \/ active' = active \ {r}
        /\ tasks \subseteq tasks' /\ tasks' \subseteq tasks \cup [kind : TaskKinds, req : {r}]
    BY DEF CompleteLocked, AbortLocked, CancelHeld, InFlight, queue, quota, TaskKinds
  <1>2. /\ \A q \in Reqs \ {r} : h'[q] = h[q]
        /\ DOMAIN h' = Reqs /\ \A q \in Reqs : DOMAIN h'[q] = DOMAIN Fresh
        /\ h'[r].pc = "done" /\ ~Waiting(r) /\ chan[r] = NULL
    BY <1>1, CallerRecords DEF OwnerInv, AnswersHaveReceivers
  <1>3. Shape'
    BY <1>1, <1>2 DEF Shape, OwnerInv
  <1>4. AnswersHaveReceivers' /\ PermitsAreActive' /\ NoWaiterForgotten'
    BY <1>1, <1>2, NullIsNoValue DEF OwnerInv, AnswersHaveReceivers, PermitsAreActive,
       NoWaiterForgotten, Waiting, WaitingPcs, InFlight
  <1>5. TasksAreOfTheGone' /\ EntriesHaveCallers'
    BY <1>1, <1>2, CallerRecords DEF OwnerInv, Shape, TasksAreOfTheGone,
       EntriesHaveCallers, Waiting
  <1> QED BY <1>3, <1>4, <1>5 DEF OwnerInv

\* The tasks of the drop handlers.
LEMMA TasksKeepOwner ==
    ASSUME OwnerInv, NEW r \in Reqs, Release(r) \/ Unpend(r)
    PROVE  OwnerInv'
  <1>1. /\ UNCHANGED <<chan, h>> /\ tasks' \subseteq tasks
        /\ pending' \subseteq pending /\ pending \ {r} \subseteq pending'
        /\ active' \subseteq active /\ active \ {r} \subseteq active'
        /\ \E t \in tasks : t.req = r
    BY DEF Release, Unpend, queue, remove_pending
  <1>2. h[r].pc = "done" /\ ~Waiting(r) /\ ~InFlight(r) /\ chan[r] = NULL
    BY <1>1, CallerRecords DEF OwnerInv, TasksAreOfTheGone, AnswersHaveReceivers
  <1>3. Shape' /\ TasksAreOfTheGone'
    BY <1>1 DEF Shape, OwnerInv, TasksAreOfTheGone
  <1>4. AnswersHaveReceivers' /\ PermitsAreActive' /\ NoWaiterForgotten'
    BY <1>1, <1>2, NullIsNoValue DEF OwnerInv, AnswersHaveReceivers, PermitsAreActive,
       NoWaiterForgotten, Waiting, InFlight
  <1>5. EntriesHaveCallers'
    <2>1. CASE Release(r)
      <3>1. /\ tasks' = tasks \ {[kind |-> "release", req |-> r]}
            /\ UNCHANGED <<pending, h>>
        BY <2>1 DEF Release, queue
      <3> QED BY <3>1 DEF OwnerInv, EntriesHaveCallers, Waiting
    <2>2. CASE Unpend(r)
      <3>1. /\ tasks' = tasks \ {[kind |-> "unpend", req |-> r]}
            /\ pending' = pending \ {r} /\ h' = h
        BY <2>2 DEF Unpend, remove_pending
      <3> QED BY <3>1 DEF OwnerInv, EntriesHaveCallers, Waiting
    <2> QED BY <2>1, <2>2
  <1> QED BY <1>3, <1>4, <1>5 DEF OwnerInv

\* The invariant is inductive.
LEMMA OwnerStep == OwnerInv /\ [Next]_vars => OwnerInv'
  <1> SUFFICES ASSUME OwnerInv, [Next]_vars PROVE OwnerInv'
    OBVIOUS
  <1>1. CASE DispatchStep
    <2>1. PICK now : dispatch_ready(events, pacing, now)
      BY <1>1 DEF DispatchStep
    <2>2. UNCHANGED <<h, tasks>>
      BY <1>1 DEF DispatchStep
    <2> QED BY <2>1, <2>2, CallerRecords, DispatchKeepsOwner DEF Waiting, InFlight
  <1>2. ASSUME NEW r \in Reqs, CallerNext(r) PROVE OwnerInv'
    BY <1>2, StepsOfACaller, EnqueueKeepsOwner, PollKeepsOwner, ExpireKeepsOwner,
       ReceiveKeepsOwner, ReturningKeepsOwner, TasksKeepOwner DEF CallerNext
  <1>3. CASE Tick \/ UNCHANGED vars
    BY <1>3 DEF Tick, vars, queue, quota, OwnerInv, Shape, AnswersHaveReceivers,
       PermitsAreActive, TasksAreOfTheGone, EntriesHaveCallers, NoWaiterForgotten,
       Waiting, InFlight
  <1> QED BY <1>1, <1>2, <1>3 DEF Next

\* Who owns what, in every reachable state.
LEMMA OwnerAlways == Spec => []OwnerInv
  BY OwnerInit, OwnerStep, PTL DEF Spec

\* NoWaiterForgotten holds for any number of callers: a waiting acquire is in
\* the queue or has its answer, so it never returns WaiterCancelled.
THEOREM WaitersAreRemembered == Spec => []NoWaiterForgotten
  <1>1. OwnerInv => NoWaiterForgotten
    BY DEF OwnerInv
  <1> QED BY <1>1, OwnerAlways, PTL

-------------------------------------------------------------------------------
(* No rule has more entries in State.active than it allows.                *)

\* A concurrency limit is a positive number.
LEMMA LimitIsPositive ==
    ASSUME NEW l \in Rules, l.max_concurrency # NULL
    PROVE  l.max_concurrency \in Nat \ {0}
  <1>1. "max_concurrency" \in OptionalCaps
    BY DEF OptionalCaps
  <1> QED BY <1>1, PolicyIsValid DEF Rules

\* Slots are only given back: the count of every scope can only shrink.
LEMMA FewerSlots ==
    ASSUME OwnerInv, ActiveCap, active' \subseteq active
    PROVE  ActiveCap'
  <1> SUFFICES ASSUME NEW l \in Rules, NEW r \in Reqs,
                      l.max_concurrency # NULL, rule_matches(l, Request[r])
               PROVE  Cardinality(SlotsOf(l, Request[r])') <= l.max_concurrency
    BY DEF ActiveCap
  <1>1. IsFiniteSet(SlotsOf(l, Request[r]))
    BY CallersAreFinite, FS_Subset DEF SlotsOf, OwnerInv, Shape
  <1>2. SlotsOf(l, Request[r])' \subseteq SlotsOf(l, Request[r])
    BY DEF SlotsOf
  <1>3. /\ Cardinality(SlotsOf(l, Request[r])') <= Cardinality(SlotsOf(l, Request[r]))
        /\ IsFiniteSet(SlotsOf(l, Request[r])')
    BY <1>1, <1>2, FS_Subset
  <1>4. /\ Cardinality(SlotsOf(l, Request[r])') \in Nat
        /\ Cardinality(SlotsOf(l, Request[r])) \in Nat
    BY <1>1, <1>3, FS_CardinalityType
  <1>5. Cardinality(SlotsOf(l, Request[r])) <= l.max_concurrency
    BY DEF ActiveCap
  <1> QED BY <1>3, <1>4, <1>5, LimitIsPositive

\* A permit is handed out only when the limits of its own rules and scopes have
\* room; a scope it falls into is one of its own, whoever asks about it.
LEMMA DispatchKeepsCap ==
    ASSUME OwnerInv, ActiveCap, NEW evs, NEW marks, NEW now,
           dispatch_ready(evs, marks, now), now # NULL
    PROVE  ActiveCap'
  <1>1. PICK best \in (pending \ Dead) \cup {NULL} :
              /\ active' = active \cup ({best} \cap Reqs)
              /\ best # NULL => ReadyAt(best, evs, marks, now) = now
    BY DispatchEffect
  <1>2. CASE best = NULL
    BY <1>1, <1>2, CallersAreFinite, FewerSlots
  <1>3. CASE best # NULL
    <2>1. best \in Reqs /\ active' = active \cup {best}
      BY <1>1, <1>3 DEF OwnerInv, Shape
    <2>2. ~AtConcurrencyLimit(Request[best], active)
      BY <1>1, <1>3 DEF ReadyAt, readiness
    <2> SUFFICES ASSUME NEW l \in Rules, NEW r \in Reqs,
                        l.max_concurrency # NULL, rule_matches(l, Request[r])
                 PROVE  Cardinality(SlotsOf(l, Request[r])') <= l.max_concurrency
      BY DEF ActiveCap
    <2> DEFINE old == SlotsOf(l, Request[r])
    <2>3. IsFiniteSet(old) /\ Cardinality(old) \in Nat /\ Cardinality(old) <= l.max_concurrency
      BY CallersAreFinite, FS_Subset, FS_CardinalityType
      DEF SlotsOf, OwnerInv, Shape, ActiveCap
    <2>4. CASE ~SameQuota(l, Request[r], Request[best])
      <3>1. SlotsOf(l, Request[r])' = old
        BY <2>1, <2>4 DEF SlotsOf
      <3> QED BY <2>3, <3>1
    <2>5. CASE SameQuota(l, Request[r], Request[best])
      <3>1. rule_matches(l, Request[best])
        BY <2>5 DEF rule_matches, SameQuota
      <3>2. old = {a \in active : SameQuota(l, Request[best], Request[a])}
        BY <2>5 DEF SameQuota, SlotsOf
      <3>3. ~(Cardinality(old) >= l.max_concurrency)
        BY <2>2, <3>1, <3>2 DEF AtConcurrencyLimit
      <3>4. SlotsOf(l, Request[r])' = old \cup {best}
        BY <2>1, <2>5 DEF SlotsOf
      <3>5. Cardinality(old \cup {best}) = IF best \in old THEN Cardinality(old)
                                           ELSE Cardinality(old) + 1
        BY <2>3, FS_AddElement
      <3> QED BY <2>3, <3>3, <3>4, <3>5, LimitIsPositive
    <2> QED BY <2>4, <2>5
  <1> QED BY <1>2, <1>3

\* The instants dispatch_ready works with are instants, not None.
ClockInv == /\ clock \in Nat
            /\ lock \in Nat \cup {NULL}
            /\ \A r \in Reqs : h[r].now \in Nat

\* The clock and the readings of it that are kept are always instants.
LEMMA ClockStep == OwnerInv /\ ClockInv /\ [Next]_vars => ClockInv'
  <1> SUFFICES ASSUME OwnerInv, ClockInv, [Next]_vars PROVE ClockInv'
    OBVIOUS
  <1>0. /\ DOMAIN h = Reqs /\ \A q \in Reqs : DOMAIN h[q] = DOMAIN Fresh
        /\ "now" \in DOMAIN Fresh /\ "pc" \in DOMAIN Fresh
        /\ Finished.now = 0 /\ [Finished EXCEPT !.pc = "held"].now = 0
    BY DEF OwnerInv, Shape, Fresh, Finished
  <1>1. CASE Tick \/ DispatchStep \/ UNCHANGED vars
    BY <1>1 DEF Tick, DispatchStep, vars, ClockInv
  <1>2. ASSUME NEW r \in Reqs, CallerNext(r) PROVE ClockInv'
    <2>1. clock' = clock
      BY <1>2 DEF CallerNext, Arrive, Enqueue, Yielded, Poll, Receive, Check, Wake, Expire,
         Complete, CompleteLocked, Abort, AbortLocked, CancelQueueing, CancelWaiting,
         CancelHeld, CancelCompleting, Release, Unpend
    <2>2. lock' \in Nat \cup {NULL}
      BY <1>2 DEF CallerNext, Arrive, Enqueue, Yielded, Poll, Receive, Check, Wake, Expire,
         Complete, CompleteLocked, Abort, AbortLocked, CancelQueueing, CancelWaiting,
         CancelHeld, CancelCompleting, Release, Unpend, ClockInv
    <2>3. \A q \in Reqs \ {r} : h'[q] = h[q]
      BY <1>0, <1>2 DEF CallerNext, Arrive, Enqueue, Yielded, Poll, Receive, Check, Wake,
         Expire, Complete, CompleteLocked, Abort, AbortLocked, CancelQueueing,
         CancelWaiting, CancelHeld, CancelCompleting, Release, Unpend
    <2>4. h'[r].now \in Nat
      <3>1. CASE \/ Receive(r) \/ Expire(r) \/ CompleteLocked(r) \/ AbortLocked(r)
                 \/ CancelQueueing(r) \/ CancelWaiting(r) \/ CancelHeld(r)
                 \/ CancelCompleting(r) \/ Release(r) \/ Unpend(r)
        <4>1. h'[r] \in {Finished, [Finished EXCEPT !.pc = "held"], h[r]}
          BY <1>0, <3>1 DEF Receive, Expire, CompleteLocked, AbortLocked, CancelQueueing,
             CancelWaiting, CancelHeld, CancelCompleting, Release, Unpend
        <4>2. h[r].now \in Nat
          BY DEF ClockInv
        <4>3. CASE h'[r] = [Finished EXCEPT !.pc = "held"]
          BY <1>0, <4>3, Zenon, 0 \in Nat
        <4>4. CASE h'[r] = Finished \/ h'[r] = h[r]
          BY <1>0, <4>2, <4>4
        <4> QED BY <4>1, <4>3, <4>4
      <3>2. CASE Arrive(r) \/ Yielded(r) \/ Check(r) \/ Wake(r) \/ Complete(r) \/ Abort(r)
        <4>1. CASE Arrive(r)
          BY <1>0, <4>1 DEF Arrive, ClockInv
        <4>2. CASE Check(r)
          <5>1. \/ h'[r] = [h[r] EXCEPT !.pc = "expire", !.now = 0, !.wake = 0]
                \/ h'[r] = [h[r] EXCEPT !.pc = "yield", !.now = 0]
                \/ h'[r] = [h[r] EXCEPT !.pc = "sleep", !.now = 0, !.wake = clock + h[r].wake]
            BY <1>0, <4>2 DEF Check
          <5>2. DOMAIN h[r] = DOMAIN Fresh
            BY <1>0
          <5>3. CASE h'[r] = [h[r] EXCEPT !.pc = "expire", !.now = 0, !.wake = 0]
            BY <1>0, <5>2, <5>3
          <5>4. CASE h'[r] = [h[r] EXCEPT !.pc = "yield", !.now = 0]
            BY <1>0, <5>2, <5>4
          <5>5. CASE h'[r] = [h[r] EXCEPT !.pc = "sleep", !.now = 0, !.wake = clock + h[r].wake]
            BY <1>0, <5>2, <5>5
          <5> QED BY <5>1, <5>3, <5>4, <5>5
        <4>3. CASE Yielded(r) \/ Wake(r) \/ Complete(r)
          BY <1>0, <4>3 DEF Yielded, Wake, Complete, ClockInv
        <4>4. CASE Abort(r)
          BY <1>0, <4>4 DEF Abort, ClockInv
        <4> QED BY <3>2, <4>1, <4>2, <4>3, <4>4
      <3>3. CASE Enqueue(r)
        BY <1>0, <3>3 DEF Enqueue, ClockInv
      <3>4. CASE Poll(r)
        BY <1>0, <3>4 DEF Poll, ClockInv
      <3> QED BY <1>2, <3>1, <3>2, <3>3, <3>4 DEF CallerNext
    <2> QED BY <2>1, <2>2, <2>3, <2>4 DEF ClockInv
  <1> QED BY <1>1, <1>2 DEF Next

\* Every step keeps State.active within the limits.
LEMMA CapStep == OwnerInv /\ ClockInv /\ ActiveCap /\ [Next]_vars => ActiveCap'
  <1> SUFFICES ASSUME OwnerInv, ClockInv, ActiveCap, [Next]_vars PROVE ActiveCap'
    OBVIOUS
  <1>1. CASE DispatchStep
    BY <1>1, DispatchKeepsCap DEF DispatchStep
  <1>2. ASSUME NEW r \in Reqs, CallerNext(r) PROVE ActiveCap'
    <2>1. CASE Poll(r)
      <3>1. CASE r \in Oversized
        BY <2>1, <3>1, FewerSlots DEF Poll
      <3>2. CASE r \notin Oversized
        <4>1. PICK evs, marks : dispatch_ready(evs, marks, h[r].now)
          BY <2>1, <3>2 DEF Poll
        <4> QED BY <4>1, DispatchKeepsCap, NullIsNoValue DEF ClockInv
      <3> QED BY <3>1, <3>2
    <2>2. CASE ~Poll(r)
      <3>1. active' \subseteq active
        BY <1>2, <2>2 DEF CallerNext, Arrive, Enqueue, Yielded, Receive, Check, Wake,
           Expire, Complete, CompleteLocked, Abort, AbortLocked, CancelQueueing,
           CancelWaiting, CancelHeld, CancelCompleting, Release, Unpend, quota
      <3> QED BY <3>1, FewerSlots
    <2> QED BY <2>1, <2>2
  <1>3. CASE Tick \/ UNCHANGED vars
    <2>1. active' \subseteq active
      BY <1>3 DEF Tick, vars, quota
    <2> QED BY <2>1, FewerSlots
  <1> QED BY <1>1, <1>2, <1>3 DEF Next

\* No slot is taken at the start.
LEMMA CapInit == Init => ClockInv /\ ActiveCap
  <1> SUFFICES ASSUME Init PROVE ClockInv /\ ActiveCap
    OBVIOUS
  <1>1. ClockInv
    BY DEF Init, ClockInv, Fresh
  <1>2. \A l \in Rules, r \in Reqs : SlotsOf(l, Request[r]) = {}
    BY DEF Init, SlotsOf
  <1>3. ActiveCap
    BY <1>2, FS_EmptySet, LimitIsPositive DEF ActiveCap
  <1> QED BY <1>1, <1>3

\* What is in flight is active, so it is within the limits too.
LEMMA CapOfFlights == OwnerInv /\ ActiveCap => ConcurrencyCap
  <1> SUFFICES ASSUME OwnerInv, ActiveCap, NEW l \in Rules, NEW r \in Reqs,
                      l.max_concurrency # NULL, rule_matches(l, Request[r])
               PROVE  Cardinality({q \in Reqs : InFlight(q) /\ SameQuota(l, Request[r], Request[q])})
                          <= l.max_concurrency
    BY DEF ConcurrencyCap
  <1> DEFINE flying == {q \in Reqs : InFlight(q) /\ SameQuota(l, Request[r], Request[q])}
  <1>1. flying \subseteq SlotsOf(l, Request[r])
    BY DEF OwnerInv, PermitsAreActive, SlotsOf
  <1>2. IsFiniteSet(SlotsOf(l, Request[r]))
    BY CallersAreFinite, FS_Subset DEF SlotsOf, OwnerInv, Shape
  <1>3. IsFiniteSet(flying) /\ Cardinality(flying) <= Cardinality(SlotsOf(l, Request[r]))
    BY <1>1, <1>2, FS_Subset
  <1>4. Cardinality(flying) \in Nat /\ Cardinality(SlotsOf(l, Request[r])) \in Nat
    BY <1>2, <1>3, FS_CardinalityType
  <1>5. Cardinality(SlotsOf(l, Request[r])) <= l.max_concurrency
    BY DEF ActiveCap
  <1> QED BY <1>3, <1>4, <1>5, LimitIsPositive

\* max_concurrency is respected for every policy, every set of callers and
\* every interleaving: whoever dispatches, drops, completes or vanishes, and
\* even if slots leak, no scope has more live requests than its rules allow.
THEOREM LimitsAreKept == Spec => []ConcurrencyCap
  <1>1. OwnerInv /\ ClockInv /\ ActiveCap /\ [Next]_vars => (ClockInv /\ ActiveCap)'
    BY ClockStep, CapStep
  <1> QED BY <1>1, OwnerAlways, CapInit, CapOfFlights, PTL DEF Spec

-------------------------------------------------------------------------------
(* No slot is held by nobody, as long as complete and abort run to the end. *)

\* Every step leaves each entry of State.active with an owner.
LEMMA SlotStep ==
    ASSUME LossyCompletion = FALSE
    PROVE  OwnerInv /\ NoSlotLeaks /\ [Next]_vars => NoSlotLeaks'
  <1> SUFFICES ASSUME OwnerInv, NoSlotLeaks, [Next]_vars PROVE NoSlotLeaks'
    OBVIOUS
  <1>1. ASSUME NEW evs, NEW marks, NEW now, dispatch_ready(evs, marks, now),
               tasks' = tasks, \A q \in Reqs : InFlight(q)' <=> InFlight(q)
        PROVE  NoSlotLeaks'
    <2>1. PICK best \in (pending \ Dead) \cup {NULL} :
                /\ active' = active \cup ({best} \cap Reqs)
                /\ chan' = [q \in Reqs |-> Answer(q, best)]
      BY <1>1, DispatchEffect
    <2>2. \A q \in active : q \in Reqs /\ (chan[q] = "permit" => chan'[q] = "permit")
      BY <2>1, NullIsNoValue DEF Answer, OwnerInv, Shape, AnswersHaveReceivers, Dead
    <2>3. \A q \in active' \ active : q \in Reqs /\ chan'[q] = "permit"
      BY <2>1 DEF Answer, OwnerInv, Shape
    <2> QED BY <1>1, <2>2, <2>3 DEF NoSlotLeaks
  <1>2. CASE DispatchStep
    <2>1. PICK now : dispatch_ready(events, pacing, now)
      BY <1>2 DEF DispatchStep
    <2>2. UNCHANGED <<h, tasks>>
      BY <1>2 DEF DispatchStep
    <2> QED BY <1>1, <2>1, <2>2 DEF InFlight
  <1>3. ASSUME NEW r \in Reqs, CallerNext(r) PROVE NoSlotLeaks'
    <2>0. /\ DOMAIN h = Reqs /\ \A q \in Reqs : DOMAIN h[q] = DOMAIN Fresh
          /\ "pc" \in DOMAIN Fresh /\ "pc" \in DOMAIN Finished
          /\ active \subseteq Reqs /\ DOMAIN chan = Reqs
      BY CallerRecords DEF OwnerInv, Shape
    <2>a. ASSUME Waiting(r), tasks \subseteq tasks', active' = active,
                 chan[r] = "permit" => [kind |-> "release", req |-> r] \in tasks',
                 chan' = [chan EXCEPT ![r] = NULL], h' = [h EXCEPT ![r] = Finished]
          PROVE  NoSlotLeaks'
      <3>1. ~InFlight(r) /\ \A q \in Reqs \ {r} : h'[q] = h[q] /\ chan'[q] = chan[q]
        BY <2>0, <2>a, CallerRecords
      <3> QED BY <2>0, <2>a, <3>1 DEF NoSlotLeaks, InFlight
    <2>b. ASSUME Waiting(r), DropReceiver(r), active' = active, h' = [h EXCEPT ![r] = Finished]
          PROVE  NoSlotLeaks'
      <3>1. /\ tasks \subseteq tasks' /\ chan' = [chan EXCEPT ![r] = NULL]
            /\ chan[r] = "permit" => [kind |-> "release", req |-> r] \in tasks'
        BY <2>b DEF DropReceiver
      <3> QED BY <2>a, <2>b, <3>1
    <2>1. CASE \/ Arrive(r) \/ Enqueue(r) \/ Yielded(r) \/ Check(r) \/ Wake(r)
               \/ Complete(r) \/ Abort(r) \/ CancelQueueing(r) \/ CancelCompleting(r)
      <3>1. UNCHANGED <<active, chan, tasks>>
        BY <2>1 DEF Arrive, Enqueue, Yielded, Check, Wake, Complete, Abort,
           CancelQueueing, CancelCompleting, quota
      <3>2. \A q \in Reqs : InFlight(q) => InFlight(q)'
        BY <2>0, <2>1 DEF Arrive, Enqueue, Yielded, Check, Wake, Complete, Abort,
           CancelQueueing, CancelCompleting, InFlight
      <3> QED BY <2>0, <3>1, <3>2 DEF NoSlotLeaks
    <2>2. CASE Receive(r)
      BY <2>0, <2>2 DEF Receive, NoSlotLeaks, InFlight, quota, Finished, Fresh
    <2>3. CASE Poll(r)
      <3>1. CASE r \in Oversized
        <4>1. /\ h[r].pc = "poll" /\ h' = [h EXCEPT ![r] = Finished]
              /\ DropReceiver(r) /\ active' = active
          BY <2>3, <3>1 DEF Poll
        <4> QED BY <2>b, <4>1 DEF Waiting, WaitingPcs
      <3>2. CASE r \notin Oversized
        <4>1. PICK evs, marks, wake :
                  /\ dispatch_ready(evs, marks, h[r].now)
                  /\ h' = [h EXCEPT ![r].pc = "check", ![r].wake = wake]
                  /\ tasks' = tasks
          BY <2>3, <3>2 DEF Poll
        <4>2. \A q \in Reqs : InFlight(q)' <=> InFlight(q)
          BY <2>0, <2>3, <4>1 DEF Poll, InFlight
        <4> QED BY <1>1, <4>1, <4>2
      <3> QED BY <3>1, <3>2
    <2>4. CASE Expire(r) \/ CancelWaiting(r)
      <3>1. CASE Expire(r)
        BY <2>b, <3>1 DEF Expire, Waiting, WaitingPcs, quota
      <3>2. CASE CancelWaiting(r)
        <4>1. /\ tasks \subseteq tasks' /\ active' = active
              /\ chan[r] = "permit" => [kind |-> "release", req |-> r] \in tasks'
              /\ chan' = [chan EXCEPT ![r] = NULL] /\ h' = [h EXCEPT ![r] = Finished]
              /\ Waiting(r)
          BY <3>2 DEF CancelWaiting, quota
        <4> QED BY <2>a, <4>1
      <3> QED BY <2>4, <3>1, <3>2
    <2>5. CASE CompleteLocked(r) \/ AbortLocked(r)
      BY <2>0, <2>5 DEF CompleteLocked, AbortLocked, NoSlotLeaks, InFlight
    <2>6. CASE CancelHeld(r)
      BY <2>0, <2>6 DEF CancelHeld, NoSlotLeaks, InFlight, quota
    <2>7. CASE Release(r) \/ Unpend(r)
      BY <2>0, <2>7 DEF Release, Unpend, NoSlotLeaks, InFlight, quota
    <2> QED BY <1>3, <2>1, <2>2, <2>3, <2>4, <2>5, <2>6, <2>7 DEF CallerNext
  <1>4. CASE Tick \/ UNCHANGED vars
    BY <1>4 DEF Tick, vars, queue, quota, NoSlotLeaks, InFlight
  <1> QED BY <1>2, <1>3, <1>4 DEF Next

\* A slot always has an owner that will give it back, for any number of
\* callers, if no caller vanishes inside complete or abort; SlotLeak shows
\* that it does not hold if one may.
THEOREM SlotsHaveOwners ==
    ASSUME LossyCompletion = FALSE
    PROVE  Spec => []NoSlotLeaks
  <1>1. Init => NoSlotLeaks
    BY DEF Init, NoSlotLeaks
  <1>2. OwnerInv /\ NoSlotLeaks /\ [Next]_vars => NoSlotLeaks'
    BY SlotStep
  <1> QED BY <1>1, <1>2, OwnerAlways, PTL DEF Spec

-------------------------------------------------------------------------------
(* Scheduler implements Permits.                                           *)

\* The stages of a caller, one program counter at a time.
LEMMA Stages ==
    /\ StageOf("new") = "idle" /\ StageOf("done") = "over"
    /\ \A pc \in WaitingPcs \cup {"queueing"} : StageOf(pc) = "waiting"
    /\ \A pc \in {"held", "completing", "aborting"} : StageOf(pc) = "holding"
  <1>1. StageOf("new") = "idle"
    BY DEF StageOf, WaitingPcs
  <1>2. StageOf("done") = "over"
    BY DEF StageOf, WaitingPcs
  <1>3. \A pc \in WaitingPcs \cup {"queueing"} : StageOf(pc) = "waiting"
    BY DEF StageOf, WaitingPcs
  <1>4. \A pc \in {"held", "completing", "aborting"} : StageOf(pc) = "holding"
    BY DEF StageOf, WaitingPcs
  <1> QED BY <1>1, <1>2, <1>3, <1>4

\* A step of one caller is a change of one stage.
LEMMA OneStage ==
    ASSUME NEW r \in Reqs, NEW from, NEW to,
           StageOf(h[r].pc) = from, StageOf(h'[r].pc) = to,
           \A q \in Reqs \ {r} : h'[q] = h[q]
    PROVE  P!Enter(r, from, to)
  BY DEF P!Enter

\* A step that changes no stage and no slot is none of Permits'.
LEMMA SameStages ==
    ASSUME \A q \in Reqs : StageOf(h'[q].pc) = StageOf(h[q].pc), active' = active
    PROVE  UNCHANGED P!vars
  BY DEF P!vars

\* dispatch_ready grants a slot to a call that waits, or does nothing a caller
\* sees; the slots stay within the limits by ActiveCap.
LEMMA DispatchGrants ==
    ASSUME OwnerInv, ActiveCap', active' \subseteq Reqs,
           NEW evs, NEW marks, NEW now, dispatch_ready(evs, marks, now),
           \A q \in Reqs : StageOf(h'[q].pc) = StageOf(h[q].pc)
    PROVE  [P!Next]_P!vars
  <1>1. PICK best \in (pending \ Dead) \cup {NULL} :
              active' = active \cup ({best} \cap Reqs)
    BY DispatchEffect
  <1>2. CASE active' = active
    BY <1>2, SameStages
  <1>3. CASE active' # active
    <2>1. best \in Reqs /\ best \in pending \ Dead /\ best \notin active
          /\ active' = active \cup {best}
      BY <1>1, <1>3, CallersAreFinite
    <2>2. StageOf(h[best].pc) = "waiting"
      BY <2>1, Stages DEF Dead, Waiting
    <2>3. WithinLimits(active')
      BY DEF ActiveCap, SlotsOf, WithinLimits
    <2>4. P!Grant(best)
      BY <2>1, <2>2, <2>3 DEF P!Grant
    <2> QED BY <2>1, <2>4 DEF P!Next
  <1> QED BY <1>2, <1>3

\* What each step of a caller is to Permits.
LEMMA CallerImplementsPermits ==
    ASSUME OwnerInv, OwnerInv', ActiveCap', NEW r \in Reqs, CallerNext(r)
    PROVE  [P!Next]_P!vars
  <1>0. /\ DOMAIN h = Reqs /\ \A q \in Reqs : DOMAIN h[q] = DOMAIN Fresh
        /\ "pc" \in DOMAIN Fresh /\ DOMAIN Finished = DOMAIN Fresh /\ Finished.pc = "done"
        /\ active' \subseteq Reqs
    BY CallerRecords DEF OwnerInv, Shape
  <1>a. ASSUME StageOf(h[r].pc) = "waiting", h' = [h EXCEPT ![r] = Finished], active' = active
        PROVE  P!GiveUp(r)
    <2>1. P!Enter(r, "waiting", "over")
      BY <1>0, <1>a, OneStage, Stages
    <2> QED BY <1>a, <2>1 DEF P!GiveUp
  <1>1. CASE Arrive(r)
    <2>1. P!Enter(r, "idle", "waiting") /\ active' = active
      BY <1>0, <1>1, OneStage, Stages DEF Arrive, quota
    <2> QED BY <2>1 DEF P!Ask, P!Next
  <1>2. CASE Enqueue(r)
    <2>1. active' = active /\ h[r].pc = "queueing"
      BY <1>2 DEF Enqueue
    <2>2. CASE h' = [h EXCEPT ![r] = Finished]
      BY <1>a, <2>1, <2>2, Stages DEF P!Next
    <2>3. CASE h' # [h EXCEPT ![r] = Finished]
      <3>1. h'[r].pc = "poll" /\ \A q \in Reqs \ {r} : h'[q] = h[q]
        BY <1>0, <1>2, <2>3 DEF Enqueue
      <3> QED BY <2>1, <3>1, SameStages, Stages DEF WaitingPcs
    <2> QED BY <2>2, <2>3
  <1>3. CASE Yielded(r) \/ Check(r) \/ Wake(r)
    <2>1. /\ active' = active /\ \A q \in Reqs \ {r} : h'[q] = h[q]
          /\ h[r].pc \in WaitingPcs /\ h'[r].pc \in WaitingPcs
      BY <1>0, <1>3 DEF Yielded, Check, Wake, WaitingPcs, quota
    <2> QED BY <2>1, SameStages, Stages
  <1>4. CASE Complete(r) \/ Abort(r)
    <2>1. /\ active' = active /\ \A q \in Reqs \ {r} : h'[q] = h[q]
          /\ h[r].pc = "held" /\ h'[r].pc \in {"completing", "aborting"}
      BY <1>0, <1>4 DEF Complete, Abort, quota
    <2> QED BY <2>1, SameStages, Stages
  <1>5. CASE Poll(r)
    <2>1. CASE r \in Oversized
      <3>1. h[r].pc = "poll" /\ h' = [h EXCEPT ![r] = Finished] /\ active' = active
        BY <1>5, <2>1 DEF Poll
      <3> QED BY <1>a, <3>1, Stages DEF WaitingPcs, P!Next
    <2>2. CASE r \notin Oversized
      <3>1. PICK evs, marks, wake :
              /\ dispatch_ready(evs, marks, h[r].now)
              /\ h' = [h EXCEPT ![r].pc = "check", ![r].wake = wake]
        BY <1>5, <2>2 DEF Poll
      <3>2. \A q \in Reqs : StageOf(h'[q].pc) = StageOf(h[q].pc)
        BY <1>0, <1>5, <3>1, Stages DEF Poll, WaitingPcs
      <3> QED BY <1>0, <3>1, <3>2, DispatchGrants
    <2> QED BY <2>1, <2>2
  <1>6. CASE Receive(r)
    <2>1. h[r].pc \in WaitingPcs /\ active' = active
      BY <1>6 DEF Receive, WaitingPcs, quota
    <2>2. CASE chan[r] = "permit"
      <3>1. h'[r].pc = "held" /\ \A q \in Reqs \ {r} : h'[q] = h[q]
        BY <1>0, <1>6, <2>2 DEF Receive
      <3>2. P!Enter(r, "waiting", "holding")
        BY <2>1, <3>1, OneStage, Stages
      <3>3. r \in active
        BY <2>2 DEF OwnerInv, PermitsAreActive
      <3> QED BY <2>1, <3>2, <3>3 DEF P!Receive, P!Next
    <2>3. CASE chan[r] # "permit"
      <3>1. h' = [h EXCEPT ![r] = Finished]
        BY <1>6, <2>3 DEF Receive
      <3> QED BY <1>a, <2>1, <3>1, Stages DEF P!Next
    <2> QED BY <2>2, <2>3
  <1>7. CASE Expire(r) \/ CancelWaiting(r) \/ CancelQueueing(r)
    <2>1. /\ h[r].pc \in WaitingPcs \cup {"queueing"} /\ active' = active
          /\ h' = [h EXCEPT ![r] = Finished]
      BY <1>7 DEF Expire, CancelWaiting, CancelQueueing, Waiting, WaitingPcs, quota
    <2> QED BY <1>a, <2>1, Stages DEF P!Next
  <1>8. CASE CompleteLocked(r) \/ AbortLocked(r)
    <2>1. /\ h[r].pc \in {"completing", "aborting"} /\ active' = active \ {r}
          /\ h' = [h EXCEPT ![r] = Finished]
      BY <1>8 DEF CompleteLocked, AbortLocked
    <2>2. P!Enter(r, "holding", "over")
      BY <1>0, <2>1, OneStage, Stages
    <2> QED BY <2>1, <2>2 DEF P!Finish, P!Next
  <1>9. CASE CancelHeld(r) \/ CancelCompleting(r)
    <2>1. /\ h[r].pc \in {"held", "completing", "aborting"} /\ active' = active
          /\ h' = [h EXCEPT ![r] = Finished]
      BY <1>9 DEF CancelHeld, CancelCompleting, quota
    <2>2. P!Enter(r, "holding", "over")
      BY <1>0, <2>1, OneStage, Stages
    <2> QED BY <2>1, <2>2 DEF P!Drop, P!Next
  <1>10. CASE Release(r)
    <2>1. /\ h' = h /\ active' = active \ {r} /\ h[r].pc = "done"
      BY <1>10 DEF Release, OwnerInv, TasksAreOfTheGone
    <2>2. CASE r \in active
      BY <2>1, <2>2, Stages DEF P!Return, P!Next
    <2>3. CASE r \notin active
      BY <2>1, <2>3, SameStages
    <2> QED BY <2>2, <2>3
  <1>11. CASE Unpend(r)
    BY <1>11, SameStages DEF Unpend
  <1> QED BY <1>1, <1>2, <1>3, <1>4, <1>5, <1>6, <1>7, <1>8, <1>9, <1>10, <1>11 DEF CallerNext

\* To its callers the scheduler is Permits, for any number of callers and any
\* policy: LiveRequests may rely on Permits alone.
THEOREM SchedulerImplementsPermits == Spec => ImplementsPermits
  <1>1. Init => P!Init
    BY Stages DEF Init, P!Init, Fresh
  <1>2. /\ OwnerInv /\ OwnerInv' /\ ClockInv /\ ActiveCap /\ ActiveCap' /\ [Next]_vars
        => [P!Next]_P!vars
    <2> SUFFICES ASSUME OwnerInv, OwnerInv', ClockInv, ActiveCap, ActiveCap', [Next]_vars
                 PROVE  [P!Next]_P!vars
      OBVIOUS
    <2>1. CASE DispatchStep
      <3>1. h' = h /\ dispatch_ready(events, pacing, lock) /\ active' \subseteq Reqs
        BY <2>1 DEF DispatchStep, OwnerInv, Shape
      <3> QED BY <3>1, DispatchGrants
    <2>2. CASE \E r \in Reqs : CallerNext(r)
      BY <2>2, CallerImplementsPermits
    <2>3. CASE Tick \/ UNCHANGED vars
      BY <2>3, SameStages DEF Tick, vars, quota
    <2> QED BY <2>1, <2>2, <2>3 DEF Next
  <1>3. OwnerInv /\ ClockInv /\ ActiveCap /\ [Next]_vars => (ClockInv /\ ActiveCap)'
    BY ClockStep, CapStep
  <1> QED BY <1>1, <1>2, <1>3, OwnerAlways, CapInit, PTL DEF Spec, ImplementsPermits, P!Spec

===============================================================================
