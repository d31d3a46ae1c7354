------------------------- MODULE SchedulerQuotaProofs -------------------------
(***************************************************************************)
(* Theorems about the queue of Scheduler, its order and its rates, for any *)
(* number of callers, any policy and any clock.                            *)
(***************************************************************************)
EXTENDS SchedulerProofs, QuotaProofs

-------------------------------------------------------------------------------
(* The bytes of a set of requests.                                         *)

\* The element MapThenSumSet takes out of s next.
OneOf(s) == CHOOSE x \in s : TRUE

\* BytesOf is a sum taken by the recursive function f.
Sum(f, s) == IF s = {} THEN 0 ELSE Request[OneOf(s)].bytes + f[s \ {OneOf(s)}]

\* f is that recursive function, on the subsets of S.
Sums(S, f) == f = [s \in SUBSET S |-> Sum(f, s)]

\* The subsets with at most n elements, and such a function for them alone.
Small(S, n) == {s \in SUBSET S : Cardinality(s) <= n}

SumsSmall(S, n, f) == f = [s \in Small(S, n) |-> Sum(f, s)]

\* BytesOf(S) is the value at S of such a function.
LEMMA BytesAreSummed ==
    ASSUME NEW S
    PROVE  BytesOf(S) = (CHOOSE f : Sums(S, f))[S]
  BY Zenon DEF BytesOf, MapThenSumSet, MapThenFoldSet, Sums, Sum, OneOf

\* There is a function as in Sums: it is built up by the size of its arguments.
LEMMA SumsExist ==
    ASSUME NEW S \in SUBSET Reqs
    PROVE  \E f : Sums(S, f)
  <1> DEFINE G == {m \in Nat : \E k : SumsSmall(S, m, k)}
  <1>0. \A s \in SUBSET S : IsFiniteSet(s) /\ Cardinality(s) \in Nat
    BY CallersAreFinite, FS_Subset, FS_CardinalityType
  <1>1. \A n \in Nat : \A s \in Small(S, n + 1) : s # {} => s \ {OneOf(s)} \in Small(S, n)
    <2> SUFFICES ASSUME NEW n \in Nat, NEW s \in Small(S, n + 1), s # {}
                 PROVE  s \ {OneOf(s)} \in Small(S, n)
      OBVIOUS
    <2>1. OneOf(s) \in s /\ IsFiniteSet(s)
      BY <1>0 DEF OneOf, Small
    <2>2. Cardinality(s \ {OneOf(s)}) = Cardinality(s) - 1
      BY <2>1, FS_RemoveElement
    <2> QED BY <1>0, <2>2 DEF Small
  <1>2. 0 \in G
    <2> DEFINE f == [s \in Small(S, 0) |-> 0]
    <2>1. \A s \in Small(S, 0) : s = {}
      BY <1>0, FS_EmptySet DEF Small
    <2>2. SumsSmall(S, 0, f)
      BY <2>1 DEF Sum, SumsSmall
    <2> QED BY <2>2
  <1>3. ASSUME NEW n \in Nat, n \in G PROVE n + 1 \in G
    <2>1. PICK f : SumsSmall(S, n, f)
      BY <1>3
    <2> DEFINE g == [s \in Small(S, n + 1) |-> Sum(f, s)]
    <2>2. Small(S, n) \subseteq Small(S, n + 1)
      BY <1>0 DEF Small
    <2>3. \A s \in Small(S, n) : g[s] = f[s]
      BY <2>1, <2>2 DEF SumsSmall
    <2>4. \A s \in Small(S, n + 1) : Sum(f, s) = Sum(g, s)
      BY <1>1, <2>3 DEF Sum
    <2>5. SumsSmall(S, n + 1, g)
      BY <2>4 DEF SumsSmall
    <2> HIDE DEF g
    <2> QED BY <2>5
  <1> HIDE DEF G
  <1>4. \A n \in Nat : n \in G
    BY <1>2, <1>3, NumberInduction
  <1>5. Cardinality(S) \in Nat /\ SUBSET S = Small(S, Cardinality(S))
    <2>1. \A s \in SUBSET S : Cardinality(s) <= Cardinality(S)
      BY CallersAreFinite, FS_Subset
    <2> QED BY <1>0, <2>1 DEF Small
  <1>6. PICK f : SumsSmall(S, Cardinality(S), f)
    BY <1>4, <1>5 DEF G
  <1> QED BY <1>5, <1>6 DEF Sums, SumsSmall

\* On the subsets of a smaller set such a function is the same.
LEMMA SumsAgree ==
    ASSUME NEW S \in SUBSET Reqs, NEW T \in SUBSET S, NEW f, NEW g, Sums(S, f), Sums(T, g)
    PROVE  \A s \in SUBSET T : f[s] = g[s]
  <1> DEFINE G == {s \in SUBSET T : f[s] = g[s]}
  <1>0. IsFiniteSet(T)
    BY CallersAreFinite, FS_Subset
  <1>1. ASSUME NEW s \in SUBSET T, \A u \in SUBSET s : u # s => u \in G
        PROVE  s \in G
    <2>1. f[s] = Sum(f, s) /\ g[s] = Sum(g, s)
      BY DEF Sums
    <2>2. CASE s = {}
      BY <2>1, <2>2 DEF Sum
    <2>3. CASE s # {}
      <3>1. OneOf(s) \in s
        BY <2>3 DEF OneOf
      <3>2. s \ {OneOf(s)} \in SUBSET s /\ s \ {OneOf(s)} # s
        BY <3>1
      <3>3. f[s \ {OneOf(s)}] = g[s \ {OneOf(s)}]
        BY <1>1, <3>2
      <3> QED BY <2>1, <3>3 DEF Sum
    <2> QED BY <2>2, <2>3
  <1>2. \A s \in SUBSET T : (\A u \in SUBSET s : u # s => u \in G) => s \in G
    BY <1>1
  <1> HIDE DEF G
  <1>3. \A s \in SUBSET T : s \in G
    BY <1>0, <1>2, SubsetInduction
  <1> QED BY <1>3 DEF G

\* The recursion that BytesOf obeys, whatever set it started from.
LEMMA BytesUnfold ==
    /\ BytesOf({}) = 0
    /\ \A S \in SUBSET Reqs : S # {} =>
           /\ OneOf(S) \in S
           /\ BytesOf(S) = Request[OneOf(S)].bytes + BytesOf(S \ {OneOf(S)})
  <1> DEFINE F(S) == CHOOSE f : Sums(S, f)
  <1>1. \A S \in SUBSET Reqs : Sums(S, F(S))
    BY SumsExist
  <1>2. \A S : BytesOf(S) = F(S)[S]
    BY BytesAreSummed
  <1> HIDE DEF F
  <1>3. \A S \in SUBSET Reqs : BytesOf(S) = Sum(F(S), S)
    BY <1>1, <1>2 DEF Sums
  <1>4. BytesOf({}) = 0
    BY <1>3 DEF Sum
  <1>5. ASSUME NEW S \in SUBSET Reqs, S # {}
        PROVE  /\ OneOf(S) \in S
               /\ BytesOf(S) = Request[OneOf(S)].bytes + BytesOf(S \ {OneOf(S)})
    <2>1. OneOf(S) \in S
      BY <1>5 DEF OneOf
    <2> DEFINE T == S \ {OneOf(S)}
    <2>2. T \in SUBSET S /\ T \in SUBSET Reqs
      BY <2>1
    <2>3. F(S)[T] = F(T)[T]
      <3> HIDE DEF T
      <3> QED BY <1>1, <2>2, SumsAgree
    <2> QED BY <1>2, <1>3, <1>5, <2>1, <2>3 DEF Sum
  <1> QED BY <1>4, <1>5

\* The bytes of any set of callers' requests are a natural number.
LEMMA BytesAreNatural ==
    ASSUME NEW S \in SUBSET Reqs
    PROVE  BytesOf(S) \in Nat
  <1> DEFINE G == {s \in SUBSET Reqs : BytesOf(s) \in Nat}
  <1>1. ASSUME NEW s \in SUBSET Reqs, \A u \in SUBSET s : u # s => u \in G
        PROVE  s \in G
    <2>1. CASE s = {}
      BY <2>1, BytesUnfold
    <2>2. CASE s # {}
      <3>1. OneOf(s) \in s /\ BytesOf(s) = Request[OneOf(s)].bytes + BytesOf(s \ {OneOf(s)})
        BY <2>2, BytesUnfold
      <3>2. s \ {OneOf(s)} \in SUBSET s /\ s \ {OneOf(s)} # s
        BY <3>1
      <3>3. BytesOf(s \ {OneOf(s)}) \in Nat
        BY <1>1, <3>2
      <3>4. Request[OneOf(s)].bytes \in Nat
        BY <3>1, RequestsAreTyped
      <3> QED BY <3>1, <3>3, <3>4
    <2> QED BY <2>1, <2>2
  <1>2. \A s \in SUBSET Reqs : (\A u \in SUBSET s : u # s => u \in G) => s \in G
    BY <1>1
  <1> HIDE DEF G
  <1>3. \A s \in SUBSET Reqs : s \in G
    BY <1>2, CallersAreFinite, SubsetInduction
  <1> QED BY <1>3 DEF G

\* Whichever element is taken first, the sum is the same.
LEMMA BytesOfOneMore ==
    ASSUME NEW S \in SUBSET Reqs, NEW r \in S
    PROVE  BytesOf(S) = Request[r].bytes + BytesOf(S \ {r})
  <1> DEFINE Adds(s, q) == BytesOf(s) = Request[q].bytes + BytesOf(s \ {q})
             G == {s \in SUBSET Reqs : \A q \in s : Adds(s, q)}
  <1>1. ASSUME NEW s \in SUBSET Reqs, \A u \in SUBSET s : u # s => u \in G
        PROVE  s \in G
    <2> SUFFICES ASSUME NEW q \in s PROVE Adds(s, q)
      OBVIOUS
    <2> DEFINE o == OneOf(s)
    <2>1. o \in s /\ BytesOf(s) = Request[o].bytes + BytesOf(s \ {o})
      BY BytesUnfold
    <2> HIDE DEF o
    <2>2. CASE o = q
      BY <2>1, <2>2
    <2>3. CASE o # q
      <3>1. s \ {o} \in G /\ s \ {q} \in G /\ q \in s \ {o} /\ o \in s \ {q}
        BY <1>1, <2>1, <2>3
      <3> DEFINE u == (s \ {q}) \ {o}
      <3>2. u = (s \ {o}) \ {q} /\ u \in SUBSET Reqs
        OBVIOUS
      <3> HIDE DEF u
      <3>3. BytesOf(s \ {o}) = Request[q].bytes + BytesOf(u)
        BY <3>1, <3>2
      <3>4. BytesOf(s \ {q}) = Request[o].bytes + BytesOf(u)
        BY <3>1 DEF u
      <3>5. BytesOf(u) \in Nat /\ Request[q].bytes \in Nat /\ Request[o].bytes \in Nat
        BY <2>1, <3>2, BytesAreNatural, RequestsAreTyped
      <3> QED BY <2>1, <3>3, <3>4, <3>5
    <2> QED BY <2>2, <2>3
  <1>2. \A s \in SUBSET Reqs : (\A u \in SUBSET s : u # s => u \in G) => s \in G
    BY <1>1
  <1> HIDE DEF G
  <1>3. \A s \in SUBSET Reqs : s \in G
    BY <1>2, CallersAreFinite, SubsetInduction
  <1> QED BY <1>3 DEF G

\* What is taken out of the queue is taken off the sum.
LEMMA BytesOfTheRest ==
    ASSUME NEW S \in SUBSET Reqs, NEW R \in SUBSET S
    PROVE  BytesOf(S) = BytesOf(R) + BytesOf(S \ R)
  <1> DEFINE G == {s \in SUBSET R : BytesOf(S) = BytesOf(s) + BytesOf(S \ s)}
  <1>0. IsFiniteSet(R)
    BY CallersAreFinite, FS_Subset
  <1>1. ASSUME NEW s \in SUBSET R, \A u \in SUBSET s : u # s => u \in G
        PROVE  s \in G
    <2>0. \A u \in SUBSET S : BytesOf(u) \in Nat
      BY BytesAreNatural
    <2>1. CASE s = {}
      <3>1. S \ s = S
        BY <2>1
      <3> QED BY <2>0, <2>1, <3>1, BytesUnfold
    <2>2. CASE s # {}
      <3>1. PICK q \in s : TRUE
        BY <2>2
      <3> DEFINE t == s \ {q}
      <3>2. t \in G
        BY <1>1
      <3>3. BytesOf(s) = Request[q].bytes + BytesOf(t)
        BY BytesOfOneMore
      <3>4. (S \ t) \ {q} = S \ s /\ q \in S \ t
        OBVIOUS
      <3>5. BytesOf(S \ t) = Request[q].bytes + BytesOf(S \ s)
        BY <3>4, BytesOfOneMore
      <3>6. Request[q].bytes \in Nat /\ t \in SUBSET S
        BY RequestsAreTyped
      <3> HIDE DEF t
      <3> QED BY <2>0, <3>2, <3>3, <3>5, <3>6
    <2> QED BY <2>1, <2>2
  <1>2. \A s \in SUBSET R : (\A u \in SUBSET s : u # s => u \in G) => s \in G
    BY <1>1
  <1> HIDE DEF G
  <1>3. \A s \in SUBSET R : s \in G
    BY <1>0, <1>2, SubsetInduction
  <1> QED BY <1>3 DEF G

-------------------------------------------------------------------------------
(* The values of the variables, and the bounds of the queue.               *)

\* The program counter and the local instants of a caller.
CallerTypes ==
    [pc : WaitingPcs \cup {"new", "queueing", "held", "completing", "aborting", "done"},
     deadline : Nat, now : Nat, wake : Nat, enqueued_at : Nat, id : Nat]

\* An Option<Instant>.
Instants == Nat \cup {NULL}

\* What TypeOK says of the instants and of the callers, and the types of the
\* events and the marks that the quotas go by.
TypeInv ==
    /\ clock \in 0..MaxTime /\ lock \in Instants
    /\ next_id \in Nat /\ coalesce_until \in Instants
    /\ h \in [Reqs -> CallerTypes]
    /\ sent \in [Reqs -> Instants]
    /\ events \in Seq(EventTypes) /\ AreMarks(pacing)

\* What the fields of a request are.
LEMMA FieldsAreTyped ==
    ASSUME NEW r \in Reqs
    PROVE  /\ Request[r].input \in Nat /\ Request[r].output \in Nat
           /\ Request[r].bytes \in Nat /\ Request[r].retry_after \in Nat
  BY RequestsAreTyped

\* What dispatch_ready leaves in the quota state.
LEMMA DispatchTypes ==
    ASSUME OwnerInv, TypeInv, NEW evs \in Seq(EventTypes), NEW marks, AreMarks(marks),
           NEW now \in Nat, dispatch_ready(evs, marks, now)
    PROVE  /\ events' \in Seq(EventTypes) /\ AreMarks(pacing')
           /\ coalesce_until' \in Instants /\ sent' \in [Reqs -> Instants]
  <1>1. ASSUME NEW best \in ReadyNow(evs, marks, now), Dispatch(best, evs, marks, now),
               UNCHANGED coalesce_until
        PROVE  /\ events' \in Seq(EventTypes) /\ AreMarks(pacing')
               /\ coalesce_until' \in Instants /\ sent' \in [Reqs -> Instants]
    <2>1. best \in Reqs
      BY DEF ReadyNow, OwnerInv, Shape
    <2> DEFINE q == Request[best]
               e == [req |-> best, at |-> now, input |-> q.input, output |-> q.output]
    <2>2. q.input \in Nat /\ q.output \in Nat
      BY <2>1, FieldsAreTyped
    <2>3. e \in EventTypes
      BY <2>1, <2>2 DEF EventTypes
    <2>4. events' = Append(evs, e) /\ pacing' = update_pacing(marks, q, q.input, q.output, now)
          /\ sent' = [sent EXCEPT ![best] = clock]
      BY <1>1 DEF Dispatch
    <2>5. clock \in Nat /\ coalesce_until' \in Instants /\ sent \in [Reqs -> Instants]
      BY <1>1, BoundsAreNumbers DEF TypeInv
    <2>6. sent' \in [Reqs -> Instants]
      BY <2>4, <2>5 DEF Instants
    <2> HIDE DEF q, e
    <2>7. events' \in Seq(EventTypes)
      BY <2>3, <2>4
    <2>8. AreMarks(pacing')
      BY <2>2, <2>4, MarksStayTyped
    <2> QED BY <2>5, <2>6, <2>7, <2>8
  <1>2. ASSUME events' = evs, pacing' = marks, UNCHANGED sent,
               coalesce_until' \in {NULL, coalesce_until}
        PROVE  /\ events' \in Seq(EventTypes) /\ AreMarks(pacing')
               /\ coalesce_until' \in Instants /\ sent' \in [Reqs -> Instants]
    BY <1>2 DEF TypeInv, Instants
  <1> QED BY <1>1, <1>2 DEF dispatch_ready

\* The next dispatch is due at an instant that has not passed, or at none.
LEMMA DueIsLater ==
    ASSUME OwnerInv, TypeInv, NEW evs \in Seq(EventTypes), NEW marks, AreMarks(marks),
           NEW now \in Nat
    PROVE  LET due == NextDue(evs, marks, now)
           IN  due # NULL => due \in Nat /\ due >= now
  <1> DEFINE due == NextDue(evs, marks, now)
             all == {coalesce_until} \cup {ReadyAt(r, evs, marks, now) : r \in pending \ Dead}
             later == {t \in all : t # NULL /\ t > now}
  <1>1. \A r \in pending \ Dead :
            ReadyAt(r, evs, marks, now) # NULL => ReadyAt(r, evs, marks, now) \in Nat
    <2> SUFFICES ASSUME NEW r \in pending \ Dead, ReadyAt(r, evs, marks, now) # NULL
                 PROVE  ReadyAt(r, evs, marks, now) \in Nat
      OBVIOUS
    <2>1. r \in Reqs /\ ~Impossible(Request[r])
      BY DEF Dead, Oversized, OwnerInv, Shape
    <2>2. Request[r].input \in Nat /\ Request[r].output \in Nat
      BY <2>1, FieldsAreTyped
    <2> QED BY <2>1, <2>2, ReadinessIsAnInstant DEF ReadyAt
  <1>2. later \subseteq Nat
    BY <1>1 DEF TypeInv, Instants
  <1>3. \A t \in later : t > now
    OBVIOUS
  <1>4. due = now \/ due = NULL \/ (later # {} /\ due = Min(later))
    BY DEF NextDue
  <1> HIDE DEF later, due
  <1>5. due = now \/ due = NULL \/ due \in later
    BY <1>2, <1>4, LeastNumber
  <1>6. due # NULL => due \in Nat /\ due >= now
    <2>1. CASE due \in later
      BY <1>2, <1>3, <2>1
    <2>2. CASE due = now
      BY <2>2
    <2> QED BY <1>5, <2>1, <2>2
  <1> QED BY <1>6 DEF due

\* A caller's record keeps its type when some of its fields are set.
LEMMA RecordsAreTyped ==
    ASSUME OwnerInv, TypeInv, NEW r \in Reqs
    PROVE  /\ h[r] \in CallerTypes
           /\ h[r].deadline \in Nat /\ h[r].now \in Nat /\ h[r].wake \in Nat
           /\ h[r].enqueued_at \in Nat /\ h[r].id \in Nat
           /\ Finished \in CallerTypes /\ [Finished EXCEPT !.pc = "held"] \in CallerTypes
           /\ clock \in Nat
  <1>1. h[r] \in CallerTypes
    BY DEF TypeInv
  <1>2. Finished \in CallerTypes /\ [Finished EXCEPT !.pc = "held"] \in CallerTypes
    BY DEF Finished, Fresh, CallerTypes
  <1>3. clock \in Nat
    BY BoundsAreNumbers DEF TypeInv
  <1> QED BY <1>1, <1>2, <1>3 DEF CallerTypes

\* One caller at a time: h' is typed if the record that changes is.
LEMMA OneRecordChanges ==
    ASSUME TypeInv, NEW r \in Reqs, NEW rec \in CallerTypes, h' = [h EXCEPT ![r] = rec]
    PROVE  h' \in [Reqs -> CallerTypes]
  BY DEF TypeInv

\* The time a request may wait.
LEMMA WaitIsNatural ==
    ASSUME NEW r \in Reqs
    PROVE  MaxWait(Request[r]) \in Nat
  <1>1. Policy.max_wait \in Nat /\ Policy.async_max_wait \in Nat
    BY PolicyIsTyped
  <1>2. Max({Policy.async_max_wait, Policy.max_wait}) \in Nat
    <2>1. IsFiniteSet({Policy.async_max_wait, Policy.max_wait})
      BY PairsAreFinite, Zenon
    <2>2. Max({Policy.async_max_wait, Policy.max_wait}) \in {Policy.async_max_wait, Policy.max_wait}
      BY <1>1, <2>1, GreatestNumber
    <2> QED BY <1>1, <2>2
  <1> QED BY <1>1, <1>2 DEF MaxWait

\* How long acquire sleeps: never longer than what remains.
LEMMA WakeIsNatural ==
    ASSUME NEW due, NEW now \in Nat, due # NULL => due \in Nat /\ due >= now,
           NEW remaining \in Nat
    PROVE  (IF due = NULL THEN remaining ELSE Min({due - now, remaining})) \in Nat
  <1>1. CASE due = NULL
    BY <1>1
  <1>2. CASE due # NULL
    <2> DEFINE T == {due - now, remaining}
    <2>1. T \in SUBSET Nat /\ T # {}
      BY <1>2
    <2> HIDE DEF T
    <2>2. Min(T) \in Nat
      BY <2>1, LeastNumber
    <2> QED BY <1>2, <2>2 DEF T
  <1> QED BY <1>1, <1>2

\* The records of the callers stay typed.
LEMMA CallersStayTyped ==
    ASSUME OwnerInv, TypeInv, NEW r \in Reqs, CallerNext(r)
    PROVE  h' \in [Reqs -> CallerTypes]
  <1>0. /\ h \in [Reqs -> CallerTypes] /\ h[r] \in CallerTypes
        /\ Finished \in CallerTypes /\ [Finished EXCEPT !.pc = "held"] \in CallerTypes
        /\ h[r].now \in Nat /\ h[r].deadline \in Nat /\ h[r].wake \in Nat
        /\ clock \in Nat /\ next_id \in Nat
    BY RecordsAreTyped DEF TypeInv
  <1>1. CASE Arrive(r)
    <2> DEFINE rec == [h[r] EXCEPT !.pc = "queueing", !.deadline = clock + MaxWait(Request[r]),
                                   !.wake = clock + Request[r].retry_after]
    <2>1. clock + MaxWait(Request[r]) \in Nat /\ clock + Request[r].retry_after \in Nat
      BY <1>0, WaitIsNatural, FieldsAreTyped
    <2>2. rec \in CallerTypes
      BY <1>0, <2>1 DEF CallerTypes
    <2>3. h' = [h EXCEPT ![r] = rec]
      BY <1>1 DEF Arrive
    <2> QED BY <2>2, <2>3, OneRecordChanges
  <1>2. CASE Enqueue(r)
    <2> DEFINE rec == [h[r] EXCEPT !.pc = "poll", !.now = clock, !.wake = 0,
                                   !.id = next_id, !.enqueued_at = clock]
    <2>1. rec \in CallerTypes
      BY <1>0 DEF CallerTypes, WaitingPcs
    <2>2. h' = [h EXCEPT ![r] = rec] \/ h' = [h EXCEPT ![r] = Finished]
      BY <1>2 DEF Enqueue
    <2> HIDE DEF rec
    <2> QED BY <1>0, <2>1, <2>2, OneRecordChanges
  <1>3. CASE Yielded(r) \/ Wake(r) \/ Complete(r) \/ Abort(r)
    <2> DEFINE yielded == [h[r] EXCEPT !.pc = "poll", !.now = clock]
               woken == [h[r] EXCEPT !.pc = "poll", !.now = clock, !.wake = 0]
               ending == [h[r] EXCEPT !.pc = "completing", !.now = clock]
               aborted == [h[r] EXCEPT !.pc = "aborting"]
    <2>1. yielded \in CallerTypes /\ woken \in CallerTypes
      BY <1>0 DEF CallerTypes, WaitingPcs
    <2>2. ending \in CallerTypes /\ aborted \in CallerTypes
      BY <1>0 DEF CallerTypes
    <2>3. PICK rec \in {yielded, woken, ending, aborted} : h' = [h EXCEPT ![r] = rec]
      BY <1>3 DEF Yielded, Wake, Complete, Abort
    <2>4. rec \in CallerTypes
      BY <2>1, <2>2, <2>3
    <2> QED BY <2>3, <2>4, OneRecordChanges
  <1>4. CASE Poll(r)
    <2>1. CASE r \in Oversized
      BY <1>0, <1>4, <2>1, OneRecordChanges DEF Poll
    <2>2. CASE r \notin Oversized
      <3> DEFINE now == h[r].now
                 evs == pruned_events(events, now)
                 marks == pruned_pacing(pacing, now)
                 remaining == Since(h[r].deadline, now)
                 due == NextDue(evs, marks, now)
                 wake == IF due = NULL THEN remaining ELSE Min({due - now, remaining})
                 rec == [h[r] EXCEPT !.pc = "check", !.wake = wake]
      <3>1. evs \in Seq(EventTypes) /\ AreMarks(marks)
        BY <1>0, PruneKeepsEvents, PruneKeepsMarks DEF TypeInv
      <3>2. remaining \in Nat
        BY <1>0 DEF Since
      <3>3. due # NULL => due \in Nat /\ due >= now
        <4> HIDE DEF evs, marks, now
        <4> QED BY <1>0, <3>1, DueIsLater DEF now
      <3>4. wake \in Nat
        <4> HIDE DEF due, remaining
        <4> QED BY <1>0, <3>2, <3>3, WakeIsNatural
      <3>5. h' = [h EXCEPT ![r] = rec]
        BY <1>4, <2>2 DEF Poll
      <3> HIDE DEF wake
      <3>6. rec \in CallerTypes
        BY <1>0, <3>4 DEF CallerTypes, WaitingPcs
      <3> QED BY <3>5, <3>6, OneRecordChanges
    <2> QED BY <2>1, <2>2
  <1>5. CASE Check(r)
    <2> DEFINE late == [h[r] EXCEPT !.pc = "expire", !.now = 0, !.wake = 0]
               again == [h[r] EXCEPT !.pc = "yield", !.now = 0]
               asleep == [h[r] EXCEPT !.pc = "sleep", !.now = 0, !.wake = clock + h[r].wake]
    <2>1. late \in CallerTypes /\ again \in CallerTypes
      BY <1>0 DEF CallerTypes, WaitingPcs
    <2>2. asleep \in CallerTypes
      <3>1. clock + h[r].wake \in Nat
        BY <1>0
      <3> QED BY <1>0, <3>1 DEF CallerTypes, WaitingPcs
    <2>3. PICK rec \in {late, again, asleep} : h' = [h EXCEPT ![r] = rec]
      BY <1>5 DEF Check
    <2>4. rec \in CallerTypes
      BY <2>1, <2>2, <2>3
    <2> QED BY <2>3, <2>4, OneRecordChanges
  <1>6. CASE Receive(r)
    <2>1. PICK rec \in {Finished, [Finished EXCEPT !.pc = "held"]} : h' = [h EXCEPT ![r] = rec]
      BY <1>6 DEF Receive
    <2> QED BY <1>0, <2>1, OneRecordChanges
  <1>7. CASE \/ Expire(r) \/ CompleteLocked(r) \/ AbortLocked(r) \/ CancelQueueing(r)
             \/ CancelWaiting(r) \/ CancelHeld(r) \/ CancelCompleting(r)
    <2>1. h' = [h EXCEPT ![r] = Finished]
      BY <1>7 DEF Expire, CompleteLocked, AbortLocked, CancelQueueing, CancelWaiting,
         CancelHeld, CancelCompleting
    <2> QED BY <1>0, <2>1, OneRecordChanges
  <1>8. CASE Release(r) \/ Unpend(r)
    BY <1>0, <1>8 DEF Release, Unpend
  <1> QED BY <1>1, <1>2, <1>3, <1>4, <1>5, <1>6, <1>7, <1>8 DEF CallerNext

-------------------------------------------------------------------------------
(* What abort and complete do to the events.                               *)

\* The events up to the n-th without those of r, from those before it.
Kept(r, evs, M, n) ==
    IF n = 0 THEN << >>
    ELSE IF evs[n].req = r THEN M[n-1] ELSE Append(M[n-1], evs[n])

\* M holds what is kept of each of the first m events.
Keeps(r, evs, m, M) == M = [n \in 0..m |-> Kept(r, evs, M, n)]

\* What is kept of the first m events exists, for every m.
LEMMA KeptExists ==
    ASSUME NEW r, NEW evs
    PROVE  \A m \in Nat : \E M : Keeps(r, evs, m, M)
  <1> DEFINE G == {m \in Nat : \E M : Keeps(r, evs, m, M)}
  <1>1. 0 \in G
    <2> DEFINE M == [n \in 0..0 |-> << >>]
    <2>1. Keeps(r, evs, 0, M)
      BY DEF Keeps, Kept
    <2> HIDE DEF M
    <2> QED BY <2>1
  <1>2. \A m \in Nat : m \in G => m + 1 \in G
    <2> SUFFICES ASSUME NEW m \in Nat, m \in G PROVE m + 1 \in G
      OBVIOUS
    <2>1. PICK M : Keeps(r, evs, m, M)
      OBVIOUS
    <2> DEFINE N == [n \in 0..(m + 1) |-> Kept(r, evs, M, n)]
    <2>2. \A n \in 0..m : N[n] = M[n]
      BY <2>1 DEF Keeps
    <2>3. \A n \in 0..(m + 1) : Kept(r, evs, M, n) = Kept(r, evs, N, n)
      <3> SUFFICES ASSUME NEW n \in 0..(m + 1), n # 0
                   PROVE  Kept(r, evs, M, n) = Kept(r, evs, N, n)
        BY DEF Kept
      <3>1. n - 1 \in 0..m
        OBVIOUS
      <3>2. M[n-1] = N[n-1]
        BY <2>2, <3>1
      <3> HIDE DEF N
      <3> QED BY <3>2 DEF Kept
    <2>4. Keeps(r, evs, m + 1, N)
      BY <2>3 DEF Keeps
    <2> HIDE DEF N
    <2> QED BY <2>4
  <1> HIDE DEF G
  <1>3. \A m \in Nat : m \in G
    BY <1>1, <1>2, NumberInduction
  <1> QED BY <1>3 DEF G

\* An event is left if and only if it is not r's.
LEMMA OthersAreKept ==
    ASSUME NEW r, NEW evs \in Seq(EventTypes)
    PROVE  /\ EventsWithout(r, evs) \in Seq(EventTypes)
           /\ Range(EventsWithout(r, evs)) = {e \in Range(evs) : e.req # r}
  <1> DEFINE M == CHOOSE M : Keeps(r, evs, Len(evs), M)
             first(n) == {evs[i] : i \in 1..n}
             G == {n \in Nat : n <= Len(evs) =>
                       /\ M[n] \in Seq(EventTypes)
                       /\ Range(M[n]) = {e \in first(n) : e.req # r}}
  <1>1. EventsWithout(r, evs) = M[Len(evs)]
    BY Zenon DEF EventsWithout, Keeps, Kept
  <1>2. Keeps(r, evs, Len(evs), M)
    <2>1. Len(evs) \in Nat
      OBVIOUS
    <2> QED BY <2>1, KeptExists
  <1> HIDE DEF M
  <1>3. 0 \in G
    <2>1. M[0] = << >>
      BY <1>2 DEF Keeps, Kept
    <2>2. Range(<< >>) = {}
      BY DEF Range
    <2>3. first(0) = {}
      OBVIOUS
    <2>4. << >> \in Seq(EventTypes)
      OBVIOUS
    <2> HIDE DEF first
    <2> QED BY <2>1, <2>2, <2>3, <2>4
  <1> HIDE DEF first
  <1>4. \A n \in Nat : n \in G => n + 1 \in G
    <2> SUFFICES ASSUME NEW n \in Nat, n \in G, n + 1 <= Len(evs)
                 PROVE  /\ M[n + 1] \in Seq(EventTypes)
                        /\ Range(M[n + 1]) = {e \in first(n + 1) : e.req # r}
      OBVIOUS
    <2>0. /\ Len(evs) \in Nat /\ n + 1 \in 1..Len(evs) /\ n <= Len(evs)
          /\ n + 1 # 0 /\ (n + 1) - 1 = n /\ n + 1 \in 0..Len(evs)
      OBVIOUS
    <2>a. M[n] \in Seq(EventTypes) /\ Range(M[n]) = {e \in first(n) : e.req # r}
      BY <2>0
    <2> DEFINE e1 == evs[n + 1]
    <2>1. e1 \in EventTypes
      BY <2>0
    <2>2. M[n + 1] = IF e1.req = r THEN M[n] ELSE Append(M[n], e1)
      <3>1. M[n + 1] = Kept(r, evs, M, n + 1)
        BY <1>2, <2>0 DEF Keeps
      <3> QED BY <2>0, <3>1 DEF Kept
    <2>3. first(n + 1) = first(n) \cup {e1}
      <3>1. 1..(n + 1) = 1..n \cup {n + 1}
        OBVIOUS
      <3> QED BY <3>1 DEF first
    <2> HIDE DEF e1
    <2>4. CASE e1.req = r
      BY <2>a, <2>2, <2>3, <2>4
    <2>5. CASE e1.req # r
      <3>1. Range(Append(M[n], e1)) = Range(M[n]) \cup {e1}
        <4> DEFINE t == M[n]
        <4>1. /\ DOMAIN t = 1..Len(t) /\ Len(t) \in Nat
              /\ DOMAIN Append(t, e1) = 1..(Len(t) + 1)
              /\ \A i \in 1..Len(t) : Append(t, e1)[i] = t[i]
              /\ Append(t, e1)[Len(t) + 1] = e1
          OBVIOUS
        <4>2. 1..(Len(t) + 1) = 1..Len(t) \cup {Len(t) + 1}
          BY <4>1
        <4> HIDE DEF t
        <4>3. Range(Append(t, e1)) = Range(t) \cup {e1}
          BY <4>1, <4>2 DEF Range
        <4> QED BY <4>3 DEF t
      <3> QED BY <2>a, <2>1, <2>2, <2>3, <2>5, <3>1
    <2> QED BY <2>4, <2>5
  <1> HIDE DEF G
  <1>5. \A n \in Nat : n \in G
    BY <1>3, <1>4, NumberInduction
  <1>6. first(Len(evs)) = Range(evs)
    BY DEF Range, first
  <1> QED BY <1>1, <1>5, <1>6 DEF G

\* Reconciling changes neither who an event is of nor when it was.
LEMMA ReconciledEvents ==
    ASSUME events \in Seq(EventTypes), NEW r \in Reqs, NEW usage \in Usages
    PROVE  /\ Reconciled(r, usage) \in Seq(EventTypes)
           /\ \A e \in Range(events) : \E f \in Range(Reconciled(r, usage)) :
                  f.req = e.req /\ f.at = e.at
  <1> DEFINE new == Reconciled(r, usage)
             entry(i) == IF events[i].req = r /\ usage # NULL
                         THEN [events[i] EXCEPT !.input = usage.input, !.output = usage.output]
                         ELSE events[i]
  <1>0. DOMAIN events = 1..Len(events) /\ Len(events) \in Nat
    OBVIOUS
  <1>1. new = [i \in 1..Len(events) |-> entry(i)]
    BY <1>0 DEF Reconciled
  <1>2. ASSUME NEW i \in 1..Len(events)
        PROVE  /\ entry(i) \in EventTypes
               /\ entry(i).req = events[i].req /\ entry(i).at = events[i].at
    <2>1. events[i] \in EventTypes
      OBVIOUS
    <2>2. CASE events[i].req = r /\ usage # NULL
      <3>1. usage.input \in Nat /\ usage.output \in Nat
        BY <2>2, UsagesAreTyped
      <3> QED BY <2>1, <2>2, <3>1 DEF EventTypes
    <2>3. CASE ~(events[i].req = r /\ usage # NULL)
      BY <2>1, <2>3
    <2> QED BY <2>2, <2>3
  <1> HIDE DEF entry, new
  <1>3. new \in Seq(EventTypes)
    BY <1>0, <1>1, <1>2
  <1>4. \A e \in Range(events) : \E f \in Range(new) : f.req = e.req /\ f.at = e.at
    <2> SUFFICES ASSUME NEW e \in Range(events)
                 PROVE  \E f \in Range(new) : f.req = e.req /\ f.at = e.at
      OBVIOUS
    <2>1. PICK i \in 1..Len(events) : e = events[i]
      BY <1>0 DEF Range
    <2>2. new[i] \in Range(new) /\ new[i] = entry(i)
      BY <1>1 DEF Range
    <2> QED BY <1>2, <2>1, <2>2
  <1> QED BY <1>3, <1>4 DEF new

-------------------------------------------------------------------------------
(* Type correctness and the bounds of the queue.                           *)

\* What is pruned at an instant, and what abort rebuilds, is typed.
LEMMA PrunedIsTyped ==
    ASSUME TypeInv, NEW now \in Nat
    PROVE  /\ pruned_events(events, now) \in Seq(EventTypes)
           /\ AreMarks(pruned_pacing(pacing, now))
  BY PruneKeepsEvents, PruneKeepsMarks DEF TypeInv

\* The steps that touch the events and the marks leave them typed.
LEMMA QuotaStaysTyped ==
    ASSUME OwnerInv, TypeInv, NEW r \in Reqs, CallerNext(r)
    PROVE  events' \in Seq(EventTypes) /\ AreMarks(pacing')
  <1>0. /\ clock \in Nat /\ h[r].now \in Nat
        /\ events \in Seq(EventTypes) /\ AreMarks(pacing)
    BY RecordsAreTyped DEF TypeInv
  <1>1. CASE Enqueue(r) \/ Unpend(r)
    BY <1>0, <1>1, PrunedIsTyped DEF Enqueue, Unpend
  <1>2. CASE Poll(r)
    <2> DEFINE evs == pruned_events(events, h[r].now)
               marks == pruned_pacing(pacing, h[r].now)
    <2>1. evs \in Seq(EventTypes) /\ AreMarks(marks)
      BY <1>0, PrunedIsTyped
    <2>2. \/ events' = evs /\ pacing' = marks
          \/ dispatch_ready(evs, marks, h[r].now)
      BY <1>2 DEF Poll
    <2> HIDE DEF evs, marks
    <2> QED BY <1>0, <2>1, <2>2, DispatchTypes
  <1>3. CASE CompleteLocked(r)
    <2>1. PICK usage \in Usages : events' = pruned_events(Reconciled(r, usage), h[r].now)
      BY <1>3 DEF CompleteLocked
    <2>2. Reconciled(r, usage) \in Seq(EventTypes)
      BY <1>0, ReconciledEvents
    <2>3. events' \in Seq(EventTypes)
      BY <1>0, <2>1, <2>2, PruneKeepsEvents
    <2>4. AreMarks(pacing')
      BY <1>0, <1>3, PrunedIsTyped DEF CompleteLocked
    <2> QED BY <2>3, <2>4
  <1>4. CASE AbortLocked(r)
    <2> DEFINE left == EventsWithout(r, events)
    <2>1. left \in Seq(EventTypes)
      BY <1>0, OthersAreKept
    <2>2. events' = pruned_events(left, clock) /\ pacing' = pruned_pacing(rebuild_pacing(left), clock)
      BY <1>4 DEF AbortLocked
    <2> HIDE DEF left
    <2>3. AreMarks(rebuild_pacing(left))
      BY <2>1, RebuiltMarksAreTyped
    <2>4. events' \in Seq(EventTypes)
      BY <1>0, <2>1, <2>2, PruneKeepsEvents
    <2>5. AreMarks(pacing')
      BY <1>0, <2>2, <2>3, PruneKeepsMarks
    <2> QED BY <2>4, <2>5
  <1>5. CASE UNCHANGED <<events, pacing>>
    BY <1>0, <1>5
  <1>6. CASE \/ Arrive(r) \/ Yielded(r) \/ Receive(r) \/ Check(r) \/ Wake(r) \/ Expire(r)
             \/ Complete(r) \/ Abort(r) \/ CancelQueueing(r) \/ CancelWaiting(r)
             \/ CancelHeld(r) \/ CancelCompleting(r) \/ Release(r)
    BY <1>5, <1>6 DEF Arrive, Yielded, Receive, Check, Wake, Expire, Complete, Abort,
       CancelQueueing, CancelWaiting, CancelHeld, CancelCompleting, Release, quota
  <1> QED BY <1>1, <1>2, <1>3, <1>4, <1>6 DEF CallerNext

\* Every step keeps the variables typed.
LEMMA TypeStep == OwnerInv /\ TypeInv /\ [Next]_vars => TypeInv'
  <1> SUFFICES ASSUME OwnerInv, TypeInv, [Next]_vars PROVE TypeInv'
    OBVIOUS
  <1>0. clock \in Nat /\ MaxTime \in Nat
    BY BoundsAreNumbers DEF TypeInv
  <1>1. CASE Tick
    BY <1>0, <1>1 DEF Tick, TypeInv, queue, quota
  <1>2. CASE DispatchStep
    <2>1. lock \in Nat /\ events \in Seq(EventTypes) /\ AreMarks(pacing)
          /\ dispatch_ready(events, pacing, lock)
      BY <1>2 DEF DispatchStep, TypeInv, Instants
    <2>2. /\ events' \in Seq(EventTypes) /\ AreMarks(pacing')
          /\ coalesce_until' \in Instants /\ sent' \in [Reqs -> Instants]
      BY <2>1, DispatchTypes
    <2>3. lock' \in Instants /\ UNCHANGED <<clock, next_id, h>>
      BY <1>2, <2>1 DEF DispatchStep, Instants
    <2> QED BY <2>2, <2>3 DEF TypeInv
  <1>3. ASSUME NEW r \in Reqs, CallerNext(r) PROVE TypeInv'
    <2>1. h' \in [Reqs -> CallerTypes]
      BY <1>3, CallersStayTyped
    <2>2. events' \in Seq(EventTypes) /\ AreMarks(pacing')
      BY <1>3, QuotaStaysTyped
    <2>3. h[r].now \in Nat
      BY RecordsAreTyped
    <2>4. clock' = clock /\ lock' \in Instants
      <3>1. clock' = clock
        BY <1>3 DEF CallerNext, Arrive, Enqueue, Yielded, Poll, Receive, Check, Wake, Expire,
           Complete, CompleteLocked, Abort, AbortLocked, CancelQueueing, CancelWaiting,
           CancelHeld, CancelCompleting, Release, Unpend
      <3>2. lock' \in {lock, NULL, clock, h[r].now}
        BY <1>3 DEF CallerNext, Arrive, Enqueue, Yielded, Poll, Receive, Check, Wake, Expire,
           Complete, CompleteLocked, Abort, AbortLocked, CancelQueueing, CancelWaiting,
           CancelHeld, CancelCompleting, Release, Unpend
      <3> QED BY <1>0, <2>3, <3>1, <3>2 DEF TypeInv, Instants
    <2>5. next_id' \in Nat
      <3>1. next_id' \in {next_id, next_id + 1}
        BY <1>3 DEF CallerNext, Arrive, Enqueue, Yielded, Poll, Receive, Check, Wake, Expire,
           Complete, CompleteLocked, Abort, AbortLocked, CancelQueueing, CancelWaiting,
           CancelHeld, CancelCompleting, Release, Unpend
      <3> QED BY <3>1 DEF TypeInv
    <2>6. coalesce_until' \in Instants /\ sent' \in [Reqs -> Instants]
      <3>1. CASE Enqueue(r)
        <4>1. sent' = sent /\ coalesce_until' \in {coalesce_until, clock + Policy.queue_coalesce}
          BY <3>1 DEF Enqueue, queue
        <4>2. clock + Policy.queue_coalesce \in Nat
          BY <1>0, PolicyIsTyped
        <4> QED BY <4>1, <4>2 DEF TypeInv, Instants
      <3>2. CASE Poll(r)
        <4> DEFINE evs == pruned_events(events, h[r].now)
                   marks == pruned_pacing(pacing, h[r].now)
        <4>1. evs \in Seq(EventTypes) /\ AreMarks(marks)
          BY <2>3, PrunedIsTyped
        <4>2. \/ coalesce_until' \in {NULL, coalesce_until} /\ sent' = sent
              \/ dispatch_ready(evs, marks, h[r].now)
          BY <3>2 DEF Poll, CoalesceUnlessEmpty
        <4> HIDE DEF evs, marks
        <4>3. CASE dispatch_ready(evs, marks, h[r].now)
          BY <2>3, <4>1, <4>3, DispatchTypes
        <4>4. CASE coalesce_until' \in {NULL, coalesce_until} /\ sent' = sent
          BY <4>4 DEF TypeInv, Instants
        <4> QED BY <4>2, <4>3, <4>4
      <3>3. CASE Expire(r) \/ Unpend(r) \/ AbortLocked(r)
        <4>1. coalesce_until' \in {NULL, coalesce_until}
          BY <3>3 DEF Expire, Unpend, AbortLocked, CoalesceUnlessEmpty, queue
        <4>2. sent' \in {sent, [sent EXCEPT ![r] = NULL]}
          BY <3>3 DEF Expire, Unpend, AbortLocked
        <4> QED BY <4>1, <4>2 DEF TypeInv, Instants
      <3>4. CASE \/ Arrive(r) \/ Yielded(r) \/ Receive(r) \/ Check(r) \/ Wake(r)
                 \/ Complete(r) \/ CompleteLocked(r) \/ Abort(r) \/ CancelQueueing(r)
                 \/ CancelWaiting(r) \/ CancelHeld(r) \/ CancelCompleting(r) \/ Release(r)
        <4>1. UNCHANGED <<coalesce_until, sent>>
          BY <3>4 DEF Arrive, Yielded, Receive, Check, Wake, Complete, CompleteLocked, Abort,
             CancelQueueing, CancelWaiting, CancelHeld, CancelCompleting, Release, queue
        <4> QED BY <4>1 DEF TypeInv
      <3> QED BY <1>3, <3>1, <3>2, <3>3, <3>4 DEF CallerNext
    <2> QED BY <2>1, <2>2, <2>4, <2>5, <2>6 DEF TypeInv
  <1>4. CASE UNCHANGED vars
    BY <1>4 DEF vars, queue, quota, TypeInv
  <1> QED BY <1>1, <1>2, <1>3, <1>4 DEF Next

\* The variables are typed at the start.
LEMMA TypeInit == Init => TypeInv
  <1> SUFFICES ASSUME Init PROVE TypeInv
    OBVIOUS
  <1>1. Fresh \in CallerTypes
    BY DEF Fresh, CallerTypes
  <1>2. << >> \in Seq(EventTypes) /\ AreMarks(<< >>)
    BY DEF AreMarks
  <1> QED BY <1>1, <1>2, BoundsAreNumbers DEF Init, TypeInv, Instants

\* What remove_pending does: the bytes that go are those of the entries that go.
LEMMA RemovalKeepsBounds ==
    ASSUME OwnerInv, QueueIsBounded, NEW rs, remove_pending(rs)
    PROVE  QueueIsBounded'
  <1> DEFINE gone == rs \cap pending
             rest == pending \ rs
  <1>1. pending \in SUBSET Reqs /\ gone \in SUBSET pending /\ rest = pending \ gone
        /\ rest \in SUBSET pending /\ IsFiniteSet(pending)
    BY CallersAreFinite, FS_Subset DEF OwnerInv, Shape
  <1>2. BytesOf(pending) = BytesOf(gone) + BytesOf(rest)
    <2> HIDE DEF gone, rest
    <2> QED BY <1>1, BytesOfTheRest
  <1>3. BytesOf(gone) \in Nat /\ BytesOf(rest) \in Nat /\ BytesOf(pending) \in Nat
    <2>1. gone \in SUBSET Reqs /\ rest \in SUBSET Reqs
      BY <1>1
    <2> HIDE DEF gone, rest
    <2> QED BY <1>1, <2>1, BytesAreNatural
  <1>4. pending' = rest /\ pending_bytes' = Since(pending_bytes, BytesOf(gone))
    BY DEF remove_pending
  <1>5. /\ pending_bytes = BytesOf(pending) /\ pending_bytes <= Policy.max_pending_bytes
        /\ Cardinality(pending) <= Policy.max_pending
    BY DEF QueueIsBounded
  <1>6. Policy.max_pending_bytes \in Nat /\ Policy.max_pending \in Nat
    BY PolicyIsTyped
  <1>7. Cardinality(rest) <= Policy.max_pending
    <2>1. IsFiniteSet(rest) /\ Cardinality(rest) <= Cardinality(pending)
      <3> HIDE DEF gone, rest
      <3> QED BY <1>1, FS_Subset
    <2>2. Cardinality(rest) \in Nat /\ Cardinality(pending) \in Nat
      BY <1>1, <2>1, FS_CardinalityType
    <2> HIDE DEF rest
    <2> QED BY <1>5, <1>6, <2>1, <2>2
  <1> HIDE DEF gone, rest
  <1>8. pending_bytes' = BytesOf(rest)
    BY <1>2, <1>3, <1>4, <1>5 DEF Since
  <1>9. BytesOf(rest) <= Policy.max_pending_bytes
    BY <1>2, <1>3, <1>5, <1>6
  <1> QED BY <1>4, <1>7, <1>8, <1>9 DEF QueueIsBounded

\* An entry is added only when there is room for it; the caller had none.
LEMMA EnqueueKeepsBounds ==
    ASSUME OwnerInv, QueueIsBounded, NEW r \in Reqs, Enqueue(r)
    PROVE  QueueIsBounded'
  <1>1. CASE ~HasRoom(r)
    BY <1>1 DEF Enqueue, queue, QueueIsBounded
  <1>2. CASE HasRoom(r)
    <2>1. pending' = pending \cup {r} /\ pending_bytes' = pending_bytes + Request[r].bytes
      BY <1>2 DEF Enqueue
    <2>2. r \notin pending
      BY DEF Enqueue, OwnerInv, EntriesHaveCallers, Waiting, WaitingPcs
    <2>3. pending \in SUBSET Reqs /\ IsFiniteSet(pending) /\ Cardinality(pending) \in Nat
      BY CallersAreFinite, FS_Subset, FS_CardinalityType DEF OwnerInv, Shape
    <2>4. BytesOf(pending \cup {r}) = Request[r].bytes + BytesOf(pending)
      <3> DEFINE more == pending \cup {r}
      <3>1. more \in SUBSET Reqs /\ r \in more /\ more \ {r} = pending
        BY <2>2, <2>3
      <3> HIDE DEF more
      <3>2. BytesOf(more) = Request[r].bytes + BytesOf(more \ {r})
        BY <3>1, BytesOfOneMore
      <3> QED BY <3>1, <3>2 DEF more
    <2>5. Cardinality(pending \cup {r}) = Cardinality(pending) + 1
      BY <2>2, <2>3, FS_AddElement
    <2>6. BytesOf(pending) \in Nat
      BY <2>3, BytesAreNatural
    <2>7. /\ pending_bytes = BytesOf(pending) /\ pending_bytes <= Policy.max_pending_bytes
          /\ Policy.max_pending_bytes \in Nat /\ Policy.max_pending \in Nat
          /\ Request[r].bytes \in Nat
      BY PolicyIsTyped, FieldsAreTyped DEF QueueIsBounded
    <2>8. /\ Cardinality(pending) < Policy.max_pending
          /\ Request[r].bytes <= Since(Policy.max_pending_bytes, pending_bytes)
      BY <1>2 DEF HasRoom
    <2>9. pending_bytes + Request[r].bytes <= Policy.max_pending_bytes
      BY <2>6, <2>7, <2>8 DEF Since
    <2>10. Cardinality(pending) + 1 <= Policy.max_pending
      BY <2>3, <2>7, <2>8
    <2>11. pending_bytes' = BytesOf(pending \cup {r})
      BY <2>1, <2>4, <2>6, <2>7
    <2> QED BY <2>1, <2>5, <2>9, <2>10, <2>11 DEF QueueIsBounded
  <1> QED BY <1>1, <1>2

\* Every step keeps the bounds of the queue.
LEMMA QueueStep == OwnerInv /\ QueueIsBounded /\ [Next]_vars => QueueIsBounded'
  <1> SUFFICES ASSUME OwnerInv, QueueIsBounded, [Next]_vars PROVE QueueIsBounded'
    OBVIOUS
  <1>a. ASSUME NEW evs, NEW marks, NEW now, dispatch_ready(evs, marks, now)
        PROVE  QueueIsBounded'
    <2>1. PICK rs : remove_pending(rs)
      BY <1>a DEF dispatch_ready
    <2> QED BY <2>1, RemovalKeepsBounds
  <1>b. ASSUME UNCHANGED <<pending, pending_bytes>> PROVE QueueIsBounded'
    BY <1>b DEF QueueIsBounded
  <1>1. CASE DispatchStep
    BY <1>a, <1>1 DEF DispatchStep
  <1>2. ASSUME NEW r \in Reqs, CallerNext(r) PROVE QueueIsBounded'
    <2>1. CASE Enqueue(r)
      BY <2>1, EnqueueKeepsBounds
    <2>2. CASE Poll(r)
      <3>1. CASE r \in Oversized
        BY <2>2, <3>1, RemovalKeepsBounds DEF Poll
      <3>2. CASE r \notin Oversized
        <4>1. PICK evs, marks, now : dispatch_ready(evs, marks, now)
          BY <2>2, <3>2 DEF Poll
        <4> QED BY <1>a, <4>1
      <3> QED BY <3>1, <3>2
    <2>3. CASE Expire(r) \/ Unpend(r)
      BY <2>3, RemovalKeepsBounds DEF Expire, Unpend
    <2>4. CASE \/ Arrive(r) \/ Yielded(r) \/ Receive(r) \/ Check(r) \/ Wake(r)
               \/ Complete(r) \/ CompleteLocked(r) \/ Abort(r) \/ AbortLocked(r)
               \/ CancelQueueing(r) \/ CancelWaiting(r) \/ CancelHeld(r)
               \/ CancelCompleting(r) \/ Release(r)
      BY <1>b, <2>4 DEF Arrive, Yielded, Receive, Check, Wake, Complete, CompleteLocked,
         Abort, AbortLocked, CancelQueueing, CancelWaiting, CancelHeld, CancelCompleting,
         Release, queue
    <2> QED BY <1>2, <2>1, <2>2, <2>3, <2>4 DEF CallerNext
  <1>3. CASE Tick \/ UNCHANGED vars
    BY <1>b, <1>3 DEF Tick, vars, queue
  <1> QED BY <1>1, <1>2, <1>3 DEF Next

\* The queue is empty at the start.
LEMMA QueueInit == Init => QueueIsBounded
  <1> SUFFICES ASSUME Init PROVE QueueIsBounded
    OBVIOUS
  <1>1. Cardinality({}) = 0
    BY FS_EmptySet
  <1>2. Policy.max_pending_bytes \in Nat /\ Policy.max_pending \in Nat
    BY PolicyIsTyped
  <1> QED BY <1>1, <1>2, BytesUnfold DEF Init, QueueIsBounded

\* Typed variables and an exact byte counter, in every reachable state.
LEMMA TypesAlways == Spec => [](OwnerInv /\ TypeInv /\ QueueIsBounded)
  <1>1. Init => TypeInv /\ QueueIsBounded
    BY TypeInit, QueueInit
  <1>2. OwnerInv /\ TypeInv /\ QueueIsBounded /\ [Next]_vars => (TypeInv /\ QueueIsBounded)'
    BY TypeStep, QueueStep
  <1> QED BY <1>1, <1>2, OwnerAlways, PTL DEF Spec

\* The queue keeps its two bounds and its byte counter is the sum over its
\* entries, for any number of callers and requests of any size: whoever removes
\* an entry, dispatch_ready, its own caller or the task of its PendingGuard,
\* gives its bytes back once.
THEOREM QueueKeepsItsBounds == Spec => []QueueIsBounded
  BY TypesAlways, PTL

\* The state has its type: in particular every instant that is computed, the
\* sleep until the next dispatch above all, is a number; it would not be if a
\* request that fits no window could reach the search for the first instant at
\* which it fits.
THEOREM SchedulerIsTyped == Spec => []TypeOK
  <1>1. OwnerInv /\ TypeInv /\ QueueIsBounded => TypeOK
    <2> SUFFICES ASSUME OwnerInv, TypeInv, QueueIsBounded PROVE TypeOK
      OBVIOUS
    <2>1. pending_bytes \in Nat
      BY BytesAreNatural DEF QueueIsBounded, OwnerInv, Shape
    <2> QED BY <2>1 DEF TypeOK, TypeInv, OwnerInv, Shape, CallerTypes, Instants
  <1> QED BY <1>1, TypesAlways, PTL

-------------------------------------------------------------------------------
(* First come, first served, among equals.                                 *)

\* Entries have ids below the next one, and a later id means a later arrival.
EntriesAreOrdered ==
    \A p \in pending : Waiting(p) =>
        /\ h[p].id < next_id /\ h[p].enqueued_at <= clock
        /\ \A q \in pending :
               Waiting(q) /\ h[p].id < h[q].id => h[p].enqueued_at <= h[q].enqueued_at

\* A step that adds no entry, and leaves the records of those that wait, keeps
\* the order.
LEMMA OrderOfTheRest ==
    ASSUME OwnerInv, TypeInv, EntriesAreOrdered, pending' \subseteq pending,
           next_id' = next_id, clock' \in Nat, clock' >= clock,
           \A p \in Reqs : Waiting(p)' =>
               /\ Waiting(p) /\ h'[p].id = h[p].id /\ h'[p].enqueued_at = h[p].enqueued_at
    PROVE  EntriesAreOrdered'
  <1>1. pending \subseteq Reqs /\ clock \in Nat
    BY BoundsAreNumbers DEF OwnerInv, Shape, TypeInv
  <1>2. \A p \in pending' : Waiting(p)' => h'[p].id < next_id' /\ h'[p].enqueued_at <= clock'
    <2> SUFFICES ASSUME NEW p \in pending', Waiting(p)'
                 PROVE  h'[p].id < next_id' /\ h'[p].enqueued_at <= clock'
      OBVIOUS
    <2>1. p \in Reqs /\ p \in pending
      BY <1>1
    <2>2. h[p].enqueued_at \in Nat
      BY <2>1, RecordsAreTyped
    <2>3. h[p].id < next_id /\ h[p].enqueued_at <= clock
      BY <2>1 DEF EntriesAreOrdered
    <2> QED BY <1>1, <2>1, <2>2, <2>3
  <1>3. \A p \in pending' : Waiting(p)' =>
            \A q \in pending' : Waiting(q)' /\ h'[p].id < h'[q].id
                                => h'[p].enqueued_at <= h'[q].enqueued_at
    BY <1>1 DEF EntriesAreOrdered
  <1> QED BY <1>2, <1>3 DEF EntriesAreOrdered

\* The new entry has the greatest id and the latest arrival.
LEMMA OrderOfANewEntry ==
    ASSUME OwnerInv, TypeInv, EntriesAreOrdered, NEW r \in Reqs, Enqueue(r)
    PROVE  EntriesAreOrdered'
  <1>0. /\ DOMAIN h = Reqs /\ pending \subseteq Reqs /\ clock \in Nat /\ next_id \in Nat
        /\ clock' = clock /\ h[r].pc = "queueing" /\ ~Waiting(r)
        /\ \A q \in Reqs : DOMAIN h[q] = DOMAIN Fresh
    BY BoundsAreNumbers DEF OwnerInv, Shape, TypeInv, Enqueue, Waiting, WaitingPcs
  <1>1. CASE ~HasRoom(r)
    <2>1. h' = [h EXCEPT ![r] = Finished] /\ pending' = pending /\ next_id' = next_id
      BY <1>1 DEF Enqueue, queue
    <2>2. \A p \in Reqs \ {r} : h'[p] = h[p]
      BY <1>0, <2>1
    <2>3. ~Waiting(r)'
      BY <1>0, <2>1 DEF Waiting, WaitingPcs, Finished, Fresh
    <2> QED BY <1>0, <2>1, <2>2, <2>3, OrderOfTheRest DEF Waiting
  <1>2. CASE HasRoom(r)
    <2>1. /\ pending' = pending \cup {r} /\ next_id' = next_id + 1
          /\ h' = [h EXCEPT ![r].pc = "poll", ![r].now = clock, ![r].wake = 0,
                            ![r].id = next_id, ![r].enqueued_at = clock]
      BY <1>2 DEF Enqueue
    <2>2. \A p \in Reqs \ {r} : h'[p] = h[p]
      BY <1>0, <2>1
    <2>3. h'[r].id = next_id /\ h'[r].enqueued_at = clock
      BY <1>0, <2>1 DEF Fresh
    <2>4. \A p \in pending \ {r} : Waiting(p)' =>
              /\ Waiting(p) /\ h[p].id < next_id /\ h[p].enqueued_at <= clock
              /\ h[p].id \in Nat /\ h[p].enqueued_at \in Nat
      BY <1>0, <2>2, RecordsAreTyped DEF EntriesAreOrdered, Waiting
    <2>5. \A p \in pending' : Waiting(p)' => h'[p].id < next_id' /\ h'[p].enqueued_at <= clock'
      <3> SUFFICES ASSUME NEW p \in pending', Waiting(p)'
                   PROVE  h'[p].id < next_id' /\ h'[p].enqueued_at <= clock'
        OBVIOUS
      <3>1. CASE p = r
        BY <1>0, <2>1, <2>3, <3>1
      <3>2. CASE p # r
        BY <1>0, <2>1, <2>2, <2>4, <3>2
      <3> QED BY <3>1, <3>2
    <2>6. ASSUME NEW p \in pending', Waiting(p)', NEW q \in pending', Waiting(q)',
                 h'[p].id < h'[q].id
          PROVE  h'[p].enqueued_at <= h'[q].enqueued_at
      <3>1. CASE p = r
        <4>1. q = r \/ (q \in pending \ {r} /\ h'[q] = h[q])
          BY <1>0, <2>1, <2>2
        <4>2. h'[p].id = next_id /\ next_id \in Nat
          BY <1>0, <2>3, <3>1
        <4> QED BY <2>3, <2>4, <2>6, <4>1, <4>2
      <3>2. CASE p # r /\ q = r
        BY <1>0, <2>1, <2>2, <2>3, <2>4, <2>6, <3>2
      <3>3. CASE p # r /\ q # r
        BY <1>0, <2>1, <2>2, <2>4, <2>6, <3>3 DEF EntriesAreOrdered
      <3> QED BY <3>1, <3>2, <3>3
    <2> QED BY <2>5, <2>6 DEF EntriesAreOrdered
  <1> QED BY <1>1, <1>2

\* Every step keeps the order.
LEMMA OrderStep == OwnerInv /\ TypeInv /\ EntriesAreOrdered /\ [Next]_vars => EntriesAreOrdered'
  <1> SUFFICES ASSUME OwnerInv, TypeInv, EntriesAreOrdered, [Next]_vars PROVE EntriesAreOrdered'
    OBVIOUS
  <1>0. /\ DOMAIN h = Reqs /\ \A q \in Reqs : DOMAIN h[q] = DOMAIN Fresh
        /\ {"pc", "id", "enqueued_at"} \subseteq DOMAIN Fresh
        /\ Finished.pc = "done" /\ clock \in Nat
        /\ [Finished EXCEPT !.pc = "held"].pc = "held"
    BY BoundsAreNumbers DEF OwnerInv, Shape, TypeInv, Fresh, Finished
  <1>a. ASSUME pending' \subseteq pending, next_id' = next_id, clock' \in {clock, clock + 1},
               h' = h
        PROVE  EntriesAreOrdered'
    <2>1. clock' \in Nat /\ clock' >= clock
      BY <1>0, <1>a
    <2> QED BY <1>a, <2>1, OrderOfTheRest DEF Waiting
  <1>b. ASSUME NEW evs, NEW marks, NEW now, dispatch_ready(evs, marks, now)
        PROVE  pending' \subseteq pending
    BY <1>b DEF dispatch_ready, remove_pending
  <1>1. CASE DispatchStep
    BY <1>a, <1>b, <1>1 DEF DispatchStep
  <1>2. ASSUME NEW r \in Reqs, CallerNext(r) PROVE EntriesAreOrdered'
    <2>1. CASE Enqueue(r)
      BY <2>1, OrderOfANewEntry
    <2>2. CASE ~Enqueue(r)
      <3>1. /\ next_id' = next_id /\ clock' = clock
            /\ \A q \in Reqs \ {r} : h'[q] = h[q]
        BY <1>0, <1>2, <2>2 DEF CallerNext, Arrive, Yielded, Poll, Receive, Check, Wake,
           Expire, Complete, CompleteLocked, Abort, AbortLocked, CancelQueueing,
           CancelWaiting, CancelHeld, CancelCompleting, Release, Unpend
      <3>2. pending' \subseteq pending
        <4>1. CASE Poll(r)
          BY <1>b, <4>1 DEF Poll, remove_pending
        <4>2. CASE ~Poll(r)
          BY <1>2, <2>2, <4>2 DEF CallerNext, Arrive, Yielded, Receive, Check, Wake,
             Expire, Complete, CompleteLocked, Abort, AbortLocked, CancelQueueing,
             CancelWaiting, CancelHeld, CancelCompleting, Release, Unpend, queue, remove_pending
        <4> QED BY <4>1, <4>2
      <3>3. Waiting(r)' => /\ Waiting(r) /\ h'[r].id = h[r].id
                           /\ h'[r].enqueued_at = h[r].enqueued_at
        <4>1. CASE Yielded(r) \/ Wake(r) \/ Check(r) \/ (Poll(r) /\ r \notin Oversized)
          <5>1. Waiting(r)
            BY <4>1 DEF Yielded, Wake, Check, Poll, Waiting, WaitingPcs
          <5>2. h'[r].id = h[r].id /\ h'[r].enqueued_at = h[r].enqueued_at
            <6>1. CASE Yielded(r) \/ Wake(r)
              BY <1>0, <6>1 DEF Yielded, Wake
            <6>2. CASE Check(r)
              <7>1. DOMAIN h[r] = DOMAIN Fresh
                BY <1>0
              <7>2. \/ h'[r] = [h[r] EXCEPT !.pc = "expire", !.now = 0, !.wake = 0]
                    \/ h'[r] = [h[r] EXCEPT !.pc = "yield", !.now = 0]
                    \/ h'[r] = [h[r] EXCEPT !.pc = "sleep", !.now = 0, !.wake = clock + h[r].wake]
                BY <1>0, <6>2 DEF Check
              <7> QED BY <1>0, <7>1, <7>2
            <6>3. CASE Poll(r) /\ r \notin Oversized
              <7>1. PICK wake : h' = [h EXCEPT ![r].pc = "check", ![r].wake = wake]
                BY <6>3 DEF Poll
              <7> QED BY <1>0, <7>1
            <6> QED BY <4>1, <6>1, <6>2, <6>3
          <5> QED BY <5>1, <5>2
        <4>2. CASE Release(r) \/ Unpend(r)
          BY <4>2 DEF Release, Unpend, Waiting
        <4>3. CASE \/ Arrive(r) \/ (Poll(r) /\ r \in Oversized) \/ Receive(r) \/ Expire(r)
                   \/ Complete(r) \/ CompleteLocked(r) \/ Abort(r) \/ AbortLocked(r)
                   \/ CancelQueueing(r) \/ CancelWaiting(r) \/ CancelHeld(r)
                   \/ CancelCompleting(r)
          <5>1. h'[r].pc \in {"queueing", "done", "held", "completing", "aborting"}
            <6>1. CASE Arrive(r) \/ Complete(r) \/ Abort(r)
              BY <1>0, <6>1 DEF Arrive, Complete, Abort
            <6>2. CASE Receive(r)
              <7>1. h'[r] = Finished \/ h'[r] = [Finished EXCEPT !.pc = "held"]
                BY <1>0, <6>2 DEF Receive
              <7> QED BY <1>0, <7>1
            <6>3. CASE ~(Arrive(r) \/ Complete(r) \/ Abort(r) \/ Receive(r))
              <7>1. h' = [h EXCEPT ![r] = Finished]
                BY <4>3, <6>3 DEF Poll, Expire, CompleteLocked, AbortLocked, CancelQueueing,
                   CancelWaiting, CancelHeld, CancelCompleting
              <7> QED BY <1>0, <7>1
            <6> QED BY <6>1, <6>2, <6>3
          <5> QED BY <5>1 DEF Waiting, WaitingPcs
        <4> QED BY <1>2, <2>2, <4>1, <4>2, <4>3 DEF CallerNext
      <3> QED BY <1>0, <3>1, <3>2, <3>3, OrderOfTheRest DEF Waiting
    <2> QED BY <2>1, <2>2
  <1>3. CASE Tick
    BY <1>a, <1>3 DEF Tick, queue
  <1>4. CASE UNCHANGED vars
    BY <1>a, <1>4 DEF vars, queue
  <1> QED BY <1>1, <1>2, <1>3, <1>4 DEF Next

\* Twins differ in their size only.
LEMMA TwinsAreAlike ==
    ASSUME NEW p \in Reqs, NEW q \in Reqs, Twins(p, q)
    PROVE  /\ Alike(Request[p], Request[q])
           /\ Request[p].priority = Request[q].priority /\ Request[p].priority \in Int
  <1> DEFINE Fields == {"provider", "auth_scope", "model", "input", "output",
                        "bytes", "priority", "retry_after", "async_alias"}
  <1>1. DOMAIN Request[p] = Fields /\ DOMAIN Request[q] = Fields
    BY RequestsAreTyped
  <1>2. \A f \in Fields \ {"bytes"} : Request[p][f] = Request[q][f]
    <2> SUFFICES ASSUME NEW f \in Fields \ {"bytes"} PROVE Request[p][f] = Request[q][f]
      OBVIOUS
    <2>1. [Request[p] EXCEPT !.bytes = 0][f] = Request[p][f]
      BY <1>1
    <2>2. [Request[q] EXCEPT !.bytes = 0][f] = Request[q][f]
      BY <1>1
    <2> HIDE DEF Fields
    <2> QED BY <2>1, <2>2 DEF Twins
  <1>3. Alike(Request[p], Request[q]) /\ Request[p].priority = Request[q].priority
    BY <1>2 DEF Alike
  <1> QED BY <1>3, RequestsAreTyped

\* The older of two twins that wait is served first, whatever the instant that
\* dispatch_ready works with: both are ready at the same time, and the older
\* has aged no less.
LEMMA OlderTwinFirst ==
    ASSUME OwnerInv, TypeInv, EntriesAreOrdered,
           NEW evs, NEW marks, NEW now \in Nat, dispatch_ready(evs, marks, now),
           NEW p \in pending, NEW q \in pending, Twins(p, q), h[p].id < h[q].id, Waiting(p),
           sent[q] = NULL, sent'[q] # NULL
    PROVE  p \notin pending'
  <1>1. p \in Reqs /\ q \in Reqs
    BY DEF OwnerInv, Shape
  <1>2. /\ q \in ReadyNow(evs, marks, now)
        /\ \A r \in ReadyNow(evs, marks, now) \ {q} : Before(q, r, now)
        /\ pending' = pending \ (Dead \cup {q})
    <2>1. PICK best \in ReadyNow(evs, marks, now) :
              /\ \A r \in ReadyNow(evs, marks, now) \ {best} : Before(best, r, now)
              /\ pending' = pending \ (Dead \cup {best})
              /\ sent' = [sent EXCEPT ![best] = clock]
      BY DEF dispatch_ready, Dispatch, remove_pending
    <2>2. best = q
      BY <1>1, <2>1 DEF TypeInv
    <2> QED BY <2>1, <2>2
  <1>3. q \in pending \ Dead /\ QueueReady(now) /\ ReadyAt(q, evs, marks, now) = now
    BY <1>2 DEF ReadyNow
  <1>4. ASSUME p \notin Dead PROVE FALSE
    <2>1. p # q
      BY <1>1, RecordsAreTyped
    <2>2. ReadyAt(p, evs, marks, now) = ReadyAt(q, evs, marks, now)
      BY <1>1, TwinsAreAlike, AlikeAreReadyTogether DEF ReadyAt
    <2>3. p \in ReadyNow(evs, marks, now)
      BY <1>3, <1>4, <2>2 DEF ReadyNow
    <2>4. Before(q, p, now)
      BY <1>2, <2>1, <2>3
    <2>5. h[p].enqueued_at <= h[q].enqueued_at
      BY <1>3 DEF EntriesAreOrdered, Dead
    <2>6. /\ h[p].enqueued_at \in Nat /\ h[q].enqueued_at \in Nat
          /\ h[p].id \in Nat /\ h[q].id \in Nat
      BY <1>1, RecordsAreTyped
    <2> DEFINE sp == priority_score(Request[p], h[p].enqueued_at, now)
               sq == priority_score(Request[q], h[q].enqueued_at, now)
    <2>7. sp >= sq /\ sp \in Int /\ sq \in Int
      BY <1>1, <2>5, <2>6, TwinsAreAlike, ScoreGrows
    <2>8. \/ sq > sp
          \/ sq = sp /\ h[q].enqueued_at < h[p].enqueued_at
          \/ sq = sp /\ h[q].enqueued_at = h[p].enqueued_at /\ h[q].id < h[p].id
      BY <2>4 DEF Before
    <2> HIDE DEF sp, sq
    <2> QED BY <2>5, <2>6, <2>7, <2>8
  <1> QED BY <1>2, <1>4

\* Only dispatch_ready gives a permit to a request that has none.
LEMMA OnlyDispatchSends ==
    ASSUME OwnerInv, TypeInv, [Next]_vars, NEW q \in Reqs, sent[q] = NULL, sent'[q] # NULL
    PROVE  \E evs, marks : \E now \in Nat : dispatch_ready(evs, marks, now)
  <1>1. sent' # sent
    OBVIOUS
  <1>2. CASE DispatchStep
    BY <1>2 DEF DispatchStep, TypeInv, Instants
  <1>3. ASSUME NEW r \in Reqs, CallerNext(r)
        PROVE  \E evs, marks : \E now \in Nat : dispatch_ready(evs, marks, now)
    <2>1. CASE Poll(r)
      <3>1. h[r].now \in Nat
        BY RecordsAreTyped
      <3>2. r \notin Oversized
        BY <1>1, <2>1 DEF Poll
      <3> QED BY <2>1, <3>1, <3>2 DEF Poll
    <2>2. CASE AbortLocked(r)
      <3>1. sent' = [sent EXCEPT ![r] = NULL]
        BY <2>2 DEF AbortLocked
      <3>2. sent'[q] = NULL
        BY <3>1 DEF TypeInv
      <3> QED BY <3>2
    <2>3. CASE ~Poll(r) /\ ~AbortLocked(r)
      <3>1. sent' = sent
        BY <1>3, <2>3 DEF CallerNext, Arrive, Enqueue, Yielded, Receive, Check, Wake,
           Expire, Complete, CompleteLocked, Abort, CancelQueueing,
           CancelWaiting, CancelHeld, CancelCompleting, Release, Unpend
      <3> QED BY <1>1, <3>1
    <2> QED BY <2>1, <2>2, <2>3
  <1>4. CASE Tick \/ UNCHANGED vars
    BY <1>1, <1>4 DEF Tick, vars
  <1> QED BY <1>2, <1>3, <1>4 DEF Next

\* First come, first served among requests that differ in their size only, for
\* any policy and any number of callers: ageing never lets the later one pass,
\* nor does a caller that dispatches with an old reading of the clock.
THEOREM EqualsAreServedInOrder == Spec => FifoAmongEquals
  <1>1. Init => EntriesAreOrdered
    BY DEF Init, EntriesAreOrdered
  <1>2. OwnerInv /\ TypeInv /\ EntriesAreOrdered /\ [Next]_vars
        => [\A p, q \in pending :
                /\ Twins(p, q) /\ h[p].id < h[q].id /\ Waiting(p)
                /\ sent[q] = NULL /\ sent'[q] # NULL
                => p \notin pending']_vars
    <2> SUFFICES ASSUME OwnerInv, TypeInv, EntriesAreOrdered, [Next]_vars,
                        NEW p \in pending, NEW q \in pending, Twins(p, q),
                        h[p].id < h[q].id, Waiting(p), sent[q] = NULL, sent'[q] # NULL
                 PROVE  p \notin pending'
      OBVIOUS
    <2>1. q \in Reqs
      BY DEF OwnerInv, Shape
    <2>2. PICK evs, marks : \E now \in Nat : dispatch_ready(evs, marks, now)
      BY <2>1, OnlyDispatchSends
    <2> QED BY <2>2, OlderTwinFirst
  <1> QED BY <1>1, <1>2, OrderStep, TypesAlways, PTL DEF Spec, FifoAmongEquals

-------------------------------------------------------------------------------
(* How old a reading of the clock can be.                                  *)

\* Between reading the clock and the end of what is done with the reading.
WithReading == {"poll", "check", "completing"}

\* The reading t is at most MaxLag old at the time c.
Recent(t, c) == t <= c /\ c - t <= MaxLag

\* Every reading in use is recent, the one dispatch_available goes by under the
\* mutex too, and no dispatch lies in the future.
ReadingsAreRecent ==
    /\ lock # NULL => Recent(lock, clock)
    /\ \A r \in Reqs : h[r].pc \in WithReading => Recent(h[r].now, clock)
    /\ \A r \in Reqs : sent[r] # NULL => sent[r] <= clock

\* A dispatch is recorded at the real time, an abort takes the record back.
LEMMA SentOnlyNow ==
    ASSUME OwnerInv, TypeInv, [Next]_vars
    PROVE  \A p \in Reqs : sent'[p] \in {sent[p], clock, NULL}
  <1>a. ASSUME NEW evs, NEW marks, NEW now, dispatch_ready(evs, marks, now)
        PROVE  \A p \in Reqs : sent'[p] \in {sent[p], clock, NULL}
    <2>1. sent' = sent \/ \E best \in Reqs : sent' = [sent EXCEPT ![best] = clock]
      BY <1>a DEF dispatch_ready, Dispatch, ReadyNow, OwnerInv, Shape
    <2> QED BY <2>1 DEF TypeInv
  <1>1. CASE DispatchStep
    BY <1>a, <1>1 DEF DispatchStep
  <1>2. ASSUME NEW r \in Reqs, CallerNext(r)
        PROVE  \A p \in Reqs : sent'[p] \in {sent[p], clock, NULL}
    <2>1. CASE Poll(r)
      <3>1. sent' = sent \/ \E evs, marks : dispatch_ready(evs, marks, h[r].now)
        BY <2>1 DEF Poll
      <3> QED BY <1>a, <3>1
    <2>2. CASE AbortLocked(r)
      BY <2>2 DEF AbortLocked, TypeInv
    <2>3. CASE ~Poll(r) /\ ~AbortLocked(r)
      <3>1. sent' = sent
        BY <1>2, <2>3 DEF CallerNext, Arrive, Enqueue, Yielded, Receive, Check, Wake,
           Expire, Complete, CompleteLocked, Abort, CancelQueueing,
           CancelWaiting, CancelHeld, CancelCompleting, Release, Unpend
      <3> QED BY <3>1
    <2> QED BY <2>1, <2>2, <2>3
  <1>3. CASE Tick \/ UNCHANGED vars
    BY <1>3 DEF Tick, vars
  <1> QED BY <1>1, <1>2, <1>3 DEF Next

\* A caller reads the clock, or keeps a reading it already has.
LEMMA ReadingIsKeptOrNew ==
    ASSUME OwnerInv, TypeInv, NEW r \in Reqs, CallerNext(r)
    PROVE  /\ \A q \in Reqs \ {r} : h'[q] = h[q]
           /\ h'[r].pc \in WithReading =>
                  \/ h'[r].now = clock
                  \/ h[r].pc \in WithReading /\ h'[r].now = h[r].now
  <1>0. /\ DOMAIN h = Reqs /\ \A q \in Reqs : DOMAIN h[q] = DOMAIN Fresh
        /\ {"pc", "now", "wake"} \subseteq DOMAIN Fresh
        /\ Finished.pc = "done" /\ [Finished EXCEPT !.pc = "held"].pc = "held"
    BY DEF OwnerInv, Shape, Fresh, Finished
  <1>1. \A q \in Reqs \ {r} : h'[q] = h[q]
    BY <1>0 DEF CallerNext, Arrive, Enqueue, Yielded, Poll, Receive, Check, Wake,
       Expire, Complete, CompleteLocked, Abort, AbortLocked, CancelQueueing,
       CancelWaiting, CancelHeld, CancelCompleting, Release, Unpend
  <1>2. CASE Yielded(r) \/ Wake(r) \/ Complete(r)
    BY <1>0, <1>2 DEF Yielded, Wake, Complete
  <1>3. CASE Enqueue(r)
    <2>1. CASE h' = [h EXCEPT ![r] = Finished]
      <3>1. h'[r].pc = "done"
        BY <1>0, <2>1
      <3> QED BY <1>1, <3>1 DEF WithReading
    <2>2. CASE h' # [h EXCEPT ![r] = Finished]
      <3>1. h'[r].now = clock
        BY <1>0, <1>3, <2>2 DEF Enqueue
      <3> QED BY <1>1, <3>1
    <2> QED BY <2>1, <2>2
  <1>4. CASE Poll(r) /\ r \notin Oversized
    <2>1. PICK wake : h' = [h EXCEPT ![r].pc = "check", ![r].wake = wake]
      BY <1>4 DEF Poll
    <2>2. h[r].pc = "poll" /\ h'[r].now = h[r].now
      BY <1>0, <1>4, <2>1 DEF Poll
    <2> QED BY <1>1, <2>2 DEF WithReading
  <1>5. CASE Release(r) \/ Unpend(r)
    BY <1>1, <1>5 DEF Release, Unpend
  <1>6. CASE \/ Arrive(r) \/ Check(r) \/ Abort(r) \/ Receive(r)
             \/ (Poll(r) /\ r \in Oversized) \/ Expire(r) \/ CompleteLocked(r)
             \/ AbortLocked(r) \/ CancelQueueing(r) \/ CancelWaiting(r) \/ CancelHeld(r)
             \/ CancelCompleting(r)
    <2>1. h'[r].pc \in {"queueing", "expire", "yield", "sleep", "aborting", "held", "done"}
      <3>1. CASE Arrive(r) \/ Abort(r)
        BY <1>0, <3>1 DEF Arrive, Abort
      <3>2. CASE Check(r)
        BY <1>0, <3>2 DEF Check
      <3>3. CASE Receive(r)
        <4>1. h'[r] = Finished \/ h'[r] = [Finished EXCEPT !.pc = "held"]
          BY <1>0, <3>3 DEF Receive
        <4> QED BY <1>0, <4>1
      <3>4. CASE ~(Arrive(r) \/ Abort(r) \/ Check(r) \/ Receive(r))
        <4>1. h' = [h EXCEPT ![r] = Finished]
          BY <1>6, <3>4 DEF Poll, Expire, CompleteLocked, AbortLocked, CancelQueueing,
             CancelWaiting, CancelHeld, CancelCompleting
        <4> QED BY <1>0, <4>1
      <3> QED BY <3>1, <3>2, <3>3, <3>4
    <2> QED BY <1>1, <2>1 DEF WithReading
  <1> QED BY <1>2, <1>3, <1>4, <1>5, <1>6 DEF CallerNext

\* No step uses a reading for longer than MaxLag.
LEMMA ReadingStep == OwnerInv /\ TypeInv /\ ReadingsAreRecent /\ [Next]_vars => ReadingsAreRecent'
  <1> SUFFICES ASSUME OwnerInv, TypeInv, ReadingsAreRecent, [Next]_vars PROVE ReadingsAreRecent'
    OBVIOUS
  <1>0. /\ clock \in Nat /\ MaxLag \in Nat /\ lock \in Instants
        /\ \A r \in Reqs : h[r].now \in Nat /\ sent[r] \in Instants
    BY RecordsAreTyped, BoundsAreNumbers DEF TypeInv
  <1>1. clock' \in {clock, clock + 1}
    <2>1. CASE Tick
      BY <2>1 DEF Tick
    <2>2. CASE DispatchStep \/ UNCHANGED vars
      BY <2>2 DEF DispatchStep, vars
    <2>3. ASSUME NEW r \in Reqs, CallerNext(r) PROVE clock' = clock
      BY <2>3 DEF CallerNext, Arrive, Enqueue, Yielded, Poll, Receive, Check, Wake, Expire,
         Complete, CompleteLocked, Abort, AbortLocked, CancelQueueing,
         CancelWaiting, CancelHeld, CancelCompleting, Release, Unpend
    <2> QED BY <2>1, <2>2, <2>3 DEF Next
  <1>2. \A r \in Reqs : sent'[r] # NULL => sent'[r] <= clock'
    <2> SUFFICES ASSUME NEW r \in Reqs, sent'[r] # NULL PROVE sent'[r] <= clock'
      OBVIOUS
    <2>1. sent'[r] \in {sent[r], clock}
      BY SentOnlyNow
    <2>2. sent'[r] \in Nat /\ sent'[r] <= clock
      BY <1>0, <2>1 DEF ReadingsAreRecent, Instants
    <2> QED BY <1>0, <1>1, <2>2
  <1>3. Recent(clock, clock)
    BY <1>0 DEF Recent
  <1>4. CASE Tick
    <2>1. lock' = lock /\ h' = h /\ clock' = clock + 1
      BY <1>4 DEF Tick
    <2>2. lock # NULL => clock - lock < MaxLag /\ Recent(lock, clock)
      BY <1>4 DEF Tick, ReadingsAreRecent
    <2>3. lock # NULL => Recent(lock, clock + 1)
      BY <1>0, <2>2 DEF Recent, Instants
    <2>4. ASSUME NEW r \in Reqs, h[r].pc \in WithReading PROVE Recent(h[r].now, clock + 1)
      <3>1. clock - h[r].now < MaxLag /\ Recent(h[r].now, clock)
        BY <1>4, <2>4 DEF Tick, ReadingsAreRecent, WithReading
      <3> QED BY <1>0, <3>1 DEF Recent
    <2> QED BY <1>2, <2>1, <2>3, <2>4 DEF ReadingsAreRecent
  <1>5. CASE DispatchStep
    <2>1. clock' = clock /\ lock' \in {lock, NULL} /\ h' = h
      BY <1>5 DEF DispatchStep
    <2> QED BY <1>2, <2>1 DEF ReadingsAreRecent
  <1>6. ASSUME NEW r \in Reqs, CallerNext(r) PROVE ReadingsAreRecent'
    <2>1. clock' = clock
      BY <1>6 DEF CallerNext, Arrive, Enqueue, Yielded, Poll, Receive, Check, Wake, Expire,
         Complete, CompleteLocked, Abort, AbortLocked, CancelQueueing,
         CancelWaiting, CancelHeld, CancelCompleting, Release, Unpend
    <2>2. \/ lock' \in {lock, NULL, clock}
          \/ lock' = h[r].now /\ h[r].pc \in WithReading
      BY <1>6 DEF CallerNext, Arrive, Enqueue, Yielded, Poll, Receive, Check, Wake, Expire,
         Complete, CompleteLocked, Abort, AbortLocked, CancelQueueing,
         CancelWaiting, CancelHeld, CancelCompleting, Release, Unpend, WithReading
    <2>3. lock' # NULL => Recent(lock', clock)
      BY <1>3, <2>2 DEF ReadingsAreRecent
    <2>4. \A q \in Reqs : h'[q].pc \in WithReading => Recent(h'[q].now, clock)
      BY <1>3, <1>6, ReadingIsKeptOrNew DEF ReadingsAreRecent
    <2> QED BY <1>2, <2>1, <2>3, <2>4 DEF ReadingsAreRecent
  <1>7. CASE UNCHANGED vars
    BY <1>2, <1>7 DEF vars, ReadingsAreRecent
  <1> QED BY <1>4, <1>5, <1>6, <1>7 DEF Next

-------------------------------------------------------------------------------
(* What the events and the marks remember of the dispatches.               *)

\* A dispatch at s of the request p has its event, which may be dated up to
\* MaxLag earlier, until it is out of every window.
Remembers(evs, p, s, c) ==
    \/ \E e \in Range(evs) : e.req = p /\ s - MaxLag <= e.at /\ e.at <= s
    \/ c >= s - MaxLag + MaxWindow

\* The mark of the i-th rule holds back what p must not be followed by, until
\* the pace has passed.
HoldsBack(marks, i, p, s, c) ==
    \/ MarkOf(marks, RateKey(i, Request[p])) >= s + Pace(i) - MaxLag
    \/ c >= s + Pace(i) - MaxLag

\* Every dispatch has its event for as long as a window could still count it.
AllRemembered(at, evs, c) == \A p \in Reqs : at[p] # NULL => Remembers(evs, p, at[p], c)

\* Every dispatch holds back its successors by the marks until its pace is over.
AllHeldBack(at, marks, c) ==
    \A p \in Reqs, i \in DOMAIN Limits :
        at[p] # NULL /\ Rated(i, Request[p]) => HoldsBack(marks, i, p, at[p], c)

\* The events remember the dispatches that count.
DispatchesAreRemembered == AllRemembered(sent, events, clock)

\* The marks remember the dispatches whose pace is not over.
MarksHoldBack == AllHeldBack(sent, pacing, clock)

\* Pruning at an instant that has passed forgets nothing that still counts.
LEMMA PruningForgetsNothing ==
    ASSUME TypeInv, NEW at \in [Reqs -> Instants],
           \A p \in Reqs : at[p] # NULL => at[p] <= clock,
           NEW evs \in Seq(EventTypes), NEW marks, AreMarks(marks), NEW now \in Nat, now <= clock
    PROVE  /\ AllRemembered(at, evs, clock) => AllRemembered(at, pruned_events(evs, now), clock)
           /\ AllHeldBack(at, marks, clock) => AllHeldBack(at, pruned_pacing(marks, now), clock)
  <1>0. /\ clock \in Nat /\ MaxLag \in Nat /\ MaxWindow \in Nat
        /\ \A p \in Reqs : at[p] # NULL => at[p] \in Nat /\ at[p] <= clock
    BY BoundsAreNumbers, WindowsAreBounded DEF TypeInv, Instants
  <1>1. ASSUME AllRemembered(at, evs, clock), NEW p \in Reqs, at[p] # NULL
        PROVE  Remembers(pruned_events(evs, now), p, at[p], clock)
    <2>1. CASE clock >= at[p] - MaxLag + MaxWindow
      BY <2>1 DEF Remembers
    <2>2. CASE ~(clock >= at[p] - MaxLag + MaxWindow)
      <3>1. PICK e \in Range(evs) : e.req = p /\ at[p] - MaxLag <= e.at /\ e.at <= at[p]
        BY <1>1, <2>2 DEF AllRemembered, Remembers
      <3>2. e.at \in Nat
        BY EventsAreFinite DEF EventTypes
      <3>3. Since(now, e.at) < MaxWindow
        BY <1>0, <1>1, <2>2, <3>1, <3>2 DEF Since
      <3>4. e \in Range(pruned_events(evs, now))
        BY <3>3, PruneKeepsEvents
      <3> QED BY <3>1, <3>4 DEF Remembers
    <2> QED BY <2>1, <2>2
  <1>2. ASSUME AllHeldBack(at, marks, clock), NEW p \in Reqs, NEW i \in DOMAIN Limits,
               at[p] # NULL, Rated(i, Request[p])
        PROVE  HoldsBack(pruned_pacing(marks, now), i, p, at[p], clock)
    <2> DEFINE k == RateKey(i, Request[p])
               limit == at[p] + Pace(i) - MaxLag
    <2>1. limit \in Int
      BY <1>0, <1>2, PaceIsBounded DEF Rated
    <2>2. MarkOf(marks, k) >= limit \/ clock >= limit
      BY <1>2 DEF AllHeldBack, HoldsBack
    <2>3. MarkOf(marks, k) > now => MarkOf(pruned_pacing(marks, now), k) = MarkOf(marks, k)
      BY PruneKeepsMarks
    <2>4. MarkOf(marks, k) \in Nat
      BY DEF MarkOf, AreMarks
    <2> HIDE DEF k, limit
    <2>5. MarkOf(pruned_pacing(marks, now), k) >= limit \/ clock >= limit
      BY <1>0, <2>1, <2>2, <2>3, <2>4
    <2> QED BY <2>5 DEF HoldsBack, k, limit
  <1> QED BY <1>1, <1>2 DEF AllRemembered, AllHeldBack

\* A dispatch is remembered, and its mark holds back what follows it.
LEMMA DispatchIsRemembered ==
    ASSUME OwnerInv, TypeInv, NEW evs \in Seq(EventTypes), NEW marks, AreMarks(marks),
           NEW now \in Nat, Recent(now, clock), dispatch_ready(evs, marks, now),
           AllRemembered(sent, evs, clock), AllHeldBack(sent, marks, clock), clock' = clock
    PROVE  DispatchesAreRemembered' /\ MarksHoldBack'
  <1>0. clock \in Nat /\ MaxLag \in Nat /\ MaxWindow \in Nat
    BY BoundsAreNumbers, WindowsAreBounded DEF TypeInv
  <1>1. CASE events' = evs /\ pacing' = marks /\ sent' = sent
    BY <1>1 DEF DispatchesAreRemembered, MarksHoldBack, AllRemembered, AllHeldBack
  <1>2. ASSUME NEW best \in ReadyNow(evs, marks, now), Dispatch(best, evs, marks, now)
        PROVE  DispatchesAreRemembered' /\ MarksHoldBack'
    <2> DEFINE q == Request[best]
               e == [req |-> best, at |-> now, input |-> q.input, output |-> q.output]
    <2>1. best \in Reqs
      BY DEF ReadyNow, OwnerInv, Shape
    <2>2. /\ events' = Append(evs, e) /\ sent' = [sent EXCEPT ![best] = clock]
          /\ pacing' = update_pacing(marks, q, q.input, q.output, now)
      BY <1>2 DEF Dispatch
    <2>3. q.input \in Nat /\ q.output \in Nat
      BY <2>1, FieldsAreTyped
    <2>4. sent'[best] = clock /\ \A p \in Reqs \ {best} : sent'[p] = sent[p]
      BY <2>1, <2>2 DEF TypeInv
    <2>5. /\ e \in Range(events') /\ Range(evs) \subseteq Range(events')
          /\ e.req = best /\ e.at = now
      <3> HIDE DEF e
      <3>1. /\ DOMAIN evs = 1..Len(evs) /\ Len(evs) \in Nat
            /\ DOMAIN events' = 1..(Len(evs) + 1)
            /\ \A i \in 1..Len(evs) : events'[i] = evs[i]
            /\ events'[Len(evs) + 1] = e
        BY <2>2
      <3>2. Len(evs) + 1 \in 1..(Len(evs) + 1) /\ 1..Len(evs) \subseteq 1..(Len(evs) + 1)
        BY <3>1
      <3>3. e \in Range(events') /\ Range(evs) \subseteq Range(events')
        BY <3>1, <3>2 DEF Range
      <3> QED BY <3>3 DEF e
    <2>6. ASSUME NEW p \in Reqs, sent'[p] # NULL
          PROVE  Remembers(events', p, sent'[p], clock')
      <3>1. CASE p = best
        BY <1>0, <2>4, <2>5, <3>1 DEF Remembers, Recent
      <3>2. CASE p # best
        BY <2>4, <2>5, <2>6, <3>2 DEF Remembers, AllRemembered
      <3> QED BY <3>1, <3>2
    <2>7. /\ \A k : MarkOf(pacing', k) >= MarkOf(marks, k)
          /\ \A k \in PacingKeys(q, q.input, q.output) :
                 MarkOf(pacing', k) >= now + PaceOf(k, q.input, q.output)
      <3> HIDE DEF q
      <3> QED BY <2>2, <2>3, UpdateRaises
    <2>8. \A k : MarkOf(pacing', k) \in Nat /\ MarkOf(marks, k) \in Nat
      <3>1. AreMarks(pacing')
        <4> HIDE DEF q
        <4> QED BY <2>2, <2>3, MarksStayTyped
      <3> QED BY <3>1 DEF MarkOf, AreMarks
    <2>9. ASSUME NEW p \in Reqs, NEW i \in DOMAIN Limits, sent'[p] # NULL, Rated(i, Request[p])
          PROVE  HoldsBack(pacing', i, p, sent'[p], clock')
      <3> DEFINE k == RateKey(i, Request[p])
                 pace == Pace(i)
      <3>1. pace \in Nat
        BY <2>9, PaceIsBounded DEF Rated
      <3>2. CASE p = best
        <4>1. MarkOf(pacing', k) >= now + pace
          BY <2>7, <2>9, <3>2, RateKeyIsUsed
        <4>2. MarkOf(pacing', k) \in Nat
          BY <2>8
        <4> HIDE DEF k, pace
        <4>3. MarkOf(pacing', k) >= clock + pace - MaxLag
          BY <1>0, <3>1, <4>1, <4>2 DEF Recent
        <4> QED BY <2>4, <3>2, <4>3 DEF HoldsBack, k, pace
      <3>3. CASE p # best
        <4>1. sent'[p] = sent[p] /\ sent[p] \in Nat
          BY <2>4, <2>9, <3>3 DEF TypeInv, Instants
        <4>2. MarkOf(marks, k) >= sent[p] + pace - MaxLag \/ clock >= sent[p] + pace - MaxLag
          BY <2>9, <4>1 DEF AllHeldBack, HoldsBack
        <4>3. MarkOf(pacing', k) >= MarkOf(marks, k) /\ MarkOf(pacing', k) \in Nat
              /\ MarkOf(marks, k) \in Nat
          BY <2>7, <2>8
        <4> HIDE DEF k, pace
        <4>4. MarkOf(pacing', k) >= sent[p] + pace - MaxLag \/ clock >= sent[p] + pace - MaxLag
          BY <1>0, <3>1, <4>1, <4>2, <4>3
        <4> QED BY <4>1, <4>4 DEF HoldsBack, k, pace
      <3> QED BY <3>2, <3>3
    <2> QED BY <2>6, <2>9 DEF DispatchesAreRemembered, MarksHoldBack, AllRemembered, AllHeldBack
  <1> QED BY <1>1, <1>2 DEF dispatch_ready

\* Abort forgets the request it is about, and no other.
LEMMA AbortForgetsOne ==
    ASSUME OwnerInv, TypeInv, ReadingsAreRecent, DispatchesAreRemembered,
           NEW r \in Reqs, AbortLocked(r)
    PROVE  DispatchesAreRemembered' /\ MarksHoldBack'
  <1> DEFINE left == EventsWithout(r, events)
             marks == rebuild_pacing(left)
  <1>0. /\ clock \in Nat /\ MaxLag \in Nat /\ MaxWindow \in Nat
        /\ events \in Seq(EventTypes) /\ clock' = clock
    BY BoundsAreNumbers, WindowsAreBounded DEF TypeInv, AbortLocked
  <1>1. /\ left \in Seq(EventTypes)
        /\ Range(left) = {e \in Range(events) : e.req # r}
    BY <1>0, OthersAreKept
  <1>2. /\ events' = pruned_events(left, clock) /\ pacing' = pruned_pacing(marks, clock)
        /\ sent' = [sent EXCEPT ![r] = NULL]
    BY DEF AbortLocked
  <1> HIDE DEF left
  <1>3. AreMarks(marks)
    BY <1>1, RebuiltMarksAreTyped
  <1>4. /\ sent'[r] = NULL /\ \A p \in Reqs \ {r} : sent'[p] = sent[p]
        /\ sent' \in [Reqs -> Instants]
    BY <1>2 DEF TypeInv, Instants
  <1>5. \A p \in Reqs : sent'[p] # NULL =>
            p # r /\ sent'[p] = sent[p] /\ sent[p] \in Nat /\ sent[p] <= clock
    BY <1>4 DEF TypeInv, Instants, ReadingsAreRecent
  <1>6. ASSUME NEW p \in Reqs, sent'[p] # NULL
        PROVE  Remembers(left, p, sent'[p], clock)
    <2>1. Remembers(events, p, sent[p], clock)
      BY <1>5, <1>6 DEF DispatchesAreRemembered, AllRemembered
    <2> QED BY <1>1, <1>5, <1>6, <2>1 DEF Remembers
  <1>7. ASSUME NEW p \in Reqs, NEW i \in DOMAIN Limits, sent'[p] # NULL, Rated(i, Request[p])
        PROVE  HoldsBack(marks, i, p, sent'[p], clock)
    <2> DEFINE k == RateKey(i, Request[p])
               pace == Pace(i)
    <2>1. pace \in Nat /\ pace <= MaxWindow /\ sent'[p] \in Nat
      BY <1>5, <1>7, PaceIsBounded DEF Rated
    <2>2. CASE clock >= sent'[p] - MaxLag + MaxWindow
      <3>1. clock >= sent'[p] + pace - MaxLag
        <4> HIDE DEF pace
        <4> QED BY <1>0, <2>1, <2>2
      <3> QED BY <3>1 DEF HoldsBack
    <2>3. CASE ~(clock >= sent'[p] - MaxLag + MaxWindow)
      <3>1. PICK e \in Range(left) :
                e.req = p /\ sent'[p] - MaxLag <= e.at /\ e.at <= sent'[p]
        BY <1>6, <1>7, <2>3 DEF Remembers
      <3>2. e.at \in Nat /\ e.input \in Nat /\ e.output \in Nat
        BY <1>1, EventsAreFinite DEF EventTypes
      <3>3. /\ k \in PacingKeys(Request[e.req], e.input, e.output)
            /\ PaceOf(k, e.input, e.output) = pace
        BY <1>7, <3>1, RateKeyIsUsed
      <3>4. MarkOf(marks, k) >= e.at + pace
        <4> HIDE DEF k, pace, marks
        <4>1. MarkOf(marks, k) >= e.at + PaceOf(k, e.input, e.output)
          BY <1>1, <3>3, RebuiltMarksHold DEF marks
        <4> QED BY <3>3, <4>1
      <3>5. MarkOf(marks, k) \in Nat
        BY <1>3 DEF MarkOf, AreMarks
      <3> HIDE DEF k, pace, marks
      <3>6. MarkOf(marks, k) >= sent'[p] + pace - MaxLag
        BY <1>0, <2>1, <3>1, <3>2, <3>4, <3>5
      <3> QED BY <3>6 DEF HoldsBack, k, pace
    <2> QED BY <2>2, <2>3
  <1>8. AllRemembered(sent', left, clock) /\ AllHeldBack(sent', marks, clock)
    BY <1>6, <1>7 DEF AllRemembered, AllHeldBack
  <1>9. \A p \in Reqs : sent'[p] # NULL => sent'[p] <= clock
    BY <1>5
  <1>10. clock <= clock
    BY <1>0
  <1> DEFINE at == sent'
  <1>11. at \in [Reqs -> Instants] /\ \A p \in Reqs : at[p] # NULL => at[p] <= clock
    BY <1>4, <1>9
  <1> HIDE DEF marks, at
  <1>12. /\ AllRemembered(at, left, clock) => AllRemembered(at, pruned_events(left, clock), clock)
         /\ AllHeldBack(at, marks, clock) => AllHeldBack(at, pruned_pacing(marks, clock), clock)
    BY <1>0, <1>1, <1>3, <1>10, <1>11, PruningForgetsNothing
  <1>13. AllRemembered(sent', events', clock') /\ AllHeldBack(sent', pacing', clock')
    BY <1>0, <1>2, <1>8, <1>12 DEF at
  <1> QED BY <1>13 DEF DispatchesAreRemembered, MarksHoldBack

\* A step that only prunes, at an instant that has passed.
LEMMA PruningStep ==
    ASSUME TypeInv, ReadingsAreRecent, DispatchesAreRemembered, MarksHoldBack,
           NEW now \in Nat, now <= clock, clock' = clock, sent' = sent,
           events' = pruned_events(events, now), pacing' = pruned_pacing(pacing, now)
    PROVE  DispatchesAreRemembered' /\ MarksHoldBack'
  <1>1. /\ sent \in [Reqs -> Instants] /\ \A p \in Reqs : sent[p] # NULL => sent[p] <= clock
        /\ events \in Seq(EventTypes) /\ AreMarks(pacing)
    BY DEF TypeInv, ReadingsAreRecent
  <1>2. /\ AllRemembered(sent, pruned_events(events, now), clock)
        /\ AllHeldBack(sent, pruned_pacing(pacing, now), clock)
    BY <1>1, PruningForgetsNothing DEF DispatchesAreRemembered, MarksHoldBack
  <1> QED BY <1>2 DEF DispatchesAreRemembered, MarksHoldBack

\* Reconciling the usage of a request changes no date.
LEMMA CompleteForgetsNothing ==
    ASSUME OwnerInv, TypeInv, ReadingsAreRecent, DispatchesAreRemembered, MarksHoldBack,
           NEW r \in Reqs, CompleteLocked(r)
    PROVE  DispatchesAreRemembered' /\ MarksHoldBack'
  <1>1. /\ sent \in [Reqs -> Instants] /\ \A p \in Reqs : sent[p] # NULL => sent[p] <= clock
        /\ events \in Seq(EventTypes) /\ AreMarks(pacing) /\ clock' = clock /\ sent' = sent
        /\ h[r].now \in Nat /\ h[r].now <= clock
    BY RecordsAreTyped DEF TypeInv, ReadingsAreRecent, CompleteLocked, WithReading, Recent
  <1>2. PICK usage \in Usages :
            /\ events' = pruned_events(Reconciled(r, usage), h[r].now)
            /\ pacing' = pruned_pacing(pacing, h[r].now)
    BY DEF CompleteLocked
  <1> DEFINE evs == Reconciled(r, usage)
  <1>3. evs \in Seq(EventTypes)
    BY <1>1, ReconciledEvents
  <1>4. \A e \in Range(events) : \E f \in Range(evs) : f.req = e.req /\ f.at = e.at
    BY <1>1, ReconciledEvents
  <1> HIDE DEF evs
  <1>5. AllRemembered(sent, evs, clock)
    BY <1>4 DEF DispatchesAreRemembered, AllRemembered, Remembers
  <1>6. /\ AllRemembered(sent, pruned_events(evs, h[r].now), clock)
        /\ AllHeldBack(sent, pruned_pacing(pacing, h[r].now), clock)
    BY <1>1, <1>3, <1>5, PruningForgetsNothing DEF MarksHoldBack
  <1> QED BY <1>1, <1>2, <1>6 DEF DispatchesAreRemembered, MarksHoldBack, evs

\* What Poll finds when it has pruned.
LEMMA PrunedStillRemembers ==
    ASSUME OwnerInv, TypeInv, ReadingsAreRecent, DispatchesAreRemembered, MarksHoldBack,
           NEW now \in Nat, now <= clock
    PROVE  /\ AllRemembered(sent, pruned_events(events, now), clock)
           /\ AllHeldBack(sent, pruned_pacing(pacing, now), clock)
           /\ pruned_events(events, now) \in Seq(EventTypes)
           /\ AreMarks(pruned_pacing(pacing, now))
  <1>1. /\ sent \in [Reqs -> Instants] /\ \A p \in Reqs : sent[p] # NULL => sent[p] <= clock
        /\ events \in Seq(EventTypes) /\ AreMarks(pacing)
    BY DEF TypeInv, ReadingsAreRecent
  <1> QED BY <1>1, PruningForgetsNothing, PrunedIsTyped DEF DispatchesAreRemembered, MarksHoldBack

\* Every step that follows a dispatch remembers it.
LEMMA RememberStep ==
    OwnerInv /\ TypeInv /\ ReadingsAreRecent /\ DispatchesAreRemembered /\ MarksHoldBack
        /\ [Next]_vars
    => (DispatchesAreRemembered /\ MarksHoldBack)'
  <1> SUFFICES ASSUME OwnerInv, TypeInv, ReadingsAreRecent, DispatchesAreRemembered,
                      MarksHoldBack, [Next]_vars
               PROVE  DispatchesAreRemembered' /\ MarksHoldBack'
    OBVIOUS
  <1>0. /\ clock \in Nat /\ MaxLag \in Nat /\ MaxWindow \in Nat
        /\ events \in Seq(EventTypes) /\ AreMarks(pacing)
        /\ \A p \in Reqs : sent[p] # NULL => sent[p] \in Nat /\ sent[p] <= clock
    BY BoundsAreNumbers, WindowsAreBounded DEF TypeInv, ReadingsAreRecent, Instants
  <1>a. ASSUME clock' = clock, events' = events, pacing' = pacing, sent' = sent
        PROVE  DispatchesAreRemembered' /\ MarksHoldBack'
    BY <1>a DEF DispatchesAreRemembered, MarksHoldBack, AllRemembered, AllHeldBack
  <1>1. CASE Tick
    <2>1. clock' = clock + 1 /\ events' = events /\ pacing' = pacing /\ sent' = sent
      BY <1>1 DEF Tick, quota
    <2>2. ASSUME NEW p \in Reqs, sent[p] # NULL PROVE Remembers(events, p, sent[p], clock + 1)
      <3>1. Remembers(events, p, sent[p], clock)
        BY <2>2 DEF DispatchesAreRemembered, AllRemembered
      <3> QED BY <1>0, <2>2, <3>1 DEF Remembers
    <2>3. ASSUME NEW p \in Reqs, NEW i \in DOMAIN Limits, sent[p] # NULL, Rated(i, Request[p])
          PROVE  HoldsBack(pacing, i, p, sent[p], clock + 1)
      <3>1. HoldsBack(pacing, i, p, sent[p], clock)
        BY <2>3 DEF MarksHoldBack, AllHeldBack
      <3>2. Pace(i) \in Nat
        BY <2>3, PaceIsBounded DEF Rated
      <3> QED BY <1>0, <2>3, <3>1, <3>2 DEF HoldsBack
    <2> QED BY <2>1, <2>2, <2>3 DEF DispatchesAreRemembered, MarksHoldBack, AllRemembered, AllHeldBack
  <1>2. CASE DispatchStep
    <2>1. /\ lock \in Nat /\ Recent(lock, clock) /\ dispatch_ready(events, pacing, lock)
          /\ clock' = clock
      BY <1>2 DEF DispatchStep, TypeInv, Instants, ReadingsAreRecent
    <2> QED BY <1>0, <2>1, DispatchIsRemembered DEF DispatchesAreRemembered, MarksHoldBack
  <1>3. ASSUME NEW r \in Reqs, CallerNext(r) PROVE DispatchesAreRemembered' /\ MarksHoldBack'
    <2>1. CASE Enqueue(r) \/ Unpend(r)
      <3>1. /\ events' = pruned_events(events, clock) /\ pacing' = pruned_pacing(pacing, clock)
            /\ clock' = clock /\ sent' = sent
        BY <2>1 DEF Enqueue, Unpend
      <3>2. clock <= clock
        BY <1>0
      <3> QED BY <1>0, <3>1, <3>2, PruningStep
    <2>2. CASE Poll(r)
      <3> DEFINE now == h[r].now
                 evs == pruned_events(events, now)
                 marks == pruned_pacing(pacing, now)
      <3>1. now \in Nat /\ Recent(now, clock) /\ clock' = clock
        BY <2>2, RecordsAreTyped DEF Poll, ReadingsAreRecent, WithReading
      <3>2. \/ dispatch_ready(evs, marks, now)
            \/ events' = evs /\ pacing' = marks /\ sent' = sent
        BY <2>2 DEF Poll
      <3>3. now <= clock
        BY <3>1 DEF Recent
      <3>4. CASE events' = evs /\ pacing' = marks /\ sent' = sent
        <4> HIDE DEF now
        <4> QED BY <3>1, <3>3, <3>4, PruningStep
      <3>5. CASE dispatch_ready(evs, marks, now)
        <4>1. /\ AllRemembered(sent, evs, clock) /\ AllHeldBack(sent, marks, clock)
              /\ evs \in Seq(EventTypes) /\ AreMarks(marks)
          <5> HIDE DEF now
          <5> QED BY <3>1, <3>3, PrunedStillRemembers
        <4> HIDE DEF now, evs, marks
        <4> QED BY <3>1, <3>5, <4>1, DispatchIsRemembered
      <3> QED BY <3>2, <3>4, <3>5
    <2>3. CASE CompleteLocked(r)
      BY <2>3, CompleteForgetsNothing
    <2>4. CASE AbortLocked(r)
      BY <2>4, AbortForgetsOne
    <2>5. CASE \/ Arrive(r) \/ Yielded(r) \/ Receive(r) \/ Check(r) \/ Wake(r) \/ Expire(r)
               \/ Complete(r) \/ Abort(r) \/ CancelQueueing(r) \/ CancelWaiting(r)
               \/ CancelHeld(r) \/ CancelCompleting(r) \/ Release(r)
      BY <1>a, <2>5 DEF Arrive, Yielded, Receive, Check, Wake, Expire, Complete, Abort,
         CancelQueueing, CancelWaiting, CancelHeld, CancelCompleting, Release, quota
    <2> QED BY <1>3, <2>1, <2>2, <2>3, <2>4, <2>5 DEF CallerNext
  <1>4. CASE UNCHANGED vars
    BY <1>a, <1>4 DEF vars, quota
  <1> QED BY <1>1, <1>2, <1>3, <1>4 DEF Next

-------------------------------------------------------------------------------
(* The rates.                                                              *)

\* The inductive invariant of the rates: what the events and the marks remember
\* and how old a reading can be.
MemoryInv == OwnerInv /\ TypeInv /\ ReadingsAreRecent /\ DispatchesAreRemembered /\ MarksHoldBack

\* What dispatch_ready can go by when it gives out a permit.
LEMMA DispatchIsInformed ==
    ASSUME MemoryInv, [Next]_vars
    PROVE  \/ \A p \in Reqs : sent'[p] \in {sent[p], NULL}
           \/ \E evs \in Seq(EventTypes), now \in Nat : \E marks :
                  /\ AreMarks(marks) /\ Recent(now, clock)
                  /\ AllRemembered(sent, evs, clock) /\ AllHeldBack(sent, marks, clock)
                  /\ dispatch_ready(evs, marks, now)
  <1>0. OwnerInv /\ TypeInv /\ ReadingsAreRecent /\ DispatchesAreRemembered /\ MarksHoldBack
    BY DEF MemoryInv
  <1>1. CASE DispatchStep
    <2>1. /\ lock \in Nat /\ Recent(lock, clock) /\ dispatch_ready(events, pacing, lock)
          /\ events \in Seq(EventTypes) /\ AreMarks(pacing)
      BY <1>0, <1>1 DEF DispatchStep, TypeInv, Instants, ReadingsAreRecent
    <2> QED BY <1>0, <2>1 DEF DispatchesAreRemembered, MarksHoldBack
  <1>2. ASSUME NEW r \in Reqs, Poll(r), r \notin Oversized
        PROVE  \E evs \in Seq(EventTypes), now \in Nat : \E marks :
                  /\ AreMarks(marks) /\ Recent(now, clock)
                  /\ AllRemembered(sent, evs, clock) /\ AllHeldBack(sent, marks, clock)
                  /\ dispatch_ready(evs, marks, now)
    <2> DEFINE now == h[r].now
               evs == pruned_events(events, now)
               marks == pruned_pacing(pacing, now)
    <2>1. now \in Nat /\ Recent(now, clock)
      BY <1>0, <1>2, RecordsAreTyped DEF Poll, ReadingsAreRecent, WithReading
    <2>2. dispatch_ready(evs, marks, now)
      BY <1>2 DEF Poll
    <2>3. /\ AllRemembered(sent, evs, clock) /\ AllHeldBack(sent, marks, clock)
          /\ evs \in Seq(EventTypes) /\ AreMarks(marks)
      <3> HIDE DEF now
      <3> QED BY <1>0, <2>1, PrunedStillRemembers DEF Recent
    <2> HIDE DEF now, evs, marks
    <2> QED BY <2>1, <2>2, <2>3
  <1>3. ASSUME NEW r \in Reqs, CallerNext(r), ~(Poll(r) /\ r \notin Oversized)
        PROVE  \A p \in Reqs : sent'[p] \in {sent[p], NULL}
    <2>1. CASE AbortLocked(r)
      BY <1>0, <2>1 DEF AbortLocked, TypeInv
    <2>2. CASE ~AbortLocked(r)
      <3>1. sent' = sent
        BY <1>3, <2>2 DEF CallerNext, Arrive, Enqueue, Yielded, Poll, Receive, Check, Wake,
           Expire, Complete, CompleteLocked, Abort, CancelQueueing,
           CancelWaiting, CancelHeld, CancelCompleting, Release, Unpend
      <3> QED BY <3>1
    <2> QED BY <2>1, <2>2
  <1>4. CASE Tick \/ UNCHANGED vars
    BY <1>4 DEF Tick, vars
  <1> QED BY <1>1, <1>2, <1>3, <1>4 DEF Next

\* Whoever is dispatched now is a pace behind everybody before on its quota.
LEMMA PaceHasPassed ==
    ASSUME MemoryInv, NEW evs \in Seq(EventTypes), NEW now \in Nat, NEW marks, AreMarks(marks),
           Recent(now, clock), AllHeldBack(sent, marks, clock),
           NEW best \in ReadyNow(evs, marks, now),
           NEW i \in DOMAIN Limits, NEW p \in Reqs, sent[p] # NULL,
           Rated(i, Request[p]), SameQuota(Limits[i], Request[p], Request[best])
    PROVE  clock >= sent[p] + Pace(i) - MaxLag
  <1>0. OwnerInv /\ TypeInv
    BY DEF MemoryInv
  <1>1. /\ best \in Reqs /\ ~Impossible(Request[best])
        /\ ReadyAt(best, evs, marks, now) = now
    BY <1>0 DEF ReadyNow, Dead, Oversized, OwnerInv, Shape
  <1> DEFINE q == Request[best]
             k == RateKey(i, Request[p])
  <1>2. q.input \in Nat /\ q.output \in Nat
    BY <1>1, FieldsAreTyped
  <1>3. \A key \in PacingKeys(q, q.input, q.output) : MarkOf(marks, key) <= now
    <2> HIDE DEF q
    <2>1. readiness(q, evs, active, marks, now) = now
      BY <1>1 DEF ReadyAt, q
    <2>2. ~Impossible(q)
      BY <1>1 DEF q
    <2> QED BY <1>2, <2>1, <2>2, ReadinessIsAnInstant
  <1>4. Rated(i, q) /\ RateKey(i, q) = k
    BY SameRate
  <1>5. MarkOf(marks, k) <= now
    <2> HIDE DEF q, k
    <2>1. k \in PacingKeys(q, q.input, q.output)
      BY <1>4, RateKeyIsUsed
    <2> QED BY <1>3, <2>1
  <1>6. MarkOf(marks, k) >= sent[p] + Pace(i) - MaxLag \/ clock >= sent[p] + Pace(i) - MaxLag
    BY DEF AllHeldBack, HoldsBack
  <1>7. /\ clock \in Nat /\ MaxLag \in Nat /\ sent[p] \in Nat /\ Pace(i) \in Nat
        /\ MarkOf(marks, k) \in Nat /\ now <= clock
    BY <1>0, BoundsAreNumbers, PaceIsBounded DEF TypeInv, Instants, Rated, MarkOf, AreMarks, Recent
  <1> HIDE DEF k
  <1> QED BY <1>5, <1>6, <1>7

\* Every step keeps the dispatches of a quota apart.
LEMMA PaceStep == MemoryInv /\ DispatchesArePaced /\ [Next]_vars => DispatchesArePaced'
  <1> SUFFICES ASSUME MemoryInv, DispatchesArePaced, [Next]_vars,
                      NEW l \in Rules, NEW p \in Reqs, NEW q \in Reqs,
                      l.max_rps # NULL, rule_matches(l, Request[p]),
                      SameQuota(l, Request[p], Request[q]), p # q,
                      sent'[p] # NULL, sent'[q] # NULL, sent'[p] <= sent'[q]
               PROVE  sent'[q] - sent'[p] >= Second \div l.max_rps - MaxLag
    BY DEF DispatchesArePaced
  <1>0. OwnerInv /\ TypeInv /\ ReadingsAreRecent
    BY DEF MemoryInv
  <1>1. PICK i \in DOMAIN Limits : l = Limits[i]
    BY DEF Rules, Range
  <1>2. /\ Rated(i, Request[p]) /\ Rated(i, Request[q])
        /\ SameQuota(l, Request[q], Request[p])
    BY <1>1 DEF Rated, SameQuota, rule_matches
  <1>3. clock \in Nat /\ MaxLag \in Nat /\ Pace(i) \in Nat /\ Second \div l.max_rps = Pace(i)
    BY <1>0, <1>1, BoundsAreNumbers, PaceIsBounded DEF TypeInv, Pace
  <1>4. CASE sent'[p] = sent[p] /\ sent'[q] = sent[q]
    BY <1>4 DEF DispatchesArePaced
  <1>5. CASE ~(sent'[p] = sent[p] /\ sent'[q] = sent[q])
    <2>1. PICK evs \in Seq(EventTypes), now \in Nat : \E marks :
                  /\ AreMarks(marks) /\ Recent(now, clock)
                  /\ AllRemembered(sent, evs, clock) /\ AllHeldBack(sent, marks, clock)
                  /\ dispatch_ready(evs, marks, now)
      BY <1>5, DispatchIsInformed
    <2>2. PICK marks : /\ AreMarks(marks) /\ Recent(now, clock)
                       /\ AllHeldBack(sent, marks, clock)
                       /\ dispatch_ready(evs, marks, now)
      BY <2>1
    <2>3. PICK best \in ReadyNow(evs, marks, now) : sent' = [sent EXCEPT ![best] = clock]
      BY <1>5, <2>2 DEF dispatch_ready, Dispatch
    <2>4. best \in Reqs
      BY <1>0 DEF ReadyNow, OwnerInv, Shape
    <2>5. sent'[best] = clock /\ \A r \in Reqs \ {best} : sent'[r] = sent[r]
      BY <1>0, <2>3, <2>4 DEF TypeInv
    <2>6. CASE q = best
      <3>1. sent[p] # NULL /\ sent'[p] = sent[p]
        BY <2>5, <2>6
      <3>2. clock >= sent[p] + Pace(i) - MaxLag
        BY <1>1, <1>2, <2>2, <2>6, <3>1, PaceHasPassed
      <3>3. sent[p] \in Nat
        BY <1>0, <3>1 DEF TypeInv, Instants
      <3> QED BY <1>3, <2>5, <2>6, <3>1, <3>2, <3>3
    <2>7. CASE p = best
      <3>1. sent[q] # NULL /\ sent'[q] = sent[q]
        BY <2>5, <2>7
      <3>2. clock >= sent[q] + Pace(i) - MaxLag
        BY <1>1, <1>2, <2>2, <2>7, <3>1, PaceHasPassed
      <3>3. sent[q] \in Nat /\ sent[q] <= clock
        BY <1>0, <3>1 DEF TypeInv, Instants, ReadingsAreRecent
      <3> QED BY <1>3, <2>5, <2>7, <3>1, <3>2, <3>3
    <2> QED BY <1>5, <2>5, <2>6, <2>7
  <1> QED BY <1>4, <1>5

\* In every reachable state the dispatches are remembered and held back.
LEMMA MemoryAlways == Spec => []MemoryInv
  <1>1. Init => ReadingsAreRecent /\ DispatchesAreRemembered /\ MarksHoldBack
    <2> SUFFICES ASSUME Init
                 PROVE  ReadingsAreRecent /\ DispatchesAreRemembered /\ MarksHoldBack
      OBVIOUS
    <2>1. \A r \in Reqs : sent[r] = NULL /\ h[r].pc = "new"
      BY DEF Init, Fresh
    <2> QED BY <2>1 DEF Init, ReadingsAreRecent, WithReading, DispatchesAreRemembered,
         MarksHoldBack, AllRemembered, AllHeldBack
  <1>2. OwnerInv /\ TypeInv /\ ReadingsAreRecent /\ DispatchesAreRemembered /\ MarksHoldBack
          /\ [Next]_vars
        => (ReadingsAreRecent /\ DispatchesAreRemembered /\ MarksHoldBack)'
    BY ReadingStep, RememberStep
  <1> QED BY <1>1, <1>2, TypesAlways, PTL DEF Spec, MemoryInv

\* max_rps spaces the dispatches of every quota, for any policy, any number of
\* callers and any interleaving, reconciliation and abort included: two of them
\* are a pace apart, but for the time MaxLag that a caller may spend between
\* reading the clock and getting the mutex.
THEOREM RatesAreKept == Spec => []DispatchesArePaced
  <1>1. Init => DispatchesArePaced
    BY DEF Init, DispatchesArePaced
  <1> QED BY <1>1, PaceStep, MemoryAlways, PTL DEF Spec

\* The requests of r's quota under l that were dispatched in the window from t.
InWindow(at, l, r, t) ==
    {q \in Reqs : /\ at[q] # NULL
                  /\ SameQuota(l, Request[r], Request[q])
                  /\ at[q] \in t .. t + Window(l) - MaxLag - 1}

\* Every dispatch of a window that reaches to the present has an event that
\* counts against whoever is dispatched now, so the cap leaves room for it.
LEMMA RoomInTheWindow ==
    ASSUME MemoryInv, NEW evs \in Seq(EventTypes), NEW now \in Nat, NEW marks, AreMarks(marks),
           Recent(now, clock), AllRemembered(sent, evs, clock),
           NEW best \in ReadyNow(evs, marks, now),
           NEW l \in Rules, NEW r \in Reqs, RequestCap(l) # NULL, rule_matches(l, Request[r]),
           SameQuota(l, Request[r], Request[best]),
           NEW t \in Nat, clock \in t .. t + Window(l) - MaxLag - 1,
           NEW Q \in SUBSET (InWindow(sent, l, r, t) \ {best})
    PROVE  Cardinality(Q) + 1 <= RequestCap(l)
  <1>0. OwnerInv /\ TypeInv /\ ReadingsAreRecent
    BY DEF MemoryInv
  <1>1. /\ best \in Reqs /\ ~Impossible(Request[best])
        /\ ReadyAt(best, evs, marks, now) = now
    BY <1>0 DEF ReadyNow, Dead, Oversized, OwnerInv, Shape
  <1>2. rule_matches(l, Request[best])
    BY DEF rule_matches, SameQuota
  <1> DEFINE b == Request[best]
             U == UsageOf(l, b, evs, now)
  <1>3. cap_fit(l, b, U)
    <2>1. b.input \in Nat /\ b.output \in Nat
      BY <1>1, FieldsAreTyped
    <2>2. ~Impossible(b) /\ readiness(b, evs, active, marks, now) = now /\ rule_matches(l, b)
      BY <1>1, <1>2 DEF ReadyAt
    <2> HIDE DEF b
    <2> QED BY <2>1, <2>2, ReadinessIsAnInstant
  <1>4. IsFiniteSet(U)
    <2>1. U \subseteq Range(evs)
      BY DEF UsageOf
    <2> HIDE DEF U
    <2> QED BY <2>1, EventsAreFinite, FS_Subset
  <1>5. Cardinality(U) + 1 <= RequestCap(l)
    <2> HIDE DEF U
    <2> QED BY <1>3 DEF cap_fit, Under
  <1>6. /\ clock \in Nat /\ MaxLag \in Nat /\ Window(l) \in Nat /\ MaxWindow \in Nat
        /\ Window(l) <= MaxWindow
    BY <1>0, BoundsAreNumbers, RulesAreTyped, WindowsAreBounded DEF TypeInv
  <1>7. ASSUME NEW q \in Q PROVE \E e \in U : e.req = q
    <2>1. /\ q \in Reqs /\ sent[q] # NULL /\ SameQuota(l, Request[r], Request[q])
          /\ sent[q] \in t .. t + Window(l) - MaxLag - 1
      BY DEF InWindow
    <2>2. sent[q] \in Nat /\ sent[q] <= clock
      BY <1>0, <2>1 DEF TypeInv, Instants, ReadingsAreRecent
    <2>3. clock - sent[q] <= Window(l) - MaxLag - 1
      BY <1>6, <2>1, <2>2
    <2>4. ~(clock >= sent[q] - MaxLag + MaxWindow)
      BY <1>6, <2>2, <2>3
    <2>5. PICK e \in Range(evs) : e.req = q /\ sent[q] - MaxLag <= e.at /\ e.at <= sent[q]
      BY <2>1, <2>4 DEF AllRemembered, Remembers
    <2>6. e.at \in Nat
      BY EventsAreFinite DEF EventTypes
    <2>7. now <= clock
      BY DEF Recent
    <2>8. Since(now, e.at) < Window(l)
      <3>1. \A at, s, c, w, lag, n \in Nat :
                 c - s <= w - lag - 1 /\ s - lag <= at /\ n <= c => n - at < w
        OBVIOUS
      <3>2. now - e.at < Window(l)
        BY <1>6, <2>2, <2>3, <2>5, <2>6, <2>7, <3>1
      <3>3. 0 < Window(l)
        BY <1>6, <2>2, <2>3
      <3> QED BY <1>6, <2>6, <3>2, <3>3 DEF Since
    <2>9. SameQuota(l, b, Request[e.req])
      BY <2>1, <2>5 DEF SameQuota
    <2> QED BY <2>5, <2>8, <2>9 DEF UsageOf
  <1> DEFINE f == [q \in Q |-> CHOOSE e \in U : e.req = q]
  <1>8. \A q \in Q : f[q] \in U /\ f[q].req = q
    <2> HIDE DEF U
    <2> QED BY <1>7
  <1>9. f \in Injection(Q, U)
    <2>1. f \in [Q -> U]
      <3>1. f = [q \in Q |-> f[q]]
        OBVIOUS
      <3> HIDE DEF f, U
      <3> QED BY <1>8, <3>1
    <2>2. \A a, c \in Q : f[a] = f[c] => a = c
      <3> HIDE DEF f, U
      <3> QED BY <1>8
    <2>3. DOMAIN f = Q
      OBVIOUS
    <2> HIDE DEF f, U
    <2> QED BY <2>1, <2>2, <2>3 DEF Injection, IsInjective
  <1>10. IsFiniteSet(Q) /\ Cardinality(Q) <= Cardinality(U)
    <2> HIDE DEF f, U
    <2> QED BY <1>4, <1>9, FS_Injection
  <1>11. Cardinality(Q) \in Nat /\ Cardinality(U) \in Nat
    BY <1>4, <1>10, FS_CardinalityType
  <1>12. RequestCap(l) \in Nat
    BY RequestCapIsPositive
  <1> HIDE DEF U
  <1> QED BY <1>5, <1>10, <1>11, <1>12

\* Every step keeps every window within the cap.
LEMMA CountStep == MemoryInv /\ RollingCount /\ [Next]_vars => RollingCount'
  <1> SUFFICES ASSUME MemoryInv, RollingCount, [Next]_vars,
                      NEW l \in Rules, NEW r \in Reqs, NEW t \in 0..MaxTime,
                      RequestCap(l) # NULL, rule_matches(l, Request[r])
               PROVE  Cardinality(InWindow(sent', l, r, t)) <= RequestCap(l)
    BY DEF RollingCount, InWindow
  <1> DEFINE old == InWindow(sent, l, r, t)
             new == InWindow(sent', l, r, t)
  <1>0. OwnerInv /\ TypeInv /\ t \in Nat /\ RequestCap(l) \in Nat /\ 0 < RequestCap(l)
    BY BoundsAreNumbers, RequestCapIsPositive DEF MemoryInv
  <1>1. Cardinality(old) <= RequestCap(l)
    BY DEF RollingCount, InWindow
  <1>2. IsFiniteSet(old) /\ IsFiniteSet(new)
    BY CallersAreFinite, FS_Subset DEF InWindow
  <1>3. Cardinality(old) \in Nat /\ Cardinality(new) \in Nat
    BY <1>2, FS_CardinalityType
  <1>4. CASE new \subseteq old
    <2>1. Cardinality(new) <= Cardinality(old)
      <3> HIDE DEF new, old
      <3> QED BY <1>2, <1>4, FS_Subset
    <2>2. Cardinality(new) <= RequestCap(l)
      <3> HIDE DEF new, old
      <3> QED BY <1>0, <1>1, <1>3, <2>1
    <2> QED BY <2>2
  <1>5. CASE ~(new \subseteq old)
    <2>0. ~(\A p \in Reqs : sent'[p] \in {sent[p], NULL})
      BY <1>5 DEF InWindow
    <2>1. PICK evs \in Seq(EventTypes), now \in Nat : \E marks :
                  /\ AreMarks(marks) /\ Recent(now, clock)
                  /\ AllRemembered(sent, evs, clock) /\ AllHeldBack(sent, marks, clock)
                  /\ dispatch_ready(evs, marks, now)
      BY <2>0, DispatchIsInformed
    <2>2. PICK marks : /\ AreMarks(marks) /\ Recent(now, clock)
                       /\ AllRemembered(sent, evs, clock)
                       /\ dispatch_ready(evs, marks, now)
      BY <2>1
    <2>3. PICK best \in ReadyNow(evs, marks, now) : sent' = [sent EXCEPT ![best] = clock]
      BY <2>0, <2>2 DEF dispatch_ready, Dispatch
    <2>4. best \in Reqs
      BY <1>0 DEF ReadyNow, OwnerInv, Shape
    <2>5. sent'[best] = clock /\ \A q \in Reqs \ {best} : sent'[q] = sent[q]
      BY <1>0, <2>3, <2>4 DEF TypeInv
    <2>6. new \ {best} \subseteq old \ {best}
      BY <2>5 DEF InWindow
    <2>7. best \in new
      BY <1>5, <2>6
    <2>8. SameQuota(l, Request[r], Request[best]) /\ clock \in t .. t + Window(l) - MaxLag - 1
      BY <2>5, <2>7 DEF InWindow
    <2> DEFINE Q == new \ {best}
    <2>9. Q \in SUBSET (InWindow(sent, l, r, t) \ {best})
      BY <2>6
    <2>10. Cardinality(Q) + 1 <= RequestCap(l)
      <3> HIDE DEF Q
      <3> QED BY <1>0, <2>2, <2>8, <2>9, RoomInTheWindow
    <2>11. Cardinality(Q) = Cardinality(new) - 1
      <3> HIDE DEF new
      <3> QED BY <1>2, <2>7, FS_RemoveElement
    <2>12. Cardinality(new) <= RequestCap(l)
      <3> HIDE DEF new, Q
      <3> QED BY <1>0, <1>3, <2>10, <2>11
    <2> QED BY <2>12
  <1> QED BY <1>4, <1>5

\* max_requests and max_rps bound every rolling window of real time, for any
\* policy, any number of callers and any interleaving, but for the time MaxLag
\* that a caller may spend between reading the clock and getting the mutex.
THEOREM WindowsAreKept == Spec => []RollingCount
  <1>1. Init => RollingCount
    <2> SUFFICES ASSUME Init, NEW l \in Rules, NEW r \in Reqs, NEW t \in 0..MaxTime,
                        RequestCap(l) # NULL
                 PROVE  Cardinality(InWindow(sent, l, r, t)) <= RequestCap(l)
      BY DEF RollingCount, InWindow
    <2>1. InWindow(sent, l, r, t) = {}
      BY DEF Init, InWindow
    <2> QED BY <2>1, FS_EmptySet, RequestCapIsPositive
  <1> QED BY <1>1, CountStep, MemoryAlways, PTL DEF Spec

===============================================================================
