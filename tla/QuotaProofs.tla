----------------------------- MODULE QuotaProofs -----------------------------
(***************************************************************************)
(* Facts about the quota arithmetic of Quota, for every policy and every   *)
(* history of usage: when a request is permitted is a well-defined instant.*)
(***************************************************************************)
EXTENDS Quota, FiniteSetTheorems, WellFoundedInduction, TLAPS

-------------------------------------------------------------------------------
(* Induction.  The library's induction theorems take a predicate; these    *)
(* take the set of the values that have it, and rest on the strict-subset  *)
(* ordering being well founded.                                            *)

\* A family of subsets of a finite set that contains every subset whose own
\* strict subsets it contains, contains them all.
LEMMA SubsetInduction ==
    ASSUME NEW S, IsFiniteSet(S), NEW G,
           \A T \in SUBSET S : (\A U \in SUBSET T : U # T => U \in G) => T \in G
    PROVE  \A T \in SUBSET S : T \in G
  <1> DEFINE Bad == {T \in SUBSET S : T \notin G}
  <1>1. SUFFICES ASSUME Bad # {} PROVE FALSE
    OBVIOUS
  <1>2. Bad \subseteq FiniteSubsetsOf(S)
    BY FS_FiniteSubsetsOfFinite
  <1>3. IsWellFoundedOn(StrictSubsetOrdering(S), FiniteSubsetsOf(S))
    BY FS_StrictSubsetOrderingWellFounded
  <1> HIDE DEF Bad
  <1>4. PICK T \in Bad : \A U \in Bad : <<U, T>> \notin StrictSubsetOrdering(S)
    BY <1>1, <1>2, <1>3, WFMin
  <1>5. T \in SUBSET S /\ T \notin G
    BY <1>4 DEF Bad
  <1>6. PICK U \in SUBSET T : U # T /\ U \notin G
    BY <1>5
  <1>7. U \in Bad /\ <<U, T>> \in StrictSubsetOrdering(S)
    BY <1>5, <1>6 DEF Bad, StrictSubsetOrdering
  <1> QED BY <1>4, <1>7

\* A set that contains zero and the successors of its numbers contains them all.
LEMMA NumberInduction ==
    ASSUME NEW G, 0 \in G, \A n \in Nat : n \in G => n + 1 \in G
    PROVE  \A n \in Nat : n \in G
  <1> SUFFICES ASSUME NEW n \in Nat, n \notin G PROVE FALSE
    OBVIOUS
  <1> DEFINE S == 0..n
             Good == {T \in SUBSET S : \A m \in Nat : T = 0..m => m \in G}
  <1>1. IsFiniteSet(S)
    BY FS_Interval
  <1>2. ASSUME NEW T \in SUBSET S, \A U \in SUBSET T : U # T => U \in Good
        PROVE  T \in Good
    <2>1. SUFFICES ASSUME NEW m \in Nat, T = 0..m PROVE m \in G
      OBVIOUS
    <2>2. CASE m # 0
      <3>1. 0..(m-1) \in SUBSET T /\ m \in T /\ m \notin 0..(m-1) /\ m - 1 \in Nat
        BY <2>1, <2>2
      <3>2. 0..(m-1) \in Good
        BY <1>2, <3>1
      <3>3. m - 1 \in G
        BY <3>1, <3>2
      <3> QED BY <3>1, <3>3
    <2> QED BY <2>2
  <1>3. S \in SUBSET S /\ (S \in Good => n \in G)
    OBVIOUS
  <1> HIDE DEF Good, S
  <1>4. \A T \in SUBSET S : (\A U \in SUBSET T : U # T => U \in Good) => T \in Good
    BY <1>2
  <1>5. \A T \in SUBSET S : T \in Good
    BY <1>1, <1>4, SubsetInduction
  <1> QED BY <1>3, <1>5

\* A nonempty set of naturals has a least element.
LEMMA LeastNumber ==
    ASSUME NEW T \in SUBSET Nat, T # {}
    PROVE  Min(T) \in T /\ \A t \in T : Min(T) <= t
  <1> DEFINE G == {n \in Nat : \A m \in 0..n : m \notin T}
  <1>1. SUFFICES \E x \in T : \A t \in T : x <= t
    BY DEF Min
  <1>2. SUFFICES ASSUME \A x \in T : \E t \in T : t < x PROVE FALSE
    OBVIOUS
  <1>3. 0 \in G
    BY <1>2
  <1>4. \A n \in Nat : n \in G => n + 1 \in G
    <2> SUFFICES ASSUME NEW n \in Nat, n \in G PROVE n + 1 \in G
      OBVIOUS
    <2>1. n + 1 \notin T
      BY <1>2
    <2> QED BY <2>1
  <1> HIDE DEF G
  <1>5. \A n \in Nat : n \in G
    BY <1>3, <1>4, NumberInduction
  <1>6. \A n \in Nat : n \notin T
    BY <1>5 DEF G
  <1> QED BY <1>6

\* Max of a nonempty finite set of integers is its greatest element.
LEMMA GreatestNumber ==
    ASSUME NEW T \in SUBSET Int, IsFiniteSet(T), T # {}
    PROVE  Max(T) \in T /\ \A t \in T : t <= Max(T)
  <1> DEFINE G == {s \in SUBSET T : s # {} => \E x \in s : \A t \in s : t <= x}
  <1>1. ASSUME NEW s \in SUBSET T, \A u \in SUBSET s : u # s => u \in G
        PROVE  s \in G
    <2> SUFFICES ASSUME s # {} PROVE \E x \in s : \A t \in s : t <= x
      OBVIOUS
    <2>1. PICK y \in s : TRUE
      OBVIOUS
    <2>2. CASE s \ {y} = {}
      BY <2>1, <2>2
    <2>3. CASE s \ {y} # {}
      <3> DEFINE u == s \ {y}
      <3>0. u \in SUBSET s /\ u # s
        BY <2>1
      <3>1. PICK x \in u : \A t \in u : t <= x
        BY <1>1, <2>3, <3>0
      <3>2. CASE y <= x
        BY <3>1, <3>2
      <3>3. CASE ~(y <= x)
        BY <2>1, <3>1, <3>3
      <3> QED BY <3>2, <3>3
    <2> QED BY <2>2, <2>3
  <1>2. \A s \in SUBSET T : (\A u \in SUBSET s : u # s => u \in G) => s \in G
    BY <1>1
  <1> HIDE DEF G
  <1>3. \A s \in SUBSET T : s \in G
    BY <1>2, SubsetInduction
  <1>4. \E x \in T : \A t \in T : t <= x
    BY <1>3 DEF G
  <1> QED BY <1>4 DEF Max

\* A set of two values is finite.
LEMMA PairsAreFinite == \A a, b : IsFiniteSet({a, b})
  <1> SUFFICES ASSUME NEW a, NEW b PROVE IsFiniteSet({a, b})
    OBVIOUS
  <1> DEFINE one == {a}
             other == {b}
  <1>1. {a, b} = one \cup other
    OBVIOUS
  <1>2. IsFiniteSet(one) /\ IsFiniteSet(other)
    BY FS_Singleton, Zenon
  <1> HIDE DEF one, other
  <1>3. IsFiniteSet(one \cup other)
    BY <1>2, FS_Union
  <1> QED BY <1>1, <1>3

\* The image of a finite set is finite.
LEMMA FiniteImage ==
    ASSUME NEW S, IsFiniteSet(S), NEW T, NEW f \in [S -> T]
    PROVE  IsFiniteSet(Range(f))
  <1>1. f \in Surjection(S, Range(f))
    BY DEF Surjection, Range
  <1> QED BY <1>1, FS_Surjection

\* Multiplication by a natural number keeps the order.
LEMMA ProductGrows ==
    ASSUME NEW c \in Nat, NEW a \in Int, NEW b \in Int, a <= b
    PROVE  c * a <= c * b
  <1>1. c * (b - a) \in Nat
    OBVIOUS
  <1>2. c * b = c * a + c * (b - a)
    OBVIOUS
  <1>3. c * a \in Int /\ c * b \in Int
    OBVIOUS
  <1> QED BY <1>1, <1>2, <1>3

\* Integer division by d keeps the order of the dividends.
LEMMA QuotientGrows ==
    ASSUME NEW d \in Nat \ {0}, NEW a \in Nat, NEW b \in Nat, a <= b
    PROVE  a \div d <= b \div d /\ a \div d \in Nat
  <1> DEFINE x == a \div d
             y == b \div d
  <1>1. x \in Int /\ y \in Int /\ d * x <= a /\ b < d * y + d /\ x >= 0
    OBVIOUS
  <1> HIDE DEF x, y
  <1>2. CASE x >= y + 1
    <2>1. d * (y + 1) <= d * x
      BY <1>1, <1>2, ProductGrows
    <2>2. d * (y + 1) = d * y + d /\ d * y \in Int /\ d * x \in Int
      BY <1>1
    <2> QED BY <1>1, <2>1, <2>2
  <1>3. CASE ~(x >= y + 1)
    BY <1>1, <1>3
  <1>4. x <= y /\ x \in Nat
    BY <1>1, <1>2, <1>3
  <1> QED BY <1>4 DEF x, y

-------------------------------------------------------------------------------
(* The rules.                                                              *)

\* The rules of a policy are finitely many; their windows are durations, and
\* their caps positive where they are given.
LEMMA RulesAreTyped ==
    /\ IsFiniteSet(DOMAIN Limits) /\ IsFiniteSet(Rules)
    /\ \A l \in Rules :
           /\ l.window_seconds \in Nat /\ Window(l) \in Nat
           /\ \A c \in OptionalCaps : l[c] # NULL => l[c] \in Nat \ {0}
           /\ HasRollingQuota(l) => l.window_seconds > 0 /\ Window(l) > 0
  <1>1. DOMAIN Limits = 1..Len(Limits) /\ Len(Limits) \in Nat
    BY PolicyIsTyped
  <1>2. IsFiniteSet(DOMAIN Limits)
    BY <1>1, FS_Interval
  <1>3. ASSUME NEW l \in Rules
        PROVE  /\ l.window_seconds \in Nat /\ Window(l) \in Nat
               /\ \A c \in OptionalCaps : l[c] # NULL => l[c] \in Nat \ {0}
               /\ HasRollingQuota(l) => l.window_seconds > 0 /\ Window(l) > 0
    <2>1. l.window_seconds \in Nat /\ Second \in Nat \ {0}
      BY PolicyIsTyped DEF Rules
    <2>2. Window(l) \in Nat /\ (l.window_seconds > 0 => Window(l) > 0)
      <3>1. \A x \in Nat, y \in Nat \ {0} : x * y \in Nat /\ (x > 0 => x * y > 0)
        OBVIOUS
      <3> QED BY <2>1, <3>1 DEF Window
    <2> QED BY <2>1, <2>2, PolicyIsValid DEF Rules
  <1>4. IsFiniteSet(Rules)
    <2>1. Limits \in [DOMAIN Limits -> Range(Limits)]
      BY PolicyIsTyped
    <2> QED BY <1>2, <2>1, FiniteImage DEF Rules
  <1> QED BY <1>2, <1>3, <1>4

\* A rule allows at least one request per window.
LEMMA RequestCapIsPositive ==
    ASSUME NEW l \in Rules
    PROVE  RequestCap(l) = NULL \/ RequestCap(l) \in Nat \ {0}
  <1> DEFINE rate == IF l.max_rps = NULL THEN NULL ELSE l.max_rps * l.window_seconds
             caps == {l.max_requests, rate} \ {NULL}
  <1>1. l.max_requests = NULL \/ l.max_requests \in Nat \ {0}
    BY RulesAreTyped DEF OptionalCaps
  <1>2. rate = NULL \/ rate \in Nat \ {0}
    <2>1. l.max_rps # NULL => l.max_rps \in Nat \ {0} /\ l.window_seconds \in Nat \ {0}
      BY RulesAreTyped DEF OptionalCaps, HasRollingQuota
    <2>2. \A x \in Nat \ {0}, y \in Nat \ {0} : x * y \in Nat \ {0}
      OBVIOUS
    <2> QED BY <2>1, <2>2
  <1>3. RequestCap(l) = IF caps = {} THEN NULL ELSE Min(caps)
    BY DEF RequestCap
  <1> HIDE DEF rate
  <1>4. caps \subseteq Nat \ {0}
    BY <1>1, <1>2
  <1> HIDE DEF caps
  <1>5. caps # {} => Min(caps) \in caps
    BY <1>4, LeastNumber
  <1> QED BY <1>3, <1>4, <1>5

\* An empty window has no usage in it, and every request that is not impossible
\* fits in it.
LEMMA NothingUsed == InputOf({}) = 0 /\ OutputOf({}) = 0
  <1>1. ASSUME NEW f, f = [s \in SUBSET {} |->
                  IF s = {} THEN 0
                  ELSE LET x == CHOOSE y \in s : TRUE IN x.input + f[s \ {x}]]
        PROVE  f[{}] = 0
    BY <1>1
  <1>2. ASSUME NEW f, f = [s \in SUBSET {} |->
                  IF s = {} THEN 0
                  ELSE LET x == CHOOSE y \in s : TRUE IN x.output + f[s \ {x}]]
        PROVE  f[{}] = 0
    BY <1>2
  <1> DEFINE zero == [s \in SUBSET {} |-> 0]
  <1>3. zero = [s \in SUBSET {} |->
                  IF s = {} THEN 0
                  ELSE LET x == CHOOSE y \in s : TRUE IN x.input + zero[s \ {x}]]
    OBVIOUS
  <1>4. zero = [s \in SUBSET {} |->
                  IF s = {} THEN 0
                  ELSE LET x == CHOOSE y \in s : TRUE IN x.output + zero[s \ {x}]]
    OBVIOUS
  <1> HIDE DEF zero
  <1>5. InputOf({}) = 0
    BY <1>1, <1>3 DEF InputOf, MapThenSumSet, MapThenFoldSet
  <1>6. OutputOf({}) = 0
    BY <1>2, <1>4 DEF OutputOf, MapThenSumSet, MapThenFoldSet
  <1> QED BY <1>5, <1>6

\* A request no rule forbids outright fits every rule of an empty window.
LEMMA FitsWhenAllExpired ==
    ASSUME NEW q, q.input \in Nat, q.output \in Nat, ~Impossible(q),
           NEW l \in Rules, rule_matches(l, q)
    PROVE  cap_fit(l, q, {})
  <1>1. /\ Under(q.input, l.max_input_tokens) /\ Under(q.output, l.max_output_tokens)
        /\ Under(q.input + q.output, l.max_total_tokens)
    BY DEF Impossible
  <1>2. Under(Cardinality({}) + 1, RequestCap(l))
    BY RequestCapIsPositive, FS_EmptySet DEF Under
  <1> QED BY <1>1, <1>2, NothingUsed DEF cap_fit, Under

\* A UsageEvent.
EventTypes == [req : Reqs, at : Nat, input : Nat, output : Nat]

\* rolling_fit answers now, for a request that fits, or the instant at which
\* enough of the usage has expired: when one of the events leaves the window.
LEMMA RollingFitIsAnInstant ==
    ASSUME NEW q, q.input \in Nat, q.output \in Nat, ~Impossible(q),
           NEW l \in Rules, rule_matches(l, q),
           NEW es \in SUBSET EventTypes, IsFiniteSet(es), NEW now \in Nat
    PROVE  /\ rolling_fit(l, q, es, now) \in Nat
           /\ \/ cap_fit(l, q, es) /\ rolling_fit(l, q, es, now) = now
              \/ \E e \in es : rolling_fit(l, q, es, now) = e.at + Window(l)
  <1>1. CASE cap_fit(l, q, es)
    BY <1>1 DEF rolling_fit
  <1>2. CASE ~cap_fit(l, q, es)
    <2> DEFINE f == [e \in es |-> e.at + Window(l)]
               T == {t \in {e.at + Window(l) : e \in es} :
                        cap_fit(l, q, {e \in es : e.at + Window(l) > t})}
    <2>1. es # {}
      BY <1>2, FitsWhenAllExpired
    <2>2. Window(l) \in Nat /\ \A e \in es : e.at \in Nat
      BY RulesAreTyped DEF EventTypes
    <2>3. f \in [es -> Nat] /\ Range(f) = {e.at + Window(l) : e \in es}
      BY <2>2 DEF Range
    <2>4. IsFiniteSet(Range(f)) /\ Range(f) # {} /\ Range(f) \subseteq Int
      <3> HIDE DEF f
      <3>1. IsFiniteSet(Range(f))
        BY <2>3, FiniteImage
      <3> QED BY <2>1, <2>2, <2>3, <3>1
    <2> DEFINE last == Max(Range(f))
    <2>5. last \in Range(f) /\ \A t \in Range(f) : t <= last
      BY <2>4, GreatestNumber
    <2> HIDE DEF f, last
    <2>6. {e \in es : e.at + Window(l) > last} = {}
      <3> SUFFICES ASSUME NEW e \in es PROVE ~(e.at + Window(l) > last)
        OBVIOUS
      <3>1. e.at + Window(l) \in Range(f)
        BY <2>3
      <3>2. e.at + Window(l) \in Nat /\ last \in Nat /\ e.at + Window(l) <= last
        BY <2>2, <2>3, <2>5, <3>1
      <3> QED BY <3>2
    <2>7. last \in T
      BY <2>3, <2>5, <2>6, FitsWhenAllExpired
    <2>8. T \in SUBSET Nat
      BY <2>2
    <2> HIDE DEF T
    <2>9. Min(T) \in T
      BY <2>7, <2>8, LeastNumber
    <2>10. rolling_fit(l, q, es, now) = Min(T)
      BY <1>2 DEF rolling_fit, T
    <2>11. PICK e \in es : rolling_fit(l, q, es, now) = e.at + Window(l)
      BY <2>9, <2>10 DEF T
    <2> QED BY <2>2, <2>11
  <1> QED BY <1>1, <1>2

-------------------------------------------------------------------------------
(* Pacing marks.                                                           *)

\* Every mark is an instant.
AreMarks(m) == \A k \in DOMAIN m : m[k] \in Nat

\* What a dispatch adds to a mark is a duration.
LEMMA PaceIsNatural ==
    ASSUME NEW q, NEW input \in Nat, NEW output \in Nat,
           NEW k \in PacingKeys(q, input, output)
    PROVE  PaceOf(k, input, output) \in Nat
  <1> DEFINE l == Limits[k.rule]
             cap == l[MetricCap[k.metric]]
  <1>1. /\ l \in Rules /\ k.metric \in {"requests", "input", "output", "total"}
        /\ cap # NULL
    BY DEF PacingKeys, Rules, Range, MetricCap
  <1>2. MetricCap[k.metric] \in OptionalCaps
    BY <1>1 DEF MetricCap, OptionalCaps
  <1>3. cap \in Nat \ {0} /\ Window(l) \in Nat /\ Second \in Nat
    BY <1>1, <1>2, RulesAreTyped, PolicyIsTyped
  <1>4. \A x \in Nat, y \in Nat \ {0} : x \div y \in Nat
    OBVIOUS
  <1>5. CASE k.metric = "requests"
    <2>1. cap = l.max_rps
      BY <1>5 DEF MetricCap
    <2> QED BY <1>3, <1>4, <1>5, <2>1 DEF PaceOf
  <1>6. CASE k.metric # "requests"
    <2>1. Demand(k.metric, input, output) \in Nat
      BY <1>1 DEF Demand
    <2>2. Demand(k.metric, input, output) * Window(l) \in Nat
      BY <1>3, <2>1
    <2> HIDE DEF cap
    <2>3. (Demand(k.metric, input, output) * Window(l)) \div cap \in Nat
      BY <1>3, <1>4, <2>2
    <2> QED BY <1>6, <2>3 DEF PaceOf, cap
  <1> QED BY <1>5, <1>6

\* A request is paced under finitely many marks.
LEMMA KeysAreFinite ==
    ASSUME NEW q, NEW input, NEW output
    PROVE  IsFiniteSet(PacingKeys(q, input, output))
  <1> DEFINE D == (DOMAIN Limits) \X DOMAIN MetricCap
             key(p) == [rule |-> p[1], provider |-> q.provider,
                        auth |-> IF Limits[p[1]].auth_scoped THEN q.auth_scope ELSE NULL,
                        metric |-> p[2]]
             f == [p \in D |-> key(p)]
  <1>1. IsFiniteSet(D)
    <2>1. DOMAIN MetricCap = {"requests", "input", "output", "total"}
      BY DEF MetricCap
    <2>3. DOMAIN MetricCap = {"requests", "input"} \cup {"output", "total"}
      BY <2>1
    <2>4. IsFiniteSet({"requests", "input"}) /\ IsFiniteSet({"output", "total"})
      BY PairsAreFinite, Zenon
    <2>2. IsFiniteSet(DOMAIN MetricCap)
      BY <2>3, <2>4, FS_Union
    <2> QED BY <2>2, RulesAreTyped, FS_Product
  <1>2. PacingKeys(q, input, output) \subseteq Range(f)
    <2> SUFFICES ASSUME NEW k \in PacingKeys(q, input, output) PROVE k \in Range(f)
      OBVIOUS
    <2> DEFINE p == <<k.rule, k.metric>>
    <2>1. p \in D /\ key(p) = k
      BY DEF PacingKeys
    <2>2. p \in DOMAIN f /\ f[p] = k
      BY <2>1
    <2> QED BY <2>2 DEF Range
  <1>3. f \in [D -> Range(f)]
    BY DEF Range
  <1>4. IsFiniteSet(Range(f))
    <2> HIDE DEF D, f
    <2> QED BY <1>1, <1>3, FiniteImage
  <1> QED BY <1>2, <1>4, FS_Subset

\* update_pacing leaves instants in the marks.
LEMMA MarksStayTyped ==
    ASSUME NEW m, AreMarks(m), NEW q, NEW input \in Nat, NEW output \in Nat, NEW now \in Nat
    PROVE  /\ AreMarks(update_pacing(m, q, input, output, now))
           /\ \A k : MarkOf(m, k) \in Nat
  <1>1. \A k : MarkOf(m, k) \in Nat
    BY DEF MarkOf, AreMarks
  <1>2. \A a, b \in Nat : Max({a, b}) \in Nat /\ Max({a, b}) >= a /\ Max({a, b}) >= b
    <2> SUFFICES ASSUME NEW a \in Nat, NEW b \in Nat
                 PROVE  Max({a, b}) \in Nat /\ Max({a, b}) >= a /\ Max({a, b}) >= b
      OBVIOUS
    <2>1. IsFiniteSet({a, b})
      BY PairsAreFinite, Zenon
    <2>2. Max({a, b}) \in {a, b} /\ \A t \in {a, b} : t <= Max({a, b})
      BY <2>1, GreatestNumber
    <2> QED BY <2>2
  <1>3. \A k \in PacingKeys(q, input, output) : PaceOf(k, input, output) \in Nat
    BY PaceIsNatural
  <1> QED BY <1>1, <1>2, <1>3 DEF AreMarks, update_pacing

-------------------------------------------------------------------------------
(* When a request is permitted.                                            *)

\* The usage that counts against rule l when q is considered.
UsageOf(l, q, evs, now) == {e \in Range(evs) : /\ Since(now, e.at) < Window(l)
                                               /\ SameQuota(l, q, Request[e.req])}

\* Finitely many events are kept, each with its request and its instant.
LEMMA EventsAreFinite ==
    ASSUME NEW evs \in Seq(EventTypes)
    PROVE  IsFiniteSet(Range(evs)) /\ Range(evs) \subseteq EventTypes
  <1>1. Len(evs) \in Nat /\ evs \in [1..Len(evs) -> EventTypes]
    OBVIOUS
  <1>2. IsFiniteSet(1..Len(evs))
    BY <1>1, FS_Interval
  <1>3. IsFiniteSet(Range(evs))
    BY <1>1, <1>2, FiniteImage
  <1>4. Range(evs) \subseteq EventTypes
    BY <1>1 DEF Range
  <1> QED BY <1>3, <1>4

\* What readiness answers to a request the policy does not forbid outright is
\* an instant, never one that has passed, or NULL; and when that instant has
\* come, every mark, every window and every max_concurrency permits the request,
\* so that dispatch_ready need not test them again.
THEOREM ReadinessIsAnInstant ==
    ASSUME NEW q, q.input \in Nat, q.output \in Nat, ~Impossible(q),
           NEW evs \in Seq(EventTypes), NEW act, NEW marks, AreMarks(marks), NEW now \in Nat
    PROVE  LET t == readiness(q, evs, act, marks, now)
           IN /\ t # NULL => t \in Nat /\ t >= now
              /\ t = now => /\ \A k \in PacingKeys(q, q.input, q.output) : MarkOf(marks, k) <= now
                            /\ \A l \in Rules : rule_matches(l, q) =>
                                   cap_fit(l, q, UsageOf(l, q, evs, now))
                            /\ ~AtConcurrencyLimit(q, act)
  <1> DEFINE rules == {l \in Rules : rule_matches(l, q)}
             fit(l) == rolling_fit(l, q, UsageOf(l, q, evs, now), now)
             keys == PacingKeys(q, q.input, q.output)
             fits == [l \in rules |-> fit(l)]
             held == [k \in keys |-> MarkOf(marks, k)]
             T == {now} \cup {fit(l) : l \in rules} \cup {MarkOf(marks, k) : k \in keys}
             t == readiness(q, evs, act, marks, now)
  <1>1. \A l \in Rules : /\ UsageOf(l, q, evs, now) \in SUBSET EventTypes
                         /\ IsFiniteSet(UsageOf(l, q, evs, now))
    BY EventsAreFinite, FS_Subset DEF UsageOf
  <1>2. \A l \in rules : /\ fit(l) \in Nat
                         /\ \/ cap_fit(l, q, UsageOf(l, q, evs, now))
                            \/ \E e \in UsageOf(l, q, evs, now) : fit(l) = e.at + Window(l)
    BY <1>1, RollingFitIsAnInstant
  <1>3. \A k \in keys : MarkOf(marks, k) \in Nat
    BY DEF MarkOf, AreMarks
  <1>4. T = {now} \cup (Range(fits) \cup Range(held))
    BY DEF Range
  <1>5. IsFiniteSet(Range(fits))
    <2>1. IsFiniteSet(rules)
      BY RulesAreTyped, FS_Subset
    <2>2. fits \in [rules -> Nat]
      BY <1>2
    <2> HIDE DEF fits, rules
    <2> QED BY <2>1, <2>2, FiniteImage
  <1>6. IsFiniteSet(Range(held))
    <2>1. IsFiniteSet(keys)
      BY KeysAreFinite
    <2>2. held \in [keys -> Nat]
      BY <1>3
    <2> HIDE DEF held, keys
    <2> QED BY <2>1, <2>2, FiniteImage
  <1>7. IsFiniteSet(T)
    <2>1. IsFiniteSet({now})
      BY FS_Singleton, Zenon
    <2>2. IsFiniteSet(Range(fits) \cup Range(held))
      BY <1>5, <1>6, FS_Union
    <2>3. IsFiniteSet({now} \cup (Range(fits) \cup Range(held)))
      BY <2>1, <2>2, FS_Union
    <2> QED BY <1>4, <2>3
  <1>8. T \in SUBSET Int /\ T # {} /\ T \subseteq Nat
    BY <1>2, <1>3
  <1>9. t = IF Max(T) = now /\ AtConcurrencyLimit(q, act) THEN NULL ELSE Max(T)
    BY DEF readiness, UsageOf
  <1>10. \A l \in rules : fit(l) \in T
    OBVIOUS
  <1>11. \A k \in keys : MarkOf(marks, k) \in T
    OBVIOUS
  <1>12. now \in T
    OBVIOUS
  <1> HIDE DEF T
  <1>13. Max(T) \in T /\ \A u \in T : u <= Max(T)
    BY <1>7, <1>8, GreatestNumber
  <1>14. t # NULL => t \in Nat /\ t >= now
    BY <1>8, <1>9, <1>12, <1>13
  <1>15. ASSUME t = now
         PROVE  /\ \A k \in keys : MarkOf(marks, k) <= now
                /\ \A l \in Rules : rule_matches(l, q) => cap_fit(l, q, UsageOf(l, q, evs, now))
                /\ ~AtConcurrencyLimit(q, act)
    <2>1. Max(T) = now /\ ~AtConcurrencyLimit(q, act)
      BY <1>9, <1>15, NullIsNoValue
    <2>2. \A k \in keys : MarkOf(marks, k) <= now
      BY <1>11, <1>13, <2>1
    <2>3. ASSUME NEW l \in rules, ~cap_fit(l, q, UsageOf(l, q, evs, now)) PROVE FALSE
      <3>1. fit(l) <= now
        BY <1>10, <1>13, <2>1
      <3>2. PICK e \in UsageOf(l, q, evs, now) : fit(l) = e.at + Window(l)
        BY <1>2, <2>3
      <3>3. Since(now, e.at) < Window(l) /\ e.at \in Nat
        BY <1>1 DEF UsageOf, EventTypes
      <3>4. Window(l) \in Nat
        BY RulesAreTyped
      <3> QED BY <3>1, <3>2, <3>3, <3>4 DEF Since
    <2> QED BY <2>1, <2>2, <2>3
  <1> HIDE DEF t
  <1> QED BY <1>14, <1>15 DEF t

-------------------------------------------------------------------------------
(* What is forgotten.                                                      *)

\* MaxWindow, by which prune_events forgets, is no shorter than any window.
LEMMA WindowsAreBounded ==
    /\ MaxWindow \in Nat
    /\ \A l \in Rules : Window(l) <= MaxWindow
  <1> DEFINE f == [l \in Rules |-> Window(l)]
             T == {Window(l) : l \in Rules} \cup {0}
  <1>1. f \in [Rules -> Nat] /\ Range(f) = {Window(l) : l \in Rules}
    BY RulesAreTyped DEF Range
  <1>2. IsFiniteSet(Range(f))
    <2> HIDE DEF f
    <2> QED BY <1>1, RulesAreTyped, FiniteImage
  <1>3. IsFiniteSet(T)
    <2>1. IsFiniteSet({0})
      BY FS_Singleton, Zenon
    <2>2. IsFiniteSet(Range(f) \cup {0})
      BY <1>2, <2>1, FS_Union
    <2> QED BY <1>1, <2>2
  <1>4. T \in SUBSET Int /\ T # {} /\ T \subseteq Nat /\ \A l \in Rules : Window(l) \in T
    BY <1>1
  <1>5. MaxWindow = Max(T)
    BY DEF MaxWindow
  <1> HIDE DEF T
  <1> QED BY <1>3, <1>4, <1>5, GreatestNumber

\* Only events that have left every window are forgotten.
LEMMA PruneKeepsEvents ==
    ASSUME NEW evs \in Seq(EventTypes), NEW now \in Nat
    PROVE  /\ pruned_events(evs, now) \in Seq(EventTypes)
           /\ Range(pruned_events(evs, now)) \subseteq Range(evs)
           /\ \A e \in Range(evs) :
                  Since(now, e.at) < MaxWindow => e \in Range(pruned_events(evs, now))
  <1> DEFINE kept == {i \in DOMAIN evs : Since(now, evs[i].at) < MaxWindow}
             new == pruned_events(evs, now)
  <1>1. CASE kept = {}
    <2>1. new = << >>
      BY <1>1 DEF pruned_events
    <2> QED BY <1>1, <2>1 DEF Range
  <1>2. CASE kept # {}
    <2> DEFINE m == Min(kept)
    <2>1. kept \in SUBSET Nat
      OBVIOUS
    <2>2. m \in kept /\ \A i \in kept : m <= i
      <3> HIDE DEF kept
      <3> QED BY <1>2, <2>1, LeastNumber
    <2>3. m \in 1..Len(evs) /\ Len(evs) \in Nat
      BY <2>2
    <2>4. new = SubSeq(evs, m, Len(evs))
      BY <1>2 DEF pruned_events
    <2> HIDE DEF m, new
    <2>5. /\ new \in Seq(EventTypes) /\ Len(new) = Len(evs) - m + 1
          /\ \A i \in 1..Len(new) : new[i] = evs[m + i - 1]
      BY <2>3, <2>4
    <2>6. Range(new) \subseteq Range(evs)
      <3> SUFFICES ASSUME NEW i \in 1..Len(new) PROVE new[i] \in Range(evs)
        BY <2>5 DEF Range
      <3>1. m + i - 1 \in DOMAIN evs
        BY <2>3, <2>5
      <3> QED BY <2>5, <3>1 DEF Range
    <2>7. ASSUME NEW j \in DOMAIN evs, Since(now, evs[j].at) < MaxWindow
          PROVE  evs[j] \in Range(new)
      <3>1. m <= j /\ j \in 1..Len(evs)
        BY <2>2, <2>7
      <3> DEFINE i == j - m + 1
      <3>2. i \in 1..Len(new) /\ m + i - 1 = j
        BY <2>3, <2>5, <3>1
      <3>3. new[i] = evs[j]
        BY <2>5, <3>2
      <3>4. i \in DOMAIN new
        BY <2>5, <3>2
      <3> QED BY <3>3, <3>4 DEF Range
    <2> QED BY <2>5, <2>6, <2>7 DEF Range, new
  <1> QED BY <1>1, <1>2

\* Only marks that hold nobody back are forgotten.
LEMMA PruneKeepsMarks ==
    ASSUME NEW m, AreMarks(m), NEW now \in Nat
    PROVE  /\ AreMarks(pruned_pacing(m, now))
           /\ \A k : /\ MarkOf(pruned_pacing(m, now), k) <= MarkOf(m, k)
                     /\ MarkOf(m, k) > now => MarkOf(pruned_pacing(m, now), k) = MarkOf(m, k)
  BY DEF AreMarks, pruned_pacing, MarkOf

-------------------------------------------------------------------------------
(* Marks rebuilt from the events, one after the other.                     *)

\* The marks after the first n events, from those after the first n - 1.
Replayed(evs, M, n) ==
    IF n = 0 THEN << >>
    ELSE update_pacing(M[n-1], Request[evs[n].req], evs[n].input, evs[n].output, evs[n].at)

\* M holds the marks after each of the first m events.
Replays(evs, m, M) == M = [n \in 0..m |-> Replayed(evs, M, n)]

\* The replay of the first m events exists, for every m.
LEMMA ReplayExists ==
    ASSUME NEW evs
    PROVE  \A m \in Nat : \E M : Replays(evs, m, M)
  <1> DEFINE G == {m \in Nat : \E M : Replays(evs, m, M)}
  <1>1. 0 \in G
    <2> DEFINE M == [n \in 0..0 |-> << >>]
    <2>1. Replays(evs, 0, M)
      BY DEF Replays, Replayed
    <2> HIDE DEF M
    <2> QED BY <2>1
  <1>2. \A m \in Nat : m \in G => m + 1 \in G
    <2> SUFFICES ASSUME NEW m \in Nat, m \in G PROVE m + 1 \in G
      OBVIOUS
    <2>1. PICK M : Replays(evs, m, M)
      OBVIOUS
    <2> DEFINE N == [n \in 0..(m + 1) |-> Replayed(evs, M, n)]
    <2>2. \A n \in 0..m : N[n] = M[n]
      BY <2>1 DEF Replays
    <2>3. \A n \in 0..(m + 1) : Replayed(evs, M, n) = Replayed(evs, N, n)
      <3> SUFFICES ASSUME NEW n \in 0..(m + 1), n # 0
                   PROVE  Replayed(evs, M, n) = Replayed(evs, N, n)
        BY DEF Replayed
      <3>1. n - 1 \in 0..m
        OBVIOUS
      <3>2. M[n-1] = N[n-1]
        BY <2>2, <3>1
      <3> HIDE DEF N
      <3> QED BY <3>2 DEF Replayed
    <2>4. Replays(evs, m + 1, N)
      BY <2>3 DEF Replays
    <2> HIDE DEF N
    <2> QED BY <2>4
  <1> HIDE DEF G
  <1>3. \A m \in Nat : m \in G
    BY <1>1, <1>2, NumberInduction
  <1> QED BY <1>3 DEF G

\* rebuild_pacing is the end of such a replay.
LEMMA RebuildReplays ==
    ASSUME NEW evs \in Seq(EventTypes)
    PROVE  \E M : Replays(evs, Len(evs), M) /\ rebuild_pacing(evs) = M[Len(evs)]
  <1>0. Len(evs) \in Nat
    OBVIOUS
  <1>1. \E M : Replays(evs, Len(evs), M)
    BY <1>0, ReplayExists
  <1> DEFINE M == CHOOSE M : Replays(evs, Len(evs), M)
  <1>2. rebuild_pacing(evs) = M[Len(evs)]
    BY Zenon DEF rebuild_pacing, Replays, Replayed
  <1>3. Replays(evs, Len(evs), M)
    BY <1>1
  <1> HIDE DEF M
  <1> QED BY <1>2, <1>3

\* rebuild_pacing leaves instants in the marks.
LEMMA RebuiltMarksAreTyped ==
    ASSUME NEW evs \in Seq(EventTypes)
    PROVE  AreMarks(rebuild_pacing(evs))
  <1>1. PICK M : Replays(evs, Len(evs), M) /\ rebuild_pacing(evs) = M[Len(evs)]
    BY RebuildReplays
  <1> DEFINE G == {n \in Nat : n <= Len(evs) => AreMarks(M[n])}
  <1>2. 0 \in G
    BY <1>1 DEF Replays, Replayed, AreMarks
  <1>3. \A n \in Nat : n \in G => n + 1 \in G
    <2> SUFFICES ASSUME NEW n \in Nat, AreMarks(M[n]), n + 1 <= Len(evs)
                 PROVE  AreMarks(M[n + 1])
      OBVIOUS
    <2> DEFINE e == evs[n + 1]
    <2>1. e.req \in Reqs /\ e.at \in Nat /\ e.input \in Nat /\ e.output \in Nat
      <3>1. e \in EventTypes
        OBVIOUS
      <3> HIDE DEF e
      <3> QED BY <3>1 DEF EventTypes
    <2>2. M[n + 1] = update_pacing(M[n], Request[e.req], e.input, e.output, e.at)
      BY <1>1 DEF Replays, Replayed
    <2> HIDE DEF e
    <2> QED BY <2>1, <2>2, MarksStayTyped
  <1> HIDE DEF G
  <1>4. \A n \in Nat : n \in G
    BY <1>2, <1>3, NumberInduction
  <1> QED BY <1>1, <1>4 DEF G

-------------------------------------------------------------------------------
(* Requests the policy cannot tell apart.                                  *)

\* The same scope, model and tokens: all that readiness looks at.
Alike(q, p) == /\ q.provider = p.provider /\ q.auth_scope = p.auth_scope
               /\ q.model = p.model /\ q.input = p.input /\ q.output = p.output

\* Requests that are alike match the same rules, share quotas and fit together.
LEMMA AlikeInEveryRule ==
    ASSUME NEW q, NEW p, Alike(q, p), NEW l
    PROVE  /\ rule_matches(l, q) <=> rule_matches(l, p)
           /\ \A e : SameQuota(l, q, e) <=> SameQuota(l, p, e)
           /\ \A es : cap_fit(l, q, es) <=> cap_fit(l, p, es)
  BY DEF Alike, rule_matches, SameQuota, cap_fit

\* Requests that are alike are paced under the same marks.
LEMMA AlikeInPacing ==
    ASSUME NEW q, NEW p, Alike(q, p), NEW input, NEW output
    PROVE  PacingKeys(q, input, output) = PacingKeys(p, input, output)
  <1>1. \A l : rule_matches(l, q) <=> rule_matches(l, p)
    BY AlikeInEveryRule
  <1> QED BY <1>1 DEF Alike, PacingKeys

\* rolling_fit gives requests that are alike the same instant.
LEMMA AlikeInTheWindow ==
    ASSUME NEW q, NEW p, Alike(q, p), NEW l, NEW es, NEW now
    PROVE  rolling_fit(l, q, es, now) = rolling_fit(l, p, es, now)
  <1>1. \A fs : cap_fit(l, q, fs) <=> cap_fit(l, p, fs)
    BY AlikeInEveryRule
  <1> DEFINE T(x) == {t \in {e.at + Window(l) : e \in es} :
                          cap_fit(l, x, {e \in es : e.at + Window(l) > t})}
  <1>2. T(q) = T(p)
    BY <1>1
  <1>3. \A x : rolling_fit(l, x, es, now) = IF cap_fit(l, x, es) THEN now ELSE Min(T(x))
    BY DEF rolling_fit
  <1> HIDE DEF T
  <1> QED BY <1>1, <1>2, <1>3

\* readiness gives requests that are alike the same instant, and the policy
\* forbids both outright or neither.
LEMMA AlikeAreReadyTogether ==
    ASSUME NEW q, NEW p, Alike(q, p), NEW evs, NEW act, NEW marks, NEW now
    PROVE  /\ readiness(q, evs, act, marks, now) = readiness(p, evs, act, marks, now)
           /\ Impossible(q) <=> Impossible(p)
  <1> DEFINE fits(x) == {rolling_fit(l, x, UsageOf(l, x, evs, now), now) :
                             l \in {l \in Rules : rule_matches(l, x)}}
             held(x) == {MarkOf(marks, k) : k \in PacingKeys(x, x.input, x.output)}
             ready(x) == Max({now} \cup fits(x) \cup held(x))
  <1>1. /\ \A l : rule_matches(l, q) <=> rule_matches(l, p)
        /\ \A l, e : SameQuota(l, q, e) <=> SameQuota(l, p, e)
    BY AlikeInEveryRule
  <1>2. \A l : UsageOf(l, q, evs, now) = UsageOf(l, p, evs, now)
    BY <1>1 DEF UsageOf
  <1>3. \A l : rolling_fit(l, q, UsageOf(l, q, evs, now), now)
               = rolling_fit(l, p, UsageOf(l, p, evs, now), now)
    BY <1>2, AlikeInTheWindow
  <1>4. fits(q) = fits(p)
    BY <1>1, <1>3
  <1>5. held(q) = held(p)
    <2>1. PacingKeys(q, q.input, q.output) = PacingKeys(p, p.input, p.output)
      BY AlikeInPacing DEF Alike
    <2> QED BY <2>1
  <1>6. AtConcurrencyLimit(q, act) <=> AtConcurrencyLimit(p, act)
    <2>1. \A l : {a \in act : SameQuota(l, q, Request[a])} = {a \in act : SameQuota(l, p, Request[a])}
      BY <1>1
    <2> QED BY <1>1, <2>1 DEF AtConcurrencyLimit
  <1>7. \A x : readiness(x, evs, act, marks, now)
               = IF ready(x) = now /\ AtConcurrencyLimit(x, act) THEN NULL ELSE ready(x)
    BY DEF readiness, UsageOf
  <1>8. ready(q) = ready(p)
    <2> HIDE DEF fits, held
    <2> QED BY <1>4, <1>5
  <1>9. readiness(q, evs, act, marks, now) = readiness(p, evs, act, marks, now)
    <2> HIDE DEF ready
    <2> QED BY <1>6, <1>7, <1>8
  <1>10. Impossible(q) <=> Impossible(p)
    BY <1>1 DEF Impossible, Alike
  <1> QED BY <1>9, <1>10

\* A request that has waited longer has aged no less.
LEMMA ScoreGrows ==
    ASSUME NEW q, NEW p, q.priority = p.priority, q.priority \in Int,
           NEW s \in Nat, NEW t \in Nat, s <= t, NEW now \in Nat
    PROVE  /\ priority_score(q, s, now) >= priority_score(p, t, now)
           /\ priority_score(q, s, now) \in Int /\ priority_score(p, t, now) \in Int
  <1> DEFINE a == Since(now, t)
             b == Since(now, s)
             i == Policy.aging_interval
             c == Policy.aging_boost
  <1>1. a \in Nat /\ b \in Nat /\ a <= b
    BY DEF Since
  <1>2. i \in Nat \ {0} /\ c \in Nat
    BY PolicyIsTyped, PolicyIsValid
  <1> DEFINE Capped(x) == IF x > MaxAging THEN MaxAging ELSE x
  <1>3. priority_score(q, s, now) = q.priority + Capped(c * (b \div i))
    BY DEF priority_score
  <1>4. priority_score(p, t, now) = p.priority + Capped(c * (a \div i))
    BY DEF priority_score
  <1> HIDE DEF a, b, i, c
  <1>5. a \div i <= b \div i /\ a \div i \in Nat /\ b \div i \in Nat
    BY <1>1, <1>2, QuotientGrows
  <1>6. c * (a \div i) <= c * (b \div i)
    BY <1>2, <1>5, ProductGrows
  <1>7. c * (a \div i) \in Int /\ c * (b \div i) \in Int
    BY <1>2, <1>5
  <1>8. ASSUME NEW x \in Int, NEW y \in Int, x <= y
        PROVE  Capped(x) <= Capped(y) /\ Capped(x) \in Int /\ Capped(y) \in Int
    BY <1>8 DEF MaxAging
  <1>9. /\ Capped(c * (a \div i)) <= Capped(c * (b \div i))
        /\ Capped(c * (a \div i)) \in Int /\ Capped(c * (b \div i)) \in Int
    BY <1>6, <1>7, <1>8
  <1> HIDE DEF Capped
  <1> QED BY <1>3, <1>4, <1>9

-------------------------------------------------------------------------------
(* What max_rps asks of the marks.                                         *)

\* The mark that paces the requests like q under the i-th rule, and the pace.
RateKey(i, q) == [rule |-> i, provider |-> q.provider,
                  auth |-> IF Limits[i].auth_scoped THEN q.auth_scope ELSE NULL,
                  metric |-> "requests"]

\* The least distance of two dispatches under the max_rps of the i-th rule.
Pace(i) == Second \div Limits[i].max_rps

\* The i-th rule applies to q and has a max_rps.
Rated(i, q) == Limits[i].max_rps # NULL /\ rule_matches(Limits[i], q)

\* A request under a max_rps cap is paced by it, one pace at a time.
LEMMA RateKeyIsUsed ==
    ASSUME NEW q, NEW i \in DOMAIN Limits, Rated(i, q), NEW input, NEW output
    PROVE  /\ RateKey(i, q) \in PacingKeys(q, input, output)
           /\ PaceOf(RateKey(i, q), input, output) = Pace(i)
  <1>1. "requests" \in DOMAIN MetricCap /\ MetricCap["requests"] = "max_rps"
    BY DEF MetricCap
  <1>2. Demand("requests", input, output) = 1
    BY DEF Demand
  <1> DEFINE k == RateKey(i, q)
  <1>3. /\ k.rule = i /\ k.metric = "requests"
        /\ k.auth = IF Limits[i].auth_scoped THEN q.auth_scope ELSE NULL
    BY DEF RateKey
  <1>4. k \in [rule : DOMAIN Limits, provider : {q.provider},
               auth : {q.auth_scope, NULL}, metric : DOMAIN MetricCap]
    BY <1>1 DEF RateKey
  <1> HIDE DEF k
  <1>5. k \in PacingKeys(q, input, output)
    BY <1>1, <1>2, <1>3, <1>4 DEF PacingKeys, Rated
  <1>6. PaceOf(k, input, output) = Pace(i)
    BY <1>3 DEF PaceOf, Pace
  <1> QED BY <1>5, <1>6 DEF k

\* A pace is at most a second, and a second at most the window of the rule.
LEMMA PaceIsBounded ==
    ASSUME NEW i \in DOMAIN Limits, Limits[i].max_rps # NULL
    PROVE  Pace(i) \in Nat /\ Pace(i) <= MaxWindow
  <1> DEFINE l == Limits[i]
             w == l.window_seconds
             m == l.max_rps
  <1>1. l \in Rules
    BY DEF Rules, Range
  <1>2. "max_rps" \in OptionalCaps \ {"max_concurrency"}
    BY DEF OptionalCaps
  <1>3. HasRollingQuota(l)
    BY <1>2 DEF HasRollingQuota
  <1>4. w \in Nat /\ w > 0 /\ m \in Nat \ {0}
    BY <1>1, <1>2, <1>3, RulesAreTyped
  <1>5. Window(l) <= MaxWindow /\ MaxWindow \in Nat /\ Window(l) = w * Second
    BY <1>1, WindowsAreBounded DEF Window
  <1>6. Pace(i) = Second \div m
    BY DEF Pace
  <1>7. Second \in Nat
    BY PolicyIsTyped
  <1> HIDE DEF l, w, m
  <1>8. Second \div m \in Nat /\ Second \div m <= Second
    BY <1>4, <1>7
  <1>9. Second * 1 <= Second * w
    BY <1>4, <1>7, ProductGrows
  <1>10. Second * w = w * Second /\ w * Second \in Nat /\ Second * 1 = Second
    BY <1>4, <1>7
  <1> QED BY <1>5, <1>6, <1>7, <1>8, <1>9, <1>10

\* Requests that share a quota share its mark.
LEMMA SameRate ==
    ASSUME NEW i \in DOMAIN Limits, NEW p, NEW q, SameQuota(Limits[i], p, q), Rated(i, p)
    PROVE  Rated(i, q) /\ RateKey(i, q) = RateKey(i, p)
  BY DEF SameQuota, Rated, rule_matches, RateKey

\* update_pacing lowers no mark, and puts those of q a pace after the dispatch.
LEMMA UpdateRaises ==
    ASSUME NEW m, AreMarks(m), NEW q, NEW input \in Nat, NEW output \in Nat, NEW now \in Nat
    PROVE  LET new == update_pacing(m, q, input, output, now)
           IN  /\ \A k : MarkOf(new, k) >= MarkOf(m, k)
               /\ \A k \in PacingKeys(q, input, output) :
                      MarkOf(new, k) >= now + PaceOf(k, input, output)
  <1> DEFINE new == update_pacing(m, q, input, output, now)
             keys == PacingKeys(q, input, output)
  <1>1. \A k : MarkOf(m, k) \in Nat
    BY DEF MarkOf, AreMarks
  <1>2. \A a, b \in Nat : Max({a, b}) \in Nat /\ Max({a, b}) >= a /\ Max({a, b}) >= b
    <2> SUFFICES ASSUME NEW a \in Nat, NEW b \in Nat
                 PROVE  Max({a, b}) \in Nat /\ Max({a, b}) >= a /\ Max({a, b}) >= b
      OBVIOUS
    <2>1. IsFiniteSet({a, b})
      BY PairsAreFinite, Zenon
    <2>2. Max({a, b}) \in {a, b} /\ \A t \in {a, b} : t <= Max({a, b})
      BY <2>1, GreatestNumber
    <2> QED BY <2>2
  <1>3. ASSUME NEW k \in keys
        PROVE  MarkOf(new, k) >= MarkOf(m, k) /\ MarkOf(new, k) >= now + PaceOf(k, input, output)
    <2>1. PaceOf(k, input, output) \in Nat
      BY PaceIsNatural
    <2>2. MarkOf(new, k) = Max({MarkOf(m, k), now}) + PaceOf(k, input, output)
      BY DEF update_pacing, MarkOf
    <2>3. /\ Max({MarkOf(m, k), now}) \in Nat /\ Max({MarkOf(m, k), now}) >= MarkOf(m, k)
          /\ Max({MarkOf(m, k), now}) >= now
      BY <1>1, <1>2
    <2>4. MarkOf(m, k) \in Nat
      BY <1>1
    <2> QED BY <2>1, <2>2, <2>3, <2>4
  <1>4. ASSUME NEW k, k \notin keys PROVE MarkOf(new, k) = MarkOf(m, k)
    BY <1>4 DEF update_pacing, MarkOf
  <1> HIDE DEF new, keys
  <1>5. \A k : MarkOf(new, k) >= MarkOf(m, k)
    <2> SUFFICES ASSUME NEW k PROVE MarkOf(new, k) >= MarkOf(m, k)
      OBVIOUS
    <2>1. MarkOf(m, k) \in Nat
      BY <1>1
    <2> QED BY <1>3, <1>4, <2>1
  <1> QED BY <1>3, <1>5 DEF new, keys

\* What abort rebuilds from the events that are left holds every one of them:
\* rebuild_pacing forgets the pace of no request that is still on the books.
THEOREM RebuiltMarksHold ==
    ASSUME NEW evs \in Seq(EventTypes)
    PROVE  \A e \in Range(evs) :
               \A k \in PacingKeys(Request[e.req], e.input, e.output) :
                   MarkOf(rebuild_pacing(evs), k) >= e.at + PaceOf(k, e.input, e.output)
  <1>1. PICK M : Replays(evs, Len(evs), M) /\ rebuild_pacing(evs) = M[Len(evs)]
    BY RebuildReplays
  <1> DEFINE Holds(m, e) == \A k \in PacingKeys(Request[e.req], e.input, e.output) :
                                MarkOf(m, k) >= e.at + PaceOf(k, e.input, e.output)
             G == {n \in Nat : n <= Len(evs) =>
                       AreMarks(M[n]) /\ \A j \in 1..n : Holds(M[n], evs[j])}
  <1>0. Len(evs) \in Nat
    OBVIOUS
  <1>a. \A j \in 1..Len(evs) : evs[j] \in EventTypes
    OBVIOUS
  <1> HIDE DEF Holds
  <1>2. 0 \in G
    <2>1. M[0] = << >>
      BY <1>1 DEF Replays, Replayed
    <2>2. AreMarks(<< >>)
      BY DEF AreMarks
    <2> QED BY <2>1, <2>2
  <1>3. \A n \in Nat : n \in G => n + 1 \in G
    <2> SUFFICES ASSUME NEW n \in Nat, n \in G, n + 1 <= Len(evs)
                 PROVE  AreMarks(M[n + 1]) /\ \A j \in 1..(n + 1) : Holds(M[n + 1], evs[j])
      OBVIOUS
    <2>0. /\ n <= Len(evs) /\ n + 1 \in 0..Len(evs) /\ n + 1 \in 1..Len(evs)
          /\ n + 1 # 0 /\ (n + 1) - 1 = n
      BY <1>0
    <2>a. AreMarks(M[n]) /\ \A j \in 1..n : Holds(M[n], evs[j])
      BY <2>0
    <2> DEFINE d == evs[n + 1]
               q == Request[d.req]
    <2>1. d \in EventTypes
      BY <1>a, <2>0
    <2>2. d.at \in Nat /\ d.input \in Nat /\ d.output \in Nat
      BY <2>1 DEF EventTypes
    <2>3. M[n + 1] = update_pacing(M[n], q, d.input, d.output, d.at)
      <3>1. M[n + 1] = Replayed(evs, M, n + 1)
        BY <1>1, <2>0 DEF Replays
      <3> QED BY <2>0, <3>1 DEF Replayed
    <2>4. AreMarks(M[n + 1])
      <3> HIDE DEF d, q
      <3> QED BY <2>a, <2>2, <2>3, MarksStayTyped
    <2>5. /\ \A k : MarkOf(M[n + 1], k) >= MarkOf(M[n], k)
          /\ \A k \in PacingKeys(q, d.input, d.output) :
                 MarkOf(M[n + 1], k) >= d.at + PaceOf(k, d.input, d.output)
      <3> HIDE DEF d, q
      <3> QED BY <2>a, <2>2, <2>3, UpdateRaises
    <2>6. Holds(M[n + 1], evs[n + 1])
      BY <2>5 DEF Holds
    <2>7. ASSUME NEW j \in 1..n PROVE Holds(M[n + 1], evs[j])
      <3> DEFINE e == evs[j]
      <3>1. e \in EventTypes
        BY <1>a, <2>0
      <3>2. e.at \in Nat /\ e.input \in Nat /\ e.output \in Nat
        BY <3>1 DEF EventTypes
      <3> HIDE DEF e
      <3> SUFFICES ASSUME NEW k \in PacingKeys(Request[e.req], e.input, e.output)
                   PROVE  MarkOf(M[n + 1], k) >= e.at + PaceOf(k, e.input, e.output)
        BY DEF Holds, e
      <3>3. MarkOf(M[n], k) >= e.at + PaceOf(k, e.input, e.output)
        BY <2>a DEF Holds, e
      <3>4. PaceOf(k, e.input, e.output) \in Nat
        BY <3>2, PaceIsNatural
      <3>5. MarkOf(M[n + 1], k) >= MarkOf(M[n], k)
        BY <2>5
      <3>6. MarkOf(M[n], k) \in Nat /\ MarkOf(M[n + 1], k) \in Nat
        BY <2>a, <2>4 DEF MarkOf, AreMarks
      <3> QED BY <3>2, <3>3, <3>4, <3>5, <3>6
    <2>8. \A j \in 1..(n + 1) : j \in 1..n \/ j = n + 1
      OBVIOUS
    <2> HIDE DEF d, q
    <2> QED BY <2>4, <2>6, <2>7, <2>8
  <1> HIDE DEF G
  <1>4. \A n \in Nat : n \in G
    BY <1>2, <1>3, NumberInduction
  <1>5. \A e \in Range(evs) : \E j \in 1..Len(evs) : e = evs[j]
    BY DEF Range
  <1>6. \A e \in Range(evs) : Holds(rebuild_pacing(evs), e)
    BY <1>0, <1>1, <1>4, <1>5 DEF G
  <1> QED BY <1>6 DEF Holds

===============================================================================
