--------------------------------- MODULE Quota ---------------------------------
(***************************************************************************)
(* The quota arithmetic of the live scheduler (scheduling.rs from          *)
(* readiness to priority_score, scheduling_policy.rs): when may a request  *)
(* be dispatched, given the usage events, the requests in flight and the   *)
(* pacing marks.  There is no state here; Scheduler holds it.              *)
(*                                                                         *)
(* Time is counted in ticks.  NULL is Rust's None.  The session signals of *)
(* priority_score and the choice between RecommendBatch and RetryExhausted *)
(* are left out: a request's priority is its own plus aging.               *)
(***************************************************************************)
EXTENDS Integers, Sequences, FiniteSets, FiniteSetsExt, Functions

CONSTANTS
    Reqs,     \* calls of acquire
    Request,  \* [Reqs -> ScheduleRequest]
    Limits,   \* SchedulingPolicy.limits: a sequence of QuotaLimit
    Policy,   \* the other fields of SchedulingPolicy that matter here
    Second,   \* ticks in a second
    NULL      \* None

ASSUME CallersAreFinite == IsFiniteSet(Reqs) /\ NULL \notin Reqs

ASSUME NullIsNoValue == NULL \notin Nat /\ NULL \notin {"permit", "refused"}

OptionalCaps == {"max_rps", "max_requests", "max_input_tokens",
                 "max_output_tokens", "max_total_tokens", "max_concurrency"}

HasRollingQuota(l) ==
    \E c \in OptionalCaps \ {"max_concurrency"} : l[c] # NULL

\* The widths of SchedulingPolicy, QuotaLimit and ScheduleRequest: all unsigned,
\* but for a priority.  A negative aging boost counts as zero.
ASSUME PolicyIsTyped ==
    /\ \A f \in {"max_wait", "async_max_wait", "queue_coalesce", "aging_interval",
                 "aging_boost", "max_pending", "max_pending_bytes"} : Policy[f] \in Nat
    /\ Limits \in Seq(Range(Limits))
    /\ \A l \in Range(Limits) : l.window_seconds \in Nat
    /\ Second \in Nat \ {0}

ASSUME RequestsAreTyped ==
    \A r \in Reqs : /\ DOMAIN Request[r] = {"provider", "auth_scope", "model", "input", "output",
                                            "bytes", "priority", "retry_after", "async_alias"}
                    /\ \A f \in {"bytes", "retry_after", "input", "output"} :
                           Request[r][f] \in Nat
                    /\ Request[r].priority \in Int

\* SchedulingPolicy::validate.
ASSUME PolicyIsValid ==
    /\ Policy.max_wait > 0 /\ Policy.async_max_wait > 0
    /\ Policy.aging_interval > 0
    /\ Policy.queue_coalesce <= Policy.max_wait
    /\ Policy.max_pending > 0 /\ Policy.max_pending_bytes > 0
    /\ \A l \in Range(Limits) :
           /\ HasRollingQuota(l) => l.window_seconds > 0
           /\ \E c \in OptionalCaps : l[c] # NULL
           /\ \A c \in OptionalCaps : l[c] # NULL => l[c] \in Nat \ {0}

\* SchedulingPolicy::max_wait.
MaxWait(q) == IF q.async_alias THEN Max({Policy.async_max_wait, Policy.max_wait})
              ELSE Policy.max_wait

-------------------------------------------------------------------------------
(* Which rule applies to whom.                                             *)

Rules == Range(Limits)

\* Slip in Since: a subtraction that does not saturate.
SinceUnsaturated(now, t) == now - t

\* Instant::saturating_duration_since.
Since(now, t) == IF now > t THEN now - t ELSE 0

Window(l) == l.window_seconds * Second

MaxWindow == Max({Window(l) : l \in Rules} \cup {0})

rule_matches(l, q) == /\ l.provider \in {NULL, q.provider}
                      /\ l.model \in {NULL, q.model}

\* event_matches (but for the window) and active_matches: does the request e
\* draw on the quota that rule l keeps for the request q?
SameQuota(l, q, e) == /\ e.provider = q.provider
                      /\ l.auth_scoped => e.auth_scope = q.auth_scope
                      /\ l.model \in {NULL, e.model}

Under(n, cap) == cap = NULL \/ n <= cap

\* An individually oversized request cannot ever fit in a window.
Impossible(q) ==
    \E l \in Rules :
        /\ rule_matches(l, q)
        /\ ~ /\ Under(q.input, l.max_input_tokens)
             /\ Under(q.output, l.max_output_tokens)
             /\ Under(q.input + q.output, l.max_total_tokens)

-------------------------------------------------------------------------------
(* Rolling windows.                                                        *)

RequestCap(l) ==
    LET caps == {l.max_requests,
                 IF l.max_rps = NULL THEN NULL ELSE l.max_rps * l.window_seconds}
                \ {NULL}
    IN IF caps = {} THEN NULL ELSE Min(caps)

InputOf(es) == MapThenSumSet(LAMBDA e : e.input, es)

OutputOf(es) == MapThenSumSet(LAMBDA e : e.output, es)

\* Slip in cap_fit: the request itself is not counted.
cap_fitWithoutItself(l, q, es) ==
    /\ Under(Cardinality(es), RequestCap(l))
    /\ Under(InputOf(es) + q.input, l.max_input_tokens)
    /\ Under(OutputOf(es) + q.output, l.max_output_tokens)
    /\ Under(InputOf(es) + OutputOf(es) + q.input + q.output, l.max_total_tokens)

\* Does q fit on top of the usage events es?
cap_fit(l, q, es) ==
    /\ Under(Cardinality(es) + 1, RequestCap(l))
    /\ Under(InputOf(es) + q.input, l.max_input_tokens)
    /\ Under(OutputOf(es) + q.output, l.max_output_tokens)
    /\ Under(InputOf(es) + OutputOf(es) + q.input + q.output, l.max_total_tokens)

\* The first instant at which q fits, the events in es expiring one by one.
\* A request that is not Impossible fits at the latest when all have expired.
rolling_fit(l, q, es, now) ==
    LET Expiry(e) == e.at + Window(l)
        FitsAt(t) == cap_fit(l, q, {e \in es : Expiry(e) > t})
    IN IF cap_fit(l, q, es) THEN now
       ELSE Min({t \in {Expiry(e) : e \in es} : FitsAt(t)})

-------------------------------------------------------------------------------
(* Pacing: a mark per rule, scope and metric, before which no further      *)
(* request of that scope may be dispatched.                                *)

MetricCap == [requests |-> "max_rps", input |-> "max_input_tokens",
              output |-> "max_output_tokens", total |-> "max_total_tokens"]

Demand(metric, input, output) ==
    CASE metric = "requests" -> 1
      [] metric = "input"    -> input
      [] metric = "output"   -> output
      [] metric = "total"    -> input + output

\* PacingKey: the marks a request with this demand is held back by, and moves.
PacingKeys(q, input, output) ==
    {k \in [rule : DOMAIN Limits, provider : {q.provider},
            auth : {q.auth_scope, NULL}, metric : DOMAIN MetricCap] :
        LET l == Limits[k.rule]
        IN /\ rule_matches(l, q)
           /\ k.auth = IF l.auth_scoped THEN q.auth_scope ELSE NULL
           /\ l[MetricCap[k.metric]] # NULL
           /\ Demand(k.metric, input, output) > 0}

\* duration_for_rate, and tokens * window / cap.
PaceOf(k, input, output) ==
    LET l == Limits[k.rule]
    IN IF k.metric = "requests" THEN Second \div l.max_rps
       ELSE (Demand(k.metric, input, output) * Window(l))
                \div l[MetricCap[k.metric]]

\* A missing mark is one in the past.
MarkOf(marks, k) == IF k \in DOMAIN marks THEN marks[k] ELSE 0

update_pacing(marks, q, input, output, now) ==
    LET keys == PacingKeys(q, input, output)
    IN [k \in DOMAIN marks \cup keys |->
           IF k \in keys
           THEN Max({MarkOf(marks, k), now}) + PaceOf(k, input, output)
           ELSE marks[k]]

\* Slip in rebuild_pacing: the marks are cleared and not rebuilt.
rebuild_pacingClears(events) == << >>

\* From the events that are left, oldest dispatch first.
rebuild_pacing(events) ==
    LET Upto[n \in 0..Len(events)] ==
            IF n = 0 THEN << >>
            ELSE update_pacing(Upto[n-1], Request[events[n].req],
                               events[n].input, events[n].output, events[n].at)
    IN Upto[Len(events)]

-------------------------------------------------------------------------------

\* Expired events leave from the front only; marks long past are forgotten.
pruned_events(events, now) ==
    LET kept == {i \in DOMAIN events : Since(now, events[i].at) < MaxWindow}
    IN IF kept = {} THEN << >> ELSE SubSeq(events, Min(kept), Len(events))

pruned_pacing(marks, now) ==
    [k \in {k \in DOMAIN marks : marks[k] > now \/ Since(now, marks[k]) < MaxWindow}
        |-> marks[k]]

\* Slip in AtConcurrencyLimit: off by one.
AtConcurrencyLimitOffByOne(q, active) ==
    \E l \in Rules :
        /\ rule_matches(l, q)
        /\ l.max_concurrency # NULL
        /\ Cardinality({a \in active : SameQuota(l, q, Request[a])})
               > l.max_concurrency

\* Some matching max_concurrency is used up.
AtConcurrencyLimit(q, active) ==
    \E l \in Rules :
        /\ rule_matches(l, q)
        /\ l.max_concurrency # NULL
        /\ Cardinality({a \in active : SameQuota(l, q, Request[a])})
               >= l.max_concurrency

\* Fit.at of a request that is not Impossible: the first instant at which all
\* matching quotas and marks permit it; NULL when only the concurrency limit
\* holds it back, for nobody knows when that will end.
readiness(q, events, active, marks, now) ==
    LET rules == {l \in Rules : rule_matches(l, q)}
        Usage(l) == {e \in Range(events) : /\ Since(now, e.at) < Window(l)
                                           /\ SameQuota(l, q, Request[e.req])}
        ready == Max({now}
                       \cup {rolling_fit(l, q, Usage(l), now) : l \in rules}
                       \cup {MarkOf(marks, k) : k \in PacingKeys(q, q.input, q.output)})
    IN IF ready = now /\ AtConcurrencyLimit(q, active) THEN NULL ELSE ready

\* priority_score: the request's own priority plus aging in the queue, up to a cap.
MaxAging == 1000000

priority_score(q, enqueued_at, now) ==
    LET aging == Policy.aging_boost * (Since(now, enqueued_at) \div Policy.aging_interval)
    IN q.priority + (IF aging > MaxAging THEN MaxAging ELSE aging)

===============================================================================
