------------------------------ MODULE MCScheduler ------------------------------
(* Policies and requests for the runs of Scheduler.                        *)
EXTENDS Scheduler, TLC

CONSTANTS r1, r2, r3

NoLimit == [provider |-> NULL, model |-> NULL, auth_scoped |-> FALSE,
            window_seconds |-> 0, max_rps |-> NULL, max_requests |-> NULL,
            max_input_tokens |-> NULL, max_output_tokens |-> NULL,
            max_total_tokens |-> NULL, max_concurrency |-> NULL]

OneSlot == [NoLimit EXCEPT !.max_concurrency = 1]

Plain == [provider |-> "p", auth_scope |-> "a", model |-> "m", input |-> 1, output |-> 1,
          bytes |-> 1, priority |-> 0, retry_after |-> 0, async_alias |-> FALSE]

BasePolicy == [max_wait |-> 2, async_max_wait |-> 3, aging_interval |-> 1,
               aging_boost |-> 1, queue_coalesce |-> 0,
               max_pending |-> 2, max_pending_bytes |-> 3]

NoUsage == {NULL}

TwinSymmetry == Permutations({r1, r2})

\* SlotLeak: one slot.
SlotLimits == <<OneSlot>>

TwoTwins == r1 :> Plain @@ r2 :> Plain

\* SchedulerSlots: a slot with a token window, usage below the estimate, and a
\* request that takes room in the queue but can never fit.
TokenLimits == <<[OneSlot EXCEPT !.window_seconds = 2, !.max_total_tokens = 3]>>

SlotPolicy == [BasePolicy EXCEPT !.queue_coalesce = 1]

SlotRequests == TwoTwins @@ r3 :> [Plain EXCEPT !.input = 3, !.bytes = 2]

AnyUsage == {NULL, [input |-> 0, output |-> 0]}

\* SchedulerRates: two requests of a model in a window of four ticks, whoever
\* sends them, and one every two ticks per credential.  A preferred request of
\* another credential comes late.
RateLimits == <<[NoLimit EXCEPT !.model = "m", !.window_seconds = 2, !.max_requests = 2],
                [NoLimit EXCEPT !.auth_scoped = TRUE, !.window_seconds = 2, !.max_rps = 1]>>

RatePolicy == [BasePolicy EXCEPT !.max_wait = 4]

RateRequests == TwoTwins @@ r3 :> [Plain EXCEPT !.auth_scope = "b", !.priority = 1,
                                               !.retry_after = 3]

\* SchedulerWaits: two callers for one slot, one of which first sleeps for
\* Retry-After and may wait longer.
WaitRequests == r1 :> Plain @@ r2 :> [Plain EXCEPT !.retry_after = 1, !.async_alias = TRUE]

\* IdleSlot: one slot, and one request a tick.
ThreeAlike == TwoTwins @@ r3 :> Plain

IdleLimits == <<[OneSlot EXCEPT !.window_seconds = 1, !.max_rps = 1]>>

IdlePolicy == [BasePolicy EXCEPT !.max_wait = 3]

===============================================================================
