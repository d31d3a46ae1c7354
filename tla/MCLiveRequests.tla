---------------------------- MODULE MCLiveRequests ----------------------------
(* Requests and limits for the run of LiveRequests.                        *)
EXTENDS LiveRequests, TLC

CONSTANTS c1, c2

Plain == [auth |-> "a", mode |-> "auto", session |-> NULL, thread |-> NULL, turn |-> NULL,
          key |-> NULL, body |-> "x", volatile |-> 1, storable |-> TRUE, policy |-> "direct"]

Session == [Plain EXCEPT !.session = "s"]

Keyed == [Session EXCEPT !.key = "k", !.thread = "t", !.turn = "1"]

\* Another turn, another payload, the same key.
Reused == [Keyed EXCEPT !.turn = "2", !.body = "y"]

\* A keyed step and its replay after a reconnect, or its key on another step; a
\* session without a key beside a request that must go live, one that must not,
\* or one that was meant for Batch but cannot go there.
MCWorkloads ==
    {c1 :> Keyed @@ c2 :> [Keyed EXCEPT !.volatile = 2],
     c1 :> Keyed @@ c2 :> Reused,
     c1 :> Session @@ c2 :> [Plain EXCEPT !.mode = "direct"],
     c1 :> Session @@ c2 :> [Session EXCEPT !.mode = "batch"],
     c1 :> Reused @@ c2 :> [Plain EXCEPT !.policy = "batch"]}

MCLegacy == {JobOf(Keyed)}

\* No limit: what any limit allows, as nothing makes the scheduler grant.
AnySlots == SUBSET Calls

===============================================================================
