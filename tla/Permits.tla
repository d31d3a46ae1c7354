------------------------------- MODULE Permits -------------------------------
(***************************************************************************)
(* What the live scheduler promises to those who call acquire: a call gets *)
(* at most one slot, once, while it waits; the slots that are taken at any *)
(* time are together within the limits; and a slot comes back when the     *)
(* call is over, at once or a little later.  Who is served when is not     *)
(* said here: Scheduler implements this specification, and LiveRequests    *)
(* relies on nothing else.                                                 *)
(***************************************************************************)
CONSTANTS
    Calls,   \* calls of acquire
    Legal    \* the sets of calls that may have a slot at the same time

VARIABLES
    stage,   \* how far each call is
    slots    \* the calls that have a slot

vars == <<stage, slots>>

Stages == {"idle", "waiting", "holding", "over"}

Init == stage = [c \in Calls |-> "idle"] /\ slots = {}

Enter(c, from, to) == stage[c] = from /\ stage' = [stage EXCEPT ![c] = to]

Ask(c) == Enter(c, "idle", "waiting") /\ UNCHANGED slots

\* A slot is taken for a call that waits; the permit is on its way.
Grant(c) ==
    /\ stage[c] = "waiting" /\ c \notin slots
    /\ slots \cup {c} \in Legal
    /\ slots' = slots \cup {c}
    /\ UNCHANGED stage

Receive(c) == c \in slots /\ Enter(c, "waiting", "holding") /\ UNCHANGED slots

\* A call that waits ends without a permit.  One that is on its way is left
\* behind with its slot.
GiveUp(c) == Enter(c, "waiting", "over") /\ UNCHANGED slots

\* The end of a live request: complete and abort free the slot at once.
Finish(c) == Enter(c, "holding", "over") /\ slots' = slots \ {c}

\* The permit is dropped: the slot comes back later, if at all.
Drop(c) == Enter(c, "holding", "over") /\ UNCHANGED slots

Return(c) == stage[c] = "over" /\ c \in slots /\ slots' = slots \ {c} /\ UNCHANGED stage

Next == \E c \in Calls : \/ Ask(c) \/ Grant(c) \/ Receive(c) \/ GiveUp(c)
                         \/ Finish(c) \/ Drop(c) \/ Return(c)

Spec == Init /\ [][Next]_vars

===============================================================================
