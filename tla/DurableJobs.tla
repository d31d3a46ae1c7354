----------------------------- MODULE DurableJobs -----------------------------
(***************************************************************************)
(* What the durable Batch path promises to its clients, without workers,   *)
(* channels, crashes or SQL:                                               *)
(*                                                                         *)
(*   - a job is accepted once, and decides once to go to the provider;     *)
(*   - only in between deciding and having an outcome is a create request  *)
(*     sent, and only one;                                                 *)
(*   - the outcome is stored once, comes either from Kaiion itself or from *)
(*     a request that was sent, and is the only one any client is told.    *)
(***************************************************************************)
CONSTANTS Jobs, Requests, Outcomes, Nothing, Origin(_)
    \* Origin(o): the request an outcome comes from, or Nothing

VARIABLES
    phase,    \* [Jobs -> {"absent", "open", "committed", "done"}]
    sent,     \* [Jobs -> SUBSET Requests]: the create requests sent
    outcome,  \* [Jobs -> Outcomes \cup {Nothing}]
    told      \* [Jobs -> SUBSET Outcomes]

jobVars == <<phase, sent, outcome, told>>

Init ==
    /\ phase = [j \in Jobs |-> "absent"]
    /\ sent = [j \in Jobs |-> {}]
    /\ outcome = [j \in Jobs |-> Nothing]
    /\ told = [j \in Jobs |-> {}]

Accept(j) ==
    /\ phase[j] = "absent"
    /\ phase' = [phase EXCEPT ![j] = "open"]
    /\ UNCHANGED <<sent, outcome, told>>

Commit(j) ==
    /\ phase[j] = "open"
    /\ phase' = [phase EXCEPT ![j] = "committed"]
    /\ UNCHANGED <<sent, outcome, told>>

Send(j) ==
    /\ phase[j] = "committed"
    /\ sent[j] = {}
    /\ \E r \in Requests : sent' = [sent EXCEPT ![j] = {r}]
    /\ UNCHANGED <<phase, outcome, told>>

Finish(j) ==
    /\ phase[j] \in {"open", "committed"}
    /\ \E o \in Outcomes :
           /\ Origin(o) \in sent[j] \cup {Nothing}
           /\ outcome' = [outcome EXCEPT ![j] = o]
    /\ phase' = [phase EXCEPT ![j] = "done"]
    /\ UNCHANGED <<sent, told>>

Tell(j) ==
    /\ phase[j] = "done"
    /\ told' = [told EXCEPT ![j] = @ \cup {outcome[j]}]
    /\ UNCHANGED <<phase, sent, outcome>>

Next == \E j \in Jobs : Accept(j) \/ Commit(j) \/ Send(j) \/ Finish(j) \/ Tell(j)

Spec == Init /\ [][Next]_jobVars

===============================================================================
