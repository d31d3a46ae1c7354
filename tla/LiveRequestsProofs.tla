-------------------------- MODULE LiveRequestsProofs --------------------------
(***************************************************************************)
(* Theorems about LiveRequests for any number of clients, any requests,    *)
(* limits, waits and number of retries.                                    *)
(***************************************************************************)
EXTENDS LiveRequests, FiniteSetTheorems, TLAPS

-------------------------------------------------------------------------------
(* The inductive invariant, client by client.                              *)

\* What the argument needs to know of the shape of the state.
Shape ==
    /\ slots \subseteq Calls
    /\ pc \in [Clients -> Pcs] /\ attempt \in [Clients -> Attempts]
    /\ ending \in [Clients -> Endings \cup {NULL}]
    /\ fate \in [Calls -> Fates] /\ ledger \in [Calls -> LedgerValues]
    /\ answer \in [Clients -> Answers]

Mine(c) == {k \in slots : k[1] = c}

Ran(c) == {i \in Attempts : MayHaveRun(<<c, i>>)}

BeforePcs == {"new", "check", "find", "preview", "top"}

HoldingPcs == {"sending", "ending", "body"}

\* A client has no slot before its attempt, and during it none but the one of
\* the attempt.
SlotsOfClient(c) ==
    /\ pc[c] \in BeforePcs => Mine(c) = {}
    /\ pc[c] \in HoldingPcs \cup {"waiting"} => Mine(c) \subseteq {Call(c)}
    /\ \A k, l \in Mine(c) : k = l

\* The books hold the estimate while the call is out; what is refunded did not
\* run.
BooksOfClient(c) ==
    /\ pc[c] = "waiting" /\ Call(c) \in slots => ledger[Call(c)] = "estimate"
    /\ pc[c] \in HoldingPcs => ledger[Call(c)] = "estimate"
    /\ pc[c] = "ending" =>
           /\ ending[c] \in Endings
           /\ ending[c].how \in {"abort", "zero"} => ~MayHaveRun(Call(c))
           /\ ending[c].next = "top" => RetriesLeft(c)
    /\ \A i \in Attempts :
           MayHaveRun(<<c, i>>) => ledger[<<c, i>>] \in {"estimate", "actual"}

\* Without a key, what comes after an attempt that may have run is an answer.
RunsOfClient(c) ==
    /\ pc[c] \in BeforePcs \cup {"waiting", "enqueue"} => Ran(c) = {}
    /\ pc[c] \in HoldingPcs => Ran(c) \subseteq {attempt[c]}
    /\ pc[c] = "ending" /\ ending[c].next # "done" => Ran(c) = {}
    /\ \A i, j \in Ran(c) : i = j
    /\ answer[c] = "batch" => Ran(c) = {}

ClientInv(c) ==
    /\ SlotsOfClient(c) /\ BooksOfClient(c)
    /\ req[c].key = NULL => RunsOfClient(c)
    /\ answer[c] # NULL => pc[c] = "done"

IInv == Shape /\ \A c \in Clients : ClientInv(c)

-------------------------------------------------------------------------------

\* Nobody has a slot, and nothing has run, before the first request.
LEMMA InvInit == Init => IInv
  <1> SUFFICES ASSUME Init PROVE IInv
    OBVIOUS
  <1>1. 0 \in Attempts
    BY WaitsAreNumbers DEF Attempts
  <1>2. Shape
    BY <1>1 DEF Init, Shape, L!Init, Pcs, Fates, LedgerValues, Answers
  <1>3. ASSUME NEW c \in Clients PROVE ClientInv(c)
    <2>1. Mine(c) = {} /\ Ran(c) = {} /\ pc[c] = "new" /\ answer[c] = NULL
      BY <1>3 DEF Init, L!Init, Mine, Ran, MayHaveRun, RanFates, Calls
    <2>2. \A i \in Attempts : ~MayHaveRun(<<c, i>>)
      BY <2>1 DEF Ran
    <2> QED BY <2>1, <2>2, NullIsNoAnswer
        DEF ClientInv, SlotsOfClient, BooksOfClient, RunsOfClient, BeforePcs, HoldingPcs
  <1> QED BY <1>2, <1>3 DEF IInv

\* What a step leaves alone of a client keeps the client's part.
LEMMA OtherClients ==
    ASSUME NEW c \in Clients, ClientInv(c), Shape,
           pc'[c] = pc[c], attempt'[c] = attempt[c], ending'[c] = ending[c],
           answer'[c] = answer[c], req'[c] = req[c], Mine(c)' \subseteq Mine(c),
           \A i \in Attempts : fate'[<<c, i>>] = fate[<<c, i>>]
                               /\ ledger'[<<c, i>>] = ledger[<<c, i>>]
    PROVE  ClientInv(c)'
  <1>1. Call(c)' = Call(c) /\ Ran(c)' = Ran(c) /\ attempt[c] \in Attempts
    BY DEF Call, Ran, MayHaveRun, Shape
  <1>2. \A i \in Attempts : MayHaveRun(<<c, i>>)' <=> MayHaveRun(<<c, i>>)
    BY DEF MayHaveRun
  <1>3. (MayHaveRun(Call(c))' <=> MayHaveRun(Call(c))) /\ ledger'[Call(c)] = ledger[Call(c)]
    BY <1>1, <1>2 DEF Call, MayHaveRun
  <1>4. Call(c) \in slots' => Call(c) \in slots
    BY <1>1 DEF Mine, Call
  <1>5. SlotsOfClient(c)'
    BY <1>1 DEF ClientInv, SlotsOfClient
  <1>6. BooksOfClient(c)'
    BY <1>1, <1>2, <1>3, <1>4 DEF ClientInv, BooksOfClient, RetriesLeft
  <1>7. req'[c].key = NULL => RunsOfClient(c)'
    BY <1>1 DEF ClientInv, RunsOfClient
  <1> QED BY <1>5, <1>6, <1>7 DEF ClientInv

\* A step of one client, seen from the others: it touches its own calls only.
Private(c) ==
    /\ req' = req
    /\ \A d \in Clients \ {c} :
           /\ pc'[d] = pc[d] /\ attempt'[d] = attempt[d]
           /\ ending'[d] = ending[d] /\ answer'[d] = answer[d]
    /\ \A k \in Calls : k[1] # c => fate'[k] = fate[k] /\ ledger'[k] = ledger[k]
    /\ \A k \in slots' \ slots : k[1] = c

LEMMA OneClientSteps ==
    ASSUME IInv, Shape', NEW c \in Clients, Private(c), ClientInv(c)'
    PROVE  IInv'
  <1>1. ASSUME NEW d \in Clients, d # c PROVE ClientInv(d)'
    <2>1. Mine(d)' \subseteq Mine(d)
      BY <1>1 DEF Private, Mine
    <2>2. \A i \in Attempts : /\ fate'[<<d, i>>] = fate[<<d, i>>]
                              /\ ledger'[<<d, i>>] = ledger[<<d, i>>]
      BY <1>1 DEF Private, Calls
    <2> QED BY <1>1, <2>1, <2>2, OtherClients DEF IInv, Private
  <1> QED BY <1>1 DEF IInv

-------------------------------------------------------------------------------
(* Steps outside the scheduler's hands.                                    *)

\* The ways a handler moves on: Reply, GoBatch and Goto, with the loop kept,
\* forgotten or not, touch the part of one client.
LEMMA MovesArePrivate ==
    ASSUME Shape, NEW c \in Clients,
           \/ \E there \in Pcs : Goto(c, there) /\ UNCHANGED <<answer, attempt, ending>>
           \/ \E there \in Pcs : Goto(c, there) /\ Forget(c) /\ UNCHANGED answer
           \/ \E what \in Answers \ {NULL} : Reply(c, what)
    PROVE  /\ pc' \in [Clients -> Pcs] /\ attempt' \in [Clients -> Attempts]
           /\ ending' \in [Clients -> Endings \cup {NULL}]
           /\ answer' \in [Clients -> Answers]
           /\ \A d \in Clients \ {c} : /\ pc'[d] = pc[d] /\ attempt'[d] = attempt[d]
                                       /\ ending'[d] = ending[d] /\ answer'[d] = answer[d]
           /\ answer'[c] # answer[c] => pc'[c] = "done"
  <1>1. 0 \in Attempts
    BY WaitsAreNumbers DEF Attempts
  <1>2. "done" \in Pcs
    BY DEF Pcs
  <1> QED BY <1>1, <1>2 DEF Shape, Goto, Forget, Reply

\* Nothing happens to the calls of the client.
LEMMA QuietSteps ==
    ASSUME IInv, NEW c \in Clients,
           Arrive(c) \/ CheckKey(c) \/ Find(c) \/ Enqueue(c) \/ Preview(c)
    PROVE  IInv'
  <1>1. UNCHANGED <<slots, fate, ledger, req>>
    BY DEF Arrive, CheckKey, Find, Enqueue, Preview, scheduler, calls
  <1>2. pc[c] \in BeforePcs \cup {"enqueue"}
    BY DEF Arrive, CheckKey, Find, Enqueue, Preview, BeforePcs
  <1>3. /\ \/ \E there \in Pcs : Goto(c, there) /\ UNCHANGED <<answer, attempt, ending>>
           \/ \E what \in Answers \ {NULL} : Reply(c, what)
        /\ pc'[c] \in BeforePcs \cup {"enqueue", "done"}
        /\ pc'[c] \in BeforePcs => pc[c] \in BeforePcs
    <2>0. DOMAIN pc = Clients
      BY DEF IInv, Shape
    <2>1. CASE Arrive(c)
      BY <2>0, <2>1 DEF Arrive, Goto, Pcs, BeforePcs, loop
    <2>2. CASE CheckKey(c)
      BY <2>0, <2>2, NullIsNoAnswer DEF CheckKey, Goto, Reply, Pcs, BeforePcs, loop, Answers
    <2>3. CASE Find(c)
      BY <2>0, <2>3 DEF Find, Goto, Pcs, BeforePcs, loop
    <2>4. CASE Enqueue(c)
      BY <2>0, <2>4, NullIsNoAnswer DEF Enqueue, Goto, Reply, Pcs, BeforePcs, Answers
    <2>5. CASE Preview(c)
      BY <2>0, <2>5 DEF Preview, Goto, Pcs, BeforePcs
    <2> QED BY <2>1, <2>2, <2>3, <2>4, <2>5
  <1>4. Shape' /\ Private(c)
    BY <1>1, <1>3, MovesArePrivate DEF IInv, Shape, Private
  <1>5. ClientInv(c)'
    <2>1. Mine(c)' = Mine(c) /\ Ran(c)' = Ran(c)
      BY <1>1 DEF Mine, Ran, MayHaveRun
    <2>2. ClientInv(c) /\ Shape /\ answer[c] = NULL
      BY <1>2 DEF IInv, ClientInv, BeforePcs
    <2>3. SlotsOfClient(c)'
      BY <1>2, <1>3, <2>1, <2>2 DEF ClientInv, SlotsOfClient, BeforePcs, HoldingPcs
    <2>4. BooksOfClient(c)'
      BY <1>1, <1>3, <2>2 DEF ClientInv, BooksOfClient, BeforePcs, HoldingPcs, MayHaveRun
    <2>5. req'[c].key = NULL => RunsOfClient(c)'
      <3>1. req[c].key = NULL => Ran(c) = {}
        BY <1>2, <2>2 DEF ClientInv, RunsOfClient
      <3> QED BY <1>1, <1>3, <2>1, <3>1 DEF RunsOfClient, BeforePcs, HoldingPcs
    <2>6. answer'[c] # NULL => pc'[c] = "done"
      BY <1>3, <2>2, MovesArePrivate
    <2> QED BY <2>3, <2>4, <2>5, <2>6 DEF ClientInv
  <1> QED BY <1>4, <1>5, OneClientSteps DEF IInv

-------------------------------------------------------------------------------
(* Steps of the retry loop.                                                *)

\* A handler that is through with its calls, with its slot or without.
LEMMA OutOfTheLoop ==
    ASSUME IInv, Shape', NEW c \in Clients, Private(c), pc[c] # "done",
           UNCHANGED fate, slots' \subseteq slots,
           pc'[c] \in {"enqueue", "done", "gone"},
           answer'[c] # NULL => pc'[c] = "done" /\ answer'[c] # "batch",
           \A k \in Calls : MayHaveRun(k) => ledger'[k] \in {"estimate", "actual"},
           req[c].key = NULL /\ pc'[c] = "enqueue" => Ran(c) = {}
    PROVE  IInv'
  <1>1. Mine(c)' \subseteq Mine(c) /\ Ran(c)' = Ran(c)
    BY DEF Mine, Ran, MayHaveRun
  <1>2. ClientInv(c) /\ answer[c] = NULL
    BY DEF IInv, ClientInv
  <1>3. SlotsOfClient(c)'
    BY <1>1, <1>2 DEF ClientInv, SlotsOfClient, BeforePcs, HoldingPcs
  <1>4. BooksOfClient(c)'
    <2>1. \A i \in Attempts : <<c, i>> \in Calls
      BY DEF Calls
    <2> QED BY <2>1 DEF BooksOfClient, HoldingPcs, MayHaveRun
  <1>5. req'[c].key = NULL => RunsOfClient(c)'
    BY <1>1, <1>2, NullIsNoAnswer
    DEF ClientInv, RunsOfClient, BeforePcs, HoldingPcs, Private
  <1> QED BY <1>3, <1>4, <1>5, OneClientSteps DEF ClientInv

\* BatchOrUnavailable, whatever has become of the slot.
LEMMA FallingBack ==
    ASSUME IInv, NEW c \in Clients, pc[c] \in {"top", "waiting"}, BatchOrUnavailable(c),
           UNCHANGED <<req, fate, ledger>>, slots' = slots
    PROVE  IInv'
  <1>1. /\ \/ \E there \in Pcs : Goto(c, there) /\ Forget(c) /\ UNCHANGED answer
           \/ \E what \in Answers \ {NULL} : Reply(c, what)
        /\ pc'[c] \in {"enqueue", "done"} /\ answer'[c] \in {answer[c], "unavailable"}
    BY NullIsNoAnswer
    DEF BatchOrUnavailable, GoBatch, Goto, Reply, Pcs, Answers, IInv, Shape
  <1>2. Shape' /\ Private(c)
    BY <1>1, MovesArePrivate DEF IInv, Shape, Private
  <1>3. ClientInv(c) /\ answer[c] = NULL /\ (req[c].key = NULL => Ran(c) = {})
    BY DEF IInv, ClientInv, RunsOfClient, BeforePcs
  <1>4. answer'[c] # NULL => pc'[c] = "done" /\ answer'[c] # "batch"
    BY <1>1, <1>3, MovesArePrivate DEF IInv
  <1>5. \A k \in Calls : MayHaveRun(k) => ledger'[k] \in {"estimate", "actual"}
    BY DEF IInv, ClientInv, BooksOfClient, Calls
  <1> QED BY <1>1, <1>2, <1>3, <1>4, <1>5, OutOfTheLoop

LEMMA TopSteps ==
    ASSUME IInv, NEW c \in Clients, Top(c)
    PROVE  IInv'
  <1>0. pc[c] = "top" /\ UNCHANGED <<req, fate, ledger>> /\ slots' = slots
    BY DEF Top, scheduler, calls, L!Ask
  <1>1. CASE BatchOrUnavailable(c)
    BY <1>0, <1>1, FallingBack
  <1>2. CASE ~BatchOrUnavailable(c)
    <2>1. Goto(c, "waiting") /\ UNCHANGED <<answer, attempt, ending>>
      BY <1>2 DEF Top
    <2>2. pc'[c] = "waiting" /\ Shape' /\ Private(c)
      BY <1>0, <2>1, MovesArePrivate DEF IInv, Shape, Private, Goto, Pcs
    <2>3. Mine(c) = {} /\ Mine(c)' = {} /\ Call(c)' = Call(c) /\ Ran(c)' = Ran(c)
      BY <1>0, <2>1 DEF IInv, ClientInv, SlotsOfClient, BeforePcs, Mine, Call, Ran, MayHaveRun
    <2>4. Call(c) \notin slots
      BY <2>3 DEF Mine, Call
    <2>5. SlotsOfClient(c)'
      BY <2>2, <2>3 DEF SlotsOfClient, BeforePcs
    <2>6. BooksOfClient(c)'
      BY <1>0, <2>2, <2>3, <2>4 DEF IInv, ClientInv, BooksOfClient, HoldingPcs, MayHaveRun
    <2>7. req'[c].key = NULL => RunsOfClient(c)'
      BY <1>0, <2>1, <2>2, <2>3
      DEF IInv, ClientInv, RunsOfClient, BeforePcs, HoldingPcs
    <2>8. answer'[c] = NULL
      BY <1>0, <2>1 DEF IInv, ClientInv
    <2> QED BY <2>2, <2>5, <2>6, <2>7, <2>8, OneClientSteps DEF ClientInv
  <1> QED BY <1>1, <1>2

\* acquire gives up, for one reason or another.
LEMMA NoPermitSteps ==
    ASSUME IInv, NEW c \in Clients, Decline(c) \/ TimeOut(c)
    PROVE  IInv'
  BY FallingBack DEF Decline, TimeOut, L!GiveUp, calls

\* A slot is taken for the attempt that waits, with the estimate on the books.
LEMMA GrantSteps ==
    ASSUME IInv, NEW c \in Clients, Grant(c)
    PROVE  IInv'
  <1>1. /\ pc[c] = "waiting" /\ slots' = slots \cup {Call(c)} /\ Call(c) \in Calls
        /\ ledger' = [ledger EXCEPT ![Call(c)] = "estimate"]
        /\ UNCHANGED <<req, pc, attempt, ending, fate, answer>>
    BY DEF Grant, L!Grant, loop, Call, Calls, IInv, Shape
  <1>2. Shape' /\ Private(c)
    BY <1>1 DEF IInv, Shape, Private, LedgerValues, Call
  <1>3. Call(c)' = Call(c) /\ Ran(c)' = Ran(c) /\ Mine(c)' = {Call(c)}
    <2>1. Mine(c) \subseteq {Call(c)} /\ Call(c)[1] = c
      BY <1>1 DEF IInv, ClientInv, SlotsOfClient, Call
    <2> QED BY <1>1, <2>1 DEF Call, Ran, MayHaveRun, Mine
  <1>4. SlotsOfClient(c)'
    BY <1>1, <1>3 DEF SlotsOfClient, BeforePcs
  <1>5. BooksOfClient(c)'
    BY <1>1, <1>3 DEF IInv, Shape, ClientInv, BooksOfClient, HoldingPcs, MayHaveRun, Calls
  <1>6. (req'[c].key = NULL => RunsOfClient(c)') /\ answer'[c] = NULL
    BY <1>1, <1>3 DEF IInv, ClientInv, RunsOfClient, BeforePcs, HoldingPcs
  <1> QED BY <1>1, <1>2, <1>4, <1>5, <1>6, OneClientSteps DEF ClientInv

\* The request goes out: from here on it may have run.
LEMMA SendSteps ==
    ASSUME IInv, NEW c \in Clients, Send(c)
    PROVE  IInv'
  <1>1. /\ pc[c] = "waiting" /\ Call(c) \in slots /\ Call(c) \in Calls
        /\ fate' = [fate EXCEPT ![Call(c)] = "sent"]
        /\ pc' = [pc EXCEPT ![c] = "sending"]
        /\ UNCHANGED <<slots, req, attempt, ending, ledger, answer>>
    BY DEF Send, L!Receive, loop, Call, Calls, IInv, Shape, Goto
  <1>2. Shape' /\ Private(c) /\ pc'[c] = "sending"
    BY <1>1 DEF IInv, Shape, Private, Fates, RanFates, Pcs, Call
  <1>3. Call(c)' = Call(c) /\ Mine(c)' = Mine(c) /\ ledger[Call(c)] = "estimate"
    BY <1>1 DEF Call, Mine, IInv, ClientInv, BooksOfClient
  <1>4. Ran(c)' \subseteq Ran(c) \cup {attempt[c]}
    BY <1>1 DEF Ran, MayHaveRun, Call, IInv, Shape, Calls
  <1>5. SlotsOfClient(c)'
    BY <1>1, <1>2, <1>3 DEF IInv, ClientInv, SlotsOfClient, BeforePcs, HoldingPcs
  <1>6. BooksOfClient(c)'
    <2>1. \A i \in Attempts : MayHaveRun(<<c, i>>)' =>
              MayHaveRun(<<c, i>>) \/ <<c, i>> = Call(c)
      BY <1>1 DEF MayHaveRun, IInv, Shape, Calls
    <2> QED BY <1>1, <1>2, <1>3, <2>1 DEF IInv, ClientInv, BooksOfClient, HoldingPcs
  <1>7. (req'[c].key = NULL => RunsOfClient(c)') /\ answer'[c] = NULL
    <2>1. answer[c] = NULL /\ (req[c].key = NULL => Ran(c) = {})
      BY <1>1 DEF IInv, ClientInv, RunsOfClient
    <2> QED BY <1>1, <1>2, <1>4, <2>1, NullIsNoAnswer DEF RunsOfClient, BeforePcs, HoldingPcs
  <1> QED BY <1>1, <1>2, <1>5, <1>6, <1>7, OneClientSteps DEF ClientInv

\* What the answer f of the provider may lead to: a body, or an end of the
\* attempt that neither refunds nor, without a key, repeats what may have run.
Leads(c, f, how, next) ==
    /\ how \in {"abort", "zero"} => f \in {"refused", "limited"}
    /\ next = "top" => RetriesLeft(c)
    /\ next # "done" /\ req[c].key = NULL => f \in {"refused", "limited"}

Concludes(c, f) ==
    /\ fate' = [fate EXCEPT ![Call(c)] = f]
    /\ \/ StartBody(c)
       \/ \E how \in {"abort", "estimate", "zero", "actual"},
             next \in {"top", "enqueue", "done"} :
             End(c, how, next) /\ Leads(c, f, how, next)

\* The provider's answer decides how the permit goes back and what comes next:
\* what may have run is not refunded, and without a key not tried again.
LEMMA RespondSteps ==
    ASSUME IInv, NEW c \in Clients, Respond(c)
    PROVE  IInv'
  <1>0. /\ pc[c] = "sending" /\ Call(c) \in Calls /\ attempt[c] \in Attempts
        /\ UNCHANGED <<slots, req, attempt, ledger, answer>>
    BY DEF Respond, scheduler, Call, Calls, IInv, Shape
  <1>a. \E f \in Fates \ {"none", "sent"} : Concludes(c, f)
    <2>1. CASE Lost(c)
      <3>1. Leads(c, "lost", "estimate", "done")
        BY DEF Leads
      <3>2. Concludes(c, "lost")
        BY <2>1, <3>1 DEF Lost, Concludes
      <3> QED BY <3>2 DEF Fates, RanFates
    <2>2. CASE Refused(c)
      <3>1. Leads(c, "refused", "abort", IF RetriesLeft(c) THEN "top" ELSE "done")
        BY DEF Leads
      <3>2. Concludes(c, "refused")
        BY <2>2, <3>1 DEF Refused, Concludes
      <3> QED BY <3>2 DEF Fates, RanFates
    <2>3. CASE Passed(c)
      <3>1. \E f \in {"ok", "limited", "server_error"} : Concludes(c, f)
        BY <2>3 DEF Passed, Concludes
      <3> QED BY <3>1 DEF Fates, RanFates
    <2>4. CASE Retried(c, "limited")
      <3>1. RetriesLeft(c) => Leads(c, "limited", "zero", "top")
        BY DEF Leads
      <3>2. Leads(c, "limited", "zero", "enqueue")
        BY DEF Leads
      <3>3. Concludes(c, "limited")
        BY <2>4, <3>1, <3>2 DEF Retried, Concludes
      <3> QED BY <3>3 DEF Fates, RanFates
    <2>5. CASE Retried(c, "server_error")
      <3>1. RetriesLeft(c) /\ req[c].key # NULL => Leads(c, "server_error", "estimate", "top")
        BY DEF Leads
      <3>2. Concludes(c, "server_error")
        BY <2>5, <3>1 DEF Retried, ServerErrorRetried, Concludes
      <3> QED BY <3>2 DEF Fates, RanFates
    <2> QED BY <2>1, <2>2, <2>3, <2>4, <2>5 DEF Respond
  <1>1. PICK f \in Fates \ {"none", "sent"}, e \in Endings :
            /\ fate' = [fate EXCEPT ![Call(c)] = f]
            /\ \/ pc' = [pc EXCEPT ![c] = "body"] /\ UNCHANGED ending
               \/ /\ pc' = [pc EXCEPT ![c] = "ending"]
                  /\ ending' = [ending EXCEPT ![c] = e]
                  /\ Leads(c, f, e.how, e.next)
    <2>1. PICK f \in Fates \ {"none", "sent"} : Concludes(c, f)
      BY <1>a
    <2>2. CASE StartBody(c)
      <3>1. [how |-> "zero", next |-> "top"] \in Endings
        BY DEF Endings
      <3> QED BY <2>1, <2>2, <3>1 DEF Concludes, StartBody, Goto
    <2>3. CASE ~StartBody(c)
      <3>1. PICK how \in {"abort", "estimate", "zero", "actual"},
                 next \in {"top", "enqueue", "done"} :
                     End(c, how, next) /\ Leads(c, f, how, next)
        BY <2>1, <2>3 DEF Concludes
      <3>2. [how |-> how, next |-> next] \in Endings
        BY DEF Endings
      <3> QED BY <2>1, <3>1, <3>2 DEF Concludes, End, Goto
    <2> QED BY <2>2, <2>3
  <1>2. Shape' /\ Private(c) /\ pc'[c] \in {"body", "ending"}
    BY <1>0, <1>1 DEF IInv, Shape, Private, Pcs, Call
  <1>3. /\ Call(c)' = Call(c) /\ Mine(c)' = Mine(c) /\ ledger[Call(c)] = "estimate"
        /\ MayHaveRun(Call(c))' <=> f \in RanFates
    BY <1>0, <1>1 DEF Call, Mine, IInv, Shape, ClientInv, BooksOfClient, HoldingPcs, MayHaveRun
  <1>4. \A i \in Attempts : i # attempt[c] =>
            (MayHaveRun(<<c, i>>)' <=> MayHaveRun(<<c, i>>))
    BY <1>0, <1>1 DEF MayHaveRun, Call, Calls, IInv, Shape
  <1>5. SlotsOfClient(c)'
    BY <1>0, <1>2, <1>3 DEF IInv, ClientInv, SlotsOfClient, BeforePcs, HoldingPcs
  <1>6. BooksOfClient(c)'
    <2>1. \A i \in Attempts : MayHaveRun(<<c, i>>)' =>
              MayHaveRun(<<c, i>>) \/ <<c, i>> = Call(c)
      BY <1>4 DEF Call
    <2>2. \A i \in Attempts : MayHaveRun(<<c, i>>)' =>
              ledger'[<<c, i>>] \in {"estimate", "actual"}
      BY <1>0, <1>3, <2>1 DEF IInv, ClientInv, BooksOfClient
    <2>3. pc'[c] = "ending" =>
              /\ ending'[c] \in Endings
              /\ ending'[c].how \in {"abort", "zero"} => ~MayHaveRun(Call(c))'
              /\ ending'[c].next = "top" => RetriesLeft(c)'
      <3>1. pc'[c] = "ending" => ending'[c] = e
        BY <1>0, <1>1 DEF IInv, Shape
      <3>2. RetriesLeft(c)' <=> RetriesLeft(c)
        BY <1>0 DEF RetriesLeft
      <3> QED BY <1>1, <1>2, <1>3, <3>1, <3>2 DEF Leads, RanFates, IInv, Shape
    <2> QED BY <1>0, <1>2, <1>3, <2>2, <2>3 DEF BooksOfClient, HoldingPcs
  <1>7. (req'[c].key = NULL => RunsOfClient(c)') /\ answer'[c] = NULL
    <2>1. answer[c] = NULL /\ (req[c].key = NULL => Ran(c) \subseteq {attempt[c]})
      BY <1>0 DEF IInv, ClientInv, RunsOfClient, HoldingPcs
    <2>2. req[c].key = NULL => Ran(c)' \subseteq {attempt[c]}
      BY <1>0, <1>4, <2>1 DEF Ran
    <2>3. req[c].key = NULL /\ pc'[c] = "ending" /\ ending'[c].next # "done"
          => ~MayHaveRun(<<c, attempt[c]>>)'
      <3>1. pc'[c] = "ending" => pc'[c] # "body" /\ ending'[c] = e
        BY <1>0, <1>1 DEF IInv, Shape
      <3>2. req[c].key = NULL /\ pc'[c] = "ending" /\ ending'[c].next # "done"
            => f \in {"refused", "limited"}
        BY <1>1, <3>1, <1>0 DEF Leads, IInv, Shape
      <3>3. f \in {"refused", "limited"} => ~MayHaveRun(Call(c))'
        BY <1>3 DEF RanFates
      <3>4. Call(c)' = <<c, attempt[c]>>'
        BY DEF Call
      <3> QED BY <3>2, <3>3, <3>4 DEF MayHaveRun
    <2>4. req[c].key = NULL /\ pc'[c] = "ending" /\ ending'[c].next # "done" => Ran(c)' = {}
      BY <1>0, <2>2, <2>3 DEF Ran, MayHaveRun
    <2> QED BY <1>0, <1>2, <2>1, <2>2, <2>4, NullIsNoAnswer
        DEF RunsOfClient, BeforePcs, HoldingPcs
  <1> QED BY <1>0, <1>2, <1>5, <1>6, <1>7, OneClientSteps DEF ClientInv

\* The body is over: the usage is known, or the estimate stays.
LEMMA BodySteps ==
    ASSUME IInv, NEW c \in Clients, BodyEnds(c)
    PROVE  IInv'
  <1>1. /\ pc[c] = "body" /\ UNCHANGED <<slots, req, attempt, fate, ledger, answer>>
        /\ pc' = [pc EXCEPT ![c] = "ending"]
        /\ \E how \in {"estimate", "actual"} :
               ending' = [ending EXCEPT ![c] = [how |-> how, next |-> "done"]]
    BY DEF BodyEnds, End, Goto, scheduler, calls
  <1>2. /\ Shape' /\ Private(c) /\ pc'[c] = "ending" /\ ending'[c] \in Endings
        /\ ending'[c].how \in {"estimate", "actual"} /\ ending'[c].next = "done"
    BY <1>1 DEF IInv, Shape, Private, Pcs, Endings
  <1>3. Call(c)' = Call(c) /\ Mine(c)' = Mine(c) /\ Ran(c)' = Ran(c)
    BY <1>1 DEF Call, Mine, Ran, MayHaveRun
  <1>4. SlotsOfClient(c)'
    BY <1>1, <1>2, <1>3 DEF IInv, ClientInv, SlotsOfClient, BeforePcs, HoldingPcs
  <1>5. BooksOfClient(c)'
    BY <1>1, <1>2, <1>3 DEF IInv, ClientInv, BooksOfClient, HoldingPcs, MayHaveRun
  <1>6. (req'[c].key = NULL => RunsOfClient(c)') /\ answer'[c] = NULL
    BY <1>1, <1>2, <1>3, NullIsNoAnswer
    DEF IInv, ClientInv, RunsOfClient, BeforePcs, HoldingPcs
  <1> QED BY <1>1, <1>2, <1>4, <1>5, <1>6, OneClientSteps DEF ClientInv

\* complete or abort has run: the slot is gone before anything else happens.
LEMMA EndedSteps ==
    ASSUME IInv, NEW c \in Clients, Ended(c)
    PROVE  IInv'
  <1>1. /\ pc[c] = "ending" /\ slots' = slots \ {Call(c)} /\ Call(c) \in Calls
        /\ ledger' = [ledger EXCEPT ![Call(c)] = Reconciled(ending[c].how, ledger[Call(c)])]
        /\ UNCHANGED <<req, fate>>
    BY DEF Ended, L!Finish, Call, Calls, IInv, Shape
  <1>2. /\ ending[c] \in Endings /\ ledger[Call(c)] = "estimate"
        /\ ending[c].how \in {"abort", "zero"} => ~MayHaveRun(Call(c))
        /\ ending[c].next = "top" => RetriesLeft(c)
        /\ answer[c] = NULL
    BY <1>1 DEF IInv, ClientInv, BooksOfClient, HoldingPcs
  <1>3. /\ ledger'[Call(c)] \in LedgerValues
        /\ MayHaveRun(Call(c)) => ledger'[Call(c)] \in {"estimate", "actual"}
    BY <1>1, <1>2 DEF Reconciled, Endings, LedgerValues, IInv, Shape
  <1>4. ledger' \in [Calls -> LedgerValues]
    BY <1>1, <1>3 DEF IInv, Shape
  <1>5. \A k \in Calls : MayHaveRun(k) => ledger'[k] \in {"estimate", "actual"}
    BY <1>1, <1>3 DEF IInv, Shape, ClientInv, BooksOfClient, Calls
  <1>6. Mine(c)' = {}
    BY <1>1 DEF IInv, ClientInv, SlotsOfClient, HoldingPcs, Mine
  <1>7. CASE ending[c].next = "top"
    <2>1. /\ pc' = [pc EXCEPT ![c] = "top"] /\ attempt' = [attempt EXCEPT ![c] = @ + 1]
          /\ ending' = [ending EXCEPT ![c] = NULL] /\ answer' = answer
      BY <1>7 DEF Ended, Proceed, Goto
    <2>2. attempt[c] + 1 \in Attempts
      BY <1>2, <1>7, WaitsAreNumbers DEF RetriesLeft, Attempts, IInv, Shape
    <2>3. Shape' /\ Private(c) /\ pc'[c] = "top"
      BY <1>1, <1>4, <2>1, <2>2 DEF IInv, Shape, Private, Pcs, Call
    <2>4. SlotsOfClient(c)'
      BY <1>6, <2>3 DEF SlotsOfClient, HoldingPcs
    <2>5. BooksOfClient(c)'
      BY <1>1, <1>5, <2>3 DEF BooksOfClient, HoldingPcs, MayHaveRun, Calls
    <2>6. (req'[c].key = NULL => RunsOfClient(c)') /\ answer'[c] = NULL
      <3>1. Ran(c)' = Ran(c)
        BY <1>1 DEF Ran, MayHaveRun
      <3> QED BY <1>1, <1>2, <1>7, <2>1, <2>3, <3>1
          DEF IInv, ClientInv, RunsOfClient, BeforePcs, HoldingPcs
    <2> QED BY <2>3, <2>4, <2>5, <2>6, OneClientSteps DEF ClientInv
  <1>8. CASE ending[c].next \in {"enqueue", "done"}
    <2>1. /\ \/ \E there \in Pcs : Goto(c, there) /\ Forget(c) /\ UNCHANGED answer
             \/ \E what \in Answers \ {NULL} : Reply(c, what)
          /\ pc'[c] \in {"enqueue", "done"} /\ answer'[c] # "batch"
          /\ pc'[c] = "enqueue" => ending[c].next = "enqueue"
      <3>0. Told(c) \in {"live", "error"} /\ Told(c) \in Answers \ {NULL}
        BY NullIsNoAnswer DEF Told, Answers
      <3>1. CASE ending[c].next = "enqueue"
        BY <1>2, <3>1, NullIsNoAnswer DEF Ended, Proceed, GoBatch, Goto, Pcs, IInv, Shape
      <3>2. CASE ending[c].next = "done"
        BY <3>0, <3>2 DEF Ended, Proceed, Reply, Goto, Pcs, IInv, Shape
      <3> QED BY <1>8, <3>1, <3>2
    <2>2. Shape' /\ Private(c)
      BY <1>1, <1>4, <2>1, MovesArePrivate DEF IInv, Shape, Private, Call
    <2>3. req[c].key = NULL /\ pc'[c] = "enqueue" => Ran(c) = {}
      BY <1>1, <2>1 DEF IInv, ClientInv, RunsOfClient
    <2>4. answer'[c] # NULL => pc'[c] = "done"
      BY <1>2, <2>1, MovesArePrivate DEF IInv
    <2> QED BY <1>1, <1>5, <2>1, <2>2, <2>3, <2>4, OutOfTheLoop
  <1> QED BY <1>2, <1>7, <1>8 DEF Endings

\* A client that vanishes leaves its slot behind, and nothing else changes.
LEMMA VanishSteps ==
    ASSUME IInv, NEW c \in Clients, Vanish(c)
    PROVE  IInv'
  <1>1. /\ pc[c] # "done" /\ Goto(c, "gone") /\ Forget(c) /\ "gone" \in Pcs
        /\ UNCHANGED <<req, fate, ledger, answer>>
    BY DEF Vanish, calls, Pcs
  <1>2. slots' = slots
    BY DEF Vanish, L!GiveUp, L!Drop, scheduler
  <1>3. Shape' /\ Private(c) /\ pc'[c] = "gone"
    BY <1>1, <1>2, MovesArePrivate DEF IInv, Shape, Private, Goto
  <1>4. answer'[c] = NULL
    BY <1>1 DEF IInv, ClientInv
  <1>5. \A k \in Calls : MayHaveRun(k) => ledger'[k] \in {"estimate", "actual"}
    BY <1>1 DEF IInv, ClientInv, BooksOfClient, Calls
  <1> QED BY <1>1, <1>2, <1>3, <1>4, <1>5, OutOfTheLoop

\* Time passes, or a slot comes back.
LEMMA BystandingSteps ==
    ASSUME IInv,
           (\E c \in Clients : Tick(c)) \/ (\E k \in Calls : Return(k)) \/ UNCHANGED vars
    PROVE  IInv'
  <1>1. slots' \subseteq slots /\ UNCHANGED <<req, pc, attempt, ending, fate, ledger, answer>>
    BY DEF Tick, Return, L!Return, vars, scheduler, loop, calls
  <1>2. Shape'
    BY <1>1 DEF IInv, Shape
  <1>3. ASSUME NEW c \in Clients PROVE ClientInv(c)'
    BY <1>1, OtherClients DEF IInv, Mine
  <1> QED BY <1>2, <1>3 DEF IInv

LEMMA InvStep == IInv /\ [Next]_vars => IInv'
  BY QuietSteps, TopSteps, NoPermitSteps, GrantSteps, SendSteps, RespondSteps, BodySteps,
     EndedSteps, VanishSteps, BystandingSteps DEF Next, Handle

LEMMA InvAlways == Spec => []IInv
  BY InvInit, InvStep, PTL DEF Spec

-------------------------------------------------------------------------------

\* A request never waits for a slot while it has one, whatever the limits: no
\* limit can make it wait for itself.
THEOREM NeverTwoSlots == Spec => []OneSlotPerClient
  <1>1. IInv => OneSlotPerClient
    <2> SUFFICES ASSUME IInv, NEW c \in Clients PROVE Cardinality(Mine(c)) <= 1
      BY DEF OneSlotPerClient, Mine
    <2>1. CASE Mine(c) = {}
      BY <2>1, FS_EmptySet
    <2>2. CASE Mine(c) # {}
      <3>1. PICK k \in Mine(c) : Mine(c) = {k}
        BY <2>2 DEF IInv, ClientInv, SlotsOfClient
      <3>2. Cardinality({k}) = 1
        BY FS_Singleton
      <3>3. Cardinality(Mine(c)) = 1
        BY <3>1, <3>2
      <3> QED BY <3>3
    <2> QED BY <2>1, <2>2
  <1> QED BY <1>1, InvAlways, PTL

\* Without an Idempotency-Key nothing that may have run is sent again or stored
\* as a job, for any number of retries and any behaviour of the provider.
THEOREM NeverSilentlyTwice == Spec => []NoSilentDuplicate
  <1>1. IInv => NoSilentDuplicate
    BY DEF IInv, ClientInv, RunsOfClient, NoSilentDuplicate, Ran
  <1> QED BY <1>1, InvAlways, PTL

\* The token windows never lose a call that may have been charged.
THEOREM BooksAreKept == Spec => []ChargesAreCounted
  <1>1. IInv => ChargesAreCounted
    BY DEF IInv, ClientInv, BooksOfClient, ChargesAreCounted, Calls
  <1> QED BY <1>1, InvAlways, PTL

-------------------------------------------------------------------------------
(* The clock of a request, and the remaining types.                        *)

WaitTypes ==
    /\ stage \in [Calls -> L!Stages] /\ req \in Workloads
    /\ age \in [Clients -> 0..MaxAge] /\ deadline \in [Clients -> Nat]
    /\ pause \in [Clients -> Nat]

\* The loop runs against the deadline that was set when it began, and a call
\* that is out has a fate.
ClockOfClient(c) ==
    /\ pc[c] \in {"new", "check", "find", "preview"} => age[c] = 0
    /\ pc[c] \in {"top", "waiting"} \cup HoldingPcs => deadline[c] = MaxWait
    /\ pc[c] = "waiting" => age[c] <= deadline[c]
    /\ pc[c] = "sending" => fate[Call(c)] # "none"

WaitInv == WaitTypes /\ \A c \in Clients : ClockOfClient(c)

LEMMA WaitInit == Init => WaitInv
  <1>1. 0 \in 0..MaxAge
    BY WaitsAreNumbers
  <1> QED BY <1>1 DEF Init, L!Init, L!Stages, WaitInv, WaitTypes, ClockOfClient, HoldingPcs

\* The scheduler's part of a step keeps to its stages.
LEMMA StagesKept ==
    ASSUME stage \in [Calls -> L!Stages], NEW k \in Calls,
           \/ L!Ask(k) \/ L!Grant(k) \/ L!Receive(k) \/ L!GiveUp(k) \/ L!Finish(k)
           \/ L!Drop(k) \/ L!Return(k) \/ UNCHANGED scheduler
    PROVE  stage' \in [Calls -> L!Stages]
  BY DEF L!Ask, L!Grant, L!Receive, L!GiveUp, L!Finish, L!Drop, L!Return, L!Enter, L!Stages,
         scheduler

StepOf(c) == Handle(c) \/ Grant(c) \/ Respond(c) \/ BodyEnds(c) \/ Vanish(c) \/ Tick(c)

LEMMA StageTypes ==
    ASSUME IInv, WaitTypes, NEW c \in Clients, StepOf(c)
    PROVE  stage' \in [Calls -> L!Stages]
  <1>1. Call(c) \in Calls
    BY DEF IInv, Shape, Call, Calls
  <1>2. \/ L!Ask(Call(c)) \/ L!Grant(Call(c)) \/ L!Receive(Call(c)) \/ L!GiveUp(Call(c))
        \/ L!Finish(Call(c)) \/ L!Drop(Call(c)) \/ UNCHANGED scheduler
    BY DEF StepOf, Handle, Arrive, CheckKey, Find, Enqueue, Preview, Top, Send, Decline,
           TimeOut, Ended, Grant, Respond, BodyEnds, Vanish, Tick
  <1> QED BY <1>1, <1>2, StagesKept DEF WaitTypes

\* One step of one client: its clock and its place stay in step, and the other
\* clients are not touched.
LEMMA ClockSteps ==
    ASSUME IInv, WaitInv, NEW c \in Clients, StepOf(c)
    PROVE  WaitInv'
  <1> DEFINE Others == \A d \in Clients \ {c} :
                 /\ pc'[d] = pc[d] /\ attempt'[d] = attempt[d] /\ age'[d] = age[d]
                 /\ deadline'[d] = deadline[d]
                 /\ \A i \in Attempts : fate'[<<d, i>>] = fate[<<d, i>>]
             Types == /\ req' \in Workloads /\ age' \in [Clients -> 0..MaxAge]
                      /\ deadline' \in [Clients -> Nat] /\ pause' \in [Clients -> Nat]
  <1>0. /\ Shape /\ WaitTypes /\ ClockOfClient(c) /\ MaxWait \in Nat /\ 0 \in 0..MaxAge
        /\ attempt[c] \in Attempts /\ RetryAfters \subseteq Nat /\ MaxAge \in Nat
        /\ Call(c) \in Calls /\ <<c, attempt[c]>> \in Calls
        /\ age[c] \in 0..MaxAge /\ age[c] \in Nat /\ deadline[c] \in Nat /\ pause[c] \in Nat
    BY WaitsAreNumbers DEF IInv, Shape, WaitInv, WaitTypes, Call, Calls
  <1>1. ASSUME Arrive(c) PROVE Others /\ Types /\ ClockOfClient(c)'
    <2>1. Others /\ Types
      BY <1>0, <1>1 DEF Shape, WaitTypes, Arrive, Goto, loop, calls
    <2>2. ClockOfClient(c)'
      BY <1>0, <1>1
      DEF Shape, WaitTypes, ClockOfClient, HoldingPcs, Arrive, Goto, loop, calls, Call
    <2> QED BY <2>1, <2>2
  <1>2. ASSUME CheckKey(c) PROVE Others /\ Types /\ ClockOfClient(c)'
    <2>1. Others /\ Types
      BY <1>0, <1>2 DEF Shape, WaitTypes, CheckKey, Reply, Forget, Goto, loop, calls
    <2>2. ClockOfClient(c)'
      BY <1>0, <1>2
      DEF Shape, WaitTypes, ClockOfClient, HoldingPcs, CheckKey, Reply, Forget, Goto, loop,
          calls, Call
    <2> QED BY <2>1, <2>2
  <1>3. ASSUME Find(c) PROVE Others /\ Types /\ ClockOfClient(c)'
    <2>1. Others /\ Types
      BY <1>0, <1>3 DEF Shape, WaitTypes, Find, Goto, loop, calls
    <2>2. ClockOfClient(c)'
      BY <1>0, <1>3
      DEF Shape, WaitTypes, ClockOfClient, HoldingPcs, Find, Goto, loop, calls, Call
    <2> QED BY <2>1, <2>2
  <1>4. ASSUME Enqueue(c) PROVE Others /\ Types /\ ClockOfClient(c)'
    <2>1. Others /\ Types
      BY <1>0, <1>4 DEF Shape, WaitTypes, Enqueue, Reply, Forget, Goto, calls
    <2>2. ClockOfClient(c)'
      BY <1>0, <1>4
      DEF Shape, WaitTypes, ClockOfClient, HoldingPcs, Enqueue, Reply, Forget, Goto, calls,
          Call
    <2> QED BY <2>1, <2>2
  <1>5. ASSUME Preview(c) PROVE Others /\ Types /\ ClockOfClient(c)'
    <2>1. Others /\ Types
      BY <1>0, <1>5 DEF Shape, WaitTypes, Preview, Fallback, Goto, calls
    <2>2. ClockOfClient(c)'
      BY <1>0, <1>5
      DEF Shape, WaitTypes, ClockOfClient, HoldingPcs, Preview, Fallback, Goto, calls, Call
    <2> QED BY <2>1, <2>2
  <1>6. ASSUME Top(c) PROVE Others /\ Types /\ ClockOfClient(c)'
    <2>1. Others /\ Types
      BY <1>0, <1>6
      DEF Shape, WaitTypes, Top, BatchOrUnavailable, GoBatch, Reply, Forget, Goto,
          Remaining, calls
    <2>2. ClockOfClient(c)'
      BY <1>0, <1>6
      DEF Shape, WaitTypes, ClockOfClient, HoldingPcs, Top, BatchOrUnavailable, GoBatch,
          Reply, Forget, Goto, Remaining, calls, Call
    <2> QED BY <2>1, <2>2
  <1>7. ASSUME Send(c) PROVE Others /\ Types /\ ClockOfClient(c)'
    <2>1. Others /\ Types
      BY <1>0, <1>7 DEF Shape, WaitTypes, Send, Goto, loop, Call
    <2>2. ClockOfClient(c)'
      BY <1>0, <1>7 DEF Shape, WaitTypes, ClockOfClient, HoldingPcs, Send, Goto, loop, Call
    <2> QED BY <2>1, <2>2
  <1>8. ASSUME Decline(c) PROVE Others /\ Types /\ ClockOfClient(c)'
    <2>1. Others /\ Types
      BY <1>0, <1>8
      DEF Shape, WaitTypes, Decline, BatchOrUnavailable, GoBatch, Reply, Forget, Goto, calls
    <2>2. ClockOfClient(c)'
      BY <1>0, <1>8
      DEF Shape, WaitTypes, ClockOfClient, HoldingPcs, Decline, BatchOrUnavailable, GoBatch,
          Reply, Forget, Goto, calls, Call
    <2> QED BY <2>1, <2>2
  <1>9. ASSUME TimeOut(c) PROVE Others /\ Types /\ ClockOfClient(c)'
    <2>1. Others /\ Types
      BY <1>0, <1>9
      DEF Shape, WaitTypes, TimeOut, BatchOrUnavailable, GoBatch, Reply, Forget, Goto, calls
    <2>2. ClockOfClient(c)'
      BY <1>0, <1>9
      DEF Shape, WaitTypes, ClockOfClient, HoldingPcs, TimeOut, BatchOrUnavailable, GoBatch,
          Reply, Forget, Goto, calls, Call
    <2> QED BY <2>1, <2>2
  <1>10. ASSUME Ended(c) PROVE Others /\ Types /\ ClockOfClient(c)'
    <2>1. Others /\ Types
      BY <1>0, <1>10 DEF Shape, WaitTypes, Ended, Proceed, GoBatch, Reply, Forget, Goto, Call
    <2>2. ClockOfClient(c)'
      BY <1>0, <1>10
      DEF Shape, WaitTypes, ClockOfClient, HoldingPcs, Ended, Proceed, GoBatch, Reply,
          Forget, Goto, Call
    <2> QED BY <2>1, <2>2
  <1>11. ASSUME Grant(c) PROVE Others /\ Types /\ ClockOfClient(c)'
    <2>1. Others /\ Types
      BY <1>0, <1>11 DEF Shape, WaitTypes, Grant, loop, Call
    <2>2. ClockOfClient(c)'
      BY <1>0, <1>11 DEF Shape, WaitTypes, ClockOfClient, HoldingPcs, Grant, loop, Call
    <2> QED BY <2>1, <2>2
  <1>12. ASSUME Respond(c) PROVE Others /\ Types /\ ClockOfClient(c)'
    <2>1. /\ pc' = [pc EXCEPT ![c] = "body"] \/ pc' = [pc EXCEPT ![c] = "ending"]
          /\ pause' \in [Clients -> Nat]
          /\ \E f : fate' = [fate EXCEPT ![<<c, attempt[c]>>] = f]
      <3>1. ASSUME NEW status, Retried(c, status)
            PROVE  /\ pc' = [pc EXCEPT ![c] = "body"] \/ pc' = [pc EXCEPT ![c] = "ending"]
                   /\ pause' \in [Clients -> Nat]
                   /\ fate' = [fate EXCEPT ![<<c, attempt[c]>>] = status]
        BY <1>0, <3>1 DEF WaitTypes, Retried, End, StartBody, Goto, Call
      <3> QED BY <1>0, <1>12, <3>1
          DEF WaitTypes, Respond, Lost, Refused, Passed, End, StartBody, Goto, Call
    <2>2. pc[c] = "sending" /\ UNCHANGED <<req, attempt, age, deadline>>
      BY <1>12 DEF Respond
    <2>3. Others /\ Types
      BY <1>0, <2>1, <2>2 DEF Shape, WaitTypes
    <2>4. pc'[c] \in {"body", "ending"}
      BY <1>0, <2>1 DEF Shape
    <2> QED BY <1>0, <2>2, <2>3, <2>4 DEF ClockOfClient, HoldingPcs
  <1>13. ASSUME BodyEnds(c) PROVE Others /\ Types /\ ClockOfClient(c)'
    <2>1. Others /\ Types
      BY <1>0, <1>13 DEF Shape, WaitTypes, BodyEnds, End, Goto, calls
    <2>2. ClockOfClient(c)'
      BY <1>0, <1>13
      DEF Shape, WaitTypes, ClockOfClient, HoldingPcs, BodyEnds, End, Goto, calls, Call
    <2> QED BY <2>1, <2>2
  <1>14. ASSUME Vanish(c) PROVE Others /\ Types /\ ClockOfClient(c)'
    <2>1. Others /\ Types
      BY <1>0, <1>14 DEF Shape, WaitTypes, Vanish, Forget, Goto, calls
    <2>2. ClockOfClient(c)'
      BY <1>0, <1>14
      DEF Shape, WaitTypes, ClockOfClient, HoldingPcs, Vanish, Forget, Goto, calls, Call
    <2> QED BY <2>1, <2>2
  <1>15. ASSUME Tick(c) PROVE Others /\ Types /\ ClockOfClient(c)'
    <2>1. Others /\ Types
      BY <1>0, <1>15 DEF Shape, WaitTypes, Tick, Remaining, calls
    <2>2. ClockOfClient(c)'
      BY <1>0, <1>15
      DEF Shape, WaitTypes, ClockOfClient, HoldingPcs, Tick, Remaining, calls, Call
    <2> QED BY <2>1, <2>2
  <1>16. Others /\ Types /\ ClockOfClient(c)'
    BY <1>1, <1>2, <1>3, <1>4, <1>5, <1>6, <1>7, <1>8, <1>9, <1>10,
       <1>11, <1>12, <1>13, <1>14, <1>15
    DEF StepOf, Handle
  <1>17. ASSUME NEW d \in Clients PROVE ClockOfClient(d)'
    <2>1. CASE d = c
      BY <1>16, <2>1
    <2>2. CASE d # c
      BY <1>16, <2>2 DEF WaitInv, ClockOfClient, Call, IInv, Shape
    <2> QED BY <2>1, <2>2
  <1> QED BY <1>0, <1>16, <1>17, StageTypes DEF WaitInv, WaitTypes

LEMMA WaitStep == IInv /\ WaitInv /\ [Next]_vars => WaitInv'
  <1> SUFFICES ASSUME IInv, WaitInv, [Next]_vars PROVE WaitInv'
    OBVIOUS
  <1>1. ASSUME NEW k \in Calls, Return(k) PROVE WaitInv'
    <2>1. stage' \in [Calls -> L!Stages]
      BY <1>1, StagesKept DEF WaitInv, WaitTypes, Return
    <2> QED BY <1>1, <2>1 DEF Return, WaitInv, WaitTypes, ClockOfClient, loop, calls, Call
  <1>2. CASE UNCHANGED vars
    BY <1>2 DEF vars, scheduler, loop, calls, WaitInv, WaitTypes, ClockOfClient, Call
  <1> QED BY <1>1, <1>2, ClockSteps DEF Next, StepOf

LEMMA WaitAlways == Spec => []WaitInv
  BY WaitInit, WaitStep, InvAlways, PTL DEF Spec

\* The state keeps its shape.
THEOREM TypesAreKept == Spec => []TypeOK
  <1>1. IInv /\ WaitInv => TypeOK
    BY DEF IInv, Shape, WaitInv, WaitTypes, TypeOK
  <1> QED BY <1>1, InvAlways, WaitAlways, PTL

\* No attempt is sent after the deadline, for any number of retries and
\* whatever Retry-After the provider names.
THEOREM DeadlineHolds == Spec => WaitIsBounded
  <1> DEFINE A == \A c \in Clients, i \in Attempts :
                 fate[<<c, i>>] = "none" /\ fate'[<<c, i>>] # "none" => age[c] <= MaxWait
  <1>1. IInv /\ WaitInv /\ [Next]_vars => A
    <2> SUFFICES ASSUME IInv, WaitInv, [Next]_vars, NEW c \in Clients, NEW i \in Attempts,
                        fate[<<c, i>>] = "none", fate'[<<c, i>>] # "none"
                 PROVE  age[c] <= MaxWait
      OBVIOUS
    <2>0. DOMAIN fate = Calls /\ <<c, i>> \in Calls
      BY DEF IInv, Shape, Calls
    <2>1. PICK d \in Clients : Send(d) \/ Respond(d)
      <3>1. ~UNCHANGED fate
        OBVIOUS
      <3> QED BY <3>1 DEF Next, Handle, Arrive, CheckKey, Find, Enqueue, Preview, Top, Decline,
             TimeOut, Ended, Grant, BodyEnds, Vanish, Return, Tick, vars, calls
    <2>2. \A k : k # Call(d) /\ k \in Calls => fate'[k] = fate[k]
      <3>1. \E f : fate' = [fate EXCEPT ![Call(d)] = f]
        BY <2>1 DEF Send, Respond, Lost, Refused, Passed, Retried
      <3> QED BY <2>0, <3>1
    <2>3. <<c, i>> = Call(d) /\ d = c
      BY <2>0, <2>2 DEF Call
    <2>4. pc[c] = "waiting"
      BY <2>1, <2>3 DEF Send, Respond, WaitInv, ClockOfClient
    <2> QED BY <2>4 DEF WaitInv, ClockOfClient
  <1> QED BY <1>1, InvAlways, WaitAlways, PTL DEF Spec, WaitIsBounded

-------------------------------------------------------------------------------
(* The tables.                                                             *)

Row(c) == [job |-> JobOf(req[c]), key |-> idempotency_hash(req[c])]

\* A key has one job, and who was given a job has its row, as has every job that
\* is newer than the rows.
StoreInv ==
    /\ AcceptedIsResumable
    /\ \A r, s \in job_requests :
          r.key # NoHash /\ r.key = s.key /\ r.job.auth = s.job.auth => r.job = s.job

LEMMA StoreInit == Init => StoreInv
  BY NullIsNoAnswer DEF Init, StoreInv, AcceptedIsResumable

\* Only enqueue writes to the tables, or gives a job out.
Reads(c) ==
    /\ UNCHANGED <<req, database>>
    /\ \A d \in Clients : answer'[d] = "batch" => answer[d] = "batch"

LEMMA Readers ==
    ASSUME Shape, NEW c \in Clients, StepOf(c), ~Enqueue(c)
    PROVE  Reads(c)
  <1> DEFINE Quiet == \A d \in Clients : answer'[d] = "batch" => answer[d] = "batch"
  <1>1. ASSUME BatchOrUnavailable(c) PROVE Quiet
    BY <1>1 DEF BatchOrUnavailable, GoBatch, Reply, Shape
  <1>2. CASE CheckKey(c)
    BY <1>2 DEF CheckKey, Reply, Reads, Shape
  <1>3. CASE Top(c)
    BY <1>1, <1>3 DEF Top, Reads
  <1>4. CASE Decline(c) \/ TimeOut(c)
    BY <1>1, <1>4 DEF Decline, TimeOut, Reads
  <1>5. CASE Ended(c)
    <2>1. Told(c) # "batch"
      BY DEF Told
    <2>2. Quiet
      BY <1>5, <2>1 DEF Ended, Proceed, GoBatch, Reply, Shape
    <2> QED BY <1>5, <2>2 DEF Ended, Reads
  <1>6. CASE Arrive(c) \/ Find(c) \/ Preview(c) \/ Send(c) \/ Grant(c) \/ Respond(c)
             \/ BodyEnds(c) \/ Vanish(c) \/ Tick(c)
    BY <1>6 DEF Arrive, Find, Preview, Send, Grant, Respond, BodyEnds, Vanish, Tick, Reads
  <1> QED BY <1>2, <1>3, <1>4, <1>5, <1>6 DEF StepOf, Handle

\* What enqueue may do: refuse, or store the request under a key that is free.
LEMMA Writer ==
    ASSUME Shape, NEW c \in Clients, Enqueue(c)
    PROVE  /\ req' = req
           /\ \A d \in Clients \ {c} : answer'[d] = answer[d]
           /\ \/ answer'[c] # "batch" /\ UNCHANGED database
              \/ /\ ~KeyTaken(c) /\ job_requests' = job_requests \cup {Row(c)}
                 /\ jobs' = jobs \cup {JobOf(req[c])}
  BY DEF Enqueue, Reply, Shape, Row, database

LEMMA StoreStep == IInv /\ StoreInv /\ [Next]_vars => StoreInv'
  <1> SUFFICES ASSUME Shape, StoreInv, [Next]_vars PROVE StoreInv'
    BY DEF IInv
  <1>1. ASSUME NEW c \in Clients, Enqueue(c) PROVE StoreInv'
    <2>0. UNCHANGED req
      BY <1>1, Writer
    <2>1. CASE answer'[c] # "batch" /\ UNCHANGED database
      BY <1>1, <2>0, <2>1, Writer DEF StoreInv, AcceptedIsResumable, database
    <2>2. CASE /\ ~KeyTaken(c) /\ job_requests' = job_requests \cup {Row(c)}
               /\ jobs' = jobs \cup {JobOf(req[c])}
      <3>1. AcceptedIsResumable'
        <4>1. \A d \in Clients : answer'[d] = "batch" => Row(d)' \in job_requests'
          BY <1>1, <2>0, <2>2, Writer DEF StoreInv, AcceptedIsResumable, Row
        <4>2. jobs' \subseteq jobs \cup {Row(c).job} /\ Row(c) \in job_requests'
          BY <2>2 DEF Row
        <4>3. \A j \in jobs' \ Legacy : \E r \in job_requests' : r.job = j
          BY <2>2, <4>2 DEF StoreInv, AcceptedIsResumable
        <4> QED BY <4>1, <4>3 DEF AcceptedIsResumable, Row
      <3>2. ASSUME NEW r \in job_requests, r.key # NoHash, r.key = Row(c).key,
                   r.job.auth = Row(c).job.auth
            PROVE  r.job = Row(c).job
        <4>1. Row(c).job = JobOf(req[c]) /\ Row(c).key = idempotency_hash(req[c])
              /\ Row(c).job.auth = req[c].auth
          BY DEF Row, JobOf
        <4>2. r.job \in KeyOwners(c)
          BY <3>2, <4>1 DEF KeyOwners
        <4> QED BY <2>2, <4>1, <4>2 DEF KeyTaken
      <3> QED BY <2>2, <3>1, <3>2 DEF StoreInv
    <2> QED BY <1>1, <2>1, <2>2, Writer
  <1>2. ASSUME NEW c \in Clients, StepOf(c), ~Enqueue(c) PROVE StoreInv'
    BY <1>2, Readers DEF Reads, StoreInv, AcceptedIsResumable, database
  <1>3. CASE (\E k \in Calls : Return(k)) \/ UNCHANGED vars
    BY <1>3 DEF Return, vars, StoreInv, AcceptedIsResumable, database
  <1> QED BY <1>1, <1>2, <1>3 DEF Next, StepOf

LEMMA StoreAlways == Spec => []StoreInv
  BY StoreInit, StoreStep, InvAlways, PTL DEF Spec

\* Whoever was given a job is found in the tables under the key it came with, and
\* who is turned away leaves no job behind.
THEOREM AcceptedIsStored == Spec => []AcceptedIsResumable
  <1>1. StoreInv => AcceptedIsResumable
    BY DEF StoreInv
  <1> QED BY <1>1, StoreAlways, PTL

\* One key in one session is one job and one payload, for any set of requests
\* that race for it.
THEOREM KeysAreExclusive == Spec => []KeyIsOneRequest
  <1>1. StoreInv => KeyIsOneRequest
    <2> SUFFICES ASSUME StoreInv, NEW c \in Clients, NEW d \in Clients,
                        answer[c] = "batch", answer[d] = "batch",
                        req[c].auth = req[d].auth, req[c].key # NULL, req[c].key = req[d].key,
                        req[c].session # NULL, req[c].session = req[d].session
                 PROVE  JobOf(req[c]) = JobOf(req[d]) /\ req[c].body = req[d].body
      BY DEF KeyIsOneRequest
    <2>1. Row(c) \in job_requests /\ Row(d) \in job_requests
      BY DEF StoreInv, AcceptedIsResumable, Row
    <2>2. session_key(req[c]) = session_key(req[d])
      BY DEF session_key
    <2>3. idempotency_hash(req[c]) = idempotency_hash(req[d])
      BY <2>2 DEF idempotency_hash
    <2>4. idempotency_hash(req[c]) # NoHash
      BY DEF idempotency_hash, NoHash
    <2>5. JobOf(req[c]) = JobOf(req[d])
      <3>1. /\ Row(c).key # NoHash /\ Row(c).key = Row(d).key
            /\ Row(c).job.auth = Row(d).job.auth
            /\ Row(c).job = JobOf(req[c]) /\ Row(d).job = JobOf(req[d])
        BY <2>3, <2>4 DEF Row, JobOf
      <3> QED BY <2>1, <3>1 DEF StoreInv
    <2>6. Fingerprint(req[c]) = Fingerprint(req[d])
      <3>1. request_hash(req[c]) = request_hash(req[d])
        BY <2>5 DEF JobOf
      <3> QED BY <3>1 DEF request_hash
    <2>7. req[c].body = req[d].body
      BY <2>6 DEF Fingerprint
    <2> QED BY <2>5, <2>7
  <1> QED BY <1>1, StoreAlways, PTL

\* An auto request that found its job, or its key taken, stays out of the loop.
StoredOf(c) ==
    /\ pc[c] = "new" => met[c] = "nothing" /\ \A i \in Attempts : fate[<<c, i>>] = "none"
    /\ Fallback(c) /\ met[c] # "nothing" =>
          /\ pc[c] \in {"check", "find", "enqueue", "done", "gone"}
          /\ \A i \in Attempts : fate[<<c, i>>] = "none"
          /\ \/ met[c] = "job" /\ JobOf(req[c]) \in jobs
             \/ met[c] = "key taken" /\ KeyTaken(c)
          /\ pc[c] \in {"find", "enqueue"} => met[c] = "job"
          /\ answer[c] = "batch" => met[c] = "job"

StoredInv == met \in [Clients -> {"nothing", "job", "key taken"}] /\ \A c \in Clients : StoredOf(c)

LEMMA StoredInit == Init => StoredInv
  BY DEF Init, StoredInv, StoredOf, Calls

LEMMA TablesGrow ==
    ASSUME Shape, [Next]_vars
    PROVE  /\ req' = req /\ jobs \subseteq jobs'
           /\ \A c \in Clients : KeyTaken(c) => KeyTaken(c)'
  <1>1. req' = req /\ jobs \subseteq jobs' /\ job_requests \subseteq job_requests'
    <2>1. ASSUME NEW c \in Clients, StepOf(c)
          PROVE  req' = req /\ jobs \subseteq jobs' /\ job_requests \subseteq job_requests'
      BY <2>1, Readers, Writer DEF Reads, database
    <2> QED BY <2>1 DEF Next, StepOf, Return, vars, database
  <1> QED BY <1>1 DEF KeyTaken, KeyOwners

\* The step of the client itself.
LEMMA StoredSteps ==
    ASSUME IInv, StoredInv, [Next]_vars, NEW c \in Clients, StepOf(c)
    PROVE  StoredOf(c)'
  <1>0. /\ Shape /\ StoredOf(c) /\ req' = req /\ jobs \subseteq jobs'
        /\ (KeyTaken(c) => KeyTaken(c)') /\ (Fallback(c)' <=> Fallback(c))
        /\ DOMAIN met = Clients /\ (answer[c] # NULL => pc[c] = "done")
        /\ \A i \in Attempts : <<c, i>> \in Calls
    BY TablesGrow DEF IInv, StoredInv, Fallback, Calls, ClientInv
  <1>1. CASE Arrive(c)
    <2>1. /\ met' = [met EXCEPT ![c] = Met(c)] /\ pc[c] = "new" /\ pc'[c] # "new"
          /\ UNCHANGED <<fate, answer, database>> /\ (Fallback(c) => pc'[c] = "check")
      BY <1>0, <1>1 DEF Arrive, Goto, Shape, calls, Fallback
    <2>2. Met(c) # "nothing" => \/ Met(c) = "job" /\ JobOf(req[c]) \in jobs
                                \/ Met(c) = "key taken" /\ KeyTaken(c)
      BY DEF Met
    <2> QED BY <1>0, <2>1, <2>2, NullIsNoAnswer DEF StoredOf, database
  <1>2. CASE CheckKey(c)
    <2>1. /\ UNCHANGED <<fate, met, database>> /\ pc[c] = "check"
          /\ \/ KeyTaken(c) /\ pc'[c] = "done" /\ answer'[c] = "conflict"
             \/ ~KeyTaken(c) /\ pc'[c] = "find" /\ answer' = answer
      BY <1>0, <1>2 DEF CheckKey, Reply, Goto, Shape, calls
    <2> QED BY <1>0, <2>1 DEF StoredOf
  <1>3. CASE Find(c)
    <2>1. /\ UNCHANGED <<fate, met, database, answer>> /\ pc[c] = "find"
          /\ pc'[c] = IF JobOf(req[c]) \in jobs \/ req[c].policy = "batch"
                      THEN "enqueue" ELSE "preview"
      BY <1>0, <1>3 DEF Find, Goto, Shape, calls
    <2> QED BY <1>0, <2>1 DEF StoredOf
  <1>4. CASE Enqueue(c)
    <2>1. UNCHANGED <<fate, met>> /\ pc[c] = "enqueue" /\ pc'[c] = "done"
      BY <1>0, <1>4 DEF Enqueue, Reply, Goto, Shape, calls
    <2> QED BY <1>0, <2>1 DEF StoredOf
  <1>5. CASE Vanish(c)
    <2>1. UNCHANGED <<fate, met, answer>> /\ pc[c] # "new" /\ pc'[c] = "gone"
      BY <1>0, <1>5 DEF Vanish, Goto, Shape, calls
    <2> QED BY <1>0, <2>1 DEF StoredOf
  <1>6. CASE \/ Preview(c) \/ Top(c) \/ Send(c) \/ Decline(c) \/ TimeOut(c) \/ Ended(c)
             \/ Grant(c) \/ Respond(c) \/ BodyEnds(c) \/ Tick(c)
    <2>1. /\ pc[c] \in {"preview", "top", "waiting", "sending", "ending", "body"}
          /\ met' = met
      BY <1>6 DEF Preview, Top, Send, Decline, TimeOut, Ended, Grant, Respond, BodyEnds, Tick
    <2>2. pc'[c] # "new"
      <3>1. CASE Ended(c)
        BY <1>0, <3>1 DEF Ended, Proceed, GoBatch, Reply, Goto, Shape
      <3>2. CASE Respond(c)
        BY <1>0, <3>2
        DEF Respond, Lost, Refused, Passed, Retried, End, StartBody, Goto, Shape
      <3>3. CASE \/ Preview(c) \/ Top(c) \/ Send(c) \/ Decline(c) \/ TimeOut(c)
                 \/ Grant(c) \/ BodyEnds(c) \/ Tick(c)
        BY <1>0, <2>1, <3>3 DEF Preview, Top, Send, Decline, TimeOut, Grant, BodyEnds, Tick,
            BatchOrUnavailable, GoBatch, Reply, End, Goto, Shape
      <3> QED BY <1>6, <3>1, <3>2, <3>3
    <2> QED BY <1>0, <2>1, <2>2 DEF StoredOf
  <1> QED BY <1>1, <1>2, <1>3, <1>4, <1>5, <1>6 DEF StepOf, Handle

\* A step of one client, seen from another.
LEMMA StrangersUntouched ==
    ASSUME Shape, NEW c \in Clients, NEW d \in Clients \ {c}, StepOf(c), DOMAIN met = Clients
    PROVE  /\ pc'[d] = pc[d] /\ answer'[d] = answer[d] /\ met'[d] = met[d]
           /\ \A i \in Attempts : fate'[<<d, i>>] = fate[<<d, i>>]
  <1> DEFINE Touched(there) == pc' = [pc EXCEPT ![c] = there]
             Replied(what) == answer' = [answer EXCEPT ![c] = what]
             Fated(f) == fate' = [fate EXCEPT ![<<c, attempt[c]>>] = f]
  <1>1. (\E there : Touched(there)) \/ pc' = pc
    <2>1. CASE Respond(c)
      BY <2>1 DEF Respond, Lost, Refused, Passed, Retried, End, StartBody, Goto
    <2>2. CASE Ended(c)
      BY <2>2 DEF Ended, Proceed, GoBatch, Reply, Goto
    <2>3. CASE Top(c) \/ Decline(c) \/ TimeOut(c)
      BY <2>3 DEF Top, Decline, TimeOut, BatchOrUnavailable, GoBatch, Reply, Goto
    <2> QED BY <2>1, <2>2, <2>3 DEF StepOf, Handle, Arrive, CheckKey, Find, Enqueue, Preview,
        Send, Grant, BodyEnds, Vanish, Tick, Reply, End, Goto, loop
  <1>2. (\E what : Replied(what)) \/ answer' = answer
    <2>1. CASE Ended(c)
      BY <2>1 DEF Ended, Proceed, GoBatch, Reply
    <2>2. CASE Top(c) \/ Decline(c) \/ TimeOut(c)
      BY <2>2 DEF Top, Decline, TimeOut, BatchOrUnavailable, GoBatch, Reply
    <2> QED BY <2>1, <2>2 DEF StepOf, Handle, Arrive, CheckKey, Find, Enqueue, Preview,
        Send, Grant, Respond, BodyEnds, Vanish, Tick, Reply
  <1>3. (\E f : Fated(f)) \/ fate' = fate
    <2>1. CASE Respond(c)
      BY <2>1 DEF Respond, Lost, Refused, Passed, Retried, Call
    <2> QED BY <2>1 DEF StepOf, Handle, Arrive, CheckKey, Find, Enqueue, Preview, Top, Send,
        Decline, TimeOut, Ended, Grant, BodyEnds, Vanish, Tick, Call, calls
  <1>4. met' = [met EXCEPT ![c] = Met(c)] \/ met' = met
    BY DEF StepOf, Handle, Arrive, CheckKey, Find, Enqueue, Preview, Top, Send,
        Decline, TimeOut, Ended, Grant, Respond, BodyEnds, Vanish, Tick
  <1>5. \A i \in Attempts : <<d, i>> \in Calls
    BY DEF Calls
  <1> QED BY <1>1, <1>2, <1>3, <1>4, <1>5 DEF Shape

LEMMA StoredStep == IInv /\ StoredInv /\ [Next]_vars => StoredInv'
  <1> SUFFICES ASSUME IInv, StoredInv, [Next]_vars PROVE StoredInv'
    OBVIOUS
  <1>0. Shape /\ req' = req /\ jobs \subseteq jobs'
    BY TablesGrow DEF IInv
  <1>1. met' \in [Clients -> {"nothing", "job", "key taken"}]
    <2>1. \A c \in Clients : Met(c) \in {"nothing", "job", "key taken"}
      BY DEF Met
    <2>2. met \in [Clients -> {"nothing", "job", "key taken"}]
      BY DEF StoredInv
    <2>3. CASE UNCHANGED vars \/ \E k \in Calls : Return(k)
      BY <2>2, <2>3 DEF Return, vars
    <2>4. ASSUME NEW c \in Clients, StepOf(c)
          PROVE  met' = met \/ met' = [met EXCEPT ![c] = Met(c)]
      <3>1. CASE Handle(c)
        BY <3>1 DEF Handle, Arrive, CheckKey, Find, Enqueue, Preview, Top, Send, Decline,
           TimeOut, Ended
      <3>2. CASE Grant(c) \/ Respond(c)
        BY <3>2 DEF Grant, Respond
      <3>3. CASE BodyEnds(c) \/ Vanish(c) \/ Tick(c)
        BY <3>3 DEF BodyEnds, Vanish, Tick
      <3> QED BY <2>4, <3>1, <3>2, <3>3 DEF StepOf
    <2> QED BY <2>1, <2>2, <2>3, <2>4 DEF Next, StepOf
  <1>2. ASSUME NEW c \in Clients, NEW d \in Clients, StepOf(d), d # c
        PROVE  StoredOf(c)'
    <2>1. pc'[c] = pc[c] /\ answer'[c] = answer[c] /\ met'[c] = met[c]
          /\ \A i \in Attempts : fate'[<<c, i>>] = fate[<<c, i>>]
      BY <1>0, <1>2, StrangersUntouched DEF StoredInv
    <2>2. Fallback(c)' <=> Fallback(c)
      BY <1>0 DEF Fallback
    <2>3. /\ JobOf(req[c]) \in jobs => (JobOf(req[c]) \in jobs)'
          /\ KeyTaken(c) => KeyTaken(c)'
      BY <1>0, TablesGrow
    <2>4. StoredOf(c)
      BY DEF StoredInv
    <2>5. CASE Fallback(c) /\ met[c] # "nothing"
      <3>1. KeyTaken(c) => KeyTaken(c)'
        BY <2>3
      <3>2. \/ met[c] = "job" /\ JobOf(req[c]) \in jobs
            \/ met[c] = "key taken" /\ KeyTaken(c)
        BY <2>4, <2>5 DEF StoredOf
      <3>3. \/ met'[c] = "job" /\ (JobOf(req[c]) \in jobs)'
            \/ met'[c] = "key taken" /\ KeyTaken(c)'
        BY <2>1, <2>3, <3>1, <3>2
      <3>4. /\ pc[c] # "new" /\ pc[c] \in {"check", "find", "enqueue", "done", "gone"}
            /\ \A i \in Attempts : fate[<<c, i>>] = "none"
            /\ pc[c] \in {"find", "enqueue"} => met[c] = "job"
            /\ answer[c] = "batch" => met[c] = "job"
        BY <2>4, <2>5 DEF StoredOf
      <3> QED BY <2>1, <3>3, <3>4 DEF StoredOf
    <2>6. CASE ~(Fallback(c) /\ met[c] # "nothing")
      BY <2>1, <2>2, <2>4, <2>6 DEF StoredOf
    <2> QED BY <2>5, <2>6
  <1>3. ASSUME NEW c \in Clients, (\E k \in Calls : Return(k)) \/ UNCHANGED vars
        PROVE  StoredOf(c)'
    <2>1. UNCHANGED <<req, pc, fate, database, met, answer>>
      BY <1>3 DEF Return, vars, loop, calls
    <2> QED BY <2>1 DEF StoredInv, StoredOf, Fallback, database, KeyTaken, KeyOwners
  <1> QED BY <1>1, <1>2, <1>3, StoredSteps DEF Next, StepOf, StoredInv

LEMMA StoredAlways == Spec => []StoredInv
  BY StoredInit, StoredStep, InvAlways, PTL DEF Spec

\* An auto request whose job is stored, or whose key belongs to another job, is
\* never sent live, whatever the routing policy has become.
THEOREM StoredIsNeverLive == Spec => []StoredStaysBatch
  <1>1. StoredInv => StoredStaysBatch
    BY DEF StoredInv, StoredOf, StoredStaysBatch
  <1> QED BY <1>1, StoredAlways, PTL

===============================================================================
