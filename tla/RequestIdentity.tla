--------------------------- MODULE RequestIdentity ---------------------------
(***************************************************************************)
(* How Kaiion tells requests apart (request.rs): what a request carries,   *)
(* whether the durable Batch path can take it, and the two digests under   *)
(* which it is stored.  A digest is the tuple of its labelled components.  *)
(***************************************************************************)
CONSTANTS
    Provider,  \* the configured upstream base URL, in canonical form
    NULL

Modes == {"auto", "direct", "batch"}

\* What the handlers read of a request.  "thread" and "turn" are those of
\* client_metadata (session_id standing in for a blank thread_id), "volatile"
\* its fields that change when Codex reconnects, "body" all the rest.
RequestsOver(Auths, Sessions, Threads, Turns, Keys, Bodies, Volatiles) ==
    [auth : Auths, mode : Modes, session : Sessions, thread : Threads, turn : Turns,
     key : Keys, body : Bodies, volatile : Volatiles,
     storable : BOOLEAN,           \* no store, conversation, ... that Batch cannot have
     policy : {"direct", "batch"}] \* RoutingPolicy::decide on this body

\* extract_session_key: a turn that is missing is the turn "-".
MetadataKey(q) == <<q.thread, IF q.turn = NULL THEN "-" ELSE q.turn>>

\* Slip in session_key: metadata before the explicit header.
MetadataFirst(q) ==
    IF q.thread # NULL THEN <<"metadata", MetadataKey(q)>>
    ELSE IF q.session # NULL THEN <<"session-header", q.session>>
    ELSE <<"idempotency", q.key>>

session_key(q) ==
    IF q.session # NULL THEN <<"session-header", q.session>>
    ELSE IF q.thread # NULL THEN <<"metadata", MetadataKey(q)>>
    ELSE <<"idempotency", q.key>>

HasIdentity(q) == q.session # NULL \/ q.thread # NULL \/ q.key # NULL

batch_supported(q) == q.storable /\ HasIdentity(q)

\* The fingerprint keeps the metadata that is not volatile.
Fingerprint(q) == <<q.body, q.thread, q.turn>>

request_hash(q) == <<Provider, session_key(q), q.key, Fingerprint(q)>>

\* The job_requests row of a request without a key has none either.
NoHash == <<>>

idempotency_hash(q) == IF q.key = NULL THEN NoHash ELSE <<Provider, session_key(q), q.key>>

\* The row of jobs a request belongs to: UNIQUE(auth_hash, request_hash).
JobOf(q) == [auth |-> q.auth, hash |-> request_hash(q)]

===============================================================================
