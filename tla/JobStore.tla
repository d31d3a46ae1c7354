------------------------------- MODULE JobStore -------------------------------
(***************************************************************************)
(* The durable job table of Kaiion (src/src/db.rs, src/src/job_store.rs):  *)
(* one row per job, changed only by UPDATE ... WHERE statements that act   *)
(* as compare-and-set operations on the status column.                     *)
(*                                                                         *)
(* A job stands for one (auth_hash, request_hash) pair, which is UNIQUE in *)
(* the table, so enqueueing the same request again finds the same row.     *)
(* The nullable columns are kept, because a row is decodable only when     *)
(* exactly the columns of its status are set; the timestamp in             *)
(* submission_started_at is kept as "is it NULL".                          *)
(*                                                                         *)
(* Spec lets any number of callers issue any of the operations at any time *)
(* with any arguments a Rust caller can pass: what it guarantees, it       *)
(* guarantees whatever the workers above it do.                            *)
(***************************************************************************)
EXTENDS Naturals

CONSTANTS
    Jobs,      \* job identities (JobId)
    FileIds,   \* ids of uploaded input files (FileId)
    BatchIds,  \* ids of provider batches (BatchId)
    NULL,      \* SQL NULL
    Kaiion     \* origin of an outcome made up by failed_response

ASSUME KaiionIsNoBatch == Kaiion \notin BatchIds

VARIABLE rows  \* [Jobs -> row]; status "absent" while there is no row

-------------------------------------------------------------------------------

OutcomeKinds == {"completed", "failed", "incomplete", "expired", "cancelled"}

OpenStatuses ==
    {"queued", "uploaded", "submitting", "submission_uncertain", "submitted"}

\* StoredOutcome. The payload is abstracted to its origin: the batch whose
\* files it was read from, or Kaiion for a failed_response of our own making.
Outcomes == [kind : OutcomeKinds, by : BatchIds \cup {Kaiion}]

\* A column that is set is told apart from NULL.
ASSUME NullIsNoValue == NULL \notin FileIds \cup BatchIds \cup Outcomes

FailedByKaiion == [kind |-> "failed", by |-> Kaiion]

RowTypes == [status  : OpenStatuses \cup OutcomeKinds \cup {"absent"},
             file    : FileIds \cup {NULL},
             batch   : BatchIds \cup {NULL},
             started : BOOLEAN,
             outcome : Outcomes \cup {NULL}]

IsTerminal(row) == row.status \in OutcomeKinds

EmptyRow(status) == [status |-> status, file |-> NULL, batch |-> NULL,
                     started |-> FALSE, outcome |-> NULL]

\* TryFrom<RawJob> for Job: which columns must, and must not, be set for the
\* row to decode into a JobState (the CHECK constraint says the same).
Decodes(row) ==
    /\ (row.file # NULL) <=>
           row.status \in {"uploaded", "submitting", "submission_uncertain"}
    /\ (row.batch # NULL) <=> row.status = "submitted"
    /\ row.started <=> row.status \in {"submitting", "submission_uncertain"}
    /\ (row.outcome # NULL) <=> IsTerminal(row)
    /\ row.outcome # NULL => row.outcome.kind = row.status

-------------------------------------------------------------------------------
(* The rows each UPDATE ... RETURNING leaves behind.                       *)

UploadedRow(row, f) == [row EXCEPT !.status = "uploaded", !.file = f]

SubmittingRow(row) == [row EXCEPT !.status = "submitting", !.started = TRUE]

UncertainRow(row) == [row EXCEPT !.status = "submission_uncertain"]

\* Slip: the columns of the submission are not cleared.
SubmittedRowKeepsFile(row, b) ==
    [row EXCEPT !.status = "submitted", !.started = FALSE, !.batch = b]

SubmittedRow(row, b) == [row EXCEPT !.status = "submitted", !.file = NULL,
                                    !.started = FALSE, !.batch = b]

OutcomeRow(row, o) ==
    [row EXCEPT !.status = o.kind, !.file = NULL, !.batch = NULL,
                !.started = FALSE, !.outcome = o]

-------------------------------------------------------------------------------
(* The WHERE clauses: does the statement hit the row, or is the result     *)
(* TransitionConflict?                                                     *)

\* Slip: WHERE id = ? without the status.
MayMarkUploadedById(j) == rows[j].status # "absent"

MayMarkUploaded(j) == rows[j].status = "queued"

\* Slip: the WHERE clause compares the file id only.
MayBeginSubmissionByFile(j, f) == rows[j].file = f

MayBeginSubmission(j, f) == rows[j].status = "uploaded" /\ rows[j].file = f

MayMarkUncertain(j) == rows[j].status = "submitting"

\* Slip: the expected status is not compared.
MayReplaceById(j, expected) == rows[j].status # "absent"

\* mark_submitted and store_outcome compare with the status of the JobState
\* the caller expects.
MayReplace(j, expected) == rows[j].status = expected

(* The statements themselves.                                              *)

\* INSERT OR IGNORE of a queued row; an existing row is left alone.
enqueue(j) ==
    rows' = IF rows[j].status = "absent"
            THEN [rows EXCEPT ![j] = EmptyRow("queued")]
            ELSE rows

mark_uploaded(j, f) ==
    /\ MayMarkUploaded(j)
    /\ rows' = [rows EXCEPT ![j] = UploadedRow(rows[j], f)]

begin_submission(j, f) ==
    /\ MayBeginSubmission(j, f)
    /\ rows' = [rows EXCEPT ![j] = SubmittingRow(rows[j])]

mark_submission_uncertain(j) ==
    /\ MayMarkUncertain(j)
    /\ rows' = [rows EXCEPT ![j] = UncertainRow(rows[j])]

mark_submitted(j, expected, b) ==
    /\ MayReplace(j, expected)
    /\ rows' = [rows EXCEPT ![j] = SubmittedRow(rows[j], b)]

store_outcome(j, expected, o) ==
    /\ MayReplace(j, expected)
    /\ rows' = [rows EXCEPT ![j] = OutcomeRow(rows[j], o)]

-------------------------------------------------------------------------------

StoreInit == rows = [j \in Jobs |-> EmptyRow("absent")]

StoreNext ==
    \E j \in Jobs :
        \/ enqueue(j)
        \/ \E f \in FileIds : mark_uploaded(j, f) \/ begin_submission(j, f)
        \/ mark_submission_uncertain(j)
        \/ \E b \in BatchIds, e \in {"submitting", "submission_uncertain"} :
               mark_submitted(j, e, b)
        \/ \E o \in Outcomes, e \in OpenStatuses : store_outcome(j, e, o)

StoreSpec == StoreInit /\ [][StoreNext]_rows

-------------------------------------------------------------------------------
(* What the table promises to every caller.                                *)

RowsTypeOK == rows \in [Jobs -> RowTypes]

\* No sequence of conditional updates leaves a row that TryFrom<RawJob>
\* rejects: no column of an earlier state survives into a status that forbids
\* it, so no reader of the table ever meets PersistenceError::InvalidJob.
RowsDecode == \A j \in Jobs : Decodes(rows[j])

Rank(status) ==
    CASE status = "absent"               -> 0
      [] status = "queued"               -> 1
      [] status = "uploaded"             -> 2
      [] status = "submitting"           -> 3
      [] status = "submission_uncertain" -> 4
      [] status = "submitted"            -> 5
      [] OTHER                           -> 6

\* A job's row only moves forward through the lifecycle, it never returns to
\* a status from which a second batch could be created, and once it holds an
\* outcome neither the outcome nor anything else in it ever changes.
RowsOnlyAdvance ==
    [][\A j \in Jobs :
          rows'[j] # rows[j] => /\ Rank(rows[j].status) < Rank(rows'[j].status)
                                /\ ~IsTerminal(rows[j])]_rows

===============================================================================
