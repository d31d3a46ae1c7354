---------------------------- MODULE JobStoreProofs ----------------------------
(***************************************************************************)
(* The promises of the job table hold for any sets of jobs, files and      *)
(* batches and for any interleaving of callers.                            *)
(***************************************************************************)
EXTENDS JobStore, TLAPS

\* A row with the types of its columns that decodes: RowsTypeOK and RowsDecode
\* for one row.  They go together, since what an update leaves in place must
\* have been right before.
GoodRow(row) == row \in RowTypes /\ Decodes(row)

StoreInv == RowsTypeOK /\ RowsDecode

\* Each UPDATE turns a good row of the status its WHERE clause asks for into
\* another good row.
LEMMA UpdatesKeepRowsGood ==
    ASSUME NEW row, GoodRow(row)
    PROVE  /\ GoodRow(EmptyRow("queued"))
           /\ \A f \in FileIds :
                  row.status = "queued" => GoodRow(UploadedRow(row, f))
           /\ row.status = "uploaded" => GoodRow(SubmittingRow(row))
           /\ row.status = "submitting" => GoodRow(UncertainRow(row))
           /\ \A b \in BatchIds :
                  row.status \in {"submitting", "submission_uncertain"} =>
                      GoodRow(SubmittedRow(row, b))
           /\ \A o \in Outcomes : GoodRow(OutcomeRow(row, o))
  <1> USE NullIsNoValue
  <1> USE DEF GoodRow, RowTypes, Decodes, IsTerminal, OpenStatuses, OutcomeKinds,
              EmptyRow
  <1>1. GoodRow(EmptyRow("queued"))
    OBVIOUS
  <1>2. \A f \in FileIds : row.status = "queued" => GoodRow(UploadedRow(row, f))
    BY DEF UploadedRow
  <1>3. row.status = "uploaded" => GoodRow(SubmittingRow(row))
    BY DEF SubmittingRow
  <1>4. row.status = "submitting" => GoodRow(UncertainRow(row))
    BY DEF UncertainRow
  <1>5. \A b \in BatchIds : row.status \in {"submitting", "submission_uncertain"} =>
            GoodRow(SubmittedRow(row, b))
    BY DEF SubmittedRow
  <1>6. \A o \in Outcomes : GoodRow(OutcomeRow(row, o))
    BY DEF OutcomeRow, Outcomes
  <1> QED BY <1>1, <1>2, <1>3, <1>4, <1>5, <1>6

\* A change of one row that keeps it good keeps the table good.
LEMMA OneRowChanges ==
    ASSUME StoreInv, NEW j \in Jobs, NEW new, GoodRow(new),
           rows' = [rows EXCEPT ![j] = new]
    PROVE  StoreInv'
  BY DEF StoreInv, RowsTypeOK, RowsDecode, GoodRow

\* The table is typed, and every row decodes, whatever the callers do.
LEMMA StoreStep == StoreInv /\ [StoreNext]_rows => StoreInv'
  <1> SUFFICES ASSUME StoreInv, [StoreNext]_rows PROVE StoreInv'
    OBVIOUS
  <1>0. \A j \in Jobs : GoodRow(rows[j])
    BY DEF StoreInv, RowsTypeOK, RowsDecode, GoodRow
  <1>1. CASE UNCHANGED rows
    BY <1>1 DEF StoreInv, RowsTypeOK, RowsDecode
  <1>2. ASSUME NEW j \in Jobs, enqueue(j) PROVE StoreInv'
    <2>1. GoodRow(EmptyRow("queued"))
      BY <1>0, UpdatesKeepRowsGood
    <2>2. CASE rows[j].status = "absent"
      BY <1>2, <2>1, <2>2, OneRowChanges DEF enqueue
    <2>3. CASE rows[j].status # "absent"
      BY <1>2, <2>3 DEF enqueue, StoreInv, RowsTypeOK, RowsDecode
    <2> QED BY <2>2, <2>3
  <1>3. ASSUME NEW j \in Jobs, NEW f \in FileIds, mark_uploaded(j, f) PROVE StoreInv'
    <2>1. GoodRow(UploadedRow(rows[j], f))
      BY <1>0, <1>3, UpdatesKeepRowsGood DEF mark_uploaded, MayMarkUploaded
    <2> QED BY <1>3, <2>1, OneRowChanges DEF mark_uploaded
  <1>4. ASSUME NEW j \in Jobs, NEW f \in FileIds, begin_submission(j, f) PROVE StoreInv'
    <2>1. GoodRow(SubmittingRow(rows[j]))
      BY <1>0, <1>4, UpdatesKeepRowsGood DEF begin_submission, MayBeginSubmission
    <2> QED BY <1>4, <2>1, OneRowChanges DEF begin_submission
  <1>5. ASSUME NEW j \in Jobs, mark_submission_uncertain(j) PROVE StoreInv'
    <2>1. GoodRow(UncertainRow(rows[j]))
      BY <1>0, <1>5, UpdatesKeepRowsGood DEF mark_submission_uncertain, MayMarkUncertain
    <2> QED BY <1>5, <2>1, OneRowChanges DEF mark_submission_uncertain
  <1>6. ASSUME NEW j \in Jobs, NEW b \in BatchIds,
               NEW e \in {"submitting", "submission_uncertain"}, mark_submitted(j, e, b)
        PROVE  StoreInv'
    <2>1. GoodRow(SubmittedRow(rows[j], b))
      BY <1>0, <1>6, UpdatesKeepRowsGood DEF mark_submitted, MayReplace
    <2> QED BY <1>6, <2>1, OneRowChanges DEF mark_submitted
  <1>7. ASSUME NEW j \in Jobs, NEW o \in Outcomes, NEW e \in OpenStatuses,
               store_outcome(j, e, o)
        PROVE  StoreInv'
    <2>1. GoodRow(OutcomeRow(rows[j], o))
      BY <1>0, UpdatesKeepRowsGood
    <2> QED BY <1>7, <2>1, OneRowChanges DEF store_outcome
  <1> QED BY <1>1, <1>2, <1>3, <1>4, <1>5, <1>6, <1>7 DEF StoreNext

\* Whatever sequence of conditional updates the callers issue, every row of the
\* table has its types and decodes into a JobState: no reader ever meets
\* PersistenceError::InvalidJob.
THEOREM TableAlwaysDecodes == StoreSpec => [](RowsTypeOK /\ RowsDecode)
  <1>1. StoreInit => StoreInv
    BY NullIsNoValue DEF StoreInit, StoreInv, RowsTypeOK, RowsDecode, RowTypes,
       EmptyRow, Decodes, IsTerminal, OpenStatuses, OutcomeKinds
  <1> QED BY <1>1, StoreStep, PTL DEF StoreSpec, StoreInv

\* Each operation either leaves a row alone or moves it, from an open status,
\* to one of a higher rank.
LEMMA StepsAdvance ==
    ASSUME [StoreNext]_rows, NEW k \in Jobs, StoreInv, rows'[k] # rows[k]
    PROVE  Rank(rows[k].status) < Rank(rows'[k].status) /\ ~IsTerminal(rows[k])
  <1>1. PICK j \in Jobs :
            \/ enqueue(j)
            \/ \E f \in FileIds : mark_uploaded(j, f) \/ begin_submission(j, f)
            \/ mark_submission_uncertain(j)
            \/ \E b \in BatchIds, e \in {"submitting", "submission_uncertain"} :
                   mark_submitted(j, e, b)
            \/ \E o \in Outcomes, e \in OpenStatuses : store_outcome(j, e, o)
    BY DEF StoreNext
  <1> USE DEF StoreInv, RowsTypeOK, Rank, IsTerminal, OutcomeKinds, RowTypes
  <1>2. CASE enqueue(j)
    BY <1>2 DEF enqueue, EmptyRow
  <1>3. ASSUME NEW f \in FileIds, mark_uploaded(j, f)
        PROVE  Rank(rows[k].status) < Rank(rows'[k].status) /\ ~IsTerminal(rows[k])
    BY <1>3 DEF mark_uploaded, MayMarkUploaded, UploadedRow
  <1>7. ASSUME NEW f \in FileIds, begin_submission(j, f)
        PROVE  Rank(rows[k].status) < Rank(rows'[k].status) /\ ~IsTerminal(rows[k])
    BY <1>7 DEF begin_submission, MayBeginSubmission, SubmittingRow
  <1>4. CASE mark_submission_uncertain(j)
    BY <1>4 DEF mark_submission_uncertain, MayMarkUncertain, UncertainRow
  <1>5. ASSUME NEW b \in BatchIds, NEW e \in {"submitting", "submission_uncertain"},
               mark_submitted(j, e, b)
        PROVE  Rank(rows[k].status) < Rank(rows'[k].status) /\ ~IsTerminal(rows[k])
    BY <1>5 DEF mark_submitted, MayReplace, SubmittedRow
  <1>6. ASSUME NEW o \in Outcomes, NEW e \in OpenStatuses, store_outcome(j, e, o)
        PROVE  Rank(rows[k].status) < Rank(rows'[k].status) /\ ~IsTerminal(rows[k])
    BY <1>6 DEF store_outcome, MayReplace, OutcomeRow, OpenStatuses, Outcomes
  <1> QED BY <1>1, <1>2, <1>3, <1>4, <1>5, <1>6, <1>7

\* Whatever the callers do, a row only moves forward and a stored outcome is
\* never changed, replaced or removed.
THEOREM TableOnlyAdvances == StoreSpec => RowsOnlyAdvance
  <1>1. StoreInit => StoreInv
    BY NullIsNoValue DEF StoreInit, StoreInv, RowsTypeOK, RowsDecode, RowTypes,
       EmptyRow, Decodes, IsTerminal, OpenStatuses, OutcomeKinds
  <1>2. StoreInv /\ [StoreNext]_rows =>
            [\A j \in Jobs :
                rows'[j] # rows[j] => /\ Rank(rows[j].status) < Rank(rows'[j].status)
                                      /\ ~IsTerminal(rows[j])]_rows
    BY StepsAdvance
  <1> QED BY <1>1, <1>2, StoreStep, PTL DEF StoreSpec, RowsOnlyAdvance

===============================================================================
