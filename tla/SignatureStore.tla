--------------------------- MODULE SignatureStore ---------------------------
(***************************************************************************)
(* The table signatures and the statements of src/db/signatures.rs on it.  *)
(*                                                                         *)
(* A row is <<address, signature>>, the composite primary key.  Its        *)
(* is_processing and processing_started_at columns are a lease:            *)
(*    "free"  : is_processing = FALSE;                                     *)
(*    "held"  : taken less than five minutes ago;                          *)
(*    "stale" : taken five minutes ago or more, and taken over by whoever  *)
(*              asks next.                                                 *)
(* The row does not say who holds the lease.                               *)
(*                                                                         *)
(* Each statement is one step.  FOR UPDATE SKIP LOCKED re-evaluates every  *)
(* row that it locks, and may pass over those that a statement which has   *)
(* not ended has locked, whether that one commits or not.                  *)
(***************************************************************************)
EXTENDS Schema

CONSTANT
    BatchLimit  \* the LIMIT of a lease, 100 in the code

ASSUME SignatureStoreAssumption ==
    /\ IsFiniteSet(Sigs)
    /\ BatchLimit \in Nat \ {0}

VARIABLES
    stored,     \* rows of the table
    processed,  \* rows with is_processed = TRUE
    lease       \* the lease of each row

sigVars == <<stored, processed, lease>>

SigTypeOK ==
    /\ stored \subseteq Rows
    /\ processed \subseteq stored
    /\ lease \in [Rows -> {"free", "held", "stale"}]

SigInit ==
    /\ stored = {}
    /\ processed = {}
    /\ lease = [r \in Rows |-> "free"]

-----------------------------------------------------------------------------
\* Mutant: the lease columns are not looked at.
LeasableIgnoringLeases(a) == {s \in Sigs : <<a, s>> \in stored \ processed}

\* is_processed = FALSE AND (is_processing = FALSE OR the lease is stale)
Leasable(a) == {s \in Sigs : /\ <<a, s>> \in stored \ processed
                             /\ lease[<<a, s>>] # "held"}

\* What LIMIT and SKIP LOCKED may return: as many leasable rows as the limit
\* allows, any of them, or else all but some of the locked ones.
Batches(a, locked) ==
    {b \in SUBSET Leasable(a) :
        /\ Cardinality(b) <= BatchLimit
        /\ Leasable(a) \ locked \subseteq b \/ Cardinality(b) = BatchLimit}

\* Mutant: the conflicting row is replaced, and is unprocessed again.
WriteSignaturesUpsert(a, page) ==
    /\ stored' = stored \cup RowsOf(a, page)
    /\ processed' = processed \ RowsOf(a, page)
    /\ UNCHANGED lease

\* write_signatures: INSERT ... ON CONFLICT (owner_address, signature) DO NOTHING.
WriteSignatures(a, page) ==
    /\ stored' = stored \cup RowsOf(a, page)
    /\ UNCHANGED <<processed, lease>>

\* get_unprocessed_signatures, for the batch it returns.
GetUnprocessedSignatures(a, batch) ==
    /\ lease' = [r \in Rows |-> IF r \in RowsOf(a, batch) THEN "held" ELSE lease[r]]
    /\ UNCHANGED <<stored, processed>>

\* Mutant: only a lease that is still fresh is honoured.
MarkableWhileHeld(a, sigs) == {r \in (RowsOf(a, sigs) \cap stored) \ processed : lease[r] = "held"}

\* mark_signatures_processed: whoever holds the lease, the rows that are not
\* processed yet become processed and free.
Markable(a, sigs) == (RowsOf(a, sigs) \cap stored) \ processed

MarkSignaturesProcessed(a, sigs) ==
    /\ processed' = processed \cup Markable(a, sigs)
    /\ lease' = [r \in Rows |-> IF r \in Markable(a, sigs) THEN "free" ELSE lease[r]]
    /\ UNCHANGED stored

\* Five minutes pass since the lease of row r was taken.
LeaseExpires(r) ==
    /\ lease[r] = "held"
    /\ lease' = [lease EXCEPT ![r] = "stale"]
    /\ UNCHANGED <<stored, processed>>
=============================================================================
