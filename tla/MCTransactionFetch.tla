------------------------- MODULE MCTransactionFetch -------------------------
(***************************************************************************)
(* Values of the constants of TransactionFetch for TLC: batches that end   *)
(* with a full chunk, with a short one, and with less than a chunk.        *)
(***************************************************************************)
EXTENDS TransactionFetch

CONSTANTS s1, s2, s3, s4, s5, s6, s7, s8, s9

Leased == <<s1, s2, s3, s4, s5, s6, s7, s8, s9>>

LeasedBatches == {SubSeq(Leased, 1, n) : n \in {1, 3, 4, 6, 8, 9}}
=============================================================================
