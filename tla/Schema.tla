------------------------------- MODULE Schema -------------------------------
(***************************************************************************)
(* What the tables share: tracked addresses, transaction signatures, and   *)
(* the composite key <<address, signature>> of signatures and              *)
(* transactions (migrations/20260506163300_signatures_composite_pk.sql).   *)
(***************************************************************************)
EXTENDS Naturals, FiniteSets

CONSTANTS
    Addrs,  \* tracked addresses
    Sigs    \* transaction signatures

Rows == Addrs \X Sigs

\* The rows of address a for the signatures of S.
RowsOf(a, S) == {a} \X S
=============================================================================
