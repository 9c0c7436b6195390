-------------------------- MODULE TransactionStore --------------------------
(***************************************************************************)
(* The tables transactions and token_transfers and the statements of       *)
(* src/db/transactions.rs on them.  save_transaction_data runs the two     *)
(* INSERTs one after the other, each committed on its own.                 *)
(*                                                                         *)
(* A row of transactions is keyed by <<address, signature>>.  The transfer *)
(* rows of one transaction are inserted by one statement under a unique    *)
(* index that covers all their columns, so they are all there or none is:  *)
(* transfers holds the keys of the transactions whose transfers are there. *)
(* The keys come from the RPC response; that it carries the signature that *)
(* was asked for is assumed of the service.                                *)
(***************************************************************************)
EXTENDS Schema

CONSTANT
    Transferring   \* the signatures whose transaction moves a token or SOL

ASSUME TransactionStoreAssumption == Transferring \subseteq Sigs

VARIABLES
    transactions,  \* keys of the rows of transactions
    transfers      \* keys whose token_transfers rows have been inserted

txVars == <<transactions, transfers>>

TxTypeOK ==
    /\ transactions \subseteq Rows
    /\ transfers \subseteq Addrs \X Transferring

TxInit ==
    /\ transactions = {}
    /\ transfers = {}

-----------------------------------------------------------------------------
\* write_transaction_info: INSERT ... ON CONFLICT (owner_address, signature) DO NOTHING.
WriteTransactionInfo(a, sigs) ==
    /\ transactions' = transactions \cup RowsOf(a, sigs)
    /\ UNCHANGED transfers

\* write_token_transfers: the transactions without transfers add no row.
WriteTokenTransfers(a, sigs) ==
    /\ transfers' = transfers \cup RowsOf(a, sigs \cap Transferring)
    /\ UNCHANGED transactions

\* Everything that is to be kept of the transaction of row <<a, s>> is there.
Saved(a, s) ==
    /\ <<a, s>> \in transactions
    /\ s \in Transferring => <<a, s>> \in transfers
=============================================================================
