----------------------------- MODULE BatchFetch -----------------------------
(***************************************************************************)
(* What HeliusApi::get_transaction promises the pipeline: every signature  *)
(* of the batch ends up either with its transaction or as an error, once   *)
(* and for good, and the call returns when all of them have.               *)
(*                                                                         *)
(* GetTransactions of Indexer takes the whole of it as one step.           *)
(***************************************************************************)
CONSTANT Sigs  \* transaction signatures

VARIABLES
    waiting,   \* signatures of the batch without an outcome
    got,       \* signatures whose transaction is part of the result
    lost,      \* signatures that are part of the result as an error
    returned   \* whether the call has returned

vars == <<waiting, got, lost, returned>>

Init ==
    /\ waiting \in SUBSET Sigs
    /\ got = {}
    /\ lost = {}
    /\ returned = FALSE

\* Some signatures get their outcome.
Settle ==
    /\ ~returned
    /\ \E S \in SUBSET waiting : \E G \in SUBSET S :
          /\ waiting' = waiting \ S
          /\ got' = got \cup G
          /\ lost' = lost \cup (S \ G)
    /\ UNCHANGED returned

Return ==
    /\ waiting = {}
    /\ returned' = TRUE
    /\ UNCHANGED <<waiting, got, lost>>

Next == Settle \/ Return

Spec == Init /\ [][Next]_vars
=============================================================================
