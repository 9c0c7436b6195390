-------------------------- MODULE IndexingService --------------------------
(***************************************************************************)
(* What the indexer promises whoever submits addresses and reads tables,   *)
(* without workers, leases, statements or faults:                          *)
(*   - a job goes from submitted to started to settled, and stays settled; *)
(*   - signatures become known, and known ones become complete (processed, *)
(*     with all their data) only while a job of their address is started,  *)
(*     and neither is ever undone;                                         *)
(*   - a job that settles as "ready" has completed all that it contributed *)
(*     to the known signatures of its window.                              *)
(***************************************************************************)
CONSTANTS Addrs, Sigs, JobIds, AddressOf, Window

VARIABLES
    state,        \* "absent", "pending", "indexing", "ready" or "error"
    known,        \* rows <<address, signature>> that have been discovered
    complete,     \* rows whose data is in the database
    contribution  \* per job: the signatures that it has discovered

vars == <<state, known, complete, contribution>>

Init ==
    /\ state = [j \in JobIds |-> "absent"]
    /\ known = {}
    /\ complete = {}
    /\ contribution = [j \in JobIds |-> {}]

-----------------------------------------------------------------------------
Move(j, from, to) ==
    /\ state[j] = from
    /\ state' = [state EXCEPT ![j] = to]
    /\ UNCHANGED <<known, complete, contribution>>

Submit(j) == Move(j, "absent", "pending")
Start(j) == Move(j, "pending", "indexing")
GiveUp(j) == Move(j, "indexing", "error")

Finish(j) ==
    /\ {AddressOf[j]} \X (contribution[j] \cap Window[j]) \subseteq complete
    /\ Move(j, "indexing", "ready")

\* A started job learns of the signatures in S.
Discover(j, S) ==
    /\ state[j] = "indexing"
    /\ known' = known \cup ({AddressOf[j]} \X S)
    /\ contribution' = [contribution EXCEPT ![j] = @ \cup S]
    /\ UNCHANGED <<state, complete>>

\* A started job completes known signatures of its address, whoever found them.
Complete(j, S) ==
    /\ state[j] = "indexing"
    /\ {AddressOf[j]} \X S \subseteq known
    /\ complete' = complete \cup ({AddressOf[j]} \X S)
    /\ UNCHANGED <<state, known, contribution>>

Next ==
    \E j \in JobIds :
        \/ Submit(j) \/ Start(j) \/ GiveUp(j) \/ Finish(j)
        \/ \E S \in SUBSET Sigs : Discover(j, S) \/ Complete(j, S)

Spec == Init /\ [][Next]_vars
=============================================================================
