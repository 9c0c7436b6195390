------------------------------ MODULE JobQueue ------------------------------
(***************************************************************************)
(* The table processing_data and the statements of src/db/jobs.rs on it.   *)
(*                                                                         *)
(* Every statement runs in a PostgreSQL transaction of its own at READ     *)
(* COMMITTED.  claim_pending_job is therefore three steps of the session   *)
(* of worker w: the snapshot its CTE reads, the row lock that FOR UPDATE   *)
(* SKIP LOCKED takes, and the commit that makes the new status visible.    *)
(*                                                                         *)
(* A job identifier is the rank of the row in created_at order.  Rows may  *)
(* appear in any order: created_at is taken when the INSERT starts, the    *)
(* row is visible when it commits.                                         *)
(***************************************************************************)
EXTENDS Schema

CONSTANTS
    Workers,    \* the sessions that claim: one per worker task
    JobIds,     \* identifiers of the jobs that may ever be created
    AddressOf,  \* the address a job is created for
    NoJob       \* "no row": not an identifier

ASSUME JobQueueAssumption ==
    /\ JobIds \subseteq Nat
    /\ AddressOf \in [JobIds -> Addrs]
    /\ NoJob \notin JobIds

VARIABLES
    status,      \* committed processing_data.status, "absent" before the INSERT
    candidates,  \* per session: the rows the CTE's snapshot qualifies
    rowLock      \* per session: the row it has locked and not yet committed

jobVars == <<status, candidates, rowLock>>

Statuses == {"absent", "pending", "indexing", "ready", "error"}

JobTypeOK ==
    /\ status \in [JobIds -> Statuses]
    /\ candidates \in [Workers -> SUBSET JobIds]
    /\ rowLock \in [Workers -> JobIds \cup {NoJob}]

JobInit ==
    /\ status = [j \in JobIds |-> "absent"]
    /\ candidates = [w \in Workers |-> {}]
    /\ rowLock = [w \in Workers |-> NoJob]

-----------------------------------------------------------------------------
SameAddress(j, k) == AddressOf[j] = AddressOf[k]

\* Mutant: the NOT EXISTS test is left out of the claim.
AnyPending == {j \in JobIds : status[j] = "pending"}

\* Mutant: the NOT EXISTS test forgets the address.
ClaimableIfNoneActive == {j \in JobIds : /\ status[j] = "pending"
                                         /\ \A k \in JobIds : status[k] # "indexing"}

\* WHERE status = 'pending' AND NOT EXISTS (an 'indexing' row of the address).
Claimable == {j \in JobIds : /\ status[j] = "pending"
                             /\ \A k \in JobIds : SameAddress(j, k) => status[k] # "indexing"}

\* Mutant: FOR UPDATE SKIP LOCKED is left out, so that nothing keeps two
\* sessions from picking the same row.
LockableUnlocked(w) == candidates[w]

\* FOR UPDATE SKIP LOCKED: of the rows the snapshot qualified, those no other
\* session has locked and whose newest version still is pending (READ
\* COMMITTED re-evaluates the row it locks, not the NOT EXISTS beside it).
Lockable(w) == {j \in candidates[w] : /\ status[j] = "pending"
                                      /\ \A v \in Workers : rowLock[v] # j}

\* ORDER BY created_at ASC LIMIT 1
IsOldest(j, S) == j \in S /\ \A k \in S : j <= k

-----------------------------------------------------------------------------
\* create_processing_job: POST /address_processing inserts a pending row.
CreateProcessingJob(j) ==
    /\ status[j] = "absent"
    /\ status' = [status EXCEPT ![j] = "pending"]
    /\ UNCHANGED <<candidates, rowLock>>

\* claim_pending_job, first step: the snapshot qualifies some row.
ScanPending(w) ==
    /\ Claimable # {}
    /\ candidates' = [candidates EXCEPT ![w] = Claimable]
    /\ UNCHANGED <<status, rowLock>>

\* claim_pending_job, second step: lock the oldest row that can be locked; a
\* session that finds none ends its statement with no row.
LockPending(w) ==
    /\ \E j \in JobIds \cup {NoJob} :
          /\ IF Lockable(w) = {} THEN j = NoJob ELSE IsOldest(j, Lockable(w))
          /\ rowLock' = [rowLock EXCEPT ![w] = j]
    /\ candidates' = [candidates EXCEPT ![w] = {}]
    /\ UNCHANGED status

\* claim_pending_job, last step: UPDATE ... SET status = 'indexing' commits.
CommitClaim(w) ==
    /\ rowLock[w] # NoJob
    /\ status' = [status EXCEPT ![rowLock[w]] = "indexing"]
    /\ rowLock' = [rowLock EXCEPT ![w] = NoJob]
    /\ UNCHANGED candidates

\* A session in S that dies gives up its snapshot and its uncommitted locks.
RollBack(S) ==
    /\ candidates' = [w \in Workers |-> IF w \in S THEN {} ELSE candidates[w]]
    /\ rowLock' = [w \in Workers |-> IF w \in S THEN NoJob ELSE rowLock[w]]
    /\ UNCHANGED status

\* Mutant: the NOT EXISTS over unprocessed signatures is left out.
UpdatesRowUnguarded(j, new, blocked) == status[j] = "indexing"

\* update_processing_status_by_job_id: does its WHERE clause select the row?
\* blocked stands for the EXISTS (...) over the signatures of the window.
UpdatesRow(j, new, blocked) ==
    /\ status[j] = "indexing"
    /\ new = "ready" => ~blocked

\* update_processing_status_by_job_id: the new status is visible.
CommitStatus(j, new) ==
    /\ status' = [status EXCEPT ![j] = new]
    /\ UNCHANGED <<candidates, rowLock>>
=============================================================================
