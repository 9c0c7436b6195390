------------------------- MODULE IndexerProperties -------------------------
(***************************************************************************)
(* What makes the indexer correct, and the invariant that the proofs of    *)
(* IndexerProofs rest on.                                                  *)
(***************************************************************************)
EXTENDS Indexer

\* A signature is marked processed only when its transaction and every token
\* transfer of it are in the database: whatever fails between the statements
\* of process_unprocessed_signatures, and whoever else works on the same row.
ProcessedImpliesSaved == \A r \in processed : Saved(r[1], r[2])

\* A token transfer is never there without the transaction it belongs to,
\* although save_transaction_data commits the two tables one after the other.
TransfersHaveTransaction == transfers \subseteq transactions

\* No two workers process the same job: claim_pending_job hands out a row once.
JobHeldByOne ==
    \A v, w \in Workers : v # w /\ worker[v].job # NoJob => worker[v].job # worker[w].job

\* "ready" is a promise that the job's own synchronisation is complete: every
\* signature it stored within the job's window is processed, with its data.
ReadyIsComplete ==
    \A j \in JobIds : status[j] = "ready" =>
        \A s \in synced[j] \cap Window[j] :
            <<AddressOf[j], s>> \in processed /\ Saved(AddressOf[j], s)

\* While some worker fetches an unprocessed signature, get_unprocessed_signatures
\* gives it to another one only after the five minutes of the lease.
LeaseExclusive ==
    [][\A v, w \in Workers : v # w =>
          \A s \in (worker'[w].batch \ worker[w].batch) \cap worker[v].batch :
              Address(v) = Address(w) => lease[<<Address(v), s>>] = "stale"]_vars

\* Without crashes and database errors every "indexing" job is in the hands of
\* a worker: each way out of process_claimed_job settles it.
IndexingHasWorker ==
    \A j \in JobIds : status[j] = "indexing" => \E w \in Workers : worker[w].job = j

\* Without faults a job ends in "error" only on account of another job of its
\* address that was claimed too: two of them share the leases of the address.
ErrorHasRival ==
    \A j \in JobIds : status[j] = "error" =>
        \E k \in JobIds \ {j} : SameAddress(j, k) /\ status[k] \notin {"absent", "pending"}

\* Without faults no unprocessed signature stays leased with nobody at work on
\* it: it would be out of reach for five minutes.
LeaseHasWorker ==
    \A a \in Addrs, s \in Sigs :
        <<a, s>> \in stored \ processed /\ lease[<<a, s>>] # "free" =>
            \E w \in Workers : s \in worker[w].batch /\ Address(w) = a

\* The claim query means to keep the jobs of one address apart.
OneActiveJobPerAddress ==
    \A j, k \in JobIds :
        status[j] = "indexing" /\ status[k] = "indexing" /\ SameAddress(j, k) => j = k

\* The indexer implements the service it stands for: a row is complete when it
\* is processed and its data is there.
Service == INSTANCE IndexingService WITH
    state <- status,
    known <- stored,
    complete <- {r \in processed : Saved(r[1], r[2])},
    contribution <- synced

\* Every step of the workers, of a fault or of a client is one step of the
\* service or none: no job is settled twice or unstarted, no signature is lost
\* or completed in halves, "ready" is not premature.
ImplementsService == Service!Spec

\* Every job that a client submits is settled: with the RPC service failing and
\* leases expiring, but as long as no worker dies and no statement fails.
EveryJobSettles ==
    \A j \in JobIds : status[j] = "pending" ~> status[j] \in {"ready", "error"}

\* A job that is "indexing" with no worker at work on it: its last update was
\* refused, the reply to its claim was lost, or its process has died.
Stranded(k) == status[k] = "indexing" /\ \A w \in Workers : worker[w].job # k

\* From some time on no process dies and no statement on a job is refused.
FaultsCease ==
    <>[][/\ \A w \in Workers : ~JobStatementFails(w)
         /\ \A i \in Instances : ~Crash(i)]_vars

\* Nothing at start-up looks for stranded jobs, and claim_pending_job passes over
\* the jobs of their addresses.  That is all the harm they do: once the faults
\* cease every job is settled, unless a job of its own address is stranded.
OnlyStrandedBlock ==
    FaultsCease => \A j \in JobIds :
        status[j] = "pending" ~>
            \/ status[j] \in {"ready", "error"}
            \/ \E k \in JobIds : SameAddress(j, k) /\ Stranded(k)

\* What GET /jobs/{id} says: a "ready" job with transactions that remain is due to
\* another job of its address, which has found what this one had not.
ReadyHasNothingRemaining ==
    \A j \in JobIds : status[j] = "ready" /\ RemainingTransactions(j) > 0 =>
        \E k \in JobIds \ {j} :
            SameAddress(j, k) /\ ~(synced[k] \cap Window[j] \subseteq synced[j])

-----------------------------------------------------------------------------
(* The inductive invariant: what is true of the tables and of a worker at  *)
(* each of its labels.                                                     *)

\* A worker has a job from the claim's commit until the job is settled.
HasJobWhileWorking ==
    \A w \in Workers :
        worker[w].job = NoJob <=> worker[w].at \in {"idle", "scanned", "locked"}

\* A page is asked for only while one more may be read.
PagesLeftOK == \A w \in Workers : worker[w].at = "fetch" => worker[w].pagesLeft > 0

\* A row lock is on a pending row, one session has it, and that session is
\* about to commit.
RowLocksOK ==
    \A w \in Workers : rowLock[w] # NoJob =>
        /\ worker[w].at = "locked"
        /\ status[rowLock[w]] = "pending"
        /\ \A v \in Workers : v # w => rowLock[v] # rowLock[w]

\* A worker that process_claimed_job runs in works on a job that is "indexing":
\* no other worker, restart or repeated update settles it meanwhile.
HeldJobIsIndexing ==
    \A w \in Workers : worker[w].job # NoJob => status[worker[w].job] = "indexing"

\* A worker holds a batch only in the middle of a round.
BatchInRoundOnly ==
    \A w \in Workers :
        worker[w].at \notin {"get", "save", "transfers", "mark"} => worker[w].batch = {}

\* What a worker has leased is stored, and it stays leased until it is
\* processed, whoever processes it.
BatchIsLeased ==
    \A w \in Workers : \A s \in worker[w].batch :
        /\ worker[w].job # NoJob
        /\ <<Address(w), s>> \in stored
        /\ <<Address(w), s>> \notin processed => lease[<<Address(w), s>>] # "free"

\* The statements of a round come one after the other: what the next one
\* counts on has been done by the previous one.
SavedSoFar ==
    \A w \in Workers : \A s \in worker[w].fetched :
        /\ s \in worker[w].batch
        /\ worker[w].at = "transfers" => <<Address(w), s>> \in transactions
        /\ worker[w].at = "mark" => Saved(Address(w), s)

\* Signatures are never deleted: what a job has inserted stays.
SyncedIsStored == \A j \in JobIds : \A s \in synced[j] : <<AddressOf[j], s>> \in stored

\* Between the snapshot of the update to "ready" and its commit, the job's own
\* contribution cannot change.
CheckedIsComplete ==
    \A w \in Workers : worker[w].at = "commit" =>
        \A s \in synced[worker[w].job] \cap Window[worker[w].job] : <<Address(w), s>> \in processed

IndInv ==
    /\ TypeOK
    /\ HasJobWhileWorking
    /\ PagesLeftOK
    /\ RowLocksOK
    /\ JobHeldByOne
    /\ HeldJobIsIndexing
    /\ BatchInRoundOnly
    /\ BatchIsLeased
    /\ SavedSoFar
    /\ ProcessedImpliesSaved
    /\ TransfersHaveTransaction
    /\ SyncedIsStored
    /\ CheckedIsComplete
    /\ ReadyIsComplete

-----------------------------------------------------------------------------
(* What is inductive besides, of all signatures, of a single worker, and   *)
(* without faults.                                                         *)

\* Every signature was stored by some job of its address.
StoredIsSynced ==
    \A r \in stored : \E j \in JobIds : AddressOf[j] = r[1] /\ r[2] \in synced[j]

\* No job of the address of j is "indexing".
NoneActive(j) == \A k \in JobIds : SameAddress(j, k) => status[k] # "indexing"

\* What a single worker is about to claim is still as its snapshot found it.
ClaimIsCurrent ==
    \A w \in Workers :
        /\ At(w, "scanned") => \A j \in candidates[w] : NoneActive(j)
        /\ rowLock[w] # NoJob => NoneActive(rowLock[w])

\* Another job of the address of j has been claimed.
HasRival(j) ==
    \E k \in JobIds \ {j} : SameAddress(j, k) /\ status[k] \notin {"absent", "pending"}

\* Only rows of the table are leased.
LeasedIsStored == \A r \in Rows : lease[r] # "free" => r \in stored

\* A round is about some signatures, and succeeds for all of them.
WholeBatch ==
    \A w \in Workers :
        /\ At(w, "get") => worker[w].batch # {}
        /\ worker[w].at \in {"save", "transfers", "mark"} => worker[w].fetched = worker[w].batch

\* After its last lease a job finds something unprocessed only if it has a rival.
BlockedHasRival ==
    \A w \in Workers :
        /\ At(w, "check") /\ (\E s \in Sigs : <<Address(w), s>> \in stored \ processed)
              => HasRival(worker[w].job)
        /\ At(w, "fail") => HasRival(worker[w].job)

CalmInv == LeasedIsStored /\ WholeBatch /\ LeaseHasWorker /\ BlockedHasRival /\ ErrorHasRival
=============================================================================
