------------------------------ MODULE Indexer ------------------------------
(***************************************************************************)
(* The workers of src/main.rs and the pipeline of src/indexer.rs that each *)
(* of them runs, over the tables of JobQueue, SignatureStore and           *)
(* TransactionStore and an RPC service that answers with anything.         *)
(*                                                                         *)
(* A worker is a sequential program: at names the statement or the RPC     *)
(* call it is at, and every statement and every call is a step of its own. *)
(*                                                                         *)
(*   "idle"      looking for a pending row (backing off in between)        *)
(*   "scanned"   claim: has a snapshot        "locked"  claim: has a row   *)
(*   "fetch"     asking for a page of signatures                           *)
(*   "write"     inserting the page                                        *)
(*   "lease"     taking a batch of unprocessed signatures                  *)
(*   "get"       asking for the transactions of the batch                  *)
(*   "save"      inserting transactions                                    *)
(*   "transfers" inserting token transfers                                 *)
(*   "mark"      marking the saved signatures processed                    *)
(*   "check"     the update to "ready": its snapshot                       *)
(*   "commit"    the update to "ready": its commit                         *)
(*   "fail"      the update to "error"                                     *)
(*                                                                         *)
(* What a page of signatures may hold (cutoff, cursor, tx_limit) is left   *)
(* to the service: a page is any set, and any page may be the last one.    *)
(***************************************************************************)
EXTENDS JobQueue, SignatureStore, TransactionStore

CONSTANTS
    Window,     \* the signatures between created_at - requested_hours and
                \* created_at of each job
    MaxPages,   \* bound on the pages of one synchronisation
    Instances,  \* the workers of each process of the service
    Faults      \* the kinds of fault that may happen

ASSUME IndexerAssumption ==
    /\ Window \in [JobIds -> SUBSET Sigs]
    /\ MaxPages \in Nat \ {0}
    /\ Instances \subseteq SUBSET Workers
    /\ Faults \subseteq {"rpc", "db", "lease", "crash"}

VARIABLES
    worker,  \* the local state of each worker
    synced   \* history: the signatures the synchronisation of a job inserted

vars == <<jobVars, sigVars, txVars, worker, synced>>

Labels == {"idle", "scanned", "locked", "fetch", "write", "lease", "get",
           "save", "transfers", "mark", "check", "commit", "fail"}

WorkerState ==
    [at : Labels,
     job : JobIds \cup {NoJob},  \* the claimed job
     pagesLeft : 0..MaxPages,    \* how many more pages it may read
     page : SUBSET Sigs,         \* the page it inserts
     batch : SUBSET Sigs,        \* the signatures it has leased in this round
     fetched : SUBSET Sigs]      \* those of them whose transaction it has got

Idle == [at |-> "idle", job |-> NoJob, pagesLeft |-> 0,
         page |-> {}, batch |-> {}, fetched |-> {}]

\* Type correctness of the composed system.
TypeOK ==
    /\ JobTypeOK
    /\ SigTypeOK
    /\ TxTypeOK
    /\ worker \in [Workers -> WorkerState]
    /\ synced \in [JobIds -> SUBSET Sigs]

Init ==
    /\ JobInit
    /\ SigInit
    /\ TxInit
    /\ worker = [w \in Workers |-> Idle]
    /\ synced = [j \in JobIds |-> {}]

-----------------------------------------------------------------------------
At(w, label) == worker[w].at = label

\* The address of the job that worker w works on.
Address(w) == AddressOf[worker[w].job]

Becomes(w, state) == worker' = [worker EXCEPT ![w] = state]
GoesTo(w, label) == Becomes(w, [worker[w] EXCEPT !.at = label])

\* An Err inside process_claimed_job: on to mark_job_error.
Fails(w) == Becomes(w, [Idle EXCEPT !.at = "fail", !.job = worker[w].job])

\* The local variables of the workers in S go; they poll the queue again.
Forget(S) == worker' = [w \in Workers |-> IF w \in S THEN Idle ELSE worker[w]]

\* The statement has taken effect, and the worker gets an error for a reply.
ReplyLost(w) == "db" \in Faults /\ Fails(w)

-----------------------------------------------------------------------------
(* worker_loop: claiming.                                                  *)

ClaimNone(w) ==
    /\ At(w, "idle")
    /\ Claimable = {}
    /\ UNCHANGED vars

ClaimScan(w) ==
    /\ At(w, "idle")
    /\ ScanPending(w)
    /\ GoesTo(w, "scanned")
    /\ UNCHANGED <<sigVars, txVars, synced>>

ClaimLock(w) ==
    /\ At(w, "scanned")
    /\ LockPending(w)
    /\ GoesTo(w, IF Lockable(w) = {} THEN "idle" ELSE "locked")
    /\ UNCHANGED <<sigVars, txVars, synced>>

\* A worker that does not learn what it has claimed polls again.
ClaimCommit(w) ==
    /\ At(w, "locked")
    /\ CommitClaim(w)
    /\ \/ Becomes(w, [Idle EXCEPT !.at = "fetch", !.job = rowLock[w], !.pagesLeft = MaxPages])
       \/ "db" \in Faults /\ Forget({w})
    /\ UNCHANGED <<sigVars, txVars, synced>>

-----------------------------------------------------------------------------
(* fetch_signatures: the pages of getSignaturesForAddress.                 *)

\* Mutant: one page too many.
AfterPageOffByOne(left) == IF left >= 0 THEN "fetch" ELSE "lease"

\* What follows a page, as more pages are to be read or not.
AfterPage(left) == IF left > 0 THEN "fetch" ELSE "lease"

\* The service answers with a page, the last one or not.  An empty page is not
\* written.
FetchPage(w) ==
    /\ At(w, "fetch")
    /\ \E p \in SUBSET Sigs, left \in {0, worker[w].pagesLeft - 1} :
          Becomes(w, [worker[w] EXCEPT !.at = IF p = {} THEN AfterPage(left) ELSE "write",
                                       !.page = p,
                                       !.pagesLeft = left])
    /\ UNCHANGED <<jobVars, sigVars, txVars, synced>>

WritePage(w) ==
    /\ At(w, "write")
    /\ WriteSignatures(Address(w), worker[w].page)
    /\ synced' = [synced EXCEPT ![worker[w].job] = @ \cup worker[w].page]
    /\ \/ Becomes(w, [worker[w] EXCEPT !.at = AfterPage(worker[w].pagesLeft), !.page = {}])
       \/ ReplyLost(w)
    /\ UNCHANGED <<jobVars, txVars>>

-----------------------------------------------------------------------------
(* process_unprocessed_signatures: rounds of lease, get, save and mark.    *)

\* The signatures whose rows another worker's statement, a lease or a mark of the
\* same address that has not ended, may have locked.
LockedElsewhere(w) ==
    {s \in Sigs : \E v \in Workers \ {w} :
        /\ At(v, "lease") \/ (At(v, "mark") /\ s \in worker[v].fetched)
        /\ Address(v) = Address(w)}

\* Mutant: a batch that fills the limit is taken for the last one.
LeaseEndsEarly(w) ==
    /\ At(w, "lease")
    /\ \E b \in Batches(Address(w), LockedElsewhere(w)) :
          /\ GetUnprocessedSignatures(Address(w), b)
          /\ GoesTo(w, IF Cardinality(b) <= BatchLimit THEN "check" ELSE "get")
    /\ UNCHANGED <<jobVars, txVars, synced>>

\* An empty batch ends the rounds.
Lease(w) ==
    /\ At(w, "lease")
    /\ \E b \in Batches(Address(w), LockedElsewhere(w)) :
          /\ GetUnprocessedSignatures(Address(w), b)
          /\ \/ Becomes(w, [worker[w] EXCEPT !.at = IF b = {} THEN "check" ELSE "get",
                                             !.batch = b])
             \/ ReplyLost(w)
    /\ UNCHANGED <<jobVars, txVars, synced>>

\* get_transaction: some signatures of the batch may fail.  When all do, there
\* is nothing to save nor to mark, and the errors end the rounds.
GetTransactions(w) ==
    /\ At(w, "get")
    /\ \E f \in SUBSET worker[w].batch :
          /\ f # worker[w].batch => "rpc" \in Faults
          /\ IF f = {} THEN Fails(w)
                       ELSE Becomes(w, [worker[w] EXCEPT !.at = "save", !.fetched = f])
    /\ UNCHANGED <<jobVars, sigVars, txVars, synced>>

\* Mutant: an error of the INSERT is swallowed.
SaveTransactionsUnchecked(w) ==
    /\ At(w, "save")
    /\ \/ WriteTransactionInfo(Address(w), worker[w].fetched)
       \/ "db" \in Faults /\ UNCHANGED txVars
    /\ GoesTo(w, "transfers")
    /\ UNCHANGED <<jobVars, sigVars, synced>>

SaveTransactions(w) ==
    /\ At(w, "save")
    /\ WriteTransactionInfo(Address(w), worker[w].fetched)
    /\ GoesTo(w, "transfers") \/ ReplyLost(w)
    /\ UNCHANGED <<jobVars, sigVars, synced>>

SaveTransfers(w) ==
    /\ At(w, "transfers")
    /\ WriteTokenTransfers(Address(w), worker[w].fetched)
    /\ GoesTo(w, "mark") \/ ReplyLost(w)
    /\ UNCHANGED <<jobVars, sigVars, synced>>

\* The round is over.
NextRound(w) == Becomes(w, [worker[w] EXCEPT !.at = "lease", !.batch = {}, !.fetched = {}])

\* Mutant: the whole batch is marked, failed signatures included.
MarkWholeBatch(w) ==
    /\ At(w, "mark")
    /\ MarkSignaturesProcessed(Address(w), worker[w].batch)
    /\ NextRound(w)
    /\ UNCHANGED <<jobVars, txVars, synced>>

\* The signatures whose transaction was got are processed; an error in the
\* batch then fails the job, and otherwise the next round begins.
MarkProcessed(w) ==
    /\ At(w, "mark")
    /\ MarkSignaturesProcessed(Address(w), worker[w].fetched)
    /\ \/ IF worker[w].fetched = worker[w].batch THEN NextRound(w) ELSE Fails(w)
       \/ ReplyLost(w)
    /\ UNCHANGED <<jobVars, txVars, synced>>

-----------------------------------------------------------------------------
(* process_claimed_job: how a job ends.                                    *)

\* Mutant: a signature that is leased counts as good as processed.
HasUnleased(j) ==
    \E s \in Window[j] : <<AddressOf[j], s>> \in stored \ processed /\ lease[<<AddressOf[j], s>>] = "free"

\* Some signature of the job's window is stored and not processed.
HasUnprocessed(j) == \E s \in Window[j] : <<AddressOf[j], s>> \in stored \ processed

ReadySelectsRow(w) ==
    UpdatesRow(worker[w].job, "ready", HasUnprocessed(worker[w].job))

\* Mutant: an update that selects no row is only logged.
CheckReadyForgetful(w) ==
    /\ At(w, "check")
    /\ IF ReadySelectsRow(w) THEN GoesTo(w, "commit") ELSE Forget({w})
    /\ UNCHANGED <<jobVars, sigVars, txVars, synced>>

\* The update to "ready" reads its snapshot; when it selects no row the job
\* is marked as an error.
CheckReady(w) ==
    /\ At(w, "check")
    /\ IF ReadySelectsRow(w) THEN GoesTo(w, "commit") ELSE Fails(w)
    /\ UNCHANGED <<jobVars, sigVars, txVars, synced>>

\* The worker polls again, whether or not it learns of the commit.
CommitReady(w) ==
    /\ At(w, "commit")
    /\ CommitStatus(worker[w].job, "ready")
    /\ Forget({w})
    /\ UNCHANGED <<sigVars, txVars, synced>>

\* mark_job_error; whatever the outcome the worker polls again.
MarkJobError(w) ==
    /\ At(w, "fail")
    /\ IF UpdatesRow(worker[w].job, "error", FALSE)
       THEN CommitStatus(worker[w].job, "error")
       ELSE UNCHANGED jobVars
    /\ Forget({w})
    /\ UNCHANGED <<sigVars, txVars, synced>>

-----------------------------------------------------------------------------
(* Faults.                                                                 *)

\* getSignaturesForAddress fails for good: transport, decoding, an RPC error,
\* or a rate limit that outlasts the retries.
GetSignaturesFails(w) ==
    /\ "rpc" \in Faults
    /\ At(w, "fetch")
    /\ Fails(w)
    /\ UNCHANGED <<jobVars, sigVars, txVars, synced>>

\* The database refuses a statement of the pipeline: an Err in
\* process_claimed_job, without effect.
StatementFails(w) ==
    /\ "db" \in Faults
    /\ worker[w].at \in {"write", "lease", "save", "transfers", "mark"}
    /\ Fails(w)
    /\ UNCHANGED <<jobVars, sigVars, txVars, synced>>

\* It refuses a claim or a status update: logged, and the worker polls again.
\* A job whose last update is refused stays "indexing".
JobStatementFails(w) ==
    /\ "db" \in Faults
    /\ worker[w].at \in {"scanned", "locked", "check", "commit", "fail"}
    /\ RollBack({w})
    /\ Forget({w})
    /\ UNCHANGED <<sigVars, txVars, synced>>

\* A process dies, or main returns because the API server has exited, and is
\* started again: its workers are lost in the middle of what they did.  Nothing
\* at start-up looks for the jobs and the leases they leave behind.
Crash(i) ==
    /\ "crash" \in Faults
    /\ RollBack(i)
    /\ Forget(i)
    /\ UNCHANGED <<sigVars, txVars, synced>>

\* Five minutes pass while a signature is leased.
Expire(r) ==
    /\ "lease" \in Faults
    /\ LeaseExpires(r)
    /\ UNCHANGED <<jobVars, txVars, worker, synced>>

\* A client asks for an address to be indexed.
Submit(j) ==
    /\ CreateProcessingJob(j)
    /\ UNCHANGED <<sigVars, txVars, worker, synced>>

-----------------------------------------------------------------------------
(* get_job_info, which GET /jobs/{id} answers with.  It only reads.        *)

TotalTransactions(j) == {s \in Window[j] : <<AddressOf[j], s>> \in stored}

ProcessedTransactions(j) == {s \in TotalTransactions(j) : <<AddressOf[j], s>> \in processed}

RemainingTransactions(j) ==
    Cardinality(TotalTransactions(j)) - Cardinality(ProcessedTransactions(j))

-----------------------------------------------------------------------------
WorkerStep(w) ==
    \/ ClaimNone(w) \/ ClaimScan(w) \/ ClaimLock(w) \/ ClaimCommit(w)
    \/ FetchPage(w) \/ WritePage(w)
    \/ Lease(w) \/ GetTransactions(w) \/ SaveTransactions(w) \/ SaveTransfers(w)
    \/ MarkProcessed(w)
    \/ CheckReady(w) \/ CommitReady(w) \/ MarkJobError(w)
    \/ GetSignaturesFails(w) \/ StatementFails(w) \/ JobStatementFails(w)

Next ==
    \/ \E w \in Workers : WorkerStep(w)
    \/ \E j \in JobIds : Submit(j)
    \/ \E i \in Instances : Crash(i)
    \/ \E r \in Rows : Expire(r)

Spec == Init /\ [][Next]_vars

\* Each worker is a task of its own that the runtime keeps polling, and every
\* statement and RPC call it awaits is answered in the end.
Fairness == \A w \in Workers : WF_vars(WorkerStep(w))

FairSpec == Spec /\ Fairness
=============================================================================
