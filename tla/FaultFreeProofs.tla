-------------------------- MODULE FaultFreeProofs --------------------------
(***************************************************************************)
(* Proofs about what GET /jobs/{id} reports, and about what the indexer    *)
(* promises with fewer faults or with a single worker, for every value of  *)
(* the other constants.                                                    *)
(***************************************************************************)
EXTENDS IndexerProofs, FiniteSetTheorems

(***************************************************************************)
(* What remains of a "ready" job.                                          *)
(***************************************************************************)

\* No step takes anything back of what a job has synchronised.
LEMMA SyncedGrows ==
    ASSUME IndInv, [Next]_vars, NEW j \in JobIds
    PROVE  synced[j] \subseteq synced'[j]
  <1>1. TypeOK /\ HasJobWhileWorking /\ synced \in [JobIds -> SUBSET Sigs]
    BY DEF IndInv, TypeOK
  <1>2. ASSUME NEW w \in Workers, worker[w].job \in JobIds,
               synced' = [synced EXCEPT ![worker[w].job] = @ \cup worker[w].page]
        PROVE  synced[j] \subseteq synced'[j]
    BY <1>1, <1>2
  <1> QED
    BY <1>1, <1>2, SyncedSteps

\* A row is stored by the job whose page it is of.
LEMMA StoredNext ==
    ASSUME IndInv, StoredIsSynced, [Next]_vars
    PROVE  StoredIsSynced'
  <1>1. /\ TypeOK /\ HasJobWhileWorking /\ synced \in [JobIds -> SUBSET Sigs]
        /\ \A w \in Workers : worker[w] \in WorkerState
    BY DEF IndInv, TypeOK
  <1>2. ASSUME stored' = stored PROVE StoredIsSynced'
    BY <1>2, SyncedGrows DEF StoredIsSynced
  <1>3. ASSUME NEW w \in Workers, WritePage(w) PROVE StoredIsSynced'
    <2>1. worker[w].job \in JobIds
      BY <1>1, <1>3 DEF WritePage, At, HasJobWhileWorking, WorkerState
    <2>2. /\ stored' = stored \cup RowsOf(AddressOf[worker[w].job], worker[w].page)
          /\ synced'[worker[w].job] = synced[worker[w].job] \cup worker[w].page
      BY <1>1, <1>3, <2>1 DEF WritePage, WriteSignatures, Address
    <2>3. ASSUME NEW r \in RowsOf(AddressOf[worker[w].job], worker[w].page)
          PROVE  AddressOf[worker[w].job] = r[1] /\ r[2] \in synced'[worker[w].job]
      BY <2>2 DEF RowsOf
    <2>4. ASSUME NEW r \in stored'
          PROVE  \E j \in JobIds : AddressOf[j] = r[1] /\ r[2] \in synced'[j]
      <3>1. CASE r \in stored
        BY <3>1, SyncedGrows DEF StoredIsSynced
      <3>2. CASE r \in RowsOf(AddressOf[worker[w].job], worker[w].page)
        BY <2>1, <2>3, <3>2
      <3> QED
        BY <2>2, <3>1, <3>2
    <2> QED
      BY <2>4 DEF StoredIsSynced
  <1>4. SignatureStep => (\E w \in Workers : WritePage(w)) \/ stored' = stored
    BY DEF SignatureStep, Lease, GetUnprocessedSignatures, MarkProcessed,
           MarkSignaturesProcessed, Expire, LeaseExpires
  <1> QED
    BY <1>2, <1>3, <1>4, Footprint DEF sigVars

\* When no other job has found more in the window of a "ready" job, everything in
\* the window is processed.
LEMMA NothingRemains ==
    ASSUME IndInv, StoredIsSynced, NEW j \in JobIds, status[j] = "ready",
           \A k \in JobIds \ {j} : SameAddress(j, k) => synced[k] \cap Window[j] \subseteq synced[j]
    PROVE  RemainingTransactions(j) = 0
  <1>1. ASSUME NEW s \in TotalTransactions(j) PROVE s \in ProcessedTransactions(j)
    <2>1. s \in Window[j] /\ <<AddressOf[j], s>> \in stored
      BY DEF TotalTransactions
    <2>2. PICK k \in JobIds : AddressOf[k] = AddressOf[j] /\ s \in synced[k]
      BY <2>1 DEF StoredIsSynced
    <2>3. s \in synced[j]
      BY <2>1, <2>2 DEF SameAddress
    <2>4. <<AddressOf[j], s>> \in processed
      BY <2>1, <2>3 DEF IndInv, ReadyIsComplete
    <2> QED
      BY <2>4 DEF ProcessedTransactions
  <1>2. ProcessedTransactions(j) = TotalTransactions(j)
    BY <1>1 DEF ProcessedTransactions
  <1>3. TotalTransactions(j) \subseteq Sigs
    BY IndexerAssumption DEF TotalTransactions
  <1>4. Cardinality(TotalTransactions(j)) \in Nat
    BY <1>3, SignatureStoreAssumption, FS_Subset, FS_CardinalityType
  <1> QED
    BY <1>2, <1>4 DEF RemainingTransactions

\* get_job_info reports a "ready" job with transactions that remain only on account
\* of another job of the address, whatever faults happen.
THEOREM ReadyIsReportedComplete == Spec => []ReadyHasNothingRemaining
  <1>1. Init => StoredIsSynced
    BY DEF Init, SigInit, StoredIsSynced
  <1>2. IndInv /\ StoredIsSynced /\ [Next]_vars => StoredIsSynced'
    BY StoredNext
  <1>3. IndInv /\ StoredIsSynced => ReadyHasNothingRemaining
    <2> SUFFICES ASSUME IndInv, StoredIsSynced, NEW j \in JobIds, status[j] = "ready",
                        RemainingTransactions(j) > 0,
                        \A k \in JobIds \ {j} :
                           SameAddress(j, k) => synced[k] \cap Window[j] \subseteq synced[j]
                 PROVE  FALSE
      BY DEF ReadyHasNothingRemaining
    <2> QED
      BY NothingRemains
  <1> QED
    BY <1>1, <1>2, <1>3, Invariance, PTL DEF Spec

(***************************************************************************)
(* Without database errors and crashes.                                    *)
(***************************************************************************)

\* A worker is rid of its job in the commit that settles it, and not before.
LEMMA JobIsKept ==
    ASSUME IndInv, "db" \notin Faults, NEW w \in Workers, WorkerStep(w), worker[w].job # NoJob
    PROVE  worker'[w].job = worker[w].job \/ CommitReady(w) \/ MarkJobError(w)
  <1>1. /\ TypeOK /\ HasJobWhileWorking /\ PagesLeftOK /\ WorkersTypeOK
        /\ worker[w].at \notin {"idle", "scanned", "locked"}
    BY DEF IndInv, TypeOK, WorkersTypeOK, HasJobWhileWorking
  <1>2. ~ClaimCommit(w) /\ ~JobStatementFails(w) /\ ~ClaimNone(w) /\ ~ClaimScan(w) /\ ~ClaimLock(w)
    BY <1>1 DEF ClaimCommit, JobStatementFails, ClaimNone, ClaimScan, ClaimLock, At
  <1>3. CASE FetchPage(w) \/ WritePage(w) \/ GetTransactions(w) \/ MarkProcessed(w)
    BY <1>1, <1>3, FetchPageFields, WritePageFields, GetTransactionsFields, MarkProcessedFields
  <1>4. CASE Lease(w)
    <2>1. PICK b \in Batches(Address(w), LockedElsewhere(w)) :
            \/ Becomes(w, [worker[w] EXCEPT !.at = IF b = {} THEN "check" ELSE "get", !.batch = b])
            \/ ReplyLost(w)
      BY <1>4 DEF Lease
    <2>2. b \in SUBSET Sigs
      BY DEF Batches, Leasable
    <2> QED
      BY <1>1, <2>1, <2>2, LeaseFields
  <1>5. CASE SaveTransactions(w) \/ SaveTransfers(w) \/ CheckReady(w)
             \/ GetSignaturesFails(w) \/ StatementFails(w)
    <2>1. Fails(w) \/ \E l \in Labels : GoesTo(w, l)
      BY <1>5 DEF SaveTransactions, SaveTransfers, CheckReady, GetSignaturesFails,
                  StatementFails, ReplyLost, Labels
    <2> QED
      BY <1>1, <2>1, FailsFields, GoesToFields
  <1> QED
    BY <1>2, <1>3, <1>4, <1>5 DEF WorkerStep

\* The status of a job changes when a client submits it, when a claim commits and
\* when it is settled.
LEMMA StatusSteps ==
    ASSUME IndInv, [Next]_vars, NEW j \in JobIds, status'[j] # status[j]
    PROVE  \/ status[j] = "absent" /\ status'[j] = "pending"
           \/ \E w \in Workers : ClaimCommit(w) /\ rowLock[w] = j /\ status'[j] = "indexing"
           \/ \E w \in Workers : CommitReady(w) /\ worker[w].job = j /\ status'[j] = "ready"
           \/ \E w \in Workers : MarkJobError(w) /\ worker[w].job = j /\ status'[j] = "error"
  <1>1. status \in [JobIds -> Statuses] /\ QueueStep
    BY Footprint DEF IndInv, TypeOK, JobTypeOK, jobVars
  <1>2. ASSUME NEW w \in Workers,
               ClaimScan(w) \/ ClaimLock(w) \/ JobStatementFails(w)
        PROVE  status' = status
    BY <1>2 DEF ClaimScan, ScanPending, ClaimLock, LockPending, JobStatementFails, RollBack
  <1>3. ASSUME NEW w \in Workers, ClaimCommit(w)
        PROVE  rowLock[w] = j /\ status'[j] = "indexing"
    BY <1>1, <1>3 DEF ClaimCommit, CommitClaim
  <1>4. ASSUME NEW w \in Workers, CommitReady(w)
        PROVE  worker[w].job = j /\ status'[j] = "ready"
    BY <1>1, <1>4 DEF CommitReady, CommitStatus
  <1>5. ASSUME NEW w \in Workers, MarkJobError(w)
        PROVE  worker[w].job = j /\ status'[j] = "error"
    BY <1>1, <1>5 DEF MarkJobError, CommitStatus, jobVars
  <1>6. ASSUME NEW k \in JobIds, Submit(k) PROVE status[j] = "absent" /\ status'[j] = "pending"
    BY <1>1, <1>6 DEF Submit, CreateProcessingJob
  <1>7. ASSUME NEW i \in Instances, Crash(i) PROVE status' = status
    BY <1>7 DEF Crash, RollBack
  <1> QED
    BY <1>1, <1>2, <1>3, <1>4, <1>5, <1>6, <1>7 DEF QueueStep

\* An "indexing" job keeps its worker until it is settled.
LEMMA IndexingNext ==
    ASSUME "db" \notin Faults, "crash" \notin Faults,
           IndInv, IndexingHasWorker, [Next]_vars
    PROVE  IndexingHasWorker'
  <1> SUFFICES ASSUME NEW j \in JobIds, status'[j] = "indexing"
               PROVE  \E w \in Workers : worker'[w].job = j
    BY DEF IndexingHasWorker
  <1>0. /\ TypeOK /\ PagesLeftOK /\ HasJobWhileWorking /\ WorkersTypeOK
        /\ status \in [JobIds -> Statuses] /\ j # NoJob
    BY JobQueueAssumption DEF IndInv, TypeOK, WorkersTypeOK, JobTypeOK
  <1>1. CASE status[j] # "indexing"
    <2>1. PICK w \in Workers : ClaimCommit(w) /\ rowLock[w] = j
      BY <1>1, StatusSteps
    <2>2. Becomes(w, [Idle EXCEPT !.at = "fetch", !.job = rowLock[w], !.pagesLeft = MaxPages])
      BY <2>1 DEF ClaimCommit
    <2>3. worker'[w].job = rowLock[w]
      <3>1. worker'[w] = [Idle EXCEPT !.at = "fetch", !.job = rowLock[w], !.pagesLeft = MaxPages]
        BY <1>0, <2>2 DEF Becomes, WorkersTypeOK
      <3> QED
        BY <3>1 DEF Idle
    <2> QED
      BY <2>1, <2>3
  <1>2. CASE status[j] = "indexing"
    <2>1. PICK w \in Workers : worker[w].job = j
      BY <1>2 DEF IndexingHasWorker
    <2>2. CASE UNCHANGED worker
      BY <2>1, <2>2
    <2>3. CASE WorkerStep(w)
      <3>1. ~CommitReady(w)
        BY <1>0, <2>1 DEF CommitReady, CommitStatus
      <3>2. ~MarkJobError(w)
        BY <1>0, <1>2, <2>1 DEF MarkJobError, UpdatesRow, CommitStatus
      <3> QED
        BY <1>0, <2>1, <2>3, <3>1, <3>2, JobIsKept
    <2>4. CASE \E v \in Workers : v # w /\ WorkerStep(v)
      BY <1>0, <2>1, <2>4, WorkerFrame
    <2> QED
      BY <2>2, <2>3, <2>4 DEF Next, vars, Submit, Expire, Crash
  <1> QED
    BY <1>1, <1>2

\* As long as no statement fails and no process dies, every "indexing" job is in
\* the hands of a worker: each way through process_claimed_job settles it.
THEOREM IndexingIsHeld ==
    ASSUME "db" \notin Faults, "crash" \notin Faults
    PROVE  Spec => []IndexingHasWorker
  <1>1. Init => IndexingHasWorker
    BY DEF Init, JobInit, IndexingHasWorker
  <1>2. IndInv /\ IndexingHasWorker /\ [Next]_vars => IndexingHasWorker'
    BY IndexingNext
  <1> QED
    BY <1>1, <1>2, Invariance, PTL DEF Spec

(***************************************************************************)
(* A single worker.                                                        *)
(***************************************************************************)

\* A worker has a snapshot only from the scan it has just done.
LEMMA ScannedLabel ==
    ASSUME IndInv, NEW w \in Workers, WorkerStep(w), worker'[w].at = "scanned"
    PROVE  ClaimScan(w)
  <1>1. TypeOK /\ PagesLeftOK /\ WorkersTypeOK
    BY DEF IndInv, TypeOK, WorkersTypeOK
  <1>2. ~Fails(w) /\ ~Forget({w})
    BY <1>1, FailsFields, ForgetFields
  <1>3. \A l \in Labels : GoesTo(w, l) => l = "scanned"
    BY <1>1, GoesToFields
  <1>4. ~ClaimCommit(w) /\ ~FetchPage(w) /\ ~WritePage(w) /\ ~GetTransactions(w) /\ ~MarkProcessed(w)
    BY <1>1, ClaimCommitFields, FetchPageFields, WritePageFields, GetTransactionsFields,
       MarkProcessedFields
  <1>5. ~Lease(w)
    <2> SUFFICES ASSUME Lease(w) PROVE FALSE
      OBVIOUS
    <2>1. PICK b \in Batches(Address(w), LockedElsewhere(w)) :
            \/ Becomes(w, [worker[w] EXCEPT !.at = IF b = {} THEN "check" ELSE "get", !.batch = b])
            \/ ReplyLost(w)
      BY DEF Lease
    <2>2. b \in SUBSET Sigs
      BY DEF Batches, Leasable
    <2> QED
      BY <1>1, <2>1, <2>2, LeaseFields
  <1>6. ~ClaimLock(w) /\ ~CheckReady(w) /\ ~SaveTransactions(w) /\ ~SaveTransfers(w)
    BY <1>2, <1>3 DEF ClaimLock, CheckReady, SaveTransactions, SaveTransfers, ReplyLost, Labels
  <1>7. ~ClaimNone(w)
    BY DEF ClaimNone, At, vars
  <1> QED
    BY <1>2, <1>4, <1>5, <1>6, <1>7
       DEF WorkerStep, CommitReady, MarkJobError, JobStatementFails, GetSignaturesFails,
           StatementFails

\* With a single worker nothing comes between the snapshot of a claim and its
\* commit.
LEMMA ClaimNext ==
    ASSUME \A v, w \in Workers : v = w,
           IndInv, ClaimIsCurrent, [Next]_vars
    PROVE  ClaimIsCurrent'
  <1> SUFFICES ASSUME NEW w \in Workers
               PROVE  /\ worker'[w].at = "scanned" => \A j \in candidates'[w] : NoneActive(j)'
                      /\ rowLock'[w] # NoJob => NoneActive(rowLock[w])'
    BY DEF ClaimIsCurrent, At, NoneActive
  <1>0. /\ TypeOK /\ PagesLeftOK /\ RowLocksOK /\ WorkersTypeOK
        /\ status \in [JobIds -> Statuses] /\ rowLock \in [Workers -> JobIds \cup {NoJob}]
        /\ candidates \in [Workers -> SUBSET JobIds]
    BY DEF IndInv, TypeOK, WorkersTypeOK, JobTypeOK
  <1>1. ASSUME ClaimCommit(w)
        PROVE  worker'[w].at # "scanned" /\ rowLock'[w] = NoJob
    BY <1>0, <1>1, ClaimCommitFields DEF ClaimCommit, CommitClaim
  <1>2. ASSUME ~ClaimCommit(w), NEW j \in JobIds, NoneActive(j)
        PROVE  NoneActive(j)'
    <2>1. \A k \in JobIds : status'[k] = "indexing" => status[k] = "indexing"
      BY <1>2, StatusSteps
    <2> QED
      BY <1>2, <2>1 DEF NoneActive
  <1>3. ASSUME ~ClaimCommit(w), worker'[w].at = "scanned", NEW j \in candidates'[w]
        PROVE  j \in JobIds /\ NoneActive(j)
    <2>1. CASE ClaimScan(w)
      <3>1. candidates'[w] = Claimable
        BY <1>0, <2>1 DEF ClaimScan, ScanPending
      <3> QED
        BY <1>3, <3>1 DEF Claimable, NoneActive
    <2>2. CASE worker'[w] = worker[w] /\ candidates'[w] = candidates[w]
      BY <1>0, <1>3, <2>2 DEF ClaimIsCurrent, At
    <2>3. CASE WorkerStep(w)
      BY <1>3, <2>1, <2>3, ScannedLabel
    <2>4. CASE \E i \in Instances : Crash(i)
      <3>1. PICK i \in Instances : Crash(i)
        BY <2>4
      <3>2. w \notin i
        BY <1>0, <1>3, <3>1, ForgetFields DEF Crash
      <3>3. worker'[w] = worker[w] /\ candidates'[w] = candidates[w]
        BY <1>0, <3>1, <3>2, ForgetFields DEF Crash, RollBack
      <3> QED
        BY <2>2, <3>3
    <2>5. CASE (\E k \in JobIds : Submit(k)) \/ (\E r \in Rows : Expire(r)) \/ UNCHANGED vars
      <3>1. worker' = worker /\ candidates' = candidates
        BY <2>5 DEF Submit, CreateProcessingJob, Expire, vars, jobVars
      <3> QED
        BY <2>2, <3>1
    <2> QED
      BY <2>3, <2>4, <2>5 DEF Next
  <1>4. ASSUME ~ClaimCommit(w), rowLock'[w] # NoJob
        PROVE  rowLock'[w] \in JobIds /\ NoneActive(rowLock'[w])
    <2>1. CASE ClaimLock(w)
      <3>1. PICK j \in JobIds \cup {NoJob} :
              /\ IF Lockable(w) = {} THEN j = NoJob ELSE IsOldest(j, Lockable(w))
              /\ rowLock' = [rowLock EXCEPT ![w] = j]
        BY <2>1 DEF ClaimLock, LockPending
      <3>2. rowLock'[w] = j
        BY <1>0, <3>1
      <3>3. j \in candidates[w]
        BY <1>4, <3>1, <3>2 DEF IsOldest, Lockable
      <3> QED
        BY <1>0, <2>1, <3>2, <3>3 DEF ClaimIsCurrent, ClaimLock
    <2>2. CASE rowLock'[w] = rowLock[w]
      BY <1>0, <1>4, <2>2 DEF ClaimIsCurrent
    <2>3. CASE UNCHANGED jobVars
      BY <2>2, <2>3 DEF jobVars
    <2>4. ASSUME NEW v \in Workers,
                 \/ ClaimScan(v) \/ CommitReady(v) \/ MarkJobError(v) \/ JobStatementFails(v)
          PROVE  rowLock'[w] \in {rowLock[w], NoJob}
      BY <2>4 DEF ClaimScan, ScanPending, CommitReady, MarkJobError, CommitStatus, jobVars,
                  JobStatementFails, RollBack
    <2>5. ASSUME NEW k \in JobIds, Submit(k) PROVE rowLock'[w] = rowLock[w]
      BY <2>5 DEF Submit, CreateProcessingJob
    <2>6. ASSUME NEW i \in Instances, Crash(i) PROVE rowLock'[w] \in {rowLock[w], NoJob}
      BY <2>6 DEF Crash, RollBack
    <2>7. CASE QueueStep
      BY <1>4, <2>1, <2>2, <2>4, <2>5, <2>6, <2>7 DEF QueueStep
    <2> QED
      BY <2>3, <2>7, Footprint
  <1>5. CASE ClaimCommit(w)
    BY <1>1, <1>5
  <1>6. CASE ~ClaimCommit(w)
    <2>1. worker'[w].at = "scanned" => \A j \in candidates'[w] : NoneActive(j)'
      BY <1>2, <1>3, <1>6
    <2>2. ASSUME rowLock'[w] # NoJob PROVE NoneActive(rowLock[w])'
      <3>1. PICK j \in JobIds : j = rowLock'[w] /\ NoneActive(j)
        BY <1>4, <1>6, <2>2
      <3>2. NoneActive(j)'
        BY <1>2, <1>6, <3>1
      <3> QED
        BY <3>1, <3>2 DEF NoneActive
    <2> QED
      BY <2>1, <2>2
  <1> QED
    BY <1>5, <1>6

\* A claim commits when no job of the address is "indexing".
LEMMA OneActiveNext ==
    ASSUME IndInv, ClaimIsCurrent, OneActiveJobPerAddress, [Next]_vars
    PROVE  OneActiveJobPerAddress'
  <1>0. /\ status \in [JobIds -> Statuses] /\ rowLock \in [Workers -> JobIds \cup {NoJob}]
    BY DEF IndInv, TypeOK, JobTypeOK
  <1>1. ASSUME NEW w \in Workers, ClaimCommit(w) PROVE OneActiveJobPerAddress'
    <2>1. /\ rowLock[w] \in JobIds /\ NoneActive(rowLock[w])
          /\ status' = [status EXCEPT ![rowLock[w]] = "indexing"]
      BY <1>0, <1>1 DEF ClaimCommit, CommitClaim, ClaimIsCurrent
    <2> QED
      BY <1>0, <2>1 DEF NoneActive, OneActiveJobPerAddress, SameAddress
  <1>2. CASE \A w \in Workers : ~ClaimCommit(w)
    <2>1. \A k \in JobIds : status'[k] = "indexing" => status[k] = "indexing"
      BY <1>2, StatusSteps
    <2> QED
      BY <2>1 DEF OneActiveJobPerAddress, SameAddress
  <1> QED
    BY <1>1, <1>2

\* With a single worker the jobs of an address take turns, whatever faults happen.
THEOREM SingleWorkerTakesTurns ==
    ASSUME \A v, w \in Workers : v = w
    PROVE  Spec => []OneActiveJobPerAddress
  <1>1. Init => ClaimIsCurrent /\ OneActiveJobPerAddress
    <2>1. ASSUME Init PROVE \A w \in Workers : worker[w].at = "idle"
      BY <2>1, IdleFields DEF Init
    <2> QED
      BY <2>1 DEF Init, JobInit, ClaimIsCurrent, At, OneActiveJobPerAddress
  <1>2. IndInv /\ ClaimIsCurrent /\ [Next]_vars => ClaimIsCurrent'
    BY ClaimNext
  <1>3. IndInv /\ ClaimIsCurrent /\ OneActiveJobPerAddress /\ [Next]_vars => OneActiveJobPerAddress'
    BY OneActiveNext
  <1> QED
    BY <1>1, <1>2, <1>3, Invariance, PTL DEF Spec

(***************************************************************************)
(* Slow workers, but no other fault.                                       *)
(***************************************************************************)

Calm == Faults \subseteq {"lease"}

\* A lease that is answered: an empty batch ends the rounds, and only if there is
\* nothing to lease but what others have locked.
LEMMA CalmLease ==
    ASSUME Calm, IndInv, NEW w \in Workers, Lease(w)
    PROVE  \E b \in Batches(Address(w), LockedElsewhere(w)) :
              /\ GetUnprocessedSignatures(Address(w), b)
              /\ worker'[w].at = IF b = {} THEN "check" ELSE "get"
              /\ worker'[w].batch = b
              /\ worker'[w].job = worker[w].job
              /\ b = {} => Leasable(Address(w)) \subseteq LockedElsewhere(w)
  <1>1. WorkersTypeOK /\ worker[w] \in WorkerState
    BY DEF IndInv, TypeOK, WorkersTypeOK
  <1>2. PICK b \in Batches(Address(w), LockedElsewhere(w)) :
          /\ GetUnprocessedSignatures(Address(w), b)
          /\ Becomes(w, [worker[w] EXCEPT !.at = IF b = {} THEN "check" ELSE "get", !.batch = b])
    BY DEF Lease, ReplyLost, Calm
  <1>3. worker'[w] = [worker[w] EXCEPT !.at = IF b = {} THEN "check" ELSE "get", !.batch = b]
    BY <1>1, <1>2 DEF Becomes, WorkersTypeOK
  <1>4. ASSUME b = {} PROVE Leasable(Address(w)) \subseteq LockedElsewhere(w)
    <2>1. Cardinality({}) = 0
      BY FS_EmptySet
    <2> QED
      BY <1>4, <2>1, SignatureStoreAssumption DEF Batches
  <1> QED
    BY <1>1, <1>2, <1>3, <1>4 DEF WorkerState

\* All transactions of a batch are got.
LEMMA CalmGet ==
    ASSUME Calm, IndInv, WholeBatch, NEW w \in Workers, GetTransactions(w)
    PROVE  /\ worker'[w].at = "save" /\ worker'[w].job = worker[w].job
           /\ worker'[w].batch = worker[w].batch /\ worker'[w].fetched = worker[w].batch
  <1>1. WorkersTypeOK /\ worker[w] \in WorkerState
    BY DEF IndInv, TypeOK, WorkersTypeOK
  <1>2. worker[w].batch # {}
    BY DEF GetTransactions, WholeBatch
  <1>3. Becomes(w, [worker[w] EXCEPT !.at = "save", !.fetched = worker[w].batch])
    BY <1>2 DEF GetTransactions, Calm
  <1>4. worker'[w] = [worker[w] EXCEPT !.at = "save", !.fetched = worker[w].batch]
    BY <1>1, <1>3 DEF Becomes, WorkersTypeOK
  <1> QED
    BY <1>1, <1>4 DEF WorkerState

\* The round of a batch is over when all of it is marked.
LEMMA CalmMark ==
    ASSUME Calm, IndInv, WholeBatch, NEW w \in Workers, MarkProcessed(w)
    PROVE  /\ worker'[w].at = "lease" /\ worker'[w].batch = {}
           /\ MarkSignaturesProcessed(Address(w), worker[w].batch)
  <1>1. WorkersTypeOK /\ worker[w] \in WorkerState
    BY DEF IndInv, TypeOK, WorkersTypeOK
  <1>2. worker[w].fetched = worker[w].batch
    BY DEF MarkProcessed, At, WholeBatch
  <1>3. NextRound(w)
    BY <1>2 DEF MarkProcessed, ReplyLost, Calm
  <1>4. worker'[w] = [worker[w] EXCEPT !.at = "lease", !.batch = {}, !.fetched = {}]
    BY <1>1, <1>3 DEF NextRound, Becomes, WorkersTypeOK
  <1> QED
    BY <1>1, <1>2, <1>4 DEF WorkerState, MarkProcessed

\* What one step of a worker does to its label, its batch and its job.
LEMMA CalmStep ==
    ASSUME Calm, IndInv, WholeBatch, NEW w \in Workers, WorkerStep(w)
    PROVE  /\ worker'[w].at = "get" => worker'[w].batch # {}
           /\ worker'[w].at \in {"save", "transfers", "mark"} => worker'[w].fetched = worker'[w].batch
           /\ worker'[w].at = "check" => Lease(w) /\ worker'[w].batch = {}
           /\ worker'[w].at = "fail" => CheckReady(w) /\ ~ReadySelectsRow(w)
           /\ worker[w].batch = {} \/ MarkProcessed(w)
                \/ (worker'[w].batch = worker[w].batch /\ worker'[w].job = worker[w].job)
  <1>1. /\ TypeOK /\ PagesLeftOK /\ WorkersTypeOK
        /\ worker[w].at \notin {"get", "save", "transfers", "mark"} => worker[w].batch = {}
    BY DEF IndInv, TypeOK, WorkersTypeOK, BatchInRoundOnly
  <1>2. ~ReplyLost(w) /\ ~GetSignaturesFails(w) /\ ~StatementFails(w) /\ ~JobStatementFails(w)
    BY DEF Calm, ReplyLost, GetSignaturesFails, StatementFails, JobStatementFails
  <1>3. CASE ClaimNone(w)
    BY <1>1, <1>3 DEF ClaimNone, At, vars
  <1>4. CASE ClaimScan(w) \/ ClaimLock(w)
    <2>1. PICK l \in {"idle", "scanned", "locked"} : GoesTo(w, l)
      BY <1>4 DEF ClaimScan, ClaimLock
    <2>2. worker'[w].at = l /\ worker[w].batch = {}
      BY <1>1, <1>4, <2>1, GoesToFields DEF ClaimScan, ClaimLock, At, Labels
    <2> QED
      BY <2>2
  <1>5. CASE ClaimCommit(w)
    BY <1>1, <1>5, ClaimCommitFields DEF ClaimCommit, At
  <1>6. CASE FetchPage(w)
    BY <1>1, <1>6, FetchPageFields DEF FetchPage, At
  <1>7. CASE WritePage(w)
    <2>1. worker'[w].at # "fail"
      <3>1. Becomes(w, [worker[w] EXCEPT !.at = AfterPage(worker[w].pagesLeft), !.page = {}])
        BY <1>2, <1>7 DEF WritePage
      <3>2. worker'[w] = [worker[w] EXCEPT !.at = AfterPage(worker[w].pagesLeft), !.page = {}]
        BY <1>1, <3>1 DEF Becomes, WorkersTypeOK
      <3> QED
        BY <1>1, <3>2 DEF AfterPage, WorkersTypeOK, WorkerState
    <2> QED
      BY <1>1, <1>7, <2>1, WritePageFields DEF WritePage, At
  <1>8. CASE Lease(w)
    BY <1>1, <1>8, CalmLease DEF Lease, At
  <1>9. CASE GetTransactions(w)
    BY <1>9, CalmGet
  <1>10. CASE SaveTransactions(w) \/ SaveTransfers(w)
    <2>1. PICK l \in {"transfers", "mark"} : GoesTo(w, l)
      BY <1>2, <1>10 DEF SaveTransactions, SaveTransfers
    <2>2. /\ worker'[w].at = l /\ worker'[w].job = worker[w].job
          /\ worker'[w].batch = worker[w].batch /\ worker'[w].fetched = worker[w].fetched
      BY <1>1, <2>1, GoesToFields DEF Labels
    <2>3. worker[w].fetched = worker[w].batch
      BY <1>10 DEF SaveTransactions, SaveTransfers, At, WholeBatch
    <2> QED
      BY <2>2, <2>3
  <1>11. CASE MarkProcessed(w)
    BY <1>11, CalmMark
  <1>12. CASE CheckReady(w)
    <2>1. worker[w].batch = {}
      BY <1>1, <1>12 DEF CheckReady, At
    <2>2. CASE ReadySelectsRow(w)
      BY <1>1, <1>12, <2>1, <2>2, GoesToFields DEF CheckReady, Labels
    <2>3. CASE ~ReadySelectsRow(w)
      BY <1>1, <1>12, <2>1, <2>3, FailsFields DEF CheckReady
    <2> QED
      BY <2>2, <2>3
  <1>13. CASE CommitReady(w) \/ MarkJobError(w)
    BY <1>1, <1>13, ForgetFields DEF CommitReady, MarkJobError, At
  <1> QED
    BY <1>2, <1>3, <1>4, <1>5, <1>6, <1>7, <1>8, <1>9, <1>10, <1>11, <1>12, <1>13 DEF WorkerStep

\* Which worker a step changes.
LEMMA CalmFrame ==
    ASSUME Calm, IndInv, [Next]_vars, NEW w \in Workers
    PROVE  WorkerStep(w) \/ worker'[w] = worker[w]
  <1>1. TypeOK /\ PagesLeftOK
    BY DEF IndInv
  <1>2. ASSUME NEW v \in Workers, v # w, WorkerStep(v) PROVE worker'[w] = worker[w]
    BY <1>1, <1>2, WorkerFrame
  <1> QED
    BY <1>2 DEF Next, vars, Submit, Expire, Crash, Calm

\* A rival stays one: a job that was claimed is never pending again.
LEMMA RivalStays ==
    ASSUME IndInv, [Next]_vars, NEW j \in JobIds, HasRival(j)
    PROVE  HasRival(j)'
  <1>1. PICK k \in JobIds \ {j} : SameAddress(j, k) /\ status[k] \notin {"absent", "pending"}
    BY DEF HasRival
  <1>2. status'[k] \notin {"absent", "pending"}
    BY <1>1, StatusSteps
  <1> QED
    BY <1>1, <1>2 DEF HasRival, SameAddress

\* A worker on another job of the address is a rival.
LEMMA WorkerIsRival ==
    ASSUME IndInv, NEW v \in Workers, NEW w \in Workers, v # w,
           worker[v].job # NoJob, worker[w].job # NoJob, Address(v) = Address(w)
    PROVE  worker[w].job \in JobIds /\ HasRival(worker[w].job)
  <1>1. worker[v].job \in JobIds /\ worker[w].job \in JobIds /\ worker[v].job # worker[w].job
    BY DEF IndInv, TypeOK, WorkerState, JobHeldByOne
  <1>2. status[worker[v].job] = "indexing"
    BY DEF IndInv, HeldJobIsIndexing
  <1> QED
    BY <1>1, <1>2 DEF HasRival, SameAddress, Address

\* A lease is on a row of the table.
LEMMA LeasedStoredNext ==
    ASSUME IndInv, LeasedIsStored, [Next]_vars
    PROVE  LeasedIsStored'
  <1>1. TypeOK /\ lease \in [Rows -> {"free", "held", "stale"}]
    BY DEF IndInv, TypeOK, SigTypeOK
  <1>2. stored \subseteq stored'
    BY <1>1, TablesGrow
  <1>3. ASSUME NEW w \in Workers, Lease(w), NEW r \in Rows, lease'[r] # "free"
        PROVE  lease[r] # "free" \/ r \in stored
    <2>1. PICK b \in Batches(Address(w), LockedElsewhere(w)) :
            lease' = [q \in Rows |-> IF q \in RowsOf(Address(w), b) THEN "held" ELSE lease[q]]
      BY <1>3 DEF Lease, GetUnprocessedSignatures
    <2>2. \A s \in b : <<Address(w), s>> \in stored
      BY DEF Batches, Leasable
    <2>3. r \in RowsOf(Address(w), b) => r \in stored
      BY <2>2 DEF RowsOf
    <2> QED
      BY <1>3, <2>1, <2>3
  <1>4. ASSUME NEW w \in Workers, WritePage(w) \/ MarkProcessed(w), NEW r \in Rows, lease'[r] # "free"
        PROVE  lease[r] # "free"
    BY <1>4 DEF WritePage, WriteSignatures, MarkProcessed, MarkSignaturesProcessed
  <1>5. ASSUME NEW q \in Rows, Expire(q), NEW r \in Rows, lease'[r] # "free"
        PROVE  lease[r] # "free"
    BY <1>1, <1>5 DEF Expire, LeaseExpires
  <1>6. ASSUME NEW r \in Rows, lease'[r] # "free" PROVE lease[r] # "free" \/ r \in stored
    BY <1>3, <1>4, <1>5, <1>6, Footprint DEF SignatureStep, sigVars
  <1> QED
    BY <1>2, <1>6 DEF LeasedIsStored

\* A lease without a worker would need a batch that is dropped unmarked.
LEMMA LeaseHasWorkerNext ==
    ASSUME Calm, IndInv, LeasedIsStored, WholeBatch, LeaseHasWorker, [Next]_vars
    PROVE  LeaseHasWorker'
  <1> SUFFICES ASSUME NEW a \in Addrs, NEW s \in Sigs,
                      <<a, s>> \in stored' \ processed', lease'[<<a, s>>] # "free"
               PROVE  \E w \in Workers : s \in worker'[w].batch /\ AddressOf[worker'[w].job] = a
    BY DEF LeaseHasWorker, Address
  <1>1. /\ TypeOK /\ lease \in [Rows -> {"free", "held", "stale"}] /\ <<a, s>> \in Rows
        /\ processed \subseteq processed'
    BY TablesGrow DEF IndInv, TypeOK, SigTypeOK, Rows
  <1>2. CASE \E w \in Workers : Lease(w) /\ Address(w) = a /\ s \in worker'[w].batch
                                 /\ worker'[w].job = worker[w].job
    BY <1>2 DEF Address
  <1>3. CASE lease[<<a, s>>] # "free"
    <2>1. <<a, s>> \in stored \ processed
      BY <1>1, <1>3 DEF LeasedIsStored
    <2>2. PICK w \in Workers : s \in worker[w].batch /\ Address(w) = a
      BY <1>3, <2>1 DEF LeaseHasWorker
    <2>3. ~MarkProcessed(w)
      <3> SUFFICES ASSUME MarkProcessed(w) PROVE <<a, s>> \in processed'
        OBVIOUS
      <3>1. MarkSignaturesProcessed(Address(w), worker[w].batch)
        BY CalmMark
      <3>2. <<a, s>> \in Markable(Address(w), worker[w].batch)
        BY <2>1, <2>2 DEF Markable, RowsOf
      <3> QED
        BY <3>1, <3>2 DEF MarkSignaturesProcessed
    <2>4. worker'[w].batch = worker[w].batch /\ worker'[w].job = worker[w].job
      BY <2>2, <2>3, CalmStep, CalmFrame
    <2> QED
      BY <2>2, <2>4 DEF Address
  <1>4. ASSUME lease[<<a, s>>] = "free"
        PROVE  \E w \in Workers : Lease(w) /\ Address(w) = a /\ s \in worker'[w].batch
                                   /\ worker'[w].job = worker[w].job
    <2>1. SignatureStep
      BY <1>4, Footprint DEF sigVars
    <2>2. \A w \in Workers : ~WritePage(w) /\ ~MarkProcessed(w)
      BY <1>1, <1>4 DEF WritePage, WriteSignatures, MarkProcessed, MarkSignaturesProcessed
    <2>3. \A r \in Rows : ~Expire(r)
      BY <1>1, <1>4 DEF Expire, LeaseExpires
    <2>4. PICK w \in Workers : Lease(w)
      BY <2>1, <2>2, <2>3 DEF SignatureStep
    <2>5. PICK b \in Batches(Address(w), LockedElsewhere(w)) :
            /\ GetUnprocessedSignatures(Address(w), b)
            /\ worker'[w].batch = b
            /\ worker'[w].job = worker[w].job
      BY <2>4, CalmLease
    <2>6. <<a, s>> \in RowsOf(Address(w), b)
      BY <1>1, <1>4, <2>5 DEF GetUnprocessedSignatures
    <2> QED
      BY <2>4, <2>5, <2>6 DEF RowsOf
  <1> QED
    BY <1>2, <1>3, <1>4

\* What a job cannot lease after its last round, or finds added later, is the work
\* of a rival.
LEMMA BlockedNext ==
    ASSUME Calm, IndInv, CalmInv, [Next]_vars
    PROVE  BlockedHasRival'
  <1>0. /\ TypeOK /\ HasJobWhileWorking /\ BatchInRoundOnly /\ WholeBatch /\ LeaseHasWorker
        /\ BlockedHasRival
        /\ \A w \in Workers : worker[w] \in WorkerState
        /\ AddressOf \in [JobIds -> Addrs]
        /\ lease \in [Rows -> {"free", "held", "stale"}] /\ processed \subseteq processed'
    BY TablesGrow, JobQueueAssumption DEF IndInv, CalmInv, TypeOK, SigTypeOK
  <1> SUFFICES ASSUME NEW w \in Workers
               PROVE  /\ /\ worker'[w].at = "check"
                         /\ \E s \in Sigs : <<AddressOf[worker'[w].job], s>> \in stored' \ processed'
                         => HasRival(worker[w].job)'
                      /\ worker'[w].at = "fail" => HasRival(worker[w].job)'
    BY DEF BlockedHasRival, At, Address
  <1>1. ASSUME worker'[w].at \in {"check", "fail"}
        PROVE  /\ worker'[w].job = worker[w].job /\ worker[w].job \in JobIds
               /\ worker[w].at \in {"lease", "check", "fail"}
    <2>1. CASE worker'[w] = worker[w]
      BY <1>0, <1>1, <2>1 DEF HasJobWhileWorking, WorkerState
    <2>2. CASE Lease(w)
      BY <1>0, <2>2, CalmLease DEF Lease, At, HasJobWhileWorking, WorkerState
    <2>3. CASE CheckReady(w) /\ ~ReadySelectsRow(w)
      <3>1. Fails(w) /\ WorkersTypeOK
        BY <1>0, <2>3 DEF CheckReady, TypeOK, WorkersTypeOK
      <3> QED
        BY <1>0, <2>3, <3>1, FailsFields DEF CheckReady, At, HasJobWhileWorking, WorkerState
    <2> QED
      BY <1>0, <1>1, <2>1, <2>2, <2>3, CalmStep, CalmFrame
  <1>2. ASSUME worker'[w].at \in {"check", "fail"}, HasRival(worker[w].job)
        PROVE  HasRival(worker[w].job)'
    <2>1. PICK j \in JobIds : j = worker[w].job /\ j = worker'[w].job
      BY <1>1, <1>2
    <2>2. HasRival(j)'
      BY <1>2, <2>1, RivalStays
    <2> QED
      BY <2>1, <2>2 DEF HasRival
  <1>3. ASSUME worker'[w].at = "check", NEW s \in Sigs,
               <<AddressOf[worker'[w].job], s>> \in stored' \ processed'
        PROVE  HasRival(worker[w].job)
    <2>1. worker'[w].job = worker[w].job /\ worker[w].job \in JobIds /\ worker[w].job # NoJob
      BY <1>1, <1>3, JobQueueAssumption
    <2>2. <<Address(w), s>> \in stored' \ processed /\ <<Address(w), s>> \in Rows
      BY <1>0, <1>3, <2>1 DEF Address, Rows
    <2>3. CASE Lease(w)
      <3>1. Leasable(Address(w)) \subseteq LockedElsewhere(w) /\ stored' = stored
        BY <1>3, <2>3, CalmLease DEF GetUnprocessedSignatures
      <3>2. lease[<<Address(w), s>>] = "held" \/ s \in LockedElsewhere(w)
        BY <2>2, <3>1 DEF Leasable
      <3>3. CASE lease[<<Address(w), s>>] = "held"
        <4>1. PICK v \in Workers : s \in worker[v].batch /\ Address(v) = Address(w)
          BY <1>0, <2>1, <2>2, <3>1, <3>3 DEF LeaseHasWorker, Address
        <4>2. worker[w].batch = {}
          BY <1>0, <2>3 DEF Lease, At, BatchInRoundOnly
        <4>3. worker[v].at \in {"get", "save", "transfers", "mark"}
          BY <1>0, <4>1 DEF BatchInRoundOnly
        <4>4. v # w /\ worker[v].job # NoJob
          BY <1>0, <4>1, <4>2, <4>3 DEF HasJobWhileWorking
        <4> QED
          BY <2>1, <4>1, <4>4, WorkerIsRival
      <3>4. CASE s \in LockedElsewhere(w)
        <4>1. PICK v \in Workers \ {w} :
                worker[v].at \in {"lease", "mark"} /\ Address(v) = Address(w)
          BY <3>4 DEF LockedElsewhere, At
        <4>2. worker[v].job # NoJob
          BY <1>0, <4>1 DEF HasJobWhileWorking
        <4> QED
          BY <2>1, <4>1, <4>2, WorkerIsRival
      <3> QED
        BY <3>2, <3>3, <3>4
    <2>4. CASE worker'[w] = worker[w] /\ <<Address(w), s>> \in stored
      BY <1>0, <1>3, <2>2, <2>4 DEF BlockedHasRival, At
    <2>5. CASE worker'[w] = worker[w] /\ <<Address(w), s>> \notin stored
      <3>1. PICK v \in Workers : WritePage(v)
        <4>1. ~UNCHANGED sigVars
          BY <2>2, <2>5 DEF sigVars
        <4>2. \A u \in Workers : ~Lease(u) /\ ~MarkProcessed(u)
          BY <2>2, <2>5 DEF Lease, GetUnprocessedSignatures, MarkProcessed, MarkSignaturesProcessed
        <4>3. \A r \in Rows : ~Expire(r)
          BY <2>2, <2>5 DEF Expire, LeaseExpires
        <4> QED
          BY <4>1, <4>2, <4>3, Footprint DEF SignatureStep
      <3>2. v # w
        BY <1>3, <2>5, <3>1 DEF WritePage, At
      <3>3. <<Address(w), s>> \in RowsOf(Address(v), worker[v].page)
        BY <2>2, <2>5, <3>1 DEF WritePage, WriteSignatures
      <3>4. Address(v) = Address(w) /\ worker[v].job # NoJob
        BY <1>0, <3>1, <3>3 DEF RowsOf, WritePage, At, HasJobWhileWorking
      <3> QED
        BY <2>1, <3>2, <3>4, WorkerIsRival
    <2> QED
      BY <1>3, <1>0, <2>3, <2>4, <2>5, CalmStep, CalmFrame
  <1>4. ASSUME worker'[w].at = "fail" PROVE HasRival(worker[w].job)
    <2>1. CASE worker'[w] = worker[w]
      BY <1>0, <1>4, <2>1 DEF BlockedHasRival, At
    <2>2. CASE CheckReady(w) /\ ~ReadySelectsRow(w)
      <3>1. worker[w].job \in JobIds /\ status[worker[w].job] = "indexing"
        BY <1>1, <1>4, JobQueueAssumption DEF IndInv, HeldJobIsIndexing
      <3>2. PICK s \in Window[worker[w].job] : <<Address(w), s>> \in stored \ processed
        BY <2>2, <3>1 DEF ReadySelectsRow, UpdatesRow, HasUnprocessed, Address
      <3>3. s \in Sigs
        BY <3>1, <3>2, IndexerAssumption
      <3> QED
        BY <1>0, <2>2, <3>2, <3>3 DEF CheckReady, BlockedHasRival
    <2> QED
      BY <1>0, <1>4, <2>1, <2>2, CalmStep, CalmFrame
  <1> QED
    BY <1>2, <1>3, <1>4

\* A job ends in "error" from the label "fail".
LEMMA ErrorNext ==
    ASSUME IndInv, BlockedHasRival, ErrorHasRival, [Next]_vars
    PROVE  ErrorHasRival'
  <1>1. ASSUME NEW j \in JobIds, status'[j] = "error" PROVE HasRival(j)
    <2>1. CASE status[j] = "error"
      BY <2>1 DEF ErrorHasRival, HasRival
    <2>2. CASE \E w \in Workers : MarkJobError(w) /\ worker[w].job = j
      BY <2>2 DEF MarkJobError, BlockedHasRival
    <2> QED
      BY <1>1, <2>1, <2>2, StatusSteps
  <1>2. \A j \in JobIds : status'[j] = "error" => HasRival(j)'
    BY <1>1, RivalStays
  <1> QED
    BY <1>2 DEF ErrorHasRival, HasRival, SameAddress

\* The invariant of workers that may be slow, and are not disturbed otherwise.
LEMMA CalmInvariance ==
    ASSUME Calm
    PROVE  Spec => []CalmInv
  <1>1. Init => CalmInv
    <2> SUFFICES ASSUME Init PROVE CalmInv
      OBVIOUS
    <2>1. \A w \in Workers : worker[w].at = "idle"
      BY IdleFields DEF Init
    <2>2. LeasedIsStored /\ LeaseHasWorker /\ ErrorHasRival
      BY DEF Init, SigInit, JobInit, LeasedIsStored, LeaseHasWorker, ErrorHasRival
    <2>3. WholeBatch /\ BlockedHasRival
      BY <2>1 DEF WholeBatch, BlockedHasRival, At
    <2> QED
      BY <2>2, <2>3 DEF CalmInv
  <1>2. IndInv /\ CalmInv /\ [Next]_vars => CalmInv'
    <2> SUFFICES ASSUME IndInv, CalmInv, [Next]_vars PROVE CalmInv'
      OBVIOUS
    <2>1. LeasedIsStored' /\ LeaseHasWorker' /\ BlockedHasRival' /\ ErrorHasRival'
      BY LeasedStoredNext, LeaseHasWorkerNext, BlockedNext, ErrorNext DEF CalmInv
    <2>2. WholeBatch'
      BY CalmStep, CalmFrame DEF CalmInv, WholeBatch, At
    <2> QED
      BY <2>1, <2>2 DEF CalmInv
  <1> QED
    BY <1>1, <1>2, Invariance, PTL DEF Spec

\* Without faults, but for leases that expire, no unprocessed signature stays leased
\* with nobody at work on it.
THEOREM LeasesHaveWorkers ==
    ASSUME Faults \subseteq {"lease"}
    PROVE  Spec => []LeaseHasWorker
  <1>1. CalmInv => LeaseHasWorker
    BY DEF CalmInv
  <1>2. Calm
    BY DEF Calm
  <1> QED
    BY <1>1, <1>2, CalmInvariance, PTL

\* Without faults, but for leases that expire, process_claimed_job fails a job only
\* on account of another job of its address.
THEOREM ErrorsHaveRivals ==
    ASSUME Faults \subseteq {"lease"}
    PROVE  Spec => []ErrorHasRival
  <1>1. CalmInv => ErrorHasRival
    BY DEF CalmInv
  <1>2. Calm
    BY DEF Calm
  <1> QED
    BY <1>1, <1>2, CalmInvariance, PTL
=============================================================================
