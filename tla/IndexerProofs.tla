--------------------------- MODULE IndexerProofs ---------------------------
(***************************************************************************)
(* Proofs, for every value of the constants, that the indexer keeps the    *)
(* invariants of IndexerProperties and implements IndexingService.         *)
(***************************************************************************)
EXTENDS IndexerProperties, TLAPS

WorkersTypeOK == worker \in [Workers -> WorkerState]

(***************************************************************************)
(* What the operators that update a worker do to it, field by field.       *)
(***************************************************************************)

\* The state of a worker that polls the queue is well typed.
LEMMA IdleFields ==
    /\ Idle \in WorkerState
    /\ Idle.at = "idle" /\ Idle.job = NoJob /\ Idle.pagesLeft = 0
    /\ Idle.page = {} /\ Idle.batch = {} /\ Idle.fetched = {}
  BY IndexerAssumption DEF Idle, WorkerState, Labels

\* Becomes changes the worker it names, and no other.
LEMMA BecomesFields ==
    ASSUME WorkersTypeOK, NEW w \in Workers, NEW s \in WorkerState, Becomes(w, s)
    PROVE  /\ WorkersTypeOK'
           /\ worker'[w] = s
           /\ \A v \in Workers : v # w => worker'[v] = worker[v]
  BY DEF WorkersTypeOK, Becomes

\* GoesTo changes the label of the worker it names.
LEMMA GoesToFields ==
    ASSUME WorkersTypeOK, NEW w \in Workers, NEW l \in Labels, GoesTo(w, l)
    PROVE  /\ WorkersTypeOK'
           /\ worker'[w].at = l
           /\ worker'[w].job = worker[w].job
           /\ worker'[w].pagesLeft = worker[w].pagesLeft
           /\ worker'[w].page = worker[w].page
           /\ worker'[w].batch = worker[w].batch
           /\ worker'[w].fetched = worker[w].fetched
           /\ \A v \in Workers : v # w => worker'[v] = worker[v]
  <1>1. [worker[w] EXCEPT !.at = l] \in WorkerState
    BY DEF WorkersTypeOK, WorkerState
  <1>2. worker[w] \in WorkerState
    BY DEF WorkersTypeOK
  <1> QED
    BY <1>1, <1>2, BecomesFields DEF GoesTo, WorkerState

\* A worker whose job fails keeps its job, and nothing else.
LEMMA FailsFields ==
    ASSUME WorkersTypeOK, NEW w \in Workers, Fails(w)
    PROVE  /\ WorkersTypeOK'
           /\ worker'[w].at = "fail"
           /\ worker'[w].job = worker[w].job
           /\ worker'[w].pagesLeft = 0
           /\ worker'[w].page = {}
           /\ worker'[w].batch = {}
           /\ worker'[w].fetched = {}
           /\ \A v \in Workers : v # w => worker'[v] = worker[v]
  <1> DEFINE s == [Idle EXCEPT !.at = "fail", !.job = worker[w].job]
  <1>1. worker[w].job \in JobIds \cup {NoJob}
    BY DEF WorkersTypeOK, WorkerState
  <1>2. /\ s \in WorkerState
        /\ s.at = "fail" /\ s.job = worker[w].job /\ s.pagesLeft = 0
        /\ s.page = {} /\ s.batch = {} /\ s.fetched = {}
    BY <1>1, IdleFields DEF WorkerState, Labels
  <1>3. Becomes(w, s)
    BY DEF Fails
  <1> HIDE DEF s
  <1> QED
    BY <1>2, <1>3, BecomesFields

\* The workers that are forgotten poll again, and no other one changes.
LEMMA ForgetFields ==
    ASSUME WorkersTypeOK, NEW S, Forget(S)
    PROVE  /\ WorkersTypeOK'
           /\ \A w \in Workers : w \in S =>
                 /\ worker'[w].at = "idle" /\ worker'[w].job = NoJob
                 /\ worker'[w].pagesLeft = 0 /\ worker'[w].page = {}
                 /\ worker'[w].batch = {} /\ worker'[w].fetched = {}
           /\ \A w \in Workers : w \notin S => worker'[w] = worker[w]
  BY IdleFields DEF WorkersTypeOK, Forget

\* Before a client has submitted anything, and with every worker polling, the
\* inductive invariant holds.
LEMMA InitInv == Init => IndInv
  <1> SUFFICES ASSUME Init PROVE IndInv
    OBVIOUS
  <1>1. TypeOK
    BY IdleFields DEF Init, TypeOK, JobInit, SigInit, TxInit, JobTypeOK, SigTypeOK,
                  TxTypeOK, Statuses
  <1>2. \A w \in Workers : worker[w] = Idle
    BY DEF Init
  <1> QED
    BY <1>1, <1>2, IdleFields DEF Init, JobInit, SigInit, TxInit, IndInv,
                  HasJobWhileWorking, PagesLeftOK,
                  RowLocksOK, JobHeldByOne, HeldJobIsIndexing, BatchInRoundOnly,
                  BatchIsLeased, SavedSoFar, ProcessedImpliesSaved, TransfersHaveTransaction, SyncedIsStored,
                  CheckedIsComplete, ReadyIsComplete

(***************************************************************************)
(* What each step of a worker does to that worker, for the steps that do   *)
(* more than go to another label.                                          *)
(***************************************************************************)

\* The worker whose claim commits has the row it has locked for a job, or, when
\* the reply is lost, polls again.
LEMMA ClaimCommitFields ==
    ASSUME TypeOK, NEW w \in Workers, ClaimCommit(w)
    PROVE  /\ WorkersTypeOK'
           /\ \A v \in Workers : v # w => worker'[v] = worker[v]
           /\ worker'[w].batch = {} /\ worker'[w].fetched = {}
           /\ \/ /\ worker'[w].at = "fetch" /\ worker'[w].job = rowLock[w]
                 /\ worker'[w].pagesLeft = MaxPages
              \/ worker'[w].at = "idle" /\ worker'[w].job = NoJob
  <1> DEFINE s == [Idle EXCEPT !.at = "fetch", !.job = rowLock[w], !.pagesLeft = MaxPages]
  <1>1. WorkersTypeOK /\ rowLock[w] \in JobIds \cup {NoJob} /\ MaxPages \in 0..MaxPages
    BY IndexerAssumption DEF TypeOK, JobTypeOK, WorkersTypeOK
  <1>2. /\ s \in WorkerState
        /\ s.at = "fetch" /\ s.job = rowLock[w] /\ s.pagesLeft = MaxPages
        /\ s.batch = {} /\ s.fetched = {}
    BY <1>1, IdleFields DEF WorkerState, Labels
  <1>3. Becomes(w, s) \/ Forget({w})
    BY DEF ClaimCommit
  <1> HIDE DEF s
  <1> QED
    BY <1>1, <1>2, <1>3, BecomesFields, ForgetFields

\* A page of signatures changes neither the job nor the round of its worker,
\* and is asked for again only while pages are left.
LEMMA FetchPageFields ==
    ASSUME TypeOK, PagesLeftOK, NEW w \in Workers, FetchPage(w)
    PROVE  /\ WorkersTypeOK'
           /\ \A v \in Workers : v # w => worker'[v] = worker[v]
           /\ worker'[w].at \in {"fetch", "write", "lease"}
           /\ worker'[w].at = "fetch" => worker'[w].pagesLeft > 0
           /\ worker'[w].job = worker[w].job
           /\ worker'[w].batch = worker[w].batch
           /\ worker'[w].fetched = worker[w].fetched
  <1>1. PICK p \in SUBSET Sigs, left \in {0, worker[w].pagesLeft - 1} :
          Becomes(w, [worker[w] EXCEPT !.at = IF p = {} THEN AfterPage(left) ELSE "write",
                                       !.page = p,
                                       !.pagesLeft = left])
    BY DEF FetchPage
  <1> DEFINE l == IF p = {} THEN AfterPage(left) ELSE "write"
             s == [worker[w] EXCEPT !.at = l, !.page = p, !.pagesLeft = left]
  <1>2. worker[w] \in WorkerState /\ WorkersTypeOK
    BY DEF TypeOK, WorkersTypeOK
  <1>3. left \in 0..MaxPages
    BY <1>2, IndexerAssumption DEF WorkerState, PagesLeftOK, FetchPage, At
  <1>4. l \in {"fetch", "write", "lease"} /\ (l = "fetch" => left > 0)
    BY DEF AfterPage
  <1>5. l \in Labels
    BY <1>4 DEF Labels
  <1> HIDE DEF l
  <1>6. /\ s \in WorkerState
        /\ s.at = l /\ s.pagesLeft = left /\ s.job = worker[w].job
        /\ s.batch = worker[w].batch /\ s.fetched = worker[w].fetched
    BY <1>2, <1>3, <1>5 DEF WorkerState
  <1>7. Becomes(w, s)
    BY <1>1 DEF l
  <1> HIDE DEF s
  <1> QED
    BY <1>2, <1>4, <1>6, <1>7, BecomesFields

\* After the INSERT of a page the worker asks for the next one, leases, or fails.
LEMMA WritePageFields ==
    ASSUME TypeOK, NEW w \in Workers, WritePage(w)
    PROVE  /\ WorkersTypeOK'
           /\ \A v \in Workers : v # w => worker'[v] = worker[v]
           /\ worker'[w].at \in {"fetch", "lease", "fail"}
           /\ worker'[w].at = "fetch" => worker'[w].pagesLeft > 0
           /\ worker'[w].job = worker[w].job
           /\ worker'[w].batch \in {worker[w].batch, {}}
           /\ worker'[w].fetched \in {worker[w].fetched, {}}
  <1> DEFINE l == AfterPage(worker[w].pagesLeft)
             s == [worker[w] EXCEPT !.at = l, !.page = {}]
  <1>1. worker[w] \in WorkerState /\ WorkersTypeOK
    BY DEF TypeOK, WorkersTypeOK
  <1>2. l \in {"fetch", "lease"} /\ l \in Labels /\ (l = "fetch" => worker[w].pagesLeft > 0)
    BY DEF AfterPage, Labels
  <1>3. Becomes(w, s) \/ Fails(w)
    BY DEF WritePage, ReplyLost
  <1> HIDE DEF l
  <1>4. /\ s \in WorkerState
        /\ s.at = l /\ s.pagesLeft = worker[w].pagesLeft /\ s.job = worker[w].job
        /\ s.batch = worker[w].batch /\ s.fetched = worker[w].fetched
    BY <1>1, <1>2 DEF WorkerState
  <1> HIDE DEF s
  <1> QED
    BY <1>1, <1>2, <1>3, <1>4, BecomesFields, FailsFields

\* A lease gives the worker a batch of leasable signatures, unless it is empty
\* or the reply is lost.
LEMMA LeaseFields ==
    ASSUME TypeOK, NEW w \in Workers, NEW b \in SUBSET Sigs,
           \/ Becomes(w, [worker[w] EXCEPT !.at = IF b = {} THEN "check" ELSE "get", !.batch = b])
           \/ ReplyLost(w)
    PROVE  /\ WorkersTypeOK'
           /\ \A v \in Workers : v # w => worker'[v] = worker[v]
           /\ worker'[w].at \in {"check", "get", "fail"}
           /\ worker'[w].job = worker[w].job
           /\ worker'[w].batch \in {b, {}}
           /\ worker'[w].fetched \in {worker[w].fetched, {}}
  <1> DEFINE l == IF b = {} THEN "check" ELSE "get"
             s == [worker[w] EXCEPT !.at = l, !.batch = b]
  <1>1. worker[w] \in WorkerState /\ WorkersTypeOK
    BY DEF TypeOK, WorkersTypeOK
  <1>2. l \in {"check", "get"} /\ l \in Labels
    BY DEF Labels
  <1>3. Becomes(w, s) \/ Fails(w)
    BY DEF ReplyLost
  <1> HIDE DEF l
  <1>4. /\ s \in WorkerState
        /\ s.at = l /\ s.job = worker[w].job
        /\ s.batch = b /\ s.fetched = worker[w].fetched
    BY <1>1, <1>2 DEF WorkerState
  <1> HIDE DEF s
  <1> QED
    BY <1>1, <1>2, <1>3, <1>4, BecomesFields, FailsFields

\* get_transaction leaves the worker with a part of its batch, or fails the job.
LEMMA GetTransactionsFields ==
    ASSUME TypeOK, NEW w \in Workers, GetTransactions(w)
    PROVE  /\ WorkersTypeOK'
           /\ \A v \in Workers : v # w => worker'[v] = worker[v]
           /\ worker'[w].at \in {"save", "fail"}
           /\ worker'[w].job = worker[w].job
           /\ worker'[w].batch \in {worker[w].batch, {}}
           /\ worker'[w].fetched \subseteq worker'[w].batch
           /\ worker'[w].at = "fail" => worker'[w].batch = {}
  <1>1. PICK f \in SUBSET worker[w].batch :
          IF f = {} THEN Fails(w)
                    ELSE Becomes(w, [worker[w] EXCEPT !.at = "save", !.fetched = f])
    BY DEF GetTransactions
  <1> DEFINE s == [worker[w] EXCEPT !.at = "save", !.fetched = f]
  <1>2. worker[w] \in WorkerState /\ WorkersTypeOK
    BY DEF TypeOK, WorkersTypeOK
  <1>3. f \in SUBSET Sigs
    BY <1>2 DEF WorkerState
  <1>4. /\ s \in WorkerState
        /\ s.at = "save" /\ s.job = worker[w].job
        /\ s.batch = worker[w].batch /\ s.fetched = f
    BY <1>2, <1>3 DEF WorkerState, Labels
  <1>5. Becomes(w, s) \/ Fails(w)
    BY <1>1
  <1> HIDE DEF s
  <1> QED
    BY <1>2, <1>4, <1>5, BecomesFields, FailsFields

\* Once its signatures are marked the worker has an empty round, and leases
\* again or fails.
LEMMA MarkProcessedFields ==
    ASSUME TypeOK, NEW w \in Workers, MarkProcessed(w)
    PROVE  /\ WorkersTypeOK'
           /\ \A v \in Workers : v # w => worker'[v] = worker[v]
           /\ worker'[w].at \in {"lease", "fail"}
           /\ worker'[w].job = worker[w].job
           /\ worker'[w].batch = {}
           /\ worker'[w].fetched = {}
  <1> DEFINE s == [worker[w] EXCEPT !.at = "lease", !.batch = {}, !.fetched = {}]
  <1>1. worker[w] \in WorkerState /\ WorkersTypeOK
    BY DEF TypeOK, WorkersTypeOK
  <1>2. Becomes(w, s) \/ Fails(w)
    BY DEF MarkProcessed, NextRound, ReplyLost
  <1>3. /\ s \in WorkerState
        /\ s.at = "lease" /\ s.job = worker[w].job
        /\ s.batch = {} /\ s.fetched = {}
    BY <1>1 DEF WorkerState, Labels
  <1> HIDE DEF s
  <1> QED
    BY <1>1, <1>2, <1>3, BecomesFields, FailsFields

\* Whatever a worker does, it changes its own state only; it takes a job in
\* ClaimCommit, a batch in Lease and transactions in GetTransactions, and in
\* every other step it keeps what it has or drops it.
LEMMA WorkerFrame ==
    ASSUME TypeOK, PagesLeftOK, NEW w \in Workers, WorkerStep(w)
    PROVE  /\ WorkersTypeOK'
           /\ \A v \in Workers : v # w => worker'[v] = worker[v]
           /\ ClaimCommit(w) \/ worker'[w].job \in {worker[w].job, NoJob}
           /\ Lease(w) \/ worker'[w].batch \in {worker[w].batch, {}}
           /\ GetTransactions(w) \/ worker'[w].fetched \in {worker[w].fetched, {}}
           /\ worker'[w].job = worker[w].job \/ (worker'[w].batch = {} /\ worker'[w].fetched = {})
  <1>1. WorkersTypeOK
    BY DEF TypeOK, WorkersTypeOK
  <1>2. CASE UNCHANGED worker
    BY <1>1, <1>2 DEF WorkersTypeOK
  <1>3. ASSUME NEW l \in Labels, GoesTo(w, l)
        PROVE  /\ WorkersTypeOK'
               /\ \A v \in Workers : v # w => worker'[v] = worker[v]
               /\ worker'[w].job = worker[w].job
               /\ worker'[w].batch = worker[w].batch
               /\ worker'[w].fetched = worker[w].fetched
    BY <1>1, <1>3, GoesToFields
  <1>4. CASE Fails(w)
    BY <1>1, <1>4, FailsFields
  <1>5. CASE Forget({w})
    BY <1>1, <1>5, ForgetFields
  <1>6. CASE ClaimNone(w)
    BY <1>2, <1>6 DEF ClaimNone, vars
  <1>7. CASE ClaimScan(w)
    BY <1>3, <1>7 DEF ClaimScan, Labels
  <1>8. CASE ClaimLock(w)
    BY <1>3, <1>8 DEF ClaimLock, Labels
  <1>9. CASE ClaimCommit(w)
    BY <1>9, ClaimCommitFields
  <1>10. CASE FetchPage(w)
    BY <1>10, FetchPageFields
  <1>11. CASE WritePage(w)
    BY <1>11, WritePageFields
  <1>12. CASE Lease(w)
    <2>1. PICK b \in Batches(Address(w), LockedElsewhere(w)) :
            \/ Becomes(w, [worker[w] EXCEPT !.at = IF b = {} THEN "check" ELSE "get", !.batch = b])
            \/ ReplyLost(w)
      BY <1>12 DEF Lease
    <2>2. b \in SUBSET Sigs
      BY DEF Batches, Leasable
    <2> QED
      BY <1>12, <2>1, <2>2, LeaseFields
  <1>13. CASE GetTransactions(w)
    BY <1>13, GetTransactionsFields
  <1>14. CASE SaveTransactions(w)
    BY <1>3, <1>4, <1>14 DEF SaveTransactions, ReplyLost, Labels
  <1>15. CASE SaveTransfers(w)
    BY <1>3, <1>4, <1>15 DEF SaveTransfers, ReplyLost, Labels
  <1>16. CASE MarkProcessed(w)
    BY <1>16, MarkProcessedFields
  <1>17. CASE CheckReady(w)
    BY <1>3, <1>4, <1>17 DEF CheckReady, Labels
  <1>18. CASE CommitReady(w) \/ MarkJobError(w) \/ JobStatementFails(w)
    BY <1>5, <1>18 DEF CommitReady, MarkJobError, JobStatementFails
  <1>19. CASE GetSignaturesFails(w) \/ StatementFails(w)
    BY <1>4, <1>19 DEF GetSignaturesFails, StatementFails
  <1> QED
    BY <1>6, <1>7, <1>8, <1>9, <1>10, <1>11, <1>12, <1>13, <1>14, <1>15, <1>16, <1>17,
       <1>18, <1>19 DEF WorkerStep

(***************************************************************************)
(* Which steps write which tables.                                         *)
(***************************************************************************)

SignatureStep ==
    \/ \E w \in Workers : WritePage(w) \/ Lease(w) \/ MarkProcessed(w)
    \/ \E r \in Rows : Expire(r)

TransactionStep == \E w \in Workers : SaveTransactions(w) \/ SaveTransfers(w)

QueueStep ==
    \/ \E w \in Workers : \/ ClaimScan(w) \/ ClaimLock(w) \/ ClaimCommit(w)
                          \/ CommitReady(w) \/ MarkJobError(w) \/ JobStatementFails(w)
    \/ \E j \in JobIds : Submit(j)
    \/ \E i \in Instances : Crash(i)

\* Each table is changed by the statements on it, and by nothing else.
LEMMA Footprint ==
    ASSUME [Next]_vars
    PROVE  /\ SignatureStep \/ UNCHANGED sigVars
           /\ TransactionStep \/ UNCHANGED txVars
           /\ QueueStep \/ UNCHANGED jobVars
           /\ (\E w \in Workers : WritePage(w)) \/ UNCHANGED synced
  <1>1. CASE UNCHANGED vars
    BY <1>1 DEF vars
  <1>2. ASSUME NEW w \in Workers, WorkerStep(w)
        PROVE  /\ WritePage(w) \/ Lease(w) \/ MarkProcessed(w) \/ UNCHANGED sigVars
               /\ SaveTransactions(w) \/ SaveTransfers(w) \/ UNCHANGED txVars
               /\ \/ ClaimScan(w) \/ ClaimLock(w) \/ ClaimCommit(w)
                  \/ CommitReady(w) \/ MarkJobError(w) \/ JobStatementFails(w)
                  \/ UNCHANGED jobVars
               /\ WritePage(w) \/ UNCHANGED synced
    BY <1>2 DEF WorkerStep, vars, ClaimNone, ClaimScan, ClaimLock, ClaimCommit, FetchPage,
                WritePage, Lease, GetTransactions, SaveTransactions, SaveTransfers,
                MarkProcessed, CheckReady, CommitReady, MarkJobError, GetSignaturesFails,
                StatementFails, JobStatementFails
  <1>3. CASE \E j \in JobIds : Submit(j)
    BY <1>3 DEF Submit, QueueStep
  <1>4. CASE \E i \in Instances : Crash(i)
    BY <1>4 DEF Crash, QueueStep
  <1>5. CASE \E r \in Rows : Expire(r)
    BY <1>5 DEF Expire, SignatureStep
  <1> QED
    BY <1>1, <1>2, <1>3, <1>4, <1>5
       DEF Next, SignatureStep, TransactionStep, QueueStep

(***************************************************************************)
(* Type correctness.                                                       *)
(***************************************************************************)

\* Every step leaves well-typed workers.
LEMMA WorkersTypeNext ==
    ASSUME TypeOK, PagesLeftOK, [Next]_vars
    PROVE  WorkersTypeOK'
  <1>1. WorkersTypeOK
    BY DEF TypeOK, WorkersTypeOK
  <1>2. CASE UNCHANGED worker
    BY <1>1, <1>2 DEF WorkersTypeOK
  <1>3. CASE \E w \in Workers : WorkerStep(w)
    BY <1>3, WorkerFrame
  <1>4. CASE \E i \in Instances : Crash(i)
    BY <1>1, <1>4, ForgetFields DEF Crash
  <1> QED
    BY <1>2, <1>3, <1>4 DEF Next, vars, Submit, Expire

\* Every step leaves a well-typed queue.
LEMMA JobTypeNext ==
    ASSUME TypeOK, [Next]_vars
    PROVE  JobTypeOK'
  <1> USE DEF JobTypeOK, Statuses
  <1>1. JobTypeOK /\ worker \in [Workers -> WorkerState]
    BY DEF TypeOK
  <1>2. CASE UNCHANGED jobVars
    BY <1>1, <1>2 DEF jobVars
  <1>3. ASSUME NEW w \in Workers, ClaimScan(w) PROVE JobTypeOK'
    BY <1>1, <1>3 DEF ClaimScan, ScanPending, Claimable
  <1>4. ASSUME NEW w \in Workers, ClaimLock(w) PROVE JobTypeOK'
    BY <1>1, <1>4 DEF ClaimLock, LockPending
  <1>5. ASSUME NEW w \in Workers, ClaimCommit(w) PROVE JobTypeOK'
    BY <1>1, <1>5 DEF ClaimCommit, CommitClaim
  <1>6. ASSUME NEW w \in Workers, CommitReady(w) \/ MarkJobError(w) PROVE JobTypeOK'
    BY <1>1, <1>6 DEF CommitReady, MarkJobError, CommitStatus, jobVars
  <1>7. ASSUME NEW S, RollBack(S) PROVE JobTypeOK'
    BY <1>1, <1>7 DEF RollBack
  <1>8. ASSUME NEW j \in JobIds, Submit(j) PROVE JobTypeOK'
    BY <1>1, <1>8 DEF Submit, CreateProcessingJob
  <1> QED
    BY <1>2, <1>3, <1>4, <1>5, <1>6, <1>7, <1>8, Footprint DEF QueueStep, JobStatementFails, Crash

\* Every step leaves a well-typed table of signatures.
LEMMA SigTypeNext ==
    ASSUME TypeOK, HasJobWhileWorking, [Next]_vars
    PROVE  SigTypeOK' /\ synced' \in [JobIds -> SUBSET Sigs]
  <1>1. SigTypeOK /\ synced \in [JobIds -> SUBSET Sigs] /\ worker \in [Workers -> WorkerState]
    BY DEF TypeOK
  <1>2. CASE UNCHANGED sigVars /\ UNCHANGED synced
    BY <1>1, <1>2 DEF sigVars, SigTypeOK
  <1>3. ASSUME NEW w \in Workers, WritePage(w)
        PROVE  SigTypeOK' /\ synced' \in [JobIds -> SUBSET Sigs]
    <2>1. worker[w].page \in SUBSET Sigs /\ worker[w].job \in JobIds
      BY <1>1, <1>3 DEF WritePage, At, HasJobWhileWorking, WorkerState
    <2>2. RowsOf(Address(w), worker[w].page) \subseteq Rows
      BY <2>1, JobQueueAssumption DEF RowsOf, Rows, Address
    <2> QED
      BY <1>1, <1>3, <2>1, <2>2 DEF WritePage, WriteSignatures, SigTypeOK
  <1>4. ASSUME NEW w \in Workers, Lease(w) PROVE SigTypeOK' /\ UNCHANGED synced
    BY <1>1, <1>4 DEF Lease, GetUnprocessedSignatures, SigTypeOK
  <1>5. ASSUME NEW w \in Workers, MarkProcessed(w) PROVE SigTypeOK' /\ UNCHANGED synced
    BY <1>1, <1>5 DEF MarkProcessed, MarkSignaturesProcessed, Markable, SigTypeOK
  <1>6. ASSUME NEW r \in Rows, Expire(r) PROVE SigTypeOK' /\ UNCHANGED synced
    BY <1>1, <1>6 DEF Expire, LeaseExpires, SigTypeOK
  <1> QED
    BY <1>1, <1>2, <1>3, <1>4, <1>5, <1>6, Footprint DEF SignatureStep

\* Every step leaves well-typed tables of transactions and transfers.
LEMMA TxTypeNext ==
    ASSUME TypeOK, HasJobWhileWorking, [Next]_vars
    PROVE  TxTypeOK'
  <1>1. TxTypeOK /\ worker \in [Workers -> WorkerState]
    BY DEF TypeOK
  <1>2. CASE UNCHANGED txVars
    BY <1>1, <1>2 DEF txVars, TxTypeOK
  <1>3. ASSUME NEW w \in Workers, SaveTransactions(w) \/ SaveTransfers(w)
        PROVE  TxTypeOK'
    <2>1. Address(w) \in Addrs /\ worker[w].fetched \subseteq Sigs
      BY <1>1, <1>3, JobQueueAssumption
         DEF SaveTransactions, SaveTransfers, At, HasJobWhileWorking, WorkerState, Address
    <2> QED
      BY <1>1, <1>3, <2>1 DEF SaveTransactions, SaveTransfers, WriteTransactionInfo,
                              WriteTokenTransfers, RowsOf, Rows, TxTypeOK
  <1> QED
    BY <1>2, <1>3, Footprint DEF TransactionStep

\* Every step leaves the composed system well typed.
LEMMA TypeNext ==
    ASSUME TypeOK, HasJobWhileWorking, PagesLeftOK, [Next]_vars
    PROVE  TypeOK'
  BY WorkersTypeNext, JobTypeNext, SigTypeNext, TxTypeNext DEF TypeOK, WorkersTypeOK

(***************************************************************************)
(* Labels: a worker has a job where it needs one and a page to ask for.    *)
(***************************************************************************)

WorkerOK(w) ==
    /\ worker[w].job = NoJob <=> worker[w].at \in {"idle", "scanned", "locked"}
    /\ worker[w].at = "fetch" => worker[w].pagesLeft > 0

\* Every step keeps what a label says of the job and of the pages of its worker.
LEMMA LabelsNext ==
    ASSUME TypeOK, HasJobWhileWorking, PagesLeftOK, [Next]_vars
    PROVE  HasJobWhileWorking' /\ PagesLeftOK'
  <1>1. WorkersTypeOK /\ \A w \in Workers : WorkerOK(w)
    BY DEF TypeOK, WorkersTypeOK, HasJobWhileWorking, PagesLeftOK, WorkerOK
  <1>2. CASE UNCHANGED worker
    BY <1>2 DEF HasJobWhileWorking, PagesLeftOK
  <1>3. CASE \E i \in Instances : Crash(i)
    BY <1>1, <1>3, ForgetFields DEF Crash, HasJobWhileWorking, PagesLeftOK
  <1>4. ASSUME NEW w \in Workers, WorkerStep(w)
        PROVE  HasJobWhileWorking' /\ PagesLeftOK'
    <2>1. \A v \in Workers : v # w => WorkerOK(v)'
      BY <1>1, <1>4, WorkerFrame DEF WorkerOK
    <2> SUFFICES WorkerOK(w)'
      BY <2>1 DEF WorkerOK, HasJobWhileWorking, PagesLeftOK
    <2>2. CASE Fails(w) /\ worker[w].job # NoJob
      BY <1>1, <2>2, FailsFields DEF WorkerOK
    <2>3. CASE Forget({w})
      BY <1>1, <2>3, ForgetFields DEF WorkerOK
    <2>4. ASSUME NEW l \in Labels \ {"fetch"}, GoesTo(w, l),
                 worker[w].job = NoJob <=> l \in {"idle", "scanned", "locked"}
          PROVE  WorkerOK(w)'
      BY <1>1, <2>4, GoesToFields DEF WorkerOK
    <2>5. CASE ClaimNone(w)
      BY <1>1, <2>5 DEF ClaimNone, vars, WorkerOK
    <2>6. CASE ClaimScan(w) \/ ClaimLock(w)
      BY <1>1, <2>4, <2>6 DEF ClaimScan, ClaimLock, At, WorkerOK, Labels
    <2>7. CASE ClaimCommit(w)
      <3>1. rowLock[w] # NoJob /\ MaxPages > 0
        BY <2>7, IndexerAssumption DEF ClaimCommit, CommitClaim
      <3> QED
        BY <2>7, <3>1, ClaimCommitFields DEF WorkerOK
    <2>8. CASE FetchPage(w)
      BY <1>1, <2>8, FetchPageFields DEF FetchPage, At, WorkerOK
    <2>9. CASE WritePage(w)
      BY <1>1, <2>9, WritePageFields DEF WritePage, At, WorkerOK
    <2>10. CASE Lease(w)
      <3>1. PICK b \in Batches(Address(w), LockedElsewhere(w)) :
              \/ Becomes(w, [worker[w] EXCEPT !.at = IF b = {} THEN "check" ELSE "get", !.batch = b])
              \/ ReplyLost(w)
        BY <2>10 DEF Lease
      <3>2. b \in SUBSET Sigs
        BY DEF Batches, Leasable
      <3> QED
        BY <1>1, <2>10, <3>1, <3>2, LeaseFields DEF Lease, At, WorkerOK
    <2>11. CASE GetTransactions(w)
      BY <1>1, <2>11, GetTransactionsFields DEF GetTransactions, At, WorkerOK
    <2>12. CASE SaveTransactions(w) \/ SaveTransfers(w)
      BY <1>1, <2>2, <2>4, <2>12 DEF SaveTransactions, SaveTransfers, ReplyLost, At, WorkerOK, Labels
    <2>13. CASE MarkProcessed(w)
      BY <1>1, <2>13, MarkProcessedFields DEF MarkProcessed, At, WorkerOK
    <2>14. CASE CheckReady(w)
      BY <1>1, <2>2, <2>4, <2>14 DEF CheckReady, At, WorkerOK, Labels
    <2>15. CASE CommitReady(w) \/ MarkJobError(w) \/ JobStatementFails(w)
      BY <2>3, <2>15 DEF CommitReady, MarkJobError, JobStatementFails
    <2>16. CASE GetSignaturesFails(w) \/ StatementFails(w)
      BY <1>1, <2>2, <2>16 DEF GetSignaturesFails, StatementFails, At, WorkerOK
    <2> QED
      BY <1>4, <2>2, <2>5, <2>6, <2>7, <2>8, <2>9, <2>10, <2>11, <2>12, <2>13, <2>14, <2>15,
         <2>16 DEF WorkerStep
  <1> QED
    BY <1>2, <1>3, <1>4 DEF Next, vars, Submit, Expire

(***************************************************************************)
(* The queue: a job has one worker, and is "indexing" while it has one.    *)
(***************************************************************************)

QueueOK == RowLocksOK /\ JobHeldByOne /\ HeldJobIsIndexing

\* A worker that holds a row lock is at a step that writes the queue.
LEMMA LockedWorkerSteps ==
    ASSUME NEW w \in Workers, WorkerStep(w), worker[w].at = "locked"
    PROVE  ClaimCommit(w) \/ JobStatementFails(w)
  BY DEF WorkerStep, At, ClaimNone, ClaimScan, ClaimLock, FetchPage, WritePage, Lease,
         GetTransactions, SaveTransactions, SaveTransfers, MarkProcessed, CheckReady,
         CommitReady, MarkJobError, GetSignaturesFails, StatementFails

\* Giving up the snapshots, the locks and the states of some workers.
LEMMA RollBackQueue ==
    ASSUME TypeOK, QueueOK, NEW S, RollBack(S), Forget(S)
    PROVE  QueueOK'
  <1>1. WorkersTypeOK
    BY DEF TypeOK, WorkersTypeOK
  <1>2. /\ \A w \in Workers : w \in S => rowLock'[w] = NoJob
        /\ \A w \in Workers : w \notin S => rowLock'[w] = rowLock[w]
        /\ status' = status
    BY DEF RollBack
  <1> QED
    BY <1>1, <1>2, ForgetFields DEF QueueOK, RowLocksOK, JobHeldByOne, HeldJobIsIndexing

\* Settling the job of a worker that is then free of it.
LEMMA SettleQueue ==
    ASSUME TypeOK, QueueOK, NEW w \in Workers, worker[w].job \in JobIds,
           NEW new, CommitStatus(worker[w].job, new), Forget({w}),
           worker[w].at # "locked"
    PROVE  QueueOK'
  <1>1. WorkersTypeOK /\ status \in [JobIds -> Statuses] /\ rowLock \in [Workers -> JobIds \cup {NoJob}]
    BY DEF TypeOK, WorkersTypeOK, JobTypeOK
  <1>2. status[worker[w].job] = "indexing"
    BY JobQueueAssumption DEF QueueOK, HeldJobIsIndexing
  <1>3. rowLock' = rowLock /\ \A j \in JobIds : j # worker[w].job => status'[j] = status[j]
    BY <1>1 DEF CommitStatus
  <1>4. /\ worker'[w].job = NoJob
        /\ \A v \in Workers : v # w => worker'[v] = worker[v]
    BY <1>1, ForgetFields
  <1>5. \A v \in Workers : worker[v].job \in JobIds \cup {NoJob}
    BY <1>1 DEF WorkersTypeOK, WorkerState
  <1>6. RowLocksOK'
    BY <1>1, <1>2, <1>3, <1>4 DEF QueueOK, RowLocksOK
  <1>7. \A v \in Workers : worker'[v].job # NoJob =>
           v # w /\ worker'[v] = worker[v] /\ worker[v].job # worker[w].job
    BY <1>4, JobQueueAssumption DEF QueueOK, JobHeldByOne
  <1>8. JobHeldByOne'
    BY <1>7 DEF QueueOK, JobHeldByOne
  <1>9. HeldJobIsIndexing'
    <2>1. ASSUME NEW v \in Workers, worker'[v].job # NoJob
          PROVE  status'[worker'[v].job] = status[worker[v].job] /\ worker[v].job # NoJob
      BY <1>3, <1>5, <1>7, <2>1
    <2> QED
      BY <1>7, <2>1 DEF QueueOK, HeldJobIsIndexing
  <1> QED
    BY <1>6, <1>8, <1>9 DEF QueueOK

\* Every step keeps jobs and row locks in single hands, and the job of a worker
\* "indexing".
LEMMA QueueNext ==
    ASSUME TypeOK, HasJobWhileWorking, PagesLeftOK, QueueOK, [Next]_vars
    PROVE  QueueOK'
  <1> USE JobQueueAssumption
  <1>1. /\ WorkersTypeOK
        /\ status \in [JobIds -> Statuses]
        /\ rowLock \in [Workers -> JobIds \cup {NoJob}]
        /\ candidates \in [Workers -> SUBSET JobIds]
        /\ \A v \in Workers : worker[v].job \in JobIds \cup {NoJob}
    BY DEF TypeOK, WorkersTypeOK, JobTypeOK, WorkerState
  <1>2. ASSUME NEW w \in Workers, WorkerStep(w), UNCHANGED jobVars PROVE QueueOK'
    <2>1. ~ClaimCommit(w)
      BY <1>1, <1>2 DEF ClaimCommit, CommitClaim, jobVars
    <2>2. worker'[w].job \in {worker[w].job, NoJob} /\ \A v \in Workers : v # w => worker'[v] = worker[v]
      BY <1>2, <2>1, WorkerFrame
    <2>3. rowLock[w] # NoJob => worker[w].at # "locked"
      <3> SUFFICES ASSUME worker[w].at = "locked" PROVE rowLock[w] = NoJob
        OBVIOUS
      <3>1. JobStatementFails(w)
        BY <1>2, <2>1, LockedWorkerSteps
      <3> QED
        BY <1>1, <1>2, <3>1 DEF JobStatementFails, RollBack, jobVars
    <2> QED
      BY <1>1, <1>2, <2>2, <2>3 DEF jobVars, QueueOK, RowLocksOK, JobHeldByOne, HeldJobIsIndexing
  <1>3. ASSUME NEW w \in Workers, ClaimScan(w) PROVE QueueOK'
    <2>1. "scanned" \in Labels
      BY DEF Labels
    <2> QED
      BY <1>1, <1>3, <2>1, GoesToFields
         DEF ClaimScan, ScanPending, At, QueueOK, RowLocksOK, JobHeldByOne, HeldJobIsIndexing
  <1>4. ASSUME NEW w \in Workers, ClaimLock(w) PROVE QueueOK'
    <2> DEFINE l == IF Lockable(w) = {} THEN "idle" ELSE "locked"
    <2>1. /\ l \in Labels
          /\ GoesTo(w, l)
      BY <1>4 DEF ClaimLock, Labels
    <2>2. PICK j \in JobIds \cup {NoJob} :
            /\ IF Lockable(w) = {} THEN j = NoJob ELSE IsOldest(j, Lockable(w))
            /\ rowLock' = [rowLock EXCEPT ![w] = j]
      BY <1>4 DEF ClaimLock, LockPending
    <2>3. j # NoJob => /\ l = "locked"
                       /\ status[j] = "pending"
                       /\ \A v \in Workers : rowLock[v] # j
      BY <1>1, <2>2 DEF IsOldest, Lockable
    <2> HIDE DEF l
    <2>4. /\ worker'[w].at = l
          /\ worker'[w].job = worker[w].job
          /\ \A v \in Workers : v # w => worker'[v] = worker[v]
      BY <1>1, <2>1, GoesToFields
    <2>5. status' = status
      BY <1>4 DEF ClaimLock, LockPending
    <2>6. RowLocksOK'
      BY <1>1, <2>2, <2>3, <2>4, <2>5 DEF QueueOK, RowLocksOK
    <2> QED
      BY <2>4, <2>5, <2>6 DEF QueueOK, JobHeldByOne, HeldJobIsIndexing
  <1>5. ASSUME NEW w \in Workers, ClaimCommit(w) PROVE QueueOK'
    <2>1. /\ rowLock[w] \in JobIds
          /\ status' = [status EXCEPT ![rowLock[w]] = "indexing"]
          /\ rowLock' = [rowLock EXCEPT ![w] = NoJob]
          /\ status[rowLock[w]] = "pending"
      BY <1>1, <1>5 DEF ClaimCommit, CommitClaim, QueueOK, RowLocksOK
    <2>2. /\ worker'[w].job \in {rowLock[w], NoJob}
          /\ \A v \in Workers : v # w => worker'[v] = worker[v]
      BY <1>5, ClaimCommitFields
    <2>3. \A v \in Workers : worker[v].job # rowLock[w]
      BY <1>1, <2>1 DEF QueueOK, HeldJobIsIndexing
    <2>4. RowLocksOK'
      BY <1>1, <2>1, <2>2 DEF QueueOK, RowLocksOK
    <2>5. JobHeldByOne'
      BY <2>1, <2>2, <2>3 DEF QueueOK, JobHeldByOne
    <2>6. HeldJobIsIndexing'
      BY <1>1, <2>1, <2>2 DEF QueueOK, HeldJobIsIndexing
    <2> QED
      BY <2>4, <2>5, <2>6 DEF QueueOK
  <1>6. ASSUME NEW w \in Workers, CommitReady(w) \/ MarkJobError(w) PROVE QueueOK'
    <2>1. worker[w].job \in JobIds /\ worker[w].at # "locked"
      BY <1>1, <1>6 DEF CommitReady, MarkJobError, At, HasJobWhileWorking
    <2>2. CASE UNCHANGED jobVars
      BY <1>2, <1>6, <2>2 DEF WorkerStep
    <2> QED
      BY <1>6, <2>1, <2>2, SettleQueue DEF CommitReady, MarkJobError
  <1>7. ASSUME NEW w \in Workers, JobStatementFails(w) PROVE QueueOK'
    BY <1>7, RollBackQueue DEF JobStatementFails
  <1>8. ASSUME NEW i \in Instances, Crash(i) PROVE QueueOK'
    BY <1>8, RollBackQueue DEF Crash
  <1>9. ASSUME NEW j \in JobIds, Submit(j) PROVE QueueOK'
    BY <1>1, <1>9 DEF Submit, CreateProcessingJob, QueueOK, RowLocksOK, JobHeldByOne, HeldJobIsIndexing
  <1>10. CASE UNCHANGED worker /\ UNCHANGED jobVars
    BY <1>10 DEF jobVars, QueueOK, RowLocksOK, JobHeldByOne, HeldJobIsIndexing
  <1>11. CASE QueueStep
    BY <1>3, <1>4, <1>5, <1>6, <1>7, <1>8, <1>9, <1>11 DEF QueueStep
  <1>12. CASE UNCHANGED jobVars
    BY <1>2, <1>8, <1>9, <1>10, <1>12 DEF Next, vars, Expire
  <1> QED
    BY <1>11, <1>12, Footprint

(***************************************************************************)
(* The tables only grow, and a lease is given up only for a processed row. *)
(***************************************************************************)

\* No step deletes a row, unmarks a processed one, or gives up a lease but on a
\* row that is processed by then.
LEMMA TablesGrow ==
    ASSUME TypeOK, [Next]_vars
    PROVE  /\ stored \subseteq stored'
           /\ processed \subseteq processed'
           /\ transactions \subseteq transactions'
           /\ transfers \subseteq transfers'
           /\ \A r \in Rows : r \notin processed' /\ lease[r] # "free" => lease'[r] # "free"
  <1>1. lease \in [Rows -> {"free", "held", "stale"}]
    BY DEF TypeOK, SigTypeOK
  <1>2. CASE UNCHANGED sigVars
    BY <1>2, Footprint DEF sigVars, txVars, TransactionStep, SaveTransactions, SaveTransfers,
                           WriteTransactionInfo, WriteTokenTransfers
  <1>3. CASE SignatureStep
    <2>1. /\ stored \subseteq stored'
          /\ processed \subseteq processed'
          /\ \A r \in Rows : r \notin processed' /\ lease[r] # "free" => lease'[r] # "free"
      BY <1>1, <1>3 DEF SignatureStep, WritePage, WriteSignatures, Lease, GetUnprocessedSignatures,
                        MarkProcessed, MarkSignaturesProcessed, Expire, LeaseExpires
    <2> QED
      BY <2>1, Footprint DEF txVars, TransactionStep, SaveTransactions, SaveTransfers,
                             WriteTransactionInfo, WriteTokenTransfers
  <1> QED
    BY <1>2, <1>3, Footprint

(***************************************************************************)
(* Rounds: what a worker has leased and what it has saved of it.           *)
(***************************************************************************)

RoundLabels == {"get", "save", "transfers", "mark"}

RoundOK(w) ==
    /\ worker[w].at \notin RoundLabels => worker[w].batch = {}
    /\ \A s \in worker[w].batch :
          /\ worker[w].job # NoJob
          /\ <<Address(w), s>> \in stored
          /\ <<Address(w), s>> \notin processed => lease[<<Address(w), s>>] # "free"
    /\ \A s \in worker[w].fetched :
          /\ s \in worker[w].batch
          /\ worker[w].at = "transfers" => <<Address(w), s>> \in transactions
          /\ worker[w].at = "mark" => Saved(Address(w), s)

\* A worker whose job and round stay what they are, away from the labels that
\* promise more, keeps its round; so does one that has nothing in its hands.
LEMMA RoundKept ==
    ASSUME TypeOK, [Next]_vars, NEW w \in Workers, RoundOK(w),
           worker'[w].job = worker[w].job,
           worker'[w].batch = worker[w].batch,
           worker'[w].fetched \subseteq worker[w].fetched,
           worker'[w].at \in {"transfers", "mark"} => worker'[w].at = worker[w].at,
           worker[w].at \in RoundLabels => worker'[w].at \in RoundLabels
    PROVE  RoundOK(w)'
  <1>1. worker[w].batch \subseteq Sigs /\ worker[w].job \in JobIds \cup {NoJob}
    BY DEF TypeOK, WorkerState
  <1>2. Address(w)' = Address(w)
    BY DEF Address
  <1>3. \A s \in worker[w].batch : <<Address(w), s>> \in Rows
    BY <1>1, JobQueueAssumption DEF RoundOK, Address, Rows
  <1> QED
    BY <1>1, <1>2, <1>3, TablesGrow DEF RoundOK, Saved

\* A worker with empty hands has nothing to answer for.
LEMMA RoundEmpty ==
    ASSUME NEW w, worker'[w].batch = {}, worker'[w].fetched = {}
    PROVE  RoundOK(w)'
  BY DEF RoundOK

\* The rounds come one after the other: a worker leases with empty hands.
LEMMA LeaseRound ==
    ASSUME TypeOK, NEW w \in Workers, RoundOK(w), worker[w].job # NoJob, Lease(w)
    PROVE  RoundOK(w)'
  <1>1. PICK b \in Batches(Address(w), LockedElsewhere(w)) :
          /\ GetUnprocessedSignatures(Address(w), b)
          /\ \/ Becomes(w, [worker[w] EXCEPT !.at = IF b = {} THEN "check" ELSE "get", !.batch = b])
             \/ ReplyLost(w)
    BY DEF Lease
  <1> DEFINE l == IF b = {} THEN "check" ELSE "get"
             s == [worker[w] EXCEPT !.at = l, !.batch = b]
  <1>2. /\ worker[w] \in WorkerState /\ WorkersTypeOK
        /\ lease \in [Rows -> {"free", "held", "stale"}]
        /\ AddressOf[worker[w].job] = Address(w)
    BY DEF TypeOK, WorkersTypeOK, SigTypeOK, Address
  <1>3. /\ b \in SUBSET Sigs
        /\ worker[w].fetched = {}
        /\ \A t \in b : <<Address(w), t>> \in stored
    BY DEF Lease, At, RoundOK, RoundLabels, Batches, Leasable
  <1>4. CASE Fails(w)
    BY <1>2, <1>4, FailsFields, RoundEmpty
  <1>5. CASE Becomes(w, s)
    <2>1. l \in Labels /\ (l = "get" \/ b = {}) /\ l \notin {"transfers", "mark"}
      BY DEF Labels
    <2> HIDE DEF l
    <2>2. /\ s \in WorkerState
          /\ s.at = l /\ s.job = worker[w].job /\ s.batch = b /\ s.fetched = {}
      BY <1>2, <1>3, <2>1 DEF WorkerState
    <2> HIDE DEF s
    <2>3. worker'[w] = s /\ Address(w)' = Address(w)
      BY <1>2, <1>5, <2>2, BecomesFields DEF Address
    <2>4. /\ stored' = stored
          /\ \A t \in b : lease'[<<Address(w), t>>] = "held"
      <3>1. \A t \in b : <<Address(w), t>> \in Rows /\ <<Address(w), t>> \in RowsOf(Address(w), b)
        BY <1>2, <1>3 DEF TypeOK, SigTypeOK, RowsOf
      <3> QED
        BY <1>1, <3>1 DEF GetUnprocessedSignatures
    <2> QED
      BY <1>3, <2>1, <2>2, <2>3, <2>4 DEF RoundOK, RoundLabels
  <1> QED
    BY <1>1, <1>4, <1>5 DEF ReplyLost

\* What get_transaction returns is a part of the batch.
LEMMA GetTransactionsRound ==
    ASSUME TypeOK, [Next]_vars, NEW w \in Workers, RoundOK(w), GetTransactions(w)
    PROVE  RoundOK(w)'
  <1>1. /\ worker'[w].at \in {"save", "fail"}
        /\ worker'[w].job = worker[w].job
        /\ worker'[w].batch \in {worker[w].batch, {}}
        /\ worker'[w].fetched \subseteq worker'[w].batch
        /\ worker'[w].at = "fail" => worker'[w].batch = {}
    BY GetTransactionsFields
  <1>2. UNCHANGED sigVars /\ Address(w)' = Address(w)
    BY <1>1 DEF GetTransactions, Address
  <1> QED
    BY <1>1, <1>2 DEF RoundOK, RoundLabels, sigVars

\* Each of the two INSERTs has done what the statement after it counts on.
LEMMA SaveRound ==
    ASSUME TypeOK, [Next]_vars, NEW w \in Workers, RoundOK(w),
           SaveTransactions(w) \/ SaveTransfers(w)
    PROVE  RoundOK(w)'
  <1>1. /\ WorkersTypeOK
        /\ worker[w].fetched \subseteq Sigs
        /\ worker[w].at = IF SaveTransactions(w) THEN "save" ELSE "transfers"
    BY DEF TypeOK, WorkersTypeOK, WorkerState, SaveTransactions, SaveTransfers, At
  <1>2. CASE Fails(w)
    BY <1>1, <1>2, FailsFields, RoundEmpty
  <1>3. CASE SaveTransactions(w) /\ GoesTo(w, "transfers")
    <2>1. /\ worker'[w].at = "transfers"
          /\ worker'[w].job = worker[w].job
          /\ worker'[w].batch = worker[w].batch
          /\ worker'[w].fetched = worker[w].fetched
      BY <1>1, <1>3, GoesToFields DEF Labels
    <2>2. /\ UNCHANGED sigVars /\ Address(w)' = Address(w)
          /\ transactions' = transactions \cup RowsOf(Address(w), worker[w].fetched)
      BY <1>3, <2>1 DEF SaveTransactions, WriteTransactionInfo, Address
    <2> QED
      BY <2>1, <2>2 DEF RoundOK, RoundLabels, sigVars, RowsOf
  <1>4. CASE SaveTransfers(w) /\ GoesTo(w, "mark")
    <2>1. /\ worker'[w].at = "mark"
          /\ worker'[w].job = worker[w].job
          /\ worker'[w].batch = worker[w].batch
          /\ worker'[w].fetched = worker[w].fetched
      BY <1>1, <1>4, GoesToFields DEF Labels
    <2>2. /\ UNCHANGED sigVars /\ Address(w)' = Address(w)
          /\ transactions' = transactions
          /\ transfers' = transfers \cup RowsOf(Address(w), worker[w].fetched \cap Transferring)
          /\ worker[w].at = "transfers"
      BY <1>4, <2>1 DEF SaveTransfers, WriteTokenTransfers, Address, At
    <2> QED
      BY <2>1, <2>2 DEF RoundOK, RoundLabels, sigVars, RowsOf, Saved
  <1> QED
    BY <1>2, <1>3, <1>4 DEF SaveTransactions, SaveTransfers, ReplyLost

\* Every step keeps the rounds of all workers in order.
LEMMA RoundNext ==
    ASSUME TypeOK, HasJobWhileWorking, PagesLeftOK, BatchInRoundOnly, BatchIsLeased, SavedSoFar,
           [Next]_vars
    PROVE  BatchInRoundOnly' /\ BatchIsLeased' /\ SavedSoFar'
  <1> SUFFICES ASSUME NEW w \in Workers PROVE RoundOK(w)'
    BY DEF RoundOK, RoundLabels, BatchInRoundOnly, BatchIsLeased, SavedSoFar
  <1>1. RoundOK(w) /\ WorkersTypeOK
    BY DEF RoundOK, RoundLabels, BatchInRoundOnly, BatchIsLeased, SavedSoFar, TypeOK, WorkersTypeOK
  <1>2. CASE worker'[w] = worker[w]
    BY <1>1, <1>2, RoundKept
  <1>3. CASE WorkerStep(w)
    <2>1. CASE Fails(w)
      BY <1>1, <2>1, FailsFields, RoundEmpty
    <2>2. CASE Forget({w})
      BY <1>1, <2>2, ForgetFields, RoundEmpty
    <2>3. ASSUME NEW l \in Labels \ {"transfers", "mark"}, GoesTo(w, l),
                 worker[w].at \notin RoundLabels
          PROVE  RoundOK(w)'
      BY <1>1, <2>3, GoesToFields, RoundKept
    <2>4. CASE ClaimNone(w)
      BY <1>2, <2>4 DEF ClaimNone, vars
    <2>5. CASE ClaimScan(w) \/ ClaimLock(w)
      BY <2>3, <2>5 DEF ClaimScan, ClaimLock, Labels, RoundLabels, At
    <2>6. CASE ClaimCommit(w)
      BY <2>6, ClaimCommitFields, RoundEmpty
    <2>7. CASE FetchPage(w)
      BY <1>1, <2>7, FetchPageFields, RoundKept DEF FetchPage, At, RoundLabels
    <2>8. CASE WritePage(w)
      <3>1. CASE worker'[w].batch = worker[w].batch /\ worker'[w].fetched = worker[w].fetched
        BY <1>1, <2>8, <3>1, WritePageFields, RoundKept DEF WritePage, At, RoundLabels
      <3>2. CASE Fails(w)
        BY <2>1, <3>2
      <3>3. CASE Becomes(w, [worker[w] EXCEPT !.at = AfterPage(worker[w].pagesLeft), !.page = {}])
        <4> DEFINE l == AfterPage(worker[w].pagesLeft)
                   s == [worker[w] EXCEPT !.at = l, !.page = {}]
        <4>1. worker[w] \in WorkerState /\ l \in Labels
          BY <1>1 DEF WorkersTypeOK, AfterPage, Labels
        <4> HIDE DEF l
        <4>2. s \in WorkerState /\ s.batch = worker[w].batch /\ s.fetched = worker[w].fetched
          BY <4>1 DEF WorkerState
        <4>3. Becomes(w, s)
          BY <3>3 DEF l
        <4> HIDE DEF s
        <4> QED
          BY <1>1, <3>1, <4>2, <4>3, BecomesFields
      <3> QED
        BY <2>8, <3>2, <3>3 DEF WritePage, ReplyLost
    <2>9. CASE Lease(w)
      BY <1>1, <2>9, LeaseRound DEF Lease, At, HasJobWhileWorking
    <2>10. CASE GetTransactions(w)
      BY <1>1, <2>10, GetTransactionsRound
    <2>11. CASE SaveTransactions(w) \/ SaveTransfers(w)
      BY <1>1, <2>11, SaveRound
    <2>12. CASE MarkProcessed(w)
      BY <2>12, MarkProcessedFields, RoundEmpty
    <2>13. CASE CheckReady(w)
      BY <2>1, <2>3, <2>13 DEF CheckReady, Labels, RoundLabels, At
    <2>14. CASE CommitReady(w) \/ MarkJobError(w) \/ JobStatementFails(w)
      BY <2>2, <2>14 DEF CommitReady, MarkJobError, JobStatementFails
    <2>15. CASE GetSignaturesFails(w) \/ StatementFails(w)
      BY <2>1, <2>15 DEF GetSignaturesFails, StatementFails
    <2> QED
      BY <1>3, <2>4, <2>5, <2>6, <2>7, <2>8, <2>9, <2>10, <2>11, <2>12, <2>13, <2>14, <2>15
         DEF WorkerStep
  <1>4. CASE \E v \in Workers : v # w /\ WorkerStep(v)
    BY <1>2, <1>4, WorkerFrame
  <1>5. CASE \E i \in Instances : Crash(i)
    BY <1>1, <1>2, <1>5, ForgetFields, RoundEmpty DEF Crash
  <1> QED
    BY <1>2, <1>3, <1>4, <1>5 DEF Next, vars, Submit, Expire

(***************************************************************************)
(* What the tables say of one another.                                     *)
(***************************************************************************)

\* A row becomes processed in MarkProcessed only, and the worker that marks it
\* has saved it.
LEMMA NewlyProcessed ==
    ASSUME TypeOK, [Next]_vars, SavedSoFar
    PROVE  \A r \in processed' \ processed : Saved(r[1], r[2])
  <1>1. ASSUME NEW w \in Workers, MarkProcessed(w)
        PROVE  \A r \in processed' \ processed : Saved(r[1], r[2])
    <2>1. \A s \in worker[w].fetched : Saved(Address(w), s)
      BY <1>1 DEF MarkProcessed, At, SavedSoFar
    <2>2. processed' \ processed \subseteq RowsOf(Address(w), worker[w].fetched)
      BY <1>1 DEF MarkProcessed, MarkSignaturesProcessed, Markable
    <2> QED
      BY <2>1, <2>2 DEF RowsOf
  <1>2. CASE UNCHANGED processed
    BY <1>2
  <1>3. SignatureStep => (\E w \in Workers : MarkProcessed(w)) \/ UNCHANGED processed
    BY DEF SignatureStep, WritePage, WriteSignatures, Lease, GetUnprocessedSignatures,
           Expire, LeaseExpires
  <1> QED
    BY <1>1, <1>2, <1>3, Footprint DEF sigVars

\* What is saved stays saved.
LEMMA SavedStays ==
    ASSUME TypeOK, [Next]_vars, NEW a, NEW s, Saved(a, s)
    PROVE  Saved(a, s)'
  BY TablesGrow DEF Saved

\* A row that is processed has been saved, in every reachable state.
LEMMA ProcessedNext ==
    ASSUME TypeOK, [Next]_vars, SavedSoFar, ProcessedImpliesSaved
    PROVE  ProcessedImpliesSaved'
  <1>1. \A r \in processed' : Saved(r[1], r[2])
    BY NewlyProcessed DEF ProcessedImpliesSaved
  <1> SUFFICES ASSUME NEW r \in processed' PROVE Saved(r[1], r[2])'
    BY DEF ProcessedImpliesSaved
  <1>2. Saved(r[1], r[2])
    BY <1>1
  <1> DEFINE a == r[1]
             s == r[2]
  <1>3. Saved(a, s)
    BY <1>2
  <1> HIDE DEF a, s
  <1>4. Saved(a, s)'
    BY <1>3, SavedStays
  <1> QED
    BY <1>4 DEF a, s, Saved

\* The transfers of a transaction are inserted after the transaction.
LEMMA TransfersNext ==
    ASSUME TypeOK, [Next]_vars, SavedSoFar, TransfersHaveTransaction
    PROVE  TransfersHaveTransaction'
  <1>1. ASSUME NEW w \in Workers, SaveTransfers(w) PROVE transfers' \subseteq transactions
    <2>1. \A s \in worker[w].fetched : <<Address(w), s>> \in transactions
      BY <1>1 DEF SaveTransfers, At, SavedSoFar
    <2>2. transfers' = transfers \cup RowsOf(Address(w), worker[w].fetched \cap Transferring)
      BY <1>1 DEF SaveTransfers, WriteTokenTransfers
    <2> QED
      BY <2>1, <2>2 DEF RowsOf, TransfersHaveTransaction
  <1>2. TransactionStep => (\E w \in Workers : SaveTransfers(w)) \/ UNCHANGED transfers
    BY DEF TransactionStep, SaveTransactions, WriteTransactionInfo
  <1>3. transfers' \subseteq transactions
    BY <1>1, <1>2, Footprint DEF txVars, TransfersHaveTransaction
  <1> QED
    BY <1>3, TablesGrow DEF TransfersHaveTransaction

(***************************************************************************)
(* What a job has contributed, and what its "ready" promises.              *)
(***************************************************************************)

\* synced changes for the job of a worker that writes a page, and for no other.
LEMMA SyncedSteps ==
    ASSUME TypeOK, HasJobWhileWorking, [Next]_vars, ~UNCHANGED synced
    PROVE  \E w \in Workers :
              /\ WritePage(w)
              /\ worker[w].job \in JobIds
              /\ worker[w].page \subseteq Sigs
              /\ synced' = [synced EXCEPT ![worker[w].job] = @ \cup worker[w].page]
  <1>1. PICK w \in Workers : WritePage(w)
    BY Footprint
  <1>2. worker[w] \in WorkerState
    BY DEF TypeOK
  <1> QED
    BY <1>1, <1>2 DEF WritePage, At, HasJobWhileWorking, WorkerState

\* Every step keeps what the jobs have synchronised in the table.
LEMMA SyncedNext ==
    ASSUME TypeOK, HasJobWhileWorking, [Next]_vars, SyncedIsStored
    PROVE  SyncedIsStored'
  <1>1. CASE UNCHANGED synced
    BY <1>1, TablesGrow DEF SyncedIsStored
  <1>2. ASSUME NEW w \in Workers, WritePage(w), worker[w].job \in JobIds,
               synced' = [synced EXCEPT ![worker[w].job] = @ \cup worker[w].page]
        PROVE  SyncedIsStored'
    <2>1. /\ synced \in [JobIds -> SUBSET Sigs]
          /\ stored' = stored \cup RowsOf(AddressOf[worker[w].job], worker[w].page)
      BY <1>2 DEF TypeOK, WritePage, WriteSignatures, Address
    <2> QED
      BY <1>2, <2>1 DEF SyncedIsStored, RowsOf
  <1> QED
    BY <1>1, <1>2, SyncedSteps

\* A worker comes to the commit of the update to "ready" from its snapshot.
LEMMA CommitLabel ==
    ASSUME TypeOK, PagesLeftOK, NEW w \in Workers, WorkerStep(w), worker'[w].at = "commit"
    PROVE  CheckReady(w) \/ worker'[w] = worker[w]
  <1>1. WorkersTypeOK
    BY DEF TypeOK, WorkersTypeOK
  <1>2. ~Fails(w) /\ ~Forget({w})
    BY <1>1, FailsFields, ForgetFields
  <1>3. \A l \in Labels : GoesTo(w, l) => l = "commit"
    BY <1>1, GoesToFields
  <1>4. ~ClaimCommit(w) /\ ~FetchPage(w) /\ ~WritePage(w) /\ ~GetTransactions(w) /\ ~MarkProcessed(w)
    BY ClaimCommitFields, FetchPageFields, WritePageFields, GetTransactionsFields, MarkProcessedFields
  <1>5. ~Lease(w)
    <2> SUFFICES ASSUME Lease(w) PROVE FALSE
      OBVIOUS
    <2>1. PICK b \in Batches(Address(w), LockedElsewhere(w)) :
            \/ Becomes(w, [worker[w] EXCEPT !.at = IF b = {} THEN "check" ELSE "get", !.batch = b])
            \/ ReplyLost(w)
      BY DEF Lease
    <2>2. b \in SUBSET Sigs
      BY DEF Batches, Leasable
    <2> QED
      BY <2>1, <2>2, LeaseFields
  <1>6. ~ClaimScan(w) /\ ~ClaimLock(w)
    BY <1>3 DEF ClaimScan, ClaimLock, Labels
  <1>7. ~SaveTransactions(w) /\ ~SaveTransfers(w)
    BY <1>2, <1>3 DEF SaveTransactions, SaveTransfers, ReplyLost, Labels
  <1> QED
    BY <1>2, <1>4, <1>5, <1>6, <1>7
       DEF WorkerStep, ClaimNone, vars, CommitReady, MarkJobError, JobStatementFails,
           GetSignaturesFails, StatementFails

\* Nobody else adds to the contribution of the job whose update to "ready" is
\* under way: the snapshot that the update has read still holds at its commit.
LEMMA CheckedNext ==
    ASSUME TypeOK, HasJobWhileWorking, PagesLeftOK, JobHeldByOne, SyncedIsStored,
           CheckedIsComplete, [Next]_vars
    PROVE  CheckedIsComplete'
  <1> SUFFICES ASSUME NEW w \in Workers, worker'[w].at = "commit"
               PROVE  \A s \in (synced'[worker'[w].job] \cap Window[worker'[w].job]) :
                         <<Address(w)', s>> \in processed'
    BY DEF CheckedIsComplete, Address
  <1>1. /\ WorkersTypeOK
        /\ worker[w].job \in JobIds \cup {NoJob}
        /\ synced \in [JobIds -> SUBSET Sigs]
    BY DEF TypeOK, WorkersTypeOK, WorkerState
  <1>2. CASE worker'[w] = worker[w]
    <2>1. worker[w].job \in JobIds
      BY <1>1, <1>2 DEF HasJobWhileWorking
    <2>2. synced'[worker[w].job] = synced[worker[w].job]
      <3>1. ASSUME NEW v \in Workers, WritePage(v), worker[v].job \in JobIds,
                   synced' = [synced EXCEPT ![worker[v].job] = @ \cup worker[v].page]
            PROVE  synced'[worker[w].job] = synced[worker[w].job]
        <4>1. v # w
          BY <1>2, <3>1 DEF WritePage, At
        <4>2. worker[v].job # worker[w].job
          BY <2>1, <3>1, <4>1, JobQueueAssumption DEF JobHeldByOne
        <4> QED
          BY <1>1, <2>1, <3>1, <4>2
      <3> QED
        BY <3>1, SyncedSteps
    <2>3. processed \subseteq processed'
      BY TablesGrow
    <2> QED
      BY <1>2, <2>2, <2>3 DEF CheckedIsComplete, Address
  <1>3. CASE CheckReady(w)
    <2>1. GoesTo(w, "commit") /\ ReadySelectsRow(w)
      BY <1>1, <1>3, FailsFields DEF CheckReady
    <2>2. worker[w].job \in JobIds
      BY <1>1, <1>3 DEF CheckReady, At, HasJobWhileWorking
    <2>3. worker'[w].job = worker[w].job
      BY <1>1, <2>1, GoesToFields DEF Labels
    <2>4. \A s \in Window[worker[w].job] : <<AddressOf[worker[w].job], s>> \notin stored \ processed
      BY <2>1 DEF ReadySelectsRow, UpdatesRow, HasUnprocessed
    <2>5. UNCHANGED <<synced, sigVars>>
      BY <1>3 DEF CheckReady
    <2> QED
      BY <2>2, <2>3, <2>4, <2>5 DEF SyncedIsStored, Address, sigVars
  <1>4. CASE WorkerStep(w)
    BY <1>2, <1>3, <1>4, CommitLabel
  <1>5. CASE \E v \in Workers : v # w /\ WorkerStep(v)
    BY <1>2, <1>5, WorkerFrame
  <1>6. CASE \E i \in Instances : Crash(i)
    BY <1>1, <1>2, <1>6, ForgetFields DEF Crash
  <1> QED
    BY <1>2, <1>3, <1>4, <1>5, <1>6 DEF Next, vars, Submit, Expire

\* A job is "ready" from the commit of an update whose snapshot has found its
\* contribution processed, and then its contribution does not change any more.
LEMMA ReadyNext ==
    ASSUME IndInv, [Next]_vars
    PROVE  ReadyIsComplete'
  <1>1. /\ TypeOK /\ HasJobWhileWorking /\ PagesLeftOK /\ HeldJobIsIndexing
        /\ ProcessedImpliesSaved /\ CheckedIsComplete /\ ReadyIsComplete
        /\ SavedSoFar
        /\ status \in [JobIds -> Statuses]
        /\ synced \in [JobIds -> SUBSET Sigs]
    BY DEF IndInv, TypeOK, JobTypeOK
  <1> SUFFICES ASSUME NEW j \in JobIds, status'[j] = "ready",
                      NEW s \in (synced'[j] \cap Window[j])
               PROVE  <<AddressOf[j], s>> \in processed' /\ Saved(AddressOf[j], s)'
    BY DEF ReadyIsComplete, Saved
  <1>2. (\E w \in Workers : CommitReady(w) /\ worker[w].job = j) \/ status[j] = "ready"
    <2>1. ASSUME NEW w \in Workers, CommitReady(w), worker[w].job # j
          PROVE  status[j] = "ready"
      BY <1>1, <2>1 DEF CommitReady, CommitStatus
    <2>2. ASSUME NEW w \in Workers, MarkJobError(w) PROVE status[j] = "ready"
      BY <1>1, <2>2 DEF MarkJobError, CommitStatus, jobVars
    <2>3. ASSUME NEW w \in Workers,
                 ClaimScan(w) \/ ClaimLock(w) \/ ClaimCommit(w) \/ JobStatementFails(w)
          PROVE  status[j] = "ready"
      BY <1>1, <2>3 DEF ClaimScan, ScanPending, ClaimLock, LockPending, ClaimCommit, CommitClaim,
                        JobStatementFails, RollBack
    <2>4. ASSUME NEW k \in JobIds, Submit(k) PROVE status[j] = "ready"
      BY <1>1, <2>4 DEF Submit, CreateProcessingJob
    <2>5. ASSUME NEW i \in Instances, Crash(i) PROVE status[j] = "ready"
      BY <2>5 DEF Crash, RollBack
    <2>6. CASE UNCHANGED jobVars
      BY <2>6 DEF jobVars
    <2> QED
      BY <2>1, <2>2, <2>3, <2>4, <2>5, <2>6, Footprint DEF QueueStep
  <1>3. s \in synced[j] /\ (<<AddressOf[j], s>> \in processed)
    <2>1. CASE \E w \in Workers : CommitReady(w) /\ worker[w].job = j
      BY <1>1, <2>1 DEF CommitReady, At, CheckedIsComplete, Address
    <2>2. CASE status[j] = "ready"
      <3>1. synced'[j] = synced[j]
        <4>1. ASSUME NEW w \in Workers, worker[w].job \in JobIds,
                     synced' = [synced EXCEPT ![worker[w].job] = @ \cup worker[w].page]
              PROVE  synced'[j] = synced[j]
          <5>1. worker[w].job # j
            BY <1>1, <2>2, <4>1, JobQueueAssumption DEF HeldJobIsIndexing
          <5> QED
            BY <1>1, <4>1, <5>1
        <4> QED
          BY <1>1, <4>1, SyncedSteps
      <3> QED
        BY <1>1, <2>2, <3>1 DEF ReadyIsComplete
    <2> QED
      BY <1>2, <2>1, <2>2
  <1>4. processed \subseteq processed'
    BY <1>1, TablesGrow
  <1>5. Saved(AddressOf[j], s)'
    BY <1>1, <1>3, <1>4, ProcessedNext DEF ProcessedImpliesSaved, Saved
  <1> QED
    BY <1>3, <1>4, <1>5

(***************************************************************************)
(* The theorems.                                                           *)
(***************************************************************************)

\* Every step of a worker, of a client or of a fault keeps the invariant.
LEMMA NextInv == IndInv /\ [Next]_vars => IndInv'
  <1> SUFFICES ASSUME IndInv, [Next]_vars PROVE IndInv'
    OBVIOUS
  <1>1. /\ TypeOK /\ HasJobWhileWorking /\ PagesLeftOK /\ QueueOK
        /\ BatchInRoundOnly /\ BatchIsLeased /\ SavedSoFar
        /\ ProcessedImpliesSaved /\ TransfersHaveTransaction /\ SyncedIsStored
        /\ CheckedIsComplete /\ JobHeldByOne
    BY DEF IndInv, QueueOK
  <1>2. TypeOK'
    BY <1>1, TypeNext
  <1>3. HasJobWhileWorking' /\ PagesLeftOK'
    BY <1>1, LabelsNext
  <1>4. QueueOK'
    BY <1>1, QueueNext
  <1>5. BatchInRoundOnly' /\ BatchIsLeased' /\ SavedSoFar'
    BY <1>1, RoundNext
  <1>6. ProcessedImpliesSaved'
    BY <1>1, ProcessedNext
  <1>7. TransfersHaveTransaction'
    BY <1>1, TransfersNext
  <1>8. SyncedIsStored' /\ CheckedIsComplete'
    BY <1>1, SyncedNext, CheckedNext
  <1>9. ReadyIsComplete'
    BY ReadyNext
  <1> QED
    BY <1>2, <1>3, <1>4, <1>5, <1>6, <1>7, <1>8, <1>9 DEF IndInv, QueueOK

\* The inductive invariant holds in every state that the workers, the clients
\* and the faults can reach.
THEOREM Invariance == Spec => []IndInv
  <1>1. Init => IndInv
    BY InitInv
  <1>2. IndInv /\ [Next]_vars => IndInv'
    BY NextInv
  <1> QED
    BY <1>1, <1>2, PTL DEF Spec

\* The tables and the workers' local variables keep their types; no worker
\* reads more pages than it may.
THEOREM TypeCorrect == Spec => []TypeOK
  <1>1. IndInv => TypeOK
    BY DEF IndInv
  <1> QED
    BY <1>1, Invariance, PTL

\* mark_signatures_processed never marks a signature whose transaction and
\* transfers are not in the database, for any number of workers, any batch
\* size, and any crashes, database errors and expired leases.
THEOREM ProcessedIsSaved == Spec => []ProcessedImpliesSaved
  <1>1. IndInv => ProcessedImpliesSaved
    BY DEF IndInv
  <1> QED
    BY <1>1, Invariance, PTL

\* save_transaction_data never leaves a transfer without its transaction.
THEOREM TransfersAreOwned == Spec => []TransfersHaveTransaction
  <1>1. IndInv => TransfersHaveTransaction
    BY DEF IndInv
  <1> QED
    BY <1>1, Invariance, PTL

\* claim_pending_job never gives a job to two workers, and a job that a worker
\* works on is "indexing" all the time.
THEOREM JobsAreHeldOnce == Spec => [](JobHeldByOne /\ HeldJobIsIndexing)
  <1>1. IndInv => JobHeldByOne /\ HeldJobIsIndexing
    BY DEF IndInv
  <1> QED
    BY <1>1, Invariance, PTL

\* A job that process_claimed_job has set to "ready" stays complete: all that
\* its synchronisation has stored in its window is processed and saved.
THEOREM ReadyMeansComplete == Spec => []ReadyIsComplete
  <1>1. IndInv => ReadyIsComplete
    BY DEF IndInv
  <1> QED
    BY <1>1, Invariance, PTL

\* get_unprocessed_signatures gives a signature that some worker is fetching to
\* another worker only when the five minutes of its lease are over.
THEOREM LeasesAreExclusive == Spec => LeaseExclusive
  <1> DEFINE Exclusive ==
        \A v, w \in Workers : v # w =>
           \A s \in (worker'[w].batch \ worker[w].batch) \cap worker[v].batch :
              Address(v) = Address(w) => lease[<<Address(v), s>>] = "stale"
  <1>1. IndInv /\ [Next]_vars => [Exclusive]_vars
    <2> SUFFICES ASSUME IndInv, [Next]_vars,
                        NEW v \in Workers, NEW w \in Workers, v # w,
                        NEW s \in (worker'[w].batch \ worker[w].batch) \cap worker[v].batch,
                        Address(v) = Address(w)
                 PROVE  lease[<<Address(v), s>>] = "stale"
      OBVIOUS
    <2>1. /\ TypeOK /\ PagesLeftOK /\ BatchIsLeased
          /\ lease \in [Rows -> {"free", "held", "stale"}]
          /\ WorkersTypeOK /\ stored \subseteq Rows
      BY DEF IndInv, TypeOK, SigTypeOK, WorkersTypeOK
    <2>2. Lease(w)
      <3>1. CASE UNCHANGED worker
        BY <3>1
      <3>2. CASE WorkerStep(w)
        BY <2>1, <3>2, WorkerFrame
      <3>3. CASE \E u \in Workers : u # w /\ WorkerStep(u)
        BY <2>1, <3>3, WorkerFrame
      <3>4. CASE \E i \in Instances : Crash(i)
        <4>1. worker'[w].batch \in {worker[w].batch, {}}
          BY <2>1, <3>4, ForgetFields DEF Crash
        <4> QED
          BY <4>1
      <3> QED
        BY <3>1, <3>2, <3>3, <3>4 DEF Next, vars, Submit, Expire
    <2>3. s \in Leasable(Address(w))
      <3>1. PICK b \in Batches(Address(w), LockedElsewhere(w)) :
              \/ Becomes(w, [worker[w] EXCEPT !.at = IF b = {} THEN "check" ELSE "get", !.batch = b])
              \/ ReplyLost(w)
        BY <2>2 DEF Lease
      <3>2. b \subseteq Leasable(Address(w)) /\ b \in SUBSET Sigs
        BY DEF Batches, Leasable
      <3>3. worker'[w].batch \in {b, {}}
        BY <2>1, <3>1, <3>2, LeaseFields
      <3> QED
        BY <3>2, <3>3
    <2>4. <<Address(v), s>> \in stored \ processed /\ lease[<<Address(v), s>>] # "held"
      BY <2>3 DEF Leasable
    <2>5. lease[<<Address(v), s>>] # "free"
      BY <2>1, <2>4 DEF BatchIsLeased
    <2> QED
      BY <2>1, <2>4, <2>5
  <1>2. Spec => [][Exclusive]_vars
    <2> HIDE DEF Exclusive
    <2> QED
      BY <1>1, Invariance, PTL DEF Spec
  <1> QED
    BY <1>2 DEF LeaseExclusive

(***************************************************************************)
(* The indexer implements IndexingService: each of its steps is a step of  *)
(* the service or changes nothing that the service speaks of.              *)
(***************************************************************************)

\* What the refinement mapping of Service puts for complete.
Completed == {r \in processed : Saved(r[1], r[2])}

\* What is processed is complete: the rows that the mapping leaves out are none.
LEMMA CompletedIsProcessed ==
    ASSUME ProcessedImpliesSaved
    PROVE  Completed = processed
  BY DEF ProcessedImpliesSaved, Completed

\* Before a client has submitted anything the service has not started either.
LEMMA InitService == Init => Service!Init
  BY DEF Init, JobInit, SigInit, Service!Init

\* A step that changes the status of one job is a step of the service.
LEMMA MoveStep ==
    ASSUME NEW j \in JobIds, NEW from, NEW to,
           status[j] = from, status' = [status EXCEPT ![j] = to],
           UNCHANGED <<stored, synced>>, Completed' = Completed,
           \/ from = "absent" /\ to = "pending"
           \/ from = "pending" /\ to = "indexing"
           \/ from = "indexing" /\ to = "error"
           \/ /\ from = "indexing" /\ to = "ready"
              /\ RowsOf(AddressOf[j], synced[j] \cap Window[j]) \subseteq Completed
    PROVE  Service!Next
  <1>1. Service!Move(j, from, to)
    BY DEF Service!Move, Completed
  <1>2. Service!Submit(j) \/ Service!Start(j) \/ Service!GiveUp(j) \/ Service!Finish(j)
    BY <1>1 DEF Service!Submit, Service!Start, Service!GiveUp, Service!Finish, Completed, RowsOf
  <1> QED
    BY <1>2 DEF Service!Next

\* A page that a worker writes is discovered by its job.
LEMMA DiscoverStep ==
    ASSUME IndInv, NEW w \in Workers, WritePage(w), Completed' = Completed
    PROVE  Service!Next
  <1> DEFINE j == worker[w].job
             S == worker[w].page
  <1>1. /\ j \in JobIds /\ S \in SUBSET Sigs
        /\ status[j] = "indexing"
    BY DEF IndInv, TypeOK, WritePage, At, HasJobWhileWorking, HeldJobIsIndexing, WorkerState
  <1>2. /\ stored' = stored \cup RowsOf(AddressOf[j], S)
        /\ synced' = [synced EXCEPT ![j] = @ \cup S]
        /\ status' = status
    BY DEF WritePage, WriteSignatures, Address, jobVars
  <1>3. Service!Discover(j, S)
    BY <1>1, <1>2 DEF Service!Discover, RowsOf, Completed
  <1> QED
    BY <1>1, <1>3 DEF Service!Next

\* The signatures that a worker marks are completed while its job is started.
LEMMA CompleteStep ==
    ASSUME IndInv, NEW w \in Workers, MarkProcessed(w),
           Completed = processed, Completed' = processed'
    PROVE  Service!Next
  <1> DEFINE j == worker[w].job
             S == worker[w].fetched
  <1>1. /\ j \in JobIds /\ S \in SUBSET Sigs
        /\ status[j] = "indexing"
    BY DEF IndInv, TypeOK, MarkProcessed, At, HasJobWhileWorking, HeldJobIsIndexing, WorkerState
  <1>2. RowsOf(AddressOf[j], S) \subseteq stored
    BY DEF IndInv, SavedSoFar, BatchIsLeased, RowsOf, Address
  <1>3. processed' = processed \cup RowsOf(AddressOf[j], S)
    BY <1>2 DEF MarkProcessed, MarkSignaturesProcessed, Markable, Address
  <1>4. UNCHANGED <<status, stored, synced>>
    BY DEF MarkProcessed, MarkSignaturesProcessed, jobVars
  <1>5. Service!Complete(j, S)
    BY <1>1, <1>2, <1>3, <1>4 DEF Service!Complete, RowsOf, Completed
  <1> QED
    BY <1>1, <1>5 DEF Service!Next

\* The steps on the queue are the steps of the jobs of the service.
LEMMA QueueRefines ==
    ASSUME IndInv, QueueStep, UNCHANGED <<stored, synced>>,
           Completed = processed, Completed' = Completed
    PROVE  Service!Next \/ UNCHANGED status
  <1>1. /\ status \in [JobIds -> Statuses]
        /\ \A w \in Workers : rowLock[w] \in JobIds \cup {NoJob}
        /\ \A w \in Workers : worker[w].job \in JobIds \cup {NoJob}
    BY DEF IndInv, TypeOK, JobTypeOK, WorkerState
  <1>2. ASSUME NEW w \in Workers, ClaimScan(w) \/ ClaimLock(w) \/ JobStatementFails(w)
        PROVE  UNCHANGED status
    BY <1>2 DEF ClaimScan, ScanPending, ClaimLock, LockPending, JobStatementFails, RollBack
  <1>3. ASSUME NEW w \in Workers, ClaimCommit(w) PROVE Service!Next
    <2>1. /\ rowLock[w] \in JobIds
          /\ status[rowLock[w]] = "pending"
          /\ status' = [status EXCEPT ![rowLock[w]] = "indexing"]
      BY <1>1, <1>3 DEF ClaimCommit, CommitClaim, IndInv, RowLocksOK
    <2> QED
      BY <2>1, MoveStep
  <1>4. ASSUME NEW w \in Workers, CommitReady(w) PROVE Service!Next
    <2>1. /\ worker[w].job \in JobIds
          /\ status[worker[w].job] = "indexing"
          /\ status' = [status EXCEPT ![worker[w].job] = "ready"]
      BY <1>1, <1>4 DEF CommitReady, CommitStatus, At, IndInv, HasJobWhileWorking, HeldJobIsIndexing
    <2>2. RowsOf(AddressOf[worker[w].job], synced[worker[w].job] \cap Window[worker[w].job])
             \subseteq Completed
      BY <1>4 DEF CommitReady, At, IndInv, CheckedIsComplete, Address, RowsOf
    <2> QED
      BY <2>1, <2>2, MoveStep
  <1>5. ASSUME NEW w \in Workers, MarkJobError(w) PROVE Service!Next
    <2>1. /\ worker[w].job \in JobIds
          /\ status[worker[w].job] = "indexing"
      BY <1>1, <1>5 DEF MarkJobError, At, IndInv, HasJobWhileWorking, HeldJobIsIndexing
    <2>2. status' = [status EXCEPT ![worker[w].job] = "error"]
      BY <1>5, <2>1 DEF MarkJobError, UpdatesRow, CommitStatus
    <2> QED
      BY <2>1, <2>2, MoveStep
  <1>6. ASSUME NEW j \in JobIds, Submit(j) PROVE Service!Next
    <2>1. status[j] = "absent" /\ status' = [status EXCEPT ![j] = "pending"]
      BY <1>6 DEF Submit, CreateProcessingJob
    <2> QED
      BY <2>1, MoveStep
  <1>7. ASSUME NEW i \in Instances, Crash(i) PROVE UNCHANGED status
    BY <1>7 DEF Crash, RollBack
  <1> QED
    BY <1>2, <1>3, <1>4, <1>5, <1>6, <1>7 DEF QueueStep

\* Every step of the indexer is one step of the service or none.
LEMMA NextService ==
    ASSUME IndInv, IndInv', [Next]_vars
    PROVE  [Service!Next]_Service!vars
  <1>1. Completed = processed
    BY CompletedIsProcessed DEF IndInv
  <1>2. Completed' = processed'
    BY DEF IndInv, ProcessedImpliesSaved, Completed, Saved
  <1>3. CASE \E w \in Workers : WritePage(w)
    <2>1. processed' = processed
      BY <1>3 DEF WritePage, WriteSignatures
    <2> QED
      BY <1>1, <1>2, <1>3, <2>1, DiscoverStep
  <1>4. CASE \E w \in Workers : MarkProcessed(w)
    BY <1>1, <1>2, <1>4, CompleteStep
  <1>5. CASE /\ ~ \E w \in Workers : WritePage(w)
             /\ ~ \E w \in Workers : MarkProcessed(w)
    <2>1. UNCHANGED <<stored, processed>>
      BY <1>5, Footprint
         DEF SignatureStep, Lease, GetUnprocessedSignatures, Expire, LeaseExpires, sigVars
    <2>2. UNCHANGED synced
      BY <1>5, Footprint
    <2>3. QueueStep \/ UNCHANGED status
      BY Footprint DEF jobVars
    <2>4. Service!Next \/ UNCHANGED status
      BY <1>1, <1>2, <2>1, <2>2, <2>3, QueueRefines
    <2>5. UNCHANGED status => UNCHANGED Service!vars
      BY <1>1, <1>2, <2>1, <2>2 DEF Service!vars, Completed
    <2> QED
      BY <2>4, <2>5
  <1> QED
    BY <1>3, <1>4, <1>5

\* The workers, whatever fails and however they interleave, are a correct
\* implementation of the service: process_claimed_job settles a job at most
\* once and only after it was claimed, completes signatures as a whole, and
\* never sets a job to "ready" before its contribution is complete.
THEOREM IndexerImplementsService == Spec => ImplementsService
  <1>1. Init => Service!Init
    BY InitService
  <1>2. IndInv /\ IndInv' /\ [Next]_vars => [Service!Next]_Service!vars
    BY NextService
  <1> QED
    BY <1>1, <1>2, Invariance, PTL DEF Spec, ImplementsService, Service!Spec
=============================================================================
