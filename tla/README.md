# A TLA+ model of the on-chain event indexer

The program (crate `src/src`, PostgreSQL migrations in `src/migrations`) takes Solana
addresses from clients, finds their signatures and transactions through a Helius RPC
endpoint, and stores transactions and token transfers in PostgreSQL. This directory models
the parts of it in which order, failure and concurrency decide whether it is correct, checks
them with TLC on small instances, and proves the main results with TLAPS for all instances.

Paths below are relative to the repository: `src/indexer.rs` is the Rust file,
`migrations/` the SQL.

## 1. Inventory

| Component | State | Operations | Correct when |
|---|---|---|---|
| Job queue: `src/db/jobs.rs`, `processing_data` | status of each job: pending, indexing, ready, error | `create_processing_job`, `claim_pending_job`, `update_processing_status_by_job_id`, `get_job_info` | a row is claimed once; a job is settled once; "ready" only when nothing of its window is open |
| Signature store: `src/db/signatures.rs`, `signatures` | rows (address, signature), processed flag, five-minute lease | `write_signatures`, `get_unprocessed_signatures`, `mark_signatures_processed` | two workers share a signature only after the lease has gone stale; nothing processed is reset |
| Transaction store: `src/db/transactions.rs`, `transactions`, `token_transfers` | rows | `save_transaction_data`: two INSERTs, two commits | no transfer without its transaction; repetition is harmless |
| Pipeline: `src/indexer.rs` | local variables of a worker | `process_claimed_job`, `fetch_signatures`, `process_unprocessed_signatures`, `mark_job_error` | processed implies saved; each way out settles the job |
| Worker loop: `src/main.rs` | the backoff of a worker | `worker_loop` | every pending job is claimed in the end |
| Start-up and shut-down: `src/main.rs`, `src/db.rs` | how far `main` has come, connection retries, applied migrations, the tasks | `main`, `Database::new`, `migrate` | nothing is served before the schema is complete; a start ends in a process that serves or exits |
| Synchronisation: `fetch_signatures` and `get_signatures` | cursor, number of signatures so far, cutoff | one page after the other | what is stored has no hole and covers the cutoff; it ends |
| RPC client: `src/requests/client.rs` | semaphore, governor, `rate_limit_until`, `last_rate_limit_at`, backoff | `send_rpc_request`, `register_rate_limit`, `reset_rate_limit_backoff_if_idle`, the retry loops | bounded concurrency; a cooldown stops all calls; every call returns |
| Batches of transactions: `get_transaction`, `fetch_transaction_chunk` | position in the batch, window of `buffered(5)`, the vectors of results and errors | chunk after chunk | each signature ends up in one of the two vectors; the call returns |
| Backoff: `src/backoff.rs` | current delay | `step_and_get_sleep_duration`, `reset` | bounded delays and sleeps |
| HTTP server: `src/server.rs` | none | submit an address, read a job, health | what it reports of a "ready" job agrees with the status |
| Transfer parser: `src/requests/types.rs` | none; its result becomes rows of `token_transfers` | `calculate_token_transfer` and its helpers | the transfers account for what the instructions do; one row a transfer, however often it is saved |
| Settings, telemetry, logging, shared types, fixture updater | none that matters | configuration, output | |

Interactions. The server and the workers meet only in the table `processing_data`. The
workers (tasks of one process, and of any number of processes) share the tables and
nothing else; every statement runs in a transaction of its own at READ COMMITTED. The
workers of one process also share one RPC client. No state survives a crash but the tables,
and nothing at start-up looks for what a dead process left in them.

What is hard, with the line where it bites, is listed under `hazards` in `PROJECT.json`. The
main groups are: the claim, which decides on a snapshot and locks afterwards; leases that
expire while their holder is at work, and a mark that does not ask who holds them; the
statements of a round, any of which may fail, or take effect and lose its reply; crashes;
the update to "ready", which decides on a snapshot and commits later; pages of a chain that
grows under a cutoff that moves; the RPC client, whose three pieces of shared state sit
behind three locks that are taken one after the other; answers that overtake each other within
the window of a batch; transactions that are parsed and saved more than once; and processes
that start together on one database.

## 2. Modules

| Module | Models |
|---|---|
| `Schema` | the composite key of the tables |
| `JobQueue` | `processing_data` and the statements on it |
| `SignatureStore` | `signatures`, the lease, and the statements on it |
| `TransactionStore` | `transactions` and `token_transfers` |
| `Indexer` | the workers and the pipeline; EXTENDS the three tables and composes them |
| `IndexerProperties` | properties of `Indexer`, and the inductive invariant `IndInv` |
| `IndexingService` | abstract specification: what the indexer promises its clients |
| `IndexerProofs` | the TLAPS proofs about `Indexer`, and that it implements `IndexingService` |
| `SignatureSync` | the pages of one synchronisation, in the detail that `Indexer` leaves out |
| `Backoff` | `WorkerBackoff` |
| `RpcClient` | concurrent calls of the RPC client, lock by lock |
| `BatchFetch` | abstract specification: what `get_transaction` promises the pipeline |
| `TransactionFetch` | the chunks and the window of `get_transaction` |
| `TransferParser` | `calculate_token_transfer`, and the rows that are made of its result |
| `Startup` | `main` and `Database::new` of several processes on one database; EXTENDS `Backoff` |
| `FaultFreeProofs` | the TLAPS proofs about `Indexer` with fewer faults or a single worker, and about `get_job_info` |
| `SignatureSyncProofs`, `RpcClientProofs`, `TransactionFetchProofs`, `TransferParserProofs`, `StartupProofs` | the TLAPS proofs about these modules |
| `Recursion` | two lemmas for induction over an interval, which the proofs about recursive functions use |
| `MC*` | values of the constants for TLC |

How state and actions correspond to the code:

* **A worker is a sequential program.** `worker[w].at` names the statement or the RPC call it
  is at. Whatever runs between two awaits is part of the action before it. A statement is one
  action, but for the two whose snapshot and commit can be told apart by another session: the
  claim (`ClaimScan`, `ClaimLock`, `ClaimCommit`: snapshot of the CTE, row lock of `FOR
  UPDATE SKIP LOCKED`, commit) and the update to "ready" (`CheckReady`, `CommitReady`). The
  lease and the mark are single steps: they lock the rows they change, skip or wait for locked
  ones, and re-evaluate every condition on the row they have locked, so overlapping ones end
  as if they had run in some order. A lease may also pass over rows that the unfinished lease or mark of another
  worker has locked (`LockedElsewhere`), even if that statement then fails. The update to "error" depends on its own row only.
* **Errors.** `Fails` is an `Err` inside `process_claimed_job`, which leads to
  `mark_job_error`. `StatementFails` is a statement that the database refuses;
  `ReplyLost` one that commits and is reported as an error all the same.
  `JobStatementFails` is the same for statements on the queue, which the code only logs: a job
  whose last update is refused stays "indexing". `Crash` loses the workers of one process
  with their snapshots and locks. The constant `Faults` says which kinds of fault may happen.
* **Leases** are "free", "held" or "stale"; `Expire` may turn any held one stale at any time,
  which stands for five minutes passing anywhere.
* **The RPC service** of `Indexer` answers with any set of signatures, and any page may be the
  last. What the code makes of a page (cursor, cutoff, `tx_limit`, null block times) is the
  subject of `SignatureSync`, where the chain is a growing sequence.
* **Batches.** `GetTransactions` of `Indexer` takes all of `get_transaction` as one step. `BatchFetch` states that
  step's promise, signature by signature, and `TransactionFetch` implements it: `started`, `yielded` and `base` are
  the positions that `buffered` and `chunks` keep. One call of a signature is begun (`Start`) and answered
  (`Answer`); what it does in between is a call of `RpcClient`.
* **Transactions** of `TransferParser` are records of the shape that the `jsonParsed` encoding gives them, and the
  helpers are operators that bear the names of the functions. The two loops are actions, so that a transaction can be
  parsed and saved again (`Refetch`) after its signature was not marked. `rows` has set semantics because the unique
  index of migration `20260511060000` covers every column, takes nulls for equal, and `ON CONFLICT DO NOTHING` drops
  what is there.
* **Start-up.** `phase[p]` is the await that `main` of process `p` is at. sqlx's migrator is external: it takes an
  advisory lock of its session, applies what is missing, one transaction per migration, and gives the lock back; a
  session that ends gives it back too.
* **`get_job_info`** only reads; `RemainingTransactions` is what it answers, and `ReadyHasNothingRemaining` relates it
  to the status.
* `synced`, `owed`, `sent`, `head`, `waited` and `reason` are history variables: they record, and nothing depends on them.
* **Time** in `RpcClient` is kept as the time left until each instant, so no clock grows.

`Window[j]` is the part of the signatures with a block time between `created_at -
requested_hours` and `created_at`, the condition of the ready check.

## 3. Runs

Every run checks for deadlock as well.

| Run | Instance | What it shows |
|---|---|---|
| `faults` | two processes with a worker each, two jobs of one address with different windows, two signatures (one with transfers), batches of two, two pages, every fault | nothing is marked processed before it is saved (`ProcessedImpliesSaved`), no transfer without its transaction, jobs and leases in single hands (`JobHeldByOne`, `LeaseExclusive`), "ready" never premature (`ReadyIsComplete`) and reported with a remainder only on account of another job of the address (`ReadyHasNothingRemaining`), and the whole implements the abstract service (`ImplementsService`) |
| `clean` | three jobs, two of them of one address, batches of one, leases that expire, no other fault | a job ends in "error" only if a rival job of its address was claimed too (`ErrorHasRival`); no unprocessed signature stays leased with nobody at work on it (`LeaseHasWorker`) |
| `live` | one process, two workers, RPC failures and expiring leases, fairness | every submitted job is settled (`EveryJobSettles`); no "indexing" job without a worker (`IndexingHasWorker`) |
| `single` | one worker, every fault | at most one job of an address is active (`OneActiveJobPerAddress`) |
| `race` | two workers, no fault | **violation** of `OneActiveJobPerAddress`, see section 6 |
| `sync` | pages of two, a chain that grows to five, null block times, a clock that moves twice, every kind of `requested_hours` and `tx_limit` | a complete synchronisation covers everything back to its cutoff (`SyncCovers`), has no hole even after a failure (`Contiguous`), stays within `requested_hours` (`WithinHours`) and within a page of `tx_limit` (`OvershootIsOnePage`), and ends (`SyncEnds`) |
| `rpc_safe` | four calls, two permits, one retry, any reply | no more requests are out than permits, also during a cooldown (`ConcurrencyIsBounded`, `FewSentDuringCooldown`), and a retry waits for as long as it was told, unless no `Instant` is that far away (`RetryHonoursDelay`) |
| `rpc_live` | two calls, one permit, two retries, a `Retry-After` that overflows among the replies, fairness | every call returns (`EveryCallReturns`) |
| `strand` | two processes with a worker each, three jobs of two addresses, RPC failures, database errors, crashes, fairness | once the faults cease, every job is settled, unless a job of its own address was left "indexing" with no worker (`OnlyStrandedBlock`) |
| `fetch` | batches of 1, 3, 4, 6, 8 and 9 signatures, chunks of four, a window of three, fairness | the calls that are out stay in the window and in the chunk (`CallsStayInWindow`), results and errors follow the order of the batch (`ResultsFollowBatch`), each signature is settled once before the call returns (`ImplementsBatchFetch`), and it returns (`FetchReturns`) |
| `parser` | every transaction of one or two out of eight instructions, with groups of inner ones, and four pairs of balance lists | the transfers account for what the transfer, mint and burn instructions do to tokens and lamports, by a definition of its own (`TransfersExplainBalances`; the amounts of the balance lists are not compared), with the owners that the accounts end up with (`OwnersAreLatest`), the token's own mint and decimals (`TransfersAreResolved`), and the place of their instruction (`KeysPointBack`); a save, and any repetition, leaves one row per transfer (`RowPerTransfer`) |
| `startup` | two processes, one with two workers and one with none, the four migrations and five retries of the code, fairness | nothing is served on an incomplete schema (`ServesMigrated`), a process gives up on the database only after all its attempts, with the sleeps between them growing as the backoff does (`PatientConnect`), and every start ends in serving or in exit, also when the server exits (`StartSettles`) |

Each property comes with a mutant in `PROJECT.json`: a plausible bug in one definition under
which TLC finds the property violated. The mutants are the definitions marked `Mutant:`.

**Why the bounds are enough.** Two workers are needed for each race here, and no statement
looks at more than one other session: two jobs of one address compete for leases, for the
claim and for the ready check. Two signatures make a batch that can fail in part, and a batch
of one with something left over (`BatchLimit = 1` in `clean`, `single` and `race`). One of
them has transfers and one has none. Two pages give one that is followed by another. Three
jobs, with two addresses, show that jobs of different addresses leave each other alone. In
`sync`, two pages of two and a part of a third give every boundary between pages, the cutoff
within and between pages, and arrivals before, between and after them; `MaxTime` and
`MaxChain` bound the clock and the chain. In `rpc_safe` two calls hold permits, one waits for a
permit and one is in a cooldown; with `MaxRetries = 2` in `rpc_live` the backoff grows twice. The values of
`Retry-After` are none, one that is obeyed, and one beyond `FarthestDelay`. In `strand` one address has two jobs, so one can be stranded and block the other, and the
other address has one, which must not be blocked. In `fetch` the window is smaller than a chunk, and batches end within,
at and after the end of a chunk. In `parser` each kind of transfer, mint and burn occurs at the outer or the inner
level, next to instructions that are none; accounts are in the message or in an address table, known before, after,
on both sides with different owners, or not at all; two instructions are enough because the parser treats each by
itself, and only their places relate them. `startup` uses the numbers of the code. Symmetry is used only for the workers and for calls of the same kind,
and in no run with a liveness property.

**Fairness.** Liveness is checked under weak fairness of each worker (`FairSpec` of `Indexer`): a
worker is a tokio task of its own (`src/main.rs:39-46`) that the runtime keeps polling. It
includes the assumption that every statement and every request is answered, one way or the
other. The HTTP client has no timeout, so for requests this is an assumption about the network
and not something the code brings about. Expiry, crashes, clients and the choice between success and failure are not
fair. `RpcClient` adds fairness of time and of each call; the semaphore is first come, first
served, and a call takes a permit a bounded number of times, so weak fairness suffices.
`SignatureSync` assumes fairness of its worker only; the chain may grow or not. `TransactionFetch` assumes that its task is polled and that each call returns, which is
`EveryCallReturns`. `Startup` assumes that `main` is polled and that what it awaits ends (weak fairness of `MainStep`),
and that PostgreSQL hands the advisory lock to those that wait for it in turn: another process may take and return the
lock again and again, so this is strong fairness. Failures, kills, restarts and the end of the server are not fair.

`live` leaves out database errors and crashes for a reason: with them `EveryJobSettles` does
not hold. A job whose last status update is refused, or whose process dies, stays "indexing"
for ever, and by the `NOT EXISTS` of the claim it blocks every later job of its address. No line
of the repository claims otherwise. `strand` shows that this is all the harm: when, from some time on, no process dies
and no statement on a job is refused (`FaultsCease`), every other address goes on.

## 4. Proofs

`IndexerProofs` proves for every number of workers, addresses, signatures, jobs and
pages, every batch limit, every assignment of jobs to addresses and windows, and every set of faults:

| Theorem | Statement |
|---|---|
| `Invariance` | `Spec => []IndInv` |
| `TypeCorrect` | `Spec => []TypeOK` |
| `ProcessedIsSaved` | `Spec => []ProcessedImpliesSaved` |
| `TransfersAreOwned` | `Spec => []TransfersHaveTransaction` |
| `JobsAreHeldOnce` | `Spec => [](JobHeldByOne /\ HeldJobIsIndexing)` |
| `ReadyMeansComplete` | `Spec => []ReadyIsComplete` |
| `LeasesAreExclusive` | `Spec => LeaseExclusive` |

Assumptions: the `ASSUME`s of the modules, which only give the constants their types (job identifiers
are numbers, `NoJob` is none of them, limits are positive, a process is a set of workers).

The argument. None of the properties is inductive alone; `IndInv` adds what they rest on:

* A job is held once because a row lock is (`RowLocksOK`): a lock is on a "pending" row, one
  session has it, and that session is about to commit. A held job is "indexing"
  (`HeldJobIsIndexing`), so it cannot be claimed again.
* Processed implies saved because a round's statements come in order (`SavedSoFar`): at
  "transfers" the worker's transactions are there, at "mark" everything is. Rows
  are never deleted, so no rival can undo it.
* A lease is exclusive because what a worker has in its batch stays leased until it is processed,
  whoever processes it (`BatchIsLeased`, `BatchInRoundOnly`): a row that is processed is not
  leasable, and one that is not can only be leased again when it is stale.
* "ready" is not premature although the update decides on a snapshot and commits later
  (`CheckedIsComplete`): between the two, only the job itself could add to its own
  contribution `synced[j]`, and its one worker is busy committing. This is why the property speaks of
  what the job itself has synchronised; a rival may add rows to the window at any time, even
  between snapshot and commit.

The proof goes action by action: frame lemmas first (`WorkerFrame`, `Footprint`: what a step can
change), then one lemma per part of the invariant.

`IndexerImplementsService`, in the same module, is `Spec => ImplementsService`, from the same invariant. Two facts carry it:
under `ProcessedImpliesSaved` the rows that the mapping calls complete are exactly the processed ones, so
saving a transaction is a stutter and marking it is the service's `Complete`; and `CheckedIsComplete`
is the guard of the service's `Finish`.

`RpcClientProofs` proves `TypeOK`, `ConcurrencyIsBounded`, `FewSentDuringCooldown` and
`RetryHonoursDelay` for any calls, permits, retries and delays, and any `FarthestDelay`, from `RpcInv`: permits are free or held
(`PermitsAreKept`); what was sent during a cooldown and what waits at the governor had a permit when
it began (`SentHadPermit`: nobody passes the second check meanwhile); the delay a call was told is covered by its timer until it is
registered, then by the cooldown, which is only ever prolonged or counted down together with the
delay (`DelayIsCovered`). Both speak of delays that an `Instant` can be advanced by. A longer one sets no cooldown
(`TimeUntil`), and since `SetUntil` never brings the cooldown forward, it does not cut short what others were told.

`SignatureSyncProofs` proves `SyncCovers`, `Contiguous`, `WithinHours` and `OvershootIsOnePage` for any page
size, chain, hours and limit, from `SyncInv`: until the last page, what is written is exactly what has a block
time between the cursor and the newest signature of the first page (`SyncedSoFar`), the page at hand ends there
(`PageOK`), block times do not decrease (`ChainOK`), and `sum` is the number of rows (`SumOK`). From the same invariant it
proves the action property `PagesAreAdjacent`: a page that another one follows was full, and the other begins right behind
it. This is the step of the argument for `SyncEnds` that the prover can do: the cursor goes down by `PageLimit` with each page,
whatever the limit, the cutoff and the null block times are, so the number of pages is bounded by the chain.

`FaultFreeProofs` adds what depends on the faults that may happen, on top of `IndInv`:

| Theorem | Assumes | Statement |
|---|---|---|
| `ReadyIsReportedComplete` | nothing | `Spec => []ReadyHasNothingRemaining` |
| `SingleWorkerTakesTurns` | one worker | `Spec => []OneActiveJobPerAddress` |
| `IndexingIsHeld` | no database errors, no crashes | `Spec => []IndexingHasWorker` |
| `LeasesHaveWorkers` | no fault but expiring leases | `Spec => []LeaseHasWorker` |
| `ErrorsHaveRivals` | no fault but expiring leases | `Spec => []ErrorHasRival` |

The first needs that every row was stored by some job of its address (`StoredIsSynced`). The second needs that what a
single worker has seen in its snapshot is still so when it locks and commits (`ClaimIsCurrent`); run `race` shows that
two workers break exactly this. The last two are proved together as `CalmInv`: without faults a round succeeds for its
whole batch (`WholeBatch`), so every lease is in a worker's hands, and a job that finds something unprocessed at the end
of its rounds has met the lease or the row lock of another worker, whose job is of the same address (`BlockedHasRival`).

`TransactionFetchProofs` proves `TypeOK`, `CallsStayInWindow` and the refinement `ImplementsBatchFetch` for any batches, chunk
size and window, from `FetchInv`: the positions follow each other within chunk and window (`PositionsOK`), a call has an
outcome before it is handed on (`OutcomesOK`), and the vectors hold exactly what was handed on (`VectorsOK`). A chunk's
end is then the service's `Settle`, everything else but the return a stutter. `ResultsAreInOrder` proves `ResultsFollowBatch`
from `OrderOK`: each vector is the part of the batch, up to the last position handed on, whose outcome is that vector's
(`InOrder`, a recursive function of the position). A call that is answered out of turn leaves the positions before
`yielded` alone (`PickedPrefix`), and `Yield` appends the very position the function looks at next.

`TransferParserProofs` proves every property of run `parser` for any set of transactions, with any number of instructions,
groups, accounts and balances. `TypeOK`, `RowPerTransfer` and `KeysPointBack` follow from `ParserInv`: the transfers
so far are those of the places the loops have passed (`OutIsExact`), no two name the same place (`KeysAreDistinct`), and
what was saved is all of them (`RowsOK`). Then:

* `OwnersAreLatest`: the map of `token_account_meta_map` has, of the balances that were inserted for an account, the last
  one (`MetaMapKnowsLast`, by induction over the balances), and "the last" is the balance after the transaction if there is
  one (`MapPrefersSecond`).
* `TransfersAreResolved`: whichever end of a token instruction is known, it has the mint and the decimals of the
  instruction, so it does not matter that `parse_spl_transfer` asks the source first.
* `TransfersExplainBalances`: `SumsOK` compares, account by account and asset by asset, the sum over the transfers so
  far with the sum over the effects of the instructions that the loops have passed. One transfer says exactly what its
  instruction does (`TransferSaysEffect`), and both sums grow by the same summand in each step (`TotalOfNext`).

What is assumed of the transactions is stated in `TransferParser` and listed in section 5.

`StartupProofs` proves `TypeOK`, `ServesMigrated` and `PatientConnect` for any processes, migrations, retries, delays and worker
counts, from `StartupInv`: tasks exist only after the migrations (`TasksAfterMigration`), whoever migrates has the lock
(`LockIsHeld`), and the current delay is that of `Schedule` and the
sleeps so far are no less than its sum, for the retries so far (`SleptSoFar`).

TLC has confirmed the inductive invariants too: `IndInv` and `RpcInv` on the instances of `faults` and `rpc_safe` (with
three calls); `SyncInv` and `PagesAreAdjacent` on that of `sync`; `FetchInv` and `OrderOK` on `fetch`; `ParserInv` and
`SumsOK` on `parser`; `StartupInv` on `startup`; `StoredIsSynced`, `ClaimIsCurrent` and `CalmInv` on `faults`, `single` and
`clean`. Being proved, they are not repeated in the runs.

**Induction over data.** The induction theorems of the library take a predicate as a parameter, which the provers at hand
cannot instantiate. `Recursion` states induction over an interval with a set in place of the predicate
(`IntervalInduction`), from the fact that a set of naturals has a least element. That a recursive function exists and
satisfies its equation, which TLA+ does not give for free, is proved for each of the four that occur (`PickedEquation`,
`MetaMapSolution`, `TotalSolution`, `ScheduleEquation`): a solution on `0 .. m` extends to one on `0 .. m + 1`, so there is one on the whole
domain, and the definition denotes one.

Only model-checked: liveness (`EveryJobSettles`, `OnlyStrandedBlock`, `EveryCallReturns`, `SyncEnds`, `FetchReturns`,
`StartSettles`), which needs fairness and `ENABLED` and is outside the reach of the prover. Every invariant and every
refinement of the passing runs is proved.

## 5. What is not modelled, and what is assumed

* In the transfer parser, the columns that no other one depends on: `amount_ui` (floating point), `authority`, and
  `direction`, which is always "unknown". Instructions that move tokens or lamports under another name
  (`transferCheckedWithFee`, `createAccount`, `closeAccount`, ...) are none of its transfers, and the properties follow the
  code in that. `meta.err` is not consulted by the code, so a transaction that failed has rows too; `TransfersExplainBalances`
  is about transactions that succeeded.
* `Transferring` of `Indexer` keeps of all this only whether a transaction has transfers.
* Parsing of `Retry-After`; its value is any of a small set. It is read as a `u64`, and a number of seconds that no `Instant`
  can be advanced by (about 2^63) makes `register_rate_limit` take the present for the end of the cooldown, so the call
  retries at once. `RetryHonoursDelay` leaves these replies out, and the model does not.
* A worker that panics: `worker_loop` has no way out, and a panic would end one task of the process.
* The number of rows of a statement and its 65535 parameters.
* Settings, telemetry, logging, shared types and the fixture updater: configuration that becomes constants here, output,
  declarations, and a developer's tool. None of them has state that a property could be about.
* Assumed of the environment: block times do not decrease along the chain; a response carries the signature that was
  asked for; `READ COMMITTED` works as PostgreSQL documents it.
* Assumed of the transactions that the service answers with (`TransferParserAssumption`, `BalancesAssumption`,
  `InstructionsAssumption`; TLC evaluates them on the instance of `parser`): the inner instructions of an instruction are in
  one group; an account has at most one balance before and one after the transaction, with a mint and decimals; a token
  instruction moves tokens between accounts of one mint, which is the one it names if it names one; a mint or a burn
  names its `account` and has no other end; a system transfer has its lamports. The assumption on mints excludes an account that
  is closed and created again for another mint within one transaction. Nothing is assumed about which fields an
  instruction has beyond that, about programs that are none of these, about accounts without a balance, or about
  amounts that are absent or do not parse.
* In `SignatureSync` the cutoff of a page is taken at the moment its answer arrives, as `Utc::now()` in
  `take_recent_signatures_at`'s caller is.

## 6. Findings

`src/README.md:191` says that `processing_data` prevents duplicate active jobs for the same address
through a unique index on `address`. The migration `20260505142800` drops that index, and what is
left, the `NOT EXISTS` of `claim_pending_job`, is evaluated on a snapshot. Run `race`: two
workers take their snapshots while both jobs are pending, lock one each (`SKIP LOCKED` keeps
them on different rows), and both commit. Nothing that is proved above depends on it: leases keep
the two apart. The price is `ErrorHasRival`: one of the two may find everything leased
to the other, end its rounds early, and be marked as an error because the ready check then
finds unprocessed signatures.

## 7. Plan

Done: the job queue, the stores, the pipeline with every fault, the abstract service, the
synchronisation, the RPC client with the batches of transactions, the transfer parser, start-up; the
safety properties of all of them proved, with two refinements.

Left:

1. Action properties that carry the other liveness arguments, as `PagesAreAdjacent` does for `SyncEnds`: for
   `EveryCallReturns` that a call uses up its retries, for `FetchReturns` that the positions never go back.
2. A refinement between `SignatureSync` and the page loop of `Indexer`.
