--------------------------- MODULE SignatureSync ---------------------------
(***************************************************************************)
(* fetch_signatures of src/indexer.rs over get_signatures of               *)
(* src/requests/client.rs: the pages of getSignaturesForAddress that one   *)
(* job reads.                                                              *)
(*                                                                         *)
(* The chain is external: a sequence that grows at its end while pages are *)
(* read.  A signature is its position, 1 is the oldest; its block time is  *)
(* the time of its arrival, or null.  A page holds the newest signatures   *)
(* before a cursor.  One unit of time is one hour.                         *)
(***************************************************************************)
EXTENDS Integers, Sequences, FiniteSets

CONSTANTS
    PageLimit,     \* the "limit" of a request, 1000 in the code
    DefaultLimit,  \* what stands for a negative tx_limit, 1000 in the code
    HoursChoices,  \* values of requested_hours
    LimitChoices,  \* values of tx_limit
    Null,          \* a block time that the service does not know
    MaxTime,       \* bound on the clock
    MaxChain       \* bound on the length of the chain

ASSUME SignatureSyncAssumption ==
    /\ PageLimit \in Nat \ {0}
    /\ DefaultLimit \in Nat
    /\ HoursChoices \subseteq Int
    /\ LimitChoices \subseteq Int
    /\ Null \notin Int
    /\ {MaxTime, MaxChain} \subseteq Nat

VARIABLES
    chain,    \* block times, oldest first
    now,      \* Utc::now()
    hours,    \* requested_hours of the job
    limit,    \* its tx_limit, as usize
    created,  \* its created_at
    at,       \* "idle", "fetch", "write", "done" or "failed"
    cursor,   \* cur_last_signature, or the position after the newest
    raw,      \* the signatures of the page
    sum,      \* signatures within the cutoff so far
    synced,   \* the signatures the job has written
    head,     \* history: the newest signature when the first page was read
    cutoff    \* the cutoff of the latest page

job == <<hours, limit, created>>
vars == <<chain, now, job, at, cursor, raw, sum, synced, head, cutoff>>

TypeOK ==
    /\ chain \in Seq(Int \cup {Null})
    /\ {now, limit, created, cursor, sum, head} \subseteq Nat
    /\ {hours, cutoff} \subseteq Int
    /\ at \in {"idle", "fetch", "write", "done", "failed"}
    /\ raw \subseteq DOMAIN chain
    /\ synced \subseteq DOMAIN chain

Init ==
    /\ chain = <<>> /\ now = 0
    /\ hours = 0 /\ limit = 0 /\ created = 0
    /\ at = "idle" /\ cursor = 0 /\ raw = {} /\ sum = 0 /\ synced = {}
    /\ head = 0 /\ cutoff = 0

-----------------------------------------------------------------------------
\* Mutant: the cast is not checked.
AsLimitUnchecked(n) == n

\* tx_limit.to_usize().unwrap_or(1000)
AsLimit(n) == IF n >= 0 THEN n ELSE DefaultLimit

\* now - requested_hours.max(0)
Cutoff == now - (IF hours >= 0 THEN hours ELSE 0)

\* The page before the cursor.
PageBefore(c) == {i \in DOMAIN chain : c - PageLimit <= i /\ i < c}

\* Of page p, the signatures that have a block time.
Timed(p) == {i \in p : chain[i] # Null}

\* take_recent_signatures_at: a signature older than the cutoff ends the page.
ReachedCutoff(p, cut) == \E i \in Timed(p) : chain[i] < cut

\* Mutant: what is older than the cutoff is kept.
RecentUnfiltered(p, cut) == Timed(p)

\* take_recent_signatures_at: newest first, what comes before the first
\* signature that is older than the cutoff; a null block time is skipped.
Recent(p, cut) == {i \in Timed(p) : \A k \in Timed(p) : k >= i => chain[k] >= cut}

-----------------------------------------------------------------------------
\* A worker begins the job that was created d hours ago.
Begin ==
    /\ at = "idle"
    /\ \E h \in HoursChoices, n \in LimitChoices, d \in 0..now :
          /\ hours' = h
          /\ limit' = AsLimit(n)
          /\ created' = now - d
    /\ at' = "fetch"
    /\ UNCHANGED <<chain, now, cursor, raw, sum, synced, head, cutoff>>

\* get_signatures: without a cursor the page begins at the newest signature.
FetchPage ==
    /\ at = "fetch"
    /\ LET c == IF cursor = 0 THEN Len(chain) + 1 ELSE cursor
       IN  /\ raw' = PageBefore(c)
           /\ sum' = sum + Cardinality(Recent(PageBefore(c), Cutoff))
           /\ head' = IF cursor = 0 THEN Len(chain) ELSE head
    /\ cutoff' = Cutoff
    /\ at' = "write"
    /\ UNCHANGED <<chain, now, job, cursor, synced>>

\* Mutant: a page without a recent signature is taken for the last one.
LastPageIfNoneRecent(p, cut, total) ==
    \/ ReachedCutoff(p, cut) \/ Recent(p, cut) = {}
    \/ Cardinality(p) < PageLimit
    \/ total >= limit

\* Mutant: tx_limit has to be exceeded.
LastPageBeyondLimit(p, cut, total) ==
    \/ ReachedCutoff(p, cut)
    \/ Cardinality(p) < PageLimit
    \/ total > limit

\* The conditions that end the loop.
LastPage(p, cut, total) ==
    \/ ReachedCutoff(p, cut)
    \/ Cardinality(p) < PageLimit
    \/ total >= limit

Oldest(p) == CHOOSE i \in p : \A k \in p : i <= k

\* Mutant: the cursor stays where it is.
NextCursorForgotten(p) == cursor

\* The last signature of the page, recent or not.
NextCursor(p) == Oldest(p)

\* Mutant: an INSERT that fails is passed over.
WritePageUnchecked ==
    /\ at = "write"
    /\ synced' \in {synced, synced \cup Recent(raw, cutoff)}
    /\ raw' = {}
    /\ IF LastPage(raw, cutoff, sum)
       THEN at' = "done" /\ UNCHANGED cursor
       ELSE at' = "fetch" /\ cursor' = NextCursor(raw)
    /\ UNCHANGED <<chain, now, job, sum, head, cutoff>>

\* write_signatures, and the end of the loop or its next turn.
WritePage ==
    /\ at = "write"
    /\ synced' = synced \cup Recent(raw, cutoff)
    /\ raw' = {}
    /\ IF LastPage(raw, cutoff, sum)
       THEN at' = "done" /\ UNCHANGED cursor
       ELSE at' = "fetch" /\ cursor' = NextCursor(raw)
    /\ UNCHANGED <<chain, now, job, sum, head, cutoff>>

\* The request or the INSERT fails: the job ends in the middle.
Fail ==
    /\ at \in {"fetch", "write"}
    /\ at' = "failed"
    /\ raw' = {}
    /\ UNCHANGED <<chain, now, job, cursor, sum, synced, head, cutoff>>

\* A transaction of the address is confirmed.
Confirm ==
    /\ Len(chain) < MaxChain
    /\ \E t \in {now, Null} : chain' = Append(chain, t)
    /\ UNCHANGED <<now, job, at, cursor, raw, sum, synced, head, cutoff>>

Tick ==
    /\ now < MaxTime
    /\ now' = now + 1
    /\ UNCHANGED <<chain, job, at, cursor, raw, sum, synced, head, cutoff>>

\* Nothing is left to do within the bounds.
Finished ==
    /\ at \in {"done", "failed"}
    /\ now = MaxTime /\ Len(chain) = MaxChain
    /\ UNCHANGED vars

Next == Begin \/ FetchPage \/ WritePage \/ Fail \/ Confirm \/ Tick \/ Finished

Spec == Init /\ [][Next]_vars

\* The worker goes on while a job is at hand.
FairSpec == Spec /\ WF_vars(FetchPage \/ WritePage)

-----------------------------------------------------------------------------
\* A synchronisation that neither failed nor ran into tx_limit has all there
\* was when it began, back to the cutoff of its last page: nothing is lost to
\* page boundaries, to null block times at the end of a page, to signatures
\* that arrive while it pages, or to a cutoff that moves on meanwhile.
SyncCovers ==
    at = "done" /\ sum < limit =>
        \A i \in 1..head : chain[i] # Null /\ chain[i] >= cutoff => i \in synced

\* At any moment, also after a failure, what the job has is contiguous: all
\* signatures with a block time from some point up to where it began.
Contiguous ==
    \A i \in synced, k \in 1..head : i < k /\ chain[k] # Null => k \in synced

\* A job never writes what is older than its requested_hours at the time it
\* was created, however late it is picked up.
WithinHours ==
    \A i \in synced : chain[i] # Null /\ chain[i] >= created - (IF hours >= 0 THEN hours ELSE 0)

\* tx_limit stops the synchronisation within one page, even when it is 0 or
\* negative.
OvershootIsOnePage ==
    Cardinality(synced) < PageLimit + (IF limit = 0 THEN 1 ELSE limit)

\* Paging ends, although the chain grows meanwhile.
SyncEnds == at = "fetch" ~> at \in {"done", "failed"}

-----------------------------------------------------------------------------
(* The inductive invariant.                                                *)

\* Time passes along the chain.
ChainOK ==
    \A i \in DOMAIN chain : chain[i] # Null =>
        /\ chain[i] <= now
        /\ \A k \in DOMAIN chain : i < k /\ chain[k] # Null => chain[i] <= chain[k]

\* Where the next page ends: its signatures are before this position.
PageEnd == IF cursor = 0 THEN head + 1 ELSE cursor

PositionsOK ==
    /\ cursor <= head
    /\ head <= Len(chain)
    /\ created <= now
    /\ at = "idle" \/ (at = "fetch" /\ cursor = 0) => head = 0 /\ cursor = 0

\* Until the last page, all that has a block time has been written, from the
\* last cursor up to where the job began.
SyncedSoFar ==
    at \in {"idle", "fetch", "write"} => synced = Timed(PageEnd .. head)

\* The page at hand is the one before that.
PageOK ==
    at = "write" =>
        /\ raw = PageBefore(PageEnd)
        /\ cutoff >= created - (IF hours >= 0 THEN hours ELSE 0)

\* sum counts what is written once the page at hand is, and another page is
\* asked for only below tx_limit.
SumOK ==
    /\ at \in {"idle", "fetch"} =>
          sum = Cardinality(synced) /\ (sum = 0 \/ sum < limit)
    /\ at = "write" =>
          /\ sum = Cardinality(synced) + Cardinality(Recent(raw, cutoff))
          /\ sum < PageLimit + (IF limit = 0 THEN 1 ELSE limit)

SyncInv ==
    /\ TypeOK /\ ChainOK /\ PositionsOK /\ SyncedSoFar /\ PageOK /\ SumOK
    /\ SyncCovers /\ Contiguous /\ WithinHours /\ OvershootIsOnePage

\* Why paging ends: a page that another one follows was full, and the other one
\* begins right behind it, so fetch_signatures asks for no more than
\* head \div PageLimit + 1 pages and for no signature twice, whatever the limit,
\* the cutoff and the null block times are.
PagesAreAdjacent ==
    [][at = "write" /\ at' = "fetch" => cursor' = PageEnd - PageLimit /\ cursor' >= 1]_vars
=============================================================================
