-------------------------- MODULE TransactionFetch --------------------------
(***************************************************************************)
(* HeliusApi::get_transaction of src/requests/client.rs: the transactions  *)
(* of a batch, chunk by chunk, with the calls of a chunk in a window of    *)
(* buffered(5).                                                            *)
(*                                                                         *)
(* A call of fetch_transaction_by_signature is begun and answered here;    *)
(* what happens in between is the subject of RpcClient.  Answers come in   *)
(* any order; buffered hands them on in the order of the batch, and counts *)
(* an answer that is not handed on yet among the calls of its window.      *)
(* fetch_transaction_chunk sorts the outcomes into its two vectors after   *)
(* the last one; here each is sorted when it is handed on, which nothing   *)
(* can tell apart.                                                         *)
(***************************************************************************)
EXTENDS Naturals, Sequences, FiniteSets, Functions

CONSTANTS
    Sigs,       \* transaction signatures
    Batches,    \* the batches that get_unprocessed_signatures may return
    ChunkSize,  \* the chunks(10) of get_transaction
    Buffered    \* the buffered(5) of fetch_transaction_chunk

\* A lease returns each of its rows once.
ASSUME TransactionFetchAssumption ==
    /\ \A b \in Batches : b \in Seq(Sigs) /\ IsInjective(b)
    /\ ChunkSize \in Nat \ {0}
    /\ Buffered \in Nat \ {0}
    /\ IsFiniteSet(Sigs)

VARIABLES
    at,           \* "fetch", the "pause" of 100 ms after a chunk, "returned"
    batch,        \* the signatures asked for
    base,         \* signatures in the chunks before this one
    started,      \* calls that have been begun
    yielded,      \* outcomes that buffered has handed on
    outcome,      \* of each call: "none", "out", "ok" or "error"
    chunkOk,      \* processed_signatures of the chunk, and its transactions
    chunkFailed,  \* failed_signatures of the chunk, and its errors
    processed,    \* the same of the whole batch
    failed

vars == <<at, batch, base, started, yielded, outcome,
          chunkOk, chunkFailed, processed, failed>>

\* Type correctness, with the order of the three positions.
TypeOK ==
    /\ at \in {"fetch", "pause", "returned"}
    /\ batch \in Batches
    /\ {base, started, yielded} \subseteq 0 .. Len(batch)
    /\ base <= yielded /\ yielded <= started
    /\ outcome \in [1 .. Len(batch) -> {"none", "out", "ok", "error"}]
    /\ {chunkOk, chunkFailed, processed, failed} \subseteq Seq(Sigs)

Init ==
    /\ at = "fetch"
    /\ batch \in Batches
    /\ base = 0
    /\ started = 0
    /\ yielded = 0
    /\ outcome = [i \in 1 .. Len(batch) |-> "none"]
    /\ chunkOk = <<>>
    /\ chunkFailed = <<>>
    /\ processed = <<>>
    /\ failed = <<>>

-----------------------------------------------------------------------------
\* Mutant: the last chunk is taken to be a full one.
FullChunkEnd == base + ChunkSize

\* The end of the current chunk; the last one may be short.
ChunkEnd == IF base + ChunkSize <= Len(batch) THEN base + ChunkSize ELSE Len(batch)

\* Mutant: the window only counts the calls that are out.
StartUnordered ==
    /\ at = "fetch"
    /\ started < ChunkEnd
    /\ Cardinality({i \in 1 .. Len(batch) : outcome[i] = "out"}) <= Buffered
    /\ started' = started + 1
    /\ outcome' = [outcome EXCEPT ![started + 1] = "out"]
    /\ UNCHANGED <<at, batch, base, yielded, chunkOk, chunkFailed, processed, failed>>

\* buffered begins the next call of the chunk while there is room.
Start ==
    /\ at = "fetch"
    /\ started < ChunkEnd
    /\ started - yielded < Buffered
    /\ started' = started + 1
    /\ outcome' = [outcome EXCEPT ![started + 1] = "out"]
    /\ UNCHANGED <<at, batch, base, yielded, chunkOk, chunkFailed, processed, failed>>

\* fetch_transaction_by_signature returns: always with an outcome.
Answer(i) ==
    /\ outcome[i] = "out"
    /\ \E o \in {"ok", "error"} : outcome' = [outcome EXCEPT ![i] = o]
    /\ UNCHANGED <<at, batch, base, started, yielded, chunkOk, chunkFailed, processed, failed>>

\* The outcome of the oldest call is there.
HeadAnswered == yielded < started /\ outcome[yielded + 1] \in {"ok", "error"}

\* Mutant: an outcome is handed on as soon as it is there.
YieldAny ==
    /\ at = "fetch"
    /\ yielded < started
    /\ \E i \in base + 1 .. started :
          /\ outcome[i] \in {"ok", "error"}
          /\ batch[i] \notin Range(chunkOk) \cup Range(chunkFailed)
          /\ IF outcome[i] = "ok"
             THEN chunkOk' = Append(chunkOk, batch[i]) /\ UNCHANGED chunkFailed
             ELSE chunkFailed' = Append(chunkFailed, batch[i]) /\ UNCHANGED chunkOk
    /\ yielded' = yielded + 1
    /\ UNCHANGED <<at, batch, base, started, outcome, processed, failed>>

\* Mutant: an error ends the stream.
YieldStopping ==
    /\ at = "fetch"
    /\ HeadAnswered
    /\ outcome[yielded + 1] = "ok"
    /\ chunkOk' = Append(chunkOk, batch[yielded + 1])
    /\ yielded' = yielded + 1
    /\ UNCHANGED <<at, batch, base, started, outcome, chunkFailed, processed, failed>>

\* The outcome of the oldest call is handed on, and sorted.
Yield ==
    /\ at = "fetch"
    /\ HeadAnswered
    /\ IF outcome[yielded + 1] = "ok"
       THEN chunkOk' = Append(chunkOk, batch[yielded + 1]) /\ UNCHANGED chunkFailed
       ELSE chunkFailed' = Append(chunkFailed, batch[yielded + 1]) /\ UNCHANGED chunkOk
    /\ yielded' = yielded + 1
    /\ UNCHANGED <<at, batch, base, started, outcome, processed, failed>>

\* Mutant: a chunk without a transaction is passed over.
EndChunkUnlessEmpty ==
    /\ at = "fetch"
    /\ yielded = ChunkEnd
    /\ IF chunkOk = <<>>
       THEN UNCHANGED <<processed, failed>>
       ELSE processed' = processed \o chunkOk /\ failed' = failed \o chunkFailed
    /\ chunkOk' = <<>>
    /\ chunkFailed' = <<>>
    /\ base' = yielded
    /\ at' = "pause"
    /\ UNCHANGED <<batch, started, yielded, outcome>>

\* The chunk is complete: its transactions are parsed (TransferParser), and its
\* vectors appended to those of the batch.
EndChunk ==
    /\ at = "fetch"
    /\ yielded = ChunkEnd
    /\ processed' = processed \o chunkOk
    /\ failed' = failed \o chunkFailed
    /\ chunkOk' = <<>>
    /\ chunkFailed' = <<>>
    /\ base' = yielded
    /\ at' = "pause"
    /\ UNCHANGED <<batch, started, yielded, outcome>>

\* The pause is over: the next chunk, or all of them are done.
Resume ==
    /\ at = "pause"
    /\ at' = IF base < Len(batch) THEN "fetch" ELSE "returned"
    /\ UNCHANGED <<batch, base, started, yielded, outcome, chunkOk, chunkFailed, processed, failed>>

\* The call has returned.
Returned == at = "returned" /\ UNCHANGED vars

Next ==
    \/ Start
    \/ \E i \in 1 .. Len(batch) : Answer(i)
    \/ Yield \/ EndChunk \/ Resume \/ Returned

Spec == Init /\ [][Next]_vars

\* The task is polled, and every call returns (EveryCallReturns of RpcClient).
Fairness ==
    /\ WF_vars(Start \/ Yield \/ EndChunk \/ Resume)
    /\ \A i \in 1 .. Cardinality(Sigs) : WF_vars(i <= Len(batch) /\ Answer(i))

FairSpec == Spec /\ Fairness

-----------------------------------------------------------------------------
\* The calls that are out are a window of the current chunk: never more than
\* buffered allows, and none while an earlier chunk or the pause is not over,
\* however the answers overtake each other.
Out == {i \in 1 .. Len(batch) : outcome[i] = "out"}

CallsStayInWindow ==
    /\ Cardinality(Out) <= Buffered
    /\ \A i \in Out : at = "fetch" /\ base < i /\ i <= ChunkEnd

\* The members of sequence b whose outcome in oc is o, in their order: those among
\* the first n, for every n.
Picked(b, oc, o) ==
    LET first[n \in 0 .. Len(b)] ==
            IF n = 0 THEN <<>>
            ELSE IF oc[n] = o THEN Append(first[n - 1], b[n]) ELSE first[n - 1]
    IN  first

\* The signatures of the first n calls with outcome o, in the order of the batch.
InOrder(n, o) == Picked(batch, outcome, o)[n]

\* processed_signatures and failed_signatures list the finished chunks in the
\* order of the batch, each signature under its own outcome, although answers
\* come in any order and the last chunk may be short.
ResultsFollowBatch ==
    /\ processed = InOrder(base, "ok")
    /\ failed = InOrder(base, "error")
    /\ at = "returned" => base = Len(batch)

\* What the pipeline is promised: waiting are the signatures that the vectors of
\* the batch do not hold yet.
Fetch == INSTANCE BatchFetch WITH
    waiting <- Range(batch) \ (Range(processed) \cup Range(failed)),
    got <- Range(processed),
    lost <- Range(failed),
    returned <- at = "returned"

\* Chunk by chunk, every signature is settled once and for good, and the result
\* is not returned while one is missing: what failed_signatures leaves out would
\* be neither marked nor reported.
ImplementsBatchFetch == Fetch!Spec

\* get_transaction returns: no answer that overtakes another, no error and no
\* short chunk stops the window.
FetchReturns == <>(at = "returned")

-----------------------------------------------------------------------------
(* The inductive invariant.                                                *)

\* The three positions follow each other within the chunk and the window.
PositionsOK ==
    /\ yielded <= ChunkEnd
    /\ started <= ChunkEnd
    /\ started - yielded <= Buffered
    /\ at # "fetch" => base = yielded /\ base = started
    /\ at = "returned" => base = Len(batch)

\* What has been handed on has its outcome, and what has not been begun has none.
OutcomesOK ==
    \A i \in 1 .. Len(batch) :
        /\ i <= yielded => outcome[i] \in {"ok", "error"}
        /\ i <= started <=> outcome[i] # "none"

\* The signatures of the calls between two positions with outcome o.
Between(from, to, o) == {batch[i] : i \in {k \in from + 1 .. to : outcome[k] = o}}

\* The vectors of the chunk hold what was handed on in the chunk, and those of
\* the batch what was handed on before.
VectorsOK ==
    /\ Range(chunkOk) = Between(base, yielded, "ok")
    /\ Range(chunkFailed) = Between(base, yielded, "error")
    /\ Range(processed) = Between(0, base, "ok")
    /\ Range(failed) = Between(0, base, "error")

FetchInv == TypeOK /\ PositionsOK /\ OutcomesOK /\ VectorsOK

\* The vectors of the batch, and those of the chunk behind them, are in order.
OrderOK ==
    /\ processed = InOrder(base, "ok")
    /\ failed = InOrder(base, "error")
    /\ processed \o chunkOk = InOrder(yielded, "ok")
    /\ failed \o chunkFailed = InOrder(yielded, "error")
=============================================================================
