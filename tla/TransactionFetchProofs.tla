----------------------- MODULE TransactionFetchProofs -----------------------
(***************************************************************************)
(* Proofs about TransactionFetch, for any batches, chunk size and window:  *)
(* the inductive invariant, the window of the calls, that the chunks       *)
(* implement BatchFetch, and that the vectors follow the batch.            *)
(***************************************************************************)
EXTENDS TransactionFetch, Recursion, SequenceTheorems, FiniteSetTheorems, TLAPS

\* What Append and the empty sequence do to the signatures a vector holds.
LEMMA RangeOfAppend ==
    ASSUME NEW S, NEW s \in Seq(S), NEW x \in S
    PROVE  /\ Append(s, x) \in Seq(S)
           /\ Range(Append(s, x)) = Range(s) \cup {x}
<1>1. Append(s, x) \in Seq(S) /\ Append(s, x) = s \o <<x>>
  BY AppendIsConcat, AppendProperties
<1>2. <<x>> \in Seq(S) /\ Range(<<x>>) = {x}
  <2>1. <<x>> \in Seq(S) /\ Len(<<x>>) = 1 /\ <<x>>[1] = x
    OBVIOUS
  <2>2. Range(<<x>>) = {<<x>>[i] : i \in 1 .. 1}
    BY <2>1, RangeEquality
  <2> QED
    BY <2>1, <2>2
<1>3. Range(s \o <<x>>) = Range(s) \cup Range(<<x>>)
  BY <1>2, RangeConcatenation
<1> QED
  BY <1>1, <1>2, <1>3

\* The empty vector holds nothing.
LEMMA RangeOfEmpty == Range(<<>>) = {}
  BY DEF Range

\* The batch is a sequence of distinct signatures.
LEMMA BatchIsInjective ==
    ASSUME batch \in Batches
    PROVE  /\ batch \in Seq(Sigs)
           /\ Len(batch) \in Nat
           /\ DOMAIN batch = 1 .. Len(batch)
           /\ \A i \in 1 .. Len(batch) : batch[i] \in Sigs
           /\ \A i, k \in 1 .. Len(batch) : batch[i] = batch[k] => i = k
<1>1. batch \in Seq(Sigs) /\ IsInjective(batch)
  BY TransactionFetchAssumption
<1> QED
  BY <1>1, LenProperties, ElementOfSeq DEF IsInjective

-----------------------------------------------------------------------------
(* The inductive invariant.                                                *)

\* It holds when get_transaction is called.
LEMMA FetchInvInit == Init => FetchInv
<1> SUFFICES ASSUME Init PROVE FetchInv
  OBVIOUS
<1> USE TransactionFetchAssumption, RangeOfEmpty DEF Init
<1>1. Len(batch) \in Nat
  BY BatchIsInjective
<1>2. TypeOK
  <2>1. <<>> \in Seq(Sigs)
    OBVIOUS
  <2> QED
    BY <1>1, <2>1 DEF TypeOK
<1>3. PositionsOK
  BY <1>1 DEF PositionsOK, ChunkEnd
<1>4. OutcomesOK
  BY <1>1 DEF OutcomesOK
<1>5. VectorsOK
  <2>1. \A o : Between(0, 0, o) = {}
    BY DEF Between
  <2> QED
    BY <2>1 DEF VectorsOK
<1> QED
  BY <1>2, <1>3, <1>4, <1>5 DEF FetchInv

\* buffered begins a call.
LEMMA FetchInvStart == FetchInv /\ Start => FetchInv'
<1> SUFFICES ASSUME FetchInv, Start PROVE FetchInv'
  OBVIOUS
<1> USE TransactionFetchAssumption DEF FetchInv
<1>1. Len(batch) \in Nat
  BY BatchIsInjective DEF TypeOK
<1>2. /\ {base, started, yielded} \subseteq Nat
      /\ started + 1 \in 1 .. Len(batch)
      /\ ChunkEnd' = ChunkEnd
  BY <1>1 DEF TypeOK, Start, ChunkEnd
<1>3. TypeOK'
  BY <1>1, <1>2 DEF TypeOK, Start
<1>4. PositionsOK'
  <2>1. ChunkEnd \in Nat
    BY <1>1, <1>2 DEF ChunkEnd
  <2> QED
    BY <1>1, <1>2, <2>1 DEF TypeOK, Start, PositionsOK
<1>5. OutcomesOK'
  BY <1>1, <1>2 DEF TypeOK, Start, OutcomesOK
<1>6. VectorsOK'
  <2>1. ASSUME NEW from \in {0, base}, NEW to \in {base, yielded}, NEW o
        PROVE  Between(from, to, o)' = Between(from, to, o)
    <3>1. \A k \in from + 1 .. to : outcome'[k] = outcome[k]
      BY <1>1, <1>2 DEF TypeOK, Start
    <3> QED
      BY <3>1 DEF Between, Start
  <2> QED
    BY <2>1 DEF VectorsOK, Start
<1> QED
  BY <1>3, <1>4, <1>5, <1>6

\* A call is answered.
LEMMA FetchInvAnswer == ASSUME NEW i \in 1 .. Len(batch) PROVE FetchInv /\ Answer(i) => FetchInv'
<1> SUFFICES ASSUME FetchInv, Answer(i) PROVE FetchInv'
  OBVIOUS
<1> USE TransactionFetchAssumption DEF FetchInv
<1>1. Len(batch) \in Nat
  BY BatchIsInjective DEF TypeOK
<1>2. /\ {base, started, yielded} \subseteq Nat
      /\ yielded < i
      /\ ChunkEnd' = ChunkEnd
  <2>1. {base, started, yielded} \subseteq Nat
    BY <1>1 DEF TypeOK
  <2>2. ~(i <= yielded)
    BY DEF Answer, OutcomesOK
  <2>3. ChunkEnd' = ChunkEnd
    BY DEF Answer, ChunkEnd
  <2> QED
    BY <1>1, <2>1, <2>2, <2>3
<1>3. TypeOK'
  BY <1>1 DEF TypeOK, Answer
<1>4. PositionsOK'
  BY <1>1, <1>2 DEF Answer, PositionsOK
<1>5. OutcomesOK'
  BY <1>1, <1>2 DEF TypeOK, Answer, OutcomesOK
<1>6. VectorsOK'
  <2>1. ASSUME NEW from \in {0, base}, NEW to \in {base, yielded}, NEW o
        PROVE  Between(from, to, o)' = Between(from, to, o)
    <3>1. \A k \in from + 1 .. to : outcome'[k] = outcome[k]
      BY <1>1, <1>2 DEF TypeOK, Answer
    <3> QED
      BY <3>1 DEF Between, Answer
  <2> QED
    BY <2>1 DEF VectorsOK, Answer
<1> QED
  BY <1>3, <1>4, <1>5, <1>6

\* An outcome is handed on and sorted.
LEMMA FetchInvYield == FetchInv /\ Yield => FetchInv'
<1> SUFFICES ASSUME FetchInv, Yield PROVE FetchInv'
  OBVIOUS
<1> USE TransactionFetchAssumption DEF FetchInv
<1>1. Len(batch) \in Nat
  BY BatchIsInjective DEF TypeOK
<1>2. /\ {base, started, yielded} \subseteq Nat
      /\ yielded + 1 \in 1 .. Len(batch)
      /\ yielded + 1 <= started
      /\ ChunkEnd' = ChunkEnd
      /\ batch[yielded + 1] \in Sigs
      /\ outcome[yielded + 1] \in {"ok", "error"}
  BY <1>1, BatchIsInjective DEF TypeOK, Yield, HeadAnswered, ChunkEnd
<1>a. /\ chunkOk \in Seq(Sigs) /\ chunkFailed \in Seq(Sigs)
      /\ processed \in Seq(Sigs) /\ failed \in Seq(Sigs)
  BY DEF TypeOK
<1>d. base + 1 .. yielded + 1 = (base + 1 .. yielded) \cup {yielded + 1}
  BY <1>1, <1>2 DEF TypeOK
<1>f. /\ \A o : Between(base, yielded, o)' = Between(base, yielded + 1, o)
      /\ \A o : Between(0, base, o)' = Between(0, base, o)
      /\ processed' = processed /\ failed' = failed
  BY DEF Between, Yield
<1>e. PositionsOK' /\ OutcomesOK'
  <2>1. ChunkEnd \in Nat
    BY <1>1, <1>2 DEF ChunkEnd
  <2>2. PositionsOK'
    BY <1>1, <1>2, <2>1 DEF PositionsOK, Yield, TypeOK
  <2>3. OutcomesOK'
    BY <1>1, <1>2 DEF OutcomesOK, Yield
  <2> QED
    BY <2>2, <2>3
<1>b. CASE outcome[yielded + 1] = "ok"
  <2>0. /\ chunkOk' = Append(chunkOk, batch[yielded + 1])
        /\ chunkFailed' = chunkFailed
    BY <1>b DEF Yield
  <2>1. /\ chunkOk' \in Seq(Sigs)
        /\ Range(chunkOk') = Range(chunkOk) \cup {batch[yielded + 1]}
    BY <1>2, <1>a, <2>0, RangeOfAppend
  <2>2. TypeOK'
    BY <1>1, <1>2, <1>a, <2>0, <2>1 DEF TypeOK, Yield
  <2>3. Between(base, yielded + 1, "ok") = Between(base, yielded, "ok") \cup {batch[yielded + 1]}
    BY <1>d, <1>b DEF Between
  <2>4. Between(base, yielded + 1, "error") = Between(base, yielded, "error")
    BY <1>d, <1>b DEF Between
  <2>5. VectorsOK'
    BY <2>0, <2>1, <2>3, <2>4, <1>f DEF VectorsOK
  <2> QED
    BY <2>2, <2>5, <1>e
<1>c. CASE outcome[yielded + 1] = "error"
  <2>0. /\ chunkFailed' = Append(chunkFailed, batch[yielded + 1])
        /\ chunkOk' = chunkOk
    BY <1>c DEF Yield
  <2>1. /\ chunkFailed' \in Seq(Sigs)
        /\ Range(chunkFailed') = Range(chunkFailed) \cup {batch[yielded + 1]}
    BY <1>2, <1>a, <2>0, RangeOfAppend
  <2>2. TypeOK'
    BY <1>1, <1>2, <1>a, <2>0, <2>1 DEF TypeOK, Yield
  <2>3. Between(base, yielded + 1, "error") = Between(base, yielded, "error") \cup {batch[yielded + 1]}
    BY <1>d, <1>c DEF Between
  <2>4. Between(base, yielded + 1, "ok") = Between(base, yielded, "ok")
    BY <1>d, <1>c DEF Between
  <2>5. VectorsOK'
    BY <2>0, <2>1, <2>3, <2>4, <1>f DEF VectorsOK
  <2> QED
    BY <2>2, <2>5, <1>e
<1> QED
  BY <1>2, <1>b, <1>c

\* What the end of a chunk appends to the vectors of the batch.
LEMMA EndChunkAppends ==
    ASSUME FetchInv, EndChunk
    PROVE  /\ processed' \in Seq(Sigs) /\ failed' \in Seq(Sigs)
           /\ Range(processed') = Range(processed) \cup Range(chunkOk)
           /\ Range(failed') = Range(failed) \cup Range(chunkFailed)
<1>1. /\ chunkOk \in Seq(Sigs) /\ chunkFailed \in Seq(Sigs)
      /\ processed \in Seq(Sigs) /\ failed \in Seq(Sigs)
  BY DEF FetchInv, TypeOK
<1> QED
  BY <1>1, RangeConcatenation, ConcatProperties DEF EndChunk

\* A chunk is complete.
LEMMA FetchInvEndChunk == FetchInv /\ EndChunk => FetchInv'
<1> SUFFICES ASSUME FetchInv, EndChunk PROVE FetchInv'
  OBVIOUS
<1> USE TransactionFetchAssumption DEF FetchInv
<1>1. Len(batch) \in Nat
  BY BatchIsInjective DEF TypeOK
<1>2. /\ {base, started, yielded} \subseteq Nat
      /\ started = yielded /\ started <= Len(batch)
      /\ base <= yielded
  BY <1>1 DEF TypeOK, EndChunk, ChunkEnd, PositionsOK
<1>3. TypeOK'
  <2>1. <<>> \in Seq(Sigs)
    OBVIOUS
  <2> QED
    BY <1>1, <1>2, <2>1, EndChunkAppends DEF TypeOK, EndChunk
<1>4. PositionsOK'
  <2>1. /\ base' = yielded /\ yielded' = yielded /\ started' = yielded
        /\ batch' = batch /\ at' = "pause"
    BY <1>2 DEF EndChunk
  <2>2. ChunkEnd' \in Nat /\ yielded <= ChunkEnd'
    BY <1>1, <1>2, <2>1 DEF ChunkEnd
  <2> QED
    BY <1>1, <1>2, <2>1, <2>2 DEF PositionsOK
<1>5. OutcomesOK'
  BY DEF OutcomesOK, EndChunk
<1>6. VectorsOK'
  <2>1. ASSUME NEW o
        PROVE  Between(0, yielded, o) = Between(0, base, o) \cup Between(base, yielded, o)
    <3>1. 1 .. yielded = (1 .. base) \cup (base + 1 .. yielded)
      BY <1>2
    <3> QED
      BY <3>1, <1>2 DEF Between
  <2>2. \A o : Between(yielded, yielded, o) = {}
    BY <1>2 DEF Between
  <2>3. chunkOk' = <<>> /\ chunkFailed' = <<>> /\ base' = yielded /\ yielded' = yielded
    BY DEF EndChunk
  <2>5. /\ Range(chunkOk') = Between(yielded, yielded, "ok")
        /\ Range(chunkFailed') = Between(yielded, yielded, "error")
    BY <2>2, <2>3, RangeOfEmpty
  <2>6. /\ Range(processed') = Between(0, yielded, "ok")
        /\ Range(failed') = Between(0, yielded, "error")
    BY <2>1, EndChunkAppends DEF VectorsOK
  <2>7. /\ \A o : Between(base, yielded, o)' = Between(yielded, yielded, o)
        /\ \A o : Between(0, base, o)' = Between(0, yielded, o)
    BY <2>3 DEF Between, EndChunk
  <2> QED
    BY <2>5, <2>6, <2>7 DEF VectorsOK
<1> QED
  BY <1>3, <1>4, <1>5, <1>6

\* The next chunk, or the return.
LEMMA FetchInvResume == FetchInv /\ Resume => FetchInv'
<1> SUFFICES ASSUME FetchInv, Resume PROVE FetchInv'
  OBVIOUS
<1> USE TransactionFetchAssumption DEF FetchInv
<1>1. Len(batch) \in Nat
  BY BatchIsInjective DEF TypeOK
<1>2. TypeOK'
  BY DEF TypeOK, Resume
<1>3. PositionsOK'
  BY <1>1 DEF PositionsOK, Resume, ChunkEnd, TypeOK
<1>4. OutcomesOK' /\ VectorsOK'
  BY DEF OutcomesOK, VectorsOK, Between, Resume
<1> QED
  BY <1>2, <1>3, <1>4

\* The invariant is inductive.
LEMMA FetchInvNext == FetchInv /\ [Next]_vars => FetchInv'
<1> SUFFICES ASSUME FetchInv, [Next]_vars PROVE FetchInv'
  OBVIOUS
<1>1. CASE UNCHANGED vars
  BY <1>1 DEF vars, FetchInv, TypeOK, PositionsOK, OutcomesOK, VectorsOK, Between, ChunkEnd
<1>2. CASE Returned
  BY <1>2 DEF Returned, vars, FetchInv, TypeOK, PositionsOK, OutcomesOK, VectorsOK, Between, ChunkEnd
<1> QED
  BY <1>1, <1>2, FetchInvStart, FetchInvAnswer, FetchInvYield, FetchInvEndChunk,
     FetchInvResume DEF Next

\* The invariant of get_transaction holds for every batch, chunk size and
\* window: the vectors always hold exactly what buffered has handed on.
THEOREM FetchInvariance == Spec => []FetchInv
  BY FetchInvInit, FetchInvNext, PTL DEF Spec

\* Positions, outcomes and vectors of get_transaction keep their types.
THEOREM FetchTypeCorrect == Spec => []TypeOK
<1>1. FetchInv => TypeOK
  BY DEF FetchInv
<1> QED
  BY <1>1, FetchInvariance, PTL

\* The calls of get_transaction that are out stay within the window of buffered
\* and within the current chunk.
THEOREM WindowIsKept == Spec => []CallsStayInWindow
<1>1. FetchInv => CallsStayInWindow
  <2> SUFFICES ASSUME FetchInv PROVE CallsStayInWindow
    OBVIOUS
  <2> USE TransactionFetchAssumption DEF FetchInv
  <2>1. Len(batch) \in Nat /\ {base, started, yielded} \subseteq Nat
    BY BatchIsInjective DEF TypeOK
  <2>2. Out \subseteq yielded + 1 .. started
    BY <2>1 DEF Out, OutcomesOK
  <2>3. /\ IsFiniteSet(yielded + 1 .. started)
        /\ Cardinality(yielded + 1 .. started) <= Buffered
    <3>1. yielded <= started /\ started - yielded <= Buffered
      BY DEF TypeOK, PositionsOK
    <3>2. /\ IsFiniteSet(yielded + 1 .. started)
          /\ Cardinality(yielded + 1 .. started)
               = IF yielded + 1 > started THEN 0 ELSE started - (yielded + 1) + 1
      <4>1. yielded + 1 \in Int /\ started \in Int
        BY <2>1
      <4> QED
        BY <4>1, FS_Interval
    <3> QED
      BY <2>1, <3>1, <3>2
  <2>4. Cardinality(Out) <= Buffered
    <3>1. Cardinality(Out) <= Cardinality(yielded + 1 .. started)
      BY <2>2, <2>3, FS_Subset
    <3>2. Cardinality(Out) \in Nat /\ Cardinality(yielded + 1 .. started) \in Nat
      BY <2>2, <2>3, FS_Subset, FS_CardinalityType
    <3> QED
      BY <2>3, <3>1, <3>2
  <2>5. \A i \in Out : at = "fetch" /\ base < i /\ i <= ChunkEnd
    <3>1. ChunkEnd \in Nat
      BY <2>1 DEF ChunkEnd
    <3> QED
      BY <2>1, <2>2, <3>1 DEF TypeOK, PositionsOK
  <2> QED
    BY <2>4, <2>5 DEF CallsStayInWindow
<1> QED
  BY <1>1, FetchInvariance, PTL

-----------------------------------------------------------------------------
(* The chunks implement BatchFetch.                                        *)

\* What the vectors of a chunk hold is new, and told apart by the outcome.
LEMMA ChunkIsNew ==
    ASSUME FetchInv
    PROVE  /\ Range(chunkOk) \cup Range(chunkFailed) \subseteq
                  Range(batch) \ (Range(processed) \cup Range(failed))
           /\ Range(chunkOk) \cap Range(chunkFailed) = {}
<1> USE DEF FetchInv
<1>1. /\ Len(batch) \in Nat
      /\ DOMAIN batch = 1 .. Len(batch)
      /\ \A i, k \in 1 .. Len(batch) : batch[i] = batch[k] => i = k
  BY BatchIsInjective DEF TypeOK
<1>2. {base, yielded} \subseteq 0 .. Len(batch)
  BY DEF TypeOK
<1>3. ASSUME NEW x \in Range(chunkOk) \cup Range(chunkFailed)
      PROVE  \E i \in base + 1 .. yielded : i \in 1 .. Len(batch) /\ batch[i] = x
  BY <1>1, <1>2 DEF VectorsOK, Between
<1>4. ASSUME NEW x \in Range(processed) \cup Range(failed)
      PROVE  \E i \in 1 .. base : i \in 1 .. Len(batch) /\ batch[i] = x
  BY <1>1, <1>2 DEF VectorsOK, Between
<1>5. Range(chunkOk) \cup Range(chunkFailed) \subseteq Range(batch)
  BY <1>1, <1>3 DEF Range
<1>6. ASSUME NEW x \in Range(chunkOk) \cup Range(chunkFailed),
             x \in Range(processed) \cup Range(failed)
      PROVE  FALSE
  <2>1. PICK i \in base + 1 .. yielded : i \in 1 .. Len(batch) /\ batch[i] = x
    BY <1>3
  <2>2. PICK k \in 1 .. base : k \in 1 .. Len(batch) /\ batch[k] = x
    BY <1>4, <1>6
  <2>3. i = k
    BY <1>1, <2>1, <2>2
  <2> QED
    BY <1>2, <2>1, <2>2, <2>3
<1>7. ASSUME NEW x \in Range(chunkOk), x \in Range(chunkFailed)
      PROVE  FALSE
  <2>1. PICK i \in base + 1 .. yielded : outcome[i] = "ok" /\ batch[i] = x
    BY DEF VectorsOK, Between
  <2>2. PICK k \in base + 1 .. yielded : outcome[k] = "error" /\ batch[k] = x
    BY <1>7 DEF VectorsOK, Between
  <2>3. i = k
    BY <1>1, <1>2, <2>1, <2>2
  <2> QED
    BY <2>1, <2>2, <2>3
<1> QED
  BY <1>5, <1>6, <1>7

\* When get_transaction returns, nothing waits.
LEMMA ReturnedIsSettled ==
    ASSUME FetchInv, base = Len(batch)
    PROVE  Range(batch) \ (Range(processed) \cup Range(failed)) = {}
<1>1. Len(batch) \in Nat /\ DOMAIN batch = 1 .. Len(batch)
  BY BatchIsInjective DEF FetchInv, TypeOK
<1>2. \A i \in 1 .. Len(batch) : outcome[i] \in {"ok", "error"}
  BY <1>1 DEF FetchInv, TypeOK, OutcomesOK
<1>3. \A i \in 1 .. Len(batch) : batch[i] \in Between(0, base, "ok") \cup Between(0, base, "error")
  BY <1>1, <1>2 DEF Between
<1> QED
  BY <1>1, <1>3 DEF FetchInv, VectorsOK, Range

\* The refinement mapping leaves the service alone.
LEMMA FetchStutters ==
    ASSUME UNCHANGED <<batch, processed, failed>>, (at = "returned")' = (at = "returned")
    PROVE  UNCHANGED Fetch!vars
  BY DEF Fetch!vars

\* get_transaction implements what the pipeline is promised: every signature of
\* the batch is settled once, and nothing is missing when it returns.
THEOREM FetchImplementsBatchFetch == Spec => ImplementsBatchFetch
<1>1. Init => Fetch!Init
  <2> SUFFICES ASSUME Init PROVE Fetch!Init
    OBVIOUS
  <2>1. Range(batch) \subseteq Sigs
    BY BatchIsInjective, RangeOfSeq DEF Init
  <2>2. Range(processed) = {} /\ Range(failed) = {} /\ (at = "returned") = FALSE
    BY RangeOfEmpty DEF Init
  <2> QED
    BY <2>1, <2>2 DEF Fetch!Init
<1>2. FetchInv /\ [Next]_vars => [Fetch!Next]_(Fetch!vars)
  <2> SUFFICES ASSUME FetchInv, [Next]_vars PROVE [Fetch!Next]_(Fetch!vars)
    OBVIOUS
  <2>1. CASE Start
    BY <2>1, FetchStutters DEF Start
  <2>2. ASSUME NEW i \in 1 .. Len(batch), Answer(i) PROVE UNCHANGED Fetch!vars
    BY <2>2, FetchStutters DEF Answer
  <2>3. CASE Yield
    BY <2>3, FetchStutters DEF Yield
  <2>4. CASE EndChunk
    <3> DEFINE S == Range(chunkOk) \cup Range(chunkFailed)
               G == Range(chunkOk)
    <3>1. /\ S \subseteq Range(batch) \ (Range(processed) \cup Range(failed))
          /\ G \subseteq S /\ S \ G = Range(chunkFailed)
      BY ChunkIsNew
    <3>2. /\ Range(processed') = Range(processed) \cup G
          /\ Range(failed') = Range(failed) \cup (S \ G)
      BY <2>4, <3>1, EndChunkAppends
    <3>3. /\ batch' = batch
          /\ ~(at = "returned") /\ (at' = "returned") = (at = "returned")
      BY <2>4 DEF EndChunk
    <3>4. Range(batch') \ (Range(processed') \cup Range(failed'))
            = (Range(batch) \ (Range(processed) \cup Range(failed))) \ S
      BY <3>1, <3>2, <3>3
    <3>5. Fetch!Settle
      BY <3>1, <3>2, <3>3, <3>4 DEF Fetch!Settle
    <3> QED
      BY <3>5 DEF Fetch!Next
  <2>5. CASE Resume
    <3>1. CASE base < Len(batch)
      BY <2>5, <3>1, FetchStutters DEF Resume
    <3>2. CASE ~(base < Len(batch))
      <4>1. base = Len(batch)
        BY <3>2, BatchIsInjective DEF FetchInv, TypeOK
      <4>2. (at = "returned")' = TRUE
        BY <2>5, <3>2 DEF Resume
      <4>3. Fetch!Return
        BY <2>5, <4>1, <4>2, ReturnedIsSettled DEF Fetch!Return, Resume
      <4> QED
        BY <4>3 DEF Fetch!Next
    <3> QED
      BY <3>1, <3>2
  <2>6. CASE Returned \/ UNCHANGED vars
    BY <2>6, FetchStutters DEF Returned, vars
  <2> QED
    BY <2>1, <2>2, <2>3, <2>4, <2>5, <2>6 DEF Next
<1> QED
  BY <1>1, <1>2, FetchInvariance, PTL DEF Spec, ImplementsBatchFetch, Fetch!Spec

-----------------------------------------------------------------------------
(* The order of the vectors.                                               *)

\* Picked satisfies the equation that defines it.
LEMMA PickedEquation ==
    ASSUME NEW b, Len(b) \in Nat, NEW oc, NEW o
    PROVE  /\ Picked(b, oc, o)[0] = <<>>
           /\ \A n \in 1 .. Len(b) :
                 Picked(b, oc, o)[n] =
                     IF oc[n] = o THEN Append(Picked(b, oc, o)[n - 1], b[n])
                                  ELSE Picked(b, oc, o)[n - 1]
<1> DEFINE Step(f, n) == IF n = 0 THEN <<>>
                         ELSE IF oc[n] = o THEN Append(f[n - 1], b[n]) ELSE f[n - 1]
           Solves(f, m) == f = [n \in 0 .. m |-> Step(f, n)]
           T == {m \in 0 .. Len(b) : \E f : Solves(f, m)}
<1>1. 0 \in T
  <2> DEFINE f == [n \in 0 .. 0 |-> <<>>]
  <2>1. Solves(f, 0) /\ 0 \in 0 .. Len(b)
    OBVIOUS
  <2> HIDE DEF f, Solves
  <2> QED
    BY <2>1
<1>2. ASSUME NEW m \in 0 .. Len(b), m \in T, m < Len(b) PROVE m + 1 \in T
  <2>1. PICK f : Solves(f, m)
    BY <1>2
  <2> DEFINE g == [n \in 0 .. m + 1 |-> IF n = m + 1 THEN Step(f, m + 1) ELSE f[n]]
  <2>2. \A n \in 0 .. m : f[n] = Step(f, n)
    BY <2>1
  <2>3. \A n \in 0 .. m + 1 : g[n] = Step(g, n)
    <3>1. ASSUME NEW n \in 0 .. m PROVE g[n] = Step(g, n)
      <4>1. g[n] = f[n] /\ (n # 0 => g[n - 1] = f[n - 1])
        OBVIOUS
      <4> QED
        BY <2>2, <4>1
    <3>2. g[m + 1] = Step(g, m + 1)
      <4>1. g[m + 1] = Step(f, m + 1) /\ g[m] = f[m] /\ m + 1 - 1 = m
        OBVIOUS
      <4> QED
        BY <4>1
    <3>3. \A n \in 0 .. m + 1 : n \in 0 .. m \/ n = m + 1
      OBVIOUS
    <3> HIDE DEF g, Step
    <3> QED
      BY <3>1, <3>2, <3>3
  <2>4. Solves(g, m + 1)
    BY <2>3
  <2>5. m + 1 \in 0 .. Len(b) /\ (\E h : Solves(h, m + 1))
    <3>1. m + 1 \in 0 .. Len(b)
      BY <1>2
    <3> HIDE DEF Solves, g
    <3> QED
      BY <2>4, <3>1
  <2> HIDE DEF Solves
  <2> QED
    BY <2>5
<1>3. Len(b) \in T
  <2>1. \A m \in 0 .. Len(b) : m \in T /\ m < Len(b) => m + 1 \in T
    BY <1>2
  <2> HIDE DEF T
  <2>2. \A n \in 0 .. Len(b) : n \in T
    BY <1>1, <2>1, IntervalInduction, Zenon
  <2> QED
    BY <2>2
<1>4. Solves(Picked(b, oc, o), Len(b))
  BY <1>3 DEF Picked
<1>5. \A n \in 0 .. Len(b) : Picked(b, oc, o)[n] = Step(Picked(b, oc, o), n)
  <2> DEFINE p == Picked(b, oc, o)
  <2>1. Solves(p, Len(b))
    BY <1>4
  <2> HIDE DEF p
  <2>2. \A n \in 0 .. Len(b) : p[n] = Step(p, n)
    BY <2>1
  <2> QED
    BY <2>2 DEF p
<1> QED
  BY <1>5

\* It only depends on the outcomes that it has passed.
LEMMA PickedPrefix ==
    ASSUME NEW b, Len(b) \in Nat, NEW oc, NEW od, NEW o, NEW m \in 0 .. Len(b),
           \A n \in 1 .. m : oc[n] = od[n]
    PROVE  \A n \in 0 .. m : Picked(b, oc, o)[n] = Picked(b, od, o)[n]
<1> DEFINE p == Picked(b, oc, o)
           q == Picked(b, od, o)
           T == {n \in 0 .. m : p[n] = q[n]}
<1>1. /\ p[0] = <<>> /\ q[0] = <<>>
      /\ \A n \in 1 .. Len(b) : p[n] = IF oc[n] = o THEN Append(p[n - 1], b[n]) ELSE p[n - 1]
      /\ \A n \in 1 .. Len(b) : q[n] = IF od[n] = o THEN Append(q[n - 1], b[n]) ELSE q[n - 1]
  BY PickedEquation
<1> HIDE DEF p, q
<1>2. 0 \in T
  BY <1>1
<1>3. ASSUME NEW n \in 0 .. m, n \in T, n < m PROVE n + 1 \in T
  <2>1. n + 1 \in 1 .. m /\ n + 1 \in 1 .. Len(b) /\ n + 1 - 1 = n
    BY <1>3
  <2>2. p[n + 1] = q[n + 1]
    BY <1>1, <1>3, <2>1
  <2> QED
    BY <2>1, <2>2
<1>4. \A n \in 0 .. m : n \in T
  <2>1. \A n \in 0 .. m : n \in T /\ n < m => n + 1 \in T
    BY <1>3
  <2>2. m \in Nat
    OBVIOUS
  <2> HIDE DEF T
  <2> QED
    BY <1>2, <2>1, <2>2, IntervalInduction, Zenon
<1> QED
  BY <1>4 DEF p, q

\* Nothing has been handed on yet.
LEMMA OrderInit == Init => OrderOK
<1> SUFFICES ASSUME Init PROVE OrderOK
  OBVIOUS
<1>1. Len(batch) \in Nat
  BY BatchIsInjective DEF Init
<1>2. \A o : InOrder(0, o) = <<>>
  BY <1>1, PickedEquation DEF InOrder
<1>3. <<>> \o <<>> = <<>>
  OBVIOUS
<1> QED
  BY <1>2, <1>3 DEF OrderOK, Init

\* A call that is begun or answered comes after those that were handed on.
LEMMA OrderCall ==
    ASSUME FetchInv, OrderOK, UNCHANGED <<batch, base, yielded, chunkOk, chunkFailed, processed, failed>>,
           \A n \in 1 .. yielded : outcome'[n] = outcome[n]
    PROVE  OrderOK'
<1>1. Len(batch) \in Nat /\ yielded \in 0 .. Len(batch) /\ base \in 0 .. yielded
  BY BatchIsInjective DEF FetchInv, TypeOK
<1>2. ASSUME NEW n \in 0 .. yielded, NEW o PROVE InOrder(n, o)' = InOrder(n, o)
  <2>1. Picked(batch, outcome', o)[n] = Picked(batch, outcome, o)[n]
    BY <1>1, PickedPrefix
  <2> QED
    BY <2>1 DEF InOrder
<1>3. /\ InOrder(base, "ok")' = InOrder(base, "ok") /\ InOrder(base, "error")' = InOrder(base, "error")
      /\ InOrder(yielded, "ok")' = InOrder(yielded, "ok")
      /\ InOrder(yielded, "error")' = InOrder(yielded, "error")
  <2>1. yielded \in 0 .. yielded
    BY <1>1
  <2>2. \A n \in 0 .. yielded : \A o : InOrder(n, o)' = Picked(batch, outcome', o)[n]
    BY DEF InOrder
  <2> QED
    BY <1>1, <1>2, <2>1, <2>2 DEF InOrder
<1> QED
  BY <1>3 DEF OrderOK

\* An outcome that is handed on goes to the end of its vector.
LEMMA OrderYield == FetchInv /\ OrderOK /\ Yield => OrderOK'
<1> SUFFICES ASSUME FetchInv, OrderOK, Yield PROVE OrderOK'
  OBVIOUS
<1>1. /\ Len(batch) \in Nat /\ yielded \in Nat
      /\ yielded + 1 \in 1 .. Len(batch) /\ yielded + 1 - 1 = yielded
      /\ batch[yielded + 1] \in Sigs
      /\ outcome[yielded + 1] \in {"ok", "error"}
  BY BatchIsInjective DEF FetchInv, TypeOK, Yield, HeadAnswered
<1>2. /\ chunkOk \in Seq(Sigs) /\ chunkFailed \in Seq(Sigs)
      /\ processed \in Seq(Sigs) /\ failed \in Seq(Sigs)
  BY DEF FetchInv, TypeOK
<1>3. UNCHANGED <<batch, outcome, base, processed, failed>> /\ yielded' = yielded + 1
  BY DEF Yield
<1>4. \A o : InOrder(yielded + 1, o) =
                 IF outcome[yielded + 1] = o THEN Append(InOrder(yielded, o), batch[yielded + 1])
                                             ELSE InOrder(yielded, o)
  <2> SUFFICES ASSUME NEW o
               PROVE  InOrder(yielded + 1, o) =
                          IF outcome[yielded + 1] = o
                          THEN Append(InOrder(yielded, o), batch[yielded + 1])
                          ELSE InOrder(yielded, o)
    OBVIOUS
  <2> DEFINE p == Picked(batch, outcome, o)
  <2>1. \A n \in 1 .. Len(batch) :
            p[n] = IF outcome[n] = o THEN Append(p[n - 1], batch[n]) ELSE p[n - 1]
    BY <1>1, PickedEquation
  <2>2. InOrder(yielded + 1, o) = p[yielded + 1] /\ InOrder(yielded, o) = p[yielded]
    BY DEF InOrder
  <2> HIDE DEF p
  <2>3. PICK n \in 1 .. Len(batch) : n = yielded + 1 /\ n - 1 = yielded
    BY <1>1
  <2>4. p[n] = IF outcome[n] = o THEN Append(p[n - 1], batch[n]) ELSE p[n - 1]
    BY <2>1
  <2> QED
    BY <2>2, <2>3, <2>4
<1>5. \A s, r \in Seq(Sigs) : \A x \in Sigs : s \o Append(r, x) = Append(s \o r, x)
  <2> SUFFICES ASSUME NEW s \in Seq(Sigs), NEW r \in Seq(Sigs), NEW x \in Sigs
               PROVE  s \o Append(r, x) = Append(s \o r, x)
    OBVIOUS
  <2>1. /\ <<x>> \in Seq(Sigs) /\ s \o r \in Seq(Sigs)
        /\ Append(r, x) = r \o <<x>> /\ Append(s \o r, x) = (s \o r) \o <<x>>
    BY AppendIsConcat, ConcatProperties
  <2> QED
    BY <2>1, ConcatAssociative
<1>6. /\ processed' \o chunkOk' = InOrder(yielded + 1, "ok")
      /\ failed' \o chunkFailed' = InOrder(yielded + 1, "error")
  <2>1. CASE outcome[yielded + 1] = "ok"
    <3>1. /\ chunkOk' = Append(chunkOk, batch[yielded + 1]) /\ chunkFailed' = chunkFailed
          /\ InOrder(yielded + 1, "ok") = Append(InOrder(yielded, "ok"), batch[yielded + 1])
          /\ InOrder(yielded + 1, "error") = InOrder(yielded, "error")
      BY <1>4, <2>1 DEF Yield
    <3>2. processed \o Append(chunkOk, batch[yielded + 1])
            = Append(processed \o chunkOk, batch[yielded + 1])
      BY <1>1, <1>2, <1>5
    <3> QED
      BY <1>3, <3>1, <3>2 DEF OrderOK
  <2>2. CASE outcome[yielded + 1] = "error"
    <3>1. /\ chunkFailed' = Append(chunkFailed, batch[yielded + 1]) /\ chunkOk' = chunkOk
          /\ InOrder(yielded + 1, "error") = Append(InOrder(yielded, "error"), batch[yielded + 1])
          /\ InOrder(yielded + 1, "ok") = InOrder(yielded, "ok")
      BY <1>4, <2>2 DEF Yield
    <3>2. failed \o Append(chunkFailed, batch[yielded + 1])
            = Append(failed \o chunkFailed, batch[yielded + 1])
      BY <1>1, <1>2, <1>5
    <3> QED
      BY <1>3, <3>1, <3>2 DEF OrderOK
  <2> QED
    BY <1>1, <2>1, <2>2
<1>7. /\ InOrder(base, "ok")' = InOrder(base, "ok") /\ InOrder(base, "error")' = InOrder(base, "error")
      /\ InOrder(yielded, "ok")' = InOrder(yielded + 1, "ok")
      /\ InOrder(yielded, "error")' = InOrder(yielded + 1, "error")
  BY <1>3 DEF InOrder
<1> QED
  BY <1>3, <1>6, <1>7 DEF OrderOK

\* The vectors of a chunk go to the end of those of the batch.
LEMMA OrderEndChunk == FetchInv /\ OrderOK /\ EndChunk => OrderOK'
<1> SUFFICES ASSUME FetchInv, OrderOK, EndChunk PROVE OrderOK'
  OBVIOUS
<1>1. processed' \in Seq(Sigs) /\ failed' \in Seq(Sigs)
  BY EndChunkAppends
<1>2. processed' \o <<>> = processed' /\ failed' \o <<>> = failed'
  BY <1>1, ConcatEmptySeq
<1>3. /\ InOrder(base, "ok")' = InOrder(yielded, "ok")
      /\ InOrder(base, "error")' = InOrder(yielded, "error")
      /\ InOrder(yielded, "ok")' = InOrder(yielded, "ok")
      /\ InOrder(yielded, "error")' = InOrder(yielded, "error")
  BY DEF InOrder, EndChunk
<1> QED
  BY <1>2, <1>3 DEF OrderOK, EndChunk

\* No step of get_transaction disturbs the order.
LEMMA OrderNext == FetchInv /\ OrderOK /\ [Next]_vars => OrderOK'
<1> SUFFICES ASSUME FetchInv, OrderOK, [Next]_vars PROVE OrderOK'
  OBVIOUS
<1>1. /\ Len(batch) \in Nat /\ {started, yielded} \subseteq 0 .. Len(batch) /\ yielded <= started
      /\ outcome \in [1 .. Len(batch) -> {"none", "out", "ok", "error"}]
  BY BatchIsInjective DEF FetchInv, TypeOK
<1>2. CASE Start
  <2>1. \A n \in 1 .. yielded : outcome'[n] = outcome[n]
    BY <1>1, <1>2 DEF Start
  <2> QED
    BY <1>2, <2>1, OrderCall DEF Start
<1>3. ASSUME NEW i \in 1 .. Len(batch), Answer(i) PROVE OrderOK'
  <2>1. ~(i <= yielded)
    BY <1>3 DEF Answer, FetchInv, OutcomesOK
  <2>2. \A n \in 1 .. yielded : outcome'[n] = outcome[n]
    BY <1>1, <1>3, <2>1 DEF Answer
  <2> QED
    BY <1>3, <2>2, OrderCall DEF Answer
<1>4. CASE Resume \/ Returned \/ UNCHANGED vars
  <2>1. /\ UNCHANGED <<batch, base, yielded, chunkOk, chunkFailed, processed, failed>>
        /\ outcome' = outcome
    BY <1>4 DEF Resume, Returned, vars
  <2> QED
    BY <2>1, OrderCall
<1> QED
  BY <1>2, <1>3, <1>4, OrderYield, OrderEndChunk DEF Next

\* get_transaction lists the finished chunks in the order of the batch, each
\* signature under its own outcome, and returns when the batch is used up: in
\* whatever order the answers come, for every batch, chunk size and window.
THEOREM ResultsAreInOrder == Spec => []ResultsFollowBatch
<1>1. FetchInv /\ OrderOK => ResultsFollowBatch
  BY DEF FetchInv, PositionsOK, OrderOK, ResultsFollowBatch
<1> QED
  BY <1>1, OrderInit, OrderNext, FetchInvariance, PTL DEF Spec
=============================================================================
