------------------------ MODULE TransferParserProofs ------------------------
(***************************************************************************)
(* Proofs about TransferParser, for any transactions of the shape that the *)
(* service gives them: every transfer keeps a row of its own, points back  *)
(* to its instruction, has the latest owners and the right mint, and all   *)
(* of them together account for the changes of the balances.               *)
(***************************************************************************)
EXTENDS TransferParser, Recursion, SequenceTheorems, FiniteSetTheorems, TLAPS

-----------------------------------------------------------------------------
(* What one instruction contributes.                                       *)

\* An instruction yields one transfer or none, which names the place it was
\* given and an amount of the instruction.
LEMMA CollectsOne ==
    ASSUME NEW i, NEW idx, NEW inner, NEW meta
    PROVE  \/ CollectTokenTransfer(i, idx, inner, meta) = <<>>
           \/ \E t : /\ CollectTokenTransfer(i, idx, inner, meta) = <<t>>
                     /\ Key(t) = <<idx, inner>>
                     /\ t.amount_raw \in AmountsOf(i)
<1> DEFINE info == i.parsed.info
           kind == Normalized(i.parsed.type)
<1>1. CASE i.parsed = None \/ ~IsRelevant(i.parsed.type)
  BY <1>1 DEF CollectTokenTransfer
<1>2. CASE ~(i.parsed = None \/ ~IsRelevant(i.parsed.type)) /\ IsSpl(i)
  <2>1. CollectTokenTransfer(i, idx, inner, meta)
          = ParseSplTransfer(info, kind, i.program_id, meta, idx, inner)
    BY <1>2 DEF CollectTokenTransfer
  <2>2. \/ ParseSplTransfer(info, kind, i.program_id, meta, idx, inner) = <<>>
        \/ \E t : /\ ParseSplTransfer(info, kind, i.program_id, meta, idx, inner) = <<t>>
                  /\ t.instruction_idx = idx /\ t.inner_idx = inner
                  /\ t.amount_raw = IF info.token_amount # None
                                    THEN info.token_amount.amount ELSE info.amount
    BY DEF ParseSplTransfer, Amount
  <2>3. (IF info.token_amount # None THEN info.token_amount.amount ELSE info.amount)
          \in AmountsOf(i)
    BY <1>2 DEF AmountsOf
  <2> QED
    BY <2>1, <2>2, <2>3 DEF Key
<1>3. CASE ~(i.parsed = None \/ ~IsRelevant(i.parsed.type)) /\ ~IsSpl(i) /\ IsSystem(i)
  <2>1. CollectTokenTransfer(i, idx, inner, meta) = ParseNativeTransfer(info, kind, idx, inner)
    BY <1>3 DEF CollectTokenTransfer
  <2>2. \/ ParseNativeTransfer(info, kind, idx, inner) = <<>>
        \/ \E t : /\ ParseNativeTransfer(info, kind, idx, inner) = <<t>>
                  /\ t.instruction_idx = idx /\ t.inner_idx = inner
                  /\ t.amount_raw = info.lamports
    BY DEF ParseNativeTransfer
  <2>3. info.lamports \in AmountsOf(i)
    BY <1>3 DEF AmountsOf
  <2> QED
    BY <2>1, <2>2, <2>3 DEF Key
<1>4. CASE ~(i.parsed = None \/ ~IsRelevant(i.parsed.type)) /\ ~IsSpl(i) /\ ~IsSystem(i)
  BY <1>4 DEF CollectTokenTransfer
<1> QED
  BY <1>1, <1>2, <1>3, <1>4

\* An empty list holds nothing, and a list of one that one.
LEMMA RangeOfShort == Range(<<>>) = {} /\ \A t : Range(<<t>>) = {t}
<1>1. Range(<<>>) = {}
  BY DEF Range
<1>2. ASSUME NEW t PROVE Range(<<t>>) = {t}
  <2>1. <<t>> \in Seq({t}) /\ Len(<<t>>) = 1 /\ <<t>>[1] = t
    OBVIOUS
  <2>2. Range(<<t>>) = {<<t>>[k] : k \in 1 .. 1}
    BY <2>1, RangeEquality
  <2> QED
    BY <2>1, <2>2
<1> QED
  BY <1>1, <1>2

\* The transfer of an instruction of the message.
LEMMA OuterKey ==
    ASSUME NEW t, NEW p, NEW x \in Range(OuterTransfers(t, p))
    PROVE  Key(x) = <<p - 1, None>> /\ x.amount_raw \in AmountsOf(t.outer[p])
<1>1. PICK y : /\ OuterTransfers(t, p) = <<y>>
               /\ Key(y) = <<p - 1, None>>
               /\ y.amount_raw \in AmountsOf(t.outer[p])
  BY CollectsOne, RangeOfShort DEF OuterTransfers
<1> QED
  BY <1>1, RangeOfShort

\* The transfer of an instruction of a group.
LEMMA InnerKey ==
    ASSUME NEW t, NEW g, NEW p, NEW x \in Range(InnerTransfers(t, g, p))
    PROVE  /\ Key(x) = <<t.inner[g].index, p - 1>>
           /\ x.amount_raw \in AmountsOf(t.inner[g].instructions[p])
<1>1. PICK y : /\ InnerTransfers(t, g, p) = <<y>>
               /\ Key(y) = <<t.inner[g].index, p - 1>>
               /\ y.amount_raw \in AmountsOf(t.inner[g].instructions[p])
  BY CollectsOne, RangeOfShort DEF InnerTransfers
<1> QED
  BY <1>1, RangeOfShort

\* Pushing what an instruction yields keeps the keys apart if its key is new.
LEMMA PushKeepsKeys ==
    ASSUME NEW S, NEW s \in Seq(S), NEW c,
           c = <<>> \/ (\E t : c = <<t>>),
           Range(c) \subseteq S,
           \A k, l \in 1 .. Len(s) : Key(s[k]) = Key(s[l]) => k = l,
           \A t \in Range(s), u \in Range(c) : Key(t) # Key(u)
    PROVE  /\ s \o c \in Seq(S)
           /\ Range(s \o c) = Range(s) \cup Range(c)
           /\ \A k, l \in 1 .. Len(s \o c) : Key((s \o c)[k]) = Key((s \o c)[l]) => k = l
<1>1. CASE c = <<>>
  <2>1. s \o c = s
    BY <1>1, ConcatEmptySeq
  <2> QED
    BY <1>1, <2>1, RangeOfShort
<1>2. ASSUME NEW t, c = <<t>> PROVE
           /\ s \o c \in Seq(S)
           /\ Range(s \o c) = Range(s) \cup Range(c)
           /\ \A k, l \in 1 .. Len(s \o c) : Key((s \o c)[k]) = Key((s \o c)[l]) => k = l
  <2>1. t \in S /\ c \in Seq(S) /\ Range(c) = {t} /\ Len(c) = 1 /\ c[1] = t
    BY <1>2, RangeOfShort
  <2>2. s \o c \in Seq(S) /\ Range(s \o c) = Range(s) \cup Range(c)
    BY <2>1, RangeConcatenation, ConcatProperties
  <2>3. /\ Len(s) \in Nat /\ Len(s \o c) = Len(s) + 1
        /\ \A k \in 1 .. Len(s) : (s \o c)[k] = s[k]
        /\ (s \o c)[Len(s) + 1] = t
    BY <2>1, LenProperties, ConcatProperties
  <2>4. \A k \in 1 .. Len(s) : s[k] \in Range(s)
    BY RangeEquality
  <2>5. \A k \in 1 .. Len(s) : Key(s[k]) # Key(t)
    BY <2>1, <2>4
  <2>6. ASSUME NEW k \in 1 .. Len(s) + 1, NEW l \in 1 .. Len(s) + 1,
               Key((s \o c)[k]) = Key((s \o c)[l])
        PROVE  k = l
    <3>1. CASE k \in 1 .. Len(s) /\ l \in 1 .. Len(s)
      BY <2>3, <2>6, <3>1
    <3>2. CASE k = Len(s) + 1 /\ l \in 1 .. Len(s)
      BY <2>3, <2>5, <2>6, <3>2
    <3>3. CASE l = Len(s) + 1 /\ k \in 1 .. Len(s)
      BY <2>3, <2>5, <2>6, <3>3
    <3> QED
      BY <2>3, <3>1, <3>2, <3>3
  <2> QED
    BY <2>2, <2>3, <2>6
<1> QED
  BY <1>1, <1>2

-----------------------------------------------------------------------------
(* The inductive invariant.                                                *)

\* What is assumed of the transaction at hand.
LEMMA TransactionOK ==
    ASSUME tx \in Transactions
    PROVE  /\ Len(tx.outer) \in Nat /\ Len(tx.inner) \in Nat
           /\ \A g \in 1 .. Len(tx.inner) : /\ tx.inner[g].index \in Nat
                                            /\ Len(tx.inner[g].instructions) \in Nat
           /\ \A g, h \in 1 .. Len(tx.inner) : tx.inner[g].index = tx.inner[h].index => g = h
  BY TransferParserAssumption

\* The places of the groups are pairs.
LEMMA InnerPlace ==
    ASSUME NEW q
    PROVE  q \in InnerPlaces(tx) <=>
             \E g \in 1 .. Len(tx.inner) : \E p \in 1 .. Len(tx.inner[g].instructions) : q = <<g, p>>
  BY DEF InnerPlaces

\* The transfers of a transaction, place by place.
LEMMA InAllTransfers ==
    ASSUME NEW t, NEW x
    PROVE  x \in AllTransfers(t) <=>
             \/ \E p \in OuterPlaces(t) : x \in Range(OuterTransfers(t, p))
             \/ \E q \in InnerPlaces(t) : x \in Range(InnerTransfers(t, q[1], q[2]))
<1> DEFINE outer == UNION {Range(OuterTransfers(t, p)) : p \in OuterPlaces(t)}
           inner == UNION {Range(InnerTransfers(t, q[1], q[2])) : q \in InnerPlaces(t)}
<1>1. x \in outer
        <=> \E p \in OuterPlaces(t) : x \in Range(OuterTransfers(t, p))
  BY Zenon
<1>2. x \in inner
        <=> \E q \in InnerPlaces(t) : x \in Range(InnerTransfers(t, q[1], q[2]))
  BY Zenon
<1>3. AllTransfers(t) = outer \cup inner
  BY DEF AllTransfers
<1> HIDE DEF outer, inner
<1> QED
  BY <1>1, <1>2, <1>3

\* Nothing is passed when the loops begin.
LEMMA NothingPassed ==
    ASSUME tx \in Transactions, at = "outer", pos = 0, out = <<>>
    PROVE  OutIsExact /\ KeysAreDistinct
<1>1. <<>> \in Seq(AllTransfers(tx)) /\ Len(<<>>) = 0 /\ Range(<<>>) = {}
  BY RangeOfShort
<1>2. \A p \in OuterPlaces(tx) : ~OuterPassed(p)
  BY TransactionOK DEF OuterPlaces, OuterPassed
<1>3. \A q : ~InnerPassed(q[1], q[2])
  BY DEF InnerPassed
<1> QED
  BY <1>1, <1>2, <1>3 DEF OutIsExact, KeysAreDistinct

\* The invariant holds before the first instruction.
LEMMA ParserInvInit == Init => ParserInv
<1> SUFFICES ASSUME Init PROVE ParserInv
  OBVIOUS
<1>1. TypeOK
  BY TransactionOK DEF Init, TypeOK
<1>2. OutIsExact /\ KeysAreDistinct
  BY NothingPassed DEF Init
<1> QED
  BY <1>1, <1>2 DEF Init, ParserInv, RowsOK

\* An instruction of the message.
LEMMA ParserInvOuter == ParserInv /\ CollectOuter => ParserInv'
<1> SUFFICES ASSUME ParserInv, CollectOuter PROVE ParserInv'
  OBVIOUS
<1> USE DEF ParserInv
<1> DEFINE c == OuterTransfers(tx, pos + 1)
<1>0. /\ tx' = tx /\ at' = at /\ group' = group /\ rows' = rows
      /\ at = "outer" /\ pos < Len(tx.outer) /\ pos' = pos + 1
      /\ out' = out \o c
  BY DEF CollectOuter
<1>1. /\ Len(tx.outer) \in Nat /\ pos \in Nat
      /\ pos + 1 \in OuterPlaces(tx)
  BY <1>0, TransactionOK DEF TypeOK, OuterPlaces
<1>2. TypeOK'
  BY <1>0, <1>1, TransactionOK DEF TypeOK
<1>3. /\ c = <<>> \/ (\E t : c = <<t>>)
      /\ Range(c) \subseteq AllTransfers(tx)
  BY <1>1, CollectsOne DEF OuterTransfers, AllTransfers
<1>4. \A q : ~InnerPassed(q[1], q[2]) /\ ~InnerPassed(q[1], q[2])'
  BY <1>0 DEF InnerPassed
<1>5. ASSUME NEW t \in Range(out), NEW u \in Range(c) PROVE Key(t) # Key(u)
  <2>1. PICK p \in OuterPlaces(tx) : OuterPassed(p) /\ t \in Range(OuterTransfers(tx, p))
    BY <1>4 DEF OutIsExact
  <2>a. t \in Range(OuterTransfers(tx, p)) /\ u \in Range(OuterTransfers(tx, pos + 1))
    BY <2>1
  <2>b. Key(t) = <<p - 1, None>>
    BY <2>a, OuterKey
  <2>c. Key(u) = <<pos + 1 - 1, None>>
    <3>1. PICK n : n = pos + 1
      OBVIOUS
    <3>2. Key(u) = <<n - 1, None>>
      BY <2>a, <3>1, OuterKey
    <3> QED
      BY <1>1, <3>1, <3>2
  <2>2. Key(t) = <<p - 1, None>> /\ Key(u) = <<pos + 1 - 1, None>>
    BY <2>b, <2>c
  <2>3. p \in Nat /\ p <= pos
    BY <1>0, <2>1 DEF OuterPassed, OuterPlaces
  <2> QED
    BY <1>1, <2>2, <2>3
<1>6. /\ out' \in Seq(AllTransfers(tx))
      /\ Range(out') = Range(out) \cup Range(c)
      /\ \A k, l \in 1 .. Len(out') : Key(out'[k]) = Key(out'[l]) => k = l
  <2> DEFINE all == AllTransfers(tx)
  <2>1. out \in Seq(all) /\ (\A k, l \in 1 .. Len(out) : Key(out[k]) = Key(out[l]) => k = l)
    BY DEF OutIsExact, KeysAreDistinct
  <2>2. /\ c = <<>> \/ (\E t : c = <<t>>)
        /\ Range(c) \subseteq all
    BY <1>3
  <2>3. \A t \in Range(out), u \in Range(c) : Key(t) # Key(u)
    BY <1>5
  <2> HIDE DEF c, all
  <2>4. /\ out \o c \in Seq(all)
        /\ Range(out \o c) = Range(out) \cup Range(c)
        /\ \A k, l \in 1 .. Len(out \o c) : Key((out \o c)[k]) = Key((out \o c)[l]) => k = l
    BY <2>1, <2>2, <2>3, PushKeepsKeys
  <2> QED
    BY <1>0, <2>4 DEF all
<1>7. \A p \in OuterPlaces(tx) : OuterPassed(p)' <=> OuterPassed(p) \/ p = pos + 1
  BY <1>0, <1>1 DEF OuterPassed, OuterPlaces
<1>8. OutIsExact'
  BY <1>0, <1>1, <1>4, <1>6, <1>7 DEF OutIsExact
<1>9. KeysAreDistinct' /\ RowsOK'
  BY <1>0, <1>6 DEF KeysAreDistinct, RowsOK
<1> QED
  BY <1>2, <1>8, <1>9

\* An instruction of a group.
LEMMA ParserInvInner == ParserInv /\ CollectInner => ParserInv'
<1> SUFFICES ASSUME ParserInv, CollectInner PROVE ParserInv'
  OBVIOUS
<1> USE DEF ParserInv
<1> DEFINE c == InnerTransfers(tx, group, pos + 1)
<1>0. /\ tx' = tx /\ at' = at /\ group' = group /\ rows' = rows
      /\ at = "inner" /\ group <= Len(tx.inner) /\ pos < Len(tx.inner[group].instructions)
      /\ pos' = pos + 1
      /\ out' = out \o c
  BY DEF CollectInner
<1>1. /\ Len(tx.inner) \in Nat /\ pos \in Nat
      /\ group \in 1 .. Len(tx.inner)
      /\ Len(tx.inner[group].instructions) \in Nat
      /\ pos + 1 \in 1 .. Len(tx.inner[group].instructions)
  BY <1>0, TransactionOK DEF TypeOK
<1>2. TypeOK'
  BY <1>0, <1>1 DEF TypeOK
<1>a. <<group, pos + 1>> \in InnerPlaces(tx)
  BY <1>1, InnerPlace
<1>3. /\ c = <<>> \/ (\E t : c = <<t>>)
      /\ Range(c) \subseteq AllTransfers(tx)
  <2>1. c = <<>> \/ (\E t : c = <<t>>)
    BY CollectsOne DEF InnerTransfers
  <2>2. <<group, pos + 1>>[1] = group /\ <<group, pos + 1>>[2] = pos + 1
    OBVIOUS
  <2>3. ASSUME NEW x \in Range(c) PROVE x \in AllTransfers(tx)
    BY <1>a, <2>2, InAllTransfers
  <2> QED
    BY <2>1, <2>3
<1>4. \A p : OuterPassed(p) /\ OuterPassed(p)'
  BY <1>0 DEF OuterPassed
<1>5. ASSUME NEW t \in Range(out), NEW u \in Range(c) PROVE Key(t) # Key(u)
  <2>0. u \in Range(InnerTransfers(tx, group, pos + 1))
    OBVIOUS
  <2>1. Key(u) = <<tx.inner[group].index, pos + 1 - 1>>
    <3>1. PICK n : n = pos + 1
      OBVIOUS
    <3>2. Key(u) = <<tx.inner[group].index, n - 1>>
      BY <2>0, <3>1, InnerKey
    <3> QED
      BY <1>1, <3>1, <3>2
  <2>2. CASE \E p \in OuterPlaces(tx) : OuterPassed(p) /\ t \in Range(OuterTransfers(tx, p))
    <3>1. PICK p \in OuterPlaces(tx) : t \in Range(OuterTransfers(tx, p))
      BY <2>2
    <3>2. Key(t) = <<p - 1, None>>
      BY <3>1, OuterKey
    <3> QED
      BY <1>1, <2>1, <3>2, TransferParserAssumption
  <2>3. CASE \E q \in InnerPlaces(tx) :
               InnerPassed(q[1], q[2]) /\ t \in Range(InnerTransfers(tx, q[1], q[2]))
    <3>1. PICK q \in InnerPlaces(tx) :
               InnerPassed(q[1], q[2]) /\ t \in Range(InnerTransfers(tx, q[1], q[2]))
      BY <2>3
    <3>2. PICK g \in 1 .. Len(tx.inner) : \E p \in 1 .. Len(tx.inner[g].instructions) : q = <<g, p>>
      BY InnerPlace
    <3>3. PICK p \in 1 .. Len(tx.inner[g].instructions) : q = <<g, p>>
      BY <3>2
    <3>4. q[1] = g /\ q[2] = p
      BY <3>3
    <3>5. Key(t) = <<tx.inner[g].index, p - 1>> /\ InnerPassed(g, p)
      BY <3>1, <3>4, InnerKey
    <3>6. ASSUME Key(t) = Key(u) PROVE FALSE
      <4>1. tx.inner[g].index = tx.inner[group].index /\ p - 1 = pos + 1 - 1
        BY <2>1, <3>5, <3>6
      <4>2. g = group
        BY <1>1, <4>1, TransactionOK DEF TypeOK
      <4>3. p \in Nat /\ p <= pos
        BY <1>0, <1>1, <3>5, <4>2 DEF InnerPassed
      <4> QED
        BY <1>1, <4>1, <4>3
    <3> QED
      BY <3>6
  <2> QED
    BY <2>2, <2>3 DEF OutIsExact
<1>6. /\ out' \in Seq(AllTransfers(tx))
      /\ Range(out') = Range(out) \cup Range(c)
      /\ \A k, l \in 1 .. Len(out') : Key(out'[k]) = Key(out'[l]) => k = l
  <2> DEFINE all == AllTransfers(tx)
  <2>1. out \in Seq(all) /\ (\A k, l \in 1 .. Len(out) : Key(out[k]) = Key(out[l]) => k = l)
    BY DEF OutIsExact, KeysAreDistinct
  <2>2. /\ c = <<>> \/ (\E t : c = <<t>>)
        /\ Range(c) \subseteq all
    BY <1>3
  <2>3. \A t \in Range(out), u \in Range(c) : Key(t) # Key(u)
    BY <1>5
  <2> HIDE DEF c, all
  <2>4. /\ out \o c \in Seq(all)
        /\ Range(out \o c) = Range(out) \cup Range(c)
        /\ \A k, l \in 1 .. Len(out \o c) : Key((out \o c)[k]) = Key((out \o c)[l]) => k = l
    BY <2>1, <2>2, <2>3, PushKeepsKeys
  <2> QED
    BY <1>0, <2>4 DEF all
<1>7. ASSUME NEW q \in InnerPlaces(tx)
      PROVE  InnerPassed(q[1], q[2])' <=> InnerPassed(q[1], q[2]) \/ q = <<group, pos + 1>>
  <2>1. PICK g \in 1 .. Len(tx.inner) : \E p \in 1 .. Len(tx.inner[g].instructions) : q = <<g, p>>
    BY InnerPlace
  <2>2. PICK p \in 1 .. Len(tx.inner[g].instructions) : q = <<g, p>>
    BY <2>1
  <2>3. q[1] = g /\ q[2] = p
    BY <2>2
  <2>4. g \in Nat /\ p \in Nat
    BY <1>1, <2>1, <2>2
  <2>5. InnerPassed(g, p)' <=> g < group \/ (g = group /\ p <= pos + 1)
    BY <1>0 DEF InnerPassed
  <2>6. InnerPassed(g, p) <=> g < group \/ (g = group /\ p <= pos)
    BY <1>0 DEF InnerPassed
  <2>7. q = <<group, pos + 1>> <=> g = group /\ p = pos + 1
    BY <2>2
  <2> QED
    BY <1>1, <2>3, <2>4, <2>5, <2>6, <2>7
<1>8. OutIsExact'
  <2>1. \A t \in Range(out') :
          \/ \E p \in OuterPlaces(tx) : OuterPassed(p)' /\ t \in Range(OuterTransfers(tx, p))
          \/ \E q \in InnerPlaces(tx) :
                InnerPassed(q[1], q[2])' /\ t \in Range(InnerTransfers(tx, q[1], q[2]))
    <3>1. ASSUME NEW t \in Range(c)
          PROVE  \E q \in InnerPlaces(tx) :
                   InnerPassed(q[1], q[2])' /\ t \in Range(InnerTransfers(tx, q[1], q[2]))
      <4>1. <<group, pos + 1>>[1] = group /\ <<group, pos + 1>>[2] = pos + 1
        OBVIOUS
      <4> QED
        BY <1>a, <1>7, <4>1
    <3> QED
      BY <1>4, <1>6, <1>7, <3>1 DEF OutIsExact
  <2>2. \A p \in OuterPlaces(tx) : OuterPassed(p)' => Range(OuterTransfers(tx, p)) \subseteq Range(out')
    BY <1>4, <1>6 DEF OutIsExact
  <2>3. \A q \in InnerPlaces(tx) :
          InnerPassed(q[1], q[2])' => Range(InnerTransfers(tx, q[1], q[2])) \subseteq Range(out')
    <3>1. <<group, pos + 1>>[1] = group /\ <<group, pos + 1>>[2] = pos + 1
      OBVIOUS
    <3> QED
      BY <1>6, <1>7, <3>1 DEF OutIsExact
  <2> QED
    BY <1>0, <1>6, <2>1, <2>2, <2>3 DEF OutIsExact
<1>9. KeysAreDistinct' /\ RowsOK'
  BY <1>0, <1>6 DEF KeysAreDistinct, RowsOK
<1> QED
  BY <1>2, <1>8, <1>9

\* Between the loops, and from one group to the next, no place is passed.
LEMMA ParserInvMove == ParserInv /\ (OuterDone \/ NextGroup \/ Finish) => ParserInv'
<1> SUFFICES ASSUME ParserInv, OuterDone \/ NextGroup \/ Finish PROVE ParserInv'
  OBVIOUS
<1> USE DEF ParserInv
<1>0. tx' = tx /\ out' = out /\ rows' = rows
  BY DEF OuterDone, NextGroup, Finish
<1>1. TypeOK'
  <2>1. CASE OuterDone
    BY <2>1, TransactionOK DEF OuterDone, TypeOK
  <2>2. CASE NextGroup
    BY <2>2, TransactionOK DEF NextGroup, TypeOK
  <2>3. CASE Finish
    BY <2>3, TransactionOK DEF Finish, TypeOK
  <2> QED
    BY <2>1, <2>2, <2>3
<1>2. \A p \in OuterPlaces(tx) : OuterPassed(p)' <=> OuterPassed(p)
  BY TransactionOK DEF OuterPlaces, OuterPassed, TypeOK, OuterDone, NextGroup, Finish
<1>3. ASSUME NEW q \in InnerPlaces(tx)
      PROVE  InnerPassed(q[1], q[2])' <=> InnerPassed(q[1], q[2])
  <2>1. PICK g \in 1 .. Len(tx.inner) : \E p \in 1 .. Len(tx.inner[g].instructions) : q = <<g, p>>
    BY InnerPlace
  <2>2. PICK p \in 1 .. Len(tx.inner[g].instructions) : q = <<g, p>>
    BY <2>1
  <2>3. q[1] = g /\ q[2] = p
    BY <2>2
  <2>4. /\ Len(tx.inner) \in Nat /\ Len(tx.inner[g].instructions) \in Nat
        /\ g \in Nat /\ p \in Nat /\ g >= 1 /\ p >= 1
        /\ g <= Len(tx.inner) /\ p <= Len(tx.inner[g].instructions)
    BY TransactionOK DEF TypeOK
  <2>5. CASE OuterDone
    <3>1. ~InnerPassed(g, p)
      BY <2>5 DEF OuterDone, InnerPassed
    <3>2. ~InnerPassed(g, p)'
      BY <2>4, <2>5 DEF OuterDone, InnerPassed, TypeOK
    <3> QED
      BY <2>3, <3>1, <3>2
  <2>6. CASE NextGroup
    <3>1. group \in Nat /\ pos \in Nat /\ group' = group + 1 /\ pos' = 0
      BY <2>4, <2>6 DEF NextGroup, TypeOK
    <3>2. InnerPassed(g, p)' <=> g <= group
      BY <2>4, <2>6, <3>1 DEF NextGroup, InnerPassed
    <3>3. InnerPassed(g, p) <=> g <= group
      BY <2>4, <2>6, <3>1 DEF NextGroup, InnerPassed
    <3> QED
      BY <2>3, <3>2, <3>3
  <2>7. CASE Finish
    <3>1. InnerPassed(g, p)
      BY <2>4, <2>7 DEF Finish, InnerPassed, TypeOK
    <3>2. InnerPassed(g, p)'
      BY <2>7 DEF Finish, InnerPassed
    <3> QED
      BY <2>3, <3>1, <3>2
  <2> QED
    BY <2>5, <2>6, <2>7
<1>4. OutIsExact'
  BY <1>0, <1>2, <1>3 DEF OutIsExact
<1>5. KeysAreDistinct' /\ RowsOK'
  BY <1>0 DEF KeysAreDistinct, RowsOK, OuterDone, NextGroup, Finish
<1> QED
  BY <1>1, <1>4, <1>5

\* After the loops every transfer of the transaction has been collected.
LEMMA AllCollected ==
    ASSUME ParserInv, at \in {"parsed", "saved"}
    PROVE  Range(out) = AllTransfers(tx)
<1>1. \A p : OuterPassed(p)
  BY DEF OuterPassed
<1>2. \A q : InnerPassed(q[1], q[2])
  BY DEF InnerPassed
<1>3. Range(out) \subseteq AllTransfers(tx)
  BY RangeEquality DEF ParserInv, OutIsExact
<1>4. \A p \in OuterPlaces(tx) : Range(OuterTransfers(tx, p)) \subseteq Range(out)
  BY <1>1 DEF ParserInv, OutIsExact
<1>5. \A q \in InnerPlaces(tx) : Range(InnerTransfers(tx, q[1], q[2])) \subseteq Range(out)
  BY <1>2 DEF ParserInv, OutIsExact
<1>6. AllTransfers(tx) \subseteq Range(out)
  BY <1>4, <1>5, InAllTransfers
<1> QED
  BY <1>3, <1>6

\* Saving adds all of them, or none if they are there.
LEMMA ParserInvSave == ParserInv /\ Save => ParserInv'
<1> SUFFICES ASSUME ParserInv, Save PROVE ParserInv'
  OBVIOUS
<1>0. /\ tx' = tx /\ group' = group /\ pos' = pos /\ out' = out
      /\ at = "parsed" /\ at' = "saved" /\ rows' = rows \cup Range(out)
  BY DEF Save
<1>1. TypeOK'
  BY <1>0 DEF ParserInv, TypeOK
<1>2. \A p : OuterPassed(p) /\ OuterPassed(p)'
  BY <1>0 DEF OuterPassed
<1>3. \A q : InnerPassed(q[1], q[2]) /\ InnerPassed(q[1], q[2])'
  BY <1>0 DEF InnerPassed
<1>4. OutIsExact' /\ KeysAreDistinct'
  BY <1>0, <1>2, <1>3 DEF ParserInv, OutIsExact, KeysAreDistinct
<1>5. Range(out) = AllTransfers(tx)
  BY <1>0, AllCollected
<1>6. RowsOK'
  BY <1>0, <1>5 DEF ParserInv, RowsOK
<1> QED
  BY <1>1, <1>4, <1>6 DEF ParserInv

\* Fetching it again begins anew, and keeps the rows.
LEMMA ParserInvRefetch == ParserInv /\ Refetch => ParserInv'
<1> SUFFICES ASSUME ParserInv, Refetch PROVE ParserInv'
  OBVIOUS
<1>0. /\ tx' = tx /\ rows' = rows /\ tx \in Transactions
      /\ at' = "outer" /\ group' = 1 /\ pos' = 0 /\ out' = <<>>
  BY DEF Refetch, Begin, ParserInv, TypeOK
<1>1. TypeOK'
  BY <1>0, TransactionOK DEF TypeOK
<1>2. <<>> \in Seq(AllTransfers(tx)) /\ Len(<<>>) = 0 /\ Range(<<>>) = {}
  BY RangeOfShort
<1>3. \A p \in OuterPlaces(tx) : ~OuterPassed(p)'
  BY <1>0, TransactionOK DEF OuterPlaces, OuterPassed
<1>4. \A q : ~InnerPassed(q[1], q[2])'
  BY <1>0 DEF InnerPassed
<1>5. OutIsExact' /\ KeysAreDistinct'
  BY <1>0, <1>2, <1>3, <1>4 DEF OutIsExact, KeysAreDistinct
<1>6. RowsOK'
  BY <1>0 DEF ParserInv, RowsOK
<1> QED
  BY <1>1, <1>5, <1>6 DEF ParserInv

\* A step that changes nothing.
LEMMA ParserInvStutter == ParserInv /\ UNCHANGED vars => ParserInv'
<1> SUFFICES ASSUME ParserInv, UNCHANGED vars PROVE ParserInv'
  OBVIOUS
<1>1. TypeOK' /\ RowsOK' /\ KeysAreDistinct'
  BY DEF ParserInv, vars, TypeOK, RowsOK, KeysAreDistinct
<1>2. \A p : OuterPassed(p)' <=> OuterPassed(p)
  BY DEF vars, OuterPassed
<1>3. \A q : InnerPassed(q[1], q[2])' <=> InnerPassed(q[1], q[2])
  BY DEF vars, InnerPassed
<1>4. OutIsExact'
  BY <1>2, <1>3 DEF ParserInv, vars, OutIsExact
<1> QED
  BY <1>1, <1>4 DEF ParserInv

-----------------------------------------------------------------------------
(* The theorems.                                                           *)

\* ParserInv is an invariant: calculate_token_transfer collects the transfers of
\* all instructions, each under a place of its own, and write_token_transfers
\* keeps all of them however often the transaction is fetched.
THEOREM ParserInvariance == Spec => []ParserInv
<1>1. ParserInv /\ [Next]_vars => ParserInv'
  BY ParserInvOuter, ParserInvInner, ParserInvMove, ParserInvSave, ParserInvRefetch,
     ParserInvStutter DEF Next
<1> QED
  BY <1>1, ParserInvInit, PTL DEF Spec

\* The loops of calculate_token_transfer stay within the instructions.
THEOREM ParserTypeCorrect == Spec => []TypeOK
<1>1. ParserInv => TypeOK
  BY DEF ParserInv
<1> QED
  BY <1>1, ParserInvariance, PTL

\* The unique index of token_transfers neither merges two transfers of a
\* transaction nor lets a second save add a row.
THEOREM TransfersKeepRows == Spec => []RowPerTransfer
<1>1. ParserInv => RowPerTransfer
  <2> SUFFICES ASSUME ParserInv, at = "saved" PROVE Cardinality(rows) = Len(out)
    BY DEF RowPerTransfer
  <2>1. rows = Range(out)
    BY AllCollected DEF ParserInv, RowsOK
  <2>2. out \in Seq(AllTransfers(tx)) /\ Len(out) \in Nat
    BY LenProperties DEF ParserInv, OutIsExact
  <2>3. \A k \in 1 .. Len(out) : out[k] \in Range(out)
    BY <2>2, RangeEquality
  <2>4. \A t \in Range(out) : \E k \in 1 .. Len(out) : out[k] = t
    BY <2>2, RangeEquality
  <2>5. \A k, l \in 1 .. Len(out) : out[k] = out[l] => k = l
    BY DEF ParserInv, KeysAreDistinct
  <2> DEFINE f == [k \in 1 .. Len(out) |-> out[k]]
  <2>a. f \in [1 .. Len(out) -> Range(out)]
    BY <2>3
  <2>b. f \in Injection(1 .. Len(out), Range(out))
    BY <2>a, <2>5 DEF Injection, IsInjective
  <2>c. f \in Surjection(1 .. Len(out), Range(out))
    BY <2>a, <2>4 DEF Surjection
  <2>6. f \in Bijection(1 .. Len(out), Range(out))
    BY <2>b, <2>c DEF Bijection
  <2>7. IsFiniteSet(1 .. Len(out)) /\ Cardinality(1 .. Len(out)) = Len(out)
    BY <2>2, FS_Interval
  <2>8. ExistsBijection(1 .. Len(out), Range(out))
    BY <2>6 DEF ExistsBijection
  <2> QED
    BY <2>1, <2>7, <2>8, FS_Bijection
<1> QED
  BY <1>1, ParserInvariance, PTL

\* instruction_idx and inner_idx of every transfer lead back to the instruction
\* that it was made of.
THEOREM TransfersPointBack == Spec => []KeysPointBack
<1>1. ParserInv => KeysPointBack
  <2> SUFFICES ASSUME ParserInv, NEW k \in 1 .. Len(out)
               PROVE  \/ \E p \in 1 .. Len(tx.outer) :
                            /\ Key(out[k]) = <<p - 1, None>>
                            /\ out[k].amount_raw \in AmountsOf(tx.outer[p])
                      \/ \E g \in 1 .. Len(tx.inner) : \E p \in 1 .. Len(tx.inner[g].instructions) :
                            /\ Key(out[k]) = <<tx.inner[g].index, p - 1>>
                            /\ out[k].amount_raw \in AmountsOf(tx.inner[g].instructions[p])
    BY DEF KeysPointBack
  <2>1. out[k] \in Range(out)
    BY RangeEquality DEF ParserInv, OutIsExact
  <2>2. CASE \E p \in OuterPlaces(tx) : out[k] \in Range(OuterTransfers(tx, p))
    <3>1. PICK p \in OuterPlaces(tx) : out[k] \in Range(OuterTransfers(tx, p))
      BY <2>2
    <3>2. Key(out[k]) = <<p - 1, None>> /\ out[k].amount_raw \in AmountsOf(tx.outer[p])
      BY <3>1, OuterKey
    <3> QED
      BY <3>1, <3>2 DEF OuterPlaces
  <2>3. CASE \E q \in InnerPlaces(tx) : out[k] \in Range(InnerTransfers(tx, q[1], q[2]))
    <3>1. PICK q \in InnerPlaces(tx) : out[k] \in Range(InnerTransfers(tx, q[1], q[2]))
      BY <2>3
    <3>2. PICK g \in 1 .. Len(tx.inner) : \E p \in 1 .. Len(tx.inner[g].instructions) : q = <<g, p>>
      BY InnerPlace
    <3>3. PICK p \in 1 .. Len(tx.inner[g].instructions) : q = <<g, p>>
      BY <3>2
    <3>4. out[k] \in Range(InnerTransfers(tx, g, p))
      BY <3>1, <3>3
    <3>5. /\ Key(out[k]) = <<tx.inner[g].index, p - 1>>
          /\ out[k].amount_raw \in AmountsOf(tx.inner[g].instructions[p])
      BY <3>4, InnerKey
    <3> QED
      BY <3>5
  <2> QED
    BY <2>1, <2>2, <2>3 DEF ParserInv, OutIsExact
<1> QED
  BY <1>1, ParserInvariance, PTL

-----------------------------------------------------------------------------
(* The map of the token accounts.                                          *)

\* What the map knows of account a after n balances: the last one of them that is
\* of a.
KnowsLast(map, keys, balances, n, a) ==
    IF a \in DOMAIN map
    THEN \E k \in 1 .. n : /\ IsOf(keys, balances[k], a)
                           /\ map[a] = balances[k]
                           /\ \A l \in k + 1 .. n : ~IsOf(keys, balances[l], a)
    ELSE \A k \in 1 .. n : ~IsOf(keys, balances[k], a)

\* f is the recursive function of MetaMap.
BuildsMetaMap(f, keys, balances) ==
    /\ f[0] = <<>>
    /\ \A n \in 1 .. Len(balances) :
          f[n] = IF balances[n].account_index < Len(keys)
                 THEN Insert(f[n - 1], keys[balances[n].account_index + 1], balances[n])
                 ELSE f[n - 1]

\* Such a function exists, and MetaMap is its last value.
LEMMA MetaMapSolution ==
    ASSUME NEW keys, NEW balances, Len(balances) \in Nat
    PROVE  \E f : MetaMap(keys, balances) = f[Len(balances)] /\ BuildsMetaMap(f, keys, balances)
<1> DEFINE Step(f, n) == IF n = 0 THEN <<>>
                         ELSE IF balances[n].account_index < Len(keys)
                              THEN Insert(f[n - 1], keys[balances[n].account_index + 1], balances[n])
                         ELSE f[n - 1]
           Solves(f, m) == f = [n \in 0 .. m |-> Step(f, n)]
           T == {m \in 0 .. Len(balances) : \E f : Solves(f, m)}
<1>1. 0 \in T
  <2> DEFINE f == [n \in 0 .. 0 |-> <<>>]
  <2>1. Solves(f, 0) /\ 0 \in 0 .. Len(balances)
    OBVIOUS
  <2> HIDE DEF f, Solves
  <2> QED
    BY <2>1
<1>2. ASSUME NEW m \in 0 .. Len(balances), m \in T, m < Len(balances) PROVE m + 1 \in T
  <2>1. PICK f : Solves(f, m)
    BY <1>2
  <2> DEFINE g == [n \in 0 .. m + 1 |-> IF n = m + 1 THEN Step(f, m + 1) ELSE f[n]]
  <2>2. \A n \in 0 .. m : f[n] = Step(f, n)
    BY <2>1
  <2>3. \A n \in 0 .. m + 1 : g[n] = Step(g, n)
    <3>1. ASSUME NEW n \in 0 .. m PROVE g[n] = Step(g, n)
      <4>1. g[n] = f[n] /\ (n # 0 => g[n - 1] = f[n - 1])
        OBVIOUS
      <4> QED
        BY <2>2, <4>1
    <3>2. g[m + 1] = Step(g, m + 1)
      <4>1. g[m + 1] = Step(f, m + 1) /\ g[m] = f[m] /\ m + 1 - 1 = m
        OBVIOUS
      <4> QED
        BY <4>1
    <3>3. \A n \in 0 .. m + 1 : n \in 0 .. m \/ n = m + 1
      OBVIOUS
    <3> HIDE DEF g, Step
    <3> QED
      BY <3>1, <3>2, <3>3
  <2>4. Solves(g, m + 1)
    BY <2>3
  <2>5. m + 1 \in 0 .. Len(balances) /\ (\E h : Solves(h, m + 1))
    <3>1. m + 1 \in 0 .. Len(balances)
      BY <1>2
    <3> HIDE DEF Solves, g
    <3> QED
      BY <2>4, <3>1
  <2> HIDE DEF Solves
  <2> QED
    BY <2>5
<1>3. Len(balances) \in T
  <2>1. \A m \in 0 .. Len(balances) : m \in T /\ m < Len(balances) => m + 1 \in T
    BY <1>2
  <2> HIDE DEF T
  <2>2. \A n \in 0 .. Len(balances) : n \in T
    BY <1>1, <2>1, IntervalInduction, Zenon
  <2> QED
    BY <2>2
<1> DEFINE sol == CHOOSE f : Solves(f, Len(balances))
<1>4. MetaMap(keys, balances) = sol[Len(balances)]
  BY DEF MetaMap
<1>5. Solves(sol, Len(balances))
  <2> HIDE DEF Solves
  <2> QED
    BY <1>3
<1> HIDE DEF sol
<1>6. \A n \in 0 .. Len(balances) : sol[n] = Step(sol, n)
  BY <1>5
<1>7. BuildsMetaMap(sol, keys, balances)
  BY <1>6 DEF BuildsMetaMap
<1> QED
  BY <1>4, <1>7

\* token_account_meta_map knows every account with a balance, by its last one.
LEMMA MetaMapKnowsLast ==
    ASSUME NEW keys, NEW balances, Len(balances) \in Nat
    PROVE  \A a : KnowsLast(MetaMap(keys, balances), keys, balances, Len(balances), a)
<1>0. PICK f : MetaMap(keys, balances) = f[Len(balances)] /\ BuildsMetaMap(f, keys, balances)
  BY MetaMapSolution
<1>1. /\ MetaMap(keys, balances) = f[Len(balances)]
      /\ f[0] = <<>>
      /\ \A n \in 1 .. Len(balances) :
            f[n] = IF balances[n].account_index < Len(keys)
                   THEN Insert(f[n - 1], keys[balances[n].account_index + 1], balances[n])
                   ELSE f[n - 1]
  BY <1>0 DEF BuildsMetaMap
<1> DEFINE T == {n \in 0 .. Len(balances) : \A a : KnowsLast(f[n], keys, balances, n, a)}
<1>2. 0 \in T
  <2>1. DOMAIN <<>> = {}
    OBVIOUS
  <2> QED
    BY <1>1, <2>1 DEF KnowsLast
<1>3. ASSUME NEW n \in 0 .. Len(balances), n \in T, n < Len(balances) PROVE n + 1 \in T
  <2>1. PICK m \in 1 .. Len(balances) : m = n + 1 /\ m - 1 = n
    BY <1>3
  <2>2. f[m] = IF balances[m].account_index < Len(keys)
               THEN Insert(f[n], keys[balances[m].account_index + 1], balances[m])
               ELSE f[n]
    BY <1>1, <2>1
  <2>3. ASSUME NEW a PROVE KnowsLast(f[m], keys, balances, m, a)
    <3>1. KnowsLast(f[n], keys, balances, n, a)
      BY <1>3
    <3>2. CASE IsOf(keys, balances[m], a)
      <4>1. a \in DOMAIN f[m] /\ f[m][a] = balances[m]
        BY <2>2, <3>2 DEF IsOf, Insert
      <4>2. \A l \in m + 1 .. m : FALSE
        BY <2>1
      <4> QED
        BY <3>2, <4>1, <4>2 DEF KnowsLast
    <3>3. CASE ~IsOf(keys, balances[m], a)
      <4>1. /\ a \in DOMAIN f[m] <=> a \in DOMAIN f[n]
            /\ a \in DOMAIN f[n] => f[m][a] = f[n][a]
        BY <2>2, <3>3 DEF IsOf, Insert
      <4>2. \A l \in 1 .. m : l \in 1 .. n \/ l = m
        BY <2>1
      <4>3. CASE a \in DOMAIN f[n]
        <5>1. PICK k \in 1 .. n : /\ IsOf(keys, balances[k], a)
                                  /\ f[n][a] = balances[k]
                                  /\ \A l \in k + 1 .. n : ~IsOf(keys, balances[l], a)
          BY <3>1, <4>3 DEF KnowsLast
        <5>2. \A l \in k + 1 .. m : ~IsOf(keys, balances[l], a)
          BY <2>1, <3>3, <5>1
        <5>3. k \in 1 .. m
          BY <2>1
        <5> QED
          BY <4>1, <4>3, <5>1, <5>2, <5>3 DEF KnowsLast
      <4>4. CASE a \notin DOMAIN f[n]
        BY <3>1, <3>3, <4>1, <4>2, <4>4 DEF KnowsLast
      <4> QED
        BY <4>3, <4>4
    <3> QED
      BY <3>2, <3>3
  <2> QED
    BY <2>1, <2>3
<1>4. \A n \in 0 .. Len(balances) : n \in T
  <2>1. \A n \in 0 .. Len(balances) : n \in T /\ n < Len(balances) => n + 1 \in T
    BY <1>3
  <2> HIDE DEF T
  <2> QED
    BY <1>2, <2>1, IntervalInduction, Zenon
<1>5. Len(balances) \in 0 .. Len(balances)
  OBVIOUS
<1> QED
  BY <1>1, <1>4, <1>5

\* The keys and the balances of a transaction are sequences.
LEMMA ListsOfTransaction ==
    ASSUME NEW t \in Transactions
    PROVE  /\ \E S : AllAccountKeys(t) \in Seq(S)
           /\ \E S : t.pre \in Seq(S) /\ t.post \in Seq(S)
<1>1. \A s \in {t.keys, t.writable, t.readonly, t.pre, t.post} : s \in Seq(Range(s))
  BY TransferParserAssumption
<1>2. ASSUME NEW s, NEW R, s \in Seq(R), NEW S, R \subseteq S PROVE s \in Seq(S)
  BY <1>2, SeqMonotonic
<1> DEFINE K == Range(t.keys) \cup Range(t.writable) \cup Range(t.readonly)
<1>3. t.keys \in Seq(K) /\ t.writable \in Seq(K) /\ t.readonly \in Seq(K)
  BY <1>1, <1>2
<1> HIDE DEF K
<1>4. AllAccountKeys(t) \in Seq(K)
  BY <1>3, ConcatProperties DEF AllAccountKeys
<1> DEFINE B == Range(t.pre) \cup Range(t.post)
<1>5. t.pre \in Seq(B) /\ t.post \in Seq(B)
  BY <1>1, <1>2
<1> HIDE DEF B
<1> QED
  BY <1>4, <1>5

\* The account of a balance is among the keys.
LEMMA AccountIsKey ==
    ASSUME NEW t \in Transactions, NEW b, b.account_index \in Nat, NEW a,
           IsOf(AllAccountKeys(t), b, a)
    PROVE  a \in Range(AllAccountKeys(t))
<1>1. PICK S : AllAccountKeys(t) \in Seq(S)
  BY ListsOfTransaction
<1>2. /\ Len(AllAccountKeys(t)) \in Nat
      /\ DOMAIN AllAccountKeys(t) = 1 .. Len(AllAccountKeys(t))
  BY <1>1, LenProperties
<1>3. b.account_index + 1 \in DOMAIN AllAccountKeys(t)
  BY <1>2 DEF IsOf
<1> QED
  BY <1>3 DEF IsOf, Range

\* No list has two balances of an account.
LEMMA OneBalance ==
    ASSUME NEW t \in Transactions, NEW s \in {t.pre, t.post}, NEW a,
           NEW k \in 1 .. Len(s), NEW l \in 1 .. Len(s),
           IsOf(AllAccountKeys(t), s[k], a), IsOf(AllAccountKeys(t), s[l], a)
    PROVE  k = l
<1>1. s[k].account_index \in Nat
  BY BalancesAssumption
<1>2. a \in Range(AllAccountKeys(t))
  BY <1>1, AccountIsKey
<1> QED
  BY <1>2, BalancesAssumption

\* With two lists of balances, token_account_meta_map knows an account by the
\* second list, and by the first if the second has no balance of it.
LEMMA MapPrefersSecond ==
    ASSUME NEW keys, NEW S, NEW pre \in Seq(S), NEW post \in Seq(S), NEW a
    PROVE  LET map == MetaMap(keys, pre \o post) IN
           IF a \in DOMAIN map
           THEN \/ \E n \in 1 .. Len(post) : IsOf(keys, post[n], a) /\ map[a] = post[n]
                \/ /\ \A n \in 1 .. Len(post) : ~IsOf(keys, post[n], a)
                   /\ \E n \in 1 .. Len(pre) : IsOf(keys, pre[n], a) /\ map[a] = pre[n]
           ELSE /\ \A n \in 1 .. Len(post) : ~IsOf(keys, post[n], a)
                /\ \A n \in 1 .. Len(pre) : ~IsOf(keys, pre[n], a)
<1> DEFINE both == pre \o post
           map == MetaMap(keys, both)
<1>1. both \in Seq(S) /\ Len(pre) \in Nat /\ Len(post) \in Nat /\ Len(both) \in Nat
  BY ConcatProperties, LenProperties
<1>2. /\ Len(both) = Len(pre) + Len(post)
      /\ \A n \in 1 .. Len(pre) : n \in 1 .. Len(both) /\ both[n] = pre[n]
      /\ \A n \in 1 .. Len(post) : Len(pre) + n \in 1 .. Len(both) /\ both[Len(pre) + n] = post[n]
      /\ \A k \in 1 .. Len(both) : k \in 1 .. Len(pre) \/ k - Len(pre) \in 1 .. Len(post)
  BY <1>1, ConcatProperties
<1>3. KnowsLast(map, keys, both, Len(both), a)
  BY <1>1, MetaMapKnowsLast
<1> HIDE DEF both, map
<1>4. CASE a \in DOMAIN map
  <2>1. PICK k \in 1 .. Len(both) : /\ IsOf(keys, both[k], a)
                                    /\ map[a] = both[k]
                                    /\ \A l \in k + 1 .. Len(both) : ~IsOf(keys, both[l], a)
    BY <1>3, <1>4 DEF KnowsLast
  <2>2. CASE k \in 1 .. Len(pre)
    <3>1. ASSUME NEW n \in 1 .. Len(post) PROVE ~IsOf(keys, post[n], a)
      <4>1. Len(pre) + n \in k + 1 .. Len(both)
        BY <1>1, <1>2, <2>2
      <4> QED
        BY <1>2, <2>1, <4>1
    <3> QED
      BY <1>2, <1>4, <2>1, <2>2, <3>1 DEF both, map
  <2>3. CASE k - Len(pre) \in 1 .. Len(post)
    <3>1. PICK n \in 1 .. Len(post) : n = k - Len(pre)
      BY <2>3
    <3>2. k = Len(pre) + n
      BY <1>1, <3>1
    <3> QED
      BY <1>2, <1>4, <2>1, <3>2 DEF both, map
  <2> QED
    BY <1>2, <2>2, <2>3
<1>5. CASE a \notin DOMAIN map
  <2>1. \A k \in 1 .. Len(both) : ~IsOf(keys, both[k], a)
    BY <1>3, <1>5 DEF KnowsLast
  <2>2. \A n \in 1 .. Len(post) : ~IsOf(keys, post[n], a)
    BY <1>2, <2>1
  <2>3. \A n \in 1 .. Len(pre) : ~IsOf(keys, pre[n], a)
    BY <1>2, <2>1
  <2> QED
    BY <1>5, <2>2, <2>3 DEF both, map
<1> QED
  BY <1>4, <1>5

\* The members of two lists are those of their concatenation.
LEMMA RangesOfLists ==
    ASSUME NEW t \in Transactions
    PROVE  /\ Range(t.pre) = {t.pre[k] : k \in 1 .. Len(t.pre)}
           /\ Range(t.post) = {t.post[k] : k \in 1 .. Len(t.post)}
           /\ Range(t.pre \o t.post) = Range(t.pre) \cup Range(t.post)
<1>1. PICK S : t.pre \in Seq(S) /\ t.post \in Seq(S)
  BY ListsOfTransaction
<1> QED
  BY <1>1, RangeEquality, RangeConcatenation

\* The owner that token_account_meta_map gives an account is the latest.
LEMMA MapGivesLatestOwner ==
    ASSUME tx \in Transactions, NEW a
    PROVE  IsOwnerAfter(Lookup(TokenAccountMetaMap(tx), a, "owner"), a)
<1> DEFINE keys == AllAccountKeys(tx)
           map == TokenAccountMetaMap(tx)
           o == Lookup(map, a, "owner")
<1>1. PICK S : tx.pre \in Seq(S) /\ tx.post \in Seq(S)
  BY ListsOfTransaction
<1>2. IF a \in DOMAIN map
      THEN \/ \E n \in 1 .. Len(tx.post) : IsOf(keys, tx.post[n], a) /\ map[a] = tx.post[n]
           \/ /\ \A n \in 1 .. Len(tx.post) : ~IsOf(keys, tx.post[n], a)
              /\ \E n \in 1 .. Len(tx.pre) : IsOf(keys, tx.pre[n], a) /\ map[a] = tx.pre[n]
      ELSE /\ \A n \in 1 .. Len(tx.post) : ~IsOf(keys, tx.post[n], a)
           /\ \A n \in 1 .. Len(tx.pre) : ~IsOf(keys, tx.pre[n], a)
  BY <1>1, MapPrefersSecond DEF TokenAccountMetaMap
<1>3. \A s \in {tx.pre, tx.post} : \A k, l \in 1 .. Len(s) :
          IsOf(keys, s[k], a) /\ IsOf(keys, s[l], a) => k = l
  BY OneBalance
<1>4. /\ \A b : b \in BalancesOf(tx, tx.pre, a)
                  <=> \E k \in 1 .. Len(tx.pre) : b = tx.pre[k] /\ IsOf(keys, tx.pre[k], a)
      /\ \A b : b \in BalancesOf(tx, tx.post, a)
                  <=> \E k \in 1 .. Len(tx.post) : b = tx.post[k] /\ IsOf(keys, tx.post[k], a)
      /\ BalancesOf(tx, tx.pre \o tx.post, a)
           = BalancesOf(tx, tx.pre, a) \cup BalancesOf(tx, tx.post, a)
  <2>1. /\ Range(tx.pre) = {tx.pre[k] : k \in 1 .. Len(tx.pre)}
        /\ Range(tx.post) = {tx.post[k] : k \in 1 .. Len(tx.post)}
        /\ Range(tx.pre \o tx.post) = Range(tx.pre) \cup Range(tx.post)
    BY RangesOfLists
  <2>2. ASSUME NEW b
        PROVE  b \in BalancesOf(tx, tx.pre, a)
                 <=> \E k \in 1 .. Len(tx.pre) : b = tx.pre[k] /\ IsOf(keys, tx.pre[k], a)
    BY <2>1 DEF BalancesOf
  <2>3. ASSUME NEW b
        PROVE  b \in BalancesOf(tx, tx.post, a)
                 <=> \E k \in 1 .. Len(tx.post) : b = tx.post[k] /\ IsOf(keys, tx.post[k], a)
    BY <2>1 DEF BalancesOf
  <2>4. BalancesOf(tx, tx.pre \o tx.post, a)
          = BalancesOf(tx, tx.pre, a) \cup BalancesOf(tx, tx.post, a)
    BY <2>1 DEF BalancesOf
  <2> QED
    BY <2>2, <2>3, <2>4
<1> HIDE DEF keys, map
<1>5. ASSUME a \notin DOMAIN map PROVE IsOwnerAfter(o, a)
  <2>1. o = None
    BY <1>5 DEF Lookup
  <2>2. BalancesOf(tx, tx.pre, a) = {} /\ BalancesOf(tx, tx.post, a) = {}
    BY <1>2, <1>4, <1>5
  <2> QED
    BY <2>1, <2>2 DEF IsOwnerAfter
<1>6. ASSUME a \in DOMAIN map,
             NEW n \in 1 .. Len(tx.post), IsOf(keys, tx.post[n], a), map[a] = tx.post[n]
      PROVE  IsOwnerAfter(o, a)
  <2>1. tx.post[n] \in BalancesOf(tx, tx.post, a)
    BY <1>4, <1>6
  <2>2. \A b \in BalancesOf(tx, tx.post, a) : b = tx.post[n]
    BY <1>3, <1>4, <1>6
  <2>3. o = tx.post[n].owner
    BY <1>6 DEF Lookup
  <2> QED
    BY <1>4, <2>1, <2>2, <2>3 DEF IsOwnerAfter
<1>7. ASSUME a \in DOMAIN map, \A n \in 1 .. Len(tx.post) : ~IsOf(keys, tx.post[n], a),
             NEW n \in 1 .. Len(tx.pre), IsOf(keys, tx.pre[n], a), map[a] = tx.pre[n]
      PROVE  IsOwnerAfter(o, a)
  <2>1. BalancesOf(tx, tx.post, a) = {} /\ tx.pre[n] \in BalancesOf(tx, tx.pre, a)
    BY <1>4, <1>7
  <2>2. \A b \in BalancesOf(tx, tx.pre, a) : b = tx.pre[n]
    BY <1>3, <1>4, <1>7
  <2>3. o = tx.pre[n].owner
    BY <1>7 DEF Lookup
  <2> QED
    BY <1>4, <2>1, <2>2, <2>3 DEF IsOwnerAfter
<1> QED
  <2>1. IsOwnerAfter(o, a)
    BY <1>2, <1>5, <1>6, <1>7
  <2> QED
    BY <2>1 DEF map

\* A token transfer is made of an instruction of a token program, by the map.
LEMMA SplTransfer ==
    ASSUME NEW i, NEW idx, NEW inner, NEW meta,
           NEW r \in Range(CollectTokenTransfer(i, idx, inner, meta)), r.asset_type = "spl"
    PROVE  /\ i.parsed # None /\ IsRelevant(i.parsed.type) /\ IsSpl(i)
           /\ r.source_token_account = Source(i.parsed.info, Normalized(i.parsed.type))
           /\ r.destination_token_account = Destination(i.parsed.info, Normalized(i.parsed.type))
           /\ r.source_owner = Lookup(meta, r.source_token_account, "owner")
           /\ r.destination_owner = Lookup(meta, r.destination_token_account, "owner")
           /\ r.token_mint = OrElse(i.parsed.info.mint,
                  KnownAtEnds(meta, r.source_token_account, r.destination_token_account, "mint"))
           /\ r.decimals = OrElse(GivenDecimals(i.parsed.info),
                  KnownAtEnds(meta, r.source_token_account, r.destination_token_account, "decimals"))
<1> DEFINE info == i.parsed.info
           kind == Normalized(i.parsed.type)
<1>1. i.parsed # None /\ IsRelevant(i.parsed.type)
  BY RangeOfShort DEF CollectTokenTransfer
<1>2. IsSpl(i)
  <2>1. ASSUME ~IsSpl(i) PROVE FALSE
    <3>1. r \in Range(ParseNativeTransfer(info, kind, idx, inner))
      BY <1>1, <2>1, RangeOfShort DEF CollectTokenTransfer
    <3>2. r.asset_type = "native"
      BY <3>1, RangeOfShort DEF ParseNativeTransfer
    <3> QED
      BY <3>2
  <2> QED
    BY <2>1
<1>3. r \in Range(ParseSplTransfer(info, kind, i.program_id, meta, idx, inner))
  BY <1>1, <1>2 DEF CollectTokenTransfer
<1>4. /\ r.source_token_account = Source(info, kind)
      /\ r.destination_token_account = Destination(info, kind)
      /\ r.source_owner = Lookup(meta, Source(info, kind), "owner")
      /\ r.destination_owner = Lookup(meta, Destination(info, kind), "owner")
      /\ r.token_mint = OrElse(info.mint,
             KnownAtEnds(meta, Source(info, kind), Destination(info, kind), "mint"))
      /\ r.decimals = OrElse(GivenDecimals(info),
             KnownAtEnds(meta, Source(info, kind), Destination(info, kind), "decimals"))
  <2>1. CASE Amount(info) \in {None, Unparsable}
    BY <1>3, <2>1, RangeOfShort DEF ParseSplTransfer
  <2>2. CASE Amount(info) \notin {None, Unparsable}
    BY <1>3, <2>2, RangeOfShort DEF ParseSplTransfer
  <2> QED
    BY <2>1, <2>2
<1> QED
  BY <1>1, <1>2, <1>4

\* Every transfer was collected from an instruction of the transaction.
LEMMA OriginOfTransfer ==
    ASSUME ParserInv, NEW k \in 1 .. Len(out)
    PROVE  \E i \in Instructions(tx) : \E idx, inner :
              out[k] \in Range(CollectTokenTransfer(i, idx, inner, TokenAccountMetaMap(tx)))
<1>1. out[k] \in Range(out)
  BY RangeEquality DEF ParserInv, OutIsExact
<1>2. CASE \E p \in OuterPlaces(tx) : out[k] \in Range(OuterTransfers(tx, p))
  <2>1. PICK p \in OuterPlaces(tx) : out[k] \in Range(OuterTransfers(tx, p))
    BY <1>2
  <2>2. tx.outer[p] \in Instructions(tx)
    BY DEF Instructions
  <2> QED
    BY <2>1, <2>2 DEF OuterTransfers
<1>3. CASE \E q \in InnerPlaces(tx) : out[k] \in Range(InnerTransfers(tx, q[1], q[2]))
  <2>1. PICK q \in InnerPlaces(tx) : out[k] \in Range(InnerTransfers(tx, q[1], q[2]))
    BY <1>3
  <2>2. tx.inner[q[1]].instructions[q[2]] \in Instructions(tx)
    BY DEF Instructions
  <2> QED
    BY <2>1, <2>2 DEF InnerTransfers
<1> QED
  BY <1>1, <1>2, <1>3 DEF ParserInv, OutIsExact

\* The owners that calculate_token_transfer gives a token transfer are those that
\* the accounts end up with: for every transaction whose lists have one balance
\* of an account at most.
THEOREM TransfersHaveLatestOwners == Spec => []OwnersAreLatest
<1>1. ParserInv => OwnersAreLatest
  <2> SUFFICES ASSUME ParserInv, NEW k \in 1 .. Len(out), out[k].asset_type = "spl"
               PROVE  /\ IsOwnerAfter(out[k].source_owner, out[k].source_token_account)
                      /\ IsOwnerAfter(out[k].destination_owner, out[k].destination_token_account)
    BY DEF OwnersAreLatest
  <2>1. PICK i \in Instructions(tx) : \E idx, inner :
            out[k] \in Range(CollectTokenTransfer(i, idx, inner, TokenAccountMetaMap(tx)))
    BY OriginOfTransfer
  <2>2. /\ out[k].source_owner
             = Lookup(TokenAccountMetaMap(tx), out[k].source_token_account, "owner")
        /\ out[k].destination_owner
             = Lookup(TokenAccountMetaMap(tx), out[k].destination_token_account, "owner")
    BY <2>1, SplTransfer
  <2>3. tx \in Transactions
    BY DEF ParserInv, TypeOK
  <2> QED
    BY <2>2, <2>3, MapGivesLatestOwner
<1> QED
  BY <1>1, ParserInvariance, PTL

\* token_account_meta_map knows exactly the accounts that have a balance.
LEMMA MapKnowsBalances ==
    ASSUME NEW t \in Transactions, NEW a
    PROVE  IF a \in DOMAIN TokenAccountMetaMap(t)
           THEN TokenAccountMetaMap(t)[a] \in BalancesOf(t, t.pre \o t.post, a)
           ELSE BalancesOf(t, t.pre \o t.post, a) = {}
<1> DEFINE keys == AllAccountKeys(t)
           map == TokenAccountMetaMap(t)
<1>1. PICK S : t.pre \in Seq(S) /\ t.post \in Seq(S)
  BY ListsOfTransaction
<1>2. IF a \in DOMAIN map
      THEN \/ \E n \in 1 .. Len(t.post) : IsOf(keys, t.post[n], a) /\ map[a] = t.post[n]
           \/ \E n \in 1 .. Len(t.pre) : IsOf(keys, t.pre[n], a) /\ map[a] = t.pre[n]
      ELSE /\ \A n \in 1 .. Len(t.post) : ~IsOf(keys, t.post[n], a)
           /\ \A n \in 1 .. Len(t.pre) : ~IsOf(keys, t.pre[n], a)
  BY <1>1, MapPrefersSecond DEF TokenAccountMetaMap
<1>3. /\ Range(t.pre) = {t.pre[k] : k \in 1 .. Len(t.pre)}
      /\ Range(t.post) = {t.post[k] : k \in 1 .. Len(t.post)}
      /\ Range(t.pre \o t.post) = Range(t.pre) \cup Range(t.post)
  BY RangesOfLists
<1> HIDE DEF map
<1>4. IF a \in DOMAIN map
      THEN map[a] \in BalancesOf(t, t.pre \o t.post, a)
      ELSE BalancesOf(t, t.pre \o t.post, a) = {}
  BY <1>2, <1>3 DEF BalancesOf
<1> QED
  BY <1>4 DEF map

\* A balance names its mint.
LEMMA BalanceIsNamed ==
    ASSUME NEW t \in Transactions, NEW a, NEW b \in BalancesOf(t, t.pre \o t.post, a)
    PROVE  b.mint # None /\ b.decimals # None
<1>1. \/ \E k \in 1 .. Len(t.pre) : b = t.pre[k]
      \/ \E k \in 1 .. Len(t.post) : b = t.post[k]
  BY RangesOfLists DEF BalancesOf
<1> QED
  BY <1>1, BalancesAssumption

\* A token transfer has the mint and the decimals of its accounts, although
\* parse_spl_transfer asks one end first: for every transaction whose token
\* instructions are each about one mint.
THEOREM TransfersHaveTheirMint == Spec => []TransfersAreResolved
<1>1. ParserInv => TransfersAreResolved
  <2> SUFFICES ASSUME ParserInv, NEW k \in 1 .. Len(out), out[k].asset_type = "spl",
                      NEW a \in {out[k].source_token_account, out[k].destination_token_account},
                      NEW b \in BalancesOf(tx, tx.pre \o tx.post, a)
               PROVE  out[k].token_mint = b.mint /\ out[k].decimals = b.decimals
    BY DEF TransfersAreResolved
  <2>0. tx \in Transactions
    BY DEF ParserInv, TypeOK
  <2> DEFINE map == TokenAccountMetaMap(tx)
             source == out[k].source_token_account
             destination == out[k].destination_token_account
             Of(c) == BalancesOf(tx, tx.pre \o tx.post, c)
  <2>1. PICK i \in Instructions(tx) : \E idx, inner :
            out[k] \in Range(CollectTokenTransfer(i, idx, inner, map))
    BY OriginOfTransfer
  <2>2. /\ i.parsed # None /\ IsRelevant(i.parsed.type) /\ IsSpl(i)
        /\ source = Source(i.parsed.info, Normalized(i.parsed.type))
        /\ destination = Destination(i.parsed.info, Normalized(i.parsed.type))
        /\ out[k].token_mint
             = OrElse(i.parsed.info.mint, KnownAtEnds(map, source, destination, "mint"))
        /\ out[k].decimals
             = OrElse(GivenDecimals(i.parsed.info), KnownAtEnds(map, source, destination, "decimals"))
    BY <2>1, SplTransfer
  <2>3. Ends(i) = {source, destination}
    BY <2>2 DEF Ends
  <2>4. OneMint(tx, i)
    BY <2>0, <2>2, InstructionsAssumption
  <2>5. /\ i.parsed.info.mint \in {None, b.mint}
        /\ GivenDecimals(i.parsed.info) \in {None, b.decimals}
        /\ \A c \in {source, destination} : \A d \in Of(c) : b.mint = d.mint /\ b.decimals = d.decimals
    BY <2>3, <2>4 DEF OneMint
  <2>6. \A c : IF c \in DOMAIN map THEN map[c] \in Of(c) ELSE Of(c) = {}
    BY <2>0, MapKnowsBalances
  <2>7. b.mint # None /\ b.decimals # None
    BY <2>0, BalanceIsNamed
  <2>8. source \in DOMAIN map \/ destination \in DOMAIN map
    BY <2>6
  <2> HIDE DEF map, Of
  <2>9. /\ KnownAtEnds(map, source, destination, "mint") = b.mint
        /\ KnownAtEnds(map, source, destination, "decimals") = b.decimals
    BY <2>5, <2>6, <2>7, <2>8 DEF KnownAtEnds, Lookup, OrElse
  <2> QED
    BY <2>2, <2>5, <2>9 DEF OrElse
<1> QED
  BY <1>1, ParserInvariance, PTL

-----------------------------------------------------------------------------
(* Sums.                                                                   *)

\* f has the sums of g, up to the n-th.
SumsUp(f, g, n) == f[0] = 0 /\ \A k \in 1 .. n : f[k] = f[k - 1] + g[k]

\* The recursive function of Total exists.
LEMMA TotalSolution ==
    ASSUME NEW g, NEW n \in Nat
    PROVE  \E f : Total(g, n) = f[n] /\ SumsUp(f, g, n)
<1> DEFINE Step(f, k) == IF k = 0 THEN 0 ELSE f[k - 1] + g[k]
           Solves(f, m) == f = [k \in 0 .. m |-> Step(f, k)]
           T == {m \in 0 .. n : \E f : Solves(f, m)}
<1>1. 0 \in T
  <2> DEFINE f == [k \in 0 .. 0 |-> 0]
  <2>1. Solves(f, 0) /\ 0 \in 0 .. n
    OBVIOUS
  <2> HIDE DEF f, Solves
  <2> QED
    BY <2>1
<1>2. ASSUME NEW m \in 0 .. n, m \in T, m < n PROVE m + 1 \in T
  <2>1. PICK f : Solves(f, m)
    BY <1>2
  <2> DEFINE h == [k \in 0 .. m + 1 |-> IF k = m + 1 THEN Step(f, m + 1) ELSE f[k]]
  <2>2. \A k \in 0 .. m : f[k] = Step(f, k)
    BY <2>1
  <2>3. \A k \in 0 .. m + 1 : h[k] = Step(h, k)
    <3>1. ASSUME NEW k \in 0 .. m PROVE h[k] = Step(h, k)
      <4>1. h[k] = f[k] /\ (k # 0 => h[k - 1] = f[k - 1])
        OBVIOUS
      <4> QED
        BY <2>2, <4>1
    <3>2. h[m + 1] = Step(h, m + 1)
      <4>1. h[m + 1] = Step(f, m + 1) /\ h[m] = f[m] /\ m + 1 - 1 = m
        OBVIOUS
      <4> QED
        BY <4>1
    <3>3. \A k \in 0 .. m + 1 : k \in 0 .. m \/ k = m + 1
      OBVIOUS
    <3> HIDE DEF h, Step
    <3> QED
      BY <3>1, <3>2, <3>3
  <2>4. Solves(h, m + 1)
    BY <2>3
  <2>5. m + 1 \in 0 .. n /\ (\E e : Solves(e, m + 1))
    <3>1. m + 1 \in 0 .. n
      BY <1>2
    <3> HIDE DEF Solves, h
    <3> QED
      BY <2>4, <3>1
  <2> HIDE DEF Solves
  <2> QED
    BY <2>5
<1>3. n \in T
  <2>1. \A m \in 0 .. n : m \in T /\ m < n => m + 1 \in T
    BY <1>2
  <2> HIDE DEF T
  <2>2. \A m \in 0 .. n : m \in T
    BY <1>1, <2>1, IntervalInduction, Zenon
  <2> QED
    BY <2>2
<1> DEFINE sol == CHOOSE f : Solves(f, n)
<1>4. Total(g, n) = sol[n]
  BY DEF Total
<1>5. Solves(sol, n)
  <2> HIDE DEF Solves
  <2> QED
    BY <1>3
<1> HIDE DEF sol
<1>6. \A k \in 0 .. n : sol[k] = Step(sol, k)
  BY <1>5
<1>7. SumsUp(sol, g, n)
  BY <1>6 DEF SumsUp
<1> QED
  BY <1>4, <1>7

\* Sums of the same numbers are the same.
LEMMA SumsAgree ==
    ASSUME NEW n \in Nat, NEW g, NEW h, \A k \in 1 .. n : g[k] = h[k],
           NEW f, SumsUp(f, g, n), NEW e, SumsUp(e, h, n)
    PROVE  f[n] = e[n]
<1> DEFINE T == {k \in 0 .. n : f[k] = e[k]}
<1>1. 0 \in T
  BY DEF SumsUp
<1>2. ASSUME NEW k \in 0 .. n, k \in T, k < n PROVE k + 1 \in T
  <2>1. PICK l \in 1 .. n : l = k + 1 /\ l - 1 = k
    BY <1>2
  <2>2. f[l] = f[k] + g[l] /\ e[l] = e[k] + h[l] /\ g[l] = h[l]
    BY <2>1 DEF SumsUp
  <2> QED
    BY <1>2, <2>1, <2>2
<1>3. \A k \in 0 .. n : k \in T
  <2>1. \A k \in 0 .. n : k \in T /\ k < n => k + 1 \in T
    BY <1>2
  <2> HIDE DEF T
  <2> QED
    BY <1>1, <2>1, IntervalInduction, Zenon
<1> QED
  BY <1>3

\* Only the numbers that are added matter.
LEMMA TotalOfSame ==
    ASSUME NEW n \in Nat, NEW g, NEW h, \A k \in 1 .. n : g[k] = h[k]
    PROVE  Total(g, n) = Total(h, n)
<1>1. PICK f : Total(g, n) = f[n] /\ SumsUp(f, g, n)
  BY TotalSolution
<1>2. PICK e : Total(h, n) = e[n] /\ SumsUp(e, h, n)
  BY TotalSolution
<1> QED
  BY <1>1, <1>2, SumsAgree

\* No number, and one more.
LEMMA TotalOfNone ==
    ASSUME NEW g
    PROVE  Total(g, 0) = 0
<1>1. PICK f : Total(g, 0) = f[0] /\ SumsUp(f, g, 0)
  BY TotalSolution
<1> QED
  BY <1>1 DEF SumsUp

LEMMA TotalOfNext ==
    ASSUME NEW n \in Nat, NEW g
    PROVE  Total(g, n + 1) = Total(g, n) + g[n + 1]
<1>1. PICK f : Total(g, n) = f[n] /\ SumsUp(f, g, n)
  BY TotalSolution
<1>2. PICK m \in Nat : m = n + 1 /\ m - 1 = n /\ n <= m /\ m \in 1 .. m
  OBVIOUS
<1>3. PICK e : Total(g, m) = e[m] /\ SumsUp(e, g, m)
  BY TotalSolution
<1>4. f[n] = e[n]
  <2>1. PICK h : h = g
    OBVIOUS
  <2>2. (\A k \in 1 .. n : g[k] = h[k]) /\ SumsUp(e, h, n)
    BY <1>2, <1>3, <2>1 DEF SumsUp
  <2> QED
    BY <1>1, <2>2, SumsAgree
<1>5. e[m] = e[n] + g[m]
  BY <1>2, <1>3 DEF SumsUp
<1> QED
  BY <1>1, <1>2, <1>3, <1>4, <1>5

\* A sum of numbers is a number.
LEMMA TotalIsNumber ==
    ASSUME NEW n \in Nat, NEW g, \A k \in 1 .. n : g[k] \in Int
    PROVE  Total(g, n) \in Int
<1>1. PICK f : Total(g, n) = f[n] /\ SumsUp(f, g, n)
  BY TotalSolution
<1> DEFINE T == {k \in 0 .. n : f[k] \in Int}
<1>2. 0 \in T
  BY <1>1 DEF SumsUp
<1>3. ASSUME NEW k \in 0 .. n, k \in T, k < n PROVE k + 1 \in T
  <2>1. PICK l \in 1 .. n : l = k + 1 /\ l - 1 = k
    BY <1>3
  <2>2. f[l] = f[k] + g[l]
    BY <1>1, <2>1 DEF SumsUp
  <2> QED
    BY <1>3, <2>1, <2>2
<1>4. \A k \in 0 .. n : k \in T
  <2>1. \A k \in 0 .. n : k \in T /\ k < n => k + 1 \in T
    BY <1>3
  <2> HIDE DEF T
  <2> QED
    BY <1>2, <2>1, IntervalInduction, Zenon
<1> QED
  BY <1>1, <1>4

\* Pushing a transfer adds its change to what is recorded, and pushing nothing
\* adds nothing.
LEMMA RecordedAfterPush ==
    ASSUME NEW S, out \in Seq(S), NEW c, out' = out \o c, NEW asset, NEW a,
           c = <<>> \/ \E r \in S : c = <<r>>
    PROVE  IF c = <<>> THEN Recorded(asset, a)' = Recorded(asset, a)
           ELSE Recorded(asset, a)' = Recorded(asset, a) + Change(asset, c[1], a)
<1> DEFINE before == [k \in 1 .. Len(out) |-> Change(asset, out[k], a)]
           after == [k \in 1 .. Len(out') |-> Change(asset, out'[k], a)]
<1>0. Recorded(asset, a) = Total(before, Len(out)) /\ Recorded(asset, a)' = Total(after, Len(out'))
  BY DEF Recorded
<1>1. Len(out) \in Nat
  BY LenProperties
<1>2. CASE c = <<>>
  <2>1. out' = out
    BY <1>2, ConcatEmptySeq
  <2> QED
    BY <1>0, <1>2, <2>1
<1>3. ASSUME NEW r \in S, c = <<r>>
      PROVE  c # <<>> /\ Recorded(asset, a)' = Recorded(asset, a) + Change(asset, c[1], a)
  <2>1. c \in Seq(S) /\ Len(c) = 1 /\ c[1] = r /\ c # <<>>
    BY <1>3
  <2>2. /\ Len(out') = Len(out) + 1
        /\ \A k \in 1 .. Len(out) : out'[k] = out[k]
        /\ out'[Len(out) + 1] = r
    BY <1>1, <2>1, ConcatProperties
  <2>3. \A k \in 1 .. Len(out) : after[k] = before[k]
    BY <1>1, <2>2
  <2>4. after[Len(out) + 1] = Change(asset, r, a)
    BY <1>1, <2>2
  <2> HIDE DEF before, after
  <2>5. Total(after, Len(out) + 1) = Total(after, Len(out)) + after[Len(out) + 1]
    BY <1>1, TotalOfNext
  <2>6. Total(after, Len(out)) = Total(before, Len(out))
    BY <1>1, <2>3, TotalOfSame
  <2> QED
    BY <1>0, <2>1, <2>2, <2>4, <2>5, <2>6
<1> QED
  BY <1>2, <1>3

-----------------------------------------------------------------------------
(* What is recorded and what was done.                                     *)

\* The transfer that collect_token_transfer makes of an instruction says of every
\* account what the instruction does to it, and where it makes none the
\* instruction does nothing.
LEMMA TransferSaysEffect ==
    ASSUME NEW t \in Transactions, NEW i \in Instructions(t),
           NEW a \in Range(AllAccountKeys(t)), NEW asset \in Assets,
           NEW idx, NEW inner, NEW meta
    PROVE  /\ Effect(asset, i, a) \in Int
           /\ IF CollectTokenTransfer(i, idx, inner, meta) = <<>> THEN Effect(asset, i, a) = 0
              ELSE Change(asset, CollectTokenTransfer(i, idx, inner, meta)[1], a) = Effect(asset, i, a)
<1> DEFINE info == i.parsed.info
           kind == Normalized(i.parsed.type)
           c == CollectTokenTransfer(i, idx, inner, meta)
<1> USE DEF Assets
<1>0. a # None
  BY BalancesAssumption
<1>1. CASE i.parsed = None
  BY <1>1 DEF CollectTokenTransfer, Effect, TokenEffect, LamportEffect
<1>2. CASE i.parsed # None /\ ~IsRelevant(i.parsed.type)
  <2>1. c = <<>>
    BY <1>2 DEF CollectTokenTransfer
  <2>2. TokenEffect(i, a) = 0
    BY <1>2 DEF TokenEffect, IsRelevant
  <2>3. LamportEffect(i, a) = 0
    BY <1>2 DEF LamportEffect, IsRelevant
  <2> QED
    BY <2>1, <2>2, <2>3 DEF Effect
<1>3. CASE i.parsed # None /\ IsRelevant(i.parsed.type) /\ IsSpl(i)
  <2>1. /\ ~IsSystem(i)
        /\ Amount(info) \in Int \cup {None, Unparsable}
        /\ kind = "mint" => info.account # None /\ info.source = None
        /\ kind = "burn" => info.account # None /\ info.destination = None
    BY <1>3, InstructionsAssumption
  <2>2. c = ParseSplTransfer(info, kind, i.program_id, meta, idx, inner)
    BY <1>3 DEF CollectTokenTransfer
  <2>3. LamportEffect(i, a) = 0
    BY <2>1 DEF LamportEffect
  <2>4. CASE Amount(info) \in {None, Unparsable}
    <3>1. c = <<>>
      BY <2>2, <2>4 DEF ParseSplTransfer
    <3>2. TokenEffect(i, a) = 0
      BY <1>3, <2>4 DEF TokenEffect
    <3> QED
      BY <2>3, <3>1, <3>2 DEF Effect
  <2>5. CASE Amount(info) \notin {None, Unparsable}
    <3>1. Amount(info) \in Int
      BY <2>1, <2>5
    <3>2. /\ c # <<>>
          /\ c[1].asset_type = "spl"
          /\ c[1].source_token_account = Source(info, kind)
          /\ c[1].destination_token_account = Destination(info, kind)
          /\ c[1].amount_raw = Amount(info)
      BY <2>2, <2>5 DEF ParseSplTransfer
    <3>3. Change("native", c[1], a) = 0
      BY <3>2 DEF Change
    <3>4. Change("spl", c[1], a) = When(Destination(info, kind) = a, Amount(info))
                                      - When(Source(info, kind) = a, Amount(info))
      BY <3>2 DEF Change
    <3>5. /\ TokenEffect(i, a) \in Int
          /\ TokenEffect(i, a) = When(Destination(info, kind) = a, Amount(info))
                                   - When(Source(info, kind) = a, Amount(info))
      <4>1. CASE i.parsed.type \in {"transfer", "transferChecked"}
        <5>1. kind = "transfer"
          BY <4>1 DEF Normalized
        <5>2. Source(info, kind) = info.source /\ Destination(info, kind) = info.destination
          BY <5>1 DEF Source, Destination
        <5>3. TokenEffect(i, a) = When(info.destination = a, Amount(info))
                                    - When(info.source = a, Amount(info))
          BY <1>3, <2>5, <4>1 DEF TokenEffect
        <5> QED
          BY <3>1, <5>2, <5>3 DEF When
      <4>2. CASE i.parsed.type \in {"mintTo", "mintToChecked"}
        <5>1. kind = "mint"
          BY <4>2 DEF Normalized
        <5>2. Source(info, kind) = None /\ Destination(info, kind) = info.account
          BY <2>1, <5>1 DEF Source, Destination, OrElse
        <5>3. TokenEffect(i, a) = When(info.account = a, Amount(info))
          BY <1>3, <2>5, <4>2 DEF TokenEffect
        <5> QED
          BY <1>0, <3>1, <5>2, <5>3 DEF When
      <4>3. CASE i.parsed.type \in {"burn", "burnChecked"}
        <5>1. kind = "burn"
          BY <4>3 DEF Normalized
        <5>2. Source(info, kind) = info.account /\ Destination(info, kind) = None
          BY <2>1, <5>1 DEF Source, Destination, OrElse
        <5>3. TokenEffect(i, a) = - When(info.account = a, Amount(info))
          BY <1>3, <2>5, <4>3 DEF TokenEffect
        <5> QED
          BY <1>0, <3>1, <5>2, <5>3 DEF When
      <4> QED
        BY <1>3, <4>1, <4>2, <4>3 DEF IsRelevant
    <3> QED
      BY <2>3, <3>2, <3>3, <3>4, <3>5 DEF Effect
  <2> QED
    BY <2>4, <2>5
<1>4. CASE i.parsed # None /\ IsRelevant(i.parsed.type) /\ ~IsSpl(i) /\ IsSystem(i)
  <2>1. i.parsed.type = "transfer" /\ info.lamports \in Int /\ info.lamports # None
    BY <1>4, InstructionsAssumption, TransferParserAssumption
  <2>2. c = ParseNativeTransfer(info, kind, idx, inner)
    BY <1>4 DEF CollectTokenTransfer
  <2>3. /\ c # <<>>
        /\ c[1].asset_type = "native"
        /\ c[1].source_owner = info.source
        /\ c[1].destination_owner = info.destination
        /\ c[1].amount_raw = info.lamports
    BY <2>1, <2>2 DEF ParseNativeTransfer
  <2>4. TokenEffect(i, a) = 0 /\ Change("spl", c[1], a) = 0
    BY <1>4, <2>3 DEF TokenEffect, Change
  <2>5. /\ LamportEffect(i, a) = When(info.destination = a, info.lamports)
                                   - When(info.source = a, info.lamports)
        /\ Change("native", c[1], a) = When(info.destination = a, info.lamports)
                                         - When(info.source = a, info.lamports)
    BY <1>4, <2>1, <2>3 DEF LamportEffect, Change
  <2>6. LamportEffect(i, a) \in Int
    BY <2>1, <2>5 DEF When
  <2> QED
    BY <2>3, <2>4, <2>5, <2>6 DEF Effect
<1>5. CASE i.parsed # None /\ IsRelevant(i.parsed.type) /\ ~IsSpl(i) /\ ~IsSystem(i)
  BY <1>5 DEF CollectTokenTransfer, Effect, TokenEffect, LamportEffect
<1> QED
  BY <1>1, <1>2, <1>3, <1>4, <1>5

\* The effects are numbers, and so are their sums.
LEMMA EffectsAreNumbers ==
    ASSUME NEW t \in Transactions, NEW a \in Range(AllAccountKeys(t)), NEW asset \in Assets
    PROVE  /\ \A n \in 0 .. Len(t.outer) : Total(OuterEffects(asset, t, a), n) \in Int
           /\ \A g \in 1 .. Len(t.inner) : \A n \in 0 .. Len(t.inner[g].instructions) :
                 Total(InnerEffects(asset, t, g, a), n) \in Int
           /\ \A n \in 0 .. Len(t.inner) : Total(GroupEffects(asset, t, a), n) \in Int
<1>1. /\ Len(t.outer) \in Nat /\ Len(t.inner) \in Nat
      /\ \A g \in 1 .. Len(t.inner) : Len(t.inner[g].instructions) \in Nat
  BY TransferParserAssumption
<1>2. \A i \in Instructions(t) : Effect(asset, i, a) \in Int
  BY TransferSaysEffect
<1>3. ASSUME NEW n \in 0 .. Len(t.outer) PROVE Total(OuterEffects(asset, t, a), n) \in Int
  <2>1. ASSUME NEW p \in 1 .. n PROVE OuterEffects(asset, t, a)[p] \in Int
    <3>1. p \in 1 .. Len(t.outer)
      BY <1>1
    <3>2. t.outer[p] \in Instructions(t)
      BY <3>1 DEF Instructions, OuterPlaces
    <3> QED
      BY <1>2, <3>1, <3>2 DEF OuterEffects
  <2>2. n \in Nat
    BY <1>1
  <2> QED
    BY <2>1, <2>2, TotalIsNumber
<1>4. ASSUME NEW g \in 1 .. Len(t.inner), NEW n \in 0 .. Len(t.inner[g].instructions)
      PROVE  Total(InnerEffects(asset, t, g, a), n) \in Int
  <2>1. ASSUME NEW p \in 1 .. n PROVE InnerEffects(asset, t, g, a)[p] \in Int
    <3>1. p \in 1 .. Len(t.inner[g].instructions)
      BY <1>1
    <3>2. <<g, p>> \in InnerPlaces(t) /\ <<g, p>>[1] = g /\ <<g, p>>[2] = p
      BY <3>1 DEF InnerPlaces
    <3>3. t.inner[g].instructions[p] \in Instructions(t)
      BY <3>2 DEF Instructions
    <3> QED
      BY <1>2, <3>1, <3>3 DEF InnerEffects
  <2>2. n \in Nat
    BY <1>1
  <2> QED
    BY <2>1, <2>2, TotalIsNumber
<1>5. ASSUME NEW n \in 0 .. Len(t.inner) PROVE Total(GroupEffects(asset, t, a), n) \in Int
  <2>1. ASSUME NEW g \in 1 .. n PROVE GroupEffects(asset, t, a)[g] \in Int
    <3>1. g \in 1 .. Len(t.inner)
      BY <1>1
    <3>2. Len(t.inner[g].instructions) \in 0 .. Len(t.inner[g].instructions)
      BY <1>1, <3>1
    <3>3. Total(InnerEffects(asset, t, g, a), Len(t.inner[g].instructions)) \in Int
      BY <1>4, <3>1, <3>2
    <3> QED
      BY <3>1, <3>3 DEF GroupEffects
  <2>2. n \in Nat
    BY <1>1
  <2> QED
    BY <2>1, <2>2, TotalIsNumber
<1> QED
  BY <1>3, <1>4, <1>5

\* Collecting an instruction adds what it does to what is recorded.
LEMMA RecordedAfterCollect ==
    ASSUME ParserInv, NEW i \in Instructions(tx), NEW idx, NEW inner, NEW c,
           c = CollectTokenTransfer(i, idx, inner, TokenAccountMetaMap(tx)),
           Range(c) \subseteq AllTransfers(tx), out' = out \o c,
           NEW a \in Range(AllAccountKeys(tx)), NEW asset \in Assets,
           Recorded(asset, a) \in Int
    PROVE  Recorded(asset, a)' = Recorded(asset, a) + Effect(asset, i, a)
<1> DEFINE all == AllTransfers(tx)
<1>1. out \in Seq(all)
  BY DEF ParserInv, OutIsExact
<1>2. c = <<>> \/ \E r \in all : c = <<r>>
  <2>1. c = <<>> \/ \E r : c = <<r>>
    BY CollectsOne
  <2> QED
    BY <2>1, RangeOfShort
<1> HIDE DEF all
<1>3. IF c = <<>> THEN Recorded(asset, a)' = Recorded(asset, a)
      ELSE Recorded(asset, a)' = Recorded(asset, a) + Change(asset, c[1], a)
  BY <1>1, <1>2, RecordedAfterPush
<1>4. /\ Effect(asset, i, a) \in Int
      /\ IF c = <<>> THEN Effect(asset, i, a) = 0
         ELSE Change(asset, c[1], a) = Effect(asset, i, a)
  <2>1. tx \in Transactions
    BY DEF ParserInv, TypeOK
  <2> QED
    BY <2>1, TransferSaysEffect
<1> QED
  BY <1>3, <1>4

\* Nothing is recorded when the loops begin, and nothing was passed.
LEMMA SumsBegin ==
    ASSUME tx \in Transactions, at = "outer", pos = 0, out = <<>>
    PROVE  SumsOK
<1> SUFFICES ASSUME NEW a \in Range(AllAccountKeys(tx)), NEW asset \in Assets
             PROVE  Recorded(asset, a) = EffectPassed(asset, a)
  BY DEF SumsOK
<1>1. Len(<<>>) = 0
  OBVIOUS
<1> QED
  BY <1>1, TotalOfNone DEF Recorded, EffectPassed

\* An instruction of the message.
LEMMA SumsOuter == ParserInv /\ SumsOK /\ CollectOuter => SumsOK'
<1> SUFFICES ASSUME ParserInv, SumsOK, CollectOuter,
                    NEW a \in Range(AllAccountKeys(tx)), NEW asset \in Assets
             PROVE  Recorded(asset, a)' = EffectPassed(asset, a)'
  BY DEF SumsOK, CollectOuter
<1> DEFINE sums == OuterEffects(asset, tx, a)
<1>1. /\ tx' = tx /\ at' = at /\ at = "outer" /\ pos' = pos + 1
      /\ out' = out \o OuterTransfers(tx, pos + 1)
      /\ tx \in Transactions
      /\ Len(tx.outer) \in Nat /\ pos \in Nat
      /\ pos + 1 \in 1 .. Len(tx.outer) /\ pos \in 0 .. Len(tx.outer)
  BY TransactionOK DEF CollectOuter, ParserInv, TypeOK
<1>2. Recorded(asset, a) = Total(sums, pos) /\ EffectPassed(asset, a)' = Total(sums, pos + 1)
  BY <1>1 DEF SumsOK, EffectPassed
<1>3. Recorded(asset, a) \in Int
  BY <1>1, <1>2, EffectsAreNumbers
<1>4. Total(sums, pos + 1) = Total(sums, pos) + Effect(asset, tx.outer[pos + 1], a)
  <2>1. sums[pos + 1] = Effect(asset, tx.outer[pos + 1], a)
    BY <1>1 DEF OuterEffects
  <2> HIDE DEF sums
  <2> QED
    BY <1>1, <2>1, TotalOfNext
<1>5. tx.outer[pos + 1] \in Instructions(tx)
  BY <1>1 DEF Instructions, OuterPlaces
<1>6. Range(OuterTransfers(tx, pos + 1)) \subseteq AllTransfers(tx)
  BY <1>1 DEF AllTransfers, OuterPlaces
<1>7. Recorded(asset, a)' = Recorded(asset, a) + Effect(asset, tx.outer[pos + 1], a)
  BY <1>1, <1>3, <1>5, <1>6, RecordedAfterCollect DEF OuterTransfers
<1> QED
  BY <1>2, <1>4, <1>7

\* An instruction of a group.
LEMMA SumsInner == ParserInv /\ SumsOK /\ CollectInner => SumsOK'
<1> SUFFICES ASSUME ParserInv, SumsOK, CollectInner,
                    NEW a \in Range(AllAccountKeys(tx)), NEW asset \in Assets
             PROVE  Recorded(asset, a)' = EffectPassed(asset, a)'
  BY DEF SumsOK, CollectInner
<1> DEFINE outer == Total(OuterEffects(asset, tx, a), Len(tx.outer))
           groups == Total(GroupEffects(asset, tx, a), group - 1)
           sums == InnerEffects(asset, tx, group, a)
           i == tx.inner[group].instructions[pos + 1]
<1>1. /\ tx' = tx /\ at' = at /\ group' = group /\ at = "inner" /\ pos' = pos + 1
      /\ out' = out \o InnerTransfers(tx, group, pos + 1)
      /\ tx \in Transactions
      /\ Len(tx.outer) \in Nat /\ Len(tx.inner) \in Nat /\ pos \in Nat
      /\ group \in 1 .. Len(tx.inner) /\ group <= Len(tx.inner)
      /\ group - 1 \in 0 .. Len(tx.inner)
      /\ Len(tx.inner[group].instructions) \in Nat
      /\ pos + 1 \in 1 .. Len(tx.inner[group].instructions)
      /\ pos \in 0 .. Len(tx.inner[group].instructions)
  BY TransactionOK DEF CollectInner, ParserInv, TypeOK
<1>2. /\ Recorded(asset, a) = outer + groups + Total(sums, pos)
      /\ EffectPassed(asset, a)' = outer + groups + Total(sums, pos + 1)
  BY <1>1 DEF SumsOK, EffectPassed
<1>3. outer \in Int /\ groups \in Int /\ Total(sums, pos) \in Int
  <2>1. /\ \A n \in 0 .. Len(tx.outer) : Total(OuterEffects(asset, tx, a), n) \in Int
        /\ \A g \in 1 .. Len(tx.inner) : \A n \in 0 .. Len(tx.inner[g].instructions) :
              Total(InnerEffects(asset, tx, g, a), n) \in Int
        /\ \A n \in 0 .. Len(tx.inner) : Total(GroupEffects(asset, tx, a), n) \in Int
    BY <1>1, EffectsAreNumbers
  <2>2. Len(tx.outer) \in 0 .. Len(tx.outer)
    BY <1>1
  <2>3. groups \in Int
    BY <1>1, <2>1
  <2>4. outer \in Int
    BY <2>1, <2>2
  <2>5. Total(sums, pos) \in Int
    BY <1>1, <2>1
  <2> QED
    BY <2>3, <2>4, <2>5
<1>4. Total(sums, pos + 1) = Total(sums, pos) + Effect(asset, i, a)
  <2>1. sums[pos + 1] = Effect(asset, i, a)
    BY <1>1 DEF InnerEffects
  <2> HIDE DEF sums
  <2> QED
    BY <1>1, <2>1, TotalOfNext
<1>5. <<group, pos + 1>> \in InnerPlaces(tx)
  BY <1>1, InnerPlace
<1>a. <<group, pos + 1>>[1] = group /\ <<group, pos + 1>>[2] = pos + 1
  OBVIOUS
<1>6. i \in Instructions(tx)
  BY <1>5, <1>a DEF Instructions
<1>7. Range(InnerTransfers(tx, group, pos + 1)) \subseteq AllTransfers(tx)
  BY <1>5, <1>a, InAllTransfers
<1>8. Effect(asset, i, a) \in Int
  BY <1>1, <1>6, TransferSaysEffect
<1>9. Recorded(asset, a)' = Recorded(asset, a) + Effect(asset, i, a)
  <2>1. Recorded(asset, a) \in Int
    BY <1>2, <1>3
  <2> QED
    BY <1>1, <1>6, <1>7, <2>1, RecordedAfterCollect DEF InnerTransfers
<1> QED
  BY <1>2, <1>3, <1>4, <1>8, <1>9

\* From loop to loop and from group to group, the sums are put together.
LEMMA SumsMove == ParserInv /\ SumsOK /\ (OuterDone \/ NextGroup \/ Finish) => SumsOK'
<1> SUFFICES ASSUME ParserInv, SumsOK, OuterDone \/ NextGroup \/ Finish,
                    NEW a \in Range(AllAccountKeys(tx)), NEW asset \in Assets
             PROVE  Recorded(asset, a)' = EffectPassed(asset, a)'
  BY DEF SumsOK, OuterDone, NextGroup, Finish
<1> DEFINE outer == Total(OuterEffects(asset, tx, a), Len(tx.outer))
           G(n) == Total(GroupEffects(asset, tx, a), n)
           I(g, n) == Total(InnerEffects(asset, tx, g, a), n)
<1>1. /\ tx' = tx /\ tx \in Transactions /\ group \in Nat
      /\ Len(tx.outer) \in Nat /\ Len(tx.inner) \in Nat
      /\ group \in 1 .. Len(tx.inner) + 1
  BY TransactionOK DEF OuterDone, NextGroup, Finish, ParserInv, TypeOK
<1>2. Recorded(asset, a)' = Recorded(asset, a) /\ Recorded(asset, a) = EffectPassed(asset, a)
  BY DEF Recorded, SumsOK, OuterDone, NextGroup, Finish
<1>3. outer \in Int /\ (\A n \in 0 .. Len(tx.inner) : G(n) \in Int) /\ G(0) = 0
  BY <1>1, EffectsAreNumbers, TotalOfNone
<1>4. \A g : I(g, 0) = 0
  BY TotalOfNone
<1>5. CASE OuterDone
  <2>1. /\ at = "outer" /\ at' = "inner" /\ pos = Len(tx.outer) /\ pos' = 0
        /\ group = 1 /\ group' = 1
    BY <1>5 DEF OuterDone, ParserInv, TypeOK
  <2>2. EffectPassed(asset, a) = outer
    BY <2>1 DEF EffectPassed
  <2>3. EffectPassed(asset, a)' = outer + G(0) + (IF 1 <= Len(tx.inner) THEN I(1, 0) ELSE 0)
    BY <1>1, <2>1 DEF EffectPassed
  <2> HIDE DEF outer, G, I
  <2> QED
    BY <1>2, <1>3, <1>4, <2>2, <2>3
<1>6. CASE NextGroup
  <2>1. /\ at = "inner" /\ at' = "inner" /\ group <= Len(tx.inner) /\ group' = group + 1
        /\ pos = Len(tx.inner[group].instructions) /\ pos' = 0
    BY <1>6 DEF NextGroup
  <2>2. /\ group \in 1 .. Len(tx.inner) /\ group - 1 \in 0 .. Len(tx.inner)
        /\ group - 1 \in Nat /\ group - 1 + 1 = group /\ group + 1 - 1 = group
        /\ Len(tx.inner[group].instructions) \in 0 .. Len(tx.inner[group].instructions)
    BY <1>1, <2>1, TransactionOK
  <2>3. EffectPassed(asset, a) = outer + G(group - 1) + I(group, Len(tx.inner[group].instructions))
    BY <2>1 DEF EffectPassed
  <2>4. EffectPassed(asset, a)'
          = outer + G(group) + (IF group + 1 <= Len(tx.inner) THEN I(group + 1, 0) ELSE 0)
    BY <1>1, <2>1, <2>2 DEF EffectPassed
  <2>5. G(group) = G(group - 1) + I(group, Len(tx.inner[group].instructions))
    <3> DEFINE e == GroupEffects(asset, tx, a)
    <3>1. e[group] = I(group, Len(tx.inner[group].instructions))
      BY <2>2 DEF GroupEffects
    <3> HIDE DEF e
    <3>2. Total(e, group) = Total(e, group - 1) + e[group]
      <4>1. PICK n \in Nat : n = group - 1 /\ n + 1 = group
        BY <2>2
      <4> QED
        BY <4>1, TotalOfNext
    <3> QED
      BY <3>1, <3>2 DEF e
  <2>6. I(group, Len(tx.inner[group].instructions)) \in Int /\ G(group - 1) \in Int
    BY <1>1, <1>3, <2>2, EffectsAreNumbers
  <2>7. I(group + 1, 0) = 0
    BY <1>4
  <2> HIDE DEF outer, G, I
  <2> QED
    BY <1>2, <1>3, <2>3, <2>4, <2>5, <2>6, <2>7
<1>7. CASE Finish
  <2>1. /\ at = "inner" /\ at' = "parsed" /\ ~(group <= Len(tx.inner)) /\ group' = group
    BY <1>1, <1>7 DEF Finish
  <2> QED
    BY <1>1, <1>2, <2>1 DEF EffectPassed
<1> QED
  BY <1>5, <1>6, <1>7

\* No step of the parser disturbs the sums.
LEMMA SumsNext == ParserInv /\ SumsOK /\ [Next]_vars => SumsOK'
<1> SUFFICES ASSUME ParserInv, SumsOK, [Next]_vars PROVE SumsOK'
  OBVIOUS
<1>1. CASE Save \/ UNCHANGED vars
  <2>1. /\ UNCHANGED <<tx, out, group, pos>>
        /\ at' = at \/ (at = "parsed" /\ at' = "saved")
    BY <1>1 DEF Save, vars
  <2>2. \A a, asset : /\ Recorded(asset, a)' = Recorded(asset, a)
                      /\ EffectPassed(asset, a)' = EffectPassed(asset, a)
    BY <2>1 DEF Recorded, EffectPassed
  <2> QED
    BY <2>1, <2>2 DEF SumsOK
<1>2. CASE Refetch
  <2>1. tx' \in Transactions /\ at' = "outer" /\ pos' = 0 /\ out' = <<>>
    BY <1>2 DEF Refetch, Begin, ParserInv, TypeOK
  <2>2. \A a, asset : /\ Recorded(asset, a)' = 0
                      /\ EffectPassed(asset, a)' = 0
    <3>1. Len(<<>>) = 0
      OBVIOUS
    <3> QED
      BY <2>1, <3>1, TotalOfNone DEF Recorded, EffectPassed
  <2> QED
    BY <2>2 DEF SumsOK
<1> QED
  BY <1>1, <1>2, SumsOuter, SumsInner, SumsMove DEF Next

\* What calculate_token_transfer records of a transaction accounts for every
\* change of a token or lamport balance that its transfers, mints and burns make,
\* on the outer level and in the groups: for any number of them.
THEOREM TransfersAccountForBalances == Spec => []TransfersExplainBalances
<1>1. Init => SumsOK
  BY SumsBegin DEF Init
<1>2. ParserInv /\ SumsOK => TransfersExplainBalances
  <2> SUFFICES ASSUME ParserInv, SumsOK, at = "parsed",
                      NEW a \in Range(AllAccountKeys(tx)), NEW asset \in Assets
               PROVE  Recorded(asset, a) = Total(OuterEffects(asset, tx, a), Len(tx.outer))
                                             + Total(GroupEffects(asset, tx, a), Len(tx.inner))
    BY DEF TransfersExplainBalances
  <2> DEFINE outer == Total(OuterEffects(asset, tx, a), Len(tx.outer))
             groups == Total(GroupEffects(asset, tx, a), Len(tx.inner))
  <2>1. /\ tx \in Transactions /\ Len(tx.inner) \in Nat /\ Len(tx.outer) \in Nat
        /\ group - 1 = Len(tx.inner)
    BY TransactionOK DEF ParserInv, TypeOK
  <2>2. Recorded(asset, a) = outer + groups + 0
    BY <2>1 DEF SumsOK, EffectPassed
  <2>3. outer \in Int /\ groups \in Int
    BY <2>1, EffectsAreNumbers
  <2> HIDE DEF outer, groups
  <2>4. Recorded(asset, a) = outer + groups
    BY <2>2, <2>3
  <2> QED
    BY <2>4 DEF outer, groups
<1> QED
  BY <1>1, <1>2, SumsNext, ParserInvariance, PTL DEF Spec
=============================================================================
