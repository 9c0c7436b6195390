------------------------ MODULE SignatureSyncProofs ------------------------
(***************************************************************************)
(* The safety properties of SignatureSync, for any size of a page, any     *)
(* requested_hours and tx_limit, and any chain; and that each page moves   *)
(* on from the one before.                                                 *)
(***************************************************************************)
EXTENDS SignatureSync, FiniteSetTheorems, TLAPS

\* requested_hours.max(0)
Hours == IF hours >= 0 THEN hours ELSE 0

\* How many numbers an interval has, an empty one included.
LEMMA IntervalCardinality ==
    ASSUME NEW a \in Int, NEW b \in Int, a <= b + 1
    PROVE  IsFiniteSet(a .. b) /\ Cardinality(a .. b) = b - a + 1
  <1>1. IsFiniteSet(a .. b) /\ Cardinality(a .. b) = IF a > b THEN 0 ELSE b - a + 1
    BY FS_Interval
  <1>2. a > b => b - a + 1 = 0
    OBVIOUS
  <1> QED
    BY <1>1, <1>2

\* The position of the oldest signature of the page that ends before c.
PageStart(c) == IF c > PageLimit THEN c - PageLimit ELSE 1

\* A page is an interval of the chain: full, unless it reaches the oldest
\* signature.
LEMMA PageIsInterval ==
    ASSUME chain \in Seq(Int \cup {Null}), NEW c \in Nat, c >= 1, c <= Len(chain) + 1
    PROVE  /\ PageStart(c) \in Nat /\ 1 <= PageStart(c) /\ PageStart(c) <= c
           /\ PageBefore(c) = PageStart(c) .. (c - 1)
           /\ IsFiniteSet(PageBefore(c))
           /\ Cardinality(PageBefore(c)) = c - PageStart(c)
           /\ c - PageStart(c) <= PageLimit
           /\ c - PageStart(c) < PageLimit => PageStart(c) = 1
  <1>1. DOMAIN chain = 1 .. Len(chain) /\ Len(chain) \in Nat /\ PageLimit \in Nat \ {0}
    BY SignatureSyncAssumption
  <1> DEFINE a == PageStart(c)
             b == c - 1
  <1>2. /\ a \in Nat /\ 1 <= a /\ a <= c
        /\ c - a <= PageLimit
        /\ c - a < PageLimit => a = 1
    BY <1>1 DEF PageStart
  <1>3. PageBefore(c) = a .. b
    BY <1>1 DEF PageBefore, PageStart
  <1>4. b \in Int /\ a \in Int /\ a <= b + 1 /\ b - a + 1 = c - a
    BY <1>2
  <1> HIDE DEF a, b
  <1>5. IsFiniteSet(a .. b) /\ Cardinality(a .. b) = b - a + 1
    BY <1>4, IntervalCardinality
  <1> QED
    BY <1>2, <1>3, <1>4, <1>5 DEF a, b

\* take_recent_signatures_at returns a part of the page.
LEMMA RecentIsPart ==
    ASSUME NEW p, IsFiniteSet(p), NEW cut
    PROVE  /\ Recent(p, cut) \subseteq Timed(p) /\ Timed(p) \subseteq p
           /\ IsFiniteSet(Recent(p, cut))
           /\ Cardinality(Recent(p, cut)) \in Nat
           /\ Cardinality(Recent(p, cut)) <= Cardinality(p)
  <1>1. Recent(p, cut) \subseteq Timed(p) /\ Timed(p) \subseteq p
    BY DEF Recent, Timed
  <1> QED
    BY <1>1, FS_Subset, FS_CardinalityType

\* A page that does not reach the cutoff is kept, but for null block times.
LEMMA RecentIfNotReached ==
    ASSUME NEW p, NEW cut \in Int, ~ReachedCutoff(p, cut),
           \A i \in p : chain[i] \in Int \cup {Null}
    PROVE  Recent(p, cut) = Timed(p)
  BY DEF ReachedCutoff, Recent, Timed

\* The last signature of a page is its oldest.
LEMMA OldestOfPage ==
    ASSUME NEW a \in Nat, NEW b \in Nat, a <= b
    PROVE  Oldest(a .. b) = a
  BY DEF Oldest

\* A worker that has not begun has done nothing.
LEMMA InitInv == Init => SyncInv
  <1> SUFFICES ASSUME Init PROVE SyncInv
    OBVIOUS
  <1>1. TypeOK
    <2>1. <<>> \in Seq(Int \cup {Null})
      OBVIOUS
    <2> QED
      BY <2>1 DEF Init, TypeOK
  <1>2. /\ chain = <<>> /\ now = 0 /\ limit = 0 /\ created = 0 /\ cursor = 0 /\ raw = {}
        /\ sum = 0 /\ synced = {} /\ head = 0 /\ at = "idle" /\ DOMAIN chain = {} /\ Len(chain) = 0
    BY DEF Init
  <1>3. ChainOK /\ PositionsOK /\ PageOK
    BY <1>2 DEF ChainOK, PositionsOK, PageOK
  <1>4. SyncedSoFar
    BY <1>2 DEF SyncedSoFar, PageEnd, Timed
  <1>5. SumOK /\ OvershootIsOnePage
    BY <1>2, FS_EmptySet, SignatureSyncAssumption DEF SumOK, OvershootIsOnePage
  <1>6. SyncCovers /\ Contiguous /\ WithinHours
    BY <1>2 DEF SyncCovers, Contiguous, WithinHours
  <1> QED
    BY <1>1, <1>3, <1>4, <1>5, <1>6 DEF SyncInv

(***************************************************************************)
(* The steps.                                                              *)
(***************************************************************************)

\* What the invariant says of positions, in the form the steps use.
LEMMA Positions ==
    ASSUME TypeOK, PositionsOK
    PROVE  /\ DOMAIN chain = 1 .. Len(chain) /\ Len(chain) \in Nat
           /\ PageEnd \in Nat /\ 1 <= PageEnd
           /\ PageEnd <= head + 1 /\ PageEnd <= Len(chain) + 1
           /\ head \in Nat /\ head <= Len(chain)
  BY DEF TypeOK, PositionsOK, PageEnd

\* What is known of the chain stays true of it while it grows: nothing that a
\* job has done depends on signatures that are newer than its first page.
LEMMA ChainGrows ==
    ASSUME SyncInv, UNCHANGED <<job, at, cursor, raw, sum, synced, head, cutoff>>,
           \A i \in DOMAIN chain : i \in DOMAIN chain' /\ chain'[i] = chain[i],
           DOMAIN chain' = 1 .. Len(chain'), Len(chain') \in Nat
    PROVE  /\ SyncedSoFar' /\ PageOK' /\ SumOK'
           /\ SyncCovers' /\ Contiguous' /\ WithinHours' /\ OvershootIsOnePage'
  <1>1. /\ DOMAIN chain = 1 .. Len(chain) /\ Len(chain) \in Nat
        /\ PageEnd \in Nat /\ 1 <= PageEnd
        /\ PageEnd <= head + 1 /\ head \in Nat /\ head <= Len(chain)
        /\ raw \subseteq DOMAIN chain /\ synced \subseteq DOMAIN chain
    BY Positions DEF SyncInv, TypeOK
  <1>2. PageEnd' = PageEnd
    BY DEF PageEnd
  <1>3. SyncedSoFar'
    BY <1>1, <1>2 DEF SyncInv, SyncedSoFar, Timed
  <1>4. PageBefore(PageEnd)' = PageBefore(PageEnd)
    BY <1>1, <1>2 DEF PageBefore
  <1>5. PageOK'
    BY <1>4 DEF SyncInv, PageOK, job
  <1>6. Recent(raw, cutoff)' = Recent(raw, cutoff)
    BY <1>1 DEF Recent, Timed
  <1>7. SumOK'
    BY <1>6 DEF SyncInv, SumOK, job
  <1>8. SyncCovers' /\ Contiguous' /\ WithinHours' /\ OvershootIsOnePage'
    BY <1>1 DEF SyncInv, SyncCovers, Contiguous, WithinHours, OvershootIsOnePage, job
  <1> QED
    BY <1>3, <1>5, <1>7, <1>8

\* A new signature comes after the others, and is not older.
LEMMA ConfirmInv == SyncInv /\ Confirm => SyncInv'
  <1> SUFFICES ASSUME SyncInv, Confirm PROVE SyncInv'
    OBVIOUS
  <1>1. PICK t \in {now, Null} : chain' = Append(chain, t)
    BY DEF Confirm
  <1>2. /\ chain \in Seq(Int \cup {Null}) /\ now \in Nat
        /\ UNCHANGED <<now, job, at, cursor, raw, sum, synced, head, cutoff>>
    BY DEF SyncInv, TypeOK, Confirm
  <1>3. /\ chain' \in Seq(Int \cup {Null})
        /\ DOMAIN chain = 1 .. Len(chain) /\ Len(chain) \in Nat
        /\ DOMAIN chain' = 1 .. Len(chain') /\ Len(chain') = Len(chain) + 1
        /\ \A i \in 1 .. Len(chain) : chain'[i] = chain[i]
        /\ chain'[Len(chain) + 1] = t
    BY <1>1, <1>2
  <1>4. TypeOK'
    BY <1>2, <1>3 DEF SyncInv, TypeOK, job
  <1>5. ChainOK'
    BY <1>1, <1>2, <1>3 DEF SyncInv, ChainOK
  <1>6. PositionsOK'
    BY <1>2, <1>3 DEF SyncInv, PositionsOK, TypeOK, job
  <1> QED
    BY <1>2, <1>3, <1>4, <1>5, <1>6, ChainGrows DEF SyncInv

\* Time passes, and what was in the past stays there.
LEMMA TickInv == SyncInv /\ Tick => SyncInv'
  <1> SUFFICES ASSUME SyncInv, Tick PROVE SyncInv'
    OBVIOUS
  <1>1. /\ now \in Nat /\ now' = now + 1
        /\ UNCHANGED <<chain, job, at, cursor, raw, sum, synced, head, cutoff>>
        /\ chain \in Seq(Int \cup {Null})
    BY DEF SyncInv, TypeOK, Tick
  <1>2. TypeOK'
    BY <1>1 DEF SyncInv, TypeOK, job
  <1>3. ChainOK'
    <2>1. \A i \in DOMAIN chain : chain[i] # Null => chain[i] \in Int
      BY <1>1
    <2> QED
      BY <1>1, <2>1 DEF SyncInv, ChainOK
  <1>4. PositionsOK'
    BY <1>1 DEF SyncInv, PositionsOK, TypeOK, job
  <1>5. DOMAIN chain = 1 .. Len(chain) /\ Len(chain) \in Nat
    BY <1>1
  <1> QED
    BY <1>1, <1>2, <1>3, <1>4, <1>5, ChainGrows DEF SyncInv

\* A job begins with nothing written.
LEMMA BeginInv == SyncInv /\ Begin => SyncInv'
  <1> SUFFICES ASSUME SyncInv, Begin PROVE SyncInv'
    OBVIOUS
  <1>1. PICK h \in HoursChoices, n \in LimitChoices, d \in 0 .. now :
           hours' = h /\ limit' = AsLimit(n) /\ created' = now - d
    BY DEF Begin
  <1>2. /\ at = "idle" /\ at' = "fetch"
        /\ UNCHANGED <<chain, now, cursor, raw, sum, synced, head, cutoff>>
    BY DEF Begin
  <1>3. h \in Int /\ AsLimit(n) \in Nat /\ now \in Nat /\ now - d \in Nat /\ now - d <= now
    BY <1>1, SignatureSyncAssumption DEF SyncInv, TypeOK, AsLimit
  <1>4. TypeOK'
    BY <1>1, <1>2, <1>3 DEF SyncInv, TypeOK
  <1>5. ChainOK' /\ PositionsOK' /\ PageOK'
    BY <1>1, <1>2, <1>3 DEF SyncInv, ChainOK, PositionsOK, PageOK
  <1>6. synced = {} /\ PageEnd' = PageEnd
    BY <1>2 DEF SyncInv, PositionsOK, SyncedSoFar, PageEnd, Timed
  <1>7. SyncedSoFar'
    BY <1>2, <1>6 DEF SyncInv, SyncedSoFar, Timed
  <1>8. sum = 0 /\ Cardinality(synced) = 0
    BY <1>2, <1>6, FS_EmptySet DEF SyncInv, SumOK
  <1>9. SumOK' /\ OvershootIsOnePage'
    BY <1>1, <1>2, <1>3, <1>8, SignatureSyncAssumption DEF SumOK, OvershootIsOnePage
  <1>10. SyncCovers' /\ Contiguous' /\ WithinHours'
    BY <1>2, <1>6 DEF SyncCovers, Contiguous, WithinHours
  <1> QED
    BY <1>4, <1>5, <1>7, <1>9, <1>10 DEF SyncInv

\* The page that is read is the one before what has been written.
LEMMA FetchPageInv == SyncInv /\ FetchPage => SyncInv'
  <1> SUFFICES ASSUME SyncInv, FetchPage PROVE SyncInv'
    OBVIOUS
  <1> DEFINE c == IF cursor = 0 THEN Len(chain) + 1 ELSE cursor
             p == PageBefore(c)
             n == Cardinality(Recent(p, Cutoff))
  <1>1. /\ TypeOK /\ PositionsOK /\ chain \in Seq(Int \cup {Null})
        /\ DOMAIN chain = 1 .. Len(chain) /\ Len(chain) \in Nat
        /\ cursor \in Nat /\ head \in Nat /\ cursor <= head /\ head <= Len(chain)
        /\ cursor = 0 => head = 0
    BY Positions DEF SyncInv, TypeOK, PositionsOK, FetchPage
  <1>2. /\ at = "fetch" /\ at' = "write"
        /\ raw' = p /\ sum' = sum + n /\ cutoff' = Cutoff
        /\ head' = IF cursor = 0 THEN Len(chain) ELSE head
        /\ UNCHANGED <<chain, now, job, cursor, synced>>
    BY DEF FetchPage
  <1>3. /\ c \in Nat /\ c >= 1 /\ c <= Len(chain) + 1
        /\ PageEnd' = c /\ head' \in Nat /\ head' <= Len(chain)
    BY <1>1, <1>2 DEF PageEnd
  <1> HIDE DEF c
  <1>4. /\ IsFiniteSet(p) /\ Cardinality(p) \in Nat /\ Cardinality(p) <= PageLimit
        /\ p \subseteq DOMAIN chain
    <2>1. /\ PageStart(c) \in Nat
          /\ IsFiniteSet(p) /\ Cardinality(p) = c - PageStart(c)
          /\ c - PageStart(c) <= PageLimit
      BY <1>1, <1>3, PageIsInterval
    <2>2. Cardinality(p) \in Nat
      BY <2>1, FS_CardinalityType
    <2>3. p \subseteq DOMAIN chain
      BY DEF PageBefore
    <2> QED
      BY <2>1, <2>2, <2>3
  <1>5. n \in Nat /\ n <= PageLimit
    BY <1>4, RecentIsPart, SignatureSyncAssumption
  <1>6. Cutoff \in Int /\ Cutoff >= created - Hours
    BY <1>1 DEF Cutoff, Hours, TypeOK, PositionsOK
  <1>7. Recent(raw, cutoff)' = Recent(p, Cutoff)
    BY <1>2 DEF Recent, Timed
  <1> HIDE DEF p
  <1>8. TypeOK'
    BY <1>1, <1>2, <1>3, <1>4, <1>5, <1>6 DEF TypeOK, job
  <1>9. ChainOK' /\ PositionsOK'
    BY <1>1, <1>2, <1>3 DEF SyncInv, ChainOK, PositionsOK, job
  <1>10. SyncedSoFar'
    <2>1. synced = Timed(PageEnd .. head)
      BY <1>2 DEF SyncInv, SyncedSoFar
    <2>2. CASE cursor = 0
      <3>1. synced = {}
        BY <1>1, <2>1, <2>2 DEF PageEnd, Timed
      <3>2. PageEnd' > head'
        BY <1>2, <1>3, <2>2 DEF c
      <3>3. Timed(PageEnd .. head)' = {}
        BY <1>3, <3>2 DEF Timed
      <3> QED
        BY <1>2, <3>1, <3>3 DEF SyncedSoFar
    <2>3. CASE cursor # 0
      BY <1>2, <2>1, <2>3 DEF SyncedSoFar, PageEnd, Timed
    <2> QED
      BY <2>2, <2>3
  <1>11. PageOK'
    <2>1. PageBefore(PageEnd)' = p
      BY <1>2, <1>3 DEF PageBefore, p
    <2> QED
      BY <1>2, <1>6, <2>1 DEF PageOK, Hours, job
  <1>12. SumOK'
    <2>1. sum = Cardinality(synced) /\ (sum = 0 \/ sum < limit) /\ sum \in Nat /\ limit \in Nat
      BY <1>1, <1>2 DEF SyncInv, SumOK, TypeOK
    <2>2. sum + n < PageLimit + (IF limit = 0 THEN 1 ELSE limit)
      BY <1>5, <2>1, SignatureSyncAssumption
    <2> QED
      BY <1>2, <1>7, <2>1, <2>2 DEF SumOK, job
  <1>13. SyncCovers' /\ WithinHours' /\ OvershootIsOnePage'
    BY <1>2 DEF SyncInv, SyncCovers, WithinHours, OvershootIsOnePage, job
  <1>14. Contiguous'
    <2>1. CASE cursor = 0
      BY <1>1, <1>2, <2>1 DEF SyncInv, SyncedSoFar, Contiguous, PageEnd, Timed
    <2>2. CASE cursor # 0
      BY <1>2, <2>2 DEF SyncInv, Contiguous
    <2> QED
      BY <2>1, <2>2
  <1> QED
    BY <1>8, <1>9, <1>10, <1>11, <1>12, <1>13, <1>14 DEF SyncInv

\* What is written joins what was there without a gap, and the last page ends
\* where nothing is left back to the cutoff, or at tx_limit.
LEMMA WritePageInv == SyncInv /\ WritePage => SyncInv'
  <1> SUFFICES ASSUME SyncInv, WritePage PROVE SyncInv'
    OBVIOUS
  <1> DEFINE c == PageEnd
             s == PageStart(c)
             R == Recent(raw, cutoff)
  <1>1. /\ TypeOK /\ PositionsOK /\ chain \in Seq(Int \cup {Null})
        /\ DOMAIN chain = 1 .. Len(chain) /\ Len(chain) \in Nat
        /\ c \in Nat /\ 1 <= c /\ c <= head + 1 /\ c <= Len(chain) + 1
        /\ head \in Nat /\ head <= Len(chain)
        /\ cutoff \in Int /\ limit \in Nat /\ sum \in Nat /\ PageLimit \in Nat \ {0}
        /\ \A i \in DOMAIN chain : chain[i] # Null => chain[i] \in Int
    BY Positions, SignatureSyncAssumption DEF SyncInv, TypeOK
  <1>2. /\ at = "write" /\ synced' = synced \cup R /\ raw' = {}
        /\ UNCHANGED <<chain, now, job, sum, head, cutoff>>
        /\ \/ LastPage(raw, cutoff, sum) /\ at' = "done" /\ cursor' = cursor
           \/ ~LastPage(raw, cutoff, sum) /\ at' = "fetch" /\ cursor' = NextCursor(raw)
    BY DEF WritePage
  <1>3. /\ synced = Timed(c .. head)
        /\ raw = PageBefore(c)
        /\ cutoff >= created - Hours
    BY <1>2 DEF SyncInv, SyncedSoFar, PageOK, Hours
  <1> HIDE DEF c
  <1>4. /\ s \in Nat /\ 1 <= s /\ s <= c
        /\ raw = s .. (c - 1)
        /\ IsFiniteSet(raw) /\ Cardinality(raw) = c - s
        /\ c - s < PageLimit => s = 1
    BY <1>1, <1>3, PageIsInterval
  <1> HIDE DEF s
  <1>5. R \subseteq Timed(raw) /\ Timed(raw) \subseteq raw /\ IsFiniteSet(R) /\ Cardinality(R) \in Nat
    BY <1>4, RecentIsPart
  <1>6. \A i \in Timed(raw) :
           i \in R <=> \A k \in Timed(raw) : k >= i => chain[k] >= cutoff
    BY DEF Recent
  <1> HIDE DEF R
  <1>7. /\ R \subseteq 1 .. head /\ synced \subseteq c .. head
        /\ \A i \in R : chain[i] # Null /\ i < c
    BY <1>1, <1>3, <1>4, <1>5 DEF Timed
  <1>8. Cardinality(synced') = sum
    <2>1. IsFiniteSet(synced)
      <3>1. IsFiniteSet(c .. head)
        BY <1>1, FS_Interval
      <3> QED
        BY <1>7, <3>1, FS_Subset
    <2>2. synced \cap R = {}
      BY <1>1, <1>7
    <2>3. Cardinality(synced \cap R) = 0
      BY <2>2, FS_EmptySet
    <2>4. Cardinality(synced) \in Nat
      BY <2>1, FS_CardinalityType
    <2>5. Cardinality(synced \cup R) = Cardinality(synced) + Cardinality(R) - Cardinality(synced \cap R)
      BY <1>5, <2>1, FS_Union
    <2>6. sum = Cardinality(synced) + Cardinality(R)
      BY <1>2 DEF SyncInv, SumOK, R
    <2> QED
      BY <1>2, <1>5, <2>3, <2>4, <2>5, <2>6
  <1>9. ~LastPage(raw, cutoff, sum) =>
           /\ cursor' = s /\ s < c /\ s <= head
           /\ R = Timed(raw)
           /\ sum < limit
    <2> SUFFICES ASSUME ~LastPage(raw, cutoff, sum)
                 PROVE  cursor' = s /\ s < c /\ s <= head /\ R = Timed(raw) /\ sum < limit
      OBVIOUS
    <2>1. ~ReachedCutoff(raw, cutoff) /\ ~(Cardinality(raw) < PageLimit) /\ ~(sum >= limit)
      BY DEF LastPage
    <2>2. s < c /\ s <= head
      BY <1>1, <1>4, <2>1
    <2>3. Oldest(raw) = s
      <3>1. c - 1 \in Nat /\ s <= c - 1
        BY <1>1, <1>4, <2>2
      <3> QED
        BY <1>4, <3>1, OldestOfPage
    <2>4. R = Timed(raw)
      <3>1. \A i \in raw : chain[i] \in Int \cup {Null}
        BY <1>1, <1>4
      <3> QED
        BY <1>1, <2>1, <3>1, RecentIfNotReached DEF R
    <2> QED
      BY <1>1, <1>2, <2>1, <2>2, <2>3, <2>4 DEF NextCursor
  <1>10. TypeOK'
    <2>1. cursor' \in Nat
      BY <1>1, <1>2, <1>4, <1>9 DEF TypeOK
    <2>2. synced' \subseteq DOMAIN chain
      BY <1>1, <1>2, <1>7
    <2> QED
      BY <1>1, <1>2, <2>1, <2>2 DEF TypeOK, job
  <1>11. ChainOK'
    BY <1>2 DEF SyncInv, ChainOK
  <1>12. PositionsOK'
    BY <1>1, <1>2, <1>4, <1>9 DEF PositionsOK, job
  <1>13. SyncedSoFar'
    <2> SUFFICES ASSUME ~LastPage(raw, cutoff, sum), at' = "fetch"
                 PROVE  synced' = Timed(PageEnd .. head)'
      BY <1>2 DEF SyncedSoFar
    <2>1. PageEnd' = s
      BY <1>4, <1>9 DEF PageEnd
    <2>2. Timed(PageEnd .. head)' = Timed(s .. head)
      BY <1>2, <2>1 DEF Timed
    <2>3. s .. head = (s .. (c - 1)) \cup (c .. head)
      BY <1>1, <1>4
    <2>4. Timed(s .. head) = Timed(raw) \cup Timed(c .. head)
      BY <1>4, <2>3 DEF Timed
    <2> QED
      BY <1>2, <1>3, <1>9, <2>2, <2>4
  <1>14. PageOK' /\ SumOK'
    BY <1>2, <1>8, <1>9 DEF PageOK, SumOK, job
  <1>15. SyncCovers'
    <2> SUFFICES ASSUME LastPage(raw, cutoff, sum), sum < limit,
                        NEW i \in 1 .. head, chain[i] # Null, chain[i] >= cutoff
                 PROVE  i \in synced'
      BY <1>2 DEF SyncCovers, job
    <2>1. \A k \in DOMAIN chain : i <= k /\ chain[k] # Null => chain[i] <= chain[k]
      BY <1>1 DEF SyncInv, ChainOK
    <2>2. CASE i >= c
      BY <1>1, <1>2, <1>3, <2>2 DEF Timed
    <2>3. CASE i < c /\ i >= s
      <3>1. i \in Timed(raw)
        BY <1>1, <1>4, <2>3 DEF Timed
      <3>2. \A k \in Timed(raw) : k >= i => chain[k] >= cutoff
        <4> SUFFICES ASSUME NEW k \in Timed(raw), k >= i PROVE chain[k] >= cutoff
          OBVIOUS
        <4>1. k \in DOMAIN chain /\ chain[k] # Null /\ i <= k
          BY <1>1, <1>4 DEF Timed
        <4>2. chain[i] <= chain[k] /\ chain[i] \in Int /\ chain[k] \in Int
          BY <1>1, <2>1, <4>1
        <4> QED
          BY <1>1, <4>2
      <3> QED
        BY <1>2, <1>6, <3>1, <3>2
    <2>4. CASE i < s
      <3>1. ReachedCutoff(raw, cutoff)
        BY <1>1, <1>4, <2>4 DEF LastPage
      <3>2. PICK k \in Timed(raw) : chain[k] < cutoff
        BY <3>1 DEF ReachedCutoff
      <3>3. k \in DOMAIN chain /\ chain[k] # Null /\ i <= k
        BY <1>1, <1>4, <2>4, <3>2 DEF Timed
      <3>4. chain[i] <= chain[k] /\ chain[i] \in Int /\ chain[k] \in Int
        BY <1>1, <2>1, <3>3
      <3> QED
        BY <1>1, <3>2, <3>4
    <2> QED
      BY <1>1, <1>4, <2>2, <2>3, <2>4
  <1>16. Contiguous'
    <2> SUFFICES ASSUME NEW i \in synced', NEW k \in 1 .. head, i < k, chain[k] # Null
                 PROVE  k \in synced'
      BY <1>2 DEF Contiguous
    <2>1. CASE k >= c
      BY <1>1, <1>2, <1>3, <2>1 DEF Timed
    <2>2. CASE k < c
      <3>1. i \in R
        BY <1>1, <1>2, <1>7, <2>2
      <3>2. i \in raw /\ i \in Timed(raw)
        BY <1>5, <3>1
      <3>3. k \in Timed(raw)
        BY <1>1, <1>4, <2>2, <3>2 DEF Timed
      <3>4. \A m \in Timed(raw) : m >= k => chain[m] >= cutoff
        <4>1. \A m \in Timed(raw) : m \in Nat
          BY <1>4, <1>5
        <4> QED
          BY <1>6, <3>1, <3>2, <3>3, <4>1
      <3> QED
        BY <1>2, <1>6, <3>3, <3>4
    <2> QED
      BY <1>1, <2>1, <2>2
  <1>17. WithinHours'
    <2>1. \A i \in R : chain[i] >= cutoff /\ chain[i] \in Int
      <3> SUFFICES ASSUME NEW i \in R PROVE chain[i] >= cutoff /\ chain[i] \in Int
        OBVIOUS
      <3>1. i \in Timed(raw) /\ i \in Nat /\ i \in DOMAIN chain /\ chain[i] # Null
        BY <1>1, <1>4, <1>5, <1>7
      <3> QED
        BY <1>1, <1>6, <3>1
    <2>2. created \in Nat /\ Hours \in Int
      BY <1>1 DEF TypeOK, Hours
    <2>3. \A i \in R : chain[i] # Null /\ chain[i] >= created - Hours
      BY <1>1, <1>3, <1>7, <2>1, <2>2
    <2>4. \A i \in synced : chain[i] # Null /\ chain[i] >= created - Hours
      BY DEF SyncInv, WithinHours, Hours
    <2>5. Hours' = Hours /\ created' = created /\ chain' = chain
      BY <1>2 DEF Hours, job
    <2>6. \A i \in synced' : chain'[i] # Null /\ chain'[i] >= created' - Hours'
      BY <1>2, <2>3, <2>4, <2>5
    <2> QED
      BY <2>6 DEF WithinHours, Hours
  <1>18. OvershootIsOnePage'
    BY <1>2, <1>8 DEF SyncInv, SumOK, OvershootIsOnePage, job
  <1> QED
    BY <1>10, <1>11, <1>12, <1>13, <1>14, <1>15, <1>16, <1>17, <1>18 DEF SyncInv

\* A job that fails keeps what it has written.
LEMMA FailInv == SyncInv /\ Fail => SyncInv'
  <1> SUFFICES ASSUME SyncInv, Fail PROVE SyncInv'
    OBVIOUS
  <1>1. /\ at' = "failed" /\ raw' = {}
        /\ UNCHANGED <<chain, now, job, cursor, sum, synced, head, cutoff>>
    BY DEF Fail
  <1>2. TypeOK' /\ ChainOK' /\ PositionsOK'
    BY <1>1 DEF SyncInv, TypeOK, ChainOK, PositionsOK, job
  <1>3. SyncedSoFar' /\ PageOK' /\ SumOK' /\ SyncCovers'
    BY <1>1 DEF SyncedSoFar, PageOK, SumOK, SyncCovers
  <1>4. Contiguous' /\ WithinHours' /\ OvershootIsOnePage'
    BY <1>1 DEF SyncInv, Contiguous, WithinHours, OvershootIsOnePage, job
  <1> QED
    BY <1>2, <1>3, <1>4 DEF SyncInv

\* Every step of the job, of the chain and of time keeps the invariant.
LEMMA NextInv == SyncInv /\ [Next]_vars => SyncInv'
  <1> SUFFICES ASSUME SyncInv, [Next]_vars PROVE SyncInv'
    OBVIOUS
  <1>1. CASE Finished \/ UNCHANGED vars
    <2>1. /\ UNCHANGED <<chain, now, job, at, cursor, raw, sum, synced, head, cutoff>>
          /\ DOMAIN chain = 1 .. Len(chain) /\ Len(chain) \in Nat
      BY <1>1 DEF Finished, vars, SyncInv, TypeOK
    <2>2. TypeOK' /\ ChainOK' /\ PositionsOK'
      BY <2>1 DEF SyncInv, TypeOK, ChainOK, PositionsOK, job
    <2> QED
      BY <2>1, <2>2, ChainGrows DEF SyncInv
  <1> QED
    BY <1>1, BeginInv, FetchPageInv, WritePageInv, FailInv, ConfirmInv, TickInv DEF Next

(***************************************************************************)
(* The theorems.                                                           *)
(***************************************************************************)

\* The inductive invariant holds in every state of a synchronisation.
THEOREM SyncInvariance == Spec => []SyncInv
  <1>1. Init => SyncInv
    BY InitInv
  <1>2. SyncInv /\ [Next]_vars => SyncInv'
    BY NextInv
  <1> QED
    BY <1>1, <1>2, PTL DEF Spec

\* fetch_signatures, when it ends without an error and below tx_limit, has all
\* that was there when it began, back to the cutoff of its last page.
THEOREM SynchronisationCovers == Spec => []SyncCovers
  <1>1. SyncInv => SyncCovers
    BY DEF SyncInv
  <1> QED
    BY <1>1, SyncInvariance, PTL

\* fetch_signatures never leaves a hole, wherever it fails.
THEOREM SynchronisationIsContiguous == Spec => []Contiguous
  <1>1. SyncInv => Contiguous
    BY DEF SyncInv
  <1> QED
    BY <1>1, SyncInvariance, PTL

\* fetch_signatures writes nothing that is older than requested_hours.
THEOREM SynchronisationIsBounded == Spec => []WithinHours
  <1>1. SyncInv => WithinHours
    BY DEF SyncInv
  <1> QED
    BY <1>1, SyncInvariance, PTL

\* fetch_signatures exceeds tx_limit by less than a page, whatever sign it has.
THEOREM OvershootIsBounded == Spec => []OvershootIsOnePage
  <1>1. SyncInv => OvershootIsOnePage
    BY DEF SyncInv
  <1> QED
    BY <1>1, SyncInvariance, PTL

\* The position, the page and the counters of a synchronisation keep their types.
THEOREM SyncTypeCorrect == Spec => []TypeOK
  <1>1. SyncInv => TypeOK
    BY DEF SyncInv
  <1> QED
    BY <1>1, SyncInvariance, PTL

\* Each page of fetch_signatures begins where the one before ended, for any chain
\* that grows meanwhile: the argument behind the end of the loop.
THEOREM PagingMovesOn == Spec => PagesAreAdjacent
  <1>1. SyncInv /\ [Next]_vars =>
            (at = "write" /\ at' = "fetch" => cursor' = PageEnd - PageLimit /\ cursor' >= 1)
    <2> SUFFICES ASSUME SyncInv, [Next]_vars, at = "write", at' = "fetch"
                 PROVE  cursor' = PageEnd - PageLimit /\ cursor' >= 1
      OBVIOUS
    <2>1. WritePage
      BY DEF Next, Begin, FetchPage, Fail, Confirm, Tick, Finished, vars
    <2>2. /\ raw = PageBefore(PageEnd)
          /\ ~LastPage(raw, cutoff, sum)
          /\ cursor' = Oldest(raw)
      BY <2>1 DEF WritePage, NextCursor, SyncInv, PageOK
    <2>3. /\ PageEnd \in Nat /\ 1 <= PageEnd /\ PageEnd <= Len(chain) + 1
          /\ chain \in Seq(Int \cup {Null})
      BY Positions DEF SyncInv, TypeOK
    <2> DEFINE a == PageStart(PageEnd)
               b == PageEnd - 1
    <2>4. /\ a \in Nat /\ 1 <= a /\ a <= PageEnd
          /\ raw = a .. b
          /\ Cardinality(raw) = PageEnd - a
          /\ PageEnd - a <= PageLimit
      BY <2>2, <2>3, PageIsInterval
    <2>5. PageEnd - a = PageLimit /\ PageLimit \in Nat \ {0}
      BY <2>2, <2>3, <2>4, SignatureSyncAssumption DEF LastPage
    <2>6. b \in Nat /\ a <= b /\ a = PageEnd - PageLimit
      BY <2>3, <2>4, <2>5
    <2> HIDE DEF a, b
    <2>7. Oldest(a .. b) = a
      BY <2>4, <2>6, OldestOfPage
    <2> QED
      BY <2>2, <2>4, <2>6, <2>7
  <1> QED
    BY <1>1, SyncInvariance, PTL DEF Spec, PagesAreAdjacent
=============================================================================
