------------------------- MODULE AdminReads_proofs --------------------------
(***************************************************************************)
(* Proofs about what an administrator reads: the pages of RequestLogs, for *)
(* any number of rows and any page size, and the messages in them; and the *)
(* report of UsageReport, for any keys, days and recordings.               *)
(***************************************************************************)
EXTENDS RequestLogs, UsageReport, SequenceTheorems, Induction

-----------------------------------------------------------------------------
LogsTypeOK ==
  /\ clock \in Int
  /\ logs \in [LogIds -> {"none", "pending", "committed", "failed", "rejected"}]
  /\ createdAt \in [LogIds -> Int]
  /\ lastLogId \in Nat
  /\ reader \in [at : {"idle", "reading", "done"}, until : Int \cup {Null},
                 seen : Seq(LogIds), there : SUBSET LogIds]

(* The ids that were not given yet have no row.                            *)
NoRowAhead == \A id \in LogIds : id > lastLogId => logs[id] = "none"

(* What the reader searches, and the rows of it that come before a row.    *)
Rows == Found(reader.until)
Ahead(r) == {q \in Rows : Before(q, r)}

(* No row is ever taken out of what the reader searches.                   *)
ThereIsFound == reader.there \subseteq Rows

(* Why paging by offset misses nothing: a row that was there and was not   *)
(* seen yet has at least as many rows before it as were read.              *)
UnseenIsAhead ==
  \A r \in reader.there \ SeenRows : Cardinality(Ahead(r)) >= Len(reader.seen)

LogsInv ==
  /\ LogsTypeOK /\ NoRowAhead /\ ThereIsFound /\ UnseenIsAhead
  /\ PagesMissNothing /\ RepeatsOnlyWhenAdded

-----------------------------------------------------------------------------
(* The rows, and those before one of them, are finite sets.                *)
LEMMA RowsFinite ==
  /\ IsFiniteSet(LogIds)
  /\ \A S \in SUBSET LogIds : IsFiniteSet(S) /\ Cardinality(S) \in Nat
<1>1. IsFiniteSet(LogIds)
  BY FS_Interval, RequestLogsAssumption DEF LogIds
<1>2. ASSUME NEW S \in SUBSET LogIds PROVE IsFiniteSet(S) /\ Cardinality(S) \in Nat
  <2>1. IsFiniteSet(S)
    BY <1>1, FS_Subset
  <2> QED BY <2>1, FS_CardinalityType
<1> QED BY <1>1, <1>2

LEMMA FoundTyped == \A until : Found(until) \subseteq LogIds
BY DEF Found

(* A stamp is an integer.                                                  *)
LEMMA StampTyped ==
  ASSUME NEW t \in Int
  PROVE  Stamp(t) \in Int
<1> DEFINE a == 2 * t + Second
           b == 2 * Second
           q == a \div b
<1>1. a \in Int /\ b \in Int /\ b > 0 /\ Second \in Int
  BY InstantsAssumption
<1> HIDE DEF a, b
<1>2. q \in Int
  BY <1>1
<1> HIDE DEF q
<1>3. q * Second \in Int
  BY <1>1, <1>2
<1> QED BY <1>3 DEF Stamp, q, a, b

(* The first k elements of an injective sequence are k.                    *)
First(s, k) == {s[i] : i \in 1..k}

LEMMA FirstElements ==
  ASSUME NEW n \in Nat, NEW rows, NEW s \in [1..n -> rows],
         \A i, j \in 1..n : i # j => s[i] # s[j],
         NEW k \in 0..n
  PROVE  IsFiniteSet(First(s, k)) /\ Cardinality(First(s, k)) = k
<1> DEFINE T == First(s, k)
           f == [i \in 1..k |-> s[i]]
<1>1. f \in Bijection(1..k, T)
  <2>1. f \in [1..k -> T]
    BY DEF First
  <2>2. \A i, j \in 1..k : f[i] = f[j] => i = j
    OBVIOUS
  <2>3. \A t \in T : \E i \in 1..k : f[i] = t
    BY DEF First
  <2> QED BY <2>1, <2>2, <2>3 DEF Bijection, Injection, Surjection, IsInjective
<1>2. IsFiniteSet(1..k) /\ Cardinality(1..k) = k
  BY FS_Interval
<1>3. ExistsBijection(1..k, T)
  BY <1>1 DEF ExistsBijection
<1> QED BY <1>2, <1>3, FS_Bijection

(* A sequence of ORDER BY holds every row, and the rows before its i-th    *)
(* are its first i - 1.                                                    *)
LEMMA SortedRank ==
  ASSUME LogsTypeOK, NEW rows \in SUBSET LogIds, NEW s \in Sorted(rows)
  PROVE  /\ s \in Seq(rows)
         /\ Len(s) = Cardinality(rows)
         /\ \A i, j \in 1..Len(s) : i # j => s[i] # s[j]
         /\ \A r \in rows : \E i \in 1..Len(s) : s[i] = r
         /\ \A i \in 1..Len(s) :
              Cardinality({q \in rows : Before(q, s[i])}) = i - 1
<1> DEFINE n == Cardinality(rows)
<1>1. IsFiniteSet(rows) /\ n \in Nat
  BY RowsFinite
<1>2. s \in [1..n -> rows]
  BY DEF Sorted
<1> HIDE DEF n
<1>3. s \in Seq(rows) /\ Len(s) = n /\ DOMAIN s = 1..n
  BY <1>1, <1>2
<1>4. /\ \A i, j \in 1..n : i # j => s[i] # s[j]
      /\ \A i, j \in 1..n : i < j => ~ Before(s[j], s[i])
  BY <1>3 DEF Sorted
<1>5. \A r \in rows : \E i \in 1..n : s[i] = r
  <2>1. s \in Injection(1..n, rows)
    BY <1>2, <1>4 DEF Injection, IsInjective
  <2>2. Cardinality(1..n) = n /\ n = Cardinality(rows)
    BY <1>1, FS_Interval DEF n
  <2>3. s \in Surjection(1..n, rows)
    BY <1>1, <2>1, <2>2, FS_Injection
  <2> QED BY <2>3 DEF Surjection
<1>6. ASSUME NEW i \in 1..n
      PROVE  Cardinality({q \in rows : Before(q, s[i])}) = i - 1
  <2>1. \A j \in 1..n : s[j] \in LogIds /\ s[j] \in Int /\ createdAt[s[j]] \in Int
    <3>1. \A j \in 1..n : s[j] \in LogIds
      BY <1>2
    <3> QED BY <3>1 DEF LogsTypeOK, LogIds
  <2>2. ASSUME NEW j \in 1..n PROVE Before(s[j], s[i]) <=> j < i
    <3>1. CASE j < i
      <4>1. ~ Before(s[i], s[j]) /\ s[i] # s[j]
        BY <1>4, <3>1
      <4> QED BY <2>1, <3>1, <4>1 DEF Before
    <3>2. CASE j = i
      BY <2>1, <3>2 DEF Before
    <3>3. CASE j > i
      BY <1>4, <3>3
    <3> QED BY <3>1, <3>2, <3>3
  <2>3. {q \in rows : Before(q, s[i])} = First(s, i - 1)
    <3>1. ASSUME NEW q \in rows, Before(q, s[i])
          PROVE  q \in First(s, i - 1)
      <4>1. PICK j \in 1..n : s[j] = q
        BY <1>5
      <4>2. j < i
        BY <2>2, <3>1, <4>1
      <4> QED BY <1>1, <4>1, <4>2 DEF First
    <3>2. ASSUME NEW j \in 1..(i - 1)
          PROVE  s[j] \in rows /\ Before(s[j], s[i])
      <4>1. j \in 1..n /\ j < i
        BY <1>1
      <4> QED BY <1>2, <2>2, <4>1
    <3> QED BY <3>1, <3>2 DEF First
  <2>4. i - 1 \in 0..n
    BY <1>1
  <2>5. Cardinality(First(s, i - 1)) = i - 1
    BY <1>1, <1>2, <1>4, <2>4, FirstElements
  <2> QED BY <2>3, <2>5
<1> QED BY <1>3, <1>4, <1>5, <1>6 DEF n

-----------------------------------------------------------------------------
(* A page, from the sequence that it is cut from.                          *)
LEMMA PageOf ==
  ASSUME LogsTypeOK, NEW rows \in SUBSET LogIds, NEW offset \in Nat,
         NEW page \in Page(rows, offset)
  PROVE  \E s \in Sorted(rows) :
           /\ page \in Seq(rows)
           /\ Len(page) = IF offset >= Len(s) THEN 0
                          ELSE IF offset + PageSize < Len(s) THEN PageSize
                          ELSE Len(s) - offset
           /\ \A i \in 1..Len(page) : page[i] = s[offset + i]
<1> DEFINE end(s) == IF offset + PageSize < Len(s) THEN offset + PageSize
                     ELSE Len(s)
<1>1. PICK s \in Sorted(rows) : page = SubSeq(s, offset + 1, end(s))
  BY DEF Page
<1>2. s \in Seq(rows) /\ Len(s) \in Nat /\ PageSize \in Nat \ {0}
  BY SortedRank, RequestLogsAssumption
<1> DEFINE e == end(s)
<1>3. /\ e \in Int
      /\ e = IF offset + PageSize < Len(s) THEN offset + PageSize ELSE Len(s)
  BY <1>2
<1> HIDE DEF end, e
<1>4. offset + 1 \in Int /\ \A i \in (offset + 1)..e : s[i] \in rows
  BY <1>2, <1>3
<1>5. /\ page \in Seq(rows)
      /\ Len(page) = IF offset + 1 <= e THEN e - (offset + 1) + 1 ELSE 0
      /\ \A i \in 1..(e - (offset + 1) + 1) : page[i] = s[offset + 1 + i - 1]
  <2>1. page = SubSeq(s, offset + 1, e)
    BY <1>1 DEF e
  <2> QED BY <1>3, <1>4, <2>1, SubSeqProperties
<1>6. Len(page) = IF offset >= Len(s) THEN 0
                  ELSE IF offset + PageSize < Len(s) THEN PageSize
                  ELSE Len(s) - offset
  BY <1>2, <1>3, <1>5
<1>7. ASSUME NEW i \in 1..Len(page)
      PROVE  page[i] = s[offset + i]
  <2>1. i \in 1..(e - (offset + 1) + 1)
    BY <1>3, <1>5
  <2>2. offset + 1 + i - 1 = offset + i
    OBVIOUS
  <2> QED BY <1>5, <2>1, <2>2
<1> QED BY <1>5, <1>6, <1>7

(* What a concatenation holds.                                             *)
LEMMA ConcatRows ==
  ASSUME NEW s \in Seq(LogIds), NEW t \in Seq(LogIds)
  PROVE  /\ s \o t \in Seq(LogIds)
         /\ Len(s \o t) = Len(s) + Len(t)
         /\ \A i \in DOMAIN s : \E j \in DOMAIN (s \o t) : (s \o t)[j] = s[i]
         /\ \A i \in DOMAIN t : \E j \in DOMAIN (s \o t) : (s \o t)[j] = t[i]
<1>1. s \o t \in Seq(LogIds) /\ Len(s \o t) = Len(s) + Len(t)
  OBVIOUS
<1>2. /\ DOMAIN (s \o t) = 1..(Len(s) + Len(t))
      /\ DOMAIN s = 1..Len(s) /\ DOMAIN t = 1..Len(t)
      /\ Len(s) \in Nat /\ Len(t) \in Nat
  BY <1>1
<1>3. ASSUME NEW i \in DOMAIN s
      PROVE  \E j \in DOMAIN (s \o t) : (s \o t)[j] = s[i]
  <2>1. i \in DOMAIN (s \o t) /\ (s \o t)[i] = s[i]
    BY <1>2
  <2> QED BY <2>1
<1>4. ASSUME NEW i \in DOMAIN t
      PROVE  \E j \in DOMAIN (s \o t) : (s \o t)[j] = t[i]
  <2>1. Len(s) + i \in DOMAIN (s \o t) /\ (s \o t)[Len(s) + i] = t[i]
    BY <1>2
  <2> QED BY <2>1
<1> QED BY <1>1, <1>3, <1>4

-----------------------------------------------------------------------------
(* A step that leaves the reader alone, takes no row away and restamps     *)
(* none of them keeps what was read right.                                 *)
LEMMA RowsGrow ==
  ASSUME LogsInv, LogsTypeOK', UNCHANGED reader,
         Rows \subseteq Rows',
         \A r \in Rows : createdAt'[r] = createdAt[r]
  PROVE  /\ ThereIsFound' /\ UnseenIsAhead'
         /\ PagesMissNothing' /\ RepeatsOnlyWhenAdded'
<1> USE DEF LogsInv
<1>1. Rows \subseteq LogIds /\ Rows' \subseteq LogIds
  BY FoundTyped DEF Rows, Found, LogIds
<1>2. SeenRows' = SeenRows
  BY DEF SeenRows
<1>3. ThereIsFound'
  BY DEF ThereIsFound
<1>4. UnseenIsAhead'
  <2> SUFFICES ASSUME NEW r \in reader.there \ SeenRows
               PROVE  Cardinality(Ahead(r)') >= Len(reader.seen)
    BY <1>2 DEF UnseenIsAhead
  <2>1. r \in Rows
    BY DEF ThereIsFound
  <2>2. Ahead(r) \subseteq Ahead(r)'
    BY <2>1 DEF Ahead, Before
  <2>3. /\ Ahead(r) \in SUBSET LogIds /\ Ahead(r)' \in SUBSET LogIds
    BY <1>1 DEF Ahead
  <2>4. Cardinality(Ahead(r)) <= Cardinality(Ahead(r)')
    BY <2>2, <2>3, RowsFinite, FS_Subset
  <2>5. Cardinality(Ahead(r)) \in Nat /\ Cardinality(Ahead(r)') \in Nat
    BY <2>3, RowsFinite
  <2>6. Len(reader.seen) \in Nat
    BY DEF LogsTypeOK
  <2>7. Cardinality(Ahead(r)) >= Len(reader.seen)
    BY DEF UnseenIsAhead
  <2> QED BY <2>4, <2>5, <2>6, <2>7
<1>5. PagesMissNothing'
  BY <1>2 DEF PagesMissNothing
<1>6. RepeatsOnlyWhenAdded'
  <2> DEFINE a == Rows \ reader.there
             b == Rows' \ reader.there
  <2>1. a \subseteq b /\ a \in SUBSET LogIds /\ b \in SUBSET LogIds
    BY <1>1
  <2>2. Cardinality(a) <= Cardinality(b)
    BY <2>1, RowsFinite, FS_Subset
  <2>3. Cardinality(a) \in Nat /\ Cardinality(b) \in Nat
    BY <2>1, RowsFinite
  <2>4. Len(reader.seen) - Cardinality(SeenRows) <= Cardinality(a)
    BY DEF RepeatsOnlyWhenAdded, Rows
  <2>5. Len(reader.seen) \in Nat /\ Cardinality(SeenRows) \in Nat
    <3>1. SeenRows \in SUBSET LogIds /\ Len(reader.seen) \in Nat
      BY DEF SeenRows, LogsTypeOK
    <3> QED BY <3>1, RowsFinite
  <2> HIDE DEF a, b
  <2>6. Len(reader.seen) - Cardinality(SeenRows) <= Cardinality(b)
    BY <2>2, <2>3, <2>4, <2>5
  <2> QED BY <1>2, <2>6 DEF RepeatsOnlyWhenAdded, Rows, b
<1> QED BY <1>3, <1>4, <1>5, <1>6

(* A page read keeps what was read right.                                  *)
LEMMA ReadPageStep ==
  ASSUME LogsInv, ReadPage
  PROVE  LogsInv'
<1> USE DEF LogsInv
<1> DEFINE K == Len(reader.seen)
<1>1. PICK page \in Page(Found(reader.until), Len(reader.seen)) :
        reader' = [reader EXCEPT
                     !.seen = @ \o page,
                     !.at = IF Len(page) < PageSize THEN "done" ELSE "reading"]
  BY DEF ReadPage
<1>2. UNCHANGED <<clock, logs, createdAt, lastLogId>>
  BY DEF ReadPage
<1>3. Rows \in SUBSET LogIds /\ reader.seen \in Seq(LogIds) /\ K \in Nat
  BY FoundTyped DEF Rows, LogsTypeOK
<1>4. PICK s \in Sorted(Rows) :
        /\ page \in Seq(Rows)
        /\ Len(page) = IF K >= Len(s) THEN 0
                       ELSE IF K + PageSize < Len(s) THEN PageSize
                       ELSE Len(s) - K
        /\ \A i \in 1..Len(page) : page[i] = s[K + i]
  <2>1. page \in Page(Rows, K)
    BY <1>1 DEF Rows
  <2> HIDE DEF K
  <2> QED BY <1>3, <2>1, PageOf
<1>5. /\ s \in Seq(Rows) /\ Len(s) \in Nat /\ Len(s) = Cardinality(Rows)
      /\ \A i, j \in 1..Len(s) : i # j => s[i] # s[j]
      /\ \A r \in Rows : \E i \in 1..Len(s) : s[i] = r
      /\ \A i \in 1..Len(s) :
           Cardinality({q \in Rows : Before(q, s[i])}) = i - 1
  <2>1. s \in Seq(Rows)
    BY <1>3, SortedRank
  <2> QED BY <1>3, <2>1, SortedRank
<1>6. PageSize \in Nat \ {0} /\ Len(page) \in Nat
  BY <1>4, RequestLogsAssumption
<1>7. /\ reader'.seen = reader.seen \o page
      /\ reader'.at = IF Len(page) < PageSize THEN "done" ELSE "reading"
      /\ reader'.until = reader.until /\ reader'.there = reader.there
  BY <1>1 DEF LogsTypeOK
<1>8. page \in Seq(LogIds)
  <2>1. \A i \in 1..Len(page) : page[i] \in LogIds
    BY <1>3, <1>4
  <2>2. page = [i \in 1..Len(page) |-> page[i]]
    BY <1>4
  <2> QED BY <1>6, <2>1, <2>2
<1>9. /\ reader'.seen \in Seq(LogIds)
      /\ Len(reader'.seen) = K + Len(page)
      /\ SeenRows \subseteq SeenRows'
      /\ \A i \in 1..Len(page) : page[i] \in SeenRows'
  <2> DEFINE both == reader.seen \o page
  <2>1. /\ both \in Seq(LogIds) /\ Len(both) = K + Len(page)
        /\ \A i \in DOMAIN reader.seen :
             \E j \in DOMAIN both : both[j] = reader.seen[i]
        /\ \A i \in DOMAIN page : \E j \in DOMAIN both : both[j] = page[i]
    BY <1>3, <1>8, ConcatRows
  <2>2. DOMAIN page = 1..Len(page)
    BY <1>8
  <2>3. reader'.seen = both
    BY <1>7
  <2> HIDE DEF both
  <2>4. SeenRows' = {both[j] : j \in DOMAIN both}
    BY <2>3 DEF SeenRows
  <2>5. SeenRows \subseteq SeenRows'
    BY <2>1, <2>4 DEF SeenRows
  <2>6. \A i \in 1..Len(page) : page[i] \in SeenRows'
    BY <2>1, <2>2, <2>4
  <2> QED BY <2>1, <2>3, <2>5, <2>6
<1>10. Rows' = Rows /\ \A r : Ahead(r)' = Ahead(r)
  BY <1>2, <1>7 DEF Rows, Found, Ahead, Before
<1>11. LogsTypeOK'
  <2>1. reader' \in [at : {"idle", "reading", "done"},
                     until : Int \cup {Null},
                     seen : Seq(LogIds), there : SUBSET LogIds]
    <3>1. reader' = [at |-> reader'.at, until |-> reader.until,
                     seen |-> reader'.seen, there |-> reader.there]
      BY <1>1 DEF LogsTypeOK
    <3>2. /\ reader'.at \in {"idle", "reading", "done"}
          /\ reader.until \in Int \cup {Null} /\ reader.there \in SUBSET LogIds
      BY <1>7 DEF LogsTypeOK
    <3> QED BY <1>9, <3>1, <3>2
  <2> QED BY <1>2, <2>1 DEF LogsTypeOK
(* A row that was there is among the first elements of s that have been    *)
(* read, or has been seen all the same.                                    *)
<1>12. ASSUME NEW i \in 1..Len(s), s[i] \in reader.there, i <= K
       PROVE  s[i] \in SeenRows
  <2>1. Ahead(s[i]) = {q \in Rows : Before(q, s[i])}
    BY DEF Ahead
  <2>2. Cardinality(Ahead(s[i])) = i - 1
    BY <1>5, <2>1
  <2>3. ~ (i - 1 >= K)
    BY <1>3, <1>12
  <2> QED BY <1>12, <2>2, <2>3 DEF UnseenIsAhead
<1>13. ASSUME NEW i \in 1..Len(s), s[i] \in reader.there, i <= K + Len(page)
       PROVE  s[i] \in SeenRows'
  <2>1. CASE i <= K
    BY <1>9, <1>12, <1>13, <2>1
  <2>2. CASE i > K
    <3>1. i - K \in 1..Len(page) /\ K + (i - K) = i
      BY <1>3, <1>5, <1>6, <1>13, <2>2
    <3>2. page[i - K] = s[K + (i - K)]
      BY <1>4, <3>1
    <3> QED BY <1>9, <3>1, <3>2
  <2> QED BY <1>3, <1>5, <2>1, <2>2
<1>14. UnseenIsAhead'
  <2> SUFFICES ASSUME NEW r \in reader.there, r \notin SeenRows'
               PROVE  Cardinality(Ahead(r)) >= K + Len(page)
    BY <1>7, <1>9, <1>10 DEF UnseenIsAhead
  <2>1. PICK i \in 1..Len(s) : s[i] = r
    BY <1>5 DEF ThereIsFound
  <2>2. ~ (i <= K + Len(page))
    BY <1>13, <2>1
  <2>3. Ahead(r) = {q \in Rows : Before(q, s[i])}
    BY <2>1 DEF Ahead
  <2>4. Cardinality(Ahead(r)) = i - 1
    BY <1>5, <2>3
  <2> QED BY <1>3, <1>5, <1>6, <2>2, <2>4
<1>15. PagesMissNothing'
  <2> SUFFICES ASSUME Len(page) < PageSize, NEW r \in reader.there
               PROVE  r \in SeenRows'
    BY <1>7 DEF PagesMissNothing
  <2>1. PICK i \in 1..Len(s) : s[i] = r
    BY <1>5 DEF ThereIsFound
  <2>2. i <= K + Len(page)
    BY <1>3, <1>4, <1>5, <1>6
  <2> QED BY <1>13, <2>1, <2>2
<1>16. RepeatsOnlyWhenAdded'
  <2> DEFINE k == K + Len(page)
             added == Rows \ reader.there
  <2>1. /\ SeenRows \in SUBSET LogIds /\ SeenRows' \in SUBSET LogIds
        /\ added \in SUBSET LogIds
    BY <1>3, <1>9 DEF SeenRows
  <2>2. /\ Cardinality(SeenRows) \in Nat /\ Cardinality(SeenRows') \in Nat
        /\ Cardinality(added) \in Nat
        /\ IsFiniteSet(SeenRows') /\ IsFiniteSet(added)
    BY <2>1, RowsFinite
  <2>3. Cardinality(SeenRows) <= Cardinality(SeenRows')
    BY <1>9, <2>1, <2>2, FS_Subset
  <2>4. CASE Len(page) = 0
    <3>1. K - Cardinality(SeenRows) <= Cardinality(added)
      BY DEF RepeatsOnlyWhenAdded, Rows
    <3>2. k - Cardinality(SeenRows') <= Cardinality(added)
      <4> HIDE DEF K, added
      <4> QED BY <1>3, <2>2, <2>3, <2>4, <3>1
    <3> QED BY <1>7, <1>9, <1>10, <3>2 DEF RepeatsOnlyWhenAdded, Rows
  <2>5. CASE Len(page) # 0
    <3>1. k \in 0..Len(s)
      BY <1>3, <1>4, <1>5, <1>6, <2>5
    <3>2. s \in [1..Len(s) -> Rows]
      BY <1>5
    <3>3. IsFiniteSet(First(s, k)) /\ Cardinality(First(s, k)) = k
      <4> HIDE DEF k
      <4> QED BY <1>5, <3>1, <3>2, FirstElements
    <3>4. First(s, k) \subseteq SeenRows' \cup added
      <4> SUFFICES ASSUME NEW i \in 1..k, s[i] \notin added
                   PROVE  s[i] \in SeenRows'
        BY DEF First
      <4>1. i \in 1..Len(s) /\ i <= K + Len(page)
        BY <1>5, <3>1
      <4>2. s[i] \in reader.there
        BY <3>2, <4>1
      <4> QED BY <1>13, <4>1, <4>2
    <3>5. /\ IsFiniteSet(SeenRows' \cup added)
          /\ Cardinality(SeenRows' \cup added)
               = Cardinality(SeenRows') + Cardinality(added)
                   - Cardinality(SeenRows' \cap added)
      BY <2>2, FS_Union
    <3>6. Cardinality(SeenRows' \cap added) \in Nat
      <4>1. SeenRows' \cap added \in SUBSET LogIds
        BY <2>1
      <4> QED BY <4>1, RowsFinite
    <3>7. k <= Cardinality(SeenRows' \cup added)
      BY <3>3, <3>4, <3>5, FS_Subset
    <3>8. k - Cardinality(SeenRows') <= Cardinality(added)
      <4>1. k \in Nat
        BY <1>3, <1>6
      <4> HIDE DEF k, added
      <4> QED BY <2>2, <3>5, <3>6, <3>7, <4>1
    <3> QED BY <1>7, <1>9, <1>10, <3>8 DEF RepeatsOnlyWhenAdded, Rows
  <2> QED BY <2>4, <2>5
<1>17. NoRowAhead' /\ ThereIsFound'
  BY <1>2, <1>7, <1>10 DEF NoRowAhead, ThereIsFound
<1> QED BY <1>11, <1>14, <1>15, <1>16, <1>17

-----------------------------------------------------------------------------
LEMMA LogsInvInit == clock = 0 /\ LogsInit => LogsInv
<1> SUFFICES ASSUME clock = 0, LogsInit PROVE LogsInv
  OBVIOUS
<1>1. LogsTypeOK
  <2>1. reader \in [at : {"idle", "reading", "done"}, until : Int \cup {Null},
                    seen : Seq(LogIds), there : SUBSET LogIds]
    BY DEF LogsInit
  <2> QED BY <2>1 DEF LogsInit, LogsTypeOK
<1>2. NoRowAhead /\ ThereIsFound /\ UnseenIsAhead /\ PagesMissNothing
  BY DEF LogsInit, NoRowAhead, ThereIsFound, UnseenIsAhead, PagesMissNothing
<1>3. RepeatsOnlyWhenAdded
  <2>1. Len(reader.seen) = 0 /\ SeenRows = {}
    BY DEF LogsInit, SeenRows
  <2>2. Found(reader.until) \ reader.there = {}
    BY DEF LogsInit, Found
  <2> QED BY <2>1, <2>2, FS_EmptySet DEF RepeatsOnlyWhenAdded
<1> QED BY <1>1, <1>2, <1>3 DEF LogsInv

(* An insert, or the end of its transaction, only adds rows.               *)
LEMMA InsertLogStep ==
  ASSUME LogsInv, InsertLog
  PROVE  LogsInv'
<1> USE DEF LogsInv
<1> DEFINE new == lastLogId + 1
<1>1. new \in LogIds /\ logs[new] = "none"
  BY RequestLogsAssumption DEF InsertLog, LogIds, LogsTypeOK, NoRowAhead
<1>2. /\ lastLogId' = new
      /\ createdAt' = [createdAt EXCEPT ![new] = Stamp(clock)]
      /\ UNCHANGED <<clock, reader>>
      /\ logs' \in {[logs EXCEPT ![new] = o] : o \in {"pending", "rejected"}}
  BY DEF InsertLog
<1>3. Stamp(clock) \in Int
  BY StampTyped DEF LogsTypeOK
<1>4. LogsTypeOK'
  BY <1>1, <1>2, <1>3 DEF LogsTypeOK
<1>5. NoRowAhead'
  <2> SUFFICES ASSUME NEW id \in LogIds, id > lastLogId'
               PROVE  logs'[id] = "none"
    BY DEF NoRowAhead
  <2>1. id # new /\ id > lastLogId
    BY <1>2, RequestLogsAssumption DEF LogsTypeOK, LogIds
  <2>2. logs'[id] = logs[id]
    BY <1>1, <1>2, <2>1 DEF LogsTypeOK
  <2> QED BY <2>1, <2>2 DEF NoRowAhead
<1>6. Rows \subseteq Rows' /\ \A r \in Rows : createdAt'[r] = createdAt[r]
  <2> SUFFICES ASSUME NEW r \in Rows
               PROVE  r \in Rows' /\ createdAt'[r] = createdAt[r]
    OBVIOUS
  <2>1. r \in LogIds /\ r # new
    BY <1>1 DEF Rows, Found
  <2>2. logs'[r] = logs[r] /\ createdAt'[r] = createdAt[r]
    BY <1>1, <1>2, <2>1 DEF LogsTypeOK
  <2> QED BY <1>2, <2>2 DEF Rows, Found
<1> QED BY <1>2, <1>4, <1>5, <1>6, RowsGrow

LEMMA EndInsertStep ==
  ASSUME LogsInv, NEW id \in LogIds, CommitInsert(id) \/ InsertFails(id)
  PROVE  LogsInv'
<1> USE DEF LogsInv
<1>1. /\ logs[id] = "pending"
      /\ logs' \in {[logs EXCEPT ![id] = o] : o \in {"committed", "failed"}}
      /\ UNCHANGED <<clock, createdAt, lastLogId, reader>>
  BY DEF CommitInsert, InsertFails
<1>2. LogsTypeOK'
  BY <1>1 DEF LogsTypeOK
<1>3. NoRowAhead'
  BY <1>1 DEF NoRowAhead, LogsTypeOK
<1>4. Rows \subseteq Rows' /\ \A r \in Rows : createdAt'[r] = createdAt[r]
  BY <1>1 DEF Rows, Found, LogsTypeOK
<1> QED BY <1>1, <1>2, <1>3, <1>4, RowsGrow

LEMMA StartReadingStep ==
  ASSUME LogsInv, StartReading
  PROVE  LogsInv'
<1> USE DEF LogsInv
<1>1. PICK date \in Untils :
        reader' = [at |-> "reading", until |-> AsUtc(date), seen |-> <<>>,
                   there |-> Found(AsUtc(date))]
  BY DEF StartReading
<1>2. UNCHANGED <<clock, logs, createdAt, lastLogId>>
  BY DEF StartReading
<1>3. /\ reader'.at = "reading" /\ reader'.until = AsUtc(date)
      /\ reader'.seen = <<>> /\ reader'.there = Found(AsUtc(date))
  BY <1>1
<1>4. AsUtc(date) \in Int \cup {Null}
  BY RequestLogsAssumption, InstantsAssumption DEF AsUtc, Dates
<1>5. LogsTypeOK'
  <2>1. Found(AsUtc(date)) \in SUBSET LogIds /\ <<>> \in Seq(LogIds)
    BY FoundTyped
  <2>2. reader' \in [at : {"idle", "reading", "done"}, until : Int \cup {Null},
                     seen : Seq(LogIds), there : SUBSET LogIds]
    BY <1>1, <1>4, <2>1
  <2> QED BY <1>2, <2>2 DEF LogsTypeOK
<1>6. NoRowAhead'
  BY <1>2 DEF NoRowAhead
<1>7. Found(reader.until)' = reader'.there
  BY <1>2, <1>3 DEF Found
<1>8. ThereIsFound'
  BY <1>7 DEF ThereIsFound, Rows
<1>9. SeenRows' = {} /\ Len(reader'.seen) = 0
  BY <1>3 DEF SeenRows
<1>10. UnseenIsAhead'
  <2> SUFFICES ASSUME NEW r PROVE Cardinality(Ahead(r)') >= 0
    BY <1>9 DEF UnseenIsAhead
  <2>1. Ahead(r)' \in SUBSET LogIds
    BY FoundTyped DEF Ahead, Rows, Found, LogIds
  <2> QED BY <2>1, RowsFinite
<1>11. PagesMissNothing'
  BY <1>3 DEF PagesMissNothing
<1>12. RepeatsOnlyWhenAdded'
  <2>1. Found(reader.until)' \ reader'.there = {}
    BY <1>7
  <2>2. Cardinality(SeenRows') = 0
    BY <1>9, FS_EmptySet
  <2>3. Len(reader'.seen) - Cardinality(SeenRows') = 0
    BY <1>9, <2>2
  <2>4. Cardinality(Found(reader.until)' \ reader'.there) = 0
    BY <2>1, FS_EmptySet
  <2>5. Len(reader'.seen) - Cardinality(SeenRows')
          <= Cardinality(Found(reader.until)' \ reader'.there)
    BY <2>3, <2>4
  <2> QED BY <2>5 DEF RepeatsOnlyWhenAdded
<1> QED BY <1>5, <1>6, <1>8, <1>10, <1>11, <1>12

LEMMA LogsInvStep ==
  LogsInv /\ [LogsNext]_<<clock, logsVars>> => LogsInv'
<1> SUFFICES ASSUME LogsInv, [LogsNext]_<<clock, logsVars>> PROVE LogsInv'
  OBVIOUS
<1>1. CASE LogsTick \/ UNCHANGED <<clock, logsVars>>
  <2>1. UNCHANGED <<logs, createdAt, lastLogId, reader>> /\ clock' \in Int
    BY <1>1 DEF LogsTick, ClockTick, logsVars, LogsInv, LogsTypeOK
  <2>2. LogsTypeOK' /\ NoRowAhead'
    BY <2>1 DEF LogsInv, LogsTypeOK, NoRowAhead
  <2>3. Rows' = Rows
    BY <2>1 DEF Rows, Found
  <2> QED BY <2>1, <2>2, <2>3, RowsGrow DEF LogsInv
<1>2. CASE InsertLog
  BY <1>2, InsertLogStep
<1>3. CASE \E id \in LogIds : CommitInsert(id) \/ InsertFails(id)
  BY <1>3, EndInsertStep
<1>4. CASE StartReading
  BY <1>4, StartReadingStep
<1>5. CASE ReadPage
  BY <1>5, ReadPageStep
<1> QED BY <1>1, <1>2, <1>3, <1>4, <1>5 DEF LogsNext

LEMMA LogsInvariant == LogsSpec => []LogsInv
BY LogsInvInit, LogsInvStep, PTL DEF LogsSpec

-----------------------------------------------------------------------------
(* A reader who pages through /admin/logs until a page is not full has     *)
(* seen every row that was committed when he began, whatever is inserted   *)
(* and committed, in any order, between his pages.                         *)
THEOREM PagesAreComplete == LogsSpec => []PagesMissNothing
<1>1. LogsInv => PagesMissNothing
  BY DEF LogsInv
<1> QED BY LogsInvariant, <1>1, PTL

(* He sees a row again at most as often as rows were added to what he      *)
(* searches since he began.                                                *)
THEOREM RepeatsAreBounded == LogsSpec => []RepeatsOnlyWhenAdded
<1>1. LogsInv => RepeatsOnlyWhenAdded
  BY DEF LogsInv
<1> QED BY LogsInvariant, <1>1, PTL

-----------------------------------------------------------------------------
(* sum[i] is the length of the first i characters of a text.               *)
UnitsFrom(text, sum) ==
  /\ sum \in [0..Len(text) -> Nat]
  /\ sum[0] = 0
  /\ \A i \in 1..Len(text) : sum[i] = sum[i - 1] + text[i]

(* FoldLeft adds up the characters from the first one on.                  *)
LEMMA UnitsChain ==
  ASSUME NEW text \in Seq({1, 2})
  PROVE  \E sum : UnitsFrom(text, sum) /\ Units(text) = sum[Len(text)]
<1> DEFINE n == Len(text)
           step == [i \in 1..n |-> [v \in Nat |-> v + text[i]]]
           V == Nat
           zero == 0
<1>1. n \in Nat /\ DOMAIN text = 1..n /\ \A i \in 1..n : text[i] \in Nat
  OBVIOUS
<1>2. zero \in V /\ step \in [1..n -> [V -> V]]
  BY <1>1
<1>3. PICK f \in [SUBSET (1..n) -> V] : Folds(f, n, V, zero, step)
  <2> HIDE DEF n, V, zero, step
  <2> QED BY <1>1, <1>2, FoldExists
<1> DEFINE Right(g) ==
      g = [T \in SUBSET (1..n) |-> IF T = {} THEN 0
                                   ELSE g[T \ {Max(T)}] + text[Max(T)]]
<1>4. \A T \in SUBSET (1..n) :
        T # {} => Max(T) \in 1..n /\ T \ {Max(T)} \in SUBSET (1..n)
  BY <1>1, MaxOfInterval
<1>5. \A i \in 1..n : \A v \in V : step[i][v] = v + text[i]
  OBVIOUS
<1>6. Right(f)
  <2>1. f[{}] = 0 /\ f = [T \in SUBSET (1..n) |-> f[T]]
    BY <1>3 DEF Folds
  <2>2. \A T \in SUBSET (1..n) :
          T # {} => f[T] = f[T \ {Max(T)}] + text[Max(T)]
    BY <1>3, <1>4, <1>5 DEF Folds
  <2> HIDE DEF n
  <2> QED BY <2>1, <2>2
<1> DEFINE iter == CHOOSE g : Right(g)
<1>7. Right(iter)
  <2> HIDE DEF Right
  <2> QED BY <1>6
<1>8. Units(text) = iter[1..n]
  BY <1>1 DEF Units, FoldLeft, MapThenFoldSet
<1>9. Folds(iter, n, V, zero, step)
  <2>1. {} \in SUBSET (1..n)
    OBVIOUS
  <2> HIDE DEF n, iter
  <2>2. /\ iter[{}] = 0
        /\ \A T \in SUBSET (1..n) :
             T # {} => iter[T] = iter[T \ {Max(T)}] + text[Max(T)]
    BY <1>7, <2>1
  <2> HIDE DEF step
  <2> QED BY <1>4, <1>5, <2>2 DEF Folds
<1>10. PICK sum : FoldedUp(sum, n, V, zero, step, iter[1..n])
  <2>1. n \in Nat
    BY <1>1
  <2> HIDE DEF n, V, zero, step, iter, Right
  <2>2. zero \in V /\ step \in [1..n -> [V -> V]] /\ Folds(iter, n, V, zero, step)
    BY <1>2, <1>9
  <2> QED BY <2>1, <2>2, FoldIsChain
<1>11. UnitsFrom(text, sum) /\ sum[n] = iter[1..n]
  <2>1. n \in Nat
    BY <1>1
  <2>2. sum \in [0..n -> V] /\ sum[0] = zero /\ sum[n] = iter[1..n]
    <3> HIDE DEF n, V, zero, step, iter
    <3> QED BY <1>10 DEF FoldedUp, Chain
  <2>3. \A i \in 1..n : sum[i] = sum[i - 1] + text[i]
    <3> HIDE DEF n, V, zero, step
    <3>1. \A i \in 1..n : sum[i] = step[i][sum[i - 1]]
      BY <1>10 DEF FoldedUp, Chain
    <3>2. \A i \in 1..n : i - 1 \in 0..n
      BY <2>1
    <3> QED BY <1>5, <2>2, <3>1, <3>2
  <2> QED BY <2>2, <2>3 DEF UnitsFrom
<1> QED BY <1>8, <1>11

(* The length of a prefix.                                                 *)
LEMMA UnitsOfPrefix ==
  ASSUME NEW text \in Seq({1, 2}), NEW sum, UnitsFrom(text, sum),
         NEW m \in 0..Len(text)
  PROVE  /\ SubSeq(text, 1, m) \in Seq({1, 2})
         /\ Len(SubSeq(text, 1, m)) = m
         /\ Units(SubSeq(text, 1, m)) = sum[m]
<1> DEFINE t == SubSeq(text, 1, m)
<1>1. /\ Len(text) \in Nat /\ m \in Nat /\ m <= Len(text)
      /\ \A i \in 1..m : text[i] \in {1, 2}
  OBVIOUS
<1>2. /\ t \in Seq({1, 2}) /\ Len(t) = m
      /\ \A i \in 1..m : t[i] = text[i]
  <2>1. /\ t \in Seq({1, 2}) /\ Len(t) = IF 1 <= m THEN m - 1 + 1 ELSE 0
        /\ \A i \in 1..(m - 1 + 1) : t[i] = text[1 + i - 1]
    <3>1. 1 \in Int /\ m \in Int
      BY <1>1
    <3> QED BY <1>1, <3>1, SubSeqProperties
  <2> QED BY <1>1, <2>1
<1> HIDE DEF t
<1>3. PICK part : UnitsFrom(t, part) /\ Units(t) = part[Len(t)]
  BY <1>2, UnitsChain
<1> DEFINE S == {i \in Nat : i <= m => part[i] = sum[i]}
<1>4. \A i \in Nat : i \in S
  <2>1. 0 \in S
    BY <1>3 DEF UnitsFrom
  <2>2. ASSUME NEW i \in Nat, i \in S
        PROVE  i + 1 \in S
    <3> SUFFICES ASSUME i + 1 <= m PROVE part[i + 1] = sum[i + 1]
      OBVIOUS
    <3> DEFINE j == i + 1
    <3>1. j \in 1..m /\ j \in 1..Len(t) /\ j \in 1..Len(text) /\ j - 1 = i
      BY <1>1, <1>2
    <3>2. part[i] = sum[i] /\ t[j] = text[j]
      BY <1>2, <2>2, <3>1
    <3> HIDE DEF j
    <3>3. part[j] = part[j - 1] + t[j] /\ sum[j] = sum[j - 1] + text[j]
      BY <1>3, <3>1 DEF UnitsFrom
    <3>4. part[j] = sum[j]
      BY <3>1, <3>2, <3>3
    <3> QED BY <3>4 DEF j
  <2> HIDE DEF S
  <2> QED BY <2>1, <2>2, SetInduction
<1>5. part[m] = sum[m]
  BY <1>1, <1>4
<1> QED BY <1>2, <1>3, <1>5 DEF t

(* The bytes of a character, and code[i], those of the first i characters. *)
Bytes == [place : Nat, of : Nat]

Character(c) == [i \in 1..2 * c |-> [place |-> i, of |-> 2 * c]]

CodeFrom(text, code) ==
  /\ code \in [0..Len(text) -> Seq(Bytes)]
  /\ code[0] = <<>>
  /\ \A i \in 1..Len(text) : code[i] = code[i - 1] \o Character(text[i])

LEMMA CharacterTyped ==
  ASSUME NEW c \in {1, 2}
  PROVE  /\ Character(c) \in Seq(Bytes)
         /\ Len(Character(c)) = 2 * c
         /\ \A i \in 1..2 * c : Character(c)[i] = [place |-> i, of |-> 2 * c]
<1> DEFINE m == 2 * c
<1>1. m \in Nat
  OBVIOUS
<1>2. \A i \in 1..m : [place |-> i, of |-> m] \in Bytes
  BY <1>1 DEF Bytes
<1>3. Character(c) = [i \in 1..m |-> [place |-> i, of |-> m]]
  BY DEF Character
<1> HIDE DEF m
<1>4. Character(c) \in [1..m -> Bytes]
  BY <1>2, <1>3
<1>5. Character(c) \in Seq(Bytes) /\ Len(Character(c)) = m
  BY <1>1, <1>4
<1> QED BY <1>3, <1>5 DEF m

(* Encode takes the characters from the first one on.                      *)
LEMMA CodeChain ==
  ASSUME NEW text \in Seq({1, 2})
  PROVE  \E code : CodeFrom(text, code) /\ Encode(text) = code[Len(text)]
<1> DEFINE n == Len(text)
           V == Seq(Bytes)
           zero == <<>>
           step == [i \in 1..n |-> [v \in V |-> v \o Character(text[i])]]
<1>1. n \in Nat /\ DOMAIN text = 1..n /\ \A i \in 1..n : text[i] \in {1, 2}
  OBVIOUS
<1>2. zero \in V /\ step \in [1..n -> [V -> V]]
  BY <1>1, CharacterTyped
<1>3. PICK f \in [SUBSET (1..n) -> V] : Folds(f, n, V, zero, step)
  <2> HIDE DEF n, V, zero, step
  <2> QED BY <1>1, <1>2, FoldExists
<1> DEFINE Right(g) ==
      g = [T \in SUBSET (1..n) |-> IF T = {} THEN zero
                                   ELSE g[T \ {Max(T)}] \o Character(text[Max(T)])]
<1>4. \A T \in SUBSET (1..n) :
        T # {} => Max(T) \in 1..n /\ T \ {Max(T)} \in SUBSET (1..n)
  BY <1>1, MaxOfInterval
<1>5. \A i \in 1..n : \A v \in V : step[i][v] = v \o Character(text[i])
  OBVIOUS
<1>6. Right(f)
  <2>1. f[{}] = zero /\ f = [T \in SUBSET (1..n) |-> f[T]]
    BY <1>3 DEF Folds
  <2>2. \A T \in SUBSET (1..n) :
          T # {} => f[T] = f[T \ {Max(T)}] \o Character(text[Max(T)])
    <3> HIDE DEF n, V, step
    <3> QED BY <1>3, <1>4, <1>5 DEF Folds
  <2> HIDE DEF n, zero
  <2> QED BY <2>1, <2>2
<1> DEFINE iter == CHOOSE g : Right(g)
<1>7. Right(iter)
  <2> HIDE DEF Right
  <2> QED BY <1>6
<1>8. Encode(text) = iter[1..n]
  BY <1>1 DEF Encode, FoldLeft, MapThenFoldSet, Character
<1>9. Folds(iter, n, V, zero, step)
  <2>1. {} \in SUBSET (1..n)
    OBVIOUS
  <2> HIDE DEF n, V, zero, iter
  <2>2. /\ iter[{}] = zero
        /\ \A T \in SUBSET (1..n) :
             T # {} => iter[T] = iter[T \ {Max(T)}] \o Character(text[Max(T)])
    BY <1>7, <2>1
  <2> HIDE DEF step
  <2> QED BY <1>4, <1>5, <2>2 DEF Folds
<1>10. PICK code : FoldedUp(code, n, V, zero, step, iter[1..n])
  <2>1. n \in Nat
    BY <1>1
  <2> HIDE DEF n, V, zero, step, iter, Right
  <2>2. zero \in V /\ step \in [1..n -> [V -> V]] /\ Folds(iter, n, V, zero, step)
    BY <1>2, <1>9
  <2> QED BY <2>1, <2>2, FoldIsChain
<1>11. CodeFrom(text, code) /\ code[n] = iter[1..n]
  <2>1. n \in Nat
    BY <1>1
  <2>2. code \in [0..n -> V] /\ code[0] = zero /\ code[n] = iter[1..n]
    <3> HIDE DEF n, V, zero, step, iter
    <3> QED BY <1>10 DEF FoldedUp, Chain
  <2>3. \A i \in 1..n : code[i] = code[i - 1] \o Character(text[i])
    <3> HIDE DEF n, V, zero, step
    <3>1. \A i \in 1..n : code[i] = step[i][code[i - 1]]
      BY <1>10 DEF FoldedUp, Chain
    <3>2. \A i \in 1..n : i - 1 \in 0..n
      BY <2>1
    <3> QED BY <1>5, <2>2, <3>1, <3>2
  <2> QED BY <2>2, <2>3 DEF CodeFrom
<1> QED BY <1>8, <1>11

(* got[i] is what is decoded of the first i bytes.                         *)
Decoded(text, b) == IF b.place = b.of THEN Append(text, b.of \div 2) ELSE text

DecodedFrom(bytes, got) ==
  /\ got \in [0..Len(bytes) -> Seq(Int)]
  /\ got[0] = <<>>
  /\ \A i \in 1..Len(bytes) : got[i] = Decoded(got[i - 1], bytes[i])

LEMMA DecodedChain ==
  ASSUME NEW bytes \in Seq(Bytes)
  PROVE  \E got : DecodedFrom(bytes, got) /\ DecodeIgnore(bytes) = got[Len(bytes)]
<1> DEFINE n == Len(bytes)
           V == Seq(Int)
           zero == <<>>
           step == [i \in 1..n |-> [v \in V |-> Decoded(v, bytes[i])]]
<1>1. n \in Nat /\ DOMAIN bytes = 1..n /\ \A i \in 1..n : bytes[i] \in Bytes
  OBVIOUS
<1>2. zero \in V /\ step \in [1..n -> [V -> V]]
  <2>1. ASSUME NEW v \in V, NEW b \in Bytes PROVE Decoded(v, b) \in V
    <3>1. b.of \in Int /\ b.of \div 2 \in Int
      BY DEF Bytes
    <3> QED BY <3>1 DEF Decoded
  <2> QED BY <1>1, <2>1
<1>3. PICK f \in [SUBSET (1..n) -> V] : Folds(f, n, V, zero, step)
  <2> HIDE DEF n, V, zero, step
  <2> QED BY <1>1, <1>2, FoldExists
<1> DEFINE Right(g) ==
      g = [T \in SUBSET (1..n) |-> IF T = {} THEN zero
                                   ELSE Decoded(g[T \ {Max(T)}], bytes[Max(T)])]
<1>4. \A T \in SUBSET (1..n) :
        T # {} => Max(T) \in 1..n /\ T \ {Max(T)} \in SUBSET (1..n)
  BY <1>1, MaxOfInterval
<1>5. \A i \in 1..n : \A v \in V : step[i][v] = Decoded(v, bytes[i])
  OBVIOUS
<1>6. Right(f)
  <2>1. f[{}] = zero /\ f = [T \in SUBSET (1..n) |-> f[T]]
    BY <1>3 DEF Folds
  <2>2. \A T \in SUBSET (1..n) :
          T # {} => f[T] = Decoded(f[T \ {Max(T)}], bytes[Max(T)])
    <3> HIDE DEF n, V, step
    <3> QED BY <1>3, <1>4, <1>5 DEF Folds
  <2> HIDE DEF n, zero
  <2> QED BY <2>1, <2>2
<1> DEFINE iter == CHOOSE g : Right(g)
<1>7. Right(iter)
  <2> HIDE DEF Right
  <2> QED BY <1>6
<1>8. DecodeIgnore(bytes) = iter[1..n]
  BY <1>1 DEF DecodeIgnore, FoldLeft, MapThenFoldSet, Decoded
<1>9. Folds(iter, n, V, zero, step)
  <2>1. {} \in SUBSET (1..n)
    OBVIOUS
  <2> HIDE DEF n, V, zero, iter
  <2>2. /\ iter[{}] = zero
        /\ \A T \in SUBSET (1..n) :
             T # {} => iter[T] = Decoded(iter[T \ {Max(T)}], bytes[Max(T)])
    BY <1>7, <2>1
  <2> HIDE DEF step
  <2> QED BY <1>4, <1>5, <2>2 DEF Folds
<1>10. PICK got : FoldedUp(got, n, V, zero, step, iter[1..n])
  <2>1. n \in Nat
    BY <1>1
  <2> HIDE DEF n, V, zero, step, iter, Right
  <2>2. zero \in V /\ step \in [1..n -> [V -> V]] /\ Folds(iter, n, V, zero, step)
    BY <1>2, <1>9
  <2> QED BY <2>1, <2>2, FoldIsChain
<1>11. DecodedFrom(bytes, got) /\ got[n] = iter[1..n]
  <2>1. n \in Nat
    BY <1>1
  <2>2. got \in [0..n -> V] /\ got[0] = zero /\ got[n] = iter[1..n]
    <3> HIDE DEF n, V, zero, step, iter
    <3> QED BY <1>10 DEF FoldedUp, Chain
  <2>3. \A i \in 1..n : got[i] = Decoded(got[i - 1], bytes[i])
    <3> HIDE DEF n, V, zero, step
    <3>1. \A i \in 1..n : got[i] = step[i][got[i - 1]]
      BY <1>10 DEF FoldedUp, Chain
    <3>2. \A i \in 1..n : i - 1 \in 0..n
      BY <2>1
    <3> QED BY <1>5, <2>2, <3>1, <3>2
  <2> QED BY <2>2, <2>3 DEF DecodedFrom
<1> QED BY <1>8, <1>11

(* A character takes room, so the sums grow.                               *)
LEMMA SumsGrow ==
  ASSUME NEW text \in Seq({1, 2}), NEW sum, UnitsFrom(text, sum)
  PROVE  \A i, j \in 0..Len(text) : i < j => sum[i] < sum[j]
<1> DEFINE n == Len(text)
<1>1. /\ n \in Nat /\ \A i \in 0..n : sum[i] \in Nat
      /\ \A i \in 1..n : text[i] \in {1, 2} /\ sum[i] = sum[i - 1] + text[i]
  BY DEF UnitsFrom
<1> HIDE DEF n
<1>2. ASSUME NEW i \in 0..n PROVE \A j \in 0..n : i < j => sum[i] < sum[j]
  <2> DEFINE S == {d \in Nat : i + d <= n => sum[i] + d <= sum[i + d]}
  <2>1. 0 \in S
    BY <1>1
  <2>2. ASSUME NEW d \in Nat, d \in S
        PROVE  d + 1 \in S
    <3> SUFFICES ASSUME i + (d + 1) <= n
                 PROVE  sum[i] + (d + 1) <= sum[i + (d + 1)]
      OBVIOUS
    <3>1. /\ i + (d + 1) \in 1..n /\ i + d \in 0..n
          /\ (i + (d + 1)) - 1 = i + d
      BY <1>1
    <3>2. sum[i + (d + 1)] = sum[i + d] + text[i + (d + 1)]
      BY <1>1, <3>1
    <3>3. sum[i] + d <= sum[i + d]
      BY <1>1, <2>2, <3>1
    <3>4. text[i + (d + 1)] \in {1, 2} /\ sum[i] \in Nat /\ sum[i + d] \in Nat
      BY <1>1, <3>1
    <3> QED BY <3>2, <3>3, <3>4
  <2>3. \A d \in Nat : d \in S
    <3> HIDE DEF S
    <3> QED BY <2>1, <2>2, SetInduction
  <2>4. ASSUME NEW j \in 0..n, i < j PROVE sum[i] < sum[j]
    <3>1. j - i \in Nat /\ i + (j - i) = j /\ j - i > 0
      BY <1>1, <2>4
    <3>2. sum[i] + (j - i) <= sum[j]
      BY <1>1, <2>3, <3>1
    <3> QED BY <1>1, <3>1, <3>2
  <2> QED BY <2>4
<1> QED BY <1>2 DEF n

(* What the two chains say of one character.                               *)
Chains(text, sum, code, n) ==
  /\ n \in Nat
  /\ sum[0] = 0 /\ code[0] = <<>>
  /\ \A i \in 0..n : sum[i] \in Nat
  /\ \A i \in 0..n : code[i] \in Seq(Bytes)
  /\ \A i \in 1..n : text[i] \in {1, 2} /\ i - 1 \in 0..n
  /\ \A i \in 1..n : sum[i] = sum[i - 1] + text[i]
  /\ \A i \in 1..n : code[i] = code[i - 1] \o Character(text[i])

LEMMA ChainFacts ==
  ASSUME NEW text \in Seq({1, 2}), NEW sum, UnitsFrom(text, sum),
         NEW code, CodeFrom(text, code)
  PROVE  Chains(text, sum, code, Len(text))
<1>1. Len(text) \in Nat /\ \A i \in 1..Len(text) : text[i] \in {1, 2}
  OBVIOUS
<1>2. \A i \in 1..Len(text) : i - 1 \in 0..Len(text)
  BY <1>1
<1>3. \A i \in 0..Len(text) : sum[i] \in Nat
  BY DEF UnitsFrom
<1>4. \A i \in 0..Len(text) : code[i] \in Seq(Bytes)
  BY DEF CodeFrom
<1> QED BY <1>1, <1>2, <1>3, <1>4 DEF UnitsFrom, CodeFrom, Chains

(* The elements of two sequences that are joined.                          *)
LEMMA Joined ==
  ASSUME NEW s \in Seq(Bytes), NEW t \in Seq(Bytes)
  PROVE  /\ Len(s \o t) = Len(s) + Len(t)
         /\ \A m \in 1..Len(s) : (s \o t)[m] = s[m]
         /\ \A m \in 1..Len(t) : (s \o t)[Len(s) + m] = t[m]
<1>1. Len(s) \in Nat /\ Len(t) \in Nat
  OBVIOUS
<1>2. /\ Len(s \o t) = Len(s) + Len(t)
      /\ \A m \in 1..(Len(s) + Len(t)) :
           (s \o t)[m] = IF m <= Len(s) THEN s[m] ELSE t[m - Len(s)]
  BY ConcatProperties
<1> DEFINE a == Len(s)
           b == Len(t)
           u == s \o t
<1> HIDE DEF a, b, u
<1>3. \A m \in 1..a : u[m] = s[m]
  BY <1>1, <1>2 DEF a, b, u
<1>4. ASSUME NEW m \in 1..b PROVE u[a + m] = t[m]
  <2>1. a + m \in 1..(a + b) /\ ~ (a + m <= a) /\ (a + m) - a = m
    BY <1>1 DEF a, b
  <2> QED BY <1>2, <2>1 DEF a, b, u
<1> QED BY <1>2, <1>3, <1>4 DEF a, b, u

(* Two bytes a unit.                                                       *)
LEMMA CodeLength ==
  ASSUME NEW text \in Seq({1, 2}), NEW sum, UnitsFrom(text, sum),
         NEW code, CodeFrom(text, code)
  PROVE  \A i \in 0..Len(text) : Len(code[i]) = 2 * sum[i]
<1> DEFINE n == Len(text)
           S == {i \in Nat : i <= n => Len(code[i]) = 2 * sum[i]}
<1>1. Chains(text, sum, code, n)
  BY ChainFacts
<1> HIDE DEF n
<1>2. 0 \in S
  BY <1>1 DEF Chains
<1>3. ASSUME NEW i \in Nat, i \in S
      PROVE  i + 1 \in S
  <2> SUFFICES ASSUME i + 1 <= n PROVE Len(code[i + 1]) = 2 * sum[i + 1]
    OBVIOUS
  <2> DEFINE j == i + 1
  <2>1. j \in 1..n /\ j - 1 = i /\ i \in 0..n
    BY <1>1 DEF Chains
  <2>2. Len(code[i]) = 2 * sum[i]
    BY <1>3, <2>1
  <2> HIDE DEF j, S
  <2>3. /\ text[j] \in {1, 2} /\ code[i] \in Seq(Bytes) /\ sum[i] \in Nat
        /\ code[j] = code[i] \o Character(text[j])
        /\ sum[j] = sum[i] + text[j]
    BY <1>1, <2>1 DEF Chains
  <2>4. Character(text[j]) \in Seq(Bytes) /\ Len(Character(text[j])) = 2 * text[j]
    BY <2>3, CharacterTyped
  <2>5. Len(code[j]) = Len(code[i]) + Len(Character(text[j]))
    <3> DEFINE s == code[i]
               t == Character(text[j])
    <3>1. s \in Seq(Bytes) /\ t \in Seq(Bytes) /\ code[j] = s \o t
      BY <2>3, <2>4
    <3> HIDE DEF s, t
    <3>2. Len(code[j]) = Len(s) + Len(t)
      BY <3>1, Joined
    <3> QED BY <3>2 DEF s, t
  <2>6. Len(code[j]) = 2 * sum[j]
    BY <2>2, <2>3, <2>4, <2>5
  <2> QED BY <2>6 DEF j
<1>4. \A i \in Nat : i \in S
  <2> HIDE DEF S
  <2> QED BY <1>2, <1>3, SetInduction
<1>5. \A i \in 0..n : Len(code[i]) = 2 * sum[i]
  BY <1>4
<1> QED BY <1>5 DEF n

(* Where the bytes of a character are.                                     *)
LEMMA CodeBytes ==
  ASSUME NEW text \in Seq({1, 2}), NEW sum, UnitsFrom(text, sum),
         NEW code, CodeFrom(text, code), NEW i \in 1..Len(text),
         NEW k \in 1..2 * text[i]
  PROVE  \A j \in i..Len(text) :
           code[j][2 * sum[i - 1] + k] = [place |-> k, of |-> 2 * text[i]]
<1> DEFINE n == Len(text)
           at == 2 * sum[i - 1] + k
           byte == [place |-> k, of |-> 2 * text[i]]
           S == {d \in Nat : i + d <= n =>
                   at \in 1..Len(code[i + d]) /\ code[i + d][at] = byte}
<1>1. Chains(text, sum, code, n) /\ i \in 1..n
  BY ChainFacts
<1>2. \A j \in 0..n : Len(code[j]) = 2 * sum[j]
  BY CodeLength
<1> HIDE DEF n
<1>3. /\ i - 1 \in 0..n /\ i \in 0..n /\ i + 0 = i /\ text[i] \in {1, 2}
      /\ sum[i - 1] \in Nat /\ code[i - 1] \in Seq(Bytes)
      /\ code[i] = code[i - 1] \o Character(text[i])
  <2>1. n \in Nat /\ i \in 0..n /\ i + 0 = i
    BY <1>1 DEF Chains
  <2> QED BY <1>1, <2>1 DEF Chains
<1>4. 0 \in S
  <2> DEFINE s == code[i - 1]
             t == Character(text[i])
  <2>1. t \in Seq(Bytes) /\ Len(t) = 2 * text[i] /\ t[k] = byte
    BY <1>3, CharacterTyped
  <2>2. s \in Seq(Bytes) /\ Len(s) = 2 * sum[i - 1] /\ code[i] = s \o t
    BY <1>2, <1>3
  <2> HIDE DEF s, t, byte
  <2>3. k \in 1..Len(t) /\ at = Len(s) + k
    BY <2>1, <2>2
  <2>4. Len(code[i]) = Len(s) + Len(t) /\ code[i][at] = t[k]
    BY <2>1, <2>2, <2>3, Joined
  <2>5. at \in 1..Len(code[i])
    <3>1. Len(s) \in Nat /\ Len(t) \in Nat
      BY <2>1, <2>2
    <3> HIDE DEF at
    <3> QED BY <2>3, <2>4, <3>1
  <2> HIDE DEF at
  <2> QED BY <1>3, <2>1, <2>4, <2>5
<1> HIDE DEF at, byte
<1>5. ASSUME NEW d \in Nat, d \in S
      PROVE  d + 1 \in S
  <2> SUFFICES ASSUME i + (d + 1) <= n
               PROVE  /\ at \in 1..Len(code[i + (d + 1)])
                      /\ code[i + (d + 1)][at] = byte
    OBVIOUS
  <2> DEFINE j == i + (d + 1)
             p == i + d
  <2>1. j \in 1..n /\ j - 1 = p /\ p \in 0..n /\ p <= n
    <3>1. n \in Nat
      BY <1>1 DEF Chains
    <3> QED BY <1>1, <3>1
  <2>2. at \in 1..Len(code[p]) /\ code[p][at] = byte
    BY <1>5, <2>1
  <2> HIDE DEF j, p, S
  <2>3. /\ code[p] \in Seq(Bytes) /\ text[j] \in {1, 2}
        /\ code[j] = code[p] \o Character(text[j])
    BY <1>1, <2>1 DEF Chains
  <2>4. Character(text[j]) \in Seq(Bytes)
    BY <2>3, CharacterTyped
  <2>5. /\ Len(code[j]) = Len(code[p]) + Len(Character(text[j]))
        /\ code[j][at] = code[p][at]
    <3> DEFINE s == code[p]
               t == Character(text[j])
    <3>1. /\ s \in Seq(Bytes) /\ t \in Seq(Bytes) /\ code[j] = s \o t
          /\ at \in 1..Len(s)
      BY <2>2, <2>3, <2>4
    <3> HIDE DEF s, t
    <3>2. Len(code[j]) = Len(s) + Len(t) /\ code[j][at] = s[at]
      BY <3>1, Joined
    <3> QED BY <3>2 DEF s, t
  <2>6. at \in 1..Len(code[j])
    <3> DEFINE a == Len(code[p])
               b == Len(Character(text[j]))
    <3>1. a \in Nat /\ b \in Nat /\ at \in 1..a /\ Len(code[j]) = a + b
      BY <2>2, <2>3, <2>4, <2>5
    <3> HIDE DEF a, b
    <3> QED BY <3>1
  <2> QED BY <2>2, <2>5, <2>6 DEF j
<1>6. \A d \in Nat : d \in S
  <2> HIDE DEF S
  <2> QED BY <1>4, <1>5, SetInduction
<1>7. ASSUME NEW j \in i..n
      PROVE  code[j][at] = byte
  <2>1. j - i \in Nat /\ i + (j - i) = j /\ j <= n
    BY <1>1 DEF Chains
  <2> QED BY <1>6, <2>1
<1> QED BY <1>7 DEF n, at, byte

(* The bytes of a slice give whole characters, and the last byte of the    *)
(* slice is before the end of the first one that is missing.               *)
LEMMA DecodedPrefix ==
  ASSUME NEW text \in Seq({1, 2}), NEW sum, UnitsFrom(text, sum),
         NEW code, CodeFrom(text, code),
         NEW size \in Nat, size < 2 * sum[Len(text)],
         NEW got, DecodedFrom(SubSeq(code[Len(text)], 1, size), got)
  PROVE  \E w \in 0..Len(text) :
           /\ w < Len(text) /\ got[size] = SubSeq(text, 1, w)
           /\ 2 * sum[w] <= size /\ size < 2 * sum[w + 1]
<1> DEFINE n == Len(text)
           cut == SubSeq(code[n], 1, size)
           Whole(m, w) == /\ w < n /\ got[m] = SubSeq(text, 1, w)
                          /\ 2 * sum[w] <= m /\ m < 2 * sum[w + 1]
           S == {m \in Nat : m <= size => \E w \in 0..n : Whole(m, w)}
<1>1. Chains(text, sum, code, n)
  BY ChainFacts
<1>2. \A i, j \in 0..n : i < j => sum[i] < sum[j]
  BY SumsGrow
<1>3. /\ Len(cut) = size
      /\ \A m \in 1..size : cut[m] = code[n][m]
  <2>1. n \in 0..n /\ code[n] \in Seq(Bytes) /\ Len(code[n]) = 2 * sum[n]
    BY <1>1, CodeLength DEF Chains
  <2>2. \A m \in 1..size : code[n][m] \in Bytes
    <3>1. sum[n] \in Nat
      BY <1>1, <2>1 DEF Chains
    <3>2. \A m \in 1..size : m \in 1..Len(code[n])
      BY <2>1, <3>1
    <3> DEFINE c == code[n]
    <3>3. c \in Seq(Bytes) /\ \A m \in 1..size : m \in 1..Len(c)
      BY <2>1, <3>2
    <3> HIDE DEF c
    <3>4. \A m \in 1..size : c[m] \in Bytes
      BY <3>3
    <3> QED BY <3>4 DEF c
  <2>3. /\ Len(cut) = IF 1 <= size THEN size - 1 + 1 ELSE 0
        /\ \A m \in 1..(size - 1 + 1) : cut[m] = code[n][1 + m - 1]
    <3>1. 1 \in Int /\ size \in Int
      OBVIOUS
    <3> HIDE DEF n
    <3> QED BY <2>2, <3>1, SubSeqProperties
  <2>4. size - 1 + 1 = size /\ \A m \in 1..size : 1 + m - 1 = m
    OBVIOUS
  <2> HIDE DEF cut, n
  <2> QED BY <2>3, <2>4
<1>4. /\ got[0] = <<>>
      /\ \A m \in 1..size : got[m] = Decoded(got[m - 1], cut[m])
  BY <1>3 DEF DecodedFrom
<1>5. \A i \in 1..n : \A k \in 1..2 * text[i] :
        code[n][2 * sum[i - 1] + k] = [place |-> k, of |-> 2 * text[i]]
  <2> SUFFICES ASSUME NEW i \in 1..n, NEW k \in 1..2 * text[i]
               PROVE  code[n][2 * sum[i - 1] + k] = [place |-> k, of |-> 2 * text[i]]
    OBVIOUS
  <2>1. n \in i..n
    BY <1>1 DEF Chains
  <2> QED BY <2>1, CodeBytes
<1>6. ASSUME NEW w \in Nat, w < n
      PROVE  SubSeq(text, 1, w + 1) = Append(SubSeq(text, 1, w), text[w + 1])
  <2>1. /\ 1 \in 1..(Len(text) + 1) /\ (w + 1) \in 1..Len(text)
        /\ (w + 1) - 1 = w
    BY <1>1, <1>6 DEF Chains
  <2> QED BY <2>1, SubSeqRecursiveSecond
<1>7. n \in Nat /\ \A i \in 0..n : sum[i] \in Nat
  BY <1>1 DEF Chains
<1>8. size < 2 * sum[n]
  OBVIOUS
<1>9. SubSeq(text, 1, 0) = <<>>
  BY SubSeqEmpty
<1> HIDE DEF n, cut
<1>10. 0 \in S
  <2>1. n # 0
    BY <1>1, <1>8 DEF Chains
  <2>2. 0 \in 0..n /\ 1 \in 0..n /\ 0 < 1 /\ 0 + 1 = 1
    BY <1>7, <2>1
  <2>3. sum[0] = 0 /\ sum[0] < sum[1] /\ sum[1] \in Nat
    BY <1>1, <1>2, <1>7, <2>2 DEF Chains
  <2>4. Whole(0, 0)
    BY <1>4, <1>7, <1>9, <2>1, <2>2, <2>3
  <2> QED BY <2>2, <2>4
<1>11. ASSUME NEW m \in Nat, m \in S
       PROVE  m + 1 \in S
  <2> SUFFICES ASSUME m + 1 <= size PROVE \E w \in 0..n : Whole(m + 1, w)
    OBVIOUS
  <2>1. PICK w \in 0..n : Whole(m, w)
    BY <1>11
  <2> DEFINE i == w + 1
             k == (m + 1) - 2 * sum[w]
  <2>2. i \in 1..n /\ i \in 0..n /\ i - 1 = w /\ w \in Nat /\ w < n
    BY <1>7, <2>1
  <2>3. /\ text[i] \in {1, 2} /\ sum[i] = sum[w] + text[i]
        /\ sum[w] \in Nat /\ sum[i] \in Nat
    <3> HIDE DEF i
    <3> QED BY <1>1, <1>7, <2>1, <2>2 DEF Chains
  <2>4. k \in 1..2 * text[i] /\ 2 * sum[w] + k = m + 1
    <3> DEFINE a == sum[w]
               b == text[i]
    <3>1. 2 * a <= m /\ m < 2 * sum[i]
      BY <2>1
    <3>2. a \in Nat /\ b \in Nat /\ sum[i] = a + b
      <4> HIDE DEF i
      <4> QED BY <2>3
    <3> HIDE DEF a, b
    <3>3. (m + 1) - 2 * a \in 1..2 * b /\ 2 * a + ((m + 1) - 2 * a) = m + 1
      BY <3>1, <3>2
    <3> QED BY <3>3 DEF a, b
  <2>5. got[m + 1] = Decoded(got[m], [place |-> k, of |-> 2 * text[i]])
    <3>1. code[n][m + 1] = [place |-> k, of |-> 2 * text[i]]
      <4> HIDE DEF i, k
      <4> QED BY <1>5, <2>2, <2>4
    <3>2. m + 1 \in 1..size /\ (m + 1) - 1 = m
      OBVIOUS
    <3> HIDE DEF i, k
    <3> QED BY <1>3, <1>4, <3>1, <3>2
  <2>6. CASE k # 2 * text[i]
    <3>1. got[m + 1] = got[m]
      BY <2>5, <2>6 DEF Decoded
    <3>2. 2 * sum[w] <= m + 1 /\ m + 1 < 2 * sum[w + 1]
      <4>1. k < 2 * text[i]
        <5> HIDE DEF i, k
        <5> QED BY <2>3, <2>4, <2>6
      <4>2. 2 * sum[w] <= m + 1 /\ m + 1 < 2 * sum[i]
        <5>1. k \in Nat
          <6> HIDE DEF i, k
          <6> QED BY <2>3, <2>4
        <5> HIDE DEF i, k
        <5> QED BY <2>3, <2>4, <4>1, <5>1
      <4> QED BY <4>2
    <3>3. Whole(m + 1, w)
      BY <2>1, <3>1, <3>2
    <3> QED BY <3>3
  <2>7. CASE k = 2 * text[i]
    <3>1. got[m + 1] = Append(got[m], text[i])
      <4>1. (2 * text[i]) \div 2 = text[i]
        <5> HIDE DEF i
        <5> QED BY <2>3
      <4> QED BY <2>5, <2>7, <4>1 DEF Decoded
    <3>2. got[m + 1] = SubSeq(text, 1, i)
      BY <1>6, <2>1, <2>2, <3>1
    <3>3. m + 1 = 2 * sum[i]
      <4> HIDE DEF i, k
      <4> QED BY <2>3, <2>4, <2>7
    <3> HIDE DEF i, k
    <3>4. i < n
      BY <1>7, <1>8, <2>2, <2>3, <3>3
    <3>5. i + 1 \in 0..n /\ i < i + 1
      BY <1>7, <2>2, <3>4
    <3>6. sum[i] < sum[i + 1] /\ sum[i + 1] \in Nat
      BY <1>2, <1>7, <2>2, <3>5
    <3>7. Whole(m + 1, i)
      BY <2>3, <3>2, <3>3, <3>4, <3>6
    <3> QED BY <2>2, <3>7
  <2> QED BY <2>6, <2>7
<1>12. \A m \in Nat : m \in S
  <2> HIDE DEF S
  <2> QED BY <1>10, <1>11, SetInduction
<1>13. \E w \in 0..n : Whole(size, w)
  BY <1>12
<1> QED BY <1>13 DEF n

(* The cut keeps the longest prefix that fits.                             *)
LEMMA ClampKeeps ==
  ASSUME NEW text \in Seq({1, 2}), NEW sum, UnitsFrom(text, sum),
         NEW units \in Nat
  PROVE  \E w \in 0..Len(text) :
           /\ Clamp(text, units) = SubSeq(text, 1, w)
           /\ sum[w] <= units
           /\ \A j \in (w + 1)..Len(text) : sum[j] > units
<1> DEFINE n == Len(text)
           size == 2 * units
           encoded == Encode(text)
<1>1. PICK code : CodeFrom(text, code) /\ encoded = code[n]
  BY CodeChain
<1>2. Chains(text, sum, code, n)
  BY <1>1, ChainFacts
<1>3. n \in Nat /\ n \in 0..n /\ \A i \in 0..n : sum[i] \in Nat
  BY <1>2 DEF Chains
<1>4. encoded \in Seq(Bytes) /\ Len(encoded) = 2 * sum[n]
  BY <1>1, <1>2, <1>3, CodeLength DEF Chains
<1>5. Clamp(text, units) = IF Len(encoded) <= size THEN text
                           ELSE DecodeIgnore(SubSeq(encoded, 1, size))
  BY DEF Clamp
<1>6. size \in Nat /\ \A s \in Nat : 2 * s <= size <=> s <= units
  OBVIOUS
<1> HIDE DEF encoded
<1>7. CASE Len(encoded) <= size
  <2>1. sum[n] <= units
    BY <1>3, <1>4, <1>6, <1>7
  <2>2. text = SubSeq(text, 1, n)
    BY SubSeqFull
  <2>3. (n + 1)..n = {}
    BY <1>3
  <2> QED BY <1>3, <1>5, <1>7, <2>1, <2>2, <2>3
<1>8. CASE ~ (Len(encoded) <= size)
  <2> DEFINE cut == SubSeq(encoded, 1, size)
  <2>1. size < 2 * sum[n]
    <3> HIDE DEF n, size
    <3> QED BY <1>3, <1>4, <1>6, <1>8
  <2>2. cut \in Seq(Bytes) /\ Len(cut) = size
    <3>1. \A m \in 1..size : encoded[m] \in Bytes
      <4>1. \A m \in 1..size : m \in 1..Len(encoded)
        <5> HIDE DEF n, size
        <5> QED BY <1>3, <1>4, <1>6, <2>1
      <4> QED BY <1>4, <4>1
    <3>2. 1 \in Int /\ size \in Int
      BY <1>6
    <3> HIDE DEF size
    <3>3. /\ cut \in Seq(Bytes)
          /\ Len(cut) = IF 1 <= size THEN size - 1 + 1 ELSE 0
      BY <3>1, <3>2, SubSeqProperties
    <3> HIDE DEF cut
    <3> QED BY <1>6, <3>3
  <2>3. PICK got : DecodedFrom(cut, got) /\ DecodeIgnore(cut) = got[size]
    <3> HIDE DEF cut
    <3> QED BY <2>2, DecodedChain
  <2>4. PICK w \in 0..n :
          /\ w < n /\ got[size] = SubSeq(text, 1, w)
          /\ 2 * sum[w] <= size /\ size < 2 * sum[w + 1]
    <3>1. DecodedFrom(SubSeq(code[n], 1, size), got)
      BY <1>1, <2>3
    <3> HIDE DEF size
    <3> QED BY <1>1, <1>6, <2>1, <3>1, DecodedPrefix
  <2>5. Clamp(text, units) = SubSeq(text, 1, w)
    BY <1>5, <1>8, <2>3, <2>4
  <2>6. sum[w] <= units /\ w + 1 \in 0..n /\ sum[w + 1] > units
    <3>1. w + 1 \in 0..n
      BY <1>3, <2>4
    <3>2. sum[w] \in Nat /\ sum[w + 1] \in Nat
      BY <1>3, <3>1
    <3> QED BY <2>4, <3>1, <3>2
  <2>7. ASSUME NEW j \in (w + 1)..n PROVE sum[j] > units
    <3>1. j \in 0..n /\ (j = w + 1 \/ w + 1 < j)
      BY <1>3, <2>4
    <3>2. w + 1 < j => sum[w + 1] < sum[j]
      BY <2>6, <3>1, SumsGrow
    <3>3. sum[j] \in Nat /\ sum[w + 1] \in Nat
      BY <1>3, <2>6, <3>1
    <3> QED BY <2>6, <3>1, <3>2, <3>3
  <2> QED BY <2>5, <2>6, <2>7
<1> QED BY <1>7, <1>8

-----------------------------------------------------------------------------
(* What ErrorFits says of the last message follows from its being cut.     *)
MessageCut ==
  /\ errorText.whole \in Seq({1, 2})
  /\ errorText.kept = Clamp(errorText.whole, MaxError)

NoneRejected == \A id \in LogIds : logs[id] # "rejected"

LEMMA CutFits ==
  ASSUME NEW text \in Seq({1, 2}), NEW kept, kept = Clamp(text, MaxError)
  PROVE  /\ Units(kept) <= MaxError
         /\ kept \in Prefixes(text)
         /\ \A longer \in Prefixes(text) :
              Len(longer) > Len(kept) => Units(longer) > MaxError
<1>1. PICK sum : UnitsFrom(text, sum) /\ Units(text) = sum[Len(text)]
  BY UnitsChain
<1>2. PICK w \in 0..Len(text) :
        /\ kept = SubSeq(text, 1, w)
        /\ sum[w] <= MaxError
        /\ \A j \in (w + 1)..Len(text) : sum[j] > MaxError
  BY <1>1, ClampKeeps, RequestLogsAssumption
<1>3. Len(kept) = w /\ Units(kept) = sum[w]
  BY <1>1, <1>2, UnitsOfPrefix
<1>4. ASSUME NEW longer \in Prefixes(text), Len(longer) > Len(kept)
      PROVE  Units(longer) > MaxError
  <2>1. PICK m \in 0..Len(text) : longer = SubSeq(text, 1, m)
    BY DEF Prefixes
  <2>2. Len(longer) = m /\ Units(longer) = sum[m]
    BY <1>1, <2>1, UnitsOfPrefix
  <2>3. m \in (w + 1)..Len(text)
    BY <1>3, <1>4, <2>2
  <2> QED BY <1>2, <2>2, <2>3
<1> QED BY <1>2, <1>3, <1>4 DEF Prefixes

LEMMA MessageStep ==
  LogsInv /\ NoneRejected /\ MessageCut /\ [LogsNext]_<<clock, logsVars>>
    => NoneRejected' /\ MessageCut'
<1> SUFFICES ASSUME LogsInv, NoneRejected, MessageCut,
                    [LogsNext]_<<clock, logsVars>>
             PROVE  NoneRejected' /\ MessageCut'
  OBVIOUS
<1> USE DEF LogsInv
<1>1. CASE InsertLog
  <2>1. PICK text \in Errors :
          /\ errorText' = [whole |-> text, kept |-> Clamp(text, MaxError)]
          /\ logs' = [logs EXCEPT ![lastLogId + 1] =
                        IF Units(errorText'.kept) <= MaxError
                        THEN "pending" ELSE "rejected"]
    BY <1>1 DEF InsertLog
  <2>2. /\ text \in Seq({1, 2})
        /\ errorText'.whole = text /\ errorText'.kept = Clamp(text, MaxError)
    BY <2>1, RequestLogsAssumption
  <2>3. Units(errorText'.kept) <= MaxError
    BY <2>2, CutFits
  <2>4. NoneRejected'
    BY <2>1, <2>3 DEF NoneRejected, LogsTypeOK
  <2> QED BY <2>2, <2>4 DEF MessageCut
<1>2. CASE \E id \in LogIds : CommitInsert(id) \/ InsertFails(id)
  BY <1>2 DEF CommitInsert, InsertFails, NoneRejected, MessageCut, LogsTypeOK
<1>3. CASE StartReading \/ ReadPage \/ LogsTick \/ UNCHANGED <<clock, logsVars>>
  <2>1. UNCHANGED <<logs, errorText>>
    BY <1>3 DEF StartReading, ReadPage, LogsTick, logsVars
  <2> QED BY <2>1 DEF NoneRejected, MessageCut
<1> QED BY <1>1, <1>2, <1>3 DEF LogsNext

(* Nothing is cut from an empty message.                                   *)
LEMMA EmptyCut == Clamp(<<>>, MaxError) = <<>>
<1>1. <<>> \in Seq({1, 2}) /\ Len(<<>>) = 0
  OBVIOUS
<1>2. PICK sum : UnitsFrom(<<>>, sum)
  BY <1>1, UnitsChain
<1>3. PICK w \in 0..0 : Clamp(<<>>, MaxError) = SubSeq(<<>>, 1, w)
  BY <1>1, <1>2, ClampKeeps, RequestLogsAssumption
<1> QED BY <1>3, SubSeqEmpty

(* A message of any length and any characters fits into its column, so no  *)
(* INSERT is ever rejected for it, and no more of it is cut than has to be: *)
(* _clamp_nvarchar keeps the longest prefix that fits.                     *)
THEOREM NoRowIsRejected == LogsSpec => []ErrorFits
<1>1. LogsInit => NoneRejected /\ MessageCut
  <2>1. <<>> \in Seq({1, 2})
    OBVIOUS
  <2> QED BY <2>1, EmptyCut DEF LogsInit, NoneRejected, MessageCut
<1>2. NoneRejected /\ MessageCut => ErrorFits
  BY CutFits DEF NoneRejected, MessageCut, ErrorFits
<1> QED BY <1>1, <1>2, LogsInvInit, LogsInvStep, MessageStep, PTL DEF LogsSpec

-----------------------------------------------------------------------------
(* The totals of a report: Total is a recursive function over the sets of   *)
(* rows, of which what follows holds by induction over them.               *)

(* sum[T] is the sum of a column over the rows T.                          *)
Pick(D) == [T \in SUBSET D |-> CHOOSE x \in T : TRUE]

SumOf(sum, rows, c) ==
  LET D == DOMAIN rows
  IN  /\ sum \in [SUBSET D -> Nat]
      /\ sum[{}] = 0
      /\ \A T \in SUBSET D :
           T # {} => sum[T] = rows[Pick(D)[T]][c] + sum[T \ {Pick(D)[T]}]

(* The element that Total adds first is one of the set.                    *)
LEMMA PickElement == \A D : Picks(Pick(D), D)
BY DEF Pick, Picks

(* The total of a column is such a sum.                                    *)
LEMMA TotalIsSum ==
  ASSUME NEW rows, IsFiniteSet(DOMAIN rows), NEW c,
         \A x \in DOMAIN rows : rows[x][c] \in Nat
  PROVE  \E sum : SumOf(sum, rows, c) /\ Total(rows, c) = sum[DOMAIN rows]
<1> DEFINE D == DOMAIN rows
           step == [x \in D |-> [v \in Nat |-> rows[x][c] + v]]
           V == Nat
           zero == 0
<1>1. Picks(Pick(D), D)
  BY PickElement
<1>2. zero \in V /\ step \in [D -> [V -> V]]
  OBVIOUS
<1>3. PICK f \in [SUBSET D -> V] : Descent(f, D, Pick(D), zero, step)
  <2>1. IsFiniteSet(D)
    OBVIOUS
  <2> HIDE DEF D, V, zero, step
  <2> QED BY <1>1, <1>2, <2>1, DescentExists
<1> DEFINE Right(g) ==
      g = [T \in SUBSET D |->
             IF T = {} THEN 0
             ELSE LET x == CHOOSE x \in T : TRUE
                  IN  rows[x][c] + g[T \ {x}]]
<1>4. ASSUME NEW T \in SUBSET D, T # {}
      PROVE  f[T] = rows[Pick(D)[T]][c] + f[T \ {Pick(D)[T]}]
  <2>1. Pick(D)[T] \in D /\ f[T \ {Pick(D)[T]}] \in Nat
    BY <1>1, <1>3, <1>4 DEF Picks
  <2>2. f[T] = step[Pick(D)[T]][f[T \ {Pick(D)[T]}]]
    BY <1>3, <1>4 DEF Descent
  <2> HIDE DEF D
  <2> QED BY <2>1, <2>2
<1>5. f[{}] = 0
  BY <1>3 DEF Descent
<1>6. \A T \in SUBSET D : Pick(D)[T] = CHOOSE x \in T : TRUE
  BY DEF Pick
<1>7. Right(f)
  <2>1. f = [T \in SUBSET D |-> f[T]]
    BY <1>3
  <2> HIDE DEF D
  <2>2. \A T \in SUBSET D :
          f[T] = IF T = {} THEN 0
                 ELSE LET x == CHOOSE x \in T : TRUE
                      IN  rows[x][c] + f[T \ {x}]
    BY <1>4, <1>5, <1>6
  <2> QED BY <2>1, <2>2
<1> DEFINE sum == CHOOSE g : Right(g)
<1>8. Right(sum)
  <2> HIDE DEF Right
  <2> QED BY <1>7
<1>9. Total(rows, c) = sum[D]
  BY DEF Total
<1> HIDE DEF sum
<1>10. /\ sum[{}] = 0
       /\ \A T \in SUBSET D :
            T # {} => sum[T] = rows[Pick(D)[T]][c] + sum[T \ {Pick(D)[T]}]
  <2>1. {} \in SUBSET D
    OBVIOUS
  <2> HIDE DEF D
  <2> QED BY <1>6, <1>8, <2>1
<1> DEFINE S == {T \in SUBSET D : sum[T] = f[T]}
<1>11. \A T \in SUBSET D : T \in S
  <2>1. {} \in S
    BY <1>5, <1>10
  <2>2. ASSUME NEW T \in SUBSET D, T # {}, T \ {Pick(D)[T]} \in S
        PROVE  T \in S
    BY <1>4, <1>10, <2>2
  <2>3. IsFiniteSet(D)
    OBVIOUS
  <2> HIDE DEF S, D
  <2>4. Inherited(S, D, Pick(D))
    BY <2>1, <2>2 DEF Inherited
  <2> QED BY <1>1, <2>3, <2>4, SubsetInduction
<1>12. sum \in [SUBSET D -> Nat]
  <2>1. \A T \in SUBSET D : sum[T] \in Nat
    BY <1>3, <1>11
  <2>2. sum = [T \in SUBSET D |-> sum[T]]
    BY <1>8
  <2> HIDE DEF D
  <2> QED BY <2>1, <2>2
<1> QED BY <1>9, <1>10, <1>12 DEF SumOf

(* Totals grow with the rows, and add up when every row adds up.           *)
LEMMA TotalGrows ==
  ASSUME NEW r, NEW q, IsFiniteSet(DOMAIN r), DOMAIN q = DOMAIN r, NEW c,
         \A x \in DOMAIN r : /\ r[x][c] \in Nat /\ q[x][c] \in Nat
                             /\ r[x][c] <= q[x][c]
  PROVE  /\ Total(r, c) \in Nat /\ Total(q, c) \in Nat
         /\ Total(r, c) <= Total(q, c)
<1> DEFINE D == DOMAIN r
<1>1. PICK f : SumOf(f, r, c) /\ Total(r, c) = f[D]
  BY TotalIsSum
<1>2. PICK g : SumOf(g, q, c) /\ Total(q, c) = g[D]
  BY TotalIsSum
<1> DEFINE S == {T \in SUBSET D : f[T] <= g[T]}
<1>3. IsFiniteSet(D) /\ DOMAIN q = D /\ DOMAIN r = D
  OBVIOUS
<1> HIDE DEF D
<1>4. \A T \in SUBSET D : f[T] \in Nat /\ g[T] \in Nat
  BY <1>1, <1>2, <1>3 DEF SumOf
<1>5. \A T \in SUBSET D : T \in S
  <2>1. {} \in S
    BY <1>1, <1>2, <1>3 DEF SumOf
  <2>2. ASSUME NEW T \in SUBSET D, T # {}, T \ {Pick(D)[T]} \in S
        PROVE  T \in S
    <3> DEFINE x == Pick(D)[T]
    <3>1. x \in D /\ T \ {x} \in SUBSET D
      BY <2>2, PickElement DEF Picks
    <3>2. f[T] = r[x][c] + f[T \ {x}] /\ g[T] = q[x][c] + g[T \ {x}]
      BY <1>1, <1>2, <1>3, <2>2 DEF SumOf
    <3>3. f[T \ {x}] <= g[T \ {x}]
      BY <2>2
    <3> HIDE DEF x
    <3>4. /\ r[x][c] \in Nat /\ q[x][c] \in Nat /\ r[x][c] <= q[x][c]
          /\ f[T \ {x}] \in Nat /\ g[T \ {x}] \in Nat
      BY <1>3, <1>4, <3>1
    <3> QED BY <3>2, <3>3, <3>4
  <2> HIDE DEF S
  <2>3. Inherited(S, D, Pick(D))
    BY <2>1, <2>2 DEF Inherited
  <2> QED BY <1>3, <2>3, PickElement, SubsetInduction
<1> QED BY <1>1, <1>2, <1>4, <1>5

(* And so do the sums of columns.                                          *)
LEMMA TotalAdds ==
  ASSUME NEW r, IsFiniteSet(DOMAIN r), NEW a, NEW b, NEW c,
         \A x \in DOMAIN r : /\ r[x][a] \in Nat /\ r[x][b] \in Nat
                             /\ r[x][c] = r[x][a] + r[x][b]
  PROVE  Total(r, c) = Total(r, a) + Total(r, b)
<1> DEFINE D == DOMAIN r
<1>1. PICK f : SumOf(f, r, a) /\ Total(r, a) = f[D]
  BY TotalIsSum
<1>2. PICK g : SumOf(g, r, b) /\ Total(r, b) = g[D]
  BY TotalIsSum
<1>3. PICK h : SumOf(h, r, c) /\ Total(r, c) = h[D]
  BY TotalIsSum
<1> DEFINE S == {T \in SUBSET D : h[T] = f[T] + g[T]}
<1>4. IsFiniteSet(D) /\ DOMAIN r = D
  OBVIOUS
<1> HIDE DEF D
<1>5. \A T \in SUBSET D : f[T] \in Nat /\ g[T] \in Nat /\ h[T] \in Nat
  BY <1>1, <1>2, <1>3, <1>4 DEF SumOf
<1>6. \A T \in SUBSET D : T \in S
  <2>1. {} \in S
    BY <1>1, <1>2, <1>3, <1>4 DEF SumOf
  <2>2. ASSUME NEW T \in SUBSET D, T # {}, T \ {Pick(D)[T]} \in S
        PROVE  T \in S
    <3> DEFINE x == Pick(D)[T]
    <3>1. x \in D /\ T \ {x} \in SUBSET D
      BY <2>2, PickElement DEF Picks
    <3>2. /\ f[T] = r[x][a] + f[T \ {x}] /\ g[T] = r[x][b] + g[T \ {x}]
          /\ h[T] = r[x][c] + h[T \ {x}]
      BY <1>1, <1>2, <1>3, <1>4, <2>2 DEF SumOf
    <3>3. h[T \ {x}] = f[T \ {x}] + g[T \ {x}]
      BY <2>2
    <3> HIDE DEF x
    <3>4. /\ r[x][a] \in Nat /\ r[x][b] \in Nat /\ r[x][c] = r[x][a] + r[x][b]
          /\ f[T \ {x}] \in Nat /\ g[T \ {x}] \in Nat
      BY <1>4, <1>5, <3>1
    <3> QED BY <3>2, <3>3, <3>4
  <2> HIDE DEF S
  <2>3. Inherited(S, D, Pick(D))
    BY <2>1, <2>2 DEF Inherited
  <2> QED BY <1>4, <2>3, PickElement, SubsetInduction
<1> QED BY <1>1, <1>2, <1>3, <1>5, <1>6

-----------------------------------------------------------------------------
(* A row of table ApiKeyUsage, and its columns.                            *)
RightRow(row) ==
  /\ \A c \in Columns : row[c] \in Nat
  /\ row.total = row.prompt + row.completion

(* No column of one row is above that of another.                          *)
UpTo(row, other) == \A c \in Columns : row[c] <= other[c]

Cells == ReportKeys \X ReportDays

RowsRight ==
  /\ today \in ReportDays
  /\ DOMAIN usageRows = Cells
  /\ \A kd \in Cells : RightRow(usageRows[kd])

Queries == [start : ReportDays, end : ReportDays,
            key : ReportKeys \cup {Everyone}]

(* What was read of the range of a query is right, and no more than what   *)
(* is there now.                                                           *)
ReadRight ==
  report.at \in {"reading", "answered"} =>
    /\ DOMAIN report = {"at", "query", "rows", "before", "after"}
    /\ report.query \in Queries
    /\ DOMAIN report.rows \subseteq QueryRange(report.query)
    /\ \A kd \in DOMAIN report.rows :
         RightRow(report.rows[kd]) /\ UpTo(report.rows[kd], usageRows[kd])

(* The rows that the query will have read if nothing changes.              *)
Prospect ==
  [kd \in QueryRange(report.query) |->
     IF kd \in DOMAIN report.rows THEN report.rows[kd] ELSE usageRows[kd]]

(* They have what the query had to find when it was asked.                 *)
NothingMissed ==
  report.at = "reading" =>
    \A c \in Columns :
      report.before[c] \in Nat /\ report.before[c] <= Total(Prospect, c)

ReportInv ==
  /\ RowsRight
  /\ report.at \in {"idle", "reading", "answered"}
  /\ ReadRight
  /\ NothingMissed
  /\ ReportIsCurrent

-----------------------------------------------------------------------------
(* A range has finitely many rows.                                         *)
LEMMA RangeFinite ==
  \A q : QueryRange(q) \subseteq Cells /\ IsFiniteSet(QueryRange(q))
<1>1. IsFiniteSet(ReportKeys) /\ IsFiniteSet(ReportDays)
  BY UsageReportAssumption, FS_Interval DEF ReportDays
<1>2. IsFiniteSet(Cells)
  BY <1>1, FS_Product DEF Cells
<1>3. \A q : QueryRange(q) \subseteq Cells
  BY DEF QueryRange, Cells
<1> QED BY <1>2, <1>3, FS_Subset

(* Consumed is the total of the rows of the range as they are now.         *)
LEMMA ConsumedIsTotal ==
  ASSUME NEW q, NEW c \in Columns
  PROVE  Consumed(q)[c] = Total([kd \in QueryRange(q) |-> usageRows[kd]], c)
<1>1. {kd \in ReportKeys \X ReportDays :
         /\ q.start <= kd[2]
         /\ kd[2] <= q.end
         /\ q.key \in {kd[1], Everyone}} = QueryRange(q)
  <2>1. \A kd \in ReportKeys \X ReportDays :
          /\ q.start <= kd[2] <=> kd[2] >= q.start
          /\ q.key \in {kd[1], Everyone} <=> q.key \in {Everyone, kd[1]}
    OBVIOUS
  <2> QED BY <2>1 DEF QueryRange
<1> QED BY <1>1 DEF Consumed, Summary

(* One step of the report at a time.                                       *)
LEMMA ReportInvInit == ReportInit => ReportInv
<1> SUFFICES ASSUME ReportInit PROVE ReportInv
  OBVIOUS
<1>1. report.at = "idle"
  BY DEF ReportInit
<1>2. RightRow(NoRow)
  BY DEF RightRow, NoRow, Columns
<1>3. RowsRight
  BY <1>2, UsageReportAssumption DEF ReportInit, RowsRight, ReportDays, Cells
<1> QED BY <1>1, <1>3 DEF ReportInv, ReadRight, NothingMissed, ReportIsCurrent

LEMMA AddUsageStep ==
  ASSUME ReportInv, NEW k \in ReportKeys, NEW prompt \in {0, 1},
         NEW completion \in {0, 1}, AddUsage(k, prompt, completion)
  PROVE  ReportInv'
<1> USE DEF ReportInv
<1> DEFINE new == <<k, today>>
           old == usageRows[new]
<1>1. new \in Cells /\ RightRow(old)
  BY DEF RowsRight, Cells
<1>2. /\ usageRows' = [usageRows EXCEPT ![new] =
           [prompt |-> old.prompt + prompt,
            completion |-> old.completion + completion,
            total |-> old.total + prompt + completion,
            requests |-> old.requests + 1]]
      /\ UNCHANGED <<today, report>>
  BY DEF AddUsage
<1>3. RightRow(usageRows'[new]) /\ UpTo(old, usageRows'[new])
  <2>1. usageRows'[new] = [prompt |-> old.prompt + prompt,
                           completion |-> old.completion + completion,
                           total |-> old.total + prompt + completion,
                           requests |-> old.requests + 1]
    BY <1>1, <1>2 DEF RowsRight
  <2>2. /\ old.prompt \in Nat /\ old.completion \in Nat /\ old.total \in Nat
        /\ old.requests \in Nat /\ old.total = old.prompt + old.completion
    BY <1>1 DEF RightRow, Columns
  <2> HIDE DEF old, new
  <2> QED BY <2>1, <2>2 DEF RightRow, UpTo, Columns
<1>4. /\ DOMAIN usageRows' = Cells
      /\ \A kd \in Cells : /\ RightRow(usageRows'[kd])
                           /\ UpTo(usageRows[kd], usageRows'[kd])
  <2>1. \A kd \in Cells : kd # new => usageRows'[kd] = usageRows[kd]
    BY <1>2 DEF RowsRight
  <2>2. \A kd \in Cells : RightRow(usageRows[kd]) /\ UpTo(usageRows[kd], usageRows[kd])
    BY DEF RowsRight, UpTo, RightRow
  <2>3. DOMAIN usageRows' = Cells
    BY <1>2 DEF RowsRight
  <2> HIDE DEF new
  <2> QED BY <1>3, <2>1, <2>2, <2>3 DEF old
<1>5. RowsRight'
  BY <1>2, <1>4 DEF RowsRight
<1>6. ReadRight'
  <2> SUFFICES ASSUME report.at \in {"reading", "answered"}
               PROVE  /\ DOMAIN report =
                           {"at", "query", "rows", "before", "after"}
                      /\ report.query \in Queries
                      /\ DOMAIN report.rows \subseteq QueryRange(report.query)
                      /\ \A kd \in DOMAIN report.rows :
                           /\ RightRow(report.rows[kd])
                           /\ UpTo(report.rows[kd], usageRows'[kd])
    BY <1>2 DEF ReadRight, QueryRange
  <2>1. /\ DOMAIN report = {"at", "query", "rows", "before", "after"}
        /\ report.query \in Queries
        /\ DOMAIN report.rows \subseteq QueryRange(report.query)
        /\ \A kd \in DOMAIN report.rows :
             /\ kd \in Cells
             /\ RightRow(report.rows[kd]) /\ UpTo(report.rows[kd], usageRows[kd])
    BY RangeFinite DEF ReadRight
  <2>2. ASSUME NEW kd \in DOMAIN report.rows
        PROVE  UpTo(report.rows[kd], usageRows'[kd])
    <3>1. /\ RightRow(report.rows[kd]) /\ UpTo(report.rows[kd], usageRows[kd])
          /\ RightRow(usageRows[kd]) /\ RightRow(usageRows'[kd])
          /\ UpTo(usageRows[kd], usageRows'[kd])
      BY <1>4, <2>1 DEF RowsRight
    <3> QED BY <3>1 DEF UpTo, RightRow
  <2> QED BY <2>1, <2>2
<1>7. NothingMissed'
  <2> SUFFICES ASSUME report.at = "reading", NEW c \in Columns
               PROVE  /\ report.before[c] \in Nat
                      /\ report.before[c] <= Total(Prospect', c)
    BY <1>2 DEF NothingMissed
  <2>1. /\ DOMAIN Prospect = QueryRange(report.query)
        /\ DOMAIN Prospect' = QueryRange(report.query)
        /\ IsFiniteSet(QueryRange(report.query))
    BY <1>2, RangeFinite DEF Prospect, QueryRange
  <2>2. ASSUME NEW kd \in QueryRange(report.query)
        PROVE  /\ Prospect[kd][c] \in Nat /\ Prospect'[kd][c] \in Nat
               /\ Prospect[kd][c] <= Prospect'[kd][c]
    <3>1. kd \in Cells
      BY RangeFinite
    <3>2. /\ Prospect[kd] = IF kd \in DOMAIN report.rows THEN report.rows[kd]
                            ELSE usageRows[kd]
          /\ Prospect'[kd] = IF kd \in DOMAIN report.rows THEN report.rows[kd]
                             ELSE usageRows'[kd]
      BY <1>2, <2>1 DEF Prospect
    <3>3. CASE kd \in DOMAIN report.rows
      BY <3>2, <3>3 DEF ReadRight, RightRow
    <3>4. CASE kd \notin DOMAIN report.rows
      BY <1>4, <3>1, <3>2, <3>4 DEF RowsRight, RightRow, UpTo
    <3> QED BY <3>3, <3>4
  <2>3. /\ Total(Prospect, c) \in Nat /\ Total(Prospect', c) \in Nat
        /\ Total(Prospect, c) <= Total(Prospect', c)
    BY <2>1, <2>2, TotalGrows
  <2>4. report.before[c] \in Nat /\ report.before[c] <= Total(Prospect, c)
    BY DEF NothingMissed
  <2> QED BY <2>3, <2>4
<1>8. ReportIsCurrent'
  BY <1>2 DEF ReportIsCurrent
<1> QED BY <1>2, <1>5, <1>6, <1>7, <1>8

LEMMA DayPassesStep == ReportInv /\ DayPasses => ReportInv'
<1> SUFFICES ASSUME ReportInv, DayPasses PROVE ReportInv'
  OBVIOUS
<1>1. /\ today < LastDay /\ today' = today + 1
      /\ usageRows' = usageRows /\ report' = report
  BY DEF DayPasses
<1>2. RowsRight'
  BY <1>1, UsageReportAssumption DEF ReportInv, RowsRight, ReportDays
<1>3. ReadRight' /\ ReportIsCurrent'
  BY <1>1 DEF ReportInv, ReadRight, ReportIsCurrent
<1>4. NothingMissed'
  BY <1>1 DEF ReportInv, NothingMissed, Prospect
<1> QED BY <1>1, <1>2, <1>3, <1>4 DEF ReportInv

(* When a query is asked it has read nothing, and will read what is there. *)
LEMMA AskUsageStep == ReportInv /\ AskUsage => ReportInv'
<1> SUFFICES ASSUME ReportInv, AskUsage PROVE ReportInv'
  OBVIOUS
<1>1. PICK start \in ReportDays, end \in ReportDays,
           key \in ReportKeys \cup {Everyone} :
        report' = [at |-> "reading",
                   query |-> [start |-> start, end |-> end, key |-> key],
                   rows |-> <<>>,
                   before |-> Consumed([start |-> start, end |-> end,
                                        key |-> key]),
                   after |-> NoRow]
  BY DEF AskUsage
<1> DEFINE q == [start |-> start, end |-> end, key |-> key]
<1>2. q \in Queries
  BY DEF Queries
<1> HIDE DEF q
<1>3. /\ report'.at = "reading" /\ report'.query = q /\ report'.rows = <<>>
      /\ report'.before = Consumed(q)
      /\ UNCHANGED <<today, usageRows>>
  BY <1>1 DEF q, AskUsage
<1>4. DOMAIN (report'.rows) = {}
  BY <1>3
<1>5. RowsRight'
  BY <1>3 DEF ReportInv, RowsRight
<1>6. ReadRight'
  <2>1. DOMAIN report' = {"at", "query", "rows", "before", "after"}
    BY <1>1
  <2> QED BY <2>1, <1>2, <1>3, <1>4 DEF ReadRight
<1>7. NothingMissed'
  <2>1. Prospect' = [kd \in QueryRange(q) |-> usageRows[kd]]
    <3>1. Prospect' = [kd \in QueryRange(report'.query) |->
                         IF kd \in DOMAIN (report'.rows)
                         THEN report'.rows[kd] ELSE usageRows'[kd]]
      BY DEF Prospect, QueryRange
    <3> QED BY <1>3, <1>4, <3>1
  <2> SUFFICES ASSUME NEW c \in Columns
               PROVE  /\ report'.before[c] \in Nat
                      /\ report'.before[c] <= Total(Prospect', c)
    BY DEF NothingMissed
  <2>2. report'.before[c] = Total(Prospect', c)
    BY <1>3, <2>1, ConsumedIsTotal
  <2>3. Total(Prospect', c) \in Nat
    <3> DEFINE r == [kd \in QueryRange(q) |-> usageRows[kd]]
    <3>1. DOMAIN r = QueryRange(q) /\ IsFiniteSet(DOMAIN r)
      BY RangeFinite
    <3>2. \A kd \in DOMAIN r : r[kd][c] \in Nat /\ r[kd][c] <= r[kd][c]
      <4> SUFFICES ASSUME NEW kd \in QueryRange(q)
                   PROVE  usageRows[kd][c] \in Nat
        BY <3>1
      <4>1. kd \in Cells
        BY RangeFinite
      <4> QED BY <4>1 DEF ReportInv, RowsRight, RightRow
    <3> HIDE DEF r
    <3>3. Total(r, c) \in Nat
      BY <3>1, <3>2, TotalGrows
    <3> QED BY <2>1, <3>3 DEF r
  <2> QED BY <2>2, <2>3
<1> QED BY <1>3, <1>5, <1>6, <1>7 DEF ReportInv, ReportIsCurrent

(* A row that is read is as it is now: what will be read does not change.  *)
LEMMA ReadRowStep == ReportInv /\ ReadRow => ReportInv'
<1> SUFFICES ASSUME ReportInv, ReadRow PROVE ReportInv'
  OBVIOUS
<1>1. PICK kd \in QueryRange(report.query) \ DOMAIN report.rows :
        report' = [report EXCEPT !.rows =
                     [x \in DOMAIN @ \cup {kd} |->
                        IF x = kd THEN usageRows[kd] ELSE @[x]]]
  BY DEF ReadRow
<1> DEFINE rows == [x \in DOMAIN report.rows \cup {kd} |->
                      IF x = kd THEN usageRows[kd] ELSE report.rows[x]]
<1>2. /\ report.at = "reading" /\ UNCHANGED <<today, usageRows>>
      /\ report' = [report EXCEPT !.rows = rows]
  BY <1>1 DEF ReadRow
<1> HIDE DEF rows
<1>3. /\ DOMAIN report = {"at", "query", "rows", "before", "after"}
      /\ report.query \in Queries
      /\ DOMAIN report.rows \subseteq QueryRange(report.query)
      /\ \A x \in DOMAIN report.rows :
           RightRow(report.rows[x]) /\ UpTo(report.rows[x], usageRows[x])
  BY <1>2 DEF ReportInv, ReadRight
<1>4. /\ report'.at = "reading" /\ report'.query = report.query
      /\ report'.before = report.before /\ report'.rows = rows
      /\ DOMAIN report' = {"at", "query", "rows", "before", "after"}
  BY <1>2, <1>3
<1>5. /\ DOMAIN rows = DOMAIN report.rows \cup {kd}
      /\ rows[kd] = usageRows[kd]
      /\ \A x \in DOMAIN report.rows : rows[x] = report.rows[x]
  BY DEF rows
<1>6. kd \in Cells
  BY RangeFinite
<1>7. RowsRight'
  BY <1>2 DEF ReportInv, RowsRight
<1>8. ReadRight'
  <2>1. RightRow(usageRows[kd]) /\ UpTo(usageRows[kd], usageRows[kd])
    BY <1>6 DEF ReportInv, RowsRight, RightRow, UpTo
  <2>2. \A x \in DOMAIN rows :
          RightRow(rows[x]) /\ UpTo(rows[x], usageRows[x])
    BY <1>3, <1>5, <2>1
  <2> QED BY <1>2, <1>3, <1>4, <1>5, <2>2 DEF ReadRight, QueryRange
<1>9. NothingMissed'
  <2>1. Prospect' = [x \in QueryRange(report.query) |->
                       IF x \in DOMAIN rows THEN rows[x] ELSE usageRows[x]]
    BY <1>2, <1>4 DEF Prospect, QueryRange
  <2>2. Prospect' = Prospect
    BY <1>5, <2>1 DEF Prospect
  <2> QED BY <1>2, <1>4, <2>2 DEF ReportInv, NothingMissed
<1> QED BY <1>2, <1>4, <1>7, <1>8, <1>9 DEF ReportInv, ReportIsCurrent

(* An answer has all the rows of its range, none above what it is now.     *)
LEMMA AnswerUsageStep == ReportInv /\ AnswerUsage => ReportInv'
<1> SUFFICES ASSUME ReportInv, AnswerUsage PROVE ReportInv'
  OBVIOUS
<1> DEFINE q == report.query
           r == report.rows
           now == [kd \in QueryRange(q) |-> usageRows[kd]]
<1>1. /\ report.at = "reading" /\ UNCHANGED <<today, usageRows>>
      /\ QueryRange(q) \subseteq DOMAIN r
      /\ report' = [report EXCEPT !.at = "answered", !.after = Consumed(q)]
  BY DEF AnswerUsage
<1>2. /\ DOMAIN report = {"at", "query", "rows", "before", "after"}
      /\ q \in Queries
      /\ DOMAIN r = QueryRange(q)
      /\ \A kd \in DOMAIN r :
           /\ kd \in Cells
           /\ RightRow(r[kd]) /\ UpTo(r[kd], usageRows[kd])
           /\ RightRow(usageRows[kd])
  BY <1>1, RangeFinite DEF ReportInv, ReadRight, RowsRight
<1>3. /\ report'.at = "answered" /\ report'.query = q /\ report'.rows = r
      /\ report'.before = report.before /\ report'.after = Consumed(q)
      /\ DOMAIN report' = {"at", "query", "rows", "before", "after"}
  BY <1>1, <1>2
<1>4. IsFiniteSet(DOMAIN r) /\ DOMAIN now = DOMAIN r
  BY <1>2, RangeFinite
<1>5. RowsRight'
  BY <1>1 DEF ReportInv, RowsRight
<1>6. ReadRight'
  BY <1>1, <1>2, <1>3 DEF ReadRight, QueryRange
<1>7. NothingMissed'
  BY <1>3 DEF NothingMissed
<1>8. ASSUME NEW c \in Columns
      PROVE  /\ report.before[c] <= Total(r, c)
             /\ Total(r, c) <= Consumed(q)[c]
  <2>1. \A kd \in DOMAIN r : Prospect[kd] = r[kd]
    BY <1>2 DEF Prospect
  <2>2. DOMAIN Prospect = DOMAIN r
    BY <1>2 DEF Prospect
  <2>3. \A kd \in DOMAIN r : /\ r[kd][c] \in Nat /\ now[kd][c] \in Nat
                             /\ r[kd][c] <= now[kd][c]
                             /\ Prospect[kd][c] = r[kd][c]
    BY <1>2, <2>1 DEF RightRow, UpTo
  <2>4. report.before[c] \in Nat /\ report.before[c] <= Total(Prospect, c)
    BY <1>1 DEF ReportInv, NothingMissed
  <2>5. Consumed(q)[c] = Total(now, c)
    BY ConsumedIsTotal
  <2> HIDE DEF r, now
  <2>6. Total(r, c) \in Nat /\ Total(now, c) \in Nat /\ Total(r, c) <= Total(now, c)
    BY <1>4, <2>3, TotalGrows
  <2>7. Total(Prospect, c) \in Nat /\ Total(Prospect, c) <= Total(r, c)
    BY <1>4, <2>2, <2>3, TotalGrows
  <2> QED BY <2>4, <2>5, <2>6, <2>7
<1>9. Total(r, "total") = Total(r, "prompt") + Total(r, "completion")
  <2>1. \A kd \in DOMAIN r :
          /\ r[kd]["prompt"] \in Nat /\ r[kd]["completion"] \in Nat
          /\ r[kd]["total"] = r[kd]["prompt"] + r[kd]["completion"]
    BY <1>2 DEF RightRow, Columns
  <2> HIDE DEF r
  <2> QED BY <1>4, <2>1, TotalAdds
<1>10. ReportIsCurrent'
  <2>1. \A c \in Columns : Summary(r)[c] = Total(r, c)
    BY DEF Summary
  <2>2. {"prompt", "completion", "total"} \subseteq Columns
    BY DEF Columns
  <2>3. Summary(report'.rows) = Summary(r)
    BY <1>3
  <2> HIDE DEF r
  <2>4. /\ \A c \in Columns : /\ report'.before[c] <= Summary(r)[c]
                              /\ Summary(r)[c] <= report'.after[c]
        /\ Summary(r).total = Summary(r).prompt + Summary(r).completion
    BY <1>3, <1>8, <1>9, <2>1, <2>2
  <2> QED BY <2>3, <2>4 DEF ReportIsCurrent
<1> QED BY <1>3, <1>5, <1>6, <1>7, <1>10 DEF ReportInv

(* ReportInv is an invariant.                                              *)
LEMMA ReportInvariant == ReportSpec => []ReportInv
<1>1. ReportInv /\ [ReportNext]_reportVars => ReportInv'
  <2> SUFFICES ASSUME ReportInv, [ReportNext]_reportVars PROVE ReportInv'
    OBVIOUS
  <2>1. CASE UNCHANGED reportVars
    BY <2>1 DEF ReportInv, reportVars, RowsRight, ReadRight, NothingMissed,
                Prospect, ReportIsCurrent
  <2>2. CASE \E k \in ReportKeys, prompt, completion \in {0, 1} :
               AddUsage(k, prompt, completion)
    BY <2>2, AddUsageStep
  <2> QED BY <2>1, <2>2, DayPassesStep, AskUsageStep, ReadRowStep,
             AnswerUsageStep DEF ReportNext
<1> QED BY <1>1, ReportInvInit, PTL DEF ReportSpec

(* Whatever the keys and the days: the totals of a report have all that    *)
(* was consumed when it was asked for and nothing that was not when it was *)
(* answered, and they add up.                                              *)
THEOREM ReportsAreCurrent == ReportSpec => []ReportIsCurrent
BY ReportInvariant, PTL DEF ReportInv

=============================================================================
