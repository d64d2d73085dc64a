------------------------------ MODULE SyncProofs ------------------------------
(***************************************************************************)
(* Proofs about sync, for every log, history, batch and number of rounds.   *)
(* What is said about room holds as long as the bytes written past what the *)
(* Codex sweep charged, since its last look, keep to the margin.           *)
(***************************************************************************)
EXTENDS Sync, FiniteSetTheorems, WellFoundedInduction, TLAPS

\* The maximum of a bounded, non-empty set of naturals is its largest element.
LEMMA MaxBounded ==
  ASSUME NEW n \in Nat, NEW S \in SUBSET (0..n), S # {}
  PROVE  Max(S) \in S /\ \A x \in S : x =< Max(S)
<1> DEFINE T == {n - x : x \in S}
           R == OpToRel(<, Nat)
<1>1. T \subseteq Nat /\ T # {}
  <2>1. PICK x \in S : TRUE
    OBVIOUS
  <2>2. n - x \in T
    BY <2>1
  <2>3. \A y \in S : n - y \in Nat
    OBVIOUS
  <2> QED BY <2>2, <2>3
<1>2. \E t \in T : \A y \in T : ~(<<y, t>> \in R)
  <2> HIDE DEF T
  <2> QED BY <1>1, NatLessThanWellFounded, WFMin
<1>3. PICK t \in T : \A y \in T : ~(y < t)
  BY <1>1, <1>2 DEF OpToRel
<1>4. PICK m \in S : t = n - m
  OBVIOUS
<1>5. \A x \in S : m >= x
  <2> TAKE x \in S
  <2>1. n - x \in T /\ ~(n - x < n - m)
    BY <1>3, <1>4
  <2> QED BY <2>1
<1>6. Max(S) \in S /\ \A x \in S : Max(S) >= x
  BY <1>5 DEF Max
<1> QED BY <1>6

-----------------------------------------------------------------------------
(* The log.                                                                 *)

\* The part of TypeOK that is about the log.
LogOK ==
  /\ wrote \in Seq(Entry)
  /\ cuts \in Seq(Nat \ {0}) /\ Len(cuts) \in 1..(Archives + 1)
  /\ \A j, k \in DOMAIN cuts : j < k => cuts[k] < cuts[j]
  /\ cuts[1] =< Len(wrote) /\ live \in 1..RotateAt
  /\ through \in 0..Len(wrote)
  /\ lost \subseteq 1..Len(wrote)

\* An event is of one byte at least and of MaxEvent bytes at most.
LEMMA SizeRange ==
  ASSUME NEW e \in Entry
  PROVE  Size(e) \in 1..MaxEvent
<1> USE LogAssumption, HistoryAssumption
<1>1. e.src \in Harnesses \cup {"hook"} /\ e.n \in Nat /\ (e.src = "hook" \/ e.n \in 1..N(e.src))
  BY DEF Entry
<1>2. CASE e.src = "hook"
  BY <1>2 DEF Size
<1>3. CASE e.src # "hook"
  <2>1. e.src \in Harnesses /\ e.n \in 1..Len(Sizes[e.src])
    BY <1>1, <1>3 DEF N
  <2>2. Sizes[e.src] \in Seq(1..MaxEvent)
    BY <2>1
  <2>3. Sizes[e.src][e.n] \in 1..MaxEvent
    BY <2>1, <2>2
  <2> QED BY <2>3, <1>3 DEF Size
<1> QED BY <1>2, <1>3

\* A rotation makes the live file archive .1, moves every archive down by one
\* and deletes the one past the last.
LEMMA Rotation ==
  ASSUME LogOK, NEW e, Append1(e), Rotates(Size(e))
  PROVE  /\ Len(cuts') = Min2(Len(cuts) + 1, Archives + 1) /\ cuts' \in Seq(Nat \ {0})
         /\ cuts'[1] = Len(wrote) + 1
         /\ \A k \in DOMAIN cuts' : k # 1 => k - 1 \in DOMAIN cuts /\ cuts'[k] = cuts[k - 1]
<1> USE LogAssumption
<1> DEFINE all == <<Len(wrote) + 1>> \o cuts
           top == Min2(Len(cuts) + 1, Archives + 1)
<1>1. Len(cuts) \in 1..(Archives + 1) /\ cuts \in Seq(Nat \ {0}) /\ Len(wrote) \in Nat
  BY DEF LogOK
<1>2. all \in Seq(Nat \ {0}) /\ Len(all) = Len(cuts) + 1
  BY <1>1
<1>3. all[1] = Len(wrote) + 1 /\ \A k \in 2..(Len(cuts) + 1) : all[k] = cuts[k - 1]
  BY <1>1
<1>4. cuts' = SubSeq(all, 1, top)
  BY DEF Append1
<1>5. /\ top \in 1..(Len(cuts) + 1) /\ top \in 1..Len(all)
      /\ top = Min2(Len(cuts) + 1, Archives + 1)
  BY <1>1, <1>2 DEF Min2
<1> HIDE DEF all, top
<1>6. cuts' \in Seq(Nat \ {0}) /\ Len(cuts') = top /\ \A k \in 1..top : cuts'[k] = all[k]
  BY <1>2, <1>4, <1>5
<1>7. cuts'[1] = Len(wrote) + 1
  BY <1>3, <1>5, <1>6
<1>8. ASSUME NEW k \in DOMAIN cuts', k # 1
      PROVE  k - 1 \in DOMAIN cuts /\ cuts'[k] = cuts[k - 1]
  <2>1. k \in 1..top
    BY <1>6
  <2>2. k \in 2..(Len(cuts) + 1) /\ cuts'[k] = all[k]
    BY <2>1, <1>1, <1>5, <1>6, <1>8
  <2> QED BY <2>2, <1>1, <1>3
<1> QED BY <1>5, <1>6, <1>7, <1>8

\* An append keeps the log well formed.
LEMMA AppendType ==
  ASSUME LogOK, NEW e \in Entry, Append1(e), through' = through
  PROVE  /\ LogOK' /\ wrote' = Append(wrote, e) /\ Len(wrote') = Len(wrote) + 1
         /\ \A i \in DOMAIN wrote : wrote'[i] = wrote[i]
         /\ wrote'[Len(wrote) + 1] = e
<1> USE LogAssumption
<1>1. /\ Len(cuts) \in 1..(Archives + 1) /\ cuts \in Seq(Nat \ {0}) /\ wrote \in Seq(Entry)
      /\ through \in 0..Len(wrote) /\ cuts[1] =< Len(wrote) /\ cuts[1] \in Nat /\ live \in 1..RotateAt
  BY DEF LogOK
<1>2. /\ wrote' = Append(wrote, e) /\ Len(wrote') = Len(wrote) + 1 /\ wrote' \in Seq(Entry)
      /\ \A i \in DOMAIN wrote : wrote'[i] = wrote[i]
      /\ wrote'[Len(wrote) + 1] = e
  BY <1>1 DEF Append1
<1>3. live' \in 1..RotateAt
  <2>1. Size(e) \in 1..MaxEvent
    BY SizeRange
  <2> QED BY <2>1, <1>1 DEF Append1, Grows, Rotates
<1>4. /\ cuts' \in Seq(Nat \ {0}) /\ Len(cuts') \in 1..(Archives + 1)
      /\ \A j, k \in DOMAIN cuts' : j < k => cuts'[k] < cuts'[j]
      /\ cuts'[1] =< Len(wrote')
      /\ Oldest(cuts) \in Nat \ {0} /\ Oldest(cuts') \in Nat /\ Oldest(cuts') =< Len(wrote) + 1
  <2>1. CASE ~Rotates(Size(e))
    <3>1. cuts' = cuts
      BY <2>1 DEF Append1
    <3>2. \A k \in DOMAIN cuts : cuts[k] \in Nat \ {0} /\ cuts[k] =< cuts[1]
      BY <1>1 DEF LogOK
    <3> QED BY <3>1, <3>2, <1>1, <1>2 DEF LogOK, Oldest
  <2>2. CASE Rotates(Size(e))
    <3>1. /\ Len(cuts') = Min2(Len(cuts) + 1, Archives + 1) /\ cuts' \in Seq(Nat \ {0})
          /\ cuts'[1] = Len(wrote) + 1
          /\ \A k \in DOMAIN cuts' : k # 1 => k - 1 \in DOMAIN cuts /\ cuts'[k] = cuts[k - 1]
      BY <2>2, Rotation
    <3>2. Len(cuts') \in 1..(Archives + 1)
      BY <3>1, <1>1 DEF Min2
    <3>3. \A k \in DOMAIN cuts : cuts[k] \in Nat \ {0} /\ cuts[k] =< Len(wrote)
      <4>1. \A k \in DOMAIN cuts : cuts[k] \in Nat \ {0} /\ cuts[k] =< cuts[1]
        BY <1>1 DEF LogOK
      <4> QED BY <4>1, <1>1
    <3>4. ASSUME NEW j \in DOMAIN cuts', NEW k \in DOMAIN cuts', j < k
          PROVE  cuts'[k] < cuts'[j]
      <4>1. j \in 1..Len(cuts') /\ k \in 1..Len(cuts') /\ k # 1
        BY <3>1, <3>2, <3>4
      <4>2. k - 1 \in DOMAIN cuts /\ cuts'[k] = cuts[k - 1]
        BY <3>1, <4>1
      <4>3. CASE j = 1
        BY <4>2, <4>3, <3>1, <3>3
      <4>4. CASE j # 1
        <5>1. j - 1 \in DOMAIN cuts /\ cuts'[j] = cuts[j - 1] /\ j - 1 < k - 1
          BY <4>1, <4>4, <3>1, <3>4
        <5> QED BY <5>1, <4>2 DEF LogOK
      <4> QED BY <4>3, <4>4
    <3>5. Oldest(cuts) \in Nat \ {0}
      BY <1>1, <3>3 DEF Oldest
    <3>6. Oldest(cuts') \in Nat /\ Oldest(cuts') =< Len(wrote) + 1
      <4> DEFINE k == Len(cuts')
      <4>1. k \in DOMAIN cuts' /\ Oldest(cuts') = cuts'[k]
        BY <3>1, <3>2 DEF Oldest
      <4> HIDE DEF k
      <4>2. CASE k = 1
        BY <4>1, <4>2, <3>1, <1>1
      <4>3. CASE k # 1
        <5>1. k - 1 \in DOMAIN cuts /\ cuts'[k] = cuts[k - 1]
          BY <4>1, <4>3, <3>1
        <5> QED BY <5>1, <4>1, <3>3, <1>1
      <4> QED BY <4>2, <4>3
    <3> QED BY <3>1, <3>2, <3>4, <3>5, <3>6, <1>2, <1>1
  <2> QED BY <2>1, <2>2
<1>5. lost' \subseteq 1..Len(wrote')
  <2>1. lost \subseteq 1..Len(wrote)
    BY DEF LogOK
  <2>2. lost' = lost \cup {i \in Oldest(cuts)..(Oldest(cuts') - 1) : i > through}
    BY DEF Append1
  <2>3. Len(wrote) \in Nat
    BY <1>1
  <2>4. \A i \in Oldest(cuts)..(Oldest(cuts') - 1) : i \in 1..Len(wrote')
    BY <2>3, <1>2, <1>4
  <2>5. \A i \in 1..Len(wrote) : i \in 1..Len(wrote')
    BY <2>3, <1>2
  <2> QED BY <2>1, <2>2, <2>4, <2>5
<1>6. through' \in 0..Len(wrote')
  BY <1>1, <1>2
<1> QED BY <1>2, <1>3, <1>4, <1>5, <1>6 DEF LogOK
-----------------------------------------------------------------------------
(* Room.                                                                    *)

\* The last entry of the file in place k.
FileEnd(w, c, k) == IF k = 1 THEN Len(w) ELSE c[k - 1] - 1

\* The place of the oldest file with undelivered data is a place of the log.
LEMMA OldestPlace ==
  ASSUME NEW U, U \subseteq 1..(Archives + 1)
  PROVE  /\ Max(U \cup {1}) \in 1..(Archives + 1) /\ Max(U \cup {1}) \in U \cup {1}
         /\ \A k \in U : k =< Max(U \cup {1})
<1> USE LogAssumption
<1> DEFINE S == U \cup {1}
<1>1. S \in SUBSET (0..(Archives + 1)) /\ S # {} /\ S \subseteq 1..(Archives + 1)
  OBVIOUS
<1>2. Max(S) \in S /\ \A x \in S : x =< Max(S)
  <2> HIDE DEF S
  <2>1. Archives + 1 \in Nat
    OBVIOUS
  <2> QED BY <2>1, <1>1, MaxBounded
<1> QED BY <1>1, <1>2

\* Which files hold undelivered data.
LEMMA UndeliveredFiles ==
  ASSUME LogOK
  PROVE  /\ Undelivered \subseteq 1..(Archives + 1)
         /\ \A k \in DOMAIN cuts : k \in Undelivered <=> /\ FileEnd(wrote, cuts, k) >= cuts[k]
                                  /\ FileEnd(wrote, cuts, k) > through
BY LogAssumption DEF LogOK, Undelivered, FileEnd

\* The same of the next state.
LEMMA UndeliveredFilesNext ==
  ASSUME LogOK'
  PROVE  /\ Undelivered' \subseteq 1..(Archives + 1) /\ Undelivered' \subseteq DOMAIN cuts'
         /\ \A k \in DOMAIN cuts' :
              k \in Undelivered' <=> /\ FileEnd(wrote', cuts', k) >= cuts'[k]
                                     /\ FileEnd(wrote', cuts', k) > through'
BY LogAssumption DEF LogOK, Undelivered, FileEnd

\* Room is what Capacity leaves beyond the margin.
LEMMA RoomIsCapacity ==
  ASSUME LogOK
  PROVE  /\ Capacity \in Nat /\ Room \in Nat
         /\ Room > 0 => Room = Capacity - Margin
<1> USE LogAssumption
<1>1. Behind \in 1..(Archives + 1)
  BY UndeliveredFiles, OldestPlace DEF Behind
<1>2. live \in 1..RotateAt
  BY DEF LogOK
<1> DEFINE n == Archives - (Behind - 1)
           m == RotateAt - MaxEvent
           r == (RotateAt - live) + n * RotateAt - n * MaxEvent - Margin
<1>3. n \in Nat /\ m \in Nat /\ n = Archives + 1 - Behind
  BY <1>1
<1>4. Room = IF r < 0 THEN 0 ELSE r
  BY DEF Room, Behind
<1>5. Capacity = (RotateAt - live) + n * m
  BY <1>3 DEF Capacity
<1> HIDE DEF n
<1>6. n * m = n * RotateAt - n * MaxEvent /\ n * m \in Nat
  BY <1>3
<1>7. n * RotateAt \in Nat /\ n * MaxEvent \in Nat
  BY <1>3
<1>8. r = Capacity - Margin /\ r \in Int /\ Capacity \in Nat
  BY <1>2, <1>5, <1>6, <1>7
<1> HIDE DEF r
<1> QED BY <1>4, <1>8

\* An append rotates out an entry that is not delivered only when the log has
\* no room for the event, and such an entry is in the last archive.
LEMMA AppendLoss ==
  ASSUME LogOK, NEW e \in Entry, Append1(e), through' = through, NEW i \in lost', i \notin lost
  PROVE  /\ Capacity < Size(e) /\ Rotates(Size(e)) /\ Len(cuts) = Archives + 1
         /\ i \in cuts[Archives + 1]..(cuts[Archives] - 1) /\ i \in DOMAIN wrote /\ i > through
<1> USE LogAssumption
<1>1. /\ Len(cuts) \in 1..(Archives + 1) /\ cuts \in Seq(Nat \ {0}) /\ wrote \in Seq(Entry)
      /\ through \in 0..Len(wrote) /\ cuts[1] =< Len(wrote) /\ live \in 1..RotateAt
      /\ \A j, k \in DOMAIN cuts : j < k => cuts[k] < cuts[j]
  BY DEF LogOK
<1>2. i \in Oldest(cuts)..(Oldest(cuts') - 1) /\ i > through
  BY DEF Append1
<1>3. Oldest(cuts) = cuts[Len(cuts)] /\ Oldest(cuts') = cuts'[Len(cuts')] /\ Oldest(cuts) \in Nat
  BY <1>1 DEF Oldest
<1>4. Rotates(Size(e))
  <2>1. CASE ~Rotates(Size(e))
    <3>1. cuts' = cuts
      BY <2>1 DEF Append1
    <3> QED BY <3>1, <1>2, <1>3
  <2> QED BY <2>1
<1>5. /\ Len(cuts') = Min2(Len(cuts) + 1, Archives + 1)
      /\ cuts'[1] = Len(wrote) + 1
      /\ \A k \in DOMAIN cuts' : k # 1 => k - 1 \in DOMAIN cuts /\ cuts'[k] = cuts[k - 1]
      /\ cuts' \in Seq(Nat \ {0})
  BY <1>4, Rotation
<1>6. Len(cuts) = Archives + 1
  <2>1. CASE Len(cuts) < Archives + 1
    <3>1. Len(cuts') = Len(cuts) + 1
      BY <2>1, <1>1, <1>5 DEF Min2
    <3>2. Len(cuts') \in DOMAIN cuts' /\ Len(cuts') # 1 /\ Len(cuts') - 1 = Len(cuts)
      BY <3>1, <1>1, <1>5
    <3>3. cuts'[Len(cuts')] = cuts[Len(cuts)]
      BY <3>2, <1>5
    <3> QED BY <3>3, <1>2, <1>3
  <2> QED BY <2>1, <1>1
<1>7. Len(cuts') = Archives + 1 /\ cuts'[Archives + 1] = cuts[Archives]
  <2>1. Len(cuts') = Archives + 1
    BY <1>1, <1>5, <1>6 DEF Min2
  <2>2. Archives + 1 \in DOMAIN cuts' /\ Archives + 1 # 1
    BY <2>1, <1>5
  <2>3. cuts'[Archives + 1] = cuts[(Archives + 1) - 1]
    BY <2>2, <1>5
  <2>4. (Archives + 1) - 1 = Archives
    OBVIOUS
  <2> QED BY <2>1, <2>3, <2>4
<1>8. i \in cuts[Archives + 1]..(cuts[Archives] - 1)
  BY <1>2, <1>3, <1>6, <1>7
<1>9. /\ Archives \in DOMAIN cuts /\ Archives + 1 \in DOMAIN cuts /\ 1 \in DOMAIN cuts
      /\ cuts[Archives] \in Nat \ {0} /\ cuts[Archives + 1] \in Nat \ {0} /\ cuts[1] \in Nat
  BY <1>1, <1>6
<1>10. cuts[Archives] =< cuts[1]
  BY <1>1, <1>9
<1>11. i \in DOMAIN wrote
  BY <1>1, <1>8, <1>9, <1>10
<1>12. Archives + 1 \in Undelivered
  <2> DEFINE last == FileEnd(wrote, cuts, Archives + 1)
  <2>1. last = cuts[Archives] - 1
    BY DEF FileEnd
  <2>2. last >= cuts[Archives + 1] /\ last > through
    BY <2>1, <1>1, <1>2, <1>8, <1>9
  <2> QED BY <2>2, <1>9, UndeliveredFiles
<1>13. Capacity < Size(e)
  <2>1. Undelivered \subseteq 1..(Archives + 1)
    BY UndeliveredFiles
  <2>2. Behind \in 1..(Archives + 1) /\ Archives + 1 =< Behind
    BY <2>1, <1>12, OldestPlace DEF Behind
  <2>3. Behind = Archives + 1
    BY <2>2
  <2>4. Archives + 1 - Behind = 0
    BY <2>3
  <2>5. Capacity = RotateAt - live
    BY <2>4, <1>1 DEF Capacity
  <2>6. Size(e) \in Nat /\ live + Size(e) > RotateAt
    BY <1>4, SizeRange DEF Rotates
  <2> QED BY <2>5, <2>6, <1>1
<1> QED BY <1>2, <1>4, <1>6, <1>8, <1>11, <1>13

\* The bytes that can be written when the live file has l and the oldest file
\* with undelivered data is in place b.
CapacityAt(l, b) == (RotateAt - l) + (Archives + 1 - b) * (RotateAt - MaxEvent)

\* A file that grows by s bytes, or a rotation because of s bytes, takes no more
\* than s bytes of it.
LEMMA CapacityMoves ==
  ASSUME NEW l \in 1..RotateAt, NEW b \in 1..(Archives + 1), NEW s \in 0..MaxEvent,
         NEW k \in 1..RotateAt, NEW c \in 1..(Archives + 1),
         \/ c =< b /\ k = l + s
         \/ c =< b + 1 /\ k = s /\ l + s > RotateAt
  PROVE  /\ CapacityAt(l, b) \in Nat /\ CapacityAt(k, c) \in Nat
         /\ CapacityAt(k, c) >= CapacityAt(l, b) - s
<1> USE LogAssumption
<1> DEFINE m == RotateAt - MaxEvent
           x == Archives + 1 - b
           y == Archives + 1 - c
<1>1. x \in Nat /\ y \in Nat /\ m \in Nat /\ m + MaxEvent = RotateAt
  OBVIOUS
<1>2. (c =< b => y >= x) /\ (c =< b + 1 => y >= x - 1)
  OBVIOUS
<1>3. CapacityAt(l, b) = (RotateAt - l) + x * m /\ CapacityAt(k, c) = (RotateAt - k) + y * m
  BY DEF CapacityAt
<1> HIDE DEF m, x, y
<1>4. x * m \in Nat /\ y * m \in Nat
  BY <1>1
<1>5. c =< b => y * m >= x * m
  BY <1>1, <1>2
<1>6. c =< b + 1 => y * m >= x * m - m
  <2>1. (x - 1) * m = x * m - m
    BY <1>1
  <2>2. c =< b + 1 => y * m >= (x - 1) * m
    BY <1>1, <1>2
  <2> QED BY <2>1, <2>2
<1> QED BY <1>1, <1>3, <1>4, <1>5, <1>6

\* An append uses up no more room than the bytes of its event.
LEMMA AppendCapacity ==
  ASSUME LogOK, NEW e \in Entry, Append1(e), through' = through
  PROVE  Capacity' >= Capacity - Size(e) /\ Capacity' \in Nat
<1> USE LogAssumption
<1>1. Size(e) \in 1..MaxEvent
  BY SizeRange
<1>2. /\ Len(cuts) \in 1..(Archives + 1) /\ cuts \in Seq(Nat \ {0}) /\ wrote \in Seq(Entry)
      /\ through \in 0..Len(wrote) /\ cuts[1] =< Len(wrote) /\ live \in 1..RotateAt
  BY DEF LogOK
<1>3. LogOK' /\ Len(wrote') = Len(wrote) + 1
  BY AppendType
<1>4. /\ Undelivered \subseteq 1..(Archives + 1) /\ Undelivered' \subseteq 1..(Archives + 1)
      /\ Undelivered' \subseteq DOMAIN cuts'
  BY <1>3, UndeliveredFiles, UndeliveredFilesNext
<1>5. PICK b \in 1..(Archives + 1) : b = Behind /\ \A k \in Undelivered : k =< b
  BY <1>4, OldestPlace DEF Behind
<1>6. PICK c \in 1..(Archives + 1) : c = Behind' /\ c \in Undelivered' \cup {1}
  BY <1>4, OldestPlace DEF Behind
<1>7. Capacity = CapacityAt(live, b) /\ Capacity' = CapacityAt(live', c)
  BY <1>5, <1>6 DEF Capacity, CapacityAt
<1>8. live' \in 1..RotateAt
  BY <1>3 DEF LogOK
<1>9. CASE ~Rotates(Size(e))
  <2>1. cuts' = cuts /\ live' = live + Size(e)
    BY <1>9, <1>1, <1>2 DEF Append1, Grows
  <2>2. c =< b
    <3>1. CASE c # 1
      <4>1. c \in Undelivered' /\ c \in DOMAIN cuts
        BY <3>1, <1>4, <1>6, <2>1
      <4>2. FileEnd(wrote', cuts', c) = FileEnd(wrote, cuts, c)
        BY <3>1, <2>1 DEF FileEnd
      <4>3. c \in Undelivered
        BY <4>1, <4>2, <2>1, <1>3, UndeliveredFiles, UndeliveredFilesNext
      <4> QED BY <4>3, <1>5
    <3> QED BY <3>1, <1>5
  <2> QED BY <2>1, <2>2, <1>1, <1>2, <1>7, <1>8, CapacityMoves
<1>10. CASE Rotates(Size(e))
  <2>1. live' = Size(e) /\ live + Size(e) > RotateAt
    BY <1>10 DEF Append1, Grows, Rotates
  <2>2. /\ cuts'[1] = Len(wrote) + 1 /\ cuts' \in Seq(Nat \ {0})
        /\ \A k \in DOMAIN cuts' : k # 1 => k - 1 \in DOMAIN cuts /\ cuts'[k] = cuts[k - 1]
    BY <1>10, Rotation
  <2>3. c =< b + 1
    <3>1. CASE c # 1
      <4>1. c \in Undelivered' /\ c \in DOMAIN cuts' /\ c \in 2..(Archives + 1)
        BY <3>1, <1>4, <1>6
      <4>2. c - 1 \in DOMAIN cuts /\ cuts'[c] = cuts[c - 1]
        BY <4>1, <2>2
      <4>3. FileEnd(wrote', cuts', c) = FileEnd(wrote, cuts, c - 1)
        <5>1. FileEnd(wrote', cuts', c) = cuts'[c - 1] - 1
          BY <4>1 DEF FileEnd
        <5>2. CASE c = 2
          BY <5>1, <5>2, <2>2, <1>2 DEF FileEnd
        <5>3. CASE c # 2
          <6>1. c - 1 \in DOMAIN cuts' /\ c - 1 # 1
            BY <4>1, <5>3, <2>2
          <6>2. cuts'[c - 1] = cuts[(c - 1) - 1]
            BY <6>1, <2>2
          <6> QED BY <5>1, <6>1, <6>2 DEF FileEnd
        <5> QED BY <5>2, <5>3
      <4>4. FileEnd(wrote', cuts', c) >= cuts'[c] /\ FileEnd(wrote', cuts', c) > through'
        BY <4>1, <1>3, UndeliveredFilesNext
      <4>5. c - 1 \in Undelivered
        BY <4>2, <4>3, <4>4, UndeliveredFiles
      <4> QED BY <4>5, <1>5
    <3> QED BY <3>1, <1>5
  <2> QED BY <2>1, <2>3, <1>1, <1>2, <1>7, <1>8, CapacityMoves
<1> QED BY <1>9, <1>10

\* When the checkpoints move on there is no less room than before.
LEMMA DeliverCapacity ==
  ASSUME LogOK, LogOK', UNCHANGED <<wrote, cuts, live>>, through' >= through
  PROVE  Capacity' >= Capacity /\ Capacity' \in Nat
<1> USE LogAssumption
<1>1. /\ live \in 1..RotateAt /\ live' = live + 0 /\ live' \in 1..RotateAt
      /\ through \in Nat /\ through' \in Nat
      /\ wrote \in Seq(Entry) /\ cuts \in Seq(Nat \ {0})
  BY DEF LogOK
<1>2. /\ Undelivered \subseteq 1..(Archives + 1) /\ Undelivered' \subseteq 1..(Archives + 1)
      /\ Undelivered' \subseteq DOMAIN cuts'
  BY UndeliveredFiles, UndeliveredFilesNext
<1>3. PICK b \in 1..(Archives + 1) : b = Behind /\ \A k \in Undelivered : k =< b
  BY <1>2, OldestPlace DEF Behind
<1>4. PICK c \in 1..(Archives + 1) : c = Behind' /\ c \in Undelivered' \cup {1}
  BY <1>2, OldestPlace DEF Behind
<1>5. c =< b
  <2>1. CASE c # 1
    <3>1. c \in Undelivered' /\ c \in DOMAIN cuts
      BY <2>1, <1>2, <1>4
    <3>2. FileEnd(wrote', cuts', c) = FileEnd(wrote, cuts, c)
      BY DEF FileEnd
    <3>3. FileEnd(wrote, cuts, c) \in Int
      BY <3>1, <2>1, <1>1, <1>4 DEF FileEnd
    <3>4. FileEnd(wrote, cuts, c) >= cuts[c] /\ FileEnd(wrote, cuts, c) > through'
      BY <3>1, <3>2, UndeliveredFilesNext
    <3>5. FileEnd(wrote, cuts, c) > through
      BY <3>3, <3>4, <1>1
    <3> QED BY <3>1, <3>4, <3>5, <1>3, UndeliveredFiles
  <2> QED BY <2>1, <1>3
<1>6. Capacity = CapacityAt(live, b) /\ Capacity' = CapacityAt(live', c)
  BY <1>3, <1>4 DEF Capacity, CapacityAt
<1>7. CapacityAt(live', c) >= CapacityAt(live, b) - 0 /\ CapacityAt(live', c) \in Nat /\ CapacityAt(live, b) \in Nat
  <2>1. 0 \in 0..MaxEvent
    OBVIOUS
  <2> QED BY <2>1, <1>1, <1>5, CapacityMoves
<1> QED BY <1>6, <1>7

-----------------------------------------------------------------------------
(* Type correctness.                                                        *)

\* The part of TypeOK that is about the forwarder and sync.
RestOK ==
  /\ primed \in BOOLEAN /\ service \in BOOLEAN
  /\ fwd \in [pc : {"idle", "post"}, seen : Nat, upto : Nat] /\ fwd.upto =< Len(wrote)
  /\ fwd.pc = "post" => primed /\ through =< fwd.upto /\ (service \/ pc = "drain")
  /\ status \in [lag : BOOLEAN, fresh : BOOLEAN]
  /\ pc \in {"off", "claude", "codex", "drain", "ended", "failed"}
  /\ round \in 0..MaxRounds /\ limited \in BOOLEAN /\ (pc = "drain" => round < MaxRounds)
  /\ saved \in [Harnesses -> Nat] /\ \A h \in Harnesses : saved[h] =< N(h)
  /\ next \in Nat \ {0} /\ start \in 0..Len(wrote) /\ began \in start..Len(wrote)
  /\ left \in Nat \cup {-1}
  /\ over \in Nat /\ faults \in 0..MaxFaults

LEMMA TypeParts == TypeOK <=> LogOK /\ RestOK
BY DEF TypeOK, LogOK, RestOK

LEMMA TypePartsNext == TypeOK' <=> LogOK' /\ RestOK'
BY DEF TypeOK, LogOK, RestOK

\* The events of a harness.
LEMMA EventType ==
  /\ \A h \in Harnesses : N(h) \in Nat
  /\ \A h \in Harnesses : \A n \in 1..N(h) : [src |-> h, n |-> n] \in Entry
  /\ [src |-> "hook", n |-> 0] \in Entry
<1>1. ASSUME NEW h \in Harnesses
      PROVE  N(h) \in Nat
  BY HistoryAssumption DEF N
<1>2. ASSUME NEW h \in Harnesses, NEW n \in 1..N(h)
      PROVE  [src |-> h, n |-> n] \in Entry
  BY <1>1 DEF Entry
<1>3. [src |-> "hook", n |-> 0] \in Entry
  BY DEF Entry
<1> QED BY <1>1, <1>2, <1>3

\* The bytes of the next event of a sweep.
LEMMA EventSize ==
  ASSUME NEW h \in Harnesses, NEW n \in 1..N(h)
  PROVE  /\ Size([src |-> h, n |-> n]) = Sizes[h][n]
         /\ Sizes[h][n] \in 1..MaxEvent
<1>1. Size([src |-> h, n |-> n]) = Sizes[h][n]
  BY DEF Size, Harnesses, Claude, Codex
<1>2. Size([src |-> h, n |-> n]) \in 1..MaxEvent
  BY EventType, SizeRange
<1> QED BY <1>1, <1>2

\* What the Codex sweep takes its next event for, and what the writer adds to it.
LEMMA ChargeType ==
  ASSUME NEW n \in 1..N(Codex)
  PROVE  /\ Charged[n] \in 1..MaxEvent /\ Extra(n) \in Nat
         /\ Sizes[Codex][n] =< Charged[n] + Extra(n)
<1>1. Charged[n] \in 1..MaxEvent
  <2>1. n \in 1..Len(Charged) /\ Charged \in Seq(1..MaxEvent)
    BY ChargedAssumption DEF N
  <2>2. ASSUME NEW S, NEW q \in Seq(S), NEW k \in 1..Len(q)
        PROVE  q[k] \in S
    BY <2>2
  <2> QED BY <2>1, <2>2
<1>2. Sizes[Codex][n] \in 1..MaxEvent
  BY EventSize DEF Harnesses
<1> QED BY <1>1, <1>2, LogAssumption DEF Extra

\* The cursor of a limited sweep: the one before, or one of the events written.
LEMMA PartialRange ==
  ASSUME RestOK, NEW h \in Harnesses, next =< N(h)
  PROVE  /\ Partial(h, next) \in Nat /\ Partial(h, next) =< N(h)
         /\ Partial(h, next) = saved[h] \/ Partial(h, next) < next
<1> DEFINE S == {saved[h]} \cup {i \in 1..(next - 1) : Line[h][i] # Line[h][next] /\ Line[h][i + 1] # Line[h][i]}
<1>1. N(h) \in Nat /\ saved[h] \in Nat /\ saved[h] =< N(h) /\ next \in Nat \ {0}
  BY EventType DEF RestOK
<1>2. S \in SUBSET (0..N(h)) /\ S # {}
  BY <1>1
<1>3. Max(S) \in S
  <2> HIDE DEF S
  <2> QED BY <1>1, <1>2, MaxBounded
<1>4. Partial(h, next) = Max(S)
  BY DEF Partial
<1>5. \A x \in S : x \in Nat /\ x =< N(h) /\ (x = saved[h] \/ x < next)
  BY <1>1
<1> HIDE DEF S
<1> QED BY <1>3, <1>4, <1>5

\* What the end of a sweep leaves in the cursor file.
LEMMA SweepSaves ==
  ASSUME RestOK, NEW h \in Harnesses, NEW noRoom, SweepEnds(h, noRoom)
  PROVE  /\ saved' \in [Harnesses -> Nat] /\ \A g \in Harnesses : saved'[g] =< N(g)
         /\ \A g \in Harnesses : g # h => saved'[g] = saved[g]
         /\ saved'[h] = saved[h] \/ saved'[h] < next
         /\ limited' \in BOOLEAN /\ faults' \in 0..MaxFaults
<1> USE EventType, BoundsAssumption
<1>1. /\ saved \in [Harnesses -> Nat] /\ \A g \in Harnesses : saved[g] =< N(g)
      /\ next \in Nat \ {0} /\ limited \in BOOLEAN /\ faults \in 0..MaxFaults /\ N(h) \in Nat
  BY DEF RestOK
<1>2. limited' \in BOOLEAN /\ faults' \in 0..MaxFaults
  <2>1. limited' \in BOOLEAN
    BY <1>1 DEF SweepEnds
  <2>2. faults' \in 0..MaxFaults
    BY <1>1 DEF SweepEnds, Fault
  <2> QED BY <2>1, <2>2
<1>3. CASE saved' = saved
  BY <1>1, <1>2, <1>3
<1>4. CASE saved' # saved
  <2>1. PICK to \in Nat : Saves(h, to) /\ to =< N(h) /\ (to = saved[h] \/ to < next)
    <3>1. CASE next > N(h)
      <4>1. Saves(h, N(h))
        BY <3>1, <1>1, <1>4 DEF SweepEnds, Full
      <4> QED BY <4>1, <3>1, <1>1
    <3>2. CASE next =< N(h)
      <4>1. Saves(h, Partial(h, next))
        BY <3>2, <1>1, <1>4 DEF SweepEnds, Full
      <4> QED BY <4>1, <3>2, PartialRange
    <3> QED BY <3>1, <3>2, <1>1
  <2>2. saved' = [saved EXCEPT ![h] = to]
    BY <2>1 DEF Saves
  <2>3. saved' \in [Harnesses -> Nat] /\ saved'[h] = to /\ \A g \in Harnesses : g # h => saved'[g] = saved[g]
    BY <2>2, <1>1
  <2> QED BY <2>1, <2>3, <1>1, <1>2
<1> QED BY <1>3, <1>4

\* First is past what the checkpoints pass, and past the log only when they pass
\* all of it.
LEMMA FirstRange ==
  ASSUME LogOK
  PROVE  /\ First \in Nat /\ First > through
         /\ First > Len(wrote) <=> through = Len(wrote)
<1> USE LogAssumption
<1>1. /\ Len(cuts) \in 1..(Archives + 1) /\ cuts \in Seq(Nat \ {0}) /\ wrote \in Seq(Entry)
      /\ through \in 0..Len(wrote) /\ cuts[1] =< Len(wrote)
      /\ \A j, k \in DOMAIN cuts : j < k => cuts[k] < cuts[j]
  BY DEF LogOK
<1>2. 1 \in DOMAIN cuts /\ Len(cuts) \in DOMAIN cuts
  BY <1>1
<1>3. Oldest(cuts) \in Nat /\ Oldest(cuts) =< Len(wrote)
  BY <1>1, <1>2 DEF Oldest
<1> QED BY <1>1, <1>3 DEF First

\* The budget of the Codex sweep is a number of bytes.
LEMMA BudgetType ==
  ASSUME TypeOK
  PROVE  Budget \in Nat
<1>1. Room \in Nat /\ left \in Nat \cup {-1}
  BY TypeParts, RoomIsCapacity DEF RestOK
<1>2. CASE next =< N(Codex) /\ left >= Charged[next]
  <2>1. next \in 1..N(Codex)
    BY <1>2, TypeParts, EventType DEF RestOK, Harnesses
  <2>2. Charged[next] \in 1..MaxEvent
    BY <2>1, ChargeType
  <2>3. left \in Nat
    BY <1>1, <1>2, <2>2, LogAssumption
  <2> QED BY <2>3, <1>2 DEF Budget, Asks
<1>3. CASE ~(next =< N(Codex) /\ left >= Charged[next])
  BY <1>1, <1>3 DEF Budget, Asks
<1> QED BY <1>2, <1>3

\* Every step keeps the types.
LEMMA TypeStep ==
  ASSUME TypeOK, [Next]_vars
  PROVE  TypeOK'
<1> USE LogAssumption, BoundsAssumption DEF Harnesses, Claude, Codex
<1>1. LogOK /\ RestOK
  BY TypeParts
<1>2. wrote \in Seq(Entry) /\ Len(wrote) \in Nat /\ through \in 0..Len(wrote)
  BY <1>1 DEF LogOK
<1>3. UNCHANGED <<wrote, cuts, live, lost>> /\ through' \in 0..Len(wrote) => LogOK'
  BY <1>1 DEF LogOK
<1>4. /\ N("claude") \in Nat /\ N("codex") \in Nat
      /\ saved["claude"] \in Nat /\ saved["codex"] \in Nat
  BY <1>1, EventType DEF RestOK
<1>5. CASE Begin
  <2>1. LogOK'
    BY <1>2, <1>3, <1>5 DEF Begin, logVars
  <2>2. fwd'.pc = "post" => primed' /\ through' =< fwd'.upto /\ service'
    BY <1>1, <1>5 DEF Begin, RestOK
  <2>3. /\ round' \in 0..MaxRounds /\ next' \in Nat \ {0} /\ pc' = "claude"
        /\ start' \in 0..Len(wrote') /\ began' \in start'..Len(wrote')
    BY <1>2, <1>4, <1>5 DEF Begin
  <2>4. over' \in Nat
    BY <1>5 DEF Begin
  <2>5. /\ wrote' = wrote /\ fwd' = fwd /\ status' = status /\ service' = service /\ saved' = saved
        /\ left' = left /\ faults' = faults /\ primed' = TRUE /\ limited' = FALSE
    BY <1>5 DEF Begin
  <2>6. RestOK'
    BY <2>2, <2>3, <2>4, <2>5, <1>1 DEF RestOK
  <2> QED BY <2>1, <2>6, TypePartsNext
<1>6. ASSUME NEW h \in Harnesses, Sweeps(h), UNCHANGED through
      PROVE  LogOK' /\ Len(wrote') = Len(wrote) + 1 /\ next' \in Nat \ {0}
  <2>1. next \in 1..N(h)
    BY <1>1, <1>4, <1>6 DEF Sweeps, RestOK
  <2>2. [src |-> h, n |-> next] \in Entry
    BY <2>1, EventType
  <2> QED BY <2>1, <2>2, <1>1, <1>6, AppendType DEF Sweeps
<1>7. CASE ClaudeEvent
  <2>1. LogOK' /\ Len(wrote') = Len(wrote) + 1 /\ next' \in Nat \ {0}
    BY <1>6, <1>7 DEF ClaudeEvent, fwdVars
  <2>2. RestOK'
    BY <2>1, <1>1, <1>2, <1>7 DEF ClaudeEvent, fwdVars, RestOK
  <2> QED BY <2>1, <2>2, TypePartsNext
<1>8. CASE CodexEvent
  <2>1. LogOK' /\ Len(wrote') = Len(wrote) + 1 /\ next' \in Nat \ {0}
    BY <1>6, <1>8 DEF CodexEvent, fwdVars
  <2>2. Charged[next] \in 1..MaxEvent /\ Extra(next) \in Nat
    <3>1. next \in 1..N("codex")
      BY <1>1, <1>4, <1>8 DEF CodexEvent, RestOK
    <3> QED BY <3>1, ChargeType
  <2>3. left' \in Nat /\ over' \in Nat
    BY <2>2, <1>1, <1>8, BudgetType DEF CodexEvent, RestOK
  <2>4. RestOK'
    BY <2>1, <2>3, <1>1, <1>2, <1>8 DEF CodexEvent, fwdVars, RestOK
  <2> QED BY <2>1, <2>4, TypePartsNext
<1>9. CASE HookAppends
  <2>1. LogOK' /\ Len(wrote') = Len(wrote) + 1
    BY <1>1, <1>9, EventType, AppendType DEF HookAppends, fwdVars
  <2>2. RestOK'
    BY <2>1, <1>1, <1>2, <1>9 DEF HookAppends, fwdVars, swpVars, RestOK
  <2> QED BY <2>1, <2>2, TypePartsNext
<1>10. CASE ClaudeEnds
  <2>1. PICK noRoom : SweepEnds("claude", noRoom)
    BY <1>10 DEF ClaudeEnds
  <2>2. LogOK'
    BY <1>2, <1>3, <1>10 DEF ClaudeEnds, fwdVars, logVars
  <2>3. /\ saved' \in [Harnesses -> Nat] /\ \A g \in Harnesses : saved'[g] =< N(g)
        /\ limited' \in BOOLEAN /\ faults' \in 0..MaxFaults
    BY <1>1, <2>1, SweepSaves
  <2>4. RestOK'
    BY <2>3, <1>1, <1>2, <1>4, <1>10 DEF ClaudeEnds, logVars, fwdVars, RestOK
  <2> QED BY <2>2, <2>4, TypePartsNext
<1>11. CASE CodexEnds
  <2>1. PICK noRoom : SweepEnds("codex", noRoom)
    BY <1>11 DEF CodexEnds
  <2>2. LogOK'
    BY <1>2, <1>3, <1>11 DEF CodexEnds, logVars
  <2>3. /\ saved' \in [Harnesses -> Nat] /\ \A g \in Harnesses : saved'[g] =< N(g)
        /\ limited' \in BOOLEAN /\ faults' \in 0..MaxFaults
    BY <1>1, <2>1, SweepSaves
  <2>4. round \in 0..MaxRounds /\ round' = round
    BY <1>1, <1>11 DEF CodexEnds, RestOK
  <2>5. pc' \in {"ended", "drain"} /\ (pc' = "drain" => round' < MaxRounds)
    BY <2>4, <1>11 DEF CodexEnds, Over
  <2>6. status' \in [lag : BOOLEAN, fresh : BOOLEAN]
    BY <1>1, <1>11 DEF CodexEnds, RestOK
  <2>7. fwd'.pc = "post" => primed' /\ through' =< fwd'.upto /\ (service' \/ pc' = "drain")
    BY <1>1, <1>11 DEF CodexEnds, RestOK
  <2>8. /\ primed' \in BOOLEAN /\ service' \in BOOLEAN
        /\ fwd' \in [pc : {"idle", "post"}, seen : Nat, upto : Nat] /\ fwd'.upto =< Len(wrote')
        /\ next' \in Nat \ {0} /\ left' \in Nat \cup {-1}
        /\ start' \in 0..Len(wrote') /\ began' \in start'..Len(wrote')
        /\ over' \in Nat
    BY <1>1, <1>2, <1>11 DEF CodexEnds, logVars, RestOK
  <2>9. RestOK'
    BY <2>3, <2>4, <2>5, <2>6, <2>7, <2>8 DEF RestOK
  <2> QED BY <2>2, <2>9, TypePartsNext
<1>12. CASE NextRound
  <2>1. LogOK'
    BY <1>2, <1>3, <1>12 DEF NextRound, fwdVars, logVars
  <2>2. fwd'.pc = "post" => service'
    BY <1>12 DEF NextRound, fwdVars, Drained
  <2>3. round' \in 0..MaxRounds
    BY <1>1, <1>12 DEF NextRound, RestOK
  <2>4. fwd'.pc = "post" => primed' /\ through' =< fwd'.upto /\ service'
    BY <2>2, <1>1, <1>12 DEF NextRound, fwdVars, RestOK
  <2>5. /\ next' \in Nat \ {0} /\ pc' = "claude" /\ limited' = FALSE
        /\ start' \in 0..Len(wrote') /\ began' \in start'..Len(wrote')
    <3>1. start \in 0..Len(wrote)
      BY <1>1 DEF RestOK
    <3> QED BY <3>1, <1>2, <1>4, <1>12 DEF NextRound
  <2>6. over' \in Nat
    BY <1>12 DEF NextRound
  <2>7. /\ wrote' = wrote /\ fwd' = fwd /\ status' = status /\ service' = service /\ saved' = saved
        /\ left' = left /\ faults' = faults /\ primed' = primed
    BY <1>12 DEF NextRound, fwdVars
  <2>8. RestOK'
    BY <2>3, <2>4, <2>5, <2>6, <2>7, <1>1 DEF RestOK
  <2> QED BY <2>1, <2>8, TypePartsNext
<1>13. CASE Scan
  <2>1. LogOK'
    BY <1>2, <1>3, <1>13 DEF Scan, logVars
  <2>2. First \in Nat /\ First > through /\ First =< Len(wrote)
    BY <1>1, <1>13, FirstRange DEF Scan
  <2> DEFINE upto == Min2(First + BatchMax - 1, Len(wrote))
  <2>3. upto \in Nat /\ upto =< Len(wrote) /\ upto >= through
    BY <2>2, <1>2 DEF Min2
  <2>4. fwd' = [pc |-> "post", seen |-> Len(wrote), upto |-> upto]
    BY <1>13 DEF Scan
  <2> HIDE DEF upto
  <2>5. RestOK'
    BY <2>3, <2>4, <1>1, <1>2, <1>13 DEF Scan, Forwards, logVars, swpVars, RestOK
  <2> QED BY <2>1, <2>5, TypePartsNext
<1>14. CASE Deliver
  <2>1. fwd.upto \in Nat /\ fwd.seen \in Nat /\ fwd.upto =< Len(wrote)
    BY <1>1 DEF RestOK
  <2>2. LogOK'
    BY <2>1, <1>2, <1>3, <1>14 DEF Deliver, logVars
  <2>3. fwd' \in [pc : {"idle", "post"}, seen : Nat, upto : Nat] /\ fwd'.upto =< Len(wrote) /\ fwd'.pc = "idle"
    BY <1>2, <1>14 DEF Deliver, NoScan
  <2>4. status' \in [lag : BOOLEAN, fresh : BOOLEAN]
    BY <1>14 DEF Deliver
  <2>5. RestOK'
    BY <2>3, <2>4, <1>1, <1>2, <1>14 DEF Deliver, logVars, swpVars, RestOK
  <2> QED BY <2>2, <2>5, TypePartsNext
<1>15. CASE ScanNothing
  <2>1. LogOK'
    BY <1>2, <1>3, <1>15 DEF ScanNothing, logVars
  <2>2. RestOK'
    BY <1>1, <1>2, <1>15 DEF ScanNothing, logVars, swpVars, RestOK
  <2> QED BY <2>1, <2>2, TypePartsNext
<1>16. CASE DrainFails \/ Crash
  <2>1. LogOK'
    BY <1>2, <1>3, <1>16 DEF DrainFails, Crash, logVars
  <2>2. faults' \in 0..MaxFaults
    BY <1>1, <1>16 DEF DrainFails, Crash, Fault, RestOK
  <2>3. /\ fwd' \in [pc : {"idle", "post"}, seen : Nat, upto : Nat] /\ fwd'.upto =< Len(wrote)
        /\ fwd'.pc = "post" => fwd' = fwd /\ service
    BY <1>1, <1>2, <1>16 DEF DrainFails, Crash, NoScan, RestOK
  <2>4. /\ pc' = "failed" /\ UNCHANGED <<logVars, primed, through, status, service, swpVars>>
    BY <1>16 DEF DrainFails, Crash
  <2>5. RestOK'
    BY <2>2, <2>3, <2>4, <1>1, <1>2 DEF logVars, swpVars, RestOK
  <2> QED BY <2>1, <2>5, TypePartsNext
<1>17. CASE Again
  <2>1. LogOK'
    BY <1>2, <1>3, <1>17 DEF Again, fwdVars, logVars
  <2>2. RestOK'
    BY <1>1, <1>2, <1>17 DEF Again, logVars, fwdVars, swpVars, RestOK
  <2> QED BY <2>1, <2>2, TypePartsNext
<1>18. CASE UNCHANGED vars
  <2>1. LogOK'
    BY <1>2, <1>3, <1>18 DEF vars, fwdVars, logVars
  <2>2. RestOK'
    BY <1>1, <1>2, <1>18 DEF vars, logVars, fwdVars, swpVars, RestOK
  <2> QED BY <2>1, <2>2, TypePartsNext
<1> QED BY <1>5, <1>7, <1>8, <1>9, <1>10, <1>11, <1>12, <1>13, <1>14, <1>15, <1>16, <1>17, <1>18 DEF Next, Sync

LEMMA InitType ==
  ASSUME Init
  PROVE  TypeOK
<1> USE LogAssumption, BoundsAssumption DEF Harnesses, Claude, Codex
<1>1. wrote \in Seq(Entry) /\ Len(wrote) = 1 /\ Len(cuts) = 1 /\ cuts \in Seq(Nat \ {0}) /\ cuts[1] = 1
  BY EventType DEF Init
<1>2. LogOK
  BY <1>1 DEF Init, LogOK
<1>3. fwd \in [pc : {"idle", "post"}, seen : Nat, upto : Nat] /\ fwd.upto = 0 /\ fwd.pc = "idle"
  BY DEF Init, NoScan
<1>4. saved \in [Harnesses -> Nat] /\ \A h \in Harnesses : saved[h] =< N(h)
  BY EventType DEF Init
<1>5. status \in [lag : BOOLEAN, fresh : BOOLEAN] /\ primed \in BOOLEAN /\ service \in BOOLEAN
  BY DEF Init
<1>6. RestOK
  <2>1. /\ pc = "off" /\ round = 0 /\ limited = FALSE /\ next = 1 /\ start = 0 /\ began = 0 /\ left = -1
        /\ over = 0 /\ faults = 0
    BY DEF Init
  <2>2. fwd.pc # "post" /\ fwd.upto =< Len(wrote) /\ 0 \in 0..Len(wrote)
    BY <1>1, <1>3
  <2>3. 0 \in 0..MaxRounds /\ 0 \in 0..MaxFaults /\ 0 \in Nat /\ 1 \in Nat \ {0}
    OBVIOUS
  <2> QED BY <2>1, <2>2, <2>3, <1>3, <1>4, <1>5 DEF RestOK
<1> QED BY <1>2, <1>6, TypeParts

\* Type correctness of the log, the forwarder and sync (TypeOK).
THEOREM TypeCorrect == Spec => []TypeOK
BY InitType, TypeStep, PTL DEF Spec

-----------------------------------------------------------------------------
(* The cursors.                                                             *)

\* What the log has taken stays where it is.
LEMMA WroteGrows ==
  ASSUME TypeOK, [Next]_vars
  PROVE  \A i \in DOMAIN wrote : i \in DOMAIN wrote' /\ wrote'[i] = wrote[i]
<1>1. wrote \in Seq(Entry)
  BY DEF TypeOK
<1>2. ASSUME NEW e, Append1(e)
      PROVE  \A i \in DOMAIN wrote : i \in DOMAIN wrote' /\ wrote'[i] = wrote[i]
  BY <1>1, <1>2 DEF Append1
<1>3. CASE wrote' = wrote
  BY <1>3
<1>4. CASE ClaudeEvent \/ CodexEvent \/ HookAppends
  BY <1>2, <1>4 DEF ClaudeEvent, CodexEvent, HookAppends, Sweeps
<1>5. CASE ~(ClaudeEvent \/ CodexEvent \/ HookAppends)
  BY <1>3, <1>5 DEF Next, Sync, Scan, Deliver, ScanNothing, Begin, ClaudeEnds, CodexEnds, NextRound,
                    DrainFails, Crash, Again, vars, logVars
<1> QED BY <1>4, <1>5

\* The steps of a sweep write its next event and move on; no other step but
\* the end of a sweep changes a cursor, and no other step starts a sweep but
\* at the event behind the cursor.
LEMMA CursorSteps ==
  ASSUME TypeOK, [Next]_vars
  PROVE  \/ UNCHANGED <<saved, next, pc>>
         \/ UNCHANGED saved /\ pc' \notin Harnesses
         \/ UNCHANGED saved /\ pc' = Claude /\ next' = saved[Claude] + 1
         \/ \E h \in Harnesses : UNCHANGED <<saved, pc>> /\ pc = h /\ Sweeps(h)
         \/ /\ pc = Claude /\ pc' = Codex /\ next' = saved[Codex] + 1
            /\ \E noRoom : SweepEnds(Claude, noRoom)
         \/ /\ pc = Codex /\ pc' \notin Harnesses
            /\ \E noRoom : SweepEnds(Codex, noRoom)
<1> USE DEF Harnesses, Claude, Codex
<1>1. CASE Begin \/ NextRound
  BY <1>1 DEF Begin, NextRound
<1>2. CASE Scan \/ Deliver \/ ScanNothing \/ HookAppends
  BY <1>2 DEF Scan, Deliver, ScanNothing, HookAppends, swpVars
<1>3. CASE ClaudeEvent
  BY <1>3 DEF ClaudeEvent
<1>4. CASE CodexEvent
  BY <1>4 DEF CodexEvent
<1>5. CASE ClaudeEnds
  BY <1>5 DEF ClaudeEnds
<1>6. CASE CodexEnds
  <2>1. pc' \in {"ended", "drain"}
    BY <1>6 DEF CodexEnds
  <2> QED BY <2>1, <1>6 DEF CodexEnds
<1>7. CASE DrainFails \/ Crash \/ Again
  BY <1>7 DEF DrainFails, Crash, Again, swpVars
<1>8. CASE UNCHANGED vars
  BY <1>8 DEF vars, swpVars
<1> QED BY <1>1, <1>2, <1>3, <1>4, <1>5, <1>6, <1>7, <1>8 DEF Next, Sync

\* The log w holds event n of h.
Holds(w, h, n) == \E i \in DOMAIN w : w[i] = [src |-> h, n |-> n]

LEMMA SweptStep ==
  ASSUME TypeOK, SweptInv, [Next]_vars
  PROVE  SweptInv'
<1> USE DEF Harnesses, Claude, Codex
<1>1. /\ LogOK /\ RestOK /\ saved \in [Harnesses -> Nat] /\ next \in Nat \ {0}
      /\ \A h \in Harnesses : saved[h] =< N(h) /\ N(h) \in Nat /\ saved[h] \in Nat
  BY TypeParts, EventType DEF RestOK
<1>2. ASSUME NEW h, NEW n, Holds(wrote, h, n)
      PROVE  Holds(wrote', h, n)
  BY <1>2, WroteGrows DEF Holds
<1>3. \A h \in Harnesses : \A n \in 1..saved[h] : Holds(wrote, h, n)
  BY DEF SweptInv, NothingSkipped, Written, Holds
<1>4. pc \in Harnesses => /\ saved[pc] < next /\ next =< N(pc) + 1
                          /\ \A n \in 1..(next - 1) : Holds(wrote, pc, n)
  BY DEF SweptInv, Written, Holds
<1>5. SUFFICES /\ \A h \in Harnesses : \A n \in 1..saved'[h] : Holds(wrote', h, n)
               /\ pc' \in Harnesses => /\ saved'[pc'] < next' /\ next' =< N(pc') + 1
                                       /\ \A n \in 1..(next' - 1) : Holds(wrote', pc', n)
  BY DEF SweptInv, NothingSkipped, Written, Holds
<1>6. CASE UNCHANGED <<saved, next, pc>>
  BY <1>2, <1>3, <1>4, <1>6
<1>7. CASE UNCHANGED saved /\ pc' \notin Harnesses
  BY <1>2, <1>3, <1>7
<1>8. CASE UNCHANGED saved /\ pc' = Claude /\ next' = saved[Claude] + 1
  <2>1. next' - 1 = saved["claude"] /\ saved["claude"] < next' /\ next' =< N("claude") + 1
    BY <1>1, <1>8
  <2> QED BY <2>1, <1>2, <1>3, <1>8
<1>9. ASSUME NEW h \in Harnesses, UNCHANGED <<saved, pc>>, pc = h, Sweeps(h)
      PROVE  /\ \A g \in Harnesses : \A n \in 1..saved'[g] : Holds(wrote', g, n)
             /\ pc' \in Harnesses => /\ saved'[pc'] < next' /\ next' =< N(pc') + 1
                                     /\ \A n \in 1..(next' - 1) : Holds(wrote', pc', n)
  <2>1. next' = next + 1 /\ next =< N(h)
    BY <1>9 DEF Sweeps
  <2>2. Holds(wrote', h, next)
    <3>1. wrote \in Seq(Entry) /\ wrote' = Append(wrote, [src |-> h, n |-> next])
      BY <1>1, <1>9 DEF LogOK, Sweeps, Append1
    <3>2. Len(wrote) + 1 \in DOMAIN wrote' /\ wrote'[Len(wrote) + 1] = [src |-> h, n |-> next]
      BY <3>1
    <3>3. next \in Nat /\ h \in Harnesses
      BY <1>1
    <3> QED BY <3>2 DEF Holds
  <2>3. ASSUME NEW n \in 1..(next' - 1)
        PROVE  Holds(wrote', h, n)
    <3>1. n \in 1..(next - 1) \/ n = next
      BY <2>1, <2>3, <1>1
    <3> QED BY <3>1, <2>2, <1>2, <1>4, <1>9
  <2>4. saved[h] < next' /\ next' =< N(h) + 1
    BY <2>1, <1>1, <1>4, <1>9
  <2> QED BY <2>3, <2>4, <1>2, <1>3, <1>9
<1>10. ASSUME NEW h \in Harnesses, pc = h, NEW noRoom, SweepEnds(h, noRoom)
       PROVE  /\ \A g \in Harnesses : \A n \in 1..saved'[g] : Holds(wrote', g, n)
              /\ \A g \in Harnesses : g # h => saved'[g] = saved[g]
  <2>1. /\ saved' \in [Harnesses -> Nat] /\ \A g \in Harnesses : g # h => saved'[g] = saved[g]
        /\ saved'[h] = saved[h] \/ saved'[h] < next
    BY <1>1, <1>10, SweepSaves
  <2>2. ASSUME NEW n \in 1..saved'[h]
        PROVE  Holds(wrote', h, n)
    <3>1. saved'[h] \in Nat
      BY <2>1
    <3>2. n \in 1..saved[h] \/ n \in 1..(next - 1)
      BY <3>1, <2>1, <2>2, <1>1
    <3> QED BY <3>2, <1>2, <1>3, <1>4, <1>10
  <2> QED BY <2>1, <2>2, <1>2, <1>3
<1>11. CASE /\ pc = Claude /\ pc' = Codex /\ next' = saved[Codex] + 1
            /\ \E noRoom : SweepEnds(Claude, noRoom)
  <2>1. /\ \A g \in Harnesses : \A n \in 1..saved'[g] : Holds(wrote', g, n)
        /\ saved'["codex"] = saved["codex"]
    BY <1>10, <1>11
  <2>2. next' - 1 = saved'["codex"] /\ saved'["codex"] < next' /\ next' =< N("codex") + 1
    BY <2>1, <1>1, <1>11
  <2> QED BY <2>1, <2>2, <1>11
<1>12. CASE /\ pc = Codex /\ pc' \notin Harnesses
            /\ \E noRoom : SweepEnds(Codex, noRoom)
  BY <1>10, <1>12
<1> QED BY <1>6, <1>7, <1>8, <1>9, <1>11, <1>12, CursorSteps

LEMMA InitSwept ==
  ASSUME Init
  PROVE  SweptInv
BY DEF Init, SweptInv, NothingSkipped, Harnesses, Claude, Codex

\* The cursor file never passes an event that is not in the log (NothingSkipped),
\* wherever a sweep stops: at the end, for want of room, at a failed append or a
\* cursor file that cannot be written, or killed.
THEOREM SkippedCorrect == Spec => []NothingSkipped
<1>1. Init => TypeOK /\ SweptInv
  BY InitType, InitSwept
<1>2. TypeOK /\ SweptInv /\ [Next]_vars => (TypeOK /\ SweptInv)'
  BY TypeStep, SweptStep
<1>3. SweptInv => NothingSkipped
  BY DEF SweptInv
<1> QED BY <1>1, <1>2, <1>3, PTL DEF Spec

-----------------------------------------------------------------------------
(* Room, and the history that is kept.                                      *)

RoomParts == RoomInv /\ RoundInv

\* No step of the log: where it leads.
LEMMA StillSteps ==
  ASSUME TypeOK, [Next]_vars
  PROVE  \/ ClaudeEvent \/ CodexEvent \/ HookAppends
         \/ /\ UNCHANGED <<wrote, cuts, live, lost, service>> /\ through' >= through
            /\ \/ UNCHANGED <<pc, left, start, began, over>>
               \/ UNCHANGED <<left, start, began, over>> /\ pc' \notin {Claude, Codex}
               \/ pc = Claude /\ pc' = Codex /\ left' = -1 /\ UNCHANGED start
               \/ /\ UNCHANGED left /\ pc' = Claude
                  /\ \/ start' = Len(wrote)
                     \/ UNCHANGED start /\ (service \/ through = Len(wrote))
<1> USE DEF Harnesses, Claude, Codex
<1>1. LogOK /\ RestOK /\ through \in 0..Len(wrote) /\ Len(wrote) \in Nat
  BY TypeParts DEF LogOK
<1>2. CASE Begin
  BY <1>1, <1>2 DEF Begin, logVars
<1>3. CASE ClaudeEnds
  BY <1>1, <1>3 DEF ClaudeEnds, logVars, fwdVars
<1>4. CASE CodexEnds
  <2>1. pc' \in {"ended", "drain"}
    BY <1>4 DEF CodexEnds
  <2>2. UNCHANGED <<logVars, through, service, left, start, began>>
    BY <1>4 DEF CodexEnds
  <2> QED BY <2>1, <2>2, <1>1 DEF logVars
<1>5. CASE NextRound
  <2>1. service \/ through = Len(wrote)
    BY <1>1, <1>5, FirstRange DEF NextRound, Drained
  <2> QED BY <2>1, <1>1, <1>5 DEF NextRound, fwdVars
<1>6. CASE Again
  BY <1>1, <1>6 DEF Again, logVars, fwdVars, swpVars
<1>7. CASE Deliver
  <2>1. fwd.pc = "post" /\ through =< fwd.upto /\ through' = fwd.upto /\ fwd.upto \in Nat
    BY <1>1, <1>7 DEF Deliver, RestOK
  <2> QED BY <2>1, <1>1, <1>7 DEF Deliver, logVars, swpVars
<1>8. CASE Scan \/ ScanNothing
  BY <1>1, <1>8 DEF Scan, ScanNothing, logVars, swpVars
<1>9. CASE DrainFails \/ Crash
  BY <1>1, <1>9 DEF DrainFails, Crash, logVars, swpVars
<1>10. CASE UNCHANGED vars
  BY <1>1, <1>10 DEF vars, logVars, fwdVars, swpVars
<1> QED BY <1>2, <1>3, <1>4, <1>5, <1>6, <1>7, <1>8, <1>9, <1>10 DEF Next, Sync

\* What is unsent after an append, and when the checkpoints move on.
LEMMA AppendUnsent ==
  ASSUME LogOK, RestOK, NEW e \in Entry, Append1(e), UNCHANGED <<through, start>>, NEW src
  PROVE  \A i : i \in Unsent(src)' <=> i \in Unsent(src) \/ (i = Len(wrote) + 1 /\ e.src = src)
<1>1. /\ wrote \in Seq(Entry) /\ wrote' \in Seq(Entry) /\ through \in 0..Len(wrote)
      /\ Len(wrote') = Len(wrote) + 1 /\ wrote'[Len(wrote) + 1] = e
      /\ \A i \in DOMAIN wrote : wrote'[i] = wrote[i]
  BY AppendType DEF LogOK
<1>2. \A i : i \in DOMAIN wrote' <=> i \in DOMAIN wrote \/ i = Len(wrote) + 1
  BY <1>1
<1>3. Len(wrote) + 1 > through /\ Len(wrote) + 1 > start /\ Len(wrote) + 1 \notin DOMAIN wrote
  BY <1>1 DEF RestOK
<1> QED BY <1>1, <1>2, <1>3 DEF Unsent

LEMMA StillUnsent ==
  ASSUME LogOK, LogOK', RestOK, wrote' = wrote, through' >= through, NEW src
  PROVE  /\ start' = start => Unsent(src)' \subseteq Unsent(src)
         /\ through = Len(wrote) \/ start' = Len(wrote) => Unsent(src)' = {}
<1>1. /\ through \in 0..Len(wrote) /\ through' \in 0..Len(wrote) /\ start \in 0..Len(wrote)
      /\ wrote \in Seq(Entry)
  BY DEF LogOK, RestOK
<1>2. \A i \in DOMAIN wrote : i \in 1..Len(wrote)
  BY <1>1
<1> QED BY <1>1, <1>2 DEF Unsent

\* An append that finds the room for its event loses nothing.
LEMMA NoLoss ==
  ASSUME LogOK, NEW e \in Entry, Append1(e), through' = through, Capacity >= Size(e)
  PROVE  lost' = lost
<1>1. Capacity \in Nat /\ Size(e) \in Nat
  BY RoomIsCapacity, SizeRange
<1>2. lost \subseteq lost'
  BY DEF Append1
<1>3. \A i \in lost' : i \in lost
  BY <1>1, AppendLoss
<1> QED BY <1>2, <1>3

\* The Codex sweep has the room for its event, and keeps what it leaves, as long
\* as the margin holds what is written past the charges, this event's included.
LEMMA CodexRoom ==
  ASSUME TypeOK, RoomInv, CodexEvent, over' =< Margin
  PROVE  /\ lost' = lost /\ Capacity' >= left' + Margin - over' /\ left' \in Nat
<1> USE LogAssumption, BoundsAssumption DEF Harnesses, Codex
<1>1. LogOK /\ RestOK
  BY TypeParts
<1> DEFINE s == Sizes["codex"][next]
           c == Charged[next]
           x == Extra(next)
           e == [src |-> "codex", n |-> next]
           o == IF Asks THEN 0 ELSE over
<1>2. next \in 1..N("codex")
  BY <1>1, EventType DEF CodexEvent, RestOK
<1>3. e \in Entry /\ Size(e) = s /\ s \in 1..MaxEvent
  BY <1>2, EventType, EventSize
<1>4. c \in 1..MaxEvent /\ x \in Nat /\ s =< c + x
  BY <1>2, ChargeType
<1>5. /\ Append1(e) /\ through' = through /\ left' = Budget - c /\ Budget >= c
      /\ over' = o + x
  BY DEF CodexEvent, Sweeps, fwdVars
<1>6. over \in Nat /\ o \in Nat /\ Budget \in Nat /\ Capacity \in Nat /\ Margin \in Nat
  BY <1>1, BudgetType, RoomIsCapacity DEF RestOK
<1>7. o =< Margin
  <2> HIDE DEF o, x
  <2> QED BY <1>4, <1>5, <1>6
<1>8. Capacity >= Budget + Margin - o
  <2>1. CASE ~Asks
    <3>1. left >= 0 /\ pc = "codex" /\ Budget = left /\ o = over
      BY <2>1, <1>4, <1>6 DEF CodexEvent, Budget, Asks
    <3> QED BY <3>1, <1>6, <1>7 DEF RoomInv
  <2>2. CASE Asks
    <3>1. Budget = Room /\ Room > 0 /\ o = 0
      BY <2>2, <1>4, <1>5, <1>6 DEF Budget
    <3>2. Room = Capacity - Margin
      BY <3>1, <1>1, RoomIsCapacity
    <3> QED BY <3>1, <3>2, <1>6
  <2> QED BY <2>1, <2>2
<1> HIDE DEF s, e, c, x, o
<1>9. Capacity >= s
  BY <1>3, <1>4, <1>5, <1>6, <1>7, <1>8
<1>10. lost' = lost
  BY <1>1, <1>3, <1>5, <1>9, NoLoss
<1>11. Capacity' >= Capacity - s /\ Capacity' \in Nat
  BY <1>1, <1>3, <1>5, AppendCapacity
<1>12. left' \in Nat /\ Capacity' >= left' + Margin - over'
  BY <1>3, <1>4, <1>5, <1>6, <1>8, <1>11
<1> QED BY <1>10, <1>12

LEMMA RoomStep ==
  ASSUME TypeOK, RoomParts, [Next]_vars
  PROVE  RoomParts'
<1> USE LogAssumption, BoundsAssumption DEF Harnesses, Claude, Codex
<1>1. /\ LogOK /\ RestOK /\ LogOK' /\ RestOK' /\ wrote \in Seq(Entry) /\ through \in 0..Len(wrote)
      /\ over \in Nat /\ left \in Nat \cup {-1}
      /\ Capacity \in Nat /\ Margin \in Nat
  <2>1. LogOK /\ RestOK /\ LogOK' /\ RestOK'
    BY TypeParts, TypeStep, TypePartsNext
  <2>2. Capacity \in Nat
    BY <2>1, RoomIsCapacity
  <2>3. wrote \in Seq(Entry) /\ through \in 0..Len(wrote)
    BY <2>1 DEF LogOK
  <2>4. over \in Nat /\ left \in Nat \cup {-1}
    BY <2>1 DEF RestOK
  <2> QED BY <2>1, <2>2, <2>3, <2>4
<1>2. over =< Margin /\ left >= 0 /\ (pc = "codex" \/ (~service /\ Unsent("codex") # {}))
        => Capacity >= left + Margin - over
  BY DEF RoomParts, RoomInv
<1>3. ~service => /\ Unsent("codex") # {} => left >= 0 /\ pc # "claude"
                  /\ pc = "claude" => \A i \in Unsent("claude") : i > began
  BY DEF RoomParts, RoundInv
<1>4. CASE /\ UNCHANGED <<wrote, cuts, live, lost, service>> /\ through' >= through
           /\ \/ UNCHANGED <<pc, left, start, began, over>>
              \/ UNCHANGED <<left, start, began, over>> /\ pc' \notin {Claude, Codex}
              \/ pc = Claude /\ pc' = Codex /\ left' = -1 /\ UNCHANGED start
              \/ /\ UNCHANGED left /\ pc' = Claude
                 /\ \/ start' = Len(wrote)
                    \/ UNCHANGED start /\ (service \/ through = Len(wrote))
  <2>1. /\ start' = start => /\ Unsent("codex")' \subseteq Unsent("codex")
                             /\ Unsent("claude")' \subseteq Unsent("claude")
        /\ through = Len(wrote) \/ start' = Len(wrote)
             => Unsent("codex")' = {} /\ Unsent("claude")' = {}
    BY <1>1, <1>4, StillUnsent
  <2>2. Capacity' >= Capacity /\ Capacity' \in Nat
    BY <1>1, <1>4, DeliverCapacity
  <2>3. RoomInv'
    <3>1. CASE UNCHANGED <<left, start, over>> /\ (pc' = pc \/ pc' # "codex")
      BY <1>1, <1>2, <1>4, <2>1, <2>2, <3>1 DEF RoomInv
    <3>2. CASE left' = -1
      BY <3>2 DEF RoomInv
    <3>3. CASE pc' = "claude" /\ (service \/ Unsent("codex")' = {})
      BY <1>4, <3>3 DEF RoomInv
    <3> QED BY <1>4, <2>1, <3>1, <3>2, <3>3
  <2>4. RoundInv'
    <3>1. CASE service
      BY <1>4, <3>1 DEF RoundInv
    <3>2. CASE Unsent("codex")' = {} /\ Unsent("claude")' = {}
      BY <3>2 DEF RoundInv
    <3>3. CASE ~service /\ UNCHANGED <<pc, left, start, began>>
      BY <1>3, <2>1, <3>3 DEF RoundInv
    <3>4. CASE ~service /\ UNCHANGED <<left, start>> /\ pc' \notin {"claude", "codex"}
      BY <1>3, <2>1, <3>4 DEF RoundInv
    <3>5. CASE ~service /\ UNCHANGED start /\ pc = "claude" /\ pc' = "codex"
      BY <1>3, <2>1, <3>5 DEF RoundInv
    <3> QED BY <1>4, <2>1, <3>1, <3>2, <3>3, <3>4, <3>5
  <2> QED BY <2>3, <2>4 DEF RoomParts
<1>5. CASE ClaudeEvent
  <2> DEFINE e == [src |-> "claude", n |-> next]
  <2>1. e \in Entry /\ e.src = "claude"
    <3>1. next \in 1..N("claude")
      BY <1>1, <1>5, EventType DEF ClaudeEvent, RestOK
    <3> QED BY <3>1, EventType
  <2>2. Append1(e) /\ UNCHANGED <<through, service, pc, start, began, left>> /\ pc = "claude"
    BY <1>5 DEF ClaudeEvent, Sweeps, fwdVars
  <2> HIDE DEF e
  <2>3. /\ \A i : i \in Unsent("codex")' <=> i \in Unsent("codex")
        /\ \A i : i \in Unsent("claude")' => i \in Unsent("claude") \/ i = Len(wrote) + 1
    BY <1>1, <2>1, <2>2, AppendUnsent
  <2>4. ~service => Unsent("codex")' = {}
    BY <1>3, <2>2, <2>3
  <2>5. began =< Len(wrote) /\ began \in Nat
    BY <1>1 DEF RestOK
  <2>6. RoundInv'
    BY <1>1, <1>3, <2>2, <2>3, <2>4, <2>5 DEF RoundInv
  <2>7. RoomInv'
    BY <2>2, <2>4 DEF RoomInv
  <2> QED BY <2>6, <2>7 DEF RoomParts
<1>6. CASE CodexEvent
  <2>1. UNCHANGED <<service, pc>> /\ pc = "codex"
    BY <1>6 DEF CodexEvent
  <2>2. left' \in Nat
    <3>1. next \in 1..N("codex")
      BY <1>1, <1>6, EventType DEF CodexEvent, RestOK
    <3>2. Charged[next] \in 1..MaxEvent
      BY <3>1, ChargeType
    <3> QED BY <3>2, <1>6, BudgetType DEF CodexEvent
  <2>3. over' =< Margin => Capacity' >= left' + Margin - over'
    BY <1>6, CodexRoom DEF RoomParts
  <2>4. RoomInv'
    BY <2>3 DEF RoomInv
  <2>5. RoundInv'
    BY <2>1, <2>2 DEF RoundInv
  <2> QED BY <2>4, <2>5 DEF RoomParts
<1>7. CASE HookAppends
  <2> DEFINE e == [src |-> "hook", n |-> 0]
  <2>1. e \in Entry /\ e.src = "hook" /\ Size(e) = 1
    BY EventType DEF Size
  <2>2. /\ Append1(e) /\ UNCHANGED <<through, service, pc, start, began, left>>
        /\ over' = over + 1
    BY <1>7 DEF HookAppends, fwdVars, swpVars
  <2> HIDE DEF e
  <2>3. /\ \A i : i \in Unsent("codex")' <=> i \in Unsent("codex")
        /\ \A i : i \in Unsent("claude")' <=> i \in Unsent("claude")
    BY <1>1, <2>1, <2>2, AppendUnsent
  <2>4. Unsent("codex")' = Unsent("codex") /\ Unsent("claude")' = Unsent("claude")
    BY <2>3
  <2>5. Capacity' >= Capacity - 1 /\ Capacity' \in Nat
    BY <1>1, <2>1, <2>2, AppendCapacity
  <2>6. RoomInv'
    BY <1>1, <1>2, <2>2, <2>4, <2>5 DEF RoomInv
  <2>7. RoundInv'
    BY <1>3, <2>2, <2>4 DEF RoundInv
  <2> QED BY <2>6, <2>7 DEF RoomParts
<1> QED BY <1>4, <1>5, <1>6, <1>7, StillSteps

LEMMA InitRoom ==
  ASSUME Init
  PROVE  RoomParts
<1>1. wrote = <<[src |-> "hook", n |-> 0]>>
  BY DEF Init
<1>2. Unsent("codex") = {} /\ Unsent("claude") = {}
  BY <1>1 DEF Unsent
<1> QED BY <1>2 DEF Init, RoomParts, RoomInv, RoundInv, Claude, Codex

\* What a step may rotate out unsent, where sync runs the forwarder itself.
LEMMA HistoryStep ==
  ASSUME Inductive, [Next]_vars, ~service, over' =< Margin, NEW i \in lost', i \notin lost
  PROVE  \/ i =< start \/ wrote'[i].src = "hook"
         \/ wrote'[i].src = Claude /\ \E j \in (i + 1)..Len(wrote') : wrote'[j].src = "hook"
<1> USE LogAssumption, BoundsAssumption DEF Harnesses, Claude, Codex
<1>1. /\ TypeOK /\ LogOK /\ RestOK /\ wrote \in Seq(Entry) /\ start \in Nat
      /\ over \in Nat /\ left \in Nat \cup {-1} /\ Capacity \in Nat /\ Margin \in Nat
  <2>1. TypeOK /\ LogOK /\ RestOK
    BY TypeParts DEF Inductive
  <2> QED BY <2>1, RoomIsCapacity DEF LogOK, RestOK
<1>2. /\ Unsent("codex") # {} => left >= 0 /\ pc # "claude"
      /\ pc = "claude" => \A k \in Unsent("claude") : k > began
  BY DEF Inductive, RoundInv
<1>3. ASSUME NEW e \in Entry, Append1(e), through' = through
      PROVE  /\ Capacity < Size(e) /\ Rotates(Size(e)) /\ Len(cuts) = Archives + 1
             /\ i \in cuts[Archives + 1]..(cuts[Archives] - 1) /\ i \in DOMAIN wrote
             /\ i \in Nat /\ i =< Len(wrote)
             /\ wrote[i].src \in {"claude", "codex", "hook"} /\ wrote'[i] = wrote[i]
             /\ i =< start \/ i \in Unsent(wrote[i].src)
             /\ Len(wrote') = Len(wrote) + 1 /\ wrote'[Len(wrote) + 1] = e
  <2>1. /\ Capacity < Size(e) /\ Rotates(Size(e)) /\ Len(cuts) = Archives + 1
        /\ i \in cuts[Archives + 1]..(cuts[Archives] - 1) /\ i \in DOMAIN wrote /\ i > through
    BY <1>1, <1>3, AppendLoss
  <2>2. /\ \A k \in DOMAIN wrote : wrote'[k] = wrote[k]
        /\ Len(wrote') = Len(wrote) + 1 /\ wrote'[Len(wrote) + 1] = e
    BY <1>1, <1>3, AppendType
  <2>3. wrote[i].src \in {"claude", "codex", "hook"}
    <3>1. wrote[i] \in Entry
      BY <1>1, <2>1
    <3> QED BY <3>1 DEF Entry
  <2>4. i \in 1..Len(wrote) /\ Len(wrote) \in Nat
    BY <1>1, <2>1
  <2>5. i =< start \/ i \in Unsent(wrote[i].src)
    BY <1>1, <2>1, <2>4 DEF Unsent
  <2> QED BY <2>1, <2>2, <2>3, <2>4, <2>5
<1>4. CASE ClaudeEvent
  <2> DEFINE e == [src |-> "claude", n |-> next]
  <2>1. e \in Entry /\ Size(e) = Sizes["claude"][next]
    <3>1. next \in 1..N("claude")
      BY <1>1, <1>4, EventType DEF ClaudeEvent, RestOK
    <3> QED BY <3>1, EventType, EventSize
  <2>2. /\ Append1(e) /\ through' = through /\ pc = "claude" /\ ~(Rotates(Size(e)) /\ WouldDiscard)
    BY <2>1, <1>4 DEF ClaudeEvent, Sweeps, fwdVars
  <2> HIDE DEF e
  <2>3. /\ Rotates(Size(e)) /\ Len(cuts) = Archives + 1
        /\ i \in cuts[Archives + 1]..(cuts[Archives] - 1)
        /\ wrote[i].src \in {"claude", "codex", "hook"} /\ wrote'[i] = wrote[i]
        /\ i =< start \/ i \in Unsent(wrote[i].src)
    BY <1>3, <2>1, <2>2
  <2>4. ~(i > began /\ wrote[i].src = "claude")
    BY <2>2, <2>3 DEF WouldDiscard
  <2>5. wrote[i].src = "claude" => i =< start
    BY <1>2, <2>2, <2>3, <2>4
  <2>6. wrote[i].src = "codex" => i =< start
    BY <1>2, <2>2, <2>3
  <2> QED BY <2>3, <2>5, <2>6
<1>5. CASE CodexEvent
  <2>1. lost' = lost
    BY <1>1, <1>5, CodexRoom DEF Inductive
  <2> QED BY <2>1
<1>6. CASE HookAppends
  <2> DEFINE e == [src |-> "hook", n |-> 0]
  <2>1. e \in Entry /\ e.src = "hook" /\ Size(e) = 1
    BY EventType DEF Size
  <2>2. Append1(e) /\ through' = through /\ over' = over + 1
    BY <1>6 DEF HookAppends, fwdVars
  <2> HIDE DEF e
  <2>3. /\ Capacity < 1 /\ i \in Nat /\ i =< Len(wrote)
        /\ wrote[i].src \in {"claude", "codex", "hook"} /\ wrote'[i] = wrote[i]
        /\ i =< start \/ i \in Unsent(wrote[i].src)
        /\ Len(wrote') = Len(wrote) + 1 /\ wrote'[Len(wrote) + 1] = e
    BY <1>3, <2>1, <2>2
  <2>4. wrote[i].src = "codex" => i =< start
    <3>1. SUFFICES ASSUME i \in Unsent("codex")
                   PROVE  FALSE
      BY <2>3
    <3>2. left >= 0 /\ over =< Margin
      BY <1>1, <1>2, <2>2, <3>1
    <3>3. Capacity >= left + Margin - over
      BY <3>1, <3>2 DEF Inductive, RoomInv
    <3> QED BY <3>2, <3>3, <2>2, <2>3, <1>1
  <2>5. wrote[i].src = "claude" => \E j \in (i + 1)..Len(wrote') : wrote'[j].src = "hook"
    <3>1. Len(wrote) + 1 \in (i + 1)..Len(wrote')
      BY <2>3, <1>1
    <3> QED BY <3>1, <2>1, <2>3
  <2> QED BY <2>3, <2>4, <2>5
<1> QED BY <1>1, <1>4, <1>5, <1>6, StillSteps

\* The inductive invariant.
THEOREM InductiveCorrect == Spec => []Inductive
<1>1. Init => Inductive
  BY InitType, InitSwept, InitRoom DEF Inductive, RoomParts
<1>2. Inductive /\ [Next]_vars => Inductive'
  BY TypeStep, SweptStep, RoomStep DEF Inductive, RoomParts
<1> QED BY <1>1, <1>2, PTL DEF Spec

\* Where sync runs the forwarder itself, what this run wrote of the history has
\* been sent when it is rotated out, but for Claude's when a hook writes after
\* its sweep has filled the log, as long as what is written past the charges
\* keeps to the margin (HistoryKept), whatever is killed or fails between any two
\* steps and whatever an earlier run left unsent.
THEOREM HistoryCorrect == Spec => HistoryKept
<1>1. Inductive /\ [Next]_vars =>
        (~service /\ over' =< Margin => \A i \in lost' \ lost :
           \/ i =< start \/ wrote'[i].src = "hook"
           \/ wrote'[i].src = Claude /\ \E j \in (i + 1)..Len(wrote') : wrote'[j].src = "hook")
  BY HistoryStep
<1> QED BY <1>1, InductiveCorrect, PTL DEF Spec, HistoryKept

\* The Codex sweep never rotates out what the forwarder has not sent
\* (RoomIsEnough), with the service forwarding or not, as long as what is written
\* past the charges keeps to the margin.
THEOREM RoomCorrect == Spec => RoomIsEnough
<1>1. Inductive /\ [Next]_vars =>
        (over' =< Margin /\ Len(wrote') > Len(wrote) /\ wrote'[Len(wrote')].src = Codex
           => lost' = lost)
  <2> SUFFICES ASSUME Inductive, [Next]_vars, over' =< Margin, Len(wrote') > Len(wrote),
                      wrote'[Len(wrote')].src = Codex
               PROVE  lost' = lost
    OBVIOUS
  <2>1. TypeOK /\ RoomInv /\ LogOK /\ RestOK
    BY TypeParts DEF Inductive
  <2>2. CASE CodexEvent
    BY <2>1, <2>2, CodexRoom
  <2>3. ASSUME NEW e, Append1(e)
        PROVE  e.src = Codex
    <3>1. wrote \in Seq(Entry)
      BY <2>1 DEF LogOK
    <3>2. Len(wrote') = Len(wrote) + 1 /\ wrote'[Len(wrote) + 1] = e
      BY <3>1, <2>3 DEF Append1
    <3> QED BY <3>2
  <2>4. CASE ClaudeEvent
    BY <2>3, <2>4 DEF ClaudeEvent, Sweeps, Claude, Codex
  <2>5. CASE HookAppends
    BY <2>3, <2>5 DEF HookAppends, Codex
  <2>6. CASE wrote' = wrote
    BY <2>1, <2>6 DEF LogOK
  <2> QED BY <2>1, <2>2, <2>4, <2>5, <2>6, StillSteps
<1> QED BY <1>1, InductiveCorrect, PTL DEF Spec, RoomIsEnough
=============================================================================
