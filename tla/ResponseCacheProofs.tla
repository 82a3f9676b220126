------------------------- MODULE ResponseCacheProofs -------------------------
(***************************************************************************)
(* Theorems about ResponseCache for any number of clients and keys, any    *)
(* bodies and any limits: the byte count and the budget, which entries an  *)
(* eviction takes and how they are counted, and that the LRU map           *)
(* implements CacheStore.                                                  *)
(***************************************************************************)
EXTENDS ResponseCache, SequenceTheorems, FiniteSetTheorems, WellFoundedInduction, TLAPS

-----------------------------------------------------------------------------
\* Sums along a sequence

\* A set of numbers that is not empty has a least element: induction, as a fact.
LEMMA LeastNumber ==
  ASSUME NEW T, T \subseteq Nat, T # {}
  PROVE  \E n \in T : \A m \in T : n <= m
  <1>1. IsWellFoundedOn(OpToRel(<, Nat), Nat)
    BY NatLessThanWellFounded
  <1>2. PICK n \in T : \A m \in T : ~ (<<m, n>> \in OpToRel(<, Nat))
    BY <1>1, WFMin
  <1>3. ASSUME NEW m \in T
        PROVE  n <= m
    <2>1. <<m, n>> \in Nat \X Nat
      BY <1>3
    <2>2. ~ (m < n)
      BY <1>2, <2>1 DEF OpToRel
    <2> QED
      BY <2>1, <2>2
  <1> QED
    BY <1>3

\* f holds the sums of the sizes of s up to each index until m.
Sums(f, s, m) == f = [n \in 0 .. m |-> IF n = 0 THEN 0 ELSE f[n - 1] + SizeOf(s[n])]

LEMMA SumsExist ==
  ASSUME NEW s, NEW m \in Nat
  PROVE  \E f : Sums(f, s, m)
  <1> DEFINE T == {n \in Nat : ~ \E f : Sums(f, s, n)}
  <1> SUFFICES ASSUME T # {} PROVE FALSE
    OBVIOUS
  <1>1. PICK n \in T : \A k \in T : n <= k
    BY LeastNumber
  <1>2. CASE n = 0
    <2>1. Sums([i \in 0 .. 0 |-> 0], s, 0)
      BY DEF Sums
    <2> QED
      BY <1>2, <2>1
  <1>3. CASE n # 0
    <2>1. n - 1 \in Nat /\ n - 1 \notin T
      BY <1>1, <1>3
    <2>2. PICK f : Sums(f, s, n - 1)
      BY <2>1
    <2> DEFINE g == [i \in 0 .. n |-> IF i = n THEN f[n - 1] + SizeOf(s[n]) ELSE f[i]]
    <2>3. ASSUME NEW i \in 0 .. n
          PROVE  g[i] = IF i = 0 THEN 0 ELSE g[i - 1] + SizeOf(s[i])
      <3>1. CASE i = n
        BY <1>3, <2>1, <3>1
      <3>2. CASE i # n
        <4>1. f[i] = IF i = 0 THEN 0 ELSE f[i - 1] + SizeOf(s[i])
          BY <2>1, <2>2, <3>2 DEF Sums
        <4> QED
          BY <2>1, <3>2, <4>1
      <3> QED
        BY <3>1, <3>2
    <2>4. Sums(g, s, n)
      BY <2>3 DEF Sums
    <2> QED
      BY <2>4
  <1> QED
    BY <1>2, <1>3

\* The sums that BytesOf takes the last of.
SumOf(s) == CHOOSE f : Sums(f, s, Len(s))

LEMMA SumOfValues ==
  ASSUME NEW s \in Seq(Slot)
  PROVE  /\ BytesOf(s) = SumOf(s)[Len(s)]
         /\ SumOf(s)[0] = 0
         /\ \A n \in 1 .. Len(s) : SumOf(s)[n] = SumOf(s)[n - 1] + SizeOf(s[n])
  <1>1. Len(s) \in Nat
    BY LenProperties
  <1>2. Sums(SumOf(s), s, Len(s))
    BY <1>1, SumsExist DEF SumOf
  <1>3. BytesOf(s) = SumOf(s)[Len(s)]
    BY DEF BytesOf, SumOf, Sums
  <1> QED
    BY <1>1, <1>2, <1>3 DEF Sums

LEMMA SizeTyped ==
  ASSUME NEW slot \in Slot
  PROVE  SizeOf(slot) \in Nat
  BY ConfigAssumption DEF ConfigAssumption, Slot, Entry, SizeOf

LEMMA BytesTyped ==
  ASSUME NEW s \in Seq(Slot)
  PROVE  BytesOf(s) \in Nat /\ \A n \in 0 .. Len(s) : SumOf(s)[n] \in Nat
  <1> DEFINE T == {n \in 0 .. Len(s) : SumOf(s)[n] \notin Nat}
  <1>1. Len(s) \in Nat
    BY LenProperties
  <1>2. T = {}
    <2> SUFFICES ASSUME T # {} PROVE FALSE
      OBVIOUS
    <2>9. T \subseteq Nat
      BY <1>1
    <2>1. PICK n \in T : \A k \in T : n <= k
      BY <2>9, LeastNumber
    <2>2. n # 0
      BY SumOfValues
    <2>3. n - 1 \in 0 .. Len(s) /\ n - 1 \notin T /\ n \in 1 .. Len(s)
      BY <1>1, <2>1, <2>2
    <2>4. SumOf(s)[n] = SumOf(s)[n - 1] + SizeOf(s[n])
      BY <2>3, SumOfValues
    <2>5. SizeOf(s[n]) \in Nat
      BY <2>3, SizeTyped, ElementOfSeq
    <2> QED
      BY <2>3, <2>4, <2>5
  <1>3. ASSUME NEW n \in 0 .. Len(s)
        PROVE  SumOf(s)[n] \in Nat
    BY <1>2
  <1> QED
    BY <1>1, <1>3, SumOfValues

\* The bytes of two sequences one after the other.
LEMMA BytesOfConcat ==
  ASSUME NEW s \in Seq(Slot), NEW t \in Seq(Slot)
  PROVE  BytesOf(s \o t) = BytesOf(s) + BytesOf(t)
  <1> DEFINE u == s \o t
             T == {n \in 0 .. Len(s) : SumOf(u)[n] # SumOf(s)[n]}
             U == {n \in 0 .. Len(t) : SumOf(u)[Len(s) + n] # BytesOf(s) + SumOf(t)[n]}
  <1>1. /\ u \in Seq(Slot) /\ Len(s) \in Nat /\ Len(t) \in Nat /\ Len(u) = Len(s) + Len(t)
        /\ \A i \in 1 .. Len(s) : u[i] = s[i]
        /\ \A i \in 1 .. Len(t) : u[Len(s) + i] = t[i]
    <2>1. /\ u \in Seq(Slot) /\ Len(s) \in Nat /\ Len(t) \in Nat /\ Len(u) = Len(s) + Len(t)
          /\ \A i \in 1 .. Len(s) + Len(t) : u[i] = IF i <= Len(s) THEN s[i] ELSE t[i - Len(s)]
      BY ConcatProperties, LenProperties
    <2>2. ASSUME NEW i \in 1 .. Len(t)
          PROVE  u[Len(s) + i] = t[i]
      <3>1. Len(s) + i \in 1 .. Len(s) + Len(t) /\ ~ (Len(s) + i <= Len(s)) /\ Len(s) + i - Len(s) = i
        BY <2>1
      <3> QED
        BY <2>1, <3>1
    <2> HIDE DEF u
    <2> QED
      BY <2>1, <2>2
  <1> HIDE DEF u
  <1>2. /\ BytesOf(u) = SumOf(u)[Len(u)] /\ SumOf(u)[0] = 0
        /\ \A n \in 1 .. Len(u) : SumOf(u)[n] = SumOf(u)[n - 1] + SizeOf(u[n])
    BY <1>1, SumOfValues
  <1>3. /\ BytesOf(s) = SumOf(s)[Len(s)] /\ SumOf(s)[0] = 0
        /\ \A n \in 1 .. Len(s) : SumOf(s)[n] = SumOf(s)[n - 1] + SizeOf(s[n])
    BY SumOfValues
  <1>4. /\ BytesOf(t) = SumOf(t)[Len(t)] /\ SumOf(t)[0] = 0
        /\ \A n \in 1 .. Len(t) : SumOf(t)[n] = SumOf(t)[n - 1] + SizeOf(t[n])
    BY SumOfValues
  <1>5. T = {}
    <2> SUFFICES ASSUME T # {} PROVE FALSE
      OBVIOUS
    <2>9. T \subseteq Nat
      BY <1>1
    <2>1. PICK n \in T : \A k \in T : n <= k
      BY <2>9, LeastNumber
    <2>2. n # 0
      BY <1>2, <1>3
    <2>3. n - 1 \in 0 .. Len(s) /\ n - 1 \notin T /\ n \in 1 .. Len(s) /\ n \in 1 .. Len(u)
      BY <1>1, <2>1, <2>2
    <2> QED
      BY <1>1, <1>2, <1>3, <2>1, <2>3
  <1>6. SumOf(u)[Len(s)] = BytesOf(s)
    BY <1>1, <1>3, <1>5
  <1>7. U = {}
    <2> SUFFICES ASSUME U # {} PROVE FALSE
      OBVIOUS
    <2>9. U \subseteq Nat
      BY <1>1
    <2>1. PICK n \in U : \A k \in U : n <= k
      BY <2>9, LeastNumber
    <2>2. BytesOf(s) \in Nat
      BY BytesTyped
    <2>3. n # 0
      BY <1>1, <1>4, <1>6, <2>2
    <2>4. /\ n - 1 \in 0 .. Len(t) /\ n - 1 \notin U /\ n \in 1 .. Len(t)
          /\ Len(s) + n \in 1 .. Len(u) /\ Len(s) + n - 1 = Len(s) + (n - 1)
      BY <1>1, <2>1, <2>3
    <2>5. SumOf(u)[Len(s) + n] = SumOf(u)[Len(s) + (n - 1)] + SizeOf(t[n])
      <3>1. u[Len(s) + n] = t[n]
        BY <1>1, <2>4
      <3>2. \A i \in 1 .. Len(u) : SumOf(u)[i] = SumOf(u)[i - 1] + SizeOf(u[i])
        BY <1>2
      <3> DEFINE i == Len(s) + n
      <3>3. i \in 1 .. Len(u)
        BY <2>4
      <3> HIDE DEF i
      <3>4. SumOf(u)[i] = SumOf(u)[i - 1] + SizeOf(u[i])
        BY <3>2, <3>3, Zenon
      <3> QED
        <4>1. i - 1 = Len(s) + (n - 1)
          BY <1>1, <2>4 DEF i
        <4>2. SizeOf(u[i]) = SizeOf(t[n])
          BY <3>1, Zenon DEF i
        <4>3. SumOf(u)[i - 1] = SumOf(u)[Len(s) + (n - 1)] /\ SumOf(u)[i] = SumOf(u)[Len(s) + n]
          BY <4>1, Zenon DEF i
        <4> QED
          BY <3>4, <4>2, <4>3, Zenon
    <2>6. SumOf(u)[Len(s) + (n - 1)] = BytesOf(s) + SumOf(t)[n - 1]
      BY <2>4
    <2>7. SumOf(t)[n] = SumOf(t)[n - 1] + SizeOf(t[n])
      BY <1>4, <2>4
    <2>8. SizeOf(t[n]) \in Nat
      BY <2>4, SizeTyped, ElementOfSeq
    <2>10. SumOf(t)[n - 1] \in Nat
      BY <2>4, BytesTyped
    <2>11. SumOf(u)[Len(s) + n] = BytesOf(s) + SumOf(t)[n]
      BY <2>2, <2>5, <2>6, <2>7, <2>8, <2>10
    <2> QED
      BY <2>1, <2>11
  <1>8. SumOf(u)[Len(s) + Len(t)] = BytesOf(s) + SumOf(t)[Len(t)]
    BY <1>1, <1>7
  <1> QED
    BY <1>1, <1>2, <1>4, <1>8 DEF u

LEMMA BytesOfOne ==
  ASSUME NEW slot \in Slot
  PROVE  <<slot>> \in Seq(Slot) /\ BytesOf(<<slot>>) = SizeOf(slot)
  <1>1. <<slot>> \in Seq(Slot) /\ Len(<<slot>>) = 1 /\ <<slot>>[1] = slot
    OBVIOUS
  <1>2. BytesOf(<<slot>>) = SumOf(<<slot>>)[1] /\ SumOf(<<slot>>)[0] = 0
    BY <1>1, SumOfValues
  <1>3. SumOf(<<slot>>)[1] = SumOf(<<slot>>)[1 - 1] + SizeOf(<<slot>>[1])
    <2>1. \A n \in 1 .. Len(<<slot>>) : SumOf(<<slot>>)[n] = SumOf(<<slot>>)[n - 1] + SizeOf(<<slot>>[n])
      BY <1>1, SumOfValues
    <2>2. 1 \in 1 .. Len(<<slot>>)
      BY <1>1
    <2> QED
      BY <2>1, <2>2, Zenon
  <1> QED
    BY <1>1, <1>2, <1>3, SizeTyped

LEMMA BytesOfNone == BytesOf(<<>>) = 0
  BY SumOfValues, EmptySeq

LEMMA BytesOfAppend ==
  ASSUME NEW s \in Seq(Slot), NEW slot \in Slot
  PROVE  BytesOf(Append(s, slot)) = BytesOf(s) + SizeOf(slot)
  <1>1. Append(s, slot) = s \o <<slot>>
    BY AppendIsConcat
  <1>2. BytesOf(s \o <<slot>>) = BytesOf(s) + BytesOf(<<slot>>)
    BY BytesOfOne, BytesOfConcat
  <1> QED
    BY <1>1, <1>2, BytesOfOne

\* A sequence cut in two.
LEMMA Cut ==
  ASSUME NEW s \in Seq(Slot), NEW n \in 0 .. Len(s)
  PROVE  /\ SubSeq(s, 1, n) \in Seq(Slot) /\ DropHead(s, n) \in Seq(Slot)
         /\ Len(SubSeq(s, 1, n)) = n /\ Len(DropHead(s, n)) = Len(s) - n
         /\ \A i \in 1 .. Len(s) - n : DropHead(s, n)[i] = s[n + i]
         /\ BytesOf(SubSeq(s, 1, n)) + BytesOf(DropHead(s, n)) = BytesOf(s)
  <1>1. Len(s) \in Nat
    BY LenProperties
  <1>2. SubSeq(s, 1, n) \in Seq(Slot) /\ Len(SubSeq(s, 1, n)) = n
    BY <1>1, SubSeqProperties
  <1>3. /\ DropHead(s, n) \in Seq(Slot) /\ Len(DropHead(s, n)) = Len(s) - n
        /\ \A i \in 1 .. Len(s) - n : DropHead(s, n)[i] = s[n + i]
    BY <1>1, SubSeqProperties DEF DropHead
  <1>4. SubSeq(s, 1, n) \o DropHead(s, n) = s
    <2>1. SubSeq(s, 1, n) \o SubSeq(s, n + 1, Len(s)) = SubSeq(s, 1, Len(s))
      <3>1. 1 \in 1 .. Len(s) + 1 /\ n \in 1 - 1 .. Len(s) /\ Len(s) \in n .. Len(s)
        BY <1>1
      <3> QED
        BY <3>1, ConcatAdjacentSubSeq
    <2> QED
      BY <2>1, SubSeqFull DEF DropHead
  <1> QED
    BY <1>2, <1>3, <1>4, BytesOfConcat

-----------------------------------------------------------------------------
\* What the operations do to the map

\* An IndexMap holds a key at most once.
Distinct(s) == \A i, j \in DOMAIN s : s[i].key = s[j].key => i = j

\* shift_remove of an entry that is there: the others close up.
LEMMA WithoutOne ==
  ASSUME NEW s \in Seq(Slot), Distinct(s), NEW i \in 1 .. Len(s)
  PROVE  /\ Without(s, s[i].key) \in Seq(Slot)
         /\ Len(Without(s, s[i].key)) = Len(s) - 1
         /\ \A j \in 1 .. Len(s) - 1 : Without(s, s[i].key)[j] = IF j < i THEN s[j] ELSE s[j + 1]
         /\ BytesOf(Without(s, s[i].key)) + SizeOf(s[i]) = BytesOf(s)
  <1> DEFINE front == SubSeq(s, 1, i - 1)
             back == SubSeq(s, i + 1, Len(s))
             rest == front \o back
  <1>1. Len(s) \in Nat /\ DOMAIN s = 1 .. Len(s)
    BY LenProperties
  <1>2. Without(s, s[i].key) = rest
    <2>1. {j \in 1 .. Len(s) : s[j].key = s[i].key} = {i}
      BY <1>1 DEF Distinct
    <2>2. Min({i}) = i
      BY <1>1 DEF Min
    <2>3. SelectInSeq(s, LAMBDA slot : slot.key = s[i].key) = i
      BY <2>1, <2>2 DEF SelectInSeq
    <2> QED
      BY <2>3 DEF Without, RemoveFirstMatch, RemoveAt
  <1>3. /\ front \in Seq(Slot) /\ Len(front) = i - 1
        /\ \A j \in 1 .. i - 1 : front[j] = s[j]
    BY <1>1, SubSeqProperties
  <1>4. /\ back \in Seq(Slot) /\ Len(back) = Len(s) - i
        /\ \A j \in 1 .. Len(s) - i : back[j] = s[i + j]
    <2>1. i \in 0 .. Len(s) /\ back = DropHead(s, i)
      BY <1>1 DEF DropHead
    <2>2. /\ DropHead(s, i) \in Seq(Slot) /\ Len(DropHead(s, i)) = Len(s) - i
          /\ \A j \in 1 .. Len(s) - i : DropHead(s, i)[j] = s[i + j]
      BY <2>1, Cut
    <2> QED
      BY <2>1, <2>2, Zenon
  <1>5. BytesOf(rest) = BytesOf(front) + BytesOf(back)
    BY <1>3, <1>4, BytesOfConcat
  <1>6. BytesOf(s) = BytesOf(front) + SizeOf(s[i]) + BytesOf(back)
    <2>1. i \in 0 .. Len(s) /\ DropHead(s, i) = back
      BY <1>1 DEF DropHead
    <2>2. BytesOf(SubSeq(s, 1, i)) + BytesOf(back) = BytesOf(s)
      <3>1. BytesOf(SubSeq(s, 1, i)) + BytesOf(DropHead(s, i)) = BytesOf(s)
        BY <2>1, Cut
      <3> QED
        BY <2>1, <3>1, Zenon
    <2>3. SubSeq(s, 1, i) = front \o <<s[i]>>
      <3>1. 1 \in 1 .. Len(s) /\ i \in 1 .. Len(s)
        BY <1>1
      <3> QED
        BY <3>1, SubSeqRecursiveSecond
    <2>4. s[i] \in Slot
      BY ElementOfSeq
    <2>5. BytesOf(SubSeq(s, 1, i)) = BytesOf(front) + SizeOf(s[i])
      BY <1>3, <2>3, <2>4, BytesOfConcat, BytesOfOne
    <2> QED
      BY <2>2, <2>5
  <1>7. BytesOf(front) \in Nat /\ BytesOf(back) \in Nat /\ SizeOf(s[i]) \in Nat
    BY <1>3, <1>4, BytesTyped, SizeTyped, ElementOfSeq
  <1>8. /\ rest \in Seq(Slot) /\ Len(rest) = Len(front) + Len(back)
        /\ \A j \in 1 .. Len(front) + Len(back) :
             rest[j] = IF j <= Len(front) THEN front[j] ELSE back[j - Len(front)]
    BY <1>3, <1>4, ConcatProperties
  <1> HIDE DEF front, back, rest
  <1>9. ASSUME NEW j \in 1 .. Len(s) - 1
        PROVE  rest[j] = IF j < i THEN s[j] ELSE s[j + 1]
    <2>9. j \in 1 .. Len(front) + Len(back) /\ (j <= Len(front) <=> j < i)
      BY <1>1, <1>3, <1>4
    <2>1. CASE j < i
      <3>1. rest[j] = front[j] /\ j \in 1 .. i - 1
        BY <1>1, <1>8, <2>1, <2>9
      <3> QED
        BY <1>3, <2>1, <3>1
    <2>2. CASE j >= i
      <3>1. j - (i - 1) \in 1 .. Len(s) - i /\ i + (j - (i - 1)) = j + 1
        BY <1>1, <2>2
      <3>2. ~ (j <= Len(front)) /\ Len(front) = i - 1
        BY <1>1, <1>3, <2>2, <2>9
      <3>3. rest[j] = back[j - (i - 1)]
        BY <1>8, <2>9, <3>2
      <3> QED
        BY <1>1, <1>4, <2>2, <3>1, <3>3
    <2>3. j < i \/ j >= i
      BY <1>1
    <2> QED
      BY <2>1, <2>2, <2>3, Zenon
  <1>10. Len(rest) = Len(s) - 1
    BY <1>1, <1>3, <1>4, <1>8
  <1>11. BytesOf(rest) + SizeOf(s[i]) = BytesOf(s)
    BY <1>5, <1>6, <1>7
  <1> QED
    BY <1>2, <1>8, <1>9, <1>10, <1>11

LEMMA WithoutNone ==
  ASSUME NEW s, NEW k, \A i \in 1 .. Len(s) : s[i].key # k
  PROVE  Without(s, k) = s
  BY DEF Without, RemoveFirstMatch

\* The sweep stops somewhere.
LEMMA SweptLengthTyped ==
  ASSUME NEW s \in Seq(Slot)
  PROVE  SweptLength(s) \in 0 .. Len(s)
  <1> DEFINE T == {n \in 0 .. Len(s) : n < Len(s) => ~ Expired(s[n + 1])}
  <1>1. Len(s) \in Nat
    BY LenProperties
  <1>2. T \subseteq Nat /\ Len(s) \in T
    BY <1>1
  <1>3. PICK n \in T : \A m \in T : n <= m
    BY <1>2, LeastNumber
  <1>4. \A i \in 1 .. n : Expired(s[i])
    <2> SUFFICES ASSUME NEW i \in 1 .. n PROVE Expired(s[i])
      OBVIOUS
    <2>1. n \in 0 .. Len(s)
      BY <1>3
    <2>2. i - 1 \in 0 .. Len(s) /\ ~ (n <= i - 1) /\ i - 1 < Len(s) /\ (i - 1) + 1 = i
      BY <1>1, <2>1
    <2>3. i - 1 \notin T
      BY <1>3, <2>2
    <2> QED
      BY <2>2, <2>3
  <1>5. \E m \in 0 .. Len(s) : (\A i \in 1 .. m : Expired(s[i])) /\ (m < Len(s) => ~ Expired(s[m + 1]))
    BY <1>3, <1>4
  <1> QED
    BY <1>5 DEF SweptLength

\* The eviction loop ends: with room for the entry, or with nothing left.
LEMMA EvictedLengthTyped ==
  ASSUME NEW s \in Seq(Slot), NEW bytes \in Nat, NEW size \in Nat
  PROVE  /\ EvictedLength(s, bytes, size) \in 0 .. Len(s)
         /\ \/ EvictedLength(s, bytes, size) = Len(s)
            \/ Saturating(bytes, BytesOf(SubSeq(s, 1, EvictedLength(s, bytes, size)))) + size <= MaxBytes
  <1> DEFINE Fits(n) == Saturating(bytes, BytesOf(SubSeq(s, 1, n))) + size <= MaxBytes
             Ends(n) == (n = Len(s) \/ Fits(n)) /\ \A m \in 0 .. n - 1 : ~ Fits(m)
             T == {n \in 0 .. Len(s) : n = Len(s) \/ Fits(n)}
  <1>1. Len(s) \in Nat
    BY LenProperties
  <1>2. T \subseteq Nat /\ Len(s) \in T
    BY <1>1
  <1>3. PICK n \in T : \A m \in T : n <= m
    BY <1>2, LeastNumber
  <1>4. Ends(n)
    <2> HIDE DEF Fits
    <2>1. ASSUME NEW m \in 0 .. n - 1
          PROVE  ~ Fits(m)
      <3>1. m \in 0 .. Len(s) /\ m \notin T
        BY <1>1, <1>3
      <3> QED
        BY <3>1
    <2> QED
      BY <1>3, <2>1
  <1>5. EvictedLength(s, bytes, size) = CHOOSE m \in 0 .. Len(s) : Ends(m)
    BY DEF EvictedLength
  <1>6. EvictedLength(s, bytes, size) \in 0 .. Len(s) /\ Ends(EvictedLength(s, bytes, size))
    <2> HIDE DEF Ends
    <2> QED
      BY <1>3, <1>4, <1>5
  <1> QED
    BY <1>6

LEMMA DroppedTwice ==
  ASSUME NEW s \in Seq(Slot), NEW n \in 0 .. Len(s), NEW m \in 0 .. Len(s) - n
  PROVE  DropHead(DropHead(s, n), m) = DropHead(s, n + m)
  <1> DEFINE u == DropHead(s, n)
             v == DropHead(u, m)
             w == DropHead(s, n + m)
  <1>1. Len(s) \in Nat
    BY LenProperties
  <1>2. /\ u \in Seq(Slot) /\ Len(u) = Len(s) - n
        /\ \A i \in 1 .. Len(s) - n : u[i] = s[n + i]
    BY Cut
  <1>3. m \in 0 .. Len(u) /\ n + m \in 0 .. Len(s)
    BY <1>1, <1>2
  <1> HIDE DEF u
  <1>4. /\ v \in Seq(Slot) /\ Len(v) = Len(u) - m
        /\ \A i \in 1 .. Len(u) - m : v[i] = u[m + i]
    BY <1>2, <1>3, Cut
  <1>5. /\ w \in Seq(Slot) /\ Len(w) = Len(s) - (n + m)
        /\ \A i \in 1 .. Len(s) - (n + m) : w[i] = s[n + m + i]
    BY <1>3, Cut
  <1> HIDE DEF v, w
  <1>6. Len(v) = Len(w) /\ Len(w) \in Nat
    BY <1>1, <1>2, <1>3, <1>4, <1>5
  <1>7. ASSUME NEW i \in 1 .. Len(v)
        PROVE  v[i] = w[i]
    <2>1. i \in 1 .. Len(u) - m /\ m + i \in 1 .. Len(s) - n /\ n + (m + i) = n + m + i
          /\ i \in 1 .. Len(s) - (n + m)
      BY <1>1, <1>2, <1>3, <1>4
    <2> QED
      BY <1>2, <1>4, <1>5, <2>1
  <1>8. v = w
    BY <1>4, <1>5, <1>6, <1>7, SeqEqual
  <1> QED
    BY <1>8 DEF u, v, w

\* Where the entry of a key was, and what is left without it: m is its index, or
\* one past the end when there is none.
Gap(s, k, m) ==
  /\ m \in 1 .. Len(s) + 1
  /\ \A i \in 1 .. Len(s) : s[i].key = k <=> i = m
  /\ Without(s, k) \in Seq(Slot)
  /\ Len(Without(s, k)) = IF m <= Len(s) THEN Len(s) - 1 ELSE Len(s)
  /\ \A j \in 1 .. Len(Without(s, k)) : Without(s, k)[j] = s[IF j < m THEN j ELSE j + 1]
  /\ BytesOf(Without(s, k)) + (IF m <= Len(s) THEN SizeOf(s[m]) ELSE 0) = BytesOf(s)

LEMMA WithoutGap ==
  ASSUME NEW s \in Seq(Slot), Distinct(s), NEW k
  PROVE  \E m : Gap(s, k, m)
  <1>1. Len(s) \in Nat /\ DOMAIN s = 1 .. Len(s)
    BY LenProperties
  <1>2. CASE \E i \in 1 .. Len(s) : s[i].key = k
    <2>1. PICK m \in 1 .. Len(s) : s[m].key = k
      BY <1>2
    <2>2. \A i \in 1 .. Len(s) : s[i].key = k <=> i = m
      BY <1>1, <2>1 DEF Distinct
    <2>3. /\ Without(s, k) \in Seq(Slot)
          /\ Len(Without(s, k)) = Len(s) - 1
          /\ \A j \in 1 .. Len(s) - 1 : Without(s, k)[j] = IF j < m THEN s[j] ELSE s[j + 1]
          /\ BytesOf(Without(s, k)) + SizeOf(s[m]) = BytesOf(s)
      BY <2>1, WithoutOne
    <2>4. m \in 1 .. Len(s) + 1 /\ m <= Len(s)
      BY <1>1
    <2>5. Gap(s, k, m)
      BY <2>2, <2>3, <2>4 DEF Gap
    <2> QED
      BY <2>5
  <1>3. CASE \A i \in 1 .. Len(s) : s[i].key # k
    <2>1. Without(s, k) = s
      BY <1>3, WithoutNone
    <2>2. BytesOf(s) \in Nat
      BY BytesTyped
    <2>3. Len(s) + 1 \in 1 .. Len(s) + 1 /\ ~ (Len(s) + 1 <= Len(s))
          /\ \A i \in 1 .. Len(s) : i # Len(s) + 1 /\ i < Len(s) + 1
      BY <1>1
    <2>4. BytesOf(s) + 0 = BytesOf(s)
      BY <2>2
    <2>5. Gap(s, k, Len(s) + 1)
      BY <1>3, <2>1, <2>3, <2>4 DEF Gap
    <2> QED
      BY <2>5
  <1> QED
    BY <1>2, <1>3

\* What is left keeps a key at most once, and holds the other keys.
LEMMA WithoutKeys ==
  ASSUME NEW s \in Seq(Slot), Distinct(s), NEW k
  PROVE  /\ Without(s, k) \in Seq(Slot) /\ Distinct(Without(s, k))
         /\ KeysOf(Without(s, k)) = KeysOf(s) \ {k}
         /\ \A j \in DOMAIN Without(s, k) : \E i \in DOMAIN s : Without(s, k)[j] = s[i]
  <1> DEFINE w == Without(s, k)
  <1>1. PICK m : Gap(s, k, m)
    BY WithoutGap
  <1>2. Len(s) \in Nat /\ DOMAIN s = 1 .. Len(s)
    BY LenProperties
  <1>3. w \in Seq(Slot) /\ Len(w) \in Nat /\ DOMAIN w = 1 .. Len(w)
    BY <1>1, LenProperties DEF Gap
  <1>7. \A i \in 1 .. Len(s) : s[i].key = k <=> i = m
    BY <1>1 DEF Gap
  <1>10. m \in 1 .. Len(s) + 1
    BY <1>1, Zenon DEF Gap
  <1>13. Len(w) = IF m <= Len(s) THEN Len(s) - 1 ELSE Len(s)
    BY <1>1 DEF Gap
  <1>12. \A j \in 1 .. Len(w) : w[j] = s[IF j < m THEN j ELSE j + 1]
    BY <1>1 DEF Gap
  <1> HIDE DEF w
  <1>14. Len(s) \in Nat /\ Len(w) \in Nat
    BY <1>2, <1>3
  <1>15. m \in Nat /\ 1 <= m /\ m <= Len(s) + 1
    BY <1>10, <1>14
  <1>11. (m <= Len(s) => Len(w) = Len(s) - 1) /\ (m > Len(s) => Len(w) = Len(s))
    BY <1>13, <1>14, <1>15
  <1> DEFINE at(j) == IF j < m THEN j ELSE j + 1
  <1>4. ASSUME NEW j \in 1 .. Len(w)
        PROVE  at(j) \in 1 .. Len(s) /\ at(j) # m /\ w[j] = s[at(j)]
    <2>1. at(j) \in 1 .. Len(s) /\ at(j) # m
      <3>1. j \in Nat
        BY <1>3
      <3>2. CASE j < m
        BY <1>11, <1>14, <1>15, <3>1, <3>2
      <3>3. CASE ~ (j < m)
        <4>1. j + 1 \in 1 .. Len(s) /\ j + 1 # m
          BY <1>11, <1>14, <1>15, <3>1, <3>3
        <4> QED
          BY <3>3, <4>1
      <3> QED
        BY <3>2, <3>3
    <2> QED
      BY <1>12, <2>1
  <1>5. Distinct(w)
    <2> SUFFICES ASSUME NEW i \in 1 .. Len(w), NEW j \in 1 .. Len(w), w[i].key = w[j].key
                 PROVE  i = j
      BY <1>3 DEF Distinct
    <2>1. at(i) \in DOMAIN s /\ at(j) \in DOMAIN s /\ s[at(i)].key = s[at(j)].key
      <3> HIDE DEF at
      <3> QED
        BY <1>2, <1>4
    <2>2. at(i) = at(j)
      <3> HIDE DEF at
      <3> QED
        BY <2>1 DEF Distinct
    <2>3. m \in Nat /\ i \in Nat /\ j \in Nat
      BY <1>14, <1>15
    <2> QED
      BY <2>2, <2>3
  <1>6. ASSUME NEW i \in 1 .. Len(s), i # m
        PROVE  \E j \in 1 .. Len(w) : w[j] = s[i]
    <2>1. CASE i < m
      <3>1. i \in 1 .. Len(w) /\ at(i) = i
        BY <1>11, <1>14, <1>15, <2>1
      <3> QED
        BY <1>4, <3>1
    <2>2. CASE i > m
      <3>1. i - 1 \in 1 .. Len(w) /\ at(i - 1) = i
        BY <1>11, <1>14, <1>15, <2>2
      <3> QED
        BY <1>4, <3>1
    <2> QED
      BY <1>14, <1>15, <1>6, <2>1, <2>2
  <1> HIDE DEF at
  <1>8. KeysOf(w) = KeysOf(s) \ {k}
    <2>1. ASSUME NEW l \in KeysOf(w)
          PROVE  l \in KeysOf(s) \ {k}
      <3>1. PICK j \in 1 .. Len(w) : l = w[j].key
        BY <1>3 DEF KeysOf
      <3>2. at(j) \in 1 .. Len(s) /\ at(j) # m /\ l = s[at(j)].key
        BY <1>4, <3>1
      <3> QED
        BY <1>2, <1>7, <3>2 DEF KeysOf
    <2>2. ASSUME NEW l \in KeysOf(s) \ {k}
          PROVE  l \in KeysOf(w)
      <3>1. PICK i \in 1 .. Len(s) : l = s[i].key
        BY <1>2 DEF KeysOf
      <3>2. i # m
        BY <1>7, <3>1
      <3>3. PICK j \in 1 .. Len(w) : w[j] = s[i]
        BY <1>6, <3>2
      <3> QED
        BY <1>3, <3>1, <3>3 DEF KeysOf
    <2> QED
      BY <2>1, <2>2
  <1> QED
    BY <1>2, <1>3, <1>4, <1>5, <1>8 DEF w

LEMMA AppendKeys ==
  ASSUME NEW s \in Seq(Slot), Distinct(s), NEW slot \in Slot, slot.key \notin KeysOf(s)
  PROVE  /\ Append(s, slot) \in Seq(Slot) /\ Distinct(Append(s, slot))
         /\ KeysOf(Append(s, slot)) = KeysOf(s) \cup {slot.key}
  <1> DEFINE a == Append(s, slot)
  <1>1. Len(s) \in Nat /\ DOMAIN s = 1 .. Len(s)
    BY LenProperties
  <1>2. /\ a \in Seq(Slot) /\ Len(a) = Len(s) + 1 /\ DOMAIN a = 1 .. Len(s) + 1
        /\ \A i \in 1 .. Len(s) : a[i] = s[i]
        /\ a[Len(s) + 1] = slot
    BY <1>1, AppendProperties, LenProperties
  <1> HIDE DEF a
  <1>3. 1 .. Len(s) + 1 = 1 .. Len(s) \cup {Len(s) + 1}
    BY <1>1
  <1>4. KeysOf(a) = KeysOf(s) \cup {slot.key}
    BY <1>1, <1>2, <1>3 DEF KeysOf
  <1>5. \A i \in 1 .. Len(s) : s[i].key # slot.key
    BY <1>1 DEF KeysOf
  <1>6. Distinct(a)
    BY <1>1, <1>2, <1>3, <1>5 DEF Distinct
  <1> QED
    BY <1>2, <1>4, <1>6 DEF a

\* The head that goes and the rest share no key, and the head has as many keys as
\* entries.
LEMMA DropKeys ==
  ASSUME NEW s \in Seq(Slot), Distinct(s), NEW n \in 0 .. Len(s)
  PROVE  /\ DropHead(s, n) \in Seq(Slot) /\ Distinct(DropHead(s, n))
         /\ KeysOf(DropHead(s, n)) = KeysOf(s) \ {s[i].key : i \in 1 .. n}
         /\ {s[i].key : i \in 1 .. n} \subseteq KeysOf(s)
         /\ Cardinality({s[i].key : i \in 1 .. n}) = n
  <1> DEFINE r == DropHead(s, n)
             gone == {s[i].key : i \in 1 .. n}
  <1>1. Len(s) \in Nat /\ DOMAIN s = 1 .. Len(s) /\ n \in Nat /\ n <= Len(s)
    BY LenProperties
  <1>2. /\ r \in Seq(Slot) /\ Len(r) = Len(s) - n /\ DOMAIN r = 1 .. Len(s) - n
        /\ \A i \in 1 .. Len(s) - n : r[i] = s[n + i]
    BY Cut, LenProperties
  <1> HIDE DEF r
  <1>3. \A i \in 1 .. Len(s) - n : n + i \in 1 .. Len(s) /\ n + i \notin 1 .. n
    BY <1>1
  <1>4. Distinct(r)
    <2> SUFFICES ASSUME NEW i \in 1 .. Len(s) - n, NEW j \in 1 .. Len(s) - n, r[i].key = r[j].key
                 PROVE  i = j
      BY <1>2 DEF Distinct
    <2>2. n + i \in DOMAIN s /\ n + j \in DOMAIN s /\ s[n + i].key = s[n + j].key
      BY <1>1, <1>2, <1>3
    <2>1. n + i = n + j
      BY <2>2 DEF Distinct
    <2> QED
      BY <1>1, <2>1
  <1>5. \A i \in 1 .. Len(s) : i \in 1 .. n \/ \E j \in 1 .. Len(s) - n : i = n + j
    <2> SUFFICES ASSUME NEW i \in 1 .. Len(s), i \notin 1 .. n
                 PROVE  \E j \in 1 .. Len(s) - n : i = n + j
      OBVIOUS
    <2>1. i - n \in 1 .. Len(s) - n /\ i = n + (i - n)
      BY <1>1
    <2> QED
      BY <2>1
  <1>6. 1 .. n \subseteq 1 .. Len(s)
    BY <1>1
  <1>7. KeysOf(r) = KeysOf(s) \ gone
    <2>1. ASSUME NEW k \in KeysOf(r)
          PROVE  k \in KeysOf(s) \ gone
      <3>1. PICK i \in 1 .. Len(s) - n : k = s[n + i].key
        BY <1>2 DEF KeysOf
      <3>2. n + i \in 1 .. Len(s) /\ n + i \notin 1 .. n
        BY <1>3
      <3>3. ASSUME NEW j \in 1 .. n PROVE k # s[j].key
        BY <1>1, <1>6, <3>1, <3>2 DEF Distinct
      <3> QED
        BY <1>1, <3>1, <3>2, <3>3 DEF KeysOf
    <2>2. ASSUME NEW k \in KeysOf(s) \ gone
          PROVE  k \in KeysOf(r)
      <3>1. PICK i \in 1 .. Len(s) : k = s[i].key
        BY <1>1 DEF KeysOf
      <3>2. i \notin 1 .. n
        BY <3>1
      <3>3. PICK j \in 1 .. Len(s) - n : i = n + j
        BY <1>5, <3>2
      <3>4. k = r[j].key
        BY <1>2, <3>1, <3>3
      <3> QED
        BY <1>2, <3>4 DEF KeysOf
    <2> QED
      BY <2>1, <2>2
  <1>8. Cardinality(gone) = n
    <2> DEFINE f == [i \in 1 .. n |-> s[i].key]
    <2>1. f \in Bijection(1 .. n, gone)
      BY <1>1, <1>6 DEF Distinct, Bijection, Injection, Surjection, IsInjective
    <2>2. IsFiniteSet(1 .. n) /\ Cardinality(1 .. n) = n
      BY <1>1, FS_Interval
    <2> HIDE DEF f, gone
    <2>3. IsFiniteSet(gone) /\ Cardinality(gone) = Cardinality(1 .. n)
      BY <2>1, <2>2, FS_Bijection DEF ExistsBijection
    <2> QED
      BY <2>2, <2>3
  <1>9. gone \subseteq KeysOf(s)
    BY <1>1, <1>6 DEF KeysOf
  <1> QED
    BY <1>2, <1>4, <1>7, <1>8, <1>9 DEF r

-----------------------------------------------------------------------------
\* What a put and the removal on a miss do to the map and its byte count

LEMMA SaturatingRest ==
  ASSUME NEW x \in Nat, NEW y \in Nat, NEW z, x + y = z
  PROVE  Saturating(z, x) = y
  BY DEF Saturating

LEMMA MapDistinct == TypeOK => map \in Seq(Slot) /\ Distinct(map)
  BY DEF TypeOK, Distinct

\* The entry of a key is the one at its gap.
LEMMA LookupAtGap ==
  ASSUME TypeOK, NEW k, NEW m, Gap(map, k, m)
  PROVE  /\ Has(k) <=> m <= Len(map)
         /\ Has(k) => /\ IndexOfKey(k) = m /\ m \in 1 .. Len(map)
                      /\ map[m] \in Slot /\ map[m].key = k /\ Lookup(k) = map[m].entry
         /\ BytesOf(Without(map, k)) + ReplacedBytes(k) = BytesOf(map)
         /\ ReplacedBytes(k) \in Nat
  <1>1. map \in Seq(Slot) /\ Len(map) \in Nat /\ DOMAIN map = 1 .. Len(map)
    BY LenProperties DEF TypeOK
  <1>2. m \in 1 .. Len(map) + 1 /\ \A i \in 1 .. Len(map) : map[i].key = k <=> i = m
    BY Zenon DEF Gap
  <1>3. Len(map) \in Nat
    BY <1>1
  <1>4. m \in Nat /\ 1 <= m /\ m <= Len(map) + 1
    BY <1>2, <1>3
  <1>5. m \in 1 .. Len(map) <=> m <= Len(map)
    BY <1>3, <1>4
  <1>6. Has(k) <=> m \in 1 .. Len(map)
    <2>1. Has(k) <=> \E i \in 1 .. Len(map) : map[i].key = k
      BY <1>1 DEF Has
    <2> QED
      BY <1>2, <2>1, Zenon
  <1>7. Has(k) => /\ IndexOfKey(k) = m /\ map[m] \in Slot /\ map[m].key = k
                  /\ Lookup(k) = map[m].entry
    <2> SUFFICES ASSUME Has(k)
                 PROVE  /\ IndexOfKey(k) = m /\ map[m] \in Slot /\ map[m].key = k
                        /\ Lookup(k) = map[m].entry
      OBVIOUS
    <2>1. \A i \in DOMAIN map : map[i].key = k <=> i = m
      BY <1>1, <1>2
    <2>2. m \in DOMAIN map
      BY <1>1, <1>6
    <2>3. IndexOfKey(k) = m
      BY <2>1, <2>2 DEF IndexOfKey
    <2>4. map[m] \in Slot
      BY <1>1, <2>2, ElementOfSeq
    <2> QED
      BY <2>1, <2>2, <2>3, <2>4 DEF Lookup
  <1>8. BytesOf(Without(map, k)) + (IF m <= Len(map) THEN SizeOf(map[m]) ELSE 0) = BytesOf(map)
    BY DEF Gap
  <1>9. ReplacedBytes(k) = IF m <= Len(map) THEN SizeOf(map[m]) ELSE 0
    BY <1>5, <1>6, <1>7 DEF ReplacedBytes, SizeOf
  <1>10. m <= Len(map) => SizeOf(map[m]) \in Nat
    BY <1>5, <1>6, <1>7, SizeTyped
  <1>11. ReplacedBytes(k) \in Nat
    BY <1>9, <1>10
  <1> QED
    BY <1>5, <1>6, <1>7, <1>8, <1>9, <1>11

\* An accepted put: the entry of its key and a head of the others go, the new
\* entry comes last, and the count is the size of what is there.
Puts(c, swept, evicted) ==
  LET others == Without(map, held[c].key)
      rest == DropHead(others, swept + evicted)
  IN  /\ swept + evicted \in 0 .. Len(others)
      /\ map' = Append(rest, held[c])
      /\ totalBytes' = BytesOf(rest) + SizeOf(held[c])
      /\ swept + evicted = Len(others) \/ totalBytes' <= MaxBytes
      /\ window' = Count(Count(window, "expired", swept), "capacity", evicted)
      /\ total' = Count(Count(total, "expired", swept), "capacity", evicted)

LEMMA PutStep ==
  ASSUME TypeOK, BytesAccounted, NEW c \in Clients, PutAccepted(c)
  PROVE  \E swept, evicted \in Nat : Puts(c, swept, evicted)
  <1> DEFINE k == held[c].key
             size == held[c].entry.body.size
             others == Without(map, k)
             bytes1 == Saturating(totalBytes, ReplacedBytes(k))
             swept == SweptLength(others)
             bytes2 == Saturating(bytes1, BytesOf(SubSeq(others, 1, swept)))
             kept == DropHead(others, swept)
             evicted == EvictedLength(kept, bytes2, size)
             bytes3 == Saturating(bytes2, BytesOf(SubSeq(kept, 1, evicted)))
  <1>1. held[c] \in Slot
    BY DEF TypeOK, PutAccepted
  <1>2. size \in Nat /\ size = SizeOf(held[c])
    BY <1>1, SizeTyped DEF SizeOf
  <1>3. /\ map' = Append(DropHead(kept, evicted), held[c])
        /\ totalBytes' = bytes3 + size
        /\ window' = Count(Count(window, "expired", swept), "capacity", evicted)
        /\ total' = Count(Count(total, "expired", swept), "capacity", evicted)
    BY DEF PutAccepted
  <1>4. PICK m : Gap(map, k, m)
    BY MapDistinct, WithoutGap
  <1>5. others \in Seq(Slot)
    BY <1>4 DEF Gap
  <1>6. BytesOf(others) + ReplacedBytes(k) = BytesOf(map) /\ ReplacedBytes(k) \in Nat
    BY <1>4, LookupAtGap
  <1>7. BytesOf(others) \in Nat /\ bytes1 = BytesOf(others)
    <2>1. BytesOf(others) \in Nat
      BY <1>5, BytesTyped
    <2>2. ReplacedBytes(k) + BytesOf(others) = totalBytes
      BY <1>6, <2>1 DEF BytesAccounted
    <2> QED
      BY <1>6, <2>1, <2>2, SaturatingRest
  <1> HIDE DEF others, bytes1
  <1>8. swept \in 0 .. Len(others) /\ Len(others) \in Nat
    BY <1>5, SweptLengthTyped, LenProperties
  <1> HIDE DEF swept
  <1>9. /\ kept \in Seq(Slot) /\ Len(kept) = Len(others) - swept
        /\ SubSeq(others, 1, swept) \in Seq(Slot)
        /\ BytesOf(SubSeq(others, 1, swept)) + BytesOf(kept) = BytesOf(others)
    BY <1>5, <1>8, Cut
  <1>10. BytesOf(kept) \in Nat /\ bytes2 = BytesOf(kept)
    <2>1. BytesOf(kept) \in Nat /\ BytesOf(SubSeq(others, 1, swept)) \in Nat
      BY <1>9, BytesTyped
    <2> QED
      BY <1>7, <1>9, <2>1, SaturatingRest
  <1> HIDE DEF kept, bytes2
  <1>11. /\ evicted \in 0 .. Len(kept) /\ Len(kept) \in Nat
         /\ evicted = Len(kept) \/ bytes3 + size <= MaxBytes
    BY <1>2, <1>9, <1>10, EvictedLengthTyped, LenProperties
  <1> HIDE DEF evicted
  <1>12. /\ SubSeq(kept, 1, evicted) \in Seq(Slot) /\ DropHead(kept, evicted) \in Seq(Slot)
         /\ BytesOf(SubSeq(kept, 1, evicted)) + BytesOf(DropHead(kept, evicted)) = BytesOf(kept)
    BY <1>9, <1>11, Cut
  <1>13. bytes3 = BytesOf(DropHead(kept, evicted))
    <2>1. BytesOf(SubSeq(kept, 1, evicted)) \in Nat /\ BytesOf(DropHead(kept, evicted)) \in Nat
      BY <1>12, BytesTyped
    <2> QED
      BY <1>10, <1>12, <2>1, SaturatingRest
  <1> HIDE DEF bytes3
  <1>14. DropHead(kept, evicted) = DropHead(others, swept + evicted)
    <2>1. evicted \in 0 .. Len(others) - swept
      BY <1>9, <1>11
    <2> QED
      BY <1>5, <1>8, <2>1, DroppedTwice DEF kept
  <1>15. swept \in Nat /\ evicted \in Nat /\ swept + evicted \in 0 .. Len(others)
    BY <1>8, <1>9, <1>11
  <1>16. swept + evicted = Len(others) \/ totalBytes' <= MaxBytes
    BY <1>3, <1>8, <1>9, <1>11
  <1>17. Puts(c, swept, evicted)
    BY <1>2, <1>3, <1>13, <1>14, <1>15, <1>16 DEF Puts, others
  <1> QED
    BY <1>15, <1>17

LEMMA PutMap ==
  ASSUME TypeOK, NEW c \in Clients, held[c] \in Slot, NEW swept \in Nat, NEW evicted \in Nat,
         Puts(c, swept, evicted)
  PROVE  LET others == Without(map, held[c].key)
             rest == DropHead(others, swept + evicted)
         IN  /\ others \in Seq(Slot) /\ Distinct(others)
             /\ KeysOf(others) = KeysOf(map) \ {held[c].key}
             /\ rest \in Seq(Slot) /\ Distinct(rest) /\ held[c].key \notin KeysOf(rest)
             /\ Len(rest) = Len(others) - (swept + evicted)
             /\ map' \in Seq(Slot) /\ Distinct(map') /\ Len(map') = Len(rest) + 1
             /\ KeysOf(map') = KeysOf(rest) \cup {held[c].key}
             /\ totalBytes' = BytesOf(map')
  <1> DEFINE k == held[c].key
             others == Without(map, k)
             rest == DropHead(others, swept + evicted)
  <1>1. map \in Seq(Slot) /\ Distinct(map)
    BY MapDistinct
  <1>2. others \in Seq(Slot) /\ Distinct(others) /\ KeysOf(others) = KeysOf(map) \ {k}
    BY <1>1, WithoutKeys
  <1>3. swept + evicted \in 0 .. Len(others) /\ map' = Append(rest, held[c])
        /\ totalBytes' = BytesOf(rest) + SizeOf(held[c])
    BY DEF Puts
  <1> HIDE DEF others
  <1>4. /\ rest \in Seq(Slot) /\ Distinct(rest) /\ KeysOf(rest) \subseteq KeysOf(others)
        /\ Len(rest) = Len(others) - (swept + evicted)
    <2> DEFINE d == swept + evicted
    <2>1. d \in 0 .. Len(others)
      BY <1>3
    <2> HIDE DEF d
    <2>2. /\ DropHead(others, d) \in Seq(Slot) /\ Len(DropHead(others, d)) = Len(others) - d
      BY <1>2, <2>1, Cut
    <2>3. Distinct(DropHead(others, d)) /\ KeysOf(DropHead(others, d)) \subseteq KeysOf(others)
      <3>1. /\ Distinct(DropHead(others, d))
            /\ KeysOf(DropHead(others, d)) = KeysOf(others) \ {others[i].key : i \in 1 .. d}
        BY <1>2, <2>1, DropKeys
      <3> QED
        BY <3>1, Zenon
    <2> QED
      BY <2>2, <2>3 DEF d
  <1> HIDE DEF rest
  <1>5. k \notin KeysOf(rest)
    BY <1>2, <1>4
  <1>6. map' \in Seq(Slot) /\ Distinct(map') /\ KeysOf(map') = KeysOf(rest) \cup {k}
    BY <1>3, <1>4, <1>5, AppendKeys
  <1>7. Len(map') = Len(rest) + 1
    BY <1>3, <1>4, AppendProperties
  <1>8. totalBytes' = BytesOf(map')
    BY <1>3, <1>4, BytesOfAppend
  <1> QED
    BY <1>2, <1>4, <1>5, <1>6, <1>7, <1>8 DEF others, rest

LEMMA HitMap ==
  ASSUME TypeOK, NEW c, NEW k, GetHit(c, k)
  PROVE  /\ map' \in Seq(Slot) /\ Distinct(map') /\ Len(map') = Len(map)
         /\ KeysOf(map') = KeysOf(map)
         /\ BytesOf(map') = BytesOf(map)
         /\ \E m \in 1 .. Len(map) : /\ map[m].key = k /\ map[m] \in Slot
                                     /\ Lookup(k) = map[m].entry
                                     /\ map' = Append(Without(map, k), map[m])
  <1>1. map \in Seq(Slot) /\ Distinct(map) /\ Len(map) \in Nat /\ DOMAIN map = 1 .. Len(map)
    BY MapDistinct, LenProperties
  <1>2. PICK m : Gap(map, k, m)
    BY <1>1, WithoutGap
  <1>3. Has(k)
    BY DEF GetHit, Hits
  <1>4. /\ m \in 1 .. Len(map) /\ m <= Len(map) /\ IndexOfKey(k) = m
        /\ map[m] \in Slot /\ map[m].key = k /\ Lookup(k) = map[m].entry
    BY <1>2, <1>3, LookupAtGap
  <1> DEFINE others == Without(map, k)
  <1>5. others \in Seq(Slot) /\ Distinct(others) /\ KeysOf(others) = KeysOf(map) \ {k}
    BY <1>1, WithoutKeys
  <1>6. Len(others) = Len(map) - 1 /\ BytesOf(others) + SizeOf(map[m]) = BytesOf(map)
    BY <1>2, <1>4 DEF Gap
  <1>7. map' = Append(others, map[m])
    BY <1>4 DEF GetHit
  <1> HIDE DEF others
  <1>8. map' \in Seq(Slot) /\ Distinct(map') /\ KeysOf(map') = KeysOf(others) \cup {k}
    BY <1>4, <1>5, <1>7, AppendKeys
  <1>9. KeysOf(map') = KeysOf(map)
    <2>1. k \in KeysOf(map)
      BY <1>1, <1>4 DEF KeysOf
    <2> QED
      BY <1>5, <1>8, <2>1
  <1>10. Len(map') = Len(map)
    <2>1. Len(map') = Len(others) + 1
      BY <1>4, <1>5, <1>7, AppendProperties
    <2>2. Len(map) \in Nat
      BY <1>1
    <2> QED
      BY <1>6, <2>1, <2>2
  <1>11. BytesOf(map') = BytesOf(map)
    BY <1>4, <1>5, <1>6, <1>7, BytesOfAppend
  <1> QED
    BY <1>4, <1>7, <1>8, <1>9, <1>10, <1>11 DEF others

LEMMA RemovalMap ==
  ASSUME TypeOK, BytesAccounted, NEW c, NEW k, GetRemovesExpired(c, k)
  PROVE  /\ map' = Without(map, k)
         /\ map' \in Seq(Slot) /\ Distinct(map') /\ Len(map') = Len(map) - 1
         /\ KeysOf(map') = KeysOf(map) \ {k} /\ k \in KeysOf(map)
         /\ totalBytes' = BytesOf(map') /\ totalBytes' <= totalBytes
  <1>1. map \in Seq(Slot) /\ Distinct(map) /\ Len(map) \in Nat /\ DOMAIN map = 1 .. Len(map)
    BY MapDistinct, LenProperties
  <1>2. PICK m : Gap(map, k, m)
    BY <1>1, WithoutGap
  <1>3. Has(k) /\ map' = Without(map, k)
        /\ totalBytes' = Saturating(totalBytes, ReplacedBytes(k))
    BY DEF GetRemovesExpired, ReplacedBytes
  <1>4. m \in 1 .. Len(map) /\ m <= Len(map) /\ map[m].key = k
        /\ BytesOf(Without(map, k)) + ReplacedBytes(k) = BytesOf(map) /\ ReplacedBytes(k) \in Nat
    BY <1>2, <1>3, LookupAtGap
  <1>5. map' \in Seq(Slot) /\ Distinct(map') /\ KeysOf(map') = KeysOf(map) \ {k}
    BY <1>1, <1>3, WithoutKeys
  <1>6. Len(map') = Len(map) - 1
    BY <1>2, <1>3, <1>4 DEF Gap
  <1>7. BytesOf(map') \in Nat
    BY <1>5, BytesTyped
  <1>8. totalBytes' = BytesOf(map') /\ totalBytes' <= totalBytes
    <2>1. ReplacedBytes(k) + BytesOf(map') = totalBytes
      BY <1>3, <1>4, <1>7 DEF BytesAccounted
    <2>2. totalBytes' = BytesOf(map')
      BY <1>3, <1>4, <1>7, <2>1, SaturatingRest
    <2> QED
      BY <1>4, <1>7, <2>1, <2>2
  <1>9. k \in KeysOf(map)
    BY <1>1, <1>4 DEF KeysOf
  <1> QED
    BY <1>3, <1>5, <1>6, <1>8, <1>9

-----------------------------------------------------------------------------
\* The byte count

\* No conjunct of it can do without the others: the budget is what put compares
\* the count with, and the count is right when every path subtracts what it takes.
LruInv == TypeOK /\ BytesAccounted /\ WithinBudget

LEMMA LruInvInit == Init => LruInv
  <1> SUFFICES ASSUME Init PROVE LruInv
    OBVIOUS
  <1> USE ConfigAssumption DEF ConfigAssumption
  <1>1. map = <<>> /\ totalBytes = 0
    BY DEF Init
  <1>2. TypeOK
    BY DEF Init, TypeOK, Counters
  <1>3. BytesAccounted
    BY <1>1, BytesOfNone DEF BytesAccounted
  <1>4. WithinBudget
    BY <1>1 DEF WithinBudget
  <1> QED
    BY <1>2, <1>3, <1>4 DEF LruInv

LEMMA CountTyped ==
  ASSUME NEW counters \in Counters, NEW totals \in Counters,
         counters.capacity <= totals.capacity, counters.expired <= totals.expired,
         NEW kind \in {"capacity", "expired"}, NEW n \in Nat
  PROVE  /\ Count(counters, kind, n) \in Counters /\ Count(totals, kind, n) \in Counters
         /\ Count(counters, kind, n).capacity <= Count(totals, kind, n).capacity
         /\ Count(counters, kind, n).expired <= Count(totals, kind, n).expired
  BY DEF Counters, Count

LEMMA LruInvStep == LruInv /\ [Next]_vars => LruInv'
  <1> SUFFICES ASSUME LruInv, [Next]_vars PROVE LruInv'
    OBVIOUS
  <1> USE DEF LruInv
  <1>0. Len(map) \in Nat /\ totalBytes \in Nat /\ MaxBytes \in Nat
    BY LenProperties, ConfigAssumption DEF TypeOK, ConfigAssumption
  <1>1. CASE UNCHANGED <<map, totalBytes, window, total>> /\ now' \in Nat
             /\ held' \in [Clients -> Slot \cup {NoEntry}]
    BY <1>1 DEF TypeOK, BytesAccounted, WithinBudget
  <1>2. CASE Tick
    <2>1. now' \in Nat
      BY <1>2 DEF Tick, TypeOK
    <2> QED
      BY <1>1, <1>2, <2>1 DEF Tick, TypeOK
  <1>3. CASE SwapResetCapacity \/ SwapResetExpired
    <2>1. UNCHANGED <<map, totalBytes, now, held, total>>
      BY <1>3 DEF SwapResetCapacity, SwapResetExpired
    <2>2. window' \in Counters /\ window'.capacity <= total.capacity /\ window'.expired <= total.expired
      BY <1>3 DEF SwapResetCapacity, SwapResetExpired, TypeOK, Counters
    <2>3. TypeOK'
      BY <2>1, <2>2 DEF TypeOK
    <2> QED
      BY <2>1, <2>3 DEF BytesAccounted, WithinBudget
  <1>4. ASSUME NEW c \in Clients, NEW k \in Keys, GetHit(c, k)
        PROVE  LruInv'
    <2>1. PICK m \in 1 .. Len(map) : map[m] \in Slot /\ map[m].key = k /\ Lookup(k) = map[m].entry
      BY <1>4, HitMap
    <2>2. Lookup(k) \in Entry /\ [key |-> k, entry |-> Lookup(k)] \in Slot
      BY <2>1 DEF Slot
    <2>3. held' \in [Clients -> Slot \cup {NoEntry}]
      BY <1>4, <2>2 DEF GetHit, TypeOK
    <2>4. map' \in Seq(Slot) /\ Distinct(map') /\ Len(map') = Len(map) /\ BytesOf(map') = BytesOf(map)
      BY <1>4, HitMap
    <2>5. UNCHANGED <<totalBytes, now, window, total>>
      BY <1>4 DEF GetHit
    <2>6. TypeOK'
      BY <2>3, <2>4, <2>5 DEF TypeOK, Distinct
    <2>7. BytesAccounted'
      BY <2>4, <2>5 DEF BytesAccounted
    <2>8. WithinBudget'
      BY <2>4, <2>5 DEF WithinBudget
    <2> QED
      BY <2>6, <2>7, <2>8
  <1>5. ASSUME NEW c \in Clients, NEW k \in Keys, GetRemovesExpired(c, k)
        PROVE  LruInv'
    <2>1. /\ map' \in Seq(Slot) /\ Distinct(map') /\ Len(map') = Len(map) - 1
          /\ totalBytes' = BytesOf(map') /\ totalBytes' <= totalBytes
      BY <1>5, RemovalMap
    <2>2. /\ held' = [held EXCEPT ![c] = NoEntry] /\ now' = now
          /\ window' = Count(window, "expired", 1) /\ total' = Count(total, "expired", 1)
      BY <1>5 DEF GetRemovesExpired
    <2>3. held' \in [Clients -> Slot \cup {NoEntry}]
      BY <2>2 DEF TypeOK
    <2>4. /\ window' \in Counters /\ total' \in Counters
          /\ window'.capacity <= total'.capacity /\ window'.expired <= total'.expired
      <3>1. /\ window \in Counters /\ total \in Counters
            /\ window.capacity <= total.capacity /\ window.expired <= total.expired
        BY DEF TypeOK
      <3> QED
        BY <2>2, <3>1, CountTyped
    <2>5. totalBytes' \in Nat
      BY <2>1, BytesTyped
    <2>6. TypeOK'
      BY <2>1, <2>2, <2>3, <2>4, <2>5 DEF TypeOK, Distinct
    <2>7. BytesAccounted'
      BY <2>1 DEF BytesAccounted
    <2>8. WithinBudget'
      <3>1. CASE totalBytes <= MaxBytes
        BY <1>0, <2>1, <2>5, <3>1 DEF WithinBudget
      <3>2. CASE Len(map) = 1
        <4>1. map' = <<>>
          BY <2>1, <3>2, EmptySeq
        <4>2. totalBytes' = 0
          BY <2>1, <4>1, BytesOfNone
        <4> QED
          BY <1>0, <4>2 DEF WithinBudget
      <3> QED
        BY <3>1, <3>2 DEF WithinBudget
    <2> QED
      BY <2>6, <2>7, <2>8
  <1>6. ASSUME NEW c \in Clients, NEW k \in Keys, GetMiss(c, k)
        PROVE  LruInv'
    <2>1. held' \in [Clients -> Slot \cup {NoEntry}]
      BY <1>6 DEF GetMiss, TypeOK
    <2>2. UNCHANGED <<map, totalBytes, now, window, total>>
      BY <1>6 DEF GetMiss
    <2> QED
      BY <1>1, <2>1, <2>2 DEF TypeOK
  <1>7. ASSUME NEW c \in Clients, NEW k \in Keys, GetStale(c, k)
        PROVE  LruInv'
    <2>1. ServesStale(k) => [key |-> k, entry |-> Lookup(k)] \in Slot
      <3> SUFFICES ASSUME ServesStale(k) PROVE [key |-> k, entry |-> Lookup(k)] \in Slot
        OBVIOUS
      <3>1. PICK m : Gap(map, k, m)
        BY MapDistinct, WithoutGap
      <3>2. map[m] \in Slot /\ Lookup(k) = map[m].entry
        BY <3>1, LookupAtGap DEF ServesStale
      <3>3. Lookup(k) \in Entry
        BY <3>2 DEF Slot
      <3> QED
        BY <3>3 DEF Slot
    <2>2. held' \in [Clients -> Slot \cup {NoEntry}]
      BY <1>7, <2>1 DEF GetStale, TypeOK
    <2>3. UNCHANGED <<map, totalBytes, now, window, total>>
      BY <1>7 DEF GetStale
    <2> QED
      BY <1>1, <2>2, <2>3 DEF TypeOK
  <1>8. ASSUME NEW c \in Clients, NEW k \in Keys, NEW b \in Bodies, New(c, k, b)
        PROVE  LruInv'
    <2>1. [key |-> k, entry |-> [body |-> b, born |-> now]] \in Slot
      BY DEF Slot, Entry, TypeOK
    <2>2. held' \in [Clients -> Slot \cup {NoEntry}]
      BY <1>8, <2>1 DEF New, TypeOK
    <2>3. UNCHANGED <<map, totalBytes, now, window, total>>
      BY <1>8 DEF New
    <2> QED
      BY <1>1, <2>2, <2>3 DEF TypeOK
  <1>9. ASSUME NEW c \in Clients, PutAccepted(c)
        PROVE  LruInv'
    <2>1. held[c] \in Slot
      BY <1>9 DEF PutAccepted, TypeOK
    <2>2. PICK swept \in Nat, evicted \in Nat : Puts(c, swept, evicted)
      BY <1>9, PutStep
    <2> DEFINE others == Without(map, held[c].key)
               rest == DropHead(others, swept + evicted)
    <2>3. /\ others \in Seq(Slot) /\ rest \in Seq(Slot) /\ Len(rest) = Len(others) - (swept + evicted)
          /\ map' \in Seq(Slot) /\ Distinct(map') /\ Len(map') = Len(rest) + 1
          /\ totalBytes' = BytesOf(map')
      BY <2>1, <2>2, PutMap
    <2>4. /\ swept + evicted = Len(others) \/ totalBytes' <= MaxBytes
          /\ window' = Count(Count(window, "expired", swept), "capacity", evicted)
          /\ total' = Count(Count(total, "expired", swept), "capacity", evicted)
      BY <2>2 DEF Puts
    <2> HIDE DEF others, rest
    <2>5. now' = now /\ held' = held
      BY <1>9 DEF PutAccepted
    <2>6. totalBytes' \in Nat
      BY <2>3, BytesTyped
    <2>7. /\ window' \in Counters /\ total' \in Counters
          /\ window'.capacity <= total'.capacity /\ window'.expired <= total'.expired
      <3>1. /\ window \in Counters /\ total \in Counters
            /\ window.capacity <= total.capacity /\ window.expired <= total.expired
        BY DEF TypeOK
      <3> DEFINE w == Count(window, "expired", swept)
                 t == Count(total, "expired", swept)
      <3>2. w \in Counters /\ t \in Counters /\ w.capacity <= t.capacity /\ w.expired <= t.expired
        BY <3>1, CountTyped
      <3> HIDE DEF w, t
      <3>3. /\ Count(w, "capacity", evicted) \in Counters /\ Count(t, "capacity", evicted) \in Counters
            /\ Count(w, "capacity", evicted).capacity <= Count(t, "capacity", evicted).capacity
            /\ Count(w, "capacity", evicted).expired <= Count(t, "capacity", evicted).expired
        BY <3>2, CountTyped
      <3> QED
        BY <2>4, <3>3 DEF w, t
    <2>8. TypeOK'
      BY <2>3, <2>5, <2>6, <2>7 DEF TypeOK, Distinct
    <2>9. BytesAccounted'
      BY <2>3 DEF BytesAccounted
    <2>10. WithinBudget'
      <3>1. CASE swept + evicted = Len(others)
        <4>1. Len(others) \in Nat
          BY <2>3, LenProperties
        <4>2. Len(map') = 1
          BY <2>3, <3>1, <4>1
        <4> QED
          BY <4>2 DEF WithinBudget
      <3>2. CASE totalBytes' <= MaxBytes
        BY <3>2 DEF WithinBudget
      <3> QED
        BY <2>4, <3>1, <3>2
    <2> QED
      BY <2>8, <2>9, <2>10
  <1>10. ASSUME NEW c \in Clients, PutRefused(c)
         PROVE  LruInv'
    BY <1>1, <1>10 DEF PutRefused, vars, TypeOK
  <1>11. CASE UNCHANGED vars
    BY <1>1, <1>11 DEF vars, TypeOK
  <1> QED
    BY <1>2, <1>3, <1>4, <1>5, <1>6, <1>7, <1>8, <1>9, <1>10, <1>11 DEF Next

LEMMA LruInvAlways == Spec => []LruInv
  BY LruInvInit, LruInvStep, PTL DEF Spec

\* The map, the clones and the counters stay well formed: no key is in the map
\* twice, and no window of the eviction counters runs ahead of their totals.
THEOREM TypeCorrect == Spec => []TypeOK
  <1>1. LruInv => TypeOK
    BY DEF LruInv
  <1> QED
    BY <1>1, LruInvAlways, PTL

\* Whatever sequence of replacements, sweeps, evictions and removals the callers
\* bring about, total_bytes is the size of what the map holds.
THEOREM BytesCorrect == Spec => []BytesAccounted
  <1>1. LruInv => BytesAccounted
    BY DEF LruInv
  <1> QED
    BY <1>1, LruInvAlways, PTL

\* The map is within max_bytes, or one entry larger than that is alone in it.
THEOREM BudgetCorrect == Spec => []WithinBudget
  <1>1. LruInv => WithinBudget
    BY DEF LruInv
  <1> QED
    BY <1>1, LruInvAlways, PTL

-----------------------------------------------------------------------------
\* What a put evicts, and how it is counted

\* Where the gap leaves an entry that is not the replaced one.
LEMMA PlaceAfterGap ==
  ASSUME NEW s \in Seq(Slot), NEW k, NEW m, Gap(s, k, m), NEW i \in 1 .. Len(s), s[i].key # k
  PROVE  LET p == IF i < m THEN i ELSE i - 1
         IN  p \in 1 .. Len(Without(s, k)) /\ Without(s, k)[p] = s[i] /\ i # m
  <1> DEFINE w == Without(s, k)
  <1>1. Len(s) \in Nat /\ w \in Seq(Slot)
    BY LenProperties DEF Gap
  <1>2. Len(w) \in Nat
    BY <1>1, LenProperties
  <1>3. m \in 1 .. Len(s) + 1 /\ i # m
    BY Zenon DEF Gap
  <1>4. Len(w) = IF m <= Len(s) THEN Len(s) - 1 ELSE Len(s)
    BY DEF Gap
  <1>5. \A j \in 1 .. Len(w) : w[j] = s[IF j < m THEN j ELSE j + 1]
    BY DEF Gap
  <1> HIDE DEF w
  <1>6. Len(s) \in Nat /\ Len(w) \in Nat
    BY <1>1, <1>2
  <1>7. m \in Nat /\ 1 <= m /\ m <= Len(s) + 1 /\ i \in Nat /\ 1 <= i /\ i <= Len(s)
    BY <1>3, <1>6
  <1>8. CASE i < m
    <2>1. i \in 1 .. Len(w)
      BY <1>4, <1>6, <1>7, <1>8
    <2>2. w[i] = s[i]
      BY <1>5, <1>8, <2>1
    <2> QED
      BY <1>3, <1>8, <2>1, <2>2 DEF w
  <1>9. CASE ~ (i < m)
    <2>1. i - 1 \in 1 .. Len(w) /\ ~ (i - 1 < m) /\ (i - 1) + 1 = i
      BY <1>3, <1>4, <1>6, <1>7, <1>9
    <2>2. w[i - 1] = s[i]
      BY <1>5, <2>1
    <2> QED
      BY <1>3, <1>9, <2>1, <2>2 DEF w
  <1> QED
    BY <1>8, <1>9

LEMMA PutEvictsHead ==
  ASSUME LruInv, NEW c \in Clients, PutAccepted(c),
         NEW i \in DOMAIN map, NEW j \in DOMAIN map, i < j,
         map[i].key \in KeysOf(map') \ {held[c].key}
  PROVE  map[j].key \in KeysOf(map')
  <1> DEFINE k == held[c].key
             others == Without(map, k)
             p(n, m) == IF n < m THEN n ELSE n - 1
  <1>1. map \in Seq(Slot) /\ Distinct(map) /\ DOMAIN map = 1 .. Len(map)
    BY MapDistinct, LenProperties DEF LruInv
  <1>2. held[c] \in Slot
    BY DEF LruInv, TypeOK, PutAccepted
  <1>3. PICK swept \in Nat, evicted \in Nat : Puts(c, swept, evicted)
    BY PutStep DEF LruInv
  <1> DEFINE d == swept + evicted
             rest == DropHead(others, d)
             gone == {others[n].key : n \in 1 .. d}
  <1>4. d \in 0 .. Len(others)
    BY <1>3 DEF Puts
  <1>5. others \in Seq(Slot) /\ Distinct(others)
        /\ KeysOf(map') = KeysOf(rest) \cup {k}
    BY <1>2, <1>3, PutMap DEF LruInv
  <1>6. KeysOf(rest) = KeysOf(others) \ gone
    <2> HIDE DEF others, d
    <2> QED
      BY <1>4, <1>5, DropKeys
  <1>7. PICK m : Gap(map, k, m)
    BY <1>1, WithoutGap
  <1>8. CASE map[j].key = k
    BY <1>5, <1>8
  <1>9. CASE map[j].key # k
    <2>1. map[i].key # k /\ map[i].key \in KeysOf(rest)
      BY <1>5
    <2>2. /\ p(i, m) \in 1 .. Len(others) /\ others[p(i, m)] = map[i] /\ i # m
          /\ p(j, m) \in 1 .. Len(others) /\ others[p(j, m)] = map[j] /\ j # m
      <3>1. /\ map \in Seq(Slot) /\ i \in 1 .. Len(map) /\ j \in 1 .. Len(map)
        BY <1>1
      <3>2. p(i, m) \in 1 .. Len(others) /\ others[p(i, m)] = map[i] /\ i # m
        BY <1>7, <2>1, <3>1, PlaceAfterGap
      <3>3. p(j, m) \in 1 .. Len(others) /\ others[p(j, m)] = map[j] /\ j # m
        BY <1>7, <1>9, <3>1, PlaceAfterGap
      <3> QED
        BY <3>2, <3>3, Zenon
    <2>3. m \in 1 .. Len(map) + 1 /\ i \in 1 .. Len(map) /\ j \in 1 .. Len(map)
      BY <1>1, <1>7, Zenon DEF Gap
    <2>4. Len(map) \in Nat /\ Len(others) \in Nat
      BY <1>1, <1>5, LenProperties
    <2> HIDE DEF others, rest, gone
    <2>5. p(i, m) < p(j, m)
      <3>1. m \in Nat /\ i \in Nat /\ j \in Nat
        BY <2>3, <2>4
      <3> QED
        BY <2>2, <3>1
    <2> DEFINE pi == p(i, m)
               pj == p(j, m)
    <2>6. /\ pi \in 1 .. Len(others) /\ others[pi] = map[i]
          /\ pj \in 1 .. Len(others) /\ others[pj] = map[j] /\ pi < pj
      BY <2>2, <2>5
    <2> HIDE DEF pi, pj, p
    <2>7. pi \notin 1 .. d
      BY <1>6, <2>1, <2>6 DEF gone
    <2>8. pj \notin 1 .. d
      BY <1>4, <2>4, <2>6, <2>7
    <2>9. map[j].key \notin gone
      <3> SUFFICES ASSUME NEW n \in 1 .. d, others[n].key = others[pj].key PROVE FALSE
        BY <2>6 DEF gone
      <3>1. n \in DOMAIN others /\ pj \in DOMAIN others
        BY <1>4, <1>5, <2>4, <2>6, LenProperties
      <3>2. n = pj
        BY <1>5, <3>1 DEF Distinct
      <3> QED
        BY <2>8, <3>2
    <2>10. map[j].key \in KeysOf(others)
      BY <1>5, <2>6, LenProperties DEF KeysOf
    <2> QED
      BY <1>5, <1>6, <2>9, <2>10
  <1> QED
    BY <1>8, <1>9

\* Whatever a put evicts, swept or for room, no entry goes while one used less
\* recently stays.
THEOREM OldestFirst == Spec => OldestEvictedFirst
  <1>1. LruInv /\ [Next]_vars =>
          [ \A c \in Clients : PutAccepted(c) =>
              \A i, j \in DOMAIN map :
                (i < j /\ map[i].key \in KeysOf(map') \ {held[c].key}) => map[j].key \in KeysOf(map')
          ]_vars
    BY PutEvictsHead
  <1> QED
    BY <1>1, LruInvAlways, PTL DEF Spec, OldestEvictedFirst

\* The counters of the window take what their totals take.
WindowKeepsPace ==
  /\ window'.capacity + total.capacity = window.capacity + total'.capacity
  /\ window'.expired + total.expired = window.expired + total'.expired

LEMMA PutCountsEvictions ==
  ASSUME LruInv, NEW c \in Clients, PutAccepted(c)
  PROVE  /\ (total.capacity + total.expired)' =
              total.capacity + total.expired + Cardinality(KeysOf(map) \ KeysOf(map'))
         /\ WindowKeepsPace
  <1> DEFINE k == held[c].key
             others == Without(map, k)
  <1>1. held[c] \in Slot
    BY DEF LruInv, TypeOK, PutAccepted
  <1>2. PICK swept \in Nat, evicted \in Nat : Puts(c, swept, evicted)
    BY PutStep DEF LruInv
  <1> DEFINE d == swept + evicted
             rest == DropHead(others, d)
             gone == {others[n].key : n \in 1 .. d}
  <1>3. d \in 0 .. Len(others)
        /\ window' = Count(Count(window, "expired", swept), "capacity", evicted)
        /\ total' = Count(Count(total, "expired", swept), "capacity", evicted)
    BY <1>2 DEF Puts
  <1>4. /\ others \in Seq(Slot) /\ Distinct(others)
        /\ KeysOf(others) = KeysOf(map) \ {k}
        /\ KeysOf(map') = KeysOf(rest) \cup {k}
    BY <1>1, <1>2, PutMap DEF LruInv
  <1>5. KeysOf(rest) = KeysOf(others) \ gone /\ gone \subseteq KeysOf(others) /\ Cardinality(gone) = d
    <2> HIDE DEF others, d
    <2> QED
      BY <1>3, <1>4, DropKeys
  <1> HIDE DEF others, rest, gone
  <1>6. KeysOf(map) \ KeysOf(map') = gone
    BY <1>4, <1>5
  <1>7. total'.capacity + total'.expired = total.capacity + total.expired + (swept + evicted)
    BY <1>3 DEF Count, LruInv, TypeOK, Counters
  <1>8. WindowKeepsPace
    BY <1>3 DEF WindowKeepsPace, Count, LruInv, TypeOK, Counters
  <1> QED
    BY <1>5, <1>6, <1>7, <1>8

\* Each key that leaves the map, on whichever path, is counted as one eviction;
\* a replacement and a refused put count none.  The counters of the window take
\* the same counts, except the one the statistics task swaps out.
THEOREM EvictionsCorrect == Spec => EvictionsCounted
  <1> DEFINE InTotals == (total.capacity + total.expired)' =
               total.capacity + total.expired + Cardinality(KeysOf(map) \ KeysOf(map'))
             Counted ==
               /\ InTotals
               /\ SwapResetCapacity
                  \/ window'.capacity + total.capacity = window.capacity + total'.capacity
               /\ SwapResetExpired
                  \/ window'.expired + total.expired = window.expired + total'.expired
  <1>1. ASSUME LruInv, [Next]_vars
        PROVE  [Counted]_vars
    <2>1. total.capacity \in Nat /\ total.expired \in Nat
      BY <1>1 DEF LruInv, TypeOK, Counters
    <2>2. ASSUME total' = total, KeysOf(map) \subseteq KeysOf(map')
          PROVE  InTotals
      <3>1. KeysOf(map) \ KeysOf(map') = {}
        BY <2>2
      <3>2. Cardinality(KeysOf(map) \ KeysOf(map')) = 0
        BY <3>1, FS_EmptySet
      <3>3. (total.capacity + total.expired)' = total.capacity + total.expired
        BY <2>2
      <3>4. total.capacity + total.expired + 0 = total.capacity + total.expired
        BY <2>1
      <3> QED
        BY <3>2, <3>3, <3>4, Zenon
    <2>3. ASSUME UNCHANGED <<map, window, total>>
          PROVE  Counted
      BY <2>2, <2>3, Zenon
    <2>4. ASSUME NEW c \in Clients, NEW k \in Keys, GetHit(c, k)
          PROVE  Counted
      <3>1. KeysOf(map') = KeysOf(map)
        BY <1>1, <2>4, HitMap DEF LruInv
      <3>2. window' = window /\ total' = total
        BY <2>4 DEF GetHit
      <3>3. InTotals
        BY <2>2, <3>1, <3>2
      <3> HIDE DEF InTotals
      <3> QED
        BY <3>2, <3>3, Zenon
    <2>5. ASSUME NEW c \in Clients, NEW k \in Keys, GetRemovesExpired(c, k)
          PROVE  Counted
      <3>1. KeysOf(map) \ KeysOf(map') = {k}
        BY <1>1, <2>5, RemovalMap DEF LruInv
      <3>2. window' = Count(window, "expired", 1) /\ total' = Count(total, "expired", 1)
        BY <2>5 DEF GetRemovesExpired
      <3>3. total'.capacity + total'.expired = total.capacity + total.expired + 1
        BY <1>1, <3>2 DEF Count, LruInv, TypeOK, Counters
      <3>4. WindowKeepsPace
        BY <1>1, <3>2 DEF WindowKeepsPace, Count, LruInv, TypeOK, Counters
      <3>5. InTotals
        BY <3>1, <3>3, FS_Singleton
      <3> HIDE DEF InTotals
      <3> QED
        BY <3>4, <3>5 DEF WindowKeepsPace
    <2>6. ASSUME NEW c \in Clients, PutAccepted(c)
          PROVE  Counted
      <3>1. InTotals /\ WindowKeepsPace
        BY <1>1, <2>6, PutCountsEvictions
      <3> HIDE DEF InTotals
      <3> QED
        BY <3>1 DEF WindowKeepsPace
    <2>7. ASSUME NEW c \in Clients, NEW k \in Keys, GetMiss(c, k) \/ GetStale(c, k)
          PROVE  Counted
      <3>1. UNCHANGED <<map, window, total>>
        BY <2>7 DEF GetMiss, GetStale
      <3> HIDE DEF Counted
      <3> QED
        BY <2>3, <3>1
    <2>8. ASSUME NEW c \in Clients, NEW k \in Keys, NEW b \in Bodies, New(c, k, b)
          PROVE  Counted
      <3>1. UNCHANGED <<map, window, total>>
        BY <2>8 DEF New
      <3> HIDE DEF Counted
      <3> QED
        BY <2>3, <3>1
    <2>9. ASSUME Tick \/ \E c \in Clients : PutRefused(c)
          PROVE  Counted
      <3>1. UNCHANGED <<map, window, total>>
        BY <2>9 DEF Tick, PutRefused, vars
      <3> HIDE DEF Counted
      <3> QED
        BY <2>3, <3>1
    <2>10. CASE SwapResetCapacity
      <3>1. window'.expired = window.expired /\ UNCHANGED <<map, total>>
        BY <1>1, <2>10 DEF SwapResetCapacity, LruInv, TypeOK, Counters
      <3>2. InTotals
        BY <2>2, <3>1
      <3> HIDE DEF InTotals
      <3> QED
        BY <2>10, <3>1, <3>2, Zenon
    <2>11. CASE SwapResetExpired
      <3>1. window'.capacity = window.capacity /\ UNCHANGED <<map, total>>
        BY <1>1, <2>11 DEF SwapResetExpired, LruInv, TypeOK, Counters
      <3>2. InTotals
        BY <2>2, <3>1
      <3> HIDE DEF InTotals
      <3> QED
        BY <2>11, <3>1, <3>2, Zenon
    <2> HIDE DEF Counted
    <2> QED
      BY <1>1, <2>3, <2>4, <2>5, <2>6, <2>7, <2>8, <2>9, <2>10, <2>11 DEF Next, vars
  <1> QED
    BY <1>1, LruInvAlways, PTL DEF Spec, EvictionsCounted

-----------------------------------------------------------------------------
\* The LRU map implements the unordered store

\* What CacheStore sees of a map under a key.
EntryAt(s, k) ==
  IF \E i \in DOMAIN s : s[i].key = k THEN s[CHOOSE i \in DOMAIN s : s[i].key = k].entry
  ELSE NoEntry

StoreOf(s) == [k \in Keys |-> EntryAt(s, k)]

LEMMA StoreIsMap ==
  /\ [k \in Keys |-> IF Has(k) THEN Lookup(k) ELSE NoEntry] = StoreOf(map)
  /\ [k \in Keys |-> IF Has(k) THEN Lookup(k) ELSE NoEntry]' = StoreOf(map')
  BY DEF StoreOf, EntryAt, Has, Lookup, IndexOfKey

LEMMA EntryOfSlot ==
  ASSUME NEW s, Distinct(s), NEW i \in DOMAIN s
  PROVE  EntryAt(s, s[i].key) = s[i].entry
  <1> DEFINE n == CHOOSE j \in DOMAIN s : s[j].key = s[i].key
  <1>1. n \in DOMAIN s /\ s[n].key = s[i].key
    OBVIOUS
  <1> HIDE DEF n
  <1>2. n = i
    BY <1>1 DEF Distinct
  <1>3. EntryAt(s, s[i].key) = s[n].entry
    BY DEF EntryAt, n
  <1> QED
    BY <1>2, <1>3

LEMMA EntryOfNone ==
  ASSUME NEW s, NEW k, k \notin KeysOf(s)
  PROVE  EntryAt(s, k) = NoEntry
  BY DEF EntryAt, KeysOf

\* A key whose slots in t are slots of s has the same entry in both.
LEMMA EntryKept ==
  ASSUME NEW s, NEW t, Distinct(s), Distinct(t), NEW k \in KeysOf(t),
         \A j \in DOMAIN t : t[j].key = k => \E i \in DOMAIN s : t[j] = s[i]
  PROVE  EntryAt(t, k) = EntryAt(s, k)
  <1>1. PICK j \in DOMAIN t : t[j].key = k
    BY DEF KeysOf
  <1>2. PICK i \in DOMAIN s : t[j] = s[i]
    BY <1>1
  <1>3. EntryAt(t, t[j].key) = t[j].entry
    BY EntryOfSlot
  <1>4. EntryAt(s, s[i].key) = s[i].entry
    BY EntryOfSlot
  <1> QED
    BY <1>1, <1>2, <1>3, <1>4

\* What is stored under a key, when there is something.
LEMMA StoredEntry ==
  ASSUME TypeOK, NEW k \in Keys
  PROVE  /\ StoreOf(map)[k] = IF Has(k) THEN Lookup(k) ELSE NoEntry
         /\ Has(k) => Lookup(k) \in Entry /\ Lookup(k) # NoEntry
  <1>1. StoreOf(map)[k] = IF Has(k) THEN Lookup(k) ELSE NoEntry
    BY DEF StoreOf, EntryAt, Has, Lookup, IndexOfKey
  <1>2. PICK m : Gap(map, k, m)
    BY MapDistinct, WithoutGap
  <1>3. Has(k) => map[m] \in Slot /\ Lookup(k) = map[m].entry
    BY <1>2, LookupAtGap
  <1>4. Has(k) => Lookup(k) \in Entry
    BY <1>3 DEF Slot
  <1> QED
    BY <1>1, <1>4, ConfigAssumption DEF ConfigAssumption, Entry

\* A hit moves its slot to the end, which the store does not see.
LEMMA HitStore ==
  ASSUME TypeOK, NEW c, NEW k, GetHit(c, k)
  PROVE  StoreOf(map') = StoreOf(map)
  <1>1. map \in Seq(Slot) /\ Distinct(map) /\ DOMAIN map = 1 .. Len(map)
    BY MapDistinct, LenProperties
  <1>2. /\ map' \in Seq(Slot) /\ Distinct(map') /\ KeysOf(map') = KeysOf(map)
    BY HitMap
  <1>3. PICK m \in 1 .. Len(map) : map' = Append(Without(map, k), map[m]) /\ map[m] \in Slot
    BY HitMap
  <1> DEFINE w == Without(map, k)
  <1>4. w \in Seq(Slot) /\ \A j \in DOMAIN w : \E i \in DOMAIN map : w[j] = map[i]
    BY <1>1, WithoutKeys
  <1> HIDE DEF w
  <1>5. /\ DOMAIN map' = 1 .. Len(w) + 1 /\ Len(w) \in Nat /\ DOMAIN w = 1 .. Len(w)
        /\ \A j \in 1 .. Len(w) : map'[j] = w[j]
        /\ map'[Len(w) + 1] = map[m]
    <2>1. map' = Append(w, map[m])
      BY <1>3 DEF w
    <2> QED
      BY <1>3, <1>4, <2>1, AppendProperties, LenProperties
  <1>6. \A j \in DOMAIN map' : \E i \in DOMAIN map : map'[j] = map[i]
    <2> SUFFICES ASSUME NEW j \in DOMAIN map' PROVE \E i \in DOMAIN map : map'[j] = map[i]
      OBVIOUS
    <2>1. j \in 1 .. Len(w) \/ j = Len(w) + 1
      BY <1>5
    <2>2. CASE j \in 1 .. Len(w)
      BY <1>4, <1>5, <2>2
    <2>3. CASE j = Len(w) + 1
      BY <1>1, <1>3, <1>5, <2>3
    <2> QED
      BY <2>1, <2>2, <2>3
  <1>7. ASSUME NEW l \in Keys
        PROVE  EntryAt(map', l) = EntryAt(map, l)
    <2>1. CASE l \in KeysOf(map')
      BY <1>1, <1>2, <1>6, <2>1, EntryKept
    <2>2. CASE l \notin KeysOf(map')
      BY <1>2, <2>2, EntryOfNone
    <2> QED
      BY <2>1, <2>2
  <1> QED
    BY <1>7 DEF StoreOf

\* A removal on a miss forgets the key it met and nothing else.
LEMMA RemovalStore ==
  ASSUME TypeOK, BytesAccounted, NEW c, NEW k \in Keys, GetRemovesExpired(c, k)
  PROVE  StoreOf(map') = [StoreOf(map) EXCEPT ![k] = NoEntry]
  <1>1. map \in Seq(Slot) /\ Distinct(map)
    BY MapDistinct
  <1>2. map' = Without(map, k) /\ Distinct(map') /\ KeysOf(map') = KeysOf(map) \ {k}
    BY RemovalMap
  <1>3. \A j \in DOMAIN map' : \E i \in DOMAIN map : map'[j] = map[i]
    BY <1>1, <1>2, WithoutKeys
  <1>4. ASSUME NEW l \in Keys
        PROVE  EntryAt(map', l) = IF l = k THEN NoEntry ELSE EntryAt(map, l)
    <2>1. CASE l \in KeysOf(map')
      BY <1>1, <1>2, <1>3, <2>1, EntryKept
    <2>2. CASE l \notin KeysOf(map')
      BY <1>2, <2>2, EntryOfNone
    <2> QED
      BY <2>1, <2>2
  <1> QED
    BY <1>4 DEF StoreOf

\* A put stores its entry under its key and leaves each other key as it was or
\* forgets it.
LEMMA PutStore ==
  ASSUME LruInv, NEW c \in Clients, PutAccepted(c)
  PROVE  \E forgotten \in SUBSET (Keys \ {held[c].key}) :
           StoreOf(map') = [l \in Keys |-> IF l = held[c].key THEN held[c].entry
                                           ELSE IF l \in forgotten THEN NoEntry ELSE StoreOf(map)[l]]
  <1> DEFINE k == held[c].key
             others == Without(map, k)
  <1>1. map \in Seq(Slot) /\ Distinct(map) /\ held[c] \in Slot
    BY MapDistinct DEF LruInv, TypeOK, PutAccepted
  <1>2. PICK swept \in Nat, evicted \in Nat : Puts(c, swept, evicted)
    BY PutStep DEF LruInv
  <1> DEFINE rest == DropHead(others, swept + evicted)
  <1>3. /\ swept + evicted \in 0 .. Len(others)
        /\ map' = Append(rest, held[c])
    BY <1>2 DEF Puts
  <1>4. /\ others \in Seq(Slot)
        /\ rest \in Seq(Slot) /\ Distinct(rest) /\ k \notin KeysOf(rest)
        /\ map' \in Seq(Slot) /\ Distinct(map')
        /\ KeysOf(map') = KeysOf(rest) \cup {k}
    BY <1>1, <1>2, PutMap DEF LruInv
  <1>5. \A j \in DOMAIN others : \E i \in DOMAIN map : others[j] = map[i]
    BY <1>1, WithoutKeys
  <1> HIDE DEF others
  <1>6. \A j \in DOMAIN rest : \E i \in DOMAIN map : rest[j] = map[i]
    <2> SUFFICES ASSUME NEW j \in DOMAIN rest PROVE \E i \in DOMAIN map : rest[j] = map[i]
      OBVIOUS
    <2> DEFINE d == swept + evicted
    <2>1. d \in 0 .. Len(others) /\ Len(others) \in Nat /\ DOMAIN others = 1 .. Len(others)
      BY <1>3, <1>4, LenProperties
    <2> HIDE DEF d
    <2>2. Len(rest) = Len(others) - d /\ \A n \in 1 .. Len(others) - d : rest[n] = others[d + n]
      <3>1. rest = DropHead(others, d)
        BY DEF d
      <3>2. /\ Len(DropHead(others, d)) = Len(others) - d
            /\ \A n \in 1 .. Len(others) - d : DropHead(others, d)[n] = others[d + n]
        BY <1>4, <2>1, Cut
      <3> HIDE DEF rest
      <3> QED
        BY <3>1, <3>2, Zenon
    <2>3. j \in 1 .. Len(others) - d
      BY <1>4, <2>2, LenProperties
    <2>4. d + j \in DOMAIN others /\ rest[j] = others[d + j]
      BY <2>1, <2>2, <2>3
    <2> QED
      BY <1>5, <2>4
  <1> HIDE DEF rest
  <1>7. /\ DOMAIN map' = 1 .. Len(rest) + 1 /\ Len(rest) \in Nat /\ DOMAIN rest = 1 .. Len(rest)
        /\ \A j \in 1 .. Len(rest) : map'[j] = rest[j]
        /\ map'[Len(rest) + 1] = held[c]
    BY <1>1, <1>3, <1>4, AppendProperties, LenProperties
  <1>8. EntryAt(map', k) = held[c].entry
    <2>1. Len(rest) + 1 \in DOMAIN map' /\ map'[Len(rest) + 1] = held[c]
      BY <1>7
    <2>2. EntryAt(map', map'[Len(rest) + 1].key) = map'[Len(rest) + 1].entry
      BY <1>4, <2>1, EntryOfSlot
    <2> QED
      BY <2>1, <2>2
  <1> DEFINE forgotten == Keys \ KeysOf(map')
  <1>9. ASSUME NEW l \in Keys, l # k
        PROVE  EntryAt(map', l) = IF l \in forgotten THEN NoEntry ELSE EntryAt(map, l)
    <2>1. CASE l \notin KeysOf(map')
      BY <2>1, EntryOfNone
    <2>2. CASE l \in KeysOf(map')
      <3>1. ASSUME NEW j \in DOMAIN map', map'[j].key = l
            PROVE  \E i \in DOMAIN map : map'[j] = map[i]
        <4>1. j \in 1 .. Len(rest) \/ j = Len(rest) + 1
          BY <1>7
        <4>2. j # Len(rest) + 1
          BY <1>7, <1>9, <3>1
        <4> QED
          BY <1>6, <1>7, <4>1, <4>2
      <3>2. EntryAt(map', l) = EntryAt(map, l)
        BY <1>1, <1>4, <2>2, <3>1, EntryKept
      <3> QED
        BY <2>2, <3>2
    <2> QED
      BY <2>1, <2>2
  <1>10. forgotten \in SUBSET (Keys \ {k})
    BY <1>4
  <1> HIDE DEF forgotten
  <1>11. StoreOf(map') = [l \in Keys |-> IF l = k THEN held[c].entry
                                         ELSE IF l \in forgotten THEN NoEntry ELSE StoreOf(map)[l]]
    BY <1>8, <1>9 DEF StoreOf
  <1> QED
    BY <1>10, <1>11

LEMMA ImplementsInit == Init => Store!StoreInit
  <1> SUFFICES ASSUME Init PROVE Store!StoreInit
    OBVIOUS
  <1>1. map = <<>>
    BY DEF Init
  <1>2. \A k : ~ Has(k)
    BY <1>1 DEF Has
  <1> QED
    BY <1>2 DEF Init, Store!StoreInit

LEMMA ImplementsStep == LruInv /\ [Next]_vars => [Store!StoreNext]_(Store!storeVars)
  <1> SUFFICES ASSUME LruInv, [Next]_vars
               PROVE  Store!StoreNext \/ UNCHANGED Store!storeVars
    OBVIOUS
  <1> DEFINE store == [k \in Keys |-> IF Has(k) THEN Lookup(k) ELSE NoEntry]
  <1>1. store = StoreOf(map) /\ store' = StoreOf(map')
    BY StoreIsMap
  <1>2. ASSUME NEW k \in Keys
        PROVE  /\ store[k] = IF Has(k) THEN Lookup(k) ELSE NoEntry
               /\ Has(k) => Lookup(k) \in Entry /\ Lookup(k) # NoEntry
    BY <1>1, StoredEntry DEF LruInv
  <1>3. ASSUME NEW k \in Keys
        PROVE  Hits(k) <=> Store!CanHit(k)
    BY <1>2 DEF Hits, Age, Store!CanHit, Store!Fresh, Store!Age
  <1>4. ASSUME map' = map
        PROVE  store' = store
    BY <1>1, <1>4
  <1>5. CASE Tick
    <2>1. Store!Tick
      BY <1>4, <1>5 DEF Tick, Store!Tick
    <2> QED
      BY <2>1 DEF Store!StoreNext
  <1>6. CASE SwapResetCapacity \/ SwapResetExpired
    BY <1>4, <1>6 DEF SwapResetCapacity, SwapResetExpired, Store!storeVars
  <1>7. ASSUME NEW c \in Clients, NEW k \in Keys, GetHit(c, k)
        PROVE  Store!StoreNext
    <2>1. store' = store
      BY <1>1, <1>7, HitStore DEF LruInv
    <2>2. store[k] = Lookup(k)
      BY <1>2, <1>7 DEF GetHit, Hits
    <2>3. Store!GetHit(c, k)
      BY <1>3, <1>7, <2>1, <2>2 DEF GetHit, Store!GetHit, Store!Hold
    <2> QED
      BY <2>3 DEF Store!StoreNext, Store!Get
  <1>8. ASSUME NEW c \in Clients, NEW k \in Keys, GetRemovesExpired(c, k)
        PROVE  Store!StoreNext
    <2>1. store' = [store EXCEPT ![k] = NoEntry]
      BY <1>1, <1>8, RemovalStore DEF LruInv
    <2>2. Store!GetMiss(c, k)
      BY <1>3, <1>8, <2>1 DEF GetRemovesExpired, Store!GetMiss, Store!HoldNothing
    <2> QED
      BY <2>2 DEF Store!StoreNext, Store!Get
  <1>9. ASSUME NEW c \in Clients, NEW k \in Keys, GetMiss(c, k)
        PROVE  Store!StoreNext
    <2>1. store' = store
      BY <1>4, <1>9 DEF GetMiss
    <2>2. StaleMax = 0 /\ Enabled => store = [store EXCEPT ![k] = NoEntry]
      <3> SUFFICES ASSUME StaleMax = 0, Enabled PROVE store = [store EXCEPT ![k] = NoEntry]
        OBVIOUS
      <3>1. ~ Has(k)
        BY <1>9 DEF GetMiss
      <3>2. store[k] = NoEntry
        BY <3>1
      <3> HIDE DEF store
      <3>3. store = [l \in Keys |-> store[l]]
        BY DEF store
      <3> QED
        BY <3>2, <3>3
    <2>3. Store!GetMiss(c, k)
      BY <1>3, <1>9, <2>1, <2>2 DEF GetMiss, Store!GetMiss, Store!HoldNothing
    <2> QED
      BY <2>3 DEF Store!StoreNext, Store!Get
  <1>10. ASSUME NEW c \in Clients, NEW k \in Keys, GetStale(c, k)
         PROVE  Store!StoreNext
    <2>1. store' = store
      BY <1>4, <1>10 DEF GetStale
    <2>2. ServesStale(k) <=> Store!CanServeStale(k)
      BY <1>2, ConfigAssumption
         DEF ConfigAssumption, ServesStale, Age, Store!CanServeStale, Store!StaleUsable, Store!Age
    <2>3. ServesStale(k) => store[k] = Lookup(k)
      BY <1>2 DEF ServesStale
    <2>4. Store!GetStale(c, k)
      BY <1>10, <2>1, <2>2, <2>3 DEF GetStale, Store!GetStale, Store!Hold, Store!HoldNothing
    <2> QED
      BY <2>4 DEF Store!StoreNext
  <1>11. ASSUME NEW c \in Clients, NEW k \in Keys, NEW b \in Bodies, New(c, k, b)
         PROVE  Store!StoreNext
    <2>1. Store!New(c, k, b)
      BY <1>4, <1>11 DEF New, Store!New, Store!Hold
    <2> QED
      BY <2>1 DEF Store!StoreNext
  <1>12. ASSUME NEW c \in Clients, held[c] # NoEntry
         PROVE  Accepts(held[c].entry) <=> Store!Accepts(held[c].entry)
    <2>1. held[c].entry.body \in Bodies
      BY <1>12 DEF LruInv, TypeOK, Slot, Entry
    <2> QED
      BY <2>1 DEF Accepts, Store!Accepts
  <1>13. ASSUME NEW c \in Clients, PutAccepted(c)
         PROVE  Store!StoreNext
    <2>1. held[c] # NoEntry /\ Accepts(held[c].entry) /\ UNCHANGED <<now, held>>
      BY <1>13 DEF PutAccepted
    <2>2. \E forgotten \in SUBSET (Keys \ {held[c].key}) :
            store' = [l \in Keys |-> IF l = held[c].key THEN held[c].entry
                                     ELSE IF l \in forgotten THEN NoEntry ELSE store[l]]
      BY <1>1, <1>13, PutStore
    <2>3. Store!PutAccepted(c)
      BY <1>12, <2>1, <2>2 DEF Store!PutAccepted
    <2> QED
      BY <2>3 DEF Store!StoreNext, Store!Put
  <1>14. ASSUME NEW c \in Clients, PutRefused(c)
         PROVE  Store!StoreNext
    <2>1. Store!PutRefused(c)
      BY <1>4, <1>12, <1>14 DEF PutRefused, vars, Store!PutRefused, Store!storeVars
    <2> QED
      BY <2>1 DEF Store!StoreNext, Store!Put
  <1>15. CASE UNCHANGED vars
    BY <1>4, <1>15 DEF vars, Store!storeVars
  <1> QED
    BY <1>5, <1>6, <1>7, <1>8, <1>9, <1>10, <1>11, <1>13, <1>14, <1>15 DEF Next

\* The cache never invents an entry, never moves one to another key, never changes
\* the instant it was created, and serves it inside its windows only, whatever its
\* order, its limits and its evictions: that is all ProxyRequest assumes of it.
THEOREM ImplementsCacheStore == Spec => RefinesCacheStore
  BY ImplementsInit, ImplementsStep, LruInvAlways, PTL DEF Spec, RefinesCacheStore, Store!StoreSpec
=============================================================================
