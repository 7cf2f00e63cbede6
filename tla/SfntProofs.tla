---------------------------- MODULE SfntProofs ----------------------------
(***************************************************************************)
(* Facts about the table directory of Sfnt, for any width of its words:    *)
(* the search fields are numbers and, for few enough tables, the           *)
(* documented ones; sorting only rearranges; and a directory takes up the  *)
(* bytes that calculate_header_size says.                                  *)
(***************************************************************************)
EXTENDS Sfnt, ByteBufferProofs

(* Powers of two.                                                          *)

LEMMA Pow2Equation == Pow2 = [k \in Nat |-> IF k = 0 THEN 1 ELSE 2 * Pow2[k-1]]
<1> DEFINE Double == [p \in Nat \X Nat |-> 2 * p[1]]
           Powers(f) == f = [k \in Nat |-> IF k = 0 THEN 1 ELSE 2 * f[k-1]]
<1>1. Double \in [Nat \X Nat -> Nat] /\ \A v, n \in Nat : Double[<<v, n>>] = 2 * v
  OBVIOUS
<1> HIDE DEF Double
<1>2. PICK F : Iterates(F, Nat, 1, Double)
  BY <1>1, Recursion
<1>3. ASSUME NEW k \in Nat PROVE F[k] = IF k = 0 THEN 1 ELSE 2 * F[k-1]
  <2>1. CASE k # 0
    <3>1. k - 1 \in Nat /\ (k - 1) + 1 = k /\ F[k-1] \in Nat
      BY <1>2, <2>1 DEF Iterates
    <3>2. F[k] = Double[<<F[k-1], k>>]
      BY <1>2, <3>1 DEF Iterates
    <3> QED BY <1>1, <2>1, <3>1, <3>2
  <2> QED BY <1>2, <2>1 DEF Iterates
<1>4. Powers(F)
  BY <1>2, <1>3 DEF Iterates
<1>5. Powers(CHOOSE f : Powers(f))
  BY <1>4
<1> QED BY <1>5 DEF Pow2

LEMMA Pow2Next ==
  /\ Pow2[0] = 1
  /\ \A k \in Nat : Pow2[k+1] = 2 * Pow2[k]
<1>1. \A k \in Nat : Pow2[k] = IF k = 0 THEN 1 ELSE 2 * Pow2[k-1]
  BY Pow2Equation
<1>2. ASSUME NEW k \in Nat PROVE Pow2[k+1] = 2 * Pow2[k]
  <2>1. k + 1 \in Nat /\ k + 1 # 0 /\ (k + 1) - 1 = k
    OBVIOUS
  <2> QED BY <1>1, <2>1
<1> QED BY <1>1, <1>2

LEMMA Pow2Large == \A k \in Nat : Pow2[k] \in Nat /\ k < Pow2[k] /\ (k >= 3 => k + 3 < Pow2[k])
<1> DEFINE T == {k \in Nat : ~(Pow2[k] \in Nat /\ k < Pow2[k] /\ (k >= 3 => k + 3 < Pow2[k]))}
<1> SUFFICES ASSUME T # {} PROVE FALSE
  OBVIOUS
<1>1. PICK m \in T : \A j \in T : m <= j
  BY LeastNumber
<1>2. m \in Nat /\ m # 0
  BY Pow2Next
<1>3. m - 1 \in Nat /\ m - 1 \notin T
  BY <1>1, <1>2
<1>4. /\ Pow2[m - 1] \in Nat /\ m - 1 < Pow2[m - 1]
      /\ m - 1 >= 3 => (m - 1) + 3 < Pow2[m - 1]
  BY <1>3
<1>5. Pow2[m] = 2 * Pow2[m - 1]
  <2>1. (m - 1) + 1 = m
    BY <1>2
  <2> QED BY <1>3, <2>1, Pow2Next
<1>6. CASE m = 3
  <2>1. Pow2[0 + 1] = 2 /\ Pow2[1 + 1] = 2 * Pow2[0 + 1] /\ Pow2[2 + 1] = 2 * Pow2[1 + 1]
    BY Pow2Next
  <2>2. Pow2[3] = 8
    BY <2>1
  <2> QED BY <1>6, <2>2
<1>7. CASE m # 3
  BY <1>2, <1>4, <1>5, <1>7
<1> QED BY <1>6, <1>7

LEMMA Pow2Grows == \A i, j \in Nat : i <= j => Pow2[i] <= Pow2[j]
<1> SUFFICES ASSUME NEW i \in Nat PROVE \A j \in Nat : i <= j => Pow2[i] <= Pow2[j]
  OBVIOUS
<1> DEFINE T == {j \in Nat : i <= j /\ ~(Pow2[i] <= Pow2[j])}
<1> SUFFICES ASSUME T # {} PROVE FALSE
  OBVIOUS
<1>1. PICK m \in T : \A j \in T : m <= j
  BY LeastNumber
<1>2. Pow2[i] \in Nat /\ Pow2[m] \in Nat
  BY Pow2Large
<1>3. m \in Nat /\ i <= m /\ i # m
  BY <1>2
<1>4. m - 1 \in Nat /\ m - 1 \notin T /\ i <= m - 1 /\ (m - 1) + 1 = m
  BY <1>1, <1>3
<1>5. Pow2[i] <= Pow2[m - 1] /\ Pow2[m - 1] \in Nat
  BY <1>4, Pow2Large
<1>6. Pow2[m] = 2 * Pow2[m - 1]
  BY <1>4, Pow2Next
<1> QED BY <1>2, <1>5, <1>6
-----------------------------------------------------------------------------
LEMMA CastToU16 == \A v \in 0 .. U16 - 1 : v % U16 = v
BY WidthType

\* The same for the shift amounts.
LEMMA MaskedShift == \A v \in 0 .. WordBits - 1 : v % WordBits = v
BY WordAssumption

(* The fields of a number of tables with b bits.                           *)

LEMMA WordWidth ==
  /\ WordBits \in Nat /\ WordBits > 4 /\ Pow2[WordBits] = U16 /\ U16 \in Nat
  /\ WordBits + 3 < U16
  /\ U16 = 16 * Pow2[WordBits - 4] /\ Pow2[WordBits - 4] \in Nat
  /\ U16 \div 16 = Pow2[WordBits - 4]
<1>1. WordBits \in Nat /\ WordBits > 4 /\ Pow2[WordBits] = U16
  BY WordAssumption
<1>2. U16 \in Nat /\ WordBits + 3 < U16
  BY <1>1, Pow2Large
<1>3. WordBits - 4 \in Nat /\ ((((WordBits - 4) + 1) + 1) + 1) + 1 = WordBits
  BY <1>1
<1>4. Pow2[((((WordBits - 4) + 1) + 1) + 1) + 1] = 2 * (2 * (2 * (2 * Pow2[WordBits - 4])))
  BY <1>3, Pow2Next
<1>5. Pow2[WordBits - 4] \in Nat
  BY <1>3, Pow2Large
<1>6. U16 = 16 * Pow2[WordBits - 4]
  BY <1>1, <1>3, <1>4, <1>5
<1> QED BY <1>1, <1>2, <1>5, <1>6

HasBits(n, b) == n < Pow2[b] /\ (b > 0 => n >= Pow2[b - 1])

LEMMA BitsOfNumber ==
  ASSUME NEW n \in 0 .. U16 - 1
  PROVE  \E b \in 0 .. WordBits : /\ HasBits(n, b) /\ leading_zeros(n) = WordBits - b
                                  /\ b = 0 <=> n = 0
<1> DEFINE T == {b \in Nat : n < Pow2[b]}
<1>1. n \in Nat /\ WordBits \in T
  BY WordWidth
<1>2. PICK b \in T : \A j \in T : b <= j
  <2> HIDE DEF T
  <2>1. T \subseteq Nat
    BY DEF T
  <2> QED BY <1>1, <2>1, LeastNumber
<1>3. b \in 0 .. WordBits /\ n < Pow2[b]
  BY <1>1, <1>2, WordWidth
<1>4. ASSUME b > 0 PROVE n >= Pow2[b - 1]
  <2>1. b - 1 \in Nat /\ b - 1 \notin T /\ Pow2[b - 1] \in Nat
    BY <1>2, <1>3, <1>4, Pow2Large
  <2> QED BY <1>1, <2>1
<1>5. ASSUME NEW c \in 0 .. WordBits, HasBits(n, c) PROVE c = b
  <2>1. ASSUME NEW x \in Nat, NEW y \in Nat, x < y, HasBits(n, x), HasBits(n, y) PROVE FALSE
    <3>1. y - 1 \in Nat /\ x <= y - 1 /\ y > 0
      BY <2>1
    <3>2. Pow2[x] <= Pow2[y - 1] /\ Pow2[x] \in Nat /\ Pow2[y - 1] \in Nat
      BY <3>1, Pow2Grows, Pow2Large
    <3> QED BY <1>1, <2>1, <3>1, <3>2 DEF HasBits
  <2>2. HasBits(n, b) /\ b \in Nat /\ c \in Nat
    BY <1>3, <1>4 DEF HasBits
  <2> QED BY <1>5, <2>1, <2>2
<1>6. leading_zeros(n) = WordBits - b
  <2>1. (CHOOSE c \in 0 .. WordBits : HasBits(n, c)) = b
    BY <1>3, <1>4, <1>5 DEF HasBits
  <2> QED BY <2>1 DEF leading_zeros, HasBits
<1>7. b = 0 <=> n = 0
  <2>1. b > 0 => Pow2[b - 1] \in Nat /\ Pow2[b - 1] >= 1
    <3>1. b > 0 => b - 1 \in Nat
      BY <1>3
    <3> QED BY <3>1, Pow2Large
  <2> QED BY <1>1, <1>3, <1>4, <2>1, Pow2Next
<1> QED BY <1>3, <1>4, <1>6, <1>7 DEF HasBits

\* Without the overflows the fields are the documented ones.
LEMMA FieldsOf ==
  ASSUME NEW n \in 1 .. U16 - 1
  PROVE  \E k \in 0 .. WordBits - 1 :
           /\ entry_selector(n) = k /\ ShiftAmount(n) = k + 4
           /\ Pow2[k] \in Nat /\ Pow2[k] <= n /\ n < 2 * Pow2[k]
           /\ k + 4 < WordBits => /\ search_range(n) = 16 * Pow2[k]
                                  /\ (16 * n) % U16 = 16 * n
                                  /\ range_shift(n) = 16 * n - search_range(n)
           /\ n < U16 \div 16 <=> k + 4 < WordBits
<1>1. PICK b \in 0 .. WordBits : /\ HasBits(n, b) /\ leading_zeros(n) = WordBits - b
                                 /\ b = 0 <=> n = 0
  BY BitsOfNumber, WordWidth
<1> DEFINE k == b - 1
<1>2. k \in 0 .. WordBits - 1 /\ k \in Nat /\ b = k + 1 /\ n \in Nat
  BY <1>1, WordWidth
<1>3. /\ Pow2[k] \in Nat /\ Pow2[k] <= n /\ n < 2 * Pow2[k]
  BY <1>1, <1>2, Pow2Next, Pow2Large DEF HasBits
<1>4. entry_selector(n) = k /\ ShiftAmount(n) = k + 4
  <2>1. entry_selector(n) = k % U16
    BY <1>1, <1>2, WordWidth DEF entry_selector
  <2>2. k \in 0 .. U16 - 1 /\ k + 4 \in 0 .. U16 - 1
    BY <1>2, WordWidth
  <2> QED BY <2>1, <2>2, CastToU16 DEF ShiftAmount
<1>5. n < U16 \div 16 <=> k + 4 < WordBits
  <2>1. ASSUME k + 4 < WordBits PROVE n < Pow2[WordBits - 4]
    <3>1. k + 1 <= WordBits - 4 /\ k + 1 \in Nat /\ WordBits - 4 \in Nat
      BY <1>2, <2>1, WordWidth
    <3>2. Pow2[k + 1] <= Pow2[WordBits - 4] /\ Pow2[k + 1] = 2 * Pow2[k]
      BY <1>2, <3>1, Pow2Grows, Pow2Next
    <3> QED BY <1>2, <1>3, <3>2, WordWidth
  <2>2. ASSUME k + 4 >= WordBits PROVE n >= Pow2[WordBits - 4]
    <3>1. WordBits - 4 <= k /\ WordBits - 4 \in Nat
      BY <1>2, <2>2, WordWidth
    <3>2. Pow2[WordBits - 4] <= Pow2[k]
      BY <1>2, <3>1, Pow2Grows
    <3> QED BY <1>2, <1>3, <3>2, WordWidth
  <2> QED BY <1>2, <2>1, <2>2, WordWidth
<1>6. ASSUME k + 4 < WordBits
      PROVE  /\ search_range(n) = 16 * Pow2[k] /\ (16 * n) % U16 = 16 * n
             /\ range_shift(n) = 16 * n - search_range(n)
  <2>1. (k + 4) % WordBits = k + 4
    <3>1. k + 4 \in 0 .. WordBits - 1
      BY <1>2, <1>6, WordWidth
    <3> QED BY <3>1, MaskedShift
  <2>2. Pow2[k + 4] = 16 * Pow2[k]
    <3>1. Pow2[(((k + 1) + 1) + 1) + 1] = 2 * (2 * (2 * (2 * Pow2[k])))
      BY <1>2, Pow2Next
    <3>2. (((k + 1) + 1) + 1) + 1 = k + 4
      BY <1>2
    <3> QED BY <1>3, <3>1, <3>2
  <2>3. search_range(n) = 16 * Pow2[k]
    BY <1>4, <2>1, <2>2 DEF search_range
  <2>4. 16 * n < U16
    BY <1>2, <1>5, <1>6, WordWidth
  <2>5. 16 * n \in 0 .. U16 - 1 /\ 16 * n - 16 * Pow2[k] \in 0 .. U16 - 1
    BY <1>2, <1>3, <2>4, WordWidth
  <2> QED BY <2>3, <2>5, CastToU16 DEF range_shift
<1> QED BY <1>2, <1>3, <1>4, <1>5, <1>6
-----------------------------------------------------------------------------
(* Sorting.                                                                *)

\* A sorted sequence has the elements of the original, as many as it has.
LEMMA SortedElements ==
  ASSUME NEW S, NEW s \in Seq(S), NEW keys, NEW t \in SortedBy(keys, s)
  PROVE  /\ t \in Seq(S) /\ Len(t) = Len(s)
         /\ \A i \in DOMAIN t : \E j \in DOMAIN s : t[i] = s[j]
<1>1. PICK p \in Bijection(DOMAIN s, DOMAIN s) : t = [i \in DOMAIN s |-> s[p[i]]]
  BY DEF SortedBy
<1>2. p \in [DOMAIN s -> DOMAIN s]
  BY DEF Bijection, Injection
<1>3. DOMAIN s = 1 .. Len(s) /\ Len(s) \in Nat
  BY LenProperties
<1>4. ASSUME NEW i \in DOMAIN s PROVE p[i] \in DOMAIN s /\ s[p[i]] \in S
  BY <1>2, <1>3, ElementOfSeq
<1>5. t \in [1 .. Len(s) -> S]
  BY <1>1, <1>3, <1>4
<1>6. t \in Seq(S) /\ Len(t) = Len(s)
  BY <1>3, <1>5
<1> QED BY <1>1, <1>4, <1>6
-----------------------------------------------------------------------------
(* The length of a directory.                                              *)

\* The concatenation of sequences of n bytes each.
LEMMA FlattenedLength ==
  ASSUME NEW seqs \in Seq(Seq(Byte)), NEW w \in Nat,
         \A i \in 1 .. Len(seqs) : Len(seqs[i]) = w
  PROVE  FlattenSeq(seqs) \in Seq(Byte) /\ Len(FlattenSeq(seqs)) = w * Len(seqs)
<1> DEFINE n == Len(seqs)
           Joined == [p \in Seq(Byte) \X Nat |->
                        IF p[2] \in 1 .. n THEN p[1] \o seqs[p[2]] ELSE p[1]]
           Flattens(f) == f = [i \in 1 .. n |-> IF i = 1 THEN seqs[i] ELSE f[i-1] \o seqs[i]]
<1>1. n \in Nat
  BY LenProperties
<1>2. CASE n = 0
  <2>1. seqs = << >>
    BY <1>2, EmptySeq
  <2> QED BY <1>2, <2>1 DEF FlattenSeq
<1>3. CASE n # 0
  <2>1. \A i \in 1 .. n : seqs[i] \in Seq(Byte)
    BY ElementOfSeq
  <2>2. Joined \in [Seq(Byte) \X Nat -> Seq(Byte)]
    <3>1. ASSUME NEW p \in Seq(Byte) \X Nat
          PROVE  (IF p[2] \in 1 .. n THEN p[1] \o seqs[p[2]] ELSE p[1]) \in Seq(Byte)
      BY <2>1, ConcatProperties
    <3> QED BY <3>1
  <2>3. \A v \in Seq(Byte), i \in 1 .. n : Joined[<<v, i>>] = v \o seqs[i]
    <3>1. ASSUME NEW v \in Seq(Byte), NEW i \in 1 .. n PROVE Joined[<<v, i>>] = v \o seqs[i]
      <4>1. <<v, i>> \in Seq(Byte) \X Nat
        BY <1>1
      <4> QED BY <4>1
    <3> QED BY <3>1
  <2>4. << >> \in Seq(Byte)
    OBVIOUS
  <2> HIDE DEF Joined
  <2>5. PICK F : Iterates(F, Seq(Byte), << >>, Joined)
    BY <2>2, <2>4, Recursion
  <2> DEFINE G == [i \in 1 .. n |-> F[i]]
  <2>6. ASSUME NEW i \in 1 .. n PROVE F[i-1] \in Seq(Byte) /\ F[i] = F[i-1] \o seqs[i]
    <3>1. i - 1 \in Nat /\ (i - 1) + 1 = i
      BY <1>1
    <3> QED BY <2>3, <2>5, <3>1 DEF Iterates
  <2>7. F[0] = << >>
    BY <2>5 DEF Iterates
  <2>8. Flattens(G)
    <3>1. ASSUME NEW i \in 1 .. n
          PROVE  F[i] = IF i = 1 THEN seqs[i] ELSE G[i-1] \o seqs[i]
      <4>1. CASE i = 1
        <5>1. 1 \in 1 .. n /\ 1 - 1 = 0
          BY <4>1
        <5>2. F[1] = << >> \o seqs[1] /\ seqs[1] \in Seq(Byte)
          BY <2>1, <2>6, <2>7, <5>1
        <5>3. << >> \o seqs[1] = seqs[1]
          BY <5>2, ConcatEmptySeq
        <5> QED BY <4>1, <5>2, <5>3
      <4>2. CASE i # 1
        <5>1. i - 1 \in 1 .. n
          BY <1>1, <4>2
        <5> QED BY <2>6, <4>2, <5>1
      <4> QED BY <4>1, <4>2
    <3> QED BY <3>1
  <2> DEFINE H == CHOOSE f : Flattens(f)
  <2>9. Flattens(H)
    BY <2>8
  <2> HIDE DEF H
  <2>10. \A i \in 1 .. n : H[i] = IF i = 1 THEN seqs[i] ELSE H[i-1] \o seqs[i]
    BY <2>9
  <2> DEFINE T == {i \in 1 .. n : ~(H[i] \in Seq(Byte) /\ Len(H[i]) = w * i)}
  <2>11. T = {}
    <3> SUFFICES ASSUME T # {} PROVE FALSE
      OBVIOUS
    <3>1. PICK m \in T : \A j \in T : m <= j
      <4>1. T \subseteq Nat
        BY <1>1
      <4> HIDE DEF T
      <4> QED BY <4>1, LeastNumber
    <3>2. CASE m = 1
      <4>1. 1 \in 1 .. n /\ H[1] = seqs[1] /\ w * 1 = w
        BY <2>10, <3>2
      <4> QED BY <2>1, <3>2, <4>1
    <3>3. CASE m # 1
      <4>1. m - 1 \in 1 .. n /\ m - 1 \notin T
        BY <1>1, <3>1, <3>3
      <4>2. H[m-1] \in Seq(Byte) /\ Len(H[m-1]) = w * (m - 1)
        BY <4>1
      <4>3. H[m] = H[m-1] \o seqs[m] /\ seqs[m] \in Seq(Byte) /\ Len(seqs[m]) = w
        BY <2>1, <2>10, <3>3
      <4>4. H[m] \in Seq(Byte) /\ Len(H[m]) = w * (m - 1) + w
        <5>1. PICK a \in Seq(Byte), b \in Seq(Byte) : a = H[m-1] /\ b = seqs[m]
          BY <4>2, <4>3
        <5>2. a \o b \in Seq(Byte) /\ Len(a \o b) = Len(a) + Len(b)
          BY ConcatProperties
        <5> QED BY <4>2, <4>3, <5>1, <5>2
      <4>5. w * (m - 1) + w = w * m
        BY <1>1
      <4> QED BY <4>4, <4>5
    <3> QED BY <3>2, <3>3
  <2>12. H[n] \in Seq(Byte) /\ Len(H[n]) = w * n
    <3>1. n \in 1 .. n /\ n \notin T
      BY <1>1, <1>3, <2>11, SMTT(20)
    <3> QED BY <3>1
  <2> QED BY <1>3, <2>12 DEF FlattenSeq, H
<1> QED BY <1>2, <1>3

LEMMA TwoParts ==
  ASSUME NEW a \in Seq(Byte), NEW b \in Seq(Byte)
  PROVE  a \o b \in Seq(Byte) /\ Len(a \o b) = Len(a) + Len(b)
BY ConcatProperties

LEMMA WordsLength ==
  ASSUME NEW v1 \in Nat, NEW v2 \in Nat, NEW v3 \in Nat, NEW v4 \in Nat
  PROVE  /\ BigEndian32(v1) \o BigEndian32(v2) \o BigEndian32(v3) \o BigEndian32(v4) \in Seq(Byte)
         /\ Len(BigEndian32(v1) \o BigEndian32(v2) \o BigEndian32(v3) \o BigEndian32(v4)) = 16
<1> DEFINE a == BigEndian32(v1)
           b == BigEndian32(v2)
           c == BigEndian32(v3)
           d == BigEndian32(v4)
<1>1. /\ a \in Seq(Byte) /\ b \in Seq(Byte) /\ c \in Seq(Byte) /\ d \in Seq(Byte)
      /\ Len(a) = 4 /\ Len(b) = 4 /\ Len(c) = 4 /\ Len(d) = 4
  BY BigEndian32Properties
<1> HIDE DEF a, b, c, d
<1>2. a \o b \in Seq(Byte) /\ Len(a \o b) = Len(a) + Len(b)
  BY <1>1, TwoParts
<1>3. (a \o b) \o c \in Seq(Byte) /\ Len((a \o b) \o c) = Len(a \o b) + Len(c)
  BY <1>1, <1>2, TwoParts
<1>4. ((a \o b) \o c) \o d \in Seq(Byte) /\ Len(((a \o b) \o c) \o d) = Len((a \o b) \o c) + Len(d)
  BY <1>1, <1>3, TwoParts
<1>5. Len(((a \o b) \o c) \o d) = 16
  BY <1>1, <1>2, <1>3, <1>4
<1> QED BY <1>4, <1>5 DEF a, b, c, d

\* The search fields are numbers, for every number of tables a u16 can hold.
LEMMA FieldsType ==
  ASSUME NEW n \in 0 .. U16 - 1
  PROVE  search_range(n) \in Nat /\ entry_selector(n) \in Nat /\ range_shift(n) \in Nat
<1>1. U16 \in Nat /\ U16 > 0 /\ WordBits \in Nat /\ WordBits > 0 /\ n \in Nat
  BY WordWidth, WidthType
<1>2. PICK b \in 0 .. WordBits : leading_zeros(n) = WordBits - b
  BY BitsOfNumber
<1>3. ASSUME NEW v \in Int PROVE v % U16 \in Nat
  BY <1>1
<1>4. entry_selector(n) \in Nat
  BY <1>1, <1>2, <1>3 DEF entry_selector
<1>5. ShiftAmount(n) \in Nat
  BY <1>3, <1>4 DEF ShiftAmount
<1>6. ShiftAmount(n) % WordBits \in Nat
  BY <1>1, <1>5
<1>7. search_range(n) \in Nat
  BY <1>6, Pow2Large DEF search_range
<1> QED BY <1>1, <1>3, <1>4, <1>7 DEF range_shift

\* A directory has the length calculate_header_size gives it.
LEMMA DirectoryLength ==
  ASSUME NEW v \in Nat, NEW S, NEW recs \in Seq(S), Len(recs) \in 0 .. U16 - 1,
         \A r \in S : /\ r.tag \in Nat /\ r.checksum \in Nat
                      /\ r.offset \in Nat /\ r.length \in Nat
  PROVE  /\ DirectoryBytes(v, recs) \in Seq(Byte)
         /\ Len(DirectoryBytes(v, recs)) = calculate_header_size(Len(recs))
<1> DEFINE n == Len(recs)
           a == BigEndian32(v)
           b == BigEndian16(n)
           c == BigEndian16(search_range(n))
           d == BigEndian16(entry_selector(n))
           e == BigEndian16(range_shift(n))
           all == [i \in DOMAIN recs |-> RecordBytes(recs[i])]
           f == FlattenSeq(all)
<1>1. n \in Nat /\ DOMAIN recs = 1 .. n
  BY LenProperties
<1>2. search_range(n) \in Nat /\ entry_selector(n) \in Nat /\ range_shift(n) \in Nat
  BY FieldsType
<1>3. a \in Seq(Byte) /\ Len(a) = 4
  BY BigEndian32Properties
<1>4. /\ b \in Seq(Byte) /\ c \in Seq(Byte) /\ d \in Seq(Byte) /\ e \in Seq(Byte)
      /\ Len(b) = 2 /\ Len(c) = 2 /\ Len(d) = 2 /\ Len(e) = 2
  BY <1>1, <1>2, BigEndian16Properties
<1>5. ASSUME NEW i \in 1 .. n PROVE RecordBytes(recs[i]) \in Seq(Byte) /\ Len(RecordBytes(recs[i])) = 16
  <2>1. recs[i] \in S
    BY ElementOfSeq
  <2>2. /\ recs[i].tag \in Nat /\ recs[i].checksum \in Nat
        /\ recs[i].offset \in Nat /\ recs[i].length \in Nat
    BY <2>1
  <2>3. PICK v1 \in Nat, v2 \in Nat, v3 \in Nat, v4 \in Nat :
          /\ v1 = recs[i].tag /\ v2 = recs[i].checksum
          /\ v3 = recs[i].offset /\ v4 = recs[i].length
    BY <2>2
  <2>4. /\ BigEndian32(v1) \o BigEndian32(v2) \o BigEndian32(v3) \o BigEndian32(v4) \in Seq(Byte)
        /\ Len(BigEndian32(v1) \o BigEndian32(v2) \o BigEndian32(v3) \o BigEndian32(v4)) = 16
    BY WordsLength, ZenonT(30)
  <2> QED BY <2>3, <2>4 DEF RecordBytes
<1>6. all \in Seq(Seq(Byte)) /\ Len(all) = n /\ \A i \in 1 .. n : Len(all[i]) = 16
  <2>1. all \in [1 .. n -> Seq(Byte)]
    BY <1>1, <1>5
  <2>2. \A i \in 1 .. n : all[i] = RecordBytes(recs[i])
    BY <1>1
  <2>3. \A i \in 1 .. n : Len(all[i]) = 16
    BY <1>5, <2>2
  <2> HIDE DEF all, n
  <2> QED BY <1>1, <2>1, <2>3
<1> HIDE DEF all
<1>7. f \in Seq(Byte) /\ Len(f) = 16 * n
  BY <1>6, FlattenedLength
<1> HIDE DEF a, b, c, d, e, f
<1>8. a \o b \in Seq(Byte) /\ Len(a \o b) = Len(a) + Len(b)
  BY <1>3, <1>4, TwoParts
<1>9. (a \o b) \o c \in Seq(Byte) /\ Len((a \o b) \o c) = Len(a \o b) + Len(c)
  BY <1>4, <1>8, TwoParts
<1>10. /\ ((a \o b) \o c) \o d \in Seq(Byte)
       /\ Len(((a \o b) \o c) \o d) = Len((a \o b) \o c) + Len(d)
  BY <1>4, <1>9, TwoParts
<1>11. /\ (((a \o b) \o c) \o d) \o e \in Seq(Byte)
       /\ Len((((a \o b) \o c) \o d) \o e) = Len(((a \o b) \o c) \o d) + Len(e)
  BY <1>4, <1>10, TwoParts
<1>12. /\ ((((a \o b) \o c) \o d) \o e) \o f \in Seq(Byte)
       /\ Len(((((a \o b) \o c) \o d) \o e) \o f) = Len((((a \o b) \o c) \o d) \o e) + Len(f)
  BY <1>7, <1>11, TwoParts
<1>13. Len(((((a \o b) \o c) \o d) \o e) \o f) = 12 + 16 * n
  BY <1>1, <1>3, <1>4, <1>7, <1>8, <1>9, <1>10, <1>11, <1>12
<1> QED BY <1>12, <1>13 DEF DirectoryBytes, calculate_header_size, a, b, c, d, e, f, all
=============================================================================
