-------------------------- MODULE ByteBufferProofs --------------------------
(***************************************************************************)
(* Facts about the operators of ByteBuffer, for every radix: how padding   *)
(* and appending change a buffer, and that a checksum is a u32.            *)
(*                                                                         *)
(* The last one is a fact about a recursive function. It needs the         *)
(* least-number principle, which is derived here from the well-foundedness *)
(* of strict inclusion between finite sets, and the existence of functions *)
(* defined by recursion over the numbers, whose finite prefixes agree.     *)
(***************************************************************************)
EXTENDS ByteBuffer, FiniteSets, SequenceTheorems, FiniteSetTheorems,
        WellFoundedInduction, TLAPS
-----------------------------------------------------------------------------
(* The integers a u16 and a u32 range over.                                *)

LEMMA WidthType == U16 \in Nat /\ U16 > 0 /\ U32 \in Nat /\ U32 > 0
<1>1. Radix \in Nat /\ Radix > 0
  BY RadixAssumption
<1>2. U16 \in Nat /\ U16 > 0
  BY <1>1 DEF U16
<1>3. U32 \in Nat /\ U32 > 0
  BY <1>2 DEF U32
<1> QED BY <1>2, <1>3

\* A value cast to u32 is one, and small values are left as they are.
LEMMA CastToU32 ==
  ASSUME NEW v \in Int
  PROVE  v % U32 \in 0 .. U32 - 1 /\ (v \in 0 .. U32 - 1 => v % U32 = v)
BY WidthType

LEMMA ZeroIsAByte == 0 \in Byte
BY RadixAssumption DEF Byte

LEMMA BytesAreNaturals == Byte \subseteq Nat
BY RadixAssumption DEF Byte
-----------------------------------------------------------------------------
(* Padding.                                                                *)

LEMMA PaddedProperties ==
  ASSUME NEW n \in Nat
  PROVE  /\ Padded(n) \in Nat /\ Padded(n) % 4 = 0
         /\ n <= Padded(n) /\ Padded(n) <= n + 3
         /\ n % 4 = 0 => Padded(n) = n
BY DEF Padded

\* Two lengths that differ by a multiple of four are padded alike.
LEMMA PaddedShift ==
  ASSUME NEW n \in Nat, NEW a \in Nat, a % 4 = 0
  PROVE  Padded(a + n) = a + Padded(n)
BY DEF Padded

LEMMA ZerosProperties ==
  ASSUME NEW n \in Nat
  PROVE  Zeros(n) \in Seq(Byte) /\ Len(Zeros(n)) = n
<1>1. Zeros(n) \in [1 .. n -> Byte]
  BY ZeroIsAByte DEF Zeros
<1> QED BY <1>1

\* Padding and appending keep what was in the buffer and leave its length a
\* multiple of four.
LEMMA PadProperties ==
  ASSUME NEW buffer \in Seq(Byte)
  PROVE  /\ pad_to_multiple_of_four(buffer) \in Seq(Byte)
         /\ Len(pad_to_multiple_of_four(buffer)) = Padded(Len(buffer))
         /\ \A i \in 1 .. Len(buffer) : pad_to_multiple_of_four(buffer)[i] = buffer[i]
<1> DEFINE tail == Zeros(Padded(Len(buffer)) - Len(buffer))
<1>1. Len(buffer) \in Nat
  BY LenProperties
<1>2. Padded(Len(buffer)) \in Nat /\ Padded(Len(buffer)) - Len(buffer) \in Nat
  BY <1>1 DEF Padded
<1>3. tail \in Seq(Byte) /\ Len(tail) = Padded(Len(buffer)) - Len(buffer)
  BY <1>2, ZerosProperties
<1> HIDE DEF tail
<1>4. /\ buffer \o tail \in Seq(Byte)
      /\ Len(buffer \o tail) = Len(buffer) + Len(tail)
      /\ \A i \in 1 .. Len(buffer) + Len(tail) :
           (buffer \o tail)[i] = IF i <= Len(buffer) THEN buffer[i] ELSE tail[i - Len(buffer)]
  BY <1>3, ConcatProperties
<1>5. Len(buffer \o tail) = Padded(Len(buffer))
  BY <1>1, <1>2, <1>3, <1>4
<1>6. \A i \in 1 .. Len(buffer) : (buffer \o tail)[i] = buffer[i]
  BY <1>1, <1>2, <1>3, <1>4
<1> QED BY <1>4, <1>5, <1>6 DEF pad_to_multiple_of_four, tail
-----------------------------------------------------------------------------
(* Slices.                                                                 *)

LEMMA SliceProperties ==
  ASSUME NEW buffer \in Seq(Byte), NEW offset \in Nat, NEW length \in Nat,
         offset + length <= Len(buffer)
  PROVE  /\ Slice(buffer, offset, length) \in Seq(Byte)
         /\ Len(Slice(buffer, offset, length)) = length
         /\ \A i \in 1 .. length : Slice(buffer, offset, length)[i] = buffer[offset + i]
<1>1. \A i \in offset + 1 .. offset + length : buffer[i] \in Byte
  BY ElementOfSeq
<1>2. /\ SubSeq(buffer, offset + 1, offset + length) \in Seq(Byte)
      /\ Len(SubSeq(buffer, offset + 1, offset + length)) = length
      /\ \A i \in 1 .. length :
           SubSeq(buffer, offset + 1, offset + length)[i] = buffer[offset + i]
  BY <1>1, SubSeqProperties
<1> QED BY <1>2 DEF Slice

\* Two buffers that agree on a range have the same slice there.
LEMMA SliceAgrees ==
  ASSUME NEW a \in Seq(Byte), NEW b \in Seq(Byte), NEW offset \in Nat, NEW length \in Nat,
         offset + length <= Len(a), offset + length <= Len(b),
         \A i \in offset + 1 .. offset + length : a[i] = b[i]
  PROVE  Slice(a, offset, length) = Slice(b, offset, length)
<1> DEFINE s == Slice(a, offset, length)
           t == Slice(b, offset, length)
<1>1. /\ s \in Seq(Byte) /\ Len(s) = length
      /\ \A i \in 1 .. length : s[i] = a[offset + i]
  BY SliceProperties
<1>2. /\ t \in Seq(Byte) /\ Len(t) = length
      /\ \A i \in 1 .. length : t[i] = b[offset + i]
  BY SliceProperties
<1>3. \A i \in 1 .. length : s[i] = t[i]
  BY <1>1, <1>2
<1> HIDE DEF s, t
<1>4. s = t
  BY <1>1, <1>2, <1>3, SeqEqual
<1> QED BY <1>4 DEF s, t

LEMMA OverwriteProperties ==
  ASSUME NEW buffer \in Seq(Byte), NEW offset \in Nat, NEW bytes \in Seq(Byte)
  PROVE  /\ Overwrite(buffer, offset, bytes) \in Seq(Byte)
         /\ Len(Overwrite(buffer, offset, bytes)) = Len(buffer)
<1> DEFINE o == Overwrite(buffer, offset, bytes)
<1>1. DOMAIN buffer = 1 .. Len(buffer) /\ Len(buffer) \in Nat /\ Len(bytes) \in Nat
  BY LenProperties
<1>2. ASSUME NEW i \in DOMAIN buffer
      PROVE  (IF i \in offset + 1 .. offset + Len(bytes)
              THEN bytes[i - offset] ELSE buffer[i]) \in Byte
  <2>1. CASE i \in offset + 1 .. offset + Len(bytes)
    <3>1. i - offset \in 1 .. Len(bytes)
      BY <1>1, <2>1
    <3> QED BY <2>1, <3>1, ElementOfSeq
  <2>2. CASE i \notin offset + 1 .. offset + Len(bytes)
    BY <1>1, <2>2, ElementOfSeq
  <2> QED BY <2>1, <2>2
<1>3. o \in [1 .. Len(buffer) -> Byte]
  BY <1>1, <1>2 DEF Overwrite
<1> QED BY <1>1, <1>3

LEMMA OverwriteAt ==
  ASSUME NEW buffer \in Seq(Byte), NEW offset, NEW bytes, NEW i \in 1 .. Len(buffer)
  PROVE  Overwrite(buffer, offset, bytes)[i] =
           IF i \in offset + 1 .. offset + Len(bytes) THEN bytes[i - offset] ELSE buffer[i]
<1>1. i \in DOMAIN buffer
  BY LenProperties
<1> QED BY <1>1 DEF Overwrite
-----------------------------------------------------------------------------
(* Division, and the bytes of a number.                                    *)

LEMMA QuotientAndRest ==
  ASSUME NEW d \in Nat, d > 0, NEW q \in Int, NEW r \in 0 .. d - 1
  PROVE  (q * d + r) \div d = q /\ (q * d + r) % d = r
OBVIOUS

LEMMA Division ==
  ASSUME NEW d \in Nat, d > 0, NEW v \in Int
  PROVE  /\ v \div d \in Int /\ v % d \in 0 .. d - 1 /\ v = (v \div d) * d + (v % d)
         /\ v \in Nat => v \div d \in Nat
OBVIOUS

\* A remainder may be taken of a summand first.
LEMMA WrappedSum ==
  \A v, w \in Int : ((v % U32) + w) % U32 = (v + w) % U32
<1> SUFFICES ASSUME NEW v \in Int, NEW w \in Int PROVE ((v % U32) + w) % U32 = (v + w) % U32
  OBVIOUS
<1> DEFINE d == U32
<1>1. d \in Nat /\ d > 0
  BY WidthType
<1> HIDE DEF d
<1>2. PICK q \in Int, r \in 0 .. d - 1 : v % d = r /\ v = q * d + r
  BY <1>1, Division
<1>3. r \in Int /\ r + w \in Int
  BY <1>2
<1>4. \E p \in Int, s \in 0 .. d - 1 : (r + w) % d = s /\ r + w = p * d + s
  <2> DEFINE z == r + w
  <2>1. z \in Int
    BY <1>3
  <2> HIDE DEF z
  <2>2. \E p \in Int, s \in 0 .. d - 1 : z % d = s /\ z = p * d + s
    BY <1>1, <2>1, Division
  <2> QED BY <2>2 DEF z
<1>5. PICK p \in Int, s \in 0 .. d - 1 : (r + w) % d = s /\ r + w = p * d + s
  BY <1>4
<1>6. v + w = (q + p) * d + s
  <2>1. (q + p) * d = q * d + p * d
    BY <1>1
  <2>2. q * d \in Int /\ p * d \in Int
    BY <1>1
  <2> QED BY <1>2, <1>3, <1>5, <2>1, <2>2
<1>7. ((q + p) * d + s) % d = s
  <2> DEFINE k == q + p
  <2>1. k \in Int
    OBVIOUS
  <2> HIDE DEF k
  <2>2. (k * d + s) % d = s
    BY <1>1, <2>1, QuotientAndRest
  <2> QED BY <2>2 DEF k
<1>8. ((v % d) + w) % d = (v + w) % d
  BY <1>2, <1>5, <1>6, <1>7
<1> QED BY <1>8 DEF d

LEMMA BigEndian16Properties ==
  ASSUME NEW v \in Nat
  PROVE  /\ BigEndian16(v) \in Seq(Byte) /\ Len(BigEndian16(v)) = 2
         /\ BigEndian16(v)[1] = (v \div Radix) % Radix /\ BigEndian16(v)[2] = v % Radix
<1>1. Radix \in Nat /\ Radix > 0
  BY RadixAssumption
<1>2. v \div Radix \in Nat /\ v % Radix \in 0 .. Radix - 1
  BY <1>1, Division
<1>3. (v \div Radix) % Radix \in 0 .. Radix - 1
  BY <1>1, <1>2, Division
<1> QED BY <1>2, <1>3 DEF BigEndian16, Byte

LEMMA TwoPairs ==
  ASSUME NEW a \in Seq(Byte), NEW b \in Seq(Byte), Len(a) = 2, Len(b) = 2
  PROVE  /\ a \o b \in Seq(Byte) /\ Len(a \o b) = 4
         /\ (a \o b)[1] = a[1] /\ (a \o b)[2] = a[2]
         /\ (a \o b)[3] = b[1] /\ (a \o b)[4] = b[2]
<1>1. /\ a \o b \in Seq(Byte) /\ Len(a \o b) = Len(a) + Len(b)
      /\ \A i \in 1 .. Len(a) + Len(b) :
           (a \o b)[i] = IF i <= Len(a) THEN a[i] ELSE b[i - Len(a)]
  BY ConcatProperties
<1>2. \A i \in 1 .. 4 : (a \o b)[i] = IF i <= 2 THEN a[i] ELSE b[i - 2]
  BY <1>1
<1> QED BY <1>1, <1>2

LEMMA BigEndian32Properties ==
  ASSUME NEW v \in Nat
  PROVE  /\ BigEndian32(v) \in Seq(Byte) /\ Len(BigEndian32(v)) = 4
         /\ BigEndian32(v)[1] = ((v \div U16) \div Radix) % Radix
         /\ BigEndian32(v)[2] = (v \div U16) % Radix
         /\ BigEndian32(v)[3] = ((v % U16) \div Radix) % Radix
         /\ BigEndian32(v)[4] = (v % U16) % Radix
<1> DEFINE a == BigEndian16(v \div U16)
           b == BigEndian16(v % U16)
<1>1. v \div U16 \in Nat /\ v % U16 \in Nat
  BY WidthType, Division
<1>2. /\ a \in Seq(Byte) /\ Len(a) = 2 /\ b \in Seq(Byte) /\ Len(b) = 2
      /\ a[1] = ((v \div U16) \div Radix) % Radix /\ a[2] = (v \div U16) % Radix
      /\ b[1] = ((v % U16) \div Radix) % Radix /\ b[2] = (v % U16) % Radix
  BY <1>1, BigEndian16Properties
<1> HIDE DEF a, b
<1>3. /\ a \o b \in Seq(Byte) /\ Len(a \o b) = 4
      /\ (a \o b)[1] = a[1] /\ (a \o b)[2] = a[2]
      /\ (a \o b)[3] = b[1] /\ (a \o b)[4] = b[2]
  BY <1>2, TwoPairs
<1> QED BY <1>2, <1>3 DEF BigEndian32, a, b

\* Read as a word, the bytes of a u32 are that number.
LEMMA BigEndian32Value ==
  ASSUME NEW v \in 0 .. U32 - 1, NEW b, b = BigEndian32(v)
  PROVE  ((b[1] * Radix + b[2]) * Radix + b[3]) * Radix + b[4] = v
<1>1. Radix \in Nat /\ Radix > 0 /\ U16 \in Nat /\ U16 > 0 /\ v \in Nat /\ v < U16 * U16
  BY WidthType, RadixAssumption DEF U32
<1>2. ASSUME NEW d \in Nat, d > 0, NEW w \in Nat, w < d * d PROVE w \div d \in 0 .. d - 1
  <2>1. PICK q \in Nat, r \in 0 .. d - 1 : w \div d = q /\ w = q * d + r
    BY <1>2, Division
  <2>2. CASE q >= d
    <3>1. (q - d) * d >= 0 /\ (q - d) * d = q * d - d * d /\ q * d \in Int /\ d * d \in Int
      BY <2>2
    <3> QED BY <1>2, <2>1, <3>1
  <2> QED BY <2>1, <2>2
<1>3. ASSUME NEW w \in 0 .. U16 - 1
      PROVE  /\ (w \div Radix) % Radix \in Nat /\ w % Radix \in Nat
             /\ ((w \div Radix) % Radix) * Radix + (w % Radix) = w
  <2>1. w \in Nat /\ w < Radix * Radix
    BY <1>1 DEF U16
  <2>2. w \div Radix \in 0 .. Radix - 1
    BY <1>1, <1>2, <2>1
  <2>3. \A x \in 0 .. Radix - 1 : x % Radix = x
    BY <1>1
  <2>4. (w \div Radix) % Radix = w \div Radix
    BY <2>2, <2>3
  <2> QED BY <1>1, <2>1, <2>2, <2>4, Division
<1>4. v \div U16 \in 0 .. U16 - 1 /\ v % U16 \in 0 .. U16 - 1
      /\ v = (v \div U16) * U16 + (v % U16)
  BY <1>1, <1>2, Division
<1>5. PICK h \in 0 .. U16 - 1, l \in 0 .. U16 - 1 :
        v \div U16 = h /\ v % U16 = l /\ v = h * (Radix * Radix) + l
  BY <1>4 DEF U16
<1>6. PICK b1 \in Nat, b2 \in Nat, b3 \in Nat, b4 \in Nat :
        /\ b[1] = b1 /\ b[2] = b2 /\ b[3] = b3 /\ b[4] = b4
        /\ b1 * Radix + b2 = h /\ b3 * Radix + b4 = l
  <2>1. /\ b[1] = (h \div Radix) % Radix /\ b[2] = h % Radix
        /\ b[3] = (l \div Radix) % Radix /\ b[4] = l % Radix
    BY <1>1, <1>5, BigEndian32Properties
  <2>2. /\ (h \div Radix) % Radix \in Nat /\ h % Radix \in Nat
        /\ ((h \div Radix) % Radix) * Radix + (h % Radix) = h
    BY <1>3
  <2>3. /\ (l \div Radix) % Radix \in Nat /\ l % Radix \in Nat
        /\ ((l \div Radix) % Radix) * Radix + (l % Radix) = l
    BY <1>3
  <2> QED BY <2>1, <2>2, <2>3
<1>7. ((b1 * Radix + b2) * Radix + b3) * Radix + b4 = h * (Radix * Radix) + (b3 * Radix + b4)
  <2>1. ((h * Radix) + b3) * Radix + b4 = h * (Radix * Radix) + (b3 * Radix + b4)
    BY <1>1
  <2> QED BY <1>6, <2>1
<1> QED BY <1>5, <1>6, <1>7
-----------------------------------------------------------------------------
(* The two parts of a buffer that is read from its front.                  *)

LEMMA AfterProperties ==
  ASSUME NEW b \in Seq(Byte), NEW n \in 0 .. Len(b)
  PROVE  /\ After(b, n) \in Seq(Byte) /\ Len(After(b, n)) = Len(b) - n
         /\ \A i \in 1 .. Len(b) - n : After(b, n)[i] = b[n + i]
<1>1. Len(b) \in Nat
  BY LenProperties
<1>2. n \in Nat /\ Len(b) - n \in Nat /\ n + (Len(b) - n) = Len(b)
  BY <1>1
<1>3. After(b, n) = Slice(b, n, Len(b) - n)
  BY <1>2 DEF After, Slice
<1>4. n + (Len(b) - n) <= Len(b)
  BY <1>1
<1>5. /\ Slice(b, n, Len(b) - n) \in Seq(Byte) /\ Len(Slice(b, n, Len(b) - n)) = Len(b) - n
      /\ \A i \in 1 .. Len(b) - n : Slice(b, n, Len(b) - n)[i] = b[n + i]
  BY <1>2, <1>4, SliceProperties
<1> QED BY <1>3, <1>5

LEMMA FrontProperties ==
  ASSUME NEW b \in Seq(Byte), NEW n \in 0 .. Len(b)
  PROVE  /\ SubSeq(b, 1, n) \in Seq(Byte) /\ Len(SubSeq(b, 1, n)) = n
         /\ \A i \in 1 .. n : SubSeq(b, 1, n)[i] = b[i]
<1>1. Len(b) \in Nat
  BY LenProperties
<1>2. SubSeq(b, 1, n) = Slice(b, 0, n)
  BY <1>1 DEF Slice
<1> QED BY <1>1, <1>2, SliceProperties

LEMMA AfterNothing ==
  ASSUME NEW b \in Seq(Byte)
  PROVE  After(b, 0) = b
<1>1. Len(b) \in Nat /\ 0 \in 0 .. Len(b)
  BY LenProperties
<1>2. /\ After(b, 0) \in Seq(Byte) /\ Len(After(b, 0)) = Len(b) - 0
      /\ \A i \in 1 .. Len(b) - 0 : After(b, 0)[i] = b[0 + i]
  BY <1>1, AfterProperties
<1>3. \A i \in 1 .. Len(b) : After(b, 0)[i] = b[i]
  BY <1>1, <1>2
<1> QED BY <1>1, <1>2, <1>3, SeqEqual

\* Reading on after a read.
LEMMA AfterAfter ==
  ASSUME NEW b \in Seq(Byte), NEW m \in 0 .. Len(b), NEW n \in 0 .. Len(b) - m
  PROVE  After(After(b, m), n) = After(b, m + n)
<1> DEFINE rest == After(b, m)
           s == After(rest, n)
           t == After(b, m + n)
<1>1. Len(b) \in Nat /\ m \in Nat /\ n \in Nat /\ m + n \in 0 .. Len(b)
  BY LenProperties
<1>2. /\ rest \in Seq(Byte) /\ Len(rest) = Len(b) - m
      /\ \A i \in 1 .. Len(b) - m : rest[i] = b[m + i]
  BY AfterProperties
<1>3. /\ t \in Seq(Byte) /\ Len(t) = Len(b) - (m + n)
      /\ \A i \in 1 .. Len(b) - (m + n) : t[i] = b[(m + n) + i]
  BY <1>1, AfterProperties
<1> HIDE DEF rest
<1>4. /\ s \in Seq(Byte) /\ Len(s) = Len(rest) - n
      /\ \A i \in 1 .. Len(rest) - n : s[i] = rest[n + i]
  BY <1>2, AfterProperties
<1> HIDE DEF s, t
<1>5. Len(s) = Len(b) - (m + n) /\ Len(t) = Len(s)
  BY <1>1, <1>2, <1>3, <1>4
<1>6. ASSUME NEW i \in 1 .. Len(s) PROVE s[i] = t[i]
  <2>1. /\ i \in 1 .. Len(rest) - n /\ n + i \in 1 .. Len(b) - m
        /\ i \in 1 .. Len(b) - (m + n) /\ m + (n + i) = (m + n) + i
    BY <1>1, <1>2, <1>5
  <2> QED BY <1>2, <1>3, <1>4, <2>1
<1>7. s = t
  BY <1>3, <1>4, <1>5, <1>6, SeqEqual
<1> QED BY <1>7 DEF s, t, rest

\* What a read appends to what was read before.
LEMMA FrontExtended ==
  ASSUME NEW b \in Seq(Byte), NEW m \in 0 .. Len(b), NEW n \in 0 .. Len(b) - m
  PROVE  SubSeq(b, 1, m) \o SubSeq(After(b, m), 1, n) = SubSeq(b, 1, m + n)
<1> DEFINE rest == After(b, m)
           s == SubSeq(b, 1, m)
           t == SubSeq(rest, 1, n)
           u == SubSeq(b, 1, m + n)
<1>1. Len(b) \in Nat /\ m \in Nat /\ n \in Nat /\ m + n \in 0 .. Len(b)
  BY LenProperties
<1>2. /\ rest \in Seq(Byte) /\ Len(rest) = Len(b) - m
      /\ \A i \in 1 .. Len(b) - m : rest[i] = b[m + i]
  BY AfterProperties
<1> HIDE DEF rest
<1>3. s \in Seq(Byte) /\ Len(s) = m /\ \A i \in 1 .. m : s[i] = b[i]
  BY FrontProperties
<1>4. t \in Seq(Byte) /\ Len(t) = n /\ \A i \in 1 .. n : t[i] = rest[i]
  BY <1>1, <1>2, FrontProperties
<1>5. u \in Seq(Byte) /\ Len(u) = m + n /\ \A i \in 1 .. m + n : u[i] = b[i]
  BY <1>1, FrontProperties
<1> HIDE DEF s, t, u
<1>6. /\ s \o t \in Seq(Byte) /\ Len(s \o t) = m + n
      /\ \A i \in 1 .. m + n : (s \o t)[i] = IF i <= m THEN s[i] ELSE t[i - m]
  BY <1>1, <1>3, <1>4, ConcatProperties, ZenonT(30)
<1>7. ASSUME NEW i \in 1 .. m + n PROVE (s \o t)[i] = u[i]
  <2>1. CASE i <= m
    BY <1>1, <1>3, <1>5, <1>6, <2>1, SMTT(20)
  <2>2. CASE i > m
    <3>1. i - m \in 1 .. n /\ i - m \in 1 .. Len(b) - m
      BY <1>1, <2>2
    <3>2. (s \o t)[i] = b[m + (i - m)]
      BY <1>1, <1>2, <1>4, <1>6, <2>2, <3>1, SMTT(20)
    <3> QED BY <1>1, <1>5, <3>2
  <2>3. i <= m \/ i > m
    BY <1>1
  <2> QED BY <2>1, <2>2, <2>3
<1>8. s \o t = u
  BY <1>1, <1>5, <1>6, <1>7, SeqEqual
<1> QED BY <1>8 DEF s, t, u, rest

\* Both parts together are the buffer.
LEMMA FrontAndRest ==
  ASSUME NEW b \in Seq(Byte), NEW n \in 0 .. Len(b)
  PROVE  SubSeq(b, 1, n) \o After(b, n) = b
<1>1. Len(b) \in Nat /\ Len(b) - n \in 0 .. Len(b) - n /\ n + (Len(b) - n) = Len(b)
  BY LenProperties
<1>2. \A c \in Seq(Byte) : SubSeq(c, 1, Len(c)) = c
  <2> TAKE c \in Seq(Byte)
  <2>1. Len(c) \in Nat
    BY LenProperties
  <2>2. /\ SubSeq(c, 1, Len(c)) \in Seq(Byte) /\ Len(SubSeq(c, 1, Len(c))) = Len(c)
        /\ \A i \in 1 .. Len(c) : SubSeq(c, 1, Len(c))[i] = c[i]
    BY <2>1, FrontProperties
  <2> QED BY <2>2, SeqEqual
<1>3. After(b, n) \in Seq(Byte) /\ Len(After(b, n)) = Len(b) - n
  BY AfterProperties
<1>4. SubSeq(After(b, n), 1, Len(b) - n) = After(b, n)
  BY <1>2, <1>3
<1>5. SubSeq(b, 1, n) \o SubSeq(After(b, n), 1, Len(b) - n) = SubSeq(b, 1, Len(b))
  BY <1>1, FrontExtended
<1> QED BY <1>2, <1>4, <1>5
-----------------------------------------------------------------------------
(* Recursive functions.                                                    *)

LEMMA LeastNumber ==
  ASSUME NEW T, T \subseteq Nat, T # {}
  PROVE  \E m \in T : \A k \in T : m <= k
<1> DEFINE Below(n) == 0 .. n - 1
           U == {Below(n) : n \in T}
           R == StrictSubsetOrdering(Nat)
<1>1. U \subseteq FiniteSubsetsOf(Nat)
  <2> SUFFICES ASSUME NEW n \in T PROVE Below(n) \in FiniteSubsetsOf(Nat)
    OBVIOUS
  <2>1. IsFiniteSet(Below(n))
    BY FS_Interval
  <2>2. Below(n) \subseteq Nat
    OBVIOUS
  <2> QED BY <2>1, <2>2 DEF FiniteSubsetsOf
<1>2. U # {}
  OBVIOUS
<1>3. IsWellFoundedOn(R, FiniteSubsetsOf(Nat))
  BY FS_StrictSubsetOrderingWellFounded
<1>4. PICK b \in U : \A c \in U : <<c, b>> \notin R
  <2> HIDE DEF U, R
  <2> QED BY <1>1, <1>2, <1>3, WFMin
<1>5. PICK m \in T : b = Below(m)
  OBVIOUS
<1>6. ASSUME NEW k \in T, k < m PROVE FALSE
  <2>1. Below(k) \in U /\ Below(k) \subseteq Below(m)
        /\ Below(k) \subseteq Nat /\ Below(m) \subseteq Nat
    BY <1>6
  <2>2. k \in Below(m) /\ k \notin Below(k)
    BY <1>6
  <2>3. <<Below(k), Below(m)>> \in R
    BY <2>1, <2>2 DEF StrictSubsetOrdering
  <2> QED BY <2>1, <2>3, <1>4, <1>5
<1> QED BY <1>6

\* f is defined by recursion over the numbers, with values in S.
Iterates(f, S, base, step) ==
  f \in [Nat -> S] /\ f[0] = base /\ \A n \in Nat : f[n+1] = step[<<f[n], n+1>>]

\* A recursive definition over the numbers has a solution: its finite prefixes
\* exist and agree.
LEMMA Recursion ==
  ASSUME NEW S, NEW base \in S, NEW step \in [S \X Nat -> S]
  PROVE  \E f : Iterates(f, S, base, step)
<1> DEFINE Prefix(h, k) == /\ h \in [0 .. k -> S] /\ h[0] = base
                           /\ \A i \in 1 .. k : h[i] = step[<<h[i-1], i>>]
<1>1. ASSUME NEW v \in S, NEW n \in Nat PROVE step[<<v, n>>] \in S
  OBVIOUS
<1>2. ASSUME NEW k \in Nat PROVE \E h : Prefix(h, k)
  <2> DEFINE T == {j \in Nat : ~ \E h : Prefix(h, j)}
  <2> SUFFICES ASSUME T # {} PROVE FALSE
    OBVIOUS
  <2>1. PICK m \in T : \A j \in T : m <= j
    BY LeastNumber
  <2>2. Prefix([i \in 0 .. 0 |-> base], 0)
    OBVIOUS
  <2>3. m \in Nat /\ m # 0
    BY <2>2
  <2>4. m - 1 \in Nat /\ m - 1 \notin T
    <3> HIDE DEF T
    <3> QED BY <2>1, <2>3
  <2>5. PICK h : Prefix(h, m - 1)
    BY <2>4
  <2> DEFINE g == [i \in 0 .. m |-> IF i = m THEN step[<<h[m-1], m>>] ELSE h[i]]
  <2>6. h[m-1] \in S
    BY <2>3, <2>5
  <2>7. g \in [0 .. m -> S] /\ g[0] = base
    <3>1. step[<<h[m-1], m>>] \in S
      BY <2>3, <2>6, <1>1
    <3>2. ASSUME NEW i \in 0 .. m, i # m PROVE h[i] \in S
      BY <2>3, <2>5, <3>2
    <3> QED BY <2>3, <2>5, <3>1, <3>2
  <2>8. ASSUME NEW i \in 1 .. m PROVE g[i] = step[<<g[i-1], i>>]
    <3>1. i \in 0 .. m /\ i - 1 \in 0 .. m /\ i - 1 # m
      BY <2>3
    <3>2. g[i-1] = h[i-1]
      BY <3>1
    <3>3. CASE i = m
      BY <3>1, <3>2, <3>3
    <3>4. CASE i # m
      <4>1. i \in 1 .. m - 1 /\ g[i] = h[i]
        BY <2>3, <3>1, <3>4
      <4> QED BY <2>5, <3>2, <4>1
    <3> QED BY <3>3, <3>4
  <2>9. Prefix(g, m)
    BY <2>7, <2>8
  <2> QED BY <2>9
<1>3. ASSUME NEW k \in Nat, NEW l \in Nat, k <= l, NEW g, NEW h, Prefix(g, k), Prefix(h, l)
      PROVE  \A i \in 0 .. k : g[i] = h[i]
  <2> DEFINE T == {i \in 0 .. k : g[i] # h[i]}
  <2> SUFFICES ASSUME T # {} PROVE FALSE
    OBVIOUS
  <2>1. T \subseteq Nat
    OBVIOUS
  <2>2. PICK m \in T : \A j \in T : m <= j
    BY <2>1, LeastNumber
  <2>3. m # 0 /\ m \in 1 .. k /\ m \in 1 .. l
    BY <1>3
  <2>4. m - 1 \notin T /\ m - 1 \in 0 .. k
    BY <2>2, <2>3
  <2>5. g[m-1] = h[m-1]
    BY <2>4
  <2>6. g[m] = h[m]
    BY <1>3, <2>3, <2>5
  <2> QED BY <2>6
<1> DEFINE H(n) == CHOOSE h : Prefix(h, n)
           F == [n \in Nat |-> H(n)[n]]
<1>4. ASSUME NEW n \in Nat PROVE Prefix(H(n), n)
  BY <1>2
<1> HIDE DEF H
<1>5. F \in [Nat -> S] /\ F[0] = base
  <2>1. ASSUME NEW n \in Nat PROVE H(n)[n] \in S
    BY <1>4
  <2>2. H(0)[0] = base
    BY <1>4
  <2> QED BY <2>1, <2>2
<1>6. ASSUME NEW n \in Nat PROVE F[n+1] = step[<<F[n], n+1>>]
  <2>1. n + 1 \in Nat /\ n <= n + 1 /\ n + 1 \in 1 .. n + 1 /\ (n + 1) - 1 = n /\ n \in 0 .. n
    OBVIOUS
  <2>2. Prefix(H(n), n) /\ Prefix(H(n+1), n+1)
    BY <1>4, <2>1
  <2>3. H(n)[n] = H(n+1)[n]
    <3> HIDE DEF Prefix
    <3> QED BY <1>3, <2>1, <2>2
  <2>4. H(n+1)[n+1] = step[<<H(n+1)[n], n+1>>]
    BY <2>1, <2>2
  <2> QED BY <2>1, <2>3, <2>4
<1> HIDE DEF F
<1> QED BY <1>5, <1>6 DEF Iterates

\* The sums of the first terms, for every number of them up to n.
AddsUp(f, term, n) == f = [i \in 0 .. n |-> IF i = 0 THEN 0 ELSE f[i-1] + term[i]]

LEMMA SumsExist ==
  ASSUME NEW n \in Nat, NEW term, \A i \in 1 .. n : term[i] \in Nat
  PROVE  \E f : AddsUp(f, term, n)
<1> DEFINE Add == [p \in Nat \X Nat |-> IF p[2] \in 1 .. n THEN p[1] + term[p[2]] ELSE 0]
<1>1. Add \in [Nat \X Nat -> Nat]
  <2>1. ASSUME NEW p \in Nat \X Nat
        PROVE  (IF p[2] \in 1 .. n THEN p[1] + term[p[2]] ELSE 0) \in Nat
    OBVIOUS
  <2> QED BY <2>1
<1>2. ASSUME NEW v \in Nat, NEW i \in 1 .. n PROVE Add[<<v, i>>] = v + term[i]
  <2>1. <<v, i>> \in Nat \X Nat
    OBVIOUS
  <2> QED BY <2>1
<1> HIDE DEF Add
<1>3. PICK F : Iterates(F, Nat, 0, Add)
  BY <1>1, Recursion
<1> DEFINE G == [i \in 0 .. n |-> F[i]]
<1>4. ASSUME NEW i \in 0 .. n PROVE F[i] = IF i = 0 THEN 0 ELSE G[i-1] + term[i]
  <2>1. CASE i # 0
    <3>1. i \in 1 .. n /\ i - 1 \in 0 .. n /\ i - 1 \in Nat /\ (i - 1) + 1 = i
      BY <2>1
    <3>2. F[i] = Add[<<F[i-1], i>>] /\ F[i-1] \in Nat
      BY <1>3, <3>1 DEF Iterates
    <3> QED BY <1>2, <2>1, <3>1, <3>2
  <2> QED BY <1>3, <2>1 DEF Iterates
<1>5. AddsUp(G, term, n)
  BY <1>4 DEF AddsUp
<1> QED BY <1>5

LEMMA SumsProperties ==
  ASSUME NEW n \in Nat, NEW term, \A i \in 1 .. n : term[i] \in Nat,
         NEW f, AddsUp(f, term, n)
  PROVE  /\ \A i \in 0 .. n : f[i] \in Nat
         /\ f[0] = 0
         /\ \A i \in 1 .. n : f[i] = f[i-1] + term[i]
         /\ \A i \in 0 .. n : f[i] <= f[n]
<1>1. f[0] = 0 /\ \A i \in 1 .. n : f[i] = f[i-1] + term[i]
  <2>1. \A i \in 0 .. n : f[i] = IF i = 0 THEN 0 ELSE f[i-1] + term[i]
    BY DEF AddsUp
  <2> QED BY <2>1
<1>2. \A i \in 0 .. n : f[i] \in Nat
  <2> DEFINE T == {i \in 0 .. n : f[i] \notin Nat}
  <2> SUFFICES ASSUME T # {} PROVE FALSE
    OBVIOUS
  <2>1. PICK m \in T : \A i \in T : m <= i
    <3>1. T \subseteq Nat
      OBVIOUS
    <3> HIDE DEF T
    <3> QED BY <3>1, LeastNumber
  <2>2. m \in 1 .. n /\ m - 1 \in 0 .. n /\ m - 1 \notin T
    BY <1>1, <2>1
  <2> QED BY <1>1, <2>2
<1>3. \A i \in 0 .. n : f[i] <= f[n]
  <2> DEFINE T == {d \in 0 .. n : ~(f[n-d] <= f[n])}
  <2>1. T = {}
    <3> SUFFICES ASSUME T # {} PROVE FALSE
      OBVIOUS
    <3>1. PICK m \in T : \A d \in T : m <= d
      <4>1. T \subseteq Nat
        OBVIOUS
      <4> HIDE DEF T
      <4> QED BY <4>1, LeastNumber
    <3>2. m # 0 /\ m - 1 \in 0 .. n /\ m - 1 \notin T
      <4>1. f[n-0] <= f[n]
        BY <1>2
      <4> QED BY <3>1, <4>1
    <3>3. n - m \in 0 .. n /\ n - (m - 1) \in 1 .. n /\ (n - (m - 1)) - 1 = n - m
      BY <3>2
    <3>4. f[n-(m-1)] = f[n-m] + term[n-(m-1)] /\ term[n-(m-1)] \in Nat
      BY <1>1, <3>3
    <3>5. f[n-(m-1)] <= f[n]
      BY <3>2
    <3>6. f[n-m] \in Nat /\ f[n] \in Nat
      BY <1>2, <3>3
    <3> QED BY <3>4, <3>5, <3>6
  <2>2. ASSUME NEW i \in 0 .. n PROVE f[i] <= f[n]
    <3>1. n - i \in 0 .. n /\ n - (n - i) = i
      OBVIOUS
    <3>2. \A d \in 0 .. n : f[n-d] <= f[n]
      BY <2>1
    <3>3. f[n-(n-i)] <= f[n]
      BY <3>1, <3>2
    <3> QED BY <3>1, <3>3
  <2> QED BY <2>2
<1> QED BY <1>1, <1>2, <1>3

\* Equal terms have equal sums.
LEMMA SumsAgree ==
  ASSUME NEW n \in Nat, NEW a, NEW b, NEW f, NEW g, NEW i \in 0 .. n,
         AddsUp(f, a, n), AddsUp(g, b, n), \A j \in 1 .. n : b[j] = a[j]
  PROVE  f[i] = g[i]
<1> DEFINE T == {j \in 0 .. n : f[j] # g[j]}
<1> SUFFICES ASSUME T # {} PROVE FALSE
  OBVIOUS
<1>1. PICK m \in T : \A j \in T : m <= j
  <2>1. T \subseteq Nat
    OBVIOUS
  <2> HIDE DEF T
  <2> QED BY <2>1, LeastNumber
<1>2. /\ \A j \in 0 .. n : f[j] = IF j = 0 THEN 0 ELSE f[j-1] + a[j]
      /\ \A j \in 0 .. n : g[j] = IF j = 0 THEN 0 ELSE g[j-1] + b[j]
  BY DEF AddsUp
<1>3. m \in 1 .. n /\ m - 1 \in 0 .. n /\ m - 1 \notin T
  BY <1>1, <1>2
<1>4. f[m-1] = g[m-1]
  BY <1>3
<1> QED BY <1>2, <1>3, <1>4
-----------------------------------------------------------------------------
(* Checksums.                                                              *)

LEMMA WordType ==
  ASSUME NEW data \in Seq(Byte), NEW n \in Nat \ {0}
  PROVE  Word(data, n) \in Nat
<1>1. ASSUME NEW i \in Nat \ {0} PROVE ByteOrZero(data, i) \in Nat
  <2>1. CASE i <= Len(data)
    <3>1. i \in 1 .. Len(data)
      BY <2>1, LenProperties
    <3>2. data[i] \in Byte
      BY <3>1, ElementOfSeq
    <3> QED BY <2>1, <3>2, BytesAreNaturals DEF ByteOrZero
  <2>2. CASE ~(i <= Len(data))
    BY <2>2 DEF ByteOrZero
  <2> QED BY <2>1, <2>2
<1>2. 4*n - 3 \in Nat \ {0} /\ 4*n - 2 \in Nat \ {0} /\ 4*n - 1 \in Nat \ {0} /\ 4*n \in Nat \ {0}
  OBVIOUS
<1>3. /\ ByteOrZero(data, 4*n - 3) \in Nat /\ ByteOrZero(data, 4*n - 2) \in Nat
      /\ ByteOrZero(data, 4*n - 1) \in Nat /\ ByteOrZero(data, 4*n) \in Nat
  BY <1>1, <1>2
<1>4. Radix \in Nat
  BY RadixAssumption
<1>5. ASSUME NEW a \in Nat, NEW b \in Nat PROVE a * Radix + b \in Nat
  BY <1>4
<1> QED BY <1>3, <1>5 DEF Word

\* The recursive equation of the running sums.
LEMMA WordSumsEquation ==
  ASSUME NEW data \in Seq(Byte)
  PROVE  WordSums(data) =
           [n \in Nat |-> IF n = 0 THEN 0 ELSE (WordSums(data)[n-1] + Word(data, n)) % U32]
<1> DEFINE Add == [p \in Nat \X Nat |-> IF p[2] = 0 THEN 0 ELSE (p[1] + Word(data, p[2])) % U32]
           Sums(f) == f = [n \in Nat |-> IF n = 0 THEN 0 ELSE (f[n-1] + Word(data, n)) % U32]
<1>1. ASSUME NEW v \in Nat, NEW n \in Nat \ {0}
      PROVE  (v + Word(data, n)) % U32 \in Nat
  BY WordType, CastToU32, WidthType
<1>2. Add \in [Nat \X Nat -> Nat]
  <2>1. ASSUME NEW p \in Nat \X Nat
        PROVE  (IF p[2] = 0 THEN 0 ELSE (p[1] + Word(data, p[2])) % U32) \in Nat
    BY <1>1
  <2> QED BY <2>1
<1>3. \A v \in Nat, n \in Nat \ {0} : Add[<<v, n>>] = (v + Word(data, n)) % U32
  OBVIOUS
<1> HIDE DEF Add
<1>4. PICK F : Iterates(F, Nat, 0, Add)
  BY <1>2, Recursion
<1>5. ASSUME NEW n \in Nat
      PROVE  F[n] = IF n = 0 THEN 0 ELSE (F[n-1] + Word(data, n)) % U32
  <2>1. CASE n # 0
    <3>1. n - 1 \in Nat /\ (n - 1) + 1 = n /\ F[n-1] \in Nat /\ n \in Nat \ {0}
      BY <1>4, <2>1 DEF Iterates
    <3>2. F[n] = Add[<<F[n-1], n>>]
      BY <1>4, <3>1 DEF Iterates
    <3> QED BY <1>3, <2>1, <3>1, <3>2
  <2> QED BY <1>4, <2>1 DEF Iterates
<1>6. Sums(F)
  BY <1>4, <1>5 DEF Iterates
<1>7. Sums(CHOOSE f : Sums(f))
  BY <1>6
<1> QED BY <1>7 DEF WordSums

\* A checksum is a u32.
LEMMA ChecksumType ==
  ASSUME NEW data \in Seq(Byte)
  PROVE  calculate_checksum(data) \in 0 .. U32 - 1
<1> DEFINE n == Padded(Len(data)) \div 4
           sums == WordSums(data)
<1>1. n \in Nat
  BY LenProperties DEF Padded
<1>2. \A i \in Nat : sums[i] = IF i = 0 THEN 0 ELSE (sums[i-1] + Word(data, i)) % U32
  BY WordSumsEquation
<1> DEFINE T == {i \in Nat : sums[i] \notin 0 .. U32 - 1}
<1>3. T = {}
  <2> SUFFICES ASSUME T # {} PROVE FALSE
    OBVIOUS
  <2>1. PICK m \in T : \A j \in T : m <= j
    BY LeastNumber
  <2>2. m \in Nat /\ m # 0
    BY <1>2, WidthType
  <2>3. m - 1 \in Nat /\ m - 1 \notin T
    BY <2>1, <2>2
  <2>4. sums[m-1] \in Int /\ Word(data, m) \in Int
    BY <2>2, <2>3, WordType, WidthType
  <2>5. (sums[m-1] + Word(data, m)) % U32 \in 0 .. U32 - 1
    BY <2>4, CastToU32, SMTT(20)
  <2> QED BY <1>2, <2>2, <2>5
<1> HIDE DEF sums, n
<1>4. sums[n] \in 0 .. U32 - 1
  BY <1>1, <1>3
<1> QED BY <1>4 DEF calculate_checksum, sums, n

\* A number written over a word that was zero is added to the checksum.
LEMMA ChecksumOfReplaced ==
  ASSUME NEW a \in Seq(Byte), NEW b \in Seq(Byte), Len(a) = Len(b),
         NEW w \in Nat \ {0}, 4 * w <= Len(a), Word(a, w) = 0,
         \A n \in Nat \ {0} : n # w => Word(b, n) = Word(a, n)
  PROVE  calculate_checksum(b) = (calculate_checksum(a) + Word(b, w)) % U32
<1> DEFINE sa == WordSums(a)
           sb == WordSums(b)
           x == Word(b, w)
           Expected(n) == IF n < w THEN sa[n] ELSE (sa[n] + x) % U32
           T == {n \in Nat : sb[n] # Expected(n)}
<1>1. /\ \A n \in Nat : sa[n] = IF n = 0 THEN 0 ELSE (sa[n-1] + Word(a, n)) % U32
      /\ \A n \in Nat : sb[n] = IF n = 0 THEN 0 ELSE (sb[n-1] + Word(b, n)) % U32
  BY WordSumsEquation, SMTT(20)
<1>2. x \in Nat /\ \A n \in Nat \ {0} : Word(a, n) \in Nat
  BY WordType
<1>3. \A n \in Nat : sa[n] \in Nat
  <2>1. ASSUME NEW n \in Nat, n # 0, sa[n-1] \in Nat PROVE sa[n] \in Nat
    <3>1. PICK v \in Nat : v = sa[n-1] + Word(a, n)
      BY <1>2, <2>1
    <3>2. v % U32 \in Nat
      BY CastToU32, WidthType
    <3> QED BY <1>1, <2>1, <3>1, <3>2
  <2> DEFINE N == {n \in Nat : sa[n] \notin Nat}
  <2> SUFFICES ASSUME N # {} PROVE FALSE
    OBVIOUS
  <2>2. PICK m \in N : \A j \in N : m <= j
    BY LeastNumber
  <2>3. m \in Nat /\ m # 0
    BY <1>1
  <2>4. m - 1 \in Nat /\ m - 1 \notin N
    BY <2>2, <2>3
  <2> QED BY <2>1, <2>3, <2>4
<1> HIDE DEF sa, sb, x
<1>4. T = {}
  <2> SUFFICES ASSUME T # {} PROVE FALSE
    OBVIOUS
  <2>1. PICK m \in T : \A j \in T : m <= j
    BY LeastNumber
  <2>2. m \in Nat /\ m # 0
    BY <1>1
  <2>3. m - 1 \in Nat /\ m - 1 \notin T
    BY <2>1, <2>2
  <2>4. sb[m-1] = Expected(m-1)
    BY <2>3
  <2>5. CASE m < w
    <3>1. sb[m-1] = sa[m-1] /\ Word(b, m) = Word(a, m)
      BY <2>2, <2>4, <2>5
    <3>2. sb[m] = (sb[m-1] + Word(b, m)) % U32 /\ sa[m] = (sa[m-1] + Word(a, m)) % U32
      BY <1>1, <2>2
    <3> QED BY <2>5, <3>1, <3>2
  <2>6. CASE m = w
    <3>1. sb[m] = (sa[m-1] + x) % U32
      BY <1>1, <2>2, <2>3, <2>4, <2>6, SMTT(20) DEF x
    <3>2. sa[m] = sa[m-1] % U32
      BY <1>1, <1>3, <2>2, <2>3, <2>6, SMTT(20)
    <3>3. ((sa[m-1] % U32) + x) % U32 = (sa[m-1] + x) % U32
      <4>1. PICK s \in Nat : s = sa[m-1]
        BY <1>3, <2>3
      <4>2. ((s % U32) + x) % U32 = (s + x) % U32
        BY <1>2, WrappedSum
      <4> QED BY <4>1, <4>2
    <3> QED BY <2>2, <2>6, <3>1, <3>2, <3>3
  <2>7. CASE m > w
    <3>1. PICK s \in Nat, y \in Nat : s = sa[m-1] /\ y = Word(a, m)
      BY <1>2, <1>3, <2>2, <2>3
    <3>2. sb[m] = (((s + x) % U32) + y) % U32
      <4>1. sb[m-1] = (s + x) % U32
        BY <2>2, <2>4, <2>7, <3>1
      <4>2. sb[m] = (sb[m-1] + Word(b, m)) % U32 /\ Word(b, m) = y
        BY <1>1, <2>2, <2>7, <3>1
      <4> QED BY <4>1, <4>2
    <3>3. sa[m] = (s + y) % U32
      BY <1>1, <2>2, <3>1
    <3>4. (((s + x) % U32) + y) % U32 = ((s + x) + y) % U32
      BY <1>2, WrappedSum
    <3>5. (((s + y) % U32) + x) % U32 = ((s + y) + x) % U32
      BY <1>2, WrappedSum
    <3>6. (s + x) + y = (s + y) + x
      BY <1>2
    <3>7. sb[m] = (sa[m] + x) % U32
      BY <3>2, <3>3, <3>4, <3>5, <3>6
    <3> QED BY <2>2, <2>7, <3>7
  <2> QED BY <2>2, <2>5, <2>6, <2>7
<1> DEFINE n == Padded(Len(a)) \div 4
<1>5. n \in Nat /\ ~(n < w)
  <2>1. Len(a) \in Nat
    BY LenProperties
  <2>2. Padded(Len(a)) \in Nat /\ Padded(Len(a)) >= 4 * w
    <3>1. PICK k \in Nat : k = Len(a)
      BY <2>1
    <3>2. Padded(k) \in Nat /\ k <= Padded(k)
      BY PaddedProperties
    <3> QED BY <3>1, <3>2
  <2> QED BY <2>2
<1> HIDE DEF n
<1>6. sb[n] = (sa[n] + x) % U32
  BY <1>4, <1>5
<1> QED BY <1>6 DEF calculate_checksum, sa, sb, x, n
=============================================================================
