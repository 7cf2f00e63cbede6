-------------------------- MODULE GlyfDecoderProofs --------------------------
(***************************************************************************)
(* The glyf decoder, for every transformed table: what it writes is bytes, *)
(* the offsets of the loca table tile them, and it implements              *)
(* OutlineAssembly. Of a simple glyph this needs what its loops keep: they *)
(* stay inside their integer types and write only bytes.                   *)
(***************************************************************************)
EXTENDS GlyfDecoder, ByteBufferProofs, TLAPS

(* Integers and bytes by their bounds. The provers spell an interval of     *)
(* numerals out, so that the wide ones are kept inside these definitions.  *)

IsI16(v) == v \in Int /\ v >= -32768 /\ v <= 32767

LEMMA Widths == /\ Radix = 256 /\ U16 = 65536 /\ U32 = 4294967296
                /\ WORD_CODE = 253 /\ ONE_MORE_BYTE_CODE_1 = 255 /\ ONE_MORE_BYTE_CODE_2 = 254
                /\ LOWEST_UCODE = 253
BY ByteAssumption DEF U16, U32, WORD_CODE, ONE_MORE_BYTE_CODE_1, ONE_MORE_BYTE_CODE_2,
   LOWEST_UCODE

LEMMA ByteBounds == \A v : v \in Byte <=> v \in Nat /\ v < 256
<1>1. Radix \in Int /\ Radix = 256
  BY Widths
<1> QED BY <1>1 DEF Byte

LEMMA U16Bounds == \A v : v \in 0 .. U16 - 1 <=> v \in Nat /\ v < 65536
<1>1. U16 \in Nat /\ \A v \in Nat : v < 65536 <=> v < U16
  BY Widths
<1>2. \A v : v \in 0 .. U16 - 1 <=> v \in Nat /\ v < U16
  BY <1>1
<1> QED BY <1>1, <1>2

LEMMA I16Type ==
  ASSUME NEW v \in Int
  PROVE  IsI16(AsI16(v)) /\ (IsI16(v) => AsI16(v) = v)
BY DEF AsI16, IsI16

\* BigEndian16 of any number, as the cast to u16 makes one of it.
LEMMA PairType ==
  ASSUME NEW v \in Int
  PROVE  /\ BigEndian16(v) \in Seq(Byte) /\ Len(BigEndian16(v)) = 2
         /\ BigEndian16(v)[1] = (v \div 256) % 256 /\ BigEndian16(v)[2] = v % 256
<1>1. (v \div 256) % 256 \in Byte /\ v % 256 \in Byte
  BY ByteBounds
<1> QED BY <1>1, Widths DEF BigEndian16

LEMMA CodeType ==
  ASSUME NEW b \in Seq(Byte), CodeComplete(b)
  PROVE  /\ CodeLength(b[1]) \in 1 .. 3 /\ CodeLength(b[1]) \in 0 .. Len(b)
         /\ CodeValue(b) \in 0 .. U16 - 1
<1>1. Len(b) \in Nat /\ CodeLength(b[1]) \in 1 .. 3 /\ CodeLength(b[1]) <= Len(b)
  BY LenProperties DEF CodeComplete, CodeLength
<1>2. \A i \in 1 .. Len(b) : b[i] \in Nat /\ b[i] < 256
  BY ElementOfSeq, ByteBounds
<1>3. CodeLength(b[1]) \in 0 .. Len(b)
  BY <1>1
<1>4. ASSUME CodeValue(b) \in Nat, CodeValue(b) < 65536
      PROVE  CodeValue(b) \in 0 .. U16 - 1
  BY <1>4, U16Bounds
<1>5. CASE b[1] = 253
  <2>1. CodeLength(b[1]) = 3
    BY <1>5, Widths DEF CodeLength
  <2>2. b[2] \in Nat /\ b[2] < 256 /\ b[3] \in Nat /\ b[3] < 256
    BY <1>1, <1>2, <2>1
  <2>3. CodeValue(b) = b[2] * 256 + b[3]
    BY <1>5, Widths DEF CodeValue
  <2>4. CodeValue(b) \in Nat /\ CodeValue(b) < 65536
    BY <2>2, <2>3
  <2> QED BY <1>1, <1>3, <1>4, <2>4
<1>6. CASE b[1] \in {254, 255}
  <2>1. CodeLength(b[1]) = 2
    BY <1>6, Widths DEF CodeLength
  <2>2. b[2] \in Nat /\ b[2] < 256
    BY <1>1, <1>2, <2>1
  <2>3. CodeValue(b) = b[2] + 253 \/ CodeValue(b) = b[2] + 506
    BY <1>6, Widths DEF CodeValue
  <2>4. CodeValue(b) \in Nat /\ CodeValue(b) < 65536
    BY <2>2, <2>3
  <2> QED BY <1>1, <1>3, <1>4, <2>4
<1>7. CASE b[1] \notin {253, 254, 255}
  <2>1. b[1] \in Nat /\ b[1] < 256 /\ CodeValue(b) = b[1]
    BY <1>1, <1>2, <1>7, Widths DEF CodeValue
  <2>2. CodeValue(b) \in Nat /\ CodeValue(b) < 65536
    BY <2>1
  <2> QED BY <1>1, <1>3, <1>4, <2>2
<1> QED BY <1>5, <1>6, <1>7
-----------------------------------------------------------------------------
(* The triplets.                                                           *)

LEMMA WeightType ==
  ASSUME NEW i \in Nat
  PROVE  BitWeight(i) \in Nat \ {0}
<1>1. (i % 8) + 1 \in 1 .. 8
  OBVIOUS
<1>2. \A j \in 1 .. 8 : <<128, 64, 32, 16, 8, 4, 2, 1>>[j] \in Nat \ {0}
  OBVIOUS
<1> QED BY <1>1, <1>2 DEF BitWeight

LEMMA BitsType ==
  ASSUME NEW bytes \in Seq(Byte), NEW skip \in Nat, NEW width \in Nat,
         skip + width <= 8 * Len(bytes)
  PROVE  Bits(bytes, skip, width) \in Nat
<1> DEFINE bit(k) == (bytes[(k \div 8) + 1] \div BitWeight(k)) % 2
           Values(f) == f = [w \in 0 .. width |->
                               IF w = 0 THEN 0 ELSE 2 * f[w-1] + bit(skip + w - 1)]
           step == [p \in Nat \X Nat |->
                      IF p[2] \in 1 .. width THEN 2 * p[1] + bit(skip + p[2] - 1) ELSE 0]
<1>1. ASSUME NEW w \in 1 .. width PROVE bit(skip + w - 1) \in Nat
  <2> DEFINE k == skip + w - 1
  <2>1. k \in Nat /\ k < 8 * Len(bytes) /\ Len(bytes) \in Nat
    BY LenProperties
  <2> HIDE DEF k
  <2>2. (k \div 8) + 1 \in 1 .. Len(bytes)
    BY <2>1
  <2>3. bytes[(k \div 8) + 1] \in Nat
    BY <2>2, ElementOfSeq, ByteBounds
  <2>4. BitWeight(k) \in Nat \ {0}
    BY <2>1, WeightType
  <2>5. \A v \in Nat, d \in Nat \ {0} : (v \div d) % 2 \in Nat
    OBVIOUS
  <2> QED BY <2>3, <2>4, <2>5 DEF k
<1> HIDE DEF bit
<1>2. step \in [Nat \X Nat -> Nat]
  <2>1. ASSUME NEW v \in Nat, NEW w \in Nat
        PROVE  (IF w \in 1 .. width THEN 2 * v + bit(skip + w - 1) ELSE 0) \in Nat
    <3>1. CASE w \in 1 .. width
      <4>1. bit(skip + w - 1) \in Nat
        BY <1>1, <3>1
      <4> QED BY <3>1, <4>1
    <3> QED BY <3>1
  <2> QED BY <2>1
<1>3. ASSUME NEW v \in Nat, NEW w \in 1 .. width
      PROVE  step[<<v, w>>] = 2 * v + bit(skip + w - 1)
  <2>1. <<v, w>> \in Nat \X Nat
    OBVIOUS
  <2> QED BY <2>1
<1> HIDE DEF step
<1>4. PICK F : Iterates(F, Nat, 0, step)
  BY <1>2, Recursion
<1> DEFINE G == [w \in 0 .. width |-> F[w]]
<1>5. ASSUME NEW w \in 0 .. width
      PROVE  F[w] = IF w = 0 THEN 0 ELSE 2 * G[w-1] + bit(skip + w - 1)
  <2>1. CASE w # 0
    <3>1. w \in 1 .. width /\ w - 1 \in 0 .. width /\ w - 1 \in Nat /\ (w - 1) + 1 = w
      BY <2>1
    <3>2. F[w] = step[<<F[w-1], w>>] /\ F[w-1] \in Nat
      BY <1>4, <3>1 DEF Iterates
    <3> QED BY <1>3, <2>1, <3>1, <3>2
  <2> QED BY <1>4, <2>1 DEF Iterates
<1>6. Values(G)
  BY <1>5
<1> DEFINE value == CHOOSE f : Values(f)
<1>7. Values(value)
  <2> HIDE DEF Values, G
  <2> QED BY <1>6
<1> HIDE DEF value
<1>8. \A w \in 0 .. width : value[w] \in Nat
  <2> DEFINE T == {w \in 0 .. width : value[w] \notin Nat}
  <2> SUFFICES ASSUME T # {} PROVE FALSE
    OBVIOUS
  <2>1. PICK m \in T : \A i \in T : m <= i
    <3>1. T \subseteq Nat
      OBVIOUS
    <3> HIDE DEF T
    <3> QED BY <3>1, LeastNumber
  <2>2. value[m] = IF m = 0 THEN 0 ELSE 2 * value[m-1] + bit(skip + m - 1)
    BY <1>7, <2>1
  <2>3. m \in 1 .. width /\ m - 1 \in 0 .. width /\ m - 1 \notin T
    BY <2>1, <2>2
  <2>4. value[m-1] \in Nat /\ bit(skip + m - 1) \in Nat /\ m # 0
    BY <1>1, <2>3
  <2>5. value[m] \in Nat
    BY <2>2, <2>4
  <2> QED BY <2>1, <2>5
<1>9. Bits(bytes, skip, width) = value[width]
  BY DEF Bits, value, bit
<1> QED BY <1>8, <1>9

LEMMA TripletType ==
  ASSUME NEW i \in 0 .. 127
  PROVE  LET t == COORD_LUT[i]
         IN  /\ t.byte_count \in 1 .. 4 /\ t.x_bits \in Nat /\ t.y_bits \in Nat
             /\ t.x_bits + t.y_bits = 8 * t.byte_count
             /\ t.delta_x \in Nat /\ t.delta_y \in Nat
<1>1. COORD_LUT[i] = coord_lut_entry(i)
  BY DEF COORD_LUT
<1>2. CASE i \in 0 .. 9
  <2>1. coord_lut_entry(i) = y_only_entry(i)
    BY <1>2 DEF coord_lut_entry
  <2> QED BY <1>1, <1>2, <2>1 DEF y_only_entry, Entry
<1>3. CASE i \in 10 .. 19
  <2>1. coord_lut_entry(i) = x_only_entry(i - 10)
    BY <1>3 DEF coord_lut_entry
  <2> QED BY <1>1, <1>3, <2>1 DEF x_only_entry, Entry
<1>4. CASE i \in 20 .. 83
  <2>1. coord_lut_entry(i) = packed_4bit_entry(i - 20)
    BY <1>4 DEF coord_lut_entry
  <2>2. ((i - 20) \div 16) + 1 \in 1 .. 4 /\ (((i - 20) \div 4) % 4) + 1 \in 1 .. 4
    BY <1>4
  <2>3. \A j \in 1 .. 4 : DELTA_4BIT[j] \in Nat
    BY DEF DELTA_4BIT
  <2>4. DELTA_4BIT[((i - 20) \div 16) + 1] \in Nat /\ DELTA_4BIT[(((i - 20) \div 4) % 4) + 1] \in Nat
    BY <2>2, <2>3
  <2> QED BY <1>1, <2>1, <2>4 DEF packed_4bit_entry, signed_entry, Entry
<1>5. CASE i \in 84 .. 119
  <2>1. coord_lut_entry(i) = packed_8bit_entry(i - 84)
    BY <1>5 DEF coord_lut_entry
  <2>2. ((i - 84) \div 12) + 1 \in 1 .. 3 /\ (((i - 84) \div 4) % 3) + 1 \in 1 .. 3
    BY <1>5
  <2>3. \A j \in 1 .. 3 : DELTA_8BIT[j] \in Nat
    BY DEF DELTA_8BIT
  <2>4. DELTA_8BIT[((i - 84) \div 12) + 1] \in Nat /\ DELTA_8BIT[(((i - 84) \div 4) % 3) + 1] \in Nat
    BY <2>2, <2>3
  <2> QED BY <1>1, <2>1, <2>4 DEF packed_8bit_entry, signed_entry, Entry
<1>6. CASE i \in 120 .. 123
  <2>1. coord_lut_entry(i) = signed_entry(3, 12, 12, 0, 0, i - 120)
    BY <1>6 DEF coord_lut_entry
  <2> QED BY <1>1, <2>1 DEF signed_entry, Entry
<1>7. CASE i \in 124 .. 127
  <2>1. coord_lut_entry(i) = signed_entry(4, 16, 16, 0, 0, i - 124)
    BY <1>7 DEF coord_lut_entry
  <2> QED BY <1>1, <2>1 DEF signed_entry, Entry
<1> QED BY <1>2, <1>3, <1>4, <1>5, <1>6, <1>7

\* A delta of either axis is an i16.
LEMMA DeltaType ==
  ASSUME NEW i \in 0 .. 127, NEW data \in Seq(Byte), Len(data) = COORD_LUT[i].byte_count
  PROVE  IsI16(dx(COORD_LUT[i], data)) /\ IsI16(dy(COORD_LUT[i], data))
<1> DEFINE t == COORD_LUT[i]
<1>1. /\ t.byte_count \in 1 .. 4 /\ t.x_bits \in Nat /\ t.y_bits \in Nat
      /\ t.x_bits + t.y_bits = 8 * t.byte_count /\ t.delta_x \in Nat /\ t.delta_y \in Nat
      /\ Len(data) = t.byte_count
  BY TripletType
<1> HIDE DEF t
<1>2. Bits(data, 0, t.x_bits) \in Nat
  <2>1. 0 + t.x_bits <= 8 * Len(data)
    BY <1>1
  <2> QED BY <1>1, <2>1, BitsType
<1>3. Bits(data, t.x_bits, t.y_bits) \in Nat
  <2>1. t.x_bits + t.y_bits <= 8 * Len(data)
    BY <1>1
  <2> QED BY <1>1, <2>1, BitsType
<1>4. X(t, data) \in Int /\ Y(t, data) \in Int
  BY <1>1, <1>2, <1>3 DEF X, Y
<1>5. ASSUME NEW v \in Int, NEW negative PROVE IsI16(Signed(negative, v))
  <2>1. IsI16(Magnitude(v))
    BY I16Type DEF Magnitude
  <2>2. -Magnitude(v) \in Int
    BY <2>1 DEF IsI16
  <2> QED BY <2>1, <2>2, I16Type DEF Signed
<1>6. IsI16(dx(t, data)) /\ IsI16(dy(t, data))
  BY <1>4, <1>5 DEF dx, dy
<1> QED BY <1>6 DEF t
-----------------------------------------------------------------------------
(* The decoder and the locals of a simple glyph.                           *)

Count == 0 .. U16 - 1
I16   == {v \in Int : IsI16(v)}
Boxes == {<< >>} \cup (I16 \X I16 \X I16 \X I16)

\* d is a record with these streams.
Holds(d, streams) == /\ d = [f \in DOMAIN d |-> d[f]] /\ streams \subseteq DOMAIN d
                     /\ \A f \in streams : d[f] \in Seq(Byte)

SimpleStreams == {"n_points_stream", "flag_stream", "glyph_stream", "bbox_stream",
                  "instruction_stream"}

Locals == [counts : Seq(Count), n_points : Seq(Byte), total : Count,
  contour : Nat, left : Count, running : Count, ends : Seq(Byte),
  flags : Seq(Byte), xs : Seq(Byte), ys : Seq(Byte), x : I16, y : I16, extents : Boxes]

SimpleInv == /\ Holds(decoder, SimpleStreams) /\ local \in Locals
             /\ local.contour <= Len(local.counts)
             /\ IsI16(call.number_of_contours) /\ output \in Seq(Byte)

\* What a step of a simple glyph leaves of the decoder.
Kept == /\ DOMAIN decoder' = DOMAIN decoder
        /\ \A f \in DOMAIN decoder \ SimpleStreams : decoder'[f] = decoder[f]

\* SimpleGlyph's operators are this module's.
LEMMA SameOperators ==
  /\ S!Byte = Byte /\ S!U16 = U16 /\ S!COORD_LUT = COORD_LUT
  /\ \A b, n : S!After(b, n) = After(b, n)
  /\ \A b : (S!CodeComplete(b) <=> CodeComplete(b)) /\ S!CodeValue(b) = CodeValue(b)
  /\ \A c : S!CodeLength(c) = CodeLength(c)
  /\ \A v : S!BigEndian16(v) = BigEndian16(v) /\ S!AsI16(v) = AsI16(v)
  /\ \A t, b : S!dx(t, b) = dx(t, b) /\ S!dy(t, b) = dy(t, b)
<1>1. S!Byte = Byte /\ S!U16 = U16
  BY DEF S!Byte, Byte, S!U16, U16
<1>2. S!COORD_LUT = COORD_LUT
  BY DEF S!COORD_LUT, COORD_LUT, S!coord_lut_entry, coord_lut_entry, S!y_only_entry, y_only_entry,
    S!x_only_entry, x_only_entry, S!packed_4bit_entry, packed_4bit_entry, S!packed_8bit_entry,
    packed_8bit_entry, S!signed_entry, signed_entry, S!Entry, Entry, S!DELTA_4BIT, DELTA_4BIT,
    S!DELTA_8BIT, DELTA_8BIT
<1>3. \A b, n : S!After(b, n) = After(b, n)
  BY DEF S!After, After
<1>4. \A c : S!CodeLength(c) = CodeLength(c)
  BY DEF S!CodeLength, CodeLength, S!WORD_CODE, WORD_CODE, S!ONE_MORE_BYTE_CODE_1,
    ONE_MORE_BYTE_CODE_1, S!ONE_MORE_BYTE_CODE_2, ONE_MORE_BYTE_CODE_2
<1>5. \A b : (S!CodeComplete(b) <=> CodeComplete(b)) /\ S!CodeValue(b) = CodeValue(b)
  BY <1>4 DEF S!CodeComplete, CodeComplete, S!CodeValue, CodeValue, S!WORD_CODE, WORD_CODE,
    S!ONE_MORE_BYTE_CODE_1, ONE_MORE_BYTE_CODE_1, S!ONE_MORE_BYTE_CODE_2, ONE_MORE_BYTE_CODE_2,
    S!LOWEST_UCODE, LOWEST_UCODE
<1>6. \A v : S!BigEndian16(v) = BigEndian16(v) /\ S!AsI16(v) = AsI16(v)
  BY DEF S!BigEndian16, BigEndian16, S!AsI16, AsI16
<1>7. \A t, b : S!dx(t, b) = dx(t, b) /\ S!dy(t, b) = dy(t, b)
  BY DEF S!dx, dx, S!dy, dy, S!Signed, Signed, S!Magnitude, Magnitude, S!X, X, S!Y, Y,
    S!Bits, Bits, S!AsI16, AsI16, S!BitWeight, BitWeight
<1> QED BY <1>1, <1>2, <1>3, <1>4, <1>5, <1>6, <1>7

LEMMA CountType == Count \subseteq Nat /\ 0 \in Count /\ \A v \in Int : v % U16 \in Count
BY WidthType DEF Count

LEMMA I16Elements == 0 \in I16 /\ I16 \subseteq Int /\ \A v \in Int : AsI16(v) \in I16
BY I16Type DEF I16, IsI16

\* The sixteen-bit integers are those SimpleGlyph speaks of.
LEMMA I16Interval == \A v \in Int : v \in I16 <=> S!InI16(v)
BY DEF S!InI16, I16, IsI16

LEMMA TakeCountType ==
  ASSUME SimpleInv, S!TakeCount
  PROVE  /\ SimpleInv' /\ Kept /\ UNCHANGED <<output, call>>
         /\ status = "counts" /\ status' \in {"counts", "panic"}
<1> DEFINE b == local.n_points
           n == CodeValue(b)
<1>1. b \in Seq(Byte) /\ CodeComplete(b) /\ status = "counts"
  BY SameOperators DEF SimpleInv, Locals, S!TakeCount, S!CountsLeft
<1>2. n \in Count /\ CodeLength(b[1]) \in 0 .. Len(b)
  BY <1>1, CodeType DEF Count
<1>3. After(b, CodeLength(b[1])) \in Seq(Byte)
  BY <1>1, <1>2, AfterProperties
<1>4. CASE S!Return("panic")
  BY <1>1, <1>4 DEF S!Return, SimpleInv, Holds, Kept
<1>5. CASE local' = S!Counted(n, (local.total + n) % U16) /\ S!Step("counts") /\ UNCHANGED decoder
  <2>1. local' = [local EXCEPT !.counts = Append(local.counts, n),
                               !.total = (local.total + n) % U16,
                               !.n_points = After(b, CodeLength(b[1]))]
    BY <1>5, SameOperators DEF S!Counted
  <2>2. local.counts \in Seq(Count) /\ local.total \in Count /\ local.contour \in Nat
    BY DEF SimpleInv, Locals
  <2>3. /\ Append(local.counts, n) \in Seq(Count)
        /\ Len(Append(local.counts, n)) = Len(local.counts) + 1
        /\ Len(local.counts) \in Nat
    BY <1>2, <2>2, AppendProperties, LenProperties
  <2>4. (local.total + n) % U16 \in Count
    <3>1. local.total \in Nat /\ n \in Nat
      BY <1>2, <2>2, CountType
    <3>2. local.total + n \in Int
      BY <3>1
    <3> QED BY <3>2, CountType
  <2>5. local' \in Locals
    BY <1>3, <2>1, <2>3, <2>4 DEF SimpleInv, Locals
  <2>6. local'.contour = local.contour /\ local'.counts = Append(local.counts, n)
    BY <2>1 DEF SimpleInv, Locals
  <2>7. local'.contour <= Len(local'.counts)
    BY <2>2, <2>3, <2>6 DEF SimpleInv
  <2> QED BY <1>1, <1>5, <2>5, <2>7 DEF S!Step, SimpleInv, Holds, Kept
<1> QED BY <1>1, <1>4, <1>5, SameOperators DEF S!TakeCount

LEMMA CountsCommittedType ==
  ASSUME SimpleInv, S!CountsCommitted
  PROVE  /\ SimpleInv' /\ Kept /\ UNCHANGED <<output, call>>
         /\ status = "counts" /\ status' = "points"
<1>1. /\ decoder' = [decoder EXCEPT !.n_points_stream = local.n_points]
      /\ local' = local /\ output' = output /\ call' = call
      /\ status = "counts" /\ status' = "points"
  BY DEF S!CountsCommitted, S!CountsTaken, S!Step
<1>2. local.n_points \in Seq(Byte)
  BY DEF SimpleInv, Locals
<1>3. Holds(decoder', SimpleStreams) /\ Kept
  BY <1>1, <1>2 DEF SimpleInv, Holds, SimpleStreams, Kept
<1> QED BY <1>1, <1>3 DEF SimpleInv

LEMMA ContourType ==
  ASSUME SimpleInv, S!Contour
  PROVE  /\ SimpleInv' /\ Kept /\ UNCHANGED <<output, call>>
         /\ status = "points" /\ status' \in {"points", "panic"}
<1>1. status = "points" /\ local.contour < Len(local.counts)
  BY DEF S!Contour, S!AtContour
<1>2. CASE S!Return("panic")
  BY <1>1, <1>2 DEF S!Return, SimpleInv, Holds, Kept
<1>3. CASE local' = S!Begun(local.contour + 1) /\ S!Step("points") /\ UNCHANGED decoder
  <2> DEFINE points  == local.counts[local.contour + 1]
             running == (local.running + points) % U16
             ends    == local.ends \o BigEndian16(running - 1)
  <2>1. local' = [local EXCEPT !.contour = local.contour + 1, !.left = points,
                               !.running = running, !.ends = ends]
    BY <1>3, SameOperators DEF S!Begun, S!Points, S!Running
  <2>2. /\ local.counts \in Seq(Count) /\ local.running \in Count /\ local.contour \in Nat
        /\ local.ends \in Seq(Byte)
    BY DEF SimpleInv, Locals
  <2>3. Len(local.counts) \in Nat
    BY <2>2, LenProperties
  <2>4. local.contour + 1 \in Nat /\ local.contour + 1 \in 1 .. Len(local.counts)
    BY <1>1, <2>2, <2>3
  <2>5. points \in Count
    BY <2>2, <2>4, ElementOfSeq
  <2>6. running \in Count
    <3>1. points \in Nat /\ local.running \in Nat
      BY <2>2, <2>5, CountType
    <3>2. local.running + points \in Int
      BY <3>1
    <3> QED BY <3>2, CountType
  <2> HIDE DEF points, running
  <2>7. ends \in Seq(Byte)
    <3>1. running - 1 \in Int
      BY <2>6, CountType
    <3> QED BY <2>2, <3>1, PairType, ConcatProperties
  <2> HIDE DEF ends
  <2>8. local' \in Locals
    BY <2>1, <2>4, <2>5, <2>6, <2>7 DEF SimpleInv, Locals
  <2>9. local'.contour = local.contour + 1 /\ local'.counts = local.counts
    BY <2>1 DEF SimpleInv, Locals
  <2>10. local'.contour <= Len(local'.counts)
    BY <2>4, <2>9
  <2> QED BY <1>1, <1>3, <2>8, <2>10 DEF S!Step, SimpleInv, Holds, Kept
<1> QED BY <1>2, <1>3 DEF S!Contour

LEMMA CoordBytesType ==
  ASSUME NEW d \in I16
  PROVE  S!CoordBytes(d) \in Seq(Byte)
<1>1. d \in Int
  BY I16Elements
<1>2. CASE d = 0
  BY <1>2 DEF S!CoordBytes
<1>3. CASE d # 0 /\ (d \in 1 .. 255 \/ -d \in 1 .. 255)
  <2>1. (IF d > 0 THEN d ELSE -d) \in Byte
    BY <1>1, <1>3, ByteBounds
  <2> QED BY <1>3, <2>1 DEF S!CoordBytes
<1>4. CASE d # 0 /\ ~(d \in 1 .. 255 \/ -d \in 1 .. 255)
  <2>1. S!CoordBytes(d) = BigEndian16(d)
    BY <1>4, SameOperators DEF S!CoordBytes
  <2> QED BY <1>1, <2>1, PairType
<1> QED BY <1>2, <1>3, <1>4

LEMMA FlagByteType == \A x, y : S!FlagByte(x, y) \in Byte
<1> TAKE x, y
<1> DEFINE n(v, bit) == v = 0 \/ v = bit
           on == IF S!Flags < 128 THEN 1 ELSE 0
<1>1. /\ n(on, 1) /\ n(S!ShortBit(x, 2), 2) /\ n(S!ShortBit(y, 4), 4)
      /\ n(S!SameBit(x, 16), 16) /\ n(S!SameBit(y, 32), 32) /\ n(S!OverlapBit, 64)
  BY DEF S!ShortBit, S!SameBit, S!OverlapBit
<1>2. S!FlagByte(x, y) = on + S!ShortBit(x, 2) + S!ShortBit(y, 4) + S!SameBit(x, 16)
                           + S!SameBit(y, 32) + S!OverlapBit
  BY DEF S!FlagByte
<1> HIDE DEF on
<1>3. S!FlagByte(x, y) \in Nat /\ S!FlagByte(x, y) < 256
  BY <1>1, <1>2
<1> QED BY <1>3, ByteBounds

LEMMA BoxType ==
  ASSUME NEW box \in Boxes, NEW x \in I16, NEW y \in I16
  PROVE  S!Extended(box, x, y) \in Boxes
<1>1. CASE box = << >>
  BY <1>1 DEF S!Extended, Boxes
<1>2. CASE box # << >>
  <2>1. box[1] \in I16 /\ box[2] \in I16 /\ box[3] \in I16 /\ box[4] \in I16
    BY <1>2 DEF Boxes
  <2>2. \A a, b \in I16 : S!Lower(a, b) \in I16 /\ S!Higher(a, b) \in I16
    BY DEF S!Lower, S!Higher
  <2>3. S!Extended(box, x, y) = <<S!Lower(box[1], x), S!Lower(box[2], y),
                                  S!Higher(box[3], x), S!Higher(box[4], y)>>
    BY <1>2 DEF S!Extended
  <2> QED BY <2>1, <2>2, <2>3 DEF Boxes
<1> QED BY <1>1, <1>2

LEMMA PointType ==
  ASSUME SimpleInv, S!Point
  PROVE  /\ SimpleInv' /\ Kept /\ UNCHANGED <<output, call>>
         /\ status = "points" /\ status' \in {"points", "panic"}
<1> DEFINE t     == COORD_LUT[S!Flags % 128]
           data  == SubSeq(decoder.glyph_stream, 1, t.byte_count)
           delta == <<dx(t, data), dy(t, data)>>
           x     == AsI16(local.x + delta[1])
           y     == AsI16(local.y + delta[2])
<1>1. /\ status = "points" /\ local.left > 0
      /\ decoder.flag_stream # << >> /\ Len(decoder.glyph_stream) >= t.byte_count
  BY SameOperators DEF S!Point, S!AtPoint, S!PointComplete, S!Triplet
<1>2. decoder.flag_stream \in Seq(Byte) /\ decoder.glyph_stream \in Seq(Byte)
  BY DEF SimpleInv, Holds, SimpleStreams
<1>3. Len(decoder.flag_stream) \in Nat /\ 1 \in 0 .. Len(decoder.flag_stream)
      /\ 1 \in 1 .. Len(decoder.flag_stream)
  BY <1>1, <1>2, LenProperties
<1>4. S!Flags % 128 \in 0 .. 127
  <2>1. S!Flags \in Nat
    BY <1>2, <1>3, ElementOfSeq, ByteBounds DEF S!Flags
  <2> QED BY <2>1
<1>5. t.byte_count \in 1 .. 4 /\ t.byte_count \in 0 .. Len(decoder.glyph_stream)
  <2>1. t.byte_count \in 1 .. 4
    BY <1>4, TripletType
  <2>2. Len(decoder.glyph_stream) \in Nat
    BY <1>2, LenProperties
  <2> HIDE DEF t
  <2> QED BY <1>1, <2>1, <2>2
<1>6. delta[1] \in I16 /\ delta[2] \in I16
  <2>1. data \in Seq(Byte) /\ Len(data) = t.byte_count
    BY <1>2, <1>5, FrontProperties
  <2>2. IsI16(dx(t, data)) /\ IsI16(dy(t, data))
    BY <1>4, <2>1, DeltaType
  <2> HIDE DEF t, data
  <2> QED BY <2>2 DEF I16, IsI16
<1>7. CASE S!Return("panic")
  BY <1>1, <1>7 DEF S!Return, SimpleInv, Holds, Kept
<1>8. CASE /\ local' = S!MovedBy(delta, x, y)
           /\ decoder' = [decoder EXCEPT
                            !.flag_stream  = After(decoder.flag_stream, 1),
                            !.glyph_stream = After(decoder.glyph_stream, t.byte_count)]
           /\ S!Step("points")
  <2>1. /\ After(decoder.flag_stream, 1) \in Seq(Byte)
        /\ After(decoder.glyph_stream, t.byte_count) \in Seq(Byte)
    BY <1>2, <1>3, <1>5, AfterProperties
  <2> HIDE DEF t, data
  <2>2. Holds(decoder', SimpleStreams) /\ Kept
    BY <1>8, <2>1 DEF SimpleInv, Holds, SimpleStreams, Kept
  <2>3. /\ local.x \in Int /\ local.y \in Int /\ local.extents \in Boxes /\ local.left \in Count
        /\ local.flags \in Seq(Byte) /\ local.xs \in Seq(Byte) /\ local.ys \in Seq(Byte)
    BY I16Elements DEF SimpleInv, Locals
  <2>4. x \in I16 /\ y \in I16
    <3>1. delta[1] \in Int /\ delta[2] \in Int
      BY <1>6, I16Elements
    <3> HIDE DEF delta
    <3>2. local.x + delta[1] \in Int /\ local.y + delta[2] \in Int
      BY <2>3, <3>1
    <3> QED BY <3>2, I16Elements
  <2> HIDE DEF delta, x, y
  <2> DEFINE flags == Append(local.flags, S!FlagByte(delta[1], delta[2]))
             xs    == local.xs \o S!CoordBytes(delta[1])
             ys    == local.ys \o S!CoordBytes(delta[2])
             box   == S!Extended(local.extents, x, y)
  <2>5. flags \in Seq(Byte)
    BY <2>3, FlagByteType, AppendProperties
  <2>6. xs \in Seq(Byte) /\ ys \in Seq(Byte)
    BY <1>6, <2>3, CoordBytesType, ConcatProperties
  <2>7. box \in Boxes
    BY <2>3, <2>4, BoxType
  <2>8. local.left - 1 \in Count
    <3>1. U16 \in Nat
      BY WidthType
    <3> QED BY <1>1, <2>3, <3>1 DEF Count
  <2>9. local' = [local EXCEPT !.left = local.left - 1, !.x = x, !.y = y, !.extents = box,
                               !.flags = flags, !.xs = xs, !.ys = ys]
    BY <1>8 DEF S!MovedBy
  <2> HIDE DEF flags, xs, ys, box
  <2>10. local' \in Locals
    BY <2>4, <2>5, <2>6, <2>7, <2>8, <2>9 DEF SimpleInv, Locals
  <2>11. local'.contour = local.contour /\ local'.counts = local.counts
    BY <2>9 DEF SimpleInv, Locals
  <2> QED BY <1>1, <1>8, <2>2, <2>10, <2>11 DEF S!Step, SimpleInv
<1> QED BY <1>7, <1>8, SameOperators, ZenonT(30) DEF S!Point, S!Triplet

\* b is a buffer that begins with p.
Begins(b, p) == b \in Seq(Byte) /\ Len(p) <= Len(b) /\ \A i \in 1 .. Len(p) : b[i] = p[i]

LEMMA BeginsConcat ==
  ASSUME NEW a, NEW p \in Seq(Byte), Begins(a, p), NEW b \in Seq(Byte)
  PROVE  Begins(a \o b, p)
<1>1. a \in Seq(Byte) /\ Len(p) \in Nat /\ Len(a) \in Nat /\ Len(b) \in Nat /\ Len(p) <= Len(a)
      /\ \A i \in 1 .. Len(p) : a[i] = p[i]
  BY LenProperties DEF Begins
<1>2. /\ a \o b \in Seq(Byte) /\ Len(a \o b) = Len(a) + Len(b)
      /\ \A i \in 1 .. Len(a) + Len(b) : (a \o b)[i] = IF i <= Len(a) THEN a[i] ELSE b[i - Len(a)]
  BY <1>1, ConcatProperties
<1>3. ASSUME NEW i \in 1 .. Len(p) PROVE (a \o b)[i] = p[i]
  <2>1. i \in 1 .. Len(a) + Len(b) /\ i <= Len(a)
    BY <1>1
  <2> QED BY <1>1, <1>2, <2>1
<1> QED BY <1>1, <1>2, <1>3 DEF Begins

\* The bytes of a glyph begin with its number of contours.
LEMMA FinishType ==
  ASSUME SimpleInv, S!Finish
  PROVE  /\ SimpleInv' /\ Kept /\ call' = call /\ status = "points" /\ status' = "parsed"
         /\ output' = output \o S!GlyphBytes
         /\ Begins(S!GlyphBytes, BigEndian16(call.number_of_contours))
<1> DEFINE g == decoder.glyph_stream
           i == decoder.instruction_stream
           b == decoder.bbox_stream
           n == CodeValue(g)
<1>1. /\ status = "points" /\ status' = "parsed" /\ call' = call /\ local' = local
      /\ output' = output \o S!GlyphBytes
      /\ CodeComplete(g) /\ Len(i) >= n /\ (S!Explicit => Len(b) >= 8)
      /\ decoder' = [decoder EXCEPT
           !.glyph_stream = After(g, CodeLength(g[1])), !.instruction_stream = After(i, n),
           !.bbox_stream = IF S!Explicit THEN After(b, 8) ELSE b]
  BY SameOperators DEF S!Finish, S!AllPoints, S!TailComplete, S!InstructionLength
<1>2. g \in Seq(Byte) /\ i \in Seq(Byte) /\ b \in Seq(Byte)
  BY DEF SimpleInv, Holds, SimpleStreams
<1>3. Len(i) \in Nat /\ Len(b) \in Nat
  BY <1>2, LenProperties
<1>4. CodeLength(g[1]) \in 0 .. Len(g) /\ n \in Nat
  BY <1>1, <1>2, CodeType, CountType DEF Count
<1> HIDE DEF g, i, b, n
<1>5. n \in 0 .. Len(i) /\ (S!Explicit => 8 \in 0 .. Len(b))
  BY <1>1, <1>3, <1>4
<1>6. /\ After(g, CodeLength(g[1])) \in Seq(Byte) /\ After(i, n) \in Seq(Byte)
      /\ S!Explicit => After(b, 8) \in Seq(Byte) /\ SubSeq(b, 1, 8) \in Seq(Byte)
      /\ SubSeq(i, 1, n) \in Seq(Byte)
  BY <1>2, <1>4, <1>5, AfterProperties, FrontProperties
<1>7. Holds(decoder', SimpleStreams) /\ Kept
  <2>1. (IF S!Explicit THEN After(b, 8) ELSE b) \in Seq(Byte)
    BY <1>2, <1>6
  <2> QED BY <1>1, <1>6, <2>1 DEF SimpleInv, Holds, SimpleStreams, Kept
<1>8. S!BoxBytes \in Seq(Byte)
  <2>1. CASE S!Explicit
    BY <1>6, <2>1 DEF S!BoxBytes, b
  <2>2. CASE ~S!Explicit
    <3> DEFINE box == IF local.extents = << >> THEN <<0, 0, 0, 0>> ELSE local.extents
    <3>1. box[1] \in Int /\ box[2] \in Int /\ box[3] \in Int /\ box[4] \in Int
      <4>1. local.extents \in Boxes
        BY DEF SimpleInv, Locals
      <4>2. CASE local.extents = << >>
        BY <4>2
      <4>3. CASE local.extents # << >>
        <5>1. local.extents \in I16 \X I16 \X I16 \X I16 /\ box = local.extents
          BY <4>1, <4>3 DEF Boxes
        <5> HIDE DEF box
        <5> QED BY <5>1, I16Elements
      <4> QED BY <4>2, <4>3
    <3>2. S!BoxBytes = BigEndian16(box[1]) \o BigEndian16(box[2]) \o BigEndian16(box[3])
                         \o BigEndian16(box[4])
      BY <2>2, SameOperators DEF S!BoxBytes
    <3> HIDE DEF box
    <3>3. /\ BigEndian16(box[1]) \in Seq(Byte) /\ BigEndian16(box[2]) \in Seq(Byte)
          /\ BigEndian16(box[3]) \in Seq(Byte) /\ BigEndian16(box[4]) \in Seq(Byte)
      <4>1. BigEndian16(box[1]) \in Seq(Byte)
        BY <3>1, PairType
      <4>2. BigEndian16(box[2]) \in Seq(Byte)
        BY <3>1, PairType
      <4>3. BigEndian16(box[3]) \in Seq(Byte)
        BY <3>1, PairType
      <4>4. BigEndian16(box[4]) \in Seq(Byte)
        BY <3>1, PairType
      <4> QED BY <4>1, <4>2, <4>3, <4>4
    <3>4. BigEndian16(box[1]) \o BigEndian16(box[2]) \in Seq(Byte)
      BY <3>3, ConcatProperties
    <3>5. BigEndian16(box[1]) \o BigEndian16(box[2]) \o BigEndian16(box[3]) \in Seq(Byte)
      BY <3>3, <3>4, ConcatProperties
    <3> QED BY <3>2, <3>3, <3>5, ConcatProperties
  <2> QED BY <2>1, <2>2
<1>9. Begins(S!GlyphBytes, BigEndian16(call.number_of_contours))
  <2> DEFINE p == BigEndian16(call.number_of_contours)
             q == BigEndian16(n)
             s == SubSeq(i, 1, n)
  <2>1. S!GlyphBytes = p \o S!BoxBytes \o local.ends \o q \o s
                         \o local.flags \o local.xs \o local.ys
    BY SameOperators DEF S!GlyphBytes, S!InstructionLength, n, g, i
  <2>2. /\ local.ends \in Seq(Byte) /\ local.flags \in Seq(Byte)
        /\ local.xs \in Seq(Byte) /\ local.ys \in Seq(Byte)
    BY DEF SimpleInv, Locals
  <2>3. p \in Seq(Byte) /\ q \in Seq(Byte) /\ s \in Seq(Byte)
    <3>1. call.number_of_contours \in Int
      BY DEF SimpleInv, IsI16
    <3>2. n \in Int
      BY <1>4
    <3> QED BY <1>6, <3>1, <3>2, PairType, ZenonT(30)
  <2> HIDE DEF p, q, s
  <2>4. Begins(p, p)
    BY <2>3, LenProperties DEF Begins
  <2>5. Begins(p \o S!BoxBytes \o local.ends, p)
    BY <1>8, <2>2, <2>3, <2>4, BeginsConcat
  <2>6. Begins(p \o S!BoxBytes \o local.ends \o q \o s, p)
    BY <2>3, <2>5, BeginsConcat
  <2>7. Begins(p \o S!BoxBytes \o local.ends \o q \o s \o local.flags \o local.xs, p)
    BY <2>2, <2>3, <2>6, BeginsConcat
  <2>8. Begins(S!GlyphBytes, p)
    BY <2>1, <2>2, <2>3, <2>7, BeginsConcat
  <2> QED BY <2>8 DEF p
<1>10. output' \in Seq(Byte)
  BY <1>1, <1>9, ConcatProperties DEF Begins, SimpleInv
<1> QED BY <1>1, <1>7, <1>9, <1>10 DEF SimpleInv

\* A step of a simple glyph keeps the types, writes the output only when it ends,
\* and leaves the streams it does not read.
LEMMA SimpleStepType ==
  ASSUME SimpleInv, S!Next
  PROVE  /\ SimpleInv' /\ Kept /\ call' = call /\ status \in {"counts", "points"}
         /\ \/ status' \in {"counts", "points", "Truncated", "panic"} /\ output' = output
            \/ /\ status' = "parsed" /\ output' = output \o S!GlyphBytes
               /\ Begins(S!GlyphBytes, BigEndian16(call.number_of_contours))
<1>1. ASSUME S!Return("Truncated"), status \in {"counts", "points"}
      PROVE  /\ SimpleInv' /\ Kept /\ call' = call /\ status \in {"counts", "points"}
             /\ status' = "Truncated" /\ output' = output
  BY <1>1 DEF S!Return, SimpleInv, Holds, Kept
<1>2. CASE S!CountTruncated
  BY <1>1, <1>2 DEF S!CountTruncated, S!CountsLeft
<1>3. CASE S!PointTruncated
  BY <1>1, <1>3 DEF S!PointTruncated, S!AtPoint
<1>4. CASE S!TailTruncated
  BY <1>1, <1>4 DEF S!TailTruncated, S!AllPoints
<1> QED BY <1>2, <1>3, <1>4, TakeCountType, CountsCommittedType, ContourType, PointType, FinishType
     DEF S!Next

-----------------------------------------------------------------------------
(* The streams.                                                            *)

LEMMA SumOfIs ==
  ASSUME NEW s, NEW n \in Nat, Len(s) = n, \A i \in 1 .. n : s[i] \in Nat
  PROVE  \E f : AddsUp(f, s, n) /\ SumOf(s) = f[n]
<1> DEFINE Sums(f) == f = [i \in 0 .. Len(s) |-> IF i = 0 THEN 0 ELSE f[i-1] + s[i]]
           sum == CHOOSE f : Sums(f)
<1>1. PICK f : AddsUp(f, s, n)
  BY SumsExist
<1>2. Sums(f)
  BY <1>1 DEF AddsUp
<1>3. Sums(sum)
  <2> HIDE DEF Sums
  <2> QED BY <1>2
<1>4. SumOf(s) = sum[n]
  BY DEF SumOf
<1> HIDE DEF sum
<1>5. AddsUp(sum, s, n)
  BY <1>3 DEF AddsUp
<1> QED BY <1>4, <1>5

LEMMA SumOfFront ==
  ASSUME NEW s \in Seq(Nat)
  PROVE  /\ SumOf(SubSeq(s, 1, 0)) = 0
         /\ \A n \in 0 .. Len(s) : SumOf(SubSeq(s, 1, n)) \in Nat
         /\ \A n \in 1 .. Len(s) : SumOf(SubSeq(s, 1, n)) = SumOf(SubSeq(s, 1, n - 1)) + s[n]
<1>1. Len(s) \in Nat /\ \A i \in 1 .. Len(s) : s[i] \in Nat
  BY LenProperties, ElementOfSeq
<1>2. PICK f : AddsUp(f, s, Len(s))
  BY <1>1, SumsExist
<1>3. f[0] = 0 /\ (\A i \in 0 .. Len(s) : f[i] \in Nat)
      /\ \A i \in 1 .. Len(s) : f[i] = f[i-1] + s[i]
  BY <1>1, <1>2, SumsProperties
<1>4. ASSUME NEW n \in 0 .. Len(s) PROVE SumOf(SubSeq(s, 1, n)) = f[n]
  <2>1. n \in Nat /\ 1 \in Int /\ n \in Int /\ n \in 0 .. n /\ \A i \in 1 .. n : s[i] \in Nat
    BY <1>1
  <2>2. PICK t : t = SubSeq(s, 1, n)
    OBVIOUS
  <2>3. Len(t) = n /\ \A i \in 1 .. n : t[i] = s[i] /\ t[i] \in Nat
    <3>1. Len(t) = (IF 1 <= n THEN n - 1 + 1 ELSE 0) /\ \A i \in 1 .. n - 1 + 1 : t[i] = s[1 + i - 1]
      BY <2>1, <2>2, SubSeqProperties
    <3> QED BY <2>1, <3>1
  <2>4. PICK g : AddsUp(g, t, n) /\ SumOf(t) = g[n]
    BY <2>1, <2>3, SumOfIs
  <2>5. PICK h : h = [i \in 0 .. n |-> f[i]]
    OBVIOUS
  <2>6. AddsUp(h, s, n)
    <3>1. ASSUME NEW i \in 0 .. n PROVE f[i] = IF i = 0 THEN 0 ELSE h[i-1] + s[i]
      <4>1. CASE i # 0
        <5>1. i \in 1 .. Len(s) /\ i - 1 \in 0 .. n
          BY <1>1, <2>1, <4>1
        <5> QED BY <1>3, <2>5, <4>1, <5>1
      <4> QED BY <1>3, <4>1
    <3> QED BY <2>5, <3>1 DEF AddsUp
  <2>7. h[n] = g[n]
    <3>1. AddsUp(g, t, n) /\ (\A j \in 1 .. n : t[j] = s[j]) /\ n \in Nat /\ n \in 0 .. n
      BY <2>1, <2>3, <2>4
    <3> QED BY <2>6, <3>1, SumsAgree
  <2> QED BY <2>1, <2>2, <2>4, <2>5, <2>7
<1>5. ASSUME NEW n \in 1 .. Len(s)
      PROVE  SumOf(SubSeq(s, 1, n)) = SumOf(SubSeq(s, 1, n - 1)) + s[n]
  <2>1. n \in 0 .. Len(s) /\ n - 1 \in 0 .. Len(s)
    BY <1>1
  <2> QED BY <1>3, <1>4, <2>1
<1>6. 0 \in 0 .. Len(s)
  BY <1>1
<1> QED BY <1>3, <1>4, <1>5, <1>6

\* A u16 read off the bytes, and a u16 written.
LEMMA U16AtType ==
  ASSUME NEW b \in Seq(Byte), NEW i \in Nat \ {0}, i < Len(b)
  PROVE  U16At(b, i) \in Count
<1>1. i \in 1 .. Len(b) /\ i + 1 \in 1 .. Len(b)
  BY LenProperties
<1>2. b[i] \in Nat /\ b[i] < 256 /\ b[i + 1] \in Nat /\ b[i + 1] < 256
  BY <1>1, ElementOfSeq, ByteBounds
<1>3. U16At(b, i) = b[i] * 256 + b[i + 1]
  BY Widths DEF U16At
<1>4. U16At(b, i) \in Nat /\ U16At(b, i) < 65536
  BY <1>2, <1>3
<1> QED BY <1>4, U16Bounds DEF Count

LEMMA SizesType ==
  ASSUME input \in Seq(Byte), HeaderComplete
  PROVE  Sizes \in Seq(Nat) /\ Len(Sizes) = 9 /\ NumGlyphs \in Count
<1>1. NumGlyphs \in Count
  <2>1. 5 < Len(input) /\ 5 \in Nat \ {0}
    BY LenProperties DEF HeaderComplete, GLYF_HEADER_SIZE
  <2> QED BY <2>1, U16AtType DEF NumGlyphs
<1>2. BitmapSize \in Nat
  <2>1. NumGlyphs \in Nat
    BY <1>1, CountType
  <2> QED BY <2>1 DEF BitmapSize, bit_stream_byte_length
<1>3. \A k \in 3 .. 9 : Word(input, k) \in Nat
  BY WordType
<1>4. Word(input, 8) - BitmapSize \in Nat
  BY <1>2, <1>3 DEF HeaderComplete
<1>5. /\ Word(input, 3) \in Nat /\ Word(input, 4) \in Nat /\ Word(input, 5) \in Nat
      /\ Word(input, 6) \in Nat /\ Word(input, 7) \in Nat /\ Word(input, 9) \in Nat
      /\ (IF HasBit(OptionFlags, 1) THEN BitmapSize ELSE 0) \in Nat
  BY <1>2, <1>3
<1> QED BY <1>1, <1>2, <1>4, <1>5 DEF Sizes

\* The streams follow each other inside the table.
LEMMA StreamsType ==
  ASSUME input \in Seq(Byte), StreamsComplete
  PROVE  /\ Taken(0) = 0 /\ \A n \in 0 .. 9 : Taken(n) \in Nat
         /\ \A n \in 1 .. 9 : /\ Stream(n) \in Seq(Byte) /\ Len(Stream(n)) = Sizes[n]
                              /\ Sizes[n] \in Nat
                              /\ GLYF_HEADER_SIZE + Taken(n - 1) + Sizes[n] <= Len(input)
         /\ After(input, GLYF_HEADER_SIZE + Taken(9)) \in Seq(Byte)
<1>1. Sizes \in Seq(Nat) /\ Len(Sizes) = 9 /\ GLYF_HEADER_SIZE + Taken(9) <= Len(input)
  BY SizesType DEF StreamsComplete
<1>2. /\ Taken(0) = 0 /\ (\A n \in 0 .. 9 : Taken(n) \in Nat)
      /\ \A n \in 1 .. 9 : Taken(n) = Taken(n - 1) + Sizes[n]
  BY <1>1, SumOfFront DEF Taken
<1>3. \A n \in 1 .. 9 : Sizes[n] \in Nat
  BY <1>1, ElementOfSeq
<1> DEFINE t(n) == Taken(n)
<1>4. /\ t(0) \in Nat /\ t(1) \in Nat /\ t(2) \in Nat /\ t(3) \in Nat /\ t(4) \in Nat
      /\ t(5) \in Nat /\ t(6) \in Nat /\ t(7) \in Nat /\ t(8) \in Nat /\ t(9) \in Nat
  BY <1>2
<1>5. /\ t(0) <= t(1) /\ t(1) <= t(2) /\ t(2) <= t(3) /\ t(3) <= t(4) /\ t(4) <= t(5)
      /\ t(5) <= t(6) /\ t(6) <= t(7) /\ t(7) <= t(8) /\ t(8) <= t(9)
  <2>1. \A n \in 1 .. 9 : t(n - 1) <= t(n)
    <3> TAKE n \in 1 .. 9
    <3>1. n - 1 \in 0 .. 9 /\ n \in 0 .. 9
      OBVIOUS
    <3>2. t(n) = t(n - 1) + Sizes[n] /\ t(n - 1) \in Nat /\ Sizes[n] \in Nat
      BY <1>2, <1>3, <3>1
    <3> HIDE DEF t
    <3> QED BY <3>2
  <2> HIDE DEF t
  <2>2. /\ t(1 - 1) <= t(1) /\ t(2 - 1) <= t(2) /\ t(3 - 1) <= t(3) /\ t(4 - 1) <= t(4)
        /\ t(5 - 1) <= t(5) /\ t(6 - 1) <= t(6) /\ t(7 - 1) <= t(7) /\ t(8 - 1) <= t(8)
        /\ t(9 - 1) <= t(9)
    BY <2>1
  <2> QED BY <2>2
<1>6. \A n \in 1 .. 9 : t(n) <= t(9)
  <2> HIDE DEF t
  <2>1. /\ t(1) <= t(9) /\ t(2) <= t(9) /\ t(3) <= t(9) /\ t(4) <= t(9) /\ t(5) <= t(9)
        /\ t(6) <= t(9) /\ t(7) <= t(9) /\ t(8) <= t(9)
    BY <1>4, <1>5, SMTT(20)
  <2>2. \A n \in 1 .. 9 : n \in {1, 2, 3, 4, 5, 6, 7, 8, 9}
    OBVIOUS
  <2>3. t(9) <= t(9)
    BY <1>4
  <2> QED BY <2>1, <2>2, <2>3, Zenon
<1>7. Len(input) \in Nat /\ GLYF_HEADER_SIZE \in Nat
  BY LenProperties DEF GLYF_HEADER_SIZE
<1> HIDE DEF t
<1>8. ASSUME NEW n \in 1 .. 9
      PROVE  /\ Stream(n) \in Seq(Byte) /\ Len(Stream(n)) = Sizes[n] /\ Sizes[n] \in Nat
             /\ GLYF_HEADER_SIZE + Taken(n - 1) + Sizes[n] <= Len(input)
  <2>1. n - 1 \in 0 .. 9 /\ Taken(n - 1) \in Nat /\ Sizes[n] \in Nat /\ t(n) <= t(9)
        /\ Taken(n) = Taken(n - 1) + Sizes[n] /\ Taken(n) \in Nat /\ Taken(9) \in Nat
    <3>1. n - 1 \in 0 .. 9 /\ n \in 0 .. 9 /\ 9 \in 0 .. 9
      OBVIOUS
    <3> QED BY <1>2, <1>3, <1>6, <3>1
  <2>2. Taken(n) <= Taken(9)
    BY <2>1 DEF t
  <2>3. GLYF_HEADER_SIZE + Taken(n - 1) + Sizes[n] <= Len(input)
    BY <1>1, <1>7, <2>1, <2>2
  <2>4. GLYF_HEADER_SIZE + Taken(n - 1) \in Nat
    BY <1>7, <2>1
  <2> QED BY <2>1, <2>3, <2>4, SliceProperties DEF Stream
<1>9. After(input, GLYF_HEADER_SIZE + Taken(9)) \in Seq(Byte)
  <2>1. GLYF_HEADER_SIZE + Taken(9) \in 0 .. Len(input)
    <3>1. Taken(9) \in Nat
      BY <1>2
    <3> QED BY <1>1, <1>7, <3>1
  <2> QED BY <2>1, AfterProperties
<1> QED BY <1>2, <1>8, <1>9

-----------------------------------------------------------------------------
(* The offsets.                                                            *)

EntrySize == IF LongLoca THEN 4 ELSE 2

\* The k-th offset of a table with entries of a size.
OffsetAt(size, l, k) == IF size = 4 THEN Word(l, k) ELSE 2 * U16At(l, 2 * k - 1)

\* The bytes of an offset are read back as it.
LEMMA EntryRead ==
  ASSUME NEW n \in Nat, n % 4 = 0, Fits(n)
  PROVE  /\ LocaEntry(n) \in Seq(Byte) /\ Len(LocaEntry(n)) = EntrySize
         /\ \A e \in Seq(Byte) :
              Len(e) = EntrySize /\ (\A i \in 1 .. Len(e) : e[i] = LocaEntry(n)[i])
                => OffsetAt(EntrySize, e, 1) = n
<1>1. CASE LongLoca
  <2> DEFINE b == BigEndian32(n)
  <2>1. n \in 0 .. U32 - 1
    <3>1. n \div U16 \in Nat /\ n \div U16 < U16 /\ U16 = 65536 /\ U32 = 4294967296
      BY <1>1, Widths, Division DEF Fits
    <3>2. n < U32
      BY <3>1
    <3> QED BY <3>2, WidthType
  <2>2. b \in Seq(Byte) /\ Len(b) = 4
    BY BigEndian32Properties
  <2>3. ((b[1] * Radix + b[2]) * Radix + b[3]) * Radix + b[4] = n
    BY <2>1, BigEndian32Value
  <2> HIDE DEF b
  <2>4. LocaEntry(n) = b /\ EntrySize = 4
    BY <1>1 DEF LocaEntry, b, EntrySize
  <2>5. ASSUME NEW e \in Seq(Byte), Len(e) = 4, \A i \in 1 .. Len(e) : e[i] = b[i]
        PROVE  OffsetAt(EntrySize, e, 1) = n
    <3>1. e[1] = b[1] /\ e[2] = b[2] /\ e[3] = b[3] /\ e[4] = b[4]
      BY <2>5
    <3>2. OffsetAt(EntrySize, e, 1) = Word(e, 1)
      BY <1>1 DEF OffsetAt, EntrySize
    <3>3. /\ ByteOrZero(e, 4 * 1 - 3) = e[1] /\ ByteOrZero(e, 4 * 1 - 2) = e[2]
          /\ ByteOrZero(e, 4 * 1 - 1) = e[3] /\ ByteOrZero(e, 4 * 1) = e[4]
      BY <2>5 DEF ByteOrZero
    <3> QED BY <2>3, <3>1, <3>2, <3>3 DEF Word
  <2> QED BY <2>2, <2>4, <2>5
<1>2. CASE ~LongLoca
  <2>1. PICK v \in Nat : v = n \div 2 /\ v < 65536 /\ 2 * v = n
    <3>1. OffsetValues \in Nat /\ OffsetValues <= U16
      BY OffsetAssumption, WidthType
    <3>2. n \div 2 < OffsetValues
      BY <1>2 DEF Fits
    <3>3. n \div 2 \in Nat /\ n \div 2 < 65536 /\ 2 * (n \div 2) = n
      BY <3>1, <3>2, Widths
    <3> QED BY <3>3
  <2> DEFINE b == BigEndian16(v)
  <2>2. b \in Seq(Byte) /\ Len(b) = 2 /\ b[1] = (v \div 256) % 256 /\ b[2] = v % 256
    <3>1. v \in Int
      OBVIOUS
    <3> QED BY <3>1, PairType, ZenonT(30)
  <2>3. 2 * (b[1] * 256 + b[2]) = n
    <3>1. ((v \div 256) % 256) * 256 + (v % 256) = v
      BY <2>1
    <3> QED BY <2>1, <2>2, <3>1
  <2> HIDE DEF b
  <2>4. LocaEntry(n) = b /\ EntrySize = 2
    BY <1>2, <2>1 DEF LocaEntry, b, EntrySize
  <2>5. ASSUME NEW e \in Seq(Byte), Len(e) = 2, \A i \in 1 .. Len(e) : e[i] = b[i]
        PROVE  OffsetAt(EntrySize, e, 1) = n
    <3>1. e[1] = b[1] /\ e[2] = b[2]
      BY <2>5
    <3>2. OffsetAt(EntrySize, e, 1) = 2 * U16At(e, 2 * 1 - 1)
      BY <1>2 DEF OffsetAt, EntrySize
    <3>3. U16At(e, 2 * 1 - 1) = e[1] * 256 + e[2]
      BY Widths DEF U16At
    <3> QED BY <2>3, <3>1, <3>2, <3>3
  <2> QED BY <2>2, <2>4, <2>5
<1> QED BY <1>1, <1>2

\* e is found at offset at of l.
Occurs(e, l, at) == \A i \in 1 .. Len(e) : e[i] = l[at + i]

\* e is the k-th entry of l, of size bytes.
IsEntry(e, size, l, k) ==
  /\ size \in {2, 4} /\ k \in Nat \ {0} /\ l \in Seq(Byte) /\ e \in Seq(Byte) /\ Len(e) = size
  /\ \E at \in Nat : at = size * (k - 1) /\ at + size <= Len(l) /\ Occurs(e, l, at)

\* An entry is read off its own bytes.
LEMMA EntryAlone ==
  ASSUME NEW e, NEW size, NEW l, NEW k, IsEntry(e, size, l, k)
  PROVE  OffsetAt(size, l, k) = OffsetAt(size, e, 1)
<1>0. PICK at \in Nat : at = size * (k - 1) /\ at + size <= Len(l) /\ Occurs(e, l, at)
  BY DEF IsEntry
<1>1. Len(l) \in Nat /\ size \in {2, 4} /\ k \in Nat \ {0} /\ Len(e) = size
  BY LenProperties DEF IsEntry
<1>2. CASE size = 4
  <2>1. /\ Len(e) = 4 /\ 4 * k <= Len(l)
        /\ e[1] = l[4 * k - 3] /\ e[2] = l[4 * k - 2] /\ e[3] = l[4 * k - 1] /\ e[4] = l[4 * k]
    <3>1. Len(e) = 4 /\ \A i \in 1 .. 4 : e[i] = l[at + i]
      BY <1>0, <1>1, <1>2 DEF Occurs
    <3>2. e[1] = l[at + 1] /\ e[2] = l[at + 2] /\ e[3] = l[at + 3] /\ e[4] = l[at + 4]
      BY <3>1
    <3>3. /\ 4 * k <= Len(l) /\ at + 1 = 4 * k - 3 /\ at + 2 = 4 * k - 2
          /\ at + 3 = 4 * k - 1 /\ at + 4 = 4 * k
      BY <1>0, <1>1, <1>2
    <3> QED BY <3>1, <3>2, <3>3
  <2>2. /\ ByteOrZero(e, 4 * 1 - 3) = e[1] /\ ByteOrZero(e, 4 * 1 - 2) = e[2]
        /\ ByteOrZero(e, 4 * 1 - 1) = e[3] /\ ByteOrZero(e, 4 * 1) = e[4]
    BY <2>1 DEF ByteOrZero
  <2>3. /\ ByteOrZero(l, 4 * k - 3) = l[4 * k - 3] /\ ByteOrZero(l, 4 * k - 2) = l[4 * k - 2]
        /\ ByteOrZero(l, 4 * k - 1) = l[4 * k - 1] /\ ByteOrZero(l, 4 * k) = l[4 * k]
    BY <1>1, <2>1 DEF ByteOrZero
  <2> QED BY <1>2, <2>1, <2>2, <2>3 DEF OffsetAt, Word
<1>3. CASE size = 2
  <2>1. e[1] = l[2 * k - 1] /\ e[2] = l[2 * k - 1 + 1]
    <3>1. \A i \in 1 .. 2 : e[i] = l[at + i]
      BY <1>0, <1>1, <1>3 DEF Occurs
    <3>2. e[1] = l[at + 1] /\ e[2] = l[at + 2]
      BY <3>1
    <3>3. at + 1 = 2 * k - 1 /\ at + 2 = 2 * k - 1 + 1
      BY <1>0, <1>1, <1>3
    <3> QED BY <3>2, <3>3
  <2>2. U16At(e, 2 * 1 - 1) = U16At(l, 2 * k - 1)
    BY <2>1 DEF U16At
  <2> QED BY <1>3, <2>2 DEF OffsetAt
<1> QED BY <1>1, <1>2, <1>3

\* t is the table l of m entries with one for the offset n behind them.
Written(l, m, n, t) ==
  /\ l \in Seq(Byte) /\ m \in Nat /\ Len(l) = EntrySize * m
  /\ n \in Nat /\ n % 4 = 0 /\ Fits(n) /\ t = l \o LocaEntry(n)

\* Writing an entry keeps those before it and adds the offset written.
LEMMA EntryAdded ==
  ASSUME NEW l, NEW m, NEW n, NEW t, Written(l, m, n, t)
  PROVE  /\ t \in Seq(Byte) /\ Len(t) = EntrySize * (m + 1)
         /\ \A k \in 1 .. m : OffsetAt(EntrySize, t, k) = OffsetAt(EntrySize, l, k)
         /\ OffsetAt(EntrySize, t, m + 1) = n
<1>0. /\ l \in Seq(Byte) /\ m \in Nat /\ Len(l) = EntrySize * m
      /\ n \in Nat /\ n % 4 = 0 /\ Fits(n) /\ t = l \o LocaEntry(n)
  BY DEF Written
<1> USE <1>0
<1>1. PICK size \in {2, 4} : size = EntrySize
  BY DEF EntrySize
<1>2. PICK e : e = LocaEntry(n)
  OBVIOUS
<1>3. e \in Seq(Byte) /\ Len(e) = size
  BY <1>1, <1>2, EntryRead
<1>4. OffsetAt(size, e, 1) = n
  BY <1>1, <1>2, <1>3, EntryRead
<1>5. PICK a \in Nat : a = Len(l) /\ a = size * m /\ size * (m + 1) = a + size
  <2>1. Len(l) \in Nat /\ Len(l) = size * m
    BY <1>1, LenProperties
  <2>2. size * (m + 1) = Len(l) + size
    BY <2>1
  <2> QED BY <2>1, <2>2
<1>6. /\ t \in Seq(Byte) /\ Len(t) = a + size
      /\ \A i \in 1 .. a + size : t[i] = IF i <= a THEN l[i] ELSE e[i - a]
  <2>1. /\ t \in Seq(Byte) /\ Len(t) = Len(l) + Len(e)
        /\ \A i \in 1 .. Len(l) + Len(e) : t[i] = IF i <= Len(l) THEN l[i] ELSE e[i - Len(l)]
    BY <1>2, <1>3, ConcatProperties
  <2> QED BY <1>3, <1>5, <2>1
<1>7. OffsetAt(size, t, m + 1) = n
  <2>1. Occurs(e, t, a)
    <3> SUFFICES ASSUME NEW i \in 1 .. size PROVE e[i] = t[a + i]
      BY <1>3 DEF Occurs
    <3>1. a + i \in 1 .. a + size /\ ~(a + i <= a) /\ (a + i) - a = i
      OBVIOUS
    <3> QED BY <1>6, <3>1
  <2>2. m + 1 \in Nat \ {0} /\ a = size * ((m + 1) - 1) /\ a + size <= Len(t)
    <3>1. (m + 1) - 1 = m /\ m + 1 \in Nat \ {0}
      OBVIOUS
    <3> QED BY <1>5, <1>6, <3>1
  <2>3. IsEntry(e, size, t, m + 1)
    BY <1>3, <1>6, <2>1, <2>2 DEF IsEntry
  <2> QED BY <1>4, <2>3, EntryAlone
<1>8. ASSUME NEW k \in 1 .. m PROVE OffsetAt(size, t, k) = OffsetAt(size, l, k)
  <2>1. PICK at \in Nat : at = size * (k - 1)
    OBVIOUS
  <2>2. at + size <= a /\ k \in Nat \ {0}
    BY <1>5, <2>1
  <2>3. at \in Nat /\ at = size * (k - 1) /\ at + size <= Len(l) /\ at + size <= Len(t)
    BY <1>5, <1>6, <2>1, <2>2
  <2>4. PICK own : own = Slice(l, at, size)
    OBVIOUS
  <2>5. own \in Seq(Byte) /\ Len(own) = size /\ \A i \in 1 .. size : own[i] = l[at + i]
    <3>1. size \in Nat
      OBVIOUS
    <3> QED BY <2>3, <2>4, <3>1, SliceProperties, ZenonT(30)
  <2>6. Occurs(own, l, at)
    BY <2>5 DEF Occurs
  <2>7. Occurs(own, t, at)
    <3> SUFFICES ASSUME NEW i \in 1 .. size PROVE own[i] = t[at + i]
      BY <2>5 DEF Occurs
    <3>1. at + i \in 1 .. a + size /\ at + i <= a
      BY <2>2
    <3> QED BY <1>6, <2>5, <3>1
  <2>8. IsEntry(own, size, l, k)
    BY <2>2, <2>3, <2>5, <2>6 DEF IsEntry
  <2>9. IsEntry(own, size, t, k)
    BY <1>6, <2>2, <2>3, <2>5, <2>7 DEF IsEntry
  <2> QED BY <2>8, <2>9, EntryAlone
<1>9. Len(t) = size * (m + 1)
  BY <1>5, <1>6
<1> QED BY <1>1, <1>6, <1>7, <1>8, <1>9

-----------------------------------------------------------------------------
(* The tiles: n offsets in l divide the glyf table out from zero on.       *)

EndOf(size, l, out, n, k) == IF k < n THEN OffsetAt(size, l, k + 1) ELSE Len(out)

Tile(size, l, out, n, k) ==
  Slice(out, OffsetAt(size, l, k), EndOf(size, l, out, n, k) - OffsetAt(size, l, k))

Tiles(size, l, out, n) ==
  /\ size \in {2, 4} /\ l \in Seq(Byte) /\ out \in Seq(Byte) /\ n \in Nat /\ Len(l) = size * n
  /\ IF n = 0 THEN Len(out) = 0 ELSE OffsetAt(size, l, 1) = 0
  /\ \A k \in 1 .. n : /\ OffsetAt(size, l, k) \in Nat /\ OffsetAt(size, l, k) % 4 = 0
                       /\ OffsetAt(size, l, k) <= EndOf(size, l, out, n, k)
                       /\ EndOf(size, l, out, n, k) <= Len(out)

\* b is the buffer a with bytes behind it.
Extends(b, a) == /\ a \in Seq(Byte) /\ b \in Seq(Byte) /\ Len(a) <= Len(b)
                 /\ \A i \in 1 .. Len(a) : b[i] = a[i]

LEMMA ExtendsConcat ==
  ASSUME NEW a \in Seq(Byte), NEW b \in Seq(Byte)
  PROVE  Extends(a \o b, a)
<1>1. /\ a \o b \in Seq(Byte) /\ Len(a \o b) = Len(a) + Len(b)
      /\ Len(a) \in Nat /\ Len(b) \in Nat
      /\ \A i \in 1 .. Len(a) + Len(b) : (a \o b)[i] = IF i <= Len(a) THEN a[i] ELSE b[i - Len(a)]
  BY ConcatProperties, LenProperties
<1>2. ASSUME NEW i \in 1 .. Len(a) PROVE (a \o b)[i] = a[i]
  <2>1. i \in 1 .. Len(a) + Len(b) /\ i <= Len(a)
    BY <1>1
  <2> QED BY <1>1, <2>1
<1> QED BY <1>1, <1>2 DEF Extends

\* A tile that ends inside a is the same in what extends it.
LEMMA SliceOfExtended ==
  ASSUME NEW a, NEW b, Extends(b, a), NEW at \in Nat, NEW end \in Nat, at <= end, end <= Len(a)
  PROVE  Slice(b, at, end - at) = Slice(a, at, end - at)
<1>1. PICK n \in Nat : n = end - at
  OBVIOUS
<1>2. a \in Seq(Byte) /\ b \in Seq(Byte) /\ Len(a) \in Nat /\ Len(b) \in Nat /\ Len(a) <= Len(b)
      /\ \A i \in 1 .. Len(a) : b[i] = a[i]
  BY LenProperties DEF Extends
<1>3. at + n <= Len(a) /\ at + n <= Len(b)
  BY <1>1, <1>2
<1>4. \A i \in at + 1 .. at + n : b[i] = a[i]
  <2>1. \A i \in at + 1 .. at + n : i \in 1 .. Len(a)
    BY <1>2, <1>3
  <2> QED BY <1>2, <2>1
<1>5. Slice(b, at, n) = Slice(a, at, n)
  BY <1>2, <1>3, <1>4, SliceAgrees
<1> QED BY <1>1, <1>5

\* t is the table l of n offsets with one for the end of out behind them.
Opens(l, out, n, t) == /\ Tiles(EntrySize, l, out, n) /\ Len(out) % 4 = 0 /\ Fits(Len(out))
                       /\ t = l \o LocaEntry(Len(out))

\* Writing the offset of what comes next closes the last tile where it was and opens
\* an empty one.
LEMMA TileOpened ==
  ASSUME NEW l, NEW out, NEW n, NEW t, Opens(l, out, n, t)
  PROVE  /\ Tiles(EntrySize, t, out, n + 1) /\ OffsetAt(EntrySize, t, n + 1) = Len(out)
         /\ \A k \in 1 .. n :
              Tile(EntrySize, t, out, n + 1, k) = Tile(EntrySize, l, out, n, k)
<1>0. /\ Tiles(EntrySize, l, out, n) /\ Len(out) % 4 = 0 /\ Fits(Len(out))
      /\ t = l \o LocaEntry(Len(out))
  BY DEF Opens
<1> USE <1>0
<1>1. PICK size \in {2, 4} : size = EntrySize
  BY DEF EntrySize
<1>2. /\ l \in Seq(Byte) /\ out \in Seq(Byte) /\ n \in Nat /\ Len(l) = size * n
      /\ Len(out) \in Nat
  BY <1>1, LenProperties DEF Tiles
<1>3. /\ t \in Seq(Byte) /\ Len(t) = size * (n + 1)
      /\ \A k \in 1 .. n : OffsetAt(size, t, k) = OffsetAt(size, l, k)
      /\ OffsetAt(size, t, n + 1) = Len(out)
  <2>1. Written(l, n, Len(out), t)
    BY <1>1, <1>2 DEF Written
  <2>2. t \in Seq(Byte) /\ Len(t) = EntrySize * (n + 1)
    BY <2>1, EntryAdded
  <2>3. OffsetAt(EntrySize, t, n + 1) = Len(out)
    BY <2>1, EntryAdded, SMTT(20)
  <2>4. \A k \in 1 .. n : OffsetAt(EntrySize, t, k) = OffsetAt(EntrySize, l, k)
    BY <2>1, EntryAdded
  <2> QED BY <1>1, <2>2, <2>3, <2>4
<1>4. ASSUME NEW k \in 1 .. n PROVE EndOf(size, t, out, n + 1, k) = EndOf(size, l, out, n, k)
  <2>1. CASE k < n
    <3>1. k < n + 1 /\ k + 1 \in 1 .. n
      BY <1>2, <2>1
    <3> QED BY <1>3, <2>1, <3>1 DEF EndOf
  <2>2. CASE k = n
    <3>1. k < n + 1 /\ ~(k < n)
      BY <1>2, <2>2
    <3> QED BY <1>3, <2>2, <3>1 DEF EndOf
  <2> QED BY <1>2, <2>1, <2>2
<1>5. EndOf(size, t, out, n + 1, n + 1) = Len(out)
  BY <1>2 DEF EndOf
<1>6. ASSUME NEW k \in 1 .. n + 1
      PROVE  /\ OffsetAt(size, t, k) \in Nat /\ OffsetAt(size, t, k) % 4 = 0
             /\ OffsetAt(size, t, k) <= EndOf(size, t, out, n + 1, k)
             /\ EndOf(size, t, out, n + 1, k) <= Len(out)
  <2>1. CASE k = n + 1
    BY <1>2, <1>3, <1>5, <2>1
  <2>2. CASE k # n + 1
    <3>1. k \in 1 .. n
      BY <1>2, <2>2
    <3>2. /\ OffsetAt(size, l, k) \in Nat /\ OffsetAt(size, l, k) % 4 = 0
          /\ OffsetAt(size, l, k) <= EndOf(size, l, out, n, k)
          /\ EndOf(size, l, out, n, k) <= Len(out)
      BY <1>1, <3>1 DEF Tiles
    <3> QED BY <1>3, <1>4, <3>1, <3>2
  <2> QED BY <2>1, <2>2
<1>7. OffsetAt(size, t, 1) = 0
  <2>1. CASE n = 0
    BY <1>1, <1>3, <2>1 DEF Tiles
  <2>2. CASE n # 0
    <3>1. 1 \in 1 .. n /\ OffsetAt(size, l, 1) = 0
      BY <1>1, <1>2, <2>2 DEF Tiles
    <3> QED BY <1>3, <3>1
  <2> QED BY <2>1, <2>2
<1>8. n + 1 \in Nat /\ n + 1 # 0
  BY <1>2
<1>9. Tiles(size, t, out, n + 1)
  BY <1>2, <1>3, <1>6, <1>7, <1>8 DEF Tiles
<1>10. ASSUME NEW k \in 1 .. n PROVE Tile(size, t, out, n + 1, k) = Tile(size, l, out, n, k)
  BY <1>3, <1>4 DEF Tile
<1> QED BY <1>1, <1>3, <1>9, <1>10

\* What is written into the last tile leaves the others.
LEMMA TileGrown ==
  ASSUME NEW size, NEW l, NEW a, NEW n, Tiles(size, l, a, n), n # 0, NEW b, Extends(b, a)
  PROVE  /\ Tiles(size, l, b, n)
         /\ \A k \in 1 .. n - 1 : Tile(size, l, b, n, k) = Tile(size, l, a, n, k)
<1>1. /\ l \in Seq(Byte) /\ a \in Seq(Byte) /\ b \in Seq(Byte) /\ n \in Nat
      /\ Len(a) \in Nat /\ Len(b) \in Nat /\ Len(a) <= Len(b)
  BY LenProperties DEF Tiles, Extends
<1>2. \A k \in 1 .. n : /\ OffsetAt(size, l, k) \in Nat /\ OffsetAt(size, l, k) % 4 = 0
                        /\ OffsetAt(size, l, k) <= EndOf(size, l, a, n, k)
                        /\ EndOf(size, l, a, n, k) <= Len(a)
  BY DEF Tiles
<1>3. ASSUME NEW k \in 1 .. n - 1 PROVE EndOf(size, l, b, n, k) = EndOf(size, l, a, n, k)
  <2>1. k < n
    BY <1>1
  <2> QED BY <2>1 DEF EndOf
<1>4. EndOf(size, l, b, n, n) = Len(b) /\ EndOf(size, l, a, n, n) = Len(a)
  BY <1>1 DEF EndOf
<1>5. ASSUME NEW k \in 1 .. n
      PROVE  /\ OffsetAt(size, l, k) <= EndOf(size, l, b, n, k)
             /\ EndOf(size, l, b, n, k) <= Len(b)
  <2>1. PICK o \in Nat : o = OffsetAt(size, l, k) /\ o <= EndOf(size, l, a, n, k)
                         /\ EndOf(size, l, a, n, k) <= Len(a)
    BY <1>2
  <2>2. CASE k = n
    BY <1>1, <1>4, <2>1, <2>2
  <2>3. CASE k # n
    <3>1. k \in 1 .. n - 1 /\ k + 1 \in 1 .. n /\ k < n
      BY <1>1, <2>3
    <3>2. PICK e \in Nat : e = EndOf(size, l, a, n, k)
      BY <1>2, <3>1 DEF EndOf
    <3>3. EndOf(size, l, b, n, k) = e
      BY <1>3, <3>1, <3>2
    <3> QED BY <1>1, <2>1, <3>2, <3>3
  <2> QED BY <2>2, <2>3
<1>6. Tiles(size, l, b, n)
  BY <1>1, <1>2, <1>5 DEF Tiles
<1>7. ASSUME NEW k \in 1 .. n - 1 PROVE Tile(size, l, b, n, k) = Tile(size, l, a, n, k)
  <2>1. k \in 1 .. n /\ k + 1 \in 1 .. n /\ k < n
    BY <1>1
  <2>2. PICK at \in Nat, end \in Nat : /\ at = OffsetAt(size, l, k)
                                       /\ end = EndOf(size, l, a, n, k)
    BY <1>2, <2>1 DEF EndOf
  <2>3. at <= end /\ end <= Len(a)
    BY <1>2, <2>1, <2>2
  <2>4. EndOf(size, l, b, n, k) = end
    BY <1>3, <2>2
  <2>5. Slice(b, at, end - at) = Slice(a, at, end - at)
    BY <2>3, SliceOfExtended
  <2> QED BY <2>2, <2>4, <2>5 DEF Tile
<1> QED BY <1>6, <1>7

\* The last tile reaches from its offset to the end.
LEMMA LastTile ==
  ASSUME NEW size, NEW l, NEW out, NEW n, Tiles(size, l, out, n), n # 0,
         NEW at, at = OffsetAt(size, l, n)
  PROVE  /\ Tile(size, l, out, n, n) = Slice(out, at, Len(out) - at)
         /\ at \in Nat /\ at % 4 = 0 /\ at <= Len(out)
<1>1. n \in Nat /\ n \in 1 .. n /\ ~(n < n)
  BY DEF Tiles
<1>2. EndOf(size, l, out, n, n) = Len(out)
  BY <1>1 DEF EndOf
<1> QED BY <1>1, <1>2 DEF Tile, Tiles
-----------------------------------------------------------------------------
(* The inductive invariant. In a state that has opened the table, the      *)
(* contour stream has been read up to the glyph in progress, the offsets   *)
(* tile the glyf table, every glyph finished is in its tile, and the one in *)
(* progress has begun at the last offset.                                  *)

Streams == SimpleStreams \cup {"n_contour_stream", "composite_stream", "bbox_bitmap",
                               "overlap_bitmap", "trailer"}

DecoderType(d) == Holds(d, Streams) /\ {"num_glyphs", "index_format"} \subseteq DOMAIN d

Opened  == status \notin Errors \cup {"header", "panic"}
InGlyph == status \in {"counts", "points", "parsed", "components", "instructions"}

\* The glyphs whose offset has been written, and those whose contour count is read.
Entered == glyph_index + IF status \in {"streams", "glyphs"} THEN 0 ELSE 1
Counted == glyph_index + IF InGlyph THEN 1 ELSE 0

Types == /\ input \in Seq(Byte) /\ loca \in Seq(Byte) /\ output \in Seq(Byte)
         /\ DecoderType(decoder)
         /\ status = "header" => glyph_index = 0 /\ loca = << >> /\ output = << >>

Cursor == /\ StreamsComplete /\ decoder.num_glyphs = NumGlyphs
          /\ glyph_index \in Nat /\ glyph_index <= NumGlyphs
          /\ status \in {"streams", "glyphs", "ok"} \/ glyph_index < NumGlyphs
          /\ status = "ok" => glyph_index = NumGlyphs
          /\ 2 * Counted <= Len(Stream(1))
          /\ decoder.n_contour_stream = After(Stream(1), 2 * Counted)

Outlines ==
  /\ Tiles(EntrySize, loca, output, Entered)
  /\ \A k \in 1 .. glyph_index :
       Assembly!Has(Tile(EntrySize, loca, output, Entered, k), ContourCount(k))
  /\ status \in {"streams", "glyphs", "ok"} => Len(output) % 4 = 0
  /\ status = "ok" => OffsetAt(EntrySize, loca, Entered) = Len(output)

\* A glyph with c contours stands in out from offset at on: its bytes begin with the
\* number, -1 for a composite glyph, and there are none of a glyph without contours.
Marked(out, at, c) == /\ at + 2 <= Len(out)
                      /\ out[at + 1] = BigEndian16(c)[1] /\ out[at + 2] = BigEndian16(c)[2]
Headed(out, at, c) == \/ c = 0 /\ Len(out) = at
                      \/ c > 0 /\ Marked(out, at, c)
                      \/ c < 0 /\ Marked(out, at, -1)

Current(at, c) ==
  /\ status \in {"counts", "points"} =>
       c > 0 /\ Len(output) = at /\ call.number_of_contours = c /\ SimpleInv
  /\ status \in {"components", "instructions"} => c < 0 /\ Marked(output, at, -1)
  /\ status = "parsed" => Headed(output, at, c)

IInv == /\ Types
        /\ Opened => Cursor /\ Outlines
        /\ InGlyph => Current(OffsetAt(EntrySize, loca, glyph_index + 1),
                              ContourCount(glyph_index + 1))

LEMMA InputKept ==
  ASSUME input' = input
  PROVE  /\ StreamsComplete' <=> StreamsComplete
         /\ NumGlyphs' = NumGlyphs
         /\ \A n : Stream(n)' = Stream(n)
         /\ \A k : ContourCount(k)' = ContourCount(k)
         /\ Sizes' = Sizes
<1>1. NumGlyphs' = NumGlyphs /\ (HeaderComplete' <=> HeaderComplete)
  BY DEF NumGlyphs, HeaderComplete, BitmapSize
<1>2. Sizes' = Sizes
  BY DEF Sizes, OptionFlags, BitmapSize, NumGlyphs
<1>3. \A n : Taken(n)' = Taken(n)
  BY <1>2 DEF Taken
<1>4. \A n : Stream(n)' = Stream(n)
  BY <1>2, <1>3 DEF Stream
<1>5. StreamsComplete' <=> StreamsComplete
  BY <1>1, <1>3 DEF StreamsComplete
<1>6. \A k : ContourCount(k)' = ContourCount(k)
  BY DEF ContourCount
<1> QED BY <1>1, <1>2, <1>4, <1>5, <1>6

LEMMA EntrySizeKept ==
  ASSUME decoder'.index_format = decoder.index_format
  PROVE  EntrySize' = EntrySize
BY DEF EntrySize, LongLoca

\* A reader of the loca table finds the tiles.
LEMMA Read ==
  /\ Entries = Len(loca) \div EntrySize
  /\ \A k : LocaAt(k) = OffsetAt(EntrySize, loca, k)
  /\ \A k : EndAt(k) = EndOf(EntrySize, loca, output, Len(loca) \div EntrySize, k)
  /\ \A k : Region(k) = Tile(EntrySize, loca, output, Len(loca) \div EntrySize, k)
<1>1. Entries = Len(loca) \div EntrySize /\ \A k : LocaAt(k) = OffsetAt(EntrySize, loca, k)
  BY DEF Entries, LocaAt, OffsetAt, EntrySize
<1>2. \A k : EndAt(k) = EndOf(EntrySize, loca, output, Len(loca) \div EntrySize, k)
  BY <1>1 DEF EndAt, EndOf
<1>3. \A k : Region(k) = Tile(EntrySize, loca, output, Len(loca) \div EntrySize, k)
  BY <1>1, <1>2 DEF Region, Tile
<1> QED BY <1>1, <1>2, <1>3

LEMMA Quotient ==
  ASSUME NEW size \in {2, 4}, NEW n \in Nat
  PROVE  (size * n) \div size = n
<1>1. (2 * n) \div 2 = n /\ (4 * n) \div 4 = n
  OBVIOUS
<1> QED BY <1>1

LEMMA ReadNext ==
  \A k : Region(k)' = Tile(EntrySize', loca', output', Len(loca') \div EntrySize', k)
<1>1. Entries' = Len(loca') \div EntrySize'
      /\ \A k : LocaAt(k)' = OffsetAt(EntrySize', loca', k)
  BY DEF Entries, LocaAt, OffsetAt, EntrySize
<1>2. \A k : EndAt(k)' = EndOf(EntrySize', loca', output', Len(loca') \div EntrySize', k)
  BY <1>1 DEF EndAt, EndOf
<1> QED BY <1>1, <1>2 DEF Region, Tile

\* The glyphs a reader finds.
Shown == [k \in 1 .. glyph_index |-> Region(k)]

LEMMA SameShown ==
  ASSUME loca' = loca, output' = output, glyph_index' = glyph_index,
         decoder'.index_format = decoder.index_format
  PROVE  Shown' = Shown
<1>1. \A k : Region(k)' = Region(k)
  BY EntrySizeKept, Read, ReadNext
<1> QED BY <1>1 DEF Shown

LEMMA TilesShown ==
  ASSUME EntrySize' = EntrySize, NEW m, NEW n,
         Tiles(EntrySize, loca, output, m), Tiles(EntrySize, loca', output', n),
         NEW g, g = glyph_index,
         \A k \in 1 .. g : Tile(EntrySize, loca', output', n, k) = Tile(EntrySize, loca, output, m, k)
  PROVE  \A k \in 1 .. g : Region(k)' = Region(k)
<1>1. PICK size \in {2, 4} : size = EntrySize
  BY DEF EntrySize
<1>2. m \in Nat /\ n \in Nat /\ Len(loca) = size * m /\ Len(loca') = size * n
  BY <1>1 DEF Tiles
<1>3. Len(loca) \div size = m /\ Len(loca') \div size = n
  BY <1>2, Quotient
<1>4. \A k : Region(k) = Tile(EntrySize, loca, output, m, k)
  BY <1>1, <1>3, Read
<1>5. \A k : Region(k)' = Tile(EntrySize, loca', output', n, k)
  BY <1>1, <1>3, ReadNext
<1> QED BY <1>4, <1>5

\* A return with an error or a panic.
LEMMA Failed ==
  ASSUME IInv, input' = input, loca' \in Seq(Byte), output' \in Seq(Byte),
         DecoderType(decoder'), status' \in Errors \cup {"panic"}
  PROVE  IInv'
<1>1. ~Opened' /\ ~InGlyph' /\ status' # "header"
  BY DEF Opened, InGlyph, Errors
<1>2. Types'
  BY <1>1 DEF IInv, Types
<1> QED BY <1>1, <1>2 DEF IInv

LEMMA ReturnsFailed ==
  ASSUME IInv, NEW s \in Errors \cup {"panic"}, Return(s)
  PROVE  IInv' /\ Shown' = Shown
<1>1. /\ input' = input /\ loca' = loca /\ output' = output /\ decoder' = decoder
      /\ status' \in Errors \cup {"panic"}
  BY DEF Return
<1>2. Shown' = Shown
  BY SameShown DEF Return
<1> QED BY <1>1, <1>2, Failed DEF IInv, Types

\* A step inside a glyph.
LEMMA GlyphGrown ==
  ASSUME IInv, InGlyph, InGlyph', input' = input, loca' = loca, glyph_index' = glyph_index,
         Extends(output', output), DecoderType(decoder'),
         \A f \in {"n_contour_stream", "num_glyphs", "index_format"} : decoder'[f] = decoder[f],
         NEW at, at = OffsetAt(EntrySize, loca, glyph_index + 1),
         NEW c, c = ContourCount(glyph_index + 1), Current(at, c)'
  PROVE  IInv' /\ Shown' = Shown
<1>1. Opened /\ status \notin {"header", "streams", "glyphs", "ok"}
  BY DEF Opened, InGlyph, Errors
<1>2. Opened' /\ status' \notin {"header", "streams", "glyphs", "ok"}
  BY DEF Opened, InGlyph, Errors
<1>3. Entered = glyph_index + 1 /\ Entered' = glyph_index + 1 /\ Counted' = Counted
  BY <1>1, <1>2 DEF Entered, Counted
<1>4. EntrySize' = EntrySize
  BY EntrySizeKept
<1>5. Types'
  BY <1>2 DEF IInv, Types, Extends
<1>6. Cursor'
  <2>1. /\ StreamsComplete' /\ NumGlyphs' = NumGlyphs /\ Stream(1)' = Stream(1)
        /\ StreamsComplete /\ decoder.num_glyphs = NumGlyphs
        /\ glyph_index \in Nat /\ glyph_index < NumGlyphs
        /\ 2 * Counted <= Len(Stream(1))
        /\ decoder.n_contour_stream = After(Stream(1), 2 * Counted)
    BY <1>1, InputKept DEF IInv, Cursor
  <2>2. decoder'.num_glyphs = NumGlyphs /\ decoder'.n_contour_stream = After(Stream(1), 2 * Counted)
    BY <2>1
  <2>3. glyph_index <= NumGlyphs
    BY <1>1 DEF IInv, Cursor
  <2> QED BY <1>2, <1>3, <2>1, <2>2, <2>3 DEF Cursor
<1>7. PICK n \in Nat, g \in Nat : n = glyph_index + 1 /\ g = glyph_index /\ n - 1 = g /\ n # 0
  BY <1>1 DEF IInv, Cursor
<1>8. Tiles(EntrySize, loca, output, n)
  BY <1>1, <1>3, <1>7 DEF IInv, Outlines
<1>9. Tiles(EntrySize, loca, output', n)
      /\ \A k \in 1 .. g : Tile(EntrySize, loca, output', n, k) = Tile(EntrySize, loca, output, n, k)
  BY <1>7, <1>8, TileGrown
<1>10. Outlines'
  <2>1. \A k \in 1 .. g : Assembly!Has(Tile(EntrySize, loca, output', n, k), ContourCount(k))
    BY <1>1, <1>3, <1>7, <1>9 DEF IInv, Outlines
  <2> QED BY <1>2, <1>3, <1>4, <1>7, <1>9, <2>1, InputKept DEF Outlines
<1>11. Shown' = Shown
  <2>1. \A k \in 1 .. g : Region(k)' = Region(k)
    BY <1>4, <1>7, <1>8, <1>9, TilesShown
  <2> QED BY <1>7, <2>1 DEF Shown
<1>12. Current(OffsetAt(EntrySize, loca, glyph_index + 1), ContourCount(glyph_index + 1))'
  <2>1. OffsetAt(EntrySize, loca, glyph_index + 1)' = at /\ ContourCount(glyph_index + 1)' = c
    BY <1>4, InputKept
  <2> QED BY <2>1 DEF Current
<1> QED BY <1>2, <1>5, <1>6, <1>10, <1>11, <1>12 DEF IInv
-----------------------------------------------------------------------------
(* The beginning of a glyph.                                               *)

\* The count read is the next one of the table.
LEMMA ContourFound ==
  ASSUME IInv, CanParse
  PROVE  /\ Contours = ContourCount(glyph_index + 1) /\ IsI16(Contours)
         /\ Cursor /\ Outlines /\ glyph_index < NumGlyphs
         /\ 2 * (glyph_index + 1) <= Len(Stream(1))
         /\ After(decoder.n_contour_stream, 2) = After(Stream(1), 2 * (glyph_index + 1))
         /\ After(decoder.n_contour_stream, 2) \in Seq(Byte)
<1>1. /\ Cursor /\ Outlines /\ Counted = glyph_index /\ status = "glyphs"
      /\ glyph_index < NumGlyphs /\ 2 <= Len(decoder.n_contour_stream)
  BY DEF IInv, CanParse, AtGlyph, Opened, InGlyph, Errors, Counted, Cursor
<1>2. PICK g \in Nat : g = glyph_index
  BY <1>1 DEF Cursor
<1>3. PICK s \in Seq(Byte) : s = Stream(1) /\ Sizes[1] \in Nat /\ Len(s) = Sizes[1]
                             /\ GLYF_HEADER_SIZE + Sizes[1] <= Len(input)
                             /\ s = Slice(input, GLYF_HEADER_SIZE, Sizes[1])
  <2>1. input \in Seq(Byte) /\ StreamsComplete /\ 1 \in 1 .. 9 /\ 1 - 1 = 0
    BY <1>1 DEF IInv, Types, Cursor
  <2>2. /\ Taken(0) = 0 /\ Stream(1) \in Seq(Byte) /\ Len(Stream(1)) = Sizes[1] /\ Sizes[1] \in Nat
        /\ GLYF_HEADER_SIZE + Taken(1 - 1) + Sizes[1] <= Len(input)
    BY <2>1, StreamsType
  <2>3. Stream(1) = Slice(input, GLYF_HEADER_SIZE + Taken(1 - 1), Sizes[1])
    BY DEF Stream
  <2>4. GLYF_HEADER_SIZE + Taken(1 - 1) = GLYF_HEADER_SIZE
    BY <2>1, <2>2 DEF GLYF_HEADER_SIZE
  <2> QED BY <2>2, <2>3, <2>4
<1>4. PICK rest : rest = decoder.n_contour_stream /\ rest = After(s, 2 * g) /\ 2 * g <= Len(s)
  BY <1>1, <1>2, <1>3 DEF Cursor
<1>5. Len(s) \in Nat /\ 2 * g \in 0 .. Len(s)
  BY <1>4, LenProperties
<1>6. /\ rest \in Seq(Byte) /\ Len(rest) = Len(s) - 2 * g
      /\ \A i \in 1 .. Len(s) - 2 * g : rest[i] = s[2 * g + i]
  BY <1>4, <1>5, AfterProperties
<1>7. 2 \in 0 .. Len(s) - 2 * g /\ 2 \in 0 .. Len(rest) /\ 2 * g + 2 = 2 * (g + 1)
  BY <1>1, <1>4, <1>5, <1>6
<1>8. After(rest, 2) = After(s, 2 * (g + 1)) /\ After(rest, 2) \in Seq(Byte)
  BY <1>4, <1>5, <1>6, <1>7, AfterAfter, AfterProperties
<1>9. 2 * (g + 1) <= Len(s)
  BY <1>5, <1>7
<1>10. rest[1] = input[GLYF_HEADER_SIZE + (2 * g + 1)]
       /\ rest[1 + 1] = input[GLYF_HEADER_SIZE + (2 * g + 2)]
  <2>1. input \in Seq(Byte) /\ GLYF_HEADER_SIZE \in Nat
    BY DEF IInv, Types, GLYF_HEADER_SIZE
  <2>2. \A i \in 1 .. Sizes[1] : s[i] = input[GLYF_HEADER_SIZE + i]
    <3>1. PICK h \in Nat, z \in Nat : h = GLYF_HEADER_SIZE /\ z = Sizes[1]
      BY <1>3, <2>1
    <3>2. h + z <= Len(input) /\ s = Slice(input, h, z)
      BY <1>3, <3>1
    <3>3. \A i \in 1 .. z : Slice(input, h, z)[i] = input[h + i]
      BY <2>1, <3>1, <3>2, SliceProperties, ZenonT(30)
    <3> QED BY <3>1, <3>2, <3>3
  <2>3. rest[1] = s[2 * g + 1] /\ rest[2] = s[2 * g + 2]
    BY <1>6, <1>7
  <2>4. 2 * g + 1 \in 1 .. Sizes[1] /\ 2 * g + 2 \in 1 .. Sizes[1]
    BY <1>3, <1>5, <1>7
  <2> QED BY <2>2, <2>3, <2>4
<1>11. U16At(rest, 1) = U16At(input, GLYF_HEADER_SIZE + 2 * (g + 1) - 1)
  <2>1. /\ GLYF_HEADER_SIZE + 2 * (g + 1) - 1 = GLYF_HEADER_SIZE + (2 * g + 1)
        /\ (GLYF_HEADER_SIZE + (2 * g + 1)) + 1 = GLYF_HEADER_SIZE + (2 * g + 2)
    BY DEF GLYF_HEADER_SIZE
  <2> QED BY <1>10, <2>1 DEF U16At
<1>12. Contours = ContourCount(glyph_index + 1)
  BY <1>2, <1>4, <1>11 DEF Contours, ContourCount
<1>13. IsI16(Contours)
  <2>1. 1 < Len(rest) /\ 1 \in Nat \ {0}
    BY <1>1, <1>4, <1>6, LenProperties
  <2>2. U16At(rest, 1) \in Count
    BY <1>6, <2>1, U16AtType
  <2>3. U16At(rest, 1) \in Nat
    BY <2>2, CountType
  <2> QED BY <1>4, <2>3, I16Type DEF Contours
<1> QED BY <1>1, <1>2, <1>3, <1>4, <1>8, <1>9, <1>12, <1>13

LEMMA GlyphBegun ==
  ASSUME IInv, CanParse, EntryWritten, input' = input, glyph_index' = glyph_index,
         Extends(output', output), DecoderType(decoder'),
         decoder'.num_glyphs = decoder.num_glyphs, decoder'.index_format = decoder.index_format,
         decoder'.n_contour_stream = After(decoder.n_contour_stream, 2),
         status' \in {"parsed", "counts", "components"},
         NEW at, at = Len(output), NEW c, c = ContourCount(glyph_index + 1), Current(at, c)'
  PROVE  IInv' /\ Shown' = Shown
<1>1. /\ Cursor /\ Outlines /\ status = "glyphs" /\ Fits(Len(output))
      /\ Entered = glyph_index /\ loca' = loca \o LocaEntry(Len(output))
  BY ContourFound DEF CanParse, AtGlyph, Entered, EntryWritten, Cursor
<1>2. /\ Opened' /\ InGlyph' /\ status' \notin {"header", "streams", "glyphs", "ok"}
      /\ Entered' = glyph_index + 1 /\ Counted' = glyph_index + 1
  BY DEF Opened, InGlyph, Errors, Entered, Counted
<1>3. EntrySize' = EntrySize
  BY EntrySizeKept
<1>4. PICK n \in Nat, g \in Nat : n = glyph_index + 1 /\ g = glyph_index /\ n - 1 = g /\ n # 0
  BY <1>1 DEF Cursor
<1>5. /\ Tiles(EntrySize, loca', output, n) /\ OffsetAt(EntrySize, loca', n) = Len(output)
      /\ \A k \in 1 .. g : Tile(EntrySize, loca', output, n, k)
                                 = Tile(EntrySize, loca, output, g, k)
  <2>1. /\ Tiles(EntrySize, loca, output, g) /\ Len(output) % 4 = 0 /\ Fits(Len(output))
        /\ loca' = loca \o LocaEntry(Len(output)) /\ g + 1 = n
    BY <1>1, <1>4 DEF Outlines
  <2>2. PICK m : m = loca' /\ Opens(loca, output, g, m)
    BY <2>1 DEF Opens
  <2>3. Tiles(EntrySize, m, output, g + 1) /\ OffsetAt(EntrySize, m, g + 1) = Len(output)
    BY <2>2, TileOpened
  <2>4. ASSUME NEW k \in 1 .. g
        PROVE  Tile(EntrySize, m, output, g + 1, k) = Tile(EntrySize, loca, output, g, k)
    BY <2>2, TileOpened
  <2> QED BY <2>1, <2>2, <2>3, <2>4
<1>6. Tiles(EntrySize, loca', output', n)
      /\ \A k \in 1 .. g : Tile(EntrySize, loca', output', n, k)
                                 = Tile(EntrySize, loca', output, n, k)
  BY <1>4, <1>5, TileGrown
<1>7. Types'
  <2>1. loca' \in Seq(Byte)
    BY <1>6 DEF Tiles
  <2> QED BY <1>2, <2>1 DEF IInv, Types, Extends
<1>8. Cursor'
  <2>1. /\ StreamsComplete' /\ NumGlyphs' = NumGlyphs /\ Stream(1)' = Stream(1)
        /\ decoder.num_glyphs = NumGlyphs
        /\ glyph_index \in Nat /\ glyph_index <= NumGlyphs
    BY <1>1, InputKept DEF Cursor
  <2> QED BY <1>2, <2>1, ContourFound DEF Cursor
<1>9. Outlines'
  <2>1. \A k \in 1 .. g : Assembly!Has(Tile(EntrySize, loca', output', n, k), ContourCount(k))
    BY <1>1, <1>4, <1>5, <1>6 DEF Outlines
  <2>2. Tiles(EntrySize, loca, output, Entered)' /\ glyph_index' = g /\ Entered' = n
    BY <1>2, <1>3, <1>4, <1>6
  <2> QED BY <1>2, <1>3, <2>1, <2>2, InputKept DEF Outlines
<1>10. Current(OffsetAt(EntrySize, loca, glyph_index + 1), ContourCount(glyph_index + 1))'
  <2>1. OffsetAt(EntrySize, loca, glyph_index + 1)' = at /\ ContourCount(glyph_index + 1)' = c
    BY <1>3, <1>4, <1>5, InputKept
  <2> QED BY <2>1 DEF Current
<1>11. Shown' = Shown
  <2>1. Tiles(EntrySize, loca, output, g)
    BY <1>1, <1>4 DEF Outlines
  <2>2. \A k \in 1 .. g : Tile(EntrySize, loca', output', n, k) = Tile(EntrySize, loca, output, g, k)
    BY <1>5, <1>6
  <2>3. \A k \in 1 .. g : Region(k)' = Region(k)
    BY <1>3, <1>4, <1>6, <2>1, <2>2, TilesShown
  <2> QED BY <1>4, <2>3 DEF Shown
<1> QED BY <1>2, <1>7, <1>8, <1>9, <1>10, <1>11 DEF IInv
-----------------------------------------------------------------------------
(* The steps.                                                              *)

LEMMA ExtendsItself ==
  ASSUME NEW a \in Seq(Byte)
  PROVE  Extends(a, a)
<1>1. Len(a) \in Nat
  BY LenProperties
<1> QED BY <1>1 DEF Extends

LEMMA ExtendsTwice ==
  ASSUME NEW a, NEW b, NEW c, Extends(b, a), Extends(c, b)
  PROVE  Extends(c, a)
<1>1. /\ a \in Seq(Byte) /\ b \in Seq(Byte) /\ c \in Seq(Byte)
      /\ Len(a) \in Nat /\ Len(b) \in Nat /\ Len(c) \in Nat /\ Len(a) <= Len(b) /\ Len(b) <= Len(c)
      /\ \A i \in 1 .. Len(a) : b[i] = a[i]
      /\ \A i \in 1 .. Len(b) : c[i] = b[i]
  BY LenProperties DEF Extends
<1>2. \A i \in 1 .. Len(a) : i \in 1 .. Len(b)
  BY <1>1
<1> QED BY <1>1, <1>2 DEF Extends

LEMMA MarkedKept ==
  ASSUME NEW a, NEW b, Extends(b, a), NEW at \in Nat, NEW c, Marked(a, at, c)
  PROVE  Marked(b, at, c)
<1>1. /\ Len(a) \in Nat /\ Len(b) \in Nat /\ Len(a) <= Len(b) /\ at + 2 <= Len(a)
      /\ \A i \in 1 .. Len(a) : b[i] = a[i]
  BY LenProperties DEF Extends, Marked
<1>2. at + 1 \in 1 .. Len(a) /\ at + 2 \in 1 .. Len(a) /\ at + 2 <= Len(b)
  BY <1>1
<1> QED BY <1>1, <1>2 DEF Marked

\* A glyph appended stands behind what was there.
LEMMA GlyphAppended ==
  ASSUME NEW a \in Seq(Byte), NEW c \in Int, NEW g, Begins(g, BigEndian16(c))
  PROVE  Extends(a \o g, a) /\ Marked(a \o g, Len(a), c)
<1>1. /\ g \in Seq(Byte) /\ 2 <= Len(g) /\ g[1] = BigEndian16(c)[1] /\ g[2] = BigEndian16(c)[2]
  <2>1. Len(BigEndian16(c)) = 2
    BY PairType
  <2> QED BY <2>1 DEF Begins
<1>2. Len(a) \in Nat /\ Len(g) \in Nat
  BY <1>1, LenProperties
<1>3. /\ Len(a \o g) = Len(a) + Len(g)
      /\ \A i \in 1 .. Len(a) + Len(g) : (a \o g)[i] = IF i <= Len(a) THEN a[i] ELSE g[i - Len(a)]
  BY <1>1, ConcatProperties
<1>4. (a \o g)[Len(a) + 1] = g[1] /\ (a \o g)[Len(a) + 2] = g[2]
  <2>1. /\ Len(a) + 1 \in 1 .. Len(a) + Len(g) /\ ~(Len(a) + 1 <= Len(a))
        /\ Len(a) + 2 \in 1 .. Len(a) + Len(g) /\ ~(Len(a) + 2 <= Len(a))
        /\ (Len(a) + 1) - Len(a) = 1 /\ (Len(a) + 2) - Len(a) = 2
    BY <1>1, <1>2
  <2> QED BY <1>3, <2>1
<1>5. Len(a) + 2 <= Len(a \o g)
  BY <1>1, <1>2, <1>3
<1>6. Extends(a \o g, a)
  BY <1>1, ExtendsConcat
<1> QED BY <1>1, <1>4, <1>5, <1>6 DEF Marked

\* The glyph in progress.
LEMMA GlyphFacts ==
  ASSUME IInv, InGlyph, NEW at, at = OffsetAt(EntrySize, loca, glyph_index + 1),
         NEW c, c = ContourCount(glyph_index + 1)
  PROVE  /\ Current(at, c) /\ at \in Nat /\ at % 4 = 0 /\ at <= Len(output)
         /\ Cursor /\ Outlines /\ Entered = glyph_index + 1 /\ glyph_index \in Nat
<1>1. Cursor /\ Outlines /\ Entered = glyph_index + 1 /\ Current(at, c)
  BY DEF IInv, Opened, InGlyph, Errors, Entered
<1>2. glyph_index \in Nat /\ glyph_index + 1 # 0
  BY <1>1 DEF Cursor
<1>3. PICK n : n = glyph_index + 1 /\ n # 0 /\ Tiles(EntrySize, loca, output, n)
  BY <1>1, <1>2 DEF Outlines
<1>4. at = OffsetAt(EntrySize, loca, n)
  BY <1>3
<1>5. at \in Nat /\ at % 4 = 0 /\ at <= Len(output)
  BY <1>3, <1>4, LastTile
<1> QED BY <1>1, <1>2, <1>5

\* An update of the streams leaves a decoder.
LEMMA StreamRead ==
  ASSUME NEW d, DecoderType(d), NEW f \in Streams, NEW b \in Seq(Byte),
         NEW e, e = [d EXCEPT ![f] = b]
  PROVE  /\ DecoderType(e) /\ e[f] = b
         /\ \A s \in DOMAIN d \ {f} : e[s] = d[s]
         /\ e.num_glyphs = d.num_glyphs /\ e.index_format = d.index_format
<1>1. f # "num_glyphs" /\ f # "index_format"
  BY DEF Streams, SimpleStreams
<1> QED BY <1>1 DEF DecoderType, Holds

LEMMA EmptyGlyphStep ==
  ASSUME IInv, EmptyGlyph
  PROVE  IInv' /\ Shown' = Shown
<1>1. /\ CanParse /\ Contours = 0 /\ EntryWritten /\ decoder' = ContourRead /\ status' = "parsed"
      /\ input' = input /\ glyph_index' = glyph_index /\ output' = output
  BY DEF EmptyGlyph
<1>2. After(decoder.n_contour_stream, 2) \in Seq(Byte) /\ ContourCount(glyph_index + 1) = 0
  BY <1>1, ContourFound
<1>3. /\ DecoderType(decoder') /\ decoder'.num_glyphs = decoder.num_glyphs
      /\ decoder'.index_format = decoder.index_format
      /\ decoder'.n_contour_stream = After(decoder.n_contour_stream, 2)
  BY <1>1, <1>2, StreamRead DEF ContourRead, Streams, IInv, Types
<1>4. PICK at, c : at = Len(output) /\ c = ContourCount(glyph_index + 1)
  OBVIOUS
<1>5. Current(at, c)'
  BY <1>1, <1>2, <1>4 DEF Current, Headed
<1>6. Extends(output', output)
  BY <1>1, ExtendsItself DEF IInv, Types
<1> QED BY <1>1, <1>3, <1>4, <1>5, <1>6, GlyphBegun

LEMMA BeginSimpleStep ==
  ASSUME IInv, BeginSimple
  PROVE  IInv' /\ Shown' = Shown
<1>1. /\ CanParse /\ Contours > 0 /\ EntryWritten /\ decoder' = ContourRead /\ status' = "counts"
      /\ input' = input /\ glyph_index' = glyph_index /\ output' = output
      /\ call' = [CallFor(Contours) EXCEPT !.decoder = ContourRead] /\ local' = S!Locals(decoder)
  BY DEF BeginSimple
<1>2. /\ After(decoder.n_contour_stream, 2) \in Seq(Byte)
      /\ ContourCount(glyph_index + 1) = Contours /\ IsI16(Contours)
  BY <1>1, ContourFound
<1>3. /\ DecoderType(decoder') /\ decoder'.num_glyphs = decoder.num_glyphs
      /\ decoder'.index_format = decoder.index_format
      /\ decoder'.n_contour_stream = After(decoder.n_contour_stream, 2)
  BY <1>1, <1>2, StreamRead DEF ContourRead, Streams, IInv, Types
<1>4. PICK at, c : at = Len(output) /\ c = ContourCount(glyph_index + 1)
  OBVIOUS
<1>5. call'.number_of_contours = Contours
  BY <1>1 DEF CallFor
<1>6. local' \in Locals /\ local'.contour = 0 /\ local'.counts = << >>
  <2>1. decoder.n_points_stream \in Seq(Byte)
    BY DEF IInv, Types, DecoderType, Holds, Streams, SimpleStreams
  <2>2. 0 \in Count /\ 0 \in I16 /\ 0 \in Nat /\ << >> \in Seq(Count) /\ << >> \in Seq(Byte)
        /\ << >> \in Boxes
    BY CountType, I16Elements, EmptySeq DEF Boxes
  <2> QED BY <1>1, <2>1, <2>2 DEF S!Locals, Locals
<1>7. SimpleInv'
  <2>1. Holds(decoder', SimpleStreams)
    BY <1>3 DEF DecoderType, Holds, Streams
  <2>2. local'.contour <= Len(local'.counts)
    BY <1>6, EmptySeq
  <2> QED BY <1>1, <1>2, <1>5, <1>6, <2>1, <2>2 DEF SimpleInv, IInv, Types
<1>8. Current(at, c)'
  BY <1>1, <1>2, <1>4, <1>5, <1>7 DEF Current
<1>9. Extends(output', output)
  BY <1>1, ExtendsItself DEF IInv, Types
<1> QED BY <1>1, <1>3, <1>4, <1>8, <1>9, GlyphBegun

LEMMA BeginCompositeStep ==
  ASSUME IInv, BeginComposite
  PROVE  IInv' /\ Shown' = Shown
<1> DEFINE p == BigEndian16(-1)
           box == SubSeq(decoder.bbox_stream, 1, 8)
           rest == After(decoder.bbox_stream, 8)
<1>1. /\ CanParse /\ Contours < 0 /\ EntryWritten /\ status' = "components"
      /\ Len(decoder.bbox_stream) >= 8
      /\ decoder' = [ContourRead EXCEPT !.bbox_stream = After(@, 8)]
      /\ input' = input /\ glyph_index' = glyph_index /\ output' = output \o p \o box
  BY DEF BeginComposite, AtComposite
<1>2. /\ After(decoder.n_contour_stream, 2) \in Seq(Byte)
      /\ ContourCount(glyph_index + 1) = Contours
  BY <1>1, ContourFound
<1>3. PICK d : d = ContourRead
  OBVIOUS
<1>4. /\ DecoderType(d) /\ d.num_glyphs = decoder.num_glyphs
      /\ d.index_format = decoder.index_format
      /\ d.n_contour_stream = After(decoder.n_contour_stream, 2)
      /\ d.bbox_stream = decoder.bbox_stream
  <2>1. /\ DecoderType(d) /\ d.num_glyphs = decoder.num_glyphs
        /\ d.index_format = decoder.index_format
        /\ d.n_contour_stream = After(decoder.n_contour_stream, 2)
    BY <1>2, <1>3, StreamRead DEF ContourRead, Streams, IInv, Types
  <2>2. "bbox_stream" \in DOMAIN decoder
    BY DEF IInv, Types, DecoderType, Holds, Streams, SimpleStreams
  <2>3. d.bbox_stream = decoder.bbox_stream
    BY <1>3, <2>2 DEF ContourRead
  <2> QED BY <2>1, <2>3
<1>5. decoder.bbox_stream \in Seq(Byte) /\ 8 \in 0 .. Len(decoder.bbox_stream)
  <2>1. decoder.bbox_stream \in Seq(Byte)
    BY DEF IInv, Types, DecoderType, Holds, Streams, SimpleStreams
  <2>2. Len(decoder.bbox_stream) \in Nat
    BY <2>1, LenProperties
  <2> QED BY <1>1, <2>1, <2>2
<1>6. box \in Seq(Byte) /\ rest \in Seq(Byte)
  BY <1>5, FrontProperties, AfterProperties
<1> HIDE DEF box, rest
<1>7. /\ DecoderType(decoder') /\ decoder'.num_glyphs = decoder.num_glyphs
      /\ decoder'.index_format = decoder.index_format
      /\ decoder'.n_contour_stream = After(decoder.n_contour_stream, 2)
  <2>1. decoder' = [d EXCEPT !.bbox_stream = rest]
    BY <1>1, <1>3, <1>4 DEF rest
  <2>2. "bbox_stream" \in Streams /\ "n_contour_stream" \in DOMAIN d \ {"bbox_stream"}
    BY <1>4 DEF DecoderType, Holds, Streams, SimpleStreams
  <2> QED BY <1>4, <1>6, <2>1, <2>2, StreamRead
<1>8. /\ output \in Seq(Byte) /\ p \in Seq(Byte) /\ Begins(p, BigEndian16(-1)) /\ -1 \in Int
  <2>1. output \in Seq(Byte) /\ p \in Seq(Byte) /\ -1 \in Int /\ Len(p) \in Nat
    <3>1. -1 \in Int
      OBVIOUS
    <3>2. p \in Seq(Byte) /\ Len(p) = 2
      BY <3>1, PairType
    <3> QED BY <3>1, <3>2 DEF IInv, Types
  <2> QED BY <2>1 DEF Begins
<1>9. Extends(output \o p, output) /\ Marked(output \o p, Len(output), -1)
  BY <1>8, GlyphAppended
<1> HIDE DEF p
<1>10. Extends(output', output \o p)
  <2>1. output \o p \in Seq(Byte)
    BY <1>9 DEF Extends
  <2> QED BY <1>1, <1>6, <2>1, ExtendsConcat
<1>11. Extends(output', output)
  BY <1>9, <1>10, ExtendsTwice
<1>12. PICK at, c : at = Len(output) /\ c = ContourCount(glyph_index + 1)
  OBVIOUS
<1>13. Marked(output', at, -1)
  <2>1. at \in Nat
    BY <1>8, <1>12, LenProperties
  <2> QED BY <1>9, <1>10, <1>12, <2>1, MarkedKept
<1>14. Current(at, c)'
  BY <1>1, <1>2, <1>12, <1>13 DEF Current
<1> QED BY <1>1, <1>7, <1>11, <1>12, <1>14, GlyphBegun

LEMMA ComponentStep ==
  ASSUME IInv, Component
  PROVE  IInv' /\ Shown' = Shown
<1> DEFINE s == decoder.composite_stream
           n == 2 + ComponentSize(FlagWord)
<1>1. /\ status = "components" /\ status' \in {"components", "instructions"}
      /\ input' = input /\ glyph_index' = glyph_index /\ loca' = loca
      /\ output' = output \o SubSeq(s, 1, n) /\ decoder' = [decoder EXCEPT !.composite_stream = After(s, n)]
      /\ Len(s) >= n
  BY DEF Component, ComponentComplete
<1>2. s \in Seq(Byte) /\ Len(s) \in Nat
  <2>1. s \in Seq(Byte)
    BY DEF IInv, Types, DecoderType, Holds, Streams, SimpleStreams
  <2> QED BY <2>1, LenProperties
<1>3. n \in Nat
  BY DEF ComponentSize, Scale
<1> HIDE DEF s, n
<1>4. SubSeq(s, 1, n) \in Seq(Byte) /\ After(s, n) \in Seq(Byte)
  <2>1. n \in 0 .. Len(s)
    BY <1>1, <1>2, <1>3
  <2> QED BY <1>2, <2>1, FrontProperties, AfterProperties
<1>5. InGlyph /\ InGlyph'
  BY <1>1 DEF InGlyph
<1>6. PICK at, c : at = OffsetAt(EntrySize, loca, glyph_index + 1) /\ c = ContourCount(glyph_index + 1)
  OBVIOUS
<1>7. at \in Nat /\ c < 0 /\ Marked(output, at, -1)
  BY <1>1, <1>5, <1>6, GlyphFacts DEF Current
<1>8. Extends(output', output)
  BY <1>1, <1>4, ExtendsConcat DEF IInv, Types
<1>9. Marked(output', at, -1)
  BY <1>7, <1>8, MarkedKept
<1>10. Current(at, c)'
  BY <1>1, <1>7, <1>9 DEF Current
<1>11. DecoderType(decoder')
       /\ \A f \in {"n_contour_stream", "num_glyphs", "index_format"} : decoder'[f] = decoder[f]
  <2>1. DecoderType(decoder) /\ "composite_stream" \in Streams
    BY DEF IInv, Types, Streams
  <2>2. \A f \in {"n_contour_stream", "num_glyphs", "index_format"} :
          f \in DOMAIN decoder \ {"composite_stream"}
    BY <2>1 DEF DecoderType, Holds, Streams, SimpleStreams
  <2> QED BY <1>1, <1>4, <2>1, <2>2, StreamRead
<1> QED BY <1>1, <1>5, <1>6, <1>8, <1>10, <1>11, GlyphGrown

LEMMA NoInstructionsStep ==
  ASSUME IInv, NoInstructions
  PROVE  IInv' /\ Shown' = Shown
<1>1. /\ status = "instructions" /\ status' = "parsed" /\ decoder' = decoder
      /\ input' = input /\ glyph_index' = glyph_index /\ loca' = loca /\ output' = output
  BY DEF NoInstructions, Return
<1>2. InGlyph /\ InGlyph'
  BY <1>1 DEF InGlyph
<1>3. PICK at, c : at = OffsetAt(EntrySize, loca, glyph_index + 1) /\ c = ContourCount(glyph_index + 1)
  OBVIOUS
<1>4. c < 0 /\ Marked(output, at, -1)
  BY <1>1, <1>2, <1>3, GlyphFacts DEF Current
<1>5. Current(at, c)'
  BY <1>1, <1>4 DEF Current, Headed
<1>6. Extends(output', output)
  BY <1>1, ExtendsItself DEF IInv, Types
<1>7. DecoderType(decoder')
  BY <1>1 DEF IInv, Types
<1> QED BY <1>1, <1>2, <1>3, <1>5, <1>6, <1>7, GlyphGrown

LEMMA InstructionsStep ==
  ASSUME IInv, Instructions
  PROVE  IInv' /\ Shown' = Shown
<1> DEFINE g == decoder.glyph_stream
           s == decoder.instruction_stream
           n == CodeValue(g)
           p == BigEndian16(n)
           front == SubSeq(s, 1, n)
<1>1. /\ status = "instructions" /\ status' = "parsed"
      /\ input' = input /\ glyph_index' = glyph_index /\ loca' = loca
      /\ CodeComplete(g) /\ Len(s) >= n /\ output' = output \o p \o front
      /\ decoder' = [decoder EXCEPT !.glyph_stream = After(g, CodeLength(g[1])),
                                    !.instruction_stream = After(s, n)]
  BY DEF Instructions, AtInstructions, InstructionsComplete, Length
<1>2. DecoderType(decoder) /\ g \in Seq(Byte) /\ s \in Seq(Byte) /\ Len(s) \in Nat
  <2>1. g \in Seq(Byte) /\ s \in Seq(Byte) /\ DecoderType(decoder)
    BY DEF IInv, Types, DecoderType, Holds, Streams, SimpleStreams
  <2> QED BY <2>1, LenProperties
<1>3. n \in Nat /\ CodeLength(g[1]) \in 0 .. Len(g)
  BY <1>1, <1>2, CodeType, CountType DEF Count
<1> HIDE DEF g, s, n
<1>4. n \in Int /\ n \in 0 .. Len(s)
  BY <1>1, <1>2, <1>3
<1>5. /\ front \in Seq(Byte) /\ After(s, n) \in Seq(Byte) /\ After(g, CodeLength(g[1])) \in Seq(Byte)
      /\ p \in Seq(Byte)
  BY <1>2, <1>3, <1>4, FrontProperties, AfterProperties, PairType
<1> HIDE DEF p, front
<1>6. InGlyph /\ InGlyph'
  BY <1>1 DEF InGlyph
<1>7. PICK at, c : at = OffsetAt(EntrySize, loca, glyph_index + 1) /\ c = ContourCount(glyph_index + 1)
  OBVIOUS
<1>8. at \in Nat /\ c < 0 /\ Marked(output, at, -1)
  BY <1>1, <1>6, <1>7, GlyphFacts DEF Current
<1>9. Extends(output', output)
  <2>1. Extends(output \o p, output)
    BY <1>5, ExtendsConcat DEF IInv, Types
  <2>2. output \o p \in Seq(Byte)
    BY <2>1 DEF Extends
  <2>3. Extends(output', output \o p)
    BY <1>1, <1>5, <2>2, ExtendsConcat
  <2> QED BY <2>1, <2>3, ExtendsTwice
<1>10. Marked(output', at, -1)
  BY <1>8, <1>9, MarkedKept
<1>11. Current(at, c)'
  BY <1>1, <1>8, <1>10 DEF Current, Headed
<1>12. DecoderType(decoder')
       /\ \A f \in {"n_contour_stream", "num_glyphs", "index_format"} : decoder'[f] = decoder[f]
  BY <1>1, <1>2, <1>5 DEF DecoderType, Holds, Streams, SimpleStreams
<1> QED BY <1>1, <1>6, <1>7, <1>9, <1>11, <1>12, GlyphGrown

LEMMA SimpleStepStep ==
  ASSUME IInv, SimpleStep
  PROVE  IInv' /\ Shown' = Shown
<1>1. S!Next /\ input' = input /\ glyph_index' = glyph_index /\ loca' = loca
  BY DEF SimpleStep
<1>2. status \in {"counts", "points"}
  BY <1>1 DEF S!Next, S!TakeCount, S!CountTruncated, S!CountsCommitted, S!Contour, S!Point,
    S!PointTruncated, S!Finish, S!TailTruncated, S!CountsLeft, S!CountsTaken, S!AtContour,
    S!AtPoint, S!AllPoints
<1>3. InGlyph
  BY <1>2 DEF InGlyph
<1>4. PICK at, c : at = OffsetAt(EntrySize, loca, glyph_index + 1) /\ c = ContourCount(glyph_index + 1)
  OBVIOUS
<1>5. c > 0 /\ Len(output) = at /\ call.number_of_contours = c /\ SimpleInv
  BY <1>2, <1>3, <1>4, GlyphFacts DEF Current
<1>6. SimpleInv' /\ Kept /\ call' = call
  BY <1>1, <1>5, SimpleStepType
<1>7. DecoderType(decoder')
      /\ \A f \in {"n_contour_stream", "num_glyphs", "index_format"} : decoder'[f] = decoder[f]
  <2>1. DecoderType(decoder) /\ Holds(decoder', SimpleStreams)
    BY <1>6 DEF SimpleInv, IInv, Types
  <2>2. \A f \in Streams \ SimpleStreams : decoder'[f] \in Seq(Byte)
    BY <1>6, <2>1 DEF Kept, DecoderType, Holds
  <2>3. \A f \in {"n_contour_stream", "num_glyphs", "index_format"} :
          f \in DOMAIN decoder \ SimpleStreams
    BY <2>1 DEF DecoderType, Holds, Streams, SimpleStreams
  <2> QED BY <1>6, <2>1, <2>2, <2>3 DEF Kept, DecoderType, Holds
<1>8. CASE status' \in {"Truncated", "panic"}
  <2>1. status' \in Errors \cup {"panic"} /\ loca' \in Seq(Byte) /\ output' \in Seq(Byte)
    BY <1>1, <1>6, <1>8 DEF Errors, IInv, Types, SimpleInv
  <2>2. output' = output
    BY <1>1, <1>5, <1>8, SimpleStepType
  <2>3. Shown' = Shown
    BY <1>1, <1>7, <2>2, SameShown
  <2> QED BY <1>1, <1>7, <2>1, <2>3, Failed
<1>9. CASE status' \in {"counts", "points"} /\ output' = output
  <2>1. InGlyph' /\ Extends(output', output)
    BY <1>9, ExtendsItself DEF InGlyph, IInv, Types
  <2>2. Current(at, c)'
    BY <1>5, <1>6, <1>9 DEF Current
  <2> QED BY <1>1, <1>3, <1>4, <1>7, <2>1, <2>2, GlyphGrown
<1>10. CASE /\ status' = "parsed" /\ output' = output \o S!GlyphBytes
            /\ Begins(S!GlyphBytes, BigEndian16(call.number_of_contours))
  <2>1. c \in Int /\ output \in Seq(Byte)
    BY <1>5 DEF SimpleInv, IsI16
  <2>2. Extends(output', output) /\ Marked(output', at, c)
    BY <1>5, <1>10, <2>1, GlyphAppended
  <2>3. InGlyph' /\ Current(at, c)'
    BY <1>5, <1>10, <2>2 DEF InGlyph, Current, Headed
  <2> QED BY <1>1, <1>3, <1>4, <1>7, <2>2, <2>3, GlyphGrown
<1> QED BY <1>1, <1>5, <1>8, <1>9, <1>10, SimpleStepType

LEMMA ContourIsInt ==
  ASSUME input \in Seq(Byte), StreamsComplete, NEW k \in Nat \ {0}, 2 * k <= Len(Stream(1))
  PROVE  ContourCount(k) \in Int
<1>1. PICK z \in Nat : z = Sizes[1] /\ Len(Stream(1)) = z /\ GLYF_HEADER_SIZE + z <= Len(input)
  <2>1. 1 \in 1 .. 9 /\ 1 - 1 = 0
    OBVIOUS
  <2>2. /\ Taken(0) = 0 /\ Len(Stream(1)) = Sizes[1] /\ Sizes[1] \in Nat
        /\ GLYF_HEADER_SIZE + Taken(1 - 1) + Sizes[1] <= Len(input)
    BY <2>1, StreamsType
  <2> QED BY <2>1, <2>2 DEF GLYF_HEADER_SIZE
<1>2. PICK i \in Nat \ {0} : i = GLYF_HEADER_SIZE + 2 * k - 1
  BY DEF GLYF_HEADER_SIZE
<1>3. i < Len(input)
  BY <1>1, <1>2, LenProperties DEF GLYF_HEADER_SIZE
<1>4. U16At(input, i) \in Count
  BY <1>3, U16AtType
<1>5. U16At(input, i) \in Nat
  BY <1>4, CountType
<1>6. AsI16(U16At(input, i)) \in Int
  BY <1>5, I16Type DEF IsI16
<1> QED BY <1>2, <1>6 DEF ContourCount

LEMMA HasMeans ==
  ASSUME NEW g, NEW c
  PROVE  Assembly!Has(g, c) <=> /\ Len(g) % 4 = 0
                                /\ g = << >> <=> c = 0
                                /\ c > 0 => SubSeq(g, 1, 2) = BigEndian16(c)
                                /\ c < 0 => SubSeq(g, 1, 2) = BigEndian16(-1)
BY DEF Assembly!Has, Assembly!BigEndian16, BigEndian16

\* The bytes that stand marked begin the slice.
LEMMA MarkedSlice ==
  ASSUME NEW b \in Seq(Byte), NEW at \in Nat, NEW c \in Int, Marked(b, at, c),
         NEW g, g = Slice(b, at, Len(b) - at)
  PROVE  g # << >> /\ SubSeq(g, 1, 2) = BigEndian16(c)
<1>1. PICK n \in Nat : n = Len(b) - at /\ at + n <= Len(b) /\ 2 <= n
  BY LenProperties DEF Marked
<1>2. g \in Seq(Byte) /\ Len(g) = n /\ \A i \in 1 .. n : g[i] = b[at + i]
  BY <1>1, SliceProperties
<1>3. g[1] = BigEndian16(c)[1] /\ g[2] = BigEndian16(c)[2]
  <2>1. g[1] = b[at + 1] /\ g[2] = b[at + 2]
    BY <1>1, <1>2
  <2> QED BY <2>1 DEF Marked
<1>4. PICK s : s = SubSeq(g, 1, 2)
  OBVIOUS
<1>5. s \in Seq(Byte) /\ Len(s) = 2 /\ s[1] = g[1] /\ s[2] = g[2]
  <2>1. 2 \in 0 .. Len(g)
    BY <1>1, <1>2
  <2>2. s \in Seq(Byte) /\ Len(s) = 2 /\ \A i \in 1 .. 2 : s[i] = g[i]
    BY <1>2, <1>4, <2>1, FrontProperties
  <2> QED BY <2>2
<1>6. s = BigEndian16(c)
  <2>1. BigEndian16(c) \in Seq(Byte) /\ Len(BigEndian16(c)) = 2
    BY PairType
  <2>2. \A i \in 1 .. 2 : s[i] = BigEndian16(c)[i]
    <3>1. \A i \in 1 .. 2 : i = 1 \/ i = 2
      OBVIOUS
    <3> QED BY <1>3, <1>5, <3>1
  <2> QED BY <1>5, <2>1, <2>2, SeqEqual
<1>7. g # << >>
  BY <1>1, <1>2, EmptySeq
<1> QED BY <1>4, <1>6, <1>7

\* Padding the table makes the last tile a glyph.
LEMMA GlyphPadded ==
  ASSUME NEW a \in Seq(Byte), NEW at \in Nat, at % 4 = 0, at <= Len(a),
         NEW c \in Int, Headed(a, at, c), NEW b, b = pad_to_multiple_of_four(a)
  PROVE  /\ Extends(b, a) /\ Len(b) % 4 = 0
         /\ Assembly!Has(Slice(b, at, Len(b) - at), c)
<1>1. PICK la \in Nat, lb \in Nat : /\ la = Len(a) /\ lb = Len(b) /\ la <= lb
                                    /\ lb % 4 = 0 /\ (la % 4 = 0 => lb = la) /\ b \in Seq(Byte)
                                    /\ \A i \in 1 .. la : b[i] = a[i]
  <2>1. PICK n \in Nat : n = Len(a)
    BY LenProperties
  <2>2. /\ b \in Seq(Byte) /\ Len(b) = Padded(n) /\ \A i \in 1 .. n : b[i] = a[i]
    BY <2>1, PadProperties
  <2>3. Padded(n) \in Nat /\ Padded(n) % 4 = 0 /\ n <= Padded(n) /\ (n % 4 = 0 => Padded(n) = n)
    BY PaddedProperties
  <2> QED BY <2>1, <2>2, <2>3
<1>2. Extends(b, a)
  BY <1>1 DEF Extends
<1>3. PICK n \in Nat : n = Len(b) - at /\ at + n <= Len(b) /\ n % 4 = 0
  <2>1. at <= lb /\ lb % 4 = 0 /\ lb = Len(b)
    BY <1>1
  <2>2. PICK n \in Nat : n = lb - at
    BY <2>1
  <2>3. n % 4 = 0 /\ at + n <= lb
    BY <2>1, <2>2
  <2> QED BY <2>1, <2>2, <2>3
<1>4. PICK g : g = Slice(b, at, Len(b) - at)
  OBVIOUS
<1>5. g \in Seq(Byte) /\ Len(g) = n
  BY <1>1, <1>3, <1>4, SliceProperties, ZenonT(30)
<1>6. b \in Seq(Byte)
  BY <1>1
<1>7. CASE c = 0 /\ Len(a) = at
  <2>1. n = 0
    BY <1>1, <1>3, <1>7
  <2>2. g = << >>
    BY <1>5, <2>1, EmptySeq
  <2>3. Assembly!Has(g, c)
    BY <1>3, <1>5, <1>7, <2>2, HasMeans
  <2> QED BY <1>1, <1>2, <1>4, <2>3
<1>8. CASE c > 0 /\ Marked(a, at, c)
  <2>1. Marked(b, at, c)
    BY <1>2, <1>8, MarkedKept
  <2>2. g # << >> /\ SubSeq(g, 1, 2) = BigEndian16(c)
    BY <1>4, <1>6, <2>1, MarkedSlice, ZenonT(60)
  <2>3. Assembly!Has(g, c)
    BY <1>3, <1>5, <1>8, <2>2, HasMeans, SMTT(20)
  <2> QED BY <1>1, <1>2, <1>4, <2>3
<1>9. CASE c < 0 /\ Marked(a, at, -1)
  <2>1. Marked(b, at, -1) /\ -1 \in Int
    BY <1>2, <1>9, MarkedKept
  <2>2. g # << >> /\ SubSeq(g, 1, 2) = BigEndian16(-1)
    BY <1>4, <1>6, <2>1, MarkedSlice
  <2>3. Assembly!Has(g, c)
    BY <1>3, <1>5, <1>9, <2>2, HasMeans
  <2> QED BY <1>1, <1>2, <1>4, <2>3
<1> QED BY <1>7, <1>8, <1>9 DEF Headed

\* A glyph is padded: a reader finds it in the last region, and the others unchanged.
LEMMA GlyphDoneStep ==
  ASSUME IInv, GlyphDone, NEW g \in Nat, NEW n \in Nat, g = glyph_index, n = glyph_index + 1
  PROVE  /\ IInv'
         /\ \A k \in 1 .. g : Region(k)' = Region(k)
         /\ Assembly!Has(Region(n)', ContourCount(n))
<1>1. /\ status = "parsed" /\ output' = pad_to_multiple_of_four(output)
      /\ glyph_index' = glyph_index + 1 /\ status' = "glyphs"
      /\ input' = input /\ loca' = loca /\ decoder' = decoder
  BY DEF GlyphDone
<1>2. InGlyph
  BY <1>1 DEF InGlyph
<1>3. PICK at, c : at = OffsetAt(EntrySize, loca, glyph_index + 1) /\ c = ContourCount(glyph_index + 1)
  OBVIOUS
<1>4. /\ Headed(output, at, c) /\ at \in Nat /\ at % 4 = 0 /\ at <= Len(output)
      /\ Cursor /\ Outlines /\ Entered = glyph_index + 1
  BY <1>1, <1>2, <1>3, GlyphFacts DEF Current
<1>5. /\ Counted = glyph_index + 1 /\ glyph_index \in Nat /\ glyph_index < NumGlyphs
      /\ 2 * (glyph_index + 1) <= Len(Stream(1)) /\ StreamsComplete /\ input \in Seq(Byte)
  BY <1>1, <1>2, <1>4 DEF Counted, Cursor, IInv, Types
<1>6. n - 1 = g /\ n # 0
  OBVIOUS
<1>7. c \in Int
  BY <1>3, <1>5, <1>6, ContourIsInt
<1>8. /\ Extends(output', output) /\ Len(output') % 4 = 0
      /\ Assembly!Has(Slice(output', at, Len(output') - at), c)
  BY <1>1, <1>4, <1>7, GlyphPadded DEF IInv, Types
<1>9. /\ Tiles(EntrySize, loca, output', n)
      /\ \A k \in 1 .. g : Tile(EntrySize, loca, output', n, k) = Tile(EntrySize, loca, output, n, k)
  <2>1. Tiles(EntrySize, loca, output, n)
    BY <1>4, <1>6 DEF Outlines
  <2> QED BY <1>6, <1>8, <2>1, TileGrown
<1>10. Assembly!Has(Tile(EntrySize, loca, output', n, n), c)
  <2>1. Tile(EntrySize, loca, output', n, n) = Slice(output', at, Len(output') - at)
    BY <1>3, <1>6, <1>9, LastTile
  <2> QED BY <1>8, <2>1
<1>11. \A k \in 1 .. n : Assembly!Has(Tile(EntrySize, loca, output', n, k), ContourCount(k))
  <2> TAKE k \in 1 .. n
  <2>1. CASE k = n
    BY <1>3, <1>6, <1>10, <2>1
  <2>2. CASE k # n
    <3>1. k \in 1 .. g
      BY <1>6, <2>2
    <3> QED BY <1>4, <1>6, <1>9, <3>1 DEF Outlines
  <2> QED BY <2>1, <2>2
<1>12. /\ Opened' /\ ~InGlyph' /\ Entered' = n /\ Counted' = n /\ EntrySize' = EntrySize
       /\ glyph_index' = n
  <2>1. /\ Opened' /\ ~InGlyph' /\ Entered' = glyph_index' /\ Counted' = glyph_index'
    BY <1>1, <1>5 DEF Opened, InGlyph, Errors, Entered, Counted
  <2> QED BY <1>1, <1>6, <2>1, EntrySizeKept
<1>13. Types'
  BY <1>1, <1>8 DEF IInv, Types, Extends
<1>14. Cursor'
  <2>1. /\ StreamsComplete' /\ NumGlyphs' = NumGlyphs /\ Stream(1)' = Stream(1)
        /\ decoder'.num_glyphs = NumGlyphs
        /\ decoder'.n_contour_stream = After(Stream(1), 2 * n)
    BY <1>1, <1>4, <1>5, <1>6, InputKept DEF Cursor
  <2>2. glyph_index' \in Nat /\ glyph_index' <= NumGlyphs /\ 2 * n <= Len(Stream(1))
    <3>1. NumGlyphs \in Nat
      BY <1>5, SizesType, CountType DEF StreamsComplete
    <3> QED BY <1>5, <1>6, <1>12, <3>1
  <2> QED BY <1>1, <1>12, <2>1, <2>2 DEF Cursor
<1>15. Outlines'
  <2>1. \A k : ContourCount(k)' = ContourCount(k)
    BY <1>1, InputKept
  <2> QED BY <1>1, <1>8, <1>9, <1>11, <1>12, <2>1 DEF Outlines
<1>16. IInv'
  BY <1>12, <1>13, <1>14, <1>15 DEF IInv
<1>17. \A k \in 1 .. g : Region(k)' = Region(k)
  <2>1. Tiles(EntrySize, loca, output, n) /\ loca' = loca
    BY <1>1, <1>4, <1>6 DEF Outlines
  <2> QED BY <1>6, <1>9, <1>12, <2>1, TilesShown
<1>18. Region(n)' = Tile(EntrySize, loca, output', n, n)
  <2>1. PICK size \in {2, 4} : size = EntrySize
    BY DEF EntrySize
  <2>2. Len(loca) \div size = n
    BY <1>9, <2>1, Quotient DEF Tiles
  <2> QED BY <1>1, <1>12, <2>1, <2>2, ReadNext
<1>19. Assembly!Has(Region(n)', ContourCount(n))
  <2>1. PICK tile : tile = Tile(EntrySize, loca, output', n, n)
    OBVIOUS
  <2>2. Assembly!Has(tile, c) /\ Region(n)' = tile
    BY <1>10, <1>18, <2>1
  <2>3. c = ContourCount(n)
    BY <1>3
  <2> QED BY <2>2, <2>3
<1> QED BY <1>16, <1>17, <1>19

\* The last offset closes the last tile at the end of the table.
LEMMA FinishStep ==
  ASSUME IInv, Finish
  PROVE  IInv' /\ Shown' = Shown
<1>1. /\ status = "glyphs" /\ Fits(Len(output)) /\ glyph_index = decoder.num_glyphs
      /\ loca' = loca \o LocaEntry(Len(output')) /\ status' \in {"ok", "ExtraData"}
      /\ input' = input /\ glyph_index' = glyph_index /\ decoder' = decoder
      /\ output' = IF ~LongLoca /\ Len(output) % 2 = 1 THEN Append(output, 0) ELSE output
  BY DEF Finish
<1>2. /\ Cursor /\ Outlines /\ Entered = glyph_index /\ Counted = glyph_index
      /\ Len(output) % 4 = 0 /\ Types
  <2>1. Opened /\ ~InGlyph
    BY <1>1 DEF Opened, InGlyph, Errors
  <2>2. Cursor /\ Outlines /\ Types
    BY <2>1 DEF IInv
  <2>3. glyph_index \in Nat
    BY <2>2 DEF Cursor
  <2> QED BY <1>1, <2>1, <2>2, <2>3 DEF Entered, Counted, Outlines
<1>3. output' = output
  <2>1. Len(output) \in Nat
    BY <1>2, LenProperties DEF Types
  <2>2. Len(output) % 2 # 1
    BY <1>2, <2>1
  <2> QED BY <1>1, <2>2
<1>4. PICK n \in Nat, g \in Nat : n = glyph_index + 1 /\ g = glyph_index /\ g + 1 = n
  BY <1>2 DEF Cursor
<1>5. PICK m : m = loca' /\ Opens(loca, output, g, m)
  BY <1>1, <1>2, <1>3, <1>4 DEF Opens, Outlines
<1>6. Tiles(EntrySize, m, output, g + 1) /\ OffsetAt(EntrySize, m, g + 1) = Len(output)
  BY <1>5, TileOpened
<1>7. ASSUME NEW k \in 1 .. g
      PROVE  Tile(EntrySize, m, output, g + 1, k) = Tile(EntrySize, loca, output, g, k)
  BY <1>5, TileOpened
<1>8. loca' \in Seq(Byte)
  BY <1>5, <1>6 DEF Tiles
<1>9. Shown' = Shown
  <2>1. EntrySize' = EntrySize
    BY <1>1, EntrySizeKept
  <2>2. Tiles(EntrySize, loca, output, g)
    BY <1>2, <1>4 DEF Outlines
  <2>3. Tiles(EntrySize, loca', output', n)
    BY <1>3, <1>4, <1>5, <1>6
  <2>4. \A k \in 1 .. g : Tile(EntrySize, loca', output', n, k) = Tile(EntrySize, loca, output, g, k)
    BY <1>3, <1>4, <1>5, <1>7
  <2>5. \A k \in 1 .. g : Region(k)' = Region(k)
    BY <1>4, <2>1, <2>2, <2>3, <2>4, TilesShown
  <2> QED BY <1>1, <1>4, <2>5 DEF Shown
<1>10. CASE status' = "ExtraData"
  <2>1. status' \in Errors \cup {"panic"} /\ output' \in Seq(Byte) /\ DecoderType(decoder')
    BY <1>1, <1>2, <1>3, <1>10 DEF Errors, Types
  <2> QED BY <1>1, <1>8, <1>9, <2>1, Failed
<1>11. CASE status' = "ok"
  <2>1. /\ Opened' /\ ~InGlyph' /\ Entered' = n /\ Counted' = g /\ EntrySize' = EntrySize
        /\ glyph_index' = g
    <3>1. /\ Opened' /\ ~InGlyph' /\ Entered' = glyph_index' + 1 /\ Counted' = glyph_index' + 0
      BY <1>11 DEF Opened, InGlyph, Errors, Entered, Counted
    <3> QED BY <1>1, <1>4, <3>1, EntrySizeKept
  <2>2. Types'
    BY <1>1, <1>2, <1>3, <1>8, <1>11 DEF Types
  <2>3. Cursor'
    <3>1. /\ StreamsComplete' /\ NumGlyphs' = NumGlyphs /\ Stream(1)' = Stream(1)
          /\ decoder'.num_glyphs = NumGlyphs /\ g = NumGlyphs /\ 2 * g <= Len(Stream(1))
          /\ decoder'.n_contour_stream = After(Stream(1), 2 * g)
      BY <1>1, <1>2, <1>4, InputKept DEF Cursor
    <3>2. g <= NumGlyphs
      BY <3>1
    <3> QED BY <1>11, <2>1, <3>1, <3>2 DEF Cursor
  <2>4. Outlines'
    <3>1. \A k \in 1 .. g : Assembly!Has(Tile(EntrySize, m, output, n, k), ContourCount(k))
      BY <1>2, <1>4, <1>7 DEF Outlines
    <3>2. \A k : ContourCount(k)' = ContourCount(k)
      BY <1>1, InputKept
    <3> QED BY <1>2, <1>3, <1>4, <1>5, <1>6, <2>1, <3>1, <3>2 DEF Outlines
  <2> QED BY <1>9, <2>1, <2>2, <2>3, <2>4 DEF IInv
<1> QED BY <1>1, <1>10, <1>11

LEMMA NothingTiled ==
  ASSUME NEW size \in {2, 4}
  PROVE  Tiles(size, << >>, << >>, 0)
<1>1. << >> \in Seq(Byte) /\ Len(<< >>) = 0 /\ 0 \in Nat /\ size * 0 = 0
  BY EmptySeq
<1> QED BY <1>1 DEF Tiles

LEMMA NewStep ==
  ASSUME IInv, New
  PROVE  IInv' /\ Shown' = Shown
<1>1. /\ status = "header" /\ StreamsComplete /\ decoder' = NewDecoder /\ status' = "streams"
      /\ input' = input /\ glyph_index' = 0 /\ loca' = << >> /\ output' = << >>
      /\ input \in Seq(Byte) /\ Types
  BY DEF New, IInv, Types
<1>2. Stream(1) \in Seq(Byte) /\ Stream(2) \in Seq(Byte) /\ Stream(3) \in Seq(Byte)
      /\ Stream(4) \in Seq(Byte) /\ Stream(5) \in Seq(Byte) /\ Stream(6) \in Seq(Byte)
      /\ Stream(7) \in Seq(Byte) /\ Stream(8) \in Seq(Byte) /\ Stream(9) \in Seq(Byte)
      /\ After(input, GLYF_HEADER_SIZE + Taken(9)) \in Seq(Byte)
  BY <1>1, StreamsType
<1>3. DecoderType(decoder')
  <2> DEFINE n == U16At(input, 7)
             rest == After(input, GLYF_HEADER_SIZE + Taken(9))
             s(k) == Stream(k)
  <2>1. decoder' = [num_glyphs |-> NumGlyphs, index_format |-> n,
          n_contour_stream |-> s(1), n_points_stream |-> s(2), flag_stream |-> s(3),
          glyph_stream |-> s(4), composite_stream |-> s(5), bbox_bitmap |-> s(6),
          bbox_stream |-> s(7), instruction_stream |-> s(8), overlap_bitmap |-> s(9),
          trailer |-> rest]
    BY <1>1 DEF NewDecoder
  <2>2. /\ s(1) \in Seq(Byte) /\ s(2) \in Seq(Byte) /\ s(3) \in Seq(Byte) /\ s(4) \in Seq(Byte)
        /\ s(5) \in Seq(Byte) /\ s(6) \in Seq(Byte) /\ s(7) \in Seq(Byte) /\ s(8) \in Seq(Byte)
        /\ s(9) \in Seq(Byte) /\ rest \in Seq(Byte)
    BY <1>2
  <2> HIDE DEF n, rest, s
  <2> QED BY <2>1, <2>2 DEF DecoderType, Holds, Streams, SimpleStreams
<1>4. /\ Opened' /\ ~InGlyph' /\ Entered' = 0 /\ Counted' = 0
  BY <1>1 DEF Opened, InGlyph, Errors, Entered, Counted
<1>5. Types'
  <2>1. << >> \in Seq(Byte)
    BY EmptySeq
  <2> QED BY <1>1, <1>3, <2>1 DEF Types
<1>6. Cursor'
  <2>1. /\ StreamsComplete' /\ NumGlyphs' = NumGlyphs /\ Stream(1)' = Stream(1)
    BY <1>1, InputKept
  <2>2. NumGlyphs \in Nat /\ 0 <= NumGlyphs
    <3>1. NumGlyphs \in Count
      BY <1>1, SizesType DEF StreamsComplete
    <3>2. NumGlyphs \in Nat
      BY <3>1, CountType
    <3> QED BY <3>2
  <2>3. Len(Stream(1)) \in Nat /\ 2 * 0 = 0 /\ After(Stream(1), 0) = Stream(1)
    BY <1>2, LenProperties, AfterNothing
  <2>4. decoder'.num_glyphs = NumGlyphs /\ decoder'.n_contour_stream = Stream(1)
    BY <1>1 DEF NewDecoder
  <2> QED BY <1>1, <1>4, <2>1, <2>2, <2>3, <2>4 DEF Cursor
<1>7. Outlines'
  <2>1. EntrySize' \in {2, 4}
    BY DEF EntrySize
  <2>2. Tiles(EntrySize', << >>, << >>, 0)
    BY <2>1, NothingTiled
  <2>3. Len(<< >>) % 4 = 0
    BY EmptySeq
  <2> QED BY <1>1, <1>4, <2>2, <2>3 DEF Outlines
<1>8. Shown' = Shown
  <2>1. glyph_index = 0 /\ glyph_index' = 0 /\ \A k : k \notin 1 .. 0
    BY <1>1 DEF Types
  <2> QED BY <2>1 DEF Shown
<1> QED BY <1>4, <1>5, <1>6, <1>7, <1>8 DEF IInv

LEMMA ParseAllGlyphsStep ==
  ASSUME IInv, ParseAllGlyphs
  PROVE  IInv' /\ Shown' = Shown
<1>1. CASE Return("panic")
  BY <1>1, ReturnsFailed
<1>2. CASE Return("glyphs")
  <2>1. /\ status = "streams" /\ status' = "glyphs" /\ input' = input /\ glyph_index' = glyph_index
        /\ loca' = loca /\ output' = output /\ decoder' = decoder
    BY <1>2 DEF ParseAllGlyphs, Return
  <2>2. /\ Opened /\ Opened' /\ ~InGlyph' /\ Entered' = Entered /\ Counted' = Counted
        /\ EntrySize' = EntrySize
    BY <2>1, EntrySizeKept DEF Opened, InGlyph, Errors, Entered, Counted
  <2>3. Types'
    BY <2>1 DEF IInv, Types
  <2>4. Cursor'
    <3>1. /\ StreamsComplete' /\ NumGlyphs' = NumGlyphs /\ Stream(1)' = Stream(1) /\ Cursor
      BY <2>1, <2>2, InputKept DEF IInv, Cursor
    <3> QED BY <2>1, <2>2, <3>1 DEF Cursor
  <2>5. Outlines'
    <3>1. \A k : ContourCount(k)' = ContourCount(k)
      BY <2>1, InputKept
    <3> QED BY <2>1, <2>2, <3>1 DEF IInv, Outlines
  <2>6. Shown' = Shown
    BY <2>1, SameShown
  <2> QED BY <2>2, <2>3, <2>4, <2>5, <2>6 DEF IInv
<1> QED BY <1>1, <1>2 DEF ParseAllGlyphs
-----------------------------------------------------------------------------
(* The theorems.                                                           *)

LEMMA Invariance ==
  ASSUME IInv, [Next]_vars
  PROVE  IInv'
<1>1. CASE UNCHANGED vars
  <2>1. /\ input' = input /\ glyph_index' = glyph_index /\ loca' = loca /\ decoder' = decoder
        /\ call' = call /\ local' = local /\ output' = output /\ status' = status
    BY <1>1 DEF vars, simple
  <2>2. /\ (Opened' <=> Opened) /\ (InGlyph' <=> InGlyph) /\ Entered' = Entered /\ Counted' = Counted
        /\ EntrySize' = EntrySize
    BY <2>1, EntrySizeKept DEF Opened, InGlyph, Entered, Counted
  <2>3. Types' /\ (Opened => Cursor' /\ Outlines')
    <3>1. /\ (StreamsComplete' <=> StreamsComplete) /\ NumGlyphs' = NumGlyphs
          /\ Stream(1)' = Stream(1) /\ \A k : ContourCount(k)' = ContourCount(k)
      BY <2>1, InputKept
    <3>2. Types'
      BY <2>1 DEF IInv, Types
    <3>3. Opened => Cursor'
      BY <2>1, <2>2, <3>1 DEF IInv, Cursor
    <3>4. Opened => Outlines'
      BY <2>1, <2>2, <3>1 DEF IInv, Outlines
    <3> QED BY <3>2, <3>3, <3>4
  <2>4. InGlyph => Current(OffsetAt(EntrySize, loca, glyph_index + 1),
                           ContourCount(glyph_index + 1))'
    <3> SUFFICES ASSUME InGlyph
                 PROVE  Current(OffsetAt(EntrySize, loca, glyph_index + 1),
                                ContourCount(glyph_index + 1))'
      OBVIOUS
    <3>1. PICK at, c : /\ at = OffsetAt(EntrySize, loca, glyph_index + 1)
                       /\ c = ContourCount(glyph_index + 1)
      OBVIOUS
    <3>2. Current(at, c)
      BY <3>1 DEF IInv
    <3>3. Current(at, c)'
      BY <2>1, <3>2 DEF Current, SimpleInv
    <3>4. OffsetAt(EntrySize, loca, glyph_index + 1)' = at /\ ContourCount(glyph_index + 1)' = c
      BY <2>1, <2>2, <3>1, InputKept
    <3> QED BY <3>3, <3>4 DEF Current
  <2> QED BY <2>2, <2>3, <2>4 DEF IInv
<1>2. CASE \E s \in Errors \cup {"panic"} : Return(s)
  BY <1>2, ReturnsFailed
<1>3. ASSUME NewTruncated \/ OffsetPanics \/ ContourTruncated \/ CompositeGlyphWithoutBbox
             \/ BoxTruncated \/ ComponentTruncated \/ InstructionsTruncated
      PROVE  \E s \in Errors \cup {"panic"} : Return(s)
  BY <1>3 DEF NewTruncated, OffsetPanics, ContourTruncated, CompositeGlyphWithoutBbox, BoxTruncated,
     ComponentTruncated, InstructionsTruncated, Errors
<1>4. CASE GlyphDone
  <2>1. glyph_index \in Nat
    <3>1. Opened
      BY <1>4 DEF GlyphDone, Opened, Errors
    <3> QED BY <3>1 DEF IInv, Cursor
  <2> QED BY <1>4, <2>1, GlyphDoneStep
<1> QED BY <1>1, <1>2, <1>3, <1>4, NewStep, ParseAllGlyphsStep, EmptyGlyphStep, BeginSimpleStep,
           SimpleStepStep, BeginCompositeStep, ComponentStep, NoInstructionsStep,
           InstructionsStep, FinishStep DEF Next

LEMMA Initially ==
  ASSUME Init
  PROVE  IInv
<1>1. /\ input \in Seq(Byte) /\ glyph_index = 0 /\ loca = << >> /\ output = << >>
      /\ decoder = NoStreams /\ status = "header" /\ << >> \in Seq(Byte)
  BY InputAssumption, EmptySeq DEF Init
<1>2. DecoderType(decoder)
  BY <1>1 DEF NoStreams, DecoderType, Holds, Streams, SimpleStreams
<1>3. ~Opened /\ ~InGlyph
  BY <1>1 DEF Opened, InGlyph
<1> QED BY <1>1, <1>2, <1>3 DEF IInv, Types

\* IInv, which no step breaks, holds of every state the decoder reaches: what each
\* theorem below follows from.
THEOREM Inductive == Spec => []IInv
<1>1. IInv /\ [Next]_vars => IInv'
  BY Invariance
<1> QED BY <1>1, Initially, PTL DEF Spec

\* TypeOK: the outputs are bytes and the loop stays inside the glyphs of the header,
\* whatever the streams hold.
THEOREM TypesHold == Spec => []TypeOK
<1>1. IInv => TypeOK
  <2> SUFFICES ASSUME IInv PROVE TypeOK
    OBVIOUS
  <2>1. Started => glyph_index \in 0 .. NumGlyphs
    <3>1. Started => Opened
      BY DEF Started, Opened
    <3>2. Started => glyph_index \in Nat /\ glyph_index <= NumGlyphs /\ NumGlyphs \in Nat
      BY <3>1, SizesType, CountType DEF IInv, Cursor, Types, StreamsComplete
    <3> QED BY <3>2
  <2> QED BY <2>1 DEF TypeOK, IInv, Types
<1> QED BY <1>1, Inductive, PTL

\* LocaTilesGlyf: in either format the offsets written tile the glyf table.
THEOREM OffsetsTile == Spec => []LocaTilesGlyf
<1>1. IInv => LocaTilesGlyf
  <2> SUFFICES ASSUME IInv, Started PROVE LocaTilesGlyf
    BY DEF LocaTilesGlyf
  <2>1. Cursor /\ Outlines /\ Opened
        /\ Entered = glyph_index + IF status = "glyphs" THEN 0 ELSE 1
    BY DEF IInv, Started, Opened, Entered
  <2>2. PICK size \in {2, 4} : size = EntrySize
    BY DEF EntrySize
  <2>3. PICK n \in Nat, g \in Nat : n = Entered /\ g = glyph_index /\ (n = g \/ n = g + 1)
                                    /\ (status # "glyphs" => n = g + 1)
    BY <2>1 DEF Cursor
  <2>4. Tiles(size, loca, output, n) /\ Len(loca) \div size = n
    <3>1. Tiles(size, loca, output, n)
      BY <2>1, <2>2, <2>3 DEF Outlines
    <3>2. Len(loca) = size * n
      BY <3>1 DEF Tiles
    <3> QED BY <3>1, <3>2, Quotient
  <2>5. Entries = n
    BY <2>2, <2>4, Read
  <2>6. \A k : LocaAt(k) = OffsetAt(size, loca, k)
    BY <2>2, Read
  <2>7. \A k : EndAt(k) = EndOf(size, loca, output, n, k)
    BY <2>2, <2>4, Read
  <2>8. Entries > 0 => LocaAt(1) = 0
    BY <2>4, <2>5, <2>6 DEF Tiles
  <2>9. \A k \in 1 .. Entries : LocaAt(k) % 4 = 0 /\ LocaAt(k) <= EndAt(k)
    BY <2>4, <2>5, <2>6, <2>7 DEF Tiles
  <2>10. \A k \in 1 .. glyph_index : LocaAt(k) = EndAt(k) <=> ContourCount(k) = 0
    <3> TAKE k \in 1 .. glyph_index
    <3>1. Assembly!Has(Tile(size, loca, output, n, k), ContourCount(k))
      BY <2>1, <2>2, <2>3 DEF Outlines
    <3>2. PICK tile : tile = Tile(size, loca, output, n, k)
      OBVIOUS
    <3>3. tile = << >> <=> ContourCount(k) = 0
      BY <3>1, <3>2, HasMeans
    <3>4. k \in 1 .. n
      BY <2>3
    <3>5. PICK o \in Nat : o = OffsetAt(size, loca, k)
      BY <2>4, <3>4 DEF Tiles
    <3>6. PICK e \in Nat : e = EndOf(size, loca, output, n, k) /\ o <= e /\ e <= Len(output)
      <4>1. k < n => k + 1 \in 1 .. n
        BY <2>3, <3>4
      <4>2. Len(output) \in Nat
        BY <2>4, LenProperties DEF Tiles
      <4>3. EndOf(size, loca, output, n, k) \in Nat
        BY <2>4, <4>1, <4>2 DEF EndOf, Tiles
      <4> QED BY <2>4, <3>4, <3>5, <4>3 DEF Tiles
    <3>7. PICK length \in Nat : length = e - o
      BY <3>6
    <3>8. tile \in Seq(Byte) /\ Len(tile) = length
      <4>1. tile = Slice(output, o, length)
        BY <3>2, <3>5, <3>6, <3>7 DEF Tile
      <4>2. output \in Seq(Byte) /\ Len(output) \in Nat
        BY <2>4, LenProperties DEF Tiles
      <4>3. o + length <= Len(output)
        BY <3>6, <3>7, <4>2
      <4> QED BY <4>1, <4>2, <4>3, SliceProperties
    <3>9. tile = << >> <=> length = 0
      BY <3>8, EmptySeq
    <3>10. o = e <=> length = 0
      BY <3>7
    <3> QED BY <2>6, <2>7, <3>3, <3>5, <3>6, <3>9, <3>10
  <2>11. status = "ok" => Entries = NumGlyphs + 1 /\ LocaAt(Entries) = Len(output)
    BY <2>1, <2>2, <2>3, <2>5, <2>6 DEF Cursor, Outlines
  <2>12. Entries = glyph_index + IF status = "glyphs" THEN 0 ELSE 1
    BY <2>1, <2>3, <2>5
  <2> QED BY <2>8, <2>9, <2>10, <2>11, <2>12 DEF LocaTilesGlyf
<1> QED BY <1>1, Inductive, PTL
\* SimpleGlyph's TypeOK, of every call the decoder makes: in both profiles the locals
\* stay inside their integer types and the cursors of the loops inside the contours.
THEOREM LocalsFit == Spec => [](status \in {"counts", "points"} => S!TypeOK)
<1>1. Init => checks \in BOOLEAN
  BY DEF Init
<1>2. checks \in BOOLEAN /\ [Next]_vars => (checks \in BOOLEAN)'
  <2> SUFFICES ASSUME checks \in BOOLEAN, [Next]_vars PROVE checks' \in BOOLEAN
    OBVIOUS
  <2>1. S!Next => checks' = checks
    BY DEF S!Next, S!TakeCount, S!CountTruncated, S!CountsCommitted, S!Contour, S!Point,
      S!PointTruncated, S!Finish, S!TailTruncated, S!Return, S!Step
  <2>2. checks' = checks
    BY <2>1 DEF Next, vars, simple, New, NewTruncated, ParseAllGlyphs, OffsetPanics,
      ContourTruncated, EmptyGlyph, BeginSimple, SimpleStep, GlyphDone, CompositeGlyphWithoutBbox,
      BoxTruncated, BeginComposite, Component, ComponentTruncated, NoInstructions, Instructions,
      InstructionsTruncated, Finish, Return
  <2> QED BY <2>2
<1>3. IInv /\ checks \in BOOLEAN => (status \in {"counts", "points"} => S!TypeOK)
  <2> SUFFICES ASSUME IInv, checks \in BOOLEAN, status \in {"counts", "points"} PROVE S!TypeOK
    OBVIOUS
  <2>1. SimpleInv
    BY DEF IInv, InGlyph, Current
  <2>2. PICK l \in Locals : l = local /\ l.contour <= Len(l.counts)
    BY <2>1 DEF SimpleInv
  <2>3. S!U16 = U16 /\ S!Byte = Byte
    BY SameOperators
  <2>4. l.total \in 0 .. U16 - 1 /\ l.running \in 0 .. U16 - 1 /\ l.left \in 0 .. U16 - 1
    BY <2>2 DEF Locals, Count
  <2>5. S!InI16(l.x) /\ S!InI16(l.y)
    BY <2>2 DEF Locals, I16, IsI16, S!InI16
  <2>6. l.contour \in 0 .. Len(l.counts)
    <3>1. PICK n \in Nat : n = Len(l.counts)
      BY <2>2, LenProperties DEF Locals
    <3>2. l.contour \in Nat
      BY <2>2 DEF Locals
    <3> QED BY <2>2, <3>1, <3>2
  <2>7. \A s \in {output, l.ends, l.flags, l.xs, l.ys} : s \in Seq(Byte)
    BY <2>1, <2>2 DEF SimpleInv, Locals
  <2>8. status \in S!Statuses
    BY DEF S!Statuses
  <2> QED BY <2>2, <2>3, <2>4, <2>5, <2>6, <2>7, <2>8 DEF S!TypeOK
<1> QED BY <1>1, <1>2, <1>3, Inductive, PTL DEF Spec
-----------------------------------------------------------------------------
(* The refinement.                                                         *)

\* The abstract variables: OutlineAssembly's contours, glyphs (Shown) and outcome.
Expected == IF StreamsComplete THEN [k \in 1 .. Sizes[1] \div 2 |-> ContourCount(k)] ELSE << >>
Outcome  == IF status \in Errors \cup {"panic"} THEN "failed"
            ELSE IF status = "ok" THEN "ok" ELSE "decoding"

LEMMA Mapped ==
  /\ Assembly!Init <=> Shown = << >> /\ Outcome = "decoding"
  /\ Assembly!vars = <<Expected, Shown, Outcome>>
  /\ Assembly!Fail <=> Outcome' = "failed" /\ Shown' = Shown
  /\ Assembly!Complete <=> Outcome' = "ok" /\ Len(Shown) = Len(Expected) /\ Shown' = Shown
  /\ Assembly!AddGlyph <=>
       LET n == Len(Shown) + 1
       IN  /\ n <= Len(Expected) /\ Len(Shown') = n
           /\ SubSeq(Shown', 1, n - 1) = Shown /\ Assembly!Has(Shown'[n], Expected[n])
           /\ Outcome' = Outcome
  /\ Assembly!Next <=> /\ Outcome = "decoding" /\ Expected' = Expected
                       /\ Assembly!AddGlyph \/ Assembly!Complete \/ Assembly!Fail
BY DEF Assembly!Init, Assembly!vars, Assembly!Fail, Assembly!Complete, Assembly!AddGlyph,
   Assembly!Next, Shown, Expected, Outcome

\* In an opened state the counts are the contour stream's.
LEMMA ExpectedIs ==
  ASSUME IInv, Opened
  PROVE  /\ Cursor /\ glyph_index \in Nat
         /\ \E m \in Nat : /\ Len(Expected) = m /\ Len(Stream(1)) \in {2 * m, 2 * m + 1}
                           /\ \A k \in 1 .. m : Expected[k] = ContourCount(k)
<1>1. Cursor /\ StreamsComplete /\ glyph_index \in Nat /\ input \in Seq(Byte)
  BY DEF IInv, Cursor, Types
<1>2. PICK z \in Nat : z = Sizes[1] /\ Len(Stream(1)) = z
  <2>1. 1 \in 1 .. 9
    OBVIOUS
  <2> QED BY <1>1, <2>1, StreamsType
<1>3. PICK m \in Nat : m = z \div 2 /\ (z = 2 * m \/ z = 2 * m + 1)
  OBVIOUS
<1>4. Expected = [k \in 1 .. m |-> ContourCount(k)]
  BY <1>1, <1>2, <1>3 DEF Expected
<1>5. Len(Expected) = m /\ \A k \in 1 .. m : Expected[k] = ContourCount(k)
  BY <1>4
<1> QED BY <1>1, <1>2, <1>3, <1>5

LEMMA GlyphDoneMaps ==
  ASSUME IInv, GlyphDone, Expected' = Expected, Outcome' = Outcome
  PROVE  Assembly!AddGlyph
<1>1. status = "parsed" /\ glyph_index' = glyph_index + 1
  BY DEF GlyphDone
<1>2. Opened /\ Counted = glyph_index + 1
  BY <1>1 DEF Opened, Errors, Counted, InGlyph
<1>3. PICK m \in Nat : /\ Len(Expected) = m /\ Len(Stream(1)) \in {2 * m, 2 * m + 1}
                       /\ \A k \in 1 .. m : Expected[k] = ContourCount(k)
  BY <1>2, ExpectedIs
<1>4. PICK g \in Nat, n \in Nat : g = glyph_index /\ n = g + 1 /\ n - 1 = g
  BY <1>2, ExpectedIs
<1>5. n <= m /\ n \in 1 .. m
  <2>1. 2 * n <= Len(Stream(1))
    BY <1>2, <1>4, ExpectedIs DEF Cursor
  <2> QED BY <1>3, <1>4, <2>1
<1>6. Shown = [k \in 1 .. g |-> Region(k)] /\ Len(Shown) = g
  BY <1>4 DEF Shown
<1>7. PICK next : next = Shown'
  OBVIOUS
<1>8. next = [k \in 1 .. n |-> Region(k)']
  BY <1>1, <1>4, <1>7 DEF Shown
<1>9. Len(next) = n /\ (\A k \in 1 .. g : next[k] = Shown[k]) /\ next[n] = Region(n)'
  <2>1. \A k \in 1 .. g : Region(k)' = Region(k)
    <3>1. n = glyph_index + 1
      BY <1>4
    <3> QED BY <1>4, <3>1, GlyphDoneStep
  <2>2. \A k \in 1 .. g : k \in 1 .. n
    BY <1>4
  <2>3. n \in 1 .. n
    BY <1>4
  <2> QED BY <1>6, <1>8, <2>1, <2>2, <2>3
<1>10. SubSeq(next, 1, g) = Shown
  <2>1. PICK s : s = SubSeq(next, 1, g)
    OBVIOUS
  <2>2. s = [k \in 1 .. g |-> next[k]]
    BY <1>4, <2>1
  <2> QED BY <1>6, <1>9, <2>1, <2>2
<1>11. Assembly!Has(next[n], Expected[n])
  <2>1. n = glyph_index + 1
    BY <1>4
  <2>2. Assembly!Has(Region(n)', ContourCount(n))
    BY <1>4, <2>1, GlyphDoneStep
  <2>3. Expected[n] = ContourCount(n)
    BY <1>3, <1>5
  <2> QED BY <1>9, <2>2, <2>3
<1> QED BY <1>3, <1>4, <1>5, <1>6, <1>7, <1>9, <1>10, <1>11, Mapped

LEMMA StepMaps ==
  ASSUME IInv, [Next]_vars
  PROVE  [Assembly!Next]_(Assembly!vars)
<1>1. input' = input
  BY DEF Next, vars, simple, New, NewTruncated, ParseAllGlyphs, OffsetPanics, ContourTruncated,
    EmptyGlyph, BeginSimple, SimpleStep, GlyphDone, CompositeGlyphWithoutBbox, BoxTruncated,
    BeginComposite, Component, ComponentTruncated, NoInstructions, Instructions,
    InstructionsTruncated, Finish, Return
<1>2. Expected' = Expected
  BY <1>1, InputKept DEF Expected
<1>3. CASE UNCHANGED vars
  <2>1. Shown' = Shown
    BY <1>3, SameShown DEF vars, simple
  <2>2. Outcome' = Outcome
    BY <1>3 DEF vars, simple, Outcome
  <2> QED BY <1>2, <2>1, <2>2 DEF Assembly!vars, Shown, Expected, Outcome
<1>4. ASSUME Shown' = Shown, Outcome = "decoding", Outcome' \in {"decoding", "failed"}
      PROVE  [Assembly!Next]_(Assembly!vars)
  <2>1. CASE Outcome' = "decoding"
    BY <1>2, <1>4, <2>1 DEF Assembly!vars, Shown, Expected, Outcome
  <2>2. CASE Outcome' = "failed"
    <3>1. Assembly!Fail
      BY <1>4, <2>2, Mapped
    <3>2. Assembly!Next
      BY <1>2, <1>4, <3>1, Mapped
    <3> QED BY <3>2
  <2> QED BY <1>4, <2>1, <2>2
<1>5. CASE \E s \in Errors \cup {"panic"} : Return(s) /\ Outcome = "decoding"
  <2>1. Shown' = Shown
    BY <1>5, ReturnsFailed
  <2>2. Outcome' = "failed"
    BY <1>5 DEF Return, Outcome
  <2> QED BY <1>4, <1>5, <2>1, <2>2
<1>6. ASSUME NewTruncated \/ OffsetPanics \/ ContourTruncated \/ CompositeGlyphWithoutBbox
             \/ BoxTruncated \/ ComponentTruncated \/ InstructionsTruncated
      PROVE  \E s \in Errors \cup {"panic"} : Return(s) /\ Outcome = "decoding"
  BY <1>6 DEF NewTruncated, OffsetPanics, ContourTruncated, CompositeGlyphWithoutBbox, BoxTruncated,
     ComponentTruncated, InstructionsTruncated, AtComposite, CanParse, AtGlyph, AtInstructions,
     Errors, Outcome
<1>7. CASE \/ New \/ ParseAllGlyphs \/ EmptyGlyph \/ BeginSimple \/ BeginComposite \/ Component
           \/ NoInstructions \/ Instructions
  <2>1. Shown' = Shown
    BY <1>7, NewStep, ParseAllGlyphsStep, EmptyGlyphStep, BeginSimpleStep, BeginCompositeStep,
      ComponentStep, NoInstructionsStep, InstructionsStep
  <2>2. Outcome = "decoding" /\ Outcome' \in {"decoding", "failed"}
    BY <1>7 DEF New, ParseAllGlyphs, EmptyGlyph, BeginSimple, BeginComposite, AtComposite, CanParse,
      AtGlyph, Component, NoInstructions, Instructions, AtInstructions, Return, Errors, Outcome
  <2> QED BY <1>4, <2>1, <2>2
<1>8. CASE SimpleStep
  <2>1. Shown' = Shown
    BY <1>8, SimpleStepStep
  <2>2. Outcome = "decoding"
    BY <1>8 DEF SimpleStep, S!Next, S!TakeCount, S!CountTruncated, S!CountsCommitted, S!Contour,
      S!Point, S!PointTruncated, S!Finish, S!TailTruncated, S!CountsLeft, S!CountsTaken,
      S!AtContour, S!AtPoint, S!AllPoints, Errors, Outcome
  <2>3. Outcome' \in {"decoding", "failed"}
    BY <1>8 DEF SimpleStep, S!Next, S!TakeCount, S!CountTruncated, S!CountsCommitted, S!Contour,
      S!Point, S!PointTruncated, S!Finish, S!TailTruncated, S!Return, S!Step, Errors, Outcome
  <2> QED BY <1>4, <2>1, <2>2, <2>3
<1>9. CASE GlyphDone
  <2>1. Outcome = "decoding" /\ Outcome' = Outcome
    BY <1>9 DEF GlyphDone, Errors, Outcome
  <2> QED BY <1>2, <1>9, <2>1, GlyphDoneMaps, Mapped
<1>10. CASE Finish
  <2>1. Shown' = Shown /\ IInv'
    BY <1>10, FinishStep
  <2>2. Outcome = "decoding" /\ glyph_index' = glyph_index
        /\ status' = (IF HasReadAll THEN "ok" ELSE "ExtraData") /\ status = "glyphs"
    BY <1>10 DEF Finish, Errors, Outcome
  <2>3. CASE ~HasReadAll
    <3>1. Outcome' = "failed"
      BY <2>2, <2>3 DEF Outcome, Errors
    <3> QED BY <1>4, <2>1, <2>2, <3>1
  <2>4. CASE HasReadAll
    <3>1. Outcome' = "ok"
      BY <2>2, <2>4 DEF Outcome, Errors
    <3>2. Len(Shown) = Len(Expected)
      <4>1. Opened /\ Counted = glyph_index + 0 /\ decoder.n_contour_stream = << >>
        BY <2>2, <2>4 DEF Opened, Errors, Counted, InGlyph, HasReadAll
      <4>2. PICK m \in Nat : Len(Expected) = m /\ Len(Stream(1)) \in {2 * m, 2 * m + 1}
        BY <4>1, ExpectedIs
      <4>3. PICK g \in Nat : g = glyph_index
        BY <4>1, ExpectedIs
      <4>4. Stream(1) \in Seq(Byte) /\ 2 * g <= Len(Stream(1)) /\ After(Stream(1), 2 * g) = << >>
        <5>1. Cursor /\ input \in Seq(Byte) /\ StreamsComplete /\ 1 \in 1 .. 9
          BY <4>1, ExpectedIs DEF Cursor, IInv, Types
        <5>2. PICK s : s = Stream(1)
          OBVIOUS
        <5>3. s \in Seq(Byte)
          BY <5>1, <5>2, StreamsType
        <5>4. Counted = g
          BY <4>1, <4>3
        <5>5. 2 * g <= Len(s) /\ decoder.n_contour_stream = After(s, 2 * g)
          BY <5>1, <5>2, <5>4 DEF Cursor
        <5> QED BY <4>1, <5>2, <5>3, <5>5
      <4>5. Len(Stream(1)) = 2 * g
        <5>1. PICK z \in Nat : z = Len(Stream(1))
          BY <4>4, LenProperties
        <5>2. 2 * g \in 0 .. Len(Stream(1))
          BY <4>4, <5>1
        <5>3. Len(After(Stream(1), 2 * g)) = z - 2 * g
          BY <4>4, <5>1, <5>2, AfterProperties
        <5>4. Len(After(Stream(1), 2 * g)) = 0
          BY <4>4, EmptySeq
        <5> QED BY <5>1, <5>3, <5>4
      <4>6. g = m
        BY <4>2, <4>5
      <4>7. Len(Shown) = g
        BY <4>3 DEF Shown
      <4> QED BY <4>2, <4>6, <4>7
    <3> QED BY <1>2, <2>1, <2>2, <3>1, <3>2, Mapped
  <2> QED BY <2>3, <2>4
<1> QED BY <1>3, <1>5, <1>6, <1>7, <1>8, <1>9, <1>10 DEF Next

LEMMA InitMaps ==
  ASSUME Init
  PROVE  Assembly!Init
<1>1. glyph_index = 0 /\ status = "header"
  BY DEF Init
<1>2. Shown = << >>
  BY <1>1 DEF Shown
<1>3. Outcome = "decoding"
  BY <1>1 DEF Outcome, Errors
<1> QED BY <1>2, <1>3, Mapped

\* ImplementsAssembly: for every table the decoder implements OutlineAssembly. A glyph
\* that a reader finds between two offsets has the contours of its count and is never
\* written again, and success means a glyph for every count.
THEOREM Implements == Spec => ImplementsAssembly
<1>1. IInv /\ [Next]_vars => [Assembly!Next]_(Assembly!vars)
  BY StepMaps
<1>2. Init => Assembly!Init
  BY InitMaps
<1> QED BY <1>1, <1>2, Inductive, PTL DEF Spec, ImplementsAssembly, Assembly!Spec
=============================================================================
