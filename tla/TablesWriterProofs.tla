------------------------- MODULE TablesWriterProofs -------------------------
(***************************************************************************)
(* What TablesWriter guarantees for every directory, every data, every     *)
(* header size and every radix. The first part is about one push onto the  *)
(* records and the buffer, as constant-level lemmas, so that the push of a *)
(* glyf table and its loca table is two uses of them.                      *)
(***************************************************************************)
EXTENDS TablesWriter, ByteBufferProofs
-----------------------------------------------------------------------------
(* One push.                                                               *)

LEMMA AppendedProperties ==
  ASSUME NEW buffer \in Seq(Byte), NEW bytes \in Seq(Byte)
  PROVE  /\ Appended(buffer, bytes) \in Seq(Byte)
         /\ Len(Appended(buffer, bytes)) = Padded(Len(buffer) + Len(bytes))
         /\ Len(buffer) + Len(bytes) <= Len(Appended(buffer, bytes))
         /\ \A i \in 1 .. Len(buffer) : Appended(buffer, bytes)[i] = buffer[i]
         /\ Slice(Appended(buffer, bytes), Len(buffer), Len(bytes)) = bytes
<1> DEFINE joined == buffer \o bytes
           padded == pad_to_multiple_of_four(joined)
<1>1. Len(buffer) \in Nat /\ Len(bytes) \in Nat
  BY LenProperties
<1>2. /\ joined \in Seq(Byte) /\ Len(joined) = Len(buffer) + Len(bytes)
      /\ \A i \in 1 .. Len(buffer) + Len(bytes) :
           joined[i] = IF i <= Len(buffer) THEN buffer[i] ELSE bytes[i - Len(buffer)]
  BY ConcatProperties
<1> HIDE DEF joined
<1>3. /\ padded \in Seq(Byte) /\ Len(padded) = Padded(Len(joined))
      /\ \A i \in 1 .. Len(joined) : padded[i] = joined[i]
  BY <1>2, PadProperties
<1> HIDE DEF padded
<1>4. Len(buffer) + Len(bytes) <= Len(padded)
  BY <1>1, <1>2, <1>3 DEF Padded
<1>5. \A i \in 1 .. Len(buffer) : padded[i] = buffer[i]
  BY <1>1, <1>2, <1>3
<1>6. Slice(padded, Len(buffer), Len(bytes)) = bytes
  <2> DEFINE s == Slice(padded, Len(buffer), Len(bytes))
  <2>1. /\ s \in Seq(Byte) /\ Len(s) = Len(bytes)
        /\ \A i \in 1 .. Len(bytes) : s[i] = padded[Len(buffer) + i]
    BY <1>1, <1>3, <1>4, SliceProperties
  <2>2. \A i \in 1 .. Len(bytes) : padded[Len(buffer) + i] = bytes[i]
    <3> SUFFICES ASSUME NEW i \in 1 .. Len(bytes)
                 PROVE  padded[Len(buffer) + i] = bytes[i]
      OBVIOUS
    <3>1. /\ Len(buffer) + i \in 1 .. Len(buffer) + Len(bytes)
          /\ ~(Len(buffer) + i <= Len(buffer)) /\ Len(buffer) + i - Len(buffer) = i
      BY <1>1
    <3>2. joined[Len(buffer) + i] = bytes[i]
      BY <3>1, <1>2
    <3> QED BY <3>1, <3>2, <1>2, <1>3
  <2> HIDE DEF s
  <2>3. s = bytes
    BY <2>1, <2>2, SeqEqual
  <2> QED BY <2>3 DEF s
<1> QED BY <1>2, <1>3, <1>4, <1>5, <1>6 DEF Appended, padded, joined

LEMMA RecordFields ==
  ASSUME NEW r \in Record
  PROVE  r.offset \in Nat /\ r.length \in Nat
<1>1. r.offset \in 0 .. U32 - 1 /\ r.length \in 0 .. U32 - 1
  BY DEF Record
<1>2. \A n \in 0 .. U32 - 1 : n \in Nat
  BY WidthType
<1> QED BY <1>1, <1>2

LEMMA RecordOfType ==
  ASSUME NEW tag \in Tags, NEW bytes \in Seq(Byte), NEW buffer \in Seq(Byte)
  PROVE  RecordOf(tag, bytes, buffer) \in Record
<1>1. Len(bytes) % U32 \in 0 .. U32 - 1 /\ Len(buffer) % U32 \in 0 .. U32 - 1
  BY LenProperties, CastToU32
<1>2. calculate_checksum(bytes) \in 0 .. U32 - 1
  BY ChecksumType
<1> QED BY <1>1, <1>2 DEF RecordOf, Record

\* Where the k-th record has to start: behind the header or its predecessor.
StartOf(recs, h, k) == IF k = 1 THEN h ELSE Padded(recs[k-1].offset + recs[k-1].length)

\* The records tile the buffer from h on and have the checksums of their bytes.
Placed(recs, buffer, h) ==
  \A k \in 1 .. Len(recs) :
    /\ recs[k].offset % 4 = 0
    /\ recs[k].offset + recs[k].length <= Len(buffer)
    /\ recs[k].offset = StartOf(recs, h, k)
    /\ recs[k].checksum = calculate_checksum(Slice(buffer, recs[k].offset, recs[k].length))

\* The buffer ends where the next record would start.
Flush(recs, buffer, h) == Len(buffer) = StartOf(recs, h, Len(recs) + 1)

LEMMA FlushIsAligned ==
  ASSUME NEW recs \in Seq(Record), NEW buffer \in Seq(Byte), NEW h \in Nat, h % 4 = 0,
         Flush(recs, buffer, h)
  PROVE  Len(buffer) % 4 = 0
<1>1. CASE Len(recs) = 0
  BY <1>1 DEF Flush, StartOf
<1>2. CASE Len(recs) # 0
  <2>1. recs[Len(recs)] \in Record
    BY <1>2, LenProperties, ElementOfSeq
  <2>2. recs[Len(recs)].offset + recs[Len(recs)].length \in Nat
    BY <2>1, RecordFields
  <2>3. Len(recs) + 1 # 1 /\ Len(recs) + 1 - 1 = Len(recs)
    BY <1>2, LenProperties
  <2> QED BY <2>2, <2>3 DEF Flush, StartOf, Padded
<1> QED BY <1>1, <1>2

\* A push keeps the tiling, as long as the buffer stays below 4 GiB.
LEMMA PushKeepsPlaced ==
  ASSUME NEW recs \in Seq(Record), NEW buffer \in Seq(Byte), NEW h \in Nat, h % 4 = 0,
         NEW tag \in Tags, NEW bytes \in Seq(Byte),
         Len(Appended(buffer, bytes)) < U32,
         Placed(recs, buffer, h), Flush(recs, buffer, h)
  PROVE  /\ Placed(Append(recs, RecordOf(tag, bytes, buffer)), Appended(buffer, bytes), h)
         /\ Flush(Append(recs, RecordOf(tag, bytes, buffer)), Appended(buffer, bytes), h)
<1> DEFINE r == RecordOf(tag, bytes, buffer)
           recs2 == Append(recs, r)
           buffer2 == Appended(buffer, bytes)
           n == Len(recs)
<1>1. Len(buffer) \in Nat /\ Len(bytes) \in Nat /\ n \in Nat /\ U32 \in Nat
  BY LenProperties, WidthType
<1>2. /\ buffer2 \in Seq(Byte) /\ Len(buffer2) = Padded(Len(buffer) + Len(bytes))
      /\ Len(buffer) + Len(bytes) <= Len(buffer2)
      /\ \A i \in 1 .. Len(buffer) : buffer2[i] = buffer[i]
      /\ Slice(buffer2, Len(buffer), Len(bytes)) = bytes
  BY AppendedProperties
<1>3. r \in Record
  BY RecordOfType
<1>4. /\ r.offset = Len(buffer) /\ r.length = Len(bytes)
      /\ r.checksum = calculate_checksum(bytes)
  <2>1. Len(buffer) \in 0 .. U32 - 1 /\ Len(bytes) \in 0 .. U32 - 1
    BY <1>1, <1>2
  <2> QED BY <2>1, CastToU32 DEF RecordOf
<1> HIDE DEF r, buffer2
<1>5. /\ recs2 \in Seq(Record) /\ Len(recs2) = n + 1 /\ recs2[n + 1] = r
      /\ \A k \in 1 .. n : recs2[k] = recs[k]
  BY <1>3, AppendProperties
<1> HIDE DEF recs2
<1>6. ASSUME NEW k \in 1 .. n + 1 PROVE StartOf(recs2, h, k) = StartOf(recs, h, k)
  BY <1>1, <1>5, SMTT(20) DEF StartOf
<1>7. Flush(recs2, buffer2, h)
  <2>1. n + 2 # 1 /\ n + 2 - 1 = n + 1 /\ n + 1 + 1 = n + 2
    BY <1>1
  <2>2. StartOf(recs2, h, n + 2) = Padded(r.offset + r.length)
    BY <2>1, <1>5 DEF StartOf
  <2> QED BY <2>1, <2>2, <1>2, <1>4, <1>5 DEF Flush
<1>8. ASSUME NEW k \in 1 .. n + 1
      PROVE  /\ recs2[k].offset % 4 = 0
             /\ recs2[k].offset + recs2[k].length <= Len(buffer2)
             /\ recs2[k].offset = StartOf(recs2, h, k)
             /\ recs2[k].checksum
                  = calculate_checksum(Slice(buffer2, recs2[k].offset, recs2[k].length))
  <2>1. CASE k = n + 1
    <3>1. Len(buffer) % 4 = 0
      BY FlushIsAligned
    <3>2. StartOf(recs2, h, k) = Len(buffer)
      BY <2>1, <1>6 DEF Flush
    <3> QED BY <2>1, <3>1, <3>2, <1>2, <1>4, <1>5
  <2>2. CASE k # n + 1
    <3>1. k \in 1 .. n /\ recs2[k] = recs[k]
      BY <1>1, <1>5, <2>2
    <3>2. recs[k].offset \in Nat /\ recs[k].length \in Nat
      <4>1. recs[k] \in Record
        BY <3>1, ElementOfSeq
      <4> QED BY <4>1, RecordFields
    <3>3. /\ recs[k].offset % 4 = 0
          /\ recs[k].offset + recs[k].length <= Len(buffer)
          /\ recs[k].offset = StartOf(recs, h, k)
          /\ recs[k].checksum
               = calculate_checksum(Slice(buffer, recs[k].offset, recs[k].length))
      BY <3>1 DEF Placed
    <3>4. Len(buffer) <= Len(buffer2)
      BY <1>1, <1>2, LenProperties
    <3>5. Slice(buffer2, recs[k].offset, recs[k].length)
            = Slice(buffer, recs[k].offset, recs[k].length)
      <4>1. \A i \in recs[k].offset + 1 .. recs[k].offset + recs[k].length :
              buffer2[i] = buffer[i]
        <5> SUFFICES ASSUME NEW i \in recs[k].offset + 1 .. recs[k].offset + recs[k].length
                     PROVE  buffer2[i] = buffer[i]
          OBVIOUS
        <5>1. i \in 1 .. Len(buffer)
          BY <1>1, <3>2, <3>3, SMTT(20)
        <5> QED BY <5>1, <1>2
      <4>2. recs[k].offset + recs[k].length <= Len(buffer2)
        BY <1>1, <1>2, <3>2, <3>3, <3>4, LenProperties, SMTT(20)
      <4> QED BY <4>1, <4>2, <1>2, <3>2, <3>3, SliceAgrees, ZenonT(30)
    <3>6. recs[k].offset + recs[k].length <= Len(buffer2)
      BY <1>1, <1>2, <3>2, <3>3, <3>4, LenProperties, SMTT(20)
    <3> QED BY <3>1, <3>3, <3>5, <3>6, <1>6
  <2> QED BY <2>1, <2>2
<1>9. Placed(recs2, buffer2, h)
  BY <1>5, <1>8 DEF Placed
<1> QED BY <1>7, <1>9 DEF recs2, r, buffer2
-----------------------------------------------------------------------------
(* The values a step works with.                                           *)

LEMMA EntryAtNext ==
  ASSUME TypeOK, AtEntry
  PROVE  next \in 1 .. Len(tables) /\ tables[next] \in Entry
<1>1. next \in 1 .. Len(tables)
  BY LenProperties DEF TypeOK, AtEntry
<1> QED BY <1>1, ElementOfSeq DEF TypeOK

\* The loca entry found for a glyf entry is one, the first of those to come.
LEMMA NextLocaIsAhead ==
  ASSUME TypeOK, LocasAhead # {}
  PROVE  \E j \in LocasAhead : /\ NextLoca = tables[j] /\ NextLoca \in Entry
                              /\ NextLoca.tag = LOCA_TAG
                              /\ \A k \in LocasAhead : j <= k
<1>1. next \in Nat /\ Len(tables) \in Nat
  BY LenProperties DEF TypeOK
<1>2. LocasAhead \subseteq Nat
  BY <1>1 DEF LocasAhead
<1>3. \E j \in LocasAhead : \A k \in LocasAhead : j <= k
  BY <1>2, LeastNumber
<1> DEFINE first == CHOOSE j \in LocasAhead : \A k \in LocasAhead : j <= k
<1>4. first \in LocasAhead /\ \A k \in LocasAhead : first <= k
  BY <1>3
<1> HIDE DEF first
<1>5. tables[first] \in Entry /\ tables[first].tag = LOCA_TAG
  <2>1. first \in 1 .. Len(tables)
    BY <1>1, <1>4 DEF LocasAhead, TypeOK
  <2> QED BY <1>4, <2>1, ElementOfSeq DEF LocasAhead, TypeOK
<1> QED BY <1>4, <1>5 DEF NextLoca, first

LEMMA SourceType ==
  ASSUME TypeOK, NEW e \in Entry, InData(e)
  PROVE  Source(e) \in Seq(Byte) /\ Len(Source(e)) = e.src_length
<1>1. e.src_offset \in Nat /\ e.src_length \in Nat
  BY DEF Entry
<1> QED BY <1>1, SliceProperties DEF TypeOK, InData, Source

\* With its adjustment zeroed a head table keeps its length.
LEMMA ZeroAdjustmentType ==
  ASSUME NEW head_table \in Seq(Byte)
  PROVE  /\ set_checksum_adjustment(head_table, 0) \in Seq(Byte)
         /\ Len(set_checksum_adjustment(head_table, 0)) = Len(head_table)
         /\ \A i \in 9 .. 12 : i <= Len(head_table)
              => set_checksum_adjustment(head_table, 0)[i] = 0
<1> DEFINE z == BigEndian32(0)
<1>1. 0 \div U16 = 0 /\ 0 % U16 = 0 /\ 0 \div Radix = 0 /\ 0 % Radix = 0
  <2>1. ASSUME NEW d \in Nat, d > 0 PROVE 0 \div d = 0 /\ 0 % d = 0
    BY <2>1
  <2> QED BY <2>1, WidthType, RadixAssumption
<1>2. z \in Seq(Byte) /\ Len(z) = 4 /\ z[1] = 0 /\ z[2] = 0 /\ z[3] = 0 /\ z[4] = 0
  BY <1>1, BigEndian32Properties
<1> HIDE DEF z
<1>3. /\ Overwrite(head_table, 8, z) \in Seq(Byte)
      /\ Len(Overwrite(head_table, 8, z)) = Len(head_table)
  BY <1>2, OverwriteProperties
<1>4. ASSUME NEW i \in 9 .. 12, i <= Len(head_table) PROVE Overwrite(head_table, 8, z)[i] = 0
  <2>1. i \in 1 .. Len(head_table) /\ i \in 8 + 1 .. 8 + Len(z) /\ i - 8 \in 1 .. 4
    BY <1>2, <1>4, LenProperties
  <2>2. z[i - 8] = 0
    BY <1>2, <2>1
  <2> QED BY <2>1, <2>2, OverwriteAt
<1> QED BY <1>3, <1>4 DEF set_checksum_adjustment, z
-----------------------------------------------------------------------------
(* The inductive invariant. Layout says where tables are; to be preserved   *)
(* it needs to know that while the loop runs the buffer ends exactly where *)
(* the next table will start, which is what every padding is for.          *)

LayoutInv ==
  FitsU32 => /\ Placed(ttf_tables, out, header_end)
             /\ status = "writing" => Flush(ttf_tables, out, header_end)

\* However large the file grows, no record leads out of the buffer.
EndsInside ==
  \A k \in 1 .. Len(ttf_tables) : ttf_tables[k].offset + ttf_tables[k].length <= Len(out)

IInv == TypeOK /\ header_end % 4 = 0 /\ LayoutInv /\ EndsInside

\* No byte already written changes.
KeepsBytes == \A i \in 1 .. Len(out) : out'[i] = out[i]

\* What a step leaves behind that writes to the font.
Grown == /\ ttf_tables' \in Seq(Record) /\ out' \in Seq(Byte) /\ EndsInside' /\ KeepsBytes
         /\ FitsU32' => /\ FitsU32
                        /\ Placed(ttf_tables', out', header_end)
                        /\ Flush(ttf_tables', out', header_end)

\* A push keeps every record inside: the casts to u32 only make one smaller.
LEMMA PushEndsInside ==
  ASSUME NEW recs \in Seq(Record), NEW buffer \in Seq(Byte),
         NEW tag \in Tags, NEW bytes \in Seq(Byte),
         \A k \in 1 .. Len(recs) : recs[k].offset + recs[k].length <= Len(buffer),
         NEW recs2, recs2 = Append(recs, RecordOf(tag, bytes, buffer))
  PROVE  \A k \in 1 .. Len(recs2) :
           recs2[k].offset + recs2[k].length <= Len(Appended(buffer, bytes))
<1>1. /\ Len(buffer) \in Nat /\ Len(bytes) \in Nat /\ Len(recs) \in Nat
      /\ Len(Appended(buffer, bytes)) \in Nat
      /\ Len(buffer) + Len(bytes) <= Len(Appended(buffer, bytes))
  BY AppendedProperties, LenProperties
<1>2. /\ Len(recs2) = Len(recs) + 1 /\ recs2[Len(recs) + 1] = RecordOf(tag, bytes, buffer)
      /\ \A k \in 1 .. Len(recs) : recs2[k] = recs[k]
  BY RecordOfType, AppendProperties
<1>3. Len(buffer) % U32 <= Len(buffer) /\ Len(bytes) % U32 <= Len(bytes)
      /\ Len(buffer) % U32 \in Nat /\ Len(bytes) % U32 \in Nat
  <2>1. ASSUME NEW v \in Nat PROVE v % U32 <= v /\ v % U32 \in Nat
    BY WidthType
  <2> QED BY <1>1, <2>1
<1>4. ASSUME NEW k \in 1 .. Len(recs) PROVE recs[k].offset + recs[k].length \in Nat
  <2>1. recs[k] \in Record
    BY ElementOfSeq
  <2> QED BY <2>1, RecordFields
<1>5. ASSUME NEW k \in 1 .. Len(recs2)
      PROVE  recs2[k].offset + recs2[k].length <= Len(Appended(buffer, bytes))
  <2>1. CASE k = Len(recs) + 1
    BY <1>1, <1>2, <1>3, <2>1 DEF RecordOf
  <2>2. CASE k # Len(recs) + 1
    <3>1. k \in 1 .. Len(recs) /\ recs2[k] = recs[k]
      BY <1>1, <1>2, <2>2
    <3>2. recs[k].offset + recs[k].length <= Len(buffer)
      BY <3>1
    <3> QED BY <1>1, <1>4, <3>1, <3>2
  <2> QED BY <2>1, <2>2
<1> QED BY <1>5

LEMMA PushTableGrows ==
  ASSUME IInv, status = "writing", NEW tag \in Tags, NEW bytes \in Seq(Byte),
         PushTable(tag, bytes)
  PROVE  Grown
<1>1. /\ ttf_tables \in Seq(Record) /\ out \in Seq(Byte)
      /\ header_end \in Nat /\ header_end % 4 = 0
  BY DEF IInv, TypeOK
<1>2. /\ ttf_tables' = Append(ttf_tables, RecordOf(tag, bytes, out))
      /\ out' = Appended(out, bytes)
  BY DEF PushTable
<1>3. ttf_tables' \in Seq(Record)
  BY <1>1, <1>2, RecordOfType, AppendProperties
<1>4. out' \in Seq(Byte) /\ Len(out) <= Len(out')
  BY <1>1, <1>2, AppendedProperties, LenProperties
<1>5. ASSUME FitsU32' PROVE FitsU32
  BY <1>1, <1>4, <1>5, LenProperties, WidthType DEF FitsU32
<1>6. ASSUME FitsU32'
      PROVE  Placed(ttf_tables', out', header_end) /\ Flush(ttf_tables', out', header_end)
  <2>1. Placed(ttf_tables, out, header_end) /\ Flush(ttf_tables, out, header_end)
    BY <1>5, <1>6 DEF IInv, LayoutInv
  <2>2. Len(Appended(out, bytes)) < U32
    BY <1>2, <1>6 DEF FitsU32
  <2> QED BY <1>1, <1>2, <2>1, <2>2, PushKeepsPlaced
<1>7. EndsInside'
  BY <1>1, <1>2, PushEndsInside DEF IInv, EndsInside
<1>8. KeepsBytes
  BY <1>1, <1>2, AppendedProperties DEF KeepsBytes
<1> QED BY <1>3, <1>4, <1>5, <1>6, <1>7, <1>8 DEF Grown

LEMMA TwoAppends ==
  ASSUME NEW S, NEW s \in Seq(S), NEW a \in S, NEW b \in S
  PROVE  s \o <<a, b>> = Append(Append(s, a), b)
OBVIOUS

LEMMA PushOutlinesGrows ==
  ASSUME IInv, status = "writing", NEW glyf \in Seq(Byte), NEW loca \in Seq(Byte),
         PushOutlines(glyf, loca)
  PROVE  Grown
<1> DEFINE between == Appended(out, glyf)
           g == RecordOf(GLYF_TAG, glyf, out)
           l == RecordOf(LOCA_TAG, loca, between)
           recs == Append(ttf_tables, g)
<1>1. /\ ttf_tables \in Seq(Record) /\ out \in Seq(Byte)
      /\ header_end \in Nat /\ header_end % 4 = 0
      /\ GLYF_TAG \in Tags /\ LOCA_TAG \in Tags
  BY TagAssumption DEF IInv, TypeOK
<1>2. between \in Seq(Byte) /\ Len(out) <= Len(between)
  BY <1>1, AppendedProperties, LenProperties
<1>3. g \in Record
  BY <1>1, RecordOfType
<1>4. l \in Record
  BY <1>1, <1>2, RecordOfType
<1>5. recs \in Seq(Record)
  BY <1>1, <1>3, AppendProperties
<1>6. ttf_tables' = Append(recs, l) /\ out' = Appended(between, loca)
  BY <1>1, <1>3, <1>4, TwoAppends DEF PushOutlines
<1>7. ttf_tables' \in Seq(Record)
  BY <1>4, <1>5, <1>6, AppendProperties
<1>8. out' \in Seq(Byte) /\ Len(between) <= Len(out')
  BY <1>2, <1>6, AppendedProperties, LenProperties
<1>9. ASSUME FitsU32' PROVE FitsU32 /\ Len(between) < U32
  BY <1>1, <1>2, <1>8, <1>9, LenProperties, WidthType DEF FitsU32
<1>10. ASSUME FitsU32'
       PROVE  Placed(ttf_tables', out', header_end) /\ Flush(ttf_tables', out', header_end)
  <2>1. Placed(ttf_tables, out, header_end) /\ Flush(ttf_tables, out, header_end)
    BY <1>9, <1>10 DEF IInv, LayoutInv
  <2>2. Len(between) < U32 /\ Len(Appended(between, loca)) < U32
    BY <1>6, <1>9, <1>10 DEF FitsU32
  <2>3. Placed(recs, between, header_end) /\ Flush(recs, between, header_end)
    BY <1>1, <2>1, <2>2, PushKeepsPlaced
  <2> HIDE DEF recs, between
  <2>4. /\ Placed(Append(recs, l), Appended(between, loca), header_end)
        /\ Flush(Append(recs, l), Appended(between, loca), header_end)
    BY <1>1, <1>2, <1>5, <2>2, <2>3, PushKeepsPlaced
  <2> QED BY <1>6, <2>4
<1>11. EndsInside'
  <2>1. \A k \in 1 .. Len(recs) : recs[k].offset + recs[k].length <= Len(between)
    BY <1>1, PushEndsInside DEF IInv, EndsInside
  <2> HIDE DEF recs, between
  <2> QED BY <1>1, <1>2, <1>5, <1>6, <2>1, PushEndsInside DEF EndsInside
<1>12. KeepsBytes
  <2>1. \A i \in 1 .. Len(out) : between[i] = out[i]
    BY <1>1, AppendedProperties
  <2> HIDE DEF between
  <2>2. \A i \in 1 .. Len(between) : out'[i] = between[i]
    BY <1>2, <1>6, AppendedProperties
  <2>3. \A i \in 1 .. Len(out) : i \in 1 .. Len(between)
    BY <1>1, <1>2, LenProperties
  <2> QED BY <2>1, <2>2, <2>3 DEF KeepsBytes
<1> QED BY <1>7, <1>8, <1>9, <1>10, <1>11, <1>12 DEF Grown
-----------------------------------------------------------------------------
(* The invariant is inductive.                                             *)

LEMMA InitWithIInv ==
  ASSUME NEW t \in Seq(Entry), NEW d \in Seq(Byte), NEW h \in Nat, h % 4 = 0,
         InitWith(t, d, h)
  PROVE  IInv
<1>1. /\ t \in Seq(Entry) /\ d \in Seq(Byte) /\ h \in Nat /\ h % 4 = 0
  OBVIOUS
<1>2. out \in Seq(Byte) /\ Len(out) = header_end
  BY <1>1, ZerosProperties DEF InitWith
<1>3. ttf_tables \in Seq(Record) /\ Len(ttf_tables) = 0
  BY DEF InitWith
<1>4. next \in 1 .. Len(tables) + 1
  BY <1>1, LenProperties DEF InitWith
<1>5. TypeOK
  BY <1>1, <1>2, <1>3, <1>4 DEF InitWith, TypeOK, Statuses
<1>6. LayoutInv
  BY <1>2, <1>3 DEF LayoutInv, Placed, Flush, StartOf
<1>7. EndsInside
  BY <1>3 DEF EndsInside
<1> QED BY <1>1, <1>5, <1>6, <1>7 DEF IInv, InitWith

LEMMA InitIInv == Init => IInv
BY InitWithIInv, InputAssumption DEF Init

\* Writing to the font and stepping on, or changing only the status, keeps it.
LEMMA GrownAdvanceKeepsIInv ==
  ASSUME IInv, AtEntry, Grown, Advance
  PROVE  IInv' /\ KeepsBytes
<1>1. next' \in 1 .. Len(tables') + 1
  BY EntryAtNext, LenProperties DEF IInv, TypeOK, Advance
<1>2. TypeOK'
  BY <1>1 DEF IInv, TypeOK, Grown, Advance
<1>3. LayoutInv'
  BY DEF LayoutInv, Grown, Advance, FitsU32
<1> QED BY <1>2, <1>3 DEF IInv, Grown, Advance

LEMMA ReturnKeepsIInv ==
  ASSUME IInv, NEW s \in Statuses \ {"writing"}, Return(s), KeepFont
  PROVE  IInv' /\ KeepsBytes
<1>1. TypeOK'
  BY DEF IInv, TypeOK, Return, KeepFont
<1>2. LayoutInv'
  BY DEF IInv, LayoutInv, Return, KeepFont, FitsU32
<1>3. EndsInside'
  BY DEF IInv, EndsInside, KeepFont
<1>4. KeepsBytes
  BY DEF KeepFont, KeepsBytes
<1> QED BY <1>1, <1>2, <1>3, <1>4 DEF IInv, Return

LEMMA StepKeepsIInv == IInv /\ [Next]_vars => IInv' /\ KeepsBytes
<1> SUFFICES ASSUME IInv, [Next]_vars PROVE IInv' /\ KeepsBytes
  OBVIOUS
<1> USE DEF Statuses
<1>1. CASE TransformedGlyf
  <2>1. PICK g \in GlyfOutcomes : PushOutlines(g.glyf, g.loca)
    BY <1>1 DEF TransformedGlyf
  <2>2. Grown
    BY <1>1, <2>1, OutcomeAssumption, PushOutlinesGrows DEF TransformedGlyf, AtGlyf, AtEntry
  <2> QED BY <1>1, <2>2, GrownAdvanceKeepsIInv DEF TransformedGlyf, AtGlyf
<1>2. CASE GlyfDecodeFails
  <2>1. PICK s \in {"GlyfDecoderError", "glyf_panic"} : Return(s)
    BY <1>2 DEF GlyfDecodeFails
  <2> QED BY <1>2, <2>1, ReturnKeepsIInv DEF GlyfDecodeFails
<1>3. CASE PlainGlyf
  <2>1. tables[next] \in Entry
    BY <1>3, EntryAtNext DEF IInv, PlainGlyf, AtGlyf
  <2>2. NextLoca \in Entry
    BY <1>3, NextLocaIsAhead DEF IInv, PlainGlyf, Paired
  <2>3. Source(tables[next]) \in Seq(Byte) /\ Source(NextLoca) \in Seq(Byte)
    BY <1>3, <2>1, <2>2, SourceType DEF IInv, PlainGlyf
  <2>4. Grown
    BY <1>3, <2>3, PushOutlinesGrows DEF PlainGlyf, AtGlyf, AtEntry
  <2> QED BY <1>3, <2>4, GrownAdvanceKeepsIInv DEF PlainGlyf, AtGlyf
<1>4. CASE MissingLoca
  BY <1>4, ReturnKeepsIInv DEF MissingLoca
<1>5. CASE TransformMismatch
  BY <1>5, ReturnKeepsIInv DEF TransformMismatch
<1>6. CASE SkipLoca
  <2>1. next' \in 1 .. Len(tables') + 1
    BY <1>6, EntryAtNext, LenProperties DEF SkipLoca, IInv, TypeOK, Advance
  <2>2. TypeOK'
    BY <1>6, <2>1 DEF SkipLoca, IInv, TypeOK, Advance, KeepFont
  <2>3. LayoutInv'
    BY <1>6 DEF SkipLoca, IInv, LayoutInv, Advance, KeepFont, FitsU32
  <2>4. EndsInside'
    BY <1>6 DEF SkipLoca, IInv, EndsInside, KeepFont
  <2> QED BY <1>6, <2>2, <2>3, <2>4 DEF SkipLoca, IInv, Advance, KeepFont, KeepsBytes
<1>7. CASE HeadTable
  <2>1. tables[next] \in Entry
    BY <1>7, EntryAtNext DEF IInv, HeadTable, AtHead
  <2>2. Source(tables[next]) \in Seq(Byte)
    BY <1>7, <2>1, SourceType DEF IInv, HeadTable
  <2>3. set_checksum_adjustment(Source(tables[next]), 0) \in Seq(Byte)
    BY <2>2, ZeroAdjustmentType
  <2>4. Grown
    BY <1>7, <2>3, TagAssumption, PushTableGrows DEF HeadTable, AtHead, AtEntry
  <2> QED BY <1>7, <2>4, GrownAdvanceKeepsIInv DEF HeadTable, AtHead
<1>8. CASE TruncatedHead
  <2>1. tables[next] \in Entry
    BY <1>8, EntryAtNext DEF IInv, TruncatedHead, AtHead
  <2>2. Source(tables[next]) \in Seq(Byte)
    BY <1>8, <2>1, SourceType DEF IInv, TruncatedHead
  <2>3. /\ out' \in Seq(Byte) /\ Len(out) <= Len(out')
        /\ \A i \in 1 .. Len(out) : out'[i] = out[i]
    BY <1>8, <2>2, ConcatProperties, LenProperties DEF TruncatedHead, IInv, TypeOK
  <2>4. TypeOK'
    BY <1>8, <2>3 DEF TruncatedHead, IInv, TypeOK, Return
  <2>5. ASSUME FitsU32' PROVE Placed(ttf_tables, out, header_end)'
    <3>1. Len(out) \in Nat /\ Len(out') \in Nat /\ ttf_tables \in Seq(Record)
      BY <2>3, LenProperties DEF IInv, TypeOK
    <3>2. Placed(ttf_tables, out, header_end)
      BY <2>3, <2>5, <3>1, WidthType DEF IInv, LayoutInv, FitsU32
    <3>3. ASSUME NEW k \in 1 .. Len(ttf_tables), NEW r, r = ttf_tables[k]
          PROVE  /\ r.offset + r.length <= Len(out')
                 /\ Slice(out', r.offset, r.length) = Slice(out, r.offset, r.length)
      <4>1. r \in Record
        BY <3>1, <3>3, ElementOfSeq
      <4>2. r.offset \in Nat /\ r.length \in Nat
        BY <4>1, RecordFields
      <4>3. r.offset + r.length <= Len(out)
        BY <3>2, <3>3 DEF Placed
      <4>4. r.offset + r.length <= Len(out')
        BY <2>3, <3>1, <4>2, <4>3
      <4>5. ASSUME NEW i \in r.offset + 1 .. r.offset + r.length PROVE out'[i] = out[i]
        BY <2>3, <3>1, <4>2, <4>3
      <4> QED BY <2>3, <4>2, <4>3, <4>4, <4>5, SliceAgrees DEF IInv, TypeOK
    <3> QED BY <1>8, <3>2, <3>3 DEF Placed, StartOf, TruncatedHead, Return
  <2>6. LayoutInv'
    BY <1>8, <2>5 DEF LayoutInv, TruncatedHead, Return
  <2>7. EndsInside'
    <3>1. Len(out) \in Nat /\ Len(out') \in Nat /\ ttf_tables \in Seq(Record)
      BY <2>3, LenProperties DEF IInv, TypeOK
    <3>2. ASSUME NEW k \in 1 .. Len(ttf_tables), NEW r, r = ttf_tables[k]
          PROVE  r.offset + r.length <= Len(out')
      <4>1. r \in Record
        BY <3>1, <3>2, ElementOfSeq
      <4>2. r.offset \in Nat /\ r.length \in Nat
        BY <4>1, RecordFields
      <4> QED BY <2>3, <3>1, <3>2, <4>2 DEF IInv, EndsInside
    <3> QED BY <1>8, <3>2 DEF EndsInside, TruncatedHead
  <2> QED BY <1>8, <2>3, <2>4, <2>6, <2>7 DEF TruncatedHead, IInv, Return, KeepsBytes
<1>9. CASE TransformedHmtx
  BY <1>9, ReturnKeepsIInv DEF TransformedHmtx
<1>10. CASE SimpleTable
  <2>1. tables[next] \in Entry
    BY <1>10, EntryAtNext DEF IInv, SimpleTable, AtSimple
  <2>2. Source(tables[next]) \in Seq(Byte)
    BY <1>10, <2>1, SourceType DEF IInv, SimpleTable
  <2>3. tables[next].tag \in Tags
    BY <2>1 DEF Entry
  <2>4. Grown
    BY <1>10, <2>2, <2>3, PushTableGrows DEF SimpleTable, AtSimple, AtEntry
  <2> QED BY <1>10, <2>4, GrownAdvanceKeepsIInv DEF SimpleTable, AtSimple
<1>11. CASE SlicePanic
  BY <1>11, ReturnKeepsIInv DEF SlicePanic
<1>12. CASE Finish
  <2>1. PICK s \in {"ok", "count_panic"} : Return(s) /\ KeepFont
    BY <1>12 DEF Finish
  <2> QED BY <2>1, ReturnKeepsIInv
<1>13. CASE UNCHANGED vars
  BY <1>13 DEF vars, IInv, TypeOK, LayoutInv, EndsInside, FitsU32, Placed, Flush, StartOf,
               KeepsBytes
<1> QED BY <1>1, <1>2, <1>3, <1>4, <1>5, <1>6, <1>7, <1>8, <1>9, <1>10, <1>11, <1>12, <1>13
        DEF Next

LEMMA NextIInv == IInv /\ [Next]_vars => IInv'
BY StepKeepsIInv
-----------------------------------------------------------------------------
(* What the loop keeps at every step, for every call.                      *)

LEMMA Invariance == Spec => []IInv
BY InitIInv, NextIInv, PTL DEF Spec

\* The buffer and the records of write_to_buf keep their types: in particular
\* no record field and no byte of the font ever leaves its range.
THEOREM TypeCorrect == Spec => []TypeOK
<1>1. IInv => TypeOK
  BY DEF IInv
<1> QED BY <1>1, Invariance, PTL

\* The tables tile the buffer behind the header: each starts on a multiple of
\* four, right behind the padding of its predecessor, and ends in the buffer.
THEOREM LayoutHolds == Spec => []Layout
<1>1. IInv => Layout
  <2> SUFFICES ASSUME IInv, FitsU32, NEW k \in DOMAIN ttf_tables
               PROVE  /\ ttf_tables[k].offset % 4 = 0
                      /\ ttf_tables[k].offset + ttf_tables[k].length <= Len(out)
                      /\ ttf_tables[k].offset = StartOf(ttf_tables, header_end, k)
    BY DEF Layout, StartOf
  <2>1. k \in 1 .. Len(ttf_tables)
    BY LenProperties DEF IInv, TypeOK
  <2> QED BY <2>1 DEF IInv, LayoutInv, Placed
<1> QED BY <1>1, Invariance, PTL

\* Every record has the checksum of the bytes found at its offset, however many
\* tables and how much padding were written after them.
THEOREM ChecksumsHold == Spec => []ChecksumsMatch
<1>1. IInv => ChecksumsMatch
  <2> SUFFICES ASSUME IInv, FitsU32, NEW k \in DOMAIN ttf_tables
               PROVE  ttf_tables[k].checksum = calculate_checksum(Region(ttf_tables[k]))
    BY DEF ChecksumsMatch
  <2>1. k \in 1 .. Len(ttf_tables)
    BY LenProperties DEF IInv, TypeOK
  <2> QED BY <2>1 DEF IInv, LayoutInv, Placed, Region
<1> QED BY <1>1, Invariance, PTL
-----------------------------------------------------------------------------
(* What the tables contain. The font is looked at as FontAssembly does, as *)
(* a list of tables with contents: first what a push does to that list,    *)
(* then that every iteration is one of four kinds of steps on it; all that *)
(* follows is about these four kinds.                                      *)

Table(tag, bytes) == [tag |-> tag, bytes |-> bytes]
TableSet == [tag : Tags, bytes : Seq(Byte)]

\* The tables the records describe in a buffer, and those of the font so far.
Contents(recs, buffer) ==
  [k \in 1 .. Len(recs) |->
     Table(recs[k].tag, Slice(buffer, recs[k].offset, recs[k].length))]
Assembled == Contents(ttf_tables, out)
-----------------------------------------------------------------------------
(* A push as a change of the contents.                                     *)

LEMMA ContentsType ==
  ASSUME NEW recs \in Seq(Record), NEW buffer \in Seq(Byte), NEW h, Placed(recs, buffer, h)
  PROVE  Contents(recs, buffer) \in Seq(TableSet) /\ Len(Contents(recs, buffer)) = Len(recs)
<1>1. Len(recs) \in Nat
  BY LenProperties
<1>2. ASSUME NEW k \in 1 .. Len(recs)
      PROVE  Table(recs[k].tag, Slice(buffer, recs[k].offset, recs[k].length)) \in TableSet
  <2>1. recs[k] \in Record
    BY ElementOfSeq
  <2>2. recs[k].tag \in Tags /\ recs[k].offset \in Nat /\ recs[k].length \in Nat
    BY <2>1, RecordFields DEF Record
  <2>3. recs[k].offset + recs[k].length <= Len(buffer)
    BY DEF Placed
  <2>4. Slice(buffer, recs[k].offset, recs[k].length) \in Seq(Byte)
    BY <2>2, <2>3, SliceProperties
  <2> QED BY <2>2, <2>4 DEF Table, TableSet
<1>3. Contents(recs, buffer) \in [1 .. Len(recs) -> TableSet]
  BY <1>2 DEF Contents
<1> QED BY <1>1, <1>3

\* A buffer that keeps the first bytes of another has the same tables there.
LEMMA LongerBufferKeepsContents ==
  ASSUME NEW recs \in Seq(Record), NEW buffer \in Seq(Byte), NEW h, Placed(recs, buffer, h),
         NEW longer \in Seq(Byte), Len(buffer) <= Len(longer),
         \A i \in 1 .. Len(buffer) : longer[i] = buffer[i]
  PROVE  Contents(recs, longer) = Contents(recs, buffer)
<1>1. Len(buffer) \in Nat /\ Len(longer) \in Nat
  BY LenProperties
<1>2. ASSUME NEW k \in 1 .. Len(recs), NEW r, r = recs[k]
      PROVE  Slice(longer, r.offset, r.length) = Slice(buffer, r.offset, r.length)
  <2>1. r \in Record
    BY <1>2, ElementOfSeq
  <2>2. r.offset \in Nat /\ r.length \in Nat
    BY <2>1, RecordFields
  <2>3. r.offset + r.length <= Len(buffer)
    BY <1>2 DEF Placed
  <2>4. r.offset + r.length <= Len(longer)
    BY <1>1, <2>2, <2>3
  <2>5. \A i \in r.offset + 1 .. r.offset + r.length : longer[i] = buffer[i]
    BY <1>1, <2>2, <2>3
  <2> QED BY <2>2, <2>3, <2>4, <2>5, SliceAgrees
<1> QED BY <1>2 DEF Contents

LEMMA PushAddsToContents ==
  ASSUME NEW recs \in Seq(Record), NEW buffer \in Seq(Byte), NEW h,
         NEW tag \in Tags, NEW bytes \in Seq(Byte),
         Placed(recs, buffer, h), Len(Appended(buffer, bytes)) < U32
  PROVE  Contents(Append(recs, RecordOf(tag, bytes, buffer)), Appended(buffer, bytes))
           = Append(Contents(recs, buffer), Table(tag, bytes))
<1> DEFINE r == RecordOf(tag, bytes, buffer)
           recs2 == Append(recs, r)
           buffer2 == Appended(buffer, bytes)
           n == Len(recs)
           old == Contents(recs, buffer)
           new == Contents(recs2, buffer2)
<1>1. Len(buffer) \in Nat /\ Len(bytes) \in Nat /\ n \in Nat
  BY LenProperties
<1>2. /\ buffer2 \in Seq(Byte) /\ Len(buffer) + Len(bytes) <= Len(buffer2)
      /\ \A i \in 1 .. Len(buffer) : buffer2[i] = buffer[i]
      /\ Slice(buffer2, Len(buffer), Len(bytes)) = bytes
  BY AppendedProperties
<1>3. r \in Record
  BY RecordOfType
<1>4. r.tag = tag /\ r.offset = Len(buffer) /\ r.length = Len(bytes)
  <2>1. Len(buffer2) \in Nat /\ U32 \in Nat
    BY <1>2, LenProperties, WidthType
  <2>2. Len(buffer) \in 0 .. U32 - 1 /\ Len(bytes) \in 0 .. U32 - 1
    BY <1>1, <1>2, <2>1
  <2> QED BY <2>2, CastToU32 DEF RecordOf
<1>5. Contents(recs, buffer2) = old
  <2>1. Len(buffer) <= Len(buffer2)
    BY <1>1, <1>2, LenProperties
  <2> QED BY <1>2, <2>1, LongerBufferKeepsContents
<1> HIDE DEF r, buffer2
<1>6. /\ recs2 \in Seq(Record) /\ Len(recs2) = n + 1 /\ recs2[n + 1] = r
      /\ \A k \in 1 .. n : recs2[k] = recs[k]
  BY <1>3, AppendProperties
<1> HIDE DEF recs2
<1>7. old \in Seq(TableSet) /\ Len(old) = n
  BY ContentsType
<1>8. Table(tag, bytes) \in TableSet
  BY DEF Table, TableSet
<1>9. /\ Append(old, Table(tag, bytes)) \in Seq(TableSet)
      /\ Len(Append(old, Table(tag, bytes))) = n + 1
      /\ Append(old, Table(tag, bytes))[n + 1] = Table(tag, bytes)
      /\ \A k \in 1 .. n : Append(old, Table(tag, bytes))[k] = old[k]
  BY <1>7, <1>8, AppendProperties
<1>10. new[n + 1] = Table(tag, bytes)
  BY <1>1, <1>2, <1>4, <1>6 DEF Contents
<1>11. ASSUME NEW k \in 1 .. n PROVE new[k] = old[k]
  <2>1. new[k] = Contents(recs, buffer2)[k]
    BY <1>1, <1>6 DEF Contents
  <2> QED BY <2>1, <1>5
<1> HIDE DEF old
<1>12. \A k \in 1 .. n + 1 : new[k] = Append(old, Table(tag, bytes))[k]
  BY <1>1, <1>9, <1>10, <1>11
<1>13. new \in Seq(TableSet) /\ Len(new) = n + 1
  <2>1. \A k \in 1 .. n + 1 : new[k] \in TableSet
    BY <1>9, <1>12, ElementOfSeq
  <2>2. new \in [1 .. n + 1 -> TableSet]
    BY <1>6, <2>1 DEF Contents
  <2> QED BY <1>1, <2>2, SMTT(20)
<1> HIDE DEF new
<1>14. new = Append(old, Table(tag, bytes))
  BY <1>9, <1>12, <1>13, SeqEqual
<1> QED BY <1>14 DEF new, old, recs2, buffer2, r
-----------------------------------------------------------------------------
(* The same for the actions' two ways to push.                             *)

LEMMA PushTableAdds ==
  ASSUME IInv, status = "writing", NEW tag \in Tags, NEW bytes \in Seq(Byte),
         PushTable(tag, bytes)
  PROVE  /\ Len(ttf_tables') = Len(ttf_tables) + 1
         /\ FitsU32' => FitsU32 /\ Assembled' = Append(Assembled, Table(tag, bytes))
<1>1. ttf_tables \in Seq(Record) /\ out \in Seq(Byte)
  BY DEF IInv, TypeOK
<1>2. /\ ttf_tables' = Append(ttf_tables, RecordOf(tag, bytes, out))
      /\ out' = Appended(out, bytes)
  BY DEF PushTable
<1>3. Len(ttf_tables') = Len(ttf_tables) + 1
  BY <1>1, <1>2, RecordOfType, AppendProperties
<1>4. ASSUME FitsU32' PROVE FitsU32 /\ Assembled' = Append(Assembled, Table(tag, bytes))
  <2>1. FitsU32
    BY <1>4, PushTableGrows DEF Grown
  <2>2. Placed(ttf_tables, out, header_end)
    BY <2>1 DEF IInv, LayoutInv
  <2>3. Len(Appended(out, bytes)) < U32
    BY <1>2, <1>4 DEF FitsU32
  <2>4. Contents(ttf_tables', out') = Append(Contents(ttf_tables, out), Table(tag, bytes))
    BY <1>1, <1>2, <2>2, <2>3, PushAddsToContents
  <2> QED BY <2>1, <2>4 DEF Assembled
<1> QED BY <1>3, <1>4

LEMMA PushOutlinesAdds ==
  ASSUME IInv, status = "writing", NEW glyf \in Seq(Byte), NEW loca \in Seq(Byte),
         PushOutlines(glyf, loca)
  PROVE  /\ Len(ttf_tables') = Len(ttf_tables) + 2
         /\ FitsU32' => /\ FitsU32
                        /\ Assembled' = Assembled \o <<Table(GLYF_TAG, glyf), Table(LOCA_TAG, loca)>>
<1> DEFINE between == Appended(out, glyf)
           g == RecordOf(GLYF_TAG, glyf, out)
           l == RecordOf(LOCA_TAG, loca, between)
           recs == Append(ttf_tables, g)
<1>1. /\ ttf_tables \in Seq(Record) /\ out \in Seq(Byte)
      /\ header_end \in Nat /\ header_end % 4 = 0
      /\ GLYF_TAG \in Tags /\ LOCA_TAG \in Tags
  BY TagAssumption DEF IInv, TypeOK
<1>2. between \in Seq(Byte)
  BY <1>1, AppendedProperties
<1>3. g \in Record
  BY <1>1, RecordOfType
<1>4. l \in Record
  BY <1>1, <1>2, RecordOfType
<1>5. recs \in Seq(Record) /\ Len(recs) = Len(ttf_tables) + 1
  BY <1>1, <1>3, AppendProperties
<1>6. ttf_tables' = Append(recs, l) /\ out' = Appended(between, loca)
  BY <1>1, <1>3, <1>4, TwoAppends DEF PushOutlines
<1>7. Len(ttf_tables') = Len(ttf_tables) + 2
  BY <1>1, <1>4, <1>5, <1>6, AppendProperties, LenProperties
<1>8. ASSUME FitsU32'
      PROVE  /\ FitsU32
             /\ Assembled' = Assembled \o <<Table(GLYF_TAG, glyf), Table(LOCA_TAG, loca)>>
  <2>1. FitsU32
    BY <1>8, PushOutlinesGrows DEF Grown
  <2>2. Placed(ttf_tables, out, header_end) /\ Flush(ttf_tables, out, header_end)
    BY <2>1 DEF IInv, LayoutInv
  <2>3. Len(Appended(between, loca)) < U32
    BY <1>6, <1>8 DEF FitsU32
  <2>4. Len(between) < U32
    <3>1. Len(between) + Len(loca) <= Len(Appended(between, loca)) /\ Appended(between, loca) \in Seq(Byte)
      BY <1>2, AppendedProperties
    <3> HIDE DEF between
    <3>2. Len(between) \in Nat /\ Len(loca) \in Nat /\ Len(Appended(between, loca)) \in Nat
          /\ U32 \in Nat
      BY <1>2, <3>1, LenProperties, WidthType
    <3> QED BY <2>3, <3>1, <3>2
  <2>5. Contents(recs, between) = Append(Assembled, Table(GLYF_TAG, glyf))
    BY <1>1, <2>2, <2>4, PushAddsToContents DEF Assembled
  <2>6. Placed(recs, between, header_end)
    BY <1>1, <2>2, <2>4, PushKeepsPlaced
  <2>7. Assembled \in Seq(TableSet)
    BY <1>1, <2>2, ContentsType DEF Assembled
  <2>8. Table(GLYF_TAG, glyf) \in TableSet /\ Table(LOCA_TAG, loca) \in TableSet
    BY <1>1 DEF Table, TableSet
  <2> HIDE DEF recs, between
  <2>9. Contents(Append(recs, l), Appended(between, loca))
          = Append(Contents(recs, between), Table(LOCA_TAG, loca))
    BY <1>1, <1>2, <1>5, <2>3, <2>6, PushAddsToContents
  <2>10. Assembled' = Append(Append(Assembled, Table(GLYF_TAG, glyf)), Table(LOCA_TAG, loca))
    BY <1>6, <2>5, <2>9 DEF Assembled
  <2>11. Assembled' = Assembled \o <<Table(GLYF_TAG, glyf), Table(LOCA_TAG, loca)>>
    BY <2>7, <2>8, <2>10, TwoAppends, SMTT(20)
  <2> QED BY <2>1, <2>11
<1> QED BY <1>7, <1>8
-----------------------------------------------------------------------------
(* The four kinds of steps of the loop. The contents are followed as long  *)
(* as the font stays below 4 GiB, the number of records always.            *)

OneTable ==
  /\ AtEntry /\ Advance /\ InData(tables[next])
  /\ tables[next].tag \notin {GLYF_TAG, LOCA_TAG}
  /\ tables[next].tag = HEAD_TAG => ~HeadTruncated(Source(tables[next]))
  /\ Len(ttf_tables') = Len(ttf_tables) + 1
  /\ FitsU32' => /\ FitsU32
                 /\ Assembled' = Append(Assembled, Table(tables[next].tag, CopiedBytes(tables[next])))

\* What the pair of tables for the glyf entry e and the loca entry f may hold.
OutlinesOf(e, f, glyf, loca) ==
  IF e.transformed THEN \E g \in GlyfOutcomes : glyf = g.glyf /\ loca = g.loca
  ELSE InData(f) /\ glyf = CopiedBytes(e) /\ loca = CopiedBytes(f)

TwoTables ==
  /\ AtEntry /\ Advance /\ InData(tables[next]) /\ tables[next].tag = GLYF_TAG
  /\ Len(ttf_tables') = Len(ttf_tables) + 2
  /\ \E j \in LocasAhead :
       /\ \A k \in LocasAhead : j <= k
       /\ tables[next].transformed = tables[j].transformed
       /\ \E glyf, loca \in Seq(Byte) :
            /\ OutlinesOf(tables[next], tables[j], glyf, loca)
            /\ FitsU32' => /\ FitsU32
                           /\ Assembled' = Assembled \o <<Table(GLYF_TAG, glyf), Table(LOCA_TAG, loca)>>

NoTable == AtEntry /\ Advance /\ KeepFont /\ tables[next].tag = LOCA_TAG

Stopped ==
  /\ status = "writing" /\ status' \in Statuses \ {"writing"}
  /\ UNCHANGED <<tables, data, header_end, next>>
  /\ Len(ttf_tables') = Len(ttf_tables)
  /\ FitsU32' => FitsU32 /\ Assembled' = Assembled
  /\ status' \in {"ok", "count_panic"} =>
       next > Len(tables) /\ (status' = "ok" <=> Len(ttf_tables) = Len(tables))
  /\ status' = "slice_panic" => \E i \in DOMAIN tables : ~InData(tables[i])

LEMMA TagsDiffer == GLYF_TAG # LOCA_TAG /\ HEAD_TAG # GLYF_TAG /\ HEAD_TAG # LOCA_TAG
BY TagAssumption

LEMMA CopiedBytesType ==
  ASSUME TypeOK, NEW e \in Entry, InData(e)
  PROVE  CopiedBytes(e) \in Seq(Byte)
BY SourceType, ZeroAdjustmentType DEF CopiedBytes

LEMMA PushesOneTable ==
  ASSUME IInv, AtEntry, InData(tables[next]), Advance,
         tables[next].tag \notin {GLYF_TAG, LOCA_TAG},
         tables[next].tag = HEAD_TAG => ~HeadTruncated(Source(tables[next])),
         PushTable(tables[next].tag, CopiedBytes(tables[next]))
  PROVE  OneTable
<1>1. tables[next] \in Entry
  BY EntryAtNext DEF IInv
<1>2. tables[next].tag \in Tags /\ CopiedBytes(tables[next]) \in Seq(Byte)
  BY <1>1, CopiedBytesType DEF IInv, Entry
<1> QED BY <1>2, PushTableAdds DEF OneTable, AtEntry

LEMMA PushesTwoTables ==
  ASSUME IInv, AtGlyf, Paired, InData(tables[next]), Advance,
         NEW glyf \in Seq(Byte), NEW loca \in Seq(Byte),
         OutlinesOf(tables[next], NextLoca, glyf, loca), PushOutlines(glyf, loca)
  PROVE  TwoTables
<1>1. PICK j \in LocasAhead : NextLoca = tables[j] /\ \A k \in LocasAhead : j <= k
  BY NextLocaIsAhead DEF IInv, Paired
<1>2. tables[next].transformed = tables[j].transformed
  BY <1>1 DEF Paired
<1> QED BY <1>1, <1>2, PushOutlinesAdds DEF TwoTables, AtGlyf, AtEntry

LEMMA StoppedByReturn ==
  ASSUME IInv, status = "writing", NEW s \in Statuses \ {"writing"}, Return(s), KeepFont,
         s \in {"ok", "count_panic"} =>
           next > Len(tables) /\ (s = "ok" <=> Len(ttf_tables) = Len(tables)),
         s = "slice_panic" => \E i \in DOMAIN tables : ~InData(tables[i])
  PROVE  Stopped
<1>1. Len(ttf_tables') = Len(ttf_tables) /\ Assembled' = Assembled /\ (FitsU32' => FitsU32)
  BY DEF KeepFont, Assembled, FitsU32, Contents
<1> QED BY <1>1 DEF Stopped, Return

\* Every step is of one of the four kinds.
LEMMA StepKinds ==
  ASSUME IInv, Next
  PROVE  OneTable \/ TwoTables \/ NoTable \/ Stopped
<1> USE DEF Statuses
<1>1. CASE TransformedGlyf
  <2>1. PICK g \in GlyfOutcomes : PushOutlines(g.glyf, g.loca)
    BY <1>1 DEF TransformedGlyf
  <2>2. g.glyf \in Seq(Byte) /\ g.loca \in Seq(Byte)
    BY OutcomeAssumption
  <2>3. OutlinesOf(tables[next], NextLoca, g.glyf, g.loca)
    BY <1>1 DEF TransformedGlyf, OutlinesOf
  <2> QED BY <1>1, <2>1, <2>2, <2>3, PushesTwoTables DEF TransformedGlyf
<1>2. CASE GlyfDecodeFails
  <2>1. PICK s \in {"GlyfDecoderError", "glyf_panic"} : Return(s)
    BY <1>2 DEF GlyfDecodeFails
  <2> QED BY <1>2, <2>1, StoppedByReturn DEF GlyfDecodeFails, AtGlyf, AtEntry
<1>3. CASE PlainGlyf
  <2>1. tables[next] \in Entry /\ tables[next].tag = GLYF_TAG
    BY <1>3, EntryAtNext DEF IInv, PlainGlyf, AtGlyf
  <2>2. NextLoca \in Entry /\ NextLoca.tag = LOCA_TAG
    BY <1>3, NextLocaIsAhead DEF IInv, PlainGlyf, Paired
  <2>3. Source(tables[next]) = CopiedBytes(tables[next]) /\ Source(NextLoca) = CopiedBytes(NextLoca)
    BY <2>1, <2>2, TagsDiffer DEF CopiedBytes
  <2>4. Source(tables[next]) \in Seq(Byte) /\ Source(NextLoca) \in Seq(Byte)
    BY <1>3, <2>1, <2>2, SourceType DEF IInv, PlainGlyf
  <2>5. OutlinesOf(tables[next], NextLoca, Source(tables[next]), Source(NextLoca))
    BY <1>3, <2>3 DEF PlainGlyf, OutlinesOf
  <2> QED BY <1>3, <2>4, <2>5, PushesTwoTables DEF PlainGlyf
<1>4. CASE MissingLoca
  BY <1>4, StoppedByReturn DEF MissingLoca, AtGlyf, AtEntry
<1>5. CASE TransformMismatch
  BY <1>5, StoppedByReturn DEF TransformMismatch, AtGlyf, AtEntry
<1>6. CASE SkipLoca
  BY <1>6 DEF SkipLoca, NoTable
<1>7. CASE HeadTable
  <2>1. CopiedBytes(tables[next]) = set_checksum_adjustment(Source(tables[next]), 0)
    BY <1>7 DEF HeadTable, AtHead, CopiedBytes
  <2> QED BY <1>7, <2>1, TagsDiffer, PushesOneTable DEF HeadTable, AtHead
<1>8. CASE TruncatedHead
  <2>1. tables[next] \in Entry
    BY <1>8, EntryAtNext DEF IInv, TruncatedHead, AtHead
  <2>2. Source(tables[next]) \in Seq(Byte)
    BY <1>8, <2>1, SourceType DEF IInv, TruncatedHead
  <2>3. /\ ttf_tables \in Seq(Record) /\ out \in Seq(Byte) /\ out' \in Seq(Byte)
        /\ Len(out) <= Len(out') /\ \A i \in 1 .. Len(out) : out'[i] = out[i]
    BY <1>8, <2>2, ConcatProperties, LenProperties DEF TruncatedHead, IInv, TypeOK
  <2>4. ASSUME FitsU32' PROVE FitsU32 /\ Assembled' = Assembled
    <3>1. FitsU32
      BY <2>3, <2>4, LenProperties, WidthType DEF FitsU32
    <3>2. Placed(ttf_tables, out, header_end)
      BY <3>1 DEF IInv, LayoutInv
    <3>3. Contents(ttf_tables, out') = Assembled
      BY <2>3, <3>2, LongerBufferKeepsContents DEF Assembled
    <3> QED BY <1>8, <3>1, <3>3 DEF Assembled, TruncatedHead
  <2> QED BY <1>8, <2>4 DEF TruncatedHead, AtHead, AtEntry, Return, Stopped
<1>9. CASE TransformedHmtx
  BY <1>9, StoppedByReturn DEF TransformedHmtx, AtHmtx, AtEntry
<1>10. CASE SimpleTable
  <2>1. CopiedBytes(tables[next]) = Source(tables[next])
    BY <1>10 DEF SimpleTable, AtSimple, CopiedBytes
  <2> QED BY <1>10, <2>1, PushesOneTable DEF SimpleTable, AtSimple
<1>11. CASE SlicePanic
  <2>1. AtEntry /\ next \in 1 .. Len(tables)
    BY <1>11, EntryAtNext DEF SlicePanic, AtHead, AtSimple, AtGlyf, IInv
  <2>2. \E i \in 1 .. Len(tables) : ~InData(tables[i])
    <3>1. CASE ~InData(tables[next])
      BY <2>1, <3>1
    <3>2. CASE AtGlyf /\ Paired /\ ~InData(NextLoca)
      <4>1. PICK j \in LocasAhead : NextLoca = tables[j]
        BY <3>2, NextLocaIsAhead DEF IInv, Paired
      <4>2. j \in 1 .. Len(tables)
        BY <2>1 DEF LocasAhead
      <4> QED BY <3>2, <4>1, <4>2
    <3> QED BY <1>11, <3>1, <3>2 DEF SlicePanic
  <2>3. \E i \in DOMAIN tables : ~InData(tables[i])
    BY <2>2, LenProperties DEF IInv, TypeOK
  <2> QED BY <1>11, <2>1, <2>3, StoppedByReturn DEF SlicePanic, AtEntry
<1>12. CASE Finish
  <2>1. CASE Len(ttf_tables) = Len(tables)
    <3>1. Return("ok")
      BY <1>12, <2>1 DEF Finish
    <3> QED BY <1>12, <2>1, <3>1, StoppedByReturn DEF Finish
  <2>2. CASE Len(ttf_tables) # Len(tables)
    <3>1. Return("count_panic")
      BY <1>12, <2>2 DEF Finish
    <3> QED BY <1>12, <2>2, <3>1, StoppedByReturn DEF Finish
  <2> QED BY <2>1, <2>2
<1> QED BY <1>1, <1>2, <1>3, <1>4, <1>5, <1>6, <1>7, <1>8, <1>9, <1>10, <1>11, <1>12 DEF Next
-----------------------------------------------------------------------------
(* The second inductive invariant. The entries passed decide how many      *)
(* records there are; with adjoining loca entries record k is that of      *)
(* entry k; and with distinct tags every entry passed has its table, where *)
(* a glyf entry answers for the loca entry as well, wherever that stands.  *)

Passed(tag) == {i \in 1 .. next - 1 : tables[i].tag = tag}

CountInv ==
  /\ Len(ttf_tables) + Cardinality(Passed(LOCA_TAG)) = (next - 1) + Cardinality(Passed(GLYF_TAG))
  /\ status \in {"ok", "count_panic"} =>
       next = Len(tables) + 1 /\ (status = "ok" <=> Len(ttf_tables) = Len(tables))

PanicInv == status = "slice_panic" => \E i \in DOMAIN tables : ~InData(tables[i])

\* The table t of the font is what the entry e asks for.
Answers(t, e) ==
  /\ t.tag = e.tag
  /\ e.tag \notin {GLYF_TAG, LOCA_TAG} \/ ~e.transformed =>
       InData(e) /\ t.bytes = CopiedBytes(e)

BetweenPair == next <= Len(tables) /\ tables[next].tag = LOCA_TAG

FollowInv == Adjoining =>
  /\ Len(ttf_tables) = IF BetweenPair THEN next ELSE next - 1
  /\ FitsU32 => \A k \in 1 .. Len(ttf_tables) : Answers(Assembled[k], tables[k])

DistinctTags == \A i, j \in DOMAIN tables : tables[i].tag = tables[j].tag => i = j

Answered(e) == \E k \in 1 .. Len(ttf_tables) : Answers(Assembled[k], e)

LostInv == FitsU32 /\ DistinctTags => \A i \in 1 .. next - 1 :
  /\ tables[i].tag # LOCA_TAG => Answered(tables[i])
  /\ tables[i].tag = GLYF_TAG =>
       \A j \in DOMAIN tables : tables[j].tag = LOCA_TAG => Answered(tables[j])

\* A head table of the font has a whole adjustment field, of zeros.
Adjustable(t) == t.tag = HEAD_TAG => /\ Len(t.bytes) >= 12
                                     /\ \A i \in 9 .. 12 : t.bytes[i] = 0

HeadInv == FitsU32 => \A k \in 1 .. Len(ttf_tables) : Adjustable(Assembled[k])

ContentsInv == CountInv /\ PanicInv /\ FollowInv /\ LostInv /\ HeadInv
-----------------------------------------------------------------------------
(* It holds of an empty font.                                              *)

LEMMA InitWithContentsInv ==
  ASSUME NEW t \in Seq(Entry), NEW d, NEW h, InitWith(t, d, h)
  PROVE  ContentsInv
<1>1. next = 1 /\ status = "writing" /\ ttf_tables = << >> /\ tables \in Seq(Entry)
  BY DEF InitWith
<1>2. Len(ttf_tables) = 0 /\ Len(tables) \in Nat /\ DOMAIN tables = 1 .. Len(tables)
  BY <1>1, LenProperties
<1>3. ASSUME NEW tag PROVE Passed(tag) = {}
  BY <1>1 DEF Passed
<1>4. CountInv
  <2>1. Cardinality(Passed(GLYF_TAG)) = 0 /\ Cardinality(Passed(LOCA_TAG)) = 0
    BY <1>3, FS_EmptySet
  <2> QED BY <1>1, <1>2, <2>1 DEF CountInv
<1>5. PanicInv
  BY <1>1 DEF PanicInv
<1>6. FollowInv
  <2>1. ASSUME Adjoining, BetweenPair PROVE FALSE
    BY <1>1, <1>2, <2>1 DEF Adjoining, BetweenPair
  <2> QED BY <1>1, <1>2, <2>1 DEF FollowInv
<1>7. LostInv
  BY <1>1 DEF LostInv
<1>8. HeadInv
  BY <1>2 DEF HeadInv
<1> QED BY <1>4, <1>5, <1>6, <1>7, <1>8 DEF ContentsInv

LEMMA InitContentsInv == Init => ContentsInv
BY InitWithContentsInv, InputAssumption DEF Init
-----------------------------------------------------------------------------
(* The count.                                                              *)

\* The entries passed with a tag, after one more.
LEMMA PassedGrows ==
  ASSUME TypeOK, AtEntry, Advance, NEW tag
  PROVE  /\ Cardinality(Passed(tag)) \in Nat
         /\ Cardinality(Passed(tag)') =
              Cardinality(Passed(tag)) + IF tables[next].tag = tag THEN 1 ELSE 0
<1>1. next \in Nat \ {0} /\ next' = next + 1 /\ tables' = tables
  BY EntryAtNext, LenProperties DEF Advance, TypeOK
<1>2. IsFiniteSet(Passed(tag))
  <2>1. IsFiniteSet(1 .. next - 1)
    BY <1>1, FS_Interval
  <2>2. Passed(tag) \subseteq 1 .. next - 1
    BY DEF Passed
  <2> QED BY <2>1, <2>2, FS_Subset
<1>3. next \notin Passed(tag)
  BY <1>1 DEF Passed
<1>4. Passed(tag)' = IF tables[next].tag = tag THEN Passed(tag) \cup {next} ELSE Passed(tag)
  <2>1. 1 .. next' - 1 = (1 .. next - 1) \cup {next}
    BY <1>1
  <2> QED BY <1>1, <2>1 DEF Passed
<1>5. Cardinality(Passed(tag)) \in Nat
  BY <1>2, FS_CardinalityType
<1>6. Cardinality(Passed(tag) \cup {next}) = Cardinality(Passed(tag)) + 1
  BY <1>2, <1>3, FS_AddElement
<1> QED BY <1>4, <1>5, <1>6

LEMMA CountKept ==
  ASSUME IInv, CountInv, OneTable \/ TwoTables \/ NoTable \/ Stopped
  PROVE  CountInv'
<1> USE DEF IInv
<1>1. Len(ttf_tables) \in Nat /\ next \in Nat
  BY LenProperties DEF TypeOK
<1>2. ASSUME AtEntry, Advance
      PROVE  /\ status' = "writing" /\ next' = next + 1
             /\ Cardinality(Passed(GLYF_TAG)) \in Nat /\ Cardinality(Passed(LOCA_TAG)) \in Nat
             /\ Cardinality(Passed(GLYF_TAG)') = Cardinality(Passed(GLYF_TAG))
                  + IF tables[next].tag = GLYF_TAG THEN 1 ELSE 0
             /\ Cardinality(Passed(LOCA_TAG)') = Cardinality(Passed(LOCA_TAG))
                  + IF tables[next].tag = LOCA_TAG THEN 1 ELSE 0
  BY <1>2, PassedGrows DEF AtEntry, Advance
<1>3. CASE OneTable
  BY <1>1, <1>2, <1>3, TagsDiffer, SMTT(20) DEF OneTable, CountInv
<1>4. CASE TwoTables
  <2>1. /\ AtEntry /\ Advance /\ tables[next].tag = GLYF_TAG
        /\ Len(ttf_tables') = Len(ttf_tables) + 2
    BY <1>4 DEF TwoTables
  <2>2. /\ status' = "writing" /\ next' = next + 1
        /\ Cardinality(Passed(GLYF_TAG)') = Cardinality(Passed(GLYF_TAG)) + 1
        /\ Cardinality(Passed(LOCA_TAG)') = Cardinality(Passed(LOCA_TAG))
    BY <1>2, <2>1, TagsDiffer
  <2>3. PICK g \in Nat, l \in Nat, n \in Nat :
          g = Cardinality(Passed(GLYF_TAG)) /\ l = Cardinality(Passed(LOCA_TAG)) /\ n = Len(ttf_tables)
    BY <1>1, <1>2, <2>1
  <2>4. n + l = (next - 1) + g
    BY <2>3 DEF CountInv
  <2>5. (n + 2) + l = ((next + 1) - 1) + (g + 1)
    BY <1>1, <2>4
  <2> QED BY <2>1, <2>2, <2>3, <2>5 DEF CountInv
<1>5. CASE NoTable
  <2>1. Len(ttf_tables') = Len(ttf_tables)
    BY <1>5 DEF NoTable, KeepFont
  <2> QED BY <1>1, <1>2, <1>5, <2>1, TagsDiffer, SMTT(20) DEF NoTable, CountInv
<1>6. CASE Stopped
  <2>1. Passed(GLYF_TAG)' = Passed(GLYF_TAG) /\ Passed(LOCA_TAG)' = Passed(LOCA_TAG)
    BY <1>6 DEF Stopped, Passed
  <2>2. Len(ttf_tables') = Len(ttf_tables) /\ next' = next /\ tables' = tables
        /\ (status' \in {"ok", "count_panic"} =>
              next > Len(tables) /\ (status' = "ok" <=> Len(ttf_tables) = Len(tables)))
    BY <1>6 DEF Stopped
  <2>3. next > Len(tables) => next = Len(tables) + 1
    BY LenProperties DEF TypeOK
  <2> QED BY <2>1, <2>2, <2>3 DEF CountInv
<1> QED BY <1>3, <1>4, <1>5, <1>6

LEMMA PanicKept ==
  ASSUME PanicInv, OneTable \/ TwoTables \/ NoTable \/ Stopped
  PROVE  PanicInv'
<1>1. CASE OneTable \/ TwoTables \/ NoTable
  BY <1>1 DEF PanicInv, OneTable, TwoTables, NoTable, AtEntry, Advance
<1>2. CASE Stopped
  BY <1>2 DEF PanicInv, Stopped, InData
<1> QED BY <1>1, <1>2
-----------------------------------------------------------------------------
(* What a step leaves in the font, table by table.                         *)

LEMMA AssembledType ==
  ASSUME IInv, FitsU32
  PROVE  Assembled \in Seq(TableSet) /\ Len(Assembled) = Len(ttf_tables)
BY ContentsType DEF IInv, TypeOK, LayoutInv, Assembled

LEMMA PairAppended ==
  ASSUME NEW S, NEW s \in Seq(S), NEW a \in S, NEW b \in S
  PROVE  /\ \A k \in 1 .. Len(s) : (s \o <<a, b>>)[k] = s[k]
         /\ (s \o <<a, b>>)[Len(s) + 1] = a /\ (s \o <<a, b>>)[Len(s) + 2] = b
<1>1. Len(s) \in Nat
  BY LenProperties
<1>2. /\ Append(s, a) \in Seq(S) /\ Len(Append(s, a)) = Len(s) + 1
      /\ Append(s, a)[Len(s) + 1] = a /\ \A k \in 1 .. Len(s) : Append(s, a)[k] = s[k]
  BY AppendProperties
<1> DEFINE t == Append(s, a)
<1> HIDE DEF t
<1>3. /\ Append(t, b)[Len(t) + 1] = b /\ \A k \in 1 .. Len(t) : Append(t, b)[k] = t[k]
  BY <1>2, AppendProperties DEF t
<1>4. /\ \A k \in 1 .. Len(s) : Append(t, b)[k] = s[k]
      /\ Append(t, b)[Len(s) + 1] = a /\ Append(t, b)[Len(s) + 2] = b
  BY <1>1, <1>2, <1>3 DEF t
<1> QED BY <1>4, TwoAppends DEF t

LEMMA OneTableAdded ==
  ASSUME IInv, OneTable, FitsU32'
  PROVE  /\ FitsU32
         /\ \A k \in 1 .. Len(ttf_tables) : Assembled'[k] = Assembled[k]
         /\ Assembled'[Len(ttf_tables) + 1] = Table(tables[next].tag, CopiedBytes(tables[next]))
<1>1. /\ FitsU32
      /\ Assembled' = Append(Assembled, Table(tables[next].tag, CopiedBytes(tables[next])))
  BY DEF OneTable
<1>2. tables[next] \in Entry /\ InData(tables[next])
  BY EntryAtNext DEF IInv, OneTable
<1>3. Table(tables[next].tag, CopiedBytes(tables[next])) \in TableSet
  BY <1>2, CopiedBytesType DEF IInv, Entry, Table, TableSet
<1>4. Assembled \in Seq(TableSet) /\ Len(Assembled) = Len(ttf_tables)
  BY <1>1, AssembledType
<1> QED BY <1>1, <1>3, <1>4, AppendProperties

LEMMA TwoTablesAdded ==
  ASSUME IInv, TwoTables, FitsU32'
  PROVE  /\ FitsU32
         /\ \A k \in 1 .. Len(ttf_tables) : Assembled'[k] = Assembled[k]
         /\ \E j \in LocasAhead :
              /\ \A k \in LocasAhead : j <= k
              /\ tables[next].transformed = tables[j].transformed
              /\ \E glyf, loca \in Seq(Byte) :
                   /\ OutlinesOf(tables[next], tables[j], glyf, loca)
                   /\ Assembled'[Len(ttf_tables) + 1] = Table(GLYF_TAG, glyf)
                   /\ Assembled'[Len(ttf_tables) + 2] = Table(LOCA_TAG, loca)
<1>1. PICK j \in LocasAhead :
         /\ \A k \in LocasAhead : j <= k
         /\ tables[next].transformed = tables[j].transformed
         /\ \E glyf, loca \in Seq(Byte) :
              /\ OutlinesOf(tables[next], tables[j], glyf, loca)
              /\ FitsU32' => /\ FitsU32
                             /\ Assembled' = Assembled \o <<Table(GLYF_TAG, glyf), Table(LOCA_TAG, loca)>>
  BY DEF TwoTables
<1>2. PICK glyf \in Seq(Byte), loca \in Seq(Byte) :
         /\ OutlinesOf(tables[next], tables[j], glyf, loca)
         /\ FitsU32
         /\ Assembled' = Assembled \o <<Table(GLYF_TAG, glyf), Table(LOCA_TAG, loca)>>
  BY <1>1
<1>3. Assembled \in Seq(TableSet) /\ Len(Assembled) = Len(ttf_tables) /\ Len(ttf_tables) \in Nat
  BY <1>2, AssembledType, LenProperties
<1>4. Table(GLYF_TAG, glyf) \in TableSet /\ Table(LOCA_TAG, loca) \in TableSet
  BY TagAssumption DEF Table, TableSet
<1>5. /\ \A k \in 1 .. Len(ttf_tables) : Assembled'[k] = Assembled[k]
      /\ Assembled'[Len(ttf_tables) + 1] = Table(GLYF_TAG, glyf)
      /\ Assembled'[Len(ttf_tables) + 2] = Table(LOCA_TAG, loca)
  BY <1>2, <1>3, <1>4, PairAppended
<1> QED BY <1>1, <1>2, <1>5
-----------------------------------------------------------------------------
(* Adjoining pairs.                                                        *)

LEMMA AnswersKept ==
  ASSUME UNCHANGED <<tables, data>>, NEW k, NEW i, Assembled'[k] = Assembled[k]
  PROVE  Answers(Assembled[k], tables[i])' <=> Answers(Assembled[k], tables[i])
BY DEF Answers, InData, CopiedBytes, Source

\* A table with its entry's tag and bytes answers for it.
LEMMA CopyAnswers ==
  ASSUME UNCHANGED <<tables, data>>, NEW k, NEW i, InData(tables[i]),
         Assembled'[k] = Table(tables[i].tag, CopiedBytes(tables[i]))
  PROVE  Answers(Assembled[k], tables[i])'
BY DEF Answers, InData, CopiedBytes, Source, Table

\* So does either of the two tables of a pair of outlines.
LEMMA OutlinesAnswer ==
  ASSUME UNCHANGED <<tables, data>>, NEW i, NEW j, NEW glyf, NEW loca,
         tables[i].tag = GLYF_TAG, tables[j].tag = LOCA_TAG,
         tables[i].transformed = tables[j].transformed, InData(tables[i]),
         OutlinesOf(tables[i], tables[j], glyf, loca), NEW k, NEW l,
         Assembled'[k] = Table(GLYF_TAG, glyf), Assembled'[l] = Table(LOCA_TAG, loca)
  PROVE  Answers(Assembled[k], tables[i])' /\ Answers(Assembled[l], tables[j])'
BY DEF Answers, InData, CopiedBytes, Source, Table, OutlinesOf

LEMMA FollowKept ==
  ASSUME IInv, FollowInv, OneTable \/ TwoTables \/ NoTable \/ Stopped
  PROVE  FollowInv'
<1> SUFFICES ASSUME Adjoining'
             PROVE  /\ Len(ttf_tables') = IF BetweenPair' THEN next' ELSE next' - 1
                    /\ FitsU32' => \A k \in 1 .. Len(ttf_tables') :
                                     Answers(Assembled[k], tables[k])'
  BY DEF FollowInv
<1>1. tables' = tables /\ data' = data
  BY DEF OneTable, TwoTables, NoTable, Stopped, Advance
<1>2. Adjoining
  BY <1>1 DEF Adjoining
<1>3. Len(ttf_tables) \in Nat /\ next \in Nat \ {0} /\ Len(tables) \in Nat
  BY LenProperties DEF IInv, TypeOK
<1>4. /\ Len(ttf_tables) = IF BetweenPair THEN next ELSE next - 1
      /\ FitsU32 => \A k \in 1 .. Len(ttf_tables) : Answers(Assembled[k], tables[k])
  BY <1>2 DEF FollowInv
<1>5. CASE OneTable
  <2>1. /\ next \in 1 .. Len(tables) /\ next' = next + 1 /\ ~BetweenPair
        /\ Len(ttf_tables') = Len(ttf_tables) + 1
    BY <1>3, <1>5 DEF OneTable, AtEntry, Advance, BetweenPair
  <2>2. ~BetweenPair'
    BY <1>1, <1>2, <1>3, <1>5, <2>1 DEF OneTable, BetweenPair, Adjoining
  <2>3. ASSUME FitsU32', NEW k \in 1 .. Len(ttf_tables')
        PROVE  Answers(Assembled[k], tables[k])'
    <3>1. CASE k \in 1 .. Len(ttf_tables)
      <4>1. Assembled'[k] = Assembled[k] /\ Answers(Assembled[k], tables[k])
        BY <1>4, <1>5, <2>3, <3>1, OneTableAdded
      <4> QED BY <1>1, <4>1, AnswersKept
    <3>2. CASE k \notin 1 .. Len(ttf_tables)
      <4>1. k = next /\ k = Len(ttf_tables) + 1
        BY <1>3, <1>4, <2>1, <3>2
      <4>2. Assembled'[k] = Table(tables[k].tag, CopiedBytes(tables[k]))
        BY <1>5, <2>3, <4>1, OneTableAdded
      <4> QED BY <1>1, <1>5, <4>1, <4>2, CopyAnswers DEF OneTable
    <3> QED BY <3>1, <3>2
  <2> QED BY <1>3, <1>4, <2>1, <2>2, <2>3
<1>6. CASE TwoTables
  <2>1. /\ next \in 1 .. Len(tables) /\ next' = next + 1
        /\ tables[next].tag = GLYF_TAG /\ Len(ttf_tables') = Len(ttf_tables) + 2
    BY <1>3, <1>6 DEF TwoTables, AtEntry, Advance
  <2>2. next + 1 \in LocasAhead /\ tables[next + 1].tag = LOCA_TAG
    BY <1>2, <1>3, <2>1 DEF Adjoining, LocasAhead
  <2>3. ~BetweenPair /\ BetweenPair'
    BY <1>1, <1>3, <2>1, <2>2, TagsDiffer DEF BetweenPair, LocasAhead
  <2>4. ASSUME FitsU32', NEW k \in 1 .. Len(ttf_tables')
        PROVE  Answers(Assembled[k], tables[k])'
    <3>1. CASE k \in 1 .. Len(ttf_tables)
      <4>1. Assembled'[k] = Assembled[k] /\ Answers(Assembled[k], tables[k])
        BY <1>4, <1>6, <2>4, <3>1, TwoTablesAdded
      <4> QED BY <1>1, <4>1, AnswersKept
    <3>2. CASE k \notin 1 .. Len(ttf_tables)
      <4>1. k = next \/ k = next + 1
        BY <1>3, <1>4, <2>1, <2>3, <3>2
      <4>2. Len(ttf_tables) + 1 = next /\ Len(ttf_tables) + 2 = next + 1
        BY <1>3, <1>4, <2>3
      <4>3. PICK j \in LocasAhead :
               /\ \A l \in LocasAhead : j <= l
               /\ tables[next].transformed = tables[j].transformed
               /\ \E glyf, loca \in Seq(Byte) :
                    /\ OutlinesOf(tables[next], tables[j], glyf, loca)
                    /\ Assembled'[Len(ttf_tables) + 1] = Table(GLYF_TAG, glyf)
                    /\ Assembled'[Len(ttf_tables) + 2] = Table(LOCA_TAG, loca)
        BY <1>6, <2>4, TwoTablesAdded
      <4>4. j = next + 1
        <5>1. j <= next + 1 /\ j \in next + 1 .. Len(tables)
          BY <2>2, <4>3 DEF LocasAhead
        <5> QED BY <1>3, <5>1
      <4>5. PICK glyf \in Seq(Byte), loca \in Seq(Byte) :
               /\ OutlinesOf(tables[next], tables[next + 1], glyf, loca)
               /\ Assembled'[next] = Table(GLYF_TAG, glyf)
               /\ Assembled'[next + 1] = Table(LOCA_TAG, loca)
        BY <4>2, <4>3, <4>4
      <4>6. tables[next].transformed = tables[next + 1].transformed
        BY <4>3, <4>4
      <4>7. PICK i \in Nat : i = next
        BY <1>3
      <4>8. Answers(Assembled[i], tables[i])' /\ Answers(Assembled[i + 1], tables[i + 1])'
        BY <1>1, <1>6, <2>1, <2>2, <4>5, <4>6, <4>7, OutlinesAnswer DEF TwoTables
      <4> QED BY <4>1, <4>7, <4>8
    <3> QED BY <3>1, <3>2
  <2> QED BY <1>3, <1>4, <2>1, <2>3, <2>4
<1>7. CASE NoTable
  <2>1. /\ next \in 1 .. Len(tables) /\ next' = next + 1 /\ BetweenPair
        /\ ttf_tables' = ttf_tables /\ out' = out
    BY <1>3, <1>7 DEF NoTable, AtEntry, Advance, BetweenPair, KeepFont
  <2>2. ~BetweenPair'
    BY <1>1, <1>2, <1>3, <1>7, <2>1, TagsDiffer DEF NoTable, BetweenPair, Adjoining
  <2>3. ASSUME FitsU32', NEW k \in 1 .. Len(ttf_tables')
        PROVE  Answers(Assembled[k], tables[k])'
    BY <1>1, <1>4, <2>1, <2>3, AnswersKept DEF FitsU32, Assembled, Contents
  <2> QED BY <1>3, <1>4, <2>1, <2>2, <2>3
<1>8. CASE Stopped
  <2>1. next' = next /\ Len(ttf_tables') = Len(ttf_tables) /\ (BetweenPair' <=> BetweenPair)
    BY <1>8 DEF Stopped, BetweenPair
  <2>2. ASSUME FitsU32', NEW k \in 1 .. Len(ttf_tables')
        PROVE  Answers(Assembled[k], tables[k])'
    BY <1>1, <1>4, <1>8, <2>1, <2>2, AnswersKept DEF Stopped
  <2> QED BY <1>4, <2>1, <2>2
<1> QED BY <1>5, <1>6, <1>7, <1>8
-----------------------------------------------------------------------------
(* Distinct tags.                                                          *)

LEMMA AnsweredKept ==
  ASSUME UNCHANGED <<tables, data>>, Len(ttf_tables) \in Nat, Len(ttf_tables') \in Nat,
         Len(ttf_tables) <= Len(ttf_tables'),
         \A k \in 1 .. Len(ttf_tables) : Assembled'[k] = Assembled[k],
         NEW i, Answered(tables[i])
  PROVE  Answered(tables[i])'
<1>1. PICK k \in 1 .. Len(ttf_tables) : Answers(Assembled[k], tables[i])
  BY DEF Answered
<1>2. Answers(Assembled[k], tables[i])'
  BY <1>1, AnswersKept
<1>3. k \in 1 .. Len(ttf_tables')
  OBVIOUS
<1> QED BY <1>2, <1>3 DEF Answered

LEMMA LostKept ==
  ASSUME IInv, LostInv, OneTable \/ TwoTables \/ NoTable \/ Stopped
  PROVE  LostInv'
<1> SUFFICES ASSUME FitsU32', DistinctTags', NEW i \in 1 .. next' - 1
             PROVE  /\ tables'[i].tag # LOCA_TAG => Answered(tables[i])'
                    /\ tables'[i].tag = GLYF_TAG =>
                         \A j \in DOMAIN tables' : tables'[j].tag = LOCA_TAG => Answered(tables[j])'
  BY DEF LostInv
<1>1. tables' = tables /\ data' = data
  BY DEF OneTable, TwoTables, NoTable, Stopped, Advance
<1>2. DistinctTags
  BY <1>1 DEF DistinctTags
<1>3. Len(ttf_tables) \in Nat /\ next \in Nat \ {0} /\ DOMAIN tables = 1 .. Len(tables)
  BY LenProperties DEF IInv, TypeOK
<1>4. /\ FitsU32 /\ Len(ttf_tables') \in Nat /\ Len(ttf_tables) <= Len(ttf_tables')
      /\ \A k \in 1 .. Len(ttf_tables) : Assembled'[k] = Assembled[k]
  <2>1. CASE OneTable
    BY <1>3, <2>1, OneTableAdded DEF OneTable
  <2>2. CASE TwoTables
    <3>1. Len(ttf_tables') = Len(ttf_tables) + 2
      BY <2>2 DEF TwoTables
    <3>2. FitsU32 /\ \A k \in 1 .. Len(ttf_tables) : Assembled'[k] = Assembled[k]
      BY <2>2, TwoTablesAdded
    <3> QED BY <1>3, <3>1, <3>2
  <2>3. CASE NoTable
    BY <1>3, <2>3 DEF NoTable, KeepFont, FitsU32, Assembled, Contents
  <2>4. CASE Stopped
    BY <1>3, <2>4 DEF Stopped
  <2> QED BY <2>1, <2>2, <2>3, <2>4
<1>5. ASSUME i \in 1 .. next - 1
      PROVE  /\ tables'[i].tag # LOCA_TAG => Answered(tables[i])'
             /\ tables'[i].tag = GLYF_TAG =>
                  \A j \in DOMAIN tables' : tables'[j].tag = LOCA_TAG => Answered(tables[j])'
  <2>1. /\ tables[i].tag # LOCA_TAG => Answered(tables[i])
        /\ tables[i].tag = GLYF_TAG =>
             \A j \in DOMAIN tables : tables[j].tag = LOCA_TAG => Answered(tables[j])
    BY <1>2, <1>4, <1>5 DEF LostInv
  <2>2. ASSUME NEW j, Answered(tables[j]) PROVE Answered(tables[j])'
    BY <1>1, <1>3, <1>4, <2>2, AnsweredKept
  <2> QED BY <1>1, <2>1, <2>2
<1>6. CASE Stopped
  <2>1. i \in 1 .. next - 1
    BY <1>6 DEF Stopped
  <2> QED BY <1>5, <2>1
<1>7. ASSUME next' = next + 1, i \notin 1 .. next - 1 PROVE i = next
  BY <1>3, <1>7
<1>8. CASE NoTable
  <2>1. ASSUME i \notin 1 .. next - 1 PROVE tables'[i].tag = LOCA_TAG
    BY <1>1, <1>7, <1>8, <2>1 DEF NoTable, Advance
  <2> QED BY <1>5, <2>1, TagsDiffer
<1>9. CASE OneTable
  <2>1. CASE i \notin 1 .. next - 1
    <3>1. i = next /\ tables[i].tag \notin {GLYF_TAG, LOCA_TAG}
      BY <1>7, <1>9, <2>1 DEF OneTable, Advance
    <3>2. PICK k \in Nat : k = Len(ttf_tables) + 1
      BY <1>3
    <3>3. Assembled'[k] = Table(tables[i].tag, CopiedBytes(tables[i]))
      BY <1>9, <3>1, <3>2, OneTableAdded
    <3>4. Answers(Assembled[k], tables[i])'
      BY <1>1, <1>9, <3>1, <3>3, CopyAnswers DEF OneTable
    <3>5. k \in 1 .. Len(ttf_tables')
      BY <1>3, <1>9, <3>2 DEF OneTable
    <3> QED BY <1>1, <3>1, <3>4, <3>5 DEF Answered
  <2> QED BY <1>5, <2>1
<1>10. CASE TwoTables
  <2>1. CASE i \notin 1 .. next - 1
    <3>1. i = next /\ tables[i].tag = GLYF_TAG
      BY <1>7, <1>10, <2>1 DEF TwoTables, Advance
    <3>2. PICK j \in LocasAhead :
             /\ tables[next].transformed = tables[j].transformed
             /\ \E glyf, loca \in Seq(Byte) :
                  /\ OutlinesOf(tables[next], tables[j], glyf, loca)
                  /\ Assembled'[Len(ttf_tables) + 1] = Table(GLYF_TAG, glyf)
                  /\ Assembled'[Len(ttf_tables) + 2] = Table(LOCA_TAG, loca)
      BY <1>10, TwoTablesAdded
    <3>3. PICK glyf \in Seq(Byte), loca \in Seq(Byte) :
             /\ OutlinesOf(tables[i], tables[j], glyf, loca)
             /\ Assembled'[Len(ttf_tables) + 1] = Table(GLYF_TAG, glyf)
             /\ Assembled'[Len(ttf_tables) + 2] = Table(LOCA_TAG, loca)
      BY <3>1, <3>2
    <3>4. PICK k \in Nat : k = Len(ttf_tables) + 1
      BY <1>3
    <3>5. tables[j].tag = LOCA_TAG /\ tables[i].transformed = tables[j].transformed
      BY <3>1, <3>2 DEF LocasAhead
    <3>6. Assembled'[k] = Table(GLYF_TAG, glyf) /\ Assembled'[k + 1] = Table(LOCA_TAG, loca)
      BY <1>3, <3>3, <3>4
    <3>7. Answers(Assembled[k], tables[i])' /\ Answers(Assembled[k + 1], tables[j])'
      BY <1>1, <1>10, <3>1, <3>3, <3>5, <3>6, OutlinesAnswer DEF TwoTables
    <3>8. k \in 1 .. Len(ttf_tables') /\ k + 1 \in 1 .. Len(ttf_tables')
      BY <1>3, <1>10, <3>4 DEF TwoTables
    <3>9. Answered(tables[i])' /\ Answered(tables[j])'
      BY <3>7, <3>8 DEF Answered
    <3>10. ASSUME NEW l \in DOMAIN tables, tables[l].tag = LOCA_TAG PROVE l = j
      <4>1. j \in DOMAIN tables
        BY <1>3, <3>2 DEF LocasAhead
      <4> QED BY <1>2, <3>5, <3>10, <4>1 DEF DistinctTags
    <3> QED BY <1>1, <3>9, <3>10
  <2> QED BY <1>5, <2>1
<1> QED BY <1>6, <1>8, <1>9, <1>10
-----------------------------------------------------------------------------
(* Both invariants together hold always.                                   *)

LEMMA HeadKept ==
  ASSUME IInv, HeadInv, OneTable \/ TwoTables \/ NoTable \/ Stopped
  PROVE  HeadInv'
<1> SUFFICES ASSUME FitsU32', NEW k \in 1 .. Len(ttf_tables') PROVE Adjustable(Assembled'[k])
  BY DEF HeadInv, Adjustable
<1>1. Len(ttf_tables) \in Nat
  BY LenProperties DEF IInv, TypeOK
<1>2. CASE OneTable
  <2>1. /\ FitsU32
        /\ \A j \in 1 .. Len(ttf_tables) : Assembled'[j] = Assembled[j]
        /\ Assembled'[Len(ttf_tables) + 1] = Table(tables[next].tag, CopiedBytes(tables[next]))
    BY <1>2, OneTableAdded
  <2>2. CASE k \in 1 .. Len(ttf_tables)
    BY <2>1, <2>2 DEF HeadInv
  <2>3. CASE k \notin 1 .. Len(ttf_tables)
    <3>1. k = Len(ttf_tables) + 1
      BY <1>1, <1>2, <2>3 DEF OneTable
    <3>2. tables[next] \in Entry /\ InData(tables[next])
      BY <1>2, EntryAtNext DEF IInv, OneTable
    <3>3. Source(tables[next]) \in Seq(Byte)
      BY <3>2, SourceType DEF IInv
    <3>4. CASE tables[next].tag = HEAD_TAG
      <4> DEFINE old == Source(tables[next])
                 new == set_checksum_adjustment(old, 0)
      <4>1. old \in Seq(Byte) /\ Len(old) \in Nat /\ Len(old) >= 12
        BY <1>2, <3>3, <3>4, LenProperties DEF OneTable, HeadTruncated
      <4> HIDE DEF old
      <4>2. Len(new) >= 12 /\ \A i \in 9 .. 12 : new[i] = 0
        BY <4>1, ZeroAdjustmentType
      <4> HIDE DEF new
      <4>3. Assembled'[k] = Table(HEAD_TAG, new)
        BY <2>1, <3>1, <3>4 DEF CopiedBytes, old, new
      <4> QED BY <4>2, <4>3 DEF Adjustable, Table
    <3>5. CASE tables[next].tag # HEAD_TAG
      BY <2>1, <3>1, <3>5 DEF Adjustable, Table
    <3> QED BY <3>4, <3>5
  <2> QED BY <2>2, <2>3
<1>3. CASE TwoTables
  <2>1. /\ FitsU32
        /\ \A j \in 1 .. Len(ttf_tables) : Assembled'[j] = Assembled[j]
        /\ Assembled'[Len(ttf_tables) + 1].tag = GLYF_TAG
        /\ Assembled'[Len(ttf_tables) + 2].tag = LOCA_TAG
    <3>1. PICK glyf \in Seq(Byte), loca \in Seq(Byte) :
            /\ Assembled'[Len(ttf_tables) + 1] = Table(GLYF_TAG, glyf)
            /\ Assembled'[Len(ttf_tables) + 2] = Table(LOCA_TAG, loca)
      BY <1>3, TwoTablesAdded
    <3> QED BY <1>3, <3>1, TwoTablesAdded DEF Table
  <2>2. CASE k \in 1 .. Len(ttf_tables)
    BY <2>1, <2>2 DEF HeadInv
  <2>3. CASE k \notin 1 .. Len(ttf_tables)
    <3>1. k = Len(ttf_tables) + 1 \/ k = Len(ttf_tables) + 2
      <4>1. Len(ttf_tables') = Len(ttf_tables) + 2
        BY <1>3 DEF TwoTables
      <4> QED BY <1>1, <2>3, <4>1
    <3> QED BY <2>1, <3>1, TagsDiffer DEF Adjustable
  <2> QED BY <2>2, <2>3
<1>4. CASE NoTable
  BY <1>4 DEF NoTable, KeepFont, HeadInv, FitsU32, Assembled, Contents
<1>5. CASE Stopped
  BY <1>5 DEF Stopped, HeadInv
<1> QED BY <1>2, <1>3, <1>4, <1>5

LEMMA NextContentsInv == IInv /\ ContentsInv /\ [Next]_vars => ContentsInv'
<1> SUFFICES ASSUME IInv, ContentsInv, [Next]_vars PROVE ContentsInv'
  OBVIOUS
<1>1. CASE Next
  BY <1>1, StepKinds, CountKept, PanicKept, FollowKept, LostKept, HeadKept
     DEF ContentsInv
<1>2. CASE UNCHANGED vars
  BY <1>2, SMTT(20) DEF vars, ContentsInv, CountInv, Passed, PanicInv, FollowInv, Adjoining, BetweenPair,
              LostInv, DistinctTags, Answered, Answers, CopiedBytes, Source, InData, FitsU32,
              HeadInv, Adjustable,
              Assembled, Contents
<1> QED BY <1>1, <1>2

LEMMA ContentsInvariance == Spec => []ContentsInv
<1>1. Init => ContentsInv
  BY InitContentsInv
<1> QED BY <1>1, NextContentsInv, Invariance, PTL DEF Spec

\* A table that answers for an entry is found where its record points.
LEMMA AssembledAt ==
  ASSUME IInv, NEW k \in 1 .. Len(ttf_tables)
  PROVE  Assembled[k].tag = ttf_tables[k].tag /\ Assembled[k].bytes = Region(ttf_tables[k])
BY DEF Assembled, Contents, Table, Region

LEMMA AllPassed ==
  ASSUME IInv, CountInv, status \in {"ok", "count_panic"}
  PROVE  /\ Passed(GLYF_TAG) = Tagged(GLYF_TAG) /\ Passed(LOCA_TAG) = Tagged(LOCA_TAG)
         /\ Cardinality(Tagged(GLYF_TAG)) \in Nat /\ Cardinality(Tagged(LOCA_TAG)) \in Nat
<1>1. next - 1 = Len(tables) /\ Len(tables) \in Nat
  BY LenProperties DEF IInv, TypeOK, CountInv
<1>2. Passed(GLYF_TAG) = Tagged(GLYF_TAG) /\ Passed(LOCA_TAG) = Tagged(LOCA_TAG)
  BY <1>1 DEF Passed, Tagged
<1>3. ASSUME NEW tag PROVE Cardinality(Tagged(tag)) \in Nat
  <2>1. IsFiniteSet(1 .. Len(tables)) /\ Tagged(tag) \subseteq 1 .. Len(tables)
    BY <1>1, FS_Interval DEF Tagged
  <2>2. IsFiniteSet(Tagged(tag))
    BY <2>1, FS_Subset
  <2> QED BY <2>2, FS_CardinalityType
<1> QED BY <1>2, <1>3

\* What the checksum adjustment finds: every head table stands behind the header,
\* on a multiple of four, with a whole adjustment field, of zeros.
HeadsReady == FitsU32 => \A k \in 1 .. Len(ttf_tables) :
  ttf_tables[k].tag = HEAD_TAG =>
    /\ ttf_tables[k].offset % 4 = 0 /\ header_end <= ttf_tables[k].offset
    /\ ttf_tables[k].length >= 12
    /\ \A i \in 9 .. 12 : out[ttf_tables[k].offset + i] = 0

LEMMA PlacedBehindHeader ==
  ASSUME NEW recs \in Seq(Record), NEW buffer, NEW h \in Nat, Placed(recs, buffer, h)
  PROVE  \A k \in 1 .. Len(recs) : h <= recs[k].offset
<1> DEFINE T == {k \in 1 .. Len(recs) : ~(h <= recs[k].offset)}
<1> SUFFICES ASSUME T # {} PROVE FALSE
  OBVIOUS
<1>1. Len(recs) \in Nat
  BY LenProperties
<1>2. PICK m \in T : \A k \in T : m <= k
  <2>1. T \subseteq Nat
    BY <1>1
  <2> HIDE DEF T
  <2> QED BY <2>1, LeastNumber
<1>3. recs[m].offset = StartOf(recs, h, m)
  BY DEF Placed
<1>4. m # 1 /\ m - 1 \in 1 .. Len(recs) /\ m - 1 \notin T
  BY <1>1, <1>2, <1>3 DEF StartOf
<1>5. h <= recs[m-1].offset
  BY <1>4
<1>6. recs[m-1].offset \in Nat /\ recs[m-1].length \in Nat
  <2>1. recs[m-1] \in Record
    BY <1>4, ElementOfSeq
  <2> QED BY <2>1, RecordFields
<1>7. recs[m-1].offset + recs[m-1].length <= Padded(recs[m-1].offset + recs[m-1].length)
      /\ Padded(recs[m-1].offset + recs[m-1].length) \in Nat
  <2>1. PICK n \in Nat : n = recs[m-1].offset + recs[m-1].length
    BY <1>6
  <2> QED BY <2>1, PaddedProperties
<1>8. recs[m].offset = Padded(recs[m-1].offset + recs[m-1].length)
  BY <1>3, <1>4 DEF StartOf
<1> QED BY <1>5, <1>6, <1>7, <1>8

LEMMA HeadsAreReady == IInv /\ HeadInv => HeadsReady
<1> SUFFICES ASSUME IInv, HeadInv, FitsU32, NEW k \in 1 .. Len(ttf_tables),
                    ttf_tables[k].tag = HEAD_TAG, NEW r, r = ttf_tables[k]
             PROVE  /\ r.offset % 4 = 0 /\ header_end <= r.offset /\ r.length >= 12
                    /\ \A i \in 9 .. 12 : out[r.offset + i] = 0
  BY DEF HeadsReady
<1>1. /\ ttf_tables \in Seq(Record) /\ out \in Seq(Byte) /\ header_end \in Nat
      /\ Placed(ttf_tables, out, header_end)
  BY DEF IInv, TypeOK, LayoutInv
<1>2. r.offset % 4 = 0 /\ r.offset + r.length <= Len(out)
  BY <1>1 DEF Placed
<1>3. header_end <= r.offset
  BY <1>1, PlacedBehindHeader
<1>4. r.offset \in Nat /\ r.length \in Nat
  <2>1. r \in Record
    BY <1>1, ElementOfSeq
  <2> QED BY <2>1, RecordFields
<1> DEFINE s == Slice(out, r.offset, r.length)
<1>5. Len(s) >= 12 /\ \A i \in 9 .. 12 : s[i] = 0
  <2>1. Assembled[k].tag = HEAD_TAG /\ Assembled[k].bytes = s
    BY DEF Assembled, Contents, Table
  <2> QED BY <2>1 DEF HeadInv, Adjustable
<1>6. Len(s) = r.length /\ \A i \in 1 .. r.length : s[i] = out[r.offset + i]
  BY <1>1, <1>2, <1>4, SliceProperties, ZenonT(30)
<1> HIDE DEF s
<1>7. r.length >= 12
  BY <1>5, <1>6
<1>8. ASSUME NEW i \in 9 .. 12 PROVE out[r.offset + i] = 0
  <2>1. i \in 1 .. r.length
    BY <1>4, <1>7
  <2> QED BY <1>5, <1>6, <2>1
<1> QED BY <1>2, <1>3, <1>7, <1>8
-----------------------------------------------------------------------------
(* The results.                                                            *)

\* In a directory whose loca entries adjoin their glyf entries record k of the
\* font is that of entry k, with the entry's bytes: a collection may use
\* directory indices as record indices.
THEOREM RecordsFollow == Spec => []RecordsFollowDirectory
<1>1. IInv /\ ContentsInv => RecordsFollowDirectory
  <2> SUFFICES ASSUME IInv, ContentsInv, Adjoining, FitsU32, NEW k \in DOMAIN ttf_tables
               PROVE  /\ k \in DOMAIN tables /\ ttf_tables[k].tag = tables[k].tag
                      /\ tables[k].tag \notin {GLYF_TAG, LOCA_TAG} \/ ~tables[k].transformed
                           => InData(tables[k]) /\ Region(ttf_tables[k]) = CopiedBytes(tables[k])
    BY DEF RecordsFollowDirectory
  <2>1. k \in 1 .. Len(ttf_tables) /\ DOMAIN tables = 1 .. Len(tables)
        /\ Len(ttf_tables) \in Nat /\ Len(tables) \in Nat
    BY LenProperties DEF IInv, TypeOK
  <2>2. Len(ttf_tables) <= Len(tables)
    BY <2>1 DEF IInv, TypeOK, ContentsInv, FollowInv, BetweenPair
  <2>3. Answers(Assembled[k], tables[k])
    BY <2>1 DEF ContentsInv, FollowInv
  <2> QED BY <2>1, <2>2, <2>3, AssembledAt DEF Answers
<1> QED BY <1>1, Invariance, ContentsInvariance, PTL

\* Without repeated tags every entry of an accepted directory has its table in
\* the font, wherever its loca stands.
THEOREM NothingIsLost == Spec => []NothingLost
<1>1. IInv /\ ContentsInv => NothingLost
  <2> SUFFICES ASSUME IInv, ContentsInv, status = "ok", FitsU32, DistinctTags,
                      NEW i \in DOMAIN tables
               PROVE  \E k \in DOMAIN ttf_tables :
                        /\ ttf_tables[k].tag = tables[i].tag
                        /\ tables[i].tag \notin {GLYF_TAG, LOCA_TAG} \/ ~tables[i].transformed
                             => InData(tables[i]) /\ Region(ttf_tables[k]) = CopiedBytes(tables[i])
    BY DEF NothingLost, DistinctTags
  <2>1. /\ DOMAIN tables = 1 .. Len(tables) /\ Len(tables) \in Nat /\ next = Len(tables) + 1
        /\ Len(ttf_tables) = Len(tables)
    BY LenProperties DEF IInv, TypeOK, ContentsInv, CountInv
  <2>2. Answered(tables[i])
    <3>1. CASE tables[i].tag # LOCA_TAG
      BY <2>1, <3>1 DEF ContentsInv, LostInv
    <3>2. CASE tables[i].tag = LOCA_TAG
      <4>1. /\ Cardinality(Tagged(GLYF_TAG)) = Cardinality(Tagged(LOCA_TAG))
            /\ IsFiniteSet(Tagged(GLYF_TAG)) /\ IsFiniteSet(Tagged(LOCA_TAG))
        <5>1. Cardinality(Tagged(GLYF_TAG)) = Cardinality(Tagged(LOCA_TAG))
          BY <2>1, AllPassed DEF ContentsInv, CountInv
        <5>2. IsFiniteSet(1 .. Len(tables))
          BY <2>1, FS_Interval
        <5> QED BY <5>1, <5>2, FS_Subset DEF Tagged
      <4>2. i \in Tagged(LOCA_TAG)
        BY <2>1, <3>2 DEF Tagged
      <4>3. Tagged(GLYF_TAG) # {}
        BY <4>1, <4>2, FS_EmptySet
      <4>4. PICK g \in 1 .. Len(tables) : tables[g].tag = GLYF_TAG
        BY <4>3 DEF Tagged
      <4> QED BY <2>1, <3>2, <4>4 DEF ContentsInv, LostInv
    <3> QED BY <3>1, <3>2
  <2>3. PICK k \in 1 .. Len(ttf_tables) : Answers(Assembled[k], tables[i])
    BY <2>2 DEF Answered
  <2>4. k \in DOMAIN ttf_tables
    BY LenProperties DEF IInv, TypeOK
  <2> QED BY <2>3, <2>4, AssembledAt DEF Answers
<1> QED BY <1>1, Invariance, ContentsInvariance, PTL

\* The closing assertion of write_to_buf fails exactly for directories with
\* another number of glyf than of loca entries, whatever else is in them.
THEOREM CountDecided == Spec => []CountDecidedByPairs
<1>1. IInv /\ ContentsInv => CountDecidedByPairs
  <2> SUFFICES ASSUME IInv, ContentsInv, status \in {"ok", "count_panic"}
               PROVE  status = "ok"
                        <=> Cardinality(Tagged(GLYF_TAG)) = Cardinality(Tagged(LOCA_TAG))
    BY DEF CountDecidedByPairs
  <2>1. /\ Len(ttf_tables) + Cardinality(Tagged(LOCA_TAG))
             = (next - 1) + Cardinality(Tagged(GLYF_TAG))
        /\ next = Len(tables) + 1 /\ (status = "ok" <=> Len(ttf_tables) = Len(tables))
    BY AllPassed DEF ContentsInv, CountInv
  <2>2. Len(tables) \in Nat /\ Len(ttf_tables) \in Nat
        /\ Cardinality(Tagged(GLYF_TAG)) \in Nat /\ Cardinality(Tagged(LOCA_TAG)) \in Nat
    BY LenProperties, AllPassed DEF IInv, TypeOK, ContentsInv
  <2> QED BY <2>1, <2>2
<1> QED BY <1>1, Invariance, ContentsInvariance, PTL

\* The writer itself panics on no directory whose entries lie inside the data and
\* whose loca entries adjoin their glyf entries.
THEOREM SoundInputNeverPanics == Spec => []NoPanicOnSoundInput
<1>1. IInv /\ ContentsInv => NoPanicOnSoundInput
  <2> SUFFICES ASSUME IInv, ContentsInv, Adjoining, \A i \in DOMAIN tables : InData(tables[i])
               PROVE  status \notin {"slice_panic", "count_panic"}
    BY DEF NoPanicOnSoundInput
  <2>1. status # "slice_panic"
    BY DEF ContentsInv, PanicInv
  <2>2. status # "count_panic"
    <3> SUFFICES ASSUME status = "count_panic" PROVE FALSE
      OBVIOUS
    <3>1. next = Len(tables) + 1 /\ Len(ttf_tables) # Len(tables) /\ Len(tables) \in Nat
      BY LenProperties DEF ContentsInv, CountInv, IInv, TypeOK
    <3>2. Len(ttf_tables) = next - 1
      BY <3>1 DEF ContentsInv, FollowInv, BetweenPair
    <3> QED BY <3>1, <3>2
  <2> QED BY <2>1, <2>2
<1> QED BY <1>1, Invariance, ContentsInvariance, PTL
-----------------------------------------------------------------------------
(* The refinement. A font of 4 GiB or more has offsets that no u32 holds,  *)
(* so that a reader of it finds other bytes than were written: the premise *)
(* []FitsU32 is the limit of the file format, not of the proof.            *)

Font == [k \in DOMAIN ttf_tables |->
           [tag |-> ttf_tables[k].tag, bytes |-> Region(ttf_tables[k])]]

LEMMA FontIsAssembled == (IInv => Font = Assembled) /\ (IInv' => Font' = Assembled')
<1>1. IInv => DOMAIN ttf_tables = 1 .. Len(ttf_tables)
  BY LenProperties DEF IInv, TypeOK
<1>2. IInv' => DOMAIN ttf_tables' = 1 .. Len(ttf_tables')
  BY LenProperties DEF IInv, TypeOK
<1> QED BY <1>1, <1>2 DEF Font, Assembled, Contents, Table, Region

\* FontAssembly reads the same directory and data with the same operators.
LEMMA SameOperators ==
  ASSUME NEW e
  PROVE  /\ Assembly!InData(e) <=> InData(e)
         /\ Assembly!Copied(e) = Table(e.tag, CopiedBytes(e))
<1>1. Assembly!Source(e) = Source(e)
  BY DEF Assembly!Source, Source, Assembly!Slice, Slice
<1>2. Assembly!set_checksum_adjustment(Source(e), 0) = set_checksum_adjustment(Source(e), 0)
  BY DEF Assembly!set_checksum_adjustment, set_checksum_adjustment,
         Assembly!Overwrite, Overwrite, Assembly!BigEndian32, BigEndian32,
         Assembly!BigEndian16, BigEndian16, Assembly!U16, U16
<1> QED BY <1>1, <1>2 DEF Assembly!InData, InData, Assembly!Copied, Table, CopiedBytes

LEMMA EmptyAssembly == Init => Assembly!Init
<1> SUFFICES ASSUME Init PROVE Assembly!Init
  OBVIOUS
<1>1. ttf_tables = << >> /\ status = "writing"
  BY DEF Init, InitWith
<1>2. DOMAIN ttf_tables = {}
  BY <1>1
<1>3. [k \in {} |-> [tag |-> ttf_tables[k].tag, bytes |-> Region(ttf_tables[k])]] = << >>
  OBVIOUS
<1> QED BY <1>1, <1>2, <1>3 DEF Assembly!Init

\* Each kind of step is one of the abstract ones, and a loca entry passed over
\* is none.
LEMMA StepsAssemble ==
  IInv /\ IInv' /\ FitsU32' /\ [Next]_vars => [Assembly!Next]_(Assembly!vars)
<1> SUFFICES ASSUME IInv, IInv', FitsU32', [Next]_vars PROVE [Assembly!Next]_(Assembly!vars)
  OBVIOUS
<1> DEFINE outcome == IF status \in {"writing", "ok"} THEN status ELSE "failed"
<1>1. Font = Assembled /\ Font' = Assembled'
  BY FontIsAssembled
<1>2. tables \in Seq(Entry) /\ next \in Nat /\ next >= 1 /\ Len(tables) \in Nat
      /\ DOMAIN tables = 1 .. Len(tables)
  BY LenProperties DEF IInv, TypeOK
<1>3. CASE OneTable
  <2>1. Font' = Append(Font, Assembly!Copied(tables[next]))
    BY <1>1, <1>3, SameOperators DEF OneTable
  <2>2. Assembly!InData(tables[next]) /\ tables[next].tag \notin {GLYF_TAG, LOCA_TAG}
    BY <1>3, SameOperators DEF OneTable
  <2>3. next \in DOMAIN tables
    BY <1>2, <1>3 DEF OneTable, AtEntry
  <2>4. Assembly!AddTable
    BY <2>1, <2>2, <2>3 DEF Assembly!AddTable, Font
  <2>5. outcome = "writing" /\ outcome' = outcome /\ UNCHANGED <<tables, data>>
    BY <1>3 DEF OneTable, AtEntry, Advance
  <2> QED BY <2>4, <2>5 DEF Assembly!Next
<1>4. CASE TwoTables
  <2>1. PICK j \in LocasAhead :
          /\ tables[next].transformed = tables[j].transformed
          /\ \E glyf, loca \in Seq(Byte) :
               /\ OutlinesOf(tables[next], tables[j], glyf, loca)
               /\ Font' = Font \o <<Table(GLYF_TAG, glyf), Table(LOCA_TAG, loca)>>
    BY <1>1, <1>4 DEF TwoTables
  <2>2. PICK glyf \in Seq(Byte), loca \in Seq(Byte) :
          /\ OutlinesOf(tables[next], tables[j], glyf, loca)
          /\ Font' = Font \o <<Table(GLYF_TAG, glyf), Table(LOCA_TAG, loca)>>
    BY <2>1
  <2>3. next \in DOMAIN tables /\ tables[next].tag = GLYF_TAG /\ Assembly!InData(tables[next])
    BY <1>2, <1>4, SameOperators DEF TwoTables, AtEntry
  <2>4. j \in DOMAIN tables /\ next < j /\ tables[j].tag = LOCA_TAG
    BY <1>2 DEF LocasAhead
  <2>5. ASSUME tables[next].transformed PROVE Assembly!AddOutlines
    <3>1. PICK g \in GlyfOutcomes : glyf = g.glyf /\ loca = g.loca
      BY <2>2, <2>5 DEF OutlinesOf
    <3>2. Font' = Font \o << [tag |-> GLYF_TAG, bytes |-> g.glyf],
                             [tag |-> LOCA_TAG, bytes |-> g.loca] >>
      BY <2>2, <3>1 DEF Table
    <3> QED BY <2>1, <2>3, <2>4, <2>5, <3>2 DEF Assembly!AddOutlines, Font
  <2>6. ASSUME ~tables[next].transformed PROVE Assembly!AddOutlines
    <3>1. InData(tables[j]) /\ glyf = CopiedBytes(tables[next]) /\ loca = CopiedBytes(tables[j])
      BY <2>2, <2>6 DEF OutlinesOf
    <3>2. Font' = Font \o << Assembly!Copied(tables[next]), Assembly!Copied(tables[j]) >>
      BY <2>2, <2>3, <2>4, <3>1, SameOperators
    <3>3. Assembly!InData(tables[j])
      BY <3>1, SameOperators
    <3> QED BY <2>1, <2>3, <2>4, <2>6, <3>2, <3>3 DEF Assembly!AddOutlines, Font
  <2>7. Assembly!AddOutlines
    BY <2>5, <2>6
  <2>8. outcome = "writing" /\ outcome' = outcome /\ UNCHANGED <<tables, data>>
    BY <1>4 DEF TwoTables, AtEntry, Advance
  <2> QED BY <2>7, <2>8 DEF Assembly!Next
<1>5. CASE NoTable
  <2>1. UNCHANGED <<tables, data, ttf_tables, out, status>>
    BY <1>5 DEF NoTable, Advance, KeepFont
  <2> QED BY <2>1 DEF Assembly!vars, Region
<1>6. CASE Stopped
  <2>1. Font' = Font /\ UNCHANGED <<tables, data>>
    BY <1>1, <1>6 DEF Stopped
  <2>2. outcome = "writing" /\ outcome' \in {"ok", "failed"}
    BY <1>6 DEF Stopped
  <2>3. ASSUME outcome' = "ok" PROVE Len(Font) = Len(tables)
    <3>1. Len(ttf_tables) = Len(tables)
      BY <1>6, <2>3 DEF Stopped
    <3>2. DOMAIN ttf_tables = 1 .. Len(ttf_tables) /\ Len(ttf_tables) \in Nat
      BY LenProperties DEF IInv, TypeOK
    <3>3. Len(Font) = Len(ttf_tables)
      BY <3>2 DEF Font
    <3> QED BY <3>1, <3>3
  <2>4. Assembly!Complete \/ Assembly!Fail
    BY <2>1, <2>2, <2>3 DEF Assembly!Complete, Assembly!Fail, Font
  <2> QED BY <2>1, <2>2, <2>4 DEF Assembly!Next
<1>7. CASE UNCHANGED vars
  BY <1>7 DEF vars, Assembly!vars, Region
<1> QED BY <1>3, <1>4, <1>5, <1>6, <1>7, StepKinds

\* The loop is an implementation of FontAssembly: as long as the font fits its
\* format it is assembled table by table, and what is in it never changes again.
THEOREM Refinement == Spec /\ []FitsU32 => ImplementsAssembly
<1>1. Spec => []IInv
  BY Invariance
<1> QED BY <1>1, EmptyAssembly, StepsAssemble, PTL DEF Spec, ImplementsAssembly, Assembly!Spec
=============================================================================
