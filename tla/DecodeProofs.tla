---------------------------- MODULE DecodeProofs ----------------------------
(***************************************************************************)
(* What Decode guarantees for every set of input files. The writer's part  *)
(* of the state follows TablesWriter, whose results are instantiated here; *)
(* what is added is the frame around it: the parts of the file read first, *)
(* the header written in front of the tables, and the adjustment.          *)
(***************************************************************************)
EXTENDS Decode, SfntProofs

WP == INSTANCE TablesWriterProofs WITH Inputs <- {}
-----------------------------------------------------------------------------
(* The sizes of the font directories of a collection.                      *)

LEMMA RawEntryFields ==
  ASSUME NEW raw \in RawEntry
  PROVE  /\ raw.tag \in Tags /\ raw.orig_length \in Nat /\ raw.transform_length \in Nat
BY WidthType DEF RawEntry

LEMMA FontEntryFields ==
  ASSUME NEW f \in FontEntry
  PROVE  /\ f.flavor \in Nat /\ f.table_indices \in Seq(0 .. U16 - 1)
         /\ calculate_directory_size(f) \in Nat
<1>1. f.flavor \in Nat /\ f.table_indices \in Seq(0 .. U16 - 1)
  BY WidthType DEF FontEntry
<1>2. Len(f.table_indices) \in Nat
  BY <1>1, LenProperties
<1> QED BY <1>1, <1>2 DEF calculate_directory_size

Sizes(list) == [i \in 1 .. Len(list) |-> calculate_directory_size(list[i])]

LEMMA SizesAddUp ==
  ASSUME NEW list \in Seq(FontEntry)
  PROVE  /\ \A i \in 1 .. Len(list) : Sizes(list)[i] \in Nat
         /\ AddsUp(DirectorySizes(list), Sizes(list), Len(list))
<1> DEFINE n == Len(list)
           Adds(f) == f = [i \in 0 .. n |-> IF i = 0 THEN 0
                                            ELSE f[i-1] + calculate_directory_size(list[i])]
<1>1. n \in Nat
  BY LenProperties
<1>2. ASSUME NEW i \in 1 .. n
      PROVE  calculate_directory_size(list[i]) \in Nat
                /\ Sizes(list)[i] = calculate_directory_size(list[i])
  <2>1. list[i] \in FontEntry
    BY ElementOfSeq
  <2> QED BY <2>1, FontEntryFields DEF Sizes
<1>3. ASSUME NEW f PROVE Adds(f) <=> AddsUp(f, Sizes(list), n)
  <2>1. \A i \in 0 .. n : (IF i = 0 THEN 0 ELSE f[i-1] + calculate_directory_size(list[i]))
                        = (IF i = 0 THEN 0 ELSE f[i-1] + Sizes(list)[i])
    BY <1>1, <1>2
  <2> QED BY <2>1 DEF AddsUp
<1>4. \E f : AddsUp(f, Sizes(list), n)
  BY <1>1, <1>2, SumsExist
<1>5. Adds(CHOOSE f : Adds(f))
  <2>1. \E f : Adds(f)
    BY <1>3, <1>4
  <2> HIDE DEF Adds
  <2> QED BY <2>1
<1>6. DirectorySizes(list) = CHOOSE f : Adds(f)
  BY DEF DirectorySizes
<1>7. Adds(DirectorySizes(list))
  BY <1>5, <1>6
<1> QED BY <1>2, <1>3, <1>7

LEMMA DirectorySizesProperties ==
  ASSUME NEW list \in Seq(FontEntry)
  PROVE  /\ \A i \in 0 .. Len(list) : DirectorySizes(list)[i] \in Nat
         /\ DirectorySizes(list)[0] = 0
         /\ \A i \in 1 .. Len(list) : DirectorySizes(list)[i]
              = DirectorySizes(list)[i-1] + calculate_directory_size(list[i])
         /\ \A i \in 0 .. Len(list) : DirectorySizes(list)[i] <= DirectorySizes(list)[Len(list)]
<1>1. Len(list) \in Nat
  BY LenProperties
<1>2. /\ \A i \in 1 .. Len(list) : Sizes(list)[i] \in Nat
      /\ AddsUp(DirectorySizes(list), Sizes(list), Len(list))
  BY SizesAddUp
<1>3. \A i \in 1 .. Len(list) : Sizes(list)[i] = calculate_directory_size(list[i])
  BY DEF Sizes
<1> DEFINE n == Len(list)
           t == Sizes(list)
           d == DirectorySizes(list)
<1> HIDE DEF n, t, d
<1>4. /\ \A i \in 0 .. n : d[i] \in Nat
      /\ d[0] = 0
      /\ \A i \in 1 .. n : d[i] = d[i-1] + t[i]
      /\ \A i \in 0 .. n : d[i] <= d[n]
  BY <1>1, <1>2, SumsProperties DEF n, t, d
<1> QED BY <1>3, <1>4 DEF n, t, d

\* All sizes are multiples of four.
LEMMA DirectorySizesAligned ==
  ASSUME NEW list \in Seq(FontEntry)
  PROVE  \A i \in 0 .. Len(list) : DirectorySizes(list)[i] % 4 = 0
<1> DEFINE d == DirectorySizes(list)
           n == Len(list)
           T == {i \in 0 .. n : ~(d[i] % 4 = 0)}
<1> SUFFICES ASSUME T # {} PROVE FALSE
  OBVIOUS
<1>1. n \in Nat
  BY LenProperties
<1>2. /\ \A i \in 0 .. n : d[i] \in Nat
      /\ d[0] = 0
      /\ \A i \in 1 .. n : d[i] = d[i-1] + calculate_directory_size(list[i])
  BY DirectorySizesProperties
<1> HIDE DEF d
<1>3. PICK m \in T : \A i \in T : m <= i
  <2>1. T \subseteq Nat
    BY <1>1
  <2> HIDE DEF T
  <2> QED BY <2>1, LeastNumber
<1>4. m \in 1 .. n /\ m - 1 \in 0 .. n /\ m - 1 \notin T
  BY <1>1, <1>2, <1>3
<1>5. Len(list[m].table_indices) \in Nat
  <2>1. list[m] \in FontEntry
    BY <1>4, ElementOfSeq
  <2>2. list[m].table_indices \in Seq(0 .. U16 - 1)
    BY <2>1, FontEntryFields
  <2> QED BY <2>2, LenProperties
<1>6. d[m-1] % 4 = 0 /\ d[m-1] \in Nat
  BY <1>2, <1>4
<1>7. d[m] = d[m-1] + (12 + 16 * Len(list[m].table_indices))
  BY <1>2, <1>4 DEF calculate_directory_size
<1>8. d[m] % 4 = 0
  BY <1>5, <1>6, <1>7
<1> QED BY <1>3, <1>8

\* They depend on the numbers of indices only, which sorting keeps.
LEMMA DirectorySizesAgree ==
  ASSUME NEW a \in Seq(FontEntry), NEW b \in Seq(FontEntry), Len(a) = Len(b),
         \A i \in 1 .. Len(a) : Len(a[i].table_indices) = Len(b[i].table_indices)
  PROVE  \A i \in 0 .. Len(a) : DirectorySizes(a)[i] = DirectorySizes(b)[i]
<1> DEFINE n == Len(a)
           s == Sizes(a)
           t == Sizes(b)
           f == DirectorySizes(a)
           g == DirectorySizes(b)
<1>1. n \in Nat
  BY LenProperties
<1>2. AddsUp(f, s, n) /\ AddsUp(g, t, n) /\ \A i \in 1 .. n : s[i] \in Nat
  BY SizesAddUp
<1>3. \A i \in 1 .. n : t[i] = s[i]
  BY DEF Sizes, calculate_directory_size
<1> HIDE DEF n, s, t, f, g
<1>4. AddsUp(f, s, n) /\ AddsUp(g, t, n)
  BY <1>2
<1>5. ASSUME NEW i \in 0 .. n PROVE f[i] = g[i]
  BY <1>1, <1>3, <1>4, SumsAgree
<1> QED BY <1>5 DEF n, f, g
-----------------------------------------------------------------------------
(* The start of an entry's data.                                           *)

LEMMA StartProperties ==
  ASSUME input \in Files
  PROVE  /\ Start(1) = 0
         /\ \A i \in 1 .. Len(input.directory) :
              /\ Start(i) \in Nat /\ Source(i).src_length \in Nat
              /\ Start(i + 1) = Start(i) + Source(i).src_length
<1> DEFINE n == Len(input.directory)
           term == [i \in 1 .. n |-> Source(i).src_length]
           Adds(f) == f = [i \in 0 .. n |-> IF i = 0 THEN 0 ELSE f[i-1] + Source(i).src_length]
           start == CHOOSE f : Adds(f)
<1>1. n \in Nat /\ input.directory \in Seq(RawEntry)
  BY FilesAssumption, LenProperties
<1>2. ASSUME NEW i \in 1 .. n PROVE Source(i).src_length \in Nat /\ term[i] = Source(i).src_length
  <2>1. input.directory[i] \in RawEntry
    BY <1>1, ElementOfSeq
  <2> QED BY <2>1, RawEntryFields DEF Source, EntryOf
<1>3. ASSUME NEW f PROVE Adds(f) <=> AddsUp(f, term, n)
  <2>1. \A i \in 0 .. n : (IF i = 0 THEN 0 ELSE f[i-1] + Source(i).src_length)
                        = (IF i = 0 THEN 0 ELSE f[i-1] + term[i])
    BY <1>1, <1>2
  <2> QED BY <2>1 DEF AddsUp
<1>4. \A i \in 1 .. n : term[i] \in Nat
  BY <1>2
<1> HIDE DEF term
<1>5. \E f : AddsUp(f, term, n)
  BY <1>1, <1>4, SumsExist
<1>6. Adds(start)
  <2>1. \E f : Adds(f)
    BY <1>3, <1>5
  <2> HIDE DEF Adds
  <2> QED BY <2>1
<1>7. AddsUp(start, term, n)
  BY <1>3, <1>6
<1>8. \A i : Start(i) = start[i-1]
  BY DEF Start
<1> HIDE DEF start, n
<1>9. /\ \A i \in 0 .. n : start[i] \in Nat
      /\ start[0] = 0
      /\ \A i \in 1 .. n : start[i] = start[i-1] + term[i]
  BY <1>1, <1>4, <1>7, SumsProperties
<1>10. Start(1) = 0
  <2>1. 1 - 1 = 0
    OBVIOUS
  <2> QED BY <1>8, <1>9, <2>1
<1>11. ASSUME NEW i \in 1 .. n
       PROVE  /\ Start(i) \in Nat /\ Source(i).src_length \in Nat
              /\ Start(i + 1) = Start(i) + Source(i).src_length
  <2>1. i - 1 \in 0 .. n /\ (i + 1) - 1 = i
    BY <1>1
  <2> QED BY <1>2, <1>8, <1>9, <2>1 DEF n
<1> QED BY <1>10, <1>11 DEF n
-----------------------------------------------------------------------------
(* The adjustment: a value written over a zero word changes the checksum   *)
(* by that value.                                                          *)

Adjusted(buffer, o, l, v) ==
  Overwrite(buffer, o, set_checksum_adjustment(Slice(buffer, o, l), v))

\* new is buffer with the four bytes over elements o + 9 to o + 12.
Patched(new, buffer, o, bytes) ==
  /\ new \in Seq(Byte) /\ Len(new) = Len(buffer)
  /\ \A i \in 1 .. Len(buffer) :
       new[i] = IF i \in o + 9 .. o + 12 THEN bytes[i - o - 8] ELSE buffer[i]

LEMMA AdjustedBytes ==
  ASSUME NEW buffer \in Seq(Byte), NEW o \in Nat, NEW l \in Nat, l >= 12,
         o + l <= Len(buffer), NEW v \in Nat
  PROVE  Patched(Adjusted(buffer, o, l, v), buffer, o, BigEndian32(v))
<1> DEFINE b == BigEndian32(v)
           head == Slice(buffer, o, l)
           patched == Overwrite(head, 8, b)
           all == Overwrite(buffer, o, patched)
<1>1. b \in Seq(Byte) /\ Len(b) = 4
  BY BigEndian32Properties
<1>2. head \in Seq(Byte) /\ Len(head) = l /\ \A i \in 1 .. l : head[i] = buffer[o + i]
  BY SliceProperties
<1> HIDE DEF b, head
<1>3. patched \in Seq(Byte) /\ Len(patched) = l
  BY <1>1, <1>2, OverwriteProperties
<1>4. ASSUME NEW i \in 1 .. l
      PROVE  patched[i] = IF i \in 9 .. 12 THEN b[i - 8] ELSE buffer[o + i]
  <2>1. i \in DOMAIN head
    BY <1>2, LenProperties
  <2>2. patched[i] = IF i \in 8 + 1 .. 8 + Len(b) THEN b[i - 8] ELSE head[i]
    BY <2>1 DEF Overwrite
  <2> QED BY <1>1, <1>2, <2>2
<1> HIDE DEF patched
<1>5. all \in Seq(Byte) /\ Len(all) = Len(buffer)
  BY <1>3, OverwriteProperties
<1>6. ASSUME NEW i \in 1 .. Len(buffer)
      PROVE  all[i] = IF i \in o + 9 .. o + 12 THEN b[i - o - 8] ELSE buffer[i]
  <2>1. all[i] = IF i \in o + 1 .. o + Len(patched) THEN patched[i - o] ELSE buffer[i]
    BY OverwriteAt
  <2>2. CASE i \in o + 1 .. o + l
    <3>1. i - o \in 1 .. l /\ o + (i - o) = i /\ (i - o \in 9 .. 12 <=> i \in o + 9 .. o + 12)
          /\ (i - o) - 8 = i - o - 8
      BY <2>2
    <3>2. all[i] = patched[i - o]
      BY <1>3, <2>1, <2>2
    <3>3. patched[i - o] = IF i - o \in 9 .. 12 THEN b[(i - o) - 8] ELSE buffer[o + (i - o)]
      BY <1>4, <3>1
    <3> QED BY <3>1, <3>2, <3>3
  <2>3. CASE i \notin o + 1 .. o + l
    <3>1. i \notin o + 9 .. o + 12
      BY <2>3
    <3> QED BY <1>3, <2>1, <2>3, <3>1
  <2> QED BY <2>2, <2>3
<1> QED BY <1>5, <1>6 DEF Patched, Adjusted, set_checksum_adjustment, all, patched, head, b

LEMMA QuotientOfFour == \A o \in Nat : o % 4 = 0 => \E q \in Nat : o = 4 * q
<1> SUFFICES ASSUME NEW o \in Nat, o % 4 = 0 PROVE \E q \in Nat : o = 4 * q
  OBVIOUS
<1>1. o \div 4 \in Nat /\ o = 4 * (o \div 4)
  OBVIOUS
<1> QED BY <1>1

LEMMA AdjustedChecksum ==
  ASSUME NEW buffer \in Seq(Byte), NEW o \in Nat, o % 4 = 0, NEW l \in Nat, l >= 12,
         o + l <= Len(buffer), \A i \in 9 .. 12 : buffer[o + i] = 0,
         NEW v \in 0 .. U32 - 1
  PROVE  calculate_checksum(Adjusted(buffer, o, l, v)) = (calculate_checksum(buffer) + v) % U32
<1> DEFINE b == BigEndian32(v)
           new == Adjusted(buffer, o, l, v)
<1>1. Len(buffer) \in Nat /\ v \in Nat
  BY LenProperties, WidthType
<1>2. /\ new \in Seq(Byte) /\ Len(new) = Len(buffer)
      /\ \A i \in 1 .. Len(buffer) :
           new[i] = IF i \in o + 9 .. o + 12 THEN b[i - o - 8] ELSE buffer[i]
  <2>1. Patched(new, buffer, o, b)
    BY <1>1, AdjustedBytes
  <2> QED BY <2>1 DEF Patched
<1>3. ((b[1] * Radix + b[2]) * Radix + b[3]) * Radix + b[4] = v
  BY BigEndian32Value
<1> HIDE DEF b, new
<1>4. PICK q \in Nat : o = 4 * q
  BY QuotientOfFour
<1> DEFINE w == q + 3
<1>5. w \in Nat \ {0} /\ 4 * w = o + 12 /\ 4 * w <= Len(buffer)
  BY <1>1, <1>4
<1>6. Word(buffer, w) = 0
  <2>1. \A i \in 9 .. 12 : ByteOrZero(buffer, o + i) = 0
    BY <1>1 DEF ByteOrZero
  <2>2. /\ ByteOrZero(buffer, 4*w - 3) = 0 /\ ByteOrZero(buffer, 4*w - 2) = 0
        /\ ByteOrZero(buffer, 4*w - 1) = 0 /\ ByteOrZero(buffer, 4*w) = 0
    <3>1. 4*w - 3 = o + 9 /\ 4*w - 2 = o + 10 /\ 4*w - 1 = o + 11 /\ 4*w = o + 12
      BY <1>5
    <3> QED BY <2>1, <3>1, SMTT(20)
  <2> QED BY <2>2, RadixAssumption DEF Word
<1>7. Word(new, w) = v
  <2>1. ASSUME NEW i \in 1 .. 4 PROVE ByteOrZero(new, o + 8 + i) = b[i]
    <3>1. o + 8 + i \in 1 .. Len(buffer) /\ o + 8 + i \in o + 9 .. o + 12 /\ (o + 8 + i) - o - 8 = i
      BY <1>1
    <3> QED BY <1>2, <3>1 DEF ByteOrZero
  <2>2. /\ ByteOrZero(new, 4*w - 3) = b[1] /\ ByteOrZero(new, 4*w - 2) = b[2]
        /\ ByteOrZero(new, 4*w - 1) = b[3] /\ ByteOrZero(new, 4*w) = b[4]
    <3>1. /\ 4*w - 3 = o + 8 + 1 /\ 4*w - 2 = o + 8 + 2
          /\ 4*w - 1 = o + 8 + 3 /\ 4*w = o + 8 + 4
      BY <1>5
    <3> QED BY <2>1, <3>1
  <2> QED BY <1>3, <2>2 DEF Word
<1>8. ASSUME NEW n \in Nat \ {0}, n # w PROVE Word(new, n) = Word(buffer, n)
  <2>1. ASSUME NEW i \in 4*n - 3 .. 4*n PROVE ByteOrZero(new, i) = ByteOrZero(buffer, i)
    <3>1. i >= 1 /\ i \notin o + 9 .. o + 12
      BY <1>5, <1>8
    <3> QED BY <1>1, <1>2, <3>1 DEF ByteOrZero
  <2>2. /\ ByteOrZero(new, 4*n - 3) = ByteOrZero(buffer, 4*n - 3)
        /\ ByteOrZero(new, 4*n - 2) = ByteOrZero(buffer, 4*n - 2)
        /\ ByteOrZero(new, 4*n - 1) = ByteOrZero(buffer, 4*n - 1)
        /\ ByteOrZero(new, 4*n) = ByteOrZero(buffer, 4*n)
    BY <2>1
  <2> QED BY <2>2 DEF Word
<1> HIDE DEF w
<1>9. calculate_checksum(new) = (calculate_checksum(buffer) + Word(new, w)) % U32
  BY <1>2, <1>5, <1>6, <1>8, ChecksumOfReplaced
<1> QED BY <1>7, <1>9 DEF new
-----------------------------------------------------------------------------
(* The inductive invariant.                                                *)

Reading    == {"header", "directory", "collection", "stream"}
LatePanics == {"index_panic", "room_panic", "range_panic"}

\* What has been read of the table directory, and the length summed up so far.
ParsedInv ==
  /\ input \in Files
  /\ phase \in Reading \cup {"write", "fonts", "head"}
  /\ uncompressed_length \in 0 .. U32 - 1
  /\ tables \in Seq(WP!Entry)
  /\ Len(tables) <= input.num_tables /\ Len(tables) <= Len(input.directory)
  /\ phase \notin {"header", "directory"} => Len(tables) = input.num_tables
  /\ OverflowChecks => uncompressed_length = Start(Len(tables) + 1)

\* The fonts of a collection consist of tables of the directory.
IndicesBelow(list, n) ==
  \A f \in 1 .. Len(list) : \A i \in 1 .. Len(list[f].table_indices) :
    list[f].table_indices[i] < n
FontsInv == fonts \in Seq(FontEntry) /\ IndicesBelow(fonts, input.num_tables)

\* Until the data is decompressed nothing is written.
FreshInv == phase \in Reading =>
  font = 1 /\ cursor = 0 /\ WP!InitWith(tables, << >>, 0)

\* While the tables are written the writer's own invariants hold.
WriterInv == phase = "write" => WP!IInv /\ WP!ContentsInv

\* What remains of them when the header is put in front of the tables, and the
\* part of it that the adjustment uses up.
BufferInv ==
  /\ WP!TypeOK /\ header_end % 4 = 0 /\ WP!EndsInside
  /\ FitsU32 => \A k \in 1 .. Len(ttf_tables) :
                  ttf_tables[k].tag = HEAD_TAG => ttf_tables[k].length >= 12
  /\ result # "ok" => WP!HeadsReady

\* How far the header is written.
HeaderInv ==
  /\ font \in 1 .. Len(fonts) + 1 /\ cursor \in 0 .. header_end
  /\ phase \notin Reading => header_end = HeaderSize
  /\ phase = "write" => cursor = 0
  /\ phase = "fonts" =>
       IsCollection /\ cursor = 12 + 4 * Len(fonts) + DirectorySizes(fonts)[font - 1]
  /\ phase = "head" =>
       /\ ~IsCollection
       /\ \A i \in DOMAIN ttf_header :
            \E k \in 1 .. Len(ttf_tables) : ttf_header[i] = ttf_tables[k]
  /\ phase \in {"fonts", "head"} => status = "ok" /\ Len(ttf_tables) = Len(tables)

ResultInv == result \in Results \ LatePanics /\ FontChecksum

Inv == ParsedInv /\ FontsInv /\ FreshInv /\ WriterInv /\ BufferInv /\ HeaderInv /\ ResultInv
-----------------------------------------------------------------------------
(* The writer's results, for the writer of a conversion.                   *)

LEMMA SameBytes ==
  /\ W!Byte = Byte /\ W!U32 = U32 /\ WP!Byte = Byte /\ WP!U32 = U32
  /\ W!Zeros(0) = Zeros(0) /\ WP!Zeros(0) = Zeros(0)
BY DEF W!Byte, W!U32, W!U16, WP!Byte, WP!U32, WP!U16, Byte, U32, U16, W!Zeros, WP!Zeros, Zeros

LEMMA SameNext == W!Next <=> WP!Next
BY DEF W!Next, WP!Next,
  W!TransformedGlyf, WP!TransformedGlyf, W!GlyfDecodeFails, WP!GlyfDecodeFails,
  W!PlainGlyf, WP!PlainGlyf, W!MissingLoca, WP!MissingLoca,
  W!TransformMismatch, WP!TransformMismatch, W!SkipLoca, WP!SkipLoca,
  W!HeadTable, WP!HeadTable, W!TruncatedHead, WP!TruncatedHead,
  W!TransformedHmtx, WP!TransformedHmtx, W!SimpleTable, WP!SimpleTable,
  W!SlicePanic, WP!SlicePanic, W!Finish, WP!Finish,
  W!AtEntry, WP!AtEntry, W!AtGlyf, WP!AtGlyf, W!Paired, WP!Paired, W!AtHead, WP!AtHead,
  W!AtHmtx, WP!AtHmtx, W!AtSimple, WP!AtSimple, W!Advance, WP!Advance,
  W!Return, WP!Return, W!KeepFont, WP!KeepFont, W!InData, WP!InData, W!Source, WP!Source,
  W!NextLoca, WP!NextLoca, W!LocasAhead, WP!LocasAhead, W!PushTable, WP!PushTable,
  W!PushOutlines, WP!PushOutlines, W!RecordOf, WP!RecordOf, W!Appended, WP!Appended,
  W!calculate_checksum, WP!calculate_checksum, W!WordSums, WP!WordSums, W!Word, WP!Word,
  W!ByteOrZero, WP!ByteOrZero, W!Padded, WP!Padded, W!U32, WP!U32, W!U16, WP!U16,
  W!pad_to_multiple_of_four, WP!pad_to_multiple_of_four, W!Zeros, WP!Zeros,
  W!Slice, WP!Slice, W!set_checksum_adjustment, WP!set_checksum_adjustment,
  W!Overwrite, WP!Overwrite, W!BigEndian32, WP!BigEndian32, W!BigEndian16, WP!BigEndian16,
  W!HeadTruncated, WP!HeadTruncated

LEMMA SameType == W!TypeOK <=> WP!TypeOK
BY DEF W!TypeOK, WP!TypeOK, W!Entry, WP!Entry, W!Record, WP!Record, W!Byte, WP!Byte,
       W!U32, WP!U32, W!U16, WP!U16, W!Statuses, WP!Statuses

\* Before the call: a header of zeros, and no table.
Called == /\ WP!InitWith(tables, data, header_end)
          /\ tables \in Seq(WP!Entry) /\ data \in Seq(Byte)
          /\ header_end \in Nat /\ header_end % 4 = 0

LEMMA CalledInv == Called => WP!IInv /\ WP!ContentsInv
BY WP!InitWithIInv, WP!InitWithContentsInv, RadixAssumption, TagAssumption, OutcomeAssumption,
   SameBytes DEF WP!Entry, Called

LEMMA CalledInvNext == Called' => WP!IInv' /\ WP!ContentsInv'
<1>1. Called' => (WP!IInv /\ WP!ContentsInv)'
  BY CalledInv, PTL
<1> QED BY <1>1

LEMMA WriterKept ==
  ASSUME WP!IInv, WP!ContentsInv, W!Next \/ UNCHANGED writer
  PROVE  WP!IInv' /\ WP!ContentsInv' /\ WP!KeepsBytes
<1>1. [WP!Next]_(WP!vars)
  BY SameNext DEF writer, WP!vars
<1>2. WP!IInv' /\ WP!KeepsBytes
  BY <1>1, WP!StepKeepsIInv, RadixAssumption, TagAssumption, OutcomeAssumption, SameBytes
     DEF WP!Entry
<1>3. WP!ContentsInv'
  BY <1>1, WP!NextContentsInv, RadixAssumption, TagAssumption, OutcomeAssumption, SameBytes
     DEF WP!Entry
<1> QED BY <1>2, <1>3

\* What the invariants of the writer leave for later.
WrittenInv ==
  /\ WP!TypeOK /\ header_end % 4 = 0 /\ WP!EndsInside /\ WP!HeadsReady
  /\ FitsU32 => \A k \in 1 .. Len(ttf_tables) :
                  ttf_tables[k].tag = HEAD_TAG => ttf_tables[k].length >= 12

LEMMA WrittenByWriter == WP!IInv /\ WP!ContentsInv => WrittenInv
<1> SUFFICES ASSUME WP!IInv, WP!ContentsInv PROVE WrittenInv
  OBVIOUS
<1>1. WP!TypeOK /\ header_end % 4 = 0 /\ WP!EndsInside
  BY DEF WP!IInv
<1>2. WP!HeadsReady
  BY WP!HeadsAreReady, RadixAssumption, TagAssumption, OutcomeAssumption, SameBytes
     DEF WP!Entry, WP!ContentsInv
<1> QED BY <1>1, <1>2, SameBytes DEF WrittenInv, WP!HeadsReady, FitsU32, WP!FitsU32

LEMMA WrittenByWriterNext == WP!IInv' /\ WP!ContentsInv' => WrittenInv'
<1>1. (WP!IInv /\ WP!ContentsInv)' => WrittenInv'
  BY WrittenByWriter, PTL
<1> QED BY <1>1

LEMMA WrittenKeepsBuffer == WrittenInv' => BufferInv'
BY DEF WrittenInv, BufferInv
-----------------------------------------------------------------------------
(* A conversion begins in it.                                              *)

LEMMA FileFields ==
  ASSUME input \in Files
  PROVE  /\ input.num_tables \in Nat /\ input.directory \in Seq(RawEntry)
         /\ Len(input.directory) \in Nat /\ DOMAIN input.directory = 1 .. Len(input.directory)
         /\ input.fonts \in Seq(FontEntry) /\ input.flavor \in Nat
         /\ input.stream.plain \in Seq(Byte)
<1>1. input.flavor \in Nat
  BY FilesAssumption, WidthType
<1> QED BY <1>1, FilesAssumption, LenProperties

LEMMA FreshIsCalled ==
  ASSUME ParsedInv, FreshInv, phase \in Reading
  PROVE  Called
<1>1. WP!InitWith(tables, << >>, 0)
  BY DEF FreshInv
<1>2. data = << >> /\ header_end = 0
  BY <1>1 DEF WP!InitWith
<1> QED BY <1>1, <1>2 DEF Called, ParsedInv

LEMMA InitInv == Init => Inv
<1> SUFFICES ASSUME Init PROVE Inv
  OBVIOUS
<1>1. /\ input \in Files /\ phase = "header" /\ result = "none" /\ uncompressed_length = 0
      /\ fonts = << >> /\ font = 1 /\ cursor = 0 /\ tables = << >>
      /\ WP!InitWith(<< >>, << >>, 0)
  BY SameBytes DEF Init, W!InitWith, WP!InitWith
<1>2. ParsedInv
  <2>1. Start(Len(<< >>) + 1) = 0
    BY <1>1, StartProperties
  <2>2. 0 \in 0 .. U32 - 1
    BY WidthType
  <2>3. << >> \in Seq(WP!Entry) /\ Len(<< >>) = 0
    OBVIOUS
  <2> QED BY <1>1, <2>1, <2>2, <2>3, FileFields DEF ParsedInv, Reading
<1>3. FontsInv
  BY <1>1 DEF FontsInv, IndicesBelow
<1>4. FreshInv
  BY <1>1 DEF FreshInv
<1>5. WriterInv
  BY <1>1 DEF WriterInv
<1>6. BufferInv
  <2>1. WP!IInv /\ WP!ContentsInv
    BY <1>1, <1>2, <1>4, FreshIsCalled, CalledInv DEF Reading
  <2> QED BY <2>1, WrittenByWriter DEF WrittenInv, BufferInv
<1>7. HeaderInv
  <2>1. header_end = 0
    BY <1>1 DEF WP!InitWith
  <2> QED BY <1>1, <2>1 DEF HeaderInv, Reading
<1>8. ResultInv
  BY <1>1 DEF ResultInv, Results, LatePanics, FontChecksum
<1> QED BY <1>2, <1>3, <1>4, <1>5, <1>6, <1>7, <1>8 DEF Inv
-----------------------------------------------------------------------------
(* What a step that leaves a part of the state alone leaves of it.         *)

LEMMA ParsedKept ==
  ASSUME ParsedInv, UNCHANGED <<input, uncompressed_length, tables>>,
         phase' \in Reading \cup {"write", "fonts", "head"},
         phase' \notin {"header", "directory"} => Len(tables) = input.num_tables
  PROVE  ParsedInv'
BY DEF ParsedInv, OverflowChecks, Start, Source

LEMMA FontsKept ==
  ASSUME FontsInv, UNCHANGED <<input, fonts>>
  PROVE  FontsInv'
BY DEF FontsInv, IndicesBelow

LEMMA BufferKept ==
  ASSUME BufferInv, UNCHANGED writer, result' # "ok" => result # "ok"
  PROVE  BufferInv'
BY DEF BufferInv, writer, WP!TypeOK, WP!EndsInside, WP!HeadsReady, FitsU32, WP!FitsU32

LEMMA ResultKept ==
  ASSUME ResultInv, result = "none", UNCHANGED result
  PROVE  ResultInv'
BY DEF ResultInv, FontChecksum, Results, LatePanics

LEMMA HeaderSizeKept ==
  ASSUME UNCHANGED <<input, fonts, tables>>
  PROVE  HeaderSize' = HeaderSize
BY DEF HeaderSize, IsCollection

\* The conversion ends without another step: only its result is new.
LEMMA EndKeeps ==
  ASSUME Inv, result = "none", NEW r \in Results \ LatePanics, End(r), r = "ok" => IsCollection
  PROVE  Inv'
<1>1. /\ UNCHANGED <<input, phase, uncompressed_length, fonts, font, cursor, ttf_header>>
      /\ UNCHANGED writer /\ result' = r
      /\ UNCHANGED <<tables, header_end, ttf_tables, status>>
  BY DEF End, heading, writer
<1>2. ParsedInv'
  BY <1>1, ParsedKept DEF Inv, ParsedInv
<1>3. FontsInv'
  BY <1>1, FontsKept DEF Inv
<1>4. FreshInv'
  BY <1>1 DEF Inv, FreshInv, WP!InitWith, writer
<1>5. WriterInv'
  BY <1>1, WriterKept DEF Inv, WriterInv
<1>6. BufferInv'
  BY <1>1, BufferKept DEF Inv
<1>7. HeaderInv'
  BY <1>1, HeaderSizeKept DEF Inv, HeaderInv, IsCollection
<1>8. ResultInv'
  BY <1>1 DEF ResultInv, FontChecksum, IsCollection
<1> QED BY <1>2, <1>3, <1>4, <1>5, <1>6, <1>7, <1>8 DEF Inv
-----------------------------------------------------------------------------
(* The steps that read.                                                    *)

\* The next part is read from the same state.
LEMMA EnterKeeps ==
  ASSUME Inv, result = "none", NEW p \in Reading, phase \in Reading, Enter(p),
         UNCHANGED <<heading, writer>>,
         p \notin {"header", "directory"} => Len(tables) = input.num_tables
  PROVE  Inv'
<1>1. /\ UNCHANGED <<input, result, uncompressed_length, fonts, font, cursor>>
      /\ UNCHANGED writer /\ phase' = p
      /\ UNCHANGED <<tables, header_end>>
  BY DEF Enter, heading, writer
<1>2. ParsedInv'
  BY <1>1, ParsedKept DEF Inv
<1>3. FontsInv'
  BY <1>1, FontsKept DEF Inv
<1>4. FreshInv'
  BY <1>1 DEF Inv, FreshInv, WP!InitWith, writer
<1>5. WriterInv'
  BY <1>1 DEF WriterInv, Reading
<1>6. BufferInv'
  BY <1>1, BufferKept DEF Inv
<1>7. HeaderInv'
  BY <1>1 DEF Inv, HeaderInv, Reading
<1>8. ResultInv'
  BY <1>1, ResultKept DEF Inv
<1> QED BY <1>2, <1>3, <1>4, <1>5, <1>6, <1>7, <1>8 DEF Inv

LEMMA EntryReadType ==
  ASSUME ParsedInv, FreshInv, AtReadableEntry
  PROVE  /\ EntryRead \in WP!Entry
         /\ EntryRead.src_length = Source(Len(tables) + 1).src_length
         /\ EntryRead.src_length \in Nat
<1>1. input \in Files /\ uncompressed_length \in Nat /\ Len(tables) + 1 \in 1 .. Len(input.directory)
  BY FileFields, LenProperties, WidthType DEF ParsedInv, AtReadableEntry
<1>2. input.directory[Len(tables) + 1] \in RawEntry
  BY <1>1, FileFields, ElementOfSeq
<1> DEFINE raw == input.directory[Len(tables) + 1]
<1>3. raw.tag \in Tags /\ raw.orig_length \in Nat /\ raw.transform_length \in Nat
  BY <1>2, RawEntryFields
<1>4. EntryOf(raw, uncompressed_length).src_length = EntryOf(raw, 0).src_length
      /\ EntryOf(raw, uncompressed_length).src_length \in Nat
  BY <1>3 DEF EntryOf
<1>5. EntryOf(raw, uncompressed_length) \in WP!Entry
  BY <1>1, <1>3 DEF EntryOf, WP!Entry, IsNull
<1> QED BY <1>4, <1>5 DEF EntryRead, Source

LEMMA ReadEntryKeeps ==
  ASSUME Inv, ReadEntry
  PROVE  Inv'
<1> DEFINE e == EntryRead
<1>1. ParsedInv /\ FreshInv /\ AtReadableEntry
  BY DEF Inv, ReadEntry
<1>2. e \in WP!Entry /\ e.src_length = Source(Len(tables) + 1).src_length /\ e.src_length \in Nat
  BY <1>1, EntryReadType
<1>3. /\ tables' = Append(tables, e) /\ uncompressed_length' = Unwrapped % U32
      /\ ~(OverflowChecks /\ Unwrapped >= U32) /\ phase = "directory" /\ result = "none"
      /\ UNCHANGED <<input, phase, result, fonts, font, cursor, ttf_header>>
      /\ UNCHANGED <<data, header_end, out, ttf_tables, next, status>>
  BY DEF ReadEntry, KeepRest, Enter, AtReadableEntry, Running
<1>4. Unwrapped = uncompressed_length + e.src_length /\ uncompressed_length \in Nat
  BY <1>1, WidthType DEF Unwrapped, ParsedInv
<1> HIDE DEF e
<1>5. /\ tables' \in Seq(WP!Entry) /\ Len(tables') = Len(tables) + 1 /\ Len(tables) \in Nat
  BY <1>1, <1>2, <1>3, AppendProperties, LenProperties DEF ParsedInv
<1>6. ParsedInv'
  <2>1. Len(tables) < input.num_tables /\ Len(tables) < Len(input.directory)
        /\ input.num_tables \in Nat /\ Len(input.directory) \in Nat
    <3>1. Len(tables) < input.num_tables /\ Len(tables) # Len(input.directory)
          /\ Len(tables) <= Len(input.directory)
      BY <1>1, <1>5 DEF AtReadableEntry, EntriesLeft, ParsedInv
    <3> QED BY <1>1, <1>5, <3>1, FileFields DEF ParsedInv
  <2>2. Len(tables') <= input.num_tables /\ Len(tables') <= Len(input.directory)
    BY <1>5, <2>1
  <2>3. uncompressed_length' \in 0 .. U32 - 1
    BY <1>2, <1>3, <1>4, CastToU32
  <2>4. ASSUME OverflowChecks PROVE uncompressed_length' = Start(Len(tables') + 1)
    <3>1. Unwrapped \in 0 .. U32 - 1
      BY <1>2, <1>3, <1>4, <2>4, WidthType
    <3>2. uncompressed_length' = Unwrapped
      BY <1>3, <3>1, CastToU32
    <3>3. Len(tables) + 1 \in 1 .. Len(input.directory)
      BY <1>5, <2>1
    <3>4. Start((Len(tables) + 1) + 1) = Start(Len(tables) + 1) + Source(Len(tables) + 1).src_length
      BY <1>1, <3>3, StartProperties DEF ParsedInv
    <3>5. uncompressed_length = Start(Len(tables) + 1)
      BY <1>1, <2>4 DEF ParsedInv
    <3> QED BY <1>2, <1>4, <1>5, <3>2, <3>4, <3>5
  <2>5. ASSUME OverflowChecks' PROVE uncompressed_length' = Start(Len(tables) + 1)'
    <3>1. OverflowChecks
      BY <1>3, <2>5 DEF OverflowChecks
    <3>2. Start(Len(tables) + 1)' = Start(Len(tables') + 1)
      BY <1>3 DEF Start, Source
    <3> QED BY <2>4, <3>1, <3>2
  <2> QED BY <1>1, <1>3, <1>5, <2>2, <2>3, <2>5 DEF ParsedInv
<1>7. FontsInv'
  BY <1>3, FontsKept DEF Inv
<1>8. FreshInv'
  BY <1>1, <1>3 DEF FreshInv, WP!InitWith
<1>9. WriterInv'
  BY <1>3 DEF WriterInv
<1>10. BufferInv'
  <2>1. Called'
    <3>1. WP!InitWith(tables, << >>, 0)'
      BY <1>3, <1>8 DEF FreshInv, Reading
    <3>2. data' = << >> /\ header_end' = 0
      BY <3>1 DEF WP!InitWith
    <3> QED BY <1>5, <3>1, <3>2 DEF Called, WP!InitWith
  <2> QED BY <2>1, CalledInvNext, WrittenByWriterNext, WrittenKeepsBuffer
<1>11. HeaderInv'
  BY <1>3 DEF Inv, HeaderInv, Reading
<1>12. ResultInv'
  BY <1>3, ResultKept DEF Inv
<1> QED BY <1>6, <1>7, <1>8, <1>9, <1>10, <1>11, <1>12 DEF Inv

LEMMA ReadFontKeeps ==
  ASSUME Inv, ReadFont
  PROVE  Inv'
<1>1. /\ fonts' = Append(fonts, NextFont) /\ phase = "collection" /\ result = "none" /\ FontValid
      /\ UNCHANGED <<input, phase, result, uncompressed_length, font, cursor, ttf_header>>
      /\ UNCHANGED writer /\ UNCHANGED <<tables, header_end>>
  BY DEF ReadFont, Enter, Running, writer
<1>2. fonts \in Seq(FontEntry) /\ input \in Files /\ Len(fonts) \in Nat
  BY LenProperties DEF Inv, FontsInv, ParsedInv
<1>3. NextFont \in FontEntry
  <2>1. Len(fonts) + 1 \in 1 .. Len(input.fonts)
    BY <1>1, <1>2, FileFields, LenProperties DEF FontValid, FontReadable
  <2> QED BY <1>2, <2>1, FileFields, ElementOfSeq DEF NextFont
<1>4. /\ fonts' \in Seq(FontEntry) /\ Len(fonts') = Len(fonts) + 1
      /\ fonts'[Len(fonts) + 1] = NextFont /\ \A f \in 1 .. Len(fonts) : fonts'[f] = fonts[f]
  BY <1>1, <1>2, <1>3, AppendProperties
<1>5. ParsedInv'
  BY <1>1, ParsedKept DEF Inv, ParsedInv
<1>6. FontsInv'
  <2>1. ASSUME NEW i \in 1 .. Len(NextFont.table_indices)
        PROVE  NextFont.table_indices[i] < input.num_tables
    <3>1. NextFont.table_indices \in Seq(0 .. U16 - 1)
      BY <1>3, FontEntryFields
    <3>2. i \in DOMAIN NextFont.table_indices
      BY <3>1, LenProperties
    <3> QED BY <1>1, <3>2 DEF FontValid, IndexValid
  <2>2. ASSUME NEW f \in 1 .. Len(fonts'), NEW i \in 1 .. Len(fonts'[f].table_indices)
        PROVE  fonts'[f].table_indices[i] < input.num_tables
    <3>1. CASE f = Len(fonts) + 1
      BY <1>4, <2>1, <3>1
    <3>2. CASE f # Len(fonts) + 1
      <4>1. f \in 1 .. Len(fonts)
        BY <1>2, <1>4, <3>2
      <4> QED BY <1>4, <4>1 DEF Inv, FontsInv, IndicesBelow
    <3> QED BY <3>1, <3>2
  <2> QED BY <1>1, <1>4, <2>2 DEF FontsInv, IndicesBelow
<1>7. FreshInv'
  BY <1>1 DEF Inv, FreshInv, WP!InitWith, writer
<1>8. WriterInv'
  BY <1>1 DEF WriterInv
<1>9. BufferInv'
  BY <1>1, BufferKept DEF Inv
<1>10. HeaderInv'
  BY <1>1, <1>2, <1>4 DEF Inv, HeaderInv, Reading
<1>11. ResultInv'
  BY <1>1, ResultKept DEF Inv
<1> QED BY <1>5, <1>6, <1>7, <1>8, <1>9, <1>10, <1>11 DEF Inv
-----------------------------------------------------------------------------
(* Decompression and the tables.                                           *)

LEMMA HeaderSizeType ==
  ASSUME ParsedInv, FontsInv
  PROVE  HeaderSize \in Nat /\ HeaderSize % 4 = 0
<1>1. Len(fonts) \in Nat /\ Len(tables) \in Nat
  BY LenProperties DEF ParsedInv, FontsInv
<1>2. DirectorySizes(fonts)[Len(fonts)] \in Nat /\ DirectorySizes(fonts)[Len(fonts)] % 4 = 0
  BY <1>1, DirectorySizesProperties, DirectorySizesAligned DEF FontsInv
<1>3. ASSUME NEW a \in Nat, NEW b \in Nat, b % 4 = 0
      PROVE  /\ 12 + 4 * a + b \in Nat /\ (12 + 4 * a + b) % 4 = 0
             /\ 12 + 16 * a \in Nat /\ (12 + 16 * a) % 4 = 0
  BY <1>3
<1>4. CASE IsCollection
  BY <1>1, <1>2, <1>3, <1>4 DEF HeaderSize
<1>5. CASE ~IsCollection
  BY <1>1, <1>2, <1>3, <1>5 DEF HeaderSize, calculate_header_size
<1> QED BY <1>4, <1>5

LEMMA DecompressKeeps ==
  ASSUME Inv, Decompress
  PROVE  Inv'
<1>1. /\ data' = input.stream.plain /\ header_end' = HeaderSize /\ out' = Zeros(HeaderSize)
      /\ phase = "stream" /\ phase' = "write" /\ result = "none"
      /\ UNCHANGED <<input, result, uncompressed_length, fonts, font, cursor, ttf_header>>
      /\ UNCHANGED <<tables, ttf_tables, next, status>>
  BY DEF Decompress, Running, Enter, heading
<1>2. /\ ParsedInv /\ font = 1 /\ cursor = 0 /\ WP!InitWith(tables, << >>, 0)
      /\ Len(tables) = input.num_tables
  BY <1>1 DEF Inv, ParsedInv, FreshInv, Reading
<1>3. HeaderSize \in Nat /\ HeaderSize % 4 = 0
  BY HeaderSizeType DEF Inv
<1>4. ParsedInv'
  BY <1>1, <1>2, ParsedKept
<1>5. FontsInv'
  BY <1>1, FontsKept DEF Inv
<1>6. FreshInv'
  BY <1>1 DEF FreshInv, Reading
<1>7. Called'
  <2>1. WP!InitWith(tables, data, header_end)'
    BY <1>1, <1>2 DEF WP!InitWith, WP!Zeros, Zeros
  <2>2. data' \in Seq(Byte)
    BY <1>1, <1>2, FileFields DEF ParsedInv
  <2> QED BY <1>1, <1>2, <1>3, <2>1, <2>2 DEF Called, ParsedInv
<1>8. WP!IInv' /\ WP!ContentsInv'
  BY <1>7, CalledInvNext
<1>9. BufferInv'
  BY <1>8, WrittenByWriterNext, WrittenKeepsBuffer
<1>10. HeaderInv'
  <2>1. font' \in 1 .. Len(fonts') + 1 /\ cursor' \in 0 .. header_end'
    BY <1>1, <1>2, <1>3 DEF Inv, HeaderInv
  <2>2. header_end' = HeaderSize'
    BY <1>1, HeaderSizeKept
  <2> QED BY <1>1, <1>2, <2>1, <2>2 DEF HeaderInv, Reading
<1>11. ResultInv'
  BY <1>1, ResultKept DEF Inv
<1> QED BY <1>4, <1>5, <1>6, <1>8, <1>9, <1>10, <1>11 DEF Inv, WriterInv

LEMMA WriterKeepsInput == W!Next => UNCHANGED <<tables, data, header_end>>
BY DEF W!Next, W!TransformedGlyf, W!GlyfDecodeFails, W!PlainGlyf, W!MissingLoca,
       W!TransformMismatch, W!SkipLoca, W!HeadTable, W!TruncatedHead, W!TransformedHmtx,
       W!SimpleTable, W!SlicePanic, W!Finish, W!Advance, W!Return

LEMMA WriteKeeps ==
  ASSUME Inv, Write
  PROVE  Inv'
<1>1. /\ W!Next /\ phase = "write" /\ result = "none"
      /\ UNCHANGED <<input, phase, uncompressed_length, fonts, font, cursor, ttf_header, result>>
  BY DEF Write, Running, heading
<1>2. UNCHANGED <<tables, data, header_end>>
  BY <1>1, WriterKeepsInput
<1>3. WP!IInv' /\ WP!ContentsInv'
  BY <1>1, WriterKept DEF Inv, WriterInv
<1>4. ParsedInv'
  BY <1>1, <1>2, ParsedKept DEF Inv, ParsedInv
<1>5. FontsInv'
  BY <1>1, FontsKept DEF Inv
<1>6. FreshInv'
  BY <1>1 DEF FreshInv, Reading
<1>7. BufferInv'
  BY <1>3, WrittenByWriterNext, WrittenKeepsBuffer
<1>8. HeaderInv'
  BY <1>1, <1>2, HeaderSizeKept DEF Inv, HeaderInv, IsCollection
<1>9. ResultInv'
  BY <1>1, ResultKept DEF Inv
<1> QED BY <1>3, <1>4, <1>5, <1>6, <1>7, <1>8, <1>9 DEF Inv, WriterInv

\* When the tables are written there are as many as the directory has.
LEMMA AllWritten ==
  ASSUME Inv, Written
  PROVE  Len(ttf_tables) = Len(tables) /\ Len(tables) = input.num_tables
<1>1. phase = "write" /\ status = "ok"
  BY DEF Written, Running
<1>2. WP!CountInv
  BY <1>1 DEF Inv, WriterInv, WP!ContentsInv
<1>3. Len(tables) = input.num_tables
  BY <1>1 DEF Inv, ParsedInv
<1> QED BY <1>1, <1>2, <1>3 DEF WP!CountInv

\* Replacing the indices of a font by as many others.
WithIndices(list, f, sorted) == [list EXCEPT ![f].table_indices = sorted]

LEMMA IndicesReplaced ==
  ASSUME NEW list \in Seq(FontEntry), NEW f \in 1 .. Len(list),
         NEW sorted \in Seq(0 .. U16 - 1), NEW n,
         Len(sorted) = Len(list[f].table_indices),
         \A i \in 1 .. Len(sorted) : sorted[i] < n, IndicesBelow(list, n)
  PROVE  /\ WithIndices(list, f, sorted) \in Seq(FontEntry)
         /\ Len(WithIndices(list, f, sorted)) = Len(list)
         /\ IndicesBelow(WithIndices(list, f, sorted), n)
         /\ \A i \in 1 .. Len(list) :
              Len(WithIndices(list, f, sorted)[i].table_indices) = Len(list[i].table_indices)
<1> DEFINE new == WithIndices(list, f, sorted)
<1>1. DOMAIN list = 1 .. Len(list) /\ Len(list) \in Nat
  BY LenProperties
<1>2. ASSUME NEW i \in 1 .. Len(list)
      PROVE  /\ new[i] \in FontEntry
             /\ new[i].table_indices = IF i = f THEN sorted ELSE list[i].table_indices
  <2>1. list[i] \in FontEntry
    BY ElementOfSeq
  <2>2. new[i] = IF i = f THEN [list[i] EXCEPT !.table_indices = sorted] ELSE list[i]
    BY <1>1 DEF WithIndices
  <2>3. CASE i = f
    <3>1. new[i] = [list[i] EXCEPT !.table_indices = sorted]
      BY <2>2, <2>3
    <3> QED BY <2>1, <2>3, <3>1 DEF FontEntry
  <2>4. CASE i # f
    BY <2>1, <2>2, <2>4
  <2> QED BY <2>3, <2>4
<1>3. new \in [1 .. Len(list) -> FontEntry]
  <2>1. ASSUME NEW i \in 1 .. Len(list) PROVE new[i] \in FontEntry
    BY <1>2
  <2>2. new = [i \in 1 .. Len(list) |-> new[i]]
    BY <1>1 DEF WithIndices
  <2> HIDE DEF new
  <2> QED BY <2>1, <2>2
<1> HIDE DEF new
<1>4. new \in Seq(FontEntry) /\ Len(new) = Len(list)
  BY <1>1, <1>3
<1>5. ASSUME NEW i \in 1 .. Len(list)
      PROVE  Len(new[i].table_indices) = Len(list[i].table_indices)
  BY <1>2
<1>6. ASSUME NEW i \in 1 .. Len(list), NEW j \in 1 .. Len(new[i].table_indices)
      PROVE  new[i].table_indices[j] < n
  BY <1>2 DEF IndicesBelow
<1> QED BY <1>4, <1>5, <1>6 DEF IndicesBelow, new

LEMMA SortFontKeeps ==
  ASSUME Inv, SortFont
  PROVE  Inv'
<1> DEFINE indices == fonts[font].table_indices
           keys == [i \in DOMAIN indices |-> ttf_tables[indices[i] + 1].tag]
<1>1. Written /\ IsCollection /\ font <= Len(fonts) /\ phase = "write" /\ result = "none"
  BY DEF SortFont, Written, Running
<1>2. /\ fonts \in Seq(FontEntry) /\ Len(fonts) \in Nat /\ font \in 1 .. Len(fonts)
      /\ IndicesBelow(fonts, input.num_tables)
  BY <1>1, LenProperties DEF Inv, FontsInv, HeaderInv
<1>3. indices \in Seq(0 .. U16 - 1) /\ DOMAIN indices = 1 .. Len(indices)
  <2>1. fonts[font] \in FontEntry
    BY <1>2, ElementOfSeq
  <2>2. indices \in Seq(0 .. U16 - 1)
    BY <2>1, FontEntryFields
  <2> QED BY <2>2, LenProperties
<1>4. \A i \in 1 .. Len(indices) : indices[i] < input.num_tables
  BY <1>2 DEF IndicesBelow
<1>5. ~Missing(fonts[font])
  <2>1. Len(ttf_tables) = input.num_tables /\ input.num_tables \in Nat
    BY <1>1, AllWritten, FileFields DEF Inv, ParsedInv
  <2>2. ASSUME NEW i \in DOMAIN indices PROVE ~(indices[i] >= Len(ttf_tables))
    <3>1. indices[i] \in 0 .. U16 - 1
      BY <1>3, ElementOfSeq
    <3> QED BY <1>3, <1>4, <2>1, <3>1, WidthType
  <2> QED BY <2>2 DEF Missing
<1>6. PICK sorted \in SortedBy(keys, indices) :
        fonts' = [fonts EXCEPT ![font].table_indices = sorted]
  BY <1>5 DEF SortFont
<1>7. /\ font' = font + 1
      /\ UNCHANGED <<input, phase, result, uncompressed_length, cursor, ttf_header>>
      /\ UNCHANGED writer /\ UNCHANGED <<tables, header_end>>
  BY <1>1, <1>5 DEF SortFont, Enter, writer
<1>8. /\ sorted \in Seq(0 .. U16 - 1) /\ Len(sorted) = Len(indices)
      /\ \A i \in 1 .. Len(sorted) : sorted[i] < input.num_tables
  <2>0. sorted \in SortedBy(keys, indices)
    OBVIOUS
  <2> HIDE DEF keys, indices
  <2>1. /\ sorted \in Seq(0 .. U16 - 1) /\ Len(sorted) = Len(indices)
        /\ \A i \in DOMAIN sorted : \E j \in DOMAIN indices : sorted[i] = indices[j]
    <3>1. PICK S, s, k : S = 0 .. U16 - 1 /\ s = indices /\ k = keys
      OBVIOUS
    <3>2. s \in Seq(S) /\ sorted \in SortedBy(k, s)
      BY <1>3, <2>0, <3>1
    <3>3. /\ sorted \in Seq(S) /\ Len(sorted) = Len(s)
          /\ \A i \in DOMAIN sorted : \E j \in DOMAIN s : sorted[i] = s[j]
      BY <3>2, SortedElements
    <3> QED BY <3>1, <3>3
  <2>2. DOMAIN sorted = 1 .. Len(sorted)
    BY <2>1, LenProperties
  <2> QED BY <1>3, <1>4, <2>1, <2>2
<1>9. /\ fonts' \in Seq(FontEntry) /\ Len(fonts') = Len(fonts)
      /\ IndicesBelow(fonts', input.num_tables)
      /\ \A i \in 1 .. Len(fonts) : Len(fonts'[i].table_indices) = Len(fonts[i].table_indices)
  <2>1. fonts' = WithIndices(fonts, font, sorted)
    BY <1>6 DEF WithIndices
  <2> QED BY <1>2, <1>8, <2>1, IndicesReplaced
<1>10. ParsedInv'
  BY <1>7, ParsedKept DEF Inv, ParsedInv
<1>11. FontsInv'
  BY <1>7, <1>9 DEF FontsInv
<1>12. FreshInv'
  BY <1>1, <1>7 DEF FreshInv, Reading
<1>13. WriterInv'
  BY <1>1, <1>7, WriterKept DEF Inv, WriterInv
<1>14. BufferInv'
  BY <1>7, BufferKept DEF Inv
<1>15. HeaderInv'
  <2>1. DirectorySizes(fonts')[Len(fonts)] = DirectorySizes(fonts)[Len(fonts)]
    <3>1. Len(fonts) \in 0 .. Len(fonts)
      BY <1>2
    <3> QED BY <1>2, <1>9, <3>1, DirectorySizesAgree
  <2>2. HeaderSize' = HeaderSize
    BY <1>1, <1>7, <1>9, <2>1 DEF HeaderSize, IsCollection
  <2>3. header_end = HeaderSize /\ cursor = 0 /\ cursor \in 0 .. header_end
    BY <1>1 DEF Inv, HeaderInv, Reading
  <2> QED BY <1>1, <1>2, <1>7, <1>9, <2>2, <2>3 DEF HeaderInv
<1>16. ResultInv'
  BY <1>1, <1>7, ResultKept DEF Inv
<1> QED BY <1>10, <1>11, <1>12, <1>13, <1>14, <1>15, <1>16 DEF Inv
-----------------------------------------------------------------------------
(* The header in front of the tables.                                      *)

LEMMA RecordInBuffer ==
  ASSUME BufferInv, NEW k \in 1 .. Len(ttf_tables)
  PROVE  /\ ttf_tables[k] \in WP!Record
         /\ ttf_tables[k].tag \in Nat /\ ttf_tables[k].checksum \in Nat
         /\ ttf_tables[k].offset \in Nat /\ ttf_tables[k].length \in Nat
         /\ ttf_tables[k].offset + ttf_tables[k].length <= Len(out)
<1>1. ttf_tables[k] \in WP!Record
  BY ElementOfSeq DEF BufferInv, WP!TypeOK
<1>2. ttf_tables[k].tag \in 0 .. U32 - 1
  BY <1>1, TagAssumption DEF WP!Record
<1>3. /\ ttf_tables[k].tag \in Nat /\ ttf_tables[k].checksum \in Nat
      /\ ttf_tables[k].offset \in Nat /\ ttf_tables[k].length \in Nat
  BY <1>1, <1>2, SameBytes, WidthType DEF WP!Record
<1> QED BY <1>1, <1>3 DEF BufferInv, WP!EndsInside

LEMMA RecordNumbers ==
  \A r \in WP!Record : r.tag \in Nat /\ r.checksum \in Nat /\ r.offset \in Nat /\ r.length \in Nat
<1> SUFFICES ASSUME NEW r \in WP!Record
             PROVE  r.tag \in Nat /\ r.checksum \in Nat /\ r.offset \in Nat /\ r.length \in Nat
  OBVIOUS
<1>1. r.tag \in 0 .. U32 - 1
  BY TagAssumption DEF WP!Record
<1> QED BY <1>1, SameBytes, WidthType DEF WP!Record

\* The bytes behind the header stay as they are.
KeepsBehindHeader == \A i \in header_end + 1 .. Len(out) : out'[i] = out[i]

LEMMA PutKeeps ==
  ASSUME BufferInv, NEW bytes \in Seq(Byte), cursor \in 0 .. header_end,
         cursor + Len(bytes) <= header_end, Put(bytes), result = "none", UNCHANGED result
  PROVE  BufferInv' /\ KeepsBehindHeader /\ cursor' \in 0 .. header_end
<1>1. /\ out' = Overwrite(out, cursor, bytes) /\ cursor' = cursor + Len(bytes)
      /\ UNCHANGED <<tables, data, header_end, ttf_tables, next, status>>
  BY DEF Put
<1>2. /\ out \in Seq(Byte) /\ header_end \in Nat /\ cursor \in Nat
      /\ Len(bytes) \in Nat /\ Len(out) \in Nat
  BY SameBytes, LenProperties DEF BufferInv, WP!TypeOK
<1>3. out' \in Seq(Byte) /\ Len(out') = Len(out)
  BY <1>1, <1>2, OverwriteProperties
<1>4. ASSUME NEW i \in header_end + 1 .. Len(out) PROVE out'[i] = out[i]
  <2>1. i \in 1 .. Len(out) /\ i \notin cursor + 1 .. cursor + Len(bytes)
    BY <1>2
  <2>2. Overwrite(out, cursor, bytes)[i] =
          IF i \in cursor + 1 .. cursor + Len(bytes) THEN bytes[i - cursor] ELSE out[i]
    BY <1>2, <2>1, OverwriteAt
  <2> QED BY <1>1, <2>1, <2>2
<1>5. WP!TypeOK' /\ WP!EndsInside'
  BY <1>1, <1>3, SameBytes DEF BufferInv, WP!TypeOK, WP!EndsInside
<1>6. WP!HeadsReady'
  <2>1. ASSUME WP!FitsU32, NEW k \in 1 .. Len(ttf_tables), ttf_tables[k].tag = HEAD_TAG,
               NEW i \in 9 .. 12
        PROVE  out'[ttf_tables[k].offset + i] = 0
    <3>1. /\ ttf_tables[k].offset \in Nat /\ ttf_tables[k].length \in Nat
          /\ ttf_tables[k].offset + ttf_tables[k].length <= Len(out)
      BY RecordInBuffer
    <3>2. /\ header_end <= ttf_tables[k].offset /\ ttf_tables[k].length >= 12
          /\ out[ttf_tables[k].offset + i] = 0
      BY <2>1 DEF BufferInv, WP!HeadsReady
    <3>3. PICK o \in Nat, l \in Nat : o = ttf_tables[k].offset /\ l = ttf_tables[k].length
      BY <3>1
    <3>4. o + i \in header_end + 1 .. Len(out)
      <4>1. header_end <= o /\ l >= 12 /\ o + l <= Len(out) /\ i \in Nat /\ i >= 9 /\ i <= 12
        BY <3>1, <3>2, <3>3
      <4> QED BY <1>2, <4>1
    <3> QED BY <1>4, <3>2, <3>3, <3>4
  <2> QED BY <1>1, <1>3, <2>1 DEF BufferInv, WP!HeadsReady, WP!FitsU32
<1>7. BufferInv'
  BY <1>1, <1>3, <1>5, <1>6 DEF BufferInv, FitsU32
<1> QED BY <1>1, <1>2, <1>4, <1>7 DEF KeepsBehindHeader

CollectionHeaderBytes(n, offsets) ==
  BigEndian32(TTF_COLLECTION_FLAVOR) \o BigEndian32(V1) \o BigEndian32(n % U32)
    \o FlattenSeq([f \in 1 .. n |-> BigEndian32(offsets[f])])

LEMMA CollectionHeaderLength ==
  ASSUME NEW n \in Nat, NEW offsets, \A f \in 1 .. n : offsets[f] \in Nat
  PROVE  /\ CollectionHeaderBytes(n, offsets) \in Seq(Byte)
         /\ Len(CollectionHeaderBytes(n, offsets)) = 12 + 4 * n
<1> DEFINE a == BigEndian32(TTF_COLLECTION_FLAVOR)
           b == BigEndian32(V1)
           c == BigEndian32(n % U32)
           all == [f \in 1 .. n |-> BigEndian32(offsets[f])]
           d == FlattenSeq(all)
<1>1. TTF_COLLECTION_FLAVOR \in Nat /\ V1 \in Nat /\ n % U32 \in Nat
  BY WordsAssumption, WidthType, CastToU32 DEF V1
<1>2. /\ a \in Seq(Byte) /\ b \in Seq(Byte) /\ c \in Seq(Byte)
      /\ Len(a) = 4 /\ Len(b) = 4 /\ Len(c) = 4
  BY <1>1, BigEndian32Properties
<1>3. ASSUME NEW f \in 1 .. n PROVE BigEndian32(offsets[f]) \in Seq(Byte) /\ Len(BigEndian32(offsets[f])) = 4
  BY BigEndian32Properties
<1>4. all \in Seq(Seq(Byte)) /\ Len(all) = n /\ \A f \in 1 .. n : Len(all[f]) = 4
  <2>1. all \in [1 .. n -> Seq(Byte)]
    BY <1>3
  <2>2. \A f \in 1 .. n : Len(all[f]) = 4
    BY <1>3
  <2> HIDE DEF all
  <2> QED BY <2>1, <2>2
<1> HIDE DEF all
<1>5. d \in Seq(Byte) /\ Len(d) = 4 * n
  BY <1>4, FlattenedLength
<1> HIDE DEF a, b, c, d
<1>6. a \o b \in Seq(Byte) /\ Len(a \o b) = Len(a) + Len(b)
  BY <1>2, TwoParts
<1>7. (a \o b) \o c \in Seq(Byte) /\ Len((a \o b) \o c) = Len(a \o b) + Len(c)
  BY <1>2, <1>6, TwoParts
<1>8. ((a \o b) \o c) \o d \in Seq(Byte) /\ Len(((a \o b) \o c) \o d) = Len((a \o b) \o c) + Len(d)
  BY <1>5, <1>7, TwoParts
<1>9. CollectionHeaderBytes(n, offsets) = ((a \o b) \o c) \o d
  BY DEF a, b, c, d, all, CollectionHeaderBytes
<1>10. Len(((a \o b) \o c) \o d) = 12 + 4 * n
  <2>1. Len(d) = 4 * n /\ 4 * n \in Nat
    BY <1>5
  <2>2. PICK m \in Nat : m = 4 * n
    BY <2>1
  <2>3. Len((a \o b) \o c) = 12
    BY <1>2, <1>6, <1>7
  <2> QED BY <1>8, <2>1, <2>2, <2>3
<1> QED BY <1>8, <1>9, <1>10

LEMMA WriteCollectionHeaderKeeps ==
  ASSUME Inv, WriteCollectionHeader
  PROVE  Inv' /\ KeepsBehindHeader
<1> DEFINE bytes == BigEndian32(TTF_COLLECTION_FLAVOR) \o BigEndian32(V1)
                      \o BigEndian32(Len(fonts) % U32)
                      \o FlattenSeq([f \in DOMAIN fonts |-> BigEndian32(DirectoryOffsets[f])])
<1>1. Written /\ IsCollection /\ phase = "write" /\ status = "ok" /\ result = "none"
  BY DEF WriteCollectionHeader, Written, Running
<1>2. /\ fonts \in Seq(FontEntry) /\ Len(fonts) \in Nat /\ DOMAIN fonts = 1 .. Len(fonts)
  BY LenProperties DEF Inv, FontsInv
<1>3. /\ cursor = 0 /\ header_end = HeaderSize /\ HeaderSize \in Nat
      /\ HeaderSize = 12 + 4 * Len(fonts) + DirectorySizes(fonts)[Len(fonts)]
      /\ DirectorySizes(fonts)[Len(fonts)] \in Nat /\ DirectorySizes(fonts)[0] = 0
  BY <1>1, <1>2, HeaderSizeType, DirectorySizesProperties DEF Inv, HeaderInv, Reading, HeaderSize
<1>4. Room(HeaderSize)
  BY <1>3 DEF Room
<1>5. /\ Put(bytes) /\ font' = 1 /\ phase' = "fonts"
      /\ UNCHANGED <<input, result, uncompressed_length, fonts, ttf_header>>
  BY <1>4 DEF WriteCollectionHeader, Enter
<1>6. bytes \in Seq(Byte) /\ Len(bytes) = 12 + 4 * Len(fonts)
  <2>1. ASSUME NEW f \in 1 .. Len(fonts) PROVE DirectoryOffsets[f] \in Nat
    <3>1. f - 1 \in 0 .. Len(fonts)
      BY <1>2
    <3>2. DirectorySizes(fonts)[f - 1] \in Nat
      BY <1>2, <3>1, DirectorySizesProperties
    <3>3. ASSUME NEW v \in Nat PROVE v % U32 \in Nat
      BY WidthType
    <3>4. 12 + 4 * Len(fonts) + DirectorySizes(fonts)[f - 1] \in Nat
      BY <1>2, <3>2
    <3>5. DirectoryOffsets[f] = (12 + 4 * Len(fonts) + DirectorySizes(fonts)[f - 1]) % U32
      BY <1>2 DEF DirectoryOffsets
    <3> QED BY <3>3, <3>4, <3>5
  <2>2. PICK n \in Nat : n = Len(fonts)
    BY <1>2
  <2>3. PICK offsets : offsets = DirectoryOffsets
    OBVIOUS
  <2>4. bytes = CollectionHeaderBytes(n, offsets)
    BY <1>2, <2>2, <2>3 DEF CollectionHeaderBytes
  <2>5. \A f \in 1 .. n : offsets[f] \in Nat
    BY <2>1, <2>2, <2>3
  <2> HIDE DEF bytes
  <2>6. /\ CollectionHeaderBytes(n, offsets) \in Seq(Byte)
        /\ Len(CollectionHeaderBytes(n, offsets)) = 12 + 4 * n
    BY <2>5, CollectionHeaderLength
  <2> QED BY <2>2, <2>4, <2>6
<1> HIDE DEF bytes
<1>7. BufferInv' /\ KeepsBehindHeader /\ cursor' \in 0 .. header_end /\ cursor' = 12 + 4 * Len(fonts)
  <2>1. cursor \in 0 .. header_end /\ cursor + Len(bytes) <= header_end
    BY <1>2, <1>3, <1>6
  <2>2. BufferInv' /\ KeepsBehindHeader /\ cursor' \in 0 .. header_end
    BY <1>1, <1>5, <1>6, <2>1, PutKeeps DEF Inv
  <2>3. cursor' = cursor + Len(bytes)
    BY <1>5 DEF Put
  <2> QED BY <1>2, <1>3, <1>6, <2>2, <2>3
<1>8. UNCHANGED <<tables, data, header_end, ttf_tables, next, status>>
  BY <1>5 DEF Put
<1>9. ParsedInv'
  BY <1>1, <1>5, <1>8, ParsedKept DEF Inv, ParsedInv
<1>10. FontsInv'
  BY <1>5, FontsKept DEF Inv
<1>11. FreshInv' /\ WriterInv'
  BY <1>5 DEF FreshInv, Reading, WriterInv
<1>12. HeaderInv'
  <2>1. Len(ttf_tables) = Len(tables)
    BY <1>1, AllWritten
  <2>2. HeaderSize' = HeaderSize
    BY <1>5, <1>8, HeaderSizeKept
  <2>3. font' - 1 = 0 /\ font' \in 1 .. Len(fonts) + 1
    BY <1>2, <1>5
  <2>4. cursor' = 12 + 4 * Len(fonts) + DirectorySizes(fonts)[font' - 1]
    BY <1>2, <1>3, <1>7, <2>3
  <2> QED BY <1>1, <1>3, <1>5, <1>7, <1>8, <2>1, <2>2, <2>3, <2>4 DEF HeaderInv, IsCollection
<1>13. ResultInv'
  BY <1>1, <1>5, ResultKept DEF Inv
<1> QED BY <1>7, <1>9, <1>10, <1>11, <1>12, <1>13 DEF Inv

\* A sorted list of records and the directory written for it.
LEMMA SortedDirectory ==
  ASSUME NEW v \in Nat, NEW recs \in Seq(WP!Record), NEW sorted \in SortedByTag(recs),
         NEW checks, ~NewPanics(Len(recs), checks)
  PROVE  /\ sorted \in Seq(WP!Record) /\ Len(sorted) = Len(recs)
         /\ \A i \in DOMAIN sorted : \E k \in 1 .. Len(recs) : sorted[i] = recs[k]
         /\ DirectoryBytes(v, sorted) \in Seq(Byte)
         /\ Len(DirectoryBytes(v, sorted)) = calculate_header_size(Len(recs))
<1> DEFINE keys == [i \in DOMAIN recs |-> recs[i].tag]
<1>1. sorted \in SortedBy(keys, recs)
  BY DEF SortedByTag
<1> HIDE DEF keys
<1>2. PICK S : S = WP!Record
  OBVIOUS
<1>3. recs \in Seq(S)
  BY <1>2
<1>4. /\ sorted \in Seq(S) /\ Len(sorted) = Len(recs)
      /\ \A i \in DOMAIN sorted : \E j \in DOMAIN recs : sorted[i] = recs[j]
  BY <1>1, <1>3, SortedElements
<1>5. DOMAIN recs = 1 .. Len(recs) /\ Len(recs) \in Nat
  BY LenProperties
<1>6. Len(sorted) \in 0 .. U16 - 1
  BY <1>4, <1>5, WidthType DEF NewPanics
<1>7. \A r \in S : r.tag \in Nat /\ r.checksum \in Nat /\ r.offset \in Nat /\ r.length \in Nat
  BY <1>2, RecordNumbers
<1>8. /\ DirectoryBytes(v, sorted) \in Seq(Byte)
      /\ Len(DirectoryBytes(v, sorted)) = calculate_header_size(Len(sorted))
  BY <1>4, <1>6, <1>7, DirectoryLength
<1> QED BY <1>2, <1>4, <1>5, <1>8

LEMMA WriteFontKeeps ==
  ASSUME Inv, WriteFont
  PROVE  Inv' /\ KeepsBehindHeader
<1> DEFINE f == fonts[font]
           indices == f.table_indices
           records == FontTables(f)
<1>1. /\ phase = "fonts" /\ result = "none" /\ font <= Len(fonts) /\ IsCollection
      /\ status = "ok" /\ Len(ttf_tables) = Len(tables) /\ Len(tables) = input.num_tables
      /\ cursor = 12 + 4 * Len(fonts) + DirectorySizes(fonts)[font - 1]
      /\ header_end = 12 + 4 * Len(fonts) + DirectorySizes(fonts)[Len(fonts)]
  BY DEF WriteFont, AtFont, Running, Inv, HeaderInv, ParsedInv, HeaderSize, Reading
<1>2. /\ fonts \in Seq(FontEntry) /\ Len(fonts) \in Nat /\ font \in 1 .. Len(fonts)
      /\ IndicesBelow(fonts, input.num_tables)
  BY <1>1, LenProperties DEF Inv, FontsInv, HeaderInv
<1>3. f \in FontEntry /\ f.flavor \in Nat /\ indices \in Seq(0 .. U16 - 1)
  BY <1>2, ElementOfSeq, FontEntryFields
<1>4. DOMAIN indices = 1 .. Len(indices) /\ Len(indices) \in Nat
  BY <1>3, LenProperties
<1>5. ttf_tables \in Seq(WP!Record) /\ Len(ttf_tables) \in Nat
  BY LenProperties DEF Inv, BufferInv, WP!TypeOK
<1>6. ASSUME NEW i \in 1 .. Len(indices) PROVE ttf_tables[indices[i] + 1] \in WP!Record
  <2>1. indices[i] < Len(ttf_tables)
    BY <1>1, <1>2 DEF IndicesBelow
  <2>2. indices[i] \in Nat
    <3>1. indices[i] \in 0 .. U16 - 1
      BY <1>3, ElementOfSeq
    <3> QED BY <3>1, WidthType
  <2>3. indices[i] + 1 \in 1 .. Len(ttf_tables)
    BY <1>5, <2>1, <2>2
  <2> QED BY <1>5, <2>3, ElementOfSeq
<1>7. records \in Seq(WP!Record) /\ Len(records) = Len(indices)
  <2>1. records = [i \in 1 .. Len(indices) |-> ttf_tables[indices[i] + 1]]
    BY <1>4 DEF FontTables
  <2>2. records \in [1 .. Len(indices) -> WP!Record]
    BY <1>6, <2>1
  <2> HIDE DEF records, indices
  <2> QED BY <1>4, <2>2
<1>8. CASE NewPanics(Len(records), OverflowChecks)
  <2>1. End("overflow_panic")
    BY <1>8 DEF WriteFont
  <2>2. "overflow_panic" \in Results \ LatePanics
    BY DEF Results, LatePanics
  <2>3. Inv'
    BY <1>1, <2>1, <2>2, EndKeeps
  <2> QED BY <2>1, <2>3 DEF End, writer, KeepsBehindHeader
<1>9. CASE ~NewPanics(Len(records), OverflowChecks)
  <2> DEFINE size == calculate_header_size(Len(records))
             d == DirectorySizes(fonts)
  <2>1. /\ font - 1 \in 0 .. Len(fonts) /\ font \in 0 .. Len(fonts) /\ (font + 1) - 1 = font
        /\ font + 1 \in 1 .. Len(fonts) + 1
    BY <1>2
  <2>2. /\ d[font - 1] \in Nat /\ d[font] \in Nat /\ d[Len(fonts)] \in Nat
        /\ d[font] = d[font - 1] + size /\ d[font] <= d[Len(fonts)]
    <3>1. calculate_directory_size(f) = size
      BY <1>7 DEF calculate_directory_size, calculate_header_size
    <3> HIDE DEF size
    <3> QED BY <1>2, <2>1, <3>1, DirectorySizesProperties
  <2>3. size \in Nat
    BY <1>4, <1>7 DEF calculate_header_size
  <2> HIDE DEF size, d
  <2>4. /\ cursor = 12 + 4 * Len(fonts) + d[font - 1]
        /\ header_end = 12 + 4 * Len(fonts) + d[Len(fonts)]
    BY <1>1 DEF d
  <2>5. /\ cursor \in 0 .. header_end /\ cursor + size <= header_end
        /\ size <= header_end - cursor /\ cursor + size = 12 + 4 * Len(fonts) + d[font]
    <3>1. PICK a, b, c, n : a = d[font - 1] /\ b = d[font] /\ c = d[Len(fonts)] /\ n = Len(fonts)
      OBVIOUS
    <3>2. /\ a \in Nat /\ b \in Nat /\ c \in Nat /\ n \in Nat /\ b = a + size /\ b <= c
          /\ cursor = 12 + 4 * n + a /\ header_end = 12 + 4 * n + c
      BY <1>2, <2>2, <2>4, <3>1
    <3>3. /\ cursor \in 0 .. header_end /\ cursor + size <= header_end
          /\ size <= header_end - cursor /\ cursor + size = 12 + 4 * n + b
      BY <2>3, <3>2
    <3> QED BY <3>1, <3>3
  <2>6. Room(size)
    BY <2>5 DEF Room
  <2>7. PICK sorted \in SortedByTag(records) : Put(DirectoryBytes(f.flavor, sorted))
    BY <1>9, <2>6 DEF WriteFont, size
  <2>8. /\ font' = font + 1 /\ phase' = "fonts"
        /\ UNCHANGED <<input, result, uncompressed_length, fonts, ttf_header>>
    BY <1>1, <1>9, <2>6 DEF WriteFont, size, Enter
  <2> DEFINE bytes == DirectoryBytes(f.flavor, sorted)
  <2>9. bytes \in Seq(Byte) /\ Len(bytes) = size
    <3>1. sorted \in SortedByTag(records)
      OBVIOUS
    <3>2. PICK recs, v : recs = records /\ v = f.flavor
      OBVIOUS
    <3> HIDE DEF records, f
    <3>3. recs \in Seq(WP!Record) /\ sorted \in SortedByTag(recs)
          /\ ~NewPanics(Len(recs), OverflowChecks) /\ v \in Nat
      BY <1>3, <1>7, <1>9, <3>1, <3>2
    <3>4. DirectoryBytes(v, sorted) \in Seq(Byte)
          /\ Len(DirectoryBytes(v, sorted)) = calculate_header_size(Len(recs))
      BY <3>3, SortedDirectory
    <3> QED BY <3>2, <3>4 DEF size
  <2> HIDE DEF bytes
  <2>10. Put(bytes)
    BY <2>7 DEF bytes
  <2>11. BufferInv' /\ KeepsBehindHeader /\ cursor' \in 0 .. header_end
    BY <1>1, <2>5, <2>8, <2>9, <2>10, PutKeeps DEF Inv
  <2>12. UNCHANGED <<tables, data, header_end, ttf_tables, next, status>>
         /\ cursor' = cursor + Len(bytes)
    BY <2>10 DEF Put
  <2>13. ParsedInv'
    BY <1>1, <2>8, <2>12, ParsedKept DEF Inv, ParsedInv
  <2>14. FontsInv'
    BY <2>8, FontsKept DEF Inv
  <2>15. FreshInv' /\ WriterInv'
    BY <2>8 DEF FreshInv, Reading, WriterInv
  <2>16. HeaderInv'
    <3>1. cursor' = 12 + 4 * Len(fonts) + DirectorySizes(fonts)[font' - 1]
      BY <2>1, <2>5, <2>8, <2>9, <2>12 DEF d
    <3>2. HeaderSize' = HeaderSize /\ header_end = HeaderSize
      BY <1>1, <2>8, <2>12, HeaderSizeKept DEF HeaderSize
    <3> QED BY <1>1, <2>1, <2>8, <2>11, <2>12, <3>1, <3>2 DEF HeaderInv, IsCollection
  <2>17. ResultInv'
    BY <1>1, <2>8, ResultKept DEF Inv
  <2> QED BY <2>11, <2>13, <2>14, <2>15, <2>16, <2>17 DEF Inv
<1> QED BY <1>8, <1>9

LEMMA WriteHeaderKeeps ==
  ASSUME Inv, WriteHeader
  PROVE  Inv' /\ KeepsBehindHeader
<1>1. /\ Written /\ ~IsCollection /\ phase = "write" /\ result = "none" /\ status = "ok"
      /\ Len(ttf_tables) = Len(tables) /\ Len(tables) = input.num_tables
      /\ input.flavor \in Nat
  <2>1. Written /\ ~IsCollection /\ phase = "write" /\ result = "none" /\ status = "ok"
    BY DEF WriteHeader, Written, Running
  <2> QED BY <2>1, AllWritten, FileFields DEF Inv, ParsedInv
<1>2. ttf_tables \in Seq(WP!Record) /\ Len(ttf_tables) \in Nat
  BY LenProperties DEF Inv, BufferInv, WP!TypeOK
<1>3. CASE NewPanics(Len(ttf_tables), OverflowChecks)
  <2>1. End("overflow_panic")
    BY <1>3 DEF WriteHeader
  <2>2. "overflow_panic" \in Results \ LatePanics
    BY DEF Results, LatePanics
  <2>3. Inv'
    BY <1>1, <2>1, <2>2, EndKeeps
  <2> QED BY <2>1, <2>3 DEF End, writer, KeepsBehindHeader
<1>4. CASE ~NewPanics(Len(ttf_tables), OverflowChecks)
  <2> DEFINE size == calculate_header_size(Len(ttf_tables))
  <2>1. cursor = 0 /\ header_end = size /\ header_end = HeaderSize
    BY <1>1 DEF Inv, HeaderInv, Reading, HeaderSize
  <2>2. size \in Nat
    BY <1>2 DEF calculate_header_size
  <2> HIDE DEF size
  <2>3. Room(size) /\ cursor \in 0 .. header_end /\ cursor + size <= header_end
    BY <2>1, <2>2 DEF Room
  <2>4. PICK sorted \in SortedByTag(ttf_tables) :
          Put(DirectoryBytes(input.flavor, sorted)) /\ ttf_header' = sorted
    BY <1>4, <2>3 DEF WriteHeader, size
  <2>5. /\ phase' = "head"
        /\ UNCHANGED <<input, result, uncompressed_length, fonts, font>>
    BY <1>4, <2>3 DEF WriteHeader, size, Enter
  <2> DEFINE bytes == DirectoryBytes(input.flavor, sorted)
  <2>6. /\ bytes \in Seq(Byte) /\ Len(bytes) = size
        /\ \A i \in DOMAIN sorted : \E k \in 1 .. Len(ttf_tables) : sorted[i] = ttf_tables[k]
    <3>1. sorted \in SortedByTag(ttf_tables)
      OBVIOUS
    <3>2. PICK v \in Nat : v = input.flavor
      BY <1>1
    <3>3. /\ DirectoryBytes(v, sorted) \in Seq(Byte)
          /\ Len(DirectoryBytes(v, sorted)) = calculate_header_size(Len(ttf_tables))
          /\ \A i \in DOMAIN sorted : \E k \in 1 .. Len(ttf_tables) : sorted[i] = ttf_tables[k]
      BY <1>2, <1>4, <3>1, SortedDirectory
    <3> QED BY <3>2, <3>3 DEF size
  <2> HIDE DEF bytes
  <2>7. Put(bytes)
    BY <2>4 DEF bytes
  <2>8. BufferInv' /\ KeepsBehindHeader /\ cursor' \in 0 .. header_end
    BY <1>1, <2>3, <2>5, <2>6, <2>7, PutKeeps DEF Inv
  <2>9. UNCHANGED <<tables, data, header_end, ttf_tables, next, status>>
    BY <2>7 DEF Put
  <2>10. ParsedInv'
    BY <1>1, <2>5, <2>9, ParsedKept DEF Inv, ParsedInv
  <2>11. FontsInv'
    BY <2>5, FontsKept DEF Inv
  <2>12. FreshInv' /\ WriterInv'
    BY <2>5 DEF FreshInv, Reading, WriterInv
  <2>13. HeaderInv'
    <3>1. HeaderSize' = HeaderSize
      BY <2>5, <2>9, HeaderSizeKept
    <3>2. font \in 1 .. Len(fonts) + 1
      BY DEF Inv, HeaderInv
    <3> QED BY <1>1, <2>1, <2>4, <2>5, <2>6, <2>8, <2>9, <3>1, <3>2 DEF HeaderInv, IsCollection
  <2>14. ResultInv'
    BY <1>1, <2>5, ResultKept DEF Inv
  <2> QED BY <2>8, <2>10, <2>11, <2>12, <2>13, <2>14 DEF Inv
<1> QED BY <1>3, <1>4
-----------------------------------------------------------------------------
(* The checksum adjustment.                                                *)

\* A record that the search for the head table can find.
LEMMA HeadFound ==
  ASSUME BufferInv, HeaderInv, phase = "head", NEW r \in find_table(ttf_header, HEAD_TAG)
  PROVE  \E k \in 1 .. Len(ttf_tables) : r = ttf_tables[k] /\ ttf_tables[k].tag = HEAD_TAG
<1>1. PICK i \in DOMAIN ttf_header : r = ttf_header[i] /\ ttf_header[i].tag = HEAD_TAG
  BY DEF find_table
<1>2. PICK k \in 1 .. Len(ttf_tables) : ttf_header[i] = ttf_tables[k]
  BY <1>1 DEF HeaderInv
<1> QED BY <1>1, <1>2

\* The adjustment overwrites nothing but zeros in the adjustment field of a head
\* table, if the offsets have not wrapped, and makes the checksum what it must be.
LEMMA AdjustmentProperties ==
  ASSUME BufferInv, result = "none", NEW k \in 1 .. Len(ttf_tables),
         ttf_tables[k].tag = HEAD_TAG, ttf_tables[k].length >= 12,
         NEW o \in Nat, o = ttf_tables[k].offset, NEW l \in Nat, l = ttf_tables[k].length,
         NEW v \in 0 .. U32 - 1
  PROVE  /\ Patched(Adjusted(out, o, l, v), out, o, BigEndian32(v))
         /\ FitsU32 => /\ \A i \in 9 .. 12 : out[o + i] = 0
                       /\ header_end <= o
                       /\ calculate_checksum(Adjusted(out, o, l, v))
                            = (calculate_checksum(out) + v) % U32
<1>1. o + l <= Len(out) /\ l >= 12 /\ out \in Seq(Byte) /\ v \in Nat
  <2>1. v \in Nat
    BY WidthType
  <2> QED BY <2>1, RecordInBuffer, SameBytes DEF BufferInv, WP!TypeOK
<1>2. Patched(Adjusted(out, o, l, v), out, o, BigEndian32(v))
  BY <1>1, AdjustedBytes
<1>3. ASSUME FitsU32
      PROVE  /\ \A i \in 9 .. 12 : out[o + i] = 0
             /\ header_end <= o
             /\ calculate_checksum(Adjusted(out, o, l, v)) = (calculate_checksum(out) + v) % U32
  <2>1. o % 4 = 0 /\ header_end <= o /\ \A i \in 9 .. 12 : out[o + i] = 0
    BY <1>3, SameBytes DEF BufferInv, WP!HeadsReady, FitsU32, WP!FitsU32
  <2>2. calculate_checksum(Adjusted(out, o, l, v)) = (calculate_checksum(out) + v) % U32
    BY <1>1, <2>1, AdjustedChecksum
  <2> QED BY <2>1, <2>2
<1> QED BY <1>2, <1>3

\* A byte behind the header changes in the adjustment field of a head table only.
KeepsButHead == FitsU32 => KeepsTables

LEMMA AdjustChecksumKeeps ==
  ASSUME Inv, AdjustChecksum
  PROVE  Inv' /\ KeepsButHead
<1> DEFINE adjustment == calculate_font_checksum_adjustment(out)
<1>1. /\ phase = "head" /\ result = "none" /\ ~IsCollection
      /\ BufferInv /\ HeaderInv /\ out \in Seq(Byte) /\ Len(out) \in Nat
  BY SameBytes, LenProperties DEF AdjustChecksum, Running, Inv, BufferInv, HeaderInv, WP!TypeOK
<1>2. PICK r \in find_table(ttf_header, HEAD_TAG) :
        IF Ends(r) > Len(out) THEN End("range_panic")
        ELSE IF HeadTruncated(HeadTable(r)) THEN End("invalid")
        ELSE /\ out' = Overwrite(out, r.offset, set_checksum_adjustment(HeadTable(r), adjustment))
             /\ result' = "ok"
             /\ UNCHANGED <<input, phase, heading,
                            tables, data, header_end, ttf_tables, next, status>>
  BY DEF AdjustChecksum
<1>3. PICK k \in 1 .. Len(ttf_tables) : r = ttf_tables[k] /\ ttf_tables[k].tag = HEAD_TAG
  BY <1>1, HeadFound
<1>4. PICK o \in Nat, l \in Nat :
        /\ o = ttf_tables[k].offset /\ l = ttf_tables[k].length /\ o + l <= Len(out)
  BY <1>1, RecordInBuffer
<1>5. ~(Ends(r) > Len(out))
  <2>1. Ends(r) = o + l
    BY <1>3, <1>4 DEF Ends
  <2> QED BY <1>1, <1>4, <2>1
<1>6. HeadTable(r) = Slice(out, o, l) /\ Len(Slice(out, o, l)) = l
  BY <1>1, <1>3, <1>4, SliceProperties DEF HeadTable
<1>7. CASE HeadTruncated(HeadTable(r))
  <2>1. End("invalid")
    BY <1>2, <1>5, <1>7
  <2>2. "invalid" \in Results \ LatePanics
    BY DEF Results, LatePanics
  <2>3. Inv'
    BY <1>1, <2>1, <2>2, EndKeeps
  <2>4. UNCHANGED out
    BY <2>1 DEF End, writer
  <2> QED BY <2>3, <2>4 DEF KeepsButHead, KeepsTables
<1>8. CASE ~HeadTruncated(HeadTable(r))
  <2>1. l >= 12
    BY <1>4, <1>6, <1>8 DEF HeadTruncated
  <2>2. PICK c \in 0 .. U32 - 1 : c = calculate_checksum(out)
    BY <1>1, ChecksumType
  <2>3. PICK v \in 0 .. U32 - 1 : v = (CHECKSUM_MINUEND - c) % U32 /\ v = adjustment
    <3>1. CHECKSUM_MINUEND \in 0 .. U32 - 1 /\ U32 \in Nat /\ U32 > 0
      BY WordsAssumption, WidthType
    <3>2. (CHECKSUM_MINUEND - c) % U32 \in 0 .. U32 - 1
      BY <3>1
    <3> QED BY <2>2, <3>2 DEF calculate_font_checksum_adjustment
  <2>4. /\ out' = Adjusted(out, o, l, v) /\ result' = "ok"
        /\ UNCHANGED <<input, phase, uncompressed_length, fonts, font, cursor, ttf_header>>
        /\ UNCHANGED <<tables, data, header_end, ttf_tables, next, status>>
    BY <1>2, <1>3, <1>4, <1>5, <1>6, <1>8, <2>3 DEF Adjusted, heading
  <2>5. /\ Patched(out', out, o, BigEndian32(v))
        /\ FitsU32 => /\ \A i \in 9 .. 12 : out[o + i] = 0
                      /\ header_end <= o
                      /\ calculate_checksum(out') = (calculate_checksum(out) + v) % U32
    BY <1>1, <1>3, <1>4, <2>1, <2>4, AdjustmentProperties
  <2>6. /\ out' \in Seq(Byte) /\ Len(out') = Len(out)
        /\ \A i \in 1 .. Len(out) : i \notin o + 9 .. o + 12 => out'[i] = out[i]
    BY <2>5 DEF Patched
  <2>7. BufferInv'
    <3>1. FitsU32 => \A j \in 1 .. Len(ttf_tables) :
                       ttf_tables[j].tag = HEAD_TAG => ttf_tables[j].length >= 12
      BY <1>1 DEF BufferInv
    <3> QED BY <1>1, <2>4, <2>6, <3>1, SameBytes
            DEF BufferInv, FitsU32, WP!TypeOK, WP!EndsInside
  <2>8. KeepsButHead
    <3>1. ASSUME FitsU32, NEW i \in header_end + 1 .. Len(out), out'[i] # out[i]
          PROVE  out[i] = 0 /\ i - ttf_tables[k].offset \in 9 .. 12
      <4>1. header_end \in Nat
        BY <1>1 DEF BufferInv, WP!TypeOK
      <4>2. i \in 1 .. Len(out) /\ i \in o + 9 .. o + 12
        BY <1>1, <2>6, <3>1, <4>1
      <4>3. i - o \in 9 .. 12 /\ o + (i - o) = i
        BY <4>2
      <4> QED BY <1>4, <2>5, <3>1, <4>3
    <3>2. k \in DOMAIN ttf_tables
      BY <1>1, LenProperties DEF BufferInv, WP!TypeOK
    <3> QED BY <1>3, <3>1, <3>2 DEF KeepsButHead, KeepsTables
  <2>9. ResultInv'
    <3>1. ASSUME FitsU32 PROVE calculate_checksum(out') = CHECKSUM_MINUEND
      <4>1. calculate_checksum(out') = (c + ((CHECKSUM_MINUEND - c) % U32)) % U32
        BY <2>2, <2>3, <2>5, <3>1
      <4>2. PICK m \in 0 .. U32 - 1 : m = CHECKSUM_MINUEND
        BY WordsAssumption
      <4>3. (c + ((m - c) % U32)) % U32 = m
        <5> DEFINE x == m - c
        <5>1. x \in Int /\ c \in Int /\ x + c = m /\ x % U32 \in Int
          BY WidthType
        <5> HIDE DEF x
        <5>2. ((x % U32) + c) % U32 = (x + c) % U32
          BY <5>1, WrappedSum
        <5>3. m % U32 = m
          BY WidthType
        <5>4. c + (x % U32) = (x % U32) + c
          BY <5>1
        <5> QED BY <5>1, <5>2, <5>3, <5>4 DEF x
      <4> QED BY <4>1, <4>2, <4>3
    <3>2. (FitsU32 <=> FitsU32') /\ "ok" \in Results \ LatePanics
      BY <2>6 DEF FitsU32, Results, LatePanics
    <3> QED BY <2>4, <3>1, <3>2 DEF ResultInv, FontChecksum, Results, LatePanics
  <2>10. ParsedInv'
    BY <2>4, ParsedKept DEF Inv, ParsedInv
  <2>11. FontsInv'
    BY <2>4, FontsKept DEF Inv
  <2>12. FreshInv' /\ WriterInv'
    BY <1>1, <2>4 DEF FreshInv, Reading, WriterInv
  <2>13. HeaderInv'
    <3>1. HeaderSize' = HeaderSize
      BY <2>4, HeaderSizeKept
    <3> QED BY <1>1, <2>4, <3>1 DEF HeaderInv, Reading, IsCollection
  <2> QED BY <2>7, <2>8, <2>9, <2>10, <2>11, <2>12, <2>13 DEF Inv
<1> QED BY <1>7, <1>8
-----------------------------------------------------------------------------
(* Every step.                                                             *)

LEMMA BehindIsKept == KeepsBehindHeader => KeepsButHead
BY DEF KeepsBehindHeader, KeepsButHead, KeepsTables

\* The steps that end the conversion because of what they find.
EndStep == \/ RejectHeader \/ LengthOverflow \/ RejectDirectory \/ RejectCollection
           \/ RejectStream \/ WriteFails \/ CollectionWritten \/ NoHead

LEMMA EndStepKeeps ==
  ASSUME Inv, EndStep
  PROVE  Inv' /\ KeepsButHead
<1>1. PICK r \in Results \ LatePanics :
        result = "none" /\ End(r) /\ (r = "ok" => IsCollection)
  <2>1. {"ok", "invalid", "overflow_panic"} \subseteq Results \ LatePanics
    BY DEF Results, LatePanics
  <2>2. Outcome(status) \in Results \ LatePanics /\ Outcome(status) # "ok"
    BY DEF Outcome, Results, LatePanics
  <2>3. CASE RejectHeader
    BY <2>1, <2>3 DEF RejectHeader, Running
  <2>4. CASE LengthOverflow
    BY <2>1, <2>4 DEF LengthOverflow, AtReadableEntry, Running
  <2>5. CASE RejectDirectory
    BY <2>1, <2>5 DEF RejectDirectory, Running
  <2>6. CASE RejectCollection
    BY <2>1, <2>6 DEF RejectCollection, Running
  <2>7. CASE RejectStream
    BY <2>1, <2>7 DEF RejectStream, Running
  <2>8. CASE WriteFails
    BY <2>2, <2>8 DEF WriteFails, Running
  <2>9. CASE CollectionWritten
    BY <2>1, <2>9 DEF CollectionWritten, Running, Inv, HeaderInv
  <2>10. CASE NoHead
    BY <2>1, <2>10 DEF NoHead, Running
  <2> QED BY <2>3, <2>4, <2>5, <2>6, <2>7, <2>8, <2>9, <2>10 DEF EndStep
<1>2. Inv'
  BY <1>1, EndKeeps
<1>3. UNCHANGED out
  BY <1>1 DEF End, writer
<1> QED BY <1>2, <1>3 DEF KeepsButHead, KeepsTables

\* The steps that go on to the next part of the file.
EnterStep == ReadHeader \/ DirectoryRead \/ CollectionRead

LEMMA EnterStepKeeps ==
  ASSUME Inv, EnterStep
  PROVE  Inv' /\ KeepsButHead
<1>1. result = "none" /\ UNCHANGED <<heading, writer>> /\ UNCHANGED out
  BY DEF EnterStep, ReadHeader, DirectoryRead, CollectionRead, Running, writer
<1>2. KeepsButHead
  BY <1>1 DEF KeepsButHead, KeepsTables
<1>3. CASE ReadHeader
  <2>1. Enter("directory") /\ "directory" \in Reading /\ phase \in Reading
    BY <1>3 DEF ReadHeader, Running, Reading
  <2> QED BY <1>1, <1>2, <2>1, EnterKeeps
<1>4. CASE DirectoryRead
  <2>1. Len(tables) = input.num_tables
    <3>1. Len(tables) \in Nat /\ input.num_tables \in Nat /\ Len(tables) <= input.num_tables
      BY FileFields, LenProperties DEF Inv, ParsedInv
    <3>2. ~(Len(tables) < input.num_tables)
      BY <1>4 DEF DirectoryRead, EntriesLeft
    <3> QED BY <3>1, <3>2
  <2>2. PICK p \in Reading : Enter(p) /\ phase \in Reading
    BY <1>4 DEF DirectoryRead, Running, Reading
  <2> QED BY <1>1, <1>2, <2>1, <2>2, EnterKeeps
<1>5. CASE CollectionRead
  <2>1. /\ Enter("stream") /\ "stream" \in Reading /\ phase \in Reading
        /\ Len(tables) = input.num_tables
    BY <1>5 DEF CollectionRead, Running, Reading, Inv, ParsedInv
  <2> QED BY <1>1, <1>2, <2>1, EnterKeeps
<1> QED BY <1>3, <1>4, <1>5 DEF EnterStep

\* The steps after which the buffer still has the bytes it had.
LEMMA BytesKept ==
  ASSUME Inv, ReadEntry \/ ReadFont \/ Decompress \/ Write \/ SortFont
  PROVE  KeepsButHead
<1>1. CASE ReadEntry \/ ReadFont
  <2>1. UNCHANGED out
    BY <1>1 DEF ReadEntry, KeepRest, ReadFont, writer
  <2> QED BY <2>1 DEF KeepsButHead, KeepsTables
<1>2. CASE SortFont
  <2>1. UNCHANGED out
    BY <1>2 DEF SortFont, End, writer
  <2> QED BY <2>1 DEF KeepsButHead, KeepsTables
<1>3. CASE Decompress
  <2>1. WP!InitWith(tables, << >>, 0)
    BY <1>3 DEF Decompress, Running, Inv, FreshInv, Reading
  <2>2. header_end = 0 /\ out = [i \in 1 .. 0 |-> 0]
    BY <2>1 DEF WP!InitWith, WP!Zeros
  <2>3. Len(out) = 0
    BY <2>2
  <2> QED BY <2>2, <2>3 DEF KeepsButHead, KeepsTables
<1>4. CASE Write
  <2>1. WP!KeepsBytes
    <3>1. WP!IInv /\ WP!ContentsInv /\ W!Next
      BY <1>4 DEF Write, Running, Inv, WriterInv
    <3> QED BY <3>1, WriterKept
  <2>2. header_end \in Nat
    BY DEF Inv, BufferInv, WP!TypeOK
  <2>3. \A i \in header_end + 1 .. Len(out) : i \in 1 .. Len(out)
    BY <2>2
  <2> QED BY <2>1, <2>3 DEF WP!KeepsBytes, KeepsButHead, KeepsTables
<1> QED BY <1>1, <1>2, <1>3, <1>4

LEMMA StutterKeeps ==
  ASSUME Inv, UNCHANGED vars
  PROVE  Inv' /\ KeepsButHead
<1>1. /\ UNCHANGED <<input, phase, uncompressed_length, fonts, font, cursor, ttf_header, result>>
      /\ UNCHANGED writer /\ UNCHANGED <<tables, header_end, out, ttf_tables, status>>
  BY DEF vars, heading, writer
<1>2. ParsedInv'
  BY <1>1, ParsedKept DEF Inv, ParsedInv
<1>3. FontsInv'
  BY <1>1, FontsKept DEF Inv
<1>4. FreshInv'
  BY <1>1 DEF Inv, FreshInv, WP!InitWith, writer
<1>5. WriterInv'
  BY <1>1, WriterKept DEF Inv, WriterInv
<1>6. BufferInv'
  BY <1>1, BufferKept DEF Inv
<1>7. HeaderInv'
  BY <1>1, HeaderSizeKept DEF Inv, HeaderInv, IsCollection
<1>8. ResultInv'
  BY <1>1 DEF Inv, ResultInv, FontChecksum, IsCollection, FitsU32
<1>9. KeepsButHead
  BY <1>1 DEF KeepsButHead, KeepsTables
<1> QED BY <1>2, <1>3, <1>4, <1>5, <1>6, <1>7, <1>8, <1>9 DEF Inv

LEMMA StepKeeps == Inv /\ [Next]_vars => Inv' /\ KeepsButHead
<1> SUFFICES ASSUME Inv, [Next]_vars PROVE Inv' /\ KeepsButHead
  OBVIOUS
<1>1. CASE EndStep
  BY <1>1, EndStepKeeps
<1>2. CASE EnterStep
  BY <1>2, EnterStepKeeps
<1>3. CASE ReadEntry
  BY <1>3, ReadEntryKeeps, BytesKept
<1>4. CASE ReadFont
  BY <1>4, ReadFontKeeps, BytesKept
<1>5. CASE Decompress
  BY <1>5, DecompressKeeps, BytesKept
<1>6. CASE Write
  BY <1>6, WriteKeeps, BytesKept
<1>7. CASE SortFont
  BY <1>7, SortFontKeeps, BytesKept
<1>8. CASE WriteCollectionHeader
  BY <1>8, WriteCollectionHeaderKeeps, BehindIsKept
<1>9. CASE WriteFont
  BY <1>9, WriteFontKeeps, BehindIsKept
<1>10. CASE WriteHeader
  BY <1>10, WriteHeaderKeeps, BehindIsKept
<1>11. CASE AdjustChecksum
  BY <1>11, AdjustChecksumKeeps
<1>12. CASE UNCHANGED vars
  BY <1>12, StutterKeeps
<1> QED BY <1>1, <1>2, <1>3, <1>4, <1>5, <1>6, <1>7, <1>8, <1>9, <1>10, <1>11, <1>12
        DEF Next, EndStep, EnterStep

\* The invariant is inductive.
LEMMA Invariance == Spec => []Inv
<1>1. Inv /\ [Next]_vars => Inv'
  BY StepKeeps
<1> QED BY <1>1, InitInv, PTL DEF Spec
-----------------------------------------------------------------------------
(* What follows for every set of files.                                    *)

\* The conversion's variables have their types, and the writer is called with
\* what it assumes of its inputs.
THEOREM ConversionTypes == Spec => []TypeOK
<1>1. Inv => TypeOK
  <2> SUFFICES ASSUME Inv PROVE TypeOK
    OBVIOUS
  <2>1. W!TypeOK /\ header_end % 4 = 0
    BY SameType DEF Inv, BufferInv
  <2>2. phase \in {"header", "directory", "collection", "stream", "write", "fonts", "head"}
    BY DEF Inv, ParsedInv, Reading
  <2>3. uncompressed_length \in 0 .. U32 - 1 /\ result \in Results
    BY DEF Inv, ParsedInv, ResultInv
  <2> QED BY <2>1, <2>2, <2>3 DEF Inv, HeaderInv, TypeOK
<1> QED BY <1>1, Invariance, PTL

\* A single font that is accepted, and is smaller than 4 GiB, has the checksum
\* OpenType prescribes, for the adjustment field of the head table it patches was
\* zero in the sum that it computes.
THEOREM FontChecksumHolds == Spec => []FontChecksum
<1>1. Inv => FontChecksum
  BY DEF Inv, ResultInv
<1> QED BY <1>1, Invariance, PTL

\* The last step finds the adjustment field inside the buffer.
THEOREM HeadPatchable == Spec => []HeadIsPatchable
<1>1. Inv => HeadIsPatchable
  <2> SUFFICES ASSUME Inv, phase = "head", FitsU32, NEW r \in find_table(ttf_header, HEAD_TAG)
               PROVE  r.length >= 12 /\ Ends(r) <= Len(out)
    BY DEF HeadIsPatchable
  <2>1. BufferInv /\ HeaderInv
    BY DEF Inv
  <2>2. PICK k \in 1 .. Len(ttf_tables) : r = ttf_tables[k] /\ ttf_tables[k].tag = HEAD_TAG
    BY <2>1, HeadFound
  <2>3. ttf_tables[k].offset + ttf_tables[k].length <= Len(out)
    BY <2>1, RecordInBuffer
  <2> QED BY <2>1, <2>2, <2>3 DEF BufferInv, Ends
<1> QED BY <1>1, Invariance, PTL

\* The assertions and the indexing that follow the tables never panic.
THEOREM NoLatePanics == Spec => []NoLatePanic
<1>1. Inv => NoLatePanic
  BY DEF Inv, ResultInv, NoLatePanic, LatePanics
<1> QED BY <1>1, Invariance, PTL

\* With overflow checks, the length that is returned with the directory is the
\* sum of the lengths of its entries.
THEOREM CheckedLength == Spec => []CheckedLengthIsTotal
<1>1. Inv => CheckedLengthIsTotal
  BY DEF Inv, ParsedInv, CheckedLengthIsTotal, UncompressedLengthIsTotal
<1> QED BY <1>1, Invariance, PTL

\* No step changes a byte behind the header, but the last one, which replaces
\* zeros in the adjustment field of a head table.
THEOREM TablesFinal == Spec => TablesAreFinal
<1>1. Inv /\ [Next]_vars => [FitsU32 => KeepsTables]_vars
  BY StepKeeps DEF KeepsButHead
<1> QED BY <1>1, Invariance, PTL DEF Spec, TablesAreFinal
=============================================================================
