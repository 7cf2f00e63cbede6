------------------------------- MODULE Decode -------------------------------
(***************************************************************************)
(* convert_woff2_to_ttf (src/decode.rs): header, table directory, optional *)
(* collection directory, decompression, the tables, the OpenType headers   *)
(* in front of them and the checksum adjustment of a single font.          *)
(*                                                                         *)
(* An input is what its bytes parse to. directory and fonts hold the items *)
(* that can be read; when the counts announce more, the next one is         *)
(* truncated or malformed. The tables are written by TablesWriter's actions. *)
(* Brotli is external: stream says what the decompressor makes of the input. *)
(***************************************************************************)
EXTENDS Sfnt

CONSTANTS GLYF_TAG, LOCA_TAG, HEAD_TAG, HMTX_TAG, Tags, GlyfOutcomes,
          WOFF2_SIGNATURE, TTF_COLLECTION_FLAVOR, TTF_TRUE_TYPE_FLAVOR, TTF_CFF_FLAVOR,
          CHECKSUM_MINUEND,
          Files            \* the inputs converted, each by one of the builds

\* What can be read of an input. Lengths and tags are u32, indices u16.
RawEntry  == [tag : Tags, version : 0 .. 3,
              orig_length : 0 .. U32 - 1, transform_length : 0 .. U32 - 1]
FontEntry == [flavor : 0 .. U32 - 1, table_indices : Seq(0 .. U16 - 1)]

ASSUME TagAssumption == /\ {GLYF_TAG, LOCA_TAG, HEAD_TAG, HMTX_TAG} \subseteq Tags
                        /\ Tags \subseteq 0 .. U32 - 1
                        /\ GLYF_TAG # LOCA_TAG /\ HEAD_TAG \notin {GLYF_TAG, LOCA_TAG}
ASSUME OutcomeAssumption ==
  \A g \in GlyfOutcomes : g.glyf \in Seq(Byte) /\ g.loca \in Seq(Byte)
ASSUME WordsAssumption == {TTF_COLLECTION_FLAVOR, CHECKSUM_MINUEND} \subseteq 0 .. U32 - 1
ASSUME FilesAssumption ==
  \A f \in Files :
    /\ f.overflow_checks \in BOOLEAN /\ f.flavor \in 0 .. U32 - 1
    /\ f.num_tables \in Nat /\ f.directory \in Seq(RawEntry)
    /\ f.num_fonts \in Nat /\ f.fonts \in Seq(FontEntry)
    /\ f.stream.plain \in Seq(Byte)

VARIABLES
  input,                \* one of Files
  phase,                \* the part of the conversion in progress
  uncompressed_length,  \* src_offset of from_buf, then the directory's field
  fonts,                \* collection_header.fonts
  font,                 \* the font a loop over them has reached
  cursor,               \* bytes of the header written
  ttf_header,           \* the records of a single font's sorted TableDirectory
  result,               \* "none", then how the conversion ended
  tables, data, header_end, out, ttf_tables, next, status    \* as in TablesWriter

writer == <<tables, data, header_end, out, ttf_tables, next, status>>
heading == <<uncompressed_length, fonts, font, cursor, ttf_header>>
vars == <<input, phase, heading, result, writer>>

W == INSTANCE TablesWriter WITH Inputs <- {}

Flavors == {TTF_COLLECTION_FLAVOR, TTF_CFF_FLAVOR, TTF_TRUE_TYPE_FLAVOR}
V1 == U16          \* CollectionHeaderVersion, 0x0001_0000 and 0x0002_0000
V2 == 2 * U16

IsCollection == input.flavor = TTF_COLLECTION_FLAVOR
OverflowChecks == input.overflow_checks      \* the build profile

Init == /\ input \in Files /\ phase = "header" /\ result = "none"
        /\ uncompressed_length = 0 /\ fonts = << >> /\ font = 1
        /\ cursor = 0 /\ ttf_header = << >>
        /\ W!InitWith(<< >>, << >>, 0)

Running(p) == phase = p /\ result = "none"
Enter(p) == phase' = p /\ UNCHANGED <<input, result>>
End(r)   == result' = r /\ UNCHANGED <<input, phase, heading, writer>>
-----------------------------------------------------------------------------
(* Woff2Header and Woff2TableDirectory::from_buf                           *)

HeaderValid == ~input.truncated /\ input.signature = WOFF2_SIGNATURE
               /\ input.flavor \in Flavors

RejectHeader == Running("header") /\ ~HeaderValid /\ End("invalid")

ReadHeader == Running("header") /\ HeaderValid /\ Enter("directory")
              /\ UNCHANGED <<heading, writer>>

\* The two transformation version bits of the flags mean no transform.
IsNull(raw) == raw.version = IF raw.tag \in {GLYF_TAG, LOCA_TAG} THEN 3 ELSE 0

EntryOf(raw, offset) ==
  [transformed |-> ~IsNull(raw), tag |-> raw.tag,
   src_length |-> IF IsNull(raw) THEN raw.orig_length ELSE raw.transform_length,
   src_offset |-> offset]

EntryRead == EntryOf(input.directory[Len(tables) + 1], uncompressed_length)
EntriesLeft == Len(tables) < input.num_tables
Unwrapped == uncompressed_length + EntryRead.src_length

AtReadableEntry == Running("directory") /\ EntriesLeft /\ Len(tables) < Len(input.directory)

KeepRest == Enter("directory") /\ UNCHANGED <<fonts, font, cursor, ttf_header,
                                data, header_end, out, ttf_tables, next, status>>

\* Mutated forms of the next: the sum does not wrap, or wraps unchecked.
ReadEntryUnwrapped ==
  AtReadableEntry /\ tables' = Append(tables, EntryRead)
  /\ uncompressed_length' = Unwrapped /\ KeepRest
ReadEntryUnchecked ==
  AtReadableEntry /\ tables' = Append(tables, EntryRead)
  /\ uncompressed_length' = Unwrapped % U32 /\ KeepRest
ReadEntry ==
  /\ AtReadableEntry /\ ~(OverflowChecks /\ Unwrapped >= U32)
  /\ tables' = Append(tables, EntryRead)
  /\ uncompressed_length' = Unwrapped % U32
  /\ KeepRest

LengthOverflow ==
  AtReadableEntry /\ OverflowChecks /\ Unwrapped >= U32 /\ End("overflow_panic")

RejectDirectory == Running("directory") /\ EntriesLeft
                   /\ Len(tables) = Len(input.directory) /\ End("invalid")

DirectoryRead == /\ Running("directory") /\ ~EntriesLeft
                 /\ Enter(IF IsCollection THEN "collection" ELSE "stream")
                 /\ UNCHANGED <<heading, writer>>
-----------------------------------------------------------------------------
(* CollectionHeader::from_buf                                              *)

IndexInclusive(idx) == idx <= input.num_tables                 \* mutated form
IndexExceptLast(idx) == idx < input.num_tables - 1             \* mutated form
IndexValid(idx) == idx < input.num_tables

FontReadable == Len(fonts) < Len(input.fonts)
NextFont     == input.fonts[Len(fonts) + 1]
FontValid    == /\ FontReadable /\ NextFont.table_indices # << >>
                /\ \A i \in DOMAIN NextFont.table_indices : IndexValid(NextFont.table_indices[i])
FontsLeft    == Len(fonts) < input.num_fonts
VersionValid == input.version \in {V1, V2}

RejectCollection == Running("collection") /\ (~VersionValid \/ (FontsLeft /\ ~FontValid))
                    /\ End("invalid")

ReadFont ==
  /\ Running("collection") /\ VersionValid /\ FontsLeft /\ FontValid
  /\ fonts' = Append(fonts, NextFont)
  /\ Enter("collection")
  /\ UNCHANGED <<uncompressed_length, font, cursor, ttf_header, writer>>

CollectionRead == /\ Running("collection") /\ VersionValid /\ ~FontsLeft
                  /\ Enter("stream") /\ UNCHANGED <<heading, writer>>
-----------------------------------------------------------------------------
(* The compressed stream and the writer's call.                            *)

StreamValid == /\ input.remaining >= input.total_compressed_size
               /\ ~input.stream.fails /\ input.stream.unread = 0

RejectStream == Running("stream") /\ ~StreamValid /\ End("invalid")

calculate_directory_size(f) == 12 + 16 * Len(f.table_indices)

\* The bytes of the directories of the first n fonts, for every n.
DirectorySizes(list) ==
  LET size[n \in 0 .. Len(list)] ==
        IF n = 0 THEN 0 ELSE size[n-1] + calculate_directory_size(list[n])
  IN  size

\* Of the collection header and the directories behind it, or of one directory.
HeaderSize == IF IsCollection
              THEN 12 + 4 * Len(fonts) + DirectorySizes(fonts)[Len(fonts)]
              ELSE calculate_header_size(Len(tables))

Decompress ==
  /\ Running("stream") /\ StreamValid
  /\ data' = input.stream.plain
  /\ header_end' = HeaderSize /\ out' = Zeros(HeaderSize)
  /\ Enter("write")
  /\ UNCHANGED <<heading, tables, ttf_tables, next, status>>

Write == Running("write") /\ W!Next /\ UNCHANGED <<input, phase, heading, result>>

\* From<WriteTablesError> for DecodeError, and the writer's panics.
Outcome(s) == CASE s = "Unsupported" -> "unsupported"
                [] s \in {"slice_panic", "count_panic", "glyf_panic"} -> s
                [] OTHER -> "invalid"

WriteFails == /\ Running("write") /\ status \notin {"writing", "ok"}
              /\ End(Outcome(status))

Written == Running("write") /\ status = "ok"
-----------------------------------------------------------------------------
(* The headers: CollectionHeader::write_to_buf, TableDirectory::write_to_buf *)

Missing(f)   == \E i \in DOMAIN f.table_indices : f.table_indices[i] >= Len(ttf_tables)

\* Indexing ttf_tables panics out of bounds.
SortFont ==
  /\ Written /\ IsCollection /\ font <= Len(fonts)
  /\ IF Missing(fonts[font]) THEN End("index_panic")
     ELSE /\ LET indices == fonts[font].table_indices
                 keys == [i \in DOMAIN indices |-> ttf_tables[indices[i] + 1].tag]
             IN  \E sorted \in SortedBy(keys, indices) :
                   fonts' = [fonts EXCEPT ![font].table_indices = sorted]
          /\ font' = font + 1
          /\ Enter("write") /\ UNCHANGED <<uncompressed_length, cursor, ttf_header, writer>>

\* The offsets of the font directories, which follow one another. Mutated form:
\* the list of offsets itself is forgotten.
DirectoryOffsetsAtHeader ==
  [f \in DOMAIN fonts |-> (12 + DirectorySizes(fonts)[f - 1]) % U32]
DirectoryOffsets ==
  [f \in DOMAIN fonts |-> (12 + 4 * Len(fonts) + DirectorySizes(fonts)[f - 1]) % U32]

\* Writes bytes at the cursor of header_buffer, which is asserted to have room.
Room(n)    == n <= header_end - cursor
Put(bytes) == /\ out' = Overwrite(out, cursor, bytes)
              /\ cursor' = cursor + Len(bytes)
              /\ UNCHANGED <<tables, data, header_end, ttf_tables, next, status>>

WriteCollectionHeader ==
  /\ Written /\ IsCollection /\ font > Len(fonts)
  /\ IF ~Room(HeaderSize) THEN End("room_panic")
     ELSE /\ Put(BigEndian32(TTF_COLLECTION_FLAVOR) \o BigEndian32(V1)
                   \o BigEndian32(Len(fonts) % U32)
                   \o FlattenSeq([f \in DOMAIN fonts |-> BigEndian32(DirectoryOffsets[f])]))
          /\ font' = 1
          /\ Enter("fonts") /\ UNCHANGED <<uncompressed_length, fonts, ttf_header>>

FontTables(f) == [i \in DOMAIN f.table_indices |-> ttf_tables[f.table_indices[i] + 1]]

AtFont == Running("fonts") /\ font <= Len(fonts)

WriteFontStuck == AtFont /\ UNCHANGED vars                     \* mutated form
WriteFont ==
  LET records == FontTables(fonts[font])
  IN  /\ AtFont
      /\ IF NewPanics(Len(records), OverflowChecks) THEN End("overflow_panic")
         ELSE IF ~Room(calculate_header_size(Len(records))) THEN End("room_panic")
         ELSE /\ \E sorted \in SortedByTag(records) :
                   Put(DirectoryBytes(fonts[font].flavor, sorted))
              /\ font' = font + 1
              /\ Enter("fonts") /\ UNCHANGED <<uncompressed_length, fonts, ttf_header>>

CollectionWritten == Running("fonts") /\ font > Len(fonts) /\ End("ok")

WriteHeader ==
  /\ Written /\ ~IsCollection
  /\ IF NewPanics(Len(ttf_tables), OverflowChecks) THEN End("overflow_panic")
     ELSE IF ~Room(calculate_header_size(Len(ttf_tables))) THEN End("room_panic")
     ELSE /\ \E sorted \in SortedByTag(ttf_tables) :
               Put(DirectoryBytes(input.flavor, sorted)) /\ ttf_header' = sorted
          /\ Enter("head") /\ UNCHANGED <<uncompressed_length, fonts, font>>
-----------------------------------------------------------------------------
(* The checksum adjustment of a single font.                               *)

adjustment_without_header(buffer) ==                            \* mutated form
  (CHECKSUM_MINUEND - calculate_checksum(SubSeq(buffer, header_end + 1, Len(buffer)))) % U32
calculate_font_checksum_adjustment(buffer) ==
  (CHECKSUM_MINUEND - calculate_checksum(buffer)) % U32

Ends(r) == r.offset + r.length
HeadTable(r) == Slice(out, r.offset, r.length)

\* find_table, get_range and set_checksum_adjustment.
AdjustChecksum ==
  /\ Running("head")
  /\ \E r \in find_table(ttf_header, HEAD_TAG) :
       IF Ends(r) > Len(out) THEN End("range_panic")
       ELSE IF HeadTruncated(HeadTable(r)) THEN End("invalid")
       ELSE /\ out' = Overwrite(out, r.offset, set_checksum_adjustment(
                         HeadTable(r), calculate_font_checksum_adjustment(out)))
            /\ result' = "ok"
            /\ UNCHANGED <<input, phase, heading,
                           tables, data, header_end, ttf_tables, next, status>>

NoHead == Running("head") /\ find_table(ttf_header, HEAD_TAG) = {} /\ End("invalid")

Next == \/ RejectHeader \/ ReadHeader
        \/ ReadEntry \/ LengthOverflow \/ RejectDirectory \/ DirectoryRead
        \/ RejectCollection \/ ReadFont \/ CollectionRead
        \/ RejectStream \/ Decompress \/ Write \/ WriteFails
        \/ SortFont \/ WriteCollectionHeader \/ WriteFont \/ CollectionWritten
        \/ WriteHeader \/ AdjustChecksum \/ NoHead

Spec     == Init /\ [][Next]_vars
FairSpec == Spec /\ WF_vars(Next)     \* the caller's thread keeps running
-----------------------------------------------------------------------------
(* What a conversion gets right.                                           *)

Results == {"none", "ok", "invalid", "unsupported", "overflow_panic", "slice_panic",
            "count_panic", "glyf_panic", "index_panic", "room_panic", "range_panic"}

\* The conversion's variables have the types of what they stand for, and the
\* writer is called with what TablesWriter assumes of its inputs.
TypeOK ==
  /\ result \in Results
  /\ phase \in {"header", "directory", "collection", "stream", "write", "fonts", "head"}
  /\ uncompressed_length \in 0 .. U32 - 1
  /\ font \in 1 .. Len(fonts) + 1 /\ cursor \in 0 .. header_end
  /\ W!TypeOK /\ header_end % 4 = 0

FitsU32 == Len(out) < U32

\* An accepted single font sums to the constant OpenType prescribes, with the
\* adjustment in the head table of the font that was summed to compute it. (In a
\* file of 4 GiB the head record may have wrapped and the adjustment miss it.)
FontChecksum ==
  result = "ok" /\ ~IsCollection /\ FitsU32 => calculate_checksum(out) = CHECKSUM_MINUEND

\* Every head record that can be found has the field to patch inside the buffer:
\* the range and length checks of the last step have been made by the writer.
HeadIsPatchable == phase = "head" /\ FitsU32 =>
  \A r \in find_table(ttf_header, HEAD_TAG) : r.length >= 12 /\ Ends(r) <= Len(out)

\* What the code asserts or indexes after the tables are written always holds:
\* the indices checked against num_tables are within the records that write_to_buf
\* asserted to be as many, and the header fits the space made for it.
NoLatePanic == result \notin {"index_panic", "room_panic", "range_panic"}

\* A byte behind the header never changes once it is written, except that the
\* final step replaces zeros in the adjustment field of a head table.
KeepsTables == \A i \in header_end + 1 .. Len(out) :
                 out'[i] # out[i] =>
                   /\ out[i] = 0
                   /\ \E k \in DOMAIN ttf_tables :
                        /\ ttf_tables[k].tag = HEAD_TAG
                        /\ i - ttf_tables[k].offset \in 9 .. 12
TablesAreFinal == [][FitsU32 => KeepsTables]_vars

\* The conversion returns.
Terminates == <>(result # "none")
-----------------------------------------------------------------------------
(* The font read back from its bytes, as a font loader would.              *)

Plain  == input.stream.plain
Source(i) == EntryOf(input.directory[i], 0)

\* Where the data of entry i starts: after that of the entries before it.
Start(i) ==
  LET start[n \in 0 .. Len(input.directory)] ==
        IF n = 0 THEN 0 ELSE start[n-1] + Source(n).src_length
  IN  start[i - 1]

Unadjusted(tag, bytes) ==
  IF tag = HEAD_TAG THEN set_checksum_adjustment(bytes, 0) ELSE bytes

FontCount == IF IsCollection THEN input.num_fonts ELSE 1
FontAt(f) == IF IsCollection THEN Word(out, 3 + f) ELSE 0
Flavor(f) == IF IsCollection THEN input.fonts[f].flavor ELSE input.flavor

\* The directory entries font f consists of, as a sequence.
Members(f) == IF IsCollection
              THEN [i \in DOMAIN input.fonts[f].table_indices |->
                      input.fonts[f].table_indices[i] + 1]
              ELSE [i \in 1 .. input.num_tables |-> i]

NumTablesAt(at)  == out[at + 5] * Radix + out[at + 6]
RecordAt(at, k) == LET w == at \div 4 + 4 * k
                   IN  [tag |-> Word(out, w), checksum |-> Word(out, w + 1),
                        offset |-> Word(out, w + 2), length |-> Word(out, w + 3)]

\* The record describes the table of directory entry i.
Describes(r, i) ==
  LET bytes == Slice(out, r.offset, r.length)
  IN  /\ r.tag = Source(i).tag
      /\ r.checksum = calculate_checksum(Unadjusted(r.tag, bytes))
      /\ IF Source(i).transformed
         THEN \E g \in GlyfOutcomes : bytes = IF r.tag = GLYF_TAG THEN g.glyf ELSE g.loca
         ELSE Unadjusted(r.tag, bytes)
                = Unadjusted(r.tag, Slice(Plain, Start(i), Source(i).src_length))

\* Font f can be loaded: its directory is where the file says, sorted by tag, and
\* every one of its tables is found there with its own bytes and checksum.
Loads(f) ==
  LET at == FontAt(f)
      n  == Len(Members(f))
  IN  /\ Word(out, at \div 4 + 1) = Flavor(f) /\ NumTablesAt(at) = n
      /\ \A k \in 1 .. n - 1 : RecordAt(at, k).tag <= RecordAt(at, k + 1).tag
      /\ \A m \in 1 .. n : \E k \in 1 .. n : Describes(RecordAt(at, k), Members(f)[m])

\* The lengths add up without wrapping.
TotalFits == Start(Len(input.directory) + 1) < U32

DistinctTags == \A i, j \in DOMAIN tables : tables[i].tag = tables[j].tag => i = j

\* Every font of an accepted file can be loaded, through every padding, sort and
\* wrap in between: for a single font without repeated tags, wherever its loca
\* stands, and for a collection whose loca entries adjoin their glyf entries.
FontsLoad ==
  /\ result = "ok" /\ FitsU32 /\ TotalFits
  /\ W!Adjoining \/ (~IsCollection /\ DistinctTags)
  => \A f \in 1 .. FontCount : Loads(f)

\* collection.rs:144 calls table_indices indices of tables in the WOFF2 table
\* directory, without the adjoining that FontsLoad asks for.
IndicesNameDirectoryEntries ==
  result = "ok" /\ IsCollection =>
    \A f \in 1 .. FontCount : \A m \in DOMAIN Members(f) :
      \E k \in DOMAIN Members(f) :
        RecordAt(FontAt(f), k).tag = Source(Members(f)[m]).tag

\* Woff2TableDirectory::from_buf returns the total length of the uncompressed
\* data (tables.rs:44-45).
UncompressedLengthIsTotal ==
  phase \notin {"header", "directory"} =>
    uncompressed_length = Start(input.num_tables + 1)

\* With overflow checks it does, or the conversion has ended before it is used.
CheckedLengthIsTotal == OverflowChecks => UncompressedLengthIsTotal

\* A file is well formed when its parts have the announced sizes and a directory
\* of few enough tables: data for every entry, loca right after glyf and of the
\* same transformation, no other transform, a whole head table.
WellFormed ==
  /\ HeaderValid /\ StreamValid /\ TotalFits
  /\ input.num_tables = Len(input.directory)
  /\ input.num_tables \in 1 .. U16 \div 16 - 1
  /\ Start(input.num_tables + 1) = Len(Plain)
  /\ \A i \in DOMAIN input.directory :
       LET e == Source(i)
       IN  /\ e.tag = GLYF_TAG => /\ i < input.num_tables /\ Source(i+1).tag = LOCA_TAG
                                  /\ Source(i+1).transformed = e.transformed
           /\ e.tag = LOCA_TAG => i > 1 /\ Source(i-1).tag = GLYF_TAG
           /\ e.tag = HEAD_TAG => e.src_length >= 12
           /\ e.transformed => e.tag \in {GLYF_TAG, LOCA_TAG}
  /\ IF ~IsCollection THEN \E i \in DOMAIN input.directory : Source(i).tag = HEAD_TAG
     ELSE /\ VersionValid /\ Len(input.fonts) = input.num_fonts
          /\ \A f \in DOMAIN input.fonts :
               /\ Len(input.fonts[f].table_indices) \in 1 .. U16 \div 16 - 1
               /\ \A i \in DOMAIN input.fonts[f].table_indices :
                    input.fonts[f].table_indices[i] < input.num_tables

\* A well-formed file is converted, in both build profiles, unless its outlines
\* cannot be decoded.
AcceptsWellFormed ==
  result # "none" /\ WellFormed => result = "ok" \/ status \in {"GlyfDecoderError", "glyf_panic"}
=============================================================================
