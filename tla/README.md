# TLA+ verification of woff2-rs

woff2-rs converts a WOFF2 font file, single font or collection, into an OpenType
file. It is a sequential library: one call of `convert_woff2_to_ttf` reads a
buffer, owns everything it builds and returns a `Vec<u8>` or an error, or panics.
What is hard about it is therefore not concurrency but *bookkeeping*: three
directories of the same tables (WOFF2 entries, records in writing order, sorted
records of each font), offsets and lengths in fixed-width integers, checksums that
depend on one another, checks made in one function and relied on in another, and
two build profiles in which the same overflow panics or wraps.

Paths below are relative to `src/src/`.

## 1. Inventory

| component | source | state | operations | what makes it correct |
|---|---|---|---|---|
| conversion driver | `decode.rs` | the input cursor, `out_buffer`, the parsed directories | `convert_woff2_to_ttf` | an accepted font loads from its bytes and sums to the OpenType constant; a well-formed file is accepted; after the tables are written no index and no assertion panics, only the search fields of 0 or at least 4096 tables with overflow checks; it returns |
| WOFF2 header | `woff2/header.rs`, `magic.rs` | none | `from_buf`, `is_valid_header` | malformed headers are refused |
| WOFF2 table directory | `woff2/tables.rs` 1-67, 163-292 | `src_offset` | `from_buf` | each entry is read off its own bytes; the offsets are the sums of the lengths before them; the total is the sum of all |
| table writer | `woff2/tables.rs` 69-161, 294-335 | `out_buffer`, `ttf_tables`, the iterator | `write_to_buf`, `push_simple_table_record` | tables tile the buffer, records describe them, nothing is lost, one record per entry |
| collection directory | `woff2/collection.rs` | the fonts and their table indices | `from_buf`, `calculate_header_size`, `write_to_buf` | indices keep naming the tables they named in the file; the header fits its space |
| sfnt table directory | `sfnt.rs` | sorted records, search fields | `new`, `write_to_buf`, `find_table` | records sorted; exact search fields |
| checksums | `checksum.rs` | none | `calculate_checksum`, `set_checksum_adjustment`, `calculate_font_checksum_adjustment` | the sum of the padded words; the adjustment makes the font sum to the constant |
| buffer helpers | `buffer.rs` | a read cursor | `try_get_*`, `try_get_base_128`, `try_get_255_u16`, `try_copy_to_buf`, `pad_to_multiple_of_four` | decoding inverts the encodings; padding to the next multiple of four |
| glyf decoder | `glyf/mod.rs`, `parser.rs`, `simple.rs`, `composite.rs`, `bitmap.rs` | seven stream cursors, two output tables | `decode_glyf_table`, one parse per glyph | every stream fully used; loca entries ascend to the end of glyf; glyphs start on multiples of four |
| coordinate triplets | `glyf/triplet.rs` | none | `COORD_LUT`, `dx`, `dy` | the 128 entries of the WOFF2 table |
| Brotli input and output | `brotli.rs` | the take-limited reader, the output vector | `decompress_to_vec` | copies what it reads and writes |
| facade, tests, data | `lib.rs`, `test_data.rs` | none | re-exports | - |

Interactions, all of them calls. The driver reads the header and the directories
off one `Buf`, hands the rest of it to Brotli, sizes the space for the headers,
lets `write_to_buf` append the tables behind it, and then goes back to fill the
space: for a single font with a sorted `TableDirectory`, after which the whole
buffer is summed and the head table patched; for a collection with a header and one
`TableDirectory` per font, whose indices into the WOFF2 directory are used as
indices into the writer's records. The writer calls the glyf decoder for a
transformed glyf table.

Hard behaviours, each listed with its line in `PROJECT.json`: the writing order
against the directory order (glyf and loca); what is checked early and used late
(table indices, the head record, the header's size); the order of zeroing, summing
and patching; padding at each residue; u16 and u32 arithmetic at its limits; errors
and panics half-way through; loops whose bounds come from the file.

## 2. Modules

| module | models | extends |
|---|---|---|
| `ByteBuffer` | big-endian integers, padding, slices, the checksum | - |
| `FontAssembly` | the *abstract* specification of the table writer: a growing list of (tag, contents), no offsets | `ByteBuffer` |
| `TablesWriter` | `Woff2TableDirectory::write_to_buf`: one action per outcome of a loop iteration | `ByteBuffer` |
| `Sfnt` | the table directory's operators, both build profiles | `ByteBuffer` |
| `SfntHeader` | `TableDirectory::new` as one call, for every number of tables | `Sfnt` |
| `Decode` | the whole conversion; its writing phase *is* `TablesWriter!Next` over the same variables | `Sfnt` |
| `BufExt` | `try_get_base_128`, `try_get_255_u16`, `try_copy_to_buf`: one action per loop iteration | `ByteBuffer` |
| `DirectoryReader` | `Woff2TableDirectory::from_buf` on bytes; a length is read by `BufExt!Base128` over the same variables | `ByteBuffer` |
| `CoordLut` | `COORD_LUT`, `dx`, `dy` and, to compare with, the deltas by the rules of WOFF2 | - |
| `GlyphLoader` | *reference*: a reader of OpenType glyphs | `ByteBuffer`, `CoordLut` |
| `SimpleGlyph` | one call of `parse_simple_glyph`: one action per iteration of its loops | `GlyphLoader` |
| `OutlineAssembly` | the *abstract* specification of the glyf decoder: a growing list of glyphs, no streams or offsets | `ByteBuffer` |
| `GlyfDecoder` | `decode_glyf_table`; a simple glyph *is* `SimpleGlyph!Next` over the same variables | `GlyphLoader` |
| `MCTablesWriter`, `MCDecode`, `MCBufExt`, `MCDirectoryReader`, `MCSimpleGlyph`, `MCGlyfDecoder` | the small directories, files, buffers, calls and tables that TLC runs | |
| `ByteBufferProofs` | lemmas on buffers, numbers, checksums and recursive functions | `ByteBuffer` |
| `TablesWriterProofs` | theorems on the table writer: the layout, what the tables contain, the refinement of `FontAssembly` | `TablesWriter` |
| `BufExtProofs` | theorems on the reads: copy, 255UInt16, UIntBase128 | `BufExt` |
| `DirectoryReaderProofs` | theorems on the directory reader; instantiates `BufExtProofs` | `DirectoryReader` |
| `GlyfDecoderProofs` | theorems on the glyf decoder: types, the offsets, the refinement of `OutlineAssembly` | `GlyfDecoder` |
| `SfntProofs`, `SfntHeaderProofs` | lemmas on the table directory; theorems on its search fields | `Sfnt`, `SfntHeader` |
| `DecodeProofs` | theorems on the conversion; instantiates `TablesWriterProofs` | `Decode`, `SfntProofs` |

State and actions against the code:

* `TablesWriter`: `tables`, `data`, `out`, `ttf_tables` are `self.tables`,
  `decompressed_tables`, `out_buffer` and `ttf_tables`; `header_end` is the length of
  `out_buffer` on entry; `next` stands for `tables_iter`; `status` for the return. One
  action is one iteration of the `while let` with its outcome: `TransformedGlyf`,
  `PlainGlyf`, `SkipLoca`, `HeadTable`, `SimpleTable` write and step on;
  `MissingLoca`, `TransformMismatch`, `TruncatedHead`, `TransformedHmtx`,
  `GlyfDecodeFails` and `SlicePanic` end the call; `Finish` is the closing assertion
  and the `Ok`. A head table that is too short has been appended already when the
  error is found, and the model appends it too.
* `Decode`: `phase` is the place in `convert_woff2_to_ttf`; `font` the loop over the
  fonts; `cursor` the bytes of `header_buffer` already written; `ttf_header` the sorted
  directory of a single font. Reading is one action per directory entry or font,
  writing one per font. Every `?`, `assert!`, index and slice has its outcome.
  An input is what its bytes parse to: lists of entries and fonts, possibly shorter
  than announced (then the next item is truncated or malformed).
* `BufExt`: a state is a call on a buffer with what remains of it. The chunks of a `Buf` are an
  environment choice: `chunk()` may return any non-empty prefix. All of the crate's buffers are
  slices today (one chunk), the trait is written for any.
* `DirectoryReader`: `status` says which item is read next (flags and tag, `orig_length`, `transform_length`),
  `entry` is the partial entry. Four bytes spell a tag by the constant `FourCC`, which may yield a
  known tag too: then the two spellings must be the same table. `Decode` starts from entries that have been
  read this way; its `EntryOf` and `DirectoryReader!CompleteEntry` fill the same fields.
* `CoordLut`: the table is built entry by entry as the `const fn`s build it; the shift and mask of
  `dx` and `dy` are the choice of some bits of the data bytes. The casts to `i16` and the negation are kept.
* `SimpleGlyph`: `decoder` is `self`, each stream without what has been read of it; `local` holds the locals;
  `call` the arguments with `self` as it was on entry, for the properties to compare with. An iteration of the loop over
  the counts, the contours or the points is an action; what follows the loops is `Finish`, or `TailTruncated` if
  any of its reads fails. An error or a panic drops the decoder and its output, so what had been
  consumed by then is not kept.
* `GlyfDecoder`: `input` is the transformed table, `output` and `loca` are the two tables under construction.
  `New` is `GlyfHeader::parse` and the nine `take`s. An iteration of `parse_all_glyphs` is an offset entry with the
  first read of a glyph (`EmptyGlyph`, `BeginSimple`, `BeginComposite` and their failures), the glyph's own steps,
  and `GlyphDone` with the padding. `OffsetPanics` is the `unwrap` of the offset's conversion. A component of a composite
  glyph is one action.
* `TablesWriter` calls the decoder in one step. Its `GlyfOutcomes` stand for the pairs of tables with which
  `GlyfDecoder` reaches "ok", and `GlyfDecodeFails` for its errors and its panic; that the outcomes are
  bytes of any length is all `TablesWriter` assumes of them.
* The mutated forms in the modules (each marked as such) are single plausible mistakes,
  named by `PROJECT.json`'s mutants; no action uses them.

What a record's fields mean is read back from the *bytes*: `Decode!Loads` parses the
output the way a font loader does and compares it with the input. `SimpleGlyph!LoadsBack` and
`GlyfDecoder!GlyphsLoad` read the glyphs back with `GlyphLoader`, and compare with the streams as the rules of WOFF2
read them (`Counts`, `Deltas`), not as the parser does. `GlyfDecoder!StreamsPartitioned` is the same question for a
whole table: the glyphs' point counts, curve bits, triplets, instruction lengths, components, boxes and instructions, one
after the other, are the streams, and the table ends with the last of them. Both readings take a 255UInt16 from
`ByteBuffer!CodeValue`; that it is right is `BufExt!Reads255`, against the table of its encodings (`Encodings255`).

`Decode!AcceptsWellFormed` speaks of files whose loca entries directly follow their glyf entries. The writer also accepts single fonts with
tables between the two; `NothingLost` and `CountDecidedByPairs` of `TablesWriter` cover those.

## 3. Runs

| run | question | result |
|---|---|---|
| `TablesWriterSafety` | is every directory written without gaps, overlaps, lost tables or false checksums, does the call return, and does it implement `FontAssembly`? | pass |
| `TablesWriterCount` | does the assertion of `tables.rs:158` always hold? | violated (a) |
| `SfntHeaderFields` | are the search fields exact for 1 to 4095 tables in both profiles, and with overflow checks exact or refused for every u16 number? | pass |
| `SfntHeaderWraps` | are they what the comments say for every number? | violated (b) |
| `DecodeSafety` | the conversion in both profiles: loadable fonts, checksums, no late panic but that of the search fields, final tables, well-formed files accepted, and with overflow checks the right total length? | pass |
| `DecodeLiveness` | does every conversion end? | pass |
| `BufExtReads` | do the variable-length integers accept exactly the encodings they should and refuse none, does the chunked copy copy exactly, do all return? | pass |
| `DirectoryReads` | does the directory reader stay in step with the entries it reads, place each behind the data of those before it, and refuse none? | pass |
| `SimpleGlyphs` | does a loader find in a written glyph the contours, points, instructions and box that the streams encode; is every stream left at the next glyph; what exactly panics? | pass |
| `GlyfTables` | do the offsets tile the glyf table in both formats, does every glyph load, is each stream of an accepted table what its glyphs hold, with nothing left over, what panics, does the decoder return, does it implement `OutlineAssembly`? | pass |
| `DecodeTotalLength` | is `uncompressed_length` the total, without overflow checks? | violated (c) |
| `DecodeIndices` | do the fonts of every accepted collection have the tables their indices name? | violated (d) |

What the violations show:

* (a) `assert_eq!(ttf_tables.len(), num_tables)` fails for a directory whose glyf and
  loca entries are not equally many: a lone loca, or two glyf entries sharing one.
  `CountDecidedByPairs` shows that this is the exact condition.
* (b) From 4096 tables on the u16 fields wrap. `ExactUpToLargest` shows the limit is
  sharp; with overflow checks the code panics instead.
* (c) `src_offset += src_length` wraps in the release profile when the declared lengths
  reach 4 GiB; a transformed loca can declare any length, for nothing reads its data.
* (d) `table_indices` are indices into the WOFF2 directory (`collection.rs:144`) but index
  the writer's records. These coincide when loca directly follows glyf, which the TODO
  at `tables.rs:131` leaves unchecked. `RecordsFollowDirectory` and `FontsLoad` show that
  with this condition they do coincide.

### Bounds and why they are enough

* `Radix = 16` (runs of `TablesWriter` and `Decode`): a "byte" has 16 values, a u16 256, a
  u32 65536, so that a u32 fits TLC's integers. Every operation on bytes is linear and
  is written with `Radix`; the four bytes of a word, the twelve of the head fields and
  the padding are not scaled. The theorems hold for every radix that the assumptions allow. `SfntHeader` uses the
  real widths (`Radix = 256`, `WordBits = 16`).
* `MaxTables`: entries of an enumerated directory. Three entries of every kind and four of
  the kinds that interact (glyf, loca, head) cover a pair with a table between it, two pairs,
  a shared loca and a lone one at each place. `MCDecode` adds larger files, and one with
  too many tables for the search fields.
* Lengths 0, 1, 2, 3, 4, 5, 11 and 13 cover all residues of the padding and both sides of the
  head table's limit; data is complete or one byte short.
* `BufExtReads` has `Radix = 128`: a u32 of 28 bits and groups of six, so that five groups (30 bits) can
  overflow it as 35 bits can overflow 32. Groups 15 and 16 lie on the two sides of the limit, five
  continued groups are one too many, and the 255UInt16 bytes are those around its codes.
* `DirectoryReads` has `Radix = 128` too: a byte of flags has two bits of version and five of reference, so the first
  31 of the known tags can be referred to. Lengths are one digit, the first of two digits, and the greatest u32; malformed
  ones start with a zero, overflow or have six bytes. Two entries are enough for a reader that has lost its step to show it;
  three, of a few kinds, for an offset that has wrapped.
* `SimpleGlyphs` has the real widths. All 128 flags: every data byte of the one-byte triplets, and those
  at the edges of the nibbles, of the sign and of the range (32767, 32768 and 65535 among them) for longer ones.
  Glyphs of up to three points, in every cut into contours with and without points, cover deltas of 0, 255 and 256,
  points on and off the curve, and sums that leave an i16; counts of 65535 and 1 leave a u16.
* `GlyfTables` has the real widths but for a short offset, which has `OffsetValues = 128` values where a u16 has 65536, so
  that tables on both sides of the limit have 256 bytes instead of 131072. Three glyphs (`MaxGlyphs`) of
  eight kinds: empty with and without a bit for a box, a point, a contour without points, two contours with box and instructions, composite with and without box, instructions and each scale.
  Two for the tables with a stream short or long, the short offsets and the overlap bitmap. Single tables have 33
  glyphs (a second word of the bitmaps), 65535 announced ones, and short and long offsets on both sides of the limit.
* `MaxFonts = 2`, `MaxIndices = 2`: two fonts that share, repeat or reorder tables, and indices up
  to one past the directory.
* `GlyfOutcomes`: decoded outlines whose lengths are and are not multiples of four, and empty ones.
* The 4 GiB limit of the file (`FitsU32`) is a premise where offsets must not have
  wrapped: the casts `as u32` in the writer are silent in both profiles.

### Fairness

`FairSpec` is weak fairness of `Next`: the call runs on its caller's thread and nothing in
it waits, so a step that can be taken is eventually taken. `Returns` and `Terminates` need no
more. (`SimpleGlyph`'s steps are covered by `GlyfDecoder`'s fairness, whose steps they are.) `CHECK_DEADLOCK FALSE` is set because a call that has returned takes no more steps.

## 4. Proofs

Every theorem below is checked by TLAPS for every value of the constants that satisfies the assumptions.

| module | theorem | statement |
|---|---|---|
| `TablesWriterProofs` | `TypeCorrect` | `Spec => []TypeOK` |
| | `LayoutHolds` | `Spec => []Layout` |
| | `ChecksumsHold` | `Spec => []ChecksumsMatch` |
| | `RecordsFollow` | `Spec => []RecordsFollowDirectory` |
| | `NothingIsLost` | `Spec => []NothingLost` |
| | `CountDecided` | `Spec => []CountDecidedByPairs` |
| | `SoundInputNeverPanics` | `Spec => []NoPanicOnSoundInput` |
| | `Refinement` | `Spec /\ []FitsU32 => ImplementsAssembly` |
| `BufExtProofs` | `CopyIsExact` | `Spec => []CopiesExactly` |
| | `Value255IsRead` | `Spec => []Reads255` |
| | `AcceptsOneEncoding` | `Spec => []Base128IsCanonical` |
| | `RefusesNoEncoding` | `Spec => []Base128RefusesNoEncoding` |
| `DirectoryReaderProofs` | `EntriesAreRead` | `Spec => []ReadsEncodings` |
| | `NoEntryIsRefused` | `Spec => []RefusesNoEntry` |
| `GlyfDecoderProofs` | `TypesHold` | `Spec => []TypeOK` |
| | `OffsetsTile` | `Spec => []LocaTilesGlyf` |
| | `Implements` | `Spec => ImplementsAssembly` |
| | `LocalsFit` | `Spec => [](status \in {"counts", "points"} => S!TypeOK)` |
| `SfntHeaderProofs` | `ExactFields` | `Spec => []ExactUpToLargest` |
| | `CheckedFields` | `Spec => []CheckedMeansExact` |
| `DecodeProofs` | `ConversionTypes` | `Spec => []TypeOK` |
| | `FontChecksumHolds` | `Spec => []FontChecksum` |
| | `HeadPatchable` | `Spec => []HeadIsPatchable` |
| | `NoLatePanics` | `Spec => []NoLatePanic` |
| | `CheckedLength` | `Spec => []CheckedLengthIsTotal` |
| | `TablesFinal` | `Spec => TablesAreFinal` |

### Lemmas

`ByteBufferProofs`, for every radix of at least two: lengths, ranges and contents of padded, sliced and
overwritten buffers; division, and that the four bytes of a u32 spell it; that sums may wrap at any point
(`WrappedSum`); the least number of a set of naturals. A recursive function is a CHOOSE, of which nothing is known until
a function satisfying its equation is shown to exist. `Recursion` does this once, by gluing the finite pieces
together; from it follow the functions behind `calculate_checksum`, the running totals (`AddsUp`: `DirectorySizes` and
`Start` of `Decode`) and, in `SfntProofs`, `Pow2` and `FlattenSeq`. `ChecksumOfReplaced` is the arithmetic of
the adjustment: putting a value where a word was zero adds that value to the checksum.

`SfntProofs`: powers of two, `leading_zeros`, the search fields; that sorting keeps the elements; that a directory of n
records has the 12 + 16 n bytes that were set aside for it (`DirectoryLength`), in both profiles.

### The table writer

Neither `Layout` nor `ChecksumsMatch` is inductive: that the next table starts where the last one's
padding ends needs the buffer to *end* there. The inductive invariant `IInv` is `TypeOK`, the
alignment of the header, `EndsInside` (no record reaches past the buffer, whatever has wrapped) and `LayoutInv`: the
records tile the buffer with the checksums of their bytes (`Placed`), and while the loop runs the buffer ends exactly
where the next record would start (`Flush`). A head table that is too short leaves an unpadded tail, which is why
`Flush` holds only while the status is "writing". `PushKeepsPlaced` is the step for one push, at constant level, so
that a glyf table with its loca is two uses of it. Every step is also shown to keep the bytes already written
(`KeepsBytes`).

What the tables contain is the second invariant, `ContentsInv`, inductive relative to `IInv`. Each of its clauses says
how far the iterator has come: `CountInv` (records written against entries passed, with the loca entries taken out
of turn), `PanicInv` (what must be wrong with the input for a panic), `FollowInv` (with adjoining entries, record k
is entry k's), `LostInv` (every passed entry but a loca is answered by a record, and with a passed glyf its loca is) and `HeadInv`
(a head table has a whole adjustment field, of zeros). The proofs need four kinds of step only: one that pushes one table,
one that pushes a glyf and loca pair, one that skips a loca, and one that ends the call.

`Refinement` has the premise that the file stays below 4 GiB: past it offsets wrap silently and the records describe
other bytes, so the contents of `FontAssembly` cannot be read back. The run `TablesWriterSafety` checks the property under the bounds,
where the premise is always true.

### The reads

The invariants relate what remains of the buffer to what was consumed (`TypeInv`), and for each read the accumulator to
it: `CopyInv`, `Inv255`, and for UIntBase128 (`Inv128`) the number that the consumed groups spell, below the weight at which the
next shift would lose bits; after a refusal, that neither the bytes read nor any continuation of them begins with an encoding. For a 255UInt16 a buffer
that starts with any of the up to three encodings of any value starts with a complete code (`NoCodeAtFront`), so none is refused. That a 32-bit value has exactly one encoding is proved from the uniqueness of digits, group by group, since
the prover has no induction; there are five groups, so this is a finite argument. `GroupAssumption` asks for an even radix
of at least four: a byte is a continuation bit above a group that is not trivial, and a code byte other than the three codes exists.

### The directory reader

`ReadsEncodings` speaks of the state between two entries only; inside an entry the invariant `Inv` says what the partial entry has
used. `TablesInv` has the entries read, each with the bytes it was read from (`IsRead`), `EntryInv` that the cursor is
behind the last one, `OffsetsInv` that each entry's offset is where the data of the one before ends, `LengthInv` that the flags and the tag, and of a transformed entry the first length, are the bytes in between,
and `RefusedInv` what must be wrong with the bytes for an error. A length is read by the actions of `BufExt`, so the proof keeps
`Inv128` of `BufExtProofs` while one is in progress, through an instance (`BP`) whose assumptions are proved
(`RequestAssumptions`). Both directions rest on an encoding of a u32 being no prefix of another: an entry has
one way to be read, and where it is cut differs for no continuation of the bytes. `EndOf` is a recursive function over the tables read;
`Ends` is its equation, and that appending a table leaves it alone below is proved from it. `DataBefore`, the sum of the lengths before an entry, is one too: that offsets which
follow each other are its values, modulo 2^32 and exactly with overflow checks, is `OffsetsAreSums`, by a least counterexample.

### The glyf decoder

None of `LocaTilesGlyf` and `ImplementsAssembly` is inductive: both speak of finished glyphs, and the offset of a glyph is written
before anything else of it. The inductive invariant `IInv` (`Inductive`) has four parts:

* `Types`: the buffers are bytes, the streams sequences of bytes;
* `Cursor`: the streams fit the input, the loop is inside the header's glyphs, and the contour stream has
  been read by exactly two bytes for every glyph begun; this is why the count that is read is the k-th of the table;
* `Outlines`: the offsets written tile the output (`Tiles`), and each tile but the one in progress has the glyph of its contour count;
* `Current`: what is already there of the glyph in progress: nothing, or for a composite glyph the -1 it begins with; of a
  simple glyph nothing until its last step, while its locals have their types (`SimpleInv`).

`Tiles` and `Tile` are operators of an entry size, a loca table and an output, without variables, so that the facts about
growing either of them (`TileOpened`, `TileGrown`) hold for both formats; `Written` is an entry that reads back as the offset it was
written from, which needs that offsets are even and fit (`Fits`). The simple glyph's steps are `SimpleGlyph`'s own:
`SimpleStepType` shows that they keep `SimpleInv`, and that the last one appends bytes that begin with the contour count. For the types of
the coordinates, `DeltaType` has that every one of the 128 triplets takes as many bits as its data bytes have; the table is
unfolded family by family, as `coord_lut_entry` builds it. `LocalsFit` is `SimpleGlyph`'s `TypeOK` for the calls that the decoder makes.

For the refinement every step is shown to leave the glyphs a reader finds (`Shown`) alone, except `GlyphDone`, which adds the padded one
at the end and changes no other (`GlyphDoneMaps`). `Finish` adds an offset and no glyph; `Complete` needs as many glyphs as counts, which holds
because an accepted table has nothing left of its contour stream.

### The search fields

`SfntHeader` is one call, and its invariant `CallInv` says how the result depends on the arguments. The rest is
arithmetic on `Pow2`, whose values are only known by its equation: `Pow2Grows`, `Pow2Large`, and that every number below
2^WordBits has exactly one highest bit. `WordAssumption` (a word has more than four bits, and 2^WordBits is the
number of its values) is what the real u16 and the scaled ones of the runs share.

### The conversion

`Decode` runs the writer's actions over its own variables, so its invariant `Inv` has the writer's `IInv` and `ContentsInv`
while the tables are written (`WriterInv`, through an instance of `TablesWriterProofs`), and says what frames them:

* `ParsedInv`: what has been read, and with overflow checks the length summed up so far;
* `FontsInv`: every table index is below `num_tables`, checked when it is read;
* `FreshInv`: nothing is written before decompression, which makes the writer's call one its invariants start from;
* `BufferInv`: what is left of the writer's invariants when the header is written in front of the tables. The bytes
  below `header_end` change, so `ContentsInv` is given up for `HeadsReady`: every head record lies behind the header, is aligned,
  and its adjustment field holds zeros, until the last step uses that up;
* `HeaderInv`: how far the header is written, as a sum of directory sizes, and that the space set aside before is this sum in full;
* `ResultInv`: no late panic, and the checksum of a finished font.

`FontsInv` with `CountInv` (as many records as entries, by the writer's closing assertion) gives that no index is out of bounds;
`HeaderInv` with `DirectoryLength` that the header fits; `BufferInv` with `ChecksumOfReplaced` that the adjusted font sums to the constant.
`StepKeeps` has one lemma per action and also shows `TablesAreFinal` of each step. Both `FontChecksum` and `TablesAreFinal` have `FitsU32` as a premise, in the property
itself: in a file of 4 GiB an offset has wrapped and the patch may hit another table or the header. `NoLatePanic` and the types
hold without it, for a wrapped offset is small enough to stay inside the buffer.

### Assumptions

All are about what the environment hands over, and are evaluated by TLC for the values in the runs. `RadixAssumption` (two byte values at least),
`GroupAssumption`, `WordAssumption`, `VersionAssumption` (a byte has two bits above the table reference), `WidthAssumption` and `ByteAssumption` (the
glyf decoder is about real bytes), `OffsetAssumption` (a short offset has at most the values of a u16); `TagAssumption` (glyf, loca and head are different tags; in `Decode`, u32 values); `OutcomeAssumption` (decoded
outlines are bytes); `InputAssumption`, `CallsAssumption`, `CallAssumption`, `DirectoryAssumption`, `FilesAssumption` (arguments have the types the Rust signatures give them;
as `tables.rs:80` asserts, the writer's buffer is aligned, which `Decode!TypeOK` shows of the driver's calls); `WordsAssumption` (two constants
of the code are u32).

### Only model-checked

* Liveness (`Returns`, `Terminates`): this prover handles neither fairness nor ENABLED.
* `FontsLoad`, `AcceptsWellFormed`: they read the written header back byte by byte, through two sorts; the first
  needs the directory's contents, where the proofs so far need only its length.
* `LoadsBack`, `LeavesNext` and `PanicsPastLimits` of `SimpleGlyph`, and `GlyphsLoad`, `StreamsPartitioned` and
  `PanicsPastLimits` of `GlyfDecoder`, which rest on them. They compare the parser with another reading of the same streams (`Counts`,
  `Deltas`, `Ruled`), recursive functions over them: what a triplet's bits are worth would have to be proved of all 128 entries in both readings.
  `SimpleGlyphs` enumerates the entries instead. `SimpleGlyph`'s `TypeOK` is proved of the calls the decoder makes (`LocalsFit`).
* The values of recursive definitions over data of any length, beyond the equations named above: a theorem by induction cannot be instantiated here. Sums and concatenations of
  any length are covered where a least counterexample could be taken.

## 5. Not modelled, and why

* The Brotli decompressor is an external crate and `brotli.rs` adapts it by copying; its result is an
  input of `Decode`.
* The texts of errors, and header fields that nothing reads.
* Memory exhaustion: `Vec::with_capacity` is given sizes from the file, and a failing allocation aborts.
* Glyphs a loader cannot make sense of. A first contour without points gets the end point 65535 (`simple.rs:59`, without
  overflow checks): the model writes it, but `LoadsBack` and `GlyphsLoad` claim nothing of it. A bit of the box bitmap for an
  empty glyph is not looked at by the code (`mod.rs:66`), so its box is left over and the table refused; the runs include it.
* The buffer of a glyf table that has been dropped by an error: nobody can read it.
* The facade `lib.rs`, which re-exports, and the sample fonts.

## 6. Plan

1. Done: the modules of section 2, the runs, the theorems of section 4.
2. Next, in this order: `PanicsPastLimits` of `SimpleGlyph` and with it the decoder's, from an invariant that relates the locals to
   `Counts` and `Deltas`; `StreamsPartitioned`; of `FontsLoad`, that the directory read back from the header is the sorted one.
