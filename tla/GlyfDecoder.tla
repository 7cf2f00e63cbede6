----------------------------- MODULE GlyfDecoder -----------------------------
(***************************************************************************)
(* decode_glyf_table (src/glyf/mod.rs, parser.rs, composite.rs): split a   *)
(* transformed glyf table into its streams, decode one glyph after the     *)
(* other into the glyf table and its offset into the loca table, and       *)
(* accept if every stream has been used up.                                *)
(*                                                                         *)
(* A simple glyph is decoded by SimpleGlyph's actions over the same        *)
(* variables. An error or a panic drops all that was read and written, so  *)
(* it leaves the variables unchanged.                                      *)
(***************************************************************************)
EXTENDS GlyphLoader

CONSTANTS Inputs,         \* the transformed glyf tables decoded
          OffsetValues    \* the values of a short loca entry: a u16's in the code

ASSUME ByteAssumption   == Radix = 256          \* as in SimpleGlyph
ASSUME InputAssumption  == Inputs \subseteq Seq(Byte)
ASSUME OffsetAssumption == OffsetValues \in 1 .. U16

VARIABLES
  input,              \* transformed_glyf_table
  glyph_index,        \* the loop of parse_all_glyphs
  loca,               \* output_loca_table
  have_instructions,  \* of the composite glyph in progress
  checks, decoder, call, local, output, status    \* as in SimpleGlyph

simple == <<checks, decoder, call, local, output, status>>
vars   == <<input, glyph_index, loca, have_instructions, simple>>

S == INSTANCE SimpleGlyph WITH GlyphCalls <- {}

NoStreams == [num_glyphs |-> 0, index_format |-> 0, n_contour_stream |-> << >>,
  n_points_stream |-> << >>, flag_stream |-> << >>, glyph_stream |-> << >>,
  composite_stream |-> << >>, bbox_bitmap |-> << >>, bbox_stream |-> << >>,
  instruction_stream |-> << >>, overlap_bitmap |-> << >>, trailer |-> << >>]

CallFor(contours) == [number_of_contours |-> contours, glyph_index |-> glyph_index,
                      decoder |-> decoder, output |-> output]

Init == /\ input \in Inputs /\ checks \in BOOLEAN
        /\ glyph_index = 0 /\ loca = << >> /\ have_instructions = FALSE
        /\ decoder = NoStreams /\ output = << >> /\ status = "header"
        /\ call = CallFor(0) /\ local = S!Locals(decoder)

Return(s) == status' = s /\ UNCHANGED <<input, glyph_index, loca, have_instructions,
                                        checks, decoder, call, local, output>>
-----------------------------------------------------------------------------
(* Woff2GlyfDecoder::new: GlyfHeader::parse, then one take per stream.     *)

GLYF_HEADER_SIZE == 36

bit_stream_byte_length(bits) == (bits \div 32 + IF bits % 32 # 0 THEN 1 ELSE 0) * 4

OptionFlags == U16At(input, 3)
NumGlyphs   == U16At(input, 5)
BitmapSize  == bit_stream_byte_length(NumGlyphs)

HeaderComplete == Len(input) >= GLYF_HEADER_SIZE /\ Word(input, 8) >= BitmapSize

\* The sizes of the streams, in the order of their takes. The bounding boxes' size
\* counts their bitmap; there is an overlap bitmap only if the option says so.
Sizes == <<Word(input, 3), Word(input, 4), Word(input, 5), Word(input, 6), Word(input, 7),
           BitmapSize, Word(input, 8) - BitmapSize, Word(input, 9),
           IF HasBit(OptionFlags, 1) THEN BitmapSize ELSE 0>>

Taken(n)  == SumOf(SubSeq(Sizes, 1, n))
Stream(n) == Slice(input, GLYF_HEADER_SIZE + Taken(n - 1), Sizes[n])

StreamsComplete == HeaderComplete /\ GLYF_HEADER_SIZE + Taken(9) <= Len(input)

NewDecoder ==
  [num_glyphs |-> NumGlyphs, index_format |-> U16At(input, 7),
   n_contour_stream |-> Stream(1), n_points_stream |-> Stream(2), flag_stream |-> Stream(3),
   glyph_stream |-> Stream(4), composite_stream |-> Stream(5), bbox_bitmap |-> Stream(6),
   bbox_stream |-> Stream(7), instruction_stream |-> Stream(8), overlap_bitmap |-> Stream(9),
   trailer |-> After(input, GLYF_HEADER_SIZE + Taken(9))]

New == /\ status = "header" /\ StreamsComplete
       /\ decoder' = NewDecoder /\ status' = "streams"
       /\ UNCHANGED <<input, glyph_index, loca, have_instructions, checks, call, local, output>>

NewTruncated == status = "header" /\ ~StreamsComplete /\ Return("Truncated")

\* usize::from(self.num_glyphs + 1) is a sum of u16s.
ParseAllGlyphs ==
  status = "streams" /\ Return(IF S!Overflows(decoder.num_glyphs + 1) THEN "panic" ELSE "glyphs")
-----------------------------------------------------------------------------
(* parse_all_glyphs: an iteration writes the glyph's offset, parses it and *)
(* pads. write_loca_entry unwraps the conversion of the offset.            *)

LongLoca == decoder.index_format > 0

\* Mutated form: a short offset is not halved first.
FitsUnhalved(n) == IF LongLoca THEN n \div U16 < U16 ELSE n < OffsetValues
Fits(n) == IF LongLoca THEN n \div U16 < U16 ELSE n \div 2 < OffsetValues
EntryWhole(n) == IF LongLoca THEN BigEndian32(n) ELSE BigEndian16(n)     \* mutated form
LocaEntry(n)  == IF LongLoca THEN BigEndian32(n) ELSE BigEndian16(n \div 2)

OffsetPanics == status = "glyphs" /\ ~Fits(Len(output)) /\ Return("panic")

AtGlyph == status = "glyphs" /\ Fits(Len(output)) /\ glyph_index < decoder.num_glyphs

ContourTruncated == AtGlyph /\ Len(decoder.n_contour_stream) < 2 /\ Return("Truncated")

Contours == AsI16(U16At(decoder.n_contour_stream, 1))
CanParse == AtGlyph /\ Len(decoder.n_contour_stream) >= 2

ContourRead  == [decoder EXCEPT !.n_contour_stream = After(@, 2)]
EntryWritten == loca' = loca \o LocaEntry(Len(output))

EmptyGlyph ==
  /\ CanParse /\ Contours = 0 /\ EntryWritten
  /\ decoder' = ContourRead /\ status' = "parsed"
  /\ UNCHANGED <<input, glyph_index, have_instructions, checks, call, local, output>>

BeginSimple ==
  /\ CanParse /\ Contours > 0 /\ EntryWritten
  /\ decoder' = ContourRead /\ status' = "counts"
  /\ call' = [CallFor(Contours) EXCEPT !.decoder = ContourRead]
  /\ local' = S!Locals(decoder)
  /\ UNCHANGED <<input, glyph_index, have_instructions, checks, output>>

SimpleStep == S!Next /\ UNCHANGED <<input, glyph_index, loca, have_instructions>>

\* The end of an iteration. Mutated form: the padding is forgotten.
GlyphDoneUnpadded ==
  /\ status = "parsed" /\ glyph_index' = glyph_index + 1 /\ status' = "glyphs"
  /\ UNCHANGED <<input, loca, have_instructions, checks, decoder, call, local, output>>
GlyphDone ==
  /\ status = "parsed"
  /\ output' = pad_to_multiple_of_four(output)
  /\ glyph_index' = glyph_index + 1 /\ status' = "glyphs"
  /\ UNCHANGED <<input, loca, have_instructions, checks, decoder, call, local>>
-----------------------------------------------------------------------------
(* parse_composite_glyph                                                   *)

HasBox == S!is_set(decoder.bbox_bitmap, glyph_index)

AtComposite == CanParse /\ Contours < 0

CompositeGlyphWithoutBbox == AtComposite /\ ~HasBox /\ Return("CompositeGlyphWithoutBbox")

BoxTruncated == AtComposite /\ HasBox /\ Len(decoder.bbox_stream) < 8 /\ Return("Truncated")

BeginComposite ==
  /\ AtComposite /\ HasBox /\ Len(decoder.bbox_stream) >= 8 /\ EntryWritten
  /\ output' = output \o BigEndian16(-1) \o SubSeq(decoder.bbox_stream, 1, 8)
  /\ decoder' = [ContourRead EXCEPT !.bbox_stream = After(@, 8)]
  /\ have_instructions' = FALSE /\ status' = "components"
  /\ UNCHANGED <<input, glyph_index, checks, call, local>>

\* The bytes of a component behind its flag word: at most one scale.
Scale(flag_word) == IF HasBit(flag_word, 8) THEN 2
                    ELSE IF HasBit(flag_word, 64) THEN 4
                    ELSE IF HasBit(flag_word, 128) THEN 8 ELSE 0
ComponentSize(flag_word) == 4 + (IF HasBit(flag_word, 1) THEN 2 ELSE 0) + Scale(flag_word)

FlagWord == U16At(decoder.composite_stream, 1)
ComponentComplete == /\ Len(decoder.composite_stream) >= 2
                     /\ Len(decoder.composite_stream) >= 2 + ComponentSize(FlagWord)

ComponentTruncated == status = "components" /\ ~ComponentComplete /\ Return("Truncated")

Component ==
  /\ status = "components" /\ ComponentComplete
  /\ output' = output \o SubSeq(decoder.composite_stream, 1, 2 + ComponentSize(FlagWord))
  /\ decoder' = [decoder EXCEPT !.composite_stream = After(@, 2 + ComponentSize(FlagWord))]
  /\ have_instructions' = (have_instructions \/ HasBit(FlagWord, 256))
  /\ status' = IF HasBit(FlagWord, 32) THEN "components" ELSE "instructions"
  /\ UNCHANGED <<input, glyph_index, loca, checks, call, local>>

NoInstructions == status = "instructions" /\ ~have_instructions /\ Return("parsed")

AtInstructions == status = "instructions" /\ have_instructions
Length == CodeValue(decoder.glyph_stream)
InstructionsComplete == CodeComplete(decoder.glyph_stream) /\ Len(decoder.instruction_stream) >= Length

Instructions ==
  /\ AtInstructions /\ InstructionsComplete
  /\ output' = output \o BigEndian16(Length) \o SubSeq(decoder.instruction_stream, 1, Length)
  /\ decoder' = [decoder EXCEPT !.glyph_stream = After(@, CodeLength(@[1])),
                                !.instruction_stream = After(@, Length)]
  /\ status' = "parsed"
  /\ UNCHANGED <<input, glyph_index, loca, have_instructions, checks, call, local>>

InstructionsTruncated == AtInstructions /\ ~InstructionsComplete /\ Return("Truncated")
-----------------------------------------------------------------------------
(* The last offset, and has_read_all.                                      *)

\* Mutated form: the bytes behind the last stream are not looked at.
HasReadStreams == \A s \in {decoder.n_contour_stream, decoder.n_points_stream,
  decoder.flag_stream, decoder.glyph_stream, decoder.composite_stream, decoder.bbox_stream,
  decoder.instruction_stream} : s = << >>
HasReadAll == \A s \in {decoder.n_contour_stream, decoder.n_points_stream,
  decoder.flag_stream, decoder.glyph_stream, decoder.composite_stream, decoder.bbox_stream,
  decoder.instruction_stream, decoder.trailer} : s = << >>

\* After padding to four the padding to two has nothing to do.
Finish ==
  /\ status = "glyphs" /\ Fits(Len(output)) /\ glyph_index = decoder.num_glyphs
  /\ output' = IF ~LongLoca /\ Len(output) % 2 = 1 THEN Append(output, 0) ELSE output
  /\ loca' = loca \o LocaEntry(Len(output'))
  /\ status' = IF HasReadAll THEN "ok" ELSE "ExtraData"
  /\ UNCHANGED <<input, glyph_index, have_instructions, checks, decoder, call, local>>

Next == \/ New \/ NewTruncated \/ ParseAllGlyphs
        \/ OffsetPanics \/ ContourTruncated
        \/ EmptyGlyph \/ BeginSimple \/ SimpleStep \/ GlyphDone
        \/ CompositeGlyphWithoutBbox \/ BoxTruncated \/ BeginComposite
        \/ Component \/ ComponentTruncated
        \/ NoInstructions \/ Instructions \/ InstructionsTruncated
        \/ Finish

Spec     == Init /\ [][Next]_vars
FairSpec == Spec /\ WF_vars(Next)     \* the caller's thread keeps running
-----------------------------------------------------------------------------
(* What the decoder gets right.                                            *)

Errors == {"Truncated", "CompositeGlyphWithoutBbox", "ExtraData"}
Started == status \notin Errors \cup {"header", "streams", "panic"}

\* The outputs are bytes, and the loop stays inside the glyphs of the header.
TypeOK == /\ output \in Seq(Byte) /\ loca \in Seq(Byte)
          /\ Started => glyph_index \in 0 .. NumGlyphs

\* The offsets a reader finds in the loca table, counted from 1, and the glyphs
\* between them.
Entries   == Len(loca) \div IF LongLoca THEN 4 ELSE 2
LocaAt(k) == IF LongLoca THEN Word(loca, k) ELSE 2 * U16At(loca, 2 * k - 1)
EndAt(k)  == IF k < Entries THEN LocaAt(k + 1) ELSE Len(output)
Region(k) == Slice(output, LocaAt(k), EndAt(k) - LocaAt(k))

\* The k-th contour count of the table, whose first stream follows the header.
ContourCount(k) == AsI16(U16At(input, GLYF_HEADER_SIZE + 2 * k - 1))

\* In either format the offsets tile the glyf table: from zero in multiples of four,
\* one for every glyph begun, ascending by nothing exactly for a glyph without
\* contours, and on success one more that is the table's length.
LocaTilesGlyf == Started =>
  /\ Entries = glyph_index + IF status = "glyphs" THEN 0 ELSE 1
  /\ Entries > 0 => LocaAt(1) = 0
  /\ \A k \in 1 .. Entries : LocaAt(k) % 4 = 0 /\ LocaAt(k) <= EndAt(k)
  /\ \A k \in 1 .. glyph_index : LocaAt(k) = EndAt(k) <=> ContourCount(k) = 0
  /\ status = "ok" => Entries = NumGlyphs + 1 /\ LocaAt(Entries) = Len(output)

\* A first contour without points has the end point 65535 (SimpleGlyph).
Loadable(k) == ContourCount(k) > 0 /\ U16At(Region(k), 11) # U16 - 1

\* Every glyph finished loads from its region, which it fills but for the padding.
GlyphsLoad == status \in {"glyphs", "ok"} => \A k \in 1 .. glyph_index :
  /\ Loadable(k) => LET glyph == LoadSimple(Region(k))
                    IN  /\ glyph.number_of_contours = ContourCount(k)
                        /\ Padded(glyph.size) = Len(Region(k))
  /\ ContourCount(k) < 0 => Padded(LoadComposite(Region(k)).size) = Len(Region(k))

LoadedGlyph(k) == IF ContourCount(k) < 0 THEN LoadComposite(Region(k)) ELSE LoadSimple(Region(k))

\* The glyphs with contours, and what P makes of them, one after the other.
Filled     == SelectSeq([k \in 1 .. NumGlyphs |-> k], LAMBDA k : ContourCount(k) # 0)
InAll(P(_)) == FlattenSeq([g \in DOMAIN Filled |-> P(Filled[g])])

\* Per glyph: the points of its contours, which of them are on the curve, and
\* whether its instructions are preceded by their length.
IsSimple(k)     == ContourCount(k) > 0
PointCounts(k)  == LET ends == LoadedGlyph(k).ends
                   IN  [c \in DOMAIN ends |-> IF c = 1 THEN ends[1] + 1 ELSE ends[c] - ends[c-1]]
OnCurve(k)      == [p \in DOMAIN LoadedGlyph(k).flags |-> HasBit(LoadedGlyph(k).flags[p], 1)]
IsInstructed(k) == IsSimple(k) \/ LoadedGlyph(k).size > 10 + Len(LoadedGlyph(k).components)

\* The 255UInt16s of a stream; -1 is a last one cut short.
Values255(stream) ==
  LET behind[n \in 0 .. Len(stream)] ==
        LET rest == After(stream, n)
        IN  IF rest = << >> THEN << >> ELSE IF ~CodeComplete(rest) THEN <<-1>>
            ELSE <<CodeValue(rest)>> \o behind[n + CodeLength(rest[1])]
  IN  behind[0]

\* The glyph stream has the triplets of each glyph's flags and its length of
\* instructions: where those of the g-th filled glyph start and end.
PointsOf(g) == IF IsSimple(Filled[g]) THEN Len(LoadedGlyph(Filled[g]).flags) ELSE 0
TripletBytes(g) ==
  LET first == SumOf([i \in 1 .. g - 1 |-> PointsOf(i)])
  IN  SumOf([p \in 1 .. PointsOf(g) |-> S!RuledLength(Stream(3)[first + p] % 128)])
GlyphDataEnd[g \in 0 .. Len(Filled)] ==
  IF g = 0 THEN 0
  ELSE LET at == GlyphDataEnd[g-1] + TripletBytes(g)
       IN  at + IF IsInstructed(Filled[g]) THEN CodeLength(Stream(4)[at + 1]) ELSE 0

\* What the glyphs of an accepted table hold, one after the other, is each of its
\* streams whole, and nothing follows the last: no byte is lost, used twice or given
\* to another glyph, whatever the glyphs before it used.
StreamsPartitioned ==
  status = "ok" /\ (\A k \in 1 .. NumGlyphs : ContourCount(k) > 0 => Loadable(k)) =>
    /\ Len(Stream(1)) = 2 * NumGlyphs
    /\ InAll(LAMBDA k : IF IsSimple(k) THEN PointCounts(k) ELSE << >>) = Values255(Stream(2))
    /\ InAll(LAMBDA k : IF IsSimple(k) THEN OnCurve(k) ELSE << >>)
         = [p \in DOMAIN Stream(3) |-> Stream(3)[p] < 128]
    /\ GlyphDataEnd[Len(Filled)] = Len(Stream(4))
    /\ \A g \in DOMAIN Filled : IsInstructed(Filled[g]) =>
         CodeValue(After(Stream(4), GlyphDataEnd[g-1] + TripletBytes(g)))
           = Len(LoadedGlyph(Filled[g]).instructions)
    /\ InAll(LAMBDA k : IF IsSimple(k) THEN << >> ELSE LoadedGlyph(k).components) = Stream(5)
    /\ InAll(LAMBDA k : IF S!is_set(Stream(6), k - 1) THEN LoadedGlyph(k).box ELSE << >>)
         = Stream(7)
    /\ InAll(LAMBDA k : LoadedGlyph(k).instructions) = Stream(8)
    /\ Len(input) = GLYF_HEADER_SIZE + Taken(9)

\* The decoder panics only for 65535 glyphs or a simple glyph past its limits, both
\* with overflow checks, and for offsets that reach 4 GiB or, where they are short,
\* twice the values of an entry, 131072 bytes.
PanicsPastLimits == status = "panic" =>
  \/ checks /\ NumGlyphs = U16 - 1
  \/ IF LongLoca THEN Len(output) \div U16 >= U16 ELSE Len(output) >= 2 * OffsetValues
  \/ checks /\ call.number_of_contours > 0 /\ S!PastLimits

\* The decoder returns.
Returns == <>(status \in Errors \cup {"ok", "panic"})

\* The decoder implements OutlineAssembly: the glyphs finished so far are those a
\* reader finds where the offsets point.
Assembly == INSTANCE OutlineAssembly WITH
  contours <- IF StreamsComplete THEN [k \in 1 .. Sizes[1] \div 2 |-> ContourCount(k)] ELSE << >>,
  glyphs   <- [k \in 1 .. glyph_index |-> Region(k)],
  outcome  <- IF status \in Errors \cup {"panic"} THEN "failed"
              ELSE IF status = "ok" THEN "ok" ELSE "decoding"
ImplementsAssembly == Assembly!Spec
=============================================================================
