----------------------------- MODULE SimpleGlyph -----------------------------
(***************************************************************************)
(* One call of parse_simple_glyph (src/glyf/simple.rs): read the point     *)
(* counts, then the points contour by contour, then instructions and       *)
(* bounding box, and append the OpenType glyph to the output.              *)
(*                                                                         *)
(* An action is one iteration of a loop or the code behind the last one.   *)
(* An error or a panic drops the decoder with all it has read and written, *)
(* so it leaves them unchanged here.                                       *)
(***************************************************************************)
EXTENDS GlyphLoader

CONSTANTS GlyphCalls      \* the calls made

ASSUME WidthAssumption == Radix = 256       \* flags and triplets need real bytes
ASSUME CallAssumption ==
  \A c \in GlyphCalls :
    /\ c.number_of_contours \in Nat \ {0} /\ c.number_of_contours <= 32767
    /\ c.output \in Seq(Byte)
    /\ c.decoder = [s \in DOMAIN c.decoder |-> c.decoder[s]]
    /\ \A s \in {"n_points_stream", "flag_stream", "glyph_stream", "bbox_stream",
                 "instruction_stream"} : s \in DOMAIN c.decoder /\ c.decoder[s] \in Seq(Byte)

VARIABLES
  checks,     \* whether the library was built with overflow checks
  decoder,    \* self: the streams, each without what has been read of it
  call,       \* the arguments, with self and the output as they were on entry
  local,      \* the local variables
  output,     \* output_buffer
  status      \* the loop the call is in, or how it returned

vars == <<checks, decoder, call, local, output, status>>

\* point_counts to y; extents is empty until extents_set.
Locals(d) == [counts |-> << >>, n_points |-> d.n_points_stream, total |-> 0,
              contour |-> 0, left |-> 0, running |-> 0, ends |-> << >>,
              flags |-> << >>, xs |-> << >>, ys |-> << >>,
              x |-> 0, y |-> 0, extents |-> << >>]

Init == /\ checks \in BOOLEAN /\ call \in GlyphCalls
        /\ decoder = call.decoder /\ output = call.output
        /\ local = Locals(call.decoder) /\ status = "counts"

Return(s) == status' = s /\ UNCHANGED <<checks, decoder, call, local, output>>
Step(s)   == status' = s /\ UNCHANGED <<checks, call, output>>

\* Bitmap::is_set
is_set(bitmap, index) == HasBit(bitmap[index \div 8 + 1], BitWeight(index))

Overflows(n) == checks /\ n >= U16
InI16(n) == -32768 <= n /\ n <= 32767
-----------------------------------------------------------------------------
(* take_point_counts: a copy of the stream is read, then put back.         *)

CountsLeft == status = "counts" /\ Len(local.counts) < call.number_of_contours

Counted(n, total) == [local EXCEPT !.counts = Append(@, n), !.total = total,
                                   !.n_points = After(@, CodeLength(@[1]))]

TakeCountUnwrapped ==                                         \* mutated form
  /\ CountsLeft /\ CodeComplete(local.n_points)
  /\ LET n == CodeValue(local.n_points)
     IN  IF Overflows(local.total + n) THEN Return("panic")
         ELSE local' = Counted(n, local.total + n) /\ Step("counts") /\ UNCHANGED decoder
TakeCount ==
  /\ CountsLeft /\ CodeComplete(local.n_points)
  /\ LET n == CodeValue(local.n_points)
     IN  IF Overflows(local.total + n) THEN Return("panic")
         ELSE local' = Counted(n, (local.total + n) % U16) /\ Step("counts") /\ UNCHANGED decoder

CountTruncated == CountsLeft /\ ~CodeComplete(local.n_points) /\ Return("Truncated")

CountsTaken == status = "counts" /\ Len(local.counts) = call.number_of_contours

CountsDropped == CountsTaken /\ Step("points") /\ UNCHANGED <<decoder, local>>  \* mutated form
CountsCommitted ==
  /\ CountsTaken
  /\ decoder' = [decoder EXCEPT !.n_points_stream = local.n_points]
  /\ Step("points") /\ UNCHANGED local
-----------------------------------------------------------------------------
(* The loop over the contours, and the one over the points of a contour.   *)

AtContour == status = "points" /\ local.left = 0 /\ local.contour < Len(local.counts)
Points    == local.counts[local.contour + 1]
Running   == local.running + Points

Begun(contour) == [local EXCEPT !.contour = contour, !.left = Points, !.running = Running % U16,
                                !.ends = @ \o BigEndian16((Running % U16) - 1)]

\* The end point of a first contour without points is 0 - 1. Mutated form: a
\* contour without points is not stepped over.
ContourStuck ==
  AtContour /\ IF Points = 0 THEN UNCHANGED vars
               ELSE local' = Begun(local.contour + 1) /\ Step("points") /\ UNCHANGED decoder
Contour ==
  /\ AtContour
  /\ IF Overflows(Running) \/ (checks /\ Running % U16 = 0) THEN Return("panic")
     ELSE local' = Begun(local.contour + 1) /\ Step("points") /\ UNCHANGED decoder

AtPoint == status = "points" /\ local.left > 0
Flags   == decoder.flag_stream[1]
Triplet == COORD_LUT[Flags % 128]
PointComplete == decoder.flag_stream # << >> /\ Len(decoder.glyph_stream) >= Triplet.byte_count

PointTruncated == AtPoint /\ ~PointComplete /\ Return("Truncated")

\* The bytes a delta is written as, and the flag bits that say so. Mutated form: one
\* byte for one value too many.
CoordBytesTo256(d) == CASE d = 0 -> << >>
                        [] d \in 1 .. 256 \/ -d \in 1 .. 256 -> << IF d > 0 THEN d ELSE -d >>
                        [] OTHER -> BigEndian16(d)
CoordBytes(d) == CASE d = 0 -> << >>
                   [] d \in 1 .. 255 \/ -d \in 1 .. 255 -> << IF d > 0 THEN d ELSE -d >>
                   [] OTHER -> BigEndian16(d)
ShortBit(d, bit) == IF d # 0 /\ d \in -255 .. 255 THEN bit ELSE 0
SameBit(d, bit)  == IF d \in 0 .. 255 THEN bit ELSE 0

OverlapBit == IF decoder.overlap_bitmap # << >> /\ is_set(decoder.overlap_bitmap, call.glyph_index)
              THEN 64 ELSE 0
FlagByte(x, y) == (IF Flags < 128 THEN 1 ELSE 0) + ShortBit(x, 2) + ShortBit(y, 4)
                    + SameBit(x, 16) + SameBit(y, 32) + OverlapBit

Lower(a, b)  == IF a <= b THEN a ELSE b
Higher(a, b) == IF a >= b THEN a ELSE b

\* The bounding box <<x_min, y_min, x_max, y_max>> with one more point. Mutated
\* form: the origin is always inside.
ExtendedFromOrigin(box, x, y) ==
  LET b == IF box = << >> THEN <<0, 0, 0, 0>> ELSE box
  IN  <<Lower(b[1], x), Lower(b[2], y), Higher(b[3], x), Higher(b[4], y)>>
Extended(box, x, y) ==
  IF box = << >> THEN <<x, y, x, y>>
  ELSE <<Lower(box[1], x), Lower(box[2], y), Higher(box[3], x), Higher(box[4], y)>>

MovedBy(delta, x, y) ==
  [local EXCEPT !.left = @ - 1, !.x = x, !.y = y, !.extents = Extended(@, x, y),
                !.flags = Append(@, FlagByte(delta[1], delta[2])),
                !.xs = @ \o CoordBytes(delta[1]), !.ys = @ \o CoordBytes(delta[2])]

Point ==
  /\ AtPoint /\ PointComplete
  /\ LET data  == SubSeq(decoder.glyph_stream, 1, Triplet.byte_count)
         delta == <<dx(Triplet, data), dy(Triplet, data)>>
         x     == local.x + delta[1]
         y     == local.y + delta[2]
     IN  IF checks /\ (DeltaOverflows(Triplet, data) \/ ~InI16(x) \/ ~InI16(y))
         THEN Return("panic")
         ELSE /\ local' = MovedBy(delta, AsI16(x), AsI16(y))
              /\ decoder' = [decoder EXCEPT !.flag_stream = After(@, 1),
                                            !.glyph_stream = After(@, Triplet.byte_count)]
              /\ Step("points")
-----------------------------------------------------------------------------
(* Instructions, bounding box and the glyph.                               *)

AllPoints == status = "points" /\ local.left = 0 /\ local.contour = Len(local.counts)

InstructionLength == CodeValue(decoder.glyph_stream)
Explicit == is_set(decoder.bbox_bitmap, call.glyph_index)

TailComplete == /\ CodeComplete(decoder.glyph_stream)
                /\ Len(decoder.instruction_stream) >= InstructionLength
                /\ Explicit => Len(decoder.bbox_stream) >= 8

TailTruncated == AllPoints /\ ~TailComplete /\ Return("Truncated")

\* A glyph without points has the box of zeros.
BoxBytes ==
  IF Explicit THEN SubSeq(decoder.bbox_stream, 1, 8)
  ELSE LET box == IF local.extents = << >> THEN <<0, 0, 0, 0>> ELSE local.extents
       IN  BigEndian16(box[1]) \o BigEndian16(box[2]) \o BigEndian16(box[3]) \o BigEndian16(box[4])

GlyphBytes == BigEndian16(call.number_of_contours) \o BoxBytes \o local.ends
              \o BigEndian16(InstructionLength)
              \o SubSeq(decoder.instruction_stream, 1, InstructionLength)
              \o local.flags \o local.xs \o local.ys

Finish ==
  /\ AllPoints /\ TailComplete
  /\ output' = output \o GlyphBytes
  /\ decoder' = [decoder EXCEPT
                   !.glyph_stream = After(@, CodeLength(@[1])),
                   !.instruction_stream = After(@, InstructionLength),
                   !.bbox_stream = IF Explicit THEN After(@, 8) ELSE @]
  /\ status' = "parsed" /\ UNCHANGED <<checks, call, local>>

Next == \/ TakeCount \/ CountTruncated \/ CountsCommitted
        \/ Contour \/ Point \/ PointTruncated
        \/ Finish \/ TailTruncated

Spec == Init /\ [][Next]_vars
-----------------------------------------------------------------------------
(* What the streams of the call encode, by the rules of WOFF2.             *)

\* The point counts that can be read, and the stream behind them.
Counts ==
  LET n == Lower(call.number_of_contours, Len(call.decoder.n_points_stream))
      read[k \in 0 .. n] ==
        IF k = 0 THEN [values |-> << >>, rest |-> call.decoder.n_points_stream]
        ELSE LET r == read[k-1]
             IN  IF ~CodeComplete(r.rest) THEN r
                 ELSE [values |-> Append(r.values, CodeValue(r.rest)),
                       rest   |-> After(r.rest, CodeLength(r.rest[1]))]
  IN  read[n]

Total(c) == SumOf(SubSeq(Counts.values, 1, c))
AllCount == Total(Len(Counts.values))

RuledLength(f) == CASE f < 84 -> 1 [] f \in 84 .. 119 -> 2 [] f \in 120 .. 123 -> 3 [] OTHER -> 4

\* The deltas of the points that can be read, and the glyph stream behind them.
Deltas ==
  LET n == Lower(AllCount, Len(call.decoder.flag_stream))
      flag(k) == call.decoder.flag_stream[k] % 128
      read[k \in 0 .. n] ==
        IF k = 0 THEN [x |-> << >>, y |-> << >>, rest |-> call.decoder.glyph_stream]
        ELSE LET r == read[k-1]
             IN  IF Len(r.x) < k - 1 \/ Len(r.rest) < RuledLength(flag(k)) THEN r
                 ELSE LET d == Ruled(flag(k), r.rest)
                      IN  [x |-> Append(r.x, d[1]), y |-> Append(r.y, d[2]),
                           rest |-> After(r.rest, RuledLength(flag(k)))]
  IN  read[n]

Cut(deltas) == [k \in DOMAIN deltas |-> AsI16(deltas[k])]

\* What 16-bit arithmetic has no room for: a point count, the end point of a
\* first contour without points, the negative of -32768, a coordinate.
PastLimits ==
  \/ AllCount >= U16
  \/ Counts.values # << >> /\ Counts.values[1] = 0
  \/ \E d \in {Deltas.x, Deltas.y} : \E k \in DOMAIN d :
       d[k] = -32768 \/ ~InI16(SumOf(SubSeq(Cut(d), 1, k)))
-----------------------------------------------------------------------------
(* What the parser gets right.                                             *)

Statuses == {"counts", "points", "parsed", "Truncated", "panic"}

\* The locals stay inside their integer types in both profiles, and the cursors
\* of the loops inside what they loop over.
TypeOK ==
  /\ checks \in BOOLEAN /\ status \in Statuses
  /\ local.total \in 0 .. U16 - 1 /\ local.running \in 0 .. U16 - 1
  /\ InI16(local.x) /\ InI16(local.y)
  /\ local.contour \in 0 .. Len(local.counts) /\ local.left \in 0 .. U16 - 1
  /\ \A s \in {output, local.ends, local.flags, local.xs, local.ys} : s \in Seq(Byte)

HasContours == AllCount \in 1 .. U16 - 1 /\ Counts.values[1] > 0

\* A font loader finds in the bytes appended the contours, instructions and points
\* that the streams encode, on and off the curve as encoded and with the overlap
\* bit on all or none, and the encoded box or else the tightest one around the points.
LoadsBack == status = "parsed" /\ HasContours =>
  LET bytes == After(output, Len(call.output))
      glyph == LoadSimple(bytes)
      on    == call.decoder.flag_stream
  IN  /\ glyph.size = Len(bytes)
      /\ glyph.number_of_contours = call.number_of_contours
      /\ glyph.ends = [c \in 1 .. call.number_of_contours |-> Total(c) - 1]
      /\ glyph.instructions = SubSeq(call.decoder.instruction_stream, 1, CodeValue(Deltas.rest))
      /\ glyph.x = Positions(Cut(Deltas.x)) /\ glyph.y = Positions(Cut(Deltas.y))
      /\ \A p \in DOMAIN glyph.flags :
           /\ HasBit(glyph.flags[p], 1) <=> on[p] < 128
           /\ HasBit(glyph.flags[p], 64) <=> OverlapBit = 64
      /\ glyph.box = IF Explicit THEN SubSeq(call.decoder.bbox_stream, 1, 8)
                     ELSE BigEndian16(Least(glyph.x)) \o BigEndian16(Least(glyph.y))
                          \o BigEndian16(Greatest(glyph.x)) \o BigEndian16(Greatest(glyph.y))

\* Every stream is left at the first byte that belongs to the next glyph.
LeavesNext == status = "parsed" => decoder =
  [call.decoder EXCEPT
     !.n_points_stream = Counts.rest, !.flag_stream = After(@, AllCount),
     !.glyph_stream = After(Deltas.rest, CodeLength(Deltas.rest[1])),
     !.instruction_stream = After(@, CodeValue(Deltas.rest)),
     !.bbox_stream = IF Explicit THEN After(@, 8) ELSE @]

\* With overflow checks the parser panics at the documented widths and nowhere
\* else, and what it returns stayed inside them; without, it never panics.
PanicsPastLimits == /\ status = "panic" => checks /\ PastLimits
                    /\ checks /\ status = "parsed" => ~PastLimits
=============================================================================
