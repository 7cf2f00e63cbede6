----------------------------- MODULE GlyphLoader -----------------------------
(***************************************************************************)
(* The glyphs of the OpenType glyf table as a font loader reads them: the  *)
(* reader of what src/glyf/simple.rs and composite.rs write. SimpleGlyph's *)
(* and GlyfDecoder's properties compare what it finds with what the        *)
(* streams encode.                                                         *)
(***************************************************************************)
EXTENDS ByteBuffer, CoordLut, SequencesExt

SumOf(s) == LET sum[n \in 0 .. Len(s)] == IF n = 0 THEN 0 ELSE sum[n-1] + s[n]
            IN  sum[Len(s)]

Least(s)    == FoldLeft(LAMBDA a, b : IF b < a THEN b ELSE a, s[1], s)
Greatest(s) == FoldLeft(LAMBDA a, b : IF b > a THEN b ELSE a, s[1], s)

\* The 16-bit positions that deltas lead to from the origin.
Positions(deltas) == [p \in DOMAIN deltas |-> AsI16(SumOf(SubSeq(deltas, 1, p)))]

\* One axis: a coordinate is one byte with the short bit, none with only the
\* other bit, which is else the sign of the short one, and two without both.
CoordLength(flag, short, same) ==
  IF HasBit(flag, short) THEN 1 ELSE IF HasBit(flag, same) THEN 0 ELSE 2

AxisLength(flags, short, same) ==
  FoldLeft(LAMBDA n, flag : n + CoordLength(flag, short, same), 0, flags)

AxisDeltas(bytes, flags, short, same) ==
  [p \in DOMAIN flags |->
     LET at == 1 + AxisLength(SubSeq(flags, 1, p - 1), short, same)
     IN  IF HasBit(flags[p], short)
         THEN IF HasBit(flags[p], same) THEN bytes[at] ELSE -bytes[at]
         ELSE IF HasBit(flags[p], same) THEN 0 ELSE AsI16(U16At(bytes, at))]

\* The glyph that bytes start with. A set repeat bit would make the loader read
\* further flags from the next byte: size is then zero.
LoadSimple(bytes) ==
  LET contours == AsI16(U16At(bytes, 1))
      ends     == [c \in 1 .. contours |-> U16At(bytes, 9 + 2 * c)]
      at       == 10 + 2 * contours
      length   == U16At(bytes, at + 1)
      flags    == Slice(bytes, at + 2 + length, ends[contours] + 1)
      xs       == After(bytes, at + 2 + length + Len(flags))
      ys       == After(xs, AxisLength(flags, 2, 16))
  IN  [number_of_contours |-> contours, box |-> Slice(bytes, 2, 8), ends |-> ends,
       instructions |-> Slice(bytes, at + 2, length), flags |-> flags,
       x |-> Positions(AxisDeltas(xs, flags, 2, 16)),
       y |-> Positions(AxisDeltas(ys, flags, 4, 32)),
       size |-> IF \E p \in DOMAIN flags : HasBit(flags[p], 8) THEN 0
                ELSE Len(bytes) - Len(ys) + AxisLength(flags, 4, 32)]

\* The composite glyph that bytes are: its components follow the box, each with a
\* flag word, an index, two arguments and at most one scale, up to the first that
\* announces no other.
LoadComposite(bytes) ==
  LET length(w)  == (IF HasBit(w, 1) THEN 8 ELSE 6)
                      + CASE HasBit(w, 8) -> 2 [] ~HasBit(w, 8) /\ HasBit(w, 64) -> 4
                          [] ~HasBit(w, 8) /\ ~HasBit(w, 64) /\ HasBit(w, 128) -> 8 [] OTHER -> 0
      end[k \in 0 .. Len(bytes)] ==
        IF k = 0 THEN 10 ELSE end[k-1] + length(U16At(bytes, end[k-1] + 1))
      word(k)    == U16At(bytes, end[k-1] + 1)
      last       == CHOOSE k \in 1 .. Len(bytes) :
                      ~HasBit(word(k), 32) /\ \A j \in 1 .. k - 1 : HasBit(word(j), 32)
      instructed == \E k \in 1 .. last : HasBit(word(k), 256)
      size       == IF instructed THEN U16At(bytes, end[last] + 1) ELSE 0
  IN  [box |-> Slice(bytes, 2, 8), components |-> Slice(bytes, 10, end[last] - 10),
       instructions |-> IF instructed THEN Slice(bytes, end[last] + 2, size) ELSE << >>,
       size |-> end[last] + IF instructed THEN 2 + size ELSE 0]
=============================================================================
