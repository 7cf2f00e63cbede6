--------------------------- MODULE OutlineAssembly ---------------------------
(***************************************************************************)
(* What decode_glyf_table promises, without streams and offsets: the       *)
(* outlines of a font are a growing list of glyphs, the k-th of them with  *)
(* the k-th contour count of the table: nothing for none, a simple glyph   *)
(* of so many contours, or a composite one for a negative count. A glyph   *)
(* added never changes again, and the list is reported complete only when  *)
(* it has a glyph for every count. The loca table is how GlyfDecoder lets  *)
(* a reader find them.                                                     *)
(***************************************************************************)
EXTENDS ByteBuffer

VARIABLES
  contours,   \* the contour counts of the table
  glyphs,     \* the glyphs so far, each a sequence of bytes
  outcome     \* "decoding", then "ok" or "failed"

vars == <<contours, glyphs, outcome>>

Has(glyph, count) == /\ Len(glyph) % 4 = 0
                     /\ glyph = << >> <=> count = 0
                     /\ count > 0 => SubSeq(glyph, 1, 2) = BigEndian16(count)
                     /\ count < 0 => SubSeq(glyph, 1, 2) = BigEndian16(-1)

Init == glyphs = << >> /\ outcome = "decoding"      \* any counts

AddGlyph ==
  LET n == Len(glyphs) + 1
  IN  /\ n <= Len(contours) /\ Len(glyphs') = n
      /\ SubSeq(glyphs', 1, n - 1) = glyphs /\ Has(glyphs'[n], contours[n])
      /\ UNCHANGED outcome

Complete == outcome' = "ok" /\ Len(glyphs) = Len(contours) /\ UNCHANGED glyphs

Fail == outcome' = "failed" /\ UNCHANGED glyphs

Next == /\ outcome = "decoding" /\ UNCHANGED contours
        /\ AddGlyph \/ Complete \/ Fail

Spec == Init /\ [][Next]_vars
=============================================================================
