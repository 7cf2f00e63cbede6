------------------------------ MODULE CoordLut ------------------------------
(***************************************************************************)
(* The coordinate triplets of src/glyf/triplet.rs: the table COORD_LUT of  *)
(* 128 entries, built from the index, and the deltas dx and dy that an     *)
(* entry makes of its data bytes, in the integer types of the code. The    *)
(* same deltas by the rules of WOFF2 are at the end.                       *)
(***************************************************************************)
EXTENDS Integers, Sequences

(* coord_lut_entry                                                         *)

Entry(byte_count, x_bits, y_bits, delta_x, delta_y, x_is_negative, y_is_negative) ==
  [byte_count |-> byte_count, x_bits |-> x_bits, y_bits |-> y_bits,
   delta_x |-> delta_x, delta_y |-> delta_y,
   x_is_negative |-> x_is_negative, y_is_negative |-> y_is_negative]

DELTA_4BIT == <<1, 17, 33, 49>>
DELTA_8BIT == <<1, 257, 513>>

signed_entry(count, x_bits, y_bits, delta_x, delta_y, sign_group) ==
  Entry(count, x_bits, y_bits, delta_x, delta_y,
        sign_group % 2 = 0, sign_group \div 2 = 0)

y_only_entry(i) == Entry(1, 0, 8, 0, (i \div 2) * 256, FALSE, i % 2 = 0)
x_only_entry(i) == Entry(1, 8, 0, (i \div 2) * 256, 0, i % 2 = 0, FALSE)

packed_4bit_entry(i) ==
  signed_entry(1, 4, 4, DELTA_4BIT[i \div 16 + 1], DELTA_4BIT[((i \div 4) % 4) + 1], i % 4)

packed_8bit_entry(i) ==
  signed_entry(2, 8, 8, DELTA_8BIT[i \div 12 + 1], DELTA_8BIT[((i \div 4) % 3) + 1], i % 4)

coord_lut_entry(i) == CASE i \in 0 .. 9     -> y_only_entry(i)
                        [] i \in 10 .. 19   -> x_only_entry(i - 10)
                        [] i \in 20 .. 83   -> packed_4bit_entry(i - 20)
                        [] i \in 84 .. 119  -> packed_8bit_entry(i - 84)
                        [] i \in 120 .. 123 -> signed_entry(3, 12, 12, 0, 0, i - 120)
                        [] i \in 124 .. 127 -> signed_entry(4, 16, 16, 0, 0, i - 124)

COORD_LUT == [i \in 0 .. 127 |-> coord_lut_entry(i)]
-----------------------------------------------------------------------------
(* dx, dy and the match on byte_count                                      *)

\* 0x80 >> (i % 8): the bits of a byte are counted from its high end.
BitWeight(i) == <<128, 64, 32, 16, 8, 4, 2, 1>>[(i % 8) + 1]

\* (data >> shift) & mask: the width bits of bytes that follow the first skip.
Bits(bytes, skip, width) ==
  LET bit(k) == (bytes[k \div 8 + 1] \div BitWeight(k)) % 2
      value[w \in 0 .. width] == IF w = 0 THEN 0 ELSE 2 * value[w-1] + bit(skip + w - 1)
  IN  value[width]

AsI16(v) == ((v + 32768) % 65536) - 32768

\* The cast to i16 comes before the negation, which wraps.
Magnitude(v) == AsI16(v)
Signed(is_negative, v) == IF is_negative THEN AsI16(-Magnitude(v)) ELSE Magnitude(v)
NegatesOutOfRange(is_negative, v) == is_negative /\ v > 32767     \* mutated form
NegationOverflows(is_negative, v) == is_negative /\ Magnitude(v) = -32768

X(triplet, bytes) == Bits(bytes, 0, triplet.x_bits) + triplet.delta_x
Y(triplet, bytes) == Bits(bytes, triplet.x_bits, triplet.y_bits) + triplet.delta_y

dx(triplet, bytes) == Signed(triplet.x_is_negative, X(triplet, bytes))
dy(triplet, bytes) == Signed(triplet.y_is_negative, Y(triplet, bytes))

\* Negating the least i16, which panics where overflow is checked.
DeltaOverflows(triplet, bytes) ==
  \/ NegationOverflows(triplet.x_is_negative, X(triplet, bytes))
  \/ NegationOverflows(triplet.y_is_negative, Y(triplet, bytes))
-----------------------------------------------------------------------------
(* The same deltas by the ranges of the flags in the table the source cites *)
(* (triplet.rs:75-76), in exact arithmetic and without a lookup table.     *)

WithSign(bit, magnitude) == IF bit % 2 = 1 THEN magnitude ELSE -magnitude

Ruled(f, b) ==
  LET g == f \div 2
  IN  CASE f < 10       -> <<0, WithSign(f, (f \div 2) * 256 + b[1])>>
        [] f \in 10 .. 19 -> <<WithSign(f, ((f - 10) \div 2) * 256 + b[1]), 0>>
        [] f \in 20 .. 83 ->
             <<WithSign(f, 1 + ((f - 20) \div 16) * 16 + b[1] \div 16),
              WithSign(g, 1 + (((f - 20) % 16) \div 4) * 16 + (b[1] % 16))>>
        [] f \in 84 .. 119 ->
             <<WithSign(f, 1 + ((f - 84) \div 12) * 256 + b[1]),
              WithSign(g, 1 + (((f - 84) % 12) \div 4) * 256 + b[2])>>
        [] f \in 120 .. 123 ->
             <<WithSign(f, b[1] * 16 + b[2] \div 16),
              WithSign(g, (b[2] % 16) * 256 + b[3])>>
        [] OTHER -> <<WithSign(f, b[1] * 256 + b[2]), WithSign(g, b[3] * 256 + b[4])>>
=============================================================================
