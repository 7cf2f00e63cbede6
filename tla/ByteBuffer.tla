----------------------------- MODULE ByteBuffer -----------------------------
(***************************************************************************)
(* The byte-level vocabulary of the converter: big-endian integers, the    *)
(* padding of buffer.rs and the checksum of checksum.rs. A buffer (Vec<u8>  *)
(* or a slice) is a sequence of bytes; the byte at Rust index i is element *)
(* i + 1.                                                                  *)
(*                                                                         *)
(* Radix is the number of values of a byte, 256 in the code. Everything    *)
(* below is linear in the bytes and in the words, so the configurations    *)
(* may use a smaller one, which keeps a u32 inside TLC's integers.         *)
(***************************************************************************)
EXTENDS Integers, Sequences

CONSTANT Radix
ASSUME RadixAssumption == Radix \in Nat /\ Radix >= 2

Byte == 0 .. Radix - 1
U16  == Radix * Radix        \* u16::MAX + 1
U32  == U16 * U16            \* u32::MAX + 1

Zeros(n) == [i \in 1 .. n |-> 0]

\* BufMut::put_u16 and put_u32: the big-endian bytes of v.
BigEndian16(v) == << (v \div Radix) % Radix, v % Radix >>
BigEndian32(v) == BigEndian16(v \div U16) \o BigEndian16(v % U16)

\* The length rounded up to a multiple of four, (len + 3) & !3.
Padded(n) == ((n + 3) \div 4) * 4

pad_to_multiple_of_four(buffer) ==
  buffer \o Zeros(Padded(Len(buffer)) - Len(buffer))

\* Byte i of data, zero past its end: the match on chunks.remainder().
ByteOrZero(data, i) == IF i <= Len(data) THEN data[i] ELSE 0

\* The n-th big-endian u32 of data, counted from 1.
Word(data, n) ==
  ((ByteOrZero(data, 4*n - 3) * Radix + ByteOrZero(data, 4*n - 2)) * Radix
     + ByteOrZero(data, 4*n - 1)) * Radix + ByteOrZero(data, 4*n)

\* The Wrapping<u32> sums of the first n words of data, for every n; and a
\* mutated form that does not wrap.
WordSums(data) ==
  LET sum[n \in Nat] == IF n = 0 THEN 0 ELSE (sum[n-1] + Word(data, n)) % U32
  IN  sum
WideSums(data) ==
  LET sum[n \in Nat] == IF n = 0 THEN 0 ELSE sum[n-1] + Word(data, n)
  IN  sum

calculate_checksum_unwrapped(data) == WideSums(data)[Padded(Len(data)) \div 4]
calculate_checksum(data) == WordSums(data)[Padded(Len(data)) \div 4]

\* The big-endian u16 at element i, and whether a flag word has a bit set.
U16At(data, i)    == data[i] * Radix + data[i + 1]
HasBit(word, bit) == (word \div bit) % 2 = 1

\* The slice buffer[offset .. offset + length].
Slice(buffer, offset, length) == SubSeq(buffer, offset + 1, offset + length)

\* What a read of the first n bytes leaves.
After(buffer, n) == SubSeq(buffer, n + 1, Len(buffer))

\* The buffer with bytes written over it from offset on.
Overwrite(buffer, offset, bytes) ==
  [i \in DOMAIN buffer |-> IF i \in offset + 1 .. offset + Len(bytes)
                           THEN bytes[i - offset] ELSE buffer[i]]

\* Writes the checksum_adjustment field, head_table[8..12]. Mutated form: the
\* field before it.
set_font_revision(head_table, value) ==
  Overwrite(head_table, 4, BigEndian32(value))
set_checksum_adjustment(head_table, value) ==
  Overwrite(head_table, 8, BigEndian32(value))

\* A head table must hold the twelve bytes up to the end of that field.
HeadTruncatedBefore(head_table) == Len(head_table) < 8          \* mutated form
HeadTruncated(head_table) == Len(head_table) < 12
-----------------------------------------------------------------------------
(* The 255UInt16 that a buffer starts with, as try_get_255_u16 reads it.   *)

WORD_CODE            == Radix - 3
ONE_MORE_BYTE_CODE_1 == Radix - 1
ONE_MORE_BYTE_CODE_2 == Radix - 2
LOWEST_UCODE         == Radix - 3

CodeLength(code) == CASE code = WORD_CODE -> 3
                      [] code \in {ONE_MORE_BYTE_CODE_1, ONE_MORE_BYTE_CODE_2} -> 2
                      [] OTHER -> 1

\* Mutated form of the next: the two one-byte codes change places.
CodeValueSwapped(bytes) ==
  CASE bytes[1] = WORD_CODE            -> bytes[2] * Radix + bytes[3]
    [] bytes[1] = ONE_MORE_BYTE_CODE_2 -> bytes[2] + LOWEST_UCODE
    [] bytes[1] = ONE_MORE_BYTE_CODE_1 -> bytes[2] + 2 * LOWEST_UCODE
    [] OTHER -> bytes[1]
CodeValue(bytes) ==
  CASE bytes[1] = WORD_CODE            -> bytes[2] * Radix + bytes[3]
    [] bytes[1] = ONE_MORE_BYTE_CODE_1 -> bytes[2] + LOWEST_UCODE
    [] bytes[1] = ONE_MORE_BYTE_CODE_2 -> bytes[2] + 2 * LOWEST_UCODE
    [] OTHER -> bytes[1]

\* Mutated form of the next: a byte must remain behind the code.
CodeFollowed(bytes) == bytes # << >> /\ CodeLength(bytes[1]) < Len(bytes)
CodeComplete(bytes) == bytes # << >> /\ CodeLength(bytes[1]) <= Len(bytes)
=============================================================================
