-------------------------------- MODULE Sfnt --------------------------------
(***************************************************************************)
(* The OpenType table directory of src/sfnt.rs: sorting the records,       *)
(* computing the search fields in u16 arithmetic, the bytes written, and   *)
(* the search for a table.                                                 *)
(*                                                                         *)
(* A u16 has WordBits bits, two bytes of ByteBuffer. The parameter checks   *)
(* is the build profile: with overflow checks (cargo's dev profile)        *)
(* arithmetic that overflows panics, without them (release) it wraps, and  *)
(* a shift amount is masked.                                               *)
(***************************************************************************)
EXTENDS ByteBuffer, SequencesExt

CONSTANT WordBits

\* 1 << k, for a k below the number of bits.
Pow2[k \in Nat] == IF k = 0 THEN 1 ELSE 2 * Pow2[k-1]

ASSUME WordAssumption == WordBits \in Nat /\ WordBits > 4 /\ Pow2[WordBits] = U16

calculate_header_size(num_tables) == 12 + 16 * num_tables
-----------------------------------------------------------------------------
(* TableDirectory::new                                                     *)

\* sort_unstable_by_key: s, whose elements have these keys, in any order that
\* sorts them, for the sort promises nothing about elements of equal keys.
SortedBy(keys, s) ==
  {[i \in DOMAIN s |-> s[p[i]]] :
     p \in {q \in Bijection(DOMAIN s, DOMAIN s) :
             \A i, j \in DOMAIN s : i < j => keys[q[i]] <= keys[q[j]]}}

SortedByTag(table_records) ==
  SortedBy([i \in DOMAIN table_records |-> table_records[i].tag], table_records)

leading_zeros(n) == WordBits - CHOOSE b \in 0 .. WordBits :
                                 n < Pow2[b] /\ (b > 0 => n >= Pow2[b - 1])

\* Mutated form of the next: the ceiling of the logarithm.
entry_selector_rounded_up(n) == (WordBits - leading_zeros(n - 1)) % U16
entry_selector(n) == (WordBits - 1 - leading_zeros(n)) % U16
ShiftAmount(n)    == (entry_selector(n) + 4) % U16
search_range(n)   == Pow2[ShiftAmount(n) % WordBits]
range_shift(n)    == (16 * n - search_range(n)) % U16

\* An operation above leaves the range of its type. The shift num_tables << 4
\* loses high bits in silence.
OverflowsUnshifted(n) == n = 0 \/ (16 * n) % U16 < search_range(n)   \* mutated form
Overflows(n) == \/ n = 0
                \/ ShiftAmount(n) >= WordBits
                \/ (16 * n) % U16 < search_range(n)

\* The expect of the conversion to u16, and the overflow checks.
NewPanics(n, checks) == n >= U16 \/ (checks /\ Overflows(n))
-----------------------------------------------------------------------------
(* TableDirectory::write_to_buf, TableRecord::write_to_buf, find_table      *)

RecordBytes(r) == BigEndian32(r.tag) \o BigEndian32(r.checksum)
                    \o BigEndian32(r.offset) \o BigEndian32(r.length)

DirectoryBytes(sfnt_version, table_records) ==
  LET n == Len(table_records)
  IN  BigEndian32(sfnt_version) \o BigEndian16(n) \o BigEndian16(search_range(n))
        \o BigEndian16(entry_selector(n)) \o BigEndian16(range_shift(n))
        \o FlattenSeq([i \in DOMAIN table_records |-> RecordBytes(table_records[i])])

\* The records a binary search of the sorted table_records may find.
find_table(table_records, tag) ==
  {table_records[i] : i \in {j \in DOMAIN table_records : table_records[j].tag = tag}}
=============================================================================
