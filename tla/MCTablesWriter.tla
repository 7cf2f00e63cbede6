--------------------------- MODULE MCTablesWriter ---------------------------
(* Small directories for TablesWriter: every sequence of at most MaxTables  *)
(* table kinds, the longest ones of CoreKinds only, laid out back to back   *)
(* as from_buf does, over data that is complete or one byte short.          *)
EXTENDS TablesWriter

CONSTANT MaxTables,         \* bound: entries in a directory
         Kinds, CoreKinds   \* the kinds of entry used, named in Kind

Kind == [cmap   |-> [tag |-> 1, transformed |-> FALSE, src_length |-> 5],
         glyf   |-> [tag |-> 2, transformed |-> FALSE, src_length |-> 3],
         tglyf  |-> [tag |-> 2, transformed |-> TRUE,  src_length |-> 2],
         head   |-> [tag |-> 3, transformed |-> FALSE, src_length |-> 13],
         head11 |-> [tag |-> 3, transformed |-> FALSE, src_length |-> 11],
         hmtx   |-> [tag |-> 4, transformed |-> FALSE, src_length |-> 4],
         thmtx  |-> [tag |-> 4, transformed |-> TRUE,  src_length |-> 1],
         loca   |-> [tag |-> 5, transformed |-> FALSE, src_length |-> 2],
         tloca  |-> [tag |-> 5, transformed |-> TRUE,  src_length |-> 0]]

MCTags == 1 .. 5

Length(ks, i) == Kind[ks[i]].src_length

\* offset[i] is where entry i starts; entry Len + 1 would start at the end.
Offsets(ks) ==
  LET offset[i \in 1 .. Len(ks) + 1] == IF i = 1 THEN 0 ELSE offset[i-1] + Length(ks, i-1)
  IN  offset

Laid(ks, offset) == [i \in DOMAIN ks |->
  [tag |-> Kind[ks[i]].tag, transformed |-> Kind[ks[i]].transformed,
   src_length |-> Length(ks, i), src_offset |-> offset[i]]]

\* Decompressed bytes: no zero among them and neighbours differ.
Bytes(n) == [i \in 1 .. n |-> 1 + ((7 * i) % (Radix - 1))]

KindSeqs == UNION {[1 .. n -> Kinds] : n \in 0 .. MaxTables - 1}
              \cup [1 .. MaxTables -> CoreKinds]

CallInputs == UNION {
  LET offset == Offsets(ks)
      total  == offset[Len(ks) + 1]
  IN  {[tables |-> Laid(ks, offset), data |-> Bytes(n), header_end |-> 12 + 16 * Len(ks)] :
       n \in {total, total - 1} \cap Nat} : ks \in KindSeqs}

\* Decoded outlines: a glyf table and a loca table whose length is no multiple
\* of four, and the outlines of a font without glyphs.
MCGlyfOutcomes == {[glyf |-> Bytes(8), loca |-> Bytes(6)],
                   [glyf |-> << >>,    loca |-> Bytes(2)]}
=============================================================================
