------------------------------ MODULE MCDecode ------------------------------
(* Small files for Decode: single fonts with every directory of at most     *)
(* MaxTables entries, over complete data and over data one byte short; a    *)
(* few larger ones; files with one thing wrong; and collections of at most  *)
(* MaxFonts fonts whose table indices may name no table.                    *)
EXTENDS Decode

CONSTANTS MaxTables,      \* bound: entries in an enumerated directory
          MaxFonts,       \* bound: fonts in a collection
          MaxIndices,     \* bound: tables in a font of a collection
          Profiles        \* the builds: with overflow checks or without

Raw(tag, version, orig_length, transform_length) ==
  [tag |-> tag, version |-> version,
   orig_length |-> orig_length, transform_length |-> transform_length]

Cmap  == Raw(1, 0, 5, 0)
Glyf  == Raw(2, 3, 3, 0)
TGlyf == Raw(2, 0, 9, 2)
Heads == Raw(3, 0, 13, 0)
Head11 == Raw(3, 0, 11, 0)
THmtx == Raw(4, 1, 8, 1)
Loca  == Raw(5, 3, 2, 0)
TLoca == Raw(5, 0, 6, 0)
LongLoca == Raw(5, 0, 6, U32 - 1)   \* a transformed length that nothing reads

Kinds == {Cmap, Glyf, TGlyf, Heads, Head11, THmtx, Loca, TLoca}

MCTags == 1 .. 5

\* Decompressed bytes: no zero among them and neighbours differ.
Bytes(n) == [i \in 1 .. n |-> 1 + ((7 * i) % (Radix - 1))]

SourceLength(raws) ==
  FoldLeft(LAMBDA sum, raw : sum + EntryOf(raw, 0).src_length, 0, raws)

MCGlyfOutcomes == {[glyf |-> Bytes(8), loca |-> Bytes(6)]}

File(raws, length) ==
  [overflow_checks |-> FALSE, truncated |-> FALSE, signature |-> WOFF2_SIGNATURE, flavor |-> TTF_TRUE_TYPE_FLAVOR,
   num_tables |-> Len(raws), total_compressed_size |-> 7, directory |-> raws,
   version |-> 0, num_fonts |-> 0, fonts |-> << >>, remaining |-> 7,
   stream |-> [fails |-> FALSE, plain |-> Bytes(length), unread |-> 0]]

Whole(raws) == File(raws, SourceLength(raws))

\* The source ranges behind the long loca wrap around to offset 1.
Wrapping == {File(<<TGlyf, LongLoca, Cmap, Heads>>, 19)}

Singles == UNION {
  {Whole(raws)} \cup {File(raws, n) : n \in {SourceLength(raws) - 1} \cap Nat} :
  raws \in UNION {[1 .. n -> Kinds] : n \in 0 .. MaxTables}}

Larger == {Whole(raws) : raws \in {<<Glyf, Cmap, Loca, Heads>>, <<Heads, TGlyf, Cmap, TLoca>>,
                                   <<Glyf, Loca, Glyf, Loca>>, <<Heads, Cmap, Heads, Cmap>>}}

Faulty ==
  LET sound == Whole(<<Heads>>)
  IN  {[sound EXCEPT !.truncated = TRUE], [sound EXCEPT !.signature = @ + 1],
       [sound EXCEPT !.flavor = TTF_CFF_FLAVOR], [sound EXCEPT !.flavor = @ + 1],
       [sound EXCEPT !.num_tables = 2], [sound EXCEPT !.remaining = 6],
       [sound EXCEPT !.stream.fails = TRUE], [sound EXCEPT !.stream.unread = 1],
       [sound EXCEPT !.remaining = 8]}

\* Too many tables for the search fields: new panics before it sorts them.
Many == {Whole([i \in 1 .. U16 \div 16 |-> Raw(1, 0, 1, 0)])}

Font(indices) == [flavor |-> 7, table_indices |-> indices]

Collections ==
  LET raws  == {<<Cmap, Heads>>, <<Glyf, Loca, Cmap>>, <<Glyf, Cmap, Loca>>,
                <<Heads, TGlyf, TLoca>>, <<TGlyf, TLoca, Glyf, Loca>>}
      lists == UNION {[1 .. n -> {Font(s) : s \in UNION {[1 .. k -> 0 .. 3] :
                                                        k \in 0 .. MaxIndices}}] :
                      n \in 0 .. MaxFonts}
      file(r, l) == [Whole(r) EXCEPT !.flavor = TTF_COLLECTION_FLAVOR, !.version = V1,
                                     !.num_fonts = Len(l), !.fonts = l]
      two   == file(<<Cmap, Heads>>, <<Font(<<1, 0>>), Font(<<1>>)>>)
  IN  {file(r, l) : r \in raws, l \in lists}
        \cup {two, [two EXCEPT !.version = V2], [two EXCEPT !.version = 0],
              [two EXCEPT !.num_fonts = 3]}

Built(files, checks) == {[f EXCEPT !.overflow_checks = checks] : f \in files}

SmallFiles ==
  LET files == Singles \cup Larger \cup Faulty \cup Wrapping \cup Collections
  IN  UNION {Built(files, checks) : checks \in Profiles}
        \cup UNION {Built(Many, checks) : checks \in Profiles \cap {TRUE}}
=============================================================================
