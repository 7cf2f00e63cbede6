---------------------------- MODULE FontAssembly ----------------------------
(***************************************************************************)
(* What Woff2TableDirectory::write_to_buf promises, without a buffer: the  *)
(* font is a growing list of tables, each a tag with its contents. Every   *)
(* table added is that of a directory entry, with the entry's own bytes; a *)
(* glyf table comes together with a loca table that follows it in the      *)
(* directory; what has been added never changes again; and the assembly is *)
(* reported complete only with as many tables as the directory lists.      *)
(* There are no offsets, no padding and no checksums here: they are how    *)
(* TablesWriter keeps this promise.                                        *)
(***************************************************************************)
EXTENDS ByteBuffer

CONSTANTS GLYF_TAG, LOCA_TAG, HEAD_TAG,
          GlyfOutcomes      \* the outlines decode_glyf_table may return

VARIABLES
  tables,     \* the directory: entries with tag, transformed and source range
  data,       \* the decompressed table data
  assembled,  \* the tables of the font so far: records [tag, bytes]
  outcome     \* "writing", then "ok" or "failed"

vars == <<tables, data, assembled, outcome>>

InData(e) == e.src_offset + e.src_length <= Len(data)
Source(e) == Slice(data, e.src_offset, e.src_length)

\* The contents a copied table has in the font: a head table loses its old
\* checksum adjustment, any other is copied as it is.
Copied(e) == [tag   |-> e.tag,
              bytes |-> IF e.tag = HEAD_TAG THEN set_checksum_adjustment(Source(e), 0)
                                            ELSE Source(e)]

Init == assembled = << >> /\ outcome = "writing"      \* any tables, any data

AddTable == \E e \in {tables[i] : i \in DOMAIN tables} :
  /\ e.tag \notin {GLYF_TAG, LOCA_TAG} /\ InData(e)
  /\ assembled' = Append(assembled, Copied(e))

AddOutlines == \E i, j \in DOMAIN tables :
  /\ i < j /\ tables[i].tag = GLYF_TAG /\ tables[j].tag = LOCA_TAG
  /\ tables[i].transformed = tables[j].transformed /\ InData(tables[i])
  /\ IF tables[i].transformed
     THEN \E g \in GlyfOutcomes :
            assembled' = assembled \o << [tag |-> GLYF_TAG, bytes |-> g.glyf],
                                         [tag |-> LOCA_TAG, bytes |-> g.loca] >>
     ELSE /\ InData(tables[j])
          /\ assembled' = assembled \o << Copied(tables[i]), Copied(tables[j]) >>

Complete == outcome' = "ok" /\ Len(assembled) = Len(tables) /\ UNCHANGED assembled

Fail == outcome' = "failed" /\ UNCHANGED assembled

Next == /\ outcome = "writing"
        /\ UNCHANGED <<tables, data>>
        /\ \/ (AddTable \/ AddOutlines) /\ UNCHANGED outcome
           \/ Complete
           \/ Fail

Spec == Init /\ [][Next]_vars
=============================================================================
