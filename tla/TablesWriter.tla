---------------------------- MODULE TablesWriter ----------------------------
(***************************************************************************)
(* Woff2TableDirectory::write_to_buf (src/woff2/tables.rs): copy the tables *)
(* of the decompressed data into the output buffer behind the header, one  *)
(* directory entry per loop iteration, and return their table records.     *)
(*                                                                         *)
(* One action is one iteration with the outcome it has. A Rust panic ends  *)
(* the conversion and unwinds the frame that owns both vectors, so it      *)
(* leaves them unchanged here. decode_glyf_table is seen only through what *)
(* it may do: return an error or one of GlyfOutcomes, or panic.            *)
(***************************************************************************)
EXTENDS ByteBuffer, FiniteSets

CONSTANTS GLYF_TAG, LOCA_TAG, HEAD_TAG, HMTX_TAG,
          Tags,             \* the four-byte tags, as the u32 they spell
          GlyfOutcomes,     \* records [glyf, loca] of bytes: decoded outlines
          Inputs            \* records [tables, data, header_end]: the calls made

Entry  == [transformed : BOOLEAN, tag : Tags, src_length : Nat, src_offset : Nat]
Record == [tag : Tags, checksum : 0 .. U32 - 1, offset : 0 .. U32 - 1, length : 0 .. U32 - 1]

ASSUME TagAssumption == {GLYF_TAG, LOCA_TAG, HEAD_TAG, HMTX_TAG} \subseteq Tags
                        /\ GLYF_TAG # LOCA_TAG /\ HEAD_TAG \notin {GLYF_TAG, LOCA_TAG}
ASSUME OutcomeAssumption ==
  \A g \in GlyfOutcomes : g.glyf \in Seq(Byte) /\ g.loca \in Seq(Byte)
\* tables.rs asserts the alignment of the buffer it is handed.
ASSUME InputAssumption ==
  \A in \in Inputs : /\ in.tables \in Seq(Entry) /\ in.data \in Seq(Byte)
                     /\ in.header_end \in Nat /\ in.header_end % 4 = 0

VARIABLES
  tables,      \* self.tables
  data,        \* decompressed_tables
  header_end,  \* out_buffer.len() on entry
  out,         \* out_buffer
  ttf_tables,  \* the records pushed so far
  next,        \* the entry tables_iter yields next
  status       \* "writing", or how the call returned

vars == <<tables, data, header_end, out, ttf_tables, next, status>>

InitWith(t, d, h) ==
  /\ tables = t /\ data = d /\ header_end = h
  /\ out = Zeros(h) /\ ttf_tables = << >> /\ next = 1 /\ status = "writing"

Init == \E in \in Inputs : InitWith(in.tables, in.data, in.header_end)
-----------------------------------------------------------------------------
(* The helpers of the loop.                                                *)

\* get_source_range stays inside the data, or slicing panics.
InData(e) == e.src_offset + e.src_length <= Len(data)
Source(e) == Slice(data, e.src_offset, e.src_length)

\* The record of a table whose bytes are about to be appended to buffer. Both
\* casts "as u32" wrap.
RecordOf(tag, bytes, buffer) ==
  [tag |-> tag, checksum |-> calculate_checksum(bytes),
   offset |-> Len(buffer) % U32, length |-> Len(bytes) % U32]

AppendedUnpadded(buffer, bytes) == buffer \o bytes            \* mutated form
Appended(buffer, bytes) == pad_to_multiple_of_four(buffer \o bytes)

PushTable(tag, bytes) ==
  /\ ttf_tables' = Append(ttf_tables, RecordOf(tag, bytes, out))
  /\ out' = Appended(out, bytes)

PushOutlines(glyf, loca) ==
  LET between == Appended(out, glyf)
  IN  /\ ttf_tables' = ttf_tables \o << RecordOf(GLYF_TAG, glyf, out),
                                        RecordOf(LOCA_TAG, loca, between) >>
      /\ out' = Appended(between, loca)

\* tables_iter.clone().find(|t| t.tag == LOCA_TAG): the entries still to come.
LocasAnywhere == {j \in 1 .. Len(tables) : tables[j].tag = LOCA_TAG}   \* mutated form
LocasAhead == {j \in next + 1 .. Len(tables) : tables[j].tag = LOCA_TAG}
NextEntry  == tables[next + 1]                                         \* mutated form
NextLoca   == tables[CHOOSE j \in LocasAhead : \A k \in LocasAhead : j <= k]

AtEntry  == status = "writing" /\ next <= Len(tables)
AtGlyf   == AtEntry /\ tables[next].tag = GLYF_TAG
PairedUnchecked == LocasAhead # {}                           \* mutated form
Paired   == LocasAhead # {} /\ NextLoca.transformed = tables[next].transformed
AtHead   == AtEntry /\ tables[next].tag = HEAD_TAG
AtHmtx   == AtEntry /\ tables[next].tag = HMTX_TAG /\ tables[next].transformed
AtSimple == AtEntry /\ tables[next].tag \notin {GLYF_TAG, LOCA_TAG, HEAD_TAG} /\ ~AtHmtx

Advance   == next' = next + 1 /\ UNCHANGED <<tables, data, header_end, status>>
Return(s) == status' = s /\ UNCHANGED <<tables, data, header_end, next>>
KeepFont  == UNCHANGED <<out, ttf_tables>>
-----------------------------------------------------------------------------
(* One iteration of the loop, by the arm of the match it takes.            *)

TransformedGlyf ==
  /\ AtGlyf /\ Paired /\ tables[next].transformed /\ InData(tables[next])
  /\ \E g \in GlyfOutcomes : PushOutlines(g.glyf, g.loca)
  /\ Advance

GlyfDecodeFails ==
  /\ AtGlyf /\ Paired /\ tables[next].transformed /\ InData(tables[next])
  /\ \E s \in {"GlyfDecoderError", "glyf_panic"} : Return(s)
  /\ KeepFont

PlainGlyf ==
  /\ AtGlyf /\ Paired /\ ~tables[next].transformed
  /\ InData(tables[next]) /\ InData(NextLoca)
  /\ PushOutlines(Source(tables[next]), Source(NextLoca))
  /\ Advance

MissingLoca == AtGlyf /\ LocasAhead = {} /\ Return("MissingLocaTable") /\ KeepFont

TransformMismatch ==
  /\ AtGlyf /\ LocasAhead # {} /\ ~Paired
  /\ Return("GlyfLocaDifferentTransform") /\ KeepFont

\* A loca table was written with its glyf table. Mutated forms: it is written
\* once more, or not stepped over.
LocaAgain == /\ AtEntry /\ tables[next].tag = LOCA_TAG /\ InData(tables[next])
             /\ PushTable(LOCA_TAG, Source(tables[next])) /\ Advance
StuckAtLoca == AtEntry /\ tables[next].tag = LOCA_TAG /\ UNCHANGED vars
SkipLoca == AtEntry /\ tables[next].tag = LOCA_TAG /\ Advance /\ KeepFont

\* Mutated form: the checksum is that of the bytes before they are changed.
HeadChecksummedFirst ==
  /\ AtHead /\ InData(tables[next]) /\ ~HeadTruncated(Source(tables[next]))
  /\ ttf_tables' = Append(ttf_tables, RecordOf(HEAD_TAG, Source(tables[next]), out))
  /\ out' = Appended(out, set_checksum_adjustment(Source(tables[next]), 0))
  /\ Advance

HeadTable ==
  /\ AtHead /\ InData(tables[next]) /\ ~HeadTruncated(Source(tables[next]))
  /\ PushTable(HEAD_TAG, set_checksum_adjustment(Source(tables[next]), 0))
  /\ Advance

\* The bytes are in the buffer before their number is found too small.
TruncatedHead ==
  /\ AtHead /\ InData(tables[next]) /\ HeadTruncated(Source(tables[next]))
  /\ out' = out \o Source(tables[next])
  /\ Return("TruncatedHeadTable") /\ UNCHANGED ttf_tables

TransformedHmtx == AtHmtx /\ Return("Unsupported") /\ KeepFont

SimpleTable ==
  /\ AtSimple /\ InData(tables[next])
  /\ PushTable(tables[next].tag, Source(tables[next]))
  /\ Advance

\* Slicing the decompressed data out of its bounds.
SlicePanic ==
  /\ \/ (AtHead \/ AtSimple) /\ ~InData(tables[next])
     \/ AtGlyf /\ Paired /\ ~InData(tables[next])
     \/ AtGlyf /\ Paired /\ ~tables[next].transformed /\ ~InData(NextLoca)
  /\ Return("slice_panic") /\ KeepFont

\* assert_eq!(ttf_tables.len(), num_tables) and Ok(ttf_tables). Mutated form:
\* the assertion only asks for records enough to fill the header.
FinishAtMost ==
  /\ status = "writing" /\ next > Len(tables)
  /\ Return(IF Len(ttf_tables) <= Len(tables) THEN "ok" ELSE "count_panic")
  /\ KeepFont
Finish ==
  /\ status = "writing" /\ next > Len(tables)
  /\ Return(IF Len(ttf_tables) = Len(tables) THEN "ok" ELSE "count_panic")
  /\ KeepFont

Next == \/ TransformedGlyf \/ GlyfDecodeFails \/ PlainGlyf
        \/ MissingLoca \/ TransformMismatch \/ SkipLoca
        \/ HeadTable \/ TruncatedHead \/ TransformedHmtx \/ SimpleTable
        \/ SlicePanic \/ Finish

Spec     == Init /\ [][Next]_vars
FairSpec == Spec /\ WF_vars(Next)     \* a running call takes its next step
-----------------------------------------------------------------------------
(* What the writer gets right.                                             *)

Statuses == {"writing", "ok", "MissingLocaTable", "GlyfLocaDifferentTransform",
             "GlyfDecoderError", "TruncatedHeadTable", "Unsupported",
             "slice_panic", "count_panic", "glyf_panic"}

\* The variables have the types of the fields and locals they stand for.
TypeOK ==
  /\ tables \in Seq(Entry) /\ data \in Seq(Byte) /\ header_end \in Nat
  /\ out \in Seq(Byte) /\ ttf_tables \in Seq(Record)
  /\ next \in 1 .. Len(tables) + 1 /\ status \in Statuses

\* The casts to u32 have lost nothing: a font file is smaller than 4 GiB.
FitsU32 == Len(out) < U32

\* The bytes of the font a record describes.
Region(r) == Slice(out, r.offset, r.length)

\* Tables start on multiples of four behind the header, in the order of their
\* records, each at the first such place after its predecessor, and end inside
\* the buffer: no later table is written over an earlier one.
Layout == FitsU32 =>
  \A k \in DOMAIN ttf_tables :
    LET r == ttf_tables[k]
    IN  /\ r.offset % 4 = 0
        /\ r.offset + r.length <= Len(out)
        /\ r.offset = IF k = 1 THEN header_end
                      ELSE Padded(ttf_tables[k-1].offset + ttf_tables[k-1].length)

\* A record's checksum is that of the bytes found at its offset, after every
\* later push and padding as much as right after its own.
ChecksumsMatch == FitsU32 =>
  \A k \in DOMAIN ttf_tables :
    ttf_tables[k].checksum = calculate_checksum(Region(ttf_tables[k]))

\* Every loca entry directly follows its glyf entry (tables.rs:129-131: what
\* WOFF2 requires of collections).
Adjoining == \A i \in 1 .. Len(tables) :
  /\ tables[i].tag = GLYF_TAG => i < Len(tables) /\ tables[i+1].tag = LOCA_TAG
  /\ tables[i].tag = LOCA_TAG => i > 1 /\ tables[i-1].tag = GLYF_TAG

\* The contents an entry without a transform has in the font.
CopiedBytes(e) == IF e.tag = HEAD_TAG THEN set_checksum_adjustment(Source(e), 0)
                                      ELSE Source(e)

\* Record k has the tag of entry k of such a directory and describes its bytes,
\* so that a collection may use directory indices as record indices.
RecordsFollowDirectory == Adjoining /\ FitsU32 =>
  \A k \in DOMAIN ttf_tables :
    /\ k \in DOMAIN tables /\ ttf_tables[k].tag = tables[k].tag
    /\ tables[k].tag \notin {GLYF_TAG, LOCA_TAG} \/ ~tables[k].transformed
         => InData(tables[k]) /\ Region(ttf_tables[k]) = CopiedBytes(tables[k])

\* Other tables may stand between glyf and loca in a single font: as long as no
\* tag occurs twice, each copied entry still has a record with its tag and bytes.
NothingLost ==
  status = "ok" /\ FitsU32 /\ (\A i, j \in DOMAIN tables : tables[i].tag = tables[j].tag => i = j)
    => \A i \in DOMAIN tables : \E k \in DOMAIN ttf_tables :
         /\ ttf_tables[k].tag = tables[i].tag
         /\ tables[i].tag \notin {GLYF_TAG, LOCA_TAG} \/ ~tables[i].transformed
              => InData(tables[i]) /\ Region(ttf_tables[k]) = CopiedBytes(tables[i])

Tagged(tag) == {i \in 1 .. Len(tables) : tables[i].tag = tag}

\* The closing assertion holds exactly for directories with as many glyf as loca
\* entries, whatever their order and whatever lies between them.
CountDecidedByPairs == status \in {"ok", "count_panic"} =>
  (status = "ok" <=> Cardinality(Tagged(GLYF_TAG)) = Cardinality(Tagged(LOCA_TAG)))

\* A directory whose entries lie inside the data and whose loca entries adjoin
\* their glyf entries never panics the writer itself: unless decode_glyf_table
\* panics, it returns a font or an error.
NoPanicOnSoundInput ==
  Adjoining /\ (\A i \in DOMAIN tables : InData(tables[i]))
    => status \notin {"slice_panic", "count_panic"}

\* The call returns.
Returns == <>(status # "writing")

\* The writer implements FontAssembly: the tables assembled so far are what a
\* reader of the buffer finds where the records point.
Assembly == INSTANCE FontAssembly WITH
  assembled <- [k \in DOMAIN ttf_tables |->
                  [tag |-> ttf_tables[k].tag, bytes |-> Region(ttf_tables[k])]],
  outcome   <- IF status \in {"writing", "ok"} THEN status ELSE "failed"
ImplementsAssembly == Assembly!Spec

\* tables.rs:158 asserts one record per directory entry.
RecordCountAsserted == status # "count_panic"
=============================================================================
