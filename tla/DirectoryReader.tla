--------------------------- MODULE DirectoryReader ---------------------------
(***************************************************************************)
(* Woff2TableDirectory::from_buf (src/woff2/tables.rs) on bytes: for each  *)
(* table a byte of flags, perhaps a spelled tag, and one or two lengths.   *)
(* The lengths are read by BufExt's actions over the same variables.       *)
(*                                                                         *)
(* A byte of Radix values has two bits of transformation version above the *)
(* table reference, whose largest value announces a spelled tag.           *)
(***************************************************************************)
EXTENDS ByteBuffer

CONSTANTS Directories,    \* records [bytes, num_tables]: the calls made
          FourCC(_)       \* the tag four bytes spell

\* A byte has two bits above the table reference.
ASSUME VersionAssumption == Radix % 4 = 0

ASSUME DirectoryAssumption ==
  \A d \in Directories : d.bytes \in Seq(Byte) /\ d.num_tables \in Nat

VARIABLES
  checks,       \* whether the library was built with overflow checks
  directory,    \* the call
  tables,       \* the entries read
  src_offset,
  entry,        \* the partial entry in progress
  status,       \* what is read next, or how from_buf returned
  request, input, accum, num_bytes, dest, outcome     \* as in BufExt

lengths == <<request, input, accum, num_bytes, dest, outcome>>
vars    == <<checks, directory, tables, src_offset, entry, status, lengths>>

B == INSTANCE BufExt WITH Calls <- {}

NoEntry == [tag |-> "none", transformed |-> FALSE, orig_length |-> 0]

Init == /\ checks \in BOOLEAN /\ directory \in Directories
        /\ tables = << >> /\ src_offset = 0 /\ entry = NoEntry /\ status = "entry"
        /\ input = directory.bytes
        /\ request = [call |-> "none", input |-> input, num_bytes |-> 0]
        /\ accum = 0 /\ num_bytes = 0 /\ dest = << >> /\ outcome = "ok"

Return(s) == status' = s /\ UNCHANGED <<checks, directory, tables, src_offset, entry, lengths>>

\* A call of try_get_base_128 on what remains behind n bytes.
ReadLength(what, n) ==
  /\ status' = what /\ input' = After(input, n)
  /\ request' = [call |-> "base_128", input |-> input', num_bytes |-> 0]
  /\ accum' = 0 /\ outcome' = "running"
  /\ UNCHANGED <<checks, directory, num_bytes, dest>>
-----------------------------------------------------------------------------
KNOWN_TABLE_TAGS ==
  <<"cmap", "head", "hhea", "hmtx", "maxp", "name", "OS/2", "post", "cvt ", "fpgm", "glyf",
    "loca", "prep", "CFF ", "VORG", "EBDT", "EBLC", "gasp", "hdmx", "kern", "LTSH", "PCLT",
    "VDMX", "vhea", "vmtx", "BASE", "GDEF", "GPOS", "GSUB", "EBSC", "JSTF", "MATH", "CBDT",
    "CBLC", "COLR", "CPAL", "SVG ", "sbix", "acnt", "avar", "bdat", "bloc", "bsln", "cvar",
    "fdsc", "feat", "fmtx", "fvar", "gvar", "hsty", "just", "lcar", "mort", "morx", "opbd",
    "prop", "trak", "Zapf", "Silf", "Glat", "Gloc", "Feat", "Sill">>

Quarter == Radix \div 4      \* 0x40

Version(flags)   == flags \div Quarter
table_ref(flags) == flags % Quarter
Spells(flags)    == table_ref(flags) = Quarter - 1      \* 0x3f

TagLength(flags) == IF Spells(flags) THEN 5 ELSE 1      \* with the flags
Tag(bytes) == IF Spells(bytes[1]) THEN FourCC(SubSeq(bytes, 2, 5))
              ELSE KNOWN_TABLE_TAGS[table_ref(bytes[1]) + 1]

\* Mutated form: a spelled tag is not compared.
is_null_by_reference(bytes) ==
  Version(bytes[1]) = IF table_ref(bytes[1]) \in {10, 11} THEN 3 ELSE 0
is_null_transform(bytes) ==
  Version(bytes[1]) = IF Tag(bytes) \in {"glyf", "loca"} THEN 3 ELSE 0
-----------------------------------------------------------------------------
(* PartialTableDirectoryEntry::from_buf                                    *)

AtEntry     == status = "entry" /\ Len(tables) < directory.num_tables
TagComplete == input # << >> /\ Len(input) >= TagLength(input[1])

TagTruncated == AtEntry /\ ~TagComplete /\ Return("Truncated")

ReadTag ==
  /\ AtEntry /\ TagComplete
  /\ entry' = [tag |-> Tag(input), transformed |-> ~is_null_transform(input), orig_length |-> 0]
  /\ ReadLength("orig_length", TagLength(input[1]))
  /\ UNCHANGED <<tables, src_offset>>

InLength == status \in {"orig_length", "transform_length"}

LengthStep == /\ InLength /\ B!Base128
              /\ UNCHANGED <<checks, directory, tables, src_offset, entry, status>>

\* From<Base128Error>
LengthFails == /\ InLength /\ outcome \notin {"running", "ok"}
               /\ Return(IF outcome = "Truncated" THEN "Truncated" ELSE "InvalidNumeric")

OrigLengthRead ==
  /\ status = "orig_length" /\ outcome = "ok" /\ entry.transformed
  /\ entry' = [entry EXCEPT !.orig_length = accum]
  /\ ReadLength("transform_length", 0)
  /\ UNCHANGED <<tables, src_offset>>

\* The last length is accum: the transformed one if there is one.
LastLengthRead ==
  /\ outcome = "ok"
  /\ status = "transform_length" \/ (status = "orig_length" /\ ~entry.transformed)

CompleteEntry ==
  [transformed |-> entry.transformed, tag |-> entry.tag,
   dest_length |-> IF entry.transformed THEN entry.orig_length ELSE accum,
   src_length |-> accum, src_offset |-> src_offset]

\* Mutated form of the next: the next table starts behind this one as it will be written.
AddEntryUntransformed ==
  /\ LastLengthRead /\ ~(checks /\ src_offset + CompleteEntry.dest_length >= U32)
  /\ tables' = Append(tables, CompleteEntry)
  /\ src_offset' = (src_offset + CompleteEntry.dest_length) % U32
  /\ status' = "entry" /\ UNCHANGED <<checks, directory, entry, lengths>>
AddEntry ==
  /\ LastLengthRead /\ ~(checks /\ src_offset + accum >= U32)
  /\ tables' = Append(tables, CompleteEntry)
  /\ src_offset' = (src_offset + accum) % U32
  /\ status' = "entry" /\ UNCHANGED <<checks, directory, entry, lengths>>

OffsetOverflow == LastLengthRead /\ checks /\ src_offset + accum >= U32 /\ Return("panic")

Finish == status = "entry" /\ Len(tables) = directory.num_tables /\ Return("ok")

Next == \/ TagTruncated \/ ReadTag
        \/ LengthStep \/ LengthFails \/ OrigLengthRead
        \/ AddEntry \/ OffsetOverflow
        \/ Finish

Spec == Init /\ [][Next]_vars
-----------------------------------------------------------------------------
(* What the reader gets right.                                             *)

\* bytes are an entry by the rules of the format: each length in its one
\* encoding, the second present for what its flags transform and no other.
Encodes128(bytes) == /\ Len(bytes) \in 1 .. 5
                     /\ LET v == B!Spelled(bytes) IN v < U32 /\ B!Encoding128(v) = bytes

Transforms(bytes) == IF Tag(bytes) \in {"glyf", "loca"} THEN Version(bytes[1]) < 3
                     ELSE Version(bytes[1]) > 0

EncodesEntry(bytes) ==
  /\ bytes # << >> /\ Len(bytes) >= TagLength(bytes[1])
  /\ LET rest == After(bytes, TagLength(bytes[1]))
     IN  IF Transforms(bytes)
         THEN \E n \in 1 .. Len(rest) :
                Encodes128(SubSeq(rest, 1, n)) /\ Encodes128(After(rest, n))
         ELSE Encodes128(rest)

\* The bytes of an entry that was read, behind its flags and tag.
EncodedLengths(e) == B!Encoding128(e.dest_length)
                     \o IF e.transformed THEN B!Encoding128(e.src_length) ELSE << >>

\* Where the k-th entry ends in the bytes, if each is as long as its encoding.
EndOf[k \in 0 .. Len(tables)] ==
  IF k = 0 THEN 0
  ELSE EndOf[k-1] + TagLength(directory.bytes[EndOf[k-1] + 1]) + Len(EncodedLengths(tables[k]))

\* The length of the data of the first k tables, which lie one behind the other.
DataBefore[k \in 0 .. Len(tables)] ==
  IF k = 0 THEN 0 ELSE DataBefore[k-1] + tables[k].src_length

\* The bytes consumed are the encodings of the entries read, one after the other:
\* a spelled tag that is also a known one means the same table, and a reader in
\* step with the entries cannot take a length for flags. A table's data starts where
\* that of those before it ends, up to the wrap that overflow checks exclude.
ReadsEncodings == status \in {"entry", "ok"} =>
  /\ input = After(directory.bytes, EndOf[Len(tables)])
  /\ \A k \in DOMAIN tables :
       LET bytes == SubSeq(directory.bytes, EndOf[k-1] + 1, EndOf[k])
       IN  /\ EncodesEntry(bytes)
           /\ tables[k].tag = Tag(bytes) /\ tables[k].transformed = Transforms(bytes)
           /\ After(bytes, TagLength(bytes[1])) = EncodedLengths(tables[k])
           /\ ~tables[k].transformed => tables[k].src_length = tables[k].dest_length
           /\ tables[k].src_offset = DataBefore[k-1] % U32
           /\ checks => DataBefore[k] < U32

\* Where the reader fails, no entry starts; and where the bytes only end too early,
\* so that more of them would have made one, it says so.
RefusesNoEntry == status \in {"Truncated", "InvalidNumeric"} =>
  LET rest == After(directory.bytes, EndOf[Len(tables)])
  IN  /\ \A n \in 1 .. Len(rest) : ~EncodesEntry(SubSeq(rest, 1, n))
      /\ (\E n \in 1 .. 11 : EncodesEntry(rest \o [i \in 1 .. n |-> 1])) => status = "Truncated"
=============================================================================
