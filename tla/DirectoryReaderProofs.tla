------------------------ MODULE DirectoryReaderProofs ------------------------
(***************************************************************************)
(* DirectoryReader reads what a table directory encodes, for every buffer  *)
(* and every number of tables: the bytes consumed are the encodings of the *)
(* entries read, and where it fails no entry starts. What its loop over    *)
(* the bytes of a length returns comes from BufExtProofs.                  *)
(***************************************************************************)
EXTENDS DirectoryReader, ByteBufferProofs

Requests == [call : {"base_128"}, input : Seq(Byte), num_bytes : {0}]

BP == INSTANCE BufExtProofs WITH Calls <- Requests

LEMMA QuarterWidth == Quarter \in Nat /\ Quarter >= 1 /\ Radix = 4 * Quarter /\ Radix >= 4
BY RadixAssumption, VersionAssumption DEF Quarter

\* What BufExtProofs assumes of its constants.
LEMMA RequestAssumptions ==
  /\ BP!Byte = Byte /\ BP!U32 = U32 /\ BP!U16 = U16
  /\ Radix % 2 = 0 /\ Radix >= 4
  /\ \A c \in Requests : /\ c.call \in {"base_128", "255_u16", "copy"}
                         /\ c.input \in Seq(BP!Byte) /\ c.num_bytes \in Nat
BY QuarterWidth DEF Requests, BP!Byte, Byte, BP!U32, U32, BP!U16, U16

\* The instance that the module reads with and the one with the proofs.
LEMMA SameReads ==
  /\ B!Base128 <=> BP!Base128
  /\ \A b : B!Spelled(b) = BP!Spelled(b)
  /\ \A v : B!Encoding128(v) = BP!Encoding128(v)
  /\ \A b, n : BP!After(b, n) = After(b, n)
<1>1. B!Base128 <=> BP!Base128
  BY DEF B!Base128, BP!Base128, B!Base128Truncated, BP!Base128Truncated,
    B!Base128LeadingZero, BP!Base128LeadingZero, B!Base128Overflow, BP!Base128Overflow,
    B!Base128Byte, BP!Base128Byte, B!MoreThan5Bytes, BP!MoreThan5Bytes,
    B!AtByte, BP!AtByte, B!InBase128, BP!InBase128, B!InCall, BP!InCall,
    B!Consumed, BP!Consumed, B!Fail, BP!Fail, B!Advance, BP!Advance,
    B!LeadingZero, BP!LeadingZero, B!Overflow, BP!Overflow, B!Shifted, BP!Shifted,
    B!Half, BP!Half, B!U32, BP!U32, B!U16, BP!U16, B!After, BP!After
<1>2. \A b : B!Spelled(b) = BP!Spelled(b)
  BY DEF B!Spelled, BP!Spelled, B!Half, BP!Half
<1>3. \A v : B!Encoding128(v) = BP!Encoding128(v)
  BY DEF B!Encoding128, BP!Encoding128, B!Groups128, BP!Groups128, B!Weight, BP!Weight,
    B!Half, BP!Half
<1>4. \A b, n : BP!After(b, n) = After(b, n)
  BY DEF BP!After, After
<1> QED BY <1>1, <1>2, <1>3, <1>4
-----------------------------------------------------------------------------
(* Codes and entries at the front of a buffer.                             *)

LEMMA FrontCode ==
  ASSUME NEW b \in Seq(Byte), NEW n \in 1 .. Len(b), Encodes128(SubSeq(b, 1, n))
  PROVE  BP!IsCode(b, n)
<1>1. n \in 0 .. Len(b) /\ Len(b) \in Nat
  BY LenProperties
<1>2. Len(SubSeq(b, 1, n)) = n
  BY <1>1, FrontProperties
<1>3. n \in 1 .. 5 /\ BP!Spelled(SubSeq(b, 1, n)) < BP!U32
      /\ BP!Encoding128(BP!Spelled(SubSeq(b, 1, n))) = SubSeq(b, 1, n)
  BY <1>2, SameReads, RequestAssumptions DEF Encodes128
<1>4. n <= Len(b)
  BY <1>1
<1> QED BY <1>3, <1>4, BP!CodeOfEncoding, RadixAssumption, RequestAssumptions

LEMMA WholeCode ==
  ASSUME NEW b \in Seq(Byte), Encodes128(b)
  PROVE  BP!IsCode(b, Len(b))
<1>1. Len(b) \in 1 .. Len(b)
  BY DEF Encodes128
<1>2. SubSeq(b, 1, Len(b)) = b
  BY SubSeqFull
<1> QED BY <1>1, <1>2, FrontCode

LEMMA TagLengths == \A flags : TagLength(flags) \in {1, 5}
BY DEF TagLength

\* s goes on where t ends: it starts with the same tag, and what is behind n bytes
\* of it goes on as well.
LEMMA TagExtends ==
  ASSUME NEW s, NEW t \in Seq(Byte), BP!Extends(s, t), t # << >>, TagLength(t[1]) <= Len(t)
  PROVE  /\ s \in Seq(Byte) /\ s # << >> /\ s[1] = t[1] /\ TagLength(s[1]) <= Len(s)
         /\ Tag(s) = Tag(t) /\ Transforms(s) = Transforms(t)
<1>1. /\ s \in Seq(Byte) /\ Len(t) <= Len(s) /\ Len(t) \in Nat /\ Len(s) \in Nat
      /\ \A i \in 1 .. Len(t) : s[i] = t[i]
  BY RequestAssumptions, LenProperties DEF BP!Extends
<1>2. Len(t) >= 1
  BY <1>1, EmptySeq
<1>3. s # << >> /\ s[1] = t[1]
  BY <1>1, <1>2, EmptySeq
<1>4. ASSUME TagLength(t[1]) = 5 PROVE SubSeq(s, 2, 5) = SubSeq(t, 2, 5)
  <2>1. Len(t) >= 5 /\ Len(s) >= 5
    BY <1>1, <1>4
  <2>2. /\ SubSeq(s, 2, 5) \in Seq(Byte) /\ Len(SubSeq(s, 2, 5)) = 4
        /\ \A i \in 1 .. 4 : SubSeq(s, 2, 5)[i] = s[i + 1]
    BY <1>1, <2>1, SubSeqProperties
  <2>3. /\ SubSeq(t, 2, 5) \in Seq(Byte) /\ Len(SubSeq(t, 2, 5)) = 4
        /\ \A i \in 1 .. 4 : SubSeq(t, 2, 5)[i] = t[i + 1]
    BY <1>1, <2>1, SubSeqProperties
  <2>4. \A i \in 1 .. 4 : SubSeq(s, 2, 5)[i] = SubSeq(t, 2, 5)[i]
    BY <1>1, <2>1, <2>2, <2>3
  <2> QED BY <2>2, <2>3, <2>4, SeqEqual
<1>5. Tag(s) = Tag(t)
  BY <1>3, <1>4 DEF Tag, TagLength
<1>6. Transforms(s) = Transforms(t)
  BY <1>3, <1>5 DEF Transforms
<1>7. TagLength(s[1]) <= Len(s)
  BY <1>1, <1>3, TagLengths
<1> QED BY <1>1, <1>3, <1>5, <1>6, <1>7

LEMMA AfterExtends ==
  ASSUME NEW s, NEW t \in Seq(Byte), BP!Extends(s, t), NEW n \in 0 .. Len(t)
  PROVE  BP!Extends(After(s, n), After(t, n))
<1>1. /\ s \in Seq(Byte) /\ Len(t) <= Len(s) /\ Len(t) \in Nat /\ Len(s) \in Nat
      /\ n \in 0 .. Len(s) /\ \A i \in 1 .. Len(t) : s[i] = t[i]
  BY RequestAssumptions, LenProperties DEF BP!Extends
<1>2. /\ After(s, n) \in Seq(Byte) /\ Len(After(s, n)) = Len(s) - n
      /\ \A i \in 1 .. Len(s) - n : After(s, n)[i] = s[n + i]
  BY <1>1, AfterProperties
<1>3. /\ Len(After(t, n)) = Len(t) - n
      /\ \A i \in 1 .. Len(t) - n : After(t, n)[i] = t[n + i]
  BY AfterProperties
<1>4. Len(After(t, n)) <= Len(After(s, n))
  BY <1>1, <1>2, <1>3
<1>5. ASSUME NEW i \in 1 .. Len(After(t, n)) PROVE After(s, n)[i] = After(t, n)[i]
  <2>1. i \in 1 .. Len(t) - n /\ i \in 1 .. Len(s) - n /\ n + i \in 1 .. Len(t)
    BY <1>1, <1>3
  <2> QED BY <1>1, <1>2, <1>3, <2>1
<1> QED BY <1>2, <1>4, <1>5, RequestAssumptions DEF BP!Extends

\* A table entry starts s, by the ends of its lengths.
Behind(s) == After(s, TagLength(s[1]))
HasEntry(s) ==
  /\ s # << >> /\ TagLength(s[1]) <= Len(s)
  /\ \E m : /\ BP!IsCode(Behind(s), m)
            /\ Transforms(s) => \E n : BP!IsCode(After(Behind(s), m), n)

LEMMA BehindType ==
  ASSUME NEW s \in Seq(Byte), s # << >>, TagLength(s[1]) <= Len(s)
  PROVE  /\ Behind(s) \in Seq(Byte) /\ Len(Behind(s)) = Len(s) - TagLength(s[1])
         /\ TagLength(s[1]) \in 0 .. Len(s)
<1>1. TagLength(s[1]) \in 0 .. Len(s)
  BY LenProperties, TagLengths
<1> QED BY <1>1, AfterProperties DEF Behind

LEMMA EncodedHasEntry ==
  ASSUME NEW e \in Seq(Byte), EncodesEntry(e)
  PROVE  HasEntry(e)
<1>1. e # << >> /\ TagLength(e[1]) <= Len(e)
  BY LenProperties, TagLengths DEF EncodesEntry
<1>2. Behind(e) \in Seq(Byte) /\ Len(Behind(e)) \in Nat
  BY <1>1, BehindType, LenProperties
<1>3. CASE Transforms(e)
  <2>1. PICK n \in 1 .. Len(Behind(e)) :
          Encodes128(SubSeq(Behind(e), 1, n)) /\ Encodes128(After(Behind(e), n))
    BY <1>3 DEF EncodesEntry, Behind
  <2>2. BP!IsCode(Behind(e), n)
    BY <1>2, <2>1, FrontCode
  <2>3. After(Behind(e), n) \in Seq(Byte)
    BY <1>2, AfterProperties
  <2> QED BY <1>1, <2>1, <2>2, <2>3, WholeCode DEF HasEntry
<1>4. CASE ~Transforms(e)
  <2>1. Encodes128(Behind(e))
    BY <1>4 DEF EncodesEntry, Behind
  <2> QED BY <1>1, <1>2, <1>4, <2>1, WholeCode DEF HasEntry
<1> QED BY <1>3, <1>4

LEMMA EntryExtends ==
  ASSUME NEW t \in Seq(Byte), NEW s, BP!Extends(s, t), HasEntry(t)
  PROVE  HasEntry(s)
<1>1. t # << >> /\ TagLength(t[1]) <= Len(t)
  BY DEF HasEntry
<1>2. /\ s \in Seq(Byte) /\ s # << >> /\ s[1] = t[1] /\ TagLength(s[1]) <= Len(s)
      /\ Transforms(s) = Transforms(t)
  BY <1>1, TagExtends
<1>3. BP!Extends(Behind(s), Behind(t)) /\ Behind(t) \in Seq(Byte)
  BY <1>1, <1>2, BehindType, AfterExtends DEF Behind
<1>4. PICK m : BP!IsCode(Behind(t), m) /\ (Transforms(t) => \E n : BP!IsCode(After(Behind(t), m), n))
  BY DEF HasEntry
<1>5. BP!IsCode(Behind(s), m)
  BY <1>3, <1>4, BP!CodeExtends, RadixAssumption, RequestAssumptions
<1>6. m \in 0 .. Len(Behind(t))
  BY <1>3, <1>4, LenProperties DEF BP!IsCode
<1>7. After(Behind(t), m) \in Seq(Byte) /\ BP!Extends(After(Behind(s), m), After(Behind(t), m))
  BY <1>3, <1>6, AfterProperties, AfterExtends
<1>8. ASSUME Transforms(t) PROVE \E n : BP!IsCode(After(Behind(s), m), n)
  <2>1. PICK n : BP!IsCode(After(Behind(t), m), n)
    BY <1>4, <1>8
  <2>2. BP!IsCode(After(Behind(s), m), n)
    BY <1>7, <2>1, BP!CodeExtends, RadixAssumption, RequestAssumptions
  <2> QED BY <2>2
<1> QED BY <1>2, <1>5, <1>8 DEF HasEntry

\* Where a length is refused no entry starts: the lengths before it end in one place.
LEMMA NoFirstLength ==
  ASSUME NEW s, HasEntry(s)
  PROVE  ~BP!NoEncoding(Behind(s))
BY BP!NoCode, RadixAssumption, RequestAssumptions DEF HasEntry

LEMMA NoSecondLength ==
  ASSUME NEW s \in Seq(Byte), HasEntry(s), Transforms(s), NEW m, BP!IsCode(Behind(s), m)
  PROVE  ~BP!NoEncoding(After(Behind(s), m))
<1>1. PICK k : BP!IsCode(Behind(s), k) /\ \E n : BP!IsCode(After(Behind(s), k), n)
  BY DEF HasEntry
<1>2. Behind(s) \in Seq(Byte)
  BY BehindType DEF HasEntry
<1>3. k = m
  BY <1>1, <1>2, BP!CodeUnique, RadixAssumption, RequestAssumptions
<1> QED BY <1>1, <1>3, BP!NoCode, RadixAssumption, RequestAssumptions
-----------------------------------------------------------------------------
(* Where the entries end: EndOf, a recursive function of the state.        *)

Lengths  == {v \in 0 .. U32 - 1 : B!Encoding128(v) \in Seq(Byte)}
EntrySet == [transformed : BOOLEAN, tag : {Tag(b) : b \in Seq(Byte)}, dest_length : Lengths,
             src_length : Lengths, src_offset : Nat]

Ends(f, b, ts) ==
  f = [k \in 0 .. Len(ts) |->
         IF k = 0 THEN 0 ELSE f[k-1] + TagLength(b[f[k-1] + 1]) + Len(EncodedLengths(ts[k]))]
EndsOf(b, ts) == CHOOSE f : Ends(f, b, ts)

LEMMA EndOfState == EndOf = EndsOf(directory.bytes, tables)
BY DEF EndOf, EndsOf, Ends

LEMMA EncodedType ==
  ASSUME NEW e \in EntrySet
  PROVE  EncodedLengths(e) \in Seq(Byte) /\ Len(EncodedLengths(e)) \in Nat
<1>1. B!Encoding128(e.dest_length) \in Seq(Byte) /\ B!Encoding128(e.src_length) \in Seq(Byte)
  BY DEF EntrySet, Lengths
<1>2. EncodedLengths(e) \in Seq(Byte)
  <2>1. CASE e.transformed
    BY <1>1, <2>1, ConcatProperties DEF EncodedLengths
  <2>2. CASE ~e.transformed
    <3>1. << >> \in Seq(Byte)
      BY EmptySeq
    <3> QED BY <1>1, <2>2, <3>1, ConcatProperties DEF EncodedLengths
  <2> QED BY <2>1, <2>2
<1> QED BY <1>2, LenProperties

LEMMA EndsExist ==
  ASSUME NEW b, NEW ts \in Seq(EntrySet)
  PROVE  Ends(EndsOf(b, ts), b, ts)
<1> DEFINE size(i) == IF i \in 1 .. Len(ts) THEN Len(EncodedLengths(ts[i])) ELSE 0
           next(v, i) == v + TagLength(b[v + 1]) + size(i)
           step == [p \in Nat \X Nat |-> next(p[1], p[2])]
<1>1. Len(ts) \in Nat
  BY LenProperties
<1>2. \A i \in Nat : size(i) \in Nat
  <2>1. ASSUME NEW i \in 1 .. Len(ts) PROVE Len(EncodedLengths(ts[i])) \in Nat
    BY ElementOfSeq, EncodedType
  <2> QED BY <2>1
<1> HIDE DEF size
<1>3. \A v, i \in Nat : next(v, i) \in Nat
  <2> TAKE v, i \in Nat
  <2>1. TagLength(b[v + 1]) \in {1, 5}
    BY TagLengths
  <2>2. size(i) \in Nat
    BY <1>2
  <2> QED BY <2>1, <2>2
<1> HIDE DEF next
<1>4. step \in [Nat \X Nat -> Nat]
  BY <1>3
<1>5. \A v, i \in Nat : step[<<v, i>>] = next(v, i)
  OBVIOUS
<1> HIDE DEF step
<1>6. PICK f : Iterates(f, Nat, 0, step)
  BY <1>4, Recursion
<1>7. f \in [Nat -> Nat] /\ f[0] = 0 /\ \A n \in Nat : f[n+1] = step[<<f[n], n+1>>]
  BY <1>6 DEF Iterates
<1> DEFINE g == [k \in 0 .. Len(ts) |-> f[k]]
<1>8. ASSUME NEW k \in 0 .. Len(ts), k # 0
      PROVE  f[k] = g[k-1] + TagLength(b[g[k-1] + 1]) + Len(EncodedLengths(ts[k]))
  <2>1. k - 1 \in Nat /\ (k - 1) + 1 = k /\ k \in 1 .. Len(ts) /\ k - 1 \in 0 .. Len(ts) /\ k \in Nat
    BY <1>1, <1>8
  <2>2. f[k] = step[<<f[k-1], k>>] /\ f[k-1] \in Nat
    BY <1>7, <2>1
  <2>3. f[k] = next(f[k-1], k)
    BY <1>5, <2>1, <2>2
  <2>4. g[k-1] = f[k-1]
    BY <2>1
  <2> QED BY <2>1, <2>3, <2>4 DEF next, size
<1>9. g = [k \in 0 .. Len(ts) |->
             IF k = 0 THEN 0 ELSE g[k-1] + TagLength(b[g[k-1] + 1]) + Len(EncodedLengths(ts[k]))]
  BY <1>7, <1>8
<1>10. \E h : Ends(h, b, ts)
  <2> HIDE DEF g
  <2> QED BY <1>9 DEF Ends
<1> QED BY <1>10 DEF EndsOf

LEMMA EndsNext ==
  ASSUME NEW b, NEW ts \in Seq(EntrySet)
  PROVE  /\ EndsOf(b, ts)[0] = 0
         /\ \A k \in 1 .. Len(ts) : EndsOf(b, ts)[k] =
              EndsOf(b, ts)[k-1] + TagLength(b[EndsOf(b, ts)[k-1] + 1]) + Len(EncodedLengths(ts[k]))
<1> DEFINE f == EndsOf(b, ts)
<1>1. Ends(f, b, ts) /\ Len(ts) \in Nat
  BY EndsExist, LenProperties
<1> HIDE DEF f
<1>2. f[0] = 0
  BY <1>1 DEF Ends
<1>3. ASSUME NEW k \in 1 .. Len(ts)
      PROVE  f[k] = f[k-1] + TagLength(b[f[k-1] + 1]) + Len(EncodedLengths(ts[k]))
  <2>1. k \in 0 .. Len(ts) /\ k # 0
    BY <1>1
  <2> QED BY <1>1, <2>1 DEF Ends
<1> QED BY <1>2, <1>3 DEF f

\* A further entry moves no end.
LEMMA EndsAgree ==
  ASSUME NEW b, NEW ts \in Seq(EntrySet), NEW us \in Seq(EntrySet), Len(ts) <= Len(us),
         \A k \in 1 .. Len(ts) : us[k] = ts[k]
  PROVE  \A k \in 0 .. Len(ts) : EndsOf(b, us)[k] = EndsOf(b, ts)[k]
<1> DEFINE f == EndsOf(b, ts)
           g == EndsOf(b, us)
           T == {k \in 0 .. Len(ts) : g[k] # f[k]}
<1> SUFFICES ASSUME T # {} PROVE FALSE
  OBVIOUS
<1>1. Len(ts) \in Nat /\ Len(us) \in Nat /\ T \subseteq Nat
  BY LenProperties
<1>2. PICK m \in T : \A k \in T : m <= k
  BY <1>1, LeastNumber
<1>3. f[0] = 0 /\ g[0] = 0
  BY EndsNext
<1>4. m \in 1 .. Len(ts) /\ m \in 1 .. Len(us) /\ m - 1 \in 0 .. Len(ts)
  BY <1>1, <1>2, <1>3
<1>5. g[m-1] = f[m-1]
  <2>1. m - 1 \notin T
    <3> HIDE DEF T
    <3> QED BY <1>1, <1>2, <1>4
  <2> QED BY <1>4, <2>1
<1>6. /\ f[m] = f[m-1] + TagLength(b[f[m-1] + 1]) + Len(EncodedLengths(ts[m]))
      /\ g[m] = g[m-1] + TagLength(b[g[m-1] + 1]) + Len(EncodedLengths(us[m]))
  BY <1>4, EndsNext
<1>7. g[m] = f[m]
  <2> HIDE DEF f, g
  <2> QED BY <1>4, <1>5, <1>6
<1> QED BY <1>2, <1>7
-----------------------------------------------------------------------------
(* The invariant.                                                          *)

Bytes == directory.bytes
Read  == EndsOf(Bytes, tables)[Len(tables)]
Rest  == After(Bytes, Read)

EntryBytes(b, ts, k) == SubSeq(b, EndsOf(b, ts)[k-1] + 1, EndsOf(b, ts)[k])

\* What ReadsEncodings says of an entry.
IsRead(e, bytes) ==
  /\ EncodesEntry(bytes)
  /\ e.tag = Tag(bytes) /\ e.transformed = Transforms(bytes)
  /\ After(bytes, TagLength(bytes[1])) = EncodedLengths(e)
  /\ ~e.transformed => e.src_length = e.dest_length

TypeInv == /\ checks \in BOOLEAN /\ directory \in Directories
           /\ tables \in Seq(EntrySet) /\ src_offset \in Nat /\ dest = << >> /\ num_bytes = 0

TablesInv ==
  /\ \A k \in 0 .. Len(tables) : EndsOf(Bytes, tables)[k] \in 0 .. Len(Bytes)
  /\ \A k \in 1 .. Len(tables) : IsRead(tables[k], EntryBytes(Bytes, tables, k))

\* Between two entries, the reader is where the next one starts; inside one, its tag
\* has been read, and its first length when it is at the second.
EntryInv == status \in {"entry", "ok"} => input = Rest

First == B!Encoding128(entry.orig_length)
LengthInv == InLength =>
  /\ BP!TypeInv /\ BP!Inv128 /\ request.call = "base_128"
  /\ Rest # << >> /\ TagLength(Rest[1]) <= Len(Rest)
  /\ entry = [tag |-> Tag(Rest), transformed |-> Transforms(Rest),
              orig_length |-> entry.orig_length]
  /\ status = "orig_length" => request.input = Behind(Rest)
  /\ status = "transform_length" =>
       /\ Transforms(Rest) /\ entry.orig_length \in Lengths
       /\ Len(First) \in 1 .. 5 /\ Len(First) <= Len(Behind(Rest))
       /\ SubSeq(Behind(Rest), 1, Len(First)) = First /\ Encodes128(First)
       /\ request.input = After(Behind(Rest), Len(First))

\* Where the reader has failed no entry starts, and unless the bytes are missing no
\* continuation of them has one.
RefusedInv ==
  /\ status \in {"Truncated", "InvalidNumeric"} => ~HasEntry(Rest)
  /\ status = "InvalidNumeric" => \A s : BP!Extends(s, Rest) => ~HasEntry(s)

\* An entry's data starts behind that of the entry before it.
Behind32(ts, k) == IF k = 0 THEN 0 ELSE (ts[k].src_offset + ts[k].src_length) % U32

OffsetsInv ==
  /\ src_offset = Behind32(tables, Len(tables))
  /\ \A k \in 1 .. Len(tables) :
       /\ tables[k].src_offset = Behind32(tables, k - 1)
       /\ checks => tables[k].src_offset + tables[k].src_length < U32

Inv == TypeInv /\ TablesInv /\ OffsetsInv /\ EntryInv /\ LengthInv /\ RefusedInv
-----------------------------------------------------------------------------
(* Where the reader is in the bytes.                                       *)

LEMMA PlaceType ==
  ASSUME TypeInv, TablesInv
  PROVE  /\ Bytes \in Seq(Byte) /\ Len(Bytes) \in Nat /\ Read \in 0 .. Len(Bytes)
         /\ Rest \in Seq(Byte) /\ Len(Rest) = Len(Bytes) - Read /\ Len(tables) \in Nat
         /\ \A i \in 1 .. Len(Rest) : Rest[i] = Bytes[Read + i]
<1>1. Bytes \in Seq(Byte)
  BY DirectoryAssumption DEF TypeInv, Bytes
<1>2. Len(Bytes) \in Nat /\ Len(tables) \in Nat
  BY <1>1, LenProperties DEF TypeInv
<1>3. Read \in 0 .. Len(Bytes)
  BY <1>2 DEF TablesInv, Read
<1>4. /\ Rest \in Seq(Byte) /\ Len(Rest) = Len(Bytes) - Read
      /\ \A i \in 1 .. Len(Bytes) - Read : Rest[i] = Bytes[Read + i]
  BY <1>1, <1>3, AfterProperties DEF Rest
<1> QED BY <1>1, <1>2, <1>3, <1>4

LEMMA PlaceKept ==
  ASSUME UNCHANGED <<directory, tables>>
  PROVE  /\ Bytes' = Bytes /\ Read' = Read /\ Rest' = Rest
         /\ TablesInv => TablesInv'
         /\ UNCHANGED <<checks, src_offset>> /\ OffsetsInv => OffsetsInv'
<1>1. Bytes' = Bytes
  BY DEF Bytes
<1>2. Read' = Read
  BY <1>1 DEF Read
<1>3. Rest' = Rest
  BY <1>1, <1>2 DEF Rest
<1>4. ASSUME TablesInv PROVE TablesInv'
  BY <1>1, <1>4 DEF TablesInv
<1>5. ASSUME UNCHANGED <<checks, src_offset>>, OffsetsInv PROVE OffsetsInv'
  BY <1>5 DEF OffsetsInv, Behind32
<1> QED BY <1>1, <1>2, <1>3, <1>4, <1>5

\* A call of try_get_base_128 starts as BufExt's Init says.
LEMMA StartInv == BP!Init => BP!TypeInv /\ BP!Inv128
BY BP!InitTypeInv, BP!InitInv128, RadixAssumption, RequestAssumptions

LEMMA StartInvNext == BP!Init' => BP!TypeInv' /\ BP!Inv128'
<1>1. BP!Init' => (BP!TypeInv /\ BP!Inv128)'
  BY StartInv, PTL
<1> QED BY <1>1

LEMMA LengthStarts ==
  ASSUME TypeInv, input \in Seq(Byte), NEW n \in 0 .. Len(input), NEW what, ReadLength(what, n)
  PROVE  /\ BP!TypeInv' /\ BP!Inv128' /\ request'.call = "base_128"
         /\ request'.input = After(input, n) /\ status' = what
<1>1. /\ input' = After(input, n) /\ accum' = 0 /\ outcome' = "running"
      /\ request' = [call |-> "base_128", input |-> input', num_bytes |-> 0]
      /\ num_bytes' = 0 /\ dest' = << >> /\ status' = what
  BY DEF ReadLength, TypeInv
<1>2. input' \in Seq(Byte)
  BY <1>1, AfterProperties
<1>3. /\ request' \in Requests /\ request'.input = input' /\ request'.num_bytes = 0
      /\ request'.call = "base_128"
  BY <1>1, <1>2 DEF Requests
<1>4. BP!Init'
  BY <1>1, <1>3 DEF BP!Init
<1> QED BY <1>1, <1>3, <1>4, StartInvNext

\* The state of a length read that was accepted.
LEMMA LengthAccepted ==
  ASSUME InLength, LengthInv, outcome = "ok"
  PROVE  \E m \in 1 .. 5 :
           /\ request.input \in Seq(Byte) /\ m <= Len(request.input)
           /\ accum \in Lengths /\ B!Encoding128(accum) = SubSeq(request.input, 1, m)
           /\ Len(B!Encoding128(accum)) = m /\ Encodes128(SubSeq(request.input, 1, m))
           /\ input = After(request.input, m)
<1> DEFINE m == BP!Consumed
<1>1. BP!TypeInv /\ BP!Inv128 /\ request.call = "base_128"
  BY DEF LengthInv
<1>2. /\ m \in 1 .. 5 /\ m <= Len(request.input) /\ accum \in 0 .. U32 - 1
      /\ BP!Front(m) = BP!Encoding128(accum) /\ BP!Spelled(BP!Front(m)) = accum
  BY <1>1, BP!AcceptedIsEncoding, RadixAssumption, RequestAssumptions
<1>3. request.input \in Seq(Byte) /\ input = After(request.input, m)
  BY <1>1, SameReads DEF BP!TypeInv, Requests
<1>4. B!Encoding128(accum) = SubSeq(request.input, 1, m)
      /\ B!Spelled(SubSeq(request.input, 1, m)) = accum
  BY <1>2, SameReads DEF BP!Front
<1>5. m \in 0 .. Len(request.input)
  BY <1>2, <1>3, LenProperties
<1>6. SubSeq(request.input, 1, m) \in Seq(Byte) /\ Len(SubSeq(request.input, 1, m)) = m
  BY <1>3, <1>5, FrontProperties
<1>7. accum \in Lengths
  BY <1>2, <1>4, <1>6 DEF Lengths
<1>8. Encodes128(SubSeq(request.input, 1, m))
  BY <1>2, <1>4, <1>6, WidthType DEF Encodes128
<1> QED BY <1>2, <1>3, <1>4, <1>6, <1>7, <1>8

\* The code's test of a transformation and the format's.
LEMMA TransformsNotNull ==
  ASSUME NEW b \in Seq(Byte), b # << >>
  PROVE  (~is_null_transform(b)) = Transforms(b)
<1>1. b[1] \in 0 .. 4 * Quarter - 1 /\ Quarter \in Nat /\ Quarter >= 1
  <2>1. Len(b) \in Nat /\ Len(b) # 0
    BY EmptySeq, LenProperties
  <2>2. b[1] \in Byte
    BY <2>1, ElementOfSeq
  <2> QED BY <2>2, QuarterWidth DEF Byte
<1>2. \A q \in 0 .. 3, r \in 0 .. Quarter - 1 : (q * Quarter + r) \div Quarter = q
  BY <1>1, QuotientAndRest
<1>3. Version(b[1]) \in 0 .. 3
  <2>1. CASE b[1] < Quarter
    <3>1. b[1] = 0 * Quarter + b[1] /\ b[1] \in 0 .. Quarter - 1
      BY <1>1, <2>1
    <3> QED BY <1>2, <3>1 DEF Version
  <2>2. CASE b[1] >= Quarter /\ b[1] < 2 * Quarter
    <3>1. b[1] = 1 * Quarter + (b[1] - Quarter) /\ b[1] - Quarter \in 0 .. Quarter - 1
      BY <1>1, <2>2
    <3> QED BY <1>2, <3>1 DEF Version
  <2>3. CASE b[1] >= 2 * Quarter /\ b[1] < 3 * Quarter
    <3>1. b[1] = 2 * Quarter + (b[1] - 2 * Quarter) /\ b[1] - 2 * Quarter \in 0 .. Quarter - 1
      BY <1>1, <2>3
    <3> QED BY <1>2, <3>1 DEF Version
  <2>4. CASE b[1] >= 3 * Quarter
    <3>1. b[1] = 3 * Quarter + (b[1] - 3 * Quarter) /\ b[1] - 3 * Quarter \in 0 .. Quarter - 1
      BY <1>1, <2>4
    <3> QED BY <1>2, <3>1 DEF Version
  <2> QED BY <1>1, <2>1, <2>2, <2>3, <2>4
<1>4. CASE Tag(b) \in {"glyf", "loca"}
  BY <1>3, <1>4 DEF is_null_transform, Transforms
<1>5. CASE Tag(b) \notin {"glyf", "loca"}
  BY <1>3, <1>5 DEF is_null_transform, Transforms
<1> QED BY <1>4, <1>5
-----------------------------------------------------------------------------
(* The bytes of the entry that ends.                                       *)

LEMMA SliceBehind ==
  ASSUME NEW b \in Seq(Byte), NEW m \in 0 .. Len(b), NEW n \in 0 .. Len(b) - m
  PROVE  /\ SubSeq(b, m + 1, m + n) = SubSeq(After(b, m), 1, n)
         /\ After(SubSeq(b, 1, m + n), m) = SubSeq(After(b, m), 1, n)
         /\ SubSeq(SubSeq(b, 1, m + n), 1, m) = SubSeq(b, 1, m)
<1> DEFINE front == SubSeq(b, 1, m + n)
           s == SubSeq(After(b, m), 1, n)
           t == SubSeq(b, m + 1, m + n)
           u == After(front, m)
           v == SubSeq(front, 1, m)
           w == SubSeq(b, 1, m)
<1>1. Len(b) \in Nat /\ m + n \in 0 .. Len(b) /\ m \in 0 .. m + n
  BY LenProperties
<1>2. After(b, m) \in Seq(Byte) /\ Len(After(b, m)) = Len(b) - m
      /\ \A i \in 1 .. Len(b) - m : After(b, m)[i] = b[m + i]
  BY AfterProperties
<1>3. s \in Seq(Byte) /\ Len(s) = n /\ \A i \in 1 .. n : s[i] = b[m + i]
  <2>1. PICK rest \in Seq(Byte) : /\ rest = After(b, m) /\ Len(rest) = Len(b) - m
                                 /\ \A i \in 1 .. Len(b) - m : rest[i] = b[m + i]
    BY <1>2
  <2>2. n \in 0 .. Len(rest)
    BY <1>1, <2>1
  <2>3. /\ SubSeq(rest, 1, n) \in Seq(Byte) /\ Len(SubSeq(rest, 1, n)) = n
        /\ \A i \in 1 .. n : SubSeq(rest, 1, n)[i] = rest[i]
    BY <2>2, FrontProperties
  <2>4. \A i \in 1 .. n : i \in 1 .. Len(b) - m
    BY <1>1
  <2> QED BY <2>1, <2>3, <2>4
<1>4. t \in Seq(Byte) /\ Len(t) = n /\ \A i \in 1 .. n : t[i] = b[m + i]
  <2>1. \A i \in m + 1 .. m + n : b[i] \in Byte
    BY <1>1, ElementOfSeq
  <2>2. t \in Seq(Byte) /\ Len(t) = n
    <3>1. CASE n = 0
      BY <1>1, <3>1, SubSeqProperties, EmptySeq
    <3>2. CASE n # 0
      BY <1>1, <3>2, SubSeqProperties
    <3> QED BY <3>1, <3>2
  <2>3. ASSUME NEW i \in 1 .. n PROVE t[i] = b[m + i]
    <3>1. m + 1 \in 1 .. Len(b) + 1 /\ m + n \in m .. Len(b)
      BY <1>1
    <3> QED BY <1>1, <3>1, SubSeqProperties
  <2> QED BY <2>2, <2>3
<1>5. front \in Seq(Byte) /\ Len(front) = m + n /\ \A i \in 1 .. m + n : front[i] = b[i]
  BY <1>1, FrontProperties
<1>6. u \in Seq(Byte) /\ Len(u) = n /\ \A i \in 1 .. n : u[i] = b[m + i]
  <2> HIDE DEF front
  <2>1. m \in 0 .. Len(front) /\ Len(front) - m = n
    BY <1>1, <1>5
  <2>2. u \in Seq(Byte) /\ Len(u) = n /\ \A i \in 1 .. n : u[i] = front[m + i]
    BY <1>5, <2>1, AfterProperties
  <2>3. \A i \in 1 .. n : m + i \in 1 .. m + n
    BY <1>1
  <2> QED BY <1>5, <2>2, <2>3
<1>7. v \in Seq(Byte) /\ Len(v) = m /\ \A i \in 1 .. m : v[i] = b[i]
  <2> HIDE DEF front
  <2>1. m \in 0 .. Len(front)
    BY <1>1, <1>5
  <2>2. v \in Seq(Byte) /\ Len(v) = m /\ \A i \in 1 .. m : v[i] = front[i]
    BY <1>5, <2>1, FrontProperties
  <2> QED BY <1>1, <1>5, <2>2
<1>8. w \in Seq(Byte) /\ Len(w) = m /\ \A i \in 1 .. m : w[i] = b[i]
  BY FrontProperties
<1> HIDE DEF front, s, t, u, v, w
<1>9. t = s
  BY <1>3, <1>4, SeqEqual
<1>10. u = s
  BY <1>3, <1>6, SeqEqual
<1>11. v = w
  BY <1>7, <1>8, SeqEqual
<1> QED BY <1>9, <1>10, <1>11 DEF front, s, t, u, v, w

\* A buffer that starts with a tag and n further bytes starts with the entry of them.
LEMMA FrontEntry ==
  ASSUME NEW s \in Seq(Byte), s # << >>, TagLength(s[1]) <= Len(s),
         NEW n \in 0 .. Len(Behind(s))
  PROVE  LET bytes == SubSeq(s, 1, TagLength(s[1]) + n)
         IN  /\ bytes \in Seq(Byte) /\ bytes # << >> /\ bytes[1] = s[1]
             /\ TagLength(bytes[1]) <= Len(bytes)
             /\ Tag(bytes) = Tag(s) /\ Transforms(bytes) = Transforms(s)
             /\ After(bytes, TagLength(bytes[1])) = SubSeq(Behind(s), 1, n)
             /\ BP!Extends(s, bytes)
<1> DEFINE l == TagLength(s[1])
           bytes == SubSeq(s, 1, l + n)
<1>1. /\ Len(s) \in Nat /\ l \in {1, 5} /\ l \in 0 .. Len(s) /\ Len(Behind(s)) = Len(s) - l
      /\ l + n \in 0 .. Len(s) /\ n \in 0 .. Len(s) - l
  BY BehindType, LenProperties, TagLengths
<1>2. bytes \in Seq(Byte) /\ Len(bytes) = l + n /\ \A i \in 1 .. l + n : bytes[i] = s[i]
  BY <1>1, FrontProperties
<1>3. After(bytes, l) = SubSeq(Behind(s), 1, n)
  BY <1>1, SliceBehind DEF Behind
<1> HIDE DEF bytes
<1>4. BP!Extends(s, bytes)
  BY <1>1, <1>2, RequestAssumptions DEF BP!Extends
<1>5. bytes # << >> /\ bytes[1] = s[1]
  BY <1>1, <1>2, EmptySeq
<1>6. TagLength(bytes[1]) <= Len(bytes)
  BY <1>1, <1>2, <1>5
<1>7. Tag(bytes) = Tag(s) /\ Transforms(bytes) = Transforms(s)
  BY <1>2, <1>4, <1>5, <1>6, TagExtends
<1> QED BY <1>2, <1>3, <1>4, <1>5, <1>6, <1>7 DEF bytes

LEMMA LastLengthEnds ==
  ASSUME TypeInv, TablesInv, LengthInv, LastLengthRead
  PROVE  \E n \in 0 .. Len(Behind(Rest)) :
           /\ IsRead(CompleteEntry, SubSeq(Rest, 1, TagLength(Rest[1]) + n))
           /\ CompleteEntry \in EntrySet /\ Len(EncodedLengths(CompleteEntry)) = n
           /\ input = After(Rest, TagLength(Rest[1]) + n)
<1> DEFINE s == Rest
           l == TagLength(s[1])
           e == CompleteEntry
<1>1. /\ InLength /\ outcome = "ok" /\ src_offset \in Nat
      /\ s # << >> /\ l <= Len(s) /\ s \in Seq(Byte)
      /\ entry.tag = Tag(s) /\ entry.transformed = Transforms(s)
  BY PlaceType DEF LastLengthRead, InLength, LengthInv, TypeInv
<1>2. Behind(s) \in Seq(Byte) /\ Len(Behind(s)) \in Nat /\ l \in 0 .. Len(s)
      /\ Len(Behind(s)) = Len(s) - l /\ Len(s) \in Nat
  BY <1>1, BehindType, LenProperties
<1>3. PICK m \in 1 .. 5 :
        /\ request.input \in Seq(Byte) /\ m <= Len(request.input)
        /\ accum \in Lengths /\ B!Encoding128(accum) = SubSeq(request.input, 1, m)
        /\ Len(B!Encoding128(accum)) = m /\ Encodes128(SubSeq(request.input, 1, m))
        /\ input = After(request.input, m)
  BY <1>1, LengthAccepted
<1>4. /\ e.tag = Tag(s) /\ e.transformed = Transforms(s) /\ e.src_length = accum
      /\ e.dest_length = (IF Transforms(s) THEN entry.orig_length ELSE accum)
      /\ e = [transformed |-> Transforms(s), tag |-> Tag(s),
              dest_length |-> IF Transforms(s) THEN entry.orig_length ELSE accum,
              src_length |-> accum, src_offset |-> src_offset]
  BY <1>1 DEF CompleteEntry
<1>5. Transforms(s) \in BOOLEAN
  <2>1. (~is_null_transform(s)) = Transforms(s)
    BY <1>1, TransformsNotNull
  <2>2. (~is_null_transform(s)) \in BOOLEAN
    OBVIOUS
  <2> QED BY <2>1, <2>2
<1>6. ASSUME (IF Transforms(s) THEN entry.orig_length ELSE accum) \in Lengths
      PROVE  e \in EntrySet
  BY <1>1, <1>3, <1>4, <1>5, <1>6 DEF EntrySet
<1> HIDE DEF e
<1>7. ASSUME NEW n \in 0 .. Len(Behind(s))
      PROVE  LET bytes == SubSeq(s, 1, l + n)
             IN  /\ bytes # << >> /\ TagLength(bytes[1]) <= Len(bytes)
                 /\ Len(bytes) >= TagLength(bytes[1])
                 /\ Tag(bytes) = Tag(s) /\ Transforms(bytes) = Transforms(s)
                 /\ After(bytes, TagLength(bytes[1])) = SubSeq(Behind(s), 1, n)
  <2> DEFINE bytes == SubSeq(s, 1, l + n)
  <2>1. /\ bytes \in Seq(Byte) /\ bytes # << >> /\ TagLength(bytes[1]) <= Len(bytes)
        /\ Tag(bytes) = Tag(s) /\ Transforms(bytes) = Transforms(s)
        /\ After(bytes, TagLength(bytes[1])) = SubSeq(Behind(s), 1, n)
    BY <1>1, FrontEntry
  <2> HIDE DEF bytes
  <2>2. Len(bytes) \in Nat /\ TagLength(bytes[1]) \in Nat
    BY <2>1, LenProperties, TagLengths
  <2>3. Len(bytes) >= TagLength(bytes[1])
    BY <2>1, <2>2
  <2> QED BY <2>1, <2>3 DEF bytes
<1>8. CASE ~Transforms(s)
  <2>1. request.input = Behind(s) /\ status = "orig_length"
    BY <1>1, <1>8 DEF LengthInv, LastLengthRead
  <2>2. m \in 0 .. Len(Behind(s))
    BY <1>2, <1>3, <2>1
  <2> DEFINE bytes == SubSeq(s, 1, l + m)
  <2>3. /\ bytes # << >> /\ Len(bytes) >= TagLength(bytes[1])
        /\ Tag(bytes) = Tag(s) /\ Transforms(bytes) = Transforms(s)
        /\ After(bytes, TagLength(bytes[1])) = SubSeq(Behind(s), 1, m)
    BY <1>7, <2>2
  <2> HIDE DEF bytes
  <2>4. EncodesEntry(bytes)
    BY <1>3, <1>8, <2>1, <2>3 DEF EncodesEntry
  <2>5. B!Encoding128(accum) \in Seq(Byte)
    BY <1>3 DEF Lengths
  <2>6. EncodedLengths(e) = B!Encoding128(accum) \o << >>
    BY <1>4, <1>8 DEF EncodedLengths
  <2>7. EncodedLengths(e) = B!Encoding128(accum)
    BY <2>5, <2>6, ConcatEmptySeq
  <2>8. IsRead(e, bytes)
    BY <1>3, <1>4, <1>8, <2>1, <2>3, <2>4, <2>7 DEF IsRead
  <2>9. input = After(s, l + m)
    BY <1>1, <1>2, <1>3, <2>1, <2>2, AfterAfter DEF Behind
  <2> QED BY <1>3, <1>6, <1>8, <2>2, <2>7, <2>8, <2>9 DEF bytes, e
<1>9. CASE Transforms(s)
  <2> DEFINE k == Len(First)
  <2>1. status = "transform_length"
    BY <1>1, <1>9 DEF LastLengthRead
  <2>2. /\ entry.orig_length \in Lengths /\ k \in 1 .. 5 /\ k <= Len(Behind(s))
        /\ SubSeq(Behind(s), 1, k) = First /\ Encodes128(First)
        /\ request.input = After(Behind(s), k)
    BY <1>1, <2>1 DEF LengthInv
  <2> HIDE DEF k
  <2>3. k \in 0 .. Len(Behind(s)) /\ Len(request.input) = Len(Behind(s)) - k
    BY <1>2, <2>2, AfterProperties
  <2>4. m \in 0 .. Len(Behind(s)) - k /\ k + m \in 0 .. Len(Behind(s))
    BY <1>2, <1>3, <2>3
  <2> DEFINE bytes == SubSeq(s, 1, l + (k + m))
             rest  == SubSeq(Behind(s), 1, k + m)
  <2>5. /\ bytes # << >> /\ Len(bytes) >= TagLength(bytes[1])
        /\ Tag(bytes) = Tag(s) /\ Transforms(bytes) = Transforms(s)
        /\ After(bytes, TagLength(bytes[1])) = rest
    BY <1>7, <2>4
  <2>6. /\ SubSeq(rest, 1, k) = First
        /\ After(rest, k) = SubSeq(request.input, 1, m)
    BY <1>2, <2>2, <2>3, <2>4, SliceBehind, ZenonT(30)
  <2>7. Len(rest) = k + m
    BY <1>2, <2>4, FrontProperties
  <2>8. rest = First \o SubSeq(request.input, 1, m)
    BY <1>2, <2>2, <2>3, <2>4, FrontExtended
  <2> HIDE DEF bytes, rest
  <2>9. k \in 1 .. Len(rest)
    BY <2>2, <2>7
  <2>10. EncodesEntry(bytes)
    BY <1>3, <1>9, <2>2, <2>5, <2>6, <2>9 DEF EncodesEntry
  <2>11. EncodedLengths(e) = rest
    BY <1>3, <1>4, <1>9, <2>8 DEF EncodedLengths, First
  <2>12. IsRead(e, bytes)
    BY <1>4, <1>9, <2>5, <2>10, <2>11 DEF IsRead
  <2>13. input = After(Behind(s), k + m)
    BY <1>2, <1>3, <2>2, <2>3, <2>4, AfterAfter
  <2>14. input = After(s, l + (k + m))
    BY <1>1, <1>2, <2>4, <2>13, AfterAfter DEF Behind
  <2> QED BY <1>6, <1>9, <2>2, <2>4, <2>7, <2>11, <2>12, <2>14 DEF bytes, e
<1> QED BY <1>8, <1>9
-----------------------------------------------------------------------------
(* Each step keeps the invariant.                                          *)

LEMMA InitInv == Init => Inv
<1> SUFFICES ASSUME Init PROVE Inv
  OBVIOUS
<1>1. /\ checks \in BOOLEAN /\ directory \in Directories /\ tables = << >> /\ src_offset = 0
      /\ status = "entry" /\ input = Bytes /\ dest = << >> /\ num_bytes = 0
  BY DEF Init, Bytes
<1>2. Bytes \in Seq(Byte) /\ Len(Bytes) \in Nat
  BY <1>1, DirectoryAssumption, LenProperties DEF Bytes
<1>3. tables \in Seq(EntrySet) /\ Len(tables) = 0
  BY <1>1, EmptySeq
<1>4. EndsOf(Bytes, tables)[0] = 0
  BY <1>3, EndsNext
<1>5. TypeInv
  BY <1>1, <1>3 DEF TypeInv
<1>6. TablesInv
  BY <1>2, <1>3, <1>4 DEF TablesInv
<1>7. input = Rest
  BY <1>1, <1>2, <1>3, <1>4, AfterNothing DEF Rest, Read
<1>8. OffsetsInv
  BY <1>1, <1>3 DEF OffsetsInv, Behind32
<1> QED BY <1>1, <1>5, <1>6, <1>7, <1>8 DEF Inv, EntryInv, LengthInv, InLength, RefusedInv

\* A step that only returns keeps what was read.
LEMMA ReturnKeeps ==
  ASSUME Inv, NEW s, Return(s), s \notin {"entry", "orig_length", "transform_length"},
         s = "ok" => status = "entry",
         s \in {"Truncated", "InvalidNumeric"} => ~HasEntry(Rest),
         s = "InvalidNumeric" => \A c : BP!Extends(c, Rest) => ~HasEntry(c)
  PROVE  Inv'
<1>1. /\ status' = s /\ UNCHANGED <<checks, directory, tables, src_offset, entry, input, num_bytes, dest>>
  BY DEF Return, lengths
<1>2. TypeInv' /\ TablesInv' /\ OffsetsInv' /\ Rest' = Rest
  BY <1>1, PlaceKept DEF Inv, TypeInv
<1>3. EntryInv'
  BY <1>1, <1>2 DEF Inv, EntryInv
<1>4. LengthInv'
  BY <1>1 DEF LengthInv, InLength
<1>5. RefusedInv'
  BY <1>1, <1>2 DEF RefusedInv
<1> QED BY <1>2, <1>3, <1>4, <1>5 DEF Inv

LEMMA TagTruncatedKeeps ==
  ASSUME Inv, TagTruncated
  PROVE  Inv'
<1>1. input = Rest /\ Rest \in Seq(Byte) /\ ~TagComplete /\ Return("Truncated")
  BY PlaceType DEF TagTruncated, AtEntry, Inv, EntryInv
<1>2. ~HasEntry(Rest)
  BY <1>1, LenProperties, TagLengths DEF TagComplete, HasEntry
<1> QED BY <1>1, <1>2, ReturnKeeps

LEMMA FinishKeeps ==
  ASSUME Inv, Finish
  PROVE  Inv'
BY ReturnKeeps DEF Finish

LEMMA OffsetOverflowKeeps ==
  ASSUME Inv, OffsetOverflow
  PROVE  Inv'
BY ReturnKeeps DEF OffsetOverflow

LEMMA ReadTagKeeps ==
  ASSUME Inv, ReadTag
  PROVE  Inv'
<1>1. /\ input = Rest /\ Rest \in Seq(Byte) /\ TypeInv /\ TablesInv /\ OffsetsInv /\ TagComplete
      /\ ReadLength("orig_length", TagLength(input[1]))
      /\ entry' = [tag |-> Tag(input), transformed |-> ~is_null_transform(input),
                   orig_length |-> 0]
      /\ UNCHANGED <<tables, src_offset>>
  BY PlaceType DEF ReadTag, AtEntry, Inv, EntryInv
<1>2. Rest # << >> /\ TagLength(Rest[1]) \in 0 .. Len(Rest) /\ TagLength(Rest[1]) <= Len(Rest)
  BY <1>1, LenProperties, TagLengths DEF TagComplete
<1>3. /\ BP!TypeInv' /\ BP!Inv128' /\ request'.call = "base_128"
      /\ request'.input = Behind(Rest) /\ status' = "orig_length"
  BY <1>1, <1>2, LengthStarts DEF Behind
<1>4. UNCHANGED <<checks, directory, tables, src_offset, num_bytes, dest>>
  BY <1>1 DEF ReadLength
<1>5. TypeInv' /\ TablesInv' /\ OffsetsInv' /\ Rest' = Rest
  BY <1>1, <1>4, PlaceKept DEF TypeInv
<1>6. /\ entry' = [tag |-> Tag(Rest'), transformed |-> Transforms(Rest'), orig_length |-> 0]
      /\ entry'.orig_length = 0
  BY <1>1, <1>2, <1>5, TransformsNotNull
<1>7. LengthInv'
  BY <1>2, <1>3, <1>5, <1>6 DEF LengthInv
<1> QED BY <1>3, <1>5, <1>7 DEF Inv, EntryInv, RefusedInv

LEMMA LengthStepKeeps ==
  ASSUME Inv, LengthStep
  PROVE  Inv'
<1>1. /\ BP!Base128 /\ InLength /\ UNCHANGED <<checks, directory, tables, src_offset, entry, status>>
      /\ BP!TypeInv /\ BP!Inv128
  BY SameReads DEF LengthStep, Inv, LengthInv
<1>2. BP!Next /\ [BP!Next]_(BP!vars)
  BY <1>1 DEF BP!Next
<1>3. BP!TypeInv'
  BY <1>1, <1>2, BP!NextTypeInv, RadixAssumption, RequestAssumptions
<1>4. BP!Inv128'
  BY <1>1, <1>2, <1>3, BP!Kept128, RadixAssumption, RequestAssumptions
<1>5. UNCHANGED <<request, num_bytes, dest>>
  BY <1>1 DEF BP!Base128, BP!Base128Truncated, BP!Base128LeadingZero, BP!Base128Overflow,
              BP!Base128Byte, BP!MoreThan5Bytes, BP!Fail
<1>6. TypeInv' /\ TablesInv' /\ OffsetsInv' /\ Rest' = Rest
  BY <1>1, <1>5, PlaceKept DEF Inv, TypeInv
<1>7. LengthInv'
  <2>1. First' = First
    BY <1>1 DEF First, B!Encoding128, B!Groups128, B!Weight, B!Half
  <2> QED BY <1>1, <1>3, <1>4, <1>5, <1>6, <2>1 DEF Inv, LengthInv, InLength
<1>8. status' \notin {"entry", "ok", "Truncated", "InvalidNumeric"}
  BY <1>1 DEF InLength
<1> QED BY <1>6, <1>7, <1>8 DEF Inv, EntryInv, RefusedInv

LEMMA LengthFailsKeeps ==
  ASSUME Inv, LengthFails
  PROVE  Inv'
<1> DEFINE s == Rest
           reason == IF outcome = "Truncated" THEN "Truncated" ELSE "InvalidNumeric"
<1>1. /\ InLength /\ outcome \notin {"running", "ok"} /\ Return(reason) /\ LengthInv
      /\ s \in Seq(Byte) /\ s # << >> /\ TagLength(s[1]) <= Len(s)
  BY PlaceType DEF LengthFails, Inv, LengthInv
<1>2. Behind(s) \in Seq(Byte) /\ Len(Behind(s)) \in Nat
  BY <1>1, BehindType, LenProperties
<1>3. /\ BP!NoEncoding(request.input)
      /\ reason = "InvalidNumeric" => \A c : BP!Extends(c, request.input) => BP!NoEncoding(c)
  BY <1>1 DEF LengthInv, BP!Inv128
<1>4. BP!Extends(s, s) /\ BP!Extends(request.input, request.input)
  <2>1. request.input \in Seq(Byte)
    BY <1>1 DEF LengthInv, BP!TypeInv, Requests
  <2> QED BY <1>1, <2>1, BP!ExtendsItself, RadixAssumption, RequestAssumptions
\* What goes on where the bytes end has no entry if its lengths do not go on either.
<1>5. ASSUME NEW c, BP!Extends(c, s),
             \A d : BP!Extends(d, request.input) /\ (c = s => d = request.input)
                      => BP!NoEncoding(d)
      PROVE  ~HasEntry(c)
  <2> SUFFICES ASSUME HasEntry(c) PROVE FALSE
    OBVIOUS
  <2>1. /\ c \in Seq(Byte) /\ c # << >> /\ c[1] = s[1] /\ TagLength(c[1]) <= Len(c)
        /\ Transforms(c) = Transforms(s)
    BY <1>1, <1>5, TagExtends
  <2>2. BP!Extends(Behind(c), Behind(s)) /\ (c = s => Behind(c) = Behind(s))
    BY <1>1, <1>5, <2>1, BehindType, AfterExtends DEF Behind
  <2>3. CASE status = "orig_length"
    <3>1. request.input = Behind(s)
      BY <1>1, <2>3 DEF LengthInv
    <3>2. BP!NoEncoding(Behind(c))
      BY <1>5, <2>2, <3>1
    <3> QED BY <3>2, NoFirstLength
  <2>4. CASE status = "transform_length"
    <3> DEFINE k == Len(First)
    <3>1. /\ Transforms(s) /\ k \in 1 .. 5 /\ k <= Len(Behind(s))
          /\ SubSeq(Behind(s), 1, k) = First /\ Encodes128(First)
          /\ request.input = After(Behind(s), k)
      BY <1>1, <2>4 DEF LengthInv
    <3> HIDE DEF k
    <3>2. k \in 1 .. Len(Behind(s)) /\ k \in 0 .. Len(Behind(s))
      BY <1>2, <3>1
    <3>3. BP!IsCode(Behind(s), k)
      BY <1>2, <3>1, <3>2, FrontCode
    <3>4. BP!IsCode(Behind(c), k)
      BY <1>2, <2>2, <3>3, BP!CodeExtends, RadixAssumption, RequestAssumptions
    <3>5. BP!Extends(After(Behind(c), k), After(Behind(s), k))
      BY <1>2, <2>2, <3>2, AfterExtends
    <3>6. BP!NoEncoding(After(Behind(c), k))
      BY <1>5, <2>2, <3>1, <3>5
    <3> QED BY <2>1, <3>1, <3>4, <3>6, NoSecondLength
  <2> QED BY <1>1, <2>3, <2>4 DEF InLength
<1>6. ~HasEntry(s)
  BY <1>3, <1>4, <1>5
<1>7. reason = "InvalidNumeric" => \A c : BP!Extends(c, s) => ~HasEntry(c)
  BY <1>3, <1>5
<1> QED BY <1>1, <1>6, <1>7, ReturnKeeps

LEMMA OrigLengthReadKeeps ==
  ASSUME Inv, OrigLengthRead
  PROVE  Inv'
<1>1. /\ status = "orig_length" /\ InLength /\ outcome = "ok" /\ entry.transformed /\ LengthInv
      /\ TypeInv /\ TablesInv /\ OffsetsInv /\ entry' = [entry EXCEPT !.orig_length = accum]
      /\ ReadLength("transform_length", 0) /\ UNCHANGED <<tables, src_offset>>
  BY DEF OrigLengthRead, InLength, Inv
<1>2. /\ Rest \in Seq(Byte) /\ Rest # << >> /\ TagLength(Rest[1]) <= Len(Rest)
      /\ request.input = Behind(Rest) /\ Transforms(Rest)
      /\ entry = [tag |-> Tag(Rest), transformed |-> Transforms(Rest),
                  orig_length |-> entry.orig_length]
  BY <1>1, PlaceType DEF LengthInv
<1>3. PICK m \in 1 .. 5 :
        /\ request.input \in Seq(Byte) /\ m <= Len(request.input)
        /\ accum \in Lengths /\ B!Encoding128(accum) = SubSeq(request.input, 1, m)
        /\ Len(B!Encoding128(accum)) = m /\ Encodes128(SubSeq(request.input, 1, m))
        /\ input = After(request.input, m)
  BY <1>1, LengthAccepted
<1>4. input \in Seq(Byte) /\ 0 \in 0 .. Len(input) /\ After(input, 0) = input
  <2>1. m \in 0 .. Len(request.input)
    BY <1>3, LenProperties
  <2>2. input \in Seq(Byte)
    BY <1>3, <2>1, AfterProperties
  <2> QED BY <2>2, AfterNothing, LenProperties
<1>5. /\ BP!TypeInv' /\ BP!Inv128' /\ request'.call = "base_128"
      /\ request'.input = input /\ status' = "transform_length"
  BY <1>1, <1>4, LengthStarts
<1>6. UNCHANGED <<checks, directory, tables, src_offset, num_bytes, dest>>
  BY <1>1 DEF ReadLength
<1>7. TypeInv' /\ TablesInv' /\ OffsetsInv' /\ Rest' = Rest
  BY <1>1, <1>6, PlaceKept DEF TypeInv
<1>8. entry' = [tag |-> Tag(Rest), transformed |-> Transforms(Rest), orig_length |-> accum]
      /\ entry'.orig_length = accum
  <2> DEFINE with(v) == [tag |-> Tag(Rest), transformed |-> Transforms(Rest), orig_length |-> v]
  <2>1. \A v : [with(v) EXCEPT !.orig_length = accum] = with(accum)
    OBVIOUS
  <2>2. entry = with(entry.orig_length)
    BY <1>2
  <2>3. entry' = with(accum) /\ with(accum).orig_length = accum
    BY <1>1, <2>1, <2>2
  <2> QED BY <2>3
<1>9. First' = B!Encoding128(accum)
  BY <1>8 DEF First, B!Encoding128, B!Groups128, B!Weight, B!Half
<1>10. LengthInv'
  <2>1. /\ Len(First') = m /\ Len(First') \in 1 .. 5 /\ Len(First') <= Len(Behind(Rest))
        /\ SubSeq(Behind(Rest), 1, Len(First')) = First' /\ Encodes128(First')
        /\ request'.input = After(Behind(Rest), Len(First'))
    BY <1>2, <1>3, <1>5, <1>9
  <2>2. Encodes128(First)'
    BY <2>1 DEF Encodes128, B!Spelled, B!Encoding128, B!Groups128, B!Weight, B!Half
  <2> QED BY <1>2, <1>3, <1>5, <1>7, <1>8, <2>1, <2>2 DEF LengthInv
<1> QED BY <1>5, <1>7, <1>10 DEF Inv, EntryInv, RefusedInv

LEMMA AddEntryKeeps ==
  ASSUME Inv, AddEntry
  PROVE  Inv'
<1> DEFINE l == TagLength(Rest[1])
           e == CompleteEntry
<1>1. /\ TypeInv /\ TablesInv /\ LengthInv /\ LastLengthRead
      /\ tables' = Append(tables, e) /\ src_offset' = (src_offset + accum) % U32
      /\ status' = "entry"
      /\ UNCHANGED <<checks, directory, entry, input, num_bytes, dest>>
  BY DEF AddEntry, lengths, Inv
<1>2. /\ Bytes \in Seq(Byte) /\ Len(Bytes) \in Nat /\ Read \in 0 .. Len(Bytes)
      /\ Rest \in Seq(Byte) /\ Len(Rest) = Len(Bytes) - Read /\ Len(tables) \in Nat
      /\ \A i \in 1 .. Len(Rest) : Rest[i] = Bytes[Read + i]
  BY <1>1, PlaceType
<1>3. PICK n \in 0 .. Len(Behind(Rest)) :
        /\ IsRead(e, SubSeq(Rest, 1, l + n))
        /\ e \in EntrySet /\ Len(EncodedLengths(e)) = n
        /\ input = After(Rest, l + n)
  BY <1>1, LastLengthEnds
<1>4. /\ Rest # << >> /\ l <= Len(Rest) /\ l \in {1, 5} /\ Len(Behind(Rest)) = Len(Rest) - l
      /\ InLength /\ outcome = "ok"
  BY <1>1, <1>2, BehindType, TagLengths DEF LengthInv, LastLengthRead, InLength
<1>5. l + n \in 0 .. Len(Bytes) - Read /\ l + n \in 0 .. Len(Rest) /\ 1 \in 1 .. Len(Rest)
  BY <1>2, <1>4
<1> HIDE DEF e, l
<1>6. /\ tables' \in Seq(EntrySet) /\ Len(tables') = Len(tables) + 1
      /\ tables'[Len(tables) + 1] = e /\ \A k \in 1 .. Len(tables) : tables'[k] = tables[k]
  BY <1>1, <1>3, AppendProperties DEF TypeInv
<1>7. \A k \in 0 .. Len(tables) : EndsOf(Bytes, tables')[k] = EndsOf(Bytes, tables)[k]
  <2>1. tables \in Seq(EntrySet) /\ Len(tables) <= Len(tables')
    BY <1>1, <1>2, <1>6 DEF TypeInv
  <2> DEFINE us == tables'
  <2>2. us \in Seq(EntrySet) /\ Len(tables) <= Len(us) /\ \A k \in 1 .. Len(tables) : us[k] = tables[k]
    BY <1>6, <2>1
  <2> HIDE DEF us
  <2>3. \A k \in 0 .. Len(tables) : EndsOf(Bytes, us)[k] = EndsOf(Bytes, tables)[k]
    BY <2>1, <2>2, EndsAgree
  <2> QED BY <2>3 DEF us
<1>8. EndsOf(Bytes, tables')[Len(tables) + 1] = Read + (l + n)
  <2>1. Len(tables) + 1 \in 1 .. Len(tables') /\ (Len(tables) + 1) - 1 = Len(tables)
        /\ Len(tables) \in 0 .. Len(tables)
    BY <1>2, <1>6
  <2>2. EndsOf(Bytes, tables')[Len(tables)] = Read
    BY <1>7, <2>1 DEF Read
  <2>3. Bytes[Read + 1] = Rest[1]
    BY <1>2, <1>5
  <2>4. EndsOf(Bytes, tables')[Len(tables) + 1] =
          Read + TagLength(Bytes[Read + 1]) + Len(EncodedLengths(tables'[Len(tables) + 1]))
    BY <1>6, <2>1, <2>2, EndsNext
  <2>5. EndsOf(Bytes, tables')[Len(tables) + 1] = Read + l + n
    BY <1>3, <1>6, <2>3, <2>4 DEF l
  <2> QED BY <1>2, <1>3, <1>4, <2>5
<1>9. Bytes' = Bytes
  BY <1>1 DEF Bytes
<1>10. TypeInv'
  <2>1. accum \in Nat
    <3>1. accum \in Lengths
      BY <1>1, <1>4, LengthAccepted
    <3> QED BY <3>1, WidthType DEF Lengths
  <2>2. src_offset' \in Nat
    BY <1>1, <2>1, CastToU32, WidthType DEF TypeInv
  <2> QED BY <1>1, <1>6, <2>2 DEF TypeInv
<1>11. TablesInv'
  <2>1. ASSUME NEW k \in 0 .. Len(tables') PROVE EndsOf(Bytes, tables')[k] \in 0 .. Len(Bytes)
    <3>1. CASE k \in 0 .. Len(tables)
      BY <1>1, <1>7, <3>1 DEF TablesInv
    <3>2. CASE k = Len(tables) + 1
      BY <1>2, <1>5, <1>8, <3>2
    <3> QED BY <1>2, <1>6, <3>1, <3>2
  <2>2. ASSUME NEW k \in 1 .. Len(tables')
        PROVE  IsRead(tables'[k], EntryBytes(Bytes, tables', k))
    <3>1. CASE k \in 1 .. Len(tables)
      <4>1. k \in 0 .. Len(tables) /\ k - 1 \in 0 .. Len(tables)
        BY <1>2, <3>1
      <4>2. EntryBytes(Bytes, tables', k) = EntryBytes(Bytes, tables, k)
        BY <1>7, <4>1 DEF EntryBytes
      <4> QED BY <1>1, <1>6, <3>1, <4>2 DEF TablesInv
    <3>2. CASE k = Len(tables) + 1
      <4>1. Len(tables) \in 0 .. Len(tables) /\ k - 1 = Len(tables)
        BY <1>2, <3>2
      <4>2. EntryBytes(Bytes, tables', k) = SubSeq(Bytes, Read + 1, Read + (l + n))
        BY <1>7, <1>8, <3>2, <4>1 DEF EntryBytes, Read
      <4>3. EntryBytes(Bytes, tables', k) = SubSeq(Rest, 1, l + n)
        BY <1>2, <1>5, <4>2, SliceBehind DEF Rest
      <4> QED BY <1>3, <1>6, <3>2, <4>3
    <3> QED BY <1>2, <1>6, <3>1, <3>2
  <2> QED BY <1>9, <2>1, <2>2 DEF TablesInv, IsRead, EncodedLengths, EncodesEntry, EntryBytes
<1>12. input' = Rest'
  <2>1. Read' = Read + (l + n)
    BY <1>6, <1>8, <1>9 DEF Read
  <2>2. input = After(Bytes, Read + (l + n))
    BY <1>2, <1>3, <1>5, AfterAfter DEF Rest
  <2> QED BY <1>1, <1>9, <2>1, <2>2 DEF Rest
<1>13. OffsetsInv'
  <2>1. OffsetsInv /\ (checks => src_offset + accum < U32) /\ src_offset \in Nat /\ accum \in Nat
    <3>1. accum \in Lengths
      BY <1>1, <1>4, LengthAccepted
    <3>2. src_offset \in Nat /\ accum \in Nat /\ U32 \in Nat
      BY <1>1, <3>1, WidthType DEF Lengths, TypeInv
    <3> QED BY <3>2 DEF AddEntry, Inv
  <2>2. e.src_offset = src_offset /\ e.src_length = accum
    BY DEF e, CompleteEntry
  <2>3. Behind32(tables', Len(tables')) = src_offset'
    BY <1>1, <1>2, <1>6, <2>2 DEF Behind32
  <2>4. ASSUME NEW k \in 1 .. Len(tables')
        PROVE  /\ tables'[k].src_offset = Behind32(tables', k - 1)
               /\ checks => tables'[k].src_offset + tables'[k].src_length < U32
    <3>1. k - 1 \in 0 .. Len(tables) /\ Behind32(tables', k - 1) = Behind32(tables, k - 1)
      BY <1>2, <1>6 DEF Behind32
    <3>2. CASE k \in 1 .. Len(tables)
      BY <1>6, <2>1, <3>1, <3>2 DEF OffsetsInv
    <3>3. CASE k = Len(tables) + 1
      BY <1>2, <1>6, <2>1, <2>2, <3>1, <3>3 DEF OffsetsInv
    <3> QED BY <1>2, <1>6, <3>2, <3>3
  <2> QED BY <1>1, <2>3, <2>4 DEF OffsetsInv, Behind32
<1> QED BY <1>1, <1>10, <1>11, <1>12, <1>13 DEF Inv, EntryInv, LengthInv, InLength, RefusedInv

LEMMA StutterKeeps ==
  ASSUME Inv, UNCHANGED vars
  PROVE  Inv'
<1>1. /\ UNCHANGED <<checks, directory, tables, src_offset, entry, status>>
      /\ UNCHANGED <<request, input, accum, num_bytes, dest, outcome>>
  BY DEF vars, lengths
<1>2. TypeInv' /\ TablesInv' /\ OffsetsInv' /\ Rest' = Rest
  BY <1>1, PlaceKept DEF Inv, TypeInv
<1>3. BP!TypeInv /\ BP!Inv128 => BP!TypeInv' /\ BP!Inv128'
  BY <1>1 DEF BP!TypeInv, BP!Inv128, BP!Consumed
<1>4. LengthInv'
  <2>1. First' = First
    BY <1>1 DEF First, B!Encoding128, B!Groups128, B!Weight, B!Half
  <2> QED BY <1>1, <1>2, <1>3, <2>1 DEF Inv, LengthInv, InLength
<1> QED BY <1>1, <1>2, <1>4 DEF Inv, EntryInv, RefusedInv

LEMMA Invariance == Spec => []Inv
<1>1. Inv /\ [Next]_vars => Inv'
  BY TagTruncatedKeeps, ReadTagKeeps, LengthStepKeeps, LengthFailsKeeps, OrigLengthReadKeeps,
     AddEntryKeeps, OffsetOverflowKeeps, FinishKeeps, StutterKeeps DEF Next
<1> QED BY <1>1, InitInv, PTL DEF Spec
-----------------------------------------------------------------------------
(* What the reader gets right.                                             *)

\* The sum of the lengths before an entry, without the wrap.
Sums(f, ts) == f = [k \in 0 .. Len(ts) |-> IF k = 0 THEN 0 ELSE f[k-1] + ts[k].src_length]

LEMMA DataBeforeNext ==
  ASSUME TypeInv
  PROVE  /\ Len(tables) \in Nat /\ DataBefore[0] = 0
         /\ \A k \in 1 .. Len(tables) : DataBefore[k] = DataBefore[k-1] + tables[k].src_length
         /\ \A k \in 1 .. Len(tables) : tables[k].src_length \in Nat
         /\ \A k \in 0 .. Len(tables) : DataBefore[k] \in Nat
<1> DEFINE n == Len(tables)
           term == [k \in 1 .. n |-> tables[k].src_length]
<1>1. n \in Nat /\ \A k \in 1 .. n : tables[k].src_length \in Nat
  <2>1. n \in Nat /\ \A k \in 1 .. n : tables[k] \in EntrySet
    BY LenProperties, ElementOfSeq DEF TypeInv
  <2> QED BY <2>1, WidthType DEF EntrySet, Lengths
<1>2. \A f : AddsUp(f, term, n) <=> Sums(f, tables)
  <2> TAKE f
  <2>1. [k \in 0 .. n |-> IF k = 0 THEN 0 ELSE f[k-1] + term[k]]
          = [k \in 0 .. n |-> IF k = 0 THEN 0 ELSE f[k-1] + tables[k].src_length]
    <3>1. \A k \in 0 .. n : k # 0 => term[k] = tables[k].src_length
      BY <1>1
    <3> HIDE DEF term
    <3> QED BY <3>1
  <2> QED BY <2>1 DEF AddsUp, Sums
<1>3. \A k \in 1 .. n : term[k] \in Nat
  BY <1>1
<1> HIDE DEF term
<1>4. PICK f : AddsUp(f, term, n)
  BY <1>1, <1>3, SumsExist
<1>5. DataBefore = CHOOSE g : Sums(g, tables)
  BY DEF DataBefore, Sums
<1>6. Sums(DataBefore, tables)
  BY <1>2, <1>4, <1>5
<1>7. AddsUp(DataBefore, term, n)
  BY <1>2, <1>6
<1>8. DataBefore[0] = 0 /\ \A k \in 0 .. n : DataBefore[k] \in Nat
  BY <1>1, <1>3, <1>7, SumsProperties
<1>9. \A k \in 1 .. n : DataBefore[k] = DataBefore[k-1] + tables[k].src_length
  <2>1. \A k \in 0 .. n : DataBefore[k] = IF k = 0 THEN 0 ELSE DataBefore[k-1] + tables[k].src_length
    BY <1>6 DEF Sums
  <2> QED BY <1>1, <2>1
<1> QED BY <1>1, <1>8, <1>9

\* Offsets that follow each other are those sums.
LEMMA OffsetsAreSums ==
  ASSUME TypeInv, OffsetsInv, NEW k \in 1 .. Len(tables)
  PROVE  /\ tables[k].src_offset = DataBefore[k-1] % U32
         /\ checks => DataBefore[k] < U32
<1> DEFINE n == Len(tables)
           Good(i) == /\ Behind32(tables, i) = DataBefore[i] % U32
                      /\ checks => DataBefore[i] < U32
           T == {i \in 0 .. n : ~Good(i)}
<1>1. /\ n \in Nat /\ DataBefore[0] = 0 /\ U32 \in Nat /\ U32 > 0
      /\ \A i \in 1 .. n : DataBefore[i] = DataBefore[i-1] + tables[i].src_length
      /\ \A i \in 1 .. n : tables[i].src_length \in Nat
      /\ \A i \in 0 .. n : DataBefore[i] \in Nat
  BY DataBeforeNext, WidthType
<1>2. Good(0)
  <2>1. 0 % U32 = 0
    BY <1>1, CastToU32
  <2> QED BY <1>1, <2>1 DEF Behind32
<1>3. ASSUME NEW i \in 1 .. n, Good(i-1) PROVE Good(i)
  <2> DEFINE a == DataBefore[i-1]
             l == tables[i].src_length
  <2>1. a \in Nat /\ l \in Nat /\ DataBefore[i] = a + l /\ i # 0 /\ i - 1 \in 0 .. n
    BY <1>1
  <2>2. tables[i].src_offset = a % U32 /\ (checks => a < U32)
    BY <1>3 DEF OffsetsInv
  <2>3. checks => tables[i].src_offset + l < U32
    BY DEF OffsetsInv
  <2>4. Behind32(tables, i) = (tables[i].src_offset + l) % U32
    BY <2>1 DEF Behind32
  <2> HIDE DEF a, l
  <2>5. ((a % U32) + l) % U32 = (a + l) % U32
    BY <2>1, WrappedSum
  <2>6. checks => a % U32 = a
    BY <1>1, <2>1, <2>2, CastToU32
  <2> QED BY <2>1, <2>2, <2>3, <2>4, <2>5, <2>6
<1>4. T = {}
  <2> SUFFICES ASSUME T # {} PROVE FALSE
    OBVIOUS
  <2> HIDE DEF Good
  <2>1. PICK m \in T : \A i \in T : m <= i
    <3>1. T \subseteq Nat
      OBVIOUS
    <3> HIDE DEF T
    <3> QED BY <3>1, LeastNumber
  <2>2. m \in 1 .. n /\ m - 1 \in 0 .. n /\ m - 1 \notin T
    BY <1>1, <1>2, <2>1
  <2> QED BY <1>3, <2>1, <2>2
<1>5. Good(k-1) /\ Good(k)
  <2>1. k \in 0 .. n /\ k - 1 \in 0 .. n
    BY <1>1
  <2> HIDE DEF Good
  <2> QED BY <1>4, <2>1
<1> QED BY <1>5 DEF OffsetsInv

\* What has been consumed between two entries is the encodings of the entries that
\* have been read, one after the other: Woff2TableDirectory::from_buf is in step
\* with the bytes whatever they are, and the offsets are the sums of the lengths.
THEOREM EntriesAreRead == Spec => []ReadsEncodings
<1>1. Inv => ReadsEncodings
  <2> SUFFICES ASSUME Inv, status \in {"entry", "ok"} PROVE ReadsEncodings
    BY DEF ReadsEncodings
  <2>1. input = After(directory.bytes, EndOf[Len(tables)])
    BY EndOfState DEF Inv, EntryInv, Rest, Read, Bytes
  <2>2. DOMAIN tables = 1 .. Len(tables)
    BY LenProperties DEF Inv, TypeInv
  <2>3. ASSUME NEW k \in DOMAIN tables
        PROVE  IsRead(tables[k], SubSeq(directory.bytes, EndOf[k-1] + 1, EndOf[k]))
    BY <2>2, <2>3, EndOfState DEF Inv, TablesInv, EntryBytes, Bytes
  <2>4. ASSUME NEW k \in DOMAIN tables
        PROVE  tables[k].src_offset = DataBefore[k-1] % U32 /\ (checks => DataBefore[k] < U32)
    BY <2>2, <2>4, OffsetsAreSums DEF Inv
  <2> QED BY <2>1, <2>3, <2>4 DEF ReadsEncodings, IsRead
<1> QED BY <1>1, Invariance, PTL

\* Where the reader fails, the bytes behind the entries read start no entry, and no
\* continuation of them does unless it says that bytes are missing.
THEOREM NoEntryIsRefused == Spec => []RefusesNoEntry
<1>1. Inv => RefusesNoEntry
  <2> SUFFICES ASSUME Inv, status \in {"Truncated", "InvalidNumeric"} PROVE RefusesNoEntry
    BY DEF RefusesNoEntry
  <2>1. Rest = After(directory.bytes, EndOf[Len(tables)])
    BY EndOfState DEF Rest, Read, Bytes
  <2>2. Rest \in Seq(Byte) /\ Len(Rest) \in Nat
    BY PlaceType, LenProperties DEF Inv
  <2>3. ASSUME NEW n \in 1 .. Len(Rest) PROVE ~EncodesEntry(SubSeq(Rest, 1, n))
    <3> DEFINE t == SubSeq(Rest, 1, n)
    <3>1. t \in Seq(Byte) /\ Len(t) = n /\ \A i \in 1 .. n : t[i] = Rest[i]
      BY <2>2, FrontProperties
    <3> HIDE DEF t
    <3>2. BP!Extends(Rest, t)
      BY <2>2, <3>1, RequestAssumptions DEF BP!Extends
    <3>3. ~HasEntry(t)
      BY <3>1, <3>2, EntryExtends DEF Inv, RefusedInv
    <3> QED BY <3>1, <3>3, EncodedHasEntry DEF t
  <2>4. ASSUME NEW n \in 1 .. 11, EncodesEntry(Rest \o [i \in 1 .. n |-> 1])
        PROVE  status = "Truncated"
    <3> DEFINE ones == [i \in 1 .. n |-> 1]
               t    == Rest \o ones
    <3>1. ones \in Seq(Byte)
      BY QuarterWidth DEF Byte
    <3>2. /\ t \in Seq(Byte) /\ Len(t) = Len(Rest) + Len(ones)
          /\ \A i \in 1 .. Len(Rest) + Len(ones) :
               t[i] = IF i <= Len(Rest) THEN Rest[i] ELSE ones[i - Len(Rest)]
      BY <2>2, <3>1, ConcatProperties
    <3>3. Len(ones) \in Nat
      BY <3>1, LenProperties
    <3> HIDE DEF ones, t
    <3>4. BP!Extends(t, Rest)
      BY <2>2, <3>2, <3>3, RequestAssumptions DEF BP!Extends
    <3>5. HasEntry(t)
      BY <2>4, <3>2, EncodedHasEntry DEF t, ones
    <3> QED BY <3>4, <3>5 DEF Inv, RefusedInv
  <2> QED BY <2>1, <2>3, <2>4 DEF RefusesNoEntry
<1> QED BY <1>1, Invariance, PTL
=============================================================================
