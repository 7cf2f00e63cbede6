---------------------------- MODULE BufExtProofs ----------------------------
(***************************************************************************)
(* What the reads of src/buffer.rs return, for every buffer: an accepted   *)
(* UIntBase128 is the one encoding of its value and no encoding is         *)
(* refused, a 255UInt16 is read as it was written, and a copy has exactly  *)
(* the bytes asked for.                                                    *)
(***************************************************************************)
EXTENDS BufExt, ByteBufferProofs

LEMMA RadixWidth == Radix \in Nat /\ Radix >= 4 /\ Byte \subseteq Nat
BY RadixAssumption, GroupAssumption DEF Byte

LEMMA CallFields ==
  ASSUME NEW c \in Calls
  PROVE  /\ c.call \in {"base_128", "255_u16", "copy"}
         /\ c.input \in Seq(Byte) /\ c.num_bytes \in Nat
BY CallsAssumption
-----------------------------------------------------------------------------
(* What every read keeps: the buffer is what was read and what remains.    *)

TypeInv ==
  /\ request \in Calls /\ input \in Seq(Byte) /\ num_bytes \in Nat /\ dest \in Seq(Byte)
  /\ Consumed \in 0 .. Len(request.input) /\ input = After(request.input, Consumed)

LEMMA RequestType ==
  ASSUME TypeInv
  PROVE  /\ request.input \in Seq(Byte) /\ Len(request.input) \in Nat /\ Len(input) \in Nat
         /\ Len(input) = Len(request.input) - Consumed /\ request.num_bytes \in Nat
         /\ request.call \in {"base_128", "255_u16", "copy"}
<1>1. request.input \in Seq(Byte) /\ input \in Seq(Byte) /\ request.num_bytes \in Nat
      /\ request.call \in {"base_128", "255_u16", "copy"}
  BY CallFields DEF TypeInv
<1>2. Len(request.input) \in Nat /\ Len(input) \in Nat
  BY <1>1, LenProperties
<1> QED BY <1>1, <1>2 DEF Consumed

LEMMA ReadsOn ==
  ASSUME TypeInv, NEW n \in 0 .. Len(input), Advance(n), request' = request
  PROVE  /\ input' \in Seq(Byte) /\ Consumed' = Consumed + n
         /\ Consumed' \in 0 .. Len(request'.input) /\ input' = After(request'.input, Consumed')
         /\ Front(Consumed)' = Front(Consumed) \o SubSeq(input, 1, n)
<1>1. /\ request.input \in Seq(Byte) /\ input \in Seq(Byte)
      /\ Len(request.input) \in Nat /\ Len(input) = Len(request.input) - Consumed
      /\ Consumed \in 0 .. Len(request.input)
  BY RequestType DEF TypeInv
<1>2. n \in 0 .. Len(request.input) - Consumed /\ n \in Nat
  BY <1>1
<1>3. input' = After(request.input, Consumed + n)
  BY <1>1, <1>2, AfterAfter DEF Advance, TypeInv
<1>4. Consumed + n \in 0 .. Len(request.input)
  BY <1>1, <1>2
<1>5. input' \in Seq(Byte) /\ Len(input') = Len(request.input) - (Consumed + n)
  BY <1>1, <1>3, <1>4, AfterProperties
<1>6. Consumed' = Consumed + n
  BY <1>1, <1>2, <1>5 DEF Consumed
<1>7. Front(Consumed)' = SubSeq(request.input, 1, Consumed + n)
  BY <1>6 DEF Front
<1>8. Front(Consumed)' = Front(Consumed) \o SubSeq(input, 1, n)
  BY <1>1, <1>2, <1>7, FrontExtended DEF Front, TypeInv
<1> QED BY <1>3, <1>4, <1>5, <1>6, <1>8

\* How far each action reads.
LEMMA ReadLengths ==
  ASSUME TypeInv, Next
  PROVE  /\ request' = request /\ \E n \in 0 .. Len(input) : Advance(n)
         /\ num_bytes' \in Nat /\ dest' \in Seq(Byte)
<1>1. input \in Seq(Byte) /\ Len(input) \in Nat /\ num_bytes \in Nat /\ dest \in Seq(Byte)
  BY RequestType DEF TypeInv
<1>2. ASSUME UNCHANGED input PROVE \E n \in 0 .. Len(input) : Advance(n)
  <2>1. After(input, 0) = input
    BY <1>1, AfterNothing
  <2> QED BY <1>1, <1>2, <2>1 DEF Advance
<1>3. input # << >> => 1 \in 0 .. Len(input)
  BY <1>1, EmptySeq
<1>4. CASE Base128
  BY <1>1, <1>2, <1>3, <1>4
     DEF Base128, Base128Truncated, Base128LeadingZero, Base128Overflow, Base128Byte,
         MoreThan5Bytes, AtByte, Fail
<1>5. CASE Get255
  <2>1. CodeLength(input[1]) \in 0 .. Len(input)
    BY <1>1, <1>5 DEF Get255, CodeComplete, CodeLength
  <2> QED BY <1>1, <1>5, <2>1 DEF Get255
<1>6. CASE Get255Truncated
  BY <1>1, <1>2, <1>3, <1>6 DEF Get255Truncated, Fail
<1>7. CASE CopyRefused
  BY <1>1, <1>2, <1>7 DEF CopyRefused, Fail
<1>8. ASSUME NEW n \in 0 .. Len(input), Copy(n)
      PROVE  dest' \in Seq(Byte) /\ request' = request /\ \E i \in 0 .. Len(input) : Advance(i)
  BY <1>1, <1>8, FrontProperties, ConcatProperties DEF Copy
<1>9. CASE CopyLast
  <2>1. num_bytes \in 0 .. Len(input)
    BY <1>1, <1>9 DEF CopyLast, Chunks
  <2> QED BY <1>1, <1>8, <1>9, <2>1 DEF CopyLast
<1>10. CASE CopyChunk
  <2>1. PICK len \in Chunks : len < num_bytes /\ Copy(len) /\ num_bytes' = num_bytes - len
    BY <1>10 DEF CopyChunk
  <2>2. len \in 0 .. Len(input)
    BY <1>1 DEF Chunks
  <2> QED BY <1>1, <1>8, <2>1, <2>2
<1> QED BY <1>4, <1>5, <1>6, <1>7, <1>9, <1>10 DEF Next

LEMMA InitTypeInv == Init => TypeInv
<1> SUFFICES ASSUME Init PROVE TypeInv
  OBVIOUS
<1>1. request \in Calls /\ input = request.input /\ num_bytes = request.num_bytes /\ dest = << >>
  BY DEF Init
<1>2. request.input \in Seq(Byte) /\ num_bytes \in Nat /\ Len(request.input) \in Nat
  BY <1>1, CallFields, LenProperties
<1>3. Consumed = 0 /\ 0 \in 0 .. Len(request.input)
  BY <1>1, <1>2 DEF Consumed
<1>4. After(request.input, 0) = request.input
  BY <1>2, AfterNothing
<1> QED BY <1>1, <1>2, <1>3, <1>4 DEF TypeInv

LEMMA NextTypeInv == TypeInv /\ [Next]_vars => TypeInv'
<1>1. ASSUME TypeInv, Next PROVE TypeInv'
  BY <1>1, ReadLengths, ReadsOn DEF TypeInv
<1>2. ASSUME TypeInv, UNCHANGED vars PROVE TypeInv'
  BY <1>2 DEF TypeInv, vars, Consumed
<1> QED BY <1>1, <1>2

LEMMA TypeInvariance == Spec => []TypeInv
BY InitTypeInv, NextTypeInv, PTL DEF Spec
-----------------------------------------------------------------------------
(* try_copy_to_buf. The number of bytes is compared with what remains once,  *)
(* before the first chunk; that it is still right for the next ones is the *)
(* second part of the invariant.                                           *)

CopyInv == request.call = "copy" =>
  /\ outcome \in {"running", "ok"} => dest = Front(Consumed)
  /\ outcome = "running" => /\ Consumed + num_bytes = request.num_bytes
                            /\ dest # << >> => num_bytes <= Len(input)
  /\ outcome = "ok" => Consumed = request.num_bytes
  /\ outcome \notin {"running", "ok"} =>
       dest = << >> /\ input = request.input /\ Len(input) < request.num_bytes

LEMMA CopyKept == TypeInv /\ CopyInv /\ Next => CopyInv'
<1> SUFFICES ASSUME TypeInv, CopyInv, Next, request'.call = "copy"
             PROVE  CopyInv'
  BY DEF CopyInv
<1>1. request' = request /\ request.call = "copy"
  BY ReadLengths
<1>2. /\ request.input \in Seq(Byte) /\ Len(request.input) \in Nat /\ Len(input) \in Nat
      /\ Len(input) = Len(request.input) - Consumed /\ request.num_bytes \in Nat
      /\ Consumed \in 0 .. Len(request.input) /\ num_bytes \in Nat /\ input \in Seq(Byte)
  BY RequestType DEF TypeInv
<1>3. ASSUME NEW n \in 0 .. Len(input), Copy(n), outcome = "running"
      PROVE  /\ dest' = Front(Consumed)' /\ Consumed' = Consumed + n
             /\ Consumed + num_bytes = request.num_bytes /\ Len(input') = Len(input) - n
  <2>1. Consumed' = Consumed + n /\ Front(Consumed)' = Front(Consumed) \o SubSeq(input, 1, n)
    BY <1>1, <1>3, ReadsOn DEF Copy
  <2>2. dest = Front(Consumed) /\ Consumed + num_bytes = request.num_bytes
    BY <1>1, <1>3 DEF CopyInv
  <2>3. Len(input') = Len(input) - n
    BY <1>2, <1>3, AfterProperties DEF Copy, Advance
  <2> QED BY <1>3, <2>1, <2>2, <2>3 DEF Copy
<1>4. CASE CopyRefused
  <2>1. dest = Front(Consumed) /\ dest = << >> /\ num_bytes' = num_bytes
        /\ Consumed + num_bytes = request.num_bytes /\ Len(input) < num_bytes
    BY <1>1, <1>4 DEF CopyRefused, InCall, Fail, CopyInv
  <2>2. Consumed = 0
    <3>1. Len(Front(Consumed)) = Consumed
      BY <1>2, FrontProperties DEF Front
    <3> QED BY <2>1, <3>1, EmptySeq
  <2>3. input = request.input
    BY <1>2, <2>2, AfterNothing DEF TypeInv
  <2> QED BY <1>1, <1>2, <1>4, <2>1, <2>2, <2>3 DEF CopyInv, CopyRefused, Fail
<1>5. CASE CopyLast
  <2>1. num_bytes \in 0 .. Len(input) /\ outcome = "running" /\ Copy(num_bytes) /\ outcome' = "ok"
    BY <1>2, <1>5 DEF CopyLast, Chunks, CanCopy, InCall
  <2> QED BY <1>1, <1>2, <1>3, <2>1 DEF CopyInv
<1>6. CASE CopyChunk
  <2>1. PICK len \in Chunks : /\ len < num_bytes /\ Copy(len)
                              /\ num_bytes' = num_bytes - len /\ UNCHANGED outcome
    BY <1>6 DEF CopyChunk
  <2>2. outcome = "running" /\ num_bytes <= Len(input)
    BY <1>1, <1>2, <1>6 DEF CopyChunk, CanCopy, InCall, CopyInv
  <2>3. len \in 0 .. Len(input)
    BY <1>2 DEF Chunks
  <2> QED BY <1>1, <1>2, <1>3, <2>1, <2>2, <2>3 DEF CopyInv
<1>7. ~Base128 /\ ~Get255 /\ ~Get255Truncated
  BY <1>1 DEF Base128, Base128Truncated, Base128LeadingZero, Base128Overflow, Base128Byte,
              MoreThan5Bytes, AtByte, InBase128, Get255, Get255Truncated, InCall
<1> QED BY <1>4, <1>5, <1>6, <1>7 DEF Next

\* A copy into another buffer has the bytes asked for, in order, and leaves the
\* rest, however the buffer is cut into chunks; or nothing has been touched.
THEOREM CopyIsExact == Spec => []CopiesExactly
<1>1. Init => CopyInv
  <2> SUFFICES ASSUME Init PROVE CopyInv
    OBVIOUS
  <2>1. request \in Calls /\ input = request.input /\ num_bytes = request.num_bytes
        /\ dest = << >> /\ outcome = "running"
    BY DEF Init
  <2>2. Consumed = 0 /\ request.num_bytes \in Nat /\ request.input \in Seq(Byte)
    BY <2>1, CallFields, LenProperties DEF Consumed
  <2>3. Front(0) = << >>
    BY <2>2, FrontProperties, LenProperties, EmptySeq DEF Front
  <2> QED BY <2>1, <2>2, <2>3 DEF CopyInv
<1>2. TypeInv /\ CopyInv /\ [Next]_vars => CopyInv'
  <2>1. TypeInv /\ CopyInv /\ UNCHANGED vars => CopyInv'
    BY DEF CopyInv, vars, Front, Consumed
  <2> QED BY <2>1, CopyKept
<1>3. TypeInv /\ CopyInv => CopiesExactly
  <2> SUFFICES ASSUME TypeInv, CopyInv, Ended("copy") PROVE CopiesExactly
    BY DEF CopiesExactly
  <2>1. CASE outcome = "ok"
    <3>1. dest = Front(Consumed) /\ Consumed = request.num_bytes
      BY <2>1 DEF Ended, CopyInv
    <3>2. Front(Consumed) \o input = request.input
      BY RequestType, FrontAndRest DEF TypeInv, Front
    <3> QED BY <2>1, <3>1, <3>2 DEF CopiesExactly
  <2>2. CASE outcome # "ok"
    BY <2>2 DEF Ended, CopyInv, CopiesExactly
  <2> QED BY <2>1, <2>2
<1> QED BY <1>1, <1>2, <1>3, TypeInvariance, PTL DEF Spec
-----------------------------------------------------------------------------
(* try_get_255_u16.                                                        *)

\* Short sequences by their elements.
LEMMA ShortSequences ==
  ASSUME NEW s \in Seq(Byte)
  PROVE  /\ Len(s) = 1 => s = <<s[1]>>
         /\ Len(s) = 2 => s = <<s[1], s[2]>>
         /\ Len(s) = 3 => s = <<s[1]>> \o <<s[2], s[3]>>
<1>1. Len(s) = 1 => s = <<s[1]>>
  OBVIOUS
<1>2. Len(s) = 2 => s = <<s[1], s[2]>>
  OBVIOUS
<1>3. ASSUME Len(s) = 3 PROVE s = <<s[1]>> \o <<s[2], s[3]>>
  <2> DEFINE t == <<s[1]>> \o <<s[2], s[3]>>
  <2>1. s[1] \in Byte /\ s[2] \in Byte /\ s[3] \in Byte
    BY <1>3, ElementOfSeq
  <2>2. /\ <<s[1]>> \in Seq(Byte) /\ Len(<<s[1]>>) = 1
        /\ <<s[2], s[3]>> \in Seq(Byte) /\ Len(<<s[2], s[3]>>) = 2
    BY <2>1
  <2>3. /\ t \in Seq(Byte) /\ Len(t) = 1 + 2
        /\ \A i \in 1 .. 1 + 2 : t[i] = IF i <= 1 THEN <<s[1]>>[i] ELSE <<s[2], s[3]>>[i - 1]
    BY <2>2, ConcatProperties
  <2>4. t[1] = s[1] /\ t[2] = s[2] /\ t[3] = s[3] /\ Len(t) = 3
    BY <2>3
  <2> HIDE DEF t
  <2>5. \A i \in 1 .. 3 : t[i] = s[i]
    BY <2>4
  <2>6. t = s
    BY <1>3, <2>3, <2>4, <2>5, SeqEqual
  <2> QED BY <2>6 DEF t
<1> QED BY <1>1, <1>2, <1>3

LEMMA BytesMakeU16 ==
  ASSUME NEW i \in 0 .. Radix - 1, NEW j \in 0 .. Radix - 1
  PROVE  i * Radix + j < Radix * Radix
<1>1. Radix \in Nat
  BY RadixWidth
<1>2. (Radix - 1 - i) * Radix >= 0
  BY <1>1
<1>3. (Radix - 1 - i) * Radix = Radix * Radix - Radix - i * Radix
  BY <1>1
<1>4. i * Radix \in Int /\ Radix * Radix \in Int
  BY <1>1
<1> QED BY <1>1, <1>2, <1>3, <1>4

\* The bytes a complete code consists of are an encoding of their value.
LEMMA CodeIsEncoding ==
  ASSUME NEW b \in Seq(Byte), CodeComplete(b)
  PROVE  /\ CodeLength(b[1]) \in 0 .. Len(b)
         /\ CodeValue(b) < U16 /\ SubSeq(b, 1, CodeLength(b[1])) \in Encodings255(CodeValue(b))
<1> DEFINE n == CodeLength(b[1])
           front == SubSeq(b, 1, n)
           v == CodeValue(b)
<1>1. Len(b) \in Nat /\ n <= Len(b) /\ n \in 1 .. 3
  BY LenProperties DEF CodeComplete, CodeLength
<1>2. /\ front \in Seq(Byte) /\ Len(front) = n
      /\ \A i \in 1 .. n : front[i] = b[i]
  <2>1. n \in 0 .. Len(b)
    BY <1>1
  <2> HIDE DEF n
  <2> QED BY <2>1, FrontProperties
<1>3. \A i \in 1 .. n : b[i] \in 0 .. Radix - 1 /\ b[i] \in Nat
  <2>1. \A i \in 1 .. Len(b) : b[i] \in Byte
    BY ElementOfSeq
  <2> QED BY <1>1, <2>1, RadixWidth DEF Byte
<1>4. /\ Radix \in Nat /\ Radix >= 4 /\ U16 = Radix * Radix
      /\ WORD_CODE = Radix - 3 /\ ONE_MORE_BYTE_CODE_2 = Radix - 2
      /\ ONE_MORE_BYTE_CODE_1 = Radix - 1 /\ LOWEST_UCODE = Radix - 3
  BY RadixWidth DEF U16, WORD_CODE, ONE_MORE_BYTE_CODE_1, ONE_MORE_BYTE_CODE_2, LOWEST_UCODE
<1>5. U16 >= 4 * Radix
  BY <1>4
<1>6. CASE b[1] = WORD_CODE
  <2>1. n = 3 /\ v = b[2] * Radix + b[3]
    BY <1>4, <1>6 DEF CodeLength, CodeValue
  <2>2. b[2] \in 0 .. Radix - 1 /\ b[3] \in 0 .. Radix - 1
    BY <1>3, <2>1
  <2>3. v \div Radix = b[2] /\ v % Radix = b[3] /\ b[2] % Radix = b[2]
    <3>1. Radix > 0 /\ b[2] \in Nat
      BY <1>4, <2>2
    <3>2. /\ (b[2] * Radix + b[3]) \div Radix = b[2]
          /\ (b[2] * Radix + b[3]) % Radix = b[3]
      <4>1. PICK q \in Int, r \in 0 .. Radix - 1 : q = b[2] /\ r = b[3]
        BY <2>2, <3>1
      <4>2. (q * Radix + r) \div Radix = q /\ (q * Radix + r) % Radix = r
        BY <1>4, <3>1, QuotientAndRest
      <4> QED BY <4>1, <4>2
    <3>3. \A r \in 0 .. Radix - 1 : r % Radix = r
      BY <1>4
    <3> HIDE DEF v
    <3> QED BY <2>1, <2>2, <3>2, <3>3
  <2>4. v < U16
    <3>1. \A i, j \in 0 .. Radix - 1 : i * Radix + j < Radix * Radix
      BY <1>4, BytesMakeU16
    <3> QED BY <1>4, <2>1, <2>2, <3>1
  <2>5. BigEndian16(v) = <<b[2], b[3]>>
    BY <2>3 DEF BigEndian16
  <2> HIDE DEF n, v
  <2>6. front = <<WORD_CODE>> \o BigEndian16(v)
    <3>1. Len(front) = 3 /\ front[1] = WORD_CODE /\ front[2] = b[2] /\ front[3] = b[3]
      BY <1>2, <1>6, <2>1
    <3> HIDE DEF front
    <3>2. front = <<front[1]>> \o <<front[2], front[3]>>
      BY <1>2, <3>1, ShortSequences
    <3> QED BY <2>5, <3>1, <3>2
  <2>7. front \in Encodings255(v)
    BY <2>6 DEF Encodings255
  <2> QED BY <1>1, <2>1, <2>4, <2>7 DEF n, v
<1>7. CASE b[1] \in {ONE_MORE_BYTE_CODE_1, ONE_MORE_BYTE_CODE_2}
  <2>1. b[1] # WORD_CODE
    BY <1>4, <1>7
  <2>2. n = 2
    BY <1>7, <2>1 DEF CodeLength
  <2>3. b[2] \in 0 .. Radix - 1 /\ b[2] \in Byte
    BY <1>3, <2>2 DEF Byte
  <2> HIDE DEF n
  <2>4. front = <<b[1], b[2]>>
    <3>1. Len(front) = 2 /\ front[1] = b[1] /\ front[2] = b[2]
      BY <1>2, <2>2
    <3> HIDE DEF front
    <3> QED BY <1>2, <3>1, ShortSequences
  <2>5. CASE b[1] = ONE_MORE_BYTE_CODE_1
    <3>1. v = b[2] + LOWEST_UCODE
      BY <1>4, <2>1, <2>5 DEF CodeValue
    <3> HIDE DEF v
    <3>2. v < U16 /\ v - LOWEST_UCODE = b[2]
      BY <1>4, <1>5, <2>3, <3>1
    <3>3. front \in Encodings255(v)
      BY <2>3, <2>4, <2>5, <3>2 DEF Encodings255
    <3> QED BY <1>1, <2>2, <3>2, <3>3 DEF n, v
  <2>6. CASE b[1] = ONE_MORE_BYTE_CODE_2
    <3>1. b[1] # ONE_MORE_BYTE_CODE_1
      BY <1>4, <2>6
    <3>2. v = b[2] + 2 * LOWEST_UCODE
      BY <2>1, <2>6, <3>1 DEF CodeValue
    <3>3. v < U16 /\ v - 2 * LOWEST_UCODE = b[2]
      BY <1>4, <1>5, <2>3, <3>2
    <3> HIDE DEF v
    <3>4. front \in Encodings255(v)
      BY <2>3, <2>4, <2>6, <3>3 DEF Encodings255
    <3> QED BY <1>1, <2>2, <3>3, <3>4 DEF n, v
  <2> QED BY <1>7, <2>5, <2>6
<1>8. CASE b[1] \notin {WORD_CODE, ONE_MORE_BYTE_CODE_1, ONE_MORE_BYTE_CODE_2}
  <2>1. n = 1
    BY <1>8 DEF CodeLength
  <2>2. v = b[1]
    BY <1>8 DEF CodeValue
  <2>3. b[1] \in 0 .. LOWEST_UCODE - 1 /\ b[1] < U16
    <3>1. b[1] \in 0 .. Radix - 1
      BY <1>3, <2>1
    <3> QED BY <1>4, <1>5, <1>8, <3>1
  <2> HIDE DEF n, v
  <2>4. front = <<b[1]>>
    <3>1. Len(front) = 1 /\ front[1] = b[1]
      BY <1>2, <2>1
    <3> HIDE DEF front
    <3> QED BY <1>2, <3>1, ShortSequences
  <2>5. front \in Encodings255(v)
    BY <2>2, <2>3, <2>4 DEF Encodings255
  <2> QED BY <1>1, <2>1, <2>2, <2>3, <2>5 DEF n, v
<1> QED BY <1>6, <1>7, <1>8

\* A buffer that starts with an encoding starts with a complete code.
LEMMA NoCodeAtFront ==
  ASSUME NEW b \in Seq(Byte), ~CodeComplete(b), NEW n \in 1 .. Len(b), NEW v \in 0 .. U16 - 1
  PROVE  SubSeq(b, 1, n) \notin Encodings255(v)
<1> DEFINE front == SubSeq(b, 1, n)
<1> SUFFICES ASSUME front \in Encodings255(v) PROVE FALSE
  OBVIOUS
<1>1. Len(b) \in Nat /\ n \in 0 .. Len(b) /\ n <= Len(b)
  BY LenProperties
<1>2. front \in Seq(Byte) /\ Len(front) = n /\ front[1] = b[1]
  BY <1>1, FrontProperties
<1>3. /\ Radix \in Nat /\ Radix >= 4
      /\ WORD_CODE = Radix - 3 /\ ONE_MORE_BYTE_CODE_2 = Radix - 2
      /\ ONE_MORE_BYTE_CODE_1 = Radix - 1 /\ LOWEST_UCODE = Radix - 3
  BY RadixWidth DEF WORD_CODE, ONE_MORE_BYTE_CODE_1, ONE_MORE_BYTE_CODE_2, LOWEST_UCODE
<1>4. b # << >>
  BY <1>1, EmptySeq
<1> HIDE DEF front
<1>5. CASE \E c \in 0 .. LOWEST_UCODE - 1 : front = <<c>>
  <2>1. n = 1 /\ b[1] \in 0 .. LOWEST_UCODE - 1
    BY <1>2, <1>5
  <2>2. CodeLength(b[1]) = 1
    BY <1>3, <2>1 DEF CodeLength
  <2> QED BY <1>1, <1>4, <2>1, <2>2 DEF CodeComplete
<1>6. CASE \E c \in {ONE_MORE_BYTE_CODE_1, ONE_MORE_BYTE_CODE_2}, d \in Byte : front = <<c, d>>
  <2>1. n = 2 /\ b[1] \in {ONE_MORE_BYTE_CODE_1, ONE_MORE_BYTE_CODE_2}
    BY <1>2, <1>6
  <2>2. CodeLength(b[1]) = 2
    BY <1>3, <2>1 DEF CodeLength
  <2> QED BY <1>1, <1>4, <2>1, <2>2 DEF CodeComplete
<1>7. CASE front = <<WORD_CODE>> \o BigEndian16(v)
  <2>1. n = 3 /\ b[1] = WORD_CODE
    BY <1>2, <1>7 DEF BigEndian16
  <2>2. CodeLength(b[1]) = 3
    BY <1>3, <2>1 DEF CodeLength
  <2> QED BY <1>1, <1>4, <2>1, <2>2 DEF CodeComplete
<1> QED BY <1>5, <1>6, <1>7 DEF Encodings255, front

Inv255 == request.call = "255_u16" =>
  /\ outcome = "running" => input = request.input
  /\ Reads255

LEMMA Kept255 == TypeInv /\ Inv255 /\ Next => Inv255'
<1> SUFFICES ASSUME TypeInv, Inv255, Next, request'.call = "255_u16"
             PROVE  Inv255'
  BY DEF Inv255
<1>1. request' = request /\ request.call = "255_u16"
  BY ReadLengths
<1>2. ~Base128 /\ ~CopyRefused /\ ~CopyLast /\ ~CopyChunk
  BY <1>1 DEF Base128, Base128Truncated, Base128LeadingZero, Base128Overflow, Base128Byte,
              MoreThan5Bytes, AtByte, InBase128, CopyRefused, CopyLast, CopyChunk, CanCopy, InCall
<1>3. /\ outcome = "running" /\ input = request.input /\ input \in Seq(Byte)
      /\ Len(input) \in Nat /\ Consumed = 0
  <2>1. outcome = "running"
    BY <1>2 DEF Next, Get255, Get255Truncated, InCall
  <2> QED BY <1>1, <2>1, RequestType DEF Inv255, TypeInv, Consumed
<1>4. CASE Get255
  <2>1. CodeComplete(input) /\ accum' = CodeValue(input) /\ outcome' = "ok"
        /\ Advance(CodeLength(input[1]))
    BY <1>4 DEF Get255
  <2>2. CodeLength(input[1]) \in 0 .. Len(input) /\ CodeValue(input) < U16
        /\ SubSeq(input, 1, CodeLength(input[1])) \in Encodings255(CodeValue(input))
    BY <1>3, <2>1, CodeIsEncoding
  <2>3. Consumed' = 0 + CodeLength(input[1])
    BY <1>1, <1>3, <2>1, <2>2, ReadsOn
  <2>4. Front(Consumed)' = SubSeq(input, 1, CodeLength(input[1]))
    BY <1>1, <1>3, <2>2, <2>3 DEF Front
  <2>5. Reads255'
    BY <2>1, <2>2, <2>4 DEF Reads255, Encodings255
  <2> QED BY <2>1, <2>5 DEF Inv255
<1>5. CASE Get255Truncated
  <2>1. outcome' = "Truncated" /\ ~CodeComplete(input)
    BY <1>5 DEF Get255Truncated, Fail
  <2>2. \A n \in 1 .. Len(input), v \in 0 .. U16 - 1 : SubSeq(input, 1, n) \notin Encodings255(v)
    BY <1>3, <2>1, NoCodeAtFront
  <2>3. Reads255'
    BY <1>1, <1>3, <2>1, <2>2 DEF Reads255, Front, Encodings255
  <2> QED BY <2>1, <2>3 DEF Inv255
<1> QED BY <1>2, <1>4, <1>5 DEF Next

\* A 255UInt16 is read as one of the ways to write its value, its bytes and no
\* more are consumed, and a buffer that starts with any of them is not refused.
THEOREM Value255IsRead == Spec => []Reads255
<1>1. Init => Inv255
  BY DEF Init, Inv255, Reads255, Ended
<1>2. TypeInv /\ Inv255 /\ [Next]_vars => Inv255'
  <2>1. TypeInv /\ Inv255 /\ UNCHANGED vars => Inv255'
    BY DEF Inv255, vars, Reads255, Ended, Front, Consumed, Encodings255
  <2> QED BY <2>1, Kept255
<1>3. TypeInv /\ Inv255 => Reads255
  BY DEF Inv255, Reads255, Ended
<1> QED BY <1>1, <1>2, <1>3, TypeInvariance, PTL DEF Spec
-----------------------------------------------------------------------------
(* try_get_base_128. A UIntBase128 has at most five groups, so that what    *)
(* follows is about five weights and five partial values.                  *)

LEMMA HalfWidth == Half \in Nat /\ Half >= 2 /\ Radix = 2 * Half
BY RadixWidth, GroupAssumption DEF Half

\* The largest value that may be shifted by a group.
LEMMA OverflowLimit ==
  ASSUME NEW v \in Nat
  PROVE  /\ v < U32 \div Half => v * Half + (Half - 1) < U32 /\ v * Half < U32
         /\ v >= U32 \div Half => v * Half >= U32
<1> DEFINE q == 16 * (Half * Half * Half)
<1>1. Half \in Nat /\ Half >= 2 /\ U32 = (2 * Half) * (2 * Half) * ((2 * Half) * (2 * Half))
  BY HalfWidth DEF U32, U16
<1>2. q \in Nat /\ U32 = q * Half
  BY <1>1
<1>3. U32 \div Half = q
  <2> HIDE DEF q
  <2>1. (q * Half + 0) \div Half = q
    BY <1>1, <1>2, QuotientAndRest
  <2>2. q * Half + 0 = U32
    BY <1>1, <1>2
  <2> QED BY <2>1, <2>2
<1> HIDE DEF q
<1>4. ASSUME v < q PROVE v * Half + Half <= q * Half
  <2>1. (q - v - 1) * Half >= 0
    BY <1>1, <1>2, <1>4
  <2>2. (q - v - 1) * Half = q * Half - v * Half - Half
    BY <1>1, <1>2
  <2> QED BY <1>1, <1>2, <2>1, <2>2
<1>5. ASSUME v >= q PROVE v * Half >= q * Half
  <2>1. (v - q) * Half >= 0
    BY <1>1, <1>2, <1>5
  <2>2. (v - q) * Half = v * Half - q * Half
    BY <1>1, <1>2
  <2> QED BY <1>1, <1>2, <2>1, <2>2
<1> QED BY <1>1, <1>2, <1>3, <1>4, <1>5
-----------------------------------------------------------------------------
(* The weights of the groups.                                              *)

LEMMA WeightNext ==
  /\ Weight(0) = 1
  /\ \A k \in 0 .. 4 : Weight(k + 1) = Weight(k) * Half
BY HalfWidth DEF Weight

LEMMA WeightType == \A k \in 0 .. 5 : Weight(k) \in Nat /\ Weight(k) >= 1
<1>1. \A w \in Nat : w >= 1 => w * Half \in Nat /\ w * Half >= 1
  BY HalfWidth
<1>2. Weight(0) \in Nat /\ Weight(0) >= 1
  BY WeightNext
<1>3. ASSUME NEW k \in 0 .. 4, Weight(k) \in Nat /\ Weight(k) >= 1
      PROVE  Weight(k + 1) \in Nat /\ Weight(k + 1) >= 1
  BY <1>1, <1>3, WeightNext
<1>4. Weight(1) \in Nat /\ Weight(1) >= 1
  BY <1>2, <1>3
<1>5. Weight(2) \in Nat /\ Weight(2) >= 1
  BY <1>4, <1>3
<1>6. Weight(3) \in Nat /\ Weight(3) >= 1
  BY <1>5, <1>3
<1>7. Weight(4) \in Nat /\ Weight(4) >= 1
  BY <1>6, <1>3
<1>8. Weight(5) \in Nat /\ Weight(5) >= 1
  BY <1>7, <1>3
<1> QED BY <1>2, <1>4, <1>5, <1>6, <1>7, <1>8

LEMMA WeightGrows == \A i, j \in 0 .. 5 : i < j => Weight(i) < Weight(j) /\ Weight(i) * Half <= Weight(j)
<1>1. ASSUME NEW k \in 0 .. 4 PROVE Weight(k) < Weight(k + 1)
  <2>1. Weight(k) \in Nat /\ Weight(k) >= 1 /\ Weight(k + 1) = Weight(k) * Half
    BY WeightType, WeightNext
  <2>2. \A w \in Nat : w >= 1 => w < w * Half
    BY HalfWidth
  <2> QED BY <2>1, <2>2
<1>2. /\ Weight(0) < Weight(1) /\ Weight(1) < Weight(2) /\ Weight(2) < Weight(3)
      /\ Weight(3) < Weight(4) /\ Weight(4) < Weight(5)
  <2>1. Weight(0) < Weight(0 + 1) /\ Weight(1) < Weight(1 + 1) /\ Weight(2) < Weight(2 + 1)
        /\ Weight(3) < Weight(3 + 1) /\ Weight(4) < Weight(4 + 1)
    BY <1>1
  <2> QED BY <2>1
<1>3. /\ Weight(0) \in Nat /\ Weight(1) \in Nat /\ Weight(2) \in Nat
      /\ Weight(3) \in Nat /\ Weight(4) \in Nat /\ Weight(5) \in Nat
  BY WeightType
<1>4. \A i, j \in 0 .. 5 : i < j => Weight(i) < Weight(j)
  BY <1>2, <1>3
<1>5. \A i, j \in 0 .. 5 : i <= j => Weight(i) <= Weight(j)
  BY <1>2, <1>3
<1>6. ASSUME NEW i \in 0 .. 5, NEW j \in 0 .. 5, i < j PROVE Weight(i) * Half <= Weight(j)
  <2>1. i \in 0 .. 4 /\ i + 1 \in 0 .. 5 /\ i + 1 <= j
    BY <1>6
  <2> QED BY <1>5, <2>1, WeightNext
<1> QED BY <1>4, <1>6

\* A value has one number of groups.
LEMMA GroupsOf ==
  ASSUME NEW v \in Nat, NEW k \in 1 .. 5, v < Weight(k), k > 1 => v >= Weight(k - 1)
  PROVE  Groups128(v) = k
<1>1. ASSUME NEW j \in 1 .. 5, v < Weight(j), j > 1 => v >= Weight(j - 1) PROVE j = k
  <2>1. /\ Weight(j) \in Nat /\ Weight(k) \in Nat /\ Weight(j - 1) \in Nat /\ Weight(k - 1) \in Nat
    BY WeightType
  <2>2. ASSUME j < k PROVE FALSE
    <3>1. j = k - 1 \/ Weight(j) < Weight(k - 1)
      BY <2>2, WeightGrows
    <3>2. v >= Weight(k - 1)
      BY <2>2
    <3> QED BY <1>1, <2>1, <3>1, <3>2
  <2>3. ASSUME k < j PROVE FALSE
    <3>1. k = j - 1 \/ Weight(k) < Weight(j - 1)
      BY <2>3, WeightGrows
    <3>2. v >= Weight(j - 1)
      BY <1>1, <2>3
    <3> QED BY <1>1, <2>1, <3>1, <3>2
  <2> QED BY <2>2, <2>3
<1> QED BY <1>1 DEF Groups128

LEMMA GroupsExist ==
  ASSUME NEW v \in Nat, v < Weight(5)
  PROVE  /\ Groups128(v) \in 1 .. 5 /\ v < Weight(Groups128(v))
         /\ Groups128(v) > 1 => v >= Weight(Groups128(v) - 1)
<1>1. PICK k \in 1 .. 5 : v < Weight(k) /\ (k > 1 => v >= Weight(k - 1))
  <2>1. /\ Weight(1) \in Nat /\ Weight(2) \in Nat /\ Weight(3) \in Nat /\ Weight(4) \in Nat
        /\ Weight(5) \in Nat
    BY WeightType
  <2>2. CASE v < Weight(1)
    BY <2>2
  <2>3. CASE v >= Weight(1) /\ v < Weight(2)
    BY <2>3
  <2>4. CASE v >= Weight(2) /\ v < Weight(3)
    BY <2>4
  <2>5. CASE v >= Weight(3) /\ v < Weight(4)
    BY <2>5
  <2>6. CASE v >= Weight(4) /\ v < Weight(5)
    BY <2>6
  <2> QED BY <2>1, <2>2, <2>3, <2>4, <2>5, <2>6
<1> QED BY <1>1, GroupsOf
-----------------------------------------------------------------------------
(* The number the first n groups of a buffer spell, written out.           *)

Group(b, i) == b[i] % Half
Value(b, n) ==
  << 0,
     Group(b, 1),
     Group(b, 1) * Half + Group(b, 2),
     (Group(b, 1) * Half + Group(b, 2)) * Half + Group(b, 3),
     ((Group(b, 1) * Half + Group(b, 2)) * Half + Group(b, 3)) * Half + Group(b, 4),
     (((Group(b, 1) * Half + Group(b, 2)) * Half + Group(b, 3)) * Half + Group(b, 4)) * Half
        + Group(b, 5) >>[n + 1]

LEMMA GroupType ==
  ASSUME NEW b \in Seq(Byte), NEW i \in 1 .. Len(b)
  PROVE  /\ b[i] \in Nat /\ Group(b, i) \in 0 .. Half - 1
         /\ b[i] = Group(b, i) + (IF b[i] >= Half THEN Half ELSE 0)
<1>1. b[i] \in 0 .. 2 * Half - 1
  BY ElementOfSeq, HalfWidth DEF Byte
<1>2. Half \in Nat /\ Half >= 2
  BY HalfWidth
<1>3. CASE b[i] >= Half
  <2>1. PICK r \in 0 .. Half - 1 : b[i] = 1 * Half + r
    <3>1. b[i] - Half \in 0 .. Half - 1 /\ b[i] = 1 * Half + (b[i] - Half)
      BY <1>1, <1>2, <1>3
    <3> QED BY <3>1
  <2>2. (1 * Half + r) % Half = r
    BY <1>2, QuotientAndRest
  <2> QED BY <1>1, <1>2, <1>3, <2>1, <2>2 DEF Group
<1>4. CASE b[i] < Half
  BY <1>1, <1>2, <1>4 DEF Group
<1> QED BY <1>1, <1>2, <1>3, <1>4

LEMMA ValueNext ==
  ASSUME NEW b \in Seq(Byte), NEW n \in 0 .. 4, n < Len(b)
  PROVE  Value(b, n + 1) = Value(b, n) * Half + Group(b, n + 1)
<1>1. Half \in Nat
  BY HalfWidth
<1>2. Group(b, n + 1) \in Nat
  BY LenProperties, GroupType
<1> QED BY <1>1, <1>2 DEF Value

LEMMA ValueOfNone == \A b : Value(b, 0) = 0
BY DEF Value

\* A value of n groups lies below the weight of the next one, and not below that
\* of the last unless the first group is zero.
LEMMA ValueBounds ==
  ASSUME NEW b \in Seq(Byte)
  PROVE  \A n \in 0 .. 5 : n <= Len(b) =>
           /\ Value(b, n) \in Nat /\ Value(b, n) < Weight(n)
           /\ n > 0 /\ Group(b, 1) # 0 => Value(b, n) >= Weight(n - 1)
<1> DEFINE Bounded(n) == n <= Len(b) =>
                           /\ Value(b, n) \in Nat /\ Value(b, n) < Weight(n)
                           /\ n > 0 /\ Group(b, 1) # 0 => Value(b, n) >= Weight(n - 1)
<1>1. Bounded(0)
  BY ValueOfNone, WeightNext
<1>2. Len(b) \in Nat /\ Half \in Nat /\ Half >= 2
  BY LenProperties, HalfWidth
<1>3. ASSUME NEW n \in 0 .. 4, Bounded(n) PROVE Bounded(n + 1)
  <2> SUFFICES ASSUME n + 1 <= Len(b)
               PROVE  /\ Value(b, n + 1) \in Nat /\ Value(b, n + 1) < Weight(n + 1)
                      /\ Group(b, 1) # 0 => Value(b, n + 1) >= Weight(n)
    BY <1>2
  <2>1. n < Len(b) /\ n <= Len(b) /\ n + 1 \in 1 .. Len(b)
    BY <1>2
  <2>2. Value(b, n + 1) = Value(b, n) * Half + Group(b, n + 1)
    BY <2>1, ValueNext
  <2>3. Group(b, n + 1) \in 0 .. Half - 1
    BY <2>1, GroupType
  <2>4. Value(b, n) \in Nat /\ Value(b, n) < Weight(n) /\ Weight(n) \in Nat
        /\ Weight(n + 1) = Weight(n) * Half /\ Weight(n + 1) \in Nat
    BY <1>3, <2>1, WeightNext, WeightType, SMTT(20)
  <2>5. ASSUME NEW v \in Nat, NEW w \in Nat, v < w, NEW g \in 0 .. Half - 1
        PROVE  v * Half + g \in Nat /\ v * Half + g < w * Half
    <3>1. (w - v - 1) * Half >= 0
      BY <1>2, <2>5
    <3>2. (w - v - 1) * Half = w * Half - v * Half - Half
      BY <1>2
    <3> QED BY <1>2, <3>1, <3>2
  <2>6. Value(b, n + 1) \in Nat /\ Value(b, n + 1) < Weight(n + 1)
    BY <2>2, <2>3, <2>4, <2>5
  <2>7. ASSUME Group(b, 1) # 0 PROVE Value(b, n + 1) >= Weight(n)
    <3>1. CASE n = 0
      BY <1>2, <2>2, <2>3, <2>7, <3>1, ValueOfNone, WeightNext
    <3>2. CASE n > 0
      <4>1. Value(b, n) >= Weight(n - 1) /\ Weight(n - 1) \in Nat
            /\ Weight(n) = Weight(n - 1) * Half
        <5>1. n - 1 \in 0 .. 4 /\ (n - 1) + 1 = n
          BY <3>2
        <5> QED BY <1>3, <2>1, <2>7, <3>2, <5>1, WeightNext, WeightType, SMTT(20)
      <4>2. ASSUME NEW v \in Nat, NEW w \in Nat, v >= w PROVE v * Half >= w * Half
        <5>1. (v - w) * Half >= 0
          BY <1>2, <4>2
        <5>2. (v - w) * Half = v * Half - w * Half
          BY <1>2
        <5> QED BY <1>2, <5>1, <5>2
      <4>3. Value(b, n) * Half >= Weight(n)
        BY <2>4, <4>1, <4>2
      <4> QED BY <1>2, <2>2, <2>3, <2>4, <4>3
    <3> QED BY <3>1, <3>2
  <2> QED BY <2>6, <2>7
<1> HIDE DEF Bounded
<1>4. Bounded(0) /\ Bounded(1) /\ Bounded(2) /\ Bounded(3) /\ Bounded(4) /\ Bounded(5)
  <2>1. Bounded(0 + 1)
    BY <1>1, <1>3
  <2>2. Bounded(1 + 1)
    BY <2>1, <1>3
  <2>3. Bounded(2 + 1)
    BY <2>2, <1>3
  <2>4. Bounded(3 + 1)
    BY <2>3, <1>3
  <2>5. Bounded(4 + 1)
    BY <2>4, <1>3
  <2> QED BY <1>1, <2>1, <2>2, <2>3, <2>4, <2>5
<1>5. \A n \in 0 .. 5 : Bounded(n)
  BY <1>4
<1> QED BY <1>5 DEF Bounded

\* The first groups of a value are the value without its last groups.
LEMMA ValueSplit ==
  ASSUME NEW b \in Seq(Byte), NEW i \in 0 .. 5, NEW n \in 0 .. 5, i <= n, n <= Len(b)
  PROVE  \E r \in 0 .. Weight(n - i) - 1 : Value(b, n) = Value(b, i) * Weight(n - i) + r
<1> DEFINE Split(j) == \A k \in 0 .. 5 : k + j <= 5 /\ k + j <= Len(b) =>
             \E r \in 0 .. Weight(j) - 1 : Value(b, k + j) = Value(b, k) * Weight(j) + r
<1>1. Len(b) \in Nat /\ Half \in Nat /\ Half >= 2
  BY LenProperties, HalfWidth
<1>2. Split(0)
  <2>1. ASSUME NEW k \in 0 .. 5, k + 0 <= Len(b)
        PROVE  0 \in 0 .. Weight(0) - 1 /\ Value(b, k + 0) = Value(b, k) * Weight(0) + 0
    <3>1. Value(b, k) \in Nat /\ k + 0 = k
      BY <1>1, <2>1, ValueBounds
    <3> QED BY <3>1, WeightNext
  <2> QED BY <2>1
<1>3. ASSUME NEW j \in 0 .. 4, Split(j) PROVE Split(j + 1)
  <2> SUFFICES ASSUME NEW k \in 0 .. 5, k + (j + 1) <= 5, k + (j + 1) <= Len(b)
               PROVE  \E r \in 0 .. Weight(j + 1) - 1 :
                        Value(b, k + (j + 1)) = Value(b, k) * Weight(j + 1) + r
    OBVIOUS
  <2>1. k + j \in 0 .. 4 /\ k + j < Len(b) /\ k + j <= 5 /\ (k + j) + 1 = k + (j + 1)
        /\ k <= Len(b) /\ (k + j) + 1 \in 1 .. Len(b)
    BY <1>1
  <2>2. PICK r \in 0 .. Weight(j) - 1 : Value(b, k + j) = Value(b, k) * Weight(j) + r
    <3>1. k + j <= 5 /\ k + j <= Len(b)
      BY <1>1, <2>1
    <3> QED BY <1>3, <3>1
  <2>3. Value(b, k + (j + 1)) = Value(b, k + j) * Half + Group(b, (k + j) + 1)
    BY <2>1, ValueNext
  <2>4. PICK g \in 0 .. Half - 1 : g = Group(b, (k + j) + 1)
    BY <2>1, GroupType
  <2>5. Weight(j) \in Nat /\ Weight(j + 1) = Weight(j) * Half /\ Value(b, k) \in Nat
    <3>1. Weight(j) \in Nat /\ Weight(j + 1) = Weight(j) * Half
      <4>1. j \in 0 .. 5
        OBVIOUS
      <4>2. Weight(j) \in Nat
        BY <4>1, WeightType
      <4>3. Weight(j + 1) = Weight(j) * Half
        BY WeightNext
      <4> QED BY <4>2, <4>3
    <3>2. Value(b, k) \in Nat
      BY <2>1, ValueBounds
    <3> QED BY <3>1, <3>2
  <2>6. ASSUME NEW v \in Nat, NEW w \in Nat, NEW s \in 0 .. w - 1
        PROVE  /\ (v * w + s) * Half + g = v * (w * Half) + (s * Half + g)
               /\ s * Half + g \in 0 .. (w * Half) - 1
    <3>1. (w - s - 1) * Half >= 0
      BY <1>1, <2>6
    <3>2. (w - s - 1) * Half = w * Half - s * Half - Half
      BY <1>1
    <3>3. s * Half \in Nat /\ w * Half \in Nat /\ v * (w * Half) = (v * w) * Half
      BY <1>1
    <3>4. (v * w + s) * Half = (v * w) * Half + s * Half
      BY <1>1
    <3>5. (v * w) * Half \in Nat
      BY <1>1
    <3> QED BY <1>1, <3>1, <3>2, <3>3, <3>4, <3>5
  <2>7. Value(b, k + (j + 1)) = (Value(b, k) * Weight(j) + r) * Half + g
    BY <2>2, <2>3, <2>4
  <2>8. /\ Value(b, k + (j + 1)) = Value(b, k) * Weight(j + 1) + (r * Half + g)
        /\ r * Half + g \in 0 .. Weight(j + 1) - 1
    BY <2>5, <2>6, <2>7
  <2> QED BY <2>8
<1>4. n - i \in 0 .. 5 /\ i + (n - i) = n
  OBVIOUS
<1>5. Split(n - i)
  <2> HIDE DEF Split
  <2>1. Split(0 + 1)
    BY <1>2, <1>3
  <2>2. Split(1 + 1)
    BY <2>1, <1>3
  <2>3. Split(2 + 1)
    BY <2>2, <1>3
  <2>4. Split(3 + 1)
    BY <2>3, <1>3
  <2>5. Split(4 + 1)
    BY <2>4, <1>3
  <2>6. Split(0) /\ Split(1) /\ Split(2) /\ Split(3) /\ Split(4) /\ Split(5)
    BY <1>2, <2>1, <2>2, <2>3, <2>4, <2>5
  <2> QED BY <1>4, <2>6
<1>6. PICK j \in 0 .. 5 : j = n - i /\ i + j = n
  BY <1>4
<1>7. \E r \in 0 .. Weight(j) - 1 : Value(b, i + j) = Value(b, i) * Weight(j) + r
  <2>1. i + j <= 5 /\ i + j <= Len(b) /\ Split(j)
    BY <1>5, <1>6
  <2> QED BY <2>1
<1> QED BY <1>6, <1>7

\* Dividing by a weight takes the groups before it, and the remainder modulo
\* Half the last of them.
LEMMA ValueDigits ==
  ASSUME NEW b \in Seq(Byte), NEW n \in 1 .. 5, NEW i \in 1 .. n, n <= Len(b)
  PROVE  /\ Value(b, n) \div Weight(n - i) = Value(b, i)
         /\ Value(b, i) % Half = Group(b, i)
<1>1. Len(b) \in Nat /\ Half \in Nat /\ Half >= 2
  BY LenProperties, HalfWidth
<1>2. i \in 0 .. 5 /\ n \in 0 .. 5 /\ n - i \in 0 .. 5 /\ i - 1 \in 0 .. 4 /\ (i - 1) + 1 = i
      /\ i <= n /\ i <= Len(b) /\ i - 1 < Len(b) /\ i \in 1 .. Len(b) /\ i - 1 \in 0 .. 5
      /\ i - 1 <= Len(b)
  BY <1>1
<1>3. Value(b, i) \in Nat /\ Value(b, i - 1) \in Nat /\ Weight(n - i) \in Nat /\ Weight(n - i) > 0
  <2>1. Weight(n - i) \in Nat /\ Weight(n - i) >= 1
    BY <1>2, WeightType
  <2>2. Value(b, i) \in Nat /\ Value(b, i - 1) \in Nat
    BY <1>2, ValueBounds
  <2> QED BY <2>1, <2>2
<1>4. PICK r \in 0 .. Weight(n - i) - 1 : Value(b, n) = Value(b, i) * Weight(n - i) + r
  BY <1>2, ValueSplit
<1>5. Value(b, n) \div Weight(n - i) = Value(b, i)
  <2>1. PICK q \in Int, d \in Nat : q = Value(b, i) /\ d = Weight(n - i)
    BY <1>3
  <2>2. (q * d + r) \div d = q
    BY <1>3, <1>4, <2>1, QuotientAndRest
  <2> QED BY <1>4, <2>1, <2>2
<1>6. Value(b, i) = Value(b, i - 1) * Half + Group(b, i)
  BY <1>2, ValueNext
<1>7. Value(b, i) % Half = Group(b, i)
  <2>1. Group(b, i) \in 0 .. Half - 1
    BY <1>2, GroupType
  <2>2. (Value(b, i - 1) * Half + Group(b, i)) % Half = Group(b, i)
    <3>1. PICK g \in 0 .. Half - 1 : g = Group(b, i)
      BY <2>1
    <3>2. PICK q \in Nat : q = Value(b, i - 1)
      BY <1>3
    <3>3. (q * Half + g) % Half = g
      BY <1>1, QuotientAndRest
    <3> QED BY <3>1, <3>2, <3>3
  <2> QED BY <1>6, <2>2
<1> QED BY <1>5, <1>7
-----------------------------------------------------------------------------
(* Encodings.                                                              *)

\* The first n bytes of b are groups that continue, but for the last, and the
\* first is not empty unless it is the only one.
Encoded(b, n) == /\ \A i \in 1 .. n - 1 : b[i] >= Half
                 /\ b[n] < Half
                 /\ n > 1 => b[1] # Half

LEMMA GroupsOfValue ==
  ASSUME NEW b \in Seq(Byte), NEW n \in 1 .. 5, n <= Len(b), Encoded(b, n)
  PROVE  Groups128(Value(b, n)) = n
<1>1. Len(b) \in Nat /\ n \in 0 .. 5 /\ 1 \in 1 .. Len(b)
  BY LenProperties
<1>2. Value(b, n) \in Nat /\ Value(b, n) < Weight(n)
  BY <1>1, ValueBounds
<1>3. ASSUME n > 1 PROVE Value(b, n) >= Weight(n - 1)
  <2>1. b[1] >= Half /\ b[1] # Half
    BY <1>3 DEF Encoded
  <2>2. b[1] \in Nat /\ Half \in Nat /\ b[1] = Group(b, 1) + Half /\ Group(b, 1) \in 0 .. Half - 1
    BY <1>1, <2>1, GroupType, HalfWidth
  <2>3. Group(b, 1) # 0
    BY <2>1, <2>2
  <2> QED BY <1>1, <2>3, ValueBounds
<1> QED BY <1>2, <1>3, GroupsOf

LEMMA EncodedIsEncoding ==
  ASSUME NEW b \in Seq(Byte), NEW n \in 1 .. 5, n <= Len(b), Encoded(b, n)
  PROVE  SubSeq(b, 1, n) = Encoding128(Value(b, n))
<1> DEFINE e(i) == ((Value(b, n) \div Weight(n - i)) % Half) + IF i < n THEN Half ELSE 0
<1>1. Encoding128(Value(b, n)) = [i \in 1 .. n |-> e(i)]
  BY GroupsOfValue DEF Encoding128
<1>2. Len(b) \in Nat /\ n \in 0 .. Len(b)
  BY LenProperties
<1>3. SubSeq(b, 1, n) \in Seq(Byte) /\ Len(SubSeq(b, 1, n)) = n
      /\ \A i \in 1 .. n : SubSeq(b, 1, n)[i] = b[i]
  BY <1>2, FrontProperties
<1>4. ASSUME NEW i \in 1 .. n PROVE e(i) = b[i]
  <2>1. (Value(b, n) \div Weight(n - i)) % Half = Group(b, i)
    BY ValueDigits
  <2>2. i \in 1 .. Len(b)
    BY <1>2
  <2>3. /\ b[i] \in Nat /\ Group(b, i) \in 0 .. Half - 1 /\ Half \in Nat
        /\ b[i] = Group(b, i) + (IF b[i] >= Half THEN Half ELSE 0)
    BY <2>2, GroupType, HalfWidth
  <2>4. i < n <=> b[i] >= Half
    <3>1. CASE i < n
      <4>1. i \in 1 .. n - 1
        BY <3>1
      <4> QED BY <3>1, <4>1 DEF Encoded
    <3>2. CASE i = n
      BY <2>3, <3>2 DEF Encoded
    <3> QED BY <3>1, <3>2
  <2> QED BY <2>1, <2>3, <2>4
<1>5. DOMAIN SubSeq(b, 1, n) = 1 .. n
  BY <1>3
<1>6. SubSeq(b, 1, n) = [i \in 1 .. n |-> SubSeq(b, 1, n)[i]]
  BY <1>3, <1>5
<1>7. SubSeq(b, 1, n) = [i \in 1 .. n |-> b[i]]
  BY <1>3, <1>6
<1> HIDE DEF e
<1>8. [i \in 1 .. n |-> e(i)] = [i \in 1 .. n |-> b[i]]
  BY <1>4
<1> QED BY <1>1, <1>7, <1>8

\* The other direction.
LEMMA EncodingIsEncoded ==
  ASSUME NEW b \in Seq(Byte), NEW n \in 1 .. 5, n <= Len(b),
         SubSeq(b, 1, n) = Encoding128(Value(b, n))
  PROVE  Encoded(b, n)
<1> DEFINE v == Value(b, n)
           m == Groups128(v)
<1>1. Len(b) \in Nat /\ n \in 0 .. 5 /\ n \in 0 .. Len(b) /\ 1 \in 1 .. Len(b) /\ Half \in Nat
      /\ Half >= 2
  BY LenProperties, HalfWidth
<1>2. v \in Nat /\ v < Weight(n) /\ Weight(n) \in Nat /\ Weight(5) \in Nat
  BY <1>1, ValueBounds, WeightType, SMTT(20)
<1>3. v < Weight(5)
  <2>1. n = 5 \/ Weight(n) < Weight(5)
    BY <1>1, WeightGrows
  <2> QED BY <1>2, <2>1
<1>4. m \in 1 .. 5 /\ v < Weight(m) /\ (m > 1 => v >= Weight(m - 1))
  BY <1>2, <1>3, GroupsExist
<1>5. SubSeq(b, 1, n) \in Seq(Byte) /\ Len(SubSeq(b, 1, n)) = n
      /\ \A i \in 1 .. n : SubSeq(b, 1, n)[i] = b[i]
  BY <1>1, FrontProperties
<1> DEFINE e(i) == ((v \div Weight(m - i)) % Half) + IF i < m THEN Half ELSE 0
<1>6. SubSeq(b, 1, n) = [i \in 1 .. m |-> e(i)]
  BY DEF Encoding128
<1> HIDE DEF e, m
<1>7. m = n
  <2>1. DOMAIN SubSeq(b, 1, n) = 1 .. n /\ DOMAIN SubSeq(b, 1, n) = 1 .. m
    BY <1>5, <1>6
  <2>2. m \in 1 .. n /\ n \in 1 .. m
    BY <1>4, <2>1
  <2> QED BY <1>4, <2>2
<1>8. ASSUME NEW i \in 1 .. n PROVE b[i] = Group(b, i) + IF i < n THEN Half ELSE 0
  <2>1. b[i] = e(i)
    BY <1>5, <1>6, <1>7
  <2>2. (v \div Weight(n - i)) % Half = Group(b, i)
    BY ValueDigits
  <2> QED BY <1>7, <2>1, <2>2 DEF e
<1>9. \A i \in 1 .. n : Group(b, i) \in 0 .. Half - 1
  <2>1. \A i \in 1 .. n : i \in 1 .. Len(b)
    BY <1>1
  <2> QED BY <2>1, GroupType
<1>10. ASSUME NEW i \in 1 .. n - 1 PROVE b[i] >= Half
  <2>1. i \in 1 .. n /\ i < n
    BY <1>1
  <2> QED BY <1>1, <1>8, <1>9, <2>1
<1>11. b[n] < Half
  <2>1. n \in 1 .. n /\ ~(n < n)
    BY <1>1
  <2>2. b[n] = Group(b, n) + 0 /\ Group(b, n) \in 0 .. Half - 1
    BY <1>8, <1>9, <2>1
  <2> QED BY <1>1, <2>2
<1>12. ASSUME n > 1 PROVE b[1] # Half
  <2> SUFFICES ASSUME b[1] = Half PROVE FALSE
    OBVIOUS
  <2>1. b[1] = Group(b, 1) + Half /\ Group(b, 1) \in 0 .. Half - 1
    BY <1>8, <1>9, <1>12
  <2>2. Group(b, 1) = 0
    BY <1>1, <2>1
  <2>3. Value(b, 1) = 0
    <3>1. Value(b, 0 + 1) = Value(b, 0) * Half + Group(b, 0 + 1)
      BY <1>1, ValueNext
    <3> QED BY <1>1, <2>2, <3>1, ValueOfNone
  <2>4. PICK r \in 0 .. Weight(n - 1) - 1 : v = Value(b, 1) * Weight(n - 1) + r
    <3>1. 1 \in 0 .. 5 /\ 1 <= n
      OBVIOUS
    <3> QED BY <1>1, <3>1, ValueSplit
  <2>5. Weight(n - 1) \in Nat /\ v >= Weight(n - 1)
    BY <1>4, <1>7, <1>12, WeightType, SMTT(20)
  <2> QED BY <2>3, <2>4, <2>5
<1> QED BY <1>10, <1>11, <1>12 DEF Encoded
-----------------------------------------------------------------------------
(* The function Spelled is defined with, unfolded.                         *)

LEMMA SpelledIsValue ==
  ASSUME NEW b \in Seq(Byte), NEW n \in 0 .. 5, n <= Len(b)
  PROVE  Spelled(SubSeq(b, 1, n)) = Value(b, n)
<1> DEFINE s == SubSeq(b, 1, n)
           V(f) == f = [k \in 0 .. Len(s) |->
                          IF k = 0 THEN 0 ELSE f[k-1] * Half + (s[k] % Half)]
           F == [k \in 0 .. n |-> Value(b, k)]
<1>1. Len(b) \in Nat /\ n \in 0 .. Len(b)
  BY LenProperties
<1>2. Len(s) = n /\ \A k \in 1 .. n : s[k] = b[k]
  BY <1>1, FrontProperties
<1> HIDE DEF s
<1>3. ASSUME NEW f, V(f) PROVE f[n] = Value(b, n)
  <2>1. f[0] = Value(b, 0)
    BY <1>1, <1>2, <1>3, ValueOfNone
  <2>2. ASSUME NEW k \in 0 .. 4, k < n, f[k] = Value(b, k) PROVE f[k + 1] = Value(b, k + 1)
    <3>1. k + 1 \in 1 .. n /\ k + 1 \in 0 .. n /\ k + 1 # 0 /\ (k + 1) - 1 = k /\ k < Len(b)
      BY <1>1, <2>2
    <3>2. f[k + 1] = f[k] * Half + (s[k + 1] % Half)
      BY <1>2, <1>3, <3>1
    <3> QED BY <1>2, <2>2, <3>1, <3>2, ValueNext DEF Group
  <2>3. n >= 1 => f[0 + 1] = Value(b, 0 + 1)
    BY <2>1, <2>2
  <2>4. n >= 2 => f[1 + 1] = Value(b, 1 + 1)
    BY <2>3, <2>2
  <2>5. n >= 3 => f[2 + 1] = Value(b, 2 + 1)
    BY <2>4, <2>2
  <2>6. n >= 4 => f[3 + 1] = Value(b, 3 + 1)
    BY <2>5, <2>2
  <2>7. n >= 5 => f[4 + 1] = Value(b, 4 + 1)
    BY <2>6, <2>2
  <2> QED BY <2>1, <2>3, <2>4, <2>5, <2>6, <2>7
<1>4. V(F)
  <2>1. ASSUME NEW k \in 0 .. n, k # 0 PROVE F[k] = F[k-1] * Half + (s[k] % Half)
    <3>1. k - 1 \in 0 .. n /\ k - 1 \in 0 .. 4 /\ (k - 1) + 1 = k /\ k - 1 < Len(b) /\ k \in 1 .. n
      BY <1>1, <2>1
    <3>2. F[k] = Value(b, k) /\ F[k-1] = Value(b, k - 1)
      BY <3>1
    <3>3. Value(b, k) = Value(b, k - 1) * Half + Group(b, k)
      BY <3>1, ValueNext
    <3> QED BY <1>2, <3>1, <3>2, <3>3 DEF Group
  <2>2. F[0] = 0
    BY ValueOfNone
  <2>3. F = [k \in 0 .. n |-> F[k]]
    OBVIOUS
  <2> HIDE DEF F
  <2>4. F = [k \in 0 .. n |-> IF k = 0 THEN 0 ELSE F[k-1] * Half + (s[k] % Half)]
    BY <2>1, <2>2, <2>3
  <2> QED BY <1>2, <2>4
<1> HIDE DEF F, V
<1>5. V(CHOOSE f : V(f))
  BY <1>4
<1>6. (CHOOSE f : V(f))[n] = Value(b, n)
  BY <1>3, <1>5
<1> QED BY <1>2, <1>6 DEF Spelled, V, s
-----------------------------------------------------------------------------
(* The loop of try_get_base_128.                                           *)

\* No u32 has its encoding at the front of b.
NoEncoding(b) == \A k \in 1 .. 5 : k <= Len(b) => Value(b, k) >= U32 \/ ~Encoded(b, k)

\* s starts with all of b.
Extends(s, b) == s \in Seq(Byte) /\ Len(b) <= Len(s) /\ \A i \in 1 .. Len(b) : s[i] = b[i]

\* What is accepted is an encoding; what is refused is none, and only a buffer that
\* ends too early can be continued by one.
Inv128 == request.call = "base_128" =>
  /\ Consumed \in 0 .. 5
  /\ outcome = "running" =>
       /\ \A i \in 1 .. Consumed : request.input[i] >= Half
       /\ Consumed > 0 => request.input[1] # Half
       /\ accum = Value(request.input, Consumed)
  /\ outcome = "ok" =>
       /\ Consumed > 0 /\ Encoded(request.input, Consumed)
       /\ accum = Value(request.input, Consumed) /\ accum < U32
  /\ outcome \notin {"running", "ok"} => NoEncoding(request.input)
  /\ outcome \notin {"running", "ok", "Truncated"} =>
       \A s : Extends(s, request.input) => NoEncoding(s)

LEMMA ExtendsItself == \A b \in Seq(Byte) : Extends(b, b)
BY LenProperties DEF Extends

LEMMA ValueAgrees ==
  ASSUME NEW b, NEW s, NEW c \in 0 .. 5, \A i \in 1 .. c : s[i] = b[i]
  PROVE  Value(s, c) = Value(b, c)
<1>1. \A i \in 1 .. c : Group(s, i) = Group(b, i)
  BY DEF Group
<1> HIDE DEF Group
<1> QED BY <1>1 DEF Value

\* No encoding ends where a byte announces another one.
LEMMA NotEncodedInside ==
  ASSUME NEW s \in Seq(Byte), NEW c \in 0 .. 5, c <= Len(s), \A i \in 1 .. c : s[i] >= Half
  PROVE  \A k \in 1 .. c : ~Encoded(s, k)
<1> SUFFICES ASSUME NEW k \in 1 .. c PROVE ~Encoded(s, k)
  OBVIOUS
<1>1. Len(s) \in Nat /\ k \in 1 .. Len(s)
  BY LenProperties
<1>2. s[k] >= Half /\ s[k] \in Nat /\ Half \in Nat
  BY <1>1, GroupType, HalfWidth
<1> QED BY <1>2 DEF Encoded

\* A value that would lose bits is too large whatever follows.
LEMMA TooLargeBehind ==
  ASSUME NEW s \in Seq(Byte), NEW c \in 0 .. 4, Value(s, c) >= U32 \div Half,
         NEW k \in 1 .. 5, k > c, k <= Len(s)
  PROVE  Value(s, k) >= U32
<1>1. k \in 0 .. 5 /\ c \in 0 .. 5 /\ c <= k /\ k - c \in 0 .. 5 /\ 0 < k - c
      /\ Half \in Nat /\ Half >= 2 /\ Len(s) \in Nat /\ c <= Len(s)
  BY HalfWidth, LenProperties
<1>2. PICK r \in 0 .. Weight(k - c) - 1 : Value(s, k) = Value(s, c) * Weight(k - c) + r
  BY <1>1, ValueSplit
<1>3. Value(s, c) \in Nat /\ Weight(k - c) \in Nat /\ Value(s, k) \in Nat
  BY <1>1, ValueBounds, WeightType, ZenonT(30)
<1>4. Weight(k - c) >= Half
  <2>1. Weight(0) * Half <= Weight(k - c)
    BY <1>1, WeightGrows
  <2> QED BY <1>1, <2>1, WeightNext
<1>5. Value(s, c) * Half >= U32 /\ U32 \in Nat
  BY <1>3, OverflowLimit, WidthType
<1>6. ASSUME NEW v \in Nat, NEW w \in Nat, w >= Half PROVE v * w >= v * Half
  <2>1. v * (w - Half) >= 0
    BY <1>1, <1>6
  <2>2. v * (w - Half) = v * w - v * Half
    BY <1>1
  <2> QED BY <1>1, <2>1, <2>2
<1>7. Value(s, c) * Weight(k - c) >= Value(s, c) * Half
  BY <1>3, <1>4, <1>6
<1>8. \A v, w \in Nat : v * w \in Nat
  OBVIOUS
<1>9. Value(s, c) * Weight(k - c) \in Nat /\ Value(s, c) * Half \in Nat
  BY <1>1, <1>3, <1>8
<1> QED BY <1>2, <1>3, <1>5, <1>7, <1>9

LEMMA Kept128 == TypeInv /\ TypeInv' /\ Inv128 /\ Next => Inv128'
<1> DEFINE b == request.input
           c == Consumed
<1> SUFFICES ASSUME TypeInv, TypeInv', Inv128, Next, request'.call = "base_128"
             PROVE  Inv128'
  BY DEF Inv128
<1>1. request' = request /\ request.call = "base_128"
  BY ReadLengths
<1>2. Base128
  BY <1>1 DEF Next, Get255, Get255Truncated, CopyRefused, CopyLast, CopyChunk, CanCopy, InCall
<1>3. /\ outcome = "running" /\ c \in 0 .. 5 /\ accum = Value(b, c)
      /\ \A i \in 1 .. c : b[i] >= Half
      /\ c > 0 => b[1] # Half
  <2>1. outcome = "running"
    BY <1>2 DEF Base128, Base128Truncated, Base128LeadingZero, Base128Overflow, Base128Byte,
                MoreThan5Bytes, AtByte, InBase128, InCall
  <2> QED BY <1>1, <2>1 DEF Inv128
<1>4. /\ b \in Seq(Byte) /\ Len(b) \in Nat /\ Half \in Nat /\ Half >= 2 /\ c <= Len(b)
      /\ Len(input) = Len(b) - c /\ input \in Seq(Byte) /\ input = After(b, c) /\ c \in 0 .. Len(b)
  BY <1>3, RequestType, HalfWidth DEF TypeInv
<1>5. ASSUME NEW s, Extends(s, b)
      PROVE  /\ s \in Seq(Byte) /\ Len(s) \in Nat /\ c <= Len(s)
             /\ \A k \in 1 .. c : ~Encoded(s, k)
             /\ Value(s, c) = Value(b, c)
  <2>1. s \in Seq(Byte) /\ Len(s) \in Nat /\ c <= Len(s) /\ \A i \in 1 .. c : s[i] = b[i]
    BY <1>4, <1>5, LenProperties DEF Extends
  <2>2. \A i \in 1 .. c : s[i] >= Half
    BY <1>3, <2>1
  <2> QED BY <1>3, <2>1, <2>2, NotEncodedInside, ValueAgrees
<1>6. ASSUME AtByte
      PROVE  /\ c \in 0 .. 4 /\ c + 1 \in 1 .. Len(b) /\ input[1] = b[c + 1]
             /\ 1 \in 0 .. Len(input) /\ (Advance(1) => Consumed' = c + 1)
  <2>1. c \in 0 .. 4 /\ input # << >>
    BY <1>3, <1>6 DEF AtByte, InBase128
  <2>2. Len(input) \in Nat \ {0}
    BY <1>4, <2>1, EmptySeq
  <2>3. c + 1 \in 1 .. Len(b) /\ 1 \in 0 .. Len(input) /\ 1 \in 1 .. Len(b) - c
    BY <1>4, <2>1, <2>2
  <2>4. input[1] = b[c + 1]
    BY <1>4, <2>3, AfterProperties
  <2>5. Advance(1) => Consumed' = c + 1
    BY <1>1, <2>3, ReadsOn
  <2> QED BY <2>1, <2>3, <2>4, <2>5
<1>12. ASSUME outcome' \notin {"running", "ok"}, Consumed' \in 0 .. 5,
              \A s : Extends(s, b) => NoEncoding(s)
       PROVE  Inv128'
  <2>1. NoEncoding(b)
    BY <1>4, <1>12, ExtendsItself
  <2> QED BY <1>1, <1>12, <2>1 DEF Inv128
<1>7. CASE Base128Truncated
  <2>1. outcome' = "Truncated" /\ Consumed' = c /\ Len(input) = 0
    BY <1>1, <1>4, <1>7, EmptySeq DEF Base128Truncated, Fail, Consumed
  <2>2. Len(b) = c
    BY <1>3, <1>4, <2>1
  <2>3. \A k \in 1 .. c : ~Encoded(b, k)
    BY <1>4, <1>5, ExtendsItself
  <2>4. NoEncoding(b)
    BY <1>3, <2>2, <2>3 DEF NoEncoding
  <2> QED BY <1>1, <1>3, <2>1, <2>4 DEF Inv128
<1>8. CASE MoreThan5Bytes
  <2>1. outcome' = "MoreThan5Bytes" /\ Consumed' = c /\ c = 5
    BY <1>1, <1>8 DEF MoreThan5Bytes, Fail, Consumed
  <2>2. \A s : Extends(s, b) => NoEncoding(s)
    BY <1>5, <2>1 DEF NoEncoding
  <2> QED BY <1>3, <1>12, <2>1, <2>2
<1>9. CASE Base128LeadingZero
  <2>1. outcome' = "LeadingZero" /\ AtByte /\ Advance(1) /\ c = 0 /\ input[1] = Half
    BY <1>9 DEF Base128LeadingZero, LeadingZero, Fail
  <2>2. b[1] = Half /\ Consumed' = 1 /\ 1 \in 1 .. Len(b)
    BY <1>6, <2>1
  <2>3. ASSUME NEW s, Extends(s, b) PROVE NoEncoding(s)
    <3>1. s[1] = Half
      BY <2>2, <2>3 DEF Extends
    <3>2. ASSUME NEW k \in 1 .. 5, Encoded(s, k) PROVE FALSE
      <4>1. k = 1 \/ k > 1
        OBVIOUS
      <4> QED BY <1>4, <3>1, <3>2, <4>1 DEF Encoded
    <3> QED BY <3>2 DEF NoEncoding
  <2> QED BY <1>12, <2>1, <2>2, <2>3
<1>10. CASE Base128Overflow
  <2>1. outcome' = "Overflow" /\ AtByte /\ Advance(1) /\ accum >= U32 \div Half
    BY <1>10 DEF Base128Overflow, Overflow, Fail
  <2>2. c \in 0 .. 4 /\ Consumed' = c + 1
    BY <1>6, <2>1
  <2>3. ASSUME NEW s, Extends(s, b) PROVE NoEncoding(s)
    <3>1. /\ s \in Seq(Byte) /\ Value(s, c) >= U32 \div Half
          /\ \A k \in 1 .. c : ~Encoded(s, k)
      BY <1>3, <1>5, <2>1, <2>3
    <3>2. \A k \in 1 .. 5 : k > c /\ k <= Len(s) => Value(s, k) >= U32
      BY <2>2, <3>1, TooLargeBehind
    <3> QED BY <2>2, <3>1, <3>2 DEF NoEncoding
  <2> QED BY <1>12, <2>1, <2>2, <2>3
<1>11. CASE Base128Byte
  <2>1. AtByte /\ ~LeadingZero /\ accum < U32 \div Half /\ accum' = Shifted /\ Advance(1)
        /\ outcome' = IF input[1] < Half THEN "ok" ELSE "running"
    <3>1. accum \in Nat /\ U32 \div Half \in Int
      <4>1. accum \in Nat
        BY <1>3, <1>4, ValueBounds
      <4>2. U32 \div Half \in Int
        BY <1>4, WidthType
      <4> QED BY <4>1, <4>2
    <3> QED BY <1>11, <3>1 DEF Base128Byte, Overflow
  <2>2. c \in 0 .. 4 /\ c + 1 \in 1 .. Len(b) /\ input[1] = b[c + 1] /\ Consumed' = c + 1
        /\ c < Len(b)
    BY <1>4, <1>6, <2>1
  <2>3. b[c + 1] \in Nat /\ Value(b, c) \in Nat
    BY <1>3, <1>4, <2>2, GroupType, ValueBounds
  <2>4. accum' = Value(b, c + 1)
    <3>1. accum * Half < U32 /\ accum * Half \in Nat
      BY <1>3, <1>4, <2>1, <2>3, OverflowLimit
    <3>2. (accum * Half) % U32 = accum * Half
      <4>1. accum * Half \in 0 .. U32 - 1
        BY <3>1, WidthType
      <4> QED BY <4>1, CastToU32
    <3> QED BY <1>3, <1>4, <2>1, <2>2, <3>2, ValueNext DEF Shifted, Group
  <2>8. accum' < U32
    <3>1. Value(b, c) * Half + (Half - 1) < U32 /\ Value(b, c) * Half \in Nat
      BY <1>3, <1>4, <2>1, <2>3, OverflowLimit
    <3>2. Group(b, c + 1) \in 0 .. Half - 1
      BY <1>4, <2>2, GroupType
    <3>3. Value(b, c + 1) = Value(b, c) * Half + Group(b, c + 1)
      BY <1>4, <2>2, ValueNext
    <3> QED BY <1>4, <2>4, <3>1, <3>2, <3>3, WidthType
  <2>5. c + 1 > 1 => b[1] # Half
    BY <1>3, <2>2
  <2>6. CASE b[c + 1] < Half
    <3>1. outcome' = "ok"
      BY <2>1, <2>2, <2>6
    <3>2. Encoded(b, c + 1)
      <4>1. (c + 1) - 1 = c
        BY <1>3
      <4> QED BY <1>3, <2>5, <2>6, <4>1 DEF Encoded
    <3> QED BY <1>1, <2>2, <2>4, <2>8, <3>1, <3>2 DEF Inv128
  <2>7. CASE ~(b[c + 1] < Half)
    <3>1. outcome' = "running" /\ b[c + 1] >= Half
      BY <1>4, <2>1, <2>2, <2>3, <2>7
    <3>2. c + 1 \in 0 .. 5
      BY <2>2
    <3>3. \A i \in 1 .. c + 1 : b[i] >= Half
      BY <1>3, <3>1
    <3>4. b[1] # Half
      <4>1. CASE c = 0
        BY <2>1, <2>2, <4>1 DEF LeadingZero
      <4>2. CASE c > 0
        BY <1>3, <4>2
      <4> QED BY <2>2, <4>1, <4>2
    <3> QED BY <1>1, <2>2, <2>4, <3>1, <3>2, <3>3, <3>4 DEF Inv128
  <2> QED BY <2>6, <2>7
<1> QED BY <1>2, <1>7, <1>8, <1>9, <1>10, <1>11 DEF Base128

LEMMA InitInv128 == Init => Inv128
<1> SUFFICES ASSUME Init PROVE Inv128
  OBVIOUS
<1>1. request \in Calls /\ input = request.input /\ accum = 0 /\ outcome = "running"
  BY DEF Init
<1>2. Consumed = 0
  BY <1>1, CallFields, LenProperties DEF Consumed
<1> QED BY <1>1, <1>2, ValueOfNone DEF Inv128

LEMMA Invariance128 == Spec => []Inv128
<1>1. TypeInv /\ Inv128 /\ UNCHANGED vars => Inv128'
  BY DEF Inv128, vars, Consumed
<1>2. TypeInv /\ TypeInv' /\ Inv128 /\ [Next]_vars => Inv128'
  BY <1>1, Kept128
<1> QED BY <1>2, InitInv128, TypeInvariance, PTL DEF Spec

\* What an ended call has read.
LEMMA AcceptedIsEncoding ==
  ASSUME TypeInv, Inv128, request.call = "base_128", outcome = "ok"
  PROVE  /\ Consumed \in 1 .. 5 /\ Consumed <= Len(request.input) /\ accum \in 0 .. U32 - 1
         /\ Front(Consumed) = Encoding128(accum) /\ Spelled(Front(Consumed)) = accum
<1>1. /\ Consumed \in 1 .. 5 /\ Encoded(request.input, Consumed)
      /\ accum = Value(request.input, Consumed) /\ accum < U32
  BY DEF Inv128
<1>2. request.input \in Seq(Byte) /\ Consumed <= Len(request.input)
  BY RequestType DEF TypeInv
<1>3. accum \in Nat
  BY <1>1, <1>2, ValueBounds
<1>4. Front(Consumed) = Encoding128(accum)
  BY <1>1, <1>2, EncodedIsEncoding DEF Front
<1>5. Spelled(Front(Consumed)) = accum
  BY <1>1, <1>2, SpelledIsValue DEF Front
<1> QED BY <1>1, <1>2, <1>3, <1>4, <1>5, WidthType

\* NoEncoding in the words of the property.
LEMMA NoneIsRefused ==
  ASSUME NEW b \in Seq(Byte), NoEncoding(b), NEW k \in 1 .. 5, k <= Len(b)
  PROVE  LET v == Spelled(SubSeq(b, 1, k)) IN v >= U32 \/ Encoding128(v) # SubSeq(b, 1, k)
<1>1. Spelled(SubSeq(b, 1, k)) = Value(b, k)
  BY SpelledIsValue
<1> QED BY <1>1, EncodingIsEncoded DEF NoEncoding

\* The first k bytes of b are the encoding of a u32.
IsCode(b, k) == k \in 1 .. 5 /\ k <= Len(b) /\ Encoded(b, k) /\ ~(Value(b, k) >= U32)

LEMMA NoCode == \A b : NoEncoding(b) <=> \A k : ~IsCode(b, k)
BY DEF NoEncoding, IsCode

LEMMA CodeOfEncoding ==
  ASSUME NEW b \in Seq(Byte), NEW k \in 1 .. 5, k <= Len(b),
         Spelled(SubSeq(b, 1, k)) < U32,
         Encoding128(Spelled(SubSeq(b, 1, k))) = SubSeq(b, 1, k)
  PROVE  IsCode(b, k)
<1>1. Spelled(SubSeq(b, 1, k)) = Value(b, k) /\ Value(b, k) \in Nat /\ U32 \in Nat
  BY SpelledIsValue, ValueBounds, WidthType
<1>2. SubSeq(b, 1, k) = Encoding128(Value(b, k))
  BY <1>1
<1>3. Encoded(b, k)
  BY <1>2, EncodingIsEncoded
<1> QED BY <1>1, <1>3 DEF IsCode

LEMMA CodeExtends ==
  ASSUME NEW b \in Seq(Byte), NEW s, Extends(s, b), NEW k, IsCode(b, k)
  PROVE  IsCode(s, k)
<1>1. /\ Len(b) \in Nat /\ Len(s) \in Nat /\ k \in 1 .. 5 /\ k <= Len(b) /\ k <= Len(s)
      /\ \A i \in 1 .. k : s[i] = b[i]
  BY LenProperties DEF Extends, IsCode
<1>2. Value(s, k) = Value(b, k)
  BY <1>1, ValueAgrees
<1>3. Encoded(s, k)
  BY <1>1 DEF Encoded, IsCode
<1> QED BY <1>1, <1>2, <1>3 DEF IsCode

\* A code ends at its first byte that announces no other.
LEMMA CodeUnique ==
  ASSUME NEW b \in Seq(Byte), NEW j, NEW k, IsCode(b, j), IsCode(b, k)
  PROVE  j = k
<1>1. ASSUME NEW m \in Nat, NEW n \in Nat, IsCode(b, m), IsCode(b, n), m < n PROVE FALSE
  <2>1. m \in 1 .. n - 1 /\ m \in 1 .. Len(b)
    BY <1>1, LenProperties DEF IsCode
  <2>2. b[m] \in Nat /\ Half \in Nat
    BY <2>1, GroupType, HalfWidth
  <2> QED BY <1>1, <2>1, <2>2 DEF IsCode, Encoded
<1>2. j \in Nat /\ k \in Nat
  BY DEF IsCode
<1>3. ~(j < k) /\ ~(k < j)
  BY <1>1, <1>2
<1> QED BY <1>2, <1>3

\* No value has two encodings, and none loses bits: what is accepted is the
\* encoding of the value returned.
THEOREM AcceptsOneEncoding == Spec => []Base128IsCanonical
<1>1. TypeInv /\ Inv128 => Base128IsCanonical
  BY AcceptedIsEncoding DEF Base128IsCanonical, Ended
<1> QED BY <1>1, TypeInvariance, Invariance128, PTL

\* A buffer that starts with the encoding of a u32 is not refused.
THEOREM RefusesNoEncoding == Spec => []Base128RefusesNoEncoding
<1>1. TypeInv /\ Inv128 => Base128RefusesNoEncoding
  BY NoneIsRefused, RequestType DEF Inv128, Base128RefusesNoEncoding, Ended, Front
<1> QED BY <1>1, TypeInvariance, Invariance128, PTL
=============================================================================
