------------------------------- MODULE BufExt -------------------------------
(***************************************************************************)
(* The reads of src/buffer.rs that are loops or choices of their own:      *)
(* try_get_base_128, try_get_255_u16 and try_copy_to_buf. One state        *)
(* machine is one call on a buffer; an action is one iteration of its      *)
(* loop, or the whole call where it has none.                              *)
(*                                                                         *)
(* A byte of Radix values has a continuation bit and Radix \div 2 values   *)
(* below it; a u32 has four bytes. Five groups of the real seven bits are  *)
(* 35 bits, three more than a u32 has.                                     *)
(***************************************************************************)
EXTENDS ByteBuffer

CONSTANTS Calls     \* records [call, input, num_bytes]: the calls made

\* A byte is a continuation bit over a group, and there are bytes besides the
\* three codes of 255UInt16.
ASSUME GroupAssumption == Radix % 2 = 0 /\ Radix >= 4
ASSUME CallsAssumption ==
  \A c \in Calls : /\ c.call \in {"base_128", "255_u16", "copy"}
                   /\ c.input \in Seq(Byte) /\ c.num_bytes \in Nat

VARIABLES
  request,    \* the call
  input,      \* what remains of the buffer
  accum,      \* accum of base_128; the value of 255_u16
  num_bytes,  \* what try_copy_to_buf has still to copy
  dest,       \* its destination
  outcome     \* "running", "ok" or the error returned

vars == <<request, input, accum, num_bytes, dest, outcome>>

Init == /\ request \in Calls
        /\ input = request.input /\ num_bytes = request.num_bytes
        /\ accum = 0 /\ dest = << >> /\ outcome = "running"

InCall(name) == outcome = "running" /\ request.call = name
Consumed     == Len(request.input) - Len(input)

Fail(error) == outcome' = error /\ UNCHANGED <<request, accum, num_bytes, dest>>
Advance(n)  == input' = After(input, n)
-----------------------------------------------------------------------------
(* try_get_base_128: iteration i has consumed i bytes.                     *)

Half == Radix \div 2      \* 0x80

InBase128 == InCall("base_128") /\ Consumed < 5
AtByte    == InBase128 /\ input # << >>

LeadingZeroAnywhere == input[1] = Half                         \* mutated form
LeadingZero == Consumed = 0 /\ input[1] = Half
OverflowLate == accum >= U32                                   \* mutated form
Overflow    == accum >= U32 \div Half    \* accum >> 25 != 0
Shifted     == ((accum * Half) % U32) + (input[1] % Half)

Base128Truncated == InBase128 /\ input = << >> /\ Fail("Truncated") /\ UNCHANGED input

Base128LeadingZero == AtByte /\ LeadingZero /\ Fail("LeadingZero") /\ Advance(1)

Base128Overflow == AtByte /\ ~LeadingZero /\ Overflow /\ Fail("Overflow") /\ Advance(1)

Base128Byte ==
  /\ AtByte /\ ~LeadingZero /\ ~Overflow
  /\ accum' = Shifted
  /\ outcome' = IF input[1] < Half THEN "ok" ELSE "running"
  /\ Advance(1) /\ UNCHANGED <<request, num_bytes, dest>>

MoreThan5Bytes == /\ InCall("base_128") /\ Consumed = 5
                  /\ Fail("MoreThan5Bytes") /\ UNCHANGED input

Base128 == \/ Base128Truncated \/ Base128LeadingZero \/ Base128Overflow
           \/ Base128Byte \/ MoreThan5Bytes
-----------------------------------------------------------------------------
(* try_get_255_u16                                                         *)

Get255 == /\ InCall("255_u16") /\ CodeComplete(input)
          /\ accum' = CodeValue(input) /\ outcome' = "ok"
          /\ Advance(CodeLength(input[1]))
          /\ UNCHANGED <<request, num_bytes, dest>>

\* The code is consumed before the bytes it asks for are found missing.
Get255Truncated == /\ InCall("255_u16") /\ ~CodeComplete(input)
                   /\ Fail("Truncated")
                   /\ IF input = << >> THEN UNCHANGED input ELSE Advance(1)
-----------------------------------------------------------------------------
(* try_copy_to_buf. chunk() of a Buf may be any prefix of what remains that *)
(* is not empty unless nothing remains.                                    *)

Chunks == IF input = << >> THEN {0} ELSE 1 .. Len(input)

CopyRefused == /\ InCall("copy") /\ dest = << >> /\ Len(input) < num_bytes
               /\ Fail("Truncated") /\ UNCHANGED input

Copy(n) == dest' = dest \o SubSeq(input, 1, n) /\ Advance(n) /\ UNCHANGED <<request, accum>>

\* The test of the first line is made once: later, as much remains.
CanCopy == InCall("copy") /\ (dest # << >> \/ Len(input) >= num_bytes)

CopyLast == /\ CanCopy /\ \E len \in Chunks : len >= num_bytes
            /\ Copy(num_bytes) /\ outcome' = "ok" /\ UNCHANGED num_bytes

\* Mutated form of the next: the number of bytes left is not reduced.
CopyChunkAgain == CanCopy /\ \E len \in Chunks :
                    len < num_bytes /\ Copy(len) /\ UNCHANGED <<num_bytes, outcome>>
CopyChunk == CanCopy /\ \E len \in Chunks :
               /\ len < num_bytes /\ Copy(len)
               /\ num_bytes' = num_bytes - len /\ UNCHANGED outcome

Next == \/ Base128
        \/ Get255 \/ Get255Truncated
        \/ CopyRefused \/ CopyLast \/ CopyChunk

Spec     == Init /\ [][Next]_vars
FairSpec == Spec /\ WF_vars(Next)     \* a running call takes its next step
-----------------------------------------------------------------------------
(* What the reads get right.                                               *)

Ended(name) == outcome # "running" /\ request.call = name
Front(n)    == SubSeq(request.input, 1, n)

\* The weight of a group with i groups behind it, Half to the power of i.
Weight(i) == << 1, Half, Half * Half, Half * Half * Half, Half * Half * Half * Half,
                Half * Half * Half * Half * Half >>[i + 1]

\* The one encoding of a u32: its base-Half digits without leading zeros, each
\* but the last with a continuation bit.
Groups128(v) == CHOOSE k \in 1 .. 5 : v < Weight(k) /\ (k > 1 => v >= Weight(k - 1))
Encoding128(v) ==
  [i \in 1 .. Groups128(v) |->
     ((v \div Weight(Groups128(v) - i)) % Half) + IF i < Groups128(v) THEN Half ELSE 0]

\* The number the groups of bytes spell.
Spelled(bytes) ==
  LET value[n \in 0 .. Len(bytes)] ==
        IF n = 0 THEN 0 ELSE value[n-1] * Half + (bytes[n] % Half)
  IN  value[Len(bytes)]

\* What try_get_base_128 accepts is the encoding of the value it returns, so that
\* no value has two encodings and none loses bits.
Base128IsCanonical ==
  Ended("base_128") /\ outcome = "ok" => Front(Consumed) = Encoding128(accum)

\* Where it fails, the buffer does not start with the encoding of any u32.
Base128RefusesNoEncoding ==
  Ended("base_128") /\ outcome # "ok" =>
    \A k \in 1 .. 5 : k <= Len(request.input) =>
      LET v == Spelled(Front(k)) IN v >= U32 \/ Encoding128(v) # Front(k)

\* The encodings of a u16, of which there may be three (the tests of 506).
Encodings255(v) ==
  {<<b>> : b \in {v} \cap 0 .. LOWEST_UCODE - 1}
  \cup {<<ONE_MORE_BYTE_CODE_1, b>> : b \in {v - LOWEST_UCODE} \cap Byte}
  \cup {<<ONE_MORE_BYTE_CODE_2, b>> : b \in {v - 2 * LOWEST_UCODE} \cap Byte}
  \cup {<<WORD_CODE>> \o BigEndian16(v)}

\* try_get_255_u16 consumes an encoding of the value it returns and nothing more,
\* and fails only where the buffer starts with no encoding, of whatever length.
Reads255 == Ended("255_u16") =>
  IF outcome = "ok" THEN accum < U16 /\ Front(Consumed) \in Encodings255(accum)
  ELSE \A n \in 1 .. Len(request.input), v \in 0 .. U16 - 1 : Front(n) \notin Encodings255(v)

\* try_copy_to_buf copies what was asked for, once and in order, and leaves the
\* rest, however the buffer is cut into chunks; or it leaves both as they were.
CopiesExactly == Ended("copy") =>
  IF outcome = "ok"
  THEN Front(request.num_bytes) = dest /\ dest \o input = request.input
  ELSE dest = << >> /\ input = request.input /\ Len(input) < request.num_bytes

\* Every read returns.
Returns == <>(outcome # "running")
=============================================================================
