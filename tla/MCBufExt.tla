------------------------------ MODULE MCBufExt ------------------------------
(* Buffers for the reads. base_128: up to MaxGroups bytes that continue, then *)
(* nothing, any byte, or a byte and a further one. 255_u16: up to three bytes *)
(* about the codes. copy: up to MaxCopy bytes of up to MaxCopy + 1.        *)
EXTENDS BufExt

CONSTANTS MaxGroups,   \* bound: continued groups, five are one too many
          MaxCopy,     \* bound: bytes of a buffer that is copied from
          Groups       \* the groups used: around zero and the overflow limit

Strings(set, max) == UNION {[1 .. n -> set] : n \in 0 .. max}

Tails == {<< >>} \cup {<<g>> : g \in Groups} \cup {<<g, 1>> : g \in Groups}

Call(name, in, n) == [call |-> name, input |-> in, num_bytes |-> n]

AllCalls ==
  {Call("base_128", [i \in DOMAIN s |-> s[i] + Half] \o t, 0) :
     s \in Strings(Groups, MaxGroups), t \in Tails}
  \cup {Call("255_u16", s, 0) :
          s \in Strings({0, 1, Radix - 4, Radix - 3, Radix - 2, Radix - 1}, 3)}
  \cup {Call("copy", [i \in 1 .. len |-> i], n) : len \in 0 .. MaxCopy, n \in 0 .. MaxCopy + 1}
=============================================================================
