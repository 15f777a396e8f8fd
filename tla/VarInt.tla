------------------------------- MODULE VarInt -------------------------------
(***************************************************************************)
(* The variable-length integer encoders of Buffer                         *)
(* (src/ddprof-lib/src/main/cpp/buffers.h): putVar32(u32), putVar64(u64)  *)
(* and the fixed 5-byte patchable putVar32(offset, u32).                  *)
(*                                                                         *)
(* An unsigned value is represented by its base-128 digits, least         *)
(* significant first: v >>= 7 drops the first digit, v > 0x7f says a     *)
(* digit beyond the first is non-zero, and (char)v | 0x80 is the byte     *)
(* 128 + the first digit.  This is exact for 64-bit values, which TLC's   *)
(* integers cannot hold.  A 64-bit value has 10 digits, the last 0 or 1; *)
(* the value a caller passes to a u32 parameter has 5, and the parameter *)
(* keeps the low 4 bits of the 5th.                                       *)
(*                                                                         *)
(* The reference decoder is the reader of the format: 7 bits per byte     *)
(* while the top bit is set, the 9th byte of a 64-bit value taken whole.  *)
(***************************************************************************)
EXTENDS Integers, Sequences

CONSTANTS
    Calls,      \* the encoders called: a subset of Kinds
    Digits,     \* digits the enumerated values use (a subset of 0..127)
    Top5,       \* values of the 5th digit of a value passed as u32 (0..15
                \* fit the u32 parameter)
    Top64       \* values of the 10th digit of a u64 (a subset of 0..1)

ASSUME /\ Calls \subseteq {"var32", "var64", "patch32"}
       /\ Digits \subseteq 0..127 /\ Top5 \subseteq 0..127
       /\ Top64 \subseteq 0..1

Kinds == {"var32", "var64", "patch32"}

\* the space each put reserves in its assert(_offset + n < limit())
Reserve == [var32 |-> 5, var64 |-> 9, patch32 |-> 5]

\* the values a call of each kind may be given
Values(k) ==
    IF k = "var64"
    THEN {d \in [1..10 -> Digits \cup Top64] : d[10] \in Top64}
    ELSE {d \in [1..5 -> Digits \cup Top5] : d[5] \in Top5}

\* v > 2^(7k) - 1: a digit beyond the k-th is non-zero
Above(d, k) == \E i \in (k + 1)..Len(d) : d[i] # 0

Drop(d, k) == SubSeq(d, k + 1, Len(d))

\* the value without its leading zero digits
RECURSIVE Norm(_)
Norm(d) == IF d # <<>> /\ d[Len(d)] = 0 THEN Norm(SubSeq(d, 1, Len(d) - 1))
                                        ELSE d

RECURSIVE Var7(_)

\* Fault-injected variant: the loop test is v >= 0x7f.
Var7GreaterEq(d) ==
    IF Above(d, 1) \/ (d # <<>> /\ d[1] = 127)
    THEN <<128 + d[1]>> \o Var7(Tail(d))
    ELSE <<IF d = <<>> THEN 0 ELSE d[1]>>

\* while (v > 0x7f) { _data[_offset++] = (char)v | 0x80; v >>= 7; }
\* _data[_offset++] = (char)v;
Var7(d) == IF Above(d, 1) THEN <<128 + d[1]>> \o Var7(Tail(d))
                          ELSE <<IF d = <<>> THEN 0 ELSE d[1]>>

PutVar32(d) == Var7(d)

RECURSIVE Groups(_, _)

\* Fault-injected variant: the early return comes after two rounds.
GroupsTwoRounds(d, iter) ==
    IF Above(d, 3)
    THEN LET g == <<128 + d[1], 128 + d[2], 128 + d[3]>> IN
         IF iter + 1 = 2 THEN g ELSE g \o Groups(Drop(d, 3), iter + 1)
    ELSE Var7(d)

\* putVar64: while (v > 0x1fffff) emit three continued bytes, returning
\* after the third round; then the putVar32 loop for the rest
Groups(d, iter) ==
    IF Above(d, 3)
    THEN LET g == <<128 + d[1], 128 + d[2], 128 + d[3]>> IN
         IF iter + 1 = 3 THEN g ELSE g \o Groups(Drop(d, 3), iter + 1)
    ELSE Var7(d)

PutVar64(d) == Groups(d, 0)

PatchVar32(d) == <<128 + d[1], 128 + d[2], 128 + d[3], 128 + d[4], d[5]>>

\* the conversion of the argument to the u32 parameter: v mod 2^32
ToU32(d) == [d EXCEPT ![5] = @ % 16]

Encode(k, d) ==
    CASE k = "var32" -> PutVar32(ToU32(d))
      [] k = "var64" -> PutVar64(d)
      [] k = "patch32" -> PatchVar32(ToU32(d))

\* reference decoder: digits read, and the number of bytes consumed
RECURSIVE Decode(_, _)
Decode(bs, i) ==
    CASE bs = <<>>   -> [digits |-> <<>>, used |-> 0]
      [] i = 9       -> [digits |-> <<bs[1] % 128, bs[1] \div 128>>, used |-> 1]
      [] bs[1] < 128 -> [digits |-> <<bs[1]>>, used |-> 1]
      [] OTHER ->
           LET r == Decode(Tail(bs), i + 1) IN
           [digits |-> <<bs[1] - 128>> \o r.digits, used |-> r.used + 1]

VARIABLES
    kind,   \* which encoder is called
    val,    \* its argument
    bytes,  \* the bytes it wrote
    out,    \* what the reader decodes from them
    stage   \* "encode", "decode" or "done"

vars == <<kind, val, bytes, out, stage>>

TypeOK ==
    /\ kind \in Kinds /\ val \in Values(kind)
    /\ bytes \in Seq(0..255)
    /\ stage \in {"encode", "decode", "done"}

Init ==
    /\ kind \in Calls /\ val \in Values(kind)
    /\ bytes = <<>> /\ out = [digits |-> <<>>, used |-> 0]
    /\ stage = "encode"

\* the put call writes its bytes at _offset
Put ==
    /\ stage = "encode"
    /\ bytes' = Encode(kind, val)
    /\ stage' = "decode"
    /\ UNCHANGED <<kind, val, out>>

\* the reader decodes the record
Read ==
    /\ stage = "decode"
    /\ out' = Decode(bytes, 1)
    /\ stage' = "done"
    /\ UNCHANGED <<kind, val, bytes>>

Next == Put \/ Read

Spec == Init /\ [][Next]_vars

(***************************************************************************)
(* Properties.                                                            *)
(***************************************************************************)

\* Spec 8: every value passed to an encoder decodes to itself, and the
\* reader consumes exactly the bytes written: all u64 for putVar64,
\* including values with the top bit set that take its early return, and
\* for both putVar32 forms every value their u32 parameter holds, 5th
\* digits up to 15 (Top5) included.
RoundTrip ==
    stage = "done" => /\ Norm(out.digits) = Norm(val)
                      /\ out.used = Len(bytes)

\* Each encoder writes no more bytes than its assert reserves, so the
\* bounds checks of put* (which test _offset + 5 or + 9) cover the write.
FitsReserve ==
    stage # "encode" => Len(bytes) <= Reserve[kind]

=============================================================================
