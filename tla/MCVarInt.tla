------------------------------ MODULE MCVarInt ------------------------------
(***************************************************************************)
(* Model-checking instance of VarInt: every digit is 0, 1, 64 or 127, so  *)
(* each 7-bit group is zero, minimal, middle or full, and the top digits  *)
(* take their extreme values; this includes 0, 2^32 - 1, 2^63 - 1,       *)
(* 2^63, 2^64 - 1 and every threshold of the loops.  Composed with      *)
(* FilePattern, whose inputs are enumerated beside them.                 *)
(***************************************************************************)
EXTENDS VarInt, FilePattern

MCAllCalls == Kinds

MCDigits == {0, 1, 64, 127}
\* the 5th digit of a u32 argument
MCTop5 == {0, 1, 15}

\* the 10th digit of a u64
MCTop64 == {0, 1}

\* file patterns: every pattern of up to 4 characters over '%', the
\* letters of the conversions, the braces, the name H and a plain 'a',
\* expanded into a 4-byte buffer (so an end-of-buffer case is met in
\* every branch); a 1- and a 3-digit pid; the 15-character timestamp
MCPatterns ==
    UNION {[1..m -> {"a", "%", "p", "t", "{", "}", "H"}] : m \in 0..4}
MCPidTexts == {<<"7">>, <<"4", "2", "1">>}
MCTimeText == <<"2", "0", "2", "6", "1", "1", "0", "9", "-",
                "1", "2", "3", "4", "5", "6">>
MCEnv == <<"H">> :> <<"x", "y">>

\* The run's behaviours are of two kinds, with one input each: a varint
\* call, beside a file() that has returned on the plain name "a"; or a
\* file pattern, beside a putVar32 of 0 not yet made.
FileReturnedOnPlainName ==
    /\ fpat = <<"a">> /\ fpid = <<"7">>
    /\ fbuf = NOBUF /\ fdone = TRUE
PutOfZero ==
    /\ kind = "var32" /\ val = [i \in 1..5 |-> 0]
    /\ bytes = <<>> /\ out = [digits |-> <<>>, used |-> 0]
    /\ stage = "encode"

PureInit == \/ Init /\ FileReturnedOnPlainName
            \/ PutOfZero /\ FPInit
PureNext == \/ Next /\ UNCHANGED fpVars
            \/ File /\ UNCHANGED vars
PureSpec == PureInit /\ [][PureNext]_<<vars, fpVars>>

=============================================================================
