----------------------------- MODULE FilePattern -----------------------------
(***************************************************************************)
(* Arguments::file and Arguments::expandFilePattern                       *)
(* (src/ddprof-lib/src/main/cpp/arguments.cpp): a file option containing  *)
(* '%' is expanded into the first EXTRA_BUF_SIZE bytes of _buf, with %p   *)
(* the process id, %t a timestamp and %{ENV} an environment variable;     *)
(* any other character after '%' is copied without the '%'.               *)
(*                                                                         *)
(* A pattern is a sequence of one-character strings.  _buf is a function  *)
(* from the offsets written to the characters written there, so that a    *)
(* write outside the buffer shows as an offset beyond EXTRA_BUF_SIZE - 1. *)
(* The loop state is [buf, ptr], ptr an offset into _buf and end the      *)
(* offset EXTRA_BUF_SIZE - 1.  What getpid, the formatted localtime and   *)
(* getenv print is given by constants: only their lengths matter here.    *)
(***************************************************************************)
EXTENDS Integers, Sequences, TLC

LOCAL INSTANCE SequencesExt

CONSTANTS
    EXTRA_BUF_SIZE, \* _buf's room for the expanded name (512 in the code)
    PidTexts,       \* what snprintf("%d", getpid()) can print
    TimeText,       \* what the "%t" branch prints (yyyyMMdd-hhmmss)
    Env,            \* getenv: variable name -> value
    Patterns        \* the file options checked

ASSUME EXTRA_BUF_SIZE >= 1

VARIABLES
    fpat,   \* the file option's value (Arguments::_file)
    fpid,   \* what getpid() prints in this process
    fbuf,   \* the expansion area of _buf
    fdone   \* file() has returned

fpVars == <<fpat, fpid, fbuf, fdone>>

NUL == "NUL"        \* the terminating 0 byte
KEY_SIZE == 128     \* sizeof(env_key)

NOBUF == [i \in {} |-> NUL]    \* nothing written yet (malloc'd bytes)

\* *ptr++ = c
Write(b, i, c) == (i :> c) @@ b
Char(st, c) == [buf |-> Write(st.buf, st.ptr, c), ptr |-> st.ptr + 1]

\* Fault-injected variant: ptr advanced by what was written, not by what
\* snprintf returns.
EmitClamped(st, s, end) ==
    LET k == IF Len(s) < end - st.ptr THEN Len(s) ELSE end - st.ptr - 1
    IN [buf |-> (st.ptr + k :> NUL) @@
                [i \in st.ptr..st.ptr + k - 1 |-> s[i - st.ptr + 1]] @@ st.buf,
        ptr |-> st.ptr + k]

\* ptr += snprintf(ptr, end - ptr, "...", s): the characters of s that fit
\* in end - ptr bytes with a NUL after them; the return value, by which ptr
\* advances, is the length of s whether it fit or not
Emit(st, s, end) ==
    LET k == IF Len(s) < end - st.ptr THEN Len(s) ELSE end - st.ptr - 1
    IN [buf |-> (st.ptr + k :> NUL) @@
                [i \in st.ptr..st.ptr + k - 1 |-> s[i - st.ptr + 1]] @@ st.buf,
        ptr |-> st.ptr + Len(s)]

Terminate(st, end) == Write(st.buf, IF st.ptr < end THEN st.ptr ELSE end, NUL)

\* %{ENV}: the name runs to the first '}', is shorter than env_key, and is
\* set in the environment; rest is the pattern after the '{'
Close(rest) == SelectInSeq(rest, LAMBDA c : c = "}")
Key(rest) == SubSeq(rest, 1, Close(rest) - 1)
EnvFound(rest) ==
    Close(rest) > 0 /\ Close(rest) - 1 < KEY_SIZE /\ Key(rest) \in DOMAIN Env
AfterKey(rest) == SubSeq(rest, Close(rest) + 1, Len(rest))

Drop2(pat) == SubSeq(pat, 3, Len(pat))

\* the while loop, one branch per step: a plain character is copied; '%'
\* at the end of the pattern breaks; %p, %t and a set %{ENV} print; any
\* other character after '%' (a '{' without a set name included) is copied
RECURSIVE Expand(_, _, _, _)
Expand(pat, st, end, pid) ==
    CASE st.ptr >= end \/ pat = <<>> -> Terminate(st, end)
      [] Head(pat) # "%" -> Expand(Tail(pat), Char(st, Head(pat)), end, pid)
      [] Len(pat) = 1    -> Terminate(st, end)
      [] pat[2] = "p"    -> Expand(Drop2(pat), Emit(st, pid, end), end, pid)
      [] pat[2] = "t"    -> Expand(Drop2(pat), Emit(st, TimeText, end), end, pid)
      [] pat[2] = "{" /\ EnvFound(Drop2(pat)) ->
             Expand(AfterKey(Drop2(pat)),
                    Emit(st, Env[Key(Drop2(pat))], end), end, pid)
      [] OTHER           -> Expand(Drop2(pat), Char(st, pat[2]), end, pid)

\* expandFilePattern into a buffer of size bytes; the result is the buffer
ExpandFilePattern(pat, size, pid) ==
    Expand(pat, [buf |-> NOBUF, ptr |-> 0], size - 1, pid)

\* the C string at _buf: the characters before the first NUL
Text(b) ==
    LET n == CHOOSE i \in DOMAIN b : b[i] = NUL /\ \A j \in 0..i - 1 : b[j] # NUL
    IN [j \in 1..n |-> b[j - 1]]

HasPercent(f) == \E i \in DOMAIN f : f[i] = "%"

FPInit ==
    /\ fpat \in Patterns /\ fpid \in PidTexts
    /\ fbuf = NOBUF /\ fdone = FALSE

\* Arguments::file: a name containing '%' is expanded into _buf
File ==
    /\ ~fdone
    /\ fbuf' = IF HasPercent(fpat) THEN ExpandFilePattern(fpat, EXTRA_BUF_SIZE, fpid)
               ELSE fbuf
    /\ fdone' = TRUE
    /\ UNCHANGED <<fpat, fpid>>

\* the name file() returned
FileName == IF HasPercent(fpat) THEN Text(fbuf) ELSE fpat

FPSpec == FPInit /\ [][File]_fpVars

\* a buffer no expansion of f can fill: each character prints at most the
\* longest text
Unbounded(f, pid) ==
    2 + Len(f) * (Len(pid) + Len(TimeText)
                  + Max({Len(Env[k]) : k \in DOMAIN Env} \cup {0}))

(***************************************************************************)
(* Properties                                                             *)
(***************************************************************************)

TruncationKeepsPrefix ==
    fdone => IsPrefix(FileName,
                      Text(ExpandFilePattern(fpat, Unbounded(fpat, fpid), fpid)))

=============================================================================
