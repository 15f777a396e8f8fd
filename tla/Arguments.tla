------------------------------ MODULE Arguments ------------------------------
(***************************************************************************)
(* Arguments::parse, hash and parseUnits                                  *)
(* (src/ddprof-lib/src/main/cpp/arguments.cpp): a command is split by     *)
(* strtok at ',' into options name[=value]; each name is dispatched by    *)
(* comparing hash(name) with the HASH of the CASE labels, so two names    *)
(* with the same hash are the same option; numeric values with a unit     *)
(* suffix go through parseUnits.                                          *)
(*                                                                         *)
(* A command is a token sequence as in Resolver (',' and '=' and '~' are  *)
(* separators).  Words are given their character codes by the constant    *)
(* Codes, so that hash works on what the code hashes: c & 31 of each      *)
(* character.  Of the Arguments fields, the model keeps those that the    *)
(* modelled engines read (_event, _interval, _cpu, _wall, _memory,        *)
(* _record_allocations), _action, whether an argument was unknown, and    *)
(* whether msg was set.  The options that only set other fields keep      *)
(* their error checks and are otherwise no-ops.  arguments.h is not in    *)
(* the repository: the initial _interval and DEFAULT_ALLOC_INTERVAL are   *)
(* constants.                                                             *)
(***************************************************************************)
EXTENDS Resolver

CONSTANTS
    Codes,          \* word -> its character codes (ASCII)
    Interval0,      \* the initial Arguments::_interval
    DEFAULT_ALLOC_INTERVAL

\* names are at most 12 characters: hash shifts stay below 60
ASSUME \A w \in DOMAIN Codes : Len(Codes[w]) <= 12

SX == INSTANCE SequencesExt

\* the character codes of the separators
SepCode == (":" :> 58) @@ ("/" :> 47) @@ ("+" :> 43) @@ ("{" :> 123)
           @@ ("," :> 44) @@ ("=" :> 61) @@ ("~" :> 126)

\* the CASE labels of the SWITCH, in source order
Labels == {"start", "resume", "stop", "check", "status", "list", "version",
           "jfr", "cpu", "wall", "walltpt", "event", "memory", "generations",
           "interval", "jstackdepth", "safemode", "file", "log", "loglevel",
           "filter", "allkernel", "alluser", "cstack", "attributes",
           "lightweight", "wallsampler"}
Actions == {"start", "resume", "stop", "check", "status", "list", "version"}

ASSUME Labels \subseteq DOMAIN Codes

\* hash / HASH: h |= (c & 31) << shift, shift += 5 per character.  With at
\* most 12 characters the 5-bit fields do not overlap, so the hash is its
\* base-32 digits c & 31, least significant first; trailing zero digits
\* (characters ' ', '@', '`') add nothing.  (TLC's integers are 32 bits.)
RECURSIVE TrimZeros(_)
TrimZeros(d) == IF d # <<>> /\ d[Len(d)] = 0 THEN TrimZeros(SubSeq(d, 1, Len(d) - 1))
                ELSE d
Hash(cs) == TrimZeros([i \in 1..Len(cs) |-> cs[i] % 32])

\* strtok(args_copy, ","): the non-empty pieces between commas
RECURSIVE Strtok(_)
StrtokAt(s, i) ==
    IF i = 0 THEN <<s>>
    ELSE (IF i = 1 THEN <<>> ELSE <<Before(s, i)>>) \o Strtok(After(s, i))
Strtok(s) == IF s = <<>> THEN <<>> ELSE StrtokAt(s, First(s, ","))

\* value = strchr(arg, '='); *value++ = 0: name before it, value after it,
\* NULL without '='
NOVALUE == <<Tok("none", "", 0)>>   \* a NULL char*: no text is this token
NameAt(p, i) == IF i = 0 THEN p ELSE Before(p, i)
ValueAt(p, i) == IF i = 0 THEN NOVALUE ELSE After(p, i)

\* SWITCH(arg): the label whose HASH is hash(arg), else DEFAULT; a name that
\* is not a single word hashes like no label (the commands' names are words)
LabelOf(n) ==
    IF Len(n) = 1 /\ n[1].k = "word"
       /\ \E l \in Labels : Hash(Codes[l]) = Hash(Codes[n[1].w])
    THEN CHOOSE l \in Labels : Hash(Codes[l]) = Hash(Codes[n[1].w])
    ELSE "DEFAULT"

\* the unit tables
NANOS == (110 :> 1) @@ (117 :> 1000) @@ (109 :> 1000000) @@ (115 :> 1000000000)
BYTES == (98 :> 1) @@ (107 :> 1024) @@ (109 :> 1048576) @@ (103 :> 1073741824)
UNIVERSAL == NANOS @@ (98 :> 1) @@ (107 :> 1024) @@ (103 :> 1073741824)

\* the first character of a token that strtol stopped at (an r<hex> word
\* starts with 'r')
FirstCode(t) == CASE t.k = "word" -> Codes[t.w][1]
                  [] t.k = "sep"  -> SepCode[t.w]
                  [] OTHER        -> 114
Lower(c) == IF c >= 65 /\ c <= 90 THEN c + 32 ELSE c

\* parseUnits: strtol(str, &end, 0); at the end of the string the number,
\* else the number times the multiplier of the lowered suffix, else -1
UnitsOf(n, rest, m) ==
    CASE rest = <<>>                         -> n
      [] Lower(FirstCode(rest[1])) \in DOMAIN m -> n * m[Lower(FirstCode(rest[1]))]
      [] OTHER                               -> -1
StrtolEnd(s) == IF s # <<>> /\ s[1].k \in {"dec", "hex"} THEN Tail(s) ELSE s
ParseUnits(s, m) == UnitsOf(Strtol(s), StrtolEnd(s), m)

NOEVENT == <<>>         \* _event == NULL (an empty event is refused)
EVENT_CPU == <<Tok("literal", "cpu", 0)>>  \* the literal, not a parsed "cpu"

\* a freshly constructed Arguments
Fresh == [action |-> "none", event |-> NOEVENT, interval |-> Interval0,
          cpu |-> -1, wall |-> -1, memory |-> -1, recordAlloc |-> FALSE,
          unknown |-> FALSE, failed |-> FALSE]

\* msg = "...": the error parse returns after the loop
Fail(a, bad) == IF bad THEN [a EXCEPT !.failed = TRUE] ELSE a

\* CASE("cpu") and CASE("wall"): the interval, an error if negative
SetCpu(a, n) == Fail([a EXCEPT !.cpu = n], n < 0)
SetWall(a, n) == Fail([a EXCEPT !.wall = n], n < 0)
WallValue(v) == IF v # <<>> /\ v[1] = Sep("~") THEN Tail(v) ELSE v

\* CASE("event"): empty is an error; alloc turns on heap sampling with
\* interval 0 if unset; a second event is an error
OptEvent(a, v) ==
    CASE v = NOVALUE \/ v = <<>>  -> Fail(a, TRUE)
      [] v = <<Word("alloc")>> -> [a EXCEPT !.memory = IF @ < 0 THEN 0 ELSE @]
      [] a.event # NOEVENT        -> Fail(a, TRUE)
      [] OTHER                 -> [a EXCEPT !.event = v]

\* CASE("memory"): value[:config[:ratio]]; a non-negative interval records
\* allocations when the config has an 'a', or when there is no config
ConfigAt(c) == IF First(c, ":") = 0 THEN c ELSE Before(c, First(c, ":"))
HasA(c) == \E i \in 1..Len(c) :
              c[i].k = "word" /\ \E j \in 1..Len(Codes[c[i].w]) : Codes[c[i].w][j] = 97
SetMemory(a, n, config) ==
    IF n < 0 THEN [a EXCEPT !.memory = n]
    ELSE [a EXCEPT !.memory = n,
                   !.recordAlloc = @ \/ config = NOVALUE \/ HasA(config)]
MemoryAt(a, v, i) ==
    IF i = 0 THEN SetMemory(a, ParseUnits(v, BYTES), NOVALUE)
    ELSE SetMemory(a, ParseUnits(Before(v, i), BYTES), ConfigAt(After(v, i)))
\* Fault-injected variant: a bare memory option parses the NULL value as 0
\* instead of taking DEFAULT_ALLOC_INTERVAL.
OptMemoryNoDefault(a, v) ==
    IF v = NOVALUE THEN SetMemory(a, 0, NOVALUE)
    ELSE MemoryAt(a, v, First(v, ":"))
OptMemory(a, v) ==
    IF v = NOVALUE THEN SetMemory(a, DEFAULT_ALLOC_INTERVAL, NOVALUE)
    ELSE MemoryAt(a, v, First(v, ":"))

\* CASE("generations"): "true" raises a non-positive memory to 4 MiB
OptGenerations(a, v) ==
    IF v = <<Word("true")>> /\ a.memory <= 0
    THEN [a EXCEPT !.memory = 4 * 1024 * 1024] ELSE a

\* CASE("interval"): assigned, an error unless positive
OptInterval(a, v) ==
    IF v = NOVALUE THEN Fail(a, TRUE)
    ELSE Fail([a EXCEPT !.interval = ParseUnits(v, UNIVERSAL)],
              ParseUnits(v, UNIVERSAL) <= 0)

\* one option: the branch of the SWITCH its label selects
Option(a, l, v) ==
    CASE l \in Actions -> [a EXCEPT !.action = l]
      [] l = "cpu"     -> SetCpu(a, IF v = NOVALUE THEN 0 ELSE ParseUnits(v, NANOS))
      [] l = "wall"    -> SetWall(a, IF v = NOVALUE THEN 0
                                     ELSE ParseUnits(WallValue(v), NANOS))
      [] l = "event"   -> OptEvent(a, v)
      [] l = "memory"  -> OptMemory(a, v)
      [] l = "generations" -> OptGenerations(a, v)
      [] l = "interval" -> OptInterval(a, v)
      [] l \in {"walltpt", "jstackdepth"} -> Fail(a, v = NOVALUE \/ Atoi(v) <= 0)
      [] l \in {"file", "loglevel"} -> Fail(a, v = NOVALUE \/ v = <<>>)
      [] l = "DEFAULT" -> [a EXCEPT !.unknown = TRUE]
      [] OTHER         -> a

Step(a, p) == Option(a, LabelOf(NameAt(p, First(p, "="))),
                     ValueAt(p, First(p, "=")))

\* after the loop: an error if msg was set; with no event and no cpu,
\* wall or memory interval, the event is EVENT_CPU
Finish(a) ==
    IF ~a.failed /\ a.event = NOEVENT /\ a.cpu < 0 /\ a.wall < 0 /\ a.memory < 0
    THEN [a EXCEPT !.event = EVENT_CPU] ELSE a

Parse(cmd) == Finish(SX!FoldLeft(Step, Fresh, Strtok(cmd)))

=============================================================================
