------------------------------ MODULE Resolver ------------------------------
(***************************************************************************)
(* PerfEventType::forName and its helpers                                 *)
(* (src/ddprof-lib/src/main/cpp/perfEvents_linux.cpp): the resolution of  *)
(* an event specifier into a pointer into the static AVAILABLE_EVENTS     *)
(* table.  The predefined entries are constant; the entries RAW, PMU,     *)
(* BREAKPOINT, TRACEPOINT, KPROBE and UPROBE, and the static probe_func   *)
(* buffer, are rewritten by each resolution that returns them.            *)
(*                                                                         *)
(* A specifier is a sequence of tokens: the separators ':' '/' '+' '{'    *)
(* ',' '=', words, decimal and 0x literals, and words r<hex>.  strrchr    *)
(* and strchr find the last or first separator token, strncmp a prefix of *)
(* tokens, atoi and strtol the value of the first token.  The file        *)
(* system (/sys/bus/event_source, tracing ids) and the symbol tables are  *)
(* constants.                                                             *)
(***************************************************************************)
EXTENDS Integers, Sequences, FiniteSets, TLC, Bitwise

CONSTANTS
    Predefined,     \* names of AVAILABLE_EVENTS[0 .. IDX_PREDEFINED]
    KnownFunctions, \* KNOWN_FUNCTIONS: word -> counter argument
    Symbols,        \* dlsym / resolveSymbol: token sequence -> address
    Tracepoints,    \* tracing/events/<ns>/<name>/id: token sequence -> id
    DeviceTypes,    \* event_source/devices/<dev>/type: word -> type
    PmuAliases,     \* devices/<dev>/events/<ev>: <<dev, tokens>> -> tokens
    PmuFormats,     \* devices/<dev>/format/<p>: <<dev, p>> -> [word, shift]
    BreakpointOffset \* BREAKPOINT_OFFSET of the platform

Tok(k, w, n) == [k |-> k, w |-> w, n |-> n]
Sep(c) == Tok("sep", c, 0)
Word(w) == Tok("word", w, 0)
Dec(n) == Tok("dec", "", n)
Hex(n) == Tok("hex", "", n)
RReg(n) == Tok("rreg", "", n)      \* r followed by hex digits only

\* perf_event_attr.type values and the hardware breakpoint types
PERF_TYPE_TRACEPOINT == 2
PERF_TYPE_RAW == 4
PERF_TYPE_BREAKPOINT == 5
HW_BREAKPOINT_R == 1
HW_BREAKPOINT_W == 2
HW_BREAKPOINT_RW == 3
HW_BREAKPOINT_X == 4
SIZEOF_LONG == 8

Mutable == {"RAW", "PMU", "BREAKPOINT", "TRACEPOINT", "KPROBE", "UPROBE"}
NULL == "NULL"

Entry(type) == [type |-> type, config |-> 0, config1 |-> 0, config2 |-> 0,
                counterArg |-> 0]

\* the static initialiser of the mutable entries
InitTable ==
    [i \in Mutable |->
        CASE i \in {"RAW", "PMU"} -> Entry(PERF_TYPE_RAW)
          [] i = "BREAKPOINT"     -> Entry(PERF_TYPE_BREAKPOINT)
          [] i = "TRACEPOINT"     -> Entry(PERF_TYPE_TRACEPOINT)
          [] OTHER                -> Entry(0)]

\* strrchr / strchr: index of the last / first separator c, 0 if none
SepsAt(s, c) == {i \in 1..Len(s) : s[i] = Sep(c)}
MaxIndex(S) == IF S = {} THEN 0 ELSE CHOOSE i \in S : \A j \in S : j <= i
MinIndex(S) == IF S = {} THEN 0 ELSE CHOOSE i \in S : \A j \in S : i <= j
Last(s, c) == MaxIndex(SepsAt(s, c))
First(s, c) == MinIndex(SepsAt(s, c))
Before(s, i) == SubSeq(s, 1, i - 1)
After(s, i) == SubSeq(s, i + 1, Len(s))

\* atoi and strtol(.., 0) of the text starting at the first token
Atoi(s) == IF s # <<>> /\ s[1].k = "dec" THEN s[1].n ELSE 0
Strtol(s) == IF s # <<>> /\ s[1].k \in {"dec", "hex"} THEN s[1].n ELSE 0

Lookup(f, x) == IF x \in DOMAIN f THEN f[x] ELSE 0

\* findDeviceType: the type file of a device named by one word
FindDeviceType(s) ==
    IF Len(s) = 1 /\ s[1].k = "word" THEN Lookup(DeviceTypes, s[1].w) ELSE 0

\* findTracepointId: the id file of <ns>/<name>, the first ':' made '/'
FindTracepointId(s) == Lookup(Tracepoints, s)

FindCounterArg(s) ==
    IF Len(s) = 1 /\ s[1].k = "word" THEN Lookup(KnownFunctions, s[1].w)
                                    ELSE 0

\* an outcome of a resolution: the entry returned, and the table and
\* probe_func it leaves
Out(res, tbl, pf) == [res |-> res, tbl |-> tbl, pf |-> pf]

(***************************************************************************)
(* getBreakpoint(name, bp_type, bp_len).  The access-type test reads      *)
(* c[-1]; when the last ':' is the first byte of buf that is buf[-1], a   *)
(* byte outside the array, so both outcomes of the test are possible.    *)
(***************************************************************************)
GetBreakpoint(name, type0, len0, tbl, pf) ==
    LET ci == Last(name, "{")
        hasArg == ci > 0 /\ ci < Len(name) /\ name[ci + 1].k = "dec"
                  /\ name[ci + 1].n >= 1
        b1 == IF hasArg THEN Before(name, ci) ELSE name
        arg == IF hasArg THEN name[ci + 1].n ELSE 0
        ai == Last(b1, ":")
        accessOk == {ai > 0 /\ (ai > 1 => b1[ai - 1] # Sep(":"))} \cup
                    (IF ai = 1 THEN {FALSE} ELSE {})
    IN {LET acc == After(b1, ai)
            type == IF ~hasAcc THEN type0
                    ELSE CASE acc = <<Word("r")>> -> HW_BREAKPOINT_R
                           [] acc = <<Word("w")>> -> HW_BREAKPOINT_W
                           [] acc = <<Word("x")>> -> HW_BREAKPOINT_X
                           [] OTHER -> HW_BREAKPOINT_RW
            len1 == IF hasAcc /\ acc = <<Word("x")>> THEN SIZEOF_LONG ELSE len0
            b2 == IF hasAcc THEN Before(b1, ai) ELSE b1
            li == Last(b2, "/")
            len == IF li > 0 THEN Strtol(After(b2, li)) ELSE len1
            b3 == IF li > 0 THEN Before(b2, li) ELSE b2
            oi == Last(b3, "+")
            off == IF oi > 0 THEN Strtol(After(b3, oi)) ELSE 0
            buf == IF oi > 0 THEN Before(b3, oi) ELSE b3
            isAbs == buf # <<>> /\ buf[1].k = "hex"
            addr == IF isAbs THEN buf[1].n ELSE Lookup(Symbols, buf)
            offset == IF ~isAbs /\ oi = 0 THEN BreakpointOffset ELSE off
        IN IF addr = 0 THEN Out(NULL, tbl, pf)
           ELSE Out("BREAKPOINT",
                    [tbl EXCEPT !["BREAKPOINT"] =
                       [@ EXCEPT !.config = type, !.config1 = addr + offset,
                                 !.config2 = len,
                                 !.counterArg =
                                    IF type = HW_BREAKPOINT_X /\ arg = 0
                                    THEN FindCounterArg(buf) ELSE arg]],
                    pf)
        : hasAcc \in accessOk}

GetTracepoint(id, tbl, pf) ==
    Out("TRACEPOINT", [tbl EXCEPT !["TRACEPOINT"].config = id], pf)

\* getProbe(probe, type, name, ret): name is copied into probe_func, which
\* config1 points to; the device type is looked up once and kept
GetProbe(idx, device, name, ret, tbl, pf) ==
    LET type == IF tbl[idx].type = 0 THEN FindDeviceType(<<Word(device)>>)
                                     ELSE tbl[idx].type
        oi == Last(name, "+")
        func == IF oi > 0 THEN Before(name, oi) ELSE name
        t1 == [tbl EXCEPT ![idx].type = type]
    IN IF type = 0 THEN Out(NULL, t1, name)
       ELSE Out(idx, [t1 EXCEPT ![idx].config = ret, ![idx].config1 = -1,
                                ![idx].config2 = IF oi > 0
                                                 THEN Strtol(After(name, oi))
                                                 ELSE 0], func)

GetRawEvent(n, tbl, pf) ==
    Out("RAW", [tbl EXCEPT !["RAW"].config = n], pf)

\* setPmuConfig: the format file of the parameter names a config field and
\* a shift; val << shift is or-ed into that field
SetPmuConfig(fmt, cfg, val) ==
    LET f == PmuFormats[fmt] IN [cfg EXCEPT ![f.field] = @ | (val * 2^f.shift)]

\* resolvePmuEventName: an event name the device defines is replaced by
\* the parameter list read from its events file
ResolvePmuEventName(dev, desc) ==
    IF Len(dev) = 1 /\ <<dev[1].w, desc>> \in DOMAIN PmuAliases
    THEN PmuAliases[<<dev[1].w, desc>>] ELSE desc

\* the elements of a finite set of indices S, in increasing order
Sorted(S) ==
    [k \in 1..Cardinality(S) |->
        CHOOSE i \in S : Cardinality({j \in S : j < i}) = k - 1]

\* s cut at the separator indices P (in increasing order)
SplitAt(s, P) ==
    LET From(k) == IF k = 1 THEN 1 ELSE P[k - 1] + 1
        To(k) == IF k = Len(P) + 1 THEN Len(s) ELSE P[k] - 1
    IN [k \in 1..(Len(P) + 1) |-> SubSeq(s, From(k), To(k))]

\* s cut at every separator c
Split(s, c) == SplitAt(s, Sorted(SepsAt(s, c)))

\* the pieces C of a descriptor cut at ',', with the last one cut at ':'
\* and a trailing empty piece dropped
ParamPieces(C) == SubSeq(C, 1, Len(C) - 1) \o Split(C[Len(C)], ":")
DropEmptyLast(ps) == IF ps[Len(ps)] = <<>> THEN SubSeq(ps, 1, Len(ps) - 1)
                                          ELSE ps

\* the parameters the loop of getPmuEvent visits: it cuts at the first ','
\* while one is left, then at the first ':'; it ends when the rest is empty
PmuParamList(d) == DropEmptyLast(ParamPieces(Split(d, ",")))

\* the name and the value of a parameter p0 whose first '=' is at ei
ParamWord(p) == IF Len(p) = 1 /\ p[1].k = "word" THEN p[1].w ELSE ""
ParamKey(p0, ei) == ParamWord(IF ei > 0 THEN Before(p0, ei) ELSE p0)
ParamVal(p0, ei) == IF ei > 0 THEN Strtol(After(p0, ei)) ELSE 1

\* the loop body for parameter w = val: config, config1, config2 or a
\* format of the device; any other parameter makes getPmuEvent return NULL
ApplyParam(dev, r, w, val) ==
    CASE ~r.ok            -> r
      [] w = "config"     -> [r EXCEPT !.cfg[1] = val]
      [] w = "config1"    -> [r EXCEPT !.cfg[2] = val]
      [] w = "config2"    -> [r EXCEPT !.cfg[3] = val]
      [] <<dev, w>> \in DOMAIN PmuFormats ->
           [r EXCEPT !.cfg = SetPmuConfig(<<dev, w>>, @, val)]
      [] OTHER            -> [r EXCEPT !.ok = FALSE]

PmuParam(dev, r, p0) ==
    ApplyParam(dev, r, ParamKey(p0, First(p0, "=")), ParamVal(p0, First(p0, "=")))

\* the loop over the parameter list ps, from the result r0
FoldParams(dev, ps, r0) ==
    LET R[k \in 0..Len(ps)] == IF k = 0 THEN r0 ELSE PmuParam(dev, R[k - 1], ps[k])
    IN R[Len(ps)]

\* the parameter loop of getPmuEvent over the descriptor d
PmuParams(dev, d, cfg) == FoldParams(dev, PmuParamList(d), [ok |-> TRUE, cfg |-> cfg])

\* the result of getPmuEvent for the table t1 whose PMU type is set, the
\* descriptor desc0 and the result r of the parameter loop
PmuOut(t1, desc0, r, pf) ==
    LET t2 == [t1 EXCEPT !["PMU"].config = r.cfg[1], !["PMU"].config1 = r.cfg[2],
                         !["PMU"].config2 = r.cfg[3]]
    IN CASE t1["PMU"].type = 0 -> Out(NULL, t1, pf)
         [] Len(desc0) = 1 /\ desc0[1].k = "rreg" ->
              Out("PMU", [t1 EXCEPT !["PMU"].config = desc0[1].n], pf)
         [] r.ok -> Out("PMU", t2, pf)
         [] OTHER -> Out(NULL, t2, pf)

PmuEventOf(dev, desc0, tbl, pf) ==
    PmuOut([tbl EXCEPT !["PMU"].type = FindDeviceType(dev)], desc0,
           PmuParams(dev[1].w, ResolvePmuEventName(dev, desc0), <<0, 0, 0>>), pf)

\* getPmuEvent(name) for name = dev/descriptor/
GetPmuEvent(name, tbl, pf) ==
    PmuEventOf(Before(name, First(name, "/")),
               SubSeq(name, First(name, "/") + 1, Len(name) - 1), tbl, pf)

Prefix(s, w) == Len(s) >= 2 /\ s[1] = Word(w) /\ s[2] = Sep(":")

\* forName: the tests in the order of the code
ForName(s, tbl, pf) ==
    LET slash == First(s, "/")
        colon == First(s, ":")
    IN CASE Len(s) = 1 /\ s[1].k = "word" /\ s[1].w \in Predefined ->
              {Out(s[1].w, tbl, pf)}
         [] Prefix(s, "mem") ->
              GetBreakpoint(After(s, 2), HW_BREAKPOINT_RW, 1, tbl, pf)
         [] Prefix(s, "trace") ->
              {IF Atoi(After(s, 2)) > 0
               THEN GetTracepoint(Atoi(After(s, 2)), tbl, pf)
               ELSE Out(NULL, tbl, pf)}
         [] Prefix(s, "kprobe") ->
              {GetProbe("KPROBE", "kprobe", After(s, 2), 0, tbl, pf)}
         [] Prefix(s, "uprobe") ->
              {GetProbe("UPROBE", "uprobe", After(s, 2), 0, tbl, pf)}
         [] Prefix(s, "kretprobe") ->
              {GetProbe("KPROBE", "kprobe", After(s, 2), 1, tbl, pf)}
         [] Prefix(s, "uretprobe") ->
              {GetProbe("UPROBE", "uprobe", After(s, 2), 1, tbl, pf)}
         [] Len(s) = 1 /\ s[1].k = "rreg" -> {GetRawEvent(s[1].n, tbl, pf)}
         [] slash > 1 /\ slash < Len(s) /\ s[Len(s)] = Sep("/") ->
              {GetPmuEvent(s, tbl, pf)}
         [] colon > 0 /\ (colon < Len(s) => s[colon + 1] # Sep(":"))
            /\ FindTracepointId(s) > 0 ->
              {GetTracepoint(FindTracepointId(s), tbl, pf)}
         [] OTHER -> GetBreakpoint(s, HW_BREAKPOINT_X, SIZEOF_LONG, tbl, pf)

=============================================================================
