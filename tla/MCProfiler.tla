----------------------------- MODULE MCProfiler -----------------------------
(***************************************************************************)
(* Model-checking instance of JavaApi and the Profiler it drives.  The   *)
(* specifiers cover every path of forName that resolves, and one that    *)
(* does not:                                                              *)
(*   cpu                      a predefined entry                          *)
(*   mem:0x1000+0x10/4:w      a watchpoint at an absolute address         *)
(*   malloc{2}                a breakpoint at a symbol, counting arg 2    *)
(*   kprobe:vfs_read+0x8      a kernel probe                              *)
(*   trace:42                 a tracepoint by id                          *)
(*   sched:sched_switch       a tracepoint by name                        *)
(*   r1f                      a raw event                                 *)
(*   cpu_pmu/event=3,config1=5/  a PMU event with a format field          *)
(*   cpu_pmu/r2a/             a PMU raw event                             *)
(*   nosuch                   no event                                    *)
(***************************************************************************)
EXTENDS JavaApi

SpecCpu == <<Word("cpu")>>
SpecMem == <<Word("mem"), Sep(":"), Hex(4096), Sep("+"), Hex(16), Sep("/"),
             Dec(4), Sep(":"), Word("w")>>
SpecMalloc == <<Word("malloc"), Sep("{"), Dec(2)>>
SpecKprobe == <<Word("kprobe"), Sep(":"), Word("vfs_read"), Sep("+"), Hex(8)>>
SpecTrace == <<Word("trace"), Sep(":"), Dec(42)>>
SpecSched == <<Word("sched"), Sep(":"), Word("sched_switch")>>
SpecRaw == <<RReg(31)>>
SpecPmu == <<Word("cpu_pmu"), Sep("/"), Word("event"), Sep("="), Dec(3), Sep(","),
             Word("config1"), Sep("="), Dec(5), Sep("/")>>
SpecPmuRaw == <<Word("cpu_pmu"), Sep("/"), RReg(42), Sep("/")>>
SpecNone == <<Word("nosuch")>>

MCPredefined == {"cpu"}
MCPredefinedIntervals == [e \in {"cpu"} |-> 10000000]
MCKnownFunctions == [f \in {"malloc"} |-> 1]
MCSymbols == [s \in {<<Word("malloc")>>} |-> 8192]
MCTracepoints == [s \in {SpecSched} |-> 7]
MCDeviceTypes == [d \in {"cpu_pmu", "kprobe"} |-> IF d = "kprobe" THEN 9 ELSE 8]
MCPmuAliases == [x \in {} |-> <<>>]
MCPmuFormats == [x \in {<<"cpu_pmu", "event">>} |-> [field |-> 1, shift |-> 0]]

\* character codes of the option labels and of the unit and config words
MCCodes ==
    ("start" :> <<115, 116, 97, 114, 116>>)
    @@ ("resume" :> <<114, 101, 115, 117, 109, 101>>)
    @@ ("stop" :> <<115, 116, 111, 112>>)
    @@ ("check" :> <<99, 104, 101, 99, 107>>)
    @@ ("status" :> <<115, 116, 97, 116, 117, 115>>)
    @@ ("list" :> <<108, 105, 115, 116>>)
    @@ ("version" :> <<118, 101, 114, 115, 105, 111, 110>>)
    @@ ("jfr" :> <<106, 102, 114>>)
    @@ ("cpu" :> <<99, 112, 117>>)
    @@ ("wall" :> <<119, 97, 108, 108>>)
    @@ ("walltpt" :> <<119, 97, 108, 108, 116, 112, 116>>)
    @@ ("event" :> <<101, 118, 101, 110, 116>>)
    @@ ("memory" :> <<109, 101, 109, 111, 114, 121>>)
    @@ ("generations" :> <<103, 101, 110, 101, 114, 97, 116, 105, 111, 110, 115>>)
    @@ ("interval" :> <<105, 110, 116, 101, 114, 118, 97, 108>>)
    @@ ("jstackdepth" :> <<106, 115, 116, 97, 99, 107, 100, 101, 112, 116, 104>>)
    @@ ("safemode" :> <<115, 97, 102, 101, 109, 111, 100, 101>>)
    @@ ("file" :> <<102, 105, 108, 101>>)
    @@ ("log" :> <<108, 111, 103>>)
    @@ ("loglevel" :> <<108, 111, 103, 108, 101, 118, 101, 108>>)
    @@ ("filter" :> <<102, 105, 108, 116, 101, 114>>)
    @@ ("allkernel" :> <<97, 108, 108, 107, 101, 114, 110, 101, 108>>)
    @@ ("alluser" :> <<97, 108, 108, 117, 115, 101, 114>>)
    @@ ("cstack" :> <<99, 115, 116, 97, 99, 107>>)
    @@ ("attributes" :> <<97, 116, 116, 114, 105, 98, 117, 116, 101, 115>>)
    @@ ("lightweight" :> <<108, 105, 103, 104, 116, 119, 101, 105, 103, 104, 116>>)
    @@ ("wallsampler" :> <<119, 97, 108, 108, 115, 97, 109, 112, 108, 101, 114>>)
    @@ ("k" :> <<107>>)
    @@ ("l" :> <<108>>)
    @@ ("a" :> <<97>>)
    @@ ("ms" :> <<109, 115>>)
    @@ ("x" :> <<120>>)
    @@ ("config1" :> <<99, 111, 110, 102, 105, 103, 49>>)
    @@ ("MEMORY" :> <<77, 69, 77, 79, 82, 89>>)

\* a command: options joined by ',' (a token sequence)
Opt(w, v) == <<Word(w), Sep("=")>> \o v
RECURSIVE Join(_)
Join(opts) == IF Len(opts) = 1 THEN opts[1] ELSE opts[1] \o <<Sep(",")>> \o Join(Tail(opts))
Exec(opts) == [api |-> "execute", cmd |-> Join(opts)]
StartExec(opts) == Exec(<<<<Word("start")>>>> \o opts)
CheckExec(opts) == Exec(<<<<Word("check")>>>> \o opts)
StopExec == Exec(<<<<Word("stop")>>>>)
Stop0Call == [api |-> "stop0"]
Start0Call(e, i) == [api |-> "start0", event |-> e, interval |-> i]

\* a profiling setup: start and check with the same options, stop by
\* command or by stop0
Setup(opts) == {StartExec(opts), CheckExec(opts), StopExec, Stop0Call}

\* one setup per behaviour: every forName path, bare and sized memory
\* options with and without config, generations, unit suffixes, and
\* start0 with a PMU specifier (its ',' would split a command) and with cpu
MCSteadyScenarios ==
    { Setup(<<Opt("event", SpecCpu), Opt("memory", <<Dec(2), Sep(":"), Word("a")>>)>>),
      Setup(<<Opt("event", SpecMem), Opt("interval", <<Dec(5)>>)>>),
      Setup(<<Opt("event", SpecMalloc), <<Word("memory")>>>>),
      Setup(<<Opt("event", SpecKprobe), Opt("interval", <<Dec(3)>>),
              Opt("cpu", <<Dec(1), Word("ms")>>)>>),
      Setup(<<Opt("event", SpecTrace), Opt("generations", <<Word("true")>>)>>),
      Setup(<<Opt("event", SpecSched), Opt("memory", <<Dec(1), Word("k"), Sep(":"), Word("l")>>)>>),
      Setup(<<Opt("event", SpecRaw), Opt("wall", <<Sep("~"), Dec(5), Word("ms")>>)>>),
      {Start0Call(SpecPmu, 0), Stop0Call},
      Setup(<<Opt("event", SpecPmuRaw)>>),
      Setup(<<Opt("event", SpecNone)>>),
      {Start0Call(<<Word("cpu")>>, 0), StopExec} }

\* two watchpoints on different addresses, called in any order
SpecMem2 == <<Word("mem"), Sep(":"), Hex(8192), Sep("/"), Dec(8), Sep(":"), Word("r")>>
MCTwoWatchScenarios ==
    { Setup(<<Opt("event", SpecMem), Opt("interval", <<Dec(5)>>)>>)
      \cup Setup(<<Opt("event", SpecMem2), Opt("interval", <<Dec(5)>>)>>) }

\* arguments.h is not in the repository: the CPU sampler interval is _cpu
\* when positive, else _interval
MCCpuSamplerInterval(cpu, iv) == IF cpu > 0 THEN cpu ELSE iv

MCThreads == 1..2
MCSignals == {-1, 1}

=============================================================================
