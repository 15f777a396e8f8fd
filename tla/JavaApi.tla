------------------------------ MODULE JavaApi ------------------------------
(***************************************************************************)
(* The Java entry points (src/src/javaApi.cpp) composed with the parser   *)
(* and the profiler they drive:                                           *)
(*   - execute0 parses a command with Arguments::parse; a parse error is  *)
(*     an IllegalArgumentException and changes nothing, otherwise          *)
(*     Profiler::runInternal runs the command's action;                    *)
(*   - start0 fills an Arguments from an event name and an interval and   *)
(*     calls Profiler::start; stop0 calls Profiler::stop.                 *)
(* The engines read the parsed fields as PerfEvents::check/start and      *)
(* ObjectSampler::check do: the event (EVENT_CPU when NULL), the interval *)
(* (_interval unless the event is NULL or the EVENT_CPU literal -- a      *)
(* pointer comparison --, else cpuSamplerInterval()), _memory and         *)
(* _record_allocations.                                                   *)
(*                                                                         *)
(* Each behaviour draws its calls from one scenario: the commands of one  *)
(* profiling setup, the assumption PerfEvents::stop states ("we are       *)
(* continuously profiling and we know the interval doesn't change").      *)
(***************************************************************************)
EXTENDS Profiler, Arguments

CONSTANTS
    Scenarios,      \* sets of calls; a behaviour makes the calls of one
    CpuSamplerInterval(_, _), \* Arguments::cpuSamplerInterval of (_cpu, _interval)
    DEFAULT_CPU_INTERVAL,
    DEFAULT_WALL_INTERVAL

VARIABLES
    scenario,   \* the calls of this behaviour
    command     \* ghost: the call that started the running session

apiVars == <<vars, scenario, command>>

NoCommand == [api |-> "none"]

\* the fields of Arguments the engines read (PerfEvents::start lines
\* 831-832 and 844-846, ObjectSampler::check)
Session(a) ==
    [event |-> IF a.event \in {NOEVENT, EVENT_CPU} THEN <<Word("cpu")>>
               ELSE a.event,
     interval |-> IF a.event \notin {NOEVENT, EVENT_CPU} THEN a.interval
                  ELSE CpuSamplerInterval(a.cpu, a.interval),
     memory |-> a.memory, recordAlloc |-> a.recordAlloc]

\* start0: the Arguments built from the event name (compared with strcmp)
Start0Args(ev, iv) ==
    CASE ev = <<Word("cpu")>> ->
             [Fresh EXCEPT !.cpu = IF iv > 0 THEN iv ELSE DEFAULT_CPU_INTERVAL]
      [] ev = <<Word("wall")>> ->
             [Fresh EXCEPT !.wall = IF iv > 0 THEN iv ELSE DEFAULT_WALL_INTERVAL]
      \* _alloc, _lock and _memleak: read by no modelled engine
      [] ev \in {<<Word("alloc")>>, <<Word("lock")>>, <<Word("memleak")>>} -> Fresh
      [] OTHER -> [Fresh EXCEPT !.event = ev, !.interval = iv]

\* Profiler::start, remembering the call if it started a session
StartSession(a, c) ==
    /\ Start(Session(a))
    /\ command' = IF state' = "RUNNING" THEN c ELSE command
    /\ UNCHANGED scenario

\* Profiler::runInternal (not in the repository): the command's action
RunInternal(a, c) ==
    \/ a.action \in {"start", "resume"} /\ StartSession(a, c)
    \/ a.action = "stop" /\ Stop /\ UNCHANGED <<scenario, command>>
    \/ a.action = "check" /\ Check(Session(a)) /\ UNCHANGED <<scenario, command>>

\* execute0: an error of parse throws before anything runs
Execute0Parsed(a, c) == ~a.failed /\ RunInternal(a, c)
Execute0(c) == Execute0Parsed(Parse(c.cmd), c)

Start0(c) == StartSession(Start0Args(c.event, c.interval), c)

Stop0 == Stop /\ UNCHANGED <<scenario, command>>

ApiInit ==
    /\ Init
    /\ scenario \in Scenarios
    /\ command = NoCommand

ApiNext ==
    \/ \E c \in scenario :
          \/ c.api = "execute" /\ Execute0(c)
          \/ c.api = "start0" /\ Start0(c)
          \/ c.api = "stop0" /\ Stop0
    \/ Shutdown /\ UNCHANGED <<scenario, command>>
    \/ \E t \in Threads : (ThreadStart(t) \/ ThreadEnd(t))
                          /\ UNCHANGED <<scenario, command>>
    \/ (RecordAllocation \/ UpdateConfiguration) /\ UNCHANGED <<scenario, command>>

ApiSpec == ApiInit /\ [][ApiNext]_apiVars

(***************************************************************************)
(* Properties                                                             *)
(***************************************************************************)

\* the usage comment of Arguments::parse: a command asks for heap sampling
\* with an option named memory[=BYTES...], or with generations=true
AsksHeap(c) ==
    /\ c.api = "execute"
    /\ \E i \in 1..Len(Strtok(c.cmd)) :
          \/ NameAt(Strtok(c.cmd)[i], First(Strtok(c.cmd)[i], "=")) = <<Word("memory")>>
          \/ Strtok(c.cmd)[i] = <<Word("generations"), Sep("="), Word("true")>>

\* While a session runs, the JVM's allocation sampling is on exactly when
\* the command that started it asked for heap sampling: the option goes
\* through execute0, the hashed SWITCH of parse, parseUnits and the
\* default interval, Profiler::start and ObjectSampler::start, and later
\* checks and stops must not turn it off or on.
HeapSamplingAsCommanded ==
    state = "RUNNING" => (allocOn <=> AsksHeap(command))

=============================================================================
