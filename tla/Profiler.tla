------------------------------ MODULE Profiler ------------------------------
(***************************************************************************)
(* The profiler orchestrator composed with the engines it drives:         *)
(*   - Profiler::check/start/stop/shutdown and _state (src/src/profiler.h *)
(*     declares them; their bodies are not in the repository, so they     *)
(*     follow spec 3 and 4.3);                                            *)
(*   - PerfEvents::check and PerfEvents::start/stop                       *)
(*     (perfEvents_linux.cpp), which resolve the event through Resolver   *)
(*     into the shared AVAILABLE_EVENTS table and keep a pointer to it in *)
(*     _event_type;                                                       *)
(*   - registerThread's read of *_event_type and _interval into the       *)
(*     perf_event_attr of a new counter, the registration protocol itself *)
(*     being the subject of PerfEvents;                                   *)
(*   - ObjectSampler::check/start/stop, recordAllocation and              *)
(*     updateConfiguration (src/src/objectSampler.cpp).                   *)
(*                                                                         *)
(* An action that takes arguments a is given the fields of Arguments the  *)
(* engines read: the event and the interval PerfEvents::start picks, and *)
(* _memory and _record_allocations.  JavaApi drives these actions from    *)
(* the commands of the Java API.                                          *)
(***************************************************************************)
EXTENDS Resolver, FiniteSets

CONSTANTS
    PredefinedIntervals, \* default_interval of the predefined entries
    Threads,        \* profiled threads
    JvmInterval0,   \* the JVM's heap sampling interval before any start
    Signals,        \* outputs of the PID controller, converted to int
    MaxAllocs,      \* sampled allocations counted by the histogram (bound)
    MaxUpdates      \* periodic updateConfiguration calls (bound)

None == [entry |-> "none"]

\* the session before any start: no heap sampling asked for
NoSession == [event |-> <<>>, interval |-> 0, memory |-> 0,
              recordAlloc |-> FALSE]

VARIABLES
    state,      \* Profiler::_state
    tbl, pf,    \* the mutable AVAILABLE_EVENTS entries and probe_func
    eventType,  \* PerfEvents::_event_type: an entry name or NULL
    interval,   \* PerfEvents::_interval
    started,    \* _max_events != -1: PerfEvents::start got past resolution
    hooked,     \* the pthread_setspecific hook is installed
    alive,      \* threads running
    counter,    \* the perf_event_attr each thread's counter was opened with
    session,    \* ghost: the arguments of the running session
    osInterval, recordAlloc, \* ObjectSampler::_interval, _record_allocations
    allocOn,    \* JVMTI_EVENT_SAMPLED_OBJECT_ALLOC enabled
    jvmInterval, \* the JVM's heap sampling interval
    lastCount,  \* ObjectSampler::_last_event_count
    histo,      \* event_histo[T_ALLOC] of the current recording
    updates     \* updateConfiguration calls so far

perf == <<tbl, pf, eventType, interval, started, hooked>>
os == <<osInterval, recordAlloc, allocOn, jvmInterval, lastCount, histo, updates>>
vars == <<state, perf, alive, counter, session, os>>

\* registerThread: the perf_event_attr built from *event_type and
\* _interval; config1 of a probe points to probe_func, read by the kernel
Attr(et, t, p, iv) ==
    IF et \in Predefined
    THEN [entry |-> et, type |-> 0, config |-> 0, config1 |-> 0,
          config2 |-> 0, probe |-> <<>>, period |-> iv]
    ELSE [entry |-> et, type |-> t[et].type, config |-> t[et].config,
          config1 |-> t[et].config1, config2 |-> t[et].config2,
          probe |-> IF et \in {"KPROBE", "UPROBE"} THEN p ELSE <<>>,
          period |-> iv]

CounterArg(et, t) == IF et \in Predefined THEN 0 ELSE t[et].counterArg

\* default_interval of the entries of AVAILABLE_EVENTS
DefaultInterval(et) ==
    CASE et \in {"RAW", "PMU"} -> 1000
      [] et \in Mutable      -> 1
      [] OTHER                 -> PredefinedIntervals[et]

\* _interval = interval ? interval : _event_type->default_interval
Period(a, et) == IF a.interval # 0 THEN a.interval ELSE DefaultInterval(et)

\* what a session with arguments a asks for: its event resolved from the
\* initial table
Expected(a) ==
    {Attr(o.res, o.tbl, o.pf, Period(a, o.res)) :
        o \in {x \in ForName(a.event, InitTable, <<>>) : x.res # NULL}}

(***************************************************************************)
(* ObjectSampler                                                          *)
(***************************************************************************)

\* ObjectSampler::check: _interval, _record_allocations from the arguments
OsCheck(a) == osInterval' = a.memory /\ recordAlloc' = a.recordAlloc

\* ObjectSampler::start: check, then if _interval > 0 set the JVM interval,
\* enable the event and reset _last_event_count
OsStart(a) ==
    /\ OsCheck(a)
    /\ IF a.memory > 0
       THEN /\ jvmInterval' = a.memory /\ allocOn' = TRUE /\ lastCount' = 0
       ELSE UNCHANGED <<jvmInterval, allocOn, lastCount>>

\* ObjectSampler::stop
OsStop == allocOn' = FALSE

Init ==
    /\ state = "NEW"
    /\ tbl = InitTable /\ pf = <<>>
    /\ eventType = NULL /\ interval = 0
    /\ started = FALSE /\ hooked = FALSE
    /\ alive = [t \in Threads |-> FALSE]
    /\ counter = [t \in Threads |-> None]
    /\ session = NoSession
    /\ osInterval = 0 /\ recordAlloc = FALSE /\ allocOn = FALSE
    /\ jvmInterval = JvmInterval0 /\ lastCount = 0 /\ histo = 0
    /\ updates = 0

(***************************************************************************)
(* Actions                                                                *)
(***************************************************************************)

\* Profiler::check: PerfEvents::check resolves the event (forName writes the
\* shared entry and probe_func whatever the outcome), rejects NULL and
\* counter_arg > 4, opens and closes a probe counter that may fail; then
\* ObjectSampler::check.  The first success moves NEW to IDLE.
Check(a) ==
    \E o \in ForName(a.event, tbl, pf) :
        /\ tbl' = o.tbl /\ pf' = o.pf
        /\ IF o.res = NULL \/ CounterArg(o.res, o.tbl) > 4
           THEN UNCHANGED <<state, osInterval, recordAlloc>>
           ELSE \/ UNCHANGED <<state, osInterval, recordAlloc>> \* open fails
                \/ /\ OsCheck(a)
                   /\ state' = IF state = "NEW" THEN "IDLE" ELSE state
        /\ UNCHANGED <<eventType, interval, started, hooked, alive, counter,
                       session, allocOn, jvmInterval, lastCount,
                       histo, updates>>

\* the counters after the start loop has walked the tids below f: a live
\* thread without a counter gets one, a registered one keeps its own, the
\* counter of a tid that is not live is closed
Walked(new, f) ==
    [t \in Threads |-> IF t >= f THEN counter[t]
                       ELSE IF alive[t]
                            THEN IF counter[t] = None THEN new ELSE counter[t]
                            ELSE None]

\* Profiler::start from IDLE.  PerfEvents::start sets _event_type from
\* forName before checking it; past the checks it sets _interval and
\* _max_events, installs the hook and walks the tids.  A registration
\* failing with EACCES on thread f resets the hook and fails the start.
\* Otherwise ObjectSampler::start runs and a new recording begins.
Start(a) ==
    /\ state = "IDLE"
    /\ \E o \in ForName(a.event, tbl, pf) :
        LET et == o.res IN
        /\ tbl' = o.tbl /\ pf' = o.pf /\ eventType' = et
        /\ IF et = NULL \/ CounterArg(et, o.tbl) > 4 \/ a.interval < 0
           THEN UNCHANGED <<state, interval, started, hooked, alive, counter,
                            session, os>>
           ELSE
           LET iv == Period(a, et)
               new == Attr(et, o.tbl, o.pf, iv)
           IN /\ interval' = iv /\ started' = TRUE
              /\ UNCHANGED alive
              /\ \/ /\ hooked' = TRUE
                    /\ counter' = Walked(new, 1 + Cardinality(Threads))
                    /\ session' = a /\ OsStart(a) /\ histo' = 0
                    /\ state' = "RUNNING"
                    /\ UNCHANGED updates
                 \/ \E f \in {t \in Threads : alive[t] /\ counter[t] = None} :
                    /\ hooked' = FALSE
                    /\ counter' = Walked(new, f)
                    /\ UNCHANGED <<state, session, os>>

\* Profiler::stop: ObjectSampler::stop disables the allocation event;
\* PerfEvents::stop leaves every counter open
Stop ==
    /\ state = "RUNNING"
    /\ state' = "IDLE"
    /\ OsStop
    /\ UNCHANGED <<perf, alive, counter, session, osInterval,
                   recordAlloc, jvmInterval, lastCount, histo, updates>>

\* shutdown stops a running profiler and removes the hook
Shutdown ==
    /\ state \in {"IDLE", "RUNNING"}
    /\ state' = "TERMINATED"
    /\ IF state = "RUNNING" THEN OsStop ELSE UNCHANGED allocOn
    /\ hooked' = FALSE
    /\ UNCHANGED <<tbl, pf, eventType, interval, started, alive, counter,
                   session, osInterval, recordAlloc, jvmInterval,
                   lastCount, histo, updates>>

\* Fault-injected variant: the new counter's period is the entry's
\* default_interval, as in PerfEvents::check, instead of _interval.
ThreadStartDefaultPeriod(t) ==
    /\ ~alive[t]
    /\ alive' = [alive EXCEPT ![t] = TRUE]
    /\ IF hooked /\ started /\ eventType # NULL /\ counter[t] = None
       THEN counter' \in {counter, [counter EXCEPT ![t] =
                          Attr(eventType, tbl, pf, DefaultInterval(eventType))]}
       ELSE UNCHANGED counter
    /\ UNCHANGED <<state, perf, session, os>>

\* a thread starts; through the hook, registerThread opens its counter from
\* *_event_type and _interval unless it has one (perf_event_open may fail)
ThreadStart(t) ==
    /\ ~alive[t]
    /\ alive' = [alive EXCEPT ![t] = TRUE]
    /\ IF hooked /\ started /\ eventType # NULL /\ counter[t] = None
       THEN counter' \in {counter, [counter EXCEPT ![t] =
                                    Attr(eventType, tbl, pf, interval)]}
       ELSE UNCHANGED counter
    /\ UNCHANGED <<state, perf, session, os>>

\* a thread ends; through the hook its counter is closed
ThreadEnd(t) ==
    /\ alive[t]
    /\ alive' = [alive EXCEPT ![t] = FALSE]
    /\ counter' = IF hooked THEN [counter EXCEPT ![t] = None] ELSE counter
    /\ UNCHANGED <<state, perf, session, os>>

\* ObjectSampler::recordAllocation of a sampled object whose stack trace
\* was taken, with _record_allocations: recordExternalSample counts it
RecordAllocation ==
    /\ allocOn /\ recordAlloc
    /\ histo < MaxAllocs
    /\ histo' = histo + 1
    /\ UNCHANGED <<state, perf, alive, counter, session, osInterval,
                   recordAlloc, allocOn, jvmInterval, lastCount, updates>>

\* Fault-injected variant: the required interval is applied without the
\* test against the configured _interval.
UpdateConfigurationNoFloor ==
    /\ state = "RUNNING"
    /\ updates < MaxUpdates
    /\ updates' = updates + 1
    /\ IF recordAlloc
       THEN \E signal \in Signals :
              /\ jvmInterval' = jvmInterval - signal
              /\ lastCount' = histo
       ELSE UNCHANGED <<jvmInterval, lastCount>>
    /\ UNCHANGED <<state, perf, alive, counter, session, osInterval,
                   recordAlloc, allocOn, histo>>

\* ObjectSampler::updateConfiguration on the periodic check: the PID
\* controller's signal, computed from the count since the last check, is
\* subtracted from the JVM's interval; the result is applied only if not
\* below _interval
UpdateConfiguration ==
    /\ state = "RUNNING"
    /\ updates < MaxUpdates
    /\ updates' = updates + 1
    /\ IF recordAlloc
       THEN \E signal \in Signals :
              LET required == jvmInterval - signal IN
              /\ jvmInterval' = IF required >= osInterval THEN required
                                                          ELSE jvmInterval
              /\ lastCount' = histo
       ELSE UNCHANGED <<jvmInterval, lastCount>>
    /\ UNCHANGED <<state, perf, alive, counter, session, osInterval,
                   recordAlloc, allocOn, histo>>

(***************************************************************************)
(* Properties                                                             *)
(***************************************************************************)

\* While the profiler runs, every open perf counter counts the event and
\* period that the session's arguments name, as resolved from scratch:
\* the counters PerfEvents::stop leaves open and start keeps, those the
\* hook opens between sessions, and those of threads started meanwhile.
CountersCountSessionEvent ==
    state = "RUNNING" =>
        \A t \in Threads : counter[t] = None \/ counter[t] \in Expected(session)

\* The allocation event is enabled exactly while a session that asked for
\* heap sampling runs, and the PID loop of updateConfiguration never sets
\* the JVM's interval below the interval the session configured.
HeapSamplerFollowsSession ==
    /\ allocOn <=> (state = "RUNNING" /\ session.memory > 0)
    /\ allocOn => jvmInterval >= session.memory

=============================================================================
