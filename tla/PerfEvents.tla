----------------------------- MODULE PerfEvents -----------------------------
(***************************************************************************)
(* The per-thread perf_event counter lifecycle of PerfEvents               *)
(* (src/ddprof-lib/src/main/cpp/perfEvents_linux.cpp).                     *)
(*                                                                         *)
(* _events[tid] is a slot {_fd, _page, SpinLock}.  _fd is 0 (unset), -1   *)
(* (reserved by a registration in progress) or a live descriptor.  Three   *)
(* kinds of actor touch the slots:                                         *)
(*   - every JVM thread, through the pthread_setspecific hook, registers   *)
(*     itself when it binds its VMThread and unregisters itself when it   *)
(*     unbinds it;                                                          *)
(*   - the control thread running PerfEvents::start, which snapshots the  *)
(*     live threads and walks tid 0.._max_events-1, registering listed    *)
(*     tids and unregistering the others;                                  *)
(*   - the SIGPROF handler, which runs on the profiled thread itself,     *)
(*     interrupting whatever that thread was doing, try-locks the slot to *)
(*     read the kernel ring page, then re-arms the descriptor from si_fd. *)
(* The kernel is modelled by the set of open descriptors, the thread (tid *)
(* and incarnation) each counts, whether it is armed, the mapped pages and *)
(* the queued SIGPROF signals.  Every shared access of the C++ code is one *)
(* step, so every interleaving of the actors is explored.                 *)
(***************************************************************************)
EXTENDS Integers, FiniteSets, FiniteSetsExt

CONSTANTS
    Tids,               \* thread ids the model uses, a subset of 0..MaxEvents-1
    MaxEvents,          \* the largest pid_max: the slots the model keeps
    PidMaxes,           \* values OS::getMaxThreadId() may return at a start
    FdNums,             \* descriptor numbers the process may be handed
    PageIds,            \* addresses mmap may return for a ring page
    Ctl,                \* the thread that runs Profiler::start / stop
    KernelRing,         \* (_ring & RING_KERNEL) and _use_mmap_page
    OpenMayFail,        \* perf_event_open may fail with EACCES
    StartRacesThreads,  \* threads may start and end while start() runs
    MaxLives            \* incarnations of a tid (bounds thread churn)

ASSUME /\ Tids \subseteq 0..(MaxEvents - 1)
       /\ PidMaxes \subseteq 1..MaxEvents /\ PidMaxes # {}
       /\ FdNums \subseteq Nat \ {0}
       /\ PageIds \subseteq Nat \ {0}
       /\ Ctl \notin Tids
       /\ KernelRing \in BOOLEAN /\ OpenMayFail \in BOOLEAN
       /\ StartRacesThreads \in BOOLEAN
       /\ MaxLives \in Nat \ {0}

Procs == Tids \cup {Ctl}

\* errno values registerThread returns (0 is success)
ESRCH  == 3
EACCES == 13
EMFILE == 24

RESERVED == -1          \* _fd value marking a registration in progress
NOPAGE   == 0           \* _page == NULL

VARIABLES
    evFd, evPage, evLock,   \* the _events[] slots
    maxEvents,              \* _max_events, -1 until the first start
    hooked,                 \* *_pthread_entry points at the hook
    enabled,                \* PerfEvents::_enabled
    fdOpen, fdTarget, fdOwner, fdArmed, mapped, pending,   \* kernel
    gen,                    \* incarnation of each tid (0: never started)
    pc, lfd, lpage,         \* program counter and locals of each actor
    ctid, snapshot, cerr,   \* locals of PerfEvents::start
    hpc, hfd, hpage         \* the SIGPROF handler running on each thread

kernel  == <<fdOpen, fdTarget, fdOwner, fdArmed, mapped, pending>>
slots   == <<evFd, evPage, evLock>>
ctlVars == <<ctid, snapshot, cerr>>
sigVars == <<hpc, hfd, hpage>>
vars == <<slots, maxEvents, hooked, enabled, kernel, gen, pc, lfd, lpage,
          ctlVars, sigVars>>

RegPcs   == {"R_check", "R_cas", "R_open", "R_publish", "R_mmap",
             "R_reset", "R_setfd", "R_setpage", "R_arm"}
UnregPcs == {"U_load", "U_cas", "U_close", "U_page", "U_lock", "U_unmap",
             "U_clear"}
SigPcs   == {"none", "try", "page", "access", "unlock", "refresh"}

\* the tid whose slot actor p is working on
TidOf(p) == IF p = Ctl THEN ctid ELSE p

Alive(t) == pc[t] # "dead"

\* the thread incarnation a descriptor counts
Self(t) == <<t, gen[t]>>

Goto(p, l) == pc' = [pc EXCEPT ![p] = l]

\* normal code of p runs only when no signal handler has interrupted it
Runs(p, l) == /\ pc[p] = l
              /\ IF p = Ctl THEN TRUE ELSE hpc[p] = "none"

TypeOK ==
    /\ evFd \in [0..(MaxEvents - 1) -> FdNums \cup {0, RESERVED}]
    /\ evPage \in [0..(MaxEvents - 1) -> PageIds \cup {NOPAGE}]
    /\ evLock \in [0..(MaxEvents - 1) -> BOOLEAN]
    /\ maxEvents \in {-1} \cup PidMaxes
    /\ hooked \in BOOLEAN /\ enabled \in BOOLEAN
    /\ fdOpen \subseteq FdNums /\ mapped \subseteq PageIds
    /\ fdTarget \in [FdNums -> (Tids \X (0..MaxLives)) \cup {<<>>}]
    /\ fdOwner \in [FdNums -> Tids \cup {-1}]
    /\ fdArmed \in [FdNums -> BOOLEAN]
    /\ pending \in [Tids -> SUBSET FdNums]
    /\ gen \in [Tids -> 0..MaxLives]
    /\ pc \in [Procs -> {"dead", "running", "idle", "list", "loop",
                         "finish"} \cup RegPcs \cup UnregPcs]
    /\ lfd \in [Procs -> FdNums \cup {0, RESERVED}]
    /\ lpage \in [Procs -> PageIds \cup {NOPAGE}]
    /\ ctid \in 0..MaxEvents /\ snapshot \subseteq Tids
    /\ cerr \in {0, -1, ESRCH, EACCES, EMFILE}
    /\ hpc \in [Tids -> SigPcs]
    /\ hfd \in [Tids -> FdNums \cup {0}]
    /\ hpage \in [Tids -> PageIds \cup {NOPAGE}]

(***************************************************************************)
(* Initially the JVM runs some threads and the profiler is not started:   *)
(* no hook, _max_events = -1, all slots zero.                             *)
(***************************************************************************)
Init ==
    /\ evFd = [t \in 0..(MaxEvents - 1) |-> 0]
    /\ evPage = [t \in 0..(MaxEvents - 1) |-> NOPAGE]
    /\ evLock = [t \in 0..(MaxEvents - 1) |-> FALSE]
    /\ maxEvents = -1
    /\ hooked = FALSE
    /\ enabled = FALSE
    /\ fdOpen = {} /\ mapped = {}
    /\ fdTarget = [f \in FdNums |-> <<>>]
    /\ fdOwner = [f \in FdNums |-> -1]
    /\ fdArmed = [f \in FdNums |-> FALSE]
    /\ pending = [t \in Tids |-> {}]
    /\ \E live \in SUBSET Tids :
          /\ gen = [t \in Tids |-> IF t \in live THEN 1 ELSE 0]
          /\ pc = [p \in Procs |-> IF p = Ctl THEN "idle"
                                   ELSE IF p \in live THEN "running"
                                   ELSE "dead"]
    /\ lfd = [p \in Procs |-> 0]
    /\ lpage = [p \in Procs |-> NOPAGE]
    /\ ctid = 0 /\ snapshot = {} /\ cerr = 0
    /\ hpc = [t \in Tids |-> "none"]
    /\ hfd = [t \in Tids |-> 0]
    /\ hpage = [t \in Tids |-> NOPAGE]

(***************************************************************************)
(* Returning from registerThread.  The hook ignores the result; start()   *)
(* moves to the next tid on success or ESRCH and breaks out of its loop   *)
(* on any other error.                                                    *)
(***************************************************************************)
RegReturn(p, err) ==
    IF p # Ctl THEN Goto(p, "running") /\ UNCHANGED <<ctid, cerr>>
    ELSE IF err = 0 \/ err = ESRCH
         THEN /\ ctid' = ctid + 1 /\ Goto(p, "loop") /\ UNCHANGED cerr
         ELSE /\ cerr' = err /\ Goto(p, "finish") /\ UNCHANGED ctid

\* returning from unregisterThread: the hook lets the thread end,
\* start() moves to the next tid
UnregReturn(p) ==
    IF p # Ctl THEN Goto(p, "dead") /\ UNCHANGED ctid
    ELSE ctid' = ctid + 1 /\ Goto(p, "loop")

(***************************************************************************)
(* PerfEvents::registerThread(tid), one step per shared access.           *)
(***************************************************************************)
\* not started, tid out of range, or already live: nothing to do
RegCheck(p) ==
    LET t == TidOf(p) IN
    /\ Runs(p, "R_check")
    /\ CASE maxEvents = -1   -> RegReturn(p, 0)
         [] t >= maxEvents   -> RegReturn(p, -1)
         [] evFd[t] > 0      -> RegReturn(p, 0)
         [] OTHER            -> Goto(p, "R_cas") /\ UNCHANGED <<ctid, cerr>>
    /\ UNCHANGED <<slots, maxEvents, hooked, enabled, kernel, gen, lfd, lpage,
                   snapshot, sigVars>>

\* __sync_bool_compare_and_swap(&_fd, 0, -1); losing the race is success
RegCas(p) ==
    LET t == TidOf(p) IN
    /\ Runs(p, "R_cas")
    /\ IF evFd[t] = 0
       THEN /\ evFd' = [evFd EXCEPT ![t] = RESERVED]
            /\ Goto(p, "R_open") /\ UNCHANGED <<ctid, cerr>>
       ELSE RegReturn(p, 0) /\ UNCHANGED evFd
    /\ UNCHANGED <<evPage, evLock, maxEvents, hooked, enabled, kernel, gen,
                   lfd, lpage, snapshot, sigVars>>

\* the errors perf_event_open(attr, tid) can return in this state
OpenErrors(t) ==
    (IF ~Alive(t) THEN {ESRCH} ELSE {})
    \cup (IF fdOpen = FdNums THEN {EMFILE} ELSE {})
    \cup (IF OpenMayFail THEN {EACCES} ELSE {})

\* Fault-injected variant: the failure path stores errno into _fd.
\* of tid; on failure the plain store _fd = 0 releases the reservation
RegOpenStoresErrno(p) ==
    LET t == TidOf(p) IN
    /\ Runs(p, "R_open")
    /\ \/ /\ Alive(t) /\ fdOpen # FdNums
          /\ LET f == Min(FdNums \ fdOpen) IN
             /\ fdOpen' = fdOpen \cup {f}
             /\ fdTarget' = [fdTarget EXCEPT ![f] = Self(t)]
             /\ fdOwner' = [fdOwner EXCEPT ![f] = -1]
             /\ fdArmed' = [fdArmed EXCEPT ![f] = FALSE]
             /\ lfd' = [lfd EXCEPT ![p] = f]
          /\ Goto(p, "R_publish")
          /\ UNCHANGED <<evFd, ctid, cerr>>
       \/ \E err \in OpenErrors(t) :
          /\ evFd' = [evFd EXCEPT ![t] = err]
          /\ RegReturn(p, err)
          /\ UNCHANGED <<fdOpen, fdTarget, fdOwner, fdArmed, lfd>>
    /\ UNCHANGED <<evPage, evLock, maxEvents, hooked, enabled, mapped, pending,
                   gen, lpage, snapshot, sigVars>>

\* perf_event_open: a new descriptor, disabled, counting this incarnation
\* of tid; on failure the plain store _fd = 0 releases the reservation
RegOpen(p) ==
    LET t == TidOf(p) IN
    /\ Runs(p, "R_open")
    /\ \/ /\ Alive(t) /\ fdOpen # FdNums
          /\ LET f == Min(FdNums \ fdOpen) IN
             /\ fdOpen' = fdOpen \cup {f}
             /\ fdTarget' = [fdTarget EXCEPT ![f] = Self(t)]
             /\ fdOwner' = [fdOwner EXCEPT ![f] = -1]
             /\ fdArmed' = [fdArmed EXCEPT ![f] = FALSE]
             /\ lfd' = [lfd EXCEPT ![p] = f]
          /\ Goto(p, "R_publish")
          /\ UNCHANGED <<evFd, ctid, cerr>>
       \/ \E err \in OpenErrors(t) :
          /\ evFd' = [evFd EXCEPT ![t] = 0]
          /\ RegReturn(p, err)
          /\ UNCHANGED <<fdOpen, fdTarget, fdOwner, fdArmed, lfd>>
    /\ UNCHANGED <<evPage, evLock, maxEvents, hooked, enabled, mapped, pending,
                   gen, lpage, snapshot, sigVars>>

\* __sync_bool_compare_and_swap(&_fd, -1, fd); on a lost race close(fd)
RegPublish(p) ==
    LET t == TidOf(p)
        f == lfd[p]
    IN
    /\ Runs(p, "R_publish")
    /\ IF evFd[t] = RESERVED
       THEN /\ evFd' = [evFd EXCEPT ![t] = f]
            /\ Goto(p, "R_mmap")
            /\ UNCHANGED <<fdOpen, fdArmed, ctid, cerr>>
       ELSE /\ fdOpen' = fdOpen \ {f}
            /\ fdArmed' = [fdArmed EXCEPT ![f] = FALSE]
            /\ RegReturn(p, 0)
            /\ UNCHANGED evFd
    /\ UNCHANGED <<evPage, evLock, maxEvents, hooked, enabled, fdTarget,
                   fdOwner, mapped, pending, gen, lfd, lpage, snapshot,
                   sigVars>>

\* mmap of the ring page when kernel call chains are wanted; MAP_FAILED
\* is logged and leaves page NULL
RegMmap(p) ==
    /\ Runs(p, "R_mmap")
    /\ IF KernelRing
       THEN \/ /\ mapped # PageIds
               /\ LET pg == Min(PageIds \ mapped) IN
                  /\ mapped' = mapped \cup {pg}
                  /\ lpage' = [lpage EXCEPT ![p] = pg]
            \/ lpage' = [lpage EXCEPT ![p] = NOPAGE] /\ UNCHANGED mapped
       ELSE lpage' = [lpage EXCEPT ![p] = NOPAGE] /\ UNCHANGED mapped
    /\ Goto(p, "R_reset")
    /\ UNCHANGED <<slots, maxEvents, hooked, enabled, fdOpen, fdTarget,
                   fdOwner, fdArmed, pending, gen, lfd, ctlVars, sigVars>>

\* _events[tid].reset(): the slot's spin lock is cleared unconditionally
RegReset(p) ==
    /\ Runs(p, "R_reset")
    /\ evLock' = [evLock EXCEPT ![TidOf(p)] = FALSE]
    /\ Goto(p, "R_setfd")
    /\ UNCHANGED <<evFd, evPage, maxEvents, hooked, enabled, kernel, gen, lfd,
                   lpage, ctlVars, sigVars>>

\* _events[tid]._fd = fd (a plain store)
RegSetFd(p) ==
    /\ Runs(p, "R_setfd")
    /\ evFd' = [evFd EXCEPT ![TidOf(p)] = lfd[p]]
    /\ Goto(p, "R_setpage")
    /\ UNCHANGED <<evPage, evLock, maxEvents, hooked, enabled, kernel, gen,
                   lfd, lpage, ctlVars, sigVars>>

\* _events[tid]._page = page
RegSetPage(p) ==
    /\ Runs(p, "R_setpage")
    /\ evPage' = [evPage EXCEPT ![TidOf(p)] = lpage[p]]
    /\ Goto(p, "R_arm")
    /\ UNCHANGED <<evFd, evLock, maxEvents, hooked, enabled, kernel, gen, lfd,
                   lpage, ctlVars, sigVars>>

\* fcntl(O_ASYNC, SIGPROF, F_SETOWN_EX tid) and ioctl(RESET, REFRESH 1)
\* on the descriptor number held locally, whatever it now denotes
RegArm(p) ==
    LET f == lfd[p] IN
    /\ Runs(p, "R_arm")
    /\ IF f \in fdOpen
       THEN /\ fdOwner' = [fdOwner EXCEPT ![f] = TidOf(p)]
            /\ fdArmed' = [fdArmed EXCEPT ![f] = TRUE]
       ELSE UNCHANGED <<fdOwner, fdArmed>>
    /\ RegReturn(p, 0)
    /\ UNCHANGED <<slots, maxEvents, hooked, enabled, fdOpen, fdTarget, mapped,
                   pending, gen, lfd, lpage, snapshot, sigVars>>

(***************************************************************************)
(* PerfEvents::unregisterThread(tid).                                     *)
(***************************************************************************)
\* tid >= _max_events (always so before the first start); fd = _fd
UnregLoad(p) ==
    LET t == TidOf(p) IN
    /\ Runs(p, "U_load")
    /\ IF t >= maxEvents
       THEN UnregReturn(p) /\ UNCHANGED lfd
       ELSE lfd' = [lfd EXCEPT ![p] = evFd[t]] /\ Goto(p, "U_cas")
            /\ UNCHANGED ctid
    /\ UNCHANGED <<slots, maxEvents, hooked, enabled, kernel, gen, lpage,
                   snapshot, cerr, sigVars>>

\* fd > 0 && __sync_bool_compare_and_swap(&_fd, fd, 0)
UnregCas(p) ==
    LET t == TidOf(p) IN
    /\ Runs(p, "U_cas")
    /\ IF lfd[p] > 0 /\ evFd[t] = lfd[p]
       THEN evFd' = [evFd EXCEPT ![t] = 0] /\ Goto(p, "U_close")
       ELSE UNCHANGED evFd /\ Goto(p, "U_page")
    /\ UNCHANGED <<evPage, evLock, maxEvents, hooked, enabled, kernel, gen,
                   lfd, lpage, ctlVars, sigVars>>

\* Fault-injected variant: the counter is disabled but never closed.
UnregCloseNoClose(p) ==
    LET f == lfd[p] IN
    /\ Runs(p, "U_close")
    /\ fdArmed' = [fdArmed EXCEPT ![f] = FALSE]
    /\ Goto(p, "U_page")
    /\ UNCHANGED <<slots, maxEvents, hooked, enabled, fdOpen, fdTarget,
                   fdOwner, mapped, pending, gen, lfd, lpage, ctlVars, sigVars>>

\* ioctl(fd, PERF_EVENT_IOC_DISABLE); close(fd)
UnregClose(p) ==
    LET f == lfd[p] IN
    /\ Runs(p, "U_close")
    /\ fdOpen' = fdOpen \ {f}
    /\ fdArmed' = [fdArmed EXCEPT ![f] = FALSE]
    /\ Goto(p, "U_page")
    /\ UNCHANGED <<slots, maxEvents, hooked, enabled, fdTarget, fdOwner,
                   mapped, pending, gen, lfd, lpage, ctlVars, sigVars>>

\* if (event->_page != NULL)
UnregPage(p) ==
    /\ Runs(p, "U_page")
    /\ IF evPage[TidOf(p)] # NOPAGE THEN Goto(p, "U_lock") /\ UNCHANGED ctid
                                    ELSE UnregReturn(p)
    /\ UNCHANGED <<slots, maxEvents, hooked, enabled, kernel, gen, lfd, lpage,
                   snapshot, cerr, sigVars>>

\* event->lock(): spins until the lock is free
UnregLock(p) ==
    LET t == TidOf(p) IN
    /\ Runs(p, "U_lock")
    /\ ~evLock[t]
    /\ evLock' = [evLock EXCEPT ![t] = TRUE]
    /\ Goto(p, "U_unmap")
    /\ UNCHANGED <<evFd, evPage, maxEvents, hooked, enabled, kernel, gen, lfd,
                   lpage, ctlVars, sigVars>>

\* Fault-injected variant: munmap is skipped.
UnregUnmapSkipped(p) ==
    /\ Runs(p, "U_unmap")
    /\ Goto(p, "U_clear")
    /\ UNCHANGED <<slots, maxEvents, hooked, enabled, kernel, gen, lfd, lpage,
                   ctlVars, sigVars>>

\* munmap(event->_page, ...), _page re-read under the lock
UnregUnmap(p) ==
    /\ Runs(p, "U_unmap")
    /\ mapped' = mapped \ {evPage[TidOf(p)]}
    /\ Goto(p, "U_clear")
    /\ UNCHANGED <<slots, maxEvents, hooked, enabled, fdOpen, fdTarget,
                   fdOwner, fdArmed, pending, gen, lfd, lpage, ctlVars,
                   sigVars>>

\* event->_page = NULL; event->unlock()
UnregClear(p) ==
    LET t == TidOf(p) IN
    /\ Runs(p, "U_clear")
    /\ evPage' = [evPage EXCEPT ![t] = NOPAGE]
    /\ evLock' = [evLock EXCEPT ![t] = FALSE]
    /\ UnregReturn(p)
    /\ UNCHANGED <<evFd, maxEvents, hooked, enabled, kernel, gen, lfd, lpage,
                   snapshot, cerr, sigVars>>


(***************************************************************************)
(* Thread start and end as seen by pthread_setspecific_hook: the hook     *)
(* registers after binding the VMThread and unregisters before unbinding *)
(* it; without the hook the call goes straight to libc.  Threads churn   *)
(* during start() only when StartRacesThreads holds.                     *)
(***************************************************************************)
LifecycleAllowed == StartRacesThreads \/ pc[Ctl] \in {"idle", "running"}

ThreadStart(t) ==
    /\ pc[t] = "dead" /\ gen[t] < MaxLives
    /\ LifecycleAllowed
    /\ gen' = [gen EXCEPT ![t] = @ + 1]
    /\ pending' = [pending EXCEPT ![t] = {}]
    /\ Goto(t, IF hooked THEN "R_check" ELSE "running")
    /\ UNCHANGED <<slots, maxEvents, hooked, enabled, fdOpen, fdTarget,
                   fdOwner, fdArmed, mapped, lfd, lpage, ctlVars, sigVars>>

ThreadEnd(t) ==
    /\ Runs(t, "running")
    /\ LifecycleAllowed
    /\ Goto(t, IF hooked THEN "U_load" ELSE "dead")
    /\ UNCHANGED <<slots, maxEvents, hooked, enabled, kernel, gen, lfd, lpage,
                   ctlVars, sigVars>>

(***************************************************************************)
(* PerfEvents::start, run by the control thread while Profiler holds its  *)
(* state lock, and PerfEvents::stop.                                      *)
(***************************************************************************)
StartAllowed == StartRacesThreads \/ \A t \in Tids : pc[t] \in {"dead", "running"}

\* _events as calloc leaves it: every slot zero
FreshSlots ==
    /\ evFd' = [t \in 0..(MaxEvents - 1) |-> 0]
    /\ evPage' = [t \in 0..(MaxEvents - 1) |-> NOPAGE]
    /\ evLock' = [t \in 0..(MaxEvents - 1) |-> FALSE]

\* a handler between its tryLock and its unlock holds a pointer into _events
InSlot(t) == hpc[t] \in {"page", "access", "unlock"}

\* max_events = OS::getMaxThreadId(); when it differs from _max_events,
\* free(_events) and calloc a zeroed array of the new size (the first start
\* always does); then install the SIGPROF handler and the hook.  A free
\* under a handler that is reading its slot is a use after free, which the
\* model leaves out: the reallocation waits for such handlers.
Start ==
    /\ Runs(Ctl, "idle")
    /\ StartAllowed
    /\ \E m \in PidMaxes :
          /\ maxEvents' = m
          /\ IF m # maxEvents
             THEN FreshSlots /\ \A t \in Tids : ~InSlot(t)
             ELSE UNCHANGED slots
    /\ hooked' = TRUE
    /\ Goto(Ctl, "list")
    /\ UNCHANGED <<enabled, kernel, gen, lfd, lpage, ctlVars, sigVars>>

\* OS::listThreads() then qsort: a fixed snapshot of the live threads
ListThreads ==
    /\ Runs(Ctl, "list")
    /\ snapshot' = {t \in Tids : Alive(t)}
    /\ ctid' = 0 /\ cerr' = 0
    /\ Goto(Ctl, "loop")
    /\ UNCHANGED <<slots, maxEvents, hooked, enabled, kernel, gen, lfd, lpage,
                   sigVars>>

\* Fault-injected variant: the loop stops one tid early.
StartLoopShort ==
    /\ Runs(Ctl, "loop")
    /\ Goto(Ctl, IF ctid >= maxEvents - 1 THEN "finish"
                 ELSE IF ctid \in snapshot THEN "R_check" ELSE "U_load")
    /\ UNCHANGED <<slots, maxEvents, hooked, enabled, kernel, gen, lfd, lpage,
                   ctlVars, sigVars>>

\* for tid in 0.._max_events-1: register listed tids, unregister the rest
StartLoop ==
    /\ Runs(Ctl, "loop")
    /\ Goto(Ctl, IF ctid >= maxEvents THEN "finish"
                 ELSE IF ctid \in snapshot THEN "R_check" ELSE "U_load")
    /\ UNCHANGED <<slots, maxEvents, hooked, enabled, kernel, gen, lfd, lpage,
                   ctlVars, sigVars>>

\* on error restore the original pthread_setspecific and fail; on success
\* Profiler enables event emission
StartFinish ==
    /\ Runs(Ctl, "finish")
    /\ IF cerr # 0
       THEN /\ hooked' = FALSE /\ Goto(Ctl, "idle") /\ UNCHANGED enabled
       ELSE /\ enabled' = TRUE /\ Goto(Ctl, "running") /\ UNCHANGED hooked
    /\ UNCHANGED <<slots, maxEvents, kernel, gen, lfd, lpage, ctlVars, sigVars>>

\* Fault-injected variant: an eager stop that closes every counter and
\* clears the slots.
StopEager ==
    /\ Runs(Ctl, "running")
    /\ enabled' = FALSE
    /\ evFd' = [t \in DOMAIN evFd |-> IF evFd[t] > 0 THEN 0 ELSE evFd[t]]
    /\ fdOpen' = fdOpen \ {evFd[t] : t \in Tids}
    /\ Goto(Ctl, "idle")
    /\ UNCHANGED <<evPage, evLock, maxEvents, hooked, fdTarget, fdOwner,
                   fdArmed, mapped, pending, gen, lfd, lpage, ctlVars, sigVars>>

\* PerfEvents::stop leaves every counter registered; Profiler disables
\* emission, so the handler only drains ring buffers
Stop ==
    /\ Runs(Ctl, "running")
    /\ enabled' = FALSE
    /\ Goto(Ctl, "idle")
    /\ UNCHANGED <<slots, maxEvents, hooked, kernel, gen, lfd, lpage, ctlVars,
                   sigVars>>

(***************************************************************************)
(* The kernel: an armed counter of a live thread overflows, disarms      *)
(* itself (REFRESH 1) and queues SIGPROF, carrying the descriptor in     *)
(* si_fd, for the F_SETOWN_EX owner.                                      *)
(***************************************************************************)
Overflow(f) ==
    LET t == fdTarget[f][1]
        o == fdOwner[f]
    IN
    /\ f \in fdOpen /\ fdArmed[f]
    /\ fdTarget[f] = Self(t) /\ Alive(t)
    /\ o \in Tids /\ Alive(o)
    /\ fdArmed' = [fdArmed EXCEPT ![f] = FALSE]
    /\ pending' = [pending EXCEPT ![o] = @ \cup {f}]
    /\ UNCHANGED <<slots, maxEvents, hooked, enabled, fdOpen, fdTarget,
                   fdOwner, mapped, gen, pc, lfd, lpage, ctlVars, sigVars>>

(***************************************************************************)
(* PerfEvents::signalHandler on thread t.  With emission enabled it goes *)
(* through recordSample to walkKernel, otherwise to resetBuffer; both    *)
(* try-lock the slot, read _page, touch the ring page and unlock.  Then  *)
(* it re-arms si_fd.                                                      *)
(***************************************************************************)
SignalDeliver(t) ==
    /\ hpc[t] = "none" /\ Alive(t)
    /\ \E f \in pending[t] :
          /\ pending' = [pending EXCEPT ![t] = @ \ {f}]
          /\ hfd' = [hfd EXCEPT ![t] = f]
    /\ hpc' = [hpc EXCEPT ![t] = IF KernelRing THEN "try" ELSE "refresh"]
    /\ UNCHANGED <<slots, maxEvents, hooked, enabled, fdOpen, fdTarget,
                   fdOwner, fdArmed, mapped, gen, pc, lfd, lpage, ctlVars,
                   hpage>>

\* Fault-injected variant: the handler reads the page without the lock.
SigTryLockIgnored(t) ==
    /\ hpc[t] = "try"
    /\ hpc' = [hpc EXCEPT ![t] = "page"]
    /\ UNCHANGED <<slots, maxEvents, hooked, enabled, kernel, gen, pc, lfd,
                   lpage, ctlVars, hfd, hpage>>

\* Fault-injected variant: a failed tryLock returns from the handler
\* before the ioctls.
SigTryLockNoRearm(t) ==
    /\ hpc[t] = "try"
    /\ IF ~evLock[t]
       THEN evLock' = [evLock EXCEPT ![t] = TRUE]
            /\ hpc' = [hpc EXCEPT ![t] = "page"]
       ELSE UNCHANGED evLock /\ hpc' = [hpc EXCEPT ![t] = "none"]
    /\ UNCHANGED <<evFd, evPage, maxEvents, hooked, enabled, kernel, gen, pc,
                   lfd, lpage, ctlVars, hfd, hpage>>

\* event->tryLock(); on failure the slot is being destroyed: skip
SigTryLock(t) ==
    /\ hpc[t] = "try"
    /\ IF ~evLock[t]
       THEN evLock' = [evLock EXCEPT ![t] = TRUE]
            /\ hpc' = [hpc EXCEPT ![t] = "page"]
       ELSE UNCHANGED evLock /\ hpc' = [hpc EXCEPT ![t] = "refresh"]
    /\ UNCHANGED <<evFd, evPage, maxEvents, hooked, enabled, kernel, gen, pc,
                   lfd, lpage, ctlVars, hfd, hpage>>

\* page = event->_page
SigReadPage(t) ==
    /\ hpc[t] = "page"
    /\ hpage' = [hpage EXCEPT ![t] = evPage[t]]
    /\ hpc' = [hpc EXCEPT ![t] = IF evPage[t] = NOPAGE THEN "unlock"
                                                       ELSE "access"]
    /\ UNCHANGED <<slots, maxEvents, hooked, enabled, kernel, gen, pc, lfd,
                   lpage, ctlVars, hfd>>

\* read data_head / the sample records and store data_tail = head
SigAccess(t) ==
    /\ hpc[t] = "access"
    /\ hpc' = [hpc EXCEPT ![t] = "unlock"]
    /\ UNCHANGED <<slots, maxEvents, hooked, enabled, kernel, gen, pc, lfd,
                   lpage, ctlVars, hfd, hpage>>

\* event->unlock()
SigUnlock(t) ==
    /\ hpc[t] = "unlock"
    /\ evLock' = [evLock EXCEPT ![t] = FALSE]
    /\ hpc' = [hpc EXCEPT ![t] = "refresh"]
    /\ UNCHANGED <<evFd, evPage, maxEvents, hooked, enabled, kernel, gen, pc,
                   lfd, lpage, ctlVars, hfd, hpage>>

\* ioctl(si_fd, RESET); ioctl(si_fd, REFRESH, 1): re-arms whatever open
\* counter now carries that number
SigRefresh(t) ==
    LET f == hfd[t] IN
    /\ hpc[t] = "refresh"
    /\ IF f \in fdOpen THEN fdArmed' = [fdArmed EXCEPT ![f] = TRUE]
                       ELSE UNCHANGED fdArmed
    /\ hpc' = [hpc EXCEPT ![t] = "none"]
    /\ UNCHANGED <<slots, maxEvents, hooked, enabled, fdOpen, fdTarget,
                   fdOwner, mapped, pending, gen, pc, lfd, lpage, ctlVars,
                   hfd, hpage>>

Register(p) ==
    \/ RegCheck(p) \/ RegCas(p) \/ RegOpen(p) \/ RegPublish(p) \/ RegMmap(p)
    \/ RegReset(p) \/ RegSetFd(p) \/ RegSetPage(p) \/ RegArm(p)

Unregister(p) ==
    \/ UnregLoad(p) \/ UnregCas(p) \/ UnregClose(p) \/ UnregPage(p)
    \/ UnregLock(p) \/ UnregUnmap(p) \/ UnregClear(p)

Handler(t) ==
    \/ SignalDeliver(t) \/ SigTryLock(t) \/ SigReadPage(t) \/ SigAccess(t)
    \/ SigUnlock(t) \/ SigRefresh(t)

Next ==
    \/ \E p \in Procs : Register(p) \/ Unregister(p)
    \/ \E t \in Tids : ThreadStart(t) \/ ThreadEnd(t) \/ Handler(t)
    \/ Start \/ ListThreads \/ StartLoop \/ StartFinish \/ Stop
    \/ \E f \in FdNums : Overflow(f)

Spec == Init /\ [][Next]_vars

\* The kernel delivers a pending SIGPROF to its thread when the thread next
\* runs, and a handler runs to its end: each thread's handler is weakly fair.
FairSpec == Spec /\ \A t \in Tids : WF_vars(Handler(t))


(***************************************************************************)
(* Properties.                                                            *)
(***************************************************************************)

\* Registration and unregistration of a tid must agree on the three-state
\* _fd protocol: a descriptor published in _events[tid] is open and counts
\* the thread now running under that tid, never a closed descriptor, a
\* number reused by another thread's counter, or an earlier thread that
\* had the same tid.
SlotCountsItsThread ==
    \A t \in Tids :
        evFd[t] > 0 => /\ evFd[t] \in fdOpen
                       /\ fdTarget[evFd[t]] = Self(t)
                       /\ Alive(t)

\* No counter leaks (spec: "nor ... a counter handle left dangling"): every
\* open descriptor is either published in a slot or held by a
\* registerThread before its publishing CAS or an unregisterThread between
\* its CAS and close().
NoLeakedCounter ==
    \A f \in fdOpen :
        \/ \E t \in Tids : evFd[t] = f
        \/ \E p \in Procs : lfd[p] = f /\ pc[p] \in {"R_publish", "U_close"}

\* Every mapped ring page is reachable from a slot or from a registration
\* that has mapped it and not yet published it, so unregisterThread can
\* unmap it.
NoLeakedPage ==
    \A pg \in mapped :
        \/ \E t \in Tids : evPage[t] = pg
        \/ \E p \in Procs : lpage[p] = pg
                            /\ pc[p] \in {"R_reset", "R_setfd", "R_setpage"}

\* The SIGPROF handler never reads a ring page that unregisterThread has
\* unmapped: the destroyer's lock and the handler's tryLock exclude each
\* other, including when the handler interrupts the thread's own
\* unregistration.
NoUnmappedAccess ==
    \A t \in Tids : hpc[t] = "access" => hpage[t] \in mapped

\* Once start() has succeeded, every thread running normal code has a live
\* counter of its own: those alive at start() were registered by its loop,
\* later ones by the hook.
RunningThreadsCounted ==
    pc[Ctl] = "running" =>
        \A t \in Tids :
            pc[t] = "running" /\ hpc[t] = "none" =>
                /\ evFd[t] \in fdOpen
                /\ fdTarget[evFd[t]] = Self(t)
                /\ fdOwner[evFd[t]] = t

\* REFRESH 1 disarms a counter at each overflow, so every path through
\* signalHandler -- emission on or off, tryLock failing under an
\* unregistration, no page -- must end in the RESET/REFRESH ioctls: a
\* handler that has started eventually returns with the counter of its
\* si_fd armed again (unless that descriptor was closed meanwhile), else
\* the thread is never sampled again.
OverflowRearms ==
    \A t \in Tids :
        hpc[t] # "none" ~> (hpc[t] = "none" /\ (hfd[t] \in fdOpen => fdArmed[hfd[t]]))

\* Spec: a stop/start cycle does not re-register threads that stayed live:
\* the counter of a thread that keeps running is never closed and replaced.
CountersSurviveRestart ==
    [][\A t \in Tids :
          (pc[t] = "running" /\ pc'[t] = "running" /\ evFd[t] > 0)
              => evFd'[t] = evFd[t]]_vars

=============================================================================
