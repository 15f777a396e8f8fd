\* perf_event_open may fail (EACCES under a restrictive perf_event_paranoid,
\* ESRCH, EMFILE): start() aborts and restores the hook; threads start and
\* end only while the profiler is idle or running.
CONSTANTS
    Tids <- MCTids
    MaxEvents <- MCMaxEvents
    PidMaxes <- MCPidMaxes
    FdNums <- MCFdNums
    PageIds <- MCPageIds
    Ctl = Ctl
    KernelRing = TRUE
    OpenMayFail = TRUE
    StartRacesThreads = FALSE
    MaxLives = 1

SPECIFICATION Spec

INVARIANT TypeOK
INVARIANT NoLeakedCounter
INVARIANT NoLeakedPage
INVARIANT NoUnmappedAccess
