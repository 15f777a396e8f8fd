\* registerThread calls _events[tid].reset(), clearing the lock that a
\* concurrent unregisterThread holds while it unmaps the page.
CONSTANTS
    Tids <- MCTids
    MaxEvents <- MCMaxEvents
    PidMaxes <- MCPidMaxes
    FdNums <- MCFdNums
    PageIds <- MCPageIds
    Ctl = Ctl
    KernelRing = TRUE
    OpenMayFail = FALSE
    StartRacesThreads = TRUE
    MaxLives = 1

SPECIFICATION Spec

INVARIANT NoUnmappedAccess
