\* A failed start() restores pthread_setspecific but keeps the counters it
\* already opened; their threads then exit without unregistering.
CONSTANTS
    Tids <- MCTids
    MaxEvents <- MCMaxEvents
    PidMaxes <- MCPidMaxes
    FdNums <- MCFdNums
    PageIds <- MCPageIds
    Ctl = Ctl
    KernelRing = TRUE
    OpenMayFail = TRUE
    StartRacesThreads = FALSE
    MaxLives = 1

SPECIFICATION Spec

INVARIANT SlotCountsItsThread
