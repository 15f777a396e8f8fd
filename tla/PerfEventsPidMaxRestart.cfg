\* pid_max changes between two starts (PidMaxes {1, 2}): start() frees
\* _events and callocs a fresh table while stop() left the old counters
\* open, so the previous session's counter is no longer in any slot.
CONSTANTS
    Tids <- MCTids
    MaxEvents <- MCMaxEvents
    PidMaxes <- MCPidMaxesChanging
    FdNums <- MCFdNums
    PageIds <- MCPageIds
    Ctl = Ctl
    KernelRing = TRUE
    OpenMayFail = FALSE
    StartRacesThreads = FALSE
    MaxLives = 1

SPECIFICATION Spec

INVARIANT NoLeakedCounter
