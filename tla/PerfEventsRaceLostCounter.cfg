\* A thread started after OS::listThreads() registers itself through the
\* hook; the start() loop then unregisters its tid as not listed.
CONSTANTS
    Tids <- MCTids
    MaxEvents <- MCMaxEvents
    PidMaxes <- MCPidMaxes
    FdNums <- MCFdNums
    PageIds <- MCPageIds
    Ctl = Ctl
    KernelRing = TRUE
    OpenMayFail = FALSE
    StartRacesThreads = TRUE
    MaxLives = 1

SPECIFICATION Spec

INVARIANT RunningThreadsCounted
