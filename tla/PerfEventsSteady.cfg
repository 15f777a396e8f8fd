CONSTANTS
    Tids <- MCTids
    MaxEvents <- MCMaxEvents
    PidMaxes <- MCPidMaxes
    FdNums <- MCFdNums
    PageIds <- MCPageIds
    Ctl = Ctl
    KernelRing = TRUE
    OpenMayFail = FALSE
    StartRacesThreads = FALSE
    MaxLives = 1

SPECIFICATION FairSpec

INVARIANT RunningThreadsCounted

PROPERTY CountersSurviveRestart
PROPERTY OverflowRearms
