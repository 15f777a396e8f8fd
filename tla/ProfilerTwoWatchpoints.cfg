\* Two watchpoint sessions whose calls come in any order: a check while
\* running, or a restart with the other watchpoint.
CONSTANTS
    Predefined <- MCPredefined
    PredefinedIntervals <- MCPredefinedIntervals
    KnownFunctions <- MCKnownFunctions
    Symbols <- MCSymbols
    Tracepoints <- MCTracepoints
    DeviceTypes <- MCDeviceTypes
    PmuAliases <- MCPmuAliases
    PmuFormats <- MCPmuFormats
    BreakpointOffset = 0
    Threads <- MCThreads
    Scenarios <- MCTwoWatchScenarios
    JvmInterval0 = 1
    Codes <- MCCodes
    Interval0 = 0
    DEFAULT_ALLOC_INTERVAL = 2
    CpuSamplerInterval <- MCCpuSamplerInterval
    DEFAULT_CPU_INTERVAL = 10000000
    DEFAULT_WALL_INTERVAL = 50000000
    Signals <- MCSignals
    MaxAllocs = 1
    MaxUpdates = 2
SPECIFICATION ApiSpec
INVARIANT CountersCountSessionEvent
