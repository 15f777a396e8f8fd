\* A write(2)-like sink: it may consume all, part or none of what it is
\* offered, or return -1.
CONSTANTS
    Capacity <- MCCapacity
    FlushLimit <- MCFlushLimit
    RecordSizes = {1, 3}
    SinkShort = TRUE
    MaxRecords = 5
    MaxSinkCalls = 4

SPECIFICATION Spec

INVARIANT NoByteLost

\* the writer stops after its last record, or when its sink calls run out
CHECK_DEADLOCK FALSE
