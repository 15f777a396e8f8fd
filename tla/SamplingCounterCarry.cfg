\* Weights below the interval, and a unit interval (which fires every call).
CONSTANTS
    c1 = c1
    c2 = c2
    c3 = c3
    Callers <- MCCallers
    Weights = {1, 2}
    Intervals = {1, 3}
    W = 8
    MaxCalls = 2

SYMMETRY CallerSymmetry

SPECIFICATION Spec

INVARIANT TypeOK
INVARIANT FiresPerCrossing
PROPERTY UpdateIsAtomicAdd

\* every caller stops after MaxCalls calls
CHECK_DEADLOCK FALSE
