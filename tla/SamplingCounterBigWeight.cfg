\* One weight of 7 with an interval of 3 crosses the interval twice.
CONSTANTS
    c1 = c1
    c2 = c2
    c3 = c3
    Callers <- MCCallers
    Weights = {1, 7}
    Intervals = {3}
    W = 8
    MaxCalls = 2

SYMMETRY CallerSymmetry

SPECIFICATION Spec

INVARIANT FiresPerCrossing

\* every caller stops after MaxCalls calls
CHECK_DEADLOCK FALSE
