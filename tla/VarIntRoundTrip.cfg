\* All three encoders over values built from extreme 7-bit groups.
CONSTANTS
    Calls <- MCAllCalls
    Digits <- MCDigits
    Top5 <- MCTop5
    Top64 <- MCTop64
    EXTRA_BUF_SIZE = 4
    PidTexts <- MCPidTexts
    TimeText <- MCTimeText
    Env <- MCEnv
    Patterns <- MCPatterns

SPECIFICATION PureSpec

 
INVARIANT RoundTrip
INVARIANT FitsReserve
 
INVARIANT TruncationKeepsPrefix

\* each behaviour is one put and one read
CHECK_DEADLOCK FALSE
