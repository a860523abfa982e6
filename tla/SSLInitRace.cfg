CONSTANTS
    t1 = t1
    t2 = t2
    s1 = s1
    NoCtx = NoCtx
    Threads <- MCThreads
    Sessions <- MCSessions
    MaxCalls = 1
    MaxSessionCalls = 1

SPECIFICATION SessionSpec

\* Every thread stops after its calls.
CHECK_DEADLOCK FALSE

PROPERTY SSLNewGetsLiveContext
