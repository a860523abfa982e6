CONSTANTS
    d1 = d1
    d2 = d2
    d3 = d3
    c1 = c1
    c2 = c2
    k1 = k1
    k2 = k2
    NoCtx = NoCtx
    Dispatchers <- MCDispatchers
    Conns <- MCConns
    Monitored <- MCDispatchers
    NoDispatcher = NoDispatcher
    CpuThreshold = 80
    QueueThreshold = 1000
    ConnThreshold = 10000
    Callers <- MCCallersOne
    CallerConns <- MCCallerConnsOne
    MaxRuns = 1
    MaxPostFailures = 1

SPECIFICATION Spec

INVARIANT NoLostConnection
