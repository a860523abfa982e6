CONSTANTS
    d1 = d1
    d2 = d2
    d3 = d3
    c1 = c1
    c2 = c2
    b1 = b1
    b2 = b2
    Dispatchers <- MCDispatchers
    Conns <- MCConns
    Monitored <- MCDispatchers
    NoDispatcher = NoDispatcher
    CpuThreshold = 80
    QueueThreshold = 1000
    ConnThreshold = 10000
    Balancers <- MCBalancersOne
    CpuValues = {0, 90}
    MigrateCount = 10

SPECIFICATION Spec

INVARIANT PointerMatchesRegistry
