CONSTANTS
    d1 = d1
    d2 = d2
    d3 = d3
    NoDispatcher = NoDispatcher
    Monitored <- MCMonitored
    CpuThreshold = 1
    QueueThreshold = 1
    ConnThreshold = 1
    MaxEntries = 3
    CpuValues = {0, 1, 2}
    ConnValues = {0, 1, 2}
    QueueValues = {0, 2}

SPECIFICATION MonitorSpec

INVARIANT RankingMatchesReference
