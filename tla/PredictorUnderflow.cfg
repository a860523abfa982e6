CONSTANTS
    Loads = {0, 2}
    WindowDuration = 2
    Horizon = 10
    Width = 8
    FirstTs = 0
    MaxTs = 4
    Alphas <- MCAlphasDefault
    WindowSizes = {100}
    MaxUpdates = 3
    MaxPredicts = 2

SPECIFICATION Spec

INVARIANT WindowMatchesAge
