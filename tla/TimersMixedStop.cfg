CONSTANTS
    d1 = d1
    Disps <- MCDisps
    Threads <- MCThreadsMixed
    MaxTimers = 2
    Width = 3

SPECIFICATION Spec

\* The loop thread exits after Stop, and then nothing more happens.
CHECK_DEADLOCK FALSE

PROPERTY StoppedTimerEventuallyInactive
