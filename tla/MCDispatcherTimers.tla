------------------------- MODULE MCDispatcherTimers -------------------------
EXTENDS DispatcherTimers

CONSTANT d1

MCDisps == {d1}

\* Callers on the loop thread and on another thread.
MCThreadsMixed == {"own", "foreign"}

=============================================================================
