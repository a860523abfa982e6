----------------------- MODULE MCLoadMonitorReports -----------------------
(***************************************************************************)
(* Model values for LoadMonitor: three dispatchers, thresholds of 1 and    *)
(* figures on both sides of them.                                          *)
(***************************************************************************)
EXTENDS LoadMonitorReports

CONSTANTS d1, d2, d3

MCMonitored == {d1, d2, d3}
=============================================================================
