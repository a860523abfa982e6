------------------------ MODULE LoadMonitorReports ------------------------
(***************************************************************************)
(* The LoadMonitor driven by its clients: the pool registers and removes   *)
(* dispatchers, each dispatcher reports its figures (UpdateLoadInfo) or    *)
(* its connection count (UpdateDispatcherLoad), drawn from small sets.     *)
(* The queries read the registry as the balancer would at any instant.     *)
(***************************************************************************)
EXTENDS LoadMonitor

CONSTANTS
    MaxEntries,      \* bound on the length of _dispatcher_loads
    CpuValues, ConnValues, QueueValues   \* the figures a report may carry

MonitorInit == loads = <<>>

MonitorNext ==
    \/ \E d \in Monitored : Len(loads) < MaxEntries /\ AddDispatcher(d)
    \/ \E d \in Monitored : RemoveDispatcher(d)
    \/ \E d \in Monitored, n \in ConnValues, cpu \in CpuValues, q \in QueueValues :
          UpdateLoadInfo(d, n, cpu, q)
    \/ \E d \in Monitored, n \in ConnValues : UpdateDispatcherLoad(d, n)

MonitorSpec == MonitorInit /\ [][MonitorNext]_loads

\* Reference ranking: order entries by (cpu, connections) lexicographically;
\* among equal ranks the earliest registered wins.
Rank(e) == <<e.cpu, e.conn>>
RankLeq(a, b) == a[1] < b[1] \/ (a[1] = b[1] /\ a[2] <= b[2])
FirstWith(s, P(_)) ==
    CHOOSE i \in 1..Len(s) : P(i) /\ \A j \in 1..(i - 1) : ~P(j)
RefLeast(s) ==
    s[FirstWith(s, LAMBDA i : \A j \in 1..Len(s) : RankLeq(Rank(s[i]), Rank(s[j])))].disp
RefMost(s) ==
    s[FirstWith(s, LAMBDA i : \A j \in 1..Len(s) : RankLeq(Rank(s[j]), Rank(s[i])))].disp

\* The two scans of the registry return the first entry of least (most)
\* rank, ties on CPU broken by connection count (spec 4.4 and 8).
RankingMatchesReference ==
    loads # <<>> =>
        /\ GetLeastLoadedDispatcher(loads) = RefLeast(loads)
        /\ GetMostLoadedDispatcher(loads) = RefMost(loads)

=============================================================================
