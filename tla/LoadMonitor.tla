---------------------------- MODULE LoadMonitor ----------------------------
(***************************************************************************)
(* cppnet::LoadMonitor (src/cppnet/load_monitor.cpp): the vector of       *)
(* (dispatcher, LoadInfo) pairs behind one mutex, the reports that write   *)
(* it, and the three queries that read it.  Every operation holds _mutex   *)
(* for its whole body, so each is one step.                                *)
(*                                                                         *)
(* An entry keeps the fields some query reads: connection_count,           *)
(* cpu_usage and queue_length.  total_bytes and last_update_time are       *)
(* written by the reports and read by nothing, and are left out.           *)
(***************************************************************************)
EXTENDS Naturals, Sequences, SequencesExt

CONSTANTS
    Monitored,       \* the dispatchers that may be registered
    NoDispatcher,    \* model value: the nullptr a query returns
    CpuThreshold,    \* _cpu_threshold (80 by default)
    QueueThreshold,  \* _queue_threshold (1000 by default)
    ConnThreshold    \* _connection_threshold (10000 by default)

VARIABLE
    loads            \* _dispatcher_loads, in registration order

Entry == [disp : Monitored, conn : Nat, cpu : Nat, queue : Nat]

\* AddDispatcher: emplace_back a zeroed LoadInfo; no check for a duplicate.
AddDispatcher(d) ==
    loads' = Append(loads, [disp |-> d, conn |-> 0, cpu |-> 0, queue |-> 0])

\* RemoveDispatcher: erase the first entry of d, if any.
RemoveDispatcher(d) ==
    loads' = RemoveFirstMatch(loads, LAMBDA e : e.disp = d)

\* The index of d's first entry (the one the update loops stop at), or 0.
EntryOf(d) == SelectInSeq(loads, LAMBDA e : e.disp = d)

\* UpdateLoadInfo: overwrite the first entry of d; a miss changes nothing.
UpdateLoadInfo(d, n, cpu, q) ==
    IF EntryOf(d) = 0 THEN UNCHANGED loads
    ELSE loads' = [loads EXCEPT ![EntryOf(d)] =
                        [@ EXCEPT !.conn = n, !.cpu = cpu, !.queue = q]]

\* UpdateDispatcherLoad: the connection count only.
UpdateDispatcherLoad(d, n) ==
    IF EntryOf(d) = 0 THEN UNCHANGED loads
    ELSE loads' = [loads EXCEPT ![EntryOf(d)].conn = n]

\* Mutant: the connection tie-break of the "least" scan uses <=.
LighterOrEqual(a, b) == a.cpu < b.cpu \/ (a.cpu = b.cpu /\ a.conn <= b.conn)

\* The comparisons of the two ranking loops: CPU first, then connections.
Lighter(a, b) == a.cpu < b.cpu \/ (a.cpu = b.cpu /\ a.conn < b.conn)
Heavier(a, b) == a.cpu > b.cpu \/ (a.cpu = b.cpu /\ a.conn > b.conn)

\* The scan from begin()+1: best is the index kept so far, i the next one.
RECURSIVE ScanLeast(_, _, _)
ScanLeast(s, best, i) ==
    IF i > Len(s) THEN best
    ELSE ScanLeast(s, IF Lighter(s[i], s[best]) THEN i ELSE best, i + 1)

RECURSIVE ScanMost(_, _, _)
ScanMost(s, best, i) ==
    IF i > Len(s) THEN best
    ELSE ScanMost(s, IF Heavier(s[i], s[best]) THEN i ELSE best, i + 1)

\* GetLeastLoadedDispatcher / GetMostLoadedDispatcher: nullptr when empty.
GetLeastLoadedDispatcher(s) ==
    IF s = <<>> THEN NoDispatcher ELSE s[ScanLeast(s, 1, 2)].disp

GetMostLoadedDispatcher(s) ==
    IF s = <<>> THEN NoDispatcher ELSE s[ScanMost(s, 1, 2)].disp

\* NeedLoadBalance: false below two entries; otherwise whether the largest
\* cpu, queue or connection figure exceeds its threshold.
NeedLoadBalance(s) ==
    /\ Len(s) >= 2
    /\ \E i \in 1..Len(s) : \/ s[i].cpu > CpuThreshold
                            \/ s[i].queue > QueueThreshold
                            \/ s[i].conn > ConnThreshold

=============================================================================
