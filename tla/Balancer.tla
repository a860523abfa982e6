------------------------------ MODULE Balancer ------------------------------
(***************************************************************************)
(* The load balancer's connection migrator, cppnet::ConnectionMigrator     *)
(* (src/cppnet/connection_migrator.cpp), over the dispatcher registries    *)
(* and the LoadMonitor it queries.                                         *)
(*                                                                         *)
(* A socket carries two pointers: its dispatcher (sockDisp) and the        *)
(* EventActions poller it is registered with (sockActions).  Dispatcher    *)
(* Listen/Connect set both to the same dispatcher.  MigrateSingleConnection *)
(* rewrites only the first.  A balancing pass, run on a thread of its own  *)
(* (a balancer), queries the monitor twice, under two separate locks,      *)
(* while dispatchers keep reporting their load.                            *)
(***************************************************************************)
EXTENDS Dispatcher

CONSTANTS
    Balancers,     \* threads that call MigrateConnectionsFromOverloadedDispatcher
    CpuValues,     \* cpu_usage figures a report may carry
    MigrateCount   \* the count passed to SelectConnectionsToMigrate (10)

VARIABLES
    sockDisp,      \* sockDisp[c]: the socket's _dispatcher
    sockActions,   \* sockActions[c]: the dispatcher whose _event_actions it holds
    running,       \* _running
    bpc,           \* bpc[b]: where balancer b is in its pass
    bsrc,          \* bsrc[b]: source_dispatcher of b's pass
    btgt           \* btgt[b]: target_dispatcher of b's pass

balancerVars == <<sockDisp, sockActions, running, bpc, bsrc, btgt>>
vars == <<dispatcherVars, balancerVars>>

\* Start / Stop: store _running.
Start == running' = TRUE /\ UNCHANGED <<dispatcherVars, sockDisp, sockActions, bpc, bsrc, btgt>>
Stop  == running' = FALSE /\ UNCHANGED <<dispatcherVars, sockDisp, sockActions, bpc, bsrc, btgt>>

(***************************************************************************)
(* A dispatcher's load report: UpdateLoadInfo with its current connection  *)
(* count and some CPU figure (the caller lives outside the core).          *)
(***************************************************************************)
Report(d, cpu) ==
    /\ UpdateLoadInfo(d, connCount[d], cpu, 0)
    /\ UNCHANGED <<taskQ, connMap, connCount, balancerVars>>

(***************************************************************************)
(* MigrateSingleConnection(socket, target): the new value of sockDisp.     *)
(* It returns early when the socket is already on the target.  The         *)
(* null-pointer checks cannot fail here: every socket has a dispatcher and *)
(* a poller, and every dispatcher builds its EventActions in its           *)
(* constructor.  The only effect is UpdateSocketDispatcher; step 5         *)
(* (re-registering events) is an empty comment.                            *)
(***************************************************************************)
MigrateSingleConnection(sd, c, t) ==
    IF sd[c] = t THEN sd ELSE [sd EXCEPT ![c] = t]

\* SelectConnectionsToMigrate(source, count): returns an empty vector.
SelectConnectionsToMigrate(d, n) == <<>>

\* ConnectionMigrator::MigrateConnection: MigrateSingleConnection under
\* _migrate_mutex, so one step.
MigrateConnection(c, t) ==
    /\ sockDisp' = MigrateSingleConnection(sockDisp, c, t)
    /\ UNCHANGED <<dispatcherVars, sockActions, running, bpc, bsrc, btgt>>

(***************************************************************************)
(* MigrateConnectionsFromOverloadedDispatcher, in three steps, one per     *)
(* lock the pass takes.  1: the _running test and GetMostLoadedDispatcher; *)
(* a false flag or a null source returns.                                  *)
(***************************************************************************)
QueryMost(b) ==
    /\ bpc[b] = "idle"
    /\ IF running /\ GetMostLoadedDispatcher(loads) # NoDispatcher
       THEN /\ bpc'   = [bpc EXCEPT ![b] = "least"]
            /\ bsrc'  = [bsrc EXCEPT ![b] = GetMostLoadedDispatcher(loads)]
       ELSE UNCHANGED <<bpc, bsrc>>
    /\ UNCHANGED <<dispatcherVars, sockDisp, sockActions, running, btgt>>

\* 2: GetLeastLoadedDispatcher; a null target or target = source returns.
QueryLeast(b) ==
    /\ bpc[b] = "least"
    /\ LET t == GetLeastLoadedDispatcher(loads) IN
       IF t = NoDispatcher \/ t = bsrc[b]
       THEN bpc' = [bpc EXCEPT ![b] = "idle"] /\ UNCHANGED btgt
       ELSE /\ bpc'  = [bpc EXCEPT ![b] = "select"]
            /\ btgt' = [btgt EXCEPT ![b] = t]
    /\ UNCHANGED <<dispatcherVars, sockDisp, sockActions, running, bsrc>>

\* 3: select, then MigrateSingleConnection on each selected socket, with no
\* lock held.
RECURSIVE MigrateAll(_, _, _)
MigrateAll(sd, sel, t) ==
    IF sel = <<>> THEN sd
    ELSE MigrateAll(MigrateSingleConnection(sd, Head(sel), t), Tail(sel), t)

MigrateSelected(b) ==
    /\ bpc[b] = "select"
    /\ sockDisp' = MigrateAll(sockDisp,
                              SelectConnectionsToMigrate(bsrc[b], MigrateCount),
                              btgt[b])
    /\ bpc' = [bpc EXCEPT ![b] = "idle"]
    /\ UNCHANGED <<dispatcherVars, sockActions, running, bsrc, btgt>>

(***************************************************************************)
(* Initially every socket was attached by Listen/Connect: both pointers    *)
(* and the registry name one dispatcher; the monitor holds one entry per   *)
(* dispatcher with its connection count.  No pass is running.              *)
(***************************************************************************)
Init ==
    /\ sockDisp \in [Conns -> Dispatchers]
    /\ sockActions = sockDisp
    /\ DispatcherInit(sockDisp, SetToSeq(Dispatchers))
    /\ running \in BOOLEAN
    /\ bpc   = [b \in Balancers |-> "idle"]
    /\ bsrc  = [b \in Balancers |-> NoDispatcher]
    /\ btgt  = [b \in Balancers |-> NoDispatcher]

Next ==
    \/ Start
    \/ Stop
    \/ \E d \in Dispatchers, cpu \in CpuValues : Report(d, cpu)
    \/ \E c \in Conns, t \in Dispatchers : MigrateConnection(c, t)
    \/ \E b \in Balancers : QueryMost(b) \/ QueryLeast(b) \/ MigrateSelected(b)

Spec == Init /\ [][Next]_vars

-----------------------------------------------------------------------------
(***************************************************************************)
(* Properties.                                                              *)
(***************************************************************************)

\* A socket's dispatcher pointer, its poller and the registries agree
\* (spec section 3): after MigrateConnection they all name one dispatcher.
PointerMatchesRegistry ==
    \A c \in Conns : sockActions[c] = sockDisp[c] /\ c \in connMap[sockDisp[c]]

=============================================================================
