----------------------------- MODULE Dispatcher -----------------------------
(***************************************************************************)
(* The part of a cppnet Dispatcher (src/cppnet/dispatcher.cpp) that other  *)
(* threads touch: the cross-thread task list drained by the event loop,    *)
(* and the connection registry with its counter, whose every change is     *)
(* pushed to the LoadMonitor's entry for that dispatcher (LoadMonitor.tla).*)
(*                                                                         *)
(* A task is a record naming what the posted closure does.  The closures   *)
(* the connection migrator posts either call AddConnection or              *)
(* RemoveConnection, or have an empty body (the TODO stubs that should     *)
(* suspend I/O and move event registrations), or call socket->Read().      *)
(* This module defines the state and the steps; ConnectionMigrator.tla     *)
(* composes them with the threads that post.                               *)
(***************************************************************************)
EXTENDS LoadMonitor, FiniteSets

CONSTANTS
    Dispatchers,   \* the dispatcher objects of the pool
    Conns          \* the sockets (keyed by fd in _connection_map)

ASSUME Dispatchers \subseteq Monitored

VARIABLES
    taskQ,         \* taskQ[d]: Dispatcher::_task_list of d, oldest first
    connMap,       \* connMap[d]: the fds in d's _connection_map
    connCount      \* connCount[d]: d's _connection_count

\* The LoadMonitor's loads is shared by all dispatchers.
dispatcherVars == <<taskQ, connMap, connCount, loads>>

\* The kinds of closure the migrator posts (connection_migrator.cpp).
\*   Suspend     phase 1, "stop any pending operations" (empty body)
\*   Remove      phase 2, source->RemoveConnection(socket)
\*   Add         phase 2, target->AddConnection(socket)
\*   Unregister  phase 4, remove events from the source poller (empty body)
\*   Register    phase 4, add events to the target poller (empty body)
\*   Resume      phase 5, socket->Read() on the target thread
TaskOps == {"Suspend", "Remove", "Add", "Unregister", "Register", "Resume"}

Task == [op : TaskOps, conn : Conns]

MkTask(op, c) == [op |-> op, conn |-> c]

(***************************************************************************)
(* Dispatcher::PostTask(task): append under _task_list_mutex, then wake    *)
(* the poller.  Each call is one step, so a thread's consecutive posts     *)
(* interleave with the dispatcher threads.                                 *)
(***************************************************************************)
PostTask(d, t) ==
    taskQ' = [taskQ EXCEPT ![d] = Append(@, t)]

(***************************************************************************)
(* Dispatcher::AddConnection(sockfd, sock): insert (overwrite) the map     *)
(* entry, increment the counter whether or not the fd was already there,   *)
(* and push the counter to LoadMonitor::UpdateDispatcherLoad.              *)
(***************************************************************************)
AddConnection(d, c) ==
    /\ connMap'     = [connMap EXCEPT ![d] = @ \cup {c}]
    /\ connCount'   = [connCount EXCEPT ![d] = @ + 1]
    /\ UpdateDispatcherLoad(d, connCount'[d])

\* Mutant: the hit test is inverted (`iter == end`), so nothing is erased.
RemoveConnectionInverted(d, c) ==
    IF c \notin connMap[d]
    THEN /\ connMap'     = [connMap EXCEPT ![d] = @ \ {c}]
         /\ connCount'   = [connCount EXCEPT ![d] = @ - 1]
         /\ UpdateDispatcherLoad(d, connCount'[d])
    ELSE UNCHANGED <<connMap, connCount, loads>>

(***************************************************************************)
(* Dispatcher::RemoveConnection(sockfd): a miss is a no-op; a hit erases,  *)
(* decrements and pushes the counter to the monitor.                       *)
(***************************************************************************)
RemoveConnection(d, c) ==
    IF c \in connMap[d]
    THEN /\ connMap'     = [connMap EXCEPT ![d] = @ \ {c}]
         /\ connCount'   = [connCount EXCEPT ![d] = @ - 1]
         /\ UpdateDispatcherLoad(d, connCount'[d])
    ELSE UNCHANGED <<connMap, connCount, loads>>

\* The effect of running one posted closure on d's own thread.
ExecTask(d, t) ==
    CASE t.op = "Add"    -> AddConnection(d, t.conn)
      [] t.op = "Remove" -> RemoveConnection(d, t.conn)
      [] OTHER           -> UNCHANGED <<connMap, connCount, loads>>

\* Mutant: the batch is run newest first.
DoTaskLifo(d) ==
    /\ taskQ[d] # <<>>
    /\ taskQ' = [taskQ EXCEPT ![d] = Front(@)]
    /\ ExecTask(d, Last(taskQ[d]))

(***************************************************************************)
(* Dispatcher::DoTask, one closure at a time: the loop swaps the whole     *)
(* list out under the lock and runs the batch in order, while other        *)
(* threads keep running between any two closures.  Run() calls DoTask on  *)
(* every iteration after ProcessEvent, which a post wakes up.              *)
(***************************************************************************)
DoTask(d) ==
    /\ taskQ[d] # <<>>
    /\ taskQ' = [taskQ EXCEPT ![d] = Tail(@)]
    /\ ExecTask(d, Head(taskQ[d]))

\* Initial registries: every connection registered with exactly the
\* dispatcher recorded in owner; each dispatcher registered once with the
\* monitor, in the order pool, with its connection count.
DispatcherInit(owner, pool) ==
    /\ taskQ     = [d \in Dispatchers |-> <<>>]
    /\ connMap   = [d \in Dispatchers |-> {c \in Conns : owner[c] = d}]
    /\ connCount = [d \in Dispatchers |-> Cardinality(connMap[d])]
    /\ loads     = [i \in 1..Len(pool) |->
                      [disp |-> pool[i], conn |-> connCount[pool[i]], cpu |-> 0, queue |-> 0]]

=============================================================================
