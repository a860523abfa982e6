------------------------- MODULE ConnectionMigrator -------------------------
(***************************************************************************)
(* The five-phase connection migrator of                                   *)
(* src/common/network/connection_migrator.cpp, run by caller threads       *)
(* against the dispatchers of Dispatcher.tla, whose threads run the        *)
(* closures the phases post.                                               *)
(*                                                                         *)
(* A caller thread k runs MigrateConnection(sock, source, target) as the   *)
(* steps below; each step is one lock scope or one PostTask call, and      *)
(* dispatcher threads may run any number of posted closures between two   *)
(* steps.  The caller passes as source the socket's dispatcher as it reads *)
(* it when it calls.  A PostTask may throw (std::bad_alloc from the        *)
(* vector push or the closure copy); the exception unwinds to the catch    *)
(* that marks the context Failed with no rollback.  MaxPostFailures bounds *)
(* how many posts throw.                                                   *)
(***************************************************************************)
EXTENDS Dispatcher

CONSTANTS
    Callers,          \* threads calling MigrateConnection
    CallerConns,      \* CallerConns[k]: the sockets caller k may migrate
    MaxRuns,          \* calls per caller
    MaxPostFailures,  \* PostTask calls that throw, in the whole behaviour
    NoCtx             \* model value: no entry in _migration_map

ASSUME CallerConns \in [Callers -> SUBSET Conns]
ASSUME MaxRuns \in Nat \ {0} /\ MaxPostFailures \in Nat

VARIABLES
    sockDisp,     \* sockDisp[c]: the socket's _dispatcher (and event actions)
    sockMarked,   \* sockMarked[c]: socket context set to the migrator
    ctx,          \* ctx[x]: the MigrationContext created by call x
    migMap,       \* migMap[c]: the context _migration_map holds for fd c
    pc,           \* pc[k]: where caller k is in MigrateConnection
    arg,          \* arg[k]: the socket, source and target of k's call
    runs,         \* runs[k]: calls caller k has made
    postFailures  \* PostTask calls that have thrown

migratorVars == <<sockDisp, sockMarked, ctx, migMap, pc, arg, runs, postFailures>>
vars == <<dispatcherVars, migratorVars>>

\* One context per call: <<caller, call number>>.
CtxIds == Callers \X (1..MaxRuns)
Cur(k) == <<k, runs[k]>>

MigrationState == {"Idle", "Preparing", "Migrating", "Completed", "Failed"}
Terminal == {"Completed", "Failed"}

Args == [conn : Conns, src : Dispatchers, tgt : Dispatchers]
NoArgs == [conn |-> NoCtx, src |-> NoCtx, tgt |-> NoCtx]

\* Caller program counter: "check" and "insert" are the two lock scopes of
\* MigrateConnection; each of the others is the next PostTask of a phase,
\* with the statements around it.
PCs == {"idle", "check", "insert", "prepare", "socket", "socket_add",
        "events", "events_tgt", "complete"}

\* ConnectionMigrator::IsMigrationInProgress
IsMigrationInProgress(c) ==
    /\ migMap[c] # NoCtx
    /\ ctx[migMap[c]].state \in {"Preparing", "Migrating"}

(***************************************************************************)
(* One PostTask of a phase: either it succeeds and Ok holds, or it throws, *)
(* the exception unwinds to the catch (line 77), the context becomes       *)
(* Failed, the caller returns, and Fail holds.  Posts made before it stay  *)
(* queued.                                                                 *)
(***************************************************************************)
SetState(k, s) == ctx' = [ctx EXCEPT ![Cur(k)].state = s]

PostPhase(k, d, t, Ok, Fail) ==
    \/ /\ PostTask(d, t)
       /\ UNCHANGED postFailures
       /\ Ok
    \/ /\ postFailures < MaxPostFailures
       /\ postFailures' = postFailures + 1
       /\ UNCHANGED taskQ
       /\ SetState(k, "Failed")
       /\ pc' = [pc EXCEPT ![k] = "idle"]
       /\ Fail

\* The caller calls MigrateConnection(sock, sock->GetDispatcher(), target).
Call(k, c, t) ==
    /\ pc[k] = "idle"
    /\ runs[k] < MaxRuns
    /\ pc'   = [pc EXCEPT ![k] = "check"]
    /\ arg'  = [arg EXCEPT ![k] = [conn |-> c, src |-> sockDisp[c], tgt |-> t]]
    /\ runs' = [runs EXCEPT ![k] = @ + 1]
    /\ UNCHANGED <<dispatcherVars, sockDisp, sockMarked, ctx, migMap, postFailures>>

\* First lock scope: reject if the map holds a non-terminal context.
CheckInProgress(k) ==
    LET e == migMap[arg[k].conn] IN
    /\ pc[k] = "check"
    /\ pc' = [pc EXCEPT ![k] = IF e # NoCtx /\ ctx[e].state \notin Terminal
                                THEN "idle" ELSE "insert"]
    /\ UNCHANGED <<dispatcherVars, sockDisp, sockMarked, ctx, migMap, arg, runs, postFailures>>

\* Create the context in state Preparing; second lock scope: store it.
InsertContext(k) ==
    /\ pc[k] = "insert"
    /\ ctx' = [ctx EXCEPT ![Cur(k)] = [conn |-> arg[k].conn, src |-> arg[k].src,
                                        tgt |-> arg[k].tgt, state |-> "Preparing"]]
    /\ migMap' = [migMap EXCEPT ![arg[k].conn] = Cur(k)]
    /\ pc' = [pc EXCEPT ![k] = "prepare"]
    /\ UNCHANGED <<dispatcherVars, sockDisp, sockMarked, arg, runs, postFailures>>

\* PrepareMigration: mark the socket, post the suspend stub to the source,
\* state Migrating.
PrepareMigration(k) ==
    LET a == arg[k] IN
    /\ pc[k] = "prepare"
    /\ sockMarked' = [sockMarked EXCEPT ![a.conn] = TRUE]
    /\ PostPhase(k, a.src, MkTask("Suspend", a.conn),
                 /\ SetState(k, "Migrating")
                 /\ pc' = [pc EXCEPT ![k] = "socket"],
                 TRUE)
    /\ UNCHANGED <<connMap, connCount, loads, sockDisp, migMap, arg, runs>>

\* Mutant: phase 2 posts its RemoveConnection to the target, not the source.
MigrateSocketRemoveAtTarget(k) ==
    LET a == arg[k] IN
    /\ pc[k] = "socket"
    /\ PostPhase(k, a.tgt, MkTask("Remove", a.conn),
                 /\ pc' = [pc EXCEPT ![k] = "socket_add"]
                 /\ UNCHANGED ctx,
                 TRUE)
    /\ UNCHANGED <<connMap, connCount, loads, sockDisp, sockMarked, migMap, arg, runs>>

\* MigrateSocket, lines 125-128: post RemoveConnection to the source.
MigrateSocket(k) ==
    LET a == arg[k] IN
    /\ pc[k] = "socket"
    /\ PostPhase(k, a.src, MkTask("Remove", a.conn),
                 /\ pc' = [pc EXCEPT ![k] = "socket_add"]
                 /\ UNCHANGED ctx,
                 TRUE)
    /\ UNCHANGED <<connMap, connCount, loads, sockDisp, sockMarked, migMap, arg, runs>>

\* Mutant: the second post of phase 2 is dropped; the socket is rebound.
MigrateSocketAddNoPost(k) ==
    LET a == arg[k] IN
    /\ pc[k] = "socket_add"
    /\ sockDisp' = [sockDisp EXCEPT ![a.conn] = a.tgt]
    /\ pc' = [pc EXCEPT ![k] = "events"]
    /\ UNCHANGED <<dispatcherVars, sockMarked, ctx, migMap, arg, runs, postFailures>>

\* Mutant: phase 2 moves the registries but not socket->SetDispatcher.
MigrateSocketAddNoRebind(k) ==
    LET a == arg[k] IN
    /\ pc[k] = "socket_add"
    /\ PostPhase(k, a.tgt, MkTask("Add", a.conn),
                 /\ pc' = [pc EXCEPT ![k] = "events"]
                 /\ UNCHANGED ctx,
                 TRUE)
    /\ UNCHANGED <<connMap, connCount, loads, sockDisp, sockMarked, migMap, arg, runs>>

\* MigrateSocket, lines 130-139: post AddConnection to the target, then
\* rebind the socket's dispatcher and event actions.
MigrateSocketAdd(k) ==
    LET a == arg[k] IN
    /\ pc[k] = "socket_add"
    /\ PostPhase(k, a.tgt, MkTask("Add", a.conn),
                 /\ sockDisp' = [sockDisp EXCEPT ![a.conn] = a.tgt]
                 /\ pc' = [pc EXCEPT ![k] = "events"]
                 /\ UNCHANGED ctx,
                 UNCHANGED sockDisp)
    /\ UNCHANGED <<connMap, connCount, loads, sockMarked, migMap, arg, runs>>

\* MigrateBuffers (nothing to do), then MigrateEvents' first post: the
\* unregister stub to the source.
MigrateEvents(k) ==
    LET a == arg[k] IN
    /\ pc[k] = "events"
    /\ PostPhase(k, a.src, MkTask("Unregister", a.conn),
                 /\ pc' = [pc EXCEPT ![k] = "events_tgt"]
                 /\ UNCHANGED ctx,
                 TRUE)
    /\ UNCHANGED <<connMap, connCount, loads, sockDisp, sockMarked, migMap, arg, runs>>

\* MigrateEvents' second post: the register stub to the target.
MigrateEventsTarget(k) ==
    LET a == arg[k] IN
    /\ pc[k] = "events_tgt"
    /\ PostPhase(k, a.tgt, MkTask("Register", a.conn),
                 /\ pc' = [pc EXCEPT ![k] = "complete"]
                 /\ UNCHANGED ctx,
                 TRUE)
    /\ UNCHANGED <<connMap, connCount, loads, sockDisp, sockMarked, migMap, arg, runs>>

\* CompleteMigration: clear the mark, post Read() to the target, state
\* Completed; MigrateConnection sets Completed again, notifies and returns.
CompleteMigration(k) ==
    LET a == arg[k] IN
    /\ pc[k] = "complete"
    /\ sockMarked' = [sockMarked EXCEPT ![a.conn] = FALSE]
    /\ PostPhase(k, a.tgt, MkTask("Resume", a.conn),
                 /\ SetState(k, "Completed")
                 /\ pc' = [pc EXCEPT ![k] = "idle"],
                 TRUE)
    /\ UNCHANGED <<connMap, connCount, loads, sockDisp, migMap, arg, runs>>

\* A dispatcher thread runs the next posted closure.
RunTask(d) ==
    /\ DoTask(d)
    /\ UNCHANGED migratorVars

\* An iteration of Dispatcher::Run with nothing posted: the timers run and
\* ProcessEvent waits out its timeout.
IdleLoop(d) ==
    /\ taskQ[d] = <<>>
    /\ UNCHANGED vars

Init ==
    /\ sockDisp \in [Conns -> Dispatchers]
    /\ DispatcherInit(sockDisp, SetToSeq(Dispatchers))
    /\ sockMarked = [c \in Conns |-> FALSE]
    /\ ctx = [x \in CtxIds |-> [conn |-> NoCtx, src |-> NoCtx, tgt |-> NoCtx,
                                 state |-> "Idle"]]
    /\ migMap = [c \in Conns |-> NoCtx]
    /\ pc = [k \in Callers |-> "idle"]
    /\ arg = [k \in Callers |-> NoArgs]
    /\ runs = [k \in Callers |-> 0]
    /\ postFailures = 0

CallerStep(k) ==
    \/ CheckInProgress(k)
    \/ InsertContext(k)
    \/ PrepareMigration(k)
    \/ MigrateSocket(k)
    \/ MigrateSocketAdd(k)
    \/ MigrateEvents(k)
    \/ MigrateEventsTarget(k)
    \/ CompleteMigration(k)

Next ==
    \/ \E k \in Callers : \E c \in CallerConns[k] : \E t \in Dispatchers : Call(k, c, t)
    \/ \E k \in Callers : CallerStep(k)
    \/ \E d \in Dispatchers : RunTask(d)
    \/ \E d \in Dispatchers : IdleLoop(d)

\* A caller thread inside MigrateConnection keeps running; a dispatcher's
\* Run loop drains its task list on every iteration and a post wakes it.
Fairness ==
    /\ \A k \in Callers : WF_vars(CallerStep(k))
    /\ \A d \in Dispatchers : WF_vars(RunTask(d))

Spec == Init /\ [][Next]_vars /\ Fairness

-----------------------------------------------------------------------------
(***************************************************************************)
(* Properties                                                              *)
(***************************************************************************)

\* Every variable has the shape the code gives it; a registry counter stays
\* within 0..|Conns| (a counter that drifts leaves it).
TypeOK ==
    /\ taskQ \in [Dispatchers -> Seq(Task)]
    /\ connMap \in [Dispatchers -> SUBSET Conns]
    /\ connCount \in [Dispatchers -> 0..Cardinality(Conns)]
    /\ \A i \in 1..Len(loads) : loads[i].conn \in 0..Cardinality(Conns)
    /\ sockDisp \in [Conns -> Dispatchers]
    /\ sockMarked \in [Conns -> BOOLEAN]
    /\ \A x \in CtxIds : ctx[x].state \in MigrationState
    /\ migMap \in [Conns -> CtxIds \cup {NoCtx}]
    /\ pc \in [Callers -> PCs]
    /\ arg \in [Callers -> Args \cup {NoArgs}]

\* Holders(c): the dispatchers whose registry holds c.
Holders(c) == {d \in Dispatchers : c \in connMap[d]}

\* Nothing is queued and no caller is inside MigrateConnection.
Settled ==
    /\ \A k \in Callers : pc[k] = "idle"
    /\ \A d \in Dispatchers : taskQ[d] = <<>>

\* Phase 2 is "in hand" for c while a caller has posted the source's
\* RemoveConnection and not yet the target's AddConnection.
InHand(c) == \E k \in Callers : pc[k] = "socket_add" /\ arg[k].conn = c

\* A migrated connection is never lost: at every instant it is in some
\* registry, or an AddConnection for it is queued, or its caller is about
\* to post that AddConnection (the source may run the Remove before the
\* caller's second PostTask, lines 126-133).  A phase-2 post that throws
\* after the Remove was queued leaves it with none of the three.
NoLostConnection ==
    \A c \in Conns :
        \/ Holders(c) # {}
        \/ \E d \in Dispatchers : Contains(taskQ[d], MkTask("Add", c))
        \/ InHand(c)

\* Once the migrator is idle and every posted closure has run, each socket
\* is registered with exactly one dispatcher, the one its _dispatcher names.
QuiescentOwnership ==
    Settled => \A c \in Conns : Holders(c) = {sockDisp[c]}

\* The registries eventually settle on the socket's dispatcher for good.
OwnershipConverges ==
    <>[](\A c \in Conns : Holders(c) = {sockDisp[c]})

\* Spec 8: at no instant is a connection registered with two dispatchers.
NeverTwoOwners ==
    \A c \in Conns : Cardinality(Holders(c)) <= 1

\* Spec 3: at most one migration of a connection is active at a time.
ActiveOn(c) ==
    {k \in Callers : pc[k] \in PCs \ {"idle", "check", "insert"} /\ arg[k].conn = c}
AtMostOneActiveMigration ==
    \A c \in Conns : Cardinality(ActiveOn(c)) <= 1

(***************************************************************************)
(* Refinement.  The registry a dispatcher will hold once every closure     *)
(* already queued to it has run: its queue applied, in order, to its map,  *)
(* plus the connection a caller between the two posts of phase 2 is about  *)
(* to post an AddConnection for.  A connection's owners are the            *)
(* dispatchers whose settled registry holds it.  Running a closure and     *)
(* posting the Add leave this unchanged; posting the Remove moves it.      *)
(***************************************************************************)
RECURSIVE SettleQueue(_, _)
SettleQueue(q, m) ==
    IF q = <<>> THEN m
    ELSE SettleQueue(Tail(q),
                     CASE Head(q).op = "Add"    -> m \cup {Head(q).conn}
                       [] Head(q).op = "Remove" -> m \ {Head(q).conn}
                       [] OTHER                 -> m)

PendingAdds(d) == {arg[k].conn : k \in {k \in Callers : pc[k] = "socket_add" /\ arg[k].tgt = d}}

SettledRegistry(d) == SettleQueue(taskQ[d], connMap[d]) \cup PendingAdds(d)

SettledOwners ==
    LET reg == [d \in Dispatchers |-> SettledRegistry(d)]
    IN  [c \in Conns |-> {d \in Dispatchers : c \in reg[d]}]

Ownership == INSTANCE ConnectionOwnership WITH owners <- SettledOwners

\* The migrator implements the ownership specification: counting the
\* closures already posted and the Add a caller is committed to, a
\* connection always has exactly one owner, and a migration moves it in
\* one step (the step that posts phase 2's Remove).  A Remove posted to a
\* dispatcher that does not hold the connection, or an Add never posted,
\* leaves it with two owners or none.
OwnershipRefined == Ownership!Spec

=============================================================================
