--------------------------- MODULE DispatcherTimers ---------------------------
(***************************************************************************)
(* The timer side of cppnet::Dispatcher (src/cppnet/dispatcher.cpp): the   *)
(* run loop, Stop, the task list, MakeTimerID and the dual-path AddTimer   *)
(* and StopTimer.                                                          *)
(*                                                                         *)
(* A call made on the dispatcher's own thread (from a callback or a task,  *)
(* while the loop is inside ProcessEvent or DoTask) acts on the timer      *)
(* wheel and on the thread-local __all_timer_event_map at once.  A call    *)
(* from any other thread posts a closure that does the same later.         *)
(*                                                                         *)
(* A timer event is named by its creation number on its dispatcher; the    *)
(* id MakeTimerID hands out is a separate, wrapping counter.  The timer    *)
(* wheel (common/timer, not in this repository) is modelled from the       *)
(* spec's TimerFacility: add, remove, and a due event fires, after which a *)
(* one-shot event leaves the wheel.                                        *)
(***************************************************************************)
EXTENDS Naturals, Sequences, FiniteSets

CONSTANTS
    Disps,        \* dispatchers
    Threads,      \* caller kinds: "own" (the loop thread) and/or "foreign"
    MaxTimers,    \* bound on AddTimer calls per dispatcher
    Width         \* bits of _timer_id_creater (32 in the code)

IdSpace == 0..(2^Width - 1)
Events  == 1..MaxTimers
NoEvent == 0

VARIABLES
    idCreater,    \* idCreater[d]: _timer_id_creater
    timerMap,     \* timerMap[d][id]: the event __all_timer_event_map holds, or NoEvent
    wheel,        \* wheel[d]: the events in _timer, as [ev, always] records
    taskQ,        \* taskQ[d]: _task_list, closures of AddTimer / StopTimer
    stopFlag,     \* stopFlag[d]: _stop
    loopPc,       \* loopPc[d]: "timers", "tasks" (ProcessEvent and DoTask) or "exited"
    made,         \* made[d]: events created so far
    issued,       \* issued[d]: the [id, ev] pairs AddTimer returned to callers
    stopReq       \* stopReq[d]: events whose StopTimer has been called

vars == <<idCreater, timerMap, wheel, taskQ, stopFlag, loopPc, made, issued, stopReq>>

\* Code on the dispatcher's thread runs only inside ProcessEvent / DoTask.
OnOwnThread(d) == loopPc[d] = "tasks"
CanCall(d, th) == th = "foreign" \/ OnOwnThread(d)

\* MakeTimerID: ++_timer_id_creater under _timer_id_mutex, uint32 wrap.
MakeTimerID(d) == (idCreater[d] + 1) % 2^Width

\* d's timer state as one record, the thing a closure body acts on.
Cur(d) == [wheel |-> wheel[d], timerMap |-> timerMap[d]]

\* The two closure bodies, run on d's thread (lines 141-142, 179-185).
AddBody(r, id, tm) ==
    [wheel |-> r.wheel \cup {tm}, timerMap |-> [r.timerMap EXCEPT ![id] = tm.ev]]

StopBody(r, id) ==
    IF r.timerMap[id] = NoEvent THEN r
    ELSE [wheel    |-> {t \in r.wheel : t.ev # r.timerMap[id]},
          timerMap |-> [r.timerMap EXCEPT ![id] = NoEvent]]

\* Store a body's result for dispatcher d.
Apply(d, r) ==
    /\ wheel'    = [wheel EXCEPT ![d] = r.wheel]
    /\ timerMap' = [timerMap EXCEPT ![d] = r.timerMap]

(***************************************************************************)
(* AddTimer (both overloads): make the event, take an id, then either add  *)
(* it now (own thread) or post the closure that adds it.                   *)
(***************************************************************************)
AddTimer(d, th, always) ==
    /\ made[d] < MaxTimers
    /\ CanCall(d, th)
    /\ LET id == MakeTimerID(d)
           tm == [ev |-> made[d] + 1, always |-> always]
       IN  /\ idCreater' = [idCreater EXCEPT ![d] = id]
           /\ made'      = [made EXCEPT ![d] = @ + 1]
           /\ issued'    = [issued EXCEPT ![d] = @ \cup {[id |-> id, ev |-> tm.ev]}]
           /\ IF th = "own"
              THEN Apply(d, AddBody(Cur(d), id, tm)) /\ UNCHANGED taskQ
              ELSE /\ taskQ' = [taskQ EXCEPT ![d] = Append(@, [op |-> "add", id |-> id, tm |-> tm])]
                   /\ UNCHANGED <<wheel, timerMap>>
    /\ UNCHANGED <<stopFlag, loopPc, stopReq>>

\* StopTimer(timer_id): look up and remove now, or post the closure that does.
StopTimer(d, th, i) ==
    /\ i \in issued[d]
    /\ i.ev \notin stopReq[d]
    /\ CanCall(d, th)
    /\ stopReq' = [stopReq EXCEPT ![d] = @ \cup {i.ev}]
    /\ IF th = "own"
       THEN Apply(d, StopBody(Cur(d), i.id)) /\ UNCHANGED taskQ
       ELSE /\ taskQ' = [taskQ EXCEPT ![d] = Append(@, [op |-> "stop", id |-> i.id])]
            /\ UNCHANGED <<wheel, timerMap>>
    /\ UNCHANGED <<idCreater, stopFlag, loopPc, made, issued>>

\* Stop: _stop = true and a wakeup, from any thread.
Stop(d) ==
    /\ ~stopFlag[d]
    /\ stopFlag' = [stopFlag EXCEPT ![d] = TRUE]
    /\ UNCHANGED <<idCreater, timerMap, wheel, taskQ, loopPc, made, issued, stopReq>>

(***************************************************************************)
(* Run, first half: the while test, TimerRun (at most one due event fires; *)
(* a one-shot one leaves the wheel but keeps its map entry), and the       *)
(* second _stop test.  A set flag ends the loop.                           *)
(***************************************************************************)
LoopTimers(d) ==
    /\ loopPc[d] = "timers"
    /\ IF stopFlag[d]
       THEN loopPc' = [loopPc EXCEPT ![d] = "exited"] /\ UNCHANGED wheel
       ELSE /\ \E fired \in {{}} \cup {{t} : t \in wheel[d]} :
                 wheel' = [wheel EXCEPT ![d] = @ \ {t \in fired : ~t.always}]
            /\ loopPc' = [loopPc EXCEPT ![d] = "tasks"]
    /\ UNCHANGED <<idCreater, timerMap, taskQ, stopFlag, made, issued, stopReq>>

\* The closures of one swapped-out list, run in order.
RECURSIVE RunAll(_, _)
RunAll(q, r) ==
    IF q = <<>> THEN r
    ELSE RunAll(Tail(q), IF Head(q).op = "add"
                         THEN AddBody(r, Head(q).id, Head(q).tm)
                         ELSE StopBody(r, Head(q).id))

\* Run, second half: ProcessEvent, then DoTask swaps the list out under
\* _task_list_mutex and runs every closure.
LoopTasks(d) ==
    /\ loopPc[d] = "tasks"
    /\ Apply(d, RunAll(taskQ[d], Cur(d)))
    /\ taskQ'  = [taskQ EXCEPT ![d] = <<>>]
    /\ loopPc' = [loopPc EXCEPT ![d] = "timers"]
    /\ UNCHANGED <<idCreater, stopFlag, made, issued, stopReq>>

\* The constructor: counters zero, no timer, the thread started.
Init ==
    /\ idCreater = [d \in Disps |-> 0]
    /\ timerMap  = [d \in Disps |-> [id \in IdSpace |-> NoEvent]]
    /\ wheel     = [d \in Disps |-> {}]
    /\ taskQ     = [d \in Disps |-> <<>>]
    /\ stopFlag  = [d \in Disps |-> FALSE]
    /\ loopPc    = [d \in Disps |-> "timers"]
    /\ made      = [d \in Disps |-> 0]
    /\ issued    = [d \in Disps |-> {}]
    /\ stopReq   = [d \in Disps |-> {}]

Next ==
    \E d \in Disps :
        \/ \E th \in Threads, always \in BOOLEAN : AddTimer(d, th, always)
        \/ \E th \in Threads, i \in issued[d] : StopTimer(d, th, i)
        \/ Stop(d)
        \/ LoopTimers(d)
        \/ LoopTasks(d)

\* The loop thread keeps running until it sees _stop.
Spec == Init /\ [][Next]_vars /\ \A d \in Disps : WF_vars(LoopTimers(d)) /\ WF_vars(LoopTasks(d))

-----------------------------------------------------------------------------
(***************************************************************************)
(* Properties.                                                              *)
(***************************************************************************)

Active(d) == {t.ev : t \in wheel[d]}

\* Once StopTimer has been called for a timer, the timer eventually leaves
\* the wheel, unless the dispatcher stops first (spec section 4.3: timer
\* add and remove follow the same same-thread / cross-thread dual path).
\* AddTimer from another thread only posts the insertion, and StopTimer on
\* the owning thread looks the id up at once (line 179): a miss returns,
\* and the posted insertion later revives the timer for good.
StoppedTimerEventuallyInactive ==
    \A d \in Disps, e \in Events :
        (e \in stopReq[d]) ~> (e \notin Active(d) \/ loopPc[d] = "exited")

=============================================================================
