# TLA+ models of CppNet's dispatchers, load balancing and connection migration

These modules model the multi-threaded core of CppNet: dispatchers, the load
monitor, the load predictor, the load metrics, live connection migration
between dispatchers, and the SSL context, session and certificate
manager. TLC checks them.
Every definition is translated from the C++ under `src/`. `PROJECT.json` maps
each definition to the lines it models, and lists the runs, the mutants, the
findings and the hazards.

## The system

| Part | Source | State | Operations |
|---|---|---|---|
| Dispatcher | `src/cppnet/dispatcher.cpp` | `_task_list` (under a mutex), `_connection_map`, `_connection_count`, timers | `PostTask`, `DoTask`, `Run`, `Stop`, `AddConnection`, `RemoveConnection`, `AddTimer`, `StopTimer` |
| LoadMonitor | `src/cppnet/load_monitor.cpp` | vector of (dispatcher, LoadInfo), thresholds | `AddDispatcher`, `RemoveDispatcher`, `UpdateLoadInfo`, `UpdateDispatcherLoad`, `GetLeast/MostLoadedDispatcher`, `NeedLoadBalance` |
| ConnectionMigrator (five-phase) | `src/common/network/connection_migrator.cpp` | `_migration_map` of per-socket contexts | `MigrateConnection` (check, insert, Prepare, MigrateSocket, MigrateBuffers, MigrateEvents, Complete), `IsMigrationInProgress` |
| ConnectionMigrator (balancer) | `src/cppnet/connection_migrator.cpp` | running flag, `_migrate_mutex` | `MigrateConnection`, `MigrateConnectionsFromOverloadedDispatcher`, `MigrateSingleConnection` |
| LoadPredictor | `src/common/network/load_predictor.cpp` | window of (timestamp, load), EMA and regression caches | `UpdateLoad`, `PredictLoad`, `PruneOldData` |
| LoadMetrics | `src/common/network/load_metrics.cpp` | atomics, weights | setters and `CalculateLoadScore` |
| SSLContext, SSLSession, SSLCertificateManager | `src/cppnet/ssl/ssl_context.cpp` | `_initialized`, `_ssl_ctx` (no lock); a session's `_ssl`, `_handshaked`, `_closing`; domain map and default context (under `_mutex`) | `Init`, `InitServer`, `InitClient`; session `Init`, `Handshake`, `Shutdown`, `Close`; `Add/Remove/Get/UpdateCertificate`, `Get/SetDefaultCertificate` |
| FlowMonitor, MemoryBorrowManager | `src/cppnet/flow`, `src/common/alloter` | see `PROJECT.json` | not modelled |

How the parts interact:

- A migration runs on the thread that calls it.
- Each of its phases posts closures to the source or target dispatcher's
  task list.
- Each dispatcher thread runs its own closures in FIFO order, at the end of
  every loop iteration.
- The closures call `AddConnection` and `RemoveConnection`. Each of these
  pushes the dispatcher's connection count to the `LoadMonitor`.
- Each `PostTask` is a separate call. `MigrateSocket` posts the source's
  `Remove`, then the target's `Add`, then rebinds the socket's dispatcher
  pointer on the caller's thread.

So three kinds of threads touch the state: callers, each dispatcher's loop,
and the monitor's clients. There is no ordering between two dispatchers'
task lists.

## Modules

- `LoadMonitor.tla` models the registry `loads`, a sequence in registration
  order. It has one operator per method:
  - `AddDispatcher` appends and never checks for a duplicate.
  - `RemoveDispatcher` and the two updates act on the first matching entry.
  - `ScanLeast` and `ScanMost` are RECURSIVE and copy the loops from
    `begin()+1`.
  - `NeedLoadBalance` keeps the early `size() < 2` return.
- `LoadMonitorReports.tla` is the monitor on its own. Clients register,
  remove and report in any order. It defines a reference (first entry of
  minimal or maximal rank) that the scans are checked against.
- `Dispatcher.tla` models, for each dispatcher, the task list `taskQ[d]`,
  the registry `connMap[d]` and the counter `connCount[d]`.
  - `PostTask` appends one closure; each call is a step of its own.
  - `DoTask` runs the oldest closure: `Add` and `Remove` call
    `AddConnection` and `RemoveConnection`; the TODO stubs do nothing.
  - Both registry operations call `UpdateDispatcherLoad` on the shared
    `loads`.
- `ConnectionMigrator.tla` composes the dispatchers with caller threads.
  - A caller's program counter `pc[k]` walks the lock scopes and phases of
    `MigrateConnection`. There is one action per lock scope or `PostTask`
    call: `CheckInProgress`, `InsertContext`, `PrepareMigration`,
    `MigrateSocket` (the source's `Remove`), `MigrateSocketAdd` (the
    target's `Add` and the rebind), `MigrateEvents` (with the empty
    `MigrateBuffers`) and `MigrateEventsTarget` (the two event stubs), and
    `CompleteMigration`.
  - `ctx` holds the contexts, and `migMap` maps each socket to its context.
  - `sockDisp` is the socket's dispatcher pointer. `sockMarked` is its
    context pointer set to the migrator.
  - `PostPhase` is one `PostTask` of a phase, which may throw `bad_alloc`
    while `postFailures < MaxPostFailures`. A throw queues nothing, marks
    the context Failed and returns, as the catch at line 77 does; the
    phase's earlier posts stay queued.
  - `RunTask(d)` is one closure run by dispatcher `d`. `IdleLoop(d)` is a
    loop iteration with an empty list.
- `Balancer.tla` models the cppnet `ConnectionMigrator` over the same
  dispatcher state.
  - A socket has a dispatcher pointer `sockDisp` and a poller pointer
    `sockActions`. Listen/Connect set both.
  - `MigrateConnection` is one step, under `_migrate_mutex`.
    `MigrateSingleConnection` rewrites only `sockDisp`.
  - A balancing pass takes three steps, one per lock it takes:
    `QueryMost` (with the `_running` test), `QueryLeast` and
    `MigrateSelected`. `SelectConnectionsToMigrate` returns `<<>>`, as in
    the code.
  - `Report` is a dispatcher's `UpdateLoadInfo`, interleaved anywhere.
- `Fractions.tla` is exact rational arithmetic (records `[n, d]` in lowest
  terms). It stands in for the doubles of the predictor and the metrics.
  Rounding is not modelled; every property compares values that differ by
  far more than a rounding error.
- `LoadPredictor.tla` models `LoadPredictor`.
  - `window` is `_load_window`, a sequence of `[ts, load]` records.
  - `UpdateLoad` takes two steps. `BeginUpdate` is the store to
    `_current_load` at line 18, made before the lock. `UpdateLocked` is the
    locked rest: `PruneOldData`, `push_back`, the max/min widening, and the
    clearing of both cache flags.
  - `PruneOldData` computes the cutoff as `USub`, an unsigned subtraction
    modulo `2^Width`, exactly as the `uint64_t` expression at line 88 does.
  - `PredictLoad` is one step, with its early returns (empty window: 0;
    under two points: `_current_load`), its own prune with the newest
    timestamp, the EMA and regression caches and their two different
    forecast formulas, and the 0.7/0.3 mix.
  - `SetSmoothingFactor` and `SetWindowSize` store their argument, as the
    inline setters do. Neither touches a cache.
  - Timestamps are scaled: one model unit is 30 s. So `_window_duration_ms`
    (60000) is 2 and the 5-minute horizon is 10.
  - `clock` is the caller's timestamp argument; it never decreases.
    `inserted` is the ghost history of all points inserted, and `preds` holds
    the forecasts since the last update.
- `LoadMetrics.tla` models `LoadMetrics`.
  - The twelve atomics are the fields of the record `metrics`.
  - `UpdateRatio` is the six clamping setters and `UpdateCount` the six
    storing ones.
  - `CalculateLoadScore` is `Clamp01(RawScore(m))`. `RawScore` is the
    weighted sum of the `Normalized` signals, with the code's weights and
    saturation constants.
  - No code under `src/` calls the object: `Dispatcher` declares
    `_load_metrics` and never uses it.
- `DispatcherTimers.tla` models the timer side of `Dispatcher`.
  - `idCreater[d]` is `_timer_id_creater`. `MakeTimerID` increments it
    modulo `2^Width` (a `uint32` in the code).
  - `timerMap[d]` is the thread-local `__all_timer_event_map`.
  - `wheel[d]` is the set of events in `_timer`. `common/timer` is not in
    the repository, so the wheel is modelled from the spec's TimerFacility:
    add, remove, and a due event fires. After firing, a one-shot event
    leaves the wheel but keeps its map entry.
  - `AddTimer` and `StopTimer` take the code's dual path. On the own thread
    (`loopPc[d] = "tasks"`, inside ProcessEvent or DoTask) they act at
    once. From any other thread they append a closure to `taskQ[d]`.
    `AddBody` and `StopBody` are the two closure bodies. `StopBody` returns
    on a map miss, as line 179 does.
  - `LoopTimers` is the `_stop` test, `TimerRun` and the second test.
    `LoopTasks` is ProcessEvent plus `DoTask`, which runs the whole
    swapped-out list (`RunAll`). `Stop` sets `_stop`.
- `ConnectionOwnership.tla` is the abstract promise of migration. Each
  socket has exactly one owning dispatcher, and `Move` changes it in one
  step. `ConnectionMigrator.tla` instantiates it with `owners <-
  SettledOwners`. That mapping applies every dispatcher's queued closures,
  in order, to its registry (`SettleQueue`), and takes the resulting owner
  of each socket. `OwnershipRefined` is `Ownership!Spec` as a property.
- `SSLContext.tla` models `SSLContext::Init`, as `InitServer` and
  `InitClient` reach it, in the `USE_OPENSSL` build.
  - `initialized` is `_initialized` and `sslCtx` is `_ssl_ctx`. An
    `SSL_CTX` is named by its allocation number. `allocated` and `freed`
    record `SSL_CTX_new` and `SSL_CTX_free`.
  - The class declares `_mutex` but never locks it, so each access to a
    member is a step of its own: `InitCheck` (the `_initialized` test),
    `InitAlloc` (the store of `SSL_CTX_new`'s result), `InitNullCheck`,
    `InitLoadCert` (`LoadCertificates`), and on its failure `InitFree`
    (line 50) and `InitNull` (line 51, the store of nullptr), and
    `InitMark` (the store of `true`).
  - Whether an allocation or a file load succeeds is a nondeterministic
    input.
- `SSLSession.tla` extends `SSLContext.tla` with sessions built on that
  context, so the context's `Init` threads and the sessions interleave.
  - `sess[s]` holds a session's `_ssl` (an allocation number, 0 for
    nullptr), `_handshaked`, `_closing` and where its `Init` is.
  - `Init` reads the context twice, so it takes two steps:
    `SessionInitCheck` (`IsInitialized()`, line 210) and `SessionSSLNew`
    (`SSL_new(GetNativeContext())`, line 215). `SSL_new` fails on nullptr
    or when the allocation fails, and the member is overwritten either way.
  - `SessionHandshake`, `SessionShutdown` and `SessionClose` are one step
    each. Whether a handshake or a shutdown completes is an input. `Read`
    and `Write` change no member and are left out.
- `SSLCertificateManager.tla` models the manager.
  - `certs` is `_certificates`, `defaultCert` is `_default_cert`, and
    `holder` is the owner of `_mutex`.
  - Each method is one lock scope, so it is one step, enabled while the
    mutex is free. Its early returns (empty domain, null or uninitialized
    context, failed `InitServer`) are steps that change nothing.
  - `GetCertificate` takes two steps. The lookup runs under the lock. On a
    miss, `GetDefaultFromGet` is the nested `GetDefaultCertificate`, which
    needs the mutex free while the same thread still owns it.
- `MCConnectionMigrator.tla`, `MCDispatcherTimers.tla`, `MCSSLSession.tla`,
  `MCSSLCertificateManager.tla`, `MCBalancer.tla`, `MCLoadMonitorReports.tla`,
  `MCLoadPredictor.tla` and `MCLoadMetrics.tla` give the model values, the
  caller assignments and the input sets.

## Runs

| Run | Config | Expect | What it shows |
|---|---|---|---|
| migration_sequential | `MigrationSequential.cfg` | pass | One caller makes two migrations (so d1→d2→d3 chains happen while closures are queued), over 2 sockets and 3 dispatchers. It checks `TypeOK`, `NoLostConnection`, `QuiescentOwnership`, `OwnershipConverges` and the refinement `OwnershipRefined`. |
| migration_concurrent | `MigrationConcurrent.cfg` | pass | Two callers migrate different sockets at once, with the same properties except `OwnershipRefined`. The refinement would take this run past five minutes. |
| migration_transient | `MigrationTransient.cfg` | violation | `NeverTwoOwners`: the target's Add runs before the source's Remove (spec §8). The opposite order, the source's Remove running before the Add is even posted, leaves the socket in no registry for a while. |
| migration_race | `MigrationRace.cfg` | violation | `AtMostOneActiveMigration`: two callers both pass the in-progress check for one socket (spec §7c). |
| migration_post_failure | `MigrationPostFailure.cfg` | violation | `NoLostConnection`: a throwing PostTask in phase 2 leaves only the Remove queued, and the socket is lost (spec §7b). |
| balancer_pointer | `BalancerPointer.cfg` | violation | `PointerMatchesRegistry`: one explicit `MigrateConnection` leaves the poller and the registry on the source (spec §3). |
| monitor_ranking | `MonitorRanking.cfg` | pass | `RankingMatchesReference` holds over every registry of up to 3 entries, duplicates included. |
| predictor_window | `PredictorWindow.cfg` | pass | Four updates at clock values 0..4, interleaved with predictions. `WindowPrunedAfterInsert`: once the clock has passed the window, no point at or before `t - W` survives an update. |
| predictor_underflow | `PredictorUnderflow.cfg` | violation | `WindowMatchesAge`: before the clock reaches the window duration, the wrapped cutoff (line 88) erases every older point, and PredictLoad's own prune then empties the window (spec §4.2). |
| timers_mixed_stop | `TimersMixedStop.cfg` | violation | `StoppedTimerEventuallyInactive`: a foreign `AddTimer` only posts the insertion. An own-thread `StopTimer` then misses the id and returns (line 179). The posted insertion later revives the timer for good. With foreign callers only, the property holds. |
| ssl_init_race | `SSLInitRace.cfg` | violation | `SSLNewGetsLiveContext` (an action property): two threads call `InitServer` on one context and both pass the `_initialized` test. The second stores its own `SSL_CTX`, the first marks the context initialized, and the second's certificate load fails. It frees the member (line 50) before it stores nullptr (line 51). A session `Init` in between sees `IsInitialized()` and hands the freed `SSL_CTX` to `SSL_new`. |
| ssl_cert_deadlock | `SSLCertDeadlock.cfg` | violation | `MissedLookupReturns`: a `GetCertificate` for an unregistered domain calls `GetDefaultCertificate` while its own guard holds `_mutex` (line 387). The thread blocks on itself, and every other caller waits behind it. |

The properties:

- `TypeOK`: every variable has its type; a counter stays within
  0..|Conns|.
- `NoLostConnection`: every socket is registered somewhere, or an `Add` of
  it is still queued, or its caller is between the two posts of phase 2
  and about to post that `Add`. A throw of the second post breaks it.
- `QuiescentOwnership`: when no migration is running and every task list is
  empty, each socket is registered with exactly the dispatcher its pointer
  names.
- `OwnershipConverges`: the system eventually stays in that state.
- `OwnershipRefined`: every step either leaves the settled owner of every
  socket unchanged or moves one socket from its single owner to another.
  This is the atomic move of `ConnectionOwnership`. The settled owners
  apply each queue to its registry and add the `Add` that a caller between
  the two posts of phase 2 has still to make (`PendingAdds`). The move is
  the step that posts the source's `Remove`.

### Bounds

- There are 3 dispatchers, enough for a chain of two migrations with three
  distinct endpoints.
- There are 2 sockets, so two callers can work on different sockets or
  share one.
- With one caller, `MaxRuns` is 2. A second migration of the same socket
  can then start while the first one's closures are still queued, which is
  how a stale pointer becomes a source.
- With two callers, `MaxRuns` is 1, to keep TLC within minutes.
- `MaxPostFailures` is 0 in the passing runs, because the code has no
  recovery for a failed post (the finding above). It is 1 where the failure
  is shown.
- Thresholds keep their defaults in the migration runs: the connection
  figure never reaches 10000, so `NeedLoadBalance` is not exercised there.
- The balancer runs use one balancing thread and CPU figures {0, 90}.
  Each counterexample needs only one pass and one report.
- The predictor runs use loads {0, 2}, timestamps 0..4 (0 to 2 minutes),
  a window of 2 (60 s) and `Width` 8. The cutoff wraps exactly as the
  64-bit one does, because every timestamp is below `2^Width - W`. Four
  updates let the window both fill and be pruned. Two predictions are
  enough to compare a fresh forecast with a cached one.
- The SSL context run has two threads, each making one `InitServer` call
  with or without a certificate, and one session making one call. Two
  calls are the fewest that can race, and one session `Init` is enough to
  read the context between the free and the store of nullptr.
- The certificate manager run has two threads, two domains and two
  contexts, one of them initialized. So hits, misses, refused inputs and
  a second thread waiting on the mutex all occur.
- The timer run uses one dispatcher, two `AddTimer` calls and a 3-bit id
  counter. The id therefore never wraps, so the revival is not confused
  with id reuse. A foreign add, an own stop and one loop iteration are
  enough to reach it.
- In the monitor runs every threshold is 1, and the figures range over
  {0,1,2}. Ties and values both under and over the thresholds all occur.

### Fairness

`Run()` calls `DoTask()` on every iteration. A post wakes the poller, so a
queued closure eventually runs as long as the thread runs: this is
`WF_vars(RunTask(d))`. The model has no `Stop`. A caller thread runs
`MigrateConnection` to the end without blocking, because every lock scope is
bounded: this is `WF_vars(CallerStep(k))`. Starting a migration (`Call`) is
not fair, because a client may never call.

In `DispatcherTimers`, the thread stays in `Run()` until it sees `_stop`.
So both halves of the loop are weakly fair: `WF_vars(LoopTimers(d))` and
`WF_vars(LoopTasks(d))`. `AddTimer`, `StopTimer` and `Stop` are client
calls and are not fair.

In `SSLCertificateManager`, a thread inside `GetCertificate` keeps running.
Its second step is weakly fair (`WF_vars(GetDefaultFromGet(t))`), so it is
taken whenever the mutex stays free. Starting a call is not fair. The
`SSLSession` run checks only a safety (action) property and assumes no
fairness.

## Not modelled yet, and the plan

The 12-run budget is used. These defects are known from the models, but no
run checks them yet. `PROJECT.json` lists them as hazards.

1. `Balancer.tla` has no passing run. `SelectConnectionsToMigrate` is a stub
   that returns nothing, so a pass never moves load (spec §8). A report
   between the two monitor queries can also leave a stale source/target
   pair. Once the selection is real, the unlocked migration loop can race
   an explicit `MigrateConnection` on the same socket.
2. `LoadPredictor` has four more defects, each reachable in the model:
   - `_window_size` is stored and never read, so the window is not bounded
     by count;
   - `_max_load` and `_min_load` are only widened, never recomputed after
     a prune;
   - `SetSmoothingFactor` leaves a cached EMA computed with the old factor;
   - the `_current_load` store is outside the lock.
3. Two runs were given up to make room for the SSL runs. Their modules
   are kept:
   - `metrics_score` checked `RawScoreInUnit` for `LoadMetrics`. That
     property held over all 46656 combinations of setter inputs.
     `LoadMetrics.tla` is now checked by no run.
   - `predictor_cached_regression` showed `PredictStable` violated: the
     cached regression path omits the newest timestamp (line 129). It is
     now a hazard only.
4. Timers: a `MakeTimerID` wrap (`dispatcher.cpp:215`) overwrites a live
   timer's map entry. A fired one-shot timer's map entry is never erased
   (line 142). A bigger `Width` and `MaxTimers` would reach both, but no
   run slot is free for them.
5. `Stop` composed with migration: closures posted after the last `DoTask`
   are dropped. The timer model has `Stop`, but the migration model does
   not.
6. `NeedLoadBalance` returns false whenever fewer than two dispatchers are
   registered (line 106), whatever their load. Otherwise it reports an
   overload when any figure exceeds its threshold, as the spec says. Its
   run was given up to make room for the timer run, and it is now a hazard
   only.
7. `OwnershipRefined` is checked only in the sequential migration run. In
   the concurrent run it costs too much time. The post-failure and race
   configurations do not check it. Their findings already break the
   premise of an atomic move.

FlowMonitor and AdaptiveLimiter are outside the spec's core, and no code
under `src/` calls them. Their hazards are listed in `PROJECT.json`: a
`BlockSocket` racing `RemoveSocket`, a 100-packet window that makes both
flood tests unreachable, integer rounding of the bandwidth threshold, and a
`uint32` wrap of the adaptive limit. MemoryBorrowManager has only a
header.

`SSLSession.tla` reaches three session defects that no run states, for
lack of a run slot. Nothing under `src/` calls `SSLSession`, and each is a
short sequential unit test:
- `Handshake` returns true with no SSL object, after a failed `Init` or
  after `Close` (line 237);
- `_closing` survives `Close` and a new `Init`, so `Shutdown` skips
  `SSL_shutdown` (line 304);
- a second `Init` overwrites `_ssl` without freeing it and keeps
  `_handshaked` (line 215).
