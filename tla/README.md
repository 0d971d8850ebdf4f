# A verification project for the GeoDMS calculation engine

GeoDMS evaluates a configuration of data items lazily: a view or an export asks for an item, and the engine
works out which operators have to run, in which order, and runs them on a pool of threads. This directory models
the machinery that decides *when* and *by whom* something is calculated, and *who may touch* the result: the
scheduler of operator calculations and the dispenser of parallel loops inside an operator
(`tic/dll/src/OperationContext.cpp`), the locks on items and on their data (`ItemLocks.cpp`, `DataLocks.cpp`), the
tiles that are calculated or read only when somebody asks for them (`TileFunctorImpl.h`, `AbstrDataItem.cpp`), the
interest that keeps results alive (`rtc/dll/src/act/Actor.cpp`), and the queues by which other threads hand work to
the main thread (`rtc/dll/src/act/MainThread.cpp`, with `qtgui/exe/src`). Paths below are relative to `src/`.

## 1. The system

| Part | Source | State | Operations | What is hard, and what makes it correct |
|---|---|---|---|---|
| Tile task groups | `tic/dll/src/OperationContext.cpp` 110-480, `ParallelTiles.h` | `m_Last`, `m_Commissioned`, `m_NrCompleted`, `m_CallException` of each group; the registry `s_TileTaskGroups`; `s_NrRunningTileTaskThreads` | construct, `DoWork`, `StealTasks`, worker loop, `Join`, destructor | groups live on the stack of their caller while workers point at them; exceptions settle slots in bulk; suspension. Each slot is worked on at most once, a `Join` that returns has seen all of them, nobody uses a destroyed group, every owner is woken |
| Operation scheduler | `tic/dll/src/OperationContext.cpp` 480-2581, `OperationContext.h` | status, suppliers, waiters, payload, write lock of each context; phase queues, `s_RadioActives`, run counts, active phase, finish count | create, connect, schedule, collect, activate, license, run, steal, `Join`, `OnEnd`, fail, cancel, destroy | several routes to run and to end the same context; phases that come into focus again; deferred destruction outside the lock; nested waits. A payload runs once, with its arguments; counts match; final is final; Joins return |
| Phase containers | `clc/dll/src/PhaseContainer.cpp` | the fence `s_CurrBlockedPhaseNumber` | `PreCalcUpdate`, `CalcResult` | sources are updated while the container's own phase is blocked |
| Item locks | `tic/dll/src/ItemLocks.cpp` | `m_ItemCount`, `m_Producer` per item | lock shared / unique, try, wait for a producer | waits for producers, status read before the lock, a second producer |
| Data locks | `tic/dll/src/DataLocks.cpp` | `m_DataLockCount`, the data object | read and write atoms | fast paths beside a per-item lock; release at zero |
| Delayed tiles | `tic/dll/src/TileFunctorImpl.h`, `DataArray.h`, `ParallelTiles.h`, `clc/dll/include/OperAttrBin.h` | a mutex and a state or weak pointer per tile; the failure of the item; the slot of `throttled_async` | `GetTile`, `GetFutureTile`, the apply functions of operators | a tile is filled inside the fill of another, by any thread, with mutexes held; it may throw half-way, expire, or outlive its item. Only complete data is handed out, one thread fills a tile, and every call ends |
| Reader clones | `tic/dll/src/AbstrDataItem.cpp` 188-310 | a semaphore and a stack of tokens per item | `acquire`, `release` around the read of a tile | two steps for one resource, and exceptions in between. A clone of a storage manager has one user |
| Interest | `rtc/dll/src/act/Actor.cpp`, `SupplInterest.h` | interest count, supplier interest | increase, decrease, move | double-checked start and stop; it decides what is cancelled |
| Actor state | `rtc/dll/src/act/Actor.cpp`, `UpdateMark.cpp` | progress, failure kind, time stamps | `DetermineState`, `DoFail`, `InvalidateAt` | the strongest failure stays, progress is monotone |
| Main thread queues | `rtc/dll/src/act/MainThread.cpp` | posted operations, suspendible tasks by phase | `Post`, `Process`, blockers | recursion and postponement |
| Suspend trigger | `rtc/dll/src/act/TriggerOperator.cpp` | block level, last result, progress flag | `MustSuspend`, `DidSuspend`, blockers | only the meta thread suspends, and never behind a blocker |
| Data controllers | `tic/dll/src/MoreDataControllers.cpp` | link to the context, arguments | `CallCalcResult`, `StopInterest` | found again after a suspension |
| Session, data store | `tic/dll/src/SessionData.cpp`, `DataStoreManager.cpp` | cancelling state | deactivate, `CancelIfOutOfInterest` | cancels what runs |
| Tree, units, parser, expressions, operators, storage, views | `tic`, `stx`, `sym`, `clc`, `geo`, `stg`, `shv`, `qtgui` | - | - | mostly sequential or data-bound |

How they interact. The *meta thread* (the main thread) updates items for views. `FuncDC::CallCalcResultImpl`
creates an `OperationContext`, connects it to the contexts of its arguments and schedules it. Contexts without
suppliers are queued per phase; `StartOperationContexts` activates those of the lowest phase and hands a callback
to the `task_group`. A pool thread, or a thread that waits in a `Join`, takes the license of an activated
context, runs its operator (which may open tile task groups, wait for units, or suspend when it is the meta
thread), and ends the context. The end releases or fails its waiters, through calls that are put in a
`garbage_can` and made after `cs_ThreadMessing` is released.

Whoever needs a result holds *interest* in it: the views, the contexts (in their result and in their arguments),
and, through an actor with interest, its units, its parent, its suppliers, its data controller and the item it refers
to. When the last interest goes, the context of a FuncDC is abandoned and data in memory is released. A reader locks the path from
the cache root to its item, Joins the producer where it meets a write lock, and then takes a data read lock. Pool
threads hand work that must be done on the main thread to its queues; the main thread processes these from its
message loop and from inside its own waits, a Join among them.

An elementwise operator on data that is large enough does not calculate when its context runs: its result is a functor
that fills a tile when a reader with a data read lock asks for it. That reader then gets the tiles of the arguments in
the same way, down to tiles that are read from a storage; the argument tiles are reached through *futures* that the
functor took from its arguments, so that the calculation goes on when an argument has lost its data object.

`PROJECT.json` lists every part with its status, and under `hazards` the places where this code is hard to test.

## 2. Modules

| Module | Models |
|---|---|
| `TileTaskGroup` | one tile task group after another, several at a time, as `OperationContext.cpp` implements them |
| `TileLoop` | what a parallel loop promises to the operator that runs it; `TileTaskGroup` implements it |
| `TileTaskGroup_proofs` | theorems about `TileTaskGroup`, for every value of its constants |
| `TileTaskGroup_refinement` | that it implements `TileLoop`; it extends `TileTaskGroup_proofs` |
| `OperationScheduler` | operation contexts of FuncDCs, phases, licenses, Joins, failures, cancellation and closing |
| `OperationScheduler_steps` | lemmas on the scheduler's operators, and that each of its actions is one of a few kinds of step |
| `OperationScheduler_proofs` | theorems about `OperationScheduler`, for every value of its constants |
| `ItemAccess` | who may read, write and release the data of an item: item locks, data locks, producers, clean-up |
| `DataAccess` | what these promise: one producer, no change under a reader; `ItemAccess` implements it |
| `ItemAccess_proofs` | theorems about `ItemAccess`, for every value of its constants, and that it implements `DataAccess` |
| `ReaderFarm` | the clones of a storage manager by which threads read tiles of a grid |
| `DelayedTiles` | tiles that are filled when they are asked for, by threads in nested calls; it extends `ReaderFarm` |
| `DelayedTiles_proofs` | theorems about `DelayedTiles`, for every value of its constants |
| `InterestCount` | interest and supplier interest of actors, tree items and data items |
| `InterestRaces` | the same, with a history variable that records two races of the meta thread; what holds until then |
| `InterestCount_proofs` | theorems about `InterestRaces`, for every value of the constants |
| `MainThreadQueues` | the queues of the main thread, its message loop and its waits, the thread of a test script |
| `MainThreadQueues_proofs` | theorems about `MainThreadQueues`, for every value of its constants |
| `MCTileTaskGroup`, `MCOperationScheduler`, `MCItemAccess`, `MCDelayedTiles`, `MCInterestCount`, `MCMainThreadQueues` | the small instances that TLC checks |

### TileTaskGroup

Every method of a group and every access to the registry holds `s_TileTaskGroupsMutex`, so an action is one
critical section. The work function runs without it, between `SlotStart` and `SlotReturn` or `SlotThrow`; it is
operator code, which may construct a nested group (`Construct`) and, where it waits for something else, steal
(`Steal`). A thread is therefore a stack of frames: a *work* frame is an activation of `DoWork` at one slot, an
*own* frame is a group on the C++ stack of its caller, at one of the places `built`, `await` (in `Join`),
`joined`, `thrown`, `dtor`.

| Action | Code |
|---|---|
| `Construct` | the constructor: registers the group and commissions at most `MaxNrThreads` minus running workers |
| `Join`, `Await` | `Join`: takes a ticket and calls `DoWork`; `AwaitRunningSlots`, where a cancellation may throw |
| `SlotStart`, `SlotReturn`, `SlotThrow` | `DoWork`: entering the functor; `RegisterCompletionAndGetNextCommissioned`; its `catch` |
| `Steal`, `WorkerTurn` | `StealTasks`; one turn of `DoThisOrThatAndDecommission` |
| `Destroy`, `DestroyRecheck` | the destructor, and its waiting loop after a wake-up |
| `Timeout` | `wait_for` returns after 500 ms |

`busy` is the one auxiliary field: the tickets handed out and not yet settled, which in the code exist only as
local variables of `DoWork`. `completedWork` is `md_CompletedWork` of the debug build. Group addresses are reused:
a group is destroyed and another is constructed at the same place, as happens on a stack.

`TileLoop` has, per loop, the indices that are pending, busy and done. The refinement mapping is at the end of
`TileTaskGroup` (`Abstract`): pending are the tickets from `m_Commissioned` on. It says what the caller may rely
on whatever the workers and thieves do: an index is worked on at most once, no new index is begun after the loop
gave up, a loop that returns has done all of `0 .. n - 1`, and a loop only ends when nothing is in progress.

### OperationScheduler

All state is protected by `cs_ThreadMessing`, so an action is one critical section of it. What such a section
puts in its `garbage_can` is destroyed by the same thread after it unlocks: those calls are in `todo[t]`, the
thread does nothing else first, and they are taken in any order, since a `garbage_can` keeps a bin per type.
`Dispose` executes one: forward a failure (in two steps: `Fail`, then `OnEnd`), forward a cancellation, run a
destructor, or call `StartOperationContexts`.

A thread is a stack of frames: `run` (the payload of a context, at a place in `Run_with_cleanup`), `join` (a wait
in `OperationContext::Join`, at a place in its loop), and, on the meta thread, `direct` (a context being
scheduled) and `fence` (a `PhaseContainer` whose `PreCalcUpdate` updates its sources).

| Actions | Code |
|---|---|
| `Begin`, `EndFence`, `Connect`, `Schedule` | `CallCalcResultImpl`, `PreCalcUpdate`, `ScheduleCalcResult` with `Schedule`, `OperationContext_ScheduleThis` |
| `JoinSupplier`, `SupplierJoined`, `SuspendDirect`, `RunDirect` | the inline path for operators that cannot run in parallel: `JoinSupplOrSuspendTrigger`, the license, `Run_with_cleanup` |
| `Collect` (in `JoinCollect`, `Dispose`, `DoWorkWhileWaiting`) | `StartOperationContexts`: a pass over the phase queues (`Pass`), activation or cancellation of what it met |
| `RunTask`, `StealOneTask`, `JoinInline` with `TryRunning`, `License`, `PutBack` | the callback of the `task_group`, stealing, running inline; `getUniqueLicenseToRun` grants, refuses, or puts a context back |
| `Join`, `JoinLoop`, `JoinCheck`, `JoinWait`, `Timeout` | `Join`, including the recursive Join of the first supplier found and the 500 ms wait |
| `TakeTaskFunc`, `EnterOperator`, `JoinRead`, `ReturnOperator`, `FailOperator`, `CancelOperator`, `ReleaseWriteLock`, `Cleanup` | `Run_with_cleanup`, `OC_CalcResultFunc`, `RunOperator`, and the wait of an operator for an item that is being produced |
| `StopInterest`, `Expire` | the FuncDC lets go; the last `shared_ptr` is gone and the destructor runs |
| `Close` | `MainWindow::CloseConfig`: from here on `ASyncContinueCheck` throws on pool threads and collecting cancels |

`OnEnd` stands for `onEnd` / `separateResources` with everything they call: `releaseRunCount`, the wake-up when
the active phase has become idle, letting go of suppliers, payload, result and write lock, `disconnect_waiters`,
and the deferred consequences for the waiters.

Abstractions. A result item is `none`, `ready` or `failed`. Low memory and the suspension of the meta thread are
nondeterministic wherever the code asks (`LowRam`, `MaySuspend`). `Expire` may happen on any thread as soon as
nothing in the model refers to a context. `m_Result` is an interest pointer, so the branches of `collectTaskImpl`
and `CancelIfNoInterestOrForced(false)` for a result without interest cannot be taken and are left out. `Reads`
are the waits of a running operator: the sources of a container, which are in an earlier phase, and units whose
range an operator asks for, in the same phase or an earlier one; the caller has started those before (the code
asserts `CheckCalculatingOrReady`).

### ItemAccess and DataAccess

A result of a FuncDC is a cache root with data items below it. `m_ItemCount` is, per item, the number of shared
locks or minus the number of unique locks; `m_DataLockCount` is the same for the data object. `ItemAccess` has both
counters, the producer (`m_Producer`, a weak reference that may have expired), the stage of each context that may
produce the result, the link from the FuncDC to its context, who has interest, and one frame per reading thread. The
scheduler is reduced to what the locks see of it: a context is queued, active, writing, written, unlocked and ended.

| Actions | Code |
|---|---|
| `Want`, `Release`, `DropGarbage`, `Destruct`, `Destroy`, `LetGo`, `Cleanup` | interest in a FuncDC that starts and stops, `FuncDC::StopInterest` and the context in its garbage, the destructor of a context, `DecInterestCount` with `TryCleanupMem` |
| `Call` | `CallCalcResult`: `mustStartCalc`, and scheduling with `lock_unique` |
| `Activate`, `BeginWrite`, `EndWrite`, `ReleaseWriteLock`, `OnEnd` | activation, `OC_CalcResultFunc` up to the `DataWriteLock`, `Commit` or a failure, the release of the item write lock, the end |
| `StartRead`, `Peek`, `JoinReturns`, `CountRunning`, `LockShared`, `WaitReturns`, `Deadlock` | `ItemReadLock`: for each item of the path, `lock_shared` with the look for a producer, its `Join`, the count of running operations, and the section with the wait and the exception |
| `Check`, `Open`, `OpenFirst`, `Close`, `FreeRead` | the `MG_CHECK`s of `ItemReadLock`, `DataReadLockAtom` with its fast path, its destructor, `ReadFree` |

What the code reads before it enters a section is read in a step of its own: the producer in `Peek`, whether
operations run in `CountRunning`, the sign of the data count in `Open`. `DataAccess` has, per data item, its content,
its readers and its producers: a producer begins when nobody reads or makes the data, a reader begins when it is made
and nobody makes it, and data is discarded when nobody reads or makes it. The mapping (`Abstract`) reads the content
off the data object and the failure, the readers off the frames with a data read lock, and the producers off the
contexts that hold the write lock of the root.

### DelayedTiles and ReaderFarm

A tile has no data, *raw* data that is being written to, or *whole* data. In a `FutureTileFunctor` it is a
`tile_record` with a mutex, whose variant goes from the specification (`spec`, the futures of the argument tiles) to
the data and stays there. In a `LazyTileFunctor` it is a mutex and a weak pointer: the data expires with the last shared
pointer to it (`Expire`), and may be made again. `object` are the items that have their data object, through which
`GetTile` of a functor is called; a future keeps a `tile_record` or a functor alive without it. `failed` are the items
that failed with `FailType::Data`. A thread is a stack of calls of `GetTile`; a call has its tile, the argument tiles
that it got, and the slot it is the work of, if any. `task` is the one-slot `tile_task_group` of `throttled_async`, by
which a binary operator has its first argument made by a worker while it gets the second one; its dispenser is in
`TileTaskGroup`, and here it is open, busy, done, or has the exception.

| Actions | Code |
|---|---|
| `ReadTile`, `TakeFuture`, `ReadFuture`, `Release`, `DropObject` | a reader with a data read lock; `GetFutureTile` and the call of that future, maybe later; letting go; an item that loses its data object |
| `Check`, `Enter`, `Leave`, `Unlock`, `Catch` | `GetTile`: `WasFailed` before the `try`, the mutex with the look for data, the return, and the unlocking and `CatchFail` of an exception |
| `GetArg`, `Fill`, `FillThrows` | the apply functions of unary, binary and ternary operators, which look at and record a failure of their item |
| `Fork`, `TakeSlot`, `JoinSlot`, `JoinEnd`, `JoinCancelled`, `Unwind` | `throttled_async`: the group, its slot in a worker or in `Join`, the end of `Join`, a cancellation in its wait, and the destructor when the operator throws |
| `Acquire`, `PopToken`, `ReadDataItem`, `PushToken`, `PostToken` | the tile generator of `DoReadItem` with the farm: the semaphore and the token stack are separate steps (`Countdown`, `TakeToken`, `GiveToken`, `CountUp`) |

What an item is calculated from is finite and without a circle: `Level` ranks the items from 0 to `MaxLevel`, and an
argument has a lower rank. An exception is an error or a `task_canceled`; a cancellation is thrown on but never marks an item as failed. When RAM is
low `throttled_async` is a direct call, which is a choice of `GetArg`. The order in which C++ destroys the locals of
`GetTile` is kept: argument tiles and futures, then the data of the tile, then the lock.

### InterestCount and InterestRaces

A thread is a stack of frames, one per call of `IncInterestCount`, `DecInterestCount` and the operations that make
such calls: a failure, an invalidation, a rebinding of `mc_RefItem`, a restart of supplier interest. Calls recurse
from a data item to its units, its parent, its suppliers, its data controller `mc_DC` and the item it refers to.
`actorLock` is `sg_ActorLockMap`; `sg_CountSection`, `sc_MoveSupplInterestSection` and `sc_FailSection` are one step
unless a call is made inside them. A worker gets interest in any actor by `GetInterestPtrOrNull` and copies or drops
what it has; any thread may make an actor fail, with interest in it or without. Starting interest, rebinding and
invalidating are the meta thread's.

| Actions | Code |
|---|---|
| `Take`, `TakeIfAny`, `Drop` | an interest pointer is made, `GetInterestPtrOrNull`, an interest pointer is destroyed |
| `IncCount`, `IncLock`, `IncNext`, `CheckFailure`, `Register`, `IncRef`, `IncFinish`, `IncFail` | `Actor::IncInterestCount` with its two looks at the count; `StartInterest` of `AbstrDataItem`, `TreeItem` and `Actor`; `StartSupplInterest`; the exception path |
| `DecCount`, `DecLock`, `StopSupplInterest`, `DecCalc`, `DecRef`, `DecUnlock` | `Actor::DecInterestCount` and the `StopInterest`s |
| `Visit`, `Release`, `ReleaseEnd` | the next call of a frame, and the interest that a frame still has to let go |
| `SetReferredItem`, `RebindRead`, `RebindSwap` | `TreeItem::SetReferredItem` |
| `DoFail`, `FailMove`, `InvalidateAt`, `InvalidateBlocked`, `DoInvalidate`, `Restart`, `RestartSwap` | `Actor::DoFail`, `InvalidateAt` with its early return under an `InvalidationBlock`, `DoInvalidate`, `RestartSupplInterestIfAny` |

The code lets the meta thread change an actor while another thread is stopping interest in that same actor, and then
the account is lost. `InterestRaces` has the same steps and a history variable `raced`, which becomes true at exactly
two events: `Misread`, `SetReferredItem` swaps `mc_RefItem` of an actor whose last interest was taken away and whose
`StopInterest` has not read `mc_RefItem` yet; and `Unobserved`, `DoInvalidate` registers supplier interest for an
actor that lost its interest since it looked and whose `StopSupplInterest` is over. Properties named `...UntilRace`
hold in every state up to the first of them, whatever the threads hold interest in.

### MainThreadQueues

The main thread is a stack of frames: a message handler, the local list of `operation_queue::Process`, the loop of
`suspendible_task_queue::Process`, a body (of an operation, a task, a line of the script or any other message), and
a wait. Workers post operations, possibly under a `RequestMainThreadOperProcessingBlocker`; the main thread posts
tasks; a script thread posts lines to the window's own queue and waits for each.

| Actions | Code |
|---|---|
| `PostOper`, `PostTask`, `PostAppOper`, `Request` | the `Post` functions and `RequestMainThreadOperProcessing`, which posts the message unless one is pending |
| `EnterBlocker`, `LeaveBlocker` | the blocker of a worker, whose destructor makes the request it held up |
| `HandleMessage`, `HandleOther`, `Confirm` | `nativeEventFilter`, which resumes, and `ConfirmMainThreadOperProcessing` |
| `ProcessMainThreadOpers`, `CallNext`, `EndList` | `ProcessMainThreadOpers` with its level, `operation_queue::Process` |
| `ProcessSuspendibleTasks`, `CallTask`, `EndTasks`, `EndBody`, `CancelTasks`, `Suspend` | `suspendible_task_queue`; a task that suspended goes back to the front |
| `ProcessAppOpers` | the last part of `MainWindow::ProcessAppOpers` |
| `Wait`, `WaitAgain`, `WaitEnds` | `OperationContext::Join` and `DoWorkWhileWaiting`, as far as they process the queues |
| `ReadLine`, `LineDone`, `ExecReturns`, `Flushed`, `Close` | `RunTestScript`; the end of `main` with its flush and `testResult.get()`; `CloseConfig` |

## 3. Properties and runs

| Run | Instance and bounds | Shows |
|---|---|---|
| `tile` | 2 groups, 1 caller (the meta thread), 1 worker, 2 slots, 3 frames per thread, 2 registry entries, timeouts; fair; 39,106 states | `NoUseAfterDestroy`, `TicketAccounting`, `SlotOnce`, `JoinComplete`, `WorkerBound`, `AwaitAllCommissioned`, the inductive invariant `LoopInv` (with the types and `IInv`), the refinement of `TileLoop`, and `GroupEnds` |
| `sched_phases` | a; b needs a and is direct; container q reads b; 1 worker, low RAM, closing, depth 4; fair; 134,681 states | `RunCountMatches` (with the types), `OperatorIsLicensed`, `FinalStays`, `JoinReturns` |
| `sched_join` | a in phase 1; b, q and r in phase 2; a and q supply b; r reads q; a view asks for b or for r, not both; 1 worker, low RAM, closing, depth 3; 972,536 states | `WaitersAreNotStarted`, `WaitingHasReason`, `QueuedMeansScheduled`, `UniqueRun`, `PhaseFence` |
| `sched_fence` | a, b in phase 3, container q in phase 2 | finding: `FenceNotBelowActive` is violated |
| `item_access` | one cache root with a data item, two contexts for it, the meta thread and a worker, failures; fair; 27,405 states | `CountMatches`, `OneProducer`, `ReadsData`, `NoOrphanData`, the refinement of `DataAccess`, `ReadEnds`, the inductive invariant `IInv` (with the types) |
| `read_stale` | the same | finding: `CalledIsReady` is violated |
| `tiles` | g1 and g2 of a grid with one reader clone; d1, a future tile, of g1 (asynchronous) and g2; e1, a lazy tile, of d1 (asynchronous) and g2; t1 asks for e1, t2 for d1 or e1, one read each; 1 worker; errors, cancellation; the item of d1 may lose its data object; fair; 216,596 states | `HeldIsWhole` (with the types), `FillsAlone`, `RecordsOutliveCalls`, `FarmIsSafe`, `CallsEnd`, no deadlock |
| `interest` | result; calc, its supplier and data controller; base, the unit and parent of result and supplier of calc; result may refer to base and is invalidated, calc may fail; meta thread and one worker, which may hold any of the three; 1 pointer per thread and item; fair; up to the first race 185,532 states | `AccountedUntilRace` (with the types), `ObservedUntilRace`, `StartsOnMetaUntilRace`, `CallsEnd` |
| `interest_rebind` | result may refer to base, and nothing else | finding: `DecHasInterest` is violated |
| `interest_fail` | result is calculated from calc, calc from base; result may fail | finding: `FailedReleases` is violated |
| `main_thread` | 1 worker, 2 operations, 1 task, 1 line, depth 4, 1 suspension, 1 pending message told apart; fair; 149,555 states | `OpersInOrder`, `TasksAccounted` (with the types), `OpersRun`, `LinesRun`, `TasksRun` |
| `main_flush` | the same | finding: `LinesAreFlushed` is violated |

What the deeper ones say:

- `TicketAccounting`: every ticket that was given out is completed or held by exactly one activation of `DoWork`, also
  when a failure settles the rest in bulk. `JoinComplete`: a Join that returns normally saw every slot executed.
- `OperatorIsLicensed`: an operator runs with its license, its write lock and its arguments. `WaitingHasReason`: a
  context that waits has a supplier, or a thread still has to tell it what became of one. `UniqueRun`: whichever of
  the `task_group`, `s_RadioActives` and a Join comes first, a payload is entered by one frame.
- `CountMatches`: `m_ItemCount` is exactly the readers of an item or minus the contexts that hold its write lock,
  however interest comes and goes meanwhile. `OneProducer`: never two producers, and the one there is can be found.
  `ReadsData`: whoever holds a data read lock has data that nobody writes. `NoOrphanData`: data without interest is
  about to be released.
- `HeldIsWhole`: a tile that was handed out, or that another one is calculated from, was written to the end, whatever
  threw half-way or expired meanwhile; `FillsAlone`: and nobody else writes to it. `RecordsOutliveCalls`: no call works on
  a record or functor that was destroyed, nor, in a worker, on a slot whose owner was left by an exception.
  `CallsEnd` (`DelayedTiles`): mutexes, reader clones and slots are never waited for in a circle. It fails as soon as
  `AwaitRunningSlots` takes slots of others while it waits, which a TODO (`OperationContext.cpp:443`) considers: the
  thread may then meet a mutex that it holds itself.
- `AccountedUntilRace`: the interest count of every actor is the number of pointers, holding actors, supplier lists and
  calls in progress that account for it; nothing leaks and nothing is let go twice, through failures, invalidation,
  rebinding and exceptions half-way a start. `StartsOnMetaUntilRace`: a worker that copies interest it has, or takes it
  where there is some, never finds itself starting interest, which `Actor.cpp:1139` allows on the meta thread only.
  `CallsEnd` (`InterestRaces`): nobody waits forever for the section of an actor.
- `OpersInOrder`: operations are called in the order of posting, one at a time, also when one of them waits and the
  queue is processed from inside its call. `TasksAccounted`: a task is queued, running or finished, once, whatever
  suspends. `OpersRun`, `LinesRun`: no request is lost between blockers, pending flag, message queue and suspension.

Bounds. Two slots, a caller that steals and a worker are what a race for tickets, a failure beside a running slot and
a worker that finds nothing left need; two groups give nesting, stealing from an outer loop and reuse of an address;
three frames allow a slot that owns a group of which it works on a slot. The theorems of section 5 cover any number of
each. For the scheduler, two contexts and two threads race for a license, three give two suppliers or a chain across a
phase; a depth of 3 lets a thread steal inside a Join inside a payload, one of 4 what a container updates Join and run what it needs. In
`sched_join` the constraint `OneView` keeps the reading chain apart from the waiters, which share q and the worker. A
thread at `MaxDepth` does not enter another
frame: where the code would run a context inline it goes on to wait, and where it would steal it goes on as if nothing
was there; the wait for an item and the first step of scheduling are disabled. In `ItemAccess` a second context is
what lost and regained interest needs, and a path of two items is what a partly granted lock needs; the section of the
data item in `sg_ActorLockMap` is free then (that of the root is held), and the theorems cover a root with data. In `DelayedTiles`
one clone makes `acquire` wait, two levels of binary operators make the worker fill a tile with a slot of its own, and
three threads are what a wait in a circle through a slot and a mutex needs. In `InterestCount` base is reached from
result along four routes, so that a count above one, a second look that differs from the first and a call that
recurses into an actor under way all happen; `NotRaced`, a state constraint, ends a behaviour at the first race. The
locks of actors are taken in the order in which actors need each other, so that three actors in a row and two threads
give each kind of wait. In `MainThreadQueues` two operations give an order, a depth of 4 lets the
queue be met again inside the call of an operation, and a second pending message does nothing that the first does not
do. Between them the runs of a module take every action of it. Deadlock checking is off where the system stops because
nobody asks for anything: the scheduler, `ItemAccess` and `MainThreadQueues` (that nobody waits forever is
`JoinReturns`, `ReadEnds`, `OpersRun`, `LinesRun`), and in the interest runs, where the meta thread may come to wait for
itself (observations; `CallsEnd` says that nothing else stops). It is on in `tile` and `tiles`, where a state in which all
is done repeats itself.

Fairness. `TileTaskGroup!FairSpec` assumes that operator code returns: the frame at each depth of a thread makes its
next step if it can do so again and again (strong, since operator code may nest and steal in between). It assumes
nothing of timeouts, nor that an idle worker gets a processor. `OperationScheduler!FairSpec` assumes weak fairness of
each thread: a thread that can go on does, and `wait_for` returns. It does not assume that a view suspends or ends an
update, or that an operator fails. The 500 ms are needed there: `wakeUpJoiners` is called only when the active phase
becomes idle. `ItemAccess!FairSpec`: weak fairness of each context (operators return, and the scheduler activates what
is queued, which is `JoinReturns`) and strong fairness of each read, since a lock that is free again and again is got.
`InterestRaces!FairRSpec`: strong fairness of the calls of each thread, for the same reason; `CallsEnd` is stated for the
absence of a race and of a call made inside `sg_CountSection`. `DelayedTiles!FairSpec`:
weak fairness of the calls of each thread, of which a bounded number is made; no idle worker need take a slot, and
nobody need be cancelled. `MainThreadQueues!FairSpec`: every thread goes on; messages are received in the order of
posting, so that the message to process operations is not overtaken for ever (strong fairness of `HandleMessage`);
waits and bodies end, also if they process the queues again and again before they do; a worker leaves its blocker.

## 4. Findings

1. The assertion that the blocked phase is not before the active phase (`OperationContext.cpp:842`, 1004, 1022,
   1053, 1493) fails when a container is prepared while a later phase is in focus (`sched_fence`).
2. `TreeItem::StopInterest` (`TreeItem.cpp:4407`) reads `mc_RefItem` without the section under which
   `SetReferredItem` swaps it. A worker that lets the last interest in an item go while the meta thread rebinds the
   item lets go of interest that the new item never had, against `assert(m_InterestCount)` (`Actor.cpp:1217`), and
   leaks that of the old one (`interest_rebind`).
3. `Actor::StartSupplInterest` looks whether the actor failed (`Actor.cpp:1341`) and then sets `AF_SupplInterest` (1344)
   under `sc_MoveSupplInterestSection`; `DoFail` sets the failure under `sc_FailSection` (990) and only then looks for
   supplier interest to move out. An actor that another thread makes fail in between keeps interest in its suppliers
   until its own interest stops or it is invalidated, against the assertion at 588 and the comment at 1005
   (`interest_fail`).
4. A result whose interest is lost and regained while its context is active is left to that context by
   `CallCalcResult` (`MoreDataControllers.cpp:437`), while the context finds that it lost its FuncDC and does nothing.
   The reader is called for a result that is neither ready nor failed, against the postcondition at 277-279; the
   `MG_CHECK` at `ItemLocks.cpp:393` then throws out of a constructor and the shared locks stay (`read_stale`). `Lost`
   in `CountMatches` counts these, and `ReadEnds` is stated for their absence.
5. The flush at `main_qt.cpp:385` misses a line that the script posts right after it, and `testResult.get()` waits
   for the script, which waits for its line (`main_flush`).

Observations. TLC finds these violated in the instances named, and no run of their own is kept; those with a name are
stated in the modules:

- `CheckThisHolds` (`tile`): `CheckThis` of debug builds (`OperationContext.cpp:147`) asserts that the completed slots
  add up to `m_NrCompleted`. Slots that are settled in bulk are counted in `m_NrCompleted` only, and
  `registerCompletions` calls `CheckThis` right after.
- `WaitersAreSupplied` (`sched_join`): `separateResources` loops over the suppliers of an ending context but erases
  from its own `m_Waiters` (`OperationContext.cpp:1607`); the reverse edges in the suppliers stay. No wrong result
  follows, since an ended waiter is skipped.
- `DeadlockIsReal` (`item_access`): `lock_shared` reads whether operations run before it enters its section
  (`ItemLocks.cpp:101-107`), so that it may throw "DeadLock" although a context was scheduled in between or waits in
  its queue.
- A call inside `sg_CountSection` (`interest`): `SetReferredItem` lets go of the interest in the new item while it holds
  `sg_CountSection` (`TreeItem.cpp:1118`), which `DecInterestCount` locks again; the meta thread then waits for itself. It
  needs a worker that stops the interest between the two looks of `SetReferredItem`. The comment there ("decrease new
  interest if current interest has been released concurrently") expects such a worker. The `retry` before it is never
  taken, as interest starts on the meta thread only, which is `StartsOnMetaUntilRace`.
- `Unobserved` (`interest`): `DoInvalidate` sees interest (`Actor.cpp:583`), a worker lets the last of it go, and
  `StartSupplInterest` then registers supplier interest for an actor without interest. It stays until interest starts
  again, where `dms_assert(!DoesHaveSupplInterest())` (1167) fails, or until the next invalidation.
- Joins of one phase (the chain q reads b, b reads a, all in phase 1, one worker): a worker that waits for a in b may
  run q inside that wait, which waits for b below it on the same stack and for ever. TLC finds it at depth 5. An
  operator waits so where it asks for the range of a unit (`GetCurrSegmInfo`, `WaitReady`, `Unit.cpp:1053`, and the
  `Join` at `ItemLocks.cpp:96`); which operators do so within one phase is not visible in the scheduler, which has no
  check against it.
- `ObservedOrFailed` (`interest`): an actor with interest may lack supplier interest although it did not fail and no
  call for it is in progress. An invalidation moves the supplier interest out and starts it again, which throws when
  a supplier has failed meanwhile; the actor itself is not marked as failed then.
- Without a definition of its own: `AbstrStreamManager.cpp:95` takes a future tile to "hold on to resource to avoid
  calculating twice". The future of a lazy tile is a `future_caller` (`DataArray.h:338-341`), which keeps the functor
  and no data, so that a lazy tile is calculated again whenever nobody else has it.

Limits rather than findings: with low memory, `s_NrActivatedOrRunningOperations >= s_NrWaitingJoins`
(`OperationContext.cpp:1038`) holds back all activation when the one active operation is itself waiting in a Join, and
nothing proceeds until memory recovers; in `sched_phases` no operator waits in a Join of its own. A task that
suspended is not requested again when the window's own queue is empty (`DmsMainWindow.cpp:100-107`): it goes on at the
next message of any kind, which is why `TasksRun` excludes suspensions. A Join on the main thread goes round without
sleeping while a suspended task is queued (`HasMainThreadTasks`, `OperationContext.cpp:2376`, with the processing of
tasks commented out at 2305). The flush has no `Resume` before it, so that the assertions at `MainThread.cpp:165` and
`DmsMainWindow.cpp:97` may fail there. A message that arrives before the main window exists is dropped
(`main_qt.cpp:276`).

## 5. What is proved

`TileTaskGroup_proofs` proves, for any sets of groups, callers and workers and any number of slots and frames, from
`TileAssumption` alone:

| Theorem | Property |
|---|---|
| `Invariance` | `IInv`, the inductive invariant |
| `TypeCorrect` | `TypeOK` |
| `DestroyIsSafe` | `NoUseAfterDestroy`: threads and registry only refer to live groups |
| `JoinIsComplete` | `JoinComplete`: a Join that returned has seen every slot executed |
| `SlotsAreWorkedOnce` | `SlotOnce`: no slot is executed twice |
| `PoolIsBounded` | `WorkerBound`: the worker count is right and bounded |
| `AwaitCheckHolds` | `AwaitAllCommissioned`: the `MG_CHECK` of `AwaitRunningSlots` never fails |

None of these is inductive by itself. That `m_NrCompleted` reaching `m_Last` means that nobody is in the group any
more, which is what makes the destructor safe, needs the account of each group (`Accounts`: the tickets given out
are those completed plus those outstanding), that each work frame holds an outstanding ticket (`FrameInv`) which
no other frame holds, and that a group has one owner (`FrameUnique`). That `Join` is complete needs that nothing is
lost while the owner has not given up (`NoTicketLost`), since a failure settles tickets that nobody worked on.
`AwaitCheckHolds` needs that an owner in `Join` either works on a slot of its own or saw the last ticket go
(`AwaitInv`): a suspended meta thread would break it, were it not for the `SilentBlocker` in `Join`.

The proof has a lemma per operation on the fields of a group (`TakeTicketAccounts`, `RegisterCompletionAccounts`,
`FailAccounts`, `AbandonAccounts`), lemmas on how a step of one thread changes the stacks (`PushStep`, `PopStep`,
`MoveStep`, `EnterStep`), and one per kind of step that preserves `IInv` (`TakeSlot`, `NextSlot`, `LeaveSlot`,
`OwnerMove`, `EndGroup`, ...), which the proof of `Invariance` applies to the actions of `Next`.

`TileTaskGroup_refinement` proves, from the same assumption:

| Theorem | Property |
|---|---|
| `LoopInvariance` | `LoopInv`, the invariant that the refinement needs |
| `TicketsAreAccounted` | `TicketAccounting`: every ticket given out is completed or held by one activation of `DoWork` |
| `LoopRefinement` | `ImplementsTileLoop`: `TileTaskGroup` implements `TileLoop` |

`IInv` says that every frame holds an outstanding ticket; the mapping needs the converse. `LoopInv` adds to `IInv` that
each outstanding ticket of a group is in the hands of some activation of `DoWork`, and that a group that is gone has
none: then the `busy` of the abstract loop is what the threads are working on, and a loop that ends has nothing in
progress, as `TileLoop` promises. Each action is mapped to a step of one loop or to a stutter (`WorkEffect`,
`GiveUpEffect`, ...); where a failure or a cancellation settles the rest in bulk, the abstract loop gives up (`GiveUp`). `tile`
checks `LoopInv`.

`ItemAccess_proofs` proves, for any tree of items of depth two, any contexts and any finite set of threads, from
`AccessAssumption` alone:

| Theorem | Property |
|---|---|
| `Invariance` | `IInv`, the inductive invariant |
| `TypeCorrect` | `TypeOK` |
| `CountsAreRight` | `CountMatches`: `m_ItemCount` is the readers of the item, or minus its one producer |
| `SingleProducer` | `OneProducer`: never two producers, and the one there is can be found |
| `ReadersSeeData` | `ReadsData`: a data read lock gives data that nobody writes |
| `DataIsCleanedUp` | `NoOrphanData`: data without interest is about to be released |
| `AccessRefinement` | `Implements`: `ItemAccess` implements `DataAccess` |

`AccessAssumption` says that an item is a root or directly below one, that contexts with the same result write the
same item of it, and that the set of workers is finite. The code allows deeper trees and several data items per
result; a read locks the whole path in the same way.

What has to be known in addition to the properties: an item is either free or shared, or it has exactly one producer,
a count of -1 and no reader (`LockInv`); a link or a producer refers to a context that is still alive for that result
(`LinkInv`), which is why a context that expires can be destructed by one thread only (`DestructInv`); the data lock
counts the threads that use the data, or is -1 for its writer (`DataInv`); a result has neither data nor a failure
before its operator has ended (`ContentInv`), since a context is started only where both are absent; and each thread
has, at its place in the call, the locks, the context and the data that the rest of the call relies on (`FramesOK`).
That a reader keeps its data until it is through is the chain from its data lock over its item locks, which exclude
producers, to its interest, which excludes the clean-up. One consequence: the test of `DataWriteLock` for readers
never refuses the operator of a context (`BeginWriteStep`), since its item lock excluded them before.

The proof counts the holders of a lock with lemmas on one frame that changes (`SharingGrows`, `SharingLoses`,
`SharingShrinks`), has lemmas for frames that move on without touching locks or data (`Move`, `MoveOn`), for contexts
that go on (`CtxFrames`), for the end of a write lock (`Unlocked`) and for a context that is gone (`GoneFrames`), and
then one lemma per action, which shows both that `IInv` is preserved and which step of `DataAccess` was taken
(`LockStep`, `OpenStep`, `CallStep`, `EndWriteStep`, `CleanupStep`, ...). `item_access` checks `IInv` as an invariant
too.

`OperationScheduler_proofs` proves, for any finite graph of contexts, any phases, set of workers and depth of nesting,
whether or not the configuration closes or memory runs low, from `SchedulerAssumption` alone:

| Theorem | Property |
|---|---|
| `Invariance` | `IInv`, the inductive invariant |
| `TypeCorrect` | `TypeOK` |
| `CountsAreRight` | `RunCountMatches`: the run count of a phase is the number of its contexts that are activated or running |
| `NothingIsForgotten` | `QueuedMeansScheduled`: what is scheduled is in the queue of its phase, and the queues hold nothing else that was started |
| `LicenseIsUnique` | `UniqueRun`: one frame of one thread is in the payload of a context |
| `OperatorsAreLicensed` | `OperatorIsLicensed`: an operator has its license, its write lock and complete arguments |
| `WaitersHoldStill` | `WaitersAreNotStarted`: a live waiter of a context that has not ended is not started |
| `NobodyWaitsInVain` | `WaitingHasReason`: whoever waits has a supplier, or a deferred call is on its way to it |
| `ResultsAreComplete` | `ResultInv`: a complete result has complete arguments, and a failure has a failed argument as its cause |
| `EndsAreFinal` | `FinalStays`: done, failed and cancelled are final |
| `PhasesAreFenced` | `PhaseFence`: the active phase rises past a phase only when nothing of it is activated or running |

`SchedulerAssumption` says that arguments and waits lead to other contexts in the same phase or an earlier one, that a
container waits for earlier phases only (`PhaseContainer.cpp` blocks its own), and that there are finitely many contexts.

`IInv` has a layer per question, each of which uses the ones before it. `CoreInv`: counts, queues and status agree, and
whatever a thread, a list or a deferred call refers to still exists. `FrameInv`: a context is scheduled or run by at
most one frame, and its status says which; a license is granted from `activated` only, and no frame can be there twice.
`CauseInv`: a context ends in failure because of a failed result, and a live one is cancelled only by closing. `GraphInv`:
an edge of the supplier graph leads from a context that is not started to one that has not ended, and both ends know
it, or the deferred call of an ended supplier is still to come; this is where calls made after the unlock matter.
`LockInv`: what will be run has its payload and write lock, and an argument that somebody owns keeps its lock until it
has a result. `ResultInv` and `PayloadInv` then say where a payload can be and what its arguments are.

An action does much of the same as others do: several routes lead to a license, and several to an end.
`OperationScheduler_steps` shows that each action is one of a few kinds of step (`StepCases`: quiet steps of frames; begin,
connect, queue; activate, license, run, direct run, end; fail, stop, expire, close), with what it does to the stacks
(`PushPlaces`, `PopPlaces`, `SetTopPlaces`); `OperationScheduler_proofs` has, for each kind, a lemma per layer
(`EndCore`, `EndFrameInv`, `EndCauseInv`, `EndGraph`, `EndLock`, `EndResult`, `EndPayload`, ...). TLC has checked `IInv` on
the instances of the scheduler runs; the runs check the properties.

`MainThreadQueues_proofs` proves, for any number of workers, operations, tasks, lines, nested waits and suspensions, from
`QueuesAssumption` alone:

| Theorem | Property |
|---|---|
| `Invariance` | `IInv`, the inductive invariant |
| `TypeCorrect` | `TypeOK` |
| `OperationsAreInOrder` | `OpersInOrder`: operations are called in the order of posting, one at a time |
| `TasksAreAccounted` | `TasksAccounted`: a task is queued, running or finished, and one of these |

`LevelInv` says that `operation_queue::Process` is active once at most, as its level says, however deep the waits are
nested. Without that the order would not hold, since a list of the outer activation would be overtaken by the queue that
an inner one takes. `OrderInv` then places each operation by number: those that were called, those of the local list,
those of the queue. `TaskInv` places each task: in the queue once, or called by one frame, or finished. The steps that
neither call nor queue anything (`CalmKeeps`) are treated together. TLC has checked `IInv` on the instance of
`main_thread`, on one with two tasks, and on one with two tasks, two suspensions and depth 5.

`DelayedTiles_proofs` proves, for any tiles, items, threads, farms and exceptions, from `TilesAssumption` and
`FarmAssumption`:

| Theorem | Property |
|---|---|
| `Invariance` | `IInv`, the inductive invariant |
| `TypeCorrect` | `TypeOK` |
| `DataIsWhole` | `HeldIsWhole`: a tile that was handed out, or that another is calculated from, was written to the end |
| `FillsAreAlone` | `FillsAlone`: one thread writes to a tile, and nobody else has its data |
| `ClonesAreUnique` | `FarmIsSafe`: a thread past the semaphore finds a token, and a clone has one user |
| `RecordsOutlive` | `RecordsOutliveCalls`: a call works on a record that is still referred to, and on no slot that was left |

`TilesAssumption` says that an argument tile is of an item of lower rank, that storage tiles have no arguments, and that
at most one argument of a tile is made asynchronously. Calls are numbered from the outermost one (`Has`), so that a step
of a thread leaves all but its innermost calls as they are. `StackInv` ranks them: a call is for an argument of the one
below it, so that a thread never meets a mutex of its own. `LockInv` says what a tile is by where the thread with its mutex
is, the unwinding of an exception included: it is in there that a half-written lazy tile must be dropped before the mutex
is. `HeldInv`, `SlotInv` and `FarmInv` say the same of pointers, slots and tokens; `FarmAt` relates the semaphore
to the threads between its two steps. The actions are steps of four kinds (`Turn`, `Left`, `Push`, `Still`: a
call goes on, ends, makes a call, or no call changes), with a lemma per kind and part of `IInv` (`LockMove`,
`SlotMove`, `FarmMove`, ...).

`RecordsOutliveCalls` is not a matter of one step: a record is referred to by a future in the specification of a tile
that is itself only kept by a future, up to the tile that somebody asked for. `Supported` shows that a call for a record
without an owner was made by a call for such a record of a higher rank; as ranks end at `MaxLevel`, there is none
(`CallsAlive`, by the least element of a set of natural numbers). TLC has checked `IInv` on the instance of `tiles`
and on one with two reads per thread, two clones and errors only.

`InterestCount_proofs` proves, for any finite set of actors and of workers, any number of pointers, and workers that may
hold interest in any actor, from `InterestAssumption` alone:

| Theorem | Property |
|---|---|
| `Invariance` | `IInvUntilRace`: the inductive invariant `IInv` until a race |
| `InterestAccounted` | `AccountedUntilRace`: a count is the pointers, holders and calls that account for it; nothing leaks, nothing is let go twice |
| `InterestToLetGo` | `DecHasInterestUntilRace`: the assertion at `Actor.cpp:1217` holds |
| `SupplInterestObserved` | `ObservedUntilRace`: supplier interest without interest exists only while interest starts or stops |
| `OnlyMetaStarts` | `StartsOnMetaUntilRace`: no worker comes to start interest |

`InterestAssumption` says that actors and workers are finitely many and that no actor needs itself, by way of units,
parents, suppliers, data controllers and whatever `mc_RefItem` may be set to: the section of an actor in `sg_ActorLockMap`
is not recursive, so that the code could not start interest in such an actor. Nothing is assumed of what workers hold.
"Until a race" is not a way out of the hard cases: rebinding and invalidating race with starts, with other stops, with
failures and with the loss of interest before and after the two windows of `Misread` and `Unobserved`, and the proof has
to show that each of these is harmless. Without the two exceptions the theorems are false: `interest_rebind` is a
behaviour with a `Misread`, and one with an `Unobserved` violates `SupplInterestIsObserved`.

That a count is right is not inductive by itself: when the last interest in an actor goes, `DecInterestCount` walks its
units, its parent, its data controller and the item it refers to, and each call must let go of what `IncInterestCount`
had gained. `StackInv` says what each frame has gained and still owes at each place (`Content`), which calls it may have
made (`Calls`), and that all calls of a thread are for what its first one needs (`Under`), so that no call meets a
section that its own thread holds. `BaseInv`: the calls of a worker let go, fail, or copy what it has. `LockInv`: the
section of an actor has one holder, and while its interest starts or stops the count is zero; only the meta thread could
change that, and it is the one that holds the section when interest starts. `SeenInv`: what `SetReferredItem` and
`InvalidateAt` saw of an item may have changed in one direction only when they come back to it, since a worker can end
interest but not start it. `SectionInv`: `sg_CountSection` is kept over a call only by `SetReferredItem`, at a call that
never gets it, so that no later step depends on it.

`Accounted` sums over threads, frames and holders. Facts about sums seem to need induction over data; here `SumIsCount`
shows that a sum of natural numbers is the cardinality of a set of pairs, by the least size of a set for which it would
not be, and facts about finite sets give the rest (`SumChange`, `SumExtend`). `Balance` then reduces a step to one
equation between what the frame owed, what it owes now and what the actor holds; `Stay`, `CallOn`, `ReturnTo`, `EnterOne`
and `Leave` are the ways a stack changes. Each action has its lemma (`IncFinishStep`, `DecUnlockStep`, ...), those that
return or throw by way of `GainStep`, `EndStep` and `ThrowStep`. The run `interest` checks what the theorems state, and
TLC has checked `IInvUntilRace` on its instance.

Model-checked only:

- The liveness properties (`GroupEnds`, `JoinReturns`, `CallsEnd`, `ReadEnds`, `OpersRun`, `LinesRun`, `TasksRun`):
  liveness under fairness is out of the prover's reach.
- What happens to interest after a race of `InterestRaces`: the theorems say nothing of it.

## 6. What is not modelled

- `OperationScheduler`: contexts that carry a raw task function (item writers, data read tasks) and explain contexts;
  `DoWorkWhileWaitingFor`; the shutdown of the `task_group`; the body of `HasMainThreadTasks` (a Join on the meta
  thread may go round once more at any time); tile stealing inside a Join (it is in `TileTaskGroup`). A second context
  for a FuncDC whose interest was lost and regained is in `ItemAccess`.
- The cancelling of an operator that lost interest while `cs_ThreadMessing` is held by `getUniqueLicenseToRun`,
  and destruction of a last reference inside a critical section: they need a model of who owns the lock.
- `ItemAccess`: the `try_` variants of the locks, write locks without a producer (`PaletteControl.cpp:75`,
  `ShvUtils.cpp:733`, `Theme.cpp:482`), data that is kept by keep flags or because it is small, `s_SessionUsageCounter`,
  and the locks of all arguments of an operator at once. The wait of `lock_unique` is a guard of `Call`. The slow
  path of the destructor of `DataReadLockAtom` cannot be reached below an `ItemReadLock`, which holds interest. An
  operator commits or fails: one that commits and then throws, so that the result has data and a failure, is left out,
  with the reset of the data object of a failed item that it makes (`ItemLocks.cpp:511-519`); a failure is never cleared
  by an invalidation. `lock_unique` as a guard means that the meta thread, which would block there after a lost lock,
  does something else in the model.
- `InterestCount`: `mc_DC` and the set of suppliers do not change (`SetDC`, the end of `UpdateMetaInfo`); the storage
  manager's own `StartInterest` and `StopInterest` (`TreeItem.cpp:4372-4378`, 4395-4398), `s_SessionUsageCounter` and what
  `TryCleanupMem` releases; a failure of kind `Validate` or `Committed`, which keeps supplier interest.
- `DelayedTiles`: tile arrays in memory and in files and `TileChannel`, which store values; writable tiles of data that
  is calculated at once; the other callers of `throttled_async` (`Unique.cpp`, `OperAccUni*.h`, `ValuesTable.h`), which
  divide a range among several slots as `TileTaskGroup` does; one tile as both arguments of a binary operator
  (`OperAttrBin.h:129`), since the arguments are a set; the interest that keeps data objects (any item in
  `MayDrop` may lose its own).
- `MainThreadQueues`: a blocker of the main thread itself (it holds up messages only), several phases of tasks (every
  caller posts with phase 0), `SendMainThreadOper` on the main thread (a direct call). Each body waits at most once.
  That a message is posted again when the last one is 5 seconds old is a free choice. A nonzero result of the message loop
  skips the flush (`main_qt.cpp:385`); the model has the result zero.
- `Actor`: progress, the kinds of failure, `DetermineState`, and the time stamps of `UpdateMarker`.
- Two workers in one instance of `TileTaskGroup` or of the scheduler: too many states for a run of minutes.
- The other parts of section 1: they are data, text, files or drawing, and mostly sequential; an operator is the step
  that completes or fails its result. `PROJECT.json` names each with its reason.

## 7. Plan

1. `TileTaskGroup` with `TileLoop`: model, run and proofs done, the refinement included.
2. `OperationScheduler`: model, runs and proofs of its safety done. Left: an abstract task graph (a context runs once,
   after its suppliers, and ends once) that it implements; `IInv` has what the mapping would need.
3. `ItemAccess` with `DataAccess`: model, runs and proofs done, the refinement included. Left: the read locks of all
   arguments of an operator.
4. `DelayedTiles` with `ReaderFarm`: model, run and proofs of its safety done.
5. `InterestCount` with `InterestRaces`: model, runs and proofs of its safety done. Left: what holds without the exception
   of `Misread` once `StopInterest` reads `mc_RefItem` under `sg_CountSection` (finding 2), and of `Unobserved` once
   `DoInvalidate` looks again.
6. `MainThreadQueues`: model, runs and proofs of its safety done.
7. `ActorState`: failure kinds, progress and invalidation; the time slices of `SuspendTrigger`.
