---------------------------- MODULE DelayedTiles ----------------------------
(*****************************************************************************)
(* Tiles that are calculated when they are asked for                         *)
(* (tic/dll/src/TileFunctorImpl.h, DataArray.h), read by several threads.    *)
(*                                                                           *)
(* The tiles of a FutureTileFunctor are tile_records: a mutex and a state,   *)
(* which is a specification (the futures of the argument tiles) and becomes  *)
(* the data of the tile for good.  A LazyTileFunctor has a mutex and a weak  *)
(* pointer per tile: the data is calculated again when nobody held on to it. *)
(* Tiles of a Source are lazy tiles that are read from a storage through a   *)
(* ReaderFarm.                                                               *)
(*                                                                           *)
(* A thread that reads a tile is a stack of GetTile calls, since to fill a   *)
(* tile is to get the tiles of its arguments, with the mutex held.  Binary   *)
(* operators (clc/dll/include/OperAttrBin.h) get the first of them by        *)
(* throttled_async: in the only slot of a tile_task_group, which a worker of *)
(* the pool takes or else the owner in Join.                                 *)
(*****************************************************************************)
EXTENDS ReaderFarm

CONSTANTS
    Tile,     \* the tiles of all items
    Item,     \* the data items
    ItemOf,   \* the item of each tile
    Arg,      \* the argument tiles of each tile
    Async,    \* the argument tile that a binary operator gets by throttled_async
    Level,    \* the rank of each item in the order of calculation
    MaxLevel, \* the highest rank
    Lazy,     \* the items whose data object is a LazyTileFunctor
    Worker,   \* the threads that run slots of tile_task_groups
    Throws,   \* what may be thrown: "error", or "cancel" for a task_canceled
    Asked,    \* the tiles that each reader asks for
    MayDrop,  \* the items that may lose their data object
    MaxReads, \* bound on the reads of each reader
    NoThread, NoTile

ASSUME TilesAssumption ==
    /\ ItemOf \in [Tile -> Item] /\ MaxLevel \in Nat /\ Level \in [Item -> 0 .. MaxLevel]
    /\ Arg \in [Tile -> SUBSET Tile]
    /\ \A n \in Tile : \A a \in Arg[n] : Level[ItemOf[a]] < Level[ItemOf[n]]
    /\ Source \subseteq Lazy /\ Lazy \subseteq Item
    /\ \A n \in Tile : ItemOf[n] \in Source => Arg[n] = {}
    /\ Async \in [Tile -> SUBSET Tile]
    /\ \A n \in Tile : Async[n] \subseteq Arg[n] /\ \A a, b \in Async[n] : a = b
    /\ Worker \subseteq Thread /\ Throws \subseteq {"error", "cancel"} /\ MaxReads \in Nat
    /\ Asked \in [Thread \ Worker -> SUBSET Tile] /\ MayDrop \subseteq Item
    /\ NoThread \notin Thread /\ NoTile \notin Tile

VARIABLES
    tile,    \* "none", "raw": being written to, or "whole"
    spec,    \* the futures of argument tiles in the state of a tile_record, or in
             \* the preparedStates of a lazy functor
    mutex,   \* the thread that has m_Mutex of the tile
    stack,   \* the GetTile calls of each thread, the innermost one first
    exc,     \* the exception that each thread is unwinding for
    task,    \* the slot of the tile_task_group made to fill each tile
    reader,  \* what each thread wants of which tile
    nrReads,
    object,  \* the items that have their data object
    failed   \* the items that have failed with FailType::Data

readVars == <<reader, nrReads>>
vars == <<tile, spec, mutex, stack, exc, task, reader, nrReads, object, failed, farmVars>>

Place == {"check", "lock", "fill", "pop", "read", "push", "post", "leave",
          "unwind", "unlock", "catch"}

\* A call is for the caller below it, or is the work of the slot of a tile.
Frame == [tile : Tile, pc : Place, got : SUBSET Tile, slot : Tile \cup {NoTile}]

\* A thread is idle, has a future tile, is calling GetTile of a functor or of
\* that future tile, or keeps the tile that the call returned.
Reading == [pc : {"future", "calling", "keeping"}, tile : Tile, by : {"functor", "future"}]
Idle == [pc |-> "idle"]

TypeOK ==
    /\ tile \in [Tile -> {"none", "raw", "whole"}]
    /\ spec \in [Tile -> SUBSET Tile]
    /\ mutex \in [Tile -> Thread \cup {NoThread}]
    /\ stack \in [Thread -> Seq(Frame)] /\ exc \in [Thread -> Throws \cup {"none"}]
    /\ task \in [Tile -> {"none", "open", "busy", "done"} \cup Throws]
    /\ reader \in [Thread -> Reading \cup {Idle}] /\ nrReads \in [Thread -> 0 .. MaxReads]
    /\ object \subseteq Item /\ failed \subseteq Item
    /\ countdown \in [Source -> 0 .. NrTokens]
    /\ tokens \in [Source -> Seq(Clone)]
    /\ token \in [Thread -> Clone \cup {NoToken}]

IsLazy(n) == ItemOf[n] \in Lazy
Frames(t) == {stack[t][d] : d \in 1 .. Len(stack[t])}
Top(t) == Head(stack[t])
At(t, p) == stack[t] # <<>> /\ Top(t).pc = p
Goto(t, p) == stack' = [stack EXCEPT ![t] = <<[Head(@) EXCEPT !.pc = p]>> \o Tail(@)]

\* GetTile of a functor checks for a failure; that of a tile_record does not.
Entry(n, by) == IF by = "functor" \/ IsLazy(n) THEN "check" ELSE "lock"
Called(n, by) == [tile |-> n, pc |-> Entry(n, by), got |-> {}, slot |-> NoTile]

\* Mutant: tileSPtr is declared before the lock and outlives it.
OwningLonger == {"fill", "pop", "read", "push", "post", "leave", "unlock", "catch"}

\* The places where the local tileSPtr of a call owns the data of a lazy tile.
Owning == {"fill", "pop", "read", "push", "post", "leave"}

\* Somebody has a shared pointer to the data of a tile.
Held(n) ==
    \/ \E p \in Tile : task[p] = "done" /\ n \in Async[p]
    \/ \E t \in Thread :
        \/ reader[t].pc = "keeping" /\ reader[t].tile = n
        \/ \E f \in Frames(t) : n \in f.got \/ (f.tile = n /\ f.pc \in Owning)

\* The data of a lazy tile goes with the last shared pointer to it.
Expire(tiles) ==
    tile' = [n \in Tile |-> IF IsLazy(n) /\ ~Held(n)' THEN "none" ELSE tiles[n]]

\* A call returns its tile, which its caller owns from then on, or which is
\* the result of its slot ...
Return(t) ==
    LET call == Top(t)
        rest == Tail(stack[t])
        Leaving(calls) == stack' = [stack EXCEPT ![t] = calls]
    IN  \/ /\ call.slot # NoTile
           /\ Leaving(rest) /\ task' = [task EXCEPT ![call.slot] = "done"]
           /\ UNCHANGED reader
        \/ /\ call.slot = NoTile /\ rest # <<>>
           /\ Leaving(<<[Head(rest) EXCEPT !.got = @ \cup {call.tile}]>> \o Tail(rest))
           /\ UNCHANGED <<task, reader>>
        \/ /\ call.slot = NoTile /\ rest = <<>>
           /\ Leaving(<<>>) /\ reader' = [reader EXCEPT ![t].pc = "keeping"]
           /\ UNCHANGED task

\* ... or throws: DoWork keeps the exception for Join; a caller that was filling
\* a tile unwinds.
Throw(t, e) ==
    LET call == Top(t)
        rest == Tail(stack[t])
        Leaving(calls, kind) == /\ stack' = [stack EXCEPT ![t] = calls]
                                /\ exc' = [exc EXCEPT ![t] = kind]
    IN  \/ /\ call.slot # NoTile
           /\ Leaving(rest, "none") /\ task' = [task EXCEPT ![call.slot] = e]
           /\ UNCHANGED reader
        \/ /\ call.slot = NoTile /\ rest # <<>>
           /\ Leaving(<<[Head(rest) EXCEPT !.pc = "unwind"]>> \o Tail(rest), e)
           /\ UNCHANGED <<task, reader>>
        \/ /\ call.slot = NoTile /\ rest = <<>>
           /\ Leaving(<<>>, "none") /\ reader' = [reader EXCEPT ![t] = Idle]
           /\ UNCHANGED task

\* The apply function of the innermost call throws.
ApplyThrows(t, e) == Goto(t, "unwind") /\ exc' = [exc EXCEPT ![t] = e]
-----------------------------------------------------------------------------
Init ==
    /\ FarmInit
    /\ tile = [n \in Tile |-> "none"]
    /\ spec = Arg
    /\ mutex = [n \in Tile |-> NoThread]
    /\ stack = [t \in Thread |-> <<>>]
    /\ exc = [t \in Thread |-> "none"]
    /\ task = [n \in Tile |-> "none"]
    /\ reader = [t \in Thread |-> Idle]
    /\ nrReads = [t \in Thread |-> 0]
    /\ object = Item
    /\ failed = {}

\* A reader that has the data of an item locked calls GetTile of its functor.
ReadTile(t, n) ==
    /\ reader[t].pc = "idle" /\ nrReads[t] < MaxReads
    /\ ItemOf[n] \in object
    /\ nrReads' = [nrReads EXCEPT ![t] = @ + 1]
    /\ reader' = [reader EXCEPT ![t] = [pc |-> "calling", tile |-> n, by |-> "functor"]]
    /\ stack' = [stack EXCEPT ![t] = <<Called(n, "functor")>>]
    /\ UNCHANGED <<tile, spec, mutex, exc, task, object, failed, farmVars>>

\* GetFutureTile: the tile_record itself, or a future_caller for the lazy functor.
TakeFuture(t, n) ==
    /\ reader[t].pc = "idle" /\ nrReads[t] < MaxReads
    /\ ItemOf[n] \in object
    /\ nrReads' = [nrReads EXCEPT ![t] = @ + 1]
    /\ reader' = [reader EXCEPT ![t] = [pc |-> "future", tile |-> n, by |-> "future"]]
    /\ UNCHANGED <<tile, spec, mutex, stack, exc, task, object, failed, farmVars>>

\* Later, maybe when the item has lost its data object, the future is called.
ReadFuture(t) ==
    /\ reader[t].pc = "future"
    /\ reader' = [reader EXCEPT ![t].pc = "calling"]
    /\ stack' = [stack EXCEPT ![t] = <<Called(reader[t].tile, "future")>>]
    /\ UNCHANGED <<tile, spec, mutex, exc, task, nrReads, object, failed, farmVars>>

\* The reader lets go of the tile, and of the future that it had.
Release(t) ==
    /\ reader[t].pc = "keeping"
    /\ reader' = [reader EXCEPT ![t] = Idle]
    /\ UNCHANGED <<stack, exc, task>>
    /\ Expire(tile)
    /\ UNCHANGED <<spec, mutex, nrReads, object, failed, farmVars>>

\* An item loses its data object; a reader of the functor has it locked.
DropObject(i) ==
    /\ i \in MayDrop \cap object
    /\ \A t \in Thread :
           reader[t].pc = "calling" /\ reader[t].by = "functor" => ItemOf[reader[t].tile] # i
    /\ object' = object \ {i}
    /\ UNCHANGED <<tile, spec, mutex, stack, exc, task, readVars, failed, farmVars>>
-----------------------------------------------------------------------------
\* WasFailed(FailType::Data), before the try block.
Check(t) ==
    /\ At(t, "check")
    /\ IF ItemOf[Top(t).tile] \in failed
       THEN Throw(t, "error")
       ELSE Goto(t, "lock") /\ UNCHANGED <<exc, task, reader>>
    /\ UNCHANGED <<tile, spec, mutex, nrReads, object, failed, farmVars>>

\* What GetTile does when it has the mutex: if there is no data the calculation
\* starts, for a lazy tile after its weak pointer was set.  A binary operator first
\* looks whether its item has failed.
Begin(t) ==
    LET n == Top(t).tile
    IN  IF tile[n] = "none"
        THEN /\ tile' = [tile EXCEPT ![n] = IF IsLazy(n) THEN "raw" ELSE @]
             /\ IF Async[n] # {} /\ ItemOf[n] \in failed
                THEN ApplyThrows(t, "error")
                ELSE Goto(t, "fill") /\ UNCHANGED exc
        ELSE Goto(t, "leave") /\ UNCHANGED <<tile, exc>>

\* Mutant: the tile is entered without its mutex.
EnterUnlocked(t) ==
    /\ At(t, "lock")
    /\ Begin(t)
    /\ UNCHANGED <<spec, mutex, task, readVars, object, failed, farmVars>>

\* The mutex is locked.
Enter(t) ==
    LET n == Top(t).tile
    IN  /\ At(t, "lock") /\ mutex[n] = NoThread
        /\ mutex' = [mutex EXCEPT ![n] = t]
        /\ Begin(t)
        /\ UNCHANGED <<spec, task, readVars, object, failed, farmVars>>

\* The apply function gets the tile of an argument through its future: the first
\* one of a binary operator at once when RAM is low, the other one after that.
GetArg(t, a) ==
    LET n == Top(t).tile
    IN  /\ At(t, "fill") /\ a \in Arg[n] \ Top(t).got
        /\ \/ a \in Async[n] /\ task[n] = "none"
           \/ a \notin Async[n] /\ (task[n] = "none" => Async[n] \subseteq Top(t).got)
        /\ stack' = [stack EXCEPT ![t] = <<Called(a, "future")>> \o @]
        /\ UNCHANGED <<tile, spec, mutex, exc, task, readVars, object, failed, farmVars>>

\* Or throttled_async registers a tile_task_group for it.
Fork(t) ==
    LET n == Top(t).tile
    IN  /\ At(t, "fill") /\ task[n] = "none" /\ ~(Async[n] \subseteq Top(t).got)
        /\ task' = [task EXCEPT ![n] = "open"]
        /\ UNCHANGED <<tile, spec, mutex, stack, exc, readVars, object, failed, farmVars>>

\* A thread has the other arguments and calls futureTileA->get().
Joining(t) == At(t, "fill") /\ Top(t).got = Arg[Top(t).tile] \ Async[Top(t).tile]

\* DoWork of the slot of tile n, unless the checks in it throw.
DoWork(t, n) ==
    /\ task[n] = "open"
    /\ \/ /\ task' = [task EXCEPT ![n] = "busy"]
          /\ \E a \in Async[n] :
                 stack' = [stack EXCEPT ![t] =
                     <<[Called(a, "future") EXCEPT !.slot = n]>> \o @]
       \/ /\ "cancel" \in Throws
          /\ task' = [task EXCEPT ![n] = "cancel"]
          /\ UNCHANGED stack
    /\ UNCHANGED <<tile, spec, mutex, exc, readVars, object, failed, farmVars>>

\* An idle worker takes the slot of a tile.
TakeSlot(t, n) == t \in Worker /\ stack[t] = <<>> /\ DoWork(t, n)

\* Mutant: AwaitRunningSlots steals the slots of other tiles, as its TODO considers.
JoinSlotStealing(t) ==
    /\ Joining(t)
    /\ \/ DoWork(t, Top(t).tile)
       \/ task[Top(t).tile] = "busy" /\ \E n \in Tile : DoWork(t, n)

\* Join takes the slot itself when no worker has.
JoinSlot(t) == Joining(t) /\ DoWork(t, Top(t).tile)

\* Join has waited for the slot, and get() returns its result or throws on.
JoinEnd(t) ==
    LET n == Top(t).tile
    IN  /\ Joining(t)
        /\ \/ /\ task[n] = "done"
              /\ task' = [task EXCEPT ![n] = "none"]
              /\ stack' = [stack EXCEPT ![t] =
                     <<[Head(@) EXCEPT !.got = Arg[n]]>> \o Tail(@)]
              /\ UNCHANGED exc
           \/ /\ task[n] \in Throws
              /\ task' = [task EXCEPT ![n] = "none"]
              /\ ApplyThrows(t, task[n])
        /\ UNCHANGED <<tile, spec, mutex, readVars, object, failed, farmVars>>

\* The wait itself may throw a task_canceled.
JoinCancelled(t) ==
    /\ Joining(t) /\ task[Top(t).tile] = "busy" /\ "cancel" \in Throws
    /\ ApplyThrows(t, "cancel")
    /\ UNCHANGED <<tile, spec, mutex, task, readVars, object, failed, farmVars>>

\* It has written the whole tile, lets go of the argument tiles and, in a
\* tile_record, the data takes the place of the specification.
Fill(t) ==
    LET n == Top(t).tile
    IN  /\ At(t, "fill") /\ Top(t).got = Arg[n] /\ ItemOf[n] \notin Source
        /\ stack' = [stack EXCEPT ![t] =
               <<[Head(@) EXCEPT !.pc = "leave", !.got = {}]>> \o Tail(@)]
        /\ UNCHANGED <<exc, task, reader>>
        /\ spec' = [spec EXCEPT ![n] = IF IsLazy(n) THEN @ ELSE {}]
        /\ Expire([tile EXCEPT ![n] = "whole"])
        /\ UNCHANGED <<mutex, nrReads, object, failed, farmVars>>

\* It throws half-way.
FillThrows(t) ==
    /\ "error" \in Throws /\ At(t, "fill") /\ Top(t).got = Arg[Top(t).tile]
    /\ ItemOf[Top(t).tile] \notin Source
    /\ ApplyThrows(t, "error")
    /\ UNCHANGED <<tile, spec, mutex, task, readVars, object, failed, farmVars>>
-----------------------------------------------------------------------------
(* The tile generator of AbstrDataItem::DoReadItem.                         *)

Acquire(t) ==
    /\ At(t, "fill") /\ ItemOf[Top(t).tile] \in Source
    /\ Countdown(ItemOf[Top(t).tile])
    /\ Goto(t, "pop")
    /\ UNCHANGED <<tile, spec, mutex, exc, task, readVars, object, failed>>

PopToken(t) ==
    /\ At(t, "pop")
    /\ TakeToken(t, ItemOf[Top(t).tile])
    /\ Goto(t, "read")
    /\ UNCHANGED <<tile, spec, mutex, exc, task, readVars, object, failed>>

\* The clone of the token, made if need be, reads the tile; either may throw.
ReadDataItem(t) ==
    /\ At(t, "read")
    /\ \/ /\ tile' = [tile EXCEPT ![Top(t).tile] = "whole"]
          /\ UNCHANGED exc
       \/ /\ "error" \in Throws
          /\ exc' = [exc EXCEPT ![t] = "error"]
          /\ UNCHANGED tile
    /\ Goto(t, "push")
    /\ UNCHANGED <<spec, mutex, task, readVars, object, failed, farmVars>>

\* returnTokenOnExit, also when the read has thrown.
PushToken(t) ==
    /\ At(t, "push")
    /\ GiveToken(t, ItemOf[Top(t).tile])
    /\ Goto(t, "post")
    /\ UNCHANGED <<tile, spec, mutex, exc, task, readVars, object, failed>>

PostToken(t) ==
    /\ At(t, "post")
    /\ CountUp(ItemOf[Top(t).tile])
    /\ Goto(t, IF exc[t] = "none" THEN "leave" ELSE "unwind")
    /\ UNCHANGED <<tile, spec, mutex, exc, task, readVars, object, failed>>
-----------------------------------------------------------------------------
\* GetTile returns a pointer to the data and unlocks the mutex.
Leave(t) ==
    /\ At(t, "leave")
    /\ mutex' = [mutex EXCEPT ![Top(t).tile] = NoThread]
    /\ Return(t)
    /\ UNCHANGED <<tile, spec, exc, nrReads, object, failed, farmVars>>

\* An exception destroys the argument tiles and futureTileA, of which an open slot
\* is withdrawn; a binary operator records an error in its item; tileSPtr ...
Unwound(t) ==
    LET n == Top(t).tile
    IN  /\ stack' = [stack EXCEPT ![t] =
               <<[Head(@) EXCEPT !.pc = "unlock", !.got = {}]>> \o Tail(@)]
        /\ UNCHANGED <<exc, reader>>
        /\ task' = [task EXCEPT ![n] = IF @ = "busy" THEN @ ELSE "none"]
        /\ failed' = IF Async[n] # {} /\ exc[t] = "error"
                     THEN failed \cup {ItemOf[n]} ELSE failed
        /\ Expire(tile)
        /\ UNCHANGED <<spec, mutex, nrReads, object, farmVars>>

\* Mutant: the destructor of the tile_task_group does not wait for its slot.
UnwindAtOnce(t) == At(t, "unwind") /\ Unwound(t)

\* ~tile_task_group waits for a slot that a worker has.
Unwind(t) == At(t, "unwind") /\ task[Top(t).tile] # "busy" /\ Unwound(t)

\* ... then the lock, which was declared before them ...
Unlock(t) ==
    /\ At(t, "unlock")
    /\ mutex' = [mutex EXCEPT ![Top(t).tile] = NoThread]
    /\ Goto(t, "catch")
    /\ UNCHANGED <<tile, spec, exc, task, readVars, object, failed, farmVars>>

\* ... and the functor records an error, not a cancellation, in its item and throws on.
Catch(t) ==
    LET n == Top(t).tile
        byFunctor == \/ IsLazy(n)
                     \/ t \notin Worker /\ Len(stack[t]) = 1 /\ reader[t].by = "functor"
    IN  /\ At(t, "catch")
        /\ failed' = IF byFunctor /\ exc[t] = "error" THEN failed \cup {ItemOf[n]} ELSE failed
        /\ Throw(t, exc[t])
        /\ UNCHANGED <<tile, spec, mutex, nrReads, object, farmVars>>

\* All readers have had their reads, or the items lost their data, and hold nothing.
Finished ==
    /\ \A t \in Thread : stack[t] = <<>>
    /\ \A t \in Thread \ Worker :
           reader[t] = Idle /\ (nrReads[t] = MaxReads \/ \A n \in Asked[t] : ItemOf[n] \notin object)
    /\ UNCHANGED vars
-----------------------------------------------------------------------------
GetTile(t) ==
    \/ Check(t) \/ Enter(t) \/ \E a \in Tile : GetArg(t, a)
    \/ Fork(t) \/ JoinSlot(t) \/ JoinEnd(t)
    \/ Fill(t) \/ FillThrows(t)
    \/ Acquire(t) \/ PopToken(t) \/ ReadDataItem(t) \/ PushToken(t) \/ PostToken(t)
    \/ Leave(t) \/ Unwind(t) \/ Unlock(t) \/ Catch(t)

Next ==
    \/ \E t \in Thread : \/ GetTile(t) \/ JoinCancelled(t) \/ ReadFuture(t) \/ Release(t)
                         \/ \E n \in Tile : TakeSlot(t, n)
    \/ \E t \in Thread \ Worker : \E n \in Asked[t] : ReadTile(t, n) \/ TakeFuture(t, n)
    \/ \E i \in Item : DropObject(i)
    \/ Finished

Spec == Init /\ [][Next]_vars

\* The threads of the program run on, but nobody need be cancelled or idle workers be
\* there.
FairSpec == Spec /\ \A t \in Thread : WF_vars(GetTile(t))
-----------------------------------------------------------------------------
(* Properties.                                                              *)

\* Data that a reader has, or that a tile is calculated from, is complete: not
\* even a calculation that threw half-way, or the expiry of a weak pointer,
\* hands a tile out that was not written to the end.  The variables have their types.
HeldIsWhole ==
    /\ TypeOK
    /\ \A p \in Tile : task[p] = "done" => \A a \in Async[p] : tile[a] = "whole"
    /\ \A t \in Thread :
           /\ reader[t].pc = "keeping" => tile[reader[t].tile] = "whole"
           /\ \A f \in Frames(t) : \A a \in f.got : tile[a] = "whole"

Filling == {"fill", "pop", "read"}

\* A tile is written to by one thread at a time and never while others have its
\* data, and a lazy tile has its data by then, as GetWritableTile asserts.
FillsAlone ==
    \A t \in Thread : \A f \in Frames(t) :
        f.pc \in Filling =>
            /\ tile[f.tile] = IF IsLazy(f.tile) THEN "raw" ELSE "none"
            /\ \A u \in Thread \ {t} : \A g \in Frames(u) :
                   g.pc \in Filling => g.tile # f.tile

\* A thread that was let through by the semaphore finds a token, and a clone of a
\* storage manager is used by one thread at a time, also after a read has thrown.
FarmIsSafe ==
    /\ \A t \in Thread : At(t, "pop") => tokens[ItemOf[Top(t).tile]] # <<>>
    /\ \A t, u \in Thread :
           t # u /\ At(t, "read") /\ At(u, "read") /\ ItemOf[Top(t).tile] = ItemOf[Top(u).tile]
           => token[t] # token[u]

\* A thread has a shared pointer to the tile_record, or to the lazy functor.
Referred(n) ==
    \E t \in Thread :
        \/ reader[t].pc # "idle" /\ reader[t].tile = n
           /\ (reader[t].by = "future" \/ (reader[t].pc = "keeping" /\ ~IsLazy(n)))
        \/ ~IsLazy(n) /\ \E f \in Frames(t) : n \in f.got
        \/ ~IsLazy(n) /\ \E p \in Tile : task[p] = "done" /\ n \in Async[p]

\* The tiles that share the object of a tile: a tile_record, or the functor of a lazy item.
Same(n) == IF IsLazy(n) THEN {m \in Tile : ItemOf[m] = ItemOf[n]} ELSE {n}

\* A set has every tile that a data object, a thread or the specification of a tile in the
\* set refers to.
Reached(S) ==
    \A n \in Tile :
        \/ ItemOf[n] \in object
        \/ \E m \in Same(n) : Referred(m)
        \/ \E p \in S : spec[p] \cap Same(n) # {}
        => n \in S

\* A tile_record, or the functor of a lazy item, that was not destroyed.
Alive(n) == \A S \in SUBSET Tile : Reached(S) => n \in S

\* The call that made the tile_task_group of a slot, with its futures and its room
\* for the result, is still there.
Owned(n) ==
    \E t \in Thread : \E f \in Frames(t) : f.tile = n /\ f.pc \in {"fill", "unwind"}

\* A call of GetTile never works on a record or functor that was destroyed, though
\* items lose their data objects while tiles are calculated, nor in the slot of a
\* call that was left by an exception.
RecordsOutliveCalls ==
    \A t \in Thread : \A f \in Frames(t) :
        Alive(f.tile) /\ (f.slot # NoTile => Owned(f.slot))

\* Every call of GetTile returns or throws, so that of the few calls there are none is
\* under way in the end: the mutexes of tiles are taken in the order of calculation,
\* a thread with a token takes no other mutex, and who waits for a slot, or unwinds
\* with one, waits for a call of an earlier tile.
CallsEnd == <>[](\A t \in Thread \ Worker : reader[t].pc # "calling")
-----------------------------------------------------------------------------
(* The inductive invariant.                                                  *)

Height(t) == Len(stack[t])

\* The calls of a thread from the outermost one, which is at 1, to the innermost one.
Call(t, h) == stack[t][Height(t) + 1 - h]

Rank(n) == Level[ItemOf[n]]

Holding == {"fill", "pop", "read", "push", "post", "leave", "unwind", "unlock"}
Unwinding == {"unwind", "unlock", "catch"}
InFarm == {"pop", "read", "push", "post"}

\* A call that is not the innermost one fills its tile: the next one is for an argument or
\* runs its slot.  The outermost one is what the reader wants, or the slot that a worker took.
StackInv ==
    /\ \A t \in Thread : \A h \in 1 .. Height(t) :
        LET f == Call(t, h)
        IN  /\ f.got \subseteq Arg[f.tile] /\ (f.got # {} => f.pc \in {"fill", "unwind"})
            /\ h < Height(t) => f.pc = "fill"
            /\ \A g \in 1 .. h - 1 : Rank(f.tile) < Rank(Call(t, g).tile)
            /\ h > 1 => f.tile \in Arg[Call(t, h - 1).tile]
            /\ f.pc \in InFarm => ItemOf[f.tile] \in Source
            /\ h = 1 => IF t \in Worker THEN f.slot # NoTile
                        ELSE f.slot = NoTile /\ reader[t].pc = "calling" /\ reader[t].tile = f.tile
    /\ \A t \in Worker : reader[t] = Idle
    /\ \A t \in Thread : reader[t].pc = "calling" /\ reader[t].by = "functor" =>
           ItemOf[reader[t].tile] \in object
    /\ \A t \in Thread : reader[t].pc = "future" => reader[t].by = "future"

\* A thread unwinds for an exception, and while it returns its token.
ExcInv ==
    /\ \A t \in Thread :
        /\ exc[t] # "none" => \E p \in Unwinding \cup {"push", "post"} : At(t, p)
        /\ \A p \in Unwinding : At(t, p) => exc[t] # "none"
    /\ failed # {} => "error" \in Throws

\* What a tile is while a thread has its mutex, by where that thread is.
LockInv ==
    /\ \A t \in Thread : \A h \in 1 .. Height(t) :
        LET f == Call(t, h)
        IN  /\ f.pc \in Holding => mutex[f.tile] = t
            /\ f.pc \in Filling => tile[f.tile] = IF IsLazy(f.tile) THEN "raw" ELSE "none"
            /\ f.pc \in {"push", "post"} => tile[f.tile] = IF exc[t] = "none" THEN "whole" ELSE "raw"
            /\ f.pc = "leave" => tile[f.tile] = "whole"
            /\ f.pc \in {"unwind", "unlock"} => tile[f.tile] # "whole"
    /\ \A n \in Tile :
        /\ tile[n] = "raw" => IsLazy(n) /\ \E t \in Thread : \E f \in Frames(t) :
               f.tile = n /\ f.pc \in {"fill", "pop", "read", "push", "post", "unwind"}
        /\ spec[n] = Arg[n] \/ (tile[n] = "whole" /\ ~IsLazy(n))

\* Data that somebody has a shared pointer to.
HeldInv ==
    /\ \A p \in Tile : task[p] = "done" => \A a \in Async[p] : tile[a] = "whole"
    /\ \A t \in Thread :
           /\ reader[t].pc = "keeping" => tile[reader[t].tile] = "whole"
           /\ \A f \in Frames(t) : \A a \in f.got : tile[a] = "whole"

\* A slot is run by one call; its tile_task_group is of a call that waits for the result.
SlotInv ==
    /\ \A t, u \in Thread : \A h \in 1 .. Height(t), g \in 1 .. Height(u) :
        LET f == Call(t, h)
        IN  f.slot # NoTile =>
               /\ task[f.slot] = "busy" /\ f.tile \in Async[f.slot]
               /\ f.slot = Call(u, g).slot => t = u /\ h = g
    /\ \A t \in Thread : \A h \in 2 .. Height(t) :
        LET f == Call(t, h)
            caller == Call(t, h - 1)
        IN  f.slot = NoTile /\ f.tile \in Async[caller.tile] => task[caller.tile] = "none"
    /\ \A n \in Tile : task[n] # "none" =>
           \E t \in Thread : \E f \in Frames(t) :
               f.tile = n /\ f.pc \in {"fill", "unwind"} /\ ~(Async[n] \subseteq f.got)

\* The threads between acquire() and the end of release(), and those of them of which no
\* token is missing on the stack of tokens.
Users(i) == {t \in Thread : \E p \in InFarm : At(t, p) /\ ItemOf[Top(t).tile] = i}
Ready(i) == {t \in Users(i) : At(t, "pop") \/ At(t, "post")}

FarmAt(i) ==
    /\ IsFiniteSet(Users(i))
    /\ countdown[i] + Cardinality(Users(i)) = NrTokens
    /\ Len(tokens[i]) = countdown[i] + Cardinality(Ready(i))
    /\ \A j, k \in DOMAIN tokens[i] : tokens[i][j] = tokens[i][k] => j = k
    /\ \A t \in Users(i) \ Ready(i) :
           /\ token[t] \in Clone
           /\ \A k \in DOMAIN tokens[i] : tokens[i][k] # token[t]
           /\ \A u \in Users(i) \ Ready(i) : token[t] = token[u] => t = u

FarmInv == \A i \in Source : FarmAt(i)

IInv == TypeOK /\ StackInv /\ ExcInv /\ LockInv /\ HeldInv /\ SlotInv /\ FarmInv
=============================================================================
