---------------------------- MODULE ItemAccess ----------------------------
(***************************************************************************)
(* Who may touch the data of an item, and when (tic/dll/src/ItemLocks.cpp, *)
(* DataLocks.cpp): m_ItemCount with its producer, m_DataLockCount with the *)
(* data, and the clean-up when the last interest is let go.                *)
(*                                                                         *)
(* A result of a FuncDC is a cache root with data items below it.  An      *)
(* operation context holds the item write lock of the root from the moment *)
(* it is scheduled until its operator has ended, and writes one item of    *)
(* the tree.  A reader locks the path from the root to its item, waits for *)
(* the producer where a write lock is met, reads, and unlocks.  A critical *)
(* section of cs_lockCounterUpdate or sg_CountSection is one step; waking  *)
(* up from cv_lockrelease may happen at any moment (the wait has a time    *)
(* limit).                                                                 *)
(***************************************************************************)
EXTENDS Integers, Sequences, FiniteSets

CONSTANTS
    Item,
    Root,      \* Root[i]: the cache root that i is in; Root[r] = r for a root
    Ctx,       \* operation contexts
    Result,    \* Result[c]: the cache root that c produces
    Target,    \* Target[c]: the item of that tree whose data its operator writes
    Meta,      \* the meta thread
    Worker,    \* threads that read on behalf of an operator
    NoCtx,
    NoThread,
    MayFail    \* whether an operator may fail

Reader == {Meta} \cup Worker

ASSUME AccessAssumption ==
    /\ Item # {}
    /\ Root \in [Item -> Item] /\ \A i \in Item : Root[Root[i]] = Root[i]
    /\ Result \in [Ctx -> Item] /\ Target \in [Ctx -> Item]
    /\ \A c \in Ctx : Root[Result[c]] = Result[c] /\ Root[Target[c]] = Result[c]
    /\ \A c, d \in Ctx : Result[c] = Result[d] => Target[c] = Target[d]
    /\ NoCtx \notin Ctx /\ NoThread \notin Reader /\ Meta \notin Worker
    /\ IsFiniteSet(Worker)
    /\ MayFail \in BOOLEAN

VARIABLES
    ctx,       \* the stage of each operation context
    link,      \* per root: the context that its FuncDC refers to
    itemCount, \* m_ItemCount
    producer,  \* m_Producer, NoCtx where it expired
    data,      \* whether there is a m_DataObject
    dataLock,  \* m_DataLockCount
    failed,    \* WasFailed(FailType::Data)
    hold,      \* per thread: the roots in whose FuncDC its view or its operator has interest
    actorLock, \* the holder of the item's section in sg_ActorLockMap
    reader     \* what each thread is doing

vars == <<ctx, link, itemCount, producer, data, dataLock, failed, hold, actorLock, reader>>

ctxVars == <<ctx, link, failed>>
lockVars == <<itemCount, producer>>
dataVars == <<data, dataLock>>

----------------------------------------------------------------------------
(* Items, contexts and interest. *)

DataItem == {Target[c] : c \in Ctx}
Path(i) == IF Root[i] = i THEN <<i>> ELSE <<Root[i], i>>

\* The contexts that GetNumberOfActivatedOrRunningOperations counts.
Running == {c \in Ctx : ctx[c] \in {"active", "writing", "written", "unlocked"}}

\* The contexts that hold the write lock of their result.
Producing == {c \in Ctx : ctx[c] \in {"expired", "queued", "active", "writing", "written"}}

\* Threads that refer to a context: by a Join, or by the garbage of a FuncDC::StopInterest.
Referring(c) == {t \in Reader : reader[t].ctx = c}

IsIdle(t) == reader[t].pc = "idle"
At(t, pc) == reader[t].pc = pc

\* Somebody has interest in the FuncDC of a root.
Wanted(r) == \E t \in Reader : r \in hold[t]

\* A read lock under way holds interest in its item.
Reads(t, r) == reader[t].pc \notin {"idle", "cleanup"} /\ Root[reader[t].item] = r

\* PartOfInterest of a root: its FuncDC, m_Result of a context, or a read lock.
Interested(r) ==
    \/ Wanted(r)
    \/ \E c \in Ctx : Result[c] = r /\ ctx[c] # "none"
    \/ \E t \in Reader : Reads(t, r)

\* IsCalculating: the nearest item of the path that is locked at all is write locked.
IsCalculating(i) == itemCount[i] < 0 \/ (itemCount[i] = 0 /\ itemCount[Root[i]] < 0)

----------------------------------------------------------------------------
(* Operation contexts. *)

\* The end of the unique lock: the producer goes when the item is free again.
UnlockUnique(c) ==
    LET r == Result[c]
    IN  /\ itemCount' = [itemCount EXCEPT ![r] = @ + 1]
        /\ producer' = IF itemCount[r] + 1 < 0 THEN producer ELSE [producer EXCEPT ![r] = NoCtx]

Activate(c) ==
    /\ ctx[c] = "queued"
    /\ ctx' = [ctx EXCEPT ![c] = "active"]
    /\ UNCHANGED <<link, failed, lockVars, dataVars, hold, actorLock, reader>>

\* OC_CalcResultFunc does nothing if the FuncDC was lost; otherwise the operator takes the
\* DataWriteLock of its result, or fails where somebody reads.
BeginWrite(c) ==
    LET i == Target[c]
        lost == link[Result[c]] # c
        refused == ~lost /\ dataLock[i] > 0
    IN  /\ ctx[c] = "active" /\ actorLock[i] = NoThread
        /\ failed' = [failed EXCEPT ![Result[c]] = @ \/ refused]
        /\ ctx' = [ctx EXCEPT ![c] = IF lost \/ refused THEN "written" ELSE "writing"]
        /\ dataLock' = [dataLock EXCEPT ![i] = IF lost \/ refused THEN @ ELSE @ - 1]
        /\ UNCHANGED <<link, lockVars, data, hold, actorLock, reader>>

\* Mutant: the data lock stays when the operator is done.
EndWriteLocked(c) ==
    LET i == Target[c]
    IN  /\ ctx[c] = "writing"
        /\ ctx' = [ctx EXCEPT ![c] = "written"]
        /\ \/ data' = [data EXCEPT ![i] = TRUE] /\ UNCHANGED failed
           \/ MayFail /\ failed' = [failed EXCEPT ![Result[c]] = TRUE] /\ UNCHANGED data
        /\ UNCHANGED <<link, lockVars, dataLock, hold, actorLock, reader>>

\* DataWriteLock::Commit, or its destructor when the operator throws.
EndWrite(c) ==
    LET i == Target[c]
    IN  /\ ctx[c] = "writing"
        /\ dataLock' = [dataLock EXCEPT ![i] = @ + 1]
        /\ ctx' = [ctx EXCEPT ![c] = "written"]
        /\ \/ data' = [data EXCEPT ![i] = TRUE] /\ UNCHANGED failed
           \/ MayFail /\ failed' = [failed EXCEPT ![Result[c]] = TRUE] /\ UNCHANGED data
        /\ UNCHANGED <<link, lockVars, hold, actorLock, reader>>

\* Run_with_cleanup releases the write lock before the context ends.
ReleaseWriteLock(c) ==
    /\ ctx[c] = "written"
    /\ UnlockUnique(c)
    /\ ctx' = [ctx EXCEPT ![c] = "unlocked"]
    /\ UNCHANGED <<link, failed, dataVars, hold, actorLock, reader>>

OnEnd(c) ==
    /\ ctx[c] = "unlocked"
    /\ ctx' = [ctx EXCEPT ![c] = "ended"]
    /\ link' = [link EXCEPT ![Result[c]] = IF @ = c THEN NoCtx ELSE @]
    /\ UNCHANGED <<failed, lockVars, dataVars, hold, actorLock, reader>>

----------------------------------------------------------------------------
(* Interest in a FuncDC, CallCalcResult and the interest that is let go. *)

Frame(pc, i, k, c, n) == [pc |-> pc, item |-> i, k |-> k, ctx |-> c, none |-> n]
Idle(i) == Frame("idle", i, 0, NoCtx, FALSE)
Goto(t, pc) == reader' = [reader EXCEPT ![t].pc = pc]
AtNode(f, pc, k) == Frame(pc, f.item, k, f.ctx, f.none)

\* The meta thread takes interest for its views, and for the operators of workers as the
\* arguments of their contexts.  The first interest is started under the lock of the item.
Want(t, r) ==
    /\ IsIdle(Meta) /\ IsIdle(t) /\ r \notin hold[t]
    /\ Interested(r) \/ actorLock[r] = NoThread
    /\ hold' = [hold EXCEPT ![t] = @ \cup {r}]
    /\ UNCHANGED <<ctxVars, lockVars, dataVars, actorLock, reader>>

\* CallCalcResult calls this for a result that is not ready, not failed and not being
\* calculated: the context takes the write lock as it is scheduled (lock_unique waits).
Schedule(c) ==
    LET r == Result[c]
    IN  /\ ctx[c] = "none" /\ itemCount[r] <= 0
        /\ itemCount' = [itemCount EXCEPT ![r] = @ - 1]
        /\ producer' = [producer EXCEPT ![r] = c]
        /\ link' = [link EXCEPT ![r] = c]
        /\ ctx' = [ctx EXCEPT ![c] = "queued"]

\* Mutant: a FuncDC without context starts one, although the old one still calculates.
MustStartAgain(i) == ~data[i]

\* mustStartCalc: a result that any context is calculating already is left to that context.
MustStart(i) == ~data[i] /\ ~IsCalculating(Root[i])

\* CallCalcResult for the read of i by t; nothing is read if the result has failed.
Call(t, i) ==
    /\ IsIdle(Meta) /\ IsIdle(t) /\ Root[i] \in hold[t] /\ ~failed[Root[i]]
    /\ IF MustStart(i)
       THEN \E c \in Ctx : Target[c] = i /\ Schedule(c)
       ELSE UNCHANGED <<ctx, link, lockVars>>
    /\ reader' = [reader EXCEPT ![t] = Frame("called", i, 0, NoCtx, FALSE)]
    /\ UNCHANGED <<dataVars, failed, hold, actorLock>>

\* A view comes back for its result later; an operator is cancelled before it reads.
GiveUp(t) ==
    /\ At(t, "called")
    /\ reader' = [reader EXCEPT ![t] = Idle(reader[t].item)]
    /\ UNCHANGED <<ctxVars, lockVars, dataVars, hold, actorLock>>

\* Interest that is let go; the last one is FuncDC::StopInterest, which leaves the context
\* in the garbage of the call.
Release(t, r) ==
    LET c == link[r]
        last == \A u \in Reader \ {t} : r \notin hold[u]
    IN  /\ IsIdle(t) /\ r \in hold[t]
        /\ hold' = [hold EXCEPT ![t] = @ \ {r}]
        /\ IF last /\ c # NoCtx
           THEN /\ link' = [link EXCEPT ![r] = NoCtx]
                /\ reader' = [reader EXCEPT ![t] = Frame("garbage", r, 0, c, FALSE)]
           ELSE /\ reader' = [reader EXCEPT ![t] = Frame("letgo", r, 0, NoCtx, FALSE)]
                /\ UNCHANGED link
        /\ UNCHANGED <<ctx, failed, lockVars, dataVars, actorLock>>

\* The reference is dropped.  A queued context that nobody else refers to expires, before its
\* destructor gives the write lock back; one that runs is kept by the worker that runs it.
DropGarbage(t) ==
    LET c == reader[t].ctx
    IN  /\ At(t, "garbage")
        /\ IF ctx[c] = "queued" /\ Referring(c) = {t}
           THEN /\ ctx' = [ctx EXCEPT ![c] = "expired"]
                /\ producer' = [i \in Item |-> IF producer[i] = c THEN NoCtx ELSE producer[i]]
                /\ Goto(t, "destruct")
           ELSE /\ reader' = [reader EXCEPT ![t].pc = "letgo", ![t].ctx = NoCtx]
                /\ UNCHANGED <<ctx, producer>>
        /\ UNCHANGED <<link, failed, itemCount, dataVars, hold, actorLock>>

\* OnEnd(cancelled) in ~OperationContext.
Destruct(t) ==
    LET c == reader[t].ctx
    IN  /\ At(t, "destruct")
        /\ UnlockUnique(c)
        /\ ctx' = [ctx EXCEPT ![c] = "none"]
        /\ reader' = [reader EXCEPT ![t].pc = "letgo", ![t].ctx = NoCtx]
        /\ UNCHANGED <<link, failed, dataVars, hold, actorLock>>

\* Mutant: the result of a destroyed context is let go without a clean-up.
DestroySilently(t, c) ==
    /\ IsIdle(t) /\ ctx[c] = "ended" /\ Referring(c) = {}
    /\ ctx' = [ctx EXCEPT ![c] = "none"]
    /\ reader' = [reader EXCEPT ![t] = Idle(Result[c])]
    /\ UNCHANGED <<link, failed, lockVars, dataVars, hold, actorLock>>

\* A context that has ended is destroyed by the last thread that held it.
Destroy(t, c) ==
    /\ IsIdle(t) /\ ctx[c] = "ended" /\ Referring(c) = {}
    /\ ctx' = [ctx EXCEPT ![c] = "none"]
    /\ reader' = [reader EXCEPT ![t] = Frame("letgo", Result[c], 0, NoCtx, FALSE)]
    /\ UNCHANGED <<link, failed, lockVars, dataVars, hold, actorLock>>

\* DecInterestCount: the last one takes the lock of the item and cleans up.
LetGo(t) ==
    LET r == Root[reader[t].item]
        last == /\ ~Wanted(r) /\ \A c \in Ctx : Result[c] = r => ctx[c] = "none"
                /\ \A u \in Reader \ {t} : ~Reads(u, r)
    IN  /\ At(t, "letgo")
        /\ IF last
           THEN /\ actorLock[r] = NoThread
                /\ actorLock' = [actorLock EXCEPT ![r] = t]
                /\ Goto(t, "cleanup")
           ELSE /\ reader' = [reader EXCEPT ![t] = Idle(r)]
                /\ UNCHANGED actorLock
        /\ UNCHANGED <<ctxVars, lockVars, dataVars, hold>>

\* TryCleanupMem, under the lock of the root and sg_CountSection.
Cleanup(t) ==
    LET r == Root[reader[t].item]
        may == ~Interested(r) /\ itemCount[r] >= 0
    IN  /\ At(t, "cleanup")
        /\ data' = [i \in Item |-> data[i] /\ ~(Root[i] = r /\ may)]
        /\ actorLock' = [actorLock EXCEPT ![r] = NoThread]
        /\ reader' = [reader EXCEPT ![t] = Idle(r)]
        /\ UNCHANGED <<ctxVars, lockVars, dataLock, hold>>

----------------------------------------------------------------------------
(* ItemReadLock and DataReadLock. *)

\* The read lock is asked for: the path is locked from the root on.
StartRead(t) ==
    /\ At(t, "called")
    /\ reader' = [reader EXCEPT ![t] = AtNode(@, "peek", 1)]
    /\ UNCHANGED <<ctxVars, lockVars, dataVars, hold, actorLock>>

\* The item of the path that is being locked or unlocked.
Node(t) == Path(reader[t].item)[reader[t].k]

\* lock_shared looks for a producer to Join without holding the section.
Peek(t) ==
    LET j == Node(t)
    IN  /\ At(t, "peek")
        /\ reader' = [reader EXCEPT ![t] =
              IF itemCount[j] < 0 /\ producer[j] # NoCtx
              THEN [@ EXCEPT !.pc = "join", !.ctx = producer[j]]
              ELSE [@ EXCEPT !.pc = "count"]]
        /\ UNCHANGED <<ctxVars, lockVars, dataVars, hold, actorLock>>

\* Mutant: Join waits for the destruction of a context that it keeps alive itself.
JoinUntilExpired(t) ==
    /\ At(t, "join") /\ ctx[reader[t].ctx] = "none"
    /\ reader' = [reader EXCEPT ![t].pc = "count", ![t].ctx = NoCtx]
    /\ UNCHANGED <<ctxVars, lockVars, dataVars, hold, actorLock>>

\* producer->Join() returns when the context has ended.
JoinReturns(t) ==
    /\ At(t, "join") /\ ctx[reader[t].ctx] = "ended"
    /\ reader' = [reader EXCEPT ![t].pc = "count", ![t].ctx = NoCtx]
    /\ UNCHANGED <<ctxVars, lockVars, dataVars, hold, actorLock>>

\* noMoreOperationsRunning is read before the section is entered.
CountRunning(t) ==
    /\ At(t, "count")
    /\ reader' = [reader EXCEPT ![t].pc = "lock", ![t].none = (Running = {})]
    /\ UNCHANGED <<ctxVars, lockVars, dataVars, hold, actorLock>>

\* The item is free: the count goes up, and the next item of the path or the data is next.
Granted(t) ==
    LET f == reader[t]
    IN  /\ itemCount' = [itemCount EXCEPT ![Node(t)] = @ + 1]
        /\ reader' = [reader EXCEPT ![t] = IF f.k < Len(Path(f.item))
                                           THEN AtNode(f, "peek", f.k + 1)
                                           ELSE AtNode(f, "check", f.k)]

\* Mutant: the count is not looked at again under the section.
LockSharedUnchecked(t) ==
    /\ At(t, "lock")
    /\ Granted(t)
    /\ UNCHANGED <<ctxVars, producer, dataVars, hold, actorLock>>

\* "DeadLock" is thrown when the item is write locked and nothing was running.
LockShared(t) ==
    /\ At(t, "lock")
    /\ IF itemCount[Node(t)] >= 0 THEN Granted(t)
       ELSE /\ Goto(t, IF reader[t].none THEN "deadlock" ELSE "wait")
            /\ UNCHANGED itemCount
    /\ UNCHANGED <<ctxVars, producer, dataVars, hold, actorLock>>

\* The wait for cv_lockrelease ended.
WaitReturns(t) ==
    /\ At(t, "wait")
    /\ IF itemCount[Node(t)] >= 0 THEN Granted(t)
       ELSE Goto(t, "count") /\ UNCHANGED itemCount
    /\ UNCHANGED <<ctxVars, producer, dataVars, hold, actorLock>>

\* Mutant: the exception frees the lock that was not granted, too.
DeadlockFreesAll(t) ==
    /\ At(t, "deadlock")
    /\ reader' = [reader EXCEPT ![t].pc = "free"]
    /\ UNCHANGED <<ctxVars, lockVars, dataVars, hold, actorLock>>

\* The exception frees what was locked of the path.
Deadlock(t) ==
    /\ At(t, "deadlock")
    /\ reader' = [reader EXCEPT ![t] = AtNode(@, "free", @.k - 1)]
    /\ UNCHANGED <<ctxVars, lockVars, dataVars, hold, actorLock>>

\* The MG_CHECKs of ItemReadLock: where they throw, the item locks are not given back, as the
\* destructor of a half constructed lock does not run.
Check(t) ==
    LET i == reader[t].item
    IN  /\ At(t, "check")
        /\ Goto(t, IF data[i] \/ failed[Root[i]] THEN "open" ELSE "letgo")
        /\ UNCHANGED <<ctxVars, lockVars, dataVars, hold, actorLock>>

\* Mutant: no failure is reported.
OpenFailed(t) ==
    LET i == reader[t].item
    IN  /\ At(t, "open")
        /\ IF dataLock[i] < 0
           THEN Goto(t, "free") /\ UNCHANGED dataLock
           ELSE IF dataLock[i] = 0 THEN Goto(t, "openFirst") /\ UNCHANGED dataLock
           ELSE /\ dataLock' = [dataLock EXCEPT ![i] = @ + 1]
                /\ Goto(t, "use")
        /\ UNCHANGED <<ctxVars, lockVars, data, hold, actorLock>>

\* DataReadLockAtom: a failure or a write lock throws; one reader more is counted at once,
\* the first one takes the lock of the item.
Open(t) ==
    LET i == reader[t].item
    IN  /\ At(t, "open")
        /\ IF failed[Root[i]] \/ dataLock[i] < 0
           THEN Goto(t, "free") /\ UNCHANGED dataLock
           ELSE IF dataLock[i] = 0 THEN Goto(t, "openFirst") /\ UNCHANGED dataLock
           ELSE /\ dataLock' = [dataLock EXCEPT ![i] = @ + 1]
                /\ Goto(t, "use")
        /\ UNCHANGED <<ctxVars, lockVars, data, hold, actorLock>>

OpenFirst(t) ==
    LET i == reader[t].item
    IN  /\ At(t, "openFirst") /\ actorLock[i] = NoThread
        /\ IF dataLock[i] < 0
           THEN Goto(t, "free") /\ UNCHANGED dataLock
           ELSE /\ dataLock' = [dataLock EXCEPT ![i] = @ + 1]
                /\ Goto(t, "use")
        /\ UNCHANGED <<ctxVars, lockVars, data, hold, actorLock>>

\* The destructor of DataReadLockAtom; the item lock holds interest.
Close(t) ==
    /\ At(t, "use")
    /\ dataLock' = [dataLock EXCEPT ![reader[t].item] = @ - 1]
    /\ Goto(t, "free")
    /\ UNCHANGED <<ctxVars, lockVars, data, hold, actorLock>>

\* ReadFree: unlock_shared from the item up to the root; then the interest is let go.
FreeRead(t) ==
    LET k == reader[t].k
    IN  /\ At(t, "free")
        /\ IF k = 0
           THEN Goto(t, "letgo") /\ UNCHANGED itemCount
           ELSE /\ itemCount' = [itemCount EXCEPT ![Node(t)] = @ - 1]
                /\ reader' = [reader EXCEPT ![t] = AtNode(@, "free", @.k - 1)]
        /\ UNCHANGED <<ctxVars, producer, dataVars, hold, actorLock>>

----------------------------------------------------------------------------
(* The specification. *)

Init ==
    /\ ctx = [c \in Ctx |-> "none"]
    /\ link = [i \in Item |-> NoCtx]
    /\ itemCount = [i \in Item |-> 0]
    /\ producer = [i \in Item |-> NoCtx]
    /\ data = [i \in Item |-> FALSE]
    /\ dataLock = [i \in Item |-> 0]
    /\ failed = [i \in Item |-> FALSE]
    /\ hold = [t \in Reader |-> {}]
    /\ actorLock = [i \in Item |-> NoThread]
    /\ reader = [t \in Reader |-> Idle(CHOOSE i \in Item : Root[i] = i)]

\* A context that was scheduled goes on.
Produce(c) == Activate(c) \/ BeginWrite(c) \/ EndWrite(c) \/ ReleaseWriteLock(c) \/ OnEnd(c)

\* A read or a release of interest that was begun goes on.
Read(t) ==
    \/ StartRead(t) \/ Peek(t) \/ JoinReturns(t) \/ CountRunning(t) \/ LockShared(t)
    \/ WaitReturns(t) \/ Deadlock(t) \/ Check(t) \/ Open(t) \/ OpenFirst(t) \/ Close(t)
    \/ FreeRead(t) \/ DropGarbage(t) \/ Destruct(t)
    \/ LetGo(t) \/ Cleanup(t)

Next ==
    \/ \E c \in Ctx : Produce(c)
    \/ \E t \in Reader :
          \/ Read(t) \/ GiveUp(t)
          \/ \E i \in DataItem : Call(t, i)
          \/ \E c \in Ctx : Destroy(t, c)
          \/ \E r \in {Root[i] : i \in Item} : Want(t, r) \/ Release(t, r)

Spec == Init /\ [][Next]_vars

\* Operators return, the scheduler activates what is queued, and a thread that can go on does.
FairSpec ==
    /\ Spec
    /\ \A c \in Ctx : WF_vars(Produce(c))
    /\ \A t \in Reader : SF_vars(Read(t))

----------------------------------------------------------------------------
(* Properties. *)

Stage == {"none", "expired", "queued", "active", "writing", "written", "unlocked", "ended"}
Place ==
    {"idle", "called", "garbage", "destruct", "check", "peek", "join", "count", "lock",
     "wait", "deadlock", "open", "openFirst", "use", "free", "letgo", "cleanup"}

FrameType == [pc: Place, item: Item, k: 0..2, ctx: Ctx \cup {NoCtx}, none: BOOLEAN]

\* The types of the variables.
TypeOK ==
    /\ ctx \in [Ctx -> Stage]
    /\ link \in [Item -> Ctx \cup {NoCtx}]
    /\ itemCount \in [Item -> Int]
    /\ producer \in [Item -> Ctx \cup {NoCtx}]
    /\ data \in [Item -> BOOLEAN] /\ failed \in [Item -> BOOLEAN]
    /\ dataLock \in [Item -> -1..Cardinality(Reader)]
    /\ hold \in [Reader -> SUBSET Item]
    /\ actorLock \in [Item -> Reader \cup {NoThread}]
    /\ reader \in [Reader -> FrameType]

\* The items of its path that a read has locked.
LockingPc == {"peek", "join", "count", "lock", "wait", "deadlock"}
ReadingPc == {"check", "open", "openFirst", "use"}
NrHeld(f) ==
    IF f.pc \in ReadingPc \cup {"free"} THEN f.k ELSE IF f.pc \in LockingPc THEN f.k - 1 ELSE 0
Held(f) == {Path(f.item)[k] : k \in 1..NrHeld(f)}

\* The threads that hold the shared lock of item j, and the contexts that hold its write lock.
Sharing(j) == {t \in Reader : j \in Held(reader[t])}
Producers(j) == {c \in Producing : Result[c] = j}

\* The contexts that write the data of item i, and the threads that use it.
Writers(i) == {c \in Ctx : ctx[c] = "writing" /\ Target[c] = i}
Users(i) == {t \in Reader : At(t, "use") /\ reader[t].item = i}

Shared(j) == Cardinality(Sharing(j))
Unique(j) == Cardinality(Producers(j))

\* Shared locks that nobody will give back (see Check).
Lost(j) == itemCount[j] - (Shared(j) - Unique(j))

\* m_ItemCount is the number of readers of the item, or minus the number of contexts that
\* still hold its write lock, never both: no lock is given back twice, and no reader shares
\* the item with a producer, however interest comes and goes while the context runs.
CountMatches ==
    \A j \in Item : Lost(j) >= 0 /\ (Unique(j) = 0 \/ Shared(j) + Lost(j) = 0)

\* An item has one producer at a time, even if its FuncDC lost interest and regained it while
\* a context ran; a reader that meets the write lock finds that producer, unless it expired.
OneProducer ==
    \A r \in Item :
        /\ Unique(r) <= 1
        /\ \A c \in Producers(r) : ctx[c] = "expired" \/ producer[r] = c

\* A thread with a data read lock has data that nobody writes.
ReadsData ==
    \A t \in Reader :
        At(t, "use") => LET i == reader[t].item IN data[i] /\ dataLock[i] > 0 /\ ~IsCalculating(i)

\* CallCalcResult promises that the result will have data or fail: a read that it was called for
\* finds one of these once it has its locks (ReadLockInit asserts it).
CalledIsReady ==
    \A t \in Reader : At(t, "check") => LET i == reader[t].item IN data[i] \/ failed[Root[i]]

\* "DeadLock" is thrown only if no operation is left that can release the item.
DeadlockIsReal ==
    [][\A t \in Reader : reader'[t].pc = "deadlock" /\ ~At(t, "deadlock") => Producing = {}]_vars

\* When the last interest in a result is gone, its data does not stay behind.
NoOrphanData ==
    \A i \in Item : data[i] =>
        Interested(Root[i]) \/ \E t \in Reader : At(t, "cleanup") /\ Root[reader[t].item] = Root[i]

\* Whoever asks for a read lock or lets interest go gets through, as long as no lock is lost.
ReadEnds == (\A j \in Item : [](Lost(j) = 0)) => \A t \in Reader : []<>IsIdle(t)

----------------------------------------------------------------------------
(* What DataAccess promises. *)

Contents == [i \in DataItem |->
    IF failed[Root[i]] /\ ~data[i] THEN "failed" ELSE IF data[i] THEN "made" ELSE "none"]

Abstract == INSTANCE DataAccess WITH
    Item <- DataItem,
    Producer <- Ctx,
    content <- Contents,
    readers <- [i \in DataItem |-> Users(i)],
    producers <- [i \in DataItem |-> Producers(Root[i])]

Implements == Abstract!Spec

----------------------------------------------------------------------------
(* The inductive invariant. *)

\* What a thread at a place of its call has locked, refers to and may rely on.
FrameOK(t, f) ==
    /\ f.pc \in LockingPc => f.k \in 1..Len(Path(f.item))
    /\ f.pc \in ReadingPc => f.k = Len(Path(f.item))
    /\ f.pc = "free" => f.k \in 0..Len(Path(f.item))
    /\ f.pc \in {"called"} \cup LockingPc \cup ReadingPc => f.item \in DataItem
    /\ f.pc = "called" => Root[f.item] \in hold[t]
    /\ f.pc = "open" => data[f.item] \/ failed[Root[f.item]]
    /\ f.pc \in {"openFirst", "use"} => data[f.item]
    /\ f.ctx = NoCtx <=> f.pc \notin {"join", "garbage", "destruct"}
    /\ f.ctx # NoCtx => ctx[f.ctx] # "none"
    /\ f.pc \in {"garbage", "destruct"} => Result[f.ctx] = Root[f.item]
    /\ f.pc = "garbage" => link[Root[f.item]] # f.ctx
    /\ f.pc = "destruct" => ctx[f.ctx] = "expired"

FramesOK ==
    /\ \A t \in Reader : FrameOK(t, reader[t])
    /\ \A t \in Reader : \A r \in hold[t] : Root[r] = r

\* A context is destructed by the one thread that refers to it.
DestructInv ==
    \A t, u \in Reader : At(t, "destruct") /\ reader[u].ctx = reader[t].ctx => u = t

\* An item is free, shared, or has one producer, which can be found unless it expired.
FreeOrShared(j) == Producers(j) = {} /\ itemCount[j] >= Shared(j)
Produced(j) ==
    /\ itemCount[j] = -1 /\ Sharing(j) = {}
    /\ \E c \in Ctx : Producers(j) = {c} /\ (ctx[c] = "expired" \/ producer[j] = c)
LockInv == \A j \in Item : FreeOrShared(j) \/ Produced(j)

\* What the links and the producers may refer to.
LinkInv ==
    \A i \in Item :
        /\ link[i] # NoCtx =>
              Result[link[i]] = i /\ ctx[link[i]] \notin {"none", "expired", "ended"}
        /\ producer[i] # NoCtx =>
              Result[producer[i]] = i /\ ctx[producer[i]] \in Stage \ {"none", "expired", "unlocked", "ended"}

\* The data lock is held by the writer of the data or by those who use it.
DataInv ==
    \A i \in Item : dataLock[i] = IF Writers(i) = {} THEN Cardinality(Users(i)) ELSE -1

\* Only items that an operator writes have data.  A result has data or has failed, never both,
\* and neither before its operator has ended.
ContentInv ==
    /\ \A i \in Item : data[i] => i \in DataItem /\ ~failed[Root[i]]
    /\ \A c \in Ctx :
          ctx[c] \in {"expired", "queued", "active", "writing"} =>
              ~data[Target[c]] /\ ~failed[Result[c]]

IInv ==
    /\ TypeOK /\ FramesOK /\ DestructInv /\ LockInv /\ LinkInv /\ DataInv /\ ContentInv
    /\ NoOrphanData
=============================================================================
