--------------------------- MODULE TileTaskGroup ---------------------------
(***************************************************************************)
(* The tile_task_group of tic/dll/src/OperationContext.cpp: a ticket       *)
(* dispenser that lets the caller, a bounded pool of workers and stealing  *)
(* threads execute the slots 0 .. m_Last - 1 of a parallel loop.           *)
(*                                                                         *)
(* Every step that touches a group or the registry holds                   *)
(* s_TileTaskGroupsMutex, so one action is one critical section.  The work *)
(* function itself (m_Func) runs without the mutex, between SlotStart and  *)
(* SlotReturn / SlotThrow; it is user code that may construct a nested     *)
(* group on the same thread and, when it waits for a data item, may steal. *)
(* A thread is therefore a stack of frames: "work" frames (an activation   *)
(* of DoWork, at one slot) and "own" frames (a group on the call stack).   *)
(***************************************************************************)
EXTENDS Integers, Sequences, FiniteSets

CONSTANTS
    Group,      \* the addresses at which groups can be constructed (reused)
    Caller,     \* threads that run operators: they construct groups and steal
    Worker,     \* the pool: GetNrVCPUs() threads for DoThisOrThatAndDecommission
    MetaThread, \* the callers that are the meta (main) thread: they may suspend
    NoGroup,    \* a registry entry that was set to nullptr
    MaxLast,    \* bound on m_Last
    MaxDepth,   \* bound on the frames of one thread
    MaxEntries, \* bound on the registry, whose nullptr entries pile up
    Timeouts    \* whether the 500 ms of wait_for can elapse

ASSUME TileAssumption ==
    /\ IsFiniteSet(Worker)
    /\ Caller \cap Worker = {}
    /\ MetaThread \subseteq Caller
    /\ NoGroup \notin Group
    /\ MaxLast \in Nat
    /\ MaxDepth \in Nat
    /\ MaxEntries \in Nat
    /\ Timeouts \in BOOLEAN

Thread == Caller \cup Worker
MaxNrThreads == Cardinality(Worker)

VARIABLES
    alive,      \* the groups that are constructed and not yet destroyed
    grp,        \* the fields of each group
    registry,   \* s_TileTaskGroups
    nrRunning,  \* s_NrRunningTileTaskThreads
    running,    \* the workers launched and not yet decommissioned
    stack,      \* the frames of each thread, the innermost one last
    sleeping    \* the groups whose owner is blocked on m_TileTasksDone

vars == <<alive, grp, registry, nrRunning, running, stack, sleeping>>

-----------------------------------------------------------------------------
Slot == 0 .. MaxLast - 1
WorkPc == {"check", "run"}
OwnPc == {"built", "await", "joined", "thrown", "dtor"}
Frame == [g : Group, i : Nat, pc : WorkPc \cup OwnPc]

WorkFrame(g, i) == [g |-> g, i |-> i, pc |-> "check"]
OwnFrame(g) == [g |-> g, i |-> 0, pc |-> "built"]

\* The members of a tile_task_group; busy holds the tickets that were handed
\* out and for which no completion was registered yet.
Fields == [last : Nat, commissioned : Nat, nrCompleted : Nat, exc : BOOLEAN,
           busy : SUBSET Nat, completedWork : SUBSET Nat]
Fresh(n) == [last |-> n, commissioned |-> 0, nrCompleted |-> 0, exc |-> FALSE,
             busy |-> {}, completedWork |-> {}]

Top(t) == stack[t][Len(stack[t])]
TopPc(t, pcs) == stack[t] # << >> /\ Top(t).pc \in pcs

Pop(s) == [k \in 1 .. Len(s) - 1 |-> s[k]]
Push(s, f) == [k \in 1 .. Len(s) + 1 |-> IF k <= Len(s) THEN s[k] ELSE f]
AtPc(f, pc) == [f EXCEPT !.pc = pc]
SetTop(s, f) == [k \in 1 .. Len(s) |-> IF k = Len(s) THEN f ELSE s[k]]

\* The thread executes operator code, outside every tile_task_group method.
InUserCode(t) ==
    \/ stack[t] = << >> /\ t \in Caller
    \/ TopPc(t, {"run", "built"})

\* Fault: Join without its SilentBlocker.
MaySuspendInJoin(t) == t \in MetaThread

\* SuspendTrigger::MustSuspend() is false on every thread but the meta thread,
\* and there inside Join, which holds a SilentBlocker.
MaySuspend(t) ==
    t \in MetaThread /\ \A k \in 1 .. Len(stack[t]) : stack[t][k].pc # "await"

-----------------------------------------------------------------------------
\* tile_task_group::decommission: the last entry of g becomes nullptr.
Decommission(reg, g) ==
    [k \in 1 .. Len(reg) |->
        IF reg[k] = g /\ \A j \in k + 1 .. Len(reg) : reg[j] # g
        THEN NoGroup ELSE reg[k]]

HasTicket(r) == r.commissioned < r.last

\* Fault: the ticket is read but m_Commissioned is not advanced.
TakeSameTicket(r) == [r EXCEPT !.busy = @ \cup {r.commissioned}]

\* tile_task_group::getNextCommissioned when it returns a slot.
TakeTicket(r) ==
    [r EXCEPT !.commissioned = @ + 1, !.busy = @ \cup {r.commissioned}]

\* Fault: the group that gave out its last ticket stays registered.
NeverDecommission(reg, g, r) == reg

DecommissionIfLast(reg, g, r) ==
    IF r.commissioned >= r.last THEN Decommission(reg, g) ELSE reg

\* registerCompletion(i)
RegisterCompletion(r, i) ==
    [r EXCEPT !.nrCompleted = @ + 1, !.busy = @ \ {i},
              !.completedWork = @ \cup {i}]

\* m_Commissioned += remainingTasks; registerCompletions(remainingTasks).
Abandon(r) ==
    [r EXCEPT !.commissioned = r.last,
              !.nrCompleted = @ + (r.last - r.commissioned)]

\* Faults: the failed slot itself is not counted; the exception is not stored;
\* the remaining slots are not settled; the failed slot counts as worked.
FailUncounted(r, i) ==
    IF r.exc THEN [r EXCEPT !.busy = @ \ {i}]
    ELSE [r EXCEPT !.nrCompleted = @ + (r.last - r.commissioned),
                   !.busy = @ \ {i}, !.commissioned = r.last, !.exc = TRUE]
FailForgotten(r, i) ==
    [r EXCEPT !.nrCompleted = @ + 1 + (r.last - r.commissioned),
              !.busy = @ \ {i}, !.commissioned = r.last]
FailAsWorked(r, i) ==
    IF r.exc
    THEN [r EXCEPT !.nrCompleted = @ + 1, !.busy = @ \ {i}]
    ELSE [r EXCEPT !.nrCompleted = @ + 1 + (r.last - r.commissioned),
                   !.busy = @ \ {i}, !.commissioned = r.last, !.exc = TRUE,
                   !.completedWork = @ \cup {i}]

\* Slot i failed: registerCompletions(1) when an earlier failure is stored, else
\* the exception is stored and the remaining slots are settled along with i.
Fail(r, i) ==
    IF r.exc
    THEN [r EXCEPT !.nrCompleted = @ + 1, !.busy = @ \ {i}]
    ELSE [r EXCEPT !.nrCompleted = @ + 1 + (r.last - r.commissioned),
                   !.busy = @ \ {i}, !.commissioned = r.last, !.exc = TRUE]

\* Fault: nobody notifies m_TileTasksDone.
NotifyNobody(g, r) == UNCHANGED sleeping

\* m_TileTasksDone.notify_all() once m_NrCompleted reaches m_Last.
Notify(g, r) ==
    sleeping' = IF r.nrCompleted = r.last THEN sleeping \ {g} ELSE sleeping

\* The largest index whose group still hands out tickets, or 0: where the
\* popping loop of takeOneTileTask stops.
IsBack(m) ==
    LET Offers(k) == registry[k] # NoGroup /\ HasTicket(grp[registry[k]])
    IN  /\ m > 0 => Offers(m)
        /\ \A k \in m + 1 .. Len(registry) : ~ Offers(k)

Truncate(reg, m) == [k \in 1 .. m |-> reg[k]]

-----------------------------------------------------------------------------
Init ==
    /\ alive = {}
    /\ grp = [g \in Group |-> Fresh(0)]
    /\ registry = << >>
    /\ nrRunning = 0
    /\ running = {}
    /\ stack = [t \in Thread |-> << >>]
    /\ sleeping = {}

\* How many workers a constructor with n slots commissions.
NrThreadsToCommission(n) ==
    IF n = 0 \/ nrRunning >= MaxNrThreads THEN 0
    ELSE IF n < MaxNrThreads - nrRunning THEN n ELSE MaxNrThreads - nrRunning

\* tile_task_group::tile_task_group(last, func); IsMultiThreaded1() is a user
\* setting, read at every construction.
Construct(t, g, n, W) ==
    /\ InUserCode(t)
    /\ Len(stack[t]) + 2 <= MaxDepth
    /\ Len(registry) < MaxEntries
    /\ g \notin alive
    /\ W \in SUBSET (Worker \ running)
    /\ W = {} \/ Cardinality(W) = NrThreadsToCommission(n)
    /\ alive' = alive \cup {g}
    /\ grp' = [grp EXCEPT ![g] = Fresh(n)]
    /\ registry' = IF n > 0 THEN Append(registry, g) ELSE registry
    /\ nrRunning' = nrRunning + Cardinality(W)
    /\ running' = running \cup W
    /\ stack' = [stack EXCEPT ![t] = Push(@, OwnFrame(g))]
    /\ UNCHANGED sleeping

\* Join up to its own DoWork: GetNextCommissioned and, with a ticket, DoWork.
Join(t) ==
    /\ TopPc(t, {"built"})
    /\ LET g == Top(t).g
           r == TakeTicket(grp[g])
           awaiting == SetTop(stack[t], AtPc(Top(t), "await"))
       IN  IF HasTicket(grp[g])
           THEN /\ grp' = [grp EXCEPT ![g] = r]
                /\ registry' = DecommissionIfLast(registry, g, r)
                /\ stack' = [stack EXCEPT ![t] =
                      Push(awaiting, WorkFrame(g, grp[g].commissioned))]
           ELSE /\ stack' = [stack EXCEPT ![t] = awaiting]
                /\ UNCHANGED <<grp, registry>>
    /\ UNCHANGED <<alive, nrRunning, running, sleeping>>

\* AwaitRunningSlots, one iteration under the mutex, and the rethrow that ends
\* Join.  CancelIfOutOfInterest and ASyncContinueCheck may throw.
Await(t) ==
    /\ TopPc(t, {"await"})
    /\ LET g == Top(t).g
           Continue(pc) ==
             stack' = [stack EXCEPT ![t] = SetTop(@, AtPc(Top(t), pc))]
       IN  /\ g \notin sleeping
           /\ \/ /\ grp[g].nrCompleted >= grp[g].last
                 /\ Continue(IF grp[g].exc THEN "thrown" ELSE "joined")
                 /\ UNCHANGED sleeping
              \/ /\ grp[g].nrCompleted < grp[g].last
                 /\ Continue("thrown")
                 /\ UNCHANGED sleeping
              \/ /\ grp[g].nrCompleted < grp[g].last
                 /\ sleeping' = sleeping \cup {g}
                 /\ UNCHANGED stack
    /\ UNCHANGED <<alive, grp, registry, nrRunning, running>>

\* Fault: the destructor waits for the last ticket, not for the last completion.
EndWhenCommissioned(t, g, r) ==
    /\ alive' = alive \ {g}
    /\ grp' = [grp EXCEPT ![g] = Fresh(0)]
    /\ stack' = [stack EXCEPT ![t] = Pop(@)]
    /\ UNCHANGED sleeping

\* The end of the destructor: the group is gone once every slot is completed,
\* else its owner waits.
EndOrSleep(t, g, r) ==
    IF r.nrCompleted >= r.last
    THEN /\ alive' = alive \ {g}
         /\ grp' = [grp EXCEPT ![g] = Fresh(0)]
         /\ stack' = [stack EXCEPT ![t] = Pop(@)]
         /\ UNCHANGED sleeping
    ELSE /\ grp' = [grp EXCEPT ![g] = r]
         /\ stack' = [stack EXCEPT ![t] = SetTop(@, AtPc(Top(t), "dtor"))]
         /\ sleeping' = sleeping \cup {g}
         /\ UNCHANGED alive

\* ~tile_task_group, after Join returned or threw, or without any Join (the
\* caller threw or dropped the future between construction and Join).
Destroy(t) ==
    /\ TopPc(t, {"built", "joined", "thrown"})
    /\ LET g == Top(t).g
       IN  IF HasTicket(grp[g])
           THEN /\ registry' = Decommission(registry, g)
                /\ EndOrSleep(t, g, Abandon(grp[g]))
           ELSE /\ EndOrSleep(t, g, grp[g])
                /\ UNCHANGED registry
    /\ UNCHANGED <<nrRunning, running>>

\* The waiting loop of the destructor, after a wake-up.
DestroyRecheck(t) ==
    /\ TopPc(t, {"dtor"})
    /\ Top(t).g \notin sleeping
    /\ EndOrSleep(t, Top(t).g, grp[Top(t).g])
    /\ UNCHANGED <<registry, nrRunning, running>>

\* wait_for(lock, 500ms) returns without a notification.
Timeout(g) ==
    /\ Timeouts
    /\ g \in sleeping
    /\ sleeping' = sleeping \ {g}
    /\ UNCHANGED <<alive, grp, registry, nrRunning, running, stack>>

-----------------------------------------------------------------------------
\* DoWork: the cancellation checks passed, m_Func(i) is entered.
SlotStart(t) ==
    /\ TopPc(t, {"check"})
    /\ stack' = [stack EXCEPT ![t] = SetTop(@, AtPc(Top(t), "run"))]
    /\ UNCHANGED <<alive, grp, registry, nrRunning, running, sleeping>>

\* m_Func(i) returned: RegisterCompletionAndGetNextCommissioned(i).
SlotReturn(t, suspend) ==
    /\ TopPc(t, {"run"})
    /\ suspend => MaySuspend(t)
    /\ LET g == Top(t).g
           r == RegisterCompletion(grp[g], Top(t).i)
           more == r.nrCompleted # r.last /\ HasTicket(r) /\ ~ suspend
           next == TakeTicket(r)
       IN  /\ Notify(g, r)
           /\ IF more
              THEN /\ grp' = [grp EXCEPT ![g] = next]
                   /\ registry' = DecommissionIfLast(registry, g, next)
                   /\ stack' = [stack EXCEPT ![t] =
                                  SetTop(@, WorkFrame(g, r.commissioned))]
              ELSE /\ grp' = [grp EXCEPT ![g] = r]
                   /\ stack' = [stack EXCEPT ![t] = Pop(@)]
                   /\ UNCHANGED registry
    /\ UNCHANGED <<alive, nrRunning, running>>

\* The catch block of DoWork: a cancellation check or m_Func(i) threw.
SlotThrow(t) ==
    /\ TopPc(t, WorkPc)
    /\ LET g == Top(t).g
           r == Fail(grp[g], Top(t).i)
       IN  /\ grp' = [grp EXCEPT ![g] = r]
           /\ registry' = IF grp[g].exc THEN registry ELSE Decommission(registry, g)
           /\ stack' = [stack EXCEPT ![t] = Pop(@)]
           /\ Notify(g, r)
    /\ UNCHANGED <<alive, nrRunning, running>>

-----------------------------------------------------------------------------
\* takeOneTileTask finds group registry[m] and DoWork starts on its ticket.
TakeFrom(t, m) ==
    LET g == registry[m]
        r == TakeTicket(grp[g])
    IN  /\ grp' = [grp EXCEPT ![g] = r]
        /\ registry' = DecommissionIfLast(Truncate(registry, m), g, r)
        /\ stack' = [stack EXCEPT ![t] = Push(@, WorkFrame(g, grp[g].commissioned))]

\* StealTasks, called while a thread waits for a data item or another operation.
Steal(t, suspend) ==
    /\ InUserCode(t)
    /\ Len(stack[t]) + 1 <= MaxDepth
    /\ suspend => MaySuspend(t)
    /\ \E m \in 0 .. Len(registry) :
         /\ IsBack(m)
         /\ IF m > 0 /\ ~ suspend
            THEN TakeFrom(t, m)
            ELSE /\ registry' = Truncate(registry, m)
                 /\ UNCHANGED <<grp, stack>>
    /\ UNCHANGED <<alive, nrRunning, running, sleeping>>

\* Faults: a worker that finds no group leaves without, and one that finds a
\* group continues with, giving up its place in the pool.
LeaveUncounted(w) ==
    /\ w \in running
    /\ stack[w] = << >>
    /\ Len(stack[w]) + 1 <= MaxDepth
    /\ \E m \in 0 .. Len(registry) :
         /\ IsBack(m)
         /\ IF m > 0
            THEN TakeFrom(w, m) /\ UNCHANGED running
            ELSE /\ registry' = << >>
                 /\ running' = running \ {w}
                 /\ UNCHANGED <<grp, stack>>
    /\ UNCHANGED <<alive, sleeping, nrRunning>>
DecommissionEveryTurn(w) ==
    /\ w \in running
    /\ stack[w] = << >>
    /\ Len(stack[w]) + 1 <= MaxDepth
    /\ nrRunning' = nrRunning - 1
    /\ \E m \in 0 .. Len(registry) :
         /\ IsBack(m)
         /\ IF m > 0
            THEN TakeFrom(w, m) /\ UNCHANGED running
            ELSE /\ registry' = << >>
                 /\ running' = running \ {w}
                 /\ UNCHANGED <<grp, stack>>
    /\ UNCHANGED <<alive, sleeping>>

\* One turn of DoThisOrThatAndDecommission: TakeOneTaskOrDecommissionThread.
WorkerTurn(w) ==
    /\ w \in running
    /\ stack[w] = << >>
    /\ Len(stack[w]) + 1 <= MaxDepth
    /\ \E m \in 0 .. Len(registry) :
         /\ IsBack(m)
         /\ IF m > 0
            THEN /\ TakeFrom(w, m)
                 /\ UNCHANGED <<nrRunning, running>>
            ELSE /\ registry' = << >>
                 /\ nrRunning' = nrRunning - 1
                 /\ running' = running \ {w}
                 /\ UNCHANGED <<grp, stack>>
    /\ UNCHANGED <<alive, sleeping>>

-----------------------------------------------------------------------------
\* The steps a thread takes inside the tile_task_group code.
OwnerStep(t) == Join(t) \/ Await(t) \/ Destroy(t) \/ DestroyRecheck(t)
SlotStep(t) == \/ SlotStart(t)
               \/ \E suspend \in BOOLEAN : SlotReturn(t, suspend)
               \/ SlotThrow(t)

Next ==
    \/ \E t \in Thread :
         \/ \E g \in Group, n \in 0 .. MaxLast, W \in SUBSET Worker :
              Construct(t, g, n, W)
         \/ \E suspend \in BOOLEAN : Steal(t, suspend)
         \/ OwnerStep(t)
         \/ SlotStep(t)
    \/ \E w \in Worker : WorkerTurn(w)
    \/ \E g \in Group : Timeout(g)

Spec == Init /\ [][Next]_vars

\* Operator code returns: the frame at each depth of a thread eventually makes
\* its next step, also when operator code constructs and steals in between.
\* Nothing is assumed about the workers ever getting a processor before they
\* hold a ticket, nor about timeouts.
FairSpec ==
    /\ Spec
    /\ \A t \in Thread, k \in 1 .. MaxDepth :
         SF_vars(Len(stack[t]) = k /\ (OwnerStep(t) \/ SlotStep(t)))

-----------------------------------------------------------------------------
(* Properties *)

\* Every variable has the type of the C++ object it stands for.
TypeOK ==
    /\ alive \subseteq Group
    /\ grp \in [Group -> Fields]
    /\ registry \in Seq(Group \cup {NoGroup})
    /\ nrRunning \in Nat
    /\ running \subseteq Worker
    /\ stack \in [Thread -> Seq(Frame)]
    /\ sleeping \subseteq Group

WorkPositions(g) ==
    {p \in UNION {{t} \X (1 .. Len(stack[t])) : t \in Thread} :
        /\ stack[p[1]][p[2]].pc \in WorkPc
        /\ stack[p[1]][p[2]].g = g}

\* A thread inside DoWork or in a method of a group, and every registered
\* pointer, refers to a group that is not destroyed ("or else this
\* tile_task_group may already be destroyed", DoWork); a registered group still
\* has tickets, so takeOneTileTask never pops one that it should serve.
NoUseAfterDestroy ==
    /\ \A t \in Thread : \A k \in 1 .. Len(stack[t]) : stack[t][k].g \in alive
    /\ \A k \in 1 .. Len(registry) :
         registry[k] # NoGroup =>
            registry[k] \in alive /\ HasTicket(grp[registry[k]])

\* The tickets given out are exactly the completed ones plus those that a
\* thread still holds, also after an exception settled the rest in bulk.
TicketAccounting ==
    \A g \in alive :
      /\ grp[g].commissioned = grp[g].nrCompleted + Cardinality(WorkPositions(g))
      /\ grp[g].commissioned <= grp[g].last

\* No slot is worked on by two activations, and none is worked on again after
\* its completion was registered (md_CompletedWork[i] == 0 in registerCompletion).
SlotOnce ==
    \A g \in alive :
      /\ \A p \in WorkPositions(g) :
            stack[p[1]][p[2]].i \notin grp[g].completedWork
      /\ \A p, q \in WorkPositions(g) :
            stack[p[1]][p[2]].i = stack[q[1]][q[2]].i => p = q

\* A Join that returns without an exception has seen every slot executed.
JoinComplete ==
    \A t \in Thread : \A k \in 1 .. Len(stack[t]) :
      stack[t][k].pc = "joined" =>
        grp[stack[t][k].g].completedWork = 0 .. grp[stack[t][k].g].last - 1

\* The registry counter matches the launched workers, never more than vCPUs.
WorkerBound ==
    nrRunning = Cardinality(running) /\ nrRunning <= MaxNrThreads

\* CheckThis (MG_DEBUG): the completed work adds up to m_NrCompleted.
CheckThisHolds ==
    \A g \in alive : Cardinality(grp[g].completedWork) = grp[g].nrCompleted

\* MG_CHECK(m_Commissioned == m_Last) at the start of AwaitRunningSlots.
AwaitAllCommissioned ==
    \A t \in Thread :
      TopPc(t, {"await"}) => grp[Top(t).g].commissioned = grp[Top(t).g].last

\* Every group that is constructed is eventually destroyed: Join and the
\* destructor always get their wake-up, without relying on the timeouts.
GroupEnds == \A g \in Group : (g \in alive) ~> (g \notin alive)

\* The loop of each group as TileLoop sees it.
PhaseOf(g) ==
    IF g \notin alive THEN "idle"
    ELSE IF \E t \in Thread : \E k \in 1 .. Len(stack[t]) :
              stack[t][k].g = g /\ stack[t][k].pc = "joined"
         THEN "returned" ELSE "open"

Abstract == INSTANCE TileLoop WITH
    Loop <- Group,
    phase <- [g \in Group |-> PhaseOf(g)],
    pending <- [g \in Group |-> grp[g].commissioned .. grp[g].last - 1],
    busy <- [g \in Group |-> grp[g].busy],
    done <- [g \in Group |-> grp[g].completedWork]

\* The ticket dispenser implements the parallel loop.
ImplementsTileLoop == Abstract!LoopSpec

-----------------------------------------------------------------------------
(* The inductive invariant *)

\* A prefix of the tickets was handed out, those outstanding and those completed
\* are disjoint, and the counters agree with what is outstanding.
Accounts(r) ==
    /\ r.commissioned <= r.last
    /\ r.busy \subseteq 0 .. r.commissioned - 1
    /\ r.completedWork \subseteq 0 .. r.commissioned - 1
    /\ r.busy \cap r.completedWork = {}
    /\ r.commissioned = r.nrCompleted + Cardinality(r.busy)
    /\ r.exc => ~ HasTicket(r)

\* Without an exception each ticket handed out is outstanding or completed.
NothingLost(r) ==
    ~ r.exc => 0 .. r.commissioned - 1 \subseteq r.busy \cup r.completedWork

AllDone(r) ==
    ~ HasTicket(r) /\ r.busy = {} /\ r.completedWork = 0 .. r.last - 1

GroupInv == \A g \in alive : Accounts(grp[g])

\* Frames refer to live groups, and a work frame holds an outstanding ticket.
FrameInv ==
    \A t \in Thread : \A k \in 1 .. Len(stack[t]) :
      /\ stack[t][k].g \in alive
      /\ stack[t][k].pc \in WorkPc =>
           stack[t][k].i \in grp[stack[t][k].g].busy

\* No ticket is held by two frames, and a group has one owner.
FrameUnique ==
    \A t, u \in Thread : \A k \in 1 .. Len(stack[t]), l \in 1 .. Len(stack[u]) :
      /\ stack[t][k].g = stack[u][l].g
      /\ \/ stack[t][k].pc \in OwnPc /\ stack[u][l].pc \in OwnPc
         \/ /\ stack[t][k].pc \in WorkPc /\ stack[u][l].pc \in WorkPc
            /\ stack[t][k].i = stack[u][l].i
      => t = u /\ k = l

\* A registered group is alive, has tickets left, and is registered once.
Registered(reg) ==
    \A k \in 1 .. Len(reg) : reg[k] # NoGroup =>
      /\ reg[k] \in alive
      /\ HasTicket(grp[reg[k]])
      /\ \A j \in 1 .. Len(reg) : reg[j] = reg[k] => j = k

RegistryInv == Registered(registry)

\* While its owner has not given up, a group has lost no ticket.
NoTicketLost ==
    \A t \in Thread : \A k \in 1 .. Len(stack[t]) :
      stack[t][k].pc \in {"built", "await"} => NothingLost(grp[stack[t][k].g])

\* An owner in Join works on a slot itself or has seen the last ticket go.
AwaitInv ==
    \A t \in Thread : \A k \in 1 .. Len(stack[t]) :
      stack[t][k].pc = "await" =>
        IF k = Len(stack[t]) THEN ~ HasTicket(grp[stack[t][k].g])
        ELSE /\ stack[t][k + 1].g = stack[t][k].g
             /\ stack[t][k + 1].pc \in WorkPc

\* A group whose Join returned is completed.
JoinedInv ==
    \A t \in Thread : \A k \in 1 .. Len(stack[t]) :
      stack[t][k].pc = "joined" => AllDone(grp[stack[t][k].g])

IInv ==
    /\ TypeOK
    /\ GroupInv
    /\ FrameInv
    /\ FrameUnique
    /\ RegistryInv
    /\ NoTicketLost
    /\ AwaitInv
    /\ JoinedInv
    /\ nrRunning = Cardinality(running) /\ nrRunning <= MaxNrThreads

\* What the refinement and the accounting need besides: each outstanding ticket is in
\* the hands of a thread, and a group that is not alive keeps nothing.
Occurs(f) == \E t \in Thread : \E k \in 1 .. Len(stack[t]) : stack[t][k] = f
Held(g, i) == \E pc \in WorkPc : Occurs([g |-> g, i |-> i, pc |-> pc])
TicketsHeld == \A g \in alive : \A i \in grp[g].busy : Held(g, i)
FieldsInv ==
    \A g \in Group : grp[g].last <= MaxLast /\ (g \notin alive => grp[g] = Fresh(0))

LoopInv == IInv /\ TicketsHeld /\ FieldsInv
=============================================================================
