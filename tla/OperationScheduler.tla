------------------------- MODULE OperationScheduler -------------------------
(***************************************************************************)
(* The scheduler of tic/dll/src/OperationContext.cpp.  An operation context *)
(* calculates the result of one operator.  It waits for the contexts that   *)
(* calculate its arguments, is queued per phase, activated, licensed to one *)
(* thread, run, and ended; its end releases or fails its waiters.           *)
(*                                                                         *)
(* All scheduling state is protected by cs_ThreadMessing, so one action is  *)
(* one critical section.  Whatever a critical section puts in a garbage_can *)
(* is destroyed by the same thread after it released the lock: those        *)
(* deferred calls are the items of todo[t], and a thread does nothing else  *)
(* before its items are gone.  A thread is a stack of frames: payloads it   *)
(* runs, Joins it waits in (from which it may steal other payloads), and,   *)
(* on the meta thread, contexts being scheduled and phase fences.           *)
(***************************************************************************)
EXTENDS Integers, Sequences, FiniteSets

CONSTANTS
    Op,        \* the operation contexts that can be created
    NoOp,      \* no context
    Meta,      \* the meta thread, which creates and schedules the contexts
    Worker,    \* the threads of the task_group
    Phase,     \* m_PhaseNumber of each context
    Args,      \* the contexts of the arguments of its operator
    Reads,     \* the contexts whose items its operator waits for while running:
               \* sources of a PhaseContainer, units whose range it asks for
    Direct,    \* the contexts whose operator has not CanRunParallel()
    Container, \* the contexts of PhaseContainer operators
    MayClose,  \* whether the configuration can be closed
    LowRam,    \* whether IsLowOnFreeRAM() can be true
    MaxDepth   \* bound on the frames of one thread

ASSUME SchedulerAssumption ==
    /\ IsFiniteSet(Op)
    /\ NoOp \notin Op
    /\ Meta \notin Worker
    /\ Phase \in [Op -> Nat \ {0}]
    /\ Args \in [Op -> SUBSET Op]
    /\ Reads \in [Op -> SUBSET Op]
    /\ \A c \in Op : \A a \in Args[c] : Phase[a] <= Phase[c] /\ a # c
    /\ \A c \in Op : \A r \in Reads[c] : Phase[r] <= Phase[c] /\ r # c
    /\ Direct \subseteq Op /\ Container \subseteq Op
    /\ \A c \in Container : \A r \in Reads[c] : Phase[r] < Phase[c]
    /\ MayClose \in BOOLEAN /\ LowRam \in BOOLEAN
    /\ MaxDepth \in Nat

Thread == Worker \cup {Meta}
PhaseNr == {Phase[c] : c \in Op}

VARIABLES
    life,        \* "new", "alive", or "dead" once the last shared_ptr is gone
    status,      \* m_Status
    result,      \* the result item: "none", "ready" or "failed"
    owned,       \* whether FuncDC.m_OperContext and m_FuncDC still link up
    hasFunc,     \* whether m_TaskFunc is set
    writeLock,   \* whether m_WriteLock is held
    suppliers,   \* m_Suppliers
    waiters,     \* m_Waiters
    queued,      \* the members of the queues in s_ScheduledContextsMap
    radio,       \* s_RadioActives
    tasks,       \* the selfCallers handed to the task_group
    nrActive,    \* s_NrActivatedOrRunningOperations
    activePhase, \* s_CurrActivePhaseNumber
    finished,    \* s_CurrFinishedCount
    asleep,      \* the threads waiting on cv_TaskCompleted
    stack,       \* the frames of each thread, the innermost one last
    todo,        \* the garbage each thread has still to destroy
    closing      \* the configuration is being closed

context == <<life, result, owned, hasFunc, writeLock>>
graph == <<status, suppliers, waiters>>
queues == <<queued, nrActive, activePhase>>
vars == <<life, status, result, owned, hasFunc, writeLock, suppliers, waiters,
          queued, radio, tasks, nrActive, activePhase, finished, asleep, stack,
          todo, closing>>

-----------------------------------------------------------------------------
Final == {"cancelled", "exception", "done"}
Started == {"activated", "running"}
Status == {"none", "waiting", "scheduled"} \cup Started \cup Final

RunPc == {"start", "func", "oper", "end", "cleanup"}
JoinPc == {"loop", "inline", "collect", "steal", "again", "check", "wait"}
DirectPc == {"connect", "schedule", "suppl", "joined"}
Frame == [kind : {"run", "join", "direct", "fence"}, op : Op,
          pc : RunPc \cup JoinPc \cup DirectPc \cup {"update"},
          first : Op \cup {NoOp}, rest : SUBSET Op, seen : Nat, silent : BOOLEAN]
NewFrame(kind, c, pc, silent) ==
    [kind |-> kind, op |-> c, pc |-> pc, first |-> NoOp, rest |-> {},
     seen |-> 0, silent |-> silent]

Item == [do : {"fail", "endFailed", "cancel", "destroy"}, op : Op]
        \cup [do : {"start"}, op : {NoOp}]
Start == [do |-> "start", op |-> NoOp]

Top(t) == stack[t][Len(stack[t])]
Pop(s) == [k \in 1 .. Len(s) - 1 |-> s[k]]
Push(s, f) == [k \in 1 .. Len(s) + 1 |-> IF k <= Len(s) THEN s[k] ELSE f]
SetTop(s, f) == [k \in 1 .. Len(s) |-> IF k = Len(s) THEN f ELSE s[k]]
Goto(t, pc) == SetTop(stack[t], [Top(t) EXCEPT !.pc = pc])

Ready(t) == todo[t] = {} /\ t \notin asleep
At(t, kind, pc) ==
    /\ stack[t] # << >>
    /\ Top(t).pc = pc /\ Top(t).kind = kind
    /\ Ready(t)
Room(t, n) == Len(stack[t]) + n <= MaxDepth

\* The places of the frames on all stacks, and those that refer to context c.
FrameAt(p) == stack[p[1]][p[2]]
Places == UNION {{t} \X (1 .. Len(stack[t])) : t \in Thread}
FramesOf(c) == {p \in Places : FrameAt(p).op = c}

\* The meta thread is in code that updates items on behalf of a view.
InViewCode == (stack[Meta] # << >> => Top(Meta).kind = "fence") /\ Ready(Meta)

\* SuspendTrigger: only the meta thread, when nothing on its stack blocks it.
MaySuspend(t) ==
    t = Meta /\ \A k \in 1 .. Len(stack[t]) : ~ stack[t][k].silent

\* s_CurrBlockedPhaseNumber, or 0: the innermost PhaseContainer being prepared.
Fences == {k \in 1 .. Len(stack[Meta]) : stack[Meta][k].kind = "fence"}
BlockedPhase ==
    IF Fences = {} THEN 0
    ELSE Phase[stack[Meta][CHOOSE k \in Fences : \A j \in Fences : j <= k].op]
Fenced(c) == BlockedPhase # 0 /\ Phase[c] >= BlockedPhase

\* Fault: a Join does not count itself.
JoinsUncounted == 0

\* s_NrWaitingJoins
NrWaitingJoins ==
    Cardinality({p \in Places :
        FrameAt(p).kind = "join" /\ FrameAt(p).pc \notin {"loop", "inline"}})

\* Somebody holds a shared_ptr to c: the copy of m_Suppliers that
\* JoinSupplOrSuspendTrigger works through holds one as well.
Referenced(c) ==
    \/ owned[c]
    \/ \E w \in Op : c \in suppliers[w]
    \/ FramesOf(c) # {}
    \/ \E p \in Places : c \in FrameAt(p).rest
    \/ \E t \in Thread : [do |-> "endFailed", op |-> c] \in todo[t]

-----------------------------------------------------------------------------
Init ==
    /\ life = [c \in Op |-> "new"]
    /\ status = [c \in Op |-> "none"]
    /\ result = [c \in Op |-> "none"]
    /\ owned = [c \in Op |-> FALSE]
    /\ hasFunc = [c \in Op |-> FALSE]
    /\ writeLock = [c \in Op |-> FALSE]
    /\ suppliers = [c \in Op |-> {}]
    /\ waiters = [c \in Op |-> {}]
    /\ queued = {}
    /\ radio = << >>
    /\ tasks = {}
    /\ nrActive = [p \in PhaseNr |-> 0]
    /\ activePhase = 0
    /\ finished = 0
    /\ asleep = {}
    /\ stack = [t \in Thread |-> << >>]
    /\ todo = [t \in Thread |-> {}]
    /\ closing = FALSE

Lowest(P) == CHOOSE p \in P : \A q \in P : p <= q

\* scheduleRunnableTask for the contexts of S: they enter their phase queue and
\* no context of a higher phase is started before them.
Enqueue(S) ==
    /\ queued' = queued \cup S
    /\ activePhase' = Lowest({activePhase} \cup {Phase[c] : c \in S})

\* Fault: only "done" is seen as established.
EndingUnlessDone(S) == {c \in S : status[c] # "done"}

\* onEnd / separateResources(st) for the contexts of S that have not ended yet:
\* releaseRunCount, everything they hold is let go, and disconnect_waiters.  A
\* waiter whose last supplier is done becomes runnable; the failure or
\* cancellation of a supplier reaches it by a deferred call of the same thread.
Ending(S) == {c \in S : status[c] \notin Final}
WaitersOf(S) == {w \in Op : life[w] = "alive" /\ \E c \in S : w \in waiters[c]}
SuppliersAfter(S) ==
    [w \in Op |-> IF w \in S THEN {}
                  ELSE suppliers[w] \ {c \in S : w \in waiters[c]
                                                 /\ life[w] = "alive"}]
\* Fault: the first supplier that is done makes a waiter runnable.
RunnableAfterFirst(S, st) ==
    {w \in WaitersOf(S) \ S : st = "done" /\ status[w] = "waiting"}

\* The waiters for which disconnect_supplier calls scheduleRunnableTask.
Runnable(S, st) ==
    {w \in WaitersOf(S) \ S :
        st = "done" /\ status[w] = "waiting" /\ SuppliersAfter(S)[w] = {}}
RunCount(S, p) == Cardinality({c \in S : status[c] \in Started /\ Phase[c] = p})

\* Fault: the failure of a supplier is not forwarded.
FailuresUnforwarded(S, st) ==
    IF S = {} THEN {}
    ELSE {Start} \cup
         IF st # "cancelled" THEN {}
         ELSE {[do |-> "cancel", op |-> w] : w \in WaitersOf(S)}

\* The deferred calls that the end of S leaves to the thread.
EndItems(S, st) ==
    LET consequence == [exception |-> "fail", cancelled |-> "cancel"]
    IN  IF S = {} THEN {}
        ELSE {Start} \cup
             IF st = "done" THEN {}
             ELSE {[do |-> consequence[st], op |-> w] : w \in WaitersOf(S)}

\* The contexts of S give up f.
Detach(S, f) == [c \in Op |-> c \notin S /\ f[c]]

EndAll(S, st) ==
    /\ status' = [c \in Op |-> IF c \in S THEN st
                               ELSE IF c \in Runnable(S, st) THEN "scheduled"
                               ELSE status[c]]
    /\ suppliers' = SuppliersAfter(S)
    /\ waiters' = [c \in Op |-> IF c \in S THEN {} ELSE waiters[c]]
    /\ hasFunc' = Detach(S, hasFunc)
    /\ owned' = Detach(S, owned)
    /\ writeLock' = Detach(S, writeLock)
    /\ nrActive' = [p \in PhaseNr |-> nrActive[p] - RunCount(S, p)]
    /\ asleep' = IF /\ \E p \in PhaseNr : /\ p = activePhase
                                          /\ RunCount(S, p) > 0
                                          /\ nrActive[p] = RunCount(S, p)
                 THEN {} ELSE asleep
    /\ finished' = finished + Cardinality(S)

\* OnEnd(st) by thread t, to whose garbage items it adds its own: nothing when c has
\* ended already ("don't change an already established final status").
OnEnd(t, c, st, items) ==
    /\ EndAll(Ending({c}), st)
    /\ Enqueue(Runnable(Ending({c}), st))
    /\ todo' = [todo EXCEPT ![t] = items \cup EndItems(Ending({c}), st)]

-----------------------------------------------------------------------------
(* Creating and scheduling, on the meta thread *)

\* CallCalcResult of an argument succeeded: it is being calculated or is ready.
Usable(a) ==
    \/ result[a] = "ready"
    \/ owned[a] /\ status[a] \in {"waiting", "scheduled"} \cup Started

\* CheckCalculatingOrReady or failed, for everything the operator of c waits for.
ReadsStarted(c) == \A r \in Reads[c] : Usable(r) \/ status[r] \in Final

\* FuncDC::CallCalcResultImpl up to ScheduleCalcResult: the context is created,
\* or found again when an earlier attempt was suspended.  PreCalcUpdate of a
\* PhaseContainer updates its sources behind a fence.
Begin(c) ==
    /\ InViewCode /\ Room(Meta, 3)
    /\ ~ closing
    /\ ~ Fenced(c)
    /\ \/ life[c] = "new"
       \/ owned[c] /\ status[c] = "none" /\ FramesOf(c) = {}
    /\ result[c] = "none"
    /\ \A a \in Args[c] : Usable(a)
    /\ c \notin Container => ReadsStarted(c)
    /\ life' = [life EXCEPT ![c] = "alive"]
    /\ owned' = [owned EXCEPT ![c] = TRUE]
    /\ stack' = [stack EXCEPT ![Meta] = Push(@,
          IF c \in Container THEN NewFrame("fence", c, "update", FALSE)
                             ELSE NewFrame("direct", c, "connect", FALSE))]
    /\ UNCHANGED <<graph, queues, result, hasFunc, writeLock, radio, tasks,
                   finished, asleep, todo, closing>>

\* PreCalcUpdate returns: every source is being calculated, or it suspended.
EndFence ==
    /\ At(Meta, "fence", "update")
    /\ \/ /\ ReadsStarted(Top(Meta).op)
          /\ stack' = [stack EXCEPT ![Meta] = SetTop(@,
                 NewFrame("direct", Top(Meta).op, "connect", FALSE))]
       \/ /\ MaySuspend(Meta)
          /\ stack' = [stack EXCEPT ![Meta] = Pop(@)]
    /\ UNCHANGED <<context, graph, queues, radio, tasks, finished, asleep, todo,
                   closing>>

\* connect, for the suppliers S of c.
ConnectWaiter(c, S) ==
    [a \in Op |-> IF a \in S THEN waiters[a] \cup {c} ELSE waiters[a]]

\* ScheduleCalcResult and Schedule up to ScheduleThis: the payload and the write
\* lock are set and the arguments still being calculated become suppliers.
Connect ==
    /\ At(Meta, "direct", "connect")
    /\ LET c == Top(Meta).op
           S == {a \in Args[c] : owned[a] /\ status[a] \notin Final}
       IN  IF result[c] = "failed"
           THEN /\ OnEnd(Meta, c, "exception", {})
                /\ stack' = [stack EXCEPT ![Meta] = Pop(@)]
                /\ UNCHANGED <<life, result, radio, tasks, closing>>
           ELSE /\ hasFunc' = [hasFunc EXCEPT ![c] = TRUE]
                /\ writeLock' = [writeLock EXCEPT ![c] = TRUE]
                /\ suppliers' = [suppliers EXCEPT ![c] = @ \cup S]
                /\ waiters' = ConnectWaiter(c, S)
                /\ stack' = [stack EXCEPT ![Meta] = Goto(Meta, "schedule")]
                /\ UNCHANGED <<life, status, result, owned, queues, radio, tasks,
                               finished, asleep, todo, closing>>

\* OperationContext_ScheduleThis.  A context that runs in parallel is queued or
\* waits (its suppliers were scheduled before it, so scheduleThis never recurs);
\* a direct one first joins its suppliers.
Schedule ==
    /\ At(Meta, "direct", "schedule")
    /\ LET c == Top(Meta).op
       IN  IF c \notin Direct
           THEN /\ IF status[c] = "none"
                   THEN LET now == suppliers[c] = {}
                        IN  /\ status' = [status EXCEPT ![c] =
                                  IF now THEN "scheduled" ELSE "waiting"]
                            /\ Enqueue(IF now THEN {c} ELSE {})
                   ELSE UNCHANGED <<status, queued, activePhase>>
                /\ stack' = [stack EXCEPT ![Meta] = Pop(@)]
                /\ UNCHANGED todo
           ELSE /\ stack' = [stack EXCEPT ![Meta] = SetTop(@,
                      [Top(Meta) EXCEPT !.pc = "suppl", !.rest =
                         IF status[c] = "none" THEN suppliers[c] ELSE {}])]
                /\ todo' = [todo EXCEPT ![Meta] =
                      IF status[c] = "none" /\ suppliers[c] # {}
                      THEN {Start} ELSE {}]
                /\ UNCHANGED <<status, queued, activePhase>>
    /\ UNCHANGED <<context, suppliers, waiters, nrActive, radio, tasks, finished,
                   asleep, closing>>

\* JoinSupplOrSuspendTrigger: the next supplier is joined.
JoinSupplier(s) ==
    /\ At(Meta, "direct", "suppl") /\ Room(Meta, 1)
    /\ s \in Top(Meta).rest
    /\ stack' = [stack EXCEPT ![Meta] = Push(
          SetTop(@, [Top(Meta) EXCEPT !.pc = "joined", !.first = s]),
          NewFrame("join", s, "loop", FALSE))]
    /\ UNCHANGED <<context, graph, queues, radio, tasks, finished, asleep, todo,
                   closing>>

\* ... and its status is examined; HandleFail takes over its failure.
SupplierJoined ==
    /\ At(Meta, "direct", "joined")
    /\ LET c == Top(Meta).op
           s == Top(Meta).first
       IN  IF status[s] = "exception" /\ result[s] = "failed" /\ status[c] \notin Final
           THEN /\ result' = [result EXCEPT ![c] = "failed"]
                /\ OnEnd(Meta, c, "exception", {})
                /\ stack' = [stack EXCEPT ![Meta] = Pop(@)]
                /\ UNCHANGED <<life, radio, tasks, closing>>
           ELSE /\ stack' = [stack EXCEPT ![Meta] =
                      IF status[s] = "done"
                      THEN SetTop(@, [Top(Meta) EXCEPT !.pc = "suppl",
                                        !.first = NoOp, !.rest = @ \ {s}])
                      ELSE Pop(@)]
                /\ UNCHANGED <<context, graph, queues, radio, tasks, finished,
                               asleep, todo, closing>>

\* SuspendTrigger::DidSuspend() makes the scheduling of a direct context stop.
SuspendDirect ==
    /\ At(Meta, "direct", "suppl")
    /\ MaySuspend(Meta)
    /\ stack' = [stack EXCEPT ![Meta] = Pop(@)]
    /\ UNCHANGED <<context, graph, queues, radio, tasks, finished, asleep, todo,
                   closing>>

\* Fault: it is run before its suppliers are joined.
NothingJoined == TRUE

\* JoinSupplOrSuspendTrigger has seen every supplier done.
AllJoined == Top(Meta).rest = {}

\* A direct context whose suppliers are done takes its license, whatever the
\* active phase, and is run by the meta thread.
RunDirect ==
    /\ At(Meta, "direct", "suppl")
    /\ AllJoined
    /\ LET c == Top(Meta).op
           may == status[c] \notin Final \cup {"running"}
       IN  /\ status' = [status EXCEPT ![c] = IF may THEN "running" ELSE @]
           /\ nrActive' = [nrActive EXCEPT ![Phase[c]] =
                 @ + IF may /\ status[c] # "activated" THEN 1 ELSE 0]
           /\ stack' = [stack EXCEPT ![Meta] =
                 IF may THEN SetTop(@, NewFrame("run", c, "start", FALSE)) ELSE Pop(@)]
    /\ UNCHANGED <<context, suppliers, waiters, queued, activePhase, radio, tasks,
                   finished, asleep, todo, closing>>

-----------------------------------------------------------------------------
(* Activating, licensing and stealing *)

QueueOf(p) == {c \in queued : Phase[c] = p}
Live(Q) == {c \in Q : life[c] = "alive" /\ status[c] \notin Final}

\* Fault: it goes to a higher phase whatever runs.
MayReachAny(p) == TRUE

\* collectOperationContexts goes to a higher phase only "when all lower-phase
\* tasks are done": no context of a lower phase is activated or running.
MayReach(p) ==
    p > activePhase => \A q \in PhaseNr : q < p => nrActive[q] = 0

\* The pass ends in the queue of phase p, of which it processed the contexts S.
\* Lower queues hold only ended or expired contexts, unless it is cancelling.  It
\* stops halfway when RAM is low and as many contexts are active as Joins are
\* waiting, or at the end of the queue because it activated something or can
\* reach no higher phase.
Lower(p) == {c \in queued : Phase[c] < p}
Pass(p, S, cancel) ==
    /\ QueueOf(p) # {} /\ S \subseteq QueueOf(p)
    /\ MayReach(p)
    /\ cancel \/ Live(Lower(p)) = {}
    /\ IF S # QueueOf(p)
       THEN /\ LowRam
            /\ IF S = {} \/ cancel THEN nrActive[p] >= NrWaitingJoins
               ELSE nrActive[p] < NrWaitingJoins
                    /\ nrActive[p] + Cardinality(Live(S)) = NrWaitingJoins
       ELSE (~ cancel /\ Live(S) # {})
            \/ \A q \in PhaseNr : q > p /\ QueueOf(q) # {} => ~ MayReach(q)

\* Fault: the contexts of A are not counted.
ActivateUncounted(A) ==
    /\ status' = [c \in Op |-> IF c \in A THEN "activated" ELSE status[c]]
    /\ tasks' = tasks \cup A
    /\ \E order \in [1 .. Cardinality(A) -> A] :
          /\ \A i, j \in 1 .. Cardinality(A) : order[i] = order[j] => i = j
          /\ radio' = radio \o order
    /\ UNCHANGED <<suppliers, waiters, context, finished, asleep, nrActive>>

\* collectTaskImpl for the contexts of A, and their selfCallers for the task_group.
Activate(A) ==
    /\ status' = [c \in Op |-> IF c \in A THEN "activated" ELSE status[c]]
    /\ nrActive' = [p \in PhaseNr |->
          nrActive[p] + Cardinality({c \in A : Phase[c] = p})]
    /\ tasks' = tasks \cup A
    /\ \E order \in [1 .. Cardinality(A) -> A] :
          /\ \A i, j \in 1 .. Cardinality(A) : order[i] = order[j] => i = j
          /\ radio' = radio \o order
    /\ UNCHANGED <<suppliers, waiters, context, finished, asleep>>

\* StartOperationContexts by thread t, which has items left to do.  When
\* DSM::IsCancelling() the contexts are cancelled instead of activated.
Collect(t, items) ==
    \/ /\ \A p \in PhaseNr : QueueOf(p) # {} => ~ MayReach(p)
       /\ todo' = [todo EXCEPT ![t] = items]
       /\ UNCHANGED <<context, graph, queues, radio, tasks, finished, asleep>>
    \/ \E cancel \in {FALSE, closing}, p \in PhaseNr : \E S \in SUBSET QueueOf(p) :
         /\ Pass(p, S, cancel)
         /\ queued' = queued \ (Lower(p) \cup S)
         /\ activePhase' = IF p > activePhase THEN p ELSE activePhase
         /\ LET X == Live(Lower(p) \cup S)
            IN  IF cancel
                THEN /\ EndAll(X, "cancelled")
                     /\ todo' = [todo EXCEPT ![t] = items \cup EndItems(X, "cancelled")]
                     /\ UNCHANGED <<life, result, radio, tasks>>
                ELSE /\ Activate(X)
                     /\ todo' = [todo EXCEPT ![t] = items]

\* Fault: a context that is running already is licensed again.
LicenseAgain(c) == status[c] \in Started /\ Phase[c] <= activePhase

\* Fault: a context that is placed back does not return to its queue.
PlaceBackLost(S) ==
    /\ UNCHANGED queued
    /\ nrActive' = [p \in PhaseNr |->
          nrActive[p] - Cardinality({c \in S : Phase[c] = p})]

\* getUniqueLicenseToRun(FALSE) for an activated context: it may run, or is placed
\* back because an earlier phase came into focus again.
License(c) == status[c] = "activated" /\ Phase[c] <= activePhase
PlaceBack(S) ==
    /\ queued' = queued \cup S
    /\ nrActive' = [p \in PhaseNr |->
          nrActive[p] - Cardinality({c \in S : Phase[c] = p})]
PutBack(S) == {c \in S : status[c] = "activated" /\ Phase[c] > activePhase}

\* TryRunningTaskInline by thread t, whose stack becomes onRun or onFail.
TryRunning(t, c, onRun, onFail) ==
    /\ status' = [status EXCEPT ![c] =
          IF License(c) THEN "running" ELSE IF PutBack({c}) # {} THEN "scheduled" ELSE @]
    /\ PlaceBack(PutBack({c}))
    /\ stack' = [stack EXCEPT ![t] = IF License(c) THEN onRun ELSE onFail]
    /\ UNCHANGED <<context, suppliers, waiters, activePhase, finished, asleep>>

\* The task_group runs a selfCaller on an idle thread.
RunTask(w, c) ==
    /\ c \in tasks /\ w \in Worker
    /\ stack[w] = << >> /\ Ready(w) /\ Room(w, 1)
    /\ tasks' = tasks \ {c}
    /\ IF life[c] = "alive"
       THEN TryRunning(w, c, Push(stack[w], NewFrame("run", c, "start", FALSE)), stack[w])
       ELSE UNCHANGED <<context, graph, queues, finished, asleep, stack>>
    /\ UNCHANGED <<radio, todo, closing>>

\* FindAndLicenceOnePriorityTasks: contexts are popped from s_RadioActives until
\* one can be licensed or is beyond the phase fence.
RadioStops(c) == life[c] = "alive" /\ (Fenced(c) \/ License(c))
IsStop(m) ==
    /\ \A k \in 1 .. m - 1 : ~ RadioStops(radio[k])
    /\ m <= Len(radio) => RadioStops(radio[m])

\* StealOneTask, after which the Join of t continues at steal or goes to wait.
StealOneTask(t) ==
    /\ At(t, "join", "steal")
    /\ \E m \in 1 .. Len(radio) + 1 :
         /\ IsStop(m)
         /\ LET popped == {radio[k] : k \in 1 .. m - 1}
                back == PutBack({c \in popped : life[c] = "alive"})
                runs == Room(t, 1) /\ m <= Len(radio) /\ ~ Fenced(radio[m])
            IN  /\ status' = [c \in Op |->
                      IF runs /\ c = radio[m] THEN "running"
                      ELSE IF c \in back THEN "scheduled" ELSE status[c]]
                /\ PlaceBack(back)
                /\ radio' = SubSeq(radio, IF runs THEN m + 1 ELSE m, Len(radio))
                /\ stack' = [stack EXCEPT ![t] =
                      IF runs THEN Push(Goto(t, "again"),
                                        NewFrame("run", radio[m], "start", FALSE))
                      ELSE Goto(t, "wait")]
    /\ UNCHANGED <<context, suppliers, waiters, activePhase, finished, asleep,
                   tasks, todo, closing>>

-----------------------------------------------------------------------------
(* Joining *)

\* A view waits for a context, holding a SuspendTrigger blocker or not.
Join(c, silent) ==
    /\ InViewCode /\ Room(Meta, 1)
    /\ ~ closing
    /\ owned[c] /\ status[c] # "none"
    /\ ~ Fenced(c)
    /\ stack' = [stack EXCEPT ![Meta] = Push(@, NewFrame("join", c, "loop", silent))]
    /\ UNCHANGED <<context, graph, queues, radio, tasks, finished, asleep, todo,
                   closing>>

\* The head of the loop, and the Join of the first supplier that was found.
JoinLoop(t) ==
    /\ At(t, "join", "loop")
    /\ LET f == Top(t)
       IN  stack' = [stack EXCEPT ![t] =
             IF status[f.op] \in Final THEN Pop(@)
             ELSE IF f.first # NoOp /\ Room(t, 1) /\ life[f.first] = "alive"
             THEN Push(SetTop(@, [f EXCEPT !.pc = "inline", !.first = NoOp]),
                       NewFrame("join", f.first, "loop", FALSE))
             ELSE SetTop(@, [f EXCEPT !.pc = "inline", !.first = NoOp])]
    /\ UNCHANGED <<context, graph, queues, radio, tasks, finished, asleep, todo,
                   closing>>

\* Run the context inline, except on a meta thread that may be suspended.
JoinInline(t) ==
    /\ At(t, "join", "inline")
    /\ LET c == Top(t).op
           collect == Goto(t, "collect")
           tries == ~ MaySuspend(t) /\ Room(t, 1) /\ status[c] = "activated"
       IN  \/ /\ tries
              /\ TryRunning(t, c, Push(Goto(t, "loop"), NewFrame("run", c, "start", FALSE)),
                            collect)
           \/ /\ ~ tries
              /\ \/ stack' = [stack EXCEPT ![t] = collect]
                 \/ MaySuspend(t) /\ stack' = [stack EXCEPT ![t] = Pop(@)]
              /\ UNCHANGED <<context, graph, queues, finished, asleep>>
    /\ UNCHANGED <<radio, tasks, todo, closing>>

\* Fault: a Join does not call StartOperationContexts.
JoinWithoutCollect(t) ==
    /\ At(t, "join", "collect") \/ At(t, "join", "again")
    /\ LET f == Top(t)
       IN  stack' = [stack EXCEPT ![t] =
             IF f.pc = "again" THEN SetTop(@, [f EXCEPT !.pc = "check"])
             ELSE SetTop(@, [f EXCEPT !.pc = IF t = Meta THEN "wait" ELSE "steal",
                                      !.seen = finished])]
    /\ UNCHANGED <<context, graph, queues, radio, tasks, finished, asleep, todo,
                   closing>>

\* currentFinishCount is read and StartOperationContexts called; the meta thread
\* does not steal.  After a stolen payload StartOperationContexts comes again.
JoinCollect(t) ==
    /\ At(t, "join", "collect") \/ At(t, "join", "again")
    /\ Collect(t, {})
    /\ LET f == Top(t)
       IN  stack' = [stack EXCEPT ![t] =
             IF f.pc = "again" THEN SetTop(@, [f EXCEPT !.pc = "check"])
             ELSE SetTop(@, [f EXCEPT !.pc = IF t = Meta THEN "wait" ELSE "steal",
                                      !.seen = finished])]
    /\ UNCHANGED closing

JoinCheck(t) ==
    /\ At(t, "join", "check")
    /\ stack' = [stack EXCEPT ![t] =
          IF status[Top(t).op] \in Final THEN Pop(@) ELSE Goto(t, "steal")]
    /\ UNCHANGED <<context, graph, queues, radio, tasks, finished, asleep, todo,
                   closing>>

\* The contexts without suppliers at the ends of the supplier chains of c.
ChainEnds(c) ==
    LET reach[n \in 0 .. Cardinality(Op)] ==
          IF n = 0 THEN {c} ELSE UNION {suppliers[d] : d \in reach[n - 1]}
                                 \cup reach[n - 1]
    IN  {d \in Op : d \in reach[Cardinality(Op)] /\ suppliers[d] = {}}

\* The end of the loop under the lock: leave, go round again because something
\* finished, or sleep until somebody finishes or half a second has passed.
JoinWait(t) ==
    /\ At(t, "join", "wait")
    /\ LET f == Top(t)
           next == IF status[f.op] = "waiting" THEN ChainEnds(f.op) ELSE {NoOp}
           Again(d) == stack' = [stack EXCEPT ![t] =
                          SetTop(@, [f EXCEPT !.pc = "loop", !.first = d])]
       IN  CASE status[f.op] \in Final ->
                  stack' = [stack EXCEPT ![t] = Pop(@)] /\ UNCHANGED asleep
             [] status[f.op] \notin Final
                  /\ (status[f.op] = "activated" \/ f.seen # finished) ->
                  Again(NoOp) /\ UNCHANGED asleep
             [] OTHER ->
                  \/ \E d \in next : Again(d) /\ asleep' = asleep \cup {t}
                  \/ /\ t = Meta
                     /\ \E d \in next : Again(d)
                     /\ UNCHANGED asleep
                  \/ /\ MaySuspend(t)
                     /\ stack' = [stack EXCEPT ![t] = Pop(@)]
                     /\ UNCHANGED asleep
    /\ UNCHANGED <<context, graph, queues, radio, tasks, finished, todo, closing>>

\* wait_for returns after 500 ms.
Timeout(t) ==
    /\ t \in asleep
    /\ asleep' = asleep \ {t}
    /\ UNCHANGED <<context, graph, queues, radio, tasks, finished, stack, todo,
                   closing>>

\* DoWorkWhileWaiting of a view that waits for an item without a producer.  It may
\* wait for cv_TaskCompleted, and returns whatever woke it.
DoWorkWhileWaiting ==
    /\ InViewCode
    /\ Collect(Meta, {})
    /\ UNCHANGED <<stack, closing>>

-----------------------------------------------------------------------------
(* Running a payload: Run_with_cleanup *)

\* OperationContext_TakeTaskFunc
TakeTaskFunc(t) ==
    /\ At(t, "run", "start")
    /\ hasFunc' = [hasFunc EXCEPT ![Top(t).op] = FALSE]
    /\ stack' = [stack EXCEPT ![t] =
          Goto(t, IF hasFunc[Top(t).op] THEN "func" ELSE "end")]
    /\ UNCHANGED <<life, result, owned, writeLock, graph, queues, radio, tasks,
                   finished, asleep, todo, closing>>

\* Thread t sets the result of its context to res, ends it with st, and goes on
\* to leave Run_with_catch.
Abort(t, res, st) ==
    /\ result' = [result EXCEPT ![Top(t).op] = res]
    /\ OnEnd(t, Top(t).op, st, {})
    /\ stack' = [stack EXCEPT ![t] = Goto(t, "end")]
    /\ UNCHANGED <<life, radio, tasks, closing>>

\* Fault: the operator is entered whatever became of its arguments.
NoArgFails(c) == FALSE

\* failureProcessor: an argument failed.
ArgFails(c) == \E a \in Args[c] : result[a] = "failed"

\* OC_CalcResultFunc up to the operator: nothing is done without a FuncDC, the
\* failure of an argument is taken over, the read locks are set on the arguments.
EnterOperator(t) ==
    /\ At(t, "run", "func")
    /\ LET c == Top(t).op
           failed == ArgFails(c) \/ result[c] = "failed"
           Continue(pc) == /\ stack' = [stack EXCEPT ![t] = Goto(t, pc)]
                           /\ UNCHANGED <<life, owned, hasFunc, writeLock, graph,
                                  queues, radio, tasks, finished, asleep, todo, closing>>
       IN  \/ /\ ~ owned[c]
              /\ Continue("end") /\ UNCHANGED result
           \/ /\ owned[c] /\ failed
              /\ Continue("end") /\ result' = [result EXCEPT ![c] = "failed"]
           \/ /\ owned[c] /\ ~ failed /\ closing /\ t # Meta
              /\ Abort(t, result[c], "cancelled")
           \/ /\ owned[c] /\ ~ failed /\ ~ (closing /\ t # Meta)
              /\ \A a \in Args[c] : ~ writeLock[a]
              /\ Continue("oper") /\ UNCHANGED result

\* WaitReady in a running operator: lock_shared joins the producer of the item, which
\* throws on a meta thread when the producer is behind the fence being prepared.
JoinRead(t, c) ==
    /\ At(t, "run", "oper")
    /\ c \in Reads[Top(t).op]
    /\ writeLock[c] /\ life[c] = "alive"
    /\ IF t = Meta /\ Fenced(c)
       THEN Abort(t, "failed", "exception")
       ELSE /\ Room(t, 1)
            /\ stack' = [stack EXCEPT ![t] = Push(@, NewFrame("join", c, "loop", TRUE))]
            /\ UNCHANGED <<context, graph, queues, radio, tasks, finished, asleep,
                           todo, closing>>

\* The operator has read its sources and completed the result.  A PhaseContainer
\* passes the failure of a source to one of its sub-items; GetCurrSegmInfo throws.
ReturnOperator(t) ==
    /\ At(t, "run", "oper")
    /\ LET c == Top(t).op
       IN  /\ \A r \in Reads[c] : ~ writeLock[r]
           /\ IF c \notin Container /\ \E r \in Reads[c] : result[r] = "failed"
              THEN Abort(t, "failed", "exception")
              ELSE /\ result' = [result EXCEPT ![c] = IF @ = "none" THEN "ready" ELSE @]
                   /\ stack' = [stack EXCEPT ![t] = Goto(t, "end")]
                   /\ UNCHANGED <<life, owned, hasFunc, writeLock, graph, queues, radio,
                                  tasks, finished, asleep, todo, closing>>

\* It throws: CatchFail and HandleFail.
FailOperator(t) == At(t, "run", "oper") /\ Abort(t, "failed", "exception")

\* It throws task_canceled.
CancelOperator(t) ==
    /\ At(t, "run", "oper")
    /\ closing /\ t # Meta
    /\ Abort(t, result[Top(t).op], "cancelled")

\* The end of Run_with_catch releases the write lock ...
ReleaseWriteLock(t) ==
    /\ At(t, "run", "end")
    /\ writeLock' = [writeLock EXCEPT ![Top(t).op] = FALSE]
    /\ stack' = [stack EXCEPT ![t] = Goto(t, "cleanup")]
    /\ UNCHANGED <<life, result, owned, hasFunc, graph, queues, radio, tasks,
                   finished, asleep, todo, closing>>

\* ... and Run_with_cleanup ends the context.
Cleanup(t) ==
    /\ At(t, "run", "cleanup")
    /\ LET c == Top(t).op
       IN  OnEnd(t, c, IF result[c] = "failed" THEN "exception" ELSE "done", {})
    /\ stack' = [stack EXCEPT ![t] = Pop(@)]
    /\ UNCHANGED <<life, result, radio, tasks, closing>>

-----------------------------------------------------------------------------
(* Deferred garbage, interest and destruction *)

\* The deferred calls of a garbage_can, in any order: it keeps a bin per type.
Dispose(t, i) ==
    /\ t \notin asleep /\ i \in todo[t]
    /\ LET rest == todo[t] \ {i}
           c == i.op
           Ends(st) == /\ EndAll(Ending({c}), st)
                       /\ Enqueue(Runnable(Ending({c}), st))
                       /\ todo' = [todo EXCEPT ![t] = rest \cup EndItems(Ending({c}), st)]
                       /\ UNCHANGED <<life, result, radio, tasks>>
           Nothing == /\ todo' = [todo EXCEPT ![t] = rest]
                      /\ UNCHANGED <<context, graph, queues, radio, tasks, finished,
                                     asleep>>
       IN  \/ i.do = "start" /\ Collect(t, rest)
           \/ i.do \in {"fail", "cancel"} /\ life[c] # "alive" /\ Nothing
           \/ /\ i.do = "fail" /\ life[c] = "alive"
              /\ result' = [result EXCEPT ![c] = "failed"]
              /\ todo' = [todo EXCEPT ![t] =
                    rest \cup {[do |-> "endFailed", op |-> c]}]
              /\ UNCHANGED <<life, owned, hasFunc, writeLock, graph, queues, radio,
                             tasks, finished, asleep>>
           \/ i.do = "endFailed" /\ Ends("exception")
           \/ i.do = "cancel" /\ life[c] = "alive" /\ Ends("cancelled")
           \/ i.do = "destroy" /\ Ends("cancelled")
    /\ UNCHANGED <<stack, closing>>

\* Who keeps interest in the result of c: a context that has c as argument or
\* source, and the code that schedules or joins c for a view.
HasInterest(c) ==
    \/ \E w \in Op :
         /\ c \in Args[w] \cup Reads[w]
         /\ \/ owned[w] \/ hasFunc[w]
            \/ \E p \in FramesOf(w) :
                  FrameAt(p).kind = "run" /\ FrameAt(p).pc \in {"func", "oper"}
    \/ \E p \in FramesOf(c) :
         \/ FrameAt(p).kind \in {"direct", "fence"}
         \/ /\ FrameAt(p).kind = "join"
            /\ p[2] = 1 \/ stack[p[1]][p[2] - 1].kind # "join"

\* FuncDC::StopInterest: the FuncDC lets go of its context.
StopInterest(c) ==
    /\ owned[c] /\ ~ HasInterest(c)
    /\ owned' = [owned EXCEPT ![c] = FALSE]
    /\ UNCHANGED <<life, result, hasFunc, writeLock, graph, queues, radio, tasks,
                   finished, asleep, stack, todo, closing>>

\* The last shared_ptr is gone: from here on weak_ptrs to c are expired, and the
\* thread that held it runs ~OperationContext.
Expire(t, c) ==
    /\ t \notin asleep
    /\ life[c] = "alive" /\ ~ Referenced(c)
    /\ life' = [life EXCEPT ![c] = "dead"]
    /\ todo' = [todo EXCEPT ![t] = @ \cup {[do |-> "destroy", op |-> c]}]
    /\ UNCHANGED <<result, owned, hasFunc, writeLock, graph, queues, radio, tasks,
                   finished, asleep, stack, closing>>

\* MainWindow::CloseConfig starts, outside all calculation code.
Close ==
    /\ MayClose /\ ~ closing
    /\ Ready(Meta) /\ stack[Meta] = << >>
    /\ closing' = TRUE
    /\ UNCHANGED <<context, graph, queues, radio, tasks, finished, asleep, stack,
                   todo>>

-----------------------------------------------------------------------------
ScheduleStep ==
    \/ EndFence \/ Connect \/ Schedule \/ (\E s \in Op : JoinSupplier(s))
    \/ SupplierJoined \/ SuspendDirect \/ RunDirect
JoinStep(t) ==
    JoinLoop(t) \/ JoinInline(t) \/ JoinCollect(t) \/ StealOneTask(t)
    \/ JoinCheck(t) \/ JoinWait(t)
RunStep(t) ==
    \/ TakeTaskFunc(t) \/ EnterOperator(t) \/ ReturnOperator(t) \/ FailOperator(t)
    \/ CancelOperator(t) \/ ReleaseWriteLock(t) \/ Cleanup(t)

Next ==
    \/ \E c \in Op : Begin(c)
    \/ ScheduleStep
    \/ \E c \in Op, silent \in BOOLEAN : Join(c, silent)
    \/ DoWorkWhileWaiting
    \/ \E t \in Thread : \/ JoinStep(t) \/ RunStep(t) \/ Timeout(t)
                         \/ \E c \in Op : JoinRead(t, c) \/ RunTask(t, c) \/ Expire(t, c)
                         \/ \E i \in todo[t] : Dispose(t, i)
    \/ \E c \in Op : StopInterest(c)
    \/ Close

Spec == Init /\ [][Next]_vars

\* A thread that is not idle keeps executing: only the waits in a Join stop it, for
\* half a second at most.  A view may stop asking and an operator need not fail.
ThreadStep(t) ==
    \/ JoinStep(t) \/ Timeout(t) \/ TakeTaskFunc(t) \/ EnterOperator(t)
    \/ ReturnOperator(t) \/ ReleaseWriteLock(t) \/ Cleanup(t)
    \/ \E c \in Op : JoinRead(t, c) \/ RunTask(t, c) \/ Expire(t, c)
    \/ \E i \in todo[t] : Dispose(t, i)
    \/ /\ t = Meta
       /\ \/ Connect \/ Schedule \/ (\E s \in Op : JoinSupplier(s)) \/ SupplierJoined
          \/ RunDirect

FairSpec == Spec /\ \A t \in Thread : WF_vars(ThreadStep(t))

-----------------------------------------------------------------------------
(* Correctness *)

\* The shape of the state.
TypeOK ==
    /\ life \in [Op -> {"new", "alive", "dead"}]
    /\ status \in [Op -> Status]
    /\ result \in [Op -> {"none", "ready", "failed"}]
    /\ owned \in [Op -> BOOLEAN]
    /\ hasFunc \in [Op -> BOOLEAN]
    /\ writeLock \in [Op -> BOOLEAN]
    /\ suppliers \in [Op -> SUBSET Op]
    /\ waiters \in [Op -> SUBSET Op]
    /\ queued \subseteq Op
    /\ radio \in Seq(Op)
    /\ tasks \subseteq Op
    /\ nrActive \in [PhaseNr -> Nat]
    /\ activePhase \in PhaseNr \cup {0}
    /\ finished \in 0 .. Cardinality(Op)
    /\ asleep \subseteq Thread
    /\ stack \in [Thread -> Seq(Frame)]
    /\ \A t \in Thread : Len(stack[t]) <= MaxDepth
    /\ todo \in [Thread -> SUBSET Item]
    /\ closing \in BOOLEAN

\* CheckNumberOfRunningOCConsistency: the count of a phase is the number of its
\* contexts that are activated or running, whoever activated, put back or ended them.
\* The variables have their types.
RunCountMatches ==
    /\ TypeOK
    /\ \A p \in PhaseNr : nrActive[p] = RunCount(Op, p)

\* A scheduled context is in its queue, and a live context in a queue has not been
\* activated: nothing runnable is forgotten, nothing is activated twice.
QueuedMeansScheduled ==
    \A c \in Op : life[c] = "alive" =>
        (status[c] = "scheduled" => c \in queued)
        /\ (c \in queued => status[c] \in {"scheduled"} \cup Final)

\* The active phase rises only when no context of an earlier phase is activated
\* or running.
PhaseFence ==
    [][\A c \in Op : Phase[c] < activePhase' /\ activePhase < activePhase'
         => status[c] \notin Started]_vars

\* One thread at most is inside the payload of a context, and while one is, the
\* context is neither queued nor waiting.
RunFrames(c) == {p \in FramesOf(c) : FrameAt(p).kind = "run"}
UniqueRun ==
    \A c \in Op : \A p, q \in RunFrames(c) :
        p = q /\ status[c] \in {"running"} \cup Final

\* A context that ended keeps its final status (OnEnd may be called again by a
\* failing supplier, a Join that takes over a failure, or the destructor).
FinalStays ==
    [][\A c \in Op : status[c] \in Final => status'[c] = status[c]]_vars

\* Somebody is bound to end or schedule a waiting context: it has a live supplier, or
\* the failure of one is still in some thread's garbage.
PendingFor(c) ==
    \E t \in Thread : \E i \in todo[t] : i.op = c
WaitingHasReason ==
    \A c \in Op : life[c] = "alive" /\ status[c] = "waiting" =>
        \/ \E s \in suppliers[c] : status[s] \notin Final
        \/ PendingFor(c)

\* disconnect_supplier asserts that a waiter is not scheduled, activated or running.
WaitersAreNotStarted ==
    \A c \in Op : status[c] \notin Final => \A w \in waiters[c] :
        life[w] = "alive" => status[w] \in {"none", "waiting"} \cup Final

\* While an operator executes, its context holds the one license and the write lock
\* of its result, and the results it reads are complete.
OperatorIsLicensed ==
    \A c \in Op : \A p \in RunFrames(c) : FrameAt(p).pc = "oper" =>
        /\ status[c] \in Final \/ (status[c] = "running" /\ writeLock[c])
        /\ \A a \in Args[c] : result[a] = "ready"

\* scheduleRunnableTask, collectOperationContexts and getUniqueLicenseToRun assert that
\* the fence being prepared is not in a phase before the active one.
FenceNotBelowActive ==
    [][queued' \ queued # {} => BlockedPhase = 0 \/ BlockedPhase >= activePhase']_vars

\* m_Waiters holds the reverse edges of m_Suppliers, and no others.
WaitersAreSupplied ==
    \A s, w \in Op : life[w] = "alive" /\ w \in waiters[s] => s \in suppliers[w]

\* Every Join returns, the outermost one of a thread included.
Joining(t) == \E k \in 1 .. Len(stack[t]) : stack[t][k].kind = "join"
JoinReturns == \A t \in Thread : Joining(t) ~> ~ Joining(t)

-----------------------------------------------------------------------------
(* The inductive invariant, in four layers: each is inductive given those before it. *)

MetaKind == {"direct", "fence"}

\* Layer 1, existence and counts.  A context that does not exist is in nobody's state,
\* and what the owner, a supplier edge or a frame refers to is alive.
ExistInv ==
    /\ \A c \in Op : life[c] = "new" =>
         /\ status[c] = "none" /\ c \notin queued /\ suppliers[c] = {}
         /\ \A a \in Op : c \notin waiters[a]
    /\ \A c \in Op : owned[c] => life[c] = "alive"
    /\ \A w \in Op : \A a \in suppliers[w] : life[a] = "alive"
    /\ \A p \in Places : life[FrameAt(p).op] = "alive"
                         /\ \A a \in FrameAt(p).rest : life[a] = "alive"
    /\ \A t \in Thread : \A i \in todo[t] : i # Start =>
         /\ life[i.op] # "new"
         /\ i.do = "endFailed" => life[i.op] = "alive"
         /\ i.do = "destroy" => life[i.op] = "dead"

\* The two counters count, whatever route a context took.
CountInv ==
    /\ \A p \in PhaseNr : nrActive[p] = RunCount(Op, p)
    /\ finished = Cardinality({c \in Op : status[c] \in Final})

\* A direct context is never queued: its license comes from its own scheduling.
DirectInv ==
    /\ \A c \in Direct : status[c] \notin {"waiting", "scheduled", "activated"}
    /\ \A p \in Places : FrameAt(p).kind = "direct" /\ FrameAt(p).pc \in {"suppl", "joined"}
         => FrameAt(p).op \in Direct

CoreInv == TypeOK /\ ExistInv /\ CountInv /\ DirectInv /\ QueuedMeansScheduled

\* Layer 2, frames.  One thread at most is scheduling or running a context, and the
\* status tells which.
FrameInv ==
    /\ \A p \in Places :
         /\ FrameAt(p).kind = "run" =>
              status[FrameAt(p).op] \in {"running", "exception", "cancelled"}
         /\ FrameAt(p).kind \in MetaKind =>
              p[1] = Meta /\ status[FrameAt(p).op] \in {"none", "exception"}
    /\ \A p, r \in Places :
         FrameAt(p).op = FrameAt(r).op /\ FrameAt(p).kind # "join" /\ FrameAt(r).kind # "join"
         => p = r
    /\ closing => \A p \in Places : p[1] # Meta

\* The causes of an end: a failure is recorded in the result, and a live context is
\* cancelled only when the configuration closes.
CauseInv ==
    /\ \A c \in Op : status[c] = "exception" => result[c] = "failed"
    /\ \A c \in Op : status[c] = "cancelled" => closing \/ life[c] = "dead"
    /\ \A a \in Op : \A w \in waiters[a] :
         life[w] = "alive" => a \in suppliers[w] \/ status[w] \in Final
    /\ \A t \in Thread : \A i \in todo[t] :
         /\ i.do = "endFailed" => result[i.op] = "failed"
         /\ i.do = "cancel" /\ life[i.op] = "alive" => closing \/ status[i.op] \in Final

\* Layer 3, the supplier graph.  An edge leads from a context that is not started to a
\* live one that has not ended, and both ends know it.
GraphInv ==
    /\ \A a \in Op : \A w \in waiters[a] : a \in Args[w]
    /\ \A w \in Op : \A a \in suppliers[w] : life[w] = "alive" =>
         status[a] \notin Final /\ w \in waiters[a]
    /\ \A w \in Op : suppliers[w] # {} => status[w] \in {"none", "waiting"}
    /\ \A w \in Op : life[w] = "alive" /\ status[w] = "waiting" =>
         suppliers[w] # {} \/ PendingFor(w)
    /\ \A p \in Places : FrameAt(p).kind = "direct" /\ FrameAt(p).pc \in {"suppl", "joined"}
         => suppliers[FrameAt(p).op] \subseteq FrameAt(p).rest

\* Layer 4, payloads, locks and results.  A context that will be run has its payload,
\* a payload its write lock, and an argument somebody owns keeps its lock until it has
\* a result.
LockInv ==
    /\ \A c \in Op : hasFunc[c] => writeLock[c] /\ status[c] \notin Final
    /\ \A c \in Op : status[c] \in {"waiting", "scheduled", "activated"} => hasFunc[c]
    /\ \A c \in Op :
         owned[c] /\ ~ closing /\ status[c] \in {"waiting", "scheduled"} \cup Started
         => writeLock[c] \/ result[c] # "none"
    /\ \A c \in Op : owned[c] /\ ~ closing =>
         \A a \in Args[c] : result[a] # "none" \/ (owned[a] /\ writeLock[a])

\* A result is completed by its operator, from complete arguments, and never fails after.
ResultInv ==
    /\ \A c \in Op : result[c] = "ready" =>
         /\ status[c] \in {"running"} \cup Final
         /\ \A a \in Args[c] : result[a] = "ready"
    /\ \A t \in Thread : \A i \in todo[t] :
         i.do \in {"fail", "endFailed"} => \E a \in Args[i.op] : result[a] = "failed"

\* Where the payload of a context is.
PayloadInv ==
    \A p \in Places :
        LET f == FrameAt(p)
            c == f.op
            open == status[c] \notin Final
        IN  /\ f.kind = "direct" /\ f.pc \in {"schedule", "suppl", "joined"} =>
                 hasFunc[c] \/ ~ open
            /\ f.kind = "run" =>
                 /\ f.pc = "start" /\ open => hasFunc[c]
                 /\ f.pc # "start" => ~ hasFunc[c]
                 /\ f.pc \in {"func", "oper"} /\ open => writeLock[c]
                 /\ f.pc \in {"start", "func", "oper"} => result[c] # "ready"
                 /\ f.pc = "oper" => \A a \in Args[c] : result[a] = "ready"
                 /\ f.pc \in {"end", "cleanup"} => result[c] # "none" \/ ~ owned[c] \/ closing

IInv == CoreInv /\ FrameInv /\ CauseInv /\ GraphInv /\ LockInv /\ ResultInv /\ PayloadInv

=============================================================================
