-------------------------- MODULE MainThreadQueues --------------------------
(***************************************************************************)
(* The queues by which other threads hand work to the main thread           *)
(* (rtc/dll/src/act/MainThread.cpp), their processing by the message loop    *)
(* of GeoDmsGuiQt and by the waits of the main thread, and the thread of a   *)
(* test script, which hands its lines to the main thread one by one.         *)
(*                                                                         *)
(* The main thread, which is also the meta thread, is a stack of frames: the *)
(* handler of a message, the local list of operation_queue::Process, the     *)
(* loop of suspendible_task_queue::Process, the body of an operation, a task *)
(* or another message, and a wait: a Join, which processes operations, or    *)
(* DoWorkWhileWaiting, which processes operations and tasks.                 *)
(***************************************************************************)
EXTENDS Integers, Sequences, FiniteSets

CONSTANTS
    Main,        \* the main thread
    Worker,      \* the threads that post operations
    NrOpers,     \* bound on the posted operations: they are 1 .. NrOpers
    Task,        \* the suspendible tasks that are posted, each once
    NrLines,     \* the lines of the test script, 1 .. NrLines
    MaxDepth,    \* bound on the frames of the main thread
    MaxSuspends, \* bound on the suspensions
    MaxMessages, \* bound on the UM_PROCESS_MAINTHREAD_OPERS messages that are told apart
    NoMessage    \* the body of any other message

ASSUME QueuesAssumption ==
    /\ Main \notin Worker
    /\ NrOpers \in Nat /\ NrLines \in Nat /\ MaxDepth \in Nat
    /\ MaxSuspends \in Nat /\ MaxMessages \in Nat \ {0}
    /\ NoMessage \notin Task /\ (Task \cup {NoMessage}) \cap (1 .. NrLines) = {}

Poster == Worker \cup {Main}
Caller == Poster \cup {"script"}
Oper == 1 .. NrOpers
Line == 1 .. NrLines

VARIABLES
    operQueue,  \* s_OperQueue.m_Operations
    taskQueue,  \* s_TaskQueue.m_OperationMap: every caller posts with phase number 0
    appQueue,   \* MainWindow::m_AppOperQueue: the lines of the script
    nrPosted,   \* how many operations were posted
    tasksPosted,
    started,    \* the operations whose call was started
    done,       \* the tasks and lines whose call has ended for good
    pending,    \* s_MainThreadOperProcessRequestPending
    messages,   \* the UM_PROCESS_MAINTHREAD_OPERS messages of the main thread
    calling,    \* whether a thread is about to call RequestMainThreadOperProcessing
    blocking,   \* whether a worker has a RequestMainThreadOperProcessingBlocker; one of
                \* the main thread holds up nothing but messages to itself
    requested,  \* s_MainThreadOperProcessingRequested of each worker
    frames,     \* the stack of the main thread
    level,      \* s_ProcessMainThreadOperLevel
    suspended,  \* s_bLastResult of the SuspendTrigger
    nrSuspends,
    exec,       \* the main function: in exec(), flushing, in testResult.get(), or beyond
    script,     \* the test script: about to read a line, to post it, or waiting for it
    line        \* how many lines the script has read

posts == <<operQueue, taskQueue, appQueue, nrPosted, tasksPosted>>
requests == <<pending, messages, calling, blocking, requested>>
stack == <<frames, level, suspended, nrSuspends>>
program == <<exec, script, line>>
vars == <<posts, requests, stack, program, started, done>>

-----------------------------------------------------------------------------
Frame(kind) == [kind |-> kind, list |-> <<>>, of |-> NoMessage, waited |-> FALSE]
Body(m) == [Frame("body") EXCEPT !.of = m]
Listed(kind, queue) == [Frame(kind) EXCEPT !.list = queue]

Top == frames[Len(frames)]
On(kinds) == frames # <<>> /\ Top.kind \in kinds
Pop == SubSeq(frames, 1, Len(frames) - 1)
Become(frame) == Append(Pop, frame)
Goto(kind) == [frames EXCEPT ![Len(frames)].kind = kind]

\* BlockerBase::IsBlocked: operation_queue::Process holds a SilentBlocker.
IsBlocked == \E i \in DOMAIN frames : frames[i].kind \in {"opers", "lines"}
DidSuspend == suspended /\ ~ IsBlocked

\* The main thread is in code of an operation, a task or a message handler.
InBody == On({"body"}) /\ ~ calling[Main]
Free(t) == IF t = Main THEN InBody ELSE ~ calling[t]

-----------------------------------------------------------------------------
Init ==
    /\ operQueue = <<>> /\ taskQueue = <<>> /\ appQueue = <<>>
    /\ nrPosted = 0 /\ tasksPosted = {}
    /\ started = {} /\ done = {}
    /\ pending = FALSE /\ messages = 0
    /\ calling = [t \in Caller |-> FALSE]
    /\ blocking = [t \in Worker |-> FALSE]
    /\ requested = [t \in Worker |-> FALSE]
    /\ frames = <<>> /\ level = 0
    /\ suspended = FALSE /\ nrSuspends = 0
    /\ exec = "loop" /\ script = "read" /\ line = 0

-----------------------------------------------------------------------------
(* Posting: the message is queued under s_MainQueueSection; a queue that was  *)
(* empty requests its processing.                                            *)

\* PostMainThreadOper.
PostOper(t) ==
    /\ Free(t) /\ nrPosted < NrOpers
    /\ nrPosted' = nrPosted + 1
    /\ operQueue' = Append(operQueue, nrPosted')
    /\ calling' = [calling EXCEPT ![t] = operQueue = <<>>]
    /\ UNCHANGED <<taskQueue, appQueue, tasksPosted, pending, messages, blocking, requested>>
    /\ UNCHANGED <<stack, program, started, done>>

\* Mutant: Post tests for an empty queue after it added the task.
PostTaskUnrequested ==
    /\ Free(Main)
    /\ \E k \in Task \ tasksPosted :
          /\ tasksPosted' = tasksPosted \cup {k}
          /\ taskQueue' = Append(taskQueue, k)
    /\ UNCHANGED <<operQueue, appQueue, nrPosted, requests, stack, program, started, done>>

\* PostMainThreadTask: only the main thread posts tasks.
PostTask ==
    /\ Free(Main)
    /\ \E k \in Task \ tasksPosted :
          /\ tasksPosted' = tasksPosted \cup {k}
          /\ taskQueue' = Append(taskQueue, k)
    /\ calling' = [calling EXCEPT ![Main] = taskQueue = <<>>]
    /\ UNCHANGED <<operQueue, appQueue, nrPosted, pending, messages, blocking, requested>>
    /\ UNCHANGED <<stack, program, started, done>>

EnterBlocker(t) ==
    /\ Free(t) /\ ~ blocking[t]
    /\ nrPosted < NrOpers
    /\ blocking' = [blocking EXCEPT ![t] = TRUE]
    /\ UNCHANGED <<posts, pending, messages, calling, requested, stack, program, started, done>>

\* Mutant: the request that was held up is forgotten.
LeaveBlockerSilently(t) ==
    /\ Free(t) /\ blocking[t]
    /\ blocking' = [blocking EXCEPT ![t] = FALSE]
    /\ requested' = [requested EXCEPT ![t] = FALSE]
    /\ UNCHANGED <<posts, pending, messages, calling, stack, program, started, done>>

\* The destructor of the last blocker of this thread makes the request that it held up.
LeaveBlocker(t) ==
    /\ Free(t) /\ blocking[t]
    /\ blocking' = [blocking EXCEPT ![t] = FALSE]
    /\ requested' = [requested EXCEPT ![t] = FALSE]
    /\ calling' = [calling EXCEPT ![t] = requested[t]]
    /\ UNCHANGED <<posts, pending, messages, stack, program, started, done>>

\* RequestMainThreadOperProcessing: behind a pending request a message is posted again
\* only when none was in the last 5 seconds.  Only the main thread takes messages, and it
\* resets the flag after it took one, so that the exchange of the flag and the posting of
\* the message may be one step.
Request(t) ==
    /\ calling[t]
    /\ calling' = [calling EXCEPT ![t] = FALSE]
    /\ IF t \in Worker /\ blocking[t]
       THEN /\ requested' = [requested EXCEPT ![t] = TRUE]
            /\ UNCHANGED <<pending, messages>>
       ELSE /\ pending' = TRUE
            /\ \/ messages' = IF messages < MaxMessages THEN messages + 1 ELSE messages
               \/ pending /\ UNCHANGED messages
            /\ UNCHANGED requested
    /\ UNCHANGED <<posts, blocking, stack, program, started, done>>

-----------------------------------------------------------------------------
(* The message loop.  nativeEventFilter resumes before each message.          *)

HandleMessage ==
    /\ exec = "loop" /\ frames = <<>> /\ ~ calling[Main]
    /\ messages > 0
    /\ messages' = messages - 1
    /\ suspended' = FALSE
    /\ frames' = <<Frame("confirm")>>
    /\ UNCHANGED <<posts, pending, calling, blocking, requested, level, nrSuspends, program>>
    /\ UNCHANGED <<started, done>>

\* Any other message: a timer, a paint, a user action.
HandleOther ==
    /\ exec = "loop" /\ frames = <<>> /\ ~ calling[Main]
    /\ suspended' = FALSE
    /\ frames' = <<Body(NoMessage)>>
    /\ UNCHANGED <<posts, requests, level, nrSuspends, program, started, done>>

\* ConfirmMainThreadOperProcessing, the first step of MainWindow::ProcessAppOpers.
Confirm ==
    /\ On({"confirm"})
    /\ pending' = FALSE
    /\ frames' = Goto("handler")
    /\ UNCHANGED <<posts, messages, calling, blocking, requested, level, suspended, nrSuspends>>
    /\ UNCHANGED <<program, started, done>>

\* What a frame does after ProcessMainThreadOpers.
AfterOpers(kind) ==
    CASE kind = "handler" -> "handle_tasks"
      [] kind = "join" -> "waiting"
      [] kind = "work" -> "work_tasks"

\* Mutant: the queue is processed again while it is being processed.
ProcessMainThreadOpersNested ==
    /\ On({"handler", "join", "work"})
    /\ level' = level + 1
    /\ frames' = Append(Goto(AfterOpers(Top.kind)), Listed("opers", operQueue))
    /\ operQueue' = <<>>
    /\ UNCHANGED <<taskQueue, appQueue, nrPosted, tasksPosted, requests, suspended, nrSuspends>>
    /\ UNCHANGED <<program, started, done>>

\* ProcessMainThreadOpers: nothing while it is being called, else the queue becomes a
\* local list.
ProcessMainThreadOpers ==
    /\ On({"handler", "join", "work"})
    /\ LET next == Goto(AfterOpers(Top.kind))
       IN  IF level = 0
           THEN /\ level' = 1
                /\ frames' = Append(next, Listed("opers", operQueue))
                /\ operQueue' = <<>>
           ELSE frames' = next /\ UNCHANGED <<level, operQueue>>
    /\ UNCHANGED <<taskQueue, appQueue, nrPosted, tasksPosted, requests, suspended, nrSuspends>>
    /\ UNCHANGED <<program, started, done>>

\* operation_queue::Process calls the next member of its local list.
CallNext ==
    /\ On({"opers", "lines"}) /\ Top.list # <<>>
    /\ LET m == Head(Top.list)
       IN  /\ frames' = Append(Become([Top EXCEPT !.list = Tail(@)]),
                               Body(IF Top.kind = "opers" THEN NoMessage ELSE m))
           /\ started' = IF Top.kind = "opers" THEN started \cup {m} ELSE started
    /\ UNCHANGED <<posts, requests, level, suspended, nrSuspends, program, done>>

EndList ==
    /\ On({"opers", "lines"}) /\ Top.list = <<>>
    /\ level' = IF Top.kind = "opers" THEN level - 1 ELSE level
    /\ frames' = Pop
    /\ UNCHANGED <<posts, requests, suspended, nrSuspends, program, started, done>>

-----------------------------------------------------------------------------
(* suspendible_task_queue                                                     *)

ProcessSuspendibleTasks ==
    /\ On({"handle_tasks", "work_tasks"})
    /\ frames' = Append(Goto(IF Top.kind = "handle_tasks" THEN "app" ELSE "waiting"),
                        Frame("tasks"))
    /\ UNCHANGED <<posts, requests, level, suspended, nrSuspends, program, started, done>>

CallTask ==
    /\ On({"tasks"}) /\ ~ DidSuspend /\ taskQueue # <<>>
    /\ taskQueue' = Tail(taskQueue)
    /\ frames' = Append(frames, Body(Head(taskQueue)))
    /\ UNCHANGED <<operQueue, appQueue, nrPosted, tasksPosted, requests, level, suspended>>
    /\ UNCHANGED <<nrSuspends, program, started, done>>

EndTasks ==
    /\ On({"tasks"}) /\ (DidSuspend \/ taskQueue = <<>>)
    /\ frames' = Pop
    /\ UNCHANGED <<posts, requests, level, suspended, nrSuspends, program, started, done>>

\* MustSuspend returns TRUE for the first time: messages are waiting.
Suspend ==
    /\ On({"body", "tasks", "waiting"}) /\ ~ IsBlocked
    /\ ~ suspended /\ nrSuspends < MaxSuspends
    /\ suspended' = TRUE
    /\ nrSuspends' = nrSuspends + 1
    /\ UNCHANGED <<posts, requests, frames, level, program, started, done>>

\* MainWindow::CloseConfig, a user action, cancels the queued tasks.
CancelTasks ==
    /\ InBody /\ Len(frames) = 1 /\ ~ DidSuspend
    /\ taskQueue # <<>>
    /\ done' = done \cup {taskQueue[i] : i \in DOMAIN taskQueue}
    /\ taskQueue' = <<>>
    /\ UNCHANGED <<operQueue, appQueue, nrPosted, tasksPosted, requests, stack, program, started>>

-----------------------------------------------------------------------------
(* Bodies and their waits                                                     *)

\* OperationContext::Join, or WaitForReadyOrSuspendTrigger, which with blocked
\* suspension is a Join too.
Wait ==
    /\ InBody
    /\ ~ Top.waited /\ ~ DidSuspend
    /\ Len(frames) < MaxDepth
    /\ \E kind \in {"join", "work"} :
          /\ kind = "work" => ~ IsBlocked
          /\ frames' = Append(Become([Top EXCEPT !.waited = TRUE]), Frame(kind))
    /\ UNCHANGED <<posts, requests, level, suspended, nrSuspends, program, started, done>>

\* What was waited for is still not there: the next round.
WaitAgain ==
    /\ On({"waiting"}) /\ ~ DidSuspend
    /\ \E kind \in {"join", "work"} :
          /\ kind = "work" => ~ IsBlocked
          /\ frames' = Goto(kind)
    /\ UNCHANGED <<posts, requests, level, suspended, nrSuspends, program, started, done>>

WaitEnds ==
    /\ On({"waiting"})
    /\ frames' = Pop
    /\ UNCHANGED <<posts, requests, level, suspended, nrSuspends, program, started, done>>

\* Mutant: a task that suspended and then failed is queued again as well.
EndBodyRequeues ==
    /\ InBody
    /\ frames' = Pop
    /\ taskQueue' = IF suspended /\ Top.of \in Task THEN <<Top.of>> \o taskQueue ELSE taskQueue
    /\ done' = done \cup ({Top.of} \ {NoMessage})
    /\ UNCHANGED <<operQueue, appQueue, nrPosted, tasksPosted, requests, level, suspended>>
    /\ UNCHANGED <<nrSuspends, program, started>>

\* The end of a body.  A task that suspended goes back to the front of its queue, unless
\* it ended with an exception.
EndBody ==
    /\ InBody
    /\ frames' = Pop
    /\ \/ /\ Top.of \in Task /\ suspended
          /\ taskQueue' = <<Top.of>> \o taskQueue
          /\ UNCHANGED done
       \/ /\ done' = done \cup ({Top.of} \ {NoMessage})
          /\ UNCHANGED taskQueue
    /\ UNCHANGED <<operQueue, appQueue, nrPosted, tasksPosted, requests, level, suspended>>
    /\ UNCHANGED <<nrSuspends, program, started>>

-----------------------------------------------------------------------------
(* The queue of the application and the test script                           *)

\* Mutant: a suspension before its turn makes no new request.
ProcessAppOpersOnce ==
    /\ On({"app"})
    /\ IF appQueue = <<>> \/ DidSuspend
       THEN frames' = Pop /\ UNCHANGED appQueue
       ELSE frames' = Become(Listed("lines", appQueue)) /\ appQueue' = <<>>
    /\ UNCHANGED <<operQueue, taskQueue, nrPosted, tasksPosted, requests>>
    /\ UNCHANGED <<level, suspended, nrSuspends, program, started, done>>

\* The last part of MainWindow::ProcessAppOpers.
ProcessAppOpers ==
    /\ On({"app"})
    /\ \/ /\ appQueue = <<>>
          /\ frames' = Pop
          /\ UNCHANGED <<appQueue, calling>>
       \/ /\ appQueue # <<>> /\ DidSuspend
          /\ frames' = Pop
          /\ calling' = [calling EXCEPT ![Main] = TRUE]
          /\ UNCHANGED appQueue
       \/ /\ appQueue # <<>> /\ ~ DidSuspend
          /\ frames' = Become(Listed("lines", appQueue))
          /\ appQueue' = <<>>
          /\ UNCHANGED calling
    /\ UNCHANGED <<operQueue, taskQueue, nrPosted, tasksPosted, pending, messages, blocking>>
    /\ UNCHANGED <<requested, level, suspended, nrSuspends, program, started, done>>

\* RunTestScript reads a line and looks at mustTerminateToken.
ReadLine ==
    /\ script = "read"
    /\ \/ /\ line < NrLines /\ exec = "loop"
          /\ line' = line + 1 /\ script' = "post"
       \/ /\ line = NrLines \/ exec # "loop"
          /\ script' = "done" /\ UNCHANGED line
    /\ UNCHANGED <<posts, requests, stack, exec, started, done>>

\* MainWindow::PostAppOper always makes a request.
PostAppOper ==
    /\ script = "post" /\ ~ calling["script"]
    /\ script' = "wait"
    /\ appQueue' = Append(appQueue, line)
    /\ calling' = [calling EXCEPT !["script"] = TRUE]
    /\ UNCHANGED <<operQueue, taskQueue, nrPosted, tasksPosted, pending, messages, blocking>>
    /\ UNCHANGED <<requested, stack, exec, line, started, done>>

\* mainThreadResult.get().
LineDone ==
    /\ script = "wait" /\ ~ calling["script"] /\ line \in done
    /\ script' = "read"
    /\ UNCHANGED <<posts, requests, stack, exec, line, started, done>>

\* exec() returns; mustTerminateToken is set and the main window flushes its queue.
ExecReturns ==
    /\ exec = "loop" /\ frames = <<>> /\ ~ calling[Main]
    /\ exec' = "flush"
    /\ frames' = <<Frame("confirm")>>
    /\ UNCHANGED <<posts, requests, level, suspended, nrSuspends, script, line, started, done>>

\* testResult.get().
Flushed ==
    /\ exec = "flush" /\ frames = <<>> /\ ~ calling[Main]
    /\ exec' = "get"
    /\ UNCHANGED <<posts, requests, stack, script, line, started, done>>

\* CloseConfig.
Close ==
    /\ exec = "get" /\ script = "done"
    /\ exec' = "closed"
    /\ done' = done \cup {taskQueue[i] : i \in DOMAIN taskQueue}
    /\ taskQueue' = <<>>
    /\ UNCHANGED <<operQueue, appQueue, nrPosted, tasksPosted, requests, stack, script, line>>
    /\ UNCHANGED started

-----------------------------------------------------------------------------
MainStep ==
    \/ Confirm \/ ProcessMainThreadOpers \/ CallNext \/ EndList
    \/ ProcessSuspendibleTasks \/ CallTask \/ EndTasks \/ ProcessAppOpers
    \/ Flushed \/ Close

Next ==
    \/ \E t \in Poster : PostOper(t)
    \/ \E t \in Worker : EnterBlocker(t) \/ LeaveBlocker(t)
    \/ \E t \in Caller : Request(t)
    \/ PostTask \/ HandleMessage \/ HandleOther \/ MainStep
    \/ Suspend \/ CancelTasks \/ Wait \/ WaitAgain \/ WaitEnds \/ EndBody
    \/ ReadLine \/ PostAppOper \/ LineDone \/ ExecReturns

Spec == Init /\ [][Next]_vars

\* Every thread goes on.  Messages are received in the order of their posting, a wait
\* ends (JoinReturns of OperationScheduler), and so does every body.
Fairness ==
    /\ \A t \in Caller : WF_vars(Request(t))
    /\ \A t \in Worker : SF_vars(LeaveBlocker(t))
    /\ WF_vars(MainStep) /\ WF_vars(ReadLine \/ PostAppOper \/ LineDone)
    /\ SF_vars(HandleMessage) /\ SF_vars(WaitEnds) /\ SF_vars(EndBody)

FairSpec == Spec /\ Fairness

-----------------------------------------------------------------------------
Frames ==
    [kind : {"confirm", "handler", "handle_tasks", "app", "opers", "lines", "tasks", "body",
             "join", "work", "work_tasks", "waiting"},
     list : Seq(Oper \cup Line), of : Task \cup Line \cup {NoMessage}, waited : BOOLEAN]

\* Every variable has its type, and s_ProcessMainThreadOperLevel is the number of active
\* calls of s_OperQueue.Process.
TypeOK ==
    /\ operQueue \in Seq(Oper) /\ taskQueue \in Seq(Task) /\ appQueue \in Seq(Line)
    /\ nrPosted \in 0 .. NrOpers /\ tasksPosted \subseteq Task
    /\ started \subseteq Oper /\ done \subseteq Task \cup Line
    /\ pending \in BOOLEAN /\ messages \in 0 .. MaxMessages
    /\ calling \in [Caller -> BOOLEAN]
    /\ blocking \in [Worker -> BOOLEAN] /\ requested \in [Worker -> BOOLEAN]
    /\ frames \in Seq(Frames)
    /\ level = Cardinality({i \in DOMAIN frames : frames[i].kind = "opers"})
    /\ suspended \in BOOLEAN /\ nrSuspends \in 0 .. MaxSuspends
    /\ exec \in {"loop", "flush", "get", "closed"}
    /\ script \in {"read", "post", "wait", "done"} /\ line \in 0 .. NrLines

\* Operations are called in the order in which they were posted and one at a time, also
\* when one of them waits and the main thread looks at the queue again from inside that
\* call (avoidReenty of ProcessMainThreadOpers).
OpersInOrder ==
    /\ \A o \in started : 1 .. o \subseteq started
    /\ Cardinality({i \in DOMAIN frames : i > 1 /\ frames[i].kind = "body"
                                             /\ frames[i - 1].kind = "opers"}) <= 1

\* A posted task is at exactly one place: in the queue, being called, or finished.  A
\* suspension neither loses nor doubles it, also when a task waits and other tasks are
\* called from its wait (suspendible_task_queue::Process).  The variables have their types.
TasksAccounted ==
    /\ TypeOK
    /\ \A k \in tasksPosted :
       LET queued == {i \in DOMAIN taskQueue : taskQueue[i] = k}
           called == {i \in DOMAIN frames : frames[i].of = k}
       IN  Cardinality(queued) + Cardinality(called) + Cardinality({k} \cap done) = 1

\* As long as the message loop runs, every posted operation is called: no request is lost
\* between the blockers, the pending flag and the message queue.
OpersRun == \A o \in Oper : o <= nrPosted ~> (o \in started \/ exec # "loop")

\* As long as the message loop runs, every posted line of the script is run, also when
\* tasks suspend before its turn (MainWindow::ProcessAppOpers).
LinesRun == \A i \in Line : (line = i /\ script = "wait") ~> (i \in done \/ exec # "loop")

\* As long as nothing suspends and the message loop runs, every posted task ends.
TasksRun == \A k \in Task : k \in tasksPosted ~> (k \in done \/ nrSuspends > 0 \/ exec # "loop")

\* "flush remaining operation(s)" (main_qt.cpp): when the main thread starts to wait for
\* the script, no line of the script waits for the main thread.
LinesAreFlushed == exec = "get" => script # "wait" \/ line \in done

-----------------------------------------------------------------------------
(* The inductive invariant *)

\* Only a body is of a message, and a local list is of its own queue.
Shape ==
    {f \in Frames : /\ f.kind # "body" => f.of = NoMessage
                    /\ f.kind = "opers" => f.list \in Seq(Oper)
                    /\ f.kind = "lines" => f.list \in Seq(Line)}

IsOpers(d) == frames[d].kind = "opers"
Queued(k) == \E i \in DOMAIN taskQueue : taskQueue[i] = k
Called(k) == \E d \in DOMAIN frames : frames[d].of = k

TypeInv ==
    /\ operQueue \in Seq(Oper) /\ taskQueue \in Seq(Task) /\ appQueue \in Seq(Line)
    /\ nrPosted \in 0 .. NrOpers /\ tasksPosted \subseteq Task
    /\ started \subseteq Oper /\ done \subseteq Task \cup Line
    /\ pending \in BOOLEAN /\ messages \in 0 .. MaxMessages
    /\ calling \in [Caller -> BOOLEAN]
    /\ blocking \in [Worker -> BOOLEAN] /\ requested \in [Worker -> BOOLEAN]
    /\ frames \in Seq(Shape)
    /\ suspended \in BOOLEAN /\ nrSuspends \in 0 .. MaxSuspends
    /\ exec \in {"loop", "flush", "get", "closed"}
    /\ script \in {"read", "post", "wait", "done"} /\ line \in 0 .. NrLines
    /\ script \in {"post", "wait"} => line \in Line

\* s_OperQueue.Process is active once at most, and the level says so.
LevelInv ==
    /\ level \in {0, 1}
    /\ level = 1 <=> \E d \in DOMAIN frames : IsOpers(d)
    /\ \A c, d \in DOMAIN frames : IsOpers(c) /\ IsOpers(d) => c = d

\* The operations that were started, those of the local list and those of the queue are
\* the posted ones, in the order of their posting.
OrderInv ==
    /\ \A i \in DOMAIN operQueue : operQueue[i] = nrPosted - Len(operQueue) + i
    /\ level = 0 => started = 1 .. nrPosted - Len(operQueue)
    /\ \A d \in DOMAIN frames : IsOpers(d) =>
          LET list == frames[d].list
              first == nrPosted - Len(operQueue) - Len(list)
          IN  /\ started = 1 .. first
              /\ \A j \in DOMAIN list : list[j] = first + j

\* A task is queued once, or is called by one frame, or has ended.
TaskInv ==
    /\ \A i, j \in DOMAIN taskQueue : taskQueue[i] = taskQueue[j] => i = j
    /\ \A c, d \in DOMAIN frames :
          frames[c].of \in Task /\ frames[c].of = frames[d].of => c = d
    /\ \A k \in Task :
          /\ k \in tasksPosted <=> (Queued(k) \/ Called(k) \/ k \in done)
          /\ Queued(k) => ~ Called(k) /\ k \notin done
          /\ Called(k) => k \notin done

IInv == TypeInv /\ LevelInv /\ OrderInv /\ TaskInv
=============================================================================
