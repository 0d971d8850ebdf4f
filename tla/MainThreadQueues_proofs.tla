------------------------ MODULE MainThreadQueues_proofs ------------------------
(***************************************************************************)
(* The order of operations and the accounts of tasks, for any numbers of    *)
(* threads, operations, tasks, nested waits and suspensions, by IInv.       *)
(***************************************************************************)
EXTENDS MainThreadQueues, FiniteSetTheorems, SequenceTheorems, TLAPS

-----------------------------------------------------------------------------
(* The stack of the main thread *)

At(d, f) == d \in 1 .. Len(frames) /\ frames[d] = f

\* Where operations are processed from which list, and what is called where.
OperAt(d, list) == d \in 1 .. Len(frames) /\ frames[d].kind = "opers" /\ frames[d].list = list
CallAt(d, k) == d \in 1 .. Len(frames) /\ frames[d].of = k

Stack == frames \in Seq(Shape)

LEMMA FramesLen ==
    ASSUME Stack
    PROVE  /\ Len(frames) \in Nat /\ DOMAIN frames = 1 .. Len(frames)
           /\ frames # <<>> => Len(frames) \in Nat \ {0} /\ Len(frames) \in 1 .. Len(frames)
           /\ \A d \in 1 .. Len(frames) : frames[d] \in Shape
  <1>1. Len(frames) \in Nat /\ DOMAIN frames = 1 .. Len(frames)
    BY LenProperties DEF Stack
  <1>2. frames # <<>> => Len(frames) \in Nat \ {0}
    BY EmptySeq DEF Stack
  <1>3. \A d \in 1 .. Len(frames) : frames[d] \in Shape
    BY ElementOfSeq DEF Stack
  <1> QED
    BY <1>1, <1>2, <1>3

LEMMA TopShape ==
    ASSUME Stack, NEW kinds, On(kinds)
    PROVE  /\ frames # <<>> /\ Top \in Shape /\ Top.kind \in kinds
           /\ At(Len(frames), Top)
  BY FramesLen DEF On, Top, At

\* A frame is entered.
LEMMA PushFacts ==
    ASSUME Stack, NEW f \in Shape, frames' = Append(frames, f)
    PROVE  /\ Stack'
           /\ \A d, h : At(d, h)' <=> At(d, h) \/ (d = Len(frames) + 1 /\ h = f)
  <1>1. /\ frames' \in Seq(Shape) /\ Len(frames') = Len(frames) + 1
        /\ \A d \in 1 .. Len(frames) : frames'[d] = frames[d]
        /\ frames'[Len(frames) + 1] = f
    BY AppendProperties DEF Stack
  <1>2. Len(frames) \in Nat
    BY FramesLen
  <1>3. \A d : d \in 1 .. Len(frames) + 1 <=> d \in 1 .. Len(frames) \/ d = Len(frames) + 1
    BY <1>2
  <1>4. Len(frames) + 1 \notin 1 .. Len(frames)
    BY <1>2
  <1> QED
    BY <1>1, <1>3, <1>4 DEF At, Stack

LEMMA PopProperties ==
    ASSUME Stack, frames # <<>>
    PROVE  /\ Pop \in Seq(Shape) /\ Len(Pop) = Len(frames) - 1
           /\ \A d \in 1 .. Len(frames) - 1 : Pop[d] = frames[d]
  <1>1. Len(frames) \in Nat \ {0} /\ 1 .. Len(frames) - 1 \subseteq 1 .. Len(frames)
    BY FramesLen
  <1>2. \A d \in 1 .. Len(frames) - 1 : frames[d] \in Shape
    BY <1>1, FramesLen
  <1>3. /\ Pop \in Seq(Shape)
        /\ Len(Pop) = IF 1 <= Len(frames) - 1 THEN Len(frames) - 1 - 1 + 1 ELSE 0
        /\ \A d \in 1 .. Len(frames) - 1 - 1 + 1 : Pop[d] = frames[1 + d - 1]
    BY <1>1, <1>2, SubSeqProperties DEF Pop
  <1>4. Len(Pop) = Len(frames) - 1
    <2>1. PICK n : n = Len(frames)
      OBVIOUS
    <2>2. n \in Nat /\ n # 0 /\ Len(Pop) = IF 1 <= n - 1 THEN n - 1 - 1 + 1 ELSE 0
      BY <1>1, <1>3, <2>1
    <2>3. Len(Pop) = n - 1
      BY <2>2
    <2> QED
      BY <2>1, <2>3
  <1>5. ASSUME NEW d \in 1 .. Len(frames) - 1 PROVE Pop[d] = frames[d]
    <2>1. d \in 1 .. Len(frames) - 1 - 1 + 1 /\ 1 + d - 1 = d
      BY <1>1
    <2> QED
      BY <1>3, <2>1
  <1> QED
    BY <1>3, <1>4, <1>5

LEMMA PopFacts ==
    ASSUME Stack, frames # <<>>, frames' = Pop
    PROVE  /\ Stack'
           /\ \A d, h : At(d, h)' <=> At(d, h) /\ d # Len(frames)
  <1>1. /\ frames' \in Seq(Shape) /\ Len(frames') = Len(frames) - 1
        /\ \A d \in 1 .. Len(frames) - 1 : frames'[d] = frames[d]
    BY PopProperties
  <1>2. Len(frames) \in Nat \ {0}
    BY FramesLen
  <1>3. \A d : d \in 1 .. Len(frames) - 1 <=> d \in 1 .. Len(frames) /\ d # Len(frames)
    BY <1>2
  <1> QED
    BY <1>1, <1>3 DEF At, Stack

LEMMA BecomeProperties ==
    ASSUME Stack, frames # <<>>, NEW f \in Shape
    PROVE  /\ Become(f) \in Seq(Shape) /\ Len(Become(f)) = Len(frames)
           /\ Become(f)[Len(frames)] = f
           /\ \A d \in 1 .. Len(frames) - 1 : Become(f)[d] = frames[d]
  <1>1. Len(frames) \in Nat \ {0}
    BY FramesLen
  <1>2. /\ Pop \in Seq(Shape) /\ Len(Pop) = Len(frames) - 1
        /\ \A d \in 1 .. Len(frames) - 1 : Pop[d] = frames[d]
    BY PopProperties
  <1>3. /\ Become(f) \in Seq(Shape) /\ Len(Become(f)) = Len(Pop) + 1
        /\ \A d \in 1 .. Len(Pop) : Become(f)[d] = Pop[d]
        /\ Become(f)[Len(Pop) + 1] = f
    BY <1>2, AppendProperties DEF Become
  <1> QED
    BY <1>1, <1>2, <1>3

\* The innermost frame goes on.
LEMMA BecomeFacts ==
    ASSUME Stack, frames # <<>>, NEW f \in Shape, frames' = Become(f)
    PROVE  /\ Stack' /\ Len(frames') = Len(frames)
           /\ \A d, h : At(d, h)' <=> (At(d, h) /\ d # Len(frames)) \/ (d = Len(frames) /\ h = f)
  <1>1. /\ frames' \in Seq(Shape) /\ Len(frames') = Len(frames)
        /\ \A d \in 1 .. Len(frames) - 1 : frames'[d] = frames[d]
        /\ frames'[Len(frames)] = f
    BY BecomeProperties
  <1>2. Len(frames) \in Nat \ {0}
    BY FramesLen
  <1>3. \A d \in 1 .. Len(frames) : d \in 1 .. Len(frames) - 1 \/ d = Len(frames)
    BY <1>2
  <1>4. Len(frames) \in 1 .. Len(frames)
    BY <1>2
  <1> QED
    BY <1>1, <1>3, <1>4 DEF At, Stack

LEMMA GotoIsBecome ==
    ASSUME Stack, frames # <<>>, NEW kind, [Top EXCEPT !.kind = kind] \in Shape
    PROVE  Goto(kind) = Become([Top EXCEPT !.kind = kind])
  <1> DEFINE f == [Top EXCEPT !.kind = kind]
  <1>1. Len(frames) \in Nat \ {0} /\ Len(frames) \in 1 .. Len(frames)
    BY FramesLen
  <1>2. Goto(kind) = [frames EXCEPT ![Len(frames)] = f]
    BY DEF Goto, Top
  <1>3. /\ Goto(kind) \in Seq(Shape) /\ Len(Goto(kind)) = Len(frames)
        /\ \A d \in 1 .. Len(frames) :
             Goto(kind)[d] = IF d = Len(frames) THEN f ELSE frames[d]
    BY <1>1, <1>2, ExceptSeq DEF Stack
  <1>4. /\ Become(f) \in Seq(Shape) /\ Len(Become(f)) = Len(frames)
        /\ Become(f)[Len(frames)] = f
        /\ \A d \in 1 .. Len(frames) - 1 : Become(f)[d] = frames[d]
    BY BecomeProperties
  <1>5. ASSUME NEW d \in 1 .. Len(frames) PROVE Goto(kind)[d] = Become(f)[d]
    <2>1. CASE d = Len(frames)
      <3>1. Goto(kind)[d] = f
        BY <1>3, <2>1
      <3>2. Become(f)[d] = f
        BY <1>4, <2>1
      <3> QED
        BY <3>1, <3>2
    <2>2. CASE d # Len(frames)
      <3>1. d \in 1 .. Len(frames) - 1
        BY <1>1, <2>2
      <3>2. Goto(kind)[d] = frames[d] /\ Become(f)[d] = frames[d]
        BY <1>3, <1>4, <2>2, <3>1
      <3> QED
        BY <3>2
    <2> QED
      BY <2>1, <2>2
  <1> QED
    BY <1>3, <1>4, <1>5, SeqEqual

\* It goes on and another frame is entered.
LEMMA EnterFacts ==
    ASSUME Stack, frames # <<>>, NEW f \in Shape, NEW g \in Shape,
           frames' = Append(Become(f), g)
    PROVE  /\ Stack'
           /\ \A d, h : At(d, h)' <=> \/ At(d, h) /\ d # Len(frames)
                                      \/ d = Len(frames) /\ h = f
                                      \/ d = Len(frames) + 1 /\ h = g
  <1>1. /\ Become(f) \in Seq(Shape) /\ Len(Become(f)) = Len(frames)
        /\ Become(f)[Len(frames)] = f
        /\ \A d \in 1 .. Len(frames) - 1 : Become(f)[d] = frames[d]
    BY BecomeProperties
  <1>2. /\ frames' \in Seq(Shape) /\ Len(frames') = Len(frames) + 1
        /\ \A d \in 1 .. Len(frames) : frames'[d] = Become(f)[d]
        /\ frames'[Len(frames) + 1] = g
    BY <1>1, AppendProperties
  <1>3. Len(frames) \in Nat \ {0}
    BY FramesLen
  <1>4. \A d : d \in 1 .. Len(frames) + 1 <=>
                 d \in 1 .. Len(frames) - 1 \/ d = Len(frames) \/ d = Len(frames) + 1
    BY <1>3
  <1>5. \A d : d \in 1 .. Len(frames) - 1 <=> d \in 1 .. Len(frames) /\ d # Len(frames)
    BY <1>3
  <1>6. Len(frames) \in 1 .. Len(frames)
    BY <1>3
  <1>7. Len(frames) # Len(frames) + 1 /\ Len(frames) + 1 \notin 1 .. Len(frames)
    BY <1>3
  <1> QED
    BY <1>1, <1>2, <1>4, <1>5, <1>6, <1>7 DEF At, Stack

LEMMA FirstFacts ==
    ASSUME Stack, frames = <<>>, NEW f \in Shape, frames' = <<f>>
    PROVE  /\ Stack'
           /\ \A d, h : At(d, h)' <=> At(d, h) \/ (d = 1 /\ h = f)
  <1>1. frames' \in Seq(Shape) /\ Len(frames') = 1 /\ frames'[1] = f
    OBVIOUS
  <1>2. Len(frames) = 0
    OBVIOUS
  <1> QED
    BY <1>1, <1>2 DEF At, Stack

-----------------------------------------------------------------------------
(* The frames of a step *)

Plain == {"confirm", "handler", "handle_tasks", "app", "tasks", "join", "work", "work_tasks",
          "waiting"}

LEMMA NewFrames ==
           /\ \A kind \in Plain \cup {"body"} :
                /\ Frame(kind) \in Shape /\ Frame(kind).kind = kind
                /\ Frame(kind).of = NoMessage
           /\ \A m \in Task \cup Line \cup {NoMessage} :
                Body(m) \in Shape /\ Body(m).kind = "body" /\ Body(m).of = m
           /\ \A q \in Seq(Oper) :
                /\ Listed("opers", q) \in Shape /\ Listed("opers", q).kind = "opers"
                /\ Listed("opers", q).of = NoMessage /\ Listed("opers", q).list = q
           /\ \A q \in Seq(Line) :
                /\ Listed("lines", q) \in Shape /\ Listed("lines", q).kind = "lines"
                /\ Listed("lines", q).of = NoMessage
  <1>0. \A q : q \in Seq(Oper) \/ q \in Seq(Line) => q \in Seq(Oper \cup Line)
    BY SeqMonotonic
  <1>1. <<>> \in Seq(Oper) /\ <<>> \in Seq(Line) /\ <<>> \in Seq(Oper \cup Line)
    BY EmptySeq
  <1> QED
    BY <1>0, <1>1 DEF Plain, Frame, Body, Listed, Shape, Frames

\* A frame goes on with another kind, or a shorter list, or is known to have waited.
LEMMA GoesOn ==
    ASSUME NEW f \in Shape
    PROVE  /\ f.kind \in Plain => \A kind \in Plain :
                /\ [f EXCEPT !.kind = kind] \in Shape
                /\ [f EXCEPT !.kind = kind].kind = kind
                /\ [f EXCEPT !.kind = kind].of = NoMessage /\ f.of = NoMessage
           /\ /\ [f EXCEPT !.waited = TRUE] \in Shape
              /\ [f EXCEPT !.waited = TRUE].kind = f.kind
              /\ [f EXCEPT !.waited = TRUE].of = f.of
              /\ [f EXCEPT !.waited = TRUE].list = f.list
           /\ f.kind \in {"opers", "lines"} =>
                f.list \in Seq(IF f.kind = "opers" THEN Oper ELSE Line) /\ f.of = NoMessage
           /\ f.kind # "body" => f.of = NoMessage
           /\ f.of \in Task \cup Line \cup {NoMessage}
  BY DEF Plain, Shape, Frames

LEMMA ShorterList ==
    ASSUME NEW f \in Shape, f.kind \in {"opers", "lines"}, f.list # <<>>
    PROVE  /\ [f EXCEPT !.list = Tail(@)] \in Shape
           /\ [f EXCEPT !.list = Tail(@)].kind = f.kind
           /\ [f EXCEPT !.list = Tail(@)].of = NoMessage
           /\ [f EXCEPT !.list = Tail(@)].list = Tail(f.list)
           /\ Head(f.list) \in (IF f.kind = "opers" THEN Oper ELSE Line)
           /\ f.of = NoMessage
  <1> DEFINE S == IF f.kind = "opers" THEN Oper ELSE Line
  <1>1. f.list \in Seq(S) /\ f.of = NoMessage
    BY GoesOn
  <1>2. Head(f.list) \in S /\ Tail(f.list) \in Seq(S)
    BY <1>1, HeadTailProperties
  <1>3. Tail(f.list) \in Seq(Oper \cup Line)
    BY <1>2, SeqMonotonic
  <1> QED
    BY <1>1, <1>2, <1>3 DEF Shape, Frames

-----------------------------------------------------------------------------
(* Steps that leave a part of the invariant alone *)

\* No operation is started, and none is posted.
LEMMA OpersKept ==
    ASSUME IInv, Stack', UNCHANGED <<level, operQueue, nrPosted, started>>,
           \A d, q : OperAt(d, q)' <=> OperAt(d, q)
    PROVE  LevelInv' /\ OrderInv'
  <1>1. DOMAIN frames = 1 .. Len(frames) /\ DOMAIN frames' = 1 .. Len(frames')
    BY LenProperties DEF IInv, TypeInv, Stack
  <1>2. \A d \in DOMAIN frames' : IsOpers(d)' =>
          d \in DOMAIN frames /\ IsOpers(d) /\ frames'[d].list = frames[d].list
    BY <1>1 DEF OperAt, IsOpers
  <1>3. \A d \in DOMAIN frames : IsOpers(d) => d \in DOMAIN frames' /\ IsOpers(d)'
    BY <1>1 DEF OperAt, IsOpers
  <1>4. LevelInv'
    BY <1>2, <1>3 DEF IInv, LevelInv
  <1>5. OrderInv'
    BY <1>2 DEF IInv, OrderInv
  <1> QED
    BY <1>4, <1>5

\* No task is posted, called, queued or ended.
LEMMA TasksKept ==
    ASSUME IInv, Stack', UNCHANGED <<taskQueue, tasksPosted>>,
           \A k \in Task : k \in done' <=> k \in done,
           \A d : \A k \in Task : CallAt(d, k)' <=> CallAt(d, k)
    PROVE  TaskInv'
  <1>1. DOMAIN frames = 1 .. Len(frames) /\ DOMAIN frames' = 1 .. Len(frames')
    BY LenProperties DEF IInv, TypeInv, Stack
  <1>2. \A d : \A k \in Task : d \in DOMAIN frames' /\ frames'[d].of = k
                              <=> d \in DOMAIN frames /\ frames[d].of = k
    BY <1>1 DEF CallAt
  <1>3. \A k \in Task : (Called(k)' <=> Called(k)) /\ (Queued(k)' <=> Queued(k))
    BY <1>2 DEF Called, Queued
  <1>4. TaskInv
    BY DEF IInv
  <1>5. \A i, j \in DOMAIN taskQueue' : taskQueue'[i] = taskQueue'[j] => i = j
    BY <1>4 DEF TaskInv
  <1>6. \A c, d \in DOMAIN frames' :
          frames'[c].of \in Task /\ frames'[c].of = frames'[d].of => c = d
    BY <1>2, <1>4 DEF TaskInv
  <1>7. \A k \in Task : /\ k \in tasksPosted' <=> (Queued(k) \/ Called(k) \/ k \in done)'
                        /\ Queued(k)' => ~ Called(k)' /\ k \notin done'
                        /\ Called(k)' => k \notin done'
    BY <1>3, <1>4 DEF TaskInv
  <1> QED
    BY <1>5, <1>6, <1>7 DEF TaskInv

-----------------------------------------------------------------------------
(* The parts of the invariant by what is at which place of the stack *)

First(q) == nrPosted - Len(operQueue) - Len(q)

LevelAt ==
    /\ level \in {0, 1}
    /\ level = 1 <=> \E d, q : OperAt(d, q)
    /\ \A c, d, p, q : OperAt(c, p) /\ OperAt(d, q) => c = d

OrderAt ==
    /\ \A i \in 1 .. Len(operQueue) : operQueue[i] = nrPosted - Len(operQueue) + i
    /\ level = 0 => started = 1 .. nrPosted - Len(operQueue)
    /\ \A d, q : OperAt(d, q) => /\ started = 1 .. First(q)
                                 /\ \A j \in 1 .. Len(q) : q[j] = First(q) + j

LEMMA OperLists ==
    ASSUME Stack, NEW d, NEW q, OperAt(d, q)
    PROVE  q \in Seq(Oper)
  BY FramesLen DEF OperAt, Shape

LEMMA InvAt ==
    ASSUME IInv
    PROVE  /\ Stack /\ LevelAt /\ OrderAt /\ TypeInv /\ TaskInv
           /\ operQueue \in Seq(Oper) /\ nrPosted \in 0 .. NrOpers
  <1>1. /\ Stack /\ TypeInv /\ TaskInv /\ LevelInv /\ OrderInv
        /\ operQueue \in Seq(Oper) /\ nrPosted \in 0 .. NrOpers
    BY DEF IInv, TypeInv, Stack
  <1>2. DOMAIN frames = 1 .. Len(frames) /\ DOMAIN operQueue = 1 .. Len(operQueue)
    BY <1>1, LenProperties DEF Stack
  <1>3. LevelAt
    BY <1>1, <1>2 DEF LevelInv, LevelAt, OperAt, IsOpers
  <1>4. OrderAt
    <2>1. ASSUME NEW d, NEW q, OperAt(d, q)
          PROVE  /\ started = 1 .. First(q)
                 /\ \A j \in 1 .. Len(q) : q[j] = First(q) + j
      <3>1. q \in Seq(Oper)
        BY <1>1, <2>1, OperLists
      <3>2. DOMAIN q = 1 .. Len(q)
        BY <3>1, LenProperties
      <3> QED
        BY <1>1, <1>2, <2>1, <3>2 DEF OrderInv, OperAt, IsOpers, First
    <2> QED
      BY <1>1, <1>2, <2>1 DEF OrderInv, OrderAt
  <1> QED
    BY <1>1, <1>3, <1>4

LEMMA AtInv ==
    ASSUME Stack', operQueue' \in Seq(Oper), LevelAt', OrderAt'
    PROVE  LevelInv' /\ OrderInv'
  <1>1. DOMAIN frames' = 1 .. Len(frames') /\ DOMAIN operQueue' = 1 .. Len(operQueue')
    BY LenProperties DEF Stack
  <1>2. LevelInv'
    <2>1. \A d \in DOMAIN frames' : IsOpers(d)' => OperAt(d, frames[d].list)'
      BY <1>1 DEF OperAt, IsOpers
    <2>2. \A d, q : OperAt(d, q)' => d \in DOMAIN frames' /\ IsOpers(d)'
      BY <1>1 DEF OperAt, IsOpers
    <2> QED
      BY <2>1, <2>2 DEF LevelInv, LevelAt
  <1>3. OrderInv'
    <2>1. ASSUME NEW d \in DOMAIN frames', IsOpers(d)', NEW q, q = frames'[d].list
          PROVE  /\ started' = 1 .. nrPosted' - Len(operQueue') - Len(q)
                 /\ \A j \in DOMAIN q : q[j] = nrPosted' - Len(operQueue') - Len(q) + j
      <3>1. OperAt(d, q)'
        BY <1>1, <2>1 DEF OperAt, IsOpers
      <3>2. q \in Seq(Oper)
        BY <1>1, <2>1, ElementOfSeq DEF Stack, Shape, IsOpers
      <3>3. DOMAIN q = 1 .. Len(q)
        BY <3>2, LenProperties
      <3> QED
        BY <3>1, <3>3 DEF OrderAt, First
    <2> QED
      BY <1>1, <2>1 DEF OrderInv, OrderAt
  <1> QED
    BY <1>2, <1>3

-----------------------------------------------------------------------------
(* The life of an operation *)

\* It is posted.
LEMMA OperPosted ==
    ASSUME IInv, nrPosted < NrOpers, nrPosted' = nrPosted + 1,
           operQueue' = Append(operQueue, nrPosted'),
           UNCHANGED <<frames, level, started>>
    PROVE  LevelInv' /\ OrderInv' /\ operQueue' \in Seq(Oper) /\ nrPosted' \in 0 .. NrOpers
  <1>1. /\ Stack /\ LevelAt /\ OrderAt
        /\ operQueue \in Seq(Oper) /\ nrPosted \in 0 .. NrOpers /\ NrOpers \in Nat
    BY InvAt, QueuesAssumption
  <1>2. nrPosted \in Nat /\ nrPosted' \in Oper /\ nrPosted' \in 0 .. NrOpers
    BY <1>1 DEF Oper
  <1>3. /\ operQueue' \in Seq(Oper) /\ Len(operQueue') = Len(operQueue) + 1
        /\ \A i \in 1 .. Len(operQueue) : operQueue'[i] = operQueue[i]
        /\ operQueue'[Len(operQueue) + 1] = nrPosted'
    BY <1>1, <1>2, AppendProperties
  <1>4. Len(operQueue) \in Nat
    BY <1>1, LenProperties
  <1>5. nrPosted' - Len(operQueue') = nrPosted - Len(operQueue)
    BY <1>2, <1>3, <1>4
  <1>6. \A i \in 1 .. Len(operQueue') : operQueue'[i] = nrPosted' - Len(operQueue') + i
    <2> TAKE i \in 1 .. Len(operQueue')
    <2>1. CASE i \in 1 .. Len(operQueue)
      BY <1>1, <1>3, <1>5, <2>1 DEF OrderAt
    <2>2. CASE i = Len(operQueue) + 1
      BY <1>2, <1>3, <1>4, <2>2
    <2> QED
      BY <1>3, <1>4, <2>1, <2>2
  <1>7. LevelAt' /\ Stack'
    BY <1>1 DEF LevelAt, OperAt, Stack
  <1>8. OrderAt'
    <2>1. started' = started /\ level' = level /\ \A q : First(q)' = First(q)
      BY <1>5 DEF First
    <2>2. \A d, q : OperAt(d, q)' <=> OperAt(d, q)
      BY DEF OperAt
    <2>3. level' = 0 => started' = 1 .. nrPosted' - Len(operQueue')
      BY <1>1, <1>5, <2>1 DEF OrderAt
    <2>4. \A d, q : OperAt(d, q)' => /\ started' = 1 .. First(q)'
                                    /\ \A j \in 1 .. Len(q) : q[j] = First(q)' + j
      BY <1>1, <2>1, <2>2 DEF OrderAt
    <2> QED
      BY <1>6, <2>3, <2>4 DEF OrderAt
  <1> QED
    BY <1>2, <1>3, <1>7, <1>8, AtInv

\* The queue becomes a local list.
LEMMA ListTaken ==
    ASSUME IInv, Stack', level = 0, level' = 1, operQueue' = <<>>,
           UNCHANGED <<nrPosted, started>>, NEW n,
           \A d, q : OperAt(d, q)' <=> OperAt(d, q) \/ (d = n /\ q = operQueue)
    PROVE  LevelInv' /\ OrderInv'
  <1>0. PICK list : list = operQueue
    OBVIOUS
  <1>1. /\ LevelAt /\ OrderAt /\ list \in Seq(Oper) /\ nrPosted \in Nat
        /\ operQueue' \in Seq(Oper) /\ Len(operQueue') = 0 /\ Len(list) \in Nat
    BY <1>0, InvAt, EmptySeq, LenProperties
  <1>2. \A d, q : OperAt(d, q)' <=> d = n /\ q = list
    BY <1>0, <1>1 DEF LevelAt
  <1>3. LevelAt'
    BY <1>2 DEF LevelAt
  <1>4. First(list)' = nrPosted - Len(list) /\ started = 1 .. nrPosted - Len(list)
    BY <1>0, <1>1 DEF First, OrderAt
  <1>5. \A j \in 1 .. Len(list) : list[j] = First(list)' + j
    BY <1>0, <1>1, <1>4 DEF OrderAt
  <1>6. OrderAt'
    BY <1>1, <1>2, <1>4, <1>5 DEF OrderAt
  <1> QED
    BY <1>1, <1>3, <1>6, AtInv

\* The next of a local list is started.
LEMMA OperStarted ==
    ASSUME IInv, Stack', UNCHANGED <<level, operQueue, nrPosted>>,
           NEW n, NEW list, list # <<>>, OperAt(n, list),
           started' = started \cup {Head(list)},
           \A d, q : OperAt(d, q)' <=> (OperAt(d, q) /\ d # n) \/ (d = n /\ q = Tail(list))
    PROVE  LevelInv' /\ OrderInv' /\ started' \subseteq Oper
  <1>1. /\ LevelAt /\ OrderAt /\ operQueue \in Seq(Oper) /\ nrPosted \in Nat
        /\ operQueue' \in Seq(Oper) /\ Len(operQueue) \in Nat /\ Stack
    BY InvAt, LenProperties
  <1>2. /\ list \in Seq(Oper) /\ Len(list) \in Nat \ {0}
        /\ Head(list) \in Oper /\ Head(list) = list[1]
        /\ Len(Tail(list)) = Len(list) - 1
        /\ \A i \in 1 .. Len(Tail(list)) : Tail(list)[i] = list[i + 1]
    BY <1>1, OperLists, EmptySeq, HeadTailProperties
  <1>3. \A d, q : OperAt(d, q)' <=> d = n /\ q = Tail(list)
    BY <1>1 DEF LevelAt
  <1>4. LevelAt'
    BY <1>1, <1>3 DEF LevelAt
  <1>5. PICK m : m = First(list)
    OBVIOUS
  <1>6. m \in Int /\ First(Tail(list))' = m + 1
    BY <1>1, <1>2, <1>5 DEF First
  <1>7. started = 1 .. m /\ \A j \in 1 .. Len(list) : list[j] = m + j
    BY <1>1, <1>5 DEF OrderAt
  <1>8. Head(list) = m + 1 /\ m + 1 \in Nat \ {0}
    BY <1>2, <1>6, <1>7 DEF Oper
  <1>9. started' = 1 .. m + 1
    BY <1>6, <1>7, <1>8
  <1>10. ASSUME NEW j \in 1 .. Len(Tail(list)) PROVE Tail(list)[j] = m + 1 + j
    <2>1. j + 1 \in 1 .. Len(list)
      BY <1>2
    <2> QED
      BY <1>2, <1>6, <1>7, <2>1
  <1>11. level = 1
    BY <1>1 DEF LevelAt
  <1>12. OrderAt'
    <2>1. \A i \in 1 .. Len(operQueue') : operQueue'[i] = nrPosted' - Len(operQueue') + i
      BY <1>1 DEF OrderAt
    <2>2. level' # 0
      BY <1>11
    <2>3. \A d, q : OperAt(d, q)' => /\ started' = 1 .. First(q)'
                                    /\ \A j \in 1 .. Len(q) : q[j] = First(q)' + j
      BY <1>3, <1>6, <1>9, <1>10
    <2> QED
      BY <2>1, <2>2, <2>3 DEF OrderAt
  <1>13. started' \subseteq Oper
    BY <1>2 DEF IInv, TypeInv
  <1> QED
    BY <1>1, <1>4, <1>12, <1>13, AtInv

\* A local list is at its end.
LEMMA ListEnded ==
    ASSUME IInv, Stack', level' = level - 1, UNCHANGED <<operQueue, nrPosted, started>>,
           NEW n, OperAt(n, <<>>),
           \A d, q : OperAt(d, q)' <=> OperAt(d, q) /\ d # n
    PROVE  LevelInv' /\ OrderInv'
  <1>1. /\ LevelAt /\ OrderAt /\ operQueue \in Seq(Oper) /\ nrPosted \in Nat
        /\ operQueue' \in Seq(Oper) /\ Len(operQueue) \in Nat /\ Len(<<>>) = 0
    BY InvAt, LenProperties
  <1>2. \A d, q : ~ OperAt(d, q)'
    BY <1>1 DEF LevelAt
  <1>3. level = 1 /\ level' = 0
    BY <1>1 DEF LevelAt
  <1>4. LevelAt'
    <2>1. level' \in {0, 1} /\ level' # 1
      BY <1>3
    <2> QED
      BY <1>2, <2>1 DEF LevelAt
  <1>5. started = 1 .. nrPosted - Len(operQueue)
    <2>1. started = 1 .. First(<<>>)
      BY <1>1 DEF OrderAt
    <2>2. First(<<>>) = nrPosted - Len(operQueue)
      BY <1>1 DEF First
    <2> QED
      BY <2>1, <2>2
  <1>6. OrderAt'
    BY <1>1, <1>2, <1>5 DEF OrderAt
  <1> QED
    BY <1>1, <1>4, <1>6, AtInv

-----------------------------------------------------------------------------
(* The life of a task *)

QueuedAt(i, k) == i \in 1 .. Len(taskQueue) /\ taskQueue[i] = k
InQueue(k) == \E i : QueuedAt(i, k)
InCall(k) == \E d : CallAt(d, k)

TaskAt ==
    /\ \A i, j, k : QueuedAt(i, k) /\ QueuedAt(j, k) => i = j
    /\ \A k \in Task :
          /\ \A c, d : CallAt(c, k) /\ CallAt(d, k) => c = d
          /\ k \in tasksPosted <=> (InQueue(k) \/ InCall(k) \/ k \in done)
          /\ InQueue(k) => ~ InCall(k) /\ k \notin done
          /\ InCall(k) => k \notin done

LEMMA TaskInvAt ==
    ASSUME IInv PROVE TaskAt /\ taskQueue \in Seq(Task) /\ Stack
  <1>1. TaskInv /\ taskQueue \in Seq(Task) /\ Stack
    BY DEF IInv, TypeInv, Stack
  <1>2. DOMAIN frames = 1 .. Len(frames) /\ DOMAIN taskQueue = 1 .. Len(taskQueue)
    BY <1>1, LenProperties DEF Stack
  <1>3. \A k : (InQueue(k) <=> Queued(k)) /\ (InCall(k) <=> Called(k))
    BY <1>2 DEF InQueue, QueuedAt, Queued, InCall, CallAt, Called
  <1>4. \A i, j, k : QueuedAt(i, k) /\ QueuedAt(j, k) => i = j
    BY <1>1, <1>2 DEF TaskInv, QueuedAt
  <1>5. \A k \in Task : \A c, d : CallAt(c, k) /\ CallAt(d, k) => c = d
    BY <1>1, <1>2 DEF TaskInv, CallAt
  <1>6. TaskAt
    BY <1>1, <1>3, <1>4, <1>5 DEF TaskInv, TaskAt
  <1> QED
    BY <1>1, <1>6

LEMMA AtTaskInv ==
    ASSUME Stack', taskQueue' \in Seq(Task), TaskAt' PROVE TaskInv'
  <1>2. DOMAIN frames' = 1 .. Len(frames') /\ DOMAIN taskQueue' = 1 .. Len(taskQueue')
    BY LenProperties DEF Stack
  <1>3. \A k : (InQueue(k)' <=> Queued(k)') /\ (InCall(k)' <=> Called(k)')
    BY <1>2 DEF InQueue, QueuedAt, Queued, InCall, CallAt, Called
  <1>4. \A i, j \in DOMAIN taskQueue' : taskQueue'[i] = taskQueue'[j] => i = j
    BY <1>2 DEF TaskAt, QueuedAt
  <1>5. \A c, d \in DOMAIN frames' :
          frames'[c].of \in Task /\ frames'[c].of = frames'[d].of => c = d
    BY <1>2 DEF TaskAt, CallAt
  <1>6. \A k \in Task : /\ k \in tasksPosted' <=> (Queued(k) \/ Called(k) \/ k \in done)'
                        /\ Queued(k)' => ~ Called(k)' /\ k \notin done'
                        /\ Called(k)' => k \notin done'
    BY <1>3 DEF TaskAt
  <1> QED
    BY <1>4, <1>5, <1>6 DEF TaskInv

\* A task is posted.
LEMMA TaskPosted ==
    ASSUME IInv, UNCHANGED <<frames, done>>,
           NEW k \in Task, k \notin tasksPosted, tasksPosted' = tasksPosted \cup {k},
           taskQueue' = Append(taskQueue, k)
    PROVE  TaskInv' /\ taskQueue' \in Seq(Task)
  <1>1. TaskAt /\ taskQueue \in Seq(Task) /\ Stack /\ Stack' /\ Len(taskQueue) \in Nat
    BY TaskInvAt, LenProperties DEF Stack
  <1>2. /\ taskQueue' \in Seq(Task) /\ Len(taskQueue') = Len(taskQueue) + 1
        /\ \A i \in 1 .. Len(taskQueue) : taskQueue'[i] = taskQueue[i]
        /\ taskQueue'[Len(taskQueue) + 1] = k
    BY <1>1, AppendProperties
  <1>3. \A i : i \in 1 .. Len(taskQueue) + 1
                 <=> i \in 1 .. Len(taskQueue) \/ i = Len(taskQueue) + 1
    BY <1>1
  <1>4. \A i, m : QueuedAt(i, m)' <=> QueuedAt(i, m) \/ (i = Len(taskQueue) + 1 /\ m = k)
    <2>1. Len(taskQueue) + 1 \notin 1 .. Len(taskQueue)
      BY <1>1
    <2> QED
      BY <1>2, <1>3, <2>1 DEF QueuedAt
  <1>5. ~ InQueue(k) /\ ~ InCall(k) /\ k \notin done
    BY <1>1 DEF TaskAt
  <1>6. \A m : (InCall(m)' <=> InCall(m)) /\ (InQueue(m)' <=> InQueue(m) \/ m = k)
    BY <1>4 DEF InCall, CallAt, InQueue
  <1>7. \A i, j, m : QueuedAt(i, m)' /\ QueuedAt(j, m)' => i = j
    BY <1>1, <1>4, <1>5 DEF TaskAt, InQueue
  <1>8. \A m : \A c, d : (CallAt(c, m)' <=> CallAt(c, m))
    BY DEF CallAt
  <1>9. TaskAt'
    BY <1>1, <1>5, <1>6, <1>7, <1>8 DEF TaskAt
  <1> QED
    BY <1>1, <1>2, <1>9, AtTaskInv

\* The first of the queue is called.
HeadCalledAt(n) ==
    /\ taskQueue # <<>> /\ taskQueue' = Tail(taskQueue)
    /\ \A d : \A m \in Task :
         CallAt(d, m)' <=> CallAt(d, m) \/ (d = n /\ m = Head(taskQueue))

LEMMA TaskCalled ==
    ASSUME IInv, Stack', UNCHANGED <<tasksPosted, done>>, NEW n, HeadCalledAt(n)
    PROVE  TaskInv' /\ taskQueue' \in Seq(Task)
  <1>0. PICK k : /\ k = Head(taskQueue) /\ taskQueue # <<>> /\ taskQueue' = Tail(taskQueue)
                 /\ \A d : \A m \in Task : CallAt(d, m)' <=> CallAt(d, m) \/ (d = n /\ m = k)
    BY DEF HeadCalledAt
  <1>1. TaskAt /\ taskQueue \in Seq(Task) /\ Len(taskQueue) \in Nat \ {0}
    BY <1>0, TaskInvAt, EmptySeq
  <1>2. /\ taskQueue' \in Seq(Task) /\ Len(taskQueue') = Len(taskQueue) - 1
        /\ \A i \in 1 .. Len(taskQueue') : taskQueue'[i] = taskQueue[i + 1]
        /\ k \in Task /\ k = taskQueue[1]
    BY <1>0, <1>1, HeadTailProperties
  <1>3. QueuedAt(1, k) /\ InQueue(k) /\ ~ InCall(k) /\ k \notin done
    BY <1>1, <1>2 DEF TaskAt, QueuedAt, InQueue
  <1>4. ASSUME NEW i, NEW m, QueuedAt(i, m)' PROVE i \in Nat /\ QueuedAt(i + 1, m)
    <2>1. i \in 1 .. Len(taskQueue') /\ taskQueue'[i] = m
      BY <1>4 DEF QueuedAt
    <2>2. i \in Nat /\ i + 1 \in 1 .. Len(taskQueue)
      BY <1>1, <1>2, <2>1
    <2> QED
      BY <1>2, <2>1, <2>2 DEF QueuedAt
  <1>5. ASSUME NEW i, NEW m, QueuedAt(i, m), m # k PROVE QueuedAt(i - 1, m)'
    <2>1. i \in 1 .. Len(taskQueue) /\ i # 1
      BY <1>2, <1>5 DEF QueuedAt
    <2>2. i - 1 \in 1 .. Len(taskQueue') /\ i - 1 + 1 = i
      BY <1>1, <1>2, <2>1
    <2> QED
      BY <1>2, <1>5, <2>2 DEF QueuedAt
  <1>6. \A m : InQueue(m)' <=> InQueue(m) /\ m # k
    <2>1. ~ InQueue(k)'
      <3> SUFFICES ASSUME NEW i, QueuedAt(i, k)' PROVE FALSE
        BY DEF InQueue
      <3>1. i \in 1 .. Len(taskQueue')
        BY DEF QueuedAt
      <3>2. i + 1 = 1
        BY <1>1, <1>3, <1>4 DEF TaskAt
      <3> QED
        BY <1>1, <1>2, <3>1, <3>2
    <2> QED
      BY <1>4, <1>5, <2>1 DEF InQueue
  <1>7. \A i, j, m : QueuedAt(i, m)' /\ QueuedAt(j, m)' => i = j
    <2> TAKE i, j, m
    <2> HAVE QueuedAt(i, m)' /\ QueuedAt(j, m)'
    <2>1. i \in Nat /\ j \in Nat /\ i + 1 = j + 1
      BY <1>1, <1>4 DEF TaskAt
    <2> QED
      BY <2>1
  <1>8. \A m \in Task : InCall(m)' <=> InCall(m) \/ m = k
    BY <1>0 DEF InCall
  <1>9. \A m \in Task : \A c, d : CallAt(c, m)' /\ CallAt(d, m)' => c = d
    BY <1>0, <1>1, <1>3 DEF TaskAt, InCall
  <1>10. TaskAt'
    BY <1>1, <1>3, <1>6, <1>7, <1>8, <1>9 DEF TaskAt
  <1> QED
    BY <1>2, <1>10, AtTaskInv

\* The queue is cancelled.
LEMMA TasksCancelled ==
    ASSUME IInv, UNCHANGED <<frames, tasksPosted>>, taskQueue' = <<>>,
           done' = done \cup {taskQueue[i] : i \in DOMAIN taskQueue}
    PROVE  TaskInv' /\ taskQueue' \in Seq(Task) /\ done' \subseteq Task \cup Line
  <1>1. TaskAt /\ taskQueue \in Seq(Task) /\ Stack /\ Stack'
        /\ DOMAIN taskQueue = 1 .. Len(taskQueue)
    BY TaskInvAt, LenProperties DEF Stack
  <1>2. taskQueue' \in Seq(Task) /\ Len(taskQueue') = 0
    BY EmptySeq
  <1>3. \A i, k : ~ QueuedAt(i, k)'
    BY <1>2 DEF QueuedAt
  <1>4. \A k : k \in done' <=> k \in done \/ InQueue(k)
    BY <1>1 DEF InQueue, QueuedAt
  <1>5. \A c, k : CallAt(c, k)' <=> CallAt(c, k)
    BY DEF CallAt
  <1>6. \A k : ~ InQueue(k)' /\ (InCall(k)' <=> InCall(k))
    BY <1>3, <1>5 DEF InQueue, InCall
  <1>7. TaskAt'
    BY <1>1, <1>3, <1>4, <1>5, <1>6 DEF TaskAt
  <1>8. done' \subseteq Task \cup Line
    <2>1. \A i \in DOMAIN taskQueue : taskQueue[i] \in Task
      BY <1>1, ElementOfSeq
    <2> QED
      BY <2>1 DEF IInv, TypeInv
  <1> QED
    BY <1>1, <1>2, <1>7, <1>8, AtTaskInv

\* A call ends for good, of task m if it is of one.
LEMMA CallEnded ==
    ASSUME IInv, Stack', UNCHANGED <<tasksPosted, taskQueue>>,
           NEW n, NEW m, CallAt(n, m), done' = done \cup ({m} \ {NoMessage}),
           \A d : \A k \in Task : CallAt(d, k)' <=> CallAt(d, k) /\ d # n
    PROVE  TaskInv'
  <1>1. TaskAt /\ taskQueue \in Seq(Task) /\ taskQueue' \in Seq(Task)
    BY TaskInvAt
  <1>2. \A i, k : QueuedAt(i, k)' <=> QueuedAt(i, k)
    BY DEF QueuedAt
  <1>3. \A k \in Task : k \in done' <=> k \in done \/ k = m
    BY QueuesAssumption
  <1>4. \A k \in Task : InCall(k)' <=> InCall(k) /\ k # m
    <2>1. \A k \in Task : CallAt(n, k) => k = m
      BY DEF CallAt
    <2> QED
      BY <1>1, <2>1 DEF InCall, TaskAt
  <1>5. \A k \in Task : (InQueue(k)' <=> InQueue(k)) /\ (k = m => InCall(k))
    BY <1>2 DEF InQueue, InCall
  <1>6. TaskAt'
    BY <1>1, <1>2, <1>3, <1>4, <1>5 DEF TaskAt
  <1> QED
    BY <1>1, <1>6, AtTaskInv

\* A task goes back to the front of its queue.
LEMMA TaskRequeued ==
    ASSUME IInv, Stack', UNCHANGED <<tasksPosted, done>>,
           NEW n, NEW m \in Task, CallAt(n, m), taskQueue' = <<m>> \o taskQueue,
           \A d : \A k \in Task : CallAt(d, k)' <=> CallAt(d, k) /\ d # n
    PROVE  TaskInv' /\ taskQueue' \in Seq(Task)
  <1>1. TaskAt /\ taskQueue \in Seq(Task) /\ Len(taskQueue) \in Nat
    BY TaskInvAt, LenProperties
  <1>2. <<m>> \in Seq(Task) /\ Len(<<m>>) = 1 /\ <<m>>[1] = m
    OBVIOUS
  <1>3. /\ taskQueue' \in Seq(Task) /\ Len(taskQueue') = 1 + Len(taskQueue)
        /\ \A i \in 1 .. 1 + Len(taskQueue) :
             taskQueue'[i] = IF i <= 1 THEN <<m>>[i] ELSE taskQueue[i - 1]
    BY <1>1, <1>2, ConcatProperties
  <1>4. \A i, k : QueuedAt(i, k)' <=> (i = 1 /\ k = m) \/ (i - 1 \in Nat /\ i \in Int /\ QueuedAt(i - 1, k))
    <2> TAKE i, k
    <2>1. CASE i \in 1 .. 1 + Len(taskQueue) /\ i # 1
      <3>1. i - 1 \in 1 .. Len(taskQueue) /\ i - 1 \in Nat /\ i \in Int /\ ~ (i <= 1)
        BY <1>1, <2>1
      <3> QED
        BY <1>3, <2>1, <3>1 DEF QueuedAt
    <2>2. CASE i = 1
      <3>1. i \in 1 .. 1 + Len(taskQueue) /\ i <= 1 /\ i - 1 \notin 1 .. Len(taskQueue)
        BY <1>1, <2>2
      <3> QED
        BY <1>2, <1>3, <2>2, <3>1 DEF QueuedAt
    <2>3. CASE i \notin 1 .. 1 + Len(taskQueue)
      <3>1. i # 1 /\ (i \in Int => i - 1 \notin 1 .. Len(taskQueue))
        BY <1>1, <2>3
      <3> QED
        BY <1>3, <2>3, <3>1 DEF QueuedAt
    <2> QED
      BY <2>1, <2>2, <2>3
  <1>5. InCall(m) /\ ~ InQueue(m) /\ m \notin done /\ m \in tasksPosted
    BY <1>1 DEF TaskAt, InCall
  <1>6. ASSUME NEW k, InQueue(k) PROVE InQueue(k)'
    <2>1. PICK i : QueuedAt(i, k)
      BY <1>6 DEF InQueue
    <2>2. i \in 1 .. Len(taskQueue)
      BY <2>1 DEF QueuedAt
    <2>3. i + 1 - 1 = i /\ i \in Nat /\ i + 1 \in Int
      BY <1>1, <2>2
    <2>4. QueuedAt(i + 1, k)'
      BY <1>4, <2>1, <2>3
    <2> QED
      BY <2>4 DEF InQueue
  <1>7. \A k : InQueue(k)' <=> InQueue(k) \/ k = m
    BY <1>4, <1>6 DEF InQueue
  <1>8. \A i, j, k : QueuedAt(i, k)' /\ QueuedAt(j, k)' => i = j
    <2> TAKE i, j, k
    <2> HAVE QueuedAt(i, k)' /\ QueuedAt(j, k)'
    <2>1. CASE k = m
      BY <1>4, <1>5, <2>1 DEF InQueue
    <2>2. CASE k # m
      <3>1. i \in Int /\ j \in Int /\ i - 1 = j - 1
        BY <1>1, <1>4, <2>2 DEF TaskAt
      <3> QED
        BY <3>1
    <2> QED
      BY <2>1, <2>2
  <1>9. \A k \in Task : InCall(k)' <=> InCall(k) /\ k # m
    <2>1. \A k \in Task : CallAt(n, k) => k = m
      BY DEF CallAt
    <2> QED
      BY <1>1, <2>1 DEF InCall, TaskAt
  <1>10. TaskAt'
    BY <1>1, <1>5, <1>7, <1>8, <1>9 DEF TaskAt
  <1> QED
    BY <1>3, <1>10, AtTaskInv

-----------------------------------------------------------------------------
(* Steps that neither start nor end a call *)

IsPlain(f) == f.kind # "opers" /\ f.of \notin Task
Alike(f, g) == f.kind = g.kind /\ f.of = g.of /\ f.list = g.list
Calm == /\ \A d, q : OperAt(d, q)' <=> OperAt(d, q)
        /\ \A d : \A k \in Task : CallAt(d, k)' <=> CallAt(d, k)

LEMMA PlacesAt ==
           /\ \A d, q : OperAt(d, q) <=> \E h : At(d, h) /\ h.kind = "opers" /\ h.list = q
           /\ \A d, q : OperAt(d, q)' <=> \E h : At(d, h)' /\ h.kind = "opers" /\ h.list = q
           /\ \A d, k : CallAt(d, k) <=> \E h : At(d, h) /\ h.of = k
           /\ \A d, k : CallAt(d, k)' <=> \E h : At(d, h)' /\ h.of = k
           /\ \A d, g, h : At(d, g) /\ At(d, h) => g = h
  BY DEF OperAt, CallAt, At

\* What is where after a frame went on and another was entered.
LEMMA EnterPlaces ==
    ASSUME Stack, frames # <<>>, NEW f \in Shape, NEW g \in Shape,
           frames' = Append(Become(f), g), NEW n, n = Len(frames)
    PROVE  /\ Stack'
           /\ \A d, q : OperAt(d, q)' <=> \/ OperAt(d, q) /\ d # n
                                          \/ d = n /\ f.kind = "opers" /\ f.list = q
                                          \/ d = n + 1 /\ g.kind = "opers" /\ g.list = q
           /\ \A d, k : CallAt(d, k)' <=> \/ CallAt(d, k) /\ d # n
                                          \/ d = n /\ f.of = k
                                          \/ d = n + 1 /\ g.of = k
  <1>1. /\ Stack'
        /\ \A d, h : At(d, h)' <=> \/ At(d, h) /\ d # n
                                   \/ d = n /\ h = f
                                   \/ d = n + 1 /\ h = g
    BY EnterFacts
  <1>2. ASSUME NEW d, NEW q
        PROVE  OperAt(d, q)' <=> \/ OperAt(d, q) /\ d # n
                                 \/ d = n /\ f.kind = "opers" /\ f.list = q
                                 \/ d = n + 1 /\ g.kind = "opers" /\ g.list = q
    <2>1. OperAt(d, q)' <=> \E h : At(d, h)' /\ h.kind = "opers" /\ h.list = q
      BY PlacesAt
    <2>2. OperAt(d, q) <=> \E h : At(d, h) /\ h.kind = "opers" /\ h.list = q
      BY PlacesAt
    <2> QED
      BY <1>1, <2>1, <2>2
  <1>3. ASSUME NEW d, NEW k
        PROVE  CallAt(d, k)' <=> \/ CallAt(d, k) /\ d # n
                                 \/ d = n /\ f.of = k
                                 \/ d = n + 1 /\ g.of = k
    <2>1. CallAt(d, k)' <=> \E h : At(d, h)' /\ h.of = k
      BY PlacesAt
    <2>2. CallAt(d, k) <=> \E h : At(d, h) /\ h.of = k
      BY PlacesAt
    <2> QED
      BY <1>1, <2>1, <2>2
  <1> QED
    BY <1>1, <1>2, <1>3

LEMMA CalmIf ==
    ASSUME \A d, h : At(d, h)' => IsPlain(h) \/ \E g : At(d, g) /\ Alike(g, h),
           \A d, g : At(d, g) => IsPlain(g) \/ \E h : At(d, h)' /\ Alike(g, h)
    PROVE  Calm
  <1>1. \A d, q : OperAt(d, q)' <=> OperAt(d, q)
    BY PlacesAt DEF IsPlain, Alike
  <1>2. \A d : \A k \in Task : CallAt(d, k)' <=> CallAt(d, k)
    BY PlacesAt DEF IsPlain, Alike
  <1> QED
    BY <1>1, <1>2 DEF Calm

LEMMA StillCalm ==
    ASSUME Stack, UNCHANGED frames PROVE Stack' /\ Calm
  BY DEF Stack, Calm, OperAt, CallAt

LEMMA PushCalm ==
    ASSUME Stack, NEW f \in Shape, IsPlain(f),
           frames' = Append(frames, f) \/ (frames = <<>> /\ frames' = <<f>>)
    PROVE  Stack' /\ Calm
  <1>1. \A h : Alike(h, h)
    BY DEF Alike
  <1>2. CASE frames' = Append(frames, f)
    <2>1. Stack' /\ \A d, h : At(d, h)' <=> At(d, h) \/ (d = Len(frames) + 1 /\ h = f)
      BY <1>2, PushFacts
    <2> QED
      BY <1>1, <2>1, CalmIf
  <1>3. CASE frames = <<>> /\ frames' = <<f>>
    <2>1. Stack' /\ \A d, h : At(d, h)' <=> At(d, h) \/ (d = 1 /\ h = f)
      BY <1>3, FirstFacts
    <2> QED
      BY <1>1, <2>1, CalmIf
  <1> QED
    BY <1>2, <1>3

LEMMA PopCalm ==
    ASSUME Stack, NEW kinds, On(kinds), IsPlain(Top), frames' = Pop
    PROVE  Stack' /\ Calm
  <1>1. Stack' /\ \A d, h : At(d, h)' <=> At(d, h) /\ d # Len(frames)
    BY TopShape, PopFacts
  <1>2. \A h : At(Len(frames), h) => h = Top
    BY DEF At, Top
  <1>3. \A h : Alike(h, h)
    BY DEF Alike
  <1> QED
    BY <1>1, <1>2, <1>3, CalmIf

LEMMA BecomeCalm ==
    ASSUME Stack, NEW kinds, On(kinds), NEW f \in Shape, frames' = Become(f),
           Alike(Top, f) \/ (IsPlain(Top) /\ IsPlain(f))
    PROVE  Stack' /\ Calm
  <1>0. PICK n, g : n = Len(frames) /\ g = Top
    OBVIOUS
  <1>1. /\ Stack' /\ At(n, g)
        /\ \A d, h : At(d, h)' <=> (At(d, h) /\ d # n) \/ (d = n /\ h = f)
    BY <1>0, TopShape, BecomeFacts
  <1>2. \A h : At(n, h) => h = g
    BY <1>0 DEF At, Top
  <1>3. \A h : Alike(h, h)
    BY DEF Alike
  <1>4. Alike(g, f) \/ (IsPlain(g) /\ IsPlain(f))
    BY <1>0
  <1> QED
    BY <1>1, <1>2, <1>3, <1>4, CalmIf

LEMMA EnterCalm ==
    ASSUME Stack, NEW kinds, On(kinds), NEW f \in Shape, NEW e \in Shape,
           frames' = Append(Become(f), e), IsPlain(e),
           Alike(Top, f) \/ (IsPlain(Top) /\ IsPlain(f))
    PROVE  Stack' /\ Calm
  <1>0. PICK n, g : n = Len(frames) /\ g = Top
    OBVIOUS
  <1>1. /\ Stack' /\ At(n, g)
        /\ \A d, h : At(d, h)' <=> \/ At(d, h) /\ d # n
                                   \/ d = n /\ h = f
                                   \/ d = n + 1 /\ h = e
    BY <1>0, TopShape, EnterFacts
  <1>2. \A h : At(n, h) => h = g
    BY <1>0 DEF At, Top
  <1>3. \A h : Alike(h, h)
    BY DEF Alike
  <1>4. Alike(g, f) \/ (IsPlain(g) /\ IsPlain(f))
    BY <1>0
  <1> QED
    BY <1>1, <1>2, <1>3, <1>4, CalmIf

\* A calm step that moves no task and no operation keeps the accounts.
LEMMA CalmKeeps ==
    ASSUME IInv, Stack', Calm,
           UNCHANGED <<level, operQueue, nrPosted, started, taskQueue, tasksPosted, done>>
    PROVE  LevelInv' /\ OrderInv' /\ TaskInv'
  BY OpersKept, TasksKept DEF Calm

LEMMA PlainGoto ==
    ASSUME Stack, NEW kinds, On(kinds), kinds \subseteq Plain, NEW kind \in Plain
    PROVE  /\ [Top EXCEPT !.kind = kind] \in Shape
           /\ IsPlain(Top) /\ IsPlain([Top EXCEPT !.kind = kind])
           /\ Goto(kind) = Become([Top EXCEPT !.kind = kind])
  <1>1. frames # <<>> /\ Top \in Shape /\ Top.kind \in Plain
    BY TopShape
  <1>2. /\ [Top EXCEPT !.kind = kind] \in Shape
        /\ [Top EXCEPT !.kind = kind].kind = kind
        /\ [Top EXCEPT !.kind = kind].of = NoMessage /\ Top.of = NoMessage
    BY <1>1, GoesOn
  <1>3. "opers" \notin Plain /\ NoMessage \notin Task
    BY QueuesAssumption DEF Plain
  <1> QED
    BY <1>1, <1>2, <1>3, GotoIsBecome DEF IsPlain

LEMMA PlainNew ==
           /\ \A kind \in Plain : Frame(kind) \in Shape /\ IsPlain(Frame(kind))
           /\ Body(NoMessage) \in Shape /\ IsPlain(Body(NoMessage))
           /\ \A m \in Line : Body(m) \in Shape /\ IsPlain(Body(m))
           /\ \A q \in Seq(Line) : Listed("lines", q) \in Shape /\ IsPlain(Listed("lines", q))
  <1>1. "opers" \notin Plain /\ NoMessage \notin Task /\ \A m \in Line : m \notin Task
    BY QueuesAssumption DEF Plain, Line
  <1> QED
    BY <1>1, NewFrames DEF IsPlain

-----------------------------------------------------------------------------
(* The actions *)

\* Posters, blockers and requests.
LEMMA PostOperInv ==
    ASSUME IInv, NEW t \in Poster, PostOper(t) PROVE IInv'
  <1>1. /\ nrPosted < NrOpers /\ nrPosted' = nrPosted + 1
        /\ operQueue' = Append(operQueue, nrPosted')
        /\ calling' = [calling EXCEPT ![t] = operQueue = <<>>]
        /\ UNCHANGED <<taskQueue, appQueue, tasksPosted, pending, messages, blocking, requested>>
        /\ UNCHANGED <<frames, level, suspended, nrSuspends, exec, script, line, started, done>>
    BY DEF PostOper, stack, program
  <1>2. LevelInv' /\ OrderInv' /\ operQueue' \in Seq(Oper) /\ nrPosted' \in 0 .. NrOpers
    BY <1>1, OperPosted
  <1>3. Stack' /\ Calm
    BY <1>1, StillCalm, InvAt
  <1>4. TaskInv'
    BY <1>1, <1>3, TasksKept DEF Calm
  <1>5. TypeInv'
    BY <1>1, <1>2, <1>3 DEF IInv, TypeInv, Stack, Caller
  <1> QED
    BY <1>2, <1>4, <1>5 DEF IInv

LEMMA PostTaskInv ==
    ASSUME IInv, PostTask PROVE IInv'
  <1>1. PICK k \in Task \ tasksPosted : /\ tasksPosted' = tasksPosted \cup {k}
                                        /\ taskQueue' = Append(taskQueue, k)
    BY DEF PostTask
  <1>2. /\ calling' = [calling EXCEPT ![Main] = taskQueue = <<>>]
        /\ UNCHANGED <<operQueue, appQueue, nrPosted, pending, messages, blocking, requested>>
        /\ UNCHANGED <<frames, level, suspended, nrSuspends, exec, script, line, started, done>>
    BY DEF PostTask, stack, program
  <1>3. TaskInv' /\ taskQueue' \in Seq(Task)
    BY <1>1, <1>2, TaskPosted
  <1>4. Stack' /\ Calm
    BY <1>2, StillCalm, InvAt
  <1>5. LevelInv' /\ OrderInv'
    BY <1>2, <1>4, OpersKept DEF Calm
  <1>6. TypeInv'
    BY <1>1, <1>2, <1>3, <1>4 DEF IInv, TypeInv, Stack, Caller, Poster
  <1> QED
    BY <1>3, <1>5, <1>6 DEF IInv

LEMMA BlockerInv ==
    ASSUME IInv, NEW t \in Worker, EnterBlocker(t) \/ LeaveBlocker(t) PROVE IInv'
  <1>1. /\ blocking' \in [Worker -> BOOLEAN] /\ requested' \in [Worker -> BOOLEAN]
        /\ calling' \in [Caller -> BOOLEAN]
    <2>1. requested[t] \in BOOLEAN
      BY DEF IInv, TypeInv
    <2>2. CASE EnterBlocker(t)
      BY <2>2 DEF EnterBlocker, IInv, TypeInv
    <2>3. CASE LeaveBlocker(t)
      BY <2>1, <2>3 DEF LeaveBlocker, IInv, TypeInv
    <2> QED
      BY <2>2, <2>3
  <1>2. /\ UNCHANGED <<operQueue, taskQueue, appQueue, nrPosted, tasksPosted, pending, messages>>
        /\ UNCHANGED <<frames, level, suspended, nrSuspends, exec, script, line, started, done>>
    BY DEF EnterBlocker, LeaveBlocker, posts, stack, program
  <1>3. Stack' /\ Calm
    BY <1>2, StillCalm, InvAt
  <1>4. LevelInv' /\ OrderInv' /\ TaskInv'
    BY <1>2, <1>3, CalmKeeps
  <1>5. TypeInv'
    BY <1>1, <1>2, <1>3 DEF IInv, TypeInv, Stack
  <1> QED
    BY <1>4, <1>5 DEF IInv

LEMMA RequestInv ==
    ASSUME IInv, NEW t \in Caller, Request(t) PROVE IInv'
  <1>1. /\ pending' \in BOOLEAN /\ messages' \in 0 .. MaxMessages
        /\ requested' \in [Worker -> BOOLEAN] /\ calling' \in [Caller -> BOOLEAN]
    <2>1. /\ pending \in BOOLEAN /\ messages \in 0 .. MaxMessages /\ MaxMessages \in Nat
          /\ requested \in [Worker -> BOOLEAN] /\ calling \in [Caller -> BOOLEAN]
      BY QueuesAssumption DEF IInv, TypeInv
    <2>2. pending' \in BOOLEAN
      BY <2>1 DEF Request
    <2>3. messages' \in 0 .. MaxMessages
      BY <2>1 DEF Request
    <2>4. requested' \in [Worker -> BOOLEAN] /\ calling' \in [Caller -> BOOLEAN]
      BY <2>1 DEF Request
    <2> QED
      BY <2>2, <2>3, <2>4
  <1>2. /\ UNCHANGED <<operQueue, taskQueue, appQueue, nrPosted, tasksPosted, blocking>>
        /\ UNCHANGED <<frames, level, suspended, nrSuspends, exec, script, line, started, done>>
    BY DEF Request, posts, stack, program
  <1>3. Stack' /\ Calm
    BY <1>2, StillCalm, InvAt
  <1>4. LevelInv' /\ OrderInv' /\ TaskInv'
    BY <1>2, <1>3, CalmKeeps
  <1>5. TypeInv'
    BY <1>1, <1>2, <1>3 DEF IInv, TypeInv, Stack
  <1> QED
    BY <1>4, <1>5 DEF IInv

\* Messages and the way the main thread goes on without calling anything.
LEMMA MessageInv ==
    ASSUME IInv, HandleMessage \/ HandleOther \/ Confirm PROVE IInv'
  <1>1. Stack
    BY InvAt
  <1>2. Stack' /\ Calm
    <2>1. CASE HandleMessage
      BY <1>1, <2>1, PlainNew, PushCalm DEF HandleMessage, Plain
    <2>2. CASE HandleOther
      BY <1>1, <2>2, PlainNew, PushCalm DEF HandleOther
    <2>3. CASE Confirm
      <3>1. On({"confirm"}) /\ frames' = Goto("handler") /\ {"confirm"} \subseteq Plain
            /\ "handler" \in Plain
        BY <2>3 DEF Confirm, Plain
      <3> QED
        BY <1>1, <3>1, PlainGoto, BecomeCalm
    <2> QED
      BY <2>1, <2>2, <2>3
  <1>3. messages' \in 0 .. MaxMessages /\ pending' \in BOOLEAN /\ suspended' \in BOOLEAN
    <2>1. /\ messages \in 0 .. MaxMessages /\ MaxMessages \in Nat
          /\ pending \in BOOLEAN /\ suspended \in BOOLEAN
      BY QueuesAssumption DEF IInv, TypeInv
    <2>2. CASE HandleMessage
      <3>1. messages' = messages - 1 /\ messages > 0
        BY <2>2 DEF HandleMessage
      <3>2. messages' \in 0 .. MaxMessages
        BY <2>1, <3>1
      <3>3. suspended' \in BOOLEAN
        BY <2>2 DEF HandleMessage
      <3>4. pending' \in BOOLEAN
        BY <2>1, <2>2 DEF HandleMessage
      <3> QED
        BY <3>2, <3>3, <3>4
    <2>3. CASE HandleOther \/ Confirm
      BY <2>1, <2>3 DEF HandleOther, Confirm, requests
    <2> QED
      BY <2>2, <2>3
  <1>4. /\ UNCHANGED <<operQueue, taskQueue, appQueue, nrPosted, tasksPosted, blocking>>
        /\ UNCHANGED <<requested, calling, level, nrSuspends, exec, script, line, started, done>>
    BY DEF HandleMessage, HandleOther, Confirm, posts, requests, program
  <1>5. LevelInv' /\ OrderInv' /\ TaskInv'
    BY <1>2, <1>4, CalmKeeps
  <1>6. TypeInv'
    BY <1>2, <1>3, <1>4 DEF IInv, TypeInv, Stack
  <1> QED
    BY <1>5, <1>6 DEF IInv

LEMMA WaitingInv ==
    ASSUME IInv, Wait \/ WaitAgain \/ WaitEnds \/ Suspend \/ EndTasks \/ ProcessSuspendibleTasks
    PROVE  IInv'
  <1>1. Stack
    BY InvAt
  <1>2. Stack' /\ Calm
    <2>1. CASE Wait
      <3>1. PICK kind \in {"join", "work"} :
              frames' = Append(Become([Top EXCEPT !.waited = TRUE]), Frame(kind))
        BY <2>1 DEF Wait
      <3>2. On({"body"}) /\ kind \in Plain
        BY <2>1 DEF Wait, InBody, Plain
      <3>3. Top \in Shape
        BY <1>1, <3>2, TopShape
      <3>4. [Top EXCEPT !.waited = TRUE] \in Shape /\ Alike(Top, [Top EXCEPT !.waited = TRUE])
        BY <3>3, GoesOn DEF Alike
      <3> QED
        BY <1>1, <3>1, <3>2, <3>4, PlainNew, EnterCalm
    <2>2. CASE WaitAgain
      <3>1. PICK kind \in {"join", "work"} : frames' = Goto(kind)
        BY <2>2 DEF WaitAgain
      <3>2. On({"waiting"}) /\ {"waiting"} \subseteq Plain /\ kind \in Plain
        BY <2>2 DEF WaitAgain, Plain
      <3> QED
        BY <1>1, <3>1, <3>2, PlainGoto, BecomeCalm
    <2>3. CASE WaitEnds \/ EndTasks
      <3>1. PICK kinds : On(kinds) /\ kinds \subseteq Plain /\ frames' = Pop
        BY <2>3 DEF WaitEnds, EndTasks, Plain
      <3>2. "waiting" \in Plain
        BY DEF Plain
      <3>3. IsPlain(Top)
        BY <1>1, <3>1, <3>2, PlainGoto
      <3> QED
        BY <1>1, <3>1, <3>3, PopCalm
    <2>4. CASE Suspend
      BY <1>1, <2>4, StillCalm DEF Suspend
    <2>5. CASE ProcessSuspendibleTasks
      <3>1. PICK kind \in {"app", "waiting"} : frames' = Append(Goto(kind), Frame("tasks"))
        BY <2>5 DEF ProcessSuspendibleTasks
      <3>2. /\ On({"handle_tasks", "work_tasks"}) /\ {"handle_tasks", "work_tasks"} \subseteq Plain
            /\ kind \in Plain /\ "tasks" \in Plain
        BY <2>5 DEF ProcessSuspendibleTasks, Plain
      <3> QED
        BY <1>1, <3>1, <3>2, PlainGoto, PlainNew, EnterCalm
    <2> QED
      BY <2>1, <2>2, <2>3, <2>4, <2>5
  <1>3. suspended' \in BOOLEAN /\ nrSuspends' \in 0 .. MaxSuspends
    <2>1. suspended \in BOOLEAN /\ nrSuspends \in 0 .. MaxSuspends /\ MaxSuspends \in Nat
      BY QueuesAssumption DEF IInv, TypeInv
    <2>2. CASE Suspend
      <3>1. suspended' = TRUE /\ nrSuspends' = nrSuspends + 1 /\ nrSuspends < MaxSuspends
        BY <2>2 DEF Suspend
      <3> QED
        BY <2>1, <3>1
    <2>3. CASE UNCHANGED <<suspended, nrSuspends>>
      BY <2>1, <2>3
    <2> QED
      BY <2>2, <2>3 DEF Wait, WaitAgain, WaitEnds, EndTasks, ProcessSuspendibleTasks
  <1>4. /\ UNCHANGED <<operQueue, taskQueue, appQueue, nrPosted, tasksPosted, pending, messages>>
        /\ UNCHANGED <<blocking, requested, calling, level, exec, script, line, started, done>>
    BY DEF Wait, WaitAgain, WaitEnds, Suspend, EndTasks, ProcessSuspendibleTasks, posts,
           requests, program
  <1>5. LevelInv' /\ OrderInv' /\ TaskInv'
    BY <1>2, <1>4, CalmKeeps
  <1>6. TypeInv'
    BY <1>2, <1>3, <1>4 DEF IInv, TypeInv, Stack
  <1> QED
    BY <1>5, <1>6 DEF IInv

\* Operations: the queue is taken, its members are called, the list ends.
LEMMA ProcessOpersInv ==
    ASSUME IInv, ProcessMainThreadOpers PROVE IInv'
  <1>1. /\ UNCHANGED <<taskQueue, appQueue, nrPosted, tasksPosted, pending, messages, calling>>
        /\ UNCHANGED <<blocking, requested, suspended, nrSuspends, exec, script, line>>
        /\ UNCHANGED <<started, done>>
    BY DEF ProcessMainThreadOpers, requests, program
  <1>2. Stack /\ On({"handler", "join", "work"}) /\ operQueue \in Seq(Oper)
    BY InvAt DEF ProcessMainThreadOpers
  <1>3. {"handler", "join", "work"} \subseteq Plain /\ AfterOpers(Top.kind) \in Plain
    BY <1>2, TopShape DEF Plain, AfterOpers
  <1>4. PICK n, f, g, q : /\ n = Len(frames) /\ f = [Top EXCEPT !.kind = AfterOpers(Top.kind)]
                          /\ q = operQueue /\ g = Listed("opers", q)
    OBVIOUS
  <1>5. /\ f \in Shape /\ IsPlain(Top) /\ IsPlain(f)
        /\ Goto(AfterOpers(Top.kind)) = Become(f) /\ At(n, Top) /\ frames # <<>>
    BY <1>2, <1>3, <1>4, PlainGoto, TopShape
  <1>6. g \in Shape /\ g.kind = "opers" /\ g.of = NoMessage /\ g.list = q
    BY <1>2, <1>4, NewFrames
  <1>7. CASE level = 0
    <2>1. frames' = Append(Become(f), g) /\ level' = 1 /\ operQueue' = <<>>
      BY <1>4, <1>5, <1>7 DEF ProcessMainThreadOpers
    <2>2. /\ Stack'
          /\ \A d, p : OperAt(d, p)' <=> \/ OperAt(d, p) /\ d # n
                                         \/ d = n /\ f.kind = "opers" /\ f.list = p
                                         \/ d = n + 1 /\ g.kind = "opers" /\ g.list = p
          /\ \A d, k : CallAt(d, k)' <=> \/ CallAt(d, k) /\ d # n
                                         \/ d = n /\ f.of = k
                                         \/ d = n + 1 /\ g.of = k
      <3>1. Stack /\ frames # <<>> /\ f \in Shape /\ g \in Shape /\ n = Len(frames)
        BY <1>2, <1>4, <1>5, <1>6
      <3> QED
        BY <2>1, <3>1, EnterPlaces
    <2>3. f.kind # "opers" /\ f.of \notin Task /\ g.of \notin Task
      BY <1>5, <1>6, QueuesAssumption DEF IsPlain
    <2>9. (\A p : ~ OperAt(n, p)) /\ (\A k \in Task : ~ CallAt(n, k))
      BY <1>4, <1>5 DEF At, OperAt, CallAt, IsPlain
    <2>4. \A d, p : OperAt(d, p)' <=> OperAt(d, p) \/ (d = n + 1 /\ p = q)
      BY <1>6, <2>2, <2>3, <2>9
    <2>5. \A d : \A k \in Task : CallAt(d, k)' <=> CallAt(d, k)
      BY <2>2, <2>3, <2>9
    <2>6. LevelInv' /\ OrderInv' /\ TaskInv'
      BY <1>1, <1>4, <1>7, <2>1, <2>2, <2>4, <2>5, ListTaken, TasksKept
    <2>7. operQueue' \in Seq(Oper)
      BY <2>1, EmptySeq
    <2>8. TypeInv'
      BY <1>1, <2>2, <2>7 DEF IInv, TypeInv, Stack
    <2> QED
      BY <2>6, <2>8 DEF IInv
  <1>8. CASE level # 0
    <2>1. frames' = Become(f) /\ UNCHANGED <<level, operQueue>>
      BY <1>4, <1>5, <1>8 DEF ProcessMainThreadOpers
    <2>2. Stack' /\ Calm
      BY <1>2, <1>5, <2>1, BecomeCalm
    <2>3. LevelInv' /\ OrderInv' /\ TaskInv'
      BY <1>1, <2>1, <2>2, CalmKeeps
    <2>4. TypeInv'
      BY <1>1, <2>1, <2>2 DEF IInv, TypeInv, Stack
    <2> QED
      BY <2>3, <2>4 DEF IInv
  <1> QED
    BY <1>7, <1>8

LEMMA CallNextInv ==
    ASSUME IInv, CallNext PROVE IInv'
  <1>1. /\ UNCHANGED <<operQueue, taskQueue, appQueue, nrPosted, tasksPosted, pending, messages>>
        /\ UNCHANGED <<calling, blocking, requested, level, suspended, nrSuspends, exec, script>>
        /\ UNCHANGED <<line, done>>
    BY DEF CallNext, posts, requests, program
  <1>2. PICK n, t, m, f, g :
          /\ n = Len(frames) /\ t = Top /\ m = Head(t.list) /\ f = [t EXCEPT !.list = Tail(@)]
          /\ g = Body(IF t.kind = "opers" THEN NoMessage ELSE m)
    OBVIOUS
  <1>3. /\ Stack /\ On({"opers", "lines"}) /\ t.list # <<>> /\ frames' = Append(Become(f), g)
        /\ started' = IF t.kind = "opers" THEN started \cup {m} ELSE started
    BY <1>2, InvAt DEF CallNext
  <1>4. /\ frames # <<>> /\ t \in Shape /\ t.kind \in {"opers", "lines"} /\ At(n, t)
    BY <1>2, <1>3, TopShape
  <1>5. /\ f \in Shape /\ f.kind = t.kind /\ f.of = NoMessage /\ f.list = Tail(t.list)
        /\ m \in (IF t.kind = "opers" THEN Oper ELSE Line) /\ t.of = NoMessage
    BY <1>2, <1>3, <1>4, ShorterList
  <1>6. g \in Shape /\ IsPlain(g)
    BY <1>2, <1>5, PlainNew
  <1>7. CASE t.kind = "opers"
    <2>1. /\ Stack'
          /\ \A d, q : OperAt(d, q)' <=> \/ OperAt(d, q) /\ d # n
                                         \/ d = n /\ f.kind = "opers" /\ f.list = q
                                         \/ d = n + 1 /\ g.kind = "opers" /\ g.list = q
          /\ \A d, k : CallAt(d, k)' <=> \/ CallAt(d, k) /\ d # n
                                         \/ d = n /\ f.of = k
                                         \/ d = n + 1 /\ g.of = k
      <3>1. /\ Stack /\ frames # <<>> /\ f \in Shape /\ g \in Shape /\ n = Len(frames)
            /\ frames' = Append(Become(f), g)
        BY <1>2, <1>3, <1>4, <1>5, <1>6
      <3> QED
        BY <3>1, EnterPlaces
    <2>2. f.of \notin Task /\ t.of \notin Task /\ g.of \notin Task /\ g.kind # "opers"
      BY <1>5, <1>6, QueuesAssumption DEF IsPlain
    <2>3. PICK list : list = t.list
      OBVIOUS
    <2>4. OperAt(n, list) /\ list # <<>> /\ started' = started \cup {Head(list)}
      BY <1>2, <1>3, <1>4, <1>7, <2>3, PlacesAt
    <2>5. \A d, q : OperAt(d, q)' <=> (OperAt(d, q) /\ d # n) \/ (d = n /\ q = Tail(list))
      BY <1>5, <1>7, <2>1, <2>2, <2>3
    <2>10. \A k \in Task : ~ CallAt(n, k)
      BY <1>4, <2>2 DEF At, CallAt
    <2>6. \A d : \A k \in Task : CallAt(d, k)' <=> CallAt(d, k)
      BY <2>1, <2>2, <2>10
    <2>7. LevelInv' /\ OrderInv' /\ started' \subseteq Oper
      BY <1>1, <2>1, <2>4, <2>5, OperStarted
    <2>8. TaskInv'
      BY <1>1, <2>1, <2>6, TasksKept
    <2>9. TypeInv'
      BY <1>1, <2>1, <2>7 DEF IInv, TypeInv, Stack
    <2> QED
      BY <2>7, <2>8, <2>9 DEF IInv
  <1>8. CASE t.kind = "lines"
    <2>1. IsPlain(f) /\ IsPlain(Top)
      BY <1>2, <1>5, <1>8, QueuesAssumption DEF IsPlain
    <2>2. Stack' /\ Calm
      BY <1>3, <1>5, <1>6, <2>1, EnterCalm
    <2>3. started' = started
      BY <1>3, <1>8
    <2>4. LevelInv' /\ OrderInv' /\ TaskInv'
      BY <1>1, <2>2, <2>3, CalmKeeps
    <2>5. TypeInv'
      BY <1>1, <2>2, <2>3 DEF IInv, TypeInv, Stack
    <2> QED
      BY <2>4, <2>5 DEF IInv
  <1> QED
    BY <1>4, <1>7, <1>8

LEMMA EndListInv ==
    ASSUME IInv, EndList PROVE IInv'
  <1>1. /\ UNCHANGED <<operQueue, taskQueue, appQueue, nrPosted, tasksPosted, pending, messages>>
        /\ UNCHANGED <<calling, blocking, requested, suspended, nrSuspends, exec, script, line>>
        /\ UNCHANGED <<started, done>>
    BY DEF EndList, posts, requests, program
  <1>2. PICK n, t : n = Len(frames) /\ t = Top
    OBVIOUS
  <1>3. /\ Stack /\ On({"opers", "lines"}) /\ t.list = <<>> /\ frames' = Pop
        /\ level' = IF t.kind = "opers" THEN level - 1 ELSE level
    BY <1>2, InvAt DEF EndList
  <1>4. frames # <<>> /\ t \in Shape /\ t.kind \in {"opers", "lines"} /\ At(n, t)
    BY <1>2, <1>3, TopShape
  <1>5. t.of \notin Task
    BY <1>4, GoesOn, QueuesAssumption
  <1>6. CASE t.kind = "opers"
    <2>1. Stack' /\ \A d, h : At(d, h)' <=> At(d, h) /\ d # n
      BY <1>2, <1>3, <1>4, PopFacts
    <2>2. \A h : At(n, h) => h = t
      BY <1>4, PlacesAt
    <2>3. OperAt(n, <<>>)
      BY <1>3, <1>4, <1>6, PlacesAt
    <2>4. \A d, q : OperAt(d, q)' <=> OperAt(d, q) /\ d # n
      BY <2>1, PlacesAt
    <2>5. \A d : \A k \in Task : CallAt(d, k)' <=> CallAt(d, k)
      BY <1>5, <2>1, <2>2, PlacesAt
    <2>6. LevelInv' /\ OrderInv'
      BY <1>1, <1>3, <1>6, <2>1, <2>3, <2>4, ListEnded
    <2>7. TaskInv'
      BY <1>1, <2>1, <2>5, TasksKept
    <2>8. TypeInv'
      BY <1>1, <2>1 DEF IInv, TypeInv, Stack
    <2> QED
      BY <2>6, <2>7, <2>8 DEF IInv
  <1>7. CASE t.kind = "lines"
    <2>1. IsPlain(Top)
      BY <1>2, <1>5, <1>7 DEF IsPlain
    <2>2. Stack' /\ Calm
      BY <1>3, <2>1, PopCalm
    <2>3. level' = level
      BY <1>3, <1>7
    <2>4. LevelInv' /\ OrderInv' /\ TaskInv'
      BY <1>1, <2>2, <2>3, CalmKeeps
    <2>5. TypeInv'
      BY <1>1, <2>2, <2>3 DEF IInv, TypeInv, Stack
    <2> QED
      BY <2>4, <2>5 DEF IInv
  <1> QED
    BY <1>4, <1>6, <1>7

\* Tasks: one is called, all are cancelled, a body ends.
LEMMA CallTaskInv ==
    ASSUME IInv, CallTask PROVE IInv'
  <1>1. /\ UNCHANGED <<operQueue, appQueue, nrPosted, tasksPosted, pending, messages>>
        /\ UNCHANGED <<calling, blocking, requested, level, suspended, nrSuspends, exec, script>>
        /\ UNCHANGED <<line, started, done>>
    BY DEF CallTask, requests, program
  <1>2. PICK n, k, f : n = Len(frames) + 1 /\ k = Head(taskQueue) /\ f = Body(k)
    OBVIOUS
  <1>3. /\ Stack /\ taskQueue # <<>> /\ taskQueue' = Tail(taskQueue)
        /\ frames' = Append(frames, f)
    BY <1>2, InvAt DEF CallTask
  <1>4. k \in Task
    BY <1>2, <1>3, TaskInvAt, HeadTailProperties
  <1>5. f \in Shape /\ f.kind = "body" /\ f.of = k
    BY <1>2, <1>4, NewFrames
  <1>6. Stack' /\ \A d, h : At(d, h)' <=> At(d, h) \/ (d = n /\ h = f)
    BY <1>2, <1>3, <1>5, PushFacts
  <1>7. \A d, q : OperAt(d, q)' <=> OperAt(d, q)
    BY <1>5, <1>6, PlacesAt
  <1>8. \A d : \A m \in Task : CallAt(d, m)' <=> CallAt(d, m) \/ (d = n /\ m = k)
    BY <1>5, <1>6, PlacesAt
  <1>9. TaskInv' /\ taskQueue' \in Seq(Task)
    <2>1. Stack' /\ UNCHANGED <<tasksPosted, done>>
      BY <1>1, <1>6
    <2>2. HeadCalledAt(n)
      BY <1>2, <1>3, <1>8 DEF HeadCalledAt
    <2> QED
      BY <2>1, <2>2, TaskCalled
  <1>10. LevelInv' /\ OrderInv'
    BY <1>1, <1>6, <1>7, OpersKept
  <1>11. TypeInv'
    BY <1>1, <1>6, <1>9 DEF IInv, TypeInv, Stack
  <1> QED
    BY <1>9, <1>10, <1>11 DEF IInv

LEMMA CancelInv ==
    ASSUME IInv, CancelTasks \/ Close PROVE IInv'
  <1>1. /\ UNCHANGED <<operQueue, appQueue, nrPosted, tasksPosted, pending, messages>>
        /\ UNCHANGED <<calling, blocking, requested, level, suspended, nrSuspends, frames>>
        /\ UNCHANGED <<script, line, started>>
    BY DEF CancelTasks, Close, requests, stack, program
  <1>2. /\ taskQueue' = <<>> /\ done' = done \cup {taskQueue[i] : i \in DOMAIN taskQueue}
        /\ exec' \in {exec, "closed"}
    BY DEF CancelTasks, Close, program, stack
  <1>3. TaskInv' /\ taskQueue' \in Seq(Task) /\ done' \subseteq Task \cup Line
    BY <1>1, <1>2, TasksCancelled
  <1>4. Stack' /\ Calm
    BY <1>1, StillCalm, InvAt
  <1>5. LevelInv' /\ OrderInv'
    BY <1>1, <1>4, OpersKept DEF Calm
  <1>6. TypeInv'
    BY <1>1, <1>2, <1>3, <1>4 DEF IInv, TypeInv, Stack
  <1> QED
    BY <1>3, <1>5, <1>6 DEF IInv

LEMMA EndBodyInv ==
    ASSUME IInv, EndBody PROVE IInv'
  <1>1. /\ UNCHANGED <<operQueue, appQueue, nrPosted, tasksPosted, pending, messages>>
        /\ UNCHANGED <<calling, blocking, requested, level, suspended, nrSuspends>>
        /\ UNCHANGED <<exec, script, line, started>>
    BY DEF EndBody, requests, program
  <1>2. PICK n, t, m : n = Len(frames) /\ t = Top /\ m = t.of
    OBVIOUS
  <1>3. /\ Stack /\ On({"body"}) /\ frames' = Pop
        /\ \/ m \in Task /\ taskQueue' = <<m>> \o taskQueue /\ done' = done
           \/ done' = done \cup ({m} \ {NoMessage}) /\ taskQueue' = taskQueue
    BY <1>2, InvAt DEF EndBody, InBody
  <1>4. frames # <<>> /\ t \in Shape /\ t.kind = "body" /\ At(n, t)
    BY <1>2, <1>3, TopShape
  <1>5. Stack' /\ \A d, h : At(d, h)' <=> At(d, h) /\ d # n
    BY <1>2, <1>3, <1>4, PopFacts
  <1>6. \A h : At(n, h) => h = t
    BY <1>4, PlacesAt
  <1>7. \A d, q : OperAt(d, q)' <=> OperAt(d, q)
    BY <1>4, <1>5, <1>6, PlacesAt
  <1>8. CallAt(n, m) /\ \A d : \A k \in Task : CallAt(d, k)' <=> CallAt(d, k) /\ d # n
    BY <1>2, <1>4, <1>5, PlacesAt
  <1>9. LevelInv' /\ OrderInv'
    BY <1>1, <1>5, <1>7, OpersKept
  <1>10. TaskInv' /\ taskQueue' \in Seq(Task)
    <2>1. taskQueue \in Seq(Task)
      BY TaskInvAt
    <2> QED
      BY <1>1, <1>3, <1>5, <1>8, <2>1, TaskRequeued, CallEnded
  <1>11. done' \subseteq Task \cup Line
    <2>1. m \in Task \cup Line \cup {NoMessage} /\ done \subseteq Task \cup Line
      BY <1>2, <1>4, GoesOn DEF IInv, TypeInv
    <2> QED
      BY <1>3, <2>1
  <1>12. TypeInv'
    BY <1>1, <1>5, <1>10, <1>11 DEF IInv, TypeInv, Stack
  <1> QED
    BY <1>9, <1>10, <1>12 DEF IInv

\* The queue of the application and the test script.
LEMMA ProcessAppOpersInv ==
    ASSUME IInv, ProcessAppOpers PROVE IInv'
  <1>1. /\ UNCHANGED <<operQueue, taskQueue, nrPosted, tasksPosted, pending, messages, blocking>>
        /\ UNCHANGED <<requested, level, suspended, nrSuspends, exec, script, line, started>>
        /\ UNCHANGED done
    BY DEF ProcessAppOpers, program
  <1>2. /\ Stack /\ On({"app"}) /\ {"app"} \subseteq Plain /\ "app" \in Plain
        /\ appQueue \in Seq(Line) /\ calling \in [Caller -> BOOLEAN]
    BY InvAt DEF ProcessAppOpers, Plain, IInv, TypeInv
  <1>3. IsPlain(Top)
    BY <1>2, PlainGoto
  <1>4. Stack' /\ Calm
    <2>1. CASE frames' = Pop
      BY <1>2, <1>3, <2>1, PopCalm
    <2>2. CASE frames' = Become(Listed("lines", appQueue))
      <3>1. Listed("lines", appQueue) \in Shape /\ IsPlain(Listed("lines", appQueue))
        BY <1>2, PlainNew
      <3> QED
        BY <1>2, <1>3, <2>2, <3>1, BecomeCalm
    <2> QED
      BY <2>1, <2>2 DEF ProcessAppOpers
  <1>5. calling' \in [Caller -> BOOLEAN] /\ appQueue' \in Seq(Line)
    <2>1. calling' = calling \/ calling' = [calling EXCEPT ![Main] = TRUE]
      BY DEF ProcessAppOpers
    <2>2. appQueue' = appQueue \/ appQueue' = <<>>
      BY DEF ProcessAppOpers
    <2>3. calling' \in [Caller -> BOOLEAN]
      BY <1>2, <2>1
    <2>4. appQueue' \in Seq(Line)
      BY <1>2, <2>2, EmptySeq
    <2> QED
      BY <2>3, <2>4
  <1>6. LevelInv' /\ OrderInv' /\ TaskInv'
    BY <1>1, <1>4, CalmKeeps
  <1>7. TypeInv'
    BY <1>1, <1>4, <1>5 DEF IInv, TypeInv, Stack
  <1> QED
    BY <1>6, <1>7 DEF IInv

LEMMA ScriptInv ==
    ASSUME IInv, ReadLine \/ PostAppOper \/ LineDone \/ Flushed PROVE IInv'
  <1>1. /\ UNCHANGED <<operQueue, taskQueue, nrPosted, tasksPosted, pending, messages, blocking>>
        /\ UNCHANGED <<requested, frames, level, suspended, nrSuspends, started, done>>
    BY DEF ReadLine, PostAppOper, LineDone, Flushed, posts, requests, stack
  <1>2. Stack' /\ Calm
    BY <1>1, StillCalm, InvAt
  <1>3. LevelInv' /\ OrderInv' /\ TaskInv'
    BY <1>1, <1>2, CalmKeeps
  <1>4. /\ line \in 0 .. NrLines /\ (script \in {"post", "wait"} => line \in Line)
        /\ script \in {"read", "post", "wait", "done"} /\ appQueue \in Seq(Line)
        /\ exec \in {"loop", "flush", "get", "closed"} /\ calling \in [Caller -> BOOLEAN]
        /\ NrLines \in Nat
    BY QueuesAssumption DEF IInv, TypeInv
  <1>5. exec' \in {"loop", "flush", "get", "closed"}
    BY <1>4 DEF ReadLine, PostAppOper, LineDone, Flushed
  <1>6. calling' \in [Caller -> BOOLEAN] /\ appQueue' \in Seq(Line)
    <2>1. CASE PostAppOper
      <3>1. line \in Line
        BY <1>4, <2>1 DEF PostAppOper
      <3>2. appQueue' \in Seq(Line)
        BY <1>4, <2>1, <3>1, AppendProperties DEF PostAppOper
      <3>3. calling' \in [Caller -> BOOLEAN]
        BY <1>4, <2>1 DEF PostAppOper
      <3> QED
        BY <3>2, <3>3
    <2>2. CASE UNCHANGED <<calling, appQueue>>
      BY <1>4, <2>2
    <2> QED
      BY <2>1, <2>2 DEF ReadLine, LineDone, Flushed, posts, requests
  <1>7. /\ line' \in 0 .. NrLines /\ (script' \in {"post", "wait"} => line' \in Line)
        /\ script' \in {"read", "post", "wait", "done"}
    <2>1. CASE ReadLine
      <3>1. CASE line < NrLines /\ line' = line + 1 /\ script' = "post"
        <4>1. line + 1 \in 0 .. NrLines /\ line + 1 \in Line
          BY <1>4, <3>1 DEF Line
        <4> QED
          BY <3>1, <4>1
      <3>2. CASE script' = "done" /\ line' = line
        BY <1>4, <3>2
      <3> QED
        BY <2>1, <3>1, <3>2 DEF ReadLine
    <2>2. CASE PostAppOper
      BY <1>4, <2>2 DEF PostAppOper
    <2>3. CASE LineDone
      BY <1>4, <2>3 DEF LineDone
    <2>4. CASE Flushed
      BY <1>4, <2>4 DEF Flushed
    <2> QED
      BY <2>1, <2>2, <2>3, <2>4
  <1>8. TypeInv'
    BY <1>1, <1>2, <1>5, <1>6, <1>7 DEF IInv, TypeInv, Stack
  <1> QED
    BY <1>3, <1>8 DEF IInv

LEMMA ExecReturnsInv ==
    ASSUME IInv, ExecReturns PROVE IInv'
  <1>1. /\ UNCHANGED <<operQueue, taskQueue, appQueue, nrPosted, tasksPosted, pending, messages>>
        /\ UNCHANGED <<calling, blocking, requested, level, suspended, nrSuspends, script>>
        /\ UNCHANGED <<line, started, done>>
        /\ frames = <<>> /\ frames' = <<Frame("confirm")>> /\ exec' = "flush"
    BY DEF ExecReturns, posts, requests
  <1>2. Frame("confirm") \in Shape /\ IsPlain(Frame("confirm"))
    BY PlainNew DEF Plain
  <1>3. Stack' /\ Calm
    BY <1>1, <1>2, InvAt, PushCalm
  <1>4. LevelInv' /\ OrderInv' /\ TaskInv'
    BY <1>1, <1>3, CalmKeeps
  <1>5. TypeInv'
    BY <1>1, <1>3 DEF IInv, TypeInv, Stack
  <1> QED
    BY <1>4, <1>5 DEF IInv

-----------------------------------------------------------------------------
(* The invariant *)

LEMMA InitInv == Init => IInv
  <1> SUFFICES ASSUME Init PROVE IInv
    OBVIOUS
  <1>1. /\ \A S : <<>> \in Seq(S)
        /\ Len(<<>>) = 0 /\ DOMAIN <<>> = {} /\ 1 .. 0 = {}
    BY EmptySeq
  <1>2. TypeInv
    <2>1. NrOpers \in Nat /\ NrLines \in Nat /\ MaxSuspends \in Nat /\ MaxMessages \in Nat
      BY QueuesAssumption
    <2>2. operQueue \in Seq(Oper) /\ taskQueue \in Seq(Task) /\ appQueue \in Seq(Line)
      BY <1>1 DEF Init
    <2>3. frames \in Seq(Shape)
      BY <1>1 DEF Init
    <2>4. /\ nrPosted \in 0 .. NrOpers /\ tasksPosted \subseteq Task
          /\ started \subseteq Oper /\ done \subseteq Task \cup Line
          /\ nrSuspends \in 0 .. MaxSuspends /\ messages \in 0 .. MaxMessages
      BY <2>1 DEF Init
    <2>5. /\ calling \in [Caller -> BOOLEAN]
          /\ blocking \in [Worker -> BOOLEAN] /\ requested \in [Worker -> BOOLEAN]
      BY DEF Init
    <2>6. /\ exec \in {"loop", "flush", "get", "closed"}
          /\ script \in {"read", "post", "wait", "done"} /\ line \in 0 .. NrLines
          /\ script \in {"post", "wait"} => line \in Line
      BY <2>1 DEF Init
    <2>7. pending \in BOOLEAN /\ suspended \in BOOLEAN
      BY DEF Init
    <2> QED
      BY <2>2, <2>3, <2>4, <2>5, <2>6, <2>7 DEF TypeInv
  <1>3. LevelInv
    BY <1>1 DEF Init, LevelInv
  <1>4. OrderInv
    BY <1>1 DEF Init, OrderInv
  <1>5. TaskInv
    BY <1>1 DEF Init, TaskInv, Queued, Called
  <1> QED
    BY <1>2, <1>3, <1>4, <1>5 DEF IInv

LEMMA NextInv == IInv /\ [Next]_vars => IInv'
  <1> SUFFICES ASSUME IInv, [Next]_vars PROVE IInv'
    OBVIOUS
  <1>1. CASE \E t \in Poster : PostOper(t)
    BY <1>1, PostOperInv
  <1>2. CASE \E t \in Worker : EnterBlocker(t) \/ LeaveBlocker(t)
    BY <1>2, BlockerInv
  <1>3. CASE \E t \in Caller : Request(t)
    BY <1>3, RequestInv
  <1>4. CASE PostTask
    BY <1>4, PostTaskInv
  <1>5. CASE HandleMessage \/ HandleOther
    BY <1>5, MessageInv
  <1>6. CASE MainStep
    BY <1>6, MessageInv, ProcessOpersInv, CallNextInv, EndListInv, WaitingInv, CallTaskInv,
       ProcessAppOpersInv, ScriptInv, CancelInv DEF MainStep
  <1>7. CASE Suspend \/ Wait \/ WaitAgain \/ WaitEnds
    BY <1>7, WaitingInv
  <1>8. CASE CancelTasks
    BY <1>8, CancelInv
  <1>9. CASE EndBody
    BY <1>9, EndBodyInv
  <1>10. CASE ReadLine \/ PostAppOper \/ LineDone
    BY <1>10, ScriptInv
  <1>11. CASE ExecReturns
    BY <1>11, ExecReturnsInv
  <1>12. CASE UNCHANGED vars
    <2>1. /\ UNCHANGED <<operQueue, taskQueue, appQueue, nrPosted, tasksPosted, pending, messages>>
          /\ UNCHANGED <<calling, blocking, requested, frames, level, suspended, nrSuspends>>
          /\ UNCHANGED <<exec, script, line, started, done>>
      BY <1>12 DEF vars, posts, requests, stack, program
    <2>2. Stack' /\ Calm
      BY <2>1, StillCalm, InvAt
    <2>3. LevelInv' /\ OrderInv' /\ TaskInv'
      BY <2>1, <2>2, CalmKeeps
    <2>4. TypeInv'
      BY <2>1, <2>2 DEF IInv, TypeInv, Stack
    <2> QED
      BY <2>3, <2>4 DEF IInv
  <1> QED
    BY <1>1, <1>2, <1>3, <1>4, <1>5, <1>6, <1>7, <1>8, <1>9, <1>10, <1>11, <1>12 DEF Next

\* The inductive invariant: the posted operations are the started ones, those of the one
\* local list and those of s_OperQueue, in this order; a posted task is queued once, is
\* called once, or has ended.
THEOREM Invariance == Spec => []IInv
  BY InitInv, NextInv, PTL DEF Spec

-----------------------------------------------------------------------------
(* What the invariant says of the program *)

LEMMA AtMostOne ==
    ASSUME NEW S, \A x, y \in S : x = y
    PROVE  /\ S = {} \/ \E x : S = {x}
           /\ S = {} => Cardinality(S) = 0
           /\ S # {} => Cardinality(S) = 1
           /\ Cardinality(S) <= 1
  <1>1. CASE S = {}
    BY <1>1, FS_EmptySet
  <1>2. CASE S # {}
    <2>1. PICK x : x \in S
      BY <1>2
    <2>2. S = {x}
      BY <2>1
    <2>3. Cardinality(S) = 1
      BY <2>2, FS_Singleton
    <2> QED
      BY <1>2, <2>2, <2>3
  <1> QED
    BY <1>1, <1>2

LEMMA InvTypes == ASSUME IInv PROVE TypeOK
  <1>1. TypeInv /\ LevelInv
    BY DEF IInv
  <1>2. frames \in Seq(Frames)
    <2>1. frames \in Seq(Shape) /\ Shape \subseteq Frames
      BY <1>1 DEF TypeInv, Shape
    <2> QED
      BY <2>1, SeqMonotonic
  <1>3. level = Cardinality({i \in DOMAIN frames : frames[i].kind = "opers"})
    <2> DEFINE S == {i \in DOMAIN frames : frames[i].kind = "opers"}
    <2>1. \A x, y \in S : x = y
      BY <1>1 DEF LevelInv, IsOpers
    <2>2. level \in {0, 1} /\ (level = 1 <=> S # {})
      BY <1>1 DEF LevelInv, IsOpers
    <2>3. (S = {} => Cardinality(S) = 0) /\ (S # {} => Cardinality(S) = 1)
      BY <2>1, AtMostOne
    <2> QED
      BY <2>2, <2>3
  <1> QED
    BY <1>1, <1>2, <1>3 DEF TypeInv, TypeOK

LEMMA InvOrder == ASSUME IInv PROVE OpersInOrder
  <1>1. /\ LevelAt /\ OrderAt /\ LevelInv /\ Stack
        /\ nrPosted - Len(operQueue) \in Int
    BY InvAt, LenProperties DEF IInv
  <1>2. \E n \in Int : started = 1 .. n
    <2>1. CASE level = 0
      BY <1>1, <2>1 DEF OrderAt
    <2>2. CASE level = 1
      <3>1. PICK d, q : OperAt(d, q)
        BY <1>1, <2>2 DEF LevelAt
      <3>2. First(q) \in Int
        BY <1>1, <3>1, OperLists, LenProperties DEF First
      <3> QED
        BY <1>1, <3>1, <3>2 DEF OrderAt
    <2> QED
      BY <1>1, <2>1, <2>2 DEF LevelAt
  <1>3. \A o \in started : 1 .. o \subseteq started
    BY <1>2
  <1>4. Cardinality({i \in DOMAIN frames : /\ i > 1 /\ frames[i].kind = "body"
                                           /\ frames[i - 1].kind = "opers"}) <= 1
    <2> DEFINE S == {i \in DOMAIN frames : /\ i > 1 /\ frames[i].kind = "body"
                                           /\ frames[i - 1].kind = "opers"}
    <2>1. DOMAIN frames = 1 .. Len(frames) /\ Len(frames) \in Nat
      BY <1>1, FramesLen
    <2>2. ASSUME NEW x \in S, NEW y \in S PROVE x = y
      <3>1. x \in Nat /\ y \in Nat /\ x - 1 \in DOMAIN frames /\ y - 1 \in DOMAIN frames
        BY <2>1
      <3>2. x - 1 = y - 1
        BY <1>1, <3>1 DEF LevelInv, IsOpers
      <3> QED
        BY <3>1, <3>2
    <2> QED
      BY <2>2, AtMostOne
  <1> QED
    BY <1>3, <1>4 DEF OpersInOrder

LEMMA InvTasks == ASSUME IInv PROVE TasksAccounted
  <1>1. TypeOK /\ TaskInv /\ tasksPosted \subseteq Task
    BY InvTypes DEF IInv, TypeInv
  <1>2. ASSUME NEW k \in tasksPosted
        PROVE  Cardinality({i \in DOMAIN taskQueue : taskQueue[i] = k})
                 + Cardinality({i \in DOMAIN frames : frames[i].of = k})
                 + Cardinality({k} \cap done) = 1
    <2> DEFINE queued == {i \in DOMAIN taskQueue : taskQueue[i] = k}
               called == {i \in DOMAIN frames : frames[i].of = k}
               ended == {k} \cap done
    <2>1. k \in Task
      BY <1>1
    <2>2. \A x, y \in queued : x = y
      BY <1>1 DEF TaskInv
    <2>3. \A x, y \in called : x = y
      BY <1>1, <2>1 DEF TaskInv
    <2>4. \A x, y \in ended : x = y
      OBVIOUS
    <2>5. /\ queued # {} <=> Queued(k)
          /\ called # {} <=> Called(k)
          /\ ended # {} <=> k \in done
      BY DEF Queued, Called
    <2>6. /\ Queued(k) \/ Called(k) \/ k \in done
          /\ Queued(k) => ~ Called(k) /\ k \notin done
          /\ Called(k) => k \notin done
      BY <1>1, <2>1 DEF TaskInv
    <2>7. /\ Cardinality(queued) = IF Queued(k) THEN 1 ELSE 0
          /\ Cardinality(called) = IF Called(k) THEN 1 ELSE 0
          /\ Cardinality(ended) = IF k \in done THEN 1 ELSE 0
      BY <2>2, <2>3, <2>4, <2>5, AtMostOne
    <2> QED
      BY <2>6, <2>7
  <1> QED
    BY <1>1, <1>2 DEF TasksAccounted

\* Every variable has its type, and s_ProcessMainThreadOperLevel counts the active calls
\* of s_OperQueue.Process.
THEOREM TypeCorrect == Spec => []TypeOK
  <1>1. IInv => TypeOK
    BY InvTypes
  <1> QED
    BY <1>1, Invariance, PTL

\* However many threads post operations while others of them wait: they are called in the
\* order of their posting, one at a time.
THEOREM OperationsAreInOrder == Spec => []OpersInOrder
  <1>1. IInv => OpersInOrder
    BY InvOrder
  <1> QED
    BY <1>1, Invariance, PTL

\* However often tasks suspend, fail, or call others from their waits: each posted task is
\* at exactly one place.
THEOREM TasksAreAccounted == Spec => []TasksAccounted
  <1>1. IInv => TasksAccounted
    BY InvTasks
  <1> QED
    BY <1>1, Invariance, PTL

=============================================================================
