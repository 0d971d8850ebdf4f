----------------------- MODULE OperationScheduler_steps -----------------------
(***************************************************************************)
(* What a step of OperationScheduler does: how it changes the stacks, and    *)
(* that every action is one of the step classes of ClassifiedStep.          *)
(***************************************************************************)
EXTENDS OperationScheduler, FiniteSetTheorems, SequenceTheorems, WellFoundedInduction,
        TLAPS

-----------------------------------------------------------------------------
(* Stacks as sequences *)

\* A sequence given by a function on 1 .. n.
LEMMA SeqOfFunction ==
    ASSUME NEW S, NEW n \in Nat, NEW s \in [1 .. n -> S]
    PROVE  s \in Seq(S) /\ Len(s) = n
  OBVIOUS

\* Push appends its frame.
LEMMA PushProperties ==
    ASSUME NEW S, NEW s \in Seq(S), NEW f \in S
    PROVE  /\ Push(s, f) \in Seq(S)
           /\ Len(Push(s, f)) = Len(s) + 1
           /\ Push(s, f)[Len(s) + 1] = f
  <1>1. Push(s, f) \in [1 .. Len(s) + 1 -> S]
    BY DEF Push
  <1> QED
    BY <1>1, Len(s) + 1 \in Nat, SeqOfFunction DEF Push

LEMMA PushKeeps ==
    ASSUME NEW S, NEW s \in Seq(S), NEW f \in S, NEW k \in 1 .. Len(s)
    PROVE  Push(s, f)[k] = s[k]
  BY DEF Push

\* Pop drops the last frame.
LEMMA PopProperties ==
    ASSUME NEW S, NEW s \in Seq(S), s # << >>
    PROVE  /\ Pop(s) \in Seq(S)
           /\ Len(Pop(s)) = Len(s) - 1
           /\ \A k \in 1 .. Len(s) - 1 : Pop(s)[k] = s[k]
  <1>1. Len(s) - 1 \in Nat
    BY EmptySeq
  <1>2. Pop(s) \in [1 .. Len(s) - 1 -> S]
    BY DEF Pop
  <1> QED
    BY <1>1, <1>2, SeqOfFunction DEF Pop

\* SetTop replaces the last frame.
LEMMA SetTopProperties ==
    ASSUME NEW S, NEW s \in Seq(S), NEW f \in S, s # << >>
    PROVE  /\ SetTop(s, f) \in Seq(S)
           /\ Len(SetTop(s, f)) = Len(s)
           /\ SetTop(s, f)[Len(s)] = f
  <1>1. Len(s) \in Nat \ {0}
    BY EmptySeq
  <1>2. SetTop(s, f) \in [1 .. Len(s) -> S]
    BY DEF SetTop
  <1> QED
    BY <1>1, <1>2, SeqOfFunction, EmptySeq DEF SetTop

LEMMA SetTopKeeps ==
    ASSUME NEW S, NEW s \in Seq(S), NEW f \in S, NEW k \in 1 .. Len(s) - 1
    PROVE  SetTop(s, f)[k] = s[k]
  BY DEF SetTop

-----------------------------------------------------------------------------
(* Stacks as sets of places *)

Stacks == stack \in [Thread -> Seq(Frame)]
TopAt(t) == <<t, Len(stack[t])>>
Above(t) == <<t, Len(stack[t]) + 1>>
Same(p) == p \in Places /\ FrameAt(p)' = FrameAt(p)

LEMMA PlaceOf ==
    ASSUME NEW t, NEW k
    PROVE  <<t, k>> \in Places <=> t \in Thread /\ k \in 1 .. Len(stack[t])
  BY DEF Places

LEMMA PlaceIs ==
    ASSUME NEW p \in Places
    PROVE  p = <<p[1], p[2]>> /\ p[1] \in Thread /\ p[2] \in 1 .. Len(stack[p[1]])
  BY DEF Places

LEMMA FrameType ==
    ASSUME Stacks, NEW p \in Places
    PROVE  FrameAt(p) \in Frame
  <1>1. p[1] \in Thread /\ p[2] \in 1 .. Len(stack[p[1]])
    BY PlaceIs
  <1>2. stack[p[1]] \in Seq(Frame)
    BY <1>1 DEF Stacks
  <1> QED
    BY <1>1, <1>2 DEF FrameAt

\* The same facts of the next state.
LEMMA NextPlaceOf ==
    ASSUME NEW t, NEW k
    PROVE  <<t, k>> \in Places' <=> t \in Thread /\ k \in 1 .. Len(stack'[t])
  BY DEF Places

LEMMA NextPlaceIs ==
    ASSUME NEW p \in Places'
    PROVE  p = <<p[1], p[2]>> /\ p[1] \in Thread /\ p[2] \in 1 .. Len(stack'[p[1]])
  BY DEF Places

\* A step of one thread changes the stack of that thread.
LEMMA StackStep ==
    ASSUME Stacks, NEW t \in Thread, NEW s \in Seq(Frame),
           stack' = [stack EXCEPT ![t] = s]
    PROVE  /\ Stacks'
           /\ stack'[t] = s
           /\ \A u \in Thread : u # t => stack'[u] = stack[u]
  BY DEF Stacks

LEMMA OtherPlaces ==
    ASSUME Stacks, NEW t \in Thread, NEW s \in Seq(Frame),
           stack' = [stack EXCEPT ![t] = s]
    PROVE  /\ \A p \in Places : p[1] # t => p \in Places' /\ FrameAt(p)' = FrameAt(p)
           /\ \A p \in Places' : p[1] # t => Same(p)
  <1>1. \A u \in Thread : u # t => stack'[u] = stack[u]
    BY StackStep
  <1>2. ASSUME NEW p \in Places, p[1] # t
        PROVE  p \in Places' /\ FrameAt(p)' = FrameAt(p)
    <2>1. p = <<p[1], p[2]>> /\ p[1] \in Thread /\ p[2] \in 1 .. Len(stack[p[1]])
      BY PlaceIs
    <2>2. stack'[p[1]] = stack[p[1]]
      BY <1>1, <1>2, <2>1
    <2>3. <<p[1], p[2]>> \in Places'
      BY <2>1, <2>2, NextPlaceOf
    <2> QED
      BY <2>1, <2>2, <2>3 DEF FrameAt
  <1>3. ASSUME NEW p \in Places', p[1] # t
        PROVE  p \in Places /\ FrameAt(p)' = FrameAt(p)
    <2>1. p = <<p[1], p[2]>> /\ p[1] \in Thread /\ p[2] \in 1 .. Len(stack'[p[1]])
      BY NextPlaceIs
    <2>2. stack'[p[1]] = stack[p[1]]
      BY <1>1, <1>3, <2>1
    <2>3. <<p[1], p[2]>> \in Places
      BY <2>1, <2>2, PlaceOf
    <2> QED
      BY <2>1, <2>2, <2>3 DEF FrameAt
  <1> QED
    BY <1>2, <1>3 DEF Same

\* A stack that grows or shrinks by one frame, or gets another top frame.
LEMMA PushPlaces ==
    ASSUME Stacks, NEW t \in Thread, NEW f \in Frame,
           stack' = [stack EXCEPT ![t] = Push(stack[t], f)]
    PROVE  /\ Stacks'
           /\ Len(stack'[t]) = Len(stack[t]) + 1
           /\ \A u \in Thread : u # t => stack'[u] = stack[u]
           /\ Places' = Places \cup {Above(t)}
           /\ Above(t) \notin Places
           /\ \A p \in Places : Same(p)
           /\ \A p \in Places' : p = Above(t) => FrameAt(p)' = f
  <1> DEFINE n == Len(stack[t])
             s == Push(stack[t], f)
  <1>1. stack[t] \in Seq(Frame) /\ n \in Nat
    BY LenProperties DEF Stacks
  <1>2. /\ s \in Seq(Frame) /\ Len(s) = n + 1
        /\ \A k \in 1 .. n : s[k] = stack[t][k]
        /\ s[n + 1] = f
    BY <1>1, PushProperties, PushKeeps
  <1>3. /\ Stacks' /\ stack'[t] = s
        /\ \A u \in Thread : u # t => stack'[u] = stack[u]
    BY <1>2, StackStep
  <1>4. Above(t) \notin Places
    BY <1>1, PlaceOf DEF Above
  <1>5. ASSUME NEW p \in Places
        PROVE  p \in Places' /\ FrameAt(p)' = FrameAt(p)
    <2>1. p = <<p[1], p[2]>> /\ p[1] \in Thread /\ p[2] \in 1 .. Len(stack[p[1]])
      BY PlaceIs
    <2>2. CASE p[1] # t
      BY <1>2, <2>2, OtherPlaces
    <2>3. CASE p[1] = t
      <3>1. p[2] \in 1 .. Len(stack'[p[1]]) /\ stack'[p[1]][p[2]] = stack[p[1]][p[2]]
        BY <1>1, <1>2, <1>3, <2>1, <2>3
      <3>2. <<p[1], p[2]>> \in Places'
        BY <2>1, <3>1, NextPlaceOf
      <3> QED
        BY <2>1, <3>1, <3>2 DEF FrameAt
    <2> QED
      BY <2>2, <2>3
  <1>6. Above(t) \in Places'
    BY <1>1, <1>2, <1>3, NextPlaceOf DEF Above
  <1>7. ASSUME NEW p \in Places', p # Above(t)
        PROVE  p \in Places
    <2>1. p = <<p[1], p[2]>> /\ p[1] \in Thread /\ p[2] \in 1 .. Len(stack'[p[1]])
      BY NextPlaceIs
    <2>2. CASE p[1] # t
      BY <1>2, <2>2, OtherPlaces DEF Same
    <2>3. CASE p[1] = t
      <3>1. p[2] # n + 1
        BY <1>7, <2>1, <2>3 DEF Above
      <3>2. p[2] \in 1 .. Len(stack[p[1]])
        BY <1>1, <1>2, <1>3, <2>1, <2>3, <3>1
      <3> QED
        BY <2>1, <3>2, PlaceOf
    <2> QED
      BY <2>2, <2>3
  <1>8. ASSUME NEW p, p = Above(t)
        PROVE  FrameAt(p)' = f
    <2>1. p[1] = t /\ p[2] = n + 1
      BY <1>8 DEF Above
    <2> QED
      BY <1>2, <1>3, <2>1 DEF FrameAt
  <1> QED
    BY <1>2, <1>3, <1>4, <1>5, <1>6, <1>7, <1>8 DEF Same

LEMMA PopPlaces ==
    ASSUME Stacks, NEW t \in Thread, stack[t] # << >>,
           stack' = [stack EXCEPT ![t] = Pop(stack[t])]
    PROVE  /\ Stacks'
           /\ Len(stack'[t]) = Len(stack[t]) - 1
           /\ \A u \in Thread : u # t => stack'[u] = stack[u]
           /\ TopAt(t) \in Places /\ FrameAt(TopAt(t)) = Top(t)
           /\ Places' = Places \ {TopAt(t)}
           /\ \A p \in Places' : Same(p)
  <1> DEFINE n == Len(stack[t])
             s == Pop(stack[t])
  <1>1. stack[t] \in Seq(Frame) /\ n \in Nat \ {0}
    BY LenProperties, EmptySeq DEF Stacks
  <1>2. /\ s \in Seq(Frame) /\ Len(s) = n - 1
        /\ \A k \in 1 .. n - 1 : s[k] = stack[t][k]
    BY <1>1, PopProperties
  <1>3. /\ Stacks' /\ stack'[t] = s
        /\ \A u \in Thread : u # t => stack'[u] = stack[u]
    BY <1>2, StackStep
  <1>4. TopAt(t) \in Places /\ FrameAt(TopAt(t)) = Top(t)
    BY <1>1, PlaceOf DEF TopAt, FrameAt, Top
  <1>5. TopAt(t) \notin Places'
    BY <1>1, <1>2, <1>3, NextPlaceOf DEF TopAt
  <1>6. ASSUME NEW p \in Places, p # TopAt(t)
        PROVE  p \in Places'
    <2>1. p = <<p[1], p[2]>> /\ p[1] \in Thread /\ p[2] \in 1 .. Len(stack[p[1]])
      BY PlaceIs
    <2>2. CASE p[1] # t
      BY <1>2, <2>2, OtherPlaces
    <2>3. CASE p[1] = t
      <3>1. p[2] # n
        BY <1>6, <2>1, <2>3 DEF TopAt
      <3>2. p[2] \in 1 .. Len(stack'[p[1]])
        BY <1>1, <1>2, <1>3, <2>1, <2>3, <3>1
      <3> QED
        BY <2>1, <3>2, NextPlaceOf
    <2> QED
      BY <2>2, <2>3
  <1>7. ASSUME NEW p \in Places'
        PROVE  Same(p)
    <2>1. p = <<p[1], p[2]>> /\ p[1] \in Thread /\ p[2] \in 1 .. Len(stack'[p[1]])
      BY NextPlaceIs
    <2>2. CASE p[1] # t
      BY <1>2, <2>2, OtherPlaces
    <2>3. CASE p[1] = t
      <3>1. p[2] \in 1 .. Len(stack[p[1]]) /\ stack'[p[1]][p[2]] = stack[p[1]][p[2]]
        BY <1>1, <1>2, <1>3, <2>1, <2>3
      <3>2. <<p[1], p[2]>> \in Places
        BY <2>1, <3>1, PlaceOf
      <3> QED
        BY <2>1, <3>1, <3>2 DEF FrameAt, Same
    <2> QED
      BY <2>2, <2>3
  <1> QED
    BY <1>2, <1>3, <1>4, <1>5, <1>6, <1>7 DEF Same

LEMMA SetTopOf ==
    ASSUME Stacks, NEW t \in Thread, stack[t] # << >>, NEW f \in Frame
    PROVE  LET s == SetTop(stack[t], f)
               n == Len(stack[t])
           IN  /\ s \in Seq(Frame) /\ Len(s) = n
               /\ \A k \in 1 .. n - 1 : s[k] = stack[t][k]
               /\ s[n] = f
  <1>1. stack[t] \in Seq(Frame)
    BY DEF Stacks
  <1>2. SetTop(stack[t], f) \in Seq(Frame)
    BY <1>1, SetTopProperties
  <1>3. Len(SetTop(stack[t], f)) = Len(stack[t])
    BY <1>1, SetTopProperties
  <1>4. SetTop(stack[t], f)[Len(stack[t])] = f
    BY <1>1, SetTopProperties
  <1>5. \A k \in 1 .. Len(stack[t]) - 1 : SetTop(stack[t], f)[k] = stack[t][k]
    BY <1>1, SetTopKeeps
  <1> QED
    BY <1>2, <1>3, <1>4, <1>5

LEMMA SetTopPlaces ==
    ASSUME Stacks, NEW t \in Thread, stack[t] # << >>, NEW f \in Frame,
           stack' = [stack EXCEPT ![t] = SetTop(stack[t], f)]
    PROVE  /\ Stacks'
           /\ Len(stack'[t]) = Len(stack[t])
           /\ \A u \in Thread : u # t => stack'[u] = stack[u]
           /\ TopAt(t) \in Places /\ FrameAt(TopAt(t)) = Top(t)
           /\ Places' = Places
           /\ \A p \in Places' : p = TopAt(t) => FrameAt(p)' = f
           /\ \A p \in Places' : p # TopAt(t) => Same(p)
  <1> DEFINE n == Len(stack[t])
             s == SetTop(stack[t], f)
  <1>1. stack[t] \in Seq(Frame) /\ n \in Nat \ {0}
    BY LenProperties, EmptySeq DEF Stacks
  <1>2. /\ s \in Seq(Frame) /\ Len(s) = n
        /\ \A k \in 1 .. n - 1 : s[k] = stack[t][k]
        /\ s[n] = f
    BY SetTopOf
  <1>3. /\ Stacks' /\ stack'[t] = s
        /\ \A u \in Thread : u # t => stack'[u] = stack[u]
    BY <1>2, StackStep
  <1>4. TopAt(t) \in Places /\ FrameAt(TopAt(t)) = Top(t)
    BY <1>1, PlaceOf DEF TopAt, FrameAt, Top
  <1>5. \A u \in Thread : Len(stack'[u]) = Len(stack[u])
    BY <1>2, <1>3
  <1>6. Places' = Places
    BY <1>5 DEF Places
  <1>7. ASSUME NEW p \in Places', p # TopAt(t)
        PROVE  FrameAt(p)' = FrameAt(p)
    <2>1. p = <<p[1], p[2]>> /\ p[1] \in Thread /\ p[2] \in 1 .. Len(stack'[p[1]])
      BY NextPlaceIs
    <2>2. CASE p[1] # t
      BY <1>2, <2>2, OtherPlaces DEF Same
    <2>3. CASE p[1] = t
      <3>1. p[2] # n
        BY <1>7, <2>1, <2>3 DEF TopAt
      <3>2. stack'[p[1]][p[2]] = stack[p[1]][p[2]]
        BY <1>1, <1>2, <1>3, <2>1, <2>3, <3>1
      <3> QED
        BY <3>2 DEF FrameAt
    <2> QED
      BY <2>2, <2>3
  <1>8. ASSUME NEW p, p = TopAt(t)
        PROVE  FrameAt(p)' = f
    <2>1. p[1] = t /\ p[2] = n
      BY <1>8 DEF TopAt
    <2> QED
      BY <1>2, <1>3, <2>1 DEF FrameAt
  <1> QED
    BY <1>2, <1>3, <1>4, <1>6, <1>7, <1>8 DEF Same

\* A frame is put on a changed top frame.
LEMMA GrowPlaces ==
    ASSUME Stacks, NEW t \in Thread, stack[t] # << >>, NEW g \in Frame, NEW f \in Frame,
           stack' = [stack EXCEPT ![t] = Push(SetTop(stack[t], g), f)]
    PROVE  /\ Stacks'
           /\ Len(stack'[t]) = Len(stack[t]) + 1
           /\ \A u \in Thread : u # t => stack'[u] = stack[u]
           /\ TopAt(t) \in Places /\ FrameAt(TopAt(t)) = Top(t)
           /\ Places' = Places \cup {Above(t)}
           /\ Above(t) \notin Places
           /\ \A p \in Places' : p = TopAt(t) => FrameAt(p)' = g
           /\ \A p \in Places' : p = Above(t) => FrameAt(p)' = f
           /\ \A p \in Places : p # TopAt(t) => Same(p)
  <1> DEFINE n == Len(stack[t])
             r == SetTop(stack[t], g)
             s == Push(r, f)
  <1>1. stack[t] \in Seq(Frame) /\ n \in Nat \ {0}
    BY LenProperties, EmptySeq DEF Stacks
  <1>2. /\ r \in Seq(Frame) /\ Len(r) = n
        /\ \A k \in 1 .. n - 1 : r[k] = stack[t][k]
        /\ r[n] = g
    BY SetTopOf
  <1>3. /\ s \in Seq(Frame) /\ Len(s) = n + 1
        /\ \A k \in 1 .. n : s[k] = r[k]
        /\ s[n + 1] = f
    <2>1. r \in Seq(Frame) /\ Len(r) = n
      BY <1>2
    <2> HIDE DEF r, n
    <2>2. s \in Seq(Frame)
      BY <2>1, PushProperties
    <2>3. Len(s) = n + 1
      BY <2>1, PushProperties
    <2>4. s[n + 1] = f
      BY <2>1, PushProperties
    <2>5. \A k \in 1 .. n : s[k] = r[k]
      BY <2>1, PushKeeps
    <2> QED
      BY <2>2, <2>3, <2>4, <2>5
  <1>4. /\ Stacks' /\ stack'[t] = s
        /\ \A u \in Thread : u # t => stack'[u] = stack[u]
    BY <1>3, StackStep
  <1>5. TopAt(t) \in Places /\ FrameAt(TopAt(t)) = Top(t)
    BY <1>1, PlaceOf DEF TopAt, FrameAt, Top
  <1>6. Above(t) \notin Places
    BY <1>1, PlaceOf DEF Above
  <1>7. \A u \in Thread : Len(stack'[u]) = IF u = t THEN n + 1 ELSE Len(stack[u])
    BY <1>3, <1>4
  <1>8. Places' = Places \cup {Above(t)}
    <2>1. ASSUME NEW p \in Places PROVE p \in Places'
      <3>1. p = <<p[1], p[2]>> /\ p[1] \in Thread /\ p[2] \in 1 .. Len(stack[p[1]])
        BY PlaceIs
      <3>2. p[2] \in 1 .. Len(stack'[p[1]])
        BY <1>1, <1>7, <3>1
      <3> QED
        BY <3>1, <3>2, NextPlaceOf
    <2>2. Above(t) \in Places'
      BY <1>1, <1>7, NextPlaceOf DEF Above
    <2>3. ASSUME NEW p \in Places', p # Above(t) PROVE p \in Places
      <3>1. p = <<p[1], p[2]>> /\ p[1] \in Thread /\ p[2] \in 1 .. Len(stack'[p[1]])
        BY NextPlaceIs
      <3>2. p[1] = t => p[2] # n + 1
        BY <2>3, <3>1 DEF Above
      <3>3. p[2] \in 1 .. Len(stack[p[1]])
        BY <1>1, <1>7, <3>1, <3>2
      <3> QED
        BY <3>1, <3>3, PlaceOf
    <2> QED
      BY <2>1, <2>2, <2>3
  <1>9. ASSUME NEW p \in Places, p # TopAt(t)
        PROVE  FrameAt(p)' = FrameAt(p)
    <2>1. p = <<p[1], p[2]>> /\ p[1] \in Thread /\ p[2] \in 1 .. Len(stack[p[1]])
      BY PlaceIs
    <2>2. CASE p[1] # t
      BY <1>4, <2>1, <2>2 DEF FrameAt
    <2>3. CASE p[1] = t
      <3>1. p[2] # n
        BY <1>9, <2>1, <2>3 DEF TopAt
      <3>2. stack'[p[1]][p[2]] = stack[p[1]][p[2]]
        BY <1>1, <1>2, <1>3, <1>4, <2>1, <2>3, <3>1
      <3> QED
        BY <3>2 DEF FrameAt
    <2> QED
      BY <2>2, <2>3
  <1>10. ASSUME NEW p, p = TopAt(t)
         PROVE  FrameAt(p)' = g
    <2>1. p[1] = t /\ p[2] = n
      BY <1>10 DEF TopAt
    <2>2. s[n] = g
      BY <1>1, <1>2, <1>3
    <2> QED
      BY <1>4, <2>1, <2>2 DEF FrameAt
  <1>11. ASSUME NEW p, p = Above(t)
         PROVE  FrameAt(p)' = f
    <2>1. p[1] = t /\ p[2] = n + 1
      BY <1>11 DEF Above
    <2> QED
      BY <1>3, <1>4, <2>1 DEF FrameAt
  <1> QED
    BY <1>3, <1>4, <1>5, <1>6, <1>8, <1>9, <1>10, <1>11 DEF Same

-----------------------------------------------------------------------------
(* Frames, field by field *)

Pc == RunPc \cup JoinPc \cup DirectPc \cup {"update"}

LEMMA NewJoinFields ==
    ASSUME NEW c \in Op, NEW silent \in BOOLEAN
    PROVE  LET f == NewFrame("join", c, "loop", silent)
           IN  f \in Frame /\ f.kind = "join" /\ f.op = c /\ f.rest = {}
  BY DEF NewFrame, Frame, JoinPc

\* Goto moves the program counter only.
LEMMA PcFields ==
    ASSUME NEW f \in Frame, NEW pc \in Pc
    PROVE  LET g == [f EXCEPT !.pc = pc]
           IN  /\ g \in Frame
               /\ g.kind = f.kind /\ g.op = f.op /\ g.pc = pc /\ g.rest = f.rest
  BY DEF Frame, Pc

LEMMA FieldTypes ==
    ASSUME NEW f \in Frame
    PROVE  /\ f.kind \in {"run", "join", "direct", "fence"} /\ f.op \in Op /\ f.pc \in Pc
           /\ f.first \in Op \cup {NoOp} /\ f.rest \in SUBSET Op
  BY DEF Frame, Pc

-----------------------------------------------------------------------------
(* What the steps do, action by action.  A step that starts, runs or ends no *)
(* context is quiet; the others license, activate, end or run some contexts. *)

\* TypeOK without the two counters.
Shape ==
    /\ life \in [Op -> {"new", "alive", "dead"}]
    /\ status \in [Op -> Status]
    /\ result \in [Op -> {"none", "ready", "failed"}]
    /\ owned \in [Op -> BOOLEAN]
    /\ hasFunc \in [Op -> BOOLEAN]
    /\ writeLock \in [Op -> BOOLEAN]
    /\ suppliers \in [Op -> SUBSET Op]
    /\ waiters \in [Op -> SUBSET Op]
    /\ queued \subseteq Op
    /\ radio \in Seq(Op)
    /\ tasks \subseteq Op
    /\ activePhase \in PhaseNr \cup {0}
    /\ asleep \subseteq Thread
    /\ Stacks
    /\ \A t \in Thread : Len(stack[t]) <= MaxDepth
    /\ todo \in [Thread -> SUBSET Item]
    /\ closing \in BOOLEAN

LEMMA ShapeAndCounts ==
    TypeOK <=> /\ Shape
               /\ nrActive \in [PhaseNr -> Nat]
               /\ finished \in 0 .. Cardinality(Op)
  BY DEF TypeOK, Shape, Stacks

\* What a frame refers to is alive.
AliveFrame(f) == life[f.op] = "alive" /\ \A a \in f.rest : life[a] = "alive"

\* How the frame at p may change: a Join appears, or goes on ...
JoinMove(p) ==
    /\ FrameAt(p)'.kind = "join" /\ AliveFrame(FrameAt(p)')
    /\ p \in Places \/ ~ closing \/ p[1] # Meta

\* ... a context is scheduled further ...
DirectMove(p) ==
    LET f == FrameAt(p)
        g == FrameAt(p)'
    IN  /\ p \in Places
        /\ f.kind \in MetaKind /\ g.kind = "direct" /\ g.op = f.op
        /\ \/ g.pc = "connect" /\ g.rest = {}
           \/ /\ f.kind = "direct" /\ f.pc = "schedule" /\ g.pc = "suppl"
              /\ g.op \in Direct
              /\ g.rest = IF status[g.op] = "none" THEN suppliers[g.op] ELSE {}
           \/ /\ f.kind = "direct" /\ f.pc = "suppl"
              /\ g.pc = "joined" /\ g.rest = f.rest
           \/ /\ f.kind = "direct" /\ f.pc = "joined"
              /\ g.pc = "suppl" /\ g.rest \subseteq f.rest
              /\ \A s \in f.rest \ g.rest : status[s] = "done"

\* ... a payload of a context of R is started ...
RunNew(p, R) ==
    LET g == FrameAt(p)'
    IN  /\ p \notin Places
        /\ g.kind = "run" /\ g.pc = "start" /\ g.op \in R /\ g.rest = {}
        /\ ~ closing \/ p[1] # Meta

\* ... or given up.
RunEnd(p) ==
    LET f == FrameAt(p)
        g == FrameAt(p)'
    IN  /\ p \in Places
        /\ f.kind = "run" /\ f.pc \in {"func", "oper"}
        /\ g.kind = "run" /\ g.pc = "end" /\ g.op = f.op /\ g.rest = f.rest
        /\ result'[g.op] = "failed" \/ closing

\* Items are handled that have no effect, or start contexts.
TodoQuiet ==
    \A t \in Thread :
        /\ todo'[t] \subseteq todo[t] \cup {Start}
        /\ \A i \in todo[t] \ todo'[t] : i = Start \/ life[i.op] # "alive"

QuietStep ==
    /\ UNCHANGED <<context, graph, queues, finished, closing>>
    /\ TodoQuiet
    /\ \A p \in Places' : Same(p) \/ JoinMove(p) \/ DirectMove(p)

\* The contexts of R are licensed and those of B placed back.
LicenseStep(R, B) ==
    /\ \A c \in R \cup B : c \in Op /\ status[c] = "activated" /\ life[c] = "alive"
    /\ R \cap B = {}
    /\ status' = [c \in Op |-> IF c \in R THEN "running"
                               ELSE IF c \in B THEN "scheduled" ELSE status[c]]
    /\ queued' = queued \cup B
    /\ nrActive' = [p \in PhaseNr |->
          nrActive[p] - Cardinality({c \in B : Phase[c] = p})]
    /\ UNCHANGED <<context, suppliers, waiters, activePhase, finished, todo, closing>>
    /\ \A p \in Places' : Same(p) \/ JoinMove(p) \/ RunNew(p, R)
    /\ \A p, r \in Places' : p \notin Places /\ r \notin Places => p = r

\* The contexts of X leave their queue activated.
ActivateStep(X) ==
    /\ \A c \in X : c \in queued /\ life[c] = "alive" /\ status[c] \notin Final
    /\ queued' \subseteq queued /\ X \cap queued' = {}
    /\ \A c \in queued \ queued' : c \in X \/ life[c] # "alive" \/ status[c] \in Final
    /\ status' = [c \in Op |-> IF c \in X THEN "activated" ELSE status[c]]
    /\ nrActive' = [p \in PhaseNr |->
          nrActive[p] + Cardinality({c \in X : Phase[c] = p})]
    /\ UNCHANGED <<context, suppliers, waiters, finished, closing>>
    /\ TodoQuiet
    /\ \A p \in Places' : Same(p) \/ JoinMove(p)

\* The result of c fails, for the thread that schedules c or runs its operator.
Fails(c) ==
    /\ result'[c] = "failed"
    /\ \E p \in Places :
         /\ FrameAt(p).op = c
         /\ FrameAt(p).kind \in MetaKind \/ (FrameAt(p).kind = "run" /\ FrameAt(p).pc = "oper")

\* Why c ends with st.
EndCause(c, st) ==
    /\ life[c] # "new"
    /\ st = "exception" => result'[c] = "failed"
    /\ st = "cancelled" => closing \/ life[c] = "dead"
    /\ st = "done" => \E p \in Places \ Places' :
         FrameAt(p).op = c /\ FrameAt(p).kind = "run" /\ FrameAt(p).pc = "cleanup"

\* The contexts of S end with st, and why.
EndStep(S, st) ==
    /\ S \subseteq Op /\ st \in Final
    /\ \A c \in S : status[c] \notin Final
    /\ EndAll(S, st)
    /\ \E G \in SUBSET queued :
         /\ queued' = (queued \ G) \cup Runnable(S, st)
         /\ \A c \in G : c \in S \/ life[c] # "alive" \/ status[c] \in Final
    /\ UNCHANGED <<life, closing>>
    /\ \E t \in Thread : \E keep \in SUBSET todo[t] :
         /\ todo' = [todo EXCEPT ![t] = keep \cup EndItems(S, st)]
         /\ \A i \in todo[t] \ keep : \/ i = Start \/ life[i.op] # "alive"
                                      \/ i.op \in S \/ status[i.op] \in Final
    /\ \A c \in Op : result'[c] = result[c] \/ Fails(c)
    /\ \A c \in S : EndCause(c, st)
    /\ \A p \in Places' : p \in Places /\ (Same(p) \/ JoinMove(p) \/ RunEnd(p))

\* The payload of c at p goes on.
RunMove(p, c) ==
    LET f == FrameAt(p)
        g == FrameAt(p)'
    IN  /\ p \in Places /\ c \in Op /\ Places' = Places
        /\ \A r \in Places : r # p => Same(r)
        /\ f.kind = "run" /\ f.op = c
        /\ g.kind = "run" /\ g.op = c /\ g.rest = f.rest
        /\ UNCHANGED <<life, owned, graph, queues, finished, todo, closing>>
        /\ \/ /\ f.pc = "start" /\ g.pc = IF hasFunc[c] THEN "func" ELSE "end"
              /\ hasFunc' = [hasFunc EXCEPT ![c] = FALSE]
              /\ UNCHANGED <<result, writeLock>>
           \/ /\ f.pc = "func" /\ g.pc = "end" /\ ~ owned[c]
              /\ UNCHANGED <<hasFunc, result, writeLock>>
           \/ /\ f.pc = "func" /\ g.pc = "end"
              /\ result' = [result EXCEPT ![c] = "failed"]
              /\ UNCHANGED <<hasFunc, writeLock>>
           \/ /\ f.pc = "func" /\ g.pc = "oper" /\ owned[c] /\ ~ closing
              /\ \A a \in Args[c] : result[a] # "failed" /\ ~ writeLock[a]
              /\ UNCHANGED <<hasFunc, result, writeLock>>
           \/ /\ f.pc = "oper" /\ g.pc = "end"
              /\ result' = [result EXCEPT ![c] = IF @ = "none" THEN "ready" ELSE @]
              /\ UNCHANGED <<hasFunc, writeLock>>
           \/ /\ f.pc = "end" /\ g.pc = "cleanup"
              /\ writeLock' = [writeLock EXCEPT ![c] = FALSE]
              /\ UNCHANGED <<hasFunc, result>>

\* A context is created, or found again, and its scheduling begins.
BeginStep(c) ==
    /\ c \in Op /\ ~ closing /\ status[c] = "none" /\ result[c] = "none"
    /\ life[c] = "new" \/ owned[c]
    /\ \A p \in Places : FrameAt(p).op # c
    /\ \A a \in Args[c] : Usable(a)
    /\ life' = [life EXCEPT ![c] = "alive"]
    /\ owned' = [owned EXCEPT ![c] = TRUE]
    /\ UNCHANGED <<graph, queues, result, hasFunc, writeLock, finished, todo, closing>>
    /\ \A p \in Places' :
         \/ Same(p)
         \/ /\ p = Above(Meta) /\ p \notin Places
            /\ FrameAt(p)'.kind \in MetaKind /\ FrameAt(p)'.op = c
            /\ FrameAt(p)'.pc \in {"connect", "update"} /\ FrameAt(p)'.rest = {}

\* The payload, the write lock and the suppliers of c are set.
ConnectStep(p, c, S) ==
    /\ p \in Places /\ c \in Op /\ Places' = Places
    /\ \A r \in Places : r # p => Same(r)
    /\ FrameAt(p).kind = "direct" /\ FrameAt(p).pc = "connect" /\ FrameAt(p).op = c
    /\ FrameAt(p)'.kind = "direct" /\ FrameAt(p)'.pc = "schedule" /\ FrameAt(p)'.op = c
    /\ FrameAt(p)'.rest = FrameAt(p).rest
    /\ result[c] # "failed"
    /\ S = {a \in Args[c] : owned[a] /\ status[a] \notin Final}
    /\ hasFunc' = [hasFunc EXCEPT ![c] = TRUE]
    /\ writeLock' = [writeLock EXCEPT ![c] = TRUE]
    /\ suppliers' = [suppliers EXCEPT ![c] = @ \cup S]
    /\ waiters' = ConnectWaiter(c, S)
    /\ UNCHANGED <<life, status, result, owned, queues, finished, todo, closing>>

\* c is queued, or waits for its suppliers.
QueueStep(p, c) ==
    /\ p \in Places /\ c \in Op \ Direct /\ status[c] = "none"
    /\ FrameAt(p).kind = "direct" /\ FrameAt(p).pc = "schedule" /\ FrameAt(p).op = c
    /\ status' = [status EXCEPT ![c] =
          IF suppliers[c] = {} THEN "scheduled" ELSE "waiting"]
    /\ queued' = queued \cup IF suppliers[c] = {} THEN {c} ELSE {}
    /\ UNCHANGED <<context, suppliers, waiters, nrActive, finished, todo, closing>>
    /\ Places' = Places \ {p}
    /\ \A r \in Places' : Same(r)

\* c is licensed to the meta thread.
DirectRunStep(p, c) ==
    /\ p \in Places /\ c \in Direct /\ Places' = Places
    /\ \A r \in Places : r # p => Same(r)
    /\ FrameAt(p).kind = "direct" /\ FrameAt(p).pc = "suppl" /\ FrameAt(p).op = c
    /\ FrameAt(p).rest = {}
    /\ FrameAt(p)'.kind = "run" /\ FrameAt(p)'.pc = "start" /\ FrameAt(p)'.op = c
    /\ FrameAt(p)'.rest = {}
    /\ status[c] = "none"
    /\ status' = [status EXCEPT ![c] = "running"]
    /\ nrActive' = [nrActive EXCEPT ![Phase[c]] = @ + 1]
    /\ UNCHANGED <<context, suppliers, waiters, queued, activePhase, finished, todo, closing>>

\* The failure of a supplier reaches the result of c.
FailStep(t, i, c) ==
    /\ t \in Thread /\ i \in todo[t] /\ i.do = "fail" /\ i.op = c /\ c \in Op
    /\ life[c] = "alive"
    /\ result' = [result EXCEPT ![c] = "failed"]
    /\ todo' = [todo EXCEPT ![t] = (@ \ {i}) \cup {[do |-> "endFailed", op |-> c]}]
    /\ UNCHANGED <<life, owned, hasFunc, writeLock, graph, queues, finished, stack, closing>>

-----------------------------------------------------------------------------
(* Every action is one of these steps *)

\* The thread that is at a place in the code has a frame there.
LEMMA TopFrame ==
    ASSUME Stacks, NEW t \in Thread, NEW kind, NEW pc, At(t, kind, pc)
    PROVE  /\ stack[t] # << >> /\ todo[t] = {}
           /\ TopAt(t) \in Places /\ FrameAt(TopAt(t)) = Top(t)
           /\ Top(t) \in Frame /\ Top(t).kind = kind /\ Top(t).pc = pc
           /\ Top(t).op \in Op /\ Top(t).rest \in SUBSET Op
           /\ Top(t).first \in Op \cup {NoOp}
  <1>1. stack[t] # << >> /\ todo[t] = {} /\ Top(t).kind = kind /\ Top(t).pc = pc
    BY DEF At, Ready
  <1>2. stack[t] \in Seq(Frame)
    BY DEF Stacks
  <1>3. Len(stack[t]) \in 1 .. Len(stack[t])
    BY <1>1, <1>2, EmptySeq, LenProperties
  <1>4. TopAt(t) \in Places
    BY <1>3, PlaceOf DEF TopAt
  <1>5. FrameAt(TopAt(t)) = Top(t)
    BY DEF FrameAt, TopAt, Top
  <1>6. Top(t) \in Frame
    BY <1>4, <1>5, FrameType
  <1> QED
    BY <1>1, <1>4, <1>5, <1>6, FieldTypes

\* When the configuration closes the meta thread has no frame.
LEMMA NotClosing ==
    ASSUME FrameInv, NEW p \in Places, p[1] = Meta
    PROVE  ~ closing
  BY DEF FrameInv

\* A thread leaves its innermost frame.
LEMMA LeaveQuiet ==
    ASSUME Shape, NEW t \in Thread, stack[t] # << >>,
           stack' = [stack EXCEPT ![t] = Pop(stack[t])],
           UNCHANGED <<context, graph, queues, radio, tasks, finished, todo, closing>>,
           asleep' \subseteq Thread
    PROVE  QuietStep /\ Shape'
  <1>1. /\ Stacks' /\ Len(stack'[t]) = Len(stack[t]) - 1
        /\ \A u \in Thread : u # t => stack'[u] = stack[u]
        /\ \A p \in Places' : Same(p)
    BY PopPlaces DEF Shape
  <1>2. \A u \in Thread : Len(stack[u]) \in Nat
    BY LenProperties DEF Shape, Stacks
  <1>3. \A u \in Thread : Len(stack'[u]) <= MaxDepth
    BY <1>1, <1>2, SchedulerAssumption DEF Shape
  <1>4. QuietStep
    BY <1>1 DEF QuietStep, TodoQuiet
  <1>5. Shape'
    BY <1>1, <1>3 DEF Shape, context, graph, queues
  <1> QED
    BY <1>4, <1>5

\* The innermost frame of a thread becomes g.
LEMMA TurnQuiet ==
    ASSUME Shape, NEW t \in Thread, stack[t] # << >>, NEW g \in Frame,
           stack' = [stack EXCEPT ![t] = SetTop(stack[t], g)],
           UNCHANGED <<context, graph, queues, radio, tasks, finished, closing>>,
           todo' \in [Thread -> SUBSET Item], TodoQuiet,
           asleep' \subseteq Thread,
           \A p \in Places : p = TopAt(t) /\ FrameAt(p) = Top(t) /\ FrameAt(p)' = g =>
              JoinMove(p) \/ DirectMove(p)
    PROVE  QuietStep /\ Shape'
  <1>1. /\ Stacks' /\ Len(stack'[t]) = Len(stack[t]) /\ Places' = Places
        /\ \A u \in Thread : u # t => stack'[u] = stack[u]
        /\ FrameAt(TopAt(t)) = Top(t)
        /\ \A p \in Places' : p = TopAt(t) => FrameAt(p)' = g
        /\ \A p \in Places' : p # TopAt(t) => Same(p)
    BY SetTopPlaces DEF Shape
  <1>2. \A u \in Thread : Len(stack'[u]) <= MaxDepth
    BY <1>1 DEF Shape
  <1>3. QuietStep
    BY <1>1 DEF QuietStep
  <1>4. Shape'
    BY <1>1, <1>2 DEF Shape, context, graph, queues
  <1> QED
    BY <1>3, <1>4

\* A thread enters a Join of c on top of its innermost frame, which becomes g.
LEMMA EnterQuiet ==
    ASSUME Shape, FrameInv, NEW t \in Thread, stack[t] # << >>, NEW g \in Frame, Room(t, 1),
           NEW c \in Op, life[c] = "alive", NEW silent \in BOOLEAN,
           stack' = [stack EXCEPT ![t] =
               Push(SetTop(stack[t], g), NewFrame("join", c, "loop", silent))],
           UNCHANGED <<context, graph, queues, radio, tasks, finished, asleep, todo, closing>>,
           \A p \in Places : p = TopAt(t) /\ FrameAt(p) = Top(t) /\ FrameAt(p)' = g =>
              JoinMove(p) \/ DirectMove(p)
    PROVE  QuietStep /\ Shape'
  <1> DEFINE f == NewFrame("join", c, "loop", silent)
  <1>1. f \in Frame /\ f.kind = "join" /\ f.op = c /\ f.rest = {}
    BY NewJoinFields
  <1> HIDE DEF f
  <1>2. /\ Stacks' /\ Len(stack'[t]) = Len(stack[t]) + 1
        /\ Places' = Places \cup {Above(t)}
        /\ \A u \in Thread : u # t => stack'[u] = stack[u]
        /\ TopAt(t) \in Places /\ FrameAt(TopAt(t)) = Top(t)
        /\ \A p \in Places' : p = TopAt(t) => FrameAt(p)' = g
        /\ \A p \in Places' : p = Above(t) => FrameAt(p)' = f
        /\ \A p \in Places : p # TopAt(t) => Same(p)
    BY <1>1, GrowPlaces DEF Shape, f
  <1>3. \A u \in Thread : Len(stack'[u]) <= MaxDepth
    BY <1>2 DEF Shape, Room
  <1>4. t = Meta => ~ closing
    BY <1>2, NotClosing DEF TopAt
  <1>5. \A p \in Places' : p = Above(t) => JoinMove(p)
    BY <1>1, <1>2, <1>4 DEF JoinMove, AliveFrame, Above
  <1>6. QuietStep
    BY <1>2, <1>5 DEF QuietStep, TodoQuiet
  <1>7. Shape'
    BY <1>2, <1>3 DEF Shape, context, graph, queues
  <1> QED
    BY <1>6, <1>7

\* A thread enters a Join of c on top of its stack.
LEMMA PushQuiet ==
    ASSUME Shape, NEW t \in Thread, Room(t, 1),
           NEW c \in Op, life[c] = "alive", NEW silent \in BOOLEAN,
           stack' = [stack EXCEPT ![t] =
               Push(stack[t], NewFrame("join", c, "loop", silent))],
           UNCHANGED <<context, graph, queues, radio, tasks, finished, asleep, todo, closing>>,
           t = Meta => ~ closing
    PROVE  QuietStep /\ Shape'
  <1> DEFINE f == NewFrame("join", c, "loop", silent)
  <1>1. f \in Frame /\ f.kind = "join" /\ f.op = c /\ f.rest = {}
    BY NewJoinFields
  <1> HIDE DEF f
  <1>2. /\ Stacks' /\ Len(stack'[t]) = Len(stack[t]) + 1
        /\ \A u \in Thread : u # t => stack'[u] = stack[u]
        /\ Places' = Places \cup {Above(t)}
        /\ \A p \in Places : Same(p)
        /\ \A p \in Places' : p = Above(t) => FrameAt(p)' = f
    BY <1>1, PushPlaces DEF Shape, f
  <1>3. \A u \in Thread : Len(stack'[u]) <= MaxDepth
    BY <1>2 DEF Shape, Room
  <1>4. \A p \in Places' : p = Above(t) => JoinMove(p)
    BY <1>1, <1>2 DEF JoinMove, AliveFrame, Above
  <1>5. QuietStep
    BY <1>2, <1>4 DEF QuietStep, TodoQuiet
  <1>6. Shape'
    BY <1>2, <1>3 DEF Shape, context, graph, queues
  <1> QED
    BY <1>5, <1>6

LEMMA InvShape ==
    ASSUME IInv
    PROVE  Shape /\ Stacks /\ ExistInv /\ FrameInv
  BY ShapeAndCounts DEF IInv, CoreInv, Shape

\* The context of a frame is alive.
LEMMA TopAlive ==
    ASSUME IInv, NEW t \in Thread, NEW kind, NEW pc, At(t, kind, pc)
    PROVE  AliveFrame(Top(t))
  <1>1. TopAt(t) \in Places /\ FrameAt(TopAt(t)) = Top(t)
    BY InvShape, TopFrame
  <1> QED
    BY <1>1, InvShape DEF ExistInv, AliveFrame

LEMMA PlaceAlive ==
    ASSUME IInv, NEW p \in Places
    PROVE  life[FrameAt(p).op] # "new"
  BY InvShape DEF ExistInv

\* A Join goes on.
LEMMA JoinTurn ==
    ASSUME IInv, NEW t \in Thread, NEW pc, At(t, "join", pc),
           NEW g, g.kind = "join", g.op = Top(t).op, g.rest = Top(t).rest
    PROVE  \A p \in Places : p = TopAt(t) /\ FrameAt(p) = Top(t) /\ FrameAt(p)' = g =>
              JoinMove(p) \/ DirectMove(p)
  <1>1. AliveFrame(Top(t))
    BY TopAlive
  <1>2. AliveFrame(g)
    BY <1>1 DEF AliveFrame
  <1> QED
    BY <1>2 DEF JoinMove

LEMMA EndFenceQuiet ==
    ASSUME IInv, EndFence PROVE QuietStep /\ Shape'
  <1>1. /\ stack[Meta] # << >> /\ Top(Meta) \in Frame /\ Top(Meta).op \in Op
        /\ Top(Meta).kind = "fence" /\ Meta \in Thread
    BY InvShape, TopFrame DEF EndFence, Thread
  <1>2. CASE stack' = [stack EXCEPT ![Meta] = Pop(@)]
    BY <1>1, <1>2, InvShape, LeaveQuiet DEF EndFence, Shape
  <1>3. CASE stack' = [stack EXCEPT ![Meta] = SetTop(@,
                 NewFrame("direct", Top(Meta).op, "connect", FALSE))]
    <2> DEFINE g == NewFrame("direct", Top(Meta).op, "connect", FALSE)
    <2>1. /\ g \in Frame /\ g.kind = "direct" /\ g.op = Top(Meta).op
          /\ g.pc = "connect" /\ g.rest = {}
      BY <1>1 DEF NewFrame, Frame, DirectPc
    <2> HIDE DEF g
    <2>2. \A p \in Places : p = TopAt(Meta) /\ FrameAt(p) = Top(Meta) /\ FrameAt(p)' = g =>
              JoinMove(p) \/ DirectMove(p)
      BY <1>1, <2>1 DEF DirectMove, MetaKind
    <2>3. stack' = [stack EXCEPT ![Meta] = SetTop(stack[Meta], g)]
      BY <1>3 DEF g
    <2>4. /\ UNCHANGED <<context, graph, queues, radio, tasks, finished, closing>>
          /\ todo' \in [Thread -> SUBSET Item] /\ TodoQuiet /\ asleep' \subseteq Thread
      BY InvShape DEF EndFence, Shape, TodoQuiet
    <2> QED
      BY <1>1, <2>1, <2>2, <2>3, <2>4, InvShape, TurnQuiet
  <1> QED
    BY <1>2, <1>3 DEF EndFence

LEMMA JoinSupplierQuiet ==
    ASSUME IInv, NEW s \in Op, JoinSupplier(s) PROVE QuietStep /\ Shape'
  <1>1. /\ stack[Meta] # << >> /\ Top(Meta) \in Frame /\ Top(Meta).op \in Op
        /\ Top(Meta).kind = "direct" /\ Top(Meta).pc = "suppl" /\ Meta \in Thread
        /\ AliveFrame(Top(Meta))
    BY InvShape, TopFrame, TopAlive DEF JoinSupplier, Thread
  <1> DEFINE g == [Top(Meta) EXCEPT !.pc = "joined", !.first = s]
  <1>2. /\ g \in Frame /\ g.kind = "direct" /\ g.op = Top(Meta).op
        /\ g.pc = "joined" /\ g.rest = Top(Meta).rest
    BY <1>1 DEF Frame, DirectPc
  <1> HIDE DEF g
  <1>3. \A p \in Places : p = TopAt(Meta) /\ FrameAt(p) = Top(Meta) /\ FrameAt(p)' = g =>
              JoinMove(p) \/ DirectMove(p)
    BY <1>1, <1>2 DEF DirectMove, MetaKind
  <1>4. life[s] = "alive" /\ Room(Meta, 1)
    BY <1>1 DEF JoinSupplier, AliveFrame
  <1>5. stack' = [stack EXCEPT ![Meta] =
            Push(SetTop(stack[Meta], g), NewFrame("join", s, "loop", FALSE))]
    BY DEF JoinSupplier, g
  <1>6. UNCHANGED <<context, graph, queues, radio, tasks, finished, asleep, todo, closing>>
    BY DEF JoinSupplier
  <1> QED
    BY <1>1, <1>2, <1>3, <1>4, <1>5, <1>6, InvShape, EnterQuiet

\* What nobody but the thread itself changes in a step of its stack.
LEMMA NothingTodo ==
    ASSUME Shape, UNCHANGED <<context, graph, queues, radio, tasks, finished, asleep, todo,
                              closing>>
    PROVE  /\ UNCHANGED <<context, graph, queues, radio, tasks, finished, todo, closing>>
           /\ UNCHANGED <<context, graph, queues, radio, tasks, finished, closing>>
           /\ todo' \in [Thread -> SUBSET Item] /\ TodoQuiet /\ asleep' \subseteq Thread
  BY DEF Shape, TodoQuiet

LEMMA SuspendDirectQuiet ==
    ASSUME IInv, SuspendDirect PROVE QuietStep /\ Shape'
  <1>1. stack[Meta] # << >> /\ Meta \in Thread
    BY InvShape, TopFrame DEF SuspendDirect, Thread
  <1> QED
    BY <1>1, InvShape, NothingTodo, LeaveQuiet DEF SuspendDirect

LEMMA SupplierJoinedQuiet ==
    ASSUME IInv, At(Meta, "direct", "joined"),
           stack' = [stack EXCEPT ![Meta] =
               IF status[Top(Meta).first] = "done"
               THEN SetTop(@, [Top(Meta) EXCEPT !.pc = "suppl", !.first = NoOp,
                                 !.rest = @ \ {Top(Meta).first}])
               ELSE Pop(@)],
           UNCHANGED <<context, graph, queues, radio, tasks, finished, asleep, todo, closing>>
    PROVE  QuietStep /\ Shape'
  <1>1. /\ stack[Meta] # << >> /\ Top(Meta) \in Frame /\ Top(Meta).op \in Op
        /\ Top(Meta).kind = "direct" /\ Top(Meta).pc = "joined" /\ Meta \in Thread
    BY InvShape, TopFrame DEF Thread
  <1>2. CASE status[Top(Meta).first] # "done"
    BY <1>1, <1>2, InvShape, NothingTodo, LeaveQuiet
  <1>3. CASE status[Top(Meta).first] = "done"
    <2> DEFINE s == Top(Meta).first
               g == [Top(Meta) EXCEPT !.pc = "suppl", !.first = NoOp, !.rest = @ \ {s}]
    <2>1. /\ g \in Frame /\ g.kind = "direct" /\ g.op = Top(Meta).op
          /\ g.pc = "suppl" /\ g.rest = Top(Meta).rest \ {s}
      BY <1>1 DEF Frame, DirectPc
    <2>2. stack' = [stack EXCEPT ![Meta] = SetTop(stack[Meta], g)]
      BY <1>3
    <2> HIDE DEF g
    <2>3. \A p \in Places : p = TopAt(Meta) /\ FrameAt(p) = Top(Meta) /\ FrameAt(p)' = g =>
              JoinMove(p) \/ DirectMove(p)
      BY <1>1, <1>3, <2>1 DEF DirectMove, MetaKind
    <2> QED
      BY <1>1, <2>1, <2>2, <2>3, InvShape, NothingTodo, TurnQuiet
  <1> QED
    BY <1>2, <1>3

\* A set of naturals has a least element.
LEMMA LeastElement ==
    ASSUME NEW P \in SUBSET Nat, P # {}
    PROVE  \E p \in P : \A q \in P : p <= q
  <1> DEFINE R == {ss \in Nat \X Nat : ss[1] < ss[2]}
  <1>1. IsWellFoundedOn(R, Nat)
    BY NatLessThanWellFounded DEF OpToRel
  <1>2. ASSUME NEW p \in Nat, NEW q \in Nat, ~ (<<q, p>> \in R)
        PROVE  p <= q
    BY <1>2
  <1> HIDE DEF R
  <1>3. PICK p \in P : \A q \in P : ~ (<<q, p>> \in R)
    BY <1>1, WFMin
  <1> QED
    BY <1>2, <1>3

\* Queueing contexts never raises the active phase.
LEMMA EnqueuePhase ==
    ASSUME Shape, NEW S \in SUBSET Op, Enqueue(S)
    PROVE  activePhase' \in PhaseNr \cup {0} /\ activePhase' <= activePhase
  <1> DEFINE P == {activePhase} \cup {Phase[c] : c \in S}
  <1>1. P \subseteq Nat /\ activePhase \in P /\ P \subseteq PhaseNr \cup {0}
    BY SchedulerAssumption DEF PhaseNr, Shape
  <1> HIDE DEF P
  <1>2. \E p \in P : \A q \in P : p <= q
    BY <1>1, LeastElement
  <1>3. Lowest(P) \in P /\ \A q \in P : Lowest(P) <= q
    BY <1>2 DEF Lowest
  <1>4. activePhase' = Lowest(P)
    BY DEF Enqueue, P
  <1> QED
    BY <1>1, <1>3, <1>4

LEMMA StartIsItem == Start \in Item
  BY DEF Start, Item

LEMMA ScheduleCases ==
    ASSUME IInv, Schedule
    PROVE  \/ QuietStep /\ Shape'
           \/ \E p, c : QueueStep(p, c) /\ Shape'
  <1> DEFINE f == Top(Meta)
             c == f.op
  <1>1. /\ stack[Meta] # << >> /\ f \in Frame /\ c \in Op /\ todo[Meta] = {}
        /\ f.kind = "direct" /\ f.pc = "schedule" /\ Meta \in Thread
        /\ TopAt(Meta) \in Places /\ FrameAt(TopAt(Meta)) = f
    BY InvShape, TopFrame DEF Schedule, Thread
  <1>2. UNCHANGED <<context, suppliers, waiters, nrActive, radio, tasks, finished,
                    asleep, closing>>
    BY DEF Schedule
  <1>3. CASE c \notin Direct /\ status[c] # "none"
    <2>1. /\ stack' = [stack EXCEPT ![Meta] = Pop(stack[Meta])]
          /\ UNCHANGED <<status, queued, activePhase, todo>>
      BY <1>3 DEF Schedule
    <2>2. UNCHANGED <<context, graph, queues, radio, tasks, finished, todo, closing>>
      BY <1>2, <2>1 DEF graph, queues
    <2> QED
      BY <1>1, <1>2, <2>1, <2>2, InvShape, LeaveQuiet DEF Shape
  <1>4. CASE c \in Direct
    <2> DEFINE X == IF status[c] = "none" THEN suppliers[c] ELSE {}
               g == [f EXCEPT !.pc = "suppl", !.rest = X]
    <2>1. X \in SUBSET Op
      BY <1>1, InvShape DEF Shape
    <2>2. g \in Frame /\ g.kind = "direct" /\ g.op = c /\ g.pc = "suppl" /\ g.rest = X
      BY <1>1, <2>1 DEF Frame, DirectPc
    <2>3. /\ stack' = [stack EXCEPT ![Meta] = SetTop(stack[Meta], g)]
          /\ UNCHANGED <<status, queued, activePhase>>
      BY <1>4 DEF Schedule
    <2>4. todo' = [todo EXCEPT ![Meta] = {Start}] \/ todo' = [todo EXCEPT ![Meta] = {}]
      BY <1>4 DEF Schedule
    <2>5. todo' \in [Thread -> SUBSET Item] /\ TodoQuiet
      BY SMTT(30), <1>1, <2>4, InvShape, StartIsItem DEF Shape, TodoQuiet
    <2>6. UNCHANGED <<context, graph, queues, radio, tasks, finished, closing>>
      BY <1>2, <2>3 DEF graph, queues
    <2> HIDE DEF g, X
    <2>7. \A p \in Places : p = TopAt(Meta) /\ FrameAt(p) = Top(Meta) /\ FrameAt(p)' = g =>
              JoinMove(p) \/ DirectMove(p)
      BY <1>1, <1>4, <2>2 DEF DirectMove, MetaKind, X
    <2> QED
      BY <1>1, <1>2, <2>2, <2>3, <2>5, <2>6, <2>7, InvShape, TurnQuiet DEF Shape
  <1>5. CASE c \notin Direct /\ status[c] = "none"
    <2>1. /\ stack' = [stack EXCEPT ![Meta] = Pop(stack[Meta])]
          /\ status' = [status EXCEPT ![c] =
                IF suppliers[c] = {} THEN "scheduled" ELSE "waiting"]
          /\ Enqueue(IF suppliers[c] = {} THEN {c} ELSE {})
          /\ UNCHANGED todo
      BY <1>5 DEF Schedule
    <2>2. /\ Stacks' /\ Len(stack'[Meta]) = Len(stack[Meta]) - 1
          /\ \A u \in Thread : u # Meta => stack'[u] = stack[u]
          /\ Places' = Places \ {TopAt(Meta)}
          /\ \A p \in Places' : Same(p)
      BY <1>1, <2>1, InvShape, PopPlaces
    <2>3. \A u \in Thread : Len(stack'[u]) <= MaxDepth
      <3>1. \A u \in Thread : Len(stack[u]) \in Nat /\ Len(stack[u]) <= MaxDepth
        BY InvShape, LenProperties DEF Shape, Stacks
      <3> QED
        BY <2>2, <3>1, SchedulerAssumption
    <2>4. activePhase' \in PhaseNr \cup {0}
      <3>1. (IF suppliers[c] = {} THEN {c} ELSE {}) \in SUBSET Op
        BY <1>1
      <3> QED
        BY <2>1, <3>1, InvShape, EnqueuePhase
    <2>5. Shape'
      BY <1>1, <1>2, <2>1, <2>2, <2>3, <2>4, InvShape
         DEF Shape, context, Enqueue, Status
    <2>6. QueueStep(TopAt(Meta), c)
      BY <1>1, <1>2, <1>5, <2>1, <2>2 DEF QueueStep, Enqueue, context
    <2> QED
      BY <2>5, <2>6
  <1> QED
    BY <1>3, <1>4, <1>5

LEMMA RunDirectCases ==
    ASSUME IInv, RunDirect
    PROVE  \/ QuietStep /\ Shape'
           \/ \E p, c : DirectRunStep(p, c) /\ Shape'
  <1> DEFINE f == Top(Meta)
             c == f.op
             may == status[c] \notin Final \cup {"running"}
             g == NewFrame("run", c, "start", FALSE)
  <1>1. /\ stack[Meta] # << >> /\ f \in Frame /\ c \in Op
        /\ f.kind = "direct" /\ f.pc = "suppl" /\ Meta \in Thread
        /\ TopAt(Meta) \in Places /\ FrameAt(TopAt(Meta)) = f
    BY InvShape, TopFrame DEF RunDirect, Thread
  <1>2. c \in Direct /\ status[c] \in {"none", "exception"}
    BY <1>1 DEF IInv, CoreInv, DirectInv, FrameInv, MetaKind
  <1>3. UNCHANGED <<context, suppliers, waiters, queued, activePhase, radio, tasks,
                    finished, asleep, todo, closing>>
    BY DEF RunDirect
  <1>4. CASE ~ may
    <2>1. stack' = [stack EXCEPT ![Meta] = Pop(stack[Meta])] /\ status' = [status EXCEPT ![c] = @]
      BY <1>4 DEF RunDirect
    <2>2. nrActive' = [nrActive EXCEPT ![Phase[c]] = @ + 0]
      BY <1>4 DEF RunDirect
    <2>3. UNCHANGED <<status, nrActive>>
      BY <1>1, <2>1, <2>2, InvShape, SchedulerAssumption DEF Shape, IInv, CoreInv, TypeOK
    <2>4. UNCHANGED <<context, graph, queues, radio, tasks, finished, todo, closing>>
      BY <1>3, <2>3 DEF graph, queues
    <2> QED
      BY <1>1, <1>3, <2>1, <2>4, InvShape, LeaveQuiet DEF Shape
  <1>5. CASE may
    <2>1. status[c] = "none" /\ f.rest = {}
      BY <1>2, <1>5 DEF Final, RunDirect, AllJoined
    <2>2. /\ stack' = [stack EXCEPT ![Meta] = SetTop(stack[Meta], g)]
          /\ status' = [status EXCEPT ![c] = "running"]
          /\ nrActive' = [nrActive EXCEPT ![Phase[c]] = @ + 1]
      BY <1>5, <2>1 DEF RunDirect
    <2>3. g \in Frame /\ g.kind = "run" /\ g.op = c /\ g.pc = "start" /\ g.rest = {}
      BY <1>1 DEF NewFrame, Frame, RunPc
    <2> HIDE DEF g
    <2>4. /\ Stacks' /\ Len(stack'[Meta]) = Len(stack[Meta])
          /\ \A u \in Thread : u # Meta => stack'[u] = stack[u]
          /\ Places' = Places
          /\ \A p \in Places' : p = TopAt(Meta) => FrameAt(p)' = g
          /\ \A p \in Places' : p # TopAt(Meta) => Same(p)
      BY <1>1, <2>2, <2>3, InvShape, SetTopPlaces
    <2>5. \A u \in Thread : Len(stack'[u]) <= MaxDepth
      BY <2>4, InvShape DEF Shape
    <2>6. Shape'
      BY <1>1, <1>3, <2>2, <2>4, <2>5, InvShape DEF Shape, context, Status, Started
    <2>7. \A p : p = TopAt(Meta) => DirectRunStep(p, c)
      BY <1>1, <1>2, <1>3, <2>1, <2>2, <2>3, <2>4 DEF DirectRunStep, context
    <2> QED
      BY <2>6, <2>7
  <1> QED
    BY <1>4, <1>5

LEMMA JoinQuiet ==
    ASSUME IInv, NEW c \in Op, NEW silent \in BOOLEAN, Join(c, silent)
    PROVE  QuietStep /\ Shape'
  <1>1. life[c] = "alive" /\ Room(Meta, 1) /\ ~ closing /\ Meta \in Thread
    BY InvShape DEF Join, ExistInv, Thread
  <1>2. stack' = [stack EXCEPT ![Meta] = Push(stack[Meta], NewFrame("join", c, "loop", silent))]
    BY Zenon DEF Join
  <1>3. UNCHANGED <<context, graph, queues, radio, tasks, finished, asleep, todo, closing>>
    BY DEF Join
  <1> QED
    BY <1>1, <1>2, <1>3, InvShape, PushQuiet

LEMMA JoinLoopQuiet ==
    ASSUME IInv, NEW t \in Thread, JoinLoop(t) PROVE QuietStep /\ Shape'
  <1> DEFINE f == Top(t)
             g == [f EXCEPT !.pc = "inline", !.first = NoOp]
  <1>1. /\ stack[t] # << >> /\ f \in Frame /\ f.op \in Op /\ f.kind = "join"
        /\ f.first \in Op \cup {NoOp} /\ At(t, "join", "loop")
    BY InvShape, TopFrame DEF JoinLoop
  <1>2. g \in Frame /\ g.kind = "join" /\ g.op = f.op /\ g.rest = f.rest
    BY <1>1 DEF Frame, JoinPc
  <1>3. UNCHANGED <<context, graph, queues, radio, tasks, finished, asleep, todo, closing>>
    BY DEF JoinLoop
  <1>4. \/ stack' = [stack EXCEPT ![t] = Pop(stack[t])]
        \/ /\ f.first # NoOp /\ Room(t, 1) /\ life[f.first] = "alive"
           /\ stack' = [stack EXCEPT ![t] =
                 Push(SetTop(stack[t], g), NewFrame("join", f.first, "loop", FALSE))]
        \/ stack' = [stack EXCEPT ![t] = SetTop(stack[t], g)]
    BY DEF JoinLoop
  <1> HIDE DEF g
  <1>5. \A p \in Places : p = TopAt(t) /\ FrameAt(p) = Top(t) /\ FrameAt(p)' = g =>
              JoinMove(p) \/ DirectMove(p)
    BY <1>1, <1>2, JoinTurn
  <1>6. CASE stack' = [stack EXCEPT ![t] = Pop(stack[t])]
    BY <1>1, <1>3, <1>6, InvShape, NothingTodo, LeaveQuiet
  <1>7. CASE /\ f.first # NoOp /\ Room(t, 1) /\ life[f.first] = "alive"
             /\ stack' = [stack EXCEPT ![t] =
                   Push(SetTop(stack[t], g), NewFrame("join", f.first, "loop", FALSE))]
    <2>1. f.first \in Op
      BY <1>1, <1>7
    <2> QED
      BY <1>1, <1>2, <1>3, <1>5, <1>7, <2>1, InvShape, EnterQuiet
  <1>8. CASE stack' = [stack EXCEPT ![t] = SetTop(stack[t], g)]
    BY <1>1, <1>2, <1>3, <1>5, <1>8, InvShape, NothingTodo, TurnQuiet
  <1> QED
    BY <1>4, <1>6, <1>7, <1>8

\* A Join goes to another place in its loop.
LEMMA GotoQuiet ==
    ASSUME IInv, NEW t \in Thread, NEW pc, At(t, "join", pc), NEW next \in JoinPc,
           stack' = [stack EXCEPT ![t] = Goto(t, next)],
           UNCHANGED <<context, graph, queues, radio, tasks, finished, asleep, todo, closing>>
    PROVE  QuietStep /\ Shape'
  <1> DEFINE g == [Top(t) EXCEPT !.pc = next]
  <1>1. stack[t] # << >> /\ Top(t) \in Frame /\ Top(t).kind = "join"
    BY InvShape, TopFrame
  <1>2. g \in Frame /\ g.kind = "join" /\ g.op = Top(t).op /\ g.rest = Top(t).rest
    BY <1>1 DEF Frame
  <1>3. stack' = [stack EXCEPT ![t] = SetTop(stack[t], g)]
    BY DEF Goto
  <1> HIDE DEF g
  <1>4. \A p \in Places : p = TopAt(t) /\ FrameAt(p) = Top(t) /\ FrameAt(p)' = g =>
              JoinMove(p) \/ DirectMove(p)
    BY <1>2, JoinTurn
  <1> QED
    BY <1>1, <1>2, <1>3, <1>4, InvShape, NothingTodo, TurnQuiet

LEMMA JoinCheckQuiet ==
    ASSUME IInv, NEW t \in Thread, JoinCheck(t) PROVE QuietStep /\ Shape'
  <1>1. stack[t] # << >> /\ At(t, "join", "check")
    BY InvShape, TopFrame DEF JoinCheck
  <1>2. UNCHANGED <<context, graph, queues, radio, tasks, finished, asleep, todo, closing>>
    BY DEF JoinCheck
  <1>3. CASE stack' = [stack EXCEPT ![t] = Pop(stack[t])]
    BY <1>1, <1>2, <1>3, InvShape, NothingTodo, LeaveQuiet
  <1>4. CASE stack' = [stack EXCEPT ![t] = Goto(t, "steal")]
    BY <1>1, <1>2, <1>4, GotoQuiet DEF JoinPc
  <1> QED
    BY <1>3, <1>4 DEF JoinCheck

LEMMA JoinWaitQuiet ==
    ASSUME IInv, NEW t \in Thread, JoinWait(t) PROVE QuietStep /\ Shape'
  <1> DEFINE f == Top(t)
             Again(d) == stack' = [stack EXCEPT ![t] =
                            SetTop(@, [f EXCEPT !.pc = "loop", !.first = d])]
  <1>1. /\ stack[t] # << >> /\ f \in Frame /\ f.op \in Op /\ f.kind = "join"
        /\ At(t, "join", "wait")
    BY InvShape, TopFrame DEF JoinWait
  <1>2. /\ UNCHANGED <<context, graph, queues, radio, tasks, finished, todo, closing>>
        /\ asleep' = asleep \/ asleep' = asleep \cup {t}
    BY DEF JoinWait
  <1>3. asleep' \subseteq Thread /\ todo' \in [Thread -> SUBSET Item] /\ TodoQuiet
    BY SMTT(30), <1>2, InvShape DEF Shape, TodoQuiet
  <1>4. \/ stack' = [stack EXCEPT ![t] = Pop(stack[t])]
        \/ \E d \in Op \cup {NoOp} : Again(d)
    BY DEF JoinWait, ChainEnds
  <1>5. CASE stack' = [stack EXCEPT ![t] = Pop(stack[t])]
    BY <1>1, <1>2, <1>3, <1>5, InvShape, LeaveQuiet
  <1>6. ASSUME NEW d \in Op \cup {NoOp}, Again(d)
        PROVE  QuietStep /\ Shape'
    <2> DEFINE g == [f EXCEPT !.pc = "loop", !.first = d]
    <2>1. g \in Frame /\ g.kind = "join" /\ g.op = f.op /\ g.rest = f.rest
      BY <1>1 DEF Frame, JoinPc
    <2>2. stack' = [stack EXCEPT ![t] = SetTop(stack[t], g)]
      BY <1>6
    <2> HIDE DEF g
    <2>3. \A p \in Places : p = TopAt(t) /\ FrameAt(p) = Top(t) /\ FrameAt(p)' = g =>
              JoinMove(p) \/ DirectMove(p)
      BY <1>1, <2>1, JoinTurn
    <2> QED
      BY <1>1, <1>2, <1>3, <2>1, <2>2, <2>3, InvShape, TurnQuiet
  <1> QED
    BY <1>4, <1>5, <1>6

\* A step that leaves the stacks alone changes no frame.
LEMMA StillFrames ==
    ASSUME stack' = stack
    PROVE  Places' = Places /\ \A p \in Places' : Same(p)
  <1>1. Places' = Places
    BY DEF Places
  <1>2. \A p : FrameAt(p)' = FrameAt(p)
    BY DEF FrameAt
  <1> QED
    BY <1>1, <1>2 DEF Same

LEMMA TimeoutQuiet ==
    ASSUME IInv, NEW t \in Thread, Timeout(t) PROVE QuietStep /\ Shape'
  <1>1. \A p \in Places' : Same(p)
    BY StillFrames DEF Timeout
  <1>2. QuietStep
    BY <1>1 DEF QuietStep, TodoQuiet, Timeout
  <1>3. Shape'
    BY InvShape DEF Shape, Stacks, Timeout, context, graph, queues
  <1> QED
    BY <1>2, <1>3

LEMMA JoinReadQuiet ==
    ASSUME IInv, NEW t \in Thread, NEW c \in Op, At(t, "run", "oper"), life[c] = "alive",
           Room(t, 1),
           stack' = [stack EXCEPT ![t] = Push(@, NewFrame("join", c, "loop", TRUE))],
           UNCHANGED <<context, graph, queues, radio, tasks, finished, asleep, todo, closing>>
    PROVE  QuietStep /\ Shape'
  <1>1. TopAt(t) \in Places
    BY InvShape, TopFrame
  <1>2. t = Meta => ~ closing
    BY <1>1, InvShape, NotClosing DEF TopAt
  <1>3. stack' = [stack EXCEPT ![t] = Push(stack[t], NewFrame("join", c, "loop", TRUE))]
    OBVIOUS
  <1> QED
    BY <1>2, <1>3, InvShape, PushQuiet

\* TryRunningTaskInline licenses its context, places it back, or does nothing.
LEMMA TryRunningMoves ==
    ASSUME Shape, NEW t, NEW c \in Op, NEW onRun, NEW onFail,
           TryRunning(t, c, onRun, onFail)
    PROVE  LET R == {d \in {c} : License(d)}
               B == PutBack({c})
           IN  /\ \A d \in R \cup B : d \in Op /\ status[d] = "activated"
               /\ R \cap B = {}
               /\ status' = [d \in Op |-> IF d \in R THEN "running"
                                          ELSE IF d \in B THEN "scheduled" ELSE status[d]]
               /\ queued' = queued \cup B
               /\ nrActive' = [p \in PhaseNr |->
                     nrActive[p] - Cardinality({d \in B : Phase[d] = p})]
               /\ UNCHANGED <<context, suppliers, waiters, activePhase, finished, asleep>>
               /\ stack' = [stack EXCEPT ![t] = IF License(c) THEN onRun ELSE onFail]
               /\ status' \in [Op -> Status] /\ queued' \subseteq Op
  <1> DEFINE R == {d \in {c} : License(d)}
             B == PutBack({c})
  <1>1. \A d \in R \cup B : d = c /\ status[d] = "activated"
    BY DEF License, PutBack
  <1>2. R \cap B = {}
    BY SchedulerAssumption DEF License, PutBack, Shape, PhaseNr
  <1>3. (B # {} <=> c \in B) /\ (License(c) <=> c \in R)
    BY DEF PutBack
  <1>4. status' = [status EXCEPT ![c] =
           IF License(c) THEN "running" ELSE IF B # {} THEN "scheduled" ELSE @]
    BY DEF TryRunning
  <1>5. /\ queued' = queued \cup B
        /\ nrActive' = [p \in PhaseNr |->
              nrActive[p] - Cardinality({d \in B : Phase[d] = p})]
        /\ UNCHANGED <<context, suppliers, waiters, activePhase, finished, asleep>>
        /\ stack' = [stack EXCEPT ![t] = IF License(c) THEN onRun ELSE onFail]
    BY DEF TryRunning, PlaceBack
  <1> HIDE DEF R, B
  <1>6. status' = [d \in Op |-> IF d \in R THEN "running"
                                ELSE IF d \in B THEN "scheduled" ELSE status[d]]
    BY <1>1, <1>3, <1>4 DEF Shape
  <1>7. status' \in [Op -> Status] /\ queued' \subseteq Op
    BY <1>1, <1>5, <1>6 DEF Shape, Status, Started
  <1> QED
    BY <1>1, <1>2, <1>5, <1>6, <1>7 DEF R, B

LEMMA NewRunFields ==
    ASSUME NEW c \in Op
    PROVE  LET f == NewFrame("run", c, "start", FALSE)
           IN  f \in Frame /\ f.kind = "run" /\ f.pc = "start" /\ f.op = c /\ f.rest = {}
  BY DEF NewFrame, Frame, RunPc

LEMMA RunTaskCases ==
    ASSUME IInv, NEW w \in Thread, NEW c \in Op, RunTask(w, c)
    PROVE  \/ QuietStep /\ Shape'
           \/ \E R, B : LicenseStep(R, B) /\ Shape'
  <1>1. CASE life[c] # "alive"
    <2>1. \A p \in Places' : Same(p)
      BY <1>1, StillFrames DEF RunTask
    <2>2. QuietStep
      BY <1>1, <2>1 DEF QuietStep, TodoQuiet, RunTask
    <2>3. Shape'
      BY <1>1, InvShape DEF Shape, Stacks, RunTask, context, graph, queues
    <2> QED
      BY <2>2, <2>3
  <1>2. CASE life[c] = "alive"
    <2> DEFINE f == NewFrame("run", c, "start", FALSE)
               R == {d \in {c} : License(d)}
               B == PutBack({c})
    <2>1. TryRunning(w, c, Push(stack[w], f), stack[w])
      BY <1>2 DEF RunTask
    <2>2. /\ \A d \in R \cup B : d \in Op /\ status[d] = "activated"
          /\ R \cap B = {}
          /\ status' = [d \in Op |-> IF d \in R THEN "running"
                                     ELSE IF d \in B THEN "scheduled" ELSE status[d]]
          /\ queued' = queued \cup B
          /\ nrActive' = [p \in PhaseNr |->
                nrActive[p] - Cardinality({d \in B : Phase[d] = p})]
          /\ UNCHANGED <<context, suppliers, waiters, activePhase, finished, asleep>>
          /\ stack' = [stack EXCEPT ![w] = IF License(c) THEN Push(stack[w], f) ELSE stack[w]]
          /\ status' \in [Op -> Status] /\ queued' \subseteq Op
      BY <2>1, InvShape, TryRunningMoves
    <2>3. f \in Frame /\ f.kind = "run" /\ f.pc = "start" /\ f.op = c /\ f.rest = {}
      BY NewRunFields
    <2>4. /\ w \in Worker /\ w # Meta /\ Room(w, 1)
          /\ tasks' \subseteq tasks /\ UNCHANGED <<radio, todo, closing>>
      BY SchedulerAssumption DEF RunTask
    <2>5. \A d \in R \cup B : life[d] = "alive"
      BY <1>2 DEF PutBack
    <2>6. License(c) <=> c \in R
      OBVIOUS
    <2> HIDE DEF f, R, B
    <2>7. CASE ~ License(c)
      <3>1. stack' = stack
        BY <2>2, <2>7, InvShape DEF Stacks
      <3>2. \A p \in Places' : Same(p)
        BY <3>1, StillFrames
      <3>3. LicenseStep(R, B)
        BY <2>2, <2>4, <2>5, <3>2 DEF LicenseStep, Same
      <3>4. Shape'
        BY <2>2, <2>4, <3>1, InvShape DEF Shape, Stacks, context
      <3> QED
        BY <3>3, <3>4
    <2>8. CASE License(c)
      <3>1. stack' = [stack EXCEPT ![w] = Push(stack[w], f)]
        BY <2>2, <2>8
      <3>2. /\ Stacks' /\ Len(stack'[w]) = Len(stack[w]) + 1
            /\ \A u \in Thread : u # w => stack'[u] = stack[u]
            /\ Places' = Places \cup {Above(w)} /\ Above(w) \notin Places
            /\ \A p \in Places : Same(p)
            /\ \A p \in Places' : p = Above(w) => FrameAt(p)' = f
        BY <2>3, <3>1, InvShape, PushPlaces
      <3>3. \A u \in Thread : Len(stack'[u]) <= MaxDepth
        BY <2>4, <3>2, InvShape DEF Shape, Room
      <3>4. \A p \in Places' : p = Above(w) => RunNew(p, R)
        BY <2>3, <2>4, <2>6, <2>8, <3>2 DEF RunNew, Above
      <3>5. LicenseStep(R, B)
        BY <2>2, <2>4, <2>5, <3>2, <3>4 DEF LicenseStep
      <3>6. Shape'
        BY <2>2, <2>4, <3>2, <3>3, InvShape DEF Shape, context
      <3> QED
        BY <3>5, <3>6
    <2> QED
      BY <2>7, <2>8
  <1> QED
    BY <1>1, <1>2

\* A payload of c is started by thread t on top of its frame, which becomes g.
LEMMA StartPlaces ==
    ASSUME IInv, NEW t \in Thread, NEW pc, At(t, "join", pc), Room(t, 1), NEW c \in Op,
           NEW R, c \in R, NEW next \in JoinPc,
           stack' = [stack EXCEPT ![t] =
               Push(Goto(t, next), NewFrame("run", c, "start", FALSE))]
    PROVE  /\ Stacks' /\ \A u \in Thread : Len(stack'[u]) <= MaxDepth
           /\ \A p \in Places' : Same(p) \/ JoinMove(p) \/ RunNew(p, R)
           /\ \A p, r \in Places' : p \notin Places /\ r \notin Places => p = r
  <1> DEFINE f == NewFrame("run", c, "start", FALSE)
             g == [Top(t) EXCEPT !.pc = next]
  <1>1. /\ stack[t] # << >> /\ Top(t) \in Frame /\ Top(t).kind = "join"
        /\ TopAt(t) \in Places
    BY InvShape, TopFrame
  <1>2. g \in Frame /\ g.kind = "join" /\ g.op = Top(t).op /\ g.rest = Top(t).rest
    BY <1>1 DEF Frame
  <1>3. f \in Frame /\ f.kind = "run" /\ f.pc = "start" /\ f.op = c /\ f.rest = {}
    BY NewRunFields
  <1>4. stack' = [stack EXCEPT ![t] = Push(SetTop(stack[t], g), f)]
    BY DEF Goto
  <1> HIDE DEF f, g
  <1>5. /\ Stacks'
        /\ Len(stack'[t]) = Len(stack[t]) + 1
        /\ \A u \in Thread : u # t => stack'[u] = stack[u]
        /\ FrameAt(TopAt(t)) = Top(t)
        /\ Places' = Places \cup {Above(t)}
        /\ Above(t) \notin Places
        /\ \A p \in Places' : p = TopAt(t) => FrameAt(p)' = g
        /\ \A p \in Places' : p = Above(t) => FrameAt(p)' = f
        /\ \A p \in Places : p # TopAt(t) => Same(p)
    <2>1. Stacks /\ f \in Frame /\ g \in Frame /\ stack[t] # << >>
      BY <1>1, <1>2, <1>3, InvShape
    <2> QED
      BY ZenonT(60), <1>4, <2>1, GrowPlaces
  <1>6. \A u \in Thread : Len(stack'[u]) <= MaxDepth
    BY <1>5, InvShape DEF Shape, Room
  <1>7. t = Meta => ~ closing
    BY <1>1, InvShape, NotClosing DEF TopAt
  <1>8. \A p \in Places' : p = TopAt(t) => JoinMove(p)
    <2>1. AliveFrame(Top(t))
      BY TopAlive
    <2>2. AliveFrame(g)
      BY <1>2, <2>1 DEF AliveFrame
    <2> QED
      BY <1>1, <1>2, <1>5, <2>2 DEF JoinMove
  <1>9. \A p \in Places' : p = Above(t) => RunNew(p, R)
    BY <1>3, <1>5, <1>7 DEF RunNew, Above
  <1> QED
    BY <1>5, <1>6, <1>8, <1>9

\* A Join goes to another place in its loop, in a step that does more.
LEMMA GotoPlaces ==
    ASSUME IInv, NEW t \in Thread, NEW pc, At(t, "join", pc), NEW g \in Frame,
           g.kind = "join", g.op = Top(t).op, g.rest = Top(t).rest,
           stack' = [stack EXCEPT ![t] = SetTop(stack[t], g)]
    PROVE  /\ Stacks' /\ \A u \in Thread : Len(stack'[u]) <= MaxDepth
           /\ Places' = Places
           /\ \A p \in Places' : Same(p) \/ JoinMove(p)
  <1>1. stack[t] # << >> /\ Top(t) \in Frame /\ TopAt(t) \in Places
    BY InvShape, TopFrame
  <1>2. /\ Stacks' /\ Len(stack'[t]) = Len(stack[t]) /\ Places' = Places
        /\ \A u \in Thread : u # t => stack'[u] = stack[u]
        /\ \A p \in Places' : p = TopAt(t) => FrameAt(p)' = g
        /\ \A p \in Places' : p # TopAt(t) => Same(p)
    BY <1>1, InvShape, SetTopPlaces
  <1>3. \A u \in Thread : Len(stack'[u]) <= MaxDepth
    BY <1>2, InvShape DEF Shape
  <1>4. AliveFrame(g)
    BY TopAlive DEF AliveFrame
  <1>5. \A p \in Places' : p = TopAt(t) => JoinMove(p)
    BY <1>1, <1>2, <1>4 DEF JoinMove
  <1> QED
    BY <1>2, <1>3, <1>5

LEMMA JoinInlineCases ==
    ASSUME IInv, NEW t \in Thread, JoinInline(t)
    PROVE  \/ QuietStep /\ Shape'
           \/ \E R, B : LicenseStep(R, B) /\ Shape'
  <1> DEFINE c == Top(t).op
             tries == ~ MaySuspend(t) /\ Room(t, 1) /\ status[c] = "activated"
             f == NewFrame("run", c, "start", FALSE)
  <1>1. /\ stack[t] # << >> /\ Top(t) \in Frame /\ Top(t).kind = "join" /\ c \in Op
        /\ At(t, "join", "inline")
    BY InvShape, TopFrame DEF JoinInline
  <1>2. life[c] = "alive"
    BY <1>1, TopAlive DEF AliveFrame
  <1>3. CASE ~ tries
    <2>1. UNCHANGED <<context, graph, queues, radio, tasks, finished, asleep, todo, closing>>
      BY <1>3 DEF JoinInline
    <2>2. \/ stack' = [stack EXCEPT ![t] = Goto(t, "collect")]
          \/ stack' = [stack EXCEPT ![t] = Pop(stack[t])]
      BY <1>3 DEF JoinInline
    <2>3. CASE stack' = [stack EXCEPT ![t] = Goto(t, "collect")]
      BY <1>1, <2>1, <2>3, GotoQuiet DEF JoinPc
    <2>4. CASE stack' = [stack EXCEPT ![t] = Pop(stack[t])]
      BY <1>1, <2>1, <2>4, InvShape, NothingTodo, LeaveQuiet
    <2> QED
      BY <2>2, <2>3, <2>4
  <1>4. CASE tries
    <2> DEFINE R == {d \in {c} : License(d)}
               B == PutBack({c})
    <2>1. TryRunning(t, c, Push(Goto(t, "loop"), f), Goto(t, "collect"))
      BY <1>4 DEF JoinInline
    <2>2. /\ \A d \in R \cup B : d \in Op /\ status[d] = "activated"
          /\ R \cap B = {}
          /\ status' = [d \in Op |-> IF d \in R THEN "running"
                                     ELSE IF d \in B THEN "scheduled" ELSE status[d]]
          /\ queued' = queued \cup B
          /\ nrActive' = [p \in PhaseNr |->
                nrActive[p] - Cardinality({d \in B : Phase[d] = p})]
          /\ UNCHANGED <<context, suppliers, waiters, activePhase, finished, asleep>>
          /\ stack' = [stack EXCEPT ![t] = IF License(c) THEN Push(Goto(t, "loop"), f)
                                                         ELSE Goto(t, "collect")]
          /\ status' \in [Op -> Status] /\ queued' \subseteq Op
      BY <1>1, <2>1, InvShape, TryRunningMoves
    <2>3. UNCHANGED <<radio, tasks, todo, closing>> /\ Room(t, 1)
      BY <1>4 DEF JoinInline
    <2>4. \A d \in R \cup B : life[d] = "alive"
      BY <1>2 DEF PutBack
    <2>5. License(c) <=> c \in R
      OBVIOUS
    <2> HIDE DEF R, B
    <2>6. /\ Stacks' /\ \A u \in Thread : Len(stack'[u]) <= MaxDepth
          /\ \A p \in Places' : Same(p) \/ JoinMove(p) \/ RunNew(p, R)
          /\ \A p, r \in Places' : p \notin Places /\ r \notin Places => p = r
      <3>1. CASE License(c)
        <4>1. stack' = [stack EXCEPT ![t] = Push(Goto(t, "loop"), f)] /\ c \in R
          BY <2>2, <2>5, <3>1
        <4> QED
          BY <1>1, <2>3, <4>1, StartPlaces DEF JoinPc
      <3>2. CASE ~ License(c)
        <4> DEFINE g == [Top(t) EXCEPT !.pc = "collect"]
        <4>1. stack' = [stack EXCEPT ![t] = SetTop(stack[t], g)]
          BY <2>2, <3>2 DEF Goto
        <4>2. g \in Frame /\ g.kind = "join" /\ g.op = Top(t).op /\ g.rest = Top(t).rest
          BY <1>1 DEF Frame, JoinPc
        <4> HIDE DEF g
        <4>3. /\ Stacks' /\ \A u \in Thread : Len(stack'[u]) <= MaxDepth
              /\ Places' = Places
              /\ \A p \in Places' : Same(p) \/ JoinMove(p)
          BY <1>1, <4>1, <4>2, GotoPlaces
        <4> QED
          BY <4>3
      <3> QED
        BY <3>1, <3>2
    <2>7. LicenseStep(R, B)
      BY <2>2, <2>3, <2>4, <2>6 DEF LicenseStep
    <2>8. Shape'
      BY <2>2, <2>3, <2>6, InvShape DEF Shape, context
    <2> QED
      BY <2>7, <2>8
  <1> QED
    BY <1>3, <1>4

LEMMA StealCases ==
    ASSUME IInv, NEW t \in Thread, StealOneTask(t)
    PROVE  \E R, B : LicenseStep(R, B) /\ Shape'
  <1>1. /\ stack[t] # << >> /\ Top(t) \in Frame /\ Top(t).kind = "join"
        /\ At(t, "join", "steal")
    BY InvShape, TopFrame DEF StealOneTask
  <1>2. radio \in Seq(Op) /\ Len(radio) \in Nat
    BY InvShape, LenProperties DEF Shape
  <1>3. PICK m \in 1 .. Len(radio) + 1 :
           /\ IsStop(m)
           /\ LET popped == {radio[k] : k \in 1 .. m - 1}
                  back == PutBack({c \in popped : life[c] = "alive"})
                  runs == Room(t, 1) /\ m <= Len(radio) /\ ~ Fenced(radio[m])
              IN  /\ status' = [c \in Op |->
                        IF runs /\ c = radio[m] THEN "running"
                        ELSE IF c \in back THEN "scheduled" ELSE status[c]]
                  /\ PlaceBack(back)
                  /\ radio' = SubSeq(radio, IF runs THEN m + 1 ELSE m, Len(radio))
                  /\ stack' = [stack EXCEPT ![t] =
                        IF runs THEN Push(Goto(t, "again"),
                                          NewFrame("run", radio[m], "start", FALSE))
                        ELSE Goto(t, "wait")]
    BY Zenon DEF StealOneTask
  <1> DEFINE popped == {radio[k] : k \in 1 .. m - 1}
             back == PutBack({c \in popped : life[c] = "alive"})
             runs == Room(t, 1) /\ m <= Len(radio) /\ ~ Fenced(radio[m])
             R == IF runs THEN {radio[m]} ELSE {}
  <1>4. UNCHANGED <<context, suppliers, waiters, activePhase, finished, asleep,
                    tasks, todo, closing>>
    BY DEF StealOneTask
  <1>5. popped \subseteq Op
    BY <1>2
  <1>6. runs => radio[m] \in Op /\ life[radio[m]] = "alive" /\ License(radio[m])
    BY <1>2, <1>3 DEF IsStop, RadioStops
  <1>7. \A c \in R \cup back : c \in Op /\ status[c] = "activated" /\ life[c] = "alive"
    BY <1>5, <1>6 DEF PutBack, License
  <1>8. R \cap back = {}
    <2>1. activePhase \in Nat /\ \A c \in Op : Phase[c] \in Nat
      BY SchedulerAssumption, InvShape DEF Shape, PhaseNr
    <2> QED
      BY <1>5, <1>6, <2>1 DEF PutBack, License
  <1>9. status' = [c \in Op |-> IF c \in R THEN "running"
                                ELSE IF c \in back THEN "scheduled" ELSE status[c]]
    BY <1>3
  <1>10. /\ queued' = queued \cup back
         /\ nrActive' = [p \in PhaseNr |->
               nrActive[p] - Cardinality({c \in back : Phase[c] = p})]
    BY <1>3 DEF PlaceBack
  <1>11. radio' \in Seq(Op)
    BY <1>2, <1>3, SubSeqProperties
  <1>12. /\ Stacks' /\ \A u \in Thread : Len(stack'[u]) <= MaxDepth
         /\ \A p \in Places' : Same(p) \/ JoinMove(p) \/ RunNew(p, R)
         /\ \A p, r \in Places' : p \notin Places /\ r \notin Places => p = r
    <2>1. CASE runs
      <3>1. /\ stack' = [stack EXCEPT ![t] =
                 Push(Goto(t, "again"), NewFrame("run", radio[m], "start", FALSE))]
            /\ radio[m] \in R /\ Room(t, 1) /\ "again" \in JoinPc
        BY <1>3, <2>1 DEF JoinPc
      <3> QED
        BY <1>1, <1>6, <2>1, <3>1, StartPlaces
    <2>2. CASE ~ runs
      <3> DEFINE g == [Top(t) EXCEPT !.pc = "wait"]
      <3>1. stack' = [stack EXCEPT ![t] = SetTop(stack[t], g)]
        BY <1>3, <2>2 DEF Goto
      <3>2. g \in Frame /\ g.kind = "join" /\ g.op = Top(t).op /\ g.rest = Top(t).rest
        BY <1>1 DEF Frame, JoinPc
      <3> HIDE DEF g
      <3>3. /\ Stacks' /\ \A u \in Thread : Len(stack'[u]) <= MaxDepth
            /\ Places' = Places
            /\ \A p \in Places' : Same(p) \/ JoinMove(p)
        BY <1>1, <3>1, <3>2, GotoPlaces
      <3> QED
        BY <3>3
    <2> QED
      BY <2>1, <2>2
  <1> HIDE DEF R, back
  <1>13. LicenseStep(R, back)
    BY <1>4, <1>7, <1>8, <1>9, <1>10, <1>12 DEF LicenseStep
  <1>14. Shape'
    BY <1>4, <1>7, <1>9, <1>10, <1>11, <1>12, InvShape DEF Shape, context, Status, Started
  <1> QED
    BY <1>13, <1>14

-----------------------------------------------------------------------------
(* The end of contexts *)

LEMMA DetachType ==
    ASSUME NEW S, NEW f \in [Op -> BOOLEAN]
    PROVE  Detach(S, f) \in [Op -> BOOLEAN]
  BY DEF Detach

LEMMA EndShape ==
    ASSUME Shape, NEW S \in SUBSET Op, NEW st \in Final, EndAll(S, st)
    PROVE  /\ status' \in [Op -> Status]
           /\ suppliers' \in [Op -> SUBSET Op]
           /\ waiters' \in [Op -> SUBSET Op]
           /\ hasFunc' \in [Op -> BOOLEAN]
           /\ owned' \in [Op -> BOOLEAN]
           /\ writeLock' \in [Op -> BOOLEAN]
           /\ asleep' \subseteq Thread
           /\ Runnable(S, st) \in SUBSET Op
  <1>1. status' \in [Op -> Status]
    BY DEF EndAll, Shape, Status
  <1>2. suppliers' \in [Op -> SUBSET Op] /\ waiters' \in [Op -> SUBSET Op]
    BY DEF EndAll, Shape, SuppliersAfter
  <1>3. /\ hasFunc' \in [Op -> BOOLEAN] /\ owned' \in [Op -> BOOLEAN]
        /\ writeLock' \in [Op -> BOOLEAN]
    BY DetachType DEF EndAll, Shape
  <1>4. asleep' \subseteq Thread
    BY DEF EndAll, Shape
  <1>5. Runnable(S, st) \in SUBSET Op
    BY DEF Runnable, WaitersOf
  <1> QED
    BY <1>1, <1>2, <1>3, <1>4, <1>5

\* Only the waiters of S are told, and only of a failure or a cancellation.
LEMMA EndItemsAre ==
    ASSUME NEW S \in SUBSET Op, NEW st \in Final, NEW i \in EndItems(S, st)
    PROVE  \/ i = Start
           \/ \E w \in WaitersOf(S) : /\ st = "exception" /\ i = [do |-> "fail", op |-> w]
           \/ \E w \in WaitersOf(S) : /\ st = "cancelled" /\ i = [do |-> "cancel", op |-> w]
  BY DEF EndItems, Final

LEMMA CallIsItem ==
    ASSUME NEW do \in {"fail", "endFailed", "cancel", "destroy"}, NEW c \in Op
    PROVE  /\ [do |-> do, op |-> c] \in Item
           /\ [do |-> do, op |-> c] # Start
           /\ [do |-> do, op |-> c].do = do
           /\ [do |-> do, op |-> c].op = c
  BY DEF Item, Start

\* The items other than Start are about a context.
LEMMA ItemFields ==
    ASSUME NEW i \in Item
    PROVE  \/ i = Start
           \/ /\ i # Start
              /\ i.do \in {"fail", "endFailed", "cancel", "destroy"} /\ i.op \in Op
              /\ i = [do |-> i.do, op |-> i.op]
  BY DEF Item, Start

LEMMA EndItemsType ==
    ASSUME NEW S \in SUBSET Op, NEW st \in Final
    PROVE  EndItems(S, st) \subseteq Item
  <1>1. ASSUME NEW i \in EndItems(S, st)
        PROVE  i \in Item
    BY EndItemsAre, CallIsItem, StartIsItem DEF WaitersOf
  <1> QED
    BY <1>1

-----------------------------------------------------------------------------
(* StartOperationContexts *)

LEMMA FiniteOps ==
    ASSUME NEW A \in SUBSET Op
    PROVE  IsFiniteSet(A) /\ Cardinality(A) \in Nat
  BY SchedulerAssumption, FS_Subset, FS_CardinalityType

LEMMA CollectCases ==
    ASSUME IInv, NEW t \in Thread, NEW items \in SUBSET todo[t], Collect(t, items),
           \A i \in todo[t] \ items : i = Start,
           UNCHANGED closing,
           Stacks', \A u \in Thread : Len(stack'[u]) <= MaxDepth,
           \A p \in Places' : p \in Places /\ (Same(p) \/ JoinMove(p))
    PROVE  \/ QuietStep /\ Shape'
           \/ \E X : ActivateStep(X) /\ Shape'
           \/ \E S, st : EndStep(S, st) /\ Shape'
  <1>1. todo[t] \in SUBSET Item /\ items \in SUBSET Item
    BY InvShape DEF Shape
  <1>2. CASE /\ todo' = [todo EXCEPT ![t] = items]
             /\ UNCHANGED <<context, graph, queues, radio, tasks, finished, asleep>>
    <2>1. TodoQuiet /\ todo' \in [Thread -> SUBSET Item]
      BY <1>1, <1>2, InvShape DEF TodoQuiet, Shape
    <2>2. QuietStep
      BY <1>2, <2>1 DEF QuietStep
    <2>3. Shape'
      BY <1>2, <2>1, InvShape DEF Shape, context, graph, queues
    <2> QED
      BY <2>2, <2>3
  <1>3. ASSUME NEW cancel \in {FALSE, closing}, NEW p \in PhaseNr,
               NEW S \in SUBSET QueueOf(p),
               queued' = queued \ (Lower(p) \cup S),
               activePhase' = IF p > activePhase THEN p ELSE activePhase,
               IF cancel
               THEN /\ EndAll(Live(Lower(p) \cup S), "cancelled")
                    /\ todo' = [todo EXCEPT ![t] =
                          items \cup EndItems(Live(Lower(p) \cup S), "cancelled")]
                    /\ UNCHANGED <<life, result, radio, tasks>>
               ELSE /\ Activate(Live(Lower(p) \cup S))
                    /\ todo' = [todo EXCEPT ![t] = items]
        PROVE  \/ \E X : ActivateStep(X) /\ Shape'
               \/ \E X, st : EndStep(X, st) /\ Shape'
    <2> DEFINE G == Lower(p) \cup S
               X == Live(G)
    <2>1. G \in SUBSET queued /\ X \in SUBSET Op /\ X \subseteq G
      BY <1>3, InvShape DEF Lower, QueueOf, Live, Shape
    <2>2. /\ \A c \in X : c \in queued /\ life[c] = "alive" /\ status[c] \notin Final
          /\ \A c \in G : c \in X \/ life[c] # "alive" \/ status[c] \in Final
      BY <2>1 DEF Live
    <2>3. activePhase' \in PhaseNr \cup {0}
      BY <1>3, InvShape DEF Shape
    <2> HIDE DEF X, G
    <2>4. CASE ~ cancel
      <3>1. Activate(X) /\ todo' = [todo EXCEPT ![t] = items]
        BY <1>3, <2>4 DEF X, G
      <3>2. TodoQuiet /\ todo' \in [Thread -> SUBSET Item]
        BY <1>1, <3>1, InvShape DEF TodoQuiet, Shape
      <3>3. queued' = queued \ G
        BY <1>3 DEF G
      <3>4. ActivateStep(X)
        BY <2>1, <2>2, <3>1, <3>2, <3>3 DEF ActivateStep, Activate
      <3>5. radio' \in Seq(Op)
        <4>1. PICK order \in [1 .. Cardinality(X) -> X] : radio' = radio \o order
          BY <3>1 DEF Activate
        <4>2. Cardinality(X) \in Nat
          BY <2>1, FiniteOps
        <4>3. order \in Seq(Op)
          BY <2>1, <4>1, <4>2, SeqOfFunction
        <4> QED
          BY <4>1, <4>3, InvShape, ConcatProperties DEF Shape
      <3>6. status' \in [Op -> Status] /\ tasks' \subseteq Op
        BY <2>1, <3>1, InvShape DEF Activate, Shape, Status, Started
      <3>7. Shape'
        BY <2>1, <2>3, <3>1, <3>2, <3>3, <3>5, <3>6, InvShape DEF Shape, Activate, context
      <3> QED
        BY <3>4, <3>7
    <2>5. CASE cancel
      <3>1. /\ EndAll(X, "cancelled") /\ closing
            /\ todo' = [todo EXCEPT ![t] = items \cup EndItems(X, "cancelled")]
            /\ UNCHANGED <<life, result, radio, tasks>>
        BY <1>3, <2>5 DEF X, G
      <3>2. "cancelled" \in Final
        BY DEF Final
      <3>3. Runnable(X, "cancelled") = {}
        BY DEF Runnable
      <3>4. queued' = (queued \ G) \cup Runnable(X, "cancelled")
        BY <1>3, <3>3 DEF G
      <3>5. \E u \in Thread : \E keep \in SUBSET todo[u] :
              /\ todo' = [todo EXCEPT ![u] = keep \cup EndItems(X, "cancelled")]
              /\ \A i \in todo[u] \ keep : i = Start
        BY <3>1
      <3>6. EndStep(X, "cancelled")
        BY <2>1, <2>2, <3>1, <3>2, <3>4, <3>5 DEF EndStep, EndCause
      <3>7. todo' \in [Thread -> SUBSET Item]
        <4>1. EndItems(X, "cancelled") \subseteq Item
          BY <2>1, <3>2, EndItemsType
        <4> QED
          BY <1>1, <3>1, <4>1, InvShape DEF Shape
      <3>8. /\ status' \in [Op -> Status]
            /\ suppliers' \in [Op -> SUBSET Op]
            /\ waiters' \in [Op -> SUBSET Op]
            /\ hasFunc' \in [Op -> BOOLEAN]
            /\ owned' \in [Op -> BOOLEAN]
            /\ writeLock' \in [Op -> BOOLEAN]
            /\ asleep' \subseteq Thread
        BY <2>1, <3>1, <3>2, InvShape, EndShape
      <3>9. Shape'
        BY <1>3, <2>3, <3>1, <3>7, <3>8, InvShape DEF Shape
      <3> QED
        BY <3>6, <3>9
    <2> QED
      BY <2>4, <2>5
  <1> QED
    BY <1>2, <1>3 DEF Collect

LEMMA JoinCollectCases ==
    ASSUME IInv, NEW t \in Thread, JoinCollect(t)
    PROVE  \/ QuietStep /\ Shape'
           \/ \E X : ActivateStep(X) /\ Shape'
           \/ \E S, st : EndStep(S, st) /\ Shape'
  <1> DEFINE f == Top(t)
             g == IF f.pc = "again" THEN [f EXCEPT !.pc = "check"]
                  ELSE [f EXCEPT !.pc = IF t = Meta THEN "wait" ELSE "steal",
                                 !.seen = finished]
  <1>1. PICK pc : At(t, "join", pc)
    BY DEF JoinCollect
  <1>2. /\ stack[t] # << >> /\ f \in Frame /\ f.kind = "join" /\ todo[t] = {}
        /\ TopAt(t) \in Places
    BY <1>1, InvShape, TopFrame
  <1>3. finished \in Nat
    BY DEF IInv, CoreInv, TypeOK
  <1>4. g \in Frame /\ g.kind = "join" /\ g.op = f.op /\ g.rest = f.rest
    BY <1>2, <1>3 DEF Frame, JoinPc
  <1>5. stack' = [stack EXCEPT ![t] = SetTop(stack[t], g)]
    BY DEF JoinCollect
  <1> HIDE DEF g
  <1>6. /\ Stacks' /\ \A u \in Thread : Len(stack'[u]) <= MaxDepth
        /\ Places' = Places
        /\ \A p \in Places' : Same(p) \/ JoinMove(p)
    BY <1>1, <1>4, <1>5, GotoPlaces
  <1>7. Collect(t, {}) /\ {} \in SUBSET todo[t] /\ UNCHANGED closing
    BY DEF JoinCollect
  <1> QED
    BY <1>2, <1>6, <1>7, CollectCases

LEMMA DoWorkCases ==
    ASSUME IInv, DoWorkWhileWaiting
    PROVE  \/ QuietStep /\ Shape'
           \/ \E X : ActivateStep(X) /\ Shape'
           \/ \E S, st : EndStep(S, st) /\ Shape'
  <1>1. /\ Meta \in Thread /\ todo[Meta] = {} /\ stack' = stack /\ UNCHANGED closing
        /\ Collect(Meta, {}) /\ {} \in SUBSET todo[Meta]
    BY DEF DoWorkWhileWaiting, Thread, InViewCode, Ready
  <1>2. Places' = Places /\ \A p \in Places' : Same(p)
    BY <1>1, StillFrames
  <1>3. Stacks' /\ \A u \in Thread : Len(stack'[u]) <= MaxDepth
    BY <1>1, InvShape DEF Stacks, Shape
  <1> QED
    BY <1>1, <1>2, <1>3, CollectCases

-----------------------------------------------------------------------------
(* The end of one context *)

LEMMA EndOne ==
    ASSUME Shape, NEW t \in Thread, NEW c \in Op, NEW st \in Final,
           NEW keep \in SUBSET todo[t],
           EndAll(Ending({c}), st), Enqueue(Runnable(Ending({c}), st)),
           todo' = [todo EXCEPT ![t] = keep \cup EndItems(Ending({c}), st)],
           \A i \in todo[t] \ keep : i = Start \/ life[i.op] # "alive" \/ i.op = c,
           UNCHANGED <<life, closing>>,
           \A d \in Op : result'[d] = result[d] \/ Fails(d),
           status[c] \notin Final => EndCause(c, st),
           \A p \in Places' : p \in Places /\ (Same(p) \/ JoinMove(p) \/ RunEnd(p)),
           result' \in [Op -> {"none", "ready", "failed"}],
           UNCHANGED <<radio, tasks>>,
           Stacks', \A u \in Thread : Len(stack'[u]) <= MaxDepth
    PROVE  EndStep(Ending({c}), st) /\ Shape'
  <1> DEFINE S == Ending({c})
  <1>1. S \in SUBSET Op /\ (\A d \in S : d = c /\ status[d] \notin Final)
        /\ (c \in S \/ status[c] \in Final)
    BY DEF Ending
  <1> HIDE DEF S
  <1>2. Runnable(S, st) \in SUBSET Op
    BY <1>1, EndShape DEF S
  <1>3. queued' = queued \cup Runnable(S, st)
    BY DEF Enqueue, S
  <1>4. \A i \in todo[t] \ keep : \/ i = Start \/ life[i.op] # "alive"
                                  \/ i.op \in S \/ status[i.op] \in Final
    BY <1>1
  <1>5. EndStep(S, st)
    <2>1. \E G \in SUBSET queued :
            /\ queued' = (queued \ G) \cup Runnable(S, st)
            /\ \A d \in G : d \in S \/ life[d] # "alive" \/ status[d] \in Final
      <3>1. {} \in SUBSET queued /\ queued' = (queued \ {}) \cup Runnable(S, st)
        BY <1>3
      <3> QED
        BY <3>1
    <2>2. \E u \in Thread : \E k \in SUBSET todo[u] :
         /\ todo' = [todo EXCEPT ![u] = k \cup EndItems(S, st)]
         /\ \A i \in todo[u] \ k : \/ i = Start \/ life[i.op] # "alive"
                                   \/ i.op \in S \/ status[i.op] \in Final
      BY <1>4 DEF S
    <2>3. EndAll(S, st)
      BY DEF S
    <2>4. \A d \in S : EndCause(d, st)
      BY <1>1
    <2> QED
      BY <1>1, <2>1, <2>2, <2>3, <2>4 DEF EndStep
  <1>6. /\ status' \in [Op -> Status]
        /\ suppliers' \in [Op -> SUBSET Op]
        /\ waiters' \in [Op -> SUBSET Op]
        /\ hasFunc' \in [Op -> BOOLEAN]
        /\ owned' \in [Op -> BOOLEAN]
        /\ writeLock' \in [Op -> BOOLEAN]
        /\ asleep' \subseteq Thread
    BY <1>1, EndShape DEF S
  <1>7. activePhase' \in PhaseNr \cup {0}
    BY <1>2, EnqueuePhase DEF S
  <1>8. todo' \in [Thread -> SUBSET Item]
    <2>1. todo[t] \in SUBSET Item /\ EndItems(S, st) \subseteq Item
      BY <1>1, EndItemsType DEF Shape
    <2> QED
      BY <2>1 DEF Shape, S
  <1>9. queued' \subseteq Op
    BY <1>2, <1>3 DEF Shape
  <1>10. Shape'
    BY <1>6, <1>7, <1>8, <1>9 DEF Shape
  <1> QED
    BY <1>5, <1>10 DEF S

\* An item is handled that leaves everything else alone.
LEMMA TodoStep ==
    ASSUME Shape, NEW t \in Thread, NEW rest \in SUBSET Item,
           todo' = [todo EXCEPT ![t] = rest]
    PROVE  todo' \in [Thread -> SUBSET Item]
  BY DEF Shape

LEMMA DisposeCases ==
    ASSUME IInv, NEW t \in Thread, NEW i \in todo[t], Dispose(t, i)
    PROVE  \/ QuietStep /\ Shape'
           \/ \E X : ActivateStep(X) /\ Shape'
           \/ \E S, st : EndStep(S, st) /\ Shape'
           \/ FailStep(t, i, i.op) /\ Shape'
  <1> DEFINE c == i.op
             rest == todo[t] \ {i}
  <1>1. todo[t] \in SUBSET Item /\ i \in Item /\ rest \in SUBSET Item
        /\ rest \in SUBSET todo[t] /\ \A k \in todo[t] \ rest : k = i
    BY InvShape DEF Shape
  <1>2. stack' = stack /\ closing' = closing
    BY DEF Dispose
  <1>3. Places' = Places /\ \A p \in Places' : Same(p)
    BY <1>2, StillFrames
  <1>4. Stacks' /\ \A u \in Thread : Len(stack'[u]) <= MaxDepth
    BY <1>2, InvShape DEF Stacks, Shape
  <1>5. CASE i.do = "start" /\ Collect(t, rest)
    <2>1. i = Start
      BY <1>1, <1>5, ItemFields
    <2> QED
      BY <1>1, <1>2, <1>3, <1>4, <1>5, <2>1, CollectCases
  <1>6. CASE /\ life[c] # "alive"
             /\ todo' = [todo EXCEPT ![t] = rest]
             /\ UNCHANGED <<context, graph, queues, radio, tasks, finished, asleep>>
    <2>1. TodoQuiet
      BY <1>6, InvShape DEF TodoQuiet, Shape
    <2>2. QuietStep
      BY <1>2, <1>3, <1>6, <2>1 DEF QuietStep
    <2>3. todo' \in [Thread -> SUBSET Item]
      BY <1>1, <1>6, InvShape, TodoStep
    <2>4. Shape'
      BY <1>2, <1>4, <1>6, <2>3, InvShape DEF Shape, context, graph, queues
    <2> QED
      BY <2>2, <2>4
  <1>7. CASE /\ i.do = "fail" /\ life[c] = "alive"
             /\ result' = [result EXCEPT ![c] = "failed"]
             /\ todo' = [todo EXCEPT ![t] = rest \cup {[do |-> "endFailed", op |-> c]}]
             /\ UNCHANGED <<life, owned, hasFunc, writeLock, graph, queues, radio,
                            tasks, finished, asleep>>
    <2>1. c \in Op
      BY <1>1, <1>7, ItemFields DEF Start
    <2>2. FailStep(t, i, c)
      BY <1>2, <1>7, <2>1 DEF FailStep
    <2>3. todo' \in [Thread -> SUBSET Item]
      <3>1. rest \cup {[do |-> "endFailed", op |-> c]} \in SUBSET Item
        BY <1>1, <2>1, CallIsItem
      <3> QED
        BY <1>7, <3>1, InvShape, TodoStep
    <2>4. result' \in [Op -> {"none", "ready", "failed"}]
      BY <1>7, InvShape DEF Shape
    <2>5. Shape'
      BY <1>2, <1>4, <1>7, <2>3, <2>4, InvShape DEF Shape, graph, queues
    <2> QED
      BY <2>2, <2>5
  <1>8. ASSUME NEW st \in Final, i # Start,
               EndAll(Ending({c}), st), Enqueue(Runnable(Ending({c}), st)),
               todo' = [todo EXCEPT ![t] = rest \cup EndItems(Ending({c}), st)],
               UNCHANGED <<life, result, radio, tasks>>,
               status[c] \notin Final => EndCause(c, st)
        PROVE  \E S, s : EndStep(S, s) /\ Shape'
    <2>1. c \in Op
      BY <1>1, <1>8, ItemFields
    <2>2. \A k \in todo[t] \ rest : k = Start \/ life[k.op] # "alive" \/ k.op = c
      OBVIOUS
    <2>3. \A d \in Op : result'[d] = result[d] \/ Fails(d)
      BY <1>8
    <2>4. result' \in [Op -> {"none", "ready", "failed"}]
      BY <1>8, InvShape DEF Shape
    <2>5. \A p \in Places' : p \in Places /\ (Same(p) \/ JoinMove(p) \/ RunEnd(p))
      BY <1>3
    <2> HIDE DEF c, rest
    <2>6. EndStep(Ending({c}), st) /\ Shape'
      BY <1>1, <1>2, <1>4, <1>8, <2>1, <2>2, <2>3, <2>4, <2>5, InvShape, EndOne
    <2> QED
      BY <2>6
  <1>9. CASE i.do \in {"endFailed", "cancel", "destroy"}
    <2>1. i # Start /\ i.do # "start" /\ i.do # "fail"
      BY <1>9 DEF Start
    <2>2. \/ /\ i.do \in {"endFailed", "cancel", "destroy"}
             /\ i.do = "cancel" => life[c] = "alive"
             /\ LET st == IF i.do = "endFailed" THEN "exception" ELSE "cancelled"
                IN /\ EndAll(Ending({c}), st) /\ Enqueue(Runnable(Ending({c}), st))
                   /\ todo' = [todo EXCEPT ![t] = rest \cup EndItems(Ending({c}), st)]
                   /\ UNCHANGED <<life, result, radio, tasks>>
          \/ /\ life[c] # "alive"
             /\ todo' = [todo EXCEPT ![t] = rest]
             /\ UNCHANGED <<context, graph, queues, radio, tasks, finished, asleep>>
      BY <1>9, <2>1 DEF Dispose
    <2>3. CASE /\ i.do = "cancel" => life[c] = "alive"
               /\ LET st == IF i.do = "endFailed" THEN "exception" ELSE "cancelled"
                  IN /\ EndAll(Ending({c}), st) /\ Enqueue(Runnable(Ending({c}), st))
                     /\ todo' = [todo EXCEPT ![t] = rest \cup EndItems(Ending({c}), st)]
                     /\ UNCHANGED <<life, result, radio, tasks>>
      <3> DEFINE st == IF i.do = "endFailed" THEN "exception" ELSE "cancelled"
      <3>1. st \in Final
        BY DEF Final
      <3>2. /\ i.do = "endFailed" => result[c] = "failed"
            /\ i.do = "cancel" /\ life[c] = "alive" => closing \/ status[c] \in Final
        BY DEF IInv, CauseInv
      <3>3. life[c] # "new" /\ (i.do = "destroy" => life[c] = "dead")
        BY <2>1, InvShape DEF ExistInv
      <3>4. result' = result
        BY <2>3
      <3>5. status[c] \notin Final => EndCause(c, st)
        BY <1>9, <2>3, <3>2, <3>3, <3>4 DEF EndCause
      <3> HIDE DEF st
      <3>6. /\ EndAll(Ending({c}), st) /\ Enqueue(Runnable(Ending({c}), st))
            /\ todo' = [todo EXCEPT ![t] = rest \cup EndItems(Ending({c}), st)]
            /\ UNCHANGED <<life, result, radio, tasks>>
        BY <2>3 DEF st
      <3> QED
        BY <1>8, <2>1, <3>1, <3>5, <3>6
    <2> QED
      BY <1>6, <2>2, <2>3
  <1>10. CASE i.do \in {"start", "fail"}
    <2>1. \/ i.do = "start" /\ Collect(t, rest)
          \/ /\ life[c] # "alive"
             /\ todo' = [todo EXCEPT ![t] = rest]
             /\ UNCHANGED <<context, graph, queues, radio, tasks, finished, asleep>>
          \/ /\ i.do = "fail" /\ life[c] = "alive"
             /\ result' = [result EXCEPT ![c] = "failed"]
             /\ todo' = [todo EXCEPT ![t] = rest \cup {[do |-> "endFailed", op |-> c]}]
             /\ UNCHANGED <<life, owned, hasFunc, writeLock, graph, queues, radio,
                            tasks, finished, asleep>>
      BY <1>10 DEF Dispose
    <2> QED
      BY <1>5, <1>6, <1>7, <2>1
  <1> QED
    BY <1>1, <1>9, <1>10, ItemFields DEF Start

-----------------------------------------------------------------------------
(* Scheduling and running *)

\* The frames when the innermost one of a thread is left.
LEMMA PopFrames ==
    ASSUME Shape, NEW t \in Thread, stack[t] # << >>,
           stack' = [stack EXCEPT ![t] = Pop(@)]
    PROVE  /\ Stacks' /\ \A u \in Thread : Len(stack'[u]) <= MaxDepth
           /\ TopAt(t) \in Places /\ FrameAt(TopAt(t)) = Top(t)
           /\ Places' = Places \ {TopAt(t)}
           /\ \A p \in Places' : Same(p)
  <1>1. stack' = [stack EXCEPT ![t] = Pop(stack[t])]
    OBVIOUS
  <1>2. /\ Stacks' /\ Len(stack'[t]) = Len(stack[t]) - 1
        /\ \A u \in Thread : u # t => stack'[u] = stack[u]
        /\ TopAt(t) \in Places /\ FrameAt(TopAt(t)) = Top(t)
        /\ Places' = Places \ {TopAt(t)}
        /\ \A p \in Places' : Same(p)
    BY <1>1, PopPlaces DEF Shape
  <1>3. \A u \in Thread : Len(stack[u]) \in Nat /\ Len(stack[u]) <= MaxDepth
    BY LenProperties DEF Shape, Stacks
  <1>4. \A u \in Thread : Len(stack'[u]) <= MaxDepth
    BY <1>2, <1>3, SchedulerAssumption
  <1> QED
    BY <1>2, <1>4

\* The frames when a thread goes to another place in the same code.
LEMMA GotoFrames ==
    ASSUME Shape, NEW t \in Thread, stack[t] # << >>, Top(t) \in Frame,
           NEW next \in Pc, stack' = [stack EXCEPT ![t] = Goto(t, next)]
    PROVE  /\ Stacks' /\ \A u \in Thread : Len(stack'[u]) <= MaxDepth
           /\ Places' = Places
           /\ \A p \in Places' : p = TopAt(t) =>
                 /\ FrameAt(p)'.kind = Top(t).kind /\ FrameAt(p)'.op = Top(t).op
                 /\ FrameAt(p)'.pc = next /\ FrameAt(p)'.rest = Top(t).rest
           /\ \A p \in Places' : p # TopAt(t) => Same(p)
  <1> DEFINE g == [Top(t) EXCEPT !.pc = next]
  <1>1. /\ g \in Frame /\ g.kind = Top(t).kind /\ g.op = Top(t).op /\ g.pc = next
        /\ g.rest = Top(t).rest
    BY PcFields
  <1>2. stack' = [stack EXCEPT ![t] = SetTop(stack[t], g)]
    BY DEF Goto
  <1> HIDE DEF g
  <1>3. /\ Stacks' /\ Len(stack'[t]) = Len(stack[t]) /\ Places' = Places
        /\ \A u \in Thread : u # t => stack'[u] = stack[u]
        /\ \A p \in Places' : p = TopAt(t) => FrameAt(p)' = g
        /\ \A p \in Places' : p # TopAt(t) => Same(p)
    BY <1>1, <1>2, SetTopPlaces DEF Shape
  <1>4. \A u \in Thread : Len(stack'[u]) <= MaxDepth
    BY <1>3 DEF Shape
  <1> QED
    BY <1>1, <1>3, <1>4

LEMMA BeginCases ==
    ASSUME IInv, NEW c \in Op, Begin(c) PROVE BeginStep(c) /\ Shape'
  <1> DEFINE f == IF c \in Container THEN NewFrame("fence", c, "update", FALSE)
                                     ELSE NewFrame("direct", c, "connect", FALSE)
  <1>1. /\ f \in Frame /\ f.kind \in MetaKind /\ f.op = c
        /\ f.pc \in {"connect", "update"} /\ f.rest = {}
    BY DEF NewFrame, Frame, MetaKind, DirectPc
  <1>2. stack' = [stack EXCEPT ![Meta] = Push(stack[Meta], f)] /\ Meta \in Thread
    BY DEF Begin, Thread
  <1> HIDE DEF f
  <1>3. /\ Stacks' /\ Len(stack'[Meta]) = Len(stack[Meta]) + 1
        /\ \A u \in Thread : u # Meta => stack'[u] = stack[u]
        /\ Places' = Places \cup {Above(Meta)} /\ Above(Meta) \notin Places
        /\ \A p \in Places : Same(p)
        /\ \A p \in Places' : p = Above(Meta) => FrameAt(p)' = f
    BY <1>1, <1>2, InvShape, PushPlaces
  <1>4. \A u \in Thread : Len(stack'[u]) <= MaxDepth
    <2>1. \A u \in Thread : Len(stack[u]) \in Nat /\ Len(stack[u]) <= MaxDepth
      BY InvShape, LenProperties DEF Shape, Stacks
    <2>2. Len(stack[Meta]) + 3 <= MaxDepth
      BY DEF Begin, Room
    <2> QED
      BY <1>2, <1>3, <2>1, <2>2, SchedulerAssumption
  <1>5. status[c] = "none"
    BY InvShape DEF Begin, ExistInv
  <1>6. \A p \in Places : FrameAt(p).op # c
    BY InvShape DEF Begin, ExistInv, FramesOf
  <1>7. life[c] = "new" \/ owned[c]
    BY DEF Begin
  <1>8. \A p \in Places' :
         \/ Same(p)
         \/ /\ p = Above(Meta) /\ p \notin Places
            /\ FrameAt(p)'.kind \in MetaKind /\ FrameAt(p)'.op = c
            /\ FrameAt(p)'.pc \in {"connect", "update"} /\ FrameAt(p)'.rest = {}
    BY <1>1, <1>3
  <1>9. BeginStep(c)
    BY <1>5, <1>6, <1>7, <1>8 DEF Begin, BeginStep
  <1>10. Shape'
    BY <1>3, <1>4, InvShape DEF Begin, Shape, graph, queues
  <1> QED
    BY <1>9, <1>10

LEMMA ConnectCases ==
    ASSUME IInv, Connect
    PROVE  \/ \E p, c, S : ConnectStep(p, c, S) /\ Shape'
           \/ \E S, st : EndStep(S, st) /\ Shape'
  <1> DEFINE f == Top(Meta)
             c == f.op
             S == {a \in Args[c] : owned[a] /\ status[a] \notin Final}
  <1>1. /\ Meta \in Thread /\ stack[Meta] # << >> /\ todo[Meta] = {}
        /\ TopAt(Meta) \in Places /\ FrameAt(TopAt(Meta)) = f
        /\ f \in Frame /\ f.kind = "direct" /\ f.pc = "connect" /\ c \in Op
    BY InvShape, TopFrame DEF Connect, Thread
  <1>2. CASE result[c] = "failed"
    <2>1. /\ OnEnd(Meta, c, "exception", {})
          /\ stack' = [stack EXCEPT ![Meta] = Pop(@)]
          /\ UNCHANGED <<life, result, radio, tasks, closing>>
      BY <1>2 DEF Connect
    <2>2. /\ Stacks' /\ \A u \in Thread : Len(stack'[u]) <= MaxDepth
          /\ Places' = Places \ {TopAt(Meta)}
          /\ \A p \in Places' : Same(p)
      BY <1>1, <2>1, InvShape, PopFrames
    <2>3. /\ EndAll(Ending({c}), "exception")
          /\ Enqueue(Runnable(Ending({c}), "exception"))
          /\ todo' = [todo EXCEPT ![Meta] = {} \cup EndItems(Ending({c}), "exception")]
      BY <2>1 DEF OnEnd
    <2>4. {} \in SUBSET todo[Meta] /\ "exception" \in Final
          /\ \A i \in todo[Meta] \ {} : i = Start \/ life[i.op] # "alive" \/ i.op = c
      BY <1>1 DEF Final
    <2>5. status[c] \notin Final => EndCause(c, "exception")
      BY <1>1, <1>2, <2>1, PlaceAlive DEF EndCause
    <2>6. \A d \in Op : result'[d] = result[d] \/ Fails(d)
      BY <2>1
    <2>7. result' \in [Op -> {"none", "ready", "failed"}]
      BY <2>1, InvShape DEF Shape
    <2>8. \A p \in Places' : p \in Places /\ (Same(p) \/ JoinMove(p) \/ RunEnd(p))
      BY <2>2
    <2> HIDE DEF c
    <2>9. EndStep(Ending({c}), "exception") /\ Shape'
      BY <1>1, <2>1, <2>2, <2>3, <2>4, <2>5, <2>6, <2>7, <2>8, InvShape, EndOne
    <2> QED
      BY <2>9
  <1>3. CASE result[c] # "failed"
    <2>1. /\ hasFunc' = [hasFunc EXCEPT ![c] = TRUE]
          /\ writeLock' = [writeLock EXCEPT ![c] = TRUE]
          /\ suppliers' = [suppliers EXCEPT ![c] = @ \cup S]
          /\ waiters' = ConnectWaiter(c, S)
          /\ stack' = [stack EXCEPT ![Meta] = Goto(Meta, "schedule")]
          /\ UNCHANGED <<life, status, result, owned, queues, radio, tasks,
                         finished, asleep, todo, closing>>
      BY <1>3 DEF Connect
    <2>2. /\ Stacks' /\ \A u \in Thread : Len(stack'[u]) <= MaxDepth
          /\ Places' = Places
          /\ \A p \in Places' : p = TopAt(Meta) =>
                 /\ FrameAt(p)'.kind = f.kind /\ FrameAt(p)'.op = c
                 /\ FrameAt(p)'.pc = "schedule" /\ FrameAt(p)'.rest = f.rest
          /\ \A p \in Places' : p # TopAt(Meta) => Same(p)
      BY <1>1, <2>1, InvShape, GotoFrames DEF Pc, DirectPc
    <2>3. S \in SUBSET Op
      BY <1>1, SchedulerAssumption
    <2>4. \A p : p = TopAt(Meta) => ConnectStep(p, c, S)
      BY <1>1, <1>3, <2>1, <2>2 DEF ConnectStep
    <2>5. /\ hasFunc' \in [Op -> BOOLEAN] /\ writeLock' \in [Op -> BOOLEAN]
          /\ suppliers' \in [Op -> SUBSET Op]
      BY <2>1, <2>3, InvShape DEF Shape
    <2>6. waiters' \in [Op -> SUBSET Op]
      BY <1>1, <2>1, InvShape DEF Shape, ConnectWaiter
    <2>7. Shape'
      BY <2>1, <2>2, <2>5, <2>6, InvShape DEF Shape, queues
    <2> QED
      BY <2>4, <2>7
  <1> QED
    BY <1>2, <1>3

LEMMA SupplierJoinedCases ==
    ASSUME IInv, SupplierJoined
    PROVE  \/ QuietStep /\ Shape'
           \/ \E S, st : EndStep(S, st) /\ Shape'
  <1> DEFINE f == Top(Meta)
             c == f.op
             s == f.first
             fails == status[s] = "exception" /\ result[s] = "failed" /\ status[c] \notin Final
  <1>1. /\ Meta \in Thread /\ stack[Meta] # << >> /\ todo[Meta] = {}
        /\ TopAt(Meta) \in Places /\ FrameAt(TopAt(Meta)) = f
        /\ f \in Frame /\ f.kind = "direct" /\ f.pc = "joined" /\ c \in Op
        /\ At(Meta, "direct", "joined")
    BY InvShape, TopFrame DEF SupplierJoined, Thread
  <1>2. CASE fails
    <2>1. /\ result' = [result EXCEPT ![c] = "failed"]
          /\ OnEnd(Meta, c, "exception", {})
          /\ stack' = [stack EXCEPT ![Meta] = Pop(@)]
          /\ UNCHANGED <<life, radio, tasks, closing>>
      BY <1>2 DEF SupplierJoined
    <2>2. /\ Stacks' /\ \A u \in Thread : Len(stack'[u]) <= MaxDepth
          /\ Places' = Places \ {TopAt(Meta)}
          /\ \A p \in Places' : Same(p)
      BY <1>1, <2>1, InvShape, PopFrames
    <2>3. /\ EndAll(Ending({c}), "exception")
          /\ Enqueue(Runnable(Ending({c}), "exception"))
          /\ todo' = [todo EXCEPT ![Meta] = {} \cup EndItems(Ending({c}), "exception")]
      BY <2>1 DEF OnEnd
    <2>4. {} \in SUBSET todo[Meta] /\ "exception" \in Final
          /\ \A i \in todo[Meta] \ {} : i = Start \/ life[i.op] # "alive" \/ i.op = c
      BY <1>1 DEF Final
    <2>5. result' \in [Op -> {"none", "ready", "failed"}] /\ result'[c] = "failed"
          /\ \A d \in Op : d # c => result'[d] = result[d]
      BY <1>1, <2>1, InvShape DEF Shape
    <2>6. status[c] \notin Final => EndCause(c, "exception")
      BY <1>1, <2>5, PlaceAlive DEF EndCause
    <2>7. \A d \in Op : result'[d] = result[d] \/ Fails(d)
      <3>1. \E p \in Places : FrameAt(p).op = c /\ FrameAt(p).kind \in MetaKind
        BY <1>1 DEF MetaKind
      <3>2. result'[c] = "failed"
        BY <2>5
      <3> HIDE DEF c
      <3>3. Fails(c)
        BY <3>1, <3>2 DEF Fails
      <3> QED
        BY <2>5, <3>3
    <2>8. \A p \in Places' : p \in Places /\ (Same(p) \/ JoinMove(p) \/ RunEnd(p))
      BY <2>2
    <2> HIDE DEF c
    <2>9. EndStep(Ending({c}), "exception") /\ Shape'
      BY <1>1, <2>1, <2>2, <2>3, <2>4, <2>5, <2>6, <2>7, <2>8, InvShape, EndOne
    <2> QED
      BY <2>9
  <1>3. CASE ~ fails
    <2>1. /\ stack' = [stack EXCEPT ![Meta] =
                IF status[s] = "done"
                THEN SetTop(@, [f EXCEPT !.pc = "suppl", !.first = NoOp, !.rest = @ \ {s}])
                ELSE Pop(@)]
          /\ UNCHANGED <<context, graph, queues, radio, tasks, finished, asleep, todo, closing>>
      BY <1>3 DEF SupplierJoined
    <2> QED
      BY <1>1, <2>1, SupplierJoinedQuiet
  <1> QED
    BY <1>2, <1>3

\* A thread leaves the operator of its payload, or the function around it, and ends its
\* context.
LEMMA AbortCases ==
    ASSUME IInv, NEW t \in Thread, NEW pc \in {"func", "oper"}, At(t, "run", pc),
           NEW res \in {"none", "ready", "failed"}, NEW st \in {"exception", "cancelled"},
           Abort(t, res, st),
           \/ res = "failed" /\ st = "exception" /\ pc = "oper"
           \/ res = result[Top(t).op] /\ st = "cancelled" /\ closing
    PROVE  \E S, s : EndStep(S, s) /\ Shape'
  <1> DEFINE f == Top(t)
             c == f.op
  <1>1. /\ stack[t] # << >> /\ todo[t] = {}
        /\ TopAt(t) \in Places /\ FrameAt(TopAt(t)) = f
        /\ f \in Frame /\ f.kind = "run" /\ f.pc = pc /\ c \in Op
    BY InvShape, TopFrame
  <1>2. /\ result' = [result EXCEPT ![c] = res]
        /\ stack' = [stack EXCEPT ![t] = Goto(t, "end")]
        /\ UNCHANGED <<life, radio, tasks, closing>>
    BY DEF Abort
  <1>3. /\ Stacks' /\ \A u \in Thread : Len(stack'[u]) <= MaxDepth
        /\ Places' = Places
        /\ \A p \in Places' : p = TopAt(t) =>
               /\ FrameAt(p)'.kind = f.kind /\ FrameAt(p)'.op = c
               /\ FrameAt(p)'.pc = "end" /\ FrameAt(p)'.rest = f.rest
        /\ \A p \in Places' : p # TopAt(t) => Same(p)
    BY <1>1, <1>2, InvShape, GotoFrames DEF Pc, RunPc
  <1>4. /\ EndAll(Ending({c}), st) /\ Enqueue(Runnable(Ending({c}), st))
        /\ todo' = [todo EXCEPT ![t] = {} \cup EndItems(Ending({c}), st)]
    BY DEF Abort, OnEnd
  <1>5. {} \in SUBSET todo[t] /\ st \in Final
        /\ \A i \in todo[t] \ {} : i = Start \/ life[i.op] # "alive" \/ i.op = c
    BY <1>1 DEF Final
  <1>6. result' \in [Op -> {"none", "ready", "failed"}] /\ result'[c] = res
        /\ \A d \in Op : d # c => result'[d] = result[d]
    BY <1>1, <1>2, InvShape DEF Shape
  <1>7. status[c] \notin Final => EndCause(c, st)
    BY <1>1, <1>6, PlaceAlive DEF EndCause
  <1>8. \A d \in Op : result'[d] = result[d] \/ Fails(d)
    <2>1. CASE res = "failed" /\ pc = "oper"
      <3>1. \E p \in Places : FrameAt(p).op = c /\ FrameAt(p).kind = "run" /\ FrameAt(p).pc = "oper"
        BY <1>1, <2>1
      <3>2. Fails(c)
        BY <1>6, <2>1, <3>1 DEF Fails
      <3> QED
        BY <1>6, <3>2
    <2>2. CASE res = result[c]
      BY <1>6, <2>2
    <2> QED
      BY <2>1, <2>2
  <1>9. ASSUME NEW p \in Places', p = TopAt(t)
        PROVE  RunEnd(p)
    <2>1. result'[c] = "failed" \/ closing
      BY <1>6
    <2> QED
      BY <1>1, <1>3, <1>9, <2>1 DEF RunEnd
  <1>10. \A p \in Places' : p \in Places /\ (Same(p) \/ JoinMove(p) \/ RunEnd(p))
    BY <1>3, <1>9
  <1> HIDE DEF c
  <1>11. EndStep(Ending({c}), st) /\ Shape'
    BY <1>1, <1>2, <1>3, <1>4, <1>5, <1>6, <1>7, <1>8, <1>10, InvShape, EndOne
  <1> QED
    BY <1>11

\* The payload of a thread goes on to another place.
LEMMA RunGoto ==
    ASSUME IInv, NEW t \in Thread, NEW pc, At(t, "run", pc),
           NEW next \in RunPc, stack' = [stack EXCEPT ![t] = Goto(t, next)],
           UNCHANGED <<life, owned, graph, queues, radio, tasks, finished, asleep, todo,
                       closing>>,
           result' \in [Op -> {"none", "ready", "failed"}],
           hasFunc' \in [Op -> BOOLEAN], writeLock' \in [Op -> BOOLEAN]
    PROVE  /\ Shape'
           /\ TopAt(t) \in Places /\ FrameAt(TopAt(t)) = Top(t) /\ Places' = Places
           /\ \A p \in Places' : p = TopAt(t) =>
                 /\ FrameAt(p)'.kind = "run" /\ FrameAt(p)'.op = Top(t).op
                 /\ FrameAt(p)'.pc = next /\ FrameAt(p)'.rest = Top(t).rest
           /\ \A p \in Places' : p # TopAt(t) => Same(p)
  <1>1. /\ stack[t] # << >> /\ Top(t) \in Frame /\ Top(t).kind = "run"
        /\ TopAt(t) \in Places /\ FrameAt(TopAt(t)) = Top(t)
    BY InvShape, TopFrame
  <1>2. /\ Stacks' /\ \A u \in Thread : Len(stack'[u]) <= MaxDepth
        /\ Places' = Places
        /\ \A p \in Places' : p = TopAt(t) =>
               /\ FrameAt(p)'.kind = Top(t).kind /\ FrameAt(p)'.op = Top(t).op
               /\ FrameAt(p)'.pc = next /\ FrameAt(p)'.rest = Top(t).rest
        /\ \A p \in Places' : p # TopAt(t) => Same(p)
    BY <1>1, InvShape, GotoFrames DEF Pc
  <1>3. Shape'
    BY <1>2, InvShape DEF Shape, graph, queues
  <1> QED
    BY <1>1, <1>2, <1>3

LEMMA TakeTaskFuncCases ==
    ASSUME IInv, NEW t \in Thread, TakeTaskFunc(t)
    PROVE  \E p, c : RunMove(p, c) /\ Shape'
  <1> DEFINE c == Top(t).op
             next == IF hasFunc[c] THEN "func" ELSE "end"
  <1>1. At(t, "run", "start") /\ Top(t).pc = "start" /\ Top(t).kind = "run" /\ c \in Op
    BY InvShape, TopFrame DEF TakeTaskFunc
  <1>2. /\ hasFunc' = [hasFunc EXCEPT ![c] = FALSE]
        /\ stack' = [stack EXCEPT ![t] = Goto(t, next)]
        /\ UNCHANGED <<life, result, owned, writeLock, graph, queues, radio, tasks,
                       finished, asleep, todo, closing>>
    BY DEF TakeTaskFunc
  <1>3. next \in RunPc /\ hasFunc' \in [Op -> BOOLEAN]
        /\ result' \in [Op -> {"none", "ready", "failed"}] /\ writeLock' \in [Op -> BOOLEAN]
    BY <1>2, InvShape DEF RunPc, Shape
  <1> HIDE DEF next
  <1>4. /\ Shape'
        /\ TopAt(t) \in Places /\ FrameAt(TopAt(t)) = Top(t) /\ Places' = Places
        /\ \A p \in Places' : p = TopAt(t) =>
              /\ FrameAt(p)'.kind = "run" /\ FrameAt(p)'.op = Top(t).op
              /\ FrameAt(p)'.pc = next /\ FrameAt(p)'.rest = Top(t).rest
        /\ \A p \in Places' : p # TopAt(t) => Same(p)
    BY <1>1, <1>2, <1>3, RunGoto
  <1>5. \A p : p = TopAt(t) => RunMove(p, c)
    BY <1>1, <1>2, <1>4 DEF RunMove, next
  <1> QED
    BY <1>4, <1>5

LEMMA ReleaseCases ==
    ASSUME IInv, NEW t \in Thread, ReleaseWriteLock(t)
    PROVE  \E p, c : RunMove(p, c) /\ Shape'
  <1> DEFINE c == Top(t).op
  <1>1. At(t, "run", "end") /\ Top(t).pc = "end" /\ Top(t).kind = "run" /\ c \in Op
    BY InvShape, TopFrame DEF ReleaseWriteLock
  <1>2. /\ writeLock' = [writeLock EXCEPT ![c] = FALSE]
        /\ stack' = [stack EXCEPT ![t] = Goto(t, "cleanup")]
        /\ UNCHANGED <<life, result, owned, hasFunc, graph, queues, radio, tasks,
                       finished, asleep, todo, closing>>
    BY DEF ReleaseWriteLock
  <1>3. "cleanup" \in RunPc /\ hasFunc' \in [Op -> BOOLEAN]
        /\ result' \in [Op -> {"none", "ready", "failed"}] /\ writeLock' \in [Op -> BOOLEAN]
    BY <1>2, InvShape DEF RunPc, Shape
  <1>4. /\ Shape'
        /\ TopAt(t) \in Places /\ FrameAt(TopAt(t)) = Top(t) /\ Places' = Places
        /\ \A p \in Places' : p = TopAt(t) =>
              /\ FrameAt(p)'.kind = "run" /\ FrameAt(p)'.op = Top(t).op
              /\ FrameAt(p)'.pc = "cleanup" /\ FrameAt(p)'.rest = Top(t).rest
        /\ \A p \in Places' : p # TopAt(t) => Same(p)
    BY <1>1, <1>2, <1>3, RunGoto
  <1>5. \A p : p = TopAt(t) => RunMove(p, c)
    BY <1>1, <1>2, <1>4 DEF RunMove
  <1> QED
    BY <1>4, <1>5

LEMMA EnterOperatorCases ==
    ASSUME IInv, NEW t \in Thread, EnterOperator(t)
    PROVE  \/ \E p, c : RunMove(p, c) /\ Shape'
           \/ \E S, st : EndStep(S, st) /\ Shape'
  <1> DEFINE c == Top(t).op
             failed == ArgFails(c) \/ result[c] = "failed"
             Continue(pc) == /\ stack' = [stack EXCEPT ![t] = Goto(t, pc)]
                             /\ UNCHANGED <<life, owned, hasFunc, writeLock, graph,
                                    queues, radio, tasks, finished, asleep, todo, closing>>
  <1>1. /\ At(t, "run", "func") /\ Top(t).pc = "func" /\ Top(t).kind = "run" /\ c \in Op
        /\ TopAt(t) \in Places
    BY InvShape, TopFrame DEF EnterOperator
  <1>2. \/ ~ owned[c] /\ Continue("end") /\ UNCHANGED result
        \/ owned[c] /\ failed /\ Continue("end") /\ result' = [result EXCEPT ![c] = "failed"]
        \/ closing /\ Abort(t, result[c], "cancelled")
        \/ /\ owned[c] /\ ~ failed /\ ~ (closing /\ t # Meta)
           /\ \A a \in Args[c] : ~ writeLock[a]
           /\ Continue("oper") /\ UNCHANGED result
    BY DEF EnterOperator
  <1>3. "end" \in RunPc /\ "oper" \in RunPc
        /\ hasFunc \in [Op -> BOOLEAN] /\ writeLock \in [Op -> BOOLEAN]
        /\ result \in [Op -> {"none", "ready", "failed"}]
    BY InvShape DEF RunPc, Shape
  <1>4. ASSUME NEW next \in {"end", "oper"}, Continue(next),
               result' \in [Op -> {"none", "ready", "failed"}]
        PROVE  /\ Shape'
               /\ TopAt(t) \in Places /\ FrameAt(TopAt(t)) = Top(t) /\ Places' = Places
               /\ \A p \in Places' : p = TopAt(t) =>
                     /\ FrameAt(p)'.kind = "run" /\ FrameAt(p)'.op = Top(t).op
                     /\ FrameAt(p)'.pc = next /\ FrameAt(p)'.rest = Top(t).rest
               /\ \A p \in Places' : p # TopAt(t) => Same(p)
    BY ZenonT(60), <1>1, <1>3, <1>4, RunGoto
  <1>5. CASE ~ owned[c] /\ Continue("end") /\ UNCHANGED result
    <2>1. /\ Shape'
          /\ TopAt(t) \in Places /\ FrameAt(TopAt(t)) = Top(t) /\ Places' = Places
          /\ \A p \in Places' : p = TopAt(t) =>
                /\ FrameAt(p)'.kind = "run" /\ FrameAt(p)'.op = Top(t).op
                /\ FrameAt(p)'.pc = "end" /\ FrameAt(p)'.rest = Top(t).rest
          /\ \A p \in Places' : p # TopAt(t) => Same(p)
      BY <1>3, <1>4, <1>5
    <2>2. \A p : p = TopAt(t) => RunMove(p, c)
      BY <1>1, <1>5, <2>1 DEF RunMove
    <2> QED
      BY <2>1, <2>2
  <1>6. CASE owned[c] /\ failed /\ Continue("end") /\ result' = [result EXCEPT ![c] = "failed"]
    <2>1. result' \in [Op -> {"none", "ready", "failed"}]
      BY <1>3, <1>6
    <2>2. /\ Shape'
          /\ TopAt(t) \in Places /\ FrameAt(TopAt(t)) = Top(t) /\ Places' = Places
          /\ \A p \in Places' : p = TopAt(t) =>
                /\ FrameAt(p)'.kind = "run" /\ FrameAt(p)'.op = Top(t).op
                /\ FrameAt(p)'.pc = "end" /\ FrameAt(p)'.rest = Top(t).rest
          /\ \A p \in Places' : p # TopAt(t) => Same(p)
      BY <1>4, <1>6, <2>1
    <2>3. \A p : p = TopAt(t) => RunMove(p, c)
      BY <1>1, <1>6, <2>2 DEF RunMove
    <2> QED
      BY <2>2, <2>3
  <1>7. CASE closing /\ Abort(t, result[c], "cancelled")
    <2>1. result[c] \in {"none", "ready", "failed"}
      BY <1>1, <1>3
    <2> QED
      BY <1>1, <1>7, <2>1, AbortCases
  <1>8. CASE /\ owned[c] /\ ~ failed /\ ~ (closing /\ t # Meta)
             /\ \A a \in Args[c] : ~ writeLock[a]
             /\ Continue("oper") /\ UNCHANGED result
    <2>1. ~ closing
      <3>1. t = Meta => ~ closing
        BY <1>1, InvShape, NotClosing DEF TopAt
      <3> QED
        BY <1>8, <3>1
    <2>2. /\ Shape'
          /\ TopAt(t) \in Places /\ FrameAt(TopAt(t)) = Top(t) /\ Places' = Places
          /\ \A p \in Places' : p = TopAt(t) =>
                /\ FrameAt(p)'.kind = "run" /\ FrameAt(p)'.op = Top(t).op
                /\ FrameAt(p)'.pc = "oper" /\ FrameAt(p)'.rest = Top(t).rest
          /\ \A p \in Places' : p # TopAt(t) => Same(p)
      BY <1>3, <1>4, <1>8
    <2>3. \A a \in Args[c] : result[a] # "failed" /\ ~ writeLock[a]
      BY <1>8 DEF ArgFails
    <2>4. \A p : p = TopAt(t) => RunMove(p, c)
      BY <1>1, <1>8, <2>1, <2>2, <2>3 DEF RunMove
    <2> QED
      BY <2>2, <2>4
  <1> QED
    BY <1>2, <1>5, <1>6, <1>7, <1>8

LEMMA ReturnCases ==
    ASSUME IInv, NEW t \in Thread, ReturnOperator(t)
    PROVE  \/ \E p, c : RunMove(p, c) /\ Shape'
           \/ \E S, st : EndStep(S, st) /\ Shape'
  <1> DEFINE c == Top(t).op
  <1>1. /\ At(t, "run", "oper") /\ Top(t).pc = "oper" /\ Top(t).kind = "run" /\ c \in Op
        /\ TopAt(t) \in Places
    BY InvShape, TopFrame DEF ReturnOperator
  <1>2. \/ Abort(t, "failed", "exception")
        \/ /\ result' = [result EXCEPT ![c] = IF @ = "none" THEN "ready" ELSE @]
           /\ stack' = [stack EXCEPT ![t] = Goto(t, "end")]
           /\ UNCHANGED <<life, owned, hasFunc, writeLock, graph, queues, radio,
                          tasks, finished, asleep, todo, closing>>
    BY DEF ReturnOperator
  <1>3. CASE Abort(t, "failed", "exception")
    BY <1>1, <1>3, AbortCases
  <1>4. CASE /\ result' = [result EXCEPT ![c] = IF @ = "none" THEN "ready" ELSE @]
             /\ stack' = [stack EXCEPT ![t] = Goto(t, "end")]
             /\ UNCHANGED <<life, owned, hasFunc, writeLock, graph, queues, radio,
                            tasks, finished, asleep, todo, closing>>
    <2>1. "end" \in RunPc /\ hasFunc' \in [Op -> BOOLEAN]
          /\ result' \in [Op -> {"none", "ready", "failed"}] /\ writeLock' \in [Op -> BOOLEAN]
      BY <1>4, InvShape DEF RunPc, Shape
    <2>2. /\ Shape'
          /\ TopAt(t) \in Places /\ FrameAt(TopAt(t)) = Top(t) /\ Places' = Places
          /\ \A p \in Places' : p = TopAt(t) =>
                /\ FrameAt(p)'.kind = "run" /\ FrameAt(p)'.op = Top(t).op
                /\ FrameAt(p)'.pc = "end" /\ FrameAt(p)'.rest = Top(t).rest
          /\ \A p \in Places' : p # TopAt(t) => Same(p)
      BY <1>1, <1>4, <2>1, RunGoto
    <2>3. \A p : p = TopAt(t) => RunMove(p, c)
      BY <1>1, <1>4, <2>2 DEF RunMove
    <2> QED
      BY <2>2, <2>3
  <1> QED
    BY <1>2, <1>3, <1>4

LEMMA JoinReadCases ==
    ASSUME IInv, NEW t \in Thread, NEW c \in Op, JoinRead(t, c)
    PROVE  \/ QuietStep /\ Shape'
           \/ \E S, st : EndStep(S, st) /\ Shape'
  <1>1. At(t, "run", "oper") /\ life[c] = "alive"
    BY DEF JoinRead
  <1>2. CASE Abort(t, "failed", "exception")
    BY <1>1, <1>2, AbortCases
  <1>3. CASE /\ Room(t, 1)
             /\ stack' = [stack EXCEPT ![t] = Push(@, NewFrame("join", c, "loop", TRUE))]
             /\ UNCHANGED <<context, graph, queues, radio, tasks, finished, asleep,
                            todo, closing>>
    BY <1>1, <1>3, JoinReadQuiet
  <1> QED
    BY <1>2, <1>3 DEF JoinRead

LEMMA FailCases ==
    ASSUME IInv, NEW t \in Thread, FailOperator(t) \/ CancelOperator(t)
    PROVE  \E S, st : EndStep(S, st) /\ Shape'
  <1>1. At(t, "run", "oper") /\ Top(t).op \in Op
    BY InvShape, TopFrame DEF FailOperator, CancelOperator
  <1>2. CASE FailOperator(t)
    BY <1>1, <1>2, AbortCases DEF FailOperator
  <1>3. CASE CancelOperator(t)
    <2>1. result[Top(t).op] \in {"none", "ready", "failed"}
      BY <1>1, InvShape DEF Shape
    <2> QED
      BY <1>1, <1>3, <2>1, AbortCases DEF CancelOperator
  <1> QED
    BY <1>2, <1>3

LEMMA CleanupCases ==
    ASSUME IInv, NEW t \in Thread, Cleanup(t)
    PROVE  \E S, st : EndStep(S, st) /\ Shape'
  <1> DEFINE f == Top(t)
             c == f.op
             st == IF result[c] = "failed" THEN "exception" ELSE "done"
  <1>1. /\ stack[t] # << >> /\ todo[t] = {}
        /\ TopAt(t) \in Places /\ FrameAt(TopAt(t)) = f
        /\ f \in Frame /\ f.kind = "run" /\ f.pc = "cleanup" /\ c \in Op
    BY InvShape, TopFrame DEF Cleanup
  <1>2. /\ OnEnd(t, c, st, {})
        /\ stack' = [stack EXCEPT ![t] = Pop(@)]
        /\ UNCHANGED <<life, result, radio, tasks, closing>>
    BY DEF Cleanup
  <1>3. /\ Stacks' /\ \A u \in Thread : Len(stack'[u]) <= MaxDepth
        /\ Places' = Places \ {TopAt(t)}
        /\ \A p \in Places' : Same(p)
    BY <1>1, <1>2, InvShape, PopFrames
  <1>4. /\ EndAll(Ending({c}), st) /\ Enqueue(Runnable(Ending({c}), st))
        /\ todo' = [todo EXCEPT ![t] = {} \cup EndItems(Ending({c}), st)]
    BY <1>2 DEF OnEnd
  <1>5. {} \in SUBSET todo[t] /\ st \in Final
        /\ \A i \in todo[t] \ {} : i = Start \/ life[i.op] # "alive" \/ i.op = c
    BY <1>1 DEF Final
  <1>6. status[c] \notin Final => EndCause(c, st)
    <2>1. TopAt(t) \in Places \ Places'
      BY <1>1, <1>3
    <2>2. result' = result
      BY <1>2
    <2> QED
      BY <1>1, <2>1, <2>2, PlaceAlive DEF EndCause
  <1>7. \A d \in Op : result'[d] = result[d] \/ Fails(d)
    BY <1>2
  <1>8. result' \in [Op -> {"none", "ready", "failed"}]
    BY <1>2, InvShape DEF Shape
  <1>9. \A p \in Places' : p \in Places /\ (Same(p) \/ JoinMove(p) \/ RunEnd(p))
    BY <1>3
  <1> HIDE DEF c, st
  <1>10. EndStep(Ending({c}), st) /\ Shape'
    BY <1>1, <1>2, <1>3, <1>4, <1>5, <1>6, <1>7, <1>8, <1>9, InvShape, EndOne
  <1> QED
    BY <1>10

-----------------------------------------------------------------------------
(* Every step *)

ClassifiedStep ==
    \/ QuietStep
    \/ \E R, B : LicenseStep(R, B)
    \/ \E X : ActivateStep(X)
    \/ \E S, st : EndStep(S, st)
    \/ \E p, c : RunMove(p, c)
    \/ \E c : BeginStep(c)
    \/ \E p, c, S : ConnectStep(p, c, S)
    \/ \E p, c : QueueStep(p, c)
    \/ \E p, c : DirectRunStep(p, c)
    \/ \E t, i, c : FailStep(t, i, c)
    \/ \E c \in Op : StopInterest(c)
    \/ \E t \in Thread, c \in Op : Expire(t, c)
    \/ Close

LEMMA OtherShapes ==
    ASSUME IInv,
           \/ \E c \in Op : StopInterest(c)
           \/ \E t \in Thread, c \in Op : Expire(t, c)
           \/ Close
    PROVE  Shape'
  <1>1. CASE \E c \in Op : StopInterest(c)
    <2>1. owned' \in [Op -> BOOLEAN]
      BY <1>1, InvShape DEF StopInterest, Shape
    <2> QED
      BY <1>1, <2>1, InvShape DEF StopInterest, Shape, Stacks, graph, queues
  <1>2. CASE \E t \in Thread, c \in Op : Expire(t, c)
    <2>1. PICK t \in Thread, c \in Op : Expire(t, c)
      BY <1>2
    <2>2. life' \in [Op -> {"new", "alive", "dead"}]
      BY <2>1, InvShape DEF Expire, Shape
    <2>3. todo' \in [Thread -> SUBSET Item]
      <3>1. todo[t] \cup {[do |-> "destroy", op |-> c]} \in SUBSET Item
        BY CallIsItem, InvShape DEF Shape
      <3> QED
        BY <2>1, <3>1, InvShape, TodoStep DEF Expire
    <2> QED
      BY <2>1, <2>2, <2>3, InvShape DEF Expire, Shape, Stacks, graph, queues
  <1>3. CASE Close
    BY <1>3, InvShape DEF Close, Shape, Stacks, graph, queues, context
  <1> QED
    BY <1>1, <1>2, <1>3

LEMMA IdleQuiet ==
    ASSUME IInv, UNCHANGED vars PROVE QuietStep /\ Shape'
  <1>1. \A p \in Places' : Same(p)
    BY StillFrames DEF vars
  <1>2. QuietStep
    BY <1>1 DEF QuietStep, TodoQuiet, vars, context, graph, queues
  <1>3. Shape'
    BY InvShape DEF Shape, Stacks, vars
  <1> QED
    BY <1>2, <1>3

LEMMA StepCases ==
    ASSUME IInv, [Next]_vars PROVE ClassifiedStep /\ Shape'
  <1>1. CASE \E c \in Op : Begin(c)
    BY <1>1, BeginCases DEF ClassifiedStep
  <1>2. CASE ScheduleStep
    <2>1. CASE EndFence
      BY <2>1, EndFenceQuiet DEF ClassifiedStep
    <2>2. CASE Connect
      BY <2>2, ConnectCases DEF ClassifiedStep
    <2>3. CASE Schedule
      BY <2>3, ScheduleCases DEF ClassifiedStep
    <2>4. CASE \E s \in Op : JoinSupplier(s)
      BY <2>4, JoinSupplierQuiet DEF ClassifiedStep
    <2>5. CASE SupplierJoined
      BY <2>5, SupplierJoinedCases DEF ClassifiedStep
    <2>6. CASE SuspendDirect
      BY <2>6, SuspendDirectQuiet DEF ClassifiedStep
    <2>7. CASE RunDirect
      BY <2>7, RunDirectCases DEF ClassifiedStep
    <2> QED
      BY <1>2, <2>1, <2>2, <2>3, <2>4, <2>5, <2>6, <2>7 DEF ScheduleStep
  <1>3. CASE \E c \in Op, silent \in BOOLEAN : Join(c, silent)
    BY <1>3, JoinQuiet DEF ClassifiedStep
  <1>4. CASE DoWorkWhileWaiting
    BY <1>4, DoWorkCases DEF ClassifiedStep
  <1>5. ASSUME NEW t \in Thread, JoinStep(t)
        PROVE  ClassifiedStep /\ Shape'
    <2>1. CASE JoinLoop(t)
      BY <2>1, JoinLoopQuiet DEF ClassifiedStep
    <2>2. CASE JoinInline(t)
      BY <2>2, JoinInlineCases DEF ClassifiedStep
    <2>3. CASE JoinCollect(t)
      BY <2>3, JoinCollectCases DEF ClassifiedStep
    <2>4. CASE StealOneTask(t)
      BY <2>4, StealCases DEF ClassifiedStep
    <2>5. CASE JoinCheck(t)
      BY <2>5, JoinCheckQuiet DEF ClassifiedStep
    <2>6. CASE JoinWait(t)
      BY <2>6, JoinWaitQuiet DEF ClassifiedStep
    <2> QED
      BY <1>5, <2>1, <2>2, <2>3, <2>4, <2>5, <2>6 DEF JoinStep
  <1>6. ASSUME NEW t \in Thread, RunStep(t)
        PROVE  ClassifiedStep /\ Shape'
    <2>1. CASE TakeTaskFunc(t)
      BY <2>1, TakeTaskFuncCases DEF ClassifiedStep
    <2>2. CASE EnterOperator(t)
      BY <2>2, EnterOperatorCases DEF ClassifiedStep
    <2>3. CASE ReturnOperator(t)
      BY <2>3, ReturnCases DEF ClassifiedStep
    <2>4. CASE FailOperator(t) \/ CancelOperator(t)
      BY <2>4, FailCases DEF ClassifiedStep
    <2>5. CASE ReleaseWriteLock(t)
      BY <2>5, ReleaseCases DEF ClassifiedStep
    <2>6. CASE Cleanup(t)
      BY <2>6, CleanupCases DEF ClassifiedStep
    <2> QED
      BY <1>6, <2>1, <2>2, <2>3, <2>4, <2>5, <2>6 DEF RunStep
  <1>7. ASSUME NEW t \in Thread, Timeout(t)
        PROVE  ClassifiedStep /\ Shape'
    BY <1>7, TimeoutQuiet DEF ClassifiedStep
  <1>8. ASSUME NEW t \in Thread, NEW c \in Op, JoinRead(t, c)
        PROVE  ClassifiedStep /\ Shape'
    BY <1>8, JoinReadCases DEF ClassifiedStep
  <1>9. ASSUME NEW t \in Thread, NEW c \in Op, RunTask(t, c)
        PROVE  ClassifiedStep /\ Shape'
    BY <1>9, RunTaskCases DEF ClassifiedStep
  <1>10. ASSUME NEW t \in Thread, NEW i \in todo[t], Dispose(t, i)
         PROVE  ClassifiedStep /\ Shape'
    BY <1>10, DisposeCases DEF ClassifiedStep
  <1>11. CASE \/ \E c \in Op : StopInterest(c)
              \/ \E t \in Thread, c \in Op : Expire(t, c)
              \/ Close
    BY <1>11, OtherShapes DEF ClassifiedStep
  <1>12. CASE UNCHANGED vars
    BY <1>12, IdleQuiet DEF ClassifiedStep
  <1> QED
    BY <1>1, <1>2, <1>3, <1>4, <1>5, <1>6, <1>7, <1>8, <1>9, <1>10, <1>11, <1>12 DEF Next

=============================================================================
