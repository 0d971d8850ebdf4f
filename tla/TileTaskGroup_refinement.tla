---------------------- MODULE TileTaskGroup_refinement ----------------------
(***************************************************************************)
(* The ticket dispenser implements TileLoop, and its accounts are those of  *)
(* the threads: every outstanding ticket is in a thread's hands.            *)
(***************************************************************************)
EXTENDS TileTaskGroup_proofs

-----------------------------------------------------------------------------
(* Which frames there are *)

LEMMA FrameIs ==
    ASSUME NEW f \in Frame
    PROVE  f = [g |-> f.g, i |-> f.i, pc |-> f.pc]
  BY DEF Frame

\* The innermost frame of t is replaced by f.
LEMMA MoveOccurs ==
    ASSUME TypeOK, NEW t \in Thread, NEW f \in Frame, stack[t] # << >>,
           stack' = [stack EXCEPT ![t] = SetTop(@, f)]
    PROVE  /\ Occurs(f)'
           /\ \A h : Occurs(h)' => Occurs(h) \/ h = f
           /\ \A h : Occurs(h) => Occurs(h)' \/ h = Top(t)
  <1>1. stack[t] \in Seq(Frame)
    BY DEF TypeOK
  <1>2. Len(stack[t]) \in 1 .. Len(stack[t])
    BY <1>1, EmptySeq, LenProperties
  <1>3. /\ SetTop(stack[t], f) \in Seq(Frame)
        /\ Len(SetTop(stack[t], f)) = Len(stack[t])
        /\ \A k \in 1 .. Len(stack[t]) - 1 : SetTop(stack[t], f)[k] = stack[t][k]
        /\ SetTop(stack[t], f)[Len(stack[t])] = f
    BY <1>1, SetTopProperties
  <1>4. /\ stack'[t] = SetTop(stack[t], f)
        /\ \A u \in Thread : u # t => stack'[u] = stack[u]
    BY <1>3, StackStep
  <1>5. \A k \in 1 .. Len(stack[t]) : k \in 1 .. Len(stack[t]) - 1 \/ k = Len(stack[t])
    BY <1>2
  <1> QED
    BY <1>2, <1>3, <1>4, <1>5 DEF Occurs, Top

LEMMA PushOccurs ==
    ASSUME TypeOK, NEW t \in Thread, NEW f \in Frame,
           stack' = [stack EXCEPT ![t] = Push(@, f)]
    PROVE  \A h : Occurs(h)' <=> Occurs(h) \/ h = f
  <1> DEFINE n == Len(stack[t])
  <1>1. /\ n \in Nat
        /\ \A u \in Thread : Len(stack'[u]) = IF u = t THEN n + 1 ELSE Len(stack[u])
        /\ \A u \in Thread : \A k \in 1 .. Len(stack[u]) : stack'[u][k] = stack[u][k]
        /\ stack'[t][n + 1] = f
    BY PushStep
  <1>2. \A k \in 1 .. n + 1 : k \in 1 .. n \/ k = n + 1
    BY <1>1
  <1>3. n + 1 \in 1 .. n + 1 /\ 1 .. n \subseteq 1 .. n + 1
    BY <1>1
  <1> QED
    BY <1>1, <1>2, <1>3 DEF Occurs

\* The innermost frame of t becomes w, and f is entered.
LEMMA EnterOccurs ==
    ASSUME TypeOK, NEW t \in Thread, NEW w \in Frame, NEW f \in Frame, stack[t] # << >>,
           stack' = [stack EXCEPT ![t] = Push(SetTop(@, w), f)]
    PROVE  /\ Occurs(w)' /\ Occurs(f)'
           /\ \A h : Occurs(h)' => Occurs(h) \/ h \in {w, f}
           /\ \A h : Occurs(h) => Occurs(h)' \/ h = Top(t)
  <1> DEFINE n == Len(stack[t])
  <1>1. /\ \A u \in Thread : Len(stack'[u]) = IF u = t THEN n + 1 ELSE Len(stack[u])
        /\ \A u \in Thread : \A k \in 1 .. Len(stack[u]) :
             ~ (u = t /\ k = n) => stack'[u][k] = stack[u][k]
        /\ stack'[t][n] = w /\ stack'[t][n + 1] = f
    BY EnterStep
  <1>2. n \in Nat \ {0}
    BY EmptySeq DEF TypeOK
  <1>3. \A k \in 1 .. n + 1 : k \in 1 .. n \/ k = n + 1
    BY <1>2
  <1>4. n \in 1 .. n + 1 /\ n + 1 \in 1 .. n + 1 /\ 1 .. n \subseteq 1 .. n + 1
    BY <1>2
  <1> QED
    BY <1>1, <1>3, <1>4 DEF Occurs, Top

LEMMA PopOccurs ==
    ASSUME TypeOK, NEW t \in Thread, stack[t] # << >>,
           stack' = [stack EXCEPT ![t] = Pop(@)]
    PROVE  /\ \A h : Occurs(h)' => Occurs(h)
           /\ \A h : Occurs(h) => Occurs(h)' \/ h = Top(t)
  <1> DEFINE n == Len(stack[t])
  <1>1. /\ n \in Nat \ {0}
        /\ \A u \in Thread : Len(stack'[u]) = IF u = t THEN n - 1 ELSE Len(stack[u])
        /\ \A u \in Thread : \A k \in 1 .. Len(stack'[u]) : stack'[u][k] = stack[u][k]
    BY PopStep
  <1>2. \A k \in 1 .. n : k \in 1 .. n - 1 \/ k = n
    BY <1>1
  <1>3. 1 .. n - 1 \subseteq 1 .. n
    BY <1>1
  <1> QED
    BY SMTT(30), <1>1, <1>2, <1>3 DEF Occurs, Top

\* Where the threads are does not change when the stacks do not.
LEMMA StillOccurs ==
    ASSUME UNCHANGED stack PROVE \A h : Occurs(h)' <=> Occurs(h)
  BY DEF Occurs

-----------------------------------------------------------------------------
(* Tickets in the hands of threads *)

\* The group of the innermost frame of t, whose slot is outstanding.
LEMMA TopTicket ==
    ASSUME IInv, NEW t \in Thread, NEW pcs, TopPc(t, pcs)
    PROVE  /\ TypeOK /\ stack[t] # << >> /\ Occurs(Top(t)) /\ Top(t) \in Frame
           /\ Top(t).g \in alive /\ Top(t).g \in Group /\ Top(t).i \in Nat
           /\ Top(t).pc \in pcs
           /\ Top(t).pc \in WorkPc => Top(t).i \in grp[Top(t).g].busy
           /\ grp[Top(t).g] \in Fields /\ Accounts(grp[Top(t).g])
  <1>1. TypeOK /\ FrameInv /\ GroupInv
    BY DEF IInv
  <1>2. /\ Top(t) = stack[t][Len(stack[t])] /\ Len(stack[t]) \in Nat \ {0}
        /\ stack[t] # << >> /\ Top(t) \in Frame /\ Top(t).g \in Group /\ Top(t).i \in Nat
        /\ Top(t).pc \in pcs
    BY <1>1, TopFrame
  <1>3. Len(stack[t]) \in 1 .. Len(stack[t])
    BY <1>2
  <1>4. Occurs(Top(t))
    BY <1>2, <1>3 DEF Occurs
  <1>5. Top(t).g \in alive /\ (Top(t).pc \in WorkPc => Top(t).i \in grp[Top(t).g].busy)
    BY <1>1, <1>2, <1>3 DEF FrameInv
  <1>6. grp[Top(t).g] \in Fields
    BY <1>1, <1>2 DEF TypeOK
  <1>7. Accounts(grp[Top(t).g])
    BY <1>1, <1>5 DEF GroupInv
  <1> QED
    BY <1>1, <1>2, <1>4, <1>5, <1>6, <1>7

\* The tickets stay held when the frames of other tickets stay, and those that are
\* outstanding for the first time are in a frame.
LEMMA HeldKept ==
    ASSUME IInv, TicketsHeld, alive' \subseteq alive,
           NEW g \in Group, NEW f,
           \A h : Occurs(h) => Occurs(h)' \/ h = f,
           \A b \in alive' : b # g => grp'[b] = grp[b],
           f \in Frame,
           f.pc \in WorkPc => f.g = g /\ (f.i \in grp'[g].busy => Held(g, f.i)'),
           g \in alive' => \A i \in grp'[g].busy : i \in grp[g].busy \/ Held(g, i)'
    PROVE  TicketsHeld'
  <1> SUFFICES ASSUME NEW b \in alive', NEW i \in grp'[b].busy
               PROVE  Held(b, i)'
    BY DEF TicketsHeld
  <1>1. CASE i \in grp[b].busy
    <2>1. Held(b, i)
      BY <1>1 DEF TicketsHeld
    <2>2. PICK pc \in WorkPc : Occurs([g |-> b, i |-> i, pc |-> pc])
      BY <2>1 DEF Held
    <2>3. CASE Occurs([g |-> b, i |-> i, pc |-> pc])'
      BY <2>3 DEF Held
    <2>4. CASE f = [g |-> b, i |-> i, pc |-> pc]
      <3>1. f.pc = pc /\ f.g = b /\ f.i = i
        BY <2>4
      <3>2. b = g /\ Held(g, i)'
        BY <2>2, <3>1
      <3> QED
        BY <3>2
    <2> QED
      BY <2>2, <2>3, <2>4
  <1>2. CASE i \notin grp[b].busy
    <2>1. b = g
      BY <1>2
    <2> QED
      BY <1>2, <2>1
  <1> QED
    BY <1>1, <1>2

-----------------------------------------------------------------------------
(* What a step means to TileLoop *)

Joined(g) == \E h : Occurs(h) /\ h.g = g /\ h.pc = "joined"
Pending(g) == grp[g].commissioned .. grp[g].last - 1

AbsPhase == [g \in Group |-> PhaseOf(g)]
AbsPending == [g \in Group |-> Pending(g)]
AbsBusy == [g \in Group |-> grp[g].busy]
AbsDone == [g \in Group |-> grp[g].completedWork]
AbsVars == <<AbsPhase, AbsPending, AbsBusy, AbsDone>>
AbsStep == Abstract!Next \/ UNCHANGED AbsVars

\* A step keeps the tickets and the fields accounted for and is one of TileLoop.
Effects == TicketsHeld' /\ FieldsInv' /\ AbsStep

LEMMA PhaseIs ==
    ASSUME NEW g \in Group
    PROVE  /\ PhaseOf(g) = IF g \notin alive THEN "idle"
                           ELSE IF Joined(g) THEN "returned" ELSE "open"
           /\ PhaseOf(g)' = IF g \notin alive' THEN "idle"
                            ELSE IF Joined(g)' THEN "returned" ELSE "open"
  BY DEF PhaseOf, Joined, Occurs

LEMMA PhasesKept ==
    ASSUME alive' = alive, \A g : Joined(g)' <=> Joined(g)
    PROVE  AbsPhase' = AbsPhase
  BY PhaseIs DEF AbsPhase

LEMMA StutterEffect ==
    ASSUME LoopInv, UNCHANGED <<alive, grp>>, \A g : Joined(g)' <=> Joined(g)
    PROVE  FieldsInv' /\ AbsStep
  <1>1. AbsPhase' = AbsPhase
    BY PhasesKept
  <1>2. UNCHANGED AbsVars
    BY <1>1 DEF AbsVars, AbsPending, AbsBusy, AbsDone, Pending
  <1>3. FieldsInv'
    BY DEF LoopInv, FieldsInv
  <1> QED
    BY <1>2, <1>3 DEF AbsStep

LEMMA FieldsKept ==
    ASSUME LoopInv, NEW g \in alive, NEW r \in Fields, r.last = grp[g].last,
           grp' = [grp EXCEPT ![g] = r], alive' = alive
    PROVE  FieldsInv'
  BY DEF LoopInv, IInv, TypeOK, FieldsInv

\* Slots are numbered below MaxLast.
LEMMA SlotsBounded ==
    ASSUME LoopInv, NEW g \in alive
    PROVE  /\ grp[g].busy \subseteq 0 .. MaxLast - 1
           /\ Pending(g) \subseteq 0 .. MaxLast - 1
  <1>1. g \in Group /\ grp[g] \in Fields /\ Accounts(grp[g]) /\ grp[g].last <= MaxLast
    BY DEF LoopInv, IInv, TypeOK, GroupInv, FieldsInv
  <1>2. grp[g].commissioned \in Nat /\ grp[g].last \in Nat /\ MaxLast \in Nat
    BY <1>1, TileAssumption DEF Fields
  <1>3. grp[g].busy \subseteq 0 .. grp[g].commissioned - 1 /\ grp[g].commissioned <= grp[g].last
    BY <1>1 DEF Accounts
  <1> QED
    BY <1>1, <1>2, <1>3 DEF Pending

\* Slots are completed and tickets taken.
LEMMA WorkEffect ==
    ASSUME LoopInv, NEW g \in alive, NEW r \in Fields, r.last = grp[g].last,
           grp' = [grp EXCEPT ![g] = r], alive' = alive,
           \A b : Joined(b)' <=> Joined(b),
           NEW finished \in SUBSET grp[g].busy, NEW taken \in SUBSET Pending(g),
           r.commissioned .. r.last - 1 = Pending(g) \ taken,
           r.busy = (grp[g].busy \ finished) \cup taken,
           r.completedWork = grp[g].completedWork \cup finished
    PROVE  FieldsInv' /\ AbsStep
  <1>1. g \in Group /\ grp \in [Group -> Fields]
    BY DEF LoopInv, IInv, TypeOK
  <1>2. AbsPhase' = AbsPhase
    BY PhasesKept
  <1>3. /\ AbsPending' = [AbsPending EXCEPT ![g] = @ \ taken]
        /\ AbsBusy' = [AbsBusy EXCEPT ![g] = (@ \ finished) \cup taken]
        /\ AbsDone' = [AbsDone EXCEPT ![g] = @ \cup finished]
    BY <1>1 DEF AbsPending, AbsBusy, AbsDone, Pending
  <1>4. finished \subseteq AbsBusy[g] /\ taken \subseteq AbsPending[g]
    BY <1>1 DEF AbsBusy, AbsPending
  <1>5. Abstract!Work(g, finished, taken)
    BY <1>2, <1>3, <1>4 DEF Abstract!Work, AbsPhase, AbsPending, AbsBusy, AbsDone, Pending
  <1>6. finished \in SUBSET (0 .. MaxLast - 1) /\ taken \in SUBSET (0 .. MaxLast - 1)
    BY SlotsBounded
  <1>7. FieldsInv'
    BY FieldsKept
  <1> QED
    BY <1>1, <1>5, <1>6, <1>7 DEF AbsStep, Abstract!Next

\* Slots have failed, or the owner has given up.
LEMMA GiveUpEffect ==
    ASSUME LoopInv, NEW g \in alive, NEW r \in Fields, r.last = grp[g].last,
           grp' = [grp EXCEPT ![g] = r], alive' = alive,
           \A b : Joined(b)' <=> Joined(b),
           NEW failed \in SUBSET grp[g].busy,
           r.commissioned .. r.last - 1 = {},
           r.busy = grp[g].busy \ failed,
           r.completedWork = grp[g].completedWork
    PROVE  FieldsInv' /\ AbsStep
  <1>1. g \in Group /\ grp \in [Group -> Fields]
    BY DEF LoopInv, IInv, TypeOK
  <1>2. AbsPhase' = AbsPhase
    BY PhasesKept
  <1>3. /\ AbsPending' = [AbsPending EXCEPT ![g] = {}]
        /\ AbsBusy' = [AbsBusy EXCEPT ![g] = @ \ failed]
        /\ AbsDone' = AbsDone
    BY <1>1 DEF AbsPending, AbsBusy, AbsDone, Pending
  <1>4. failed \subseteq AbsBusy[g]
    BY <1>1 DEF AbsBusy
  <1>5. Abstract!GiveUp(g, failed)
    BY <1>2, <1>3, <1>4 DEF Abstract!GiveUp, AbsPhase, AbsPending, AbsBusy, AbsDone, Pending
  <1>6. failed \in SUBSET (0 .. MaxLast - 1)
    BY SlotsBounded
  <1>7. FieldsInv'
    BY FieldsKept
  <1> QED
    BY <1>1, <1>5, <1>6, <1>7 DEF AbsStep, Abstract!Next

-----------------------------------------------------------------------------
(* Every action is a step of TileLoop, or none *)

\* Taking a ticket takes the lowest pending slot.
LEMMA TakeLowest ==
    ASSUME NEW r \in Fields, HasTicket(r)
    PROVE  /\ r.commissioned \in r.commissioned .. r.last - 1
           /\ TakeTicket(r).commissioned .. TakeTicket(r).last - 1
                = (r.commissioned .. r.last - 1) \ {r.commissioned}
  <1>1. r.commissioned \in Nat /\ r.last \in Nat /\ r.commissioned < r.last
    BY DEF Fields, HasTicket
  <1>2. TakeTicket(r).commissioned = r.commissioned + 1 /\ TakeTicket(r).last = r.last
    BY TakeTicketProperties
  <1> QED
    BY <1>1, <1>2

LEMMA NoTicketNoPending ==
    ASSUME NEW r \in Fields, ~ HasTicket(r) PROVE r.commissioned .. r.last - 1 = {}
  <1>1. r.commissioned \in Nat /\ r.last \in Nat /\ r.commissioned >= r.last
    BY DEF Fields, HasTicket
  <1> QED
    BY <1>1

LEMMA WorkFrameIs ==
    ASSUME NEW g \in Group, NEW i \in Nat
    PROVE  /\ WorkFrame(g, i) \in Frame /\ WorkFrame(g, i).pc = "check"
           /\ WorkFrame(g, i).g = g /\ WorkFrame(g, i).i = i
           /\ Occurs(WorkFrame(g, i)) => Held(g, i)
  BY DEF WorkFrame, Frame, WorkPc, Held

LEMMA SlotStartEffect ==
    ASSUME LoopInv, NEW t \in Thread, SlotStart(t) PROVE Effects
  <1>0. PICK f, w : f = Top(t) /\ w = AtPc(f, "run")
    OBVIOUS
  <1>1. /\ TopPc(t, {"check"}) /\ UNCHANGED <<alive, grp>>
        /\ stack' = [stack EXCEPT ![t] = SetTop(@, w)]
    BY <1>0 DEF SlotStart
  <1>2. /\ IInv /\ TypeOK /\ stack[t] # << >> /\ f \in Frame /\ f.pc = "check"
        /\ f.g \in Group /\ f.i \in Nat
    BY <1>0, <1>1, TopTicket DEF LoopInv
  <1>3. w \in Frame /\ w.g = f.g /\ w.i = f.i /\ w.pc = "run"
    BY <1>0, <1>2, AtPcProperties DEF WorkPc
  <1>4. /\ Occurs(w)'
        /\ \A h : Occurs(h)' => Occurs(h) \/ h = w
        /\ \A h : Occurs(h) => Occurs(h)' \/ h = f
    BY <1>0, <1>1, <1>2, <1>3, MoveOccurs
  <1>5. \A g : Joined(g)' <=> Joined(g)
    BY <1>2, <1>3, <1>4 DEF Joined
  <1>6. Held(f.g, f.i)'
    <2>1. w = [g |-> f.g, i |-> f.i, pc |-> "run"]
      BY <1>3, FrameIs
    <2> QED
      BY <1>4, <2>1 DEF Held, WorkPc
  <1>7. TicketsHeld'
    BY <1>1, <1>2, <1>4, <1>6, HeldKept DEF LoopInv, TypeOK
  <1> QED
    BY <1>1, <1>5, <1>7, StutterEffect DEF Effects

LEMMA SlotReturnEffect ==
    ASSUME LoopInv, NEW t \in Thread, NEW suspend, SlotReturn(t, suspend) PROVE Effects
  <1>0. PICK f, g, i, r, next, w :
          /\ f = Top(t) /\ g = f.g /\ i = f.i /\ r = RegisterCompletion(grp[g], i)
          /\ next = TakeTicket(r) /\ w = WorkFrame(g, r.commissioned)
    OBVIOUS
  <1> DEFINE more == r.nrCompleted # r.last /\ HasTicket(r) /\ ~ suspend
  <1>1. /\ TopPc(t, {"run"}) /\ alive' = alive
        /\ IF more THEN /\ grp' = [grp EXCEPT ![g] = next]
                        /\ stack' = [stack EXCEPT ![t] = SetTop(@, w)]
           ELSE /\ grp' = [grp EXCEPT ![g] = r]
                /\ stack' = [stack EXCEPT ![t] = Pop(@)]
    BY <1>0 DEF SlotReturn
  <1>2. /\ IInv /\ TicketsHeld /\ TypeOK /\ stack[t] # << >> /\ f \in Frame /\ f.pc = "run"
        /\ g \in Group /\ g \in alive /\ i \in Nat /\ i \in grp[g].busy
        /\ grp[g] \in Fields /\ Accounts(grp[g]) /\ grp \in [Group -> Fields]
    BY <1>0, <1>1, TopTicket DEF LoopInv, WorkPc, TypeOK
  <1>3. /\ r \in Fields /\ r.last = grp[g].last /\ r.commissioned = grp[g].commissioned
        /\ r.busy = grp[g].busy \ {i} /\ r.completedWork = grp[g].completedWork \cup {i}
        /\ r.commissioned \in Nat
    BY ZenonT(60), <1>0, <1>2, RegisterCompletionProperties DEF Fields
  <1>4. CASE ~ more
    <2>1. grp' = [grp EXCEPT ![g] = r] /\ stack' = [stack EXCEPT ![t] = Pop(@)]
      BY <1>1, <1>4
    <2> HIDE DEF more
    <2>2. /\ \A h : Occurs(h)' => Occurs(h)
          /\ \A h : Occurs(h) => Occurs(h)' \/ h = f
      BY <1>0, <1>2, <2>1, PopOccurs
    <2>3. \A b : Joined(b)' <=> Joined(b)
      BY <1>2, <2>2 DEF Joined
    <2>4. grp'[g] = r /\ \A b \in alive' : b # g => grp'[b] = grp[b]
      BY <1>1, <1>2, <2>1 DEF TypeOK
    <2>5. TicketsHeld'
      BY <1>0, <1>1, <1>2, <1>3, <2>2, <2>4, HeldKept
    <2>6. FieldsInv' /\ AbsStep
      <3>1. Pending(g) = r.commissioned .. r.last - 1
        BY <1>3 DEF Pending
      <3>2. {i} \in SUBSET grp[g].busy /\ {} \in SUBSET Pending(g)
        BY <1>2
      <3>3. /\ r.commissioned .. r.last - 1 = Pending(g) \ {}
            /\ r.busy = (grp[g].busy \ {i}) \cup {}
        BY <1>3, <3>1
      <3> QED
        BY <1>1, <1>2, <1>3, <2>1, <2>3, <3>2, <3>3, WorkEffect
    <2> QED
      BY <2>5, <2>6 DEF Effects
  <1>5. CASE more
    <2>1. grp' = [grp EXCEPT ![g] = next] /\ stack' = [stack EXCEPT ![t] = SetTop(@, w)]
      BY <1>1, <1>5
    <2>2. /\ next \in Fields /\ next.last = r.last
          /\ next.busy = r.busy \cup {r.commissioned} /\ next.completedWork = r.completedWork
          /\ r.commissioned \in r.commissioned .. r.last - 1
          /\ next.commissioned .. next.last - 1
               = (r.commissioned .. r.last - 1) \ {r.commissioned}
      BY <1>0, <1>3, <1>5, TakeTicketProperties, TakeLowest
    <2>3. w \in Frame /\ w.pc = "check" /\ (Occurs(w)' => Held(g, r.commissioned)')
      BY <1>0, <1>2, <1>3, WorkFrameIs DEF Held, WorkFrame, WorkPc
    <2> HIDE DEF more
    <2>4. /\ Occurs(w)'
          /\ \A h : Occurs(h)' => Occurs(h) \/ h = w
          /\ \A h : Occurs(h) => Occurs(h)' \/ h = f
      BY <1>0, <1>2, <2>1, <2>3, MoveOccurs
    <2>5. \A b : Joined(b)' <=> Joined(b)
      BY <1>2, <2>3, <2>4 DEF Joined
    <2>6. grp'[g] = next /\ \A b \in alive' : b # g => grp'[b] = grp[b]
      BY <1>1, <1>2, <2>1 DEF TypeOK
    <2>7. TicketsHeld'
      BY <1>0, <1>1, <1>2, <1>3, <2>2, <2>3, <2>4, <2>6, HeldKept
    <2>8. FieldsInv' /\ AbsStep
      <3>1. Pending(g) = r.commissioned .. r.last - 1
        BY <1>3 DEF Pending
      <3>2. {i} \in SUBSET grp[g].busy /\ {r.commissioned} \in SUBSET Pending(g)
        BY <1>2, <2>2, <3>1
      <3>3. /\ next.commissioned .. next.last - 1 = Pending(g) \ {r.commissioned}
            /\ next.busy = (grp[g].busy \ {i}) \cup {r.commissioned}
            /\ next.completedWork = grp[g].completedWork \cup {i}
            /\ next.last = grp[g].last
        BY <1>3, <2>2, <3>1
      <3> QED
        BY <1>1, <1>2, <2>1, <2>2, <2>5, <3>2, <3>3, WorkEffect
    <2> QED
      BY <2>7, <2>8 DEF Effects
  <1> QED
    BY <1>4, <1>5

LEMMA SlotThrowEffect ==
    ASSUME LoopInv, NEW t \in Thread, SlotThrow(t) PROVE Effects
  <1>0. PICK f, g, i, r : f = Top(t) /\ g = f.g /\ i = f.i /\ r = Fail(grp[g], i)
    OBVIOUS
  <1>1. /\ TopPc(t, WorkPc) /\ alive' = alive /\ grp' = [grp EXCEPT ![g] = r]
        /\ stack' = [stack EXCEPT ![t] = Pop(@)]
    BY <1>0 DEF SlotThrow
  <1>2. /\ IInv /\ TicketsHeld /\ TypeOK /\ stack[t] # << >> /\ f \in Frame /\ f.pc \in WorkPc
        /\ g \in Group /\ g \in alive /\ i \in Nat /\ i \in grp[g].busy
        /\ grp[g] \in Fields /\ Accounts(grp[g]) /\ grp \in [Group -> Fields]
    BY <1>0, <1>1, TopTicket DEF LoopInv, TypeOK
  <1>3. /\ r \in Fields /\ r.last = grp[g].last /\ r.busy = grp[g].busy \ {i}
        /\ r.completedWork = grp[g].completedWork /\ r.commissioned .. r.last - 1 = {}
    <2>1. grp[g].commissioned <= grp[g].last /\ (grp[g].exc => grp[g].commissioned = grp[g].last)
      BY <1>2 DEF Accounts, HasTicket, Fields
    <2>2. r \in Fields /\ ~ HasTicket(r)
      BY <1>0, <1>2, FailAccounts
    <2> QED
      BY <1>0, <1>2, <2>1, <2>2, FailProperties, NoTicketNoPending
  <1>4. /\ \A h : Occurs(h)' => Occurs(h)
        /\ \A h : Occurs(h) => Occurs(h)' \/ h = f
    BY <1>0, <1>1, <1>2, PopOccurs
  <1>5. \A b : Joined(b)' <=> Joined(b)
    BY <1>2, <1>4 DEF Joined, WorkPc
  <1>6. grp'[g] = r /\ \A b \in alive' : b # g => grp'[b] = grp[b]
    BY <1>1, <1>2 DEF TypeOK
  <1>7. TicketsHeld'
    BY <1>0, <1>1, <1>2, <1>3, <1>4, <1>6, HeldKept
  <1>8. FieldsInv' /\ AbsStep
    BY <1>1, <1>2, <1>3, <1>5, GiveUpEffect, {i} \in SUBSET grp[g].busy
  <1> QED
    BY <1>7, <1>8 DEF Effects

LEMMA TakeFromEffect ==
    ASSUME LoopInv, NEW t \in Thread, NEW m \in 0 .. Len(registry), m > 0, IsBack(m),
           TakeFrom(t, m), UNCHANGED alive
    PROVE  Effects
  <1>0. PICK g, r, w : /\ g = registry[m] /\ r = TakeTicket(grp[g])
                       /\ w = WorkFrame(g, grp[g].commissioned)
    OBVIOUS
  <1>1. /\ grp' = [grp EXCEPT ![g] = r]
        /\ stack' = [stack EXCEPT ![t] = Push(@, w)]
    BY <1>0 DEF TakeFrom
  <1>2. /\ IInv /\ TicketsHeld /\ TypeOK /\ RegistryInv /\ GroupInv
        /\ m \in 1 .. Len(registry) /\ g # NoGroup /\ HasTicket(grp[g])
    BY <1>0, LenProperties DEF LoopInv, IInv, TypeOK, IsBack
  <1>3. /\ g \in alive /\ g \in Group /\ grp[g] \in Fields /\ grp[g].commissioned \in Nat
        /\ grp \in [Group -> Fields]
    BY <1>0, <1>2 DEF RegistryInv, Registered, TypeOK, Fields
  <1>4. /\ r \in Fields /\ r.last = grp[g].last
        /\ r.busy = grp[g].busy \cup {grp[g].commissioned}
        /\ r.completedWork = grp[g].completedWork
        /\ grp[g].commissioned \in Pending(g)
        /\ r.commissioned .. r.last - 1 = Pending(g) \ {grp[g].commissioned}
    BY <1>0, <1>2, <1>3, TakeTicketProperties, TakeLowest DEF Pending
  <1>5. /\ w \in Frame /\ w.pc = "check" /\ w.g = g /\ w.i = grp[g].commissioned
        /\ (Occurs(w)' => Held(g, w.i)')
    BY <1>0, <1>3, WorkFrameIs DEF Held, WorkFrame, WorkPc
  <1>6. \A h : Occurs(h)' <=> Occurs(h) \/ h = w
    BY <1>1, <1>2, <1>5, PushOccurs
  <1>7. \A b : Joined(b)' <=> Joined(b)
    BY <1>5, <1>6 DEF Joined
  <1>8. grp'[g] = r /\ \A b \in alive' : b # g => grp'[b] = grp[b]
    BY <1>1, <1>2, <1>3 DEF TypeOK
  <1>9. TicketsHeld'
    BY <1>2, <1>3, <1>4, <1>5, <1>6, <1>8, HeldKept
  <1>10. FieldsInv' /\ AbsStep
    <2>1. {grp[g].commissioned} \in SUBSET Pending(g) /\ {} \in SUBSET grp[g].busy
      BY <1>4
    <2>2. /\ r.busy = (grp[g].busy \ {}) \cup {grp[g].commissioned}
          /\ r.completedWork = grp[g].completedWork \cup {}
      BY <1>4
    <2> QED
      BY <1>1, <1>3, <1>4, <1>7, <2>1, <2>2, WorkEffect
  <1> QED
    BY <1>9, <1>10 DEF Effects

\* A group has one owner frame.
LEMMA OneOwner ==
    ASSUME IInv, NEW t \in Thread, TopPc(t, OwnPc), NEW h, Occurs(h),
           h.pc \in OwnPc, h.g = Top(t).g
    PROVE  h = Top(t)
  <1>1. TypeOK /\ FrameUnique
    BY DEF IInv
  <1>2. Top(t) = stack[t][Len(stack[t])] /\ Len(stack[t]) \in 1 .. Len(stack[t])
        /\ Top(t).pc \in OwnPc
    BY <1>1, TopFrame
  <1>3. PICK u \in Thread : \E k \in 1 .. Len(stack[u]) : stack[u][k] = h
    BY DEF Occurs
  <1>4. PICK k \in 1 .. Len(stack[u]) : stack[u][k] = h
    BY <1>3
  <1>5. t = u /\ Len(stack[t]) = k
    BY <1>1, <1>2, <1>4 DEF FrameUnique
  <1> QED
    BY <1>2, <1>4, <1>5

LEMMA JoinEffect ==
    ASSUME LoopInv, NEW t \in Thread, Join(t) PROVE Effects
  <1>0. PICK f, g, r, w, v : /\ f = Top(t) /\ g = f.g /\ r = TakeTicket(grp[g])
                             /\ w = AtPc(f, "await") /\ v = WorkFrame(g, grp[g].commissioned)
    OBVIOUS
  <1>1. /\ TopPc(t, {"built"}) /\ alive' = alive
        /\ IF HasTicket(grp[g])
           THEN /\ grp' = [grp EXCEPT ![g] = r]
                /\ stack' = [stack EXCEPT ![t] = Push(SetTop(@, w), v)]
           ELSE /\ stack' = [stack EXCEPT ![t] = SetTop(@, w)]
                /\ grp' = grp
    BY <1>0 DEF Join
  <1>2. /\ IInv /\ TicketsHeld /\ TypeOK /\ stack[t] # << >> /\ f \in Frame /\ f.pc = "built"
        /\ g \in Group /\ g \in alive /\ grp[g] \in Fields /\ grp \in [Group -> Fields]
        /\ grp[g].commissioned \in Nat
    BY <1>0, <1>1, TopTicket DEF LoopInv, TypeOK, Fields
  <1>3. w \in Frame /\ w.pc = "await"
    BY <1>0, <1>2, AtPcProperties DEF OwnPc
  <1>4. "built" \notin WorkPc /\ "built" # "joined" /\ "await" # "joined"
    BY DEF WorkPc
  <1>5. CASE HasTicket(grp[g])
    <2>1. /\ r \in Fields /\ r.last = grp[g].last
          /\ r.busy = (grp[g].busy \ {}) \cup {grp[g].commissioned}
          /\ r.completedWork = grp[g].completedWork \cup {}
          /\ {grp[g].commissioned} \in SUBSET Pending(g) /\ {} \in SUBSET grp[g].busy
          /\ r.commissioned .. r.last - 1 = Pending(g) \ {grp[g].commissioned}
      BY <1>0, <1>2, <1>5, TakeTicketProperties, TakeLowest DEF Pending
    <2>2. /\ v \in Frame /\ v.pc = "check" /\ v.i = grp[g].commissioned
          /\ (Occurs(v)' => Held(g, v.i)')
      BY <1>0, <1>2, WorkFrameIs DEF Held, WorkFrame, WorkPc
    <2>3. /\ Occurs(v)'
          /\ \A h : Occurs(h)' => Occurs(h) \/ h \in {w, v}
          /\ \A h : Occurs(h) => Occurs(h)' \/ h = f
      BY <1>0, <1>1, <1>2, <1>3, <1>5, <2>2, EnterOccurs
    <2>4. \A b : Joined(b)' <=> Joined(b)
      BY <1>2, <1>3, <2>2, <2>3 DEF Joined
    <2>5. grp'[g] = r /\ \A b \in alive' : b # g => grp'[b] = grp[b]
      BY <1>1, <1>2, <1>5 DEF TypeOK
    <2>6. TicketsHeld'
      BY <1>1, <1>2, <1>4, <2>1, <2>2, <2>3, <2>5, HeldKept
    <2>7. FieldsInv' /\ AbsStep
      BY <1>1, <1>2, <1>5, <2>1, <2>4, WorkEffect
    <2> QED
      BY <2>6, <2>7 DEF Effects
  <1>6. CASE ~ HasTicket(grp[g])
    <2>1. /\ \A h : Occurs(h)' => Occurs(h) \/ h = w
          /\ \A h : Occurs(h) => Occurs(h)' \/ h = f
      BY <1>0, <1>1, <1>2, <1>3, <1>6, MoveOccurs
    <2>2. \A b : Joined(b)' <=> Joined(b)
      BY <1>2, <1>3, <2>1 DEF Joined
    <2>3. TicketsHeld'
      BY <1>1, <1>2, <1>4, <1>6, <2>1, HeldKept
    <2> QED
      BY <1>1, <1>6, <2>2, <2>3, StutterEffect DEF Effects
  <1> QED
    BY <1>5, <1>6

LEMMA AwaitEffect ==
    ASSUME LoopInv, NEW t \in Thread, Await(t) PROVE Effects
  <1>0. PICK f, g : f = Top(t) /\ g = f.g
    OBVIOUS
  <1>1. TopPc(t, {"await"}) /\ TopPc(t, OwnPc) /\ UNCHANGED <<alive, grp>>
    BY DEF Await, TopPc, OwnPc
  <1>2. /\ IInv /\ TicketsHeld /\ TypeOK /\ stack[t] # << >> /\ f \in Frame /\ f.pc = "await"
        /\ g \in Group /\ g \in alive /\ grp[g] \in Fields /\ Accounts(grp[g])
        /\ grp \in [Group -> Fields]
    BY <1>0, <1>1, TopTicket DEF LoopInv, TypeOK
  <1>3. "await" \notin WorkPc /\ "await" # "joined" /\ "thrown" # "joined"
    BY DEF WorkPc
  <1>4. ASSUME NEW pc \in {"thrown", "joined"},
               stack' = [stack EXCEPT ![t] = SetTop(@, AtPc(Top(t), pc))]
        PROVE  /\ TicketsHeld'
               /\ \A b : Joined(b)' <=> Joined(b) \/ (pc = "joined" /\ b = g)
    <2>0. PICK w : w = AtPc(f, pc)
      OBVIOUS
    <2>1. w \in Frame /\ w.pc = pc /\ w.g = g
      BY <1>0, <1>2, <2>0, AtPcProperties DEF OwnPc
    <2>2. /\ Occurs(w)'
          /\ \A h : Occurs(h)' => Occurs(h) \/ h = w
          /\ \A h : Occurs(h) => Occurs(h)' \/ h = f
      BY <1>0, <1>2, <1>4, <2>0, <2>1, MoveOccurs
    <2>3. TicketsHeld'
      BY <1>1, <1>2, <1>3, <2>2, HeldKept
    <2>4. \A b : Joined(b)' <=> Joined(b) \/ (pc = "joined" /\ b = g)
      BY <1>2, <1>3, <2>1, <2>2 DEF Joined
    <2> QED
      BY <2>3, <2>4
  <1>5. CASE stack' = [stack EXCEPT ![t] = SetTop(@, AtPc(Top(t), "thrown"))]
    <2>1. TicketsHeld' /\ \A b : Joined(b)' <=> Joined(b)
      BY <1>4, <1>5
    <2> QED
      BY <1>1, <2>1, StutterEffect DEF Effects
  <1>6. CASE /\ grp[g].nrCompleted >= grp[g].last /\ ~ grp[g].exc
             /\ stack' = [stack EXCEPT ![t] = SetTop(@, AtPc(Top(t), "joined"))]
    <2>1. TicketsHeld' /\ \A b : Joined(b)' <=> Joined(b) \/ b = g
      BY <1>4, <1>6
    <2>2. NothingLost(grp[g])
      <3>1. NoTicketLost /\ Len(stack[t]) \in 1 .. Len(stack[t])
            /\ stack[t][Len(stack[t])] = f
        BY <1>0, <1>1, <1>2, TopFrame DEF IInv
      <3> QED
        BY <1>0, <1>2, <3>1 DEF NoTicketLost
    <2>3. grp[g].busy = {} /\ ~ HasTicket(grp[g]) /\ AllDone(grp[g])
      BY <1>2, <1>6, <2>2, CompletedAccounts
    <2>4. ~ Joined(g)
      <3> SUFFICES ASSUME NEW h, Occurs(h), h.g = g, h.pc = "joined" PROVE FALSE
        BY DEF Joined
      <3>1. h = f
        BY <1>0, <1>1, <1>2, OneOwner DEF OwnPc
      <3> QED
        BY <1>2, <3>1
    <2>5. AbsPhase[g] = "open"
      BY <1>2, <2>4, PhaseIs DEF AbsPhase
    <2>6. AbsPhase' = [AbsPhase EXCEPT ![g] = "returned"]
      BY <1>1, <1>2, <2>1, PhaseIs DEF AbsPhase
    <2>7. UNCHANGED <<AbsPending, AbsBusy, AbsDone>>
      BY <1>1 DEF AbsPending, AbsBusy, AbsDone, Pending
    <2>8. AbsBusy[g] = {} /\ AbsPending[g] = {} /\ AbsDone[g] = 0 .. grp[g].last - 1
      BY <1>2, <2>3, NoTicketNoPending DEF AbsBusy, AbsPending, AbsDone, Pending, AllDone
    <2>9. Abstract!Return(g, grp[g].last)
      BY <2>5, <2>6, <2>7, <2>8
         DEF Abstract!Return, AbsPhase, AbsPending, AbsBusy, AbsDone, Pending
    <2>10. grp[g].last \in 0 .. MaxLast /\ FieldsInv'
      BY <1>1, <1>2, TileAssumption DEF LoopInv, FieldsInv, Fields
    <2> QED
      BY <1>2, <2>1, <2>9, <2>10 DEF Effects, AbsStep, Abstract!Next
  <1>7. CASE UNCHANGED stack
    <2>1. \A h : Occurs(h)' <=> Occurs(h)
      BY <1>7, StillOccurs
    <2>2. \A b : Joined(b)' <=> Joined(b)
      BY <2>1 DEF Joined
    <2>3. TicketsHeld'
      BY <1>1, <1>2, <1>3, <2>1, HeldKept
    <2> QED
      BY <1>1, <2>2, <2>3, StutterEffect DEF Effects
  <1> QED
    BY <1>0, <1>5, <1>6, <1>7 DEF Await

\* A step that moves no frame and touches no group.
LEMMA ElsewhereEffect ==
    ASSUME LoopInv, UNCHANGED <<alive, grp, stack>> PROVE Effects
  <1>1. \A h : Occurs(h)' <=> Occurs(h)
    BY StillOccurs
  <1>2. \A b : Joined(b)' <=> Joined(b)
    BY <1>1 DEF Joined
  <1>3. TicketsHeld'
    BY <1>1 DEF LoopInv, TicketsHeld, Held
  <1> QED
    BY <1>2, <1>3, StutterEffect DEF Effects

\* The end of a group, for a slot count r that is grp[g] or grp[g] abandoned.
LEMMA EndOrSleepEffect ==
    ASSUME LoopInv, NEW t \in Thread, TopPc(t, OwnPc), NEW g, g = Top(t).g,
           NEW r \in Fields, EndOrSleep(t, g, r),
           \/ r = grp[g] /\ (Top(t).pc = "joined" => ~ HasTicket(grp[g]))
           \/ HasTicket(grp[g]) /\ r = Abandon(grp[g])
    PROVE  Effects
  <1>0. PICK f : f = Top(t)
    OBVIOUS
  <1>1. /\ IInv /\ TicketsHeld /\ TypeOK /\ stack[t] # << >> /\ f \in Frame /\ f.pc \in OwnPc
        /\ g \in Group /\ g \in alive /\ grp[g] \in Fields /\ Accounts(grp[g]) /\ f.g = g
        /\ grp \in [Group -> Fields] /\ alive \subseteq Group
    BY <1>0, TopTicket DEF LoopInv, TypeOK
  <1>2. f.pc \notin WorkPc
    BY <1>1 DEF OwnPc, WorkPc
  <1>3. /\ Accounts(r) /\ r.busy = grp[g].busy /\ r.last = grp[g].last
        /\ r.completedWork = grp[g].completedWork
        /\ r = grp[g] \/ ~ HasTicket(r)
    BY <1>1, AbandonAccounts, AbandonProperties DEF Accounts
  <1>4. CASE r.nrCompleted >= r.last
    <2>0. PICK e : e = Fresh(0)
      OBVIOUS
    <2>1. /\ alive' = alive \ {g} /\ grp' = [grp EXCEPT ![g] = e]
          /\ stack' = [stack EXCEPT ![t] = Pop(@)]
      BY <1>4, <2>0 DEF EndOrSleep
    <2>2. /\ e \in Fields /\ e.last = 0 /\ e.commissioned = 0 /\ e.busy = {}
          /\ e.completedWork = {}
      BY <2>0 DEF Fresh, Fields
    <2>3. grp[g].busy = {}
      BY <1>3, <1>4, CompletedAccounts
    <2>4. /\ \A h : Occurs(h)' => Occurs(h)
          /\ \A h : Occurs(h) => Occurs(h)' \/ h = f
      BY <1>0, <1>1, <2>1, PopOccurs
    <2>5. \A b : b # g => (Joined(b)' <=> Joined(b))
      BY <1>1, <2>4 DEF Joined
    <2>6. g \notin alive' /\ alive' \subseteq alive /\ \A b \in alive' : b # g => grp'[b] = grp[b]
      BY <1>1, <2>1
    <2>7. TicketsHeld'
      BY <1>1, <1>2, <2>4, <2>6, HeldKept
    <2>8. FieldsInv'
      <3>1. \A b \in Group : grp'[b] = IF b = g THEN Fresh(0) ELSE grp[b]
        BY <1>1, <2>0, <2>1
      <3>2. Fresh(0).last <= MaxLast
        BY <2>0, <2>2, TileAssumption
      <3> QED
        BY <2>1, <3>1, <3>2 DEF LoopInv, FieldsInv
    <2>9. /\ AbsPhase[g] # "idle" /\ AbsBusy[g] = {}
          /\ AbsPhase' = [AbsPhase EXCEPT ![g] = "idle"]
      <3>1. AbsPhase[g] # "idle" /\ AbsBusy[g] = {}
        BY <1>1, <2>3, PhaseIs DEF AbsPhase, AbsBusy
      <3>2. \A b \in Group : PhaseOf(b)' = IF b = g THEN "idle" ELSE PhaseOf(b)
        BY <2>1, <2>5, PhaseIs
      <3> QED
        BY <3>1, <3>2 DEF AbsPhase
    <2>10. /\ AbsPending' = [AbsPending EXCEPT ![g] = {}]
           /\ AbsDone' = [AbsDone EXCEPT ![g] = {}]
           /\ AbsBusy' = AbsBusy
      <3>1. e.commissioned .. e.last - 1 = {}
        BY <2>2
      <3>2. \A b \in Group : grp'[b] = IF b = g THEN e ELSE grp[b]
        BY <1>1, <2>1
      <3>3. \A b \in Group : Pending(b)' = IF b = g THEN {} ELSE Pending(b)
        BY <3>1, <3>2 DEF Pending
      <3>4. AbsPending' = [AbsPending EXCEPT ![g] = {}]
        BY <3>3 DEF AbsPending
      <3>5. AbsDone' = [AbsDone EXCEPT ![g] = {}]
        BY <2>2, <3>2 DEF AbsDone
      <3>6. AbsBusy' = AbsBusy
        BY <2>2, <2>3, <3>2 DEF AbsBusy
      <3> QED
        BY <3>4, <3>5, <3>6
    <2>11. Abstract!End(g)
      BY <2>9, <2>10 DEF Abstract!End, AbsPhase, AbsPending, AbsBusy, AbsDone, Pending
    <2> QED
      BY <1>1, <2>7, <2>8, <2>11 DEF Effects, AbsStep, Abstract!Next
  <1>5. CASE ~ (r.nrCompleted >= r.last)
    <2>0. PICK w : w = AtPc(f, "dtor")
      OBVIOUS
    <2>1. /\ grp' = [grp EXCEPT ![g] = r] /\ alive' = alive
          /\ stack' = [stack EXCEPT ![t] = SetTop(@, w)]
      BY <1>0, <1>5, <2>0 DEF EndOrSleep
    <2>2. w \in Frame /\ w.pc = "dtor"
      BY <1>1, <2>0, AtPcProperties DEF OwnPc
    <2>3. f.pc # "joined"
      <3> SUFFICES ASSUME f.pc = "joined" PROVE FALSE
        OBVIOUS
      <3>1. JoinedInv /\ Len(stack[t]) \in 1 .. Len(stack[t]) /\ stack[t][Len(stack[t])] = f
        BY <1>0, <1>1, TopFrame DEF IInv
      <3>2. grp[g].busy = {} /\ ~ HasTicket(grp[g])
        BY <1>1, <3>1 DEF JoinedInv, AllDone
      <3>3. r = grp[g] /\ Cardinality(r.busy) = 0
        BY <3>2, FS_EmptySet
      <3>4. r.commissioned = r.nrCompleted + 0 /\ ~ (r.commissioned < r.last)
        BY <1>3, <3>2, <3>3 DEF Accounts, HasTicket
      <3> QED
        BY <1>5, <3>4 DEF Fields
    <2>4. /\ \A h : Occurs(h)' => Occurs(h) \/ h = w
          /\ \A h : Occurs(h) => Occurs(h)' \/ h = f
      BY <1>0, <1>1, <2>1, <2>2, MoveOccurs
    <2>5. \A b : Joined(b)' <=> Joined(b)
      BY <2>2, <2>3, <2>4 DEF Joined
    <2>6. grp'[g] = r /\ \A b \in alive' : b # g => grp'[b] = grp[b]
      BY <1>1, <2>1
    <2>7. TicketsHeld'
      BY <1>1, <1>2, <1>3, <2>1, <2>4, <2>6, HeldKept
    <2>8. CASE r = grp[g]
      <3>1. grp' = grp
        BY <1>1, <2>1, <2>8
      <3> QED
        BY <2>1, <2>5, <2>7, <3>1, StutterEffect DEF Effects
    <2>9. CASE ~ HasTicket(r)
      <3>1. r.commissioned .. r.last - 1 = {}
        BY <2>9, NoTicketNoPending
      <3>2. {} \in SUBSET grp[g].busy /\ r.busy = grp[g].busy \ {}
        BY <1>3
      <3> QED
        BY <1>1, <1>3, <2>1, <2>5, <2>7, <3>1, <3>2, GiveUpEffect DEF Effects
    <2> QED
      BY <1>3, <2>8, <2>9
  <1> QED
    BY <1>4, <1>5

LEMMA DestroyEffect ==
    ASSUME LoopInv, NEW t \in Thread, Destroy(t) \/ DestroyRecheck(t) PROVE Effects
  <1>0. PICK g, r : g = Top(t).g /\ r = Abandon(grp[g])
    OBVIOUS
  <1>1. TopPc(t, OwnPc)
    BY DEF Destroy, DestroyRecheck, TopPc, OwnPc
  <1>2. grp[g] \in Fields /\ r \in Fields
    BY <1>0, <1>1, TopTicket, AbandonAccounts DEF LoopInv
  <1>3. CASE Destroy(t) /\ HasTicket(grp[g])
    BY <1>0, <1>1, <1>2, <1>3, EndOrSleepEffect DEF Destroy
  <1>4. CASE Destroy(t) /\ ~ HasTicket(grp[g])
    BY <1>0, <1>1, <1>2, <1>4, EndOrSleepEffect DEF Destroy
  <1>5. CASE DestroyRecheck(t)
    <2>1. Top(t).pc # "joined" /\ EndOrSleep(t, g, grp[g])
      BY <1>0, <1>5 DEF DestroyRecheck, TopPc
    <2>2. PICK q : q = grp[g]
      OBVIOUS
    <2> QED
      BY <1>0, <1>1, <1>2, <2>1, <2>2, EndOrSleepEffect
  <1> QED
    BY <1>3, <1>4, <1>5

LEMMA ConstructEffect ==
    ASSUME LoopInv, NEW t \in Thread, NEW g \in Group, NEW n \in 0 .. MaxLast,
           NEW W \in SUBSET Worker, Construct(t, g, n, W)
    PROVE  Effects
  <1>0. PICK w, e : w = OwnFrame(g) /\ e = Fresh(n)
    OBVIOUS
  <1>1. /\ g \notin alive /\ alive' = alive \cup {g}
        /\ grp' = [grp EXCEPT ![g] = e] /\ stack' = [stack EXCEPT ![t] = Push(@, w)]
    BY <1>0 DEF Construct
  <1>2. /\ IInv /\ TypeOK /\ FrameInv /\ TicketsHeld /\ FieldsInv
        /\ grp \in [Group -> Fields] /\ alive \subseteq Group
    BY DEF LoopInv, IInv, TypeOK
  <1>3. w \in Frame /\ w.pc = "built" /\ w.g = g
    BY <1>0 DEF OwnFrame, Frame, OwnPc
  <1>4. /\ n \in Nat /\ n <= MaxLast /\ e \in Fields /\ e.last = n /\ e.commissioned = 0
        /\ e.busy = {} /\ e.completedWork = {}
    <2>1. n \in Nat /\ n <= MaxLast
      BY TileAssumption
    <2> QED
      BY <1>0, <2>1 DEF Fresh, Fields
  <1>5. /\ \A b \in Group : grp'[b] = IF b = g THEN e ELSE grp[b]
        /\ grp[g].busy = {} /\ grp[g].completedWork = {}
    <2>1. grp[g] = Fresh(0)
      BY <1>1, <1>2 DEF FieldsInv
    <2> QED
      BY <1>1, <1>2, <2>1 DEF Fresh
  <1>6. \A h : Occurs(h)' <=> Occurs(h) \/ h = w
    BY <1>1, <1>2, <1>3, PushOccurs
  <1>7. \A b : Joined(b)' <=> Joined(b)
    BY <1>3, <1>6 DEF Joined
  <1>8. ~ Joined(g)
    BY <1>1, <1>2 DEF Joined, Occurs, FrameInv
  <1>9. TicketsHeld'
    <2> SUFFICES ASSUME NEW b \in alive', NEW i \in grp'[b].busy PROVE Held(b, i)'
      BY DEF TicketsHeld
    <2>1. b # g /\ b \in alive /\ grp'[b] = grp[b]
      BY <1>1, <1>2, <1>4, <1>5
    <2>2. Held(b, i)
      BY <1>2, <2>1 DEF TicketsHeld
    <2> QED
      BY <1>6, <2>2 DEF Held
  <1>10. FieldsInv'
    BY <1>1, <1>2, <1>4, <1>5 DEF FieldsInv
  <1>11. AbsPhase[g] = "idle" /\ AbsPhase' = [AbsPhase EXCEPT ![g] = "open"]
    <2>1. AbsPhase[g] = "idle"
      BY <1>1, PhaseIs DEF AbsPhase
    <2>2. \A b \in Group : PhaseOf(b)' = IF b = g THEN "open" ELSE PhaseOf(b)
      BY <1>1, <1>7, <1>8, PhaseIs
    <2> QED
      BY <2>1, <2>2 DEF AbsPhase
  <1>12. AbsPending' = [AbsPending EXCEPT ![g] = 0 .. n - 1]
    <2>1. \A b \in Group : Pending(b)' = IF b = g THEN 0 .. n - 1 ELSE Pending(b)
      BY <1>4, <1>5 DEF Pending
    <2> QED
      BY <2>1 DEF AbsPending
  <1>13. AbsBusy' = AbsBusy
    BY <1>4, <1>5 DEF AbsBusy
  <1>14. AbsDone' = AbsDone
    BY <1>4, <1>5 DEF AbsDone
  <1>15. Abstract!Begin(g, n)
    BY <1>11, <1>12, <1>13, <1>14
       DEF Abstract!Begin, AbsPhase, AbsPending, AbsBusy, AbsDone, Pending
  <1> QED
    BY <1>9, <1>10, <1>15 DEF Effects, AbsStep, Abstract!Next

LEMMA TakeOneEffect ==
    ASSUME LoopInv, NEW t \in Thread,
           (\E suspend \in BOOLEAN : Steal(t, suspend)) \/ (t \in Worker /\ WorkerTurn(t))
    PROVE  Effects
  <1>1. alive' = alive
    BY DEF Steal, WorkerTurn
  <1>2. PICK m \in 0 .. Len(registry) :
          /\ IsBack(m)
          /\ (m > 0 /\ TakeFrom(t, m)) \/ UNCHANGED <<grp, stack>>
    BY DEF Steal, WorkerTurn
  <1> QED
    BY <1>1, <1>2, TakeFromEffect, ElsewhereEffect

LEMMA NextEffect ==
    ASSUME LoopInv, [Next]_vars PROVE Effects
  <1>1. CASE UNCHANGED vars
    BY <1>1, ElsewhereEffect DEF vars
  <1>2. ASSUME NEW t \in Thread, NEW g \in Group, NEW n \in 0 .. MaxLast,
               NEW W \in SUBSET Worker, Construct(t, g, n, W)
        PROVE  Effects
    BY <1>2, ConstructEffect
  <1>3. ASSUME NEW t \in Thread, \E suspend \in BOOLEAN : Steal(t, suspend)
        PROVE  Effects
    BY <1>3, TakeOneEffect
  <1>4. ASSUME NEW t \in Thread, OwnerStep(t)
        PROVE  Effects
    BY <1>4, JoinEffect, AwaitEffect, DestroyEffect DEF OwnerStep
  <1>5. ASSUME NEW t \in Thread, SlotStep(t)
        PROVE  Effects
    BY <1>5, SlotStartEffect, SlotReturnEffect, SlotThrowEffect DEF SlotStep
  <1>6. ASSUME NEW w \in Worker, WorkerTurn(w)
        PROVE  Effects
    BY <1>6, TakeOneEffect DEF Thread
  <1>7. ASSUME NEW g \in Group, Timeout(g)
        PROVE  Effects
    BY <1>7, ElsewhereEffect DEF Timeout
  <1> QED
    BY <1>1, <1>2, <1>3, <1>4, <1>5, <1>6, <1>7 DEF Next

LEMMA NextLoopInv ==
    ASSUME LoopInv, [Next]_vars
    PROVE  LoopInv' /\ [Abstract!Next]_(Abstract!loopVars)
  <1>1. IInv'
    BY NextInv DEF LoopInv
  <1>2. Effects
    BY NextEffect
  <1>3. LoopInv'
    BY <1>1, <1>2 DEF Effects, LoopInv
  <1>4. [Abstract!Next]_(Abstract!loopVars)
    BY <1>2 DEF Effects, AbsStep, AbsVars, Abstract!loopVars, AbsPhase, AbsPending, AbsBusy,
                AbsDone, Pending
  <1> QED
    BY <1>3, <1>4

LEMMA InitLoop ==
    ASSUME Init PROVE LoopInv /\ Abstract!Init
  <1>1. IInv
    BY InitInv
  <1>2. TicketsHeld
    BY DEF Init, TicketsHeld
  <1>3. FieldsInv
    BY TileAssumption DEF Init, FieldsInv, Fresh
  <1>4. Abstract!Init
    <2>1. \A g \in Group : /\ PhaseOf(g) = "idle" /\ grp[g].commissioned .. grp[g].last - 1 = {}
                           /\ grp[g].busy = {} /\ grp[g].completedWork = {}
      BY DEF Init, PhaseOf, Fresh
    <2> QED
      BY <2>1 DEF Abstract!Init
  <1> QED
    BY <1>1, <1>2, <1>3, <1>4 DEF LoopInv

-----------------------------------------------------------------------------
(* The accounts of a group are those of the threads *)

LEMMA LoopInvImplies ==
    ASSUME LoopInv PROVE TicketAccounting
  <1> SUFFICES ASSUME NEW g \in alive
               PROVE  /\ grp[g].commissioned = grp[g].nrCompleted + Cardinality(WorkPositions(g))
                      /\ grp[g].commissioned <= grp[g].last
    BY DEF TicketAccounting
  <1>1. /\ g \in Group /\ grp[g] \in Fields /\ Accounts(grp[g])
        /\ FrameInv /\ FrameUnique /\ TicketsHeld
    BY DEF LoopInv, IInv, TypeOK, GroupInv
  <1>2. PICK S, T : S = grp[g].busy /\ T = WorkPositions(g)
    OBVIOUS
  <1>3. IsFiniteSet(S)
    <2>1. S \subseteq 0 .. grp[g].commissioned - 1 /\ grp[g].commissioned \in Nat
      BY <1>1, <1>2 DEF Accounts, Fields
    <2>2. IsFiniteSet(0 .. grp[g].commissioned - 1)
      BY <2>1, FS_Interval
    <2> QED
      BY <2>1, <2>2, FS_Subset
  <1>4. \A i \in S : \E p \in T : stack[p[1]][p[2]].i = i
    <2> SUFFICES ASSUME NEW i \in S PROVE \E p \in T : stack[p[1]][p[2]].i = i
      OBVIOUS
    <2>1. Held(g, i)
      BY <1>1, <1>2 DEF TicketsHeld
    <2>2. PICK pc \in WorkPc : Occurs([g |-> g, i |-> i, pc |-> pc])
      BY <2>1 DEF Held
    <2>3. PICK t \in Thread : \E k \in 1 .. Len(stack[t]) :
                                stack[t][k] = [g |-> g, i |-> i, pc |-> pc]
      BY <2>2 DEF Occurs
    <2>4. PICK k \in 1 .. Len(stack[t]) : stack[t][k] = [g |-> g, i |-> i, pc |-> pc]
      BY <2>3
    <2>5. <<t, k>> \in {t} \X (1 .. Len(stack[t]))
      OBVIOUS
    <2>6. <<t, k>> \in T /\ stack[<<t, k>>[1]][<<t, k>>[2]].i = i
      BY <1>2, <2>4, <2>5 DEF WorkPositions
    <2> QED
      BY <2>6
  <1>5. \A p \in T : /\ p = <<p[1], p[2]>> /\ p[1] \in Thread /\ p[2] \in 1 .. Len(stack[p[1]])
                     /\ stack[p[1]][p[2]].pc \in WorkPc /\ stack[p[1]][p[2]].g = g
    BY <1>2 DEF WorkPositions
  <1>6. \A p \in T : stack[p[1]][p[2]].i \in S
    BY <1>1, <1>2, <1>5 DEF FrameInv
  <1>7. \A p, q \in T : stack[p[1]][p[2]].i = stack[q[1]][q[2]].i => p = q
    BY <1>1, <1>5 DEF FrameUnique
  <1>8. PICK M : M = [i \in S |-> CHOOSE p \in T : stack[p[1]][p[2]].i = i]
    OBVIOUS
  <1>9. /\ M \in [S -> T]
        /\ \A i \in S : stack[M[i][1]][M[i][2]].i = i
    BY <1>4, <1>8
  <1>10. M \in Bijection(S, T)
    <2>1. M \in Injection(S, T)
      BY <1>9 DEF Injection, IsInjective
    <2>2. M \in Surjection(S, T)
      BY <1>6, <1>7, <1>9 DEF Surjection
    <2> QED
      BY <2>1, <2>2 DEF Bijection
  <1>11. Cardinality(T) = Cardinality(S)
    BY <1>3, <1>10, FS_Bijection DEF ExistsBijection
  <1> QED
    BY <1>1, <1>2, <1>11 DEF Accounts

-----------------------------------------------------------------------------
(* Theorems *)

\* In every state of every run each outstanding ticket is held by a thread, and a
\* group that was destroyed, or was never constructed, has nothing outstanding.
THEOREM LoopInvariance == Spec => []LoopInv
  <1>1. Init => LoopInv
    BY InitLoop
  <1>2. LoopInv /\ [Next]_vars => LoopInv'
    BY NextLoopInv
  <1> QED
    BY <1>1, <1>2, PTL DEF Spec

\* The tickets given out are the completed ones plus those a thread still holds
\* (m_Commissioned, m_NrCompleted), also after an exception settled the rest in bulk.
THEOREM TicketsAreAccounted == Spec => []TicketAccounting
  <1>1. LoopInv => TicketAccounting
    BY LoopInvImplies
  <1> QED
    BY <1>1, LoopInvariance, PTL

\* The ticket dispenser implements the parallel loop: every step of the callers, the
\* workers and the stealing threads is one step of TileLoop, or none.
THEOREM LoopRefinement == Spec => ImplementsTileLoop
  <1>1. Init => Abstract!Init
    BY InitLoop
  <1>2. LoopInv /\ [Next]_vars => [Abstract!Next]_(Abstract!loopVars)
    BY NextLoopInv
  <1> QED
    BY <1>1, <1>2, LoopInvariance, PTL DEF Spec, ImplementsTileLoop, Abstract!LoopSpec

=============================================================================
