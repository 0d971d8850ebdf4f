------------------------ MODULE TileTaskGroup_proofs ------------------------
(***************************************************************************)
(* Safety of TileTaskGroup for any number of groups, callers, workers and  *)
(* slots, by the inductive invariant IInv.                                 *)
(***************************************************************************)
EXTENDS TileTaskGroup, FiniteSetTheorems, SequenceTheorems, TLAPS

-----------------------------------------------------------------------------
(* Stacks and registries as sequences *)

\* A sequence given by a function on 1 .. n.
LEMMA SeqOfFunction ==
    ASSUME NEW S, NEW n \in Nat, NEW s \in [1 .. n -> S]
    PROVE  s \in Seq(S) /\ Len(s) = n
  OBVIOUS

\* Push appends its frame.
LEMMA PushProperties ==
    ASSUME NEW S, NEW s \in Seq(S), NEW f \in S
    PROVE  /\ Push(s, f) \in Seq(S)
           /\ Len(Push(s, f)) = Len(s) + 1
           /\ \A k \in 1 .. Len(s) : Push(s, f)[k] = s[k]
           /\ Push(s, f)[Len(s) + 1] = f
  <1>1. Push(s, f) \in [1 .. Len(s) + 1 -> S]
    BY DEF Push
  <1>2. Len(s) + 1 \in Nat
    OBVIOUS
  <1> QED
    BY <1>1, <1>2, SeqOfFunction DEF Push

\* Pop drops the last frame.
LEMMA PopProperties ==
    ASSUME NEW S, NEW s \in Seq(S), s # << >>
    PROVE  /\ Pop(s) \in Seq(S)
           /\ Len(Pop(s)) = Len(s) - 1
           /\ \A k \in 1 .. Len(s) - 1 : Pop(s)[k] = s[k]
  <1>1. Len(s) - 1 \in Nat
    BY EmptySeq
  <1>2. Pop(s) \in [1 .. Len(s) - 1 -> S]
    BY DEF Pop
  <1> QED
    BY <1>1, <1>2, SeqOfFunction DEF Pop

\* SetTop replaces the last frame.
LEMMA SetTopProperties ==
    ASSUME NEW S, NEW s \in Seq(S), NEW f \in S, s # << >>
    PROVE  /\ SetTop(s, f) \in Seq(S)
           /\ Len(SetTop(s, f)) = Len(s)
           /\ \A k \in 1 .. Len(s) - 1 : SetTop(s, f)[k] = s[k]
           /\ SetTop(s, f)[Len(s)] = f
  <1>1. Len(s) \in Nat \ {0}
    BY EmptySeq
  <1>2. SetTop(s, f) \in [1 .. Len(s) -> S]
    BY DEF SetTop
  <1> QED
    BY <1>1, <1>2, SeqOfFunction DEF SetTop

\* decommission turns at most one entry of the registry into nullptr.
LEMMA DecommissionProperties ==
    ASSUME NEW reg \in Seq(Group \cup {NoGroup}), NEW g
    PROVE  /\ Decommission(reg, g) \in Seq(Group \cup {NoGroup})
           /\ Len(Decommission(reg, g)) = Len(reg)
           /\ \A k \in 1 .. Len(reg) :
                Decommission(reg, g)[k] =
                  IF reg[k] = g /\ \A j \in k + 1 .. Len(reg) : reg[j] # g
                  THEN NoGroup ELSE reg[k]
  <1>1. Decommission(reg, g) \in [1 .. Len(reg) -> Group \cup {NoGroup}]
    BY DEF Decommission
  <1> QED
    BY <1>1, SeqOfFunction, LenProperties DEF Decommission

\* Truncate keeps a prefix.
LEMMA TruncateProperties ==
    ASSUME NEW reg \in Seq(Group \cup {NoGroup}), NEW m \in 0 .. Len(reg)
    PROVE  /\ Truncate(reg, m) \in Seq(Group \cup {NoGroup})
           /\ Len(Truncate(reg, m)) = m
           /\ \A k \in 1 .. m : Truncate(reg, m)[k] = reg[k]
  <1>1. Truncate(reg, m) \in [1 .. m -> Group \cup {NoGroup}]
    BY DEF Truncate
  <1> QED
    BY <1>1, SeqOfFunction DEF Truncate

-----------------------------------------------------------------------------
(* The record updates, field by field (records are Zenon's, arithmetic SMT's) *)

\* A thread that is at a place in the code has a frame there.
LEMMA AtPcProperties ==
    ASSUME NEW f \in Frame, NEW pc \in WorkPc \cup OwnPc
    PROVE  /\ AtPc(f, pc) \in Frame
           /\ AtPc(f, pc).g = f.g
           /\ AtPc(f, pc).i = f.i
           /\ AtPc(f, pc).pc = pc
  BY Zenon DEF AtPc, Frame

\* getNextCommissioned hands out one commissioned slot of a group.
LEMMA TakeTicketProperties ==
    ASSUME NEW r \in Fields
    PROVE  /\ TakeTicket(r) \in Fields
           /\ TakeTicket(r).last = r.last
           /\ TakeTicket(r).commissioned = r.commissioned + 1
           /\ TakeTicket(r).nrCompleted = r.nrCompleted
           /\ TakeTicket(r).exc = r.exc
           /\ TakeTicket(r).busy = r.busy \cup {r.commissioned}
           /\ TakeTicket(r).completedWork = r.completedWork
  <1>1. r.commissioned + 1 \in Nat /\ r.busy \cup {r.commissioned} \in SUBSET Nat
    BY DEF Fields
  <1>2. TakeTicket(r) \in Fields
    BY <1>1, Zenon DEF TakeTicket, Fields
  <1>3. TakeTicket(r).last = r.last
    BY Zenon DEF TakeTicket, Fields
  <1>4. TakeTicket(r).commissioned = r.commissioned + 1
    BY Zenon DEF TakeTicket, Fields
  <1>5. TakeTicket(r).nrCompleted = r.nrCompleted
    BY Zenon DEF TakeTicket, Fields
  <1>6. TakeTicket(r).exc = r.exc
    BY Zenon DEF TakeTicket, Fields
  <1>7. TakeTicket(r).busy = r.busy \cup {r.commissioned}
    BY Zenon DEF TakeTicket, Fields
  <1>8. TakeTicket(r).completedWork = r.completedWork
    BY Zenon DEF TakeTicket, Fields
  <1> QED
    BY <1>2, <1>3, <1>4, <1>5, <1>6, <1>7, <1>8

\* registerCompletion settles one outstanding ticket.
LEMMA RegisterCompletionProperties ==
    ASSUME NEW r \in Fields, NEW i \in Nat
    PROVE  /\ RegisterCompletion(r, i) \in Fields
           /\ RegisterCompletion(r, i).last = r.last
           /\ RegisterCompletion(r, i).commissioned = r.commissioned
           /\ RegisterCompletion(r, i).nrCompleted = r.nrCompleted + 1
           /\ RegisterCompletion(r, i).exc = r.exc
           /\ RegisterCompletion(r, i).busy = r.busy \ {i}
           /\ RegisterCompletion(r, i).completedWork = r.completedWork \cup {i}
  <1>1. /\ r.nrCompleted + 1 \in Nat
        /\ r.busy \ {i} \in SUBSET Nat
        /\ r.completedWork \cup {i} \in SUBSET Nat
    BY DEF Fields
  <1>2. RegisterCompletion(r, i) \in Fields
    BY <1>1, Zenon DEF RegisterCompletion, Fields
  <1>3. RegisterCompletion(r, i).last = r.last
    BY Zenon DEF RegisterCompletion, Fields
  <1>4. RegisterCompletion(r, i).commissioned = r.commissioned
    BY Zenon DEF RegisterCompletion, Fields
  <1>5. RegisterCompletion(r, i).nrCompleted = r.nrCompleted + 1
    BY Zenon DEF RegisterCompletion, Fields
  <1>6. RegisterCompletion(r, i).exc = r.exc
    BY Zenon DEF RegisterCompletion, Fields
  <1>7. RegisterCompletion(r, i).busy = r.busy \ {i}
    BY Zenon DEF RegisterCompletion, Fields
  <1>8. RegisterCompletion(r, i).completedWork = r.completedWork \cup {i}
    BY Zenon DEF RegisterCompletion, Fields
  <1> QED
    BY <1>2, <1>3, <1>4, <1>5, <1>6, <1>7, <1>8

\* The remaining tickets of a group are given up at once.
LEMMA AbandonProperties ==
    ASSUME NEW r \in Fields, r.commissioned <= r.last
    PROVE  /\ Abandon(r) \in Fields
           /\ Abandon(r).last = r.last
           /\ Abandon(r).commissioned = r.last
           /\ Abandon(r).nrCompleted = r.nrCompleted + (r.last - r.commissioned)
           /\ Abandon(r).exc = r.exc
           /\ Abandon(r).busy = r.busy
           /\ Abandon(r).completedWork = r.completedWork
  <1>1. r.last \in Nat /\ r.nrCompleted + (r.last - r.commissioned) \in Nat
    BY DEF Fields
  <1>2. Abandon(r) \in Fields
    BY <1>1, Zenon DEF Abandon, Fields
  <1>3. Abandon(r).last = r.last
    BY Zenon DEF Abandon, Fields
  <1>4. Abandon(r).commissioned = r.last
    BY Zenon DEF Abandon, Fields
  <1>5. Abandon(r).nrCompleted = r.nrCompleted + (r.last - r.commissioned)
    BY Zenon DEF Abandon, Fields
  <1>6. Abandon(r).exc = r.exc
    BY Zenon DEF Abandon, Fields
  <1>7. Abandon(r).busy = r.busy
    BY Zenon DEF Abandon, Fields
  <1>8. Abandon(r).completedWork = r.completedWork
    BY Zenon DEF Abandon, Fields
  <1> QED
    BY <1>2, <1>3, <1>4, <1>5, <1>6, <1>7, <1>8

\* DoWork's exception path settles its own ticket and gives up the rest.
LEMMA FailProperties ==
    ASSUME NEW r \in Fields, NEW i \in Nat, r.commissioned <= r.last,
           r.exc => r.commissioned = r.last
    PROVE  /\ Fail(r, i) \in Fields
           /\ Fail(r, i).last = r.last
           /\ Fail(r, i).commissioned = r.last
           /\ Fail(r, i).nrCompleted = r.nrCompleted + 1 + (r.last - r.commissioned)
           /\ Fail(r, i).exc
           /\ Fail(r, i).busy = r.busy \ {i}
           /\ Fail(r, i).completedWork = r.completedWork
  <1>1. /\ r.nrCompleted + 1 \in Nat
        /\ r.nrCompleted + 1 + (r.last - r.commissioned) \in Nat
        /\ r.busy \ {i} \in SUBSET Nat
        /\ r.last \in Nat
    BY DEF Fields
  <1>2. CASE r.exc
    <2>1. Fail(r, i) = [r EXCEPT !.nrCompleted = r.nrCompleted + 1, !.busy = r.busy \ {i}]
      BY <1>2, Zenon DEF Fail
    <2>2. Fail(r, i) \in Fields
      BY <1>1, <2>1, Zenon DEF Fields
    <2>3. /\ Fail(r, i).last = r.last
          /\ Fail(r, i).commissioned = r.commissioned
          /\ Fail(r, i).nrCompleted = r.nrCompleted + 1
          /\ Fail(r, i).exc = r.exc
          /\ Fail(r, i).busy = r.busy \ {i}
          /\ Fail(r, i).completedWork = r.completedWork
      BY <2>1, Zenon DEF Fields
    <2>4. r.commissioned = r.last /\ r.nrCompleted + 1 + (r.last - r.commissioned) = r.nrCompleted + 1
      BY <1>2 DEF Fields
    <2> QED
      BY <1>2, <2>2, <2>3, <2>4, Zenon
  <1>3. CASE ~ r.exc
    <2>1. Fail(r, i) = [r EXCEPT !.nrCompleted = r.nrCompleted + 1 + (r.last - r.commissioned),
                                 !.busy = r.busy \ {i}, !.commissioned = r.last, !.exc = TRUE]
      BY <1>3, Zenon DEF Fail
    <2>2. Fail(r, i) \in Fields
      BY <1>1, <2>1, Zenon DEF Fields
    <2> QED
      BY <2>1, <2>2, Zenon DEF Fields
  <1> QED
    BY <1>2, <1>3

-----------------------------------------------------------------------------
(* What a step does to the frames *)

\* The innermost frame of a thread.
LEMMA TopFrame ==
    ASSUME TypeOK, NEW t \in Thread, NEW pcs, TopPc(t, pcs)
    PROVE  /\ stack[t] \in Seq(Frame) /\ stack[t] # << >>
           /\ Len(stack[t]) \in Nat \ {0}
           /\ Top(t) = stack[t][Len(stack[t])]
           /\ Top(t) \in Frame
           /\ Top(t).g \in Group /\ Top(t).i \in Nat /\ Top(t).pc \in pcs
  <1>1. stack[t] \in Seq(Frame) /\ stack[t] # << >>
    BY DEF TypeOK, TopPc
  <1>2. Len(stack[t]) \in Nat \ {0}
    BY <1>1, EmptySeq
  <1>3. Top(t) \in Frame
    BY <1>1, <1>2, ElementOfSeq DEF Top
  <1> QED
    BY <1>1, <1>2, <1>3 DEF Top, TopPc, Frame

\* Only thread t moved, to stack s.
LEMMA StackStep ==
    ASSUME TypeOK, NEW t \in Thread, NEW s \in Seq(Frame),
           stack' = [stack EXCEPT ![t] = s]
    PROVE  /\ stack' \in [Thread -> Seq(Frame)]
           /\ stack'[t] = s
           /\ \A u \in Thread : u # t => stack'[u] = stack[u]
  BY DEF TypeOK

\* The innermost frame of t moved to another place in the same code.
LEMMA MoveStep ==
    ASSUME TypeOK, NEW t \in Thread, NEW f \in Frame, stack[t] # << >>,
           stack' = [stack EXCEPT ![t] = SetTop(@, f)]
    PROVE  /\ stack' \in [Thread -> Seq(Frame)]
           /\ \A u \in Thread : Len(stack'[u]) = Len(stack[u])
           /\ \A u \in Thread : \A k \in 1 .. Len(stack[u]) :
                stack'[u][k] = IF u = t /\ k = Len(stack[t]) THEN f ELSE stack[u][k]
  <1>1. stack[t] \in Seq(Frame)
    BY DEF TypeOK
  <1>2. Len(stack[t]) \in Nat \ {0}
    BY <1>1, EmptySeq
  <1>3. /\ SetTop(stack[t], f) \in Seq(Frame)
        /\ Len(SetTop(stack[t], f)) = Len(stack[t])
        /\ \A k \in 1 .. Len(stack[t]) - 1 : SetTop(stack[t], f)[k] = stack[t][k]
        /\ SetTop(stack[t], f)[Len(stack[t])] = f
    BY <1>1, SetTopProperties
  <1>4. /\ stack' \in [Thread -> Seq(Frame)]
        /\ stack'[t] = SetTop(stack[t], f)
        /\ \A u \in Thread : u # t => stack'[u] = stack[u]
    BY <1>3, StackStep
  <1>5. ASSUME NEW u \in Thread, NEW k \in 1 .. Len(stack[u])
        PROVE  stack'[u][k] = IF u = t /\ k = Len(stack[t]) THEN f ELSE stack[u][k]
    <2>1. CASE u = t /\ k = Len(stack[t])
      BY <1>3, <1>4, <2>1
    <2>2. CASE u = t /\ k # Len(stack[t])
      BY <1>2, <1>3, <1>4, <2>2
    <2>3. CASE u # t
      BY <1>4, <2>3
    <2> QED
      BY <2>1, <2>2, <2>3
  <1> QED
    BY <1>3, <1>4, <1>5

\* Thread t entered a method: a frame was added.
LEMMA PushStep ==
    ASSUME TypeOK, NEW t \in Thread, NEW f \in Frame,
           stack' = [stack EXCEPT ![t] = Push(@, f)]
    PROVE  /\ stack' \in [Thread -> Seq(Frame)]
           /\ Len(stack[t]) \in Nat
           /\ \A u \in Thread :
                Len(stack'[u]) = IF u = t THEN Len(stack[t]) + 1 ELSE Len(stack[u])
           /\ \A u \in Thread : \A k \in 1 .. Len(stack[u]) : stack'[u][k] = stack[u][k]
           /\ stack'[t][Len(stack[t]) + 1] = f
  <1>1. stack[t] \in Seq(Frame)
    BY DEF TypeOK
  <1>2. Len(stack[t]) \in Nat
    BY <1>1, LenProperties
  <1>3. /\ Push(stack[t], f) \in Seq(Frame)
        /\ Len(Push(stack[t], f)) = Len(stack[t]) + 1
        /\ \A k \in 1 .. Len(stack[t]) : Push(stack[t], f)[k] = stack[t][k]
        /\ Push(stack[t], f)[Len(stack[t]) + 1] = f
    BY ZenonT(60), <1>1, PushProperties
  <1>4. /\ stack' \in [Thread -> Seq(Frame)]
        /\ stack'[t] = Push(stack[t], f)
        /\ \A u \in Thread : u # t => stack'[u] = stack[u]
    BY <1>3, StackStep
  <1> QED
    BY <1>2, <1>3, <1>4

\* Thread t moved its innermost frame and entered a method from there.
LEMMA EnterStep ==
    ASSUME TypeOK, NEW t \in Thread, NEW w \in Frame, NEW f \in Frame, stack[t] # << >>,
           stack' = [stack EXCEPT ![t] = Push(SetTop(@, w), f)]
    PROVE  /\ stack' \in [Thread -> Seq(Frame)]
           /\ \A u \in Thread :
                Len(stack'[u]) = IF u = t THEN Len(stack[t]) + 1 ELSE Len(stack[u])
           /\ \A u \in Thread : \A k \in 1 .. Len(stack[u]) :
                ~ (u = t /\ k = Len(stack[t])) => stack'[u][k] = stack[u][k]
           /\ stack'[t][Len(stack[t])] = w
           /\ stack'[t][Len(stack[t]) + 1] = f
  <1> DEFINE n == Len(stack[t])
  <1>1. stack[t] \in Seq(Frame)
    BY DEF TypeOK
  <1>2. n \in Nat \ {0}
    BY <1>1, EmptySeq
  <1> DEFINE s == SetTop(stack[t], w)
  <1>3. /\ s \in Seq(Frame)
        /\ Len(s) = Len(stack[t])
        /\ \A k \in 1 .. Len(stack[t]) - 1 : s[k] = stack[t][k]
        /\ s[Len(stack[t])] = w
    BY <1>1, SetTopProperties
  <1>4. stack' = [stack EXCEPT ![t] = Push(s, f)]
    OBVIOUS
  <1> HIDE DEF s
  <1>5. /\ Push(s, f) \in Seq(Frame)
        /\ Len(Push(s, f)) = Len(s) + 1
        /\ \A k \in 1 .. Len(s) : Push(s, f)[k] = s[k]
        /\ Push(s, f)[Len(s) + 1] = f
    BY <1>3, PushProperties
  <1>6. /\ stack' \in [Thread -> Seq(Frame)]
        /\ stack'[t] = Push(s, f)
        /\ \A u \in Thread : u # t => stack'[u] = stack[u]
    BY <1>4, <1>5, StackStep
  <1>7. \A k \in 1 .. n : k # n => k \in 1 .. n - 1
    BY <1>2
  <1> QED
    BY <1>2, <1>3, <1>5, <1>6, <1>7

\* Thread t left a method: its innermost frame is gone.
LEMMA PopStep ==
    ASSUME TypeOK, NEW t \in Thread, stack[t] # << >>,
           stack' = [stack EXCEPT ![t] = Pop(@)]
    PROVE  /\ stack' \in [Thread -> Seq(Frame)]
           /\ Len(stack[t]) \in Nat \ {0}
           /\ \A u \in Thread :
                Len(stack'[u]) = IF u = t THEN Len(stack[t]) - 1 ELSE Len(stack[u])
           /\ \A u \in Thread : \A k \in 1 .. Len(stack'[u]) : stack'[u][k] = stack[u][k]
  <1>1. stack[t] \in Seq(Frame)
    BY DEF TypeOK
  <1>2. Len(stack[t]) \in Nat \ {0}
    BY <1>1, EmptySeq
  <1>3. /\ Pop(stack[t]) \in Seq(Frame)
        /\ Len(Pop(stack[t])) = Len(stack[t]) - 1
        /\ \A k \in 1 .. Len(stack[t]) - 1 : Pop(stack[t])[k] = stack[t][k]
    BY <1>1, PopProperties
  <1>4. /\ stack' \in [Thread -> Seq(Frame)]
        /\ stack'[t] = Pop(stack[t])
        /\ \A u \in Thread : u # t => stack'[u] = stack[u]
    BY <1>3, StackStep
  <1> QED
    BY <1>2, <1>3, <1>4

-----------------------------------------------------------------------------
(* What a critical section does to the accounts of a group *)

\* The counters of a group are bounded by its number of slots.
LEMMA AccountsType ==
    ASSUME NEW r \in Fields, Accounts(r)
    PROVE  /\ IsFiniteSet(r.busy)
           /\ Cardinality(r.busy) \in Nat
           /\ r.last \in Nat /\ r.commissioned \in Nat /\ r.nrCompleted \in Nat
           /\ r.nrCompleted <= r.commissioned
  <1>1. r.commissioned \in Nat /\ r.last \in Nat /\ r.nrCompleted \in Nat
    BY DEF Fields
  <1>2. 0 \in Int /\ r.commissioned - 1 \in Int
    BY <1>1
  <1>3. IsFiniteSet(r.busy)
    BY <1>2, FS_Interval, FS_Subset DEF Accounts
  <1>4. Cardinality(r.busy) \in Nat
    BY <1>3, FS_CardinalityType
  <1> QED
    BY <1>1, <1>3, <1>4 DEF Accounts

\* A group that is just constructed has a balanced account.
LEMMA FreshAccounts ==
    ASSUME NEW n \in Nat
    PROVE  Fresh(n) \in Fields /\ Accounts(Fresh(n)) /\ NothingLost(Fresh(n))
  BY FS_EmptySet DEF Fresh, Fields, Accounts, NothingLost, HasTicket

\* Handing out a ticket keeps the account of its group balanced.
LEMMA TakeTicketAccounts ==
    ASSUME NEW r \in Fields, Accounts(r), HasTicket(r)
    PROVE  /\ Accounts(TakeTicket(r))
           /\ NothingLost(r) => NothingLost(TakeTicket(r))
           /\ r.commissioned \notin r.busy
  <1> DEFINE q == TakeTicket(r)
  <1>1. /\ q \in Fields
        /\ q.last = r.last
        /\ q.commissioned = r.commissioned + 1
        /\ q.nrCompleted = r.nrCompleted
        /\ q.exc = r.exc
        /\ q.busy = r.busy \cup {r.commissioned}
        /\ q.completedWork = r.completedWork
    BY TakeTicketProperties
  <1>2. /\ IsFiniteSet(r.busy) /\ Cardinality(r.busy) \in Nat
        /\ r.last \in Nat /\ r.commissioned \in Nat /\ r.nrCompleted \in Nat
    BY AccountsType
  <1>3. r.commissioned \notin r.busy /\ r.commissioned \notin r.completedWork
    BY <1>2 DEF Accounts
  <1>4. Cardinality(q.busy) = Cardinality(r.busy) + 1
    BY ZenonT(60), <1>1, <1>2, <1>3, FS_AddElement
  <1> HIDE DEF q
  <1>5. Accounts(q)
    BY <1>1, <1>2, <1>3, <1>4 DEF Accounts, HasTicket
  <1>6. NothingLost(r) => NothingLost(q)
    BY <1>1, <1>2 DEF NothingLost
  <1> QED
    BY <1>3, <1>5, <1>6 DEF q

\* Settling a ticket keeps the account of its group balanced.
LEMMA RegisterCompletionAccounts ==
    ASSUME NEW r \in Fields, Accounts(r), NEW i \in r.busy
    PROVE  /\ Accounts(RegisterCompletion(r, i))
           /\ NothingLost(r) => NothingLost(RegisterCompletion(r, i))
           /\ HasTicket(RegisterCompletion(r, i)) <=> HasTicket(r)
  <1> DEFINE q == RegisterCompletion(r, i)
  <1>0. i \in Nat
    BY DEF Fields
  <1>1. /\ q \in Fields
        /\ q.last = r.last
        /\ q.commissioned = r.commissioned
        /\ q.nrCompleted = r.nrCompleted + 1
        /\ q.exc = r.exc
        /\ q.busy = r.busy \ {i}
        /\ q.completedWork = r.completedWork \cup {i}
    BY <1>0, RegisterCompletionProperties
  <1>2. /\ IsFiniteSet(r.busy) /\ Cardinality(r.busy) \in Nat
        /\ r.last \in Nat /\ r.commissioned \in Nat /\ r.nrCompleted \in Nat
    BY AccountsType
  <1>3. Cardinality(q.busy) = Cardinality(r.busy) - 1
    BY <1>1, <1>2, FS_RemoveElement
  <1> HIDE DEF q
  <1>4. Accounts(q)
    BY <1>1, <1>2, <1>3 DEF Accounts, HasTicket
  <1>5. NothingLost(r) => NothingLost(q)
    BY <1>1, <1>2 DEF NothingLost
  <1>6. HasTicket(q) <=> HasTicket(r)
    BY <1>1 DEF HasTicket
  <1> QED
    BY <1>4, <1>5, <1>6 DEF q

\* The exception path of DoWork keeps the account of its group balanced.
LEMMA FailAccounts ==
    ASSUME NEW r \in Fields, Accounts(r), NEW i \in r.busy
    PROVE  /\ Fail(r, i) \in Fields
           /\ Fail(r, i).busy = r.busy \ {i}
           /\ Accounts(Fail(r, i))
           /\ NothingLost(Fail(r, i))
           /\ ~ HasTicket(Fail(r, i))
  <1> DEFINE q == Fail(r, i)
  <1>1. /\ IsFiniteSet(r.busy) /\ Cardinality(r.busy) \in Nat
        /\ r.last \in Nat /\ r.commissioned \in Nat /\ r.nrCompleted \in Nat
        /\ i \in Nat
    BY AccountsType DEF Fields
  <1>2. r.commissioned <= r.last /\ (r.exc => r.commissioned = r.last)
    BY <1>1 DEF Accounts, HasTicket
  <1>3. /\ q \in Fields
        /\ q.last = r.last
        /\ q.commissioned = r.last
        /\ q.nrCompleted = r.nrCompleted + 1 + (r.last - r.commissioned)
        /\ q.exc
        /\ q.busy = r.busy \ {i}
        /\ q.completedWork = r.completedWork
    BY <1>1, <1>2, FailProperties
  <1> HIDE DEF q
  <1>4. Cardinality(q.busy) = Cardinality(r.busy) - 1
    <2>1. Cardinality(r.busy \ {i}) = Cardinality(r.busy) - 1
      BY <1>1, FS_RemoveElement
    <2> QED
      BY <1>3, <2>1
  <1>5. q.commissioned = q.nrCompleted + Cardinality(q.busy)
    BY <1>1, <1>2, <1>3, <1>4 DEF Accounts
  <1>6. /\ q.busy \subseteq 0 .. q.commissioned - 1
        /\ q.completedWork \subseteq 0 .. q.commissioned - 1
        /\ q.busy \cap q.completedWork = {}
    BY <1>1, <1>2, <1>3 DEF Accounts
  <1>7. NothingLost(q) /\ ~ HasTicket(q) /\ q.commissioned <= q.last
    BY <1>1, <1>3 DEF NothingLost, HasTicket
  <1>8. Accounts(q)
    BY <1>5, <1>6, <1>7 DEF Accounts
  <1> QED
    BY <1>3, <1>7, <1>8 DEF q

\* Giving up the remaining tickets keeps the account of their group balanced.
LEMMA AbandonAccounts ==
    ASSUME NEW r \in Fields, Accounts(r)
    PROVE  /\ Abandon(r) \in Fields
           /\ Abandon(r).busy = r.busy
           /\ Accounts(Abandon(r))
           /\ ~ HasTicket(Abandon(r))
  <1> DEFINE q == Abandon(r)
  <1>1. /\ r.last \in Nat /\ r.commissioned \in Nat /\ r.nrCompleted \in Nat
        /\ Cardinality(r.busy) \in Nat /\ r.commissioned <= r.last
    BY AccountsType DEF Accounts
  <1>2. /\ q \in Fields
        /\ q.last = r.last
        /\ q.commissioned = r.last
        /\ q.nrCompleted = r.nrCompleted + (r.last - r.commissioned)
        /\ q.exc = r.exc
        /\ q.busy = r.busy
        /\ q.completedWork = r.completedWork
    BY <1>1, AbandonProperties
  <1> HIDE DEF q
  <1>3. Accounts(q) /\ ~ HasTicket(q)
    BY <1>1, <1>2 DEF Accounts, HasTicket
  <1> QED
    BY <1>2, <1>3 DEF q

\* m_NrCompleted >= m_Last means that no ticket is outstanding.
LEMMA CompletedAccounts ==
    ASSUME NEW r \in Fields, Accounts(r), r.nrCompleted >= r.last
    PROVE  /\ r.busy = {} /\ ~ HasTicket(r)
           /\ NothingLost(r) /\ ~ r.exc => AllDone(r)
  <1>1. /\ IsFiniteSet(r.busy) /\ Cardinality(r.busy) \in Nat
        /\ r.last \in Nat /\ r.commissioned \in Nat /\ r.nrCompleted \in Nat
    BY AccountsType
  <1>2. Cardinality(r.busy) = 0 /\ r.commissioned = r.last
    BY <1>1 DEF Accounts
  <1>3. r.busy = {} /\ ~ HasTicket(r)
    BY <1>1, <1>2, FS_EmptySet DEF HasTicket
  <1>4. NothingLost(r) /\ ~ r.exc => AllDone(r)
    BY <1>1, <1>2, <1>3 DEF NothingLost, AllDone, Accounts
  <1> QED
    BY <1>3, <1>4

-----------------------------------------------------------------------------
(* The invariant holds initially and is preserved by every action *)

\* The invariant holds before any group is constructed.
LEMMA InitInv ==
    ASSUME Init PROVE IInv
  <1> USE TileAssumption DEF Init
  <1>1. TypeOK
    BY EmptySeq DEF TypeOK, Fields, Fresh
  <1>2. GroupInv /\ FrameInv /\ FrameUnique /\ RegistryInv
        /\ NoTicketLost /\ AwaitInv /\ JoinedInv
    BY DEF GroupInv, FrameInv, FrameUnique, RegistryInv, Registered, NoTicketLost, AwaitInv, JoinedInv
  <1>3. nrRunning = Cardinality(running) /\ nrRunning <= MaxNrThreads
    BY FS_EmptySet, FS_CardinalityType DEF MaxNrThreads
  <1> QED
    BY <1>1, <1>2, <1>3 DEF IInv

\* The registry when group g stops handing out tickets.
LEMMA RegistryDrop ==
    ASSUME TypeOK, NEW reg \in Seq(Group \cup {NoGroup}), Registered(reg),
           NEW g \in Group, NEW r \in Fields,
           grp' = [grp EXCEPT ![g] = r],
           registry' = Decommission(reg, g),
           alive' = alive \/ alive' = alive \ {g}
    PROVE  registry' \in Seq(Group \cup {NoGroup}) /\ RegistryInv'
  <1>1. /\ registry' \in Seq(Group \cup {NoGroup})
        /\ Len(registry') = Len(reg)
        /\ \A k \in 1 .. Len(reg) :
             registry'[k] = IF reg[k] = g /\ \A j \in k + 1 .. Len(reg) : reg[j] # g
                            THEN NoGroup ELSE reg[k]
    BY DecommissionProperties
  <1>2. Len(reg) \in Nat
    BY LenProperties
  <1>3. NoGroup \notin Group
    BY TileAssumption
  <1>4. ASSUME NEW k \in 1 .. Len(reg), registry'[k] # NoGroup
        PROVE  registry'[k] = reg[k] /\ reg[k] # g /\ reg[k] \in Group
    <2>1. registry'[k] = reg[k] /\ reg[k] # NoGroup
      BY <1>1, <1>4
    <2>2. reg[k] \in Group
      BY <2>1, ElementOfSeq
    <2>3. reg[k] # g
      BY <1>1, <1>2, <1>3, <1>4, <2>1 DEF Registered
    <2> QED
      BY <2>1, <2>2, <2>3
  <1>5. ASSUME NEW k \in 1 .. Len(reg), registry'[k] # NoGroup
        PROVE  /\ registry'[k] \in alive'
               /\ HasTicket(grp'[registry'[k]])
               /\ \A j \in 1 .. Len(reg) : registry'[j] = registry'[k] => j = k
    <2>1. registry'[k] = reg[k] /\ reg[k] # g /\ reg[k] \in Group /\ reg[k] # NoGroup
      BY <1>3, <1>4, <1>5
    <2>2. reg[k] \in alive /\ HasTicket(grp[reg[k]])
      BY <2>1 DEF Registered
    <2>3. grp'[reg[k]] = grp[reg[k]]
      BY <2>1 DEF TypeOK
    <2>4. \A j \in 1 .. Len(reg) : registry'[j] = registry'[k] => j = k
      BY <1>4, <1>5, <2>1 DEF Registered
    <2> QED
      BY <2>1, <2>2, <2>3, <2>4
  <1> QED
    BY <1>1, <1>5 DEF RegistryInv, Registered

\* The registry when group g changes and either keeps tickets or had none.
LEMMA RegistryKeep ==
    ASSUME TypeOK, NEW reg \in Seq(Group \cup {NoGroup}), Registered(reg),
           NEW g \in Group, NEW r \in Fields,
           grp' = [grp EXCEPT ![g] = r],
           registry' = reg,
           \/ ~ HasTicket(grp[g]) /\ (alive' = alive \/ alive' = alive \ {g})
           \/ HasTicket(r) /\ alive' = alive
    PROVE  registry' \in Seq(Group \cup {NoGroup}) /\ RegistryInv'
  <1>1. ASSUME NEW k \in 1 .. Len(reg), reg[k] # NoGroup
        PROVE  /\ reg[k] \in alive'
               /\ HasTicket(grp'[reg[k]])
               /\ \A j \in 1 .. Len(reg) : reg[j] = reg[k] => j = k
    <2>1. /\ reg[k] \in alive /\ HasTicket(grp[reg[k]])
          /\ \A j \in 1 .. Len(reg) : reg[j] = reg[k] => j = k
      BY <1>1 DEF Registered
    <2>2. CASE reg[k] = g
      BY <2>1, <2>2 DEF TypeOK
    <2>3. CASE reg[k] # g
      BY <2>1, <2>3 DEF TypeOK
    <2> QED
      BY <2>1, <2>2, <2>3
  <1> QED
    BY <1>1 DEF RegistryInv, Registered

\* The registry after getNextCommissioned on g.
LEMMA RegistryTake ==
    ASSUME TypeOK, NEW reg \in Seq(Group \cup {NoGroup}), Registered(reg),
           NEW g \in Group, NEW r \in Fields,
           grp' = [grp EXCEPT ![g] = r],
           registry' = DecommissionIfLast(reg, g, r),
           alive' = alive
    PROVE  registry' \in Seq(Group \cup {NoGroup}) /\ RegistryInv'
  <1>1. CASE r.commissioned >= r.last
    BY <1>1, RegistryDrop DEF DecommissionIfLast
  <1>2. CASE ~ (r.commissioned >= r.last)
    <2>1. HasTicket(r)
      BY <1>2 DEF HasTicket, Fields
    <2> QED
      BY <1>2, <2>1, RegistryKeep DEF DecommissionIfLast
  <1> QED
    BY <1>1, <1>2

\* takeOneTileTask pops entries from the back.
LEMMA RegistryTruncate ==
    ASSUME TypeOK, RegistryInv, NEW m \in 0 .. Len(registry)
    PROVE  /\ Truncate(registry, m) \in Seq(Group \cup {NoGroup})
           /\ Registered(Truncate(registry, m))
  <1>1. registry \in Seq(Group \cup {NoGroup}) /\ Len(registry) \in Nat
    BY LenProperties DEF TypeOK
  <1>2. /\ Truncate(registry, m) \in Seq(Group \cup {NoGroup})
        /\ Len(Truncate(registry, m)) = m
        /\ \A k \in 1 .. m : Truncate(registry, m)[k] = registry[k]
    BY <1>1, TruncateProperties
  <1>3. 1 .. m \subseteq 1 .. Len(registry)
    BY <1>1
  <1> QED
    BY <1>2, <1>3 DEF RegistryInv, Registered

\* Entering the functor of a slot keeps the invariant.
LEMMA SlotStartInv ==
    ASSUME IInv, NEW t \in Thread, SlotStart(t) PROVE IInv'
  <1> DEFINE n == Len(stack[t])
             f == AtPc(Top(t), "run")
  <1>1. /\ TypeOK /\ GroupInv /\ FrameInv /\ FrameUnique /\ RegistryInv
        /\ NoTicketLost /\ AwaitInv /\ JoinedInv
        /\ nrRunning = Cardinality(running) /\ nrRunning <= MaxNrThreads
    BY DEF IInv
  <1>2. /\ TopPc(t, {"check"})
        /\ stack' = [stack EXCEPT ![t] = SetTop(@, f)]
        /\ UNCHANGED <<alive, grp, registry, nrRunning, running, sleeping>>
    BY DEF SlotStart
  <1>3. /\ n \in Nat \ {0}
        /\ stack[t][n].pc = "check"
        /\ Top(t) = stack[t][n] /\ Top(t) \in Frame
        /\ stack[t] # << >>
    BY <1>1, <1>2, TopFrame
  <1>4. f \in Frame /\ f.g = stack[t][n].g /\ f.i = stack[t][n].i /\ f.pc = "run"
    BY <1>3, AtPcProperties DEF WorkPc
  <1> HIDE DEF f
  <1>5. /\ stack' \in [Thread -> Seq(Frame)]
        /\ \A u \in Thread : Len(stack'[u]) = Len(stack[u])
        /\ \A u \in Thread : \A k \in 1 .. Len(stack[u]) :
             stack'[u][k] = IF u = t /\ k = n THEN f ELSE stack[u][k]
    BY ZenonT(60), <1>1, <1>2, <1>3, <1>4, MoveStep
  <1> HIDE DEF n
  <1>6. TypeOK'
    BY <1>1, <1>2, <1>5 DEF TypeOK
  <1>7. GroupInv'
    BY <1>1, <1>2 DEF GroupInv
  <1>8. FrameInv'
    BY <1>1, <1>2, <1>3, <1>4, <1>5 DEF FrameInv, WorkPc, n
  <1>9. FrameUnique'
    BY SMTT(30), <1>1, <1>3, <1>4, <1>5 DEF FrameUnique, WorkPc, OwnPc, n
  <1>10. RegistryInv'
    BY <1>1, <1>2 DEF RegistryInv, Registered
  <1>11. NoTicketLost'
    BY <1>1, <1>2, <1>4, <1>5 DEF NoTicketLost
  <1>12. AwaitInv'
    BY SMTT(30), <1>1, <1>2, <1>3, <1>4, <1>5 DEF AwaitInv, WorkPc, n, HasTicket
  <1>13. JoinedInv'
    BY <1>1, <1>2, <1>4, <1>5 DEF JoinedInv
  <1> QED
    BY <1>1, <1>2, <1>6, <1>7, <1>8, <1>9, <1>10, <1>11, <1>12, <1>13 DEF IInv

\* A work frame is left and its ticket is no longer outstanding.
LEMMA LeaveSlot ==
    ASSUME IInv, NEW t \in Thread, TopPc(t, WorkPc),
           NEW g, g = Top(t).g, NEW r \in Fields,
           Accounts(r), NothingLost(grp[g]) => NothingLost(r),
           r.busy = grp[g].busy \ {Top(t).i},
           HasTicket(r) => /\ HasTicket(grp[g])
                           /\ \A k \in 1 .. Len(stack[t]) : stack[t][k].pc # "await",
           grp' = [grp EXCEPT ![g] = r],
           stack' = [stack EXCEPT ![t] = Pop(@)],
           registry' \in Seq(Group \cup {NoGroup}), RegistryInv',
           sleeping' \in SUBSET Group,
           UNCHANGED <<alive, nrRunning, running>>
    PROVE  IInv'
  <1> DEFINE n == Len(stack[t])
  <1>1. /\ TypeOK /\ GroupInv /\ FrameInv /\ FrameUnique /\ RegistryInv
        /\ NoTicketLost /\ AwaitInv /\ JoinedInv
        /\ nrRunning = Cardinality(running) /\ nrRunning <= MaxNrThreads
    BY DEF IInv
  <1>2. /\ n \in Nat \ {0}
        /\ stack[t][n].pc \in WorkPc /\ stack[t][n].g = g /\ stack[t][n] = Top(t)
        /\ stack[t] # << >> /\ g \in Group
    BY <1>1, TopFrame
  <1>3. /\ stack' \in [Thread -> Seq(Frame)]
        /\ \A u \in Thread : Len(stack'[u]) = IF u = t THEN n - 1 ELSE Len(stack[u])
        /\ \A u \in Thread : \A k \in 1 .. Len(stack'[u]) : stack'[u][k] = stack[u][k]
    BY <1>1, <1>2, PopStep
  <1>4. /\ grp' \in [Group -> Fields]
        /\ grp'[g] = r
        /\ \A h \in Group : h # g => grp'[h] = grp[h]
    BY <1>1, <1>2 DEF TypeOK
  <1>5. g \in alive /\ stack[t][n].i \in grp[g].busy
    BY <1>1, <1>2 DEF FrameInv
  <1>6. \A u \in Thread : \A k \in 1 .. Len(stack'[u]) :
          /\ k \in 1 .. Len(stack[u])
          /\ ~ (u = t /\ k = n)
          /\ stack'[u][k] = stack[u][k]
          /\ stack[u][k].g \in alive /\ stack[u][k].g \in Group
    <2> SUFFICES ASSUME NEW u \in Thread, NEW k \in 1 .. Len(stack'[u])
                 PROVE  k \in 1 .. Len(stack[u]) /\ ~ (u = t /\ k = n)
                        /\ stack[u][k].g \in alive /\ stack[u][k].g \in Group
      BY <1>3
    <2>1. stack[u] \in Seq(Frame)
      BY <1>1 DEF TypeOK
    <2>2. Len(stack[u]) \in Nat
      BY <2>1, LenProperties
    <2>3. k \in 1 .. Len(stack[u]) /\ ~ (u = t /\ k = n)
      BY <1>2, <1>3, <2>2
    <2>4. stack[u][k].g \in alive
      BY <1>1, <2>3 DEF FrameInv
    <2> QED
      BY <1>1, <2>3, <2>4 DEF TypeOK
  <1> HIDE DEF n
  <1>7. TypeOK'
    BY <1>1, <1>3, <1>4 DEF TypeOK
  <1>8. GroupInv'
    BY <1>1, <1>4 DEF GroupInv, TypeOK
  <1>9. FrameInv'
    <2> SUFFICES ASSUME NEW u \in Thread, NEW k \in 1 .. Len(stack'[u]), stack[u][k].pc \in WorkPc
                 PROVE  stack[u][k].i \in grp'[stack[u][k].g].busy
      BY <1>6 DEF FrameInv
    <2>1. stack[u][k].i \in grp[stack[u][k].g].busy
      BY <1>1, <1>6 DEF FrameInv
    <2>2. CASE stack[u][k].g = g
      <3>1. stack[u][k].i # stack[t][n].i
        BY SMTT(30), <1>1, <1>2, <1>6, <2>2 DEF FrameUnique, n
      <3> QED
        BY <1>2, <1>4, <2>1, <2>2, <3>1
    <2>3. CASE stack[u][k].g # g
      BY <1>4, <1>6, <2>1, <2>3
    <2> QED
      BY <2>2, <2>3
  <1>10. FrameUnique'
    BY <1>1, <1>6 DEF FrameUnique
  <1>11. NoTicketLost'
    BY <1>1, <1>4, <1>6 DEF NoTicketLost
  <1>12. AwaitInv'
    <2> SUFFICES ASSUME NEW u \in Thread, NEW k \in 1 .. Len(stack'[u]), stack[u][k].pc = "await"
                 PROVE  IF k = Len(stack'[u]) THEN ~ HasTicket(grp'[stack[u][k].g])
                        ELSE /\ stack'[u][k + 1].g = stack[u][k].g
                             /\ stack'[u][k + 1].pc \in WorkPc
      BY <1>6 DEF AwaitInv
    <2>1. IF k = Len(stack[u]) THEN ~ HasTicket(grp[stack[u][k].g])
          ELSE /\ stack[u][k + 1].g = stack[u][k].g
               /\ stack[u][k + 1].pc \in WorkPc
      BY <1>1, <1>6 DEF AwaitInv
    <2>2. Len(stack'[u]) \in Nat
      BY <1>3, LenProperties
    <2>3. CASE k # Len(stack'[u])
      <3>1. k # Len(stack[u]) /\ k + 1 \in 1 .. Len(stack'[u])
        BY <1>2, <1>3, <2>2, <2>3 DEF n
      <3> QED
        BY <1>6, <2>1, <2>3, <3>1
    <2>4. CASE k = Len(stack'[u]) /\ u = t
      <3>1. k + 1 = n /\ k # Len(stack[t])
        BY <1>2, <1>3, <2>4 DEF n
      <3>2. stack[u][k].g = g
        BY <1>2, <2>1, <2>4, <3>1
      <3>3. ~ HasTicket(r)
        BY <1>6, <2>4
      <3> QED
        BY <1>4, <2>4, <3>2, <3>3
    <2>5. CASE k = Len(stack'[u]) /\ u # t
      BY <1>3, <1>4, <1>6, <2>1, <2>5
    <2> QED
      BY <2>3, <2>4, <2>5
  <1>13. JoinedInv'
    <2> SUFFICES ASSUME NEW u \in Thread, NEW k \in 1 .. Len(stack'[u]), stack[u][k].pc = "joined"
                 PROVE  AllDone(grp'[stack[u][k].g])
      BY <1>6 DEF JoinedInv
    <2>1. AllDone(grp[stack[u][k].g])
      BY <1>1, <1>6 DEF JoinedInv
    <2>2. stack[u][k].g # g
      BY <1>5, <2>1 DEF AllDone
    <2> QED
      BY <1>4, <1>6, <2>1, <2>2
  <1> QED
    BY <1>1, <1>7, <1>8, <1>9, <1>10, <1>11, <1>12, <1>13 DEF IInv

\* A functor that throws keeps the invariant.
LEMMA SlotThrowInv ==
    ASSUME IInv, NEW t \in Thread, SlotThrow(t) PROVE IInv'
  <1> DEFINE g == Top(t).g
             r == Fail(grp[g], Top(t).i)
  <1>1. /\ TypeOK /\ GroupInv /\ FrameInv /\ FrameUnique /\ RegistryInv
        /\ NoTicketLost /\ AwaitInv /\ JoinedInv
        /\ nrRunning = Cardinality(running) /\ nrRunning <= MaxNrThreads
    BY DEF IInv
  <1>2. /\ TopPc(t, WorkPc)
        /\ grp' = [grp EXCEPT ![g] = r]
        /\ registry' = IF grp[g].exc THEN registry ELSE Decommission(registry, g)
        /\ stack' = [stack EXCEPT ![t] = Pop(@)]
        /\ sleeping' = IF r.nrCompleted = r.last THEN sleeping \ {g} ELSE sleeping
        /\ UNCHANGED <<alive, nrRunning, running>>
    BY DEF SlotThrow, Notify
  <1>3. g \in Group /\ Top(t).pc \in WorkPc /\ Len(stack[t]) \in 1 .. Len(stack[t])
        /\ Top(t) = stack[t][Len(stack[t])]
    BY <1>1, <1>2, TopFrame
  <1>4. g \in alive /\ Top(t).i \in grp[g].busy /\ grp[g] \in Fields /\ Accounts(grp[g])
    BY <1>1, <1>3 DEF FrameInv, GroupInv, TypeOK
  <1>5. /\ r \in Fields /\ r.busy = grp[g].busy \ {Top(t).i}
        /\ Accounts(r) /\ NothingLost(r) /\ ~ HasTicket(r)
    BY <1>4, FailAccounts
  <1> HIDE DEF r
  <1>6. registry' \in Seq(Group \cup {NoGroup}) /\ RegistryInv'
    <2>1. CASE grp[g].exc
      <3>1. ~ HasTicket(grp[g])
        BY <1>4, <2>1 DEF Accounts
      <3> QED
        BY <1>1, <1>2, <1>3, <1>5, <2>1, <3>1, RegistryKeep DEF TypeOK, RegistryInv
    <2>2. CASE ~ grp[g].exc
      BY <1>1, <1>2, <1>3, <1>5, <2>2, RegistryDrop DEF TypeOK, RegistryInv
    <2> QED
      BY <2>1, <2>2
  <1>7. sleeping' \in SUBSET Group
    BY <1>1, <1>2 DEF TypeOK
  <1> HIDE DEF g
  <1> QED
    BY <1>2, <1>5, <1>6, <1>7, LeaveSlot DEF g

\* The frame from which DoWork on a ticket of g is entered, before and after.
EntersFrom(old, new, h) ==
    /\ new.g = old.g /\ new.i = old.i
    /\ \/ new.pc = old.pc /\ old.pc # "await"
       \/ old.pc = "built" /\ new.pc = "await" /\ old.g = h

\* A ticket of g is taken and a work frame for it is entered; an owner that
\* enters Join moves on at the same time.
LEMMA TakeSlot ==
    ASSUME IInv, NEW t \in Thread, NEW g \in alive, HasTicket(grp[g]),
           grp' = [grp EXCEPT ![g] = TakeTicket(grp[g])],
           stack' \in [Thread -> Seq(Frame)],
           \A u \in Thread :
              Len(stack'[u]) = IF u = t THEN Len(stack[t]) + 1 ELSE Len(stack[u]),
           \A u \in Thread : \A k \in 1 .. Len(stack[u]) :
              ~ (u = t /\ k = Len(stack[t])) => stack'[u][k] = stack[u][k],
           Len(stack[t]) > 0 =>
              EntersFrom(stack[t][Len(stack[t])], stack'[t][Len(stack[t])], g),
           stack'[t][Len(stack[t]) + 1] = WorkFrame(g, grp[g].commissioned),
           registry' \in Seq(Group \cup {NoGroup}), RegistryInv',
           UNCHANGED <<alive, nrRunning, running, sleeping>>
    PROVE  IInv'
  <1> USE DEF EntersFrom
  <1> DEFINE n == Len(stack[t])
             i == grp[g].commissioned
             r == TakeTicket(grp[g])
             w == stack'[t][n + 1]
  <1>1. /\ TypeOK /\ GroupInv /\ FrameInv /\ FrameUnique /\ RegistryInv
        /\ NoTicketLost /\ AwaitInv /\ JoinedInv
        /\ nrRunning = Cardinality(running) /\ nrRunning <= MaxNrThreads
    BY DEF IInv
  <1>2. g \in Group /\ grp[g] \in Fields /\ Accounts(grp[g]) /\ i \in Nat
    BY <1>1 DEF TypeOK, GroupInv, Fields
  <1>3. /\ r \in Fields /\ Accounts(r) /\ r.busy = grp[g].busy \cup {i}
        /\ NothingLost(grp[g]) => NothingLost(r)
        /\ i \notin grp[g].busy
    BY <1>2, TakeTicketProperties, TakeTicketAccounts
  <1> HIDE DEF r
  <1>4. /\ grp' \in [Group -> Fields]
        /\ grp'[g] = r
        /\ \A h \in Group : h # g => grp'[h] = grp[h]
    BY <1>1, <1>2, <1>3 DEF TypeOK, r
  <1>5. w.g = g /\ w.i = i /\ w.pc = "check"
    BY DEF WorkFrame
  <1> HIDE DEF w, i
  <1>6. n \in Nat /\ \A u \in Thread : Len(stack[u]) \in Nat
    <2>1. \A u \in Thread : stack[u] \in Seq(Frame)
      BY <1>1 DEF TypeOK
    <2> QED
      BY <2>1, LenProperties
  <1>7. \A u \in Thread : \A k \in 1 .. Len(stack'[u]) :
          \/ u = t /\ k = n + 1 /\ stack'[u][k] = w
          \/ /\ k \in 1 .. Len(stack[u])
             /\ stack'[u][k].g = stack[u][k].g /\ stack'[u][k].i = stack[u][k].i
             /\ \/ stack'[u][k].pc = stack[u][k].pc
                \/ stack[u][k].pc = "built" /\ stack'[u][k].pc = "await"
    <2> SUFFICES ASSUME NEW u \in Thread, NEW k \in 1 .. Len(stack'[u]),
                        ~ (u = t /\ k = n + 1)
                 PROVE  /\ k \in 1 .. Len(stack[u])
                        /\ stack'[u][k].g = stack[u][k].g /\ stack'[u][k].i = stack[u][k].i
                        /\ \/ stack'[u][k].pc = stack[u][k].pc
                           \/ stack[u][k].pc = "built" /\ stack'[u][k].pc = "await"
      BY DEF w
    <2>1. k \in 1 .. Len(stack[u])
      BY <1>6
    <2>2. CASE u = t /\ k = n
      BY <1>6, <2>1, <2>2
    <2>3. CASE ~ (u = t /\ k = n)
      <3>1. stack'[u][k] = stack[u][k]
        BY <2>1, <2>3
      <3> QED
        BY <2>1, <3>1
    <2> QED
      BY <2>2, <2>3
  <1>8. \A u \in Thread : \A k \in 1 .. Len(stack[u]) :
          stack[u][k].g \in alive /\ stack[u][k].g \in Group
    BY <1>1 DEF FrameInv, TypeOK
  <1>9. TypeOK'
    BY <1>1, <1>4 DEF TypeOK
  <1>10. GroupInv'
    BY <1>1, <1>3, <1>4 DEF GroupInv, TypeOK
  <1>11. FrameInv'
    <2> SUFFICES ASSUME NEW u \in Thread, NEW k \in 1 .. Len(stack'[u])
                 PROVE  /\ stack'[u][k].g \in alive
                        /\ stack'[u][k].pc \in WorkPc =>
                             stack'[u][k].i \in grp'[stack'[u][k].g].busy
      BY DEF FrameInv
    <2>1. CASE u = t /\ k = n + 1 /\ stack'[u][k] = w
      BY <1>3, <1>4, <1>5, <2>1
    <2>2. CASE /\ k \in 1 .. Len(stack[u])
               /\ stack'[u][k].g = stack[u][k].g /\ stack'[u][k].i = stack[u][k].i
               /\ \/ stack'[u][k].pc = stack[u][k].pc
                  \/ stack[u][k].pc = "built" /\ stack'[u][k].pc = "await"
      <3>1. stack'[u][k].pc \in WorkPc => stack[u][k].i \in grp[stack[u][k].g].busy
        BY <1>1, <2>2 DEF FrameInv, WorkPc
      <3> QED
        BY <1>3, <1>4, <1>8, <2>2, <3>1
    <2> QED
      BY <1>7, <2>1, <2>2
  <1>12. FrameUnique'
    <2>1. \A u \in Thread : \A k \in 1 .. Len(stack[u]) :
            stack[u][k].pc \in WorkPc /\ stack[u][k].g = g => stack[u][k].i # i
      BY <1>1, <1>3 DEF FrameInv
    <2>2. \A u \in Thread : \A k \in 1 .. Len(stack'[u]) :
            \/ u = t /\ k = n + 1 /\ stack'[u][k] = w
            \/ /\ k \in 1 .. Len(stack[u])
               /\ stack'[u][k].g = stack[u][k].g /\ stack'[u][k].i = stack[u][k].i
               /\ stack'[u][k].pc \in WorkPc <=> stack[u][k].pc \in WorkPc
               /\ stack'[u][k].pc \in OwnPc <=> stack[u][k].pc \in OwnPc
      BY <1>7 DEF WorkPc, OwnPc
    <2>3. w.pc \notin OwnPc
      BY <1>5 DEF OwnPc
    <2>4. SUFFICES ASSUME NEW u \in Thread, NEW v \in Thread,
                          NEW k \in 1 .. Len(stack'[u]), NEW l \in 1 .. Len(stack'[v]),
                          stack'[u][k].g = stack'[v][l].g,
                          \/ stack'[u][k].pc \in OwnPc /\ stack'[v][l].pc \in OwnPc
                          \/ /\ stack'[u][k].pc \in WorkPc /\ stack'[v][l].pc \in WorkPc
                             /\ stack'[u][k].i = stack'[v][l].i
                   PROVE  u = v /\ k = l
      BY DEF FrameUnique
    <2> HIDE DEF n
    <2>5. CASE u = t /\ k = n + 1
      BY SMTT(30), <1>5, <1>7, <2>1, <2>2, <2>3, <2>4, <2>5
    <2>6. CASE v = t /\ l = n + 1 /\ ~ (u = t /\ k = n + 1)
      <3>1. stack'[v][l] = w
        BY SMTT(30), <2>2, <2>6, <1>6, <1>7
      <3>2. stack'[u][k].pc \in WorkPc /\ stack'[u][k].i = i /\ stack'[u][k].g = g
        BY <1>5, <2>3, <2>4, <3>1
      <3> QED
        BY <1>7, <2>1, <2>2, <2>6, <3>2
    <2>7. CASE ~ (u = t /\ k = n + 1) /\ ~ (v = t /\ l = n + 1)
      BY <1>1, <2>2, <2>4, <2>7 DEF FrameUnique
    <2> QED
      BY <2>5, <2>6, <2>7, Zenon
  <1>13. NoTicketLost'
    <2> SUFFICES ASSUME NEW u \in Thread, NEW k \in 1 .. Len(stack'[u]),
                        stack'[u][k].pc \in {"built", "await"}
                 PROVE  NothingLost(grp'[stack'[u][k].g])
      BY DEF NoTicketLost
    <2>1. /\ k \in 1 .. Len(stack[u])
          /\ stack'[u][k].g = stack[u][k].g
          /\ stack[u][k].pc \in {"built", "await"}
      BY <1>5, <1>7
    <2>2. NothingLost(grp[stack[u][k].g])
      BY <1>1, <2>1 DEF NoTicketLost
    <2> QED
      BY <1>3, <1>4, <1>8, <2>1, <2>2
  <1>14. AwaitInv'
    <2> SUFFICES ASSUME NEW u \in Thread, NEW k \in 1 .. Len(stack'[u]), stack'[u][k].pc = "await"
                 PROVE  IF k = Len(stack'[u]) THEN ~ HasTicket(grp'[stack'[u][k].g])
                        ELSE /\ stack'[u][k + 1].g = stack'[u][k].g
                             /\ stack'[u][k + 1].pc \in WorkPc
      BY DEF AwaitInv
    <2>1. CASE u = t /\ k = n
      BY <1>5, <1>6, <1>7, <2>1 DEF w, WorkPc
    <2>2. CASE u = t /\ k # n
      <3>1. k \in 1 .. n - 1 /\ k + 1 \in 1 .. n
        BY <1>5, <1>6, <1>7, <2>2
      <3>2. stack[t][k].pc = "await" /\ stack'[t][k].g = stack[t][k].g
        BY SMTT(30), <1>6, <2>2, <3>1
      <3>3. stack[t][k + 1].g = stack[t][k].g /\ stack[t][k + 1].pc \in WorkPc
        BY <1>1, <1>6, <3>1, <3>2 DEF AwaitInv
      <3>4. stack'[t][k + 1].g = stack[t][k + 1].g /\ stack'[t][k + 1].pc = stack[t][k + 1].pc
        <4>1. CASE k + 1 = n
          <5>1. EntersFrom(stack[t][n], stack'[t][n], g)
            BY <1>6, <3>1 DEF n
          <5>2. stack[t][n].pc # "built"
            BY <3>3, <4>1 DEF WorkPc
          <5>3. stack'[t][n].g = stack[t][n].g /\ stack'[t][n].pc = stack[t][n].pc
            BY <5>1, <5>2
          <5> QED
            BY <4>1, <5>3
        <4>2. CASE k + 1 # n
          <5>1. stack'[t][k + 1] = stack[t][k + 1]
            BY <1>6, <3>1, <4>2
          <5> QED
            BY <5>1
        <4> QED
          BY <4>1, <4>2
      <3> QED
        BY <1>6, <2>2, <3>1, <3>2, <3>3, <3>4
    <2>3. CASE u # t
      <3>1. /\ Len(stack'[u]) = Len(stack[u]) /\ stack'[u][k] = stack[u][k]
            /\ k \in 1 .. Len(stack[u])
            /\ k # Len(stack[u]) => stack'[u][k + 1] = stack[u][k + 1]
        <4>1. Len(stack'[u]) = Len(stack[u]) /\ Len(stack[u]) \in Nat
          BY <1>6, <2>3
        <4>2. k # Len(stack[u]) => k + 1 \in 1 .. Len(stack[u])
          BY <4>1
        <4> QED
          BY <2>3, <4>1, <4>2
      <3>2. IF k = Len(stack[u]) THEN ~ HasTicket(grp[stack[u][k].g])
            ELSE /\ stack[u][k + 1].g = stack[u][k].g
                 /\ stack[u][k + 1].pc \in WorkPc
        BY <1>1, <3>1 DEF AwaitInv
      <3> QED
        BY <1>4, <1>8, <3>1, <3>2
    <2> QED
      BY <2>1, <2>2, <2>3
  <1>15. JoinedInv'
    <2> SUFFICES ASSUME NEW u \in Thread, NEW k \in 1 .. Len(stack'[u]), stack'[u][k].pc = "joined"
                 PROVE  AllDone(grp'[stack'[u][k].g])
      BY DEF JoinedInv
    <2>1. k \in 1 .. Len(stack[u]) /\ stack'[u][k].g = stack[u][k].g /\ stack[u][k].pc = "joined"
      BY <1>5, <1>7
    <2>2. AllDone(grp[stack[u][k].g])
      BY <1>1, <2>1 DEF JoinedInv
    <2>3. stack[u][k].g # g
      BY <2>2 DEF AllDone
    <2> QED
      BY <1>4, <1>8, <2>1, <2>2, <2>3
  <1> QED
    BY <1>1, <1>9, <1>10, <1>11, <1>12, <1>13, <1>14, <1>15 DEF IInv

\* A thread that completed a slot continues with the next one of its group.
LEMMA NextSlot ==
    ASSUME IInv, NEW t \in Thread, TopPc(t, WorkPc), NEW g, g = Top(t).g,
           NEW j \in Nat, NEW r \in Fields,
           Accounts(r), NothingLost(grp[g]) => NothingLost(r),
           r.busy = (grp[g].busy \ {Top(t).i}) \cup {j},
           j \notin grp[g].busy \ {Top(t).i}, HasTicket(grp[g]),
           grp' = [grp EXCEPT ![g] = r],
           stack' = [stack EXCEPT ![t] = SetTop(@, WorkFrame(g, j))],
           registry' \in Seq(Group \cup {NoGroup}), RegistryInv',
           UNCHANGED <<alive, nrRunning, running, sleeping>>
    PROVE  IInv'
  <1> DEFINE n == Len(stack[t])
             w == WorkFrame(g, j)
  <1>1. /\ TypeOK /\ GroupInv /\ FrameInv /\ FrameUnique /\ RegistryInv
        /\ NoTicketLost /\ AwaitInv /\ JoinedInv
        /\ nrRunning = Cardinality(running) /\ nrRunning <= MaxNrThreads
    BY DEF IInv
  <1>2. /\ n \in Nat \ {0}
        /\ stack[t][n].pc \in WorkPc /\ stack[t][n].g = g /\ stack[t][n] = Top(t)
        /\ stack[t] # << >> /\ g \in Group
    BY <1>1, TopFrame
  <1>3. w \in Frame /\ w.g = g /\ w.i = j /\ w.pc = "check"
    BY <1>2 DEF WorkFrame, Frame, WorkPc
  <1>15. stack' = [stack EXCEPT ![t] = SetTop(@, w)]
    OBVIOUS
  <1> HIDE DEF w
  <1>4. /\ stack' \in [Thread -> Seq(Frame)]
        /\ \A u \in Thread : Len(stack'[u]) = Len(stack[u])
        /\ \A u \in Thread : \A k \in 1 .. Len(stack[u]) :
             stack'[u][k] = IF u = t /\ k = n THEN w ELSE stack[u][k]
    BY <1>1, <1>2, <1>3, <1>15, MoveStep
  <1>5. /\ grp' \in [Group -> Fields]
        /\ grp'[g] = r
        /\ \A h \in Group : h # g => grp'[h] = grp[h]
    BY <1>1, <1>2 DEF TypeOK
  <1>6. \A u \in Thread : \A k \in 1 .. Len(stack[u]) :
          stack[u][k].g \in alive /\ stack[u][k].g \in Group
    BY <1>1 DEF FrameInv, TypeOK
  <1> HIDE DEF n
  <1>7. \A u \in Thread : \A k \in 1 .. Len(stack[u]) :
          stack[u][k].pc \in WorkPc /\ stack[u][k].g = g /\ ~ (u = t /\ k = n) =>
            stack[u][k].i # Top(t).i /\ stack[u][k].i \in grp[g].busy \ {Top(t).i}
    <2> SUFFICES ASSUME NEW u \in Thread, NEW k \in 1 .. Len(stack[u]),
                        stack[u][k].pc \in WorkPc, stack[u][k].g = g, ~ (u = t /\ k = n)
                 PROVE  stack[u][k].i # Top(t).i /\ stack[u][k].i \in grp[g].busy
      OBVIOUS
    <2>1. n \in 1 .. Len(stack[t])
      BY <1>2 DEF n
    <2>2. stack[u][k].i # stack[t][n].i
      BY SMTT(30), <1>1, <1>2, <2>1 DEF FrameUnique
    <2> QED
      BY <1>1, <1>2, <2>2 DEF FrameInv
  <1>8. TypeOK'
    BY <1>1, <1>4, <1>5 DEF TypeOK
  <1>9. GroupInv'
    BY <1>1, <1>5 DEF GroupInv, TypeOK
  <1>10. FrameInv'
    <2> SUFFICES ASSUME NEW u \in Thread, NEW k \in 1 .. Len(stack[u])
                 PROVE  /\ stack'[u][k].g \in alive
                        /\ stack'[u][k].pc \in WorkPc =>
                             stack'[u][k].i \in grp'[stack'[u][k].g].busy
      BY <1>4 DEF FrameInv
    <2>1. CASE u = t /\ k = n
      BY <1>2, <1>3, <1>4, <1>5, <1>6, <2>1
    <2>2. CASE ~ (u = t /\ k = n)
      <3>1. stack'[u][k] = stack[u][k]
        BY <1>4, <2>2
      <3>2. stack[u][k].pc \in WorkPc => stack[u][k].i \in grp[stack[u][k].g].busy
        BY <1>1 DEF FrameInv
      <3> QED
        BY <1>5, <1>6, <1>7, <2>2, <3>1, <3>2
    <2> QED
      BY <2>1, <2>2
  <1>11. FrameUnique'
    <2> SUFFICES ASSUME NEW u \in Thread, NEW v \in Thread,
                        NEW k \in 1 .. Len(stack'[u]), NEW l \in 1 .. Len(stack'[v]),
                        stack'[u][k].g = stack'[v][l].g,
                        \/ stack'[u][k].pc \in OwnPc /\ stack'[v][l].pc \in OwnPc
                        \/ /\ stack'[u][k].pc \in WorkPc /\ stack'[v][l].pc \in WorkPc
                           /\ stack'[u][k].i = stack'[v][l].i
                 PROVE  u = v /\ k = l
      BY DEF FrameUnique
    <2>5. k \in 1 .. Len(stack[u]) /\ l \in 1 .. Len(stack[v])
      BY <1>4
    <2>1. w.pc \notin OwnPc
      BY <1>3 DEF OwnPc
    <2>2. CASE u = t /\ k = n
      BY <1>3, <1>4, <1>7, <2>1, <2>2, <2>5
    <2>3. CASE v = t /\ l = n
      BY <1>3, <1>4, <1>7, <2>1, <2>3, <2>5
    <2>4. CASE ~ (u = t /\ k = n) /\ ~ (v = t /\ l = n)
      BY <1>1, <1>4, <2>4, <2>5 DEF FrameUnique
    <2> QED
      BY <2>2, <2>3, <2>4
  <1>12. NoTicketLost'
    BY <1>1, <1>3, <1>4, <1>5, <1>6 DEF NoTicketLost
  <1>13. AwaitInv'
    <2> SUFFICES ASSUME NEW u \in Thread, NEW k \in 1 .. Len(stack[u]), stack'[u][k].pc = "await"
                 PROVE  IF k = Len(stack[u]) THEN ~ HasTicket(grp'[stack'[u][k].g])
                        ELSE /\ stack'[u][k + 1].g = stack'[u][k].g
                             /\ stack'[u][k + 1].pc \in WorkPc
      BY <1>4 DEF AwaitInv
    <2>1. ~ (u = t /\ k = n) /\ stack'[u][k] = stack[u][k]
      BY <1>3, <1>4
    <2>2. IF k = Len(stack[u]) THEN ~ HasTicket(grp[stack[u][k].g])
          ELSE /\ stack[u][k + 1].g = stack[u][k].g
               /\ stack[u][k + 1].pc \in WorkPc
      BY <1>1, <2>1 DEF AwaitInv
    <2>3. CASE k = Len(stack[u])
      BY <1>5, <1>6, <2>1, <2>2, <2>3
    <2>4. CASE k # Len(stack[u])
      <3>1. Len(stack[u]) \in Nat
        BY <1>4, LenProperties
      <3>2. k + 1 \in 1 .. Len(stack[u])
        BY <2>4, <3>1
      <3> QED
        BY <1>2, <1>3, <1>4, <2>1, <2>2, <2>4, <3>2 DEF WorkPc, n
    <2> QED
      BY <2>3, <2>4
  <1>14. JoinedInv'
    <2> SUFFICES ASSUME NEW u \in Thread, NEW k \in 1 .. Len(stack[u]), stack'[u][k].pc = "joined"
                 PROVE  AllDone(grp'[stack'[u][k].g])
      BY <1>4 DEF JoinedInv
    <2>1. stack'[u][k] = stack[u][k]
      BY <1>3, <1>4
    <2>2. AllDone(grp[stack[u][k].g])
      BY <1>1, <2>1 DEF JoinedInv
    <2>3. stack[u][k].g # g
      BY <2>2 DEF AllDone
    <2> QED
      BY <1>5, <1>6, <2>1, <2>2, <2>3
  <1> QED
    BY <1>1, <1>8, <1>9, <1>10, <1>11, <1>12, <1>13, <1>14 DEF IInv

\* A functor that returns keeps the invariant.
LEMMA SlotReturnInv ==
    ASSUME IInv, NEW t \in Thread, NEW suspend, SlotReturn(t, suspend) PROVE IInv'
  <1> DEFINE g == Top(t).g
             i == Top(t).i
             r == RegisterCompletion(grp[g], i)
             next == TakeTicket(r)
             more == r.nrCompleted # r.last /\ HasTicket(r) /\ ~ suspend
  <1>1. /\ TypeOK /\ GroupInv /\ FrameInv /\ FrameUnique /\ RegistryInv
        /\ NoTicketLost /\ AwaitInv /\ JoinedInv
        /\ nrRunning = Cardinality(running) /\ nrRunning <= MaxNrThreads
    BY DEF IInv
  <1>2. /\ TopPc(t, {"run"})
        /\ suspend => MaySuspend(t)
        /\ sleeping' = IF r.nrCompleted = r.last THEN sleeping \ {g} ELSE sleeping
        /\ UNCHANGED <<alive, nrRunning, running>>
        /\ more => /\ grp' = [grp EXCEPT ![g] = next]
                   /\ registry' = DecommissionIfLast(registry, g, next)
                   /\ stack' = [stack EXCEPT ![t] = SetTop(@, WorkFrame(g, r.commissioned))]
        /\ ~ more => /\ grp' = [grp EXCEPT ![g] = r]
                     /\ registry' = registry
                     /\ stack' = [stack EXCEPT ![t] = Pop(@)]
    BY DEF SlotReturn, Notify
  <1>3. /\ g \in Group /\ Top(t).pc \in WorkPc /\ TopPc(t, WorkPc)
        /\ Len(stack[t]) \in 1 .. Len(stack[t]) /\ Top(t) = stack[t][Len(stack[t])]
        /\ i \in Nat
    <2>1. TopPc(t, WorkPc)
      BY <1>2 DEF TopPc, WorkPc
    <2> QED
      BY <1>1, <2>1, TopFrame
  <1>4. g \in alive /\ i \in grp[g].busy /\ grp[g] \in Fields /\ Accounts(grp[g])
    BY <1>1, <1>3 DEF FrameInv, GroupInv, TypeOK
  <1>5. /\ r \in Fields /\ r.busy = grp[g].busy \ {i} /\ r.commissioned \in Nat
        /\ Accounts(r)
        /\ NothingLost(grp[g]) => NothingLost(r)
        /\ HasTicket(r) <=> HasTicket(grp[g])
    BY ZenonT(60), <1>3, <1>4, RegisterCompletionProperties, RegisterCompletionAccounts, AccountsType
  <1> HIDE DEF r
  <1>6. sleeping' \in SUBSET Group
    BY <1>1, <1>2 DEF TypeOK
  <1>7. registry \in Seq(Group \cup {NoGroup}) /\ Registered(registry)
    BY <1>1 DEF TypeOK, RegistryInv
  <1>8. CASE more
    <2>1. /\ next \in Fields /\ Accounts(next)
          /\ next.busy = r.busy \cup {r.commissioned} /\ r.commissioned \notin r.busy
          /\ NothingLost(r) => NothingLost(next)
      <3>1. HasTicket(r)
        BY <1>8
      <3>2. next \in Fields /\ next.busy = r.busy \cup {r.commissioned}
        BY <1>5, TakeTicketProperties
      <3>3. /\ Accounts(next) /\ r.commissioned \notin r.busy
            /\ NothingLost(r) => NothingLost(next)
        BY <1>5, <3>1, TakeTicketAccounts
      <3> QED
        BY <3>2, <3>3
    <2> HIDE DEF next
    <2>2. registry' \in Seq(Group \cup {NoGroup}) /\ RegistryInv'
      BY <1>1, <1>2, <1>3, <1>7, <1>8, <2>1, RegistryTake
    <2>3. sleeping' = sleeping
      BY <1>2, <1>8
    <2> HIDE DEF g
    <2>4. /\ grp' = [grp EXCEPT ![g] = next]
          /\ stack' = [stack EXCEPT ![t] = SetTop(@, WorkFrame(g, r.commissioned))]
          /\ HasTicket(grp[g])
          /\ UNCHANGED <<alive, nrRunning, running, sleeping>>
      BY <1>2, <1>5, <1>8, <2>3
    <2>5. /\ NothingLost(grp[g]) => NothingLost(next)
          /\ next.busy = (grp[g].busy \ {Top(t).i}) \cup {r.commissioned}
          /\ r.commissioned \notin grp[g].busy \ {Top(t).i}
      BY <1>5, <2>1
    <2>6. g = Top(t).g
      BY DEF g
    <2> QED
      BY <1>3, <1>5, <2>1, <2>2, <2>4, <2>5, <2>6, NextSlot
  <1>9. CASE ~ more
    <2>1. HasTicket(r) => \A k \in 1 .. Len(stack[t]) : stack[t][k].pc # "await"
      <3>1. HasTicket(r) /\ r.nrCompleted = r.last => FALSE
        <4>1. /\ r.nrCompleted \in Nat /\ r.commissioned \in Nat /\ r.last \in Nat
              /\ r.nrCompleted <= r.commissioned
          BY <1>5, AccountsType
        <4> QED
          BY <4>1 DEF HasTicket
      <3> QED
        BY <1>2, <1>9, <3>1 DEF MaySuspend
    <2>2. registry' \in Seq(Group \cup {NoGroup}) /\ RegistryInv'
      BY <1>1, <1>2, <1>3, <1>5, <1>7, <1>9, RegistryKeep
    <2> HIDE DEF g
    <2>3. /\ grp' = [grp EXCEPT ![g] = r]
          /\ stack' = [stack EXCEPT ![t] = Pop(@)]
          /\ UNCHANGED <<alive, nrRunning, running>>
      BY <1>2, <1>9
    <2>4. g = Top(t).g
      BY DEF g
    <2> QED
      BY <1>3, <1>5, <1>6, <2>1, <2>2, <2>3, <2>4, LeaveSlot
  <1> QED
    BY <1>8, <1>9

\* The owner of g moves on in Join or in the destructor; g keeps its tickets or
\* the rest of them is abandoned.
LEMMA OwnerMove ==
    ASSUME IInv, NEW t \in Thread, TopPc(t, OwnPc), NEW g, g = Top(t).g,
           NEW r \in Fields, NEW pc \in OwnPc,
           Accounts(r), r.busy = grp[g].busy,
           pc = "await" => ~ HasTicket(r),
           pc \in {"built", "await"} => NothingLost(r),
           pc = "joined" => AllDone(r),
           grp' = [grp EXCEPT ![g] = r],
           stack' = [stack EXCEPT ![t] = SetTop(@, AtPc(Top(t), pc))],
           registry' \in Seq(Group \cup {NoGroup}), RegistryInv',
           sleeping' \in SUBSET Group,
           UNCHANGED <<alive, nrRunning, running>>
    PROVE  IInv'
  <1> DEFINE n == Len(stack[t])
             w == AtPc(Top(t), pc)
  <1>1. /\ TypeOK /\ GroupInv /\ FrameInv /\ FrameUnique /\ RegistryInv
        /\ NoTicketLost /\ AwaitInv /\ JoinedInv
        /\ nrRunning = Cardinality(running) /\ nrRunning <= MaxNrThreads
    BY DEF IInv
  <1>2. /\ n \in Nat \ {0} /\ n \in 1 .. Len(stack[t])
        /\ stack[t][n].pc \in OwnPc /\ stack[t][n].g = g /\ stack[t][n] = Top(t)
        /\ stack[t] # << >> /\ g \in Group /\ Top(t) \in Frame
    BY <1>1, TopFrame
  <1>3. w \in Frame /\ w.g = g /\ w.pc = pc
    BY <1>2, AtPcProperties
  <1>4. stack' = [stack EXCEPT ![t] = SetTop(@, w)]
    OBVIOUS
  <1> HIDE DEF w
  <1>5. /\ stack' \in [Thread -> Seq(Frame)]
        /\ \A u \in Thread : Len(stack'[u]) = Len(stack[u])
        /\ \A u \in Thread : \A k \in 1 .. Len(stack[u]) :
             stack'[u][k] = IF u = t /\ k = n THEN w ELSE stack[u][k]
    BY <1>1, <1>2, <1>3, <1>4, MoveStep
  <1>6. /\ grp' \in [Group -> Fields]
        /\ grp'[g] = r
        /\ \A h \in Group : h # g => grp'[h] = grp[h]
    BY <1>1, <1>2 DEF TypeOK
  <1>7. \A u \in Thread : \A k \in 1 .. Len(stack[u]) :
          stack[u][k].g \in alive /\ stack[u][k].g \in Group
    BY <1>1 DEF FrameInv, TypeOK
  <1> HIDE DEF n
  \* Every other frame of g is a work frame.
  <1>8. \A u \in Thread : \A k \in 1 .. Len(stack[u]) :
          stack[u][k].pc \in OwnPc /\ ~ (u = t /\ k = n) => stack[u][k].g # g
    BY <1>1, <1>2 DEF FrameUnique
  <1>9. OwnPc \cap WorkPc = {}
    BY DEF OwnPc, WorkPc
  <1>10. TypeOK'
    BY <1>1, <1>5, <1>6 DEF TypeOK
  <1>11. GroupInv'
    BY <1>1, <1>6 DEF GroupInv, TypeOK
  <1>12. FrameInv'
    <2> SUFFICES ASSUME NEW u \in Thread, NEW k \in 1 .. Len(stack'[u])
                 PROVE  /\ stack'[u][k].g \in alive
                        /\ stack'[u][k].pc \in WorkPc =>
                             stack'[u][k].i \in grp'[stack'[u][k].g].busy
      BY DEF FrameInv
    <2>1. k \in 1 .. Len(stack[u])
      BY <1>5
    <2>2. CASE u = t /\ k = n
      BY <1>2, <1>3, <1>5, <1>7, <1>9, <2>1, <2>2
    <2>3. CASE ~ (u = t /\ k = n)
      <3>1. stack'[u][k] = stack[u][k]
        BY <1>5, <2>1, <2>3
      <3>2. stack[u][k].pc \in WorkPc => stack[u][k].i \in grp[stack[u][k].g].busy
        BY <1>1, <2>1 DEF FrameInv
      <3> QED
        BY <1>6, <1>7, <2>1, <3>1, <3>2
    <2> QED
      BY <2>2, <2>3
  <1>13. FrameUnique'
    <2> SUFFICES ASSUME NEW u \in Thread, NEW v \in Thread,
                        NEW k \in 1 .. Len(stack'[u]), NEW l \in 1 .. Len(stack'[v]),
                        stack'[u][k].g = stack'[v][l].g,
                        \/ stack'[u][k].pc \in OwnPc /\ stack'[v][l].pc \in OwnPc
                        \/ /\ stack'[u][k].pc \in WorkPc /\ stack'[v][l].pc \in WorkPc
                           /\ stack'[u][k].i = stack'[v][l].i
                 PROVE  u = v /\ k = l
      BY DEF FrameUnique
    <2>1. k \in 1 .. Len(stack[u]) /\ l \in 1 .. Len(stack[v])
      BY <1>5
    <2>2. CASE u = t /\ k = n
      BY <1>3, <1>5, <1>8, <1>9, <2>1, <2>2
    <2>3. CASE v = t /\ l = n
      BY <1>3, <1>5, <1>8, <1>9, <2>1, <2>3
    <2>4. CASE ~ (u = t /\ k = n) /\ ~ (v = t /\ l = n)
      BY <1>1, <1>5, <2>1, <2>4 DEF FrameUnique
    <2> QED
      BY <2>2, <2>3, <2>4
  <1>14. NoTicketLost'
    <2> SUFFICES ASSUME NEW u \in Thread, NEW k \in 1 .. Len(stack'[u]),
                        stack'[u][k].pc \in {"built", "await"}
                 PROVE  NothingLost(grp'[stack'[u][k].g])
      BY DEF NoTicketLost
    <2>1. k \in 1 .. Len(stack[u])
      BY <1>5
    <2>2. CASE u = t /\ k = n
      BY <1>3, <1>5, <1>6, <2>1, <2>2
    <2>3. CASE ~ (u = t /\ k = n)
      <3>1. stack'[u][k] = stack[u][k] /\ stack[u][k].g # g
        BY <1>5, <1>8, <2>1, <2>3 DEF OwnPc
      <3> QED
        BY <1>1, <1>6, <1>7, <2>1, <3>1 DEF NoTicketLost
    <2> QED
      BY <2>2, <2>3
  <1>15. AwaitInv'
    <2> SUFFICES ASSUME NEW u \in Thread, NEW k \in 1 .. Len(stack'[u]), stack'[u][k].pc = "await"
                 PROVE  IF k = Len(stack'[u]) THEN ~ HasTicket(grp'[stack'[u][k].g])
                        ELSE /\ stack'[u][k + 1].g = stack'[u][k].g
                             /\ stack'[u][k + 1].pc \in WorkPc
      BY DEF AwaitInv
    <2>1. k \in 1 .. Len(stack[u]) /\ Len(stack[u]) \in Nat /\ Len(stack'[u]) = Len(stack[u])
      BY <1>5, LenProperties
    <2>2. CASE u = t /\ k = n
      BY <1>3, <1>5, <1>6, <2>1, <2>2 DEF n
    <2>3. CASE ~ (u = t /\ k = n)
      <3>1. stack'[u][k] = stack[u][k] /\ stack[u][k].g # g
        BY <1>5, <1>8, <2>1, <2>3 DEF OwnPc
      <3>2. IF k = Len(stack[u]) THEN ~ HasTicket(grp[stack[u][k].g])
            ELSE /\ stack[u][k + 1].g = stack[u][k].g
                 /\ stack[u][k + 1].pc \in WorkPc
        BY <1>1, <2>1, <3>1 DEF AwaitInv
      <3>3. CASE k = Len(stack[u])
        BY <1>6, <1>7, <2>1, <3>1, <3>2, <3>3
      <3>4. CASE k # Len(stack[u])
        <4>1. k + 1 \in 1 .. Len(stack[u])
          BY <2>1, <3>4
        <4>2. ~ (u = t /\ k + 1 = n)
          BY <1>2, <1>9, <3>2, <3>4
        <4>3. stack'[u][k + 1] = stack[u][k + 1]
          BY <1>5, <4>1, <4>2
        <4> QED
          BY <2>1, <3>1, <3>2, <3>4, <4>3
      <3> QED
        BY <3>3, <3>4
    <2> QED
      BY <2>2, <2>3
  <1>16. JoinedInv'
    <2> SUFFICES ASSUME NEW u \in Thread, NEW k \in 1 .. Len(stack'[u]), stack'[u][k].pc = "joined"
                 PROVE  AllDone(grp'[stack'[u][k].g])
      BY DEF JoinedInv
    <2>1. k \in 1 .. Len(stack[u])
      BY <1>5
    <2>2. CASE u = t /\ k = n
      BY <1>3, <1>5, <1>6, <2>1, <2>2
    <2>3. CASE ~ (u = t /\ k = n)
      <3>1. stack'[u][k] = stack[u][k] /\ stack[u][k].g # g
        BY <1>5, <1>8, <2>1, <2>3 DEF OwnPc
      <3> QED
        BY <1>1, <1>6, <1>7, <2>1, <3>1 DEF JoinedInv
    <2> QED
      BY <2>2, <2>3
  <1> QED
    BY <1>1, <1>10, <1>11, <1>12, <1>13, <1>14, <1>15, <1>16 DEF IInv

\* The owner of g leaves it, and with it the group is gone.
LEMMA EndGroup ==
    ASSUME IInv, NEW t \in Thread, TopPc(t, OwnPc), NEW g, g = Top(t).g,
           grp[g].busy = {},
           grp' = [grp EXCEPT ![g] = Fresh(0)],
           stack' = [stack EXCEPT ![t] = Pop(@)],
           alive' = alive \ {g},
           registry' \in Seq(Group \cup {NoGroup}), RegistryInv',
           UNCHANGED <<nrRunning, running, sleeping>>
    PROVE  IInv'
  <1> DEFINE n == Len(stack[t])
  <1>1. /\ TypeOK /\ GroupInv /\ FrameInv /\ FrameUnique /\ RegistryInv
        /\ NoTicketLost /\ AwaitInv /\ JoinedInv
        /\ nrRunning = Cardinality(running) /\ nrRunning <= MaxNrThreads
    BY DEF IInv
  <1>2. /\ n \in Nat \ {0} /\ n \in 1 .. Len(stack[t])
        /\ stack[t][n].pc \in OwnPc /\ stack[t][n].g = g
        /\ stack[t] # << >> /\ g \in Group
    BY <1>1, TopFrame
  <1>3. /\ stack' \in [Thread -> Seq(Frame)]
        /\ \A u \in Thread : Len(stack'[u]) = IF u = t THEN n - 1 ELSE Len(stack[u])
        /\ \A u \in Thread : \A k \in 1 .. Len(stack'[u]) : stack'[u][k] = stack[u][k]
    BY <1>1, <1>2, PopStep
  <1>4. grp' \in [Group -> Fields] /\ \A h \in Group : h # g => grp'[h] = grp[h]
    BY <1>1, <1>2, FreshAccounts DEF TypeOK
  <1> HIDE DEF n
  <1>5. \A u \in Thread : Len(stack[u]) \in Nat /\ Len(stack'[u]) \in Nat
    BY <1>1, <1>3, LenProperties DEF TypeOK
  <1>6. OwnPc \cap WorkPc = {}
    BY DEF OwnPc, WorkPc
  <1>7. \A u \in Thread : \A k \in 1 .. Len(stack[u]) :
          stack[u][k].pc \in WorkPc \cup OwnPc
    <2> SUFFICES ASSUME NEW u \in Thread, NEW k \in 1 .. Len(stack[u])
                 PROVE  stack[u][k] \in Frame
      BY DEF Frame
    <2> QED
      BY <1>1, ElementOfSeq DEF TypeOK
  \* No other frame refers to g: no work frame, and no second owner.
  <1>8. \A u \in Thread : \A k \in 1 .. Len(stack[u]) :
          ~ (u = t /\ k = n) =>
             stack[u][k].g # g /\ stack[u][k].g \in alive /\ stack[u][k].g \in Group
    <2> SUFFICES ASSUME NEW u \in Thread, NEW k \in 1 .. Len(stack[u]), ~ (u = t /\ k = n)
                 PROVE  stack[u][k].g # g /\ stack[u][k].g \in alive /\ stack[u][k].g \in Group
      OBVIOUS
    <2>1. CASE stack[u][k].pc \in WorkPc
      BY <1>1, <2>1 DEF FrameInv, TypeOK
    <2>2. CASE stack[u][k].pc \in OwnPc
      BY <1>1, <1>2, <2>2 DEF FrameUnique, FrameInv, TypeOK
    <2> QED
      BY <1>7, <2>1, <2>2
  <1>9. \A u \in Thread : \A k \in 1 .. Len(stack'[u]) :
          /\ k \in 1 .. Len(stack[u])
          /\ stack'[u][k] = stack[u][k]
          /\ stack[u][k].g # g /\ stack[u][k].g \in alive /\ stack[u][k].g \in Group
    <2> SUFFICES ASSUME NEW u \in Thread, NEW k \in 1 .. Len(stack'[u])
                 PROVE  k \in 1 .. Len(stack[u]) /\ ~ (u = t /\ k = n)
      BY <1>3, <1>8
    <2> QED
      BY <1>2, <1>3, <1>5 DEF n
  <1>10. TypeOK'
    BY <1>1, <1>3, <1>4 DEF TypeOK
  <1>11. GroupInv'
    BY <1>1, <1>4 DEF GroupInv, TypeOK
  <1>12. FrameInv'
    BY <1>1, <1>4, <1>9 DEF FrameInv
  <1>13. FrameUnique'
    BY <1>1, <1>9 DEF FrameUnique
  <1>14. NoTicketLost'
    BY <1>1, <1>4, <1>9 DEF NoTicketLost
  <1>15. AwaitInv'
    <2> SUFFICES ASSUME NEW u \in Thread, NEW k \in 1 .. Len(stack'[u]), stack[u][k].pc = "await"
                 PROVE  IF k = Len(stack'[u]) THEN ~ HasTicket(grp'[stack[u][k].g])
                        ELSE /\ stack'[u][k + 1].g = stack[u][k].g
                             /\ stack'[u][k + 1].pc \in WorkPc
      BY <1>9 DEF AwaitInv
    <2>1. IF k = Len(stack[u]) THEN ~ HasTicket(grp[stack[u][k].g])
          ELSE /\ stack[u][k + 1].g = stack[u][k].g
               /\ stack[u][k + 1].pc \in WorkPc
      BY <1>1, <1>9 DEF AwaitInv
    <2>2. CASE k # Len(stack'[u])
      <3>1. k # Len(stack[u]) /\ k + 1 \in 1 .. Len(stack'[u])
        BY <1>2, <1>3, <1>5, <2>2 DEF n
      <3> QED
        BY <1>9, <2>1, <2>2, <3>1
    <2>3. CASE k = Len(stack'[u]) /\ u # t
      BY <1>3, <1>4, <1>9, <2>1, <2>3
    <2>4. CASE k = Len(stack'[u]) /\ u = t
      <3>1. k + 1 = n /\ k # Len(stack[t])
        BY <1>2, <1>3, <2>4 DEF n
      <3> QED
        BY <1>2, <1>6, <2>1, <2>4, <3>1
    <2> QED
      BY <2>2, <2>3, <2>4
  <1>16. JoinedInv'
    BY <1>1, <1>4, <1>9 DEF JoinedInv
  <1> QED
    BY <1>1, <1>10, <1>11, <1>12, <1>13, <1>14, <1>15, <1>16 DEF IInv

\* The end of the destructor, on a group that hands out no more tickets.
LEMMA EndOrSleepInv ==
    ASSUME IInv, NEW t \in Thread, TopPc(t, OwnPc), NEW g, g = Top(t).g,
           NEW r \in Fields, Accounts(r), r.busy = grp[g].busy,
           EndOrSleep(t, g, r),
           \/ registry' = registry /\ (~ HasTicket(grp[g]) \/ r = grp[g])
           \/ registry' = Decommission(registry, g),
           UNCHANGED <<nrRunning, running>>
    PROVE  IInv'
  <1>1. /\ TypeOK /\ RegistryInv
        /\ registry \in Seq(Group \cup {NoGroup}) /\ Registered(registry)
    BY DEF IInv, TypeOK, RegistryInv
  <1>2. g \in Group
    BY <1>1, TopFrame
  <1>3. CASE r.nrCompleted >= r.last
    <2>1. /\ alive' = alive \ {g} /\ sleeping' = sleeping
          /\ grp' = [grp EXCEPT ![g] = Fresh(0)]
          /\ stack' = [stack EXCEPT ![t] = Pop(@)]
      BY <1>3 DEF EndOrSleep
    <2>2. Fresh(0) \in Fields /\ grp[g].busy = {}
      BY <1>3, FreshAccounts, CompletedAccounts
    <2>3. r = grp[g] => ~ HasTicket(grp[g])
      BY <1>3, CompletedAccounts
    <2>4. registry' \in Seq(Group \cup {NoGroup}) /\ RegistryInv'
      BY <1>1, <1>2, <2>1, <2>2, <2>3, RegistryKeep, RegistryDrop
    <2> QED
      BY <2>1, <2>2, <2>4, EndGroup
  <1>4. CASE ~ (r.nrCompleted >= r.last)
    <2>1. /\ alive' = alive /\ sleeping' = sleeping \cup {g}
          /\ grp' = [grp EXCEPT ![g] = r]
          /\ stack' = [stack EXCEPT ![t] = SetTop(@, AtPc(Top(t), "dtor"))]
      BY <1>4 DEF EndOrSleep
    <2>2. registry' \in Seq(Group \cup {NoGroup}) /\ RegistryInv'
      BY <1>1, <1>2, <2>1, RegistryKeep, RegistryDrop
    <2>3. sleeping' \in SUBSET Group /\ "dtor" \in OwnPc
      BY <1>1, <1>2, <2>1 DEF TypeOK, OwnPc
    <2> QED
      BY <2>1, <2>2, <2>3, OwnerMove
  <1> QED
    BY <1>3, <1>4

\* The group on top of its owner's stack.
LEMMA OwnedGroup ==
    ASSUME IInv, NEW t \in Thread, TopPc(t, OwnPc)
    PROVE  /\ Top(t).g \in Group /\ Top(t).g \in alive
           /\ grp[Top(t).g] \in Fields /\ Accounts(grp[Top(t).g])
  <1>1. TypeOK /\ FrameInv /\ GroupInv
    BY DEF IInv
  <1>2. /\ Top(t) = stack[t][Len(stack[t])] /\ Len(stack[t]) \in 1 .. Len(stack[t])
        /\ Top(t).g \in Group
    BY <1>1, TopFrame
  <1> QED
    BY <1>1, <1>2 DEF FrameInv, GroupInv, TypeOK

\* The owner of g moves on and leaves g as it is.
LEMMA OwnerStays ==
    ASSUME IInv, NEW t \in Thread, TopPc(t, OwnPc), NEW pc \in OwnPc,
           pc = "await" => ~ HasTicket(grp[Top(t).g]),
           pc \in {"built", "await"} => NothingLost(grp[Top(t).g]),
           pc = "joined" => AllDone(grp[Top(t).g]),
           stack' = [stack EXCEPT ![t] = SetTop(@, AtPc(Top(t), pc))],
           UNCHANGED <<alive, grp, registry, nrRunning, running, sleeping>>
    PROVE  IInv'
  <1> DEFINE g == Top(t).g
  <1>1. g \in Group /\ grp[g] \in Fields /\ Accounts(grp[g])
    BY OwnedGroup
  <1>2. TypeOK /\ RegistryInv
    BY DEF IInv
  <1>3. grp' = [grp EXCEPT ![g] = grp[g]]
    BY <1>1, <1>2 DEF TypeOK
  <1>4. registry' \in Seq(Group \cup {NoGroup}) /\ sleeping' \in SUBSET Group
    BY <1>2 DEF TypeOK
  <1>5. RegistryInv'
    BY <1>2 DEF RegistryInv, Registered
  <1> HIDE DEF g
  <1>6. g = Top(t).g
    BY DEF g
  <1> QED
    BY <1>1, <1>3, <1>4, <1>5, <1>6, OwnerMove

\* Only the set of sleeping owners changes.
LEMMA SleepingOnly ==
    ASSUME IInv, sleeping' \in SUBSET Group,
           UNCHANGED <<alive, grp, registry, nrRunning, running, stack>>
    PROVE  IInv'
  <1>1. TypeOK'
    BY DEF IInv, TypeOK
  <1>2. GroupInv' /\ FrameInv' /\ FrameUnique'
    BY DEF IInv, GroupInv, FrameInv, FrameUnique
  <1>3. RegistryInv'
    BY DEF IInv, RegistryInv, Registered
  <1>4. NoTicketLost' /\ AwaitInv' /\ JoinedInv'
    BY DEF IInv, NoTicketLost, AwaitInv, JoinedInv
  <1> QED
    BY <1>1, <1>2, <1>3, <1>4 DEF IInv

\* The destructor keeps the invariant.
LEMMA DestroyInv ==
    ASSUME IInv, NEW t \in Thread, Destroy(t) PROVE IInv'
  <1> DEFINE g == Top(t).g
  <1>1. TopPc(t, OwnPc) /\ UNCHANGED <<nrRunning, running>>
    BY DEF Destroy, TopPc, OwnPc
  <1>2. g \in Group /\ grp[g] \in Fields /\ Accounts(grp[g])
    <2>1. TypeOK /\ FrameInv /\ GroupInv
      BY DEF IInv
    <2>2. Top(t) = stack[t][Len(stack[t])] /\ Len(stack[t]) \in 1 .. Len(stack[t]) /\ g \in Group
      BY <1>1, <2>1, TopFrame
    <2> QED
      BY <2>1, <2>2 DEF FrameInv, GroupInv, TypeOK
  <1>3. CASE HasTicket(grp[g])
    <2>1. registry' = Decommission(registry, g) /\ EndOrSleep(t, g, Abandon(grp[g]))
      BY <1>3 DEF Destroy
    <2>2. /\ Abandon(grp[g]) \in Fields /\ Accounts(Abandon(grp[g]))
          /\ Abandon(grp[g]).busy = grp[g].busy
      BY <1>2, AbandonAccounts
    <2> HIDE DEF g
    <2>3. g = Top(t).g
      BY DEF g
    <2> QED
      BY <1>1, <2>1, <2>2, <2>3, EndOrSleepInv
  <1>4. CASE ~ HasTicket(grp[g])
    <2>1. registry' = registry /\ EndOrSleep(t, g, grp[g])
      BY <1>4 DEF Destroy
    <2> HIDE DEF g
    <2>2. g = Top(t).g
      BY DEF g
    <2> QED
      BY <1>1, <1>2, <1>4, <2>1, <2>2, EndOrSleepInv
  <1> QED
    BY <1>3, <1>4

\* A wake-up in the destructor keeps the invariant.
LEMMA DestroyRecheckInv ==
    ASSUME IInv, NEW t \in Thread, DestroyRecheck(t) PROVE IInv'
  <1> DEFINE g == Top(t).g
  <1>1. /\ TopPc(t, OwnPc) /\ UNCHANGED <<nrRunning, running>>
        /\ registry' = registry /\ EndOrSleep(t, g, grp[g])
    BY DEF DestroyRecheck, TopPc, OwnPc
  <1>2. grp[g] \in Fields /\ Accounts(grp[g])
    BY <1>1, OwnedGroup
  <1> HIDE DEF g
  <1>3. g = Top(t).g
    BY DEF g
  <1> QED
    BY <1>1, <1>2, <1>3, EndOrSleepInv

\* Join takes a ticket for its own DoWork, or goes on to wait.
LEMMA JoinInv ==
    ASSUME IInv, NEW t \in Thread, Join(t) PROVE IInv'
  <1> DEFINE g == Top(t).g
             n == Len(stack[t])
             w == AtPc(Top(t), "await")
             s == SetTop(stack[t], w)
             f == WorkFrame(g, grp[g].commissioned)
  <1>1. TopPc(t, OwnPc) /\ UNCHANGED <<alive, nrRunning, running, sleeping>>
    BY DEF Join, TopPc, OwnPc
  <1>2. /\ TypeOK /\ RegistryInv /\ Registered(registry)
        /\ registry \in Seq(Group \cup {NoGroup}) /\ sleeping \in SUBSET Group
    BY DEF IInv, TypeOK, RegistryInv
  <1>3. g \in Group /\ g \in alive /\ grp[g] \in Fields /\ Accounts(grp[g])
    BY <1>1, OwnedGroup
  <1>4. /\ stack[t] \in Seq(Frame) /\ stack[t] # << >> /\ n \in Nat \ {0}
        /\ Top(t) = stack[t][n] /\ Top(t) \in Frame
    BY <1>1, <1>2, TopFrame
  <1>5. Top(t).pc = "built"
    BY DEF Join, TopPc
  <1>6. w \in Frame /\ w.g = g /\ w.i = Top(t).i /\ w.pc = "await"
    BY <1>4, AtPcProperties DEF OwnPc
  <1>7. CASE HasTicket(grp[g])
    <2>1. /\ grp' = [grp EXCEPT ![g] = TakeTicket(grp[g])]
          /\ registry' = DecommissionIfLast(registry, g, TakeTicket(grp[g]))
          /\ stack' = [stack EXCEPT ![t] = Push(s, f)]
      BY <1>7 DEF Join
    <2>2. f \in Frame
      BY <1>3 DEF WorkFrame, Frame, WorkPc, Fields
    <2>3. TakeTicket(grp[g]) \in Fields
      BY <1>3, TakeTicketProperties
    <2>4. registry' \in Seq(Group \cup {NoGroup}) /\ RegistryInv'
      BY <1>1, <1>2, <1>3, <2>1, <2>3, RegistryTake
    <2> HIDE DEF w, f
    <2>5. /\ stack' \in [Thread -> Seq(Frame)]
          /\ \A u \in Thread :
               Len(stack'[u]) = IF u = t THEN Len(stack[t]) + 1 ELSE Len(stack[u])
          /\ \A u \in Thread : \A k \in 1 .. Len(stack[u]) :
               ~ (u = t /\ k = Len(stack[t])) => stack'[u][k] = stack[u][k]
          /\ stack'[t][Len(stack[t])] = w
          /\ stack'[t][Len(stack[t]) + 1] = f
      BY <1>2, <1>4, <1>6, <2>1, <2>2, EnterStep
    <2>6. f = WorkFrame(g, grp[g].commissioned)
      BY DEF f
    <2>7. stack[t][n].pc = "built" /\ stack[t][n].g = g /\ stack[t][n].i = w.i
      BY <1>4, <1>5, <1>6
    <2>8. EntersFrom(stack[t][Len(stack[t])], stack'[t][Len(stack[t])], g)
      <3>1. EntersFrom(stack[t][Len(stack[t])], w, g)
        BY <1>6, <2>7, Zenon DEF EntersFrom
      <3> QED
        BY <2>5, <3>1
    <2>9. stack'[t][Len(stack[t]) + 1] = WorkFrame(g, grp[g].commissioned)
      BY <2>5, <2>6
    <2> HIDE DEF g
    <2> QED
      BY <1>1, <1>3, <1>7, <2>1, <2>4, <2>5, <2>8, <2>9, TakeSlot
  <1>8. CASE ~ HasTicket(grp[g])
    <2>1. grp' = grp /\ registry' = registry /\ stack' = [stack EXCEPT ![t] = s]
      BY <1>8 DEF Join
    <2>2. NothingLost(grp[g])
      BY <1>4, <1>5 DEF IInv, NoTicketLost
    <2> QED
      BY <1>1, <1>2, <1>3, <1>8, <2>1, <2>2, OwnerStays DEF OwnPc
  <1> QED
    BY <1>7, <1>8

\* One iteration of AwaitRunningSlots keeps the invariant.
LEMMA AwaitStepInv ==
    ASSUME IInv, NEW t \in Thread, Await(t) PROVE IInv'
  <1> DEFINE g == Top(t).g
             Moved(pc) == stack' = [stack EXCEPT ![t] = SetTop(@, AtPc(Top(t), pc))]
  <1>1. /\ TopPc(t, OwnPc) /\ UNCHANGED <<alive, grp, registry, nrRunning, running>>
        /\ Top(t).pc = "await"
    BY DEF Await, TopPc, OwnPc
  <1>2. TypeOK /\ sleeping \in SUBSET Group /\ NoTicketLost
    BY DEF IInv, TypeOK
  <1>3. g \in Group /\ g \in alive /\ grp[g] \in Fields /\ Accounts(grp[g])
    BY <1>1, OwnedGroup
  <1>4. \/ /\ grp[g].nrCompleted >= grp[g].last /\ ~ grp[g].exc
           /\ Moved("joined") /\ UNCHANGED sleeping
        \/ Moved("thrown") /\ UNCHANGED sleeping
        \/ sleeping' = sleeping \cup {g} /\ UNCHANGED stack
    BY DEF Await
  <1>5. CASE /\ grp[g].nrCompleted >= grp[g].last /\ ~ grp[g].exc
             /\ Moved("joined") /\ UNCHANGED sleeping
    <2>1. Len(stack[t]) \in 1 .. Len(stack[t]) /\ Top(t) = stack[t][Len(stack[t])]
      BY <1>1, <1>2, TopFrame
    <2>2. NothingLost(grp[g])
      BY <1>1, <1>2, <2>1 DEF NoTicketLost
    <2>3. AllDone(grp[g])
      BY <1>3, <1>5, <2>2, CompletedAccounts
    <2> QED
      BY <1>1, <1>2, <1>3, <1>5, <2>3, OwnerStays DEF OwnPc
  <1>6. CASE Moved("thrown") /\ UNCHANGED sleeping
    BY <1>1, <1>2, <1>3, <1>6, OwnerStays DEF OwnPc
  <1>7. CASE sleeping' = sleeping \cup {g} /\ UNCHANGED stack
    <2>1. sleeping' \in SUBSET Group
      BY <1>2, <1>3, <1>7
    <2> QED
      BY <1>1, <1>7, <2>1, SleepingOnly
  <1> QED
    BY <1>4, <1>5, <1>6, <1>7

\* An elapsed wait_for keeps the invariant.
LEMMA TimeoutInv ==
    ASSUME IInv, NEW g \in Group, Timeout(g) PROVE IInv'
  <1>1. sleeping' \in SUBSET Group /\ UNCHANGED <<alive, grp, registry, nrRunning, running, stack>>
    BY DEF Timeout, IInv, TypeOK
  <1> QED
    BY <1>1, SleepingOnly

\* The registry when the constructor of g registers it.
LEMMA RegistryGrow ==
    ASSUME TypeOK, RegistryInv, NEW g \in Group, g \notin alive, NEW n \in Nat,
           grp' = [grp EXCEPT ![g] = Fresh(n)], alive' = alive \cup {g},
           registry' = IF n > 0 THEN Append(registry, g) ELSE registry
    PROVE  RegistryInv' /\ registry' \in Seq(Group \cup {NoGroup})
  <1> DEFINE m == Len(registry)
  <1>1. registry \in Seq(Group \cup {NoGroup}) /\ m \in Nat
    BY LenProperties DEF TypeOK
  <1>2. \A k \in 1 .. m : registry[k] # NoGroup =>
          /\ registry[k] \in alive /\ registry[k] \in Group /\ registry[k] # g
          /\ HasTicket(grp[registry[k]])
          /\ \A j \in 1 .. m : registry[j] = registry[k] => j = k
    BY DEF RegistryInv, Registered, TypeOK
  <1>3. /\ grp'[g] = Fresh(n)
        /\ \A h \in Group : h # g => grp'[h] = grp[h]
    BY DEF TypeOK
  <1>4. CASE n > 0
    <2>1. /\ registry' \in Seq(Group \cup {NoGroup})
          /\ Len(registry') = m + 1
          /\ \A k \in 1 .. m : registry'[k] = registry[k]
          /\ registry'[m + 1] = g
      BY <1>1, <1>4, AppendProperties
    <2>2. HasTicket(grp'[g])
      BY <1>3, <1>4 DEF HasTicket, Fresh
    <2> SUFFICES ASSUME NEW k \in 1 .. Len(registry'), registry'[k] # NoGroup
                 PROVE  /\ registry'[k] \in alive'
                        /\ HasTicket(grp'[registry'[k]])
                        /\ \A j \in 1 .. Len(registry') : registry'[j] = registry'[k] => j = k
      BY <2>1 DEF RegistryInv, Registered
    <2> HIDE DEF m
    <2>3. CASE k = m + 1
      BY <1>1, <1>2, <2>1, <2>2, <2>3, TileAssumption
    <2>4. CASE k # m + 1
      BY <1>1, <1>2, <1>3, <2>1, <2>4, TileAssumption
    <2> QED
      BY <2>3, <2>4
  <1>5. CASE ~ (n > 0)
    BY <1>1, <1>2, <1>3, <1>5 DEF RegistryInv, Registered
  <1> QED
    BY <1>4, <1>5

\* A constructor launches no more workers than there are idle ones.
LEMMA CommissionBound ==
    ASSUME TypeOK, nrRunning = Cardinality(running), nrRunning <= MaxNrThreads,
           NEW t, NEW g, NEW n \in 0 .. MaxLast, NEW W \in SUBSET Worker,
           Construct(t, g, n, W)
    PROVE  /\ nrRunning' = Cardinality(running') /\ nrRunning' <= MaxNrThreads
           /\ nrRunning' \in Nat /\ running' \in SUBSET Worker
  <1>1. /\ W \in SUBSET (Worker \ running)
        /\ W = {} \/ Cardinality(W) = NrThreadsToCommission(n)
        /\ nrRunning' = nrRunning + Cardinality(W)
        /\ running' = running \cup W
    BY DEF Construct
  <1>2. IsFiniteSet(running) /\ IsFiniteSet(W) /\ running \cap W = {} /\ IsFiniteSet(Worker)
    BY <1>1, TileAssumption, FS_Subset DEF TypeOK
  <1>3. Cardinality(running \cup W) = Cardinality(running) + Cardinality(W)
    <2>1. Cardinality(running \cap W) = 0
      BY <1>2, FS_EmptySet
    <2>2. Cardinality(running \cup W) =
            Cardinality(running) + Cardinality(W) - Cardinality(running \cap W)
      BY <1>2, FS_Union
    <2>3. Cardinality(W) \in Nat /\ Cardinality(running) \in Nat
      BY <1>2, FS_CardinalityType
    <2> QED
      BY <2>1, <2>2, <2>3
  <1>4. Cardinality(W) \in Nat /\ Cardinality(running) \in Nat
    BY <1>2, FS_CardinalityType
  <1>5. running' \in SUBSET Worker
    BY <1>1 DEF TypeOK
  <1>6. Cardinality(running') <= Cardinality(Worker)
    BY <1>2, <1>5, FS_Subset
  <1> QED
    BY <1>1, <1>3, <1>4, <1>5, <1>6 DEF MaxNrThreads

\* The constructor pushes a frame for a group that nobody refers to.
LEMMA ConstructInv ==
    ASSUME IInv, NEW t \in Thread, NEW g \in Group, NEW k0 \in 0 .. MaxLast,
           NEW W \in SUBSET Worker, Construct(t, g, k0, W)
    PROVE  IInv'
  <1> DEFINE n == Len(stack[t])
             w == OwnFrame(g)
  <1>1. /\ TypeOK /\ GroupInv /\ FrameInv /\ FrameUnique /\ RegistryInv
        /\ NoTicketLost /\ AwaitInv /\ JoinedInv
        /\ nrRunning = Cardinality(running) /\ nrRunning <= MaxNrThreads
    BY DEF IInv
  <1>2. /\ g \notin alive /\ alive' = alive \cup {g}
        /\ grp' = [grp EXCEPT ![g] = Fresh(k0)]
        /\ registry' = IF k0 > 0 THEN Append(registry, g) ELSE registry
        /\ stack' = [stack EXCEPT ![t] = Push(@, w)]
        /\ sleeping' = sleeping
    BY DEF Construct
  <1>3. k0 \in Nat
    BY TileAssumption
  <1>4. w \in Frame /\ w.g = g /\ w.pc = "built"
    BY DEF OwnFrame, Frame, OwnPc
  <1> HIDE DEF w
  <1>5. /\ stack' \in [Thread -> Seq(Frame)]
        /\ n \in Nat
        /\ \A u \in Thread : Len(stack'[u]) = IF u = t THEN n + 1 ELSE Len(stack[u])
        /\ \A u \in Thread : \A k \in 1 .. Len(stack[u]) : stack'[u][k] = stack[u][k]
        /\ stack'[t][n + 1] = w
    BY <1>1, <1>2, <1>4, PushStep
  <1>6. /\ grp' \in [Group -> Fields]
        /\ grp'[g] = Fresh(k0)
        /\ Accounts(grp'[g]) /\ NothingLost(grp'[g])
        /\ \A h \in Group : h # g => grp'[h] = grp[h]
    BY <1>1, <1>2, <1>3, FreshAccounts DEF TypeOK
  <1>7. \A u \in Thread : stack[u] \in Seq(Frame) /\ Len(stack[u]) \in Nat
    BY <1>1, LenProperties DEF TypeOK
  <1> HIDE DEF n
  <1>8. \A u \in Thread : \A k \in 1 .. Len(stack'[u]) :
          \/ u = t /\ k = n + 1 /\ stack'[u][k] = w
          \/ /\ k \in 1 .. Len(stack[u]) /\ stack'[u][k] = stack[u][k]
             /\ ~ (u = t /\ k = n + 1)
    <2> SUFFICES ASSUME NEW u \in Thread, NEW k \in 1 .. Len(stack'[u]),
                        ~ (u = t /\ k = n + 1)
                 PROVE  k \in 1 .. Len(stack[u])
      BY <1>5
    <2> QED
      BY <1>5, <1>7 DEF n
  <1>9. \A u \in Thread : \A k \in 1 .. Len(stack[u]) :
          stack[u][k].g \in alive /\ stack[u][k].g \in Group /\ stack[u][k].g # g
    BY <1>1, <1>2 DEF FrameInv, TypeOK
  <1>10. RegistryInv' /\ registry' \in Seq(Group \cup {NoGroup})
    BY <1>1, <1>2, <1>3, RegistryGrow
  <1>11. nrRunning' = Cardinality(running') /\ nrRunning' <= MaxNrThreads
         /\ nrRunning' \in Nat /\ running' \in SUBSET Worker
    BY <1>1, CommissionBound DEF TypeOK
  <1>12. TypeOK'
    BY <1>1, <1>2, <1>5, <1>6, <1>10, <1>11 DEF TypeOK
  <1>13. GroupInv'
    BY <1>1, <1>2, <1>6 DEF GroupInv, TypeOK
  <1>14. FrameInv'
    <2> SUFFICES ASSUME NEW u \in Thread, NEW k \in 1 .. Len(stack'[u])
                 PROVE  /\ stack'[u][k].g \in alive'
                        /\ stack'[u][k].pc \in WorkPc =>
                             stack'[u][k].i \in grp'[stack'[u][k].g].busy
      BY DEF FrameInv
    <2>1. CASE u = t /\ k = n + 1 /\ stack'[u][k] = w
      BY <1>2, <1>4, <2>1 DEF WorkPc
    <2>2. CASE k \in 1 .. Len(stack[u]) /\ stack'[u][k] = stack[u][k]
      BY <1>1, <1>2, <1>6, <1>9, <2>2 DEF FrameInv
    <2> QED
      BY <1>8, <2>1, <2>2
  <1>15. FrameUnique'
    <2> SUFFICES ASSUME NEW u \in Thread, NEW v \in Thread,
                        NEW k \in 1 .. Len(stack'[u]), NEW l \in 1 .. Len(stack'[v]),
                        stack'[u][k].g = stack'[v][l].g,
                        \/ stack'[u][k].pc \in OwnPc /\ stack'[v][l].pc \in OwnPc
                        \/ /\ stack'[u][k].pc \in WorkPc /\ stack'[v][l].pc \in WorkPc
                           /\ stack'[u][k].i = stack'[v][l].i
                 PROVE  u = v /\ k = l
      BY DEF FrameUnique
    <2>1. CASE u = t /\ k = n + 1
      BY SMTT(30), <1>4, <1>8, <1>9, <2>1
    <2>2. CASE v = t /\ l = n + 1
      BY <1>4, <1>8, <1>9, <2>2
    <2>3. CASE ~ (u = t /\ k = n + 1) /\ ~ (v = t /\ l = n + 1)
      <3>1. /\ k \in 1 .. Len(stack[u]) /\ stack'[u][k] = stack[u][k]
            /\ l \in 1 .. Len(stack[v]) /\ stack'[v][l] = stack[v][l]
        BY <1>8, <2>3
      <3> QED
        BY <1>1, <3>1 DEF FrameUnique
    <2> QED
      BY <2>1, <2>2, <2>3
  <1>16. NoTicketLost'
    BY <1>1, <1>4, <1>6, <1>8, <1>9 DEF NoTicketLost
  <1>17. AwaitInv'
    <2> SUFFICES ASSUME NEW u \in Thread, NEW k \in 1 .. Len(stack'[u]), stack'[u][k].pc = "await"
                 PROVE  IF k = Len(stack'[u]) THEN ~ HasTicket(grp'[stack'[u][k].g])
                        ELSE /\ stack'[u][k + 1].g = stack'[u][k].g
                             /\ stack'[u][k + 1].pc \in WorkPc
      BY DEF AwaitInv
    <2>1. k \in 1 .. Len(stack[u]) /\ stack'[u][k] = stack[u][k]
      BY <1>4, <1>8
    <2>2. IF k = Len(stack[u]) THEN ~ HasTicket(grp[stack[u][k].g])
          ELSE /\ stack[u][k + 1].g = stack[u][k].g
               /\ stack[u][k + 1].pc \in WorkPc
      BY <1>1, <2>1 DEF AwaitInv
    <2>3. CASE k # Len(stack[u])
      <3>1. k + 1 \in 1 .. Len(stack[u])
        BY <1>7, <2>1, <2>3
      <3>2. k # Len(stack'[u]) /\ stack'[u][k + 1] = stack[u][k + 1]
        BY <1>5, <1>7, <2>3, <3>1 DEF n
      <3> QED
        BY <2>1, <2>2, <2>3, <3>2
    \* The constructing thread runs operator code: it is not in Join.
    <2>4. CASE k = Len(stack[u])
      <3>1. u # t
        <4> SUFFICES ASSUME u = t PROVE FALSE
          OBVIOUS
        <4>1. stack[t][n].pc = "await" /\ n \in 1 .. Len(stack[t])
          BY <2>1, <2>4 DEF n
        <4>2. stack[t] # << >> /\ Top(t).pc = "await"
          BY <1>7, <4>1, EmptySeq DEF n, Top
        <4> QED
          BY <4>2 DEF Construct, InUserCode, TopPc
      <3> QED
        BY <1>5, <1>6, <1>9, <2>1, <2>2, <2>4, <3>1
    <2> QED
      BY <2>3, <2>4
  <1>18. JoinedInv'
    BY SMTT(30), <1>1, <1>4, <1>6, <1>8, <1>9 DEF JoinedInv
  <1> QED
    BY <1>10, <1>11, <1>12, <1>13, <1>14, <1>15, <1>16, <1>17, <1>18 DEF IInv

\* Nothing but the registry and the pool of workers changes.
LEMMA RegistryOnly ==
    ASSUME IInv, registry' \in Seq(Group \cup {NoGroup}), Registered(registry'),
           nrRunning' \in Nat, running' \in SUBSET Worker,
           nrRunning' = Cardinality(running') /\ nrRunning' <= MaxNrThreads,
           UNCHANGED <<alive, grp, stack, sleeping>>
    PROVE  IInv'
  <1>1. TypeOK'
    BY DEF IInv, TypeOK
  <1>2. GroupInv' /\ FrameInv' /\ FrameUnique'
    BY DEF IInv, GroupInv, FrameInv, FrameUnique
  <1>3. RegistryInv'
    BY DEF RegistryInv, Registered
  <1>4. NoTicketLost' /\ AwaitInv' /\ JoinedInv'
    BY DEF IInv, NoTicketLost, AwaitInv, JoinedInv
  <1> QED
    BY <1>1, <1>2, <1>3, <1>4 DEF IInv

\* takeOneTileTask serves a thread that is not inside Join.
LEMMA TakeFromInv ==
    ASSUME IInv, NEW t \in Thread, NEW m \in 0 .. Len(registry), m > 0, IsBack(m),
           ~ TopPc(t, {"await"}), TakeFrom(t, m),
           UNCHANGED <<alive, nrRunning, running, sleeping>>
    PROVE  IInv'
  <1> DEFINE g == registry[m]
             r == TakeTicket(grp[g])
             f == WorkFrame(g, grp[g].commissioned)
             reg == Truncate(registry, m)
  <1>1. /\ TypeOK /\ RegistryInv /\ GroupInv
        /\ registry \in Seq(Group \cup {NoGroup})
        /\ reg \in Seq(Group \cup {NoGroup}) /\ Registered(reg)
    BY RegistryTruncate DEF IInv, TypeOK
  <1>2. m \in 1 .. Len(registry) /\ g # NoGroup /\ HasTicket(grp[g])
    BY <1>1, LenProperties DEF IsBack
  <1>3. g \in alive
    BY <1>1, <1>2 DEF RegistryInv, Registered
  <1>4. g \in Group /\ grp[g] \in Fields /\ r \in Fields
    BY <1>1, <1>3, TakeTicketProperties DEF TypeOK
  <1>5. f \in Frame
    BY <1>4 DEF WorkFrame, Frame, WorkPc, Fields
  <1>6. /\ grp' = [grp EXCEPT ![g] = r]
        /\ registry' = DecommissionIfLast(reg, g, r)
        /\ stack' = [stack EXCEPT ![t] = Push(@, f)]
    BY DEF TakeFrom
  <1> HIDE DEF g, r, f, reg
  <1>7. registry' \in Seq(Group \cup {NoGroup}) /\ RegistryInv'
    BY <1>1, <1>4, <1>6, RegistryTake
  <1>8. /\ stack' \in [Thread -> Seq(Frame)]
        /\ Len(stack[t]) \in Nat
        /\ \A u \in Thread :
             Len(stack'[u]) = IF u = t THEN Len(stack[t]) + 1 ELSE Len(stack[u])
        /\ \A u \in Thread : \A k \in 1 .. Len(stack[u]) : stack'[u][k] = stack[u][k]
        /\ stack'[t][Len(stack[t]) + 1] = f
    BY <1>1, <1>5, <1>6, PushStep
  <1>9. Len(stack[t]) > 0 =>
          EntersFrom(stack[t][Len(stack[t])], stack'[t][Len(stack[t])], g)
    <2> SUFFICES ASSUME Len(stack[t]) > 0
                 PROVE  EntersFrom(stack[t][Len(stack[t])], stack'[t][Len(stack[t])], g)
      OBVIOUS
    <2>1. stack'[t][Len(stack[t])] = stack[t][Len(stack[t])]
      BY <1>8
    <2>2. stack[t] # << >>
      BY <1>1, EmptySeq DEF TypeOK
    <2>3. stack[t][Len(stack[t])].pc # "await"
      BY <2>2 DEF TopPc, Top
    <2> QED
      BY <2>1, <2>3 DEF EntersFrom
  <1>10. /\ grp' = [grp EXCEPT ![g] = TakeTicket(grp[g])]
         /\ stack'[t][Len(stack[t]) + 1] = WorkFrame(g, grp[g].commissioned)
    BY <1>6, <1>8 DEF r, f
  <1> QED
    BY <1>2, <1>3, <1>7, <1>8, <1>9, <1>10, TakeSlot

\* Stealing keeps the invariant.
LEMMA StealInv ==
    ASSUME IInv, NEW t \in Thread, NEW suspend, Steal(t, suspend) PROVE IInv'
  <1>1. PICK m \in 0 .. Len(registry) :
          /\ IsBack(m)
          /\ IF m > 0 /\ ~ suspend
             THEN TakeFrom(t, m)
             ELSE registry' = Truncate(registry, m) /\ UNCHANGED <<grp, stack>>
    BY DEF Steal
  <1>2. /\ ~ TopPc(t, {"await"})
        /\ UNCHANGED <<alive, nrRunning, running, sleeping>>
    BY DEF Steal, InUserCode, TopPc
  <1>3. CASE m > 0 /\ ~ suspend
    BY <1>1, <1>2, <1>3, TakeFromInv
  <1>4. CASE ~ (m > 0 /\ ~ suspend)
    <2>1. TypeOK /\ RegistryInv /\ nrRunning = Cardinality(running) /\ nrRunning <= MaxNrThreads
      BY DEF IInv
    <2>2. registry' = Truncate(registry, m) /\ UNCHANGED <<grp, stack>>
      BY <1>1, <1>4
    <2>3. registry' \in Seq(Group \cup {NoGroup}) /\ Registered(registry')
      BY <2>1, <2>2, RegistryTruncate DEF Registered
    <2> QED
      BY <1>2, <2>1, <2>2, <2>3, RegistryOnly DEF TypeOK
  <1> QED
    BY <1>3, <1>4

\* A turn of a worker keeps the invariant.
LEMMA WorkerTurnInv ==
    ASSUME IInv, NEW w \in Worker, WorkerTurn(w) PROVE IInv'
  <1>1. PICK m \in 0 .. Len(registry) :
          /\ IsBack(m)
          /\ IF m > 0
             THEN TakeFrom(w, m) /\ UNCHANGED <<nrRunning, running>>
             ELSE /\ registry' = << >>
                  /\ nrRunning' = nrRunning - 1
                  /\ running' = running \ {w}
                  /\ UNCHANGED <<grp, stack>>
    BY DEF WorkerTurn
  <1>2. w \in Thread /\ ~ TopPc(w, {"await"}) /\ UNCHANGED <<alive, sleeping>> /\ w \in running
    BY DEF WorkerTurn, TopPc, Thread
  <1>3. CASE m > 0
    BY <1>1, <1>2, <1>3, TakeFromInv
  <1>4. CASE ~ (m > 0)
    <2>1. TypeOK /\ nrRunning = Cardinality(running) /\ nrRunning <= MaxNrThreads
      BY DEF IInv
    <2>2. /\ registry' = << >> /\ nrRunning' = nrRunning - 1
          /\ running' = running \ {w} /\ UNCHANGED <<grp, stack>>
      BY <1>1, <1>4
    <2>3. IsFiniteSet(running) /\ IsFiniteSet(Worker)
      BY <2>1, TileAssumption, FS_Subset DEF TypeOK
    <2>4. Cardinality(running') = Cardinality(running) - 1 /\ Cardinality(running') \in Nat
      BY <1>2, <2>2, <2>3, FS_RemoveElement, FS_CardinalityType
    <2>5. running' \in SUBSET Worker /\ MaxNrThreads \in Nat
      BY <2>1, <2>2, <2>3, FS_CardinalityType DEF TypeOK, MaxNrThreads
    <2>6. registry' \in Seq(Group \cup {NoGroup}) /\ Registered(registry')
      BY <2>2, EmptySeq DEF Registered
    <2>7. nrRunning' \in Nat /\ nrRunning' = Cardinality(running')
      BY <2>1, <2>2, <2>4
    <2>8. nrRunning' <= MaxNrThreads
      <3>1. nrRunning \in Nat
        BY <2>1 DEF TypeOK
      <3> QED
        BY <2>1, <2>2, <2>5, <3>1
    <2> QED
      BY <1>2, <2>2, <2>5, <2>6, <2>7, <2>8, RegistryOnly
  <1> QED
    BY <1>3, <1>4

\* Every step keeps the invariant.
LEMMA NextInv ==
    ASSUME IInv, [Next]_vars PROVE IInv'
  <1>1. CASE UNCHANGED vars
    <2>1. /\ TypeOK /\ RegistryInv /\ nrRunning = Cardinality(running)
          /\ nrRunning <= MaxNrThreads
      BY DEF IInv
    <2> QED
      BY <1>1, <2>1, RegistryOnly DEF vars, TypeOK, RegistryInv, Registered
  <1>2. ASSUME NEW t \in Thread, NEW g \in Group, NEW n \in 0 .. MaxLast,
               NEW W \in SUBSET Worker, Construct(t, g, n, W)
        PROVE  IInv'
    BY <1>2, ConstructInv
  <1>3. ASSUME NEW t \in Thread, NEW suspend \in BOOLEAN, Steal(t, suspend)
        PROVE  IInv'
    BY <1>3, StealInv
  <1>4. ASSUME NEW t \in Thread, OwnerStep(t)
        PROVE  IInv'
    BY <1>4, JoinInv, AwaitStepInv, DestroyInv, DestroyRecheckInv DEF OwnerStep
  <1>5. ASSUME NEW t \in Thread, SlotStep(t)
        PROVE  IInv'
    BY <1>5, SlotStartInv, SlotReturnInv, SlotThrowInv DEF SlotStep
  <1>6. ASSUME NEW w \in Worker, WorkerTurn(w)
        PROVE  IInv'
    BY <1>6, WorkerTurnInv
  <1>7. ASSUME NEW g \in Group, Timeout(g)
        PROVE  IInv'
    BY <1>7, TimeoutInv
  <1> QED
    BY <1>1, <1>2, <1>3, <1>4, <1>5, <1>6, <1>7 DEF Next

-----------------------------------------------------------------------------
(* The results *)

\* IInv holds in every reachable state.
THEOREM Invariance == Spec => []IInv
  <1>1. Init => IInv
    BY InitInv
  <1>2. IInv /\ [Next]_vars => IInv'
    BY NextInv
  <1> QED
    BY <1>1, <1>2, PTL DEF Spec

\* Every variable keeps its type, whatever the numbers of groups, threads and
\* slots.
THEOREM TypeCorrect == Spec => []TypeOK
  <1>1. IInv => TypeOK
    BY DEF IInv
  <1> QED
    BY <1>1, Invariance, PTL

\* No thread is inside a destroyed group, and takeOneTileTask only finds groups
\* that are alive and have tickets left: ~tile_task_group waits long enough.
THEOREM DestroyIsSafe == Spec => []NoUseAfterDestroy
  <1>1. IInv => NoUseAfterDestroy
    BY DEF IInv, FrameInv, RegistryInv, Registered, NoUseAfterDestroy
  <1> QED
    BY <1>1, Invariance, PTL

\* A Join that returns without an exception has seen every slot completed.
THEOREM JoinIsComplete == Spec => []JoinComplete
  <1>1. IInv => JoinComplete
    BY DEF IInv, JoinedInv, AllDone, JoinComplete
  <1> QED
    BY <1>1, Invariance, PTL

\* s_NrRunningTileTaskThreads counts the launched workers and stays within the
\* number of virtual processors.
THEOREM PoolIsBounded == Spec => []WorkerBound
  <1>1. IInv => WorkerBound
    BY DEF IInv, WorkerBound
  <1> QED
    BY <1>1, Invariance, PTL

\* MG_CHECK(m_Commissioned == m_Last) at the start of AwaitRunningSlots holds.
THEOREM AwaitCheckHolds == Spec => []AwaitAllCommissioned
  <1>1. IInv => AwaitAllCommissioned
    <2> SUFFICES ASSUME IInv, NEW t \in Thread, TopPc(t, {"await"})
                 PROVE  grp[Top(t).g].commissioned = grp[Top(t).g].last
      BY DEF AwaitAllCommissioned
    <2>1. TypeOK /\ AwaitInv
      BY DEF IInv
    <2>2. /\ Top(t) = stack[t][Len(stack[t])] /\ Len(stack[t]) \in 1 .. Len(stack[t])
          /\ Top(t).pc = "await"
      BY <2>1, TopFrame
    <2>3. ~ HasTicket(grp[Top(t).g])
      BY <2>1, <2>2 DEF AwaitInv
    <2>4. grp[Top(t).g] \in Fields /\ Accounts(grp[Top(t).g])
      <3>1. TopPc(t, OwnPc)
        BY DEF TopPc, OwnPc
      <3> QED
        BY <3>1, OwnedGroup
    <2> QED
      BY <2>3, <2>4 DEF HasTicket, Accounts, Fields
  <1> QED
    BY <1>1, Invariance, PTL

\* No slot of a loop is worked on by two threads, or again after its completion:
\* the tickets of getNextCommissioned are unique, also across stealing threads.
THEOREM SlotsAreWorkedOnce == Spec => []SlotOnce
  <1>1. IInv => SlotOnce
    <2> SUFFICES ASSUME IInv, NEW g \in alive
                 PROVE  /\ \A p \in WorkPositions(g) :
                             stack[p[1]][p[2]].i \notin grp[g].completedWork
                        /\ \A p, q \in WorkPositions(g) :
                             stack[p[1]][p[2]].i = stack[q[1]][q[2]].i => p = q
      BY DEF SlotOnce
    <2>1. TypeOK /\ FrameInv /\ FrameUnique /\ GroupInv
      BY DEF IInv
    <2>2. ASSUME NEW p \in WorkPositions(g)
          PROVE  /\ p = <<p[1], p[2]>>
                 /\ p[1] \in Thread /\ p[2] \in 1 .. Len(stack[p[1]])
                 /\ stack[p[1]][p[2]].pc \in WorkPc
                 /\ stack[p[1]][p[2]].g = g
      BY DEF WorkPositions
    <2>3. ASSUME NEW p \in WorkPositions(g)
          PROVE  stack[p[1]][p[2]].i \notin grp[g].completedWork
      <3>1. stack[p[1]][p[2]].i \in grp[g].busy
        BY <2>1, <2>2 DEF FrameInv
      <3>2. grp[g].busy \cap grp[g].completedWork = {}
        BY <2>1 DEF GroupInv, Accounts
      <3> QED
        BY <3>1, <3>2
    <2>4. ASSUME NEW p \in WorkPositions(g), NEW q \in WorkPositions(g),
                 stack[p[1]][p[2]].i = stack[q[1]][q[2]].i
          PROVE  p = q
      <3>1. p[1] = q[1] /\ p[2] = q[2]
        BY <2>1, <2>2, <2>4 DEF FrameUnique
      <3> QED
        BY <2>2, <3>1
    <2> QED
      BY <2>3, <2>4
  <1> QED
    BY <1>1, Invariance, PTL
=============================================================================
