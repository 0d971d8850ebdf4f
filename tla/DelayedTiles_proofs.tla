-------------------------- MODULE DelayedTiles_proofs --------------------------
(*****************************************************************************)
(* That only complete data is handed out, by one filling thread, from records *)
(* that are still there and clones that nobody else uses, for any tiles,      *)
(* items, threads, tokens and exceptions, by IInv of DelayedTiles.            *)
(*****************************************************************************)
EXTENDS DelayedTiles, FiniteSetTheorems, SequenceTheorems, WellFoundedInduction, TLAPS

-----------------------------------------------------------------------------
(* Sequences of calls, whose first is the innermost one *)

\* Call f is at height h of the calls s.
Stands(s, h, f) == h \in 1 .. Len(s) /\ s[Len(s) + 1 - h] = f

LEMMA OneStands ==
    ASSUME NEW s \in Seq(Frame)
    PROVE  /\ Len(s) \in Nat
           /\ \A h, f, g : Stands(s, h, f) /\ Stands(s, h, g) => f = g
           /\ \A h, f : Stands(s, h, f) => f \in Frame /\ h \in Nat \ {0} /\ h <= Len(s)
           /\ \A h \in 1 .. Len(s) : \E f : Stands(s, h, f)
           /\ s # <<>> => Len(s) # 0 /\ Head(s) \in Frame /\ Stands(s, Len(s), Head(s))
           /\ s = <<>> => Len(s) = 0 /\ \A h, f : ~ Stands(s, h, f)
  <1>1. Len(s) \in Nat
    BY LenProperties
  <1>2. \A h \in 1 .. Len(s) : Len(s) + 1 - h \in 1 .. Len(s)
    BY <1>1
  <1>3. \A h, f : Stands(s, h, f) => f \in Frame /\ h \in Nat \ {0} /\ h <= Len(s)
    BY <1>1, <1>2, ElementOfSeq DEF Stands
  <1>4. s # <<>> => Len(s) # 0 /\ Head(s) \in Frame /\ Stands(s, Len(s), Head(s))
    <2> SUFFICES ASSUME s # <<>> PROVE Len(s) # 0 /\ Head(s) \in Frame /\ Stands(s, Len(s), Head(s))
      OBVIOUS
    <2>1. Len(s) \in Nat \ {0} /\ Head(s) \in Frame /\ Head(s) = s[1]
      BY EmptySeq, HeadTailProperties
    <2>2. Len(s) + 1 - Len(s) = 1 /\ Len(s) \in 1 .. Len(s)
      BY <2>1
    <2> QED
      BY <2>1, <2>2 DEF Stands
  <1>5. s = <<>> => Len(s) = 0 /\ \A h, f : ~ Stands(s, h, f)
    BY DEF Stands
  <1> QED
    BY <1>1, <1>3, <1>4, <1>5 DEF Stands

LEMMA PushStands ==
    ASSUME NEW s \in Seq(Frame), NEW f \in Frame
    PROVE  /\ <<f>> \o s \in Seq(Frame) /\ Len(<<f>> \o s) = Len(s) + 1
           /\ Head(<<f>> \o s) = f /\ <<f>> \o s # <<>>
           /\ \A h, g : Stands(<<f>> \o s, h, g) <=> Stands(s, h, g) \/ (h = Len(s) + 1 /\ g = f)
  <1>1. Len(s) \in Nat
    BY LenProperties
  <1>2. <<f>> \in Seq(Frame) /\ Len(<<f>>) = 1 /\ <<f>>[1] = f
    OBVIOUS
  <1>3. PICK q : q = <<f>> \o s
    OBVIOUS
  <1>4. /\ q \in Seq(Frame) /\ Len(q) = 1 + Len(s)
        /\ \A i \in 1 .. 1 + Len(s) : q[i] = IF i <= 1 THEN <<f>>[i] ELSE s[i - 1]
    BY <1>2, <1>3, ConcatProperties
  <1>5. Len(q) = Len(s) + 1 /\ q[1] = f /\ q # <<>> /\ Head(q) = f
    BY <1>1, <1>2, <1>4
  <1>6. \A h, g : Stands(q, h, g) <=> Stands(s, h, g) \/ (h = Len(s) + 1 /\ g = f)
    <2> TAKE h, g
    <2>1. CASE h \in 1 .. Len(s)
      <3>1. PICK n, i : n = Len(s) /\ i = n + 1 - h
        OBVIOUS
      <3>2. n \in Nat /\ h \in 1 .. n /\ i \in 1 .. n /\ h # n + 1
        BY <1>1, <2>1, <3>1
      <3>3. h \in 1 .. n + 1 /\ n + 1 + 1 - h = i + 1 /\ i + 1 \in 1 .. 1 + n /\ ~ (i + 1 <= 1) /\ i + 1 - 1 = i
        BY <3>1, <3>2
      <3>4. q[i + 1] = s[i]
        BY <1>4, <3>1, <3>3
      <3> QED
        BY <1>5, <3>1, <3>2, <3>3, <3>4 DEF Stands
    <2>2. CASE h = Len(s) + 1
      <3>1. h \in 1 .. Len(s) + 1 /\ h \notin 1 .. Len(s) /\ Len(s) + 1 + 1 - h = 1
        BY <1>1, <2>2
      <3> QED
        BY <1>5, <2>2, <3>1 DEF Stands
    <2>3. CASE h \notin 1 .. Len(s) + 1
      <3>1. h \notin 1 .. Len(s) /\ h # Len(s) + 1
        BY <1>1, <2>3
      <3> QED
        BY <1>5, <2>3, <3>1 DEF Stands
    <2>4. h \in 1 .. Len(s) + 1 => h \in 1 .. Len(s) \/ h = Len(s) + 1
      BY <1>1
    <2> QED
      BY <2>1, <2>2, <2>3, <2>4
  <1> QED
    BY <1>3, <1>4, <1>5, <1>6

LEMMA PopStands ==
    ASSUME NEW s \in Seq(Frame), s # <<>>
    PROVE  /\ Tail(s) \in Seq(Frame) /\ Len(Tail(s)) = Len(s) - 1
           /\ \A h, g : Stands(Tail(s), h, g) <=> Stands(s, h, g) /\ h # Len(s)
  <1>1. PICK q : q = Tail(s)
    OBVIOUS
  <1>2. PICK n : n = Len(s)
    OBVIOUS
  <1>3. n \in Nat \ {0} /\ q \in Seq(Frame) /\ Len(q) = n - 1
        /\ \A i \in 1 .. n - 1 : q[i] = s[i + 1]
    <2>1. n \in Nat \ {0}
      BY <1>2, EmptySeq
    <2>2. q \in Seq(Frame) /\ Len(q) = Len(s) - 1 /\ \A i \in 1 .. Len(q) : q[i] = s[i + 1]
      BY <1>1, HeadTailProperties
    <2> QED
      BY <1>2, <2>1, <2>2
  <1>4. \A h, g : Stands(q, h, g) <=> Stands(s, h, g) /\ h # n
    <2> TAKE h, g
    <2>1. CASE h \in 1 .. n - 1
      <3>1. PICK i : i = n - h
        OBVIOUS
      <3>2. i \in 1 .. n - 1 /\ n - 1 + 1 - h = i /\ n + 1 - h = i + 1 /\ h \in 1 .. n /\ h # n
        BY <1>3, <2>1, <3>1
      <3> QED
        BY <1>2, <1>3, <2>1, <3>2 DEF Stands
    <2>2. CASE h \notin 1 .. n - 1
      <3>1. h \in 1 .. n => h = n
        BY <1>3, <2>2
      <3> QED
        BY <1>2, <1>3, <2>2, <3>1 DEF Stands
    <2> QED
      BY <2>1, <2>2
  <1> QED
    BY <1>1, <1>2, <1>3, <1>4

LEMMA CallStands ==
    ASSUME NEW s \in Seq(Frame)
    PROVE  /\ \A h \in 1 .. Len(s) : Stands(s, h, s[Len(s) + 1 - h])
           /\ \A f : (\E d \in 1 .. Len(s) : s[d] = f) <=> \E h : Stands(s, h, f)
  <1>1. Len(s) \in Nat
    BY LenProperties
  <1>2. ASSUME NEW f, NEW d \in 1 .. Len(s), s[d] = f PROVE \E h : Stands(s, h, f)
    <2>1. PICK n, h : n = Len(s) /\ h = n + 1 - d
      OBVIOUS
    <2>2. h \in 1 .. n /\ n + 1 - h = d
      BY <1>1, <2>1
    <2>3. Stands(s, h, f)
      BY <1>2, <2>1, <2>2 DEF Stands
    <2> QED
      BY <2>3
  <1>3. ASSUME NEW f, NEW h, Stands(s, h, f) PROVE \E d \in 1 .. Len(s) : s[d] = f
    <2>1. Len(s) + 1 - h \in 1 .. Len(s)
      BY <1>1, <1>3 DEF Stands
    <2> QED
      BY <1>3, <2>1 DEF Stands
  <1> QED
    BY <1>2, <1>3 DEF Stands

-----------------------------------------------------------------------------
(* The calls of the threads *)

Stacks == stack \in [Thread -> Seq(Frame)]
Has(t, h, f) == t \in Thread /\ Stands(stack[t], h, f)

LEMMA HasFacts ==
    ASSUME Stacks
    PROVE  /\ \A t \in Thread : Height(t) \in Nat
           /\ \A t, h, f : Has(t, h, f) =>
                t \in Thread /\ f \in Frame /\ h \in Nat \ {0} /\ h <= Height(t)
           /\ \A t, h, f, g : Has(t, h, f) /\ Has(t, h, g) => f = g
           /\ \A t \in Thread : \A h \in 1 .. Height(t) : Has(t, h, Call(t, h))
           /\ \A t, h, f : Has(t, h, f) => h \in 1 .. Height(t) /\ Call(t, h) = f
           /\ \A t \in Thread : \A f : f \in Frames(t) <=> \E h : Has(t, h, f)
           /\ \A t \in Thread : stack[t] # <<>> =>
                Height(t) \in Nat \ {0} /\ Top(t) \in Frame /\ Has(t, Height(t), Top(t))
           /\ \A t, h, f : Has(t, h, f) => stack[t] # <<>>
  <1>1. \A t \in Thread : stack[t] \in Seq(Frame)
    BY DEF Stacks
  <1>2. \A t \in Thread : \A f : f \in Frames(t) <=> \E h : Has(t, h, f)
    BY <1>1, CallStands DEF Has, Frames
  <1>3. \A t \in Thread : \A h \in 1 .. Height(t) : Has(t, h, Call(t, h))
    BY <1>1, CallStands DEF Has, Height, Call
  <1>4. \A t \in Thread : stack[t] # <<>> =>
          Height(t) \in Nat \ {0} /\ Top(t) \in Frame /\ Has(t, Height(t), Top(t))
    BY <1>1, OneStands DEF Has, Height, Top
  <1>5. \A t, h, f : Has(t, h, f) => h \in 1 .. Height(t) /\ Call(t, h) = f
    BY DEF Has, Stands, Height, Call
  <1>6. \A t \in Thread : Height(t) \in Nat
    BY <1>1, OneStands DEF Height
  <1>7. \A t, h, f : Has(t, h, f) =>
          t \in Thread /\ f \in Frame /\ h \in Nat \ {0} /\ h <= Height(t) /\ stack[t] # <<>>
    BY <1>1, OneStands DEF Has, Height
  <1>8. \A t, h, f, g : Has(t, h, f) /\ Has(t, h, g) => f = g
    BY <1>1, OneStands DEF Has
  <1> QED
    BY <1>2, <1>3, <1>4, <1>5, <1>6, <1>7, <1>8

LEMMA HasFactsNext ==
    ASSUME Stacks'
    PROVE  /\ \A t \in Thread : Height(t)' \in Nat
           /\ \A t, h, f : Has(t, h, f)' =>
                t \in Thread /\ f \in Frame /\ h \in Nat \ {0} /\ h <= Height(t)'
           /\ \A t, h, f, g : Has(t, h, f)' /\ Has(t, h, g)' => f = g
           /\ \A t \in Thread : \A h \in 1 .. Height(t)' : Has(t, h, Call(t, h))'
           /\ \A t \in Thread : \A f : f \in Frames(t)' <=> \E h : Has(t, h, f)'
  <1>1. \A t \in Thread : stack'[t] \in Seq(Frame)
    BY DEF Stacks
  <1>2. \A t \in Thread : \A f : f \in Frames(t)' <=> \E h : Has(t, h, f)'
    BY <1>1, CallStands DEF Has, Frames
  <1>3. \A t \in Thread : \A h \in 1 .. Height(t)' : Has(t, h, Call(t, h))'
    BY <1>1, CallStands DEF Has, Height, Call
  <1>6. \A t \in Thread : Height(t)' \in Nat
    BY <1>1, OneStands DEF Height
  <1>7. \A t, h, f : Has(t, h, f)' =>
          t \in Thread /\ f \in Frame /\ h \in Nat \ {0} /\ h <= Height(t)'
    BY <1>1, OneStands DEF Has, Height
  <1>8. \A t, h, f, g : Has(t, h, f)' /\ Has(t, h, g)' => f = g
    BY <1>1, OneStands DEF Has
  <1> QED
    BY <1>2, <1>3, <1>6, <1>7, <1>8

\* The calls of one thread change.
LEMMA StackOf ==
    ASSUME Stacks, NEW t \in Thread, NEW s \in Seq(Frame), stack' = [stack EXCEPT ![t] = s]
    PROVE  /\ Stacks' /\ stack'[t] = s /\ Height(t)' = Len(s)
           /\ \A u \in Thread \ {t} : stack'[u] = stack[u] /\ Height(u)' = Height(u)
           /\ \A u, h, x : Has(u, h, x)' <=> (Has(u, h, x) /\ u # t) \/ (u = t /\ Stands(s, h, x))
  BY DEF Stacks, Has, Height

\* A call is made.
LEMMA StepPush ==
    ASSUME Stacks, NEW t \in Thread, NEW f \in Frame,
           stack' = [stack EXCEPT ![t] = <<f>> \o stack[t]]
    PROVE  /\ Stacks' /\ Height(t)' = Height(t) + 1 /\ stack'[t] # <<>> /\ Head(stack'[t]) = f
           /\ \A u \in Thread \ {t} : stack'[u] = stack[u] /\ Height(u)' = Height(u)
           /\ \A u, h, x : Has(u, h, x)' <=> Has(u, h, x) \/ (u = t /\ h = Height(t) + 1 /\ x = f)
  <1>1. PICK s, n : s = <<f>> \o stack[t] /\ n = Height(t)
    OBVIOUS
  <1>2. /\ s \in Seq(Frame) /\ Len(s) = n + 1 /\ Head(s) = f /\ s # <<>>
        /\ \A h, x : Stands(s, h, x) <=> Stands(stack[t], h, x) \/ (h = n + 1 /\ x = f)
    BY <1>1, PushStands DEF Stacks, Height
  <1>3. stack' = [stack EXCEPT ![t] = s]
    BY <1>1
  <1>4. /\ Stacks' /\ stack'[t] = s /\ Height(t)' = Len(s)
        /\ \A u \in Thread \ {t} : stack'[u] = stack[u] /\ Height(u)' = Height(u)
        /\ \A u, h, x : Has(u, h, x)' <=> (Has(u, h, x) /\ u # t) \/ (u = t /\ Stands(s, h, x))
    BY <1>2, <1>3, StackOf
  <1>5. \A u, h, x : Has(u, h, x)' <=> Has(u, h, x) \/ (u = t /\ h = n + 1 /\ x = f)
    BY <1>2, <1>4 DEF Has
  <1> QED
    BY <1>1, <1>2, <1>4, <1>5

\* The innermost call goes on.
LEMMA StepRetop ==
    ASSUME Stacks, NEW t \in Thread, NEW f \in Frame, stack[t] # <<>>,
           stack' = [stack EXCEPT ![t] = <<f>> \o Tail(stack[t])]
    PROVE  /\ Stacks' /\ Height(t)' = Height(t) /\ stack'[t] # <<>> /\ Head(stack'[t]) = f
           /\ \A u \in Thread \ {t} : stack'[u] = stack[u] /\ Height(u)' = Height(u)
           /\ \A u, h, x : Has(u, h, x)' <=> \/ Has(u, h, x) /\ ~ (u = t /\ h = Height(t))
                                             \/ u = t /\ h = Height(t) /\ x = f
  <1>1. PICK q, s, n : q = Tail(stack[t]) /\ s = <<f>> \o q /\ n = Height(t)
    OBVIOUS
  <1>2. n \in Nat \ {0}
    BY <1>1, HasFacts
  <1>3. /\ q \in Seq(Frame) /\ Len(q) = n - 1
        /\ \A h, x : Stands(q, h, x) <=> Stands(stack[t], h, x) /\ h # n
    BY <1>1, PopStands DEF Stacks, Height
  <1>4. /\ s \in Seq(Frame) /\ Len(s) = n - 1 + 1 /\ Head(s) = f /\ s # <<>>
        /\ \A h, x : Stands(s, h, x) <=> Stands(q, h, x) \/ (h = n - 1 + 1 /\ x = f)
    <2>1. /\ <<f>> \o q \in Seq(Frame) /\ Len(<<f>> \o q) = Len(q) + 1
          /\ Head(<<f>> \o q) = f /\ <<f>> \o q # <<>>
          /\ \A h, x : Stands(<<f>> \o q, h, x) <=> Stands(q, h, x) \/ (h = Len(q) + 1 /\ x = f)
      BY <1>3, PushStands
    <2> QED
      BY <1>1, <1>3, <2>1
  <1>5. n - 1 + 1 = n
    BY <1>2
  <1>6. /\ Stacks' /\ stack'[t] = s /\ Height(t)' = Len(s)
        /\ \A u \in Thread \ {t} : stack'[u] = stack[u] /\ Height(u)' = Height(u)
        /\ \A u, h, x : Has(u, h, x)' <=> (Has(u, h, x) /\ u # t) \/ (u = t /\ Stands(s, h, x))
    BY <1>1, <1>4, StackOf
  <1>7. \A u, h, x : Has(u, h, x)' <=> \/ Has(u, h, x) /\ ~ (u = t /\ h = n)
                                       \/ u = t /\ h = n /\ x = f
    BY <1>3, <1>4, <1>5, <1>6 DEF Has
  <1> QED
    BY <1>1, <1>4, <1>5, <1>6, <1>7

\* The innermost call is left.
LEMMA StepPop ==
    ASSUME Stacks, NEW t \in Thread, stack[t] # <<>>,
           stack' = [stack EXCEPT ![t] = Tail(stack[t])]
    PROVE  /\ Stacks' /\ Height(t)' = Height(t) - 1 /\ stack'[t] = Tail(stack[t])
           /\ \A u \in Thread \ {t} : stack'[u] = stack[u] /\ Height(u)' = Height(u)
           /\ \A u, h, x : Has(u, h, x)' <=> Has(u, h, x) /\ ~ (u = t /\ h = Height(t))
  <1>1. PICK s, n : s = Tail(stack[t]) /\ n = Height(t)
    OBVIOUS
  <1>2. /\ s \in Seq(Frame) /\ Len(s) = n - 1
        /\ \A h, x : Stands(s, h, x) <=> Stands(stack[t], h, x) /\ h # n
    BY <1>1, PopStands DEF Stacks, Height
  <1>3. /\ Stacks' /\ stack'[t] = s /\ Height(t)' = Len(s)
        /\ \A u \in Thread \ {t} : stack'[u] = stack[u] /\ Height(u)' = Height(u)
        /\ \A u, h, x : Has(u, h, x)' <=> (Has(u, h, x) /\ u # t) \/ (u = t /\ Stands(s, h, x))
    BY <1>1, <1>2, StackOf
  <1> QED
    BY <1>1, <1>2, <1>3 DEF Has

\* The innermost call is left and its caller goes on.
LEMMA StepResume ==
    ASSUME Stacks, NEW t \in Thread, NEW g \in Frame,
           stack[t] # <<>>, Tail(stack[t]) # <<>>,
           stack' = [stack EXCEPT ![t] = <<g>> \o Tail(Tail(stack[t]))]
    PROVE  /\ Stacks' /\ Height(t)' = Height(t) - 1 /\ stack'[t] # <<>> /\ Head(stack'[t]) = g
           /\ Height(t) - 1 \in Nat \ {0} /\ Head(Tail(stack[t])) \in Frame
           /\ Has(t, Height(t) - 1, Head(Tail(stack[t])))
           /\ \A u \in Thread \ {t} : stack'[u] = stack[u] /\ Height(u)' = Height(u)
           /\ \A u, h, x : Has(u, h, x)' <=>
                \/ Has(u, h, x) /\ ~ (u = t /\ h \in {Height(t), Height(t) - 1})
                \/ u = t /\ h = Height(t) - 1 /\ x = g
  <1>1. PICK p, q, s, n, m :
          /\ p = Tail(stack[t]) /\ q = Tail(p) /\ s = <<g>> \o q /\ n = Height(t) /\ m = n - 1
    OBVIOUS
  <1>2. /\ p \in Seq(Frame) /\ Len(p) = m /\ p # <<>>
        /\ \A h, x : Stands(p, h, x) <=> Stands(stack[t], h, x) /\ h # n
    BY <1>1, PopStands DEF Stacks, Height
  <1>3. m \in Nat \ {0} /\ Head(p) \in Frame /\ Stands(p, m, Head(p))
    BY <1>2, OneStands, EmptySeq
  <1>4. /\ q \in Seq(Frame) /\ Len(q) = m - 1
        /\ \A h, x : Stands(q, h, x) <=> Stands(p, h, x) /\ h # m
    BY <1>1, <1>2, PopStands
  <1>5. /\ s \in Seq(Frame) /\ Len(s) = m - 1 + 1 /\ Head(s) = g /\ s # <<>>
        /\ \A h, x : Stands(s, h, x) <=> Stands(q, h, x) \/ (h = m - 1 + 1 /\ x = g)
    <2>1. /\ <<g>> \o q \in Seq(Frame) /\ Len(<<g>> \o q) = Len(q) + 1
          /\ Head(<<g>> \o q) = g /\ <<g>> \o q # <<>>
          /\ \A h, x : Stands(<<g>> \o q, h, x) <=> Stands(q, h, x) \/ (h = Len(q) + 1 /\ x = g)
      BY <1>4, PushStands
    <2> QED
      BY <1>1, <1>4, <2>1
  <1>6. m - 1 + 1 = m
    BY <1>3
  <1>7. /\ Stacks' /\ stack'[t] = s /\ Height(t)' = Len(s)
        /\ \A u \in Thread \ {t} : stack'[u] = stack[u] /\ Height(u)' = Height(u)
        /\ \A u, h, x : Has(u, h, x)' <=> (Has(u, h, x) /\ u # t) \/ (u = t /\ Stands(s, h, x))
    BY <1>1, <1>5, StackOf
  <1>8. \A u, h, x : Has(u, h, x)' <=> \/ Has(u, h, x) /\ ~ (u = t /\ h \in {n, m})
                                       \/ u = t /\ h = m /\ x = g
    BY <1>2, <1>4, <1>5, <1>6, <1>7 DEF Has
  <1>9. Has(t, m, Head(p))
    BY <1>2, <1>3 DEF Has
  <1> QED
    BY <1>1, <1>3, <1>5, <1>6, <1>7, <1>8, <1>9

-----------------------------------------------------------------------------
(* The invariant by the calls and their heights *)

Good(t, h, f) ==
    /\ f.got \subseteq Arg[f.tile] /\ (f.got # {} => f.pc \in {"fill", "unwind"})
    /\ h < Height(t) => f.pc = "fill"
    /\ f.pc \in InFarm => ItemOf[f.tile] \in Source
Base(t, f) ==
    IF t \in Worker THEN f.slot # NoTile
    ELSE f.slot = NoTile /\ reader[t].pc = "calling" /\ reader[t].tile = f.tile

CallsAt ==
    /\ \A t, h, f : Has(t, h, f) => Good(t, h, f)
    /\ \A t, f : Has(t, 1, f) => Base(t, f)
    /\ \A t, h, f, e : Has(t, h, f) /\ Has(t, h - 1, e) => f.tile \in Arg[e.tile]
    /\ \A t, h, f, g, e : Has(t, h, f) /\ Has(t, g, e) /\ g < h => Rank(f.tile) < Rank(e.tile)

ReadersAt ==
    /\ \A t \in Worker : reader[t] = Idle
    /\ \A t \in Thread : reader[t].pc = "calling" /\ reader[t].by = "functor" =>
           ItemOf[reader[t].tile] \in object
    /\ \A t \in Thread : reader[t].pc = "future" => reader[t].by = "future"

Locked(t, f) ==
    /\ f.pc \in Holding => mutex[f.tile] = t
    /\ f.pc \in Filling => tile[f.tile] = IF IsLazy(f.tile) THEN "raw" ELSE "none"
    /\ f.pc \in {"push", "post"} => tile[f.tile] = IF exc[t] = "none" THEN "whole" ELSE "raw"
    /\ f.pc = "leave" => tile[f.tile] = "whole"
    /\ f.pc \in {"unwind", "unlock"} => tile[f.tile] # "whole"

Unready == {"fill", "pop", "read", "push", "post", "unwind"}
RawAt(n) == \E t, h, f : Has(t, h, f) /\ f.tile = n /\ f.pc \in Unready
SpecOf(n) == spec[n] = Arg[n] \/ (tile[n] = "whole" /\ ~IsLazy(n))
LockAt ==
    /\ \A t, h, f : Has(t, h, f) => Locked(t, f)
    /\ \A n \in Tile : tile[n] = "raw" => IsLazy(n) /\ RawAt(n)
    /\ \A n \in Tile : SpecOf(n)

\* A reader, a call or a slot that is done has a shared pointer to the data of a tile.
Shared(n) ==
    \/ \E p \in Tile : task[p] = "done" /\ n \in Async[p]
    \/ \E t \in Thread : reader[t].pc = "keeping" /\ reader[t].tile = n
    \/ \E t, h, f : Has(t, h, f) /\ n \in f.got
HeldAt == \A n : Shared(n) => tile[n] = "whole"

OwnerAt(n) == \E t, h, f : /\ Has(t, h, f) /\ f.tile = n /\ f.pc \in {"fill", "unwind"}
                           /\ ~(Async[n] \subseteq f.got)
SlotAt ==
    /\ \A t, h, f : Has(t, h, f) /\ f.slot # NoTile => task[f.slot] = "busy" /\ f.tile \in Async[f.slot]
    /\ \A t, h, f, u, g, e :
          Has(t, h, f) /\ Has(u, g, e) /\ f.slot # NoTile /\ e.slot = f.slot => t = u /\ h = g
    /\ \A t, h, f, e : Has(t, h, f) /\ Has(t, h - 1, e) /\ f.slot = NoTile /\ f.tile \in Async[e.tile]
          => task[e.tile] = "none"
    /\ \A n \in Tile : task[n] # "none" => OwnerAt(n)

IInvAt == TypeOK /\ Stacks /\ CallsAt /\ ReadersAt /\ ExcInv /\ LockAt /\ HeldAt /\ SlotAt /\ FarmInv

LEMMA InvAt == ASSUME IInv PROVE IInvAt
  <1>1. TypeOK /\ Stacks /\ StackInv /\ ExcInv /\ LockInv /\ HeldInv /\ SlotInv /\ FarmInv
    BY DEF IInv, TypeOK, Stacks
  <1>2. /\ \A t \in Thread : Height(t) \in Nat
        /\ \A t, h, f : Has(t, h, f) => /\ t \in Thread /\ f \in Frame /\ h \in Nat \ {0}
                                        /\ h \in 1 .. Height(t) /\ Call(t, h) = f
        /\ \A t \in Thread : \A f : f \in Frames(t) <=> \E h : Has(t, h, f)
    BY <1>1, HasFacts
  <1>3. CallsAt
    <2>1. ASSUME NEW t, NEW h, NEW f, Has(t, h, f)
          PROVE  Good(t, h, f) /\ (h = 1 => Base(t, f))
      BY <1>1, <1>2, <2>1 DEF StackInv, Good, Base
    <2>2. ASSUME NEW t, NEW h, NEW f, NEW e, Has(t, h, f), Has(t, h - 1, e)
          PROVE  f.tile \in Arg[e.tile]
      <3>1. h > 1
        BY <1>2, <2>2
      <3> QED
        BY <1>1, <1>2, <2>2, <3>1 DEF StackInv
    <2>3. ASSUME NEW t, NEW h, NEW f, NEW g, NEW e, Has(t, h, f), Has(t, g, e), g < h
          PROVE  Rank(f.tile) < Rank(e.tile)
      <3>1. g \in 1 .. h - 1
        BY <1>2, <2>3
      <3> QED
        BY <1>1, <1>2, <2>3, <3>1 DEF StackInv
    <2> QED
      BY <2>1, <2>2, <2>3 DEF CallsAt
  <1>4. ReadersAt
    BY <1>1 DEF StackInv, ReadersAt
  <1>5. LockAt
    <2>1. ASSUME NEW t, NEW h, NEW f, Has(t, h, f) PROVE Locked(t, f)
      BY <1>1, <1>2, <2>1 DEF LockInv, Locked
    <2>2. ASSUME NEW n \in Tile, tile[n] = "raw" PROVE IsLazy(n) /\ RawAt(n)
      <3>1. IsLazy(n) /\ \E t \in Thread : \E f \in Frames(t) : f.tile = n /\ f.pc \in Unready
        BY <1>1, <2>2 DEF LockInv, Unready
      <3> QED
        BY <1>2, <3>1 DEF RawAt
    <2> QED
      BY <1>1, <2>1, <2>2 DEF LockInv, LockAt, SpecOf
  <1>6. HeldAt
    <2> SUFFICES ASSUME NEW n, Shared(n) PROVE tile[n] = "whole"
      BY DEF HeldAt
    <2>1. CASE \E p \in Tile : task[p] = "done" /\ n \in Async[p]
      BY <1>1, <2>1 DEF HeldInv
    <2>2. CASE \E t \in Thread : reader[t].pc = "keeping" /\ reader[t].tile = n
      BY <1>1, <2>2 DEF HeldInv
    <2>3. CASE \E t, h, f : Has(t, h, f) /\ n \in f.got
      BY <1>1, <1>2, <2>3 DEF HeldInv
    <2> QED
      BY <2>1, <2>2, <2>3 DEF Shared
  <1>7. SlotAt
    <2>1. ASSUME NEW t, NEW h, NEW f, NEW u, NEW g, NEW e,
                 Has(t, h, f), Has(u, g, e), f.slot # NoTile
          PROVE  /\ task[f.slot] = "busy" /\ f.tile \in Async[f.slot]
                 /\ e.slot = f.slot => t = u /\ h = g
      BY <1>1, <1>2, <2>1 DEF SlotInv
    <2>2. ASSUME NEW t, NEW h, NEW f, NEW e, Has(t, h, f), Has(t, h - 1, e), f.slot = NoTile,
                 f.tile \in Async[e.tile]
          PROVE  task[e.tile] = "none"
      <3>1. h \in 2 .. Height(t)
        BY <1>2, <2>2
      <3> QED
        BY <1>1, <1>2, <2>2, <3>1 DEF SlotInv
    <2>3. ASSUME NEW n \in Tile, task[n] # "none" PROVE OwnerAt(n)
      <3>1. \E t \in Thread : \E f \in Frames(t) :
               f.tile = n /\ f.pc \in {"fill", "unwind"} /\ ~(Async[n] \subseteq f.got)
        BY <1>1, <2>3 DEF SlotInv
      <3> QED
        BY <1>2, <3>1 DEF OwnerAt
    <2> QED
      BY <2>1, <2>2, <2>3 DEF SlotAt
  <1> QED
    BY <1>1, <1>3, <1>4, <1>5, <1>6, <1>7 DEF IInvAt

LEMMA AtInv == ASSUME IInvAt' PROVE IInv'
  <1>1. /\ TypeOK' /\ Stacks' /\ CallsAt' /\ ReadersAt' /\ ExcInv' /\ LockAt' /\ HeldAt'
        /\ SlotAt' /\ FarmInv'
    BY DEF IInvAt
  <1>2. /\ \A t \in Thread : Height(t)' \in Nat
        /\ \A t \in Thread : \A h \in 1 .. Height(t)' : Has(t, h, Call(t, h))'
        /\ \A t \in Thread : \A f : f \in Frames(t)' <=> \E h : Has(t, h, f)'
    BY <1>1, HasFactsNext
  <1>3. StackInv'
    <2>1. ASSUME NEW t \in Thread, NEW h \in 1 .. Height(t)'
          PROVE  LET f == Call(t, h)'
                 IN  /\ f.got \subseteq Arg[f.tile] /\ (f.got # {} => f.pc \in {"fill", "unwind"})
                     /\ h < Height(t)' => f.pc = "fill"
                     /\ \A g \in 1 .. h - 1 : Rank(f.tile) < Rank(Call(t, g)'.tile)
                     /\ h > 1 => f.tile \in Arg[Call(t, h - 1)'.tile]
                     /\ f.pc \in InFarm => ItemOf[f.tile] \in Source
                     /\ h = 1 => IF t \in Worker THEN f.slot # NoTile
                                 ELSE /\ f.slot = NoTile /\ reader'[t].pc = "calling"
                                      /\ reader'[t].tile = f.tile
      <3>1. PICK f : f = Call(t, h)'
        OBVIOUS
      <3>2. Has(t, h, f)'
        BY <1>2, <2>1, <3>1
      <3>3. Good(t, h, f)' /\ (h = 1 => Base(t, f)')
        BY <1>1, <3>2 DEF CallsAt
      <3>4. ASSUME NEW g \in 1 .. h - 1 PROVE Rank(f.tile) < Rank(Call(t, g)'.tile)
        <4>1. g \in 1 .. Height(t)' /\ g < h
          BY <1>2, <2>1, <3>4
        <4> QED
          BY <1>1, <1>2, <3>2, <4>1 DEF CallsAt, Rank
      <3>5. h > 1 => f.tile \in Arg[Call(t, h - 1)'.tile]
        <4>1. h > 1 => h - 1 \in 1 .. Height(t)'
          BY <1>2, <2>1
        <4> QED
          BY <1>1, <1>2, <3>2, <4>1 DEF CallsAt
      <3> QED
        BY <3>1, <3>3, <3>4, <3>5 DEF Good, Base
    <2> QED
      BY <1>1, <2>1 DEF StackInv, ReadersAt, Rank
  <1>4. LockInv'
    <2>1. ASSUME NEW t \in Thread, NEW h \in 1 .. Height(t)' PROVE Locked(t, Call(t, h))'
      BY <1>1, <1>2, <2>1 DEF LockAt
    <2>2. ASSUME NEW n \in Tile, tile'[n] = "raw"
          PROVE  /\ IsLazy(n)
                 /\ \E t \in Thread : \E f \in Frames(t)' : f.tile = n /\ f.pc \in Unready
      <3>1. IsLazy(n) /\ RawAt(n)'
        BY <1>1, <2>2 DEF LockAt, IsLazy
      <3>2. PICK t, h, f : Has(t, h, f)' /\ f.tile = n /\ f.pc \in Unready
        BY <3>1 DEF RawAt
      <3>3. t \in Thread
        BY <3>2 DEF Has
      <3> QED
        BY <1>2, <3>1, <3>2, <3>3
    <2>3. \A n \in Tile : SpecOf(n)'
      BY <1>1 DEF LockAt
    <2> QED
      BY <2>1, <2>2, <2>3 DEF LockInv, Locked, Unready, SpecOf, IsLazy
  <1>5. HeldInv'
    <2>1. \A p \in Tile : task'[p] = "done" => \A a \in Async[p] : Shared(a)'
      BY DEF Shared
    <2>2. \A n : (\E t \in Thread : reader'[t].pc = "keeping" /\ reader'[t].tile = n) => Shared(n)'
      BY DEF Shared
    <2>3. \A t \in Thread : \A f \in Frames(t)' : \A a \in f.got : Shared(a)'
      BY <1>2 DEF Shared
    <2>4. \A n : Shared(n)' => tile'[n] = "whole"
      BY <1>1 DEF HeldAt
    <2> QED
      BY <2>1, <2>2, <2>3, <2>4 DEF HeldInv
  <1>6. SlotInv'
    <2>1. ASSUME NEW t \in Thread, NEW u \in Thread, NEW h \in 1 .. Height(t)',
                 NEW g \in 1 .. Height(u)', NEW f, f = Call(t, h)', f.slot # NoTile
          PROVE  /\ task'[f.slot] = "busy" /\ f.tile \in Async[f.slot]
                 /\ f.slot = Call(u, g)'.slot => t = u /\ h = g
      BY <1>1, <1>2, <2>1 DEF SlotAt
    <2>2. ASSUME NEW t \in Thread, NEW h \in 2 .. Height(t)',
                 NEW f, f = Call(t, h)', NEW e, e = Call(t, h - 1)',
                 f.slot = NoTile, f.tile \in Async[e.tile]
          PROVE  task'[e.tile] = "none"
      <3>1. h \in 1 .. Height(t)' /\ h - 1 \in 1 .. Height(t)'
        BY <1>2, <2>2
      <3> QED
        BY SMTT(30), <1>1, <1>2, <2>2, <3>1 DEF SlotAt
    <2>3. ASSUME NEW n \in Tile, task'[n] # "none"
          PROVE  \E t \in Thread : \E f \in Frames(t)' :
                   f.tile = n /\ f.pc \in {"fill", "unwind"} /\ ~(Async[n] \subseteq f.got)
      <3>1. PICK t, h, f : /\ Has(t, h, f)' /\ f.tile = n /\ f.pc \in {"fill", "unwind"}
                           /\ ~(Async[n] \subseteq f.got)
        BY <1>1, <2>3 DEF SlotAt, OwnerAt
      <3>2. t \in Thread
        BY <3>1 DEF Has
      <3> QED
        BY <1>2, <3>1, <3>2
    <2> QED
      BY <2>1, <2>2, <2>3 DEF SlotInv
  <1> QED
    BY <1>1, <1>3, <1>4, <1>5, <1>6 DEF IInv

LEMMA HeldAsShared ==
    ASSUME Stacks'
    PROVE  \A n : Held(n)' <=> Shared(n)' \/ \E t, h, f : Has(t, h, f)' /\ f.tile = n /\ f.pc \in Owning
  <1>1. /\ \A t \in Thread : \A f : f \in Frames(t)' <=> \E h : Has(t, h, f)'
        /\ \A t, h, f : Has(t, h, f)' => t \in Thread
    BY HasFactsNext
  <1> QED
    BY <1>1 DEF Held, Shared

LEMMA Ranks ==
    /\ \A n \in Tile : Rank(n) \in Nat /\ Rank(n) <= MaxLevel /\ MaxLevel \in Nat
    /\ \A n \in Tile : \A a \in Arg[n] : a \in Tile /\ Rank(a) < Rank(n)
    /\ \A n \in Tile : Async[n] \subseteq Arg[n]
    /\ \A n \in Tile : IsLazy(n) \in BOOLEAN /\ (ItemOf[n] \in Source => IsLazy(n) /\ Arg[n] = {})
  BY TilesAssumption DEF Rank, IsLazy

LEMMA FramePlaces ==
    /\ Filling \subseteq Holding /\ Unready \subseteq Holding /\ Owning \subseteq Holding
    /\ InFarm \subseteq Unready /\ Holding \subseteq Place
    /\ \A f \in Frame : f.tile \in Tile /\ f.pc \in Place /\ f.got \subseteq Tile
  BY DEF Filling, Holding, Unready, Owning, InFarm, Place, Frame

\* The mutex of a tile, and the order of calculation in one thread.
LEMMA OneHolder ==
    ASSUME IInvAt, NEW t, NEW h, NEW f, NEW u, NEW g, NEW e, Has(t, h, f), Has(u, g, e),
           f.tile = e.tile, f.pc \in Holding, e.pc \in Holding
    PROVE  t = u /\ h = g /\ f = e
  <1>1. CallsAt /\ LockAt /\ Stacks
    BY DEF IInvAt
  <1>2. h \in Nat /\ g \in Nat /\ f \in Frame
    BY <1>1, HasFacts
  <1>3. t = u
    BY <1>1 DEF LockAt, Locked
  <1>4. Rank(f.tile) = Rank(e.tile) /\ Rank(f.tile) \in Nat
    BY <1>2, FramePlaces, Ranks
  <1>5. ~ (h < g) /\ ~ (g < h)
    BY <1>1, <1>3, <1>4 DEF CallsAt
  <1>6. h = g
    BY <1>2, <1>5
  <1> QED
    BY <1>1, <1>3, <1>6, HasFacts

-----------------------------------------------------------------------------
(* How the calls of one thread change *)

\* Its calls at height k and above make way for the one in F, if there is one.
Moves(t, k, F) ==
    /\ t \in Thread /\ F \in SUBSET Frame /\ k \in Nat \ {0} /\ k <= Height(t) + 1
    /\ Stacks' /\ Height(t)' = (IF F = {} THEN k - 1 ELSE k)
    /\ \A f \in F : stack'[t] # <<>> /\ Head(stack'[t]) = f
    /\ \A u \in Thread \ {t} : stack'[u] = stack[u] /\ Height(u)' = Height(u)
    /\ \A u, h, x : Has(u, h, x)' <=> \/ Has(u, h, x) /\ (u = t => h < k)
                                      \/ u = t /\ h = k /\ x \in F

LEMMA PushMoves ==
    ASSUME Stacks, NEW t \in Thread, NEW f \in Frame,
           stack' = [stack EXCEPT ![t] = <<f>> \o stack[t]]
    PROVE  Moves(t, Height(t) + 1, {f})
  <1>1. /\ Stacks' /\ Height(t)' = Height(t) + 1 /\ stack'[t] # <<>> /\ Head(stack'[t]) = f
        /\ \A u \in Thread \ {t} : stack'[u] = stack[u] /\ Height(u)' = Height(u)
        /\ \A u, h, x : Has(u, h, x)' <=> Has(u, h, x) \/ (u = t /\ h = Height(t) + 1 /\ x = f)
    BY StepPush
  <1>2. /\ Height(t) \in Nat
        /\ \A h, x : Has(t, h, x) => h \in Nat /\ h <= Height(t)
    BY HasFacts
  <1>3. PICK n : n = Height(t)
    OBVIOUS
  <1>4. n + 1 \in Nat \ {0} /\ n + 1 <= n + 1 /\ \A h, x : Has(t, h, x) => h < n + 1
    BY <1>2, <1>3
  <1> QED
    BY <1>1, <1>3, <1>4 DEF Moves

LEMMA RetopMoves ==
    ASSUME Stacks, NEW t \in Thread, NEW f \in Frame, stack[t] # <<>>,
           stack' = [stack EXCEPT ![t] = <<f>> \o Tail(stack[t])]
    PROVE  Moves(t, Height(t), {f})
  <1>1. /\ Stacks' /\ Height(t)' = Height(t) /\ stack'[t] # <<>> /\ Head(stack'[t]) = f
        /\ \A u \in Thread \ {t} : stack'[u] = stack[u] /\ Height(u)' = Height(u)
        /\ \A u, h, x : Has(u, h, x)' <=> \/ Has(u, h, x) /\ ~ (u = t /\ h = Height(t))
                                          \/ u = t /\ h = Height(t) /\ x = f
    BY StepRetop
  <1>2. /\ Height(t) \in Nat \ {0}
        /\ \A h, x : Has(t, h, x) => h \in Nat /\ h <= Height(t)
    BY HasFacts
  <1>3. PICK n : n = Height(t)
    OBVIOUS
  <1>4. n \in Nat \ {0} /\ n <= n + 1 /\ \A h, x : Has(t, h, x) => (h # n <=> h < n)
    BY <1>2, <1>3
  <1> QED
    BY <1>1, <1>3, <1>4 DEF Moves

LEMMA ResumeMoves ==
    ASSUME Stacks, NEW t \in Thread, NEW g \in Frame,
           stack[t] # <<>>, Tail(stack[t]) # <<>>,
           stack' = [stack EXCEPT ![t] = <<g>> \o Tail(Tail(stack[t]))]
    PROVE  /\ Moves(t, Height(t) - 1, {g})
           /\ Has(t, Height(t) - 1, Head(Tail(stack[t])))
  <1>1. /\ Stacks' /\ Height(t)' = Height(t) - 1 /\ stack'[t] # <<>> /\ Head(stack'[t]) = g
        /\ Height(t) - 1 \in Nat \ {0}
        /\ Has(t, Height(t) - 1, Head(Tail(stack[t])))
        /\ \A u \in Thread \ {t} : stack'[u] = stack[u] /\ Height(u)' = Height(u)
        /\ \A u, h, x : Has(u, h, x)' <=>
             \/ Has(u, h, x) /\ ~ (u = t /\ h \in {Height(t), Height(t) - 1})
             \/ u = t /\ h = Height(t) - 1 /\ x = g
    BY StepResume
  <1>2. /\ Height(t) \in Nat \ {0}
        /\ \A h, x : Has(t, h, x) => h \in Nat /\ h <= Height(t)
    BY HasFacts
  <1>3. PICK n : n = Height(t)
    OBVIOUS
  <1>4. n - 1 <= n + 1 /\ \A h, x : Has(t, h, x) => (h \notin {n, n - 1} <=> h < n - 1)
    BY <1>2, <1>3
  <1>5. Moves(t, n - 1, {g})
    BY <1>1, <1>3, <1>4 DEF Moves
  <1> QED
    BY <1>1, <1>3, <1>5

LEMMA PopMoves ==
    ASSUME Stacks, NEW t \in Thread, stack[t] # <<>>,
           stack' = [stack EXCEPT ![t] = Tail(stack[t])]
    PROVE  Moves(t, Height(t), {}) /\ stack'[t] = Tail(stack[t])
  <1>1. /\ Stacks' /\ Height(t)' = Height(t) - 1 /\ stack'[t] = Tail(stack[t])
        /\ \A u \in Thread \ {t} : stack'[u] = stack[u] /\ Height(u)' = Height(u)
        /\ \A u, h, x : Has(u, h, x)' <=> Has(u, h, x) /\ ~ (u = t /\ h = Height(t))
    BY StepPop
  <1>2. /\ Height(t) \in Nat \ {0}
        /\ \A h, x : Has(t, h, x) => h \in Nat /\ h <= Height(t)
    BY HasFacts
  <1>3. PICK n : n = Height(t)
    OBVIOUS
  <1>4. n \in Nat \ {0} /\ n <= n /\ \A h, x : Has(t, h, x) => (h # n <=> h < n)
    BY <1>2, <1>3
  <1> QED
    BY <1>1, <1>3, <1>4 DEF Moves

LEMMA StillMoves == ASSUME Stacks, NEW t \in Thread, stack' = stack
                    PROVE  Moves(t, Height(t) + 1, {})
  <1>1. /\ Height(t) \in Nat
        /\ \A h, x : Has(t, h, x) => h \in Nat /\ h <= Height(t)
    BY HasFacts
  <1>2. PICK n : n = Height(t)
    OBVIOUS
  <1>3. n + 1 \in Nat \ {0} /\ n + 1 <= n + 1 /\ n = n + 1 - 1
        /\ \A h, x : Has(t, h, x) => h < n + 1
    BY <1>1, <1>2
  <1>4. Stacks' /\ (\A u : Height(u)' = Height(u)) /\ \A u, h, x : Has(u, h, x)' <=> Has(u, h, x)
    BY DEF Stacks, Height, Has
  <1>5. PICK k : k = n + 1
    OBVIOUS
  <1>6. /\ k \in Nat \ {0} /\ k <= Height(t) + 1 /\ Height(t)' = k - 1
        /\ \A u, h, x : Has(u, h, x)' <=> Has(u, h, x) /\ (u = t => h < k)
    BY <1>1, <1>2, <1>3, <1>4, <1>5
  <1>7. Moves(t, k, {})
    BY <1>4, <1>6 DEF Moves
  <1> QED
    BY <1>2, <1>5, <1>7

-----------------------------------------------------------------------------
(* What such a move keeps of the invariant *)

\* Readers change before their first call and after their last.
Calm(t) == \A u \in Thread : reader'[u] = reader[u] \/ (u = t /\ (Height(t) = 0 \/ Height(t)' = 0))

\* A call that goes on, or that is made by the innermost one.
Goes(t, k, f) == \E x : Has(t, k, x) /\ f.tile = x.tile /\ f.slot = x.slot
Made(t, k, f) ==
    /\ k = Height(t) + 1 /\ (k = 1 => Base(t, f)')
    /\ \A e : Has(t, k - 1, e) => f.tile \in Arg[e.tile] /\ e.pc = "fill"
Fits(t, k, f) ==
    /\ f.got \subseteq Arg[f.tile] /\ (f.got # {} => f.pc \in {"fill", "unwind"})
    /\ f.pc \in InFarm => ItemOf[f.tile] \in Source
    /\ Goes(t, k, f) \/ Made(t, k, f)

LEMMA CallsMove ==
    ASSUME Stacks, CallsAt, NEW t, NEW k, NEW F, Moves(t, k, F), Calm(t), \A f \in F : Fits(t, k, f)
    PROVE  CallsAt'
  <1>1. /\ \A u, h, x : Has(u, h, x) => /\ u \in Thread /\ x \in Frame /\ h \in Nat \ {0}
                                        /\ h <= Height(u)
        /\ \A u, h, x, y : Has(u, h, x) /\ Has(u, h, y) => x = y
        /\ \A u \in Thread : Height(u) \in Nat
        /\ \A u \in Thread : \A h \in 1 .. Height(u) : Has(u, h, Call(u, h))
    BY HasFacts
  <1>2. /\ \A u, h, x : Has(u, h, x)' <=> \/ Has(u, h, x) /\ (u = t => h < k)
                                          \/ u = t /\ h = k /\ x \in F
        /\ t \in Thread /\ F \in SUBSET Frame /\ k \in Nat \ {0} /\ k <= Height(t) + 1
        /\ \A f, g \in F : f = g
        /\ Height(t)' = IF F = {} THEN k - 1 ELSE k
        /\ \A u \in Thread \ {t} : Height(u)' = Height(u)
    <2>1. \A f, g \in F : f = g
      BY DEF Moves
    <2> QED
      BY <2>1 DEF Moves
  <1>3. ASSUME NEW f \in F
        PROVE  \A e : Has(t, k - 1, e) => f.tile \in Arg[e.tile] /\ e.pc = "fill"
    <2>1. CASE Goes(t, k, f)
      <3>1. PICK x : Has(t, k, x) /\ f.tile = x.tile
        BY <2>1 DEF Goes
      <3>2. k - 1 < Height(t)
        BY <1>1, <1>2, <3>1
      <3> QED
        BY <3>1, <3>2 DEF CallsAt, Good
    <2>2. CASE Made(t, k, f)
      BY <2>2 DEF Made
    <2> QED
      BY <1>3, <2>1, <2>2 DEF Fits
  <1>4. ASSUME NEW u, NEW h, NEW x, Has(u, h, x)' PROVE Good(u, h, x)'
    <2>1. CASE Has(u, h, x) /\ (u = t => h < k)
      <3>1. Good(u, h, x)
        BY <2>1 DEF CallsAt
      <3>2. h < Height(u)' => x.pc = "fill"
        <4>1. CASE u # t
          BY <1>1, <1>2, <2>1, <3>1, <4>1 DEF Good
        <4>2. CASE u = t /\ h < Height(t)
          BY <3>1, <4>2 DEF Good
        <4>3. CASE u = t /\ ~ (h < Height(t)) /\ h < Height(t)'
          <5>1. F # {} /\ h = k - 1
            BY <1>1, <1>2, <2>1, <4>3
          <5> QED
            BY <1>3, <2>1, <4>3, <5>1
        <4> QED
          BY <4>1, <4>2, <4>3
      <3> QED
        BY <3>1, <3>2 DEF Good
    <2>2. CASE u = t /\ h = k /\ x \in F
      <3>1. ~ (h < Height(u)')
        BY <1>2, <2>2
      <3> QED
        BY <2>2, <3>1 DEF Good, Fits
    <2> QED
      BY <1>2, <1>4, <2>1, <2>2
  <1>5. ASSUME NEW u, NEW x, Has(u, 1, x)' PROVE Base(u, x)'
    <2>1. ASSUME NEW y, Has(u, 1, y), x.tile = y.tile, x.slot = y.slot, Height(u)' # 0 PROVE Base(u, x)'
      <3>1. Base(u, y) /\ u \in Thread /\ Height(u) # 0
        BY <1>1, <2>1 DEF CallsAt
      <3>2. reader'[u] = reader[u]
        BY <2>1, <3>1 DEF Calm
      <3> QED
        BY <2>1, <3>1, <3>2 DEF Base
    <2>2. CASE Has(u, 1, x) /\ (u = t => 1 < k)
      <3>1. Height(u)' # 0
        BY <1>1, <1>2, <2>2
      <3> QED
        BY <2>1, <2>2, <3>1
    <2>3. CASE u = t /\ 1 = k /\ x \in F
      <3>1. Height(u)' # 0
        BY <1>2, <2>3
      <3>2. CASE Goes(t, k, x)
        BY <2>1, <2>3, <3>1, <3>2 DEF Goes
      <3>3. CASE Made(t, k, x)
        BY <2>3, <3>3 DEF Made
      <3> QED
        BY <2>3, <3>2, <3>3 DEF Fits
    <2> QED
      BY <1>2, <1>5, <2>2, <2>3
  <1>6. ASSUME NEW u, NEW h, NEW x, NEW e, Has(u, h, x)', Has(u, h - 1, e)'
        PROVE  x.tile \in Arg[e.tile]
    <2>1. CASE Has(u, h, x) /\ (u = t => h < k)
      <3>1. h \in Nat /\ Has(u, h - 1, e)
        BY <1>1, <1>2, <1>6, <2>1
      <3> QED
        BY <2>1, <3>1 DEF CallsAt
    <2>2. CASE u = t /\ h = k /\ x \in F
      <3>1. Has(t, k - 1, e)
        BY <1>2, <1>6, <2>2
      <3> QED
        BY <1>3, <2>2, <3>1
    <2> QED
      BY <1>2, <1>6, <2>1, <2>2
  <1>7. ASSUME NEW u, NEW h, NEW x, NEW g, NEW e, Has(u, h, x)', Has(u, g, e)', g < h
        PROVE  Rank(x.tile) < Rank(e.tile)
    <2>1. CASE Has(u, h, x) /\ (u = t => h < k)
      <3>1. h \in Nat /\ Has(u, g, e)
        BY <1>1, <1>2, <1>7, <2>1
      <3> QED
        BY <1>7, <2>1, <3>1 DEF CallsAt
    <2>2. CASE u = t /\ h = k /\ x \in F
      <3>1. Has(t, g, e) /\ g \in Nat \ {0} /\ g < k
        BY <1>1, <1>2, <1>7, <2>2
      <3>2. k - 1 \in 1 .. Height(t)
        BY <1>1, <1>2, <3>1
      <3>3. PICK c : Has(t, k - 1, c)
        BY <1>1, <1>2, <3>2
      <3>4. x.tile \in Arg[c.tile] /\ x \in Frame /\ c \in Frame /\ e \in Frame
        BY <1>1, <1>2, <1>3, <2>2, <3>1, <3>3
      <3>5. /\ Rank(x.tile) < Rank(c.tile)
            /\ Rank(x.tile) \in Nat /\ Rank(c.tile) \in Nat /\ Rank(e.tile) \in Nat
        BY <3>4, FramePlaces, Ranks
      <3>6. CASE g = k - 1
        <4>1. c = e
          BY <1>1, <3>1, <3>3, <3>6
        <4> QED
          BY <3>5, <4>1
      <3>7. CASE g < k - 1
        <4>1. Rank(c.tile) < Rank(e.tile)
          BY <3>1, <3>3, <3>7 DEF CallsAt
        <4> QED
          BY <3>5, <4>1
      <3>8. g = k - 1 \/ g < k - 1
        BY <1>2, <3>1
      <3> QED
        BY <3>6, <3>7, <3>8
    <2> QED
      BY <1>2, <1>7, <2>1, <2>2
  <1> QED
    BY <1>4, <1>5, <1>6, <1>7 DEF CallsAt, Rank

LEMMA MoveFacts ==
    ASSUME NEW t, NEW k, NEW F, Moves(t, k, F)
    PROVE  /\ \A u, h, x : Has(u, h, x)' <=> \/ Has(u, h, x) /\ (u = t => h < k)
                                             \/ u = t /\ h = k /\ x \in F
           /\ t \in Thread /\ F \in SUBSET Frame /\ Stacks' /\ k \in Nat \ {0} /\ k <= Height(t) + 1
           /\ \A f, g \in F : f = g
  <1>1. \A f, g \in F : f = g
    BY DEF Moves
  <1> QED
    BY <1>1 DEF Moves

\* The other tiles than n stay as they were, or expire.
Keeps(n) ==
    \A m \in Tile \ {n} :
        /\ mutex'[m] = mutex[m] /\ spec'[m] = spec[m]
        /\ tile'[m] = tile[m] \/ (IsLazy(m) /\ tile'[m] = "none" /\ ~Held(m)')

\* The calls that stay do not have the mutex of tile n.
Leaves(t, k, n) == \A u, h, x : Has(u, h, x) /\ (u = t => h < k) /\ x.pc \in Holding => x.tile # n

\* What else is raw than tile n stays so for a call.
Resumes(t, k, n, F) ==
    \A h, x : Has(t, h, x) /\ ~ (h < k) /\ x.pc \in Unready =>
        x.tile = n \/ \E f \in F : f.tile = x.tile /\ f.pc \in Unready

LEMMA LockMove ==
    ASSUME Stacks, CallsAt, LockAt, NEW t, NEW k, NEW F, Moves(t, k, F),
           NEW n, Keeps(n), Leaves(t, k, n), Resumes(t, k, n, F),
           \A u \in Thread : exc'[u] = exc[u] \/ (u = t /\ k <= Height(t)),
           \A f \in F : Locked(t, f)',
           n \in Tile => SpecOf(n)' /\ (tile'[n] = "raw" => IsLazy(n) /\ \E f \in F : f.tile = n /\ f.pc \in Unready)
    PROVE  LockAt'
  <1>1. /\ \A u, h, x : Has(u, h, x)' <=> \/ Has(u, h, x) /\ (u = t => h < k)
                                          \/ u = t /\ h = k /\ x \in F
        /\ t \in Thread /\ Stacks' /\ k \in Nat \ {0}
    BY MoveFacts
  <1>2. /\ \A u, h, x : Has(u, h, x) => /\ u \in Thread /\ x \in Frame /\ h \in Nat \ {0}
                                        /\ h <= Height(u)
        /\ \A u \in Thread : Height(u) \in Nat
    BY HasFacts
  <1>3. ASSUME NEW m \in Tile, Held(m)', m # n PROVE tile'[m] = tile[m]
    BY <1>3 DEF Keeps
  <1>4. \A m : (\E u, h, x : Has(u, h, x)' /\ x.tile = m /\ x.pc \in Owning) => Held(m)'
    BY <1>1, HeldAsShared
  <1>5. ASSUME NEW u, NEW h, NEW x, Has(u, h, x)' PROVE Locked(u, x)'
    <2>1. CASE u = t /\ h = k /\ x \in F
      BY <2>1
    <2>2. CASE Has(u, h, x) /\ (u = t => h < k)
      <3>1. Locked(u, x) /\ x.tile \in Tile /\ u \in Thread
        BY <1>2, <2>2, FramePlaces DEF LockAt
      <3>2. CASE x.pc \notin Holding
        BY <3>2 DEF Locked, Holding, Filling
      <3>3. CASE x.pc \in Holding
        <4>1. x.tile # n /\ mutex'[x.tile] = mutex[x.tile]
          BY <2>2, <3>1, <3>3 DEF Leaves, Keeps
        <4>2. CASE x.pc \in Owning
          <5>1. tile'[x.tile] = tile[x.tile]
            BY <1>3, <1>4, <1>5, <3>1, <4>1, <4>2
          <5>2. x.pc \in {"push", "post"} => exc'[u] = exc[u]
            <6>1. CASE u = t /\ k <= Height(t)
              <7>1. h < Height(t)
                BY <1>1, <1>2, <2>2, <6>1
              <7>2. x.pc = "fill"
                BY <2>2, <6>1, <7>1 DEF CallsAt, Good
              <7> QED
                BY <7>2
            <6> QED
              BY <3>1, <6>1
          <5> QED
            BY <3>1, <4>1, <5>1, <5>2 DEF Locked, IsLazy
        <4>3. CASE x.pc \in {"unwind", "unlock"}
          <5>1. tile'[x.tile] = tile[x.tile] \/ tile'[x.tile] = "none"
            BY <3>1, <4>1 DEF Keeps
          <5> QED
            BY <3>1, <4>1, <4>3, <5>1 DEF Locked, Filling
        <4> QED
          BY <3>3, <4>2, <4>3 DEF Holding, Owning
      <3> QED
        BY <3>2, <3>3
    <2> QED
      BY <1>1, <1>5, <2>1, <2>2
  <1>6. ASSUME NEW m \in Tile, tile'[m] = "raw" PROVE IsLazy(m) /\ RawAt(m)'
    <2>1. CASE m = n
      <3>1. IsLazy(n) /\ \E f \in F : f.tile = n /\ f.pc \in Unready
        BY <1>6, <2>1
      <3> QED
        BY <1>1, <2>1, <3>1 DEF RawAt
    <2>2. CASE m # n
      <3>1. tile[m] = "raw"
        BY <1>6, <2>2 DEF Keeps
      <3>2. IsLazy(m) /\ RawAt(m)
        BY <3>1 DEF LockAt
      <3>3. PICK u, h, x : Has(u, h, x) /\ x.tile = m /\ x.pc \in Unready
        BY <3>2 DEF RawAt
      <3>4. CASE u = t => h < k
        BY <1>1, <3>2, <3>3, <3>4 DEF RawAt
      <3>5. CASE u = t /\ ~ (h < k)
        <4>1. \E f \in F : f.tile = m /\ f.pc \in Unready
          BY <2>2, <3>3, <3>5 DEF Resumes
        <4> QED
          BY <1>1, <3>2, <4>1 DEF RawAt
      <3> QED
        BY <3>4, <3>5
    <2> QED
      BY <2>1, <2>2
  <1>7. ASSUME NEW m \in Tile PROVE SpecOf(m)'
    <2>1. CASE m # n
      BY <2>1 DEF Keeps, LockAt, SpecOf, IsLazy
    <2> QED
      BY <2>1
  <1> QED
    BY <1>5, <1>6, <1>7 DEF LockAt, IsLazy

\* A slot that is done, a reader or a call gets whole data.
LEMMA HeldMove ==
    ASSUME HeldAt, TypeOK', NEW t, NEW k, NEW F, Moves(t, k, F), NEW n, Keeps(n),
           n \in Tile => (tile[n] = "whole" => tile'[n] = "whole"),
           \A p \in Tile : task'[p] = "done" => task[p] = "done" \/ \A a \in Async[p] : tile[a] = "whole",
           \A u \in Thread : reader'[u].pc = "keeping" =>
               reader'[u] = reader[u] \/ tile[reader'[u].tile] = "whole",
           \A f \in F : \A a \in f.got : tile[a] = "whole"
    PROVE  HeldAt'
  <1>1. /\ \A u, h, x : Has(u, h, x)' => Has(u, h, x) \/ x \in F
        /\ Stacks'
    BY MoveFacts
  <1>2. ASSUME NEW m, Shared(m)' PROVE m \in Tile /\ Held(m)' /\ tile[m] = "whole"
    <2>1. Held(m)'
      BY <1>1, <1>2, HeldAsShared
    <2>2. CASE \E p \in Tile : task'[p] = "done" /\ m \in Async[p]
      <3>1. m \in Tile
        BY <2>2, TilesAssumption
      <3>2. Shared(m) \/ tile[m] = "whole"
        BY <2>2 DEF Shared
      <3> QED
        BY <2>1, <3>1, <3>2 DEF HeldAt
    <2>3. CASE \E u \in Thread : reader'[u].pc = "keeping" /\ reader'[u].tile = m
      <3>1. PICK u \in Thread : reader'[u].pc = "keeping" /\ reader'[u].tile = m
        BY <2>3
      <3>2. m \in Tile
        BY <3>1 DEF TypeOK, Reading, Idle
      <3>3. Shared(m) \/ tile[m] = "whole"
        BY <3>1 DEF Shared
      <3> QED
        BY <2>1, <3>2, <3>3 DEF HeldAt
    <2>4. CASE \E u, h, x : Has(u, h, x)' /\ m \in x.got
      <3>1. PICK u, h, x : Has(u, h, x)' /\ m \in x.got
        BY <2>4
      <3>2. m \in Tile
        BY <1>1, <3>1, HasFactsNext, FramePlaces
      <3>3. Shared(m) \/ tile[m] = "whole"
        BY <1>1, <3>1 DEF Shared
      <3> QED
        BY <2>1, <3>2, <3>3 DEF HeldAt
    <2> QED
      BY <1>2, <2>2, <2>3, <2>4 DEF Shared
  <1>3. ASSUME NEW m, Shared(m)' PROVE tile'[m] = "whole"
    BY <1>2, <1>3 DEF Keeps
  <1> QED
    BY <1>3 DEF HeldAt

\* A call that takes an open slot, or that is for its caller and not in the slot of it.
Takes(t, k, f) ==
    /\ k = Height(t) + 1
    /\ f.slot # NoTile => task[f.slot] # "busy" /\ task'[f.slot] = "busy" /\ f.tile \in Async[f.slot]
    /\ \A e : Has(t, k - 1, e) /\ f.slot = NoTile /\ f.tile \in Async[e.tile] => task'[e.tile] = "none"

\* A slot is busy until its call is left.
Runs(t, k, F) ==
    \A p \in Tile : task[p] = "busy" =>
        task'[p] = "busy" \/ \E h, x : Has(t, h, x) /\ x.slot = p /\ ~ (h < k) /\ (F = {} \/ h # k)

\* A slot is made by the innermost call.
Makes(t, k, F) ==
    \A p \in Tile : task[p] = "none" =>
        \/ task'[p] = "none"
        \/ F = {} /\ k = Height(t) + 1 /\ OwnerAt(p) /\
           \E x : Has(t, Height(t), x) /\ x.tile = p /\ x.pc \in Holding

\* The owner of a slot goes on as the owner.
Owns(p, x) == x.tile = p /\ x.pc \in {"fill", "unwind"} /\ ~(Async[p] \subseteq x.got)
Keeping(t, k, F) ==
    \A h, x : Has(t, h, x) /\ ~ (h < k) /\ Owns(x.tile, x) /\ task'[x.tile] # "none" =>
        \E f \in F : Owns(x.tile, f)

LEMMA SlotMove ==
    ASSUME IInvAt, NEW t, NEW k, NEW F, Moves(t, k, F),
           \A f \in F : Goes(t, k, f) \/ Takes(t, k, f),
           Runs(t, k, F), Makes(t, k, F), Keeping(t, k, F)
    PROVE  SlotAt'
  <1>1. /\ \A u, h, x : Has(u, h, x)' <=> \/ Has(u, h, x) /\ (u = t => h < k)
                                          \/ u = t /\ h = k /\ x \in F
        /\ t \in Thread /\ Stacks' /\ k \in Nat \ {0} /\ \A f, g \in F : f = g
    BY MoveFacts
  <1>2. /\ Stacks /\ CallsAt /\ SlotAt
        /\ \A u, h, x : Has(u, h, x) => /\ u \in Thread /\ x \in Frame /\ h \in Nat \ {0}
                                        /\ h <= Height(u)
        /\ \A u \in Thread : Height(u) \in Nat
    BY HasFacts DEF IInvAt
  <1>3. \A u, h, x : Has(u, h, x) => x.tile \in Tile /\ (x.slot # NoTile => x.slot \in Tile)
    BY <1>2 DEF Frame
  <1>4. ASSUME NEW u, NEW h, NEW x, Has(u, h, x)', x.slot # NoTile
        PROVE  task'[x.slot] = "busy" /\ x.tile \in Async[x.slot]
    <2>1. CASE Has(u, h, x) /\ (u = t => h < k)
      <3>1. task[x.slot] = "busy" /\ x.tile \in Async[x.slot] /\ x.slot \in Tile
        BY <1>2, <1>3, <1>4, <2>1 DEF SlotAt
      <3>2. ASSUME NEW g, NEW y, Has(t, g, y), y.slot = x.slot, ~ (g < k) PROVE FALSE
        BY <1>2, <1>4, <2>1, <3>2 DEF SlotAt
      <3> QED
        BY <3>1, <3>2 DEF Runs
    <2>2. CASE u = t /\ h = k /\ x \in F /\ Goes(t, k, x)
      <3>1. PICK y : Has(t, k, y) /\ x.tile = y.tile /\ x.slot = y.slot
        BY <2>2 DEF Goes
      <3>2. task[x.slot] = "busy" /\ x.tile \in Async[x.slot] /\ x.slot \in Tile
        BY <1>2, <1>3, <1>4, <3>1 DEF SlotAt
      <3>3. ASSUME NEW g, NEW z, Has(t, g, z), z.slot = x.slot, g # k PROVE FALSE
        BY <1>2, <1>4, <3>1, <3>3 DEF SlotAt
      <3> QED
        BY <2>2, <3>2, <3>3 DEF Runs
    <2>3. CASE u = t /\ h = k /\ x \in F /\ Takes(t, k, x)
      BY <1>4, <2>3 DEF Takes
    <2> QED
      BY <1>1, <1>4, <2>1, <2>2, <2>3
  <1>5. ASSUME NEW u, NEW h, NEW x, NEW v, NEW g, NEW y,
               Has(u, h, x), u = t => h < k, y \in F, v = t, g = k, x.slot = y.slot, y.slot # NoTile
        PROVE  FALSE
    <2>1. CASE Goes(t, k, y)
      <3>1. PICK z : Has(t, k, z) /\ y.slot = z.slot
        BY <2>1 DEF Goes
      <3>2. u = t /\ h = k
        BY <1>2, <1>5, <3>1 DEF SlotAt
      <3> QED
        BY <1>1, <1>5, <3>2
    <2>2. CASE Takes(t, k, y)
      BY <1>2, <1>5, <2>2 DEF SlotAt, Takes
    <2> QED
      BY <1>5, <2>1, <2>2
  <1>6. ASSUME NEW u, NEW h, NEW x, NEW v, NEW g, NEW y,
               Has(u, h, x)', Has(v, g, y)', x.slot # NoTile, y.slot = x.slot
        PROVE  u = v /\ h = g
    <2>1. CASE Has(u, h, x) /\ (u = t => h < k) /\ Has(v, g, y) /\ (v = t => g < k)
      BY <1>2, <1>6, <2>1 DEF SlotAt
    <2>2. CASE u = t /\ h = k /\ x \in F /\ v = t /\ g = k /\ y \in F
      BY <2>2
    <2> QED
      BY <1>1, <1>5, <1>6, <2>1, <2>2
  <1>7. ASSUME NEW u, NEW h, NEW x, NEW e, Has(u, h, x)', Has(u, h - 1, e)', x.slot = NoTile,
               x.tile \in Async[e.tile]
        PROVE  task'[e.tile] = "none"
    <2>1. CASE Has(u, h, x) /\ (u = t => h < k)
      <3>1. h \in Nat /\ Has(u, h - 1, e) /\ h - 1 < Height(u) /\ h - 1 # Height(u)
        BY <1>1, <1>2, <1>7, <2>1
      <3>2. task[e.tile] = "none" /\ e.tile \in Tile /\ e.pc = "fill"
        <4>1. task[e.tile] = "none"
          <5>1. SlotAt /\ Has(u, h, x) /\ Has(u, h - 1, e) /\ x.slot = NoTile /\ x.tile \in Async[e.tile]
            BY <1>2, <1>7, <2>1, <3>1
          <5> QED
            BY <5>1 DEF SlotAt
        <4>2. Good(u, h - 1, e)
          BY <1>2, <3>1 DEF CallsAt
        <4> QED
          BY <1>3, <3>1, <4>1, <4>2 DEF Good
      <3>3. ASSUME NEW y, Has(t, Height(t), y), y.tile = e.tile, y.pc \in Holding PROVE FALSE
        <4>1. e.pc \in Holding
          BY <3>2 DEF Holding
        <4>2. t = u /\ Height(t) = h - 1
          BY <3>1, <3>3, <4>1, OneHolder
        <4> QED
          BY <3>1, <4>2
      <3> QED
        BY <3>2, <3>3 DEF Makes
    <2>2. CASE u = t /\ h = k /\ x \in F /\ Goes(t, k, x)
      <3>1. PICK y : Has(t, k, y) /\ x.tile = y.tile /\ x.slot = y.slot
        BY <2>2 DEF Goes
      <3>2. Has(t, k - 1, e)
        BY <1>1, <1>7, <2>2
      <3>3. task[e.tile] = "none" /\ e.tile \in Tile
        BY <1>2, <1>3, <1>7, <3>1, <3>2 DEF SlotAt
      <3> QED
        BY <2>2, <3>3 DEF Makes
    <2>3. CASE u = t /\ h = k /\ x \in F /\ Takes(t, k, x)
      <3>1. Has(t, k - 1, e)
        BY <1>1, <1>7, <2>3
      <3> QED
        BY <1>7, <2>3, <3>1 DEF Takes
    <2> QED
      BY <1>1, <1>7, <2>1, <2>2, <2>3
  <1>8. ASSUME NEW p \in Tile, task'[p] # "none" PROVE OwnerAt(p)'
    <2>1. OwnerAt(p)
      BY <1>2, <1>8 DEF Makes, SlotAt
    <2>2. PICK u, h, x : Has(u, h, x) /\ Owns(p, x)
      BY <2>1 DEF OwnerAt, Owns
    <2>3. CASE u = t => h < k
      BY <1>1, <2>2, <2>3 DEF OwnerAt, Owns
    <2>4. CASE u = t /\ ~ (h < k)
      <3>1. x.tile = p
        BY <2>2 DEF Owns
      <3>2. PICK f \in F : Owns(p, f)
        BY <1>8, <2>2, <2>4, <3>1 DEF Keeping
      <3>3. Has(t, k, f)'
        BY <1>1
      <3> QED
        BY <3>2, <3>3 DEF OwnerAt, Owns
    <2> QED
      BY <2>3, <2>4
  <1> QED
    BY <1>4, <1>6, <1>7, <1>8 DEF SlotAt

\* The exception of a thread, by where its innermost call is.
LEMMA ExcMove ==
    ASSUME ExcInv, NEW t \in Thread,
           \A u \in Thread \ {t} : stack'[u] = stack[u] /\ exc'[u] = exc[u],
           exc'[t] # "none" => stack'[t] # <<>> /\ Head(stack'[t]).pc \in Unwinding \cup {"push", "post"},
           stack'[t] # <<>> /\ Head(stack'[t]).pc \in Unwinding => exc'[t] # "none",
           failed' # {} => "error" \in Throws
    PROVE  ExcInv'
  <1>1. ASSUME NEW u \in Thread
        PROVE  /\ exc'[u] # "none" => \E p \in Unwinding \cup {"push", "post"} : At(u, p)'
               /\ \A p \in Unwinding : At(u, p)' => exc'[u] # "none"
    <2>1. CASE u = t
      BY <2>1 DEF At, Top
    <2>2. CASE u # t
      BY <2>2 DEF At, Top, ExcInv
    <2> QED
      BY <2>1, <2>2
  <1> QED
    BY <1>1 DEF ExcInv

\* No thread goes to or from a storage.
LEMMA FarmMove ==
    ASSUME FarmInv, farmVars' = farmVars, NEW t \in Thread,
           \A u \in Thread \ {t} : stack'[u] = stack[u],
           \A p \in InFarm : ~ At(t, p) /\ ~ At(t, p)'
    PROVE  FarmInv'
  <1>1. ASSUME NEW i PROVE Users(i)' = Users(i) /\ Ready(i)' = Ready(i)
    <2>1. \A u \in Thread : \A p \in InFarm : At(u, p)' = At(u, p)
      BY DEF At, Top
    <2>2. \A u \in Thread : \A p \in InFarm : At(u, p) => Top(u)' = Top(u)
      BY DEF At, Top
    <2>3. Users(i)' = Users(i)
      BY <2>1, <2>2 DEF Users
    <2>4. \A u \in Thread : At(u, "pop")' = At(u, "pop") /\ At(u, "post")' = At(u, "post")
      BY <2>1 DEF InFarm
    <2>5. Ready(i)' = {u \in Users(i)' : At(u, "pop")' \/ At(u, "post")'} /\ Users(i) \subseteq Thread
      BY DEF Ready, Users
    <2> QED
      BY <2>3, <2>4, <2>5 DEF Ready
  <1>2. countdown' = countdown /\ tokens' = tokens /\ token' = token
    BY DEF farmVars
  <1> QED
    BY <1>1, <1>2 DEF FarmInv, FarmAt

-----------------------------------------------------------------------------
(* The innermost call goes on *)

\* Call f of thread t becomes g.
Turns(t, f, g) ==
    /\ stack[t] # <<>> /\ f = Top(t) /\ g \in Frame /\ g.tile = f.tile /\ g.slot = f.slot
    /\ stack' = [stack EXCEPT ![t] = <<g>> \o Tail(stack[t])]

LEMMA TurnMove ==
    ASSUME Stacks, NEW t \in Thread, NEW f, NEW g, Turns(t, f, g)
    PROVE  /\ Moves(t, Height(t), {g}) /\ Goes(t, Height(t), g)
           /\ Has(t, Height(t), f) /\ f \in Frame /\ f.tile \in Tile
           /\ \A h, x : Has(t, h, x) /\ ~ (h < Height(t)) => x = f
           /\ stack'[t] # <<>> /\ Head(stack'[t]) = g
           /\ \A u \in Thread \ {t} : stack'[u] = stack[u]
  <1>1. Moves(t, Height(t), {g})
    BY RetopMoves DEF Turns
  <1>2. Has(t, Height(t), f) /\ f \in Frame
    BY HasFacts DEF Turns
  <1>3. ASSUME NEW h, NEW x, Has(t, h, x), ~ (h < Height(t)) PROVE x = f
    <2>1. h \in Nat /\ h <= Height(t) /\ Height(t) \in Nat
      BY <1>3, HasFacts
    <2>2. h = Height(t)
      BY <1>3, <2>1
    <2> QED
      BY <1>2, <1>3, <2>2, HasFacts
  <1>4. Goes(t, Height(t), g)
    BY <1>2 DEF Turns, Goes
  <1>5. /\ stack'[t] # <<>> /\ Head(stack'[t]) = g
        /\ \A u \in Thread \ {t} : stack'[u] = stack[u]
    <2>1. g \in {g}
      OBVIOUS
    <2> QED
      BY <1>1, <2>1 DEF Moves
  <1> QED
    BY <1>1, <1>2, <1>3, <1>4, <1>5, FramePlaces

\* What a step that turns f into g does to the rest; n is its tile, if it changes.
TurnsLock(t, f, g, n) ==
    /\ n \in {f.tile, NoTile} /\ Keeps(n)
    /\ n = f.tile => f.pc \in Holding \/ mutex[n] = NoThread
    /\ f.pc \in Unready => n = f.tile
    /\ Locked(t, g)'
    /\ n \in Tile => /\ SpecOf(n)' /\ (tile'[n] = "raw" => IsLazy(n) /\ g.pc \in Unready)
                     /\ tile[n] = "whole" => tile'[n] = "whole"
TurnsGot(g) ==
    /\ g.got \subseteq Arg[g.tile] /\ (g.got # {} => g.pc \in {"fill", "unwind"})
    /\ g.pc \in InFarm => ItemOf[g.tile] \in Source
    /\ \A a \in g.got : tile[a] = "whole"
TurnsTask(f, g) ==
    /\ \A p \in Tile : /\ task'[p] = "done" => task[p] = "done"
                       /\ task[p] \in {"busy", "none"} => task'[p] = task[p]
    /\ Owns(f.tile, f) /\ task'[f.tile] # "none" => Owns(g.tile, g)
TurnsExc(t, g) ==
    /\ \A u \in Thread \ {t} : exc'[u] = exc[u]
    /\ exc'[t] # "none" => g.pc \in Unwinding \cup {"push", "post"}
    /\ g.pc \in Unwinding => exc'[t] # "none"
    /\ failed' # {} => "error" \in Throws

LEMMA Turn ==
    ASSUME IInvAt, TypeOK', FarmInv', reader' = reader, object' = object,
           NEW t \in Thread, NEW f, NEW g, NEW n, Turns(t, f, g),
           TurnsLock(t, f, g, n), TurnsGot(g), TurnsTask(f, g), TurnsExc(t, g)
    PROVE  IInvAt'
  <1>1. /\ TypeOK /\ Stacks /\ CallsAt /\ ReadersAt /\ ExcInv /\ LockAt /\ HeldAt /\ SlotAt
    BY DEF IInvAt
  <1>2. /\ Moves(t, Height(t), {g}) /\ Goes(t, Height(t), g)
        /\ Has(t, Height(t), f) /\ f \in Frame /\ f.tile \in Tile
        /\ \A h, x : Has(t, h, x) /\ ~ (h < Height(t)) => x = f
        /\ stack'[t] # <<>> /\ Head(stack'[t]) = g
        /\ \A u \in Thread \ {t} : stack'[u] = stack[u]
    BY <1>1, TurnMove
  <1>3. CallsAt'
    <2>1. \A x \in {g} : Fits(t, Height(t), x)
      BY <1>2 DEF Fits, TurnsGot
    <2>2. Calm(t)
      BY DEF Calm
    <2> QED
      BY <1>1, <1>2, <2>1, <2>2, CallsMove
  <1>4. ReadersAt'
    BY <1>1 DEF ReadersAt
  <1>5. LockAt'
    <2>1. Leaves(t, Height(t), n)
      <3> SUFFICES ASSUME NEW u, NEW h, NEW x, Has(u, h, x), u = t => h < Height(t), x.pc \in Holding,
                          x.tile = n
                   PROVE  FALSE
        BY DEF Leaves
      <3>1. x \in Frame /\ x.tile \in Tile /\ u \in Thread /\ NoTile \notin Tile
        BY <1>1, HasFacts, FramePlaces, TilesAssumption
      <3>2. n = f.tile
        BY <3>1 DEF TurnsLock
      <3>3. mutex[n] = u
        BY <1>1 DEF LockAt, Locked
      <3>4. f.pc \in Holding
        BY <3>1, <3>2, <3>3, TilesAssumption DEF TurnsLock
      <3>5. u = t /\ h = Height(t)
        BY <1>2, <3>2, <3>4, OneHolder
      <3>6. Height(t) \in Nat
        BY <1>1, HasFacts
      <3> QED
        BY <3>5, <3>6
    <2>2. Resumes(t, Height(t), n, {g})
      BY <1>2 DEF Resumes, TurnsLock
    <2>3. \A u \in Thread : exc'[u] = exc[u] \/ (u = t /\ Height(t) <= Height(t))
      <3>1. Height(t) <= Height(t)
        BY <1>1, HasFacts
      <3> QED
        BY <3>1 DEF TurnsExc
    <2>4. n \in Tile => SpecOf(n)' /\ (tile'[n] = "raw" =>
              IsLazy(n) /\ \E x \in {g} : x.tile = n /\ x.pc \in Unready)
      <3>1. n \in Tile => n = g.tile
        BY TilesAssumption DEF TurnsLock, Turns
      <3> QED
        BY <3>1 DEF TurnsLock
    <2>5. Keeps(n) /\ \A x \in {g} : Locked(t, x)'
      <3>1. Locked(t, g)'
        BY DEF TurnsLock
      <3> QED
        BY <3>1 DEF TurnsLock, Locked
    <2> QED
      BY <1>1, <1>2, <2>1, <2>2, <2>3, <2>4, <2>5, LockMove
  <1>6. HeldAt'
    <2>1. /\ Keeps(n) /\ (n \in Tile => (tile[n] = "whole" => tile'[n] = "whole"))
          /\ \A p \in Tile : task'[p] = "done" => task[p] = "done" \/ \A a \in Async[p] : tile[a] = "whole"
          /\ \A u \in Thread : reader'[u].pc = "keeping" =>
                reader'[u] = reader[u] \/ tile[reader'[u].tile] = "whole"
          /\ \A x \in {g} : \A a \in x.got : tile[a] = "whole"
      BY DEF TurnsLock, TurnsTask, TurnsGot
    <2> QED
      BY <1>1, <1>2, <2>1, HeldMove
  <1>7. SlotAt'
    <2>1. \A x \in {g} : Goes(t, Height(t), x) \/ Takes(t, Height(t), x)
      BY <1>2
    <2>2. Runs(t, Height(t), {g}) /\ Makes(t, Height(t), {g})
      BY DEF Runs, Makes, TurnsTask
    <2>3. Keeping(t, Height(t), {g})
      BY <1>2 DEF Keeping, TurnsTask, Turns
    <2> QED
      BY <1>2, <2>1, <2>2, <2>3, SlotMove
  <1>8. ExcInv'
    BY <1>1, <1>2, ExcMove DEF TurnsExc
  <1>9. Stacks'
    BY <1>2, MoveFacts
  <1> QED
    BY <1>3, <1>4, <1>5, <1>6, <1>7, <1>8, <1>9 DEF IInvAt

-----------------------------------------------------------------------------
(* The innermost call *)

IsTop(t, f) == stack[t] # <<>> /\ f = Top(t)

LEMMA TopFacts ==
    ASSUME IInvAt, NEW t \in Thread, NEW f, IsTop(t, f)
    PROVE  /\ Has(t, Height(t), f) /\ Height(t) \in Nat \ {0} /\ f \in Frame /\ f.tile \in Tile
           /\ f.got \subseteq Arg[f.tile] /\ (f.got # {} => f.pc \in {"fill", "unwind"})
           /\ f.pc \in InFarm => ItemOf[f.tile] \in Source
           /\ Locked(t, f) /\ SpecOf(f.tile)
           /\ \A a \in f.got : tile[a] = "whole"
           /\ exc[t] # "none" => f.pc \in Unwinding \cup {"push", "post"}
           /\ f.pc \in Unwinding => exc[t] # "none"
           /\ \A p : At(t, p) <=> f.pc = p
  <1>1. Stacks /\ CallsAt /\ LockAt /\ HeldAt /\ ExcInv
    BY DEF IInvAt
  <1>2. Has(t, Height(t), f) /\ Height(t) \in Nat \ {0} /\ f \in Frame /\ f.tile \in Tile
    BY <1>1, HasFacts, FramePlaces DEF IsTop
  <1>3. Good(t, Height(t), f) /\ Locked(t, f) /\ SpecOf(f.tile)
    BY <1>1, <1>2 DEF CallsAt, LockAt
  <1>4. \A a \in f.got : Shared(a)
    BY <1>2 DEF Shared
  <1>5. \A p : At(t, p) <=> f.pc = p
    BY DEF At, IsTop
  <1>6. exc[t] # "none" => f.pc \in Unwinding \cup {"push", "post"}
    BY <1>1, <1>5 DEF ExcInv
  <1>7. f.pc \in Unwinding => exc[t] # "none"
    BY <1>1, <1>5 DEF ExcInv
  <1> QED
    BY <1>1, <1>2, <1>3, <1>4, <1>5, <1>6, <1>7 DEF Good, HeldAt

LEMMA GotoTurns ==
    ASSUME Stacks, NEW t \in Thread, NEW f, IsTop(t, f), NEW p \in Place, Goto(t, p)
    PROVE  \E g : Turns(t, f, g) /\ g.pc = p /\ g.got = f.got
  <1>1. PICK g : g = [f EXCEPT !.pc = p]
    OBVIOUS
  <1>2. f \in Frame
    BY HasFacts DEF IsTop
  <1>3. g \in Frame /\ g.pc = p /\ g.tile = f.tile /\ g.got = f.got /\ g.slot = f.slot
    BY <1>1, <1>2 DEF Frame
  <1>4. stack' = [stack EXCEPT ![t] = <<g>> \o Tail(stack[t])]
    BY <1>1 DEF Goto, IsTop, Top
  <1> QED
    BY <1>3, <1>4 DEF Turns, IsTop

\* A call goes on without a step to or from a storage.
LEMMA TurnFarm ==
    ASSUME IInvAt, NEW t \in Thread, NEW f, NEW g, Turns(t, f, g), farmVars' = farmVars,
           f.pc \notin InFarm, g.pc \notin InFarm
    PROVE  FarmInv'
  <1>1. Stacks /\ FarmInv
    BY DEF IInvAt
  <1>2. /\ stack'[t] # <<>> /\ Head(stack'[t]) = g
        /\ \A u \in Thread \ {t} : stack'[u] = stack[u]
    BY <1>1, TurnMove
  <1>3. \A p \in InFarm : ~ At(t, p) /\ ~ At(t, p)'
    BY <1>2 DEF At, Top, Turns
  <1> QED
    BY <1>1, <1>2, <1>3, FarmMove

LEMMA NoTileChanges ==
    ASSUME TypeOK, tile' = tile, spec' = spec, mutex' = mutex
    PROVE  /\ \A n : Keeps(n)
           /\ \A n \in Tile : SpecOf(n) => SpecOf(n)'
  BY DEF Keeps, SpecOf, IsLazy

\* The innermost call goes on and leaves the data of its tile alone.
LEMMA PlainTurn ==
    ASSUME IInvAt, TypeOK', FarmInv', UNCHANGED <<tile, spec, mutex, task, reader, object>>,
           NEW t \in Thread, NEW f, NEW g, Turns(t, f, g), g.got = f.got, TurnsExc(t, g),
           f.pc \in Holding \/ (f.pc = "check" /\ g.pc = "lock"),
           f.pc \in Holding => g.pc \in Unready \/ tile[f.tile] # "raw",
           Locked(t, g)', g.pc \in InFarm => ItemOf[f.tile] \in Source,
           f.pc \in {"fill", "unwind"} =>
               g.pc \in {"fill", "unwind"} \/ (f.got = {} /\ Async[f.tile] = {})
    PROVE  IInvAt'
  <1>0. TypeOK /\ LockAt
    BY DEF IInvAt
  <1>1. IsTop(t, f) /\ g.tile = f.tile
    BY DEF Turns, IsTop
  <1>2. /\ f.tile \in Tile /\ f.got \subseteq Arg[f.tile] /\ (f.got # {} => f.pc \in {"fill", "unwind"})
        /\ SpecOf(f.tile) /\ (\A a \in f.got : tile[a] = "whole") /\ f.tile # NoTile
        /\ tile[f.tile] = "raw" => IsLazy(f.tile)
    BY <1>0, <1>1, TopFacts, TilesAssumption DEF LockAt
  <1>3. TurnsGot(g)
    BY <1>1, <1>2 DEF TurnsGot
  <1>4. TurnsTask(f, g)
    BY <1>1, <1>2 DEF TurnsTask, Owns
  <1>5. \E n : TurnsLock(t, f, g, n)
    <2>1. /\ \A n : Keeps(n)
          /\ \A n \in Tile : SpecOf(n) => SpecOf(n)'
      BY <1>0, NoTileChanges
    <2>2. CASE f.pc \in Holding
      <3>1. TurnsLock(t, f, g, f.tile)
        BY <1>2, <2>1, <2>2 DEF TurnsLock
      <3> QED
        BY <3>1
    <2>3. CASE f.pc = "check"
      <3>1. f.pc \notin Unready
        BY <2>3 DEF Unready
      <3>2. TurnsLock(t, f, g, NoTile)
        BY <1>2, <2>1, <3>1, TilesAssumption DEF TurnsLock
      <3> QED
        BY <3>2
    <2> QED
      BY <2>2, <2>3
  <1> QED
    BY <1>3, <1>4, <1>5, Turn

LEMMA PlainType ==
    ASSUME TypeOK, Stacks', NEW t \in Thread, NEW e \in Throws \cup {"none"},
           exc' = exc \/ exc' = [exc EXCEPT ![t] = e],
           UNCHANGED <<tile, spec, mutex, task, readVars, object, failed, farmVars>>
    PROVE  TypeOK'
  <1>1. exc' \in [Thread -> Throws \cup {"none"}]
    BY DEF TypeOK
  <1>2. /\ tile' = tile /\ spec' = spec /\ mutex' = mutex /\ task' = task /\ reader' = reader
        /\ nrReads' = nrReads /\ object' = object /\ failed' = failed
        /\ countdown' = countdown /\ tokens' = tokens /\ token' = token
    BY DEF readVars, farmVars
  <1> QED
    BY <1>1, <1>2 DEF TypeOK, Stacks

\* An apply function, or the wait for its slot, throws.
LEMMA FillUnwinds ==
    ASSUME IInvAt, NEW t \in Thread, At(t, "fill"), NEW e \in Throws, ApplyThrows(t, e),
           UNCHANGED <<tile, spec, mutex, task, readVars, object, failed, farmVars>>
    PROVE  IInvAt'
  <1>1. PICK f : IsTop(t, f)
    BY DEF At, IsTop
  <1>2. TypeOK /\ Stacks /\ ExcInv /\ "unwind" \in Place
    BY DEF IInvAt, Place
  <1>3. Goto(t, "unwind") /\ exc' = [exc EXCEPT ![t] = e]
    BY DEF ApplyThrows
  <1>4. PICK g : Turns(t, f, g) /\ g.pc = "unwind" /\ g.got = f.got
    BY <1>1, <1>2, <1>3, GotoTurns
  <1>5. /\ f.pc = "fill" /\ Locked(t, f) /\ f.tile \in Tile
    BY <1>1, TopFacts
  <1>6. Stacks'
    BY <1>2, <1>4, TurnMove, MoveFacts
  <1>7. TypeOK'
    BY <1>2, <1>3, <1>6, PlainType
  <1>8. FarmInv'
    BY <1>4, <1>5, TurnFarm DEF InFarm
  <1>9. exc'[t] = e /\ e # "none" /\ \A u \in Thread \ {t} : exc'[u] = exc[u]
    BY <1>2, <1>3, TilesAssumption DEF TypeOK
  <1>10. TurnsExc(t, g)
    BY <1>2, <1>4, <1>9 DEF TurnsExc, ExcInv, Unwinding
  <1>11. Locked(t, g)'
    BY <1>4, <1>5 DEF Locked, Holding, Filling, Turns, IsLazy
  <1>12. UNCHANGED <<tile, spec, mutex, task, reader, object>>
    BY DEF readVars
  <1> QED
    BY <1>4, <1>5, <1>7, <1>8, <1>10, <1>11, <1>12, PlainTurn DEF Holding, Unready, InFarm

LEMMA FillThrowsInv == ASSUME IInvAt, NEW t \in Thread, FillThrows(t) PROVE IInvAt'
  BY FillUnwinds DEF FillThrows

LEMMA JoinCancelledInv == ASSUME IInvAt, NEW t \in Thread, JoinCancelled(t) PROVE IInvAt'
  BY FillUnwinds DEF JoinCancelled, Joining

\* The item of the tile has not failed.
LEMMA CheckTurn ==
    ASSUME IInvAt, NEW t \in Thread, At(t, "check"), Goto(t, "lock"),
           UNCHANGED <<tile, spec, mutex, exc, task, readVars, object, failed, farmVars>>
    PROVE  IInvAt'
  <1>1. PICK f : IsTop(t, f)
    BY DEF At, IsTop
  <1>2. TypeOK /\ Stacks /\ ExcInv /\ "lock" \in Place
    BY DEF IInvAt, Place
  <1>3. PICK g : Turns(t, f, g) /\ g.pc = "lock" /\ g.got = f.got
    BY <1>1, <1>2, GotoTurns
  <1>4. /\ f.pc = "check" /\ f.tile \in Tile
        /\ exc[t] # "none" => f.pc \in Unwinding \cup {"push", "post"}
    BY <1>1, TopFacts
  <1>5. Stacks'
    BY <1>2, <1>3, TurnMove, MoveFacts
  <1>6. TypeOK'
    BY <1>2, <1>5, PlainType
  <1>7. FarmInv'
    BY <1>3, <1>4, TurnFarm DEF InFarm
  <1>8. TurnsExc(t, g)
    BY <1>2, <1>3, <1>4 DEF TurnsExc, ExcInv, Unwinding
  <1>9. Locked(t, g)'
    BY <1>3 DEF Locked, Holding, Filling
  <1>10. UNCHANGED <<tile, spec, mutex, task, reader, object>>
    BY DEF readVars
  <1> QED
    BY <1>3, <1>4, <1>6, <1>7, <1>8, <1>9, <1>10, PlainTurn DEF Holding, InFarm

LEMMA UnlockInv == ASSUME IInvAt, NEW t \in Thread, Unlock(t) PROVE IInvAt'
  <1>1. PICK f : IsTop(t, f)
    BY DEF Unlock, At, IsTop
  <1>2. TypeOK /\ Stacks /\ ExcInv /\ LockAt /\ "catch" \in Place
    BY DEF IInvAt, Place
  <1>3. PICK g : Turns(t, f, g) /\ g.pc = "catch" /\ g.got = f.got
    BY <1>1, <1>2, GotoTurns DEF Unlock
  <1>4. /\ f.pc = "unlock" /\ f.tile \in Tile /\ Locked(t, f) /\ SpecOf(f.tile)
        /\ f.pc \in Unwinding => exc[t] # "none"
        /\ f.got # {} => f.pc \in {"fill", "unwind"}
    BY <1>1, TopFacts DEF Unlock
  <1>5. Stacks'
    BY <1>2, <1>3, TurnMove, MoveFacts
  <1>6. /\ tile' = tile /\ spec' = spec /\ task' = task /\ reader' = reader /\ nrReads' = nrReads
        /\ object' = object /\ failed' = failed /\ exc' = exc /\ farmVars' = farmVars
        /\ mutex' = [mutex EXCEPT ![f.tile] = NoThread]
    BY <1>1 DEF Unlock, readVars, IsTop
  <1>7. TypeOK'
    BY <1>2, <1>4, <1>5, <1>6 DEF TypeOK, Stacks, farmVars
  <1>8. FarmInv'
    BY <1>3, <1>4, <1>6, TurnFarm DEF InFarm
  <1>9. TurnsExc(t, g)
    BY <1>2, <1>3, <1>4, <1>6 DEF TurnsExc, ExcInv, Unwinding
  <1>10. TurnsGot(g)
    BY <1>3, <1>4 DEF TurnsGot, InFarm
  <1>11. TurnsTask(f, g)
    BY <1>4, <1>6 DEF TurnsTask, Owns
  <1>12. TurnsLock(t, f, g, f.tile)
    <2>1. Keeps(f.tile)
      BY <1>2, <1>4, <1>6 DEF Keeps, TypeOK
    <2>2. Locked(t, g)'
      BY <1>3 DEF Locked, Holding, Filling
    <2>3. tile[f.tile] = "raw" => IsLazy(f.tile) /\ RawAt(f.tile)
      BY <1>2, <1>4 DEF LockAt
    <2>4. tile[f.tile] # "raw"
      <3> SUFFICES ASSUME tile[f.tile] = "raw" PROVE FALSE
        OBVIOUS
      <3>1. PICK u, h, x : Has(u, h, x) /\ x.tile = f.tile /\ x.pc \in Unready
        BY <2>3 DEF RawAt
      <3>2. Has(t, Height(t), f)
        BY <1>1, TopFacts
      <3>3. x.pc \in Holding /\ f.pc \in Holding
        BY <1>4, <3>1, FramePlaces DEF Holding
      <3>4. x = f
        BY <3>1, <3>2, <3>3, OneHolder
      <3> QED
        BY <1>4, <3>1, <3>4 DEF Unready
    <2>5. SpecOf(f.tile)'
      BY <1>4, <1>6 DEF SpecOf, IsLazy
    <2> QED
      BY <1>4, <1>6, <2>1, <2>2, <2>4, <2>5 DEF TurnsLock, Holding, Unready
  <1> QED
    BY <1>3, <1>6, <1>7, <1>8, <1>9, <1>10, <1>11, <1>12, Turn

LEMMA EnterInv == ASSUME IInvAt, NEW t \in Thread, Enter(t) PROVE IInvAt'
  <1>1. PICK f : IsTop(t, f)
    BY DEF Enter, At, IsTop
  <1>2. TypeOK /\ Stacks /\ ExcInv /\ LockAt /\ {"fill", "leave", "unwind"} \subseteq Place
    BY DEF IInvAt, Place
  <1>3. /\ f.pc = "lock" /\ f.tile \in Tile /\ SpecOf(f.tile) /\ f.got = {}
        /\ exc[t] # "none" => f.pc \in Unwinding \cup {"push", "post"}
    BY <1>1, TopFacts DEF Enter
  <1>4. exc[t] = "none"
    BY <1>3 DEF Unwinding
  <1>5. /\ mutex[f.tile] = NoThread /\ mutex' = [mutex EXCEPT ![f.tile] = t]
        /\ spec' = spec /\ task' = task /\ reader' = reader /\ nrReads' = nrReads
        /\ object' = object /\ failed' = failed /\ farmVars' = farmVars
    BY <1>1 DEF Enter, readVars, IsTop
  <1>6. \/ /\ tile[f.tile] = "none"
           /\ tile' = [tile EXCEPT ![f.tile] = IF IsLazy(f.tile) THEN "raw" ELSE @]
           /\ \/ failed # {} /\ ApplyThrows(t, "error")
              \/ Goto(t, "fill") /\ exc' = exc
        \/ tile[f.tile] # "none" /\ Goto(t, "leave") /\ tile' = tile /\ exc' = exc
    BY <1>1 DEF Enter, Begin, IsTop
  <1>7. tile[f.tile] # "raw"
    <2> SUFFICES ASSUME tile[f.tile] = "raw" PROVE FALSE
      OBVIOUS
    <2>1. PICK u, h, x : Has(u, h, x) /\ x.tile = f.tile /\ x.pc \in Unready
      BY <1>2, <1>3 DEF LockAt, RawAt
    <2>2. u \in Thread /\ mutex[f.tile] = u
      BY <1>2, <2>1, FramePlaces DEF LockAt, Locked, Has
    <2> QED
      BY <1>5, <2>2, TilesAssumption
  <1>8. \E p \in Place : /\ Goto(t, p) /\ p \in {"fill", "leave", "unwind"}
                         /\ p = "unwind" => failed # {} /\ exc' = [exc EXCEPT ![t] = "error"]
                         /\ p # "unwind" => exc' = exc
                         /\ p = "leave" => tile[f.tile] = "whole" /\ tile' = tile
                         /\ p # "leave" => /\ tile[f.tile] = "none"
                                           /\ tile' = [tile EXCEPT ![f.tile] =
                                                  IF IsLazy(f.tile) THEN "raw" ELSE @]
    <2>1. CASE tile[f.tile] # "none"
      <3>1. tile[f.tile] = "whole"
        BY <1>2, <1>3, <1>7, <2>1 DEF TypeOK
      <3> QED
        BY <1>2, <1>6, <2>1, <3>1
    <2>2. CASE tile[f.tile] = "none" /\ failed # {} /\ ApplyThrows(t, "error")
      <3>1. Goto(t, "unwind") /\ exc' = [exc EXCEPT ![t] = "error"]
        BY <2>2 DEF ApplyThrows
      <3> QED
        BY <1>2, <1>6, <2>2, <3>1
    <2>3. CASE tile[f.tile] = "none" /\ Goto(t, "fill") /\ exc' = exc
      BY <1>2, <1>6, <2>3
    <2> QED
      BY <1>6, <2>1, <2>2, <2>3
  <1>9. PICK p \in Place : /\ Goto(t, p) /\ p \in {"fill", "leave", "unwind"}
                           /\ p = "unwind" => failed # {} /\ exc' = [exc EXCEPT ![t] = "error"]
                           /\ p # "unwind" => exc' = exc
                           /\ p = "leave" => tile[f.tile] = "whole" /\ tile' = tile
                           /\ p # "leave" => /\ tile[f.tile] = "none"
                                             /\ tile' = [tile EXCEPT ![f.tile] =
                                                    IF IsLazy(f.tile) THEN "raw" ELSE @]
    BY <1>8
  <1>10. PICK g : Turns(t, f, g) /\ g.pc = p /\ g.got = f.got
    BY <1>1, <1>2, <1>9, GotoTurns
  <1>11. Stacks'
    BY <1>2, <1>10, TurnMove, MoveFacts
  <1>12. /\ p = "unwind" => "error" \in Throws /\ exc'[t] = "error"
         /\ p # "unwind" => exc'[t] = "none"
         /\ \A u \in Thread \ {t} : exc'[u] = exc[u]
    BY <1>2, <1>4, <1>9 DEF ExcInv, TypeOK
  <1>13. TypeOK'
    <2>1. exc' \in [Thread -> Throws \cup {"none"}]
      BY <1>2, <1>9, <1>12 DEF TypeOK
    <2>2. tile' \in [Tile -> {"none", "raw", "whole"}]
      BY <1>2, <1>3, <1>9 DEF TypeOK
    <2>3. mutex' \in [Tile -> Thread \cup {NoThread}]
      BY <1>2, <1>5 DEF TypeOK
    <2> QED
      BY <1>2, <1>5, <1>11, <2>1, <2>2, <2>3 DEF TypeOK, Stacks, farmVars
  <1>14. FarmInv'
    BY <1>3, <1>5, <1>9, <1>10, TurnFarm DEF InFarm
  <1>15. TurnsExc(t, g)
    BY <1>2, <1>5, <1>9, <1>10, <1>12 DEF TurnsExc, ExcInv, Unwinding
  <1>16. TurnsGot(g)
    BY <1>3, <1>9, <1>10 DEF TurnsGot, InFarm
  <1>17. TurnsTask(f, g)
    BY <1>3, <1>5 DEF TurnsTask, Owns
  <1>18. TurnsLock(t, f, g, f.tile)
    <2>1. Keeps(f.tile)
      BY <1>2, <1>3, <1>5, <1>9 DEF Keeps, TypeOK
    <2>2. mutex'[f.tile] = t /\ g.tile = f.tile
      BY <1>2, <1>3, <1>5, <1>10 DEF TypeOK, Turns
    <2>3. /\ p = "leave" => tile'[f.tile] = "whole"
          /\ p # "leave" => tile'[f.tile] = IF IsLazy(f.tile) THEN "raw" ELSE "none"
      BY <1>2, <1>3, <1>9 DEF TypeOK
    <2>4. Locked(t, g)'
      BY <1>9, <1>10, <2>2, <2>3 DEF Locked, Holding, Filling, IsLazy
    <2>5. SpecOf(f.tile)'
      BY <1>3, <1>5, <1>9, <2>3 DEF SpecOf, IsLazy
    <2> QED
      BY <1>3, <1>5, <1>9, <1>10, <2>1, <2>3, <2>4, <2>5 DEF TurnsLock, Unready
  <1> QED
    BY <1>5, <1>10, <1>13, <1>14, <1>15, <1>16, <1>17, <1>18, Turn

LEMMA JoinEndInv == ASSUME IInvAt, NEW t \in Thread, JoinEnd(t) PROVE IInvAt'
  <1>1. PICK f : IsTop(t, f)
    BY DEF JoinEnd, Joining, At, IsTop
  <1>2. TypeOK /\ Stacks /\ ExcInv /\ HeldAt /\ "unwind" \in Place
    BY DEF IInvAt, Place
  <1>3. /\ f \in Frame /\ f.pc = "fill" /\ f.tile \in Tile /\ SpecOf(f.tile) /\ Locked(t, f)
        /\ exc[t] # "none" => f.pc \in Unwinding \cup {"push", "post"}
        /\ \A a \in f.got : tile[a] = "whole"
    BY <1>1, TopFacts DEF JoinEnd, Joining
  <1>4. exc[t] = "none"
    BY <1>3 DEF Unwinding
  <1>5. /\ tile' = tile /\ spec' = spec /\ mutex' = mutex /\ reader' = reader /\ nrReads' = nrReads
        /\ object' = object /\ failed' = failed /\ farmVars' = farmVars
        /\ task' = [task EXCEPT ![f.tile] = "none"]
        /\ f.got = Arg[f.tile] \ Async[f.tile]
    BY <1>1 DEF JoinEnd, Joining, readVars, IsTop
  <1>6. \E g : /\ Turns(t, f, g)
               /\ \/ /\ g.pc = "fill" /\ g.got = Arg[f.tile] /\ task[f.tile] = "done" /\ exc' = exc
                  \/ /\ g.pc = "unwind" /\ g.got = f.got /\ task[f.tile] \in Throws
                     /\ exc' = [exc EXCEPT ![t] = task[f.tile]]
    <2>1. CASE /\ task[f.tile] = "done" /\ exc' = exc
               /\ stack' = [stack EXCEPT ![t] = <<[Head(@) EXCEPT !.got = Arg[f.tile]]>> \o Tail(@)]
      <3>1. PICK g : g = [f EXCEPT !.got = Arg[f.tile]]
        OBVIOUS
      <3>2. g \in Frame /\ g.pc = "fill" /\ g.tile = f.tile /\ g.got = Arg[f.tile] /\ g.slot = f.slot
        BY <1>3, <3>1, TilesAssumption DEF Frame
      <3>3. stack' = [stack EXCEPT ![t] = <<g>> \o Tail(stack[t])]
        BY <1>1, <2>1, <3>1 DEF IsTop, Top
      <3> QED
        BY <1>1, <2>1, <3>2, <3>3 DEF Turns, IsTop
    <2>2. CASE task[f.tile] \in Throws /\ ApplyThrows(t, task[f.tile])
      <3>1. Goto(t, "unwind") /\ exc' = [exc EXCEPT ![t] = task[f.tile]]
        BY <2>2 DEF ApplyThrows
      <3>2. PICK g : Turns(t, f, g) /\ g.pc = "unwind" /\ g.got = f.got
        BY <1>1, <1>2, <3>1, GotoTurns
      <3> QED
        BY <2>2, <3>1, <3>2
    <2> QED
      BY <1>1, <2>1, <2>2 DEF JoinEnd, IsTop
  <1>7. PICK g : /\ Turns(t, f, g)
                 /\ \/ /\ g.pc = "fill" /\ g.got = Arg[f.tile] /\ task[f.tile] = "done" /\ exc' = exc
                    \/ /\ g.pc = "unwind" /\ g.got = f.got /\ task[f.tile] \in Throws
                       /\ exc' = [exc EXCEPT ![t] = task[f.tile]]
    BY <1>6
  <1>8. g.tile = f.tile
    BY <1>7 DEF Turns
  <1>9. Stacks'
    BY <1>2, <1>7, TurnMove, MoveFacts
  <1>10. TypeOK'
    <2>1. exc' \in [Thread -> Throws \cup {"none"}]
      BY <1>2, <1>7 DEF TypeOK
    <2>2. task' \in [Tile -> {"none", "open", "busy", "done"} \cup Throws]
      BY <1>2, <1>5 DEF TypeOK
    <2> QED
      BY <1>2, <1>5, <1>9, <2>1, <2>2 DEF TypeOK, Stacks, farmVars
  <1>11. FarmInv'
    BY <1>3, <1>5, <1>7, TurnFarm DEF InFarm
  <1>12. TurnsExc(t, g)
    <2>1. g.pc = "fill" => exc'[t] = "none"
      BY <1>4, <1>7
    <2>2. g.pc = "unwind" => exc'[t] # "none"
      BY <1>2, <1>7, TilesAssumption DEF TypeOK
    <2>3. \A u \in Thread \ {t} : exc'[u] = exc[u]
      BY <1>2, <1>7 DEF TypeOK
    <2> QED
      BY <1>2, <1>5, <1>7, <2>1, <2>2, <2>3 DEF TurnsExc, ExcInv, Unwinding
  <1>13. TurnsGot(g)
    <2>1. task[f.tile] = "done" => \A a \in Async[f.tile] : tile[a] = "whole"
      BY <1>2, <1>3 DEF HeldAt, Shared
    <2>2. \A a \in g.got : tile[a] = "whole"
      BY <1>3, <1>5, <1>7, <2>1
    <2> QED
      BY <1>5, <1>7, <1>8, <2>2 DEF TurnsGot, InFarm
  <1>14. TurnsTask(f, g)
    <2>1. task[f.tile] \notin {"busy", "none"} /\ task'[f.tile] = "none"
      BY <1>2, <1>3, <1>5, <1>7, TilesAssumption DEF TypeOK
    <2>2. \A p \in Tile \ {f.tile} : task'[p] = task[p]
      BY <1>2, <1>5 DEF TypeOK
    <2> QED
      BY <1>3, <2>1, <2>2 DEF TurnsTask
  <1>15. TurnsLock(t, f, g, f.tile)
    <2>1. Keeps(f.tile) /\ SpecOf(f.tile)'
      BY <1>2, <1>3, <1>5, NoTileChanges
    <2>2. Locked(t, g)'
      BY <1>3, <1>5, <1>7, <1>8 DEF Locked, Holding, Filling, IsLazy
    <2>3. tile[f.tile] = "raw" => IsLazy(f.tile)
      BY <1>3 DEF Locked, Filling
    <2> QED
      BY <1>3, <1>5, <1>7, <2>1, <2>2, <2>3 DEF TurnsLock, Unready, Holding
  <1> QED
    BY <1>5, <1>7, <1>10, <1>11, <1>12, <1>13, <1>14, <1>15, Turn

\* The data of tiles that nobody holds expires.
LEMMA Expires ==
    ASSUME TypeOK, NEW tiles \in [Tile -> {"none", "raw", "whole"}], Expire(tiles)
    PROVE  /\ tile' \in [Tile -> {"none", "raw", "whole"}]
           /\ \A m \in Tile : \/ tile'[m] = tiles[m]
                              \/ IsLazy(m) /\ tile'[m] = "none" /\ ~Held(m)'
           /\ \A m \in Tile : ~IsLazy(m) \/ Held(m)' => tile'[m] = tiles[m]
           /\ \A m \in Tile : tile'[m] = tiles[m] \/ tile'[m] = "none"
           /\ \A m \in Tile : IsLazy(m) /\ ~Held(m)' => tile'[m] = "none"
  BY DEF Expire

LEMMA FillInv == ASSUME IInvAt, NEW t \in Thread, Fill(t) PROVE IInvAt'
  <1>1. PICK f : IsTop(t, f)
    BY DEF Fill, At, IsTop
  <1>2. TypeOK /\ Stacks /\ ExcInv
    BY DEF IInvAt
  <1>3. /\ f \in Frame /\ f.pc = "fill" /\ f.tile \in Tile /\ SpecOf(f.tile) /\ Locked(t, f)
        /\ exc[t] # "none" => f.pc \in Unwinding \cup {"push", "post"}
    BY <1>1, TopFacts DEF Fill
  <1>4. exc[t] = "none"
    BY <1>3 DEF Unwinding
  <1>5. /\ mutex' = mutex /\ reader' = reader /\ nrReads' = nrReads /\ task' = task /\ exc' = exc
        /\ object' = object /\ failed' = failed /\ farmVars' = farmVars
        /\ f.got = Arg[f.tile] /\ spec' = [spec EXCEPT ![f.tile] = IF IsLazy(f.tile) THEN @ ELSE {}]
        /\ Expire([tile EXCEPT ![f.tile] = "whole"])
        /\ stack' = [stack EXCEPT ![t] = <<[f EXCEPT !.pc = "leave", !.got = {}]>> \o Tail(stack[t])]
    BY <1>1 DEF Fill, IsTop, Top
  <1>6. PICK g : g = [f EXCEPT !.pc = "leave", !.got = {}]
    OBVIOUS
  <1>7. g \in Frame /\ g.pc = "leave" /\ g.tile = f.tile /\ g.got = {} /\ g.slot = f.slot
    BY <1>3, <1>6 DEF Frame, Place
  <1>8. Turns(t, f, g)
    BY <1>1, <1>5, <1>6, <1>7 DEF Turns, IsTop
  <1>9. Stacks' /\ \E h : Has(t, h, g)'
    <2>1. Moves(t, Height(t), {g})
      BY <1>2, <1>8, TurnMove
    <2>2. /\ Stacks'
          /\ \A u, h, x : Has(u, h, x)' <=> \/ Has(u, h, x) /\ (u = t => h < Height(t))
                                            \/ u = t /\ h = Height(t) /\ x \in {g}
      BY <2>1, MoveFacts
    <2> QED
      BY <2>2
  <1>10. PICK tiles : tiles = [tile EXCEPT ![f.tile] = "whole"]
    OBVIOUS
  <1>11. /\ tiles \in [Tile -> {"none", "raw", "whole"}] /\ tiles[f.tile] = "whole"
         /\ \A m \in Tile \ {f.tile} : tiles[m] = tile[m]
    BY <1>2, <1>3, <1>10 DEF TypeOK
  <1>12. /\ tile' \in [Tile -> {"none", "raw", "whole"}]
         /\ \A m \in Tile : \/ tile'[m] = tiles[m]
                            \/ IsLazy(m) /\ tile'[m] = "none" /\ ~Held(m)'
         /\ \A m \in Tile : ~IsLazy(m) \/ Held(m)' => tile'[m] = tiles[m]
    BY <1>2, <1>5, <1>10, <1>11, Expires
  <1>13. tile'[f.tile] = "whole"
    <2>1. Held(f.tile)'
      BY <1>7, <1>9, HeldAsShared DEF Owning
    <2> QED
      BY <1>3, <1>11, <1>12, <2>1
  <1>14. TypeOK'
    <2>1. spec' \in [Tile -> SUBSET Tile]
      BY <1>2, <1>3, <1>5 DEF TypeOK
    <2> QED
      BY <1>2, <1>5, <1>9, <1>12, <2>1 DEF TypeOK, Stacks, farmVars
  <1>15. FarmInv'
    BY <1>3, <1>5, <1>7, <1>8, TurnFarm DEF InFarm
  <1>16. TurnsExc(t, g)
    BY <1>2, <1>4, <1>5, <1>7 DEF TurnsExc, ExcInv, Unwinding
  <1>17. TurnsGot(g)
    BY <1>7 DEF TurnsGot, InFarm
  <1>18. TurnsTask(f, g)
    <2>1. ~ Owns(f.tile, f)
      BY <1>3, <1>5, Ranks DEF Owns
    <2> QED
      BY <1>5, <2>1 DEF TurnsTask
  <1>19. TurnsLock(t, f, g, f.tile)
    <2>1. Keeps(f.tile)
      BY ZenonT(60), <1>2, <1>3, <1>5, <1>11, <1>12 DEF Keeps, TypeOK
    <2>2. SpecOf(f.tile)'
      <3>1. CASE IsLazy(f.tile)
        <4>1. spec'[f.tile] = spec[f.tile] /\ spec[f.tile] = Arg[f.tile]
          BY <1>2, <1>3, <1>5, <3>1 DEF SpecOf, TypeOK
        <4> QED
          BY <4>1 DEF SpecOf
      <3>2. CASE ~ IsLazy(f.tile)
        BY <1>13, <3>2 DEF SpecOf, IsLazy
      <3> QED
        BY <3>1, <3>2
    <2>3. Locked(t, g)'
      BY <1>3, <1>5, <1>7, <1>13 DEF Locked, Holding, Filling
    <2> QED
      BY <1>3, <1>13, <2>1, <2>2, <2>3 DEF TurnsLock, Holding
  <1> QED
    BY <1>5, <1>8, <1>14, <1>15, <1>16, <1>17, <1>18, <1>19, Turn

LEMMA UnwindInv == ASSUME IInvAt, NEW t \in Thread, Unwind(t) PROVE IInvAt'
  <1>1. PICK f : IsTop(t, f)
    BY DEF Unwind, At, IsTop
  <1>2. TypeOK /\ Stacks /\ ExcInv /\ LockAt /\ HeldAt
    BY DEF IInvAt
  <1>3. /\ f \in Frame /\ f.pc = "unwind" /\ f.tile \in Tile /\ SpecOf(f.tile) /\ Locked(t, f)
        /\ f.pc \in Unwinding => exc[t] # "none"
        /\ Has(t, Height(t), f) /\ Height(t) \in Nat
    BY <1>1, TopFacts DEF Unwind
  <1>4. exc[t] # "none"
    BY <1>3 DEF Unwinding
  <1>5. /\ mutex' = mutex /\ reader' = reader /\ nrReads' = nrReads /\ exc' = exc /\ spec' = spec
        /\ object' = object /\ farmVars' = farmVars
        /\ task[f.tile] # "busy"
        /\ task' = [task EXCEPT ![f.tile] = "none"]
        /\ failed' = (IF Async[f.tile] # {} /\ exc[t] = "error"
                      THEN failed \cup {ItemOf[f.tile]} ELSE failed)
        /\ Expire(tile)
        /\ stack' = [stack EXCEPT ![t] = <<[f EXCEPT !.pc = "unlock", !.got = {}]>> \o Tail(stack[t])]
    <2>1. task' = [task EXCEPT ![f.tile] = IF @ = "busy" THEN @ ELSE "none"]
      BY <1>1 DEF Unwind, Unwound, IsTop
    <2>2. task[f.tile] # "busy"
      BY <1>1 DEF Unwind, IsTop
    <2>3. task' = [task EXCEPT ![f.tile] = "none"]
      BY <2>1, <2>2
    <2> QED
      BY <1>1, <2>2, <2>3 DEF Unwind, Unwound, IsTop, Top
  <1>6. PICK g : g = [f EXCEPT !.pc = "unlock", !.got = {}]
    OBVIOUS
  <1>7. g \in Frame /\ g.pc = "unlock" /\ g.tile = f.tile /\ g.got = {} /\ g.slot = f.slot
    BY <1>3, <1>6 DEF Frame, Place
  <1>8. Turns(t, f, g)
    BY <1>1, <1>5, <1>6, <1>7 DEF Turns, IsTop
  <1>9. /\ Stacks'
        /\ \A u, h, x : Has(u, h, x)' <=> \/ Has(u, h, x) /\ (u = t => h < Height(t))
                                          \/ u = t /\ h = Height(t) /\ x = g
    <2>1. Moves(t, Height(t), {g})
      BY <1>2, <1>8, TurnMove
    <2> QED
      BY <2>1, MoveFacts
  <1>10. /\ tile' \in [Tile -> {"none", "raw", "whole"}]
         /\ \A m \in Tile : \/ tile'[m] = tile[m]
                            \/ IsLazy(m) /\ tile'[m] = "none" /\ ~Held(m)'
         /\ \A m \in Tile : IsLazy(m) /\ ~Held(m)' => tile'[m] = "none"
         /\ \A m \in Tile : tile'[m] = tile[m] \/ tile'[m] = "none"
    <2>1. tile \in [Tile -> {"none", "raw", "whole"}]
      BY <1>2 DEF TypeOK
    <2> QED
      BY <1>2, <1>5, <2>1, Expires
  <1>11. tile[f.tile] # "whole"
    BY <1>3 DEF Locked
  <1>12. \A p \in Tile : task'[p] = IF p = f.tile THEN "none" ELSE task[p]
    BY <1>2, <1>3, <1>5 DEF TypeOK
  <1>13. tile'[f.tile] # "raw"
    <2> SUFFICES ASSUME tile'[f.tile] = "raw" PROVE FALSE
      OBVIOUS
    <2>1. tile[f.tile] = "raw" /\ IsLazy(f.tile)
      BY <1>2, <1>3, <1>10 DEF LockAt
    <2>2. Held(f.tile)'
      BY <1>3, <1>10, <2>1
    <2>3. CASE Shared(f.tile)'
      <3>1. Shared(f.tile)
        <4>1. CASE \E p \in Tile : task'[p] = "done" /\ f.tile \in Async[p]
          BY <1>12, <4>1 DEF Shared
        <4>2. CASE \E u \in Thread : reader'[u].pc = "keeping" /\ reader'[u].tile = f.tile
          BY <1>5, <4>2 DEF Shared
        <4>3. CASE \E u, h, x : Has(u, h, x)' /\ f.tile \in x.got
          BY <1>7, <1>9, <4>3 DEF Shared
        <4> QED
          BY <2>3, <4>1, <4>2, <4>3 DEF Shared
      <3> QED
        BY <1>2, <1>11, <3>1 DEF HeldAt
    <2>4. CASE \E u, h, x : Has(u, h, x)' /\ x.tile = f.tile /\ x.pc \in Owning
      <3>1. PICK u, h, x : Has(u, h, x)' /\ x.tile = f.tile /\ x.pc \in Owning
        BY <2>4
      <3>2. x # g
        BY <1>7, <3>1 DEF Owning
      <3>3. Has(u, h, x) /\ (u = t => h < Height(t))
        BY <1>9, <3>1, <3>2
      <3>4. x.pc \in Holding /\ f.pc \in Holding
        BY <1>3, <3>1, FramePlaces DEF Holding
      <3>5. u = t /\ h = Height(t)
        BY <1>3, <3>1, <3>3, <3>4, OneHolder
      <3> QED
        BY <1>3, <3>3, <3>5
    <2> QED
      BY <1>9, <2>2, <2>3, <2>4, HeldAsShared
  <1>14. failed' # {} => "error" \in Throws
    BY <1>2, <1>5, TilesAssumption DEF ExcInv, TypeOK
  <1>15. TypeOK'
    <2>1. task' \in [Tile -> {"none", "open", "busy", "done"} \cup Throws]
      BY <1>2, <1>5 DEF TypeOK
    <2>2. failed' \subseteq Item
      <3>1. ItemOf[f.tile] \in Item /\ failed \subseteq Item
        BY <1>2, <1>3, TilesAssumption DEF TypeOK
      <3> QED
        BY <1>5, <3>1
    <2> QED
      BY <1>2, <1>5, <1>9, <1>10, <2>1, <2>2 DEF TypeOK, Stacks, farmVars
  <1>16. FarmInv'
    BY <1>3, <1>5, <1>7, <1>8, TurnFarm DEF InFarm
  <1>17. TurnsExc(t, g)
    BY <1>4, <1>5, <1>7, <1>14 DEF TurnsExc, Unwinding
  <1>18. TurnsGot(g)
    BY <1>7 DEF TurnsGot, InFarm
  <1>19. TurnsTask(f, g)
    BY <1>3, <1>5, <1>12 DEF TurnsTask
  <1>20. TurnsLock(t, f, g, f.tile)
    <2>1. Keeps(f.tile)
      BY <1>5, <1>10 DEF Keeps
    <2>2. SpecOf(f.tile)'
      BY <1>3, <1>5, <1>11 DEF SpecOf
    <2>3. tile'[f.tile] # "whole"
      BY <1>3, <1>10, <1>11
    <2>4. Locked(t, g)'
      BY <1>3, <1>5, <1>7, <2>3 DEF Locked, Holding, Filling
    <2> QED
      BY <1>3, <1>11, <1>13, <2>1, <2>2, <2>4 DEF TurnsLock, Holding
  <1> QED
    BY <1>5, <1>8, <1>15, <1>16, <1>17, <1>18, <1>19, <1>20, Turn

-----------------------------------------------------------------------------
(* The tile generator of a storage *)

LEMMA FarmTurn ==
    ASSUME IInvAt, NEW t \in Thread, NEW f, NEW g, Turns(t, f, g)
    PROVE  /\ \A i, u : u \in Users(i)' <=>
                  u \in Thread /\ IF u = t THEN g.pc \in InFarm /\ ItemOf[f.tile] = i ELSE u \in Users(i)
           /\ \A i, u : u \in Ready(i)' <=>
                  u \in Thread /\ IF u = t THEN g.pc \in {"pop", "post"} /\ ItemOf[f.tile] = i ELSE u \in Ready(i)
           /\ \A i : t \in Users(i) <=> f.pc \in InFarm /\ ItemOf[f.tile] = i
           /\ \A i : t \in Ready(i) <=> f.pc \in {"pop", "post"} /\ ItemOf[f.tile] = i
           /\ \A i, u : u \in Ready(i) => u \in Users(i)
           /\ \A i, u : u \in Users(i) => u \in Thread
  <1>1. Stacks
    BY DEF IInvAt
  <1>2. /\ stack'[t] # <<>> /\ Head(stack'[t]) = g
        /\ \A u \in Thread \ {t} : stack'[u] = stack[u]
    BY <1>1, TurnMove
  <1>3. \A p : At(t, p)' <=> g.pc = p
    BY <1>2 DEF At, Top
  <1>4. \A p : At(t, p) <=> f.pc = p
    BY DEF At, Turns
  <1>5. Top(t) = f /\ Top(t)' = g /\ g.tile = f.tile
    BY <1>2 DEF Top, Turns
  <1>6. \A u \in Thread \ {t} : \A p : At(u, p)' = At(u, p) /\ Top(u)' = Top(u)
    BY <1>2 DEF At, Top
  <1>7. \A i, u : u \in Users(i) <=> u \in Thread /\ \E p \in InFarm : At(u, p) /\ ItemOf[Top(u).tile] = i
    BY DEF Users
  <1>8. \A i, u : u \in Users(i)' <=>
           u \in Thread /\ \E p \in InFarm : At(u, p)' /\ ItemOf[(Top(u)').tile] = i
    BY DEF Users
  <1>9. \A i, u : u \in Ready(i) <=> u \in Users(i) /\ (At(u, "pop") \/ At(u, "post"))
    BY DEF Ready
  <1>10. \A i, u : u \in Ready(i)' <=> u \in Users(i)' /\ (At(u, "pop")' \/ At(u, "post")')
    BY DEF Ready
  <1>11. \A i, u : u \in Users(i)' <=>
             u \in Thread /\ IF u = t THEN g.pc \in InFarm /\ ItemOf[f.tile] = i ELSE u \in Users(i)
    <2> TAKE i, u
    <2>1. CASE u = t
      BY <1>3, <1>5, <1>8, <2>1
    <2>2. CASE u # t
      BY <1>6, <1>7, <1>8, <2>2
    <2> QED
      BY <2>1, <2>2
  <1>12. \A i : t \in Users(i) <=> f.pc \in InFarm /\ ItemOf[f.tile] = i
    BY <1>4, <1>5, <1>7
  <1>13. \A i, u : u \in Ready(i)' <=>
             u \in Thread /\ IF u = t THEN g.pc \in {"pop", "post"} /\ ItemOf[f.tile] = i ELSE u \in Ready(i)
    <2> TAKE i, u
    <2>1. CASE u = t
      BY <1>3, <1>10, <1>11, <2>1 DEF InFarm
    <2>2. CASE u # t
      BY <1>6, <1>7, <1>9, <1>10, <1>11, <2>2
    <2> QED
      BY <2>1, <2>2
  <1>14. \A i : t \in Ready(i) <=> f.pc \in {"pop", "post"} /\ ItemOf[f.tile] = i
    BY <1>4, <1>9, <1>12 DEF InFarm
  <1> QED
    BY <1>7, <1>9, <1>11, <1>12, <1>13, <1>14

\* Nothing changes at the other storages.
LEMMA OtherFarms ==
    ASSUME IInvAt, NEW t \in Thread, NEW f, NEW g, Turns(t, f, g),
           \A i \in Source : i # ItemOf[f.tile] => countdown'[i] = countdown[i] /\ tokens'[i] = tokens[i],
           \A u \in Thread \ {t} : token'[u] = token[u],
           ItemOf[f.tile] \in Source => FarmAt(ItemOf[f.tile])'
    PROVE  FarmInv'
  <1> SUFFICES ASSUME NEW i \in Source, i # ItemOf[f.tile] PROVE FarmAt(i)'
    BY DEF FarmInv
  <1>1. FarmAt(i)
    BY DEF IInvAt, FarmInv
  <1>2. Users(i)' = Users(i) /\ Ready(i)' = Ready(i) /\ t \notin Users(i) /\ Users(i) \subseteq Thread
    <2>1. t \notin Users(i) /\ t \notin Ready(i) /\ Users(i) \subseteq Thread /\ Ready(i) \subseteq Thread
      BY FarmTurn
    <2>2. \A u : (u \in Users(i)' <=> u \in Users(i)) /\ (u \in Ready(i)' <=> u \in Ready(i))
      BY <2>1, FarmTurn
    <2> QED
      BY <2>1, <2>2
  <1>3. countdown'[i] = countdown[i] /\ tokens'[i] = tokens[i] /\ \A u \in Users(i) : token'[u] = token[u]
    BY <1>2
  <1> QED
    BY <1>1, <1>2, <1>3 DEF FarmAt

LEMMA FarmCounts ==
    ASSUME IInvAt, NEW i \in Source
    PROVE  /\ countdown[i] \in Nat /\ NrTokens \in Nat /\ tokens[i] \in Seq(Clone)
           /\ IsFiniteSet(Users(i)) /\ Cardinality(Users(i)) \in Nat
           /\ IsFiniteSet(Ready(i)) /\ Cardinality(Ready(i)) \in Nat
           /\ FarmAt(i)
  <1>1. TypeOK /\ FarmAt(i)
    BY DEF IInvAt, FarmInv
  <1>2. countdown[i] \in Nat /\ NrTokens \in Nat /\ tokens[i] \in Seq(Clone)
    BY <1>1, FarmAssumption DEF TypeOK
  <1>3. Ready(i) \subseteq Users(i) /\ IsFiniteSet(Users(i))
    BY <1>1 DEF Ready, FarmAt
  <1>4. IsFiniteSet(Ready(i))
    BY <1>3, FS_Subset
  <1> QED
    BY <1>1, <1>2, <1>3, <1>4, FS_CardinalityType

LEMMA AcquireFarm ==
    ASSUME IInvAt, NEW t \in Thread, NEW f, NEW g, Turns(t, f, g), NEW i \in Source, i = ItemOf[f.tile],
           Countdown(i), f.pc = "fill", g.pc = "pop"
    PROVE  FarmInv' /\ countdown' \in [Source -> 0 .. NrTokens] /\ tokens' = tokens /\ token' = token
  <1>1. TypeOK
    BY DEF IInvAt
  <1>2. /\ countdown[i] > 0 /\ countdown' = [countdown EXCEPT ![i] = @ - 1]
        /\ tokens' = tokens /\ token' = token
    BY DEF Countdown
  <1>3. PICK U, R, c, m, r : /\ U = Users(i) /\ R = Ready(i) /\ c = countdown[i]
                             /\ m = Cardinality(U) /\ r = Cardinality(R)
    OBVIOUS
  <1>4. /\ c \in Nat /\ NrTokens \in Nat /\ IsFiniteSet(U) /\ m \in Nat /\ IsFiniteSet(R) /\ r \in Nat
        /\ FarmAt(i)
    BY <1>3, FarmCounts
  <1>5. t \notin U /\ t \notin R /\ Users(i)' = U \cup {t} /\ Ready(i)' = R \cup {t}
    <2>1. t \notin U /\ t \notin R /\ U \subseteq Thread /\ R \subseteq Thread
      BY <1>3, FarmTurn DEF InFarm
    <2>2. \A u : (u \in Users(i)' <=> u \in U \cup {t}) /\ (u \in Ready(i)' <=> u \in R \cup {t})
      BY <1>3, <2>1, FarmTurn DEF InFarm
    <2> QED
      BY <2>1, <2>2
  <1>6. /\ IsFiniteSet(U \cup {t}) /\ Cardinality(U \cup {t}) = m + 1
        /\ IsFiniteSet(R \cup {t}) /\ Cardinality(R \cup {t}) = r + 1
    BY <1>3, <1>4, <1>5, FS_AddElement
  <1>7. countdown'[i] = c - 1 /\ c - 1 \in 0 .. NrTokens
    BY <1>1, <1>2, <1>3, <1>4 DEF TypeOK
  <1>8. countdown' \in [Source -> 0 .. NrTokens] /\ \A j \in Source : j # i => countdown'[j] = countdown[j]
    BY <1>1, <1>2, <1>3, <1>7 DEF TypeOK
  <1>9. FarmAt(i)'
    <2>1. c + m = NrTokens /\ Len(tokens[i]) = c + r
      BY <1>3, <1>4 DEF FarmAt
    <2>2. c - 1 + (m + 1) = NrTokens /\ Len(tokens'[i]) = c - 1 + (r + 1)
      BY <1>2, <1>4, <2>1
    <2>3. (U \cup {t}) \ (R \cup {t}) = U \ R
      BY <1>5
    <2>4. /\ \A j, k \in DOMAIN tokens'[i] : tokens'[i][j] = tokens'[i][k] => j = k
          /\ \A v \in U \ R :
                 /\ token'[v] \in Clone
                 /\ \A k \in DOMAIN tokens'[i] : tokens'[i][k] # token'[v]
                 /\ \A u \in U \ R : token'[v] = token'[u] => v = u
      BY <1>2, <1>3, <1>4 DEF FarmAt
    <2> QED
      BY <1>5, <1>6, <1>7, <2>2, <2>3, <2>4 DEF FarmAt, Clone
  <1>10. FarmInv'
    BY <1>2, <1>8, <1>9, OtherFarms
  <1> QED
    BY <1>2, <1>8, <1>10

LEMMA PopTokenFarm ==
    ASSUME IInvAt, NEW t \in Thread, NEW f, NEW g, Turns(t, f, g), NEW i \in Source, i = ItemOf[f.tile],
           TakeToken(t, i), f.pc = "pop", g.pc = "read"
    PROVE  /\ FarmInv' /\ tokens' \in [Source -> Seq(Clone)]
           /\ token' \in [Thread -> Clone \cup {NoToken}] /\ countdown' = countdown
  <1>1. TypeOK
    BY DEF IInvAt
  <1>2. PICK U, R, c, m, r, s, q, n :
           /\ U = Users(i) /\ R = Ready(i) /\ c = countdown[i] /\ m = Cardinality(U) /\ r = Cardinality(R)
           /\ s = tokens[i] /\ n = Len(s) /\ q = SubSeq(s, 1, n - 1)
    OBVIOUS
  <1>3. /\ c \in Nat /\ NrTokens \in Nat /\ IsFiniteSet(U) /\ m \in Nat /\ IsFiniteSet(R) /\ r \in Nat
        /\ FarmAt(i) /\ s \in Seq(Clone)
    BY <1>2, FarmCounts
  <1>4. s # <<>> /\ countdown' = countdown /\ token' = [token EXCEPT ![t] = s[n]]
        /\ tokens' = [tokens EXCEPT ![i] = q]
    BY <1>2 DEF TakeToken
  <1>5. /\ n \in Nat \ {0} /\ q \in Seq(Clone) /\ Len(q) = n - 1 /\ DOMAIN q = 1 .. n - 1
        /\ \A k \in 1 .. n - 1 : q[k] = s[k]
        /\ s[n] \in Clone /\ DOMAIN s = 1 .. n
    <2>1. n \in Nat \ {0} /\ DOMAIN s = 1 .. n
      BY <1>2, <1>3, <1>4, EmptySeq
    <2>2. s[n] \in Clone
      BY <1>2, <1>3, <2>1, ElementOfSeq
    <2>3. q \in Seq(Clone) /\ Len(q) = n - 1 /\ \A k \in 1 .. n - 1 : q[k] = s[k]
      BY <1>2, <1>3, <2>1
    <2>4. DOMAIN q = 1 .. n - 1
      BY <2>3
    <2> QED
      BY <2>1, <2>2, <2>3, <2>4
  <1>6. t \in U /\ t \in R /\ Users(i)' = U /\ Ready(i)' = R \ {t} /\ U \subseteq Thread
    <2>1. t \in U /\ t \in R /\ U \subseteq Thread /\ R \subseteq Thread
      BY <1>2, FarmTurn DEF InFarm
    <2>2. \A u : (u \in Users(i)' <=> u \in U) /\ (u \in Ready(i)' <=> u \in R \ {t})
      BY <1>2, <2>1, FarmTurn DEF InFarm
    <2> QED
      BY <2>1, <2>2
  <1>7. IsFiniteSet(R \ {t}) /\ Cardinality(R \ {t}) = r - 1
    BY <1>2, <1>3, <1>6, FS_RemoveElement
  <1>8. /\ tokens' \in [Source -> Seq(Clone)] /\ tokens'[i] = q
        /\ \A j \in Source : j # i => tokens'[j] = tokens[j]
        /\ token' \in [Thread -> Clone \cup {NoToken}] /\ token'[t] = s[n]
        /\ \A u \in Thread \ {t} : token'[u] = token[u]
    BY <1>1, <1>4, <1>5 DEF TypeOK
  <1>9. FarmAt(i)'
    <2>1. /\ c + m = NrTokens /\ n = c + r
          /\ \A j, k \in 1 .. n : s[j] = s[k] => j = k
          /\ \A v \in U \ R : /\ token[v] \in Clone
                              /\ \A k \in 1 .. n : s[k] # token[v]
                              /\ \A u \in U \ R : token[v] = token[u] => v = u
      <3>1. c + m = NrTokens /\ n = c + r
        BY <1>2, <1>3 DEF FarmAt
      <3>2. \A j, k \in DOMAIN s : s[j] = s[k] => j = k
        BY <1>2, <1>3 DEF FarmAt
      <3>3. \A v \in U \ R : /\ token[v] \in Clone
                             /\ \A k \in DOMAIN s : s[k] # token[v]
                             /\ \A u \in U \ R : token[v] = token[u] => v = u
        BY <1>2, <1>3 DEF FarmAt
      <3> QED
        BY <1>5, <3>1, <3>2, <3>3
    <2>2. n - 1 = c + (r - 1)
      BY <1>3, <1>5, <2>1
    <2>3. \A k \in 1 .. n - 1 : k \in 1 .. n /\ k # n /\ n \in 1 .. n
      BY <1>5
    <2>4. \A j, k \in 1 .. n - 1 : q[j] = q[k] => j = k
      BY <1>5, <2>1, <2>3
    <2>5. \A k \in 1 .. n - 1 : q[k] # s[n]
      BY <1>5, <2>1, <2>3
    <2>6. U \ (R \ {t}) = (U \ R) \cup {t}
      BY <1>6
    <2>7. \A v \in U \ R : v # t /\ token'[v] = token[v]
      BY <1>6, <1>8
    <2>8. n \in 1 .. n
      BY <1>5
    <2>9. ASSUME NEW v \in (U \ R) \cup {t}
          PROVE  /\ token'[v] \in Clone
                 /\ \A k \in 1 .. n - 1 : q[k] # token'[v]
                 /\ \A u \in (U \ R) \cup {t} : token'[v] = token'[u] => v = u
      <3>1. CASE v = t
        BY <1>5, <1>8, <2>1, <2>5, <2>7, <2>8, <3>1
      <3>2. CASE v \in U \ R
        BY <1>5, <1>8, <2>1, <2>3, <2>7, <2>8, <3>2
      <3> QED
        BY <3>1, <3>2
    <2>10. countdown'[i] = c
      BY <1>2, <1>4
    <2>11. \A j, k \in DOMAIN q : q[j] = q[k] => j = k
      BY <1>5, <2>4
    <2>12. \A v \in U \ (R \ {t}) :
              /\ token'[v] \in Clone
              /\ \A k \in DOMAIN q : q[k] # token'[v]
              /\ \A u \in U \ (R \ {t}) : token'[v] = token'[u] => v = u
      BY SMTT(30), <1>5, <2>6, <2>9
    <2>13. /\ IsFiniteSet(U) /\ c + Cardinality(U) = NrTokens
           /\ Len(q) = c + Cardinality(R \ {t})
      BY <1>2, <1>3, <1>5, <1>7, <2>1, <2>2
    <2>14. /\ IsFiniteSet(Users(i)') /\ countdown'[i] + Cardinality(Users(i)') = NrTokens
           /\ Len(tokens'[i]) = countdown'[i] + Cardinality(Ready(i)')
      BY <1>6, <1>8, <2>10, <2>11, <2>12, <2>13
    <2>15. \A j, k \in DOMAIN tokens'[i] : tokens'[i][j] = tokens'[i][k] => j = k
      BY <1>6, <1>8, <2>10, <2>11, <2>12, <2>13
    <2>16. \A v \in Users(i)' \ Ready(i)' :
              /\ token'[v] \in Clone
              /\ \A k \in DOMAIN tokens'[i] : tokens'[i][k] # token'[v]
              /\ \A u \in Users(i)' \ Ready(i)' : token'[v] = token'[u] => v = u
      <3>1. Users(i)' = U /\ Ready(i)' = R \ {t} /\ tokens'[i] = q
        BY <1>6, <1>8
      <3> QED
        BY <2>12, <3>1
    <2> QED
      BY <2>14, <2>15, <2>16 DEF FarmAt, Clone
  <1>10. FarmInv'
    BY <1>4, <1>8, <1>9, OtherFarms
  <1> QED
    BY <1>4, <1>8, <1>10

LEMMA ReadFarm ==
    ASSUME IInvAt, NEW t \in Thread, NEW f, NEW g, Turns(t, f, g), farmVars' = farmVars,
           f.pc = "read", g.pc = "push"
    PROVE  FarmInv'
  <1>1. countdown' = countdown /\ tokens' = tokens /\ token' = token
    BY DEF farmVars
  <1>2. ASSUME ItemOf[f.tile] \in Source PROVE FarmAt(ItemOf[f.tile])'
    <2>1. PICK i : i = ItemOf[f.tile]
      OBVIOUS
    <2>2. FarmAt(i)
      BY <1>2, <2>1 DEF IInvAt, FarmInv
    <2>3. \A u : (u \in Users(i)' <=> u \in Users(i)) /\ (u \in Ready(i)' <=> u \in Ready(i))
      <3> TAKE u
      <3>1. u \in Ready(i) => u \in Users(i)
        BY FarmTurn
      <3>2. u \in Users(i) => u \in Thread
        BY FarmTurn
      <3>3. t \in Users(i) /\ t \notin Ready(i)
        BY <2>1, FarmTurn DEF InFarm
      <3>4. t \in Users(i)' /\ t \notin Ready(i)'
        BY <2>1, FarmTurn DEF InFarm
      <3>5. CASE u # t
        BY <3>1, <3>2, <3>5, FarmTurn
      <3> QED
        BY <3>3, <3>4, <3>5
    <2>4. Users(i)' = Users(i) /\ Ready(i)' = Ready(i)
      BY <2>3
    <2>5. FarmAt(i)'
      BY <1>1, <2>2, <2>4 DEF FarmAt
    <2> QED
      BY <2>1, <2>5
  <1> QED
    BY <1>1, <1>2, OtherFarms

LEMMA PushTokenFarm ==
    ASSUME IInvAt, NEW t \in Thread, NEW f, NEW g, Turns(t, f, g), NEW i \in Source, i = ItemOf[f.tile],
           GiveToken(t, i), f.pc = "push", g.pc = "post"
    PROVE  /\ FarmInv' /\ tokens' \in [Source -> Seq(Clone)]
           /\ token' \in [Thread -> Clone \cup {NoToken}] /\ countdown' = countdown
  <1>1. TypeOK
    BY DEF IInvAt
  <1>2. PICK U, R, c, m, r, s, q, n, k0 :
           /\ U = Users(i) /\ R = Ready(i) /\ c = countdown[i] /\ m = Cardinality(U) /\ r = Cardinality(R)
           /\ s = tokens[i] /\ n = Len(s) /\ k0 = token[t] /\ q = Append(s, k0)
    OBVIOUS
  <1>3. /\ c \in Nat /\ NrTokens \in Nat /\ IsFiniteSet(U) /\ m \in Nat /\ IsFiniteSet(R) /\ r \in Nat
        /\ FarmAt(i) /\ s \in Seq(Clone)
    BY <1>2, FarmCounts
  <1>4. countdown' = countdown /\ token' = [token EXCEPT ![t] = NoToken]
        /\ tokens' = [tokens EXCEPT ![i] = q]
    BY <1>2 DEF GiveToken
  <1>5. t \in U /\ t \notin R /\ Users(i)' = U /\ Ready(i)' = R \cup {t} /\ U \subseteq Thread
    <2>1. t \in U /\ t \notin R /\ U \subseteq Thread /\ R \subseteq Thread
      BY <1>2, FarmTurn DEF InFarm
    <2>2. \A u : (u \in Users(i)' <=> u \in U) /\ (u \in Ready(i)' <=> u \in R \cup {t})
      BY <1>2, <2>1, FarmTurn DEF InFarm
    <2> QED
      BY <2>1, <2>2
  <1>6. n \in Nat /\ DOMAIN s = 1 .. n
    BY <1>2, <1>3
  <1>7. /\ c + m = NrTokens /\ n = c + r
        /\ \A j, k \in 1 .. n : s[j] = s[k] => j = k
        /\ \A v \in U \ R : /\ token[v] \in Clone
                            /\ \A k \in 1 .. n : s[k] # token[v]
                            /\ \A u \in U \ R : token[v] = token[u] => v = u
    <2>1. c + m = NrTokens /\ n = c + r
      BY <1>2, <1>3 DEF FarmAt
    <2>2. \A j, k \in DOMAIN s : s[j] = s[k] => j = k
      BY <1>2, <1>3 DEF FarmAt
    <2>3. \A v \in U \ R : /\ token[v] \in Clone
                           /\ \A k \in DOMAIN s : s[k] # token[v]
                           /\ \A u \in U \ R : token[v] = token[u] => v = u
      BY <1>2, <1>3 DEF FarmAt
    <2> QED
      BY <1>6, <2>1, <2>2, <2>3
  <1>8. k0 \in Clone /\ \A k \in 1 .. n : s[k] # k0
    BY <1>2, <1>5, <1>7
  <1>9. /\ q \in Seq(Clone) /\ Len(q) = n + 1 /\ DOMAIN q = 1 .. n + 1 /\ q[n + 1] = k0
        /\ \A k \in 1 .. n : q[k] = s[k]
    <2>1. q \in Seq(Clone) /\ Len(q) = n + 1 /\ q[n + 1] = k0 /\ \A k \in 1 .. n : q[k] = s[k]
      BY <1>2, <1>3, <1>8, AppendProperties
    <2>2. DOMAIN q = 1 .. n + 1
      BY <2>1
    <2> QED
      BY <2>1, <2>2
  <1>10. IsFiniteSet(R \cup {t}) /\ Cardinality(R \cup {t}) = r + 1
    BY <1>2, <1>3, <1>5, FS_AddElement
  <1>11. /\ tokens' \in [Source -> Seq(Clone)] /\ tokens'[i] = q
         /\ \A j \in Source : j # i => tokens'[j] = tokens[j]
         /\ token' \in [Thread -> Clone \cup {NoToken}]
         /\ \A u \in Thread \ {t} : token'[u] = token[u]
    BY <1>1, <1>4, <1>9 DEF TypeOK
  <1>12. FarmAt(i)'
    <2>1. n + 1 = c + (r + 1)
      BY <1>3, <1>6, <1>7
    <2>2. \A k \in 1 .. n + 1 : k \in 1 .. n \/ k = n + 1
      BY <1>6
    <2>3. \A j, k \in 1 .. n + 1 : q[j] = q[k] => j = k
      BY <1>7, <1>8, <1>9, <2>2
    <2>4. U \ (R \cup {t}) \subseteq U \ R /\ t \notin U \ (R \cup {t})
      BY SMTT(30)
    <2>5. \A v \in U \ (R \cup {t}) : v # t /\ v \in U \ R /\ token'[v] = token[v] /\ token[v] # k0
      BY <1>2, <1>5, <1>7, <1>11
    <2>6. ASSUME NEW v \in U \ (R \cup {t})
          PROVE  /\ token'[v] \in Clone
                 /\ \A k \in 1 .. n + 1 : q[k] # token'[v]
                 /\ \A u \in U \ (R \cup {t}) : token'[v] = token'[u] => v = u
      BY <1>7, <1>9, <2>2, <2>5
    <2>7. countdown'[i] = c
      BY <1>2, <1>4
    <2>8. \A j, k \in DOMAIN q : q[j] = q[k] => j = k
      BY <1>9, <2>3
    <2>9. \A v \in U \ (R \cup {t}) :
             /\ token'[v] \in Clone
             /\ \A k \in DOMAIN q : q[k] # token'[v]
             /\ \A u \in U \ (R \cup {t}) : token'[v] = token'[u] => v = u
      BY SMTT(30), <1>9, <2>6
    <2>10. /\ IsFiniteSet(U) /\ c + Cardinality(U) = NrTokens
           /\ Len(q) = c + Cardinality(R \cup {t})
      BY <1>2, <1>3, <1>7, <1>9, <1>10, <2>1
    <2>11. /\ IsFiniteSet(Users(i)') /\ countdown'[i] + Cardinality(Users(i)') = NrTokens
           /\ Len(tokens'[i]) = countdown'[i] + Cardinality(Ready(i)')
      BY <1>5, <1>11, <2>7, <2>8, <2>9, <2>10
    <2>12. \A j, k \in DOMAIN tokens'[i] : tokens'[i][j] = tokens'[i][k] => j = k
      BY <1>5, <1>11, <2>7, <2>8, <2>9, <2>10
    <2>13. \A v \in Users(i)' \ Ready(i)' :
              /\ token'[v] \in Clone
              /\ \A k \in DOMAIN tokens'[i] : tokens'[i][k] # token'[v]
              /\ \A u \in Users(i)' \ Ready(i)' : token'[v] = token'[u] => v = u
      BY ZenonT(60), <1>5, <1>11, <2>7, <2>8, <2>9, <2>10
    <2> QED
      BY <2>11, <2>12, <2>13 DEF FarmAt, Clone
  <1>13. FarmInv'
    BY <1>4, <1>11, <1>12, OtherFarms
  <1> QED
    BY <1>4, <1>11, <1>13

LEMMA PostTokenFarm ==
    ASSUME IInvAt, NEW t \in Thread, NEW f, NEW g, Turns(t, f, g), NEW i \in Source, i = ItemOf[f.tile],
           CountUp(i), f.pc = "post", g.pc \notin InFarm
    PROVE  FarmInv' /\ countdown' \in [Source -> 0 .. NrTokens] /\ tokens' = tokens /\ token' = token
  <1>1. TypeOK
    BY DEF IInvAt
  <1>2. /\ countdown' = [countdown EXCEPT ![i] = @ + 1]
        /\ tokens' = tokens /\ token' = token
    BY DEF CountUp
  <1>3. PICK U, R, c, m, r : /\ U = Users(i) /\ R = Ready(i) /\ c = countdown[i]
                             /\ m = Cardinality(U) /\ r = Cardinality(R)
    OBVIOUS
  <1>4. /\ c \in Nat /\ NrTokens \in Nat /\ IsFiniteSet(U) /\ m \in Nat /\ IsFiniteSet(R) /\ r \in Nat
        /\ FarmAt(i)
    BY <1>3, FarmCounts
  <1>5. t \in U /\ t \in R /\ Users(i)' = U \ {t} /\ Ready(i)' = R \ {t}
    <2>1. t \in U /\ t \in R /\ U \subseteq Thread /\ R \subseteq Thread
      BY <1>3, FarmTurn DEF InFarm
    <2>2. \A u : (u \in Users(i)' <=> u \in U \ {t}) /\ (u \in Ready(i)' <=> u \in R \ {t})
      BY <1>3, <2>1, FarmTurn DEF InFarm
    <2> QED
      BY <2>1, <2>2
  <1>6. /\ IsFiniteSet(U \ {t}) /\ Cardinality(U \ {t}) = m - 1
        /\ IsFiniteSet(R \ {t}) /\ Cardinality(R \ {t}) = r - 1
    BY <1>3, <1>4, <1>5, FS_RemoveElement
  <1>7. m - 1 \in Nat
    BY <1>6, FS_CardinalityType
  <1>8. c + m = NrTokens /\ Len(tokens[i]) = c + r
    BY <1>3, <1>4 DEF FarmAt
  <1>9. countdown'[i] = c + 1 /\ c + 1 \in 0 .. NrTokens
    <2>1. countdown'[i] = c + 1
      BY <1>1, <1>2, <1>3 DEF TypeOK
    <2>2. c + 1 <= NrTokens
      BY <1>4, <1>7, <1>8
    <2> QED
      BY <1>4, <2>1, <2>2
  <1>10. countdown' \in [Source -> 0 .. NrTokens] /\ \A j \in Source : j # i => countdown'[j] = countdown[j]
    BY <1>1, <1>2, <1>3, <1>9 DEF TypeOK
  <1>11. FarmAt(i)'
    <2>1. c + 1 + (m - 1) = NrTokens /\ Len(tokens'[i]) = c + 1 + (r - 1)
      BY <1>2, <1>4, <1>8
    <2>2. (U \ {t}) \ (R \ {t}) = U \ R
      BY <1>5
    <2>3. /\ \A j, k \in DOMAIN tokens'[i] : tokens'[i][j] = tokens'[i][k] => j = k
          /\ \A v \in U \ R :
                 /\ token'[v] \in Clone
                 /\ \A k \in DOMAIN tokens'[i] : tokens'[i][k] # token'[v]
                 /\ \A u \in U \ R : token'[v] = token'[u] => v = u
      BY <1>2, <1>3, <1>4 DEF FarmAt
    <2> QED
      BY <1>5, <1>6, <1>9, <2>1, <2>2, <2>3 DEF FarmAt, Clone
  <1>12. FarmInv'
    BY <1>2, <1>10, <1>11, OtherFarms
  <1> QED
    BY <1>2, <1>10, <1>12

LEMMA AcquireInv == ASSUME IInvAt, NEW t \in Thread, Acquire(t) PROVE IInvAt'
  <1>1. PICK f : IsTop(t, f)
    BY DEF Acquire, At, IsTop
  <1>2. TypeOK /\ Stacks /\ ExcInv /\ "pop" \in Place
    BY DEF IInvAt, Place
  <1>3. PICK g : Turns(t, f, g) /\ g.pc = "pop" /\ g.got = f.got
    BY <1>1, <1>2, GotoTurns DEF Acquire
  <1>4. /\ f.pc = "fill" /\ Locked(t, f) /\ f.tile \in Tile /\ f.got \subseteq Arg[f.tile]
        /\ exc[t] # "none" => f.pc \in Unwinding \cup {"push", "post"}
    BY <1>1, TopFacts DEF Acquire
  <1>5. PICK i \in Source : i = ItemOf[f.tile] /\ Countdown(i)
    BY <1>1 DEF Acquire, IsTop
  <1>6. FarmInv' /\ countdown' \in [Source -> 0 .. NrTokens] /\ tokens' = tokens /\ token' = token
    BY <1>3, <1>4, <1>5, AcquireFarm
  <1>7. Stacks'
    BY <1>2, <1>3, TurnMove, MoveFacts
  <1>8. /\ tile' = tile /\ spec' = spec /\ mutex' = mutex /\ task' = task /\ reader' = reader
        /\ nrReads' = nrReads /\ object' = object /\ failed' = failed /\ exc' = exc
    BY DEF Acquire, readVars
  <1>9. TypeOK'
    BY <1>2, <1>6, <1>7, <1>8 DEF TypeOK, Stacks, Clone
  <1>10. TurnsExc(t, g)
    BY <1>2, <1>3, <1>4, <1>8 DEF TurnsExc, ExcInv, Unwinding
  <1>11. Locked(t, g)'
    BY <1>3, <1>4, <1>8 DEF Locked, Holding, Filling, Turns, IsLazy
  <1>12. f.got = {} /\ Async[f.tile] = {}
    BY <1>4, <1>5, Ranks
  <1>13. f.pc \in Holding /\ g.pc \in Unready
    BY <1>3, <1>4 DEF Holding, Unready
  <1> QED
    BY <1>3, <1>4, <1>5, <1>6, <1>8, <1>9, <1>10, <1>11, <1>12, <1>13, PlainTurn

LEMMA PopTokenInv == ASSUME IInvAt, NEW t \in Thread, PopToken(t) PROVE IInvAt'
  <1>1. PICK f : IsTop(t, f)
    BY DEF PopToken, At, IsTop
  <1>2. TypeOK /\ Stacks /\ ExcInv /\ "read" \in Place
    BY DEF IInvAt, Place
  <1>3. PICK g : Turns(t, f, g) /\ g.pc = "read" /\ g.got = f.got
    BY <1>1, <1>2, GotoTurns DEF PopToken
  <1>4. /\ f.pc = "pop" /\ Locked(t, f) /\ f.tile \in Tile
        /\ f.pc \in InFarm => ItemOf[f.tile] \in Source
        /\ exc[t] # "none" => f.pc \in Unwinding \cup {"push", "post"}
    BY <1>1, TopFacts DEF PopToken
  <1>5. PICK i \in Source : i = ItemOf[f.tile] /\ TakeToken(t, i)
    BY <1>1, <1>4 DEF PopToken, IsTop, InFarm
  <1>6. /\ FarmInv' /\ tokens' \in [Source -> Seq(Clone)]
        /\ token' \in [Thread -> Clone \cup {NoToken}] /\ countdown' = countdown
    BY <1>3, <1>4, <1>5, PopTokenFarm
  <1>7. Stacks'
    BY <1>2, <1>3, TurnMove, MoveFacts
  <1>8. /\ tile' = tile /\ spec' = spec /\ mutex' = mutex /\ task' = task /\ reader' = reader
        /\ nrReads' = nrReads /\ object' = object /\ failed' = failed /\ exc' = exc
    BY DEF PopToken, readVars
  <1>9. TypeOK'
    BY <1>2, <1>6, <1>7, <1>8 DEF TypeOK, Stacks, Clone
  <1>10. TurnsExc(t, g)
    BY <1>2, <1>3, <1>4, <1>8 DEF TurnsExc, ExcInv, Unwinding
  <1>11. Locked(t, g)'
    BY <1>3, <1>4, <1>8 DEF Locked, Holding, Filling, Turns, IsLazy
  <1>12. f.pc \in Holding /\ g.pc \in Unready
    BY <1>3, <1>4 DEF Holding, Unready
  <1> QED
    BY <1>3, <1>4, <1>5, <1>6, <1>8, <1>9, <1>10, <1>11, <1>12, PlainTurn

LEMMA PushTokenInv == ASSUME IInvAt, NEW t \in Thread, PushToken(t) PROVE IInvAt'
  <1>1. PICK f : IsTop(t, f)
    BY DEF PushToken, At, IsTop
  <1>2. TypeOK /\ Stacks /\ ExcInv /\ "post" \in Place
    BY DEF IInvAt, Place
  <1>3. PICK g : Turns(t, f, g) /\ g.pc = "post" /\ g.got = f.got
    BY <1>1, <1>2, GotoTurns DEF PushToken
  <1>4. /\ f.pc = "push" /\ Locked(t, f) /\ f.tile \in Tile
        /\ f.pc \in InFarm => ItemOf[f.tile] \in Source
    BY <1>1, TopFacts DEF PushToken
  <1>5. PICK i \in Source : i = ItemOf[f.tile] /\ GiveToken(t, i)
    BY <1>1, <1>4 DEF PushToken, IsTop, InFarm
  <1>6. /\ FarmInv' /\ tokens' \in [Source -> Seq(Clone)]
        /\ token' \in [Thread -> Clone \cup {NoToken}] /\ countdown' = countdown
    BY <1>3, <1>4, <1>5, PushTokenFarm
  <1>7. Stacks'
    BY <1>2, <1>3, TurnMove, MoveFacts
  <1>8. /\ tile' = tile /\ spec' = spec /\ mutex' = mutex /\ task' = task /\ reader' = reader
        /\ nrReads' = nrReads /\ object' = object /\ failed' = failed /\ exc' = exc
    BY DEF PushToken, readVars
  <1>9. TypeOK'
    BY <1>2, <1>6, <1>7, <1>8 DEF TypeOK, Stacks, Clone
  <1>10. TurnsExc(t, g)
    BY <1>2, <1>3, <1>4, <1>8 DEF TurnsExc, ExcInv, Unwinding
  <1>11. Locked(t, g)'
    BY <1>3, <1>4, <1>8 DEF Locked, Holding, Filling, Turns, IsLazy
  <1>12. f.pc \in Holding /\ g.pc \in Unready
    BY <1>3, <1>4 DEF Holding, Unready
  <1> QED
    BY <1>3, <1>4, <1>5, <1>6, <1>8, <1>9, <1>10, <1>11, <1>12, PlainTurn

LEMMA PostTokenInv == ASSUME IInvAt, NEW t \in Thread, PostToken(t) PROVE IInvAt'
  <1>1. PICK f : IsTop(t, f)
    BY DEF PostToken, At, IsTop
  <1>2. TypeOK /\ Stacks /\ ExcInv /\ {"leave", "unwind"} \subseteq Place
    BY DEF IInvAt, Place
  <1>3. PICK p \in Place : Goto(t, p) /\ p = IF exc[t] = "none" THEN "leave" ELSE "unwind"
    BY <1>2 DEF PostToken
  <1>4. PICK g : Turns(t, f, g) /\ g.pc = p /\ g.got = f.got
    BY <1>1, <1>2, <1>3, GotoTurns
  <1>5. /\ f.pc = "post" /\ Locked(t, f) /\ f.tile \in Tile
        /\ f.pc \in InFarm => ItemOf[f.tile] \in Source
    BY <1>1, TopFacts DEF PostToken
  <1>6. PICK i \in Source : i = ItemOf[f.tile] /\ CountUp(i)
    BY <1>1, <1>5 DEF PostToken, IsTop, InFarm
  <1>7. g.pc \notin InFarm
    BY <1>3, <1>4 DEF InFarm
  <1>8. FarmInv' /\ countdown' \in [Source -> 0 .. NrTokens] /\ tokens' = tokens /\ token' = token
    BY <1>4, <1>5, <1>6, <1>7, PostTokenFarm
  <1>9. Stacks'
    BY <1>2, <1>4, TurnMove, MoveFacts
  <1>10. /\ tile' = tile /\ spec' = spec /\ mutex' = mutex /\ task' = task /\ reader' = reader
         /\ nrReads' = nrReads /\ object' = object /\ failed' = failed /\ exc' = exc
    BY DEF PostToken, readVars
  <1>11. TypeOK'
    BY <1>2, <1>8, <1>9, <1>10 DEF TypeOK, Stacks, Clone
  <1>12. TurnsExc(t, g)
    BY <1>2, <1>3, <1>4, <1>10 DEF TurnsExc, ExcInv, Unwinding
  <1>13. Locked(t, g)'
    BY <1>3, <1>4, <1>5, <1>10 DEF Locked, Holding, Filling, Turns, IsLazy
  <1>14. f.pc \in Holding /\ (g.pc \in Unready \/ tile[f.tile] # "raw") /\ f.pc \notin {"fill", "unwind"}
    BY <1>3, <1>4, <1>5 DEF Holding, Unready, Locked
  <1> QED
    BY <1>4, <1>5, <1>7, <1>8, <1>10, <1>11, <1>12, <1>13, <1>14, PlainTurn

LEMMA ReadDataItemInv == ASSUME IInvAt, NEW t \in Thread, ReadDataItem(t) PROVE IInvAt'
  <1>1. PICK f : IsTop(t, f)
    BY DEF ReadDataItem, At, IsTop
  <1>2. TypeOK /\ Stacks /\ ExcInv /\ "push" \in Place
    BY DEF IInvAt, Place
  <1>3. PICK g : Turns(t, f, g) /\ g.pc = "push" /\ g.got = f.got
    BY <1>1, <1>2, GotoTurns DEF ReadDataItem
  <1>4. /\ f.pc = "read" /\ Locked(t, f) /\ f.tile \in Tile /\ SpecOf(f.tile)
        /\ f.pc \in InFarm => ItemOf[f.tile] \in Source
        /\ f.got # {} => f.pc \in {"fill", "unwind"}
        /\ exc[t] # "none" => f.pc \in Unwinding \cup {"push", "post"}
    BY <1>1, TopFacts DEF ReadDataItem
  <1>5. /\ exc[t] = "none" /\ f.got = {} /\ IsLazy(f.tile) /\ tile[f.tile] = "raw" /\ g.tile = f.tile
        /\ ItemOf[f.tile] \in Source
    <2>1. exc[t] = "none" /\ f.got = {} /\ ItemOf[f.tile] \in Source
      BY <1>4 DEF Unwinding, InFarm
    <2>2. IsLazy(f.tile)
      BY <1>4, <2>1, Ranks
    <2> QED
      BY <1>3, <1>4, <2>1, <2>2 DEF Locked, Filling, Turns
  <1>6. /\ spec' = spec /\ mutex' = mutex /\ task' = task /\ reader' = reader
        /\ nrReads' = nrReads /\ object' = object /\ failed' = failed /\ farmVars' = farmVars
        /\ \/ tile' = [tile EXCEPT ![f.tile] = "whole"] /\ exc' = exc
           \/ "error" \in Throws /\ exc' = [exc EXCEPT ![t] = "error"] /\ tile' = tile
    BY <1>1 DEF ReadDataItem, readVars, IsTop
  <1>7. Stacks'
    BY <1>2, <1>3, TurnMove, MoveFacts
  <1>8. /\ tile'[f.tile] = IF exc'[t] = "none" THEN "whole" ELSE "raw"
        /\ \A n \in Tile \ {f.tile} : tile'[n] = tile[n]
        /\ \A u \in Thread \ {t} : exc'[u] = exc[u]
    BY <1>2, <1>4, <1>5, <1>6 DEF TypeOK
  <1>9. TypeOK'
    <2>1. exc' \in [Thread -> Throws \cup {"none"}] /\ tile' \in [Tile -> {"none", "raw", "whole"}]
      BY <1>2, <1>4, <1>6 DEF TypeOK
    <2> QED
      BY <1>2, <1>6, <1>7, <2>1 DEF TypeOK, Stacks, farmVars
  <1>10. FarmInv'
    BY <1>3, <1>4, <1>6, ReadFarm
  <1>11. TurnsExc(t, g)
    BY <1>2, <1>3, <1>6, <1>8 DEF TurnsExc, ExcInv, Unwinding
  <1>12. TurnsGot(g)
    BY <1>3, <1>5 DEF TurnsGot
  <1>13. TurnsTask(f, g)
    BY <1>4, <1>6 DEF TurnsTask, Owns
  <1>14. TurnsLock(t, f, g, f.tile)
    <2>1. Keeps(f.tile)
      BY <1>6, <1>8 DEF Keeps
    <2>2. Locked(t, g)'
      BY <1>3, <1>4, <1>5, <1>6, <1>8 DEF Locked, Holding, Filling, Turns
    <2>3. SpecOf(f.tile)'
      BY <1>4, <1>5, <1>6 DEF SpecOf
    <2> QED
      BY <1>3, <1>4, <1>5, <2>1, <2>2, <2>3 DEF TurnsLock, Holding, Unready
  <1> QED
    BY <1>3, <1>6, <1>9, <1>10, <1>11, <1>12, <1>13, <1>14, Turn

-----------------------------------------------------------------------------
(* The innermost call is left *)

\* It has its result, or its exception, in its slot, in its reader or in its caller.
Result(t, f, k, F) ==
    \/ /\ f.slot # NoTile /\ k = Height(t) /\ F = {} /\ reader' = reader /\ exc'[t] = "none"
       /\ \E v \in {"done"} \cup Throws :
              task' = [task EXCEPT ![f.slot] = v] /\ (v = "done" => tile[f.tile] = "whole")
    \/ /\ f.slot = NoTile /\ k = Height(t) /\ F = {} /\ Height(t) = 1 /\ task' = task /\ exc'[t] = "none"
       /\ \E r \in Reading \cup {Idle} :
              /\ reader' = [reader EXCEPT ![t] = r]
              /\ r = Idle \/ (r.pc = "keeping" /\ r.tile = f.tile /\ tile[f.tile] = "whole")
    \/ /\ f.slot = NoTile /\ k = Height(t) - 1 /\ task' = task /\ reader' = reader
       /\ \E e, g : /\ F = {g} /\ Has(t, k, e) /\ g.tile = e.tile /\ g.slot = e.slot
                    /\ \/ /\ g.pc = e.pc /\ g.got = e.got \cup {f.tile} /\ exc'[t] = "none"
                          /\ tile[f.tile] = "whole"
                       \/ g.pc = "unwind" /\ g.got = e.got /\ exc'[t] # "none"
Left(t, f, k, F) ==
    /\ Moves(t, k, F) /\ Result(t, f, k, F)
    /\ F = {} /\ stack'[t] # <<>> => Head(stack'[t]).pc = "fill"

LEMMA LeftAlone ==
    ASSUME IInvAt, NEW t \in Thread, NEW f, IsTop(t, f), stack' = [stack EXCEPT ![t] = Tail(stack[t])]
    PROVE  /\ Moves(t, Height(t), {})
           /\ stack'[t] # <<>> => Head(stack'[t]).pc = "fill"
           /\ Tail(stack[t]) = <<>> => Height(t) = 1
  <1>1. Stacks /\ CallsAt /\ stack[t] # <<>> /\ stack[t] \in Seq(Frame)
    BY DEF IInvAt, IsTop, Stacks
  <1>2. Moves(t, Height(t), {}) /\ stack'[t] = Tail(stack[t])
    BY <1>1, PopMoves
  <1>3. PICK s, n : s = Tail(stack[t]) /\ n = Height(t)
    OBVIOUS
  <1>4. /\ s \in Seq(Frame) /\ Len(s) = n - 1 /\ n \in Nat \ {0}
        /\ \A h, g : Stands(s, h, g) <=> Stands(stack[t], h, g) /\ h # n
    BY <1>1, <1>3, PopStands, HasFacts DEF Height
  <1>5. s # <<>> => Head(s).pc = "fill"
    <2> SUFFICES ASSUME s # <<>> PROVE Head(s).pc = "fill"
      OBVIOUS
    <2>1. Stands(s, n - 1, Head(s))
      BY <1>4, OneStands
    <2>2. Has(t, n - 1, Head(s)) /\ n - 1 < Height(t)
      BY <1>3, <1>4, <2>1 DEF Has
    <2> QED
      BY <1>1, <2>2 DEF CallsAt, Good
  <1>6. s = <<>> => n = 1
    BY <1>4
  <1> QED
    BY <1>2, <1>3, <1>5, <1>6

LEMMA ReturnLeft ==
    ASSUME IInvAt, NEW t \in Thread, NEW f, IsTop(t, f), f.pc = "leave", Return(t), exc' = exc
    PROVE  \E k, F : Left(t, f, k, F)
  <1>1. TypeOK /\ Stacks /\ CallsAt /\ ReadersAt
    BY DEF IInvAt
  <1>2. /\ Has(t, Height(t), f) /\ tile[f.tile] = "whole" /\ exc[t] = "none" /\ f.tile \in Tile
    BY <1>1, TopFacts DEF Locked, Unwinding
  <1>3. CASE f.slot # NoTile
    <2>1. stack' = [stack EXCEPT ![t] = Tail(stack[t])] /\ task' = [task EXCEPT ![f.slot] = "done"]
          /\ reader' = reader
      BY <1>3 DEF Return, IsTop
    <2>2. Left(t, f, Height(t), {})
      BY <1>2, <1>3, <2>1, LeftAlone DEF Left, Result
    <2> QED
      BY <2>2
  <1>4. CASE f.slot = NoTile /\ Tail(stack[t]) = <<>>
    <2>1. stack' = [stack EXCEPT ![t] = Tail(stack[t])] /\ task' = task
          /\ reader' = [reader EXCEPT ![t].pc = "keeping"]
      BY <1>4 DEF Return, IsTop
    <2>2. /\ Moves(t, Height(t), {}) /\ Height(t) = 1
          /\ stack'[t] # <<>> => Head(stack'[t]).pc = "fill"
      BY <1>4, <2>1, LeftAlone
    <2>3. Base(t, f)
      <3>1. Has(t, 1, f)
        BY <1>2, <2>2
      <3> QED
        BY <1>1, <3>1 DEF CallsAt
    <2>4. reader[t].pc = "calling" /\ reader[t].tile = f.tile /\ reader[t] \in Reading
      <3>1. reader[t].pc = "calling" /\ reader[t].tile = f.tile
        BY <1>4, <2>3 DEF Base
      <3> QED
        BY <1>1, <3>1 DEF TypeOK, Idle
    <2>5. PICK r : r = [reader[t] EXCEPT !.pc = "keeping"]
      OBVIOUS
    <2>6. r \in Reading /\ r.pc = "keeping" /\ r.tile = f.tile
      BY <2>4, <2>5 DEF Reading
    <2>7. reader' = [reader EXCEPT ![t] = r]
      BY <2>1, <2>5
    <2>8. Left(t, f, Height(t), {})
      BY <1>2, <1>4, <2>1, <2>2, <2>6, <2>7 DEF Left, Result
    <2> QED
      BY <2>8
  <1>5. CASE f.slot = NoTile /\ Tail(stack[t]) # <<>>
    <2>1. PICK e : e = Head(Tail(stack[t]))
      OBVIOUS
    <2>2. PICK g : g = [e EXCEPT !.got = @ \cup {f.tile}]
      OBVIOUS
    <2>3. stack' = [stack EXCEPT ![t] = <<g>> \o Tail(Tail(stack[t]))] /\ task' = task /\ reader' = reader
      BY <1>5, <2>1, <2>2 DEF Return, IsTop
    <2>4. Tail(stack[t]) \in Seq(Frame)
      BY <1>1, PopStands DEF IsTop, Stacks
    <2>5. e \in Frame
      BY <1>5, <2>1, <2>4, OneStands
    <2>6. g \in Frame /\ g.tile = e.tile /\ g.slot = e.slot /\ g.pc = e.pc /\ g.got = e.got \cup {f.tile}
      BY <1>2, <2>2, <2>5 DEF Frame
    <2>7. Moves(t, Height(t) - 1, {g}) /\ Has(t, Height(t) - 1, e)
      BY <1>1, <1>5, <2>1, <2>3, <2>6, ResumeMoves DEF IsTop
    <2>8. Left(t, f, Height(t) - 1, {g})
      BY <1>2, <1>5, <2>3, <2>6, <2>7 DEF Left, Result
    <2> QED
      BY <2>8
  <1> QED
    BY <1>3, <1>4, <1>5

LEMMA ThrowLeft ==
    ASSUME IInvAt, NEW t \in Thread, NEW f, IsTop(t, f), NEW e \in Throws, Throw(t, e)
    PROVE  /\ \E k, F : Left(t, f, k, F)
           /\ exc' \in [Thread -> Throws \cup {"none"}]
           /\ \A u \in Thread \ {t} : exc'[u] = exc[u]
  <1>1. TypeOK /\ Stacks /\ e # "none"
    BY TilesAssumption DEF IInvAt
  <1>2. CASE /\ f.slot # NoTile /\ stack' = [stack EXCEPT ![t] = Tail(stack[t])]
             /\ exc' = [exc EXCEPT ![t] = "none"] /\ task' = [task EXCEPT ![f.slot] = e]
             /\ reader' = reader
    <2>1. exc'[t] = "none" /\ e # "done"
      BY <1>1, <1>2, TilesAssumption DEF TypeOK
    <2>2. Left(t, f, Height(t), {})
      BY <1>2, <2>1, LeftAlone DEF Left, Result
    <2>3. exc' \in [Thread -> Throws \cup {"none"}] /\ \A u \in Thread \ {t} : exc'[u] = exc[u]
      BY <1>1, <1>2 DEF TypeOK
    <2> QED
      BY <2>2, <2>3
  <1>3. CASE /\ f.slot = NoTile /\ Tail(stack[t]) = <<>> /\ stack' = [stack EXCEPT ![t] = Tail(stack[t])]
             /\ exc' = [exc EXCEPT ![t] = "none"] /\ task' = task /\ reader' = [reader EXCEPT ![t] = Idle]
    <2>1. exc'[t] = "none" /\ exc' \in [Thread -> Throws \cup {"none"}]
          /\ \A u \in Thread \ {t} : exc'[u] = exc[u]
      BY <1>1, <1>3 DEF TypeOK
    <2>2. /\ Moves(t, Height(t), {}) /\ Height(t) = 1
          /\ stack'[t] # <<>> => Head(stack'[t]).pc = "fill"
      BY <1>3, LeftAlone
    <2>3. Left(t, f, Height(t), {})
      BY <1>3, <2>1, <2>2 DEF Left, Result
    <2> QED
      BY <2>1, <2>3
  <1>4. CASE /\ f.slot = NoTile /\ Tail(stack[t]) # <<>>
             /\ stack' = [stack EXCEPT ![t] =
                    <<[Head(Tail(stack[t])) EXCEPT !.pc = "unwind"]>> \o Tail(Tail(stack[t]))]
             /\ exc' = [exc EXCEPT ![t] = e] /\ task' = task /\ reader' = reader
    <2>1. PICK c : c = Head(Tail(stack[t]))
      OBVIOUS
    <2>2. PICK g : g = [c EXCEPT !.pc = "unwind"]
      OBVIOUS
    <2>3. stack' = [stack EXCEPT ![t] = <<g>> \o Tail(Tail(stack[t]))]
      BY <1>4, <2>1, <2>2
    <2>4. Tail(stack[t]) \in Seq(Frame)
      BY <1>1, PopStands DEF IsTop, Stacks
    <2>5. c \in Frame
      BY <1>4, <2>1, <2>4, OneStands
    <2>6. g \in Frame /\ g.tile = c.tile /\ g.slot = c.slot /\ g.pc = "unwind" /\ g.got = c.got
      BY <2>2, <2>5 DEF Frame, Place
    <2>7. Moves(t, Height(t) - 1, {g}) /\ Has(t, Height(t) - 1, c)
      BY <1>1, <1>4, <2>1, <2>3, <2>6, ResumeMoves DEF IsTop
    <2>8. exc'[t] = e /\ exc' \in [Thread -> Throws \cup {"none"}]
          /\ \A u \in Thread \ {t} : exc'[u] = exc[u]
      BY <1>1, <1>4 DEF TypeOK
    <2>9. Left(t, f, Height(t) - 1, {g})
      BY <1>1, <1>4, <2>6, <2>7, <2>8 DEF Left, Result
    <2> QED
      BY <2>8, <2>9
  <1> QED
    BY <1>2, <1>3, <1>4 DEF Throw, IsTop

\* What is left are the innermost call and maybe its caller, which goes on.
LEMMA LeftFacts ==
    ASSUME IInvAt, NEW t \in Thread, NEW f, IsTop(t, f), NEW k, NEW F, Left(t, f, k, F)
    PROVE  /\ Moves(t, k, F) /\ k <= Height(t) /\ k \in Nat \ {0} /\ Has(t, Height(t), f)
           /\ \A h, x : Has(t, h, x) /\ ~ (h < k) /\ x # f => h = k /\ k = Height(t) - 1 /\ F # {}
           /\ \A g \in F : /\ k = Height(t) - 1 /\ f.slot = NoTile /\ stack'[t] # <<>> /\ Head(stack'[t]) = g
                           /\ task' = task /\ reader' = reader
                           /\ \E e : /\ Has(t, k, e) /\ e.pc = "fill" /\ g.tile = e.tile /\ g.slot = e.slot
                                     /\ \/ /\ g.pc = "fill" /\ g.got = e.got \cup {f.tile}
                                           /\ exc'[t] = "none" /\ tile[f.tile] = "whole"
                                        \/ g.pc = "unwind" /\ g.got = e.got /\ exc'[t] # "none"
  <1>1. Stacks /\ CallsAt
    BY DEF IInvAt
  <1>2. Moves(t, k, F) /\ Result(t, f, k, F)
    BY DEF Left
  <1>3. Has(t, Height(t), f) /\ Height(t) \in Nat \ {0} /\ k \in Nat \ {0}
    BY <1>2, TopFacts, MoveFacts
  <1>4. (k = Height(t) /\ F = {}) \/ (k = Height(t) - 1 /\ F # {})
    BY <1>2 DEF Result
  <1>5. k <= Height(t)
    BY <1>3, <1>4
  <1>6. ASSUME NEW h, NEW x, Has(t, h, x), ~ (h < k), x # f PROVE h = k /\ k = Height(t) - 1 /\ F # {}
    <2>1. h \in Nat /\ h <= Height(t) /\ h # Height(t)
      BY <1>1, <1>3, <1>6, HasFacts
    <2> QED
      BY <1>3, <1>4, <1>6, <2>1
  <1>7. ASSUME NEW g \in F
        PROVE  /\ k = Height(t) - 1 /\ f.slot = NoTile /\ stack'[t] # <<>> /\ Head(stack'[t]) = g
               /\ task' = task /\ reader' = reader
               /\ \E e : /\ Has(t, k, e) /\ e.pc = "fill" /\ g.tile = e.tile /\ g.slot = e.slot
                         /\ \/ /\ g.pc = "fill" /\ g.got = e.got \cup {f.tile}
                               /\ exc'[t] = "none" /\ tile[f.tile] = "whole"
                            \/ g.pc = "unwind" /\ g.got = e.got /\ exc'[t] # "none"
    <2>1. stack'[t] # <<>> /\ Head(stack'[t]) = g
      BY <1>2 DEF Moves
    <2>2. PICK e : /\ Has(t, k, e) /\ g.tile = e.tile /\ g.slot = e.slot
                   /\ \/ /\ g.pc = e.pc /\ g.got = e.got \cup {f.tile}
                         /\ exc'[t] = "none" /\ tile[f.tile] = "whole"
                      \/ g.pc = "unwind" /\ g.got = e.got /\ exc'[t] # "none"
      BY <1>2, <1>7 DEF Result
    <2>3. k < Height(t)
      BY <1>3, <1>4, <1>7
    <2>4. e.pc = "fill"
      BY <1>1, <2>2, <2>3 DEF CallsAt, Good
    <2>5. k = Height(t) - 1 /\ f.slot = NoTile /\ task' = task /\ reader' = reader
      BY <1>2, <1>7 DEF Result
    <2> QED
      BY <2>1, <2>2, <2>4, <2>5
  <1> QED
    BY <1>2, <1>3, <1>5, <1>6, <1>7

LEMMA LeftSlot ==
    ASSUME IInvAt, NEW t \in Thread, NEW f, IsTop(t, f), NEW k, NEW F, Left(t, f, k, F),
           f.pc \in {"check", "leave", "catch"}
    PROVE  SlotAt'
  <1>1. TypeOK /\ SlotAt /\ Result(t, f, k, F)
    BY DEF IInvAt, Left
  <1>2. /\ Moves(t, k, F) /\ Has(t, Height(t), f) /\ Height(t) \in Nat /\ k \in Nat
        /\ k <= Height(t) /\ f \in Frame
    BY LeftFacts, TopFacts
  <1>3. /\ \A h, x : Has(t, h, x) /\ ~ (h < k) /\ x # f => h = k /\ F # {}
        /\ \A g \in F : /\ f.slot = NoTile /\ task' = task /\ k = Height(t) - 1
                        /\ \E e : /\ Has(t, k, e) /\ e.pc = "fill" /\ g.tile = e.tile /\ g.slot = e.slot
                                  /\ g.pc \in {"fill", "unwind"} /\ g.got \subseteq e.got \cup {f.tile}
    <2>1. \A h, x : Has(t, h, x) /\ ~ (h < k) /\ x # f => h = k /\ F # {}
      BY LeftFacts
    <2>2. ASSUME NEW g \in F
          PROVE  /\ f.slot = NoTile /\ task' = task /\ k = Height(t) - 1
                 /\ \E e : /\ Has(t, k, e) /\ e.pc = "fill" /\ g.tile = e.tile /\ g.slot = e.slot
                           /\ g.pc \in {"fill", "unwind"} /\ g.got \subseteq e.got \cup {f.tile}
      <3>1. PICK e : /\ Has(t, k, e) /\ e.pc = "fill" /\ g.tile = e.tile /\ g.slot = e.slot
                     /\ \/ /\ g.pc = "fill" /\ g.got = e.got \cup {f.tile}
                           /\ exc'[t] = "none" /\ tile[f.tile] = "whole"
                        \/ g.pc = "unwind" /\ g.got = e.got /\ exc'[t] # "none"
        BY <2>2, LeftFacts
      <3>2. g.pc \in {"fill", "unwind"} /\ g.got \subseteq e.got \cup {f.tile}
        BY <3>1
      <3>3. f.slot = NoTile /\ task' = task /\ k = Height(t) - 1
        BY <2>2, LeftFacts
      <3> QED
        BY <3>1, <3>2, <3>3
    <2> QED
      BY <2>1, <2>2
  <1>4. f.slot # NoTile => task[f.slot] = "busy" /\ f.slot \in Tile
    BY <1>1, <1>2 DEF SlotAt, Frame
  <1>5. \/ task' = task
        \/ /\ f.slot # NoTile /\ k = Height(t) /\ F = {}
           /\ \A p \in Tile : p # f.slot => task'[p] = task[p]
    <2>1. task' = task \/ (f.slot # NoTile /\ k = Height(t) /\ F = {} /\
              \E v : task' = [task EXCEPT ![f.slot] = v])
      BY <1>1 DEF Result
    <2> QED
      BY <1>1, <2>1 DEF TypeOK
  <1>6. \A g \in F : Goes(t, k, g)
    BY <1>3 DEF Goes
  <1>7. Runs(t, k, F)
    <2>1. CASE task' = task
      BY <2>1 DEF Runs
    <2>2. CASE f.slot # NoTile /\ k = Height(t) /\ F = {} /\ \A p \in Tile : p # f.slot => task'[p] = task[p]
      <3>1. ~ (Height(t) < k)
        BY <1>2, <2>2
      <3> QED
        BY <1>2, <2>2, <3>1 DEF Runs
    <2> QED
      BY <1>5, <2>1, <2>2
  <1>8. Makes(t, k, F)
    BY <1>4, <1>5 DEF Makes
  <1>9. Keeping(t, k, F)
    <2> SUFFICES ASSUME NEW h, NEW x, Has(t, h, x), ~ (h < k), Owns(x.tile, x), task'[x.tile] # "none"
                 PROVE  \E g \in F : Owns(x.tile, g)
      BY DEF Keeping
    <2>1. x # f
      BY DEF Owns
    <2>2. h = k /\ F # {}
      BY <1>3, <2>1
    <2>3. PICK g \in F : TRUE
      BY <2>2
    <2>4. PICK e : /\ Has(t, k, e) /\ e.pc = "fill" /\ g.tile = e.tile
                   /\ g.pc \in {"fill", "unwind"} /\ g.got \subseteq e.got \cup {f.tile}
      BY <1>3
    <2>5. e = x /\ f.slot = NoTile /\ task' = task /\ k = Height(t) - 1
      BY <1>3, <2>2, <2>4, HasFacts DEF IInvAt
    <2>6. f.tile \notin Async[x.tile]
      <3> SUFFICES ASSUME f.tile \in Async[x.tile] PROVE FALSE
        OBVIOUS
      <3>1. Has(t, Height(t) - 1, x)
        BY <2>2, <2>5
      <3>2. SlotAt /\ Has(t, Height(t), f) /\ Has(t, Height(t) - 1, x) /\ f.slot = NoTile /\ f.tile \in Async[x.tile]
        BY <1>1, <1>2, <2>5, <3>1
      <3>3. task[x.tile] = "none"
        BY <3>2 DEF SlotAt
      <3> QED
        BY <2>5, <3>3
    <2>7. ~ (Async[x.tile] \subseteq g.got)
      BY <2>4, <2>5, <2>6 DEF Owns
    <2> QED
      BY <2>4, <2>5, <2>7 DEF Owns
  <1> QED
    BY <1>2, <1>6, <1>7, <1>8, <1>9, SlotMove

LEMMA LeftInv ==
    ASSUME IInvAt, TypeOK', NEW t \in Thread, NEW f, IsTop(t, f), NEW k, NEW F, Left(t, f, k, F),
           UNCHANGED <<tile, spec, object, farmVars>>,
           \/ f.pc = "leave" /\ mutex' = [mutex EXCEPT ![f.tile] = NoThread]
           \/ f.pc \in {"check", "catch"} /\ mutex' = mutex,
           \A u \in Thread \ {t} : exc'[u] = exc[u], failed' # {} => "error" \in Throws
    PROVE  IInvAt'
  <1>1. /\ TypeOK /\ Stacks /\ CallsAt /\ ReadersAt /\ ExcInv /\ LockAt /\ HeldAt /\ SlotAt /\ FarmInv
        /\ Result(t, f, k, F) /\ (F = {} /\ stack'[t] # <<>> => Head(stack'[t]).pc = "fill")
    BY DEF IInvAt, Left
  <1>2. /\ Moves(t, k, F) /\ Has(t, Height(t), f) /\ Height(t) \in Nat \ {0} /\ k \in Nat \ {0}
        /\ k <= Height(t) /\ f \in Frame /\ f.tile \in Tile /\ Locked(t, f) /\ SpecOf(f.tile)
    BY LeftFacts, TopFacts
  <1>3. /\ \A h, x : Has(t, h, x) /\ ~ (h < k) /\ x # f => h = k /\ k = Height(t) - 1 /\ F # {}
        /\ \A g \in F : /\ k = Height(t) - 1 /\ f.slot = NoTile /\ stack'[t] # <<>> /\ Head(stack'[t]) = g
                        /\ task' = task /\ reader' = reader
                        /\ \E e : /\ Has(t, k, e) /\ e.pc = "fill" /\ g.tile = e.tile /\ g.slot = e.slot
                                  /\ \/ /\ g.pc = "fill" /\ g.got = e.got \cup {f.tile}
                                        /\ exc'[t] = "none" /\ tile[f.tile] = "whole"
                                     \/ g.pc = "unwind" /\ g.got = e.got /\ exc'[t] # "none"
    BY LeftFacts
  <1>4. Stacks' /\ Height(t)' = (IF F = {} THEN k - 1 ELSE k)
        /\ \A u \in Thread \ {t} : stack'[u] = stack[u]
    BY <1>2 DEF Moves
  <1>5. Calm(t)
    <2>1. reader' = reader \/ (F = {} /\ Height(t) = 1 /\ k = 1 /\ \E r : reader' = [reader EXCEPT ![t] = r])
      BY <1>1 DEF Result
    <2>2. CASE F = {} /\ k = 1 /\ \E r : reader' = [reader EXCEPT ![t] = r]
      <3>1. Height(t)' = 0
        BY <1>4, <2>2
      <3> QED
        BY <1>1, <2>2, <3>1 DEF Calm, TypeOK
    <2> QED
      BY <2>1, <2>2 DEF Calm
  <1>6. CallsAt'
    <2>1. ASSUME NEW g \in F PROVE Fits(t, k, g)
      <3>1. PICK e : /\ Has(t, k, e) /\ e.pc = "fill" /\ g.tile = e.tile /\ g.slot = e.slot
                     /\ \/ g.pc = "fill" /\ g.got = e.got \cup {f.tile}
                        \/ g.pc = "unwind" /\ g.got = e.got
        BY <1>3
      <3>2. k = Height(t) - 1 /\ e.got \subseteq Arg[e.tile]
        BY <1>1, <1>3, <3>1 DEF CallsAt, Good
      <3>3. f.tile \in Arg[e.tile]
        <4>1. CallsAt /\ Has(t, Height(t), f) /\ Has(t, Height(t) - 1, e)
          BY <1>1, <1>2, <3>1, <3>2
        <4> QED
          BY <4>1 DEF CallsAt
      <3>4. g.got \subseteq Arg[g.tile] /\ g.pc \in {"fill", "unwind"}
        BY <3>1, <3>2, <3>3
      <3>5. Goes(t, k, g)
        BY <3>1 DEF Goes
      <3> QED
        BY <3>4, <3>5 DEF Fits, InFarm
    <2> QED
      BY <1>1, <1>2, <1>5, <2>1, CallsMove
  <1>7. ReadersAt'
    <2>1. object' = object
      OBVIOUS
    <2>2. CASE reader' = reader
      BY <1>1, <2>1, <2>2 DEF ReadersAt
    <2>3. CASE \E r \in Reading \cup {Idle} :
                 /\ f.slot = NoTile /\ Height(t) = 1 /\ reader' = [reader EXCEPT ![t] = r]
                 /\ r = Idle \/ r.pc = "keeping"
      <3>1. PICK r \in Reading \cup {Idle} :
                 /\ f.slot = NoTile /\ Height(t) = 1 /\ reader' = [reader EXCEPT ![t] = r]
                 /\ r = Idle \/ r.pc = "keeping"
        BY <2>3
      <3>2. Has(t, 1, f)
        BY <1>2, <3>1
      <3>3. t \notin Worker
        BY <1>1, <3>1, <3>2 DEF CallsAt, Base
      <3>4. r.pc # "calling" /\ r.pc # "future"
        BY <3>1 DEF Idle
      <3>5. \A u \in Thread : reader'[u] = IF u = t THEN r ELSE reader[u]
        BY <1>1, <3>1 DEF TypeOK
      <3> QED
        BY <1>1, <2>1, <3>3, <3>4, <3>5, TilesAssumption DEF ReadersAt
    <2> QED
      BY <1>1, <2>2, <2>3 DEF Result
  <1>8. ExcInv'
    <2>1. CASE F = {}
      <3>1. exc'[t] = "none"
        BY <1>1, <2>1 DEF Result
      <3>2. stack'[t] # <<>> => Head(stack'[t]).pc \notin Unwinding
        BY <1>1, <2>1 DEF Unwinding
      <3> QED
        BY <1>1, <1>4, <3>1, <3>2, ExcMove
    <2>2. CASE F # {}
      <3>1. PICK g \in F : TRUE
        BY <2>2
      <3>2. /\ stack'[t] # <<>> /\ Head(stack'[t]) = g
            /\ (g.pc = "fill" /\ exc'[t] = "none") \/ (g.pc = "unwind" /\ exc'[t] # "none")
        BY <1>3
      <3> QED
        BY <1>1, <1>4, <3>2, ExcMove DEF Unwinding
    <2> QED
      BY <2>1, <2>2
  <1>9. FarmInv'
    <2>1. stack'[t] # <<>> => Head(stack'[t]).pc \in {"fill", "unwind"}
      <3>1. CASE F = {}
        BY <1>1, <3>1
      <3>2. CASE F # {}
        BY <1>3, <3>2
      <3> QED
        BY <3>1, <3>2
    <2>2. \A p \in InFarm : ~ At(t, p) /\ ~ At(t, p)'
      BY <2>1 DEF InFarm, At, Top, IsTop
    <2>3. farmVars' = farmVars
      OBVIOUS
    <2> QED
      BY <1>1, <1>4, <2>2, <2>3, FarmMove
  <1>10. \E n : /\ Keeps(n) /\ Leaves(t, k, n) /\ (n = f.tile \/ n = NoTile)
                /\ n \in Tile => tile[n] = "whole"
                /\ \A e : Has(t, k, e) /\ e # f => mutex'[e.tile] = mutex[e.tile] \/ e.pc \notin Holding
    <2>1. CASE f.pc \in {"check", "catch"} /\ mutex' = mutex
      <3>1. Keeps(NoTile)
        BY <2>1 DEF Keeps
      <3>2. Leaves(t, k, NoTile)
        BY <1>1, HasFacts, FramePlaces, TilesAssumption DEF Leaves
      <3> QED
        BY <2>1, <3>1, <3>2, TilesAssumption
    <2>2. CASE f.pc = "leave" /\ mutex' = [mutex EXCEPT ![f.tile] = NoThread]
      <3>1. \A m \in Tile : m # f.tile => mutex'[m] = mutex[m]
        BY <1>1, <1>2, <2>2 DEF TypeOK
      <3>2. Keeps(f.tile)
        BY <3>1 DEF Keeps
      <3>3. f.pc \in Holding /\ tile[f.tile] = "whole"
        BY <1>2, <2>2 DEF Holding, Locked
      <3>4. ASSUME NEW u, NEW h, NEW x, Has(u, h, x), x.pc \in Holding, x.tile = f.tile
            PROVE  u = t /\ h = Height(t) /\ x = f
        BY <1>2, <3>3, <3>4, OneHolder
      <3>5. Leaves(t, k, f.tile)
        <4>1. ~ (Height(t) < k)
          BY <1>2
        <4> QED
          BY <3>4, <4>1 DEF Leaves
      <3>6. \A e : Has(t, k, e) /\ e # f => mutex'[e.tile] = mutex[e.tile] \/ e.pc \notin Holding
        BY <1>1, <3>1, <3>4, HasFacts, FramePlaces
      <3> QED
        BY <3>2, <3>3, <3>5, <3>6
    <2> QED
      BY <2>1, <2>2
  <1>11. PICK n : /\ Keeps(n) /\ Leaves(t, k, n) /\ (n = f.tile \/ n = NoTile)
                  /\ n \in Tile => tile[n] = "whole"
                  /\ \A e : Has(t, k, e) /\ e # f => mutex'[e.tile] = mutex[e.tile] \/ e.pc \notin Holding
    BY <1>10
  <1>12. LockAt'
    <2>1. f.pc \notin Unready
      BY DEF Unready
    <2>2. Resumes(t, k, n, F)
      <3> SUFFICES ASSUME NEW h, NEW x, Has(t, h, x), ~ (h < k), x.pc \in Unready
                   PROVE  \E g \in F : g.tile = x.tile /\ g.pc \in Unready
        BY DEF Resumes
      <3>1. x # f
        BY <2>1
      <3>2. h = k /\ F # {}
        BY <1>3, <3>1
      <3>3. PICK g \in F : TRUE
        BY <3>2
      <3>4. PICK e : Has(t, k, e) /\ g.tile = e.tile /\ g.pc \in {"fill", "unwind"}
        BY <1>3
      <3>5. e = x
        BY <1>1, <3>2, <3>4, HasFacts
      <3> QED
        BY <3>4, <3>5 DEF Unready
    <2>3. \A u \in Thread : exc'[u] = exc[u] \/ (u = t /\ k <= Height(t))
      BY <1>2
    <2>4. ASSUME NEW g \in F PROVE Locked(t, g)'
      <3>1. PICK e : /\ Has(t, k, e) /\ e.pc = "fill" /\ g.tile = e.tile /\ g.pc \in {"fill", "unwind"}
        BY <1>3
      <3>2. e # f /\ e.pc \in Holding
        BY <3>1 DEF Holding
      <3>3. mutex'[e.tile] = mutex[e.tile] /\ Locked(t, e)
        BY <1>1, <1>11, <3>1, <3>2 DEF LockAt
      <3>4. tile' = tile
        OBVIOUS
      <3> QED
        BY <3>1, <3>3, <3>4 DEF Locked, Holding, Filling, IsLazy
    <2>5. n \in Tile => SpecOf(n)' /\ (tile'[n] = "raw" => IsLazy(n) /\ \E g \in F : g.tile = n /\ g.pc \in Unready)
      <3>1. n \in Tile => SpecOf(n)
        BY <1>1 DEF LockAt
      <3>2. n \in Tile => SpecOf(n)'
        BY <3>1 DEF SpecOf, IsLazy
      <3> QED
        BY <1>11, <3>2
    <2> QED
      BY <1>1, <1>2, <1>11, <2>2, <2>3, <2>4, <2>5, LockMove
  <1>13. HeldAt'
    <2>1. \A p \in Tile : task'[p] = "done" => task[p] = "done" \/ \A a \in Async[p] : tile[a] = "whole"
      <3>1. CASE task' = task
        BY <3>1
      <3>2. CASE /\ f.slot # NoTile
                 /\ \E v \in {"done"} \cup Throws :
                        task' = [task EXCEPT ![f.slot] = v] /\ (v = "done" => tile[f.tile] = "whole")
        <4>1. PICK v \in {"done"} \cup Throws :
                        task' = [task EXCEPT ![f.slot] = v] /\ (v = "done" => tile[f.tile] = "whole")
          BY <3>2
        <4>2. f.slot \in Tile /\ f.tile \in Async[f.slot]
          BY <1>1, <1>2, <3>2 DEF SlotAt, Frame
        <4>3. \A a \in Async[f.slot] : a = f.tile
          BY <4>2, TilesAssumption
        <4>4. \A p \in Tile : task'[p] = IF p = f.slot THEN v ELSE task[p]
          BY <1>1, <4>1, <4>2 DEF TypeOK
        <4> QED
          BY <4>1, <4>3, <4>4
      <3> QED
        BY <1>1, <3>1, <3>2 DEF Result
    <2>2. \A u \in Thread : reader'[u].pc = "keeping" =>
              reader'[u] = reader[u] \/ tile[reader'[u].tile] = "whole"
      <3>1. CASE reader' = reader
        BY <3>1
      <3>2. CASE \E r : /\ reader' = [reader EXCEPT ![t] = r]
                        /\ r = Idle \/ (r.pc = "keeping" /\ r.tile = f.tile /\ tile[f.tile] = "whole")
        BY <1>1, <3>2 DEF TypeOK, Idle
      <3> QED
        BY <1>1, <3>1, <3>2 DEF Result
    <2>3. ASSUME NEW g \in F, NEW a \in g.got PROVE tile[a] = "whole"
      <3>1. PICK e : /\ Has(t, k, e)
                     /\ (g.got = e.got \cup {f.tile} /\ tile[f.tile] = "whole") \/ g.got = e.got
        BY <1>3
      <3>2. \A b \in e.got : Shared(b)
        BY <3>1 DEF Shared
      <3>3. \A b \in e.got : tile[b] = "whole"
        BY <1>1, <3>2 DEF HeldAt
      <3> QED
        BY <2>3, <3>1, <3>3
    <2>4. n \in Tile => (tile[n] = "whole" => tile'[n] = "whole")
      OBVIOUS
    <2> QED
      BY <1>1, <1>2, <1>11, <2>1, <2>2, <2>3, <2>4, HeldMove
  <1>14. SlotAt'
    BY LeftSlot
  <1> QED
    BY <1>4, <1>6, <1>7, <1>8, <1>9, <1>12, <1>13, <1>14 DEF IInvAt

LEMMA LeftTypes ==
    ASSUME IInvAt, NEW t \in Thread, NEW f, IsTop(t, f), NEW k, NEW F, Left(t, f, k, F)
    PROVE  /\ task' \in [Tile -> {"none", "open", "busy", "done"} \cup Throws]
           /\ reader' \in [Thread -> Reading \cup {Idle}]
           /\ Stacks'
  <1>1. TypeOK /\ Result(t, f, k, F) /\ Moves(t, k, F)
    BY DEF IInvAt, Left
  <1>2. task' = task \/ \E v \in {"done"} \cup Throws : task' = [task EXCEPT ![f.slot] = v]
    BY <1>1 DEF Result
  <1>3. reader' = reader \/ \E r \in Reading \cup {Idle} : reader' = [reader EXCEPT ![t] = r]
    BY <1>1 DEF Result
  <1>4. task' \in [Tile -> {"none", "open", "busy", "done"} \cup Throws]
    BY <1>1, <1>2 DEF TypeOK
  <1>5. reader' \in [Thread -> Reading \cup {Idle}]
    BY <1>1, <1>3 DEF TypeOK
  <1> QED
    BY <1>1, <1>4, <1>5, MoveFacts

LEMMA LeaveInv == ASSUME IInvAt, NEW t \in Thread, Leave(t) PROVE IInvAt'
  <1>1. PICK f : IsTop(t, f)
    BY DEF Leave, At, IsTop
  <1>2. TypeOK /\ ExcInv
    BY DEF IInvAt
  <1>3. f.pc = "leave" /\ f.tile \in Tile
    BY <1>1, TopFacts DEF Leave
  <1>4. /\ tile' = tile /\ spec' = spec /\ exc' = exc /\ nrReads' = nrReads /\ object' = object
        /\ failed' = failed /\ farmVars' = farmVars /\ mutex' = [mutex EXCEPT ![f.tile] = NoThread]
        /\ Return(t)
    BY <1>1 DEF Leave, IsTop
  <1>5. PICK k, F : Left(t, f, k, F)
    BY <1>1, <1>3, <1>4, ReturnLeft
  <1>6. TypeOK'
    <2>1. mutex' \in [Tile -> Thread \cup {NoThread}]
      BY <1>2, <1>3, <1>4 DEF TypeOK
    <2>2. /\ task' \in [Tile -> {"none", "open", "busy", "done"} \cup Throws]
          /\ reader' \in [Thread -> Reading \cup {Idle}]
          /\ stack' \in [Thread -> Seq(Frame)]
      BY <1>1, <1>5, LeftTypes DEF Stacks
    <2> QED
      BY <1>2, <1>4, <2>1, <2>2 DEF TypeOK, farmVars
  <1>7. failed' # {} => "error" \in Throws
    BY <1>2, <1>4 DEF ExcInv
  <1> QED
    BY <1>1, <1>3, <1>4, <1>5, <1>6, <1>7, LeftInv

\* The functor checks for a failure, or has an exception, and throws.
LEMMA ThrowInv ==
    ASSUME IInvAt, NEW t \in Thread, NEW f, IsTop(t, f), f.pc \in {"check", "catch"},
           NEW e \in Throws, Throw(t, e), failed' \subseteq Item, failed' # {} => "error" \in Throws,
           UNCHANGED <<tile, spec, mutex, nrReads, object, farmVars>>
    PROVE  IInvAt'
  <1>1. TypeOK
    BY DEF IInvAt
  <1>2. PICK k, F : Left(t, f, k, F)
    BY ThrowLeft
  <1>3. exc' \in [Thread -> Throws \cup {"none"}] /\ \A u \in Thread \ {t} : exc'[u] = exc[u]
    BY ThrowLeft
  <1>4. TypeOK'
    <2>1. /\ task' \in [Tile -> {"none", "open", "busy", "done"} \cup Throws]
          /\ reader' \in [Thread -> Reading \cup {Idle}]
          /\ stack' \in [Thread -> Seq(Frame)]
      BY <1>2, LeftTypes DEF Stacks
    <2> QED
      BY <1>1, <1>3, <2>1 DEF TypeOK, farmVars
  <1> QED
    BY <1>2, <1>3, <1>4, LeftInv

LEMMA CheckInv == ASSUME IInvAt, NEW t \in Thread, Check(t) PROVE IInvAt'
  <1>1. PICK f : IsTop(t, f)
    BY DEF Check, At, IsTop
  <1>2. TypeOK /\ ExcInv
    BY DEF IInvAt
  <1>3. f.pc = "check" /\ At(t, "check")
    BY <1>1, TopFacts DEF Check
  <1>4. CASE ItemOf[f.tile] \in failed
    <2>1. Throw(t, "error") /\ "error" \in Throws
      BY <1>1, <1>2, <1>4 DEF Check, IsTop, ExcInv
    <2>2. failed' \subseteq Item /\ (failed' # {} => "error" \in Throws)
      BY <1>2, <2>1 DEF Check, TypeOK
    <2>3. UNCHANGED <<tile, spec, mutex, nrReads, object, farmVars>>
      BY DEF Check
    <2> QED
      BY <1>1, <1>3, <2>1, <2>2, <2>3, ThrowInv
  <1>5. CASE ItemOf[f.tile] \notin failed
    <2>1. /\ Goto(t, "lock")
          /\ UNCHANGED <<tile, spec, mutex, exc, task, readVars, object, failed, farmVars>>
      BY <1>1, <1>5 DEF Check, IsTop, readVars
    <2> QED
      BY <1>3, <2>1, CheckTurn
  <1> QED
    BY <1>4, <1>5

LEMMA CatchInv == ASSUME IInvAt, NEW t \in Thread, Catch(t) PROVE IInvAt'
  <1>1. PICK f : IsTop(t, f)
    BY DEF Catch, At, IsTop
  <1>2. TypeOK /\ ExcInv
    BY DEF IInvAt
  <1>3. f.pc = "catch" /\ f.tile \in Tile /\ exc[t] # "none"
    BY <1>1, TopFacts DEF Catch, Unwinding
  <1>4. exc[t] \in Throws
    BY <1>2, <1>3 DEF TypeOK
  <1>5. /\ Throw(t, exc[t]) /\ UNCHANGED <<tile, spec, mutex, nrReads, object, farmVars>>
        /\ failed' = failed \/ (exc[t] = "error" /\ failed' = failed \cup {ItemOf[f.tile]})
    BY <1>1 DEF Catch, IsTop
  <1>6. ItemOf[f.tile] \in Item
    BY <1>3, TilesAssumption
  <1>7. failed' \subseteq Item /\ (failed' # {} => "error" \in Throws)
    BY <1>2, <1>4, <1>5, <1>6 DEF ExcInv, TypeOK
  <1>8. f.pc \in {"check", "catch"}
    BY <1>3
  <1> QED
    BY <1>1, <1>4, <1>5, <1>7, <1>8, ThrowInv

-----------------------------------------------------------------------------
(* A call is made *)

LEMMA CalledFrame ==
    ASSUME NEW n \in Tile, NEW by
    PROVE  /\ Called(n, by) \in Frame /\ Called(n, by).tile = n /\ Called(n, by).got = {}
           /\ Called(n, by).slot = NoTile /\ Called(n, by).pc \in {"check", "lock"}
  BY DEF Called, Entry, Frame, Place

LEMMA PushInv ==
    ASSUME IInvAt, TypeOK', ReadersAt', NEW t \in Thread, NEW f \in Frame,
           stack[t] = <<>> \/ At(t, "fill"),
           stack' = [stack EXCEPT ![t] = <<f>> \o stack[t]],
           f.pc \in {"check", "lock"}, f.got = {}, Made(t, Height(t) + 1, f), Takes(t, Height(t) + 1, f),
           Calm(t), UNCHANGED <<tile, spec, mutex, exc, failed, farmVars>>,
           \A u \in Thread : reader'[u].pc = "keeping" => reader'[u] = reader[u],
           \A p \in Tile : /\ task'[p] = "done" => task[p] = "done"
                           /\ task[p] \in {"busy", "none"} => task'[p] = task[p]
    PROVE  IInvAt'
  <1>1. /\ TypeOK /\ Stacks /\ CallsAt /\ ReadersAt /\ ExcInv /\ LockAt /\ HeldAt /\ SlotAt /\ FarmInv
    BY DEF IInvAt
  <1>2. PICK k : k = Height(t) + 1
    OBVIOUS
  <1>3. Moves(t, k, {f}) /\ stack'[t] # <<>> /\ Head(stack'[t]) = f
        /\ \A u \in Thread \ {t} : stack'[u] = stack[u]
    <2>1. Moves(t, k, {f})
      BY <1>1, <1>2, PushMoves
    <2>2. f \in {f}
      OBVIOUS
    <2> QED
      BY <2>1, <2>2 DEF Moves
  <1>4. \A h, x : Has(t, h, x) => h < k
    <2>1. Height(t) \in Nat /\ \A h, x : Has(t, h, x) => h \in Nat /\ h <= Height(t)
      BY <1>1, HasFacts
    <2> QED
      BY <1>2, <2>1
  <1>5. CallsAt'
    <2>1. \A x \in {f} : Fits(t, k, x)
      BY <1>2 DEF Fits, InFarm
    <2> QED
      BY <1>1, <1>3, <2>1, CallsMove
  <1>6. \A n : Keeps(n)
    BY <1>1, NoTileChanges
  <1>7. LockAt'
    <2>1. Leaves(t, k, NoTile)
      BY <1>1, HasFacts, FramePlaces, TilesAssumption DEF Leaves
    <2>2. Resumes(t, k, NoTile, {f})
      BY <1>4 DEF Resumes
    <2>3. \A x \in {f} : Locked(t, x)'
      <3>1. Locked(t, f)'
        BY DEF Locked, Holding, Filling
      <3> QED
        BY <3>1 DEF Locked
    <2>4. NoTile \notin Tile
      BY TilesAssumption
    <2>5. \A u \in Thread : exc'[u] = exc[u]
      OBVIOUS
    <2> QED
      BY <1>1, <1>3, <1>6, <2>1, <2>2, <2>3, <2>4, <2>5, LockMove
  <1>8. HeldAt'
    <2>1. NoTile \notin Tile /\ \A x \in {f} : \A a \in x.got : tile[a] = "whole"
      BY TilesAssumption
    <2> QED
      BY <1>1, <1>3, <1>6, <2>1, HeldMove
  <1>9. SlotAt'
    <2>1. \A x \in {f} : Goes(t, k, x) \/ Takes(t, k, x)
      BY <1>2
    <2>2. Runs(t, k, {f}) /\ Makes(t, k, {f})
      BY DEF Runs, Makes
    <2>3. Keeping(t, k, {f})
      BY <1>4 DEF Keeping
    <2> QED
      BY <1>3, <2>1, <2>2, <2>3, SlotMove
  <1>10. \A p \in InFarm \cup Unwinding \cup {"push", "post"} : ~ At(t, p) /\ ~ At(t, p)'
    BY <1>3 DEF At, Top, InFarm, Unwinding
  <1>11. FarmInv'
    BY <1>1, <1>3, <1>10, FarmMove
  <1>12. ExcInv'
    <2>1. exc'[t] = "none"
      BY <1>1, <1>10 DEF ExcInv
    <2>2. Head(stack'[t]).pc \notin Unwinding
      BY <1>3 DEF Unwinding
    <2>3. failed' # {} => "error" \in Throws
      BY <1>1 DEF ExcInv
    <2> QED
      BY <1>1, <1>3, <2>1, <2>2, <2>3, ExcMove
  <1>13. Stacks'
    BY <1>3, MoveFacts
  <1> QED
    BY <1>5, <1>7, <1>8, <1>9, <1>11, <1>12, <1>13 DEF IInvAt

\* A thread without calls, and one that is about to make one.
LEMMA NoCalls ==
    ASSUME IInvAt, NEW t \in Thread
    PROVE  /\ stack[t] = <<>> => Height(t) = 0 /\ \A h, x : ~ Has(t, h, x)
           /\ t \notin Worker /\ reader[t].pc # "calling" => stack[t] = <<>>
           /\ t \in Worker => reader[t].pc = "idle"
           /\ \A f : IsTop(t, f) => Height(t) + 1 # 1 /\ \A e : Has(t, (Height(t) + 1) - 1, e) => e = f
  <1>1. Stacks /\ CallsAt /\ ReadersAt
    BY DEF IInvAt
  <1>2. stack[t] = <<>> => Height(t) = 0 /\ \A h, x : ~ Has(t, h, x)
    BY <1>1, HasFacts DEF Height
  <1>3. ASSUME t \notin Worker, reader[t].pc # "calling", stack[t] # <<>> PROVE FALSE
    <2>1. 1 \in 1 .. Height(t)
      BY <1>1, <1>3, HasFacts
    <2>2. PICK f : Has(t, 1, f)
      BY <1>1, <2>1, HasFacts
    <2> QED
      BY <1>1, <1>3, <2>2 DEF CallsAt, Base
  <1>4. t \in Worker => reader[t].pc = "idle"
    BY <1>1 DEF ReadersAt, Idle
  <1>5. ASSUME NEW f, IsTop(t, f)
        PROVE  Height(t) + 1 # 1 /\ \A e : Has(t, (Height(t) + 1) - 1, e) => e = f
    <2>1. PICK n : n = Height(t)
      OBVIOUS
    <2>2. n \in Nat \ {0} /\ Has(t, n, f)
      BY <1>5, <2>1, TopFacts
    <2>3. n + 1 # 1 /\ (n + 1) - 1 = n
      BY <2>2
    <2>4. \A e : Has(t, n, e) => e = f
      BY <1>1, <2>2, HasFacts
    <2> QED
      BY <2>1, <2>3, <2>4
  <1> QED
    BY <1>2, <1>3, <1>4, <1>5

\* The first call of a reader.
LEMMA FirstCall ==
    ASSUME IInvAt, TypeOK', NEW t \in Thread \ Worker, stack[t] = <<>>, NEW n \in Tile, NEW by,
           stack' = [stack EXCEPT ![t] = <<Called(n, by)>>],
           NEW r, reader' = [reader EXCEPT ![t] = r], r.pc = "calling", r.tile = n,
           r.by = "functor" => ItemOf[n] \in object,
           UNCHANGED <<tile, spec, mutex, exc, task, object, failed, farmVars>>
    PROVE  IInvAt'
  <1>1. TypeOK /\ ReadersAt /\ Height(t) = 0 /\ \A h, x : ~ Has(t, h, x)
    BY NoCalls DEF IInvAt
  <1>2. PICK f : f = Called(n, by)
    OBVIOUS
  <1>3. f \in Frame /\ f.tile = n /\ f.got = {} /\ f.slot = NoTile /\ f.pc \in {"check", "lock"}
    BY <1>2, CalledFrame
  <1>4. stack' = [stack EXCEPT ![t] = <<f>> \o stack[t]]
    <2>1. <<f>> \o <<>> = <<f>>
      OBVIOUS
    <2> QED
      BY <1>2, <2>1
  <1>5. reader'[t] = r /\ \A u \in Thread \ {t} : reader'[u] = reader[u]
    BY <1>1 DEF TypeOK
  <1>6. ReadersAt'
    BY <1>1, <1>5 DEF ReadersAt
  <1>7. Made(t, Height(t) + 1, f)
    BY <1>1, <1>3, <1>5 DEF Made, Base
  <1>8. Takes(t, Height(t) + 1, f)
    BY <1>1, <1>3 DEF Takes
  <1>9. Calm(t)
    BY <1>1, <1>5 DEF Calm
  <1>10. \A u \in Thread : reader'[u].pc = "keeping" => reader'[u] = reader[u]
    BY <1>5
  <1>11. \A p \in Tile : /\ task'[p] = "done" => task[p] = "done"
                         /\ task[p] \in {"busy", "none"} => task'[p] = task[p]
    OBVIOUS
  <1> QED
    BY <1>3, <1>4, <1>6, <1>7, <1>8, <1>9, <1>10, <1>11, PushInv

LEMMA StackPushed ==
    ASSUME Stacks, NEW t \in Thread, NEW f \in Frame, stack' = [stack EXCEPT ![t] = <<f>> \o stack[t]]
    PROVE  Stacks'
  BY PushMoves, MoveFacts

LEMMA ReadTileInv ==
    ASSUME IInvAt, NEW t \in Thread \ Worker, NEW n \in Asked[t], ReadTile(t, n) PROVE IInvAt'
  <1>1. TypeOK /\ n \in Tile
    BY TilesAssumption DEF IInvAt
  <1>2. PICK r : r = [pc |-> "calling", tile |-> n, by |-> "functor"]
    OBVIOUS
  <1>3. r \in Reading /\ r.pc = "calling" /\ r.tile = n
    BY <1>1, <1>2 DEF Reading
  <1>4. /\ reader[t].pc = "idle" /\ nrReads[t] < MaxReads /\ ItemOf[n] \in object
        /\ nrReads' = [nrReads EXCEPT ![t] = @ + 1] /\ reader' = [reader EXCEPT ![t] = r]
        /\ stack' = [stack EXCEPT ![t] = <<Called(n, "functor")>>]
        /\ UNCHANGED <<tile, spec, mutex, exc, task, object, failed, farmVars>>
    BY <1>2 DEF ReadTile
  <1>5. stack[t] = <<>>
    BY <1>4, NoCalls
  <1>6. TypeOK'
    <2>1. Called(n, "functor") \in Frame
      BY <1>1, CalledFrame
    <2>2. stack' \in [Thread -> Seq(Frame)]
      BY <1>1, <1>4, <2>1 DEF TypeOK
    <2>3. nrReads' \in [Thread -> 0 .. MaxReads]
      BY <1>1, <1>4, TilesAssumption DEF TypeOK
    <2>4. reader' \in [Thread -> Reading \cup {Idle}]
      BY <1>1, <1>3, <1>4 DEF TypeOK
    <2> QED
      BY <1>1, <1>4, <2>2, <2>3, <2>4 DEF TypeOK, farmVars
  <1> QED
    BY <1>1, <1>3, <1>4, <1>5, <1>6, FirstCall

LEMMA ReadFutureInv == ASSUME IInvAt, NEW t \in Thread, ReadFuture(t) PROVE IInvAt'
  <1>1. TypeOK
    BY DEF IInvAt
  <1>2. PICK r, n : r = [reader[t] EXCEPT !.pc = "calling"] /\ n = reader[t].tile
    OBVIOUS
  <1>3. /\ reader[t].pc = "future" /\ reader' = [reader EXCEPT ![t] = r]
        /\ stack' = [stack EXCEPT ![t] = <<Called(n, "future")>>]
        /\ UNCHANGED <<tile, spec, mutex, exc, task, nrReads, object, failed, farmVars>>
    BY <1>2 DEF ReadFuture
  <1>4. reader[t] \in Reading
    BY <1>1, <1>3 DEF TypeOK, Idle
  <1>5. n \in Tile /\ r \in Reading /\ r.pc = "calling" /\ r.tile = n /\ r.by = reader[t].by
    BY <1>2, <1>4 DEF Reading
  <1>6. t \notin Worker /\ stack[t] = <<>>
    BY <1>3, NoCalls
  <1>7. r.by = "functor" => ItemOf[n] \in object
    <2>1. reader[t].by = "future"
      BY <1>3 DEF IInvAt, ReadersAt
    <2> QED
      BY <1>5, <2>1
  <1>8. TypeOK'
    <2>1. Called(n, "future") \in Frame
      BY <1>5, CalledFrame
    <2>2. stack' \in [Thread -> Seq(Frame)]
      BY <1>1, <1>3, <2>1 DEF TypeOK
    <2>3. reader' \in [Thread -> Reading \cup {Idle}]
      BY <1>1, <1>3, <1>5 DEF TypeOK
    <2> QED
      BY <1>1, <1>3, <2>2, <2>3 DEF TypeOK, farmVars
  <1> QED
    BY <1>3, <1>5, <1>6, <1>7, <1>8, FirstCall

LEMMA GetArgInv == ASSUME IInvAt, NEW t \in Thread, NEW a \in Tile, GetArg(t, a) PROVE IInvAt'
  <1>1. PICK e, f : IsTop(t, e) /\ f = Called(a, "future")
    BY DEF GetArg, At, IsTop
  <1>2. TypeOK /\ ReadersAt /\ Stacks
    BY DEF IInvAt
  <1>3. f \in Frame /\ f.tile = a /\ f.got = {} /\ f.slot = NoTile /\ f.pc \in {"check", "lock"}
    BY <1>1, CalledFrame
  <1>4. /\ At(t, "fill") /\ e.pc = "fill" /\ a \in Arg[e.tile] /\ (a \in Async[e.tile] => task[e.tile] = "none")
        /\ stack' = [stack EXCEPT ![t] = <<f>> \o stack[t]]
        /\ UNCHANGED <<tile, spec, mutex, exc, task, readVars, object, failed, farmVars>>
    BY <1>1 DEF GetArg, At, IsTop
  <1>5. Height(t) + 1 # 1 /\ \A x : Has(t, (Height(t) + 1) - 1, x) => x = e
    BY <1>1, NoCalls
  <1>6. Made(t, Height(t) + 1, f)
    <2>1. PICK k : k = Height(t) + 1
      OBVIOUS
    <2>2. \A x : Has(t, k - 1, x) => f.tile \in Arg[x.tile] /\ x.pc = "fill"
      BY <1>3, <1>4, <1>5, <2>1
    <2>3. Made(t, k, f)
      BY <1>5, <2>1, <2>2 DEF Made
    <2> QED
      BY <2>1, <2>3
  <1>7. Takes(t, Height(t) + 1, f)
    <2>1. PICK k : k = Height(t) + 1
      OBVIOUS
    <2>2. \A x : Has(t, k - 1, x) /\ f.slot = NoTile /\ f.tile \in Async[x.tile] =>
             task'[x.tile] = "none"
      BY <1>3, <1>4, <1>5, <2>1
    <2>3. Takes(t, k, f)
      BY <1>3, <2>1, <2>2 DEF Takes
    <2> QED
      BY <2>1, <2>3
  <1>8. TypeOK'
    <2>1. stack' \in [Thread -> Seq(Frame)]
      BY <1>2, <1>3, <1>4, StackPushed DEF Stacks
    <2> QED
      BY <1>2, <1>4, <2>1 DEF TypeOK, readVars, farmVars
  <1>9. ReadersAt' /\ Calm(t)
    BY <1>2, <1>4 DEF ReadersAt, Calm, readVars
  <1>10. \A u \in Thread : reader'[u].pc = "keeping" => reader'[u] = reader[u]
    BY <1>4 DEF readVars
  <1>11. \A p \in Tile : /\ task'[p] = "done" => task[p] = "done"
                         /\ task[p] \in {"busy", "none"} => task'[p] = task[p]
    BY <1>4
  <1> QED
    BY <1>3, <1>4, <1>6, <1>7, <1>8, <1>9, <1>10, <1>11, PushInv

\* The calls of all threads stay as they are, that of thread t included.
LEMMA StillInv ==
    ASSUME IInvAt, TypeOK', ReadersAt', NEW t \in Thread, stack' = stack, Calm(t), Keeps(NoTile),
           Makes(t, Height(t) + 1, {}), UNCHANGED <<exc, failed, farmVars>>,
           \A u \in Thread : reader'[u].pc = "keeping" => reader'[u] = reader[u],
           \A p \in Tile : /\ task'[p] = "done" => task[p] = "done"
                           /\ task[p] = "busy" => task'[p] = "busy"
    PROVE  IInvAt'
  <1>1. /\ TypeOK /\ Stacks /\ CallsAt /\ ExcInv /\ LockAt /\ HeldAt /\ SlotAt /\ FarmInv
    BY DEF IInvAt
  <1>2. PICK k : k = Height(t) + 1
    OBVIOUS
  <1>3. Moves(t, k, {})
    BY <1>1, <1>2, StillMoves
  <1>4. \A h, x : Has(t, h, x) => h < k
    <2>1. Height(t) \in Nat /\ \A h, x : Has(t, h, x) => h \in Nat /\ h <= Height(t)
      BY <1>1, HasFacts
    <2> QED
      BY <1>2, <2>1
  <1>5. NoTile \notin Tile
    BY TilesAssumption
  <1>6. CallsAt'
    BY <1>1, <1>3, CallsMove
  <1>7. LockAt'
    <2>1. Leaves(t, k, NoTile)
      BY <1>1, <1>5, HasFacts, FramePlaces DEF Leaves
    <2>2. Resumes(t, k, NoTile, {})
      BY <1>4 DEF Resumes
    <2>3. \A u \in Thread : exc'[u] = exc[u]
      OBVIOUS
    <2> QED
      BY <1>1, <1>3, <1>5, <2>1, <2>2, <2>3, LockMove
  <1>8. HeldAt'
    BY <1>1, <1>3, <1>5, HeldMove
  <1>9. SlotAt'
    <2>1. Runs(t, k, {})
      BY DEF Runs
    <2>2. Keeping(t, k, {})
      BY <1>4 DEF Keeping
    <2>3. Makes(t, k, {})
      BY <1>2
    <2> QED
      BY <1>3, <2>1, <2>2, <2>3, SlotMove
  <1>10. FarmInv'
    <2>1. \A i : Users(i)' = Users(i) /\ Ready(i)' = Ready(i)
      BY DEF Users, Ready, At, Top
    <2>2. token' = token /\ tokens' = tokens /\ countdown' = countdown
      BY DEF farmVars
    <2> QED
      BY <1>1, <2>1, <2>2 DEF FarmInv, FarmAt
  <1>11. ExcInv'
    BY <1>1 DEF ExcInv, At, Top
  <1>12. Stacks'
    BY <1>3, MoveFacts
  <1> QED
    BY <1>6, <1>7, <1>8, <1>9, <1>10, <1>11, <1>12 DEF IInvAt

LEMMA TakeFutureInv ==
    ASSUME IInvAt, NEW t \in Thread \ Worker, NEW n \in Asked[t], TakeFuture(t, n) PROVE IInvAt'
  <1>1. TypeOK /\ ReadersAt /\ n \in Tile
    BY TilesAssumption DEF IInvAt
  <1>2. PICK r : r = [pc |-> "future", tile |-> n, by |-> "future"]
    OBVIOUS
  <1>3. r \in Reading /\ r.pc = "future" /\ r.by = "future"
    BY <1>1, <1>2 DEF Reading
  <1>4. /\ reader[t].pc = "idle" /\ nrReads[t] < MaxReads
        /\ nrReads' = [nrReads EXCEPT ![t] = @ + 1] /\ reader' = [reader EXCEPT ![t] = r]
        /\ UNCHANGED <<tile, spec, mutex, stack, exc, task, object, failed, farmVars>>
    BY <1>2 DEF TakeFuture
  <1>5. Height(t) = 0
    BY <1>4, NoCalls
  <1>6. \A u \in Thread : reader'[u] = IF u = t THEN r ELSE reader[u]
    BY <1>1, <1>4 DEF TypeOK
  <1>7. TypeOK'
    <2>1. nrReads' \in [Thread -> 0 .. MaxReads]
      BY <1>1, <1>4, TilesAssumption DEF TypeOK
    <2>2. reader' \in [Thread -> Reading \cup {Idle}]
      BY <1>1, <1>3, <1>4 DEF TypeOK
    <2> QED
      BY <1>1, <1>4, <2>1, <2>2 DEF TypeOK, farmVars
  <1>8. ReadersAt'
    BY <1>1, <1>3, <1>4, <1>6, TilesAssumption DEF ReadersAt
  <1>9. Calm(t)
    BY <1>5, <1>6 DEF Calm
  <1>10. \A u \in Thread : reader'[u].pc = "keeping" => reader'[u] = reader[u]
    BY <1>3, <1>6
  <1>11. Keeps(NoTile) /\ Makes(t, Height(t) + 1, {})
    BY <1>4 DEF Keeps, Makes
  <1>12. \A p \in Tile : task'[p] = task[p]
    BY <1>4
  <1> QED
    BY <1>4, <1>7, <1>8, <1>9, <1>10, <1>11, <1>12, StillInv

LEMMA ReleaseInv == ASSUME IInvAt, NEW t \in Thread, Release(t) PROVE IInvAt'
  <1>1. TypeOK /\ ReadersAt
    BY DEF IInvAt
  <1>2. /\ reader[t].pc = "keeping" /\ reader' = [reader EXCEPT ![t] = Idle] /\ Expire(tile)
        /\ UNCHANGED <<stack, exc, task, spec, mutex, nrReads, object, failed, farmVars>>
    BY DEF Release
  <1>3. Height(t) = 0
    BY <1>2, NoCalls
  <1>4. \A u \in Thread : reader'[u] = IF u = t THEN Idle ELSE reader[u]
    BY <1>1, <1>2 DEF TypeOK
  <1>5. /\ tile' \in [Tile -> {"none", "raw", "whole"}]
        /\ \A n \in Tile : tile'[n] = tile[n] \/ (IsLazy(n) /\ tile'[n] = "none" /\ ~Held(n)')
    BY <1>1, <1>2 DEF Expire, TypeOK
  <1>6. TypeOK'
    <2>1. reader' \in [Thread -> Reading \cup {Idle}]
      BY <1>1, <1>2 DEF TypeOK
    <2> QED
      BY <1>1, <1>2, <1>5, <2>1 DEF TypeOK, farmVars
  <1>7. ReadersAt'
    BY <1>1, <1>2, <1>4 DEF ReadersAt, Idle
  <1>8. Calm(t)
    BY <1>3, <1>4 DEF Calm
  <1>9. \A u \in Thread : reader'[u].pc = "keeping" => reader'[u] = reader[u]
    BY <1>4 DEF Idle
  <1>10. Keeps(NoTile) /\ Makes(t, Height(t) + 1, {})
    BY <1>2, <1>5 DEF Keeps, Makes
  <1>11. \A p \in Tile : task'[p] = task[p]
    BY <1>2
  <1> QED
    BY <1>2, <1>6, <1>7, <1>8, <1>9, <1>10, <1>11, StillInv

LEMMA ForkInv == ASSUME IInvAt, NEW t \in Thread, Fork(t) PROVE IInvAt'
  <1>1. PICK f : IsTop(t, f)
    BY DEF Fork, At, IsTop
  <1>2. TypeOK /\ ReadersAt /\ CallsAt /\ Stacks
    BY DEF IInvAt
  <1>3. /\ f.pc = "fill" /\ ~ (Async[f.tile] \subseteq f.got) /\ task[f.tile] = "none"
        /\ task' = [task EXCEPT ![f.tile] = "open"]
        /\ UNCHANGED <<tile, spec, mutex, stack, exc, readVars, object, failed, farmVars>>
    BY <1>1 DEF Fork, At, IsTop
  <1>4. Has(t, Height(t), f) /\ f.tile \in Tile
    BY <1>1, TopFacts
  <1>5. \A p \in Tile : task'[p] = IF p = f.tile THEN "open" ELSE task[p]
    BY <1>2, <1>3 DEF TypeOK
  <1>6. TypeOK'
    BY <1>2, <1>3, <1>4 DEF TypeOK, readVars, farmVars
  <1>7. ReadersAt' /\ Calm(t) /\ Keeps(NoTile)
    BY <1>2, <1>3 DEF ReadersAt, Calm, Keeps, readVars
  <1>8. Makes(t, Height(t) + 1, {})
    <2>1. OwnerAt(f.tile)
      BY <1>3, <1>4 DEF OwnerAt
    <2>2. f.pc \in Holding
      BY <1>3 DEF Holding
    <2>3. \A p \in Tile : p # f.tile => task'[p] = task[p]
      BY <1>5
    <2>4. \E x : Has(t, Height(t), x) /\ x.tile = f.tile /\ x.pc \in Holding
      BY <1>4, <2>2
    <2> QED
      BY <2>1, <2>3, <2>4 DEF Makes
  <1>9. \A u \in Thread : reader'[u].pc = "keeping" => reader'[u] = reader[u]
    BY <1>3 DEF readVars
  <1>10. \A p \in Tile : /\ task'[p] = "done" => task[p] = "done"
                         /\ task[p] = "busy" => task'[p] = "busy"
    BY <1>3, <1>5
  <1> QED
    BY <1>3, <1>6, <1>7, <1>8, <1>9, <1>10, StillInv

\* A worker without calls, or the call that waits for it, runs the slot of a tile.
LEMMA DoWorkInv ==
    ASSUME IInvAt, NEW t \in Thread, NEW n \in Tile, DoWork(t, n),
           \/ stack[t] = <<>> /\ t \in Worker
           \/ \E e : IsTop(t, e) /\ e.pc = "fill" /\ e.tile = n
    PROVE  IInvAt'
  <1>1. TypeOK /\ ReadersAt /\ Stacks
    BY DEF IInvAt
  <1>2. /\ task[n] = "open" /\ UNCHANGED <<tile, spec, mutex, exc, readVars, object, failed, farmVars>>
        /\ \A p \in Tile \ {n} : task'[p] = task[p]
    BY <1>1 DEF DoWork, TypeOK
  <1>3. ReadersAt' /\ Calm(t)
    BY <1>1, <1>2 DEF ReadersAt, Calm, readVars
  <1>4. \A u \in Thread : reader'[u].pc = "keeping" => reader'[u] = reader[u]
    BY <1>2 DEF readVars
  <1>5. ASSUME task' = [task EXCEPT ![n] = "busy"], NEW a \in Async[n],
               stack' = [stack EXCEPT ![t] = <<[Called(a, "future") EXCEPT !.slot = n]>> \o stack[t]]
        PROVE  IInvAt'
    <2>1. PICK f, k : f = [Called(a, "future") EXCEPT !.slot = n] /\ k = Height(t) + 1
      OBVIOUS
    <2>2. a \in Arg[n] /\ a \in Tile /\ n # NoTile
      BY TilesAssumption
    <2>3. f \in Frame /\ f.tile = a /\ f.got = {} /\ f.slot = n /\ f.pc \in {"check", "lock"}
      <3>1. Entry(a, "future") \in {"check", "lock"}
        BY DEF Entry
      <3> QED
        BY <2>1, <2>2, <3>1 DEF Called, Frame, Place
    <2>4. task'[n] = "busy"
      BY <1>1, <1>5 DEF TypeOK
    <2>5. \A e : Has(t, k - 1, e) => e.pc = "fill" /\ e.tile = n
      BY <2>1, NoCalls
    <2>6. k = 1 => Base(t, f)'
      <3>1. k = 1 => t \in Worker
        BY <2>1, NoCalls
      <3> QED
        BY <2>2, <2>3, <3>1 DEF Base
    <2>7. Made(t, k, f)
      BY <2>1, <2>2, <2>3, <2>5, <2>6 DEF Made
    <2>8. Takes(t, k, f)
      BY <1>2, <2>1, <2>2, <2>3, <2>4 DEF Takes
    <2>9. stack' = [stack EXCEPT ![t] = <<f>> \o stack[t]]
      BY <1>5, <2>1
    <2>10. TypeOK'
      <3>1. stack' \in [Thread -> Seq(Frame)]
        BY <1>1, <2>3, <2>9, StackPushed DEF Stacks
      <3>2. task' \in [Tile -> {"none", "open", "busy", "done"} \cup Throws]
        BY <1>1, <1>5 DEF TypeOK
      <3> QED
        BY <1>1, <1>2, <3>1, <3>2 DEF TypeOK, readVars, farmVars
    <2>11. stack[t] = <<>> \/ At(t, "fill")
      BY DEF At, IsTop
    <2>12. \A p \in Tile : /\ task'[p] = "done" => task[p] = "done"
                           /\ task[p] \in {"busy", "none"} => task'[p] = task[p]
      BY <1>2, <2>4
    <2> QED
      BY <1>2, <1>3, <1>4, <2>1, <2>3, <2>7, <2>8, <2>9, <2>10, <2>11, <2>12, PushInv
  <1>6. ASSUME task' = [task EXCEPT ![n] = "cancel"], "cancel" \in Throws, stack' = stack PROVE IInvAt'
    <2>1. task'[n] = "cancel"
      BY <1>1, <1>6 DEF TypeOK
    <2>2. TypeOK'
      BY <1>1, <1>2, <1>6 DEF TypeOK, readVars, farmVars
    <2>3. Keeps(NoTile)
      BY <1>2 DEF Keeps
    <2>4. Makes(t, Height(t) + 1, {})
      <3>1. \A p \in Tile : task[p] = "none" => task'[p] = "none"
        BY <1>2
      <3> QED
        BY <3>1 DEF Makes
    <2>5. \A p \in Tile : /\ task'[p] = "done" => task[p] = "done"
                          /\ task[p] = "busy" => task'[p] = "busy"
      BY <1>2, <2>1
    <2> QED
      BY <1>2, <1>3, <1>4, <1>6, <2>2, <2>3, <2>4, <2>5, StillInv
  <1> QED
    BY <1>5, <1>6 DEF DoWork

LEMMA TakeSlotInv ==
    ASSUME IInvAt, NEW t \in Thread, NEW n \in Tile, TakeSlot(t, n) PROVE IInvAt'
  BY DoWorkInv DEF TakeSlot

LEMMA JoinSlotInv == ASSUME IInvAt, NEW t \in Thread, JoinSlot(t) PROVE IInvAt'
  <1>1. PICK e : IsTop(t, e)
    BY DEF JoinSlot, Joining, At, IsTop
  <1>2. e.pc = "fill" /\ e.tile \in Tile /\ DoWork(t, e.tile)
    BY <1>1, TopFacts DEF JoinSlot, Joining, IsTop
  <1> QED
    BY <1>1, <1>2, DoWorkInv

\* Who reads from the functor keeps the data object.
LEMMA DropObjectInv == ASSUME IInvAt, NEW i \in Item, DropObject(i) PROVE IInvAt'
  <1>1. /\ TypeOK /\ Stacks /\ CallsAt /\ ReadersAt /\ ExcInv /\ LockAt /\ HeldAt /\ SlotAt /\ FarmInv
    BY DEF IInvAt
  <1>2. /\ object' = object \ {i}
        /\ \A t \in Thread :
              reader[t].pc = "calling" /\ reader[t].by = "functor" => ItemOf[reader[t].tile] # i
        /\ tile' = tile /\ spec' = spec /\ mutex' = mutex /\ stack' = stack /\ exc' = exc
        /\ task' = task /\ reader' = reader /\ nrReads' = nrReads /\ failed' = failed
        /\ countdown' = countdown /\ tokens' = tokens /\ token' = token
    BY DEF DropObject, readVars, farmVars
  <1>3. \A t, h, f : Has(t, h, f)' <=> Has(t, h, f)
    BY <1>2 DEF Has
  <1>4. TypeOK' /\ Stacks'
    BY <1>1, <1>2 DEF TypeOK, Stacks
  <1>5. ReadersAt'
    BY <1>1, <1>2 DEF ReadersAt
  <1>6. CallsAt'
    <2>1. \A t : Height(t)' = Height(t)
      BY <1>2 DEF Height
    <2> QED
      BY <1>1, <1>2, <1>3, <2>1 DEF CallsAt, Good, Base, Rank
  <1>7. LockAt'
    BY <1>1, <1>2, <1>3 DEF LockAt, Locked, RawAt, SpecOf, IsLazy
  <1>8. HeldAt'
    BY <1>1, <1>2, <1>3 DEF HeldAt, Shared
  <1>9. SlotAt'
    BY <1>1, <1>2, <1>3 DEF SlotAt, OwnerAt
  <1>10. ExcInv' /\ FarmInv'
    <2>1. ExcInv'
      BY <1>1, <1>2 DEF ExcInv, At, Top
    <2>2. \A j : Users(j)' = Users(j) /\ Ready(j)' = Ready(j)
      BY <1>2 DEF Users, Ready, At, Top
    <2> QED
      BY <1>1, <1>2, <2>1, <2>2 DEF FarmInv, FarmAt
  <1> QED
    BY <1>4, <1>5, <1>6, <1>7, <1>8, <1>9, <1>10 DEF IInvAt

-----------------------------------------------------------------------------
(* All states *)

LEMMA InitInv == ASSUME Init PROVE IInv
  <1>1. /\ tile = [n \in Tile |-> "none"] /\ spec = Arg /\ mutex = [n \in Tile |-> NoThread]
        /\ stack = [t \in Thread |-> <<>>] /\ exc = [t \in Thread |-> "none"]
        /\ task = [n \in Tile |-> "none"] /\ reader = [t \in Thread |-> Idle]
        /\ nrReads = [t \in Thread |-> 0] /\ object = Item /\ failed = {}
        /\ countdown = [i \in Source |-> NrTokens]
        /\ tokens = [i \in Source |-> [n \in 1 .. NrTokens |-> NrTokens - n]]
        /\ token = [t \in Thread |-> NoToken]
    BY DEF Init, FarmInit
  <1>2. /\ \A t \in Thread : stack[t] = <<>> /\ exc[t] = "none" /\ reader[t] = Idle
        /\ \A n \in Tile : tile[n] = "none" /\ task[n] = "none" /\ spec[n] = Arg[n]
    BY <1>1
  <1>3. Idle.pc = "idle"
    BY DEF Idle
  <1>4. PICK q : q = [n \in 1 .. NrTokens |-> NrTokens - n]
    OBVIOUS
  <1>5. /\ NrTokens \in Nat \ {0} /\ q \in Seq(Clone) /\ Len(q) = NrTokens
        /\ \A j, k \in DOMAIN q : q[j] = q[k] => j = k
    <2>1. NrTokens \in Nat \ {0}
      BY FarmAssumption
    <2>2. q \in [1 .. NrTokens -> Clone]
      BY <1>4, <2>1 DEF Clone
    <2>3. \A j, k \in 1 .. NrTokens : q[j] = q[k] => j = k
      BY <1>4, <2>1
    <2> QED
      BY <2>1, <2>2, <2>3
  <1>6. stack \in [Thread -> Seq(Frame)]
    BY <1>1
  <1>7. \A t \in Thread : Height(t) = 0 /\ 1 .. Height(t) = {} /\ 2 .. Height(t) = {} /\ Frames(t) = {}
    BY <1>2 DEF Height, Frames
  <1>8. TypeOK
    <2>1. countdown \in [Source -> 0 .. NrTokens] /\ tokens \in [Source -> Seq(Clone)]
      BY <1>1, <1>4, <1>5
    <2>2. nrReads \in [Thread -> 0 .. MaxReads]
      BY <1>1, TilesAssumption
    <2> QED
      BY <1>1, <1>6, <2>1, <2>2, TilesAssumption DEF TypeOK
  <1>9. StackInv
    BY <1>2, <1>3, <1>7, TilesAssumption DEF StackInv
  <1>10. ExcInv
    BY <1>1, <1>2 DEF ExcInv, At
  <1>11. LockInv
    BY <1>2, <1>7 DEF LockInv
  <1>12. HeldInv
    BY <1>2, <1>3, <1>7 DEF HeldInv
  <1>13. SlotInv
    BY <1>2, <1>7 DEF SlotInv
  <1>14. FarmInv
    <2> SUFFICES ASSUME NEW i \in Source PROVE FarmAt(i)
      BY DEF FarmInv
    <2>1. Users(i) = {} /\ Ready(i) = {}
      BY <1>2 DEF Users, Ready, At
    <2>2. IsFiniteSet({}) /\ Cardinality({}) = 0
      BY FS_EmptySet
    <2>3. countdown[i] = NrTokens /\ tokens[i] = q
      BY <1>1, <1>4
    <2>4. countdown[i] + 0 = NrTokens /\ Len(tokens[i]) = countdown[i] + 0
      BY <1>5, <2>3
    <2>5. \A j, k \in DOMAIN tokens[i] : tokens[i][j] = tokens[i][k] => j = k
      BY <1>5, <2>3
    <2> QED
      BY <2>1, <2>2, <2>4, <2>5 DEF FarmAt
  <1> QED
    BY <1>8, <1>9, <1>10, <1>11, <1>12, <1>13, <1>14 DEF IInv

LEMMA GetTileInv == ASSUME IInvAt, NEW t \in Thread, GetTile(t) PROVE IInvAt'
  <1>1. CASE Check(t) \/ Enter(t) \/ \E a \in Tile : GetArg(t, a)
    BY <1>1, CheckInv, EnterInv, GetArgInv
  <1>2. CASE Fork(t) \/ JoinSlot(t) \/ JoinEnd(t)
    BY <1>2, ForkInv, JoinSlotInv, JoinEndInv
  <1>3. CASE Fill(t) \/ FillThrows(t)
    BY <1>3, FillInv, FillThrowsInv
  <1>4. CASE Acquire(t) \/ PopToken(t) \/ ReadDataItem(t)
    BY <1>4, AcquireInv, PopTokenInv, ReadDataItemInv
  <1>5. CASE PushToken(t) \/ PostToken(t)
    BY <1>5, PushTokenInv, PostTokenInv
  <1>6. CASE Leave(t) \/ Unwind(t) \/ Unlock(t) \/ Catch(t)
    BY <1>6, LeaveInv, UnwindInv, UnlockInv, CatchInv
  <1> QED
    BY <1>1, <1>2, <1>3, <1>4, <1>5, <1>6 DEF GetTile

LEMMA NextInv == ASSUME IInv, [Next]_vars PROVE IInv'
  <1>1. IInvAt
    BY InvAt
  <1>2. IInvAt => IInvAt' \/ UNCHANGED vars
    <2>1. CASE \E t \in Thread : GetTile(t) \/ JoinCancelled(t) \/ ReadFuture(t) \/ Release(t)
      BY <2>1, GetTileInv, JoinCancelledInv, ReadFutureInv, ReleaseInv
    <2>2. CASE \E t \in Thread : \E n \in Tile : TakeSlot(t, n)
      BY <2>2, TakeSlotInv
    <2>3. CASE \E t \in Thread \ Worker : \E n \in Asked[t] : ReadTile(t, n) \/ TakeFuture(t, n)
      BY <2>3, ReadTileInv, TakeFutureInv
    <2>4. CASE \E i \in Item : DropObject(i)
      BY <2>4, DropObjectInv
    <2>5. CASE Finished \/ UNCHANGED vars
      BY <2>5 DEF Finished
    <2> QED
      BY <2>1, <2>2, <2>3, <2>4, <2>5 DEF Next
  <1>3. CASE IInvAt'
    BY <1>3, AtInv
  <1>4. CASE UNCHANGED vars
    <2>1. /\ tile' = tile /\ spec' = spec /\ mutex' = mutex /\ stack' = stack /\ exc' = exc
          /\ task' = task /\ reader' = reader /\ nrReads' = nrReads /\ object' = object
          /\ failed' = failed /\ countdown' = countdown /\ tokens' = tokens /\ token' = token
      BY <1>4 DEF vars, farmVars
    <2>2. /\ \A t : Height(t)' = Height(t) /\ Frames(t)' = Frames(t)
          /\ \A t, h : Call(t, h)' = Call(t, h)
          /\ \A t, p : At(t, p)' <=> At(t, p)
          /\ \A i : Users(i)' = Users(i) /\ Ready(i)' = Ready(i)
      BY <2>1 DEF Height, Frames, Call, At, Top, Users, Ready
    <2>3. TypeOK /\ StackInv /\ ExcInv /\ LockInv /\ HeldInv /\ SlotInv /\ FarmInv
      BY DEF IInv
    <2>4. TypeOK'
      BY <2>1, <2>3 DEF TypeOK
    <2>5. StackInv'
      BY <2>1, <2>2, <2>3 DEF StackInv, Rank
    <2>6. ExcInv'
      BY <2>1, <2>2, <2>3 DEF ExcInv
    <2>7. LockInv'
      BY <2>1, <2>2, <2>3 DEF LockInv, IsLazy
    <2>8. HeldInv'
      BY <2>1, <2>2, <2>3 DEF HeldInv
    <2>9. SlotInv'
      BY <2>1, <2>2, <2>3 DEF SlotInv
    <2>10. FarmInv'
      BY <2>1, <2>2, <2>3 DEF FarmInv, FarmAt
    <2> QED
      BY <2>4, <2>5, <2>6, <2>7, <2>8, <2>9, <2>10 DEF IInv
  <1> QED
    BY <1>1, <1>2, <1>3, <1>4

-----------------------------------------------------------------------------
(* Theorems *)

\* In every state the calls of each thread are stacked by the order of calculation, what
\* they have locked, hold and run agrees with the tiles, the mutexes, the slots and the
\* farms (TileFunctorImpl.h, OperAttrBin.h, AbstrDataItem.cpp).
THEOREM Invariance == Spec => []IInv
  <1>1. Init => IInv
    BY InitInv
  <1>2. IInv /\ [Next]_vars => IInv'
    BY NextInv
  <1> QED
    BY <1>1, <1>2, PTL DEF Spec

\* The variables have their types: no call is for a tile, at a place or with arguments that
\* do not exist, and a count of a farm stays between zero and the number of its clones.
THEOREM TypeCorrect == Spec => []TypeOK
  <1>1. IInv => TypeOK
    BY DEF IInv
  <1> QED
    BY <1>1, Invariance, PTL

\* What a reader keeps, a call has got or a slot has as its result is data that was written
\* to the end (GetTile of TileFunctorImpl.h).
THEOREM DataIsWhole == Spec => []HeldIsWhole
  <1>1. IInv => HeldIsWhole
    BY DEF IInv, HeldInv, HeldIsWhole
  <1> QED
    BY <1>1, Invariance, PTL

LEMMA AloneFollows == ASSUME IInv PROVE FillsAlone
  <1>1. IInvAt
    BY InvAt
  <1>2. /\ \A t \in Thread : \A f : f \in Frames(t) <=> \E h : Has(t, h, f)
        /\ LockAt
    BY <1>1, HasFacts DEF IInvAt
  <1>3. ASSUME NEW t \in Thread, NEW f \in Frames(t), f.pc \in Filling
        PROVE  /\ tile[f.tile] = IF IsLazy(f.tile) THEN "raw" ELSE "none"
               /\ \A u \in Thread \ {t} : \A g \in Frames(u) : g.pc \in Filling => g.tile # f.tile
    <2>1. PICK h : Has(t, h, f)
      BY <1>2
    <2>2. tile[f.tile] = IF IsLazy(f.tile) THEN "raw" ELSE "none"
      BY <1>2, <1>3, <2>1 DEF LockAt, Locked
    <2>3. ASSUME NEW u \in Thread \ {t}, NEW g \in Frames(u), g.pc \in Filling, g.tile = f.tile PROVE FALSE
      <3>1. PICK k : Has(u, k, g)
        BY <1>2
      <3>2. f.pc \in Holding /\ g.pc \in Holding
        BY <1>3, <2>3, FramePlaces
      <3> QED
        BY <1>1, <2>1, <2>3, <3>1, <3>2, OneHolder
    <2> QED
      BY <2>2, <2>3
  <1> QED
    BY <1>3 DEF FillsAlone

\* The data of a tile is written by one thread at a time (m_Mutex of its tile_record or lazy
\* tile), and while nobody else has it.
THEOREM FillsAreAlone == Spec => []FillsAlone
  <1>1. IInv => FillsAlone
    BY AloneFollows
  <1> QED
    BY <1>1, Invariance, PTL

LEMMA FarmFollows == ASSUME IInv PROVE FarmIsSafe
  <1>1. TypeOK /\ FarmInv /\ IInvAt
    BY InvAt DEF IInv
  <1>2. ASSUME NEW t \in Thread, NEW p \in InFarm, At(t, p)
        PROVE  ItemOf[Top(t).tile] \in Source /\ t \in Users(ItemOf[Top(t).tile])
    <2>1. PICK f : IsTop(t, f)
      BY <1>2 DEF At, IsTop
    <2>2. ItemOf[f.tile] \in Source
      BY <1>1, <1>2, <2>1, TopFacts
    <2> QED
      BY <1>2, <2>1, <2>2 DEF IsTop, Users
  <1>3. ASSUME NEW t \in Thread, At(t, "pop") PROVE tokens[ItemOf[Top(t).tile]] # <<>>
    <2>1. PICK i : i = ItemOf[Top(t).tile]
      OBVIOUS
    <2>2. i \in Source /\ t \in Users(i)
      BY <1>2, <1>3, <2>1 DEF InFarm
    <2>3. t \in Ready(i)
      BY <1>3, <2>2 DEF Ready
    <2>4. IsFiniteSet(Users(i)) /\ Len(tokens[i]) = countdown[i] + Cardinality(Ready(i))
      BY <1>1, <2>2 DEF FarmInv, FarmAt
    <2>5. Cardinality(Ready(i)) \in Nat /\ Cardinality(Ready(i)) # 0
      BY <2>3, <2>4, FS_Subset, FS_CardinalityType, FS_EmptySet DEF Ready
    <2>6. countdown[i] \in Nat
      BY <1>1, <2>2, FarmAssumption DEF TypeOK
    <2>7. Len(tokens[i]) # 0
      BY <2>4, <2>5, <2>6
    <2> QED
      BY <2>1, <2>7
  <1>4. ASSUME NEW t \in Thread, NEW u \in Thread, t # u, At(t, "read"), At(u, "read"),
               ItemOf[Top(t).tile] = ItemOf[Top(u).tile]
        PROVE  token[t] # token[u]
    <2>1. PICK i : i = ItemOf[Top(t).tile]
      OBVIOUS
    <2>2. i \in Source /\ t \in Users(i) /\ u \in Users(i)
      BY <1>2, <1>4, <2>1 DEF InFarm
    <2>3. t \notin Ready(i) /\ u \notin Ready(i)
      BY <1>4 DEF Ready, At
    <2> QED
      BY <1>1, <1>4, <2>2, <2>3 DEF FarmInv, FarmAt
  <1> QED
    BY <1>3, <1>4 DEF FarmIsSafe

\* A thread that passed the semaphore of a reader_clone_farm finds a token on its stack, and
\* a clone of the storage manager is used by one thread (AbstrDataItem.cpp).
THEOREM ClonesAreUnique == Spec => []FarmIsSafe
  <1>1. IInv => FarmIsSafe
    BY FarmFollows
  <1> QED
    BY <1>1, Invariance, PTL

-----------------------------------------------------------------------------
(* What a call refers to is alive *)

LEMMA NatMin ==
    ASSUME NEW T \in SUBSET Nat, T # {}
    PROVE  \E m \in T : \A k \in T : ~ (k < m)
  <1>1. PICK R : R = {ss \in Nat \X Nat : ss[1] < ss[2]}
    OBVIOUS
  <1>2. IsWellFoundedOn(R, Nat)
    BY <1>1, NatLessThanWellFounded DEF OpToRel
  <1>3. PICK m \in T : \A k \in Nat : <<k, m>> \in R => ~ (k \in T)
    BY <1>2, WFMin
  <1>4. \A k \in T : k < m => <<k, m>> \in R
    BY <1>1
  <1> QED
    BY <1>3, <1>4

\* The specification of a tile that is being filled, or unwound, refers to its arguments.
LEMMA SpecKept ==
    ASSUME IInvAt, NEW t, NEW h, NEW e, Has(t, h, e), e.pc \in {"fill", "unwind"}
    PROVE  e.tile \in Tile /\ spec[e.tile] = Arg[e.tile]
  <1>1. LockAt /\ Stacks
    BY DEF IInvAt
  <1>2. e.tile \in Tile /\ Locked(t, e)
    BY <1>1, HasFacts, FramePlaces DEF LockAt
  <1>3. IsLazy(e.tile) \/ tile[e.tile] # "whole"
    BY <1>2 DEF Locked, Filling
  <1> QED
    BY <1>1, <1>2, <1>3 DEF LockAt, SpecOf

\* A call that is for a destroyed record was made by a call for such a record.
LEMMA Supported ==
    ASSUME IInvAt, NEW S \in SUBSET Tile, Reached(S), NEW t, NEW h, NEW f, Has(t, h, f), f.tile \notin S
    PROVE  \E u, g, e : Has(u, g, e) /\ e.tile \notin S /\ Rank(f.tile) < Rank(e.tile)
  <1>1. TypeOK /\ Stacks /\ CallsAt /\ ReadersAt /\ SlotAt
    BY DEF IInvAt
  <1>2. /\ t \in Thread /\ f.tile \in Tile /\ f \in Frame /\ h \in Nat \ {0} /\ h <= Height(t)
        /\ Height(t) \in Nat
    BY <1>1, HasFacts, FramePlaces
  <1>3. f.tile \in Same(f.tile)
    BY <1>2 DEF Same
  <1>4. /\ ItemOf[f.tile] \notin object /\ ~ Referred(f.tile)
        /\ \A p \in S : f.tile \notin spec[p]
    BY <1>2, <1>3 DEF Reached
  <1>5. ASSUME NEW u, NEW g, NEW e, Has(u, g, e), e.pc \in {"fill", "unwind"}, f.tile \in Arg[e.tile]
        PROVE  e.tile \notin S /\ Rank(f.tile) < Rank(e.tile)
    <2>1. e.tile \in Tile /\ spec[e.tile] = Arg[e.tile]
      BY <1>5, SpecKept
    <2> QED
      BY <1>4, <1>5, <2>1, Ranks
  <1>6. CASE h > 1
    <2>1. h - 1 \in 1 .. Height(t) /\ h - 1 < Height(t)
      BY <1>2, <1>6
    <2>2. PICK e : Has(t, h - 1, e)
      BY <1>1, <1>2, <2>1, HasFacts
    <2>3. f.tile \in Arg[e.tile]
      BY <1>1, <2>2 DEF CallsAt
    <2>4. Good(t, h - 1, e)
      BY <1>1, <2>2 DEF CallsAt
    <2>5. e.pc = "fill"
      BY <2>1, <2>4 DEF Good
    <2> QED
      BY <1>5, <2>2, <2>3, <2>5
  <1>7. CASE h = 1
    <2>1. Base(t, f)
      BY <1>1, <1>7 DEF CallsAt
    <2>2. CASE f.slot # NoTile
      <3>1. f.slot \in Tile /\ task[f.slot] = "busy" /\ f.tile \in Async[f.slot]
        BY <1>1, <1>2, <2>2 DEF SlotAt, Frame
      <3>2. OwnerAt(f.slot)
        BY <1>1, <3>1 DEF SlotAt
      <3>3. PICK u, g, e : Has(u, g, e) /\ e.tile = f.slot /\ e.pc \in {"fill", "unwind"}
        BY <3>2 DEF OwnerAt
      <3>4. f.tile \in Arg[e.tile]
        BY <3>1, <3>3, TilesAssumption
      <3> QED
        BY <1>5, <3>3, <3>4
    <2>3. CASE f.slot = NoTile
      <3>1. reader[t].pc = "calling" /\ reader[t].tile = f.tile
        BY <2>1, <2>3 DEF Base
      <3>2. reader[t].by \in {"functor", "future"}
        BY <1>1, <1>2, <3>1 DEF TypeOK, Reading, Idle
      <3>3. CASE reader[t].by = "functor"
        BY <1>1, <1>2, <1>4, <3>1, <3>3 DEF ReadersAt
      <3>4. CASE reader[t].by = "future"
        BY <1>2, <1>4, <3>1, <3>4 DEF Referred
      <3> QED
        BY <3>2, <3>3, <3>4
    <2> QED
      BY <2>2, <2>3
  <1> QED
    BY <1>2, <1>6, <1>7

LEMMA CallsAlive ==
    ASSUME IInvAt, NEW t, NEW h, NEW f, Has(t, h, f)
    PROVE  Alive(f.tile)
  <1> SUFFICES ASSUME NEW S \in SUBSET Tile, Reached(S), f.tile \notin S PROVE FALSE
    BY DEF Alive
  <1>1. \A u, g, e : Has(u, g, e) => e.tile \in Tile
    BY HasFacts, FramePlaces DEF IInvAt
  <1>2. PICK B : B = {m \in Nat : \E u, g, e : /\ Has(u, g, e) /\ e.tile \notin S
                                               /\ m = MaxLevel - Rank(e.tile)}
    OBVIOUS
  <1>3. \A u, g, e : Has(u, g, e) /\ e.tile \notin S => MaxLevel - Rank(e.tile) \in B
    <2> SUFFICES ASSUME NEW u, NEW g, NEW e, Has(u, g, e), e.tile \notin S
                 PROVE  MaxLevel - Rank(e.tile) \in B
      OBVIOUS
    <2>1. MaxLevel - Rank(e.tile) \in Nat
      BY <1>1, Ranks
    <2> QED
      BY <1>2, <2>1
  <1>4. B # {} /\ B \in SUBSET Nat
    BY <1>2, <1>3
  <1>5. PICK m \in B : \A k \in B : ~ (k < m)
    BY <1>4, NatMin
  <1>6. PICK u, g, e : Has(u, g, e) /\ e.tile \notin S /\ m = MaxLevel - Rank(e.tile)
    BY <1>2, <1>5
  <1>7. PICK v, i, x : Has(v, i, x) /\ x.tile \notin S /\ Rank(e.tile) < Rank(x.tile)
    BY <1>6, Supported
  <1>8. MaxLevel - Rank(x.tile) \in B
    BY <1>3, <1>7
  <1>9. Rank(e.tile) \in Nat /\ Rank(x.tile) \in Nat /\ MaxLevel \in Nat
    BY <1>1, <1>6, <1>7, Ranks
  <1>10. MaxLevel - Rank(x.tile) < m
    BY <1>6, <1>7, <1>9
  <1> QED
    BY <1>5, <1>8, <1>10

LEMMA OutliveFollows == ASSUME IInv PROVE RecordsOutliveCalls
  <1>1. IInvAt /\ Stacks /\ SlotAt
    BY InvAt DEF IInvAt
  <1>2. ASSUME NEW t \in Thread, NEW f \in Frames(t) PROVE Alive(f.tile) /\ (f.slot # NoTile => Owned(f.slot))
    <2>1. PICK h : Has(t, h, f)
      BY <1>1, <1>2, HasFacts
    <2>2. Alive(f.tile)
      BY <1>1, <2>1, CallsAlive
    <2>3. ASSUME f.slot # NoTile PROVE Owned(f.slot)
      <3>1. f.slot \in Tile /\ task[f.slot] = "busy"
        BY <1>1, <2>1, <2>3, HasFacts DEF SlotAt, Frame
      <3>2. PICK u, g, e : Has(u, g, e) /\ e.tile = f.slot /\ e.pc \in {"fill", "unwind"}
        BY <1>1, <3>1 DEF SlotAt, OwnerAt
      <3> QED
        BY <1>1, <3>2, HasFacts DEF Owned
    <2> QED
      BY <2>2, <2>3
  <1> QED
    BY <1>2 DEF RecordsOutliveCalls

\* A call of GetTile works on a tile_record or functor that somebody refers to, also after
\* its item lost the data object, and runs no slot of a call that was left: ownership goes
\* along the futures from the tile that was asked for to the tile of the call.
THEOREM RecordsOutlive == Spec => []RecordsOutliveCalls
  <1>1. IInv => RecordsOutliveCalls
    BY OutliveFollows
  <1> QED
    BY <1>1, Invariance, PTL

=============================================================================
