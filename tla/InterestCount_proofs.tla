------------------------- MODULE InterestCount_proofs -------------------------
(***************************************************************************)
(* That no interest is lost or leaked, that no thread lets go of interest  *)
(* that there is not, and that supplier interest goes with interest, until *)
(* one of the races of InterestRaces, for any finite sets of actors and of *)
(* workers, whatever interest those have: by IInv of InterestCount.        *)
(***************************************************************************)
EXTENDS InterestRaces, FiniteSetTheorems, SequenceTheorems, WellFoundedInduction, TLAPS

-----------------------------------------------------------------------------
(* Sums over finite sets *)

Pairs(g, T) == UNION {{x} \X (1 .. g[x]) : x \in T}
Total(g, T) == Cardinality(Pairs(g, T))

LEMMA PairsFinite ==
    ASSUME NEW S, IsFiniteSet(S), NEW g \in [S -> Nat], NEW T \in SUBSET S
    PROVE  IsFiniteSet(Pairs(g, T))
  <1> DEFINE col == [x \in T |-> {x} \X (1 .. g[x])]
             Cols == {{x} \X (1 .. g[x]) : x \in T}
  <1>1. IsFiniteSet(T)
    BY FS_Subset
  <1>2. col \in Surjection(T, Cols)
    BY DEF Surjection
  <1>3. IsFiniteSet(Cols)
    BY <1>1, <1>2, FS_Surjection
  <1>4. ASSUME NEW C \in Cols PROVE IsFiniteSet(C)
    <2>1. PICK x \in T : C = {x} \X (1 .. g[x])
      BY <1>4
    <2>2. g[x] \in Nat
      BY <2>1
    <2>3. IsFiniteSet(1 .. g[x])
      BY <2>2, FS_Interval, 1 \in Int, g[x] \in Int
    <2>4. IsFiniteSet({x})
      BY FS_Singleton
    <2> QED
      BY <2>1, <2>3, <2>4, FS_Product
  <1> QED
    BY <1>3, <1>4, FS_UNION DEF Pairs

LEMMA PairsSplit ==
    ASSUME NEW S, IsFiniteSet(S), NEW g \in [S -> Nat], NEW T \in SUBSET S, NEW x \in T
    PROVE  Total(g, T) = g[x] + Total(g, T \ {x}) /\ Total(g, T \ {x}) \in Nat
  <1> DEFINE A == {x} \X (1 .. g[x])
             B == Pairs(g, T \ {x})
  <1>1. Pairs(g, T) = A \cup B /\ A \cap B = {}
    BY DEF Pairs
  <1>2. g[x] \in Nat
    OBVIOUS
  <1>3. IsFiniteSet({x}) /\ Cardinality({x}) = 1
    BY FS_Singleton
  <1>4. IsFiniteSet(1 .. g[x]) /\ Cardinality(1 .. g[x]) = g[x]
    <2>1. IsFiniteSet(1 .. g[x]) /\ Cardinality(1 .. g[x]) = IF 1 > g[x] THEN 0 ELSE g[x] - 1 + 1
      BY <1>2, FS_Interval, 1 \in Int, g[x] \in Int
    <2> QED
      BY <1>2, <2>1
  <1>5. IsFiniteSet(A) /\ Cardinality(A) = 1 * g[x]
    BY <1>3, <1>4, FS_Product
  <1>6. IsFiniteSet(B)
    BY PairsFinite, T \ {x} \in SUBSET S
  <1>7. Cardinality(B) \in Nat
    BY <1>6, FS_CardinalityType
  <1>8. Cardinality(A \cap B) = 0
    BY <1>1, FS_EmptySet
  <1>9. Cardinality(A \cup B) = Cardinality(A) + Cardinality(B) - Cardinality(A \cap B)
    BY <1>5, <1>6, FS_Union
  <1> QED
    BY <1>1, <1>2, <1>5, <1>7, <1>8, <1>9 DEF Total

\* The smallest element of a set of natural numbers.
LEMMA NatMin ==
    ASSUME NEW T \in SUBSET Nat, T # {}
    PROVE  \E m \in T : \A k \in T : ~ (k < m)
  <1>1. PICK R : R = {ss \in Nat \X Nat : ss[1] < ss[2]}
    OBVIOUS
  <1>2. IsWellFoundedOn(R, Nat)
    BY <1>1, NatLessThanWellFounded DEF OpToRel
  <1>3. PICK m \in T : \A k \in Nat : <<k, m>> \in R => ~ (k \in T)
    BY <1>2, WFMin
  <1>4. \A k \in T : k < m => <<k, m>> \in R
    BY <1>1
  <1> QED
    BY <1>3, <1>4

LEMMA SumIsCount ==
    ASSUME NEW S, IsFiniteSet(S), NEW g \in [S -> Nat]
    PROVE  SumFunction(g) = Total(g, S)
  <1> DEFINE one(s) == CHOOSE x \in s : TRUE
             step(h) == [s \in SUBSET S |-> IF s = {} THEN 0 ELSE g[one(s)] + h[s \ {one(s)}]]
             iter == CHOOSE h : h = step(h)
  <1>0. ASSUME NEW T \in SUBSET S, NEW x \in T
        PROVE  Total(g, T) = g[x] + Total(g, T \ {x})
    BY PairsSplit
  <1>1. SumFunction(g) = iter[S]
    BY Zenon DEF SumFunction, SumFunctionOnSet, FoldFunctionOnSet, MapThenFoldSet
  <1>2. iter = step(iter)
    <2>1. PICK F : F = [s \in SUBSET S |-> Total(g, s)]
      OBVIOUS
    <2>2. ASSUME NEW s \in SUBSET S, s # {}
          PROVE  Total(g, s) = g[one(s)] + Total(g, s \ {one(s)})
      <3>1. one(s) \in s
        BY <2>2
      <3> QED
        BY <3>1, <1>0
    <2>3. Total(g, {}) = 0
      BY FS_EmptySet DEF Total, Pairs
    <2>4. ASSUME NEW s \in SUBSET S PROVE F[s] = step(F)[s]
      <3>1. CASE s = {}
        BY <2>1, <2>3, <3>1
      <3>2. CASE s # {}
        <4>1. s \ {one(s)} \in SUBSET S
          OBVIOUS
        <4> QED
          BY <2>1, <2>2, <3>2, <4>1
      <3> QED
        BY <3>1, <3>2
    <2>5. F = step(F)
      BY <2>1, <2>4
    <2> HIDE DEF step
    <2> QED
      BY <2>5
  <1>3. ASSUME NEW s \in SUBSET S
        PROVE  iter[s] = IF s = {} THEN 0 ELSE g[one(s)] + iter[s \ {one(s)}]
    <2> HIDE DEF iter
    <2> QED
      BY <1>2
  <1> HIDE DEF iter
  <1>4. ASSUME NEW s0 \in SUBSET S, iter[s0] # Total(g, s0) PROVE FALSE
    <2>1. PICK Bad : Bad = {s \in SUBSET S : iter[s] # Total(g, s)}
      OBVIOUS
    <2>2. PICK Sizes : Sizes = {Cardinality(s) : s \in Bad}
      OBVIOUS
    <2>3. \A s \in SUBSET S : IsFiniteSet(s) /\ Cardinality(s) \in Nat
      BY FS_Subset, FS_CardinalityType
    <2>4. Sizes \in SUBSET Nat /\ Sizes # {}
      BY <1>4, <2>1, <2>2, <2>3
    <2>5. PICK m \in Sizes : \A k \in Sizes : ~ (k < m)
      BY <2>4, NatMin
    <2>6. PICK s \in Bad : m = Cardinality(s)
      BY <2>2
    <2>7. s \in SUBSET S /\ iter[s] # Total(g, s)
      BY <2>1
    <2>8. s # {}
      <3>1. Total(g, {}) = 0
        BY FS_EmptySet DEF Total, Pairs
      <3> QED
        BY <1>3, <2>7, <3>1
    <2>9. PICK x : x = one(s) /\ x \in s
      BY <2>8
    <2>10. iter[s] = g[x] + iter[s \ {x}]
      BY <1>3, <2>7, <2>8, <2>9
    <2>11. Total(g, s) = g[x] + Total(g, s \ {x})
      BY <2>7, <2>9, <1>0
    <2>12. s \ {x} \in Bad
      BY <2>1, <2>7, <2>10, <2>11
    <2>13. Cardinality(s \ {x}) = Cardinality(s) - 1
      BY <2>3, <2>7, <2>9, FS_RemoveElement
    <2>14. Cardinality(s \ {x}) < Cardinality(s)
      BY <2>3, <2>7, <2>13
    <2>15. Cardinality(s \ {x}) \in Sizes
      BY <2>2, <2>12
    <2> QED
      BY <2>5, <2>6, <2>14, <2>15
  <1> QED
    BY <1>1, <1>4

LEMMA SumType ==
    ASSUME NEW S, IsFiniteSet(S), NEW g \in [S -> Nat]
    PROVE  SumFunction(g) \in Nat /\ \A x \in S : g[x] <= SumFunction(g)
  <1>1. SumFunction(g) = Total(g, S)
    BY SumIsCount
  <1>2. Total(g, S) \in Nat
    <2>1. IsFiniteSet(Pairs(g, S))
      BY PairsFinite, S \in SUBSET S
    <2> QED
      BY <2>1, FS_CardinalityType DEF Total
  <1>3. ASSUME NEW x \in S PROVE g[x] <= Total(g, S)
    <2>1. Total(g, S) = g[x] + Total(g, S \ {x}) /\ Total(g, S \ {x}) \in Nat
      BY PairsSplit, S \in SUBSET S
    <2> QED
      BY <2>1
  <1> QED
    BY <1>1, <1>2, <1>3

\* One summand changes.
LEMMA SumChange ==
    ASSUME NEW S, IsFiniteSet(S), NEW g \in [S -> Nat], NEW h \in [S -> Nat], NEW x \in S,
           \A y \in S \ {x} : h[y] = g[y]
    PROVE  SumFunction(h) + g[x] = SumFunction(g) + h[x]
  <1>1. SumFunction(g) = Total(g, S) /\ SumFunction(h) = Total(h, S)
    BY SumIsCount
  <1>2. Total(g, S) = g[x] + Total(g, S \ {x}) /\ Total(g, S \ {x}) \in Nat
    BY PairsSplit, S \in SUBSET S
  <1>3. Total(h, S) = h[x] + Total(h, S \ {x})
    BY PairsSplit, S \in SUBSET S
  <1>4. Total(h, S \ {x}) = Total(g, S \ {x})
    BY DEF Total, Pairs
  <1>5. g[x] \in Nat /\ h[x] \in Nat
    OBVIOUS
  <1> QED
    BY <1>1, <1>2, <1>3, <1>4, <1>5

\* One summand is added.
LEMMA SumExtend ==
    ASSUME NEW S, IsFiniteSet(S), NEW x, x \notin S, NEW g \in [S -> Nat],
           NEW h \in [S \cup {x} -> Nat], \A y \in S : h[y] = g[y]
    PROVE  SumFunction(h) = SumFunction(g) + h[x]
  <1>1. PICK T : T = S \cup {x}
    OBVIOUS
  <1>2. IsFiniteSet(T) /\ h \in [T -> Nat] /\ x \in T /\ T \ {x} = S
    BY <1>1, FS_AddElement
  <1>3. SumFunction(g) = Total(g, S)
    BY SumIsCount
  <1>4. SumFunction(h) = Total(h, T)
    BY <1>2, SumIsCount
  <1>5. Total(h, T) = h[x] + Total(h, T \ {x})
    BY <1>2, PairsSplit, T \in SUBSET T
  <1>6. Total(h, S) = Total(g, S)
    BY DEF Total, Pairs
  <1>7. Total(g, S) \in Nat
    BY <1>3, SumType
  <1>8. h[x] \in Nat
    BY <1>2
  <1> QED
    BY <1>2, <1>3, <1>4, <1>5, <1>6, <1>7, <1>8

LEMMA SumEmpty ==
    ASSUME NEW g \in [{} -> Nat]
    PROVE  SumFunction(g) = 0
  <1>1. IsFiniteSet({}) /\ Cardinality({}) = 0
    BY FS_EmptySet
  <1>2. SumFunction(g) = Total(g, {})
    BY <1>1, SumIsCount
  <1> QED
    BY <1>1, <1>2 DEF Total, Pairs

-----------------------------------------------------------------------------
(* What an actor needs *)

LEMMA ReachContains ==
    ASSUME NEW S, NEW c \in Reach(S)
    PROVE  c \in Actor /\ Under(c) \subseteq Reach(S)
  BY DEF Reach, Under

LEMMA ReachFacts ==
    ASSUME NEW S \in SUBSET Actor
    PROVE  /\ Reach(S) \subseteq Actor /\ S \subseteq Reach(S)
           /\ \A c \in Reach(S) : Under(c) \subseteq Reach(S)
  BY ReachContains DEF Reach

LEMMA UnderFacts ==
    ASSUME NEW a \in Actor
    PROVE  /\ Under(a) \subseteq Actor /\ a \notin Under(a)
           /\ Units[a] \in SUBSET Under(a) /\ Parent[a] \in SUBSET Under(a)
           /\ Suppl[a] \in SUBSET Under(a) /\ Calc[a] \in SUBSET Under(a)
           /\ \A r \in Ref[a] : r = NoActor \/ r \in Under(a)
           /\ \A c \in Under(a) : Under(c) \subseteq Under(a) /\ a \notin Under(c)
  <1>1. /\ Units[a] \in SUBSET Actor /\ Parent[a] \in SUBSET Actor /\ Suppl[a] \in SUBSET Actor
        /\ Calc[a] \in SUBSET Actor /\ Ref[a] \in SUBSET (Actor \cup {NoActor})
    BY InterestAssumption
  <1>2. Needs(a) \in SUBSET Actor
    BY <1>1 DEF Needs
  <1>3. /\ Under(a) \subseteq Actor /\ Needs(a) \subseteq Under(a)
        /\ \A c \in Under(a) : Under(c) \subseteq Under(a)
    BY <1>2, ReachFacts DEF Under
  <1>4. a \notin Under(a)
    BY InterestAssumption
  <1> QED
    BY <1>1, <1>3, <1>4 DEF Needs

-----------------------------------------------------------------------------
(* The calls of a thread *)

LEMMA AppendFacts ==
    ASSUME NEW F, NEW b \in Seq(F), NEW f \in F
    PROVE  /\ Append(b, f) \in Seq(F) /\ Append(b, f) # <<>>
           /\ Len(b) \in Nat /\ Len(Append(b, f)) = Len(b) + 1
           /\ DOMAIN b = 1 .. Len(b) /\ DOMAIN Append(b, f) = 1 .. Len(b) + 1
           /\ \A i \in 1 .. Len(b) : Append(b, f)[i] = b[i] /\ b[i] \in F
           /\ Append(b, f)[Len(b) + 1] = f
           /\ Front(Append(b, f)) = b /\ Last(Append(b, f)) = f
  <1>1. /\ Append(b, f) \in Seq(F) /\ Append(b, f) # <<>>
        /\ Len(b) \in Nat /\ Len(Append(b, f)) = Len(b) + 1
        /\ DOMAIN b = 1 .. Len(b) /\ DOMAIN Append(b, f) = 1 .. Len(b) + 1
        /\ \A i \in 1 .. Len(b) : Append(b, f)[i] = b[i] /\ b[i] \in F
        /\ Append(b, f)[Len(b) + 1] = f
    BY AppendProperties, LenProperties
  <1>2. Last(Append(b, f)) = f
    BY <1>1 DEF Last
  <1>3. SubSeq(Append(b, f), 1, Len(b)) = b
    <2>1. SubSeq(Append(b, f), 1, Len(b)) \in Seq(F)
          /\ Len(SubSeq(Append(b, f), 1, Len(b))) = Len(b)
          /\ \A i \in 1 .. Len(b) : SubSeq(Append(b, f), 1, Len(b))[i] = Append(b, f)[i]
      BY <1>1
    <2> QED
      BY <1>1, <2>1, SeqEqual
  <1>4. Front(Append(b, f)) = b
    <2>1. Len(b) + 1 - 1 = Len(b)
      BY <1>1
    <2> QED
      BY <1>1, <1>3, <2>1 DEF Front
  <1> QED
    BY <1>1, <1>2, <1>4

LEMMA SplitStack ==
    ASSUME NEW F, NEW s \in Seq(F), s # <<>>
    PROVE  \E b \in Seq(F), f \in F : s = Append(b, f)
  <1>1. Len(s) \in Nat \ {0} /\ DOMAIN s = 1 .. Len(s) /\ \A i \in 1 .. Len(s) : s[i] \in F
    BY EmptySeq, LenProperties
  <1>2. PICK b : b = SubSeq(s, 1, Len(s) - 1)
    OBVIOUS
  <1>3. b \in Seq(F) /\ Len(b) = Len(s) - 1 /\ \A i \in 1 .. Len(b) : b[i] = s[i]
    BY <1>1, <1>2
  <1>4. PICK f \in F : f = s[Len(s)]
    BY <1>1
  <1>5. PICK q : q = Append(b, f)
    OBVIOUS
  <1>6. /\ q \in Seq(F) /\ Len(q) = Len(b) + 1 /\ q[Len(b) + 1] = f
        /\ \A i \in 1 .. Len(b) : q[i] = b[i]
    BY <1>3, <1>4, <1>5, AppendProperties
  <1>7. Len(q) = Len(s) /\ \A i \in 1 .. Len(q) : q[i] = s[i]
    BY <1>1, <1>3, <1>4, <1>6
  <1>8. q = s
    BY <1>6, <1>7, SeqEqual
  <1> QED
    BY <1>3, <1>4, <1>5, <1>8

Asks(g) == IF g.op = "inc" THEN {g.a} ELSE {}

\* The calls b made the call f.
Carries(b, f, refs) ==
    /\ \A i \in DOMAIN b :
          /\ Content(b[i], IF i < Len(b) THEN Asks(b[i + 1]) ELSE Asks(f), refs[b[i].a])
          /\ i > 1 => /\ Calls(b[i - 1], b[i])
                      /\ b[i].a \in Under(b[1].a) \/ (i = 2 /\ b[i].op = "rebind" /\ b[i].a = b[1].a)
    /\ b # <<>> => /\ Calls(b[Len(b)], f)
                   /\ f.a \in Under(b[1].a) \/ (Len(b) = 1 /\ f.op = "rebind" /\ f.a = b[1].a)

LEMMA CarriesNothing ==
    ASSUME NEW f, NEW refs
    PROVE  Carries(<<>>, f, refs)
  BY EmptySeq DEF Carries

LEMMA StackedSplit ==
    ASSUME NEW b \in Seq(FrameType), NEW f \in FrameType, NEW refs
    PROVE  Stacked(Append(b, f), refs) <=> Carries(b, f, refs) /\ Content(f, {}, refs[f.a])
  <1>1. PICK s : s = Append(b, f)
    OBVIOUS
  <1>2. PICK n \in Nat : n = Len(b)
    BY LenProperties
  <1>3. /\ Len(s) = n + 1 /\ DOMAIN b = 1 .. n /\ DOMAIN s = 1 .. n + 1
        /\ \A i \in 1 .. n : s[i] = b[i]
        /\ s[n + 1] = f
    BY <1>1, <1>2, AppendFacts
  <1>4. \A i \in 1 .. n : Gaining(s, i) = IF i < Len(b) THEN Asks(b[i + 1]) ELSE Asks(f)
    <2> TAKE i \in 1 .. n
    <2>1. CASE i < n
      <3>1. i < Len(s) /\ i < Len(b) /\ s[i + 1] = b[i + 1]
        BY <1>2, <1>3, <2>1
      <3> QED
        BY <3>1 DEF Gaining, Asks
    <2>2. CASE i = n
      <3>1. i < Len(s) /\ ~ (i < Len(b)) /\ s[i + 1] = f
        BY <1>2, <1>3, <2>2
      <3> QED
        BY <3>1 DEF Gaining, Asks
    <2> QED
      BY <2>1, <2>2
  <1>5. Gaining(s, n + 1) = {}
    BY <1>3 DEF Gaining
  <1>6. b # <<>> <=> n # 0
    BY <1>2, EmptySeq
  <1>7. ASSUME Stacked(s, refs) PROVE Carries(b, f, refs) /\ Content(f, {}, refs[f.a])
    <2>1. Content(f, {}, refs[f.a])
      BY <1>3, <1>5, <1>7, n + 1 \in 1 .. n + 1 DEF Stacked
    <2>2. ASSUME NEW i \in 1 .. n
          PROVE  /\ Content(b[i], IF i < Len(b) THEN Asks(b[i + 1]) ELSE Asks(f), refs[b[i].a])
                 /\ i > 1 => /\ Calls(b[i - 1], b[i])
                             /\ b[i].a \in Under(b[1].a) \/ (i = 2 /\ b[i].op = "rebind" /\ b[i].a = b[1].a)
      <3>1. i \in DOMAIN s /\ s[i] = b[i] /\ (i > 1 => s[i - 1] = b[i - 1] /\ s[1] = b[1])
        BY <1>3
      <3> QED
        BY <1>4, <1>7, <3>1 DEF Stacked
    <2>3. ASSUME n # 0
          PROVE  /\ Calls(b[n], f)
                 /\ f.a \in Under(b[1].a) \/ (n = 1 /\ f.op = "rebind" /\ f.a = b[1].a)
      <3>1. n + 1 \in DOMAIN s /\ n + 1 > 1 /\ s[n + 1 - 1] = b[n] /\ s[1] = b[1]
        BY <1>3, <2>3
      <3>2. /\ Calls(s[n + 1 - 1], s[n + 1])
            /\ s[n + 1].a \in Under(s[1].a) \/ (n + 1 = 2 /\ s[n + 1].op = "rebind" /\ s[n + 1].a = s[1].a)
        BY <1>7, <3>1 DEF Stacked
      <3> QED
        BY <1>3, <3>1, <3>2
    <2> QED
      BY <1>2, <1>3, <1>6, <2>1, <2>2, <2>3 DEF Carries
  <1>8. ASSUME Carries(b, f, refs), Content(f, {}, refs[f.a]) PROVE Stacked(s, refs)
    <2>1. ASSUME NEW i \in 1 .. n
          PROVE  /\ Content(s[i], Gaining(s, i), refs[s[i].a])
                 /\ i > 1 => /\ Calls(s[i - 1], s[i])
                             /\ s[i].a \in Under(s[1].a) \/ (i = 2 /\ s[i].op = "rebind" /\ s[i].a = s[1].a)
      <3>1. s[i] = b[i] /\ (i > 1 => s[i - 1] = b[i - 1] /\ s[1] = b[1])
        BY <1>3
      <3> QED
        BY <1>3, <1>4, <1>8, <3>1 DEF Carries
    <2>2. Content(s[n + 1], Gaining(s, n + 1), refs[s[n + 1].a])
      BY <1>3, <1>5, <1>8
    <2>3. ASSUME n + 1 > 1
          PROVE  /\ Calls(s[n + 1 - 1], s[n + 1])
                 /\ s[n + 1].a \in Under(s[1].a) \/ (n + 1 = 2 /\ s[n + 1].op = "rebind" /\ s[n + 1].a = s[1].a)
      <3>1. n # 0 /\ n + 1 - 1 = n /\ s[n] = b[n] /\ s[1] = b[1] /\ (n + 1 = 2 <=> n = 1)
        BY <1>3, <2>3
      <3>2. /\ Calls(b[n], f)
            /\ f.a \in Under(b[1].a) \/ (n = 1 /\ f.op = "rebind" /\ f.a = b[1].a)
        BY <1>2, <1>6, <1>8, <3>1 DEF Carries
      <3> QED
        BY <1>3, <3>1, <3>2
    <2>4. \A i \in DOMAIN s : i \in 1 .. n \/ i = n + 1
      BY <1>3
    <2> QED
      BY <2>1, <2>2, <2>3, <2>4 DEF Stacked
  <1> QED
    BY <1>1, <1>7, <1>8

LEMMA CarriesSame ==
    ASSUME NEW b \in Seq(FrameType), NEW f, NEW f2, NEW refs,
           Carries(b, f, refs), f2.op = f.op, f2.a = f.a
    PROVE  Carries(b, f2, refs)
  <1>1. Asks(f2) = Asks(f)
    BY DEF Asks
  <1>2. ASSUME NEW g, Calls(g, f) PROVE Calls(g, f2)
    BY <1>2 DEF Calls
  <1> QED
    BY <1>1, <1>2 DEF Carries

LEMMA CarriesPop ==
    ASSUME NEW b \in Seq(FrameType), NEW f \in FrameType, NEW g, NEW refs,
           Carries(Append(b, f), g, refs)
    PROVE  Carries(b, f, refs) /\ Content(f, Asks(g), refs[f.a]) /\ Calls(f, g)
  <1>1. PICK s : s = Append(b, f)
    OBVIOUS
  <1>2. PICK n \in Nat : n = Len(b)
    BY LenProperties
  <1>3. /\ Len(s) = n + 1 /\ DOMAIN b = 1 .. n /\ DOMAIN s = 1 .. n + 1 /\ s # <<>>
        /\ \A i \in 1 .. n : s[i] = b[i]
        /\ s[n + 1] = f
    BY <1>1, <1>2, AppendFacts
  <1>4. b # <<>> <=> n # 0
    BY <1>2, EmptySeq
  <1>5. Calls(f, g)
    BY <1>1, <1>3 DEF Carries
  <1>6. Content(f, Asks(g), refs[f.a])
    <2>1. n + 1 \in DOMAIN s /\ ~ (n + 1 < Len(s))
      BY <1>3
    <2> QED
      BY <1>1, <1>3, <2>1 DEF Carries
  <1>7. ASSUME NEW i \in 1 .. n
        PROVE  /\ Content(b[i], IF i < Len(b) THEN Asks(b[i + 1]) ELSE Asks(f), refs[b[i].a])
               /\ i > 1 => /\ Calls(b[i - 1], b[i])
                           /\ b[i].a \in Under(b[1].a) \/ (i = 2 /\ b[i].op = "rebind" /\ b[i].a = b[1].a)
    <2>1. i \in DOMAIN s /\ s[i] = b[i] /\ i < Len(s) /\ (i > 1 => s[i - 1] = b[i - 1] /\ s[1] = b[1])
      BY <1>3
    <2>2. s[i + 1] = IF i < Len(b) THEN b[i + 1] ELSE f
      <3>1. CASE i < n
        BY <1>2, <1>3, <3>1
      <3>2. CASE i = n
        BY <1>2, <1>3, <3>2
      <3> QED
        BY <3>1, <3>2
    <2>3. Content(s[i], Asks(s[i + 1]), refs[s[i].a])
      <3>1. \A j \in DOMAIN s :
               Content(s[j], IF j < Len(s) THEN Asks(s[j + 1]) ELSE Asks(g), refs[s[j].a])
        BY <1>1 DEF Carries
      <3>2. Content(s[i], IF i < Len(s) THEN Asks(s[i + 1]) ELSE Asks(g), refs[s[i].a])
        BY <2>1, <3>1
      <3> QED
        BY <2>1, <3>2
    <2> QED
      BY <1>1, <2>1, <2>2, <2>3 DEF Carries
  <1>8. ASSUME n # 0
        PROVE  Calls(b[n], f) /\ (f.a \in Under(b[1].a) \/ (n = 1 /\ f.op = "rebind" /\ f.a = b[1].a))
    <2>1. n + 1 \in DOMAIN s /\ n + 1 > 1 /\ n + 1 - 1 = n /\ s[n] = b[n] /\ s[1] = b[1] /\ (n + 1 = 2 <=> n = 1)
      BY <1>3, <1>8
    <2>2. \A j \in DOMAIN s :
             j > 1 => /\ Calls(s[j - 1], s[j])
                      /\ s[j].a \in Under(s[1].a) \/ (j = 2 /\ s[j].op = "rebind" /\ s[j].a = s[1].a)
      BY <1>1 DEF Carries
    <2>3. PICK j \in DOMAIN s : j = n + 1 /\ j > 1 /\ j - 1 = n
      BY <2>1
    <2>4. /\ Calls(s[j - 1], s[j])
          /\ s[j].a \in Under(s[1].a) \/ (j = 2 /\ s[j].op = "rebind" /\ s[j].a = s[1].a)
      BY <2>2, <2>3
    <2> QED
      BY <1>3, <2>1, <2>3, <2>4
  <1> QED
    BY <1>2, <1>3, <1>4, <1>5, <1>6, <1>7, <1>8 DEF Carries

LEMMA CarriesPush ==
    ASSUME NEW b \in Seq(FrameType), NEW f \in FrameType, NEW g, NEW refs,
           Carries(b, f, refs), Content(f, Asks(g), refs[f.a]), Calls(f, g)
    PROVE  Carries(Append(b, f), g, refs)
  <1>1. PICK s : s = Append(b, f)
    OBVIOUS
  <1>2. PICK n \in Nat : n = Len(b)
    BY LenProperties
  <1>3. /\ s \in Seq(FrameType) /\ Len(s) = n + 1 /\ DOMAIN b = 1 .. n /\ DOMAIN s = 1 .. n + 1
        /\ \A i \in 1 .. n : s[i] = b[i] /\ b[i] \in FrameType
        /\ s[n + 1] = f
    BY <1>1, <1>2, AppendFacts
  <1>4. b # <<>> <=> n # 0
    BY <1>2, EmptySeq
  <1>5. ASSUME n # 0
        PROVE  Calls(b[n], f) /\ (f.a \in Under(b[1].a) \/ (n = 1 /\ f.op = "rebind" /\ f.a = b[1].a))
    BY <1>2, <1>4, <1>5 DEF Carries
  <1>6. ASSUME NEW i \in 1 .. n + 1
        PROVE  /\ Content(s[i], IF i < Len(s) THEN Asks(s[i + 1]) ELSE Asks(g), refs[s[i].a])
               /\ i > 1 => /\ Calls(s[i - 1], s[i])
                           /\ s[i].a \in Under(s[1].a) \/ (i = 2 /\ s[i].op = "rebind" /\ s[i].a = s[1].a)
    <2>1. CASE i = n + 1
      <3>1. s[i] = f /\ ~ (i < Len(s)) /\ (i > 1 => n # 0 /\ i - 1 = n /\ s[n] = b[n] /\ s[1] = b[1])
        BY <1>3, <2>1
      <3>2. i = 2 <=> n = 1
        BY <2>1
      <3> QED
        BY <1>5, <3>1, <3>2
    <2>2. CASE i < n
      <3>1. i \in DOMAIN b /\ s[i] = b[i] /\ i < Len(s) /\ i < Len(b) /\ s[i + 1] = b[i + 1]
            /\ (i > 1 => s[i - 1] = b[i - 1] /\ s[1] = b[1])
        BY <1>2, <1>3, <2>2
      <3>2. Content(b[i], Asks(b[i + 1]), refs[b[i].a])
        BY <3>1 DEF Carries
      <3>3. i > 1 => /\ Calls(b[i - 1], b[i])
                     /\ b[i].a \in Under(b[1].a) \/ (i = 2 /\ b[i].op = "rebind" /\ b[i].a = b[1].a)
        BY <3>1 DEF Carries
      <3> QED
        BY <3>1, <3>2, <3>3
    <2>3. CASE i = n
      <3>1. i \in DOMAIN b /\ s[i] = b[i] /\ i < Len(s) /\ ~ (i < Len(b)) /\ s[i + 1] = f
            /\ (i > 1 => s[i - 1] = b[i - 1] /\ s[1] = b[1])
        BY <1>2, <1>3, <2>3
      <3>2. Content(b[i], Asks(f), refs[b[i].a])
        BY <3>1 DEF Carries
      <3>3. i > 1 => /\ Calls(b[i - 1], b[i])
                     /\ b[i].a \in Under(b[1].a) \/ (i = 2 /\ b[i].op = "rebind" /\ b[i].a = b[1].a)
        BY <3>1 DEF Carries
      <3> QED
        BY <3>1, <3>2, <3>3
    <2> QED
      BY <1>2, <2>1, <2>2, <2>3
  <1>7. g.a \in Under(s[1].a) \/ (Len(s) = 1 /\ g.op = "rebind" /\ g.a = s[1].a)
    <2>1. CASE n = 0
      BY <1>3, <2>1 DEF Calls
    <2>2. CASE n # 0
      <3>1. s[1] = b[1] /\ b[1].a \in Actor /\ f.a \in Actor
        BY <1>3, <2>2 DEF FrameType
      <3>2. f.op # "invalidate"
        BY <1>5, <2>2 DEF Calls
      <3>3. g.a \in Under(f.a)
        BY <3>2 DEF Calls
      <3>4. f.a \in Under(b[1].a) => Under(f.a) \subseteq Under(b[1].a)
        BY <3>1, UnderFacts
      <3> QED
        BY <1>5, <2>2, <3>1, <3>3, <3>4
    <2> QED
      BY <2>1, <2>2
  <1>8. Calls(s[Len(s)], g)
    BY <1>3
  <1> QED
    BY <1>1, <1>3, <1>6, <1>7, <1>8 DEF Carries

-----------------------------------------------------------------------------
(* What the calls of a thread owe *)

In(x, S) == IF x \in S THEN 1 ELSE 0

DebtTo(f, refs, x) ==
    f.got[x] + f.drop[x] + In(x, f.list)
    + IF f.op # "dec" THEN 0
      ELSE CASE f.pc \in {"count", "lock"} -> In(x, {f.a})
             [] f.pc = "units"  -> In(x, f.todo) + In(x, Parent[f.a]) + In(x, Calc[f.a]) + In(x, {refs[f.a]})
             [] f.pc = "parent" -> In(x, f.todo) + In(x, Calc[f.a]) + In(x, {refs[f.a]})
             [] f.pc = "calc"   -> In(x, f.todo) + In(x, {refs[f.a]})
             [] OTHER -> 0

Debts(s, refs, x) == SumFunction([i \in DOMAIN s |-> DebtTo(s[i], refs, x)])

LEMMA DebtType ==
    ASSUME NEW f \in FrameType, NEW refs, NEW x \in Actor
    PROVE  DebtTo(f, refs, x) \in Nat
  <1>1. f.got[x] \in Nat /\ f.drop[x] \in Nat
    BY DEF FrameType
  <1>2. \A S : In(x, S) \in Nat
    BY DEF In
  <1> QED
    BY <1>1, <1>2 DEF DebtTo

LEMMA OwedIs ==
    ASSUME NEW f \in FrameType, NEW x \in Actor
    PROVE  Owed(f)[x] = DebtTo(f, ref, x) /\ (Owed(f)[x])' = DebtTo(f, ref', x)
  <1>1. f.got[x] \in Nat /\ f.drop[x] \in Nat
    BY DEF FrameType
  <1> QED
    BY <1>1 DEF Owed, DebtTo, Plus, Bag, Nil, In

LEMMA DebtsAppend ==
    ASSUME NEW b \in Seq(FrameType), NEW f \in FrameType, NEW refs, NEW x \in Actor
    PROVE  /\ Debts(b, refs, x) \in Nat /\ Debts(<<>>, refs, x) = 0
           /\ Debts(Append(b, f), refs, x) = Debts(b, refs, x) + DebtTo(f, refs, x)
  <1>1. PICK s : s = Append(b, f)
    OBVIOUS
  <1>2. PICK n \in Nat : n = Len(b)
    BY LenProperties
  <1>3. /\ s \in Seq(FrameType) /\ DOMAIN b = 1 .. n /\ DOMAIN s = 1 .. n + 1
        /\ \A i \in 1 .. n : s[i] = b[i] /\ b[i] \in FrameType
        /\ s[n + 1] = f
    BY <1>1, <1>2, AppendFacts
  <1>4. PICK g : g = [i \in 1 .. n |-> DebtTo(b[i], refs, x)]
    OBVIOUS
  <1>5. PICK h : h = [i \in 1 .. n + 1 |-> DebtTo(s[i], refs, x)]
    OBVIOUS
  <1>6. g \in [1 .. n -> Nat]
    BY <1>3, <1>4, DebtType
  <1>7. 1 .. n + 1 = (1 .. n) \cup {n + 1} /\ n + 1 \notin 1 .. n
    OBVIOUS
  <1>8. h \in [1 .. n + 1 -> Nat]
    <2>1. \A i \in 1 .. n + 1 : s[i] \in FrameType
      BY <1>3, <1>7
    <2> QED
      BY <1>5, <2>1, DebtType
  <1>9. \A i \in 1 .. n : h[i] = g[i]
    BY <1>3, <1>4, <1>5, <1>7
  <1>10. IsFiniteSet(1 .. n)
    BY FS_Interval, 1 \in Int, n \in Int
  <1>11. SumFunction(h) = SumFunction(g) + h[n + 1]
    <2>1. PICK S : S = 1 .. n
      OBVIOUS
    <2>2. PICK m : m = n + 1
      OBVIOUS
    <2>3. h \in [S \cup {m} -> Nat] /\ m \notin S
      BY <1>7, <1>8, <2>1, <2>2
    <2>4. IsFiniteSet(S) /\ g \in [S -> Nat] /\ \A i \in S : h[i] = g[i]
      BY <1>6, <1>9, <1>10, <2>1
    <2>5. SumFunction(h) = SumFunction(g) + h[m]
      BY <2>3, <2>4, SumExtend, SMTT(30)
    <2> QED
      BY <2>2, <2>5
  <1>12. h[n + 1] = DebtTo(f, refs, x)
    BY <1>3, <1>5
  <1>13. Debts(b, refs, x) = SumFunction(g)
    BY <1>3, <1>4 DEF Debts
  <1>14. Debts(s, refs, x) = SumFunction(h)
    BY <1>3, <1>5 DEF Debts
  <1>15. SumFunction(g) \in Nat
    BY <1>6, <1>10, SumType
  <1>16. Debts(<<>>, refs, x) = 0
    <2>1. DOMAIN <<>> = {}
      OBVIOUS
    <2>2. PICK e : e = [i \in DOMAIN <<>> |-> DebtTo(<<>>[i], refs, x)]
      OBVIOUS
    <2>3. e \in [{} -> Nat]
      BY <2>1, <2>2
    <2> QED
      BY <2>2, <2>3, SumEmpty DEF Debts
  <1> QED
    BY <1>1, <1>11, <1>12, <1>13, <1>14, <1>15, <1>16

LEMMA DebtsBound ==
    ASSUME NEW s \in Seq(FrameType), NEW refs, NEW x \in Actor
    PROVE  /\ Debts(s, refs, x) \in Nat
           /\ \A i \in DOMAIN s : DebtTo(s[i], refs, x) <= Debts(s, refs, x)
  <1>1. PICK n \in Nat : n = Len(s)
    BY LenProperties
  <1>2. DOMAIN s = 1 .. n /\ \A i \in 1 .. n : s[i] \in FrameType
    BY <1>1, LenProperties, ElementOfSeq
  <1>3. PICK g : g = [i \in 1 .. n |-> DebtTo(s[i], refs, x)]
    OBVIOUS
  <1>4. g \in [1 .. n -> Nat]
    BY <1>2, <1>3, DebtType
  <1>5. IsFiniteSet(1 .. n)
    BY FS_Interval, 1 \in Int, n \in Int
  <1>6. SumFunction(g) \in Nat /\ \A i \in 1 .. n : g[i] <= SumFunction(g)
    BY <1>4, <1>5, SumType
  <1>7. Debts(s, refs, x) = SumFunction(g)
    BY <1>2, <1>3 DEF Debts
  <1> QED
    BY <1>2, <1>3, <1>6, <1>7

\* Only what a stopping actor refers to matters.
LEMMA DebtsSame ==
    ASSUME NEW s \in Seq(FrameType), NEW refs, NEW refs2, NEW x,
           \A i \in DOMAIN s : s[i].op = "dec" /\ s[i].pc \in {"units", "parent", "calc"} =>
                                  refs2[s[i].a] = refs[s[i].a]
    PROVE  Debts(s, refs2, x) = Debts(s, refs, x)
  <1>1. ASSUME NEW i \in DOMAIN s PROVE DebtTo(s[i], refs2, x) = DebtTo(s[i], refs, x)
    BY DEF DebtTo
  <1>2. [i \in DOMAIN s |-> DebtTo(s[i], refs2, x)] = [i \in DOMAIN s |-> DebtTo(s[i], refs, x)]
    BY <1>1
  <1> QED
    BY <1>2 DEF Debts

-----------------------------------------------------------------------------
(* The account *)

Owe(t, x) == handles[t][x] + Debts(stack[t], ref, x)

Hold(b, x) ==
    In(x, suppl[b]) + IF count[b] = 0 THEN 0
                      ELSE In(x, Units[b]) + In(x, Parent[b]) + In(x, Calc[b]) + In(x, {ref[b]})

Balanced ==
    \A x \in Actor : count[x] = SumFunction([t \in Thread |-> Owe(t, x)])
                                + SumFunction([b \in Actor |-> Hold(b, x)])

LEMMA FiniteThread == IsFiniteSet(Actor) /\ IsFiniteSet(Thread)
  <1>1. IsFiniteSet({Meta}) /\ IsFiniteSet(Worker) /\ IsFiniteSet(Actor)
    BY InterestAssumption, FS_Singleton
  <1> QED
    BY <1>1, FS_Union DEF Thread

LEMMA OweType ==
    ASSUME TypeOK, NEW t \in Thread, NEW x \in Actor
    PROVE  Owe(t, x) \in Nat /\ handles[t][x] \in Nat /\ handles[t][x] <= Owe(t, x)
           /\ \A i \in DOMAIN stack[t] : DebtTo(stack[t][i], ref, x) <= Owe(t, x)
  <1>1. stack[t] \in Seq(FrameType) /\ handles[t][x] \in 0 .. MaxHandles /\ MaxHandles \in Nat
    BY InterestAssumption DEF TypeOK
  <1>2. PICK d : d = Debts(stack[t], ref, x)
    OBVIOUS
  <1>3. d \in Nat /\ \A i \in DOMAIN stack[t] : DebtTo(stack[t][i], ref, x) <= d
    BY <1>1, <1>2, DebtsBound
  <1>4. \A i \in DOMAIN stack[t] : DebtTo(stack[t][i], ref, x) \in Nat
    BY <1>1, ElementOfSeq, LenProperties, DebtType
  <1> QED
    BY <1>1, <1>2, <1>3, <1>4 DEF Owe

LEMMA HoldType ==
    ASSUME NEW b, NEW x
    PROVE  Hold(b, x) \in Nat
  <1>1. \A S : In(x, S) \in Nat
    BY DEF In
  <1> QED
    BY <1>1 DEF Hold

LEMMA AccountedIs == Accounted <=> TypeOK /\ Balanced
  <1>1. ASSUME TypeOK, NEW t \in Thread, NEW x \in Actor PROVE OwedBy(t, x) = Owe(t, x)
    <2>1. stack[t] \in Seq(FrameType)
      BY <1>1 DEF TypeOK
    <2>2. \A i \in DOMAIN stack[t] : stack[t][i] \in FrameType
      BY <2>1, ElementOfSeq, LenProperties
    <2>3. \A i \in DOMAIN stack[t] : Owed(stack[t][i])[x] = DebtTo(stack[t][i], ref, x)
      BY <2>2, OwedIs
    <2>4. [i \in DOMAIN stack[t] |-> Owed(stack[t][i])[x]] = [i \in DOMAIN stack[t] |-> DebtTo(stack[t][i], ref, x)]
      BY <2>3
    <2> QED
      BY <2>4 DEF OwedBy, Owe, Debts
  <1>2. ASSUME NEW b \in Actor, NEW x \in Actor PROVE Holds(b)[x] = Hold(b, x)
    BY DEF Holds, Hold, Plus, Bag, Nil, In
  <1>3. ASSUME TypeOK, NEW x \in Actor
        PROVE  /\ [t \in Thread |-> OwedBy(t, x)] = [t \in Thread |-> Owe(t, x)]
               /\ [b \in Actor |-> Holds(b)[x]] = [b \in Actor |-> Hold(b, x)]
    BY <1>1, <1>2, <1>3
  <1> QED
    BY <1>3 DEF Accounted, Balanced

\* Whoever has an interest pointer, or owes interest, sees interest.
LEMMA CountCovers ==
    ASSUME TypeOK, Balanced, NEW t \in Thread, NEW x \in Actor
    PROVE  Owe(t, x) <= count[x] /\ count[x] \in Nat
  <1>1. PICK g : g = [u \in Thread |-> Owe(u, x)]
    OBVIOUS
  <1>2. PICK h : h = [b \in Actor |-> Hold(b, x)]
    OBVIOUS
  <1>3. g \in [Thread -> Nat] /\ h \in [Actor -> Nat]
    BY <1>1, <1>2, OweType, HoldType
  <1>4. SumFunction(g) \in Nat /\ g[t] <= SumFunction(g)
    BY <1>3, FiniteThread, SumType
  <1>5. SumFunction(h) \in Nat
    BY <1>3, FiniteThread, SumType
  <1>6. count[x] = SumFunction(g) + SumFunction(h)
    BY <1>1, <1>2 DEF Balanced
  <1>7. g[t] = Owe(t, x) /\ Owe(t, x) \in Nat
    BY <1>1, OweType
  <1> QED
    BY <1>4, <1>5, <1>6, <1>7

\* A step of thread t that changes what actor c holds.
LEMMA BalanceStep ==
    ASSUME TypeOK, TypeOK', Balanced, NEW t \in Thread, NEW c \in Actor,
           \A u \in Thread \ {t} : \A x \in Actor : Owe(u, x)' = Owe(u, x),
           \A b \in Actor \ {c} : \A x \in Actor : Hold(b, x)' = Hold(b, x),
           \A x \in Actor : count'[x] + Owe(t, x) + Hold(c, x) = count[x] + Owe(t, x)' + Hold(c, x)'
    PROVE  Balanced'
  <1> SUFFICES ASSUME NEW x \in Actor
               PROVE  count'[x] = SumFunction([u \in Thread |-> Owe(u, x)'])
                                  + SumFunction([b \in Actor |-> Hold(b, x)'])
    BY DEF Balanced
  <1>1. \A u \in Thread : Owe(u, x) \in Nat /\ Owe(u, x)' \in Nat
    <2>1. \A u \in Thread : Owe(u, x) \in Nat
      BY OweType
    <2>2. ASSUME NEW u \in Thread PROVE Owe(u, x)' \in Nat
      <3>1. stack'[u] \in Seq(FrameType) /\ handles'[u][x] \in 0 .. MaxHandles /\ MaxHandles \in Nat
        BY InterestAssumption DEF TypeOK
      <3>2. Debts(stack'[u], ref', x) \in Nat
        BY <3>1, DebtsBound
      <3>3. Owe(u, x)' = handles'[u][x] + Debts(stack'[u], ref', x)
        BY DEF Owe
      <3> QED
        BY <3>1, <3>2, <3>3
    <2> QED
      BY <2>1, <2>2
  <1>2. \A b \in Actor : Hold(b, x) \in Nat /\ Hold(b, x)' \in Nat
    <2>1. \A S : In(x, S) \in Nat
      BY DEF In
    <2> QED
      BY <2>1 DEF Hold
  <1>3. PICK g : g = [u \in Thread |-> Owe(u, x)]
    OBVIOUS
  <1>4. PICK g2 : g2 = [u \in Thread |-> Owe(u, x)']
    OBVIOUS
  <1>5. PICK h : h = [b \in Actor |-> Hold(b, x)]
    OBVIOUS
  <1>6. PICK h2 : h2 = [b \in Actor |-> Hold(b, x)']
    OBVIOUS
  <1>7. g \in [Thread -> Nat] /\ g2 \in [Thread -> Nat] /\ h \in [Actor -> Nat] /\ h2 \in [Actor -> Nat]
    BY <1>1, <1>2, <1>3, <1>4, <1>5, <1>6
  <1>8. SumFunction(g2) + g[t] = SumFunction(g) + g2[t]
    <2>1. \A u \in Thread \ {t} : g2[u] = g[u]
      BY <1>3, <1>4
    <2> QED
      BY <1>7, <2>1, FiniteThread, SumChange
  <1>9. SumFunction(h2) + h[c] = SumFunction(h) + h2[c]
    <2>1. \A b \in Actor \ {c} : h2[b] = h[b]
      BY <1>5, <1>6
    <2> QED
      BY <1>7, <2>1, FiniteThread, SumChange
  <1>10. /\ SumFunction(g) \in Nat /\ SumFunction(g2) \in Nat
         /\ SumFunction(h) \in Nat /\ SumFunction(h2) \in Nat
    BY <1>7, FiniteThread, SumType
  <1>11. count[x] = SumFunction(g) + SumFunction(h)
    BY <1>3, <1>5 DEF Balanced
  <1>12. count'[x] + g[t] + h[c] = count[x] + g2[t] + h2[c]
    BY <1>3, <1>4, <1>5, <1>6
  <1>13. count'[x] \in Nat /\ count[x] \in Nat
    BY DEF TypeOK
  <1>14. g[t] \in Nat /\ g2[t] \in Nat /\ h[c] \in Nat /\ h2[c] \in Nat
    BY <1>7
  <1>15. count'[x] = SumFunction(g2) + SumFunction(h2)
    <2>1. PICK gs, gs2, hs, hs2 \in Nat :
             gs = SumFunction(g) /\ gs2 = SumFunction(g2) /\ hs = SumFunction(h) /\ hs2 = SumFunction(h2)
      BY <1>10
    <2>2. PICK gt, gt2, hc, hc2 \in Nat : gt = g[t] /\ gt2 = g2[t] /\ hc = h[c] /\ hc2 = h2[c]
      BY <1>14
    <2>3. PICK n, n2 \in Nat : n = count[x] /\ n2 = count'[x]
      BY <1>13
    <2>4. gs2 + gt = gs + gt2 /\ hs2 + hc = hs + hc2 /\ n = gs + hs /\ n2 + gt + hc = n + gt2 + hc2
      BY <1>8, <1>9, <1>11, <1>12, <2>1, <2>2, <2>3
    <2>5. n2 = gs2 + hs2
      BY <2>4
    <2> QED
      BY <2>1, <2>3, <2>5
  <1> QED
    BY <1>4, <1>6, <1>15

\* The same where what actors refer to stays.
LEMMA Balance ==
    ASSUME TypeOK, TypeOK', Balanced, NEW t \in Thread, NEW c \in Actor, NEW s2,
           ref' = ref, stack' = [stack EXCEPT ![t] = s2],
           \A u \in Thread \ {t} : handles'[u] = handles[u],
           \A b \in Actor \ {c} : count'[b] = count[b] /\ suppl'[b] = suppl[b],
           \A x \in Actor :
              count'[x] + handles[t][x] + Debts(stack[t], ref, x) + Hold(c, x)
              = count[x] + handles'[t][x] + Debts(s2, ref, x) + Hold(c, x)'
    PROVE  Balanced'
  <1>1. stack'[t] = s2 /\ \A u \in Thread \ {t} : stack'[u] = stack[u]
    BY DEF TypeOK
  <1>2. \A u \in Thread \ {t} : \A x \in Actor : Owe(u, x)' = Owe(u, x)
    BY <1>1 DEF Owe
  <1>3. \A b \in Actor \ {c} : \A x \in Actor : Hold(b, x)' = Hold(b, x)
    BY DEF Hold
  <1>4. ASSUME NEW x \in Actor
        PROVE  count'[x] + Owe(t, x) + Hold(c, x) = count[x] + Owe(t, x)' + Hold(c, x)'
    <2>1. Owe(t, x) = handles[t][x] + Debts(stack[t], ref, x)
      BY DEF Owe
    <2>2. Owe(t, x)' = handles'[t][x] + Debts(s2, ref, x)
      BY <1>1 DEF Owe
    <2>3. /\ stack[t] \in Seq(FrameType) /\ stack'[t] \in Seq(FrameType) /\ count[x] \in Nat /\ count'[x] \in Nat
          /\ handles[t][x] \in 0 .. MaxHandles /\ handles'[t][x] \in 0 .. MaxHandles /\ MaxHandles \in Nat
      BY InterestAssumption DEF TypeOK
    <2>4. Debts(stack[t], ref, x) \in Nat /\ Debts(s2, ref, x) \in Nat
      BY <1>1, <2>3, DebtsBound
    <2> QED
      BY <2>1, <2>2, <2>3, <2>4, SMTT(30)
  <1> QED
    BY <1>2, <1>3, <1>4, BalanceStep

-----------------------------------------------------------------------------
(* The invariant, as the steps use it *)

Observing(f) ==
    \/ f.op = "inc" /\ f.pc \in {"calc", "ref", "finish"}
    \/ f.op = "dec" /\ f.pc = "units"

Observed ==
    \A a \in Actor : hasSuppl[a] /\ count[a] = 0 =>
        \E t \in Thread : \E i \in DOMAIN stack[t] : Observing(stack[t][i]) /\ stack[t][i].a = a

Sees(f) ==
    /\ f.op = "rebind" /\ f.pc = "swap" =>
          f.got = Bag({f.next}) \/ (f.got = Nil /\ count[f.a] = 0)
    /\ f.op = "invalidate" /\ f.pc # "waste" => ~hasSuppl[f.a]
    /\ f.pc = "relock" => countSection = Meta

AllSee ==
    /\ countSection \in {NoThread, Meta}
    /\ countSection = Meta => At(Meta, "dec", "count")
    /\ \A t \in Thread : \A i \in DOMAIN stack[t] : Sees(stack[t][i])

Inv ==
    /\ TypeOK /\ Balanced /\ StackInv /\ BaseInv /\ LockInv /\ AllSee
    /\ SupplInv /\ Observed

LEMMA ObservedIs == SupplInterestIsObserved <=> Observed
  <1>1. ASSUME NEW a \in Actor
        PROVE  (\E f \in InProgress(a) : Observing(f))
               <=> (\E t \in Thread : \E i \in DOMAIN stack[t] : Observing(stack[t][i]) /\ stack[t][i].a = a)
    BY DEF InProgress, ToSet
  <1> QED
    BY <1>1 DEF SupplInterestIsObserved, Observed, Observing

LEMMA InvIs == Inv <=> IInv
  BY AccountedIs, ObservedIs DEF Inv, IInv, AllSee, Sees, SeenInv, SectionInv

\* The calls of t become s2; the first n stay.
Kept(t, s2, n) ==
    /\ stack' = [stack EXCEPT ![t] = s2]
    /\ n \in Nat /\ n <= Len(stack[t]) /\ n <= Len(s2)
    /\ s2 \in Seq(FrameType)
    /\ \A i \in 1 .. n : s2[i] = stack[t][i]

LEMMA KeptFacts ==
    ASSUME TypeOK, NEW t \in Thread, NEW s2, NEW n, Kept(t, s2, n)
    PROVE  /\ stack' \in [Thread -> Seq(FrameType)]
           /\ stack'[t] = s2 /\ \A u \in Thread \ {t} : stack'[u] = stack[u]
           /\ Len(s2) \in Nat /\ Len(stack[t]) \in Nat
           /\ \A u \in Thread : /\ DOMAIN stack[u] = 1 .. Len(stack[u]) /\ Len(stack[u]) \in Nat
                                /\ \A i \in DOMAIN stack[u] : stack[u][i] \in FrameType
           /\ DOMAIN s2 = 1 .. Len(s2) /\ \A i \in DOMAIN s2 : s2[i] \in FrameType
           /\ \A i \in DOMAIN s2 : i \in n + 1 .. Len(s2)
                                   \/ (i \in 1 .. n /\ i \in DOMAIN stack[t] /\ s2[i] = stack[t][i])
           /\ \A i \in DOMAIN stack[t] : i \in n + 1 .. Len(stack[t])
                                         \/ (i \in 1 .. n /\ i \in DOMAIN s2 /\ s2[i] = stack[t][i])
  <1>1. stack \in [Thread -> Seq(FrameType)] /\ s2 \in Seq(FrameType)
    BY DEF TypeOK, Kept
  <1>2. \A s \in Seq(FrameType) : /\ DOMAIN s = 1 .. Len(s) /\ Len(s) \in Nat
                                  /\ \A i \in DOMAIN s : s[i] \in FrameType
    BY LenProperties, ElementOfSeq
  <1>3. stack' = [stack EXCEPT ![t] = s2]
    BY DEF Kept
  <1>4. stack'[t] = s2 /\ \A u \in Thread \ {t} : stack'[u] = stack[u]
    BY <1>1, <1>3
  <1>5. stack' \in [Thread -> Seq(FrameType)]
    BY <1>1, <1>3
  <1>6. \A u \in Thread : stack[u] \in Seq(FrameType)
    BY <1>1
  <1>7. n \in Nat /\ n <= Len(stack[t]) /\ n <= Len(s2) /\ \A i \in 1 .. n : s2[i] = stack[t][i]
    BY DEF Kept
  <1> QED
    BY <1>1, <1>2, <1>4, <1>5, <1>6, <1>7

LEMMA KeptFrames ==
    ASSUME TypeOK, NEW t \in Thread, NEW s2, NEW n, Kept(t, s2, n),
           NEW u \in Thread, NEW i \in DOMAIN stack'[u]
    PROVE  \/ u = t /\ i \in n + 1 .. Len(s2) /\ stack'[u][i] = s2[i] /\ s2[i].a \in Actor
           \/ /\ i \in DOMAIN stack[u] /\ stack'[u][i] = stack[u][i] /\ stack[u][i].a \in Actor
              /\ u = t => i \in 1 .. n
  <1>1. CASE u = t
    <2>1. stack'[u] = s2 /\ i \in DOMAIN s2 /\ s2[i] \in FrameType
      BY <1>1, KeptFacts
    <2>2. \/ i \in n + 1 .. Len(s2)
          \/ i \in 1 .. n /\ i \in DOMAIN stack[t] /\ s2[i] = stack[t][i]
      BY <2>1, KeptFacts
    <2> QED
      BY <1>1, <2>1, <2>2 DEF FrameType
  <1>2. CASE u # t
    <2>1. stack'[u] = stack[u]
      BY <1>2, KeptFacts
    <2>2. stack[u][i] \in FrameType
      BY <2>1, KeptFacts
    <2> QED
      BY <1>2, <2>1, <2>2 DEF FrameType
  <1> QED
    BY <1>1, <1>2

-----------------------------------------------------------------------------
(* Locks of actors *)

LEMMA LockSame ==
    ASSUME TypeOK, LockInv, NEW t \in Thread, NEW s2, NEW n, Kept(t, s2, n),
           actorLock' = actorLock, \A a \in Actor : count[a] = 0 => count'[a] = 0,
           \A i \in n + 1 .. Len(s2) : Locked(s2[i]) =>
              i \in DOMAIN stack[t] /\ Locked(stack[t][i]) /\ s2[i].a = stack[t][i].a /\ s2[i].op = stack[t][i].op
    PROVE  LockInv'
  <1>1. ASSUME NEW u \in Thread, NEW i \in DOMAIN stack'[u], Locked(stack'[u][i])
        PROVE  /\ i \in DOMAIN stack[u] /\ Locked(stack[u][i]) /\ stack'[u][i].a = stack[u][i].a
               /\ stack'[u][i].op = stack[u][i].op /\ stack[u][i].a \in Actor
    BY <1>1, KeptFrames
  <1>2. ASSUME NEW u \in Thread, NEW i \in DOMAIN stack'[u], Locked(stack'[u][i])
        PROVE  /\ actorLock'[stack'[u][i].a] = u
               /\ stack'[u][i].op # "restart" => count'[stack'[u][i].a] = 0
               /\ \A j \in DOMAIN stack'[u] : Locked(stack'[u][j]) /\ stack'[u][j].a = stack'[u][i].a => j = i
    BY <1>1, <1>2 DEF LockInv
  <1> QED
    BY <1>2 DEF LockInv, Locked

\* The innermost call gives the lock back.
GivesLock(t, s2, n, a) ==
    /\ stack[t] # <<>> /\ Locked(stack[t][Len(stack[t])]) /\ stack[t][Len(stack[t])].a = a
    /\ n < Len(stack[t])
    /\ actorLock' = [actorLock EXCEPT ![a] = NoThread]
    /\ \A b \in Actor \ {a} : count[b] = 0 => count'[b] = 0
    /\ \A i \in n + 1 .. Len(s2) : Locked(s2[i]) =>
          /\ i \in DOMAIN stack[t] /\ i # Len(stack[t]) /\ Locked(stack[t][i])
          /\ s2[i].a = stack[t][i].a /\ s2[i].op = stack[t][i].op

LEMMA LockGive ==
    ASSUME TypeOK, LockInv, NEW t \in Thread, NEW s2, NEW n, Kept(t, s2, n), NEW a \in Actor,
           GivesLock(t, s2, n, a)
    PROVE  LockInv'
  <1> /\ stack[t] # <<>> /\ Locked(stack[t][Len(stack[t])]) /\ stack[t][Len(stack[t])].a = a
      /\ n < Len(stack[t])
      /\ actorLock' = [actorLock EXCEPT ![a] = NoThread]
      /\ \A b \in Actor \ {a} : count[b] = 0 => count'[b] = 0
      /\ \A i \in n + 1 .. Len(s2) : Locked(s2[i]) =>
            /\ i \in DOMAIN stack[t] /\ i # Len(stack[t]) /\ Locked(stack[t][i])
            /\ s2[i].a = stack[t][i].a /\ s2[i].op = stack[t][i].op
    BY DEF GivesLock
  <1>1. /\ Len(stack[t]) \in DOMAIN stack[t] /\ actorLock[a] = t
        /\ \A j \in DOMAIN stack[t] : Locked(stack[t][j]) /\ stack[t][j].a = a => j = Len(stack[t])
    <2>1. Len(stack[t]) \in DOMAIN stack[t]
      BY KeptFacts, EmptySeq DEF Kept
    <2> QED
      BY <2>1 DEF LockInv
  <1>2. ASSUME NEW u \in Thread, NEW i \in DOMAIN stack'[u], Locked(stack'[u][i])
        PROVE  /\ i \in DOMAIN stack[u] /\ Locked(stack[u][i]) /\ stack'[u][i].a = stack[u][i].a
               /\ stack'[u][i].op = stack[u][i].op /\ stack[u][i].a \in Actor
               /\ u = t => i # Len(stack[t])
    <2>1. i \in DOMAIN stack[u] /\ (u = t /\ i \in 1 .. n => i # Len(stack[t]))
      BY <1>2, KeptFrames, KeptFacts DEF Kept
    <2> QED
      BY <1>2, <2>1, KeptFrames
  <1>3. ASSUME NEW u \in Thread, NEW i \in DOMAIN stack'[u], Locked(stack'[u][i])
        PROVE  stack'[u][i].a # a
    BY <1>1, <1>2, <1>3 DEF LockInv
  <1>4. \A b \in Actor \ {a} : actorLock'[b] = actorLock[b]
    BY DEF TypeOK
  <1>5. ASSUME NEW u \in Thread, NEW i \in DOMAIN stack'[u], Locked(stack'[u][i])
        PROVE  /\ actorLock'[stack'[u][i].a] = u
               /\ stack'[u][i].op # "restart" => count'[stack'[u][i].a] = 0
               /\ \A j \in DOMAIN stack'[u] : Locked(stack'[u][j]) /\ stack'[u][j].a = stack'[u][i].a => j = i
    BY <1>2, <1>3, <1>4, <1>5 DEF LockInv
  <1> QED
    BY <1>5 DEF LockInv, Locked

\* The innermost call takes it.
LEMMA LockTake ==
    ASSUME TypeOK, LockInv, NEW t \in Thread, NEW s2, NEW n, Kept(t, s2, n), NEW a \in Actor,
           Len(s2) = n + 1, s2[n + 1].a = a, s2[n + 1].op # "restart" => count'[a] = 0,
           actorLock[a] = NoThread, actorLock' = [actorLock EXCEPT ![a] = t],
           \A b \in Actor \ {a} : count[b] = 0 => count'[b] = 0
    PROVE  LockInv'
  <1>1. actorLock[a] \notin Thread
    BY InterestAssumption
  <1>2. ASSUME NEW u \in Thread, NEW i \in DOMAIN stack'[u], Locked(stack'[u][i])
        PROVE  \/ u = t /\ i = n + 1 /\ stack'[u][i] = s2[n + 1]
               \/ /\ i \in DOMAIN stack[u] /\ Locked(stack[u][i]) /\ stack'[u][i] = stack[u][i]
                  /\ stack[u][i].a \in Actor /\ (u = t => i # n + 1)
    <2>1. (i \in n + 1 .. Len(s2) => i = n + 1) /\ (i \in 1 .. n => i # n + 1)
      BY KeptFacts DEF Kept
    <2> QED
      BY <1>2, <2>1, KeptFrames
  <1>3. ASSUME NEW u \in Thread, NEW i \in DOMAIN stack'[u], Locked(stack'[u][i]), ~ (u = t /\ i = n + 1)
        PROVE  stack'[u][i].a # a
    BY <1>1, <1>2, <1>3 DEF LockInv
  <1>4. actorLock'[a] = t /\ \A b \in Actor \ {a} : actorLock'[b] = actorLock[b]
    BY DEF TypeOK
  <1>5. ASSUME NEW u \in Thread, NEW i \in DOMAIN stack'[u], Locked(stack'[u][i])
        PROVE  /\ actorLock'[stack'[u][i].a] = u
               /\ stack'[u][i].op # "restart" => count'[stack'[u][i].a] = 0
               /\ \A j \in DOMAIN stack'[u] : Locked(stack'[u][j]) /\ stack'[u][j].a = stack'[u][i].a => j = i
    <2>1. CASE u = t /\ i = n + 1
      <3>1. stack'[u][i] = s2[n + 1]
        BY <2>1, KeptFacts
      <3>2. \A j \in DOMAIN stack'[u] : Locked(stack'[u][j]) /\ stack'[u][j].a = a => j = i
        BY <1>3, <2>1
      <3> QED
        BY <1>4, <2>1, <3>1, <3>2
    <2>2. CASE ~ (u = t /\ i = n + 1)
      <3>1. /\ i \in DOMAIN stack[u] /\ Locked(stack[u][i]) /\ stack'[u][i] = stack[u][i]
            /\ stack[u][i].a \in Actor \ {a}
        BY <1>2, <1>3, <1>5, <2>2
      <3>2. \A j \in DOMAIN stack'[u] : Locked(stack'[u][j]) /\ stack'[u][j].a = stack'[u][i].a =>
               j \in DOMAIN stack[u] /\ stack'[u][j] = stack[u][j]
        <4> TAKE j \in DOMAIN stack'[u]
        <4> HAVE Locked(stack'[u][j]) /\ stack'[u][j].a = stack'[u][i].a
        <4>1. ~ (u = t /\ j = n + 1)
          BY <3>1, KeptFacts
        <4> QED
          BY <1>2, <4>1
      <3> QED
        BY <1>4, <3>1, <3>2 DEF LockInv
    <2> QED
      BY <2>1, <2>2
  <1> QED
    BY <1>5 DEF LockInv, Locked

-----------------------------------------------------------------------------
(* What the meta thread has seen *)

LEMMA StackFacts ==
    ASSUME TypeOK, StackInv, NEW u \in Thread, NEW i \in DOMAIN stack[u]
    PROVE  /\ stack[u][i] \in FrameType /\ stack[u][1] \in FrameType /\ 1 \in DOMAIN stack[u]
           /\ i \in Nat \ {0} /\ stack[u] # <<>>
           /\ Content(stack[u][i], Gaining(stack[u], i), ref[stack[u][i].a])
           /\ i > 1 => /\ i - 1 \in DOMAIN stack[u] /\ Calls(stack[u][i - 1], stack[u][i])
                       /\ \/ stack[u][i].a \in Under(stack[u][1].a)
                          \/ i = 2 /\ stack[u][i].op = "rebind" /\ stack[u][i].a = stack[u][1].a
  <1>1. PICK s \in Seq(FrameType) : s = stack[u]
    BY DEF TypeOK
  <1>2. Len(s) \in Nat /\ DOMAIN s = 1 .. Len(s) /\ \A j \in DOMAIN s : s[j] \in FrameType
    BY LenProperties, ElementOfSeq
  <1>3. i \in Nat \ {0} /\ 1 \in DOMAIN s /\ (i > 1 => i - 1 \in DOMAIN s) /\ i \in DOMAIN s
    BY <1>1, <1>2
  <1>4. s # <<>>
    BY <1>3
  <1>5. Stacked(s, ref)
    BY <1>1 DEF StackInv
  <1>6. /\ Content(s[i], Gaining(s, i), ref[s[i].a])
        /\ i > 1 => /\ Calls(s[i - 1], s[i])
                    /\ s[i].a \in Under(s[1].a) \/ (i = 2 /\ s[i].op = "rebind" /\ s[i].a = s[1].a)
    BY <1>3, <1>5 DEF Stacked
  <1> QED
    BY <1>1, <1>2, <1>3, <1>4, <1>6

\* Only the meta thread rebinds and invalidates; nothing it calls is for the same actor.
LEMMA MetaChanges ==
    ASSUME TypeOK, StackInv, BaseInv, NEW u \in Thread, NEW i \in DOMAIN stack[u],
           stack[u][i].op \in {"rebind", "invalidate"}
    PROVE  /\ u = Meta /\ stack[u][i].a = stack[u][1].a
           /\ stack[u][1].op \in {"rebind", "invalidate"}
           /\ i = 1 \/ (i = 2 /\ stack[u][i].op = "rebind" /\ stack[u][1].op = "invalidate" /\ stack[u][1].pc = "check")
           /\ \A j \in DOMAIN stack[u] : j > i /\ stack[u][j].op # "rebind" => stack[u][j].a \in Under(stack[u][i].a)
  <1>1. i = 1 \/ (i = 2 /\ stack[u][i].op = "rebind" /\ stack[u][1].op = "invalidate" /\ stack[u][1].pc = "check"
                  /\ stack[u][i].a = stack[u][1].a)
    <2> SUFFICES ASSUME i # 1
                 PROVE  i = 2 /\ stack[u][i].op = "rebind" /\ stack[u][1].op = "invalidate" /\ stack[u][1].pc = "check"
                        /\ stack[u][i].a = stack[u][1].a
      OBVIOUS
    <2>1. i > 1 /\ i \in Nat
      BY StackFacts
    <2>2. i - 1 \in DOMAIN stack[u] /\ Calls(stack[u][i - 1], stack[u][i])
      BY <2>1, StackFacts
    <2>3. stack[u][i].op = "rebind" /\ stack[u][i - 1].op = "invalidate" /\ stack[u][i - 1].pc = "check"
          /\ stack[u][i].a = stack[u][i - 1].a
      BY <2>2 DEF Calls
    <2>4. PICK k \in DOMAIN stack[u] : k = i - 1
      BY <2>2
    <2>5. ~ (k > 1)
      <3> SUFFICES ASSUME k > 1 PROVE FALSE
        OBVIOUS
      <3>1. Calls(stack[u][k - 1], stack[u][k])
        BY StackFacts
      <3> QED
        BY <2>3, <2>4, <3>1 DEF Calls
    <2>6. k = 1
      BY <2>5, StackFacts
    <2> QED
      BY <2>1, <2>3, <2>4, <2>6
  <1>2. stack[u][1].op \in {"rebind", "invalidate"} /\ stack[u][i].a = stack[u][1].a
    BY <1>1
  <1>3. u = Meta
    BY DEF BaseInv, Thread
  <1>4. ASSUME NEW j \in DOMAIN stack[u], j > i, stack[u][j].op # "rebind"
        PROVE  stack[u][j].a \in Under(stack[u][i].a)
    <2>1. j > 1
      BY <1>4, StackFacts
    <2> QED
      BY <1>2, <1>4, <2>1, StackFacts
  <1> QED
    BY <1>1, <1>2, <1>3, <1>4

\* Workers only let go, fail and copy interest.
LEMMA OnlyMeta ==
    ASSUME TypeOK, BaseInv, NEW t \in Thread, NEW i \in DOMAIN stack[t],
           stack[t][i].op \notin {"dec", "fail"},
           stack[t][i].op = "inc" => stack[t][i].pc # "count" \/ i # 1
    PROVE  t = Meta
  BY DEF BaseInv, Thread

\* A thread that holds sg_CountSection waits for it.
LEMMA OpenSection ==
    ASSUME AllSee, NEW t \in Thread, SectionFree \/ ~At(t, "dec", "count")
    PROVE  countSection = NoThread \/ t # Meta
  BY DEF AllSee, SectionFree

\* A call of the meta thread that neither rebinds nor invalidates is not for an actor that
\* is being rebound or invalidated.
LEMMA Elsewhere ==
    ASSUME TypeOK, StackInv, BaseInv, NEW t \in Thread, t = Meta, stack[t] # <<>>,
           stack[t][Len(stack[t])].op \notin {"rebind", "invalidate"},
           NEW u \in Thread, NEW i \in DOMAIN stack[u], stack[u][i].op \in {"rebind", "invalidate"}
    PROVE  stack[u][i].a # stack[t][Len(stack[t])].a
  <1>1. Len(stack[t]) \in DOMAIN stack[t] /\ Len(stack[t]) \in Nat /\ DOMAIN stack[t] = 1 .. Len(stack[t])
    <2>1. stack[t] \in Seq(FrameType)
      BY DEF TypeOK
    <2> QED
      BY <2>1, EmptySeq, LenProperties
  <1>2. PICK n \in DOMAIN stack[t] : n = Len(stack[t]) /\ n \in Nat /\ \A j \in DOMAIN stack[t] : j <= n /\ j \in Nat
    BY <1>1
  <1>3. u = t
    BY MetaChanges
  <1>4. i # n /\ i <= n /\ i \in Nat
    BY <1>2, <1>3
  <1>5. n > i
    BY <1>2, <1>4
  <1>6. stack[t][n].a \in Under(stack[u][i].a)
    BY <1>2, <1>3, <1>5, MetaChanges
  <1>7. stack[u][i].a \in Actor
    BY StackFacts DEF FrameType
  <1> QED
    BY <1>2, <1>6, <1>7, UnderFacts

LEMMA SeeStep ==
    ASSUME TypeOK, TypeOK', AllSee, NEW t \in Thread, NEW s2, NEW n, Kept(t, s2, n),
           countSection' = countSection, countSection = NoThread \/ t # Meta,
           \A i \in n + 1 .. Len(s2) : Sees(s2[i])',
           \A u \in Thread : \A i \in DOMAIN stack[u] :
              stack[u][i].op \in {"rebind", "invalidate"} /\ (u = t => i \in 1 .. n) =>
                 /\ count[stack[u][i].a] = 0 => count'[stack[u][i].a] = 0
                 /\ hasSuppl'[stack[u][i].a] => hasSuppl[stack[u][i].a]
    PROVE  AllSee'
  <1>1. countSection' \in {NoThread, Meta} /\ (countSection' = Meta => At(Meta, "dec", "count")')
    <2>1. Meta \in Thread /\ Meta # NoThread
      BY InterestAssumption DEF Thread
    <2>2. t # Meta => stack'[Meta] = stack[Meta]
      BY <2>1, KeptFacts
    <2> QED
      BY <2>1, <2>2 DEF AllSee, At, Top
  <1>2. ASSUME NEW u \in Thread, NEW i \in DOMAIN stack'[u]
        PROVE  Sees(stack[u][i])'
    <2>1. CASE u = t /\ i \in n + 1 .. Len(s2) /\ stack'[u][i] = s2[i]
      <3>1. Sees(s2[i])'
        BY <2>1
      <3> QED
        BY <2>1, <3>1 DEF Sees
    <2>2. CASE i \in DOMAIN stack[u] /\ stack'[u][i] = stack[u][i] /\ stack[u][i].a \in Actor
               /\ (u = t => i \in 1 .. n)
      <3>1. Sees(stack[u][i])
        BY <2>2 DEF AllSee
      <3> QED
        BY <2>2, <3>1 DEF Sees
    <2> QED
      BY <2>1, <2>2, KeptFrames
  <1> QED
    BY <1>1, <1>2 DEF AllSee

-----------------------------------------------------------------------------
(* Supplier interest, failures and first calls *)

WatchedElsewhere(t, a) ==
    \E u \in Thread \ {t} : \E i \in DOMAIN stack[u] : Observing(stack[u][i]) /\ stack[u][i].a = a

LEMMA ObservedStep ==
    ASSUME TypeOK, Observed, NEW t \in Thread, NEW s2, NEW n, Kept(t, s2, n),
           \A a \in Actor : hasSuppl'[a] /\ count'[a] = 0 =>
              \/ hasSuppl[a] /\ count[a] = 0
              \/ \E i \in DOMAIN s2 : Observing(s2[i]) /\ s2[i].a = a
              \/ WatchedElsewhere(t, a),
           \A i \in n + 1 .. Len(stack[t]) : Observing(stack[t][i]) =>
              \/ ~hasSuppl'[stack[t][i].a] \/ count'[stack[t][i].a] # 0
              \/ i \in DOMAIN s2 /\ Observing(s2[i]) /\ s2[i].a = stack[t][i].a
    PROVE  Observed'
  <1> SUFFICES ASSUME NEW a \in Actor, hasSuppl'[a], count'[a] = 0
               PROVE  \E u \in Thread : \E i \in DOMAIN stack'[u] : Observing(stack'[u][i]) /\ stack'[u][i].a = a
    BY DEF Observed, Observing
  <1>1. stack'[t] = s2 /\ \A u \in Thread \ {t} : stack'[u] = stack[u]
    BY KeptFacts
  <1>2. CASE \E i \in DOMAIN s2 : Observing(s2[i]) /\ s2[i].a = a
    BY <1>1, <1>2
  <1>3. CASE hasSuppl[a] /\ count[a] = 0
    <2>0. PICK u \in Thread : \E i \in DOMAIN stack[u] : Observing(stack[u][i]) /\ stack[u][i].a = a
      BY <1>3 DEF Observed
    <2>1. PICK i \in DOMAIN stack[u] : Observing(stack[u][i]) /\ stack[u][i].a = a
      BY <2>0
    <2>2. CASE u = t
      <3>1. CASE i \in n + 1 .. Len(stack[t])
        BY <1>1, <2>1, <2>2, <3>1
      <3>2. CASE i \in DOMAIN s2 /\ s2[i] = stack[t][i]
        BY <1>1, <2>1, <2>2, <3>2
      <3> QED
        BY <2>2, <3>1, <3>2, KeptFacts
    <2>3. CASE u # t
      BY <1>1, <2>1, <2>3
    <2> QED
      BY <2>2, <2>3
  <1>4. CASE WatchedElsewhere(t, a)
    BY <1>1, <1>4 DEF WatchedElsewhere
  <1> QED
    BY <1>2, <1>3, <1>4

\* No supplier interest loses its observer.
ObserversStay(t, s2, n) ==
    \A i \in n + 1 .. Len(stack[t]) : Observing(stack[t][i]) =>
       \/ ~hasSuppl'[stack[t][i].a] \/ count'[stack[t][i].a] # 0
       \/ i \in DOMAIN s2 /\ Observing(s2[i]) /\ s2[i].a = stack[t][i].a

LEMMA ObservedKept ==
    ASSUME TypeOK, Observed, NEW t \in Thread, NEW s2, NEW n, Kept(t, s2, n), ObserversStay(t, s2, n),
           \A a \in Actor : hasSuppl'[a] /\ count'[a] = 0 => hasSuppl[a] /\ count[a] = 0
    PROVE  Observed'
  BY ObservedStep DEF ObserversStay

\* What a worker may do.
Modest(t, s, i, hands) ==
    \/ s[i].op \in {"dec", "fail"}
    \/ s[i].op = "inc" /\ i = 1 /\ s[i].pc = "count" /\ hands[t][s[i].a] > 0

LEMMA BaseStep ==
    ASSUME TypeOK, BaseInv, NEW t \in Thread, NEW s2, NEW n, Kept(t, s2, n),
           s2 = <<>> \/ (stack[t] # <<>> /\ s2[1].op = stack[t][1].op /\ s2[1].a = stack[t][1].a),
           handles' = handles,
           t = Meta \/ \A i \in n + 1 .. Len(s2) : s2[i].op \in {"dec", "fail"}
    PROVE  BaseInv'
  <1>1. stack'[t] = s2 /\ \A u \in Thread \ {t} : stack'[u] = stack[u]
    BY KeptFacts
  <1>2. ASSUME NEW u \in Thread, stack'[u] # <<>>
        PROVE  stack[u] # <<>> /\ stack'[u][1].op = stack[u][1].op /\ stack'[u][1].a = stack[u][1].a
    BY <1>1, <1>2
  <1>3. ASSUME NEW w \in Worker, NEW i \in DOMAIN stack'[w]
        PROVE  Modest(w, stack'[w], i, handles')
    <2>1. w \in Thread /\ w # Meta
      BY InterestAssumption DEF Thread
    <2>2. CASE w = t /\ i \in n + 1 .. Len(s2) /\ stack'[w][i] = s2[i]
      BY <2>1, <2>2 DEF Modest
    <2>3. CASE i \in DOMAIN stack[w] /\ stack'[w][i] = stack[w][i]
      BY <2>3 DEF BaseInv, Modest
    <2> QED
      BY <2>1, <2>2, <2>3, KeptFrames
  <1> QED
    BY <1>2, <1>3 DEF BaseInv, Modest

\* A first call begins, while the thread may have let go of a pointer.
LEMMA BaseEnter ==
    ASSUME TypeOK, BaseInv, NEW t \in Thread, NEW s2, NEW n, Kept(t, s2, n), s2 # <<>>,
           s2[1].op = "inc" => handles'[t][s2[1].a] < MaxHandles,
           t = Meta \/ \A i \in DOMAIN s2 : Modest(t, s2, i, handles'),
           \A u \in Thread \ {t} : handles'[u] = handles[u]
    PROVE  BaseInv'
  <1>1. stack'[t] = s2 /\ \A u \in Thread \ {t} : stack'[u] = stack[u]
    BY KeptFacts
  <1>2. ASSUME NEW u \in Thread, stack'[u] # <<>>, stack'[u][1].op = "inc"
        PROVE  handles'[u][stack'[u][1].a] < MaxHandles
    BY <1>1, <1>2 DEF BaseInv
  <1>3. ASSUME NEW w \in Worker, NEW i \in DOMAIN stack'[w]
        PROVE  Modest(w, stack'[w], i, handles')
    <2>1. w \in Thread /\ w # Meta
      BY InterestAssumption DEF Thread
    <2>2. CASE w = t
      BY <1>1, <2>1, <2>2
    <2>3. CASE w # t
      BY <1>1, <2>1, <2>3 DEF BaseInv, Modest
    <2> QED
      BY <2>2, <2>3
  <1> QED
    BY <1>2, <1>3 DEF BaseInv, Modest

\* A first call ends with a new interest pointer.
LEMMA BaseEnd ==
    ASSUME TypeOK, BaseInv, NEW t \in Thread, stack' = [stack EXCEPT ![t] = <<>>],
           NEW y \in Actor, handles' = [handles EXCEPT ![t][y] = @ + 1]
    PROVE  BaseInv'
  <1>1. stack'[t] = <<>> /\ \A u \in Thread \ {t} : stack'[u] = stack[u] /\ handles'[u] = handles[u]
    BY DEF TypeOK
  <1>2. ASSUME NEW u \in Thread, stack'[u] # <<>>, stack'[u][1].op = "inc"
        PROVE  handles'[u][stack'[u][1].a] < MaxHandles
    BY <1>1, <1>2 DEF BaseInv
  <1>3. ASSUME NEW w \in Worker, NEW i \in DOMAIN stack'[w]
        PROVE  Modest(w, stack'[w], i, handles')
    <2>1. w \in Thread /\ DOMAIN <<>> = {}
      BY DEF Thread
    <2>2. w # t
      BY <1>1, <1>3, <2>1
    <2> QED
      BY <1>1, <2>1, <2>2, <1>3 DEF BaseInv, Modest
  <1> QED
    BY <1>2, <1>3 DEF BaseInv, Modest

-----------------------------------------------------------------------------
(* How a step changes the calls of its thread *)

LEMMA BagTypes ==
    /\ Nil \in [Actor -> Nat] /\ \A x \in Actor : Nil[x] = 0
    /\ \A S : Bag(S) \in [Actor -> Nat] /\ \A x \in Actor : Bag(S)[x] = In(x, S)
    /\ \A p, q \in [Actor -> Nat] : Plus(p, q) \in [Actor -> Nat]
                                    /\ \A x \in Actor : Plus(p, q)[x] = p[x] + q[x]
  BY DEF Nil, Bag, Plus, In

LEMMA NewFrames ==
    ASSUME NEW y \in Actor, NEW g \in {IncFrame(y), DecFrame(y)}
    PROVE  /\ g \in FrameType /\ g.a = y /\ g.pc = "count"
           /\ g.op = (IF g = IncFrame(y) THEN "inc" ELSE "dec")
           /\ \A r : Content(g, {}, r)
           /\ \A refs : \A x \in Actor : DebtTo(g, refs, x) = IF g.op = "inc" THEN 0 ELSE In(x, {y})
           /\ ~Locked(g) /\ ~Observing(g)
           /\ Sees(g) /\ Sees(g)'
  <1>1. /\ g.op = (IF g = IncFrame(y) THEN "inc" ELSE "dec") /\ g.a = y /\ g.pc = "count"
        /\ g.todo = {} /\ g.list = {} /\ g.got = Nil /\ g.drop = Nil /\ g.next = NoActor
    BY DEF IncFrame, DecFrame, Frame
  <1>2. g \in FrameType
    BY <1>1, BagTypes DEF IncFrame, DecFrame, Frame, FrameType
  <1>3. \A r : Content(g, {}, r)
    BY <1>1, BagTypes DEF Content, IncContent, DecContent
  <1>4. \A refs : \A x \in Actor : DebtTo(g, refs, x) = IF g.op = "inc" THEN 0 ELSE In(x, {y})
    <2>1. \A x \in Actor : In(x, {}) = 0 /\ In(x, {y}) \in Nat /\ Nil[x] = 0
      BY BagTypes DEF In
    <2> QED
      BY <1>1, <2>1 DEF DebtTo
  <1> QED
    BY <1>1, <1>2, <1>3, <1>4 DEF Locked, Observing, Sees

LEMMA InvTop ==
    ASSUME TypeOK, StackInv, NEW t \in Thread, stack[t] # <<>>
    PROVE  \E b \in Seq(FrameType), f \in FrameType :
              /\ stack[t] = Append(b, f) /\ Top(t) = f /\ Below(t) = b /\ Front(stack[t]) = b
              /\ Len(b) \in Nat /\ Len(stack[t]) = Len(b) + 1 /\ stack[t][Len(b) + 1] = f
              /\ f.a \in Actor /\ Carries(b, f, ref) /\ Content(f, {}, ref[f.a])
  <1>1. stack[t] \in Seq(FrameType)
    BY DEF TypeOK
  <1>2. PICK b \in Seq(FrameType), f \in FrameType : stack[t] = Append(b, f)
    BY <1>1, SplitStack
  <1>3. /\ Len(b) \in Nat /\ Len(stack[t]) = Len(b) + 1 /\ stack[t][Len(b) + 1] = f
        /\ Front(stack[t]) = b /\ Last(stack[t]) = f
    BY <1>2, AppendFacts
  <1>4. Stacked(Append(b, f), ref)
    BY <1>2 DEF StackInv
  <1>5. Carries(b, f, ref) /\ Content(f, {}, ref[f.a])
    BY <1>4, StackedSplit
  <1> QED
    BY <1>2, <1>3, <1>5 DEF Top, Below, FrameType

LEMMA StackStep ==
    ASSUME TypeOK, StackInv, NEW t \in Thread, NEW s2, stack' = [stack EXCEPT ![t] = s2],
           ref' = ref, Stacked(s2, ref)
    PROVE  StackInv'
  <1>1. stack'[t] = s2 /\ \A u \in Thread \ {t} : stack'[u] = stack[u]
    BY DEF TypeOK
  <1>2. ASSUME NEW u \in Thread PROVE Stacked(stack'[u], ref')
    BY <1>1 DEF StackInv
  <1> QED
    BY <1>2 DEF StackInv

\* The innermost call goes on.
Stayed(t, b, f, f2, s2, n) ==
    /\ s2 = Append(b, f2) /\ n = Len(b)
    /\ Kept(t, s2, n) /\ n < Len(stack[t])
    /\ s2 # <<>> /\ Last(s2) = f2 /\ Last(stack[t]) = f /\ stack[t] # <<>>
    /\ s2[1].op = stack[t][1].op /\ s2[1].a = stack[t][1].a
    /\ Len(s2) = n + 1 /\ s2[n + 1] = f2
    /\ \A i \in n + 1 .. Len(s2) :
          /\ i = n + 1 /\ i \in DOMAIN stack[t] /\ i \in DOMAIN s2
          /\ s2[i] = f2 /\ stack[t][i] = f /\ ~ (i < Len(s2))
    /\ \A i \in n + 1 .. Len(stack[t]) :
          i \in DOMAIN stack[t] /\ i \in DOMAIN s2 /\ s2[i] = f2 /\ stack[t][i] = f
    /\ stack[t][Len(stack[t])] = f

LEMMA Stay ==
    ASSUME TypeOK, NEW t \in Thread, NEW b \in Seq(FrameType), NEW f \in FrameType, NEW f2 \in FrameType,
           stack[t] = Append(b, f), stack' = [stack EXCEPT ![t] = Append(b, f2)],
           f2.op = f.op, f2.a = f.a
    PROVE  \E s2, n : Stayed(t, b, f, f2, s2, n)
  <1>1. PICK s2 : s2 = Append(b, f2)
    OBVIOUS
  <1>2. PICK n \in Nat : n = Len(b)
    BY LenProperties
  <1>3. /\ s2 \in Seq(FrameType) /\ s2 # <<>> /\ Len(s2) = n + 1 /\ DOMAIN s2 = 1 .. n + 1
        /\ \A i \in 1 .. n : s2[i] = b[i]
        /\ s2[n + 1] = f2 /\ Last(s2) = f2
    BY <1>1, <1>2, AppendFacts
  <1>4. /\ stack[t] # <<>> /\ Len(stack[t]) = n + 1 /\ DOMAIN stack[t] = 1 .. n + 1
        /\ \A i \in 1 .. n : stack[t][i] = b[i]
        /\ stack[t][n + 1] = f /\ Last(stack[t]) = f
    BY <1>2, AppendFacts
  <1>5. s2[1].op = stack[t][1].op /\ s2[1].a = stack[t][1].a
    BY <1>3, <1>4
  <1>6. Kept(t, s2, n)
    BY <1>1, <1>2, <1>3, <1>4 DEF Kept
  <1>7. \A i \in n + 1 .. n + 1 : i = n + 1
    OBVIOUS
  <1>8. /\ \A i \in n + 1 .. Len(s2) :
              /\ i = n + 1 /\ i \in DOMAIN stack[t] /\ i \in DOMAIN s2
              /\ s2[i] = f2 /\ stack[t][i] = f /\ ~ (i < Len(s2))
        /\ \A i \in n + 1 .. Len(stack[t]) :
              i \in DOMAIN stack[t] /\ i \in DOMAIN s2 /\ s2[i] = f2 /\ stack[t][i] = f
        /\ n < Len(stack[t]) /\ stack[t][Len(stack[t])] = f
    BY <1>3, <1>4, <1>7
  <1> QED
    BY <1>1, <1>2, <1>3, <1>4, <1>5, <1>6, <1>8 DEF Stayed

\* The innermost call makes a call.
CalledOn(t, b, f, f2, g, s2, n) ==
    /\ s2 = Append(Append(b, f2), g) /\ n = Len(b)
    /\ Kept(t, s2, n) /\ n < Len(stack[t])
    /\ s2 # <<>> /\ Last(s2) = g /\ Last(stack[t]) = f /\ stack[t] # <<>>
    /\ s2[1].op = stack[t][1].op /\ s2[1].a = stack[t][1].a
    /\ Len(s2) = n + 2
    /\ \A i \in n + 1 .. Len(s2) :
          \/ /\ i = n + 1 /\ i \in DOMAIN stack[t] /\ i \in DOMAIN s2
             /\ s2[i] = f2 /\ stack[t][i] = f /\ i < Len(s2)
          \/ i = n + 2 /\ i \in DOMAIN s2 /\ s2[i] = g /\ ~ (i < Len(s2))
    /\ \A i \in n + 1 .. Len(stack[t]) :
          /\ i = n + 1 /\ i \in DOMAIN stack[t] /\ i \in DOMAIN s2
          /\ s2[i] = f2 /\ stack[t][i] = f
    /\ stack[t][Len(stack[t])] = f

LEMMA CallOn ==
    ASSUME TypeOK, NEW t \in Thread, NEW b \in Seq(FrameType), NEW f \in FrameType, NEW f2 \in FrameType,
           NEW g \in FrameType,
           stack[t] = Append(b, f), stack' = [stack EXCEPT ![t] = Append(Append(b, f2), g)],
           f2.op = f.op, f2.a = f.a
    PROVE  \E s2, n : CalledOn(t, b, f, f2, g, s2, n)
  <1>1. PICK s2 : s2 = Append(Append(b, f2), g)
    OBVIOUS
  <1>2. PICK n \in Nat : n = Len(b)
    BY LenProperties
  <1>0. PICK s1 : s1 = Append(b, f2)
    OBVIOUS
  <1>3. s1 \in Seq(FrameType) /\ Len(s1) = n + 1 /\ (\A i \in 1 .. n : s1[i] = b[i]) /\ s1[n + 1] = f2
    BY <1>0, <1>2, AppendFacts
  <1>4. /\ s2 \in Seq(FrameType) /\ s2 # <<>> /\ Len(s2) = Len(s1) + 1 /\ DOMAIN s2 = 1 .. Len(s1) + 1
        /\ \A i \in 1 .. Len(s1) : s2[i] = s1[i]
        /\ s2[Len(s1) + 1] = g /\ Last(s2) = g
    <2>1. s2 = Append(s1, g)
      BY <1>0, <1>1
    <2> QED
      BY <1>3, <2>1, AppendFacts
  <1>5. /\ Len(s2) = n + 2 /\ DOMAIN s2 = 1 .. n + 2 /\ \A i \in 1 .. n : s2[i] = b[i]
        /\ s2[n + 1] = f2 /\ s2[n + 2] = g
    BY <1>3, <1>4
  <1>6. /\ stack[t] # <<>> /\ Len(stack[t]) = n + 1 /\ DOMAIN stack[t] = 1 .. n + 1
        /\ \A i \in 1 .. n : stack[t][i] = b[i]
        /\ stack[t][n + 1] = f /\ Last(stack[t]) = f
    BY <1>2, AppendFacts
  <1>7. s2[1].op = stack[t][1].op /\ s2[1].a = stack[t][1].a
    BY <1>5, <1>6
  <1>8. Kept(t, s2, n)
    BY <1>1, <1>2, <1>4, <1>5, <1>6 DEF Kept
  <1>9. /\ \A i \in n + 1 .. n + 1 : i = n + 1
        /\ \A i \in n + 1 .. n + 2 : i = n + 1 \/ i = n + 2
    OBVIOUS
  <1>10. \A i \in n + 1 .. Len(s2) :
            \/ /\ i = n + 1 /\ i \in DOMAIN stack[t] /\ i \in DOMAIN s2
               /\ s2[i] = f2 /\ stack[t][i] = f /\ i < Len(s2)
            \/ i = n + 2 /\ i \in DOMAIN s2 /\ s2[i] = g /\ ~ (i < Len(s2))
    BY <1>5, <1>6, <1>9
  <1>11. \A i \in n + 1 .. Len(stack[t]) :
            /\ i = n + 1 /\ i \in DOMAIN stack[t] /\ i \in DOMAIN s2
            /\ s2[i] = f2 /\ stack[t][i] = f
    BY <1>5, <1>6, <1>9
  <1>12. n < Len(stack[t]) /\ stack[t][Len(stack[t])] = f
    BY <1>6
  <1> QED
    BY <1>1, <1>2, <1>4, <1>5, <1>6, <1>7, <1>8, <1>10, <1>11, <1>12 DEF CalledOn

\* The innermost call ends, and the one that made it goes on.
Returned(t, b, c, c2, f, s2, n) ==
    /\ s2 = Append(b, c2) /\ n = Len(b)
    /\ Kept(t, s2, n) /\ n < Len(stack[t])
    /\ s2 # <<>> /\ Last(s2) = c2 /\ Last(stack[t]) = f /\ stack[t] # <<>>
    /\ s2[1].op = stack[t][1].op /\ s2[1].a = stack[t][1].a
    /\ Len(s2) = n + 1 /\ Len(stack[t]) = n + 2
    /\ \A i \in n + 1 .. Len(s2) :
          /\ i = n + 1 /\ i \in DOMAIN stack[t] /\ i \in DOMAIN s2 /\ i # Len(stack[t])
          /\ s2[i] = c2 /\ stack[t][i] = c /\ ~ (i < Len(s2)) /\ i < Len(stack[t])
    /\ \A i \in n + 1 .. Len(stack[t]) :
          \/ /\ i = n + 1 /\ i \in DOMAIN s2 /\ i \in DOMAIN stack[t]
             /\ s2[i] = c2 /\ stack[t][i] = c
          \/ i = n + 2 /\ stack[t][i] = f
    /\ stack[t][Len(stack[t])] = f
    /\ n + 1 \in DOMAIN stack[t] /\ stack[t][n + 1] = c

LEMMA ReturnTo ==
    ASSUME TypeOK, NEW t \in Thread, NEW b \in Seq(FrameType), NEW c \in FrameType, NEW c2 \in FrameType,
           NEW f \in FrameType,
           stack[t] = Append(Append(b, c), f), stack' = [stack EXCEPT ![t] = Append(b, c2)],
           c2.op = c.op, c2.a = c.a
    PROVE  \E s2, n : Returned(t, b, c, c2, f, s2, n)
  <1>1. PICK s2 : s2 = Append(b, c2)
    OBVIOUS
  <1>2. PICK n \in Nat : n = Len(b)
    BY LenProperties
  <1>3. PICK s1 : s1 = Append(b, c)
    OBVIOUS
  <1>4. s1 \in Seq(FrameType) /\ Len(s1) = n + 1 /\ (\A i \in 1 .. n : s1[i] = b[i]) /\ s1[n + 1] = c
    BY <1>2, <1>3, AppendFacts
  <1>5. /\ s2 \in Seq(FrameType) /\ s2 # <<>> /\ Len(s2) = n + 1 /\ DOMAIN s2 = 1 .. n + 1
        /\ \A i \in 1 .. n : s2[i] = b[i]
        /\ s2[n + 1] = c2 /\ Last(s2) = c2
    BY <1>1, <1>2, AppendFacts
  <1>6. /\ stack[t] # <<>> /\ Len(stack[t]) = Len(s1) + 1 /\ DOMAIN stack[t] = 1 .. Len(s1) + 1
        /\ \A i \in 1 .. Len(s1) : stack[t][i] = s1[i]
        /\ stack[t][Len(s1) + 1] = f /\ Last(stack[t]) = f
    <2>1. stack[t] = Append(s1, f)
      BY <1>3
    <2> QED
      BY <1>4, <2>1, AppendFacts
  <1>7. /\ Len(stack[t]) = n + 2 /\ DOMAIN stack[t] = 1 .. n + 2 /\ \A i \in 1 .. n : stack[t][i] = b[i]
        /\ stack[t][n + 1] = c /\ stack[t][n + 2] = f
    BY <1>4, <1>6
  <1>8. s2[1].op = stack[t][1].op /\ s2[1].a = stack[t][1].a
    BY <1>5, <1>7
  <1>9. Kept(t, s2, n)
    BY <1>1, <1>2, <1>5, <1>7 DEF Kept
  <1>10. /\ \A i \in n + 1 .. n + 1 : i = n + 1
         /\ \A i \in n + 1 .. n + 2 : i = n + 1 \/ i = n + 2
    OBVIOUS
  <1>11. \A i \in n + 1 .. Len(s2) :
            /\ i = n + 1 /\ i \in DOMAIN stack[t] /\ i \in DOMAIN s2 /\ i # Len(stack[t])
            /\ s2[i] = c2 /\ stack[t][i] = c /\ ~ (i < Len(s2)) /\ i < Len(stack[t])
    BY <1>5, <1>7, <1>10
  <1>12. \A i \in n + 1 .. Len(stack[t]) :
            \/ /\ i = n + 1 /\ i \in DOMAIN s2 /\ i \in DOMAIN stack[t]
               /\ s2[i] = c2 /\ stack[t][i] = c
            \/ i = n + 2 /\ stack[t][i] = f
    BY <1>5, <1>7, <1>10
  <1>13. n < Len(stack[t]) /\ stack[t][Len(stack[t])] = f /\ n + 1 \in DOMAIN stack[t]
    BY <1>7
  <1> QED
    BY <1>1, <1>2, <1>5, <1>6, <1>7, <1>8, <1>9, <1>11, <1>12, <1>13, ZenonT(60) DEF Returned

\* It ends, and nothing else changes.
Left(t, b, f, n) ==
    /\ n = Len(b) /\ n \in Nat /\ Kept(t, b, n) /\ n < Len(stack[t])
    /\ Last(stack[t]) = f /\ stack[t] # <<>>
    /\ b = <<>> \/ (b[1].op = stack[t][1].op /\ b[1].a = stack[t][1].a)
    /\ \A i : i \notin n + 1 .. Len(b)
    /\ \A i \in n + 1 .. Len(stack[t]) : i = n + 1 /\ stack[t][i] = f
    /\ stack[t][Len(stack[t])] = f /\ Len(stack[t]) = n + 1

LEMMA Leave ==
    ASSUME TypeOK, NEW t \in Thread, NEW b \in Seq(FrameType), NEW f \in FrameType,
           stack[t] = Append(b, f), stack' = [stack EXCEPT ![t] = b]
    PROVE  \E n : Left(t, b, f, n)
  <1>1. PICK n \in Nat : n = Len(b)
    BY LenProperties
  <1>2. /\ stack[t] # <<>> /\ Len(stack[t]) = n + 1 /\ DOMAIN stack[t] = 1 .. n + 1
        /\ \A i \in 1 .. n : stack[t][i] = b[i]
        /\ stack[t][n + 1] = f /\ Last(stack[t]) = f
    BY <1>1, AppendFacts
  <1>3. b = <<>> \/ (b[1].op = stack[t][1].op /\ b[1].a = stack[t][1].a)
    BY <1>1, <1>2, EmptySeq
  <1>4. Kept(t, b, n)
    BY <1>1, <1>2 DEF Kept
  <1>5. (\A i \in n + 1 .. n + 1 : i = n + 1) /\ \A i : i \notin n + 1 .. n
    OBVIOUS
  <1> QED
    BY <1>1, <1>2, <1>3, <1>4, <1>5 DEF Left

\* A first call.
Entered(t, g, s2) ==
    /\ s2 = Append(<<>>, g)
    /\ Kept(t, s2, 0) /\ s2 # <<>> /\ Last(s2) = g /\ s2[1] = g
    /\ stack' = [stack EXCEPT ![t] = s2]
    /\ Len(s2) = 1 /\ \A i \in 0 + 1 .. Len(s2) : i = 1 /\ s2[i] = g /\ i \in DOMAIN s2 /\ ~ (i < Len(s2))
    /\ \A i : i \notin 0 + 1 .. Len(stack[t])

LEMMA EnterOne ==
    ASSUME TypeOK, NEW t \in Thread, NEW g \in FrameType, stack[t] = <<>>,
           stack' = [stack EXCEPT ![t] = Append(@, g)]
    PROVE  \E s2 : Entered(t, g, s2)
  <1>1. PICK e \in Seq(FrameType) : e = <<>> /\ Len(e) = 0
    BY EmptySeq
  <1>2. PICK s2 : s2 = Append(e, g)
    OBVIOUS
  <1>3. /\ s2 \in Seq(FrameType) /\ s2 # <<>> /\ Len(s2) = 1 /\ DOMAIN s2 = 1 .. 1
        /\ s2[1] = g /\ Last(s2) = g
    <2>1. /\ s2 \in Seq(FrameType) /\ s2 # <<>> /\ Len(s2) = Len(e) + 1 /\ DOMAIN s2 = 1 .. Len(e) + 1
          /\ s2[Len(e) + 1] = g /\ Last(s2) = g
      BY <1>2, AppendFacts
    <2>2. Len(e) + 1 = 1
      BY <1>1
    <2> QED
      BY <2>1, <2>2
  <1>4. stack' = [stack EXCEPT ![t] = s2]
    BY <1>1, <1>2 DEF TypeOK
  <1>5. Kept(t, s2, 0)
    <2>1. stack[t] = e
      BY <1>1
    <2>2. \A i \in 1 .. 0 : s2[i] = stack[t][i]
      OBVIOUS
    <2>3. 0 \in Nat /\ 0 <= Len(stack[t]) /\ 0 <= Len(s2)
      BY <1>1, <1>3, <2>1
    <2> QED
      BY <1>3, <1>4, <2>2, <2>3 DEF Kept
  <1>6. (\A i \in 0 + 1 .. 1 : i = 1) /\ \A i : i \notin 0 + 1 .. 0
    OBVIOUS
  <1>7. Len(stack[t]) = 0
    BY <1>1
  <1>8. \A i \in 0 + 1 .. Len(s2) : i = 1 /\ s2[i] = g /\ i \in DOMAIN s2 /\ ~ (i < Len(s2))
    BY <1>3, <1>6
  <1> QED
    BY <1>1, <1>2, <1>3, <1>4, <1>5, <1>6, <1>7, <1>8 DEF Entered

-----------------------------------------------------------------------------
(* Steps that change nothing but the calls *)

LEMMA TypeStep ==
    ASSUME TypeOK, NEW t \in Thread, NEW s2, NEW n, Kept(t, s2, n),
           count' \in [Actor -> Nat], suppl' \in [Actor -> SUBSET Actor],
           hasSuppl' \in [Actor -> BOOLEAN], failed' \in [Actor -> BOOLEAN], ref' = ref,
           actorLock' \in [Actor -> Thread \cup {NoThread}], countSection' \in Thread \cup {NoThread},
           handles' \in [Thread -> [Actor -> 0 .. MaxHandles]]
    PROVE  TypeOK'
  <1>1. stack' \in [Thread -> Seq(FrameType)]
    BY KeptFacts
  <1> QED
    BY <1>1 DEF TypeOK

LEMMA StayStacked ==
    ASSUME TypeOK, StackInv, NEW t \in Thread, NEW b \in Seq(FrameType), NEW f \in FrameType,
           NEW f2 \in FrameType,
           stack[t] = Append(b, f), stack' = [stack EXCEPT ![t] = Append(b, f2)],
           f2.op = f.op, f2.a = f.a, ref' = ref, Content(f2, {}, ref[f.a])
    PROVE  StackInv'
  <1>1. Stacked(Append(b, f), ref)
    BY DEF StackInv
  <1>2. Carries(b, f, ref)
    BY <1>1, StackedSplit
  <1>3. Carries(b, f2, ref)
    BY <1>2, CarriesSame
  <1>4. Stacked(Append(b, f2), ref)
    BY <1>3, StackedSplit
  <1> QED
    BY <1>4, StackStep

LEMMA CallStacked ==
    ASSUME TypeOK, StackInv, NEW t \in Thread, NEW b \in Seq(FrameType), NEW f \in FrameType,
           NEW f2 \in FrameType, NEW g \in FrameType,
           stack[t] = Append(b, f), stack' = [stack EXCEPT ![t] = Append(Append(b, f2), g)],
           f2.op = f.op, f2.a = f.a, ref' = ref,
           Content(f2, Asks(g), ref[f.a]), Calls(f2, g), Content(g, {}, ref[g.a])
    PROVE  StackInv'
  <1>1. Stacked(Append(b, f), ref)
    BY DEF StackInv
  <1>2. Carries(b, f, ref)
    BY <1>1, StackedSplit
  <1>3. Carries(b, f2, ref)
    BY <1>2, CarriesSame
  <1>4. Carries(Append(b, f2), g, ref)
    BY <1>3, CarriesPush
  <1>5. PICK s1 : s1 = Append(b, f2)
    OBVIOUS
  <1>6. s1 \in Seq(FrameType)
    BY <1>5, AppendFacts
  <1>7. Stacked(Append(s1, g), ref)
    BY <1>4, <1>5, <1>6, StackedSplit
  <1> QED
    BY <1>5, <1>7, StackStep

LEMMA ReturnStacked ==
    ASSUME TypeOK, StackInv, NEW t \in Thread, NEW b \in Seq(FrameType), NEW c \in FrameType,
           NEW c2 \in FrameType, NEW f \in FrameType,
           stack[t] = Append(Append(b, c), f), stack' = [stack EXCEPT ![t] = Append(b, c2)],
           c2.op = c.op, c2.a = c.a, ref' = ref, Content(c2, {}, ref[c.a])
    PROVE  StackInv'
  <1>1. Stacked(stack[t], ref)
    BY DEF StackInv
  <1>2. PICK s1 : s1 = Append(b, c)
    OBVIOUS
  <1>3. s1 \in Seq(FrameType)
    BY <1>2, AppendFacts
  <1>4. Carries(s1, f, ref)
    BY <1>1, <1>2, <1>3, StackedSplit
  <1>5. Carries(b, c, ref)
    BY <1>2, <1>4, CarriesPop
  <1>6. Carries(b, c2, ref)
    BY <1>5, CarriesSame
  <1>7. Stacked(Append(b, c2), ref)
    BY <1>6, StackedSplit
  <1> QED
    BY <1>7, StackStep

\* What is known of the call that made the innermost one.
LEMMA CallerFacts ==
    ASSUME TypeOK, StackInv, NEW t \in Thread, NEW b \in Seq(FrameType), NEW c \in FrameType,
           NEW f \in FrameType, stack[t] = Append(Append(b, c), f)
    PROVE  Carries(b, c, ref) /\ Content(c, Asks(f), ref[c.a]) /\ Calls(c, f)
  <1>1. Stacked(stack[t], ref)
    BY DEF StackInv
  <1>2. PICK s1 : s1 = Append(b, c)
    OBVIOUS
  <1>3. s1 \in Seq(FrameType)
    BY <1>2, AppendFacts
  <1>4. Carries(s1, f, ref)
    BY <1>1, <1>2, <1>3, StackedSplit
  <1> QED
    BY <1>2, <1>4, CarriesPop

Quiet == UNCHANGED <<count, suppl, hasSuppl, failed, ref, actorLock, countSection, handles>>

\* Thread t is one to go on with frame f, and does not wait inside sg_CountSection.
Free(t, f) ==
    /\ t = Meta \/ f.op \in {"dec", "fail"}
    /\ countSection = NoThread \/ t # Meta

GoesOn(t, b, f, f2) ==
    /\ b \in Seq(FrameType) /\ f \in FrameType /\ f2 \in FrameType
    /\ stack[t] = Append(b, f) /\ stack' = [stack EXCEPT ![t] = Append(b, f2)]
    /\ f2.op = f.op /\ f2.a = f.a

LEMMA StayQuiet ==
    ASSUME Inv, NEW t \in Thread, NEW b, NEW f, NEW f2, GoesOn(t, b, f, f2), Quiet,
           Content(f2, {}, ref[f.a]), Sees(f2),
           Locked(f2) => Locked(f), Observing(f) => Observing(f2),
           Free(t, f), \A x \in Actor : DebtTo(f2, ref, x) = DebtTo(f, ref, x)
    PROVE  Inv'
  <1> /\ b \in Seq(FrameType) /\ f \in FrameType /\ f2 \in FrameType
      /\ stack[t] = Append(b, f) /\ stack' = [stack EXCEPT ![t] = Append(b, f2)]
      /\ f2.op = f.op /\ f2.a = f.a
      /\ UNCHANGED <<count, suppl, hasSuppl, failed, ref, actorLock, countSection, handles>>
    BY DEF GoesOn, Quiet
  <1>1. /\ TypeOK /\ Balanced /\ StackInv /\ BaseInv /\ LockInv /\ AllSee /\ SupplInv /\ Observed
    BY DEF Inv
  <1>2. PICK s2, n : Stayed(t, b, f, f2, s2, n)
    BY <1>1, Stay
  <1>3. Kept(t, s2, n)
    BY <1>2 DEF Stayed
  <1>4. TypeOK'
    BY <1>1, <1>2, <1>3, TypeStep DEF Stayed, TypeOK
  <1>5. StackInv'
    BY <1>1, StayStacked
  <1>6. Balanced'
    <2>1. \A x \in Actor : Debts(s2, ref, x) = Debts(stack[t], ref, x)
      BY <1>2, DebtsAppend DEF Stayed
    <2>2. \A u \in Thread : \A x \in Actor : Owe(u, x)' = Owe(u, x)
      <3>1. stack'[t] = s2 /\ \A u \in Thread \ {t} : stack'[u] = stack[u]
        BY <1>1, <1>3, KeptFacts
      <3> QED
        BY <2>1, <3>1 DEF Owe
    <2>3. \A c, x \in Actor : Hold(c, x)' = Hold(c, x)
      BY DEF Hold
    <2>4. ASSUME NEW x \in Actor
          PROVE  /\ [u \in Thread |-> Owe(u, x)'] = [u \in Thread |-> Owe(u, x)]
                 /\ [c \in Actor |-> Hold(c, x)'] = [c \in Actor |-> Hold(c, x)]
      BY <2>2, <2>3
    <2> QED
      BY <1>1, <2>4 DEF Balanced
  <1>7. BaseInv'
    <2>1. t = Meta \/ \A i \in n + 1 .. Len(s2) : s2[i].op \in {"dec", "fail"}
      BY <1>2 DEF Stayed, Free
    <2> QED
      BY <1>1, <1>2, <1>3, <2>1, BaseStep DEF Stayed
  <1>8. LockInv'
    BY <1>1, <1>2, <1>3, LockSame DEF Stayed
  <1>9. AllSee'
    <2>1. \A i \in n + 1 .. Len(s2) : Sees(s2[i])'
      <3> SUFFICES ASSUME NEW i \in n + 1 .. Len(s2) PROVE Sees(s2[i])'
        OBVIOUS
      <3>1. Sees(f2)'
        BY DEF Sees
      <3>2. s2[i] = f2 /\ ~ (i < Len(s2))
        BY <1>2 DEF Stayed
      <3> QED
        BY <3>1, <3>2 DEF Sees
    <2> QED
      BY <1>1, <1>2, <1>3, <1>4, <2>1, SeeStep DEF Stayed, Free
  <1>10. SupplInv'
    BY <1>1 DEF SupplInv
  <1>11. Observed'
    BY <1>1, <1>2, <1>3, ObservedStep DEF Stayed
  <1> QED
    BY <1>4, <1>5, <1>6, <1>7, <1>8, <1>9, <1>10, <1>11 DEF Inv

LEMMA BalancedCalls ==
    ASSUME TypeOK, Balanced, NEW t \in Thread, NEW s2, stack' = [stack EXCEPT ![t] = s2],
           UNCHANGED <<count, suppl, ref, handles>>,
           \A x \in Actor : Debts(s2, ref, x) = Debts(stack[t], ref, x)
    PROVE  Balanced'
  <1>1. stack'[t] = s2 /\ \A u \in Thread \ {t} : stack'[u] = stack[u]
    BY DEF TypeOK
  <1>2. \A u \in Thread : \A x \in Actor : Owe(u, x)' = Owe(u, x)
    BY <1>1 DEF Owe
  <1>3. \A c, x \in Actor : Hold(c, x)' = Hold(c, x)
    BY DEF Hold
  <1>4. ASSUME NEW x \in Actor
        PROVE  /\ [u \in Thread |-> Owe(u, x)'] = [u \in Thread |-> Owe(u, x)]
               /\ [c \in Actor |-> Hold(c, x)'] = [c \in Actor |-> Hold(c, x)]
    BY <1>2, <1>3
  <1> QED
    BY <1>4 DEF Balanced

CallsOut(t, b, f, f2, y, g) ==
    /\ b \in Seq(FrameType) /\ f \in FrameType /\ f2 \in FrameType
    /\ y \in Actor /\ g \in {IncFrame(y), DecFrame(y)}
    /\ stack[t] = Append(b, f) /\ stack' = [stack EXCEPT ![t] = Append(Append(b, f2), g)]
    /\ f2.op = f.op /\ f2.a = f.a

\* Likewise where sg_CountSection may be taken, given what the calls then see.
LEMMA CallMost ==
    ASSUME Inv, NEW t \in Thread, NEW b, NEW f, NEW f2, NEW y, NEW g, CallsOut(t, b, f, f2, y, g),
           UNCHANGED <<count, suppl, hasSuppl, failed, ref, actorLock, handles>>,
           countSection' \in Thread \cup {NoThread}, AllSee',
           Content(f2, Asks(g), ref[f.a]), Calls(f2, g),
           Locked(f2) => Locked(f), Observing(f) => Observing(f2),
           Free(t, f), g.op = "inc" => t = Meta,
           \A x \in Actor : DebtTo(f2, ref, x) + DebtTo(g, ref, x) = DebtTo(f, ref, x)
    PROVE  Inv'
  <1> /\ b \in Seq(FrameType) /\ f \in FrameType /\ f2 \in FrameType
      /\ y \in Actor /\ g \in {IncFrame(y), DecFrame(y)}
      /\ stack[t] = Append(b, f) /\ stack' = [stack EXCEPT ![t] = Append(Append(b, f2), g)]
      /\ f2.op = f.op /\ f2.a = f.a
    BY DEF CallsOut
  <1>1. /\ TypeOK /\ Balanced /\ StackInv /\ BaseInv /\ LockInv /\ AllSee /\ SupplInv /\ Observed
    BY DEF Inv
  <1>0. /\ g \in FrameType /\ ~Locked(g) /\ ~Observing(g) /\ g.pc = "count" /\ Content(g, {}, ref[g.a])
        /\ Sees(g)'
    BY NewFrames, ZenonT(60)
  <1>2. PICK s2, n : CalledOn(t, b, f, f2, g, s2, n)
    BY <1>0, <1>1, CallOn
  <1>3. Kept(t, s2, n)
    BY <1>2 DEF CalledOn
  <1>4. TypeOK'
    BY <1>1, <1>2, <1>3, TypeStep DEF CalledOn, TypeOK
  <1>5. StackInv'
    BY <1>0, <1>1, CallStacked
  <1>6. Balanced'
    <2>1. PICK s1 : s1 = Append(b, f2)
      OBVIOUS
    <2>2. s1 \in Seq(FrameType)
      BY <2>1, AppendFacts
    <2>3. ASSUME NEW x \in Actor PROVE Debts(s2, ref, x) = Debts(stack[t], ref, x)
      <3>1. Debts(stack[t], ref, x) = Debts(b, ref, x) + DebtTo(f, ref, x)
        BY DebtsAppend
      <3>2. Debts(s1, ref, x) = Debts(b, ref, x) + DebtTo(f2, ref, x)
        BY <2>1, DebtsAppend
      <3>3. Debts(s2, ref, x) = Debts(s1, ref, x) + DebtTo(g, ref, x)
        <4>1. s2 = Append(s1, g)
          BY <1>2, <2>1 DEF CalledOn
        <4> QED
          BY <1>0, <2>2, <4>1, DebtsAppend
      <3>4. /\ Debts(b, ref, x) \in Nat /\ DebtTo(f, ref, x) \in Nat /\ DebtTo(f2, ref, x) \in Nat
            /\ DebtTo(g, ref, x) \in Nat
        BY <1>0, DebtType, DebtsAppend
      <3> QED
        BY <3>1, <3>2, <3>3, <3>4
    <2>4. stack' = [stack EXCEPT ![t] = s2]
      BY <1>3 DEF Kept
    <2> QED
      BY <1>1, <2>3, <2>4, BalancedCalls
  <1>7. BaseInv'
    <2>1. g.op = "inc" \/ g.op = "dec"
      BY NewFrames
    <2>2. t = Meta \/ \A i \in n + 1 .. Len(s2) : s2[i].op \in {"dec", "fail"}
      BY <1>2, <2>1 DEF CalledOn, Free
    <2> QED
      BY <1>1, <1>2, <1>3, <2>2, BaseStep DEF CalledOn
  <1>8. LockInv'
    BY <1>0, <1>1, <1>2, <1>3, LockSame DEF CalledOn
  <1>9. SupplInv'
    BY <1>1 DEF SupplInv
  <1>10. Observed'
    BY <1>1, <1>2, <1>3, ObservedStep DEF CalledOn
  <1> QED
    BY <1>4, <1>5, <1>6, <1>7, <1>8, <1>9, <1>10 DEF Inv

LEMMA CallQuiet ==
    ASSUME Inv, NEW t \in Thread, NEW b, NEW f, NEW f2, NEW y, NEW g, CallsOut(t, b, f, f2, y, g), Quiet,
           Content(f2, Asks(g), ref[f.a]), Calls(f2, g), Sees(f2),
           Locked(f2) => Locked(f), Observing(f) => Observing(f2),
           Free(t, f), g.op = "inc" => t = Meta,
           \A x \in Actor : DebtTo(f2, ref, x) + DebtTo(g, ref, x) = DebtTo(f, ref, x)
    PROVE  Inv'
  <1> /\ b \in Seq(FrameType) /\ f \in FrameType /\ f2 \in FrameType
      /\ y \in Actor /\ g \in {IncFrame(y), DecFrame(y)}
      /\ stack[t] = Append(b, f) /\ stack' = [stack EXCEPT ![t] = Append(Append(b, f2), g)]
      /\ f2.op = f.op /\ f2.a = f.a
      /\ UNCHANGED <<count, suppl, hasSuppl, failed, ref, actorLock, countSection, handles>>
    BY DEF CallsOut, Quiet
  <1>1. TypeOK /\ AllSee
    BY DEF Inv
  <1>2. g \in FrameType /\ Sees(g)'
    BY NewFrames, ZenonT(60)
  <1>3. PICK s2, n : CalledOn(t, b, f, f2, g, s2, n)
    BY <1>1, <1>2, CallOn
  <1>4. Kept(t, s2, n)
    BY <1>3 DEF CalledOn
  <1>5. TypeOK'
    BY <1>1, <1>3, <1>4, TypeStep DEF CalledOn, TypeOK
  <1>6. \A i \in n + 1 .. Len(s2) : Sees(s2[i])'
    <2> SUFFICES ASSUME NEW i \in n + 1 .. Len(s2) PROVE Sees(s2[i])'
      OBVIOUS
    <2>1. Sees(f2)' /\ Sees(g)'
      BY <1>2 DEF Sees
    <2>2. s2[i] = f2 \/ s2[i] = g
      BY <1>3 DEF CalledOn
    <2> QED
      BY <2>1, <2>2 DEF Sees
  <1>7. AllSee'
    BY <1>1, <1>3, <1>4, <1>5, <1>6, SeeStep DEF CalledOn, Free
  <1>8. countSection' \in Thread \cup {NoThread}
    BY <1>5 DEF TypeOK
  <1> QED
    BY <1>7, <1>8, CallMost DEF Quiet

-----------------------------------------------------------------------------
(* Steps that make a call, or only go on *)

\* What is known of the innermost call.
TopIs(t, b, f) ==
    /\ b \in Seq(FrameType) /\ f \in FrameType
    /\ stack[t] = Append(b, f) /\ Top(t) = f /\ Below(t) = b /\ Front(stack[t]) = b
    /\ Len(b) \in Nat /\ Len(stack[t]) = Len(b) + 1 /\ Len(b) + 1 \in DOMAIN stack[t]
    /\ stack[t][Len(b) + 1] = f
    /\ f.a \in Actor /\ Content(f, {}, ref[f.a]) /\ Sees(f)
    /\ Free(t, f) \/ (f.op \in {"inc", "dec"} /\ f.pc = "count")
    /\ SectionFree => Free(t, f) \/ (f.op = "inc" /\ f.pc = "count")
    /\ Locked(f) => actorLock[f.a] = t /\ (f.op # "restart" => count[f.a] = 0)
    /\ ref[f.a] \in Ref[f.a] \cup {NoActor}
    /\ f.got \in [Actor -> Nat] /\ f.drop \in [Actor -> Nat]
    /\ f.todo \in SUBSET Actor /\ f.list \in SUBSET Actor

LEMMA TopFacts ==
    ASSUME Inv, NEW t \in Thread, stack[t] # <<>>
    PROVE  \E b, f : TopIs(t, b, f)
  <1>1. /\ TypeOK /\ StackInv /\ BaseInv /\ LockInv /\ AllSee
    BY DEF Inv
  <1>2. PICK b \in Seq(FrameType), f \in FrameType :
              /\ stack[t] = Append(b, f) /\ Top(t) = f /\ Below(t) = b /\ Front(stack[t]) = b
              /\ Len(b) \in Nat /\ Len(stack[t]) = Len(b) + 1 /\ stack[t][Len(b) + 1] = f
              /\ f.a \in Actor /\ Content(f, {}, ref[f.a])
    BY <1>1, InvTop
  <1>3. PICK m : m = Len(b) + 1
    OBVIOUS
  <1>4. m \in DOMAIN stack[t] /\ ~ (m < Len(stack[t])) /\ stack[t][m] = f
    <2>1. stack[t] \in Seq(FrameType)
      BY <1>1 DEF TypeOK
    <2>2. DOMAIN stack[t] = 1 .. Len(stack[t])
      BY <2>1, LenProperties
    <2> QED
      BY <1>2, <1>3, <2>2
  <1>5. Sees(f)
    <2>1. Sees(stack[t][m])
      BY <1>1, <1>4 DEF AllSee
    <2>2. (m < Len(stack[t])) = FALSE
      BY <1>4
    <2> QED
      BY <1>4, <2>1, <2>2
  <1>6. /\ Free(t, f) \/ (f.op \in {"inc", "dec"} /\ f.pc = "count")
        /\ SectionFree => Free(t, f) \/ (f.op = "inc" /\ f.pc = "count")
    <2>1. t = Meta \/ f.op \in {"dec", "fail"} \/ (f.op = "inc" /\ f.pc = "count")
      BY <1>1, <1>4, OnlyMeta
    <2>2. SectionFree \/ ~ (f.op = "dec" /\ f.pc = "count") => countSection = NoThread \/ t # Meta
      BY <1>1, <1>2, OpenSection DEF At
    <2> QED
      BY <2>1, <2>2 DEF Free
  <1>7. Locked(f) => actorLock[f.a] = t /\ (f.op # "restart" => count[f.a] = 0)
    BY <1>1, <1>4 DEF LockInv
  <1>8. ref[f.a] \in Ref[f.a] \cup {NoActor}
    BY <1>1, <1>2 DEF TypeOK
  <1> QED
    BY <1>2, <1>3, <1>4, <1>5, <1>6, <1>7, <1>8 DEF FrameType, TopIs

LEMMA VisitStep ==
    ASSUME Inv, NEW t \in Thread, Visit(t)
    PROVE  Inv'
  <1>1. stack[t] # <<>> /\ Top(t).todo # {}
        /\ UNCHANGED <<count, suppl, hasSuppl, failed, ref, actorLock, countSection, handles>>
    BY DEF Visit, IsIdle
  <1>0. PICK b, f : TopIs(t, b, f)
    BY <1>1, TopFacts
  <1>2. /\ b \in Seq(FrameType) /\ f \in FrameType
        /\ stack[t] = Append(b, f) /\ Top(t) = f /\ Front(stack[t]) = b
        /\ f.a \in Actor /\ Content(f, {}, ref[f.a]) /\ Sees(f)
        /\ f.got \in [Actor -> Nat] /\ f.drop \in [Actor -> Nat]
        /\ f.todo \in SUBSET Actor /\ f.list \in SUBSET Actor
        /\ Free(t, f) \/ (f.op \in {"inc", "dec"} /\ f.pc = "count")
    BY <1>0 DEF TopIs
  <1>3. PICK y \in f.todo :
           Call(t, [f EXCEPT !.todo = @ \ {y}], IF f.op = "dec" THEN DecFrame(y) ELSE IncFrame(y))
    BY <1>2 DEF Visit
  <1>4. PICK f2 : f2 = [f EXCEPT !.todo = @ \ {y}]
    OBVIOUS
  <1>5. PICK g : g = IF f.op = "dec" THEN DecFrame(y) ELSE IncFrame(y)
    OBVIOUS
  <1>6. y \in Actor /\ g \in {IncFrame(y), DecFrame(y)} /\ g.a = y /\ g.op = IF f.op = "dec" THEN "dec" ELSE "inc"
    BY <1>2, <1>5 DEF IncFrame, DecFrame, Frame
  <1>7. /\ f2 \in FrameType /\ f2.op = f.op /\ f2.a = f.a /\ f2.pc = f.pc /\ f2.todo = f.todo \ {y}
        /\ f2.got = f.got /\ f2.drop = f.drop /\ f2.list = f.list /\ f2.next = f.next
    BY <1>2, <1>4 DEF FrameType
  <1>8. stack' = [stack EXCEPT ![t] = Append(Append(b, f2), g)]
    BY <1>2, <1>3, <1>4, <1>5 DEF Call, TypeOK, Inv
  <1>9. y \in Under(f.a)
    BY <1>2, <1>6 DEF Content
  <1>10. /\ f.op \in {"inc", "dec", "invalidate", "restart"}
         /\ f.op = "inc" => f.pc \in {"units", "parent", "suppl", "calc"}
         /\ f.op = "dec" => f.pc \in {"units", "parent", "calc"}
         /\ f.op \in {"invalidate", "restart"} => f.pc = "suppl"
    BY <1>2, <1>3 DEF Content, IncContent, DecContent, RebindContent, RestContent, FrameType
  <1>11. Calls(f2, g)
    BY <1>6, <1>7, <1>9, <1>10 DEF Calls
  <1>12. \A x \in Actor : In(x, f.todo) = In(x, f2.todo) + In(x, {y})
    BY <1>7 DEF In
  <1>13. Plus(Plus(f2.got, Bag(f2.todo)), Bag({y})) = Plus(Plus(f.got, Bag(f.todo)), Bag({}))
    BY <1>2, <1>7 DEF Plus, Bag
  <1>14. Content(f2, Asks(g), ref[f.a])
    <2>1. Asks(g) = IF f.op = "dec" THEN {} ELSE {y}
      BY <1>6 DEF Asks
    <2>2. f.pc = "suppl" => y \in Suppl[f.a] /\ {y} \cap (f2.todo \cup f2.list) = {} /\ f2.todo \cap f2.list = {}
      BY <1>2, <1>3, <1>7 DEF Content
    <2>3. /\ \A x \in Actor :
               x \in f2.todo \/ x \in f2.list \/ f2.got[x] > 0 \/ f2.drop[x] > 0 => x \in Under(f.a)
          /\ f2.pc \in {"suppl", "register"} \/ f2.list = {}
          /\ f2.pc \in {"suppl", "register"} => f2.todo \cup f2.list \cup Asks(g) \subseteq Suppl[f.a]
          /\ f2.pc = "suppl" => f2.todo \cap f2.list = {} /\ Asks(g) \cap (f2.todo \cup f2.list) = {}
      BY <1>2, <1>7, <1>10, <2>1, <2>2 DEF Content
    <2>4. CASE f.op = "inc"
      BY <1>2, <1>7, <1>10, <1>13, <2>1, <2>3, <2>4 DEF Content, IncContent
    <2>5. CASE f.op = "dec"
      BY <1>2, <1>7, <1>10, <2>1, <2>3, <2>5 DEF Content, DecContent
    <2>6. CASE f.op \in {"invalidate", "restart"}
      BY <1>2, <1>7, <1>10, <2>1, <2>3, <2>6 DEF Content, RestContent
    <2> QED
      BY <1>10, <2>4, <2>5, <2>6
  <1>15. Sees(f2)
    BY <1>2, <1>7, <1>10 DEF Sees
  <1>16. ASSUME NEW x \in Actor PROVE DebtTo(f2, ref, x) + DebtTo(g, ref, x) = DebtTo(f, ref, x)
    <2>1. DebtTo(g, ref, x) = IF f.op = "dec" THEN In(x, {y}) ELSE 0
      <3>1. DebtTo(g, ref, x) = IF g.op = "inc" THEN 0 ELSE In(x, {y})
        <4>1. \A refs : \A z \in Actor : DebtTo(g, refs, z) = IF g.op = "inc" THEN 0 ELSE In(z, {y})
          BY <1>6, NewFrames
        <4> QED
          BY <4>1
      <3> QED
        BY <1>6, <3>1
    <2>2. \A S : In(x, S) \in Nat
      BY DEF In
    <2>3. f.got[x] \in Nat /\ f.drop[x] \in Nat
      BY <1>2
    <2>4. In(x, f.todo) = In(x, f2.todo) + In(x, {y})
      BY <1>12
    <2>5. PICK n \in Nat : n = f.got[x] + f.drop[x] + In(x, f.list)
      BY <2>2, <2>3
    <2>6. CASE f.op = "dec" /\ f.pc = "units"
      BY <1>7, <2>1, <2>2, <2>4, <2>5, <2>6 DEF DebtTo
    <2>7. CASE f.op = "dec" /\ f.pc = "parent"
      BY <1>7, <2>1, <2>2, <2>4, <2>5, <2>7 DEF DebtTo
    <2>8. CASE f.op = "dec" /\ f.pc = "calc"
      BY <1>7, <2>1, <2>2, <2>4, <2>5, <2>8 DEF DebtTo
    <2>9. CASE f.op # "dec"
      BY <1>7, <2>1, <2>5, <2>9 DEF DebtTo
    <2> QED
      BY <1>10, <2>6, <2>7, <2>8, <2>9
  <1>17. (Locked(f2) => Locked(f)) /\ (Observing(f) => Observing(f2))
         /\ Free(t, f) /\ (g.op = "inc" => t = Meta)
    BY <1>2, <1>6, <1>7, <1>10 DEF Locked, Observing, Free
  <1>18. CallsOut(t, b, f, f2, y, g) /\ Quiet
    BY <1>1, <1>2, <1>6, <1>7, <1>8 DEF CallsOut, Quiet
  <1> QED
    BY <1>11, <1>14, <1>15, <1>16, <1>17, <1>18, CallQuiet

LEMMA ReleaseStep ==
    ASSUME Inv, NEW t \in Thread, Release(t)
    PROVE  Inv'
  <1>1. stack[t] # <<>> /\ Quiet /\ Top(t).pc \in {"waste", "unwind", "calc"}
        /\ (Top(t).op = "dec" => Top(t).pc = "waste")
    BY DEF Release, IsIdle, Quiet
  <1>0. PICK b, f : TopIs(t, b, f)
    BY <1>1, TopFacts
  <1>2. /\ b \in Seq(FrameType) /\ f \in FrameType
        /\ stack[t] = Append(b, f) /\ Top(t) = f /\ Front(stack[t]) = b
        /\ f.a \in Actor /\ Content(f, {}, ref[f.a]) /\ Sees(f)
        /\ f.got \in [Actor -> Nat] /\ f.drop \in [Actor -> Nat]
        /\ f.todo \in SUBSET Actor /\ f.list \in SUBSET Actor
        /\ Free(t, f) \/ (f.op \in {"inc", "dec"} /\ f.pc = "count")
    BY <1>0 DEF TopIs
  <1>3. PICK y \in Actor : f.drop[y] > 0 /\ Call(t, [f EXCEPT !.drop[y] = @ - 1], DecFrame(y))
    BY <1>2 DEF Release
  <1>4. PICK f2 : f2 = [f EXCEPT !.drop[y] = @ - 1]
    OBVIOUS
  <1>5. PICK g : g = DecFrame(y)
    OBVIOUS
  <1>6. g.a = y /\ g.op = "dec" /\ Asks(g) = {}
    BY <1>5 DEF DecFrame, Frame, Asks
  <1>7. /\ f2.op = f.op /\ f2.a = f.a /\ f2.pc = f.pc /\ f2.todo = f.todo
        /\ f2.got = f.got /\ f2.list = f.list /\ f2.next = f.next
        /\ f2.drop = [f.drop EXCEPT ![y] = @ - 1]
    BY <1>4 DEF FrameType
  <1>8. /\ f2.drop \in [Actor -> Nat] /\ \A x \in Actor : f.drop[x] = f2.drop[x] + In(x, {y})
        /\ \A x \in Actor : f2.drop[x] > 0 => f.drop[x] > 0
    BY <1>2, <1>3, <1>7 DEF In
  <1>9. f2 \in FrameType
    BY <1>2, <1>4, <1>7, <1>8 DEF FrameType
  <1>10. stack' = [stack EXCEPT ![t] = Append(Append(b, f2), g)]
    BY <1>2, <1>3, <1>4, <1>5 DEF Call, TypeOK, Inv
  <1>11. y \in Under(f.a)
    BY <1>2, <1>3 DEF Content
  <1>12. f.pc \in {"waste", "unwind", "calc"} /\ (f.op = "dec" => f.pc = "waste")
         /\ (f.pc \in {"unwind", "calc"} => f.op = "inc") /\ (f.op = "inc" => f.pc # "waste")
    BY <1>1, <1>2 DEF Content, IncContent, DecContent, RebindContent, RestContent, FrameType
  <1>13. Calls(f2, g)
    BY <1>6, <1>7, <1>11, <1>12 DEF Calls
  <1>14. Content(f2, Asks(g), ref[f.a])
    <2>1. /\ \A x \in Actor :
               x \in f2.todo \/ x \in f2.list \/ f2.got[x] > 0 \/ f2.drop[x] > 0 => x \in Under(f.a)
          /\ f2.list = {}
      BY <1>2, <1>7, <1>8, <1>12 DEF Content
    <2>2. CASE f.op = "inc"
      BY <1>2, <1>6, <1>7, <1>12, <2>1, <2>2 DEF Content, IncContent
    <2>3. CASE f.op = "dec"
      BY <1>2, <1>6, <1>7, <1>12, <2>1, <2>3 DEF Content, DecContent
    <2>4. CASE f.op = "rebind"
      BY <1>2, <1>6, <1>7, <1>12, <2>1, <2>4 DEF Content, RebindContent
    <2>5. CASE f.op \notin {"inc", "dec", "rebind"}
      BY <1>2, <1>6, <1>7, <1>12, <2>1, <2>5 DEF Content, RestContent
    <2> QED
      BY <2>2, <2>3, <2>4, <2>5
  <1>15. Sees(f2)
    BY <1>2, <1>7, <1>12 DEF Sees, Content, RestContent
  <1>16. ASSUME NEW x \in Actor PROVE DebtTo(f2, ref, x) + DebtTo(g, ref, x) = DebtTo(f, ref, x)
    <2>1. DebtTo(g, ref, x) = In(x, {y})
      <3>1. \A refs : \A z \in Actor : DebtTo(g, refs, z) = IF g.op = "inc" THEN 0 ELSE In(z, {y})
        <4>1. y \in Actor /\ g \in {IncFrame(y), DecFrame(y)}
          BY <1>3, <1>5
        <4> QED
          BY <4>1, NewFrames
      <3> QED
        BY <1>6, <3>1
    <2>2. \A S : In(x, S) \in Nat
      BY DEF In
    <2>3. f.got[x] \in Nat /\ f.drop[x] = f2.drop[x] + In(x, {y}) /\ f2.drop[x] \in Nat
      BY <1>2, <1>8
    <2> QED
      BY <1>7, <1>12, <2>1, <2>2, <2>3 DEF DebtTo
  <1>17. (Locked(f2) => Locked(f)) /\ (Observing(f) => Observing(f2))
         /\ Free(t, f) /\ g.op # "inc"
    BY <1>2, <1>6, <1>7, <1>12 DEF Locked, Observing
  <1>18. CallsOut(t, b, f, f2, y, g) /\ Quiet
    BY <1>1, <1>2, <1>3, <1>5, <1>7, <1>9, <1>10 DEF CallsOut
  <1> QED
    BY <1>13, <1>14, <1>15, <1>16, <1>17, <1>18, CallQuiet

LEMMA IncNextStep ==
    ASSUME Inv, NEW t \in Thread, IncNext(t)
    PROVE  Inv'
  <1>1. stack[t] # <<>> /\ Quiet
    BY DEF IncNext, IsIdle, Quiet
  <1>0. PICK b, f : TopIs(t, b, f)
    BY <1>1, TopFacts
  <1>2. /\ b \in Seq(FrameType) /\ f \in FrameType
        /\ stack[t] = Append(b, f) /\ Top(t) = f /\ Front(stack[t]) = b
        /\ f.a \in Actor /\ Content(f, {}, ref[f.a])
        /\ f.got \in [Actor -> Nat] /\ f.drop \in [Actor -> Nat]
        /\ Free(t, f) \/ (f.op \in {"inc", "dec"} /\ f.pc = "count")
    BY <1>0 DEF TopIs
  <1>3. PICK f2 : f2 = IF f.pc = "units" THEN [f EXCEPT !.pc = "parent", !.todo = Parent[f.a]]
                       ELSE IF failed[f.a] THEN [f EXCEPT !.pc = "calc", !.todo = Calc[f.a]]
                       ELSE [f EXCEPT !.pc = "suppl", !.todo = Suppl[f.a]]
    OBVIOUS
  <1>4. f.op = "inc" /\ f.pc \in {"units", "parent"} /\ f.todo = {}
        /\ stack' = [stack EXCEPT ![t] = Append(b, f2)]
    BY <1>2, <1>3 DEF IncNext, Goto, TypeOK, Inv
  <1>5. Parent[f.a] \in SUBSET Actor /\ Suppl[f.a] \in SUBSET Actor /\ Units[f.a] \in SUBSET Actor
        /\ Calc[f.a] \in SUBSET Actor
    BY <1>2, InterestAssumption
  <1>6. /\ f2.op = f.op /\ f2.a = f.a /\ f2.got = f.got /\ f2.list = f.list /\ f2.drop = f.drop
        /\ f2.next = f.next
        /\ f2.pc = IF f.pc = "units" THEN "parent" ELSE IF failed[f.a] THEN "calc" ELSE "suppl"
        /\ f2.todo = IF f.pc = "units" THEN Parent[f.a] ELSE IF failed[f.a] THEN Calc[f.a] ELSE Suppl[f.a]
    BY <1>2, <1>3, <1>4 DEF FrameType
  <1>7. f2 \in FrameType
    BY <1>2, <1>3, <1>5, ZenonT(60) DEF FrameType
  <1>8. f.drop = Nil /\ f.list = {}
        /\ Plus(Plus(f.got, Bag(f.todo)), Bag({})) =
              IF f.pc = "units" THEN Bag(Units[f.a]) ELSE Plus(Bag(Units[f.a]), Bag(Parent[f.a]))
    BY <1>2, <1>4 DEF Content, IncContent
  <1>9. f.got = IF f.pc = "units" THEN Bag(Units[f.a]) ELSE Plus(Bag(Units[f.a]), Bag(Parent[f.a]))
    <2>1. Plus(Plus(f.got, Bag({})), Bag({})) = f.got
      BY <1>2 DEF Plus, Bag
    <2> QED
      BY <1>4, <1>8, <2>1
  <1>10. Content(f2, {}, ref[f.a])
    <2>1. Plus(Plus(f2.got, Bag(f2.todo)), Bag({})) = Plus(f2.got, Bag(f2.todo))
      BY <1>2, <1>6 DEF Plus, Bag
    <2>2. \A x \in Actor : f2.drop[x] = 0
      BY <1>6, <1>8, BagTypes
    <2>3. Parent[f.a] \subseteq Under(f.a) /\ Suppl[f.a] \subseteq Under(f.a) /\ Calc[f.a] \subseteq Under(f.a)
      BY <1>2, UnderFacts
    <2>4. \A x \in Actor :
             x \in f2.todo \/ x \in f2.list \/ f2.got[x] > 0 \/ f2.drop[x] > 0 => x \in Under(f.a)
      BY <1>2, <1>6, <1>8, <2>2, <2>3 DEF Content
    <2>5. f2.pc = "calc" => Plus(f2.got, Bag(f2.todo)) = Plus(Plus(Bag(Units[f.a]), Bag(Parent[f.a])), Bag(Calc[f.a]))
      BY <1>4, <1>6, <1>9
    <2> QED
      BY <1>4, <1>6, <1>8, <1>9, <2>1, <2>4, <2>5 DEF Content, IncContent
  <1>11. Sees(f2) /\ (Locked(f2) => Locked(f)) /\ (Observing(f) => Observing(f2))
         /\ Free(t, f)
    BY <1>2, <1>4, <1>6 DEF Sees, Locked, Observing
  <1>12. \A x \in Actor : DebtTo(f2, ref, x) = DebtTo(f, ref, x)
    BY <1>4, <1>6 DEF DebtTo
  <1>13. GoesOn(t, b, f, f2)
    BY <1>2, <1>4, <1>6, <1>7 DEF GoesOn
  <1> QED
    BY <1>1, <1>10, <1>11, <1>12, <1>13, StayQuiet

\* StartSupplInterest ends.
SupplEnds(f, f2) ==
    /\ f2 \in FrameType /\ f2.op = f.op /\ f2.a = f.a /\ f2.got = f.got /\ f2.next = f.next
    /\ f2.drop = f.drop /\ f2.list = {}
    /\ f2.pc = IF f.op = "inc" THEN "calc" ELSE "waste"
    /\ f2.todo = IF f.op = "inc" THEN Calc[f.a] ELSE f.todo

LEMMA SuppliedIs ==
    ASSUME NEW f \in FrameType
    PROVE  SupplEnds(f, Supplied(f))
  <1>1. Calc[f.a] \in SUBSET Actor
    BY InterestAssumption DEF FrameType
  <1> QED
    BY <1>1 DEF SupplEnds, Supplied, FrameType

LEMMA CheckFailureStep ==
    ASSUME Inv, NEW t \in Thread, CheckFailure(t)
    PROVE  Inv'
  <1>1. stack[t] # <<>> /\ Quiet
    BY DEF CheckFailure, At, Quiet
  <1>0. PICK b, f : TopIs(t, b, f)
    BY <1>1, TopFacts
  <1>2. /\ b \in Seq(FrameType) /\ f \in FrameType
        /\ stack[t] = Append(b, f) /\ Top(t) = f /\ Front(stack[t]) = b
        /\ f.a \in Actor /\ Content(f, {}, ref[f.a]) /\ Sees(f)
        /\ f.got \in [Actor -> Nat] /\ f.drop \in [Actor -> Nat] /\ f.list \in SUBSET Actor
        /\ Free(t, f) \/ (f.op \in {"inc", "dec"} /\ f.pc = "count")
    BY <1>0 DEF TopIs
  <1>3. PICK d : d = IF failed[f.a] THEN Plus(f.drop, Bag(f.list)) ELSE f.drop
    OBVIOUS
  <1>4. PICK f2 : f2 = IF failed[f.a] THEN [Supplied(f) EXCEPT !.drop = d] ELSE [f EXCEPT !.pc = "register"]
    OBVIOUS
  <1>5. f.op \in {"inc", "invalidate"} /\ f.pc = "suppl" /\ f.todo = {}
    BY <1>2 DEF CheckFailure, At
  <1>6. Calc[f.a] \in SUBSET Actor /\ Calc[f.a] \subseteq Under(f.a)
    BY <1>2, UnderFacts, InterestAssumption
  <1>7. /\ d \in [Actor -> Nat]
        /\ \A x \in Actor : d[x] = f.drop[x] + IF failed[f.a] THEN In(x, f.list) ELSE 0
    BY <1>2, <1>3 DEF Plus, Bag, In
  <1>8. SupplEnds(f, Supplied(f))
    BY <1>2, SuppliedIs
  <1>9. /\ f2.op = f.op /\ f2.a = f.a /\ f2.got = f.got /\ f2.next = f.next /\ f2.drop = d
        /\ f2.pc = IF ~failed[f.a] THEN "register" ELSE IF f.op = "inc" THEN "calc" ELSE "waste"
        /\ f2.todo = IF failed[f.a] /\ f.op = "inc" THEN Calc[f.a] ELSE {}
        /\ f2.list = IF failed[f.a] THEN {} ELSE f.list
        /\ f2 \in FrameType
    <2>1. CASE failed[f.a]
      BY <1>4, <1>5, <1>7, <1>8, <2>1 DEF FrameType, SupplEnds
    <2>2. CASE ~failed[f.a]
      BY <1>2, <1>3, <1>4, <1>5, <2>2 DEF FrameType
    <2> QED
      BY <2>1, <2>2
  <1>10. stack' = [stack EXCEPT ![t] = Append(b, f2)]
    <2>1. failed[f.a] => f2 = [Supplied(f) EXCEPT !.drop = Plus(@, Bag(f.list))]
      BY <1>3, <1>4, <1>8 DEF FrameType, SupplEnds
    <2>2. f2 = IF failed[f.a] THEN [Supplied(f) EXCEPT !.drop = Plus(@, Bag(f.list))]
               ELSE [f EXCEPT !.pc = "register"]
      BY <1>4, <2>1
    <2> QED
      BY <1>2, <2>2 DEF CheckFailure, Goto, TypeOK, Inv
  <1>11. Content(f2, {}, ref[f.a])
    <2>1. \A x \in Actor :
             x \in f2.todo \/ x \in f2.list \/ f2.got[x] > 0 \/ f2.drop[x] > 0 => x \in Under(f.a)
      BY <1>2, <1>6, <1>7, <1>9 DEF Content, In
    <2>2. CASE f.op = "inc"
      <3>1. f.got = Plus(Bag(Units[f.a]), Bag(Parent[f.a])) /\ f.drop = Nil
        BY <1>2, <1>5, <2>2 DEF Content, IncContent
      <3>2. f2.pc = "calc" => Plus(Plus(f2.got, Bag(f2.todo)), Bag({}))
                              = Plus(Plus(Bag(Units[f.a]), Bag(Parent[f.a])), Bag(Calc[f.a]))
        BY <1>2, <1>9, <2>2, <3>1 DEF Plus, Bag
      <3>3. f2.pc \in {"calc", "register"} /\ (f2.pc = "register" => f2.drop = Nil /\ f2.todo = {})
        BY <1>3, <1>9, <2>2, <3>1
      <3>4. IncContent(f2, {}, ref[f.a])
        BY <1>9, <2>2, <3>1, <3>2, <3>3 DEF IncContent
      <3> QED
        BY <1>2, <1>5, <1>9, <2>1, <2>2, <3>3, <3>4 DEF Content
    <2>3. CASE f.op = "invalidate"
      BY <1>2, <1>3, <1>5, <1>9, <2>1, <2>3 DEF Content, RestContent
    <2> QED
      BY <1>5, <2>2, <2>3
  <1>12. Sees(f2)
    BY <1>2, <1>5, <1>9 DEF Sees
  <1>13. (Locked(f2) => Locked(f)) /\ (Observing(f) => Observing(f2)) /\ Free(t, f)
    BY <1>2, <1>5, <1>9 DEF Locked, Observing
  <1>14. ASSUME NEW x \in Actor PROVE DebtTo(f2, ref, x) = DebtTo(f, ref, x)
    <2>1. \A S : In(x, S) \in Nat
      BY DEF In
    <2>2. f.got[x] \in Nat /\ f.drop[x] \in Nat /\ In(x, {}) = 0
      BY <1>2 DEF In
    <2>3. f2.drop[x] = f.drop[x] + IF failed[f.a] THEN In(x, f.list) ELSE 0
      BY <1>7, <1>9
    <2> QED
      BY <1>5, <1>9, <2>1, <2>2, <2>3 DEF DebtTo
  <1>15. GoesOn(t, b, f, f2)
    BY <1>2, <1>9, <1>10 DEF GoesOn
  <1> QED
    BY <1>1, <1>11, <1>12, <1>13, <1>14, <1>15, StayQuiet

LEMMA IncRefStep ==
    ASSUME Inv, NEW t \in Thread, IncRef(t)
    PROVE  Inv'
  <1>1. stack[t] # <<>> /\ Quiet
    BY DEF IncRef, At, Quiet
  <1>0. PICK b, f : TopIs(t, b, f)
    BY <1>1, TopFacts
  <1>2. /\ b \in Seq(FrameType) /\ f \in FrameType
        /\ stack[t] = Append(b, f) /\ Top(t) = f /\ Front(stack[t]) = b
        /\ f.a \in Actor /\ Content(f, {}, ref[f.a]) /\ ref[f.a] \in Ref[f.a] \cup {NoActor}
        /\ f.got \in [Actor -> Nat] /\ f.drop \in [Actor -> Nat]
        /\ Free(t, f) \/ (f.op \in {"inc", "dec"} /\ f.pc = "count")
    BY <1>0 DEF TopIs
  <1>3. f.op = "inc" /\ f.pc = "calc" /\ f.drop = Nil /\ f.todo = {}
    BY <1>2 DEF IncRef, At
  <1>4. /\ f.todo = {} /\ f.list = {}
        /\ f.got = Plus(Plus(Bag(Units[f.a]), Bag(Parent[f.a])), Bag(Calc[f.a]))
    <2>1. /\ f.list = {}
          /\ Plus(Plus(f.got, Bag(f.todo)), Bag({})) = Plus(Plus(Bag(Units[f.a]), Bag(Parent[f.a])), Bag(Calc[f.a]))
      BY <1>2, <1>3 DEF Content, IncContent
    <2>2. Plus(Plus(f.got, Bag({})), Bag({})) = f.got
      BY <1>2 DEF Plus, Bag
    <2> QED
      BY <1>3, <2>1, <2>2
  <1>5. NoActor \notin Actor
    BY InterestAssumption
  <1>6. CASE ref[f.a] = NoActor
    <2>1. PICK f2 : f2 = [f EXCEPT !.pc = "finish"]
      OBVIOUS
    <2>2. stack' = [stack EXCEPT ![t] = Append(b, f2)]
      BY <1>2, <1>6, <2>1 DEF IncRef, Goto, TypeOK, Inv
    <2>3. /\ f2.op = f.op /\ f2.a = f.a /\ f2.got = f.got /\ f2.next = f.next /\ f2.todo = f.todo
          /\ f2.list = f.list /\ f2.drop = f.drop /\ f2.pc = "finish" /\ f2 \in FrameType
      BY <1>2, <2>1, ZenonT(60) DEF FrameType
    <2>4. Plus(f.got, Bag({ref[f.a]})) = f.got
      <3>1. \A x \in Actor : x \notin {ref[f.a]}
        BY <1>5, <1>6
      <3> QED
        BY <1>2, <3>1 DEF Plus, Bag
    <2>5. Content(f2, {}, ref[f.a])
      BY <1>2, <1>3, <1>4, <2>3, <2>4 DEF Content, IncContent
    <2>6. Sees(f2) /\ (Locked(f2) => Locked(f)) /\ (Observing(f) => Observing(f2))
          /\ Free(t, f)
      BY <1>2, <1>3, <2>3 DEF Sees, Locked, Observing
    <2>7. \A x \in Actor : DebtTo(f2, ref, x) = DebtTo(f, ref, x)
      BY <1>3, <2>3 DEF DebtTo
    <2>8. GoesOn(t, b, f, f2)
      BY <1>2, <2>2, <2>3 DEF GoesOn
    <2> QED
      BY <1>1, <2>5, <2>6, <2>7, <2>8, StayQuiet
  <1>7. CASE ref[f.a] # NoActor
    <2>1. PICK y : y = ref[f.a]
      OBVIOUS
    <2>2. PICK g : g = IncFrame(y)
      OBVIOUS
    <2>3. y \in Under(f.a) /\ y \in Actor
      BY <1>2, <1>7, <2>1, UnderFacts
    <2>4. PICK f2 : f2 = [f EXCEPT !.pc = "ref"]
      OBVIOUS
    <2>5. /\ f2.op = f.op /\ f2.a = f.a /\ f2.got = f.got /\ f2.next = f.next /\ f2.todo = f.todo
          /\ f2.list = f.list /\ f2.drop = f.drop /\ f2.pc = "ref" /\ f2 \in FrameType
      BY <1>2, <2>4, ZenonT(60) DEF FrameType
    <2>6. stack' = [stack EXCEPT ![t] = Append(Append(b, f2), g)]
      BY <1>2, <1>7, <2>1, <2>2, <2>4 DEF IncRef, Call, TypeOK, Inv
    <2>7. g.a = y /\ g.op = "inc" /\ Asks(g) = {ref[f.a]}
      BY <2>1, <2>2 DEF IncFrame, Frame, Asks
    <2>8. Content(f2, Asks(g), ref[f.a])
      BY <1>2, <1>3, <1>4, <2>5, <2>7 DEF Content, IncContent
    <2>9. /\ Calls(f2, g) /\ Sees(f2) /\ (Locked(f2) => Locked(f)) /\ (Observing(f) => Observing(f2))
          /\ Free(t, f) /\ t = Meta
      BY <1>2, <1>3, <2>3, <2>5, <2>7 DEF Sees, Calls, Locked, Observing, Free
    <2>10. ASSUME NEW x \in Actor PROVE DebtTo(f2, ref, x) + DebtTo(g, ref, x) = DebtTo(f, ref, x)
      <3>1. \A refs : \A z \in Actor : DebtTo(g, refs, z) = IF g.op = "inc" THEN 0 ELSE In(z, {y})
        <4>1. y \in Actor /\ g \in {IncFrame(y), DecFrame(y)}
          BY <2>2, <2>3
        <4> QED
          BY <4>1, NewFrames
      <3>2. DebtTo(g, ref, x) = 0 /\ DebtTo(f, ref, x) \in Nat
        BY <1>2, <2>7, <3>1, DebtType
      <3>3. DebtTo(f2, ref, x) = DebtTo(f, ref, x)
        BY <1>3, <2>5 DEF DebtTo
      <3> QED
        BY <3>2, <3>3
    <2>11. CallsOut(t, b, f, f2, y, g)
      BY <1>2, <2>2, <2>3, <2>5, <2>6 DEF CallsOut
    <2> QED
      BY <1>1, <2>8, <2>9, <2>10, <2>11, CallQuiet
  <1> QED
    BY <1>6, <1>7

LEMMA DecRefStep ==
    ASSUME Inv, NEW t \in Thread, DecRef(t)
    PROVE  Inv'
  <1>1. stack[t] # <<>> /\ Quiet
    BY DEF DecRef, At, Quiet
  <1>0. PICK b, f : TopIs(t, b, f)
    BY <1>1, TopFacts
  <1>2. /\ b \in Seq(FrameType) /\ f \in FrameType
        /\ stack[t] = Append(b, f) /\ Top(t) = f /\ Front(stack[t]) = b
        /\ f.a \in Actor /\ Content(f, {}, ref[f.a]) /\ ref[f.a] \in Ref[f.a] \cup {NoActor}
        /\ f.got \in [Actor -> Nat] /\ f.drop \in [Actor -> Nat]
        /\ Free(t, f) \/ (f.op \in {"inc", "dec"} /\ f.pc = "count")
    BY <1>0 DEF TopIs
  <1>3. f.op = "dec" /\ f.pc = "calc" /\ f.todo = {} /\ f.list = {}
    BY <1>2 DEF DecRef, At, Content
  <1>4. PICK f2 : f2 = [f EXCEPT !.pc = "unlock"]
    OBVIOUS
  <1>5. /\ f2.op = f.op /\ f2.a = f.a /\ f2.got = f.got /\ f2.next = f.next /\ f2.todo = f.todo
        /\ f2.list = f.list /\ f2.drop = f.drop /\ f2.pc = "unlock" /\ f2 \in FrameType
    BY <1>2, <1>4, ZenonT(60) DEF FrameType
  <1>6. Content(f2, {}, ref[f.a])
    BY <1>2, <1>3, <1>5 DEF Content, DecContent
  <1>7. Sees(f2) /\ (Locked(f2) => Locked(f)) /\ (Observing(f) => Observing(f2))
        /\ Free(t, f)
    BY <1>2, <1>3, <1>5 DEF Sees, Locked, Observing
  <1>8. ASSUME NEW x \in Actor
        PROVE  DebtTo(f, ref, x) = DebtTo(f2, ref, x) + In(x, {ref[f.a]})
    <2>1. \A S : In(x, S) \in Nat
      BY DEF In
    <2>2. f.got[x] \in Nat /\ f.drop[x] \in Nat /\ In(x, {}) = 0
      BY <1>2 DEF In
    <2> QED
      BY <1>3, <1>5, <2>1, <2>2 DEF DebtTo
  <1>9. CASE ref[f.a] = NoActor
    <2>1. stack' = [stack EXCEPT ![t] = Append(b, f2)]
      BY <1>2, <1>4, <1>9 DEF DecRef, Goto, TypeOK, Inv
    <2>2. ASSUME NEW x \in Actor PROVE DebtTo(f2, ref, x) = DebtTo(f, ref, x)
      <3>1. In(x, {ref[f.a]}) = 0 /\ DebtTo(f2, ref, x) \in Nat
        BY <1>5, <1>9, InterestAssumption, DebtType DEF In
      <3> QED
        BY <1>8, <3>1
    <2>3. GoesOn(t, b, f, f2)
      BY <1>2, <1>5, <2>1 DEF GoesOn
    <2> QED
      BY <1>1, <1>6, <1>7, <2>2, <2>3, StayQuiet
  <1>10. CASE ref[f.a] # NoActor
    <2>1. PICK y : y = ref[f.a]
      OBVIOUS
    <2>2. PICK g : g = DecFrame(y)
      OBVIOUS
    <2>3. y \in Under(f.a) /\ y \in Actor
      BY <1>2, <1>10, <2>1, UnderFacts
    <2>4. stack' = [stack EXCEPT ![t] = Append(Append(b, f2), g)]
      BY <1>2, <1>4, <1>10, <2>1, <2>2 DEF DecRef, Call, TypeOK, Inv
    <2>5. g.a = y /\ g.op = "dec" /\ Asks(g) = {}
      BY <2>2 DEF DecFrame, Frame, Asks
    <2>6. Content(f2, Asks(g), ref[f.a]) /\ Calls(f2, g) /\ g.op # "inc"
      BY <1>3, <1>5, <1>6, <2>3, <2>5 DEF Calls
    <2>7. ASSUME NEW x \in Actor PROVE DebtTo(f2, ref, x) + DebtTo(g, ref, x) = DebtTo(f, ref, x)
      <3>1. \A refs : \A z \in Actor : DebtTo(g, refs, z) = IF g.op = "inc" THEN 0 ELSE In(z, {y})
        <4>1. y \in Actor /\ g \in {IncFrame(y), DecFrame(y)}
          BY <2>2, <2>3
        <4> QED
          BY <4>1, NewFrames
      <3>2. DebtTo(g, ref, x) = In(x, {ref[f.a]})
        BY <2>1, <2>5, <3>1
      <3> QED
        BY <1>8, <3>2
    <2>8. CallsOut(t, b, f, f2, y, g)
      BY <1>2, <1>5, <2>2, <2>3, <2>4 DEF CallsOut
    <2> QED
      BY <1>1, <1>7, <2>6, <2>7, <2>8, CallQuiet
  <1> QED
    BY <1>9, <1>10

LEMMA DecCalcStep ==
    ASSUME Inv, NEW t \in Thread, DecCalc(t)
    PROVE  Inv'
  <1>1. stack[t] # <<>> /\ Quiet
    BY DEF DecCalc, At, Quiet
  <1>0. PICK b, f : TopIs(t, b, f)
    BY <1>1, TopFacts
  <1>2. /\ b \in Seq(FrameType) /\ f \in FrameType
        /\ stack[t] = Append(b, f) /\ Top(t) = f /\ Front(stack[t]) = b
        /\ f.a \in Actor /\ Content(f, {}, ref[f.a])
        /\ f.got \in [Actor -> Nat] /\ f.drop \in [Actor -> Nat]
        /\ Free(t, f) \/ (f.op \in {"inc", "dec"} /\ f.pc = "count")
    BY <1>0 DEF TopIs
  <1>3. f.op = "dec" /\ f.pc = "parent" /\ f.todo = {} /\ f.list = {}
    BY <1>2 DEF DecCalc, At, Content
  <1>4. PICK f2 : f2 = [f EXCEPT !.pc = "calc", !.todo = Calc[f.a]]
    OBVIOUS
  <1>5. Calc[f.a] \in SUBSET Actor /\ Calc[f.a] \subseteq Under(f.a)
    BY <1>2, UnderFacts, InterestAssumption
  <1>6. /\ f2.op = f.op /\ f2.a = f.a /\ f2.got = f.got /\ f2.next = f.next /\ f2.todo = Calc[f.a]
        /\ f2.list = f.list /\ f2.drop = f.drop /\ f2.pc = "calc" /\ f2 \in FrameType
    BY <1>2, <1>4, <1>5, ZenonT(60) DEF FrameType
  <1>7. Content(f2, {}, ref[f.a])
    <2>1. \A x \in Actor :
             x \in f2.todo \/ x \in f2.list \/ f2.got[x] > 0 \/ f2.drop[x] > 0 => x \in Under(f.a)
      BY <1>2, <1>5, <1>6 DEF Content
    <2> QED
      BY <1>2, <1>3, <1>6, <2>1 DEF Content, DecContent
  <1>8. Sees(f2) /\ (Locked(f2) => Locked(f)) /\ (Observing(f) => Observing(f2)) /\ Free(t, f)
    BY <1>2, <1>3, <1>6 DEF Sees, Locked, Observing
  <1>9. ASSUME NEW x \in Actor PROVE DebtTo(f2, ref, x) = DebtTo(f, ref, x)
    <2>1. \A S : In(x, S) \in Nat
      BY DEF In
    <2>2. f.got[x] \in Nat /\ f.drop[x] \in Nat /\ In(x, {}) = 0
      BY <1>2 DEF In
    <2> QED
      BY <1>3, <1>6, <2>1, <2>2 DEF DebtTo
  <1>10. stack' = [stack EXCEPT ![t] = Append(b, f2)]
    BY <1>2, <1>4 DEF DecCalc, Goto, TypeOK, Inv
  <1>11. GoesOn(t, b, f, f2)
    BY <1>2, <1>6, <1>10 DEF GoesOn
  <1> QED
    BY <1>1, <1>7, <1>8, <1>9, <1>11, StayQuiet

LEMMA RebindReadStep ==
    ASSUME Inv, NEW t \in Thread, RebindRead(t)
    PROVE  Inv'
  <1>1. stack[t] # <<>> /\ Quiet
    BY DEF RebindRead, At, Quiet
  <1>0. PICK b, f : TopIs(t, b, f)
    BY <1>1, TopFacts
  <1>2. /\ b \in Seq(FrameType) /\ f \in FrameType
        /\ stack[t] = Append(b, f) /\ Top(t) = f /\ Front(stack[t]) = b
        /\ f.a \in Actor /\ Content(f, {}, ref[f.a])
        /\ f.got \in [Actor -> Nat] /\ f.drop \in [Actor -> Nat]
        /\ Free(t, f) \/ (f.op \in {"inc", "dec"} /\ f.pc = "count")
    BY <1>0 DEF TopIs
  <1>3. f.op = "rebind" /\ f.pc = "read"
    BY <1>2 DEF RebindRead, At
  <1>4. /\ f.todo = {} /\ f.list = {} /\ f.got = Nil /\ f.drop = Nil
        /\ f.next \in Ref[f.a] \cup {NoActor}
    BY <1>2, <1>3 DEF Content, RebindContent
  <1>5. CASE ~ (count[f.a] > 0 /\ f.next # NoActor)
    <2>1. PICK f2 : f2 = [f EXCEPT !.pc = "swap"]
      OBVIOUS
    <2>2. stack' = [stack EXCEPT ![t] = Append(b, f2)]
      BY <1>2, <1>5, <2>1 DEF RebindRead, Goto, TypeOK, Inv
    <2>3. /\ f2.op = f.op /\ f2.a = f.a /\ f2.got = f.got /\ f2.next = f.next /\ f2.todo = f.todo
          /\ f2.list = f.list /\ f2.drop = f.drop /\ f2.pc = "swap" /\ f2 \in FrameType
      BY <1>2, <2>1 DEF FrameType
    <2>4. Content(f2, {}, ref[f.a])
      BY <1>2, <1>3, <1>4, <2>3 DEF Content, RebindContent
    <2>5. f2.got = Bag({f2.next}) \/ (f2.got = Nil /\ count[f2.a] = 0)
      <3>1. count[f.a] \in Nat
        BY <1>2 DEF Inv, TypeOK
      <3>2. CASE count[f.a] = 0
        BY <1>4, <2>3, <3>2
      <3>3. CASE count[f.a] # 0
        <4>1. f.next = NoActor
          BY <1>5, <3>1, <3>3
        <4>2. \A x \in Actor : x \notin {f.next}
          BY <4>1, InterestAssumption
        <4>3. Bag({f.next}) = Nil
          BY <4>2 DEF Bag, Nil
        <4> QED
          BY <1>4, <2>3, <3>3, <4>3
      <3> QED
        BY <3>2, <3>3
    <2>6. Sees(f2) /\ (Locked(f2) => Locked(f)) /\ (Observing(f) => Observing(f2))
          /\ Free(t, f)
      BY <1>2, <1>3, <2>3, <2>5 DEF Sees, Locked, Observing
    <2>7. \A x \in Actor : DebtTo(f2, ref, x) = DebtTo(f, ref, x)
      BY <1>3, <2>3 DEF DebtTo
    <2>8. GoesOn(t, b, f, f2)
      BY <1>2, <2>2, <2>3 DEF GoesOn
    <2> QED
      BY <1>1, <2>4, <2>6, <2>7, <2>8, StayQuiet
  <1>6. CASE count[f.a] > 0 /\ f.next # NoActor
    <2>1. PICK y : y = f.next
      OBVIOUS
    <2>2. PICK g : g = IncFrame(y)
      OBVIOUS
    <2>3. y \in Under(f.a) /\ y \in Actor
      BY <1>2, <1>4, <1>6, <2>1, UnderFacts
    <2>4. stack' = [stack EXCEPT ![t] = Append(Append(b, f), g)]
      BY <1>2, <1>6, <2>1, <2>2 DEF RebindRead, Call, TypeOK, Inv
    <2>5. g.a = y /\ g.op = "inc" /\ Asks(g) = {f.next}
      BY <2>1, <2>2 DEF IncFrame, Frame, Asks
    <2>6. Content(f, Asks(g), ref[f.a])
      BY <1>2, <1>3, <1>4, <2>5 DEF Content, RebindContent
    <2>7. Calls(f, g) /\ Sees(f) /\ Free(t, f) /\ t = Meta
      BY <1>2, <1>3, <1>6, <2>3, <2>5 DEF Sees, Calls, Free
    <2>8. ASSUME NEW x \in Actor PROVE DebtTo(f, ref, x) + DebtTo(g, ref, x) = DebtTo(f, ref, x)
      <3>0. y \in Actor /\ g \in {IncFrame(y), DecFrame(y)}
        BY <2>2, <2>3
      <3>1. \A refs : \A z \in Actor : DebtTo(g, refs, z) = IF g.op = "inc" THEN 0 ELSE In(z, {y})
        BY <3>0, NewFrames
      <3>2. DebtTo(g, ref, x) = 0 /\ DebtTo(f, ref, x) \in Nat
        BY <1>2, <2>5, <3>1, DebtType
      <3> QED
        BY <3>2
    <2>9. CallsOut(t, b, f, f, y, g)
      BY <1>2, <2>2, <2>3, <2>4 DEF CallsOut
    <2> QED
      BY <1>1, <2>6, <2>7, <2>8, <2>9, CallQuiet
  <1> QED
    BY <1>5, <1>6

LEMMA DoInvalidateStep ==
    ASSUME Inv, NEW t \in Thread, DoInvalidate(t)
    PROVE  Inv'
  <1>1. stack[t] # <<>> /\ Quiet
    BY DEF DoInvalidate, At, Quiet
  <1>0. PICK b, f : TopIs(t, b, f)
    BY <1>1, TopFacts
  <1>2. /\ b \in Seq(FrameType) /\ f \in FrameType
        /\ stack[t] = Append(b, f) /\ Top(t) = f /\ Front(stack[t]) = b
        /\ f.a \in Actor /\ Content(f, {}, ref[f.a]) /\ Sees(f)
        /\ f.got \in [Actor -> Nat] /\ f.drop \in [Actor -> Nat]
        /\ Free(t, f) \/ (f.op \in {"inc", "dec"} /\ f.pc = "count")
    BY <1>0 DEF TopIs
  <1>3. f.op = "invalidate" /\ f.pc = "check"
    BY <1>2 DEF DoInvalidate, At
  <1>4. PICK f2 : f2 = IF count[f.a] > 0 /\ ~failed[f.a]
                       THEN [f EXCEPT !.pc = "suppl", !.todo = Suppl[f.a]]
                       ELSE [f EXCEPT !.pc = "waste"]
    OBVIOUS
  <1>5. stack' = [stack EXCEPT ![t] = Append(b, f2)]
    BY <1>2, <1>4 DEF DoInvalidate, Goto, TypeOK, Inv
  <1>6. Suppl[f.a] \in SUBSET Actor /\ Suppl[f.a] \subseteq Under(f.a)
    BY <1>2, UnderFacts
  <1>7. /\ f2.op = f.op /\ f2.a = f.a /\ f2.got = f.got /\ f2.list = f.list /\ f2.drop = f.drop
        /\ f2.pc = "waste" \/ (f2.pc = "suppl" /\ count[f.a] > 0)
        /\ f2.todo = IF f2.pc = "suppl" THEN Suppl[f.a] ELSE f.todo
        /\ f2 \in FrameType
    BY <1>2, <1>4, <1>6 DEF FrameType
  <1>8. f.list = {} /\ f.todo = {} /\ f.got = Nil
    BY <1>2, <1>3 DEF Content, RestContent
  <1>9. Content(f2, {}, ref[f.a])
    <2>1. \A x \in Actor :
             x \in f2.todo \/ x \in f2.list \/ f2.got[x] > 0 \/ f2.drop[x] > 0 => x \in Under(f.a)
      BY <1>2, <1>6, <1>7 DEF Content
    <2> QED
      BY <1>3, <1>6, <1>7, <1>8, <2>1 DEF Content, RestContent
  <1>10. Sees(f2) /\ (Locked(f2) => Locked(f)) /\ (Observing(f) => Observing(f2))
         /\ Free(t, f)
    BY <1>2, <1>3, <1>7 DEF Sees, Locked, Observing
  <1>11. \A x \in Actor : DebtTo(f2, ref, x) = DebtTo(f, ref, x)
    BY <1>3, <1>7 DEF DebtTo
  <1>12. GoesOn(t, b, f, f2)
    BY <1>2, <1>5, <1>7 DEF GoesOn
  <1> QED
    BY <1>1, <1>9, <1>10, <1>11, <1>12, StayQuiet

-----------------------------------------------------------------------------
(* Steps that move supplier interest *)

\* The supplier interest of the actor becomes S, and h its flag.
MovesSuppl(t, b, f, f2, S, h) ==
    /\ UNCHANGED <<count, failed, ref, actorLock, countSection, handles>>
    /\ suppl' = [suppl EXCEPT ![f.a] = S] /\ hasSuppl' = [hasSuppl EXCEPT ![f.a] = h]
    /\ S \subseteq IF h THEN Suppl[f.a] ELSE {}
    /\ Content(f2, {}, ref[f.a]) /\ Sees(f2)'
    /\ Locked(f2) => Locked(f)
    /\ Observing(f) => ~h \/ Observing(f2)
    /\ h /\ count[f.a] = 0 => hasSuppl[f.a] \/ Observing(f2) \/ WatchedElsewhere(t, f.a)
    /\ Free(t, f)
    /\ h => hasSuppl[f.a] \/ f.op = "inc" \/ (f.op = "invalidate" /\ b = <<>>)
    /\ \A x \in Actor : DebtTo(f, ref, x) + In(x, suppl[f.a]) = DebtTo(f2, ref, x) + In(x, S)

LEMMA StaySuppl ==
    ASSUME Inv, NEW t \in Thread, NEW b, NEW f, NEW f2, GoesOn(t, b, f, f2),
           NEW S, NEW h \in BOOLEAN, MovesSuppl(t, b, f, f2, S, h)
    PROVE  Inv'
  <1> /\ b \in Seq(FrameType) /\ f \in FrameType /\ f2 \in FrameType
      /\ stack[t] = Append(b, f) /\ stack' = [stack EXCEPT ![t] = Append(b, f2)]
      /\ f2.op = f.op /\ f2.a = f.a
    BY DEF GoesOn
  <1> /\ UNCHANGED <<count, failed, ref, actorLock, countSection, handles>>
      /\ suppl' = [suppl EXCEPT ![f.a] = S] /\ hasSuppl' = [hasSuppl EXCEPT ![f.a] = h]
      /\ S \subseteq IF h THEN Suppl[f.a] ELSE {}
      /\ Content(f2, {}, ref[f.a]) /\ Sees(f2)'
      /\ Locked(f2) => Locked(f)
      /\ Observing(f) => ~h \/ Observing(f2)
      /\ h /\ count[f.a] = 0 => hasSuppl[f.a] \/ Observing(f2) \/ WatchedElsewhere(t, f.a)
      /\ h => hasSuppl[f.a] \/ f.op = "inc" \/ (f.op = "invalidate" /\ b = <<>>)
      /\ t = Meta \/ f.op \in {"dec", "fail"}
      /\ countSection = NoThread \/ t # Meta
      /\ \A x \in Actor : DebtTo(f, ref, x) + In(x, suppl[f.a]) = DebtTo(f2, ref, x) + In(x, S)
    BY DEF MovesSuppl, Free
  <1>1. /\ TypeOK /\ Balanced /\ StackInv /\ BaseInv /\ LockInv /\ AllSee /\ SupplInv /\ Observed
    BY DEF Inv
  <1>2. PICK s2, n : Stayed(t, b, f, f2, s2, n)
    BY <1>1, Stay
  <1>3. Kept(t, s2, n) /\ s2 = Append(b, f2) /\ n = Len(b) /\ n < Len(stack[t])
    BY <1>2 DEF Stayed
  <1>4. f.a \in Actor /\ Suppl[f.a] \subseteq Actor
    BY UnderFacts DEF FrameType
  <1>5. /\ suppl'[f.a] = S /\ hasSuppl'[f.a] = h
        /\ \A c \in Actor \ {f.a} : suppl'[c] = suppl[c] /\ hasSuppl'[c] = hasSuppl[c]
    BY <1>1, <1>4 DEF TypeOK
  <1>6. TypeOK'
    <2>1. suppl' \in [Actor -> SUBSET Actor] /\ hasSuppl' \in [Actor -> BOOLEAN]
      BY <1>1, <1>4 DEF TypeOK
    <2> QED
      BY <1>1, <1>3, <2>1, TypeStep DEF TypeOK
  <1>7. StackInv'
    BY <1>1, StayStacked
  <1>8. Balanced'
    <2>1. ASSUME NEW x \in Actor
          PROVE  count'[x] + handles[t][x] + Debts(stack[t], ref, x) + Hold(f.a, x)
                 = count[x] + handles'[t][x] + Debts(s2, ref, x) + Hold(f.a, x)'
      <3>1. Debts(stack[t], ref, x) = Debts(b, ref, x) + DebtTo(f, ref, x)
        BY DebtsAppend
      <3>2. Debts(s2, ref, x) = Debts(b, ref, x) + DebtTo(f2, ref, x)
        BY <1>3, DebtsAppend
      <3>3. PICK k \in Nat : k = IF count[f.a] = 0 THEN 0
                                 ELSE In(x, Units[f.a]) + In(x, Parent[f.a]) + In(x, Calc[f.a]) + In(x, {ref[f.a]})
        BY DEF In
      <3>4. Hold(f.a, x) = In(x, suppl[f.a]) + k /\ Hold(f.a, x)' = In(x, S) + k
        BY <1>5, <3>3 DEF Hold
      <3>5. PICK d, df, df2 \in Nat : d = Debts(b, ref, x) /\ df = DebtTo(f, ref, x) /\ df2 = DebtTo(f2, ref, x)
        BY DebtsAppend, DebtType
      <3>6. PICK p, q \in Nat : p = In(x, suppl[f.a]) /\ q = In(x, S)
        BY DEF In
      <3>7. PICK c, hh \in Nat : c = count[x] /\ hh = handles[t][x]
        BY <1>1, OweType DEF TypeOK
      <3>8. df + p = df2 + q /\ count'[x] = c /\ handles'[t][x] = hh
        BY <3>5, <3>6, <3>7
      <3>9. c + hh + (d + df) + (p + k) = c + hh + (d + df2) + (q + k)
        BY ONLY <3>8
      <3>10. Debts(stack[t], ref, x) = d + df /\ Debts(s2, ref, x) = d + df2
             /\ Hold(f.a, x) = p + k /\ Hold(f.a, x)' = q + k
        BY <3>1, <3>2, <3>4, <3>5, <3>6
      <3> QED
        BY <3>7, <3>8, <3>9, <3>10
    <2>2. /\ stack' = [stack EXCEPT ![t] = s2] /\ ref' = ref
          /\ \A u \in Thread \ {t} : handles'[u] = handles[u]
          /\ \A c \in Actor \ {f.a} : count'[c] = count[c] /\ suppl'[c] = suppl[c]
      BY <1>3, <1>5
    <2>3. PICK a \in Actor : a = f.a
      BY <1>4
    <2>4. \A x \in Actor : count'[x] + handles[t][x] + Debts(stack[t], ref, x) + Hold(a, x)
                            = count[x] + handles'[t][x] + Debts(s2, ref, x) + Hold(a, x)'
      BY <2>1, <2>3
    <2>5. \A c \in Actor \ {a} : count'[c] = count[c] /\ suppl'[c] = suppl[c]
      BY <2>2, <2>3
    <2> QED
      BY ONLY <1>1, <1>6, <2>2, <2>4, <2>5, Balance
  <1>9. BaseInv'
    <2>1. t = Meta \/ \A i \in n + 1 .. Len(s2) : s2[i].op \in {"dec", "fail"}
      BY <1>2 DEF Stayed
    <2> QED
      BY <1>1, <1>2, <1>3, <2>1, BaseStep DEF Stayed
  <1>10. LockInv'
    BY <1>1, <1>2, <1>3, LockSame DEF Stayed
  <1>11. AllSee'
    <2>1. \A i \in n + 1 .. Len(s2) : Sees(s2[i])'
      <3> SUFFICES ASSUME NEW i \in n + 1 .. Len(s2) PROVE Sees(s2[i])'
        OBVIOUS
      <3>1. s2[i] = f2 /\ ~ (i < Len(s2))
        BY <1>2 DEF Stayed
      <3> QED
        BY <3>1 DEF Sees
    <2>2. ASSUME NEW u \in Thread, NEW i \in DOMAIN stack[u], stack[u][i].op \in {"rebind", "invalidate"},
                 u = t => i \in 1 .. n, hasSuppl'[stack[u][i].a], ~hasSuppl[stack[u][i].a]
          PROVE  FALSE
      <3>1. stack[u][i].a \in Actor /\ stack[u][i].a = f.a /\ h
        BY <1>1, <1>5, <2>2, StackFacts DEF FrameType
      <3>2. stack[t] # <<>> /\ stack[t][Len(stack[t])] = f
        BY <1>2 DEF Stayed
      <3>3. t = Meta
        BY <1>5, <2>2, <3>1
      <3>4. u = t
        BY <1>1, <2>2, <3>3, MetaChanges
      <3>5. f.op # "inc"
        BY <1>1, <2>2, <3>1, <3>2, <3>3, Elsewhere
      <3>6. b = <<>> /\ n = 0
        BY <1>3, <2>2, <3>1, <3>5
      <3> QED
        BY <2>2, <3>4, <3>6
    <2>3. \A u \in Thread : \A i \in DOMAIN stack[u] :
              stack[u][i].op \in {"rebind", "invalidate"} /\ (u = t => i \in 1 .. n) =>
                 /\ count[stack[u][i].a] = 0 => count'[stack[u][i].a] = 0
                 /\ hasSuppl'[stack[u][i].a] => hasSuppl[stack[u][i].a]
      BY <2>2
    <2> QED
      BY <1>1, <1>3, <1>6, <2>1, <2>3, SeeStep
  <1>12. SupplInv'
    BY <1>1, <1>4, <1>5 DEF SupplInv
  <1>13. Observed'
    <2>1. \A a \in Actor : hasSuppl'[a] /\ count'[a] = 0 =>
              \/ hasSuppl[a] /\ count[a] = 0
              \/ \E i \in DOMAIN s2 : Observing(s2[i]) /\ s2[i].a = a
              \/ WatchedElsewhere(t, a)
      <3>1. \E i \in DOMAIN s2 : s2[i] = f2
        BY <1>2, <1>3, AppendFacts DEF Stayed
      <3> QED
        BY <1>4, <1>5, <3>1
    <2>2. \A i \in n + 1 .. Len(stack[t]) : Observing(stack[t][i]) =>
              \/ ~hasSuppl'[stack[t][i].a] \/ count'[stack[t][i].a] # 0
              \/ i \in DOMAIN s2 /\ Observing(s2[i]) /\ s2[i].a = stack[t][i].a
      BY <1>2, <1>5 DEF Stayed
    <2>3. Kept(t, s2, n) /\ TypeOK /\ Observed
      BY <1>1, <1>3
    <2> QED
      BY ONLY <2>1, <2>2, <2>3, ObservedStep
  <1> QED
    BY <1>6, <1>7, <1>8, <1>9, <1>10, <1>11, <1>12, <1>13 DEF Inv

\* All that a call has moved out of s_SupplTreeInterest was there.
LEMMA MoveFacts ==
    ASSUME Inv, NEW a \in Actor
    PROVE  /\ suppl[a] = IF hasSuppl[a] THEN suppl[a] ELSE {}
           /\ suppl[a] \in SUBSET Actor /\ suppl[a] \subseteq Suppl[a] /\ suppl[a] \subseteq Under(a)
           /\ (IF hasSuppl[a] THEN MoveSuppl(a) ELSE UNCHANGED <<suppl, hasSuppl>>) =>
                 /\ suppl' = [suppl EXCEPT ![a] = {}]
                 /\ hasSuppl' = [hasSuppl EXCEPT ![a] = FALSE]
  <1>1. suppl \in [Actor -> SUBSET Actor] /\ hasSuppl \in [Actor -> BOOLEAN]
    BY DEF Inv, TypeOK
  <1>2. suppl[a] \subseteq IF hasSuppl[a] THEN Suppl[a] ELSE {}
    BY DEF Inv, SupplInv
  <1>3. Suppl[a] \subseteq Under(a)
    BY UnderFacts
  <1>4. ASSUME ~hasSuppl[a], UNCHANGED <<suppl, hasSuppl>>
        PROVE  suppl' = [suppl EXCEPT ![a] = {}] /\ hasSuppl' = [hasSuppl EXCEPT ![a] = FALSE]
    <2>1. suppl[a] = {}
      BY <1>2, <1>4
    <2>2. suppl' = suppl /\ hasSuppl' = hasSuppl
      BY <1>4
    <2> QED
      BY <1>1, <1>4, <2>1, <2>2
  <1> QED
    BY <1>1, <1>2, <1>3, <1>4 DEF MoveSuppl

LEMMA StopSupplInterestStep ==
    ASSUME Inv, NEW t \in Thread, StopSupplInterest(t)
    PROVE  Inv'
  <1>1. stack[t] # <<>> /\ UNCHANGED <<count, failed, ref, actorLock, countSection, handles>>
    BY DEF StopSupplInterest, At
  <1>0. PICK b, f : TopIs(t, b, f)
    BY <1>1, TopFacts
  <1>2. /\ b \in Seq(FrameType) /\ f \in FrameType
        /\ stack[t] = Append(b, f) /\ Top(t) = f /\ Front(stack[t]) = b
        /\ f.a \in Actor /\ Content(f, {}, ref[f.a])
        /\ f.got \in [Actor -> Nat] /\ f.drop \in [Actor -> Nat]
        /\ Free(t, f) \/ (f.op \in {"inc", "dec"} /\ f.pc = "count")
    BY <1>0 DEF TopIs
  <1>3. f.op = "dec" /\ f.pc = "units" /\ f.todo = {} /\ f.list = {}
    BY <1>2 DEF StopSupplInterest, At, Content
  <1>4. PICK m : m = suppl[f.a]
    OBVIOUS
  <1>5. /\ m = IF hasSuppl[f.a] THEN suppl[f.a] ELSE {}
        /\ m \in SUBSET Actor /\ m \subseteq Under(f.a)
        /\ suppl' = [suppl EXCEPT ![f.a] = {}] /\ hasSuppl' = [hasSuppl EXCEPT ![f.a] = FALSE]
    BY <1>2, <1>4, MoveFacts DEF StopSupplInterest
  <1>6. PICK f2 : f2 = [f EXCEPT !.pc = "parent", !.todo = Parent[f.a], !.drop = Plus(@, Bag(m))]
    OBVIOUS
  <1>7. stack' = [stack EXCEPT ![t] = Append(b, f2)]
    BY <1>2, <1>5, <1>6 DEF StopSupplInterest, Goto, TypeOK, Inv
  <1>8. /\ Plus(f.drop, Bag(m)) \in [Actor -> Nat]
        /\ \A x \in Actor : Plus(f.drop, Bag(m))[x] = f.drop[x] + In(x, m)
    BY <1>2 DEF Plus, Bag, In
  <1>9. Parent[f.a] \in SUBSET Actor /\ Parent[f.a] \subseteq Under(f.a)
    BY <1>2, UnderFacts
  <1>10. /\ f2.op = f.op /\ f2.a = f.a /\ f2.got = f.got /\ f2.list = f.list
         /\ f2.drop = Plus(f.drop, Bag(m)) /\ f2.pc = "parent" /\ f2.todo = Parent[f.a]
         /\ f2 \in FrameType
    BY <1>2, <1>6, <1>8, <1>9, ZenonT(60) DEF FrameType
  <1>11. Content(f2, {}, ref[f.a])
    <2>1. \A x \in Actor :
             x \in f2.todo \/ x \in f2.list \/ f2.got[x] > 0 \/ f2.drop[x] > 0 => x \in Under(f.a)
      BY <1>2, <1>5, <1>8, <1>9, <1>10 DEF Content, In
    <2> QED
      BY <1>2, <1>3, <1>10, <2>1 DEF Content, DecContent
  <1>12. Sees(f2)' /\ (Locked(f2) => Locked(f)) /\ Free(t, f)
    BY <1>2, <1>3, <1>10 DEF Sees, Locked
  <1>13. ASSUME NEW x \in Actor
         PROVE  DebtTo(f, ref, x) + In(x, suppl[f.a]) = DebtTo(f2, ref, x) + In(x, {})
    <2>1. \A S : In(x, S) \in Nat
      BY DEF In
    <2>2. f.got[x] \in Nat /\ f.drop[x] \in Nat /\ In(x, {}) = 0 /\ f2.drop[x] = f.drop[x] + In(x, m)
      BY <1>2, <1>8, <1>10 DEF In
    <2> QED
      BY <1>3, <1>4, <1>10, <2>1, <2>2 DEF DebtTo
  <1>14. GoesOn(t, b, f, f2)
    BY <1>2, <1>7, <1>10 DEF GoesOn
  <1>15. MovesSuppl(t, b, f, f2, {}, FALSE)
    BY <1>1, <1>5, <1>11, <1>12, <1>13 DEF MovesSuppl
  <1> QED
    BY <1>14, <1>15, StaySuppl

LEMMA FailMoveStep ==
    ASSUME Inv, NEW t \in Thread, FailMove(t)
    PROVE  Inv'
  <1>1. stack[t] # <<>> /\ UNCHANGED <<count, failed, ref, actorLock, countSection, handles>>
    BY DEF FailMove, At
  <1>0. PICK b, f : TopIs(t, b, f)
    BY <1>1, TopFacts
  <1>2. /\ b \in Seq(FrameType) /\ f \in FrameType
        /\ stack[t] = Append(b, f) /\ Top(t) = f /\ Front(stack[t]) = b
        /\ f.a \in Actor /\ Content(f, {}, ref[f.a])
        /\ f.got \in [Actor -> Nat] /\ f.drop \in [Actor -> Nat]
        /\ Free(t, f) \/ (f.op \in {"inc", "dec"} /\ f.pc = "count")
    BY <1>0 DEF TopIs
  <1>3. f.op = "fail" /\ f.pc = "move" /\ f.todo = {} /\ f.list = {} /\ f.drop = Nil /\ f.got = Nil
    BY <1>2 DEF FailMove, At, Content, RestContent
  <1>4. PICK m : m = suppl[f.a]
    OBVIOUS
  <1>5. /\ m = IF hasSuppl[f.a] THEN suppl[f.a] ELSE {}
        /\ m \in SUBSET Actor /\ m \subseteq Under(f.a)
        /\ suppl' = [suppl EXCEPT ![f.a] = {}] /\ hasSuppl' = [hasSuppl EXCEPT ![f.a] = FALSE]
    BY <1>2, <1>4, MoveFacts DEF FailMove
  <1>6. PICK f2 : f2 = [f EXCEPT !.pc = "waste", !.drop = Bag(m)]
    OBVIOUS
  <1>7. stack' = [stack EXCEPT ![t] = Append(b, f2)]
    BY <1>2, <1>5, <1>6 DEF FailMove, Goto, TypeOK, Inv
  <1>8. Bag(m) \in [Actor -> Nat] /\ \A x \in Actor : Bag(m)[x] = In(x, m) /\ Nil[x] = 0
    BY DEF Bag, In, Nil
  <1>10. /\ f2.op = f.op /\ f2.a = f.a /\ f2.got = f.got /\ f2.list = f.list
         /\ f2.drop = Bag(m) /\ f2.pc = "waste" /\ f2.todo = f.todo
         /\ f2 \in FrameType
    BY <1>2, <1>6, <1>8, ZenonT(60) DEF FrameType
  <1>11. Content(f2, {}, ref[f.a])
    <2>1. \A x \in Actor :
             x \in f2.todo \/ x \in f2.list \/ f2.got[x] > 0 \/ f2.drop[x] > 0 => x \in Under(f.a)
      BY <1>3, <1>5, <1>8, <1>10 DEF In
    <2> QED
      BY <1>2, <1>3, <1>10, <2>1 DEF Content, RestContent
  <1>12. Sees(f2)' /\ (Locked(f2) => Locked(f)) /\ Free(t, f) /\ ~Observing(f)
    BY <1>2, <1>3, <1>10 DEF Sees, Locked, Observing
  <1>13. ASSUME NEW x \in Actor
         PROVE  DebtTo(f, ref, x) + In(x, suppl[f.a]) = DebtTo(f2, ref, x) + In(x, {})
    <2>1. \A S : In(x, S) \in Nat
      BY DEF In
    <2>2. f.got[x] = 0 /\ f.drop[x] = 0 /\ In(x, {}) = 0 /\ f2.drop[x] = In(x, m)
      BY <1>3, <1>8, <1>10 DEF In
    <2> QED
      BY <1>3, <1>4, <1>10, <2>1, <2>2 DEF DebtTo
  <1>14. GoesOn(t, b, f, f2)
    BY <1>2, <1>7, <1>10 DEF GoesOn
  <1>15. MovesSuppl(t, b, f, f2, {}, FALSE)
    BY <1>1, <1>5, <1>11, <1>12, <1>13 DEF MovesSuppl
  <1> QED
    BY <1>14, <1>15, StaySuppl

\* A call that starts or stops interest is the only one for its actor that has the lock, so
\* that there is no supplier interest before it registers it.
LEMMA NotObserved ==
    ASSUME Inv, NEW t \in Thread, NEW i \in DOMAIN stack[t], Locked(stack[t][i]),
           stack[t][i].op # "restart", ~Observing(stack[t][i])
    PROVE  ~hasSuppl[stack[t][i].a]
  <1> SUFFICES ASSUME hasSuppl[stack[t][i].a] PROVE FALSE
    OBVIOUS
  <1>1. PICK a : a = stack[t][i].a
    OBVIOUS
  <1>2. a \in Actor
    BY <1>1, StackFacts DEF Inv, FrameType
  <1>3. /\ actorLock[a] = t /\ count[a] = 0
        /\ \A j \in DOMAIN stack[t] : Locked(stack[t][j]) /\ stack[t][j].a = a => j = i
    BY <1>1 DEF Inv, LockInv
  <1>4. PICK u \in Thread : \E j \in DOMAIN stack[u] : Observing(stack[u][j]) /\ stack[u][j].a = a
    BY <1>1, <1>2, <1>3 DEF Inv, Observed
  <1>5. PICK j \in DOMAIN stack[u] : Observing(stack[u][j]) /\ stack[u][j].a = a
    BY <1>4
  <1>6. Locked(stack[u][j])
    BY <1>5 DEF Observing, Locked
  <1>7. actorLock[a] = u
    BY <1>5, <1>6 DEF Inv, LockInv
  <1> QED
    BY <1>3, <1>5, <1>6, <1>7

LEMMA RegisterStep ==
    ASSUME Inv, NEW t \in Thread, Register(t), ~Unobserved
    PROVE  Inv'
  <1>1. stack[t] # <<>> /\ UNCHANGED <<count, failed, ref, actorLock, countSection, handles>>
    BY DEF Register, IsIdle
  <1>0. PICK b, f : TopIs(t, b, f)
    BY <1>1, TopFacts
  <1>2. /\ b \in Seq(FrameType) /\ f \in FrameType
        /\ stack[t] = Append(b, f) /\ Top(t) = f /\ Front(stack[t]) = b
        /\ f.a \in Actor /\ Content(f, {}, ref[f.a]) /\ Sees(f)
        /\ f.got \in [Actor -> Nat] /\ f.drop \in [Actor -> Nat] /\ f.list \in SUBSET Actor
        /\ Free(t, f) \/ (f.op \in {"inc", "dec"} /\ f.pc = "count")
        /\ Len(b) + 1 \in DOMAIN stack[t] /\ stack[t][Len(b) + 1] = f
        /\ Locked(f) => actorLock[f.a] = t /\ (f.op # "restart" => count[f.a] = 0)
    BY <1>0 DEF TopIs
  <1>3. f.pc = "register" /\ f.op \in {"inc", "invalidate"} /\ f.todo = {}
        /\ f.list \subseteq Suppl[f.a]
    BY <1>2 DEF Register, Content, IncContent, DecContent, RebindContent, RestContent, FrameType
  <1>4. PICK f2 : f2 = Supplied(f)
    OBVIOUS
  <1>5. /\ stack' = [stack EXCEPT ![t] = Append(b, f2)]
        /\ suppl' = [suppl EXCEPT ![f.a] = f.list] /\ hasSuppl' = [hasSuppl EXCEPT ![f.a] = TRUE]
    BY <1>2, <1>4 DEF Register, Goto, TypeOK, Inv
  <1>6. /\ f2.op = f.op /\ f2.a = f.a /\ f2.got = f.got /\ f2.list = {} /\ f2.drop = f.drop
        /\ f2.todo = (IF f.op = "inc" THEN Calc[f.a] ELSE {}) /\ f2.next = f.next
        /\ f2.pc = (IF f.op = "inc" THEN "calc" ELSE "waste")
        /\ f2 \in FrameType
    BY <1>2, <1>3, <1>4, SuppliedIs DEF SupplEnds
  <1>7. ~hasSuppl[f.a]
    <2>1. CASE f.op = "inc"
      <3>1. Locked(f) /\ ~Observing(f)
        BY <1>3, <2>1 DEF Locked, Observing
      <3>2. PICK i \in DOMAIN stack[t] : stack[t][i] = f
        BY <1>2
      <3> QED
        BY <2>1, <3>1, <3>2, NotObserved
    <2>2. CASE f.op = "invalidate"
      BY <1>2, <1>3, <2>2 DEF Sees
    <2> QED
      BY <1>3, <2>1, <2>2
  <1>8. suppl[f.a] = {}
    BY <1>2, <1>7, MoveFacts
  <1>9. f.op = "invalidate" => b = <<>> /\ t = Meta /\ \A j \in DOMAIN stack[Meta] : stack[Meta][j] = f
    <2> SUFFICES ASSUME f.op = "invalidate"
                 PROVE  b = <<>> /\ t = Meta /\ \A j \in DOMAIN stack[Meta] : stack[Meta][j] = f
      OBVIOUS
    <2>1. PICK i \in DOMAIN stack[t] : stack[t][i] = f /\ i = Len(b) + 1
      BY <1>2
    <2>2. i = 1 /\ t = Meta
      BY <2>1, MetaChanges DEF Inv
    <2>3. b = <<>> /\ Len(b) = 0
      BY <1>2, <2>1, <2>2, EmptySeq, LenProperties
    <2>4. Len(stack[t]) = 1
      BY <1>2, <2>3
    <2>5. DOMAIN stack[t] = 1 .. 1
      <3>1. stack[t] \in Seq(FrameType)
        BY DEF Inv, TypeOK
      <3> QED
        BY <2>4, <3>1, LenProperties
    <2>6. \A j \in DOMAIN stack[t] : j = 1
      BY <2>5
    <2> QED
      BY <2>1, <2>2, <2>3, <2>6
  <1>10. f.op = "invalidate" /\ count[f.a] = 0 => WatchedElsewhere(t, f.a)
    <2> SUFFICES ASSUME f.op = "invalidate", count[f.a] = 0 PROVE WatchedElsewhere(t, f.a)
      OBVIOUS
    <2>1. hasSuppl'[f.a]
      BY <1>2, <1>5 DEF Inv, TypeOK
    <2>2. PICK a \in Actor : a = f.a
      BY <1>2
    <2>3. \E u \in Thread : \E i \in DOMAIN stack[u] : stack[u][i].a = a
             /\ (stack[u][i].op = "inc" \/ (stack[u][i].op = "dec" /\ stack[u][i].pc = "units"))
      <3>1. ~hasSuppl[a] /\ hasSuppl'[a] /\ count[a] = 0
        BY <1>7, <2>1, <2>2
      <3>2. (\E g \in InProgress(a) : g.op = "inc") \/ \E g \in InProgress(a) : g.op = "dec" /\ g.pc = "units"
        BY <3>1 DEF Unobserved, Stopping
      <3> QED
        BY <3>2 DEF InProgress, ToSet
    <2>4. PICK u \in Thread : \E i \in DOMAIN stack[u] : stack[u][i].a = a
             /\ (stack[u][i].op = "inc" \/ (stack[u][i].op = "dec" /\ stack[u][i].pc = "units"))
      BY <2>3
    <2>5. PICK i \in DOMAIN stack[u] : stack[u][i].a = a
             /\ (stack[u][i].op = "inc" \/ (stack[u][i].op = "dec" /\ stack[u][i].pc = "units"))
      BY <2>4
    <2>6. u # Meta
      BY <1>9, <2>5
    <2>7. stack[u][i].op # "inc"
      <3> SUFFICES ASSUME stack[u][i].op = "inc" PROVE FALSE
        OBVIOUS
      <3>1. handles[u][a] > 0
        BY <2>5, <2>6 DEF Inv, BaseInv, Thread
      <3>2. Owe(u, a) <= count[a]
        BY CountCovers DEF Inv
      <3>3. Debts(stack[u], ref, a) \in Nat /\ handles[u][a] \in Nat
        <4>1. stack[u] \in Seq(FrameType) /\ handles[u][a] \in 0 .. MaxHandles
          BY DEF Inv, TypeOK
        <4> QED
          BY <4>1, DebtsBound
      <3> QED
        BY <2>2, <3>1, <3>2, <3>3 DEF Owe
    <2> QED
      BY <1>9, <2>2, <2>5, <2>6, <2>7 DEF WatchedElsewhere, Observing
  <1>11. /\ Content(f2, {}, ref[f.a])
         /\ Sees(f2)' /\ (Locked(f2) => Locked(f)) /\ ~Observing(f) /\ Free(t, f)
         /\ (f.op = "inc" => Observing(f2))
    <2>0. Calc[f.a] \subseteq Under(f.a)
      BY <1>2, UnderFacts
    <2>1. \A x \in Actor :
             x \in f2.todo \/ x \in f2.list \/ f2.got[x] > 0 \/ f2.drop[x] > 0 => x \in Under(f.a)
      BY <1>2, <1>6, <2>0 DEF Content
    <2>2. CASE f.op = "inc"
      <3>1. f.got = Plus(Bag(Units[f.a]), Bag(Parent[f.a])) /\ f.drop = Nil
        BY <1>2, <1>3, <2>2 DEF Content, IncContent
      <3>2. Plus(Plus(f2.got, Bag(f2.todo)), Bag({}))
            = Plus(Plus(Bag(Units[f.a]), Bag(Parent[f.a])), Bag(Calc[f.a]))
        BY <1>2, <1>6, <2>2, <3>1 DEF Plus, Bag
      <3>3. Content(f2, {}, ref[f.a])
        BY <1>6, <2>1, <2>2, <3>1, <3>2 DEF Content, IncContent
      <3> QED
        BY <1>2, <1>3, <1>6, <2>2, <3>3 DEF Sees, Locked, Observing
    <2>3. CASE f.op = "invalidate"
      <3>1. Content(f2, {}, ref[f.a])
        BY <1>2, <1>3, <1>6, <2>1, <2>3 DEF Content, RestContent
      <3> QED
        BY <1>2, <1>3, <1>6, <2>3, <3>1 DEF Sees, Locked, Observing
    <2> QED
      BY <1>3, <2>2, <2>3
  <1>12. ASSUME NEW x \in Actor
         PROVE  DebtTo(f, ref, x) + In(x, suppl[f.a]) = DebtTo(f2, ref, x) + In(x, f.list)
    <2>1. \A S : In(x, S) \in Nat
      BY DEF In
    <2>2. f.got[x] \in Nat /\ f.drop[x] \in Nat /\ In(x, {}) = 0
      BY <1>2 DEF In
    <2> QED
      BY <1>3, <1>6, <1>8, <2>1, <2>2 DEF DebtTo
  <1>13. GoesOn(t, b, f, f2)
    BY <1>2, <1>5, <1>6 DEF GoesOn
  <1>14. MovesSuppl(t, b, f, f2, f.list, TRUE)
    BY <1>1, <1>3, <1>5, <1>9, <1>10, <1>11, <1>12 DEF MovesSuppl
  <1> QED
    BY <1>13, <1>14, StaySuppl

LEMMA RestartSwapStep ==
    ASSUME Inv, NEW t \in Thread, RestartSwap(t)
    PROVE  Inv'
  <1>1. stack[t] # <<>> /\ UNCHANGED <<count, hasSuppl, failed, ref, actorLock, countSection, handles>>
    BY DEF RestartSwap, At
  <1>0. PICK b, f : TopIs(t, b, f)
    BY <1>1, TopFacts
  <1>2. /\ b \in Seq(FrameType) /\ f \in FrameType
        /\ stack[t] = Append(b, f) /\ Top(t) = f /\ Front(stack[t]) = b
        /\ f.a \in Actor /\ Content(f, {}, ref[f.a])
        /\ f.got \in [Actor -> Nat] /\ f.drop \in [Actor -> Nat] /\ f.list \in SUBSET Actor
        /\ Free(t, f) \/ (f.op \in {"inc", "dec"} /\ f.pc = "count")
    BY <1>0 DEF TopIs
  <1>3. /\ f.op = "restart" /\ f.pc = "suppl" /\ f.todo = {} /\ f.drop = Nil /\ f.got = Nil
        /\ f.list \subseteq Suppl[f.a]
    BY <1>2 DEF RestartSwap, At, Content, RestContent
  <1>4. PICK swaps \in BOOLEAN : swaps = (hasSuppl[f.a] /\ ~failed[f.a])
    OBVIOUS
  <1>5. PICK old : old = IF swaps THEN suppl[f.a] ELSE f.list
    OBVIOUS
  <1>6. PICK new : new = IF swaps THEN f.list ELSE suppl[f.a]
    OBVIOUS
  <1>7. /\ suppl \in [Actor -> SUBSET Actor] /\ hasSuppl \in [Actor -> BOOLEAN]
        /\ suppl[f.a] \in SUBSET Actor /\ suppl[f.a] \subseteq Suppl[f.a]
        /\ suppl[f.a] \subseteq IF hasSuppl[f.a] THEN Suppl[f.a] ELSE {}
        /\ Suppl[f.a] \subseteq Under(f.a)
    BY <1>2, MoveFacts, UnderFacts DEF Inv, TypeOK, SupplInv
  <1>8. PICK f2 : f2 = [f EXCEPT !.pc = "waste", !.list = {}, !.drop = Bag(old)]
    OBVIOUS
  <1>9. stack' = [stack EXCEPT ![t] = Append(b, f2)]
    BY <1>2, <1>4, <1>5, <1>8 DEF RestartSwap, Goto, TypeOK, Inv
  <1>10. suppl' = [suppl EXCEPT ![f.a] = new] /\ hasSuppl' = [hasSuppl EXCEPT ![f.a] = hasSuppl[f.a]]
    <2>1. suppl' = IF swaps THEN [suppl EXCEPT ![f.a] = f.list] ELSE suppl
      BY <1>2, <1>4 DEF RestartSwap
    <2> QED
      BY <1>1, <1>6, <1>7, <2>1
  <1>11. Bag(old) \in [Actor -> Nat] /\ \A x \in Actor : Bag(old)[x] = In(x, old) /\ Nil[x] = 0
    BY DEF Bag, In, Nil
  <1>12. /\ f2.op = f.op /\ f2.a = f.a /\ f2.got = f.got /\ f2.list = {}
         /\ f2.drop = Bag(old) /\ f2.pc = "waste" /\ f2.todo = f.todo
         /\ f2 \in FrameType
    BY <1>2, <1>8, <1>11, ZenonT(60) DEF FrameType
  <1>13. Content(f2, {}, ref[f.a])
    <2>1. \A x \in Actor :
             x \in f2.todo \/ x \in f2.list \/ f2.got[x] > 0 \/ f2.drop[x] > 0 => x \in Under(f.a)
      BY <1>3, <1>5, <1>7, <1>11, <1>12 DEF In
    <2> QED
      BY <1>2, <1>3, <1>12, <2>1 DEF Content, RestContent
  <1>14. Sees(f2)' /\ (Locked(f2) => Locked(f)) /\ Free(t, f) /\ ~Observing(f)
    BY <1>2, <1>3, <1>12 DEF Sees, Locked, Observing
  <1>15. ASSUME NEW x \in Actor
         PROVE  DebtTo(f, ref, x) + In(x, suppl[f.a]) = DebtTo(f2, ref, x) + In(x, new)
    <2>1. \A S : In(x, S) \in Nat
      BY DEF In
    <2>2. f.got[x] = 0 /\ f.drop[x] = 0 /\ In(x, {}) = 0 /\ f2.drop[x] = In(x, old)
      BY <1>3, <1>11, <1>12 DEF In
    <2>3. In(x, f.list) + In(x, suppl[f.a]) = In(x, old) + In(x, new)
      BY <1>5, <1>6, <2>1
    <2> QED
      BY <1>3, <1>12, <2>1, <2>2, <2>3 DEF DebtTo
  <1>16. GoesOn(t, b, f, f2)
    BY <1>2, <1>9, <1>12 DEF GoesOn
  <1>17. new \subseteq IF hasSuppl[f.a] THEN Suppl[f.a] ELSE {}
    BY <1>3, <1>4, <1>6, <1>7
  <1>18. MovesSuppl(t, b, f, f2, new, hasSuppl[f.a])
    BY <1>1, <1>3, <1>10, <1>13, <1>14, <1>15, <1>17 DEF MovesSuppl
  <1>19. hasSuppl[f.a] \in BOOLEAN
    BY <1>2, <1>7
  <1> QED
    BY <1>16, <1>18, <1>19, StaySuppl

-----------------------------------------------------------------------------
(* The meta thread sets what an actor refers to *)

\* While it does, only calls that do not look at that are for the same actor.
LEMMA RebindAlone ==
    ASSUME TypeOK, StackInv, BaseInv, NEW t \in Thread, stack[t] # <<>>,
           stack[t][Len(stack[t])].op = "rebind",
           NEW u \in Thread, NEW i \in DOMAIN stack[u]
    PROVE  stack[u][i].op \in {"rebind", "invalidate", "dec", "fail"} \/ stack[u][i].pc = "count"
  <1>1. Len(stack[t]) \in DOMAIN stack[t] /\ Len(stack[t]) \in Nat /\ DOMAIN stack[t] = 1 .. Len(stack[t])
    <2>1. stack[t] \in Seq(FrameType)
      BY DEF TypeOK
    <2> QED
      BY <2>1, EmptySeq, LenProperties
  <1>2. PICK n \in DOMAIN stack[t] : n = Len(stack[t]) /\ n \in Nat /\ \A j \in DOMAIN stack[t] : j <= n /\ j \in Nat /\ j > 0
    BY <1>1
  <1>3. t = Meta /\ stack[t][1].op \in {"rebind", "invalidate"} /\ (n = 1 \/ n = 2)
    BY <1>2, MetaChanges
  <1>4. CASE u = t
    <2>1. i = 1 \/ i = n
      BY <1>2, <1>3, <1>4
    <2> QED
      BY <1>2, <1>3, <1>4, <2>1
  <1>5. CASE u # t
    <2>1. u \in Worker
      BY <1>3, <1>5 DEF Thread
    <2> QED
      BY <2>1 DEF BaseInv
  <1> QED
    BY <1>4, <1>5

\* What is known where the swap is made.
RebindsAt(t, b, f) ==
    /\ b \in Seq(FrameType) /\ f \in FrameType
    /\ stack[t] = Append(b, f) /\ stack[t] # <<>> /\ Top(t) = f /\ Front(stack[t]) = b
    /\ f.a \in Actor /\ Content(f, {}, ref[f.a])
    /\ f.got \in [Actor -> Nat] /\ f.drop \in [Actor -> Nat]
    /\ ref[f.a] \in Ref[f.a] \cup {NoActor}
    /\ Len(stack[t]) = Len(b) + 1 /\ stack[t][Len(b) + 1] = f
    /\ f.op = "rebind" /\ f.pc = "swap" /\ Free(t, f) /\ countSection = NoThread
    /\ f.todo = {} /\ f.list = {} /\ f.drop = Nil /\ f.next \in Ref[f.a] \cup {NoActor}
    /\ f.got = Bag({f.next}) \/ (f.got = Nil /\ count[f.a] = 0)

LEMMA RebindFacts ==
    ASSUME Inv, NEW t \in Thread, RebindSwap(t)
    PROVE  \E b, f : RebindsAt(t, b, f)
  <1>1. stack[t] # <<>> /\ SectionFree
    BY DEF RebindSwap, At
  <1>2. PICK b, f : TopIs(t, b, f)
    BY <1>1, TopFacts
  <1>3. /\ b \in Seq(FrameType) /\ f \in FrameType
        /\ stack[t] = Append(b, f) /\ Top(t) = f /\ Front(stack[t]) = b
        /\ f.a \in Actor /\ Content(f, {}, ref[f.a]) /\ Sees(f)
        /\ f.got \in [Actor -> Nat] /\ f.drop \in [Actor -> Nat]
        /\ ref[f.a] \in Ref[f.a] \cup {NoActor}
        /\ Len(stack[t]) = Len(b) + 1 /\ stack[t][Len(b) + 1] = f
        /\ Free(t, f) \/ (f.op \in {"inc", "dec"} /\ f.pc = "count")
    BY <1>2 DEF TopIs
  <1>4. f.op = "rebind" /\ f.pc = "swap"
    BY <1>3 DEF RebindSwap, At
  <1>5. /\ f.todo = {} /\ f.list = {} /\ f.drop = Nil /\ f.next \in Ref[f.a] \cup {NoActor}
        /\ f.got = Bag({f.next}) \/ (f.got = Nil /\ count[f.a] = 0)
    BY <1>3, <1>4 DEF Content, RebindContent, Sees
  <1> QED
    BY <1>1, <1>3, <1>4, <1>5 DEF RebindsAt, SectionFree

\* Interest was lost: the new item's is let go inside sg_CountSection.
LEMMA RelockStep ==
    ASSUME Inv, NEW t \in Thread, RebindSwap(t), countSection' # countSection
    PROVE  Inv'
  <1>1. TypeOK /\ AllSee
    BY DEF Inv
  <1>2. UNCHANGED <<count, suppl, hasSuppl, failed, actorLock, handles>>
    BY DEF RebindSwap
  <1>3. PICK b, f : RebindsAt(t, b, f)
    BY RebindFacts
  <1>4. /\ b \in Seq(FrameType) /\ f \in FrameType
        /\ stack[t] = Append(b, f) /\ stack[t] # <<>> /\ Top(t) = f /\ Front(stack[t]) = b
        /\ f.a \in Actor /\ Content(f, {}, ref[f.a])
        /\ f.op = "rebind" /\ f.pc = "swap" /\ Free(t, f) /\ countSection = NoThread
        /\ f.todo = {} /\ f.list = {} /\ f.drop = Nil /\ f.next \in Ref[f.a] \cup {NoActor}
        /\ f.got = Bag({f.next}) \/ (f.got = Nil /\ count[f.a] = 0)
    BY <1>3 DEF RebindsAt
  <1>5. PICK f2 : f2 = [f EXCEPT !.got = Nil, !.pc = "relock"]
    OBVIOUS
  <1>6. PICK y : y = f.next
    OBVIOUS
  <1>7. PICK g : g = DecFrame(y)
    OBVIOUS
  <1>8. /\ count[f.a] = 0 /\ f.got # Nil /\ countSection' = t /\ ref' = ref
        /\ stack' = [stack EXCEPT ![t] = Append(Append(b, f2), g)]
    BY <1>1, <1>4, <1>5, <1>6, <1>7 DEF RebindSwap, Call, TypeOK
  <1>9. t = Meta
    BY <1>4 DEF Free
  <1>10. f.got = Bag({y}) /\ y \in Actor /\ y \in Under(f.a)
    <2>1. f.got = Bag({f.next})
      BY <1>4, <1>8
    <2>2. f.next # NoActor
      <3> SUFFICES ASSUME f.next = NoActor PROVE FALSE
        OBVIOUS
      <3>1. \A x \in Actor : x \notin {f.next}
        BY InterestAssumption
      <3>2. Bag({f.next}) = Nil
        BY <3>1 DEF Bag, Nil
      <3> QED
        BY <1>8, <2>1, <3>2
    <2> QED
      BY <1>4, <1>6, <2>1, <2>2, UnderFacts
  <1>11. /\ f2.op = f.op /\ f2.a = f.a /\ f2.got = Nil /\ f2.list = f.list /\ f2.pc = "relock"
         /\ f2.todo = f.todo /\ f2.next = f.next /\ f2.drop = f.drop /\ f2 \in FrameType
    BY <1>4, <1>5, BagTypes DEF FrameType
  <1>12. g.a = y /\ g.op = "dec" /\ g.pc = "count" /\ Asks(g) = {} /\ g \in {IncFrame(y), DecFrame(y)}
    BY <1>7 DEF DecFrame, Frame, Asks
  <1>13. Content(f2, Asks(g), ref[f.a])
    <2>1. \A x \in Actor : f2.got[x] = 0 /\ f2.drop[x] = 0
      BY <1>4, <1>11, BagTypes
    <2> QED
      BY <1>4, <1>11, <1>12, <2>1 DEF Content, RebindContent
  <1>14. Calls(f2, g) /\ ~Locked(f2) /\ ~Observing(f)
    BY <1>4, <1>10, <1>11, <1>12 DEF Calls, Locked, Observing
  <1>15. ASSUME NEW x \in Actor PROVE DebtTo(f2, ref, x) + DebtTo(g, ref, x) = DebtTo(f, ref, x)
    <2>1. \A refs : \A z \in Actor : DebtTo(g, refs, z) = IF g.op = "inc" THEN 0 ELSE In(z, {y})
      BY <1>10, <1>12, NewFrames
    <2>2. DebtTo(g, ref, x) = In(x, {y}) /\ In(x, {y}) \in Nat /\ In(x, {}) = 0
      BY <1>12, <2>1 DEF In
    <2>3. f.got[x] = In(x, {y}) /\ Nil[x] = 0
      BY <1>10, BagTypes
    <2> QED
      BY <1>4, <1>11, <2>2, <2>3 DEF DebtTo
  <1>16. CallsOut(t, b, f, f2, y, g)
    BY <1>4, <1>8, <1>10, <1>11, <1>12 DEF CallsOut
  <1>17. AllSee'
    <2>1. g \in FrameType
      BY <1>10, <1>12, NewFrames
    <2>2. PICK s2, n : CalledOn(t, b, f, f2, g, s2, n)
      BY <1>1, <1>4, <1>8, <1>11, <2>1, CallOn
    <2>3. Kept(t, s2, n) /\ s2 # <<>> /\ Last(s2) = g
      BY <2>2 DEF CalledOn
    <2>4. stack'[t] = s2 /\ \A u \in Thread \ {t} : stack'[u] = stack[u]
      BY <1>1, <2>3, KeptFacts
    <2>5. At(Meta, "dec", "count")'
      BY <1>9, <1>12, <2>3, <2>4 DEF At, Top
    <2>6. ASSUME NEW u \in Thread, NEW i \in DOMAIN stack'[u]
          PROVE  Sees(stack[u][i])'
      <3>1. CASE u = t /\ i \in n + 1 .. Len(s2) /\ stack'[u][i] = s2[i]
        <4>1. s2[i] = f2 \/ s2[i] = g
          BY <2>2, <3>1 DEF CalledOn
        <4> QED
          BY <1>4, <1>8, <1>9, <1>11, <1>12, <3>1, <4>1 DEF Sees
      <3>2. CASE i \in DOMAIN stack[u] /\ stack'[u][i] = stack[u][i]
        <4>1. Sees(stack[u][i])
          BY <1>1, <3>2 DEF AllSee
        <4> QED
          BY <1>2, <1>8, <1>9, <3>2, <4>1 DEF Sees
      <3> QED
        BY <1>1, <2>3, <3>1, <3>2, KeptFrames
    <2> QED
      BY <1>8, <1>9, <2>5, <2>6 DEF AllSee
  <1>18. /\ (Locked(f2) => Locked(f)) /\ (Observing(f) => Observing(f2)) /\ Free(t, f)
         /\ (g.op = "inc" => t = Meta) /\ countSection' \in Thread \cup {NoThread}
         /\ UNCHANGED <<count, suppl, hasSuppl, failed, ref, actorLock, handles>>
    BY <1>2, <1>4, <1>8, <1>9, <1>14
  <1> QED
    BY <1>13, <1>14, <1>15, <1>16, <1>17, <1>18, CallMost

\* The swap; no call that stops interest has still to read mc_RefItem.
LEMMA SwapStep ==
    ASSUME Inv, NEW t \in Thread, RebindSwap(t), countSection' = countSection, ~Misread
    PROVE  Inv'
  <1>1. /\ TypeOK /\ Balanced /\ StackInv /\ BaseInv /\ LockInv /\ AllSee /\ SupplInv /\ Observed
    BY DEF Inv
  <1>2. UNCHANGED <<count, suppl, hasSuppl, failed, actorLock, countSection, handles>>
    BY DEF RebindSwap
  <1>0. PICK b, f : RebindsAt(t, b, f)
    BY RebindFacts
  <1>3. /\ b \in Seq(FrameType) /\ f \in FrameType
        /\ stack[t] = Append(b, f) /\ stack[t] # <<>> /\ Top(t) = f /\ Front(stack[t]) = b
        /\ f.a \in Actor /\ Content(f, {}, ref[f.a])
        /\ f.got \in [Actor -> Nat] /\ f.drop \in [Actor -> Nat]
        /\ ref[f.a] \in Ref[f.a] \cup {NoActor}
        /\ Len(stack[t]) = Len(b) + 1 /\ stack[t][Len(b) + 1] = f
    BY <1>0 DEF RebindsAt
  <1>4. f.op = "rebind" /\ f.pc = "swap" /\ Free(t, f) /\ countSection = NoThread
    BY <1>0 DEF RebindsAt
  <1>5. /\ f.todo = {} /\ f.list = {} /\ f.drop = Nil /\ f.next \in Ref[f.a] \cup {NoActor}
        /\ f.got = IF count[f.a] = 0 THEN Nil ELSE Bag({f.next})
    <2>1. ~ (count[f.a] = 0 /\ f.got # Nil)
      BY <1>2, <1>3, <1>4, InterestAssumption DEF RebindSwap
    <2> QED
      BY <1>0, <2>1 DEF RebindsAt
  <1>6. PICK f2 : f2 = IF count[f.a] = 0 THEN [f EXCEPT !.got = Nil, !.pc = "waste"]
                       ELSE [[f EXCEPT !.got = Nil, !.pc = "waste"] EXCEPT !.drop = Bag({ref[f.a]})]
    OBVIOUS
  <1>7. /\ stack' = [stack EXCEPT ![t] = Append(b, f2)] /\ countSection' = countSection
        /\ ref' = [ref EXCEPT ![f.a] = f.next]
    BY <1>1, <1>3, <1>5, <1>6 DEF RebindSwap, Goto, TypeOK
  <1>8. /\ f2.op = f.op /\ f2.a = f.a /\ f2.got = Nil /\ f2.list = f.list /\ f2.pc = "waste"
        /\ f2.todo = f.todo /\ f2.next = f.next
        /\ f2.drop = IF count[f.a] = 0 THEN Nil ELSE Bag({ref[f.a]})
        /\ f2 \in FrameType
    BY <1>3, <1>5, <1>6, BagTypes DEF FrameType
  <1>9. PICK s2, n : Stayed(t, b, f, f2, s2, n)
    BY <1>1, <1>3, <1>7, <1>8, Stay
  <1>10. Kept(t, s2, n) /\ s2 = Append(b, f2) /\ stack[t][Len(stack[t])] = f
    BY <1>9 DEF Stayed
  <1>11. ref'[f.a] = f.next /\ \A c \in Actor \ {f.a} : ref'[c] = ref[c]
    BY <1>1, <1>3, <1>7 DEF TypeOK
  <1>12. \A u \in Thread : \A i \in DOMAIN stack[u] :
            stack[u][i].op \in {"rebind", "invalidate", "dec", "fail"} \/ stack[u][i].pc = "count"
    BY <1>1, <1>3, <1>4, <1>10, RebindAlone
  <1>13. \A u \in Thread : \A i \in DOMAIN stack[u] :
            stack[u][i].op = "dec" /\ stack[u][i].pc \in {"units", "parent", "calc"}
            => ref'[stack[u][i].a] = ref[stack[u][i].a]
    <2> SUFFICES ASSUME NEW u \in Thread, NEW i \in DOMAIN stack[u],
                        stack[u][i].op = "dec", stack[u][i].pc \in {"units", "parent", "calc"},
                        NEW a \in Actor, stack[u][i].a = a, ref'[a] # ref[a]
                 PROVE  FALSE
      BY <1>1, StackFacts DEF FrameType
    <2>1. stack[u][i] \in InProgress(a)
      BY DEF InProgress, ToSet
    <2> QED
      BY <2>1 DEF Misread, Stopping
  <1>14. TypeOK'
    <2>1. stack' \in [Thread -> Seq(FrameType)]
      BY <1>1, <1>10, KeptFacts
    <2>2. NoActor \notin Actor /\ Ref[f.a] \subseteq Actor \cup {NoActor}
      BY <1>3, InterestAssumption
    <2>3. ref' \in [Actor -> Actor \cup {NoActor}]
      BY <1>1, <1>5, <1>7, <2>2 DEF TypeOK
    <2>4. \A a \in Actor : ref'[a] \in Ref[a] \cup {NoActor}
      BY <1>1, <1>5, <1>11 DEF TypeOK
    <2> QED
      BY <1>1, <1>2, <1>7, <2>1, <2>3, <2>4 DEF TypeOK
  <1>15. StackInv'
    <2>1. ASSUME NEW u \in Thread PROVE Stacked(stack[u], ref')
      <3>1. ASSUME NEW i \in DOMAIN stack[u]
            PROVE  Content(stack[u][i], Gaining(stack[u], i), ref'[stack[u][i].a])
        <4>1. Content(stack[u][i], Gaining(stack[u], i), ref[stack[u][i].a])
          BY <1>1, StackFacts
        <4>2. CASE stack[u][i].op # "inc"
          BY <4>1, <4>2 DEF Content
        <4>3. CASE stack[u][i].op = "inc"
          <5>1. stack[u][i].pc = "count"
            BY <1>12, <4>3
          <5> QED
            BY <4>1, <4>3, <5>1 DEF Content, IncContent
        <4> QED
          BY <4>2, <4>3
      <3> QED
        BY <1>1, <3>1 DEF StackInv, Stacked
    <2>2. Content(f2, {}, ref'[f.a])
      <3>1. ref[f.a] = NoActor \/ ref[f.a] \in Under(f.a)
        BY <1>3, UnderFacts
      <3>2. \A x \in Actor : f2.drop[x] > 0 => x \in Under(f.a)
        BY <1>3, <1>8, <3>1, InterestAssumption DEF Nil, Bag
      <3>3. \A x \in Actor : f2.got[x] = 0
        BY <1>8 DEF Nil
      <3> QED
        BY <1>4, <1>5, <1>8, <3>2, <3>3, SMTT(30) DEF Content, RebindContent
    <2>3. Stacked(s2, ref')
      <3>1. Carries(b, f, ref')
        BY <1>3, <2>1, StackedSplit
      <3>2. Carries(b, f2, ref')
        BY <1>3, <1>8, <3>1, CarriesSame
      <3> QED
        BY <1>3, <1>8, <1>10, <2>2, <3>2, StackedSplit
    <2>4. stack'[t] = s2 /\ \A u \in Thread \ {t} : stack'[u] = stack[u]
      BY <1>1, <1>10, KeptFacts
    <2>5. \A u \in Thread : Stacked(stack'[u], ref')
      BY <2>1, <2>3, <2>4
    <2> QED
      BY <2>5 DEF StackInv
  <1>16. Balanced'
    <2>1. ASSUME NEW u \in Thread, NEW x \in Actor
          PROVE  Debts(stack[u], ref', x) = Debts(stack[u], ref, x)
      <3>1. \A i \in DOMAIN stack[u] : stack[u][i].op = "dec" /\ stack[u][i].pc \in {"units", "parent", "calc"} =>
                                         ref'[stack[u][i].a] = ref[stack[u][i].a]
        BY <1>13
      <3>2. stack[u] \in Seq(FrameType)
        BY <1>1 DEF TypeOK
      <3> QED
        BY <3>1, <3>2, DebtsSame
    <2>2. stack'[t] = s2 /\ \A u \in Thread \ {t} : stack'[u] = stack[u]
      BY <1>1, <1>10, KeptFacts
    <2>3. \A u \in Thread \ {t} : \A x \in Actor : Owe(u, x)' = Owe(u, x)
      BY <1>2, <2>1, <2>2 DEF Owe
    <2>4. \A c \in Actor \ {f.a} : \A x \in Actor : Hold(c, x)' = Hold(c, x)
      BY <1>2, <1>11 DEF Hold
    <2>5. ASSUME NEW x \in Actor
          PROVE  count'[x] + Owe(t, x) + Hold(f.a, x) = count[x] + Owe(t, x)' + Hold(f.a, x)'
      <3>1. PICK c, h \in Nat : c = count[x] /\ h = handles[t][x]
        BY <1>1, OweType DEF TypeOK
      <3>2. PICK d \in Nat : d = Debts(b, ref, x)
        BY <1>3, DebtsAppend
      <3>3. PICK k, p, q, r \in Nat :
               /\ k = In(x, suppl[f.a]) /\ p = In(x, Units[f.a]) + In(x, Parent[f.a]) + In(x, Calc[f.a])
               /\ q = In(x, {ref[f.a]}) /\ r = In(x, {f.next})
        BY DEF In
      <3>4. Debts(stack[t], ref, x) = d + DebtTo(f, ref, x)
        BY <1>3, <3>2, DebtsAppend
      <3>5. Debts(s2, ref', x) = d + DebtTo(f2, ref', x)
        <4>1. Debts(stack[t], ref', x) = Debts(b, ref', x) + DebtTo(f, ref', x)
          BY <1>3, DebtsAppend
        <4>2. Debts(s2, ref', x) = Debts(b, ref', x) + DebtTo(f2, ref', x)
          BY <1>3, <1>8, <1>10, DebtsAppend
        <4>3. DebtTo(f, ref', x) = DebtTo(f, ref, x) /\ DebtTo(f, ref, x) \in Nat
          BY <1>3, <1>4, DebtType DEF DebtTo
        <4>4. Debts(b, ref', x) \in Nat
          BY <1>3, DebtsAppend
        <4>5. Debts(b, ref', x) = d
          BY <2>1, <3>2, <3>4, <4>1, <4>3, <4>4
        <4> QED
          BY <4>2, <4>5
      <3>6. Owe(t, x) = h + (d + DebtTo(f, ref, x)) /\ Owe(t, x)' = h + (d + DebtTo(f2, ref', x))
        BY <1>2, <2>2, <3>1, <3>4, <3>5 DEF Owe
      <3>7. In(x, {}) = 0 /\ Nil[x] = 0 /\ Bag({ref[f.a]})[x] = q /\ Bag({f.next})[x] = r
        BY <3>3 DEF In, Nil, Bag
      <3>8. CASE count[f.a] = 0
        <4>1. DebtTo(f, ref, x) = 0 /\ DebtTo(f2, ref', x) = 0
          BY <1>4, <1>5, <1>8, <3>7, <3>8 DEF DebtTo
        <4>2. Hold(f.a, x) = k + 0 /\ Hold(f.a, x)' = k + 0
          BY <1>2, <3>3, <3>8 DEF Hold
        <4> QED
          BY <1>2, <3>1, <3>6, <4>1, <4>2
      <3>9. CASE count[f.a] # 0
        <4>1. DebtTo(f, ref, x) = r /\ DebtTo(f2, ref', x) = q
          BY <1>4, <1>5, <1>8, <3>3, <3>7, <3>9 DEF DebtTo
        <4>2. Hold(f.a, x) = k + (p + q) /\ Hold(f.a, x)' = k + (p + r)
          BY <1>2, <1>11, <3>3, <3>9 DEF Hold
        <4>3. Owe(t, x) = h + (d + r) /\ Owe(t, x)' = h + (d + q) /\ count[x] = c /\ count'[x] = c
          BY <1>2, <3>1, <3>6, <4>1
        <4>4. c + (h + (d + r)) + (k + (p + q)) = c + (h + (d + q)) + (k + (p + r))
          OBVIOUS
        <4> QED
          BY ONLY <4>2, <4>3, <4>4
      <3> QED
        BY <3>8, <3>9
    <2>6. PICK a \in Actor : a = f.a
      BY <1>3
    <2>7. \A c \in Actor \ {a} : \A x \in Actor : Hold(c, x)' = Hold(c, x)
      BY <2>4, <2>6
    <2>8. \A x \in Actor : count'[x] + Owe(t, x) + Hold(a, x) = count[x] + Owe(t, x)' + Hold(a, x)'
      BY <2>5, <2>6
    <2> QED
      BY ONLY <1>1, <1>14, <2>3, <2>7, <2>8, BalanceStep
  <1>17. BaseInv'
    BY <1>1, <1>2, <1>4, <1>9, <1>10, BaseStep DEF Stayed, Free
  <1>18. LockInv'
    <2>1. \A i \in n + 1 .. Len(s2) : ~Locked(s2[i])
      BY <1>4, <1>8, <1>9 DEF Stayed, Locked
    <2> QED
      BY <1>1, <1>2, <1>10, <2>1, LockSame
  <1>19. AllSee'
    <2>1. \A i \in n + 1 .. Len(s2) : Sees(s2[i])'
      BY <1>4, <1>8, <1>9 DEF Stayed, Sees
    <2> QED
      BY <1>1, <1>2, <1>4, <1>10, <1>14, <2>1, SeeStep
  <1>20. SupplInv'
    BY <1>1, <1>2 DEF SupplInv
  <1>21. Observed'
    <2>1. \A i \in n + 1 .. Len(stack[t]) : ~Observing(stack[t][i])
      BY <1>4, <1>9 DEF Stayed, Observing
    <2> QED
      BY <1>1, <1>2, <1>10, <2>1, ObservedStep
  <1> QED
    BY <1>14, <1>15, <1>16, <1>17, <1>18, <1>19, <1>20, <1>21 DEF Inv

LEMMA RebindSwapStep ==
    ASSUME Inv, NEW t \in Thread, RebindSwap(t), ~Misread
    PROVE  Inv'
  BY RelockStep, SwapStep

-----------------------------------------------------------------------------
(* Calls that let interest go, and end *)

LEMMA LeaveStacked ==
    ASSUME TypeOK, StackInv, NEW t \in Thread, NEW b \in Seq(FrameType), NEW f \in FrameType,
           stack[t] = Append(b, f), f.op # "inc"
    PROVE  Stacked(b, ref)
  <1>1. CASE b = <<>>
    <2>1. DOMAIN b = {}
      BY <1>1
    <2> QED
      BY <2>1 DEF Stacked
  <1>2. CASE b # <<>>
    <2>1. PICK b0 \in Seq(FrameType), c \in FrameType : b = Append(b0, c)
      BY <1>2, SplitStack
    <2>2. Carries(b0, c, ref) /\ Content(c, Asks(f), ref[c.a])
      BY <2>1, CallerFacts
    <2>3. Asks(f) = {}
      BY DEF Asks
    <2> QED
      BY <2>1, <2>2, <2>3, StackedSplit
  <1> QED
    BY <1>1, <1>2

\* The innermost call ends; count is what it is without the interest that the call had.
Ends(t, b, f) ==
    /\ b \in Seq(FrameType) /\ f \in FrameType
    /\ stack[t] = Append(b, f) /\ stack' = [stack EXCEPT ![t] = b]
    /\ f.op # "inc" /\ ~Observing(f) /\ Free(t, f)
    /\ UNCHANGED <<suppl, hasSuppl, failed, ref, countSection, handles>>
    /\ count' \in [Actor -> Nat]
    /\ \A a \in Actor : count'[a] = 0 <=> count[a] = 0
    /\ \A a \in Actor \ {f.a} : count'[a] = count[a]
    /\ \A x \in Actor : count'[x] + DebtTo(f, ref, x) = count[x]
    /\ \/ Locked(f) /\ actorLock' = [actorLock EXCEPT ![f.a] = NoThread]
       \/ ~Locked(f) /\ actorLock' = actorLock

LEMMA EndStep ==
    ASSUME Inv, NEW t \in Thread, NEW b, NEW f, Ends(t, b, f)
    PROVE  Inv'
  <1>1. /\ TypeOK /\ Balanced /\ StackInv /\ BaseInv /\ LockInv /\ AllSee /\ SupplInv /\ Observed
    BY DEF Inv
  <1>2. /\ b \in Seq(FrameType) /\ f \in FrameType
        /\ stack[t] = Append(b, f) /\ stack' = [stack EXCEPT ![t] = b]
        /\ f.op # "inc" /\ ~Observing(f) /\ Free(t, f)
        /\ UNCHANGED <<suppl, hasSuppl, failed, ref, countSection, handles>>
        /\ count' \in [Actor -> Nat]
        /\ \A a \in Actor : count'[a] = 0 <=> count[a] = 0
        /\ \A a \in Actor \ {f.a} : count'[a] = count[a]
        /\ \A x \in Actor : count'[x] + DebtTo(f, ref, x) = count[x]
    BY DEF Ends
  <1>3. \/ Locked(f) /\ actorLock' = [actorLock EXCEPT ![f.a] = NoThread]
        \/ ~Locked(f) /\ actorLock' = actorLock
    BY DEF Ends
  <1>4. PICK n : Left(t, b, f, n)
    BY <1>1, <1>2, Leave
  <1>5. Kept(t, b, n) /\ n < Len(stack[t]) /\ f.a \in Actor /\ stack[t] # <<>>
    BY <1>2, <1>4 DEF Left, FrameType
  <1>6. TypeOK'
    <2>1. actorLock' \in [Actor -> Thread \cup {NoThread}]
      BY <1>1, <1>3 DEF TypeOK
    <2> QED
      BY <1>1, <1>2, <1>5, <2>1, TypeStep DEF TypeOK
  <1>7. StackInv'
    <2>1. Stacked(b, ref)
      BY <1>1, <1>2, LeaveStacked
    <2> QED
      BY <1>1, <1>2, <2>1, StackStep
  <1>8. Balanced'
    <2>1. PICK a \in Actor : a = f.a
      BY <1>5
    <2>2. \A x \in Actor : Hold(a, x)' = Hold(a, x)
      BY <1>2 DEF Hold
    <2>3. ASSUME NEW x \in Actor
          PROVE  count'[x] + handles[t][x] + Debts(stack[t], ref, x) + Hold(a, x)
                 = count[x] + handles'[t][x] + Debts(b, ref, x) + Hold(a, x)'
      <3>1. PICK c, c2, h \in Nat : c = count[x] /\ c2 = count'[x] /\ h = handles[t][x]
        BY <1>1, <1>2, OweType DEF TypeOK
      <3>2. PICK d, e, k \in Nat : d = Debts(b, ref, x) /\ e = DebtTo(f, ref, x) /\ k = Hold(a, x)
        BY <1>2, DebtsAppend, DebtType, HoldType
      <3>3. Debts(stack[t], ref, x) = d + e
        BY <1>2, <3>2, DebtsAppend
      <3>4. c2 + e = c /\ Hold(a, x)' = k /\ handles'[t][x] = h
        BY <1>2, <2>2, <3>1, <3>2
      <3>5. c2 + h + (d + e) + k = c + h + d + k
        BY ONLY <3>4
      <3> QED
        BY ONLY <3>1, <3>2, <3>3, <3>4, <3>5
    <2>4. /\ \A u \in Thread \ {t} : handles'[u] = handles[u]
          /\ \A c \in Actor \ {a} : count'[c] = count[c] /\ suppl'[c] = suppl[c]
          /\ ref' = ref /\ stack' = [stack EXCEPT ![t] = b]
      BY <1>2, <2>1
    <2> QED
      BY ONLY <1>1, <1>6, <2>3, <2>4, Balance
  <1>9. BaseInv'
    <2>1. \A i : i \notin n + 1 .. Len(b)
      BY <1>4 DEF Left
    <2> QED
      BY <1>1, <1>2, <1>4, <1>5, <2>1, BaseStep DEF Left
  <1>10. LockInv'
    <2>1. \A i : i \notin n + 1 .. Len(b)
      BY <1>4 DEF Left
    <2>2. CASE ~Locked(f) /\ actorLock' = actorLock
      BY <1>1, <1>2, <1>5, <2>1, <2>2, LockSame
    <2>3. CASE Locked(f) /\ actorLock' = [actorLock EXCEPT ![f.a] = NoThread]
      <3>1. stack[t][Len(stack[t])] = f
        BY <1>4 DEF Left
      <3>2. PICK a \in Actor : a = f.a
        BY <1>5
      <3>3. GivesLock(t, b, n, a)
        BY <1>2, <1>5, <2>1, <2>3, <3>1, <3>2 DEF GivesLock
      <3> QED
        BY <1>1, <1>5, <3>3, LockGive
    <2> QED
      BY <1>3, <2>2, <2>3
  <1>11. AllSee'
    <2>1. \A i : i \notin n + 1 .. Len(b)
      BY <1>4 DEF Left
    <2>2. \A u \in Thread : \A i \in DOMAIN stack[u] : stack[u][i].a \in Actor
      BY <1>1, StackFacts DEF FrameType
    <2> QED
      BY <1>1, <1>2, <1>5, <1>6, <2>1, <2>2, SeeStep DEF Free
  <1>12. SupplInv'
    BY <1>1, <1>2 DEF SupplInv
  <1>13. Observed'
    <2>1. \A i \in n + 1 .. Len(stack[t]) : ~Observing(stack[t][i])
      BY <1>2, <1>4 DEF Left
    <2> QED
      BY <1>1, <1>2, <1>5, <2>1, ObservedStep
  <1> QED
    BY <1>6, <1>7, <1>8, <1>9, <1>10, <1>11, <1>12, <1>13 DEF Inv

LEMMA ReleaseEndStep ==
    ASSUME Inv, NEW t \in Thread, ReleaseEnd(t)
    PROVE  Inv'
  <1>1. stack[t] # <<>> /\ UNCHANGED <<count, suppl, hasSuppl, failed, ref, countSection, handles>>
    BY DEF ReleaseEnd, IsIdle
  <1>0. PICK b, f : TopIs(t, b, f)
    BY <1>1, TopFacts
  <1>2. /\ b \in Seq(FrameType) /\ f \in FrameType /\ f.a \in Actor
        /\ stack[t] = Append(b, f) /\ Top(t) = f /\ Below(t) = b /\ Content(f, {}, ref[f.a])
        /\ Free(t, f) \/ (f.op \in {"inc", "dec"} /\ f.pc = "count")
    BY <1>0 DEF TopIs
  <1>3. /\ f.pc = "waste" /\ f.drop = Nil
        /\ stack' = [stack EXCEPT ![t] = b]
        /\ actorLock' = IF f.op = "restart" THEN [actorLock EXCEPT ![f.a] = NoThread] ELSE actorLock
    BY <1>2 DEF ReleaseEnd
  <1>4. f.list = {} /\ f.got = Nil /\ f.op # "inc"
    BY <1>2, <1>3 DEF Content, IncContent, DecContent, RebindContent, RestContent
  <1>5. ~Observing(f) /\ (Locked(f) <=> f.op = "restart")
    BY <1>3, <1>4 DEF Observing, Locked
  <1>6. count \in [Actor -> Nat]
    BY DEF Inv, TypeOK
  <1>7. ASSUME NEW x \in Actor PROVE count'[x] + DebtTo(f, ref, x) = count[x]
    <2>1. DebtTo(f, ref, x) = 0
      <3>1. f.got[x] = 0 /\ f.drop[x] = 0 /\ In(x, f.list) = 0
        BY <1>3, <1>4 DEF Nil, In
      <3> QED
        BY <1>3, <3>1 DEF DebtTo
    <2> QED
      BY <1>1, <1>6, <2>1
  <1>8. Ends(t, b, f)
    BY <1>1, <1>2, <1>3, <1>4, <1>5, <1>6, <1>7 DEF Ends
  <1> QED
    BY <1>8, EndStep

\* A call that has not let go of its interest yet sees it: the assertion of DecInterestCount.
LEMMA DecSees ==
    ASSUME Inv, NEW t \in Thread, NEW i \in DOMAIN stack[t],
           stack[t][i].op = "dec", stack[t][i].pc \in {"count", "lock"}
    PROVE  count[stack[t][i].a] > 0 /\ count[stack[t][i].a] \in Nat
  <1>1. TypeOK /\ StackInv /\ Balanced
    BY DEF Inv
  <1>2. PICK f \in FrameType : f = stack[t][i]
    BY <1>1, StackFacts
  <1>3. PICK a \in Actor : a = f.a
    BY DEF FrameType
  <1>4. f.got[a] \in Nat /\ f.drop[a] \in Nat /\ In(a, f.list) \in Nat /\ In(a, {f.a}) = 1
    BY <1>3 DEF In, FrameType
  <1>5. DebtTo(f, ref, a) >= 1
    BY <1>2, <1>4 DEF DebtTo
  <1>6. DebtTo(stack[t][i], ref, a) <= Owe(t, a) /\ Owe(t, a) \in Nat
    BY <1>1, OweType
  <1>7. Owe(t, a) <= count[a] /\ count[a] \in Nat
    BY <1>1, CountCovers
  <1>8. DebtTo(f, ref, a) \in Nat
    BY DebtType
  <1> QED
    BY <1>2, <1>3, <1>5, <1>6, <1>7, <1>8

\* What another thread than the meta thread copies has interest.
LEMMA CopySees ==
    ASSUME Inv, NEW t \in Thread, t # Meta, NEW i \in DOMAIN stack[t], stack[t][i].op = "inc"
    PROVE  i = 1 /\ stack[t][i].pc = "count" /\ count[stack[t][i].a] > 0
  <1>1. TypeOK /\ StackInv /\ BaseInv /\ Balanced
    BY DEF Inv
  <1>2. i = 1 /\ stack[t][i].pc = "count" /\ handles[t][stack[t][i].a] > 0
    BY <1>1 DEF BaseInv, Thread
  <1>3. PICK a \in Actor : a = stack[t][i].a
    BY <1>1, StackFacts DEF FrameType
  <1>4. Owe(t, a) <= count[a] /\ count[a] \in Nat
    BY <1>1, CountCovers
  <1>5. Debts(stack[t], ref, a) \in Nat /\ handles[t][a] \in Nat
    <2>1. stack[t] \in Seq(FrameType) /\ handles[t][a] \in 0 .. MaxHandles
      BY <1>1 DEF TypeOK
    <2> QED
      BY <2>1, DebtsBound
  <1> QED
    BY <1>2, <1>3, <1>4, <1>5 DEF Owe

\* One of several lets go.
LEMMA DecOneStep ==
    ASSUME Inv, NEW t \in Thread, NEW b, NEW f, TopIs(t, b, f),
           f.op = "dec", f.pc \in {"count", "lock"}, SectionFree, count[f.a] # 1,
           count' = [count EXCEPT ![f.a] = @ - 1], stack' = [stack EXCEPT ![t] = b],
           UNCHANGED <<suppl, hasSuppl, failed, ref, actorLock, countSection, handles>>
    PROVE  Inv'
  <1>1. /\ b \in Seq(FrameType) /\ f \in FrameType /\ f.a \in Actor /\ stack[t] = Append(b, f)
        /\ Content(f, {}, ref[f.a]) /\ Len(b) + 1 \in DOMAIN stack[t] /\ stack[t][Len(b) + 1] = f
        /\ Free(t, f)
    BY DEF TopIs
  <1>2. PICK i \in DOMAIN stack[t] : stack[t][i] = f
    BY <1>1
  <1>3. count[f.a] \in Nat /\ count[f.a] > 1
    <2>1. count[f.a] > 0 /\ count[f.a] \in Nat
      BY <1>2, DecSees
    <2> QED
      BY <2>1
  <1>4. count \in [Actor -> Nat]
    BY DEF Inv, TypeOK
  <1>5. count' \in [Actor -> Nat] /\ count'[f.a] = count[f.a] - 1 /\ \A a \in Actor \ {f.a} : count'[a] = count[a]
    BY <1>1, <1>3, <1>4
  <1>6. \A a \in Actor : count'[a] = 0 <=> count[a] = 0
    BY <1>3, <1>5
  <1>7. f.got = Nil /\ f.drop = Nil /\ f.list = {}
    BY <1>1 DEF Content, DecContent
  <1>8. ASSUME NEW x \in Actor PROVE count'[x] + DebtTo(f, ref, x) = count[x]
    <2>1. DebtTo(f, ref, x) = IF x = f.a THEN 1 ELSE 0
      <3>1. f.got[x] = 0 /\ f.drop[x] = 0 /\ In(x, f.list) = 0
        BY <1>7 DEF Nil, In
      <3> QED
        BY <3>1 DEF DebtTo, In
    <2> QED
      BY <1>3, <1>4, <1>5, <2>1
  <1>9. ~Observing(f) /\ ~Locked(f)
    BY DEF Observing, Locked
  <1>10. Ends(t, b, f)
    BY <1>1, <1>5, <1>6, <1>8, <1>9 DEF Ends
  <1> QED
    BY <1>10, EndStep

LEMMA DecCountStep ==
    ASSUME Inv, NEW t \in Thread, DecCount(t)
    PROVE  Inv'
  <1>1. stack[t] # <<>> /\ UNCHANGED <<suppl, hasSuppl, failed, ref, actorLock, countSection, handles>>
    BY DEF DecCount, At
  <1>0. PICK b, f : TopIs(t, b, f)
    BY <1>1, TopFacts
  <1>2. /\ b \in Seq(FrameType) /\ f \in FrameType /\ f.a \in Actor /\ Front(stack[t]) = b
        /\ stack[t] = Append(b, f) /\ Top(t) = f /\ Below(t) = b /\ Content(f, {}, ref[f.a])
        /\ Len(b) + 1 \in DOMAIN stack[t] /\ stack[t][Len(b) + 1] = f
        /\ SectionFree => Free(t, f) \/ (f.op = "inc" /\ f.pc = "count")
    BY <1>0 DEF TopIs
  <1>3. f.op = "dec" /\ f.pc = "count" /\ SectionFree /\ Free(t, f)
    BY <1>2 DEF DecCount, At
  <1>4. count[f.a] > 0 /\ count[f.a] \in Nat
    <2>1. PICK i \in DOMAIN stack[t] : stack[t][i] = f
      BY <1>2
    <2> QED
      BY <1>3, <2>1, DecSees
  <1>5. CASE count[f.a] = 1
    <2>1. PICK f2 : f2 = [f EXCEPT !.pc = "lock"]
      OBVIOUS
    <2>2. stack' = [stack EXCEPT ![t] = Append(b, f2)] /\ count' = count
      BY <1>2, <1>5, <2>1 DEF DecCount, Goto, TypeOK, Inv
    <2>3. /\ f2.op = f.op /\ f2.a = f.a /\ f2.got = f.got /\ f2.next = f.next /\ f2.todo = f.todo
          /\ f2.list = f.list /\ f2.drop = f.drop /\ f2.pc = "lock" /\ f2 \in FrameType
      BY <1>2, <2>1 DEF FrameType
    <2>4. Content(f2, {}, ref[f.a])
      BY <1>2, <1>3, <2>3 DEF Content, DecContent
    <2>5. Sees(f2) /\ (Locked(f2) => Locked(f)) /\ (Observing(f) => Observing(f2))
      BY <1>3, <2>3 DEF Sees, Locked, Observing
    <2>6. \A x \in Actor : DebtTo(f2, ref, x) = DebtTo(f, ref, x)
      BY <1>3, <2>3 DEF DebtTo
    <2>7. GoesOn(t, b, f, f2) /\ Quiet
      BY <1>1, <1>2, <2>2, <2>3 DEF GoesOn, Quiet
    <2> QED
      BY <1>3, <2>4, <2>5, <2>6, <2>7, StayQuiet
  <1>6. CASE count[f.a] # 1
    <2>1. stack' = [stack EXCEPT ![t] = b] /\ count' = [count EXCEPT ![f.a] = @ - 1]
      BY <1>2, <1>4, <1>6 DEF DecCount, ReturnDec
    <2> QED
      BY <1>0, <1>1, <1>3, <1>6, <2>1, DecOneStep
  <1> QED
    BY <1>5, <1>6

\* The last one lets go: the actor stops.
LEMMA DecLockStep ==
    ASSUME Inv, NEW t \in Thread, DecLock(t)
    PROVE  Inv'
  <1>1. /\ TypeOK /\ Balanced /\ StackInv /\ BaseInv /\ LockInv /\ AllSee /\ SupplInv /\ Observed
    BY DEF Inv
  <1>2. stack[t] # <<>> /\ UNCHANGED <<suppl, hasSuppl, failed, ref, countSection, handles>>
    BY DEF DecLock, At
  <1>0. PICK b, f : TopIs(t, b, f)
    BY <1>2, TopFacts
  <1>3. /\ b \in Seq(FrameType) /\ f \in FrameType /\ f.a \in Actor /\ Front(stack[t]) = b
        /\ stack[t] = Append(b, f) /\ Top(t) = f /\ Below(t) = b /\ Content(f, {}, ref[f.a])
        /\ Len(b) + 1 \in DOMAIN stack[t] /\ stack[t][Len(b) + 1] = f
        /\ f.got \in [Actor -> Nat] /\ f.drop \in [Actor -> Nat]
        /\ SectionFree => Free(t, f) \/ (f.op = "inc" /\ f.pc = "count")
    BY <1>0 DEF TopIs
  <1>4. f.op = "dec" /\ f.pc = "lock" /\ actorLock[f.a] = NoThread /\ SectionFree /\ Free(t, f)
    BY <1>3 DEF DecLock, At
  <1>5. count' = [count EXCEPT ![f.a] = @ - 1]
    BY <1>3 DEF DecLock
  <1>6. CASE count[f.a] # 1
    <2>1. stack' = [stack EXCEPT ![t] = b] /\ actorLock' = actorLock
      BY <1>3, <1>6 DEF DecLock, ReturnDec
    <2> QED
      BY <1>0, <1>2, <1>4, <1>5, <1>6, <2>1, DecOneStep
  <1>7. CASE count[f.a] = 1
    <2>1. PICK f2 : f2 = [f EXCEPT !.pc = "units", !.todo = Units[f.a]]
      OBVIOUS
    <2>2. stack' = [stack EXCEPT ![t] = Append(b, f2)] /\ actorLock' = [actorLock EXCEPT ![f.a] = t]
      BY <1>1, <1>3, <1>7, <2>1 DEF DecLock, Goto, TypeOK
    <2>3. Units[f.a] \in SUBSET Actor /\ Units[f.a] \subseteq Under(f.a)
      BY <1>3, UnderFacts
    <2>4. /\ f2.op = f.op /\ f2.a = f.a /\ f2.got = f.got /\ f2.next = f.next /\ f2.todo = Units[f.a]
          /\ f2.list = f.list /\ f2.drop = f.drop /\ f2.pc = "units" /\ f2 \in FrameType
      BY <1>3, <2>1, <2>3 DEF FrameType
    <2>5. f.got = Nil /\ f.drop = Nil /\ f.list = {} /\ f.todo = {}
      BY <1>3, <1>4 DEF Content, DecContent
    <2>6. PICK s2, n : Stayed(t, b, f, f2, s2, n)
      BY <1>1, <1>3, <2>2, <2>4, Stay
    <2>7. Kept(t, s2, n) /\ s2 = Append(b, f2) /\ n = Len(b) /\ n < Len(stack[t])
          /\ Len(s2) = n + 1 /\ s2[n + 1] = f2 /\ stack[t][Len(stack[t])] = f
      BY <2>6 DEF Stayed
    <2>8. PICK a \in Actor : a = f.a
      BY <1>3
    <2>9. count'[a] = 0 /\ count' \in [Actor -> Nat] /\ \A c \in Actor \ {a} : count'[c] = count[c]
      BY <1>1, <1>5, <1>7, <2>8 DEF TypeOK
    <2>10. TypeOK'
      <3>1. actorLock' \in [Actor -> Thread \cup {NoThread}]
        BY <1>1, <2>2 DEF TypeOK
      <3> QED
        BY <1>1, <1>2, <2>7, <2>9, <3>1, TypeStep DEF TypeOK
    <2>11. StackInv'
      <3>1. \A x \in Actor : Nil[x] = 0
        BY DEF Nil
      <3>2. Content(f2, {}, ref[f.a])
        BY <1>4, <2>3, <2>4, <2>5, <3>1 DEF Content, DecContent
      <3> QED
        BY <1>1, <1>2, <1>3, <2>2, <2>4, <3>2, StayStacked
    <2>12. Balanced'
      <3>1. ASSUME NEW x \in Actor
            PROVE  count'[x] + handles[t][x] + Debts(stack[t], ref, x) + Hold(a, x)
                   = count[x] + handles'[t][x] + Debts(s2, ref, x) + Hold(a, x)'
        <4>1. PICK c, c2, h \in Nat : c = count[x] /\ c2 = count'[x] /\ h = handles[t][x]
          BY <1>1, <2>9, OweType DEF TypeOK
        <4>2. PICK d \in Nat : d = Debts(b, ref, x)
          BY <1>3, DebtsAppend
        <4>3. PICK k, p, q, l, r, e \in Nat :
                 /\ k = In(x, suppl[a]) /\ p = In(x, Units[a]) /\ q = In(x, Parent[a])
                 /\ l = In(x, Calc[a]) /\ r = In(x, {ref[a]}) /\ e = In(x, {a})
          BY DEF In
        <4>4. f.got[x] = 0 /\ f.drop[x] = 0 /\ In(x, f.list) = 0
          BY <2>5 DEF Nil, In
        <4>5. DebtTo(f, ref, x) = e /\ DebtTo(f2, ref, x) = p + q + l + r
          BY <1>4, <2>4, <2>8, <4>3, <4>4 DEF DebtTo
        <4>6. Debts(stack[t], ref, x) = d + e
          BY <1>3, <4>2, <4>5, DebtsAppend
        <4>7. Debts(s2, ref, x) = d + (p + q + l + r)
          BY <1>3, <2>4, <2>7, <4>2, <4>5, DebtsAppend
        <4>8. Hold(a, x) = k + (p + q + l + r) /\ Hold(a, x)' = k
          <5>1. Hold(a, x) = k + (p + q + l + r)
            BY <1>7, <2>8, <4>3 DEF Hold
          <5>2. Hold(a, x)' = k + 0
            BY <1>2, <2>9, <4>3 DEF Hold
          <5> QED
            BY <4>3, <5>1, <5>2
        <4>9. c = c2 + e
          BY <1>1, <1>7, <2>8, <2>9, <4>1, <4>3 DEF In
        <4>10. c2 + h + (d + e) + (k + (p + q + l + r)) = c + h + (d + (p + q + l + r)) + k
          BY ONLY <4>9
        <4>11. handles'[t][x] = h
          BY <1>2, <4>1
        <4> QED
          BY ONLY <4>1, <4>6, <4>7, <4>8, <4>10, <4>11
      <3>2. /\ \A u \in Thread \ {t} : handles'[u] = handles[u]
            /\ \A c \in Actor \ {a} : count'[c] = count[c] /\ suppl'[c] = suppl[c]
            /\ ref' = ref /\ stack' = [stack EXCEPT ![t] = s2]
        BY <1>2, <2>2, <2>7, <2>9
      <3> QED
        BY ONLY <1>1, <2>10, <3>1, <3>2, Balance
    <2>13. BaseInv'
      BY <1>1, <1>2, <1>4, <2>4, <2>6, <2>7, BaseStep DEF Stayed
    <2>14. LockInv'
      <3>1. \A c \in Actor \ {a} : count[c] = 0 => count'[c] = 0
        BY <2>9
      <3>2. s2[n + 1].a = a /\ actorLock[a] = NoThread /\ actorLock' = [actorLock EXCEPT ![a] = t]
        BY <1>4, <2>2, <2>4, <2>7, <2>8
      <3> QED
        BY ONLY <1>1, <2>7, <2>9, <3>1, <3>2, LockTake
    <2>15. AllSee'
      <3>1. \A i \in n + 1 .. Len(s2) : Sees(s2[i])'
        BY <1>4, <2>4, <2>6 DEF Stayed, Sees
      <3>2. \A c \in Actor : count[c] = 0 => count'[c] = 0
        BY <1>7, <2>8, <2>9
      <3>3. \A u \in Thread : \A i \in DOMAIN stack[u] :
              stack[u][i].op \in {"rebind", "invalidate"} /\ (u = t => i \in 1 .. n) =>
                 /\ count[stack[u][i].a] = 0 => count'[stack[u][i].a] = 0
                 /\ hasSuppl'[stack[u][i].a] => hasSuppl[stack[u][i].a]
        BY <1>1, <1>2, <3>2, StackFacts DEF FrameType
      <3>4. TypeOK /\ TypeOK' /\ AllSee /\ Kept(t, s2, n) /\ countSection' = countSection
            /\ (countSection = NoThread \/ t # Meta)
        BY <1>1, <1>2, <1>4, <2>7, <2>10 DEF Free
      <3> QED
        BY ONLY <3>1, <3>3, <3>4, SeeStep
    <2>16. SupplInv'
      BY <1>1, <1>2 DEF SupplInv
    <2>17. Observed'
      <3>1. \A i \in n + 1 .. Len(stack[t]) : ~Observing(stack[t][i])
        BY <1>4, <2>6 DEF Stayed, Observing
      <3>2. \E i \in DOMAIN s2 : Observing(s2[i]) /\ s2[i].a = a
        <4>1. Observing(f2)
          BY <1>4, <2>4 DEF Observing
        <4>2. n + 1 \in DOMAIN s2
          BY <1>3, <2>4, <2>7, AppendFacts
        <4> QED
          BY <2>4, <2>7, <2>8, <4>1, <4>2
      <3>3. \A c \in Actor : hasSuppl'[c] /\ count'[c] = 0 =>
               (hasSuppl[c] /\ count[c] = 0) \/ \E i \in DOMAIN s2 : Observing(s2[i]) /\ s2[i].a = c
        BY <1>2, <2>9, <3>2
      <3>4. \A i \in n + 1 .. Len(stack[t]) : Observing(stack[t][i]) =>
              \/ ~hasSuppl'[stack[t][i].a] \/ count'[stack[t][i].a] # 0
              \/ i \in DOMAIN s2 /\ Observing(s2[i]) /\ s2[i].a = stack[t][i].a
        BY <3>1
      <3>5. TypeOK /\ Observed /\ Kept(t, s2, n)
        BY <1>1, <2>7
      <3> QED
        BY ONLY <3>3, <3>4, <3>5, ObservedStep
    <2> QED
      BY <2>10, <2>11, <2>12, <2>13, <2>14, <2>15, <2>16, <2>17 DEF Inv
  <1> QED
    BY <1>6, <1>7

\* What a stopping call has moved out is let go once the lock is given back.
LEMMA UnlockWaste ==
    ASSUME Inv, NEW t \in Thread, NEW b, NEW f, NEW f2, GoesOn(t, b, f, f2), Free(t, f),
           f.op = "dec", f.pc = "unlock", f2 = [f EXCEPT !.pc = "waste"],
           actorLock' = [actorLock EXCEPT ![f.a] = NoThread],
           UNCHANGED <<count, suppl, hasSuppl, failed, ref, countSection, handles>>
    PROVE  Inv'
  <1>1. /\ TypeOK /\ Balanced /\ StackInv /\ BaseInv /\ LockInv /\ AllSee /\ SupplInv /\ Observed
    BY DEF Inv
  <1>2. /\ b \in Seq(FrameType) /\ f \in FrameType /\ f2 \in FrameType
        /\ stack[t] = Append(b, f) /\ stack' = [stack EXCEPT ![t] = Append(b, f2)]
        /\ f2.op = f.op /\ f2.a = f.a
    BY DEF GoesOn
  <1>3. /\ f2.pc = "waste" /\ f2.got = f.got /\ f2.todo = f.todo /\ f2.list = f.list /\ f2.drop = f.drop
    BY <1>2 DEF FrameType
  <1>4. PICK s2, n : Stayed(t, b, f, f2, s2, n)
    BY <1>1, <1>2, Stay
  <1>5. Kept(t, s2, n) /\ n < Len(stack[t]) /\ s2 = Append(b, f2) /\ stack[t] # <<>>
        /\ stack[t][Len(stack[t])] = f
    BY <1>4 DEF Stayed
  <1>6. Stacked(Append(b, f), ref)
    BY <1>1, <1>2 DEF StackInv
  <1>7. Content(f, {}, ref[f.a])
    BY <1>2, <1>6, StackedSplit
  <1>8. TypeOK'
    <2>1. actorLock' \in [Actor -> Thread \cup {NoThread}]
      BY <1>1 DEF TypeOK
    <2> QED
      BY <1>1, <1>5, <2>1, TypeStep DEF TypeOK
  <1>9. StackInv'
    <2>1. Content(f2, {}, ref[f.a])
      BY <1>2, <1>3, <1>7 DEF Content, DecContent
    <2> QED
      BY <1>1, <1>2, <2>1, StayStacked
  <1>10. Balanced'
    <2>1. ASSUME NEW x \in Actor PROVE Debts(s2, ref, x) = Debts(stack[t], ref, x)
      <3>1. DebtTo(f2, ref, x) = DebtTo(f, ref, x)
        BY <1>2, <1>3 DEF DebtTo
      <3> QED
        BY <1>2, <1>5, <3>1, DebtsAppend
    <2>2. stack' = [stack EXCEPT ![t] = s2] /\ UNCHANGED <<count, suppl, ref, handles>>
      BY <1>2, <1>5
    <2> QED
      BY ONLY <1>1, <2>1, <2>2, BalancedCalls
  <1>11. BaseInv'
    BY <1>1, <1>2, <1>4, <1>5, BaseStep DEF Stayed
  <1>12. LockInv'
    <2>1. \A i \in n + 1 .. Len(s2) : ~Locked(s2[i])
      BY <1>2, <1>3, <1>4 DEF Stayed, Locked
    <2>2. Locked(f) /\ f.a \in Actor
      BY <1>2 DEF Locked, FrameType
    <2>3. PICK a \in Actor : a = f.a
      BY <2>2
    <2>4. GivesLock(t, s2, n, a)
      BY <1>5, <2>1, <2>2, <2>3 DEF GivesLock
    <2> QED
      BY <1>1, <1>5, <2>4, LockGive
  <1>13. AllSee'
    <2>1. \A i \in n + 1 .. Len(s2) : Sees(s2[i])'
      BY <1>2, <1>4 DEF Stayed, Sees
    <2> QED
      BY <1>1, <1>5, <1>8, <2>1, SeeStep DEF Free
  <1>14. SupplInv'
    BY <1>1 DEF SupplInv
  <1>15. Observed'
    <2>1. \A i \in n + 1 .. Len(stack[t]) : ~Observing(stack[t][i])
      BY <1>4 DEF Stayed, Observing
    <2> QED
      BY <1>1, <1>5, <2>1, ObservedStep
  <1> QED
    BY <1>8, <1>9, <1>10, <1>11, <1>12, <1>13, <1>14, <1>15 DEF Inv

\* Or the stopping actor that made the call takes it over.
Merged(c, g) == [c EXCEPT !.drop = Plus(@, g)]

LEMMA UnlockMerge ==
    ASSUME Inv, NEW t \in Thread, NEW b \in Seq(FrameType), NEW c \in FrameType, NEW f \in FrameType, NEW c2,
           stack[t] = Append(Append(b, c), f), stack' = [stack EXCEPT ![t] = Append(b, c2)],
           Free(t, f), f.op = "dec", f.pc = "unlock", c.op = "dec", c.pc # "waste",
           c2 = Merged(c, f.drop),
           actorLock' = [actorLock EXCEPT ![f.a] = NoThread],
           UNCHANGED <<count, suppl, hasSuppl, failed, ref, countSection, handles>>
    PROVE  Inv'
  <1>1. /\ TypeOK /\ Balanced /\ StackInv /\ BaseInv /\ LockInv /\ AllSee /\ SupplInv /\ Observed
    BY DEF Inv
  <1>2. c.a \in Actor /\ f.a \in Actor /\ c.drop \in [Actor -> Nat] /\ f.drop \in [Actor -> Nat]
        /\ c.got \in [Actor -> Nat] /\ f.got \in [Actor -> Nat]
    BY DEF FrameType
  <1>3. /\ Plus(c.drop, f.drop) \in [Actor -> Nat]
        /\ \A x \in Actor : Plus(c.drop, f.drop)[x] = c.drop[x] + f.drop[x]
    BY <1>2, BagTypes
  <1>4. /\ c2.op = c.op /\ c2.a = c.a /\ c2.pc = c.pc /\ c2.got = c.got /\ c2.todo = c.todo
        /\ c2.list = c.list /\ c2.drop = Plus(c.drop, f.drop) /\ c2 \in FrameType
    BY <1>3 DEF FrameType, Merged
  <1>5. Carries(b, c, ref) /\ Content(c, Asks(f), ref[c.a]) /\ Calls(c, f)
    BY <1>1, CallerFacts
  <1>6. Asks(f) = {} /\ f.a \in Under(c.a) /\ c.pc \in {"units", "parent", "calc", "unlock"}
    <2>1. c.pc \notin {"relock", "waste"}
      BY <1>5 DEF Content, DecContent
    <2> QED
      BY <1>5, <2>1 DEF Asks, Calls
  <1>7. Content(f, {}, ref[f.a])
    <2>1. PICK b1, f1 : TopIs(t, b1, f1)
      BY <1>1, TopFacts, AppendFacts
    <2>2. PICK b2 \in Seq(FrameType) : b2 = Append(b, c)
      BY AppendFacts
    <2>3. f1 = f
      <3>1. Last(Append(b2, f)) = f
        BY AppendFacts
      <3> QED
        BY <2>1, <2>2, <3>1 DEF TopIs, Top
    <2> QED
      BY <2>1, <2>3 DEF TopIs
  <1>8. Under(f.a) \subseteq Under(c.a)
    BY <1>2, <1>6, UnderFacts
  <1>9. PICK s2, n : Returned(t, b, c, c2, f, s2, n)
    BY <1>1, <1>4, ReturnTo
  <1>10. Kept(t, s2, n) /\ n < Len(stack[t]) /\ s2 = Append(b, c2) /\ stack[t] # <<>>
         /\ stack[t][Len(stack[t])] = f
    BY <1>9 DEF Returned
  <1>11. TypeOK'
    <2>1. actorLock' \in [Actor -> Thread \cup {NoThread}]
      BY <1>1 DEF TypeOK
    <2> QED
      BY <1>1, <1>10, <2>1, TypeStep DEF TypeOK
  <1>12. StackInv'
    <2>1. \A x \in Actor : f.drop[x] > 0 => x \in Under(c.a)
      BY <1>7, <1>8 DEF Content
    <2>2. \A x \in Actor :
             x \in c2.todo \/ x \in c2.list \/ c2.got[x] > 0 \/ c2.drop[x] > 0 => x \in Under(c.a)
      BY <1>2, <1>3, <1>4, <1>5, <2>1 DEF Content
    <2>3. Content(c2, {}, ref[c.a])
      BY <1>4, <1>5, <1>6, <2>2 DEF Content, DecContent
    <2> QED
      BY <1>1, <1>4, <2>3, ReturnStacked
  <1>13. Balanced'
    <2>1. ASSUME NEW x \in Actor PROVE Debts(s2, ref, x) = Debts(stack[t], ref, x)
      <3>1. PICK b1 : b1 = Append(b, c)
        OBVIOUS
      <3>2. b1 \in Seq(FrameType)
        BY <3>1, AppendFacts
      <3>3. PICK d, p, q, r \in Nat : d = Debts(b, ref, x) /\ p = DebtTo(c, ref, x)
                                      /\ q = DebtTo(f, ref, x) /\ r = DebtTo(c2, ref, x)
        BY <1>4, DebtsAppend, DebtType
      <3>4. Debts(b1, ref, x) = d + p
        BY <3>1, <3>3, DebtsAppend
      <3>5. Debts(stack[t], ref, x) = d + p + q
        <4>1. Debts(Append(b1, f), ref, x) = Debts(b1, ref, x) + DebtTo(f, ref, x)
          BY <3>2, DebtsAppend
        <4> QED
          BY <3>1, <3>3, <3>4, <4>1
      <3>6. Debts(s2, ref, x) = d + r
        BY <1>4, <1>10, <3>3, DebtsAppend
      <3>7. q = f.drop[x]
        <4>1. f.got[x] = 0 /\ In(x, f.list) = 0 /\ f.drop[x] \in Nat
          BY <1>2, <1>7 DEF Content, DecContent, Nil, In
        <4> QED
          BY <3>3, <4>1 DEF DebtTo
      <3>8. r = p + f.drop[x]
        <4>1. PICK m, k, j, l \in Nat : m = c.got[x] /\ k = c.drop[x] /\ j = f.drop[x] /\ l = In(x, c.list)
          BY <1>2 DEF In
        <4>2. c2.drop[x] = k + j
          BY <1>3, <1>4, <4>1
        <4>3. PICK e \in Nat : e = CASE c.pc = "units"  -> In(x, c.todo) + In(x, Parent[c.a]) + In(x, Calc[c.a]) + In(x, {ref[c.a]})
                                     [] c.pc = "parent" -> In(x, c.todo) + In(x, Calc[c.a]) + In(x, {ref[c.a]})
                                     [] c.pc = "calc"   -> In(x, c.todo) + In(x, {ref[c.a]})
                                     [] OTHER -> 0
          <5>1. \A S : In(x, S) \in Nat
            BY DEF In
          <5> QED
            BY <1>6, <5>1, SMTT(30)
        <4>4. p = m + k + l + e
          BY <1>6, <3>3, <4>1, <4>3 DEF DebtTo
        <4>5. r = m + (k + j) + l + e
          BY <1>4, <1>6, <3>3, <4>1, <4>2, <4>3 DEF DebtTo
        <4>6. r = p + j
          BY ONLY <4>4, <4>5
        <4> QED
          BY <4>1, <4>6
      <3>9. r = p + q
        BY <3>7, <3>8
      <3>10. d + p + q = d + r
        BY ONLY <3>9
      <3> QED
        BY <3>5, <3>6, <3>10
    <2>2. stack' = [stack EXCEPT ![t] = s2]
      BY <1>10
    <2> QED
      BY <1>1, <2>1, <2>2, BalancedCalls
  <1>14. BaseInv'
    BY <1>1, <1>4, <1>9, <1>10, BaseStep DEF Returned
  <1>15. LockInv'
    <2>1. \A i \in n + 1 .. Len(s2) : Locked(s2[i]) =>
              /\ i \in DOMAIN stack[t] /\ i # Len(stack[t]) /\ Locked(stack[t][i])
              /\ s2[i].a = stack[t][i].a /\ s2[i].op = stack[t][i].op
      BY <1>4, <1>9 DEF Returned, Locked
    <2>2. Locked(f)
      BY DEF Locked
    <2>3. PICK a \in Actor : a = f.a
      BY <1>2
    <2>4. GivesLock(t, s2, n, a)
      BY <1>10, <2>1, <2>2, <2>3 DEF GivesLock
    <2> QED
      BY <1>1, <1>10, <2>4, LockGive
  <1>16. AllSee'
    <2>1. \A i \in n + 1 .. Len(s2) : Sees(s2[i])'
      BY <1>4, <1>6, <1>9 DEF Returned, Sees
    <2> QED
      BY <1>1, <1>10, <1>11, <2>1, SeeStep DEF Free
  <1>17. SupplInv'
    BY <1>1 DEF SupplInv
  <1>18. Observed'
    <2>1. \A i \in n + 1 .. Len(stack[t]) : Observing(stack[t][i]) =>
              i \in DOMAIN s2 /\ Observing(s2[i]) /\ s2[i].a = stack[t][i].a
      BY <1>4, <1>9 DEF Returned, Observing
    <2> QED
      BY <1>1, <1>10, <2>1, ObservedStep
  <1> QED
    BY <1>11, <1>12, <1>13, <1>14, <1>15, <1>16, <1>17, <1>18 DEF Inv

LEMMA DecUnlockStep ==
    ASSUME Inv, NEW t \in Thread, DecUnlock(t)
    PROVE  Inv'
  <1>1. stack[t] # <<>> /\ UNCHANGED <<count, suppl, hasSuppl, failed, ref, countSection, handles>>
    BY DEF DecUnlock, At
  <1>0. PICK b, f : TopIs(t, b, f)
    BY <1>1, TopFacts
  <1>2. /\ b \in Seq(FrameType) /\ f \in FrameType /\ f.a \in Actor /\ f.drop \in [Actor -> Nat]
        /\ stack[t] = Append(b, f) /\ Top(t) = f /\ Below(t) = b /\ Content(f, {}, ref[f.a])
        /\ Free(t, f) \/ (f.op \in {"inc", "dec"} /\ f.pc = "count")
    BY <1>0 DEF TopIs
  <1>3. /\ f.op = "dec" /\ f.pc = "unlock" /\ Free(t, f)
        /\ actorLock' = [actorLock EXCEPT ![f.a] = NoThread]
    BY <1>2 DEF DecUnlock, At
  <1>4. stack \in [Thread -> Seq(FrameType)] /\ count \in [Actor -> Nat]
    BY DEF Inv, TypeOK
  <1>5. CASE f.drop = Nil
    <2>1. stack' = [stack EXCEPT ![t] = b]
      BY <1>2, <1>5 DEF DecUnlock, ReturnDec
    <2>2. f.got = Nil /\ f.list = {}
      BY <1>2, <1>3 DEF Content, DecContent
    <2>3. ASSUME NEW x \in Actor PROVE count'[x] + DebtTo(f, ref, x) = count[x]
      <3>1. f.got[x] = 0 /\ f.drop[x] = 0 /\ In(x, f.list) = 0
        BY <1>5, <2>2 DEF Nil, In
      <3>2. DebtTo(f, ref, x) = 0
        BY <1>3, <3>1 DEF DebtTo
      <3> QED
        BY <1>1, <1>4, <3>2
    <2>4. Locked(f) /\ ~Observing(f)
      BY <1>3 DEF Locked, Observing
    <2>5. Ends(t, b, f)
      BY <1>1, <1>2, <1>3, <1>4, <2>1, <2>3, <2>4 DEF Ends
    <2> QED
      BY <2>5, EndStep
  <1>6. CASE f.drop # Nil /\ b # <<>> /\ Last(b).op = "dec" /\ Last(b).pc # "waste"
    <2>1. PICK b0 \in Seq(FrameType), c \in FrameType : b = Append(b0, c)
      BY <1>2, <1>6, SplitStack
    <2>2. Front(b) = b0 /\ Last(b) = c
      BY <2>1, AppendFacts
    <2>3. PICK c2 : c2 = Merged(c, f.drop)
      OBVIOUS
    <2>4. stack' = [stack EXCEPT ![t] = Append(b0, c2)]
      BY <1>2, <1>4, <1>6, <2>2, <2>3 DEF DecUnlock, ReturnDec, Merged
    <2>5. stack[t] = Append(Append(b0, c), f)
      BY <1>2, <2>1
    <2>6. c.op = "dec" /\ c.pc # "waste"
      BY <1>6, <2>2
    <2>7. c2 = Merged(c, f.drop)
      BY <2>3
    <2>8. actorLock' = [actorLock EXCEPT ![f.a] = NoThread]
      BY <1>3
    <2>9. f.op = "dec" /\ f.pc = "unlock" /\ f \in FrameType /\ Free(t, f)
      BY <1>2, <1>3
    <2>10. Inv /\ t \in Thread
      OBVIOUS
    <2> QED
      BY ONLY <1>1, <2>1, <2>4, <2>5, <2>6, <2>7, <2>8, <2>9, <2>10, UnlockMerge
  <1>7. CASE f.drop # Nil /\ ~ (b # <<>> /\ Last(b).op = "dec" /\ Last(b).pc # "waste")
    <2>1. PICK f2 : f2 = [f EXCEPT !.pc = "waste"]
      OBVIOUS
    <2>2. [f EXCEPT !.pc = "waste", !.drop = f.drop] = f2
      BY <1>2, <2>1 DEF FrameType
    <2>3. stack' = [stack EXCEPT ![t] = Append(b, f2)]
      BY <1>2, <1>4, <1>7, <2>2 DEF DecUnlock, ReturnDec
    <2>4. f2 \in FrameType /\ f2.op = f.op /\ f2.a = f.a
      BY <1>2, <2>1, ZenonT(60) DEF FrameType
    <2>5. GoesOn(t, b, f, f2)
      BY <1>2, <2>3, <2>4 DEF GoesOn
    <2> QED
      BY <1>1, <1>3, <2>1, <2>5, UnlockWaste
  <1> QED
    BY <1>5, <1>6, <1>7

-----------------------------------------------------------------------------
(* Steps that return new interest *)

LEMMA PlusIs ==
    ASSUME NEW g \in [Actor -> Nat], NEW h \in [Actor -> Nat]
    PROVE  Plus(g, h) \in [Actor -> Nat] /\ \A x \in Actor : Plus(g, h)[x] = g[x] + h[x]
  <1>1. \A x \in Actor : g[x] + h[x] \in Nat
    OBVIOUS
  <1> QED
    BY <1>1 DEF Plus

LEMMA BagIs == \A S : Bag(S) \in [Actor -> Nat] /\ \A x \in Actor : Bag(S)[x] = In(x, S)
  BY DEF Bag, In

LEMMA PlusBag ==
    ASSUME NEW g \in [Actor -> Nat], NEW S
    PROVE  Plus(g, Bag(S)) \in [Actor -> Nat]
           /\ \A x \in Actor : Plus(g, Bag(S))[x] = g[x] + In(x, S)
  <1>1. Bag(S) \in [Actor -> Nat] /\ \A x \in Actor : Bag(S)[x] = In(x, S)
    BY BagIs
  <1> QED
    BY <1>1, PlusIs

LEMMA PlusMoves ==
    ASSUME NEW g \in [Actor -> Nat], NEW S, NEW T
    PROVE  Plus(Plus(Plus(g, Bag(S)), Bag(T)), Bag({})) = Plus(Plus(g, Bag(T)), Bag(S))
  <1>1. ASSUME NEW x \in Actor
        PROVE  g[x] + In(x, S) + In(x, T) + In(x, {}) = g[x] + In(x, T) + In(x, S)
    <2>1. g[x] \in Nat /\ In(x, S) \in Nat /\ In(x, T) \in Nat /\ In(x, {}) = 0
      BY DEF In
    <2> QED
      BY <2>1
  <1>2. /\ Plus(Plus(Plus(g, Bag(S)), Bag(T)), Bag({}))
           = [x \in Actor |-> g[x] + In(x, S) + In(x, T) + In(x, {})]
        /\ Plus(Plus(g, Bag(T)), Bag(S)) = [x \in Actor |-> g[x] + In(x, T) + In(x, S)]
    BY DEF Plus, Bag, In
  <1> QED
    BY <1>1, <1>2

\* The frame that a call returned interest in y to.
Gains(c, c2, y, r) ==
    /\ c2 \in FrameType /\ c2.op = c.op /\ c2.a = c.a
    /\ Content(c2, {}, r)
    /\ \A refs : \A x \in Actor : DebtTo(c2, refs, x) = DebtTo(c, refs, x) + In(x, {y})
    /\ Locked(c2) <=> Locked(c)
    /\ Observing(c) => Observing(c2)
    /\ c2.pc # "relock" /\ c.op \notin {"dec", "fail"}
    /\ c.op = "rebind" => c.pc = "read" /\ c2.pc = "swap" /\ c2.got = Bag({c.next})
    /\ c.op = "invalidate" => c2.pc = c.pc

\* A call that is not building a list of suppliers.
LEMMA PlainContent ==
    ASSUME NEW f, NEW r, f.list = {}, f.pc \notin {"suppl", "register"},
           \A x \in Actor :
              x \in f.todo \/ x \in f.list \/ f.got[x] > 0 \/ f.drop[x] > 0 => x \in Under(f.a),
           (f.op = "inc" /\ IncContent(f, {}, r)) \/ (f.op = "rebind" /\ RebindContent(f, {}))
    PROVE  Content(f, {}, r)
  BY DEF Content

LEMMA GainedFacts ==
    ASSUME NEW c \in FrameType, NEW y \in Actor, NEW r, Content(c, {y}, r), y \in Under(c.a)
    PROVE  Gains(c, Gained(c, y), y, r)
  <1>1. PICK c2 : c2 = Gained(c, y)
    OBVIOUS
  <1>2. PICK more \in [Actor -> Nat] :
           more = Plus(c.got, Bag({y})) /\ \A x \in Actor : more[x] = c.got[x] + In(x, {y})
    <2>1. c.got \in [Actor -> Nat]
      BY DEF FrameType
    <2> QED
      BY <2>1, PlusBag
  <1>3. CASE c.pc = "suppl"
    <2>1. c2 = [c EXCEPT !.list = @ \cup {y}]
      BY <1>1, <1>3 DEF Gained
    <2>2. /\ c2.op = c.op /\ c2.a = c.a /\ c2.got = c.got /\ c2.next = c.next /\ c2.todo = c.todo
          /\ c2.list = c.list \cup {y} /\ c2.drop = c.drop /\ c2.pc = c.pc /\ c2 \in FrameType
      BY <2>1 DEF FrameType
    <2>3. c.op \notin {"dec", "fail", "rebind"} /\ y \notin c.list /\ y \notin c.todo /\ y \in Suppl[c.a]
      BY <1>3 DEF Content, IncContent, DecContent, RebindContent, RestContent
    <2>4. \A x \in Actor :
             x \in c2.todo \/ x \in c2.list \/ c2.got[x] > 0 \/ c2.drop[x] > 0 => x \in Under(c.a)
      BY <2>2 DEF Content
    <2>5. Content(c2, {}, r)
      BY <1>3, <2>2, <2>3, <2>4 DEF Content, IncContent, RestContent
    <2>6. ASSUME NEW refs, NEW x \in Actor
          PROVE  DebtTo(c2, refs, x) = DebtTo(c, refs, x) + In(x, {y})
      <3>1. PICK g, d, l, e \in Nat : g = c.got[x] /\ d = c.drop[x] /\ l = In(x, c.list) /\ e = In(x, {y})
        BY DEF In, FrameType
      <3>2. In(x, c2.list) = l + e
        BY <2>2, <2>3, <3>1 DEF In
      <3>3. DebtTo(c2, refs, x) = g + d + (l + e) + 0 /\ DebtTo(c, refs, x) = g + d + l + 0
        BY <2>2, <2>3, <3>1, <3>2 DEF DebtTo
      <3> QED
        BY <3>1, <3>3
    <2>7. (Locked(c2) <=> Locked(c)) /\ (Observing(c) => Observing(c2))
      BY <2>2 DEF Locked, Observing
    <2> QED
      BY <1>1, <1>3, <2>2, <2>3, <2>5, <2>6, <2>7 DEF Gains
  <1>4. CASE c.pc # "suppl"
    <2>1. PICK p : p = IF c.pc = "ref" THEN "finish" ELSE IF c.pc = "read" THEN "swap" ELSE c.pc
      OBVIOUS
    <2>2. c2 = [c EXCEPT !.got = Plus(@, Bag({y})), !.pc = p]
      <3>1. c.pc \notin {"ref", "read"} => [c EXCEPT !.got = Plus(@, Bag({y})), !.pc = c.pc]
                                          = [c EXCEPT !.got = Plus(@, Bag({y}))]
        BY DEF FrameType
      <3> QED
        BY <1>1, <1>4, <2>1, <3>1 DEF Gained
    <2>3. /\ c2.op = c.op /\ c2.a = c.a /\ c2.got = more /\ c2.next = c.next /\ c2.todo = c.todo
          /\ c2.list = c.list /\ c2.drop = c.drop /\ c2.pc = p /\ c2 \in FrameType
      BY <1>2, <2>1, <2>2 DEF FrameType
    <2>4. \/ c.op = "inc" /\ c.pc \in {"units", "parent", "calc"} /\ p = c.pc
          \/ c.op = "inc" /\ c.pc = "ref" /\ p = "finish" /\ y = r /\ c.drop = Nil
          \/ c.op = "rebind" /\ c.pc = "read" /\ p = "swap" /\ y = c.next /\ c.got = Nil
      BY <1>4, <2>1 DEF Content, IncContent, DecContent, RebindContent, RestContent, FrameType
    <2>5. \A x \in Actor :
             x \in c2.todo \/ x \in c2.list \/ c2.got[x] > 0 \/ c2.drop[x] > 0 => x \in Under(c.a)
      <3> SUFFICES ASSUME NEW x \in Actor,
                          x \in c2.todo \/ x \in c2.list \/ c2.got[x] > 0 \/ c2.drop[x] > 0
                   PROVE  x \in Under(c.a)
        OBVIOUS
      <3>1. x \in c.todo \/ x \in c.list \/ c.drop[x] > 0 \/ more[x] > 0
        BY <2>3
      <3>2. more[x] > 0 => c.got[x] > 0 \/ x = y
        <4>1. more[x] = c.got[x] + In(x, {y}) /\ c.got[x] \in Nat
          BY <1>2 DEF FrameType
        <4> QED
          BY <4>1 DEF In
      <3> QED
        BY <3>1, <3>2 DEF Content
    <2>6. c.list = {}
      BY <2>4 DEF Content
    <2>14. c2.list = {} /\ c2.pc \notin {"suppl", "register"} /\ c2.op = c.op
      BY <2>3, <2>4, <2>6
    <2>15. \A x \in Actor :
             x \in c2.todo \/ x \in c2.list \/ c2.got[x] > 0 \/ c2.drop[x] > 0 => x \in Under(c2.a)
      BY <2>3, <2>5
    <2>7. ASSUME c.op = "inc" /\ c.pc \in {"units", "parent", "calc"} /\ p = c.pc
          PROVE  Content(c2, {}, r)
      <3>1. Plus(Plus(more, Bag(c.todo)), Bag({})) = Plus(Plus(c.got, Bag(c.todo)), Bag({y}))
        BY <1>2, PlusMoves DEF FrameType
      <3>2. IncContent(c2, {}, r)
        BY <2>3, <2>7, <3>1 DEF Content, IncContent
      <3> QED
        BY ONLY <2>7, <2>14, <2>15, <3>2, PlainContent
    <2>8. ASSUME c.op = "inc" /\ c.pc = "ref" /\ p = "finish" /\ y = r /\ c.drop = Nil
          PROVE  Content(c2, {}, r)
      <3>1. IncContent(c2, {}, r)
        BY <1>2, <2>3, <2>8 DEF Content, IncContent
      <3> QED
        BY ONLY <2>8, <2>14, <2>15, <3>1, PlainContent
    <2>9. ASSUME c.op = "rebind" /\ c.pc = "read" /\ p = "swap" /\ y = c.next /\ c.got = Nil
          PROVE  Content(c2, {}, r)
      <3>1. RebindContent(c2, {})
        BY <2>3, <2>9 DEF Content, RebindContent
      <3> QED
        BY ONLY <2>9, <2>14, <2>15, <3>1, PlainContent
    <2>10. Content(c2, {}, r)
      BY ONLY <2>4, <2>7, <2>8, <2>9
    <2>11. ASSUME NEW refs, NEW x \in Actor
           PROVE  DebtTo(c2, refs, x) = DebtTo(c, refs, x) + In(x, {y})
      <3>1. PICK g, d, l, e \in Nat : g = c.got[x] /\ d = c.drop[x] /\ l = In(x, c.list) /\ e = In(x, {y})
        BY DEF In, FrameType
      <3>2. c2.got[x] = g + e
        BY <1>2, <2>3, <3>1
      <3>3. DebtTo(c2, refs, x) = (g + e) + d + l + 0 /\ DebtTo(c, refs, x) = g + d + l + 0
        BY <2>3, <2>4, <3>1, <3>2 DEF DebtTo
      <3> QED
        BY <3>1, <3>3
    <2>12. (Locked(c2) <=> Locked(c)) /\ (Observing(c) => Observing(c2))
      BY <2>3, <2>4 DEF Locked, Observing
    <2>13. c.op = "rebind" => c2.got = Bag({c.next})
      <3> SUFFICES ASSUME c.op = "rebind" PROVE more = Bag({c.next})
        BY <2>3
      <3>1. \A x \in Actor : more[x] = In(x, {c.next}) /\ Bag({c.next})[x] = In(x, {c.next})
        BY <1>2, <2>4 DEF Nil, In, Bag
      <3>2. Bag({c.next}) \in [Actor -> Nat]
        BY DEF Bag
      <3> QED
        BY <3>1, <3>2
    <2> QED
      BY <1>1, <2>3, <2>4, <2>10, <2>11, <2>12, <2>13 DEF Gains
  <1> QED
    BY <1>3, <1>4

\* The innermost call returns interest in its actor.
EndsInc(t, b, f) ==
    /\ TopIs(t, b, f) /\ f.op = "inc" /\ ReturnInc(t) /\ SectionFree
    /\ count' = [count EXCEPT ![f.a] = @ + 1]
    /\ UNCHANGED <<suppl, hasSuppl, failed, ref, countSection>>
    /\ \/ f.pc \in {"count", "lock"} /\ count[f.a] > 0 /\ actorLock' = actorLock
       \/ f.pc = "finish" /\ actorLock' = [actorLock EXCEPT ![f.a] = NoThread]

\* All that the call gained is now what the actor holds.
HoldsMore(f) ==
    /\ count' \in [Actor -> Nat] /\ count'[f.a] = count[f.a] + 1
    /\ \A c \in Actor \ {f.a} : count'[c] = count[c]
    /\ \A x \in Actor : /\ count'[x] = count[x] + In(x, {f.a})
                        /\ DebtTo(f, ref, x) + Hold(f.a, x) = Hold(f.a, x)'

LEMMA GainHold ==
    ASSUME Inv, NEW t \in Thread, NEW b, NEW f, EndsInc(t, b, f)
    PROVE  HoldsMore(f)
  <1>1. /\ f \in FrameType /\ f.a \in Actor /\ f.op = "inc" /\ Content(f, {}, ref[f.a])
        /\ count' = [count EXCEPT ![f.a] = @ + 1] /\ suppl' = suppl /\ ref' = ref
        /\ Locked(f) => count[f.a] = 0
    BY DEF EndsInc, TopIs
  <1>2. count \in [Actor -> Nat]
    BY DEF Inv, TypeOK
  <1>3. count' \in [Actor -> Nat] /\ count'[f.a] = count[f.a] + 1 /\ \A c \in Actor \ {f.a} : count'[c] = count[c]
    BY <1>1, <1>2
  <1>4. ASSUME NEW x \in Actor PROVE count'[x] = count[x] + In(x, {f.a})
    BY <1>1, <1>2, <1>3 DEF In
  <1>5. ASSUME NEW x \in Actor PROVE DebtTo(f, ref, x) + Hold(f.a, x) = Hold(f.a, x)'
    <2>1. PICK k, p, q, l, r \in Nat :
             /\ k = In(x, suppl[f.a]) /\ p = In(x, Units[f.a]) /\ q = In(x, Parent[f.a])
             /\ l = In(x, Calc[f.a]) /\ r = In(x, {ref[f.a]})
      BY DEF In
    <2>2. Hold(f.a, x)' = k + (p + q + l + r)
      BY <1>1, <1>2, <1>3, <2>1 DEF Hold
    <2>3. f.drop = Nil /\ f.list = {}
      BY <1>1 DEF EndsInc, Content, IncContent
    <2>4. f.drop[x] = 0 /\ In(x, f.list) = 0
      BY <2>3 DEF Nil, In
    <2>5. CASE f.pc \in {"count", "lock"} /\ count[f.a] > 0
      <3>1. f.got[x] = 0
        BY <1>1, <2>5 DEF Content, IncContent, Nil
      <3>2. DebtTo(f, ref, x) = 0
        BY <1>1, <2>4, <3>1 DEF DebtTo
      <3>3. Hold(f.a, x) = k + (p + q + l + r)
        BY <1>1, <2>1, <2>5 DEF Hold
      <3> QED
        BY <2>1, <2>2, <3>2, <3>3
    <2>6. CASE f.pc = "finish"
      <3>1. f.got[x] = p + q + l + r
        <4>1. f.got = Plus(Plus(Plus(Bag(Units[f.a]), Bag(Parent[f.a])), Bag(Calc[f.a])), Bag({ref[f.a]}))
          BY <1>1, <2>6 DEF Content, IncContent
        <4> QED
          BY <2>1, <4>1 DEF Plus, Bag, In
      <3>2. DebtTo(f, ref, x) = p + q + l + r
        BY <1>1, <2>1, <2>4, <3>1 DEF DebtTo
      <3>3. count[f.a] = 0
        BY <1>1, <2>6 DEF Locked
      <3>4. Hold(f.a, x) = k
        BY <2>1, <3>3 DEF Hold
      <3> QED
        BY <2>1, <2>2, <3>2, <3>4
    <2> QED
      BY <2>5, <2>6 DEF EndsInc
  <1> QED
    BY <1>3, <1>4, <1>5 DEF HoldsMore

LEMMA GainLock ==
    ASSUME Inv, NEW t \in Thread, NEW b, NEW f, EndsInc(t, b, f), NEW s2, NEW n, Kept(t, s2, n),
           n < Len(stack[t]),
           \A i \in n + 1 .. Len(s2) : Locked(s2[i]) =>
              /\ i \in DOMAIN stack[t] /\ i # Len(stack[t]) /\ Locked(stack[t][i])
              /\ s2[i].a = stack[t][i].a /\ s2[i].op = stack[t][i].op
    PROVE  LockInv'
  <1>1. TypeOK /\ LockInv
    BY DEF Inv
  <1>2. /\ f \in FrameType /\ f.a \in Actor /\ stack[t] # <<>> /\ stack[t][Len(stack[t])] = f
        /\ f.op = "inc"
    BY AppendFacts DEF EndsInc, TopIs
  <1>3. /\ count' \in [Actor -> Nat] /\ count'[f.a] = count[f.a] + 1
        /\ \A c \in Actor \ {f.a} : count'[c] = count[c]
    <2>1. HoldsMore(f)
      BY GainHold
    <2> QED
      BY ONLY <2>1 DEF HoldsMore
  <1>4. CASE f.pc \in {"count", "lock"} /\ count[f.a] > 0 /\ actorLock' = actorLock
    <2>1. \A a \in Actor : count[a] = 0 => count'[a] = 0
      BY <1>3, <1>4
    <2> QED
      BY <1>1, <1>4, <2>1, LockSame
  <1>5. CASE f.pc = "finish" /\ actorLock' = [actorLock EXCEPT ![f.a] = NoThread]
    <2>1. PICK a \in Actor : a = f.a
      BY <1>2
    <2>2. Locked(f)
      BY <1>2, <1>5 DEF Locked
    <2>3. GivesLock(t, s2, n, a)
      BY <1>2, <1>3, <1>5, <2>1, <2>2 DEF GivesLock
    <2> QED
      BY <1>1, <2>3, LockGive
  <1> QED
    BY <1>4, <1>5 DEF EndsInc

\* Who rebinds or invalidates an actor sees no interest begin.
LEMMA GainSeen ==
    ASSUME Inv, NEW t \in Thread, NEW b, NEW f, EndsInc(t, b, f)
    PROVE  \A u \in Thread : \A i \in DOMAIN stack[u] : stack[u][i].op \in {"rebind", "invalidate"} =>
              /\ count[stack[u][i].a] = 0 => count'[stack[u][i].a] = 0
              /\ hasSuppl'[stack[u][i].a] => hasSuppl[stack[u][i].a]
  <1>1. TypeOK /\ StackInv /\ BaseInv
    BY DEF Inv
  <1>2. /\ stack[t] # <<>> /\ stack[t][Len(stack[t])] = f /\ f.op = "inc" /\ hasSuppl' = hasSuppl
        /\ count[f.a] > 0 \/ (f.pc = "finish" /\ t = Meta)
    BY AppendFacts DEF EndsInc, TopIs, Free
  <1>3. count \in [Actor -> Nat] /\ \A c \in Actor \ {f.a} : count'[c] = count[c]
    BY <1>1, GainHold DEF HoldsMore, TypeOK
  <1>4. ASSUME NEW u \in Thread, NEW i \in DOMAIN stack[u], stack[u][i].op \in {"rebind", "invalidate"}
        PROVE  stack[u][i].a \in Actor /\ (stack[u][i].a # f.a \/ count[f.a] > 0)
    <2> SUFFICES ASSUME ~ (count[f.a] > 0) PROVE stack[u][i].a \in Actor /\ stack[u][i].a # f.a
      BY <1>1, <1>4, StackFacts DEF FrameType
    <2>1. stack[t][Len(stack[t])].op \notin {"rebind", "invalidate"}
      BY <1>2
    <2>2. stack[u][i].a # stack[t][Len(stack[t])].a
      BY <1>1, <1>2, <1>4, <2>1, Elsewhere
    <2> QED
      BY <1>1, <1>2, <2>2, StackFacts DEF FrameType
  <1> QED
    BY <1>2, <1>3, <1>4

LEMMA GainEnds ==
    ASSUME Inv, NEW t \in Thread, NEW f, EndsInc(t, <<>>, f)
    PROVE  Inv'
  <1>1. /\ TypeOK /\ Balanced /\ StackInv /\ BaseInv /\ LockInv /\ AllSee /\ SupplInv /\ Observed
    BY DEF Inv
  <1>2. PICK b \in Seq(FrameType) : b = <<>>
    BY EmptySeq
  <1>3. TopIs(t, b, f) /\ EndsInc(t, b, f)
    BY <1>2 DEF EndsInc
  <1>4. /\ f \in FrameType /\ f.a \in Actor /\ stack[t] = Append(b, f) /\ f.op = "inc"
        /\ Top(t) = f /\ Below(t) = b /\ Content(f, {}, ref[f.a])
    BY <1>3 DEF TopIs, EndsInc
  <1>5. /\ stack' = [stack EXCEPT ![t] = b] /\ handles' = [handles EXCEPT ![t][f.a] = @ + 1]
        /\ UNCHANGED <<suppl, hasSuppl, failed, ref, countSection>>
    BY <1>2, <1>3, <1>4 DEF EndsInc, ReturnInc
  <1>6. PICK n : Left(t, b, f, n)
    BY <1>1, <1>4, <1>5, Leave
  <1>7. Kept(t, b, n) /\ n < Len(stack[t]) /\ stack[t] # <<>> /\ stack[t][1] = f
    <2>1. Len(b) = 0
      BY <1>2
    <2> QED
      BY <1>4, <1>6, <2>1, AppendFacts DEF Left
  <1>8. handles[t][f.a] < MaxHandles
    BY <1>1, <1>4, <1>7 DEF BaseInv
  <1>9. PICK a \in Actor : a = f.a
    BY <1>4
  <1>10. /\ handles' \in [Thread -> [Actor -> 0 .. MaxHandles]]
         /\ \A u \in Thread \ {t} : handles'[u] = handles[u]
         /\ \A x \in Actor : handles'[t][x] = handles[t][x] + In(x, {a})
    <2>1. handles \in [Thread -> [Actor -> 0 .. MaxHandles]] /\ MaxHandles \in Nat
      BY <1>1, InterestAssumption DEF TypeOK
    <2>2. handles[t] \in [Actor -> 0 .. MaxHandles] /\ handles[t][a] + 1 \in 0 .. MaxHandles
      BY <1>8, <1>9, <2>1
    <2>3. handles' = [handles EXCEPT ![t] = [handles[t] EXCEPT ![a] = @ + 1]]
      BY <1>5, <1>9
    <2>4. [handles[t] EXCEPT ![a] = @ + 1] \in [Actor -> 0 .. MaxHandles]
      BY <2>2
    <2>5. handles'[t] = [handles[t] EXCEPT ![a] = @ + 1]
      BY <2>1, <2>3
    <2>6. \A x \in Actor : handles'[t][x] = handles[t][x] + In(x, {a})
      BY <2>1, <2>2, <2>5 DEF In
    <2> QED
      BY <2>1, <2>3, <2>4, <2>6
  <1>11. /\ count' \in [Actor -> Nat] /\ count'[f.a] = count[f.a] + 1
         /\ \A c \in Actor \ {f.a} : count'[c] = count[c]
         /\ \A x \in Actor : /\ count'[x] = count[x] + In(x, {f.a})
                             /\ DebtTo(f, ref, x) + Hold(f.a, x) = Hold(f.a, x)'
    <2>1. HoldsMore(f)
      BY <1>3, GainHold
    <2> QED
      BY <2>1 DEF HoldsMore
  <1>12. TypeOK'
    <2>1. actorLock' \in [Actor -> Thread \cup {NoThread}]
      BY <1>1, <1>3 DEF TypeOK, EndsInc
    <2> QED
      BY <1>1, <1>5, <1>7, <1>10, <1>11, <2>1, TypeStep DEF TypeOK
  <1>13. StackInv'
    <2>1. Stacked(b, ref)
      <3>1. DOMAIN b = {}
        BY <1>2
      <3> QED
        BY <3>1 DEF Stacked
    <2> QED
      BY <1>1, <1>5, <2>1, StackStep
  <1>14. Balanced'
    <2>1. ASSUME NEW x \in Actor
          PROVE  count'[x] + handles[t][x] + Debts(stack[t], ref, x) + Hold(a, x)
                 = count[x] + handles'[t][x] + Debts(b, ref, x) + Hold(a, x)'
      <3>1. PICK c, h, e, d, k, i \in Nat :
               /\ c = count[x] /\ h = handles[t][x] /\ e = DebtTo(f, ref, x) /\ d = Debts(b, ref, x)
               /\ k = Hold(a, x) /\ i = In(x, {a})
        BY <1>1, <1>4, OweType, DebtType, DebtsAppend, HoldType DEF In, TypeOK
      <3>2. Debts(stack[t], ref, x) = d + e
        BY <1>4, <3>1, DebtsAppend
      <3>3. count'[x] = c + i
        BY <1>9, <1>11, <3>1
      <3>5. handles'[t][x] = h + i
        BY <1>10, <3>1
      <3>6. Hold(a, x)' = e + k
        BY <1>9, <1>11, <3>1
      <3>4. (c + i) + h + (d + e) + k = c + (h + i) + d + (e + k)
        OBVIOUS
      <3> QED
        BY ONLY <3>1, <3>2, <3>3, <3>4, <3>5, <3>6
    <2>2. /\ ref' = ref /\ stack' = [stack EXCEPT ![t] = b]
          /\ \A u \in Thread \ {t} : handles'[u] = handles[u]
          /\ \A c \in Actor \ {a} : count'[c] = count[c] /\ suppl'[c] = suppl[c]
      BY <1>5, <1>9, <1>10, <1>11
    <2> QED
      BY ONLY <1>1, <1>12, <2>1, <2>2, Balance
  <1>15. BaseInv'
    <2>1. stack' = [stack EXCEPT ![t] = <<>>] /\ handles' = [handles EXCEPT ![t][a] = @ + 1]
      BY <1>2, <1>5, <1>9
    <2> QED
      BY <1>1, <1>8, <1>9, <2>1, BaseEnd
  <1>16. LockInv'
    <2>1. \A i : i \notin n + 1 .. Len(b)
      BY <1>6 DEF Left
    <2> QED
      BY <1>3, <1>7, <2>1, GainLock
  <1>17. AllSee'
    <2>1. \A i : i \notin n + 1 .. Len(b)
      BY <1>6 DEF Left
    <2>2. \A u \in Thread : \A i \in DOMAIN stack[u] : stack[u][i].op \in {"rebind", "invalidate"} =>
              /\ count[stack[u][i].a] = 0 => count'[stack[u][i].a] = 0
              /\ hasSuppl'[stack[u][i].a] => hasSuppl[stack[u][i].a]
      BY <1>3, GainSeen
    <2>3. countSection = NoThread
      BY <1>3 DEF EndsInc, SectionFree
    <2> QED
      BY <1>1, <1>5, <1>7, <1>12, <2>1, <2>2, <2>3, SeeStep
  <1>18. SupplInv'
    BY <1>1, <1>5 DEF SupplInv
  <1>19. Observed'
    <2>1. \A i \in n + 1 .. Len(stack[t]) : count'[stack[t][i].a] # 0
      BY <1>1, <1>4, <1>6, <1>11 DEF Left, TypeOK
    <2>2. \A c \in Actor : hasSuppl'[c] /\ count'[c] = 0 => hasSuppl[c] /\ count[c] = 0
      BY <1>1, <1>4, <1>5, <1>11 DEF TypeOK
    <2> QED
      BY <1>1, <1>7, <2>1, <2>2, ObservedStep
  <1> QED
    BY <1>12, <1>13, <1>14, <1>15, <1>16, <1>17, <1>18, <1>19 DEF Inv

LEMMA GainReturns ==
    ASSUME Inv, NEW t \in Thread, NEW b, NEW f, EndsInc(t, b, f),
           NEW b0 \in Seq(FrameType), NEW c \in FrameType, b = Append(b0, c)
    PROVE  Inv'
  <1>1. /\ TypeOK /\ Balanced /\ StackInv /\ BaseInv /\ LockInv /\ AllSee /\ SupplInv /\ Observed
    BY DEF Inv
  <1>2. /\ b \in Seq(FrameType) /\ f \in FrameType /\ f.a \in Actor /\ stack[t] = Append(b, f) /\ f.op = "inc"
        /\ Top(t) = f /\ Below(t) = b /\ Content(f, {}, ref[f.a])
        /\ UNCHANGED <<suppl, hasSuppl, failed, ref, countSection>>
    BY DEF TopIs, EndsInc
  <1>3. PICK a \in Actor : a = f.a
    BY <1>2
  <1>4. PICK c2 : c2 = Gained(c, a)
    OBVIOUS
  <1>5. stack' = [stack EXCEPT ![t] = Append(b0, c2)] /\ handles' = handles
    <2>1. b # <<>> /\ Front(b) = b0 /\ Last(b) = c
      BY AppendFacts
    <2> QED
      BY <1>2, <1>3, <1>4, <2>1 DEF EndsInc, ReturnInc
  <1>6. stack[t] = Append(Append(b0, c), f)
    BY <1>2
  <1>7. Content(c, {a}, ref[c.a]) /\ a \in Under(c.a)
    <2>1. Content(c, Asks(f), ref[c.a]) /\ Calls(c, f)
      BY <1>1, <1>2, <1>6, CallerFacts
    <2>2. Asks(f) = {a}
      BY <1>2, <1>3 DEF Asks
    <2> QED
      BY <1>2, <1>3, <2>1, <2>2 DEF Calls
  <1>8. Gains(c, c2, a, ref[c.a])
    BY <1>4, <1>7, GainedFacts
  <1>9. /\ c2 \in FrameType /\ c2.op = c.op /\ c2.a = c.a /\ Content(c2, {}, ref[c.a])
        /\ \A x \in Actor : DebtTo(c2, ref, x) = DebtTo(c, ref, x) + In(x, {a})
        /\ Locked(c2) <=> Locked(c)
        /\ Observing(c) => Observing(c2)
        /\ c2.pc # "relock" /\ c.op \notin {"dec", "fail"}
        /\ c.op = "rebind" => c.pc = "read" /\ c2.pc = "swap" /\ c2.got = Bag({c.next})
        /\ c.op = "invalidate" => c2.pc = c.pc
    BY <1>8 DEF Gains
  <1>10. PICK s2, n : Returned(t, b0, c, c2, f, s2, n)
    BY <1>1, <1>2, <1>5, <1>6, <1>9, ReturnTo
  <1>11. Kept(t, s2, n) /\ n < Len(stack[t]) /\ s2 = Append(b0, c2) /\ stack[t] # <<>>
         /\ n + 1 \in DOMAIN stack[t] /\ stack[t][n + 1] = c /\ n + 1 < Len(stack[t])
         /\ Len(s2) = n + 1
    <2>1. n \in Nat /\ n < n + 2 /\ n + 1 < n + 2
      BY <1>10, LenProperties DEF Returned
    <2> QED
      BY <1>10, <2>1 DEF Returned
  <1>12. /\ count' \in [Actor -> Nat] /\ count'[a] = count[a] + 1
         /\ \A x \in Actor \ {a} : count'[x] = count[x]
         /\ \A x \in Actor : /\ count'[x] = count[x] + In(x, {a})
                             /\ DebtTo(f, ref, x) + Hold(a, x) = Hold(a, x)'
    <2>1. /\ count' \in [Actor -> Nat] /\ count'[f.a] = count[f.a] + 1
          /\ \A x \in Actor \ {f.a} : count'[x] = count[x]
          /\ \A x \in Actor : /\ count'[x] = count[x] + In(x, {f.a})
                              /\ DebtTo(f, ref, x) + Hold(f.a, x) = Hold(f.a, x)'
      <3>1. HoldsMore(f)
        BY GainHold
      <3> QED
        BY ONLY <3>1 DEF HoldsMore
    <2> QED
      BY <1>3, <2>1
  <1>13. TypeOK'
    <2>1. actorLock' \in [Actor -> Thread \cup {NoThread}]
      BY <1>1 DEF TypeOK, EndsInc
    <2> QED
      BY <1>1, <1>2, <1>5, <1>11, <1>12, <2>1, TypeStep DEF TypeOK
  <1>14. StackInv'
    BY <1>1, <1>2, <1>5, <1>6, <1>9, ReturnStacked
  <1>15. Balanced'
    <2>1. ASSUME NEW x \in Actor
          PROVE  count'[x] + handles[t][x] + Debts(stack[t], ref, x) + Hold(a, x)
                 = count[x] + handles'[t][x] + Debts(s2, ref, x) + Hold(a, x)'
      <3>1. PICK ct, h, e, p, d, k, i \in Nat :
               /\ ct = count[x] /\ h = handles[t][x] /\ e = DebtTo(f, ref, x) /\ d = Debts(b0, ref, x)
               /\ p = DebtTo(c, ref, x) /\ k = Hold(a, x) /\ i = In(x, {a})
        BY <1>1, <1>2, OweType, DebtType, DebtsAppend, HoldType DEF In, TypeOK
      <3>2. Debts(b, ref, x) = d + p
        BY <3>1, DebtsAppend
      <3>3. Debts(stack[t], ref, x) = (d + p) + e
        <4>1. Debts(Append(b, f), ref, x) = Debts(b, ref, x) + DebtTo(f, ref, x)
          BY <1>2, DebtsAppend, ZenonT(60)
        <4> QED
          BY ONLY <1>2, <3>1, <3>2, <4>1
      <3>4. DebtTo(c2, ref, x) = p + i
        BY <1>9, <3>1
      <3>5. Debts(s2, ref, x) = d + (p + i)
        BY <1>9, <1>11, <3>1, <3>4, DebtsAppend
      <3>6. count'[x] = ct + i /\ handles'[t][x] = h /\ Hold(a, x)' = e + k
        BY <1>5, <1>12, <3>1
      <3>7. (ct + i) + h + ((d + p) + e) + k = ct + h + (d + (p + i)) + (e + k)
        OBVIOUS
      <3> QED
        BY ONLY <3>1, <3>3, <3>5, <3>6, <3>7
    <2>2. /\ ref' = ref /\ stack' = [stack EXCEPT ![t] = s2]
          /\ \A u \in Thread \ {t} : handles'[u] = handles[u]
          /\ \A x \in Actor \ {a} : count'[x] = count[x] /\ suppl'[x] = suppl[x]
      BY <1>2, <1>5, <1>11, <1>12
    <2> QED
      BY ONLY <1>1, <1>13, <2>1, <2>2, Balance
  <1>22. t = Meta
    <2>1. PICK i \in DOMAIN stack[t] : i = n + 1 /\ stack[t][i] = c
      BY <1>11
    <2>2. PICK j \in DOMAIN stack[t] : j = Len(stack[t]) /\ stack[t][j] = f
      BY <1>2, AppendFacts
    <2>3. j # 1
      BY <1>10, <1>11, <2>2 DEF Returned
    <2> QED
      BY <1>1, <1>2, <2>2, <2>3, OnlyMeta
  <1>16. BaseInv'
    BY <1>1, <1>5, <1>10, <1>11, <1>22, BaseStep DEF Returned
  <1>17. LockInv'
    <2>1. \A i \in n + 1 .. Len(s2) : Locked(s2[i]) =>
              /\ i \in DOMAIN stack[t] /\ i # Len(stack[t]) /\ Locked(stack[t][i])
              /\ s2[i].a = stack[t][i].a /\ s2[i].op = stack[t][i].op
      BY <1>9, <1>10 DEF Returned
    <2> QED
      BY <1>11, <2>1, GainLock
  <1>18. AllSee'
    <2>1. Sees(c)
      <3>1. PICK j \in DOMAIN stack[t] : j = n + 1
        BY <1>11
      <3>2. Sees(stack[t][j])
        BY <1>1 DEF AllSee
      <3>3. (j < Len(stack[t])) = TRUE
        BY <1>11, <3>1
      <3> QED
        BY <1>11, <3>1, <3>2, <3>3
    <2>2. c2.next = c.next
      BY <1>4 DEF Gained, FrameType
    <2>8. c.op = "rebind" => c2.pc = "swap" /\ c2.got = Bag({c2.next})
      BY <1>9, <2>2
    <2>9. c.op = "invalidate" => (c2.pc # "waste" => ~hasSuppl'[c2.a])
      BY <1>2, <1>9, <2>1 DEF Sees
    <2>3. Sees(c2)'
      BY <1>9, <2>8, <2>9 DEF Sees
    <2>4. \A i \in n + 1 .. Len(s2) : Sees(s2[i])'
      <3> SUFFICES ASSUME NEW i \in n + 1 .. Len(s2) PROVE Sees(s2[i])'
        OBVIOUS
      <3>1. s2[i] = c2 /\ ~ (i < Len(s2))
        BY <1>10 DEF Returned
      <3> QED
        BY <2>3, <3>1 DEF Sees
    <2>5. \A u \in Thread : \A i \in DOMAIN stack[u] : stack[u][i].op \in {"rebind", "invalidate"} =>
              /\ count[stack[u][i].a] = 0 => count'[stack[u][i].a] = 0
              /\ hasSuppl'[stack[u][i].a] => hasSuppl[stack[u][i].a]
      BY GainSeen
    <2>6. TypeOK /\ TypeOK' /\ AllSee /\ Kept(t, s2, n) /\ countSection' = countSection
          /\ (countSection = NoThread \/ t # Meta)
      BY <1>1, <1>2, <1>11, <1>13 DEF EndsInc, SectionFree
    <2>7. \A u \in Thread : \A i \in DOMAIN stack[u] :
              stack[u][i].op \in {"rebind", "invalidate"} /\ (u = t => i \in 1 .. n) =>
                 /\ count[stack[u][i].a] = 0 => count'[stack[u][i].a] = 0
                 /\ hasSuppl'[stack[u][i].a] => hasSuppl[stack[u][i].a]
      BY <2>5
    <2> QED
      BY ONLY <2>4, <2>6, <2>7, SeeStep
  <1>19. SupplInv'
    BY <1>1, <1>2 DEF SupplInv
  <1>20. Observed'
    <2>1. count'[a] # 0
      <3>1. count[a] \in Nat
        BY <1>1 DEF TypeOK
      <3> QED
        BY <1>12, <3>1
    <2>2. ObserversStay(t, s2, n)
      BY <1>3, <1>9, <1>10, <2>1 DEF Returned, ObserversStay
    <2>3. \A x \in Actor : hasSuppl'[x] /\ count'[x] = 0 => hasSuppl[x] /\ count[x] = 0
      BY <1>2, <1>12, <2>1
    <2> QED
      BY <1>1, <1>11, <2>2, <2>3, ObservedKept
  <1> QED
    BY <1>13, <1>14, <1>15, <1>16, <1>17, <1>18, <1>19, <1>20 DEF Inv

LEMMA GainStep ==
    ASSUME Inv, NEW t \in Thread, NEW b, NEW f, EndsInc(t, b, f)
    PROVE  Inv'
  <1>1. b \in Seq(FrameType)
    BY DEF EndsInc, TopIs
  <1>2. CASE b = <<>>
    BY <1>2, GainEnds
  <1>3. CASE b # <<>>
    <2>1. PICK b0 \in Seq(FrameType), c \in FrameType : b = Append(b0, c)
      BY <1>1, <1>3, SplitStack
    <2> QED
      BY <2>1, GainReturns
  <1> QED
    BY <1>2, <1>3

LEMMA IncFinishStep ==
    ASSUME Inv, NEW t \in Thread, IncFinish(t)
    PROVE  Inv'
  <1>1. stack[t] # <<>> /\ UNCHANGED <<suppl, hasSuppl, failed, ref, countSection>>
    BY DEF IncFinish, At
  <1>2. PICK b, f : TopIs(t, b, f)
    BY <1>1, TopFacts
  <1>3. Top(t) = f
    BY <1>2 DEF TopIs
  <1>4. EndsInc(t, b, f)
    BY <1>1, <1>2, <1>3 DEF IncFinish, At, EndsInc
  <1> QED
    BY <1>4, GainStep

\* The first one begins: the actor starts, and has its lock until it has all it needs.
LEMMA StartUnits ==
    ASSUME Inv, NEW t \in Thread, NEW b, NEW f, NEW f2, GoesOn(t, b, f, f2), Content(f, {}, ref[f.a]),
           f.op = "inc", f.pc = "lock", Free(t, f), count[f.a] = 0, actorLock[f.a] = NoThread,
           f2 = [f EXCEPT !.pc = "units", !.todo = Units[f.a]],
           actorLock' = [actorLock EXCEPT ![f.a] = t],
           UNCHANGED <<count, suppl, hasSuppl, failed, ref, countSection, handles>>
    PROVE  Inv'
  <1>1. /\ TypeOK /\ Balanced /\ StackInv /\ BaseInv /\ LockInv /\ AllSee /\ SupplInv /\ Observed
    BY DEF Inv
  <1>2. /\ b \in Seq(FrameType) /\ f \in FrameType /\ f2 \in FrameType /\ f.a \in Actor
        /\ stack[t] = Append(b, f) /\ stack' = [stack EXCEPT ![t] = Append(b, f2)]
    BY DEF GoesOn, FrameType
  <1>3. Units[f.a] \in SUBSET Actor /\ Units[f.a] \subseteq Under(f.a)
    BY <1>2, UnderFacts
  <1>4. /\ f2.op = f.op /\ f2.a = f.a /\ f2.got = f.got /\ f2.next = f.next /\ f2.todo = Units[f.a]
        /\ f2.list = f.list /\ f2.drop = f.drop /\ f2.pc = "units"
    BY <1>2, <1>3 DEF FrameType
  <1>5. f.got = Nil /\ f.drop = Nil /\ f.list = {} /\ f.todo = {}
    BY DEF Content, IncContent
  <1>6. PICK s2, n : Stayed(t, b, f, f2, s2, n)
    BY <1>1, <1>2, <1>4, Stay
  <1>7. Kept(t, s2, n) /\ s2 = Append(b, f2) /\ n = Len(b) /\ n < Len(stack[t])
        /\ Len(s2) = n + 1 /\ s2[n + 1] = f2 /\ stack[t][Len(stack[t])] = f
    BY <1>6 DEF Stayed
  <1>8. PICK a \in Actor : a = f.a
    BY <1>2
  <1>9. TypeOK'
    <2>1. actorLock' \in [Actor -> Thread \cup {NoThread}]
      BY <1>1 DEF TypeOK
    <2> QED
      BY <1>1, <1>7, <2>1, TypeStep DEF TypeOK
  <1>10. StackInv'
    <2>1. \A x \in Actor : Nil[x] = 0
      BY DEF Nil
    <2>2. Plus(Plus(Nil, Bag(Units[f.a])), Bag({})) = Bag(Units[f.a])
      BY DEF Plus, Bag, Nil
    <2>3. IncContent(f2, {}, ref[f.a])
      BY <1>4, <1>5, <2>2 DEF IncContent
    <2>4. Content(f2, {}, ref[f.a])
      BY <1>3, <1>4, <1>5, <2>1, <2>3 DEF Content
    <2> QED
      BY <1>1, <1>2, <1>4, <2>4, StayStacked
  <1>11. Balanced'
    <2>1. ASSUME NEW x \in Actor PROVE Debts(s2, ref, x) = Debts(stack[t], ref, x)
      <3>1. DebtTo(f2, ref, x) = DebtTo(f, ref, x)
        BY <1>2, <1>4 DEF DebtTo
      <3> QED
        BY <1>2, <1>7, <3>1, DebtsAppend
    <2>2. stack' = [stack EXCEPT ![t] = s2] /\ UNCHANGED <<count, suppl, ref, handles>>
      BY <1>2, <1>7
    <2> QED
      BY ONLY <1>1, <2>1, <2>2, BalancedCalls
  <1>12. BaseInv'
    BY <1>1, <1>6, <1>7, BaseStep DEF Stayed, Free
  <1>13. LockInv'
    <2>1. s2[n + 1].a = a /\ actorLock[a] = NoThread /\ actorLock' = [actorLock EXCEPT ![a] = t]
          /\ count'[a] = 0 /\ \A c \in Actor \ {a} : count[c] = 0 => count'[c] = 0
      BY <1>4, <1>7, <1>8
    <2> QED
      BY ONLY <1>1, <1>7, <2>1, LockTake
  <1>14. AllSee'
    <2>1. \A i \in n + 1 .. Len(s2) : Sees(s2[i])'
      BY <1>4, <1>6 DEF Stayed, Sees
    <2> QED
      BY <1>1, <1>7, <1>9, <2>1, SeeStep DEF Free
  <1>15. SupplInv'
    BY <1>1 DEF SupplInv
  <1>16. Observed'
    <2>1. \A i \in n + 1 .. Len(stack[t]) : ~Observing(stack[t][i])
      BY <1>6 DEF Stayed, Observing
    <2> QED
      BY <1>1, <1>7, <2>1, ObservedStep
  <1> QED
    BY <1>9, <1>10, <1>11, <1>12, <1>13, <1>14, <1>15, <1>16 DEF Inv

LEMMA IncLockStep ==
    ASSUME Inv, NEW t \in Thread, IncLock(t)
    PROVE  Inv'
  <1>1. stack[t] # <<>> /\ UNCHANGED <<suppl, hasSuppl, failed, ref, countSection>>
    BY DEF IncLock, At
  <1>2. PICK b, f : TopIs(t, b, f)
    BY <1>1, TopFacts
  <1>3. /\ b \in Seq(FrameType) /\ f \in FrameType /\ f.a \in Actor /\ Front(stack[t]) = b
        /\ stack[t] = Append(b, f) /\ Top(t) = f /\ Content(f, {}, ref[f.a])
        /\ Free(t, f) \/ (f.op \in {"inc", "dec"} /\ f.pc = "count")
    BY <1>2 DEF TopIs
  <1>4. f.op = "inc" /\ f.pc = "lock" /\ actorLock[f.a] = NoThread /\ SectionFree /\ Free(t, f)
    BY <1>3 DEF IncLock, At
  <1>5. count \in [Actor -> Nat] /\ stack \in [Thread -> Seq(FrameType)]
    BY DEF Inv, TypeOK
  <1>6. CASE count[f.a] > 0
    <2>1. EndsInc(t, b, f)
      BY <1>1, <1>2, <1>3, <1>4, <1>6 DEF IncLock, EndsInc
    <2> QED
      BY <2>1, GainStep
  <1>7. CASE ~ (count[f.a] > 0)
    <2>1. PICK f2 : f2 = [f EXCEPT !.pc = "units", !.todo = Units[f.a]]
      OBVIOUS
    <2>2. /\ stack' = [stack EXCEPT ![t] = Append(b, f2)] /\ count[f.a] = 0
          /\ actorLock' = [actorLock EXCEPT ![f.a] = t] /\ UNCHANGED <<count, handles>>
      BY <1>3, <1>5, <1>7, <2>1 DEF IncLock, Goto
    <2>3. Units[f.a] \in SUBSET Actor
      BY <1>3, UnderFacts
    <2>4. f2 \in FrameType /\ f2.op = f.op /\ f2.a = f.a
      BY <1>3, <2>1, <2>3, ZenonT(60) DEF FrameType
    <2>5. GoesOn(t, b, f, f2)
      BY <1>3, <2>2, <2>4 DEF GoesOn
    <2> QED
      BY <1>1, <1>3, <1>4, <2>1, <2>2, <2>5, StartUnits
  <1> QED
    BY <1>6, <1>7

-----------------------------------------------------------------------------
(* Steps that throw *)

\* The frame c that an exception unwinds, to let go of the moved supplier interest m as well.
Unwinds(c, c2, m, r) ==
    /\ c2 \in FrameType /\ c2.op = c.op /\ c2.a = c.a
    /\ Content(c2, {}, r)
    /\ \A refs : \A x \in Actor : DebtTo(c2, refs, x) = DebtTo(c, refs, x) + In(x, m)
    /\ Locked(c2) => Locked(c)
    /\ Observing(c) => c.op = "inc"
    /\ Sees(c2) /\ Sees(c2)'

LEMMA UnwoundFacts ==
    ASSUME NEW c \in FrameType, NEW y, NEW r, Content(c, {y}, r), NEW m \in SUBSET Under(c.a)
    PROVE  Unwinds(c, Unwound(c, m), m, r)
  <1>1. PICK c2 : c2 = Unwound(c, m)
    OBVIOUS
  <1>2. PICK all \in [Actor -> Nat] :
           /\ all = Plus(Plus(c.drop, c.got), Plus(Bag(c.list), Bag(m)))
           /\ \A x \in Actor : all[x] = (c.drop[x] + c.got[x]) + (In(x, c.list) + In(x, m))
    <2>1. PICK d, g \in [Actor -> Nat] : d = c.drop /\ g = c.got
      BY DEF FrameType
    <2>2. PICK dg \in [Actor -> Nat] : dg = Plus(d, g) /\ \A x \in Actor : dg[x] = d[x] + g[x]
      BY PlusIs
    <2>3. PICK l, k \in [Actor -> Nat] :
             l = Bag(c.list) /\ k = Bag(m) /\ \A x \in Actor : l[x] = In(x, c.list) /\ k[x] = In(x, m)
      BY BagIs
    <2>4. PICK lk \in [Actor -> Nat] : lk = Plus(l, k) /\ \A x \in Actor : lk[x] = l[x] + k[x]
      BY PlusIs
    <2>5. PICK sum \in [Actor -> Nat] : sum = Plus(dg, lk) /\ \A x \in Actor : sum[x] = dg[x] + lk[x]
      BY PlusIs
    <2> QED
      BY <2>1, <2>2, <2>3, <2>4, <2>5
  <1>3. PICK p \in {"unwind", "waste"} : p = IF c.op = "inc" THEN "unwind" ELSE "waste"
    OBVIOUS
  <1>4. c2 = [c EXCEPT !.pc = p, !.todo = {}, !.got = Nil, !.list = {}, !.drop = all]
    BY <1>1, <1>2, <1>3 DEF Unwound
  <1>5. Nil \in [Actor -> Nat] /\ \A x \in Actor : Nil[x] = 0
    BY DEF Nil
  <1>6. /\ c2.op = c.op /\ c2.a = c.a /\ c2.got = Nil /\ c2.next = c.next /\ c2.todo = {}
        /\ c2.list = {} /\ c2.drop = all /\ c2.pc = p /\ c2 \in FrameType
    BY <1>2, <1>3, <1>4, <1>5 DEF FrameType
  <1>7. \/ c.op = "inc" /\ c.pc \in {"units", "parent", "suppl", "calc", "ref"}
        \/ c.op = "rebind"
        \/ c.op \in {"invalidate", "restart"}
    BY DEF Content, IncContent, DecContent, RestContent, FrameType
  <1>8. \A x \in Actor :
             x \in c2.todo \/ x \in c2.list \/ c2.got[x] > 0 \/ c2.drop[x] > 0 => x \in Under(c.a)
    <2> SUFFICES ASSUME NEW x \in Actor, all[x] > 0 PROVE x \in Under(c.a)
      BY <1>5, <1>6
    <2>1. c.drop[x] \in Nat /\ c.got[x] \in Nat
      BY DEF FrameType
    <2>2. c.drop[x] > 0 \/ c.got[x] > 0 \/ x \in c.list \/ x \in m
      BY <1>2, <2>1 DEF In
    <2> QED
      BY <2>2 DEF Content
  <1>9. Content(c2, {}, r)
    BY <1>3, <1>6, <1>7, <1>8 DEF Content, IncContent, RebindContent, RestContent
  <1>10. ASSUME NEW refs, NEW x \in Actor
         PROVE  DebtTo(c2, refs, x) = DebtTo(c, refs, x) + In(x, m)
    <2>1. PICK g, d, l, e \in Nat : g = c.got[x] /\ d = c.drop[x] /\ l = In(x, c.list) /\ e = In(x, m)
      BY DEF In, FrameType
    <2>2. c2.got[x] = 0 /\ c2.drop[x] = (d + g) + (l + e) /\ In(x, c2.list) = 0
      BY <1>2, <1>5, <1>6, <2>1 DEF In
    <2>3. DebtTo(c2, refs, x) = 0 + ((d + g) + (l + e)) + 0 + 0 /\ DebtTo(c, refs, x) = g + d + l + 0
      BY <1>6, <1>7, <2>1, <2>2 DEF DebtTo
    <2> QED
      BY <2>1, <2>3
  <1>11. (Locked(c2) => Locked(c)) /\ (Observing(c) => c.op = "inc")
    BY <1>3, <1>6, <1>7 DEF Locked, Observing
  <1>12. Sees(c2) /\ Sees(c2)'
    BY <1>3, <1>6 DEF Sees
  <1> QED
    BY <1>1, <1>6, <1>9, <1>10, <1>11, <1>12 DEF Unwinds

\* The innermost call throws, because the actor has failed or as it fails now.
Throws(t, b, f) ==
    /\ TopIs(t, b, f) /\ f.op = "inc" /\ Throw(t, b) /\ Free(t, f)
    /\ UNCHANGED <<count, ref, countSection, handles>>
    /\ \/ f.pc = "count" /\ failed' = failed /\ actorLock' = actorLock
       \/ /\ f.pc = "unwind" /\ f.drop = Nil
          /\ failed' = [failed EXCEPT ![f.a] = TRUE] /\ actorLock' = [actorLock EXCEPT ![f.a] = NoThread]

LEMMA ThrowFails ==
    ASSUME Inv, NEW t \in Thread, NEW b, NEW f, Throws(t, b, f)
    PROVE  /\ failed' \in [Actor -> BOOLEAN] /\ actorLock' \in [Actor -> Thread \cup {NoThread}]
           /\ \A x \in Actor : DebtTo(f, ref, x) = 0
           /\ ~Observing(f)
  <1>1. f \in FrameType /\ f.op = "inc" /\ Content(f, {}, ref[f.a])
    BY DEF Throws, TopIs
  <1>2. failed' \in [Actor -> BOOLEAN] /\ actorLock' \in [Actor -> Thread \cup {NoThread}]
    BY DEF Inv, TypeOK, Throws
  <1>3. ASSUME NEW x \in Actor PROVE DebtTo(f, ref, x) = 0
    <2>1. f.got = Nil /\ f.drop = Nil /\ f.list = {}
      BY <1>1 DEF Throws, Content, IncContent
    <2>2. f.got[x] = 0 /\ f.drop[x] = 0 /\ In(x, f.list) = 0
      BY <2>1 DEF Nil, In
    <2> QED
      BY <1>1, <2>2 DEF DebtTo
  <1>4. ~Observing(f)
    BY <1>1 DEF Throws, Observing
  <1> QED
    BY <1>2, <1>3, <1>4

LEMMA ThrowLock ==
    ASSUME Inv, NEW t \in Thread, NEW b, NEW f, Throws(t, b, f), NEW s2, NEW n, Kept(t, s2, n),
           n < Len(stack[t]),
           \A i \in n + 1 .. Len(s2) : Locked(s2[i]) =>
              /\ i \in DOMAIN stack[t] /\ i # Len(stack[t]) /\ Locked(stack[t][i])
              /\ s2[i].a = stack[t][i].a /\ s2[i].op = stack[t][i].op
    PROVE  LockInv'
  <1>1. TypeOK /\ LockInv /\ count' = count
    BY DEF Inv, Throws
  <1>2. /\ f \in FrameType /\ f.a \in Actor /\ stack[t] # <<>> /\ stack[t][Len(stack[t])] = f
        /\ f.op = "inc"
    BY AppendFacts DEF Throws, TopIs
  <1>3. CASE f.pc = "count" /\ actorLock' = actorLock
    BY <1>1, <1>3, LockSame
  <1>4. CASE f.pc = "unwind" /\ actorLock' = [actorLock EXCEPT ![f.a] = NoThread]
    <2>1. PICK a \in Actor : a = f.a
      BY <1>2
    <2>2. Locked(f)
      BY <1>2, <1>4 DEF Locked
    <2>3. GivesLock(t, s2, n, a)
      BY <1>1, <1>2, <1>4, <2>1, <2>2 DEF GivesLock
    <2> QED
      BY <1>1, <2>3, LockGive
  <1> QED
    BY <1>3, <1>4 DEF Throws

LEMMA ThrowEnds ==
    ASSUME Inv, NEW t \in Thread, NEW f, Throws(t, <<>>, f)
    PROVE  Inv'
  <1>1. /\ TypeOK /\ Balanced /\ StackInv /\ BaseInv /\ LockInv /\ AllSee /\ SupplInv /\ Observed
    BY DEF Inv
  <1>2. PICK b \in Seq(FrameType) : b = <<>>
    BY EmptySeq
  <1>3. TopIs(t, b, f) /\ Throws(t, b, f)
    BY <1>2 DEF Throws
  <1>4. /\ f \in FrameType /\ f.a \in Actor /\ stack[t] = Append(b, f) /\ f.op = "inc"
    BY <1>3 DEF TopIs, Throws
  <1>5. stack' = [stack EXCEPT ![t] = b] /\ UNCHANGED <<count, suppl, hasSuppl, ref, countSection, handles>>
    BY <1>2, <1>3 DEF Throws, Throw
  <1>6. PICK n : Left(t, b, f, n)
    BY <1>1, <1>4, <1>5, Leave
  <1>7. Kept(t, b, n) /\ n < Len(stack[t]) /\ stack[t] # <<>> /\ \A i : i \notin n + 1 .. Len(b)
    BY <1>6 DEF Left
  <1>8. /\ failed' \in [Actor -> BOOLEAN] /\ actorLock' \in [Actor -> Thread \cup {NoThread}]
        /\ \A x \in Actor : DebtTo(f, ref, x) = 0
        /\ ~Observing(f) /\ Free(t, f)
    BY <1>3, ThrowFails DEF Throws
  <1>9. TypeOK'
    BY <1>1, <1>5, <1>7, <1>8, TypeStep DEF TypeOK
  <1>10. StackInv'
    <2>1. Stacked(b, ref)
      <3>1. DOMAIN b = {}
        BY <1>2
      <3> QED
        BY <3>1 DEF Stacked
    <2> QED
      BY <1>1, <1>5, <2>1, StackStep
  <1>11. Balanced'
    <2>1. ASSUME NEW x \in Actor PROVE Debts(b, ref, x) = Debts(stack[t], ref, x)
      <3>1. Debts(stack[t], ref, x) = Debts(b, ref, x) + 0 /\ Debts(b, ref, x) \in Nat
        BY <1>4, <1>8, DebtsAppend
      <3> QED
        BY <3>1
    <2>2. stack' = [stack EXCEPT ![t] = b] /\ UNCHANGED <<count, suppl, ref, handles>>
      BY <1>5
    <2> QED
      BY ONLY <1>1, <2>1, <2>2, BalancedCalls
  <1>12. BaseInv'
    BY <1>1, <1>2, <1>5, <1>7, BaseStep
  <1>13. LockInv'
    BY <1>3, <1>7, ThrowLock
  <1>14. AllSee'
    BY <1>1, <1>5, <1>7, <1>8, <1>9, SeeStep DEF Free
  <1>15. SupplInv'
    BY <1>1, <1>5 DEF SupplInv
  <1>16. Observed'
    <2>1. \A i \in n + 1 .. Len(stack[t]) : ~Observing(stack[t][i])
      BY <1>6, <1>8 DEF Left
    <2> QED
      BY <1>1, <1>5, <1>7, <2>1, ObservedStep
  <1> QED
    BY <1>9, <1>10, <1>11, <1>12, <1>13, <1>14, <1>15, <1>16 DEF Inv

LEMMA ThrowReturns ==
    ASSUME Inv, NEW t \in Thread, NEW b, NEW f, Throws(t, b, f),
           NEW b0 \in Seq(FrameType), NEW c \in FrameType, b = Append(b0, c)
    PROVE  Inv'
  <1>1. /\ TypeOK /\ Balanced /\ StackInv /\ BaseInv /\ LockInv /\ AllSee /\ SupplInv /\ Observed
    BY DEF Inv
  <1>2. /\ b \in Seq(FrameType) /\ f \in FrameType /\ f.a \in Actor /\ stack[t] = Append(b, f) /\ f.op = "inc"
        /\ UNCHANGED <<count, ref, countSection, handles>>
    BY DEF TopIs, Throws
  <1>3. PICK a \in Actor : a = c.a
    BY DEF FrameType
  <1>4. PICK m \in SUBSET Under(a) : m = IF c.op = "inc" THEN suppl[a] ELSE {}
    BY <1>1, MoveFacts
  <1>5. m = IF c.op = "inc" /\ hasSuppl[a] THEN suppl[a] ELSE {}
    <2>1. suppl[a] = IF hasSuppl[a] THEN suppl[a] ELSE {}
      BY MoveFacts
    <2> QED
      BY <1>4, <2>1
  <1>6. PICK c2 : c2 = Unwound(c, m)
    OBVIOUS
  <1>7. b # <<>> /\ Front(b) = b0 /\ Last(b) = c
    BY AppendFacts
  <1>8. /\ stack' = [stack EXCEPT ![t] = Append(b0, c2)]
        /\ IF c.op = "inc" /\ hasSuppl[a] THEN MoveSuppl(a) ELSE UNCHANGED <<suppl, hasSuppl>>
    BY <1>3, <1>5, <1>6, <1>7 DEF Throws, Throw
  <1>9. /\ suppl' \in [Actor -> SUBSET Actor] /\ hasSuppl' \in [Actor -> BOOLEAN]
        /\ suppl'[a] = suppl[a] \ m
        /\ c.op = "inc" => ~hasSuppl'[a]
        /\ \A x \in Actor : hasSuppl'[x] => hasSuppl[x]
        /\ \A x \in Actor \ {a} : suppl'[x] = suppl[x]
        /\ \A x \in Actor : suppl'[x] \subseteq IF hasSuppl'[x] THEN Suppl[x] ELSE {}
    <2>0. suppl \in [Actor -> SUBSET Actor] /\ hasSuppl \in [Actor -> BOOLEAN]
          /\ \A x \in Actor : suppl[x] \subseteq IF hasSuppl[x] THEN Suppl[x] ELSE {}
      BY <1>1 DEF TypeOK, SupplInv
    <2>1. CASE c.op = "inc"
      <3>1. suppl' = [suppl EXCEPT ![a] = {}] /\ hasSuppl' = [hasSuppl EXCEPT ![a] = FALSE]
        BY <1>8, <2>1, MoveFacts
      <3> QED
        BY <1>4, <2>0, <2>1, <3>1
    <2>2. CASE c.op # "inc"
      BY <1>4, <1>8, <2>0, <2>2
    <2> QED
      BY <2>1, <2>2
  <1>10. stack[t] = Append(Append(b0, c), f)
    BY <1>2
  <1>11. Content(c, {f.a}, ref[c.a])
    <2>1. Content(c, Asks(f), ref[c.a])
      BY <1>1, <1>2, <1>10, CallerFacts
    <2> QED
      BY <1>2, <2>1 DEF Asks
  <1>12. Unwinds(c, c2, m, ref[c.a])
    <2>1. m \in SUBSET Under(c.a)
      BY <1>3
    <2> QED
      BY <1>6, <1>11, <2>1, UnwoundFacts
  <1>13. /\ c2 \in FrameType /\ c2.op = c.op /\ c2.a = c.a /\ Content(c2, {}, ref[c.a])
         /\ \A x \in Actor : DebtTo(c2, ref, x) = DebtTo(c, ref, x) + In(x, m)
         /\ Locked(c2) => Locked(c)
         /\ Observing(c) => c.op = "inc"
         /\ Sees(c2)'
    BY <1>12 DEF Unwinds
  <1>14. PICK s2, n : Returned(t, b0, c, c2, f, s2, n)
    BY <1>1, <1>2, <1>8, <1>10, <1>13, ReturnTo
  <1>15. Kept(t, s2, n) /\ n < Len(stack[t]) /\ s2 = Append(b0, c2) /\ stack[t] # <<>>
    BY <1>14 DEF Returned
  <1>16. /\ failed' \in [Actor -> BOOLEAN] /\ actorLock' \in [Actor -> Thread \cup {NoThread}]
         /\ \A x \in Actor : DebtTo(f, ref, x) = 0
         /\ ~Observing(f) /\ Free(t, f)
    BY ThrowFails DEF Throws
  <1>17. TypeOK'
    BY <1>1, <1>2, <1>9, <1>15, <1>16, TypeStep DEF TypeOK
  <1>18. StackInv'
    BY <1>1, <1>2, <1>8, <1>10, <1>13, ReturnStacked
  <1>19. Balanced'
    <2>1. ASSUME NEW x \in Actor
          PROVE  count'[x] + handles[t][x] + Debts(stack[t], ref, x) + Hold(a, x)
                 = count[x] + handles'[t][x] + Debts(s2, ref, x) + Hold(a, x)'
      <3>1. PICK ct, h, p, d, i \in Nat :
               /\ ct = count[x] /\ h = handles[t][x] /\ d = Debts(b0, ref, x)
               /\ p = DebtTo(c, ref, x) /\ i = In(x, m)
        BY <1>1, OweType, DebtType, DebtsAppend DEF In, TypeOK
      <3>2. PICK r, j \in Nat : j = In(x, suppl'[a])
                             /\ r = IF count[a] = 0 THEN 0
                                    ELSE In(x, Units[a]) + In(x, Parent[a]) + In(x, Calc[a]) + In(x, {ref[a]})
        BY DEF In
      <3>3. In(x, suppl[a]) = j + i
        <4>1. m \subseteq suppl[a]
          BY <1>4
        <4> QED
          BY <1>9, <3>1, <3>2, <4>1 DEF In
      <3>4. Hold(a, x) = (j + i) + r /\ Hold(a, x)' = j + r
        BY <1>2, <3>2, <3>3 DEF Hold
      <3>5. Debts(b, ref, x) = d + p
        BY <3>1, DebtsAppend
      <3>6. Debts(stack[t], ref, x) = (d + p) + 0
        <4>1. Debts(Append(b, f), ref, x) = Debts(b, ref, x) + DebtTo(f, ref, x)
          BY <1>2, DebtsAppend, ZenonT(60)
        <4>2. DebtTo(f, ref, x) = 0
          BY <1>16
        <4> QED
          BY ONLY <1>2, <3>1, <3>5, <4>1, <4>2
      <3>7. DebtTo(c2, ref, x) = p + i
        BY <1>13, <3>1
      <3>8. Debts(s2, ref, x) = d + (p + i)
        BY <1>13, <1>15, <3>1, <3>7, DebtsAppend
      <3>9. count'[x] = ct /\ handles'[t][x] = h
        BY <1>2, <3>1
      <3>10. ct + h + ((d + p) + 0) + ((j + i) + r) = ct + h + (d + (p + i)) + (j + r)
        OBVIOUS
      <3> QED
        BY ONLY <3>1, <3>4, <3>6, <3>8, <3>9, <3>10
    <2>2. /\ ref' = ref /\ stack' = [stack EXCEPT ![t] = s2]
          /\ \A u \in Thread \ {t} : handles'[u] = handles[u]
          /\ \A x \in Actor \ {a} : count'[x] = count[x] /\ suppl'[x] = suppl[x]
      BY <1>2, <1>8, <1>9, <1>15
    <2> QED
      BY ONLY <1>1, <1>17, <2>1, <2>2, Balance
  <1>20. BaseInv'
    <2>1. t = Meta
      BY <1>2, <1>16 DEF Free
    <2> QED
      BY <1>1, <1>2, <1>14, <1>15, <2>1, BaseStep DEF Returned
  <1>21. LockInv'
    <2>1. \A i \in n + 1 .. Len(s2) : Locked(s2[i]) =>
              /\ i \in DOMAIN stack[t] /\ i # Len(stack[t]) /\ Locked(stack[t][i])
              /\ s2[i].a = stack[t][i].a /\ s2[i].op = stack[t][i].op
      BY <1>13, <1>14 DEF Returned
    <2> QED
      BY <1>15, <2>1, ThrowLock
  <1>22. AllSee'
    <2>1. \A i \in n + 1 .. Len(s2) : Sees(s2[i])'
      <3> SUFFICES ASSUME NEW i \in n + 1 .. Len(s2) PROVE Sees(s2[i])'
        OBVIOUS
      <3>1. Sees(c2)'
        BY <1>13
      <3>2. s2[i] = c2 /\ ~ (i < Len(s2))
        BY <1>14 DEF Returned
      <3> QED
        BY <3>1, <3>2 DEF Sees
    <2>2. \A u \in Thread : \A i \in DOMAIN stack[u] : stack[u][i].a \in Actor
      BY <1>1, StackFacts DEF FrameType
    <2> QED
      BY <1>1, <1>2, <1>9, <1>15, <1>16, <1>17, <2>1, <2>2, SeeStep DEF Free
  <1>23. SupplInv'
    BY <1>9 DEF SupplInv
  <1>24. Observed'
    <2>1. \A i \in n + 1 .. Len(stack[t]) : Observing(stack[t][i]) => ~hasSuppl'[stack[t][i].a]
      BY <1>3, <1>9, <1>13, <1>14, <1>16 DEF Returned
    <2> QED
      BY <1>1, <1>2, <1>9, <1>15, <2>1, ObservedStep
  <1> QED
    BY <1>17, <1>18, <1>19, <1>20, <1>21, <1>22, <1>23, <1>24 DEF Inv

LEMMA ThrowStep ==
    ASSUME Inv, NEW t \in Thread, NEW b, NEW f, Throws(t, b, f)
    PROVE  Inv'
  <1>1. b \in Seq(FrameType)
    BY DEF Throws, TopIs
  <1>2. CASE b = <<>>
    BY <1>2, ThrowEnds
  <1>3. CASE b # <<>>
    <2>1. PICK b0 \in Seq(FrameType), c \in FrameType : b = Append(b0, c)
      BY <1>1, <1>3, SplitStack
    <2> QED
      BY <2>1, ThrowReturns
  <1> QED
    BY <1>2, <1>3

LEMMA IncFailStep ==
    ASSUME Inv, NEW t \in Thread, IncFail(t)
    PROVE  Inv'
  <1>1. stack[t] # <<>> /\ UNCHANGED <<count, ref, countSection, handles>>
    BY DEF IncFail, At
  <1>2. PICK b, f : TopIs(t, b, f)
    BY <1>1, TopFacts
  <1>3. Top(t) = f /\ Below(t) = b /\ (Free(t, f) \/ (f.op \in {"inc", "dec"} /\ f.pc = "count"))
    BY <1>2 DEF TopIs
  <1>4. Throws(t, b, f)
    BY <1>1, <1>2, <1>3 DEF IncFail, At, Throws
  <1> QED
    BY <1>4, ThrowStep

LEMMA IncCountStep ==
    ASSUME Inv, NEW t \in Thread, IncCount(t)
    PROVE  Inv'
  <1>1. stack[t] # <<>> /\ UNCHANGED <<failed, ref, actorLock, countSection>>
    BY DEF IncCount, At
  <1>2. PICK b, f : TopIs(t, b, f)
    BY <1>1, TopFacts
  <1>3. /\ b \in Seq(FrameType) /\ f \in FrameType /\ f.a \in Actor /\ Front(stack[t]) = b /\ Below(t) = b
        /\ stack[t] = Append(b, f) /\ Top(t) = f /\ Content(f, {}, ref[f.a])
    BY <1>2 DEF TopIs
  <1>4. f.op = "inc" /\ f.pc = "count" /\ SectionFree
    BY <1>3 DEF IncCount, At
  <1>8. count[f.a] > 0 \/ Free(t, f)
    <2>1. PICK i \in DOMAIN stack[t] : stack[t][i] = f
      BY <1>2 DEF TopIs
    <2> QED
      BY <1>4, <2>1, CopySees DEF Free, SectionFree
  <1>5. CASE count[f.a] > 0
    <2>1. count' = [count EXCEPT ![f.a] = @ + 1] /\ ReturnInc(t) /\ UNCHANGED <<suppl, hasSuppl>>
      BY <1>3, <1>5 DEF IncCount
    <2>2. EndsInc(t, b, f)
      BY <1>1, <1>2, <1>4, <1>5, <2>1 DEF EndsInc
    <2> QED
      BY <2>2, GainStep
  <1>6. CASE ~ (count[f.a] > 0) /\ failed[f.a]
    <2>1. Throw(t, b) /\ UNCHANGED <<count, handles>>
      BY <1>3, <1>6 DEF IncCount
    <2>2. Throws(t, b, f)
      BY <1>1, <1>2, <1>4, <1>6, <1>8, <2>1 DEF Throws
    <2> QED
      BY <2>2, ThrowStep
  <1>7. CASE ~ (count[f.a] > 0) /\ ~failed[f.a]
    <2>1. PICK f2 : f2 = [f EXCEPT !.pc = "lock"]
      OBVIOUS
    <2>2. stack' = [stack EXCEPT ![t] = Append(b, f2)] /\ UNCHANGED <<suppl, hasSuppl, count, handles>>
      BY <1>3, <1>7, <2>1 DEF IncCount, Goto, TypeOK, Inv
    <2>3. /\ f2.op = f.op /\ f2.a = f.a /\ f2.got = f.got /\ f2.next = f.next /\ f2.todo = f.todo
          /\ f2.list = f.list /\ f2.drop = f.drop /\ f2.pc = "lock" /\ f2 \in FrameType
      BY <1>3, <2>1 DEF FrameType
    <2>4. Content(f2, {}, ref[f.a])
      BY <1>3, <1>4, <2>3 DEF Content, IncContent
    <2>5. Sees(f2) /\ (Locked(f2) => Locked(f)) /\ (Observing(f) => Observing(f2)) /\ Free(t, f)
      BY <1>4, <1>7, <1>8, <2>3 DEF Sees, Locked, Observing
    <2>6. \A x \in Actor : DebtTo(f2, ref, x) = DebtTo(f, ref, x)
      BY <1>4, <2>3 DEF DebtTo
    <2>7. GoesOn(t, b, f, f2) /\ Quiet
      BY <1>1, <1>3, <2>2, <2>3 DEF GoesOn, Quiet
    <2> QED
      BY <2>4, <2>5, <2>6, <2>7, StayQuiet
  <1> QED
    BY <1>5, <1>6, <1>7

-----------------------------------------------------------------------------
(* Steps that begin a call *)

\* The first call of a thread, which may take over one of its interest pointers.
Begins(t, g) ==
    /\ g \in FrameType /\ stack[t] = <<>> /\ stack' = [stack EXCEPT ![t] = Append(@, g)]
    /\ UNCHANGED <<count, suppl, hasSuppl, ref, countSection>>
    /\ Content(g, {}, ref[g.a]) /\ Sees(g)'
    /\ failed' \in [Actor -> BOOLEAN]
    /\ handles' \in [Thread -> [Actor -> 0 .. MaxHandles]]
    /\ \A u \in Thread \ {t} : handles'[u] = handles[u]
    /\ \A x \in Actor : handles[t][x] = handles'[t][x] + DebtTo(g, ref, x)
    /\ g.op = "inc" => handles'[t][g.a] < MaxHandles
    /\ \/ t = Meta \/ g.op \in {"dec", "fail"}
       \/ g.op = "inc" /\ g.pc = "count" /\ handles'[t][g.a] > 0
    /\ \/ ~Locked(g) /\ actorLock' = actorLock
       \/ /\ g.op = "restart" /\ actorLock[g.a] = NoThread
          /\ actorLock' = [actorLock EXCEPT ![g.a] = t]

LEMMA BeginStep ==
    ASSUME Inv, NEW t \in Thread, NEW g, Begins(t, g)
    PROVE  Inv'
  <1>1. /\ TypeOK /\ Balanced /\ StackInv /\ BaseInv /\ LockInv /\ AllSee /\ SupplInv /\ Observed
    BY DEF Inv
  <1>2. /\ g \in FrameType /\ stack[t] = <<>> /\ stack' = [stack EXCEPT ![t] = Append(@, g)]
        /\ UNCHANGED <<count, suppl, hasSuppl, ref, countSection>>
        /\ Content(g, {}, ref[g.a]) /\ Sees(g)'
    BY DEF Begins
  <1>3. PICK s2 : Entered(t, g, s2)
    BY <1>1, <1>2, EnterOne
  <1>4. /\ Kept(t, s2, 0) /\ s2 # <<>> /\ s2[1] = g /\ s2 = Append(<<>>, g) /\ Len(s2) = 1
        /\ stack' = [stack EXCEPT ![t] = s2] /\ 1 \in DOMAIN s2
        /\ \A i \in 0 + 1 .. Len(s2) : i = 1 /\ s2[i] = g /\ ~ (i < Len(s2))
        /\ \A i : i \notin 0 + 1 .. Len(stack[t])
    <2>1. 1 \in 0 + 1 .. 1
      OBVIOUS
    <2> QED
      BY <1>3, <2>1 DEF Entered
  <1>5. TypeOK'
    <2>1. actorLock' \in [Actor -> Thread \cup {NoThread}]
      <3>1. actorLock \in [Actor -> Thread \cup {NoThread}]
        BY <1>1 DEF TypeOK
      <3>2. actorLock' = actorLock \/ actorLock' = [actorLock EXCEPT ![g.a] = t]
        BY DEF Begins
      <3> QED
        BY <3>1, <3>2
    <2> QED
      BY <1>1, <1>2, <1>4, <2>1, TypeStep DEF TypeOK, Begins
  <1>6. StackInv'
    <2>1. PICK e \in Seq(FrameType) : e = <<>>
      BY EmptySeq
    <2>2. Carries(e, g, ref)
      BY <2>1, CarriesNothing
    <2>3. Stacked(Append(e, g), ref)
      BY <1>2, <2>2, StackedSplit
    <2> QED
      BY <1>1, <1>2, <1>4, <2>1, <2>3, StackStep
  <1>7. Balanced'
    <2>1. PICK a \in Actor : a = g.a
      BY <1>2 DEF FrameType
    <2>2. ASSUME NEW x \in Actor
          PROVE  count'[x] + handles[t][x] + Debts(stack[t], ref, x) + Hold(a, x)
                 = count[x] + handles'[t][x] + Debts(s2, ref, x) + Hold(a, x)'
      <3>1. PICK ct, h, h2, e, k \in Nat :
               /\ ct = count[x] /\ h = handles[t][x] /\ h2 = handles'[t][x]
               /\ e = DebtTo(g, ref, x) /\ k = Hold(a, x)
        <4>1. handles'[t][x] \in Nat
          BY InterestAssumption DEF Begins
        <4> QED
          BY <1>1, <1>2, <4>1, OweType, DebtType, HoldType DEF TypeOK
      <3>2. PICK b \in Seq(FrameType) : b = <<>>
        BY EmptySeq
      <3>3. Debts(b, ref, x) = 0
        BY <3>2, <1>2, DebtsAppend
      <3>4. Debts(stack[t], ref, x) = 0 /\ Debts(s2, ref, x) = 0 + e
        <4>1. Debts(Append(b, g), ref, x) = Debts(b, ref, x) + DebtTo(g, ref, x)
          BY <1>2, DebtsAppend
        <4>2. stack[t] = b /\ s2 = Append(b, g)
          BY <1>2, <1>4, <3>2
        <4> QED
          BY ONLY <3>1, <3>3, <4>1, <4>2
      <3>5. h = h2 + e
        BY <3>1 DEF Begins
      <3>6. Hold(a, x)' = k /\ count'[x] = ct
        BY <1>2, <3>1 DEF Hold
      <3>7. ct + h + 0 + k = ct + h2 + (0 + e) + k
        BY ONLY <3>5
      <3> QED
        BY ONLY <3>1, <3>4, <3>6, <3>7
    <2>3. /\ ref' = ref /\ stack' = [stack EXCEPT ![t] = s2]
          /\ \A u \in Thread \ {t} : handles'[u] = handles[u]
          /\ \A x \in Actor \ {a} : count'[x] = count[x] /\ suppl'[x] = suppl[x]
      BY <1>2, <1>4 DEF Begins
    <2> QED
      BY ONLY <1>1, <1>5, <2>2, <2>3, Balance
  <1>8. BaseInv'
    <2>1. /\ s2[1].op = "inc" => handles'[t][s2[1].a] < MaxHandles
          /\ \A u \in Thread \ {t} : handles'[u] = handles[u]
      BY <1>4 DEF Begins
    <2>2. t = Meta \/ \A i \in DOMAIN s2 : Modest(t, s2, i, handles')
      <3>1. DOMAIN s2 = {1}
        <4>1. s2 \in Seq(FrameType) /\ Len(s2) = 1
          BY <1>4 DEF Kept
        <4> QED
          BY <4>1, LenProperties
      <3> QED
        BY <1>4, <3>1 DEF Begins, Modest
    <2> QED
      BY ONLY <1>1, <1>4, <2>1, <2>2, BaseEnter
  <1>9. LockInv'
    <2>1. CASE ~Locked(g) /\ actorLock' = actorLock
      <3>1. \A i \in 0 + 1 .. Len(s2) : ~Locked(s2[i])
        BY <1>4, <2>1
      <3> QED
        BY <1>1, <1>2, <1>4, <2>1, <3>1, LockSame
    <2>2. CASE g.op = "restart" /\ actorLock[g.a] = NoThread /\ actorLock' = [actorLock EXCEPT ![g.a] = t]
      <3>1. PICK a \in Actor : a = g.a
        BY <1>2 DEF FrameType
      <3>2. 0 + 1 = 1
        OBVIOUS
      <3>3. /\ Len(s2) = 0 + 1 /\ s2[0 + 1].a = a /\ (s2[0 + 1].op # "restart" => count'[a] = 0)
            /\ actorLock[a] = NoThread /\ actorLock' = [actorLock EXCEPT ![a] = t]
            /\ \A c \in Actor \ {a} : count[c] = 0 => count'[c] = 0
        BY <1>2, <1>4, <2>2, <3>1, <3>2
      <3> QED
        BY ONLY <1>1, <1>4, <3>3, LockTake
    <2> QED
      BY <2>1, <2>2 DEF Begins
  <1>10. AllSee'
    <2>1. \A i \in 0 + 1 .. Len(s2) : Sees(s2[i])'
      BY <1>2, <1>4 DEF Sees
    <2>2. countSection = NoThread \/ t # Meta
      BY <1>1, <1>2 DEF AllSee, At
    <2>3. \A u \in Thread : \A i \in DOMAIN stack[u] :
             stack[u][i].op \in {"rebind", "invalidate"} /\ (u = t => i \in 1 .. 0) =>
                /\ count[stack[u][i].a] = 0 => count'[stack[u][i].a] = 0
                /\ hasSuppl'[stack[u][i].a] => hasSuppl[stack[u][i].a]
      BY <1>2
    <2> QED
      BY <1>1, <1>2, <1>4, <1>5, <2>1, <2>2, <2>3, SeeStep
  <1>11. SupplInv'
    BY <1>1, <1>2 DEF SupplInv
  <1>12. Observed'
    <2>1. \A i \in 0 + 1 .. Len(stack[t]) : ~Observing(stack[t][i])
      BY <1>4
    <2> QED
      BY <1>1, <1>2, <1>4, <2>1, ObservedStep
  <1> QED
    BY <1>5, <1>6, <1>7, <1>8, <1>9, <1>10, <1>11, <1>12 DEF Inv

LEMMA TakeStep ==
    ASSUME Inv, NEW t \in Thread, NEW a \in Actor, Take(t, a)
    PROVE  Inv'
  <1>1. TypeOK /\ BaseInv
    BY DEF Inv
  <1>2. PICK g : g = IncFrame(a)
    OBVIOUS
  <1>3. g \in {IncFrame(a), DecFrame(a)}
    BY <1>2
  <1>4. /\ g \in FrameType /\ g.a = a /\ g.pc = "count" /\ g.op = "inc"
        /\ Content(g, {}, ref[g.a]) /\ ~Locked(g) /\ Sees(g)'
        /\ \A x \in Actor : DebtTo(g, ref, x) = 0
    <2>1. \A refs : \A x \in Actor : DebtTo(g, refs, x) = IF g.op = "inc" THEN 0 ELSE In(x, {a})
      BY <1>3, NewFrames
    <2> QED
      BY <1>2, <1>3, <2>1, NewFrames, ZenonT(60)
  <1>5. /\ stack[t] = <<>> /\ stack' = [stack EXCEPT ![t] = Append(@, g)] /\ handles[t][a] < MaxHandles
        /\ t = Meta \/ handles[t][a] > 0
        /\ UNCHANGED <<count, suppl, hasSuppl, failed, ref, actorLock, countSection, handles>>
    BY <1>2 DEF Take, IsIdle, Enter
  <1>6. t = Meta \/ handles'[t][g.a] > 0
    BY <1>4, <1>5
  <1>7. \A x \in Actor : handles[t][x] = handles'[t][x] + DebtTo(g, ref, x)
    <2>1. \A x \in Actor : handles[t][x] \in Nat
      BY <1>1, OweType
    <2> QED
      BY <1>4, <1>5, <2>1
  <1>8. failed' \in [Actor -> BOOLEAN] /\ handles' \in [Thread -> [Actor -> 0 .. MaxHandles]]
    BY <1>1, <1>5 DEF TypeOK
  <1>9. Begins(t, g)
    BY <1>4, <1>5, <1>6, <1>7, <1>8 DEF Begins
  <1> QED
    BY <1>9, BeginStep

LEMMA DropStep ==
    ASSUME Inv, NEW t \in Thread, NEW a \in Actor, Drop(t, a)
    PROVE  Inv'
  <1>1. TypeOK /\ BaseInv
    BY DEF Inv
  <1>2. PICK g : g = DecFrame(a)
    OBVIOUS
  <1>3. g \in {IncFrame(a), DecFrame(a)}
    BY <1>2
  <1>4. /\ g \in FrameType /\ g.a = a /\ g.pc = "count" /\ g.op = "dec"
        /\ Content(g, {}, ref[g.a]) /\ ~Locked(g) /\ Sees(g)'
        /\ \A x \in Actor : DebtTo(g, ref, x) = In(x, {a})
    <2>1. \A refs : \A x \in Actor : DebtTo(g, refs, x) = IF g.op = "inc" THEN 0 ELSE In(x, {a})
      BY <1>3, NewFrames
    <2>2. g.op = "dec"
      BY <1>2 DEF DecFrame, Frame
    <2>3. g \in FrameType /\ g.a = a /\ g.pc = "count" /\ ~Locked(g)
      BY <1>3, NewFrames
    <2>4. Content(g, {}, ref[g.a])
      BY <1>3, NewFrames
    <2>5. Sees(g)'
      BY <1>3, NewFrames
    <2> QED
      BY <2>1, <2>2, <2>3, <2>4, <2>5
  <1>5. /\ stack[t] = <<>> /\ stack' = [stack EXCEPT ![t] = Append(@, g)] /\ handles[t][a] > 0
        /\ handles' = [handles EXCEPT ![t][a] = @ - 1]
        /\ UNCHANGED <<count, suppl, hasSuppl, failed, ref, actorLock, countSection>>
    BY <1>2 DEF Drop, IsIdle, Enter
  <1>7. /\ handles' \in [Thread -> [Actor -> 0 .. MaxHandles]]
        /\ \A u \in Thread \ {t} : handles'[u] = handles[u]
        /\ \A x \in Actor : handles[t][x] = handles'[t][x] + In(x, {a})
    <2>1. handles \in [Thread -> [Actor -> 0 .. MaxHandles]] /\ MaxHandles \in Nat
      BY <1>1, InterestAssumption DEF TypeOK
    <2>2. handles[t] \in [Actor -> 0 .. MaxHandles] /\ handles[t][a] - 1 \in 0 .. MaxHandles
      BY <1>5, <2>1
    <2>3. handles' = [handles EXCEPT ![t] = [handles[t] EXCEPT ![a] = @ - 1]]
      BY <1>5
    <2>4. [handles[t] EXCEPT ![a] = @ - 1] \in [Actor -> 0 .. MaxHandles]
      BY <2>2
    <2>5. handles'[t] = [handles[t] EXCEPT ![a] = @ - 1]
      BY <2>1, <2>3
    <2>6. \A x \in Actor : handles[t][x] = handles'[t][x] + In(x, {a})
      BY <2>1, <2>2, <2>5 DEF In
    <2> QED
      BY <2>1, <2>3, <2>4, <2>6
  <1>8. failed' \in [Actor -> BOOLEAN]
    BY <1>1, <1>5 DEF TypeOK
  <1>9. Begins(t, g)
    BY <1>4, <1>5, <1>7, <1>8, ZenonT(60) DEF Begins
  <1> QED
    BY <1>9, BeginStep

\* The frames that the meta thread and a failing thread begin with.
First(op, a, pc, todo, drop, next) ==
    [op |-> op, a |-> a, pc |-> pc, todo |-> todo, got |-> Nil, list |-> {}, drop |-> drop,
     next |-> next]

Starts(g, op, a, pc, todo, drop, next) ==
    /\ g \in FrameType /\ g.op = op /\ g.a = a /\ g.pc = pc /\ g.todo = todo /\ g.next = next
    /\ g.drop = drop /\ g.got = Nil /\ g.list = {}
    /\ \A refs : \A x \in Actor : DebtTo(g, refs, x) = drop[x]

LEMMA FrameFacts ==
    ASSUME NEW op \in {"rebind", "invalidate", "restart", "fail"}, NEW a \in Actor,
           NEW pc \in {"read", "check", "suppl", "move"},
           NEW todo \in SUBSET Actor, NEW next \in Actor \cup {NoActor}, NEW drop \in [Actor -> Nat]
    PROVE  Starts(First(op, a, pc, todo, drop, next), op, a, pc, todo, drop, next)
  <1>1. PICK g : g = First(op, a, pc, todo, drop, next)
    OBVIOUS
  <1>2. Nil \in [Actor -> Nat] /\ \A x \in Actor : Nil[x] = 0
    BY DEF Nil
  <1>3. /\ g.op = op /\ g.a = a /\ g.pc = pc /\ g.todo = todo /\ g.next = next
        /\ g.drop = drop /\ g.got = Nil /\ g.list = {} /\ g \in FrameType
    BY <1>1, <1>2 DEF First, FrameType
  <1>4. \A refs : \A x \in Actor : DebtTo(g, refs, x) = drop[x]
    <2>1. \A x \in Actor : In(x, {}) = 0 /\ drop[x] \in Nat
      BY DEF In
    <2> QED
      BY <1>2, <1>3, <2>1 DEF DebtTo
  <1> QED
    BY <1>1, <1>3, <1>4 DEF Starts


LEMMA DoFailStep ==
    ASSUME Inv, NEW t \in Thread, NEW a \in Actor, DoFail(t, a)
    PROVE  Inv'
  <1>1. TypeOK /\ BaseInv
    BY DEF Inv
  <1>2. PICK g : g = Frame("fail", a, "move")
    OBVIOUS
  <1>3. Nil \in [Actor -> Nat] /\ \A x \in Actor : Nil[x] = 0
    BY DEF Nil
  <1>4. g = First("fail", a, "move", {}, Nil, NoActor)
    BY <1>2 DEF Frame, First
  <1>5. /\ g \in FrameType /\ g.op = "fail" /\ g.a = a /\ g.pc = "move" /\ g.todo = {}
        /\ g.drop = Nil /\ g.got = Nil /\ g.list = {}
        /\ \A x \in Actor : DebtTo(g, ref, x) = Nil[x]
    <2>1. Starts(First("fail", a, "move", {}, Nil, NoActor), "fail", a, "move", {}, Nil, NoActor)
      BY <1>3, FrameFacts
    <2> QED
      BY <1>4, <2>1 DEF Starts
  <1>6. /\ stack[t] = <<>> /\ stack' = [stack EXCEPT ![t] = Append(@, g)]
        /\ failed' = [failed EXCEPT ![a] = TRUE]
        /\ UNCHANGED <<count, suppl, hasSuppl, ref, actorLock, countSection, handles>>
    BY <1>2 DEF DoFail, IsIdle, Enter
  <1>7. Content(g, {}, ref[g.a]) /\ ~Locked(g) /\ Sees(g)'
    BY <1>3, <1>5 DEF Content, RestContent, Locked, Sees
  <1>8. \A x \in Actor : handles[t][x] = handles'[t][x] + DebtTo(g, ref, x)
    <2>1. \A x \in Actor : handles[t][x] \in Nat
      BY <1>1, OweType
    <2> QED
      BY <1>3, <1>5, <1>6, <2>1
  <1>9. /\ failed' \in [Actor -> BOOLEAN] /\ handles' \in [Thread -> [Actor -> 0 .. MaxHandles]]
    BY <1>1, <1>6 DEF TypeOK
  <1>10. /\ g \in FrameType /\ g.op = "fail"
         /\ UNCHANGED <<count, suppl, hasSuppl, ref, actorLock, countSection, handles>>
         /\ \A u \in Thread \ {t} : handles'[u] = handles[u]
         /\ g.a = a
    BY <1>5, <1>6
  <1>11. Begins(t, g)
    BY <1>6, <1>7, <1>8, <1>9, <1>10 DEF Begins
  <1> QED
    BY <1>11, BeginStep

LEMMA SetReferredItemStep ==
    ASSUME Inv, NEW a \in Actor, NEW r \in Ref[a], SetReferredItem(a, r)
    PROVE  Inv'
  <1>1. TypeOK /\ Meta \in Thread /\ r \in Actor \cup {NoActor}
    BY InterestAssumption DEF Inv, Thread
  <1>2. PICK g : g = [Frame("rebind", a, "read") EXCEPT !.next = r]
    OBVIOUS
  <1>3. Nil \in [Actor -> Nat] /\ \A x \in Actor : Nil[x] = 0
    BY DEF Nil
  <1>4. g = First("rebind", a, "read", {}, Nil, r)
    BY <1>2 DEF Frame, First
  <1>5. /\ g \in FrameType /\ g.op = "rebind" /\ g.a = a /\ g.pc = "read" /\ g.todo = {} /\ g.next = r
        /\ g.drop = Nil /\ g.got = Nil /\ g.list = {}
        /\ \A x \in Actor : DebtTo(g, ref, x) = Nil[x]
    <2>1. Starts(First("rebind", a, "read", {}, Nil, r), "rebind", a, "read", {}, Nil, r)
      BY <1>1, <1>3, FrameFacts
    <2> QED
      BY <1>4, <2>1 DEF Starts
  <1>6. /\ stack[Meta] = <<>> /\ stack' = [stack EXCEPT ![Meta] = Append(@, g)] /\ a \in Rebindable
        /\ UNCHANGED <<count, suppl, hasSuppl, failed, ref, actorLock, countSection, handles>>
    BY <1>2 DEF SetReferredItem, IsIdle, Enter
  <1>7. Content(g, {}, ref[g.a]) /\ ~Locked(g) /\ Sees(g)'
    BY <1>3, <1>5 DEF Content, RebindContent, Locked, Sees
  <1>8. \A x \in Actor : handles[Meta][x] = handles'[Meta][x] + DebtTo(g, ref, x)
    <2>1. \A x \in Actor : handles[Meta][x] \in Nat
      BY <1>1, OweType
    <2> QED
      BY <1>3, <1>5, <1>6, <2>1
  <1>9. failed' \in [Actor -> BOOLEAN] /\ handles' \in [Thread -> [Actor -> 0 .. MaxHandles]]
    BY <1>1, <1>6 DEF TypeOK
  <1>10. Begins(Meta, g)
    BY <1>1, <1>5, <1>6, <1>7, <1>8, <1>9 DEF Begins
  <1> QED
    BY <1>1, <1>10, BeginStep

LEMMA RestartStep ==
    ASSUME Inv, NEW a \in Actor, Restart(a)
    PROVE  Inv'
  <1>1. TypeOK /\ Meta \in Thread /\ Suppl[a] \in SUBSET Actor /\ Suppl[a] \subseteq Under(a)
    BY InterestAssumption, UnderFacts DEF Inv, Thread
  <1>2. PICK g : g = [Frame("restart", a, "suppl") EXCEPT !.todo = Suppl[a]]
    OBVIOUS
  <1>3. Nil \in [Actor -> Nat] /\ \A x \in Actor : Nil[x] = 0
    BY DEF Nil
  <1>4. g = First("restart", a, "suppl", Suppl[a], Nil, NoActor)
    BY <1>2 DEF Frame, First
  <1>5. /\ g \in FrameType /\ g.op = "restart" /\ g.a = a /\ g.pc = "suppl" /\ g.todo = Suppl[a]
        /\ g.drop = Nil /\ g.got = Nil /\ g.list = {}
        /\ \A x \in Actor : DebtTo(g, ref, x) = Nil[x]
    <2>1. Starts(First("restart", a, "suppl", Suppl[a], Nil, NoActor), "restart", a, "suppl", Suppl[a], Nil, NoActor)
      BY <1>1, <1>3, FrameFacts
    <2> QED
      BY <1>4, <2>1 DEF Starts
  <1>6. /\ stack[Meta] = <<>> /\ stack' = [stack EXCEPT ![Meta] = Append(@, g)]
        /\ actorLock[a] = NoThread /\ actorLock' = [actorLock EXCEPT ![a] = Meta]
        /\ UNCHANGED <<count, suppl, hasSuppl, failed, ref, countSection, handles>>
    BY <1>2 DEF Restart, IsIdle, Enter
  <1>7. Content(g, {}, ref[g.a]) /\ Sees(g)'
    BY <1>1, <1>3, <1>5 DEF Content, RestContent, Sees
  <1>8. \A x \in Actor : handles[Meta][x] = handles'[Meta][x] + DebtTo(g, ref, x)
    <2>1. \A x \in Actor : handles[Meta][x] \in Nat
      BY <1>1, OweType
    <2> QED
      BY <1>3, <1>5, <1>6, <2>1
  <1>9. failed' \in [Actor -> BOOLEAN] /\ handles' \in [Thread -> [Actor -> 0 .. MaxHandles]]
    BY <1>1, <1>6 DEF TypeOK
  <1>10. Begins(Meta, g)
    BY <1>1, <1>5, <1>6, <1>7, <1>8, <1>9 DEF Begins
  <1> QED
    BY <1>1, <1>10, BeginStep

\* InvalidateAt begins with what it moved out, and lets go of what the actor refers to.
Invalidates(a, f, r, s2) ==
    /\ s2 \in Seq(FrameType) /\ s2 # <<>> /\ s2[1] = f
    /\ stack' = [stack EXCEPT ![Meta] = s2] /\ Kept(Meta, s2, 0)
    /\ \A i \in 0 + 1 .. Len(s2) : s2[i] = f \/ (s2[i] = r /\ ~ (i < Len(s2)))
    /\ \A i : i \notin 0 + 1 .. Len(stack[Meta])
    /\ Stacked(s2, ref)
    /\ \A x \in Actor : Debts(stack[Meta], ref, x) = 0 /\ Debts(s2, ref, x) = DebtTo(f, ref, x)

LEMMA InvalidateStacks ==
    ASSUME Inv, NEW a \in Actor, NEW f \in FrameType, NEW r \in FrameType, NEW s2,
           Meta \in Thread, stack[Meta] = <<>>, stack' = [stack EXCEPT ![Meta] = s2],
           s2 = <<f>> \/ s2 = <<f, r>>,
           f.op = "invalidate", f.pc = "check", f.a = a, Content(f, {}, ref[a]),
           r.op = "rebind", r.a = a, Content(r, {}, ref[a]), \A x \in Actor : DebtTo(r, ref, x) = 0
    PROVE  Invalidates(a, f, r, s2)
  <1>1. PICK e \in Seq(FrameType) : e = <<>> /\ Len(e) = 0
    BY EmptySeq
  <1>2. PICK s1 : s1 = Append(e, f)
    OBVIOUS
  <1>3. /\ s1 \in Seq(FrameType) /\ s1 # <<>> /\ Len(s1) = 1 /\ DOMAIN s1 = 1 .. 1 /\ s1[1] = f
    <2>1. /\ s1 \in Seq(FrameType) /\ s1 # <<>> /\ Len(s1) = Len(e) + 1 /\ DOMAIN s1 = 1 .. Len(e) + 1
          /\ s1[Len(e) + 1] = f
      BY <1>2, AppendFacts
    <2>2. Len(e) + 1 = 1
      BY <1>1
    <2> QED
      BY <2>1, <2>2
  <1>4. PICK s : s = Append(s1, r)
    OBVIOUS
  <1>5. /\ s \in Seq(FrameType) /\ s # <<>> /\ Len(s) = 2 /\ s[1] = f /\ s[2] = r
    <2>1. /\ s \in Seq(FrameType) /\ s # <<>> /\ Len(s) = Len(s1) + 1
          /\ \A i \in 1 .. Len(s1) : s[i] = s1[i]
          /\ s[Len(s1) + 1] = r
      BY <1>3, <1>4, AppendFacts
    <2>2. Len(s1) + 1 = 2 /\ 1 \in 1 .. Len(s1)
      BY <1>3
    <2>3. s[1] = s1[1]
      BY <2>1, <2>2
    <2> QED
      BY <1>3, <2>1, <2>2, <2>3
  <1>6. s1 = <<f>> /\ s = <<f, r>>
    <2>1. <<f>> \in Seq(FrameType) /\ Len(<<f>>) = 1 /\ <<f>>[1] = f
      OBVIOUS
    <2>2. <<f, r>> \in Seq(FrameType) /\ Len(<<f, r>>) = 2 /\ <<f, r>>[1] = f /\ <<f, r>>[2] = r
      OBVIOUS
    <2>3. (\A i \in 1 .. 1 : i = 1) /\ \A i \in 1 .. 2 : i = 1 \/ i = 2
      OBVIOUS
    <2>4. PICK u \in Seq(FrameType) : u = <<f>> /\ Len(u) = 1 /\ u[1] = f
      BY <2>1
    <2>5. PICK v \in Seq(FrameType) : v = <<f, r>> /\ Len(v) = 2 /\ v[1] = f /\ v[2] = r
      BY <2>2
    <2>6. s1 = u
      BY ONLY <1>3, <2>3, <2>4, SeqEqual
    <2>7. s = v
      BY ONLY <1>5, <2>3, <2>5, SeqEqual
    <2> QED
      BY ONLY <2>4, <2>5, <2>6, <2>7
  <1>7. s2 = s1 \/ s2 = s
    BY <1>6
  <1>8. Carries(e, f, ref)
    BY <1>1, CarriesNothing
  <1>9. Asks(r) = {} /\ Calls(f, r)
    BY DEF Asks, Calls
  <1>10. Carries(s1, r, ref)
    BY <1>2, <1>8, <1>9, CarriesPush
  <1>11. Stacked(s1, ref) /\ Stacked(s, ref)
    BY <1>2, <1>3, <1>4, <1>8, <1>10, StackedSplit
  <1>12. ASSUME NEW x \in Actor
         PROVE  /\ Debts(stack[Meta], ref, x) = 0 /\ Debts(s1, ref, x) = DebtTo(f, ref, x)
                /\ Debts(s, ref, x) = DebtTo(f, ref, x)
    <2>1. Debts(e, ref, x) = 0 /\ Debts(s1, ref, x) = Debts(e, ref, x) + DebtTo(f, ref, x)
      BY <1>1, <1>2, DebtsAppend
    <2>2. Debts(s, ref, x) = Debts(s1, ref, x) + 0
      BY <1>3, <1>4, DebtsAppend
    <2>3. DebtTo(f, ref, x) \in Nat
      BY DebtType
    <2> QED
      BY <1>1, <2>1, <2>2, <2>3
  <1>13. s2 \in Seq(FrameType) /\ s2 # <<>> /\ s2[1] = f /\ Len(s2) \in {1, 2}
         /\ (Len(s2) = 2 => s2[2] = r)
    BY <1>3, <1>5, <1>7
  <1>14. \A i \in 0 + 1 .. Len(s2) : i = 1 \/ (i = 2 /\ Len(s2) = 2)
    <2>1. PICK n : n = Len(s2)
      OBVIOUS
    <2>2. n = 1 \/ n = 2
      BY <1>13, <2>1
    <2>3. \A i \in 0 + 1 .. n : i = 1 \/ (i = 2 /\ n = 2)
      BY ONLY <2>2
    <2> QED
      BY ONLY <2>1, <2>3
  <1>15. \A i \in 0 + 1 .. Len(s2) : s2[i] = f \/ (s2[i] = r /\ ~ (i < Len(s2)))
    BY <1>13, <1>14
  <1>16. Kept(Meta, s2, 0) /\ \A i : i \notin 0 + 1 .. Len(stack[Meta])
    <2>1. stack[Meta] = e
      BY <1>1
    <2>2. (\A i \in 1 .. 0 : s2[i] = stack[Meta][i]) /\ \A i : i \notin 0 + 1 .. 0
      OBVIOUS
    <2>3. 0 \in Nat /\ 0 <= Len(stack[Meta]) /\ 0 <= Len(s2) /\ Len(stack[Meta]) = 0
      BY <1>1, <1>13, <2>1
    <2> QED
      BY <1>13, <2>2, <2>3 DEF Kept
  <1> QED
    BY <1>7, <1>11, <1>12, <1>13, <1>15, <1>16 DEF Invalidates

LEMMA InvalidateAtStep ==
    ASSUME Inv, NEW a \in Actor, InvalidateAt(a)
    PROVE  Inv'
  <1>1. /\ TypeOK /\ Balanced /\ StackInv /\ BaseInv /\ LockInv /\ AllSee /\ SupplInv /\ Observed
    BY DEF Inv
  <1>2. Meta \in Thread /\ Meta \notin Worker
    BY InterestAssumption DEF Thread
  <1>3. PICK m \in SUBSET Actor :
           m = suppl[a] /\ m \subseteq Under(a) /\ m = IF hasSuppl[a] THEN suppl[a] ELSE {}
    BY MoveFacts
  <1>4. Nil \in [Actor -> Nat] /\ Bag(m) \in [Actor -> Nat]
        /\ \A x \in Actor : Nil[x] = 0 /\ Bag(m)[x] = In(x, m)
    BY DEF Nil, Bag, In
  <1>5. PICK f : f = [Frame("invalidate", a, "check") EXCEPT !.drop = Bag(m)]
    OBVIOUS
  <1>6. PICK r : r = [Frame("rebind", a, "read") EXCEPT !.next = NoActor]
    OBVIOUS
  <1>7. /\ f \in FrameType /\ f.op = "invalidate" /\ f.a = a /\ f.pc = "check" /\ f.todo = {}
        /\ f.drop = Bag(m) /\ f.got = Nil /\ f.list = {}
        /\ \A x \in Actor : DebtTo(f, ref, x) = Bag(m)[x]
    <2>1. f = First("invalidate", a, "check", {}, Bag(m), NoActor)
      BY <1>5 DEF Frame, First
    <2>2. Starts(First("invalidate", a, "check", {}, Bag(m), NoActor), "invalidate", a, "check", {}, Bag(m), NoActor)
      BY <1>4, FrameFacts
    <2> QED
      BY <2>1, <2>2 DEF Starts
  <1>8. /\ r \in FrameType /\ r.op = "rebind" /\ r.a = a /\ r.pc = "read" /\ r.todo = {} /\ r.next = NoActor
        /\ r.drop = Nil /\ r.got = Nil /\ r.list = {}
        /\ \A x \in Actor : DebtTo(r, ref, x) = Nil[x]
    <2>1. r = First("rebind", a, "read", {}, Nil, NoActor)
      BY <1>6 DEF Frame, First
    <2>2. Starts(First("rebind", a, "read", {}, Nil, NoActor), "rebind", a, "read", {}, Nil, NoActor)
      BY <1>4, FrameFacts
    <2> QED
      BY <2>1, <2>2 DEF Starts
  <1>9. PICK s2 : s2 = IF ref[a] = NoActor THEN <<f>> ELSE <<f, r>>
    OBVIOUS
  <1>10. /\ stack[Meta] = <<>> /\ a \in Changeable /\ failed' = [failed EXCEPT ![a] = FALSE]
         /\ stack' = [stack EXCEPT ![Meta] = s2]
         /\ suppl' = [suppl EXCEPT ![a] = {}] /\ hasSuppl' = [hasSuppl EXCEPT ![a] = FALSE]
         /\ UNCHANGED <<count, ref, actorLock, countSection, handles>>
    BY <1>3, <1>5, <1>6, <1>9, MoveFacts DEF InvalidateAt, IsIdle
  <1>11. Content(f, {}, ref[a]) /\ Content(r, {}, ref[a])
    BY <1>3, <1>4, <1>7, <1>8 DEF Content, RestContent, RebindContent, In
  <1>12. Invalidates(a, f, r, s2)
    BY <1>2, <1>4, <1>7, <1>8, <1>9, <1>10, <1>11, InvalidateStacks
  <1>13. /\ Kept(Meta, s2, 0) /\ s2 # <<>> /\ s2[1] = f /\ Stacked(s2, ref)
         /\ \A i \in 0 + 1 .. Len(s2) : s2[i] = f \/ (s2[i] = r /\ ~ (i < Len(s2)))
         /\ \A i : i \notin 0 + 1 .. Len(stack[Meta])
    BY <1>12 DEF Invalidates
  <1>14. /\ suppl' \in [Actor -> SUBSET Actor] /\ hasSuppl' \in [Actor -> BOOLEAN] /\ failed' \in [Actor -> BOOLEAN]
         /\ ~hasSuppl'[a] /\ suppl'[a] = {}
         /\ \A x \in Actor : (hasSuppl'[x] => hasSuppl[x]) /\ (failed'[x] => failed[x])
         /\ \A x \in Actor \ {a} : suppl'[x] = suppl[x] /\ hasSuppl'[x] = hasSuppl[x]
    BY <1>1, <1>10 DEF TypeOK
  <1>15. TypeOK'
    BY <1>1, <1>2, <1>10, <1>13, <1>14, TypeStep DEF TypeOK
  <1>16. StackInv'
    BY <1>1, <1>2, <1>10, <1>13, StackStep
  <1>17. Balanced'
    <2>1. ASSUME NEW x \in Actor
          PROVE  count'[x] + handles[Meta][x] + Debts(stack[Meta], ref, x) + Hold(a, x)
                 = count[x] + handles'[Meta][x] + Debts(s2, ref, x) + Hold(a, x)'
      <3>1. PICK ct, h, i \in Nat : ct = count[x] /\ h = handles[Meta][x] /\ i = In(x, m)
        BY <1>1, <1>2, OweType DEF In, TypeOK
      <3>2. PICK k \in Nat : k = IF count[a] = 0 THEN 0
                                 ELSE In(x, Units[a]) + In(x, Parent[a]) + In(x, Calc[a])
                                      + In(x, {ref[a]})
        BY DEF In
      <3>3. Hold(a, x) = i + k
        BY <1>3, <3>1, <3>2 DEF Hold
      <3>4. Hold(a, x)' = 0 + k
        BY <1>10, <1>14, <3>2 DEF Hold, In
      <3>5. Debts(stack[Meta], ref, x) = 0 /\ Debts(s2, ref, x) = i
        BY <1>4, <1>7, <1>12, <3>1 DEF Invalidates
      <3>6. count'[x] = ct /\ handles'[Meta][x] = h
        BY <1>10, <3>1
      <3>7. ct + h + 0 + (i + k) = ct + h + i + (0 + k)
        OBVIOUS
      <3> QED
        BY ONLY <3>1, <3>3, <3>4, <3>5, <3>6, <3>7
    <2>2. /\ ref' = ref /\ stack' = [stack EXCEPT ![Meta] = s2]
          /\ \A u \in Thread \ {Meta} : handles'[u] = handles[u]
          /\ \A x \in Actor \ {a} : count'[x] = count[x] /\ suppl'[x] = suppl[x]
      BY <1>10, <1>14
    <2> QED
      BY ONLY <1>1, <1>2, <1>15, <2>1, <2>2, Balance
  <1>18. BaseInv'
    BY <1>1, <1>2, <1>7, <1>10, <1>13, BaseEnter
  <1>19. LockInv'
    <2>1. \A i \in 0 + 1 .. Len(s2) : ~Locked(s2[i])
      BY <1>7, <1>8, <1>13 DEF Locked
    <2> QED
      BY <1>1, <1>2, <1>10, <1>13, <2>1, LockSame
  <1>20. AllSee'
    <2>1. Sees(f)' /\ Sees(f)' /\ Sees(r)'
      BY <1>7, <1>8, <1>14 DEF Sees
    <2>2. \A i \in 0 + 1 .. Len(s2) : Sees(s2[i])'
      BY <1>13, <2>1 DEF Sees
    <2>3. \A u \in Thread : \A i \in DOMAIN stack[u] :
             /\ count'[stack[u][i].a] = count[stack[u][i].a]
             /\ hasSuppl'[stack[u][i].a] => hasSuppl[stack[u][i].a]
      <3>1. \A u \in Thread : \A i \in DOMAIN stack[u] : stack[u][i].a \in Actor
        BY <1>1, StackFacts DEF FrameType
      <3> QED
        BY <1>10, <1>14, <3>1
    <2>4. countSection = NoThread
      BY <1>1, <1>10 DEF AllSee, At
    <2> QED
      BY <1>1, <1>2, <1>10, <1>13, <1>15, <2>2, <2>3, <2>4, SeeStep
  <1>21. SupplInv'
    BY <1>1, <1>14 DEF SupplInv
  <1>22. Observed'
    <2>1. \A i \in 0 + 1 .. Len(stack[Meta]) : ~Observing(stack[Meta][i])
      BY <1>13
    <2> QED
      BY <1>1, <1>2, <1>10, <1>13, <1>14, <2>1, ObservedStep
  <1> QED
    BY <1>15, <1>16, <1>17, <1>18, <1>19, <1>20, <1>21, <1>22 DEF Inv

\* Who has no interest yet obtains a pointer where another has interest.
LEMMA TakeIfAnyStep ==
    ASSUME Inv, NEW t \in Thread, NEW a \in Actor, TakeIfAny(t, a)
    PROVE  Inv'
  <1>1. /\ TypeOK /\ Balanced /\ StackInv /\ BaseInv /\ LockInv /\ AllSee /\ SupplInv /\ Observed
    BY DEF Inv
  <1>2. /\ stack[t] = <<>> /\ handles[t][a] < MaxHandles /\ count[a] > 0
        /\ count' = [count EXCEPT ![a] = @ + 1] /\ handles' = [handles EXCEPT ![t][a] = @ + 1]
        /\ UNCHANGED <<suppl, hasSuppl, failed, ref, actorLock, countSection, stack>>
    BY DEF TakeIfAny, IsIdle
  <1>3. /\ count' \in [Actor -> Nat] /\ \A x \in Actor : count'[x] = count[x] + In(x, {a})
        /\ \A x \in Actor : count'[x] = 0 <=> count[x] = 0
    BY <1>1, <1>2 DEF TypeOK, In
  <1>4. /\ handles' \in [Thread -> [Actor -> 0 .. MaxHandles]]
        /\ \A u \in Thread \ {t} : handles'[u] = handles[u]
        /\ \A x \in Actor : handles'[t][x] = handles[t][x] + In(x, {a})
    <2>1. handles \in [Thread -> [Actor -> 0 .. MaxHandles]] /\ MaxHandles \in Nat
      BY <1>1, InterestAssumption DEF TypeOK
    <2>2. handles[t] \in [Actor -> 0 .. MaxHandles] /\ handles[t][a] + 1 \in 0 .. MaxHandles
      BY <1>2, <2>1
    <2>3. handles' = [handles EXCEPT ![t] = [handles[t] EXCEPT ![a] = @ + 1]]
      BY <1>2
    <2>4. [handles[t] EXCEPT ![a] = @ + 1] \in [Actor -> 0 .. MaxHandles]
      BY <2>2
    <2>5. handles'[t] = [handles[t] EXCEPT ![a] = @ + 1]
      BY <2>1, <2>3
    <2>6. \A x \in Actor : handles'[t][x] = handles[t][x] + In(x, {a})
      BY <2>1, <2>2, <2>5 DEF In
    <2> QED
      BY <2>1, <2>3, <2>4, <2>6
  <1>5. TypeOK'
    BY <1>1, <1>2, <1>3, <1>4 DEF TypeOK
  <1>6. StackInv'
    BY <1>1, <1>2 DEF StackInv
  <1>7. Balanced'
    <2>1. \A u \in Thread \ {t} : \A x \in Actor : Owe(u, x)' = Owe(u, x)
      BY <1>2, <1>4 DEF Owe
    <2>2. \A b \in Actor : \A x \in Actor : Hold(b, x)' = Hold(b, x)
      BY <1>2, <1>3 DEF Hold
    <2>3. ASSUME NEW x \in Actor
          PROVE  count'[x] + Owe(t, x) + Hold(a, x) = count[x] + Owe(t, x)' + Hold(a, x)'
      <3>1. PICK ct, h, d, i, k \in Nat :
               /\ ct = count[x] /\ h = handles[t][x] /\ d = Debts(stack[t], ref, x) /\ i = In(x, {a})
               /\ k = Hold(a, x)
        <4>1. stack[t] \in Seq(FrameType) /\ count[x] \in Nat
          BY <1>1 DEF TypeOK
        <4> QED
          BY <1>1, <4>1, OweType, HoldType, DebtsBound DEF In
      <3>2. Owe(t, x) = h + d
        BY <3>1 DEF Owe
      <3>3. Owe(t, x)' = (h + i) + d
        BY <1>2, <1>4, <3>1 DEF Owe
      <3>4. count'[x] = ct + i /\ Hold(a, x)' = k
        BY <1>3, <2>2, <3>1
      <3>5. (ct + i) + (h + d) + k = ct + ((h + i) + d) + k
        OBVIOUS
      <3> QED
        BY ONLY <3>1, <3>2, <3>3, <3>4, <3>5
    <2>4. \A b \in Actor \ {a} : \A x \in Actor : Hold(b, x)' = Hold(b, x)
      BY <2>2
    <2> QED
      BY ONLY <1>1, <1>5, <2>1, <2>3, <2>4, BalanceStep
  <1>8. BaseInv'
    <2>1. ASSUME NEW u \in Thread, stack'[u] # <<>>
          PROVE  stack'[u] = stack[u] /\ handles'[u] = handles[u]
      BY <1>2, <1>4, <2>1
    <2>2. \A w \in Worker : \A i \in DOMAIN stack'[w] : w \in Thread /\ stack'[w] # <<>>
      <3>1. \A w \in Worker : w \in Thread
        BY DEF Thread
      <3>2. \A w \in Worker : stack'[w] = <<>> => DOMAIN stack'[w] = {}
        OBVIOUS
      <3> QED
        BY <3>1, <3>2
    <2> QED
      BY <1>1, <2>1, <2>2 DEF BaseInv
  <1>9. LockInv'
    <2>1. \A u \in Thread : \A i \in DOMAIN stack[u] : stack[u][i].a \in Actor
      BY <1>1, StackFacts DEF FrameType
    <2>2. \A u \in Thread : \A i \in DOMAIN stack[u] :
             Locked(stack[u][i]) /\ stack[u][i].op # "restart" => count'[stack[u][i].a] = 0
      BY <1>1, <1>3, <2>1 DEF LockInv
    <2> QED
      BY <1>1, <1>2, <2>2 DEF LockInv, Locked
  <1>10. AllSee'
    <2>1. ASSUME NEW u \in Thread, NEW i \in DOMAIN stack[u] PROVE Sees(stack[u][i])'
      <3>1. stack[u][i].a \in Actor /\ Sees(stack[u][i])
        BY <1>1, StackFacts DEF FrameType, AllSee
      <3>2. count[stack[u][i].a] \in Nat /\ count'[stack[u][i].a] \in Nat
        BY <1>1, <1>3, <3>1 DEF TypeOK
      <3> QED
        BY <1>2, <1>3, <3>1, <3>2 DEF Sees
    <2> QED
      BY <1>1, <1>2, <2>1 DEF AllSee, At, Top
  <1>11. SupplInv'
    BY <1>1, <1>2 DEF SupplInv
  <1>12. Observed'
    BY <1>1, <1>2, <1>3 DEF Observed, Observing
  <1> QED
    BY <1>5, <1>6, <1>7, <1>8, <1>9, <1>10, <1>11, <1>12 DEF Inv

LEMMA InvalidateBlockedStep ==
    ASSUME Inv, NEW a \in Actor, InvalidateBlocked(a)
    PROVE  Inv'
  <1>1. /\ failed' = [failed EXCEPT ![a] = FALSE]
        /\ UNCHANGED <<count, suppl, hasSuppl, ref, actorLock, countSection, handles, stack>>
    BY DEF InvalidateBlocked
  <1>2. TypeOK /\ Balanced /\ StackInv /\ BaseInv /\ LockInv /\ AllSee /\ SupplInv /\ Observed
    BY DEF Inv
  <1>3. TypeOK'
    BY <1>1, <1>2 DEF TypeOK
  <1>4. Balanced'
    BY <1>1, <1>2 DEF Balanced, Owe, Hold
  <1>5. StackInv' /\ BaseInv' /\ LockInv'
    BY <1>1, <1>2 DEF StackInv, BaseInv, LockInv
  <1>6. AllSee'
    BY <1>1, <1>2 DEF AllSee, Sees, At, Top
  <1>7. SupplInv' /\ Observed'
    BY <1>1, <1>2 DEF SupplInv, Observed
  <1> QED
    BY <1>3, <1>4, <1>5, <1>6, <1>7 DEF Inv


-----------------------------------------------------------------------------
(* The theorems *)

LEMMA SumZero ==
    ASSUME NEW S, IsFiniteSet(S), NEW g \in [S -> Nat], \A x \in S : g[x] = 0
    PROVE  SumFunction(g) = 0
  <1>1. SumFunction(g) = Total(g, S)
    BY SumIsCount
  <1>2. 1 .. 0 = {}
    OBVIOUS
  <1>3. Pairs(g, S) = {}
    BY <1>2 DEF Pairs
  <1>4. Cardinality({}) = 0
    BY FS_EmptySet
  <1> QED
    BY <1>1, <1>3, <1>4 DEF Total

LEMMA InitBalanced ==
    ASSUME Init, TypeOK
    PROVE  Balanced
  <1> SUFFICES ASSUME NEW x \in Actor
               PROVE  count[x] = SumFunction([t \in Thread |-> Owe(t, x)])
                                 + SumFunction([b \in Actor |-> Hold(b, x)])
    BY DEF Balanced
  <1>1. PICK g : g = [t \in Thread |-> Owe(t, x)]
    OBVIOUS
  <1>2. PICK h : h = [b \in Actor |-> Hold(b, x)]
    OBVIOUS
  <1>3. ASSUME NEW t \in Thread PROVE Owe(t, x) = 0
    <2>1. stack[t] = <<>> /\ handles[t][x] = 0
      BY DEF Init, Nil
    <2>2. Debts(<<>>, ref, x) = 0
      <3>1. PICK e : e = [i \in DOMAIN <<>> |-> DebtTo(<<>>[i], ref, x)]
        OBVIOUS
      <3>2. e \in [{} -> Nat]
        BY <3>1
      <3> QED
        BY <3>1, <3>2, SumEmpty DEF Debts
    <2> QED
      BY <2>1, <2>2 DEF Owe
  <1>4. ASSUME NEW b \in Actor PROVE Hold(b, x) = 0
    BY DEF Init, Hold, In
  <1>5. g \in [Thread -> Nat] /\ h \in [Actor -> Nat]
    BY <1>1, <1>2, OweType, HoldType
  <1>6. SumFunction(g) = 0
    BY <1>1, <1>3, <1>5, FiniteThread, SumZero
  <1>7. SumFunction(h) = 0
    BY <1>2, <1>4, <1>5, FiniteThread, SumZero
  <1>8. count[x] = 0
    BY DEF Init
  <1> QED
    BY <1>1, <1>2, <1>6, <1>7, <1>8

LEMMA InitInv ==
    ASSUME Init
    PROVE  Inv
  <1>1. /\ \A t \in Thread : stack[t] = <<>> /\ DOMAIN stack[t] = {}
        /\ \A a \in Actor : ~hasSuppl[a] /\ suppl[a] = {} /\ ref[a] = NoActor
    BY DEF Init
  <1>2. TypeOK
    <2>1. MaxHandles \in Nat
      BY InterestAssumption
    <2>2. Nil \in [Actor -> 0 .. MaxHandles]
      BY <2>1 DEF Nil
    <2>3. handles \in [Thread -> [Actor -> 0 .. MaxHandles]]
      BY <2>2 DEF Init
    <2>4. stack \in [Thread -> Seq(FrameType)]
      BY DEF Init
    <2> QED
      BY <1>1, <2>3, <2>4 DEF Init, TypeOK
  <1>3. Balanced
    BY <1>2, InitBalanced
  <1>4. StackInv
    BY <1>1 DEF StackInv, Stacked
  <1>5. BaseInv
    BY <1>1 DEF BaseInv, Thread
  <1>6. LockInv
    BY <1>1 DEF LockInv
  <1>7. AllSee
    BY <1>1, InterestAssumption DEF AllSee, Init, Thread
  <1>8. SupplInv /\ Observed
    BY <1>1 DEF SupplInv, Observed
  <1> QED
    BY <1>2, <1>3, <1>4, <1>5, <1>6, <1>7, <1>8 DEF Inv

LEMMA UnchangedInv ==
    ASSUME Inv, UNCHANGED vars
    PROVE  Inv'
  <1>1. /\ count' = count /\ suppl' = suppl /\ hasSuppl' = hasSuppl /\ failed' = failed /\ ref' = ref
        /\ actorLock' = actorLock /\ countSection' = countSection /\ handles' = handles /\ stack' = stack
    BY DEF vars
  <1>2. TypeOK /\ Balanced /\ StackInv /\ BaseInv /\ LockInv /\ AllSee /\ SupplInv /\ Observed
    BY DEF Inv
  <1>3. TypeOK'
    BY <1>1, <1>2 DEF TypeOK
  <1>4. Balanced'
    BY <1>1, <1>2 DEF Balanced, Owe, Hold
  <1>5. StackInv' /\ BaseInv' /\ LockInv'
    BY <1>1, <1>2 DEF StackInv, BaseInv, LockInv
  <1>6. AllSee'
    BY <1>1, <1>2 DEF AllSee, Sees, At, Top
  <1>7. SupplInv' /\ Observed'
    BY <1>1, <1>2 DEF SupplInv, Observed
  <1> QED
    BY <1>3, <1>4, <1>5, <1>6, <1>7 DEF Inv

LEMMA NextInv ==
    ASSUME Inv, [Next]_vars, ~Misread, ~Unobserved
    PROVE  Inv'
  <1>1. ASSUME NEW t \in Thread, Continue(t) PROVE Inv'
    <2>1. ASSUME Visit(t) \/ Release(t) \/ ReleaseEnd(t) PROVE Inv'
      BY <2>1, VisitStep, ReleaseStep, ReleaseEndStep
    <2>2. ASSUME IncCount(t) \/ IncLock(t) \/ IncNext(t) \/ CheckFailure(t) \/ Register(t) PROVE Inv'
      BY <2>2, IncCountStep, IncLockStep, IncNextStep, CheckFailureStep, RegisterStep
    <2>3. ASSUME IncRef(t) \/ IncFinish(t) \/ IncFail(t) PROVE Inv'
      BY <2>3, IncRefStep, IncFinishStep, IncFailStep
    <2>4. ASSUME \/ DecCount(t) \/ DecLock(t) \/ StopSupplInterest(t)
                 \/ DecCalc(t) \/ DecRef(t) \/ DecUnlock(t)
          PROVE  Inv'
      BY <2>4, DecCountStep, DecLockStep, StopSupplInterestStep, DecCalcStep, DecRefStep, DecUnlockStep
    <2>5. ASSUME RebindRead(t) \/ RebindSwap(t) \/ RestartSwap(t) \/ DoInvalidate(t) \/ FailMove(t) PROVE Inv'
      BY <2>5, RebindReadStep, RebindSwapStep, RestartSwapStep, DoInvalidateStep, FailMoveStep
    <2> QED
      BY <1>1, <2>1, <2>2, <2>3, <2>4, <2>5 DEF Continue
  <1>2. ASSUME NEW t \in Thread, Use(t) PROVE Inv'
    <2>1. PICK a \in Actor : Take(t, a) \/ TakeIfAny(t, a) \/ Drop(t, a) \/ DoFail(t, a)
      BY <1>2 DEF Use
    <2> QED
      BY <2>1, TakeStep, TakeIfAnyStep, DropStep, DoFailStep
  <1>3. ASSUME Change PROVE Inv'
    <2>1. PICK a \in Actor :
             \/ \E r \in Ref[a] : SetReferredItem(a, r)
             \/ InvalidateAt(a) \/ InvalidateBlocked(a) \/ Restart(a)
      BY <1>3 DEF Change
    <2> QED
      BY <2>1, SetReferredItemStep, InvalidateAtStep, InvalidateBlockedStep, RestartStep
  <1> QED
    BY <1>1, <1>2, <1>3, UnchangedInv DEF Next

\* A recorded step is a step.
LEMMA RecordedStep ==
    ASSUME [RNext]_rvars
    PROVE  \/ [Next]_vars /\ (raced \/ Misread \/ Unobserved => raced')
           \/ UNCHANGED <<vars, raced>>
  <1>1. RNext => Next /\ Record
    BY Zenon DEF RNext, Next, Continue, Use, Change
  <1> QED
    BY <1>1 DEF Record, rvars

\* Before one of the races of InterestRaces, the calls that take and let go of interest keep
\* IInv: IncInterestCount, DecInterestCount, SetReferredItem, InvalidateAt and DoFail, in any
\* interleaving of any number of threads, whatever interest those hold.
THEOREM Invariance == RSpec => []IInvUntilRace
  <1>1. RInit => (raced \/ Inv)
    BY InitInv DEF RInit
  <1>2. (raced \/ Inv) /\ [RNext]_rvars => (raced \/ Inv)'
    <2> SUFFICES ASSUME raced \/ Inv, [RNext]_rvars, ~raced'
                 PROVE  Inv'
      OBVIOUS
    <2>1. CASE UNCHANGED <<vars, raced>>
      <3>1. Inv /\ UNCHANGED vars
        BY <2>1
      <3> QED
        BY <3>1, UnchangedInv
    <2>2. CASE [Next]_vars /\ (raced \/ Misread \/ Unobserved => raced')
      <3>1. Inv /\ ~Misread /\ ~Unobserved
        BY <2>2
      <3> QED
        BY <2>2, <3>1, NextInv
    <2> QED
      BY <2>1, <2>2, RecordedStep
  <1>3. (raced \/ Inv) => IInvUntilRace
    BY InvIs DEF IInvUntilRace
  <1> QED
    BY <1>1, <1>2, <1>3, PTL DEF RSpec

\* No interest is lost and none is leaked: until a race m_InterestCount is the number of
\* interest pointers, of holders with interest and of calls that still have to let go.
THEOREM InterestAccounted == RSpec => []AccountedUntilRace
  <1>1. IInvUntilRace => AccountedUntilRace
    BY DEF IInvUntilRace, IInv, AccountedUntilRace
  <1> QED
    BY <1>1, Invariance, PTL

\* Interest is let go only when there is some: until a race the assertion of
\* DecInterestCount holds (Actor.cpp:1217), and its mitigation for a count of zero is not
\* used.
THEOREM InterestToLetGo == RSpec => []DecHasInterestUntilRace
  <1>1. IInvUntilRace => DecHasInterestUntilRace
    <2> SUFFICES ASSUME Inv PROVE DecHasInterest
      BY InvIs DEF IInvUntilRace, DecHasInterestUntilRace
    <2> QED
      BY DecSees DEF DecHasInterest
  <1> QED
    BY <1>1, Invariance, PTL

\* Until a race AF_SupplInterest without interest is seen only inside StartInterest and
\* StopInterest (Actor.cpp:1167, 1260).
THEOREM SupplInterestObserved == RSpec => []ObservedUntilRace
  <1>1. IInvUntilRace => ObservedUntilRace
    BY DEF IInvUntilRace, IInv, ObservedUntilRace
  <1> QED
    BY <1>1, Invariance, PTL

\* Until a race a worker that copies an interest pointer finds interest: it never comes to
\* StartInterest, which only the meta thread may call (Actor.cpp:1139).
THEOREM OnlyMetaStarts == RSpec => []StartsOnMetaUntilRace
  <1>1. IInvUntilRace => StartsOnMetaUntilRace
    <2> SUFFICES ASSUME Inv PROVE StartsOnMeta
      BY InvIs DEF IInvUntilRace, StartsOnMetaUntilRace
    <2>1. \A w \in Worker : w \in Thread /\ w # Meta
      BY InterestAssumption DEF Thread
    <2> QED
      BY <2>1, CopySees DEF StartsOnMeta
  <1> QED
    BY <1>1, Invariance, PTL
=============================================================================
