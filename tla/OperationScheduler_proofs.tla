---------------------- MODULE OperationScheduler_proofs ----------------------
(***************************************************************************)
(* Safety of OperationScheduler for any number of contexts, phases, threads *)
(* and frames: every step class preserves the inductive invariant IInv.     *)
(***************************************************************************)
EXTENDS OperationScheduler_steps

-----------------------------------------------------------------------------
(* Cardinalities *)

LEMMA CardMinus ==
    ASSUME NEW A \in SUBSET Op, NEW D \in SUBSET A
    PROVE  Cardinality(A \ D) = Cardinality(A) - Cardinality(D)
  <1>1. IsFiniteSet(A) /\ A \cap D = D
    BY FiniteOps
  <1> QED
    BY <1>1, FS_Difference

LEMMA CardPlus ==
    ASSUME NEW A \in SUBSET Op, NEW D \in SUBSET Op, A \cap D = {}
    PROVE  Cardinality(A \cup D) = Cardinality(A) + Cardinality(D)
  <1>1. IsFiniteSet(A) /\ IsFiniteSet(D) /\ Cardinality(A) \in Nat /\ Cardinality(D) \in Nat
    BY FiniteOps
  <1>2. Cardinality(A \cap D) = 0
    BY FS_EmptySet
  <1>3. Cardinality(A \cup D) = Cardinality(A) + Cardinality(D) - Cardinality(A \cap D)
    BY <1>1, FS_Union
  <1> QED
    BY <1>1, <1>2, <1>3

\* The contexts that count as active, and those that have ended.
ActiveIn(p) == {c \in Op : status[c] \in Started /\ Phase[c] = p}
Ended == {c \in Op : status[c] \in Final}

LEMMA CountsAre ==
    CountInv <=> /\ \A p \in PhaseNr : nrActive[p] = Cardinality(ActiveIn(p))
                 /\ finished = Cardinality(Ended)
  BY DEF CountInv, RunCount, ActiveIn, Ended

\* The counters have their types when they count.
LEMMA CountsTyped ==
    ASSUME Shape', CountInv', NEW e, nrActive' = [p \in PhaseNr |-> e[p]]
    PROVE  TypeOK'
  <1>1. \A p \in PhaseNr : nrActive'[p] \in Nat
    BY FiniteOps DEF CountInv, RunCount
  <1>2. nrActive' \in [PhaseNr -> Nat]
    BY <1>1
  <1>3. Cardinality({c \in Op : status'[c] \in Final}) \in 0 .. Cardinality(Op)
    BY FiniteOps, FS_Subset, SchedulerAssumption
  <1>4. finished' \in 0 .. Cardinality(Op)
    BY <1>3 DEF CountInv
  <1> QED
    BY <1>2, <1>4 DEF Shape, TypeOK, Stacks

\* The contexts of A start ...
LEMMA CountGrows ==
    ASSUME IInv, NEW A \in SUBSET Op,
           \A c \in A : status[c] \notin Started /\ status'[c] \in Started,
           \A c \in Op \ A : status'[c] \in Started <=> status[c] \in Started,
           nrActive' = [p \in PhaseNr |-> nrActive[p] + Cardinality({c \in A : Phase[c] = p})]
    PROVE  \A p \in PhaseNr : nrActive'[p] = Cardinality(ActiveIn(p)')
  <1> TAKE p \in PhaseNr
  <1> DEFINE Ap == {c \in A : Phase[c] = p}
             N == ActiveIn(p)
             M == ActiveIn(p)'
  <1>1. N \in SUBSET Op /\ Ap \in SUBSET Op /\ N \cap Ap = {}
    BY DEF ActiveIn
  <1>2. M = N \cup Ap
    BY DEF ActiveIn
  <1>3. Cardinality(N \cup Ap) = Cardinality(N) + Cardinality(Ap)
    BY <1>1, CardPlus
  <1>4. nrActive[p] = Cardinality(N)
    BY CountsAre DEF IInv, CoreInv
  <1>5. nrActive'[p] = nrActive[p] + Cardinality(Ap)
    OBVIOUS
  <1> QED
    BY <1>2, <1>3, <1>4, <1>5

\* ... or those of D stop.
LEMMA CountShrinks ==
    ASSUME IInv, NEW D \in SUBSET Op,
           \A c \in D : status[c] \in Started /\ status'[c] \notin Started,
           \A c \in Op \ D : status'[c] \in Started <=> status[c] \in Started,
           nrActive' = [p \in PhaseNr |-> nrActive[p] - Cardinality({c \in D : Phase[c] = p})]
    PROVE  \A p \in PhaseNr : nrActive'[p] = Cardinality(ActiveIn(p)')
  <1> TAKE p \in PhaseNr
  <1> DEFINE Dp == {c \in D : Phase[c] = p}
             N == ActiveIn(p)
             M == ActiveIn(p)'
  <1>1. N \in SUBSET Op /\ Dp \in SUBSET N
    BY DEF ActiveIn
  <1>2. M = N \ Dp
    BY DEF ActiveIn
  <1>3. Cardinality(N \ Dp) = Cardinality(N) - Cardinality(Dp)
    BY <1>1, CardMinus
  <1>4. nrActive[p] = Cardinality(N)
    BY CountsAre DEF IInv, CoreInv
  <1>5. nrActive'[p] = nrActive[p] - Cardinality(Dp)
    OBVIOUS
  <1> QED
    BY <1>2, <1>3, <1>4, <1>5

\* The contexts of S end.
LEMMA FinishStep ==
    ASSUME IInv, NEW S \in SUBSET Op,
           \A c \in S : status[c] \notin Final /\ status'[c] \in Final,
           \A c \in Op \ S : status'[c] \in Final <=> status[c] \in Final,
           finished' = finished + Cardinality(S)
    PROVE  finished' = Cardinality(Ended')
  <1>1. Ended \in SUBSET Op /\ Ended \cap S = {} /\ Ended' = Ended \cup S
    BY DEF Ended
  <1>2. Cardinality(Ended \cup S) = Cardinality(Ended) + Cardinality(S)
    BY <1>1, CardPlus
  <1>3. finished = Cardinality(Ended)
    BY CountsAre DEF IInv, CoreInv
  <1> QED
    BY <1>1, <1>2, <1>3

LEMMA NothingStarted ==
    ASSUME IInv, UNCHANGED nrActive,
           \A c \in Op : status'[c] \in Started <=> status[c] \in Started
    PROVE  \A p \in PhaseNr : nrActive'[p] = Cardinality(ActiveIn(p)')
  <1>1. \A p \in PhaseNr : ActiveIn(p)' = ActiveIn(p)
    BY DEF ActiveIn
  <1> QED
    BY <1>1, CountsAre DEF IInv, CoreInv

LEMMA NothingFinished ==
    ASSUME IInv, UNCHANGED finished,
           \A c \in Op : status'[c] \in Final <=> status[c] \in Final
    PROVE  finished' = Cardinality(Ended')
  <1>1. Ended' = Ended
    BY DEF Ended
  <1> QED
    BY <1>1, CountsAre DEF IInv, CoreInv

LEMMA NextCounts ==
    ASSUME \A p \in PhaseNr : nrActive'[p] = Cardinality(ActiveIn(p)'),
           finished' = Cardinality(Ended')
    PROVE  CountInv'
  BY DEF CountInv, RunCount, ActiveIn, Ended

\* The counters are right, and TypeOK holds again, when no context starts or ends.
LEMMA CountsKept ==
    ASSUME IInv, Shape', UNCHANGED <<nrActive, finished>>,
           \A c \in Op : status'[c] \in Started <=> status[c] \in Started,
           \A c \in Op : status'[c] \in Final <=> status[c] \in Final
    PROVE  TypeOK' /\ CountInv'
  <1>1. CountInv'
    BY NothingStarted, NothingFinished, NextCounts
  <1>2. nrActive' = [p \in PhaseNr |-> nrActive[p]]
    BY DEF IInv, CoreInv, TypeOK
  <1> QED
    BY <1>1, <1>2, CountsTyped

\* A context that counts as activated or running has not ended.
LEMMA StatusKinds ==
    /\ Started \cap Final = {}
    /\ "none" \notin Started /\ "waiting" \notin Started /\ "scheduled" \notin Started
    /\ "none" \notin Final /\ "waiting" \notin Final /\ "scheduled" \notin Final
    /\ "activated" \in Started /\ "running" \in Started
  BY DEF Started, Final

LEMMA LicenseCounts ==
    ASSUME IInv, NEW R, NEW B, LicenseStep(R, B), Shape'
    PROVE  TypeOK' /\ CountInv'
  <1>1. /\ R \in SUBSET Op /\ B \in SUBSET Op /\ R \cap B = {}
        /\ \A c \in R \cup B : status[c] = "activated"
        /\ status' = [c \in Op |-> IF c \in R THEN "running"
                                   ELSE IF c \in B THEN "scheduled" ELSE status[c]]
        /\ nrActive' = [p \in PhaseNr |->
              nrActive[p] - Cardinality({c \in B : Phase[c] = p})]
        /\ finished' = finished
    BY DEF LicenseStep
  <1>2. \A c \in B : status[c] \in Started /\ status'[c] \notin Started
    BY <1>1 DEF Started
  <1>3. \A c \in Op \ B : status'[c] \in Started <=> status[c] \in Started
    BY <1>1 DEF Started
  <1>5. \A p \in PhaseNr : nrActive'[p] = Cardinality(ActiveIn(p)')
    BY <1>1, <1>2, <1>3, CountShrinks
  <1>6. \A c \in Op : status'[c] \in Final <=> status[c] \in Final
    BY <1>1 DEF Final
  <1>7. CountInv'
    BY <1>1, <1>5, <1>6, NothingFinished, NextCounts
  <1> QED
    BY <1>1, <1>7, CountsTyped

\* A live context that is queued and has not ended is scheduled.
LEMMA QueuedScheduled ==
    ASSUME IInv, NEW c \in queued, life[c] = "alive", status[c] \notin Final
    PROVE  c \in Op /\ status[c] = "scheduled"
  <1>1. c \in Op
    BY InvShape DEF Shape
  <1> QED
    BY <1>1 DEF IInv, CoreInv, QueuedMeansScheduled

LEMMA ActivateCounts ==
    ASSUME IInv, NEW X, ActivateStep(X), Shape'
    PROVE  TypeOK' /\ CountInv'
  <1>1. X \in SUBSET Op /\ \A c \in X : status[c] = "scheduled"
    BY QueuedScheduled DEF ActivateStep
  <1>2. /\ status' = [c \in Op |-> IF c \in X THEN "activated" ELSE status[c]]
        /\ nrActive' = [p \in PhaseNr |->
              nrActive[p] + Cardinality({c \in X : Phase[c] = p})]
        /\ finished' = finished
    BY DEF ActivateStep
  <1>3. \A c \in X : status[c] \notin Started /\ status'[c] \in Started
    BY <1>1, <1>2 DEF Started
  <1>4. \A c \in Op \ X : status'[c] \in Started <=> status[c] \in Started
    BY <1>1, <1>2 DEF Started
  <1>6. \A p \in PhaseNr : nrActive'[p] = Cardinality(ActiveIn(p)')
    BY <1>1, <1>2, <1>3, <1>4, CountGrows
  <1>7. \A c \in Op : status'[c] \in Final <=> status[c] \in Final
    BY <1>1, <1>2 DEF Final
  <1>8. CountInv'
    BY <1>2, <1>6, <1>7, NothingFinished, NextCounts
  <1> QED
    BY <1>2, <1>8, CountsTyped

LEMMA EndCounts ==
    ASSUME IInv, NEW S, NEW st, EndStep(S, st), Shape'
    PROVE  TypeOK' /\ CountInv'
  <1>1. /\ S \in SUBSET Op /\ st \in Final /\ \A c \in S : status[c] \notin Final
        /\ status' = [c \in Op |-> IF c \in S THEN st
                                   ELSE IF c \in Runnable(S, st) THEN "scheduled"
                                   ELSE status[c]]
        /\ nrActive' = [p \in PhaseNr |-> nrActive[p] - RunCount(S, p)]
        /\ finished' = finished + Cardinality(S)
    BY DEF EndStep, EndAll
  <1>2. \A c \in Runnable(S, st) : c \notin S /\ status[c] = "waiting"
    BY DEF Runnable
  <1> DEFINE D == {c \in S : status[c] \in Started}
  <1>3. D \in SUBSET Op /\ \A c \in D : status[c] \in Started /\ status'[c] \notin Started
    BY <1>1, StatusKinds
  <1>4. \A c \in Op \ D : status'[c] \in Started <=> status[c] \in Started
    BY <1>1, <1>2, StatusKinds
  <1>5. nrActive' = [p \in PhaseNr |-> nrActive[p] - Cardinality({c \in D : Phase[c] = p})]
    <2>1. \A p : {c \in D : Phase[c] = p} = {c \in S : status[c] \in Started /\ Phase[c] = p}
      OBVIOUS
    <2>2. \A p : RunCount(S, p) = Cardinality({c \in D : Phase[c] = p})
      BY <2>1 DEF RunCount
    <2> QED
      BY <1>1, <2>2
  <1>6. \A p \in PhaseNr : nrActive'[p] = Cardinality(ActiveIn(p)')
    BY <1>3, <1>4, <1>5, CountShrinks
  <1>7. \A c \in S : status[c] \notin Final /\ status'[c] \in Final
    BY <1>1
  <1>8. \A c \in Op \ S : status'[c] \in Final <=> status[c] \in Final
    BY <1>1, <1>2, StatusKinds
  <1>9. finished' = Cardinality(Ended')
    BY <1>1, <1>7, <1>8, FinishStep
  <1>10. CountInv'
    BY <1>6, <1>9, NextCounts
  <1> QED
    BY <1>1, <1>10, CountsTyped

LEMMA DirectRunCounts ==
    ASSUME IInv, NEW p, NEW c, DirectRunStep(p, c), Shape'
    PROVE  TypeOK' /\ CountInv'
  <1>1. /\ c \in Op /\ status[c] = "none" /\ finished' = finished
        /\ status' = [status EXCEPT ![c] = "running"]
        /\ nrActive' = [nrActive EXCEPT ![Phase[c]] = @ + 1]
    BY SchedulerAssumption DEF DirectRunStep
  <1>2. nrActive \in [PhaseNr -> Nat] /\ status \in [Op -> Status]
    BY DEF IInv, CoreInv, TypeOK
  <1>3. \A d \in {c} : status[d] \notin Started /\ status'[d] \in Started
    BY <1>1, <1>2, StatusKinds
  <1>4. \A d \in Op \ {c} : status'[d] \in Started <=> status[d] \in Started
    BY <1>1, <1>2
  <1>5. nrActive' = [q \in PhaseNr |-> nrActive[q] + Cardinality({d \in {c} : Phase[d] = q})]
    <2>1. Cardinality({}) = 0 /\ Cardinality({c}) = 1
      BY FS_EmptySet, FS_Singleton
    <2>2. \A q \in PhaseNr :
             nrActive[q] + Cardinality({d \in {c} : Phase[d] = q}) = nrActive'[q]
      <3> TAKE q \in PhaseNr
      <3>1. CASE Phase[c] = q
        <4>1. {d \in {c} : Phase[d] = q} = {c}
          BY <3>1
        <4> QED
          BY <1>1, <1>2, <2>1, <3>1, <4>1
      <3>2. CASE Phase[c] # q
        <4>1. {d \in {c} : Phase[d] = q} = {}
          BY <3>2
        <4> QED
          BY <1>1, <1>2, <2>1, <3>2, <4>1
      <3> QED
        BY <3>1, <3>2
    <2>3. nrActive' = [q \in PhaseNr |-> nrActive'[q]]
      BY <1>1, <1>2
    <2> QED
      BY <2>2, <2>3
  <1>6. \A q \in PhaseNr : nrActive'[q] = Cardinality(ActiveIn(q)')
    <2> DEFINE A == {c}
    <2>1. A \in SUBSET Op
      BY <1>1
    <2>2. /\ \A d \in A : status[d] \notin Started /\ status'[d] \in Started
          /\ \A d \in Op \ A : status'[d] \in Started <=> status[d] \in Started
          /\ nrActive' = [q \in PhaseNr |->
                nrActive[q] + Cardinality({d \in A : Phase[d] = q})]
      BY <1>3, <1>4, <1>5
    <2> HIDE DEF A
    <2> QED
      BY <2>1, <2>2, CountGrows
  <1>7. \A d \in Op : status'[d] \in Final <=> status[d] \in Final
    BY <1>1, <1>2 DEF Final
  <1>8. CountInv'
    BY <1>1, <1>6, <1>7, NothingFinished, NextCounts
  <1>9. nrActive' = [q \in PhaseNr |-> IF q = Phase[c] THEN nrActive[q] + 1 ELSE nrActive[q]]
    BY <1>1, <1>2
  <1> DEFINE e == [q \in PhaseNr |-> IF q = Phase[c] THEN nrActive[q] + 1 ELSE nrActive[q]]
  <1>10. nrActive' = [q \in PhaseNr |-> e[q]]
    BY <1>9
  <1> QED
    BY <1>8, <1>10, CountsTyped

-----------------------------------------------------------------------------
(* A quiet step keeps the invariant *)

\* The frame at p is still a frame of the same context.
Carried(p) ==
    /\ p \in Places /\ FrameAt(p)'.op = FrameAt(p).op
    /\ FrameAt(p).kind # "join"

LEMMA UniqueKept ==
    ASSUME FrameInv, \A p \in Places' : FrameAt(p)'.kind = "join" \/ Carried(p)
    PROVE  \A p, r \in Places' :
              FrameAt(p)'.op = FrameAt(r)'.op /\ FrameAt(p)'.kind # "join"
              /\ FrameAt(r)'.kind # "join" => p = r
  BY DEF FrameInv, Carried

LEMMA SameCarried ==
    ASSUME NEW p, Same(p)
    PROVE  FrameAt(p)'.kind = "join" \/ Carried(p)
  BY DEF Same, Carried

\* What a frame that moves in a quiet step refers to.
LEMMA QuietFrames ==
    ASSUME IInv, QuietStep, NEW p \in Places'
    PROVE  /\ AliveFrame(FrameAt(p)')
           /\ FrameAt(p)'.kind = "join" \/ Carried(p)
           /\ closing => p[1] # Meta
           /\ FrameAt(p)'.kind \in {"run", "fence"} => Same(p)
  <1>1. CASE Same(p)
    <2>1. p \in Places /\ FrameAt(p)' = FrameAt(p)
      BY <1>1 DEF Same
    <2>2. AliveFrame(FrameAt(p))
      BY <2>1, InvShape DEF ExistInv, AliveFrame
    <2>3. closing => p[1] # Meta
      BY <2>1, InvShape DEF FrameInv
    <2> QED
      BY <1>1, <2>1, <2>2, <2>3, SameCarried
  <1>2. CASE JoinMove(p)
    <2>1. FrameAt(p)'.kind = "join" /\ AliveFrame(FrameAt(p)')
      BY <1>2 DEF JoinMove
    <2>2. closing => p[1] # Meta
      BY <1>2, InvShape DEF JoinMove, FrameInv
    <2> QED
      BY <2>1, <2>2
  <1>3. CASE DirectMove(p)
    <2> DEFINE f == FrameAt(p)
               g == FrameAt(p)'
    <2>1. /\ p \in Places /\ f.kind \in MetaKind /\ g.kind = "direct" /\ g.op = f.op
          /\ g.rest \subseteq f.rest \/ g.rest \subseteq suppliers[g.op]
      BY <1>3 DEF DirectMove
    <2>2. life[f.op] = "alive" /\ (\A a \in f.rest : life[a] = "alive") /\ f.op \in Op
      BY <2>1, InvShape, FrameType, FieldTypes DEF ExistInv
    <2>3. \A a \in suppliers[f.op] : life[a] = "alive"
      BY <2>2, InvShape DEF ExistInv
    <2>4. AliveFrame(g)
      BY <2>1, <2>2, <2>3 DEF AliveFrame
    <2>5. closing => p[1] # Meta
      BY <2>1, InvShape DEF FrameInv
    <2>6. Carried(p)
      BY <2>1 DEF Carried, MetaKind
    <2> QED
      BY <2>1, <2>4, <2>5, <2>6
  <1> QED
    BY <1>1, <1>2, <1>3 DEF QuietStep

\* An item for a live context stays pending.
LEMMA TodoQuietItems ==
    ASSUME TodoQuiet
    PROVE  /\ \A t \in Thread : \A i \in todo'[t] : i \in todo[t] \/ i = Start
           /\ \A w \in Op : life[w] = "alive" /\ PendingFor(w) => PendingFor(w)'
  <1>1. \A t \in Thread : \A i \in todo'[t] : i \in todo[t] \/ i = Start
    BY DEF TodoQuiet
  <1>2. ASSUME NEW w \in Op, life[w] = "alive", PendingFor(w)
        PROVE  PendingFor(w)'
    <2>1. PICK t \in Thread : \E i \in todo[t] : i.op = w
      BY <1>2 DEF PendingFor
    <2>2. PICK i \in todo[t] : i.op = w
      BY <2>1
    <2>3. i # Start
      BY <2>2, SchedulerAssumption DEF Start
    <2>4. i \in todo'[t]
      BY <1>2, <2>2, <2>3 DEF TodoQuiet
    <2> QED
      BY <2>2, <2>4 DEF PendingFor
  <1> QED
    BY <1>1, <1>2

LEMMA StartFields == Start.do = "start" /\ Start.op = NoOp
  BY DEF Start

LEMMA QuietExist ==
    ASSUME IInv, QuietStep PROVE ExistInv'
  <1>1. UNCHANGED <<life, status, queued, waiters, owned, suppliers>>
    BY DEF QuietStep, context, graph, queues
  <1>2. \A p \in Places' : life'[FrameAt(p)'.op] = "alive"
                         /\ \A a \in FrameAt(p)'.rest : life'[a] = "alive"
    BY <1>1, QuietFrames DEF AliveFrame
  <1>3. \A t \in Thread : \A i \in todo'[t] : i # Start =>
         /\ life'[i.op] # "new"
         /\ i.do = "endFailed" => life'[i.op] = "alive"
         /\ i.do = "destroy" => life'[i.op] = "dead"
    BY <1>1, InvShape, TodoQuietItems DEF QuietStep, ExistInv
  <1> QED
    BY <1>1, <1>2, <1>3, InvShape DEF ExistInv

LEMMA QuietDirect ==
    ASSUME IInv, QuietStep PROVE DirectInv'
  <1>1. DirectInv /\ status' = status
    BY DEF QuietStep, graph, IInv, CoreInv
  <1>2. ASSUME NEW p \in Places', FrameAt(p)'.kind = "direct",
               FrameAt(p)'.pc \in {"suppl", "joined"}
        PROVE  FrameAt(p)'.op \in Direct
    <2>1. CASE Same(p)
      BY <1>1, <1>2, <2>1 DEF Same, DirectInv
    <2>2. CASE DirectMove(p)
      BY <1>1, <1>2, <2>2 DEF DirectMove, DirectInv
    <2> QED
      BY <1>2, <2>1, <2>2 DEF QuietStep, JoinMove
  <1> QED
    BY <1>1, <1>2 DEF DirectInv

LEMMA QuietCore ==
    ASSUME IInv, QuietStep, Shape' PROVE CoreInv'
  <1>1. TypeOK' /\ CountInv'
    BY CountsKept DEF QuietStep, graph, queues
  <1>2. QueuedMeansScheduled'
    BY DEF QuietStep, graph, queues, context, IInv, CoreInv, QueuedMeansScheduled
  <1> QED
    BY <1>1, <1>2, QuietExist, QuietDirect DEF CoreInv

LEMMA QuietFrameInv ==
    ASSUME IInv, QuietStep PROVE FrameInv'
  <1>1. UNCHANGED <<status, closing>>
    BY DEF QuietStep, graph
  <1>2. ASSUME NEW p \in Places'
        PROVE  /\ FrameAt(p)'.kind = "run" =>
                    status'[FrameAt(p)'.op] \in {"running", "exception", "cancelled"}
               /\ FrameAt(p)'.kind \in MetaKind =>
                    p[1] = Meta /\ status'[FrameAt(p)'.op] \in {"none", "exception"}
    <2>1. CASE Same(p)
      BY <1>1, <2>1, InvShape DEF FrameInv, Same
    <2>2. CASE JoinMove(p)
      BY <2>2 DEF JoinMove, MetaKind
    <2>3. CASE DirectMove(p)
      BY <1>1, <2>3, InvShape DEF FrameInv, DirectMove
    <2> QED
      BY <2>1, <2>2, <2>3 DEF QuietStep
  <1>3. \A p, r \in Places' :
              FrameAt(p)'.op = FrameAt(r)'.op /\ FrameAt(p)'.kind # "join"
              /\ FrameAt(r)'.kind # "join" => p = r
    BY InvShape, QuietFrames, UniqueKept
  <1>4. closing' => \A p \in Places' : p[1] # Meta
    BY <1>1, QuietFrames
  <1> QED
    BY <1>2, <1>3, <1>4 DEF FrameInv

LEMMA QuietCause ==
    ASSUME IInv, QuietStep PROVE CauseInv'
  <1>1. CauseInv /\ UNCHANGED <<life, status, result, waiters, suppliers, closing>>
    BY DEF QuietStep, graph, context, IInv
  <1>2. \A t \in Thread : \A i \in todo'[t] : i \in todo[t] \/ i = Start
    BY TodoQuietItems DEF QuietStep
  <1>3. \A t \in Thread : \A i \in todo'[t] :
         /\ i.do = "endFailed" => result'[i.op] = "failed"
         /\ i.do = "cancel" /\ life'[i.op] = "alive" => closing' \/ status'[i.op] \in Final
    BY <1>1, <1>2, StartFields DEF CauseInv
  <1> QED
    BY <1>1, <1>3 DEF CauseInv

LEMMA QuietGraph ==
    ASSUME IInv, QuietStep PROVE GraphInv'
  <1>1. GraphInv /\ UNCHANGED <<life, status, waiters, suppliers>>
    BY DEF QuietStep, graph, context, IInv
  <1>2. \A w \in Op : life'[w] = "alive" /\ status'[w] = "waiting" =>
           suppliers'[w] # {} \/ PendingFor(w)'
    BY <1>1, TodoQuietItems DEF QuietStep, GraphInv
  <1>3. ASSUME NEW p \in Places', FrameAt(p)'.kind = "direct",
               FrameAt(p)'.pc \in {"suppl", "joined"}
        PROVE  suppliers'[FrameAt(p)'.op] \subseteq FrameAt(p)'.rest
    <2>1. CASE Same(p)
      BY <1>1, <1>3, <2>1 DEF Same, GraphInv
    <2>2. CASE DirectMove(p)
      <3> DEFINE f == FrameAt(p)
                 g == FrameAt(p)'
      <3>1. /\ p \in Places /\ f.kind \in MetaKind /\ g.op = f.op /\ f.op \in Op
            /\ life[f.op] = "alive" /\ status[f.op] \in {"none", "exception"}
        BY <2>2, InvShape, FrameType, FieldTypes DEF DirectMove, ExistInv, FrameInv
      <3>2. suppliers[f.op] # {} => status[f.op] = "none"
        BY <1>1, <3>1 DEF GraphInv
      <3>3. \A s \in suppliers[f.op] : status[s] # "done"
        BY <1>1, <3>1 DEF GraphInv, Final
      <3>4. \/ g.rest = IF status[g.op] = "none" THEN suppliers[g.op] ELSE {}
            \/ /\ f.kind = "direct" /\ f.pc \in {"suppl", "joined"} /\ g.rest \subseteq f.rest
               /\ \A s \in f.rest \ g.rest : status[s] = "done"
        BY <1>3, <2>2 DEF DirectMove
      <3>5. f.kind = "direct" /\ f.pc \in {"suppl", "joined"} => suppliers[f.op] \subseteq f.rest
        BY <1>1, <3>1 DEF GraphInv
      <3> HIDE DEF f, g
      <3>6. suppliers[f.op] \subseteq g.rest
        BY <3>1, <3>2, <3>3, <3>4, <3>5
      <3> QED
        BY <1>1, <3>1, <3>6 DEF f, g
    <2> QED
      BY <1>3, <2>1, <2>2 DEF QuietStep, JoinMove
  <1> QED
    BY <1>1, <1>2, <1>3 DEF GraphInv

LEMMA QuietRest ==
    ASSUME IInv, QuietStep PROVE LockInv' /\ ResultInv'
  <1>1. LockInv /\ ResultInv
        /\ UNCHANGED <<owned, hasFunc, writeLock, status, result, closing>>
    BY DEF QuietStep, graph, context, IInv
  <1>2. \A t \in Thread : \A i \in todo'[t] : i \in todo[t] \/ i = Start
    BY TodoQuietItems DEF QuietStep
  <1>3. LockInv'
    BY <1>1 DEF LockInv
  <1>4. \A t \in Thread : \A i \in todo'[t] :
         i.do \in {"fail", "endFailed"} => \E a \in Args[i.op] : result'[a] = "failed"
    BY <1>1, <1>2, StartFields DEF ResultInv
  <1>5. ResultInv'
    BY <1>1, <1>4 DEF ResultInv
  <1> QED
    BY <1>3, <1>5

LEMMA QuietPayload ==
    ASSUME IInv, QuietStep PROVE PayloadInv'
  <1>1. PayloadInv /\ UNCHANGED <<owned, hasFunc, writeLock, status, result, closing>>
    BY DEF QuietStep, graph, context, IInv
  <1>2. ASSUME NEW p \in Places', FrameAt(p)'.kind = "direct",
               FrameAt(p)'.pc \in {"schedule", "suppl", "joined"}
        PROVE  hasFunc'[FrameAt(p)'.op] \/ status'[FrameAt(p)'.op] \in Final
    <2>1. CASE Same(p)
      BY <1>1, <1>2, <2>1 DEF Same, PayloadInv
    <2>2. CASE DirectMove(p)
      <3>1. /\ p \in Places /\ FrameAt(p).kind = "direct"
            /\ FrameAt(p).pc \in {"schedule", "suppl", "joined"}
            /\ FrameAt(p)'.op = FrameAt(p).op
        BY <1>2, <2>2 DEF DirectMove
      <3>2. hasFunc[FrameAt(p).op] \/ status[FrameAt(p).op] \in Final
        BY <1>1, <3>1 DEF PayloadInv
      <3> QED
        BY <1>1, <3>1, <3>2
    <2> QED
      BY <1>2, <2>1, <2>2 DEF QuietStep, JoinMove
  <1>3. ASSUME NEW p \in Places', FrameAt(p)'.kind = "run"
        PROVE  p \in Places /\ FrameAt(p)' = FrameAt(p)
    BY <1>3, QuietFrames DEF Same
  <1> QED
    BY <1>1, <1>2, <1>3 DEF PayloadInv

LEMMA QuietKeeps ==
    ASSUME IInv, QuietStep, Shape' PROVE IInv'
  BY QuietCore, QuietFrameInv, QuietCause, QuietGraph, QuietRest, QuietPayload DEF IInv

-----------------------------------------------------------------------------
(* Licensing keeps the invariant *)

\* A context in a frame other than a Join's is not on its way to a license.
LEMMA FrameStatus ==
    ASSUME IInv, NEW p \in Places, FrameAt(p).kind # "join"
    PROVE  /\ FrameAt(p).op \in Op
           /\ status[FrameAt(p).op] \in {"none", "running", "exception", "cancelled"}
           /\ FrameAt(p).kind = "run" =>
                 status[FrameAt(p).op] \in {"running", "exception", "cancelled"}
           /\ FrameAt(p).kind \in MetaKind => status[FrameAt(p).op] \in {"none", "exception"}
  <1>1. FrameAt(p).op \in Op /\ FrameAt(p).kind \in {"run", "direct", "fence"}
    BY InvShape, FrameType, FieldTypes
  <1> QED
    BY <1>1, InvShape DEF FrameInv, MetaKind

\* What a license changes.
LEMMA LicenseFacts ==
    ASSUME IInv, NEW R, NEW B, LicenseStep(R, B)
    PROVE  /\ \A c \in Op : status'[c] # status[c] => status[c] = "activated"
                                                      /\ status'[c] \in {"running", "scheduled"}
           /\ \A c \in Op : status[c] # "activated" => status'[c] = status[c]
           /\ \A c \in R : c \in Op /\ status[c] = "activated" /\ status'[c] = "running"
                           /\ life[c] = "alive"
           /\ \A c \in B : c \in Op /\ status[c] = "activated" /\ status'[c] = "scheduled"
                           /\ life[c] = "alive"
           /\ \A c \in Op : status'[c] = "scheduled" => c \in B \/ status[c] = "scheduled"
           /\ \A c \in Op : status'[c] \in {"waiting", "scheduled", "activated"}
                 => status[c] \in {"waiting", "scheduled", "activated"}
           /\ UNCHANGED <<life, result, owned, hasFunc, writeLock, suppliers, waiters,
                          todo, closing>>
           /\ queued' = queued \cup B
  BY DEF LicenseStep, context

LEMMA LicenseFrames ==
    ASSUME IInv, NEW R, NEW B, LicenseStep(R, B), NEW p \in Places'
    PROVE  \/ FrameAt(p)'.kind = "join" /\ AliveFrame(FrameAt(p)') /\ JoinMove(p)
           \/ Same(p)
           \/ FrameAt(p)'.kind = "run" /\ RunNew(p, R)
  BY DEF LicenseStep, JoinMove, RunNew

LEMMA LicenseCore ==
    ASSUME IInv, NEW R, NEW B, LicenseStep(R, B), Shape' PROVE CoreInv'
  <1>1. TypeOK' /\ CountInv'
    BY LicenseCounts
  <1>2. ExistInv'
    <2>1. \A p \in Places' : life'[FrameAt(p)'.op] = "alive"
                           /\ \A a \in FrameAt(p)'.rest : life'[a] = "alive"
      <3> TAKE p \in Places'
      <3>1. CASE Same(p)
        BY <3>1, LicenseFacts, InvShape DEF ExistInv, Same
      <3>2. CASE AliveFrame(FrameAt(p)')
        BY <3>2, LicenseFacts DEF AliveFrame
      <3>3. CASE RunNew(p, R)
        BY <3>3, LicenseFacts DEF RunNew
      <3> QED
        BY <3>1, <3>2, <3>3, LicenseFrames
    <2>2. ASSUME NEW c \in Op, life'[c] = "new"
          PROVE  status'[c] = "none" /\ c \notin queued' /\ \A a \in Op : c \notin waiters'[a]
      <3>1. life[c] = "new"
        BY <2>2, LicenseFacts
      <3>2. status[c] = "none" /\ c \notin queued /\ \A a \in Op : c \notin waiters[a]
        BY <3>1, InvShape DEF ExistInv
      <3>3. c \notin B
        BY <3>1, LicenseFacts
      <3> QED
        BY <3>2, <3>3, LicenseFacts
    <2>3. UNCHANGED <<life, owned, suppliers, todo>>
      BY LicenseFacts
    <2> QED
      BY <2>1, <2>2, <2>3, InvShape DEF ExistInv
  <1>3. DirectInv'
    <2>1. DirectInv
      BY DEF IInv, CoreInv
    <2>2. \A c \in Direct : status'[c] \notin {"waiting", "scheduled", "activated"}
      BY <2>1, LicenseFacts, SchedulerAssumption DEF DirectInv
    <2>3. \A p \in Places' : FrameAt(p)'.kind = "direct" => Same(p)
      BY LicenseFrames
    <2> QED
      BY <2>1, <2>2, <2>3 DEF DirectInv, Same
  <1>4. QueuedMeansScheduled'
    <2> SUFFICES ASSUME NEW c \in Op, life'[c] = "alive"
                 PROVE  /\ status'[c] = "scheduled" => c \in queued'
                        /\ c \in queued' => status'[c] \in {"scheduled"} \cup Final
      BY DEF QueuedMeansScheduled
    <2>1. /\ status[c] = "scheduled" => c \in queued
          /\ c \in queued => status[c] \in {"scheduled"} \cup Final
      BY LicenseFacts DEF IInv, CoreInv, QueuedMeansScheduled
    <2>2. status'[c] = "scheduled" => c \in queued'
      BY <2>1, LicenseFacts
    <2>3. ASSUME c \in queued' PROVE status'[c] \in {"scheduled"} \cup Final
      <3>1. CASE c \in B
        BY <3>1, LicenseFacts
      <3>2. CASE c \in queued
        BY <2>1, <3>2, LicenseFacts DEF Final
      <3> QED
        BY <2>3, <3>1, <3>2, LicenseFacts
    <2> QED
      BY <2>2, <2>3
  <1> QED
    BY <1>1, <1>2, <1>3, <1>4 DEF CoreInv

LEMMA LicenseFrameInv ==
    ASSUME IInv, NEW R, NEW B, LicenseStep(R, B) PROVE FrameInv'
  <1>1. ASSUME NEW p \in Places'
        PROVE  /\ FrameAt(p)'.kind = "run" =>
                    status'[FrameAt(p)'.op] \in {"running", "exception", "cancelled"}
               /\ FrameAt(p)'.kind \in MetaKind =>
                    p[1] = Meta /\ status'[FrameAt(p)'.op] \in {"none", "exception"}
               /\ closing' => p[1] # Meta
    <2>1. CASE Same(p)
      <3>1. p \in Places /\ FrameAt(p)' = FrameAt(p)
        BY <2>1 DEF Same
      <3>2. CASE FrameAt(p).kind # "join"
        BY <3>1, <3>2, FrameStatus, LicenseFacts, InvShape DEF FrameInv
      <3>3. CASE FrameAt(p).kind = "join"
        BY <3>1, <3>3, LicenseFacts, InvShape DEF FrameInv, MetaKind
      <3> QED
        BY <3>2, <3>3
    <2>2. CASE JoinMove(p)
      BY <2>2, LicenseFacts, InvShape DEF JoinMove, MetaKind, FrameInv
    <2>3. CASE RunNew(p, R)
      BY <2>3, LicenseFacts DEF RunNew, MetaKind
    <2> QED
      BY <2>1, <2>2, <2>3, LicenseFrames
  <1>2. ASSUME NEW p \in Places', NEW r \in Places',
               FrameAt(p)'.op = FrameAt(r)'.op, FrameAt(p)'.kind # "join",
               FrameAt(r)'.kind # "join"
        PROVE  p = r
    <2>1. /\ Same(p) \/ RunNew(p, R)
          /\ Same(r) \/ RunNew(r, R)
      BY <1>2, LicenseFrames
    <2>2. CASE Same(p) /\ Same(r)
      BY <1>2, <2>2, InvShape DEF FrameInv, Same
    <2>3. ASSUME NEW u, NEW v, Same(u), RunNew(v, R), FrameAt(u)'.op = FrameAt(v)'.op,
                 FrameAt(u)'.kind # "join"
          PROVE  FALSE
      <3>1. u \in Places /\ FrameAt(u).kind # "join" /\ FrameAt(u).op \in R
        BY <2>3 DEF Same, RunNew
      <3> QED
        BY <3>1, FrameStatus, LicenseFacts
    <2>4. CASE RunNew(p, R) /\ RunNew(r, R)
      BY <2>4 DEF LicenseStep, RunNew
    <2> QED
      BY <1>2, <2>1, <2>2, <2>3, <2>4
  <1> QED
    BY <1>1, <1>2 DEF FrameInv

\* Contexts that are scheduled or activated advance, or go back; no other changes.
Advance ==
    /\ \A c \in Op : \/ status'[c] = status[c]
                     \/ /\ status[c] \in {"scheduled", "activated"}
                        /\ status'[c] \in {"scheduled", "activated", "running"}
    /\ UNCHANGED <<life, result, owned, hasFunc, writeLock, suppliers, waiters, closing>>
    /\ TodoQuiet
    /\ \A p \in Places' : FrameAt(p)'.kind \in MetaKind => Same(p)

LEMMA LicenseAdvance ==
    ASSUME IInv, NEW R, NEW B, LicenseStep(R, B) PROVE Advance
  <1>1. \A c \in Op : \/ status'[c] = status[c]
                      \/ /\ status[c] \in {"scheduled", "activated"}
                         /\ status'[c] \in {"scheduled", "activated", "running"}
    BY LicenseFacts
  <1>2. UNCHANGED <<life, result, owned, hasFunc, writeLock, suppliers, waiters, closing>>
        /\ TodoQuiet
    BY LicenseFacts DEF TodoQuiet
  <1>3. \A p \in Places' : FrameAt(p)'.kind \in MetaKind => Same(p)
    BY LicenseFrames DEF MetaKind
  <1> QED
    BY <1>1, <1>2, <1>3 DEF Advance

LEMMA AdvanceCause ==
    ASSUME IInv, Advance PROVE CauseInv'
  <1>1. CauseInv /\ UNCHANGED <<life, result, waiters, suppliers, closing>>
    BY DEF IInv, Advance
  <1>2. \A c \in Op : status[c] \in Final => status'[c] = status[c]
    BY DEF Final, Advance
  <1>3. \A c \in Op : /\ status'[c] = "exception" => status[c] = "exception"
                      /\ status'[c] = "cancelled" => status[c] = "cancelled"
    BY DEF Advance
  <1>4. waiters \in [Op -> SUBSET Op] /\ todo \in [Thread -> SUBSET Item]
    BY InvShape DEF Shape
  <1>5. \A t \in Thread : \A i \in todo[t] : i.do = "cancel" => i.op \in Op
    <2>1. \A t \in Thread : \A i \in todo[t] : i \in Item
      BY <1>4
    <2> QED
      BY <2>1, ItemFields, StartFields
  <1>6. \A a \in Op : \A w \in waiters[a] : w \in Op
    BY <1>4
  <1>7. \A a \in Op : \A w \in waiters'[a] :
         life'[w] = "alive" => a \in suppliers'[w] \/ status'[w] \in Final
    BY <1>1, <1>2, <1>6 DEF CauseInv
  <1>8. \A t \in Thread : \A i \in todo'[t] :
         /\ i.do = "endFailed" => result'[i.op] = "failed"
         /\ i.do = "cancel" /\ life'[i.op] = "alive" => closing' \/ status'[i.op] \in Final
    <2>1. \A t \in Thread : \A i \in todo'[t] : i \in todo[t] \/ i = Start
      BY TodoQuietItems DEF Advance
    <2> QED
      BY <1>1, <1>2, <1>5, <2>1, StartFields DEF CauseInv
  <1>9. \A c \in Op : /\ status'[c] = "exception" => result'[c] = "failed"
                      /\ status'[c] = "cancelled" => closing' \/ life'[c] = "dead"
    BY <1>1, <1>3 DEF CauseInv
  <1> QED
    BY <1>7, <1>8, <1>9 DEF CauseInv

LEMMA AdvanceGraph ==
    ASSUME IInv, Advance PROVE GraphInv'
  <1>1. GraphInv /\ UNCHANGED <<life, waiters, suppliers>>
    BY DEF IInv, Advance
  <1>2. \A c \in Op : status[c] \notin Final => status'[c] \notin Final
    BY DEF Final, Advance
  <1>3. \A c \in Op : status[c] \in {"none", "waiting"} => status'[c] = status[c]
    BY DEF Advance
  <1>4. \A c \in Op : status'[c] = "waiting" => status[c] = "waiting"
    BY DEF Advance
  <1>5. \A w \in Op : life[w] = "alive" /\ PendingFor(w) => PendingFor(w)'
    BY TodoQuietItems DEF Advance
  <1>6. \A p \in Places' : FrameAt(p)'.kind = "direct" => Same(p)
    BY DEF Advance, MetaKind
  <1>7. \A p \in Places' : FrameAt(p)'.kind = "direct" /\ FrameAt(p)'.pc \in {"suppl", "joined"}
         => suppliers'[FrameAt(p)'.op] \subseteq FrameAt(p)'.rest
    BY <1>1, <1>6 DEF GraphInv, Same
  <1>8. \A w \in Op : \A a \in suppliers[w] : a \in Op
    BY InvShape DEF Shape
  <1>9. \A w \in Op : \A a \in suppliers'[w] : life'[w] = "alive" =>
         status'[a] \notin Final /\ w \in waiters'[a]
    BY <1>1, <1>2, <1>8 DEF GraphInv
  <1>10. \A w \in Op : life'[w] = "alive" /\ status'[w] = "waiting" =>
           suppliers'[w] # {} \/ PendingFor(w)'
    BY <1>1, <1>4, <1>5 DEF GraphInv
  <1> QED
    BY <1>1, <1>3, <1>7, <1>9, <1>10 DEF GraphInv

LEMMA AdvanceLock ==
    ASSUME IInv, Advance PROVE LockInv'
  <1>1. LockInv /\ UNCHANGED <<owned, hasFunc, writeLock, result, closing>>
    BY DEF IInv, Advance
  <1>2. \A c \in Op : status[c] \notin Final => status'[c] \notin Final
    BY DEF Final, Advance
  <1>3. \A c \in Op : status'[c] \in {"waiting", "scheduled", "activated"}
                 => status[c] \in {"waiting", "scheduled", "activated"}
    BY DEF Advance
  <1>4. \A c \in Op : status'[c] \in {"waiting", "scheduled"} \cup Started
                 => status[c] \in {"waiting", "scheduled"} \cup Started
    BY DEF Started, Advance
  <1> QED
    BY <1>1, <1>2, <1>3, <1>4 DEF LockInv

LEMMA AdvanceResult ==
    ASSUME IInv, Advance PROVE ResultInv'
  <1>1. ResultInv /\ UNCHANGED result
    BY DEF IInv, Advance
  <1>2. \A c \in Op : status[c] \in {"running"} \cup Final => status'[c] = status[c]
    BY DEF Final, Advance
  <1>3. \A t \in Thread : \A i \in todo'[t] : i \in todo[t] \/ i = Start
    BY TodoQuietItems DEF Advance
  <1>4. \A t \in Thread : \A i \in todo'[t] :
         i.do \in {"fail", "endFailed"} => \E a \in Args[i.op] : result'[a] = "failed"
    BY <1>1, <1>3, StartFields DEF ResultInv
  <1> QED
    BY <1>1, <1>2, <1>4 DEF ResultInv

LEMMA LicensePayload ==
    ASSUME IInv, NEW R, NEW B, LicenseStep(R, B) PROVE PayloadInv'
  <1>1. PayloadInv /\ LockInv /\ ResultInv
        /\ UNCHANGED <<owned, hasFunc, writeLock, result, closing>>
    BY LicenseFacts DEF IInv
  <1>2. ASSUME NEW p \in Places', RunNew(p, R)
        PROVE  /\ FrameAt(p)'.kind = "run" /\ FrameAt(p)'.pc = "start"
               /\ hasFunc'[FrameAt(p)'.op] /\ result'[FrameAt(p)'.op] # "ready"
    <2>1. FrameAt(p)'.op \in Op /\ status[FrameAt(p)'.op] = "activated"
      BY <1>2, LicenseFacts DEF RunNew
    <2>2. hasFunc[FrameAt(p)'.op] /\ result[FrameAt(p)'.op] # "ready"
      BY <1>1, <2>1 DEF LockInv, ResultInv, Final
    <2> QED
      BY <1>1, <1>2, <2>2 DEF RunNew
  <1>3. ASSUME NEW p \in Places', Same(p), FrameAt(p)'.kind # "join"
        PROVE  /\ p \in Places /\ FrameAt(p)' = FrameAt(p)
               /\ status'[FrameAt(p).op] = status[FrameAt(p).op]
    BY <1>3, FrameStatus, LicenseFacts DEF Same
  <1>4. \A p \in Places' : FrameAt(p)'.kind = "join" \/ Same(p) \/ RunNew(p, R)
    BY LicenseFrames
  <1> SUFFICES ASSUME NEW p \in Places'
               PROVE  LET f == FrameAt(p)'
                          c == f.op
                          open == status'[c] \notin Final
                      IN  /\ f.kind = "direct" /\ f.pc \in {"schedule", "suppl", "joined"} =>
                               hasFunc'[c] \/ ~ open
                          /\ f.kind = "run" =>
                               /\ f.pc = "start" /\ open => hasFunc'[c]
                               /\ f.pc # "start" => ~ hasFunc'[c]
                               /\ f.pc \in {"func", "oper"} /\ open => writeLock'[c]
                               /\ f.pc \in {"start", "func", "oper"} => result'[c] # "ready"
                               /\ f.pc = "oper" => \A a \in Args[c] : result'[a] = "ready"
                               /\ f.pc \in {"end", "cleanup"} =>
                                     result'[c] # "none" \/ ~ owned'[c] \/ closing'
    BY DEF PayloadInv
  <1>5. CASE FrameAt(p)'.kind = "join"
    BY <1>5
  <1>6. CASE Same(p) /\ FrameAt(p)'.kind # "join"
    BY <1>1, <1>3, <1>6 DEF PayloadInv
  <1>7. CASE RunNew(p, R)
    BY <1>2, <1>7
  <1> QED
    BY <1>4, <1>5, <1>6, <1>7

LEMMA LicenseKeeps ==
    ASSUME IInv, NEW R, NEW B, LicenseStep(R, B), Shape' PROVE IInv'
  BY LicenseCore, LicenseFrameInv, LicenseAdvance, AdvanceCause, AdvanceGraph, AdvanceLock,
     AdvanceResult, LicensePayload DEF IInv

-----------------------------------------------------------------------------
(* Activating keeps the invariant *)

LEMMA ActivateFacts ==
    ASSUME IInv, NEW X, ActivateStep(X)
    PROVE  /\ \A c \in X : /\ c \in Op /\ status[c] = "scheduled"
                           /\ status'[c] = "activated" /\ c \notin queued'
           /\ \A c \in Op \ X : status'[c] = status[c]
           /\ queued' \subseteq queued
           /\ \A c \in queued \ queued' : c \in X \/ life[c] # "alive" \/ status[c] \in Final
           /\ UNCHANGED <<life, result, owned, hasFunc, writeLock, suppliers, waiters, closing>>
           /\ TodoQuiet
           /\ \A p \in Places' : \/ Same(p)
                                 \/ FrameAt(p)'.kind = "join" /\ AliveFrame(FrameAt(p)')
                                    /\ JoinMove(p)
  <1>1. \A c \in X : c \in Op /\ status[c] = "scheduled"
    BY QueuedScheduled DEF ActivateStep
  <1>2. /\ X \cap queued' = {}
        /\ status' = [c \in Op |-> IF c \in X THEN "activated" ELSE status[c]]
        /\ queued' \subseteq queued
        /\ \A c \in queued \ queued' : c \in X \/ life[c] # "alive" \/ status[c] \in Final
        /\ UNCHANGED <<life, result, owned, hasFunc, writeLock, suppliers, waiters, closing>>
        /\ TodoQuiet
    BY DEF ActivateStep, context
  <1>3. \A p \in Places' : \/ Same(p)
                           \/ FrameAt(p)'.kind = "join" /\ AliveFrame(FrameAt(p)')
                              /\ JoinMove(p)
    BY DEF ActivateStep, JoinMove
  <1> QED
    BY <1>1, <1>2, <1>3

LEMMA ActivateAdvance ==
    ASSUME IInv, NEW X, ActivateStep(X) PROVE Advance
  <1>1. \A c \in Op : \/ status'[c] = status[c]
                      \/ /\ status[c] \in {"scheduled", "activated"}
                         /\ status'[c] \in {"scheduled", "activated", "running"}
    BY ActivateFacts
  <1>2. /\ UNCHANGED <<life, result, owned, hasFunc, writeLock, suppliers, waiters, closing>>
        /\ TodoQuiet
    BY ActivateFacts
  <1>3. \A p \in Places' : FrameAt(p)'.kind \in MetaKind => Same(p)
    BY ActivateFacts DEF MetaKind
  <1> QED
    BY <1>1, <1>2, <1>3 DEF Advance

LEMMA ActivateCore ==
    ASSUME IInv, NEW X, ActivateStep(X), Shape' PROVE CoreInv'
  <1>1. TypeOK' /\ CountInv'
    BY ActivateCounts
  <1>2. ExistInv'
    <2>1. \A p \in Places' : life'[FrameAt(p)'.op] = "alive"
                           /\ \A a \in FrameAt(p)'.rest : life'[a] = "alive"
      <3> TAKE p \in Places'
      <3>1. CASE Same(p)
        BY <3>1, ActivateFacts, InvShape DEF ExistInv, Same
      <3>2. CASE AliveFrame(FrameAt(p)')
        BY <3>2, ActivateFacts DEF AliveFrame
      <3> QED
        BY <3>1, <3>2, ActivateFacts
    <2>2. ASSUME NEW c \in Op, life'[c] = "new"
          PROVE  status'[c] = "none" /\ c \notin queued' /\ \A a \in Op : c \notin waiters'[a]
      <3>1. life[c] = "new"
        BY <2>2, ActivateFacts
      <3>2. status[c] = "none" /\ c \notin queued /\ \A a \in Op : c \notin waiters[a]
        BY <3>1, InvShape DEF ExistInv
      <3> QED
        BY <3>2, ActivateFacts
    <2>3. UNCHANGED <<life, owned, suppliers>>
      BY ActivateFacts
    <2>4. \A t \in Thread : \A i \in todo'[t] : i \in todo[t] \/ i = Start
      BY ActivateFacts, TodoQuietItems
    <2> QED
      BY <2>1, <2>2, <2>3, <2>4, InvShape DEF ExistInv
  <1>3. DirectInv'
    <2>1. DirectInv
      BY DEF IInv, CoreInv
    <2>2. \A c \in Direct : status'[c] \notin {"waiting", "scheduled", "activated"}
      BY <2>1, ActivateFacts, SchedulerAssumption DEF DirectInv
    <2>3. \A p \in Places' : FrameAt(p)'.kind = "direct" => Same(p)
      BY ActivateFacts
    <2> QED
      BY <2>1, <2>2, <2>3 DEF DirectInv, Same
  <1>4. QueuedMeansScheduled'
    <2> SUFFICES ASSUME NEW c \in Op, life'[c] = "alive"
                 PROVE  /\ status'[c] = "scheduled" => c \in queued'
                        /\ c \in queued' => status'[c] \in {"scheduled"} \cup Final
      BY DEF QueuedMeansScheduled
    <2>1. /\ status[c] = "scheduled" => c \in queued
          /\ c \in queued => status[c] \in {"scheduled"} \cup Final
          /\ life[c] = "alive"
      BY ActivateFacts DEF IInv, CoreInv, QueuedMeansScheduled
    <2>2. status'[c] = "scheduled" => c \in queued'
      <3>1. status'[c] = "scheduled" => c \notin X /\ status[c] = "scheduled"
        BY ActivateFacts
      <3> QED
        BY <2>1, <3>1, ActivateFacts DEF Final
    <2>3. c \in queued' => status'[c] \in {"scheduled"} \cup Final
      BY <2>1, ActivateFacts
    <2> QED
      BY <2>2, <2>3
  <1> QED
    BY <1>1, <1>2, <1>3, <1>4 DEF CoreInv

LEMMA ActivateFrameInv ==
    ASSUME IInv, NEW X, ActivateStep(X) PROVE FrameInv'
  <1>1. ASSUME NEW p \in Places'
        PROVE  /\ FrameAt(p)'.kind = "run" =>
                    status'[FrameAt(p)'.op] \in {"running", "exception", "cancelled"}
               /\ FrameAt(p)'.kind \in MetaKind =>
                    p[1] = Meta /\ status'[FrameAt(p)'.op] \in {"none", "exception"}
               /\ closing' => p[1] # Meta
    <2>1. CASE Same(p)
      <3>1. p \in Places /\ FrameAt(p)' = FrameAt(p)
        BY <2>1 DEF Same
      <3>2. CASE FrameAt(p).kind # "join"
        BY <3>1, <3>2, FrameStatus, ActivateFacts, InvShape DEF FrameInv
      <3>3. CASE FrameAt(p).kind = "join"
        BY <3>1, <3>3, ActivateFacts, InvShape DEF FrameInv, MetaKind
      <3> QED
        BY <3>2, <3>3
    <2>2. CASE JoinMove(p)
      BY <2>2, ActivateFacts, InvShape DEF JoinMove, MetaKind, FrameInv
    <2> QED
      BY <2>1, <2>2, ActivateFacts
  <1>2. \A p \in Places' : FrameAt(p)'.kind = "join" \/ Carried(p)
    BY ActivateFacts, SameCarried
  <1>3. \A p, r \in Places' :
              FrameAt(p)'.op = FrameAt(r)'.op /\ FrameAt(p)'.kind # "join"
              /\ FrameAt(r)'.kind # "join" => p = r
    BY <1>2, InvShape, UniqueKept
  <1> QED
    BY <1>1, <1>3 DEF FrameInv

LEMMA ActivatePayload ==
    ASSUME IInv, NEW X, ActivateStep(X) PROVE PayloadInv'
  <1>1. PayloadInv /\ UNCHANGED <<owned, hasFunc, writeLock, result, closing>>
    BY ActivateFacts DEF IInv
  <1>2. ASSUME NEW p \in Places', FrameAt(p)'.kind # "join"
        PROVE  /\ p \in Places /\ FrameAt(p)' = FrameAt(p)
               /\ status'[FrameAt(p).op] = status[FrameAt(p).op]
    BY <1>2, FrameStatus, ActivateFacts DEF Same
  <1> QED
    BY <1>1, <1>2 DEF PayloadInv

LEMMA ActivateKeeps ==
    ASSUME IInv, NEW X, ActivateStep(X), Shape' PROVE IInv'
  BY ActivateCore, ActivateFrameInv, ActivateAdvance, AdvanceCause, AdvanceGraph, AdvanceLock,
     AdvanceResult, ActivatePayload DEF IInv

-----------------------------------------------------------------------------
(* Running a payload keeps the invariant *)

\* A context that is run: where it stands before its payload goes on.
LEMMA RunBefore ==
    ASSUME IInv, NEW p \in Places, FrameAt(p).kind = "run", NEW c, FrameAt(p).op = c
    PROVE  /\ c \in Op /\ life[c] = "alive"
           /\ status[c] \in {"running", "exception", "cancelled"}
           /\ status[c] \in Final => result[c] = "failed" \/ closing
           /\ FrameAt(p).pc = "start" /\ status[c] \notin Final => hasFunc[c]
           /\ FrameAt(p).pc # "start" => ~ hasFunc[c]
           /\ FrameAt(p).pc \in {"func", "oper"} /\ status[c] \notin Final => writeLock[c]
           /\ FrameAt(p).pc \in {"start", "func", "oper"} => result[c] # "ready"
           /\ FrameAt(p).pc = "oper" => \A a \in Args[c] : result[a] = "ready"
           /\ FrameAt(p).pc \in {"end", "cleanup"} => result[c] # "none" \/ ~ owned[c] \/ closing
           /\ result[c] \in {"none", "ready", "failed"}
           /\ hasFunc[c] => writeLock[c]
  <1>1. c \in Op /\ status[c] \in {"running", "exception", "cancelled"}
    BY FrameStatus
  <1>2. life[c] = "alive"
    BY InvShape DEF ExistInv
  <1>3. status[c] \in Final => result[c] = "failed" \/ closing
    BY <1>1, <1>2 DEF Final, IInv, CauseInv
  <1>4. /\ FrameAt(p).pc = "start" /\ status[c] \notin Final => hasFunc[c]
        /\ FrameAt(p).pc # "start" => ~ hasFunc[c]
        /\ FrameAt(p).pc \in {"func", "oper"} /\ status[c] \notin Final => writeLock[c]
        /\ FrameAt(p).pc \in {"start", "func", "oper"} => result[c] # "ready"
        /\ FrameAt(p).pc = "oper" => \A a \in Args[c] : result[a] = "ready"
        /\ FrameAt(p).pc \in {"end", "cleanup"} => result[c] # "none" \/ ~ owned[c] \/ closing
    BY DEF IInv, PayloadInv
  <1>5. result[c] \in {"none", "ready", "failed"} /\ (hasFunc[c] => writeLock[c])
    BY <1>1, InvShape DEF Shape, IInv, LockInv
  <1> QED
    BY <1>1, <1>2, <1>3, <1>4, <1>5

LEMMA RunFacts ==
    ASSUME IInv, NEW p, NEW c, RunMove(p, c)
    PROVE  /\ p \in Places /\ FrameAt(p).kind = "run" /\ FrameAt(p).op = c /\ c \in Op
           /\ FrameAt(p)'.kind = "run" /\ FrameAt(p)'.op = c /\ Carried(p)
           /\ FrameAt(p)'.rest = FrameAt(p).rest /\ Places' = Places
           /\ \A r \in Places' : r # p => Same(r)
           /\ \A r \in Places' : r # p /\ FrameAt(r)'.kind # "join" => FrameAt(r).op # c
           /\ UNCHANGED <<life, owned, status, suppliers, waiters, queued, nrActive,
                          activePhase, finished, todo, closing>>
           /\ \A d \in Op : d # c =>
                 result'[d] = result[d] /\ hasFunc'[d] = hasFunc[d] /\ writeLock'[d] = writeLock[d]
           /\ \A d \in Op : /\ result[d] = "failed" => result'[d] = "failed"
                            /\ result[d] = "ready" => result'[d] = "ready"
                            /\ result[d] # "none" => result'[d] # "none"
  <1> DEFINE f == FrameAt(p)
             g == FrameAt(p)'
  <1>1. /\ p \in Places /\ f.kind = "run" /\ f.op = c /\ c \in Op
        /\ g.kind = "run" /\ g.op = c /\ g.rest = f.rest /\ Places' = Places
        /\ \A r \in Places' : r # p => Same(r)
    BY DEF RunMove
  <1>2. Carried(p)
    BY <1>1 DEF Carried
  <1>3. ASSUME NEW r \in Places', r # p, FrameAt(r)'.kind # "join"
        PROVE  FrameAt(r).op # c
    <2>1. r \in Places /\ FrameAt(r).kind # "join"
      BY <1>1, <1>3 DEF Same
    <2> QED
      BY <1>1, <1>3, <2>1, InvShape DEF FrameInv
  <1>4. UNCHANGED <<life, owned, status, suppliers, waiters, queued, nrActive,
                    activePhase, finished, todo, closing>>
    BY DEF RunMove, graph, queues
  <1>5. /\ f.pc \in {"start", "func", "oper"} => result[c] # "ready"
        /\ result \in [Op -> {"none", "ready", "failed"}]
        /\ hasFunc \in [Op -> BOOLEAN] /\ writeLock \in [Op -> BOOLEAN]
    BY <1>1, RunBefore, InvShape DEF Shape
  <1>6. \/ UNCHANGED result
        \/ f.pc = "func" /\ result' = [result EXCEPT ![c] = "failed"]
        \/ result' = [result EXCEPT ![c] = IF @ = "none" THEN "ready" ELSE @]
    BY DEF RunMove
  <1>7. \A d \in Op : /\ d # c => result'[d] = result[d]
                      /\ result[d] = "failed" => result'[d] = "failed"
                      /\ result[d] = "ready" => result'[d] = "ready"
                      /\ result[d] # "none" => result'[d] # "none"
    BY <1>1, <1>5, <1>6
  <1>8. hasFunc' = hasFunc \/ hasFunc' = [hasFunc EXCEPT ![c] = FALSE]
    BY DEF RunMove
  <1>9. writeLock' = writeLock \/ writeLock' = [writeLock EXCEPT ![c] = FALSE]
    BY DEF RunMove
  <1>10. \A d \in Op : d # c => hasFunc'[d] = hasFunc[d] /\ writeLock'[d] = writeLock[d]
    BY <1>5, <1>8, <1>9
  <1> HIDE DEF f, g
  <1> QED
    BY <1>1, <1>2, <1>3, <1>4, <1>7, <1>10 DEF f, g

LEMMA RunCore ==
    ASSUME IInv, NEW p, NEW c, RunMove(p, c), Shape' PROVE CoreInv'
  <1>1. UNCHANGED <<life, owned, status, suppliers, waiters, queued, nrActive, finished, todo>>
    BY RunFacts
  <1>2. TypeOK' /\ CountInv'
    BY <1>1, CountsKept
  <1>3. \A r \in Places' : r \in Places /\ FrameAt(r)'.op = FrameAt(r).op
           /\ FrameAt(r)'.rest = FrameAt(r).rest /\ FrameAt(r)'.kind = FrameAt(r).kind
           /\ (r = p \/ FrameAt(r)'.pc = FrameAt(r).pc)
    BY RunFacts DEF Same
  <1>4. FrameAt(p).kind = "run"
    BY RunFacts
  <1>5. ExistInv'
    BY <1>1, <1>3, InvShape DEF ExistInv
  <1>6. DirectInv'
    BY <1>1, <1>3, <1>4 DEF DirectInv, IInv, CoreInv
  <1>7. QueuedMeansScheduled'
    BY <1>1 DEF QueuedMeansScheduled, IInv, CoreInv
  <1> QED
    BY <1>2, <1>5, <1>6, <1>7 DEF CoreInv

LEMMA RunFrameInv ==
    ASSUME IInv, NEW p, NEW c, RunMove(p, c) PROVE FrameInv'
  <1>1. UNCHANGED <<status, closing>>
    BY RunFacts
  <1>2. \A r \in Places' : r \in Places /\ FrameAt(r)'.op = FrameAt(r).op
           /\ FrameAt(r)'.kind = FrameAt(r).kind
    BY RunFacts DEF Same
  <1> QED
    BY <1>1, <1>2, InvShape DEF FrameInv

LEMMA RunCauseGraph ==
    ASSUME IInv, NEW p, NEW c, RunMove(p, c) PROVE CauseInv' /\ GraphInv'
  <1>1. CauseInv /\ GraphInv /\ UNCHANGED <<life, status, suppliers, waiters, todo, closing>>
        /\ \A d \in Op : result[d] = "failed" => result'[d] = "failed"
    BY RunFacts DEF IInv
  <1>2. \A t \in Thread : \A i \in todo[t] : i.do = "endFailed" => i.op \in Op
    <2>1. \A t \in Thread : \A i \in todo[t] : i \in Item
      BY InvShape DEF Shape
    <2> QED
      BY <2>1, ItemFields, StartFields
  <1>3. CauseInv'
    BY <1>1, <1>2 DEF CauseInv
  <1>4. \A w \in Op : PendingFor(w)' <=> PendingFor(w)
    BY <1>1 DEF PendingFor
  <1>5. \A r \in Places' : FrameAt(r)'.kind = "direct" => Same(r)
    BY RunFacts
  <1>6. \A r \in Places' : FrameAt(r)'.kind = "direct" /\ FrameAt(r)'.pc \in {"suppl", "joined"}
         => suppliers'[FrameAt(r)'.op] \subseteq FrameAt(r)'.rest
    BY <1>1, <1>5 DEF GraphInv, Same
  <1>7. GraphInv'
    BY <1>1, <1>4, <1>6 DEF GraphInv
  <1> QED
    BY <1>3, <1>7

LEMMA RunLock ==
    ASSUME IInv, NEW p, NEW c, RunMove(p, c) PROVE LockInv'
  <1>1. /\ LockInv /\ UNCHANGED <<owned, status, closing>>
        /\ \A d \in Op : d # c =>
              result'[d] = result[d] /\ hasFunc'[d] = hasFunc[d] /\ writeLock'[d] = writeLock[d]
        /\ \A d \in Op : result[d] # "none" => result'[d] # "none"
        /\ c \in Op
    BY RunFacts DEF IInv
  <1>2. /\ status[c] \in {"running", "exception", "cancelled"}
        /\ FrameAt(p).pc # "start" => ~ hasFunc[c]
        /\ FrameAt(p).pc \in {"end", "cleanup"} => result[c] # "none" \/ ~ owned[c] \/ closing
    BY RunFacts, RunBefore
  <1>3. hasFunc \in [Op -> BOOLEAN] /\ writeLock \in [Op -> BOOLEAN]
    BY InvShape DEF Shape
  <1>4. \/ /\ writeLock' = writeLock
           /\ hasFunc' = hasFunc \/ hasFunc' = [hasFunc EXCEPT ![c] = FALSE]
        \/ /\ FrameAt(p).pc = "end" /\ writeLock' = [writeLock EXCEPT ![c] = FALSE]
           /\ hasFunc' = hasFunc
    BY DEF RunMove
  <1>5. hasFunc'[c] => hasFunc[c] /\ writeLock'[c]
    BY <1>1, <1>2, <1>3, <1>4 DEF LockInv
  <1>6. writeLock[c] => writeLock'[c] \/ result[c] # "none" \/ ~ owned[c] \/ closing
    BY <1>1, <1>2, <1>3, <1>4
  <1>7. \A d \in Op : hasFunc'[d] => writeLock'[d] /\ status'[d] \notin Final
    BY <1>1, <1>5 DEF LockInv
  <1>8. \A d \in Op : status'[d] \in {"waiting", "scheduled", "activated"} => hasFunc'[d]
    BY <1>1, <1>2 DEF LockInv
  <1>9. \A d \in Op :
         owned'[d] /\ ~ closing' /\ status'[d] \in {"waiting", "scheduled"} \cup Started
         => writeLock'[d] \/ result'[d] # "none"
    BY <1>1, <1>6 DEF LockInv
  <1>10. ASSUME NEW d \in Op, owned'[d], ~ closing', NEW a \in Args[d]
         PROVE  result'[a] # "none" \/ (owned'[a] /\ writeLock'[a])
    <2>1. a \in Op
      BY SchedulerAssumption
    <2>2. result[a] # "none" \/ (owned[a] /\ writeLock[a])
      BY <1>1, <1>10 DEF LockInv
    <2> QED
      BY <1>1, <1>6, <1>10, <2>1, <2>2
  <1> QED
    BY <1>7, <1>8, <1>9, <1>10 DEF LockInv

LEMMA RunResult ==
    ASSUME IInv, NEW p, NEW c, RunMove(p, c) PROVE ResultInv'
  <1>1. /\ ResultInv /\ UNCHANGED <<status, todo>> /\ c \in Op
        /\ \A d \in Op : d # c => result'[d] = result[d]
        /\ \A d \in Op : /\ result[d] = "failed" => result'[d] = "failed"
                         /\ result[d] = "ready" => result'[d] = "ready"
    BY RunFacts DEF IInv
  <1>2. /\ status[c] \in {"running"} \cup Final
        /\ FrameAt(p).pc = "oper" => \A a \in Args[c] : result[a] = "ready"
    BY RunFacts, RunBefore DEF Final
  <1>3. result'[c] = "ready" => result[c] = "ready" \/ FrameAt(p).pc = "oper"
    <2>1. \/ UNCHANGED result
          \/ result' = [result EXCEPT ![c] = "failed"]
          \/ FrameAt(p).pc = "oper"
      BY DEF RunMove
    <2>2. result \in [Op -> {"none", "ready", "failed"}]
      BY InvShape DEF Shape
    <2> QED
      BY <1>1, <2>1, <2>2
  <1>4. \A d \in Op : \A a \in Args[d] : a \in Op
    BY SchedulerAssumption
  <1>5. \A d \in Op : result'[d] = "ready" =>
         /\ status'[d] \in {"running"} \cup Final
         /\ \A a \in Args[d] : result'[a] = "ready"
    BY <1>1, <1>2, <1>3, <1>4 DEF ResultInv
  <1>6. \A t \in Thread : \A i \in todo'[t] :
         i.do \in {"fail", "endFailed"} => \E a \in Args[i.op] : result'[a] = "failed"
    <2> SUFFICES ASSUME NEW t \in Thread, NEW i \in todo[t], i.do \in {"fail", "endFailed"}
                 PROVE  \E a \in Args[i.op] : result'[a] = "failed"
      BY <1>1
    <2>1. i.op \in Op
      BY ItemFields, StartFields, InvShape DEF Shape
    <2> QED
      BY <1>1, <1>4, <2>1 DEF ResultInv
  <1> QED
    BY <1>5, <1>6 DEF ResultInv

LEMMA RunPayload ==
    ASSUME IInv, NEW p, NEW c, RunMove(p, c) PROVE PayloadInv'
  <1> DEFINE f == FrameAt(p)
             g == FrameAt(p)'
  <1>1. /\ PayloadInv /\ LockInv /\ UNCHANGED <<owned, status, closing>>
        /\ \A d \in Op : d # c =>
              result'[d] = result[d] /\ hasFunc'[d] = hasFunc[d] /\ writeLock'[d] = writeLock[d]
        /\ \A d \in Op : result[d] = "ready" => result'[d] = "ready"
        /\ c \in Op /\ g.kind = "run" /\ g.op = c
    BY RunFacts DEF IInv
  <1>2. /\ status[c] \in {"running", "exception", "cancelled"}
        /\ status[c] \in Final => result[c] = "failed" \/ closing
        /\ f.pc = "start" /\ status[c] \notin Final => hasFunc[c]
        /\ f.pc # "start" => ~ hasFunc[c]
        /\ f.pc \in {"func", "oper"} /\ status[c] \notin Final => writeLock[c]
        /\ f.pc \in {"start", "func", "oper"} => result[c] # "ready"
        /\ f.pc = "oper" => \A a \in Args[c] : result[a] = "ready"
        /\ f.pc \in {"end", "cleanup"} => result[c] # "none" \/ ~ owned[c] \/ closing
        /\ result[c] \in {"none", "ready", "failed"} /\ (hasFunc[c] => writeLock[c])
    BY RunFacts, RunBefore
  <1>3. /\ result \in [Op -> {"none", "ready", "failed"}]
        /\ hasFunc \in [Op -> BOOLEAN] /\ writeLock \in [Op -> BOOLEAN]
        /\ Args[c] \subseteq Op
    BY <1>1, InvShape, SchedulerAssumption DEF Shape
  <1>4. /\ g.pc \in {"func", "oper", "end", "cleanup"} /\ ~ hasFunc'[c]
        /\ g.pc \in {"func", "oper"} /\ status[c] \notin Final => writeLock'[c]
        /\ g.pc \in {"func", "oper"} => result'[c] # "ready"
        /\ g.pc = "oper" => \A a \in Args[c] : result'[a] = "ready"
        /\ g.pc \in {"end", "cleanup"} => result'[c] # "none" \/ ~ owned[c] \/ closing
    <2>1. CASE /\ f.pc = "start" /\ g.pc = IF hasFunc[c] THEN "func" ELSE "end"
               /\ hasFunc' = [hasFunc EXCEPT ![c] = FALSE]
               /\ UNCHANGED <<result, writeLock>>
      BY <1>1, <1>2, <1>3, <2>1
    <2>2. CASE /\ f.pc = "func" /\ g.pc = "end" /\ ~ owned[c]
               /\ UNCHANGED <<hasFunc, result, writeLock>>
      BY <1>2, <2>2
    <2>3. CASE /\ f.pc = "func" /\ g.pc = "end"
               /\ result' = [result EXCEPT ![c] = "failed"]
               /\ UNCHANGED <<hasFunc, writeLock>>
      BY <1>1, <1>2, <1>3, <2>3
    <2>4. CASE /\ f.pc = "func" /\ g.pc = "oper" /\ owned[c] /\ ~ closing
               /\ \A a \in Args[c] : result[a] # "failed" /\ ~ writeLock[a]
               /\ UNCHANGED <<hasFunc, result, writeLock>>
      <3>1. \A a \in Args[c] : result[a] # "none"
        BY <1>1, <2>4 DEF LockInv
      <3>2. \A a \in Args[c] : result[a] = "ready"
        BY <1>3, <2>4, <3>1
      <3> QED
        BY <1>2, <2>4, <3>2
    <2>5. CASE /\ f.pc = "oper" /\ g.pc = "end"
               /\ result' = [result EXCEPT ![c] = IF @ = "none" THEN "ready" ELSE @]
               /\ UNCHANGED <<hasFunc, writeLock>>
      BY <1>1, <1>2, <1>3, <2>5
    <2>6. CASE /\ f.pc = "end" /\ g.pc = "cleanup"
               /\ writeLock' = [writeLock EXCEPT ![c] = FALSE]
               /\ UNCHANGED <<hasFunc, result>>
      BY <1>2, <2>6
    <2> QED
      BY <2>1, <2>2, <2>3, <2>4, <2>5, <2>6 DEF RunMove
  <1>5. ASSUME NEW r \in Places', r # p, FrameAt(r)'.kind # "join"
        PROVE  /\ r \in Places /\ FrameAt(r)' = FrameAt(r) /\ FrameAt(r).op # c
               /\ FrameAt(r).op \in Op /\ Args[FrameAt(r).op] \subseteq Op
    <2>1. r \in Places /\ FrameAt(r)' = FrameAt(r) /\ FrameAt(r).op # c
      BY <1>5, RunFacts DEF Same
    <2>2. FrameAt(r).op \in Op
      BY <1>5, <2>1, FrameStatus
    <2> QED
      BY <2>1, <2>2, SchedulerAssumption
  <1> HIDE DEF f, g
  <1> SUFFICES ASSUME NEW r \in Places'
               PROVE  LET h == FrameAt(r)'
                          d == h.op
                          open == status'[d] \notin Final
                      IN  /\ h.kind = "direct" /\ h.pc \in {"schedule", "suppl", "joined"} =>
                               hasFunc'[d] \/ ~ open
                          /\ h.kind = "run" =>
                               /\ h.pc = "start" /\ open => hasFunc'[d]
                               /\ h.pc # "start" => ~ hasFunc'[d]
                               /\ h.pc \in {"func", "oper"} /\ open => writeLock'[d]
                               /\ h.pc \in {"start", "func", "oper"} => result'[d] # "ready"
                               /\ h.pc = "oper" => \A a \in Args[d] : result'[a] = "ready"
                               /\ h.pc \in {"end", "cleanup"} =>
                                     result'[d] # "none" \/ ~ owned'[d] \/ closing'
    BY DEF PayloadInv
  <1>6. CASE FrameAt(r)'.kind = "join"
    BY <1>6
  <1>7. CASE r # p /\ FrameAt(r)'.kind # "join"
    BY <1>1, <1>5, <1>7 DEF PayloadInv
  <1>8. CASE r = p
    BY <1>1, <1>4, <1>8 DEF g
  <1> QED
    BY <1>6, <1>7, <1>8

LEMMA RunKeeps ==
    ASSUME IInv, NEW p, NEW c, RunMove(p, c), Shape' PROVE IInv'
  BY RunCore, RunFrameInv, RunCauseGraph, RunLock, RunResult, RunPayload DEF IInv

-----------------------------------------------------------------------------
(* Ending contexts keeps the invariant *)

\* A result that is ready stays so, and one that failed too.
LEMMA EndResults ==
    ASSUME IInv, \A c \in Op : result'[c] = result[c] \/ Fails(c)
    PROVE  \A c \in Op : /\ result'[c] = "ready" <=> result[c] = "ready"
                         /\ result[c] = "failed" => result'[c] = "failed"
                         /\ result[c] # "none" => result'[c] # "none"
  <1> TAKE c \in Op
  <1>1. ASSUME Fails(c) PROVE result[c] # "ready" /\ result'[c] = "failed"
    <2>1. PICK p \in Places :
            /\ FrameAt(p).op = c
            /\ FrameAt(p).kind \in MetaKind \/ (FrameAt(p).kind = "run" /\ FrameAt(p).pc = "oper")
      BY <1>1 DEF Fails
    <2>2. CASE FrameAt(p).kind \in MetaKind
      <3>1. status[c] \in {"none", "exception"}
        BY <2>1, <2>2, InvShape DEF FrameInv
      <3>2. status[c] = "exception" => result[c] = "failed"
        BY DEF IInv, CauseInv
      <3>3. result[c] = "ready" => status[c] \in {"running"} \cup Final
        BY DEF IInv, ResultInv
      <3> QED
        BY <1>1, <3>1, <3>2, <3>3 DEF Final, Fails
    <2>3. CASE FrameAt(p).kind = "run" /\ FrameAt(p).pc = "oper"
      BY <1>1, <2>1, <2>3, RunBefore DEF Fails
    <2> QED
      BY <2>1, <2>2, <2>3
  <1> QED
    BY <1>1

LEMMA EndFacts ==
    ASSUME IInv, NEW S, NEW st, EndStep(S, st)
    PROVE  /\ S \subseteq Op /\ st \in Final
           /\ \A c \in S : /\ status[c] \notin Final /\ status'[c] = st
                           /\ ~ hasFunc'[c] /\ ~ owned'[c] /\ ~ writeLock'[c]
                           /\ suppliers'[c] = {} /\ waiters'[c] = {}
           /\ \A c \in Op \ S : /\ hasFunc'[c] = hasFunc[c] /\ owned'[c] = owned[c]
                                /\ writeLock'[c] = writeLock[c] /\ waiters'[c] = waiters[c]
                                /\ suppliers'[c] = suppliers[c] \ {a \in S : c \in waiters[a]
                                                                   /\ life[c] = "alive"}
           /\ \A c \in Runnable(S, st) :
                 /\ c \in Op \ S /\ life[c] = "alive" /\ st = "done" /\ status[c] = "waiting"
                 /\ status'[c] = "scheduled" /\ suppliers'[c] = {} /\ c \in queued'
           /\ \A c \in Op \ S : c \notin Runnable(S, st) => status'[c] = status[c]
           /\ queued' \subseteq queued \cup Runnable(S, st)
           /\ \A c \in queued \ queued' : c \in S \/ life[c] # "alive" \/ status[c] \in Final
           /\ UNCHANGED <<life, closing>>
           /\ \A c \in S : EndCause(c, st)
           /\ \A p \in Places' : p \in Places /\ (Same(p) \/ JoinMove(p) \/ RunEnd(p))
  <1>1. /\ S \subseteq Op /\ st \in Final /\ \A c \in S : status[c] \notin Final
        /\ status' = [c \in Op |-> IF c \in S THEN st
                                   ELSE IF c \in Runnable(S, st) THEN "scheduled"
                                   ELSE status[c]]
        /\ suppliers' = SuppliersAfter(S)
        /\ waiters' = [c \in Op |-> IF c \in S THEN {} ELSE waiters[c]]
        /\ hasFunc' = Detach(S, hasFunc)
        /\ owned' = Detach(S, owned)
        /\ writeLock' = Detach(S, writeLock)
        /\ UNCHANGED <<life, closing>>
        /\ \A c \in S : EndCause(c, st)
        /\ \A p \in Places' : p \in Places /\ (Same(p) \/ JoinMove(p) \/ RunEnd(p))
    BY DEF EndStep, EndAll
  <1>2. /\ hasFunc \in [Op -> BOOLEAN] /\ owned \in [Op -> BOOLEAN]
        /\ writeLock \in [Op -> BOOLEAN]
    BY InvShape DEF Shape
  <1>3. \A c \in S : /\ ~ hasFunc'[c] /\ ~ owned'[c] /\ ~ writeLock'[c]
                     /\ suppliers'[c] = {} /\ waiters'[c] = {} /\ status'[c] = st
    BY <1>1 DEF Detach, SuppliersAfter
  <1>4. \A c \in Op \ S : hasFunc'[c] = hasFunc[c] /\ owned'[c] = owned[c]
                          /\ writeLock'[c] = writeLock[c]
    <2> TAKE c \in Op \ S
    <2>1. hasFunc'[c] = hasFunc[c]
      BY <1>1, <1>2 DEF Detach
    <2>2. owned'[c] = owned[c]
      BY <1>1, <1>2 DEF Detach
    <2>3. writeLock'[c] = writeLock[c]
      BY <1>1, <1>2 DEF Detach
    <2> QED
      BY <2>1, <2>2, <2>3
  <1>5. \A c \in Op \ S : /\ waiters'[c] = waiters[c]
                          /\ suppliers'[c] = suppliers[c] \ {a \in S : c \in waiters[a]
                                                             /\ life[c] = "alive"}
    BY <1>1 DEF SuppliersAfter
  <1>6. PICK G \in SUBSET queued :
          /\ queued' = (queued \ G) \cup Runnable(S, st)
          /\ \A c \in G : c \in S \/ life[c] # "alive" \/ status[c] \in Final
    BY DEF EndStep
  <1>7. \A c \in Runnable(S, st) :
           /\ c \in Op \ S /\ life[c] = "alive" /\ st = "done" /\ status[c] = "waiting"
           /\ status'[c] = "scheduled" /\ suppliers'[c] = {} /\ c \in queued'
    <2>1. \A c \in Runnable(S, st) :
           /\ c \in Op \ S /\ life[c] = "alive" /\ st = "done" /\ status[c] = "waiting"
           /\ suppliers'[c] = {}
      BY <1>1 DEF Runnable, WaitersOf
    <2> QED
      BY <1>1, <1>6, <2>1
  <1>8. \A c \in Op \ S : c \notin Runnable(S, st) => status'[c] = status[c]
    BY <1>1
  <1> QED
    BY <1>1, <1>3, <1>4, <1>5, <1>6, <1>7, <1>8

\* What the thread has to do afterwards, and what remains to be done.
LEMMA EndTodo ==
    ASSUME IInv, NEW S, NEW st, EndStep(S, st)
    PROVE  /\ \A t \in Thread : \A i \in todo'[t] :
                 \/ i \in todo[t]
                 \/ i = Start
                 \/ /\ i.op \in Op /\ life[i.op] = "alive" /\ \E a \in S : i.op \in waiters[a]
                    /\ \/ st = "exception" /\ i.do = "fail"
                       \/ st = "cancelled" /\ i.do = "cancel"
           /\ \A w \in Op : life[w] = "alive" /\ status[w] \notin Final /\ w \notin S
                            /\ PendingFor(w) => PendingFor(w)'
           /\ \A w \in WaitersOf(S) : st # "done" => PendingFor(w)'
  <1>1. PICK t \in Thread : \E keep \in SUBSET todo[t] :
            /\ todo' = [todo EXCEPT ![t] = keep \cup EndItems(S, st)]
            /\ \A i \in todo[t] \ keep : \/ i = Start \/ life[i.op] # "alive"
                                         \/ i.op \in S \/ status[i.op] \in Final
    BY DEF EndStep
  <1>2. PICK keep \in SUBSET todo[t] :
            /\ todo' = [todo EXCEPT ![t] = keep \cup EndItems(S, st)]
            /\ \A i \in todo[t] \ keep : \/ i = Start \/ life[i.op] # "alive"
                                         \/ i.op \in S \/ status[i.op] \in Final
    BY <1>1
  <1>3. todo \in [Thread -> SUBSET Item]
    BY InvShape DEF Shape
  <1>4. /\ todo'[t] = keep \cup EndItems(S, st)
        /\ \A u \in Thread : u # t => todo'[u] = todo[u]
    BY <1>2, <1>3
  <1>5. st \in Final /\ (S = {} => WaitersOf(S) = {})
    BY DEF EndStep, WaitersOf
  <1>6. \A i \in EndItems(S, st) : \/ i = Start
                                   \/ /\ i.op \in WaitersOf(S)
                                      /\ \/ st = "exception" /\ i.do = "fail"
                                         \/ st = "cancelled" /\ i.do = "cancel"
    BY <1>5 DEF EndItems, Final
  <1>7. \A w \in WaitersOf(S) : st # "done" => \E i \in EndItems(S, st) : i.op = w
    <2> SUFFICES ASSUME NEW w \in WaitersOf(S), st # "done"
                 PROVE  \E i \in EndItems(S, st) : i.op = w
      OBVIOUS
    <2>1. S # {}
      BY <1>5
    <2>2. [do |-> [exception |-> "fail", cancelled |-> "cancel"][st], op |-> w] \in EndItems(S, st)
      BY <2>1 DEF EndItems
    <2> QED
      BY <2>2
  <1>8. \A w \in WaitersOf(S) : w \in Op /\ life[w] = "alive" /\ \E a \in S : w \in waiters[a]
    BY DEF WaitersOf
  <1>9. \A u \in Thread : \A i \in todo'[u] :
                 \/ i \in todo[u]
                 \/ i = Start
                 \/ /\ i.op \in Op /\ life[i.op] = "alive" /\ \E a \in S : i.op \in waiters[a]
                    /\ \/ st = "exception" /\ i.do = "fail"
                       \/ st = "cancelled" /\ i.do = "cancel"
    <2> SUFFICES ASSUME NEW u \in Thread, NEW i \in todo'[u], i \notin todo[u]
                 PROVE  i = Start \/ (i.op \in WaitersOf(S)
                                      /\ \/ st = "exception" /\ i.do = "fail"
                                         \/ st = "cancelled" /\ i.do = "cancel")
      BY <1>8
    <2>1. i \in EndItems(S, st)
      BY <1>2, <1>4
    <2> QED
      BY <1>6, <2>1
  <1>10. ASSUME NEW w \in Op, life[w] = "alive", status[w] \notin Final, w \notin S, PendingFor(w)
         PROVE  PendingFor(w)'
    <2>1. PICK u \in Thread : \E i \in todo[u] : i.op = w
      BY <1>10 DEF PendingFor
    <2>2. PICK i \in todo[u] : i.op = w
      BY <2>1
    <2>3. i # Start
      BY <2>2, SchedulerAssumption, StartFields
    <2>4. i \in todo'[u]
      BY <1>2, <1>4, <1>10, <2>2, <2>3
    <2> QED
      BY <2>2, <2>4 DEF PendingFor
  <1>11. ASSUME NEW w \in WaitersOf(S), st # "done"
         PROVE  PendingFor(w)'
    BY <1>4, <1>7, <1>11 DEF PendingFor
  <1> QED
    BY <1>9, <1>10, <1>11

\* Whether a context has ended, before and after.
LEMMA EndStatus ==
    ASSUME IInv, NEW S, NEW st, EndStep(S, st), NEW c \in Op
    PROVE  /\ c \notin S => (status'[c] \in Final <=> status[c] \in Final)
           /\ status[c] \in Final => status'[c] = status[c]
           /\ c \in S => status'[c] \in Final
           /\ status'[c] \in {"none", "waiting", "activated", "running"} =>
                 c \notin S /\ status[c] = status'[c]
           /\ status[c] # "waiting" /\ c \notin S => status'[c] = status[c]
           /\ status'[c] = "scheduled" =>
                 \/ c \notin S /\ status[c] = "scheduled"
                 \/ c \notin S /\ status[c] = "waiting" /\ c \in Runnable(S, st)
  <1>1. CASE c \in S
    BY <1>1, EndFacts, StatusKinds DEF Final
  <1>2. CASE c \in Runnable(S, st)
    BY <1>2, EndFacts DEF Final
  <1>3. CASE c \notin S /\ c \notin Runnable(S, st)
    BY <1>3, EndFacts
  <1> QED
    BY <1>1, <1>2, <1>3

\* The frames that stay.
LEMMA EndFrames ==
    ASSUME IInv, NEW S, NEW st, EndStep(S, st), NEW p \in Places'
    PROVE  /\ p \in Places /\ AliveFrame(FrameAt(p)')
           /\ FrameAt(p)'.kind = "join" \/ Carried(p)
           /\ FrameAt(p)'.kind = "run" => FrameAt(p).kind = "run"
           /\ FrameAt(p)'.kind \in MetaKind => Same(p)
           /\ FrameAt(p)'.kind = "join" \/ Same(p) \/ RunEnd(p)
  <1>1. p \in Places /\ (Same(p) \/ JoinMove(p) \/ RunEnd(p))
    BY EndFacts
  <1>2. life[FrameAt(p).op] = "alive" /\ \A a \in FrameAt(p).rest : life[a] = "alive"
    BY <1>1, InvShape DEF ExistInv
  <1>3. life' = life
    BY EndFacts
  <1>4. CASE Same(p)
    BY <1>1, <1>2, <1>3, <1>4, SameCarried DEF Same, AliveFrame
  <1>5. CASE JoinMove(p)
    BY <1>1, <1>3, <1>5 DEF JoinMove, AliveFrame, MetaKind
  <1>6. CASE RunEnd(p)
    BY <1>1, <1>2, <1>3, <1>6 DEF RunEnd, AliveFrame, Carried, MetaKind
  <1> QED
    BY <1>1, <1>4, <1>5, <1>6

LEMMA EndCore ==
    ASSUME IInv, NEW S, NEW st, EndStep(S, st), Shape' PROVE CoreInv'
  <1>1. TypeOK' /\ CountInv'
    BY EndCounts
  <1>2. UNCHANGED life
    BY EndFacts
  <1>3. ASSUME NEW c \in Op, life'[c] = "new"
        PROVE  /\ status'[c] = "none" /\ c \notin queued' /\ suppliers'[c] = {}
               /\ \A a \in Op : c \notin waiters'[a]
    <2>1. /\ status[c] = "none" /\ c \notin queued /\ suppliers[c] = {}
          /\ \A a \in Op : c \notin waiters[a]
      BY <1>2, <1>3, InvShape DEF ExistInv
    <2>2. c \notin S /\ c \notin Runnable(S, st)
      BY <1>2, <1>3, EndFacts DEF EndCause
    <2>3. \A a \in Op : waiters'[a] \subseteq waiters[a]
      BY EndFacts
    <2>4. status'[c] = "none"
      BY <2>1, <2>2, EndFacts
    <2>5. c \notin queued' /\ suppliers'[c] = {}
      BY <2>1, <2>2, EndFacts
    <2> QED
      BY <2>1, <2>3, <2>4, <2>5
  <1>4. \A c \in Op : owned'[c] => life'[c] = "alive"
    BY <1>2, EndFacts, InvShape DEF ExistInv
  <1>5. \A w \in Op : \A a \in suppliers'[w] : life'[a] = "alive"
    <2>1. \A w \in Op : suppliers'[w] \subseteq suppliers[w]
      BY EndFacts
    <2> QED
      BY <1>2, <2>1, InvShape DEF ExistInv
  <1>6. \A p \in Places' : life'[FrameAt(p)'.op] = "alive"
                         /\ \A a \in FrameAt(p)'.rest : life'[a] = "alive"
    BY <1>2, EndFrames DEF AliveFrame
  <1>7. \A t \in Thread : \A i \in todo'[t] : i # Start =>
         /\ life'[i.op] # "new"
         /\ i.do = "endFailed" => life'[i.op] = "alive"
         /\ i.do = "destroy" => life'[i.op] = "dead"
    BY <1>2, EndTodo, InvShape DEF ExistInv
  <1>8. ExistInv'
    BY <1>3, <1>4, <1>5, <1>6, <1>7 DEF ExistInv
  <1>9. DirectInv'
    <2>1. DirectInv
      BY DEF IInv, CoreInv
    <2>2. ASSUME NEW c \in Direct
          PROVE  status'[c] \notin {"waiting", "scheduled", "activated"}
      <3>1. c \in Op /\ status[c] \notin {"waiting", "scheduled", "activated"}
        BY <2>1, SchedulerAssumption DEF DirectInv
      <3> QED
        BY <3>1, EndStatus
    <2>3. \A p \in Places' : FrameAt(p)'.kind = "direct" => Same(p)
      BY EndFrames DEF MetaKind
    <2> QED
      BY <2>1, <2>2, <2>3 DEF DirectInv, Same
  <1>10. QueuedMeansScheduled'
    <2> SUFFICES ASSUME NEW c \in Op, life'[c] = "alive"
                 PROVE  /\ status'[c] = "scheduled" => c \in queued'
                        /\ c \in queued' => status'[c] \in {"scheduled"} \cup Final
      BY DEF QueuedMeansScheduled
    <2>1. /\ status[c] = "scheduled" => c \in queued
          /\ c \in queued => status[c] \in {"scheduled"} \cup Final
          /\ life[c] = "alive"
      BY <1>2 DEF IInv, CoreInv, QueuedMeansScheduled
    <2>2. status'[c] = "scheduled" => c \in queued'
      <3>1. CASE c \in Runnable(S, st)
        BY <3>1, EndFacts
      <3>2. CASE c \notin S /\ status[c] = "scheduled"
        BY <2>1, <3>2, EndFacts DEF Final
      <3> QED
        BY <3>1, <3>2, EndStatus
    <2>3. c \in queued' => status'[c] \in {"scheduled"} \cup Final
      <3>1. CASE c \in Runnable(S, st)
        BY <3>1, EndFacts
      <3>2. CASE c \in queued
        BY <2>1, <3>2, EndStatus
      <3> QED
        BY <3>1, <3>2, EndFacts
    <2> QED
      BY <2>2, <2>3
  <1> QED
    BY <1>1, <1>8, <1>9, <1>10 DEF CoreInv

LEMMA EndFrameInv ==
    ASSUME IInv, NEW S, NEW st, EndStep(S, st) PROVE FrameInv'
  <1>1. UNCHANGED <<life, closing>>
    BY EndFacts
  \* A context that is done has no other frame than the one that is left.
  <1>2. ASSUME NEW p \in Places', FrameAt(p)'.kind # "join", FrameAt(p)'.op \in S
        PROVE  st # "done"
    <2>1. Carried(p)
      BY <1>2, EndFrames
    <2>2. ASSUME NEW r \in Places \ Places', FrameAt(r).op = FrameAt(p).op, FrameAt(r).kind = "run"
          PROVE  FALSE
      BY <2>1, <2>2, InvShape DEF Carried, FrameInv
    <2>3. EndCause(FrameAt(p)'.op, st)
      BY <1>2, EndFacts
    <2> QED
      BY <2>1, <2>2, <2>3 DEF EndCause, Carried
  <1>3. ASSUME NEW p \in Places', FrameAt(p)'.kind = "run"
        PROVE  status'[FrameAt(p)'.op] \in {"running", "exception", "cancelled"}
    <2>1. FrameAt(p).kind = "run" /\ FrameAt(p).op = FrameAt(p)'.op /\ p \in Places
      BY <1>3, EndFrames DEF Carried
    <2>2. /\ FrameAt(p).op \in Op
          /\ status[FrameAt(p).op] \in {"running", "exception", "cancelled"}
      BY <2>1, FrameStatus
    <2>3. CASE FrameAt(p)'.op \in S
      <3>1. st # "done" /\ st \in Final /\ status'[FrameAt(p)'.op] = st
        BY <1>2, <1>3, <2>3, EndFacts
      <3> QED
        BY <3>1 DEF Final
    <2>4. CASE FrameAt(p)'.op \notin S
      BY <2>1, <2>2, <2>4, EndStatus
    <2> QED
      BY <2>3, <2>4
  <1>4. ASSUME NEW p \in Places', FrameAt(p)'.kind \in MetaKind
        PROVE  p[1] = Meta /\ status'[FrameAt(p)'.op] \in {"none", "exception"}
    <2>1. p \in Places /\ FrameAt(p)' = FrameAt(p)
      BY <1>4, EndFrames DEF Same
    <2>2. /\ p[1] = Meta /\ status[FrameAt(p).op] \in {"none", "exception"}
          /\ FrameAt(p).op \in Op /\ ~ closing /\ life[FrameAt(p).op] = "alive"
      BY <1>4, <2>1, InvShape, FrameType, FieldTypes DEF FrameInv, ExistInv
    <2>3. CASE FrameAt(p)'.op \in S
      <3>1. st # "done" /\ st \in Final /\ status'[FrameAt(p)'.op] = st
            /\ EndCause(FrameAt(p)'.op, st)
        BY <1>2, <1>4, <2>3, EndFacts DEF MetaKind
      <3>2. st # "cancelled"
        BY <2>1, <2>2, <3>1 DEF EndCause
      <3> QED
        BY <2>2, <3>1, <3>2 DEF Final
    <2>4. CASE FrameAt(p)'.op \notin S
      BY <2>1, <2>2, <2>4, EndStatus
    <2> QED
      BY <2>2, <2>3, <2>4
  <1>5. \A p, r \in Places' :
              FrameAt(p)'.op = FrameAt(r)'.op /\ FrameAt(p)'.kind # "join"
              /\ FrameAt(r)'.kind # "join" => p = r
    BY InvShape, EndFrames, UniqueKept
  <1>6. closing' => \A p \in Places' : p[1] # Meta
    BY <1>1, EndFrames, InvShape DEF FrameInv
  <1> QED
    BY <1>3, <1>4, <1>5, <1>6 DEF FrameInv

LEMMA EndCauseInv ==
    ASSUME IInv, NEW S, NEW st, EndStep(S, st) PROVE CauseInv'
  <1>1. CauseInv /\ UNCHANGED <<life, closing>>
    BY EndFacts DEF IInv
  <1>2. \A c \in Op : result[c] = "failed" => result'[c] = "failed"
    BY EndResults DEF EndStep
  <1>3. ASSUME NEW c \in Op
        PROVE  /\ status'[c] = "exception" => result'[c] = "failed"
               /\ status'[c] = "cancelled" => closing' \/ life'[c] = "dead"
    <2>1. CASE c \in S
      BY <1>1, <2>1, EndFacts DEF EndCause
    <2>2. CASE c \notin S /\ status'[c] \in Final
      <3>1. status'[c] = status[c]
        BY <2>2, EndStatus
      <3> QED
        BY <1>1, <1>2, <3>1 DEF CauseInv
    <2> QED
      BY <2>1, <2>2 DEF Final
  <1>4. ASSUME NEW a \in Op, NEW w \in waiters'[a], life'[w] = "alive"
        PROVE  a \in suppliers'[w] \/ status'[w] \in Final
    <2>1. a \notin S /\ w \in waiters[a]
      BY <1>4, EndFacts
    <2>2. w \in Op
      BY <2>1, InvShape DEF Shape
    <2>3. a \in suppliers[w] \/ status[w] \in Final
      BY <1>1, <1>4, <2>1 DEF CauseInv
    <2>4. CASE w \in S
      BY <2>2, <2>4, EndStatus
    <2>5. CASE w \notin S
      BY <2>1, <2>2, <2>3, <2>5, EndFacts, EndStatus
    <2> QED
      BY <2>4, <2>5
  <1>5. ASSUME NEW t \in Thread, NEW i \in todo'[t], i.do = "endFailed"
        PROVE  result'[i.op] = "failed"
    <2>1. i \in todo[t]
      BY <1>5, EndTodo, StartFields
    <2>2. i.op \in Op
      BY <1>5, <2>1, ItemFields, StartFields, InvShape DEF Shape
    <2> QED
      BY <1>1, <1>2, <1>5, <2>1, <2>2 DEF CauseInv
  <1>6. ASSUME NEW t \in Thread, NEW i \in todo'[t], i.do = "cancel", life'[i.op] = "alive"
        PROVE  closing' \/ status'[i.op] \in Final
    <2>1. CASE i \in todo[t]
      <3>1. i.op \in Op
        BY <1>6, <2>1, ItemFields, StartFields, InvShape DEF Shape
      <3> QED
        BY <1>1, <1>6, <2>1, <3>1, EndStatus DEF CauseInv
    <2>2. CASE i \notin todo[t]
      <3>1. PICK a \in S : i.op \in waiters[a]
        BY <1>6, <2>2, EndTodo, StartFields
      <3>2. i.op \in Op /\ st = "cancelled"
        BY <1>6, <2>2, EndTodo, StartFields
      <3>3. closing \/ life[a] = "dead"
        BY <3>2, EndFacts DEF EndCause
      <3>4. a \in Op /\ (a \in suppliers[i.op] \/ status[i.op] \in Final)
        BY <1>1, <1>6, <3>1, EndFacts DEF CauseInv
      <3>5. a \in suppliers[i.op] => life[a] = "alive"
        BY <3>2, InvShape DEF ExistInv
      <3> QED
        BY <1>1, <3>2, <3>3, <3>4, <3>5, EndStatus
    <2> QED
      BY <2>1, <2>2
  <1> QED
    BY <1>3, <1>4, <1>5, <1>6 DEF CauseInv

LEMMA EndGraph ==
    ASSUME IInv, NEW S, NEW st, EndStep(S, st) PROVE GraphInv'
  <1>1. GraphInv /\ UNCHANGED life /\ S \subseteq Op
    BY EndFacts DEF IInv
  <1>2. \A c \in Op : waiters'[c] \subseteq waiters[c] /\ suppliers'[c] \subseteq suppliers[c]
    BY EndFacts
  <1>3. \A a \in Op : \A w \in waiters'[a] : a \in Args[w]
    BY <1>1, <1>2 DEF GraphInv
  <1>4. ASSUME NEW w \in Op, NEW a \in suppliers'[w], life'[w] = "alive"
        PROVE  status'[a] \notin Final /\ w \in waiters'[a]
    <2>1. a \in suppliers[w] /\ w \notin S /\ a \in Op
      BY <1>2, <1>4, EndFacts, InvShape DEF Shape
    <2>2. status[a] \notin Final /\ w \in waiters[a]
      BY <1>1, <1>4, <2>1 DEF GraphInv
    <2>3. a \notin S
      BY <1>1, <1>4, <2>1, <2>2, EndFacts
    <2> QED
      BY <2>1, <2>2, <2>3, EndFacts, EndStatus
  <1>5. ASSUME NEW w \in Op, suppliers'[w] # {}
        PROVE  status'[w] \in {"none", "waiting"}
    <2>1. suppliers[w] # {} /\ w \notin S /\ w \notin Runnable(S, st)
      BY <1>2, <1>5, EndFacts
    <2>2. status'[w] = status[w]
      BY <2>1, EndFacts
    <2> QED
      BY <1>1, <2>1, <2>2 DEF GraphInv
  <1>6. ASSUME NEW w \in Op, life'[w] = "alive", status'[w] = "waiting", suppliers'[w] = {}
        PROVE  PendingFor(w)'
    <2>1. w \notin S /\ status[w] = "waiting" /\ w \notin Runnable(S, st)
      BY <1>6, EndFacts, EndStatus
    <2>2. CASE suppliers[w] = {}
      <3>1. PendingFor(w)
        BY <1>1, <1>6, <2>1, <2>2 DEF GraphInv
      <3> QED
        BY <1>1, <1>6, <2>1, <3>1, EndTodo DEF Final
    <2>3. CASE suppliers[w] # {}
      <3>1. PICK a \in S : w \in waiters[a]
        BY <1>6, <2>1, <2>3, EndFacts
      <3>2. w \in WaitersOf(S)
        BY <1>1, <1>6, <3>1 DEF WaitersOf
      <3>3. SuppliersAfter(S)[w] = {}
        BY <1>6 DEF EndStep, EndAll
      <3>4. st # "done"
        BY <2>1, <3>2, <3>3 DEF Runnable
      <3> QED
        BY <3>2, <3>4, EndTodo
    <2> QED
      BY <2>2, <2>3
  <1>7. \A p \in Places' : FrameAt(p)'.kind = "direct" => Same(p)
    BY EndFrames DEF MetaKind
  <1>8. ASSUME NEW p \in Places', FrameAt(p)'.kind = "direct",
               FrameAt(p)'.pc \in {"suppl", "joined"}
        PROVE  suppliers'[FrameAt(p)'.op] \subseteq FrameAt(p)'.rest
    <2>1. p \in Places /\ FrameAt(p)' = FrameAt(p)
      BY <1>7, <1>8 DEF Same
    <2>2. FrameAt(p).op \in Op
      BY <2>1, InvShape, FrameType, FieldTypes
    <2> QED
      BY <1>1, <1>2, <1>8, <2>1, <2>2 DEF GraphInv
  <1> QED
    BY <1>3, <1>4, <1>5, <1>6, <1>8 DEF GraphInv

LEMMA EndLock ==
    ASSUME IInv, NEW S, NEW st, EndStep(S, st) PROVE LockInv'
  <1>1. LockInv /\ UNCHANGED <<life, closing>> /\ S \subseteq Op
    BY EndFacts DEF IInv
  <1>2. \A c \in Op : result[c] # "none" => result'[c] # "none"
    BY EndResults DEF EndStep
  <1>3. ASSUME NEW c \in Op, hasFunc'[c]
        PROVE  writeLock'[c] /\ status'[c] \notin Final
    <2>1. c \notin S
      BY <1>3, EndFacts
    <2>2. hasFunc[c] /\ (writeLock'[c] <=> writeLock[c])
      BY <1>3, <2>1, EndFacts
    <2> QED
      BY <1>1, <2>1, <2>2, EndStatus DEF LockInv
  <1>4. ASSUME NEW c \in Op, status'[c] \in {"waiting", "scheduled", "activated"}
        PROVE  hasFunc'[c]
    <2>1. c \notin S /\ status[c] \in {"waiting", "scheduled", "activated"}
      BY <1>4, EndStatus
    <2> QED
      BY <1>1, <2>1, EndFacts DEF LockInv
  <1>5. ASSUME NEW c \in Op, owned'[c], ~ closing',
               status'[c] \in {"waiting", "scheduled"} \cup Started
        PROVE  writeLock'[c] \/ result'[c] # "none"
    <2>1. c \notin S /\ status[c] \in {"waiting", "scheduled"} \cup Started
      BY <1>5, EndStatus DEF Started
    <2>2. owned[c] /\ ~ closing /\ (writeLock'[c] <=> writeLock[c])
      BY <1>1, <1>5, <2>1, EndFacts
    <2>3. writeLock[c] \/ result[c] # "none"
      BY <1>1, <2>1, <2>2 DEF LockInv
    <2> QED
      BY <1>2, <2>2, <2>3
  <1>6. ASSUME NEW c \in Op, owned'[c], ~ closing', NEW a \in Args[c]
        PROVE  result'[a] # "none" \/ (owned'[a] /\ writeLock'[a])
    <2>1. a \in Op /\ c \notin S
      BY <1>6, SchedulerAssumption, EndFacts
    <2>2. owned[c] /\ ~ closing
      BY <1>1, <1>6, <2>1, EndFacts
    <2>3. result[a] # "none" \/ (owned[a] /\ writeLock[a])
      BY <1>1, <2>2 DEF LockInv
    <2>4. CASE result[a] # "none"
      BY <1>2, <2>1, <2>4
    <2>5. CASE a \notin S /\ owned[a] /\ writeLock[a]
      BY <2>1, <2>5, EndFacts
    <2>6. CASE a \in S /\ owned[a]
      <3>1. life[a] = "alive"
        BY <2>1, <2>6, InvShape DEF ExistInv
      <3>2. st \in Final /\ EndCause(a, st)
        BY <2>6, EndFacts
      <3>3. CASE st = "exception"
        BY <3>2, <3>3 DEF EndCause
      <3>4. CASE st = "done"
        <4>1. PICK p \in Places : FrameAt(p).op = a /\ FrameAt(p).kind = "run"
                                  /\ FrameAt(p).pc = "cleanup"
          BY <3>2, <3>4 DEF EndCause
        <4>2. result[a] # "none"
          BY <2>2, <2>6, <4>1, RunBefore
        <4> QED
          BY <1>2, <2>1, <4>2
      <3>5. st # "cancelled"
        BY <2>2, <3>1, <3>2 DEF EndCause
      <3> QED
        BY <3>2, <3>3, <3>4, <3>5 DEF Final
    <2> QED
      BY <2>3, <2>4, <2>5, <2>6
  <1> QED
    BY <1>3, <1>4, <1>5, <1>6 DEF LockInv

LEMMA EndResult ==
    ASSUME IInv, NEW S, NEW st, EndStep(S, st) PROVE ResultInv'
  <1>1. ResultInv /\ S \subseteq Op
    BY EndFacts DEF IInv
  <1>2. \A c \in Op : /\ result'[c] = "ready" <=> result[c] = "ready"
                      /\ result[c] = "failed" => result'[c] = "failed"
    BY EndResults DEF EndStep
  <1>3. \A c \in Op : Args[c] \subseteq Op
    BY SchedulerAssumption
  <1>4. ASSUME NEW c \in Op, result'[c] = "ready"
        PROVE  /\ status'[c] \in {"running"} \cup Final
               /\ \A a \in Args[c] : result'[a] = "ready"
    <2>1. /\ status[c] \in {"running"} \cup Final
          /\ \A a \in Args[c] : result[a] = "ready"
      BY <1>1, <1>2, <1>4 DEF ResultInv
    <2>2. status'[c] \in {"running"} \cup Final
      <3>1. CASE c \in S
        BY <3>1, EndStatus
      <3>2. CASE c \notin S
        BY <2>1, <3>2, EndStatus DEF Final
      <3> QED
        BY <3>1, <3>2
    <2> QED
      BY <1>2, <1>3, <2>1, <2>2
  <1>5. ASSUME NEW t \in Thread, NEW i \in todo'[t], i.do \in {"fail", "endFailed"}
        PROVE  \E a \in Args[i.op] : result'[a] = "failed"
    <2>1. CASE i \in todo[t]
      <3>1. i.op \in Op
        BY <1>5, <2>1, ItemFields, StartFields, InvShape DEF Shape
      <3>2. PICK a \in Args[i.op] : result[a] = "failed"
        BY <1>1, <1>5, <2>1 DEF ResultInv
      <3> QED
        BY <1>2, <1>3, <3>1, <3>2
    <2>2. CASE i \notin todo[t]
      <3>1. st = "exception" /\ i.op \in Op /\ \E a \in S : i.op \in waiters[a]
        BY <1>5, <2>2, EndTodo, StartFields
      <3>2. PICK a \in S : i.op \in waiters[a]
        BY <3>1
      <3>3. a \in Args[i.op]
        BY <1>1, <3>2 DEF GraphInv, IInv
      <3>4. result'[a] = "failed"
        BY <3>1, <3>2, EndFacts DEF EndCause
      <3> QED
        BY <3>3, <3>4
    <2> QED
      BY <2>1, <2>2
  <1> QED
    BY <1>4, <1>5 DEF ResultInv

\* What PayloadInv says of one frame that refers to context c.
PayloadAt(f, c) ==
    LET open == status[c] \notin Final
    IN  /\ f.kind = "direct" /\ f.pc \in {"schedule", "suppl", "joined"} =>
             hasFunc[c] \/ ~ open
        /\ f.kind = "run" =>
             /\ f.pc = "start" /\ open => hasFunc[c]
             /\ f.pc # "start" => ~ hasFunc[c]
             /\ f.pc \in {"func", "oper"} /\ open => writeLock[c]
             /\ f.pc \in {"start", "func", "oper"} => result[c] # "ready"
             /\ f.pc = "oper" => \A a \in Args[c] : result[a] = "ready"
             /\ f.pc \in {"end", "cleanup"} => result[c] # "none" \/ ~ owned[c] \/ closing

LEMMA PayloadOfFrames ==
    PayloadInv <=> \A p \in Places : PayloadAt(FrameAt(p), FrameAt(p).op)
  BY DEF PayloadInv, PayloadAt

LEMMA NextPayload ==
    ASSUME \A p \in Places' : PayloadAt(FrameAt(p), FrameAt(p).op)'
    PROVE  PayloadInv'
  BY DEF PayloadInv, PayloadAt

LEMMA EndPayload ==
    ASSUME IInv, NEW S, NEW st, EndStep(S, st) PROVE PayloadInv'
  <1>1. PayloadInv /\ UNCHANGED closing
    BY EndFacts DEF IInv
  <1>2. \A c \in Op : /\ result'[c] = "ready" <=> result[c] = "ready"
                      /\ result[c] # "none" => result'[c] # "none"
    BY EndResults DEF EndStep
  <1>3. \A c \in Op : Args[c] \subseteq Op
    BY SchedulerAssumption
  <1>4. ASSUME NEW c \in Op
        PROVE  /\ hasFunc'[c] => hasFunc[c]
               /\ owned'[c] => owned[c]
               /\ status'[c] \notin Final =>
                     /\ status[c] \notin Final /\ c \notin S
                     /\ hasFunc[c] => hasFunc'[c]
                     /\ writeLock[c] => writeLock'[c]
    <2>1. CASE c \in S
      BY <2>1, EndFacts
    <2>2. CASE c \notin S
      BY <2>2, EndFacts, EndStatus
    <2> QED
      BY <2>1, <2>2
  <1> SUFFICES ASSUME NEW p \in Places' PROVE PayloadAt(FrameAt(p), FrameAt(p).op)'
    BY NextPayload
  <1>5. CASE FrameAt(p)'.kind = "join"
    BY <1>5 DEF PayloadAt
  <1>6. CASE Same(p)
    <2>1. p \in Places /\ FrameAt(p)' = FrameAt(p) /\ FrameAt(p).op \in Op
      BY <1>6, InvShape, FrameType, FieldTypes DEF Same
    <2>2. PayloadAt(FrameAt(p), FrameAt(p).op)
      BY <1>1, <2>1, PayloadOfFrames
    <2> QED
      BY <1>1, <1>2, <1>3, <1>4, <2>1, <2>2 DEF PayloadAt
  <1>7. CASE RunEnd(p)
    <2> DEFINE c == FrameAt(p).op
    <2>1. /\ FrameAt(p)'.kind = "run" /\ FrameAt(p)'.pc = "end" /\ FrameAt(p)'.op = c
          /\ p \in Places /\ FrameAt(p).kind = "run" /\ FrameAt(p).pc \in {"func", "oper"}
          /\ result'[c] = "failed" \/ closing
      BY <1>7 DEF RunEnd
    <2>2. c \in Op /\ ~ hasFunc[c]
      BY <2>1, RunBefore
    <2>3. ~ hasFunc'[c]
      BY <1>4, <2>2
    <2> HIDE DEF c
    <2> QED
      BY <1>1, <2>1, <2>3 DEF PayloadAt
  <1> QED
    BY <1>5, <1>6, <1>7, EndFrames

LEMMA EndKeeps ==
    ASSUME IInv, NEW S, NEW st, EndStep(S, st), Shape' PROVE IInv'
  BY EndCore, EndFrameInv, EndCauseInv, EndGraph, EndLock, EndResult, EndPayload DEF IInv

-----------------------------------------------------------------------------
(* Beginning the scheduling of a context keeps the invariant *)

LEMMA BeginFacts ==
    ASSUME IInv, NEW c, BeginStep(c)
    PROVE  /\ c \in Op /\ ~ closing /\ closing' = closing
           /\ status[c] = "none" /\ result[c] = "none" /\ life[c] # "dead"
           /\ life'[c] = "alive" /\ owned'[c]
           /\ \A d \in Op : d # c => life'[d] = life[d] /\ owned'[d] = owned[d]
           /\ \A d \in Op : life[d] = "alive" => life'[d] = "alive"
           /\ UNCHANGED <<status, result, hasFunc, writeLock, suppliers, waiters, queued,
                          nrActive, finished, todo>>
           /\ \A p \in Places' :
                 \/ Same(p) /\ FrameAt(p).op # c
                 \/ /\ p = Above(Meta) /\ p \notin Places
                    /\ FrameAt(p)'.kind \in MetaKind /\ FrameAt(p)'.op = c
                    /\ FrameAt(p)'.pc \in {"connect", "update"} /\ FrameAt(p)'.rest = {}
  <1>1. /\ c \in Op /\ ~ closing /\ status[c] = "none" /\ result[c] = "none"
        /\ life[c] = "new" \/ owned[c]
        /\ life' = [life EXCEPT ![c] = "alive"]
        /\ owned' = [owned EXCEPT ![c] = TRUE]
        /\ UNCHANGED <<status, result, hasFunc, writeLock, suppliers, waiters, queued,
                       nrActive, finished, todo, closing>>
    BY DEF BeginStep, graph, queues
  <1>2. /\ life \in [Op -> {"new", "alive", "dead"}] /\ owned \in [Op -> BOOLEAN]
        /\ life[c] # "dead"
    BY <1>1, InvShape DEF Shape, ExistInv
  <1>3. life'[c] = "alive" /\ owned'[c]
    BY <1>1, <1>2
  <1>4. \A d \in Op : d # c => life'[d] = life[d] /\ owned'[d] = owned[d]
    BY <1>1, <1>2
  <1>5. \A p \in Places' :
                 \/ Same(p) /\ FrameAt(p).op # c
                 \/ /\ p = Above(Meta) /\ p \notin Places
                    /\ FrameAt(p)'.kind \in MetaKind /\ FrameAt(p)'.op = c
                    /\ FrameAt(p)'.pc \in {"connect", "update"} /\ FrameAt(p)'.rest = {}
    BY DEF BeginStep, Same
  <1> QED
    BY <1>1, <1>2, <1>3, <1>4, <1>5

LEMMA BeginCore ==
    ASSUME IInv, NEW c, BeginStep(c), Shape' PROVE CoreInv'
  <1>1. TypeOK' /\ CountInv'
    BY BeginFacts, CountsKept
  <1>2. ASSUME NEW d \in Op, life'[d] = "new"
        PROVE  /\ status'[d] = "none" /\ d \notin queued' /\ suppliers'[d] = {}
               /\ \A a \in Op : d \notin waiters'[a]
    <2>1. life[d] = "new"
      BY <1>2, BeginFacts
    <2> QED
      BY <2>1, BeginFacts, InvShape DEF ExistInv
  <1>3. \A d \in Op : owned'[d] => life'[d] = "alive"
    BY BeginFacts, InvShape DEF ExistInv
  <1>4. \A w \in Op : \A a \in suppliers'[w] : life'[a] = "alive"
    <2>1. \A w \in Op : suppliers[w] \subseteq Op
      BY InvShape DEF Shape
    <2> QED
      BY <2>1, BeginFacts, InvShape DEF ExistInv
  <1>5. ASSUME NEW p \in Places'
        PROVE  life'[FrameAt(p)'.op] = "alive" /\ \A a \in FrameAt(p)'.rest : life'[a] = "alive"
    <2>1. CASE Same(p)
      <3>1. p \in Places /\ FrameAt(p)' = FrameAt(p) /\ FrameAt(p).op \in Op
            /\ FrameAt(p).rest \subseteq Op
        BY <2>1, InvShape, FrameType, FieldTypes DEF Same
      <3> QED
        BY <3>1, BeginFacts, InvShape DEF ExistInv
    <2>2. CASE ~ Same(p)
      BY <2>2, BeginFacts
    <2> QED
      BY <2>1, <2>2
  <1>6. ASSUME NEW t \in Thread, NEW i \in todo'[t], i # Start
        PROVE  /\ life'[i.op] # "new"
               /\ i.do = "endFailed" => life'[i.op] = "alive"
               /\ i.do = "destroy" => life'[i.op] = "dead"
    <2>1. i \in todo[t]
      BY BeginFacts
    <2>2. i.op \in Op
      BY <1>6, <2>1, ItemFields, InvShape DEF Shape
    <2>3. /\ life[i.op] # "new"
          /\ i.do = "endFailed" => life[i.op] = "alive"
          /\ i.do = "destroy" => life[i.op] = "dead"
      BY <1>6, <2>1, InvShape DEF ExistInv
    <2> QED
      BY <2>2, <2>3, BeginFacts
  <1>7. ExistInv'
    BY <1>2, <1>3, <1>4, <1>5, <1>6 DEF ExistInv
  <1>8. DirectInv'
    <2>1. DirectInv /\ status' = status
      BY BeginFacts DEF IInv, CoreInv
    <2>2. \A p \in Places' : FrameAt(p)'.kind = "direct" /\ FrameAt(p)'.pc \in {"suppl", "joined"}
            => Same(p)
      BY BeginFacts
    <2> QED
      BY <2>1, <2>2 DEF DirectInv, Same
  <1>9. QueuedMeansScheduled'
    <2> SUFFICES ASSUME NEW d \in Op, life'[d] = "alive"
                 PROVE  /\ status[d] = "scheduled" => d \in queued
                        /\ d \in queued => status[d] \in {"scheduled"} \cup Final
      BY BeginFacts DEF QueuedMeansScheduled
    <2>1. CASE d = c /\ life[c] = "new"
      BY <2>1, BeginFacts, InvShape DEF ExistInv
    <2>2. CASE life[d] = "alive"
      BY <2>2 DEF IInv, CoreInv, QueuedMeansScheduled
    <2>3. life[c] \in {"new", "alive", "dead"}
      BY BeginFacts, InvShape DEF Shape
    <2> QED
      BY <2>1, <2>2, <2>3, BeginFacts
  <1> QED
    BY <1>1, <1>7, <1>8, <1>9 DEF CoreInv

LEMMA BeginFrameInv ==
    ASSUME IInv, NEW c, BeginStep(c) PROVE FrameInv'
  <1>1. UNCHANGED <<status, closing>> /\ status[c] = "none" /\ ~ closing
    BY BeginFacts
  <1>2. ASSUME NEW p \in Places'
        PROVE  /\ FrameAt(p)'.kind = "run" =>
                    status'[FrameAt(p)'.op] \in {"running", "exception", "cancelled"}
               /\ FrameAt(p)'.kind \in MetaKind =>
                    p[1] = Meta /\ status'[FrameAt(p)'.op] \in {"none", "exception"}
    <2>1. CASE Same(p)
      BY <1>1, <2>1, InvShape DEF Same, FrameInv
    <2>2. CASE ~ Same(p)
      BY <1>1, <2>2, BeginFacts DEF Above, MetaKind
    <2> QED
      BY <2>1, <2>2
  <1>3. ASSUME NEW p \in Places', NEW r \in Places', FrameAt(p)'.op = FrameAt(r)'.op,
               FrameAt(p)'.kind # "join", FrameAt(r)'.kind # "join"
        PROVE  p = r
    <2>1. CASE Same(p) /\ Same(r)
      BY <1>3, <2>1, InvShape DEF Same, FrameInv
    <2>2. CASE ~ Same(p) \/ ~ Same(r)
      BY <1>3, <2>2, BeginFacts DEF Same
    <2> QED
      BY <2>1, <2>2
  <1> QED
    BY <1>1, <1>2, <1>3 DEF FrameInv

LEMMA BeginCause ==
    ASSUME IInv, NEW c, BeginStep(c) PROVE CauseInv'
  <1>1. CauseInv /\ UNCHANGED <<status, result, waiters, suppliers, todo, closing>>
        /\ status[c] = "none" /\ \A d \in Op : d # c => life'[d] = life[d]
    BY BeginFacts DEF IInv
  <1>2. life[c] \in {"new", "alive"} /\ c \in Op
    BY BeginFacts, InvShape DEF Shape
  <1>3. \A d \in Op : status'[d] = "cancelled" => closing' \/ life'[d] = "dead"
    BY <1>1 DEF CauseInv
  <1>4. ASSUME NEW a \in Op, NEW w \in waiters'[a], life'[w] = "alive"
        PROVE  a \in suppliers'[w] \/ status'[w] \in Final
    <2>1. w \in Op /\ w \in waiters[a]
      BY <1>1, <1>4, InvShape DEF Shape
    <2>2. life[w] = "alive"
      BY <1>1, <1>2, <1>4, <2>1, InvShape DEF ExistInv
    <2> QED
      BY <1>1, <2>1, <2>2 DEF CauseInv
  <1>5. ASSUME NEW t \in Thread, NEW i \in todo'[t], i.do = "cancel", life'[i.op] = "alive"
        PROVE  closing' \/ status'[i.op] \in Final
    <2>1. i.op \in Op /\ i # Start /\ i \in todo[t]
      BY <1>1, <1>5, ItemFields, StartFields, InvShape DEF Shape
    <2>2. life[i.op] = "alive"
      BY <1>1, <1>2, <1>5, <2>1, InvShape DEF ExistInv
    <2> QED
      BY <1>1, <1>5, <2>1, <2>2 DEF CauseInv
  <1> QED
    BY <1>1, <1>3, <1>4, <1>5 DEF CauseInv

LEMMA BeginGraph ==
    ASSUME IInv, NEW c, BeginStep(c) PROVE GraphInv'
  <1>1. GraphInv /\ UNCHANGED <<status, waiters, suppliers, todo>>
        /\ status[c] = "none" /\ \A d \in Op : d # c => life'[d] = life[d]
    BY BeginFacts DEF IInv
  <1>2. life[c] \in {"new", "alive"} /\ c \in Op
    BY BeginFacts, InvShape DEF Shape
  <1>3. ASSUME NEW w \in Op, NEW a \in suppliers'[w], life'[w] = "alive"
        PROVE  status'[a] \notin Final /\ w \in waiters'[a]
    <2>1. life[w] = "alive"
      BY <1>1, <1>2, <1>3, InvShape DEF ExistInv
    <2> QED
      BY <1>1, <1>3, <2>1 DEF GraphInv
  <1>4. \A w \in Op : PendingFor(w)' <=> PendingFor(w)
    BY <1>1 DEF PendingFor
  <1>5. \A w \in Op : life'[w] = "alive" /\ status'[w] = "waiting" =>
           suppliers'[w] # {} \/ PendingFor(w)'
    BY <1>1, <1>4 DEF GraphInv
  <1>6. \A p \in Places' : FrameAt(p)'.kind = "direct" /\ FrameAt(p)'.pc \in {"suppl", "joined"}
            => Same(p)
    BY BeginFacts
  <1>7. \A p \in Places' : FrameAt(p)'.kind = "direct" /\ FrameAt(p)'.pc \in {"suppl", "joined"}
         => suppliers'[FrameAt(p)'.op] \subseteq FrameAt(p)'.rest
    BY <1>1, <1>6 DEF GraphInv, Same
  <1> QED
    BY <1>1, <1>3, <1>5, <1>7 DEF GraphInv

\* Every argument is usable when the owner takes interest: it is ready, or will be.
LEMMA BeginLock ==
    ASSUME IInv, NEW c, BeginStep(c) PROVE LockInv'
  <1>1. LockInv /\ UNCHANGED <<status, result, hasFunc, writeLock, closing>>
        /\ ~ closing /\ c \in Op /\ status[c] = "none" /\ owned'[c]
        /\ \A d \in Op : d # c => owned'[d] = owned[d]
    BY BeginFacts DEF IInv
  <1>2. ASSUME NEW d \in Op, owned'[d], status'[d] \in {"waiting", "scheduled"} \cup Started
        PROVE  writeLock'[d] \/ result'[d] # "none"
    BY <1>1, <1>2 DEF LockInv, Started
  <1>3. ASSUME NEW d \in Op, owned'[d], NEW a \in Args[d]
        PROVE  result'[a] # "none" \/ (owned'[a] /\ writeLock'[a])
    <2>1. a \in Op
      BY SchedulerAssumption
    <2>2. CASE d = c
      <3>1. Usable(a)
        BY <1>3, <2>2 DEF BeginStep
      <3>2. CASE result[a] = "ready"
        BY <1>1, <3>2
      <3>3. CASE owned[a] /\ status[a] \in {"waiting", "scheduled"} \cup Started
        <4>1. writeLock[a] \/ result[a] # "none"
          BY <1>1, <2>1, <3>3 DEF LockInv
        <4> QED
          BY <1>1, <2>1, <3>3, <4>1
      <3> QED
        BY <3>1, <3>2, <3>3 DEF Usable
    <2>3. CASE d # c
      <3>1. result[a] # "none" \/ (owned[a] /\ writeLock[a])
        BY <1>1, <1>3, <2>3 DEF LockInv
      <3> QED
        BY <1>1, <2>1, <3>1
    <2> QED
      BY <2>2, <2>3
  <1> QED
    BY <1>1, <1>2, <1>3 DEF LockInv

LEMMA BeginPayload ==
    ASSUME IInv, NEW c, BeginStep(c) PROVE PayloadInv'
  <1>1. PayloadInv /\ UNCHANGED <<status, result, hasFunc, writeLock, closing>>
        /\ \A d \in Op : d # c => owned'[d] = owned[d]
    BY BeginFacts DEF IInv
  <1> SUFFICES ASSUME NEW p \in Places' PROVE PayloadAt(FrameAt(p), FrameAt(p).op)'
    BY NextPayload
  <1>2. CASE Same(p) /\ FrameAt(p).op # c
    <2>1. p \in Places /\ FrameAt(p)' = FrameAt(p) /\ FrameAt(p).op \in Op
      BY <1>2, InvShape, FrameType, FieldTypes DEF Same
    <2>2. PayloadAt(FrameAt(p), FrameAt(p).op)
      BY <1>1, <2>1, PayloadOfFrames
    <2> QED
      BY <1>1, <1>2, <2>1, <2>2 DEF PayloadAt
  <1>3. CASE FrameAt(p)'.kind \in MetaKind /\ FrameAt(p)'.pc \in {"connect", "update"}
    BY <1>3 DEF PayloadAt, MetaKind
  <1> QED
    BY <1>2, <1>3, BeginFacts

LEMMA BeginKeeps ==
    ASSUME IInv, NEW c, BeginStep(c), Shape' PROVE IInv'
  <1>1. ResultInv'
    BY BeginFacts DEF IInv, ResultInv
  <1> QED
    BY <1>1, BeginCore, BeginFrameInv, BeginCause, BeginGraph, BeginLock, BeginPayload DEF IInv

-----------------------------------------------------------------------------
(* Connecting a context to its suppliers keeps the invariant *)

\* The meta thread schedules a context at p.
LEMMA SchedulerBefore ==
    ASSUME IInv, NEW p \in Places, FrameAt(p).kind = "direct", NEW c, FrameAt(p).op = c
    PROVE  /\ c \in Op /\ life[c] = "alive" /\ ~ closing /\ p[1] = Meta
           /\ status[c] \in {"none", "exception"}
           /\ status[c] = "exception" => result[c] = "failed"
           /\ result[c] # "ready"
           /\ FrameAt(p).pc \in {"schedule", "suppl", "joined"} /\ status[c] = "none" => hasFunc[c]
           /\ \A r \in Places : r # p /\ FrameAt(r).kind # "join" => FrameAt(r).op # c
  <1>1. c \in Op /\ status[c] \in {"none", "exception"} /\ p[1] = Meta /\ ~ closing
    BY InvShape, FrameStatus DEF MetaKind, FrameInv
  <1>2. life[c] = "alive"
    BY InvShape DEF ExistInv
  <1>3. status[c] = "exception" => result[c] = "failed"
    BY <1>1 DEF IInv, CauseInv
  <1>4. result[c] = "ready" => status[c] \in {"running"} \cup Final
    BY <1>1 DEF IInv, ResultInv
  <1>5. FrameAt(p).pc \in {"schedule", "suppl", "joined"} /\ status[c] = "none" => hasFunc[c]
    BY DEF IInv, PayloadInv, Final
  <1>6. \A r \in Places : r # p /\ FrameAt(r).kind # "join" => FrameAt(r).op # c
    BY InvShape DEF FrameInv
  <1> QED
    BY <1>1, <1>2, <1>3, <1>4, <1>5, <1>6 DEF Final

LEMMA ConnectFacts ==
    ASSUME IInv, NEW p, NEW c, NEW S, ConnectStep(p, c, S)
    PROVE  /\ p \in Places /\ c \in Op /\ life[c] = "alive" /\ status[c] = "none"
           /\ S \subseteq Op /\ S \subseteq Args[c]
           /\ \A a \in S : life[a] = "alive" /\ status[a] \notin Final
           /\ hasFunc'[c] /\ writeLock'[c] /\ suppliers'[c] = suppliers[c] \cup S
           /\ \A d \in Op : d # c => /\ hasFunc'[d] = hasFunc[d] /\ writeLock'[d] = writeLock[d]
                                     /\ suppliers'[d] = suppliers[d]
           /\ \A a \in Op : \A w : w \in waiters'[a] <=> w \in waiters[a] \/ (w = c /\ a \in S)
           /\ UNCHANGED <<life, status, result, owned, queued, nrActive, finished, todo, closing>>
           /\ Places' = Places /\ \A r \in Places' : r # p => Same(r)
           /\ \A r \in Places' : r # p /\ FrameAt(r)'.kind # "join" => FrameAt(r)'.op # c
           /\ FrameAt(p).kind = "direct" /\ FrameAt(p)'.kind = "direct"
           /\ FrameAt(p)'.pc = "schedule" /\ FrameAt(p).op = c /\ FrameAt(p)'.op = c
           /\ FrameAt(p)'.rest = FrameAt(p).rest
  <1>1. /\ p \in Places /\ c \in Op /\ result[c] # "failed"
        /\ Places' = Places /\ \A r \in Places' : r # p => Same(r)
        /\ FrameAt(p).kind = "direct" /\ FrameAt(p)'.kind = "direct"
        /\ FrameAt(p)'.pc = "schedule" /\ FrameAt(p).op = c /\ FrameAt(p)'.op = c
        /\ FrameAt(p)'.rest = FrameAt(p).rest
        /\ UNCHANGED <<life, status, result, owned, queued, nrActive, finished, todo, closing>>
    BY DEF ConnectStep, queues
  <1>2. /\ life[c] = "alive" /\ status[c] = "none"
        /\ \A r \in Places : r # p /\ FrameAt(r).kind # "join" => FrameAt(r).op # c
    BY <1>1, SchedulerBefore
  <1>3. S \subseteq Args[c] /\ S \subseteq Op
    BY SchedulerAssumption DEF ConnectStep
  <1>4. \A a \in S : life[a] = "alive" /\ status[a] \notin Final
    BY <1>3, InvShape DEF ExistInv, ConnectStep
  <1>5. /\ hasFunc' = [hasFunc EXCEPT ![c] = TRUE]
        /\ writeLock' = [writeLock EXCEPT ![c] = TRUE]
        /\ suppliers' = [suppliers EXCEPT ![c] = suppliers[c] \cup S]
        /\ waiters' = ConnectWaiter(c, S)
    BY DEF ConnectStep
  <1>6. /\ hasFunc \in [Op -> BOOLEAN] /\ writeLock \in [Op -> BOOLEAN]
        /\ suppliers \in [Op -> SUBSET Op]
    BY InvShape DEF Shape
  <1>7. hasFunc'[c] /\ writeLock'[c] /\ suppliers'[c] = suppliers[c] \cup S
    BY <1>1, <1>5, <1>6
  <1>8. \A d \in Op : d # c => /\ hasFunc'[d] = hasFunc[d] /\ writeLock'[d] = writeLock[d]
                               /\ suppliers'[d] = suppliers[d]
    BY <1>5, <1>6
  <1>9. \A a \in Op : \A w : w \in waiters'[a] <=> w \in waiters[a] \/ (w = c /\ a \in S)
    BY <1>5 DEF ConnectWaiter
  <1>10. \A r \in Places' : r # p /\ FrameAt(r)'.kind # "join" => FrameAt(r)'.op # c
    BY <1>1, <1>2 DEF Same
  <1> QED
    BY <1>1, <1>2, <1>3, <1>4, <1>7, <1>8, <1>9, <1>10

LEMMA ConnectCore ==
    ASSUME IInv, NEW p, NEW c, NEW S, ConnectStep(p, c, S), Shape' PROVE CoreInv'
  <1>1. UNCHANGED <<life, status, result, owned, queued, nrActive, finished, todo, closing>>
    BY ConnectFacts
  <1>2. TypeOK' /\ CountInv'
    BY <1>1, CountsKept
  <1>3. ASSUME NEW d \in Op, life'[d] = "new"
        PROVE  suppliers'[d] = {} /\ \A a \in Op : d \notin waiters'[a]
    <2>1. d # c /\ suppliers[d] = {} /\ \A a \in Op : d \notin waiters[a]
      BY <1>1, <1>3, ConnectFacts, InvShape DEF ExistInv
    <2> QED
      BY <2>1, ConnectFacts
  <1>4. ASSUME NEW w \in Op, NEW a \in suppliers'[w]
        PROVE  life'[a] = "alive"
    <2>1. a \in suppliers[w] \/ a \in S
      BY <1>4, ConnectFacts
    <2> QED
      BY <1>1, <2>1, ConnectFacts, InvShape DEF ExistInv
  <1>5. \A r \in Places' : r \in Places /\ FrameAt(r)'.op = FrameAt(r).op
                           /\ FrameAt(r)'.rest = FrameAt(r).rest
    BY ConnectFacts DEF Same
  <1>6. ExistInv'
    BY <1>1, <1>3, <1>4, <1>5, InvShape DEF ExistInv
  <1>7. \A r \in Places' : FrameAt(r)'.kind = "direct" /\ FrameAt(r)'.pc \in {"suppl", "joined"}
          => Same(r)
    BY ConnectFacts
  <1>8. DirectInv'
    BY <1>1, <1>7 DEF DirectInv, Same, IInv, CoreInv
  <1>9. QueuedMeansScheduled'
    BY <1>1 DEF QueuedMeansScheduled, IInv, CoreInv
  <1> QED
    BY <1>2, <1>6, <1>8, <1>9 DEF CoreInv

LEMMA ConnectFrameCause ==
    ASSUME IInv, NEW p, NEW c, NEW S, ConnectStep(p, c, S) PROVE FrameInv' /\ CauseInv'
  <1>1. UNCHANGED <<life, status, result, todo, closing>>
    BY ConnectFacts
  <1>2. \A r \in Places' : r \in Places /\ FrameAt(r)'.op = FrameAt(r).op
                           /\ FrameAt(r)'.kind = FrameAt(r).kind
    BY ConnectFacts DEF Same
  <1>3. FrameInv'
    BY <1>1, <1>2, InvShape DEF FrameInv
  <1>4. ASSUME NEW a \in Op, NEW w \in waiters'[a], life'[w] = "alive"
        PROVE  a \in suppliers'[w] \/ status'[w] \in Final
    <2>1. CASE w \in waiters[a]
      <3>1. w \in Op /\ (a \in suppliers[w] \/ status[w] \in Final)
        BY <1>1, <1>4, <2>1, InvShape DEF IInv, CauseInv, Shape
      <3> QED
        BY <1>1, <3>1, ConnectFacts
    <2>2. CASE w = c /\ a \in S
      BY <2>2, ConnectFacts
    <2> QED
      BY <1>4, <2>1, <2>2, ConnectFacts
  <1>5. CauseInv'
    BY <1>1, <1>4 DEF IInv, CauseInv
  <1> QED
    BY <1>3, <1>5

LEMMA ConnectGraph ==
    ASSUME IInv, NEW p, NEW c, NEW S, ConnectStep(p, c, S) PROVE GraphInv'
  <1>1. GraphInv /\ UNCHANGED <<life, status, todo>>
    BY ConnectFacts DEF IInv
  <1>2. ASSUME NEW a \in Op, NEW w \in waiters'[a] PROVE a \in Args[w]
    BY <1>1, <1>2, ConnectFacts DEF GraphInv
  <1>3. ASSUME NEW w \in Op, NEW a \in suppliers'[w], life'[w] = "alive"
        PROVE  status'[a] \notin Final /\ w \in waiters'[a]
    <2>1. suppliers[w] \subseteq Op
      BY InvShape DEF Shape
    <2>2. CASE a \in suppliers[w]
      <3>1. a \in Op /\ status[a] \notin Final /\ w \in waiters[a]
        BY <1>1, <1>3, <2>1, <2>2 DEF GraphInv
      <3> QED
        BY <1>1, <3>1, ConnectFacts
    <2>3. CASE w = c /\ a \in S
      BY <1>1, <2>3, ConnectFacts
    <2> QED
      BY <1>3, <2>2, <2>3, ConnectFacts
  <1>4. \A w \in Op : suppliers'[w] # {} => status'[w] \in {"none", "waiting"}
    BY <1>1, ConnectFacts DEF GraphInv
  <1>5. \A w \in Op : PendingFor(w)' <=> PendingFor(w)
    BY <1>1 DEF PendingFor
  <1>6. \A w \in Op : life'[w] = "alive" /\ status'[w] = "waiting" =>
           suppliers'[w] # {} \/ PendingFor(w)'
    <2>1. \A w \in Op : suppliers[w] \subseteq suppliers'[w]
      BY ConnectFacts
    <2> QED
      BY <1>1, <1>5, <2>1 DEF GraphInv
  <1>7. ASSUME NEW r \in Places', FrameAt(r)'.kind = "direct",
               FrameAt(r)'.pc \in {"suppl", "joined"}
        PROVE  suppliers'[FrameAt(r)'.op] \subseteq FrameAt(r)'.rest
    <2>1. r # p /\ Same(r) /\ FrameAt(r)'.op # c
      BY <1>7, ConnectFacts
    <2>2. r \in Places /\ FrameAt(r)' = FrameAt(r) /\ FrameAt(r).op \in Op
      BY <2>1, InvShape, FrameType, FieldTypes DEF Same
    <2> QED
      BY <1>1, <1>7, <2>1, <2>2, ConnectFacts DEF GraphInv
  <1> QED
    BY <1>2, <1>3, <1>4, <1>6, <1>7 DEF GraphInv

LEMMA ConnectLock ==
    ASSUME IInv, NEW p, NEW c, NEW S, ConnectStep(p, c, S) PROVE LockInv'
  <1>1. LockInv /\ UNCHANGED <<status, result, owned, closing>>
    BY ConnectFacts DEF IInv
  <1>2. ASSUME NEW d \in Op
        PROVE  /\ hasFunc'[d] => writeLock'[d] /\ status'[d] \notin Final
               /\ hasFunc[d] => hasFunc'[d]
               /\ writeLock[d] => writeLock'[d]
    <2>1. CASE d = c
      BY <1>1, <2>1, ConnectFacts DEF Final
    <2>2. CASE d # c
      BY <1>1, <2>2, ConnectFacts DEF LockInv
    <2> QED
      BY <2>1, <2>2
  <1>3. \A d \in Op : Args[d] \subseteq Op
    BY SchedulerAssumption
  <1>4. \A d \in Op : status'[d] \in {"waiting", "scheduled", "activated"} => hasFunc'[d]
    BY <1>1, <1>2 DEF LockInv
  <1>5. \A d \in Op :
         owned'[d] /\ ~ closing' /\ status'[d] \in {"waiting", "scheduled"} \cup Started
         => writeLock'[d] \/ result'[d] # "none"
    BY <1>1, <1>2 DEF LockInv
  <1>6. \A d \in Op : owned'[d] /\ ~ closing' =>
         \A a \in Args[d] : result'[a] # "none" \/ (owned'[a] /\ writeLock'[a])
    BY <1>1, <1>2, <1>3 DEF LockInv
  <1> QED
    BY <1>2, <1>4, <1>5, <1>6 DEF LockInv

LEMMA ConnectPayload ==
    ASSUME IInv, NEW p, NEW c, NEW S, ConnectStep(p, c, S) PROVE PayloadInv'
  <1>1. PayloadInv /\ UNCHANGED <<status, result, owned, closing>>
    BY ConnectFacts DEF IInv
  <1> SUFFICES ASSUME NEW r \in Places' PROVE PayloadAt(FrameAt(r), FrameAt(r).op)'
    BY NextPayload
  <1>2. CASE r = p
    BY <1>2, ConnectFacts DEF PayloadAt
  <1>3. CASE FrameAt(r)'.kind = "join"
    BY <1>3 DEF PayloadAt
  <1>4. CASE r # p /\ FrameAt(r)'.kind # "join"
    <2>1. Same(r) /\ FrameAt(r)'.op # c
      BY <1>4, ConnectFacts
    <2>2. r \in Places /\ FrameAt(r)' = FrameAt(r) /\ FrameAt(r).op \in Op
      BY <2>1, InvShape, FrameType, FieldTypes DEF Same
    <2>3. PayloadAt(FrameAt(r), FrameAt(r).op)
      BY <1>1, <2>2, PayloadOfFrames
    <2> QED
      BY <1>1, <2>1, <2>2, <2>3, ConnectFacts DEF PayloadAt
  <1> QED
    BY <1>2, <1>3, <1>4

LEMMA ConnectKeeps ==
    ASSUME IInv, NEW p, NEW c, NEW S, ConnectStep(p, c, S), Shape' PROVE IInv'
  <1>1. ResultInv'
    BY ConnectFacts DEF IInv, ResultInv
  <1> QED
    BY <1>1, ConnectCore, ConnectFrameCause, ConnectGraph, ConnectLock, ConnectPayload DEF IInv

-----------------------------------------------------------------------------
(* Queueing a context, or making it wait, keeps the invariant *)

LEMMA QueueFacts ==
    ASSUME IInv, NEW p, NEW c, QueueStep(p, c)
    PROVE  /\ c \in Op \ Direct /\ life[c] = "alive" /\ status[c] = "none" /\ c \notin queued
           /\ hasFunc[c] /\ result[c] # "ready"
           /\ status'[c] = IF suppliers[c] = {} THEN "scheduled" ELSE "waiting"
           /\ \A d \in Op : d # c => status'[d] = status[d]
           /\ queued' = queued \cup IF suppliers[c] = {} THEN {c} ELSE {}
           /\ UNCHANGED <<life, result, owned, hasFunc, writeLock, suppliers, waiters, nrActive,
                          finished, todo, closing>>
           /\ \A r \in Places' : Same(r) /\ r # p
           /\ \A r \in Places' : FrameAt(r)'.kind # "join" => FrameAt(r)'.op # c
  <1>1. /\ p \in Places /\ c \in Op \ Direct /\ status[c] = "none"
        /\ FrameAt(p).kind = "direct" /\ FrameAt(p).pc = "schedule" /\ FrameAt(p).op = c
        /\ status' = [status EXCEPT ![c] =
              IF suppliers[c] = {} THEN "scheduled" ELSE "waiting"]
        /\ queued' = queued \cup IF suppliers[c] = {} THEN {c} ELSE {}
        /\ UNCHANGED <<life, result, owned, hasFunc, writeLock, suppliers, waiters, nrActive,
                       finished, todo, closing>>
        /\ \A r \in Places' : Same(r) /\ r # p
    BY DEF QueueStep, context
  <1>2. /\ life[c] = "alive" /\ hasFunc[c] /\ result[c] # "ready"
        /\ \A r \in Places : r # p /\ FrameAt(r).kind # "join" => FrameAt(r).op # c
    BY <1>1, SchedulerBefore
  <1>3. c \notin queued
    BY <1>1, <1>2 DEF IInv, CoreInv, QueuedMeansScheduled, Final
  <1>4. status \in [Op -> Status]
    BY InvShape DEF Shape
  <1>5. status'[c] = IF suppliers[c] = {} THEN "scheduled" ELSE "waiting"
    BY <1>1, <1>4
  <1>6. \A d \in Op : d # c => status'[d] = status[d]
    BY <1>1, <1>4
  <1>7. \A r \in Places' : FrameAt(r)'.kind # "join" => FrameAt(r)'.op # c
    BY <1>1, <1>2 DEF Same
  <1> QED
    BY <1>1, <1>2, <1>3, <1>5, <1>6, <1>7

LEMMA QueueCore ==
    ASSUME IInv, NEW p, NEW c, QueueStep(p, c), Shape' PROVE CoreInv'
  <1>1. UNCHANGED <<life, owned, suppliers, waiters, nrActive, finished, todo>>
    BY QueueFacts
  <1>2. \A d \in Op : /\ status'[d] \in Started <=> status[d] \in Started
                      /\ status'[d] \in Final <=> status[d] \in Final
    BY QueueFacts DEF Started, Final
  <1>3. TypeOK' /\ CountInv'
    BY <1>1, <1>2, CountsKept
  <1>4. ASSUME NEW d \in Op, life'[d] = "new"
        PROVE  status'[d] = "none" /\ d \notin queued'
    <2>1. d # c /\ status[d] = "none" /\ d \notin queued
      BY <1>1, <1>4, QueueFacts, InvShape DEF ExistInv
    <2> QED
      BY <2>1, QueueFacts
  <1>5. ExistInv'
    BY <1>1, <1>4, QueueFacts, InvShape DEF ExistInv, Same
  <1>6. DirectInv'
    <2>1. DirectInv
      BY DEF IInv, CoreInv
    <2>2. \A d \in Direct : status'[d] = status[d]
      BY QueueFacts, SchedulerAssumption
    <2> QED
      BY <2>1, <2>2, QueueFacts DEF DirectInv, Same
  <1>7. QueuedMeansScheduled'
    <2> SUFFICES ASSUME NEW d \in Op, life[d] = "alive"
                 PROVE  /\ status'[d] = "scheduled" => d \in queued'
                        /\ d \in queued' => status'[d] \in {"scheduled"} \cup Final
      BY <1>1 DEF QueuedMeansScheduled
    <2>1. CASE d = c
      BY <2>1, QueueFacts
    <2>2. CASE d # c
      BY <2>2, QueueFacts DEF IInv, CoreInv, QueuedMeansScheduled
    <2> QED
      BY <2>1, <2>2
  <1> QED
    BY <1>3, <1>5, <1>6, <1>7 DEF CoreInv

LEMMA QueueFrameCause ==
    ASSUME IInv, NEW p, NEW c, QueueStep(p, c) PROVE FrameInv' /\ CauseInv'
  <1>1. CauseInv /\ UNCHANGED <<life, result, suppliers, waiters, todo, closing>>
    BY QueueFacts DEF IInv
  <1>2. ASSUME NEW r \in Places'
        PROVE  /\ r \in Places /\ FrameAt(r)' = FrameAt(r)
               /\ FrameAt(r).kind # "join" =>
                     FrameAt(r).op \in Op /\ status'[FrameAt(r).op] = status[FrameAt(r).op]
    <2>1. r \in Places /\ FrameAt(r)' = FrameAt(r) /\ FrameAt(r).op \in Op
      BY QueueFacts, InvShape, FrameType, FieldTypes DEF Same
    <2> QED
      BY <2>1, QueueFacts
  <1>3. \A r \in Places' : FrameAt(r).kind \in {"run", "direct", "fence"} => FrameAt(r).kind # "join"
    OBVIOUS
  <1>4. FrameInv'
    BY <1>1, <1>2, <1>3, InvShape DEF FrameInv, MetaKind
  <1>5. \A d \in Op : /\ status[d] \in Final => status'[d] \in Final
                      /\ status'[d] \in {"exception", "cancelled"} => status'[d] = status[d]
    BY QueueFacts DEF Final
  <1>6. \A d \in Op : /\ status'[d] = "exception" => result'[d] = "failed"
                      /\ status'[d] = "cancelled" => closing' \/ life'[d] = "dead"
    BY <1>1, <1>5 DEF CauseInv
  <1>7. \A a \in Op : \A w \in waiters'[a] :
          life'[w] = "alive" => a \in suppliers'[w] \/ status'[w] \in Final
    <2>1. \A a \in Op : waiters[a] \subseteq Op
      BY InvShape DEF Shape
    <2> QED
      BY <1>1, <1>5, <2>1 DEF CauseInv
  <1>8. ASSUME NEW t \in Thread, NEW i \in todo'[t], i.do = "cancel", life'[i.op] = "alive"
        PROVE  closing' \/ status'[i.op] \in Final
    <2>1. i.op \in Op /\ i \in todo[t]
      BY <1>1, <1>8, ItemFields, StartFields, InvShape DEF Shape
    <2> QED
      BY <1>1, <1>5, <1>8, <2>1 DEF CauseInv
  <1>9. CauseInv'
    BY <1>1, <1>6, <1>7, <1>8 DEF CauseInv
  <1> QED
    BY <1>4, <1>9

LEMMA QueueGraph ==
    ASSUME IInv, NEW p, NEW c, QueueStep(p, c) PROVE GraphInv'
  <1>1. GraphInv /\ UNCHANGED <<life, suppliers, waiters, todo>> /\ c \in Op
    BY QueueFacts DEF IInv
  <1>2. \A d \in Op : status[d] \notin Final => status'[d] \notin Final
    BY QueueFacts DEF Final
  <1>3. \A w \in Op : \A a \in suppliers[w] : a \in Op
    BY InvShape DEF Shape
  <1>4. \A w \in Op : \A a \in suppliers'[w] : life'[w] = "alive" =>
          status'[a] \notin Final /\ w \in waiters'[a]
    BY <1>1, <1>2, <1>3 DEF GraphInv
  <1>5. \A w \in Op : suppliers'[w] # {} => status'[w] \in {"none", "waiting"}
    BY <1>1, QueueFacts DEF GraphInv
  <1>6. \A w \in Op : PendingFor(w)' <=> PendingFor(w)
    BY <1>1 DEF PendingFor
  <1>7. ASSUME NEW w \in Op, life'[w] = "alive", status'[w] = "waiting"
        PROVE  suppliers'[w] # {} \/ PendingFor(w)'
    <2>1. CASE w = c
      BY <1>1, <1>7, <2>1, QueueFacts
    <2>2. CASE w # c
      BY <1>1, <1>6, <1>7, <2>2, QueueFacts DEF GraphInv
    <2> QED
      BY <2>1, <2>2
  <1>8. \A r \in Places' : FrameAt(r)'.kind = "direct" /\ FrameAt(r)'.pc \in {"suppl", "joined"}
         => suppliers'[FrameAt(r)'.op] \subseteq FrameAt(r)'.rest
    BY <1>1, QueueFacts DEF GraphInv, Same
  <1> QED
    BY <1>1, <1>4, <1>5, <1>7, <1>8 DEF GraphInv

LEMMA QueueLockResult ==
    ASSUME IInv, NEW p, NEW c, QueueStep(p, c) PROVE LockInv' /\ ResultInv'
  <1>1. LockInv /\ ResultInv /\ UNCHANGED <<result, owned, hasFunc, writeLock, todo, closing>>
    BY QueueFacts DEF IInv
  <1>2. hasFunc[c] /\ writeLock[c] /\ result[c] # "ready" /\ status'[c] \notin Final
    BY <1>1, QueueFacts DEF LockInv, Final
  <1>3. \A d \in Op : hasFunc'[d] => writeLock'[d] /\ status'[d] \notin Final
    BY <1>1, <1>2, QueueFacts DEF LockInv
  <1>4. \A d \in Op : status'[d] \in {"waiting", "scheduled", "activated"} => hasFunc'[d]
    BY <1>1, <1>2, QueueFacts DEF LockInv
  <1>5. \A d \in Op :
         owned'[d] /\ ~ closing' /\ status'[d] \in {"waiting", "scheduled"} \cup Started
         => writeLock'[d] \/ result'[d] # "none"
    BY <1>1, <1>2, QueueFacts DEF LockInv
  <1>6. LockInv'
    BY <1>1, <1>3, <1>4, <1>5 DEF LockInv
  <1>7. ResultInv'
    BY <1>1, <1>2, QueueFacts DEF ResultInv
  <1> QED
    BY <1>6, <1>7

LEMMA QueuePayload ==
    ASSUME IInv, NEW p, NEW c, QueueStep(p, c) PROVE PayloadInv'
  <1>1. PayloadInv /\ UNCHANGED <<result, owned, hasFunc, writeLock, closing>>
    BY QueueFacts DEF IInv
  <1> SUFFICES ASSUME NEW r \in Places' PROVE PayloadAt(FrameAt(r), FrameAt(r).op)'
    BY NextPayload
  <1>2. r \in Places /\ FrameAt(r)' = FrameAt(r) /\ FrameAt(r).op \in Op
    BY QueueFacts, InvShape, FrameType, FieldTypes DEF Same
  <1>3. PayloadAt(FrameAt(r), FrameAt(r).op)
    BY <1>1, <1>2, PayloadOfFrames
  <1>4. CASE FrameAt(r)'.kind = "join"
    BY <1>4 DEF PayloadAt
  <1>5. CASE FrameAt(r)'.kind # "join"
    <2>1. status'[FrameAt(r).op] = status[FrameAt(r).op]
      BY <1>2, <1>5, QueueFacts
    <2> QED
      BY <1>1, <1>2, <1>3, <2>1 DEF PayloadAt
  <1> QED
    BY <1>4, <1>5

LEMMA QueueKeeps ==
    ASSUME IInv, NEW p, NEW c, QueueStep(p, c), Shape' PROVE IInv'
  BY QueueCore, QueueFrameCause, QueueGraph, QueueLockResult, QueuePayload DEF IInv

-----------------------------------------------------------------------------
(* Running a direct context keeps the invariant *)

LEMMA DirectRunFacts ==
    ASSUME IInv, NEW p, NEW c, DirectRunStep(p, c)
    PROVE  /\ c \in Op /\ p \in Places /\ p[1] = Meta /\ ~ closing
           /\ life[c] = "alive" /\ status[c] = "none" /\ c \notin queued
           /\ hasFunc[c] /\ result[c] # "ready" /\ suppliers[c] = {}
           /\ status'[c] = "running"
           /\ \A d \in Op : d # c => status'[d] = status[d]
           /\ UNCHANGED <<life, result, owned, hasFunc, writeLock, suppliers, waiters, queued,
                          finished, todo, closing>>
           /\ Carried(p) /\ FrameAt(p)'.kind = "run" /\ FrameAt(p)'.pc = "start"
           /\ FrameAt(p)'.op = c /\ FrameAt(p).op = c /\ FrameAt(p)'.rest = {}
           /\ \A r \in Places' : r = p \/ Same(r)
           /\ \A r \in Places' : r # p /\ FrameAt(r)'.kind # "join" => FrameAt(r)'.op # c
  <1>1. /\ p \in Places /\ c \in Op /\ status[c] = "none"
        /\ FrameAt(p).kind = "direct" /\ FrameAt(p).pc = "suppl" /\ FrameAt(p).op = c
        /\ FrameAt(p).rest = {}
        /\ FrameAt(p)'.kind = "run" /\ FrameAt(p)'.pc = "start"
        /\ FrameAt(p)'.op = c /\ FrameAt(p)'.rest = {}
        /\ status' = [status EXCEPT ![c] = "running"]
        /\ UNCHANGED <<life, result, owned, hasFunc, writeLock, suppliers, waiters, queued,
                       finished, todo, closing>>
        /\ \A r \in Places' : r = p \/ Same(r)
    BY SchedulerAssumption DEF DirectRunStep, context
  <1>2. /\ life[c] = "alive" /\ hasFunc[c] /\ result[c] # "ready" /\ p[1] = Meta /\ ~ closing
        /\ \A r \in Places : r # p /\ FrameAt(r).kind # "join" => FrameAt(r).op # c
    BY <1>1, SchedulerBefore
  <1>3. c \notin queued
    BY <1>1, <1>2 DEF IInv, CoreInv, QueuedMeansScheduled, Final
  <1>4. status \in [Op -> Status]
    BY InvShape DEF Shape
  <1>5. status'[c] = "running" /\ \A d \in Op : d # c => status'[d] = status[d]
    BY <1>1, <1>4
  <1>6. suppliers[c] = {}
    BY <1>1 DEF IInv, GraphInv
  <1>7. Carried(p)
    BY <1>1 DEF Carried
  <1>8. \A r \in Places' : r # p /\ FrameAt(r)'.kind # "join" => FrameAt(r)'.op # c
    BY <1>1, <1>2 DEF Same
  <1> QED
    BY <1>1, <1>2, <1>3, <1>5, <1>6, <1>7, <1>8

LEMMA DirectRunCore ==
    ASSUME IInv, NEW p, NEW c, DirectRunStep(p, c), Shape' PROVE CoreInv'
  <1>1. UNCHANGED <<life, owned, suppliers, waiters, queued, todo>>
    BY DirectRunFacts
  <1>2. TypeOK' /\ CountInv'
    BY DirectRunCounts
  <1>3. \A d \in Op : life'[d] = "new" => status'[d] = "none"
    BY <1>1, DirectRunFacts, InvShape DEF ExistInv
  <1>4. ASSUME NEW r \in Places'
        PROVE  life'[FrameAt(r)'.op] = "alive" /\ \A a \in FrameAt(r)'.rest : life'[a] = "alive"
    <2>1. CASE r = p
      BY <1>1, <2>1, DirectRunFacts
    <2>2. CASE Same(r)
      BY <1>1, <2>2, InvShape DEF Same, ExistInv
    <2> QED
      BY <2>1, <2>2, DirectRunFacts
  <1>5. ExistInv'
    BY <1>1, <1>3, <1>4, InvShape DEF ExistInv
  <1>6. DirectInv'
    <2>1. DirectInv
      BY DEF IInv, CoreInv
    <2>2. \A d \in Direct : status'[d] \notin {"waiting", "scheduled", "activated"}
      BY <2>1, DirectRunFacts, SchedulerAssumption DEF DirectInv
    <2>3. \A r \in Places' : FrameAt(r)'.kind = "direct" => Same(r)
      BY DirectRunFacts
    <2> QED
      BY <2>1, <2>2, <2>3 DEF DirectInv, Same
  <1>7. QueuedMeansScheduled'
    BY <1>1, DirectRunFacts DEF QueuedMeansScheduled, IInv, CoreInv
  <1> QED
    BY <1>2, <1>5, <1>6, <1>7 DEF CoreInv

LEMMA DirectRunFrameCause ==
    ASSUME IInv, NEW p, NEW c, DirectRunStep(p, c) PROVE FrameInv' /\ CauseInv'
  <1>1. CauseInv /\ UNCHANGED <<life, result, suppliers, waiters, todo, closing>>
    BY DirectRunFacts DEF IInv
  <1>2. ASSUME NEW r \in Places'
        PROVE  /\ FrameAt(r)'.kind = "run" =>
                    status'[FrameAt(r)'.op] \in {"running", "exception", "cancelled"}
               /\ FrameAt(r)'.kind \in MetaKind =>
                    r[1] = Meta /\ status'[FrameAt(r)'.op] \in {"none", "exception"}
               /\ closing' => r[1] # Meta
               /\ FrameAt(r)'.kind = "join" \/ Carried(r)
    <2>1. CASE r = p
      BY <2>1, DirectRunFacts DEF MetaKind
    <2>2. CASE Same(r) /\ r # p /\ FrameAt(r)'.kind # "join"
      <3>1. r \in Places /\ FrameAt(r)' = FrameAt(r) /\ FrameAt(r).op \in Op /\ Carried(r)
        BY <2>2, InvShape, FrameType, FieldTypes, SameCarried DEF Same
      <3>2. status'[FrameAt(r).op] = status[FrameAt(r).op]
        BY <2>2, <3>1, DirectRunFacts
      <3> QED
        BY <1>1, <3>1, <3>2, InvShape DEF FrameInv
    <2>3. CASE Same(r) /\ FrameAt(r)'.kind = "join"
      BY <1>1, <2>3, InvShape DEF Same, FrameInv, MetaKind
    <2> QED
      BY <2>1, <2>2, <2>3, DirectRunFacts
  <1>3. \A q, r \in Places' :
              FrameAt(q)'.op = FrameAt(r)'.op /\ FrameAt(q)'.kind # "join"
              /\ FrameAt(r)'.kind # "join" => q = r
    BY <1>2, InvShape, UniqueKept
  <1>4. FrameInv'
    BY <1>2, <1>3 DEF FrameInv
  <1>5. \A d \in Op : /\ status[d] \in Final => status'[d] \in Final
                      /\ status'[d] \in {"exception", "cancelled"} => status'[d] = status[d]
    BY DirectRunFacts DEF Final
  <1>6. \A d \in Op : /\ status'[d] = "exception" => result'[d] = "failed"
                      /\ status'[d] = "cancelled" => closing' \/ life'[d] = "dead"
    BY <1>1, <1>5 DEF CauseInv
  <1>7. \A a \in Op : \A w \in waiters'[a] :
          life'[w] = "alive" => a \in suppliers'[w] \/ status'[w] \in Final
    <2>1. \A a \in Op : waiters[a] \subseteq Op
      BY InvShape DEF Shape
    <2> QED
      BY <1>1, <1>5, <2>1 DEF CauseInv
  <1>8. ASSUME NEW t \in Thread, NEW i \in todo'[t], i.do = "cancel", life'[i.op] = "alive"
        PROVE  closing' \/ status'[i.op] \in Final
    <2>1. i.op \in Op /\ i \in todo[t]
      BY <1>1, <1>8, ItemFields, StartFields, InvShape DEF Shape
    <2> QED
      BY <1>1, <1>5, <1>8, <2>1 DEF CauseInv
  <1>9. CauseInv'
    BY <1>1, <1>6, <1>7, <1>8 DEF CauseInv
  <1> QED
    BY <1>4, <1>9

LEMMA DirectRunGraph ==
    ASSUME IInv, NEW p, NEW c, DirectRunStep(p, c) PROVE GraphInv'
  <1>1. GraphInv /\ UNCHANGED <<life, suppliers, waiters, todo>> /\ c \in Op
    BY DirectRunFacts DEF IInv
  <1>2. \A d \in Op : status[d] \notin Final => status'[d] \notin Final
    BY DirectRunFacts DEF Final
  <1>3. \A w \in Op : \A a \in suppliers[w] : a \in Op
    BY InvShape DEF Shape
  <1>4. \A w \in Op : \A a \in suppliers'[w] : life'[w] = "alive" =>
          status'[a] \notin Final /\ w \in waiters'[a]
    BY <1>1, <1>2, <1>3 DEF GraphInv
  <1>5. \A w \in Op : suppliers'[w] # {} => status'[w] \in {"none", "waiting"}
    BY <1>1, DirectRunFacts DEF GraphInv
  <1>6. \A w \in Op : PendingFor(w)' <=> PendingFor(w)
    BY <1>1 DEF PendingFor
  <1>7. \A w \in Op : life'[w] = "alive" /\ status'[w] = "waiting" =>
          suppliers'[w] # {} \/ PendingFor(w)'
    BY <1>1, <1>6, DirectRunFacts DEF GraphInv
  <1>8. \A r \in Places' : FrameAt(r)'.kind = "direct" => Same(r)
    BY DirectRunFacts
  <1>9. \A r \in Places' : FrameAt(r)'.kind = "direct" /\ FrameAt(r)'.pc \in {"suppl", "joined"}
         => suppliers'[FrameAt(r)'.op] \subseteq FrameAt(r)'.rest
    BY <1>1, <1>8 DEF GraphInv, Same
  <1> QED
    BY <1>1, <1>4, <1>5, <1>7, <1>9 DEF GraphInv

LEMMA DirectRunLockResult ==
    ASSUME IInv, NEW p, NEW c, DirectRunStep(p, c) PROVE LockInv' /\ ResultInv'
  <1>1. LockInv /\ ResultInv /\ UNCHANGED <<result, owned, hasFunc, writeLock, todo, closing>>
    BY DirectRunFacts DEF IInv
  <1>2. hasFunc[c] /\ writeLock[c] /\ result[c] # "ready" /\ status'[c] \notin Final
    BY <1>1, DirectRunFacts DEF LockInv, Final
  <1>3. \A d \in Op : hasFunc'[d] => writeLock'[d] /\ status'[d] \notin Final
    BY <1>1, <1>2, DirectRunFacts DEF LockInv
  <1>4. \A d \in Op : status'[d] \in {"waiting", "scheduled", "activated"} => hasFunc'[d]
    BY <1>1, <1>2, DirectRunFacts DEF LockInv
  <1>5. \A d \in Op :
         owned'[d] /\ ~ closing' /\ status'[d] \in {"waiting", "scheduled"} \cup Started
         => writeLock'[d] \/ result'[d] # "none"
    BY <1>1, <1>2, DirectRunFacts DEF LockInv
  <1>6. LockInv'
    BY <1>1, <1>3, <1>4, <1>5 DEF LockInv
  <1>7. ResultInv'
    BY <1>1, <1>2, DirectRunFacts DEF ResultInv
  <1> QED
    BY <1>6, <1>7

LEMMA DirectRunPayload ==
    ASSUME IInv, NEW p, NEW c, DirectRunStep(p, c) PROVE PayloadInv'
  <1>1. PayloadInv /\ UNCHANGED <<result, owned, hasFunc, writeLock, closing>>
    BY DirectRunFacts DEF IInv
  <1> SUFFICES ASSUME NEW r \in Places' PROVE PayloadAt(FrameAt(r), FrameAt(r).op)'
    BY NextPayload
  <1>2. CASE r = p
    BY <1>1, <1>2, DirectRunFacts DEF PayloadAt
  <1>3. CASE FrameAt(r)'.kind = "join"
    BY <1>3 DEF PayloadAt
  <1>4. CASE r # p /\ FrameAt(r)'.kind # "join"
    <2>1. r \in Places /\ FrameAt(r)' = FrameAt(r) /\ FrameAt(r).op \in Op
      BY <1>4, DirectRunFacts, InvShape, FrameType, FieldTypes DEF Same
    <2>2. PayloadAt(FrameAt(r), FrameAt(r).op)
      BY <1>1, <2>1, PayloadOfFrames
    <2>3. status'[FrameAt(r).op] = status[FrameAt(r).op]
      BY <1>4, <2>1, DirectRunFacts
    <2> QED
      BY <1>1, <2>1, <2>2, <2>3 DEF PayloadAt
  <1> QED
    BY <1>2, <1>3, <1>4

LEMMA DirectRunKeeps ==
    ASSUME IInv, NEW p, NEW c, DirectRunStep(p, c), Shape' PROVE IInv'
  BY DirectRunCore, DirectRunFrameCause, DirectRunGraph, DirectRunLockResult, DirectRunPayload
     DEF IInv

-----------------------------------------------------------------------------
(* The failure of a supplier, the end of interest, destruction and closing keep it *)

LEMMA StillPlaces ==
    ASSUME UNCHANGED stack
    PROVE  Places' = Places /\ \A p \in Places : FrameAt(p)' = FrameAt(p)
  BY DEF Places, FrameAt

LEMMA FailFacts ==
    ASSUME IInv, NEW t, NEW i, NEW c, FailStep(t, i, c)
    PROVE  /\ c \in Op /\ life[c] = "alive" /\ result'[c] = "failed" /\ result[c] # "ready"
           /\ \A d \in Op : d # c => result'[d] = result[d]
           /\ \E a \in Args[c] : result[a] = "failed"
           /\ UNCHANGED <<life, status, owned, hasFunc, writeLock, suppliers, waiters, queued,
                          nrActive, finished, closing>>
           /\ \A u \in Thread : \A k \in todo'[u] :
                 k \in todo[u] \/ (k.do = "endFailed" /\ k.op = c /\ k # Start)
           /\ \A w \in Op : PendingFor(w) => PendingFor(w)'
           /\ Places' = Places /\ \A p \in Places : FrameAt(p)' = FrameAt(p)
  <1>1. /\ t \in Thread /\ i \in todo[t] /\ i.do = "fail" /\ i.op = c /\ c \in Op
        /\ life[c] = "alive"
        /\ result' = [result EXCEPT ![c] = "failed"]
        /\ todo' = [todo EXCEPT ![t] = (todo[t] \ {i}) \cup {[do |-> "endFailed", op |-> c]}]
        /\ UNCHANGED <<life, status, owned, hasFunc, writeLock, suppliers, waiters, queued,
                       nrActive, finished, stack, closing>>
    BY DEF FailStep, graph, queues
  <1>2. result \in [Op -> {"none", "ready", "failed"}] /\ todo \in [Thread -> SUBSET Item]
    BY InvShape DEF Shape
  <1>3. \E a \in Args[c] : result[a] = "failed"
    BY <1>1 DEF IInv, ResultInv
  <1>4. result[c] # "ready"
    BY <1>1, <1>3 DEF IInv, ResultInv
  <1>5. result'[c] = "failed" /\ \A d \in Op : d # c => result'[d] = result[d]
    BY <1>1, <1>2
  <1>6. /\ todo'[t] = (todo[t] \ {i}) \cup {[do |-> "endFailed", op |-> c]}
        /\ \A u \in Thread : u # t => todo'[u] = todo[u]
    BY <1>1, <1>2
  <1>7. \A u \in Thread : \A k \in todo'[u] :
                 k \in todo[u] \/ (k.do = "endFailed" /\ k.op = c /\ k # Start)
    BY <1>6, StartFields
  <1>8. ASSUME NEW w \in Op, PendingFor(w) PROVE PendingFor(w)'
    <2>1. PICK u \in Thread : \E k \in todo[u] : k.op = w
      BY <1>8 DEF PendingFor
    <2>2. PICK k \in todo[u] : k.op = w
      BY <2>1
    <2>3. CASE k = i
      <3>1. [do |-> "endFailed", op |-> c] \in todo'[t] /\ w = c
        BY <1>1, <1>6, <2>2, <2>3
      <3>2. \E j \in todo'[t] : j.op = w
        BY <3>1
      <3> QED
        BY <1>1, <3>2 DEF PendingFor
    <2>4. CASE k # i
      <3>1. k \in todo'[u]
        BY <1>6, <2>2, <2>4
      <3> QED
        BY <2>2, <3>1 DEF PendingFor
    <2> QED
      BY <2>3, <2>4
  <1> QED
    BY <1>1, <1>3, <1>4, <1>5, <1>7, <1>8, StillPlaces

LEMMA FailKeeps ==
    ASSUME IInv, NEW t, NEW i, NEW c, FailStep(t, i, c), Shape' PROVE IInv'
  <1>1. UNCHANGED <<life, status, owned, hasFunc, writeLock, suppliers, waiters, queued,
                    nrActive, finished, closing>>
    BY FailFacts
  <1>2. Places' = Places /\ \A p \in Places : FrameAt(p)' = FrameAt(p)
    BY FailFacts
  <1>3. \A d \in Op : /\ result[d] = "failed" => result'[d] = "failed"
                      /\ result[d] # "none" => result'[d] # "none"
                      /\ result'[d] = "ready" <=> result[d] = "ready"
    BY FailFacts
  <1>4. \A d \in Op : Args[d] \subseteq Op
    BY SchedulerAssumption
  <1>5. CoreInv'
    <2>1. TypeOK' /\ CountInv'
      BY <1>1, CountsKept
    <2>2. ExistInv'
      <3>1. \A u \in Thread : \A k \in todo'[u] : k # Start =>
               /\ life'[k.op] # "new"
               /\ k.do = "endFailed" => life'[k.op] = "alive"
               /\ k.do = "destroy" => life'[k.op] = "dead"
        BY <1>1, FailFacts, InvShape DEF ExistInv
      <3> QED
        BY <1>1, <1>2, <3>1, InvShape DEF ExistInv
    <2>3. DirectInv' /\ QueuedMeansScheduled'
      BY <1>1, <1>2 DEF DirectInv, QueuedMeansScheduled, IInv, CoreInv
    <2> QED
      BY <2>1, <2>2, <2>3 DEF CoreInv
  <1>6. FrameInv'
    BY <1>1, <1>2, InvShape DEF FrameInv
  <1>7. CauseInv'
    <2>1. CauseInv
      BY DEF IInv
    <2>2. ASSUME NEW u \in Thread, NEW k \in todo'[u]
          PROVE  /\ k.do = "endFailed" => result'[k.op] = "failed"
                 /\ k.do = "cancel" /\ life'[k.op] = "alive" => closing' \/ status'[k.op] \in Final
      <3>1. CASE k \in todo[u] /\ k # Start
        <4>1. k.op \in Op
          BY <3>1, ItemFields, InvShape DEF Shape
        <4> QED
          BY <1>1, <1>3, <2>1, <3>1, <4>1 DEF CauseInv
      <3>2. CASE k.do = "endFailed" /\ k.op = c
        BY <3>2, FailFacts
      <3>3. CASE k = Start
        BY <3>3, StartFields
      <3> QED
        BY <3>1, <3>2, <3>3, FailFacts
    <2> QED
      BY <1>1, <1>3, <2>1, <2>2 DEF CauseInv
  <1>8. GraphInv'
    <2>1. \A w \in Op : life'[w] = "alive" /\ status'[w] = "waiting" =>
             suppliers'[w] # {} \/ PendingFor(w)'
      BY <1>1, FailFacts DEF IInv, GraphInv
    <2> QED
      BY <1>1, <1>2, <2>1 DEF IInv, GraphInv
  <1>9. LockInv'
    BY <1>1, <1>3, <1>4 DEF IInv, LockInv
  <1>10. ResultInv'
    <2>1. ResultInv
      BY DEF IInv
    <2>2. ASSUME NEW u \in Thread, NEW k \in todo'[u], k.do \in {"fail", "endFailed"}
          PROVE  \E a \in Args[k.op] : result'[a] = "failed"
      <3>1. k.op \in Op /\ \E a \in Args[k.op] : result[a] = "failed"
        <4>1. CASE k \in todo[u]
          BY <2>1, <2>2, <4>1, ItemFields, StartFields, InvShape DEF ResultInv, Shape
        <4>2. CASE k.op = c
          BY <4>2, FailFacts
        <4> QED
          BY <4>1, <4>2, FailFacts
      <3> QED
        BY <1>3, <1>4, <3>1
    <2>3. \A d \in Op : result'[d] = "ready" =>
             /\ status'[d] \in {"running"} \cup Final
             /\ \A a \in Args[d] : result'[a] = "ready"
      BY <1>1, <1>3, <1>4, <2>1 DEF ResultInv
    <2> QED
      BY <2>2, <2>3 DEF ResultInv
  <1>11. PayloadInv'
    <2> SUFFICES ASSUME NEW p \in Places' PROVE PayloadAt(FrameAt(p), FrameAt(p).op)'
      BY NextPayload
    <2>1. p \in Places /\ FrameAt(p)' = FrameAt(p) /\ FrameAt(p).op \in Op
      BY <1>2, InvShape, FrameType, FieldTypes
    <2>2. PayloadAt(FrameAt(p), FrameAt(p).op)
      BY <2>1, PayloadOfFrames DEF IInv
    <2> QED
      BY <1>1, <1>3, <1>4, <2>1, <2>2 DEF PayloadAt
  <1> QED
    BY <1>5, <1>6, <1>7, <1>8, <1>9, <1>10, <1>11 DEF IInv

\* Nobody stops the interest in the argument of a context that is kept.
LEMMA StopKeeps ==
    ASSUME IInv, NEW c \in Op, StopInterest(c), Shape' PROVE IInv'
  <1>1. /\ owned' = [owned EXCEPT ![c] = FALSE]
        /\ UNCHANGED <<life, status, result, hasFunc, writeLock, suppliers, waiters, queued,
                       nrActive, finished, stack, todo, closing>>
    BY DEF StopInterest, graph, queues
  <1>2. owned \in [Op -> BOOLEAN]
    BY InvShape DEF Shape
  <1>3. \A d \in Op : /\ owned'[d] => owned[d]
                      /\ owned[d] /\ ~ owned'[d] => d = c
    BY <1>1, <1>2
  <1>4. Places' = Places /\ \A p \in Places : FrameAt(p)' = FrameAt(p)
    BY <1>1, StillPlaces
  <1>5. CoreInv'
    <2>1. TypeOK' /\ CountInv'
      BY <1>1, CountsKept
    <2>2. ExistInv'
      BY <1>1, <1>3, <1>4, InvShape DEF ExistInv
    <2>3. DirectInv' /\ QueuedMeansScheduled'
      BY <1>1, <1>4 DEF DirectInv, QueuedMeansScheduled, IInv, CoreInv
    <2> QED
      BY <2>1, <2>2, <2>3 DEF CoreInv
  <1>6. FrameInv' /\ CauseInv' /\ ResultInv'
    BY <1>1, <1>4 DEF IInv, FrameInv, CauseInv, ResultInv
  <1>7. GraphInv'
    <2>1. \A w \in Op : PendingFor(w)' <=> PendingFor(w)
      BY <1>1 DEF PendingFor
    <2> QED
      BY <1>1, <1>4, <2>1 DEF IInv, GraphInv
  <1>8. LockInv'
    <2>1. LockInv
      BY DEF IInv
    <2>2. ASSUME NEW d \in Op, owned'[d], ~ closing', NEW a \in Args[d]
          PROVE  result'[a] # "none" \/ (owned'[a] /\ writeLock'[a])
      <3>1. a \in Op /\ owned[d]
        BY <1>3, <2>2, SchedulerAssumption
      <3>2. result[a] # "none" \/ (owned[a] /\ writeLock[a])
        BY <1>1, <2>1, <2>2, <3>1 DEF LockInv
      <3>3. a # c
        BY <2>2, <3>1 DEF StopInterest, HasInterest
      <3> QED
        BY <1>1, <1>3, <3>1, <3>2, <3>3
    <2> QED
      BY <1>1, <1>3, <2>1, <2>2 DEF LockInv
  <1>9. PayloadInv'
    <2> SUFFICES ASSUME NEW p \in Places' PROVE PayloadAt(FrameAt(p), FrameAt(p).op)'
      BY NextPayload
    <2>1. p \in Places /\ FrameAt(p)' = FrameAt(p) /\ FrameAt(p).op \in Op
      BY <1>4, InvShape, FrameType, FieldTypes
    <2>2. PayloadAt(FrameAt(p), FrameAt(p).op)
      BY <2>1, PayloadOfFrames DEF IInv
    <2> QED
      BY <1>1, <1>3, <2>1, <2>2 DEF PayloadAt
  <1> QED
    BY <1>5, <1>6, <1>7, <1>8, <1>9 DEF IInv

\* Nothing refers to a context whose last reference is gone.
LEMMA ExpireKeeps ==
    ASSUME IInv, NEW t \in Thread, NEW c \in Op, Expire(t, c), Shape' PROVE IInv'
  <1>1. /\ life[c] = "alive" /\ ~ Referenced(c)
        /\ life' = [life EXCEPT ![c] = "dead"]
        /\ todo' = [todo EXCEPT ![t] = todo[t] \cup {[do |-> "destroy", op |-> c]}]
        /\ UNCHANGED <<status, result, owned, hasFunc, writeLock, suppliers, waiters, queued,
                       nrActive, finished, stack, closing>>
    BY DEF Expire, graph, queues
  <1>2. life \in [Op -> {"new", "alive", "dead"}] /\ todo \in [Thread -> SUBSET Item]
    BY InvShape DEF Shape
  <1>3. life'[c] = "dead" /\ \A d \in Op : d # c => life'[d] = life[d]
    BY <1>1, <1>2
  <1>4. \A d \in Op : life'[d] = "alive" => life[d] = "alive"
    BY <1>3
  <1>5. Places' = Places /\ \A p \in Places : FrameAt(p)' = FrameAt(p)
    BY <1>1, StillPlaces
  <1>6. /\ \A u \in Thread : todo[u] \subseteq todo'[u]
        /\ \A u \in Thread : \A i \in todo'[u] :
              i \in todo[u] \/ (i.do = "destroy" /\ i.op = c)
    <2>1. todo'[t] = todo[t] \cup {[do |-> "destroy", op |-> c]}
          /\ \A u \in Thread : u # t => todo'[u] = todo[u]
      BY <1>1, <1>2
    <2> QED
      BY <2>1
  <1>7. CoreInv'
    <2>1. TypeOK' /\ CountInv'
      BY <1>1, CountsKept
    <2>2. ExistInv'
      <3>1. \A d \in Op : life'[d] = "new" => life[d] = "new"
        BY <1>3
      <3>2. \A d \in Op : owned'[d] => life'[d] = "alive"
        BY <1>1, <1>3, InvShape DEF ExistInv, Referenced
      <3>3. \A w \in Op : \A a \in suppliers'[w] : life'[a] = "alive"
        <4>1. \A w \in Op : \A a \in suppliers[w] : a \in Op /\ a # c
          BY <1>1, InvShape DEF Referenced, Shape
        <4> QED
          BY <1>1, <1>3, <4>1, InvShape DEF ExistInv
      <3>4. ASSUME NEW p \in Places'
            PROVE  life'[FrameAt(p)'.op] = "alive" /\ \A a \in FrameAt(p)'.rest : life'[a] = "alive"
        <4>1. p \in Places /\ FrameAt(p)' = FrameAt(p) /\ FrameAt(p).op \in Op
              /\ FrameAt(p).rest \subseteq Op
          BY <1>5, InvShape, FrameType, FieldTypes
        <4>2. FrameAt(p).op # c /\ c \notin FrameAt(p).rest
          BY <1>1, <4>1 DEF Referenced, FramesOf
        <4> QED
          BY <1>3, <4>1, <4>2, InvShape DEF ExistInv
      <3>5. ASSUME NEW u \in Thread, NEW i \in todo'[u], i # Start
            PROVE  /\ life'[i.op] # "new"
                   /\ i.do = "endFailed" => life'[i.op] = "alive"
                   /\ i.do = "destroy" => life'[i.op] = "dead"
        <4>1. CASE i \in todo[u]
          <5>1. i.op \in Op /\ i \in Item
            BY <3>5, <4>1, ItemFields, InvShape DEF Shape
          <5>2. /\ life[i.op] # "new"
                /\ i.do = "endFailed" => life[i.op] = "alive"
                /\ i.do = "destroy" => life[i.op] = "dead"
            BY <3>5, <4>1, InvShape DEF ExistInv
          <5>3. i.do = "endFailed" => i.op # c
            <6> SUFFICES ASSUME i.do = "endFailed", i.op = c PROVE FALSE
              OBVIOUS
            <6>1. i = [do |-> "endFailed", op |-> c]
              BY <3>5, <5>1 DEF Item, Start
            <6> QED
              BY <1>1, <4>1, <6>1 DEF Referenced
          <5> QED
            BY <1>3, <5>1, <5>2, <5>3
        <4>2. CASE i.do = "destroy" /\ i.op = c
          BY <1>3, <4>2
        <4> QED
          BY <1>6, <4>1, <4>2
      <3> QED
        BY <1>1, <3>1, <3>2, <3>3, <3>4, <3>5, InvShape DEF ExistInv
    <2>3. DirectInv' /\ QueuedMeansScheduled'
      BY <1>1, <1>4, <1>5 DEF DirectInv, QueuedMeansScheduled, IInv, CoreInv
    <2> QED
      BY <2>1, <2>2, <2>3 DEF CoreInv
  <1>8. FrameInv'
    BY <1>1, <1>5, InvShape DEF FrameInv
  <1>9. CauseInv'
    <2>1. CauseInv
      BY DEF IInv
    <2>2. \A d \in Op : status'[d] = "cancelled" => closing' \/ life'[d] = "dead"
      BY <1>1, <1>3, <2>1 DEF CauseInv
    <2>3. \A a \in Op : \A w \in waiters'[a] :
            life'[w] = "alive" => a \in suppliers'[w] \/ status'[w] \in Final
      <3>1. \A a \in Op : waiters[a] \subseteq Op
        BY InvShape DEF Shape
      <3> QED
        BY <1>1, <1>4, <2>1, <3>1 DEF CauseInv
    <2>4. ASSUME NEW u \in Thread, NEW i \in todo'[u]
          PROVE  /\ i.do = "endFailed" => result'[i.op] = "failed"
                 /\ i.do = "cancel" /\ life'[i.op] = "alive" => closing' \/ status'[i.op] \in Final
      <3>1. CASE i \in todo[u] /\ i # Start
        <4>1. i.op \in Op
          BY <3>1, ItemFields, InvShape DEF Shape
        <4> QED
          BY <1>1, <1>4, <2>1, <3>1, <4>1 DEF CauseInv
      <3>2. CASE i.do \in {"destroy", "start"}
        BY <3>2
      <3> QED
        BY <1>6, <3>1, <3>2, StartFields
    <2> QED
      BY <1>1, <2>1, <2>2, <2>3, <2>4 DEF CauseInv
  <1>10. GraphInv'
    <2>1. \A w \in Op : PendingFor(w) => PendingFor(w)'
      BY <1>6 DEF PendingFor
    <2> QED
      BY <1>1, <1>4, <1>5, <2>1 DEF IInv, GraphInv
  <1>11. LockInv'
    BY <1>1 DEF IInv, LockInv
  <1>12. ResultInv'
    <2>1. \A u \in Thread : \A i \in todo'[u] :
            i.do \in {"fail", "endFailed"} => i \in todo[u]
      BY <1>6
    <2> QED
      BY <1>1, <2>1 DEF IInv, ResultInv
  <1>13. PayloadInv'
    BY <1>1, <1>5 DEF IInv, PayloadInv
  <1> QED
    BY <1>7, <1>8, <1>9, <1>10, <1>11, <1>12, <1>13 DEF IInv

LEMMA CloseKeeps ==
    ASSUME IInv, Close, Shape' PROVE IInv'
  <1>1. /\ closing' /\ ~ closing /\ stack[Meta] = << >>
        /\ UNCHANGED <<life, status, result, owned, hasFunc, writeLock, suppliers, waiters, queued,
                       nrActive, finished, stack, todo>>
    BY DEF Close, context, graph, queues
  <1>2. Places' = Places /\ \A p \in Places : FrameAt(p)' = FrameAt(p)
    BY <1>1, StillPlaces
  <1>3. \A p \in Places : p[1] # Meta
    <2> SUFFICES ASSUME NEW p \in Places, p[1] = Meta PROVE FALSE
      OBVIOUS
    <2>1. p[2] \in 1 .. Len(stack[Meta])
      BY PlaceIs
    <2> QED
      BY <1>1, <2>1
  <1>4. CoreInv'
    <2>1. TypeOK' /\ CountInv'
      BY <1>1, CountsKept
    <2>2. ExistInv' /\ DirectInv' /\ QueuedMeansScheduled'
      BY <1>1, <1>2, InvShape DEF ExistInv, DirectInv, QueuedMeansScheduled, IInv, CoreInv
    <2> QED
      BY <2>1, <2>2 DEF CoreInv
  <1>5. FrameInv'
    BY <1>1, <1>2, <1>3, InvShape DEF FrameInv
  <1>6. CauseInv' /\ ResultInv'
    BY <1>1 DEF IInv, CauseInv, ResultInv
  <1>7. GraphInv'
    <2>1. \A w \in Op : PendingFor(w)' <=> PendingFor(w)
      BY <1>1 DEF PendingFor
    <2> QED
      BY <1>1, <1>2, <2>1 DEF IInv, GraphInv
  <1>8. LockInv'
    BY <1>1 DEF IInv, LockInv
  <1>9. PayloadInv'
    BY <1>1, <1>2 DEF IInv, PayloadInv
  <1> QED
    BY <1>4, <1>5, <1>6, <1>7, <1>8, <1>9 DEF IInv

-----------------------------------------------------------------------------
(* Every step *)

LEMMA InitIInv == Init => IInv
  <1> SUFFICES ASSUME Init PROVE IInv
    OBVIOUS
  <1>1. Places = {}
    <2> SUFFICES ASSUME NEW p \in Places PROVE FALSE
      OBVIOUS
    <2>1. p[1] \in Thread /\ p[2] \in 1 .. Len(stack[p[1]])
      BY PlaceIs DEF Init, Stacks
    <2> QED
      BY <2>1 DEF Init
  <1>2. Cardinality({}) = 0 /\ IsFiniteSet(Op) /\ Cardinality(Op) \in Nat
    BY FS_EmptySet, FS_CardinalityType, SchedulerAssumption
  <1>3. TypeOK
    <2>1. nrActive \in [PhaseNr -> Nat]
      BY DEF Init
    <2>2. finished \in 0 .. Cardinality(Op)
      BY <1>2 DEF Init
    <2>3. radio \in Seq(Op) /\ stack \in [Thread -> Seq(Frame)]
      BY DEF Init
    <2>4. \A t \in Thread : Len(stack[t]) <= MaxDepth
      BY SchedulerAssumption DEF Init
    <2> QED
      BY <2>1, <2>2, <2>3, <2>4 DEF Init, TypeOK, Status
  <1>4. CountInv
    <2>1. \A p \in PhaseNr : {c \in Op : status[c] \in Started /\ Phase[c] = p} = {}
      BY DEF Init, Started
    <2>2. {c \in Op : status[c] \in Final} = {}
      BY DEF Init, Final
    <2> QED
      BY <1>2, <2>1, <2>2 DEF Init, CountInv, RunCount
  <1>5. ExistInv /\ DirectInv /\ QueuedMeansScheduled
    <2>2. ExistInv
      BY <1>1 DEF Init, ExistInv
    <2>3. DirectInv
      BY <1>1, SchedulerAssumption DEF Init, DirectInv
    <2>4. QueuedMeansScheduled
      BY DEF Init, QueuedMeansScheduled
    <2> QED
      BY <2>2, <2>3, <2>4
  <1>6. FrameInv /\ CauseInv /\ GraphInv /\ PayloadInv
    BY <1>1 DEF Init, FrameInv, CauseInv, GraphInv, PayloadInv
  <1>7. LockInv /\ ResultInv
    BY DEF Init, LockInv, ResultInv, Started
  <1> QED
    BY <1>3, <1>4, <1>5, <1>6, <1>7 DEF IInv, CoreInv

LEMMA NextIInv ==
    ASSUME IInv, [Next]_vars PROVE IInv'
  <1>1. ClassifiedStep /\ Shape'
    BY StepCases
  <1>2. ASSUME NEW R, NEW B, LicenseStep(R, B) PROVE IInv'
    BY <1>1, <1>2, LicenseKeeps
  <1>3. ASSUME NEW X, ActivateStep(X) PROVE IInv'
    BY <1>1, <1>3, ActivateKeeps
  <1>4. ASSUME NEW S, NEW st, EndStep(S, st) PROVE IInv'
    BY <1>1, <1>4, EndKeeps
  <1>5. ASSUME NEW p, NEW c, RunMove(p, c) PROVE IInv'
    BY <1>1, <1>5, RunKeeps
  <1>6. ASSUME NEW c, BeginStep(c) PROVE IInv'
    BY <1>1, <1>6, BeginKeeps
  <1>7. ASSUME NEW p, NEW c, NEW S, ConnectStep(p, c, S) PROVE IInv'
    BY <1>1, <1>7, ConnectKeeps
  <1>8. ASSUME NEW p, NEW c, QueueStep(p, c) PROVE IInv'
    BY <1>1, <1>8, QueueKeeps
  <1>9. ASSUME NEW p, NEW c, DirectRunStep(p, c) PROVE IInv'
    BY <1>1, <1>9, DirectRunKeeps
  <1>10. ASSUME NEW t, NEW i, NEW c, FailStep(t, i, c) PROVE IInv'
    BY <1>1, <1>10, FailKeeps
  <1>11. CASE QuietStep
    BY <1>1, <1>11, QuietKeeps
  <1>12. CASE \E c \in Op : StopInterest(c)
    BY <1>1, <1>12, StopKeeps
  <1>13. CASE \E t \in Thread, c \in Op : Expire(t, c)
    BY <1>1, <1>13, ExpireKeeps
  <1>14. CASE Close
    BY <1>1, <1>14, CloseKeeps
  <1> QED
    BY <1>1, <1>2, <1>3, <1>4, <1>5, <1>6, <1>7, <1>8, <1>9, <1>10, <1>11, <1>12, <1>13, <1>14
       DEF ClassifiedStep

-----------------------------------------------------------------------------
(* What the runs check follows from the invariant *)

\* No step gives an ended context another status.
LEMMA NextFinal ==
    ASSUME IInv, [Next]_vars, NEW c \in Op, status[c] \in Final
    PROVE  status'[c] = status[c]
  <1>1. ClassifiedStep
    BY StepCases
  <1>2. status[c] \notin {"none", "waiting", "scheduled", "activated", "running"}
    BY DEF Final
  <1>3. ASSUME NEW R, NEW B, LicenseStep(R, B) PROVE status'[c] = status[c]
    BY <1>2, <1>3, LicenseFacts
  <1>4. ASSUME NEW X, ActivateStep(X) PROVE status'[c] = status[c]
    BY <1>2, <1>4, ActivateFacts
  <1>5. ASSUME NEW S, NEW st, EndStep(S, st) PROVE status'[c] = status[c]
    BY <1>5, EndStatus
  <1>6. ASSUME NEW p, NEW d, QueueStep(p, d) PROVE status'[c] = status[c]
    BY <1>2, <1>6, QueueFacts
  <1>7. ASSUME NEW p, NEW d, DirectRunStep(p, d) PROVE status'[c] = status[c]
    BY <1>2, <1>7, DirectRunFacts
  <1>8. ASSUME NEW p, NEW d, RunMove(p, d) PROVE status'[c] = status[c]
    BY <1>8, RunFacts
  <1>9. ASSUME NEW d, BeginStep(d) PROVE status'[c] = status[c]
    BY <1>9, BeginFacts
  <1>10. ASSUME NEW p, NEW d, NEW S, ConnectStep(p, d, S) PROVE status'[c] = status[c]
    BY <1>10, ConnectFacts
  <1>11. ASSUME NEW t, NEW i, NEW d, FailStep(t, i, d) PROVE status'[c] = status[c]
    BY <1>11, FailFacts
  <1>12. CASE \/ QuietStep
              \/ \E d \in Op : StopInterest(d)
              \/ \E t \in Thread, d \in Op : Expire(t, d)
              \/ Close
    BY <1>12 DEF QuietStep, StopInterest, Expire, Close, graph
  <1> QED
    BY <1>1, <1>3, <1>4, <1>5, <1>6, <1>7, <1>8, <1>9, <1>10, <1>11, <1>12 DEF ClassifiedStep

\* The active phase does not rise over a phase that still counts an active context.
RisesFreely ==
    activePhase < activePhase' => \A q \in PhaseNr : q < activePhase' => nrActive[q] = 0

LEMMA PhasesTyped ==
    ASSUME IInv PROVE activePhase \in Nat /\ PhaseNr \subseteq Nat
  BY InvShape, SchedulerAssumption DEF Shape, PhaseNr

LEMMA PhaseStays ==
    ASSUME IInv, UNCHANGED activePhase PROVE RisesFreely
  BY PhasesTyped DEF RisesFreely

LEMMA EnqueueRises ==
    ASSUME IInv, NEW S \in SUBSET Op, Enqueue(S) PROVE RisesFreely
  <1>1. activePhase' \in PhaseNr \cup {0} /\ activePhase' <= activePhase
    BY InvShape, EnqueuePhase
  <1>2. activePhase' \in Nat
    BY <1>1, PhasesTyped
  <1> QED
    BY <1>1, <1>2, PhasesTyped DEF RisesFreely

LEMMA EndRises ==
    ASSUME IInv, NEW S, NEW st, Enqueue(Runnable(S, st)) PROVE RisesFreely
  <1>1. Runnable(S, st) \in SUBSET Op
    BY DEF Runnable, WaitersOf
  <1> QED
    BY <1>1, EnqueueRises

LEMMA OnEndRises ==
    ASSUME IInv, NEW t, NEW c, NEW st, NEW items, OnEnd(t, c, st, items) PROVE RisesFreely
  BY EndRises DEF OnEnd

LEMMA CollectRises ==
    ASSUME IInv, NEW t, NEW items, Collect(t, items) PROVE RisesFreely
  <1>1. CASE UNCHANGED queues
    BY <1>1, PhaseStays DEF queues
  <1>2. ASSUME NEW p \in PhaseNr, MayReach(p),
               activePhase' = IF p > activePhase THEN p ELSE activePhase
        PROVE  RisesFreely
    <2>1. CASE p > activePhase
      <3>1. activePhase' = p /\ \A q \in PhaseNr : q < p => nrActive[q] = 0
        BY <1>2, <2>1 DEF MayReach
      <3> QED
        BY <3>1 DEF RisesFreely
    <2>2. CASE ~ (p > activePhase)
      BY <1>2, <2>2, PhaseStays
    <2> QED
      BY <2>1, <2>2
  <1> QED
    BY <1>1, <1>2 DEF Collect, Pass

LEMMA NextRises ==
    ASSUME IInv, [Next]_vars PROVE RisesFreely
  <1>1. CASE \E c \in Op : Begin(c)
    BY <1>1, PhaseStays DEF Begin, queues
  <1>2. CASE ScheduleStep
    <2>1. CASE Connect
      BY <2>1, PhaseStays, OnEndRises DEF Connect, queues
    <2>2. CASE Schedule
      <3>1. ASSUME NEW S \in {{}, {Top(Meta).op}}, Enqueue(S), At(Meta, "direct", "schedule")
            PROVE  RisesFreely
        <4>1. Top(Meta).op \in Op
          BY <3>1, TopFrame, InvShape DEF Shape, Thread
        <4> QED
          BY <3>1, <4>1, EnqueueRises
      <3>2. CASE UNCHANGED activePhase
        BY <3>2, PhaseStays
      <3> QED
        BY <2>2, <3>1, <3>2 DEF Schedule
    <2>3. CASE SupplierJoined
      BY <2>3, PhaseStays, OnEndRises DEF SupplierJoined, queues
    <2>4. CASE EndFence \/ (\E s \in Op : JoinSupplier(s)) \/ SuspendDirect \/ RunDirect
      BY <2>4, PhaseStays DEF EndFence, JoinSupplier, SuspendDirect, RunDirect, queues
    <2> QED
      BY <1>2, <2>1, <2>2, <2>3, <2>4 DEF ScheduleStep
  <1>3. CASE \E c \in Op, silent \in BOOLEAN : Join(c, silent)
    BY <1>3, PhaseStays DEF Join, queues
  <1>4. CASE DoWorkWhileWaiting
    BY <1>4, CollectRises DEF DoWorkWhileWaiting
  <1>5. ASSUME NEW t \in Thread, JoinStep(t) PROVE RisesFreely
    <2>1. CASE JoinLoop(t) \/ JoinCheck(t) \/ JoinWait(t)
      BY <2>1, PhaseStays DEF JoinLoop, JoinCheck, JoinWait, queues
    <2>2. CASE JoinInline(t) \/ StealOneTask(t)
      BY <2>2, PhaseStays DEF JoinInline, StealOneTask, TryRunning, queues
    <2>3. CASE JoinCollect(t)
      BY <2>3, CollectRises DEF JoinCollect
    <2> QED
      BY <1>5, <2>1, <2>2, <2>3 DEF JoinStep
  <1>6. ASSUME NEW t, NEW res, NEW st, Abort(t, res, st) PROVE RisesFreely
    BY <1>6, OnEndRises DEF Abort
  <1>7. ASSUME NEW t \in Thread, RunStep(t) PROVE RisesFreely
    <2>1. CASE TakeTaskFunc(t) \/ ReleaseWriteLock(t)
      BY <2>1, PhaseStays DEF TakeTaskFunc, ReleaseWriteLock, queues
    <2>2. CASE EnterOperator(t)
      BY <1>6, <2>2, PhaseStays DEF EnterOperator, queues
    <2>3. CASE ReturnOperator(t)
      BY <1>6, <2>3, PhaseStays DEF ReturnOperator, queues
    <2>4. CASE FailOperator(t) \/ CancelOperator(t)
      BY <1>6, <2>4 DEF FailOperator, CancelOperator
    <2>5. CASE Cleanup(t)
      BY <2>5, OnEndRises DEF Cleanup
    <2> QED
      BY <1>7, <2>1, <2>2, <2>3, <2>4, <2>5 DEF RunStep
  <1>8. ASSUME NEW t \in Thread, Timeout(t) PROVE RisesFreely
    BY <1>8, PhaseStays DEF Timeout, queues
  <1>9. ASSUME NEW t \in Thread, NEW c \in Op, JoinRead(t, c) PROVE RisesFreely
    BY <1>6, <1>9, PhaseStays DEF JoinRead, queues
  <1>10. ASSUME NEW t \in Thread, NEW c \in Op, RunTask(t, c) PROVE RisesFreely
    BY <1>10, PhaseStays DEF RunTask, TryRunning, queues
  <1>11. ASSUME NEW t \in Thread, NEW i \in todo[t], Dispose(t, i) PROVE RisesFreely
    <2>1. CASE UNCHANGED queues
      BY <2>1, PhaseStays DEF queues
    <2>2. CASE \E st : Enqueue(Runnable(Ending({i.op}), st))
      BY <2>2, EndRises
    <2>3. CASE Collect(t, todo[t] \ {i})
      BY <2>3, CollectRises
    <2> QED
      BY <1>11, <2>1, <2>2, <2>3 DEF Dispose
  <1>12. CASE \/ \E c \in Op : StopInterest(c)
              \/ \E t \in Thread, c \in Op : Expire(t, c)
              \/ Close \/ UNCHANGED vars
    BY <1>12, PhaseStays DEF StopInterest, Expire, Close, vars, queues
  <1> QED
    BY <1>1, <1>2, <1>3, <1>4, <1>5, <1>7, <1>8, <1>9, <1>10, <1>11, <1>12 DEF Next

\* A phase that counts nobody has nobody activated or running.
LEMMA NextFence ==
    ASSUME IInv, [Next]_vars, NEW c \in Op, Phase[c] < activePhase', activePhase < activePhase'
    PROVE  status[c] \notin Started
  <1>1. Phase[c] \in PhaseNr /\ nrActive[Phase[c]] = 0
    BY NextRises DEF RisesFreely, PhaseNr
  <1>2. Cardinality(ActiveIn(Phase[c])) = 0
    BY <1>1, CountsAre DEF IInv, CoreInv
  <1>3. ActiveIn(Phase[c]) \in SUBSET Op
    BY DEF ActiveIn
  <1>4. ActiveIn(Phase[c]) = {}
    BY <1>2, <1>3, FiniteOps, FS_EmptySet
  <1> QED
    BY <1>4 DEF ActiveIn

\* The run frames and the waiters, as the properties of the runs see them.
LEMMA IInvImplies ==
    ASSUME IInv
    PROVE  UniqueRun /\ OperatorIsLicensed /\ WaitersAreNotStarted /\ WaitingHasReason
  <1>1. \A c \in Op : \A p \in RunFrames(c) :
          p \in Places /\ FrameAt(p).op = c /\ FrameAt(p).kind = "run"
    BY DEF RunFrames, FramesOf
  <1>2. UniqueRun
    <2> SUFFICES ASSUME NEW c \in Op, NEW p \in RunFrames(c), NEW q \in RunFrames(c)
                 PROVE  p = q /\ status[c] \in {"running"} \cup Final
      BY DEF UniqueRun
    <2>1. p = q
      BY <1>1 DEF IInv, FrameInv
    <2>2. status[c] \in {"running", "exception", "cancelled"}
      BY <1>1 DEF IInv, FrameInv
    <2> QED
      BY <2>1, <2>2 DEF Final
  <1>3. OperatorIsLicensed
    <2> SUFFICES ASSUME NEW c \in Op, NEW p \in RunFrames(c), FrameAt(p).pc = "oper"
                 PROVE  /\ status[c] \in Final \/ (status[c] = "running" /\ writeLock[c])
                        /\ \A a \in Args[c] : result[a] = "ready"
      BY DEF OperatorIsLicensed
    <2>1. status[c] \in {"running"} \cup Final
      BY <1>2 DEF UniqueRun
    <2>2. /\ status[c] \notin Final => writeLock[c]
          /\ \A a \in Args[c] : result[a] = "ready"
      BY <1>1 DEF IInv, PayloadInv
    <2> QED
      BY <2>1, <2>2
  <1>4. WaitersAreNotStarted
    <2> SUFFICES ASSUME NEW c \in Op, status[c] \notin Final, NEW w \in waiters[c],
                        life[w] = "alive"
                 PROVE  status[w] \in {"none", "waiting"} \cup Final
      BY DEF WaitersAreNotStarted
    <2>1. w \in Op
      BY InvShape DEF Shape
    <2>2. c \in suppliers[w] \/ status[w] \in Final
      BY DEF IInv, CauseInv
    <2> QED
      BY <2>1, <2>2 DEF IInv, GraphInv
  <1>5. WaitingHasReason
    BY DEF WaitingHasReason, IInv, GraphInv
  <1> QED
    BY <1>2, <1>3, <1>4, <1>5

-----------------------------------------------------------------------------
(* The theorems *)

\* The layers of the invariant hold in every reachable state.
THEOREM Invariance == Spec => []IInv
  <1>1. Init => IInv
    BY InitIInv
  <1>2. IInv /\ [Next]_vars => IInv'
    BY NextIInv
  <1> QED BY <1>1, <1>2, PTL DEF Spec

\* The variables keep their types.
THEOREM TypeCorrect == Spec => []TypeOK
  <1>1. IInv => TypeOK
    BY DEF IInv, CoreInv
  <1> QED BY <1>1, Invariance, PTL

\* s_NrActivatedOrRunningOperations counts, per phase, the contexts that are activated
\* or running, whichever of collectTaskImpl, getUniqueLicenseToRun, releaseRunCount and
\* the scheduling of direct contexts changed it.
THEOREM CountsAreRight == Spec => []RunCountMatches
  <1>1. IInv => RunCountMatches
    BY DEF IInv, CoreInv, CountInv, RunCountMatches
  <1> QED BY <1>1, Invariance, PTL

\* scheduleRunnableTask and collectOperationContexts lose no runnable context and
\* activate none twice.
THEOREM NothingIsForgotten == Spec => []QueuedMeansScheduled
  <1>1. IInv => QueuedMeansScheduled
    BY DEF IInv, CoreInv
  <1> QED BY <1>1, Invariance, PTL

\* getUniqueLicenseToRun is unique: no two threads, and no two frames of one thread,
\* are in the payload of one context.
THEOREM LicenseIsUnique == Spec => []UniqueRun
  <1>1. IInv => UniqueRun
    BY IInvImplies
  <1> QED BY <1>1, Invariance, PTL

\* An operator runs with its license, its write lock and complete arguments, unless the
\* context was ended meanwhile.
THEOREM OperatorsAreLicensed == Spec => []OperatorIsLicensed
  <1>1. IInv => OperatorIsLicensed
    BY IInvImplies
  <1> QED BY <1>1, Invariance, PTL

\* The assertion of disconnect_supplier holds: a waiter has not been started.
THEOREM WaitersHoldStill == Spec => []WaitersAreNotStarted
  <1>1. IInv => WaitersAreNotStarted
    BY IInvImplies
  <1> QED BY <1>1, Invariance, PTL

\* A waiting context never waits for nothing: a live supplier or a deferred call will
\* end or schedule it.
THEOREM NobodyWaitsInVain == Spec => []WaitingHasReason
  <1>1. IInv => WaitingHasReason
    BY IInvImplies
  <1> QED BY <1>1, Invariance, PTL

\* A result is completed only from complete arguments, and a failure arrives only where
\* an argument failed, so a complete result is never taken back.
THEOREM ResultsAreComplete == Spec => []ResultInv
  <1>1. IInv => ResultInv
    BY DEF IInv
  <1> QED BY <1>1, Invariance, PTL

\* OnEnd does not change an established final status.
THEOREM EndsAreFinal == Spec => FinalStays
  <1>1. IInv /\ [Next]_vars => [\A c \in Op : status[c] \in Final => status'[c] = status[c]]_vars
    BY NextFinal
  <1> QED BY <1>1, Invariance, PTL DEF Spec, FinalStays

\* The phase fence: the active phase rises past a phase only when the phase has no
\* context activated or running.
THEOREM PhasesAreFenced == Spec => PhaseFence
  <1>1. IInv /\ [Next]_vars
        => [\A c \in Op : Phase[c] < activePhase' /\ activePhase < activePhase'
              => status[c] \notin Started]_vars
    BY NextFence
  <1> QED BY <1>1, Invariance, PTL DEF Spec, PhaseFence

=============================================================================
