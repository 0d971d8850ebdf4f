-------------------------- MODULE ItemAccess_proofs --------------------------
(***************************************************************************)
(* Item locks and data locks keep readers and producers apart, for any     *)
(* items, contexts and threads, and implement DataAccess.                  *)
(***************************************************************************)
EXTENDS ItemAccess, FiniteSetTheorems, TLAPS

LEMMA FiniteReader == IsFiniteSet(Reader)
  <1>1. IsFiniteSet({Meta})
    BY FS_Singleton
  <1> QED BY <1>1, FS_Union, AccessAssumption DEF Reader

-----------------------------------------------------------------------------
(* Paths and what a frame holds *)

\* A path has one or two different items, the root first.
LEMMA PathFacts ==
    ASSUME NEW i \in Item
    PROVE  /\ Len(Path(i)) \in 1..2
           /\ Path(i)[1] = Root[i]
           /\ Len(Path(i)) = 2 => Path(i)[2] = i /\ Root[i] # i
           /\ Len(Path(i)) = 1 => Root[i] = i
           /\ \A k \in 1..Len(Path(i)) : Path(i)[k] \in Item
  BY AccessAssumption DEF Path

\* A frame that locks the next item of its path holds one more.
LEMMA HeldGrows ==
    ASSUME NEW f \in FrameType, NEW g \in FrameType, g.item = f.item,
           NrHeld(f) \in Nat, NrHeld(g) = NrHeld(f) + 1, NrHeld(g) <= Len(Path(f.item))
    PROVE  /\ Held(g) = Held(f) \cup {Path(f.item)[NrHeld(g)]}
           /\ Path(f.item)[NrHeld(g)] \notin Held(f)
  <1>1. f.item \in Item
    BY DEF FrameType
  <1>2. NrHeld(g) = 1 \/ NrHeld(g) = 2
    BY <1>1, PathFacts
  <1>3. CASE NrHeld(g) = 1
    <2>1. NrHeld(f) = 0
      BY <1>3
    <2>2. 1..NrHeld(f) = {} /\ 1..NrHeld(g) = {1}
      BY <2>1, <1>3
    <2> QED BY <2>2, <1>3 DEF Held
  <1>4. CASE NrHeld(g) = 2
    <2>1. NrHeld(f) = 1 /\ Len(Path(f.item)) = 2
      BY <1>4, <1>1, PathFacts
    <2>2. 1..NrHeld(f) = {1} /\ 1..NrHeld(g) = {1, 2}
      BY <2>1, <1>4
    <2>3. Path(f.item)[1] # Path(f.item)[2]
      BY <2>1, <1>1, PathFacts
    <2> QED BY <2>2, <2>3, <1>4 DEF Held
  <1> QED BY <1>2, <1>3, <1>4

\* A frame that holds anything holds the root.
LEMMA RootHeld ==
    ASSUME NEW f \in FrameType, NrHeld(f) \in Nat \ {0}
    PROVE  Root[f.item] \in Held(f)
  <1>1. 1 \in 1..NrHeld(f) /\ Path(f.item)[1] = Root[f.item]
    BY PathFacts DEF FrameType
  <1> QED BY <1>1 DEF Held

\* A frame at a place without locks holds nothing.
LEMMA HeldNothing ==
    ASSUME NEW f \in FrameType, f.pc \notin LockingPc \cup ReadingPc \cup {"free"}
    PROVE  Held(f) = {}
  <1>1. 1..NrHeld(f) = {}
    BY DEF NrHeld
  <1> QED BY <1>1 DEF Held

-----------------------------------------------------------------------------
(* Who shares an item when one frame changes *)

LEMMA SharingFinite ==
    ASSUME NEW j
    PROVE  /\ IsFiniteSet(Sharing(j)) /\ Shared(j) \in Nat
           /\ (Shared(j) = 0) <=> (Sharing(j) = {})
  <1>1. IsFiniteSet(Sharing(j))
    BY FiniteReader, FS_Subset DEF Sharing
  <1> QED BY <1>1, FS_CardinalityType, FS_EmptySet DEF Shared

\* A frame that holds less, or as much, leaves no item with more locks.
LEMMA SharingShrinks ==
    ASSUME TypeOK, NEW t \in Reader, NEW f \in FrameType,
           reader' = [reader EXCEPT ![t] = f], Held(f) \subseteq Held(reader[t]), NEW j
    PROVE  /\ Sharing(j)' \subseteq Sharing(j)
           /\ Shared(j)' \in Nat /\ Shared(j)' <= Shared(j)
  <1>1. \A u \in Reader : Held(reader'[u]) \subseteq Held(reader[u])
    BY DEF TypeOK
  <1>2. Sharing(j)' \subseteq Sharing(j)
    BY <1>1 DEF Sharing
  <1>3. /\ Cardinality(Sharing(j)') \in Nat
        /\ Cardinality(Sharing(j)') <= Cardinality(Sharing(j))
    BY <1>2, SharingFinite, FS_Subset, FS_CardinalityType
  <1> QED BY <1>2, <1>3 DEF Shared

\* A frame that holds one item more or less.
LEMMA SharingGrows ==
    ASSUME TypeOK, NEW t \in Reader, NEW f \in FrameType, NEW i,
           reader' = [reader EXCEPT ![t] = f],
           Held(f) = Held(reader[t]) \cup {i}, i \notin Held(reader[t]), NEW j
    PROVE  /\ j = i => Sharing(j)' # {} /\ Shared(j)' = Shared(j) + 1
           /\ j # i => Sharing(j)' = Sharing(j) /\ Shared(j)' = Shared(j)
  <1>1. \A u \in Reader : reader'[u] = IF u = t THEN f ELSE reader[u]
    BY DEF TypeOK
  <1>2. CASE j # i
    <2>1. Sharing(j)' = Sharing(j)
      BY <1>1, <1>2 DEF Sharing
    <2> QED BY <2>1, <1>2 DEF Shared
  <1>3. CASE j = i
    <2>1. Sharing(j)' = Sharing(j) \cup {t} /\ t \notin Sharing(j)
      BY <1>1, <1>3 DEF Sharing
    <2>2. Cardinality(Sharing(j) \cup {t}) = Cardinality(Sharing(j)) + 1
      BY <2>1, SharingFinite, FS_AddElement
    <2> QED BY <2>1, <2>2, <1>3 DEF Shared
  <1> QED BY <1>2, <1>3

LEMMA SharingLoses ==
    ASSUME TypeOK, NEW t \in Reader, NEW f \in FrameType, NEW i,
           reader' = [reader EXCEPT ![t] = f],
           Held(reader[t]) = Held(f) \cup {i}, i \notin Held(f), NEW j
    PROVE  /\ j = i => Sharing(j) # {} /\ Shared(j)' = Shared(j) - 1
           /\ j # i => Sharing(j)' = Sharing(j) /\ Shared(j)' = Shared(j)
  <1>1. \A u \in Reader : reader'[u] = IF u = t THEN f ELSE reader[u]
    BY DEF TypeOK
  <1>2. CASE j # i
    <2>1. Sharing(j)' = Sharing(j)
      BY <1>1, <1>2 DEF Sharing
    <2> QED BY <2>1, <1>2 DEF Shared
  <1>3. CASE j = i
    <2>1. Sharing(j)' = Sharing(j) \ {t} /\ t \in Sharing(j)
      BY <1>1, <1>3 DEF Sharing
    <2>2. Cardinality(Sharing(j) \ {t}) = Cardinality(Sharing(j)) - 1
      BY <2>1, SharingFinite, FS_RemoveElement
    <2> QED BY <2>1, <2>2, <1>3 DEF Shared
  <1> QED BY <1>2, <1>3

-----------------------------------------------------------------------------
(* What the lock invariant gives *)

\* The item that a thread holds has no producer and is not calculating.
LEMMA HeldIsShared ==
    ASSUME IInv, NEW t \in Reader, NEW j \in Item, j \in Held(reader[t])
    PROVE  Producers(j) = {} /\ itemCount[j] >= 1
  <1>1. t \in Sharing(j)
    BY DEF Sharing
  <1>2. FreeOrShared(j)
    BY <1>1 DEF IInv, LockInv, Produced
  <1>3. Shared(j) \in Nat /\ Shared(j) # 0
    BY <1>1, SharingFinite
  <1> QED BY <1>2, <1>3 DEF FreeOrShared, IInv, TypeOK

\* A context that holds the write lock of its result is the only one, and nobody shares it.
LEMMA ProducingIsAlone ==
    ASSUME IInv, NEW c \in Producing
    PROVE  /\ Producers(Result[c]) = {c} /\ Sharing(Result[c]) = {}
           /\ itemCount[Result[c]] = -1
           /\ ctx[c] = "expired" \/ producer[Result[c]] = c
  <1>1. c \in Ctx /\ Result[c] \in Item
    BY AccessAssumption DEF Producing
  <1>2. c \in Producers(Result[c])
    BY DEF Producers
  <1>3. Produced(Result[c])
    BY <1>1, <1>2 DEF IInv, LockInv, FreeOrShared
  <1> QED BY <1>2, <1>3 DEF Produced

\* What contexts do not touch the frames see unchanged.
LEMMA ReadersHoldRoot ==
    ASSUME IInv, NEW t \in Reader, reader[t].pc \in ReadingPc
    PROVE  /\ reader[t].item \in DataItem /\ reader[t].item \in Item
           /\ Root[reader[t].item] \in Held(reader[t])
           /\ Producers(Root[reader[t].item]) = {}
  <1>1. reader[t] \in FrameType /\ FrameOK(t, reader[t])
    BY DEF IInv, TypeOK, FramesOK
  <1>2. NrHeld(reader[t]) \in Nat \ {0}
    <2>1. reader[t].k = Len(Path(reader[t].item))
      BY <1>1 DEF FrameOK
    <2> QED BY <2>1, <1>1, PathFacts DEF NrHeld, FrameType
  <1>3. Root[reader[t].item] \in Item
    BY <1>1, AccessAssumption DEF FrameType
  <1> QED BY <1>1, <1>2, <1>3, RootHeld, HeldIsShared DEF FrameOK, FrameType

-----------------------------------------------------------------------------
(* Steps of a reader that touch neither locks nor data *)

AbsReaders == [i \in DataItem |-> Users(i)]
AbsProducers == [i \in DataItem |-> Producers(Root[i])]
AbsVars == <<Contents, AbsReaders, AbsProducers>>
AbsStep == Abstract!Next \/ UNCHANGED AbsVars

\* The interest that the frame of a thread stands for stays, or the thread holds it as well.
StaysInterested(t, f) ==
    \/ reader[t].pc = "idle"
    \/ /\ reader[t].pc # "cleanup" /\ f.pc \notin {"idle", "cleanup"}
       /\ Root[f.item] = Root[reader[t].item]
    \/ reader[t].pc # "cleanup" /\ Root[reader[t].item] \in hold[t]

\* Two threads that refer to one context are not both about to destruct it.
LEMMA DestructKept ==
    ASSUME IInv, NEW t \in Reader, NEW f \in FrameType,
           reader' = [reader EXCEPT ![t] = f], f.pc # "destruct",
           f.ctx # NoCtx => ctx[f.ctx] # "expired"
    PROVE  DestructInv'
  <1>1. \A u \in Reader : reader'[u] = IF u = t THEN f ELSE reader[u]
    BY DEF IInv, TypeOK
  <1>2. \A u \in Reader : At(u, "destruct") => reader[u].ctx # NoCtx /\ ctx[reader[u].ctx] = "expired"
    BY DEF IInv, FramesOK, FrameOK, At
  <1> QED BY <1>1, <1>2 DEF IInv, DestructInv, At

\* Users of data do not change when a frame that does not use data becomes another such frame.
LEMMA UsersKept ==
    ASSUME TypeOK, NEW t \in Reader, NEW f \in FrameType,
           reader' = [reader EXCEPT ![t] = f], f.pc # "use", reader[t].pc # "use", NEW i
    PROVE  Users(i)' = Users(i)
  <1>1. \A u \in Reader : reader'[u] = IF u = t THEN f ELSE reader[u]
    BY DEF TypeOK
  <1> QED BY <1>1 DEF Users, At

LEMMA OrphanKept ==
    ASSUME IInv, NEW t \in Reader, NEW f \in FrameType,
           reader' = [reader EXCEPT ![t] = f], StaysInterested(t, f), UNCHANGED hold,
           \A i \in Item : data'[i] => data[i],
           \A c \in Ctx : ctx[c] # "none" => ctx'[c] # "none"
    PROVE  NoOrphanData'
  <1>1. \A u \in Reader : reader'[u] = IF u = t THEN f ELSE reader[u]
    BY DEF IInv, TypeOK
  <1> SUFFICES ASSUME NEW i \in Item, data'[i]
               PROVE  (Interested(Root[i]) \/ \E u \in Reader :
                           At(u, "cleanup") /\ Root[reader[u].item] = Root[i])'
    BY DEF NoOrphanData
  <1>2. Interested(Root[i]) \/ \E u \in Reader : At(u, "cleanup") /\ Root[reader[u].item] = Root[i]
    BY DEF IInv, NoOrphanData
  <1>3. CASE Wanted(Root[i]) \/ \E c \in Ctx : Result[c] = Root[i] /\ ctx[c] # "none"
    BY <1>3 DEF Interested, Wanted
  <1>4. CASE \E u \in Reader : Reads(u, Root[i])
    <2>1. PICK u \in Reader : Reads(u, Root[i])
      BY <1>4
    <2>2. CASE u # t
      BY <2>1, <2>2, <1>1 DEF Interested, Reads
    <2>3. CASE u = t
      <3>1. Reads(t, Root[i])' \/ Root[i] \in hold'[t]
        BY <2>1, <2>3, <1>1 DEF Reads, StaysInterested
      <3> QED BY <3>1 DEF Interested, Wanted
    <2> QED BY <2>2, <2>3
  <1>5. CASE \E u \in Reader : At(u, "cleanup") /\ Root[reader[u].item] = Root[i]
    <2>1. PICK u \in Reader : At(u, "cleanup") /\ Root[reader[u].item] = Root[i]
      BY <1>5
    <2>2. u # t
      BY <2>1 DEF StaysInterested, At
    <2> QED BY <2>1, <2>2, <1>1 DEF At
  <1> QED BY <1>2, <1>3, <1>4, <1>5 DEF Interested

\* A frame moves on, and may lock or unlock an item.
LEMMA MoveLocks ==
    ASSUME IInv, NEW t \in Reader, NEW f \in FrameType,
           reader' = [reader EXCEPT ![t] = f],
           UNCHANGED <<ctx, link, failed, producer, data, dataLock, hold, actorLock>>,
           itemCount' \in [Item -> Int], LockInv',
           FrameOK(t, f), StaysInterested(t, f),
           f.pc \notin {"use", "destruct"}, reader[t].pc # "use",
           f.ctx # NoCtx => ctx[f.ctx] # "expired"
    PROVE  IInv' /\ UNCHANGED AbsVars
  <1>1. \A u \in Reader : reader'[u] = IF u = t THEN f ELSE reader[u]
    BY DEF IInv, TypeOK
  <1>2. TypeOK'
    BY DEF IInv, TypeOK
  <1>3. FramesOK'
    BY <1>1 DEF IInv, FramesOK, FrameOK
  <1>4. DestructInv'
    BY DestructKept
  <1>5. \A j : Producers(j)' = Producers(j)
    BY DEF Producers, Producing
  <1>7. LinkInv' /\ ContentInv'
    BY DEF IInv, LinkInv, ContentInv
  <1>8. \A i : Users(i)' = Users(i)
    BY UsersKept DEF IInv
  <1>9. DataInv'
    BY <1>8 DEF IInv, DataInv, Writers
  <1>10. NoOrphanData'
    BY OrphanKept
  <1>11. UNCHANGED AbsVars
    BY <1>5, <1>8 DEF AbsVars, AbsReaders, AbsProducers, Contents
  <1> QED BY <1>2, <1>3, <1>4, <1>7, <1>9, <1>10, <1>11 DEF IInv

\* A frame that does not lock more leaves the lock invariant as it is.
LEMMA LockKept ==
    ASSUME IInv, NEW t \in Reader, NEW f \in FrameType,
           reader' = [reader EXCEPT ![t] = f], UNCHANGED <<ctx, itemCount, producer>>,
           Held(f) \subseteq Held(reader[t])
    PROVE  LockInv'
  <1>5. \A j : Producers(j)' = Producers(j)
    BY DEF Producers, Producing
  <1> SUFFICES ASSUME NEW j \in Item PROVE (FreeOrShared(j) \/ Produced(j))'
    BY DEF LockInv
  <1>1. FreeOrShared(j) \/ Produced(j)
    BY DEF IInv, LockInv
  <1>2. Sharing(j)' \subseteq Sharing(j) /\ Shared(j)' \in Nat /\ Shared(j)' <= Shared(j)
    BY SharingShrinks DEF IInv
  <1>3. itemCount[j] \in Int /\ Shared(j) \in Nat
    BY SharingFinite DEF IInv, TypeOK
  <1>4. CASE FreeOrShared(j)
    BY <1>4, <1>2, <1>3, <1>5 DEF FreeOrShared
  <1>6. CASE Produced(j)
    BY <1>6, <1>2, <1>5 DEF Produced
  <1> QED BY <1>1, <1>4, <1>6

\* A frame moves on; everything else stays.
LEMMA Move ==
    ASSUME IInv, NEW t \in Reader, NEW f \in FrameType,
           reader' = [reader EXCEPT ![t] = f],
           UNCHANGED <<ctx, link, failed, itemCount, producer, data, dataLock, hold, actorLock>>,
           FrameOK(t, f), Held(f) \subseteq Held(reader[t]), StaysInterested(t, f),
           f.pc \notin {"use", "destruct"}, reader[t].pc # "use",
           f.ctx # NoCtx => ctx[f.ctx] # "expired"
    PROVE  IInv' /\ UNCHANGED AbsVars
  <1>1. LockInv'
    BY LockKept
  <1>2. itemCount' \in [Item -> Int]
    BY DEF IInv, TypeOK
  <1> QED BY <1>1, <1>2, MoveLocks

\* What is known of the frame of a thread.
LEMMA FrameKnown ==
    ASSUME IInv, NEW t \in Reader
    PROVE  /\ reader[t] \in FrameType /\ FrameOK(t, reader[t])
           /\ reader[t].item \in Item /\ Root[reader[t].item] \in Item
           /\ Root[Root[reader[t].item]] = Root[reader[t].item]
           /\ Len(Path(reader[t].item)) \in 1..2
           /\ reader[t].k \in 0..2 /\ NrHeld(reader[t]) \in 0..Len(Path(reader[t].item))
  <1>1. reader[t] \in FrameType /\ FrameOK(t, reader[t])
    BY DEF IInv, TypeOK, FramesOK
  <1>2. reader[t].item \in Item /\ reader[t].k \in 0..2
    BY <1>1 DEF FrameType
  <1>3. Len(Path(reader[t].item)) \in 1..2
    BY <1>2, PathFacts
  <1>4. NrHeld(reader[t]) \in 0..Len(Path(reader[t].item))
    BY <1>1, <1>2, <1>3 DEF NrHeld, FrameOK
  <1> QED BY <1>1, <1>2, <1>3, <1>4, AccessAssumption

\* A frame that goes to another place with the same item, locks and context.
LEMMA MoveOn ==
    ASSUME IInv, NEW t \in Reader, NEW f \in FrameType,
           reader' = [reader EXCEPT ![t] = f],
           UNCHANGED <<ctx, link, failed, itemCount, producer, data, dataLock, hold, actorLock>>,
           FrameOK(t, f), f.item = reader[t].item, NrHeld(f) \in {0, NrHeld(reader[t])},
           reader[t].pc \notin {"cleanup", "use"},
           f.pc \notin {"idle", "cleanup", "use", "destruct"},
           f.ctx # NoCtx => ctx[f.ctx] # "expired"
    PROVE  IInv' /\ UNCHANGED AbsVars
  <1>1. Held(f) \subseteq Held(reader[t])
    <2>1. CASE NrHeld(f) = NrHeld(reader[t])
      BY <2>1 DEF Held
    <2>2. CASE NrHeld(f) = 0
      <3>1. 1..NrHeld(f) = {}
        BY <2>2
      <3> QED BY <3>1 DEF Held
    <2> QED BY <2>1, <2>2
  <1>2. StaysInterested(t, f)
    BY DEF StaysInterested
  <1> QED BY <1>1, <1>2, Move

LEMMA GiveUpStep ==
    ASSUME IInv, NEW t \in Reader, GiveUp(t) PROVE IInv' /\ UNCHANGED AbsVars
  <1> DEFINE f == Idle(reader[t].item)
  <1>1. reader[t] \in FrameType /\ FrameOK(t, reader[t]) /\ reader[t].pc = "called"
    BY FrameKnown DEF GiveUp, At
  <1>2. f \in FrameType /\ f.pc = "idle" /\ f.ctx = NoCtx
    BY <1>1 DEF FrameType, Idle, Frame, Place
  <1>3. FrameOK(t, f)
    BY <1>2 DEF FrameOK, LockingPc, ReadingPc
  <1>4. Held(f) = {}
    BY <1>2, HeldNothing DEF LockingPc, ReadingPc
  <1>5. StaysInterested(t, f)
    BY <1>1 DEF StaysInterested, FrameOK
  <1> HIDE DEF f
  <1>6. reader' = [reader EXCEPT ![t] = f]
    BY DEF GiveUp, f
  <1>7. UNCHANGED <<ctx, link, failed, itemCount, producer, data, dataLock, hold, actorLock>>
    BY DEF GiveUp, ctxVars, lockVars, dataVars
  <1> QED BY <1>1, <1>2, <1>3, <1>4, <1>5, <1>6, <1>7, Move

\* The positions of a path that come before and after k.
LEMMA Positions ==
    ASSUME NEW len \in 1..2, NEW k \in 1..len
    PROVE  /\ k \in 1..2 /\ k - 1 \in 0..2 /\ k - 1 \in 0..len
           /\ IF k < len THEN k + 1 \in 0..2 /\ k + 1 \in 1..len ELSE k = len
  OBVIOUS

\* The fields of a frame that goes to another place of its path.
LEMMA Reframed ==
    ASSUME NEW f \in FrameType, NEW p \in Place, NEW n \in 0..2
    PROVE  /\ AtNode(f, p, n) \in FrameType
           /\ AtNode(f, p, n).pc = p /\ AtNode(f, p, n).k = n
           /\ AtNode(f, p, n).item = f.item /\ AtNode(f, p, n).ctx = f.ctx
  BY DEF FrameType, AtNode, Frame

LEMMA StartReadStep ==
    ASSUME IInv, NEW t \in Reader, StartRead(t) PROVE IInv' /\ UNCHANGED AbsVars
  <1> DEFINE f == AtNode(reader[t], "peek", 1)
  <1>1. /\ reader[t] \in FrameType /\ FrameOK(t, reader[t]) /\ reader[t].pc = "called"
        /\ Len(Path(reader[t].item)) \in 1..2
    BY FrameKnown DEF StartRead, At
  <1>5. reader[t].ctx = NoCtx /\ reader[t].item \in DataItem
    BY <1>1 DEF FrameOK
  <1>10. Len(Path(reader[t].item)) \in 1..2
    BY <1>1
  <1>8. 1 \in 0..2 /\ 1 \in 1..Len(Path(reader[t].item))
    BY <1>10
  <1>9. "peek" \in Place
    BY DEF Place
  <1>2. f \in FrameType /\ f.pc = "peek" /\ f.ctx = NoCtx /\ f.k = 1 /\ f.item = reader[t].item
    BY <1>1, <1>5, <1>8, <1>9, Reframed
  <1>6. reader' = [reader EXCEPT ![t] = f]
    BY DEF StartRead, f, IInv, TypeOK
  <1> HIDE DEF f
  <1>3. FrameOK(t, f)
    BY <1>2, <1>5, <1>8 DEF FrameOK, LockingPc, ReadingPc
  <1>4. NrHeld(f) = 0
    BY <1>2 DEF NrHeld, LockingPc, ReadingPc
  <1>7. UNCHANGED <<ctx, link, failed, itemCount, producer, data, dataLock, hold, actorLock>>
    BY DEF StartRead, ctxVars, lockVars, dataVars
  <1> QED BY <1>1, <1>2, <1>3, <1>4, <1>6, <1>7, MoveOn

LEMMA PeekStep ==
    ASSUME IInv, NEW t \in Reader, Peek(t) PROVE IInv' /\ UNCHANGED AbsVars
  <1> DEFINE j == Node(t)
             found == itemCount[j] < 0 /\ producer[j] # NoCtx
             f == IF found THEN [reader[t] EXCEPT !.pc = "join", !.ctx = producer[j]]
                  ELSE [reader[t] EXCEPT !.pc = "count"]
  <1>1. /\ reader[t] \in FrameType /\ FrameOK(t, reader[t]) /\ reader[t].pc = "peek"
        /\ Len(Path(reader[t].item)) \in 1..2 /\ reader[t].item \in Item
    BY FrameKnown DEF Peek, At
  <1>2. reader[t].k \in 1..Len(Path(reader[t].item)) /\ reader[t].ctx = NoCtx
    BY <1>1 DEF FrameOK, LockingPc
  <1>3. j \in Item
    BY <1>1, <1>2, PathFacts DEF Node
  <1> HIDE DEF j
  <1>4. found => producer[j] \in Ctx /\ ctx[producer[j]] \notin {"none", "expired"}
    BY <1>3 DEF IInv, LinkInv, TypeOK
  <1>5. /\ f \in FrameType /\ f.k = reader[t].k /\ f.item = reader[t].item
        /\ f.pc \in {"join", "count"} /\ (f.ctx = NoCtx <=> f.pc # "join")
        /\ f.ctx # NoCtx => ctx[f.ctx] \notin {"none", "expired"}
    BY <1>1, <1>2, <1>4 DEF FrameType, Place
  <1> HIDE DEF f
  <1>6. FrameOK(t, f)
    BY <1>1, <1>2, <1>5 DEF FrameOK, LockingPc, ReadingPc
  <1>7. NrHeld(f) = NrHeld(reader[t])
    BY <1>1, <1>5 DEF NrHeld, LockingPc, ReadingPc
  <1>8. reader' = [reader EXCEPT ![t] = f]
    BY DEF Peek, f, j, IInv, TypeOK
  <1>9. UNCHANGED <<ctx, link, failed, itemCount, producer, data, dataLock, hold, actorLock>>
    BY DEF Peek, ctxVars, lockVars, dataVars
  <1> QED BY <1>1, <1>5, <1>6, <1>7, <1>8, <1>9, MoveOn

\* Join returned, or operations were counted: the same locks, and no context.
LEMMA JoinCountStep ==
    ASSUME IInv, NEW t \in Reader, JoinReturns(t) \/ CountRunning(t)
    PROVE  IInv' /\ UNCHANGED AbsVars
  <1> DEFINE f == IF At(t, "join") THEN [reader[t] EXCEPT !.pc = "count", !.ctx = NoCtx]
                  ELSE [reader[t] EXCEPT !.pc = "lock", !.none = (Running = {})]
  <1>1. /\ reader[t] \in FrameType /\ FrameOK(t, reader[t]) /\ reader[t].pc \in {"join", "count"}
        /\ Len(Path(reader[t].item)) \in 1..2 /\ reader[t].item \in Item
    BY FrameKnown DEF JoinReturns, CountRunning, At
  <1>2. reader[t].pc = "count" => reader[t].ctx = NoCtx
    BY <1>1 DEF FrameOK
  <1>3. /\ f \in FrameType /\ f.k = reader[t].k /\ f.item = reader[t].item
        /\ f.pc \in {"count", "lock"} /\ f.ctx = NoCtx
    BY <1>1, <1>2 DEF FrameType, Place, At
  <1>4. reader' = [reader EXCEPT ![t] = f]
    BY DEF JoinReturns, CountRunning, At, IInv, TypeOK
  <1> HIDE DEF f
  <1>5. FrameOK(t, f)
    BY <1>1, <1>3 DEF FrameOK, LockingPc, ReadingPc
  <1>6. NrHeld(f) = NrHeld(reader[t])
    BY <1>1, <1>3 DEF NrHeld, LockingPc, ReadingPc
  <1>7. UNCHANGED <<ctx, link, failed, itemCount, producer, data, dataLock, hold, actorLock>>
    BY DEF JoinReturns, CountRunning, ctxVars, lockVars, dataVars
  <1> QED BY <1>1, <1>3, <1>4, <1>5, <1>6, <1>7, MoveOn

LEMMA DeadlockStep ==
    ASSUME IInv, NEW t \in Reader, Deadlock(t) PROVE IInv' /\ UNCHANGED AbsVars
  <1> DEFINE n == reader[t].k - 1
             f == AtNode(reader[t], "free", n)
  <1>1. /\ reader[t] \in FrameType /\ FrameOK(t, reader[t]) /\ reader[t].pc = "deadlock"
        /\ Len(Path(reader[t].item)) \in 1..2 /\ reader[t].item \in Item
    BY FrameKnown DEF Deadlock, At
  <1>8. reader[t].k \in 1..Len(Path(reader[t].item)) /\ reader[t].ctx = NoCtx
    BY <1>1 DEF FrameOK, LockingPc
  <1>2. reader[t].k \in 1..2 /\ n \in 0..2 /\ n \in 0..Len(Path(reader[t].item))
    BY <1>1, <1>8, Positions
  <1>9. reader' = [reader EXCEPT ![t] = f]
    BY DEF Deadlock, IInv, TypeOK
  <1> HIDE DEF n
  <1>3. /\ f \in FrameType /\ f.k = n /\ f.item = reader[t].item
        /\ f.pc = "free" /\ f.ctx = NoCtx
    <2>1. "free" \in Place
      BY DEF Place
    <2> QED BY SMTT(30), <1>1, <1>2, <1>8, <2>1, Reframed
  <1>4. reader' = [reader EXCEPT ![t] = f]
    BY <1>9
  <1> HIDE DEF f
  <1>5. FrameOK(t, f)
    BY <1>1, <1>2, <1>3 DEF FrameOK, LockingPc, ReadingPc
  <1>6. NrHeld(f) = NrHeld(reader[t])
    BY <1>1, <1>3 DEF NrHeld, LockingPc, ReadingPc, n
  <1>7. UNCHANGED <<ctx, link, failed, itemCount, producer, data, dataLock, hold, actorLock>>
    BY DEF Deadlock, ctxVars, lockVars, dataVars
  <1> QED BY <1>1, <1>3, <1>4, <1>5, <1>6, <1>7, MoveOn

\* The locks of a read that throws in Check are lost, not given back: it holds nothing then.
LEMMA CheckStep ==
    ASSUME IInv, NEW t \in Reader, Check(t) PROVE IInv' /\ UNCHANGED AbsVars
  <1> DEFINE ready == data[reader[t].item] \/ failed[Root[reader[t].item]]
             f == [reader[t] EXCEPT !.pc = IF ready THEN "open" ELSE "letgo"]
  <1>1. /\ reader[t] \in FrameType /\ FrameOK(t, reader[t]) /\ reader[t].pc = "check"
        /\ Len(Path(reader[t].item)) \in 1..2 /\ reader[t].item \in Item
    BY FrameKnown DEF Check, At
  <1>2. reader[t].k = Len(Path(reader[t].item)) /\ reader[t].ctx = NoCtx
    BY <1>1 DEF FrameOK, ReadingPc
  <1>3. /\ f \in FrameType /\ f.k = reader[t].k /\ f.item = reader[t].item
        /\ f.pc \in {"open", "letgo"} /\ f.ctx = NoCtx /\ (f.pc = "open" => ready)
    BY <1>1, <1>2 DEF FrameType, Place
  <1>4. reader' = [reader EXCEPT ![t] = f]
    BY DEF Check, Goto, IInv, TypeOK
  <1> HIDE DEF f
  <1>5. FrameOK(t, f)
    BY <1>1, <1>2, <1>3 DEF FrameOK, LockingPc, ReadingPc
  <1>6. NrHeld(f) \in {0, NrHeld(reader[t])}
    BY <1>1, <1>3 DEF NrHeld, LockingPc, ReadingPc
  <1>7. UNCHANGED <<ctx, link, failed, itemCount, producer, data, dataLock, hold, actorLock>>
    BY DEF Check, ctxVars, lockVars, dataVars
  <1> QED BY <1>1, <1>3, <1>4, <1>5, <1>6, <1>7, MoveOn

-----------------------------------------------------------------------------
(* Shared locks *)

\* The lock is granted: one more holds the item, and the count goes up with it.
LEMMA GrantedStep ==
    ASSUME IInv, NEW t \in Reader, reader[t].pc \in {"lock", "wait"}, itemCount[Node(t)] >= 0,
           Granted(t), UNCHANGED <<ctxVars, producer, dataVars, hold, actorLock>>
    PROVE  IInv' /\ UNCHANGED AbsVars
  <1> DEFINE len == Len(Path(reader[t].item))
             j == Node(t)
             k == reader[t].k
             f == IF k < len THEN AtNode(reader[t], "peek", k + 1)
                             ELSE AtNode(reader[t], "check", k)
  <1>1. /\ reader[t] \in FrameType /\ FrameOK(t, reader[t]) /\ reader[t].item \in Item
        /\ len \in 1..2
    BY FrameKnown
  <1>2. k \in 1..len /\ reader[t].ctx = NoCtx /\ reader[t].item \in DataItem
    BY <1>1 DEF FrameOK, LockingPc
  <1>3. k \in 0..2 /\ IF k < len THEN k + 1 \in 0..2 /\ k + 1 \in 1..len ELSE k = len
    <2>1. k \in 0..2
      BY <1>1 DEF FrameType
    <2> QED BY <2>1, <1>1, <1>2, Positions
  <1>4. "peek" \in Place /\ "check" \in Place
    BY DEF Place
  <1>5. /\ f \in FrameType /\ f.item = reader[t].item /\ f.ctx = NoCtx
        /\ IF k < len THEN f.pc = "peek" /\ f.k = k + 1 ELSE f.pc = "check" /\ f.k = k
    <2>4. reader[t] \in FrameType /\ reader[t].ctx = NoCtx
      BY <1>1, <1>2
    <2>1. \A n \in 0..2 :
             LET g == AtNode(reader[t], "peek", n)
             IN  g \in FrameType /\ g.item = reader[t].item /\ g.ctx = NoCtx /\ g.pc = "peek" /\ g.k = n
      BY <2>4, <1>4 DEF AtNode, Frame, FrameType
    <2>2. \A n \in 0..2 :
             LET h == AtNode(reader[t], "check", n)
             IN  h \in FrameType /\ h.item = reader[t].item /\ h.ctx = NoCtx /\ h.pc = "check" /\ h.k = n
      BY <2>4, <1>4 DEF AtNode, Frame, FrameType
    <2>5. CASE k < len
      <3>1. k + 1 \in 0..2
        BY <1>3, <2>5
      <3>2. f = AtNode(reader[t], "peek", k + 1)
        BY <2>5
      <3> QED BY <3>1, <3>2, <2>1, <2>5
    <2>6. CASE ~(k < len)
      <3>1. k \in 0..2
        BY <1>3
      <3>2. f = AtNode(reader[t], "check", k)
        BY <2>6
      <3> QED BY <3>1, <3>2, <2>2, <2>6
    <2> QED BY <2>5, <2>6
  <1>6. reader' = [reader EXCEPT ![t] = f]
    BY DEF Granted
  <1>7. j \in Item /\ j = Path(reader[t].item)[k]
    BY <1>1, <1>2, PathFacts DEF Node
  <1>8. itemCount' = [itemCount EXCEPT ![j] = @ + 1] /\ itemCount[j] >= 0
    BY DEF Granted
  <1>20. UNCHANGED <<ctx, link, failed, producer, data, dataLock, hold, actorLock>>
    BY DEF ctxVars, dataVars
  <1> HIDE DEF f, j
  <1>9. FrameOK(t, f)
    BY <1>2, <1>3, <1>5 DEF FrameOK, LockingPc, ReadingPc
  <1>10. NrHeld(reader[t]) = k - 1 /\ NrHeld(f) = k
    BY <1>3, <1>5 DEF NrHeld, LockingPc, ReadingPc
  <1>11. NrHeld(reader[t]) \in Nat /\ NrHeld(f) = NrHeld(reader[t]) + 1 /\ NrHeld(f) <= len
    BY <1>2, <1>1, <1>10
  <1>12. Held(f) = Held(reader[t]) \cup {j} /\ j \notin Held(reader[t])
    BY <1>1, <1>5, <1>7, <1>10, <1>11, HeldGrows
  <1>13. itemCount' \in [Item -> Int]
    BY <1>7, <1>8 DEF IInv, TypeOK
  <1>14. LockInv'
    <2> SUFFICES ASSUME NEW i \in Item PROVE (FreeOrShared(i) \/ Produced(i))'
      BY DEF LockInv
    <2>1. FreeOrShared(i) \/ Produced(i)
      BY DEF IInv, LockInv
    <2>2. Producers(i)' = Producers(i)
      BY <1>20 DEF Producers, Producing
    <2>3. /\ i = j => Shared(i)' = Shared(i) + 1
          /\ i # j => Sharing(i)' = Sharing(i) /\ Shared(i)' = Shared(i)
      BY <1>5, <1>6, <1>12, SharingGrows DEF IInv
    <2>4. Shared(i) \in Nat /\ itemCount[i] \in Int
      BY SharingFinite DEF IInv, TypeOK
    <2>5. itemCount'[i] = IF i = j THEN itemCount[i] + 1 ELSE itemCount[i]
      BY <1>8 DEF IInv, TypeOK
    <2>6. CASE i = j
      <3>1. FreeOrShared(i)
        BY <2>1, <2>4, <2>6, <1>8 DEF Produced
      <3> QED BY <3>1, <2>2, <2>3, <2>4, <2>5, <2>6 DEF FreeOrShared
    <2>7. CASE i # j
      BY <2>7, <2>1, <2>2, <2>3, <2>5, <1>20 DEF FreeOrShared, Produced
    <2> QED BY <2>6, <2>7
  <1>15. StaysInterested(t, f)
    BY <1>5 DEF StaysInterested
  <1> QED BY <1>5, <1>6, <1>9, <1>13, <1>14, <1>15, <1>20, MoveLocks

LEMMA LockStep ==
    ASSUME IInv, NEW t \in Reader, LockShared(t) \/ WaitReturns(t)
    PROVE  IInv' /\ UNCHANGED AbsVars
  <1>1. reader[t].pc \in {"lock", "wait"}
    BY DEF LockShared, WaitReturns, At
  <1>2. UNCHANGED <<ctxVars, producer, dataVars, hold, actorLock>>
    BY DEF LockShared, WaitReturns
  <1>3. CASE itemCount[Node(t)] >= 0
    BY <1>1, <1>2, <1>3, GrantedStep DEF LockShared, WaitReturns
  <1>4. CASE ~(itemCount[Node(t)] >= 0)
    <2> DEFINE p == IF reader[t].pc = "wait" THEN "count"
                    ELSE IF reader[t].none THEN "deadlock" ELSE "wait"
               f == [reader[t] EXCEPT !.pc = p]
    <2>1. reader[t] \in FrameType /\ FrameOK(t, reader[t])
      BY FrameKnown
    <2>2. reader[t].k \in 1..Len(Path(reader[t].item)) /\ reader[t].ctx = NoCtx
      BY <1>1, <2>1 DEF FrameOK, LockingPc
    <2>3. /\ f \in FrameType /\ f.k = reader[t].k /\ f.item = reader[t].item
          /\ f.pc \in {"count", "deadlock", "wait"} /\ f.ctx = NoCtx
      BY <2>1, <2>2 DEF FrameType, Place
    <2>4. reader' = [reader EXCEPT ![t] = f] /\ UNCHANGED itemCount
      BY <1>1, <1>4 DEF LockShared, WaitReturns, At, Goto, IInv, TypeOK
    <2> HIDE DEF f
    <2>5. FrameOK(t, f)
      BY <1>1, <2>1, <2>2, <2>3 DEF FrameOK, LockingPc, ReadingPc
    <2>6. NrHeld(f) = NrHeld(reader[t])
      BY <1>1, <2>3 DEF NrHeld, LockingPc, ReadingPc
    <2>7. UNCHANGED <<ctx, link, failed, itemCount, producer, data, dataLock, hold, actorLock>>
      BY <1>2, <2>4 DEF ctxVars, dataVars
    <2> QED BY <1>1, <2>3, <2>4, <2>5, <2>6, <2>7, MoveOn
  <1> QED BY <1>3, <1>4

LEMMA FreeReadStep ==
    ASSUME IInv, NEW t \in Reader, FreeRead(t) PROVE IInv' /\ UNCHANGED AbsVars
  <1> DEFINE len == Len(Path(reader[t].item))
             j == Node(t)
             k == reader[t].k
  <1>1. /\ reader[t] \in FrameType /\ FrameOK(t, reader[t]) /\ reader[t].item \in Item
        /\ len \in 1..2 /\ k \in 0..2 /\ reader[t].pc = "free"
    BY FrameKnown DEF FreeRead, At
  <1>2. k \in 0..len /\ reader[t].ctx = NoCtx
    BY <1>1 DEF FrameOK
  <1>3. UNCHANGED <<ctx, link, failed, producer, data, dataLock, hold, actorLock>>
    BY DEF FreeRead, ctxVars, dataVars
  <1>4. CASE k = 0
    <2> DEFINE f == [reader[t] EXCEPT !.pc = "letgo"]
    <2>1. f \in FrameType /\ f.k = k /\ f.item = reader[t].item /\ f.pc = "letgo" /\ f.ctx = NoCtx
      BY <1>1, <1>2 DEF FrameType, Place
    <2>2. reader' = [reader EXCEPT ![t] = f] /\ UNCHANGED itemCount
      BY <1>4 DEF FreeRead, Goto, IInv, TypeOK
    <2> HIDE DEF f
    <2>3. FrameOK(t, f)
      BY <2>1 DEF FrameOK, LockingPc, ReadingPc
    <2>4. NrHeld(f) = 0
      BY <2>1 DEF NrHeld, LockingPc, ReadingPc
    <2> QED BY <1>1, <1>3, <2>1, <2>2, <2>3, <2>4, MoveOn
  <1>5. CASE k # 0
    <2> DEFINE f == AtNode(reader[t], "free", k - 1)
    <2>1. k \in 1..len
      BY <1>1, <1>2, <1>5
    <2>2. k - 1 \in 0..2 /\ k - 1 \in 0..len
      BY <1>1, <2>1, Positions
    <2>3. "free" \in Place
      BY DEF Place
    <2>4. /\ f \in FrameType /\ f.k = k - 1 /\ f.item = reader[t].item
          /\ f.pc = "free" /\ f.ctx = NoCtx
      <3> DEFINE n == k - 1
      <3>1. n \in 0..2 /\ reader[t] \in FrameType /\ reader[t].ctx = NoCtx
        BY <1>1, <1>2, <2>2
      <3> HIDE DEF n, k
      <3>2. /\ AtNode(reader[t], "free", n) \in FrameType
            /\ AtNode(reader[t], "free", n).k = n
            /\ AtNode(reader[t], "free", n).item = reader[t].item
            /\ AtNode(reader[t], "free", n).pc = "free"
            /\ AtNode(reader[t], "free", n).ctx = NoCtx
        BY <3>1, <2>3 DEF AtNode, Frame, FrameType
      <3> QED BY <3>2 DEF n
    <2>5. /\ reader' = [reader EXCEPT ![t] = f]
          /\ itemCount' = [itemCount EXCEPT ![j] = @ - 1]
      BY <1>5 DEF FreeRead, IInv, TypeOK
    <2>6. j \in Item /\ j = Path(reader[t].item)[k]
      BY <1>1, <2>1, PathFacts DEF Node
    <2> HIDE DEF f, j
    <2>7. FrameOK(t, f)
      BY <2>2, <2>4 DEF FrameOK, LockingPc, ReadingPc
    <2>8. NrHeld(reader[t]) = k /\ NrHeld(f) = k - 1
      BY <1>1, <2>4 DEF NrHeld, LockingPc, ReadingPc
    <2>9. NrHeld(f) \in Nat /\ NrHeld(reader[t]) = NrHeld(f) + 1 /\ NrHeld(reader[t]) <= len
      BY <1>1, <2>1, <2>8
    <2>10. Held(reader[t]) = Held(f) \cup {j} /\ j \notin Held(f)
      BY <1>1, <2>4, <2>6, <2>8, <2>9, HeldGrows
    <2>11. Producers(j) = {}
      BY <2>6, <2>10, HeldIsShared
    <2>12. itemCount' \in [Item -> Int]
      BY <2>6, <2>5 DEF IInv, TypeOK
    <2>13. LockInv'
      <3> SUFFICES ASSUME NEW i \in Item PROVE (FreeOrShared(i) \/ Produced(i))'
        BY DEF LockInv
      <3>1. FreeOrShared(i) \/ Produced(i)
        BY DEF IInv, LockInv
      <3>2. Producers(i)' = Producers(i)
        BY <1>3 DEF Producers, Producing
      <3>3. /\ i = j => Shared(i)' = Shared(i) - 1
            /\ i # j => Sharing(i)' = Sharing(i) /\ Shared(i)' = Shared(i)
        BY <2>4, <2>5, <2>10, SharingLoses DEF IInv
      <3>4. Shared(i) \in Nat /\ itemCount[i] \in Int
        BY SharingFinite DEF IInv, TypeOK
      <3>5. itemCount'[i] = IF i = j THEN itemCount[i] - 1 ELSE itemCount[i]
        BY <2>5 DEF IInv, TypeOK
      <3>6. CASE i = j
        BY <3>1, <3>2, <3>3, <3>4, <3>5, <3>6, <2>11 DEF FreeOrShared, Produced
      <3>7. CASE i # j
        BY <3>7, <3>1, <3>2, <3>3, <3>5, <1>3 DEF FreeOrShared, Produced
      <3> QED BY <3>6, <3>7
    <2>14. StaysInterested(t, f)
      BY <1>1, <2>4 DEF StaysInterested
    <2> QED BY <1>1, <1>3, <2>4, <2>5, <2>7, <2>12, <2>13, <2>14, MoveLocks
  <1> QED BY <1>4, <1>5

-----------------------------------------------------------------------------
(* Data locks *)

LEMMA UsersBounded ==
    ASSUME NEW i
    PROVE  /\ IsFiniteSet(Users(i)) /\ Cardinality(Users(i)) \in 0..Cardinality(Reader)
           /\ IsFiniteSet(Users(i)') /\ Cardinality(Users(i)') \in 0..Cardinality(Reader)
           /\ Cardinality(Reader) \in Nat
  <1>1. Users(i) \subseteq Reader /\ Users(i)' \subseteq Reader
    BY DEF Users
  <1> QED BY <1>1, FiniteReader, FS_Subset, FS_CardinalityType

\* A frame that begins or ends to use data; the data lock follows.
LEMMA MoveData ==
    ASSUME IInv, NEW t \in Reader, NEW f \in FrameType,
           reader' = [reader EXCEPT ![t] = f],
           UNCHANGED <<ctx, link, failed, itemCount, producer, data, hold, actorLock>>,
           NEW i \in Item, NEW n \in Int, dataLock' = [dataLock EXCEPT ![i] = n], DataInv',
           FrameOK(t, f), Held(f) \subseteq Held(reader[t]), StaysInterested(t, f),
           f.pc # "destruct", f.ctx = NoCtx
    PROVE  IInv'
  <1>1. \A u \in Reader : reader'[u] = IF u = t THEN f ELSE reader[u]
    BY DEF IInv, TypeOK
  <1>2. TypeOK'
    <2>1. dataLock'[i] \in -1..Cardinality(Reader)
      <3>1. dataLock'[i] = IF (Writers(i) = {})' THEN Cardinality(Users(i)') ELSE -1
        BY DEF DataInv
      <3>2. Cardinality(Users(i)') \in 0..Cardinality(Reader) /\ Cardinality(Reader) \in Nat
        BY UsersBounded
      <3> QED BY <3>1, <3>2
    <2>2. dataLock' \in [Item -> -1..Cardinality(Reader)]
      BY <2>1 DEF IInv, TypeOK
    <2> QED BY <2>2 DEF IInv, TypeOK
  <1>3. FramesOK'
    BY <1>1 DEF IInv, FramesOK, FrameOK
  <1>4. DestructInv'
    BY DestructKept
  <1>5. LockInv'
    BY LockKept
  <1>6. LinkInv' /\ ContentInv'
    BY DEF IInv, LinkInv, ContentInv
  <1>7. NoOrphanData'
    BY OrphanKept
  <1> QED BY <1>2, <1>3, <1>4, <1>5, <1>6, <1>7 DEF IInv

LEMMA OpenStep ==
    ASSUME IInv, NEW t \in Reader, Open(t) \/ OpenFirst(t) PROVE IInv' /\ AbsStep
  <1> DEFINE i == reader[t].item
  <1>1. /\ reader[t] \in FrameType /\ FrameOK(t, reader[t]) /\ reader[t].pc \in {"open", "openFirst"}
        /\ Root[i] \in Item
    BY FrameKnown DEF Open, OpenFirst, At
  <1>2. /\ i \in DataItem /\ i \in Item /\ Producers(Root[i]) = {}
        /\ reader[t].k = Len(Path(i)) /\ reader[t].ctx = NoCtx
    BY <1>1, ReadersHoldRoot DEF FrameOK, ReadingPc
  <1>3. UNCHANGED <<ctx, link, failed, itemCount, producer, data, hold, actorLock>>
    BY DEF Open, OpenFirst, ctxVars, lockVars
  <1>4. CASE UNCHANGED dataLock
    <2>1. PICK p \in {"free", "openFirst"} :
             /\ reader' = [reader EXCEPT ![t].pc = p]
             /\ p = "openFirst" => ~failed[Root[i]]
      <3>1. dataLock[i] \in Int /\ dataLock \in [Item -> -1..Cardinality(Reader)]
        BY <1>2, UsersBounded DEF IInv, TypeOK
      <3>2. dataLock' # [dataLock EXCEPT ![i] = @ + 1]
        BY <1>2, <1>4, <3>1
      <3> QED BY <3>2 DEF Open, OpenFirst, Goto, At
    <2> DEFINE f == [reader[t] EXCEPT !.pc = p]
    <2>2. /\ f \in FrameType /\ f.item = i /\ f.k = reader[t].k /\ f.pc = p /\ f.ctx = NoCtx
      BY <1>1, <1>2 DEF FrameType, Place
    <2>3. reader' = [reader EXCEPT ![t] = f]
      BY <2>1 DEF IInv, TypeOK
    <2> HIDE DEF f
    <2>4. p = "openFirst" => data[i]
      BY <1>1, <2>1 DEF FrameOK
    <2>5. Len(Path(i)) \in 0..Len(Path(i))
      BY <1>2, PathFacts
    <2>6. FrameOK(t, f)
      BY <1>2, <2>2, <2>4, <2>5 DEF FrameOK, LockingPc, ReadingPc
    <2>7. NrHeld(f) = NrHeld(reader[t])
      BY <1>1, <2>2 DEF NrHeld, LockingPc, ReadingPc
    <2> QED BY <1>1, <1>3, <1>4, <2>1, <2>2, <2>3, <2>6, <2>7, MoveOn DEF AbsStep
  <1>5. CASE dataLock' = [dataLock EXCEPT ![i] = @ + 1] /\ Goto(t, "use") /\ dataLock[i] >= 0
                 /\ (reader[t].pc = "open" => ~failed[Root[i]])
    <2> DEFINE f == [reader[t] EXCEPT !.pc = "use"]
    <2>2. /\ f \in FrameType /\ f.item = i /\ f.k = reader[t].k /\ f.pc = "use" /\ f.ctx = NoCtx
      BY <1>1, <1>2 DEF FrameType, Place
    <2>3. reader' = [reader EXCEPT ![t] = f]
      BY <1>5 DEF Goto, IInv, TypeOK
    <2> HIDE DEF f
    <2>4. data[i]
      BY <1>1, <1>5 DEF FrameOK
    <2>5. FrameOK(t, f)
      BY <1>2, <2>2, <2>4 DEF FrameOK, LockingPc, ReadingPc
    <2>6. NrHeld(f) = NrHeld(reader[t])
      BY <1>1, <2>2 DEF NrHeld, LockingPc, ReadingPc
    <2>7. Held(f) \subseteq Held(reader[t])
      BY <2>2, <2>6 DEF Held
    <2>8. StaysInterested(t, f)
      BY <1>1, <2>2 DEF StaysInterested
    <2>9. \A u \in Reader : reader'[u] = IF u = t THEN f ELSE reader[u]
      BY <2>3 DEF IInv, TypeOK
    <2>10. \A j : Users(j)' = IF j = i THEN Users(i) \cup {t} ELSE Users(j)
      BY <1>1, <2>2, <2>9 DEF Users, At
    <2>11. \A j : Writers(j)' = Writers(j)
      BY <1>3 DEF Writers
    <2>12. t \notin Users(i)
      BY <1>1 DEF Users, At
    <2>13. DataInv'
      <3> SUFFICES ASSUME NEW j \in Item
                   PROVE  (dataLock[j] = IF Writers(j) = {} THEN Cardinality(Users(j)) ELSE -1)'
        BY DEF DataInv
      <3>1. dataLock[j] = IF Writers(j) = {} THEN Cardinality(Users(j)) ELSE -1
        BY DEF IInv, DataInv
      <3>2. CASE j = i
        <4>1. Writers(i) = {} /\ dataLock[i] = Cardinality(Users(i))
          BY <3>1, <3>2, <1>5
        <4>2. Cardinality(Users(i) \cup {t}) = Cardinality(Users(i)) + 1
          BY <2>12, UsersBounded, FS_AddElement
        <4>3. dataLock'[i] = dataLock[i] + 1
          BY <1>2, <1>5 DEF IInv, TypeOK
        <4> QED BY <3>2, <4>1, <4>2, <4>3, <2>10, <2>11
      <3>3. CASE j # i
        <4>1. dataLock'[j] = dataLock[j]
          BY <3>3, <1>5 DEF IInv, TypeOK
        <4> QED BY <3>1, <3>3, <4>1, <2>10, <2>11
      <3> QED BY <3>2, <3>3
    <2>14. dataLock[i] + 1 \in Int
      BY <1>2, UsersBounded DEF IInv, TypeOK
    <2>15. IInv'
      BY <1>2, <1>3, <1>5, <2>2, <2>3, <2>5, <2>7, <2>8, <2>13, <2>14, MoveData
    <2>16. Abstract!BeginRead(t, i)
      <3>1. Contents[i] = "made" /\ UNCHANGED Contents
        BY <1>2, <1>3, <2>4 DEF Contents
      <3>2. \A j : Producers(j)' = Producers(j)
        BY <1>3 DEF Producers, Producing
      <3>3. UNCHANGED AbsProducers /\ AbsProducers[i] = {}
        BY <1>2, <3>2 DEF AbsProducers
      <3>4. AbsReaders' = [AbsReaders EXCEPT ![i] = @ \cup {t}]
        BY <1>2, <2>10 DEF AbsReaders
      <3> QED BY <3>1, <3>3, <3>4 DEF Abstract!BeginRead, AbsReaders, AbsProducers
    <2> QED BY <1>2, <2>15, <2>16 DEF AbsStep, Abstract!Next
  <1>6. dataLock[i] \in Int
    BY <1>2, UsersBounded DEF IInv, TypeOK
  <1> QED BY <1>4, <1>5, <1>6 DEF Open, OpenFirst, At

LEMMA CloseStep ==
    ASSUME IInv, NEW t \in Reader, Close(t) PROVE IInv' /\ AbsStep
  <1> DEFINE i == reader[t].item
             f == [reader[t] EXCEPT !.pc = "free"]
  <1>1. /\ reader[t] \in FrameType /\ FrameOK(t, reader[t]) /\ reader[t].pc = "use"
        /\ i \in Item
    BY FrameKnown DEF Close, At
  <1>2. /\ i \in DataItem /\ reader[t].k = Len(Path(i)) /\ reader[t].ctx = NoCtx
    BY <1>1 DEF FrameOK, ReadingPc
  <1>3. UNCHANGED <<ctx, link, failed, itemCount, producer, data, hold, actorLock>>
    BY DEF Close, ctxVars, lockVars
  <1>4. /\ f \in FrameType /\ f.item = i /\ f.k = reader[t].k /\ f.pc = "free" /\ f.ctx = NoCtx
    BY <1>1, <1>2 DEF FrameType, Place
  <1>5. /\ reader' = [reader EXCEPT ![t] = f]
        /\ dataLock' = [dataLock EXCEPT ![i] = @ - 1]
    BY DEF Close, Goto, IInv, TypeOK
  <1> HIDE DEF f
  <1>6. Len(Path(i)) \in 0..Len(Path(i))
    BY <1>1, PathFacts
  <1>7. FrameOK(t, f)
    BY <1>2, <1>4, <1>6 DEF FrameOK, LockingPc, ReadingPc
  <1>8. NrHeld(f) = NrHeld(reader[t])
    BY <1>1, <1>4 DEF NrHeld, LockingPc, ReadingPc
  <1>9. Held(f) \subseteq Held(reader[t])
    BY <1>4, <1>8 DEF Held
  <1>10. StaysInterested(t, f)
    BY <1>1, <1>4 DEF StaysInterested
  <1>11. \A u \in Reader : reader'[u] = IF u = t THEN f ELSE reader[u]
    BY <1>5 DEF IInv, TypeOK
  <1>12. \A j : Users(j)' = IF j = i THEN Users(i) \ {t} ELSE Users(j)
    BY <1>1, <1>4, <1>11 DEF Users, At
  <1>13. \A j : Writers(j)' = Writers(j) /\ Producers(j)' = Producers(j)
    BY <1>3 DEF Writers, Producers, Producing
  <1>14. t \in Users(i) /\ Writers(i) = {}
    <2>1. t \in Users(i)
      BY <1>1 DEF Users, At
    <2>2. \A c \in Ctx : Target[c] = i => Result[c] = Root[i]
      BY AccessAssumption
    <2>3. Producers(Root[i]) = {}
      BY <1>1, ReadersHoldRoot DEF ReadingPc
    <2> QED BY <2>1, <2>2, <2>3 DEF Writers, Producers, Producing
  <1>15. DataInv'
    <2> SUFFICES ASSUME NEW j \in Item
                 PROVE  (dataLock[j] = IF Writers(j) = {} THEN Cardinality(Users(j)) ELSE -1)'
      BY DEF DataInv
    <2>1. dataLock[j] = IF Writers(j) = {} THEN Cardinality(Users(j)) ELSE -1
      BY DEF IInv, DataInv
    <2>2. CASE j = i
      <3>1. Cardinality(Users(i) \ {t}) = Cardinality(Users(i)) - 1
        BY <1>14, UsersBounded, FS_RemoveElement
      <3>2. dataLock'[i] = dataLock[i] - 1
        BY <1>1, <1>5 DEF IInv, TypeOK
      <3> QED BY <2>1, <2>2, <3>1, <3>2, <1>12, <1>13, <1>14
    <2>3. CASE j # i
      <3>1. dataLock'[j] = dataLock[j]
        BY <2>3, <1>5 DEF IInv, TypeOK
      <3> QED BY <2>1, <2>3, <3>1, <1>12, <1>13
    <2> QED BY <2>2, <2>3
  <1>16. dataLock[i] - 1 \in Int
    BY <1>1, UsersBounded DEF IInv, TypeOK
  <1>17. IInv'
    BY <1>1, <1>3, <1>4, <1>5, <1>7, <1>9, <1>10, <1>15, <1>16, MoveData
  <1>18. Abstract!EndRead(t, i)
    <2>1. UNCHANGED Contents
      BY <1>3 DEF Contents
    <2>2. UNCHANGED AbsProducers
      BY <1>13 DEF AbsProducers
    <2>3. AbsReaders' = [AbsReaders EXCEPT ![i] = @ \ {t}] /\ t \in AbsReaders[i]
      BY <1>2, <1>12, <1>14 DEF AbsReaders
    <2> QED BY <2>1, <2>2, <2>3 DEF Abstract!EndRead, AbsReaders, AbsProducers
  <1> QED BY <1>2, <1>17, <1>18 DEF AbsStep, Abstract!Next

-----------------------------------------------------------------------------
(* Operation contexts *)

\* The tree of a result has one item with data.
LEMMA OneTarget ==
    ASSUME NEW c \in Ctx, NEW i \in DataItem, Root[i] = Result[c]
    PROVE  i = Target[c]
  <1>1. PICK d \in Ctx : i = Target[d]
    BY DEF DataItem
  <1> QED BY <1>1, AccessAssumption

\* A producer has no users of its data beside it.
LEMMA NoUsers ==
    ASSUME IInv, NEW c \in Producing
    PROVE  /\ Users(Target[c]) = {} /\ Target[c] \in DataItem /\ Target[c] \in Item
           /\ Result[c] \in Item /\ Root[Target[c]] = Result[c] /\ c \in Ctx
           /\ \A d \in Producing : Result[d] = Result[c] => d = c
           /\ \A d \in Producing : Target[d] = Target[c] => d = c
  <1>1. /\ c \in Ctx /\ Target[c] \in DataItem /\ Target[c] \in Item /\ Result[c] \in Item
        /\ Root[Target[c]] = Result[c]
    BY AccessAssumption DEF Producing, DataItem
  <1>2. Producers(Result[c]) = {c}
    BY ProducingIsAlone
  <1>3. \A t \in Reader : ~(At(t, "use") /\ reader[t].item = Target[c])
    BY <1>1, <1>2, ReadersHoldRoot DEF At, ReadingPc
  <1>4. \A d \in Producing : Result[d] = Result[c] => d = c
    BY <1>2 DEF Producers
  <1>5. \A d \in Producing : Target[d] = Target[c] => d = c
    BY <1>1, <1>4, AccessAssumption DEF Producing
  <1> QED BY <1>1, <1>3, <1>4, <1>5 DEF Users

\* What a context that goes on leaves true of the threads.
LEMMA CtxFrames ==
    ASSUME IInv, NEW c \in Ctx, NEW s \in Stage \ {"none", "expired"},
           ctx[c] \notin {"none", "expired"}, ctx' = [ctx EXCEPT ![c] = s],
           UNCHANGED <<hold, reader>>,
           \A i \in Item : (data[i] => data'[i]) /\ (failed[i] => failed'[i]),
           \A i \in Item : data'[i] => data[i] \/ Root[i] = Result[c],
           \A i \in Item : link'[i] \in {link[i], NoCtx}
    PROVE  /\ FramesOK' /\ DestructInv' /\ NoOrphanData'
           /\ \A d \in Ctx : ctx'[d] = IF d = c THEN s ELSE ctx[d]
           /\ \A j : Sharing(j)' = Sharing(j) /\ Shared(j)' = Shared(j) /\ Users(j)' = Users(j)
  <1>1. \A d \in Ctx : ctx'[d] = IF d = c THEN s ELSE ctx[d]
    BY DEF IInv, TypeOK
  <1>2. FramesOK'
    <2> SUFFICES ASSUME NEW t \in Reader PROVE FrameOK(t, reader[t])'
      BY DEF IInv, FramesOK
    <2>1. FrameOK(t, reader[t]) /\ reader[t] \in FrameType /\ reader[t].item \in Item
          /\ Root[reader[t].item] \in Item
      BY FrameKnown
    <2>2. reader[t].ctx # NoCtx => reader[t].ctx \in Ctx
      BY <2>1 DEF FrameType
    <2>3. reader[t].pc = "garbage" => reader[t].ctx # NoCtx
      BY <2>1 DEF FrameOK
    <2>4. reader[t].pc = "destruct" => reader[t].ctx # NoCtx
      BY <2>1 DEF FrameOK
    <2> QED BY <1>1, <2>1, <2>2, <2>3, <2>4 DEF FrameOK
  <1>3. DestructInv'
    BY DEF IInv, DestructInv, At
  <1>4. NoOrphanData'
    <2> SUFFICES ASSUME NEW i \in Item, data'[i]
                 PROVE  (Interested(Root[i]) \/ \E u \in Reader :
                             At(u, "cleanup") /\ Root[reader[u].item] = Root[i])'
      BY DEF NoOrphanData
    <2>1. CASE Root[i] = Result[c]
      BY <2>1, <1>1 DEF Interested
    <2>2. CASE Root[i] # Result[c]
      BY <2>2, <1>1 DEF IInv, NoOrphanData, Interested, Wanted, Reads, At
    <2> QED BY <2>1, <2>2
  <1>5. ASSUME NEW j
        PROVE  Sharing(j)' = Sharing(j) /\ Users(j)' = Users(j)
    BY DEF Sharing, Users, At
  <1> QED BY <1>1, <1>2, <1>3, <1>4, <1>5 DEF Shared

LEMMA ActivateStep ==
    ASSUME IInv, NEW c \in Ctx, Activate(c) PROVE IInv' /\ UNCHANGED AbsVars
  <1>1. /\ ctx[c] = "queued" /\ ctx' = [ctx EXCEPT ![c] = "active"]
        /\ UNCHANGED <<link, failed, itemCount, producer, data, dataLock, hold, actorLock, reader>>
    BY DEF Activate, lockVars, dataVars
  <1>2. "active" \in Stage \ {"none", "expired"}
    BY DEF Stage
  <1>3. /\ FramesOK' /\ DestructInv' /\ NoOrphanData'
        /\ \A d \in Ctx : ctx'[d] = IF d = c THEN "active" ELSE ctx[d]
        /\ \A j : Sharing(j)' = Sharing(j) /\ Shared(j)' = Shared(j) /\ Users(j)' = Users(j)
    BY <1>1, <1>2, CtxFrames
  <1>4. TypeOK'
    BY <1>1, <1>2 DEF IInv, TypeOK
  <1>5. \A j : Producers(j)' = Producers(j) /\ Writers(j)' = Writers(j)
    BY <1>1, <1>3 DEF Producers, Producing, Writers
  <1>6. LockInv'
    BY <1>1, <1>3, <1>5 DEF IInv, LockInv, FreeOrShared, Produced
  <1>7. LinkInv'
    BY <1>1, <1>2, <1>3 DEF IInv, LinkInv, TypeOK
  <1>8. DataInv'
    BY <1>1, <1>3, <1>5 DEF IInv, DataInv
  <1>9. ContentInv'
    BY <1>1, <1>3 DEF IInv, ContentInv
  <1>10. UNCHANGED AbsVars
    BY <1>1, <1>3, <1>5 DEF AbsVars, AbsReaders, AbsProducers, Contents
  <1> QED BY <1>3, <1>4, <1>6, <1>7, <1>8, <1>9, <1>10 DEF IInv

\* An operator that begins to write is alone: it is never refused.
LEMMA BeginWriteStep ==
    ASSUME IInv, NEW c \in Ctx, BeginWrite(c) PROVE IInv' /\ UNCHANGED AbsVars
  <1> DEFINE i == Target[c]
             lost == link[Result[c]] # c
             s == IF lost THEN "written" ELSE "writing"
  <1>1. ctx[c] = "active" /\ c \in Producing
    BY DEF BeginWrite, Producing
  <1>2. /\ Users(i) = {} /\ i \in Item /\ Result[c] \in Item
        /\ \A d \in Producing : Target[d] = i => d = c
    BY <1>1, NoUsers
  <1>3. Writers(i) = {}
    BY <1>1, <1>2 DEF Writers, Producing
  <1>4. dataLock[i] = 0
    BY <1>2, <1>3, FS_EmptySet DEF IInv, DataInv
  <1>5. /\ ctx' = [ctx EXCEPT ![c] = s]
        /\ failed' = failed
        /\ dataLock' = [dataLock EXCEPT ![i] = IF lost THEN @ ELSE -1]
        /\ UNCHANGED <<link, itemCount, producer, data, hold, actorLock, reader>>
    <2>1. ~(dataLock[i] > 0)
      BY <1>4
    <2>2. failed' = failed
      BY <2>1, <1>2 DEF BeginWrite, IInv, TypeOK
    <2>3. dataLock' = [dataLock EXCEPT ![i] = IF lost THEN @ ELSE @ - 1]
      BY <2>1 DEF BeginWrite
    <2>4. dataLock[i] - 1 = -1
      BY <1>4
    <2>5. dataLock' = [dataLock EXCEPT ![i] = IF lost THEN @ ELSE -1]
      BY <2>3, <2>4
    <2> QED BY <2>1, <2>2, <2>5 DEF BeginWrite, lockVars
  <1>6. s \in {"written", "writing"} /\ s \in Stage \ {"none", "expired"}
    BY DEF Stage
  <1> HIDE DEF s
  <1>7. /\ FramesOK' /\ DestructInv' /\ NoOrphanData'
        /\ \A d \in Ctx : ctx'[d] = IF d = c THEN s ELSE ctx[d]
        /\ \A j : Sharing(j)' = Sharing(j) /\ Shared(j)' = Shared(j) /\ Users(j)' = Users(j)
    BY <1>1, <1>5, <1>6, CtxFrames
  <1>8. TypeOK'
    <2>1. -1 \in -1..Cardinality(Reader)
      BY UsersBounded
    <2> QED BY <1>2, <1>5, <1>6, <2>1 DEF IInv, TypeOK
  <1>9. \A j : Producers(j)' = Producers(j)
    BY <1>1, <1>6, <1>7 DEF Producers, Producing
  <1>10. LockInv'
    BY <1>1, <1>5, <1>6, <1>7, <1>9 DEF IInv, LockInv, FreeOrShared, Produced
  <1>11. LinkInv'
    BY <1>1, <1>5, <1>6, <1>7 DEF IInv, LinkInv, TypeOK
  <1>12. DataInv'
    <2> SUFFICES ASSUME NEW j \in Item
                 PROVE  (dataLock[j] = IF Writers(j) = {} THEN Cardinality(Users(j)) ELSE -1)'
      BY DEF DataInv
    <2>1. dataLock[j] = IF Writers(j) = {} THEN Cardinality(Users(j)) ELSE -1
      BY DEF IInv, DataInv
    <2>2. CASE lost \/ j # i
      <3>1. dataLock'[j] = dataLock[j]
        BY <2>2, <1>5 DEF IInv, TypeOK
      <3>2. Writers(j)' = Writers(j)
        BY <2>2, <1>1, <1>7 DEF Writers, s
      <3> QED BY <2>1, <3>1, <3>2, <1>7
    <2>3. CASE ~lost /\ j = i
      <3>1. dataLock'[j] = -1
        BY <2>3, <1>5 DEF IInv, TypeOK
      <3>2. c \in Writers(j)'
        BY <2>3, <1>7 DEF Writers, s
      <3> QED BY <3>1, <3>2
    <2> QED BY <2>2, <2>3
  <1>13. ContentInv'
    BY <1>1, <1>5, <1>7 DEF IInv, ContentInv
  <1>14. UNCHANGED AbsVars
    BY <1>5, <1>7, <1>9 DEF AbsVars, AbsReaders, AbsProducers, Contents
  <1> QED BY <1>7, <1>8, <1>10, <1>11, <1>12, <1>13, <1>14 DEF IInv

LEMMA OnEndStep ==
    ASSUME IInv, NEW c \in Ctx, OnEnd(c) PROVE IInv' /\ UNCHANGED AbsVars
  <1>1. /\ ctx[c] = "unlocked" /\ ctx' = [ctx EXCEPT ![c] = "ended"]
        /\ link' = [link EXCEPT ![Result[c]] = IF @ = c THEN NoCtx ELSE @]
        /\ UNCHANGED <<failed, itemCount, producer, data, dataLock, hold, actorLock, reader>>
    BY DEF OnEnd, lockVars, dataVars
  <1>2. "ended" \in Stage \ {"none", "expired"} /\ Result[c] \in Item
    BY AccessAssumption DEF Stage
  <1>3. \A i \in Item : link'[i] = IF i = Result[c] /\ link[i] = c THEN NoCtx ELSE link[i]
    BY <1>1 DEF IInv, TypeOK
  <1>4. /\ FramesOK' /\ DestructInv' /\ NoOrphanData'
        /\ \A d \in Ctx : ctx'[d] = IF d = c THEN "ended" ELSE ctx[d]
        /\ \A j : Sharing(j)' = Sharing(j) /\ Shared(j)' = Shared(j) /\ Users(j)' = Users(j)
    BY <1>1, <1>2, <1>3, CtxFrames
  <1>5. TypeOK'
    BY <1>1, <1>2 DEF IInv, TypeOK
  <1>6. \A j : Producers(j)' = Producers(j) /\ Writers(j)' = Writers(j)
    BY <1>1, <1>4 DEF Producers, Producing, Writers
  <1>7. LockInv'
    BY <1>1, <1>4, <1>6 DEF IInv, LockInv, FreeOrShared, Produced
  <1>8. LinkInv'
    BY <1>1, <1>3, <1>4 DEF IInv, LinkInv, TypeOK
  <1>9. DataInv'
    BY <1>1, <1>4, <1>6 DEF IInv, DataInv
  <1>10. ContentInv'
    BY <1>1, <1>4 DEF IInv, ContentInv
  <1>11. UNCHANGED AbsVars
    BY <1>1, <1>4, <1>6 DEF AbsVars, AbsReaders, AbsProducers, Contents
  <1> QED BY <1>4, <1>5, <1>7, <1>8, <1>9, <1>10, <1>11 DEF IInv

LEMMA EndWriteStep ==
    ASSUME IInv, NEW c \in Ctx, EndWrite(c) PROVE IInv' /\ AbsStep
  <1> DEFINE i == Target[c]
             made == data' = [data EXCEPT ![i] = TRUE] /\ UNCHANGED failed
             lost == failed' = [failed EXCEPT ![Result[c]] = TRUE] /\ UNCHANGED data
  <1>1. /\ ctx[c] = "writing" /\ c \in Producing
        /\ ctx' = [ctx EXCEPT ![c] = "written"] /\ dataLock' = [dataLock EXCEPT ![i] = @ + 1]
        /\ UNCHANGED <<link, itemCount, producer, hold, actorLock, reader>>
        /\ made \/ lost
    BY DEF EndWrite, Producing, lockVars
  <1>2. /\ Users(i) = {} /\ i \in DataItem /\ i \in Item /\ Result[c] \in Item
        /\ Root[i] = Result[c]
        /\ \A d \in Producing : Result[d] = Result[c] => d = c
        /\ \A d \in Producing : Target[d] = i => d = c
    BY <1>1, NoUsers
  <1>3. "written" \in Stage \ {"none", "expired"}
    BY DEF Stage
  <1>4. /\ \A j \in Item : made => data'[j] = (data[j] \/ j = i)
        /\ \A j \in Item : lost => failed'[j] = (failed[j] \/ j = Result[c])
    BY <1>1, <1>2 DEF IInv, TypeOK
  <1>5. \A j \in Item : data[j] /\ Root[j] = Result[c] => j = i
    BY OneTarget DEF IInv, ContentInv
  <1>6. ~data[i] /\ ~failed[Result[c]]
    BY <1>1 DEF IInv, ContentInv
  <1>7. TypeOK'
    <2>1. dataLock[i] = -1
      <3>1. c \in Writers(i)
        BY <1>1 DEF Writers
      <3> QED BY <1>2, <3>1 DEF IInv, DataInv
    <2>2. dataLock[i] + 1 \in -1..Cardinality(Reader)
      BY <2>1, UsersBounded
    <2> QED BY <1>1, <1>2, <1>3, <2>2 DEF IInv, TypeOK
  <1> HIDE DEF made, lost
  <1>8. /\ \A j \in Item : (data[j] => data'[j]) /\ (failed[j] => failed'[j])
        /\ \A j \in Item : data'[j] => data[j] \/ Root[j] = Result[c]
    BY <1>1, <1>2, <1>4 DEF made, lost
  <1>9. /\ FramesOK' /\ DestructInv' /\ NoOrphanData'
        /\ \A d \in Ctx : ctx'[d] = IF d = c THEN "written" ELSE ctx[d]
        /\ \A j : Sharing(j)' = Sharing(j) /\ Shared(j)' = Shared(j) /\ Users(j)' = Users(j)
    BY <1>1, <1>3, <1>8, CtxFrames
  <1>10. \A j : Producers(j)' = Producers(j)
    BY <1>1, <1>9 DEF Producers, Producing
  <1>11. LockInv'
    BY <1>1, <1>9, <1>10 DEF IInv, LockInv, FreeOrShared, Produced
  <1>12. LinkInv'
    BY <1>1, <1>9, <1>3 DEF IInv, LinkInv, TypeOK
  <1>13. DataInv'
    <2> SUFFICES ASSUME NEW j \in Item
                 PROVE  (dataLock[j] = IF Writers(j) = {} THEN Cardinality(Users(j)) ELSE -1)'
      BY DEF DataInv
    <2>1. dataLock[j] = IF Writers(j) = {} THEN Cardinality(Users(j)) ELSE -1
      BY DEF IInv, DataInv
    <2>2. CASE j # i
      <3>1. dataLock'[j] = dataLock[j]
        BY <2>2, <1>1 DEF IInv, TypeOK
      <3>2. Writers(j)' = Writers(j)
        BY <2>2, <1>1, <1>9 DEF Writers
      <3> QED BY <2>1, <3>1, <3>2, <1>9
    <2>3. CASE j = i
      <3>1. c \in Writers(i)
        BY <1>1 DEF Writers
      <3>2. dataLock[i] = -1
        BY <2>1, <2>3, <3>1
      <3>3. dataLock'[i] = 0
        BY <1>1, <1>2, <3>2 DEF IInv, TypeOK
      <3>4. Writers(i)' = {}
        BY <1>2, <1>9 DEF Writers, Producing
      <3> QED BY <2>3, <3>3, <3>4, <1>2, <1>9, FS_EmptySet
    <2> QED BY <2>2, <2>3
  <1>14. ContentInv'
    <2>1. ASSUME NEW j \in Item, data'[j] PROVE j \in DataItem /\ ~failed'[Root[j]]
      <3>1. Root[j] \in Item
        BY AccessAssumption
      <3>2. CASE made
        BY <2>1, <3>1, <3>2, <1>2, <1>4, <1>6 DEF made, IInv, ContentInv
      <3>3. CASE lost
        <4>1. data[j]
          BY <2>1, <3>3 DEF lost
        <4>2. Root[j] # Result[c]
          BY <4>1, <1>5, <1>6
        <4> QED BY <3>1, <3>3, <4>1, <4>2, <1>4 DEF IInv, ContentInv
      <3> QED BY <3>2, <3>3, <1>1
    <2>2. ASSUME NEW d \in Ctx, ctx'[d] \in {"expired", "queued", "active", "writing"}
          PROVE  ~data'[Target[d]] /\ ~failed'[Result[d]]
      <3>1. d # c /\ ctx'[d] = ctx[d]
        BY <2>2, <1>9
      <3>2. d \in Producing
        BY <2>2, <3>1 DEF Producing
      <3>3. Target[d] # i /\ Result[d] # Result[c] /\ Target[d] \in Item /\ Result[d] \in Item
        BY <3>1, <3>2, <1>2, AccessAssumption
      <3>4. ~data[Target[d]] /\ ~failed[Result[d]]
        BY <2>2, <3>1 DEF IInv, ContentInv
      <3> QED BY <3>3, <3>4, <1>1, <1>4 DEF made, lost
    <2> QED BY <2>1, <2>2 DEF ContentInv
  <1>15. AbsStep
    <2>1. UNCHANGED AbsReaders /\ UNCHANGED AbsProducers
      BY <1>9, <1>10 DEF AbsReaders, AbsProducers
    <2>2. AbsProducers[i] # {}
      BY <1>1, <1>2, ProducingIsAlone DEF AbsProducers
    <2>3. \A j \in DataItem : j \in Item /\ Root[j] \in Item /\ (j # i => Root[j] # Result[c])
      BY OneTarget, AccessAssumption DEF DataItem
    <2>4. CASE made
      <3>1. Contents' = [Contents EXCEPT ![i] = "made"]
        BY <1>2, <1>4, <2>3, <2>4 DEF Contents, made
      <3>2. Abstract!Deliver(i, "made")
        BY <3>1, <2>1, <2>2 DEF Abstract!Deliver, AbsReaders, AbsProducers
      <3> QED BY <3>2, <1>2 DEF AbsStep, Abstract!Next
    <2>5. CASE lost
      <3>1. Contents' = [Contents EXCEPT ![i] = "failed"]
        BY <1>2, <1>4, <1>6, <2>3, <2>5 DEF Contents, lost
      <3>2. Abstract!Deliver(i, "failed")
        BY <3>1, <2>1, <2>2 DEF Abstract!Deliver, AbsReaders, AbsProducers
      <3> QED BY <3>2, <1>2 DEF AbsStep, Abstract!Next
    <2> QED BY <2>4, <2>5, <1>1
  <1> QED BY <1>7, <1>9, <1>11, <1>12, <1>13, <1>14, <1>15 DEF IInv

-----------------------------------------------------------------------------
(* The end of a write lock *)

\* The item of a producer that is through is free, and so is its data.
LEMMA Unlocked ==
    ASSUME IInv, NEW c \in Producing, UnlockUnique(c),
           NEW s \in {"unlocked", "none"}, ctx' = [ctx EXCEPT ![c] = s],
           \A j : Sharing(j)' \subseteq Sharing(j) /\ Shared(j)' \in Nat /\ Shared(j)' <= Shared(j)
    PROVE  /\ LockInv' /\ itemCount' \in [Item -> Int]
           /\ producer' = [producer EXCEPT ![Result[c]] = NoCtx]
           /\ \A d \in Ctx : ctx'[d] = IF d = c THEN s ELSE ctx[d]
           /\ Target[c] \in DataItem
           /\ AbsProducers[Target[c]] = {c} /\ AbsProducers' = [AbsProducers EXCEPT ![Target[c]] = {}]
  <1> DEFINE r == Result[c]
  <1>1. /\ Producers(r) = {c} /\ Sharing(r) = {} /\ itemCount[r] = -1
        /\ c \in Ctx /\ r \in Item /\ Target[c] \in DataItem /\ Root[Target[c]] = r
    BY ProducingIsAlone, NoUsers
  <1>2. /\ itemCount' = [itemCount EXCEPT ![r] = 0]
        /\ producer' = [producer EXCEPT ![r] = NoCtx]
    <2>1. itemCount[r] + 1 = 0
      BY <1>1
    <2>2. /\ itemCount' = [itemCount EXCEPT ![r] = itemCount[r] + 1]
          /\ producer' = IF itemCount[r] + 1 < 0 THEN producer ELSE [producer EXCEPT ![r] = NoCtx]
      BY DEF UnlockUnique
    <2> HIDE DEF r
    <2>3. itemCount' = [itemCount EXCEPT ![r] = 0]
      BY <2>1, <2>2
    <2>4. ~(itemCount[r] + 1 < 0)
      BY <2>1
    <2> QED BY <2>2, <2>3, <2>4
  <1>3. \A d \in Ctx : ctx'[d] = IF d = c THEN s ELSE ctx[d]
    BY <1>1 DEF IInv, TypeOK
  <1>4. \A j : Producers(j)' = IF j = r THEN {} ELSE Producers(j)
    <2>1. Producing' = Producing \ {c}
      BY <1>3 DEF Producing
    <2> QED BY <2>1, <1>1 DEF Producers
  <1>5. LockInv'
    <2> SUFFICES ASSUME NEW j \in Item PROVE (FreeOrShared(j) \/ Produced(j))'
      BY DEF LockInv
    <2>1. FreeOrShared(j) \/ Produced(j)
      BY DEF IInv, LockInv
    <2>2. CASE j = r
      <3>1. Shared(j) = 0 /\ Shared(j)' = 0
        BY <2>2, <1>1, SharingFinite
      <3>2. itemCount'[j] = 0
        BY <2>2, <1>1, <1>2 DEF IInv, TypeOK
      <3> QED BY <2>2, <3>1, <3>2, <1>4 DEF FreeOrShared
    <2>3. CASE j # r
      <3>1. itemCount'[j] = itemCount[j] /\ producer'[j] = producer[j]
        BY <2>3, <1>2 DEF IInv, TypeOK
      <3>2. itemCount[j] \in Int /\ Shared(j) \in Nat
        BY SharingFinite DEF IInv, TypeOK
      <3>3. CASE FreeOrShared(j)
        BY <3>1, <3>2, <3>3, <2>3, <1>4 DEF FreeOrShared
      <3>4. CASE Produced(j)
        <4>1. PICK d \in Ctx : Producers(j) = {d} /\ (ctx[d] = "expired" \/ producer[j] = d)
          BY <3>4 DEF Produced
        <4>2. d # c
          BY <4>1, <2>3 DEF Producers
        <4> QED BY <3>1, <3>4, <4>1, <4>2, <2>3, <1>3, <1>4 DEF Produced
      <3> QED BY <2>1, <3>3, <3>4
    <2> QED BY <2>2, <2>3
  <1>6. itemCount' \in [Item -> Int]
    BY <1>1, <1>2 DEF IInv, TypeOK
  <1>7. \A i \in DataItem : i # Target[c] => Root[i] # r
    BY <1>1, OneTarget
  <1>8. AbsProducers' = [AbsProducers EXCEPT ![Target[c]] = {}] /\ AbsProducers[Target[c]] = {c}
    BY <1>1, <1>4, <1>7 DEF AbsProducers
  <1> QED BY <1>1, <1>2, <1>3, <1>5, <1>6, <1>8

LEMMA ReleaseWriteLockStep ==
    ASSUME IInv, NEW c \in Ctx, ReleaseWriteLock(c) PROVE IInv' /\ AbsStep
  <1>1. /\ ctx[c] = "written" /\ ctx' = [ctx EXCEPT ![c] = "unlocked"] /\ UnlockUnique(c)
        /\ UNCHANGED <<link, failed, data, dataLock, hold, actorLock, reader>>
        /\ c \in Producing
    BY DEF ReleaseWriteLock, dataVars, Producing
  <1>2. "unlocked" \in Stage \ {"none", "expired"}
    BY DEF Stage
  <1>3. /\ FramesOK' /\ DestructInv' /\ NoOrphanData'
        /\ \A d \in Ctx : ctx'[d] = IF d = c THEN "unlocked" ELSE ctx[d]
        /\ \A j : Sharing(j)' = Sharing(j) /\ Shared(j)' = Shared(j) /\ Users(j)' = Users(j)
    BY <1>1, <1>2, CtxFrames
  <1>4. \A j : Sharing(j)' \subseteq Sharing(j) /\ Shared(j)' \in Nat /\ Shared(j)' <= Shared(j)
    BY <1>3, SharingFinite
  <1>5. /\ LockInv' /\ itemCount' \in [Item -> Int]
        /\ producer' = [producer EXCEPT ![Result[c]] = NoCtx]
        /\ Target[c] \in DataItem
        /\ AbsProducers[Target[c]] = {c} /\ AbsProducers' = [AbsProducers EXCEPT ![Target[c]] = {}]
    BY <1>1, <1>4, Unlocked
  <1>6. TypeOK'
    BY <1>1, <1>2, <1>5 DEF IInv, TypeOK
  <1>7. LinkInv'
    BY <1>1, <1>2, <1>3, <1>5 DEF IInv, LinkInv, TypeOK
  <1>8. DataInv'
    <2>1. \A j : Writers(j)' = Writers(j)
      BY <1>1, <1>3 DEF Writers
    <2> QED BY <1>1, <1>3, <2>1 DEF IInv, DataInv
  <1>9. ContentInv'
    BY <1>1, <1>3 DEF IInv, ContentInv
  <1>10. Abstract!EndProduce(c, Target[c])
    <2>1. UNCHANGED AbsReaders /\ UNCHANGED Contents
      BY <1>1, <1>3 DEF AbsReaders, Contents
    <2> QED BY <1>5, <2>1 DEF Abstract!EndProduce, AbsReaders, AbsProducers
  <1>11. AbsStep
    BY <1>5, <1>10 DEF AbsStep, Abstract!Next
  <1> QED BY <1>3, <1>5, <1>6, <1>7, <1>8, <1>9, <1>11 DEF IInv

-----------------------------------------------------------------------------
(* The destruction of a context *)

\* The frames that remain when a context is gone that only thread t may refer to.
LEMMA GoneFrames ==
    ASSUME IInv, NEW t \in Reader, NEW f \in FrameType, NEW c \in Ctx,
           reader' = [reader EXCEPT ![t] = f], ctx' = [ctx EXCEPT ![c] = "none"],
           UNCHANGED <<link, data, failed, hold>>,
           f.pc = "letgo", f.ctx = NoCtx, Root[f.item] = Result[c],
           \A u \in Reader \ {t} : reader[u].ctx # c,
           reader[t].pc \in {"idle", "destruct"},
           reader[t].pc = "destruct" => Root[reader[t].item] = Result[c]
    PROVE  /\ FramesOK' /\ DestructInv' /\ NoOrphanData'
           /\ \A d \in Ctx : ctx'[d] = IF d = c THEN "none" ELSE ctx[d]
           /\ \A j : Users(j)' = Users(j) /\ Sharing(j)' \subseteq Sharing(j)
           /\ \A j : Shared(j)' \in Nat /\ Shared(j)' <= Shared(j)
           /\ Held(f) \subseteq Held(reader[t])
  <1>1. \A u \in Reader : reader'[u] = IF u = t THEN f ELSE reader[u]
    BY DEF IInv, TypeOK
  <1>2. \A d \in Ctx : ctx'[d] = IF d = c THEN "none" ELSE ctx[d]
    BY DEF IInv, TypeOK
  <1>3. FramesOK'
    <2> SUFFICES ASSUME NEW u \in Reader PROVE FrameOK(u, reader[u])'
      BY DEF IInv, FramesOK
    <2>1. FrameOK(u, reader[u]) /\ reader[u] \in FrameType
      BY FrameKnown
    <2>2. CASE u = t
      BY <2>2, <1>1 DEF FrameOK, LockingPc, ReadingPc
    <2>3. CASE u # t
      <3>1. reader'[u] = reader[u] /\ reader[u].ctx # c
        BY <2>3, <1>1
      <3>2. reader[u].ctx # NoCtx => reader[u].ctx \in Ctx
        BY <2>1 DEF FrameType
      <3>3. reader[u].pc = "destruct" => reader[u].ctx # NoCtx
        BY <2>1 DEF FrameOK
      <3> QED BY <2>1, <3>1, <3>2, <3>3, <1>2 DEF FrameOK
    <2> QED BY <2>2, <2>3
  <1>4. DestructInv'
    BY DestructKept
  <1>5. NoOrphanData'
    <2> SUFFICES ASSUME NEW i \in Item, data[i]
                 PROVE  (Interested(Root[i]) \/ \E u \in Reader :
                             At(u, "cleanup") /\ Root[reader[u].item] = Root[i])'
      BY DEF NoOrphanData
    <2>1. CASE Root[i] = Result[c]
      BY <2>1, <1>1 DEF Interested, Reads
    <2>2. CASE Root[i] # Result[c]
      <3>1. Interested(Root[i]) \/ \E u \in Reader : At(u, "cleanup") /\ Root[reader[u].item] = Root[i]
        BY DEF IInv, NoOrphanData
      <3>2. \A u \in Reader : Reads(u, Root[i]) => u # t
        BY <2>2 DEF Reads
      <3>3. \A u \in Reader : At(u, "cleanup") => u # t
        BY DEF At
      <3> QED BY <3>1, <3>2, <3>3, <2>2, <1>1, <1>2 DEF Interested, Wanted, Reads, At
    <2> QED BY <2>1, <2>2
  <1>6. \A j : Users(j)' = Users(j)
    BY UsersKept DEF IInv
  <1>7. Held(f) \subseteq Held(reader[t])
    BY HeldNothing DEF LockingPc, ReadingPc
  <1>8. \A j : Sharing(j)' \subseteq Sharing(j) /\ Shared(j)' \in Nat /\ Shared(j)' <= Shared(j)
    BY <1>7, SharingShrinks DEF IInv
  <1> QED BY <1>2, <1>3, <1>4, <1>5, <1>6, <1>7, <1>8

LEMMA DestructStep ==
    ASSUME IInv, NEW t \in Reader, Destruct(t) PROVE IInv' /\ AbsStep
  <1> DEFINE c == reader[t].ctx
             f == [reader[t] EXCEPT !.pc = "letgo", !.ctx = NoCtx]
  <1>1. /\ reader[t] \in FrameType /\ FrameOK(t, reader[t]) /\ reader[t].pc = "destruct"
        /\ reader[t].item \in Item
    BY FrameKnown DEF Destruct, At
  <1>2. c \in Ctx /\ ctx[c] = "expired" /\ Result[c] = Root[reader[t].item] /\ c \in Producing
    BY <1>1 DEF FrameOK, FrameType, Producing
  <1>3. /\ UnlockUnique(c) /\ ctx' = [ctx EXCEPT ![c] = "none"]
        /\ reader' = [reader EXCEPT ![t] = f]
        /\ UNCHANGED <<link, failed, data, dataLock, hold, actorLock>>
    BY DEF Destruct, dataVars, IInv, TypeOK
  <1>4. f \in FrameType /\ f.item = reader[t].item /\ f.pc = "letgo" /\ f.ctx = NoCtx
    BY <1>1 DEF FrameType, Place
  <1>5. \A u \in Reader \ {t} : reader[u].ctx # c
    BY <1>1 DEF IInv, DestructInv, At
  <1> HIDE DEF f, c
  <1>6. /\ FramesOK' /\ DestructInv' /\ NoOrphanData'
        /\ \A d \in Ctx : ctx'[d] = IF d = c THEN "none" ELSE ctx[d]
        /\ \A j : Users(j)' = Users(j) /\ Sharing(j)' \subseteq Sharing(j)
        /\ \A j : Shared(j)' \in Nat /\ Shared(j)' <= Shared(j)
    BY <1>1, <1>2, <1>3, <1>4, <1>5, GoneFrames
  <1>7. /\ LockInv' /\ itemCount' \in [Item -> Int]
        /\ producer' = [producer EXCEPT ![Result[c]] = NoCtx]
        /\ Target[c] \in DataItem
        /\ AbsProducers[Target[c]] = {c} /\ AbsProducers' = [AbsProducers EXCEPT ![Target[c]] = {}]
    BY <1>2, <1>3, <1>6, Unlocked
  <1>8. TypeOK'
    <2>1. "none" \in Stage
      BY DEF Stage
    <2> QED BY <1>3, <1>4, <1>7, <2>1 DEF IInv, TypeOK
  <1>9. LinkInv'
    BY <1>2, <1>3, <1>6, <1>7 DEF IInv, LinkInv, TypeOK
  <1>10. DataInv'
    <2>1. \A j : Writers(j)' = Writers(j)
      BY <1>2, <1>6 DEF Writers
    <2> QED BY <1>3, <1>6, <2>1 DEF IInv, DataInv
  <1>11. ContentInv'
    BY <1>3, <1>6 DEF IInv, ContentInv
  <1>12. Abstract!EndProduce(c, Target[c])
    <2>1. UNCHANGED AbsReaders /\ UNCHANGED Contents
      BY <1>3, <1>6 DEF AbsReaders, Contents
    <2> QED BY <1>7, <2>1 DEF Abstract!EndProduce, AbsReaders, AbsProducers
  <1>13. AbsStep
    BY <1>2, <1>7, <1>12 DEF AbsStep, Abstract!Next
  <1> QED BY <1>6, <1>7, <1>8, <1>9, <1>10, <1>11, <1>13 DEF IInv

LEMMA DestroyStep ==
    ASSUME IInv, NEW t \in Reader, NEW c \in Ctx, Destroy(t, c) PROVE IInv' /\ UNCHANGED AbsVars
  <1> DEFINE f == Frame("letgo", Result[c], 0, NoCtx, FALSE)
  <1>1. /\ reader[t].pc = "idle" /\ ctx[c] = "ended" /\ Referring(c) = {}
        /\ ctx' = [ctx EXCEPT ![c] = "none"] /\ reader' = [reader EXCEPT ![t] = f]
        /\ UNCHANGED <<link, failed, itemCount, producer, data, dataLock, hold, actorLock>>
    BY DEF Destroy, IsIdle, lockVars, dataVars
  <1>2. /\ f \in FrameType /\ f.pc = "letgo" /\ f.ctx = NoCtx /\ Root[f.item] = Result[c]
    BY AccessAssumption DEF Frame, FrameType, Place
  <1> HIDE DEF f
  <1>3. \A u \in Reader \ {t} : reader[u].ctx # c
    BY <1>1 DEF Referring
  <1>4. /\ FramesOK' /\ DestructInv' /\ NoOrphanData'
        /\ \A d \in Ctx : ctx'[d] = IF d = c THEN "none" ELSE ctx[d]
        /\ \A j : Users(j)' = Users(j) /\ Sharing(j)' \subseteq Sharing(j)
        /\ Held(f) \subseteq Held(reader[t])
        /\ \A j : Shared(j)' \in Nat /\ Shared(j)' <= Shared(j)
    BY <1>1, <1>2, <1>3, GoneFrames
  <1>5. TypeOK'
    <2>1. "none" \in Stage
      BY DEF Stage
    <2> QED BY <1>1, <1>2, <2>1 DEF IInv, TypeOK
  <1>6. \A j : Producers(j)' = Producers(j) /\ Writers(j)' = Writers(j)
    BY <1>1, <1>4 DEF Producers, Producing, Writers
  <1>7. LockInv'
    <2> SUFFICES ASSUME NEW j \in Item PROVE (FreeOrShared(j) \/ Produced(j))'
      BY DEF LockInv
    <2>1. FreeOrShared(j) \/ Produced(j)
      BY DEF IInv, LockInv
    <2>2. itemCount[j] \in Int /\ Shared(j) \in Nat
      BY SharingFinite DEF IInv, TypeOK
    <2>3. CASE FreeOrShared(j)
      BY <2>3, <2>2, <1>1, <1>4, <1>6 DEF FreeOrShared
    <2>4. CASE Produced(j)
      <3>1. PICK d \in Ctx : Producers(j) = {d} /\ (ctx[d] = "expired" \/ producer[j] = d)
        BY <2>4 DEF Produced
      <3>2. d # c
        BY <3>1, <1>1 DEF Producers, Producing
      <3> QED BY <2>4, <3>1, <3>2, <1>1, <1>4, <1>6 DEF Produced
    <2> QED BY <2>1, <2>3, <2>4
  <1>8. LinkInv'
    BY <1>1, <1>4 DEF IInv, LinkInv, TypeOK
  <1>9. DataInv'
    BY <1>1, <1>4, <1>6 DEF IInv, DataInv
  <1>10. ContentInv'
    BY <1>1, <1>4 DEF IInv, ContentInv
  <1>11. UNCHANGED AbsVars
    BY <1>1, <1>4, <1>6 DEF AbsVars, AbsReaders, AbsProducers, Contents
  <1> QED BY <1>4, <1>5, <1>7, <1>8, <1>9, <1>10, <1>11 DEF IInv

\* The last reference to a queued context makes it expire; any other one is just dropped.
LEMMA DropGarbageStep ==
    ASSUME IInv, NEW t \in Reader, DropGarbage(t) PROVE IInv' /\ UNCHANGED AbsVars
  <1> DEFINE c == reader[t].ctx
             expires == ctx[c] = "queued" /\ Referring(c) = {t}
  <1>1. /\ reader[t] \in FrameType /\ FrameOK(t, reader[t]) /\ reader[t].pc = "garbage"
        /\ reader[t].item \in Item
    BY FrameKnown DEF DropGarbage, At
  <1>2. /\ c \in Ctx /\ Result[c] = Root[reader[t].item] /\ link[Result[c]] # c
        /\ UNCHANGED <<link, failed, itemCount, data, dataLock, hold, actorLock>>
    BY <1>1 DEF FrameOK, FrameType, DropGarbage, dataVars
  <1>3. CASE ~expires
    <2> DEFINE f == [reader[t] EXCEPT !.pc = "letgo", !.ctx = NoCtx]
    <2>1. f \in FrameType /\ f.item = reader[t].item /\ f.pc = "letgo" /\ f.ctx = NoCtx
      BY <1>1 DEF FrameType, Place
    <2>2. reader' = [reader EXCEPT ![t] = f] /\ UNCHANGED <<ctx, producer>>
      BY <1>3 DEF DropGarbage, IInv, TypeOK
    <2> HIDE DEF f
    <2>3. FrameOK(t, f)
      BY <2>1 DEF FrameOK, LockingPc, ReadingPc
    <2>4. NrHeld(f) = 0
      BY <2>1 DEF NrHeld, LockingPc, ReadingPc
    <2> QED BY <1>1, <1>2, <2>1, <2>2, <2>3, <2>4, MoveOn
  <1>4. CASE expires
    <2> DEFINE f == [reader[t] EXCEPT !.pc = "destruct"]
    <2>1. f \in FrameType /\ f.item = reader[t].item /\ f.pc = "destruct" /\ f.ctx = c
      BY <1>1 DEF FrameType, Place
    <2>2. /\ ctx[c] = "queued" /\ ctx' = [ctx EXCEPT ![c] = "expired"]
          /\ producer' = [i \in Item |-> IF producer[i] = c THEN NoCtx ELSE producer[i]]
          /\ reader' = [reader EXCEPT ![t] = f]
          /\ \A u \in Reader : reader[u].ctx = c => u = t
      BY <1>4 DEF DropGarbage, Goto, Referring, IInv, TypeOK
    <2> HIDE DEF f, c
    <2>3. \A u \in Reader : reader'[u] = IF u = t THEN f ELSE reader[u]
      BY <2>2 DEF IInv, TypeOK
    <2>4. \A d \in Ctx : ctx'[d] = IF d = c THEN "expired" ELSE ctx[d]
      BY <2>2 DEF IInv, TypeOK
    <2>5. TypeOK'
      <3>1. "expired" \in Stage
        BY DEF Stage
      <3> QED BY <1>2, <2>1, <2>2, <3>1 DEF IInv, TypeOK
    <2>6. FramesOK'
      <3> SUFFICES ASSUME NEW u \in Reader PROVE FrameOK(u, reader[u])'
        BY <1>2 DEF IInv, FramesOK
      <3>1. FrameOK(u, reader[u]) /\ reader[u] \in FrameType
        BY FrameKnown
      <3>2. CASE u = t
        <4>1. c # NoCtx
          BY <1>2, AccessAssumption
        <4> QED BY <3>2, <4>1, <1>2, <2>1, <2>3, <2>4 DEF FrameOK, LockingPc, ReadingPc
      <3>3. CASE u # t
        <4>1. reader'[u] = reader[u] /\ reader[u].ctx # c
          BY <3>3, <2>2, <2>3
        <4>2. reader[u].ctx # NoCtx => reader[u].ctx \in Ctx
          BY <3>1 DEF FrameType
        <4>3. reader[u].pc = "destruct" => reader[u].ctx # NoCtx
          BY <3>1 DEF FrameOK
        <4> QED BY <3>1, <4>1, <4>2, <4>3, <1>2, <2>4 DEF FrameOK
      <3> QED BY <3>2, <3>3
    <2>7. DestructInv'
      <3>1. \A u \in Reader : reader'[u].ctx = reader[u].ctx
        BY <2>1, <2>3 DEF c
      <3> QED BY <3>1, <2>1, <2>2, <2>3 DEF IInv, DestructInv, At
    <2>8. \A j : Producers(j)' = Producers(j) /\ Writers(j)' = Writers(j)
      BY <2>2, <2>4 DEF Producers, Producing, Writers
    <2>9. Held(f) \subseteq Held(reader[t])
      BY <2>1, HeldNothing DEF LockingPc, ReadingPc
    <2>10. \A j : Sharing(j)' \subseteq Sharing(j) /\ Shared(j)' \in Nat /\ Shared(j)' <= Shared(j)
      BY <2>1, <2>2, <2>9, SharingShrinks DEF IInv
    <2>11. LockInv'
      <3> SUFFICES ASSUME NEW j \in Item PROVE (FreeOrShared(j) \/ Produced(j))'
        BY DEF LockInv
      <3>1. FreeOrShared(j) \/ Produced(j)
        BY DEF IInv, LockInv
      <3>2. itemCount[j] \in Int /\ Shared(j) \in Nat
        BY SharingFinite DEF IInv, TypeOK
      <3>3. CASE FreeOrShared(j)
        BY <3>3, <3>2, <1>2, <2>8, <2>10 DEF FreeOrShared
      <3>4. CASE Produced(j)
        <4>1. PICK d \in Ctx : Producers(j) = {d} /\ (ctx[d] = "expired" \/ producer[j] = d)
          BY <3>4 DEF Produced
        <4>2. ctx'[d] = "expired" \/ producer'[j] = d
          BY <4>1, <2>2, <2>4
        <4> QED BY <3>4, <4>1, <4>2, <1>2, <2>8, <2>10 DEF Produced
      <3> QED BY <3>1, <3>3, <3>4
    <2>12. LinkInv'
      <3> SUFFICES ASSUME NEW i \in Item
                   PROVE  /\ link[i] # NoCtx => Result[link[i]] = i
                                /\ ctx'[link[i]] \notin {"none", "expired", "ended"}
                          /\ producer'[i] # NoCtx => Result[producer'[i]] = i
                                /\ ctx'[producer'[i]] \in Stage \ {"none", "expired", "unlocked", "ended"}
        BY <1>2 DEF LinkInv
      <3>1. /\ link[i] # NoCtx => Result[link[i]] = i /\ link[i] \in Ctx
                  /\ ctx[link[i]] \notin {"none", "expired", "ended"}
            /\ producer[i] # NoCtx => Result[producer[i]] = i /\ producer[i] \in Ctx
                  /\ ctx[producer[i]] \in Stage \ {"none", "expired", "unlocked", "ended"}
        BY DEF IInv, LinkInv, TypeOK
      <3>2. link[i] # c
        BY <3>1, <1>2, AccessAssumption
      <3>3. producer'[i] = IF producer[i] = c THEN NoCtx ELSE producer[i]
        BY <2>2
      <3> QED BY <3>1, <3>2, <3>3, <2>4
    <2>13. \A i : Users(i)' = Users(i)
      BY <1>1, <2>1, <2>2, UsersKept DEF IInv
    <2>14. DataInv'
      BY <1>2, <2>8, <2>13 DEF IInv, DataInv
    <2>15. ContentInv'
      BY <1>2, <2>2, <2>4 DEF IInv, ContentInv
    <2>16. NoOrphanData'
      <3>1. StaysInterested(t, f)
        BY <1>1, <2>1 DEF StaysInterested
      <3>2. \A d \in Ctx : ctx[d] # "none" => ctx'[d] # "none"
        BY <2>4
      <3>3. \A i \in Item : data'[i] => data[i]
        BY <1>2
      <3>4. reader' = [reader EXCEPT ![t] = f] /\ UNCHANGED hold
        BY <1>2, <2>2
      <3> QED BY <3>1, <3>2, <3>3, <3>4, <2>1, OrphanKept
    <2>17. UNCHANGED AbsVars
      BY <1>2, <2>8, <2>13 DEF AbsVars, AbsReaders, AbsProducers, Contents
    <2> QED BY <2>5, <2>6, <2>7, <2>11, <2>12, <2>14, <2>15, <2>16, <2>17 DEF IInv
  <1> QED BY <1>3, <1>4

-----------------------------------------------------------------------------
(* Interest *)

LEMMA WantStep ==
    ASSUME IInv, NEW t \in Reader, NEW i \in Item, Want(t, Root[i]) PROVE IInv' /\ UNCHANGED AbsVars
  <1> DEFINE r == Root[i]
  <1>1. /\ r \in Item /\ Root[r] = r /\ hold' = [hold EXCEPT ![t] = @ \cup {r}]
        /\ UNCHANGED <<ctx, link, failed, itemCount, producer, data, dataLock, actorLock, reader>>
    BY AccessAssumption DEF Want, ctxVars, lockVars, dataVars
  <1> HIDE DEF r
  <1>2. \A u \in Reader : hold'[u] = IF u = t THEN hold[u] \cup {r} ELSE hold[u]
    BY <1>1 DEF IInv, TypeOK
  <1>3. TypeOK'
    BY <1>1 DEF IInv, TypeOK
  <1>4. FramesOK'
    BY <1>1, <1>2 DEF IInv, FramesOK, FrameOK
  <1>5. DestructInv' /\ LinkInv' /\ ContentInv'
    BY <1>1 DEF IInv, DestructInv, LinkInv, ContentInv, At
  <1>6. ASSUME NEW j
        PROVE  Sharing(j)' = Sharing(j) /\ Users(j)' = Users(j) /\ Producers(j)' = Producers(j)
               /\ Writers(j)' = Writers(j)
    BY <1>1 DEF Sharing, Users, Producers, Producing, Writers, At
  <1>7. LockInv'
    BY <1>1, <1>6 DEF IInv, LockInv, FreeOrShared, Produced, Shared
  <1>8. DataInv'
    BY <1>1, <1>6 DEF IInv, DataInv
  <1>9. NoOrphanData'
    BY <1>1, <1>2 DEF IInv, NoOrphanData, Interested, Wanted, Reads, At
  <1>10. UNCHANGED AbsVars
    BY <1>1, <1>6 DEF AbsVars, AbsReaders, AbsProducers, Contents
  <1> QED BY <1>3, <1>4, <1>5, <1>7, <1>8, <1>9, <1>10 DEF IInv

\* A result that must be calculated gets a producer; nobody shares the item or uses the data.
LEMMA CallStep ==
    ASSUME IInv, NEW t \in Reader, NEW i \in DataItem, Call(t, i) PROVE IInv' /\ AbsStep
  <1> DEFINE f == Frame("called", i, 0, NoCtx, FALSE)
  <1>1. /\ reader[t].pc = "idle" /\ Root[i] \in hold[t] /\ ~failed[Root[i]]
        /\ reader' = [reader EXCEPT ![t] = f]
        /\ UNCHANGED <<data, dataLock, failed, hold, actorLock>>
        /\ i \in Item /\ Root[i] \in Item /\ Root[Root[i]] = Root[i]
    BY AccessAssumption DEF Call, IsIdle, dataVars, DataItem
  <1>2. /\ f \in FrameType /\ f.pc = "called" /\ f.ctx = NoCtx /\ f.item = i
    BY <1>1 DEF Frame, FrameType, Place
  <1> HIDE DEF f
  <1>3. FrameOK(t, f)
    BY <1>1, <1>2 DEF FrameOK, LockingPc, ReadingPc
  <1>4. Held(f) \subseteq Held(reader[t])
    BY <1>2, HeldNothing DEF LockingPc, ReadingPc
  <1>5. StaysInterested(t, f)
    BY <1>1 DEF StaysInterested
  <1>6. CASE ~MustStart(i)
    <2>1. UNCHANGED <<ctx, link, itemCount, producer>>
      BY <1>6 DEF Call, lockVars
    <2> QED BY <1>1, <1>2, <1>3, <1>4, <1>5, <2>1, Move DEF AbsStep
  <1>7. CASE MustStart(i)
    <2>1. PICK c \in Ctx : Target[c] = i /\ Schedule(c)
      BY <1>7 DEF Call
    <2> DEFINE r == Root[i]
    <2>2. /\ Result[c] = r /\ ctx[c] = "none" /\ itemCount[r] <= 0
          /\ itemCount' = [itemCount EXCEPT ![r] = @ - 1]
          /\ producer' = [producer EXCEPT ![r] = c] /\ link' = [link EXCEPT ![r] = c]
          /\ ctx' = [ctx EXCEPT ![c] = "queued"]
      BY <2>1, AccessAssumption DEF Schedule
    <2>3. ~data[i] /\ itemCount[r] = 0
      <3>1. itemCount[r] \in Int
        BY <1>1 DEF IInv, TypeOK
      <3> QED BY <3>1, <1>7, <2>2 DEF MustStart, IsCalculating
    <2> HIDE DEF r
    <2>20. r \in Item /\ r = Root[i]
      BY <1>1 DEF r
    <2>4. Producers(r) = {} /\ Sharing(r) = {}
      <3>1. FreeOrShared(r)
        BY <2>3, <2>20 DEF IInv, LockInv, Produced
      <3>2. Shared(r) \in Nat /\ itemCount[r] >= Shared(r)
        BY <3>1, SharingFinite DEF FreeOrShared
      <3>3. Shared(r) = 0
        BY <3>2, <2>3
      <3> QED BY <3>1, <3>3, SharingFinite DEF FreeOrShared
    <2>5. \A u \in Reader : reader'[u] = IF u = t THEN f ELSE reader[u]
      BY <1>1 DEF IInv, TypeOK
    <2>6. \A d \in Ctx : ctx'[d] = IF d = c THEN "queued" ELSE ctx[d]
      BY <2>2 DEF IInv, TypeOK
    <2>7. /\ \A j \in Item : link'[j] = IF j = r THEN c ELSE link[j]
          /\ \A j \in Item : producer'[j] = IF j = r THEN c ELSE producer[j]
          /\ \A j \in Item : itemCount'[j] = IF j = r THEN -1 ELSE itemCount[j]
      <3>1. itemCount[r] - 1 = -1
        BY <2>3
      <3> QED BY <3>1, <2>2, <2>20 DEF IInv, TypeOK
    <2>8. TypeOK'
      <3>1. "queued" \in Stage
        BY DEF Stage
      <3>2. itemCount[r] - 1 \in Int
        BY <2>3
      <3> QED BY <1>1, <1>2, <2>2, <2>20, <3>1, <3>2 DEF IInv, TypeOK
    <2>9. FramesOK'
      <3> SUFFICES ASSUME NEW u \in Reader PROVE FrameOK(u, reader[u])'
        BY <1>1 DEF IInv, FramesOK
      <3>1. /\ FrameOK(u, reader[u]) /\ reader[u] \in FrameType /\ Root[reader[u].item] \in Item
        BY FrameKnown
      <3>2. CASE u = t
        BY <3>2, <1>1, <1>2, <2>5 DEF FrameOK, LockingPc, ReadingPc
      <3>3. CASE u # t
        <4>1. reader[u].ctx # NoCtx => reader[u].ctx \in Ctx
          BY <3>1 DEF FrameType
        <4>2. reader[u].pc \in {"garbage", "destruct"} => reader[u].ctx # NoCtx
          BY <3>1 DEF FrameOK
        <4>3. reader[u].ctx # c
          <5>1. c # NoCtx
            BY AccessAssumption
          <5> QED BY <5>1, <3>1, <2>2 DEF FrameOK
        <4> QED BY <3>1, <3>3, <4>1, <4>2, <4>3, <1>1, <2>5, <2>6, <2>7 DEF FrameOK
      <3> QED BY <3>2, <3>3
    <2>10. DestructInv'
      BY <1>1, <1>2, DestructKept
    <2>11. /\ \A j : Producers(j)' = IF j = r THEN {c} ELSE Producers(j)
           /\ \A j : Writers(j)' = Writers(j)
      <3>1. Producing' = Producing \cup {c}
        BY <2>6 DEF Producing
      <3>2. \A j : Writers(j)' = Writers(j)
        BY <2>2, <2>6 DEF Writers
      <3> QED BY <3>1, <3>2, <2>2, <2>4 DEF Producers
    <2>12. \A j : Sharing(j)' \subseteq Sharing(j) /\ Shared(j)' \in Nat /\ Shared(j)' <= Shared(j)
      BY <1>1, <1>2, <1>4, SharingShrinks DEF IInv
    <2>13. LockInv'
      <3> SUFFICES ASSUME NEW j \in Item PROVE (FreeOrShared(j) \/ Produced(j))'
        BY DEF LockInv
      <3>1. CASE j = r
        BY <3>1, <2>4, <2>7, <2>11, <2>12 DEF Produced
      <3>2. CASE j # r
        <4>1. FreeOrShared(j) \/ Produced(j)
          BY DEF IInv, LockInv
        <4>2. itemCount[j] \in Int /\ Shared(j) \in Nat
          BY SharingFinite DEF IInv, TypeOK
        <4>3. CASE FreeOrShared(j)
          BY <4>3, <4>2, <3>2, <2>7, <2>11, <2>12 DEF FreeOrShared
        <4>4. CASE Produced(j)
          <5>1. PICK d \in Ctx : Producers(j) = {d} /\ (ctx[d] = "expired" \/ producer[j] = d)
            BY <4>4 DEF Produced
          <5>2. d # c
            BY <5>1, <2>2 DEF Producers, Producing
          <5> QED BY <4>4, <5>1, <5>2, <3>2, <2>6, <2>7, <2>11, <2>12 DEF Produced
        <4> QED BY <4>1, <4>3, <4>4
      <3> QED BY <3>1, <3>2
    <2>14. LinkInv'
      <3> SUFFICES ASSUME NEW j \in Item
                   PROVE  /\ link'[j] # NoCtx => Result[link'[j]] = j
                                /\ ctx'[link'[j]] \notin {"none", "expired", "ended"}
                          /\ producer'[j] # NoCtx => Result[producer'[j]] = j
                                /\ ctx'[producer'[j]] \in Stage \ {"none", "expired", "unlocked", "ended"}
        BY DEF LinkInv
      <3>1. /\ link[j] # NoCtx => Result[link[j]] = j /\ link[j] \in Ctx
                  /\ ctx[link[j]] \notin {"none", "expired", "ended"}
            /\ producer[j] # NoCtx => Result[producer[j]] = j /\ producer[j] \in Ctx
                  /\ ctx[producer[j]] \in Stage \ {"none", "expired", "unlocked", "ended"}
        BY DEF IInv, LinkInv, TypeOK
      <3>2. "queued" \in Stage \ {"none", "expired", "unlocked", "ended"}
        BY DEF Stage
      <3>3. CASE j = r
        BY <3>2, <3>3, <2>2, <2>6, <2>7
      <3>4. CASE j # r
        BY <3>1, <3>4, <2>2, <2>6, <2>7
      <3> QED BY <3>3, <3>4
    <2>15. \A j : Users(j)' = Users(j)
      BY <1>1, <1>2, UsersKept DEF IInv
    <2>16. DataInv'
      BY <1>1, <2>11, <2>15 DEF IInv, DataInv
    <2>17. ContentInv'
      BY <1>1, <2>1, <2>2, <2>3, <2>6, <2>20 DEF IInv, ContentInv
    <2>18. NoOrphanData'
      <3>1. \A d \in Ctx : ctx[d] # "none" => ctx'[d] # "none"
        BY <2>6
      <3>2. \A j \in Item : data'[j] => data[j]
        BY <1>1
      <3> QED BY <3>1, <3>2, <1>1, <1>2, <1>5, OrphanKept
    <2>19. Abstract!BeginProduce(c, i)
      <3>1. UNCHANGED AbsReaders /\ UNCHANGED Contents
        BY <1>1, <2>15 DEF AbsReaders, Contents
      <3>2. AbsProducers[i] = {}
        BY <2>4, <2>20 DEF AbsProducers
      <3>3. \A j \in DataItem : j # i => Root[j] # r
        BY <2>1, <2>2, OneTarget
      <3>4. AbsProducers' = [AbsProducers EXCEPT ![i] = {c}]
        BY <2>11, <2>20, <3>3 DEF AbsProducers
      <3>5. AbsReaders[i] = {}
        <4>1. ASSUME NEW u \in Users(i) PROVE FALSE
          <5>1. u \in Reader /\ reader[u].pc \in ReadingPc /\ reader[u].item = i
            BY DEF Users, At, ReadingPc
          <5>2. Root[i] \in Held(reader[u])
            BY <5>1, ReadersHoldRoot
          <5>3. u \in Sharing(r)
            BY <5>1, <5>2, <2>20 DEF Sharing
          <5> QED BY <5>3, <2>4
        <4> QED BY <4>1 DEF AbsReaders
      <3> QED BY <3>1, <3>2, <3>4, <3>5 DEF Abstract!BeginProduce, AbsReaders, AbsProducers
    <2>21. AbsStep
      BY <2>19 DEF AbsStep, Abstract!Next
    <2> QED BY <2>8, <2>9, <2>10, <2>13, <2>14, <2>16, <2>17, <2>18, <2>21 DEF IInv
  <1> QED BY <1>6, <1>7

\* The interest that is let go lives on in the call that lets it go.
LEMMA ReleaseStep ==
    ASSUME IInv, NEW t \in Reader, NEW i \in Item, Release(t, Root[i])
    PROVE  IInv' /\ UNCHANGED AbsVars
  <1> DEFINE r == Root[i]
             c == link[r]
             last == \A u \in Reader \ {t} : r \notin hold[u]
             f == IF last /\ c # NoCtx THEN Frame("garbage", r, 0, c, FALSE)
                                       ELSE Frame("letgo", r, 0, NoCtx, FALSE)
  <1>1. /\ reader[t].pc = "idle" /\ r \in Item /\ Root[r] = r
        /\ hold' = [hold EXCEPT ![t] = @ \ {r}]
        /\ link' = IF last /\ c # NoCtx THEN [link EXCEPT ![r] = NoCtx] ELSE link
        /\ UNCHANGED <<ctx, failed, itemCount, producer, data, dataLock, actorLock>>
        /\ reader' = [reader EXCEPT ![t] = f]
    BY AccessAssumption DEF Release, IsIdle, lockVars, dataVars
  <1>2. c # NoCtx => c \in Ctx /\ Result[c] = r /\ ctx[c] \notin {"none", "expired"}
    BY <1>1 DEF IInv, LinkInv, TypeOK
  <1>3. /\ f \in FrameType /\ f.item = r /\ f.pc \in {"garbage", "letgo"}
        /\ f.pc = "letgo" => f.ctx = NoCtx
        /\ f.pc = "garbage" => f.ctx = c /\ c # NoCtx /\ link'[r] = NoCtx
    BY <1>1, <1>2 DEF Frame, FrameType, Place, IInv, TypeOK
  <1>4. \A j \in Item : link'[j] = link[j] \/ link'[j] = NoCtx
    BY <1>1 DEF IInv, TypeOK
  <1> HIDE DEF f, c
  <1>5. \A u \in Reader : reader'[u] = IF u = t THEN f ELSE reader[u]
    BY <1>1 DEF IInv, TypeOK
  <1>6. \A u \in Reader : hold'[u] = IF u = t THEN hold[u] \ {r} ELSE hold[u]
    BY <1>1 DEF IInv, TypeOK
  <1>7. TypeOK'
    <2>1. link' \in [Item -> Ctx \cup {NoCtx}]
      BY <1>1 DEF IInv, TypeOK
    <2>2. hold' \in [Reader -> SUBSET Item]
      BY <1>1 DEF IInv, TypeOK
    <2> QED BY <1>1, <1>3, <2>1, <2>2 DEF IInv, TypeOK
  <1>8. FramesOK'
    <2>1. \A u \in Reader : \A q \in hold'[u] : Root[q] = q
      BY <1>6 DEF IInv, FramesOK
    <2> SUFFICES ASSUME NEW u \in Reader PROVE FrameOK(u, reader[u])'
      BY <2>1 DEF FramesOK
    <2>2. FrameOK(u, reader[u]) /\ Root[reader[u].item] \in Item
      BY FrameKnown
    <2>3. CASE u = t
      BY <2>3, <1>1, <1>2, <1>3, <1>5 DEF FrameOK, LockingPc, ReadingPc
    <2>4. CASE u # t
      <3>1. reader[u].pc = "garbage" => reader[u].ctx # NoCtx
        BY <2>2 DEF FrameOK
      <3> QED BY <2>2, <2>4, <3>1, <1>1, <1>4, <1>5, <1>6 DEF FrameOK
    <2> QED BY <2>3, <2>4
  <1>9. DestructInv'
    BY <1>1, <1>2, <1>3, DestructKept
  <1>10. LockInv'
    <2>1. Held(f) \subseteq Held(reader[t])
      BY <1>3, HeldNothing DEF LockingPc, ReadingPc
    <2> QED BY <2>1, <1>1, <1>3, LockKept
  <1>11. LinkInv' /\ ContentInv'
    BY <1>1, <1>4 DEF IInv, LinkInv, ContentInv
  <1>12. \A j : Users(j)' = Users(j)
    BY <1>1, <1>3, UsersKept DEF IInv
  <1>13. DataInv'
    BY <1>1, <1>12 DEF IInv, DataInv, Writers
  <1>14. NoOrphanData'
    <2> SUFFICES ASSUME NEW j \in Item, data[j]
                 PROVE  (Interested(Root[j]) \/ \E u \in Reader :
                             At(u, "cleanup") /\ Root[reader[u].item] = Root[j])'
      BY <1>1 DEF NoOrphanData
    <2>1. CASE Root[j] = r
      BY <2>1, <1>1, <1>3, <1>5 DEF Interested, Reads
    <2>2. CASE Root[j] # r
      <3>1. Interested(Root[j]) \/ \E u \in Reader : At(u, "cleanup") /\ Root[reader[u].item] = Root[j]
        BY DEF IInv, NoOrphanData
      <3>2. \A u \in Reader : Reads(u, Root[j]) \/ At(u, "cleanup") => u # t
        BY <1>1 DEF Reads, At
      <3> QED BY <3>1, <3>2, <2>2, <1>1, <1>5, <1>6 DEF Interested, Wanted, Reads, At
    <2> QED BY <2>1, <2>2
  <1>15. UNCHANGED AbsVars
    <2>1. \A j : Producers(j)' = Producers(j)
      BY <1>1 DEF Producers, Producing
    <2> QED BY <1>1, <1>12, <2>1 DEF AbsVars, AbsReaders, AbsProducers, Contents
  <1> QED BY <1>7, <1>8, <1>9, <1>10, <1>11, <1>13, <1>14, <1>15 DEF IInv

\* A frame that ends or goes to the clean-up, with the item's section taken or given back and
\* the data possibly gone.
LEMMA MoveLast ==
    ASSUME IInv, NEW t \in Reader, NEW f \in FrameType,
           reader' = [reader EXCEPT ![t] = f], f.pc \in {"idle", "cleanup"}, f.ctx = NoCtx,
           UNCHANGED <<ctx, link, failed, itemCount, producer, dataLock, hold>>,
           actorLock' \in [Item -> Reader \cup {NoThread}], data' \in [Item -> BOOLEAN],
           reader[t].pc # "use",
           \A i \in Item : data'[i] => data[i],
           \A u \in Reader \ {t} : \A i \in Item : Reads(u, Root[i]) => data'[i] = data[i],
           NoOrphanData'
    PROVE  /\ IInv'
           /\ \A j : Users(j)' = Users(j) /\ Producers(j)' = Producers(j)
  <1>1. \A u \in Reader : reader'[u] = IF u = t THEN f ELSE reader[u]
    BY DEF IInv, TypeOK
  <1>2. TypeOK'
    BY DEF IInv, TypeOK
  <1>3. FramesOK'
    <2> SUFFICES ASSUME NEW u \in Reader PROVE FrameOK(u, reader[u])'
      BY DEF IInv, FramesOK
    <2>1. FrameOK(u, reader[u]) /\ reader[u].item \in Item
      BY FrameKnown
    <2>2. CASE u = t
      BY <2>2, <1>1 DEF FrameOK, LockingPc, ReadingPc
    <2>3. CASE u # t
      <3>1. reader[u].pc \in {"open", "openFirst", "use"} => data'[reader[u].item] = data[reader[u].item]
        BY <2>1, <2>3 DEF Reads
      <3> QED BY <2>1, <2>3, <3>1, <1>1 DEF FrameOK
    <2> QED BY <2>2, <2>3
  <1>4. DestructInv'
    BY DestructKept
  <1>5. Held(f) \subseteq Held(reader[t])
    BY HeldNothing DEF LockingPc, ReadingPc
  <1>6. LockInv'
    BY <1>5, LockKept
  <1>7. LinkInv' /\ ContentInv'
    <2>1. \A c \in Ctx : Target[c] \in Item
      BY AccessAssumption
    <2> QED BY <2>1 DEF IInv, LinkInv, ContentInv
  <1>8. \A j : Users(j)' = Users(j)
    BY UsersKept DEF IInv
  <1>9. DataInv'
    BY <1>8 DEF IInv, DataInv, Writers
  <1>10. \A j : Producers(j)' = Producers(j)
    BY DEF Producers, Producing
  <1> QED BY <1>2, <1>3, <1>4, <1>6, <1>7, <1>8, <1>9, <1>10 DEF IInv

LEMMA LetGoStep ==
    ASSUME IInv, NEW t \in Reader, LetGo(t) PROVE IInv' /\ UNCHANGED AbsVars
  <1> DEFINE r == Root[reader[t].item]
             last == /\ ~Wanted(r) /\ \A c \in Ctx : Result[c] = r => ctx[c] = "none"
                     /\ \A u \in Reader \ {t} : ~Reads(u, r)
             f == IF last THEN [reader[t] EXCEPT !.pc = "cleanup"] ELSE Idle(r)
  <1>1. /\ reader[t] \in FrameType /\ FrameOK(t, reader[t]) /\ reader[t].pc = "letgo"
        /\ reader[t].item \in Item /\ r \in Item /\ Root[r] = r
    BY FrameKnown DEF LetGo, At
  <1>2. reader[t].ctx = NoCtx
    BY <1>1 DEF FrameOK
  <1>3. /\ f \in FrameType /\ f.ctx = NoCtx /\ Root[f.item] = r
        /\ f.pc = IF last THEN "cleanup" ELSE "idle"
    BY <1>1, <1>2 DEF FrameType, Place, Idle, Frame
  <1>4. /\ reader' = [reader EXCEPT ![t] = f]
        /\ actorLock' = IF last THEN [actorLock EXCEPT ![r] = t] ELSE actorLock
        /\ UNCHANGED <<ctx, link, failed, itemCount, producer, data, dataLock, hold>>
    BY DEF LetGo, Goto, ctxVars, lockVars, dataVars, IInv, TypeOK
  <1> HIDE DEF f
  <1>5. actorLock' \in [Item -> Reader \cup {NoThread}] /\ data' \in [Item -> BOOLEAN]
    BY <1>1, <1>4 DEF IInv, TypeOK
  <1>6. \A u \in Reader : reader'[u] = IF u = t THEN f ELSE reader[u]
    BY <1>4 DEF IInv, TypeOK
  <1>7. NoOrphanData'
    <2> SUFFICES ASSUME NEW i \in Item, data[i]
                 PROVE  (Interested(Root[i]) \/ \E u \in Reader :
                             At(u, "cleanup") /\ Root[reader[u].item] = Root[i])'
      BY <1>4 DEF NoOrphanData
    <2>1. CASE Root[i] = r /\ last
      BY <2>1, <1>3, <1>6 DEF At
    <2>2. CASE Root[i] = r /\ ~last
      BY <2>2, <1>4, <1>6 DEF Interested, Wanted, Reads
    <2>3. CASE Root[i] # r
      <3>1. Interested(Root[i]) \/ \E u \in Reader : At(u, "cleanup") /\ Root[reader[u].item] = Root[i]
        BY DEF IInv, NoOrphanData
      <3>2. \A u \in Reader : Reads(u, Root[i]) \/ At(u, "cleanup") => u # t
        BY <1>1, <2>3 DEF Reads, At
      <3> QED BY <3>1, <3>2, <1>4, <1>6 DEF Interested, Wanted, Reads, At
    <2> QED BY <2>1, <2>2, <2>3
  <1>8. IInv' /\ \A j : Users(j)' = Users(j) /\ Producers(j)' = Producers(j)
    BY <1>1, <1>3, <1>4, <1>5, <1>7, MoveLast
  <1>9. UNCHANGED AbsVars
    BY <1>4, <1>8 DEF AbsVars, AbsReaders, AbsProducers, Contents
  <1> QED BY <1>8, <1>9

\* Data is discarded only where nobody reads it or makes it.
LEMMA CleanupStep ==
    ASSUME IInv, NEW t \in Reader, Cleanup(t) PROVE IInv' /\ AbsStep
  <1> DEFINE r == Root[reader[t].item]
             may == ~Interested(r) /\ itemCount[r] >= 0
             f == Idle(r)
  <1>1. /\ reader[t] \in FrameType /\ reader[t].pc = "cleanup" /\ r \in Item /\ Root[r] = r
    BY FrameKnown DEF Cleanup, At
  <1>2. f \in FrameType /\ f.ctx = NoCtx /\ f.pc = "idle"
    BY <1>1 DEF FrameType, Place, Idle, Frame
  <1>3. /\ reader' = [reader EXCEPT ![t] = f]
        /\ actorLock' = [actorLock EXCEPT ![r] = NoThread]
        /\ data' = [i \in Item |-> data[i] /\ ~(Root[i] = r /\ may)]
        /\ UNCHANGED <<ctx, link, failed, itemCount, producer, dataLock, hold>>
    BY DEF Cleanup, ctxVars, lockVars
  <1> HIDE DEF f
  <1>4. actorLock' \in [Item -> Reader \cup {NoThread}] /\ data' \in [Item -> BOOLEAN]
    BY <1>1, <1>3 DEF IInv, TypeOK
  <1>5. \A i \in Item : data'[i] <=> data[i] /\ ~(Root[i] = r /\ may)
    BY <1>3
  <1>6. \A u \in Reader : reader'[u] = IF u = t THEN f ELSE reader[u]
    BY <1>3 DEF IInv, TypeOK
  <1>7. \A u \in Reader \ {t} : \A i \in Item : Reads(u, Root[i]) => data'[i] = data[i]
    <2> SUFFICES ASSUME NEW u \in Reader \ {t}, NEW i \in Item, Reads(u, Root[i])
                 PROVE  data'[i] = data[i]
      OBVIOUS
    <2>1. ~(Root[i] = r /\ may)
      BY DEF Interested
    <2> QED BY <2>1, <1>4, <1>5 DEF IInv, TypeOK
  <1>8. NoOrphanData'
    <2> SUFFICES ASSUME NEW i \in Item, data'[i]
                 PROVE  (Interested(Root[i]) \/ \E u \in Reader :
                             At(u, "cleanup") /\ Root[reader[u].item] = Root[i])'
      BY DEF NoOrphanData
    <2>1. data[i] /\ ~(Root[i] = r /\ may)
      BY <1>5
    <2>2. \A u \in Reader : Reads(u, Root[i]) => u # t
      BY SMTT(30), <1>1 DEF Reads
    <2>3. CASE Root[i] = r
      <3>1. Interested(r)
        <4>1. CASE ~(itemCount[r] >= 0)
          <5>1. Shared(r) \in Nat /\ itemCount[r] \in Int
            BY <1>1, SharingFinite DEF IInv, TypeOK
          <5>2. Produced(r)
            BY <4>1, <5>1, <1>1 DEF IInv, LockInv, FreeOrShared
          <5>3. PICK c \in Ctx : Producers(r) = {c}
            BY <5>2 DEF Produced
          <5>4. c \in Ctx /\ Result[c] = r /\ ctx[c] # "none"
            BY <5>3 DEF Producers, Producing
          <5> QED BY <5>4 DEF Interested
        <4> QED BY <4>1, <2>1, <2>3
      <3> QED BY <3>1, <2>2, <2>3, <1>3, <1>6 DEF Interested, Wanted, Reads
    <2>4. CASE Root[i] # r
      <3>1. Interested(Root[i]) \/ \E u \in Reader : At(u, "cleanup") /\ Root[reader[u].item] = Root[i]
        BY <2>1 DEF IInv, NoOrphanData
      <3> QED BY <3>1, <2>2, <2>4, <1>3, <1>6 DEF Interested, Wanted, Reads, At
    <2> QED BY <2>3, <2>4
  <1>9. IInv' /\ \A j : Users(j)' = Users(j) /\ Producers(j)' = Producers(j)
    BY <1>1, <1>2, <1>3, <1>4, <1>5, <1>7, <1>8, MoveLast
  <1> DEFINE S == {i \in DataItem : Root[i] = r /\ may /\ data[i]}
  <1>10. Abstract!Discard(S)
    <2>1. \A i \in DataItem : i \in Item /\ Root[i] \in Item
      BY AccessAssumption DEF DataItem
    <2>2. \A i \in S : AbsReaders[i] = {} /\ AbsProducers[i] = {} /\ Contents[i] = "made"
      <3> SUFFICES ASSUME NEW i \in S
                   PROVE  Users(i) = {} /\ Producers(r) = {} /\ Contents[i] = "made"
        BY DEF AbsReaders, AbsProducers
      <3>1. i \in DataItem /\ Root[i] = r /\ ~Interested(r) /\ itemCount[r] >= 0 /\ data[i]
        OBVIOUS
      <3>2. Users(i) = {}
        BY <3>1 DEF Users, Interested, Reads, At
      <3>3. Producers(r) = {}
        BY <3>1, <1>1 DEF IInv, LockInv, FreeOrShared, Produced
      <3> QED BY <3>1, <3>2, <3>3 DEF Contents
    <2>3. UNCHANGED AbsReaders /\ UNCHANGED AbsProducers
      BY <1>9 DEF AbsReaders, AbsProducers
    <2>4. \A i \in DataItem : data[i] => ~failed[Root[i]]
      BY <2>1 DEF IInv, ContentInv
    <2>5. Contents' = [i \in DataItem |-> IF i \in S THEN "none" ELSE Contents[i]]
      BY <2>1, <2>4, <1>3, <1>5 DEF Contents
    <2> HIDE DEF S
    <2> QED BY <2>2, <2>3, <2>5 DEF Abstract!Discard, AbsReaders, AbsProducers
  <1>11. S \subseteq DataItem
    OBVIOUS
  <1> HIDE DEF S
  <1> QED BY <1>9, <1>10, <1>11 DEF AbsStep, Abstract!Next

-----------------------------------------------------------------------------
(* Theorems *)

LEMMA InitIInv == Init => IInv /\ Abstract!Init
  <1> SUFFICES ASSUME Init PROVE IInv /\ Abstract!Init
    OBVIOUS
  <1> DEFINE i0 == CHOOSE i \in Item : Root[i] = i
             f == Idle(i0)
  <1>1. i0 \in Item
    <2>1. \E i \in Item : Root[i] = i
      BY AccessAssumption
    <2> QED BY <2>1
  <1>2. f \in FrameType /\ f.pc = "idle" /\ f.ctx = NoCtx
    BY <1>1 DEF Idle, Frame, FrameType, Place
  <1>3. /\ \A t \in Reader : reader[t] = f
        /\ reader = [t \in Reader |-> f]
    BY DEF Init
  <1> HIDE DEF f
  <1>4. /\ ctx = [c \in Ctx |-> "none"] /\ link = [i \in Item |-> NoCtx]
        /\ itemCount = [i \in Item |-> 0] /\ producer = [i \in Item |-> NoCtx]
        /\ data = [i \in Item |-> FALSE] /\ dataLock = [i \in Item |-> 0]
        /\ failed = [i \in Item |-> FALSE] /\ hold = [t \in Reader |-> {}]
        /\ actorLock = [i \in Item |-> NoThread]
    BY DEF Init
  <1>5. TypeOK
    <2>1. 0 \in -1..Cardinality(Reader) /\ 0 \in Int
      BY UsersBounded
    <2>2. "none" \in Stage
      BY DEF Stage
    <2> QED BY <1>2, <1>3, <1>4, <2>1, <2>2 DEF TypeOK
  <1>6. FramesOK
    BY <1>2, <1>3, <1>4 DEF FramesOK, FrameOK, LockingPc, ReadingPc
  <1>7. DestructInv
    BY <1>2, <1>3 DEF DestructInv, At
  <1>8. \A j : Producers(j) = {} /\ Writers(j) = {}
    BY <1>4 DEF Producers, Producing, Writers
  <1>9. \A j : Users(j) = {}
    BY <1>2, <1>3 DEF Users, At
  <1>10. LockInv
    <2> SUFFICES ASSUME NEW j \in Item PROVE FreeOrShared(j)
      BY DEF LockInv
    <2>1. Held(f) = {}
      BY <1>2, HeldNothing DEF LockingPc, ReadingPc
    <2>2. Sharing(j) = {}
      BY <1>3, <2>1 DEF Sharing
    <2>3. Shared(j) = 0
      BY <2>2, SharingFinite
    <2> QED BY <1>4, <1>8, <2>3 DEF FreeOrShared
  <1>11. LinkInv
    BY <1>4 DEF LinkInv
  <1>12. DataInv
    BY <1>4, <1>8, <1>9, FS_EmptySet DEF DataInv
  <1>13. ContentInv
    BY <1>4 DEF ContentInv
  <1>14. NoOrphanData
    BY <1>4 DEF NoOrphanData
  <1>15. Abstract!Init
    <2>1. \A i \in DataItem : i \in Item /\ Root[i] \in Item
      BY AccessAssumption DEF DataItem
    <2>2. \A i \in DataItem : failed[Root[i]] = FALSE /\ data[i] = FALSE
      BY <1>4, <2>1
    <2>3. Contents = [i \in DataItem |-> "none"]
      BY <2>2 DEF Contents
    <2> QED BY <1>8, <1>9, <2>3 DEF Abstract!Init
  <1> QED BY <1>5, <1>6, <1>7, <1>10, <1>11, <1>12, <1>13, <1>14, <1>15 DEF IInv

\* Every step keeps the inductive invariant and is a step or a stutter of DataAccess.
LEMMA NextIInv == IInv /\ [Next]_vars => IInv' /\ [Abstract!Next]_(Abstract!vars)
  <1> SUFFICES ASSUME IInv, [Next]_vars PROVE IInv' /\ AbsStep
    BY DEF AbsStep, AbsVars, AbsReaders, AbsProducers, Abstract!vars
  <1>1. ASSUME NEW c \in Ctx, Produce(c) PROVE IInv' /\ AbsStep
    BY <1>1, ActivateStep, BeginWriteStep, EndWriteStep, ReleaseWriteLockStep, OnEndStep
       DEF Produce, AbsStep
  <1>2. ASSUME NEW t \in Reader, Read(t) PROVE IInv' /\ AbsStep
    BY <1>2, StartReadStep, PeekStep, JoinCountStep, LockStep, DeadlockStep, CheckStep, OpenStep,
       CloseStep, FreeReadStep, DropGarbageStep, DestructStep, LetGoStep, CleanupStep
       DEF Read, AbsStep
  <1>3. ASSUME NEW t \in Reader,
               \/ GiveUp(t)
               \/ \E i \in DataItem : Call(t, i)
               \/ \E c \in Ctx : Destroy(t, c)
               \/ \E r \in {Root[i] : i \in Item} : Want(t, r) \/ Release(t, r)
        PROVE  IInv' /\ AbsStep
    BY <1>3, GiveUpStep, CallStep, DestroyStep, WantStep, ReleaseStep DEF AbsStep
  <1>4. ASSUME UNCHANGED vars PROVE IInv' /\ AbsStep
    <2>1. UNCHANGED <<ctx, link, itemCount, producer, data, dataLock, failed, hold, actorLock, reader>>
      BY <1>4 DEF vars
    <2>2. UNCHANGED AbsVars
      BY <2>1 DEF AbsVars, AbsReaders, AbsProducers, Contents, Users, At, Producers, Producing
    <2>3. TypeOK' /\ FramesOK' /\ DestructInv' /\ LinkInv' /\ ContentInv'
      BY <2>1 DEF IInv, TypeOK, FramesOK, FrameOK, DestructInv, LinkInv, ContentInv, At
    <2>4. LockInv'
      BY <2>1 DEF IInv, LockInv, FreeOrShared, Produced, Producers, Producing, Shared, Sharing
    <2>5. DataInv'
      BY <2>1 DEF IInv, DataInv, Writers, Users, At
    <2>6. NoOrphanData'
      BY <2>1 DEF IInv, NoOrphanData, Interested, Wanted, Reads, At
    <2> QED BY <2>2, <2>3, <2>4, <2>5, <2>6 DEF IInv, AbsStep
  <1> QED BY <1>1, <1>2, <1>3, <1>4 DEF Next

\* What the inductive invariant gives of the properties that the runs check.
LEMMA IInvImplies == IInv => CountMatches /\ OneProducer /\ ReadsData
  <1> SUFFICES ASSUME IInv PROVE CountMatches /\ OneProducer /\ ReadsData
    OBVIOUS
  <1>1. ASSUME NEW j \in Item
        PROVE  /\ Unique(j) \in 0..1
               /\ Lost(j) >= 0 /\ (Unique(j) = 0 \/ Shared(j) + Lost(j) = 0)
               /\ \A c \in Producers(j) : ctx[c] = "expired" \/ producer[j] = c
    <2>1. itemCount[j] \in Int /\ Shared(j) \in Nat
      BY SharingFinite DEF IInv, TypeOK
    <2>2. CASE FreeOrShared(j)
      <3>1. Unique(j) = 0
        BY <2>2, FS_EmptySet DEF FreeOrShared, Unique
      <3> QED BY <2>1, <2>2, <3>1 DEF FreeOrShared, Lost
    <2>3. CASE Produced(j)
      <3>1. Unique(j) = 1
        BY <2>3, FS_Singleton DEF Produced, Unique
      <3>2. Shared(j) = 0
        BY <2>3, SharingFinite DEF Produced
      <3> QED BY <2>1, <2>3, <3>1, <3>2 DEF Produced, Lost
    <2> QED BY <2>2, <2>3 DEF IInv, LockInv
  <1>2. CountMatches
    BY <1>1 DEF CountMatches
  <1>3. OneProducer
    BY <1>1 DEF OneProducer
  <1>4. ASSUME NEW t \in Reader, At(t, "use")
        PROVE  LET i == reader[t].item IN data[i] /\ dataLock[i] > 0 /\ ~IsCalculating(i)
    <2> DEFINE i == reader[t].item
    <2>1. reader[t] \in FrameType /\ FrameOK(t, reader[t]) /\ reader[t].pc = "use" /\ i \in Item
          /\ Root[i] \in Item
      BY <1>4, FrameKnown DEF At
    <2>2. Root[i] \in Held(reader[t])
      BY <2>1, ReadersHoldRoot DEF ReadingPc
    <2>3. data[i]
      BY <2>1 DEF FrameOK
    <2>4. itemCount[Root[i]] >= 1 /\ Producers(Root[i]) = {}
      BY <2>1, <2>2, HeldIsShared
    <2>5. itemCount[i] >= 0
      <3>1. CASE Root[i] = i
        <4>1. itemCount[i] >= 1
          BY <3>1, <2>4
        <4>2. itemCount[i] \in Int
          BY <2>1 DEF IInv, TypeOK
        <4> QED BY <4>1, <4>2
      <3>2. CASE Root[i] # i
        <4>1. Producers(i) = {}
          BY <3>2, AccessAssumption DEF Producers, Producing
        <4>2. FreeOrShared(i)
          BY <2>1, <4>1 DEF IInv, LockInv, Produced
        <4>3. itemCount[i] \in Int /\ Shared(i) \in Nat
          BY <2>1, SharingFinite DEF IInv, TypeOK
        <4> QED BY <4>2, <4>3 DEF FreeOrShared
      <3> QED BY <3>1, <3>2
    <2>6. ~IsCalculating(i)
      <3>1. itemCount[i] \in Int /\ itemCount[Root[i]] \in Int
        BY <2>1 DEF IInv, TypeOK
      <3> QED BY <3>1, <2>4, <2>5 DEF IsCalculating
    <2>7. dataLock[i] > 0
      <3>1. t \in Users(i)
        BY <1>4 DEF Users
      <3>2. Cardinality(Users(i)) \in Nat /\ Cardinality(Users(i)) # 0
        BY <3>1, UsersBounded, FS_EmptySet
      <3>3. Writers(i) = {}
        BY <2>4, AccessAssumption DEF Writers, Producers, Producing
      <3> QED BY <2>1, <3>2, <3>3 DEF IInv, DataInv
    <2> QED BY <2>3, <2>6, <2>7
  <1>5. ReadsData
    BY <1>4 DEF ReadsData
  <1> QED BY <1>2, <1>3, <1>5

\* In every state of every run the locks, the links, the data and the frames are consistent.
THEOREM Invariance == Spec => []IInv
  <1>1. Init => IInv
    BY InitIInv
  <1>2. IInv /\ [Next]_vars => IInv'
    BY NextIInv
  <1> QED BY <1>1, <1>2, PTL DEF Spec

\* The variables keep their types.
THEOREM TypeCorrect == Spec => []TypeOK
  <1>1. IInv => TypeOK
    BY DEF IInv
  <1> QED BY <1>1, Invariance, PTL

\* No lock is given back twice, and no reader shares an item with its producer
\* (m_ItemCount, TreeItem lock_shared / unlock_shared / lock_unique).
THEOREM CountsAreRight == Spec => []CountMatches
  <1>1. IInv => CountMatches
    BY IInvImplies
  <1> QED BY <1>1, Invariance, PTL

\* An item never has two producers, however its FuncDC loses and regains interest.
THEOREM SingleProducer == Spec => []OneProducer
  <1>1. IInv => OneProducer
    BY IInvImplies
  <1> QED BY <1>1, Invariance, PTL

\* A DataReadLock gives data that nobody writes.
THEOREM ReadersSeeData == Spec => []ReadsData
  <1>1. IInv => ReadsData
    BY IInvImplies
  <1> QED BY <1>1, Invariance, PTL

\* Data does not stay behind without interest: the last one to let go cleans up.
THEOREM DataIsCleanedUp == Spec => []NoOrphanData
  <1>1. IInv => NoOrphanData
    BY DEF IInv
  <1> QED BY <1>1, Invariance, PTL

\* Item locks and data locks implement DataAccess.
THEOREM AccessRefinement == Spec => Implements
  <1>1. Init => Abstract!Init
    BY InitIInv
  <1>2. IInv /\ [Next]_vars => [Abstract!Next]_(Abstract!vars)
    BY NextIInv
  <1> QED BY <1>1, <1>2, Invariance, PTL DEF Spec, Implements, Abstract!Spec
=============================================================================
