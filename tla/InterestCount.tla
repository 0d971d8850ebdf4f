--------------------------- MODULE InterestCount ---------------------------
(***************************************************************************)
(* Interest in actors (rtc/dll/src/act/Actor.cpp), with what tree items    *)
(* add to it (tic/dll/src/TreeItem.cpp, AbstrDataItem.cpp).  An actor with *)
(* interest holds interest in its units, its parent, its suppliers, its    *)
(* data controller and the item it refers to.  Only the meta thread starts *)
(* interest; any thread that has interest may copy it and let it go, and   *)
(* the last one to let go stops it.                                        *)
(*                                                                         *)
(* A thread is a stack of frames, one per call in progress.  A critical    *)
(* section of sg_CountSection, sc_MoveSupplInterestSection or              *)
(* sc_FailSection that makes no call is one step.  sg_ActorLockMap is      *)
(* actorLock; sg_CountSection has a holder only where the code makes a     *)
(* call inside it.                                                         *)
(***************************************************************************)
EXTENDS Integers, Sequences, FiniteSets, Functions, SequencesExt

CONSTANTS
    Actor,
    NoActor,
    Meta,        \* the meta thread
    Worker,      \* the other threads
    NoThread,
    Units,       \* Units[a]: the domain and values unit of a data item
    Parent,      \* Parent[a]: its tree parent, as a set of at most one
    Suppl,       \* Suppl[a]: the suppliers its visitor meets at StartSupplInterest
    Calc,        \* Calc[a]: its mc_DC, as a set of at most one
    Ref,         \* Ref[a]: what mc_RefItem may be set to
    Rebindable,  \* the actors whose mc_RefItem may change
    Changeable,  \* the actors that are invalidated
    MayFail,     \* the actors whose data generation may fail
    MaxHandles   \* bound on the interest pointers of a thread to one actor

Thread == {Meta} \cup Worker

\* What an actor with interest may hold interest in, and what that leads to.
Needs(a) == Units[a] \cup Parent[a] \cup Suppl[a] \cup Calc[a] \cup (Ref[a] \ {NoActor})
Reach(S) ==
    {b \in Actor :
        \A T \in SUBSET Actor : S \subseteq T /\ (\A c \in T : Needs(c) \subseteq T) => b \in T}
Under(a) == Reach(Needs(a))

\* The section of an actor in sg_ActorLockMap is not recursive: an actor that needs itself
\* could not start interest.
ASSUME InterestAssumption ==
    /\ NoActor \notin Actor /\ NoThread \notin Thread /\ Meta \notin Worker
    /\ IsFiniteSet(Actor) /\ IsFiniteSet(Worker)
    /\ Units \in [Actor -> SUBSET Actor]
    /\ Parent \in [Actor -> SUBSET Actor]
    /\ Suppl \in [Actor -> SUBSET Actor]
    /\ Calc \in [Actor -> SUBSET Actor]
    /\ Ref \in [Actor -> SUBSET (Actor \cup {NoActor})]
    /\ MaxHandles \in Nat \ {0}
    /\ \A a \in Actor : a \notin Under(a)

VARIABLES
    count,        \* m_InterestCount
    suppl,        \* the actor's entry in s_SupplTreeInterest
    hasSuppl,     \* AF_SupplInterest
    failed,       \* WasFailed(FailType::Data)
    ref,          \* mc_RefItem
    actorLock,    \* the holder of the actor's section in sg_ActorLockMap
    countSection, \* the thread that makes calls while it holds sg_CountSection
    handles,      \* interest pointers per thread
    stack         \* the calls in progress per thread

vars == <<count, suppl, hasSuppl, failed, ref, actorLock, countSection, handles, stack>>

----------------------------------------------------------------------------
(* Bags of actors and frames. *)

Nil == [x \in Actor |-> 0]
Bag(S) == [x \in Actor |-> IF x \in S THEN 1 ELSE 0]
Plus(f, g) == [x \in Actor |-> f[x] + g[x]]

\* todo: actors still to be called; got: interest gained and not yet handed over;
\* list: the supplier list being built; drop: interest to be let go.
Frame(op, a, pc) ==
    [op |-> op, a |-> a, pc |-> pc, todo |-> {}, got |-> Nil, list |-> {}, drop |-> Nil,
     next |-> NoActor]

IncFrame(a) == Frame("inc", a, "count")
DecFrame(a) == Frame("dec", a, "count")

Top(t) == Last(stack[t])
At(t, op, pc) == stack[t] # <<>> /\ Top(t).op = op /\ Top(t).pc = pc
IsIdle(t) == stack[t] = <<>>
Below(t) == Front(stack[t])
Depth(t) == Len(stack[t])

Goto(t, f) == stack' = [stack EXCEPT ![t] = Append(Front(@), f)]
Call(t, f, g) == stack' = [stack EXCEPT ![t] = Append(Append(Front(@), f), g)]
Enter(t, f) == stack' = [stack EXCEPT ![t] = Append(@, f)]

SectionFree == countSection = NoThread

----------------------------------------------------------------------------
(* Leaving a frame. *)

\* IncInterestCount(y) returned to frame f.
Gained(f, y) ==
    CASE f.pc = "suppl" -> [f EXCEPT !.list = @ \cup {y}]
      [] f.pc = "ref"   -> [f EXCEPT !.got = Plus(@, Bag({y})), !.pc = "finish"]
      [] f.pc = "read"  -> [f EXCEPT !.got = Plus(@, Bag({y})), !.pc = "swap"]
      [] OTHER          -> [f EXCEPT !.got = Plus(@, Bag({y}))]

ReturnInc(t) ==
    LET y == Top(t).a
        s == Below(t)
    IN  IF s = <<>>
        THEN /\ stack' = [stack EXCEPT ![t] = <<>>]
             /\ handles' = [handles EXCEPT ![t][y] = @ + 1]
        ELSE /\ stack' = [stack EXCEPT ![t] = Append(Front(s), Gained(Last(s), y))]
             /\ UNCHANGED handles

\* What a frame that is left by an exception has to let go: the holders on its stack,
\* the list it was building and, in TreeItem::StartInterest, undoActorInterest.
Unwound(f, moved) ==
    [f EXCEPT !.pc = IF f.op = "inc" THEN "unwind" ELSE "waste",
              !.todo = {}, !.got = Nil, !.list = {},
              !.drop = Plus(Plus(@, f.got), Plus(Bag(f.list), Bag(moved)))]

\* MoveSupplInterest: both the entry and the flag go, in one critical section.
MoveSuppl(a) ==
    /\ suppl' = [suppl EXCEPT ![a] = {}]
    /\ hasSuppl' = [hasSuppl EXCEPT ![a] = FALSE]

Throw(t, s) ==
    IF s = <<>>
    THEN /\ stack' = [stack EXCEPT ![t] = <<>>]
         /\ UNCHANGED <<suppl, hasSuppl>>
    ELSE LET f == Last(s)
             moves == f.op = "inc" /\ hasSuppl[f.a]
         IN  /\ stack' = [stack EXCEPT ![t] =
                            Append(Front(s), Unwound(f, IF moves THEN suppl[f.a] ELSE {}))]
             /\ IF moves THEN MoveSuppl(f.a) ELSE UNCHANGED <<suppl, hasSuppl>>

\* DecInterestCount returns its garbage to a StopInterest that called it, which merges
\* it; any other caller lets go of it at once.
ReturnDec(t, garbage) ==
    LET s == Below(t)
        merges == s # <<>> /\ Last(s).op = "dec" /\ Last(s).pc # "waste"
    IN  stack' = [stack EXCEPT ![t] =
            IF garbage = Nil THEN s
            ELSE IF merges
                 THEN Append(Front(s), [Last(s) EXCEPT !.drop = Plus(@, garbage)])
                 ELSE Append(s, [Top(t) EXCEPT !.pc = "waste", !.drop = garbage])]

----------------------------------------------------------------------------
(* What threads do with interest. *)

\* An interest pointer is made: on the meta thread, or as a copy of one the thread has.
Take(t, a) ==
    /\ IsIdle(t) /\ handles[t][a] < MaxHandles
    /\ t = Meta \/ handles[t][a] > 0
    /\ Enter(t, IncFrame(a))
    /\ UNCHANGED <<count, suppl, hasSuppl, failed, ref, actorLock, countSection, handles>>

\* Mutant: the look at the count and the increment are not one critical section.
TakeIfSeen(t, a) ==
    /\ IsIdle(t) /\ handles[t][a] < MaxHandles /\ SectionFree
    /\ count[a] > 0
    /\ Enter(t, IncFrame(a))
    /\ UNCHANGED <<count, suppl, hasSuppl, failed, ref, actorLock, countSection, handles>>

\* GetInterestPtrOrNull.
TakeIfAny(t, a) ==
    /\ IsIdle(t) /\ handles[t][a] < MaxHandles /\ SectionFree
    /\ count[a] > 0
    /\ count' = [count EXCEPT ![a] = @ + 1]
    /\ handles' = [handles EXCEPT ![t][a] = @ + 1]
    /\ UNCHANGED <<suppl, hasSuppl, failed, ref, actorLock, countSection, stack>>

\* An interest pointer is destroyed.
Drop(t, a) ==
    /\ IsIdle(t) /\ handles[t][a] > 0
    /\ handles' = [handles EXCEPT ![t][a] = @ - 1]
    /\ Enter(t, DecFrame(a))
    /\ UNCHANGED <<count, suppl, hasSuppl, failed, ref, actorLock, countSection>>

\* DoFail with a failure of at most FailType::Data, by any thread, with interest in the
\* actor or without.  sc_FailSection is held until the supplier interest was moved out.
DoFail(t, a) ==
    /\ IsIdle(t) /\ a \in MayFail /\ ~failed[a]
    /\ failed' = [failed EXCEPT ![a] = TRUE]
    /\ Enter(t, Frame("fail", a, "move"))
    /\ UNCHANGED <<count, suppl, hasSuppl, ref, actorLock, countSection, handles>>

\* TreeItem::SetReferredItem.
SetReferredItem(a, r) ==
    /\ IsIdle(Meta) /\ a \in Rebindable /\ r \in Ref[a] /\ r # ref[a]
    /\ Enter(Meta, [Frame("rebind", a, "read") EXCEPT !.next = r])
    /\ UNCHANGED <<count, suppl, hasSuppl, failed, ref, actorLock, countSection, handles>>

\* InvalidateAt, as far as interest goes: the failure is cleared, the supplier interest
\* moved out, and DoInvalidate lets go of mc_RefItem first.
InvalidateAt(a) ==
    /\ IsIdle(Meta) /\ a \in Changeable
    /\ failed' = [failed EXCEPT ![a] = FALSE]
    /\ LET f == [Frame("invalidate", a, "check") EXCEPT
                    !.drop = Bag(IF hasSuppl[a] THEN suppl[a] ELSE {})]
           r == [Frame("rebind", a, "read") EXCEPT !.next = NoActor]
       IN  stack' = [stack EXCEPT ![Meta] = IF ref[a] = NoActor THEN <<f>> ELSE <<f, r>>]
    /\ IF hasSuppl[a] THEN MoveSuppl(a) ELSE UNCHANGED <<suppl, hasSuppl>>
    /\ UNCHANGED <<count, ref, actorLock, countSection, handles>>

\* InvalidateAt of an actor under an InvalidationBlock clears the failure and returns.
InvalidateBlocked(a) ==
    /\ IsIdle(Meta) /\ a \in Changeable /\ failed[a]
    /\ failed' = [failed EXCEPT ![a] = FALSE]
    /\ UNCHANGED <<count, suppl, hasSuppl, ref, actorLock, countSection, handles, stack>>

\* FuncDC::MakeResult restarts supplier interest under the lock of the actor.
Restart(a) ==
    /\ IsIdle(Meta) /\ actorLock[a] = NoThread
    /\ count[a] > 0 /\ hasSuppl[a]
    /\ actorLock' = [actorLock EXCEPT ![a] = Meta]
    /\ Enter(Meta, [Frame("restart", a, "suppl") EXCEPT !.todo = Suppl[a]])
    /\ UNCHANGED <<count, suppl, hasSuppl, failed, ref, countSection, handles>>

----------------------------------------------------------------------------
(* Calls to other actors, one after the other. *)

\* The next unit, parent, supplier or data controller of the frame.
Visit(t) ==
    /\ ~IsIdle(t) /\ Top(t).todo # {}
    /\ Top(t).op = "inc" => Top(t).drop = Nil
    /\ \E y \in Top(t).todo :
          Call(t, [Top(t) EXCEPT !.todo = @ \ {y}],
               IF Top(t).op = "dec" THEN DecFrame(y) ELSE IncFrame(y))
    /\ UNCHANGED <<count, suppl, hasSuppl, failed, ref, actorLock, countSection, handles>>

\* Interest that is let go, a supplier list or what a holder had.
Release(t) ==
    /\ ~IsIdle(t) /\ Top(t).drop # Nil /\ Top(t).pc \in {"waste", "unwind", "calc"}
    /\ Top(t).op = "dec" => Top(t).pc = "waste"
    /\ \E y \in Actor :
          /\ Top(t).drop[y] > 0
          /\ Call(t, [Top(t) EXCEPT !.drop[y] = @ - 1], DecFrame(y))
    /\ UNCHANGED <<count, suppl, hasSuppl, failed, ref, actorLock, countSection, handles>>

\* All was let go; RestartSupplInterestIfAny ran under the lock of the actor.
ReleaseEnd(t) ==
    /\ ~IsIdle(t) /\ Top(t).pc = "waste" /\ Top(t).drop = Nil
    /\ stack' = [stack EXCEPT ![t] = Below(t)]
    /\ actorLock' = IF Top(t).op = "restart"
                    THEN [actorLock EXCEPT ![Top(t).a] = NoThread] ELSE actorLock
    /\ UNCHANGED <<count, suppl, hasSuppl, failed, ref, countSection, handles>>

----------------------------------------------------------------------------
(* Actor::IncInterestCount and the StartInterest of a data item. *)

\* Interest that exists is shared; else UpdateLock throws for an actor that failed.
IncCount(t) ==
    LET a == Top(t).a
    IN  /\ At(t, "inc", "count") /\ SectionFree
        /\ IF count[a] > 0
           THEN /\ count' = [count EXCEPT ![a] = @ + 1] /\ ReturnInc(t)
                /\ UNCHANGED <<suppl, hasSuppl>>
           ELSE /\ IF failed[a] THEN Throw(t, Below(t))
                   ELSE Goto(t, [Top(t) EXCEPT !.pc = "lock"]) /\ UNCHANGED <<suppl, hasSuppl>>
                /\ UNCHANGED <<count, handles>>
        /\ UNCHANGED <<failed, ref, actorLock, countSection>>

\* The second look, under the lock of the actor.
IncLock(t) ==
    LET a == Top(t).a
    IN  /\ At(t, "inc", "lock") /\ actorLock[a] = NoThread /\ SectionFree
        /\ IF count[a] > 0
           THEN /\ count' = [count EXCEPT ![a] = @ + 1] /\ ReturnInc(t)
                /\ UNCHANGED actorLock
           ELSE /\ actorLock' = [actorLock EXCEPT ![a] = t]
                /\ Goto(t, [Top(t) EXCEPT !.pc = "units", !.todo = Units[a]])
                /\ UNCHANGED <<count, handles>>
        /\ UNCHANGED <<suppl, hasSuppl, failed, ref, countSection>>

\* Units, then the parent, then StartSupplInterest unless the actor failed, then mc_DC.
IncNext(t) ==
    LET f == Top(t)
    IN  /\ ~IsIdle(t) /\ f.op = "inc" /\ f.pc \in {"units", "parent"} /\ f.todo = {}
        /\ Goto(t, IF f.pc = "units" THEN [f EXCEPT !.pc = "parent", !.todo = Parent[f.a]]
                   ELSE IF failed[f.a] THEN [f EXCEPT !.pc = "calc", !.todo = Calc[f.a]]
                   ELSE [f EXCEPT !.pc = "suppl", !.todo = Suppl[f.a]])
        /\ UNCHANGED <<count, suppl, hasSuppl, failed, ref, actorLock, countSection, handles>>

\* StartSupplInterest returns to StartInterest, which goes on to mc_DC, or to DoInvalidate.
Supplied(f) ==
    IF f.op = "inc" THEN [f EXCEPT !.pc = "calc", !.todo = Calc[f.a], !.list = {}]
    ELSE [f EXCEPT !.pc = "waste", !.list = {}]

\* The end of StartSupplInterest: the failure is looked at again; DoFail sets it without
\* sc_MoveSupplInterestSection, so that registering the list is a step of its own.
CheckFailure(t) ==
    LET f == Top(t)
    IN  /\ At(t, "inc", "suppl") \/ At(t, "invalidate", "suppl")
        /\ f.todo = {}
        /\ Goto(t, IF failed[f.a]
                   THEN [Supplied(f) EXCEPT !.drop = Plus(@, Bag(f.list))]
                   ELSE [f EXCEPT !.pc = "register"])
        /\ UNCHANGED <<count, suppl, hasSuppl, failed, ref, actorLock, countSection, handles>>

Register(t) ==
    LET f == Top(t)
    IN  /\ ~IsIdle(t) /\ f.pc = "register"
        /\ suppl' = [suppl EXCEPT ![f.a] = f.list]
        /\ hasSuppl' = [hasSuppl EXCEPT ![f.a] = TRUE]
        /\ Goto(t, Supplied(f))
        /\ UNCHANGED <<count, failed, ref, actorLock, countSection, handles>>

\* refItemHolder = mc_RefItem.
IncRef(t) ==
    LET f == Top(t)
    IN  /\ At(t, "inc", "calc") /\ f.todo = {} /\ f.drop = Nil
        /\ IF ref[f.a] = NoActor THEN Goto(t, [f EXCEPT !.pc = "finish"])
           ELSE Call(t, [f EXCEPT !.pc = "ref"], IncFrame(ref[f.a]))
        /\ UNCHANGED <<count, suppl, hasSuppl, failed, ref, actorLock, countSection, handles>>

IncFinish(t) ==
    LET a == Top(t).a
    IN  /\ At(t, "inc", "finish") /\ SectionFree
        /\ count' = [count EXCEPT ![a] = @ + 1]
        /\ actorLock' = [actorLock EXCEPT ![a] = NoThread]
        /\ ReturnInc(t)
        /\ UNCHANGED <<suppl, hasSuppl, failed, ref, countSection>>

\* StartInterest threw and has let everything go: the actor fails for its meta info.
IncFail(t) ==
    LET a == Top(t).a
    IN  /\ At(t, "inc", "unwind") /\ Top(t).drop = Nil
        /\ failed' = [failed EXCEPT ![a] = TRUE]
        /\ actorLock' = [actorLock EXCEPT ![a] = NoThread]
        /\ Throw(t, Below(t))
        /\ UNCHANGED <<count, ref, countSection, handles>>

----------------------------------------------------------------------------
(* Actor::DecInterestCount and the StopInterest of a data item. *)

\* The mitigation for a count of zero, and DecCountIfAboveZero.
DecCount(t) ==
    LET a == Top(t).a
    IN  /\ At(t, "dec", "count") /\ SectionFree
        /\ IF count[a] = 1
           THEN Goto(t, [Top(t) EXCEPT !.pc = "lock"]) /\ UNCHANGED count
           ELSE /\ ReturnDec(t, Nil)
                /\ count' = IF count[a] = 0 THEN count ELSE [count EXCEPT ![a] = @ - 1]
        /\ UNCHANGED <<suppl, hasSuppl, failed, ref, actorLock, countSection, handles>>

\* Under the lock of the actor: another thread may have taken interest.
DecLock(t) ==
    LET a == Top(t).a
    IN  /\ At(t, "dec", "lock") /\ actorLock[a] = NoThread /\ SectionFree
        /\ count' = [count EXCEPT ![a] = @ - 1]
        /\ IF count[a] # 1
           THEN ReturnDec(t, Nil) /\ UNCHANGED actorLock
           ELSE /\ actorLock' = [actorLock EXCEPT ![a] = t]
                /\ Goto(t, [Top(t) EXCEPT !.pc = "units", !.todo = Units[a]])
        /\ UNCHANGED <<suppl, hasSuppl, failed, ref, countSection, handles>>

\* Mutant: supplier interest stays when interest stops.
StopKeepsSuppl(t) ==
    LET f == Top(t)
    IN  /\ At(t, "dec", "units") /\ f.todo = {}
        /\ Goto(t, [f EXCEPT !.pc = "parent", !.todo = Parent[f.a]])
        /\ UNCHANGED <<count, suppl, hasSuppl, failed, ref, actorLock, countSection, handles>>

\* After the units, StopSupplInterest moves the supplier interest to the garbage.
StopSupplInterest(t) ==
    LET f == Top(t)
    IN  /\ At(t, "dec", "units") /\ f.todo = {}
        /\ Goto(t, [f EXCEPT !.pc = "parent", !.todo = Parent[f.a],
                             !.drop = Plus(@, Bag(IF hasSuppl[f.a] THEN suppl[f.a] ELSE {}))])
        /\ IF hasSuppl[f.a] THEN MoveSuppl(f.a) ELSE UNCHANGED <<suppl, hasSuppl>>
        /\ UNCHANGED <<count, failed, ref, actorLock, countSection, handles>>

\* After the parent comes mc_DC.
DecCalc(t) ==
    LET f == Top(t)
    IN  /\ At(t, "dec", "parent") /\ f.todo = {}
        /\ Goto(t, [f EXCEPT !.pc = "calc", !.todo = Calc[f.a]])
        /\ UNCHANGED <<count, suppl, hasSuppl, failed, ref, actorLock, countSection, handles>>

\* mc_RefItem is read without sg_CountSection.
DecRef(t) ==
    LET f == Top(t)
        done == [f EXCEPT !.pc = "unlock"]
    IN  /\ At(t, "dec", "calc") /\ f.todo = {}
        /\ IF ref[f.a] = NoActor THEN Goto(t, done) ELSE Call(t, done, DecFrame(ref[f.a]))
        /\ UNCHANGED <<count, suppl, hasSuppl, failed, ref, actorLock, countSection, handles>>

\* Mutant: the lock of the actor is not given back.
DecKeepsLock(t) ==
    /\ At(t, "dec", "unlock")
    /\ ReturnDec(t, Top(t).drop)
    /\ UNCHANGED <<count, suppl, hasSuppl, failed, ref, actorLock, countSection, handles>>

DecUnlock(t) ==
    /\ At(t, "dec", "unlock")
    /\ actorLock' = [actorLock EXCEPT ![Top(t).a] = NoThread]
    /\ ReturnDec(t, Top(t).drop)
    /\ UNCHANGED <<count, suppl, hasSuppl, failed, ref, countSection, handles>>

----------------------------------------------------------------------------
(* The rest of what the meta thread and a failing thread do. *)

\* SetReferredItem: the new item gets interest if this item has interest.
RebindRead(t) ==
    LET f == Top(t)
    IN  /\ At(t, "rebind", "read")
        /\ IF count[f.a] > 0 /\ f.next # NoActor THEN Call(t, f, IncFrame(f.next))
           ELSE Goto(t, [f EXCEPT !.pc = "swap"])
        /\ UNCHANGED <<count, suppl, hasSuppl, failed, ref, actorLock, countSection, handles>>

\* Mutant: the interest in the old item is not let go, the new one's is kept.
RebindKeepsOld(t) ==
    LET f == Top(t)
    IN  /\ At(t, "rebind", "swap") /\ SectionFree
        /\ ref' = [ref EXCEPT ![f.a] = f.next]
        /\ Goto(t, [f EXCEPT !.got = Nil, !.pc = "waste"])
        /\ UNCHANGED <<count, suppl, hasSuppl, failed, actorLock, countSection, handles>>

\* Under sg_CountSection: swap.  Where interest was lost since RebindRead, the new item's
\* is let go before the section is left; DecInterestCount takes the same section, so that
\* this frame is never returned to.
RebindSwap(t) ==
    LET f == Top(t)
        swapped == [f EXCEPT !.got = Nil, !.pc = "waste"]
    IN  /\ At(t, "rebind", "swap") /\ SectionFree
        /\ IF count[f.a] = 0 /\ f.got # Nil
           THEN /\ countSection' = t
                /\ Call(t, [f EXCEPT !.got = Nil, !.pc = "relock"], DecFrame(f.next))
                /\ UNCHANGED ref
           ELSE /\ ref' = [ref EXCEPT ![f.a] = f.next]
                /\ Goto(t, IF count[f.a] = 0 THEN swapped
                           ELSE [swapped EXCEPT !.drop = Bag({ref[f.a]})])
                /\ UNCHANGED countSection
        /\ UNCHANGED <<count, suppl, hasSuppl, failed, actorLock, handles>>

\* RestartSupplInterestIfAny: the new list replaces the old one if there still is one.
RestartSwap(t) ==
    LET f == Top(t)
        swaps == hasSuppl[f.a] /\ ~failed[f.a]
    IN  /\ At(t, "restart", "suppl") /\ f.todo = {}
        /\ suppl' = IF swaps THEN [suppl EXCEPT ![f.a] = f.list] ELSE suppl
        /\ Goto(t, [f EXCEPT !.pc = "waste", !.list = {},
                             !.drop = Bag(IF swaps THEN suppl[f.a] ELSE f.list)])
        /\ UNCHANGED <<count, hasSuppl, failed, ref, actorLock, countSection, handles>>

\* Actor::DoInvalidate restarts supplier interest for an actor with interest; its UpdateLock
\* throws, and StartSupplInterest returns, for an actor that failed.
DoInvalidate(t) ==
    LET f == Top(t)
    IN  /\ At(t, "invalidate", "check")
        /\ Goto(t, IF count[f.a] > 0 /\ ~failed[f.a]
                   THEN [f EXCEPT !.pc = "suppl", !.todo = Suppl[f.a]]
                   ELSE [f EXCEPT !.pc = "waste"])
        /\ UNCHANGED <<count, suppl, hasSuppl, failed, ref, actorLock, countSection, handles>>

\* DoFail moves the supplier interest out and lets it go when it has left sc_FailSection.
FailMove(t) ==
    LET f == Top(t)
    IN  /\ At(t, "fail", "move")
        /\ Goto(t, [f EXCEPT !.pc = "waste",
                             !.drop = Bag(IF hasSuppl[f.a] THEN suppl[f.a] ELSE {})])
        /\ IF hasSuppl[f.a] THEN MoveSuppl(f.a) ELSE UNCHANGED <<suppl, hasSuppl>>
        /\ UNCHANGED <<count, failed, ref, actorLock, countSection, handles>>

----------------------------------------------------------------------------
(* The specification. *)

Init ==
    /\ count = [a \in Actor |-> 0]
    /\ suppl = [a \in Actor |-> {}]
    /\ hasSuppl = [a \in Actor |-> FALSE]
    /\ failed = [a \in Actor |-> FALSE]
    /\ ref = [a \in Actor |-> NoActor]
    /\ actorLock = [a \in Actor |-> NoThread]
    /\ countSection = NoThread
    /\ handles = [t \in Thread |-> Nil]
    /\ stack = [t \in Thread |-> <<>>]

\* A call in progress makes its next step.
Continue(t) ==
    \/ Visit(t) \/ Release(t) \/ ReleaseEnd(t)
    \/ IncCount(t) \/ IncLock(t) \/ IncNext(t) \/ CheckFailure(t) \/ Register(t)
    \/ IncRef(t) \/ IncFinish(t) \/ IncFail(t)
    \/ DecCount(t) \/ DecLock(t) \/ StopSupplInterest(t) \/ DecCalc(t) \/ DecRef(t) \/ DecUnlock(t)
    \/ RebindRead(t) \/ RebindSwap(t) \/ RestartSwap(t) \/ DoInvalidate(t) \/ FailMove(t)

Use(t) ==
    \E a \in Actor : Take(t, a) \/ TakeIfAny(t, a) \/ Drop(t, a) \/ DoFail(t, a)

Change ==
    \E a \in Actor :
        \/ \E r \in Ref[a] : SetReferredItem(a, r)
        \/ InvalidateAt(a) \/ InvalidateBlocked(a)
        \/ Restart(a)

Next == (\E t \in Thread : Continue(t) \/ Use(t)) \/ Change

Spec == Init /\ [][Next]_vars

----------------------------------------------------------------------------
(* Properties. *)

FrameType ==
    [op: {"inc", "dec", "rebind", "invalidate", "restart", "fail"}, a: Actor,
     pc: {"count", "lock", "units", "parent", "suppl", "register", "calc", "ref", "finish", "unwind",
          "unlock", "read", "swap", "relock", "check", "move", "waste"},
     todo: SUBSET Actor, got: [Actor -> Nat], list: SUBSET Actor, drop: [Actor -> Nat],
     next: Actor \cup {NoActor}]

\* The types of the variables; MaxHandles bounds what a thread takes.
TypeOK ==
    /\ count \in [Actor -> Nat]
    /\ suppl \in [Actor -> SUBSET Actor]
    /\ hasSuppl \in [Actor -> BOOLEAN] /\ failed \in [Actor -> BOOLEAN]
    /\ ref \in [Actor -> Actor \cup {NoActor}]
    /\ \A a \in Actor : ref[a] \in Ref[a] \cup {NoActor}
    /\ actorLock \in [Actor -> Thread \cup {NoThread}]
    /\ countSection \in Thread \cup {NoThread}
    /\ handles \in [Thread -> [Actor -> 0..MaxHandles]]
    /\ stack \in [Thread -> Seq(FrameType)]

InProgress(a) == {f \in UNION {ToSet(stack[t]) : t \in Thread} : f.a = a}

\* What a frame must still let go or hand over: what it gained, what it is about to let
\* go, and for an actor whose last interest was taken away, all that it still holds.
Owed(f) ==
    LET later == Plus(Bag(Calc[f.a]), Bag({ref[f.a]}))
    IN  Plus(Plus(Plus(f.got, f.drop), Bag(f.list)),
             IF f.op # "dec" THEN Nil
             ELSE CASE f.pc \in {"count", "lock"} -> Bag({f.a})
                    [] f.pc = "units"  -> Plus(Bag(f.todo), Plus(Bag(Parent[f.a]), later))
                    [] f.pc = "parent" -> Plus(Bag(f.todo), later)
                    [] f.pc = "calc"   -> Plus(Bag(f.todo), Bag({ref[f.a]}))
                    [] OTHER -> Nil)

OwedBy(t, a) ==
    handles[t][a] + SumFunction([i \in DOMAIN stack[t] |-> Owed(stack[t][i])[a]])

\* What an actor holds: its supplier list and, when it has interest, its units, its parent,
\* its data controller and what it refers to.
Holds(b) ==
    Plus(Bag(suppl[b]),
         IF count[b] = 0 THEN Nil
         ELSE Plus(Plus(Bag(Units[b]), Bag(Parent[b])), Plus(Bag(Calc[b]), Bag({ref[b]}))))

\* No interest is lost and none is leaked: the count of an actor is the number of interest
\* pointers to it, of actors and supplier lists that hold it and of calls in progress that
\* still have to let it go.  The variables have their types.
Accounted ==
    /\ TypeOK
    /\ \A a \in Actor :
        count[a] = SumFunction([t \in Thread |-> OwedBy(t, a)])
                   + SumFunction([b \in Actor |-> Holds(b)[a]])

\* Interest is never let go by a thread when there is none: the assertion of
\* DecInterestCount (Actor.cpp:1217).
DecHasInterest ==
    \A t \in Thread : \A i \in DOMAIN stack[t] :
        LET f == stack[t][i] IN f.op = "dec" /\ f.pc \in {"count", "lock"} => count[f.a] > 0

\* Supplier interest without interest exists only while it is started or stopped, and there
\* is none when interest starts (Actor.cpp:1167, 1260).
SupplInterestIsObserved ==
    \A a \in Actor :
        hasSuppl[a] /\ count[a] = 0 =>
            \E f \in InProgress(a) :
                \/ f.op = "inc" /\ f.pc \in {"calc", "ref", "finish"}
                \/ f.op = "dec" /\ f.pc = "units"

\* An actor that failed for its data lets its suppliers go (Actor.cpp:588).
FailedReleases ==
    \A a \in Actor : failed[a] /\ hasSuppl[a] => InProgress(a) # {}

\* Only the meta thread starts interest (Actor.cpp:1139): what another thread copies still
\* has interest when the copy is counted.
StartsOnMeta ==
    \A w \in Worker : \A i \in DOMAIN stack[w] :
        LET f == stack[w][i] IN f.op = "inc" => f.pc = "count" /\ count[f.a] > 0

\* An actor with interest has supplier interest or has failed, unless a call for it is in
\* progress (Actor.cpp:322, 589).
ObservedOrFailed ==
    \A a \in Actor : count[a] > 0 /\ ~hasSuppl[a] /\ ~failed[a] => InProgress(a) # {}

----------------------------------------------------------------------------
(* The parts of the inductive invariant of InterestRaces. *)

\* Frame f with the actors P that it is gaining interest in; r is what its actor refers to.
IncContent(f, P, r) ==
    LET gaining == Plus(Plus(f.got, Bag(f.todo)), Bag(P))
        units == Bag(Units[f.a])
        both == Plus(units, Bag(Parent[f.a]))
        all == Plus(both, Bag(Calc[f.a]))
    IN  /\ f.pc \in {"units", "parent", "suppl", "calc"} \/ f.todo = {}
        /\ f.pc \in {"units", "parent", "suppl", "calc"} \/ P = {} \/ (f.pc = "ref" /\ P = {r})
        /\ f.pc \in {"calc", "unwind"} \/ f.drop = Nil
        /\ CASE f.pc \in {"count", "lock", "unwind"} -> f.got = Nil
             [] f.pc = "units" -> gaining = units
             [] f.pc = "parent" -> gaining = both
             [] f.pc \in {"suppl", "register"} -> f.got = both
             [] f.pc = "calc" -> gaining = all
             [] f.pc = "ref" -> f.got = all
             [] f.pc = "finish" -> f.got = Plus(all, Bag({r}))
             [] OTHER -> FALSE

DecContent(f, P) ==
    /\ f.pc \in {"count", "lock", "units", "parent", "calc", "unlock", "waste"}
    /\ P = {} /\ f.got = Nil
    /\ f.pc \in {"units", "parent", "calc"} \/ f.todo = {}
    /\ f.pc \in {"count", "lock"} => f.drop = Nil

RebindContent(f, P) ==
    /\ f.pc \in {"read", "swap", "relock", "waste"}
    /\ f.next \in Ref[f.a] \cup {NoActor} /\ f.todo = {}
    /\ f.pc = "waste" \/ f.drop = Nil
    /\ f.pc = "swap" \/ f.got = Nil
    /\ P = {} \/ (f.pc = "read" /\ P = {f.next})

RestContent(f, P) ==
    /\ f.pc \in CASE f.op = "invalidate" -> {"check", "suppl", "register", "waste"}
                  [] f.op = "restart" -> {"suppl", "waste"}
                  [] OTHER -> {"move", "waste"}
    /\ f.got = Nil
    /\ f.pc = "suppl" \/ (f.todo = {} /\ P = {})
    /\ f.op = "invalidate" \/ f.pc = "waste" \/ f.drop = Nil

Content(f, P, r) ==
    /\ \A x \in Actor :
          x \in f.todo \/ x \in f.list \/ f.got[x] > 0 \/ f.drop[x] > 0 => x \in Under(f.a)
    /\ f.pc \in {"suppl", "register"} \/ f.list = {}
    /\ f.pc \in {"suppl", "register"} => f.todo \cup f.list \cup P \subseteq Suppl[f.a]
    /\ f.pc = "suppl" => f.todo \cap f.list = {} /\ P \cap (f.todo \cup f.list) = {}
    /\ CASE f.op = "inc" -> IncContent(f, P, r)
         [] f.op = "dec" -> DecContent(f, P)
         [] f.op = "rebind" -> RebindContent(f, P)
         [] OTHER -> RestContent(f, P)

\* Frame f made the call g.
Calls(f, g) ==
    \/ g.op = "inc" /\ g.a \in Under(f.a)
    \/ /\ g.op = "dec" /\ g.a \in Under(f.a)
       /\ \/ f.pc \in {"waste", "relock"}
          \/ f.op = "inc" /\ f.pc \in {"calc", "unwind"}
          \/ f.op = "dec" /\ f.pc \in {"units", "parent", "calc", "unlock"}
    \/ g.op = "rebind" /\ f.op = "invalidate" /\ f.pc = "check" /\ g.a = f.a

Gaining(s, i) == IF i < Len(s) /\ s[i + 1].op = "inc" THEN {s[i + 1].a} ELSE {}

\* The calls s of a thread; all are for what the first one needs.
Stacked(s, refs) ==
    \A i \in DOMAIN s :
        /\ Content(s[i], Gaining(s, i), refs[s[i].a])
        /\ i > 1 => /\ Calls(s[i - 1], s[i])
                    /\ s[i].a \in Under(s[1].a) \/ (i = 2 /\ s[i].op = "rebind" /\ s[i].a = s[1].a)

StackInv == \A t \in Thread : Stacked(stack[t], ref)

\* The first call of a thread, and what other threads than the meta thread do: they let go,
\* they fail, and they copy what they have.
BaseInv ==
    /\ \A t \in Thread : stack[t] # <<>> /\ stack[t][1].op = "inc" =>
          handles[t][stack[t][1].a] < MaxHandles
    /\ \A w \in Worker : \A i \in DOMAIN stack[w] :
          LET f == stack[w][i]
          IN  /\ f.op \in {"inc", "dec", "fail"}
              /\ f.op = "inc" => i = 1 /\ f.pc = "count" /\ handles[w][f.a] > 0

Locked(f) ==
    \/ f.op = "inc" /\ f.pc \notin {"count", "lock"}
    \/ f.op = "dec" /\ f.pc \in {"units", "parent", "calc", "unlock"}
    \/ f.op = "restart"

\* The section of an actor is held by one call, during which there is no interest in it
\* unless its supplier interest is restarted.
LockInv ==
    \A t \in Thread : \A i \in DOMAIN stack[t] :
        LET f == stack[t][i]
        IN  Locked(f) =>
               /\ actorLock[f.a] = t
               /\ f.op # "restart" => count[f.a] = 0
               /\ \A j \in DOMAIN stack[t] : Locked(stack[t][j]) /\ stack[t][j].a = f.a => j = i

\* SetReferredItem has interest in the new item where it is needed; InvalidateAt still sees
\* no supplier interest.
SeenInv ==
    \A t \in Thread : \A i \in DOMAIN stack[t] :
        LET f == stack[t][i]
        IN  /\ f.op = "rebind" /\ f.pc = "swap" =>
                  f.got = Bag({f.next}) \/ (f.got = Nil /\ count[f.a] = 0)
            /\ f.op = "invalidate" /\ f.pc # "waste" => ~hasSuppl[f.a]

\* sg_CountSection stays with the meta thread when it calls DecInterestCount inside it.
SectionInv ==
    /\ countSection \in {NoThread, Meta}
    /\ countSection = Meta => At(Meta, "dec", "count")
    /\ \A t \in Thread : \A i \in DOMAIN stack[t] :
          stack[t][i].pc = "relock" => countSection = Meta

SupplInv == \A a \in Actor : suppl[a] \subseteq IF hasSuppl[a] THEN Suppl[a] ELSE {}

IInv ==
    /\ Accounted /\ StackInv /\ BaseInv /\ LockInv /\ SeenInv /\ SectionInv
    /\ SupplInv /\ SupplInterestIsObserved
=============================================================================
