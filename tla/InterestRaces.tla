--------------------------- MODULE InterestRaces ---------------------------
(***************************************************************************)
(* The interest counts of InterestCount until one of two races of the meta *)
(* thread with a thread that stops interest.  The history variable raced   *)
(* records them; the code has no such variable.                            *)
(***************************************************************************)
EXTENDS InterestCount

VARIABLE raced \* history: one of the two races has happened

Stopping(a, pcs) == \E f \in InProgress(a) : f.op = "dec" /\ f.pc \in pcs

\* SetReferredItem replaces mc_RefItem, without a look at the lock of the actor, after the
\* last interest was taken away and before StopInterest has read mc_RefItem.
Misread ==
    \E a \in Actor : ref'[a] # ref[a] /\ Stopping(a, {"units", "parent", "calc"})

\* DoInvalidate, which saw interest, registers supplier interest when there is none any
\* more and StopSupplInterest has been.
Unobserved ==
    \E a \in Actor :
        /\ ~hasSuppl[a] /\ hasSuppl'[a] /\ count[a] = 0
        /\ ~\E f \in InProgress(a) : f.op = "inc"
        /\ ~Stopping(a, {"units"})

rvars == <<vars, raced>>

Record == raced' = (raced \/ Misread \/ Unobserved)

RInit == Init /\ raced = FALSE

\* The steps of Next, recorded.
RNext ==
    \/ \E t \in Thread :
        \/ Visit(t) /\ Record
        \/ Release(t) /\ Record
        \/ ReleaseEnd(t) /\ Record
        \/ IncCount(t) /\ Record
        \/ IncLock(t) /\ Record
        \/ IncNext(t) /\ Record
        \/ CheckFailure(t) /\ Record
        \/ Register(t) /\ Record
        \/ IncRef(t) /\ Record
        \/ IncFinish(t) /\ Record
        \/ IncFail(t) /\ Record
        \/ DecCount(t) /\ Record
        \/ DecLock(t) /\ Record
        \/ StopSupplInterest(t) /\ Record
        \/ DecCalc(t) /\ Record
        \/ DecRef(t) /\ Record
        \/ DecUnlock(t) /\ Record
        \/ RebindRead(t) /\ Record
        \/ RebindSwap(t) /\ Record
        \/ RestartSwap(t) /\ Record
        \/ DoInvalidate(t) /\ Record
        \/ FailMove(t) /\ Record
        \/ \E a \in Actor :
            \/ Take(t, a) /\ Record
            \/ TakeIfAny(t, a) /\ Record
            \/ Drop(t, a) /\ Record
            \/ DoFail(t, a) /\ Record
    \/ \E a \in Actor :
        \/ \E r \in Ref[a] : SetReferredItem(a, r) /\ Record
        \/ InvalidateAt(a) /\ Record
        \/ InvalidateBlocked(a) /\ Record
        \/ Restart(a) /\ Record

RSpec == RInit /\ [][RNext]_rvars

\* A thread that can go on does, and a thread that waits for a lock that is free again
\* and again gets it.
FairRSpec == RSpec /\ \A t \in Thread : SF_vars(Continue(t))

NotRaced == ~raced

----------------------------------------------------------------------------
(* Properties. *)

\* No interest is lost and none is leaked before a race.
AccountedUntilRace == raced \/ Accounted

\* Before a race no thread lets go of interest that there is not.
DecHasInterestUntilRace == raced \/ DecHasInterest

\* Before a race supplier interest without interest is being started or stopped.
ObservedUntilRace == raced \/ SupplInterestIsObserved

\* Before a race only the meta thread starts interest.
StartsOnMetaUntilRace == raced \/ StartsOnMeta

\* Every call ends, whatever locks it needs, unless a race happens or the meta thread makes
\* a call inside sg_CountSection that needs that section.
CallsEnd == <>(raced \/ ~SectionFree) \/ \A t \in Thread : []<>IsIdle(t)

IInvUntilRace == raced \/ IInv
=============================================================================
