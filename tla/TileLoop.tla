------------------------------ MODULE TileLoop ------------------------------
(***************************************************************************)
(* What a parallel loop promises to the operator that calls parallel_for   *)
(* or throttled_async (tic/dll/src/ParallelTiles.h): each index is worked  *)
(* on at most once, a loop that returns has worked on all of them, and no  *)
(* work is in progress on a loop that has ended.  How tickets, workers and *)
(* stealing achieve it is left to TileTaskGroup.                           *)
(***************************************************************************)
EXTENDS Integers

CONSTANTS
    Loop,    \* the loops that can be in progress
    MaxLast  \* bound on the number of indices of a loop

VARIABLES
    phase,   \* "idle", "open" or "returned": normally left by Join
    pending, \* the indices that nobody has worked on yet
    busy,    \* the indices being worked on
    done     \* the indices whose work was completed

loopVars == <<phase, pending, busy, done>>

Init ==
    /\ phase = [g \in Loop |-> "idle"]
    /\ pending = [g \in Loop |-> {}]
    /\ busy = [g \in Loop |-> {}]
    /\ done = [g \in Loop |-> {}]

Begin(g, n) ==
    /\ phase[g] = "idle"
    /\ phase' = [phase EXCEPT ![g] = "open"]
    /\ pending' = [pending EXCEPT ![g] = 0 .. n - 1]
    /\ UNCHANGED <<busy, done>>

\* A set of indices is moved from pending to busy, after those in finished
\* are completed: a worker completes one and continues with the next.
Work(g, finished, taken) ==
    /\ finished \subseteq busy[g]
    /\ taken \subseteq pending[g]
    /\ pending' = [pending EXCEPT ![g] = @ \ taken]
    /\ busy' = [busy EXCEPT ![g] = (@ \ finished) \cup taken]
    /\ done' = [done EXCEPT ![g] = @ \cup finished]
    /\ UNCHANGED phase

\* The work on an index fails, or the caller gives up: nobody starts the rest.
GiveUp(g, failed) ==
    /\ failed \subseteq busy[g]
    /\ pending' = [pending EXCEPT ![g] = {}]
    /\ busy' = [busy EXCEPT ![g] = @ \ failed]
    /\ UNCHANGED <<phase, done>>

\* Join returns without an exception.
Return(g, n) ==
    /\ phase[g] = "open"
    /\ busy[g] = {} /\ pending[g] = {}
    /\ done[g] = 0 .. n - 1
    /\ phase' = [phase EXCEPT ![g] = "returned"]
    /\ UNCHANGED <<pending, busy, done>>

\* The loop ends, after a return or because the caller was left by an exception.
End(g) ==
    /\ phase[g] # "idle"
    /\ busy[g] = {}
    /\ phase' = [phase EXCEPT ![g] = "idle"]
    /\ pending' = [pending EXCEPT ![g] = {}]
    /\ done' = [done EXCEPT ![g] = {}]
    /\ UNCHANGED busy

Next ==
    \E g \in Loop :
      \/ \E n \in 0 .. MaxLast : Begin(g, n) \/ Return(g, n)
      \/ \E finished, taken \in SUBSET (0 .. MaxLast - 1) : Work(g, finished, taken)
      \/ \E failed \in SUBSET (0 .. MaxLast - 1) : GiveUp(g, failed)
      \/ End(g)

LoopSpec == Init /\ [][Next]_loopVars
=============================================================================
