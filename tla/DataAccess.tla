---------------------------- MODULE DataAccess ----------------------------
(***************************************************************************)
(* What item locks and data locks promise: the data of an item is made by  *)
(* one producer while nobody reads it, does not change while somebody      *)
(* reads it, and is discarded only when nobody reads or makes it.          *)
(* ItemAccess implements it.                                               *)
(***************************************************************************)
CONSTANTS Item, Reader, Producer

VARIABLES
    content,   \* per item: "none", "made" or "failed"
    readers,   \* per item: who reads its data
    producers  \* per item: who makes its data

vars == <<content, readers, producers>>

Init ==
    /\ content = [i \in Item |-> "none"]
    /\ readers = [i \in Item |-> {}]
    /\ producers = [i \in Item |-> {}]

BeginProduce(p, i) ==
    /\ producers[i] = {} /\ readers[i] = {}
    /\ producers' = [producers EXCEPT ![i] = {p}]
    /\ UNCHANGED <<content, readers>>

EndProduce(p, i) ==
    /\ producers[i] = {p}
    /\ producers' = [producers EXCEPT ![i] = {}]
    /\ UNCHANGED <<content, readers>>

\* A producer delivers data or a failure.
Deliver(i, v) ==
    /\ producers[i] # {} /\ v \in {"made", "failed"}
    /\ content' = [content EXCEPT ![i] = v]
    /\ UNCHANGED <<readers, producers>>

BeginRead(t, i) ==
    /\ content[i] = "made" /\ producers[i] = {}
    /\ readers' = [readers EXCEPT ![i] = @ \cup {t}]
    /\ UNCHANGED <<content, producers>>

EndRead(t, i) ==
    /\ t \in readers[i]
    /\ readers' = [readers EXCEPT ![i] = @ \ {t}]
    /\ UNCHANGED <<content, producers>>

Discard(S) ==
    /\ \A i \in S : readers[i] = {} /\ producers[i] = {} /\ content[i] = "made"
    /\ content' = [i \in Item |-> IF i \in S THEN "none" ELSE content[i]]
    /\ UNCHANGED <<readers, producers>>

Next ==
    \/ \E i \in Item :
          \/ \E p \in Producer : BeginProduce(p, i) \/ EndProduce(p, i)
          \/ \E t \in Reader : BeginRead(t, i) \/ EndRead(t, i)
          \/ \E v \in {"made", "failed"} : Deliver(i, v)
    \/ \E S \in SUBSET Item : Discard(S)

Spec == Init /\ [][Next]_vars
=============================================================================
