------------------------ MODULE MCOperationScheduler ------------------------
(* Small instances of OperationScheduler for TLC. *)
EXTENDS OperationScheduler, TLC

CONSTANTS a, b, q, r

Nothing == [c \in Op |-> {}]

\* a and b are in phase 1, the container q is in phase 2; or only a is in phase 1; or a
\* and b, which depend on another container, are in phase 3.
ThreePhases == [c \in Op |-> IF c = q THEN 2 ELSE 3]
TwoPhases == [c \in Op |-> IF c = q THEN 2 ELSE 1]
AFirst == [c \in Op |-> IF c = a THEN 1 ELSE 2]

\* a supplies b.
Chain == [c \in Op |-> IF c = b THEN {a} ELSE {}]

\* a and q supply b.
Join2 == [c \in Op |-> IF c = b THEN {a, q} ELSE {}]

\* The operator of r waits for q.
RReadsQ == [c \in Op |-> IF c = r THEN {q} ELSE {}]

\* A view asks for b with its arguments, or for r, and not for both (a state constraint).
OneView == status[r] = "none" \/ (status[a] = "none" /\ status[b] = "none")

\* q collects b.
QReadsB == [c \in Op |-> IF c = q THEN {b} ELSE {}]
=============================================================================
