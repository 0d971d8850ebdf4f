----------------------------- MODULE ReaderFarm -----------------------------
(*****************************************************************************)
(* The reader_clone_farm of an item that is read tile by tile from a storage *)
(* (tic/dll/src/AbstrDataItem.cpp): a counting semaphore and a stack of      *)
(* tokens under a mutex.  A token is the index of a clone of the storage     *)
(* manager, which its owner uses without any lock.                           *)
(*                                                                           *)
(* Every action is one step of acquire() or release(); the mutex m_CloneCS   *)
(* is held within one step only.                                             *)
(*****************************************************************************)
EXTENDS Integers, Sequences, FiniteSets

CONSTANTS
    Thread,    \* the threads that read tiles
    Source,    \* the items that have a farm
    NrTokens,  \* MaxConcurrentTreads(), the clones of a farm
    NoToken

ASSUME FarmAssumption ==
    /\ NrTokens \in Nat \ {0}
    /\ NoToken \notin 0 .. NrTokens - 1

VARIABLES
    countdown, \* m_Countdown of each farm
    tokens,    \* m_Tokens of each farm, the last one on top
    token      \* the local variable token of each thread

farmVars == <<countdown, tokens, token>>

Clone == 0 .. NrTokens - 1

\* reader_clone_farm::reader_clone_farm: the last token is that of clone 0.
FarmInit ==
    /\ countdown = [i \in Source |-> NrTokens]
    /\ tokens = [i \in Source |-> [n \in 1 .. NrTokens |-> NrTokens - n]]
    /\ token = [t \in Thread |-> NoToken]

\* m_Countdown.acquire() blocks while the count is 0.
Countdown(i) ==
    /\ countdown[i] > 0
    /\ countdown' = [countdown EXCEPT ![i] = @ - 1]
    /\ UNCHANGED <<tokens, token>>

\* Mutant: the guard that returns the token is a temporary, which does so at once.
TakeTokenReleased(t, i) ==
    /\ tokens[i] # <<>>
    /\ token' = [token EXCEPT ![t] = tokens[i][Len(tokens[i])]]
    /\ countdown' = [countdown EXCEPT ![i] = @ + 1]
    /\ UNCHANGED tokens

\* The token on top is taken; back() of an empty vector is undefined.
TakeToken(t, i) ==
    /\ tokens[i] # <<>>
    /\ token' = [token EXCEPT ![t] = tokens[i][Len(tokens[i])]]
    /\ tokens' = [tokens EXCEPT ![i] = SubSeq(@, 1, Len(@) - 1)]
    /\ UNCHANGED countdown

\* release() first gives the token back ...
GiveToken(t, i) ==
    /\ tokens' = [tokens EXCEPT ![i] = Append(@, token[t])]
    /\ token' = [token EXCEPT ![t] = NoToken]
    /\ UNCHANGED countdown

\* ... and then counts up, which wakes a thread that waits in acquire().
CountUp(i) ==
    /\ countdown' = [countdown EXCEPT ![i] = @ + 1]
    /\ UNCHANGED <<tokens, token>>
=============================================================================
