--------------------------- MODULE TerminationRing --------------------------
(* LocalTerminationDetection (src/Termination.cpp): Dijkstra's ring with   *)
(* two successful passes.  The token goes round the active threads; thread *)
(* 0, the master, starts and ends every round.  The module holds the       *)
(* detector's own state and steps; ForEachWork says when threads call it.  *)
(*                                                                         *)
(* propToken writes the token's colour and then, behind a compiler         *)
(* barrier, hasToken of the next thread: two steps here.  The epoch, which *)
(* only memory reclamation reads, is left out, and with it first.          *)
EXTENDS Integers

CONSTANT N            \* activeThreads

ASSUME NAssumption == N \in Nat \ {0}

VARIABLES
    hasToken,         \* TokenHolder::hasToken of every thread
    tokenIsBlack,     \* TokenHolder::tokenIsBlack
    processIsBlack,   \* TokenHolder::processIsBlack
    lastWasWhite,     \* TokenHolder::lastWasWhite of the master
    globalTerm,       \* TerminationDetection::globalTerm
    taint             \* taint[t]: the local isBlack of propToken in t

ringVars == <<hasToken, tokenIsBlack, processIsBlack, lastWasWhite, globalTerm, taint>>

Ring == 0..(N - 1)
Master == 0
Successor(t) == (t + 1) % N

RingTypeOK ==
    /\ hasToken \in [Ring -> BOOLEAN]
    /\ tokenIsBlack \in [Ring -> BOOLEAN]
    /\ processIsBlack \in [Ring -> BOOLEAN]
    /\ lastWasWhite \in BOOLEAN
    /\ globalTerm \in BOOLEAN
    /\ taint \in [Ring -> BOOLEAN]

\* The static detector before its first use.
RingInit ==
    /\ hasToken = [t \in Ring |-> FALSE]
    /\ tokenIsBlack = [t \in Ring |-> FALSE]
    /\ processIsBlack = [t \in Ring |-> FALSE]
    /\ lastWasWhite = FALSE
    /\ globalTerm = FALSE
    /\ taint = [t \in Ring |-> FALSE]

\* Mutant: only the master's token is set, no other is taken away.
InitializeThreadToken(t) ==
    /\ hasToken' = [hasToken EXCEPT ![t] = @ \/ t = Master]
    /\ tokenIsBlack' = [tokenIsBlack EXCEPT ![t] = FALSE]
    /\ processIsBlack' = [processIsBlack EXCEPT ![t] = TRUE]
    /\ lastWasWhite' = IF t = Master THEN TRUE ELSE lastWasWhite
    /\ globalTerm' = FALSE
    /\ UNCHANGED taint

InitializeThread(t) ==
    /\ hasToken' = [hasToken EXCEPT ![t] = (t = Master)]
    /\ tokenIsBlack' = [tokenIsBlack EXCEPT ![t] = FALSE]
    /\ processIsBlack' = [processIsBlack EXCEPT ![t] = TRUE]
    /\ lastWasWhite' = IF t = Master THEN TRUE ELSE lastWasWhite
    /\ globalTerm' = FALSE
    /\ UNCHANGED taint

\* localTermination(workHappened) of a thread that has no token.
NoToken(t, workHappened) ==
    /\ ~hasToken[t]
    /\ processIsBlack' = [processIsBlack EXCEPT ![t] = @ \/ workHappened]
    /\ UNCHANGED <<hasToken, tokenIsBlack, lastWasWhite, globalTerm, taint>>

\* Mutant: the work of earlier calls is forgotten.
WhiteNow(t, workHappened) == ~tokenIsBlack[t] /\ ~workHappened

\* Neither the token nor the thread has seen work since the last pass.
White(t, workHappened) == ~tokenIsBlack[t] /\ ~processIsBlack[t] /\ ~workHappened

\* The master sees the second success: the token stays with it.
DetectTermination(workHappened) ==
    /\ hasToken[Master]
    /\ lastWasWhite
    /\ White(Master, workHappened)
    /\ globalTerm' = TRUE
    /\ UNCHANGED <<hasToken, tokenIsBlack, processIsBlack, lastWasWhite, taint>>

\* The master starts a new round; both colours are cleared before the taint
\* is computed, so the token leaves white.
Recirculate(workHappened) ==
    /\ hasToken[Master]
    /\ ~(lastWasWhite /\ White(Master, workHappened))
    /\ lastWasWhite' = White(Master, workHappened)
    /\ tokenIsBlack' = [tokenIsBlack EXCEPT ![Master] = FALSE]
    /\ processIsBlack' = [processIsBlack EXCEPT ![Master] = FALSE]
    /\ hasToken' = [hasToken EXCEPT ![Master] = FALSE]
    /\ taint' = [taint EXCEPT ![Master] = FALSE]
    /\ UNCHANGED globalTerm

\* Another thread takes the token off, adding its own colour.
Forward(t, workHappened) ==
    /\ t # Master
    /\ hasToken[t]
    /\ taint' = [taint EXCEPT ![t] = ~White(t, workHappened)]
    /\ tokenIsBlack' = [tokenIsBlack EXCEPT ![t] = FALSE]
    /\ processIsBlack' = [processIsBlack EXCEPT ![t] = FALSE]
    /\ hasToken' = [hasToken EXCEPT ![t] = FALSE]
    /\ UNCHANGED <<lastWasWhite, globalTerm>>

PassToken(t, workHappened) ==
    \/ t = Master /\ Recirculate(workHappened)
    \/ Forward(t, workHappened)

\* propToken, first the colour, then the token.
SendColour(t) ==
    /\ tokenIsBlack' = [tokenIsBlack EXCEPT ![Successor(t)] = taint[t]]
    /\ UNCHANGED <<hasToken, processIsBlack, lastWasWhite, globalTerm, taint>>

\* Mutant: the last thread does not give the token back to the master.
SendTokenInRange(t) ==
    /\ hasToken' = [u \in Ring |-> hasToken[u] \/ u = t + 1]
    /\ taint' = [taint EXCEPT ![t] = FALSE]
    /\ UNCHANGED <<tokenIsBlack, processIsBlack, lastWasWhite, globalTerm>>

SendToken(t) ==
    /\ hasToken' = [hasToken EXCEPT ![Successor(t)] = TRUE]
    /\ taint' = [taint EXCEPT ![t] = FALSE]
    /\ UNCHANGED <<tokenIsBlack, processIsBlack, lastWasWhite, globalTerm>>
=============================================================================
