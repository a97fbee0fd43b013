-------------------------- MODULE ForEachInvariant --------------------------
(* The inductive invariant behind the safety of ForEachWork.               *)
EXTENDS ForEachWork

-----------------------------------------------------------------------------
(* Phases of a loop.                                                       *)

BeforeLoop(t) == pc[t] \in {"init", "initWork", "enter"}

Phases ==
    /\ (\E t \in Ring : pc[t] \in {"init", "initWork"}) => \A u \in Ring : BeforeLoop(u)
    /\ (\E t \in Ring : pc[t] = "out") => \A u \in Ring : pc[u] \in {"leave", "out"}
    /\ \A t \in Ring : pc[t] \in {"leave", "out"} => globalTerm \/ broke

\* What the locals of a thread are at each point of its program.
Locals ==
    \A t \in Ring :
        /\ pc[t] \notin {"process", "processAborted"} => current[t] = {}
        /\ pc[t] \in {"process", "processAborted"} => didWork[t]
        /\ didWork[t] => pc[t] \in {"pop", "process", "popAborted", "processAborted",
                                    "localTermination"}
        /\ pc[t] \in {"popAborted", "localTermination"} /\ ~didWork[t] => bag[t] = {}
        /\ pc[t] \in {"popAborted", "processAborted"} \/ aborted[t] # {} => CouldAbort

-----------------------------------------------------------------------------
(* The ring, once every thread has called initializeThread.                *)

AllInitialized == \A t \in Ring : pc[t] # "init"

\* A thread that called initializeThread before any has passed the barrier.
FreshThread(t) ==
    /\ hasToken[t] = (t = Master)
    /\ ~tokenIsBlack[t]
    /\ processIsBlack[t]
    /\ t = Master => lastWasWhite
    /\ ~globalTerm

FreshRing ==
    (\A t \in Ring : BeforeLoop(t)) => \A t \in Ring : pc[t] # "init" => FreshThread(t)

\* The token is in one place: held by a thread or on its way from one.
TokenPlace ==
    AllInitialized =>
        \E t \in Ring :
            /\ hasToken[t] # Sending(t)
            /\ \A u \in Ring \ {t} : ~hasToken[u] /\ ~Sending(u)

ColourSent ==
    \A t \in Ring : pc[t] = "sendToken" => tokenIsBlack[Successor(t)] = taint[t]

TokenBlack ==
    \E t \in Ring : (hasToken[t] /\ tokenIsBlack[t]) \/ (Sending(t) /\ taint[t])

\* The token has passed t in this round.  The master is checked last: its
\* colour counts when the token is back.
Visited(t) ==
    /\ t # Master
    /\ \E u \in Ring :
         \/ hasToken[u] /\ (u = Master \/ t < u)
         \/ Sending(u) /\ t <= u

\* Thread t will blacken the token when it passes it on.
Dirty(t) == processIsBlack[t] \/ didWork[t]

\* A thread the white token has passed owns nothing unless it will report it.
VisitedOwnNothing ==
    ~TokenBlack => \A t \in Ring : Visited(t) /\ ~Dirty(t) => bag[t] = {}

\* After a white round, a thread still to be visited that owns something
\* will report it.
UnvisitedReport ==
    lastWasWhite => \A t \in Ring : ~Visited(t) /\ ~Dirty(t) => bag[t] = {}

\* An item another thread aborts into the queue of a thread that is about to
\* pass the token without having seen it is reported by the other thread.
AbortsReported ==
    \A t \in Ring :
        pc[t] = "localTermination" /\ ~Dirty(t) /\ aborted[t] # {} =>
            \/ TokenBlack
            \/ ~Visited(t) /\ ~lastWasWhite
            \/ \E u \in Ring : Dirty(u) /\ (Visited(t) \/ ~Visited(u))

\* In the second white round, the visited threads are quiet as long as no
\* thread ahead of the token is going to blacken it.
VisitedQuiet ==
    ~TokenBlack /\ lastWasWhite /\ (\A t \in Ring : ~Visited(t) => ~Dirty(t))
        => \A t \in Ring : Visited(t) => Quiet(t)

AfterDetection ==
    globalTerm =>
        /\ \A t \in Ring : Quiet(t)
        /\ hasToken[Master]
        /\ pc[Master] \in {"check", "leave", "out"}

RingInv ==
    AllInitialized =>
        VisitedOwnNothing /\ UnvisitedReport /\ AbortsReported /\ VisitedQuiet /\ AfterDetection

-----------------------------------------------------------------------------
\* The items that are somewhere in the loop and have not committed.
Outstanding ==
    {x \in Tasks : \E t \in Ring : \/ x \in bag[t]
                                  \/ \E item \in aborted[t] \cup current[t] : item[1] = x}

ItemsKept == pushed = committed \cup Outstanding

IInv ==
    /\ TypeOK
    /\ Phases
    /\ Locals
    /\ FreshRing
    /\ TokenPlace
    /\ ColourSent
    /\ RingInv
    /\ ItemsKept
=============================================================================
