--------------------------- MODULE MultiQueueLoop ---------------------------
(* A for_each loop over a MultiQueue: MultiQueue as the worklist of        *)
(* ForEachWork::go (Runtime/ParallelWork.h) for an operator that neither   *)
(* aborts nor breaks, with the termination ring of Termination.cpp.        *)
(* ForEachWork checks the loop over worklists with owned elements; here a  *)
(* pop may answer "nothing" although elements are left, and the module     *)
(* shows what that means for the end of the loop.                          *)
EXTENDS MultiQueue, TerminationRing

VARIABLES
    at,               \* where thread t is in the loop
    didWork           \* didWork of go()

vars == <<mqVars, ringVars, at, didWork>>
loopVars == <<ringVars, didWork>>

Go(t, label) == at' = [at EXCEPT ![t] = label]

Init ==
    /\ MQInit
    /\ RingInit
    /\ at = [t \in Ring |-> "init"]
    /\ didWork = [t \in Ring |-> FALSE]

InitThread(t) ==
    /\ at[t] = "init"
    /\ InitializeThread(t)
    /\ Go(t, "initWork")
    /\ UNCHANGED <<mqVars, didWork>>

AddInitialWork(t) ==
    /\ at[t] = "initWork"
    /\ \/ \E share \in SUBSET (Tasks \ pushed) : PushBegin(t, share) /\ Go(t, "pushInitial")
       \/ Go(t, "enter") /\ UNCHANGED mqVars
    /\ UNCHANGED loopVars

\* A step of the push or the pop the thread is in.
Worklist(t) ==
    /\ at[t] \in {"pushInitial", "push", "pop"}
    /\ QueueStep(t)
    /\ UNCHANGED <<loopVars, at>>

PushDone(t) ==
    /\ at[t] \in {"pushInitial", "push"}
    /\ pc[t] = "idle"
    /\ Go(t, IF at[t] = "push" THEN "next" ELSE "enter")
    /\ UNCHANGED <<mqVars, loopVars>>

Enter(t) ==
    /\ at[t] = "enter"
    /\ \A u \in Ring : at[u] \notin {"init", "initWork", "pushInitial"}
    /\ Go(t, "next")
    /\ UNCHANGED <<mqVars, loopVars>>

\* runQueueSimple: the next pop.
NextPop(t) ==
    /\ at[t] = "next"
    /\ Pop(t)
    /\ Go(t, "pop")
    /\ UNCHANGED loopVars

\* pop has returned an element, which the operator processes, or nothing.
PopDone(t) ==
    /\ at[t] = "pop"
    /\ pc[t] = "idle"
    /\ Go(t, IF answer[t] = {} THEN "localTermination" ELSE "process")
    /\ didWork' = [didWork EXCEPT ![t] = @ \/ answer[t] # {}]
    /\ UNCHANGED <<mqVars, ringVars>>

\* The iteration commits; what the operator has pushed goes to the worklist.
Process(t) ==
    /\ at[t] = "process"
    /\ \/ \E range \in SUBSET (Tasks \ pushed) : PushBegin(t, range) /\ Go(t, "push")
       \/ Go(t, "next") /\ UNCHANGED mqVars
    /\ UNCHANGED loopVars

LocalTermination(t) ==
    /\ at[t] = "localTermination"
    /\ \/ NoToken(t, didWork[t]) /\ Go(t, "check")
       \/ t = Master /\ DetectTermination(didWork[t]) /\ Go(t, "check")
       \/ PassToken(t, didWork[t]) /\ Go(t, "sendColour")
    /\ didWork' = [didWork EXCEPT ![t] = FALSE]
    /\ UNCHANGED mqVars

PropToken(t) ==
    /\ \/ at[t] = "sendColour" /\ SendColour(t) /\ Go(t, "sendToken")
       \/ at[t] = "sendToken" /\ SendToken(t) /\ Go(t, "check")
    /\ UNCHANGED <<mqVars, didWork>>

Check(t) ==
    /\ at[t] = "check"
    /\ Go(t, IF globalTerm THEN "leave" ELSE "next")
    /\ UNCHANGED <<mqVars, loopVars>>

Next == \E t \in Ring :
    \/ InitThread(t) \/ AddInitialWork(t) \/ Worklist(t) \/ PushDone(t) \/ Enter(t)
    \/ NextPop(t) \/ PopDone(t) \/ Process(t) \/ LocalTermination(t) \/ PropToken(t)
    \/ Check(t)

Spec == Init /\ [][Next]_vars

-----------------------------------------------------------------------------
(* The assertion at the head of localTermination: no thread reports work    *)
(* after termination has been announced.                                    *)
NoWorkAfterDetection ==
    \A t \in Ring : at[t] = "localTermination" /\ didWork[t] => ~globalTerm
=============================================================================
