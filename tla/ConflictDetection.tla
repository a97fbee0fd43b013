------------------------- MODULE ConflictDetection -------------------------
(* Conflict detection (src/Context.cpp, include/Galois/Runtime/Context.h   *)
(* and ll/PtrLock.h): an operator acquires the objects of its neighborhood *)
(* one by one; when one belongs to another iteration it gives all of them  *)
(* back.  The lock is the low bit of the word that holds the owner, and    *)
(* the objects of a context are chained through the objects themselves.    *)
(*                                                                         *)
(* Every load, store and read-modify-write of memory that another context  *)
(* can reach is one action.                                                *)
CONSTANTS Contexts, Lockables, Null

ASSUME ContextAssumption == Null \notin Contexts /\ Null \notin Lockables

VARIABLES
    locked, owner,    \* the two parts of the word of PtrLock
    next,             \* Lockable::next
    locks,            \* SimpleRuntimeContext::locks
    phase, arg,       \* where a context is, and the object it works on
    nhood             \* history: what an iteration has acquired

wordVars == <<locked, owner>>
listVars == <<next, locks>>
conflictVars == <<wordVars, listVars, phase, arg, nhood>>

ConflictInit ==
    /\ locked = [l \in Lockables |-> FALSE]
    /\ owner = [l \in Lockables |-> Null]
    /\ next = [l \in Lockables |-> Null]
    /\ locks = [c \in Contexts |-> Null]
    /\ phase = [c \in Contexts |-> "idle"]
    /\ arg = [c \in Contexts |-> Null]
    /\ nhood = [c \in Contexts |-> {}]

On(c, label) == phase[c] = label
StepTo(c, label) == phase' = [phase EXCEPT ![c] = label]

StartIteration(c) ==
    /\ On(c, "idle")
    /\ StepTo(c, "operator")
    /\ UNCHANGED <<wordVars, listVars, arg, nhood>>

(* tryAcquire.  try_lock looks at the bit before it sets it.               *)
Acquire(c, l) ==
    /\ On(c, "operator")
    /\ arg' = [arg EXCEPT ![c] = l]
    /\ StepTo(c, IF locked[l] THEN "owner" ELSE "fetchOr")
    /\ UNCHANGED <<wordVars, listVars, nhood>>

FetchOrBlind(c) ==
    /\ On(c, "fetchOr")
    /\ locked' = [locked EXCEPT ![arg[c]] = TRUE]
    /\ StepTo(c, "setValue")
    /\ UNCHANGED <<owner, listVars, arg, nhood>>

FetchOr(c) ==
    /\ On(c, "fetchOr")
    /\ locked' = [locked EXCEPT ![arg[c]] = TRUE]
    /\ StepTo(c, IF locked[arg[c]] THEN "owner" ELSE "setValue")
    /\ UNCHANGED <<owner, listVars, arg, nhood>>

(* setValue reads the bit and stores pointer and bit; the bit it stores is *)
(* the one it read, which a holder of the lock finds set.                  *)
SetValue(c) ==
    /\ On(c, "setValue")
    /\ StepTo(c, IF locked[arg[c]] THEN "storeLocked" ELSE "storeUnlocked")
    /\ UNCHANGED <<wordVars, listVars, arg, nhood>>

StoreValue(c) ==
    /\ On(c, "storeLocked") \/ On(c, "storeUnlocked")
    /\ locked' = [locked EXCEPT ![arg[c]] = On(c, "storeLocked")]
    /\ owner' = [owner EXCEPT ![arg[c]] = c]
    /\ StepTo(c, "addToNhood")
    /\ UNCHANGED <<listVars, arg, nhood>>

NewHead(c) ==
    /\ locks' = [locks EXCEPT ![c] = arg[c]]
    /\ nhood' = [nhood EXCEPT ![c] = @ \union {arg[c]}]
    /\ StepTo(c, "operator")
    /\ UNCHANGED <<wordVars, arg>>

AddWithoutLink(c) == On(c, "addToNhood") /\ NewHead(c) /\ UNCHANGED next

AddToNhood(c) ==
    /\ On(c, "addToNhood") /\ NewHead(c)
    /\ next' = [next EXCEPT ![arg[c]] = locks[c]]

ConflictWithItself(c) ==
    /\ On(c, "owner")
    /\ StepTo(c, "conflict")
    /\ UNCHANGED <<wordVars, listVars, arg, nhood>>

(* getOwner: an object that is already owned is no conflict.               *)
GetOwner(c) ==
    /\ On(c, "owner")
    /\ StepTo(c, IF owner[arg[c]] = c THEN "operator" ELSE "conflict")
    /\ UNCHANGED <<wordVars, listVars, arg, nhood>>

(* signalConflict throws, and whoever runs the operator cancels it.        *)
Cancel(c) ==
    /\ On(c, "conflict")
    /\ StepTo(c, "commit")
    /\ UNCHANGED <<wordVars, listVars, arg, nhood>>

FinishOperator(c) ==
    /\ On(c, "operator")
    /\ StepTo(c, "commit")
    /\ UNCHANGED <<wordVars, listVars, arg, nhood>>

(* commitIteration, which cancelIteration calls too.                       *)
Unlink(c) ==
    /\ On(c, "commit") /\ locks[c] # Null
    /\ arg' = [arg EXCEPT ![c] = locks[c]]
    /\ locks' = [locks EXCEPT ![c] = next[locks[c]]]
    /\ StepTo(c, "clearNext")
    /\ UNCHANGED <<wordVars, next, nhood>>

ClearNext(c) ==
    /\ On(c, "clearNext")
    /\ next' = [next EXCEPT ![arg[c]] = Null]
    /\ StepTo(c, "release")
    /\ UNCHANGED <<wordVars, locks, arg, nhood>>

ReleaseOwner(c) ==
    /\ owner' = [owner EXCEPT ![arg[c]] = Null]
    /\ locked' = [locked EXCEPT ![arg[c]] = FALSE]
    /\ nhood' = [nhood EXCEPT ![c] = @ \ {arg[c]}]

Release(c) ==
    /\ On(c, "release") /\ ReleaseOwner(c)
    /\ StepTo(c, "commit")
    /\ UNCHANGED <<listVars, arg>>

(* The order the comment in commitIteration warns of.                      *)
ReleaseThenClear(c) ==
    \/ /\ On(c, "clearNext") /\ ReleaseOwner(c)
       /\ StepTo(c, "release")
       /\ UNCHANGED <<listVars, arg>>
    \/ /\ On(c, "release")
       /\ next' = [next EXCEPT ![arg[c]] = Null]
       /\ StepTo(c, "commit")
       /\ UNCHANGED <<wordVars, locks, arg, nhood>>

GiveBack(c) == ClearNext(c) \/ Release(c)

EndIteration(c) ==
    /\ On(c, "commit") /\ locks[c] = Null
    /\ arg' = [arg EXCEPT ![c] = Null]
    /\ StepTo(c, "idle")
    /\ UNCHANGED <<wordVars, listVars, nhood>>

Proceed(c) ==
    \/ FetchOr(c) \/ SetValue(c) \/ StoreValue(c) \/ AddToNhood(c) \/ GetOwner(c)
    \/ Cancel(c) \/ FinishOperator(c) \/ Unlink(c) \/ GiveBack(c) \/ EndIteration(c)

ConflictNext ==
    \E c \in Contexts :
        \/ StartIteration(c) \/ Proceed(c)
        \/ \E l \in Lockables : Acquire(c, l)

ConflictSpec == ConflictInit /\ [][ConflictNext]_conflictVars
(* Threads run, and an operator acquires finitely often before it returns. *)
FairConflictSpec ==
    /\ ConflictSpec
    /\ \A c \in Contexts : WF_conflictVars(Proceed(c)) /\ SF_conflictVars(FinishOperator(c))

----------------------------------------------------------------------------
ConflictLabels == {"idle", "operator", "fetchOr", "setValue", "storeLocked", "storeUnlocked",
           "addToNhood", "owner", "conflict", "commit", "clearNext", "release"}
Taking == {"setValue", "storeLocked", "storeUnlocked", "addToNhood"}

ConflictTypeOK ==
    /\ locked \in [Lockables -> BOOLEAN]
    /\ owner \in [Lockables -> Contexts \union {Null}]
    /\ next \in [Lockables -> Lockables \union {Null}]
    /\ locks \in [Contexts -> Lockables \union {Null}]
    /\ phase \in [Contexts -> ConflictLabels]
    /\ arg \in [Contexts -> Lockables \union {Null}]
    /\ nhood \in [Contexts -> SUBSET Lockables]

(* What a context holds: its neighborhood, and the object whose bit it has *)
(* just set.                                                               *)
Holds(c) == nhood[c] \union (IF phase[c] \in Taking THEN {arg[c]} ELSE {})

(* An object belongs to one iteration at a time, its bit is set as long as *)
(* it does and only then, and the word names the owner: an iteration never *)
(* works on an object another one has, however their loads and             *)
(* read-modify-writes interleave.                                          *)
Exclusive == \A c, d \in Contexts : c # d => Holds(c) \cap Holds(d) = {}

WordIsTrue ==
    \A l \in Lockables :
        /\ locked[l] <=> \E c \in Contexts : l \in Holds(c)
        /\ owner[l] # Null => l \in Holds(owner[l])
        /\ \A c \in Contexts : l \in nhood[c] => owner[l] = c

(* The word is read in a step of its own, while others take and release:   *)
(* yet what an iteration is cancelled over is never an object it holds,    *)
(* or running it again would not help.                                     *)
ConflictIsReal == \A c \in Contexts : On(c, "conflict") => arg[c] \notin nhood[c]

MutualExclusion == ConflictTypeOK /\ Exclusive /\ WordIsTrue /\ ConflictIsReal

(* The chain of a context holds its neighborhood and nothing else and has  *)
(* an end, and what is in no chain has a null next, which is what the      *)
(* asserts of addToNhood, release and startIteration look at.              *)
From(link, x) ==
    {S \in SUBSET Lockables :
        /\ x # Null => x \in S
        /\ \A l \in S : link[l] # Null => link[l] \in S}
Chain(link, x) == {l \in Lockables : \A S \in From(link, x) : l \in S}

InHand(c) == IF phase[c] \in {"clearNext", "release"} THEN {arg[c]} ELSE {}

ListsIntact ==
    /\ \A c \in Contexts :
          /\ Chain(next, locks[c]) = nhood[c] \ InHand(c)
          /\ \A l \in Chain(next, locks[c]) : l \notin Chain(next, next[l])
          /\ On(c, "idle") => nhood[c] = {}
          /\ On(c, "release") => owner[arg[c]] = c /\ next[arg[c]] = Null
          /\ On(c, "addToNhood") => next[arg[c]] = Null
    /\ \A l \in Lockables :
          (\A c \in Contexts : l \notin nhood[c]) => next[l] = Null

(* A conflict cannot hang: every iteration ends, by itself or cancelled,   *)
(* with all it had given back.                                             *)
IterationsEnd ==
    \A c \in Contexts : (phase[c] # "idle") ~> (phase[c] = "idle" /\ nhood[c] = {})
=============================================================================
