-------------------------------- MODULE Obim --------------------------------
(* OrderedByIntegerMetric (include/Galois/WorkList/Obim.h): one bin (a       *)
(* worklist of its own) for each index.  Bins are never removed; the thread  *)
(* that needs a new one appends it to masterLog under masterLock, and every  *)
(* thread replays the log into a map of its own, without that lock.          *)
(*                                                                           *)
(* A bin is named by its position in the log.  Bins are abstract: what the   *)
(* worklists of WorkListOps promise, one operation a step; ChunkedMaster is  *)
(* one of them.                                                              *)
EXTENDS Integers, FiniteSets, SequencesExt

CONSTANTS
    Threads, Tasks,
    IndexOf,          \* indexer(x); 0 is std::numeric_limits<Index>::min()
    LeaderOf,         \* LL::getLeaderForThread
    Classes,          \* the template parameters BSP, UniformBSP and BlockPeriod
    None              \* nobody

ASSUME ObimAssumption ==
    /\ IsFiniteSet(Tasks) /\ IndexOf \in [Tasks -> Nat] /\ LeaderOf \in [Threads -> Threads]
    /\ Classes \subseteq [bsp : BOOLEAN, uniform : BOOLEAN, blockPeriod : Int]
    /\ None \notin Threads

VARIABLES
    class,            \* the one the client has chosen
    masterLog, masterVersion, masterLock,
    local,            \* local[t][i]: the bin of index i, 0 for null
    lastMasterVersion, curIndex, scanStart, current,   \* perItem
    contents,         \* contents[b][t]: what bin b holds for thread t
    pc,
    todo, val,        \* the rest of the range, the element being pushed
    msS, unread,      \* slowPop: the minimum so far, the threads still to read
    answer, hand,     \* what pop returns
    pushed, delivered \* history

masterVars == <<class, masterLog, masterVersion, masterLock>>
scanVars == <<curIndex, scanStart, current>>
callVars == <<todo, val, msS, unread>>
answerVars == <<answer, hand, delivered>>
vars == <<masterVars, local, lastMasterVersion, scanVars, contents, pc, callVars,
          answerVars, pushed>>

Min2(a, b) == IF a < b THEN a ELSE b
Indices == {IndexOf[x] : x \in Tasks}
Bins == 1..Cardinality(Indices)
EmptyMap == [i \in {} |-> 0]

Init ==
    /\ masterLog = <<>> /\ masterVersion = 0 /\ masterLock = None
    /\ class \in Classes
    /\ local = [t \in Threads |-> EmptyMap]
    /\ lastMasterVersion = [t \in Threads |-> 0]
    /\ curIndex = [t \in Threads |-> 0] /\ scanStart = [t \in Threads |-> 0]
    /\ current = [t \in Threads |-> 0]
    /\ contents = [b \in Bins |-> [t \in Threads |-> {}]]
    /\ pc = [t \in Threads |-> "idle"]
    /\ todo = [t \in Threads |-> {}] /\ val = [t \in Threads |-> {}]
    /\ msS = [t \in Threads |-> 0] /\ unread = [t \in Threads |-> {}]
    /\ answer = [t \in Threads |-> "none"] /\ hand = [t \in Threads |-> {}]
    /\ pushed = {} /\ delivered = {}

Goto(t, label) == pc' = [pc EXCEPT ![t] = label]

\* local[i]: a key that was not there is inserted with null.
At(m, i) == IF i \in DOMAIN m THEN m[i] ELSE 0
Assign(m, i, b) == [j \in (DOMAIN m) \cup {i} |-> IF j = i THEN b ELSE m[j]]

-----------------------------------------------------------------------------
(* updateLocal: the log is replayed up to the version that is read.        *)
Replaying(t) == pc[t] \in {"update", "updateLocked", "updatePop"}

ReplayEntry(t, i, b) ==
    /\ local' = [local EXCEPT ![t] = Assign(@, i, b)]
    /\ lastMasterVersion' = [lastMasterVersion EXCEPT ![t] = @ + 1]

Replay(t) ==
    /\ Replaying(t)
    /\ lastMasterVersion[t] < masterVersion
    /\ LET next == lastMasterVersion[t] + 1
       IN  ReplayEntry(t, masterLog[next], next)
    /\ UNCHANGED <<masterVars, scanVars, contents, pc, callVars, answerVars, pushed>>

Updated(t) == lastMasterVersion[t] >= masterVersion

-----------------------------------------------------------------------------
(* push                                                                    *)
PushBegin(t) ==
    /\ pc[t] = "idle" /\ answer[t] = "none"
    /\ \E range \in (SUBSET (Tasks \ pushed)) \ {{}} :
         todo' = [todo EXCEPT ![t] = range] /\ pushed' = pushed \cup range
    /\ Goto(t, "push")
    /\ UNCHANGED <<masterVars, local, lastMasterVersion, scanVars, contents,
                   val, msS, unread, answerVars>>

Put(t, x, b) ==
    /\ contents' = [contents EXCEPT ![b][t] = @ \cup {x}]
    /\ todo' = [todo EXCEPT ![t] = @ \ {x}]
    /\ Goto(t, IF todo[t] = {x} THEN "idle" ELSE "push")

\* Fast path: the bin of the last pop.
PushFast(t) ==
    /\ pc[t] = "push"
    /\ current[t] # 0
    /\ \E x \in todo[t] : IndexOf[x] = curIndex[t] /\ Put(t, x, current[t])
    /\ UNCHANGED <<masterVars, local, lastMasterVersion, scanVars, val, msS, unread,
                   answerVars, pushed>>

\* updateLocalOrCreate: the bin is in the own map, or the slow path begins.
PushSlow(t) ==
    /\ pc[t] = "push"
    /\ \E x \in todo[t] :
         LET i == IndexOf[x] IN
         /\ i # curIndex[t] \/ current[t] = 0
         /\ val' = [val EXCEPT ![t] = {x}]
         /\ local' = [local EXCEPT ![t] = Assign(@, i, At(@, i))]
         /\ Goto(t, IF At(local[t], i) # 0 THEN "put" ELSE "update")
    /\ UNCHANGED <<masterVars, lastMasterVersion, scanVars, contents, todo, msS, unread,
                   answerVars, pushed>>

IndexOfVal(t) == IndexOf[CHOOSE x \in val[t] : TRUE]
BinOfVal(t) == At(local[t], IndexOfVal(t))

\* slowUpdateLocalOrCreate: somebody has made the bin, or try_lock decides.
FindBin(t) ==
    /\ pc[t] = "update" /\ Updated(t)
    /\ Goto(t, IF BinOfVal(t) # 0 THEN "put" ELSE "tryLock")
    /\ UNCHANGED <<masterVars, local, lastMasterVersion, scanVars, contents, callVars,
                   answerVars, pushed>>

TryLock(t) ==
    /\ pc[t] = "tryLock"
    /\ IF masterLock = None
       THEN masterLock' = t /\ Goto(t, "updateLocked")
       ELSE Goto(t, "update") /\ UNCHANGED masterLock
    /\ UNCHANGED <<class, masterLog, masterVersion, local, lastMasterVersion, scanVars,
                   contents, callVars, answerVars, pushed>>

\* Mutant: under the lock the map is not looked at again.
CreateAtOnce(t) ==
    /\ pc[t] = "updateLocked" /\ Updated(t)
    /\ lastMasterVersion' = [lastMasterVersion EXCEPT ![t] = masterVersion + 1]
    /\ local' = [local EXCEPT ![t] = Assign(@, IndexOfVal(t), Len(masterLog) + 1)]
    /\ Goto(t, "append")
    /\ UNCHANGED <<masterVars, scanVars, contents, callVars,
                   answerVars, pushed>>

\* Mutant: the lock is kept when the bin is there by now.
CreateKeepsLock(t) ==
    /\ pc[t] = "updateLocked" /\ Updated(t)
    /\ IF BinOfVal(t) # 0
       THEN /\ Goto(t, "put")
            /\ UNCHANGED <<local, lastMasterVersion>>
       ELSE /\ lastMasterVersion' = [lastMasterVersion EXCEPT ![t] = masterVersion + 1]
            /\ local' = [local EXCEPT ![t] = Assign(@, IndexOfVal(t), Len(masterLog) + 1)]
            /\ Goto(t, "append")
    /\ UNCHANGED <<masterVars, scanVars, contents, callVars,
                   answerVars, pushed>>

\* With the lock and an up-to-date map: the bin is there by now, or is made.
Create(t) ==
    /\ pc[t] = "updateLocked" /\ Updated(t)
    /\ IF BinOfVal(t) # 0
       THEN /\ Goto(t, "unlock")
            /\ UNCHANGED <<local, lastMasterVersion>>
       ELSE /\ lastMasterVersion' = [lastMasterVersion EXCEPT ![t] = masterVersion + 1]
            /\ local' = [local EXCEPT ![t] = Assign(@, IndexOfVal(t), Len(masterLog) + 1)]
            /\ Goto(t, "append")
    /\ UNCHANGED <<masterVars, scanVars, contents, callVars,
                   answerVars, pushed>>

AppendEntry(t) ==
    /\ pc[t] = "append"
    /\ masterLog' = Append(masterLog, IndexOfVal(t))
    /\ Goto(t, "publish")
    /\ UNCHANGED <<class, masterVersion, masterLock, local, lastMasterVersion, scanVars,
                   contents, callVars, answerVars, pushed>>

Publish(t) ==
    /\ pc[t] = "publish"
    /\ masterVersion' = masterVersion + 1
    /\ Goto(t, "unlock")
    /\ UNCHANGED <<class, masterLog, masterLock, local, lastMasterVersion, scanVars,
                   contents, callVars, answerVars, pushed>>

Unlock(t) ==
    /\ pc[t] = "unlock"
    /\ masterLock' = None
    /\ Goto(t, "put")
    /\ UNCHANGED <<class, masterLog, masterVersion, local, lastMasterVersion, scanVars,
                   contents, callVars, answerVars, pushed>>

\* Mutant: only curIndex follows the element.
PutKeepsScanStart(t) ==
    /\ pc[t] = "put"
    /\ UNCHANGED scanStart
    /\ IF IndexOfVal(t) < curIndex[t]
       THEN /\ curIndex' = [curIndex EXCEPT ![t] = IndexOfVal(t)]
            /\ current' = [current EXCEPT ![t] = BinOfVal(t)]
       ELSE UNCHANGED <<curIndex, current>>
    /\ \E x \in val[t] : Put(t, x, BinOfVal(t))
    /\ val' = [val EXCEPT ![t] = {}]
    /\ UNCHANGED <<masterVars, local, lastMasterVersion, msS, unread, answerVars, pushed>>

\* The end of push: the thread moves to the new bin if it comes first.
PutInBin(t) ==
    /\ pc[t] = "put"
    /\ scanStart' = IF class.bsp THEN [scanStart EXCEPT ![t] = Min2(@, IndexOfVal(t))] ELSE scanStart
    /\ IF IndexOfVal(t) < curIndex[t]
       THEN /\ curIndex' = [curIndex EXCEPT ![t] = IndexOfVal(t)]
            /\ current' = [current EXCEPT ![t] = BinOfVal(t)]
       ELSE UNCHANGED <<curIndex, current>>
    /\ \E x \in val[t] : Put(t, x, BinOfVal(t))
    /\ val' = [val EXCEPT ![t] = {}]
    /\ UNCHANGED <<masterVars, local, lastMasterVersion, msS, unread, answerVars, pushed>>

-----------------------------------------------------------------------------
(* pop                                                                     *)

\* Bin b gives t one of its own elements, or those of another thread.
PopFrom(t, b, x) ==
    /\ \/ /\ x \in contents[b][t]
          /\ contents' = [contents EXCEPT ![b][t] = @ \ {x}]
       \/ \E u \in Threads \ {t} : \E batch \in SUBSET contents[b][u] :
            /\ x \in batch
            /\ contents' = [contents EXCEPT ![b][u] = @ \ batch, ![b][t] = @ \cup (batch \ {x})]
    /\ answer' = [answer EXCEPT ![t] = "element"]
    /\ hand' = [hand EXCEPT ![t] = {x}]
    /\ Goto(t, "idle")
    /\ UNCHANGED delivered

\* numPops++ & (((1ull << BlockPeriod) - 1) == 0): the mask is zero for every
\* BlockPeriod above zero, so only a negative one comes here.
PeriodReached(t) == class.blockPeriod < 0

\* Fast path: the bin of the last pop.
PopFast(t) ==
    /\ pc[t] = "idle" /\ answer[t] = "none"
    /\ ~PeriodReached(t)
    /\ current[t] # 0
    /\ \E x \in Tasks : PopFrom(t, current[t], x)
    /\ UNCHANGED <<masterVars, local, lastMasterVersion, scanVars, callVars, pushed>>

PopSlow(t) ==
    /\ pc[t] = "idle" /\ answer[t] = "none"
    /\ \/ PeriodReached(t)
       \/ current[t] = 0
       \/ current[t] # 0 /\ contents[current[t]][t] = {}
    /\ Goto(t, "updatePop")
    /\ UNCHANGED <<masterVars, local, lastMasterVersion, scanVars, contents, callVars, answerVars,
                   pushed>>

\* Back-scan prevention begins at the own scanStart ...
StartScan(t) ==
    /\ pc[t] = "updatePop" /\ Updated(t)
    /\ msS' = [msS EXCEPT ![t] = IF class.bsp THEN scanStart[t] ELSE 0]
    /\ unread' = [unread EXCEPT ![t] =
                    IF ~class.bsp THEN {}
                    ELSE IF LeaderOf[t] = t \/ class.uniform THEN Threads \ {t} ELSE {LeaderOf[t]}]
    /\ Goto(t, "scan")
    /\ UNCHANGED <<masterVars, local, lastMasterVersion, scanVars, contents, todo, val,
                   answerVars, pushed>>

\* ... or before it, at that of its leader, for a leader at that of anyone.
ReadScanStart(t) ==
    /\ pc[t] = "scan"
    /\ \E u \in unread[t] :
         /\ msS' = [msS EXCEPT ![t] = Min2(@, scanStart[u])]
         /\ unread' = [unread EXCEPT ![t] = @ \ {u}]
    /\ UNCHANGED <<masterVars, local, lastMasterVersion, scanVars, contents, pc, todo,
                   val, answerVars, pushed>>

\* lower_bound and what follows it in the own map; msS is where the scan is.
ToScan(t) == {i \in DOMAIN local[t] : i >= msS[t]}
First(t) == CHOOSE i \in ToScan(t) : \A j \in ToScan(t) : i <= j

ScanFound(t) ==
    /\ pc[t] = "scan" /\ unread[t] = {} /\ ToScan(t) # {}
    /\ \E x \in Tasks : PopFrom(t, local[t][First(t)], x)
    /\ current' = [current EXCEPT ![t] = local[t][First(t)]]
    /\ curIndex' = [curIndex EXCEPT ![t] = First(t)]
    /\ scanStart' = [scanStart EXCEPT ![t] = First(t)]
    /\ msS' = [msS EXCEPT ![t] = 0]
    /\ UNCHANGED <<masterVars, local, lastMasterVersion, todo, val, unread, pushed>>

ScanNext(t) ==
    /\ pc[t] = "scan" /\ unread[t] = {} /\ ToScan(t) # {}
    /\ contents[local[t][First(t)]][t] = {}
    /\ msS' = [msS EXCEPT ![t] = First(t) + 1]
    /\ UNCHANGED <<masterVars, local, lastMasterVersion, scanVars, contents, pc, todo, val,
                   unread, answerVars, pushed>>

ScanEnds(t) ==
    /\ pc[t] = "scan" /\ unread[t] = {} /\ ToScan(t) = {}
    /\ answer' = [answer EXCEPT ![t] = "nothing"]
    /\ msS' = [msS EXCEPT ![t] = 0]
    /\ Goto(t, "idle")
    /\ UNCHANGED <<masterVars, local, lastMasterVersion, scanVars, contents, todo, val,
                   unread, hand, delivered, pushed>>

Return(t) ==
    /\ answer[t] # "none"
    /\ delivered' = delivered \cup hand[t]
    /\ answer' = [answer EXCEPT ![t] = "none"]
    /\ hand' = [hand EXCEPT ![t] = {}]
    /\ UNCHANGED <<masterVars, local, lastMasterVersion, scanVars, contents, pc, callVars, pushed>>

Push(t) ==
    \/ Replay(t) \/ PushFast(t) \/ PushSlow(t) \/ FindBin(t) \/ TryLock(t) \/ Create(t)
    \/ AppendEntry(t) \/ Publish(t) \/ Unlock(t) \/ PutInBin(t)

Pop(t) ==
    \/ PopFast(t) \/ PopSlow(t) \/ StartScan(t) \/ ReadScanStart(t)
    \/ ScanFound(t) \/ ScanNext(t) \/ ScanEnds(t) \/ Return(t)

Next == \E t \in Threads : PushBegin(t) \/ Push(t) \/ Pop(t)

Spec == Init /\ [][Next]_vars
FairSpec == Spec /\ \A t \in Threads : WF_vars(Push(t) \/ Pop(t))

-----------------------------------------------------------------------------
Creating(t) == pc[t] \in {"append", "publish"}
Prefix(t) == IF Creating(t) THEN lastMasterVersion[t] - 1 ELSE lastMasterVersion[t]

(* The map of a thread is the part of the log it has replayed, whatever     *)
(* others append meanwhile; the only null in it is the bin it is looking    *)
(* for, which is no longer null when a pop walks over the map.              *)
MapsFollowLog ==
    \A t \in Threads :
        /\ \A b \in 1..Prefix(t) : At(local[t], masterLog[b]) = b
        /\ \A i \in DOMAIN local[t] :
              \/ \E b \in 1..Prefix(t) : masterLog[b] = i
              \/ pc[t] \in {"update", "tryLock", "updateLocked"} /\ i = IndexOfVal(t) /\ local[t][i] = 0
              \/ Creating(t) /\ i = IndexOfVal(t)

(* Every step is one of the abstract worklist: no element is lost between   *)
(* the bins, and although a pop looks only at the bins from scanStart on,   *)
(* one after the other, it answers that there is nothing only when none of  *)
(* the elements its thread owns is left in any bin.                         *)
Owned(t) == todo[t] \cup UNION {contents[b][t] : b \in Bins}

Abstract == INSTANCE OwnedWorkList
    WITH bag <- [t \in Threads |-> Owned(t)], StealBatchSize <- Cardinality(Tasks)

ImplementsWorkList == Abstract!Spec

(* Threads that go on get every pushed element out again: no push is stuck  *)
(* on masterLock, and no element stays behind in a bin nobody scans.        *)
AllDelivered == \A x \in Tasks : (x \in pushed) ~> (x \in delivered)
=============================================================================
