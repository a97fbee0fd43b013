----------------------------- MODULE ObimProofs -----------------------------
(* Obim implements OwnedWorkList, for any threads, packages, elements and    *)
(* indices, with and without back-scan prevention.                           *)
EXTENDS Obim, FiniteSetTheorems, WellFoundedInduction, TLAPS

-----------------------------------------------------------------------------
(* The inductive invariant.                                                *)

Maps == UNION {[D -> Nat] : D \in SUBSET Indices}

Labels == {"idle", "push", "update", "tryLock", "updateLocked", "append", "publish", "unlock",
           "put", "updatePop", "scan"}

OTypeOK ==
    /\ class \in Classes
    /\ masterLog \in Seq(Indices) /\ masterVersion \in Nat
    /\ local \in [Threads -> Maps] /\ lastMasterVersion \in [Threads -> Nat]
    /\ curIndex \in [Threads -> Nat] /\ scanStart \in [Threads -> Nat]
    /\ current \in [Threads -> Nat]
    /\ contents \in [Bins -> [Threads -> SUBSET Tasks]]
    /\ pc \in [Threads -> Labels]
    /\ todo \in [Threads -> SUBSET Tasks] /\ val \in [Threads -> SUBSET Tasks]
    /\ msS \in [Threads -> Nat] /\ unread \in [Threads -> SUBSET Threads]
    /\ answer \in [Threads -> {"none", "element", "nothing"}]
    /\ hand \in [Threads -> SUBSET Tasks]

\* What t holds in bin b, or, for 0, has still to push.
Places == {0} \cup Bins
Holds(b, t) == IF b = 0 THEN todo[t] ELSE contents[b][t]

\* Only what was pushed is anywhere, and in one place only.
Apart ==
    \A b, c \in Places : \A t, u \in Threads : \A x \in Holds(b, t) :
        /\ x \in pushed
        /\ x \in Holds(c, u) => b = c /\ t = u

\* An element is in the bin of its index.
BinsInv ==
    \A b \in Bins : \A t \in Threads : \A x \in contents[b][t] :
        b \in DOMAIN masterLog /\ masterLog[b] = IndexOf[x]

\* No index has two bins, and only the entry being published is not counted.
LogInv ==
    /\ \A b, c \in DOMAIN masterLog : masterLog[b] = masterLog[c] => b = c
    /\ \/ masterVersion = Len(masterLog)
       \/ \E t \in Threads : pc[t] = "publish"

Finding(t) ==
    pc[t] \in {"update", "tryLock", "updateLocked", "append", "publish", "unlock", "put"}

CallInv(t) ==
    /\ answer[t] # "none" => pc[t] = "idle"
    /\ pc[t] \in {"idle", "updatePop", "scan"} => todo[t] = {}
    /\ Finding(t) => IndexOfVal(t) \in DOMAIN local[t] /\ \E x \in todo[t] : val[t] = {x}

\* The thread that makes a bin has the lock.
MakerInv(t) ==
    /\ pc[t] \in {"updateLocked", "append", "publish", "unlock"} => masterLock = t
    /\ IF Creating(t) THEN lastMasterVersion[t] = masterVersion + 1
       ELSE lastMasterVersion[t] <= masterVersion
    /\ pc[t] = "append" =>
         /\ \A b \in DOMAIN masterLog : masterLog[b] # IndexOfVal(t)
         /\ local[t][IndexOfVal(t)] = masterVersion + 1
    /\ pc[t] = "publish" =>
         /\ Len(masterLog) = masterVersion + 1
         /\ masterLog[masterVersion + 1] = IndexOfVal(t)
         /\ local[t][IndexOfVal(t)] = masterVersion + 1

MapInv(t) ==
    /\ \A b \in 1..Prefix(t) : At(local[t], masterLog[b]) = b
    /\ \A i \in DOMAIN local[t] :
          \/ \E b \in 1..Prefix(t) : masterLog[b] = i
          \/ pc[t] \in {"update", "tryLock", "updateLocked"} /\ i = IndexOfVal(t) /\ local[t][i] = 0
          \/ Creating(t) /\ i = IndexOfVal(t)

\* The bin of the last pop is in the own map.
CurInv(t) ==
    /\ current[t] # 0 => current[t] \in 1..Prefix(t) /\ masterLog[current[t]] = curIndex[t]
    /\ class.bsp => scanStart[t] <= curIndex[t]

\* No element is in a bin that its owner does not know or will not scan.
OwnInv(t) ==
    \A b \in Bins : contents[b][t] # {} =>
        /\ b \in 1..Prefix(t)
        /\ class.bsp => scanStart[t] <= masterLog[b]
        /\ pc[t] = "scan" => msS[t] <= masterLog[b]

ThreadInv(t) == CallInv(t) /\ MakerInv(t) /\ MapInv(t) /\ CurInv(t) /\ OwnInv(t)

ObimInv == OTypeOK /\ Apart /\ BinsInv /\ LogInv /\ \A t \in Threads : ThreadInv(t)

-----------------------------------------------------------------------------
(* Indices, bins and maps.                                                 *)

LEMMA IndexFacts ==
    /\ \A x \in Tasks : IndexOf[x] \in Indices
    /\ Indices \subseteq Nat
    /\ IsFiniteSet(Indices) /\ Cardinality(Indices) \in Nat
PROOF
<1>1. /\ \A x \in Tasks : IndexOf[x] \in Indices
      /\ Indices \subseteq Nat
  BY ObimAssumption DEF Indices
<1>2. [x \in Tasks |-> IndexOf[x]] \in Surjection(Tasks, Indices)
  BY DEF Surjection, Indices
<1>3. IsFiniteSet(Indices)
  BY <1>2, FS_Surjection, ObimAssumption
<1> QED BY <1>1, <1>3, FS_CardinalityType

\* There is a bin for every index, so the log never outgrows the bins.
LEMMA LogFits ==
    ASSUME NEW s \in Seq(Indices), \A b, c \in DOMAIN s : s[b] = s[c] => b = c
    PROVE  /\ Len(s) \in Nat /\ DOMAIN s = 1..Len(s)
           /\ DOMAIN s \subseteq Bins
PROOF
<1>1. Len(s) \in Nat /\ DOMAIN s = 1..Len(s) /\ s \in [1..Len(s) -> Indices]
  OBVIOUS
<1>2. s \in Injection(1..Len(s), Indices)
  BY <1>1 DEF Injection, IsInjective
<1>3. Cardinality(1..Len(s)) <= Cardinality(Indices)
  BY <1>2, FS_Injection, IndexFacts
<1>4. Cardinality(1..Len(s)) = Len(s)
  BY <1>1, FS_Interval
<1> QED BY <1>1, <1>3, <1>4, IndexFacts DEF Bins

LEMMA MapFacts ==
    ASSUME NEW m \in Maps
    PROVE  DOMAIN m \subseteq Indices /\ \A i \in DOMAIN m : m[i] \in Nat
PROOF BY DEF Maps

LEMMA AssignFacts ==
    ASSUME NEW m \in Maps, NEW i \in Indices, NEW b \in Nat
    PROVE  /\ Assign(m, i, b) \in Maps
           /\ DOMAIN Assign(m, i, b) = (DOMAIN m) \cup {i}
           /\ At(Assign(m, i, b), i) = b
           /\ \A j : j # i => At(Assign(m, i, b), j) = At(m, j)
           /\ At(m, i) \in Nat
PROOF
<1>1. DOMAIN m \subseteq Indices /\ \A j \in DOMAIN m : m[j] \in Nat
  BY MapFacts
<1>2. (DOMAIN m) \cup {i} \in SUBSET Indices
  BY <1>1
<1>3. Assign(m, i, b) \in [(DOMAIN m) \cup {i} -> Nat]
  BY <1>1 DEF Assign
<1>4. Assign(m, i, b) \in Maps
  BY <1>2, <1>3 DEF Maps
<1>5. /\ At(Assign(m, i, b), i) = b
      /\ \A j : j # i => At(Assign(m, i, b), j) = At(m, j)
  BY DEF At, Assign
<1> QED BY <1>1, <1>3, <1>4, <1>5 DEF At

LEMMA LeastElement ==
    ASSUME NEW S \in SUBSET Nat, S # {}
    PROVE  \E x \in S : \A y \in S : x <= y
PROOF
<1> DEFINE Less == {ss \in Nat \X Nat : ss[1] < ss[2]}
<1>1. IsWellFoundedOn(Less, Nat)
  BY NatLessThanWellFounded DEF OpToRel
<1>2. \E x \in S : \A y \in S : ~ (<<y, x>> \in Less)
  <2> HIDE DEF Less
  <2> QED BY <1>1, WFMin
<1>3. \A x, y \in Nat : <<y, x>> \notin Less => x <= y
  OBVIOUS
<1> HIDE DEF Less
<1> QED BY <1>2, <1>3

\* The bin a scan is at is the first of those it has left.
LEMMA FirstFacts ==
    ASSUME OTypeOK, NEW t \in Threads, ToScan(t) # {}
    PROVE  /\ First(t) \in DOMAIN local[t] /\ First(t) \in Nat /\ First(t) >= msS[t]
           /\ \A i \in ToScan(t) : First(t) <= i
PROOF
<1>1. local[t] \in Maps
  BY DEF OTypeOK
<1>2. ToScan(t) \in SUBSET Nat
  BY <1>1, MapFacts, IndexFacts DEF ToScan
<1>3. \E i \in ToScan(t) : \A j \in ToScan(t) : i <= j
  BY <1>2, LeastElement
<1>4. First(t) \in ToScan(t) /\ \A j \in ToScan(t) : First(t) <= j
  BY <1>3 DEF First
<1> QED BY <1>2, <1>4 DEF ToScan

-----------------------------------------------------------------------------
(* The log and what a thread has replayed of it.                           *)

LEMMA LogFacts ==
    ASSUME ObimInv
    PROVE  /\ masterVersion \in Nat /\ Len(masterLog) \in Nat
           /\ masterVersion <= Len(masterLog)
           /\ DOMAIN masterLog = 1..Len(masterLog) /\ DOMAIN masterLog \subseteq Bins
           /\ \A b \in DOMAIN masterLog : masterLog[b] \in Indices /\ masterLog[b] \in Nat
PROOF
<1>1. masterLog \in Seq(Indices) /\ masterVersion \in Nat
  BY DEF ObimInv, OTypeOK
<1>2. /\ Len(masterLog) \in Nat /\ DOMAIN masterLog = 1..Len(masterLog)
      /\ DOMAIN masterLog \subseteq Bins
  BY <1>1, LogFits DEF ObimInv, LogInv
<1>3. masterVersion <= Len(masterLog)
  BY <1>1, <1>2 DEF ObimInv, LogInv, ThreadInv, MakerInv
<1>4. \A b \in DOMAIN masterLog : masterLog[b] \in Indices
  BY <1>1
<1> QED BY <1>1, <1>2, <1>3, <1>4, IndexFacts

LEMMA PrefixFacts ==
    ASSUME ObimInv, NEW t \in Threads
    PROVE  /\ Prefix(t) \in Nat /\ Prefix(t) <= masterVersion
           /\ 1..Prefix(t) \subseteq DOMAIN masterLog /\ 1..Prefix(t) \subseteq Bins
           /\ Creating(t) => Prefix(t) = masterVersion
PROOF
<1>1. MakerInv(t) /\ lastMasterVersion[t] \in Nat /\ masterVersion \in Nat
  BY DEF ObimInv, ThreadInv, OTypeOK
<1>2. Prefix(t) \in Nat /\ Prefix(t) <= masterVersion /\ (Creating(t) => Prefix(t) = masterVersion)
  BY <1>1 DEF MakerInv, Prefix
<1> HIDE DEF Prefix
<1> QED BY <1>2, LogFacts

\* What is in the map is in the part of the log that was replayed, except
\* while its bin is looked for.
LEMMA Known ==
    ASSUME ObimInv, NEW t \in Threads, NEW i \in DOMAIN local[t],
           pc[t] \notin {"update", "tryLock", "updateLocked", "append", "publish"}
    PROVE  /\ local[t][i] \in 1..Prefix(t) /\ masterLog[local[t][i]] = i
           /\ local[t][i] \in Bins /\ local[t][i] \in DOMAIN masterLog
           /\ local[t][i] # 0 /\ At(local[t], i) = local[t][i]
PROOF
<1>1. MapInv(t)
  BY DEF ObimInv, ThreadInv
<1>2. PICK b \in 1..Prefix(t) : masterLog[b] = i
  BY <1>1 DEF MapInv, Creating
<1>3. local[t][i] = b
  BY <1>1, <1>2 DEF MapInv, At
<1>4. b # 0 /\ b \in Bins /\ b \in DOMAIN masterLog
  BY <1>2, PrefixFacts
<1> QED BY <1>2, <1>3, <1>4 DEF At

\* A thread with the lock sees no entry that is not counted.
LEMMA LockFacts ==
    ASSUME ObimInv, NEW t \in Threads, pc[t] \in {"updateLocked", "append", "unlock"}
    PROVE  masterVersion = Len(masterLog)
PROOF
<1>1. masterLock = t
  BY DEF ObimInv, ThreadInv, MakerInv
<1>2. ASSUME NEW u \in Threads, pc[u] = "publish" PROVE FALSE
  <2>1. masterLock = u
    BY <1>2 DEF ObimInv, ThreadInv, MakerInv
  <2> QED BY <1>1, <1>2, <2>1
<1> QED BY <1>2 DEF ObimInv, LogInv

\* The element that is being pushed.
LEMMA ValFacts ==
    ASSUME ObimInv, NEW t \in Threads, Finding(t)
    PROVE  \E x \in todo[t] : /\ val[t] = {x} /\ IndexOfVal(t) = IndexOf[x]
                              /\ x \in Tasks /\ IndexOfVal(t) \in Indices
                              /\ IndexOfVal(t) \in DOMAIN local[t]
PROOF
<1>1. PICK x \in todo[t] : val[t] = {x}
  BY DEF ObimInv, ThreadInv, CallInv
<1>2. IndexOfVal(t) \in DOMAIN local[t]
  BY DEF ObimInv, ThreadInv, CallInv
<1>3. x \in Tasks
  BY <1>1 DEF ObimInv, OTypeOK
<1>4. (CHOOSE y \in val[t] : TRUE) = x
  BY <1>1
<1> QED BY <1>1, <1>2, <1>3, <1>4, IndexFacts DEF IndexOfVal

-----------------------------------------------------------------------------
(* What the steps of others leave alone.                                   *)

SameAs(u) ==
    /\ local'[u] = local[u] /\ lastMasterVersion'[u] = lastMasterVersion[u]
    /\ curIndex'[u] = curIndex[u] /\ scanStart'[u] = scanStart[u] /\ current'[u] = current[u]
    /\ pc'[u] = pc[u] /\ todo'[u] = todo[u] /\ val'[u] = val[u] /\ msS'[u] = msS[u]
    /\ answer'[u] = answer[u]

LogGrows ==
    /\ \A b \in DOMAIN masterLog : b \in DOMAIN masterLog' /\ masterLog'[b] = masterLog[b]
    /\ masterVersion <= masterVersion'

\* The lock protects the log.
LockRespected(u) ==
    masterLock = u =>
        masterLock' = u /\ masterLog' = masterLog /\ masterVersion' = masterVersion

LEMMA OthersKeep ==
    ASSUME ObimInv, NEW u \in Threads, SameAs(u), class' = class,
           LogGrows, LockRespected(u), masterVersion' \in Nat,
           \A b \in Bins : contents'[b][u] \subseteq contents[b][u]
    PROVE  ThreadInv(u)'
PROOF
<1> USE DEF SameAs
<1>1. ThreadInv(u)
  BY DEF ObimInv
<1>2. /\ Prefix(u)' = Prefix(u) /\ (Creating(u)' <=> Creating(u))
      /\ IndexOfVal(u)' = IndexOfVal(u) /\ (Finding(u)' <=> Finding(u))
  BY DEF Prefix, Creating, IndexOfVal, Finding
<1>3. \A b \in 1..Prefix(u) : b \in DOMAIN masterLog /\ masterLog'[b] = masterLog[b]
  BY PrefixFacts DEF LogGrows
<1>4. CallInv(u)'
  BY <1>1, <1>2 DEF ThreadInv, CallInv
<1>5. MakerInv(u)'
  <2>1. CASE pc[u] \in {"updateLocked", "append", "publish", "unlock"}
    <3>1. masterLock' = u /\ masterLog' = masterLog /\ masterVersion' = masterVersion
      BY <1>1, <2>1 DEF ThreadInv, MakerInv, LockRespected
    <3> QED BY <1>1, <1>2, <3>1 DEF ThreadInv, MakerInv
  <2>2. CASE pc[u] \notin {"updateLocked", "append", "publish", "unlock"}
    <3>1. lastMasterVersion[u] <= masterVersion /\ ~Creating(u)
      BY <1>1, <2>2 DEF ThreadInv, MakerInv, Creating
    <3>2. lastMasterVersion[u] <= masterVersion'
      BY <3>1 DEF LogGrows, ObimInv, OTypeOK
    <3> QED BY <1>2, <2>2, <3>1, <3>2 DEF MakerInv
  <2> QED BY <2>1, <2>2
<1>6. MapInv(u)'
  BY <1>1, <1>2, <1>3 DEF ThreadInv, MapInv
<1>7. CurInv(u)'
  BY <1>1, <1>2, <1>3 DEF ThreadInv, CurInv
<1>8. OwnInv(u)'
  <2> SUFFICES ASSUME NEW b \in Bins, contents'[b][u] # {}
               PROVE  /\ b \in 1..Prefix(u)
                      /\ class.bsp => scanStart[u] <= masterLog'[b]
                      /\ pc[u] = "scan" => msS[u] <= masterLog'[b]
    BY <1>2 DEF OwnInv
  <2>1. contents[b][u] # {}
    OBVIOUS
  <2> QED BY <1>1, <1>3, <2>1 DEF ThreadInv, OwnInv
<1> QED BY <1>4, <1>5, <1>6, <1>7, <1>8 DEF ThreadInv

LEMMA LogKept ==
    ASSUME ObimInv, NEW t \in Threads, masterLog' = masterLog, masterVersion' = masterVersion,
           pc[t] # "publish", \A u \in Threads \ {t} : pc'[u] = pc[u]
    PROVE  LogInv' /\ LogGrows /\ masterVersion' \in Nat
PROOF
<1>1. masterVersion \in Nat
  BY LogFacts
<1>2. LogInv'
  BY DEF ObimInv, LogInv
<1> QED BY <1>1, <1>2 DEF LogGrows

-----------------------------------------------------------------------------
(* Elements that move.                                                     *)

LEMMA OwnedMember ==
    ASSUME NEW t
    PROVE  /\ \A x : x \in Owned(t) <=> \E b \in Places : x \in Holds(b, t)
           /\ \A x : x \in Owned(t)' <=> \E b \in Places : x \in Holds(b, t)'
PROOF
<1>1. \A b \in Bins : b # 0
  BY IndexFacts DEF Bins
<1>2. \A x : x \in Owned(t) <=> \E b \in Places : x \in Holds(b, t)
  BY <1>1 DEF Owned, Places, Holds
<1>3. \A x : x \in Owned(t)' <=> \E b \in Places : x \in Holds(b, t)'
  BY <1>1 DEF Owned, Places, Holds
<1> QED BY <1>2, <1>3

LEMMA NothingMoves ==
    ASSUME ObimInv, contents' = contents, todo' = todo, pushed' = pushed, LogGrows
    PROVE  Apart' /\ BinsInv' /\ \A u \in Threads : Owned(u)' = Owned(u)
PROOF
<1>1. \A b \in Places : \A u \in Threads : Holds(b, u)' = Holds(b, u)
  BY DEF Holds
<1>2. Apart'
  BY <1>1 DEF ObimInv, Apart
<1>3. BinsInv'
  BY DEF ObimInv, BinsInv, LogGrows
<1> QED BY <1>2, <1>3 DEF Owned

LEMMA PutMoves ==
    ASSUME ObimInv, NEW t \in Threads, NEW x \in todo[t], NEW b \in Bins, Put(t, x, b),
           b \in DOMAIN masterLog, masterLog[b] = IndexOf[x], masterLog' = masterLog,
           pushed' = pushed
    PROVE  /\ Apart' /\ BinsInv' /\ \A u \in Threads : Owned(u)' = Owned(u)
           /\ contents' \in [Bins -> [Threads -> SUBSET Tasks]]
           /\ todo' \in [Threads -> SUBSET Tasks]
           /\ \A c \in Bins : \A u \in Threads :
                 contents'[c][u] = IF c = b /\ u = t THEN contents[c][u] \cup {x} ELSE contents[c][u]
           /\ todo'[t] = todo[t] \ {x} /\ \A u \in Threads \ {t} : todo'[u] = todo[u]
PROOF
<1>1. /\ contents \in [Bins -> [Threads -> SUBSET Tasks]]
      /\ todo \in [Threads -> SUBSET Tasks] /\ Apart /\ BinsInv
  BY DEF ObimInv, OTypeOK
<1>2. /\ contents' = [contents EXCEPT ![b][t] = @ \cup {x}]
      /\ todo' = [todo EXCEPT ![t] = @ \ {x}] /\ x \in Tasks
  BY <1>1 DEF Put
<1>3. /\ contents' \in [Bins -> [Threads -> SUBSET Tasks]]
      /\ todo' \in [Threads -> SUBSET Tasks]
      /\ \A c \in Bins : \A u \in Threads :
            contents'[c][u] = IF c = b /\ u = t THEN contents[c][u] \cup {x} ELSE contents[c][u]
      /\ todo'[t] = todo[t] \ {x} /\ \A u \in Threads \ {t} : todo'[u] = todo[u]
  BY <1>1, <1>2
<1>4. b # 0 /\ 0 \notin Bins /\ b \in Places /\ 0 \in Places
  BY IndexFacts DEF Bins, Places
<1>5. \A c \in Places : \A u \in Threads :
         Holds(c, u)' = IF c = b /\ u = t THEN Holds(c, u) \cup {x}
                        ELSE IF c = 0 /\ u = t THEN Holds(c, u) \ {x}
                        ELSE Holds(c, u)
  BY <1>3, <1>4 DEF Holds, Places
<1>6. x \in Holds(0, t)
  BY DEF Holds
<1>7. Apart'
  <2> SUFFICES ASSUME NEW c \in Places, NEW d \in Places, NEW u \in Threads, NEW v \in Threads,
                      NEW y \in Holds(c, u)'
               PROVE  y \in pushed /\ (y \in Holds(d, v)' => c = d /\ u = v)
    BY DEF Apart
  <2>1. CASE y = x
    <3>1. x \in pushed /\ \A e \in Places : \A w \in Threads : x \in Holds(e, w) => e = 0 /\ w = t
      BY <1>1, <1>4, <1>6 DEF Apart
    <3> QED BY <1>4, <1>5, <2>1, <3>1
  <2>2. CASE y # x
    <3>1. \A e \in Places : \A w \in Threads : y \in Holds(e, w)' => y \in Holds(e, w)
      BY <1>5, <2>2
    <3> QED BY <1>1, <3>1 DEF Apart
  <2> QED BY <2>1, <2>2
<1>8. BinsInv'
  <2> SUFFICES ASSUME NEW c \in Bins, NEW u \in Threads, NEW y \in contents'[c][u]
               PROVE  c \in DOMAIN masterLog /\ masterLog[c] = IndexOf[y]
    BY DEF BinsInv
  <2>1. y \in contents[c][u] \/ (c = b /\ y = x)
    BY <1>3
  <2> QED BY <1>1, <2>1 DEF BinsInv
<1>9. ASSUME NEW u \in Threads PROVE Owned(u)' = Owned(u)
  <2>1. \A y : y \in Owned(u)' => y \in Owned(u)
    BY <1>4, <1>5, <1>6, OwnedMember
  <2>2. \A y : y \in Owned(u) => y \in Owned(u)'
    BY <1>4, <1>5, OwnedMember
  <2> QED BY <2>1, <2>2
<1> QED BY <1>3, <1>7, <1>8, <1>9

-----------------------------------------------------------------------------
(* The steps of the worklist.                                              *)

Found(t, x) ==
    /\ answer' = [answer EXCEPT ![t] = "element"]
    /\ hand' = [hand EXCEPT ![t] = {x}]

LEMMA RefinedStutter ==
    ASSUME \A u \in Threads : Owned(u)' = Owned(u),
           answer' = answer, hand' = hand, pushed' = pushed, delivered' = delivered
    PROVE  UNCHANGED Abstract!vars
PROOF BY DEF Abstract!vars

LEMMA RefinedPush ==
    ASSUME NEW t \in Threads, NEW range \in (SUBSET (Tasks \ pushed)) \ {{}}, answer[t] = "none",
           Owned(t)' = Owned(t) \cup range, \A u \in Threads \ {t} : Owned(u)' = Owned(u),
           answer' = answer, hand' = hand, pushed' = pushed \cup range, delivered' = delivered
    PROVE  Abstract!Next
PROOF
<1>1. [u \in Threads |-> Owned(u)']
        = [[u \in Threads |-> Owned(u)] EXCEPT ![t] = @ \cup range]
  OBVIOUS
<1>2. Abstract!PushRange(t, range)
  BY <1>1 DEF Abstract!PushRange
<1>3. Abstract!Push(t)
  BY <1>2 DEF Abstract!Push
<1> QED BY <1>3 DEF Abstract!Next

LEMMA RefinedPopOwn ==
    ASSUME NEW t \in Threads, NEW x \in Owned(t), answer[t] = "none",
           Owned(t)' = Owned(t) \ {x}, \A u \in Threads \ {t} : Owned(u)' = Owned(u),
           Found(t, x), pushed' = pushed, delivered' = delivered
    PROVE  Abstract!Next
PROOF
<1>1. [u \in Threads |-> Owned(u)']
        = [[u \in Threads |-> Owned(u)] EXCEPT ![t] = @ \ {x}]
  OBVIOUS
<1>2. Abstract!TakeOwn(t, x) /\ Abstract!Found(t, x)
  BY <1>1 DEF Abstract!TakeOwn, Abstract!Found, Found
<1>3. Abstract!PopOwn(t)
  BY <1>2 DEF Abstract!PopOwn
<1> QED BY <1>3 DEF Abstract!Next

\* OwnedWorkList counts like this module.
LEMMA SameCardinality == ASSUME NEW S PROVE Abstract!Cardinality(S) = Cardinality(S)
PROOF BY DEF Abstract!Cardinality, Cardinality

LEMMA RefinedPopStolen ==
    ASSUME NEW t \in Threads, NEW u \in Threads \ {t}, NEW batch \in SUBSET Owned(u),
           NEW x \in batch, Cardinality(batch) <= Cardinality(Tasks), answer[t] = "none",
           Owned(u)' = Owned(u) \ batch, Owned(t)' = Owned(t) \cup (batch \ {x}),
           \A w \in Threads \ {t, u} : Owned(w)' = Owned(w),
           Found(t, x), pushed' = pushed, delivered' = delivered
    PROVE  Abstract!Next
PROOF
<1>1. [w \in Threads |-> Owned(w)']
        = [[w \in Threads |-> Owned(w)] EXCEPT ![u] = @ \ batch,
                                               ![t] = @ \cup (batch \ {x})]
  OBVIOUS
<1>2. Abstract!TakeFrom(t, u, batch, x) /\ Abstract!Found(t, x)
  BY <1>1 DEF Abstract!TakeFrom, Abstract!Found, Found
<1>3. batch \in SUBSET ([w \in Threads |-> Owned(w)][u])
  OBVIOUS
<1>4. \E w \in Threads : \E b \in SUBSET ([y \in Threads |-> Owned(y)][w]) : \E y \in b :
         /\ Abstract!Cardinality(b) <= Abstract!Cardinality(Tasks)
         /\ Abstract!TakeFrom(t, w, b, y)
         /\ Abstract!Found(t, y)
  BY <1>2, <1>3, SameCardinality
<1>5. Abstract!PopStolen(t)
  BY <1>4, SameCardinality DEF Abstract!PopStolen
<1> QED BY <1>5 DEF Abstract!Next

LEMMA TakeMoves ==
    ASSUME ObimInv, NEW t \in Threads, NEW b \in Bins, NEW x \in Tasks, PopFrom(t, b, x),
           answer[t] = "none", todo' = todo, masterLog' = masterLog, pushed' = pushed
    PROVE  /\ Apart' /\ BinsInv' /\ Abstract!Next
           /\ contents' \in [Bins -> [Threads -> SUBSET Tasks]]
           /\ \A c \in Bins : \A u \in Threads \ {t} : contents'[c][u] \subseteq contents[c][u]
           /\ \A c \in Bins : c # b => contents'[c][t] = contents[c][t]
PROOF
<1>1. /\ contents \in [Bins -> [Threads -> SUBSET Tasks]] /\ Apart /\ BinsInv
      /\ Found(t, x) /\ delivered' = delivered
  BY DEF ObimInv, OTypeOK, PopFrom, Found
<1>2. b # 0 /\ 0 \notin Bins /\ b \in Places
  BY IndexFacts DEF Bins, Places
<1>3. CASE x \in contents[b][t] /\ contents' = [contents EXCEPT ![b][t] = @ \ {x}]
  <2>1. /\ contents' \in [Bins -> [Threads -> SUBSET Tasks]]
        /\ \A c \in Bins : \A u \in Threads :
              contents'[c][u] = IF c = b /\ u = t THEN contents[c][u] \ {x} ELSE contents[c][u]
    BY <1>1, <1>3
  <2>2. \A c \in Places : \A u \in Threads :
           Holds(c, u)' = IF c = b /\ u = t THEN Holds(c, u) \ {x} ELSE Holds(c, u)
    BY <1>2, <2>1 DEF Holds, Places
  <2>3. x \in Holds(b, t)
    BY <1>2, <1>3 DEF Holds
  <2>4. Apart'
    <3>1. \A c \in Places : \A u \in Threads : \A y : y \in Holds(c, u)' => y \in Holds(c, u)
      BY <2>2
    <3> QED BY <1>1, <3>1 DEF Apart
  <2>5. BinsInv'
    <3>1. \A c \in Bins : \A u \in Threads : contents'[c][u] \subseteq contents[c][u]
      BY <2>1
    <3> QED BY <1>1, <3>1 DEF BinsInv
  <2>6. x \in Owned(t)
    BY <1>2, <2>3, OwnedMember
  <2>7. Owned(t)' = Owned(t) \ {x}
    <3>1. \A y : y \in Owned(t)' => y \in Owned(t) /\ y # x
      BY <1>1, <1>2, <2>2, <2>3, OwnedMember DEF Apart
    <3>2. \A y : y \in Owned(t) /\ y # x => y \in Owned(t)'
      BY <2>2, OwnedMember
    <3> QED BY <3>1, <3>2
  <2>8. ASSUME NEW u \in Threads \ {t} PROVE Owned(u)' = Owned(u)
    <3>1. \A y : y \in Owned(u)' <=> y \in Owned(u)
      BY <2>2, OwnedMember
    <3> QED BY <3>1
  <2>9. Abstract!Next
    BY <1>1, <2>6, <2>7, <2>8, RefinedPopOwn
  <2> QED BY <2>1, <2>4, <2>5, <2>9
<1>4. CASE \E u \in Threads \ {t} : \E batch \in SUBSET contents[b][u] :
             /\ x \in batch
             /\ contents' = [contents EXCEPT ![b][u] = @ \ batch, ![b][t] = @ \cup (batch \ {x})]
  <2>1. PICK u \in Threads \ {t} : \E batch \in SUBSET contents[b][u] :
             /\ x \in batch
             /\ contents' = [contents EXCEPT ![b][u] = @ \ batch, ![b][t] = @ \cup (batch \ {x})]
    BY <1>4
  <2>2. PICK batch \in SUBSET contents[b][u] :
             /\ x \in batch
             /\ contents' = [contents EXCEPT ![b][u] = @ \ batch, ![b][t] = @ \cup (batch \ {x})]
    BY <2>1
  <2>3. batch \in SUBSET Tasks
    BY <1>1
  <2>4. /\ contents' \in [Bins -> [Threads -> SUBSET Tasks]]
        /\ \A c \in Bins : \A w \in Threads :
              contents'[c][w] = IF c = b /\ w = u THEN contents[c][w] \ batch
                                ELSE IF c = b /\ w = t THEN contents[c][w] \cup (batch \ {x})
                                ELSE contents[c][w]
    <3> DEFINE mid == [contents EXCEPT ![b][u] = @ \ batch]
    <3>1. mid \in [Bins -> [Threads -> SUBSET Tasks]]
      BY <1>1, <2>3
    <3>2. contents' = [mid EXCEPT ![b][t] = @ \cup (batch \ {x})]
      BY <2>2
    <3>3. contents' \in [Bins -> [Threads -> SUBSET Tasks]]
      <4> HIDE DEF mid
      <4> QED BY <2>3, <3>1, <3>2
    <3>4. \A c \in Bins : \A w \in Threads :
              contents'[c][w] = IF c = b /\ w = u THEN contents[c][w] \ batch
                                ELSE IF c = b /\ w = t THEN contents[c][w] \cup (batch \ {x})
                                ELSE contents[c][w]
      BY <1>1, <2>2
    <3> QED BY <3>3, <3>4
  <2>5. \A c \in Places : \A w \in Threads :
           Holds(c, w)' = IF c = b /\ w = u THEN Holds(c, w) \ batch
                          ELSE IF c = b /\ w = t THEN Holds(c, w) \cup (batch \ {x})
                          ELSE Holds(c, w)
    BY <1>2, <2>4 DEF Holds, Places
  <2>6. batch \subseteq Holds(b, u)
    BY <1>2 DEF Holds
  <2>7. \A y \in batch : y \in pushed /\ \A c \in Places : \A w \in Threads :
                             y \in Holds(c, w) => c = b /\ w = u
    BY <1>1, <1>2, <2>6 DEF Apart
  <2>8. Apart'
    <3> SUFFICES ASSUME NEW c \in Places, NEW d \in Places, NEW v \in Threads, NEW w \in Threads,
                        NEW y \in Holds(c, v)'
                 PROVE  y \in pushed /\ (y \in Holds(d, w)' => c = d /\ v = w)
      BY DEF Apart
    <3>1. CASE y \in batch
      <4>1. \A e \in Places : \A z \in Threads : y \in Holds(e, z)' => e = b /\ z = t
        BY <2>5, <2>7, <3>1
      <4> QED BY <2>7, <3>1, <4>1
    <3>2. CASE y \notin batch
      <4>1. \A e \in Places : \A z \in Threads : y \in Holds(e, z)' => y \in Holds(e, z)
        BY <2>5, <3>2
      <4> QED BY <1>1, <4>1 DEF Apart
    <3> QED BY <3>1, <3>2
  <2>9. BinsInv'
    <3>1. \A c \in Bins : \A w \in Threads : \A y \in contents'[c][w] :
             \E v \in Threads : y \in contents[c][v]
      BY <2>4
    <3> QED BY <1>1, <3>1 DEF BinsInv
  <2>10. batch \in SUBSET Owned(u)
    BY <1>2, <2>6, OwnedMember
  <2>11. Owned(u)' = Owned(u) \ batch
    <3>1. \A y : y \in Owned(u)' => y \in Owned(u) /\ y \notin batch
      BY <2>5, <2>7, OwnedMember
    <3>2. \A y : y \in Owned(u) /\ y \notin batch => y \in Owned(u)'
      BY <2>5, OwnedMember
    <3> QED BY <3>1, <3>2
  <2>12. Owned(t)' = Owned(t) \cup (batch \ {x})
    <3>1. \A y : y \in Owned(t)' => y \in Owned(t) \cup (batch \ {x})
      BY <2>5, OwnedMember
    <3>2. \A y : y \in Owned(t) \cup (batch \ {x}) => y \in Owned(t)'
      BY <1>2, <2>5, OwnedMember
    <3> QED BY <3>1, <3>2
  <2>13. ASSUME NEW w \in Threads \ {t, u} PROVE Owned(w)' = Owned(w)
    <3>1. \A y : y \in Owned(w)' <=> y \in Owned(w)
      BY <2>5, OwnedMember
    <3> QED BY <3>1
  <2>14. Cardinality(batch) <= Cardinality(Tasks)
    BY <2>3, FS_Subset, ObimAssumption
  <2>15. Abstract!Next
    BY <1>1, <2>2, <2>10, <2>11, <2>12, <2>13, <2>14, RefinedPopStolen
  <2> QED BY <2>4, <2>8, <2>9, <2>15
<1> QED BY <1>3, <1>4 DEF PopFrom

LEMMA RefinedPopNothing ==
    ASSUME NEW t \in Threads, Owned(t) = {}, answer[t] = "none",
           answer' = [answer EXCEPT ![t] = "nothing"], hand' = hand,
           \A u \in Threads : Owned(u)' = Owned(u), pushed' = pushed, delivered' = delivered
    PROVE  Abstract!Next
PROOF
<1>1. [u \in Threads |-> Owned(u)'] = [u \in Threads |-> Owned(u)]
  OBVIOUS
<1>2. Abstract!PopNothing(t)
  BY <1>1 DEF Abstract!PopNothing, Abstract!TakeNothing
<1> QED BY <1>2 DEF Abstract!Next

LEMMA RefinedReturn ==
    ASSUME NEW t \in Threads, Return(t), \A u \in Threads : Owned(u)' = Owned(u)
    PROVE  Abstract!Next
PROOF
<1>1. [u \in Threads |-> Owned(u)'] = [u \in Threads |-> Owned(u)]
  OBVIOUS
<1>2. Abstract!Return(t)
  BY <1>1 DEF Abstract!Return, Return
<1> QED BY <1>2 DEF Abstract!Next

-----------------------------------------------------------------------------
(* The steps, one by one.                                                  *)

\* A step keeps the invariant, and the worklist allows it.
Sound == ObimInv' /\ [Abstract!Next]_Abstract!vars

\* A step of t that moves no element.
LEMMA QuietKeeps ==
    ASSUME ObimInv, NEW t \in Threads, OTypeOK', class' = class,
           contents' = contents, todo' = todo, pushed' = pushed,
           LogInv', LogGrows,
           \A u \in Threads \ {t} : SameAs(u) /\ LockRespected(u),
           ThreadInv(t)'
    PROVE  ObimInv' /\ \A u \in Threads : Owned(u)' = Owned(u)
PROOF
<1>1. Apart' /\ BinsInv' /\ \A u \in Threads : Owned(u)' = Owned(u)
  BY NothingMoves
<1>2. masterVersion' \in Nat
  BY DEF OTypeOK
<1>3. \A u \in Threads \ {t} : ThreadInv(u)'
  BY <1>2, OthersKeep
<1> QED BY <1>1, <1>3 DEF ObimInv

LEMMA QuietSound ==
    ASSUME ObimInv, NEW t \in Threads, OTypeOK', class' = class,
           contents' = contents, todo' = todo, pushed' = pushed,
           LogInv', LogGrows,
           \A u \in Threads \ {t} : SameAs(u) /\ LockRespected(u),
           ThreadInv(t)', answer' = answer, hand' = hand, delivered' = delivered
    PROVE  Sound
PROOF BY QuietKeeps, RefinedStutter DEF Sound

\* What t knows and owns stays, as long as it only learns more.
LEMMA StillKnown ==
    ASSUME ObimInv, NEW t \in Threads, LogGrows, class' = class,
           Prefix(t)' \in Nat, Prefix(t) <= Prefix(t)',
           curIndex'[t] = curIndex[t], scanStart'[t] = scanStart[t], current'[t] = current[t]
    PROVE  CurInv(t)'
PROOF
<1>1. CurInv(t) /\ Prefix(t) \in Nat
  BY PrefixFacts DEF ObimInv, ThreadInv
<1>2. \A b \in 1..Prefix(t) : b \in 1..Prefix(t)' /\ masterLog'[b] = masterLog[b]
  BY <1>1, PrefixFacts DEF LogGrows
<1> QED BY <1>1, <1>2 DEF CurInv

LEMMA StillOwned ==
    ASSUME ObimInv, NEW t \in Threads, LogGrows, class' = class, contents' = contents,
           Prefix(t)' \in Nat, Prefix(t) <= Prefix(t)', scanStart'[t] = scanStart[t],
           pc'[t] # "scan"
    PROVE  OwnInv(t)'
PROOF
<1>1. OwnInv(t) /\ Prefix(t) \in Nat
  BY PrefixFacts DEF ObimInv, ThreadInv
<1>2. \A b \in 1..Prefix(t) : b \in 1..Prefix(t)' /\ masterLog'[b] = masterLog[b]
  BY <1>1, PrefixFacts DEF LogGrows
<1> QED BY <1>1, <1>2 DEF OwnInv

LEMMA ReplaySound == ASSUME ObimInv, NEW t \in Threads, Replay(t) PROVE Sound
PROOF
<1> DEFINE n == lastMasterVersion[t] + 1
           i == masterLog[n]
<1>1. /\ pc[t] \in {"update", "updateLocked", "updatePop"} /\ lastMasterVersion[t] < masterVersion
      /\ local' = [local EXCEPT ![t] = Assign(@, i, n)]
      /\ lastMasterVersion' = [lastMasterVersion EXCEPT ![t] = n]
      /\ UNCHANGED <<masterVars, scanVars, contents, pc, callVars, answerVars, pushed>>
  BY DEF Replay, Replaying, ReplayEntry
<1>2. /\ OTypeOK /\ ThreadInv(t) /\ local[t] \in Maps /\ lastMasterVersion[t] \in Nat
      /\ masterVersion \in Nat
  BY DEF ObimInv, OTypeOK
<1>3. /\ n \in Nat \ {0} /\ n \in DOMAIN masterLog /\ i \in Indices /\ n <= masterVersion
      /\ \A b \in 1..n : b = n \/ b \in 1..lastMasterVersion[t]
  BY <1>1, <1>2, LogFacts
<1>4. ~Creating(t) /\ ~Creating(t)' /\ Prefix(t) = lastMasterVersion[t] /\ Prefix(t)' = n
  BY <1>1, <1>2 DEF Creating, Prefix, OTypeOK
<1> HIDE DEF n, i
<1> DEFINE m == Assign(local[t], i, n)
<1>5. /\ m \in Maps /\ DOMAIN m = (DOMAIN local[t]) \cup {i}
      /\ At(m, i) = n /\ \A j : j # i => At(m, j) = At(local[t], j)
      /\ local'[t] = m /\ lastMasterVersion'[t] = n
  <2>1. local'[t] = m /\ lastMasterVersion'[t] = n
    BY <1>1, <1>2 DEF OTypeOK
  <2> HIDE DEF m
  <2>2. local[t] \in Maps /\ i \in Indices /\ n \in Nat
    BY <1>2, <1>3
  <2>3. /\ m \in Maps /\ DOMAIN m = (DOMAIN local[t]) \cup {i}
        /\ At(m, i) = n /\ \A j : j # i => At(m, j) = At(local[t], j)
    <3>1. m \in Maps
      BY <2>2, AssignFacts DEF m
    <3>2. DOMAIN m = (DOMAIN local[t]) \cup {i}
      BY <2>2, AssignFacts DEF m
    <3>3. At(m, i) = n /\ \A j : j # i => At(m, j) = At(local[t], j)
      BY <2>2, AssignFacts DEF m
    <3> QED BY <3>1, <3>2, <3>3
  <2> QED BY <2>1, <2>3
<1> HIDE DEF m
<1>6. OTypeOK'
  BY <1>1, <1>2, <1>3, <1>5 DEF OTypeOK, masterVars, scanVars, callVars, answerVars, m
<1>7. \A u \in Threads \ {t} : SameAs(u) /\ LockRespected(u)
  BY <1>1, <1>2 DEF OTypeOK, SameAs, LockRespected, masterVars, scanVars, callVars, answerVars
<1>8. LogInv' /\ LogGrows
  BY <1>1, LogKept DEF masterVars
<1>9. CallInv(t)'
  BY <1>1, <1>2, <1>5 DEF ThreadInv, CallInv, Finding, IndexOfVal, callVars, answerVars
<1>10. MakerInv(t)'
  BY <1>1, <1>2, <1>3, <1>4, <1>5 DEF ThreadInv, MakerInv, masterVars
<1>11. MapInv(t)'
  <2>1. \A b \in 1..lastMasterVersion[t] : masterLog[b] # i
    <3>1. \A b \in 1..lastMasterVersion[t] : b \in DOMAIN masterLog /\ b # n
      BY <1>2, <1>4, PrefixFacts DEF n
    <3> QED BY <1>3, <3>1 DEF ObimInv, LogInv, i
  <2>2. MapInv(t)
    BY <1>2 DEF ThreadInv
  <2>3. ASSUME NEW b \in 1..n PROVE At(m, masterLog[b]) = b
    BY <1>3, <1>4, <1>5, <2>1, <2>2 DEF MapInv, i
  <2>4. ASSUME NEW j \in DOMAIN m
        PROVE  \/ \E b \in 1..n : masterLog[b] = j
               \/ pc[t] \in {"update", "tryLock", "updateLocked"} /\ j = IndexOfVal(t) /\ m[j] = 0
    <3>1. CASE j = i
      <4>1. n \in 1..n
        BY <1>3
      <4> QED BY <3>1, <4>1 DEF i
    <3>2. CASE j # i
      <4>1. j \in DOMAIN local[t] /\ m[j] = local[t][j]
        BY <1>5, <3>2 DEF m, Assign
      <4>2. \A b \in 1..lastMasterVersion[t] : b \in 1..n
        BY <1>2 DEF n
      <4> QED BY <1>4, <2>2, <4>1, <4>2 DEF MapInv
    <3> QED BY <3>1, <3>2
  <2>5. /\ masterLog' = masterLog /\ pc' = pc /\ IndexOfVal(t)' = IndexOfVal(t)
    BY <1>1 DEF masterVars, callVars, IndexOfVal
  <2> QED BY <1>4, <1>5, <2>3, <2>4, <2>5 DEF MapInv
<1>12. CurInv(t)' /\ OwnInv(t)'
  <2>1. Prefix(t)' \in Nat /\ Prefix(t) <= Prefix(t)'
    BY <1>2, <1>3, <1>4 DEF n
  <2> QED BY <1>1, <1>8, <2>1, StillKnown, StillOwned DEF masterVars, scanVars
<1>13. ThreadInv(t)'
  BY <1>9, <1>10, <1>11, <1>12 DEF ThreadInv
<1> QED BY <1>1, <1>6, <1>7, <1>8, <1>13, QuietSound DEF masterVars, callVars, answerVars

LEMMA PushBeginSound == ASSUME ObimInv, NEW t \in Threads, PushBegin(t) PROVE Sound
PROOF
<1>1. PICK range \in (SUBSET (Tasks \ pushed)) \ {{}} :
          todo' = [todo EXCEPT ![t] = range] /\ pushed' = pushed \cup range
  BY DEF PushBegin
<1>2. /\ pc[t] = "idle" /\ answer[t] = "none" /\ pc' = [pc EXCEPT ![t] = "push"]
      /\ UNCHANGED <<masterVars, local, lastMasterVersion, scanVars, contents,
                     val, msS, unread, answerVars>>
  BY DEF PushBegin, Goto
<1>3. OTypeOK /\ ThreadInv(t) /\ Apart /\ BinsInv /\ todo[t] = {}
  BY <1>2 DEF ObimInv, ThreadInv, CallInv
<1>4. OTypeOK'
  BY <1>1, <1>2, <1>3 DEF OTypeOK, Labels, masterVars, scanVars, answerVars
<1>5. \A u \in Threads \ {t} : SameAs(u) /\ LockRespected(u)
  BY <1>1, <1>2, <1>3 DEF OTypeOK, SameAs, LockRespected, masterVars, scanVars, answerVars
<1>6. LogInv' /\ LogGrows /\ masterVersion' \in Nat
  BY <1>2, <1>3, LogKept DEF OTypeOK, masterVars
<1>7. todo'[t] = range /\ \A u \in Threads \ {t} : todo'[u] = todo[u]
  BY <1>1, <1>3 DEF OTypeOK
<1>8. 0 \in Places
  BY DEF Places
<1>9. \A b \in Places : \A u \in Threads :
         Holds(b, u)' = IF b = 0 /\ u = t THEN range ELSE Holds(b, u)
  BY <1>2, <1>7 DEF Holds
<1>10. Apart'
  <2> SUFFICES ASSUME NEW c \in Places, NEW d \in Places, NEW u \in Threads, NEW v \in Threads,
                      NEW y \in Holds(c, u)'
               PROVE  y \in pushed \cup range /\ (y \in Holds(d, v)' => c = d /\ u = v)
    BY <1>1 DEF Apart
  <2>1. CASE y \in range
    <3>1. \A e \in Places : \A w \in Threads : y \in Holds(e, w)' => e = 0 /\ w = t
      BY <1>3, <1>9, <2>1 DEF Apart
    <3> QED BY <2>1, <3>1
  <2>2. CASE y \notin range
    <3>1. \A e \in Places : \A w \in Threads : y \in Holds(e, w)' => y \in Holds(e, w)
      BY <1>9, <2>2
    <3> QED BY <1>3, <3>1 DEF Apart
  <2> QED BY <2>1, <2>2
<1>11. BinsInv'
  BY <1>2, <1>3 DEF BinsInv, masterVars
<1>12. ThreadInv(t)'
  <2>1. /\ ~Creating(t) /\ ~Creating(t)' /\ Prefix(t)' = Prefix(t) /\ pc'[t] = "push"
        /\ Prefix(t) \in Nat /\ local' = local
    BY <1>2, <1>3, PrefixFacts DEF Creating, Prefix, OTypeOK
  <2>2. CallInv(t)'
    BY <1>2, <1>3, <2>1 DEF CallInv, Finding, answerVars
  <2>3. MakerInv(t)'
    BY <1>2, <1>3, <2>1 DEF ThreadInv, MakerInv, masterVars
  <2>4. MapInv(t)'
    BY <1>2, <1>3, <2>1 DEF ThreadInv, MapInv, masterVars
  <2>5. CurInv(t)' /\ OwnInv(t)'
    BY <1>2, <1>6, <2>1, StillKnown, StillOwned DEF masterVars, scanVars
  <2> QED BY <2>2, <2>3, <2>4, <2>5 DEF ThreadInv
<1>13. \A u \in Threads \ {t} : ThreadInv(u)'
  BY <1>2, <1>5, <1>6, OthersKeep DEF masterVars
<1>14. /\ Owned(t)' = Owned(t) \cup range
       /\ \A u \in Threads \ {t} : Owned(u)' = Owned(u)
  BY <1>2, <1>3, <1>7 DEF Owned
<1>15. Abstract!Next
  BY <1>1, <1>2, <1>14, RefinedPush DEF answerVars
<1> QED BY <1>4, <1>6, <1>10, <1>11, <1>12, <1>13, <1>15 DEF Sound, ObimInv

\* The end of a push, with or without a look at the map.
LEMMA PutSound ==
    ASSUME ObimInv, NEW t \in Threads, pc[t] \in {"push", "put"}, NEW x \in todo[t],
           NEW b \in 1..Prefix(t), masterLog[b] = IndexOf[x], Put(t, x, b),
           UNCHANGED <<masterVars, local, lastMasterVersion, msS, unread, answerVars, pushed>>,
           curIndex' \in [Threads -> Nat], scanStart' \in [Threads -> Nat],
           current' \in [Threads -> Nat], val' \in [Threads -> SUBSET Tasks],
           \A u \in Threads \ {t} : /\ curIndex'[u] = curIndex[u] /\ scanStart'[u] = scanStart[u]
                                    /\ current'[u] = current[u] /\ val'[u] = val[u],
           CurInv(t)', class.bsp => scanStart'[t] <= scanStart[t] /\ scanStart'[t] <= IndexOf[x]
    PROVE  Sound
PROOF
<1>1. OTypeOK /\ ThreadInv(t)
  BY DEF ObimInv
<1>2. /\ b \in Bins /\ b \in DOMAIN masterLog /\ Prefix(t) \in Nat
      /\ 1..Prefix(t) \subseteq DOMAIN masterLog
  BY PrefixFacts
<1>3. /\ pc' = [pc EXCEPT ![t] = IF todo[t] = {x} THEN "idle" ELSE "push"]
      /\ masterLog' = masterLog /\ masterVersion' = masterVersion /\ masterLock' = masterLock
      /\ class' = class /\ answer' = answer
  BY DEF Put, Goto, masterVars, answerVars
<1>4. /\ Apart' /\ BinsInv' /\ \A u \in Threads : Owned(u)' = Owned(u)
      /\ contents' \in [Bins -> [Threads -> SUBSET Tasks]]
      /\ todo' \in [Threads -> SUBSET Tasks]
      /\ \A c \in Bins : \A u \in Threads :
            contents'[c][u] = IF c = b /\ u = t THEN contents[c][u] \cup {x} ELSE contents[c][u]
      /\ todo'[t] = todo[t] \ {x} /\ \A u \in Threads \ {t} : todo'[u] = todo[u]
  BY <1>2, <1>3, PutMoves
<1>5. /\ pc' \in [Threads -> Labels] /\ pc'[t] \in {"idle", "push"}
      /\ (pc'[t] = "idle" => todo'[t] = {}) /\ \A u \in Threads \ {t} : pc'[u] = pc[u]
  BY <1>1, <1>3, <1>4 DEF OTypeOK, Labels
<1>6. OTypeOK'
  BY <1>1, <1>4, <1>5 DEF OTypeOK, masterVars, answerVars
<1>7. \A u \in Threads \ {t} : SameAs(u) /\ LockRespected(u)
  BY <1>3, <1>4, <1>5 DEF SameAs, LockRespected
<1>8. LogInv' /\ LogGrows /\ masterVersion' \in Nat
  BY <1>3, <1>5, LogKept
<1>9. \A u \in Threads \ {t} : ThreadInv(u)'
  <2>1. \A u \in Threads \ {t} : \A c \in Bins : contents'[c][u] \subseteq contents[c][u]
    BY <1>4
  <2> QED BY <1>3, <1>7, <1>8, <2>1, OthersKeep
<1>10. /\ ~Creating(t) /\ ~Creating(t)' /\ Prefix(t)' = Prefix(t) /\ local' = local
       /\ lastMasterVersion' = lastMasterVersion
  BY <1>5 DEF Creating, Prefix
<1>11. CallInv(t)'
  BY <1>1, <1>3, <1>5 DEF ThreadInv, CallInv, Finding
<1>12. MakerInv(t)'
  BY <1>1, <1>3, <1>5, <1>10 DEF ThreadInv, MakerInv
<1>13. MapInv(t)'
  BY <1>1, <1>3, <1>10 DEF ThreadInv, MapInv
<1>14. OwnInv(t)'
  <2> SUFFICES ASSUME NEW c \in Bins, contents'[c][t] # {}
               PROVE  c \in 1..Prefix(t) /\ (class.bsp => scanStart'[t] <= masterLog[c])
    BY <1>3, <1>5, <1>10 DEF OwnInv
  <2>1. CASE c = b
    BY <2>1
  <2>2. CASE c # b
    <3>1. contents[c][t] # {}
      BY <1>4, <2>2
    <3>2. c \in 1..Prefix(t) /\ (class.bsp => scanStart[t] <= masterLog[c])
      BY <1>1, <3>1 DEF ThreadInv, OwnInv
    <3>3. masterLog[c] \in Nat /\ scanStart[t] \in Nat /\ scanStart'[t] \in Nat
      BY <1>1, <1>2, <3>2, LogFacts DEF OTypeOK
    <3> QED BY <3>2, <3>3
  <2> QED BY <2>1, <2>2
<1>15. ThreadInv(t)'
  BY <1>11, <1>12, <1>13, <1>14 DEF ThreadInv
<1>16. UNCHANGED Abstract!vars
  BY <1>4, RefinedStutter DEF answerVars
<1> QED BY <1>4, <1>6, <1>8, <1>9, <1>15, <1>16 DEF Sound, ObimInv

LEMMA PushFastSound == ASSUME ObimInv, NEW t \in Threads, PushFast(t) PROVE Sound
PROOF
<1>1. /\ pc[t] = "push" /\ current[t] # 0
      /\ UNCHANGED <<masterVars, local, lastMasterVersion, scanVars, val, msS, unread,
                     answerVars, pushed>>
  BY DEF PushFast
<1>2. PICK x \in todo[t] : IndexOf[x] = curIndex[t] /\ Put(t, x, current[t])
  BY DEF PushFast
<1>3. OTypeOK /\ CurInv(t)
  BY DEF ObimInv, ThreadInv
<1>4. /\ current[t] \in 1..Prefix(t) /\ masterLog[current[t]] = IndexOf[x]
      /\ class.bsp => scanStart[t] <= IndexOf[x]
  BY <1>1, <1>2, <1>3 DEF CurInv
<1>5. CurInv(t)'
  <2>1. Prefix(t)' = Prefix(t)
    BY <1>1, <1>2, <1>3 DEF Prefix, Creating, Put, Goto, OTypeOK
  <2> QED BY <1>1, <1>3, <2>1 DEF CurInv, scanVars, masterVars
<1>6. /\ curIndex' \in [Threads -> Nat] /\ scanStart' \in [Threads -> Nat]
      /\ current' \in [Threads -> Nat] /\ val' \in [Threads -> SUBSET Tasks]
      /\ \A u \in Threads \ {t} : /\ curIndex'[u] = curIndex[u] /\ scanStart'[u] = scanStart[u]
                                  /\ current'[u] = current[u] /\ val'[u] = val[u]
      /\ class.bsp => scanStart'[t] <= scanStart[t] /\ scanStart'[t] <= IndexOf[x]
  BY <1>1, <1>3, <1>4 DEF OTypeOK, scanVars
<1> QED BY <1>1, <1>2, <1>4, <1>5, <1>6, PutSound

LEMMA PutInBinSound == ASSUME ObimInv, NEW t \in Threads, PutInBin(t) PROVE Sound
PROOF
<1> DEFINE i == IndexOfVal(t)
           b == BinOfVal(t)
<1>1. /\ pc[t] = "put"
      /\ scanStart' = IF class.bsp THEN [scanStart EXCEPT ![t] = Min2(@, i)] ELSE scanStart
      /\ IF i < curIndex[t]
         THEN /\ curIndex' = [curIndex EXCEPT ![t] = i]
              /\ current' = [current EXCEPT ![t] = b]
         ELSE UNCHANGED <<curIndex, current>>
      /\ val' = [val EXCEPT ![t] = {}]
      /\ UNCHANGED <<masterVars, local, lastMasterVersion, msS, unread, answerVars, pushed>>
  BY DEF PutInBin
<1>2. PICK x \in todo[t] : /\ val[t] = {x} /\ i = IndexOf[x] /\ x \in Tasks /\ i \in Indices
                           /\ i \in DOMAIN local[t]
  BY <1>1, ValFacts DEF Finding
<1>3. Put(t, x, b)
  BY <1>2 DEF PutInBin
<1>4. OTypeOK /\ CurInv(t) /\ i \in Nat
  BY <1>2, IndexFacts DEF ObimInv, ThreadInv
<1>5. b \in 1..Prefix(t) /\ masterLog[b] = i /\ b \in Nat
  <2>1. b = local[t][i]
    BY <1>2 DEF BinOfVal, At
  <2> QED BY <1>1, <1>2, <2>1, Known
<1>6. Prefix(t)' = Prefix(t) /\ masterLog' = masterLog /\ class' = class
  BY <1>1, <1>3, <1>4 DEF Prefix, Creating, Put, Goto, OTypeOK, masterVars
<1> HIDE DEF i, b
<1>7. /\ curIndex' \in [Threads -> Nat] /\ scanStart' \in [Threads -> Nat]
      /\ current' \in [Threads -> Nat] /\ val' \in [Threads -> SUBSET Tasks]
      /\ \A u \in Threads \ {t} : /\ curIndex'[u] = curIndex[u] /\ scanStart'[u] = scanStart[u]
                                  /\ current'[u] = current[u] /\ val'[u] = val[u]
  BY <1>1, <1>4, <1>5 DEF OTypeOK, Min2
<1>8. scanStart[t] \in Nat /\ curIndex[t] \in Nat /\ scanStart'[t] \in Nat
  BY <1>4, <1>7 DEF OTypeOK
<1>9. /\ class.bsp => scanStart'[t] <= scanStart[t] /\ scanStart'[t] <= i
      /\ ~class.bsp => scanStart'[t] = scanStart[t]
  <2>1. class.bsp => scanStart'[t] = Min2(scanStart[t], i)
    BY <1>1, <1>4 DEF OTypeOK
  <2> QED BY <1>1, <1>4, <1>8, <2>1 DEF Min2
<1>10. CurInv(t)'
  <2>1. CASE i < curIndex[t]
    <3>1. curIndex'[t] = i /\ current'[t] = b
      BY <1>1, <1>4, <2>1 DEF OTypeOK
    <3> QED BY <1>5, <1>6, <1>9, <3>1 DEF CurInv
  <2>2. CASE ~(i < curIndex[t])
    <3>1. curIndex'[t] = curIndex[t] /\ current'[t] = current[t]
      BY <1>1, <2>2
    <3> QED BY <1>4, <1>6, <1>8, <1>9, <3>1 DEF CurInv
  <2> QED BY <2>1, <2>2
<1> QED BY <1>1, <1>2, <1>3, <1>5, <1>7, <1>9, <1>10, PutSound

LEMMA PushSlowSound == ASSUME ObimInv, NEW t \in Threads, PushSlow(t) PROVE Sound
PROOF
<1>1. PICK x \in todo[t] :
         /\ val' = [val EXCEPT ![t] = {x}]
         /\ local' = [local EXCEPT ![t] = Assign(@, IndexOf[x], At(@, IndexOf[x]))]
         /\ Goto(t, IF At(local[t], IndexOf[x]) # 0 THEN "put" ELSE "update")
  BY DEF PushSlow
<1> DEFINE i == IndexOf[x]
           b == At(local[t], i)
           m == Assign(local[t], i, b)
<1>2. /\ pc[t] = "push" /\ pc' = [pc EXCEPT ![t] = IF b # 0 THEN "put" ELSE "update"]
      /\ UNCHANGED <<masterVars, lastMasterVersion, scanVars, contents, todo, msS, unread,
                     answerVars, pushed>>
  BY <1>1 DEF PushSlow, Goto
<1>3. OTypeOK /\ ThreadInv(t) /\ x \in Tasks /\ i \in Indices /\ local[t] \in Maps
  BY IndexFacts DEF ObimInv, OTypeOK
<1>4. b \in Nat
  BY <1>3, MapFacts DEF At
<1>5. /\ m \in Maps /\ DOMAIN m = (DOMAIN local[t]) \cup {i}
      /\ At(m, i) = b /\ \A j : j # i => At(m, j) = At(local[t], j)
  <2> HIDE DEF b, i
  <2> QED BY <1>3, <1>4, AssignFacts
<1>6. local' = [local EXCEPT ![t] = m] /\ local'[t] = m
  BY <1>1, <1>3 DEF OTypeOK
<1>7. val' = [val EXCEPT ![t] = {x}] /\ val'[t] = {x} /\ pc'[t] \in {"put", "update"}
  BY <1>1, <1>2, <1>3 DEF OTypeOK
<1>8. IndexOfVal(t)' = i
  BY <1>7 DEF IndexOfVal
<1>9. pc'[t] = IF b # 0 THEN "put" ELSE "update"
  BY <1>2, <1>3 DEF OTypeOK
<1> HIDE DEF i, b, m
<1>10. OTypeOK'
  BY <1>2, <1>3, <1>5, <1>6, <1>7 DEF OTypeOK, Labels, masterVars, scanVars, answerVars
<1>11. \A u \in Threads \ {t} : SameAs(u) /\ LockRespected(u)
  BY <1>2, <1>3, <1>6, <1>7 DEF OTypeOK, SameAs, LockRespected, masterVars, scanVars, answerVars
<1>12. LogInv' /\ LogGrows
  BY <1>2, <1>3, LogKept DEF OTypeOK, masterVars
<1>13. /\ ~Creating(t) /\ ~Creating(t)' /\ Prefix(t)' = Prefix(t) /\ Prefix(t) \in Nat
       /\ masterLog' = masterLog
  BY <1>2, <1>7, PrefixFacts DEF Creating, Prefix, masterVars
<1>14. CallInv(t)'
  BY <1>2, <1>3, <1>5, <1>6, <1>7, <1>8 DEF ThreadInv, CallInv, answerVars
<1>15. MakerInv(t)'
  BY <1>2, <1>3, <1>7, <1>13 DEF ThreadInv, MakerInv, masterVars
<1>16. MapInv(t)'
  <2>1. MapInv(t)
    BY <1>3 DEF ThreadInv
  <2>2. \A j : At(m, j) = At(local[t], j)
    BY <1>5 DEF b
  <2>3. ASSUME NEW j \in DOMAIN m
        PROVE  (\E c \in 1..Prefix(t) : masterLog[c] = j) \/ (pc'[t] = "update" /\ j = i /\ m[j] = 0)
    <3>1. CASE j \in DOMAIN local[t]
      BY <1>2, <1>13, <2>1, <3>1 DEF MapInv
    <3>2. CASE j \notin DOMAIN local[t]
      <4>1. j = i /\ b = 0
        BY <1>5, <2>3, <3>2 DEF b, At
      <4>2. m[j] = 0
        BY <1>5, <2>3, <4>1 DEF At
      <4> QED BY <1>9, <4>1, <4>2
    <3> QED BY <3>1, <3>2
  <2> QED BY <1>6, <1>8, <1>13, <2>1, <2>2, <2>3 DEF MapInv
<1>17. CurInv(t)' /\ OwnInv(t)'
  BY <1>2, <1>7, <1>12, <1>13, StillKnown, StillOwned DEF masterVars, scanVars
<1>18. ThreadInv(t)'
  BY <1>14, <1>15, <1>16, <1>17 DEF ThreadInv
<1> QED BY <1>2, <1>10, <1>11, <1>12, <1>18, QuietSound DEF masterVars, answerVars

LEMMA FindBinSound == ASSUME ObimInv, NEW t \in Threads, FindBin(t) PROVE Sound
PROOF
<1>1. /\ pc[t] = "update"
      /\ pc' = [pc EXCEPT ![t] = IF BinOfVal(t) # 0 THEN "put" ELSE "tryLock"]
      /\ UNCHANGED <<masterVars, local, lastMasterVersion, scanVars, contents, callVars,
                     answerVars, pushed>>
  BY DEF FindBin, Goto
<1>2. OTypeOK /\ ThreadInv(t) /\ pc'[t] = IF BinOfVal(t) # 0 THEN "put" ELSE "tryLock"
  BY <1>1 DEF ObimInv, OTypeOK
<1>3. OTypeOK'
  BY <1>1, <1>2 DEF OTypeOK, Labels, masterVars, scanVars, callVars, answerVars
<1>4. \A u \in Threads \ {t} : SameAs(u) /\ LockRespected(u)
  BY <1>1, <1>2 DEF OTypeOK, SameAs, LockRespected, masterVars, scanVars, callVars, answerVars
<1>5. LogInv' /\ LogGrows
  BY <1>1, <1>2, LogKept DEF OTypeOK, masterVars
<1>6. /\ ~Creating(t) /\ ~Creating(t)' /\ Prefix(t)' = Prefix(t) /\ Prefix(t) \in Nat
      /\ masterLog' = masterLog /\ local' = local /\ IndexOfVal(t)' = IndexOfVal(t)
  BY <1>1, <1>2, PrefixFacts DEF Creating, Prefix, masterVars, IndexOfVal, callVars
<1>7. CallInv(t)'
  BY <1>1, <1>2, <1>6 DEF ThreadInv, CallInv, Finding, callVars, answerVars
<1>8. MakerInv(t)'
  BY <1>1, <1>2, <1>6 DEF ThreadInv, MakerInv, masterVars
<1>9. MapInv(t)'
  <2>1. MapInv(t)
    BY <1>2 DEF ThreadInv
  <2>2. ASSUME NEW i \in DOMAIN local[t]
        PROVE  \/ \E b \in 1..Prefix(t) : masterLog[b] = i
               \/ pc'[t] = "tryLock" /\ i = IndexOfVal(t) /\ local[t][i] = 0
    BY <1>2, <1>6, <2>1 DEF MapInv, BinOfVal, At
  <2> QED BY <1>6, <2>1, <2>2 DEF MapInv
<1>10. CurInv(t)' /\ OwnInv(t)'
  BY <1>1, <1>2, <1>5, <1>6, StillKnown, StillOwned DEF masterVars, scanVars
<1>11. ThreadInv(t)'
  BY <1>7, <1>8, <1>9, <1>10 DEF ThreadInv
<1> QED BY <1>1, <1>3, <1>4, <1>5, <1>11, QuietSound DEF masterVars, callVars, answerVars

LEMMA TryLockSound == ASSUME ObimInv, NEW t \in Threads, TryLock(t) PROVE Sound
PROOF
<1>1. /\ pc[t] = "tryLock"
      /\ \/ masterLock = None /\ masterLock' = t /\ pc' = [pc EXCEPT ![t] = "updateLocked"]
         \/ masterLock' = masterLock /\ pc' = [pc EXCEPT ![t] = "update"]
      /\ UNCHANGED <<class, masterLog, masterVersion, local, lastMasterVersion, scanVars,
                     contents, callVars, answerVars, pushed>>
  BY DEF TryLock, Goto
<1>2. /\ OTypeOK /\ ThreadInv(t)
      /\ \/ pc'[t] = "updateLocked" /\ masterLock' = t
         \/ pc'[t] = "update"
  BY <1>1 DEF ObimInv, OTypeOK
<1>3. OTypeOK'
  BY <1>1, <1>2 DEF OTypeOK, Labels, scanVars, callVars, answerVars
<1>4. \A u \in Threads \ {t} : SameAs(u) /\ LockRespected(u)
  BY <1>1, <1>2, ObimAssumption
     DEF OTypeOK, SameAs, LockRespected, scanVars, callVars, answerVars
<1>5. LogInv' /\ LogGrows
  BY <1>1, <1>2, LogKept DEF OTypeOK
<1>6. /\ ~Creating(t) /\ ~Creating(t)' /\ Prefix(t)' = Prefix(t) /\ Prefix(t) \in Nat
      /\ masterLog' = masterLog /\ local' = local /\ IndexOfVal(t)' = IndexOfVal(t)
  BY <1>1, <1>2, PrefixFacts DEF Creating, Prefix, IndexOfVal, callVars
<1>7. CallInv(t)'
  BY <1>1, <1>2, <1>6 DEF ThreadInv, CallInv, Finding, callVars, answerVars
<1>8. MakerInv(t)'
  BY <1>1, <1>2, <1>6 DEF ThreadInv, MakerInv
<1>9. MapInv(t)'
  BY <1>1, <1>2, <1>6 DEF ThreadInv, MapInv
<1>10. CurInv(t)' /\ OwnInv(t)'
  BY <1>1, <1>2, <1>5, <1>6, StillKnown, StillOwned DEF scanVars
<1>11. ThreadInv(t)'
  BY <1>7, <1>8, <1>9, <1>10 DEF ThreadInv
<1> QED BY <1>1, <1>3, <1>4, <1>5, <1>11, QuietSound DEF callVars, answerVars

LEMMA CreateSound == ASSUME ObimInv, NEW t \in Threads, Create(t) PROVE Sound
PROOF
<1> DEFINE i == IndexOfVal(t)
           n == Len(masterLog) + 1
           m == Assign(local[t], i, n)
<1>1. /\ pc[t] = "updateLocked" /\ lastMasterVersion[t] >= masterVersion
      /\ UNCHANGED <<masterVars, scanVars, contents, callVars, answerVars, pushed>>
  BY DEF Create, Updated
<1>2. /\ OTypeOK /\ ThreadInv(t) /\ local[t] \in Maps /\ lastMasterVersion[t] \in Nat
      /\ masterVersion \in Nat
  BY DEF ObimInv, OTypeOK
<1>3. /\ masterLock = t /\ masterVersion = Len(masterLog) /\ lastMasterVersion[t] = masterVersion
      /\ Prefix(t) = masterVersion /\ n \in Nat /\ DOMAIN masterLog = 1..masterVersion
  <2>1. masterLock = t /\ lastMasterVersion[t] <= masterVersion /\ ~Creating(t)
    BY <1>1, <1>2 DEF ThreadInv, MakerInv, Creating
  <2>2. masterVersion = Len(masterLog) /\ DOMAIN masterLog = 1..Len(masterLog)
    BY <1>1, LockFacts, LogFacts
  <2>3. lastMasterVersion[t] = masterVersion
    BY <1>1, <1>2, <2>1
  <2>4. Prefix(t) = masterVersion
    BY <2>1, <2>3 DEF Prefix
  <2> QED BY <1>2, <2>1, <2>2, <2>3, <2>4
<1>4. i \in Indices /\ i \in DOMAIN local[t] /\ Finding(t)
  BY <1>1, ValFacts DEF Finding
<1>5. LogGrows /\ masterLog' = masterLog /\ masterVersion' = masterVersion
      /\ masterLock' = masterLock /\ IndexOfVal(t)' = i /\ todo' = todo /\ val' = val
      /\ answer' = answer /\ class' = class /\ scanStart' = scanStart /\ curIndex' = curIndex
      /\ current' = current
  BY <1>1, <1>2 DEF masterVars, LogGrows, IndexOfVal, callVars, answerVars, scanVars
<1>6. CASE BinOfVal(t) # 0
  <2>1. /\ pc' = [pc EXCEPT ![t] = "unlock"] /\ UNCHANGED <<local, lastMasterVersion>>
    BY <1>6 DEF Create, Goto
  <2>2. OTypeOK' /\ pc'[t] = "unlock"
    BY <1>1, <1>2, <2>1 DEF OTypeOK, Labels, masterVars, scanVars, callVars, answerVars
  <2>3. \A u \in Threads \ {t} : SameAs(u) /\ LockRespected(u)
    BY <1>1, <1>2, <2>1 DEF OTypeOK, SameAs, LockRespected, masterVars, scanVars, callVars, answerVars
  <2>4. LogInv'
    BY <1>1, <1>2, <1>5, <2>1, LogKept DEF OTypeOK
  <2>5. /\ ~Creating(t) /\ ~Creating(t)' /\ Prefix(t)' = Prefix(t) /\ Prefix(t) \in Nat
    BY <1>1, <1>2, <2>1, <2>2, PrefixFacts DEF Creating, Prefix
  <2>6. CallInv(t)'
    BY <1>2, <1>4, <1>5, <1>1, <2>1, <2>2 DEF ThreadInv, CallInv, Finding
  <2>7. MakerInv(t)'
    BY <1>2, <1>3, <1>5, <2>1, <2>2, <2>5 DEF ThreadInv, MakerInv
  <2>8. MapInv(t)'
    <3>1. MapInv(t)
      BY <1>2 DEF ThreadInv
    <3>2. \A j \in DOMAIN local[t] : \E b \in 1..Prefix(t) : masterLog[b] = j
      BY <1>4, <1>6, <2>5, <3>1 DEF MapInv, BinOfVal, At
    <3> QED BY <1>5, <2>1, <2>5, <3>1, <3>2 DEF MapInv
  <2>9. CurInv(t)' /\ OwnInv(t)'
    BY <1>1, <1>2, <1>5, <2>2, <2>5, StillKnown, StillOwned
  <2>10. ThreadInv(t)'
    BY <2>6, <2>7, <2>8, <2>9 DEF ThreadInv
  <2> QED BY <1>1, <1>5, <2>2, <2>3, <2>4, <2>10, QuietSound DEF answerVars
<1>7. CASE BinOfVal(t) = 0
  <2>1. /\ pc' = [pc EXCEPT ![t] = "append"]
        /\ local' = [local EXCEPT ![t] = m]
        /\ lastMasterVersion' = [lastMasterVersion EXCEPT ![t] = masterVersion + 1]
    BY <1>7 DEF Create, Goto
  <2>2. /\ m \in Maps /\ DOMAIN m = (DOMAIN local[t]) \cup {i}
        /\ At(m, i) = n /\ \A j : j # i => At(m, j) = At(local[t], j)
    <3>1. local[t] \in Maps /\ i \in Indices /\ n \in Nat
      BY <1>2, <1>3, <1>4
    <3> HIDE DEF i, n
    <3> QED BY <3>1, AssignFacts
  <2>3. /\ local'[t] = m /\ lastMasterVersion'[t] = masterVersion + 1 /\ pc'[t] = "append"
        /\ n = masterVersion + 1
    BY <1>2, <1>3, <2>1 DEF OTypeOK
  <2>4. \A b \in DOMAIN masterLog : masterLog[b] # i
    <3>1. MapInv(t)
      BY <1>2 DEF ThreadInv
    <3>2. \A b \in 1..masterVersion : At(local[t], masterLog[b]) = b /\ b # 0
      BY <1>2, <1>3, <3>1 DEF MapInv
    <3> QED BY <1>3, <1>7, <3>2 DEF BinOfVal
  <2> HIDE DEF m, n, i
  <2>5. OTypeOK'
    BY <1>1, <1>2, <2>1, <2>2 DEF OTypeOK, Labels, masterVars, scanVars, callVars, answerVars
  <2>6. \A u \in Threads \ {t} : SameAs(u) /\ LockRespected(u)
    BY <1>1, <1>2, <2>1 DEF OTypeOK, SameAs, LockRespected, masterVars, scanVars, callVars, answerVars
  <2>7. LogInv'
    BY <1>1, <1>2, <1>5, <2>1, LogKept DEF OTypeOK
  <2>8. Creating(t)' /\ ~Creating(t) /\ Prefix(t)' = Prefix(t) /\ Prefix(t) \in Nat
    BY <1>1, <1>2, <1>3, <2>3, PrefixFacts DEF Creating, Prefix
  <2>9. m[i] = n /\ i \in DOMAIN m
    BY <2>2 DEF At
  <2>10. CallInv(t)'
    BY <1>2, <1>4, <1>5, <1>1, <2>3, <2>9 DEF ThreadInv, CallInv, Finding
  <2>11. MakerInv(t)'
    BY <1>3, <1>5, <2>3, <2>4, <2>8, <2>9 DEF MakerInv
  <2>12. MapInv(t)'
    <3>1. MapInv(t)
      BY <1>2 DEF ThreadInv
    <3>2. \A b \in 1..Prefix(t) : At(m, masterLog[b]) = b
      BY <1>3, <2>2, <2>4, <3>1 DEF MapInv
    <3>3. ASSUME NEW j \in DOMAIN m PROVE j = i \/ \E b \in 1..Prefix(t) : masterLog[b] = j
      BY <2>2, <2>8, <3>1, <3>3 DEF MapInv, i
    <3> QED BY <1>5, <2>3, <2>8, <3>2, <3>3 DEF MapInv
  <2>13. CurInv(t)' /\ OwnInv(t)'
    BY <1>1, <1>2, <1>5, <2>3, <2>8, StillKnown, StillOwned
  <2>14. ThreadInv(t)'
    BY <2>10, <2>11, <2>12, <2>13 DEF ThreadInv
  <2> QED BY <1>1, <1>5, <2>5, <2>6, <2>7, <2>14, QuietSound DEF answerVars
<1> QED BY <1>6, <1>7

LEMMA AppendEntrySound == ASSUME ObimInv, NEW t \in Threads, AppendEntry(t) PROVE Sound
PROOF
<1> DEFINE i == IndexOfVal(t)
           n == masterVersion + 1
<1>1. /\ pc[t] = "append" /\ masterLog' = Append(masterLog, i)
      /\ pc' = [pc EXCEPT ![t] = "publish"]
      /\ UNCHANGED <<class, masterVersion, masterLock, local, lastMasterVersion, scanVars,
                     contents, callVars, answerVars, pushed>>
  BY DEF AppendEntry, Goto
<1>2. OTypeOK /\ ThreadInv(t) /\ pc'[t] = "publish"
  BY <1>1 DEF ObimInv, OTypeOK
<1>3. /\ masterLock = t /\ lastMasterVersion[t] = n
      /\ \A b \in DOMAIN masterLog : masterLog[b] # i
      /\ local[t][i] = n
  BY <1>1, <1>2 DEF ThreadInv, MakerInv, Creating
<1>4. masterVersion = Len(masterLog) /\ i \in Indices /\ masterVersion \in Nat
  BY <1>1, LockFacts, ValFacts, LogFacts DEF Finding
<1>5. /\ masterLog' \in Seq(Indices) /\ Len(masterLog') = n
      /\ DOMAIN masterLog = 1..masterVersion /\ DOMAIN masterLog' = 1..n
      /\ masterLog'[n] = i /\ \A b \in 1..masterVersion : masterLog'[b] = masterLog[b]
  <2>1. masterLog \in Seq(Indices)
    BY <1>2 DEF OTypeOK
  <2> HIDE DEF i
  <2> QED BY <1>1, <1>4, <2>1
<1>6. /\ \A b \in 1..n : b = n \/ b \in 1..masterVersion
      /\ \A b \in 1..masterVersion : b \in 1..n
      /\ n \in 1..n
  BY <1>4
<1>7. IndexOfVal(t)' = i
  BY <1>1 DEF IndexOfVal, callVars
<1> HIDE DEF i, n
<1>8. OTypeOK'
  BY <1>1, <1>2, <1>5 DEF OTypeOK, Labels, scanVars, callVars, answerVars
<1>9. \A u \in Threads \ {t} : SameAs(u) /\ LockRespected(u)
  BY <1>1, <1>2, <1>3 DEF OTypeOK, SameAs, LockRespected, scanVars, callVars, answerVars
<1>10. LogGrows
  BY <1>1, <1>4, <1>5, <1>6 DEF LogGrows
<1>11. LogInv'
  <2>1. \A b, c \in 1..n : masterLog'[b] = masterLog'[c] => b = c
    BY <1>3, <1>5, <1>6 DEF ObimInv, LogInv
  <2> QED BY <1>2, <1>5, <2>1 DEF LogInv
<1>12. Creating(t) /\ Creating(t)' /\ Prefix(t)' = Prefix(t) /\ Prefix(t) = masterVersion
  BY <1>1, <1>2, PrefixFacts DEF Creating, Prefix
<1>13. CallInv(t)'
  BY <1>1, <1>2, <1>7 DEF ThreadInv, CallInv, Finding, i, callVars, answerVars
<1>14. MakerInv(t)'
  BY <1>1, <1>2, <1>3, <1>5, <1>7, <1>12 DEF MakerInv, n
<1>15. MapInv(t)'
  <2>1. MapInv(t) /\ local' = local
    BY <1>1, <1>2 DEF ThreadInv
  <2>2. \A b \in 1..Prefix(t) : At(local[t], masterLog'[b]) = b
    BY <1>5, <1>12, <2>1 DEF MapInv
  <2>3. \A j \in DOMAIN local[t] : j = i \/ \E b \in 1..Prefix(t) : masterLog'[b] = j
    BY <1>1, <1>5, <1>12, <2>1 DEF MapInv, i
  <2> QED BY <1>7, <1>12, <2>1, <2>2, <2>3 DEF MapInv
<1>16. CurInv(t)' /\ OwnInv(t)'
  BY <1>1, <1>2, <1>4, <1>10, <1>12, StillKnown, StillOwned DEF scanVars
<1>17. ThreadInv(t)'
  BY <1>13, <1>14, <1>15, <1>16 DEF ThreadInv
<1> QED BY <1>1, <1>8, <1>9, <1>10, <1>11, <1>17, QuietSound DEF callVars, answerVars

LEMMA PublishSound == ASSUME ObimInv, NEW t \in Threads, Publish(t) PROVE Sound
PROOF
<1> DEFINE i == IndexOfVal(t)
           n == masterVersion + 1
<1>1. /\ pc[t] = "publish" /\ masterVersion' = n /\ pc' = [pc EXCEPT ![t] = "unlock"]
      /\ UNCHANGED <<class, masterLog, masterLock, local, lastMasterVersion, scanVars,
                     contents, callVars, answerVars, pushed>>
  BY DEF Publish, Goto
<1>2. OTypeOK /\ ThreadInv(t) /\ pc'[t] = "unlock"
  BY <1>1 DEF ObimInv, OTypeOK
<1>3. /\ masterLock = t /\ lastMasterVersion[t] = n /\ Len(masterLog) = n
      /\ masterLog[n] = i /\ local[t][i] = n
  BY <1>1, <1>2 DEF ThreadInv, MakerInv, Creating
<1>4. masterVersion \in Nat /\ i \in DOMAIN local[t]
  BY <1>1, ValFacts, LogFacts DEF Finding
<1>5. /\ \A b \in 1..n : b = n \/ b \in 1..masterVersion
      /\ \A b \in 1..masterVersion : b \in 1..n
      /\ n \in 1..n /\ n \in Nat /\ masterVersion <= n
  BY <1>4
<1>6. IndexOfVal(t)' = i
  BY <1>1 DEF IndexOfVal, callVars
<1>7. /\ Creating(t) /\ ~Creating(t)' /\ Prefix(t) = masterVersion /\ Prefix(t)' = n
      /\ lastMasterVersion' = lastMasterVersion /\ local' = local /\ masterLog' = masterLog
  BY <1>1, <1>2, <1>3, PrefixFacts DEF Creating, Prefix
<1> HIDE DEF i, n
<1>8. OTypeOK'
  BY <1>1, <1>2, <1>5 DEF OTypeOK, Labels, scanVars, callVars, answerVars
<1>9. \A u \in Threads \ {t} : SameAs(u) /\ LockRespected(u)
  BY <1>1, <1>2, <1>3 DEF OTypeOK, SameAs, LockRespected, scanVars, callVars, answerVars
<1>10. LogGrows
  BY <1>1, <1>5 DEF LogGrows
<1>11. LogInv'
  BY <1>1, <1>3 DEF ObimInv, LogInv
<1>12. CallInv(t)'
  BY <1>1, <1>2, <1>6 DEF ThreadInv, CallInv, Finding, i, callVars, answerVars
<1>13. MakerInv(t)'
  BY <1>1, <1>2, <1>3, <1>5, <1>7 DEF MakerInv
<1>14. MapInv(t)'
  <2>1. MapInv(t)
    BY <1>2 DEF ThreadInv
  <2>2. \A b \in 1..n : At(local[t], masterLog[b]) = b
    BY <1>3, <1>4, <1>5, <1>7, <2>1 DEF MapInv, At
  <2>3. \A j \in DOMAIN local[t] : \E b \in 1..n : masterLog[b] = j
    BY <1>1, <1>3, <1>5, <1>7, <2>1 DEF MapInv, i
  <2> QED BY <1>7, <2>2, <2>3 DEF MapInv
<1>15. CurInv(t)' /\ OwnInv(t)'
  BY <1>1, <1>2, <1>5, <1>7, <1>10, StillKnown, StillOwned DEF scanVars
<1>16. ThreadInv(t)'
  BY <1>12, <1>13, <1>14, <1>15 DEF ThreadInv
<1> QED BY <1>1, <1>8, <1>9, <1>10, <1>11, <1>16, QuietSound DEF callVars, answerVars

LEMMA UnlockSound == ASSUME ObimInv, NEW t \in Threads, Unlock(t) PROVE Sound
PROOF
<1>1. /\ pc[t] = "unlock" /\ pc' = [pc EXCEPT ![t] = "put"]
      /\ UNCHANGED <<class, masterLog, masterVersion, local, lastMasterVersion, scanVars,
                     contents, callVars, answerVars, pushed>>
  BY DEF Unlock, Goto
<1>2. OTypeOK /\ ThreadInv(t) /\ pc'[t] = "put"
  BY <1>1 DEF ObimInv, OTypeOK
<1>3. masterLock = t
  BY <1>1, <1>2 DEF ThreadInv, MakerInv
<1>4. OTypeOK'
  BY <1>1, <1>2 DEF OTypeOK, Labels, scanVars, callVars, answerVars
<1>5. \A u \in Threads \ {t} : SameAs(u) /\ LockRespected(u)
  BY <1>1, <1>2, <1>3 DEF OTypeOK, SameAs, LockRespected, scanVars, callVars, answerVars
<1>6. LogInv' /\ LogGrows
  BY <1>1, <1>2, LogKept DEF OTypeOK
<1>7. /\ ~Creating(t) /\ ~Creating(t)' /\ Prefix(t)' = Prefix(t) /\ Prefix(t) \in Nat
      /\ masterLog' = masterLog /\ local' = local /\ IndexOfVal(t)' = IndexOfVal(t)
  BY <1>1, <1>2, PrefixFacts DEF Creating, Prefix, IndexOfVal, callVars
<1>8. CallInv(t)'
  BY <1>1, <1>2, <1>7 DEF ThreadInv, CallInv, Finding, callVars, answerVars
<1>9. MakerInv(t)'
  BY <1>1, <1>2, <1>7 DEF ThreadInv, MakerInv
<1>10. MapInv(t)'
  BY <1>1, <1>2, <1>7 DEF ThreadInv, MapInv
<1>11. CurInv(t)' /\ OwnInv(t)'
  BY <1>1, <1>2, <1>6, <1>7, StillKnown, StillOwned DEF scanVars
<1>12. ThreadInv(t)'
  BY <1>8, <1>9, <1>10, <1>11 DEF ThreadInv
<1> QED BY <1>1, <1>4, <1>5, <1>6, <1>12, QuietSound DEF callVars, answerVars

\* A pop that returns an element, of the bin of the last pop or of the one
\* the scan is at.
LEMMA TakeSound ==
    ASSUME ObimInv, NEW t \in Threads, pc[t] \in {"idle", "scan"}, answer[t] = "none",
           NEW b \in 1..Prefix(t), NEW x \in Tasks, PopFrom(t, b, x),
           UNCHANGED <<masterVars, local, lastMasterVersion, todo, val, unread, pushed>>,
           curIndex' \in [Threads -> Nat], scanStart' \in [Threads -> Nat],
           current' \in [Threads -> Nat], msS' \in [Threads -> Nat],
           \A u \in Threads \ {t} : /\ curIndex'[u] = curIndex[u] /\ scanStart'[u] = scanStart[u]
                                    /\ current'[u] = current[u] /\ msS'[u] = msS[u],
           CurInv(t)',
           class.bsp => /\ scanStart'[t] <= masterLog[b]
                        /\ \A c \in Bins : contents[c][t] # {} => scanStart'[t] <= masterLog[c]
    PROVE  Sound
PROOF
<1>1. OTypeOK /\ ThreadInv(t) /\ todo[t] = {}
  BY DEF ObimInv, ThreadInv, CallInv
<1>2. b \in Bins /\ Prefix(t) \in Nat
  BY PrefixFacts
<1>3. /\ pc' = [pc EXCEPT ![t] = "idle"]
      /\ answer' = [answer EXCEPT ![t] = "element"] /\ hand' = [hand EXCEPT ![t] = {x}]
      /\ masterLog' = masterLog /\ masterVersion' = masterVersion /\ masterLock' = masterLock
      /\ class' = class
  BY DEF PopFrom, Goto, masterVars
<1>4. /\ Apart' /\ BinsInv' /\ Abstract!Next
      /\ contents' \in [Bins -> [Threads -> SUBSET Tasks]]
      /\ \A c \in Bins : \A u \in Threads \ {t} : contents'[c][u] \subseteq contents[c][u]
      /\ \A c \in Bins : c # b => contents'[c][t] = contents[c][t]
  BY <1>2, <1>3, TakeMoves
<1>5. OTypeOK'
  BY <1>1, <1>3, <1>4 DEF OTypeOK, Labels, masterVars
<1>6. /\ pc'[t] = "idle"
      /\ \A u \in Threads \ {t} : SameAs(u) /\ LockRespected(u)
  BY <1>1, <1>3 DEF OTypeOK, SameAs, LockRespected
<1>7. LogInv' /\ LogGrows /\ masterVersion' \in Nat
  BY <1>1, <1>3, LogKept DEF OTypeOK
<1>8. \A u \in Threads \ {t} : ThreadInv(u)'
  BY <1>3, <1>4, <1>6, <1>7, OthersKeep
<1>9. /\ ~Creating(t) /\ ~Creating(t)' /\ Prefix(t)' = Prefix(t) /\ local' = local
      /\ lastMasterVersion' = lastMasterVersion
  BY <1>6 DEF Creating, Prefix
<1>10. CallInv(t)'
  BY <1>1, <1>6 DEF CallInv, Finding
<1>11. MakerInv(t)'
  BY <1>1, <1>3, <1>6, <1>9 DEF ThreadInv, MakerInv
<1>12. MapInv(t)'
  BY <1>1, <1>3, <1>9 DEF ThreadInv, MapInv
<1>13. OwnInv(t)'
  <2> SUFFICES ASSUME NEW c \in Bins, contents'[c][t] # {}
               PROVE  c \in 1..Prefix(t) /\ (class.bsp => scanStart'[t] <= masterLog[c])
    BY <1>3, <1>6, <1>9 DEF OwnInv
  <2>1. CASE c = b
    BY <2>1
  <2>2. CASE c # b
    <3>1. contents[c][t] # {}
      BY <1>4, <2>2
    <3> QED BY <1>1, <3>1 DEF ThreadInv, OwnInv
  <2> QED BY <2>1, <2>2
<1>14. ThreadInv(t)'
  BY <1>10, <1>11, <1>12, <1>13 DEF ThreadInv
<1> QED BY <1>4, <1>5, <1>7, <1>8, <1>14 DEF Sound, ObimInv

LEMMA PopFastSound == ASSUME ObimInv, NEW t \in Threads, PopFast(t) PROVE Sound
PROOF
<1>1. /\ pc[t] = "idle" /\ answer[t] = "none" /\ current[t] # 0
      /\ UNCHANGED <<masterVars, local, lastMasterVersion, scanVars, callVars, pushed>>
  BY DEF PopFast
<1>2. PICK x \in Tasks : PopFrom(t, current[t], x)
  BY DEF PopFast
<1>3. OTypeOK /\ CurInv(t) /\ OwnInv(t)
  BY DEF ObimInv, ThreadInv
<1>4. /\ current[t] \in 1..Prefix(t) /\ masterLog[current[t]] = curIndex[t]
      /\ class.bsp => scanStart[t] <= curIndex[t]
  BY <1>1, <1>3 DEF CurInv
<1>5. CurInv(t)'
  <2>1. Prefix(t)' = Prefix(t)
    BY <1>1, <1>2, <1>3 DEF Prefix, Creating, PopFrom, Goto, OTypeOK
  <2> QED BY <1>1, <1>3, <2>1 DEF CurInv, scanVars, masterVars
<1>6. /\ curIndex' \in [Threads -> Nat] /\ scanStart' \in [Threads -> Nat]
      /\ current' \in [Threads -> Nat] /\ msS' \in [Threads -> Nat]
      /\ \A u \in Threads \ {t} : /\ curIndex'[u] = curIndex[u] /\ scanStart'[u] = scanStart[u]
                                  /\ current'[u] = current[u] /\ msS'[u] = msS[u]
      /\ scanStart'[t] = scanStart[t]
      /\ UNCHANGED <<masterVars, local, lastMasterVersion, todo, val, unread, pushed>>
  BY <1>1, <1>3 DEF OTypeOK, scanVars, callVars
<1>7. class.bsp => /\ scanStart'[t] <= masterLog[current[t]]
                   /\ \A c \in Bins : contents[c][t] # {} => scanStart'[t] <= masterLog[c]
  BY <1>3, <1>4, <1>6 DEF OwnInv
<1> QED BY <1>1, <1>2, <1>4, <1>5, <1>6, <1>7, TakeSound

\* A scan has nothing of its own before the place it is at.
LEMMA OwnToScan ==
    ASSUME ObimInv, NEW t \in Threads, pc[t] = "scan"
    PROVE  \A c \in Bins : contents[c][t] # {} =>
               /\ masterLog[c] \in ToScan(t) /\ local[t][masterLog[c]] = c
PROOF
<1> SUFFICES ASSUME NEW c \in Bins, contents[c][t] # {}
             PROVE  masterLog[c] \in ToScan(t) /\ local[t][masterLog[c]] = c
  OBVIOUS
<1>1. c \in 1..Prefix(t) /\ msS[t] <= masterLog[c] /\ MapInv(t)
  BY DEF ObimInv, ThreadInv, OwnInv
<1>2. At(local[t], masterLog[c]) = c /\ c # 0
  BY <1>1, PrefixFacts DEF MapInv
<1>3. masterLog[c] \in Nat /\ msS[t] \in Nat
  BY <1>1, PrefixFacts, LogFacts DEF ObimInv, OTypeOK
<1> QED BY <1>1, <1>2, <1>3 DEF At, ToScan

LEMMA ScanFoundSound == ASSUME ObimInv, NEW t \in Threads, ScanFound(t) PROVE Sound
PROOF
<1> DEFINE i == First(t)
           b == local[t][i]
<1>1. /\ pc[t] = "scan" /\ ToScan(t) # {}
      /\ current' = [current EXCEPT ![t] = b] /\ curIndex' = [curIndex EXCEPT ![t] = i]
      /\ scanStart' = [scanStart EXCEPT ![t] = i] /\ msS' = [msS EXCEPT ![t] = 0]
      /\ UNCHANGED <<masterVars, local, lastMasterVersion, todo, val, unread, pushed>>
  BY DEF ScanFound
<1>2. PICK x \in Tasks : PopFrom(t, b, x)
  BY DEF ScanFound
<1>3. OTypeOK /\ answer[t] = "none"
  BY <1>1 DEF ObimInv, ThreadInv, CallInv
<1>4. i \in DOMAIN local[t] /\ i \in Nat /\ \A j \in ToScan(t) : i <= j
  BY <1>1, <1>3, FirstFacts
<1>5. b \in 1..Prefix(t) /\ masterLog[b] = i /\ b \in Nat
  BY <1>1, <1>4, Known
<1> HIDE DEF i, b
<1>6. /\ curIndex' \in [Threads -> Nat] /\ scanStart' \in [Threads -> Nat]
      /\ current' \in [Threads -> Nat] /\ msS' \in [Threads -> Nat]
      /\ \A u \in Threads \ {t} : /\ curIndex'[u] = curIndex[u] /\ scanStart'[u] = scanStart[u]
                                  /\ current'[u] = current[u] /\ msS'[u] = msS[u]
      /\ scanStart'[t] = i /\ curIndex'[t] = i /\ current'[t] = b
  BY <1>1, <1>3, <1>4, <1>5 DEF OTypeOK
<1>7. CurInv(t)'
  <2>1. Prefix(t)' = Prefix(t) /\ masterLog' = masterLog
    BY <1>1, <1>2, <1>3 DEF Prefix, Creating, PopFrom, Goto, OTypeOK, masterVars
  <2> QED BY <1>4, <1>5, <1>6, <2>1 DEF CurInv
<1>8. /\ scanStart'[t] <= masterLog[b]
      /\ \A c \in Bins : contents[c][t] # {} => scanStart'[t] <= masterLog[c]
  BY <1>1, <1>4, <1>5, <1>6, OwnToScan
<1> QED BY <1>1, <1>2, <1>3, <1>5, <1>6, <1>7, <1>8, TakeSound

\* Steps of a pop that only look.
LEMMA LookSound ==
    ASSUME ObimInv, NEW t \in Threads, pc[t] \in {"idle", "updatePop", "scan"},
           answer[t] = "none", NEW l \in {"updatePop", "scan"}, pc' = [pc EXCEPT ![t] = l],
           UNCHANGED <<masterVars, local, lastMasterVersion, scanVars, contents, todo, val,
                       answerVars, pushed>>,
           msS' \in [Threads -> Nat], unread' \in [Threads -> SUBSET Threads],
           \A u \in Threads \ {t} : msS'[u] = msS[u],
           l = "scan" => \A c \in Bins : contents[c][t] # {} => msS'[t] <= masterLog[c]
    PROVE  Sound
PROOF
<1>1. OTypeOK /\ ThreadInv(t) /\ pc'[t] = l
  BY DEF ObimInv, OTypeOK
<1>2. OTypeOK'
  BY <1>1 DEF OTypeOK, Labels, masterVars, scanVars, answerVars
<1>3. \A u \in Threads \ {t} : SameAs(u) /\ LockRespected(u)
  BY <1>1 DEF OTypeOK, SameAs, LockRespected, masterVars, scanVars, answerVars
<1>4. LogInv' /\ LogGrows
  BY <1>1, LogKept DEF OTypeOK, masterVars
<1>5. /\ ~Creating(t) /\ ~Creating(t)' /\ Prefix(t)' = Prefix(t) /\ Prefix(t) \in Nat
      /\ masterLog' = masterLog /\ local' = local
  BY <1>1, PrefixFacts DEF Creating, Prefix, masterVars
<1>6. CallInv(t)'
  BY <1>1 DEF ThreadInv, CallInv, Finding, answerVars
<1>7. MakerInv(t)'
  BY <1>1, <1>5 DEF ThreadInv, MakerInv, masterVars
<1>8. MapInv(t)'
  BY <1>1, <1>5 DEF ThreadInv, MapInv
<1>9. CurInv(t)'
  BY <1>4, <1>5, StillKnown DEF masterVars, scanVars
<1>10. OwnInv(t)'
  <2>1. /\ contents' = contents /\ scanStart' = scanStart /\ class' = class
    BY DEF masterVars, scanVars
  <2> QED BY <1>1, <1>5, <2>1 DEF ThreadInv, OwnInv
<1>11. ThreadInv(t)'
  BY <1>6, <1>7, <1>8, <1>9, <1>10 DEF ThreadInv
<1> QED BY <1>2, <1>3, <1>4, <1>11, QuietSound DEF masterVars, answerVars

LEMMA PopSlowSound == ASSUME ObimInv, NEW t \in Threads, PopSlow(t) PROVE Sound
PROOF
<1>1. /\ pc[t] = "idle" /\ answer[t] = "none" /\ pc' = [pc EXCEPT ![t] = "updatePop"]
      /\ UNCHANGED <<masterVars, local, lastMasterVersion, scanVars, contents, callVars,
                     answerVars, pushed>>
  BY DEF PopSlow, Goto
<1>2. /\ msS' \in [Threads -> Nat] /\ unread' \in [Threads -> SUBSET Threads] /\ msS' = msS
      /\ todo' = todo /\ val' = val
  BY <1>1 DEF ObimInv, OTypeOK, callVars
<1> QED BY <1>1, <1>2, LookSound

LEMMA StartScanSound == ASSUME ObimInv, NEW t \in Threads, StartScan(t) PROVE Sound
PROOF
<1>1. /\ pc[t] = "updatePop" /\ pc' = [pc EXCEPT ![t] = "scan"]
      /\ msS' = [msS EXCEPT ![t] = IF class.bsp THEN scanStart[t] ELSE 0]
      /\ UNCHANGED <<masterVars, local, lastMasterVersion, scanVars, contents, todo, val,
                     answerVars, pushed>>
  BY DEF StartScan, Goto
<1>2. OTypeOK /\ OwnInv(t) /\ answer[t] = "none"
  BY <1>1 DEF ObimInv, ThreadInv, CallInv
<1>3. unread' \in [Threads -> SUBSET Threads]
  <2>1. LeaderOf[t] \in Threads
    BY ObimAssumption
  <2> QED BY <1>2, <2>1 DEF StartScan, OTypeOK
<1>4. /\ msS' \in [Threads -> Nat] /\ \A u \in Threads \ {t} : msS'[u] = msS[u]
      /\ msS'[t] = IF class.bsp THEN scanStart[t] ELSE 0
  BY <1>1, <1>2 DEF OTypeOK
<1>5. ASSUME NEW c \in Bins, contents[c][t] # {} PROVE msS'[t] <= masterLog[c]
  <2>1. c \in 1..Prefix(t) /\ (class.bsp => scanStart[t] <= masterLog[c])
    BY <1>2, <1>5 DEF OwnInv
  <2>2. masterLog[c] \in Nat
    BY <2>1, PrefixFacts, LogFacts
  <2> QED BY <1>4, <2>1, <2>2
<1> QED BY <1>1, <1>2, <1>3, <1>4, <1>5, LookSound

LEMMA ReadScanStartSound == ASSUME ObimInv, NEW t \in Threads, ReadScanStart(t) PROVE Sound
PROOF
<1>1. PICK u \in unread[t] : /\ msS' = [msS EXCEPT ![t] = Min2(@, scanStart[u])]
                             /\ unread' = [unread EXCEPT ![t] = @ \ {u}]
  BY DEF ReadScanStart
<1>2. /\ pc[t] = "scan"
      /\ UNCHANGED <<masterVars, local, lastMasterVersion, scanVars, contents, pc, todo,
                     val, answerVars, pushed>>
  BY DEF ReadScanStart
<1>3. OTypeOK /\ OwnInv(t) /\ answer[t] = "none" /\ pc' = [pc EXCEPT ![t] = "scan"]
  BY <1>2 DEF ObimInv, ThreadInv, CallInv, OTypeOK
<1>4. u \in Threads /\ scanStart[u] \in Nat /\ msS[t] \in Nat
  BY <1>3 DEF OTypeOK
<1>5. /\ Min2(msS[t], scanStart[u]) \in Nat /\ Min2(msS[t], scanStart[u]) <= msS[t]
  BY <1>4 DEF Min2
<1>6. /\ msS' \in [Threads -> Nat] /\ \A w \in Threads \ {t} : msS'[w] = msS[w]
      /\ msS'[t] <= msS[t] /\ msS'[t] \in Nat
      /\ unread' \in [Threads -> SUBSET Threads]
  BY <1>1, <1>3, <1>5 DEF OTypeOK
<1>7. ASSUME NEW c \in Bins, contents[c][t] # {} PROVE msS'[t] <= masterLog[c]
  <2>1. c \in 1..Prefix(t) /\ msS[t] <= masterLog[c]
    BY <1>2, <1>3, <1>7 DEF OwnInv
  <2>2. masterLog[c] \in Nat
    BY <2>1, PrefixFacts, LogFacts
  <2> QED BY <1>4, <1>6, <2>1, <2>2
<1> QED BY <1>2, <1>3, <1>6, <1>7, LookSound

LEMMA ScanNextSound == ASSUME ObimInv, NEW t \in Threads, ScanNext(t) PROVE Sound
PROOF
<1>1. /\ pc[t] = "scan" /\ ToScan(t) # {} /\ contents[local[t][First(t)]][t] = {}
      /\ msS' = [msS EXCEPT ![t] = First(t) + 1]
      /\ UNCHANGED <<masterVars, local, lastMasterVersion, scanVars, contents, pc, todo, val,
                     unread, answerVars, pushed>>
  BY DEF ScanNext
<1>2. OTypeOK /\ answer[t] = "none" /\ pc' = [pc EXCEPT ![t] = "scan"]
  BY <1>1 DEF ObimInv, ThreadInv, CallInv, OTypeOK
<1>3. First(t) \in Nat /\ \A j \in ToScan(t) : First(t) <= j
  BY <1>1, <1>2, FirstFacts
<1>4. /\ msS' \in [Threads -> Nat] /\ msS'[t] = First(t) + 1
      /\ unread' \in [Threads -> SUBSET Threads] /\ \A u \in Threads \ {t} : msS'[u] = msS[u]
  BY <1>1, <1>2, <1>3 DEF OTypeOK
<1>5. ASSUME NEW c \in Bins, contents[c][t] # {} PROVE msS'[t] <= masterLog[c]
  <2>1. masterLog[c] \in ToScan(t) /\ local[t][masterLog[c]] = c
    BY <1>1, <1>5, OwnToScan
  <2>2. First(t) <= masterLog[c] /\ First(t) # masterLog[c]
    BY <1>1, <1>3, <1>5, <2>1
  <2>3. masterLog[c] \in Nat
    BY <1>5, PrefixFacts, LogFacts DEF ObimInv, ThreadInv, OwnInv
  <2> QED BY <1>3, <1>4, <2>2, <2>3
<1> QED BY <1>1, <1>2, <1>4, <1>5, LookSound

\* Steps between calls.
LEMMA ReturnsKeep ==
    ASSUME ObimInv, NEW t \in Threads, pc[t] \in {"idle", "scan"}, pc' = [pc EXCEPT ![t] = "idle"],
           UNCHANGED <<masterVars, local, lastMasterVersion, scanVars, contents, todo, val,
                       unread, pushed>>,
           msS' \in [Threads -> Nat], \A u \in Threads \ {t} : msS'[u] = msS[u],
           answer' \in [Threads -> {"none", "element", "nothing"}],
           \A u \in Threads \ {t} : answer'[u] = answer[u],
           hand' \in [Threads -> SUBSET Tasks]
    PROVE  ObimInv' /\ \A u \in Threads : Owned(u)' = Owned(u)
PROOF
<1>1. OTypeOK /\ ThreadInv(t) /\ pc'[t] = "idle"
  BY DEF ObimInv, OTypeOK
<1>2. OTypeOK'
  BY <1>1 DEF OTypeOK, Labels, masterVars, scanVars
<1>3. \A u \in Threads \ {t} : SameAs(u) /\ LockRespected(u)
  BY <1>1 DEF OTypeOK, SameAs, LockRespected, masterVars, scanVars
<1>4. LogInv' /\ LogGrows
  BY <1>1, LogKept DEF OTypeOK, masterVars
<1>5. /\ ~Creating(t) /\ ~Creating(t)' /\ Prefix(t)' = Prefix(t) /\ Prefix(t) \in Nat
      /\ masterLog' = masterLog /\ local' = local
  BY <1>1, PrefixFacts DEF Creating, Prefix, masterVars
<1>6. CallInv(t)'
  BY <1>1 DEF ThreadInv, CallInv, Finding
<1>7. MakerInv(t)'
  BY <1>1, <1>5 DEF ThreadInv, MakerInv, masterVars
<1>8. MapInv(t)'
  BY <1>1, <1>5 DEF ThreadInv, MapInv
<1>9. CurInv(t)' /\ OwnInv(t)'
  BY <1>1, <1>4, <1>5, StillKnown, StillOwned DEF masterVars, scanVars
<1>10. ThreadInv(t)'
  BY <1>6, <1>7, <1>8, <1>9 DEF ThreadInv
<1> QED BY <1>2, <1>3, <1>4, <1>10, QuietKeeps DEF masterVars

LEMMA ScanEndsSound == ASSUME ObimInv, NEW t \in Threads, ScanEnds(t) PROVE Sound
PROOF
<1>1. /\ pc[t] = "scan" /\ ToScan(t) = {} /\ pc' = [pc EXCEPT ![t] = "idle"]
      /\ answer' = [answer EXCEPT ![t] = "nothing"] /\ msS' = [msS EXCEPT ![t] = 0]
      /\ UNCHANGED <<masterVars, local, lastMasterVersion, scanVars, contents, todo, val,
                     unread, hand, delivered, pushed>>
  BY DEF ScanEnds, Goto
<1>2. OTypeOK /\ answer[t] = "none" /\ todo[t] = {}
  BY <1>1 DEF ObimInv, ThreadInv, CallInv
<1>3. /\ msS' \in [Threads -> Nat] /\ \A u \in Threads \ {t} : msS'[u] = msS[u]
      /\ answer' \in [Threads -> {"none", "element", "nothing"}]
      /\ \A u \in Threads \ {t} : answer'[u] = answer[u]
      /\ hand' \in [Threads -> SUBSET Tasks]
  BY <1>1, <1>2 DEF OTypeOK
<1>4. ObimInv' /\ \A u \in Threads : Owned(u)' = Owned(u)
  BY <1>1, <1>3, ReturnsKeep
<1>5. Owned(t) = {}
  <2>1. \A c \in Bins : contents[c][t] = {}
    BY <1>1, OwnToScan
  <2> QED BY <1>2, <2>1 DEF Owned
<1>6. Abstract!Next
  BY <1>1, <1>2, <1>4, <1>5, RefinedPopNothing
<1> QED BY <1>4, <1>6 DEF Sound

LEMMA ReturnSound == ASSUME ObimInv, NEW t \in Threads, Return(t) PROVE Sound
PROOF
<1>1. /\ answer[t] # "none" /\ answer' = [answer EXCEPT ![t] = "none"]
      /\ hand' = [hand EXCEPT ![t] = {}]
      /\ UNCHANGED <<masterVars, local, lastMasterVersion, scanVars, contents, pc, callVars, pushed>>
  BY DEF Return
<1>2. OTypeOK /\ pc[t] = "idle"
  BY <1>1 DEF ObimInv, ThreadInv, CallInv
<1>3. /\ pc' = [pc EXCEPT ![t] = "idle"]
      /\ msS' \in [Threads -> Nat] /\ \A u \in Threads \ {t} : msS'[u] = msS[u]
      /\ answer' \in [Threads -> {"none", "element", "nothing"}]
      /\ \A u \in Threads \ {t} : answer'[u] = answer[u]
      /\ hand' \in [Threads -> SUBSET Tasks]
      /\ todo' = todo /\ val' = val /\ unread' = unread
  BY <1>1, <1>2 DEF OTypeOK, callVars
<1>4. ObimInv' /\ \A u \in Threads : Owned(u)' = Owned(u)
  BY <1>1, <1>2, <1>3, ReturnsKeep
<1>5. Abstract!Next
  BY <1>4, RefinedReturn
<1> QED BY <1>4, <1>5 DEF Sound

LEMMA StutterSound == ASSUME ObimInv, UNCHANGED vars PROVE Sound
PROOF
<1>1. OTypeOK' /\ LogInv' /\ LogGrows /\ masterVersion' \in Nat
  BY LogFacts
     DEF vars, masterVars, scanVars, callVars, answerVars, ObimInv, OTypeOK, LogInv, LogGrows
<1>2. /\ contents' = contents /\ todo' = todo /\ pushed' = pushed /\ answer' = answer
      /\ hand' = hand /\ delivered' = delivered /\ class' = class
      /\ \A u \in Threads : SameAs(u) /\ LockRespected(u)
  BY DEF vars, masterVars, scanVars, callVars, answerVars, SameAs, LockRespected
<1>3. Apart' /\ BinsInv' /\ \A u \in Threads : Owned(u)' = Owned(u)
  BY <1>1, <1>2, NothingMoves
<1>4. \A u \in Threads : ThreadInv(u)'
  BY <1>1, <1>2, OthersKeep
<1>5. UNCHANGED Abstract!vars
  BY <1>2, <1>3, RefinedStutter
<1> QED BY <1>1, <1>3, <1>4, <1>5 DEF Sound, ObimInv

LEMMA StepSound == ASSUME ObimInv, [Next]_vars PROVE Sound
PROOF
<1>1. CASE UNCHANGED vars
  BY <1>1, StutterSound
<1>2. CASE Next
  <2>1. PICK t \in Threads : PushBegin(t) \/ Push(t) \/ Pop(t)
    BY <1>2 DEF Next
  <2>2. CASE PushBegin(t)
    BY <2>2, PushBeginSound
  <2>3. CASE Push(t)
    BY <2>3, ReplaySound, PushFastSound, PushSlowSound, FindBinSound, TryLockSound, CreateSound,
       AppendEntrySound, PublishSound, UnlockSound, PutInBinSound DEF Push
  <2>4. CASE Pop(t)
    BY <2>4, PopFastSound, PopSlowSound, StartScanSound, ReadScanStartSound, ScanFoundSound,
       ScanNextSound, ScanEndsSound, ReturnSound DEF Pop
  <2> QED BY <2>1, <2>2, <2>3, <2>4
<1> QED BY <1>1, <1>2

-----------------------------------------------------------------------------
(* The initial states.                                                     *)

LEMMA InitSound == ASSUME Init PROVE ObimInv /\ Abstract!Init
PROOF
<1>1. /\ masterLog = <<>> /\ Len(masterLog) = 0 /\ DOMAIN masterLog = {} /\ masterVersion = 0
      /\ masterLog \in Seq(Indices)
  BY DEF Init
<1>2. EmptyMap \in Maps /\ DOMAIN EmptyMap = {}
  <2>1. EmptyMap \in [{} -> Nat] /\ {} \in SUBSET Indices
    BY DEF EmptyMap
  <2> QED BY <2>1 DEF Maps
<1>3. OTypeOK
  BY <1>1, <1>2 DEF Init, OTypeOK, Labels
<1>4. \A b \in Places : \A t \in Threads : Holds(b, t) = {}
  BY DEF Init, Places, Holds
<1>5. Apart /\ BinsInv
  BY <1>4 DEF Apart, BinsInv, Init
<1>6. LogInv
  BY <1>1 DEF LogInv
<1>7. ASSUME NEW t \in Threads PROVE ThreadInv(t)
  <2>1. ~Creating(t) /\ Prefix(t) = 0 /\ pc[t] = "idle" /\ local[t] = EmptyMap
    BY DEF Init, Creating, Prefix
  <2>2. CallInv(t) /\ MakerInv(t)
    BY <1>1, <2>1 DEF Init, CallInv, MakerInv, Finding
  <2>3. MapInv(t)
    BY <1>2, <2>1 DEF MapInv
  <2>4. CurInv(t) /\ OwnInv(t)
    BY DEF Init, CurInv, OwnInv
  <2> QED BY <2>2, <2>3, <2>4 DEF ThreadInv
<1>8. ASSUME NEW t \in Threads PROVE Owned(t) = {}
  BY DEF Init, Owned
<1>9. Abstract!Init
  BY <1>8 DEF Abstract!Init, Init
<1> QED BY <1>3, <1>5, <1>6, <1>7, <1>9 DEF ObimInv

(* No index gets two bins, an element is in the bin of its index, and a      *)
(* thread knows every bin it owns an element of and will scan it.            *)
THEOREM ObimInvariant == Spec => []ObimInv
PROOF
<1>1. Init => ObimInv
  BY InitSound
<1>2. ObimInv /\ [Next]_vars => ObimInv'
  BY StepSound DEF Sound
<1> QED BY <1>1, <1>2, PTL DEF Spec

(* The map of a thread is the part of the log it has replayed, although     *)
(* updateLocal reads the log without masterLock.                             *)
THEOREM ObimMaps == Spec => []MapsFollowLog
PROOF
<1>1. ObimInv => MapsFollowLog
  BY DEF ObimInv, ThreadInv, MapInv, MapsFollowLog
<1> QED BY <1>1, ObimInvariant, PTL

(* Obim keeps the promise of OwnedWorkList, whichever bins threads make, and *)
(* from wherever a pop starts its scan: it answers that there is nothing     *)
(* only when its thread has nothing left in any bin.                         *)
THEOREM ObimImplementsWorkList == Spec => ImplementsWorkList
PROOF
<1>1. Init => Abstract!Init
  BY InitSound
<1>2. ObimInv /\ [Next]_vars => [Abstract!Next]_Abstract!vars
  BY StepSound DEF Sound
<1> QED BY <1>1, <1>2, ObimInvariant, PTL DEF Spec, ImplementsWorkList, Abstract!Spec
=============================================================================
