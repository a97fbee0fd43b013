----------------------------- MODULE DoAllProofs ----------------------------
(* Proofs about DoAll for every number of threads and length of the range. *)
EXTENDS DoAll, TLAPS

Holding == {"take", "split", "unlock"}
Stealing == {"steal", "lock"} \cup Holding

-----------------------------------------------------------------------------
(* The inductive invariant.                                                *)

\* The holder of a lock is the thread that steals from its owner.
Locks ==
    /\ \A s, u \in Threads : stealLock[s] = u => pc[u] \in Holding /\ Source(u) = s
    /\ \A t \in Threads : pc[t] \in Holding => stealLock[Source(t)] = t

\* A thread that steals has nothing left to do; what it takes is what is there.
Ranges ==
    /\ \A t \in Threads : stealBegin[t] <= stealEnd[t]
    /\ \A t \in Threads : pc[t] # "split" => begin[t] <= end[t]
    /\ \A t \in Threads : pc[t] = "split" =>
          begin[t] = stealBegin[Source(t)] /\ stealBegin[Source(t)] < stealEnd[Source(t)]
    /\ \A t \in Threads : pc[t] \in {"steal", "lock", "take", "reduce", "done"} =>
          begin[t] = end[t]
    /\ \A t \in Threads : pc[t] = "unlock" /\ begin[t] = end[t] =>
          stealBegin[Source(t)] = stealEnd[Source(t)]

\* Nobody gets past the barrier before everybody has offered its half.
Starting ==
    /\ \A t, u \in Threads : pc[u] = "populate" => pc[t] \in {"populate", "wait"}
    /\ \A t \in Threads : pc[t] = "populate" => stealBegin[t] = stealEnd[t]
    /\ ~UseStealing => \A t \in Threads :
          pc[t] \in {"process", "reduce", "done"} /\ stealBegin[t] = stealEnd[t]

\* Who looks for work elsewhere has left nothing behind that can be stolen from it.
Emptied ==
    \A t \in Threads :
        pc[t] \in {"reduce", "done"} \/ (pc[t] \in Stealing /\ distance[t] # 0) =>
            stealBegin[t] = stealEnd[t]

\* The reduction has the calls of the threads that are done.
Reduced ==
    \A i \in Range :
        outputF[i] = IF \E t \in Threads : pc[t] = "done" /\ i \in F[t] THEN 1 ELSE 0

IInv == TypeOK /\ Locks /\ Ranges /\ Starting /\ Emptied /\ Reduced /\ EachIndexOnce

-----------------------------------------------------------------------------
(* Arithmetic.                                                             *)

LEMMA SplitBounds ==
    ASSUME NEW b \in Nat, NEW e \in Nat, b <= e
    PROVE  /\ SplitRange(b, e) \in Nat
           /\ b <= SplitRange(b, e) /\ SplitRange(b, e) <= e
           /\ b < e => b < SplitRange(b, e)
PROOF BY DEF SplitRange

LEMMA Times ==
    ASSUME NEW k \in Nat, NEW a \in Nat, NEW b \in Nat, a <= b
    PROVE  k * a \in Nat /\ k * b \in Nat /\ k * a <= k * b
PROOF OBVIOUS

LEMMA NumPerType == NumPer \in Nat \ {0}
PROOF BY DoAllAssumption DEF NumPer, Larger

LEMMA NumPerEnough == Dist <= NumPer * N
PROOF BY DoAllAssumption DEF NumPer, Larger

LEMMA BlockOf ==
    ASSUME NEW k \in Nat \ {0}, NEW i \in Nat
    PROVE  i \div k \in Nat /\ k * (i \div k) <= i /\ i < k * (i \div k + 1)
PROOF OBVIOUS

LEMMA Modulo ==
    ASSUME NEW t \in Threads, NEW d \in 0..(N - 1)
    PROVE  (t + d) % N \in Threads /\ (t + 0) % N = t
PROOF BY DoAllAssumption DEF Threads

LEMMA SourceType ==
    ASSUME TypeOK, NEW t \in Threads
    PROVE  Source(t) \in Threads /\ (distance[t] = 0 => Source(t) = t)
PROOF
<1>1. distance[t] \in 0..(N - 1)
  BY DEF TypeOK
<1> QED BY <1>1, Modulo DEF Source

-----------------------------------------------------------------------------
(* Where an index is.                                                      *)

Mine(t, i) == pc[t] # "split" /\ begin[t] <= i /\ i < end[t]
Left(t, i) == stealBegin[t] <= i /\ i < stealEnd[t]
Called(t, i) == i \in F[t]
Has(t, i) == Mine(t, i) \/ Left(t, i) \/ Called(t, i)

Once(i) ==
    /\ \E t \in Threads : Has(t, i)
    /\ \A t, u \in Threads : t # u => ~(Has(t, i) /\ Has(u, i))
    /\ \A t \in Threads : ~(Mine(t, i) /\ Left(t, i)) /\ ~(Mine(t, i) /\ Called(t, i))
                          /\ ~(Left(t, i) /\ Called(t, i))

AllOnce == \A i \in Range : Once(i)

LEMMA OnceMeaning == TypeOK => (EachIndexOnce <=> AllOnce)
PROOF
<1> SUFFICES ASSUME F \in [Threads -> SUBSET Range]
             PROVE  EachIndexOnce <=> AllOnce
  BY DEF TypeOK
<1>1. \A t \in Threads, i \in Range :
        /\ i \in Private(t) <=> Mine(t, i)
        /\ i \in Stealable(t) <=> Left(t, i)
        /\ i \in Holds(t) <=> Has(t, i)
  BY DEF Private, Stealable, Holds, Mine, Left, Called, Has
<1>2. \A t \in Threads : /\ Private(t) \subseteq Range /\ Stealable(t) \subseteq Range
                         /\ F[t] \subseteq Range /\ Holds(t) \subseteq Range
  BY DEF Private, Stealable, Holds
<1>3. UNION {Holds(t) : t \in Threads} = Range
      <=> \A i \in Range : \E t \in Threads : Has(t, i)
  BY <1>1, <1>2
<1>4. (\A t, u \in Threads : t # u => Holds(t) \cap Holds(u) = {})
      <=> \A i \in Range : \A t, u \in Threads : t # u => ~(Has(t, i) /\ Has(u, i))
  BY <1>1, <1>2
<1>5. (\A t \in Threads : /\ Private(t) \cap Stealable(t) = {}
                          /\ (Private(t) \cup Stealable(t)) \cap F[t] = {})
      <=> \A i \in Range : \A t \in Threads :
             /\ ~(Mine(t, i) /\ Left(t, i)) /\ ~(Mine(t, i) /\ Called(t, i))
             /\ ~(Left(t, i) /\ Called(t, i))
  BY <1>1, <1>2 DEF Called
<1> QED BY <1>3, <1>4, <1>5 DEF EachIndexOnce, AllOnce, Once

\* A step that moves no index.
LEMMA NothingMoves ==
    ASSUME TypeOK, TypeOK', EachIndexOnce,
           \A t \in Threads, i \in Range : Mine(t, i)' = Mine(t, i),
           \A t \in Threads, i \in Range : Left(t, i)' = Left(t, i),
           F' = F
    PROVE  EachIndexOnce'
PROOF
<1>1. AllOnce
  BY OnceMeaning
<1>2. \A t \in Threads, i \in Range : Called(t, i)' = Called(t, i) /\ Has(t, i)' = Has(t, i)
  BY DEF Called, Has
<1>3. AllOnce'
  BY <1>1, <1>2 DEF AllOnce, Once
<1> QED BY <1>3, OnceMeaning, PTL

-----------------------------------------------------------------------------
(* The initial states.                                                     *)

LEMMA BlockBounds ==
    ASSUME NEW t \in Threads
    PROVE  /\ BlockBegin(t) \in 0..Dist /\ BlockEnd(t) \in 0..Dist
           /\ BlockBegin(t) <= BlockEnd(t)
PROOF
<1>1. t \in Nat /\ t + 1 \in Nat /\ t <= t + 1
  BY DoAllAssumption DEF Threads
<1>2. NumPer * t \in Nat /\ NumPer * (t + 1) \in Nat /\ NumPer * t <= NumPer * (t + 1)
  BY <1>1, NumPerType, Times
<1> QED BY <1>2, DoAllAssumption DEF BlockBegin, BlockEnd, Smaller

LEMMA BlocksDisjoint ==
    ASSUME NEW t \in Threads, NEW u \in Threads, t < u
    PROVE  BlockEnd(t) <= BlockBegin(u)
PROOF
<1>1. t + 1 \in Nat /\ u \in Nat /\ t + 1 <= u
  BY DoAllAssumption DEF Threads
<1>2. NumPer * u \in Nat /\ NumPer * (t + 1) \in Nat /\ NumPer * (t + 1) <= NumPer * u
  BY <1>1, NumPerType, Times
<1> QED BY <1>2, DoAllAssumption DEF BlockBegin, BlockEnd, Smaller

LEMMA BlocksCover ==
    ASSUME NEW i \in Range
    PROVE  \E t \in Threads : BlockBegin(t) <= i /\ i < BlockEnd(t)
PROOF
<1> DEFINE t == i \div NumPer
<1>1. i \in Nat /\ i < Dist
  BY DoAllAssumption DEF Range
<1>2. t \in Nat /\ NumPer * t <= i /\ i < NumPer * (t + 1)
  BY <1>1, NumPerType, BlockOf
<1> HIDE DEF t
<1>3. t < N
  <2>1. SUFFICES ASSUME N <= t PROVE FALSE
    BY <1>2, DoAllAssumption
  <2>2. NumPer * N <= NumPer * t /\ NumPer * N \in Nat /\ NumPer * t \in Nat
    BY <2>1, <1>2, DoAllAssumption, NumPerType, Times
  <2> QED BY <2>2, <1>1, <1>2, NumPerEnough, DoAllAssumption
<1>4. t \in Threads
  BY <1>2, <1>3, DoAllAssumption DEF Threads
<1>5. NumPer * t \in Nat /\ NumPer * (t + 1) \in Nat
  BY <1>2, NumPerType, Times
<1>6. BlockBegin(t) <= i /\ i < BlockEnd(t)
  BY <1>1, <1>2, <1>5, DoAllAssumption DEF BlockBegin, BlockEnd, Smaller
<1> QED BY <1>4, <1>6

LEMMA InitInvariant == Init => IInv
PROOF
<1> SUFFICES ASSUME Init PROVE IInv
  OBVIOUS
<1>1. TypeOK
  <2>1. begin \in [Threads -> 0..Dist] /\ end \in [Threads -> 0..Dist]
    BY BlockBounds DEF Init
  <2>2. 0 \in 0..Dist /\ Nobody \in 0..N /\ 0 \in 0..(N - 1) /\ 0 \in 0..N
    BY DoAllAssumption DEF Nobody
  <2> QED BY <2>1, <2>2 DEF Init, TypeOK
<1>2. Locks
  BY DoAllAssumption DEF Init, Locks, Threads, Nobody, Holding
<1>3. Ranges
  BY BlockBounds DEF Init, Ranges
<1>4. Starting /\ Emptied /\ Reduced
  BY DoAllAssumption DEF Init, Starting, Emptied, Reduced, Stealing, Holding
<1>5. AllOnce
  <2>1. \A t \in Threads, i \in Range :
          /\ Mine(t, i) <=> BlockBegin(t) <= i /\ i < BlockEnd(t)
          /\ ~Left(t, i) /\ ~Called(t, i)
    BY DoAllAssumption DEF Init, Mine, Left, Called, Range
  <2>2. \A t, u \in Threads, i \in Range : t # u => ~(Mine(t, i) /\ Mine(u, i))
    <3> SUFFICES ASSUME NEW t \in Threads, NEW u \in Threads, NEW i \in Range,
                        t < u, Mine(t, i), Mine(u, i)
                 PROVE  FALSE
      BY DoAllAssumption DEF Threads
    <3>1. BlockEnd(t) <= BlockBegin(u) /\ BlockEnd(t) \in Nat /\ BlockBegin(u) \in Nat
      BY BlocksDisjoint, BlockBounds, DoAllAssumption
    <3> QED BY <2>1, <3>1, DoAllAssumption DEF Range
  <2>3. \A i \in Range : \E t \in Threads : Mine(t, i)
    BY <2>1, BlocksCover
  <2> QED BY <2>1, <2>2, <2>3 DEF AllOnce, Once, Has
<1> QED BY <1>1, <1>2, <1>3, <1>4, <1>5, OnceMeaning DEF IInv

-----------------------------------------------------------------------------
(* What a step leaves alone.                                               *)

Others(t) == Threads \ {t}

LEMMA ReducedKept ==
    ASSUME Reduced, outputF' = outputF,
           \A u \in Threads : pc'[u] = "done" <=> pc[u] = "done",
           \A u \in Threads : pc[u] = "done" => F'[u] = F[u]
    PROVE  Reduced'
PROOF BY DEF Reduced

LEMMA LocksKept ==
    ASSUME Locks, stealLock' = stealLock,
           \A u \in Threads : pc'[u] \in Holding <=> pc[u] \in Holding,
           \A u \in Threads : pc[u] \in Holding => distance'[u] = distance[u]
    PROVE  Locks'
PROOF
<1>1. \A u \in Threads : pc[u] \in Holding => Source(u)' = Source(u)
  BY DEF Source
<1> QED BY <1>1 DEF Locks

\* The other thread that splits the range of s is no other thread.
LEMMA HolderIsAlone ==
    ASSUME TypeOK, Locks, NEW t \in Threads, NEW u \in Threads,
           pc[t] \in Holding, pc[u] \in Holding, Source(t) = Source(u)
    PROVE  t = u
PROOF BY DEF Locks

-----------------------------------------------------------------------------
(* The steps.                                                              *)

LEMMA PopulateStep ==
    ASSUME IInv, NEW t \in Threads, PopulateSteal(t)
    PROVE  IInv'
PROOF
<1> DEFINE middle == SplitRange(begin[t], end[t])
<1>1. /\ TypeOK /\ Locks /\ Ranges /\ Starting /\ Emptied /\ Reduced /\ AllOnce
      /\ pc[t] = "populate"
  BY OnceMeaning DEF IInv, PopulateSteal
<1>2. /\ begin[t] \in 0..Dist /\ end[t] \in 0..Dist /\ begin[t] <= end[t]
      /\ stealBegin[t] = stealEnd[t] /\ stealBegin[t] \in 0..Dist
  BY <1>1 DEF TypeOK, Ranges, Starting
<1>3. middle \in 0..Dist /\ begin[t] <= middle /\ middle <= end[t]
  BY <1>2, SplitBounds, DoAllAssumption
<1>4. /\ pc'[t] = "wait" /\ \A u \in Others(t) : pc'[u] = pc[u]
      /\ \A u \in Threads : pc[u] \in {"populate", "wait"}
      /\ pc' \in [Threads -> {"populate", "wait"}]
  BY <1>1 DEF TypeOK, Starting, PopulateSteal, Goto, Others
<1>5. \A u \in Others(t) :
        end'[u] = end[u] /\ stealBegin'[u] = stealBegin[u] /\ stealEnd'[u] = stealEnd[u]
  BY <1>1 DEF TypeOK, PopulateSteal, Others
<1>6. \/ end'[t] = middle /\ stealBegin'[t] = middle /\ stealEnd'[t] = end[t]
      \/ end'[t] = end[t] /\ stealBegin'[t] = stealBegin[t] /\ stealEnd'[t] = stealEnd[t]
  BY <1>1 DEF TypeOK, PopulateSteal
<1> HIDE DEF middle
<1>7. TypeOK'
  <2>1. end' \in [Threads -> 0..Dist]
    BY <1>1, <1>3 DEF TypeOK, PopulateSteal, middle
  <2>2. stealBegin' \in [Threads -> 0..Dist] /\ stealEnd' \in [Threads -> 0..Dist]
    BY <1>1, <1>2, <1>3 DEF TypeOK, PopulateSteal, middle
  <2>3. pc' \in [Threads -> {"populate", "wait", "process", "steal", "lock", "take", "split",
                             "unlock", "reduce", "done"}]
    BY <1>4
  <2> QED BY <1>1, <2>1, <2>2, <2>3 DEF TypeOK, PopulateSteal
<1>8. Locks'
  BY <1>1, <1>4, LocksKept DEF PopulateSteal, Others, Holding
<1>9. Ranges'
  BY <1>1, <1>2, <1>3, <1>4, <1>5, <1>6 DEF Ranges, PopulateSteal, Others
<1>10. Starting' /\ Emptied'
  BY <1>1, <1>4, <1>5 DEF Starting, Emptied, Stealing, Holding, Others
<1>11. Reduced'
  BY <1>1, <1>4, ReducedKept DEF PopulateSteal, Others
<1>12. AllOnce'
  <2>1. \A u \in Others(t), i \in Range :
          Mine(u, i)' = Mine(u, i) /\ Left(u, i)' = Left(u, i) /\ Called(u, i)' = Called(u, i)
    BY <1>4, <1>5 DEF Mine, Left, Called, PopulateSteal
  <2>2. \A i \in Range :
          /\ Called(t, i)' = Called(t, i)
          /\ Mine(t, i) \/ Left(t, i) <=> Mine(t, i)' \/ Left(t, i)'
          /\ ~(Mine(t, i)' /\ Left(t, i)')
    BY <1>1, <1>2, <1>3, <1>4, <1>6, DoAllAssumption DEF Mine, Left, Called, PopulateSteal, Range
  <2>3. \A u \in Threads, i \in Range : Has(u, i)' <=> Has(u, i)
    BY <2>1, <2>2 DEF Has, Others
  <2> QED BY <1>1, <2>1, <2>2, <2>3 DEF AllOnce, Once, Others
<1>13. EachIndexOnce'
  BY <1>7, <1>12, OnceMeaning, PTL
<1> QED BY <1>7, <1>8, <1>9, <1>10, <1>11, <1>13 DEF IInv

LEMMA WaitStep ==
    ASSUME IInv, NEW t \in Threads, Wait(t)
    PROVE  IInv'
PROOF
<1>1. /\ TypeOK /\ Locks /\ Ranges /\ Starting /\ Emptied /\ Reduced /\ EachIndexOnce
      /\ pc[t] = "wait" /\ UNCHANGED <<rangeVars, stealVars, distance, F, outputF>>
  BY DEF IInv, Wait
<1>2. /\ pc'[t] = "process" /\ \A u \in Others(t) : pc'[u] = pc[u]
      /\ \A u \in Threads : pc'[u] # "populate"
  BY <1>1 DEF TypeOK, Wait, Goto, Others
<1>3. TypeOK'
  BY <1>1 DEF TypeOK, Wait, Goto, rangeVars, stealVars
<1>4. Locks'
  BY <1>1, <1>2, LocksKept DEF Others, Holding, stealVars
<1>5. Ranges'
  <2>1. \A u \in Threads : Source(u)' = Source(u)
    BY <1>1 DEF Source
  <2> QED BY <1>1, <1>2, <2>1 DEF Ranges, Others, rangeVars, stealVars
<1>6. Starting' /\ Emptied'
  BY <1>1, <1>2 DEF Starting, Emptied, Stealing, Holding, Others, stealVars
<1>7. Reduced'
  BY <1>1, <1>2, ReducedKept DEF Others
<1>8. EachIndexOnce'
  <2>1. \A u \in Threads, i \in Range : Mine(u, i)' = Mine(u, i) /\ Left(u, i)' = Left(u, i)
    BY <1>1, <1>2 DEF Mine, Left, Others, rangeVars, stealVars
  <2> QED BY <1>1, <1>3, <2>1, NothingMoves
<1> QED BY <1>3, <1>4, <1>5, <1>6, <1>7, <1>8 DEF IInv

LEMMA ProcessStep ==
    ASSUME IInv, NEW t \in Threads, ProcessRange(t)
    PROVE  IInv'
PROOF
<1>1. /\ TypeOK /\ Locks /\ Ranges /\ Starting /\ Emptied /\ Reduced /\ AllOnce
      /\ pc[t] = "process" /\ UNCHANGED <<end, stealVars, outputF>>
  BY OnceMeaning DEF IInv, ProcessRange
<1>2. begin[t] \in 0..Dist /\ end[t] \in 0..Dist /\ begin[t] <= end[t]
  BY <1>1 DEF TypeOK, Ranges
<1>3. /\ distance'[t] = 0 /\ \A u \in Others(t) : distance'[u] = distance[u]
      /\ distance' \in [Threads -> 0..(N - 1)]
  BY <1>1, DoAllAssumption DEF TypeOK, ProcessRange, Others
<1>4. \A u \in Others(t) : pc'[u] = pc[u] /\ begin'[u] = begin[u] /\ F'[u] = F[u]
  BY <1>1 DEF TypeOK, ProcessRange, Goto, Others
<1>5. \/ /\ begin[t] < end[t] /\ begin'[t] = begin[t] + 1 /\ pc'[t] = "process"
         /\ F'[t] = F[t] \cup {begin[t]}
      \/ /\ begin[t] = end[t] /\ begin'[t] = begin[t] /\ F'[t] = F[t]
         /\ pc'[t] = IF UseStealing THEN "steal" ELSE "reduce"
  BY <1>1, <1>2, DoAllAssumption DEF TypeOK, ProcessRange, Goto
<1>6. TypeOK'
  <2>1. begin' \in [Threads -> 0..Dist]
    BY <1>1, <1>2, DoAllAssumption DEF TypeOK, ProcessRange
  <2>2. F' \in [Threads -> SUBSET Range]
    <3>1. CASE begin[t] # end[t]
      <4>1. begin[t] \in Range
        BY <1>2, <3>1, DoAllAssumption DEF Range
      <4> QED BY <1>1, <3>1, <4>1 DEF TypeOK, ProcessRange
    <3>2. CASE begin[t] = end[t]
      BY <1>1, <3>2 DEF TypeOK, ProcessRange
    <3> QED BY <3>1, <3>2
  <2>3. pc' \in [Threads -> {"populate", "wait", "process", "steal", "lock", "take", "split",
                             "unlock", "reduce", "done"}]
    BY <1>1 DEF TypeOK, ProcessRange, Goto
  <2> QED BY <1>1, <1>3, <2>1, <2>2, <2>3 DEF TypeOK, stealVars
<1>7. Locks'
  BY <1>1, <1>3, <1>4, <1>5, LocksKept DEF Others, Holding, stealVars
<1>8. Ranges'
  <2>1. \A u \in Others(t) : Source(u)' = Source(u)
    BY <1>3 DEF Source
  <2>2. begin'[t] <= end'[t] /\ (pc'[t] # "process" => begin'[t] = end'[t])
    BY <1>1, <1>2, <1>5, DoAllAssumption
  <2>3. pc'[t] \in {"process", "steal", "reduce"}
    BY <1>5
  <2> QED BY <1>1, <1>4, <2>1, <2>2, <2>3 DEF Ranges, Others, stealVars
<1>9. Starting'
  BY <1>1, <1>4, <1>5 DEF Starting, Others, stealVars
<1>10. Emptied'
  BY <1>1, <1>3, <1>4, <1>5 DEF Emptied, Starting, Others, stealVars
<1>11. Reduced'
  BY <1>1, <1>4, <1>5, ReducedKept DEF Others
<1>12. AllOnce'
  <2>1. \A u \in Others(t), i \in Range :
          Mine(u, i)' = Mine(u, i) /\ Left(u, i)' = Left(u, i) /\ Called(u, i)' = Called(u, i)
    BY <1>1, <1>4 DEF Mine, Left, Called, stealVars
  <2>2. \A i \in Range :
          /\ Left(t, i)' = Left(t, i)
          /\ Mine(t, i) \/ Called(t, i) <=> Mine(t, i)' \/ Called(t, i)'
          /\ Mine(t, i)' => Mine(t, i) /\ (Called(t, i)' => Called(t, i))
    BY <1>1, <1>2, <1>5, DoAllAssumption DEF Mine, Left, Called, stealVars, Range
  <2>3. \A u \in Threads, i \in Range : Has(u, i)' <=> Has(u, i)
    BY <2>1, <2>2 DEF Has, Others
  <2> QED BY <1>1, <2>1, <2>2, <2>3 DEF AllOnce, Once, Others
<1>13. EachIndexOnce'
  BY <1>6, <1>12, OnceMeaning, PTL
<1> QED BY <1>6, <1>7, <1>8, <1>9, <1>10, <1>11, <1>13 DEF IInv

\* The thread goes on to the next neighbour, or is through with them.
LEMMA NextSourceFacts ==
    ASSUME TypeOK, Emptied, NEW t \in Threads, NextSource(t), pc[t] \in Stealing,
           stealBegin[Source(t)] = stealEnd[Source(t)]
    PROVE  /\ distance' \in [Threads -> 0..(N - 1)]
           /\ \A u \in Others(t) : distance'[u] = distance[u] /\ pc'[u] = pc[u]
           /\ pc'[t] \in {"steal", "reduce"}
           /\ stealBegin[t] = stealEnd[t]
PROOF
<1>1. stealBegin[t] = stealEnd[t]
  BY SourceType DEF Emptied
<1>2. distance[t] \in 0..(N - 1)
  BY DEF TypeOK
<1> DEFINE x == IF distance[t] = 0 THEN 1 ELSE 2 * distance[t]
<1>3. (IF x < N THEN x ELSE 0) \in 0..(N - 1)
  BY <1>2, DoAllAssumption
<1>4. distance' = [distance EXCEPT ![t] = IF x < N THEN x ELSE 0]
  BY DEF NextSource
<1> HIDE DEF x
<1>5. distance' \in [Threads -> 0..(N - 1)] /\ \A u \in Others(t) : distance'[u] = distance[u]
  BY <1>3, <1>4 DEF TypeOK, Others
<1>6. pc'[t] \in {"steal", "reduce"} /\ \A u \in Others(t) : pc'[u] = pc[u]
  BY DEF NextSource, Goto, TypeOK, Others
<1> QED BY <1>1, <1>5, <1>6

LEMMA LookStep ==
    ASSUME IInv, NEW t \in Threads, Look(t)
    PROVE  IInv'
PROOF
<1>1. /\ TypeOK /\ Locks /\ Ranges /\ Starting /\ Emptied /\ Reduced /\ EachIndexOnce
      /\ pc[t] = "steal" /\ UNCHANGED <<rangeVars, stealVars, F, outputF>>
  BY DEF IInv, Look
<1>2. /\ \A u \in Others(t) : pc'[u] = pc[u] /\ distance'[u] = distance[u]
      /\ distance' \in [Threads -> 0..(N - 1)]
      /\ \/ pc'[t] = "lock" /\ distance'[t] = distance[t]
         \/ pc'[t] \in {"steal", "reduce"} /\ stealBegin[t] = stealEnd[t]
  <2>1. CASE stealBegin[Source(t)] # stealEnd[Source(t)]
    BY <1>1, <2>1 DEF Look, Goto, TypeOK, Others
  <2>2. CASE stealBegin[Source(t)] = stealEnd[Source(t)]
    BY <1>1, <2>2, NextSourceFacts DEF Look, Stealing
  <2> QED BY <2>1, <2>2
<1>3. TypeOK'
  <2>1. pc' \in [Threads -> {"populate", "wait", "process", "steal", "lock", "take", "split",
                             "unlock", "reduce", "done"}]
    BY <1>1 DEF TypeOK, Look, NextSource, Goto
  <2> QED BY <1>1, <1>2, <2>1 DEF TypeOK, rangeVars, stealVars
<1>4. Locks'
  BY <1>1, <1>2, LocksKept DEF Others, Holding, stealVars
<1>5. Ranges'
  <2>1. \A u \in Others(t) : Source(u)' = Source(u)
    BY <1>2 DEF Source
  <2> QED BY <1>1, <1>2, <2>1 DEF Ranges, Others, rangeVars, stealVars
<1>6. Starting' /\ Emptied'
  BY <1>1, <1>2 DEF Starting, Emptied, Stealing, Holding, Others, stealVars
<1>7. Reduced'
  BY <1>1, <1>2, ReducedKept DEF Others
<1>8. EachIndexOnce'
  <2>1. \A u \in Threads, i \in Range : Mine(u, i)' = Mine(u, i) /\ Left(u, i)' = Left(u, i)
    BY <1>1, <1>2 DEF Mine, Left, Others, rangeVars, stealVars
  <2> QED BY <1>1, <1>3, <2>1, NothingMoves
<1> QED BY <1>3, <1>4, <1>5, <1>6, <1>7, <1>8 DEF IInv

LEMMA LockStep ==
    ASSUME IInv, NEW t \in Threads, Lock(t)
    PROVE  IInv'
PROOF
<1> DEFINE s == Source(t)
<1>1. /\ TypeOK /\ Locks /\ Ranges /\ Starting /\ Emptied /\ Reduced /\ EachIndexOnce
      /\ pc[t] = "lock" /\ stealLock[s] = Nobody /\ s \in Threads
      /\ UNCHANGED <<rangeVars, stealBegin, stealEnd, distance, F, outputF>>
  BY SourceType DEF IInv, Lock
<1>2. /\ pc'[t] = "take" /\ \A u \in Others(t) : pc'[u] = pc[u]
      /\ \A u \in Threads : Source(u)' = Source(u)
  BY <1>1 DEF TypeOK, Lock, Goto, Others, Source
<1>3. stealLock'[s] = t /\ \A u \in Others(s) : stealLock'[u] = stealLock[u]
  BY <1>1 DEF TypeOK, Lock, Others
<1>4. TypeOK'
  <2>1. stealLock' \in [Threads -> 0..N]
    BY <1>1, DoAllAssumption DEF TypeOK, Lock, Threads
  <2> QED BY <1>1, <2>1 DEF TypeOK, Lock, Goto, rangeVars
<1> HIDE DEF s
<1>5. Locks'
  <2>1. \A q, u \in Threads : stealLock'[q] = u => pc'[u] \in Holding /\ Source(u) = q
    BY <1>1, <1>2, <1>3 DEF Locks, Others, Holding, s
  <2>2. \A u \in Threads : pc'[u] \in Holding => stealLock'[Source(u)] = u
    <3> SUFFICES ASSUME NEW u \in Others(t), pc[u] \in Holding
                 PROVE  stealLock'[Source(u)] = u
      BY <1>2, <1>3 DEF Others, s
    <3>1. stealLock[Source(u)] = u /\ Source(u) \in Threads /\ u # Nobody
      BY <1>1, SourceType, DoAllAssumption DEF Locks, Others, Threads, Nobody
    <3> QED BY <1>1, <1>3, <3>1 DEF Others
  <2> QED BY <1>2, <2>1, <2>2 DEF Locks
<1>6. Ranges'
  BY <1>1, <1>2 DEF Ranges, Others, rangeVars
<1>7. Starting' /\ Emptied'
  BY <1>1, <1>2 DEF Starting, Emptied, Stealing, Holding, Others
<1>8. Reduced'
  BY <1>1, <1>2, ReducedKept DEF Others
<1>9. EachIndexOnce'
  <2>1. \A u \in Threads, i \in Range : Mine(u, i)' = Mine(u, i) /\ Left(u, i)' = Left(u, i)
    BY <1>1, <1>2 DEF Mine, Left, Others, rangeVars
  <2> QED BY <1>1, <1>4, <2>1, NothingMoves
<1> QED BY <1>4, <1>5, <1>6, <1>7, <1>8, <1>9 DEF IInv

LEMMA TakeStep ==
    ASSUME IInv, NEW t \in Threads, Take(t)
    PROVE  IInv'
PROOF
<1> DEFINE s == Source(t)
<1>1. /\ TypeOK /\ Locks /\ Ranges /\ Starting /\ Emptied /\ Reduced /\ EachIndexOnce
      /\ pc[t] = "take" /\ s \in Threads
      /\ UNCHANGED <<end, stealVars, distance, F, outputF>>
  BY SourceType DEF IInv, Take
<1>2. /\ \A u \in Others(t) : pc'[u] = pc[u] /\ begin'[u] = begin[u]
      /\ \A u \in Threads : Source(u)' = Source(u)
  BY <1>1 DEF TypeOK, Take, Goto, Others, Source
<1>3. /\ begin[t] = end[t] /\ begin[t] \in 0..Dist /\ stealBegin[s] \in 0..Dist /\ stealEnd[s] \in 0..Dist
      /\ stealBegin[s] <= stealEnd[s]
  BY <1>1 DEF TypeOK, Ranges
<1>4. \/ stealBegin[s] < stealEnd[s] /\ begin'[t] = stealBegin[s] /\ pc'[t] = "split"
      \/ stealBegin[s] = stealEnd[s] /\ begin'[t] = begin[t] /\ pc'[t] = "unlock"
  BY <1>1, <1>3, DoAllAssumption DEF TypeOK, Take, Goto
<1>5. TypeOK'
  <2>1. begin' \in [Threads -> 0..Dist]
    BY <1>1, <1>3 DEF TypeOK, Take
  <2>2. pc' \in [Threads -> {"populate", "wait", "process", "steal", "lock", "take", "split",
                             "unlock", "reduce", "done"}]
    BY <1>1 DEF TypeOK, Take, Goto
  <2> QED BY <1>1, <2>1, <2>2 DEF TypeOK, stealVars
<1> HIDE DEF s
<1>6. Locks'
  BY <1>1, <1>2, <1>4, LocksKept DEF Others, Holding, stealVars
<1>7. Ranges'
  BY <1>1, <1>2, <1>3, <1>4 DEF Ranges, Others, stealVars, s
<1>8. Starting' /\ Emptied'
  BY <1>1, <1>2, <1>4 DEF Starting, Emptied, Stealing, Holding, Others, stealVars
<1>9. Reduced'
  BY <1>1, <1>2, <1>4, ReducedKept DEF Others
<1>10. EachIndexOnce'
  <2>1. \A i \in Range : ~Mine(t, i) /\ ~Mine(t, i)'
    BY <1>1, <1>3, <1>4, DoAllAssumption DEF Mine, Range
  <2>2. \A u \in Threads, i \in Range : Mine(u, i)' = Mine(u, i) /\ Left(u, i)' = Left(u, i)
    BY <1>1, <1>2, <2>1 DEF Mine, Left, Others, stealVars
  <2> QED BY <1>1, <1>5, <2>2, NothingMoves
<1> QED BY <1>5, <1>6, <1>7, <1>8, <1>9, <1>10 DEF IInv

LEMMA SplitStep ==
    ASSUME IInv, NEW t \in Threads, Split(t)
    PROVE  IInv'
PROOF
<1> PICK s \in Threads : s = Source(t)
  BY SourceType DEF IInv
<1> DEFINE middle == SplitRange(stealBegin[s], stealEnd[s])
<1>1. /\ TypeOK /\ Locks /\ Ranges /\ Starting /\ Emptied /\ Reduced /\ AllOnce
      /\ pc[t] = "split"
      /\ UNCHANGED <<begin, stealEnd, stealLock, distance, F, outputF>>
  BY OnceMeaning DEF IInv, Split
<1>2. /\ pc'[t] = "unlock"
      /\ \A u \in Others(t) : pc'[u] = pc[u] /\ end'[u] = end[u]
      /\ \A u \in Threads : Source(u)' = Source(u)
  BY <1>1 DEF TypeOK, Split, Goto, Others, Source
<1>3. /\ stealBegin[s] \in 0..Dist /\ stealEnd[s] \in 0..Dist
      /\ stealBegin[s] < stealEnd[s] /\ begin[t] = stealBegin[s]
  BY <1>1 DEF TypeOK, Ranges
<1>4. middle \in 0..Dist /\ stealBegin[s] < middle /\ middle <= stealEnd[s]
  BY <1>3, SplitBounds, DoAllAssumption
<1>5. /\ end'[t] = middle /\ stealBegin'[s] = middle
      /\ \A u \in Others(s) : stealBegin'[u] = stealBegin[u]
  BY <1>1 DEF TypeOK, Split, Others
<1>6. TypeOK'
  <2>1. end' \in [Threads -> 0..Dist]
    BY <1>1, <1>4 DEF TypeOK, Split
  <2>2. stealBegin' \in [Threads -> 0..Dist]
    BY <1>1, <1>4 DEF TypeOK, Split
  <2>3. pc' \in [Threads -> {"populate", "wait", "process", "steal", "lock", "take", "split",
                             "unlock", "reduce", "done"}]
    BY <1>1 DEF TypeOK, Split, Goto
  <2> QED BY <1>1, <2>1, <2>2, <2>3 DEF TypeOK
<1> HIDE DEF middle
<1>7. Locks'
  BY <1>1, <1>2, LocksKept DEF Others, Holding
<1>8. \A u \in Others(t) : pc[u] \in Holding => Source(u) \in Others(s)
  BY <1>1, HolderIsAlone, SourceType DEF Others, Holding
<1>9. Ranges'
  <2>1. \A u \in Threads : stealBegin'[u] <= stealEnd'[u]
    BY <1>1, <1>3, <1>4, <1>5, DoAllAssumption DEF Ranges, Others
  <2>2. begin'[t] <= end'[t] /\ begin'[t] # end'[t]
    BY <1>1, <1>3, <1>4, <1>5, DoAllAssumption
  <2>3. \A u \in Others(t) : pc[u] \in Holding =>
          stealBegin'[Source(u)] = stealBegin[Source(u)] /\ stealEnd'[Source(u)] = stealEnd[Source(u)]
    BY <1>1, <1>5, <1>8
  <2> QED BY <1>1, <1>2, <2>1, <2>2, <2>3 DEF Ranges, Others, Holding
<1>10. Starting'
  BY <1>1, <1>2, <1>5 DEF Starting, Others
<1>11. Emptied'
  <2>1. \A u \in Threads : stealBegin[u] = stealEnd[u] => stealBegin'[u] = stealEnd'[u]
    BY <1>1, <1>3, <1>5, DoAllAssumption DEF Others
  <2> QED BY <1>1, <1>2, <2>1 DEF Emptied, Others, Stealing, Holding
<1>12. Reduced'
  BY <1>1, <1>2, ReducedKept DEF Others
<1>13. AllOnce'
  <2> SUFFICES ASSUME NEW i \in Range PROVE Once(i)'
    BY DEF AllOnce
  <2> DEFINE Moves == stealBegin[s] <= i /\ i < middle
  <2>1. /\ ~Mine(t, i) /\ (Mine(t, i)' <=> Moves)
        /\ Moves => Left(s, i)
        /\ Left(s, i)' <=> Left(s, i) /\ ~Moves
    BY <1>1, <1>2, <1>3, <1>4, <1>5, DoAllAssumption DEF Mine, Left, Range
  <2>2. /\ \A u \in Others(t) : Mine(u, i)' <=> Mine(u, i)
        /\ \A u \in Others(s) : Left(u, i)' <=> Left(u, i)
        /\ \A u \in Threads : Called(u, i)' <=> Called(u, i)
    BY <1>1, <1>2, <1>5 DEF Mine, Left, Called, Others
  <2> HIDE DEF Moves
  <2>3. Once(i)
    BY <1>1 DEF AllOnce
  <2>4. CASE ~Moves
    <3>1. \A u \in Threads : Mine(u, i)' <=> Mine(u, i)
      BY <2>1, <2>2, <2>4 DEF Others
    <3>2. \A u \in Threads : Left(u, i)' <=> Left(u, i)
      BY <2>1, <2>2, <2>4 DEF Others
    <3>3. \A u \in Threads : Has(u, i)' <=> Has(u, i)
      BY <2>2, <3>1, <3>2 DEF Has
    <3> QED BY <2>2, <2>3, <3>1, <3>2, <3>3 DEF Once
  <2>5. CASE Moves
    <3>1. /\ \A u \in Threads : ~Mine(u, i) /\ ~Called(u, i)
          /\ \A u \in Others(s) : ~Left(u, i)
      BY <2>1, <2>3, <2>5 DEF Once, Has, Others
    <3>2. /\ Mine(t, i)' /\ \A u \in Others(t) : ~Mine(u, i)'
          /\ \A u \in Threads : ~Left(u, i)' /\ ~Called(u, i)'
      BY <2>1, <2>2, <2>5, <3>1 DEF Others
    <3> QED BY <3>2 DEF Once, Has, Others
  <2> QED BY <2>4, <2>5
<1>14. EachIndexOnce'
  BY <1>6, <1>13, OnceMeaning, PTL
<1> QED BY <1>6, <1>7, <1>9, <1>10, <1>11, <1>12, <1>14 DEF IInv

LEMMA UnlockStep ==
    ASSUME IInv, NEW t \in Threads, Unlock(t)
    PROVE  IInv'
PROOF
<1> PICK s \in Threads : s = Source(t)
  BY SourceType DEF IInv
<1>1. /\ TypeOK /\ Locks /\ Ranges /\ Starting /\ Emptied /\ Reduced /\ EachIndexOnce
      /\ pc[t] = "unlock" /\ stealLock[s] = t
      /\ UNCHANGED <<rangeVars, stealBegin, stealEnd, F, outputF>>
  BY DEF IInv, Unlock, Locks, Holding
<1>2. /\ \A u \in Others(t) : pc'[u] = pc[u] /\ distance'[u] = distance[u]
      /\ distance' \in [Threads -> 0..(N - 1)]
      /\ \/ pc'[t] = "process"
         \/ /\ pc'[t] \in {"steal", "reduce"} /\ stealBegin[t] = stealEnd[t]
            /\ begin[t] = end[t]
  <2>1. CASE begin[t] # end[t]
    BY <1>1, <2>1 DEF Unlock, Goto, TypeOK, Others
  <2>2. CASE begin[t] = end[t]
    <3>1. stealBegin[Source(t)] = stealEnd[Source(t)]
      BY <1>1, <2>2 DEF Ranges
    <3> QED BY <1>1, <2>2, <3>1, NextSourceFacts DEF Unlock, Stealing, Holding
  <2> QED BY <2>1, <2>2
<1>3. \A u \in Others(t) : Source(u)' = Source(u)
  BY <1>2 DEF Source
<1>4. stealLock'[s] = Nobody /\ \A u \in Others(s) : stealLock'[u] = stealLock[u]
  BY <1>1 DEF TypeOK, Unlock, Others
<1>5. TypeOK'
  <2>1. pc' \in [Threads -> {"populate", "wait", "process", "steal", "lock", "take", "split",
                             "unlock", "reduce", "done"}]
    BY <1>1 DEF TypeOK, Unlock, NextSource, Goto
  <2>2. stealLock' \in [Threads -> 0..N]
    BY <1>1, DoAllAssumption DEF TypeOK, Unlock, Nobody
  <2> QED BY <1>1, <1>2, <2>1, <2>2 DEF TypeOK, rangeVars
<1>6. Locks'
  <2>1. ASSUME NEW q \in Threads, NEW u \in Threads, stealLock'[q] = u
        PROVE  u \in Others(t) /\ pc[u] \in Holding /\ Source(u) = q
    <3>1. q \in Others(s) /\ stealLock[q] = u
      BY <1>4, <2>1, DoAllAssumption DEF Others, Nobody, Threads
    <3> QED BY <1>1, <3>1 DEF Locks, Others
  <2>2. ASSUME NEW u \in Others(t), pc[u] \in Holding
        PROVE  stealLock'[Source(u)] = u
    <3>1. stealLock[Source(u)] = u /\ Source(u) \in Threads
      BY <1>1, <2>2, SourceType DEF Locks, Others
    <3> QED BY <1>1, <1>4, <3>1 DEF Others
  <2>3. pc'[t] \notin Holding
    BY <1>2 DEF Holding
  <2> QED BY <1>2, <1>3, <2>1, <2>2, <2>3 DEF Locks, Others
<1>7. Ranges'
  BY <1>1, <1>2, <1>3 DEF Ranges, Others, rangeVars
<1>8. Starting' /\ Emptied'
  BY <1>1, <1>2 DEF Starting, Emptied, Stealing, Holding, Others
<1>9. Reduced'
  BY <1>1, <1>2, ReducedKept DEF Others
<1>10. EachIndexOnce'
  <2>1. \A u \in Threads, i \in Range : Mine(u, i)' = Mine(u, i) /\ Left(u, i)' = Left(u, i)
    BY <1>1, <1>2 DEF Mine, Left, Others, rangeVars
  <2> QED BY <1>1, <1>5, <2>1, NothingMoves
<1> QED BY <1>5, <1>6, <1>7, <1>8, <1>9, <1>10 DEF IInv

LEMMA ReduceStep ==
    ASSUME IInv, NEW t \in Threads, DoReduce(t)
    PROVE  IInv'
PROOF
<1>1. /\ TypeOK /\ Locks /\ Ranges /\ Starting /\ Emptied /\ Reduced /\ EachIndexOnce
      /\ AllOnce /\ pc[t] = "reduce"
      /\ UNCHANGED <<rangeVars, stealVars, distance, F>>
  BY OnceMeaning DEF IInv, DoReduce
<1>2. /\ pc'[t] = "done" /\ \A u \in Others(t) : pc'[u] = pc[u]
      /\ \A u \in Threads : Source(u)' = Source(u)
  BY <1>1 DEF TypeOK, DoReduce, Goto, Others, Source
<1>3. \A i \in Range :
        outputF'[i] = IF \E u \in Threads : pc'[u] = "done" /\ i \in F[u] THEN 1 ELSE 0
  <2> SUFFICES ASSUME NEW i \in Range
               PROVE  outputF'[i] = IF \E u \in Threads : pc'[u] = "done" /\ i \in F[u]
                                    THEN 1 ELSE 0
    OBVIOUS
  <2>1. outputF'[i] = outputF[i] + (IF i \in F[t] THEN 1 ELSE 0)
    BY DEF DoReduce
  <2>2. outputF[i] = IF \E u \in Threads : pc[u] = "done" /\ i \in F[u] THEN 1 ELSE 0
    BY <1>1 DEF Reduced
  <2>3. CASE i \in F[t]
    <3>1. \A u \in Others(t) : i \notin F[u]
      BY <1>1, <2>3 DEF AllOnce, Once, Has, Called, Others
    <3>2. ~\E u \in Threads : pc[u] = "done" /\ i \in F[u]
      BY <1>1, <3>1 DEF Others
    <3>3. outputF'[i] = 1
      BY <2>1, <2>2, <2>3, <3>2
    <3> QED BY <1>2, <2>3, <3>3
  <2>4. CASE i \notin F[t]
    <3>1. outputF'[i] = outputF[i]
      BY <2>1, <2>2, <2>4
    <3> QED BY <1>1, <1>2, <2>2, <2>4, <3>1 DEF Others
  <2> QED BY <2>3, <2>4
<1>4. TypeOK'
  <2>1. outputF' \in [Range -> 0..N]
    BY <1>3, DoAllAssumption DEF DoReduce
  <2>2. pc' \in [Threads -> {"populate", "wait", "process", "steal", "lock", "take", "split",
                             "unlock", "reduce", "done"}]
    BY <1>1 DEF TypeOK, DoReduce, Goto
  <2> QED BY <1>1, <2>1, <2>2 DEF TypeOK, rangeVars, stealVars
<1>5. Locks'
  BY <1>1, <1>2, LocksKept DEF Others, Holding, stealVars
<1>6. Ranges'
  BY <1>1, <1>2 DEF Ranges, Others, rangeVars, stealVars
<1>7. Starting' /\ Emptied'
  BY <1>1, <1>2 DEF Starting, Emptied, Stealing, Holding, Others, stealVars
<1>8. Reduced'
  BY <1>1, <1>3 DEF Reduced
<1>9. EachIndexOnce'
  <2>1. \A u \in Threads, i \in Range : Mine(u, i)' = Mine(u, i) /\ Left(u, i)' = Left(u, i)
    BY <1>1, <1>2 DEF Mine, Left, Others, rangeVars, stealVars
  <2> QED BY <1>1, <1>4, <2>1, NothingMoves
<1> QED BY <1>4, <1>5, <1>6, <1>7, <1>8, <1>9 DEF IInv

LEMMA StutterStep == IInv /\ UNCHANGED vars => IInv'
PROOF
<1> SUFFICES ASSUME IInv, UNCHANGED vars PROVE IInv'
  OBVIOUS
<1>1. \A u \in Threads : Source(u)' = Source(u)
  BY DEF vars, Source
<1>2. TypeOK' /\ Locks' /\ Ranges' /\ Starting' /\ Emptied' /\ Reduced'
  BY <1>1 DEF IInv, TypeOK, Locks, Ranges, Starting, Emptied, Reduced, vars, rangeVars, stealVars
<1>3. EachIndexOnce'
  BY DEF IInv, EachIndexOnce, Holds, Private, Stealable, vars, rangeVars, stealVars
<1> QED BY <1>2, <1>3 DEF IInv

-----------------------------------------------------------------------------
(* The invariant holds in every reachable state, for any number of threads *)
(* and any length of the range, with and without stealing.                 *)
THEOREM DoAllInvariant == Spec => []IInv
PROOF
<1>1. IInv /\ [Next]_vars => IInv'
  BY PopulateStep, WaitStep, ProcessStep, LookStep, LockStep, TakeStep, SplitStep, UnlockStep,
     ReduceStep, StutterStep DEF Next, Step
<1> QED BY InitInvariant, <1>1, PTL DEF Spec

(* Every index of the range is at all times either to be done by one       *)
(* thread, or to be stolen from one, or done by one.                       *)
THEOREM IndicesAreDoneOnce == Spec => []EachIndexOnce
PROOF
<1>1. IInv => EachIndexOnce
  BY DEF IInv
<1> QED BY DoAllInvariant, <1>1, PTL

(* When every thread is done each index has been reduced exactly once.     *)
THEOREM ReductionIsComplete == Spec => []ReductionComplete
PROOF
<1>1. IInv => ReductionComplete
  <2> SUFFICES ASSUME IInv, \A t \in Threads : pc[t] = "done", NEW i \in Range
               PROVE  outputF[i] = 1
    BY DEF ReductionComplete
  <2>1. \A t \in Threads :
          /\ begin[t] = end[t] /\ stealBegin[t] = stealEnd[t]
          /\ begin[t] \in Int /\ stealBegin[t] \in Int
    BY DoAllAssumption DEF IInv, TypeOK, Ranges, Emptied
  <2>2. \A t \in Threads : ~Mine(t, i) /\ ~Left(t, i)
    BY <2>1, DoAllAssumption DEF Mine, Left, Range
  <2>3. \E t \in Threads : i \in F[t]
    BY <2>2, OnceMeaning DEF IInv, AllOnce, Once, Has, Called
  <2> QED BY <2>3 DEF IInv, Reduced
<1> QED BY DoAllInvariant, <1>1, PTL

(* The threads wait for each other at the barrier behind populateSteal and  *)
(* on the locks of the ranges they steal from.                              *)
Blocked(t) ==
    \/ pc[t] = "wait" /\ \E u \in Threads : pc[u] = "populate"
    \/ pc[t] = "lock" /\ stealLock[Source(t)] # Nobody
    \/ pc[t] = "done"

(* No deadlock: as long as a thread is not done, some thread can go on.     *)
(* Whoever holds the lock of a range (doSteal, DoAll.h) asks for no other   *)
(* before it gives it back.                                                 *)
THEOREM NobodyGetsStuck ==
    Spec => []((\A t \in Threads : Blocked(t)) => \A t \in Threads : pc[t] = "done")
PROOF
<1>1. IInv => ((\A t \in Threads : Blocked(t)) => \A t \in Threads : pc[t] = "done")
  <2> SUFFICES ASSUME IInv, \A t \in Threads : Blocked(t), NEW t \in Threads
               PROVE  pc[t] = "done"
    OBVIOUS
  <2>1. pc[t] # "wait"
    BY DEF Blocked
  <2>2. pc[t] # "lock"
    <3> SUFFICES ASSUME pc[t] = "lock" PROVE FALSE
      OBVIOUS
    <3>1. Source(t) \in Threads /\ stealLock[Source(t)] # Nobody
      BY SourceType DEF IInv, Blocked
    <3>2. stealLock[Source(t)] \in Threads
      <4>1. stealLock[Source(t)] \in 0..N
        BY <3>1 DEF IInv, TypeOK
      <4> QED BY <3>1, <4>1, DoAllAssumption DEF Nobody, Threads
    <3>3. pc[stealLock[Source(t)]] \in Holding
      BY <3>1, <3>2 DEF IInv, Locks
    <3> QED BY <3>2, <3>3 DEF Blocked, Holding
  <2> QED BY <2>1, <2>2 DEF Blocked
<1> QED BY DoAllInvariant, <1>1, PTL
=============================================================================
