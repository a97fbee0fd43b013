--------------------------- MODULE ChunkedProofs ----------------------------
(* ChunkedMaster implements OwnedWorkList, for any threads, packages, items  *)
(* and sizes of a chunk above one, as a FIFO and as a stack.                 *)
EXTENDS ChunkedMaster, FiniteSetTheorems, TLAPS

-----------------------------------------------------------------------------
(* The inductive invariant.                                                *)

Chunks == [by : Threads, items : Seq(Tasks)]

CTypeOK ==
    /\ isStack \in BOOLEAN
    /\ cur \in [Threads -> Seq(Tasks)] /\ next \in [Threads -> Seq(Tasks)]
    /\ Q \in [Packages -> Seq(Chunks)]
    /\ pc \in [Threads -> {"idle", "scan", "return"}]
    /\ scan \in [Threads -> 0..PackageCount]
    /\ answer \in [Threads -> {"none", "element", "nothing"}]
    /\ hand \in [Threads -> SUBSET Tasks]

Distinct(s) == \A i, j \in DOMAIN s : s[i] = s[j] => i = j

\* Item x is in chunk i of kind k, of thread or package a.
InChunk(k, a, i, x) ==
    \/ k = "cur" /\ a \in Threads /\ i = 0 /\ x \in ToSet(cur[a])
    \/ k = "next" /\ a \in Threads /\ i = 0 /\ x \in ToSet(next[a])
    \/ k = "queue" /\ a \in Packages /\ i \in DOMAIN Q[a] /\ x \in ToSet(Q[a][i].items)

\* Only what was pushed is in a chunk, and in one chunk only.
Apart ==
    /\ \A k, a, i, x : InChunk(k, a, i, x) => x \in pushed
    /\ \A k, l, a, b, i, j, x :
          InChunk(k, a, i, x) /\ InChunk(l, b, j, x) => k = l /\ a = b /\ i = j

\* A chunk in a queue has items, and is in the queue of who has filled it.
Full(c, p) ==
    /\ c.items # <<>> /\ Len(c.items) <= ChunkSize /\ Distinct(c.items)
    /\ PackageOf[c.by] = p

QueuesInv == \A p \in Packages : \A i \in DOMAIN Q[p] : Full(Q[p][i], p)

\* A pop that looks at the queues of others has none of its own chunks left:
\* nobody else could have put one there.
ThreadInv(t) ==
    /\ Distinct(cur[t]) /\ Distinct(next[t]) /\ Len(next[t]) <= ChunkSize
    /\ isStack => cur[t] = <<>>
    /\ answer[t] = "none" <=> pc[t] # "return"
    /\ pc[t] = "scan" =>
         /\ IF isStack THEN next[t] = <<>> ELSE cur[t] = <<>>
         /\ scan[t] > 0 => \A i \in DOMAIN Q[PackageOf[t]] : Q[PackageOf[t]][i].by # t

ChunkInv == CTypeOK /\ Apart /\ QueuesInv /\ \A t \in Threads : ThreadInv(t)

-----------------------------------------------------------------------------
(* Sequences.                                                              *)

LEMMA AppendFacts ==
    ASSUME NEW S, NEW s \in Seq(S), NEW x \in S
    PROVE  /\ Append(s, x) \in Seq(S) /\ Len(Append(s, x)) = Len(s) + 1
           /\ ToSet(Append(s, x)) = ToSet(s) \cup {x}
           /\ Distinct(s) /\ x \notin ToSet(s) => Distinct(Append(s, x))
PROOF
<1>1. /\ Append(s, x) \in Seq(S) /\ Len(s) \in Nat /\ DOMAIN s = 1..Len(s)
      /\ DOMAIN Append(s, x) = 1..(Len(s) + 1) /\ Len(Append(s, x)) = Len(s) + 1
      /\ \A i \in 1..Len(s) : Append(s, x)[i] = s[i]
      /\ Append(s, x)[Len(s) + 1] = x
  OBVIOUS
<1>2. \A i \in 1..(Len(s) + 1) : i \in 1..Len(s) \/ i = Len(s) + 1
  BY <1>1
<1>3. \A i \in 1..Len(s) : i \in 1..(Len(s) + 1)
  BY <1>1
<1>4. Len(s) + 1 \in 1..(Len(s) + 1)
  BY <1>1
<1>5. ToSet(Append(s, x)) = ToSet(s) \cup {x}
  BY <1>1, <1>2, <1>3, <1>4 DEF ToSet
<1>6. ASSUME Distinct(s), x \notin ToSet(s) PROVE Distinct(Append(s, x))
  BY <1>1, <1>2, <1>6 DEF Distinct, ToSet
<1> QED BY <1>1, <1>5, <1>6

\* Taking the first item out of a chunk.
LEMMA TailFacts ==
    ASSUME NEW S, NEW s \in Seq(S), s # <<>>
    PROVE  /\ Tail(s) \in Seq(S) /\ Head(s) \in S /\ Len(Tail(s)) = Len(s) - 1
           /\ Len(s) \in Nat \ {0} /\ DOMAIN s = 1..Len(s) /\ Head(s) = s[1]
           /\ DOMAIN Tail(s) = 1..(Len(s) - 1)
           /\ \A i \in DOMAIN Tail(s) : i + 1 \in DOMAIN s /\ Tail(s)[i] = s[i + 1]
           /\ \A i \in DOMAIN s : i # 1 => i - 1 \in DOMAIN Tail(s) /\ Tail(s)[i - 1] = s[i]
PROOF OBVIOUS

LEMMA FirstTaken ==
    ASSUME NEW S, NEW s \in Seq(S), s # <<>>, Distinct(s)
    PROVE  /\ Head(s) \in ToSet(s) /\ ToSet(Tail(s)) = ToSet(s) \ {Head(s)}
           /\ Distinct(Tail(s))
PROOF
<1>1. Head(s) \in ToSet(s)
  BY TailFacts DEF ToSet
<1>2. ASSUME NEW x \in ToSet(Tail(s)) PROVE x \in ToSet(s) \ {Head(s)}
  <2>1. PICK i \in DOMAIN Tail(s) : x = Tail(s)[i]
    BY <1>2 DEF ToSet
  <2>2. i + 1 \in DOMAIN s /\ x = s[i + 1] /\ i + 1 # 1 /\ 1 \in DOMAIN s /\ Head(s) = s[1]
    BY <2>1, TailFacts
  <2> QED BY <2>2 DEF ToSet, Distinct
<1>3. ASSUME NEW x \in ToSet(s) \ {Head(s)} PROVE x \in ToSet(Tail(s))
  <2>1. PICK i \in DOMAIN s : x = s[i] /\ i # 1
    BY <1>3, TailFacts DEF ToSet
  <2>2. i - 1 \in DOMAIN Tail(s) /\ Tail(s)[i - 1] = x
    BY <2>1, TailFacts
  <2> QED BY <2>2 DEF ToSet
<1>4. Distinct(Tail(s))
  <2> SUFFICES ASSUME NEW i \in DOMAIN Tail(s), NEW j \in DOMAIN Tail(s), Tail(s)[i] = Tail(s)[j]
               PROVE  i = j
    BY DEF Distinct
  <2>1. /\ i + 1 \in DOMAIN s /\ j + 1 \in DOMAIN s /\ s[i + 1] = s[j + 1]
        /\ i \in Int /\ j \in Int
    BY TailFacts
  <2>2. i + 1 = j + 1
    BY <2>1 DEF Distinct
  <2> QED BY <2>1, <2>2
<1> QED BY <1>1, <1>2, <1>3, <1>4

\* Taking the last one.
LEMMA LastTaken ==
    ASSUME NEW S, NEW s \in Seq(S), s # <<>>, Distinct(s)
    PROVE  /\ Front(s) \in Seq(S) /\ Last(s) \in ToSet(s) /\ Last(s) \in S
           /\ ToSet(Front(s)) = ToSet(s) \ {Last(s)}
           /\ Distinct(Front(s)) /\ Len(Front(s)) <= Len(s)
PROOF
<1> DEFINE n == Len(s)
           f == SubSeq(s, 1, Len(s) - 1)
<1>1. /\ n \in Nat \ {0} /\ DOMAIN s = 1..n /\ f \in Seq(S)
      /\ DOMAIN f = 1..(n - 1) /\ \A i \in 1..(n - 1) : f[i] = s[i]
      /\ s \in [1..n -> S]
  OBVIOUS
<1>2. Len(f) = n - 1
  BY <1>1
<1> HIDE DEF n
<1>3. /\ n \in Nat \ {0} /\ DOMAIN s = 1..n /\ Front(s) \in Seq(S)
      /\ Len(Front(s)) = n - 1 /\ n = Len(s)
      /\ DOMAIN Front(s) = 1..(n - 1) /\ \A i \in 1..(n - 1) : Front(s)[i] = s[i]
      /\ s \in [1..n -> S] /\ Last(s) = s[n]
  BY <1>1, <1>2 DEF Front, Last, n
<1>4. n \in Nat \ {0} /\ DOMAIN s = 1..n
  BY <1>3
<1>5. n \in DOMAIN s /\ \A i \in 1..(n - 1) : i \in DOMAIN s /\ i # n
  BY <1>4
<1>6. \A i \in DOMAIN s : i = n \/ i \in 1..(n - 1)
  BY <1>4
<1>7. Last(s) \in ToSet(s) /\ Last(s) \in S
  BY <1>3, <1>5 DEF ToSet
<1>8. ToSet(Front(s)) = ToSet(s) \ {Last(s)}
  <2>1. ASSUME NEW x \in ToSet(Front(s)) PROVE x \in ToSet(s) \ {Last(s)}
    BY <1>3, <1>5, <2>1 DEF ToSet, Distinct
  <2>2. ASSUME NEW x \in ToSet(s) \ {Last(s)} PROVE x \in ToSet(Front(s))
    BY <1>3, <1>6, <2>2 DEF ToSet
  <2> QED BY <2>1, <2>2
<1>9. Distinct(Front(s))
  BY <1>3, <1>5 DEF Distinct
<1> QED BY <1>3, <1>7, <1>8, <1>9

LEMMA EmptyChunk == ASSUME NEW S PROVE <<>> \in Seq(S) /\ Len(<<>>) = 0 /\ ToSet(<<>>) = {} /\ Distinct(<<>>)
PROOF BY DEF ToSet, Distinct

\* No chunk holds more different items than it is long.
LEMMA ChunkBound ==
    ASSUME NEW S, NEW s \in Seq(S)
    PROVE  Cardinality(ToSet(s)) <= Len(s)
PROOF
<1>1. Len(s) \in Nat /\ DOMAIN s = 1..Len(s)
  OBVIOUS
<1>2. s \in Surjection(1..Len(s), ToSet(s))
  BY <1>1 DEF Surjection, ToSet
<1>3. ExistsSurjection(1..Len(s), ToSet(s))
  BY <1>2 DEF ExistsSurjection
<1> QED BY <1>1, <1>3, FS_SurjCardinalityBound

-----------------------------------------------------------------------------
(* What a thread owns.                                                     *)

\* Item x is in a queue, in a chunk that t has filled.
HandedOut(t, x) ==
    \E p \in Packages : \E i \in DOMAIN Q[p] : Q[p][i].by = t /\ x \in ToSet(Q[p][i].items)

LEMMA OwnedMember ==
    \A t, x : x \in Owned(t) <=> x \in ToSet(cur[t]) \/ x \in ToSet(next[t]) \/ HandedOut(t, x)
PROOF
<1> SUFFICES ASSUME NEW t, NEW x
             PROVE  x \in Owned(t)
                      <=> x \in ToSet(cur[t]) \/ x \in ToSet(next[t]) \/ HandedOut(t, x)
  OBVIOUS
<1>1. ASSUME NEW p \in Packages
      PROVE  x \in UNION {ToSet(c.items) : c \in {d \in ToSet(Q[p]) : d.by = t}}
               <=> \E i \in DOMAIN Q[p] : Q[p][i].by = t /\ x \in ToSet(Q[p][i].items)
  BY DEF ToSet
<1> QED BY <1>1 DEF Owned, HandedOut

LEMMA OwnedMemberNext ==
    \A t, x : x \in Owned(t)' <=> x \in ToSet(cur'[t]) \/ x \in ToSet(next'[t]) \/ HandedOut(t, x)'
PROOF
<1> SUFFICES ASSUME NEW t, NEW x
             PROVE  x \in Owned(t)'
                      <=> x \in ToSet(cur'[t]) \/ x \in ToSet(next'[t]) \/ HandedOut(t, x)'
  OBVIOUS
<1>1. ASSUME NEW p \in Packages
      PROVE  x \in UNION {ToSet(c.items) : c \in {d \in ToSet(Q'[p]) : d.by = t}}
               <=> \E i \in DOMAIN Q'[p] : Q'[p][i].by = t /\ x \in ToSet(Q'[p][i].items)
  BY DEF ToSet
<1> QED BY <1>1 DEF Owned, HandedOut

-----------------------------------------------------------------------------
(* Queues.                                                                 *)

\* Queue s is queue r with chunk c somewhere, at m, in it.
Inserted(s, r, c, m, f) ==
    /\ m \in DOMAIN s /\ s[m] = c
    /\ \A i \in DOMAIN s : i # m => f[i] \in DOMAIN r /\ s[i] = r[f[i]]
    /\ \A i, j \in DOMAIN s : i # m /\ j # m /\ f[i] = f[j] => i = j
    /\ \A k \in DOMAIN r : \E i \in DOMAIN s : i # m /\ f[i] = k

LEMMA AppendInserts ==
    ASSUME NEW S, NEW r \in Seq(S), NEW c \in S
    PROVE  \E m, f : Inserted(Append(r, c), r, c, m, f) /\ Append(r, c) \in Seq(S)
PROOF
<1> DEFINE s == Append(r, c)
           m == Len(r) + 1
           f == [i \in 1..(Len(r) + 1) |-> i]
<1>1. /\ s \in Seq(S) /\ Len(r) \in Nat /\ DOMAIN r = 1..Len(r)
      /\ DOMAIN s = 1..(Len(r) + 1) /\ s[Len(r) + 1] = c
      /\ \A i \in 1..Len(r) : s[i] = r[i]
  OBVIOUS
<1>2. Len(r) \in Nat
  BY <1>1
<1>3. /\ m \in 1..(Len(r) + 1) /\ \A i \in 1..(Len(r) + 1) : i # m => i \in 1..Len(r)
      /\ \A i \in 1..Len(r) : i \in 1..(Len(r) + 1) /\ i # m
  BY <1>2
<1> HIDE DEF m
<1>4. Inserted(s, r, c, m, f)
  BY <1>1, <1>3 DEF Inserted, m
<1> QED BY <1>1, <1>4

LEMMA PrependInserts ==
    ASSUME NEW S, NEW r \in Seq(S), NEW c \in S
    PROVE  \E m, f : Inserted(<<c>> \o r, r, c, m, f) /\ <<c>> \o r \in Seq(S)
PROOF
<1> DEFINE s == <<c>> \o r
           f == [i \in 1..(Len(r) + 1) |-> i - 1]
<1>1. <<c>> \in Seq(S) /\ Len(<<c>>) = 1 /\ <<c>>[1] = c
  OBVIOUS
<1>2. /\ s \in Seq(S) /\ Len(r) \in Nat /\ DOMAIN r = 1..Len(r) /\ Len(s) = Len(r) + 1
      /\ DOMAIN s = 1..(Len(r) + 1) /\ s[1] = c
  BY <1>1
<1>3. \A i \in 1..(Len(r) + 1) : i # 1 => s[i] = r[i - 1]
  BY <1>1
<1>4. Len(r) \in Nat
  OBVIOUS
<1>5. /\ 1 \in 1..(Len(r) + 1) /\ \A i \in 1..(Len(r) + 1) : i # 1 => i - 1 \in 1..Len(r)
      /\ \A i \in 1..Len(r) : i + 1 \in 1..(Len(r) + 1) /\ i + 1 # 1 /\ (i + 1) - 1 = i
      /\ \A i, j \in 1..(Len(r) + 1) : i - 1 = j - 1 => i = j
  BY <1>4
<1>6. \A k \in 1..Len(r) : \E i \in 1..(Len(r) + 1) : i # 1 /\ i - 1 = k
  BY <1>5
<1>7. Inserted(s, r, c, 1, f)
  BY <1>2, <1>3, <1>5, <1>6 DEF Inserted
<1> QED BY <1>2, <1>7

\* Taking the first chunk is the opposite.
LEMMA TailRemoves ==
    ASSUME NEW S, NEW r \in Seq(S), r # <<>>
    PROVE  \E m, f : Inserted(r, Tail(r), Head(r), m, f) /\ Tail(r) \in Seq(S) /\ Head(r) \in S
PROOF
<1> DEFINE f == [i \in DOMAIN r |-> i - 1]
<1>1. /\ Tail(r) \in Seq(S) /\ Head(r) \in S /\ Head(r) = r[1] /\ DOMAIN r = 1..Len(r)
      /\ DOMAIN Tail(r) = 1..(Len(r) - 1) /\ Len(r) \in Nat \ {0}
      /\ \A i \in DOMAIN Tail(r) : i + 1 \in DOMAIN r /\ Tail(r)[i] = r[i + 1]
      /\ \A i \in DOMAIN r : i # 1 => i - 1 \in DOMAIN Tail(r) /\ Tail(r)[i - 1] = r[i]
  BY TailFacts
<1>2. Len(r) \in Nat \ {0}
  BY <1>1
<1>3. /\ 1 \in 1..Len(r) /\ \A i \in 1..(Len(r) - 1) : i + 1 # 1
      /\ \A i, j \in 1..Len(r) : i - 1 = j - 1 => i = j
  BY <1>2
<1>4. Inserted(r, Tail(r), Head(r), 1, f)
  BY <1>1, <1>3 DEF Inserted
<1> QED BY <1>1, <1>4

LEMMA HandedOutMore ==
    ASSUME NEW p \in Packages, NEW c, NEW m, NEW f, Inserted(Q'[p], Q[p], c, m, f),
           \A q \in Packages \ {p} : Q'[q] = Q[q]
    PROVE  \A u, y : HandedOut(u, y)' <=> HandedOut(u, y) \/ (c.by = u /\ y \in ToSet(c.items))
PROOF
<1> SUFFICES ASSUME NEW u, NEW y
             PROVE  HandedOut(u, y)' <=> HandedOut(u, y) \/ (c.by = u /\ y \in ToSet(c.items))
  OBVIOUS
<1> DEFINE Has(d) == d.by = u /\ y \in ToSet(d.items)
<1>1. (\E i \in DOMAIN Q'[p] : Has(Q'[p][i])) <=> (\E i \in DOMAIN Q[p] : Has(Q[p][i])) \/ Has(c)
  <2> HIDE DEF Has
  <2> QED BY DEF Inserted
<1> QED BY <1>1 DEF HandedOut

LEMMA HandedOutLess ==
    ASSUME Apart, NEW p \in Packages, NEW c, NEW m, NEW f, Inserted(Q[p], Q'[p], c, m, f),
           \A q \in Packages \ {p} : Q'[q] = Q[q]
    PROVE  \A u, y : HandedOut(u, y)' <=> HandedOut(u, y) /\ y \notin ToSet(c.items)
PROOF
<1> SUFFICES ASSUME NEW u, NEW y
             PROVE  HandedOut(u, y)' <=> HandedOut(u, y) /\ y \notin ToSet(c.items)
  OBVIOUS
<1> DEFINE Has(d) == d.by = u /\ y \in ToSet(d.items)
<1>1. ASSUME HandedOut(u, y)' PROVE HandedOut(u, y) /\ y \notin ToSet(c.items)
  <2>0. PICK q \in Packages : \E i \in DOMAIN Q'[q] : Has(Q'[q][i])
    BY <1>1 DEF HandedOut
  <2>1. PICK i \in DOMAIN Q'[q] : Has(Q'[q][i])
    BY <2>0
  <2>2. \E j \in DOMAIN Q[q] : Q[q][j] = Q'[q][i] /\ (q = p => j # m)
    BY <2>1 DEF Inserted
  <2>3. PICK j \in DOMAIN Q[q] : Q[q][j] = Q'[q][i] /\ (q = p => j # m)
    BY <2>2
  <2>4. HandedOut(u, y) /\ InChunk("queue", q, j, y)
    BY <2>1, <2>3 DEF HandedOut, InChunk
  <2>5. y \in ToSet(c.items) => InChunk("queue", p, m, y)
    BY DEF Inserted, InChunk
  <2> QED BY <2>3, <2>4, <2>5 DEF Apart
<1>2. ASSUME HandedOut(u, y), y \notin ToSet(c.items) PROVE HandedOut(u, y)'
  <2>0. PICK q \in Packages : \E j \in DOMAIN Q[q] : Has(Q[q][j])
    BY <1>2 DEF HandedOut
  <2>1. PICK j \in DOMAIN Q[q] : Has(Q[q][j])
    BY <2>0
  <2>2. q = p => j # m
    BY <1>2, <2>1 DEF Inserted
  <2>3. \E i \in DOMAIN Q'[q] : Q'[q][i] = Q[q][j]
    BY <2>2 DEF Inserted
  <2> QED BY <2>1, <2>3 DEF HandedOut
<1> QED BY <1>1, <1>2

-----------------------------------------------------------------------------
(* An item stays in one chunk.                                             *)

\* A new item at the end of the chunk that t fills.
LEMMA ApartAppended ==
    ASSUME Apart, NEW t \in Threads, NEW x \in Tasks \ pushed, cur' = cur, Q' = Q,
           ToSet(next'[t]) = ToSet(next[t]) \cup {x},
           \A u \in Threads \ {t} : next'[u] = next[u], pushed' = pushed \cup {x}
    PROVE  Apart'
PROOF
<1>1. \A k, a, i, y : InChunk(k, a, i, y)' =>
         InChunk(k, a, i, y) \/ (k = "next" /\ a = t /\ i = 0 /\ y = x)
  BY DEF InChunk
<1>2. \A k, a, i : ~InChunk(k, a, i, x)
  BY DEF Apart
<1> QED BY <1>1, <1>2 DEF Apart

\* The chunk that t has filled goes to queue p, and t begins one with x.
LEMMA ApartHandedOver ==
    ASSUME Apart, NEW t \in Threads, NEW p \in Packages, NEW x \in Tasks \ pushed,
           NEW c, NEW m, NEW f, Inserted(Q'[p], Q[p], c, m, f), c.items = next[t],
           \A q \in Packages \ {p} : Q'[q] = Q[q], cur' = cur, next'[t] = <<x>>,
           \A u \in Threads \ {t} : next'[u] = next[u], pushed' = pushed \cup {x}
    PROVE  Apart'
PROOF
<1> DEFINE Origin(k, a, i, y) ==
             \/ k = "next" /\ a = t /\ i = 0 /\ y = x
             \/ k = "queue" /\ a = p /\ i = m /\ InChunk("next", t, 0, y)
             \/ /\ k = "queue" /\ a = p /\ i # m /\ i \in DOMAIN Q'[p]
                /\ InChunk("queue", p, f[i], y)
             \/ ~(k = "queue" /\ a = p) /\ ~(k = "next" /\ a = t) /\ InChunk(k, a, i, y)
<1>1. ToSet(next'[t]) = {x}
  BY DEF ToSet
<1>2. ASSUME NEW k, NEW a, NEW i, NEW y, InChunk(k, a, i, y)' PROVE Origin(k, a, i, y)
  <2>1. CASE k = "cur"
    BY <1>2, <2>1 DEF InChunk
  <2>2. CASE k = "next"
    BY <1>1, <1>2, <2>2 DEF InChunk
  <2>3. CASE k = "queue" /\ a # p
    BY <1>2, <2>3 DEF InChunk
  <2>4. CASE k = "queue" /\ a = p
    BY <1>2, <2>4 DEF InChunk, Inserted
  <2> QED BY <1>2, <2>1, <2>2, <2>3, <2>4 DEF InChunk
<1>3. \A k, a, i : ~InChunk(k, a, i, x)
  BY DEF Apart
<1>4. \A k, a, i, y : InChunk(k, a, i, y)' => y \in pushed'
  BY <1>2 DEF Apart
<1>5. ASSUME NEW k, NEW l, NEW a, NEW b, NEW i, NEW j, NEW y,
             InChunk(k, a, i, y)', InChunk(l, b, j, y)'
      PROVE  k = l /\ a = b /\ i = j
  <2>1. Origin(k, a, i, y) /\ Origin(l, b, j, y)
    BY <1>2, <1>5
  <2> QED BY <1>3, <2>1 DEF Apart, Inserted
<1> QED BY <1>4, <1>5 DEF Apart

\* Chunk c of queue p becomes the one t takes items from, without some.
LEMMA ApartTaken ==
    ASSUME Apart, NEW t \in Threads, NEW p \in Packages, NEW d \in {"cur", "next"},
           NEW c, NEW m, NEW f, Inserted(Q[p], Q'[p], c, m, f),
           \A q \in Packages \ {p} : Q'[q] = Q[q], pushed' = pushed,
           \A u \in Threads : u # t \/ d # "cur" => cur'[u] = cur[u],
           \A u \in Threads : u # t \/ d # "next" => next'[u] = next[u],
           d = "cur" => ToSet(cur'[t]) \subseteq ToSet(c.items),
           d = "next" => ToSet(next'[t]) \subseteq ToSet(c.items)
    PROVE  Apart'
PROOF
<1> DEFINE Origin(k, a, i, y) ==
             \/ k = d /\ a = t /\ i = 0 /\ InChunk("queue", p, m, y)
             \/ /\ k = "queue" /\ a = p
                /\ \E j \in DOMAIN Q[p] : j # m /\ f[j] = i /\ InChunk("queue", p, j, y)
             \/ ~(k = "queue" /\ a = p) /\ ~(k = d /\ a = t) /\ InChunk(k, a, i, y)
<1>1. ASSUME NEW k, NEW a, NEW i, NEW y, InChunk(k, a, i, y)' PROVE Origin(k, a, i, y)
  <2>1. CASE k = "cur"
    BY <1>1, <2>1 DEF InChunk, Inserted
  <2>2. CASE k = "next"
    BY <1>1, <2>2 DEF InChunk, Inserted
  <2>3. CASE k = "queue" /\ a # p
    BY <1>1, <2>3 DEF InChunk
  <2>4. CASE k = "queue" /\ a = p
    <3>1. i \in DOMAIN Q'[p] /\ y \in ToSet(Q'[p][i].items)
      BY <1>1, <2>4 DEF InChunk
    <3>2. PICK j \in DOMAIN Q[p] : j # m /\ f[j] = i
      BY <3>1 DEF Inserted
    <3>3. Q[p][j] = Q'[p][i]
      BY <3>2 DEF Inserted
    <3> QED BY <2>4, <3>1, <3>2, <3>3 DEF InChunk
  <2> QED BY <1>1, <2>1, <2>2, <2>3, <2>4 DEF InChunk
<1>2. \A k, a, i, y : InChunk(k, a, i, y)' => y \in pushed'
  BY <1>1 DEF Apart
<1>3. ASSUME NEW k, NEW l, NEW a, NEW b, NEW i, NEW j, NEW y,
             InChunk(k, a, i, y)', InChunk(l, b, j, y)'
      PROVE  k = l /\ a = b /\ i = j
  <2>1. Origin(k, a, i, y) /\ Origin(l, b, j, y)
    BY <1>1, <1>3
  <2> QED BY <2>1 DEF Apart
<1> QED BY <1>2, <1>3 DEF Apart

\* A thread takes items out of its chunk, or goes on with the one it fills.
LEMMA ApartShrinks ==
    ASSUME Apart, Q' = Q, pushed \subseteq pushed',
           \A u \in Threads : ToSet(cur'[u]) \subseteq ToSet(cur[u]),
           \A u \in Threads : ToSet(next'[u]) \subseteq ToSet(next[u])
    PROVE  Apart'
PROOF
<1>1. \A k, a, i, y : InChunk(k, a, i, y)' => InChunk(k, a, i, y)
  BY DEF InChunk
<1> QED BY <1>1 DEF Apart

LEMMA ApartTurned ==
    ASSUME Apart, Q' = Q, pushed' = pushed, NEW t \in Threads,
           \A u \in Threads \ {t} : cur'[u] = cur[u] /\ next'[u] = next[u],
           ToSet(cur'[t]) \subseteq ToSet(next[t]), ToSet(next'[t]) = {}
    PROVE  Apart'
PROOF
<1>1. \A k, a, i, y : InChunk(k, a, i, y)' =>
         \/ k = "cur" /\ a = t /\ i = 0 /\ InChunk("next", t, 0, y)
         \/ ~(k = "cur" /\ a = t) /\ ~(k = "next" /\ a = t) /\ InChunk(k, a, i, y)
  BY DEF InChunk
<1> QED BY <1>1 DEF Apart

-----------------------------------------------------------------------------
(* Types.                                                                  *)

LEMMA ScannedQueue ==
    ASSUME CTypeOK, NEW t \in Threads
    PROVE  QueueToScan(t) \in Packages /\ (scan[t] = 0 => QueueToScan(t) = PackageOf[t])
PROOF
<1>1. PackageOf[t] \in 0..(PackageCount - 1) /\ scan[t] \in 0..PackageCount /\ PackageCount \in Nat \ {0}
  BY ChunkAssumption DEF CTypeOK, Packages
<1>2. \A a, n \in Nat : n # 0 => a % n \in 0..(n - 1) /\ (a < n => a % n = a)
  OBVIOUS
<1> DEFINE a == PackageOf[t] + scan[t]
<1>3. a \in Nat /\ PackageCount \in Nat /\ PackageCount # 0
  BY <1>1
<1>4. scan[t] = 0 => a = PackageOf[t] /\ a < PackageCount
  BY <1>1
<1> HIDE DEF a
<1>5. a % PackageCount \in 0..(PackageCount - 1) /\ (a < PackageCount => a % PackageCount = a)
  BY <1>2, <1>3
<1> QED BY <1>4, <1>5 DEF QueueToScan, Packages, a

LEMMA PushedChunk ==
    ASSUME CTypeOK, NEW t \in Threads, NEW items \in Seq(Tasks), PushChunk(t, items)
    PROVE  /\ PackageOf[t] \in Packages /\ Chunk(t, items) \in Chunks
           /\ Q' \in [Packages -> Seq(Chunks)]
           /\ \A q \in Packages \ {PackageOf[t]} : Q'[q] = Q[q]
           /\ \E m, f : Inserted(Q'[PackageOf[t]], Q[PackageOf[t]], Chunk(t, items), m, f)
PROOF
<1> DEFINE p == PackageOf[t]
           c == Chunk(t, items)
<1>1. p \in Packages /\ c \in Chunks /\ Q[p] \in Seq(Chunks) /\ Q \in [Packages -> Seq(Chunks)]
  BY ChunkAssumption DEF CTypeOK, Chunk, Chunks
<1>2. \E m, f : Inserted(Append(Q[p], c), Q[p], c, m, f) /\ Append(Q[p], c) \in Seq(Chunks)
  BY <1>1, AppendInserts
<1>3. \E m, f : Inserted(<<c>> \o Q[p], Q[p], c, m, f) /\ <<c>> \o Q[p] \in Seq(Chunks)
  BY <1>1, PrependInserts
<1>4. Q' = [Q EXCEPT ![p] = IF isStack THEN <<c>> \o Q[p] ELSE Append(Q[p], c)]
  BY <1>1 DEF PushChunk
<1> HIDE DEF p, c
<1>5. /\ Q'[p] = (IF isStack THEN <<c>> \o Q[p] ELSE Append(Q[p], c))
      /\ \A q \in Packages \ {p} : Q'[q] = Q[q]
  BY <1>1, <1>4
<1>6. Q'[p] \in Seq(Chunks) /\ \E m, f : Inserted(Q'[p], Q[p], c, m, f)
  BY <1>2, <1>3, <1>5
<1>7. Q' \in [Packages -> Seq(Chunks)]
  BY <1>1, <1>4, <1>5, <1>6
<1> QED BY <1>1, <1>5, <1>6, <1>7 DEF p, c

\* The first chunk leaves queue p.
LEMMA PoppedChunk ==
    ASSUME CTypeOK, QueuesInv, NEW p \in Packages, Q[p] # <<>>, Q' = [Q EXCEPT ![p] = Tail(@)]
    PROVE  /\ Head(Q[p]) \in Chunks /\ Full(Head(Q[p]), p)
           /\ Q' \in [Packages -> Seq(Chunks)]
           /\ \A q \in Packages \ {p} : Q'[q] = Q[q]
           /\ \E m, f : Inserted(Q[p], Q'[p], Head(Q[p]), m, f)
PROOF
<1>1. Q[p] \in Seq(Chunks) /\ Q \in [Packages -> Seq(Chunks)]
  BY DEF CTypeOK
<1>2. \E m, f : /\ Inserted(Q[p], Tail(Q[p]), Head(Q[p]), m, f)
                /\ Tail(Q[p]) \in Seq(Chunks) /\ Head(Q[p]) \in Chunks
  BY <1>1, TailRemoves
<1>3. Q'[p] = Tail(Q[p]) /\ (\A q \in Packages \ {p} : Q'[q] = Q[q])
  BY <1>1
<1>4. Q' \in [Packages -> Seq(Chunks)]
  BY <1>1, <1>2
<1>5. Full(Head(Q[p]), p)
  BY <1>2 DEF Inserted, QueuesInv
<1> QED BY <1>2, <1>3, <1>4, <1>5

LEMMA QueuesMore ==
    ASSUME QueuesInv, NEW p \in Packages, NEW c, NEW m, NEW f, Inserted(Q'[p], Q[p], c, m, f),
           \A q \in Packages \ {p} : Q'[q] = Q[q], Full(c, p)
    PROVE  QueuesInv'
PROOF BY DEF QueuesInv, Inserted, Full

LEMMA QueuesLess ==
    ASSUME QueuesInv, NEW p \in Packages, NEW c, NEW m, NEW f, Inserted(Q[p], Q'[p], c, m, f),
           \A q \in Packages \ {p} : Q'[q] = Q[q]
    PROVE  QueuesInv'
PROOF
<1>1. \A i \in DOMAIN Q'[p] : \E j \in DOMAIN Q[p] : Q[p][j] = Q'[p][i]
  BY DEF Inserted
<1> QED BY <1>1 DEF QueuesInv, Full

\* What others do leaves what u knows.
LEMMA OthersKnow ==
    ASSUME NEW u \in Threads, ThreadInv(u), isStack' = isStack, cur'[u] = cur[u], next'[u] = next[u],
           answer'[u] = answer[u], pc'[u] = pc[u], scan'[u] = scan[u],
           \A i \in DOMAIN Q'[PackageOf[u]] :
              \/ Q'[PackageOf[u]][i].by # u
              \/ \E j \in DOMAIN Q[PackageOf[u]] : Q[PackageOf[u]][j] = Q'[PackageOf[u]][i]
    PROVE  ThreadInv(u)'
PROOF BY DEF ThreadInv, Distinct

-----------------------------------------------------------------------------
(* Steps of OwnedWorkList.                                                 *)

LEMMA RefinedStutter ==
    ASSUME \A u \in Threads : Owned(u)' = Owned(u),
           answer' = answer, hand' = hand, pushed' = pushed, delivered' = delivered
    PROVE  UNCHANGED Abstract!vars
PROOF BY DEF Abstract!vars

LEMMA RefinedPush ==
    ASSUME NEW t \in Threads, NEW x \in Tasks \ pushed, answer[t] = "none",
           Owned(t)' = Owned(t) \cup {x}, \A u \in Threads \ {t} : Owned(u)' = Owned(u),
           answer' = answer, hand' = hand, pushed' = pushed \cup {x}, delivered' = delivered
    PROVE  Abstract!Next
PROOF
<1>1. [u \in Threads |-> Owned(u)']
        = [[u \in Threads |-> Owned(u)] EXCEPT ![t] = @ \cup {x}]
  OBVIOUS
<1>2. Abstract!PushRange(t, {x}) /\ {x} \in (SUBSET (Tasks \ pushed)) \ {{}}
  BY <1>1 DEF Abstract!PushRange
<1>3. Abstract!Push(t)
  BY <1>2 DEF Abstract!Push
<1> QED BY <1>3 DEF Abstract!Next

LEMMA RefinedPopOwn ==
    ASSUME NEW t \in Threads, NEW x \in Owned(t), answer[t] = "none",
           Owned(t)' = Owned(t) \ {x}, \A u \in Threads \ {t} : Owned(u)' = Owned(u),
           Found(t, x), pushed' = pushed, delivered' = delivered
    PROVE  Abstract!Next
PROOF
<1>1. [u \in Threads |-> Owned(u)']
        = [[u \in Threads |-> Owned(u)] EXCEPT ![t] = @ \ {x}]
  OBVIOUS
<1>2. Abstract!TakeOwn(t, x) /\ Abstract!Found(t, x)
  BY <1>1 DEF Abstract!TakeOwn, Abstract!Found, Found
<1>3. Abstract!PopOwn(t)
  BY <1>2 DEF Abstract!PopOwn
<1> QED BY <1>3 DEF Abstract!Next

\* OwnedWorkList counts like this module.
LEMMA SameCardinality == ASSUME NEW S PROVE Abstract!Cardinality(S) = Cardinality(S)
PROOF BY DEF Abstract!Cardinality, Cardinality

LEMMA RefinedPopStolen ==
    ASSUME NEW t \in Threads, NEW u \in Threads \ {t}, NEW batch \in SUBSET Owned(u),
           NEW x \in batch, Cardinality(batch) <= ChunkSize, answer[t] = "none",
           Owned(u)' = Owned(u) \ batch, Owned(t)' = Owned(t) \cup (batch \ {x}),
           \A w \in Threads \ {t, u} : Owned(w)' = Owned(w),
           Found(t, x), pushed' = pushed, delivered' = delivered
    PROVE  Abstract!Next
PROOF
<1>1. [w \in Threads |-> Owned(w)']
        = [[w \in Threads |-> Owned(w)] EXCEPT ![u] = @ \ batch,
                                               ![t] = @ \cup (batch \ {x})]
  OBVIOUS
<1>2. Abstract!TakeFrom(t, u, batch, x) /\ Abstract!Found(t, x)
  BY <1>1 DEF Abstract!TakeFrom, Abstract!Found, Found
<1>3. batch \in SUBSET ([w \in Threads |-> Owned(w)][u])
  OBVIOUS
<1>4. \E w \in Threads : \E b \in SUBSET ([y \in Threads |-> Owned(y)][w]) : \E y \in b :
         /\ Abstract!Cardinality(b) <= ChunkSize
         /\ Abstract!TakeFrom(t, w, b, y)
         /\ Abstract!Found(t, y)
  BY <1>2, <1>3, SameCardinality
<1>5. Abstract!PopStolen(t)
  BY <1>4 DEF Abstract!PopStolen
<1> QED BY <1>5 DEF Abstract!Next

LEMMA RefinedPopNothing ==
    ASSUME NEW t \in Threads, Owned(t) = {}, answer[t] = "none", Nothing(t),
           \A u \in Threads : Owned(u)' = Owned(u), pushed' = pushed, delivered' = delivered
    PROVE  Abstract!Next
PROOF
<1>1. [u \in Threads |-> Owned(u)'] = [u \in Threads |-> Owned(u)]
  OBVIOUS
<1>2. Abstract!PopNothing(t)
  BY <1>1 DEF Abstract!PopNothing, Abstract!TakeNothing, Nothing
<1> QED BY <1>2 DEF Abstract!Next

LEMMA RefinedReturn ==
    ASSUME NEW t \in Threads, answer[t] # "none", Return(t),
           \A u \in Threads : Owned(u)' = Owned(u)
    PROVE  Abstract!Next
PROOF
<1>1. [u \in Threads |-> Owned(u)'] = [u \in Threads |-> Owned(u)]
  OBVIOUS
<1>2. Abstract!Return(t)
  BY <1>1 DEF Abstract!Return, Return
<1> QED BY <1>2 DEF Abstract!Next

-----------------------------------------------------------------------------
(* The steps, one by one.                                                  *)

\* A step keeps the invariant, and the worklist allows it.
Sound == ChunkInv' /\ [Abstract!Next]_Abstract!vars

LEMMA PushSound ==
    ASSUME ChunkInv, NEW t \in Threads, Push(t), isStack' = isStack
    PROVE  Sound
PROOF
<1> USE DEF ChunkInv
<1>1. PICK x \in Tasks \ pushed : Emplace(t, x) /\ pushed' = pushed \cup {x}
  BY DEF Push
<1>2. /\ pc[t] = "idle" /\ cur' = cur /\ pc' = pc /\ scan' = scan /\ answer' = answer
      /\ hand' = hand /\ delivered' = delivered
  BY DEF Push
<1>3. /\ ThreadInv(t) /\ next \in [Threads -> Seq(Tasks)] /\ next[t] \in Seq(Tasks)
      /\ ChunkSize \in Nat /\ ChunkSize > 1 /\ Len(next[t]) \in Nat /\ answer[t] = "none"
  BY <1>2, ChunkAssumption DEF CTypeOK, ThreadInv
<1>4. x \notin ToSet(next[t])
  <2>1. x \in ToSet(next[t]) => InChunk("next", t, 0, x)
    BY DEF InChunk
  <2> QED BY <2>1 DEF Apart
<1>5. CASE Len(next[t]) < ChunkSize
  <2>1. next' = [next EXCEPT ![t] = Append(@, x)] /\ Q' = Q
    BY <1>1, <1>5 DEF Emplace
  <2>2. /\ next'[t] = Append(next[t], x) /\ \A u \in Threads \ {t} : next'[u] = next[u]
    BY <1>3, <2>1
  <2>3. /\ next'[t] \in Seq(Tasks) /\ Len(next'[t]) = Len(next[t]) + 1 /\ Distinct(next'[t])
        /\ ToSet(next'[t]) = ToSet(next[t]) \cup {x}
    BY <1>3, <1>4, <2>2, AppendFacts DEF ThreadInv
  <2>4. CTypeOK'
    BY <1>2, <1>3, <2>1, <2>2, <2>3 DEF CTypeOK
  <2>5. Apart' /\ QueuesInv'
    BY <1>1, <1>2, <2>1, <2>2, <2>3, ApartAppended DEF QueuesInv, Full
  <2>6. ThreadInv(t)'
    BY <1>2, <1>3, <1>5, <2>1, <2>3 DEF ThreadInv
  <2>7. \A u \in Threads \ {t} : ThreadInv(u)'
    BY <1>2, <2>1, <2>2, OthersKnow
  <2>8. \A u, y : HandedOut(u, y)' <=> HandedOut(u, y)
    BY <2>1 DEF HandedOut
  <2>9. Owned(t)' = Owned(t) \cup {x} /\ \A u \in Threads \ {t} : Owned(u)' = Owned(u)
    <3>1. \A u \in Threads : \A y : y \in Owned(u)' <=> y \in Owned(u) \/ (u = t /\ y = x)
      BY <1>2, <2>2, <2>3, <2>8, OwnedMember, OwnedMemberNext
    <3> QED BY <3>1
  <2> QED BY <1>1, <1>2, <1>3, <2>4, <2>5, <2>6, <2>7, <2>9, RefinedPush DEF Sound
<1>6. CASE ~(Len(next[t]) < ChunkSize)
  <2> DEFINE p == PackageOf[t]
             c == Chunk(t, next[t])
  <2>1. PushChunk(t, next[t]) /\ next' = [next EXCEPT ![t] = <<x>>]
    BY <1>1, <1>6 DEF Emplace
  <2>2. next'[t] = <<x>> /\ \A u \in Threads \ {t} : next'[u] = next[u]
    BY <1>3, <2>1
  <2>3. /\ <<x>> \in Seq(Tasks) /\ Len(<<x>>) = 1 /\ ToSet(<<x>>) = {x} /\ Distinct(<<x>>)
    BY DEF ToSet, Distinct
  <2>4. /\ p \in Packages /\ c \in Chunks /\ Q' \in [Packages -> Seq(Chunks)]
        /\ \A q \in Packages \ {p} : Q'[q] = Q[q]
        /\ \E m, f : Inserted(Q'[p], Q[p], c, m, f)
    BY <1>3, <2>1, PushedChunk
  <2>5. PICK m, f : Inserted(Q'[p], Q[p], c, m, f)
    BY <2>4
  <2>6. c.items = next[t] /\ c.by = t /\ Full(c, p)
    BY <1>3, <1>6 DEF Chunk, Full, ThreadInv
  <2> HIDE DEF c, p
  <2>7. CTypeOK'
    BY <1>2, <1>3, <2>1, <2>3, <2>4 DEF CTypeOK
  <2>8. Apart' /\ QueuesInv'
    BY <1>1, <1>2, <2>2, <2>4, <2>5, <2>6, ApartHandedOver, QueuesMore
  <2>9. ThreadInv(t)'
    BY <1>2, <1>3, <2>2, <2>3 DEF ThreadInv
  <2>10. ASSUME NEW u \in Threads \ {t} PROVE ThreadInv(u)'
    <3>1. \A i \in DOMAIN Q'[PackageOf[u]] :
            \/ Q'[PackageOf[u]][i].by # u
            \/ \E j \in DOMAIN Q[PackageOf[u]] : Q[PackageOf[u]][j] = Q'[PackageOf[u]][i]
      <4>1. PackageOf[u] \in Packages
        BY ChunkAssumption
      <4>2. CASE PackageOf[u] # p
        BY <2>4, <4>1, <4>2
      <4>3. CASE PackageOf[u] = p
        BY <2>5, <2>6, <4>3 DEF Inserted
      <4> QED BY <4>2, <4>3
    <3> QED BY <1>2, <2>2, <3>1, OthersKnow
  <2>11. \A u, y : HandedOut(u, y)' <=> HandedOut(u, y) \/ (u = t /\ y \in ToSet(next[t]))
    BY <2>4, <2>5, <2>6, HandedOutMore
  <2>12. Owned(t)' = Owned(t) \cup {x} /\ \A u \in Threads \ {t} : Owned(u)' = Owned(u)
    <3>1. \A u \in Threads : \A y : y \in Owned(u)' <=> y \in Owned(u) \/ (u = t /\ y = x)
      BY <1>2, <2>2, <2>3, <2>11, OwnedMember, OwnedMemberNext
    <3> QED BY <3>1
  <2> QED BY <1>1, <1>2, <1>3, <2>7, <2>8, <2>9, <2>10, <2>12, RefinedPush DEF Sound
<1> QED BY <1>5, <1>6

LEMMA PopFastSound ==
    ASSUME ChunkInv, NEW t \in Threads, PopFast(t), isStack' = isStack
    PROVE  Sound
PROOF
<1> USE DEF ChunkInv
<1>1. /\ ThreadInv(t) /\ pc[t] = "idle" /\ answer[t] = "none" /\ Q' = Q /\ scan' = scan
      /\ pushed' = pushed /\ delivered' = delivered
      /\ cur[t] \in Seq(Tasks) /\ next[t] \in Seq(Tasks)
  BY DEF PopFast, ThreadInv, historyVars, CTypeOK
<1>2. QueuesInv' /\ \A u, y : HandedOut(u, y)' <=> HandedOut(u, y)
  BY <1>1 DEF QueuesInv, Full, HandedOut
<1>3. CASE isStack
  <2> DEFINE x == Last(next[t])
  <2>1. next[t] # <<>> /\ Found(t, x) /\ next' = [next EXCEPT ![t] = Front(@)] /\ cur' = cur
    BY <1>3 DEF PopFast
  <2>2. next'[t] = Front(next[t]) /\ \A u \in Threads \ {t} : next'[u] = next[u]
    BY <2>1 DEF CTypeOK
  <2>3. /\ next'[t] \in Seq(Tasks) /\ x \in ToSet(next[t]) /\ x \in Tasks
        /\ ToSet(next'[t]) = ToSet(next[t]) \ {x}
        /\ Distinct(next'[t]) /\ Len(next'[t]) <= Len(next[t])
    BY <1>1, <2>1, <2>2, LastTaken DEF ThreadInv
  <2> HIDE DEF x
  <2>4. CTypeOK'
    BY <1>1, <2>1, <2>2, <2>3 DEF CTypeOK, Found, Goto
  <2>5. Apart'
    BY <1>1, <2>1, <2>2, <2>3, ApartShrinks
  <2>6. ThreadInv(t)'
    <3>1. Len(next'[t]) <= ChunkSize
      BY <1>1, <2>3, ChunkAssumption DEF ThreadInv
    <3> QED BY <1>1, <2>1, <2>3, <3>1 DEF ThreadInv, Found, Goto, CTypeOK
  <2>7. ASSUME NEW u \in Threads \ {t} PROVE ThreadInv(u)'
    BY <1>1, <2>1, <2>2, OthersKnow DEF Found, Goto, CTypeOK
  <2>8. x \in Owned(t) /\ Owned(t)' = Owned(t) \ {x} /\ \A u \in Threads \ {t} : Owned(u)' = Owned(u)
    <3>1. \A u \in Threads : x \notin ToSet(cur[u]) /\ ~HandedOut(u, x)
      BY <2>3 DEF Apart, InChunk, HandedOut
    <3>2. x \in Owned(t)
      BY <2>3, OwnedMember
    <3>3. \A u \in Threads \ {t} : \A y : y \in Owned(u)' <=> y \in Owned(u)
      BY <1>2, <2>1, <2>2, <2>3, <3>1, OwnedMember, OwnedMemberNext
    <3>4. \A y : y \in Owned(t)' <=> y \in Owned(t) /\ y # x
      BY <1>2, <2>1, <2>2, <2>3, <3>1, OwnedMember, OwnedMemberNext
    <3> QED BY <3>2, <3>3, <3>4
  <2> QED BY <1>1, <1>2, <2>1, <2>4, <2>5, <2>6, <2>7, <2>8, RefinedPopOwn DEF Sound
<1>4. CASE ~isStack
  <2> DEFINE x == Head(cur[t])
  <2>1. cur[t] # <<>> /\ Found(t, x) /\ cur' = [cur EXCEPT ![t] = Tail(@)] /\ next' = next
    BY <1>4 DEF PopFast
  <2>2. cur'[t] = Tail(cur[t]) /\ \A u \in Threads \ {t} : cur'[u] = cur[u]
    BY <2>1 DEF CTypeOK
  <2>3. /\ cur'[t] \in Seq(Tasks) /\ x \in ToSet(cur[t]) /\ x \in Tasks
        /\ ToSet(cur'[t]) = ToSet(cur[t]) \ {x} /\ Distinct(cur'[t])
    BY <1>1, <2>1, <2>2, TailFacts, FirstTaken DEF ThreadInv
  <2> HIDE DEF x
  <2>4. CTypeOK'
    BY <1>1, <2>1, <2>2, <2>3 DEF CTypeOK, Found, Goto
  <2>5. Apart'
    BY <1>1, <2>1, <2>2, <2>3, ApartShrinks
  <2>6. ThreadInv(t)'
    BY <1>1, <1>4, <2>1, <2>3 DEF ThreadInv, Found, Goto, CTypeOK
  <2>7. ASSUME NEW u \in Threads \ {t} PROVE ThreadInv(u)'
    BY <1>1, <2>1, <2>2, OthersKnow DEF Found, Goto, CTypeOK
  <2>8. x \in Owned(t) /\ Owned(t)' = Owned(t) \ {x} /\ \A u \in Threads \ {t} : Owned(u)' = Owned(u)
    <3>1. \A u \in Threads : x \notin ToSet(next[u]) /\ ~HandedOut(u, x)
      BY <2>3 DEF Apart, InChunk, HandedOut
    <3>2. x \in Owned(t)
      BY <2>3, OwnedMember
    <3>3. \A u \in Threads \ {t} : \A y : y \in Owned(u)' <=> y \in Owned(u)
      BY <1>2, <2>1, <2>2, <2>3, <3>1, OwnedMember, OwnedMemberNext
    <3>4. \A y : y \in Owned(t)' <=> y \in Owned(t) /\ y # x
      BY <1>2, <2>1, <2>2, <2>3, <3>1, OwnedMember, OwnedMemberNext
    <3> QED BY <3>2, <3>3, <3>4
  <2> QED BY <1>1, <1>2, <2>1, <2>4, <2>5, <2>6, <2>7, <2>8, RefinedPopOwn DEF Sound
<1> QED BY <1>3, <1>4

LEMMA PopSlowSound ==
    ASSUME ChunkInv, NEW t \in Threads, PopSlow(t), isStack' = isStack
    PROVE  Sound
PROOF
<1> USE DEF ChunkInv
<1>1. /\ pc[t] = "idle" /\ cur' = cur /\ next' = next /\ Q' = Q /\ answer' = answer /\ hand' = hand
      /\ pushed' = pushed /\ delivered' = delivered /\ scan' = [scan EXCEPT ![t] = 0]
      /\ pc' = [pc EXCEPT ![t] = "scan"] /\ IF isStack THEN next[t] = <<>> ELSE cur[t] = <<>>
  BY DEF PopSlow, chunkVars, historyVars, Goto
<1>2. CTypeOK'
  BY <1>1, ChunkAssumption DEF CTypeOK
<1>3. Apart' /\ QueuesInv'
  BY <1>1 DEF Apart, InChunk, QueuesInv, Full
<1>4. ThreadInv(t)'
  BY <1>1 DEF ThreadInv, Distinct, CTypeOK
<1>5. \A u \in Threads \ {t} : ThreadInv(u)'
  BY <1>1, OthersKnow DEF CTypeOK
<1>6. \A u \in Threads : Owned(u)' = Owned(u)
  BY <1>1 DEF Owned
<1>7. UNCHANGED Abstract!vars
  BY <1>1, <1>6, RefinedStutter
<1> QED BY <1>1, <1>2, <1>3, <1>4, <1>5, <1>7 DEF Sound

\* A chunk that is taken from the queue leaves the hands of who has filled it.
LEMMA ChunkMoves ==
    ASSUME ChunkInv, NEW t \in Threads, NEW p \in Packages, NEW c \in Chunks, NEW m, NEW f,
           Inserted(Q[p], Q'[p], c, m, f), \A q \in Packages \ {p} : Q'[q] = Q[q], Full(c, p),
           \A w \in Threads \ {t} : cur'[w] = cur[w] /\ next'[w] = next[w],
           NEW x \in ToSet(c.items),
           \A y : y \in ToSet(cur'[t]) \/ y \in ToSet(next'[t])
                    <=> y \in ToSet(cur[t]) \/ y \in ToSet(next[t]) \/ (y \in ToSet(c.items) /\ y # x),
           answer[t] = "none", Found(t, x), pushed' = pushed, delivered' = delivered
    PROVE  Abstract!Next
PROOF
<1> DEFINE batch == ToSet(c.items)
           u == c.by
<1>1. u \in Threads /\ c.items \in Seq(Tasks) /\ Len(c.items) <= ChunkSize
  BY DEF Chunks, Full
<1>2. \A y \in batch : InChunk("queue", p, m, y) /\ HandedOut(u, y)
  BY DEF InChunk, Inserted, HandedOut
<1>3. ASSUME NEW y \in batch, NEW w \in Threads
      PROVE  /\ y \notin ToSet(cur[w]) /\ y \notin ToSet(next[w])
             /\ w # u => ~HandedOut(w, y)
  <2>1. y \notin ToSet(cur[w]) /\ y \notin ToSet(next[w])
    BY <1>2 DEF ChunkInv, Apart, InChunk
  <2>2. ASSUME HandedOut(w, y) PROVE w = u
    <3>1. PICK q \in Packages : \E i \in DOMAIN Q[q] : Q[q][i].by = w /\ y \in ToSet(Q[q][i].items)
      BY <2>2 DEF HandedOut
    <3>2. PICK i \in DOMAIN Q[q] : Q[q][i].by = w /\ y \in ToSet(Q[q][i].items)
      BY <3>1
    <3>3. InChunk("queue", q, i, y)
      BY <3>2 DEF InChunk
    <3>4. q = p /\ i = m
      BY <1>2, <3>3 DEF ChunkInv, Apart
    <3> QED BY <3>2, <3>4 DEF Inserted
  <2> QED BY <2>1, <2>2
<1>4. \A w, y : HandedOut(w, y)' <=> HandedOut(w, y) /\ y \notin batch
  BY HandedOutLess DEF ChunkInv
<1>5. batch \subseteq Owned(u)
  BY <1>2, OwnedMember
<1> HIDE DEF batch, u
<1>6. CASE u = t
  <2>1. \A y : y \in Owned(t)' <=> y \in Owned(t) /\ y # x
    BY <1>2, <1>3, <1>4, <1>6, OwnedMember, OwnedMemberNext DEF batch
  <2>2. \A w \in Threads \ {t} : \A y : y \in Owned(w)' <=> y \in Owned(w)
    BY <1>3, <1>4, <1>6, OwnedMember, OwnedMemberNext
  <2>3. Owned(t)' = Owned(t) \ {x} /\ \A w \in Threads \ {t} : Owned(w)' = Owned(w)
    BY <2>1, <2>2
  <2> QED BY <1>5, <1>6, <2>3, RefinedPopOwn DEF batch
<1>7. CASE u # t
  <2>1. \A y : y \in Owned(t)' <=> y \in Owned(t) \/ (y \in batch /\ y # x)
    BY <1>3, <1>4, <1>7, OwnedMember, OwnedMemberNext DEF batch
  <2>2. \A y : y \in Owned(u)' <=> y \in Owned(u) /\ y \notin batch
    BY <1>1, <1>3, <1>4, <1>7, OwnedMember, OwnedMemberNext DEF u
  <2>3. \A w \in Threads \ {t, u} : \A y : y \in Owned(w)' <=> y \in Owned(w)
    BY <1>3, <1>4, OwnedMember, OwnedMemberNext
  <2>4. /\ Owned(t)' = Owned(t) \cup (batch \ {x}) /\ Owned(u)' = Owned(u) \ batch
        /\ \A w \in Threads \ {t, u} : Owned(w)' = Owned(w)
    BY <2>1, <2>2, <2>3
  <2>5. Cardinality(batch) <= ChunkSize
    <3>1. Cardinality(batch) <= Len(c.items) /\ Len(c.items) \in Nat /\ ChunkSize \in Nat
      BY <1>1, ChunkBound, ChunkAssumption DEF batch
    <3>2. IsFiniteSet(batch)
      <4>1. DOMAIN c.items = 1..Len(c.items) /\ c.items \in Surjection(DOMAIN c.items, batch)
        BY <1>1 DEF Surjection, ToSet, batch
      <4> QED BY <3>1, <4>1, FS_Interval, FS_Surjection
    <3>3. Cardinality(batch) \in Nat
      BY <3>2, FS_CardinalityType
    <3> QED BY <1>1, <3>1, <3>3
  <2> QED BY <1>1, <1>5, <1>7, <2>4, <2>5, RefinedPopStolen DEF batch, u
<1> QED BY <1>6, <1>7

LEMMA PopChunkSound ==
    ASSUME ChunkInv, NEW t \in Threads, PopChunk(t), isStack' = isStack
    PROVE  Sound
PROOF
<1> DEFINE p == QueueToScan(t)
           c == Head(Q[p])
<1>1. /\ p \in Packages /\ (scan[t] = 0 => p = PackageOf[t]) /\ ThreadInv(t)
      /\ PackageOf[t] \in Packages
  BY ScannedQueue, ChunkAssumption DEF ChunkInv
<1>2. /\ pc[t] = "scan" /\ scan[t] < PackageCount /\ pushed' = pushed /\ delivered' = delivered
      /\ answer[t] = "none" /\ scan[t] \in 0..PackageCount /\ PackageCount \in Nat
      /\ IF isStack THEN next[t] = <<>> ELSE cur[t] = <<>>
      /\ isStack => cur[t] = <<>>
  BY <1>1, ChunkAssumption DEF PopChunk, historyVars, ThreadInv, ChunkInv, CTypeOK
<1>3. CASE Q[p] = <<>>
  <2>1. /\ scan' = [scan EXCEPT ![t] = @ + 1] /\ cur' = cur /\ next' = next /\ Q' = Q /\ pc' = pc
        /\ answer' = answer /\ hand' = hand
    BY <1>3 DEF PopChunk, chunkVars
  <2>2. scan'[t] \in 0..PackageCount /\ \A u \in Threads \ {t} : scan'[u] = scan[u]
    BY <1>2, <2>1 DEF ChunkInv, CTypeOK
  <2>3. CTypeOK'
    BY <2>1, <2>2 DEF ChunkInv, CTypeOK
  <2>4. Apart' /\ QueuesInv'
    BY <1>2, <2>1 DEF ChunkInv, Apart, InChunk, QueuesInv, Full
  <2>5. \A i \in DOMAIN Q[PackageOf[t]] : Q[PackageOf[t]][i].by # t
    <3>1. CASE scan[t] = 0
      <4>1. DOMAIN Q[PackageOf[t]] = 1..0
        BY <1>1, <1>3, <3>1
      <4> QED BY <4>1
    <3>2. CASE scan[t] > 0
      BY <1>1, <1>2, <3>2 DEF ThreadInv
    <3> QED BY <1>2, <3>1, <3>2
  <2>6. ThreadInv(t)'
    BY <1>1, <2>1, <2>5 DEF ThreadInv, Distinct
  <2>7. \A u \in Threads \ {t} : ThreadInv(u)'
    BY <2>1, <2>2, OthersKnow DEF ChunkInv
  <2>8. \A u \in Threads : Owned(u)' = Owned(u)
    BY <2>1 DEF Owned
  <2>9. UNCHANGED Abstract!vars
    BY <1>2, <2>1, <2>8, RefinedStutter
  <2> QED BY <2>3, <2>4, <2>6, <2>7, <2>9 DEF Sound, ChunkInv
<1>4. CASE Q[p] # <<>>
  <2>1. /\ Q' = [Q EXCEPT ![p] = Tail(@)] /\ scan' = scan
    BY <1>4 DEF PopChunk
  <2>2. /\ c \in Chunks /\ Full(c, p) /\ Q' \in [Packages -> Seq(Chunks)]
        /\ \A q \in Packages \ {p} : Q'[q] = Q[q]
        /\ \E m, f : Inserted(Q[p], Q'[p], c, m, f)
    BY <1>1, <1>4, <2>1, PoppedChunk DEF ChunkInv
  <2>3. PICK m, f : Inserted(Q[p], Q'[p], c, m, f)
    BY <2>2
  <2>4. c.items \in Seq(Tasks) /\ c.items # <<>> /\ Distinct(c.items) /\ Len(c.items) <= ChunkSize
    BY <2>2 DEF Chunks, Full
  <2>5. QueuesInv'
    BY <1>1, <2>2, <2>3, QueuesLess DEF ChunkInv
  <2>6. ASSUME NEW u \in Threads
        PROVE  \A i \in DOMAIN Q'[PackageOf[u]] :
                  \E j \in DOMAIN Q[PackageOf[u]] : Q[PackageOf[u]][j] = Q'[PackageOf[u]][i]
    <3>1. PackageOf[u] \in Packages
      BY ChunkAssumption
    <3>2. CASE PackageOf[u] # p
      BY <2>2, <3>1, <3>2
    <3>3. CASE PackageOf[u] = p
      BY <2>3, <3>3 DEF Inserted
    <3> QED BY <3>2, <3>3
  <2>7. ToSet(<<>>) = {}
    BY DEF ToSet
  <2>8. CASE isStack
    <3> DEFINE x == Last(c.items)
    <3>1. next' = [next EXCEPT ![t] = Front(c.items)] /\ cur' = cur /\ Found(t, x)
      BY <1>4, <2>8 DEF PopChunk
    <3>2. /\ next'[t] = Front(c.items) /\ \A u \in Threads \ {t} : next'[u] = next[u]
      BY <3>1 DEF ChunkInv, CTypeOK
    <3>3. /\ next'[t] \in Seq(Tasks) /\ x \in ToSet(c.items) /\ x \in Tasks
          /\ ToSet(next'[t]) = ToSet(c.items) \ {x}
          /\ Distinct(next'[t]) /\ Len(next'[t]) <= Len(c.items)
      BY <2>4, <3>2, LastTaken
    <3> HIDE DEF x, c, p
    <3>4. CTypeOK'
      BY <2>1, <2>2, <3>1, <3>2, <3>3 DEF ChunkInv, CTypeOK, Found, Goto
    <3>5. Apart'
      BY <1>1, <1>2, <2>2, <2>3, <3>1, <3>2, <3>3, ApartTaken DEF ChunkInv
    <3>6. ThreadInv(t)'
      <4>1. Len(next'[t]) <= ChunkSize
        BY <2>4, <3>3, ChunkAssumption
      <4> QED BY <1>1, <2>1, <2>8, <3>1, <3>3, <4>1 DEF ThreadInv, Found, Goto, ChunkInv, CTypeOK
    <3>7. ASSUME NEW u \in Threads \ {t} PROVE ThreadInv(u)'
      <4>1. answer'[u] = answer[u] /\ pc'[u] = pc[u] /\ scan'[u] = scan[u]
        BY <2>1, <3>1 DEF Found, Goto, ChunkInv, CTypeOK
      <4>2. cur'[u] = cur[u] /\ next'[u] = next[u] /\ ThreadInv(u)
        BY <3>1, <3>2 DEF ChunkInv
      <4> QED BY <2>6, <4>1, <4>2, OthersKnow
    <3>8. Abstract!Next
      BY <1>1, <1>2, <2>2, <2>3, <2>7, <2>8, <3>1, <3>2, <3>3, ChunkMoves
    <3> QED BY <2>5, <3>4, <3>5, <3>6, <3>7, <3>8 DEF Sound, ChunkInv
  <2>9. CASE ~isStack
    <3> DEFINE x == Head(c.items)
    <3>1. cur' = [cur EXCEPT ![t] = Tail(c.items)] /\ next' = next /\ Found(t, x)
      BY <1>4, <2>9 DEF PopChunk
    <3>2. /\ cur'[t] = Tail(c.items) /\ \A u \in Threads \ {t} : cur'[u] = cur[u]
      BY <3>1 DEF ChunkInv, CTypeOK
    <3>3. /\ cur'[t] \in Seq(Tasks) /\ x \in ToSet(c.items) /\ x \in Tasks
          /\ ToSet(cur'[t]) = ToSet(c.items) \ {x} /\ Distinct(cur'[t])
      BY <2>4, <3>2, TailFacts, FirstTaken
    <3> HIDE DEF x, c, p
    <3>4. CTypeOK'
      BY <2>1, <2>2, <3>1, <3>2, <3>3 DEF ChunkInv, CTypeOK, Found, Goto
    <3>5. Apart'
      BY <1>1, <1>2, <2>2, <2>3, <3>1, <3>2, <3>3, ApartTaken DEF ChunkInv
    <3>6. ThreadInv(t)'
      BY <1>1, <2>1, <2>9, <3>1, <3>3 DEF ThreadInv, Found, Goto, ChunkInv, CTypeOK
    <3>7. ASSUME NEW u \in Threads \ {t} PROVE ThreadInv(u)'
      <4>1. answer'[u] = answer[u] /\ pc'[u] = pc[u] /\ scan'[u] = scan[u]
        BY <2>1, <3>1 DEF Found, Goto, ChunkInv, CTypeOK
      <4>2. cur'[u] = cur[u] /\ next'[u] = next[u] /\ ThreadInv(u)
        BY <3>1, <3>2 DEF ChunkInv
      <4> QED BY <2>6, <4>1, <4>2, OthersKnow
    <3>8. Abstract!Next
      BY <1>1, <1>2, <2>2, <2>3, <2>7, <2>9, <3>1, <3>2, <3>3, ChunkMoves
    <3> QED BY <2>5, <3>4, <3>5, <3>6, <3>7, <3>8 DEF Sound, ChunkInv
  <2> QED BY <2>8, <2>9
<1> QED BY <1>3, <1>4

LEMMA NoChunkSound ==
    ASSUME ChunkInv, NEW t \in Threads, NoChunk(t), isStack' = isStack
    PROVE  Sound
PROOF
<1> USE DEF ChunkInv
<1>1. /\ pc[t] = "scan" /\ scan[t] = PackageCount /\ scan' = scan /\ pushed' = pushed
      /\ delivered' = delivered /\ ThreadInv(t) /\ answer[t] = "none" /\ Q' = Q
      /\ IF isStack THEN next[t] = <<>> ELSE cur[t] = <<>>
      /\ isStack => cur[t] = <<>>
  BY DEF NoChunk, Nothing, chunkVars, historyVars, ThreadInv
<1>2. \A i \in DOMAIN Q[PackageOf[t]] : Q[PackageOf[t]][i].by # t
  BY <1>1, ChunkAssumption DEF ThreadInv
<1>3. \A y : ~HandedOut(t, y)
  BY <1>2 DEF HandedOut, QueuesInv, Full
<1>4. /\ QueuesInv' /\ ToSet(<<>>) = {} /\ \A u, y : HandedOut(u, y)' <=> HandedOut(u, y)
  BY <1>1 DEF QueuesInv, Full, HandedOut, ToSet
<1>5. CASE isStack \/ next[t] = <<>>
  <2>1. Nothing(t) /\ cur' = cur /\ next' = next
    BY <1>5 DEF NoChunk, Nothing, chunkVars
  <2>2. CTypeOK'
    BY <1>1, <2>1 DEF CTypeOK, Nothing, Goto
  <2>3. Apart'
    BY <1>1, <2>1 DEF Apart, InChunk
  <2>4. ThreadInv(t)'
    BY <1>1, <2>1 DEF ThreadInv, Distinct, Nothing, Goto, CTypeOK
  <2>5. \A u \in Threads \ {t} : ThreadInv(u)'
    BY <1>1, <2>1, OthersKnow DEF Nothing, Goto, CTypeOK
  <2>6. \A u \in Threads : Owned(u)' = Owned(u)
    BY <1>1, <2>1 DEF Owned
  <2>7. Owned(t) = {}
    <3>1. cur[t] = <<>> /\ next[t] = <<>>
      BY <1>1, <1>5
    <3>2. \A y : y \notin Owned(t)
      BY <1>3, <1>4, <3>1, OwnedMember
    <3> QED BY <3>2
  <2>8. Abstract!Next
    BY <1>1, <2>1, <2>6, <2>7, RefinedPopNothing
  <2> QED BY <1>4, <2>2, <2>3, <2>4, <2>5, <2>8 DEF Sound
<1>6. CASE ~isStack /\ next[t] # <<>>
  <2> DEFINE x == Head(next[t])
  <2>1. /\ Found(t, x) /\ cur' = [cur EXCEPT ![t] = Tail(next[t])]
        /\ next' = [next EXCEPT ![t] = <<>>]
    BY <1>6 DEF NoChunk
  <2>2. /\ cur'[t] = Tail(next[t]) /\ next'[t] = <<>>
        /\ \A u \in Threads \ {t} : cur'[u] = cur[u] /\ next'[u] = next[u]
    BY <2>1 DEF CTypeOK
  <2>3. /\ cur'[t] \in Seq(Tasks) /\ x \in ToSet(next[t]) /\ x \in Tasks
        /\ ToSet(cur'[t]) = ToSet(next[t]) \ {x} /\ Distinct(cur'[t])
    <3>1. next[t] \in Seq(Tasks) /\ Distinct(next[t])
      BY <1>1 DEF CTypeOK, ThreadInv
    <3> QED BY <1>6, <2>2, <3>1, TailFacts, FirstTaken
  <2>4. <<>> \in Seq(Tasks) /\ Len(<<>>) = 0 /\ Distinct(<<>>)
    BY EmptyChunk
  <2> HIDE DEF x
  <2>5. CTypeOK'
    BY <1>1, <2>1, <2>3, <2>4 DEF CTypeOK, Found, Goto
  <2>6. Apart'
    BY <1>1, <1>4, <2>2, <2>3, ApartTurned
  <2>7. ThreadInv(t)'
    BY <1>1, <1>6, <2>1, <2>2, <2>3, <2>4, ChunkAssumption DEF ThreadInv, Found, Goto, CTypeOK
  <2>8. ASSUME NEW u \in Threads \ {t} PROVE ThreadInv(u)'
    BY <1>1, <2>1, <2>2, OthersKnow DEF Found, Goto, CTypeOK
  <2>9. x \in Owned(t) /\ Owned(t)' = Owned(t) \ {x} /\ \A u \in Threads \ {t} : Owned(u)' = Owned(u)
    <3>1. x \in Owned(t)
      BY <2>3, OwnedMember
    <3>2. \A u \in Threads \ {t} : \A y : y \in Owned(u)' <=> y \in Owned(u)
      BY <1>4, <2>2, OwnedMember, OwnedMemberNext
    <3>3. \A y : y \in Owned(t)' <=> y \in Owned(t) /\ y # x
      BY <1>1, <1>3, <1>4, <1>6, <2>2, <2>3, OwnedMember, OwnedMemberNext
    <3> QED BY <3>1, <3>2, <3>3
  <2>10. Abstract!Next
    BY <1>1, <2>1, <2>9, RefinedPopOwn
  <2> QED BY <1>4, <2>5, <2>6, <2>7, <2>8, <2>10 DEF Sound
<1> QED BY <1>5, <1>6

LEMMA ReturnSound ==
    ASSUME ChunkInv, NEW t \in Threads, Return(t), isStack' = isStack
    PROVE  Sound
PROOF
<1> USE DEF ChunkInv
<1>1. /\ pc[t] = "return" /\ cur' = cur /\ next' = next /\ Q' = Q /\ scan' = scan
      /\ pushed' = pushed /\ ThreadInv(t) /\ answer[t] # "none"
  BY DEF Return, chunkVars, ThreadInv
<1>2. CTypeOK'
  BY <1>1 DEF CTypeOK, Return, Goto
<1>3. Apart' /\ QueuesInv'
  BY <1>1 DEF Apart, InChunk, QueuesInv, Full
<1>4. ThreadInv(t)'
  BY <1>1 DEF ThreadInv, Distinct, Return, Goto, CTypeOK
<1>5. \A u \in Threads \ {t} : ThreadInv(u)'
  BY <1>1, OthersKnow DEF Return, Goto, CTypeOK
<1>6. \A u \in Threads : Owned(u)' = Owned(u)
  BY <1>1 DEF Owned
<1>7. Abstract!Next
  BY <1>1, <1>6, RefinedReturn
<1> QED BY <1>2, <1>3, <1>4, <1>5, <1>7 DEF Sound

LEMMA StutterSound == ASSUME ChunkInv, UNCHANGED vars PROVE Sound
PROOF
<1>1. ChunkInv'
  BY DEF vars, chunkVars, historyVars, ChunkInv, CTypeOK, Apart, InChunk, QueuesInv, Full, ThreadInv,
         Distinct
<1>2. \A u \in Threads : Owned(u)' = Owned(u)
  BY DEF vars, chunkVars, Owned
<1>3. UNCHANGED Abstract!vars
  BY <1>2, RefinedStutter DEF vars, historyVars
<1> QED BY <1>1, <1>3 DEF Sound

LEMMA StepSound == ASSUME ChunkInv, [Next]_vars PROVE Sound
PROOF
<1>1. CASE UNCHANGED vars
  BY <1>1, StutterSound
<1>2. CASE Next
  <2>1. PICK t \in Threads : Push(t) \/ Pop(t)
    BY <1>2 DEF Next
  <2>2. isStack' = isStack
    BY <1>2 DEF Next
  <2> QED BY <2>1, <2>2, PushSound, PopFastSound, PopSlowSound, PopChunkSound, NoChunkSound,
             ReturnSound DEF Pop
<1> QED BY <1>1, <1>2

-----------------------------------------------------------------------------
(* The initial states.                                                     *)

LEMMA InitSound == ASSUME Init PROVE ChunkInv /\ Abstract!Init
PROOF
<1>1. /\ <<>> \in Seq(Tasks) /\ <<>> \in Seq(Chunks) /\ Len(<<>>) = 0 /\ Distinct(<<>>)
      /\ ToSet(<<>>) = {} /\ DOMAIN <<>> = {}
  BY EmptyChunk
<1>2. /\ \A t \in Threads : cur[t] = <<>> /\ next[t] = <<>>
      /\ \A p \in Packages : Q[p] = <<>>
  BY DEF Init
<1>3. CTypeOK
  BY <1>1, ChunkAssumption DEF Init, CTypeOK
<1>4. Apart
  BY <1>1, <1>2 DEF Apart, InChunk
<1>5. QueuesInv
  BY <1>1, <1>2 DEF QueuesInv
<1>6. ASSUME NEW t \in Threads PROVE ThreadInv(t)
  BY <1>1, <1>2, ChunkAssumption DEF ThreadInv, Init
<1>7. ASSUME NEW t \in Threads PROVE Owned(t) = {}
  <2>1. \A y : ~HandedOut(t, y)
    BY <1>1, <1>2 DEF HandedOut
  <2>2. \A y : y \notin Owned(t)
    BY <1>1, <1>2, <2>1, OwnedMember
  <2> QED BY <2>2
<1>8. Abstract!Init
  BY <1>7 DEF Abstract!Init, Init
<1> QED BY <1>3, <1>4, <1>5, <1>6, <1>8 DEF ChunkInv

(* An item is in one chunk at a time, a chunk in a queue is in that of its   *)
(* package, and a pop that looks at the queues of others has nothing of its  *)
(* own left in its own one.                                                  *)
THEOREM ChunkInvariant == Spec => []ChunkInv
PROOF
<1>1. Init => ChunkInv
  BY InitSound
<1>2. ChunkInv /\ [Next]_vars => ChunkInv'
  BY StepSound DEF Sound
<1> QED BY <1>1, <1>2, PTL DEF Spec

(* ChunkedMaster keeps the promise of OwnedWorkList, however chunks travel   *)
(* between threads: a pop returns an item of its thread's own, or takes a    *)
(* whole chunk of another thread in one step, and answers that there is      *)
(* nothing only when its thread has nothing left in any chunk or queue.      *)
THEOREM ChunksImplementWorkList == Spec => ImplementsWorkList
PROOF
<1>1. Init => Abstract!Init
  BY InitSound
<1>2. ChunkInv /\ [Next]_vars => [Abstract!Next]_Abstract!vars
  BY StepSound DEF Sound
<1> QED BY <1>1, <1>2, ChunkInvariant, PTL DEF Spec, ImplementsWorkList, Abstract!Spec
=============================================================================
