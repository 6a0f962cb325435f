-------------------------- MODULE ObjectPoolProofs --------------------------
(***************************************************************************)
(* The safety of ObjectPool for any number of threads, and any sizes of    *)
(* page, chunk and object.  PoolInv is inductive: which thread may cut     *)
(* (MutexInv), where the chunks lie (ChunkInv), where in them the objects  *)
(* start (StartInv), and how many objects there are (CountInv).            *)
(***************************************************************************)
EXTENDS ObjectPool, FiniteSetTheorems, FunctionTheorems, SequenceTheorems, TLAPS

Elems(q) == {q[i] : i \in DOMAIN q}

\* A step of a thread.
StepOf(t) ==
    \/ GenerateObject(t) \/ PopEntry(t) \/ Wait(t) \/ QueryDepth(t)
    \/ Allocate(t) \/ PopMemory(t) \/ PushEntry(t)
    \/ FreeObject(t) \/ Push(t) \/ Leave(t) \/ TakeOver(t)

Lent   == {t \in Threads : object[t] # Null}

\* The objects there are, free or lent.
Starts == Elems(UnAllocateObjectList) \cup {object[t] : t \in Lent} \cup kept

\* Two chunks share no byte.
Clear(c, d)  == c[1] = d[1] => c[2] + GroupSize <= d[2] \/ d[2] + GroupSize <= c[2]
\* An object starts in a chunk.
Inside(a, c) == a[1] = c[1] /\ c[2] <= a[2] /\ a[2] < c[2] + GroupSize
\* It ends in it too.
Fits(a, c)   == a[2] + TypeSize <= c[2] + GroupSize

\* call_once lets one thread make the pools; later the mutex lets one cut.
MutexInv ==
    /\ initFlag = "none" => /\ \A t \in Threads : pc[t] = "Idle"
                            /\ AllocationMutex = NoThread
                            /\ UnAllocateMemory = <<>> /\ HeadMemory = <<>>
                            /\ Memories = 0
    /\ initFlag # "done" => kept = {}
    /\ initFlag = "running" =>
         /\ AllocationMutex = NoThread
         /\ \A t \in Threads : pc[t] = "Idle" \/ Cutting(t)
         /\ \A s, t \in Threads : Cutting(s) /\ Cutting(t) => s = t
    /\ initFlag = "done" =>
         \A t \in Threads : Cutting(t) \/ pc[t] = "QueryDepth" => AllocationMutex = t

\* A thread has an object from its pop to its push.
LentInv == \A t \in Threads : pc[t] \in {"Using", "Push"} <=> object[t] # Null

\* No chunk is met twice, in the queue or among those that were cut.
ChunksClear ==
    LET q == UnAllocateMemory
        h == HeadMemory
    IN  /\ \A i, j \in DOMAIN q : i # j => Clear(q[i], q[j])
        /\ \A i, j \in DOMAIN h : i # j => Clear(h[i], h[j])
        /\ \A i \in DOMAIN q, j \in DOMAIN h : Clear(q[i], h[j])

ChunkInv ==
    /\ \A c \in Elems(UnAllocateMemory) \cup Elems(HeadMemory) :
         c[1] <= Memories /\ c[2] + GroupSize <= Size
    /\ ChunksClear
    /\ \A t \in Threads : pc[t] = "PopMemory" =>
         UnAllocateMemory # <<>> /\ memory[t] = Head(UnAllocateMemory)
    /\ \A t \in Threads : pc[t] = "PushEntry" =>
         HeadMemory # <<>> /\ memory[t] = HeadMemory[Len(HeadMemory)]

\* No object is met twice, free or lent.
StartsDiffer ==
    LET free == UnAllocateObjectList
    IN  /\ \A i, j \in DOMAIN free : i # j => free[i] # free[j]
        /\ \A s, t \in Lent : s # t => object[s] # object[t]
        /\ \A t \in Lent, i \in DOMAIN free : object[t] # free[i]
        /\ \A t \in Lent : object[t] \notin kept
        /\ \A i \in DOMAIN free : free[i] \notin kept

StartInv ==
    /\ \A a \in Starts : \E i \in DOMAIN HeadMemory : Inside(a, HeadMemory[i])
    /\ \A a, b \in Starts, i \in DOMAIN HeadMemory :
         a # b /\ Inside(a, HeadMemory[i]) /\ Inside(b, HeadMemory[i]) => Apart(a, b)
    /\ \A t \in Threads, a \in Starts :
         pc[t] = "PushEntry" /\ Inside(a, memory[t])
           => a[2] + TypeSize <= memory[t][2] + index[t]

\* Objects fill their chunks: none passes the end.
ObjectsFill == GroupSize % TypeSize = 0
FillInv ==
    ObjectsFill =>
        \A a \in Starts, i \in DOMAIN HeadMemory :
            Inside(a, HeadMemory[i]) => Fits(a, HeadMemory[i])

Objects == Len(UnAllocateObjectList) + LentNow

\* mostLent is what its name says.
MostInv == LentNow <= mostLent

\* Each chunk that is cut gives PerChunk objects, and the thread that is about
\* to take one has met an empty list.
CountInv ==
    /\ (\A t \in Threads : pc[t] # "PushEntry") => Objects = PerChunk * Len(HeadMemory)
    /\ \A t \in Threads : pc[t] = "PushEntry" =>
         \E m \in 0..PerChunk : /\ index[t] = m * TypeSize
                                /\ Objects = PerChunk * (Len(HeadMemory) - 1) + m
    /\ \A t \in Threads : pc[t] \in {"Allocate", "PopMemory"} =>
         PerChunk * Len(HeadMemory) <= mostLent

PoolInv ==
    /\ TypeOK
    /\ MutexInv
    /\ LentInv
    /\ ChunkInv
    /\ StartsDiffer
    /\ StartInv
    /\ FillInv
    /\ MostInv
    /\ CountInv
    /\ GrowsWhenAllLent

-----------------------------------------------------------------------------
(* Sizes.                                                                  *)

USE DEF users

\* The sizes are numbers, none of them 0.
LEMMA Sizes ==
  /\ Size \in Nat \ {0} /\ GroupSize \in Nat \ {0} /\ TypeSize \in Nat \ {0}
  /\ MaxPage \in Nat \ {0} /\ NoThread \notin Threads
  BY PoolAssumption

\* Steps of one size keep their order.
LEMMA Multiples ==
  ASSUME NEW m \in Int, NEW n \in Int, NEW d \in Nat, m <= n
  PROVE  m * d <= n * d
  <1>1. (n - m) * d >= 0
    OBVIOUS
  <1> QED
    BY <1>1

\* One step more.
LEMMA NextMultiple ==
  ASSUME NEW m \in Int, NEW d \in Nat
  PROVE  (m + 1) * d = m * d + d
  OBVIOUS

\* PerChunk starts lie in a chunk, the last of them before its end.
LEMMA PerChunkBounds ==
  /\ PerChunk \in Nat \ {0}
  /\ PerChunk * TypeSize >= GroupSize
  /\ (PerChunk - 1) * TypeSize < GroupSize
  <1> DEFINE n == GroupSize + TypeSize - 1
             q == n \div TypeSize
             r == n % TypeSize
  <1>1. GroupSize \in Nat \ {0} /\ TypeSize \in Nat \ {0}
    BY Sizes
  <1>2. n \in Nat /\ n >= TypeSize
    BY <1>1
  <1>3. q \in Int /\ r \in 0..TypeSize - 1 /\ n = q * TypeSize + r
    BY <1>1, <1>2, Z3
  <1>4. PerChunk = q
    BY DEF PerChunk
  <1> HIDE DEF q, r
  <1>5. q * TypeSize >= GroupSize
    BY <1>1, <1>3 DEF n
  <1>6. q > 0
    <2> SUFFICES ASSUME q <= 0
                 PROVE  FALSE
      BY <1>3
    <2>1. q * TypeSize <= 0 * TypeSize
      BY <1>1, <1>3, Multiples
    <2> QED
      BY <2>1, <1>5, <1>1, <1>3
  <1>7. (q - 1) * TypeSize = q * TypeSize - TypeSize
    BY <1>1, <1>3
  <1>8. (q - 1) * TypeSize < GroupSize
    BY <1>1, <1>3, <1>7 DEF n
  <1> QED
    BY <1>3, <1>4, <1>5, <1>6, <1>8

\* The loop of AllocateMemory pushes exactly PerChunk objects.
LEMMA LoopTurns ==
  ASSUME NEW m \in 0..PerChunk
  PROVE  /\ m * TypeSize \in Nat
         /\ m * TypeSize < GroupSize <=> m < PerChunk
  <1>1. PerChunk \in Nat \ {0} /\ GroupSize \in Nat /\ TypeSize \in Nat \ {0}
    BY PerChunkBounds, Sizes
  <1>2. m * TypeSize \in Nat
    BY <1>1
  <1>3. CASE m < PerChunk
    <2>1. m * TypeSize <= (PerChunk - 1) * TypeSize
      BY <1>1, <1>3, Multiples
    <2>2. (PerChunk - 1) * TypeSize \in Int
      BY <1>1
    <2> QED
      BY <1>1, <1>2, <1>3, <2>1, <2>2, PerChunkBounds
  <1>4. CASE m = PerChunk
    BY <1>1, <1>2, <1>4, PerChunkBounds
  <1> QED
    BY <1>1, <1>3, <1>4

\* When the size of an object divides the chunk's, one that starts in the
\* chunk ends in it.
LEMMA LastFits ==
  ASSUME ObjectsFill, NEW m \in Nat, m * TypeSize < GroupSize
  PROVE  m * TypeSize + TypeSize <= GroupSize
  <1> DEFINE q == GroupSize \div TypeSize
  <1>1. GroupSize \in Nat /\ TypeSize \in Nat \ {0}
    BY Sizes
  <1>2. q \in Int /\ GroupSize = q * TypeSize
    <2>1. GroupSize % TypeSize = 0
      BY DEF ObjectsFill
    <2> QED
      BY <1>1, <2>1, Z3
  <1> HIDE DEF q
  <1>3. m < q
    <2> SUFFICES ASSUME q <= m
                 PROVE  FALSE
      BY <1>2
    <2>1. q * TypeSize <= m * TypeSize
      BY <1>1, <1>2, Multiples
    <2> QED
      BY <2>1, <1>1, <1>2
  <1>4. (m + 1) * TypeSize <= q * TypeSize
    BY <1>1, <1>2, <1>3, Multiples
  <1>5. (m + 1) * TypeSize = m * TypeSize + TypeSize
    BY <1>1, NextMultiple
  <1> QED
    BY <1>1, <1>2, <1>4, <1>5

-----------------------------------------------------------------------------
(* Lists and queues.                                                       *)

\* Push on the front.
LEMMA PushFront ==
  ASSUME NEW S, NEW q \in Seq(S), NEW x \in S
  PROVE  /\ <<x>> \o q \in Seq(S)
         /\ Len(<<x>> \o q) = Len(q) + 1
         /\ (<<x>> \o q)[1] = x
         /\ \A i \in DOMAIN (<<x>> \o q) : i # 1 => i - 1 \in DOMAIN q /\ (<<x>> \o q)[i] = q[i - 1]
         /\ Elems(<<x>> \o q) = Elems(q) \cup {x}
  <1> DEFINE r == <<x>> \o q
  <1>1. <<x>> \in Seq(S) /\ Len(<<x>>) = 1 /\ <<x>>[1] = x
    OBVIOUS
  <1>2. /\ r \in Seq(S)
        /\ Len(r) = Len(q) + 1
        /\ \A i \in 1..Len(r) : r[i] = IF i <= 1 THEN <<x>>[i] ELSE q[i - 1]
    BY <1>1, ConcatProperties
  <1>3. Len(q) \in Nat /\ DOMAIN q = 1..Len(q) /\ DOMAIN r = 1..(Len(q) + 1)
    BY <1>2, LenProperties
  <1> HIDE DEF r
  <1>4. r[1] = x /\ \A i \in DOMAIN r : i # 1 => i - 1 \in DOMAIN q /\ r[i] = q[i - 1]
    BY <1>1, <1>2, <1>3
  <1>5. ASSUME NEW i \in DOMAIN q PROVE i + 1 \in DOMAIN r /\ r[i + 1] = q[i]
    BY <1>2, <1>3
  <1>6. 1 \in DOMAIN r
    BY <1>3
  <1>7. Elems(r) \subseteq Elems(q) \cup {x}
    BY <1>4 DEF Elems
  <1>8. Elems(q) \cup {x} \subseteq Elems(r)
    BY <1>4, <1>5, <1>6 DEF Elems
  <1> QED
    BY <1>2, <1>4, <1>7, <1>8 DEF r

\* Pop from the front.
LEMMA PopFront ==
  ASSUME NEW S, NEW q \in Seq(S), q # <<>>
  PROVE  /\ Head(q) \in S
         /\ 1 \in DOMAIN q /\ Head(q) = q[1]
         /\ Tail(q) \in Seq(S)
         /\ Len(Tail(q)) = Len(q) - 1
         /\ \A i \in DOMAIN Tail(q) : i + 1 \in DOMAIN q /\ i + 1 # 1 /\ Tail(q)[i] = q[i + 1]
         /\ Elems(q) = Elems(Tail(q)) \cup {Head(q)}
  <1>1. /\ Len(q) \in Nat \ {0}
        /\ DOMAIN q = 1..Len(q)
        /\ Head(q) = q[1]
    BY EmptySeq, LenProperties
  <1>2. /\ Tail(q) \in Seq(S)
        /\ Len(Tail(q)) = Len(q) - 1
        /\ Head(q) \in S
        /\ \A i \in 1..Len(Tail(q)) : Tail(q)[i] = q[i + 1]
    BY HeadTailProperties
  <1>3. DOMAIN Tail(q) = 1..(Len(q) - 1)
    BY <1>2, LenProperties
  <1>4. \A i \in DOMAIN Tail(q) : i + 1 \in DOMAIN q /\ i + 1 # 1 /\ Tail(q)[i] = q[i + 1]
    BY <1>1, <1>2, <1>3
  <1>5. \A i \in DOMAIN q : i = 1 \/ (i - 1 \in DOMAIN Tail(q) /\ Tail(q)[i - 1] = q[i])
    BY <1>1, <1>2, <1>3
  <1>6. Elems(q) = Elems(Tail(q)) \cup {Head(q)}
    <2>1. Elems(q) \subseteq Elems(Tail(q)) \cup {Head(q)}
      BY <1>1, <1>5 DEF Elems
    <2>2. Elems(Tail(q)) \cup {Head(q)} \subseteq Elems(q)
      BY <1>1, <1>4 DEF Elems
    <2> QED
      BY <2>1, <2>2
  <1> QED
    BY <1>1, <1>2, <1>4, <1>6

\* push_back
LEMMA PushBack ==
  ASSUME NEW S, NEW q \in Seq(S), NEW x \in S
  PROVE  /\ Append(q, x) \in Seq(S) /\ Append(q, x) # <<>>
         /\ Len(Append(q, x)) = Len(q) + 1
         /\ DOMAIN Append(q, x) = DOMAIN q \cup {Len(q) + 1}
         /\ Len(q) + 1 \notin DOMAIN q
         /\ Append(q, x)[Len(q) + 1] = x
         /\ \A i \in DOMAIN q : Append(q, x)[i] = q[i]
         /\ Elems(Append(q, x)) = Elems(q) \cup {x}
  <1>1. /\ Append(q, x) \in Seq(S)
        /\ Append(q, x) # <<>>
        /\ Len(Append(q, x)) = Len(q) + 1
        /\ \A i \in 1..Len(q) : Append(q, x)[i] = q[i]
        /\ Append(q, x)[Len(q) + 1] = x
    BY AppendProperties
  <1>2. Len(q) \in Nat /\ DOMAIN q = 1..Len(q) /\ DOMAIN Append(q, x) = 1..(Len(q) + 1)
    BY <1>1, LenProperties
  <1>3. DOMAIN Append(q, x) = DOMAIN q \cup {Len(q) + 1} /\ Len(q) + 1 \notin DOMAIN q
    BY <1>2
  <1>4. Elems(Append(q, x)) = Elems(q) \cup {x}
    BY <1>1, <1>2, <1>3 DEF Elems
  <1> QED
    BY <1>1, <1>2, <1>3, <1>4

\* What is in a list of addresses is an address: a page and an offset.
LEMMA AddressParts ==
  ASSUME NEW a \in Addresses
  PROVE  /\ a[1] \in 1..MaxPage /\ a[2] \in 0..Size - 1
         /\ a # Null
  BY Sizes DEF Addresses, Null

\* CreateMemory cuts a page in chunks that lie apart and fill it.
LEMMA PageIsCut ==
  ASSUME NEW p \in 1..MaxPage
  PROVE  /\ CreateMemory(p) \in Seq(Addresses)
         /\ CreateMemory(p) # <<>>
         /\ \A i \in DOMAIN CreateMemory(p) :
              /\ CreateMemory(p)[i] \in Addresses
              /\ CreateMemory(p)[i][1] = p
              /\ CreateMemory(p)[i][2] + GroupSize <= Size
         /\ \A i, j \in DOMAIN CreateMemory(p) :
              i # j => Clear(CreateMemory(p)[i], CreateMemory(p)[j])
  <1> DEFINE n == (Size + GroupSize - 1) \div GroupSize
             q == Size \div GroupSize
             M == CreateMemory(p)
  <1>1. Size \in Nat \ {0} /\ GroupSize \in Nat \ {0} /\ Size % GroupSize = 0
    BY PoolAssumption
  <1>2. q \in Int /\ Size = q * GroupSize
    BY <1>1, Z3
  <1>3. n \in Int /\ n * GroupSize <= Size + GroupSize - 1 /\ Size <= n * GroupSize
    <2> DEFINE m == Size + GroupSize - 1
    <2>1. m \in Nat
      BY <1>1
    <2>2. n \in Int /\ m % GroupSize \in 0..GroupSize - 1 /\ m = n * GroupSize + (m % GroupSize)
      BY <1>1, <2>1, Z3
    <2> HIDE DEF n
    <2> QED
      BY <1>1, <2>2
  <1> HIDE DEF n, q
  <1>4. n = q
    <2>1. CASE n >= q + 1
      <3>1. (q + 1) * GroupSize <= n * GroupSize
        BY <1>1, <1>2, <1>3, <2>1, Multiples
      <3>2. (q + 1) * GroupSize = q * GroupSize + GroupSize
        BY <1>1, <1>2, NextMultiple
      <3> QED
        BY <1>1, <1>2, <1>3, <3>1, <3>2
    <2>2. CASE n + 1 <= q
      <3>1. (n + 1) * GroupSize <= q * GroupSize
        BY <1>1, <1>2, <1>3, <2>2, Multiples
      <3>2. (n + 1) * GroupSize = n * GroupSize + GroupSize
        BY <1>1, <1>3, NextMultiple
      <3> QED
        BY <1>1, <1>2, <1>3, <3>1, <3>2
    <2> QED
      BY <1>2, <1>3, <2>1, <2>2
  <1>5. n >= 1
    <2> SUFFICES ASSUME n <= 0
                 PROVE  FALSE
      BY <1>3
    <2>1. n * GroupSize <= 0 * GroupSize
      BY <1>1, <1>3, Multiples
    <2> QED
      BY <2>1, <1>1, <1>3
  <1>6. M = [i \in 1..n |-> <<p, (i - 1) * GroupSize>>]
    BY DEF CreateMemory, n
  <1>7. ASSUME NEW i \in 1..n
        PROVE  /\ (i - 1) * GroupSize \in Nat
               /\ (i - 1) * GroupSize + GroupSize <= Size
    <2>1. (i - 1) * GroupSize \in Nat
      <3>1. i - 1 \in Nat
        BY <1>3
      <3> QED
        BY <1>1, <3>1
    <2>2. i * GroupSize <= n * GroupSize
      BY <1>1, <1>3, Multiples
    <2>3. i * GroupSize = (i - 1) * GroupSize + GroupSize
      BY <1>1, <1>3
    <2> QED
      BY <1>1, <1>2, <1>4, <2>1, <2>2, <2>3
  <1>8. ASSUME NEW i \in 1..n
        PROVE  M[i] \in Addresses /\ M[i][1] = p /\ M[i][2] = (i - 1) * GroupSize
    <2>1. M[i] = <<p, (i - 1) * GroupSize>>
      BY <1>6
    <2> QED
      BY <1>1, <1>7, <2>1 DEF Addresses
  <1> HIDE DEF M
  <1>9. M \in [1..n -> Addresses]
    BY <1>6, <1>8
  <1>10. M \in Seq(Addresses) /\ DOMAIN M = 1..n /\ M # <<>>
    <2>1. M \in Seq(Addresses)
      BY <1>3, <1>5, <1>9, SeqDef
    <2>2. DOMAIN M = 1..n
      BY <1>6
    <2>3. Len(M) = n
      BY <2>1, <2>2, <1>3, <1>5, LenProperties
    <2> QED
      BY <2>1, <2>2, <2>3, <1>3, <1>5, EmptySeq
  <1>11. ASSUME NEW i \in 1..n, NEW j \in 1..n, i < j
         PROVE  (i - 1) * GroupSize + GroupSize <= (j - 1) * GroupSize
    <2>1. i * GroupSize <= (j - 1) * GroupSize
      BY <1>1, <1>3, <1>11, Multiples
    <2>2. i * GroupSize = (i - 1) * GroupSize + GroupSize
      BY <1>1, <1>3
    <2> QED
      BY <2>1, <2>2
  <1>12. ASSUME NEW i \in 1..n, NEW j \in 1..n, i # j
         PROVE  Clear(M[i], M[j])
    <2>1. i < j \/ j < i
      BY <1>3, <1>12
    <2> QED
      BY <1>8, <1>11, <2>1 DEF Clear
  <1> QED
    BY <1>7, <1>8, <1>10, <1>12 DEF M

-----------------------------------------------------------------------------
(* Types, the mutex, and what a thread has.                                *)

\* At most one thread is in AllocateMemory, with call_once or with the mutex.
LEMMA OneCutter ==
  ASSUME TypeOK, MutexInv, NEW s \in Threads, NEW t \in Threads, Cutting(s), Cutting(t)
  PROVE  s = t
  <1>1. CASE initFlag = "none"
    BY <1>1 DEF MutexInv, Cutting
  <1>2. CASE initFlag = "running"
    BY <1>2 DEF MutexInv
  <1>3. CASE initFlag = "done"
    BY <1>3 DEF MutexInv
  <1> QED
    BY <1>1, <1>2, <1>3 DEF TypeOK

\* The cutter is at an offset its chunk has.
LEMMA CutterPlace ==
  ASSUME PoolInv, NEW t \in Threads, pc[t] = "PushEntry"
  PROVE  /\ Len(HeadMemory) \in DOMAIN HeadMemory
         /\ memory[t] = HeadMemory[Len(HeadMemory)]
         /\ memory[t] \in Addresses
         /\ memory[t][1] <= Memories
         /\ memory[t][2] + GroupSize <= Size
  <1>1. HeadMemory \in Seq(Addresses) /\ HeadMemory # <<>>
    BY DEF PoolInv, TypeOK, ChunkInv
  <1>2. Len(HeadMemory) \in DOMAIN HeadMemory
    BY <1>1, LenProperties, EmptySeq
  <1>3. HeadMemory[Len(HeadMemory)] \in Addresses
    BY <1>1, <1>2, ElementOfSeq, LenProperties
  <1>4. memory[t] = HeadMemory[Len(HeadMemory)]
    BY DEF PoolInv, ChunkInv
  <1>5. memory[t] \in Elems(HeadMemory)
    BY <1>2, <1>4 DEF Elems
  <1> QED
    BY <1>2, <1>3, <1>4, <1>5 DEF PoolInv, ChunkInv

\* The object a turn of the loop pushes.
LEMMA PushedAddress ==
  ASSUME PoolInv, NEW t \in Threads, pc[t] = "PushEntry", index[t] < GroupSize
  PROVE  /\ index[t] \in Nat
         /\ <<memory[t][1], memory[t][2] + index[t]>> \in Addresses
         /\ Inside(<<memory[t][1], memory[t][2] + index[t]>>, memory[t])
  <1>1. memory[t] \in Addresses /\ memory[t][2] + GroupSize <= Size
    BY CutterPlace
  <1>2. index[t] \in Nat
    BY Sizes DEF PoolInv, TypeOK
  <1>3. memory[t][1] \in 1..MaxPage /\ memory[t][2] \in 0..Size - 1
    BY <1>1, AddressParts
  <1>4. memory[t][2] + index[t] \in 0..Size - 1
    BY <1>1, <1>2, <1>3, Sizes
  <1> QED
    BY <1>2, <1>3, <1>4, Sizes DEF Addresses, Inside

\* A turn of the loop of AllocateMemory ...
LEMMA LoopTurn ==
  ASSUME TypeOK, NEW t \in Threads, PushEntry(t), index[t] < GroupSize
  PROVE  LET x == <<memory[t][1], memory[t][2] + index[t]>>
         IN  /\ UnAllocateObjectList' = <<x>> \o UnAllocateObjectList
             /\ index' = [index EXCEPT ![t] = index[t] + TypeSize]
             /\ UNCHANGED <<initFlag, AllocationMutex, memory, pc>>
             /\ UNCHANGED <<Memories, UnAllocateMemory, HeadMemory, users>>
  <1>1. index[t] \in Nat
    BY Sizes DEF TypeOK
  <1>2. ~(index[t] >= GroupSize)
    BY <1>1, Sizes
  <1> QED
    BY <1>2, Zenon DEF PushEntry

\* ... and its end.
LEMMA LoopEnd ==
  ASSUME NEW t \in Threads, PushEntry(t), ~(index[t] < GroupSize)
  PROVE  /\ memory' = [memory EXCEPT ![t] = Null]
         /\ index' = [index EXCEPT ![t] = 0]
         /\ pc' = [pc EXCEPT ![t] = "PopEntry"]
         /\ UNCHANGED <<UnAllocateObjectList, UnAllocateMemory, HeadMemory, users>>
  BY DEF PushEntry, Go

\* Addresses are finite in number.
LEMMA AddressesFinite == IsFiniteSet(Addresses)
  <1>1. IsFiniteSet(1..MaxPage) /\ IsFiniteSet(0..Size - 1)
    BY Sizes, FS_Interval
  <1> QED
    BY <1>1, FS_Product DEF Addresses

\* The objects that are lent can be counted.
LEMMA LentFinite ==
  ASSUME TypeOK
  PROVE  /\ IsFiniteSet(Lent) /\ Cardinality(Lent) \in Nat
         /\ IsFiniteSet(kept) /\ Cardinality(kept) \in Nat
         /\ LentNow = Cardinality(Lent) + Cardinality(kept) /\ LentNow \in Nat
  <1>1. IsFiniteSet(Lent) /\ IsFiniteSet(kept)
    BY PoolAssumption, AddressesFinite, FS_Subset DEF Lent, TypeOK
  <1>2. Cardinality(Lent) \in Nat /\ Cardinality(kept) \in Nat
    BY <1>1, FS_CardinalityType
  <1>3. LentNow = Cardinality(Lent) + Cardinality(kept)
    BY DEF LentNow, Lent
  <1> QED
    BY <1>1, <1>2, <1>3

\* TypeOK is preserved.
LEMMA TypeStep ==
  ASSUME PoolInv, NEW t \in Threads, StepOf(t)
  PROVE  TypeOK'
  <1> USE DEF PoolInv, TypeOK
  <1>1. CASE GenerateObject(t)
    <2>1. 1 \in 1..MaxPage /\ 1 \in 0..MaxPage
      BY Sizes
    <2>2. CreateMemory(1) \in Seq(Addresses)
      BY <2>1, PageIsCut
    <2> QED
      BY <1>1, <2>1, <2>2 DEF GenerateObject, NewMemoryPool, Go
  <1>2. CASE PopEntry(t)
    <2>1. CASE UnAllocateObjectList # <<>>
      <3>1. Head(UnAllocateObjectList) \in Addresses /\ Tail(UnAllocateObjectList) \in Seq(Addresses)
        BY <2>1, PopFront
      <3>2. mostLent' \in Nat
        BY <1>2, <2>1, LentFinite DEF PopEntry
      <3> QED
        BY <1>2, <2>1, <3>1, <3>2 DEF PopEntry, Go, pool
    <2>2. CASE UnAllocateObjectList = <<>>
      BY <1>2, <2>2 DEF PopEntry, Go, pool
    <2> QED
      BY <2>1, <2>2
  <1>3. CASE Wait(t)
    BY <1>3 DEF Wait, Go, pool
  <1>4. CASE QueryDepth(t)
    BY <1>4 DEF QueryDepth, Go, pool
  <1>5. CASE Allocate(t)
    <2>1. UnAllocateMemory' \in Seq(Addresses) /\ UnAllocateMemory' # <<>> /\ Memories' \in 0..MaxPage
      <3>1. CASE UnAllocateMemory = <<>>
        <4>1. Memories + 1 \in 1..MaxPage /\ Memories' = Memories + 1
          BY <1>5, <3>1, Sizes DEF Allocate
        <4> QED
          BY <1>5, <3>1, <4>1, PageIsCut, Sizes DEF Allocate
      <3>2. CASE UnAllocateMemory # <<>>
        BY <1>5, <3>2 DEF Allocate
      <3> QED
        BY <3>1, <3>2
    <2>2. Head(UnAllocateMemory') \in Addresses
      BY <2>1, PopFront
    <2> QED
      BY <1>5, <2>1, <2>2 DEF Allocate, Go
  <1>6. CASE PopMemory(t)
    <2>1. memory[t] \in Addresses /\ Tail(UnAllocateMemory) \in Seq(Addresses)
      BY <1>6, PopFront DEF PopMemory, ChunkInv
    <2>2. Append(HeadMemory, memory[t]) \in Seq(Addresses)
      BY <2>1, PushBack
    <2>3. 0 \in 0..GroupSize + TypeSize - 1
      BY Sizes
    <2> QED
      BY <1>6, <2>1, <2>2, <2>3 DEF PopMemory, Go
  <1>7. CASE PushEntry(t)
    <2>1. 0 \in 0..GroupSize + TypeSize - 1
      BY Sizes
    <2>2. CASE index[t] < GroupSize
      <3> DEFINE x == <<memory[t][1], memory[t][2] + index[t]>>
      <3>1. <<x>> \o UnAllocateObjectList \in Seq(Addresses)
        BY <1>7, <2>2, PushedAddress, PushFront DEF PushEntry
      <3>2. index[t] + TypeSize \in 0..GroupSize + TypeSize - 1
        BY <2>2, Sizes
      <3>3. /\ UnAllocateObjectList' = <<x>> \o UnAllocateObjectList
            /\ index' = [index EXCEPT ![t] = index[t] + TypeSize]
            /\ UNCHANGED <<initFlag, AllocationMutex, memory, pc>>
            /\ UNCHANGED <<Memories, UnAllocateMemory, HeadMemory, users>>
        BY <1>7, <2>2, LoopTurn
      <3> HIDE DEF x
      <3>4. UnAllocateObjectList' \in Seq(Addresses)
        BY <3>1, <3>3
      <3>5. index' \in [Threads -> 0..GroupSize + TypeSize - 1]
        BY <3>2, <3>3
      <3> QED
        BY <3>3, <3>4, <3>5
    <2>3. CASE ~(index[t] < GroupSize)
      <3>1. /\ memory' = [memory EXCEPT ![t] = Null] /\ index' = [index EXCEPT ![t] = 0]
            /\ pc' = [pc EXCEPT ![t] = "PopEntry"]
            /\ UNCHANGED <<UnAllocateObjectList, UnAllocateMemory, HeadMemory, users>>
        BY <1>7, <2>3, LoopEnd
      <3>2. UNCHANGED Memories /\ initFlag' \in {initFlag, "done"}
            /\ AllocationMutex' \in {AllocationMutex, NoThread}
        BY <1>7 DEF PushEntry
      <3> QED
        BY <2>1, <3>1, <3>2
    <2> QED
      BY <2>2, <2>3
  <1>8. CASE FreeObject(t)
    BY <1>8 DEF FreeObject, Go, pool
  <1>9. CASE Push(t)
    <2>1. object[t] # Null
      BY <1>9 DEF Push, LentInv
    <2>2. object[t] \in Addresses /\ UnAllocateObjectList \in Seq(Addresses)
      BY <2>1
    <2>3. <<object[t]>> \o UnAllocateObjectList \in Seq(Addresses)
      BY <2>2, PushFront
    <2> QED
      BY <1>9, <2>3 DEF Push, Go, pool
  <1>10. CASE Leave(t)
    <2>1. object[t] \in Addresses
      BY <1>10 DEF Leave, LentInv
    <2> QED
      BY <1>10, <2>1 DEF Leave, Go, pool
  <1>11. CASE TakeOver(t)
    BY <1>11 DEF TakeOver, Go, pool
  <1> QED
    BY <1>1, <1>2, <1>3, <1>4, <1>5, <1>6, <1>7, <1>8, <1>9, <1>10, <1>11 DEF StepOf

\* MutexInv is preserved.
LEMMA MutexStep ==
  ASSUME PoolInv, NEW t \in Threads, StepOf(t)
  PROVE  MutexInv'
  <1>1. TypeOK /\ MutexInv /\ NoThread \notin Threads
    BY Sizes DEF PoolInv
  <1> USE <1>1 DEF TypeOK, MutexInv, Cutting
  <1>2. CASE GenerateObject(t)
    <2>1. CASE initFlag = "none"
      <3>1. /\ initFlag' = "running"
            /\ AllocationMutex' = AllocationMutex
            /\ kept' = kept
            /\ pc' = [pc EXCEPT ![t] = "Allocate"]
        BY <1>2, <2>1 DEF GenerateObject, Go
      <3>2. \A s \in Threads : s # t => pc'[s] = "Idle"
        BY <2>1, <3>1
      <3>3. AllocationMutex = NoThread /\ kept = {}
        BY <2>1
      <3>4. pc'[t] = "Allocate" /\ \A s \in Threads : pc'[s] = "Allocate" => s = t
        BY <3>1, <3>2
      <3> QED
        BY <3>1, <3>2, <3>3, <3>4
    <2>2. CASE initFlag = "done"
      BY <1>2, <2>2 DEF GenerateObject, Go
    <2> QED
      BY <1>2, <2>1, <2>2 DEF GenerateObject
  <1>3. CASE PopEntry(t)
    BY <1>3 DEF PopEntry, Go, pool
  <1>4. CASE Wait(t)
    BY <1>4 DEF Wait, Go, pool
  <1>5. CASE QueryDepth(t)
    BY <1>5 DEF QueryDepth, Go, pool
  <1>6. CASE Allocate(t)
    BY <1>6 DEF Allocate, Go
  <1>7. CASE PopMemory(t)
    BY <1>7 DEF PopMemory, Go
  <1>8. CASE PushEntry(t)
    <2>1. CASE index[t] < GroupSize
      BY <1>8, <2>1, Sizes DEF PushEntry
    <2>2. CASE ~(index[t] < GroupSize)
      <3>1. CASE AllocationMutex = t
        BY <1>8, <2>2, <3>1 DEF PushEntry, Go
      <3>2. CASE AllocationMutex # t
        <4>1. initFlag = "running" /\ initFlag' = "done"
          BY <1>8, <2>2, <3>2 DEF PushEntry
        <4>2. \A s \in Threads : s # t => pc'[s] = "Idle"
          BY <1>8, <2>2, <4>1 DEF PushEntry, Go
        <4> QED
          BY <1>8, <2>2, <4>1, <4>2 DEF PushEntry, Go
      <3> QED
        BY <3>1, <3>2
    <2> QED
      BY <2>1, <2>2
  <1>9. CASE FreeObject(t)
    BY <1>9 DEF FreeObject, Go, pool
  <1>10. CASE Push(t)
    BY <1>10 DEF Push, Go, pool
  <1>11. CASE Leave(t)
    BY <1>11 DEF Leave, Go, pool
  <1>12. CASE TakeOver(t)
    BY <1>12 DEF TakeOver, Go, pool
  <1> QED
    BY <1>2, <1>3, <1>4, <1>5, <1>6, <1>7, <1>8, <1>9, <1>10, <1>11, <1>12 DEF StepOf

\* LentInv is preserved.
LEMMA LentStep ==
  ASSUME PoolInv, NEW t \in Threads, StepOf(t)
  PROVE  LentInv'
  <1>1. TypeOK /\ LentInv
    BY DEF PoolInv
  <1> USE <1>1 DEF TypeOK, LentInv
  <1>2. CASE GenerateObject(t)
    BY <1>2 DEF GenerateObject, Go
  <1>3. CASE PopEntry(t)
    <2>1. CASE UnAllocateObjectList # <<>>
      <3>1. Head(UnAllocateObjectList) # Null
        BY <2>1, PopFront, AddressParts
      <3> QED
        BY <1>3, <2>1, <3>1 DEF PopEntry, Go, pool
    <2>2. CASE UnAllocateObjectList = <<>>
      BY <1>3, <2>2 DEF PopEntry, Go, pool
    <2> QED
      BY <2>1, <2>2
  <1>4. CASE Wait(t)
    BY <1>4 DEF Wait, Go, pool
  <1>5. CASE QueryDepth(t)
    BY <1>5 DEF QueryDepth, Go, pool
  <1>6. CASE Allocate(t)
    BY <1>6 DEF Allocate, Go
  <1>7. CASE PopMemory(t)
    BY <1>7 DEF PopMemory, Go
  <1>8. CASE PushEntry(t)
    BY <1>8 DEF PushEntry, Go
  <1>9. CASE FreeObject(t)
    BY <1>9 DEF FreeObject, Go, pool
  <1>10. CASE Push(t)
    BY <1>10 DEF Push, Go, pool
  <1>11. CASE Leave(t)
    BY <1>11 DEF Leave, Go, pool
  <1>12. CASE TakeOver(t)
    <2>1. PICK a \in kept : object' = [object EXCEPT ![t] = a]
      BY <1>12 DEF TakeOver
    <2>2. a # Null
      BY <2>1, AddressParts
    <2> QED
      BY <1>12, <2>1, <2>2 DEF TakeOver, Go, pool
  <1> QED
    BY <1>2, <1>3, <1>4, <1>5, <1>6, <1>7, <1>8, <1>9, <1>10, <1>11, <1>12 DEF StepOf

-----------------------------------------------------------------------------
(* Chunks.                                                                 *)

\* A chunk of a new page is clear of those of the pages there were.
LEMMA NewPage ==
  ASSUME PoolInv, NEW p \in 1..MaxPage, Memories < p,
         UnAllocateMemory = <<>>, UnAllocateMemory' = CreateMemory(p),
         Memories' = p, HeadMemory' = HeadMemory
  PROVE  /\ \A c \in (Elems(UnAllocateMemory) \cup Elems(HeadMemory))' :
              c[1] <= Memories' /\ c[2] + GroupSize <= Size
         /\ ChunksClear'
  <1>1. /\ Memories \in Nat
        /\ \A j \in DOMAIN HeadMemory :
             HeadMemory[j][1] <= Memories /\ HeadMemory[j][2] + GroupSize <= Size
    BY DEF PoolInv, TypeOK, ChunkInv, Elems
  <1>2. \A j \in DOMAIN HeadMemory : HeadMemory[j] \in Addresses
    <2>1. HeadMemory \in Seq(Addresses)
      BY DEF PoolInv, TypeOK
    <2> QED
      BY <2>1, ElementOfSeq, LenProperties
  <1>3. \A j \in DOMAIN HeadMemory : HeadMemory[j][1] \in Int
    BY <1>2, AddressParts
  <1>4. \A i \in DOMAIN UnAllocateMemory' :
          /\ UnAllocateMemory'[i][1] = p
          /\ UnAllocateMemory'[i][2] + GroupSize <= Size
    BY PageIsCut
  <1>5. \A i \in DOMAIN UnAllocateMemory', j \in DOMAIN HeadMemory :
          Clear(UnAllocateMemory'[i], HeadMemory[j])
    BY <1>1, <1>3, <1>4 DEF Clear
  <1>6. \A i, j \in DOMAIN UnAllocateMemory' :
          i # j => Clear(UnAllocateMemory'[i], UnAllocateMemory'[j])
    BY PageIsCut
  <1>7. \A i, j \in DOMAIN HeadMemory : i # j => Clear(HeadMemory[i], HeadMemory[j])
    BY DEF PoolInv, ChunkInv, ChunksClear
  <1>8. ChunksClear'
    BY <1>5, <1>6, <1>7 DEF ChunksClear
  <1>9. ASSUME NEW c \in (Elems(UnAllocateMemory) \cup Elems(HeadMemory))'
        PROVE  c[1] <= Memories' /\ c[2] + GroupSize <= Size
    <2>1. CASE \E i \in DOMAIN UnAllocateMemory' : c = UnAllocateMemory'[i]
      BY <1>4, <2>1
    <2>2. CASE \E j \in DOMAIN HeadMemory : c = HeadMemory[j]
      BY <1>1, <1>3, <2>2
    <2> QED
      BY <1>9, <2>1, <2>2 DEF Elems
  <1> QED
    BY <1>8, <1>9

\* ChunkInv is preserved.
LEMMA ChunkStep ==
  ASSUME PoolInv, NEW t \in Threads, StepOf(t)
  PROVE  ChunkInv'
  <1>1. TypeOK /\ MutexInv /\ ChunkInv
    BY DEF PoolInv
  <1>2. ASSUME UNCHANGED <<Memories, UnAllocateMemory, HeadMemory>>,
               \A s \in Threads : pc'[s] \in {"PopMemory", "PushEntry"} =>
                                    pc'[s] = pc[s] /\ memory'[s] = memory[s]
        PROVE  ChunkInv'
    BY <1>1, <1>2 DEF ChunkInv, ChunksClear
  <1>3. CASE GenerateObject(t)
    <2>1. CASE initFlag = "none"
      <3>1. /\ Memories = 0 /\ UnAllocateMemory = <<>>
            /\ UnAllocateMemory' = CreateMemory(1) /\ Memories' = 1
            /\ HeadMemory' = HeadMemory
            /\ pc' = [pc EXCEPT ![t] = "Allocate"]
        BY <1>1, <1>3, <2>1 DEF GenerateObject, NewMemoryPool, MutexInv, Go
      <3>2. /\ \A c \in (Elems(UnAllocateMemory) \cup Elems(HeadMemory))' :
                 c[1] <= Memories' /\ c[2] + GroupSize <= Size
            /\ ChunksClear'
        BY <3>1, NewPage, Sizes
      <3>3. \A s \in Threads : pc'[s] \notin {"PopMemory", "PushEntry"}
        BY <1>1, <2>1, <3>1 DEF MutexInv, TypeOK
      <3> QED
        BY <3>2, <3>3 DEF ChunkInv
    <2>2. CASE initFlag = "done"
      BY <1>1, <1>2, <1>3, <2>2 DEF GenerateObject, Go, TypeOK
    <2> QED
      BY <1>3, <2>1, <2>2 DEF GenerateObject
  <1>4. CASE PopEntry(t)
    BY <1>1, <1>2, <1>4 DEF PopEntry, Go, pool, TypeOK
  <1>5. CASE Wait(t)
    BY <1>1, <1>2, <1>5 DEF Wait, Go, pool, TypeOK
  <1>6. CASE QueryDepth(t)
    BY <1>1, <1>2, <1>6 DEF QueryDepth, Go, pool, TypeOK
  <1>7. CASE Allocate(t)
    <2>1. /\ pc[t] = "Allocate"
          /\ pc' = [pc EXCEPT ![t] = "PopMemory"]
          /\ memory' = [memory EXCEPT ![t] = Head(UnAllocateMemory')]
          /\ HeadMemory' = HeadMemory
      BY <1>7 DEF Allocate, Go
    <2>2. \A s \in Threads : s # t => pc'[s] \notin {"PopMemory", "PushEntry"}
      <3>1. \A s \in Threads : Cutting(s) => s = t
        BY <1>1, <2>1, OneCutter DEF Cutting
      <3> QED
        BY <1>1, <2>1, <3>1 DEF Cutting, TypeOK
    <2>3. pc'[t] = "PopMemory" /\ memory'[t] = Head(UnAllocateMemory')
      BY <1>1, <2>1 DEF TypeOK
    <2>4. /\ UnAllocateMemory' # <<>>
          /\ \A c \in (Elems(UnAllocateMemory) \cup Elems(HeadMemory))' :
               c[1] <= Memories' /\ c[2] + GroupSize <= Size
          /\ ChunksClear'
      <3>1. CASE UnAllocateMemory = <<>>
        <4>1. /\ UnAllocateMemory' = CreateMemory(Memories')
              /\ Memories' = Memories + 1 /\ Memories' \in 1..MaxPage /\ Memories < Memories'
          BY <1>1, <1>7, <3>1, Sizes DEF Allocate, TypeOK
        <4>2. /\ \A c \in (Elems(UnAllocateMemory) \cup Elems(HeadMemory))' :
                   c[1] <= Memories' /\ c[2] + GroupSize <= Size
              /\ ChunksClear'
          BY <2>1, <3>1, <4>1, NewPage
        <4> QED
          BY <4>1, <4>2, PageIsCut
      <3>2. CASE UnAllocateMemory # <<>>
        <4>1. UNCHANGED <<Memories, UnAllocateMemory, HeadMemory>>
          BY <1>7, <3>2 DEF Allocate
        <4> QED
          BY <1>1, <3>2, <4>1 DEF ChunkInv, ChunksClear
      <3> QED
        BY <3>1, <3>2
    <2> QED
      BY <2>2, <2>3, <2>4 DEF ChunkInv
  <1>8. CASE PopMemory(t)
    <2> DEFINE q == UnAllocateMemory
               h == HeadMemory
               c == Head(q)
    <2>1. /\ pc[t] = "PopMemory" /\ q # <<>> /\ memory[t] = c
          /\ UnAllocateMemory' = Tail(q) /\ HeadMemory' = Append(h, c)
          /\ Memories' = Memories /\ memory' = memory
          /\ pc' = [pc EXCEPT ![t] = "PushEntry"]
      BY <1>1, <1>8 DEF PopMemory, ChunkInv, Go
    <2>2. q \in Seq(Addresses) /\ h \in Seq(Addresses)
      BY <1>1 DEF TypeOK
    <2>3. /\ c \in Addresses /\ 1 \in DOMAIN q /\ c = q[1]
          /\ \A i \in DOMAIN Tail(q) : i + 1 \in DOMAIN q /\ i + 1 # 1 /\ Tail(q)[i] = q[i + 1]
          /\ Elems(q) = Elems(Tail(q)) \cup {c}
      BY <2>1, <2>2, PopFront
    <2>4. /\ Append(h, c) # <<>>
          /\ Len(Append(h, c)) = Len(h) + 1
          /\ DOMAIN Append(h, c) = DOMAIN h \cup {Len(h) + 1}
          /\ Append(h, c)[Len(h) + 1] = c
          /\ \A i \in DOMAIN h : Append(h, c)[i] = h[i]
          /\ Elems(Append(h, c)) = Elems(h) \cup {c}
      BY <2>2, <2>3, PushBack
    <2>5. (Elems(UnAllocateMemory) \cup Elems(HeadMemory))' = Elems(q) \cup Elems(h)
      <3>1. (Elems(UnAllocateMemory) \cup Elems(HeadMemory))'
              = Elems(UnAllocateMemory') \cup Elems(HeadMemory')
        BY DEF Elems
      <3> QED
        BY <2>1, <2>3, <2>4, <3>1
    <2>6. /\ \A i, j \in DOMAIN q : i # j => Clear(q[i], q[j])
          /\ \A i, j \in DOMAIN h : i # j => Clear(h[i], h[j])
          /\ \A i \in DOMAIN q, j \in DOMAIN h : Clear(q[i], h[j])
      BY <1>1 DEF ChunkInv, ChunksClear
    <2>7. \A i \in DOMAIN q, j \in DOMAIN h : Clear(h[j], q[i])
      <3>1. \A i \in DOMAIN q : q[i] \in Addresses
        BY <2>2, ElementOfSeq, LenProperties
      <3>2. \A j \in DOMAIN h : h[j] \in Addresses
        BY <2>2, ElementOfSeq, LenProperties
      <3> QED
        BY <2>6, <3>1, <3>2, AddressParts DEF Clear
    <2> HIDE DEF q, h, c
    <2>8. \A i, j \in DOMAIN Tail(q) : i # j => Clear(Tail(q)[i], Tail(q)[j])
      <3> SUFFICES ASSUME NEW i \in DOMAIN Tail(q), NEW j \in DOMAIN Tail(q), i # j
                   PROVE  Clear(Tail(q)[i], Tail(q)[j])
        OBVIOUS
      <3>1. i \in Int /\ j \in Int
        BY <2>1, <2>2, HeadTailProperties, LenProperties
      <3>2. i + 1 # j + 1
        BY <3>1
      <3> QED
        BY <2>3, <2>6, <3>2
    <2>9. \A i \in DOMAIN Append(h, c), j \in DOMAIN Append(h, c) :
            i # j => Clear(Append(h, c)[i], Append(h, c)[j])
      BY <2>3, <2>4, <2>6, <2>7
    <2>10. \A i \in DOMAIN Tail(q), j \in DOMAIN Append(h, c) :
             Clear(Tail(q)[i], Append(h, c)[j])
      BY <2>3, <2>4, <2>6
    <2>11. ChunksClear'
      BY <2>1, <2>8, <2>9, <2>10 DEF ChunksClear, q, h
    <2>12. \A s \in Threads : s # t => pc'[s] \notin {"PopMemory", "PushEntry"}
      <3>1. \A s \in Threads : Cutting(s) => s = t
        BY <1>1, <2>1, OneCutter DEF Cutting
      <3> QED
        BY <1>1, <2>1, <3>1 DEF Cutting, TypeOK
    <2>13. pc'[t] = "PushEntry"
      BY <1>1, <2>1 DEF TypeOK
    <2>14. \A d \in (Elems(UnAllocateMemory) \cup Elems(HeadMemory))' :
             d[1] <= Memories' /\ d[2] + GroupSize <= Size
      BY <1>1, <2>1, <2>5 DEF ChunkInv, q, h
    <2> QED
      BY <2>1, <2>4, <2>11, <2>12, <2>13, <2>14 DEF ChunkInv
  <1>9. CASE PushEntry(t)
    <2>1. \A s \in Threads : pc'[s] \in {"PopMemory", "PushEntry"} =>
                               pc'[s] = pc[s] /\ memory'[s] = memory[s]
      BY <1>1, <1>9 DEF PushEntry, Go, TypeOK
    <2> QED
      BY <1>2, <1>9, <2>1 DEF PushEntry
  <1>10. CASE FreeObject(t)
    BY <1>1, <1>2, <1>10 DEF FreeObject, Go, pool, TypeOK
  <1>11. CASE Push(t)
    BY <1>1, <1>2, <1>11 DEF Push, Go, pool, TypeOK
  <1>12. CASE Leave(t)
    BY <1>1, <1>2, <1>12 DEF Leave, Go, pool, TypeOK
  <1>13. CASE TakeOver(t)
    BY <1>1, <1>2, <1>13 DEF TakeOver, Go, pool, TypeOK
  <1> QED
    BY <1>3, <1>4, <1>5, <1>6, <1>7, <1>8, <1>9, <1>10, <1>11, <1>12, <1>13 DEF StepOf

-----------------------------------------------------------------------------
(* Objects.                                                                *)

\* A pop moves an object from the list to a thread.
LEMMA PopMoves ==
  ASSUME TypeOK, LentInv, StartsDiffer, MostInv, NEW t \in Threads, PopEntry(t),
         UnAllocateObjectList # <<>>
  PROVE  Starts' = Starts /\ StartsDiffer' /\ Objects' = Objects /\ MostInv'
  <1> DEFINE q == UnAllocateObjectList
             x == Head(q)
  <1>1. /\ pc[t] = "PopEntry"
        /\ UnAllocateObjectList' = Tail(q)
        /\ object' = [object EXCEPT ![t] = x]
        /\ mostLent' = IF LentNow < mostLent THEN mostLent ELSE LentNow + 1
        /\ kept' = kept
    BY DEF PopEntry
  <1>2. q \in Seq(Addresses)
    BY DEF TypeOK
  <1>3. /\ x \in Addresses /\ 1 \in DOMAIN q /\ x = q[1]
        /\ Len(Tail(q)) = Len(q) - 1
        /\ \A i \in DOMAIN Tail(q) : i + 1 \in DOMAIN q /\ i + 1 # 1 /\ Tail(q)[i] = q[i + 1]
        /\ Elems(q) = Elems(Tail(q)) \cup {x}
    BY <1>2, PopFront
  <1>4. x # Null /\ object[t] = Null
    BY <1>1, <1>3, AddressParts DEF LentInv
  <1>5. object'[t] = x /\ \A s \in Threads : s # t => object'[s] = object[s]
    BY <1>1 DEF TypeOK
  <1>6. t \notin Lent /\ Lent' = Lent \cup {t}
    BY <1>4, <1>5 DEF Lent
  <1> HIDE DEF x
  <1>7. Starts' = Starts
    <2>1. {object'[s] : s \in Lent'} = {object[s] : s \in Lent} \cup {x}
      <3>1. \A s \in Lent : s # t /\ s \in Threads
        BY <1>6 DEF Lent
      <3> QED
        BY <1>5, <1>6, <3>1
    <2>2. Starts' = Elems(UnAllocateObjectList') \cup {object'[s] : s \in Lent'} \cup kept
      BY <1>1 DEF Starts, Elems
    <2>3. Elems(UnAllocateObjectList') = Elems(Tail(q))
      BY <1>1
    <2> QED
      BY <1>3, <2>1, <2>2, <2>3 DEF Starts
  <1>8. StartsDiffer'
    <2>1. \A i \in DOMAIN Tail(q), j \in DOMAIN Tail(q) : i # j => Tail(q)[i] # Tail(q)[j]
      <3> SUFFICES ASSUME NEW i \in DOMAIN Tail(q), NEW j \in DOMAIN Tail(q), i # j
                   PROVE  Tail(q)[i] # Tail(q)[j]
        OBVIOUS
      <3>1. i + 1 # j + 1
        BY <1>2, HeadTailProperties, LenProperties
      <3> QED
        BY <1>3, <3>1 DEF StartsDiffer
    <2>2. \A i \in DOMAIN Tail(q) : Tail(q)[i] # x
      BY <1>3 DEF StartsDiffer
    <2>3. \A s \in Lent, i \in DOMAIN q : object[s] # q[i]
      BY DEF StartsDiffer
    <2>4. \A s \in Lent' : s = t \/ (s \in Lent /\ s # t /\ object'[s] = object[s])
      BY <1>5, <1>6 DEF Lent
    <2>5. \A s \in Lent', i \in DOMAIN Tail(q) : object'[s] # Tail(q)[i]
      BY <1>3, <1>5, <2>2, <2>3, <2>4
    <2>6. \A r \in Lent', s \in Lent' : r # s => object'[r] # object'[s]
      <3>1. \A r \in Lent, s \in Lent : r # s => object[r] # object[s]
        BY DEF StartsDiffer
      <3> QED
        BY <1>3, <1>5, <2>3, <2>4, <3>1
    <2>7. \A s \in Lent' : object'[s] \notin kept
      BY <1>3, <1>5, <2>4 DEF StartsDiffer
    <2>8. \A i \in DOMAIN Tail(q) : Tail(q)[i] \notin kept
      BY <1>3 DEF StartsDiffer
    <2> QED
      BY <1>1, <2>1, <2>5, <2>6, <2>7, <2>8 DEF StartsDiffer
  <1>9. LentNow' = LentNow + 1
    <2>1. Cardinality(Lent') = Cardinality(Lent) + 1
      BY <1>6, LentFinite, FS_AddElement
    <2>2. LentNow' = Cardinality(Lent') + Cardinality(kept)
      BY <1>1 DEF LentNow, Lent
    <2> QED
      BY <2>1, <2>2, LentFinite
  <1>10. Objects' = Objects
    <2>1. Len(q) \in Nat
      BY <1>2, LenProperties
    <2> QED
      BY <1>1, <1>3, <1>9, <2>1, LentFinite DEF Objects
  <1>11. MostInv'
    <2>1. mostLent \in Nat /\ LentNow \in Nat /\ LentNow <= mostLent
      BY LentFinite DEF TypeOK, MostInv
    <2>2. LentNow + 1 <= mostLent'
      BY <1>1, <2>1
    <2> QED
      BY <1>9, <2>2 DEF MostInv
  <1> QED
    BY <1>7, <1>8, <1>10, <1>11

\* A push moves an object from a thread to the list.
LEMMA PushMoves ==
  ASSUME TypeOK, LentInv, StartsDiffer, MostInv, NEW t \in Threads, Push(t)
  PROVE  Starts' = Starts /\ StartsDiffer' /\ Objects' = Objects /\ MostInv'
  <1> DEFINE q == UnAllocateObjectList
             x == object[t]
             r == <<x>> \o q
  <1>1. /\ pc[t] = "Push"
        /\ UnAllocateObjectList' = r
        /\ object' = [object EXCEPT ![t] = Null]
        /\ UNCHANGED <<kept, mostLent>>
    BY DEF Push
  <1>2. q \in Seq(Addresses) /\ x \in Addresses /\ x # Null
    BY <1>1 DEF TypeOK, LentInv
  <1>3. /\ Len(r) = Len(q) + 1
        /\ r[1] = x
        /\ \A i \in DOMAIN r : i # 1 => i - 1 \in DOMAIN q /\ r[i] = q[i - 1]
        /\ Elems(r) = Elems(q) \cup {x}
    BY <1>2, PushFront
  <1>4. object'[t] = Null /\ \A s \in Threads : s # t => object'[s] = object[s]
    BY <1>1 DEF TypeOK
  <1>5. t \in Lent /\ Lent' = Lent \ {t}
    BY <1>2, <1>4 DEF Lent
  <1>6. \A i \in DOMAIN r : i \in Int
    BY <1>2, PushFront, LenProperties
  <1> HIDE DEF r
  <1>7. Starts' = Starts
    <2>1. {object[s] : s \in Lent} = {object'[s] : s \in Lent'} \cup {x}
      <3>1. \A s \in Lent' : s \in Lent /\ s # t /\ object'[s] = object[s]
        BY <1>4, <1>5 DEF Lent
      <3>2. \A s \in Lent : s = t \/ s \in Lent'
        BY <1>5
      <3> QED
        BY <1>5, <3>1, <3>2
    <2>2. Starts' = Elems(UnAllocateObjectList') \cup {object'[s] : s \in Lent'} \cup kept
      BY <1>1 DEF Starts, Elems
    <2>3. Elems(UnAllocateObjectList') = Elems(r)
      BY <1>1
    <2> QED
      BY <1>3, <2>1, <2>2, <2>3 DEF Starts
  <1>8. StartsDiffer'
    <2>1. \A i \in DOMAIN q : q[i] # x
      BY <1>5 DEF StartsDiffer
    <2>2. \A i \in DOMAIN r, j \in DOMAIN r : i # j => r[i] # r[j]
      <3> SUFFICES ASSUME NEW i \in DOMAIN r, NEW j \in DOMAIN r, i # j
                   PROVE  r[i] # r[j]
        OBVIOUS
      <3>1. CASE i = 1 \/ j = 1
        BY <1>3, <2>1, <3>1
      <3>2. CASE i # 1 /\ j # 1
        <4>1. i - 1 # j - 1
          BY <1>6
        <4> QED
          BY <1>3, <3>2, <4>1 DEF StartsDiffer
      <3> QED
        BY <3>1, <3>2
    <2>3. \A s \in Lent' : s \in Lent /\ s # t /\ object'[s] = object[s] /\ object[s] # x
      BY <1>4, <1>5 DEF Lent, StartsDiffer
    <2>4. \A s \in Lent', i \in DOMAIN r : object'[s] # r[i]
      BY <1>3, <2>3 DEF StartsDiffer
    <2>5. \A u \in Lent', s \in Lent' : u # s => object'[u] # object'[s]
      BY <2>3 DEF StartsDiffer
    <2>6. \A s \in Lent' : object'[s] \notin kept
      BY <2>3 DEF StartsDiffer
    <2>7. \A i \in DOMAIN r : r[i] \notin kept
      BY <1>3, <1>5 DEF StartsDiffer
    <2> QED
      BY <1>1, <2>2, <2>4, <2>5, <2>6, <2>7 DEF StartsDiffer
  <1>9. LentNow' = LentNow - 1
    <2>1. Cardinality(Lent') = Cardinality(Lent) - 1
      BY <1>5, LentFinite, FS_RemoveElement
    <2>2. LentNow' = Cardinality(Lent') + Cardinality(kept)
      BY <1>1 DEF LentNow, Lent
    <2> QED
      BY <2>1, <2>2, LentFinite
  <1>10. Objects' = Objects
    <2>1. Len(q) \in Nat
      BY <1>2, LenProperties
    <2>2. Len(UnAllocateObjectList') = Len(q) + 1
      BY <1>1, <1>3
    <2>3. LentNow \in Nat
      BY LentFinite
    <2>4. Len(UnAllocateObjectList') + LentNow' = Len(q) + LentNow
      BY <1>9, <2>1, <2>2, <2>3
    <2> QED
      BY <2>4 DEF Objects
  <1>11. MostInv'
    <2>1. LentNow \in Nat /\ mostLent \in Nat /\ LentNow <= mostLent
      BY LentFinite DEF TypeOK, MostInv
    <2>2. LentNow - 1 <= mostLent
      BY <2>1
    <2> QED
      BY <1>1, <1>9, <2>2 DEF MostInv
  <1> QED
    BY <1>7, <1>8, <1>10, <1>11

\* A thread that leaves its object moves it too.
LEMMA LeaveMoves ==
  ASSUME TypeOK, LentInv, StartsDiffer, MostInv, NEW t \in Threads, Leave(t)
  PROVE  Starts' = Starts /\ StartsDiffer' /\ Objects' = Objects /\ MostInv'
  <1> DEFINE x == object[t]
  <1>1. /\ pc[t] = "Using"
        /\ kept' = kept \cup {x}
        /\ object' = [object EXCEPT ![t] = Null]
        /\ UNCHANGED <<UnAllocateObjectList, mostLent>>
    BY DEF Leave
  <1>2. x # Null
    BY <1>1 DEF LentInv
  <1>3. object'[t] = Null /\ \A s \in Threads : s # t => object'[s] = object[s]
    BY <1>1 DEF TypeOK
  <1>4. t \in Lent /\ Lent' = Lent \ {t}
    BY <1>2, <1>3 DEF Lent
  <1>5. x \notin kept
    BY <1>4 DEF StartsDiffer
  <1>6. \A s \in Lent' : s \in Lent /\ s # t /\ object'[s] = object[s] /\ object[s] # x
    BY <1>3, <1>4 DEF Lent, StartsDiffer
  <1>7. Starts' = Starts
    <2>1. {object[s] : s \in Lent} = {object'[s] : s \in Lent'} \cup {x}
      <3>1. \A s \in Lent : s = t \/ s \in Lent'
        BY <1>4
      <3> QED
        BY <1>4, <1>6, <3>1
    <2>2. Starts' = Elems(UnAllocateObjectList) \cup {object'[s] : s \in Lent'} \cup kept'
      BY <1>1 DEF Starts, Elems
    <2> QED
      BY <1>1, <2>1, <2>2 DEF Starts
  <1> HIDE DEF x
  <1>8. StartsDiffer'
    <2>1. \A i \in DOMAIN UnAllocateObjectList : UnAllocateObjectList[i] # x
      BY <1>4 DEF StartsDiffer, x
    <2>2. \A r \in Lent', s \in Lent' : r # s => object'[r] # object'[s]
      BY <1>6 DEF StartsDiffer
    <2>3. \A s \in Lent' : object'[s] \notin kept'
      BY <1>1, <1>6 DEF StartsDiffer
    <2>4. \A s \in Lent', i \in DOMAIN UnAllocateObjectList : object'[s] # UnAllocateObjectList[i]
      BY <1>6 DEF StartsDiffer
    <2>5. \A i \in DOMAIN UnAllocateObjectList : UnAllocateObjectList[i] \notin kept'
      BY <1>1, <2>1 DEF StartsDiffer
    <2>6. \A i, j \in DOMAIN UnAllocateObjectList :
            i # j => UnAllocateObjectList[i] # UnAllocateObjectList[j]
      BY DEF StartsDiffer
    <2> QED
      BY <1>1, <2>2, <2>3, <2>4, <2>5, <2>6 DEF StartsDiffer
  <1>9. LentNow' = LentNow
    <2>1. Cardinality(Lent') = Cardinality(Lent) - 1
      BY <1>4, LentFinite, FS_RemoveElement
    <2>2. Cardinality(kept') = Cardinality(kept) + 1
      BY <1>1, <1>5, LentFinite, FS_AddElement
    <2>3. LentNow' = Cardinality(Lent') + Cardinality(kept')
      BY DEF LentNow, Lent
    <2> QED
      BY <2>1, <2>2, <2>3, LentFinite
  <1> QED
    BY <1>1, <1>7, <1>8, <1>9 DEF Objects, MostInv

\* A thread that takes an object that was left moves it.
LEMMA TakeOverMoves ==
  ASSUME TypeOK, LentInv, StartsDiffer, MostInv, NEW t \in Threads, TakeOver(t)
  PROVE  Starts' = Starts /\ StartsDiffer' /\ Objects' = Objects /\ MostInv'
  <1>1. PICK x \in kept :
          /\ pc[t] = "Idle"
          /\ kept' = kept \ {x}
          /\ object' = [object EXCEPT ![t] = x]
          /\ UNCHANGED <<UnAllocateObjectList, mostLent>>
    BY DEF TakeOver
  <1>2. x # Null /\ object[t] = Null
    <2>1. x \in Addresses
      BY <1>1 DEF TypeOK
    <2> QED
      BY <1>1, <2>1, AddressParts DEF LentInv
  <1>3. object'[t] = x /\ \A s \in Threads : s # t => object'[s] = object[s]
    BY <1>1 DEF TypeOK
  <1>4. t \notin Lent /\ Lent' = Lent \cup {t}
    BY <1>2, <1>3 DEF Lent
  <1>5. \A s \in Lent' : s = t \/ (s \in Lent /\ s # t /\ object'[s] = object[s])
    BY <1>3, <1>4 DEF Lent
  <1>6. \A s \in Lent : object[s] \notin kept
    BY DEF StartsDiffer
  <1>7. Starts' = Starts
    <2>1. {object'[s] : s \in Lent'} = {object[s] : s \in Lent} \cup {x}
      <3>1. \A s \in Lent : s # t /\ s \in Threads
        BY <1>4 DEF Lent
      <3> QED
        BY <1>3, <1>4, <3>1
    <2>2. Starts' = Elems(UnAllocateObjectList) \cup {object'[s] : s \in Lent'} \cup kept'
      BY <1>1 DEF Starts, Elems
    <2> QED
      BY <1>1, <2>1, <2>2 DEF Starts
  <1>8. StartsDiffer'
    <2>1. \A i \in DOMAIN UnAllocateObjectList : UnAllocateObjectList[i] \notin kept
      BY DEF StartsDiffer
    <2>2. \A r \in Lent', s \in Lent' : r # s => object'[r] # object'[s]
      <3>1. \A r \in Lent, s \in Lent : r # s => object[r] # object[s]
        BY DEF StartsDiffer
      <3> QED
        BY <1>3, <1>5, <1>6, <3>1
    <2>3. \A s \in Lent' : object'[s] \notin kept'
      BY <1>1, <1>3, <1>5, <1>6
    <2>4. \A s \in Lent', i \in DOMAIN UnAllocateObjectList : object'[s] # UnAllocateObjectList[i]
      <3>1. \A s \in Lent, i \in DOMAIN UnAllocateObjectList : object[s] # UnAllocateObjectList[i]
        BY DEF StartsDiffer
      <3> QED
        BY <1>3, <1>5, <2>1, <3>1
    <2>5. \A i, j \in DOMAIN UnAllocateObjectList :
            i # j => UnAllocateObjectList[i] # UnAllocateObjectList[j]
      BY DEF StartsDiffer
    <2>6. \A i \in DOMAIN UnAllocateObjectList : UnAllocateObjectList[i] \notin kept'
      BY <1>1, <2>1
    <2> QED
      BY <1>1, <2>2, <2>3, <2>4, <2>5, <2>6 DEF StartsDiffer
  <1>9. LentNow' = LentNow
    <2>1. Cardinality(Lent') = Cardinality(Lent) + 1
      BY <1>4, LentFinite, FS_AddElement
    <2>2. Cardinality(kept') = Cardinality(kept) - 1
      BY <1>1, LentFinite, FS_RemoveElement
    <2>3. LentNow' = Cardinality(Lent') + Cardinality(kept')
      BY DEF LentNow, Lent
    <2> QED
      BY <2>1, <2>2, <2>3, LentFinite
  <1> QED
    BY <1>1, <1>7, <1>8, <1>9 DEF Objects, MostInv

\* A turn of the loop adds an object that was not there.
LEMMA LoopAdds ==
  ASSUME PoolInv, NEW t \in Threads, PushEntry(t), index[t] < GroupSize
  PROVE  LET x == <<memory[t][1], memory[t][2] + index[t]>>
         IN  /\ x \notin Starts
             /\ Starts' = Starts \cup {x}
             /\ StartsDiffer'
             /\ Objects' = Objects + 1
             /\ MostInv'
  <1> DEFINE q == UnAllocateObjectList
             x == <<memory[t][1], memory[t][2] + index[t]>>
             r == <<x>> \o q
  <1>1. TypeOK /\ StartsDiffer /\ StartInv /\ pc[t] = "PushEntry"
    BY DEF PoolInv, PushEntry
  <1>2. UnAllocateObjectList' = r /\ object' = object /\ kept' = kept /\ mostLent' = mostLent
    BY <1>1, LoopTurn
  <1>3. q \in Seq(Addresses) /\ x \in Addresses /\ Inside(x, memory[t])
    BY <1>1, PushedAddress DEF TypeOK
  <1>4. /\ Len(r) = Len(q) + 1
        /\ r[1] = x
        /\ \A i \in DOMAIN r : i # 1 => i - 1 \in DOMAIN q /\ r[i] = q[i - 1]
        /\ Elems(r) = Elems(q) \cup {x}
    BY <1>3, PushFront
  <1>5. \A i \in DOMAIN r : i \in Int
    BY <1>3, PushFront, LenProperties
  <1>6. x \notin Starts
    <2> SUFFICES ASSUME x \in Starts
                 PROVE  FALSE
      OBVIOUS
    <2>1. x[2] + TypeSize <= memory[t][2] + index[t]
      BY <1>1, <1>3 DEF StartInv
    <2>2. x[2] = memory[t][2] + index[t] /\ x[2] \in Int
      BY <1>3, AddressParts
    <2> QED
      BY <2>1, <2>2, Sizes
  <1> HIDE DEF r, x
  <1>7. Lent' = Lent
    BY <1>2 DEF Lent
  <1>8. Starts' = Starts \cup {x}
    <2>1. Starts' = Elems(UnAllocateObjectList') \cup {object'[s] : s \in Lent'} \cup kept
      BY <1>2 DEF Starts, Elems
    <2>2. Elems(UnAllocateObjectList') = Elems(r)
      BY <1>2
    <2>3. {object'[s] : s \in Lent'} = {object[s] : s \in Lent}
      BY <1>2, <1>7
    <2> QED
      BY <1>4, <2>1, <2>2, <2>3 DEF Starts
  <1>9. StartsDiffer'
    <2>1. /\ \A i \in DOMAIN q : q[i] # x
          /\ \A s \in Lent : object[s] # x
      BY <1>6 DEF Starts, Elems
    <2>2. \A i \in DOMAIN r, j \in DOMAIN r : i # j => r[i] # r[j]
      <3> SUFFICES ASSUME NEW i \in DOMAIN r, NEW j \in DOMAIN r, i # j
                   PROVE  r[i] # r[j]
        OBVIOUS
      <3>1. CASE i = 1 \/ j = 1
        BY <1>4, <2>1, <3>1
      <3>2. CASE i # 1 /\ j # 1
        <4>1. i - 1 # j - 1
          BY <1>5
        <4> QED
          BY <1>1, <1>4, <3>2, <4>1 DEF StartsDiffer
      <3> QED
        BY <3>1, <3>2
    <2>3. \A s \in Lent, i \in DOMAIN r : object[s] # r[i]
      BY <1>1, <1>4, <2>1 DEF StartsDiffer
    <2>4. \A i \in DOMAIN r : r[i] \notin kept
      BY <1>1, <1>4, <1>6 DEF StartsDiffer, Starts
    <2> QED
      BY <1>1, <1>2, <1>7, <2>2, <2>3, <2>4 DEF StartsDiffer
  <1>10. LentNow' = LentNow
    BY <1>2 DEF LentNow
  <1>11. Objects' = Objects + 1
    <2>1. Len(q) \in Nat
      BY <1>3, LenProperties
    <2> QED
      BY <1>1, <1>2, <1>4, <1>10, <2>1, LentFinite DEF Objects
  <1>12. MostInv'
    BY <1>2, <1>10 DEF PoolInv, MostInv
  <1> QED
    BY <1>6, <1>8, <1>9, <1>11, <1>12 DEF x

\* Every object is an address.
LEMMA StartsAreAddresses ==
  ASSUME TypeOK
  PROVE  \A a \in Starts : a \in Addresses /\ a[2] \in Int
  <1>1. Elems(UnAllocateObjectList) \subseteq Addresses
    BY ElementOfSeq, LenProperties DEF Elems, TypeOK
  <1>2. Starts \subseteq Addresses
    BY <1>1 DEF Starts, Lent, TypeOK
  <1> QED
    BY <1>2, AddressParts

\* What the steps that neither cut nor take a chunk do to the objects.
LEMMA ObjectsStay ==
  ASSUME PoolInv, NEW t \in Threads,
         \/ GenerateObject(t) \/ PopEntry(t) \/ Wait(t) \/ QueryDepth(t)
         \/ Allocate(t) \/ FreeObject(t) \/ Push(t) \/ Leave(t) \/ TakeOver(t)
  PROVE  /\ Starts' = Starts /\ StartsDiffer' /\ Objects' = Objects /\ MostInv'
         /\ UNCHANGED <<HeadMemory, index>>
         /\ \A s \in Threads : (pc'[s] = "PushEntry") = (pc[s] = "PushEntry")
         /\ \A s \in Threads : pc[s] = "PushEntry" => memory'[s] = memory[s]
  <1>1. TypeOK /\ LentInv /\ StartsDiffer /\ MostInv
    BY DEF PoolInv
  <1>2. ASSUME UNCHANGED <<UnAllocateObjectList, users>>
        PROVE  Starts' = Starts /\ StartsDiffer' /\ Objects' = Objects /\ MostInv'
    BY <1>1, <1>2 DEF Starts, Elems, Lent, StartsDiffer, Objects, LentNow, MostInv
  <1>3. CASE GenerateObject(t)
    BY <1>1, <1>2, <1>3 DEF GenerateObject, Go, TypeOK
  <1>4. CASE PopEntry(t)
    <2>1. Starts' = Starts /\ StartsDiffer' /\ Objects' = Objects /\ MostInv'
      <3>1. CASE UnAllocateObjectList # <<>>
        BY <1>1, <1>4, <3>1, PopMoves
      <3>2. CASE UnAllocateObjectList = <<>>
        BY <1>2, <1>4, <3>2 DEF PopEntry
      <3> QED
        BY <3>1, <3>2
    <2> QED
      BY <1>1, <1>4, <2>1 DEF PopEntry, Go, pool, TypeOK
  <1>5. CASE Wait(t)
    BY <1>1, <1>2, <1>5 DEF Wait, Go, pool, TypeOK
  <1>6. CASE QueryDepth(t)
    BY <1>1, <1>2, <1>6 DEF QueryDepth, Go, pool, TypeOK
  <1>7. CASE Allocate(t)
    BY <1>1, <1>2, <1>7 DEF Allocate, Go, TypeOK
  <1>8. CASE FreeObject(t)
    BY <1>1, <1>2, <1>8 DEF FreeObject, Go, pool, TypeOK
  <1>9. CASE Push(t)
    <2>1. Starts' = Starts /\ StartsDiffer' /\ Objects' = Objects /\ MostInv'
      BY <1>1, <1>9, PushMoves
    <2> QED
      BY <1>1, <1>9, <2>1 DEF Push, Go, pool, TypeOK
  <1>10. CASE Leave(t)
    <2>1. Starts' = Starts /\ StartsDiffer' /\ Objects' = Objects /\ MostInv'
      BY <1>1, <1>10, LeaveMoves
    <2> QED
      BY <1>1, <1>10, <2>1 DEF Leave, Go, pool, TypeOK
  <1>11. CASE TakeOver(t)
    <2>1. Starts' = Starts /\ StartsDiffer' /\ Objects' = Objects /\ MostInv'
      BY <1>1, <1>11, TakeOverMoves
    <2> QED
      BY <1>1, <1>11, <2>1 DEF TakeOver, Go, pool, TypeOK
  <1> QED
    BY <1>3, <1>4, <1>5, <1>6, <1>7, <1>8, <1>9, <1>10, <1>11

\* What PopMemory does: the cutter has a chunk in which no object starts.
LEMMA ChunkTaken ==
  ASSUME PoolInv, NEW t \in Threads, PopMemory(t)
  PROVE  /\ Starts' = Starts /\ StartsDiffer' /\ Objects' = Objects /\ MostInv'
         /\ memory' = memory /\ index'[t] = 0
         /\ pc[t] = "PopMemory" /\ pc'[t] = "PushEntry"
         /\ \A s \in Threads : s # t => pc'[s] # "PushEntry" /\ pc[s] # "PushEntry"
         /\ Len(HeadMemory') = Len(HeadMemory) + 1
         /\ DOMAIN HeadMemory' = DOMAIN HeadMemory \cup {Len(HeadMemory) + 1}
         /\ HeadMemory'[Len(HeadMemory) + 1] = memory[t]
         /\ \A i \in DOMAIN HeadMemory : HeadMemory'[i] = HeadMemory[i]
         /\ \A a \in Starts : ~Inside(a, memory[t])
  <1> DEFINE h == HeadMemory
             c == memory[t]
  <1>1. TypeOK /\ MutexInv /\ StartsDiffer /\ StartInv /\ ChunkInv /\ MostInv
    BY DEF PoolInv
  <1>2. /\ pc[t] = "PopMemory"
        /\ HeadMemory' = Append(h, c)
        /\ UNCHANGED <<UnAllocateObjectList, users, memory>>
        /\ index' = [index EXCEPT ![t] = 0]
        /\ pc' = [pc EXCEPT ![t] = "PushEntry"]
    BY DEF PopMemory, Go
  <1>3. Starts' = Starts /\ StartsDiffer' /\ Objects' = Objects /\ MostInv'
    BY <1>1, <1>2 DEF Starts, Elems, Lent, StartsDiffer, Objects, LentNow, MostInv
  <1>4. pc'[t] = "PushEntry" /\ index'[t] = 0
    BY <1>1, <1>2 DEF TypeOK
  <1>5. \A s \in Threads : s # t => pc'[s] # "PushEntry" /\ pc[s] # "PushEntry"
    <2>1. \A s \in Threads : Cutting(s) => s = t
      BY <1>1, <1>2, OneCutter DEF Cutting
    <2> QED
      BY <1>1, <1>2, <2>1 DEF Cutting, TypeOK
  <1>6. UnAllocateMemory \in Seq(Addresses) /\ h \in Seq(Addresses)
    BY <1>1 DEF TypeOK
  <1>7. /\ c \in Addresses /\ 1 \in DOMAIN UnAllocateMemory /\ c = UnAllocateMemory[1]
    BY <1>1, <1>2, <1>6, PopFront DEF ChunkInv
  <1>8. /\ Len(Append(h, c)) = Len(h) + 1
        /\ DOMAIN Append(h, c) = DOMAIN h \cup {Len(h) + 1}
        /\ Append(h, c)[Len(h) + 1] = c
        /\ \A i \in DOMAIN h : Append(h, c)[i] = h[i]
    BY <1>6, <1>7, PushBack
  <1>9. ASSUME NEW a \in Starts, Inside(a, c)
        PROVE  FALSE
    <2>1. PICK i \in DOMAIN h : Inside(a, h[i])
      BY <1>1 DEF StartInv
    <2>2. Clear(c, h[i])
      BY <1>1, <1>7 DEF ChunkInv, ChunksClear
    <2>3. h[i] \in Addresses
      BY <1>6, ElementOfSeq, LenProperties
    <2>4. h[i][2] \in Int /\ c[2] \in Int
      BY <1>7, <2>3, AddressParts
    <2>5. a[2] \in Int
      BY <1>1, StartsAreAddresses
    <2> QED
      BY <1>9, <2>1, <2>2, <2>4, <2>5, Sizes DEF Inside, Clear
  <1> QED
    BY <1>2, <1>3, <1>4, <1>5, <1>8, <1>9

\* Objects stay where they are, apart in their chunks, and free or lent once.
LEMMA StartStep ==
  ASSUME PoolInv, NEW t \in Threads, StepOf(t)
  PROVE  StartsDiffer' /\ StartInv' /\ FillInv' /\ MostInv'
  <1>1. TypeOK /\ MutexInv /\ StartInv /\ FillInv /\ ChunkInv
    BY DEF PoolInv
  <1>2. CASE \/ GenerateObject(t) \/ PopEntry(t) \/ Wait(t) \/ QueryDepth(t)
             \/ Allocate(t) \/ FreeObject(t) \/ Push(t) \/ Leave(t) \/ TakeOver(t)
    <2>1. /\ Starts' = Starts /\ StartsDiffer' /\ MostInv'
          /\ UNCHANGED <<HeadMemory, index>>
          /\ \A s \in Threads : (pc'[s] = "PushEntry") = (pc[s] = "PushEntry")
          /\ \A s \in Threads : pc[s] = "PushEntry" => memory'[s] = memory[s]
      BY <1>2, ObjectsStay
    <2>2. FillInv'
      BY <1>1, <2>1 DEF FillInv
    <2>3. StartInv'
      BY <1>1, <2>1 DEF StartInv
    <2> QED
      BY <2>1, <2>2, <2>3
  <1>3. CASE PopMemory(t)
    <2> DEFINE h == HeadMemory
               n == Len(HeadMemory) + 1
    <2>1. /\ Starts' = Starts /\ StartsDiffer' /\ MostInv'
          /\ memory' = memory
          /\ \A s \in Threads : s # t => pc'[s] # "PushEntry"
          /\ DOMAIN HeadMemory' = DOMAIN h \cup {n}
          /\ HeadMemory'[n] = memory[t]
          /\ \A i \in DOMAIN h : HeadMemory'[i] = h[i]
          /\ \A a \in Starts : ~Inside(a, memory[t])
      BY <1>3, ChunkTaken
    <2> HIDE DEF n
    <2>2. \A a \in Starts, i \in DOMAIN HeadMemory' :
            Inside(a, HeadMemory'[i]) => i \in DOMAIN h /\ HeadMemory'[i] = h[i]
      BY <2>1
    <2>3. FillInv'
      BY <1>1, <2>1, <2>2 DEF FillInv
    <2>4. \A a \in Starts : \E i \in DOMAIN HeadMemory' : Inside(a, HeadMemory'[i])
      BY <1>1, <2>1 DEF StartInv
    <2>5. \A a, b \in Starts, i \in DOMAIN HeadMemory' :
            a # b /\ Inside(a, HeadMemory'[i]) /\ Inside(b, HeadMemory'[i]) => Apart(a, b)
      BY <1>1, <2>2 DEF StartInv
    <2>6. \A s \in Threads, a \in Starts :
            ~(pc'[s] = "PushEntry" /\ Inside(a, memory'[s]))
      BY <2>1
    <2>7. StartInv'
      BY <2>1, <2>4, <2>5, <2>6 DEF StartInv
    <2> QED
      BY <2>1, <2>3, <2>7
  <1>4. CASE PushEntry(t)
    <2>1. pc[t] = "PushEntry"
      BY <1>4 DEF PushEntry
    <2>2. \A s \in Threads : pc[s] = "PushEntry" => s = t
      BY <1>1, <2>1, OneCutter DEF Cutting
    <2>3. CASE ~(index[t] < GroupSize)
      <3>1. /\ UNCHANGED <<UnAllocateObjectList, HeadMemory, users>>
            /\ \A s \in Threads : pc'[s] # "PushEntry"
        BY <1>1, <1>4, <2>2, <2>3, LoopEnd DEF TypeOK
      <3>2. Starts' = Starts /\ StartsDiffer' /\ MostInv'
        BY <3>1 DEF Starts, Elems, Lent, StartsDiffer, LentNow, MostInv, PoolInv
      <3>3. FillInv'
        BY <1>1, <3>1, <3>2 DEF FillInv
      <3>4. StartInv'
        BY <1>1, <3>1, <3>2 DEF StartInv
      <3> QED
        BY <3>2, <3>3, <3>4
    <2>4. CASE index[t] < GroupSize
      <3> DEFINE c == memory[t]
                 x == <<c[1], c[2] + index[t]>>
                 h == HeadMemory
                 n == Len(HeadMemory)
      <3>1. /\ index' = [index EXCEPT ![t] = index[t] + TypeSize]
            /\ UNCHANGED <<memory, pc, HeadMemory>>
        BY <1>1, <1>4, <2>4, LoopTurn
      <3>2. Starts' = Starts \cup {x} /\ StartsDiffer' /\ MostInv'
        BY <1>4, <2>4, LoopAdds
      <3>3. /\ n \in DOMAIN h /\ c = h[n] /\ c \in Addresses
        BY <2>1, CutterPlace
      <3>4. index[t] \in Nat /\ x \in Addresses /\ Inside(x, c)
        BY <2>1, <2>4, PushedAddress
      <3>5. x[2] = c[2] + index[t] /\ x[2] \in Int /\ c[2] \in Int
        BY <3>3, <3>4, AddressParts
      <3> HIDE DEF x, c, n
      <3>6. ASSUME NEW i \in DOMAIN h, Inside(x, h[i])
            PROVE  i = n
        <4> SUFFICES ASSUME i # n
                     PROVE  FALSE
          OBVIOUS
        <4>1. Clear(h[i], c)
          BY <1>1, <3>3 DEF ChunkInv, ChunksClear
        <4>2. h[i] \in Addresses
          BY <1>1, ElementOfSeq, LenProperties DEF TypeOK
        <4>3. h[i][2] \in Int
          BY <4>2, AddressParts
        <4> QED
          BY <3>4, <3>5, <3>6, <4>1, <4>3, Sizes DEF Inside, Clear
      <3>7. \A a \in Starts : a[2] \in Int /\ (Inside(a, c) => a[2] + TypeSize <= x[2])
        BY <1>1, <2>1, <3>5, StartsAreAddresses DEF StartInv, c
      <3>8. \A a \in Starts : Inside(a, c) => Apart(a, x) /\ Apart(x, a)
        BY <3>7 DEF Apart
      <3>9. index'[t] = index[t] + TypeSize
        BY <1>1, <3>1 DEF TypeOK
      <3>10. StartInv'
        <4>1. \A a \in Starts' : \E i \in DOMAIN h : Inside(a, h[i])
          BY <1>1, <3>2, <3>3, <3>4 DEF StartInv
        <4>2. \A a \in Starts', b \in Starts', i \in DOMAIN h :
                a # b /\ Inside(a, h[i]) /\ Inside(b, h[i]) => Apart(a, b)
          BY <1>1, <3>2, <3>3, <3>6, <3>8 DEF StartInv
        <4>3. \A a \in Starts' : Inside(a, c) => a[2] + TypeSize <= c[2] + index'[t]
          BY <3>2, <3>4, <3>5, <3>7, <3>9, Sizes
        <4> QED
          BY <2>2, <3>1, <4>1, <4>2, <4>3 DEF StartInv, c
      <3>11. FillInv'
        <4> SUFFICES ASSUME ObjectsFill
                     PROVE  \A a \in Starts', i \in DOMAIN h : Inside(a, h[i]) => Fits(a, h[i])
          BY <3>1 DEF FillInv, ObjectsFill
        <4>1. PICK m \in 0..PerChunk : index[t] = m * TypeSize
          BY <2>1 DEF PoolInv, CountInv
        <4>2. m \in Nat
          BY <4>1, PerChunkBounds
        <4>3. index[t] + TypeSize <= GroupSize
          BY <2>4, <4>1, <4>2, LastFits
        <4>4. Fits(x, c)
          BY <3>4, <3>5, <4>3, Sizes DEF Fits
        <4> QED
          BY <1>1, <3>2, <3>3, <3>6, <4>4 DEF FillInv
      <3> QED
        BY <3>2, <3>10, <3>11
    <2> QED
      BY <2>3, <2>4
  <1> QED
    BY <1>2, <1>3, <1>4 DEF StepOf

-----------------------------------------------------------------------------
(* How many objects, and how many chunks.                                  *)

\* A thread that meets an empty list meets every object lent.
LEMMA EmptyListMeansAllLent ==
  ASSUME PoolInv, NEW t \in Threads, pc[t] = "QueryDepth", UnAllocateObjectList = <<>>
  PROVE  PerChunk * Len(HeadMemory) <= mostLent
  <1>1. TypeOK /\ MutexInv /\ MostInv /\ CountInv /\ NoThread \notin Threads
    BY Sizes DEF PoolInv
  <1>2. \A s \in Threads : ~Cutting(s)
    <2>1. initFlag = "done"
      BY <1>1 DEF MutexInv, Cutting, TypeOK
    <2>2. AllocationMutex = t
      BY <1>1, <2>1 DEF MutexInv
    <2>3. \A s \in Threads : Cutting(s) => s = t
      BY <1>1, <2>1, <2>2 DEF MutexInv
    <2> QED
      BY <2>3 DEF Cutting
  <1>3. Objects = PerChunk * Len(HeadMemory)
    BY <1>1, <1>2 DEF CountInv, Cutting
  <1>4. Objects = LentNow
    BY <1>1, LentFinite, EmptySeq DEF Objects
  <1> QED
    BY <1>1, <1>3, <1>4 DEF MostInv

\* CountInv is preserved.
LEMMA CountStep ==
  ASSUME PoolInv, NEW t \in Threads, StepOf(t)
  PROVE  CountInv'
  <1>1. TypeOK /\ MutexInv /\ CountInv
    BY DEF PoolInv
  <1>2. Len(HeadMemory) \in Nat /\ PerChunk \in Nat \ {0} /\ PerChunk' = PerChunk
    BY <1>1, LenProperties, PerChunkBounds DEF TypeOK, PerChunk
  <1>3. CASE \/ GenerateObject(t) \/ PopEntry(t) \/ Wait(t) \/ QueryDepth(t)
             \/ Allocate(t) \/ FreeObject(t) \/ Push(t) \/ Leave(t) \/ TakeOver(t)
    <2>1. /\ Objects' = Objects
          /\ UNCHANGED <<HeadMemory, index>>
          /\ \A s \in Threads : (pc'[s] = "PushEntry") = (pc[s] = "PushEntry")
      BY <1>3, ObjectsStay
    <2>2. mostLent \in Nat /\ mostLent' \in Nat /\ mostLent <= mostLent'
      BY <1>1, <1>3, LentFinite
         DEF GenerateObject, PopEntry, Wait, QueryDepth, Allocate, FreeObject, Push, Leave, TakeOver,
             TypeOK
    <2>3. ASSUME NEW s \in Threads, pc'[s] \in {"Allocate", "PopMemory"}
          PROVE  PerChunk * Len(HeadMemory) <= mostLent'
      <3>1. CASE pc[s] \in {"Allocate", "PopMemory"}
        <4>1. PerChunk * Len(HeadMemory) <= mostLent
          BY <1>1, <3>1 DEF CountInv
        <4> QED
          BY <1>2, <2>2, <4>1
      <3>2. CASE pc[s] \notin {"Allocate", "PopMemory"}
        <4>1. s = t /\ \/ GenerateObject(t) /\ initFlag = "none"
                       \/ QueryDepth(t) /\ UnAllocateObjectList = <<>>
          BY <1>1, <1>3, <2>3, <3>2
             DEF GenerateObject, PopEntry, Wait, QueryDepth, Allocate, FreeObject, Push, Leave,
                 TakeOver, Go, TypeOK
        <4>2. CASE GenerateObject(t) /\ initFlag = "none"
          <5>1. Len(HeadMemory) = 0
            BY <1>1, <4>2, EmptySeq DEF MutexInv
          <5> QED
            BY <1>2, <2>2, <5>1
        <4>3. CASE QueryDepth(t) /\ UnAllocateObjectList = <<>>
          <5>1. PerChunk * Len(HeadMemory) <= mostLent
            BY <4>3, EmptyListMeansAllLent DEF QueryDepth
          <5> QED
            BY <1>2, <2>2, <5>1
        <4> QED
          BY <4>1, <4>2, <4>3
      <3> QED
        BY <3>1, <3>2
    <2> QED
      BY <1>1, <1>2, <2>1, <2>3 DEF CountInv
  <1>4. CASE PopMemory(t)
    <2>1. /\ Objects' = Objects /\ index'[t] = 0
          /\ pc[t] = "PopMemory" /\ pc'[t] = "PushEntry"
          /\ \A s \in Threads : s # t => pc'[s] # "PushEntry" /\ pc[s] # "PushEntry"
          /\ Len(HeadMemory') = Len(HeadMemory) + 1
      BY <1>4, ChunkTaken
    <2>2. Objects = PerChunk * Len(HeadMemory)
      BY <1>1, <2>1 DEF CountInv
    <2>3. \A s \in Threads : pc'[s] \notin {"Allocate", "PopMemory"}
      <3>1. \A s \in Threads : Cutting(s) => s = t
        BY <1>1, <2>1, OneCutter DEF Cutting
      <3> QED
        BY <1>1, <1>4, <2>1, <3>1 DEF Cutting, PopMemory, Go, TypeOK
    <2>4. 0 \in 0..PerChunk /\ 0 = 0 * TypeSize
      BY <1>2, Sizes
    <2>5. Objects' = PerChunk * (Len(HeadMemory') - 1) + 0
      BY <1>2, <2>1, <2>2
    <2> QED
      BY <1>2, <2>1, <2>3, <2>4, <2>5 DEF CountInv
  <1>5. CASE PushEntry(t)
    <2>1. pc[t] = "PushEntry"
      BY <1>5 DEF PushEntry
    <2>2. \A s \in Threads : Cutting(s) => s = t
      BY <1>1, <2>1, OneCutter DEF Cutting
    <2>3. PICK m \in 0..PerChunk : /\ index[t] = m * TypeSize
                                   /\ Objects = PerChunk * (Len(HeadMemory) - 1) + m
      BY <1>1, <2>1 DEF CountInv
    <2>4. CASE index[t] < GroupSize
      <3>1. /\ index' = [index EXCEPT ![t] = index[t] + TypeSize]
            /\ UNCHANGED <<pc, HeadMemory>>
        BY <1>1, <1>5, <2>4, LoopTurn
      <3>2. Objects' = Objects + 1
        BY <1>5, <2>4, LoopAdds
      <3>3. m + 1 \in 0..PerChunk
        BY <1>2, <2>3, <2>4, LoopTurns
      <3>4. index'[t] = (m + 1) * TypeSize
        <4>1. index'[t] = index[t] + TypeSize
          BY <1>1, <3>1 DEF TypeOK
        <4> QED
          BY <1>2, <2>3, <4>1, NextMultiple, Sizes
      <3>5. Objects' = PerChunk * (Len(HeadMemory') - 1) + (m + 1)
        BY <1>2, <2>3, <3>1, <3>2
      <3>6. \A s \in Threads : s # t => pc'[s] # "PushEntry"
        BY <2>2, <3>1 DEF Cutting
      <3>7. \A s \in Threads : pc'[s] \notin {"Allocate", "PopMemory"}
        BY <2>1, <2>2, <3>1 DEF Cutting
      <3> QED
        BY <1>2, <2>1, <3>1, <3>3, <3>4, <3>5, <3>6, <3>7 DEF CountInv
    <2>5. CASE ~(index[t] < GroupSize)
      <3>1. /\ pc' = [pc EXCEPT ![t] = "PopEntry"]
            /\ UNCHANGED <<UnAllocateObjectList, HeadMemory, users>>
        BY <1>5, <2>5, LoopEnd
      <3>2. Objects' = Objects
        BY <3>1 DEF Objects, LentNow
      <3>3. m = PerChunk
        BY <1>2, <2>3, <2>5, LoopTurns
      <3>4. Objects' = PerChunk * Len(HeadMemory')
        BY <1>2, <2>3, <3>1, <3>2, <3>3
      <3>5. \A s \in Threads : pc'[s] \notin {"Allocate", "PopMemory", "PushEntry"}
        BY <1>1, <2>2, <3>1 DEF Cutting, TypeOK
      <3> QED
        BY <1>2, <3>4, <3>5 DEF CountInv
    <2> QED
      BY <2>4, <2>5
  <1> QED
    BY <1>3, <1>4, <1>5 DEF StepOf

\* GrowsWhenAllLent is preserved: the one step that takes a chunk takes it
\* after every object was lent.
LEMMA GrowthStep ==
  ASSUME PoolInv, NEW t \in Threads, StepOf(t)
  PROVE  GrowsWhenAllLent'
  <1>1. PerChunk' = PerChunk
    BY DEF PerChunk
  <1>2. Len(HeadMemory) \in Nat /\ PerChunk \in Nat \ {0} /\ mostLent \in Nat
    BY LenProperties, PerChunkBounds DEF PoolInv, TypeOK
  <1>3. CASE PopMemory(t)
    <2>1. Len(HeadMemory') = Len(HeadMemory) + 1 /\ pc[t] = "PopMemory"
      BY <1>3, ChunkTaken
    <2>2. PerChunk * Len(HeadMemory) <= mostLent
      BY <2>1 DEF PoolInv, CountInv
    <2>3. mostLent' = mostLent
      BY <1>3 DEF PopMemory
    <2>4. Len(HeadMemory') - 1 = Len(HeadMemory)
      BY <1>2, <2>1
    <2> QED
      BY <1>1, <2>2, <2>3, <2>4 DEF GrowsWhenAllLent
  <1>4. CASE ~PopMemory(t)
    <2>1. HeadMemory' = HeadMemory /\ (mostLent' = mostLent \/ PopEntry(t))
      BY <1>4 DEF StepOf, GenerateObject, Wait, QueryDepth, Allocate, PushEntry, PopEntry,
                  FreeObject, Push, Leave, TakeOver, pool
    <2>2. mostLent' \in Nat /\ mostLent <= mostLent'
      BY <1>2, <2>1, LentFinite DEF PopEntry, PoolInv
    <2>3. PerChunk * (Len(HeadMemory) - 1) <= mostLent
      BY DEF PoolInv, GrowsWhenAllLent
    <2>4. PerChunk * (Len(HeadMemory) - 1) \in Int
      BY <1>2
    <2>5. PerChunk * (Len(HeadMemory) - 1) <= mostLent'
      BY <1>2, <2>2, <2>3, <2>4
    <2> QED
      BY <1>1, <2>1, <2>5 DEF GrowsWhenAllLent
  <1> QED
    BY <1>3, <1>4

-----------------------------------------------------------------------------
(* The theorems.                                                           *)

\* A process starts with no pool.
LEMMA InitPoolInv == Init => PoolInv
  <1> SUFFICES ASSUME Init
               PROVE  PoolInv
    OBVIOUS
  <1> USE DEF Init
  <1>1. /\ Elems(UnAllocateObjectList) = {} /\ Elems(UnAllocateMemory) = {}
        /\ Elems(HeadMemory) = {} /\ DOMAIN HeadMemory = {} /\ DOMAIN UnAllocateMemory = {}
        /\ DOMAIN UnAllocateObjectList = {} /\ Len(HeadMemory) = 0
        /\ Len(UnAllocateObjectList) = 0
    BY DEF Elems
  <1>2. Lent = {} /\ Starts = {}
    BY <1>1 DEF Lent, Starts
  <1>3. TypeOK
    <2>1. <<>> \in Seq(Addresses)
      OBVIOUS
    <2>2. 0 \in 0..GroupSize + TypeSize - 1 /\ 0 \in 0..MaxPage
      BY Sizes
    <2> QED
      BY <2>1, <2>2 DEF TypeOK
  <1>4. MutexInv /\ LentInv
    BY DEF MutexInv, LentInv
  <1>5. ChunkInv
    BY <1>1 DEF ChunkInv, ChunksClear
  <1>6. StartsDiffer /\ StartInv /\ FillInv
    BY <1>1, <1>2 DEF StartsDiffer, StartInv, FillInv
  <1>7. LentNow = 0
    BY FS_EmptySet, <1>2 DEF LentNow, Lent
  <1>8. CountInv /\ MostInv
    <2>1. Objects = 0 /\ PerChunk * Len(HeadMemory) = 0
      BY <1>1, <1>7, PerChunkBounds DEF Objects
    <2> QED
      BY <1>7, <2>1 DEF CountInv, MostInv
  <1>9. GrowsWhenAllLent
    <2>1. PerChunk * (0 - 1) <= 0
      BY PerChunkBounds
    <2> QED
      BY <1>1, <2>1 DEF GrowsWhenAllLent
  <1> QED
    BY <1>3, <1>4, <1>5, <1>6, <1>8, <1>9 DEF PoolInv

\* Every step of every thread keeps PoolInv.
LEMMA NextPoolInv == PoolInv /\ [Next]_vars => PoolInv'
  <1> SUFFICES ASSUME PoolInv, [Next]_vars
               PROVE  PoolInv'
    OBVIOUS
  <1>1. CASE UNCHANGED vars
    <2>1. UNCHANGED <<initFlag, Memories, UnAllocateMemory, HeadMemory, UnAllocateObjectList,
                      AllocationMutex, memory, index, object, kept, mostLent, pc>>
      BY <1>1 DEF vars
    <2>2. TypeOK' /\ MutexInv' /\ LentInv'
      BY <2>1 DEF PoolInv, TypeOK, MutexInv, Cutting, LentInv
    <2>3. ChunkInv'
      BY <2>1 DEF PoolInv, ChunkInv, ChunksClear
    <2>4. Starts' = Starts /\ Objects' = Objects /\ StartsDiffer' /\ MostInv'
      BY <2>1 DEF PoolInv, Starts, Elems, Lent, LentNow, Objects, StartsDiffer, MostInv
    <2>5. StartInv' /\ FillInv'
      BY <2>1, <2>4 DEF PoolInv, StartInv, FillInv
    <2>6. CountInv' /\ GrowsWhenAllLent'
      BY <2>1, <2>4 DEF PoolInv, CountInv, GrowsWhenAllLent, PerChunk
    <2> QED
      BY <2>2, <2>3, <2>4, <2>5, <2>6 DEF PoolInv
  <1>2. ASSUME NEW t \in Threads, StepOf(t)
        PROVE  PoolInv'
    BY <1>2, TypeStep, MutexStep, LentStep, ChunkStep, StartStep, CountStep, GrowthStep
       DEF PoolInv
  <1> QED
    BY <1>1, <1>2 DEF Next, StepOf

\* PoolInv holds in every state of the pool.
THEOREM PoolSafe == Spec => []PoolInv
  BY InitPoolInv, NextPoolInv, PTL DEF Spec

\* Every variable of MemoryPool, ObjectPool and their threads has its type;
\* the chunks lie in their pages.
THEOREM PoolTypes == Spec => []TypeOK
  <1>1. PoolInv => TypeOK
    BY DEF PoolInv
  <1> QED
    BY <1>1, PoolSafe, PTL

\* Whatever the sizes, no two threads have one object, and none has a free one:
\* Pop, Push and the cutting of chunks may interleave in any way
\* (ObjectPool.h:70-136).
THEOREM ObjectsLentOnce == Spec => []StartsDiffer
  <1>1. PoolInv => StartsDiffer
    BY DEF PoolInv
  <1> QED
    BY <1>1, PoolSafe, PTL

\* Two objects of one pool lie apart, in one chunk or in two.
LEMMA TwoStartsApart ==
  ASSUME PoolInv, ObjectsFill, NEW a \in Starts, NEW b \in Starts, a # b
  PROVE  Apart(a, b)
  <1> DEFINE h == HeadMemory
  <1>1. TypeOK /\ ChunksClear /\ StartInv /\ FillInv
    BY DEF PoolInv, ChunkInv
  <1>2. PICK i \in DOMAIN h : Inside(a, h[i])
    BY <1>1 DEF StartInv
  <1>3. PICK j \in DOMAIN h : Inside(b, h[j])
    BY <1>1 DEF StartInv
  <1>4. CASE i = j
    BY <1>1, <1>2, <1>3, <1>4 DEF StartInv
  <1>5. CASE i # j
    <2>1. Clear(h[i], h[j])
      BY <1>1, <1>5 DEF ChunksClear
    <2>2. Fits(a, h[i]) /\ Fits(b, h[j])
      BY <1>1, <1>2, <1>3 DEF FillInv
    <2>3. a[2] \in Int /\ b[2] \in Int
      BY <1>1, StartsAreAddresses
    <2>4. h[i] \in Addresses /\ h[j] \in Addresses
      BY <1>1, ElementOfSeq, LenProperties DEF TypeOK
    <2>5. h[i][2] \in Int /\ h[j][2] \in Int
      BY <2>4, AddressParts
    <2> QED
      BY <1>2, <1>3, <2>1, <2>2, <2>3, <2>5, Sizes DEF Clear, Fits, Inside, Apart
  <1> QED
    BY <1>4, <1>5

\* When the size of the objects divides the chunk's, no two of them share a
\* byte, free or lent, in one page or in two (ObjectPool.h:70-136,
\* MemoryPool.cpp:15-42).
THEOREM ObjectsLieApart ==
  ASSUME ObjectsFill
  PROVE  Spec => []ObjectsApart
  <1>1. PoolInv => ObjectsApart
    <2> SUFFICES ASSUME PoolInv
                 PROVE  ObjectsApart
      OBVIOUS
    <2> DEFINE free == UnAllocateObjectList
    <2>1. /\ \A i \in DOMAIN free : free[i] \in Starts
          /\ \A t \in Lent : object[t] \in Starts
          /\ \A a \in kept : a \in Starts
      BY DEF Starts, Elems
    <2>2. StartsDiffer
      BY DEF PoolInv
    <2>3. \A a, b \in Starts : a # b => Apart(a, b)
      BY TwoStartsApart
    <2>4. /\ \A i, j \in DOMAIN free : i # j => Apart(free[i], free[j])
          /\ \A s, t \in Lent : s # t => Apart(object[s], object[t])
          /\ \A t \in Lent, i \in DOMAIN free : Apart(object[t], free[i])
          /\ \A a, b \in kept : a # b => Apart(a, b)
          /\ \A t \in Lent, a \in kept : Apart(object[t], a)
          /\ \A i \in DOMAIN free, a \in kept : Apart(free[i], a)
      BY <2>1, <2>2, <2>3 DEF StartsDiffer
    <2> QED
      BY <2>4 DEF ObjectsApart, Lent
  <1> QED
    BY <1>1, PoolSafe, PTL

\* When the size of the objects divides the chunk's, none passes the end of
\* its page (MemoryPool.cpp:15-32).
THEOREM ObjectsInsidePage ==
  ASSUME ObjectsFill
  PROVE  Spec => []InsidePage
  <1>1. PoolInv => InsidePage
    <2> SUFFICES ASSUME PoolInv
                 PROVE  InsidePage
      OBVIOUS
    <2>1. TypeOK /\ ChunkInv /\ StartInv /\ FillInv
      BY DEF PoolInv
    <2>2. ASSUME NEW a \in Starts
          PROVE  a[2] + TypeSize <= Size
      <3>1. PICK i \in DOMAIN HeadMemory : Inside(a, HeadMemory[i])
        BY <2>1 DEF StartInv
      <3>2. Fits(a, HeadMemory[i])
        BY <2>1, <3>1 DEF FillInv
      <3>3. HeadMemory[i][2] + GroupSize <= Size
        BY <2>1 DEF ChunkInv, Elems
      <3>4. HeadMemory[i] \in Addresses
        BY <2>1, ElementOfSeq, LenProperties DEF TypeOK
      <3>5. a[2] \in Int /\ HeadMemory[i][2] \in Int
        BY <2>1, <3>4, StartsAreAddresses, AddressParts
      <3> QED
        BY <3>2, <3>3, <3>5, Sizes DEF Fits
    <2>3. /\ \A i \in DOMAIN UnAllocateObjectList : UnAllocateObjectList[i] \in Starts
          /\ \A t \in Threads : object[t] # Null => object[t] \in Starts
          /\ \A a \in kept : a \in Starts
      BY DEF Starts, Elems, Lent
    <2> QED
      BY <2>2, <2>3 DEF InsidePage
  <1> QED
    BY <1>1, PoolSafe, PTL

\* Whatever the sizes, however many threads meet an empty list together, and
\* however many objects are never given back, the pool takes a chunk only after
\* all the objects of its other chunks were lent (ObjectPool.h:77-86).
THEOREM PoolGrowsByNeed == Spec => []GrowsWhenAllLent
  <1>1. PoolInv => GrowsWhenAllLent
    BY DEF PoolInv
  <1> QED
    BY <1>1, PoolSafe, PTL

=============================================================================
