----------------------------- MODULE ObjectPool -----------------------------
(***************************************************************************)
(* One PoolingManager: a MemoryPool cuts pages into chunks of GroupSize,   *)
(* an ObjectPool cuts chunks into objects of TypeSize and lends them to    *)
(* threads.  The free objects are an interlocked SList; AllocationMutex    *)
(* guards the MemoryPool, and call_once makes both pools.                  *)
(*                                                                         *)
(* An address is a page and an offset in it: pages come from malloc and    *)
(* lie apart.  One unit is the 16 bytes every TYPE is aligned to.  What is *)
(* in an object is left out.                                               *)
(***************************************************************************)
EXTENDS Integers, Sequences, FiniteSets

CONSTANTS
    Threads,        \* the threads that use objects of this type
    Size,           \* of a page
    GroupSize,      \* of a chunk
    TypeSize,       \* of an object
    MaxPage,        \* bound: pages
    MaxKept,        \* bound: objects that no thread has and none has freed
    NoThread        \* nobody

\* Every pool has a page of 1 MiB and chunks of 1 KiB (PoolingManager.h:39-42).
ASSUME PoolAssumption ==
    /\ IsFiniteSet(Threads)
    /\ NoThread \notin Threads
    /\ {Size, GroupSize, TypeSize} \subseteq Nat \ {0}
    /\ Size % GroupSize = 0
    /\ MaxPage \in Nat \ {0}
    /\ MaxKept \in Nat

Addresses == (1..MaxPage) \X (0..Size - 1)
Null      == <<0, 0>>

VARIABLES
    initFlag,               \* of call_once: "none", "running" or "done"
    Memories,               \* pages made
    UnAllocateMemory,       \* MemoryPool's queue of chunks
    HeadMemory,             \* the chunks of the ObjectPool
    UnAllocateObjectList,   \* its free objects, the last one pushed first
    AllocationMutex,        \* its owner
    memory,                 \* the chunk each thread cuts
    index,                  \* how far it has got
    object,                 \* the object each thread has
    kept,                   \* lent objects a thread left and did not free
    mostLent,               \* history: the most objects that were lent at once
    pc                      \* where each thread is

vars == <<initFlag, Memories, UnAllocateMemory, HeadMemory,
          UnAllocateObjectList, AllocationMutex, memory, index, object,
          kept, mostLent, pc>>

pool == <<initFlag, Memories, UnAllocateMemory, HeadMemory>>
users == <<object, kept, mostLent>>

\* How many objects are lent.
LentNow == Cardinality({t \in Threads : object[t] # Null}) + Cardinality(kept)

\* A thread is in AllocateMemory.
Cutting(t) == pc[t] \in {"Allocate", "PopMemory", "PushEntry"}

TypeOK ==
    /\ initFlag \in {"none", "running", "done"}
    /\ Memories \in 0..MaxPage
    /\ UnAllocateMemory \in Seq(Addresses)
    /\ HeadMemory \in Seq(Addresses)
    /\ UnAllocateObjectList \in Seq(Addresses)
    /\ AllocationMutex \in Threads \cup {NoThread}
    /\ memory \in [Threads -> Addresses \cup {Null}]
    /\ index \in [Threads -> 0..GroupSize + TypeSize - 1]
    /\ object \in [Threads -> Addresses \cup {Null}]
    /\ kept \subseteq Addresses
    /\ mostLent \in Nat
    /\ pc \in [Threads -> {"Idle", "PopEntry", "Wait", "QueryDepth", "Allocate",
                           "PopMemory", "PushEntry", "Using", "Push"}]

Init ==
    /\ initFlag = "none"
    /\ Memories = 0
    /\ UnAllocateMemory = <<>>
    /\ HeadMemory = <<>>
    /\ UnAllocateObjectList = <<>>
    /\ AllocationMutex = NoThread
    /\ memory = [t \in Threads |-> Null]
    /\ index = [t \in Threads |-> 0]
    /\ object = [t \in Threads |-> Null]
    /\ kept = {}
    /\ mostLent = 0
    /\ pc = [t \in Threads |-> "Idle"]

Go(t, next) == pc' = [pc EXCEPT ![t] = next]

-----------------------------------------------------------------------------
(* MemoryPool                                                              *)

\* A mutant: a loop to index <= Size.
CreateMemoryOneMore(p) ==
    [i \in 1..(Size \div GroupSize + 1) |-> <<p, (i - 1) * GroupSize>>]

\* The chunks of page p, as CreateMemory queues them.
CreateMemory(p) ==
    [i \in 1..((Size + GroupSize - 1) \div GroupSize) |-> <<p, (i - 1) * GroupSize>>]

\* MemoryPool's constructor, which makes the first page.
NewMemoryPool ==
    /\ Memories' = 1
    /\ UnAllocateMemory' = CreateMemory(1)

\* Allocate: a new page when the queue is empty, and front().
Allocate(t) ==
    /\ pc[t] = "Allocate"
    /\ \/ /\ UnAllocateMemory = <<>>
          /\ Memories < MaxPage
          /\ Memories' = Memories + 1
          /\ UnAllocateMemory' = CreateMemory(Memories')
       \/ /\ UnAllocateMemory # <<>>
          /\ UNCHANGED <<Memories, UnAllocateMemory>>
    /\ memory' = [memory EXCEPT ![t] = Head(UnAllocateMemory')]
    /\ Go(t, "PopMemory")
    /\ UNCHANGED <<initFlag, HeadMemory, UnAllocateObjectList, AllocationMutex, index, users>>

-----------------------------------------------------------------------------
(* ObjectPool::AllocateMemory                                              *)

\* pop() of a queue that must not be empty; the chunk is the ObjectPool's.
PopMemory(t) ==
    /\ pc[t] = "PopMemory"
    /\ UnAllocateMemory # <<>>
    /\ UnAllocateMemory' = Tail(UnAllocateMemory)
    /\ HeadMemory' = Append(HeadMemory, memory[t])
    /\ index' = [index EXCEPT ![t] = 0]
    /\ Go(t, "PushEntry")
    /\ UNCHANGED <<initFlag, Memories, UnAllocateObjectList, AllocationMutex, memory, users>>

\* A mutant: the start of the next chunk is pushed too.
PushEntryOneMore(t) ==
    /\ pc[t] = "PushEntry"
    /\ \/ /\ index[t] <= GroupSize
          /\ UnAllocateObjectList' =
               << <<memory[t][1], memory[t][2] + index[t]>> >> \o UnAllocateObjectList
          /\ index' = [index EXCEPT ![t] = @ + TypeSize]
          /\ UNCHANGED <<initFlag, AllocationMutex, memory, pc>>
       \/ /\ index[t] > GroupSize
          /\ memory' = [memory EXCEPT ![t] = Null]
          /\ index' = [index EXCEPT ![t] = 0]
          /\ IF AllocationMutex = t
             THEN AllocationMutex' = NoThread /\ UNCHANGED initFlag
             ELSE initFlag' = "done" /\ UNCHANGED AllocationMutex
          /\ Go(t, "PopEntry")
          /\ UNCHANGED UnAllocateObjectList
    /\ UNCHANGED <<Memories, UnAllocateMemory, HeadMemory, users>>

\* One turn of its loop, which pushes an object for every start in the chunk.
\* Then ReleaseMutex, or the end of call_once.
PushEntry(t) ==
    /\ pc[t] = "PushEntry"
    /\ \/ /\ index[t] < GroupSize
          /\ UnAllocateObjectList' =
               << <<memory[t][1], memory[t][2] + index[t]>> >> \o UnAllocateObjectList
          /\ index' = [index EXCEPT ![t] = @ + TypeSize]
          /\ UNCHANGED <<initFlag, AllocationMutex, memory, pc>>
       \/ /\ index[t] >= GroupSize
          /\ memory' = [memory EXCEPT ![t] = Null]
          /\ index' = [index EXCEPT ![t] = 0]
          /\ IF AllocationMutex = t
             THEN AllocationMutex' = NoThread /\ UNCHANGED initFlag
             ELSE initFlag' = "done" /\ UNCHANGED AllocationMutex
          /\ Go(t, "PopEntry")
          /\ UNCHANGED UnAllocateObjectList
    /\ UNCHANGED <<Memories, UnAllocateMemory, HeadMemory, users>>

-----------------------------------------------------------------------------
(* PoolingManager::GenerateObject and ObjectPool::AllocateObject           *)

\* call_once: the first thread makes the pools, those that come meanwhile wait.
GenerateObject(t) ==
    /\ pc[t] = "Idle"
    /\ \/ /\ initFlag = "none"
          /\ initFlag' = "running"
          /\ NewMemoryPool
          /\ Go(t, "Allocate")
       \/ /\ initFlag = "done"
          /\ Go(t, "PopEntry")
          /\ UNCHANGED <<initFlag, Memories, UnAllocateMemory>>
    /\ UNCHANGED <<HeadMemory, UnAllocateObjectList, AllocationMutex, memory, index, users>>

\* InterlockedPopEntrySList, with no mutex.
PopEntry(t) ==
    /\ pc[t] = "PopEntry"
    /\ \/ /\ UnAllocateObjectList # <<>>
          /\ object' = [object EXCEPT ![t] = Head(UnAllocateObjectList)]
          /\ UnAllocateObjectList' = Tail(UnAllocateObjectList)
          /\ mostLent' = IF LentNow < mostLent THEN mostLent ELSE LentNow + 1
          /\ Go(t, "Using")
       \/ /\ UnAllocateObjectList = <<>>
          /\ Go(t, "Wait")
          /\ UNCHANGED <<object, mostLent, UnAllocateObjectList>>
    /\ UNCHANGED <<pool, AllocationMutex, memory, index, kept>>

\* A mutant: no mutex around AllocateMemory.
WaitSkipped(t) ==
    /\ pc[t] = "Wait"
    /\ AllocationMutex' = t
    /\ Go(t, "QueryDepth")
    /\ UNCHANGED <<pool, UnAllocateObjectList, memory, index, users>>

\* WaitForSingleObject(AllocationMutex, INFINITE)
Wait(t) ==
    /\ pc[t] = "Wait"
    /\ AllocationMutex = NoThread
    /\ AllocationMutex' = t
    /\ Go(t, "QueryDepth")
    /\ UNCHANGED <<pool, UnAllocateObjectList, memory, index, users>>

\* A mutant: the list is not looked at again under the mutex.
QueryDepthSkipped(t) ==
    /\ pc[t] = "QueryDepth"
    /\ Go(t, "Allocate")
    /\ UNCHANGED <<pool, UnAllocateObjectList, AllocationMutex, memory, index, users>>

\* Another thread may have cut a chunk, or freed an object, meanwhile.
QueryDepth(t) ==
    /\ pc[t] = "QueryDepth"
    /\ \/ /\ UnAllocateObjectList = <<>>
          /\ Go(t, "Allocate")
          /\ UNCHANGED AllocationMutex
       \/ /\ UnAllocateObjectList # <<>>
          /\ AllocationMutex' = NoThread
          /\ Go(t, "PopEntry")
    /\ UNCHANGED <<pool, UnAllocateObjectList, memory, index, users>>

-----------------------------------------------------------------------------
(* ObjectPool::FreeObject                                                  *)

\* The destructor, and memset of the object.
FreeObject(t) ==
    /\ pc[t] = "Using"
    /\ Go(t, "Push")
    /\ UNCHANGED <<pool, UnAllocateObjectList, AllocationMutex, memory, index, users>>

\* InterlockedPushEntrySList, and *InObject = nullptr.
Push(t) ==
    /\ pc[t] = "Push"
    /\ UnAllocateObjectList' = <<object[t]>> \o UnAllocateObjectList
    /\ object' = [object EXCEPT ![t] = Null]
    /\ Go(t, "Idle")
    /\ UNCHANGED <<pool, AllocationMutex, memory, index, kept, mostLent>>

-----------------------------------------------------------------------------
(* The code that has an object.                                            *)

\* It goes on without it: AcceptProc has put it in the parameter of the thread
\* it makes, LogoutController forgets its ResultPacket, and RecvProc its header
\* when it breaks.  So one thread may have taken any number of objects.
Leave(t) ==
    /\ pc[t] = "Using"
    /\ Cardinality(kept) < MaxKept
    /\ kept' = kept \cup {object[t]}
    /\ object' = [object EXCEPT ![t] = Null]
    /\ Go(t, "Idle")
    /\ UNCHANGED <<pool, UnAllocateObjectList, AllocationMutex, memory, index, mostLent>>

\* RecvProc has the parameter AcceptProc took, and frees it when it ends.
TakeOver(t) ==
    /\ pc[t] = "Idle"
    /\ \E a \in kept :
          /\ kept' = kept \ {a}
          /\ object' = [object EXCEPT ![t] = a]
    /\ Go(t, "Using")
    /\ UNCHANGED <<pool, UnAllocateObjectList, AllocationMutex, memory, index, mostLent>>

-----------------------------------------------------------------------------

Next ==
    \E t \in Threads :
        \/ GenerateObject(t) \/ PopEntry(t) \/ Wait(t) \/ QueryDepth(t)
        \/ Allocate(t) \/ PopMemory(t) \/ PushEntry(t)
        \/ FreeObject(t) \/ Push(t) \/ Leave(t) \/ TakeOver(t)

Spec == Init /\ [][Next]_vars

-----------------------------------------------------------------------------
(* Properties.                                                             *)

\* Two objects share no byte.
Apart(a, b) == a[1] = b[1] => a[2] + TypeSize <= b[2] \/ b[2] + TypeSize <= a[2]

\* Whatever two threads write into their objects, into the links of the free
\* ones, or with the memset of FreeObject, is not the same memory
\* (ObjectPool.h:70-136, MemoryPool.cpp:15-42).  README.md:90 promises Pop and
\* Push that are safe with many threads.
ObjectsApart ==
    LET free == UnAllocateObjectList
        lent == {t \in Threads : object[t] # Null}
    IN  /\ \A i, j \in DOMAIN free : i # j => Apart(free[i], free[j])
        /\ \A s, t \in lent : s # t => Apart(object[s], object[t])
        /\ \A t \in lent, i \in DOMAIN free : Apart(object[t], free[i])
        /\ \A a, b \in kept : a # b => Apart(a, b)
        /\ \A t \in lent, a \in kept : Apart(object[t], a)
        /\ \A i \in DOMAIN free, a \in kept : Apart(free[i], a)

\* No object passes the end of its page (MemoryPool.cpp:17).
InsidePage ==
    /\ \A i \in DOMAIN UnAllocateObjectList : UnAllocateObjectList[i][2] + TypeSize <= Size
    /\ \A t \in Threads : object[t] # Null => object[t][2] + TypeSize <= Size
    /\ \A a \in kept : a[2] + TypeSize <= Size

\* The pool grows only by need: when it takes a chunk, every object of the
\* chunks it has is lent, however many threads find the list empty together
\* and however many objects were never given back (ObjectPool.h:77-86).
PerChunk == (GroupSize + TypeSize - 1) \div TypeSize
GrowsWhenAllLent == PerChunk * (Len(HeadMemory) - 1) <= mostLent

=============================================================================
