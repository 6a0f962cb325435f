------------------------- MODULE DatabasePoolProofs -------------------------
(***************************************************************************)
(* The safety of DatabasePool for any number of threads and connections,   *)
(* and the refinement of ConnectionPool.  PoolInv is inductive: LendInv    *)
(* says where each connection is, PermitsCountConnections what the         *)
(* semaphore stands for.                                                   *)
(***************************************************************************)
EXTENDS DatabasePool, FiniteSetTheorems, FunctionTheorems, SequenceTheorems, TLAPS

Elems(q)    == {q[i] : i \in DOMAIN q}
Distinct(q) == \A i, j \in DOMAIN q : q[i] = q[j] => i = j

\* The lock is owned in the middle of PopWrapper and of PushWrapper.
LockOwned == \A t \in Threads : pc[t] \in {"Pop", "Permit"} <=> DatabasesMutex = t

\* A thread has a connection from front() to its push or its return.
WrapperHeld ==
    \A t \in Threads : pc[t] \in {"Pop", "Querying", "Push"} <=> wrapper[t] # NoWrapper

\* Between front() and pop() the head of the queue is the thread's own.
HeadTaken ==
    \A t \in Threads : pc[t] = "Pop" => Databases # <<>> /\ wrapper[t] = Head(Databases)

LendInv ==
    /\ TypeOK
    /\ Distinct(Databases)
    /\ LockOwned
    /\ WrapperHeld
    /\ HeadTaken
    /\ LentOnce

PoolInv == LendInv /\ PermitsCountConnections

-----------------------------------------------------------------------------
(* The queue.                                                              *)

\* The pool's size is a number, which is how many connections there are.
LEMMA PoolSize == MAX_POOL_SIZE \in Nat /\ IsFiniteSet(Connections)
  BY FS_CardinalityType, PoolAssumption DEF MAX_POOL_SIZE

\* front() and pop() of a queue without repetition take one connection out.
LEMMA PopTakesHead ==
  ASSUME NEW q \in Seq(Connections), q # <<>>, Distinct(q)
  PROVE  /\ Head(q) \in Elems(q)
         /\ Head(q) \in Connections
         /\ Tail(q) \in Seq(Connections)
         /\ Distinct(Tail(q))
         /\ Elems(Tail(q)) = Elems(q) \ {Head(q)}
         /\ Len(Tail(q)) = Len(q) - 1
  <1>1. /\ Len(q) \in Nat \ {0}
        /\ DOMAIN q = 1..Len(q)
        /\ Head(q) = q[1]
    BY EmptySeq, LenProperties
  <1>2. /\ Tail(q) \in Seq(Connections)
        /\ Len(Tail(q)) = Len(q) - 1
        /\ Head(q) \in Connections
        /\ \A i \in 1..Len(Tail(q)) : Tail(q)[i] = q[i + 1]
    BY HeadTailProperties
  <1>3. DOMAIN Tail(q) = 1..(Len(q) - 1)
    BY <1>2, LenProperties
  <1>4. Distinct(Tail(q))
    BY <1>1, <1>2, <1>3 DEF Distinct
  <1>5. ASSUME NEW c \in Elems(Tail(q)) PROVE c \in Elems(q) /\ c # Head(q)
    BY <1>1, <1>2, <1>3 DEF Elems, Distinct
  <1>6. ASSUME NEW c \in Elems(q), c # Head(q) PROVE c \in Elems(Tail(q))
    <2>1. PICK i \in 1..Len(q) : c = q[i]
      BY <1>1 DEF Elems
    <2>2. i - 1 \in DOMAIN Tail(q) /\ Tail(q)[i - 1] = c
      BY <1>1, <1>2, <1>3, <1>6, <2>1
    <2> QED
      BY <2>2 DEF Elems
  <1>7. Elems(Tail(q)) = Elems(q) \ {Head(q)}
    BY <1>5, <1>6
  <1>8. Head(q) \in Elems(q)
    BY <1>1 DEF Elems
  <1> QED
    BY <1>2, <1>4, <1>7, <1>8

\* A push of a connection that is not in the queue.
LEMMA PushAddsOne ==
  ASSUME NEW q \in Seq(Connections), NEW c \in Connections, c \notin Elems(q), Distinct(q)
  PROVE  /\ Append(q, c) \in Seq(Connections)
         /\ Append(q, c) # <<>>
         /\ Distinct(Append(q, c))
         /\ Elems(Append(q, c)) = Elems(q) \cup {c}
         /\ Len(Append(q, c)) = Len(q) + 1
  <1> DEFINE p == Append(q, c)
  <1>1. /\ p \in Seq(Connections)
        /\ p # <<>>
        /\ Len(p) = Len(q) + 1
        /\ \A i \in 1..Len(q) : p[i] = q[i]
        /\ p[Len(q) + 1] = c
    BY AppendProperties
  <1>2. /\ Len(q) \in Nat
        /\ DOMAIN q = 1..Len(q)
        /\ DOMAIN p = 1..(Len(q) + 1)
    BY <1>1, LenProperties
  <1> HIDE DEF p
  <1>3. \A i \in 1..Len(q) : q[i] # c
    BY <1>2 DEF Elems
  <1>4. Distinct(p)
    BY <1>1, <1>2, <1>3 DEF Distinct
  <1>5. \A d \in Elems(p) : d \in Elems(q) \cup {c}
    BY <1>1, <1>2 DEF Elems
  <1>6. \A d \in Elems(q) \cup {c} : d \in Elems(p)
    BY <1>1, <1>2 DEF Elems
  <1> QED
    BY <1>1, <1>4, <1>5, <1>6 DEF p

\* A queue without repetition is no longer than the pool, and all of the pool
\* when it is as long.
LEMMA QueueFits ==
  ASSUME NEW q \in Seq(Connections), Distinct(q)
  PROVE  /\ Len(q) <= MAX_POOL_SIZE
         /\ Len(q) = MAX_POOL_SIZE => Elems(q) = Connections
  <1>1. /\ Len(q) \in Nat
        /\ DOMAIN q = 1..Len(q)
        /\ q \in [1..Len(q) -> Connections]
    BY LenProperties
  <1>2. q \in Injection(1..Len(q), Connections)
    BY <1>1 DEF Injection, IsInjective, Distinct
  <1>3. Cardinality(1..Len(q)) = Len(q)
    BY <1>1, FS_Interval
  <1>4. /\ Len(q) <= MAX_POOL_SIZE
        /\ Len(q) = MAX_POOL_SIZE <=> q \in Surjection(1..Len(q), Connections)
    BY <1>2, <1>3, PoolSize, FS_Injection DEF MAX_POOL_SIZE
  <1>5. ASSUME q \in Surjection(1..Len(q), Connections) PROVE Elems(q) = Connections
    BY <1>1, <1>5 DEF Surjection, Elems
  <1> QED
    BY <1>4, <1>5

-----------------------------------------------------------------------------
(* Each connection has one place.                                          *)

\* The server starts with every connection queued and no thread at work.
LEMMA InitLendInv == Init => LendInv
  <1> SUFFICES ASSUME Init PROVE LendInv
    OBVIOUS
  <1> USE PoolAssumption, PoolSize DEF Init
  <1>1. Databases \in Seq(Connections) /\ Len(Databases) = MAX_POOL_SIZE
    OBVIOUS
  <1>2. TypeOK
    BY <1>1 DEF TypeOK
  <1>3. Distinct(Databases)
    BY DEF Distinct
  <1>4. LockOwned /\ WrapperHeld /\ HeadTaken
    BY DEF LockOwned, WrapperHeld, HeadTaken
  <1>5. LentOnce
    <2>1. Idle \subseteq Connections
      BY DEF Idle
    <2> QED
      BY <2>1 DEF LentOnce
  <1> QED
    BY <1>2, <1>3, <1>4, <1>5 DEF LendInv

\* What Init and the steps say of Idle is said of the queue's elements.
LEMMA IdleIsQueued == Idle = Elems(Databases) /\ Idle' = Elems(Databases')
  BY DEF Idle, Elems

\* Every step moves one thread t, and at most one connection between the queue
\* and t: the other threads keep theirs, and the lock is t's where it matters.
LEMMA NextLendInv == LendInv /\ [Next]_vars => LendInv'
  <1> SUFFICES ASSUME LendInv, [Next]_vars PROVE LendInv'
    OBVIOUS
  <1> USE PoolAssumption
  <1>t. /\ TypeOK /\ Distinct(Databases) /\ LockOwned
        /\ WrapperHeld /\ HeadTaken /\ LentOnce
    BY DEF LendInv
  <1>i. /\ Idle = Elems(Databases)
        /\ Idle' = Elems(Databases')
        /\ Idle \subseteq Connections
    BY <1>t, IdleIsQueued, LenProperties DEF TypeOK, Elems
  <1>s. MAX_POOL_SIZE \in Nat
    BY PoolSize
  <1>1. CASE UNCHANGED vars
    BY <1>t, <1>1 DEF LendInv, vars, TypeOK, Distinct, LockOwned, WrapperHeld,
                      HeadTaken, LentOnce, Idle
  <1>2. ASSUME NEW t \in Threads, CallService(t) PROVE LendInv'
    <2>1. TypeOK' /\ Distinct(Databases)' /\ LockOwned' /\ WrapperHeld' /\ HeadTaken'
      BY <1>t, <1>2 DEF CallService, Go, TypeOK, Distinct, LockOwned, WrapperHeld, HeadTaken
    <2>2. LentOnce'
      BY <1>t, <1>2 DEF CallService, Go, TypeOK, LentOnce, Idle
    <2> QED
      BY <2>1, <2>2 DEF LendInv
  <1>3. ASSUME NEW t \in Threads, WaitSemaphore(t) PROVE LendInv'
    <2>1. TypeOK'
      BY <1>s, <1>t, <1>3 DEF WaitSemaphore, Go, TypeOK
    <2>2. Distinct(Databases)' /\ LockOwned' /\ WrapperHeld' /\ HeadTaken'
      BY <1>t, <1>3 DEF WaitSemaphore, Go, TypeOK, Distinct, LockOwned, WrapperHeld, HeadTaken
    <2>3. LentOnce'
      BY <1>t, <1>3 DEF WaitSemaphore, Go, TypeOK, LentOnce, Idle
    <2> QED
      BY <2>1, <2>2, <2>3 DEF LendInv
  <1>4. ASSUME NEW t \in Threads, Front(t) PROVE LendInv'
    <2>1. /\ Head(Databases) \in Connections
          /\ Head(Databases) \in Idle
      BY <1>i, <1>t, <1>4, PopTakesHead DEF Front, TypeOK
    <2>2. TypeOK'
      BY <2>1, <1>t, <1>4 DEF Front, Go, TypeOK
    <2>3. Distinct(Databases)' /\ LockOwned' /\ WrapperHeld' /\ HeadTaken'
      BY <2>1, <1>t, <1>4 DEF Front, Go, TypeOK, Distinct, LockOwned, WrapperHeld, HeadTaken
    <2>4. \A s \in Threads : s # t => wrapper[s] # Head(Databases)
      BY <2>1, <1>t, <1>4 DEF Front, TypeOK, LockOwned, LentOnce
    <2>5. LentOnce'
      BY <2>1, <2>4, <1>t, <1>4 DEF Front, Go, TypeOK, LentOnce, Idle
    <2> QED
      BY <2>2, <2>3, <2>5 DEF LendInv
  <1>5. ASSUME NEW t \in Threads, Pop(t) PROVE LendInv'
    <2>1. /\ Databases' \in Seq(Connections)
          /\ Distinct(Databases')
          /\ Idle' = Idle \ {wrapper[t]}
      BY <1>i, <1>t, <1>5, PopTakesHead DEF Pop, TypeOK, HeadTaken
    <2>2. \A s \in Threads : s # t => pc[s] # "Pop"
      BY <1>t, <1>5 DEF Pop, LockOwned
    <2>3. TypeOK'
      BY <2>1, <1>t, <1>5 DEF Pop, Go, TypeOK
    <2>4. LockOwned' /\ WrapperHeld' /\ HeadTaken'
      BY <2>2, <1>t, <1>5 DEF Pop, Go, TypeOK, LockOwned, WrapperHeld, HeadTaken
    <2>5. LentOnce'
      BY <2>1, <2>2, <1>t, <1>5 DEF Pop, Go, TypeOK, LentOnce
    <2> QED
      BY <2>1, <2>3, <2>4, <2>5 DEF LendInv, Distinct
  <1>6. ASSUME NEW t \in Threads, CallPush(t) PROVE LendInv'
    <2>1. TypeOK' /\ Distinct(Databases)' /\ LockOwned' /\ WrapperHeld' /\ HeadTaken'
      BY <1>t, <1>6 DEF CallPush, Go, TypeOK, Distinct, LockOwned, WrapperHeld, HeadTaken
    <2>2. LentOnce'
      BY <1>t, <1>6 DEF CallPush, Go, TypeOK, LentOnce, Idle
    <2> QED
      BY <2>1, <2>2 DEF LendInv
  <1>7. ASSUME NEW t \in Threads, ReturnWithoutPush(t) PROVE LendInv'
    <2>1. TypeOK' /\ Distinct(Databases)' /\ LockOwned' /\ WrapperHeld' /\ HeadTaken'
      BY <1>t, <1>7 DEF ReturnWithoutPush, Go, TypeOK, Distinct, LockOwned, WrapperHeld, HeadTaken
    <2>2. LentOnce'
      BY <1>i, <1>t, <1>7 DEF ReturnWithoutPush, Go, TypeOK, LentOnce, Idle
    <2> QED
      BY <2>1, <2>2 DEF LendInv
  <1>8. ASSUME NEW t \in Threads, Push(t) PROVE LendInv'
    <2>1. wrapper[t] \in Connections /\ wrapper[t] \notin Elems(Databases)
      BY <1>i, <1>t, <1>8 DEF Push, TypeOK, WrapperHeld, LentOnce
    <2>2. /\ Databases' \in Seq(Connections)
          /\ Distinct(Databases')
          /\ Idle' = Idle \cup {wrapper[t]}
      BY <2>1, <1>i, <1>t, <1>8, PushAddsOne DEF Push, TypeOK
    <2>3. \A s \in Threads : pc[s] \notin {"Pop", "Permit"}
      BY <1>t, <1>8 DEF Push, LockOwned
    <2>4. TypeOK'
      BY <2>2, <1>t, <1>8 DEF Push, Go, TypeOK
    <2>5. LockOwned' /\ WrapperHeld' /\ HeadTaken'
      BY <2>3, <1>t, <1>8 DEF Push, Go, TypeOK, LockOwned, WrapperHeld, HeadTaken
    <2>6. LentOnce'
      BY <2>1, <2>2, <2>3, <1>i, <1>t, <1>8 DEF Push, Go, TypeOK, LentOnce
    <2> QED
      BY <2>2, <2>4, <2>5, <2>6 DEF LendInv, Distinct
  <1>9. ASSUME NEW t \in Threads, Permit(t) PROVE LendInv'
    <2>1. TypeOK'
      BY <1>s, <1>t, <1>9 DEF Permit, Go, TypeOK
    <2>2. Distinct(Databases)' /\ LockOwned' /\ WrapperHeld' /\ HeadTaken'
      BY <1>t, <1>9 DEF Permit, Go, TypeOK, Distinct, LockOwned, WrapperHeld, HeadTaken
    <2>3. LentOnce'
      BY <1>t, <1>9 DEF Permit, Go, TypeOK, LentOnce, Idle
    <2> QED
      BY <2>1, <2>2, <2>3 DEF LendInv
  <1> QED
    BY <1>1, <1>2, <1>3, <1>4, <1>5, <1>6, <1>7, <1>8, <1>9 DEF Next, Service

-----------------------------------------------------------------------------
(* What the semaphore counts.                                              *)

\* The threads between their permit and the queue are finitely many.
LEMMA InsideFinite == IsFiniteSet(Inside) /\ Cardinality(Inside) \in Nat
  BY PoolAssumption, FS_Subset, FS_CardinalityType DEF Inside

\* The server starts with as many permits as connections.
LEMMA InitPermits == Init => PermitsCountConnections
  <1> SUFFICES ASSUME Init PROVE PermitsCountConnections
    OBVIOUS
  <1>1. Inside = {}
    BY DEF Init, Inside
  <1>2. Len(Databases) = MAX_POOL_SIZE
    BY PoolSize DEF Init
  <1> QED
    BY <1>1, <1>2, FS_EmptySet, PoolSize DEF Init, PermitsCountConnections

\* A thread that is past the semaphore has a connection to find, and one on its
\* way out has room for its permit.
LEMMA InsideCounts ==
  ASSUME PoolInv, NEW t \in Inside
  PROVE  /\ Len(Databases) \in Nat \ {0}
         /\ Databases # <<>>
         /\ DBSemaphore < MAX_POOL_SIZE
  <1>1. /\ TypeOK
        /\ Distinct(Databases)
        /\ Len(Databases) = DBSemaphore + Cardinality(Inside)
    BY DEF PoolInv, LendInv, PermitsCountConnections
  <1>2. Cardinality(Inside) \in Nat \ {0}
    BY InsideFinite, FS_EmptySet
  <1>3. Len(Databases) \in Nat /\ Len(Databases) <= MAX_POOL_SIZE
    BY <1>1, QueueFits, LenProperties DEF TypeOK
  <1>4. DBSemaphore \in Nat /\ MAX_POOL_SIZE \in Nat
    BY <1>1, PoolSize DEF TypeOK
  <1>5. Len(Databases) # 0 /\ DBSemaphore < MAX_POOL_SIZE
    BY <1>1, <1>2, <1>3, <1>4
  <1> QED
    BY <1>1, <1>3, <1>5, EmptySeq DEF TypeOK

\* Every step keeps the count: a permit is taken before the pop and given back
\* after the push, by the thread that is inside meanwhile.
LEMMA NextPermits == PoolInv /\ [Next]_vars => PermitsCountConnections'
  <1> SUFFICES ASSUME PoolInv, [Next]_vars PROVE PermitsCountConnections'
    OBVIOUS
  <1>t. /\ TypeOK /\ Distinct(Databases) /\ HeadTaken /\ WrapperHeld /\ LentOnce
        /\ Len(Databases) = DBSemaphore + Cardinality(Inside)
    BY DEF PoolInv, LendInv, PermitsCountConnections
  <1>n. /\ DBSemaphore \in Nat
        /\ Len(Databases) \in Nat
        /\ Cardinality(Inside) \in Nat
        /\ IsFiniteSet(Inside)
    BY <1>t, PoolSize, InsideFinite, LenProperties DEF TypeOK
  <1>p. \A t \in Threads : t \in Inside <=> pc[t] \in {"Front", "Pop", "Permit"}
    BY DEF Inside
  \* A step of t moves no other thread in or out.
  <1>f. ASSUME NEW t \in Threads, NEW next, Go(t, next)
        PROVE  /\ next \in {"Front", "Pop", "Permit"} => Inside' = Inside \cup {t}
               /\ next \notin {"Front", "Pop", "Permit"} => Inside' = Inside \ {t}
    BY <1>t, <1>f DEF Go, TypeOK, Inside
  <1>1. CASE UNCHANGED vars
    BY <1>t, <1>1 DEF vars, PermitsCountConnections, Inside
  \* CallService, CallPush and ReturnWithoutPush: t is outside and stays so.
  <1>2. ASSUME NEW t \in Threads,
               CallService(t) \/ CallPush(t) \/ ReturnWithoutPush(t)
        PROVE  PermitsCountConnections'
    <2>1. Inside' = Inside /\ UNCHANGED <<Databases, DBSemaphore>>
      BY <1>2, <1>f, <1>p DEF CallService, CallPush, ReturnWithoutPush
    <2> QED
      BY <2>1, <1>t DEF PermitsCountConnections
  <1>3. ASSUME NEW t \in Threads, WaitSemaphore(t) PROVE PermitsCountConnections'
    <2>1. t \notin Inside /\ Inside' = Inside \cup {t}
      BY <1>3, <1>f, <1>p DEF WaitSemaphore
    <2>2. Cardinality(Inside') = Cardinality(Inside) + 1
      BY <2>1, <1>n, FS_AddElement
    <2>3. DBSemaphore' = DBSemaphore - 1 /\ Databases' = Databases
      BY <1>3 DEF WaitSemaphore
    <2> QED
      BY <2>2, <2>3, <1>t, <1>n DEF PermitsCountConnections
  <1>4. ASSUME NEW t \in Threads, Front(t) PROVE PermitsCountConnections'
    <2>1. Inside' = Inside /\ UNCHANGED <<Databases, DBSemaphore>>
      BY <1>4, <1>f, <1>p DEF Front
    <2> QED
      BY <2>1, <1>t DEF PermitsCountConnections
  <1>5. ASSUME NEW t \in Threads, Pop(t) PROVE PermitsCountConnections'
    <2>1. t \in Inside /\ Inside' = Inside \ {t}
      BY <1>5, <1>f, <1>p DEF Pop
    <2>2. Cardinality(Inside') = Cardinality(Inside) - 1
      BY <2>1, <1>n, FS_RemoveElement
    <2>3. Len(Databases') = Len(Databases) - 1 /\ DBSemaphore' = DBSemaphore
      BY <1>5, <1>t, PopTakesHead DEF Pop, TypeOK, HeadTaken
    <2> QED
      BY <2>2, <2>3, <1>t, <1>n DEF PermitsCountConnections
  <1>6. ASSUME NEW t \in Threads, Push(t) PROVE PermitsCountConnections'
    <2>1. t \notin Inside /\ Inside' = Inside \cup {t}
      BY <1>6, <1>f, <1>p DEF Push
    <2>2. Cardinality(Inside') = Cardinality(Inside) + 1
      BY <2>1, <1>n, FS_AddElement
    <2>3. wrapper[t] \in Connections /\ wrapper[t] \notin Elems(Databases)
      BY <1>t, <1>6, IdleIsQueued DEF Push, TypeOK, WrapperHeld, LentOnce
    <2>4. Len(Databases') = Len(Databases) + 1 /\ DBSemaphore' = DBSemaphore
      BY <2>3, <1>6, <1>t, PushAddsOne DEF Push, TypeOK
    <2> QED
      BY <2>2, <2>4, <1>t, <1>n DEF PermitsCountConnections
  <1>7. ASSUME NEW t \in Threads, Permit(t) PROVE PermitsCountConnections'
    <2>1. t \in Inside /\ Inside' = Inside \ {t}
      BY <1>7, <1>f, <1>p DEF Permit
    <2>2. Cardinality(Inside') = Cardinality(Inside) - 1
      BY <2>1, <1>n, FS_RemoveElement
    <2>3. DBSemaphore' = DBSemaphore + 1 /\ Databases' = Databases
      BY <2>1, <1>7, InsideCounts DEF Permit
    <2> QED
      BY <2>2, <2>3, <1>t, <1>n DEF PermitsCountConnections
  <1> QED
    BY <1>1, <1>2, <1>3, <1>4, <1>5, <1>6, <1>7 DEF Next, Service

-----------------------------------------------------------------------------
(* The theorems.                                                           *)

\* PoolInv holds in every behaviour of the pool and its callers.
THEOREM PoolSafe == Spec => []PoolInv
  <1>1. Init => PoolInv
    BY InitLendInv, InitPermits DEF PoolInv
  <1>2. PoolInv /\ [Next]_vars => PoolInv'
    BY NextLendInv, NextPermits DEF PoolInv
  <1> QED
    BY <1>1, <1>2, PTL DEF Spec

\* The queue, the semaphore, the lock and the threads keep their types; the
\* count of the semaphore never passes MAX_POOL_SIZE (DatabasePool.cpp:23).
THEOREM PoolTypeCorrect == Spec => []TypeOK
  <1>1. PoolInv => TypeOK
    BY DEF PoolInv, LendInv
  <1> QED
    BY <1>1, PoolSafe, PTL

\* front() and pop() always find a connection (DatabasePool.cpp:29-31).
THEOREM PopNeverEmpty == Spec => []PopFindsConnection
  <1>1. PoolInv => PopFindsConnection
    BY InsideCounts DEF PopFindsConnection, Inside
  <1> QED
    BY <1>1, PoolSafe, PTL

\* No connection is at two places at once (DatabasePool.cpp:27-45).
THEOREM NoSharedConnection == Spec => []LentOnce
  <1>1. PoolInv => LentOnce
    BY DEF PoolInv, LendInv
  <1> QED
    BY <1>1, PoolSafe, PTL

\* The semaphore counts the queue (DatabasePool.cpp:27-45).
THEOREM PermitsAreConnections == Spec => []PermitsCountConnections
  <1>1. PoolInv => PermitsCountConnections
    BY DEF PoolInv
  <1> QED
    BY <1>1, PoolSafe, PTL

\* The pool's start is the abstract pool's: all of the connections are free.
LEMMA InitRefines == Init => Pool!Init
  <1> SUFFICES ASSUME Init PROVE Pool!Init
    OBVIOUS
  <1>1. LendInv /\ Len(Databases) = MAX_POOL_SIZE
    BY InitLendInv, PoolSize DEF Init
  <1>2. Idle = Connections
    BY <1>1, QueueFits, IdleIsQueued DEF LendInv, TypeOK
  <1>3. Lent = [t \in Threads |-> NoWrapper]
    BY DEF Init, Lent
  <1> QED
    BY <1>2, <1>3 DEF Pool!Init

\* pop() lends, the push in PushWrapper gives back, the return without a push
\* drops; every other step changes nothing the services can see.
LEMMA NextRefines == PoolInv /\ [Next]_vars => [Pool!Next]_Pool!vars
  <1> SUFFICES ASSUME PoolInv, [Next]_vars PROVE [Pool!Next]_Pool!vars
    OBVIOUS
  <1> USE DEF Pool!vars
  <1>t. /\ TypeOK /\ Distinct(Databases) /\ LockOwned
        /\ WrapperHeld /\ HeadTaken /\ LentOnce
    BY DEF PoolInv, LendInv
  <1>1. CASE UNCHANGED vars
    BY <1>1 DEF vars, Idle, Lent
  <1>2. ASSUME NEW t \in Threads,
               \/ CallService(t) \/ WaitSemaphore(t) \/ CallPush(t) \/ Permit(t)
        PROVE  UNCHANGED <<Idle, Lent>>
    <2>1. /\ Databases' = Databases /\ wrapper' = wrapper
          /\ \A s \in Threads : pc'[s] = "Pop" <=> pc[s] = "Pop"
      BY <1>t, <1>2 DEF CallService, WaitSemaphore, CallPush, Permit, Go, TypeOK
    <2> QED
      BY <2>1 DEF Idle, Lent
  <1>3. ASSUME NEW t \in Threads, Front(t) PROVE UNCHANGED <<Idle, Lent>>
    <2>1. /\ wrapper[t] = NoWrapper
          /\ Databases' = Databases
          /\ pc' = [pc EXCEPT ![t] = "Pop"]
          /\ \A s \in Threads : s # t => wrapper'[s] = wrapper[s]
      BY <1>t, <1>3 DEF Front, Go, TypeOK, WrapperHeld
    <2>2. \A s \in Threads : Lent'[s] = Lent[s]
      BY <2>1, <1>t DEF Lent, TypeOK
    <2> QED
      BY <2>1, <2>2 DEF Idle, Lent
  <1>4. ASSUME NEW t \in Threads, Pop(t) PROVE Pool!Lend(t)
    <2>1. /\ wrapper[t] \in Idle
          /\ Idle' = Idle \ {wrapper[t]}
      BY <1>t, <1>4, PopTakesHead, IdleIsQueued DEF Pop, TypeOK, HeadTaken
    <2>2. Lent[t] = NoWrapper /\ Lent' = [Lent EXCEPT ![t] = wrapper[t]]
      BY <1>t, <1>4 DEF Pop, Go, TypeOK, Lent
    <2> QED
      BY <2>1, <2>2 DEF Pool!Lend
  <1>5. ASSUME NEW t \in Threads, Push(t) PROVE Pool!GiveBack(t)
    <2>1. /\ wrapper[t] \in Connections
          /\ wrapper[t] # NoWrapper
          /\ wrapper[t] \notin Idle
      BY <1>t, <1>5 DEF Push, TypeOK, WrapperHeld, LentOnce
    <2>2. Idle' = Idle \cup {wrapper[t]}
      BY <2>1, <1>t, <1>5, PushAddsOne, IdleIsQueued DEF Push, TypeOK
    <2>3. Lent[t] = wrapper[t] /\ Lent' = [Lent EXCEPT ![t] = NoWrapper]
      BY <1>t, <1>5 DEF Push, Go, TypeOK, Lent
    <2> QED
      BY <2>1, <2>2, <2>3 DEF Pool!GiveBack
  <1>6. ASSUME NEW t \in Threads, ReturnWithoutPush(t) PROVE Pool!Drop(t)
    <2>1. wrapper[t] # NoWrapper /\ Idle' = Idle
      BY <1>t, <1>6 DEF ReturnWithoutPush, WrapperHeld, Idle
    <2>2. Lent[t] = wrapper[t] /\ Lent' = [Lent EXCEPT ![t] = NoWrapper]
      BY <1>t, <1>6 DEF ReturnWithoutPush, Go, TypeOK, Lent
    <2> QED
      BY <2>1, <2>2 DEF Pool!Drop
  <1> QED
    BY <1>1, <1>2, <1>3, <1>4, <1>5, <1>6 DEF Next, Service, Pool!Next

\* DatabasePool implements ConnectionPool: each connection is free, lent to one
\* thread, or closed for good (DatabasePool.cpp:14-45).
THEOREM PoolRefines == Spec => PoolSpec
  <1>1. Init => Pool!Init
    BY InitRefines
  <1>2. PoolInv /\ [Next]_vars => [Pool!Next]_Pool!vars
    BY NextRefines
  <1> QED
    BY <1>1, <1>2, PoolSafe, PTL DEF Spec, PoolSpec, Pool!Spec

=============================================================================
