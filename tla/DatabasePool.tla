---------------------------- MODULE DatabasePool ----------------------------
(***************************************************************************)
(* DatabasePool and its callers.  DBSemaphore counts the connections in    *)
(* the queue Databases, DatabasesMutex guards the queue.  A service runs   *)
(* in a RecvProc thread: it pops one connection, runs its queries and      *)
(* pushes it back.  One path of EntryRoomService::PasswordCompare returns  *)
(* without the push, and its shared_ptr closes the connection.             *)
(***************************************************************************)
EXTENDS Naturals, Sequences, FiniteSets

CONSTANTS
    Threads,        \* RecvProc threads that run services
    Connections,    \* the DatabaseWrappers Initialization makes
    NoWrapper       \* a null shared_ptr, or nobody for DatabasesMutex

ASSUME PoolAssumption ==
    /\ IsFiniteSet(Threads)
    /\ IsFiniteSet(Connections)
    /\ NoWrapper \notin Connections
    /\ NoWrapper \notin Threads

MAX_POOL_SIZE == Cardinality(Connections)

VARIABLES
    Databases,          \* the queue of idle connections
    DBSemaphore,        \* its count
    DatabasesMutex,     \* its owner
    wrapper,            \* the connection each thread's shared_ptr holds
    pc                  \* where each thread is

vars == <<Databases, DBSemaphore, DatabasesMutex, wrapper, pc>>

Idle == {Databases[i] : i \in DOMAIN Databases}

TypeOK ==
    /\ Databases \in Seq(Connections)
    /\ DBSemaphore \in 0..MAX_POOL_SIZE
    /\ DatabasesMutex \in Threads \cup {NoWrapper}
    /\ wrapper \in [Threads -> Connections \cup {NoWrapper}]
    /\ pc \in [Threads -> {"Working", "Wait", "Front", "Pop", "Querying", "Push", "Permit"}]

\* Initialization: every connection is made once and queued.
Init ==
    /\ Databases \in [1..MAX_POOL_SIZE -> Connections]
    /\ \A i, j \in 1..MAX_POOL_SIZE : Databases[i] = Databases[j] => i = j
    /\ DBSemaphore = MAX_POOL_SIZE
    /\ DatabasesMutex = NoWrapper
    /\ wrapper = [t \in Threads |-> NoWrapper]
    /\ pc = [t \in Threads |-> "Working"]

Go(t, next) == pc' = [pc EXCEPT ![t] = next]

\* A controller calls a service, which calls PopWrapper.
CallService(t) ==
    /\ pc[t] = "Working"
    /\ Go(t, "Wait")
    /\ UNCHANGED <<Databases, DBSemaphore, DatabasesMutex, wrapper>>

\* A mutant: a wait that times out and is not looked at.
WaitTimesOut(t) ==
    /\ pc[t] = "Wait"
    /\ DBSemaphore' = IF DBSemaphore > 0 THEN DBSemaphore - 1 ELSE 0
    /\ Go(t, "Front")
    /\ UNCHANGED <<Databases, DatabasesMutex, wrapper>>

\* PopWrapper: WaitForSingleObject(DBSemaphore, INFINITE)
WaitSemaphore(t) ==
    /\ pc[t] = "Wait"
    /\ DBSemaphore > 0
    /\ DBSemaphore' = DBSemaphore - 1
    /\ Go(t, "Front")
    /\ UNCHANGED <<Databases, DatabasesMutex, wrapper>>

\* A mutant: no unique_lock in PopWrapper.
FrontUnlocked(t) ==
    /\ pc[t] = "Front"
    /\ wrapper' = [wrapper EXCEPT ![t] = Head(Databases)]
    /\ Go(t, "Pop")
    /\ UNCHANGED <<Databases, DBSemaphore, DatabasesMutex>>

\* The unique_lock, and result = Databases.front() of a queue that must not be
\* empty.
Front(t) ==
    /\ pc[t] = "Front"
    /\ DatabasesMutex = NoWrapper
    /\ Databases # <<>>
    /\ DatabasesMutex' = t
    /\ wrapper' = [wrapper EXCEPT ![t] = Head(Databases)]
    /\ Go(t, "Pop")
    /\ UNCHANGED <<Databases, DBSemaphore>>

\* Databases.pop(), and the lock goes out of scope.
Pop(t) ==
    /\ pc[t] = "Pop"
    /\ Databases' = Tail(Databases)
    /\ DatabasesMutex' = NoWrapper
    /\ Go(t, "Querying")
    /\ UNCHANGED <<DBSemaphore, wrapper>>

\* The service is done with its queries.
CallPush(t) ==
    /\ pc[t] = "Querying"
    /\ Go(t, "Push")
    /\ UNCHANGED <<Databases, DBSemaphore, DatabasesMutex, wrapper>>

\* PasswordCompare of a room with no password: return true, and no push.
ReturnWithoutPush(t) ==
    /\ pc[t] = "Querying"
    /\ wrapper' = [wrapper EXCEPT ![t] = NoWrapper]
    /\ Go(t, "Working")
    /\ UNCHANGED <<Databases, DBSemaphore, DatabasesMutex>>

\* A mutant: the caller's pointer is not reset, and the thread goes on with it.
PushKeepsPointer(t) ==
    /\ pc[t] = "Push"
    /\ DatabasesMutex = NoWrapper
    /\ DatabasesMutex' = t
    /\ Databases' = Append(Databases, wrapper[t])
    /\ Go(t, "Permit")
    /\ UNCHANGED <<DBSemaphore, wrapper>>

\* PushWrapper: the unique_lock, the push, and database = nullptr.
Push(t) ==
    /\ pc[t] = "Push"
    /\ DatabasesMutex = NoWrapper
    /\ DatabasesMutex' = t
    /\ Databases' = Append(Databases, wrapper[t])
    /\ wrapper' = [wrapper EXCEPT ![t] = NoWrapper]
    /\ Go(t, "Permit")
    /\ UNCHANGED DBSemaphore

\* A mutant: the permit is released twice.
PermitTwice(t) ==
    /\ pc[t] = "Permit"
    /\ DBSemaphore' = DBSemaphore + 2
    /\ DatabasesMutex' = NoWrapper
    /\ Go(t, "Working")
    /\ UNCHANGED <<Databases, wrapper>>

\* A mutant: an early return that skips ReleaseSemaphore.
PermitSkipped(t) ==
    /\ pc[t] = "Permit"
    /\ DatabasesMutex' = NoWrapper
    /\ Go(t, "Working")
    /\ UNCHANGED <<Databases, DBSemaphore, wrapper>>

\* ReleaseSemaphore, which changes nothing when the count is at its maximum;
\* then the lock goes out of scope.
Permit(t) ==
    /\ pc[t] = "Permit"
    /\ DBSemaphore' = IF DBSemaphore < MAX_POOL_SIZE THEN DBSemaphore + 1 ELSE DBSemaphore
    /\ DatabasesMutex' = NoWrapper
    /\ Go(t, "Working")
    /\ UNCHANGED <<Databases, wrapper>>

Service(t) ==
    \/ CallService(t) \/ WaitSemaphore(t) \/ Front(t) \/ Pop(t)
    \/ CallPush(t) \/ ReturnWithoutPush(t) \/ Push(t) \/ Permit(t)

Next == \E t \in Threads : Service(t)

Spec == Init /\ [][Next]_vars

\* Every thread runs and its queries return; a semaphore and a lock that are
\* released again and again serve each of their waiters in the end.  No client
\* has to ask for a service.
Fairness ==
    \A t \in Threads :
        /\ SF_vars(WaitSemaphore(t)) /\ SF_vars(Front(t)) /\ SF_vars(Push(t))
        /\ WF_vars(Pop(t) \/ Permit(t))
        /\ WF_vars(CallPush(t) \/ ReturnWithoutPush(t))

FairSpec == Spec /\ Fairness

-----------------------------------------------------------------------------
(* Properties.                                                             *)

\* A thread that got past the semaphore finds a connection in the queue,
\* whichever threads push, pop or drop theirs meanwhile: front() and pop() of
\* an empty std::queue are undefined (DatabasePool.cpp:29-31).
PopFindsConnection ==
    \A t \in Threads : pc[t] \in {"Front", "Pop"} => Databases # <<>>

\* No two threads use one connection, and none uses a queued one: a MYSQL
\* handle is not for two threads (DatabasePool.cpp:27-45).
LentOnce ==
    /\ \A s, t \in Threads :
         s # t /\ wrapper[s] = wrapper[t] => wrapper[s] = NoWrapper
    /\ \A t \in Threads :
         pc[t] # "Pop" => wrapper[t] \notin Idle

\* ReleaseSemaphore never meets a full semaphore (DatabasePool.cpp:40-44): the
\* count is the length of the queue, less the threads on their way into it or
\* out of it.
Inside == {t \in Threads : pc[t] \in {"Front", "Pop", "Permit"}}
PermitsCountConnections == Len(Databases) = DBSemaphore + Cardinality(Inside)

\* What the services are promised.
Lent == [t \in Threads |-> IF pc[t] = "Pop" THEN NoWrapper ELSE wrapper[t]]
Pool == INSTANCE ConnectionPool WITH free <- Idle, held <- Lent
PoolSpec == Pool!Spec

\* A thread that waits for a connection gets one (README.md:200, "waits until
\* there is a connection to use").
WaiterIsServed == \A t \in Threads : pc[t] = "Wait" ~> pc[t] = "Querying"

\* The same, in every run that closes no connection.
NoneClosed == Cardinality({t \in Threads : Lent[t] # NoWrapper}) + Cardinality(Idle)
                = MAX_POOL_SIZE
WaiterIsServedUnlessClosed == []NoneClosed => WaiterIsServed

=============================================================================
