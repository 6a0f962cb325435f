------------------------- MODULE TransactionsProofs -------------------------
(***************************************************************************)
(* The safety of Transactions for any number of threads and connections.   *)
(* ServiceInv is inductive: ThreadInv says, for each place a service may   *)
(* be at, what it has done to its connection and where its writes are, and *)
(* no other thread can change either, as no other has that connection.     *)
(***************************************************************************)
EXTENDS Transactions, TLAPS

\* A connection is in one place.
Apart ==
    \A t \in Threads : held[t] # NoWrapper =>
        /\ held[t] \notin free
        /\ \A u \in Threads : held[u] = held[t] => u = t

\* A service's writes are pending on the connection it holds, or nowhere.
PendingIsOwn ==
    \A c \in Connections, t \in Threads : t \in pending[c] => held[t] = c

\* Which services get to a place, and what they will return so far.
ServiceAt(t) ==
    /\ pc[t] \in {"Transaction_Start", "Transaction_End"} => service[t] \in Transactional
    /\ pc[t] = "Query" => service[t] \notin OneWrite
    /\ pc[t] = "DestroyChattingById" => service[t] = "ExitRoom"
    /\ pc[t] = "Statement" => service[t] # "Read"
    /\ pc[t] = "Statement" /\ service[t] \in OneWrite => ~result[t]
    /\ pc[t] = "Statement" /\ service[t] \in {"JoinUser", "PasswordCompare"} => result[t]
    /\ pc[t] = "RollBack" => service[t] = "JoinUser" /\ ~result[t]
    /\ pc[t] # "Idle" => told[t] = "nothing"

\* Inside its transaction a service's connection has autocommit off; outside,
\* it is as clean as the pool's.
InTransaction(t) ==
    /\ service[t] \in Transactional
    /\ pc[t] \notin {"Idle", "Transaction_Start", "PushWrapper"}

Clean(c) == autocommit[c] /\ c \notin begun /\ pending[c] = {}

CleanOutside(t) ==
    /\ InTransaction(t) => ~autocommit[held[t]]
    /\ pc[t] # "Idle" /\ ~InTransaction(t) /\ held[t] \notin left => Clean(held[t])

\* A service that has written nothing yet.
Unwritten(t) ==
    \/ pc[t] \in {"Transaction_Start", "Query", "DestroyChattingById"}
    \/ pc[t] = "Statement" /\ service[t] # "ExitRoom"
    \/ pc[t] = "Transaction_End" /\ service[t] # "ExitRoom" /\ ~result[t]

\* A service whose result stands for a write that its commit will store.
Written(t) ==
    \/ pc[t] = "Statement" /\ service[t] = "ExitRoom" /\ result[t]
    \/ pc[t] = "Transaction_End" /\ result[t] /\ t \notin excused

\* Where the writes of a service are, before it returns ...
WritesAt(t) ==
    /\ pc[t] \notin {"Idle", "PushWrapper"} => t \notin stored
    /\ Unwritten(t) => t \notin pending[held[t]]
    /\ Written(t) => t \in pending[held[t]]
    /\ pc[t] = "PushWrapper" /\ result[t] /\ service[t] # "Read" /\ t \notin excused
         => held[t] \in left \/ t \in stored
    /\ pc[t] = "PushWrapper" /\ ~result[t] /\ t \in stored => service[t] = "ExitRoom"

\* ... and after.
TruthTold(t) ==
    /\ told[t] = "true" /\ service[t] # "Read" /\ t \notin excused => t \in stored
    /\ told[t] = "false" /\ t \in stored => service[t] = "ExitRoom"

ThreadInv(t) == ServiceAt(t) /\ CleanOutside(t) /\ WritesAt(t) /\ TruthTold(t)

ServiceInv ==
    /\ TypeOK
    /\ Apart
    /\ PendingIsOwn
    /\ IdleIsClean
    /\ \A t \in Threads : ThreadInv(t)

-----------------------------------------------------------------------------
(* What a step of one thread leaves to the others.                         *)

\* Nothing of thread u changes.
SameThread(u) ==
    /\ pc'[u] = pc[u] /\ service'[u] = service[u] /\ result'[u] = result[u]
    /\ told'[u] = told[u] /\ held'[u] = held[u]
    /\ u \in stored' <=> u \in stored
    /\ u \in excused' <=> u \in excused

\* Nothing of connection c changes.
SameConnection(c) ==
    /\ autocommit'[c] = autocommit[c] /\ pending'[c] = pending[c]
    /\ c \in begun' <=> c \in begun
    /\ c \in left' <=> c \in left

\* A thread that has a connection and a place in a service has both.
LEMMA Holds ==
  ASSUME TypeOK, NEW t \in Threads, pc[t] # "Idle"
  PROVE  held[t] \in Connections /\ held[t] # NoWrapper
  BY DEF TypeOK

\* What is true of a thread stays true while it and its connection stay.
LEMMA OthersKeep ==
  ASSUME NEW u, ThreadInv(u), SameThread(u),
         pc[u] # "Idle" => SameConnection(held[u])
  PROVE  ThreadInv(u)'
  <1>1. ServiceAt(u)'
    BY DEF ThreadInv, ServiceAt, SameThread
  <1>2. CleanOutside(u)'
    BY DEF ThreadInv, CleanOutside, InTransaction, Clean, SameThread, SameConnection
  <1>3. WritesAt(u)'
    BY DEF ThreadInv, WritesAt, Unwritten, Written, SameThread, SameConnection
  <1>4. TruthTold(u)'
    BY DEF ThreadInv, TruthTold, SameThread
  <1> QED
    BY <1>1, <1>2, <1>3, <1>4 DEF ThreadInv

\* A step of a service between its PopWrapper and its return.
LEMMA StepInside ==
  ASSUME ServiceInv, NEW t \in Threads, pc[t] # "Idle",
         UNCHANGED <<free, held>>,
         \A u \in Threads \ {t} : SameThread(u),
         \A c \in Connections \ {held[t]} : SameConnection(c),
         pending'[held[t]] \subseteq pending[held[t]] \cup {t},
         Earlier \notin Threads,
         TypeOK', ThreadInv(t)'
  PROVE  ServiceInv'
  <1>1. held[t] \in Connections /\ held[t] # NoWrapper
    BY Holds DEF ServiceInv
  <1>2. Apart'
    BY DEF ServiceInv, Apart
  <1>3. PendingIsOwn'
    BY <1>1 DEF ServiceInv, PendingIsOwn, SameConnection
  <1>4. IdleIsClean'
    <2> SUFFICES ASSUME NEW c \in free, c \notin left'
                 PROVE  (autocommit[c] /\ c \notin begun /\ pending[c] = {})'
      BY DEF IdleIsClean
    <2>1. c \in Connections \ {held[t]}
      BY <1>1 DEF ServiceInv, TypeOK, Apart
    <2> QED
      BY <2>1 DEF ServiceInv, IdleIsClean, SameConnection
  <1>5. ASSUME NEW u \in Threads \ {t} PROVE ThreadInv(u)'
    <2>1. ASSUME pc[u] # "Idle" PROVE SameConnection(held[u])
      <3>1. held[u] \in Connections /\ held[u] # held[t]
        BY <2>1, <1>1, Holds DEF ServiceInv, Apart
      <3> QED
        BY <3>1
    <2> QED
      BY <2>1, OthersKeep DEF ServiceInv
  <1> QED
    BY <1>2, <1>3, <1>4, <1>5 DEF ServiceInv

-----------------------------------------------------------------------------
(* The steps.                                                              *)

LEMMA InitServiceInv == Init => ServiceInv
  BY TransactionsAssumption
  DEF Init, Pool!Init, ServiceInv, TypeOK, Apart, PendingIsOwn, IdleIsClean, ThreadInv,
      ServiceAt, CleanOutside, InTransaction, WritesAt, Unwritten, Written, TruthTold,
      Services, Transactional, OneWrite

\* What a statement that writes does to the connection and to stored.
LEMMA WritesOwn ==
  ASSUME TypeOK, NEW t \in Threads, held[t] \in Connections, Writes(t)
  PROVE  /\ begun' \subseteq Connections
         /\ pending' \in [Connections -> SUBSET (Threads \cup {Earlier})]
         /\ stored' \subseteq Threads
         /\ autocommit[held[t]] => stored' = stored \cup {t} /\ UNCHANGED <<begun, pending>>
         /\ ~autocommit[held[t]] => t \in pending'[held[t]] /\ stored' = stored
  <1>1. CASE autocommit[held[t]]
    BY <1>1 DEF Writes, TypeOK
  <1>2. CASE ~autocommit[held[t]]
    <2>1. pending' = [pending EXCEPT ![held[t]] = @ \cup {t}]
      BY <1>2 DEF Writes
    <2>2. pending' \in [Connections -> SUBSET (Threads \cup {Earlier})]
      BY <2>1 DEF TypeOK
    <2>3. t \in pending'[held[t]]
      BY <2>1 DEF TypeOK
    <2> QED
      BY <1>2, <2>2, <2>3 DEF Writes, TypeOK
  <1> QED
    BY <1>1, <1>2

LEMMA Transaction_StartKeeps ==
  ASSUME ServiceInv, NEW t \in Threads, Transaction_Start(t)
  PROVE  ServiceInv'
  <1>1. pc[t] # "Idle" /\ held[t] \in Connections /\ UNCHANGED <<free, held>>
    BY Holds DEF Transaction_Start, ServiceInv
  <1>2. TypeOK'
    BY <1>1 DEF Transaction_Start, ServiceInv, TypeOK, Services, Transactional, OneWrite, Go, Results
  <1>3. \A u \in Threads \ {t} : SameThread(u)
    BY <1>1 DEF Transaction_Start, ServiceInv, TypeOK, PendingIsOwn, SameThread, Go, Results
  <1>4. /\ \A c \in Connections \ {held[t]} : SameConnection(c)
        /\ pending'[held[t]] \subseteq pending[held[t]] \cup {t}
    BY <1>1 DEF Transaction_Start, ServiceInv, TypeOK, SameConnection
  <1>5. ThreadInv(t)'
    BY <1>1 DEF Transaction_Start, ServiceInv, TypeOK, ThreadInv, ServiceAt, CleanOutside, InTransaction, Clean,
         WritesAt, Unwritten, Written, TruthTold, Services, Transactional, OneWrite, Go, Results
  <1> QED
    BY <1>1, <1>2, <1>3, <1>4, <1>5, StepInside, TransactionsAssumption

LEMMA QueryKeeps ==
  ASSUME ServiceInv, NEW t \in Threads, Query(t)
  PROVE  ServiceInv'
  <1>1. pc[t] # "Idle" /\ held[t] \in Connections /\ UNCHANGED <<free, held>>
    BY Holds DEF Query, ServiceInv
  <1>2. TypeOK'
    BY <1>1 DEF Query, ServiceInv, TypeOK, Services, Transactional, OneWrite, Go, Results
  <1>3. \A u \in Threads \ {t} : SameThread(u)
    BY <1>1 DEF Query, ServiceInv, TypeOK, PendingIsOwn, SameThread, Go, Results
  <1>4. /\ \A c \in Connections \ {held[t]} : SameConnection(c)
        /\ pending'[held[t]] \subseteq pending[held[t]] \cup {t}
    BY <1>1 DEF Query, ServiceInv, TypeOK, SameConnection
  <1>5. ThreadInv(t)'
    BY <1>1 DEF Query, ServiceInv, TypeOK, ThreadInv, ServiceAt, CleanOutside, InTransaction, Clean,
         WritesAt, Unwritten, Written, TruthTold, Services, Transactional, OneWrite, Go, Results
  <1> QED
    BY <1>1, <1>2, <1>3, <1>4, <1>5, StepInside, TransactionsAssumption

LEMMA QueryFailsKeeps ==
  ASSUME ServiceInv, NEW t \in Threads, QueryFails(t)
  PROVE  ServiceInv'
  <1>1. pc[t] # "Idle" /\ held[t] \in Connections /\ UNCHANGED <<free, held>>
    BY Holds DEF QueryFails, ServiceInv
  <1>2. TypeOK'
    BY <1>1 DEF QueryFails, ServiceInv, TypeOK, Services, Transactional, OneWrite, Go, Results
  <1>3. \A u \in Threads \ {t} : SameThread(u)
    BY <1>1 DEF QueryFails, ServiceInv, TypeOK, PendingIsOwn, SameThread, Go, Results
  <1>4. /\ \A c \in Connections \ {held[t]} : SameConnection(c)
        /\ pending'[held[t]] \subseteq pending[held[t]] \cup {t}
    BY <1>1 DEF QueryFails, ServiceInv, TypeOK, SameConnection
  <1>5. ThreadInv(t)'
    BY <1>1 DEF QueryFails, ServiceInv, TypeOK, ThreadInv, ServiceAt, CleanOutside, InTransaction, Clean,
         WritesAt, Unwritten, Written, TruthTold, Services, Transactional, OneWrite, Go, Results
  <1> QED
    BY <1>1, <1>2, <1>3, <1>4, <1>5, StepInside, TransactionsAssumption

LEMMA DestroyChattingByIdKeeps ==
  ASSUME ServiceInv, NEW t \in Threads, DestroyChattingById(t)
  PROVE  ServiceInv'
  <1>1. pc[t] # "Idle" /\ held[t] \in Connections /\ UNCHANGED <<free, held>>
    BY Holds DEF DestroyChattingById, ServiceInv
  <1>2. TypeOK'
    <2>1. CASE Writes(t)
      BY <1>1, <2>1, WritesOwn
      DEF DestroyChattingById, ServiceInv, TypeOK, Services, Transactional, OneWrite, Go, Results
    <2>2. CASE WriteFails(t)
      BY <1>1, <2>2
      DEF DestroyChattingById, WriteFails, ServiceInv, TypeOK, Services, Transactional, OneWrite,
          Go, Results
    <2> QED
      BY <2>1, <2>2 DEF DestroyChattingById
  <1>3. \A u \in Threads \ {t} : SameThread(u)
    BY <1>1 DEF DestroyChattingById, Writes, WriteFails, ServiceInv, TypeOK, PendingIsOwn, SameThread, Go, Results
  <1>4. /\ \A c \in Connections \ {held[t]} : SameConnection(c)
        /\ pending'[held[t]] \subseteq pending[held[t]] \cup {t}
    BY <1>1 DEF DestroyChattingById, Writes, WriteFails, ServiceInv, TypeOK, SameConnection
  <1>5. ThreadInv(t)'
    BY <1>1 DEF DestroyChattingById, Writes, WriteFails, ServiceInv, TypeOK, ThreadInv, ServiceAt, CleanOutside, InTransaction, Clean,
         WritesAt, Unwritten, Written, TruthTold, Services, Transactional, OneWrite, Go, Results
  <1> QED
    BY <1>1, <1>2, <1>3, <1>4, <1>5, StepInside, TransactionsAssumption

LEMMA StatementKeeps ==
  ASSUME ServiceInv, NEW t \in Threads, Statement(t)
  PROVE  ServiceInv'
  <1>1. pc[t] # "Idle" /\ held[t] \in Connections /\ UNCHANGED <<free, held>>
    BY Holds DEF Statement, ServiceInv
  <1>2. TypeOK'
    BY <1>1, WritesOwn
    DEF Statement, Succeeds, ServiceInv, TypeOK, Services, Transactional, OneWrite, Go, Results
  <1>3. \A u \in Threads \ {t} : SameThread(u)
    BY <1>1 DEF Statement, Succeeds, Writes, ServiceInv, TypeOK, PendingIsOwn, SameThread, Go, Results
  <1>4. /\ \A c \in Connections \ {held[t]} : SameConnection(c)
        /\ pending'[held[t]] \subseteq pending[held[t]] \cup {t}
    BY <1>1 DEF Statement, Writes, ServiceInv, TypeOK, SameConnection
  <1>5. ThreadInv(t)'
    <2> USE <1>1 DEF Statement, Succeeds, ServiceInv, TypeOK, ThreadInv, Go, Results
    <2>1. Writes(t) /\ ThreadInv(t)
      OBVIOUS
    <2>2. ServiceAt(t)'
      BY DEF ServiceAt, Services, Transactional, OneWrite
    <2>3. CleanOutside(t)'
      BY WritesOwn DEF ServiceAt, CleanOutside, InTransaction, Clean, Services, Transactional, OneWrite
    <2>4. WritesAt(t)'
      BY WritesOwn
      DEF ServiceAt, CleanOutside, InTransaction, Clean, WritesAt, Unwritten, Written,
          Services, Transactional, OneWrite
    <2>5. TruthTold(t)'
      BY DEF ServiceAt, TruthTold
    <2> QED
      BY <2>2, <2>3, <2>4, <2>5
  <1> QED
    BY <1>1, <1>2, <1>3, <1>4, <1>5, StepInside, TransactionsAssumption

LEMMA InsertIgnoredKeeps ==
  ASSUME ServiceInv, NEW t \in Threads, InsertIgnored(t)
  PROVE  ServiceInv'
  <1>1. pc[t] # "Idle" /\ held[t] \in Connections /\ UNCHANGED <<free, held>>
    BY Holds DEF InsertIgnored, ServiceInv
  <1>2. TypeOK'
    BY <1>1 DEF InsertIgnored, Succeeds, ServiceInv, TypeOK, Services, Transactional, OneWrite, Go, Results
  <1>3. \A u \in Threads \ {t} : SameThread(u)
    BY <1>1 DEF InsertIgnored, Succeeds, ServiceInv, TypeOK, PendingIsOwn, SameThread, Go, Results
  <1>4. /\ \A c \in Connections \ {held[t]} : SameConnection(c)
        /\ pending'[held[t]] \subseteq pending[held[t]] \cup {t}
    BY <1>1 DEF InsertIgnored, ServiceInv, TypeOK, SameConnection
  <1>5. ThreadInv(t)'
    BY <1>1 DEF InsertIgnored, Succeeds, Ignoring, ServiceInv, TypeOK, ThreadInv, ServiceAt, CleanOutside, InTransaction, Clean,
         WritesAt, Unwritten, Written, TruthTold, Services, Transactional, OneWrite, Go, Results
  <1> QED
    BY <1>1, <1>2, <1>3, <1>4, <1>5, StepInside, TransactionsAssumption

LEMMA StatementFailsKeeps ==
  ASSUME ServiceInv, NEW t \in Threads, StatementFails(t)
  PROVE  ServiceInv'
  <1>1. pc[t] # "Idle" /\ held[t] \in Connections /\ UNCHANGED <<free, held>>
    BY Holds DEF StatementFails, ServiceInv
  <1>2. TypeOK'
    BY <1>1 DEF StatementFails, WriteFails, ServiceInv, TypeOK, Services, Transactional, OneWrite, Go, Results
  <1>3. \A u \in Threads \ {t} : SameThread(u)
    BY <1>1 DEF StatementFails, WriteFails, ServiceInv, TypeOK, PendingIsOwn, SameThread, Go, Results
  <1>4. /\ \A c \in Connections \ {held[t]} : SameConnection(c)
        /\ pending'[held[t]] \subseteq pending[held[t]] \cup {t}
    BY <1>1 DEF StatementFails, WriteFails, ServiceInv, TypeOK, SameConnection
  <1>5. ThreadInv(t)'
    BY <1>1 DEF StatementFails, WriteFails, ServiceInv, TypeOK, ThreadInv, ServiceAt, CleanOutside, InTransaction, Clean,
         WritesAt, Unwritten, Written, TruthTold, Services, Transactional, OneWrite, Go, Results
  <1> QED
    BY <1>1, <1>2, <1>3, <1>4, <1>5, StepInside, TransactionsAssumption

LEMMA Transaction_EndKeeps ==
  ASSUME ServiceInv, NEW t \in Threads, Transaction_End(t)
  PROVE  ServiceInv'
  <1>1. pc[t] # "Idle" /\ held[t] \in Connections /\ UNCHANGED <<free, held>>
    BY Holds DEF Transaction_End, ServiceInv
  <1>2. TypeOK'
    BY <1>1 DEF Transaction_End, Commits, Closes, Restores, ServiceInv, TypeOK, Services, Transactional, OneWrite, Go, Results
  <1>3. \A u \in Threads \ {t} : SameThread(u)
    <2>1. \A u \in Threads \ {t} : u \notin pending[held[t]]
      BY <1>1, TransactionsAssumption DEF ServiceInv, PendingIsOwn, Apart
    <2> QED
      BY <1>1, <2>1 DEF Transaction_End, Commits, Closes, Restores, ServiceInv, TypeOK, PendingIsOwn, SameThread, Go, Results
  <1>4. /\ \A c \in Connections \ {held[t]} : SameConnection(c)
        /\ pending'[held[t]] \subseteq pending[held[t]] \cup {t}
    BY <1>1 DEF Transaction_End, Commits, Closes, Restores, ServiceInv, TypeOK, SameConnection
  <1>5. ThreadInv(t)'
    BY <1>1 DEF Transaction_End, Commits, Closes, Restores, ServiceInv, TypeOK, ThreadInv, ServiceAt, CleanOutside, InTransaction, Clean,
         WritesAt, Unwritten, Written, TruthTold, Services, Transactional, OneWrite, Go, Results
  <1> QED
    BY <1>1, <1>2, <1>3, <1>4, <1>5, StepInside, TransactionsAssumption

LEMMA Transaction_EndFailsKeeps ==
  ASSUME ServiceInv, NEW t \in Threads, Transaction_EndFails(t)
  PROVE  ServiceInv'
  <1>1. pc[t] # "Idle" /\ held[t] \in Connections /\ UNCHANGED <<free, held>>
    BY Holds DEF Transaction_EndFails, ServiceInv
  <1>2. TypeOK'
    BY <1>1 DEF Transaction_EndFails, Closes, Restores, ServiceInv, TypeOK, Services, Transactional, OneWrite, Go, Results
  <1>3. \A u \in Threads \ {t} : SameThread(u)
    BY <1>1 DEF Transaction_EndFails, Closes, Restores, ServiceInv, TypeOK, PendingIsOwn, SameThread, Go, Results
  <1>4. /\ \A c \in Connections \ {held[t]} : SameConnection(c)
        /\ pending'[held[t]] \subseteq pending[held[t]] \cup {t}
    BY <1>1 DEF Transaction_EndFails, Closes, Restores, ServiceInv, TypeOK, SameConnection
  <1>5. ThreadInv(t)'
    BY <1>1 DEF Transaction_EndFails, Closes, Restores, ServiceInv, TypeOK, ThreadInv, ServiceAt, CleanOutside, InTransaction, Clean,
         WritesAt, Unwritten, Written, TruthTold, Services, Transactional, OneWrite, Go, Results
  <1> QED
    BY <1>1, <1>2, <1>3, <1>4, <1>5, StepInside, TransactionsAssumption

LEMMA RollBackKeeps ==
  ASSUME ServiceInv, NEW t \in Threads, RollBack(t)
  PROVE  ServiceInv'
  <1>1. pc[t] # "Idle" /\ held[t] \in Connections /\ UNCHANGED <<free, held>>
    BY Holds DEF RollBack, ServiceInv
  <1>2. TypeOK'
    BY <1>1 DEF RollBack, Closes, Restores, ServiceInv, TypeOK, Services, Transactional, OneWrite, Go, Results
  <1>3. \A u \in Threads \ {t} : SameThread(u)
    BY <1>1 DEF RollBack, Closes, Restores, ServiceInv, TypeOK, PendingIsOwn, SameThread, Go, Results
  <1>4. /\ \A c \in Connections \ {held[t]} : SameConnection(c)
        /\ pending'[held[t]] \subseteq pending[held[t]] \cup {t}
    BY <1>1 DEF RollBack, Closes, Restores, ServiceInv, TypeOK, SameConnection
  <1>5. ThreadInv(t)'
    BY <1>1 DEF RollBack, Closes, Restores, ServiceInv, TypeOK, ThreadInv, ServiceAt, CleanOutside, InTransaction, Clean,
         WritesAt, Unwritten, Written, TruthTold, Services, Transactional, OneWrite, Go, Results
  <1> QED
    BY <1>1, <1>2, <1>3, <1>4, <1>5, StepInside, TransactionsAssumption

\* A connection that is lent is clean, or one that ExitRoom left.
LEMMA PopWrapperKeeps ==
  ASSUME ServiceInv, NEW t \in Threads, PopWrapper(t)
  PROVE  ServiceInv'
  <1>1. PICK c \in free : /\ free' = free \ {c}
                          /\ held' = [held EXCEPT ![t] = c]
    BY DEF PopWrapper, Pool!Lend
  <1>2. PICK s \in Services :
          /\ service' = [service EXCEPT ![t] = s]
          /\ pc' = [pc EXCEPT ![t] = CASE s \in Transactional -> "Transaction_Start"
                                      [] s \in OneWrite -> "Statement"
                                      [] s = "Read" -> "Query"]
    BY DEF PopWrapper, Go
  <1>3. /\ pc[t] = "Idle" /\ held[t] = NoWrapper
        /\ c \in Connections /\ c # NoWrapper
        /\ UNCHANGED <<autocommit, begun, pending, left>>
        /\ told' = [told EXCEPT ![t] = "nothing"]
        /\ result' = [result EXCEPT ![t] = FALSE]
        /\ stored' = stored \ {t} /\ excused' = excused \ {t}
    BY TransactionsAssumption DEF PopWrapper, Results, ServiceInv, TypeOK
  <1>4. /\ pc'[t] = CASE s \in Transactional -> "Transaction_Start"
                     [] s \in OneWrite -> "Statement"
                     [] s = "Read" -> "Query"
        /\ service'[t] = s /\ held'[t] = c /\ told'[t] = "nothing" /\ ~result'[t]
        /\ \A u \in Threads \ {t} : SameThread(u)
        /\ \A d \in Connections : SameConnection(d)
    BY <1>1, <1>2, <1>3 DEF ServiceInv, TypeOK, SameThread, SameConnection
  <1>5. TypeOK'
    BY <1>1, <1>2, <1>3 DEF ServiceInv, TypeOK, Services, Transactional, OneWrite
  <1>6. \A u \in Threads : held[u] # c
    BY <1>1, <1>3 DEF ServiceInv, Apart
  <1>7. Apart'
    BY <1>1, <1>3, <1>6 DEF ServiceInv, TypeOK, Apart
  <1>8. PendingIsOwn'
    BY <1>1, <1>3, TransactionsAssumption DEF ServiceInv, TypeOK, PendingIsOwn
  <1>9. IdleIsClean'
    BY <1>1, <1>3 DEF ServiceInv, IdleIsClean
  <1>10. ThreadInv(t)'
    <2>1. t \notin pending[c]
      BY <1>3, <1>6 DEF ServiceInv, PendingIsOwn
    <2>2. c \notin left => Clean(c)
      BY <1>1 DEF ServiceInv, IdleIsClean, Clean
    <2> QED
      BY <1>3, <1>4, <2>1, <2>2
      DEF ThreadInv, ServiceAt, CleanOutside, InTransaction, Clean, WritesAt, Unwritten,
          Written, TruthTold, Services, Transactional, OneWrite
  <1>11. ASSUME NEW u \in Threads \ {t} PROVE ThreadInv(u)'
    BY <1>4, Holds, OthersKeep DEF ServiceInv
  <1> QED
    BY <1>5, <1>7, <1>8, <1>9, <1>10, <1>11 DEF ServiceInv

\* A service returns: its connection goes back, or is dropped.
LEMMA ReturnsKeeps ==
  ASSUME ServiceInv, NEW t \in Threads, pc[t] = "PushWrapper", Returns(t),
         free' \subseteq free \cup {held[t]},
         held' = [held EXCEPT ![t] = NoWrapper]
  PROVE  ServiceInv'
  <1> DEFINE c == held[t]
  <1>1. c \in Connections /\ c # NoWrapper
    BY Holds DEF ServiceInv
  <1>2. /\ pc' = [pc EXCEPT ![t] = "Idle"]
        /\ told' = [told EXCEPT ![t] = IF result[t] THEN "true" ELSE "false"]
        /\ pending' = [pending EXCEPT ![c] = IF pending[c] = {} THEN {} ELSE {Earlier}]
        /\ excused' = IF c \in left THEN excused \cup {t} ELSE excused
        /\ UNCHANGED <<autocommit, begun, stored, service, result, left>>
    BY DEF Returns, Go
  <1> HIDE DEF c
  <1>3. TypeOK'
    BY <1>1, <1>2 DEF ServiceInv, TypeOK, c
  <1>4. /\ pc'[t] = "Idle" /\ held'[t] = NoWrapper
        /\ told'[t] = IF result[t] THEN "true" ELSE "false"
        /\ pending'[c] = IF pending[c] = {} THEN {} ELSE {Earlier}
        /\ \A u \in Threads \ {t} : SameThread(u)
        /\ \A d \in Connections \ {c} : SameConnection(d)
    BY <1>1, <1>2 DEF ServiceInv, TypeOK, SameThread, SameConnection
  <1>5. Apart'
    BY <1>1, <1>4 DEF ServiceInv, Apart, SameThread, c
  <1>6. PendingIsOwn'
    BY <1>1, <1>4, TransactionsAssumption
    DEF ServiceInv, PendingIsOwn, SameThread, SameConnection, c
  <1>7. IdleIsClean'
    <2>1. c \notin left => Clean(c)
      BY DEF ServiceInv, ThreadInv, CleanOutside, InTransaction, c
    <2>2. c \notin left => autocommit'[c] /\ c \notin begun' /\ pending'[c] = {}
      BY <1>2, <1>4, <2>1 DEF Clean
    <2> QED
      BY <1>1, <1>2, <1>4, <2>2 DEF ServiceInv, TypeOK, IdleIsClean, SameConnection, c
  <1>8. ThreadInv(t)'
    <2>1. WritesAt(t) /\ TruthTold(t) /\ ServiceAt(t)
      BY DEF ServiceInv, ThreadInv
    <2>2. TruthTold(t)'
      BY <1>2, <1>4, <2>1 DEF WritesAt, TruthTold, ServiceInv, TypeOK, c
    <2> QED
      BY <1>4, <2>2
      DEF ThreadInv, ServiceAt, CleanOutside, InTransaction, WritesAt, Unwritten, Written
  <1>9. ASSUME NEW u \in Threads \ {t} PROVE ThreadInv(u)'
    <2>1. ASSUME pc[u] # "Idle" PROVE SameConnection(held[u])
      <3>1. held[u] \in Connections /\ held[u] # c
        BY <2>1, <1>1, Holds DEF ServiceInv, Apart, c
      <3> QED
        BY <3>1, <1>4
    <2> QED
      BY <2>1, <1>4, OthersKeep DEF ServiceInv
  <1> QED
    BY <1>3, <1>5, <1>6, <1>7, <1>8, <1>9 DEF ServiceInv

LEMMA NextServiceInv == ServiceInv /\ [Next]_vars => ServiceInv'
  <1> SUFFICES ASSUME ServiceInv, [Next]_vars PROVE ServiceInv'
    OBVIOUS
  <1>1. ASSUME NEW t \in Threads, Service(t) PROVE ServiceInv'
    <2>1. CASE PopWrapper(t)
      BY <2>1, PopWrapperKeeps
    <2>2. CASE Transaction_Start(t)
      BY <2>2, Transaction_StartKeeps
    <2>3. CASE Query(t)
      BY <2>3, QueryKeeps
    <2>4. CASE QueryFails(t)
      BY <2>4, QueryFailsKeeps
    <2>5. CASE DestroyChattingById(t)
      BY <2>5, DestroyChattingByIdKeeps
    <2>6. CASE Statement(t)
      BY <2>6, StatementKeeps
    <2>7. CASE StatementFails(t)
      BY <2>7, StatementFailsKeeps
    <2>8. CASE Transaction_End(t)
      BY <2>8, Transaction_EndKeeps
    <2>9. CASE Transaction_EndFails(t)
      BY <2>9, Transaction_EndFailsKeeps
    <2>10. CASE RollBack(t)
      BY <2>10, RollBackKeeps
    <2>11. CASE PushWrapper(t)
      BY <2>11, ReturnsKeeps DEF PushWrapper, Pool!GiveBack
    <2>12. CASE ReturnWithoutPush(t)
      BY <2>12, ReturnsKeeps DEF ReturnWithoutPush, Pool!Drop
    <2>13. CASE InsertIgnored(t)
      BY <2>13, InsertIgnoredKeeps
    <2> QED
      BY <1>1, <2>1, <2>2, <2>3, <2>4, <2>5, <2>6, <2>7, <2>8, <2>9, <2>10, <2>11, <2>12, <2>13
      DEF Service
  <1>2. CASE UNCHANGED vars
    BY <1>2
    DEF vars, ServiceInv, TypeOK, Apart, PendingIsOwn, IdleIsClean, ThreadInv, ServiceAt,
        CleanOutside, InTransaction, Clean, WritesAt, Unwritten, Written, TruthTold
  <1> QED
    BY <1>1, <1>2 DEF Next

-----------------------------------------------------------------------------
(* The theorems.                                                           *)

\* The invariant of the services and of the connections they borrow holds in
\* every reachable state (DatabaseWrapper.cpp:56-84).
THEOREM ServiceSafe == Spec => []ServiceInv
  BY InitServiceInv, NextServiceInv, PTL DEF Spec

\* The connections, the services and what they return keep their types, and a
\* thread has a connection exactly during a service (JoinService.cpp:13-50).
THEOREM TransactionsTypeCorrect == Spec => []TypeOK
  <1>1. ServiceInv => TypeOK
    BY DEF ServiceInv
  <1> QED
    BY <1>1, ServiceSafe, PTL

\* A connection of the pool has autocommit on and nothing open, those that
\* ExitRoom left apart (ExitRoomService.cpp:17-31).
THEOREM PoolIsClean == Spec => []IdleIsClean
  <1>1. ServiceInv => IdleIsClean
    BY DEF ServiceInv
  <1> QED
    BY <1>1, ServiceSafe, PTL

\* What a service reported is committed, but for the results nobody looks at, the
\* rows INSERT IGNORE drops and the connections ExitRoom left
\* (JoinService.cpp:35-52, EntryRoomService.cpp:19-39).
THEOREM SuccessIsCommitted == Spec => []ReportedIsCommitted
  <1>1. ServiceInv => ReportedIsCommitted
    BY DEF ServiceInv, ThreadInv, TruthTold, ReportedIsCommitted
  <1> QED
    BY <1>1, ServiceSafe, PTL

\* What a service refused is not in the database: no commit takes along the
\* writes of another (DatabaseWrapper.cpp:62-73).
THEOREM RefusalStoresNothing == Spec => []RefusedStoresNothing
  <1>1. ServiceInv => RefusedStoresNothing
    BY DEF ServiceInv, TypeOK, ThreadInv, TruthTold, RefusedStoresNothing
  <1> QED
    BY <1>1, ServiceSafe, PTL

=============================================================================
