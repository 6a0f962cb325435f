---------------------------- MODULE Transactions ----------------------------
(***************************************************************************)
(* What the services do to the transactions of the connections they borrow *)
(* (DatabaseWrapper), with statements and commits that fail.  A connection *)
(* outlives the service that borrowed it: autocommit and an open           *)
(* transaction are still there for the next one.                           *)
(*                                                                         *)
(* The pool is ConnectionPool, which DatabasePool implements.  MySQL is    *)
(* external: with autocommit off a statement opens a transaction (and its  *)
(* snapshot), which a commit, a rollback or autocommit(true) ends; a       *)
(* statement that fails is undone alone or, in a deadlock, with its whole  *)
(* transaction.  The writes of a service are one token, its thread's name, *)
(* until the service returns.                                              *)
(***************************************************************************)
CONSTANTS
    Threads,        \* threads that call services
    Connections,    \* the DatabaseWrappers
    NoWrapper,      \* no connection
    Earlier         \* writes of services that have returned

ASSUME TransactionsAssumption ==
    /\ NoWrapper \notin Connections
    /\ Earlier \notin Threads

VARIABLES
    free, held,     \* the pool's: idle connections, and each thread's
    autocommit,     \* of each connection
    begun,          \* connections with an open transaction
    pending,        \* the writes of that transaction
    stored,         \* threads whose current or last service's writes are committed
    pc,
    service,        \* the current or last service of each thread
    result,         \* what it is going to return
    told,           \* what it has returned
    left,           \* history: connections ExitRoom gave back after a failed count
    excused         \* history: threads whose last service did not look at a
                    \* statement that failed, had an INSERT IGNORE that stored
                    \* nothing, or returned on a connection of left

vars == <<free, held, autocommit, begun, pending, stored, pc, service, result,
          told, left, excused>>

connections == <<autocommit, begun, pending, stored, left>>

Pool == INSTANCE ConnectionPool

\* The services of one statement use no transaction of their own.  "Read" stands
\* for FindAll..., GetRoomMember, CompareRoom and Login.
Transactional == {"JoinUser", "PasswordCompare", "ExitRoom"}
OneWrite      == {"CreateChattingRoom", "InsertMessage"}
Services      == Transactional \cup OneWrite \cup {"Read"}

\* Their INSERT is INSERT IGNORE.
Ignoring      == {"PasswordCompare", "InsertMessage"}

TypeOK ==
    /\ free \subseteq Connections
    /\ held \in [Threads -> Connections \cup {NoWrapper}]
    /\ autocommit \in [Connections -> BOOLEAN]
    /\ begun \subseteq Connections
    /\ pending \in [Connections -> SUBSET (Threads \cup {Earlier})]
    /\ stored \subseteq Threads
    /\ pc \in [Threads -> {"Idle", "Transaction_Start", "Query", "DestroyChattingById",
                           "Statement", "Transaction_End", "RollBack", "PushWrapper"}]
    /\ service \in [Threads -> Services]
    /\ result \in [Threads -> BOOLEAN]
    /\ told \in [Threads -> {"nothing", "true", "false"}]
    /\ left \subseteq Connections
    /\ excused \subseteq Threads
    /\ \A t \in Threads : held[t] = NoWrapper <=> pc[t] = "Idle"

Init ==
    /\ Pool!Init
    /\ autocommit = [c \in Connections |-> TRUE]
    /\ begun = {}
    /\ pending = [c \in Connections |-> {}]
    /\ stored = {}
    /\ pc = [t \in Threads |-> "Idle"]
    /\ service = [t \in Threads |-> "Read"]
    /\ result = [t \in Threads |-> FALSE]
    /\ told = [t \in Threads |-> "nothing"]
    /\ left = {}
    /\ excused = {}

Go(t, next)      == pc' = [pc EXCEPT ![t] = next]
Results(t, value) == result' = [result EXCEPT ![t] = value]

-----------------------------------------------------------------------------
(* A service from its PopWrapper on.                                       *)

PopWrapper(t) ==
    /\ pc[t] = "Idle"
    /\ Pool!Lend(t)
    /\ \E s \in Services :
         /\ service' = [service EXCEPT ![t] = s]
         /\ Go(t, CASE s \in Transactional -> "Transaction_Start"
                    [] s \in OneWrite -> "Statement"
                    [] s = "Read" -> "Query")
    /\ Results(t, FALSE)
    /\ told' = [told EXCEPT ![t] = "nothing"]
    /\ stored' = stored \ {t}
    /\ excused' = excused \ {t}
    /\ UNCHANGED <<autocommit, begun, pending, left>>

\* mysql_autocommit(false): a transaction that is open stays open.
Transaction_Start(t) ==
    /\ pc[t] = "Transaction_Start"
    /\ autocommit' = [autocommit EXCEPT ![held[t]] = FALSE]
    /\ Go(t, "Query")
    /\ UNCHANGED <<free, held, begun, pending, stored, service, result, told, left, excused>>

\* The first SELECT, and what the service does with its rows: a name is taken
\* or free, a password matches or not, the user is the last or not.
Query(t) ==
    /\ pc[t] = "Query"
    /\ begun' = IF autocommit[held[t]] THEN begun ELSE begun \cup {held[t]}
    /\ \/ service[t] = "JoinUser" /\ Go(t, "Statement") /\ Results(t, TRUE)
       \/ service[t] = "JoinUser" /\ Go(t, "RollBack") /\ Results(t, FALSE)
       \/ service[t] = "PasswordCompare" /\ Go(t, "Statement") /\ Results(t, TRUE)
       \/ service[t] = "PasswordCompare" /\ Go(t, "Transaction_End") /\ Results(t, FALSE)
       \/ service[t] = "ExitRoom" /\ Go(t, "DestroyChattingById") /\ Results(t, FALSE)
       \/ service[t] = "ExitRoom" /\ Go(t, "Statement") /\ Results(t, FALSE)
       \/ service[t] = "Read" /\ Go(t, "PushWrapper") /\ Results(t, TRUE)
    /\ UNCHANGED <<free, held, autocommit, pending, stored, service, told, left, excused>>

\* A failed IsExist... reads like a name that is free, a failed FindPassword
\* like a wrong password.  ExitRoom skips everything up to its PushWrapper.
QueryFails(t) ==
    /\ pc[t] = "Query"
    /\ \/ service[t] = "JoinUser" /\ Go(t, "Statement") /\ Results(t, TRUE)
       \/ service[t] = "PasswordCompare" /\ Go(t, "Transaction_End") /\ Results(t, FALSE)
       \/ service[t] \in {"ExitRoom", "Read"} /\ Go(t, "PushWrapper") /\ Results(t, FALSE)
    /\ left' = IF service[t] = "ExitRoom" THEN left \cup {held[t]} ELSE left
    /\ UNCHANGED <<free, held, autocommit, begun, pending, stored, service, told, excused>>

\* A statement that writes: it commits at once, or with its transaction.
Writes(t) ==
    IF autocommit[held[t]]
    THEN /\ stored' = stored \cup {t}
         /\ UNCHANGED <<begun, pending>>
    ELSE /\ begun' = begun \cup {held[t]}
         /\ pending' = [pending EXCEPT ![held[t]] = @ \cup {t}]
         /\ UNCHANGED stored

\* It fails: alone, or as the victim of a deadlock with its transaction.
WriteFails(t) ==
    \/ UNCHANGED <<begun, pending, stored>>
    \/ /\ begun' = begun \ {held[t]}
       /\ pending' = [pending EXCEPT ![held[t]] = {}]
       /\ UNCHANGED stored

DestroyChattingById(t) ==
    /\ pc[t] = "DestroyChattingById"
    /\ Go(t, "Statement")
    /\ \/ Writes(t) /\ Results(t, TRUE)
       \/ WriteFails(t) /\ Results(t, FALSE)
    /\ UNCHANGED <<free, held, autocommit, service, told, left, excused>>

\* Where a service goes when its writing statement returned true.
Succeeds(t) ==
    IF service[t] \in OneWrite THEN Go(t, "PushWrapper") /\ Results(t, TRUE)
    ELSE Go(t, "Transaction_End") /\ UNCHANGED result

\* InsertUser, InsertRoomMember, DeleteRoomMember, InsertChattingRoom and
\* InsertMessage.
Statement(t) ==
    /\ pc[t] = "Statement"
    /\ Writes(t)
    /\ Succeeds(t)
    /\ UNCHANGED <<free, held, autocommit, service, told, left, excused>>

\* INSERT IGNORE into RoomMember or ChatMessage, when the room or the user is not
\* there: the foreign key makes it a warning, and it returns true.
InsertIgnored(t) ==
    /\ pc[t] = "Statement"
    /\ service[t] \in Ignoring
    /\ begun' = IF autocommit[held[t]] THEN begun ELSE begun \cup {held[t]}
    /\ excused' = excused \cup {t}
    /\ Succeeds(t)
    /\ UNCHANGED <<free, held, autocommit, pending, stored, service, told, left>>

\* PasswordCompare and ExitRoom do not look at what their statement returned.
StatementFails(t) ==
    /\ pc[t] = "Statement"
    /\ WriteFails(t)
    /\ \/ /\ service[t] \in OneWrite
          /\ Go(t, "PushWrapper")
          /\ UNCHANGED <<result, excused>>
       \/ /\ service[t] = "JoinUser"
          /\ Go(t, "RollBack")
          /\ Results(t, FALSE)
          /\ UNCHANGED excused
       \/ /\ service[t] \in {"PasswordCompare", "ExitRoom"}
          /\ Go(t, "Transaction_End")
          /\ excused' = excused \cup {t}
          /\ UNCHANGED result
    /\ UNCHANGED <<free, held, autocommit, service, told, left>>

-----------------------------------------------------------------------------
(* The end of a transaction.                                               *)

Commits(c)   == stored' = stored \cup (pending[c] \cap Threads)
Closes(c)    == /\ begun' = begun \ {c}
                /\ pending' = [pending EXCEPT ![c] = {}]

\* autocommit(true), after which nothing of an earlier service is left.
Restores(c)  == /\ autocommit' = [autocommit EXCEPT ![c] = TRUE]
                /\ left' = left \ {c}

Transaction_End(t) ==
    /\ pc[t] = "Transaction_End"
    /\ Commits(held[t]) /\ Closes(held[t]) /\ Restores(held[t])
    /\ Go(t, "PushWrapper")
    /\ UNCHANGED <<free, held, service, result, told, excused>>

\* A mutant: a failed commit is not rolled back before autocommit(true), which
\* commits what is pending.
Transaction_EndForgets(t) ==
    /\ pc[t] = "Transaction_End"
    /\ Commits(held[t]) /\ Closes(held[t]) /\ Restores(held[t])
    /\ Results(t, FALSE)
    /\ Go(t, "PushWrapper")
    /\ UNCHANGED <<free, held, service, told, excused>>

\* A mutant: the service does not look at what Transaction_End returned.
Transaction_EndIgnored(t) ==
    /\ pc[t] = "Transaction_End"
    /\ UNCHANGED stored
    /\ Closes(held[t]) /\ Restores(held[t])
    /\ Go(t, "PushWrapper")
    /\ UNCHANGED <<free, held, service, result, told, excused>>

\* The commit fails: a rollback, autocommit(true), and the service returns false.
Transaction_EndFails(t) ==
    /\ pc[t] = "Transaction_End"
    /\ UNCHANGED stored
    /\ Closes(held[t]) /\ Restores(held[t])
    /\ Results(t, FALSE)
    /\ Go(t, "PushWrapper")
    /\ UNCHANGED <<free, held, service, told, excused>>

\* A mutant: RollBack without the SetAutoCommit that follows it.
RollBackOnly(t) ==
    /\ pc[t] = "RollBack"
    /\ UNCHANGED <<stored, autocommit, left>>
    /\ Closes(held[t])
    /\ Go(t, "PushWrapper")
    /\ UNCHANGED <<free, held, service, result, told, excused>>

\* A mutant: JoinUser returns before its PushWrapper.
RollBackReturns(t) ==
    /\ pc[t] = "RollBack"
    /\ UNCHANGED stored
    /\ Closes(held[t]) /\ Restores(held[t])
    /\ Go(t, "Idle")
    /\ UNCHANGED <<free, held, service, result, told, excused>>

\* RollBack and SetAutoCommit in JoinUser.
RollBack(t) ==
    /\ pc[t] = "RollBack"
    /\ UNCHANGED stored
    /\ Closes(held[t]) /\ Restores(held[t])
    /\ Go(t, "PushWrapper")
    /\ UNCHANGED <<free, held, service, result, told, excused>>

\* The service returns.  What is pending is no longer its own to commit.
Returns(t) ==
    /\ Go(t, "Idle")
    /\ told' = [told EXCEPT ![t] = IF result[t] THEN "true" ELSE "false"]
    /\ pending' = [pending EXCEPT ![held[t]] =
                     IF @ = {} THEN {} ELSE {Earlier}]
    /\ excused' = IF held[t] \in left THEN excused \cup {t} ELSE excused
    /\ UNCHANGED <<autocommit, begun, stored, service, result, left>>

PushWrapper(t) ==
    /\ pc[t] = "PushWrapper"
    /\ Pool!GiveBack(t)
    /\ Returns(t)

\* PasswordCompare of a room with no password: the connection is closed.
ReturnWithoutPush(t) ==
    /\ pc[t] = "PushWrapper"
    /\ service[t] = "PasswordCompare" /\ result[t]
    /\ Pool!Drop(t)
    /\ Returns(t)

Service(t) ==
    \/ PopWrapper(t) \/ Transaction_Start(t) \/ Query(t) \/ QueryFails(t)
    \/ DestroyChattingById(t) \/ Statement(t) \/ InsertIgnored(t)
    \/ StatementFails(t) \/ Transaction_End(t) \/ Transaction_EndFails(t)
    \/ RollBack(t) \/ PushWrapper(t) \/ ReturnWithoutPush(t)

Next == \E t \in Threads : Service(t)

Spec == Init /\ [][Next]_vars

-----------------------------------------------------------------------------
(* Properties.                                                             *)

\* A connection of the pool has autocommit on and nothing open, whichever way
\* its last service ended, so that the next one's writes commit and its reads
\* are fresh.  ExitRoom is the exception: it returns inside its transaction
\* when the count fails (ExitRoomService.cpp:17-31), until a Transaction_End
\* or a RollBack with SetAutoCommit on that connection.
IdleIsClean ==
    \A c \in free \ left : autocommit[c] /\ c \notin begun /\ pending[c] = {}

\* What returned true is committed: a failed commit is told, and no other
\* service's rollback takes it back (JoinService.cpp:35-52,
\* EntryRoomService.cpp:19-39, ExitRoomService.cpp:17-32).  The exceptions are
\* the writes on a connection of left, the services that do not look at what a
\* failed statement returned, and an INSERT IGNORE that found no room or no user
\* (RoomMemberRepository.cpp:28, MessageRepository.cpp:31).
ReportedIsCommitted ==
    \A t \in Threads \ excused :
        told[t] = "true" /\ service[t] # "Read" => t \in stored

\* A JOIN, an entry or a single write that returned false has stored nothing:
\* the rollback comes before the autocommit(true), which would commit
\* (DatabaseWrapper.cpp:62-73, JoinService.cpp:17-48).
RefusedStoresNothing ==
    \A t \in stored :
        told[t] = "false" => service[t] = "ExitRoom"

=============================================================================
