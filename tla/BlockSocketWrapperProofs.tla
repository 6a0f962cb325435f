---------------------- MODULE BlockSocketWrapperProofs ----------------------
(***************************************************************************)
(* The safety of BlockSocketWrapper for any number of connections and any  *)
(* set of rooms.  RegistryInv is inductive: it ties the registry and the   *)
(* groups to where the AcceptProc thread and each RecvProc thread are.     *)
(***************************************************************************)
EXTENDS BlockSocketWrapper, TLAPS

\* The steps in which AcceptClient has registered LastUserID and not yet
\* started its thread.
Welcoming == pc[Acceptor] \in {"PrivateMessage", "Send", "CreateThread"}

\* A RecvProc thread is started for every id given out, and for no other.
ThreadsStarted ==
    \A u \in Users : pc[u] = "NotStarted" <=>
         ~(u < LastUserID \/ (u = LastUserID /\ pc[Acceptor] = "Accepted"))

\* A socket is owned from Register until the thread of its user closes it.
SocketsOwned ==
    \A u \in Users : u \in AllSockets <=>
        \/ pc[u] \notin {"NotStarted", "Finished"}
        \/ u = LastUserID /\ Welcoming

\* What the session pointer is in the calls that are safe: the thread's own
\* user, the user AcceptProc welcomes, or any session under the mutex.
SessionsRead ==
    /\ pc[Acceptor] = "Send" => session[Acceptor] = LastUserID
    /\ \A u \in Users :
         /\ pc[u] \in {"Peek", "Recv"} => session[u] = u
         /\ pc[u] = "BroadcastSend" =>
              NetworkSessionMutex = u /\ session[u] \in AllSockets

RegistryInv ==
    /\ TypeOK
    /\ ThreadsStarted
    /\ SocketsOwned
    /\ SessionsRead
    /\ RegistryOwnsSockets
    /\ GroupsHoldRegistered

-----------------------------------------------------------------------------

\* The types hold before the first connection.
LEMMA InitTypeOK == Init => TypeOK
  <1> SUFFICES ASSUME Init PROVE TypeOK
    OBVIOUS
  <1> USE MaxUserAssumption DEF Init, Users, Threads, Acceptor
  <1>1. pc[Acceptor] = "Accept" /\ pc \in [Threads -> {"Accept", "NotStarted"}]
    OBVIOUS
  <1>2. ASSUME NEW u \in Users PROVE pc[u] = "NotStarted"
    OBVIOUS
  <1>3. pc[Acceptor] \in AcceptorPCs /\ \A u \in Users : pc[u] \in RecvPCs
    BY <1>1, <1>2 DEF AcceptorPCs, RecvPCs
  <1>4. pc \in [Threads -> AcceptorPCs \cup RecvPCs]
    BY <1>1 DEF AcceptorPCs, RecvPCs
  <1>5. /\ NetworkSessionMutex \in Threads \cup {Free}
        /\ AllNetworkSessions \in [Users -> Pointers \cup {Absent}]
        /\ AllSockets \in SUBSET Users
        /\ LastUserID \in 1..(MaxUser + 1)
    BY DEF Free, Absent
  <1>6. /\ GroupNetworkSessions \in [Groups -> SUBSET Pointers]
        /\ session \in [Threads -> Pointers]
        /\ visited \in [Threads -> SUBSET Pointers]
        /\ peer \in [Users -> PeerState]
        /\ group \in [Users -> Groups]
    BY DEF Pointers, Null, PeerState
  <1>7. QED
    BY <1>1, <1>3, <1>4, <1>5, <1>6 DEF TypeOK

\* The threads and the pointers, without arithmetic.
LEMMA Ids ==
  /\ Acceptor \in Threads /\ Acceptor \notin Users
  /\ Users \subseteq Threads /\ Threads = Users \cup {Acceptor}
  /\ Users \subseteq Pointers /\ Null \in Pointers /\ Null \notin Users
  /\ Absent \notin Pointers
  /\ Free \notin Threads
  BY MaxUserAssumption DEF Users, Threads, Acceptor, Pointers, Null, Absent, Free

\* A step of a RecvProc thread moves that thread only, to a place of its own.
LEMMA UserGoes ==
  ASSUME TypeOK, NEW u \in Users, NEW next \in RecvPCs, Go(u, next)
  PROVE  /\ pc' \in [Threads -> AcceptorPCs \cup RecvPCs]
         /\ pc'[Acceptor] = pc[Acceptor]
         /\ pc'[u] = next
         /\ \A v \in Users : v # u => pc'[v] = pc[v]
         /\ \A v \in Users : pc'[v] \in RecvPCs
  BY Ids DEF TypeOK, Go

\* A step of the AcceptProc thread moves that thread only.
LEMMA AcceptorGoes ==
  ASSUME TypeOK, NEW next \in AcceptorPCs, Go(Acceptor, next)
  PROVE  /\ pc' \in [Threads -> AcceptorPCs \cup RecvPCs]
         /\ pc'[Acceptor] = next
         /\ \A v \in Users : pc'[v] = pc[v]
  BY Ids DEF TypeOK, Go

\* No step of any thread breaks a type; CreateThread moves two threads.
LEMMA NextTypeOK == TypeOK /\ [Next]_vars => TypeOK'
  <1> SUFFICES ASSUME TypeOK, [Next]_vars PROVE TypeOK'
    OBVIOUS
  <1> USE Ids DEF registry, Release
  <1>1. CASE AcceptSocket
    <2>1. LastUserID \in Users
      BY <1>1, MaxUserAssumption DEF AcceptSocket, TypeOK, Users
    <2>2. Go(Acceptor, "Register") /\ "Register" \in AcceptorPCs
      BY <1>1 DEF AcceptSocket, AcceptorPCs
    <2>3. QED
      BY <1>1, <2>1, <2>2, AcceptorGoes DEF AcceptSocket, TypeOK, PeerState
  <1>2. CASE Register
    <2>1. Go(Acceptor, "PrivateMessage") /\ "PrivateMessage" \in AcceptorPCs
      BY <1>2 DEF Register, AcceptorPCs
    <2>2. QED
      BY <1>2, <2>1, AcceptorGoes DEF Register, Holds, TypeOK
  <1>3. CASE CreateThread
    <2>1. LastUserID \in Users /\ "RecvMessageHeader" \in RecvPCs /\ "Accepted" \in AcceptorPCs
      BY <1>3 DEF CreateThread, TypeOK, RecvPCs, AcceptorPCs
    <2>2. QED
      BY <1>3, <2>1 DEF CreateThread, TypeOK
  <1>4. CASE Accepted
    <2>1. Go(Acceptor, "Accept") /\ "Accept" \in AcceptorPCs
      BY <1>4 DEF Accepted, AcceptorPCs
    <2>2. LastUserID' \in 1..(MaxUser + 1)
      BY <1>4, MaxUserAssumption DEF Accepted, TypeOK, Users
    <2>3. QED
      BY <1>4, <2>1, <2>2, AcceptorGoes DEF Accepted, TypeOK
  <1>5. ASSUME NEW u \in Users, RecvMessageHeader(u) PROVE TypeOK'
    <2>1. PICK next \in {"Peek", "CloseSocket"} : Go(u, next)
      BY <1>5 DEF RecvMessageHeader, RecvLookup
    <2>2. next \in RecvPCs
      BY DEF RecvPCs
    <2>3. session' \in [Threads -> Pointers]
      BY <1>5 DEF RecvMessageHeader, RecvLookup, TypeOK
    <2>4. QED
      BY <1>5, <2>1, <2>2, <2>3, UserGoes DEF RecvMessageHeader, RecvLookup, TypeOK
  <1>6. ASSUME NEW u \in Users, Peek(u) PROVE TypeOK'
    <2>1. PICK next \in {"RecvMessage", "Controller", "CloseSocket"} : Go(u, next)
      BY <1>6 DEF Peek, AfterPeek
    <2>2. next \in RecvPCs
      BY DEF RecvPCs
    <2>3. QED
      BY <1>6, <2>1, <2>2, UserGoes DEF Peek, TypeOK
  <1>7. ASSUME NEW u \in Users, RecvMessage(u) PROVE TypeOK'
    <2>1. PICK next \in {"Recv", "Controller"} : Go(u, next)
      BY <1>7 DEF RecvMessage, RecvLookup
    <2>2. next \in RecvPCs
      BY DEF RecvPCs
    <2>3. session' \in [Threads -> Pointers]
      BY <1>7 DEF RecvMessage, RecvLookup, TypeOK
    <2>4. QED
      BY <1>7, <2>1, <2>2, <2>3, UserGoes DEF RecvMessage, RecvLookup, TypeOK
  <1>8. ASSUME NEW u \in Users, Recv(u) PROVE TypeOK'
    <2>1. PICK next \in {"Controller", "RecvMessage"} : Go(u, next)
      BY <1>8 DEF Recv
    <2>2. next \in RecvPCs
      BY DEF RecvPCs
    <2>3. QED
      BY <1>8, <2>1, <2>2, UserGoes DEF Recv, TypeOK
  <1>9. ASSUME NEW u \in Users, CallWrapper(u) PROVE TypeOK'
    <2>1. PICK next \in {"EntryGroup", "ExitGroup", "GroupBroadcast", "PrivateMessage", "Broadcast",
                        "PopWrapper"} : Go(u, next)
      BY <1>9 DEF CallWrapper
    <2>2. next \in RecvPCs
      BY DEF RecvPCs
    <2>3. QED
      BY <1>9, <2>1, <2>2, UserGoes DEF CallWrapper, TypeOK
  <1>10. ASSUME NEW u \in Users, NextPacket(u) PROVE TypeOK'
    <2>1. PICK next \in {"RecvMessageHeader"} : Go(u, next)
      BY <1>10 DEF NextPacket
    <2>2. next \in RecvPCs
      BY DEF RecvPCs
    <2>3. QED
      BY <1>10, <2>1, <2>2, UserGoes DEF NextPacket, TypeOK
  <1>11. ASSUME NEW u \in Users, CloseSocket(u) PROVE TypeOK'
    <2>1. PICK next \in {"Finished"} : Go(u, next)
      BY <1>11 DEF CloseSocket
    <2>2. next \in RecvPCs
      BY DEF RecvPCs
    <2>3. GroupNetworkSessions' \in [Groups -> SUBSET Pointers]
      BY <1>11 DEF CloseSocket, PointerAt, TypeOK
    <2>4. QED
      BY <1>11, <2>1, <2>2, <2>3, UserGoes DEF CloseSocket, PointerAt, TypeOK
  <1>12. ASSUME NEW u \in Users, EntryGroup(u) PROVE TypeOK'
    <2>1. PICK next \in {"Controller"} : Go(u, next)
      BY <1>12 DEF EntryGroup
    <2>2. next \in RecvPCs
      BY DEF RecvPCs
    <2>3. GroupNetworkSessions' \in [Groups -> SUBSET Pointers]
      BY <1>12 DEF EntryGroup, TypeOK
    <2>4. QED
      BY <1>12, <2>1, <2>2, <2>3, UserGoes DEF EntryGroup, TypeOK
  <1>13. ASSUME NEW u \in Users, ExitGroup(u) PROVE TypeOK'
    <2>1. PICK next \in {"ExitGroupErase", "Controller"} : Go(u, next)
      BY <1>13 DEF ExitGroup
    <2>2. next \in RecvPCs
      BY DEF RecvPCs
    <2>3. QED
      BY <1>13, <2>1, <2>2, UserGoes DEF ExitGroup, TypeOK
  <1>14. ASSUME NEW u \in Users, ExitGroupErase(u) PROVE TypeOK'
    <2>1. PICK next \in {"Controller"} : Go(u, next)
      BY <1>14 DEF ExitGroupErase
    <2>2. next \in RecvPCs
      BY DEF RecvPCs
    <2>3. GroupNetworkSessions' \in [Groups -> SUBSET Pointers] /\ AllNetworkSessions' \in [Users -> Pointers \cup {Absent}]
      BY <1>14 DEF ExitGroupErase, PointerAt, Subscripted, TypeOK
    <2>4. QED
      BY <1>14, <2>1, <2>2, <2>3, UserGoes DEF ExitGroupErase, PointerAt, Subscripted, TypeOK
  <1>15. ASSUME NEW u \in Users, Broadcast(u) PROVE TypeOK'
    <2>1. PICK next \in {"BroadcastSend", "Controller"} : Go(u, next)
      BY <1>15 DEF Broadcast
    <2>2. next \in RecvPCs
      BY DEF RecvPCs
    <2>3. session' \in [Threads -> Pointers] /\ visited' \in [Threads -> SUBSET Pointers]
      BY <1>15 DEF Broadcast, Registered, TypeOK
    <2>4. QED
      BY <1>15, <2>1, <2>2, <2>3, UserGoes DEF Broadcast, Registered, TypeOK
  <1>16. ASSUME NEW u \in Users, GroupBroadcast(u) PROVE TypeOK'
    <2>1. PICK next \in {"GroupSend", "Controller"} : Go(u, next)
      BY <1>16 DEF GroupBroadcast
    <2>2. next \in RecvPCs
      BY DEF RecvPCs
    <2>3. session' \in [Threads -> Pointers] /\ visited' \in [Threads -> SUBSET Pointers]
      BY <1>16 DEF GroupBroadcast, TypeOK
    <2>4. QED
      BY <1>16, <2>1, <2>2, <2>3, UserGoes DEF GroupBroadcast, TypeOK
  <1>17. ASSUME NEW t \in Threads, Acquire(t) PROVE TypeOK'
    BY <1>17 DEF Acquire, TypeOK
  <1>18. ASSUME NEW t \in Threads, PrivateMessage(t) PROVE TypeOK'
    <2>1. session' \in [Threads -> Pointers]
      BY <1>18 DEF PrivateMessage, TypeOK, Addressees, Registered
    <2>2. CASE t = Acceptor
      <3>1. PICK next \in {"Send", "CreateThread"} : Go(t, next)
        BY <1>18, <2>2 DEF PrivateMessage, Return
      <3>2. next \in AcceptorPCs
        BY DEF AcceptorPCs
      <3>3. QED
        BY <1>18, <2>1, <2>2, <3>1, <3>2, AcceptorGoes DEF PrivateMessage, Holds, TypeOK
    <2>3. CASE t \in Users
      <3>1. PICK next \in {"Send", "Controller"} : Go(t, next)
        BY <1>18, <2>3 DEF PrivateMessage, Return
      <3>2. next \in RecvPCs
        BY DEF RecvPCs
      <3>3. QED
        BY <1>18, <2>1, <2>3, <3>1, <3>2, UserGoes DEF PrivateMessage, TypeOK
    <2>4. QED
      BY <2>2, <2>3
  <1>19. ASSUME NEW t \in Threads, SendMsg(t) PROVE TypeOK'
    <2>1. session' \in [Threads -> Pointers] /\ visited' \in [Threads -> SUBSET Pointers]
      BY <1>19 DEF SendMsg, TypeOK
    <2>2. CASE t = Acceptor
      <3>1. pc[t] = "Send"
        BY <1>19, <2>2 DEF SendMsg, TypeOK, Sending, AcceptorPCs
      <3>2. Go(t, "CreateThread") /\ "CreateThread" \in AcceptorPCs
        BY <1>19, <2>2, <3>1 DEF SendMsg, Return, AcceptorPCs
      <3>3. QED
        BY <1>19, <2>1, <2>2, <3>1, <3>2, AcceptorGoes DEF SendMsg, TypeOK
    <2>3. CASE t \in Users
      <3>1. PICK next \in {"Controller", "GroupBroadcast", "Broadcast"} : Go(t, next)
        BY <1>19, <2>3 DEF SendMsg, Return
      <3>2. next \in RecvPCs
        BY DEF RecvPCs
      <3>3. QED
        BY <1>19, <2>1, <2>3, <3>1, <3>2, UserGoes DEF SendMsg, TypeOK
    <2>4. QED
      BY <2>2, <2>3
  <1>20. ASSUME NEW u \in Users, NEW how \in Lost \cup {"remnant"}, Lose(u, how) PROVE TypeOK'
    BY <1>20 DEF Lose, TypeOK, PeerState
  <1>21. CASE UNCHANGED vars
    BY <1>21 DEF vars, TypeOK
  <1>23. ASSUME NEW u \in Users, PopWrapper(u) PROVE TypeOK'
    <2>1. Go(u, "Controller") /\ "Controller" \in RecvPCs
      BY <1>23 DEF PopWrapper, RecvPCs
    <2>2. QED
      BY <1>23, <2>1, UserGoes DEF PopWrapper, TypeOK
  <1>22. QED
    BY <1>1, <1>2, <1>3, <1>4, <1>5, <1>6, <1>7, <1>8, <1>9, <1>10, <1>11, <1>12, <1>13, <1>14, <1>15, <1>16, <1>17, <1>18, <1>19, <1>20, <1>21, <1>23 DEF Next, AcceptProc, RecvProc

-----------------------------------------------------------------------------

\* A step of a running RecvProc thread that leaves the sockets and the ids
\* alone keeps every thread and every socket accounted for.
LEMMA UserFrame ==
  ASSUME TypeOK, ThreadsStarted, SocketsOwned, NEW u \in Users,
         pc[u] \notin {"NotStarted", "Finished"},
         NEW next \in RecvPCs, next \notin {"NotStarted", "Finished"}, Go(u, next),
         UNCHANGED <<AllSockets, LastUserID>>
  PROVE  ThreadsStarted' /\ SocketsOwned'
  <1>1. ThreadsStarted'
    BY UserGoes DEF ThreadsStarted
  <1>2. SocketsOwned'
    BY UserGoes DEF SocketsOwned, Welcoming
  <1>3. QED
    BY <1>1, <1>2

\* A step that leaves the registry alone keeps what is said of it alone.
LEMMA RegistryFrame ==
  ASSUME RegistryOwnsSockets, GroupsHoldRegistered, UNCHANGED registry
  PROVE  RegistryOwnsSockets' /\ GroupsHoldRegistered'
  BY DEF RegistryOwnsSockets, GroupsHoldRegistered, registry

\* The empty registry satisfies the invariant.
LEMMA InitRegistryInv == Init => RegistryInv
  <1> SUFFICES ASSUME Init PROVE RegistryInv
    OBVIOUS
  <1> USE Ids DEF Init
  <1>1. TypeOK
    BY InitTypeOK
  <1>2. pc[Acceptor] = "Accept" /\ \A u \in Users : pc[u] = "NotStarted"
    OBVIOUS
  <1>3. ThreadsStarted
    <2>1. \A u \in Users : ~(u < LastUserID)
      BY MaxUserAssumption DEF Users
    <2>2. QED
      BY <1>2, <2>1 DEF ThreadsStarted
  <1>4. SocketsOwned /\ SessionsRead
    BY <1>2 DEF SocketsOwned, SessionsRead, Welcoming
  <1>5. RegistryOwnsSockets /\ GroupsHoldRegistered
    BY DEF RegistryOwnsSockets, GroupsHoldRegistered
  <1>6. QED
    BY <1>1, <1>3, <1>4, <1>5 DEF RegistryInv

\* Every step keeps the invariant: the registry changes in Register, CloseSocket,
\* EntryGroup and ExitGroupErase only, each by the thread the entry is about.
LEMMA NextRegistryInv == RegistryInv /\ [Next]_vars => RegistryInv'
  <1> SUFFICES ASSUME RegistryInv, [Next]_vars PROVE RegistryInv'
    OBVIOUS
  <1>0. TypeOK /\ TypeOK'
    BY NextTypeOK DEF RegistryInv
  <1> USE Ids, <1>0 DEF RegistryInv, Release
  <1>1. CASE AcceptSocket
    <2>1. Go(Acceptor, "Register") /\ "Register" \in AcceptorPCs
      BY <1>1 DEF AcceptSocket, AcceptorPCs
    <2>2. ThreadsStarted' /\ SocketsOwned' /\ SessionsRead'
      BY <1>1, <2>1, AcceptorGoes
         DEF AcceptSocket, ThreadsStarted, SocketsOwned, Welcoming, SessionsRead, registry
    <2>3. QED
      BY <1>1, <2>2, RegistryFrame DEF AcceptSocket
  <1>2. CASE Register
    <2>1. Go(Acceptor, "PrivateMessage") /\ "PrivateMessage" \in AcceptorPCs
      BY <1>2 DEF Register, AcceptorPCs
    <2>2. LastUserID \in Users /\ pc[Acceptor] = "Register" /\ NetworkSessionMutex = Acceptor
      BY <1>2 DEF Register, Holds, TypeOK
    <2>3. ThreadsStarted'
      BY <1>2, <2>1, <2>2, AcceptorGoes DEF Register, ThreadsStarted
    <2>4. SocketsOwned'
      BY <1>2, <2>1, <2>2, AcceptorGoes DEF Register, SocketsOwned, Welcoming
    <2>5. SessionsRead'
      BY <1>2, <2>1, <2>2, AcceptorGoes DEF Register, SessionsRead
    <2>6. RegistryOwnsSockets'
      BY <1>2, <2>2 DEF Register, RegistryOwnsSockets, TypeOK
    <2>7. GroupsHoldRegistered'
      BY <1>2, <2>2 DEF Register, GroupsHoldRegistered, RegistryOwnsSockets, TypeOK
    <2>8. QED
      BY <2>3, <2>4, <2>5, <2>6, <2>7
  <1>3. CASE CreateThread
    <2>1. /\ LastUserID \in Users /\ pc[Acceptor] = "CreateThread"
          /\ UNCHANGED <<registry, LastUserID, session, NetworkSessionMutex>>
      BY <1>3 DEF CreateThread, TypeOK
    <2>2. /\ pc'[Acceptor] = "Accepted" /\ pc'[LastUserID] = "RecvMessageHeader"
          /\ \A v \in Users : v # LastUserID => pc'[v] = pc[v]
      <3>1. pc' = [pc EXCEPT ![Acceptor] = "Accepted", ![LastUserID] = "RecvMessageHeader"]
        BY <1>3 DEF CreateThread
      <3>2. LastUserID # Acceptor /\ DOMAIN pc = Threads
        BY <2>1 DEF TypeOK
      <3>3. QED
        BY <2>1, <3>1, <3>2
    <2>3. ThreadsStarted'
      BY <2>1, <2>2 DEF ThreadsStarted
    <2>4. SocketsOwned'
      BY <2>1, <2>2 DEF SocketsOwned, Welcoming, registry
    <2>5. SessionsRead'
      BY <2>1, <2>2 DEF SessionsRead, registry
    <2>6. QED
      BY <2>1, <2>3, <2>4, <2>5, RegistryFrame
  <1>4. CASE Accepted
    <2>1. Go(Acceptor, "Accept") /\ "Accept" \in AcceptorPCs
      BY <1>4 DEF Accepted, AcceptorPCs
    <2>2. pc[Acceptor] = "Accepted" /\ LastUserID \in Users /\ LastUserID' = LastUserID + 1
      BY <1>4 DEF Accepted, TypeOK
    <2>3. /\ pc'[Acceptor] = "Accept" /\ \A v \in Users : pc'[v] = pc[v]
          /\ UNCHANGED <<registry, session, NetworkSessionMutex>>
      BY <1>4, <2>1, AcceptorGoes DEF Accepted
    <2>4. \A u \in Users : u < LastUserID' <=> u < LastUserID \/ u = LastUserID
      BY <2>2, MaxUserAssumption DEF Users
    <2>5. ThreadsStarted'
      BY <2>2, <2>3, <2>4 DEF ThreadsStarted
    <2>6. SocketsOwned' /\ SessionsRead'
      BY <2>2, <2>3 DEF SocketsOwned, SessionsRead, Welcoming, registry
    <2>7. QED
      BY <2>3, <2>5, <2>6, RegistryFrame
  <1>5. ASSUME NEW u \in Users, RecvMessageHeader(u) PROVE RegistryInv'
    <2>1. PICK next \in {"Peek", "CloseSocket"} : Go(u, next)
      BY <1>5 DEF RecvMessageHeader, RecvLookup, Holds
    <2>2. next \in RecvPCs \ {"NotStarted", "Finished"}
      BY DEF RecvPCs
    <2>3. pc[u] \notin {"NotStarted", "Finished"} /\ UNCHANGED <<AllSockets, LastUserID>>
      BY <1>5 DEF RecvMessageHeader, RecvLookup, Holds, registry
    <2>4. u \in AllSockets /\ AllNetworkSessions[u] = u
      BY <2>3 DEF SocketsOwned, RegistryOwnsSockets
    <2>5. ThreadsStarted' /\ SocketsOwned'
      BY <2>1, <2>2, <2>3, UserFrame
    <2>6. SessionsRead'
      BY <1>5, <2>1, <2>2, <2>3, <2>4, UserGoes DEF RecvMessageHeader, RecvLookup, Holds, SessionsRead, TypeOK
    <2>7. QED
      BY <1>5, <2>5, <2>6, RegistryFrame DEF RecvMessageHeader, RecvLookup, Holds
  <1>6. ASSUME NEW u \in Users, Peek(u) PROVE RegistryInv'
    <2>1. PICK next \in {"RecvMessage", "Controller", "CloseSocket"} : Go(u, next)
      BY <1>6 DEF Peek, AfterPeek
    <2>2. next \in RecvPCs \ {"NotStarted", "Finished"}
      BY DEF RecvPCs
    <2>3. pc[u] \notin {"NotStarted", "Finished"} /\ UNCHANGED <<AllSockets, LastUserID>>
      BY <1>6 DEF Peek, registry
    <2>4. u \in AllSockets /\ AllNetworkSessions[u] = u
      BY <2>3 DEF SocketsOwned, RegistryOwnsSockets
    <2>5. ThreadsStarted' /\ SocketsOwned'
      BY <2>1, <2>2, <2>3, UserFrame
    <2>6. SessionsRead'
      BY <1>6, <2>1, <2>2, <2>3, <2>4, UserGoes DEF Peek, SessionsRead, TypeOK
    <2>7. QED
      BY <1>6, <2>5, <2>6, RegistryFrame DEF Peek
  <1>7. ASSUME NEW u \in Users, RecvMessage(u) PROVE RegistryInv'
    <2>1. PICK next \in {"Recv", "Controller"} : Go(u, next)
      BY <1>7 DEF RecvMessage, RecvLookup, Holds
    <2>2. next \in RecvPCs \ {"NotStarted", "Finished"}
      BY DEF RecvPCs
    <2>3. pc[u] \notin {"NotStarted", "Finished"} /\ UNCHANGED <<AllSockets, LastUserID>>
      BY <1>7 DEF RecvMessage, RecvLookup, Holds, registry
    <2>4. u \in AllSockets /\ AllNetworkSessions[u] = u
      BY <2>3 DEF SocketsOwned, RegistryOwnsSockets
    <2>5. ThreadsStarted' /\ SocketsOwned'
      BY <2>1, <2>2, <2>3, UserFrame
    <2>6. SessionsRead'
      BY <1>7, <2>1, <2>2, <2>3, <2>4, UserGoes DEF RecvMessage, RecvLookup, Holds, SessionsRead, TypeOK
    <2>7. QED
      BY <1>7, <2>5, <2>6, RegistryFrame DEF RecvMessage, RecvLookup, Holds
  <1>8. ASSUME NEW u \in Users, Recv(u) PROVE RegistryInv'
    <2>1. PICK next \in {"Controller", "RecvMessage"} : Go(u, next)
      BY <1>8 DEF Recv
    <2>2. next \in RecvPCs \ {"NotStarted", "Finished"}
      BY DEF RecvPCs
    <2>3. pc[u] \notin {"NotStarted", "Finished"} /\ UNCHANGED <<AllSockets, LastUserID>>
      BY <1>8 DEF Recv, registry
    <2>4. u \in AllSockets /\ AllNetworkSessions[u] = u
      BY <2>3 DEF SocketsOwned, RegistryOwnsSockets
    <2>5. ThreadsStarted' /\ SocketsOwned'
      BY <2>1, <2>2, <2>3, UserFrame
    <2>6. SessionsRead'
      BY <1>8, <2>1, <2>2, <2>3, <2>4, UserGoes DEF Recv, SessionsRead, TypeOK
    <2>7. QED
      BY <1>8, <2>5, <2>6, RegistryFrame DEF Recv
  <1>9. ASSUME NEW u \in Users, CallWrapper(u) PROVE RegistryInv'
    <2>1. PICK next \in {"EntryGroup", "ExitGroup", "GroupBroadcast", "PrivateMessage", "Broadcast",
                        "PopWrapper"} : Go(u, next)
      BY <1>9 DEF CallWrapper
    <2>2. next \in RecvPCs \ {"NotStarted", "Finished"}
      BY DEF RecvPCs
    <2>3. pc[u] \notin {"NotStarted", "Finished"} /\ UNCHANGED <<AllSockets, LastUserID>>
      BY <1>9 DEF CallWrapper, registry
    <2>4. u \in AllSockets /\ AllNetworkSessions[u] = u
      BY <2>3 DEF SocketsOwned, RegistryOwnsSockets
    <2>5. ThreadsStarted' /\ SocketsOwned'
      BY <2>1, <2>2, <2>3, UserFrame
    <2>6. SessionsRead'
      BY <1>9, <2>1, <2>2, <2>3, <2>4, UserGoes DEF CallWrapper, SessionsRead, TypeOK
    <2>7. QED
      BY <1>9, <2>5, <2>6, RegistryFrame DEF CallWrapper
  <1>10. ASSUME NEW u \in Users, NextPacket(u) PROVE RegistryInv'
    <2>1. PICK next \in {"RecvMessageHeader"} : Go(u, next)
      BY <1>10 DEF NextPacket
    <2>2. next \in RecvPCs \ {"NotStarted", "Finished"}
      BY DEF RecvPCs
    <2>3. pc[u] \notin {"NotStarted", "Finished"} /\ UNCHANGED <<AllSockets, LastUserID>>
      BY <1>10 DEF NextPacket, registry
    <2>4. u \in AllSockets /\ AllNetworkSessions[u] = u
      BY <2>3 DEF SocketsOwned, RegistryOwnsSockets
    <2>5. ThreadsStarted' /\ SocketsOwned'
      BY <2>1, <2>2, <2>3, UserFrame
    <2>6. SessionsRead'
      BY <1>10, <2>1, <2>2, <2>3, <2>4, UserGoes DEF NextPacket, SessionsRead, TypeOK
    <2>7. QED
      BY <1>10, <2>5, <2>6, RegistryFrame DEF NextPacket
  <1>11. ASSUME NEW u \in Users, EntryGroup(u) PROVE RegistryInv'
    <2>1. PICK next \in {"Controller"} : Go(u, next)
      BY <1>11 DEF EntryGroup, Holds
    <2>2. next \in RecvPCs \ {"NotStarted", "Finished"}
      BY DEF RecvPCs
    <2>3. pc[u] \notin {"NotStarted", "Finished"} /\ UNCHANGED <<AllSockets, LastUserID>>
      BY <1>11 DEF EntryGroup, Holds, registry
    <2>4. u \in AllSockets /\ AllNetworkSessions[u] = u
      BY <2>3 DEF SocketsOwned, RegistryOwnsSockets
    <2>5. ThreadsStarted' /\ SocketsOwned'
      BY <2>1, <2>2, <2>3, UserFrame
    <2>6. SessionsRead'
      BY <1>11, <2>1, <2>2, <2>3, <2>4, UserGoes DEF EntryGroup, Holds, SessionsRead, TypeOK
    <2>7. RegistryOwnsSockets'
      BY <1>11 DEF EntryGroup, RegistryOwnsSockets
    <2>8. GroupsHoldRegistered'
      BY <1>11, <2>4 DEF EntryGroup, GroupsHoldRegistered, TypeOK
    <2>9. QED
      BY <2>5, <2>6, <2>7, <2>8
  <1>12. ASSUME NEW u \in Users, ExitGroup(u) PROVE RegistryInv'
    <2>1. PICK next \in {"ExitGroupErase", "Controller"} : Go(u, next)
      BY <1>12 DEF ExitGroup, Holds
    <2>2. next \in RecvPCs \ {"NotStarted", "Finished"}
      BY DEF RecvPCs
    <2>3. pc[u] \notin {"NotStarted", "Finished"} /\ UNCHANGED <<AllSockets, LastUserID>>
      BY <1>12 DEF ExitGroup, Holds, registry
    <2>4. u \in AllSockets /\ AllNetworkSessions[u] = u
      BY <2>3 DEF SocketsOwned, RegistryOwnsSockets
    <2>5. ThreadsStarted' /\ SocketsOwned'
      BY <2>1, <2>2, <2>3, UserFrame
    <2>6. SessionsRead'
      BY <1>12, <2>1, <2>2, <2>3, <2>4, UserGoes DEF ExitGroup, Holds, SessionsRead, TypeOK
    <2>7. QED
      BY <1>12, <2>5, <2>6, RegistryFrame DEF ExitGroup, Holds
  <1>13. ASSUME NEW u \in Users, ExitGroupErase(u) PROVE RegistryInv'
    <2>1. PICK next \in {"Controller"} : Go(u, next)
      BY <1>13 DEF ExitGroupErase, Holds
    <2>2. next \in RecvPCs \ {"NotStarted", "Finished"}
      BY DEF RecvPCs
    <2>3. pc[u] \notin {"NotStarted", "Finished"} /\ UNCHANGED <<AllSockets, LastUserID>>
      BY <1>13 DEF ExitGroupErase, Holds, registry
    <2>4. u \in AllSockets /\ AllNetworkSessions[u] = u
      BY <2>3 DEF SocketsOwned, RegistryOwnsSockets
    <2>5. ThreadsStarted' /\ SocketsOwned'
      BY <2>1, <2>2, <2>3, UserFrame
    <2>6. SessionsRead'
      BY <1>13, <2>1, <2>2, <2>3, <2>4, UserGoes DEF ExitGroupErase, Holds, SessionsRead, TypeOK
    <2>7. AllNetworkSessions' = AllNetworkSessions
      BY <1>13, <2>4 DEF ExitGroupErase, Subscripted, PointerAt, TypeOK
    <2>8. RegistryOwnsSockets'
      BY <2>3, <2>7 DEF RegistryOwnsSockets
    <2>9. GroupsHoldRegistered'
      BY <1>13, <2>3, <2>7 DEF ExitGroupErase, GroupsHoldRegistered, TypeOK
    <2>10. QED
      BY <2>5, <2>6, <2>8, <2>9
  <1>14. ASSUME NEW u \in Users, Broadcast(u) PROVE RegistryInv'
    <2>1. PICK next \in {"BroadcastSend", "Controller"} : Go(u, next)
      BY <1>14 DEF Broadcast, Holds
    <2>2. next \in RecvPCs \ {"NotStarted", "Finished"}
      BY DEF RecvPCs
    <2>3. pc[u] \notin {"NotStarted", "Finished"} /\ UNCHANGED <<AllSockets, LastUserID>>
      BY <1>14 DEF Broadcast, Holds, registry
    <2>4. u \in AllSockets /\ AllNetworkSessions[u] = u
      BY <2>3 DEF SocketsOwned, RegistryOwnsSockets
    <2>5. ThreadsStarted' /\ SocketsOwned'
      BY <2>1, <2>2, <2>3, UserFrame
    <2>6. SessionsRead'
      <3>1. /\ \A v \in Threads : v # u => session'[v] = session[v]
            /\ NetworkSessionMutex = u /\ pc[u] = "Broadcast"
        BY <1>14 DEF Broadcast, Holds, TypeOK
      <3>2. next = "BroadcastSend" => NetworkSessionMutex' = u /\ session'[u] \in AllSockets
        <4> SUFFICES ASSUME next = "BroadcastSend"
                     PROVE  NetworkSessionMutex' = u /\ session'[u] \in AllSockets
          OBVIOUS
        <4>1. pc'[u] = "BroadcastSend"
          BY <2>1, <2>2, UserGoes
        <4>2. PICK v \in Registered : session' = [session EXCEPT ![u] = AllNetworkSessions[v]]
          BY <1>14, <4>1, UserGoes DEF Broadcast, RecvPCs
        <4>3. AllNetworkSessions[v] \in AllSockets
          BY <4>2 DEF Registered, RegistryOwnsSockets
        <4>4. NetworkSessionMutex' = u
          BY <1>14, <3>1, <4>1, UserGoes DEF Broadcast, RecvPCs
        <4>5. QED
          BY <4>2, <4>3, <4>4 DEF TypeOK
      <3>3. QED
        BY <2>1, <2>2, <2>3, <3>1, <3>2, UserGoes DEF SessionsRead
    <2>7. QED
      BY <1>14, <2>5, <2>6, RegistryFrame DEF Broadcast, Holds
  <1>15. ASSUME NEW u \in Users, GroupBroadcast(u) PROVE RegistryInv'
    <2>1. PICK next \in {"GroupSend", "Controller"} : Go(u, next)
      BY <1>15 DEF GroupBroadcast
    <2>2. next \in RecvPCs \ {"NotStarted", "Finished"}
      BY DEF RecvPCs
    <2>3. pc[u] \notin {"NotStarted", "Finished"} /\ UNCHANGED <<AllSockets, LastUserID>>
      BY <1>15 DEF GroupBroadcast, registry
    <2>4. u \in AllSockets /\ AllNetworkSessions[u] = u
      BY <2>3 DEF SocketsOwned, RegistryOwnsSockets
    <2>5. ThreadsStarted' /\ SocketsOwned'
      BY <2>1, <2>2, <2>3, UserFrame
    <2>6. SessionsRead'
      BY <1>15, <2>1, <2>2, <2>3, <2>4, UserGoes DEF GroupBroadcast, SessionsRead, TypeOK
    <2>7. QED
      BY <1>15, <2>5, <2>6, RegistryFrame DEF GroupBroadcast
  <1>16. ASSUME NEW u \in Users, CloseSocket(u) PROVE RegistryInv'
    <2>1. Go(u, "Finished") /\ "Finished" \in RecvPCs
      BY <1>16 DEF CloseSocket, RecvPCs
    <2>2. pc[u] = "CloseSocket" /\ NetworkSessionMutex = u
      BY <1>16 DEF CloseSocket, Holds
    <2>3. u \in AllSockets /\ PointerAt(u) = u
      BY <2>2 DEF SocketsOwned, RegistryOwnsSockets, PointerAt
    <2>4. ~(u = LastUserID /\ Welcoming)
      BY <2>2 DEF ThreadsStarted, Welcoming, TypeOK
    <2>5. ThreadsStarted'
      BY <1>16, <2>1, <2>2, UserGoes DEF CloseSocket, ThreadsStarted
    <2>6. SocketsOwned'
      BY <1>16, <2>1, <2>2, <2>4, UserGoes DEF CloseSocket, SocketsOwned, Welcoming
    <2>7. SessionsRead'
      BY <1>16, <2>1, <2>2, UserGoes DEF CloseSocket, SessionsRead
    <2>8. RegistryOwnsSockets'
      BY <1>16 DEF CloseSocket, RegistryOwnsSockets, TypeOK
    <2>9. GroupsHoldRegistered'
      BY <1>16, <2>3 DEF CloseSocket, GroupsHoldRegistered, TypeOK
    <2>10. QED
      BY <2>5, <2>6, <2>7, <2>8, <2>9
  <1>17. ASSUME NEW t \in Threads, Acquire(t) PROVE RegistryInv'
    <2>1. UNCHANGED <<pc, AllSockets, LastUserID, session>> /\ NetworkSessionMutex = Free
      BY <1>17 DEF Acquire, registry
    <2>2. ThreadsStarted' /\ SocketsOwned' /\ SessionsRead'
      BY <2>1 DEF ThreadsStarted, SocketsOwned, Welcoming, SessionsRead
    <2>3. QED
      BY <1>17, <2>2, RegistryFrame DEF Acquire
  <1>18. ASSUME NEW t \in Threads, PrivateMessage(t) PROVE RegistryInv'
    <2>1. /\ pc[t] = "PrivateMessage" /\ NetworkSessionMutex = t
          /\ UNCHANGED <<registry, AllSockets, LastUserID>>
          /\ \A v \in Threads : v # t => session'[v] = session[v]
      BY <1>18 DEF PrivateMessage, Holds, registry, TypeOK
    <2>2. CASE t = Acceptor
      <3>1. LastUserID \in Users /\ LastUserID \in AllSockets /\ AllNetworkSessions[LastUserID] = LastUserID
        BY <2>1, <2>2 DEF TypeOK, SocketsOwned, RegistryOwnsSockets, Welcoming
      <3>2. Go(Acceptor, "Send") /\ "Send" \in AcceptorPCs /\ session'[Acceptor] = LastUserID
        BY <1>18, <2>2, <3>1 DEF PrivateMessage, Addressees, Registered, AcceptorPCs, TypeOK
      <3>3. ThreadsStarted' /\ SocketsOwned'
        BY <2>1, <2>2, <3>2, AcceptorGoes DEF ThreadsStarted, SocketsOwned, Welcoming
      <3>4. SessionsRead'
        BY <2>1, <2>2, <3>2, AcceptorGoes DEF SessionsRead
      <3>5. QED
        BY <2>1, <3>3, <3>4, RegistryFrame
    <2>3. CASE t \in Users
      <3>1. PICK next \in {"Send", "Controller"} : Go(t, next)
        BY <1>18, <2>3 DEF PrivateMessage, Return
      <3>2. next \in RecvPCs \ {"NotStarted", "Finished"}
        BY DEF RecvPCs
      <3>3. ThreadsStarted' /\ SocketsOwned'
        BY <2>1, <2>3, <3>1, <3>2, UserFrame
      <3>4. SessionsRead'
        BY <2>1, <2>3, <3>1, <3>2, UserGoes DEF SessionsRead
      <3>5. QED
        BY <2>1, <3>3, <3>4, RegistryFrame
    <2>4. QED
      BY <2>2, <2>3
  <1>19. ASSUME NEW t \in Threads, SendMsg(t) PROVE RegistryInv'
    <2>1. /\ pc[t] \in Sending
          /\ UNCHANGED <<registry, AllSockets, LastUserID, NetworkSessionMutex>>
          /\ \A v \in Threads : v # t => session'[v] = session[v]
      BY <1>19 DEF SendMsg, registry, TypeOK
    <2>2. CASE t = Acceptor
      <3>1. pc[t] = "Send"
        BY <2>1, <2>2 DEF TypeOK, Sending, AcceptorPCs
      <3>2. Go(Acceptor, "CreateThread") /\ "CreateThread" \in AcceptorPCs
        BY <1>19, <2>2, <3>1 DEF SendMsg, Return, AcceptorPCs
      <3>3. ThreadsStarted' /\ SocketsOwned'
        BY <2>1, <2>2, <3>1, <3>2, AcceptorGoes DEF ThreadsStarted, SocketsOwned, Welcoming
      <3>4. SessionsRead'
        BY <2>1, <2>2, <3>2, AcceptorGoes DEF SessionsRead
      <3>5. QED
        BY <2>1, <3>3, <3>4, RegistryFrame
    <2>3. CASE t \in Users
      <3>1. PICK next \in {"Controller", "GroupBroadcast", "Broadcast"} : Go(t, next)
        BY <1>19, <2>3 DEF SendMsg, Return
      <3>2. next \in RecvPCs \ {"NotStarted", "Finished"}
        BY DEF RecvPCs
      <3>3. ThreadsStarted' /\ SocketsOwned'
        BY <2>1, <2>3, <3>1, <3>2, UserFrame DEF Sending
      <3>4. SessionsRead'
        BY <2>1, <2>3, <3>1, <3>2, UserGoes DEF SessionsRead
      <3>5. QED
        BY <2>1, <3>3, <3>4, RegistryFrame
    <2>4. QED
      BY <2>2, <2>3
  <1>20. ASSUME NEW u \in Users, NEW how \in Lost \cup {"remnant"}, Lose(u, how) PROVE RegistryInv'
    <2>1. ThreadsStarted' /\ SocketsOwned' /\ SessionsRead'
      BY <1>20 DEF Lose, registry, ThreadsStarted, SocketsOwned, Welcoming, SessionsRead
    <2>2. QED
      BY <1>20, <2>1, RegistryFrame DEF Lose
  <1>21. CASE UNCHANGED vars
    <2>1. ThreadsStarted' /\ SocketsOwned' /\ SessionsRead'
      BY <1>21 DEF vars, ThreadsStarted, SocketsOwned, Welcoming, SessionsRead
    <2>2. QED
      BY <1>21, <2>1, RegistryFrame DEF vars, registry
  <1>23. ASSUME NEW u \in Users, PopWrapper(u) PROVE RegistryInv'
    <2>1. /\ Go(u, "Controller") /\ "Controller" \in RecvPCs
          /\ pc[u] = "PopWrapper" /\ UNCHANGED <<registry, AllSockets, LastUserID>>
      BY <1>23 DEF PopWrapper, RecvPCs, registry
    <2>2. ThreadsStarted' /\ SocketsOwned'
      BY <2>1, UserFrame
    <2>3. SessionsRead'
      BY <1>23, <2>1, UserGoes DEF PopWrapper, SessionsRead
    <2>4. QED
      BY <2>1, <2>2, <2>3, RegistryFrame
  <1>22. QED
    BY <1>1, <1>2, <1>3, <1>4, <1>5, <1>6, <1>7, <1>8, <1>9, <1>10, <1>11, <1>12, <1>13, <1>14, <1>15, <1>16, <1>17, <1>18, <1>19, <1>20, <1>21, <1>23 DEF Next, AcceptProc, RecvProc

-----------------------------------------------------------------------------

\* The registry invariant holds in every state of the server.
THEOREM RegistrySafe == Spec => []RegistryInv
  <1>1. QED
    BY InitRegistryInv, NextRegistryInv, PTL DEF Spec

\* Every variable keeps its type, whatever the number of connections.
THEOREM TypeCorrect == Spec => []TypeOK
  <1>1. RegistryInv => TypeOK
    BY DEF RegistryInv
  <1>2. QED
    BY <1>1, RegistrySafe, PTL

\* No group ever holds a pointer to a session that CloseSocket destroyed
\* (BlockSocketWrapper.cpp:87-113, 182-216).
THEOREM NoDanglingSession == Spec => []GroupsHoldRegistered
  <1>1. RegistryInv => GroupsHoldRegistered
    BY DEF RegistryInv
  <1>2. QED
    BY <1>1, RegistrySafe, PTL

\* The two maps of the wrapper always agree, so no subscript of CloseSocket or
\* ExitGroup inserts a null pointer.
THEOREM MapsAgree == Spec => []RegistryOwnsSockets
  <1>1. RegistryInv => RegistryOwnsSockets
    BY DEF RegistryInv
  <1>2. QED
    BY <1>1, RegistrySafe, PTL

\* The session of its own user, which a thread looked up under the mutex, is
\* alive when it is used after the release, and so is each session Broadcast
\* sends to; a private message to another user is not among these uses.
THEOREM OwnSessionIsLive == Spec => []UsesLiveSession
  <1>1. RegistryInv => UsesLiveSession
    <2> SUFFICES ASSUME RegistryInv, NEW t \in Threads,
                        UsesOwnSession(t) \/ pc[t] = "BroadcastSend"
                 PROVE  session[t] \in Live
      BY DEF UsesLiveSession
    <2> USE Ids DEF RegistryInv, UsesOwnSession, Receiving
    <2>1. CASE t = Acceptor
      <3>1. pc[t] = "Send" /\ LastUserID \in Users
        BY <2>1 DEF TypeOK, AcceptorPCs
      <3>2. QED
        BY <2>1, <3>1 DEF SessionsRead, Live
    <2>2. CASE t \in Users
      <3>1. session[t] = t \/ session[t] \in AllSockets
        BY <2>2 DEF SessionsRead
      <3>2. t \in AllSockets
        BY <2>2 DEF SocketsOwned
      <3>3. QED
        BY <3>1, <3>2 DEF Live
    <2>3. QED
      BY <2>1, <2>2
  <1>2. QED
    BY <1>1, RegistrySafe, PTL

\* Group membership changes only by a step of the member's own thread, under
\* the mutex.
THEOREM MembershipIsOwned == Spec => OwnThreadChangesMembership
  <1> DEFINE Owned == \A g \in Groups, u \in Users :
                (u \in GroupNetworkSessions[g]) # (u \in GroupNetworkSessions'[g])
                   => NetworkSessionMutex = u
  <1>1. RegistryInv /\ [Next]_vars => [Owned]_vars
    <2> SUFFICES ASSUME RegistryInv, Next, NEW g \in Groups, NEW v \in Users,
                        (v \in GroupNetworkSessions[g]) # (v \in GroupNetworkSessions'[g])
                 PROVE  NetworkSessionMutex = v
      OBVIOUS
    <2> USE Ids DEF RegistryInv
    <2>1. GroupNetworkSessions' # GroupNetworkSessions
      OBVIOUS
    <2>2. PICK u \in Users : CloseSocket(u) \/ EntryGroup(u) \/ ExitGroupErase(u)
      BY <2>1 DEF Next, AcceptProc, RecvProc, registry, AcceptSocket, Register,
         CreateThread, Accepted, RecvMessageHeader, RecvMessage, RecvLookup, Peek, Recv,
         CallWrapper, NextPacket, ExitGroup, Broadcast, GroupBroadcast, Acquire,
         PopWrapper, PrivateMessage, SendMsg, Lose
    <2>3. NetworkSessionMutex = u /\ pc[u] \notin {"NotStarted", "Finished"}
      BY <2>2 DEF CloseSocket, EntryGroup, ExitGroupErase, Holds
    <2>4. AllNetworkSessions[u] = u /\ PointerAt(u) = u
      BY <2>3 DEF SocketsOwned, RegistryOwnsSockets, PointerAt
    <2>5. v = u
      BY <2>2, <2>4 DEF CloseSocket, EntryGroup, ExitGroupErase, TypeOK
    <2>6. QED
      BY <2>3, <2>5
  <1>2. QED
    BY <1>1, RegistrySafe, PTL DEF Spec, OwnThreadChangesMembership

=============================================================================
