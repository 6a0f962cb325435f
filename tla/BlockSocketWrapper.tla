------------------------- MODULE BlockSocketWrapper -------------------------
(***************************************************************************)
(* The TCP half of BlockSocketWrapper: the registry of sessions, the       *)
(* groups (rooms) of session pointers, the mutex over both, the AcceptProc *)
(* thread that registers connections, and one RecvProc thread per user,    *)
(* which reads packets, runs controllers that call the wrapper, and closes *)
(* the session when its peer is gone.                                      *)
(*                                                                         *)
(* A session pointer is the id of its user: ids are never reused, and      *)
(* GroupsHoldRegistered shows no dangling pointer stays behind that a new  *)
(* session's address could meet.  A body that runs under the mutex is one  *)
(* step between Acquire and the release, except Broadcast, which sends     *)
(* while it holds it.  What a controller calls, and in which order, is     *)
(* left open here: any call, any group, and a private message to any id,   *)
(* since SendResult takes the id from the packet; it may also wait for a   *)
(* database connection.  Its own user is the one it enters and takes out   *)
(* of groups.                                                              *)
(***************************************************************************)
EXTENDS Integers

CONSTANTS
    MaxUser,    \* bound: connections accepted in one run of the server
    Groups      \* room ids

ASSUME MaxUserAssumption == MaxUser \in Nat \ {0}

Users    == 1..MaxUser
Acceptor == 0                       \* the AcceptProc thread; RecvProc of u is u
Threads  == 0..MaxUser
Free     == -1                      \* nobody owns the mutex
Absent   == -1                      \* no entry under that key
Null     == 0                       \* the pointer operator[] inserts
Pointers == Users \cup {Null}

VARIABLES
    NetworkSessionMutex,    \* its owner
    AllNetworkSessions,     \* user -> session pointer
    AllSockets,             \* users whose socket the wrapper owns
    GroupNetworkSessions,   \* group -> session pointers
    LastUserID,             \* the id the next connection gets
    pc,                     \* where each thread is
    group,                  \* the group argument of each controller's call
    session,                \* the session pointer each thread works on
    visited,                \* sessions a thread's broadcast loop has sent to
    peer                    \* what recv finds of each connection

vars == <<NetworkSessionMutex, AllNetworkSessions, AllSockets,
          GroupNetworkSessions, LastUserID, pc, group, session, visited, peer>>

registry == <<AllNetworkSessions, AllSockets, GroupNetworkSessions>>

\* Calls that start by waiting for NetworkSessionMutex.
Locking == {"Register", "PrivateMessage", "RecvMessageHeader", "RecvMessage",
            "EntryGroup", "ExitGroup", "ExitGroupErase", "Broadcast",
            "CloseSocket"}

\* Calls on a session: PrivateMessage's, GroupBroadcast's, Broadcast's, which
\* alone is made under the mutex, and those of the receives.
Sending   == {"Send", "GroupSend", "BroadcastSend"}
Receiving == {"Peek", "Recv"}

\* A lost connection: its end is reached (closed) or it is broken (reset).  With
\* "remnant" the peer has left too, but behind bytes at the front of the stream
\* that read as a header of length 0: one to three zero bytes, or a whole
\* header with that length.
Lost      == {"closed", "reset"}
PeerState == {"none", "open", "remnant"} \cup Lost

AcceptorPCs == {"Accept", "Register", "PrivateMessage", "Send",
                "CreateThread", "Accepted"}

RecvPCs == {"NotStarted", "RecvMessageHeader", "Peek", "RecvMessage", "Recv",
            "Controller", "PopWrapper", "PrivateMessage", "Send", "EntryGroup",
            "ExitGroup", "ExitGroupErase", "Broadcast", "BroadcastSend",
            "GroupBroadcast", "GroupSend", "CloseSocket", "Finished"}

TypeOK ==
    /\ NetworkSessionMutex \in Threads \cup {Free}
    /\ AllNetworkSessions \in [Users -> Pointers \cup {Absent}]
    /\ AllSockets \in SUBSET Users
    /\ GroupNetworkSessions \in [Groups -> SUBSET Pointers]
    /\ LastUserID \in 1..(MaxUser + 1)
    /\ pc[Acceptor] # "Accept" => LastUserID \in Users
    /\ pc \in [Threads -> AcceptorPCs \cup RecvPCs]
    /\ pc[Acceptor] \in AcceptorPCs
    /\ \A u \in Users : pc[u] \in RecvPCs
    /\ group \in [Users -> Groups]
    /\ session \in [Threads -> Pointers]
    /\ visited \in [Threads -> SUBSET Pointers]
    /\ peer \in [Users -> PeerState]

Init ==
    /\ NetworkSessionMutex = Free
    /\ AllNetworkSessions = [u \in Users |-> Absent]
    /\ AllSockets = {}
    /\ GroupNetworkSessions = [g \in Groups |-> {}]
    /\ LastUserID = 1
    /\ pc = [t \in Threads |-> IF t = Acceptor THEN "Accept" ELSE "NotStarted"]
    /\ group \in [Users -> Groups]     \* set before each use
    /\ session = [t \in Threads |-> Null]
    /\ visited = [t \in Threads |-> {}]
    /\ peer = [u \in Users |-> "none"]

-----------------------------------------------------------------------------
(* Helpers.                                                                *)

Registered == {u \in Users : AllNetworkSessions[u] # Absent}

\* Sockets that are not destroyed: the wrapper's, and the one AcceptClient
\* still holds in its local blockingSock.
Live == AllSockets \cup
        {u \in Users : u = LastUserID /\ pc[Acceptor] # "Accept"}

\* unordered_map::operator[]: a missing key is inserted with a null pointer.
PointerAt(u) == IF AllNetworkSessions[u] = Absent THEN Null
                ELSE AllNetworkSessions[u]
Subscripted(u) == [AllNetworkSessions EXCEPT ![u] = PointerAt(u)]

Go(t, next)     == pc' = [pc EXCEPT ![t] = next]
Holds(t, call)  == pc[t] = call /\ NetworkSessionMutex = t
Release(t, next) == NetworkSessionMutex' = Free /\ Go(t, next)

\* The thread that returns from a wrapper call.
Return(t) == IF t = Acceptor THEN "CreateThread" ELSE "Controller"

\* WaitForSingleObject(NetworkSessionMutex, INFINITE)
Acquire(t) ==
    /\ pc[t] \in Locking
    /\ NetworkSessionMutex = Free
    /\ NetworkSessionMutex' = t
    /\ UNCHANGED <<registry, LastUserID, pc, group, session, visited, peer>>

-----------------------------------------------------------------------------
(* AcceptProc                                                              *)

\* accept() returns a connection, held in blockingSock.
AcceptSocket ==
    /\ pc[Acceptor] = "Accept"
    /\ LastUserID <= MaxUser
    /\ peer' = [peer EXCEPT ![LastUserID] = "open"]
    /\ Go(Acceptor, "Register")
    /\ UNCHANGED <<NetworkSessionMutex, registry, LastUserID, group, session, visited>>

\* AcceptClient's critical section.  The callback then sends ENTRY_SERVER.
Register ==
    /\ Holds(Acceptor, "Register")
    /\ AllNetworkSessions' = [AllNetworkSessions EXCEPT ![LastUserID] = LastUserID]
    /\ AllSockets' = AllSockets \cup {LastUserID}
    /\ Release(Acceptor, "PrivateMessage")
    /\ UNCHANGED <<GroupNetworkSessions, LastUserID, group, session, visited, peer>>

\* A mutant: the callback calls RecvProc and never returns to AcceptProc.
RecvProcInline ==
    /\ pc[Acceptor] = "CreateThread"
    /\ Go(Acceptor, "RecvMessageHeader")
    /\ UNCHANGED <<NetworkSessionMutex, registry, LastUserID, group, session, visited, peer>>

\* The end of the callback: the user's RecvProc thread starts.
CreateThread ==
    /\ pc[Acceptor] = "CreateThread"
    /\ pc' = [pc EXCEPT ![Acceptor] = "Accepted", ![LastUserID] = "RecvMessageHeader"]
    /\ UNCHANGED <<NetworkSessionMutex, registry, LastUserID, group, session, visited, peer>>

\* LastUserID++ and the return that drops blockingSock.
Accepted ==
    /\ pc[Acceptor] = "Accepted"
    /\ LastUserID' = LastUserID + 1
    /\ Go(Acceptor, "Accept")
    /\ UNCHANGED <<NetworkSessionMutex, registry, group, session, visited, peer>>

-----------------------------------------------------------------------------
(* RecvProc                                                                *)

\* The lookup of RecvMessageHeader and RecvMessage; the session is used after
\* the mutex is released.  An unknown user reads as a failed receive.
RecvLookup(u, call, next, failed) ==
    /\ Holds(u, call)
    /\ \/ /\ AllNetworkSessions[u] # Absent
          /\ session' = [session EXCEPT ![u] = AllNetworkSessions[u]]
          /\ Release(u, next)
       \/ /\ AllNetworkSessions[u] = Absent
          /\ Release(u, failed)
          /\ UNCHANGED session
    /\ UNCHANGED <<registry, LastUserID, group, visited, peer>>

RecvMessageHeader(u) == RecvLookup(u, "RecvMessageHeader", "Peek", "CloseSocket")
RecvMessage(u)       == RecvLookup(u, "RecvMessage", "Recv", "Controller")

\* A mutant: the failed peek does not end the loop.
PeekIgnoresLoss(u) ==
    /\ pc[u] = "Peek"
    /\ session' = [session EXCEPT ![u] = Null]
    /\ Go(u, "RecvMessage")
    /\ UNCHANGED <<NetworkSessionMutex, registry, LastUserID, group, visited, peer>>

\* What recv(MSG_PEEK) makes RecvProc do: a body to read, a length of 0, which
\* goes straight to the dispatch and consumes nothing, or the end of the loop, on
\* a negative length or a lost connection.
AfterPeek(u) ==
    CASE peer[u] = "remnant" -> {"Controller"}
      [] peer[u] \in Lost    -> {"CloseSocket"}
      [] OTHER               -> {"RecvMessage", "Controller", "CloseSocket"}

Peek(u) ==
    /\ pc[u] = "Peek"
    /\ session' = [session EXCEPT ![u] = Null]
    /\ \E next \in AfterPeek(u) : Go(u, next)
    /\ UNCHANGED <<NetworkSessionMutex, registry, LastUserID, group, visited, peer>>

\* A chunk of the body: another one is missing, or it was the last or the
\* connection was lost in it; the controller runs in both of these cases.
Recv(u) ==
    /\ pc[u] = "Recv"
    /\ session' = [session EXCEPT ![u] = Null]
    /\ \/ Go(u, "Controller")
       \/ peer[u] = "open" /\ Go(u, "RecvMessage")
    /\ UNCHANGED <<NetworkSessionMutex, registry, LastUserID, group, visited, peer>>

\* A controller makes its next call: on the wrapper, or of a service, which
\* starts by waiting for a connection...
CallWrapper(u) ==
    /\ pc[u] = "Controller"
    /\ \/ \E call \in {"EntryGroup", "ExitGroup", "GroupBroadcast"}, g \in Groups :
            /\ group' = [group EXCEPT ![u] = g]
            /\ Go(u, call)
       \/ \E call \in {"PrivateMessage", "Broadcast", "PopWrapper"} :
            /\ Go(u, call)
            /\ UNCHANGED group
    /\ UNCHANGED <<NetworkSessionMutex, registry, LastUserID, session, visited, peer>>

\* ... which DatabasePool may or may not have for it...
PopWrapper(u) ==
    /\ pc[u] = "PopWrapper"
    /\ Go(u, "Controller")
    /\ UNCHANGED <<NetworkSessionMutex, registry, LastUserID, group, session, visited, peer>>

\* ... or returns, and the loop of RecvProc goes on to the next packet.
NextPacket(u) ==
    /\ pc[u] = "Controller"
    /\ Go(u, "RecvMessageHeader")
    /\ UNCHANGED <<NetworkSessionMutex, registry, LastUserID, group, session, visited, peer>>

\* A mutant: the groups keep the pointer of the closed session.
CloseSocketKeepsGroups(u) ==
    /\ Holds(u, "CloseSocket")
    /\ AllNetworkSessions' = [AllNetworkSessions EXCEPT ![u] = Absent]
    /\ AllSockets' = AllSockets \ {u}
    /\ Release(u, "Finished")
    /\ UNCHANGED <<GroupNetworkSessions, LastUserID, group, session, visited, peer>>

\* A mutant: the entry is erased before the group loop subscripts it again.
CloseSocketErasesFirst(u) ==
    /\ Holds(u, "CloseSocket")
    /\ AllNetworkSessions' = [AllNetworkSessions EXCEPT ![u] = Null]
    /\ GroupNetworkSessions' = [g \in Groups |-> GroupNetworkSessions[g] \ {Null}]
    /\ AllSockets' = AllSockets \ {u}
    /\ Release(u, "Finished")
    /\ UNCHANGED <<LastUserID, group, session, visited, peer>>

\* A mutant: the groups of the closed session are cleared, not searched.
CloseSocketClearsGroups(u) ==
    /\ Holds(u, "CloseSocket")
    /\ GroupNetworkSessions' =
         [g \in Groups |-> IF u \in GroupNetworkSessions[g] THEN {}
                           ELSE GroupNetworkSessions[g]]
    /\ AllNetworkSessions' = [AllNetworkSessions EXCEPT ![u] = Absent]
    /\ AllSockets' = AllSockets \ {u}
    /\ Release(u, "Finished")
    /\ UNCHANGED <<LastUserID, group, session, visited, peer>>

\* The end of RecvProc: the pointer leaves every group, then both maps.
CloseSocket(u) ==
    /\ Holds(u, "CloseSocket")
    /\ GroupNetworkSessions' =
         [g \in Groups |-> GroupNetworkSessions[g] \ {PointerAt(u)}]
    /\ AllNetworkSessions' = [AllNetworkSessions EXCEPT ![u] = Absent]
    /\ AllSockets' = AllSockets \ {u}
    /\ Release(u, "Finished")
    /\ UNCHANGED <<LastUserID, group, session, visited, peer>>

-----------------------------------------------------------------------------
(* The calls of the controllers.                                           *)

IsGroupMember(u, g) ==
    /\ AllNetworkSessions[u] # Absent
    /\ AllNetworkSessions[u] \in GroupNetworkSessions[g]

EntryGroup(u) ==
    /\ Holds(u, "EntryGroup")
    /\ \/ /\ AllNetworkSessions[u] # Absent
          /\ GroupNetworkSessions' =
               [GroupNetworkSessions EXCEPT ![group[u]] = @ \cup {AllNetworkSessions[u]}]
       \/ /\ AllNetworkSessions[u] = Absent
          /\ UNCHANGED GroupNetworkSessions
    /\ Release(u, "Controller")
    /\ UNCHANGED <<AllNetworkSessions, AllSockets, LastUserID, group, session, visited, peer>>

\* IsGroupMember takes and drops the mutex; the erase takes it again.
ExitGroup(u) ==
    /\ Holds(u, "ExitGroup")
    /\ Release(u, IF IsGroupMember(u, group[u]) THEN "ExitGroupErase" ELSE "Controller")
    /\ UNCHANGED <<registry, LastUserID, group, session, visited, peer>>

ExitGroupErase(u) ==
    /\ Holds(u, "ExitGroupErase")
    /\ GroupNetworkSessions' =
         [GroupNetworkSessions EXCEPT ![group[u]] = @ \ {PointerAt(u)}]
    /\ AllNetworkSessions' = Subscripted(u)
    /\ Release(u, "Controller")
    /\ UNCHANGED <<AllSockets, LastUserID, group, session, visited, peer>>

\* Who a private message is for.  AcceptProc welcomes the user it registered; a
\* controller answers its own user or, in SendResult, the number the packet
\* names as its sender, which nothing compares with the connection's.
Addressees(t) == IF t = Acceptor THEN {LastUserID} ELSE Users

\* The lookup is locked, the send that follows is not.  A number that is no
\* session's, which a packet may always name, ends it.
PrivateMessage(t) ==
    /\ Holds(t, "PrivateMessage")
    /\ \/ \E v \in Addressees(t) \cap Registered :
            /\ session' = [session EXCEPT ![t] = AllNetworkSessions[v]]
            /\ Release(t, "Send")
       \/ /\ t \in Users \/ LastUserID \notin Registered
          /\ Release(t, Return(t))
          /\ UNCHANGED session
    /\ UNCHANGED <<registry, LastUserID, group, visited, peer>>

\* A mutant: the loop over the sessions without the mutex.
BroadcastUnlocked(u) ==
    /\ pc[u] = "Broadcast"
    /\ \/ \E v \in Registered :
            /\ AllNetworkSessions[v] \notin visited[u]
            /\ session' = [session EXCEPT ![u] = AllNetworkSessions[v]]
            /\ Go(u, "BroadcastSend")
            /\ UNCHANGED visited
       \/ /\ \A v \in Registered : AllNetworkSessions[v] \in visited[u]
          /\ Go(u, "Controller")
          /\ visited' = [visited EXCEPT ![u] = {}]
          /\ UNCHANGED session
    /\ UNCHANGED <<NetworkSessionMutex, registry, LastUserID, group, peer>>

\* One turn of the loop over AllNetworkSessions, all of it under the mutex.
Broadcast(u) ==
    /\ Holds(u, "Broadcast")
    /\ \/ \E v \in Registered :
            /\ AllNetworkSessions[v] \notin visited[u]
            /\ session' = [session EXCEPT ![u] = AllNetworkSessions[v]]
            /\ Go(u, "BroadcastSend")
            /\ UNCHANGED <<NetworkSessionMutex, visited>>
       \/ /\ \A v \in Registered : AllNetworkSessions[v] \in visited[u]
          /\ Release(u, "Controller")
          /\ visited' = [visited EXCEPT ![u] = {}]
          /\ UNCHANGED session
    /\ UNCHANGED <<registry, LastUserID, group, peer>>

\* One turn of the loop over a group, which takes no mutex.
GroupBroadcast(u) ==
    /\ pc[u] = "GroupBroadcast"
    /\ \/ \E s \in GroupNetworkSessions[group[u]] \ visited[u] :
            /\ session' = [session EXCEPT ![u] = s]
            /\ Go(u, "GroupSend")
            /\ UNCHANGED visited
       \/ /\ GroupNetworkSessions[group[u]] \subseteq visited[u]
          /\ Go(u, "Controller")
          /\ visited' = [visited EXCEPT ![u] = {}]
          /\ UNCHANGED session
    /\ UNCHANGED <<NetworkSessionMutex, registry, LastUserID, group, peer>>

\* SendMsg returns when send() has taken the whole message.  Nothing says it
\* will: a peer that does not read blocks it, on a lost connection send() is -1
\* and the loop goes on, and what a destroyed session does is undefined.
SendMsg(t) ==
    /\ pc[t] \in Sending
    /\ session' = [session EXCEPT ![t] = Null]
    /\ \/ /\ pc[t] = "Send"
          /\ Go(t, Return(t))
          /\ UNCHANGED visited
       \/ /\ pc[t] \in {"GroupSend", "BroadcastSend"}
          /\ Go(t, IF pc[t] = "GroupSend" THEN "GroupBroadcast" ELSE "Broadcast")
          /\ visited' = [visited EXCEPT ![t] = @ \cup {session[t]}]
    /\ UNCHANGED <<NetworkSessionMutex, registry, LastUserID, group, peer>>

\* The network: a peer closes its connection or vanishes.
Lose(u, how) ==
    /\ peer[u] = "open" \/ (peer[u] \in {"closed", "remnant"} /\ how = "reset")
    /\ peer' = [peer EXCEPT ![u] = how]
    /\ UNCHANGED <<NetworkSessionMutex, registry, LastUserID, pc, group, session, visited>>

-----------------------------------------------------------------------------

AcceptProc == AcceptSocket \/ Register \/ CreateThread \/ Accepted

RecvProc(u) ==
    \/ RecvMessageHeader(u) \/ Peek(u) \/ RecvMessage(u) \/ Recv(u)
    \/ CallWrapper(u) \/ PopWrapper(u) \/ NextPacket(u) \/ CloseSocket(u)
    \/ EntryGroup(u) \/ ExitGroup(u) \/ ExitGroupErase(u)
    \/ Broadcast(u) \/ GroupBroadcast(u)

Next ==
    \/ AcceptProc
    \/ \E u \in Users : RecvProc(u)
    \/ \E t \in Threads : Acquire(t) \/ PrivateMessage(t) \/ SendMsg(t)
    \/ \E u \in Users, how \in Lost \cup {"remnant"} : Lose(u, how)

Spec == Init /\ [][Next]_vars

\* Threads run; a Windows mutex serves its waiters; a controller is a finite
\* list of calls.  No client has to connect, stay, read, or send a packet: while
\* its peer is open, a receive may wait for ever.  No send has to return and no
\* service has to be given a connection.
Fairness ==
    /\ WF_vars(Register \/ CreateThread \/ Accepted)
    /\ \A t \in Threads : SF_vars(Acquire(t)) /\ WF_vars(PrivateMessage(t))
    /\ \A u \in Users :
         /\ WF_vars(RecvMessageHeader(u) \/ RecvMessage(u))
         /\ WF_vars(peer[u] # "open" /\ (Peek(u) \/ Recv(u)))
         /\ SF_vars(NextPacket(u))
         /\ WF_vars(EntryGroup(u) \/ ExitGroup(u) \/ ExitGroupErase(u))
         /\ WF_vars(Broadcast(u) \/ GroupBroadcast(u) \/ CloseSocket(u))

FairSpec == Spec /\ Fairness

-----------------------------------------------------------------------------
(* Properties.                                                             *)

\* No dangling pointer: a session in a group is registered under its own id
\* and its socket is alive, so CloseSocket leaves none behind and EntryGroup
\* adds none (BlockSocketWrapper.cpp:87-113, 182-216).
GroupsHoldRegistered ==
    \A g \in Groups : \A s \in GroupNetworkSessions[g] :
        s \in AllSockets /\ AllNetworkSessions[s] = s

\* The two maps agree: a user is registered exactly while the wrapper owns the
\* socket the entry points to.  The subscripts of CloseSocket and ExitGroup,
\* which insert a null pointer for an unknown user, never meet one.
RegistryOwnsSockets ==
    \A u \in Users :
        AllNetworkSessions[u] = (IF u \in AllSockets THEN u ELSE Absent)

\* A thread at work on the session of the user it serves.
UsesOwnSession(t) ==
    \/ pc[t] \in Receiving
    \/ pc[t] = "Send" /\ (t = Acceptor \/ session[t] = t)

\* A session that its own user's thread, or AcceptProc for it, looked up under
\* the mutex and uses after its release is not destroyed before that use, and
\* neither is one that Broadcast sends to, whoever's it is: only that thread
\* destroys it, and Broadcast keeps the mutex.  It says nothing of a private
\* message to another user, whose thread may close the session in between.
UsesLiveSession ==
    \A t \in Threads :
        UsesOwnSession(t) \/ pc[t] = "BroadcastSend" => session[t] \in Live

\* GroupBroadcast reads GroupNetworkSessions with no mutex, where README.md:286
\* says mutexes keep member variables free of races: the session it took from
\* the group is not destroyed before it sends.
GroupSendUsesLiveSession ==
    \A t \in Threads : pc[t] = "GroupSend" => session[t] \in Live

\* A user enters and leaves a group only by a step of its own RecvProc thread
\* that owns the mutex: what makes ExitGroup's check, made under an earlier
\* lock, still true when it erases.
OwnThreadChangesMembership ==
    [][\A g \in Groups, u \in Users :
         (u \in GroupNetworkSessions[g]) # (u \in GroupNetworkSessions'[g])
            => NetworkSessionMutex = u]_vars

\* A user whose peer is gone is unregistered and its thread ends, whatever the
\* other threads do with the mutex and however often a remnant makes one of them
\* turn its loop.  Two things can keep the thread for ever, and are premises: a
\* SendMsg that never returns, in any thread, as it may own the mutex
\* (Broadcast), and its own wait for a connection.  A user whose peer left a
\* remnant is never unregistered, unless the connection breaks.
SendsReturn == \A t \in Threads : []<>(pc[t] \notin Sending)

LostPeersAreClosed ==
    SendsReturn => \A u \in Users :
        []<>(pc[u] # "PopWrapper") =>
            (peer[u] \in Lost ~> (u \notin Registered /\ pc[u] = "Finished"))

=============================================================================
