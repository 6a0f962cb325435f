---------------------------- MODULE ChattingRoom ----------------------------
(***************************************************************************)
(* Chat rooms and their messages: what the controllers of a user's         *)
(* RecvProc thread do, step by step, to the database (chattingroom,        *)
(* RoomMember, ChatMessage), to the groups of sessions, and to what each   *)
(* client has been told.                                                   *)
(*                                                                         *)
(* A user is an account with at most one session at a time.  No controller *)
(* asks whether a session is logged in; of one that is not, or no longer,  *)
(* the account id is that of no account: its INSERTs store nothing, its    *)
(* SELECT of its row finds none and its DELETE deletes none.  Each of      *)
(* those actions allows it, of every session.  A client knows what was     *)
(* sent to it, in the order the sends were made: the sends themselves, the *)
(* sessions and the mutex are BlockSocketWrapper's, the connections        *)
(* DatabasePool's.  MySQL is external: InnoDB at REPEATABLE READ, so a     *)
(* SELECT reads what is committed when it runs, an INSERT into RoomMember  *)
(* or ChatMessage share-locks its room and a DELETE of a room locks it and *)
(* takes its members and messages along.  A commit may fail, and so may    *)
(* the statements of Failing whose failure the code passes over or acts on.*)
(***************************************************************************)
EXTENDS Integers, FiniteSets

CONSTANTS
    Users,      \* accounts
    MaxRoom,    \* bound: rooms created, ids 1..MaxRoom by AUTO_INCREMENT
    MaxRows,    \* bound: rows one user may have for one room
    MaxMessage, \* bound: messages written
    Failing,    \* bound: statements that fail, or find no account, in this instance
    Residue,    \* what a function that ends without a return may seem to return
    Nobody      \* no user

ASSUME RoomAssumption ==
    /\ IsFiniteSet(Users)
    /\ Nobody \notin Users
    /\ MaxRoom \in Nat
    /\ MaxRows \in Nat
    /\ MaxMessage \in Nat
    /\ Failing \subseteq {"SELECT", "INSERT", "DELETE"}
    /\ Residue \subseteq BOOLEAN

Rooms    == 1..MaxRoom
Messages == 1..MaxMessage

VARIABLES
    chattingroom,           \* ids of the rows of that table, committed
    RoomMember,             \* how many rows each room and user have, committed
    lastRoom,               \* the id the last INSERT got
    inserted,               \* users with a RoomMember row not yet committed
    destroyer,              \* room -> the user whose DELETE locks its row
    undone,                 \* rooms whose DELETE was rolled back under an exit
    unstored,               \* room -> users whose INSERT for it stored no row
    GroupNetworkSessions,   \* room -> users whose session is in the group
    pc,                     \* where each user's RecvProc thread is
    room,                   \* the room its controller works on
    found,                  \* what its last SELECT returned
    toReach,                \* sessions its broadcast loop has still to send to
    result,                 \* users whose ExitRoom has deleted the room
    roomList,               \* the rooms each client knows of
    listed,                 \* clients that got the list sent after a login
    members,                \* the members each client knows of, per room
    informed,               \* rooms whose RequireRoomInfo each client has got
    ChatMessage,            \* room -> the messages of its rows, committed
    lastMessage,            \* messages written by clients so far
    packet,                 \* the messages of the packet a thread serves
    rest,                   \* those of them it has not inserted
    history,                \* the messages each client knows, per room
    caughtUp,               \* rooms whose history each client has got
    dropped                 \* the messages whose INSERT stored no row

vars == <<chattingroom, RoomMember, lastRoom, inserted, destroyer, undone,
          unstored, GroupNetworkSessions, pc, room, found, toReach, result,
          roomList, listed, members, informed,
          ChatMessage, lastMessage, packet, rest, history, caughtUp, dropped>>

database == <<chattingroom, RoomMember, lastRoom, inserted, destroyer, undone,
              unstored>>
clients  == <<roomList, listed, members, informed>>
chat     == <<ChatMessage, lastMessage, packet, rest, history, caughtUp, dropped>>
locals   == <<room, found, toReach, result>>

EntryPCs == {"FindPassword", "InsertRoomMember", "CommitEntry", "FindEntry",
             "SendEntry", "EntryGroup"}
InfoPCs  == {"FindAllMembers", "SendInfo", "FindAllMessages", "SendMessages"}
ExitPCs  == {"FindExit", "SendExit", "ExitGroup", "CountByRoomMember",
             "DestroyChatting", "DeleteRoomMember", "CommitExit",
             "CommitUndeleted", "BroadcastRemoved"}
SendPCs  == {"InsertMessage", "GroupBroadcast"}
LoopPCs  == {"SendEntry", "SendExit", "GroupBroadcast"}

TypeOK ==
    /\ chattingroom \subseteq 1..lastRoom
    /\ RoomMember \in [Rooms -> [Users -> 0..MaxRows]]
    /\ lastRoom \in 0..MaxRoom
    /\ inserted \subseteq Users
    /\ destroyer \in [Rooms -> Users \cup {Nobody}]
    /\ GroupNetworkSessions \in [Rooms -> SUBSET Users]
    /\ undone \subseteq Rooms
    /\ unstored \in [Rooms -> SUBSET Users]
    /\ pc \in [Users -> {"Offline", "Login", "SendRooms", "Idle", "Create",
                         "BroadcastRoom"}
                        \cup EntryPCs \cup InfoPCs \cup ExitPCs \cup SendPCs]
    /\ room \in [Users -> 0..MaxRoom]
    /\ found \in [Users -> SUBSET (Users \cup Rooms)]
    /\ toReach \in [Users -> SUBSET Users]
    /\ result \subseteq Users
    /\ roomList \in [Users -> SUBSET Rooms]
    /\ listed \subseteq Users
    /\ members \in [Users -> [Rooms -> SUBSET Users]]
    /\ informed \in [Users -> SUBSET Rooms]
    /\ ChatMessage \in [Rooms -> SUBSET (1..lastMessage)]
    /\ lastMessage \in 0..MaxMessage
    /\ packet \in [Users -> SUBSET Messages]
    /\ \A u \in Users : rest[u] \subseteq packet[u]
    /\ history \in [Users -> [Rooms -> SUBSET Messages]]
    /\ caughtUp \in [Users -> SUBSET Rooms]
    /\ dropped \subseteq Messages

Init ==
    /\ chattingroom = {}
    /\ RoomMember = [r \in Rooms |-> [u \in Users |-> 0]]
    /\ lastRoom = 0
    /\ inserted = {}
    /\ destroyer = [r \in Rooms |-> Nobody]
    /\ undone = {}
    /\ unstored = [r \in Rooms |-> {}]
    /\ GroupNetworkSessions = [r \in Rooms |-> {}]
    /\ pc = [u \in Users |-> "Offline"]
    /\ room = [u \in Users |-> 0]
    /\ found = [u \in Users |-> {}]
    /\ toReach = [u \in Users |-> {}]
    /\ result = {}
    /\ roomList = [u \in Users |-> {}]
    /\ listed = {}
    /\ members = [u \in Users |-> [r \in Rooms |-> {}]]
    /\ informed = [u \in Users |-> {}]
    /\ ChatMessage = [r \in Rooms |-> {}]
    /\ lastMessage = 0
    /\ packet = [u \in Users |-> {}]
    /\ rest = [u \in Users |-> {}]
    /\ history = [u \in Users |-> [r \in Rooms |-> {}]]
    /\ caughtUp = [u \in Users |-> {}]
    /\ dropped = {}

-----------------------------------------------------------------------------
(* Helpers.                                                                *)

Online     == {u \in Users : pc[u] # "Offline"}
Members(r) == {u \in Users : RoomMember[r][u] > 0}
OneRow(r)  == \E u \in Users : /\ RoomMember[r][u] = 1
                               /\ Members(r) = {u}

Go(u, next) == pc' = [pc EXCEPT ![u] = next]

\* The controller returns, and RecvProc waits for the next packet.
Finish(u) ==
    /\ Go(u, "Idle")
    /\ room' = [room EXCEPT ![u] = 0]
    /\ found' = [found EXCEPT ![u] = {}]
    /\ result' = result \ {u}
Return(u) == Finish(u) /\ UNCHANGED toReach

\* The loop of GroupBroadcast over the set of the group's sessions.
Begins(u, next) ==
    /\ Go(u, next)
    /\ toReach' = [toReach EXCEPT ![u] = GroupNetworkSessions[room[u]]]
SendsTo(u, w) ==
    /\ w \in toReach[u]
    /\ toReach' = [toReach EXCEPT ![u] = @ \ {w}]
    /\ UNCHANGED pc
Ends(u, next) ==
    /\ toReach[u] = {}
    /\ Go(u, next)
    /\ UNCHANGED toReach

\* A session that joins a group under a loop is put before or behind its
\* iterator; one that leaves is met no more.
Joins(u, r) ==
    /\ GroupNetworkSessions' = [GroupNetworkSessions EXCEPT ![r] = @ \cup {u}]
    /\ \E before \in SUBSET {v \in Users : room[v] = r /\ pc[v] \in LoopPCs} :
         toReach' = [v \in Users |-> IF v \in before THEN toReach[v] \cup {u}
                                    ELSE toReach[v]]
Leaves(u, R) ==
    /\ GroupNetworkSessions' = [r \in Rooms |-> IF r \in R THEN GroupNetworkSessions[r] \ {u}
                                              ELSE GroupNetworkSessions[r]]
    /\ unstored' = [r \in Rooms |-> IF r \in R THEN unstored[r] \ {u} ELSE unstored[r]]
    /\ toReach' = [v \in Users |-> IF room[v] \in R THEN toReach[v] \ {u} ELSE toReach[v]]

\* The share lock of an INSERT waits for a DELETE of the room; that DELETE waits
\* for the INSERT, and for a DELETE of the rows it cascades to.
ShareLockable(r) == destroyer[r] = Nobody
Lockable(r) ==
    /\ destroyer[r] = Nobody
    /\ \A u \in Users : room[u] = r => u \notin inserted /\ pc[u] # "CommitExit"

\* A packet about room r: the controller's first step.
Receive(u, r, first) ==
    /\ pc[u] = "Idle"
    /\ Go(u, first)
    /\ room' = [room EXCEPT ![u] = r]
    /\ UNCHANGED <<database, GroupNetworkSessions, found, toReach, result, clients>>

-----------------------------------------------------------------------------
(* Sessions.                                                               *)

\* AcceptClient registers the session, and the client logs in, with success or not.
Connect(u) ==
    /\ pc[u] = "Offline"
    /\ Go(u, "Login")
    /\ UNCHANGED <<database, GroupNetworkSessions, locals, clients, chat>>

\* LoginController: FindAllChatRoom after the SUCCESS reply.  It returns nothing
\* at its end: the controller goes on or not by what is in the register.  Without
\* a list the session ends up where a login that is refused leaves it ...
Login(u) ==
    /\ pc[u] = "Login"
    /\ \/ /\ TRUE \in Residue
          /\ found' = [found EXCEPT ![u] = chattingroom]
          /\ Go(u, "SendRooms")
          /\ UNCHANGED <<room, toReach, result>>
       \/ FALSE \in Residue /\ Return(u)
    /\ UNCHANGED <<database, GroupNetworkSessions, clients, chat>>

\* ... and the private message with its rows.
SendRooms(u) ==
    /\ pc[u] = "SendRooms"
    /\ roomList' = [roomList EXCEPT ![u] = @ \cup found[u]]
    /\ listed' = listed \cup {u}
    /\ Return(u)
    /\ UNCHANGED <<database, GroupNetworkSessions, members, informed, chat>>

\* CloseSocket after a lost connection: the rows of RoomMember stay.
CloseSocket(u) ==
    /\ pc[u] = "Idle"
    /\ Go(u, "Offline")
    /\ Leaves(u, Rooms)
    /\ roomList' = [roomList EXCEPT ![u] = {}]
    /\ listed' = listed \ {u}
    /\ members' = [members EXCEPT ![u] = [r \in Rooms |-> {}]]
    /\ informed' = [informed EXCEPT ![u] = {}]
    /\ history' = [history EXCEPT ![u] = [r \in Rooms |-> {}]]
    /\ caughtUp' = [caughtUp EXCEPT ![u] = {}]
    /\ UNCHANGED <<chattingroom, RoomMember, lastRoom, inserted, destroyer, undone,
                   room, found, result, ChatMessage, lastMessage, packet, rest,
                   dropped>>

-----------------------------------------------------------------------------
(* CreateChattingRoomController                                            *)

CreateRoom(u) == Receive(u, 0, "Create") /\ UNCHANGED chat

\* A mutant: the new row's id is not the one LAST_INSERT_ID returns next.
InsertChattingRoomKeepsId(u) ==
    /\ pc[u] = "Create"
    /\ lastRoom < MaxRoom
    /\ chattingroom' = chattingroom \cup {lastRoom + 1}
    /\ room' = [room EXCEPT ![u] = lastRoom]
    /\ Go(u, "BroadcastRoom")
    /\ UNCHANGED <<RoomMember, lastRoom, inserted, destroyer, undone, unstored,
                   GroupNetworkSessions, found, toReach, result, clients, chat>>

\* The INSERT commits, and its id goes with the SUCCESS reply.
InsertChattingRoom(u) ==
    /\ pc[u] = "Create"
    /\ lastRoom < MaxRoom
    /\ lastRoom' = lastRoom + 1
    /\ chattingroom' = chattingroom \cup {lastRoom'}
    /\ room' = [room EXCEPT ![u] = lastRoom']
    /\ Go(u, "BroadcastRoom")
    /\ UNCHANGED <<RoomMember, inserted, destroyer, undone, unstored,
                   GroupNetworkSessions, found, toReach, result, clients, chat>>

\* A mutant: the broadcast goes to the clients that have their list.
BroadcastRoomToListed(u) ==
    /\ pc[u] = "BroadcastRoom"
    /\ roomList' = [w \in Users |-> IF w \in listed THEN roomList[w] \cup {room[u]}
                                    ELSE roomList[w]]
    /\ Return(u)
    /\ UNCHANGED <<database, GroupNetworkSessions, listed, members, informed, chat>>

\* Broadcast to every registered session, under the mutex.
BroadcastRoom(u) ==
    /\ pc[u] = "BroadcastRoom"
    /\ roomList' = [w \in Users |-> IF w \in Online THEN roomList[w] \cup {room[u]}
                                    ELSE roomList[w]]
    /\ Return(u)
    /\ UNCHANGED <<database, GroupNetworkSessions, listed, members, informed, chat>>

-----------------------------------------------------------------------------
(* EntryRoomController                                                     *)

\* A packet for any room, there or not; IsGroupMember drops it in its group.
EntryRoom(u, r) ==
    /\ u \notin GroupNetworkSessions[r]
    /\ Receive(u, r, "FindPassword")
    /\ UNCHANGED chat

\* FindPassword is true with no row too, and the empty password it leaves then
\* reads like that of an open room.  A wrong password is told so, and so is a
\* SELECT that fails.
FindPassword(u) ==
    /\ pc[u] = "FindPassword"
    /\ \/ /\ Go(u, "InsertRoomMember")
          /\ UNCHANGED locals
       \/ Return(u)
    /\ UNCHANGED <<database, GroupNetworkSessions, clients, chat>>

\* INSERT IGNORE, whose result is not looked at: it stores no row of a room that
\* is not there or of no account (the foreign keys), or because it fails.
InsertRoomMember(u) ==
    /\ pc[u] = "InsertRoomMember"
    /\ \/ /\ room[u] \in chattingroom
          /\ ShareLockable(room[u])
          /\ RoomMember[room[u]][u] < MaxRows
          /\ inserted' = inserted \cup {u}
          /\ unstored' = [unstored EXCEPT ![room[u]] = @ \ {u}]
       \/ /\ room[u] \in chattingroom => "INSERT" \in Failing
          /\ unstored' = [unstored EXCEPT ![room[u]] = @ \cup {u}]
          /\ UNCHANGED inserted
    /\ Go(u, "CommitEntry")
    /\ UNCHANGED <<chattingroom, RoomMember, lastRoom, destroyer, undone,
                   GroupNetworkSessions, locals, clients, chat>>

\* Transaction_End
CommitEntry(u) ==
    /\ pc[u] = "CommitEntry"
    /\ RoomMember' = IF u \in inserted
                     THEN [RoomMember EXCEPT ![room[u]][u] = @ + 1]
                     ELSE RoomMember
    /\ inserted' = inserted \ {u}
    /\ Go(u, "FindEntry")
    /\ UNCHANGED <<chattingroom, lastRoom, destroyer, undone, unstored,
                   GroupNetworkSessions, locals, clients, chat>>

\* A mutant: the failed commit is not looked at.
EntryIgnoresFailure(u) ==
    /\ pc[u] = "CommitEntry"
    /\ inserted' = inserted \ {u}
    /\ Go(u, "FindEntry")
    /\ UNCHANGED <<chattingroom, RoomMember, lastRoom, destroyer, undone, unstored,
                   GroupNetworkSessions, locals, clients, chat>>

\* Transaction_End that fails and rolls back; the client is told.
EntryFails(u) ==
    /\ pc[u] = "CommitEntry"
    /\ inserted' = inserted \ {u}
    /\ unstored' = [unstored EXCEPT ![room[u]] = @ \ {u}]
    /\ Return(u)
    /\ UNCHANGED <<chattingroom, RoomMember, lastRoom, destroyer, undone,
                   GroupNetworkSessions, clients, chat>>

\* SendEntry: GetRoomMember, and with no row nothing is sent; nor is the row of
\* an earlier entry found for a session that is not logged in now.
FindEntry(u) ==
    /\ pc[u] = "FindEntry"
    /\ \/ /\ u \in Members(room[u])
          /\ Begins(u, "SendEntry")
       \/ /\ u \notin Members(room[u]) \/ u \in unstored[room[u]]
          /\ Go(u, "EntryGroup")
          /\ UNCHANGED toReach
    /\ UNCHANGED <<database, GroupNetworkSessions, room, found, result, clients, chat>>

\* A mutant: clients still waiting for the members of the room are not told.
SendEntryToInformed(u) ==
    /\ pc[u] = "SendEntry"
    /\ members' = [w \in Users |->
                     IF /\ w \in GroupNetworkSessions[room[u]]
                        /\ room[u] \in informed[w]
                     THEN [members[w] EXCEPT ![room[u]] = @ \cup {u}]
                     ELSE members[w]]
    /\ Go(u, "EntryGroup")
    /\ UNCHANGED <<database, GroupNetworkSessions, locals, roomList, listed,
                   informed, chat>>

\* One turn of GroupBroadcast's loop.
SendEntry(u) ==
    /\ pc[u] = "SendEntry"
    /\ \/ \E w \in Users : /\ SendsTo(u, w)
                            /\ members' = [members EXCEPT ![w][room[u]] = @ \cup {u}]
       \/ Ends(u, "EntryGroup") /\ UNCHANGED members
    /\ UNCHANGED <<database, GroupNetworkSessions, room, found, result, roomList,
                   listed, informed, chat>>

\* The session joins the group, and the client is told SUCCESS.
EntryGroup(u) ==
    /\ pc[u] = "EntryGroup"
    /\ Joins(u, room[u])
    /\ Finish(u)
    /\ UNCHANGED <<database, clients, chat>>

-----------------------------------------------------------------------------
(* RequireRoomInfoController                                               *)

\* A client asks about a room it is in.
RequireRoomInfo(u, r) ==
    /\ u \in GroupNetworkSessions[r]
    /\ Receive(u, r, "FindAllMembers")
    /\ UNCHANGED chat

FindAllMembers(u) ==
    /\ pc[u] = "FindAllMembers"
    /\ found' = [found EXCEPT ![u] = Members(room[u])]
    /\ Go(u, "SendInfo")
    /\ UNCHANGED <<database, GroupNetworkSessions, room, toReach, result, clients, chat>>

\* The rows go out as one ENTRY packet of many members.
SendInfo(u) ==
    /\ pc[u] = "SendInfo"
    /\ members' = [members EXCEPT ![u][room[u]] = @ \cup found[u]]
    /\ informed' = [informed EXCEPT ![u] = @ \cup {room[u]}]
    /\ found' = [found EXCEPT ![u] = {}]
    /\ Go(u, "FindAllMessages")
    /\ UNCHANGED <<database, GroupNetworkSessions, room, toReach, result, roomList,
                   listed, chat>>

\* FindAllMessage returns nothing at its end: with rows, the controller goes on
\* or not by what happens to be in the register.  Without, it stops anyway.
FindAllMessages(u) ==
    /\ pc[u] = "FindAllMessages"
    /\ \/ /\ ChatMessage[room[u]] # {} /\ TRUE \in Residue
          /\ packet' = [packet EXCEPT ![u] = ChatMessage[room[u]]]
          /\ Go(u, "SendMessages")
          /\ UNCHANGED <<locals, caughtUp>>
       \/ /\ ChatMessage[room[u]] # {} /\ FALSE \in Residue
          /\ Return(u)
          /\ UNCHANGED <<packet, caughtUp>>
       \/ /\ ChatMessage[room[u]] = {}
          /\ caughtUp' = [caughtUp EXCEPT ![u] = @ \cup {room[u]}]
          /\ Return(u)
          /\ UNCHANGED packet
    /\ UNCHANGED <<database, GroupNetworkSessions, clients, ChatMessage, lastMessage,
                   rest, history, dropped>>

\* The history goes out as one SEND_MESSAGE packet.
SendMessages(u) ==
    /\ pc[u] = "SendMessages"
    /\ history' = [history EXCEPT ![u][room[u]] = @ \cup packet[u]]
    /\ caughtUp' = [caughtUp EXCEPT ![u] = @ \cup {room[u]}]
    /\ packet' = [packet EXCEPT ![u] = {}]
    /\ Return(u)
    /\ UNCHANGED <<database, GroupNetworkSessions, clients, ChatMessage, lastMessage,
                   rest, dropped>>

-----------------------------------------------------------------------------
(* SendMessageController                                                   *)

\* A client sends one or more messages to a room it is in.
SendMessage(u, r) ==
    /\ u \in GroupNetworkSessions[r]
    /\ Receive(u, r, "InsertMessage")
    /\ \E last \in lastMessage + 1..MaxMessage :
         /\ packet' = [packet EXCEPT ![u] = lastMessage + 1..last]
         /\ rest' = [rest EXCEPT ![u] = lastMessage + 1..last]
         /\ lastMessage' = last
    /\ UNCHANGED <<ChatMessage, history, caughtUp, dropped>>

\* The row of a message goes into the room, or none does.
Stores(r, m) ==
    /\ r \in chattingroom
    /\ ShareLockable(r)
    /\ ChatMessage' = [ChatMessage EXCEPT ![r] = @ \cup {m}]
    /\ UNCHANGED dropped
Drops(r, m) ==
    /\ r \in chattingroom => "INSERT" \in Failing
    /\ dropped' = dropped \cup {m}
    /\ UNCHANGED ChatMessage

\* A mutant: the count is one too small.
InsertMessageOneLess(u) ==
    /\ pc[u] = "InsertMessage"
    /\ \E m \in rest[u] :
         /\ \A n \in rest[u] : m <= n
         /\ IF rest[u] = {m} THEN UNCHANGED <<ChatMessage, dropped>>
            ELSE Stores(room[u], m) \/ Drops(room[u], m)
         /\ rest' = [rest EXCEPT ![u] = @ \ {m}]
    /\ IF rest'[u] = {} THEN Begins(u, "GroupBroadcast") ELSE UNCHANGED <<pc, toReach>>
    /\ UNCHANGED <<database, GroupNetworkSessions, room, found, result, clients,
                   lastMessage, packet, history, caughtUp>>

\* One INSERT IGNORE, which commits: it stores no row of a room that is not there
\* or of no account, or because it fails.  What InsertMessage returns is not
\* looked at.
InsertMessage(u) ==
    /\ pc[u] = "InsertMessage"
    /\ \E m \in rest[u] :
         /\ \A n \in rest[u] : m <= n
         /\ Stores(room[u], m) \/ Drops(room[u], m)
         /\ rest' = [rest EXCEPT ![u] = @ \ {m}]
    /\ IF rest'[u] = {} THEN Begins(u, "GroupBroadcast") ELSE UNCHANGED <<pc, toReach>>
    /\ UNCHANGED <<database, GroupNetworkSessions, room, found, result, clients,
                   lastMessage, packet, history, caughtUp>>

\* A mutant: clients that have not got the history yet are passed over.
GroupBroadcastToCaughtUp(u) ==
    /\ pc[u] = "GroupBroadcast"
    /\ history' = [w \in Users |->
                     IF /\ w \in GroupNetworkSessions[room[u]]
                        /\ room[u] \in caughtUp[w]
                     THEN [history[w] EXCEPT ![room[u]] = @ \cup packet[u]]
                     ELSE history[w]]
    /\ packet' = [packet EXCEPT ![u] = {}]
    /\ Return(u)
    /\ UNCHANGED <<database, GroupNetworkSessions, clients, ChatMessage, lastMessage,
                   rest, caughtUp, dropped>>

\* One turn of GroupBroadcast's loop: the packet goes out as it came.
GroupBroadcast(u) ==
    /\ pc[u] = "GroupBroadcast"
    /\ \/ /\ \E w \in Users :
               /\ SendsTo(u, w)
               /\ history' = [history EXCEPT ![w][room[u]] = @ \cup packet[u]]
          /\ UNCHANGED <<room, found, result, packet>>
       \/ /\ Ends(u, "Idle")
          /\ Finish(u)
          /\ packet' = [packet EXCEPT ![u] = {}]
          /\ UNCHANGED history
    /\ UNCHANGED <<database, GroupNetworkSessions, clients, ChatMessage, lastMessage,
                   rest, caughtUp, dropped>>

-----------------------------------------------------------------------------
(* ExitRoomController                                                      *)

\* A client leaves a room it is in.
ExitRoom(u, r) ==
    /\ u \in GroupNetworkSessions[r]
    /\ Receive(u, r, "FindExit")
    /\ UNCHANGED chat

\* SendExit: GetRoomMember, and nothing is sent with no row, or when the session
\* is not logged in any more.
FindExit(u) ==
    /\ pc[u] = "FindExit"
    /\ \/ u \in Members(room[u]) /\ Begins(u, "SendExit")
       \/ /\ u \in Members(room[u]) => "SELECT" \in Failing
          /\ Go(u, "ExitGroup")
          /\ UNCHANGED toReach
    /\ UNCHANGED <<database, GroupNetworkSessions, room, found, result, clients, chat>>

\* One turn of GroupBroadcast's loop.
SendExit(u) ==
    /\ pc[u] = "SendExit"
    /\ \/ \E w \in Users : /\ SendsTo(u, w)
                            /\ members' = [members EXCEPT ![w][room[u]] = @ \ {u}]
       \/ Ends(u, "ExitGroup") /\ UNCHANGED members
    /\ UNCHANGED <<database, GroupNetworkSessions, room, found, result, roomList,
                   listed, informed, chat>>

\* The session leaves the group; its client shows the room no more.
ExitGroup(u) ==
    /\ pc[u] = "ExitGroup"
    /\ Leaves(u, {room[u]})
    /\ members' = [members EXCEPT ![u][room[u]] = {}]
    /\ informed' = [informed EXCEPT ![u] = @ \ {room[u]}]
    /\ history' = [history EXCEPT ![u][room[u]] = {}]
    /\ caughtUp' = [caughtUp EXCEPT ![u] = @ \ {room[u]}]
    /\ Go(u, "CountByRoomMember")
    /\ UNCHANGED <<chattingroom, RoomMember, lastRoom, inserted, destroyer, undone,
                   room, found, result, roomList, listed, ChatMessage, lastMessage,
                   packet, rest, dropped>>

\* A mutant: an off-by-one in the count.
CountForgetsSelf(u) ==
    /\ pc[u] = "CountByRoomMember"
    /\ Go(u, IF Members(room[u]) = {} THEN "DestroyChatting" ELSE "DeleteRoomMember")
    /\ UNCHANGED <<database, GroupNetworkSessions, locals, clients, chat>>

\* ExitRoomService: the SELECT COUNT(*) reads a snapshot and locks nothing.
CountByRoomMember(u) ==
    /\ pc[u] = "CountByRoomMember"
    /\ Go(u, IF OneRow(room[u]) THEN "DestroyChatting" ELSE "DeleteRoomMember")
    /\ UNCHANGED <<database, GroupNetworkSessions, locals, clients, chat>>

\* The COUNT fails: nothing is deleted, and the client is told so.
CountFails(u) ==
    /\ "SELECT" \in Failing
    /\ pc[u] = "CountByRoomMember"
    /\ Return(u)
    /\ UNCHANGED <<database, GroupNetworkSessions, clients, chat>>

\* DELETE FROM chattingroom is true with or without such a row.
DestroyChatting(u) ==
    /\ pc[u] = "DestroyChatting"
    /\ \/ /\ room[u] \in chattingroom
          /\ Lockable(room[u])
          /\ destroyer' = [destroyer EXCEPT ![room[u]] = u]
       \/ /\ room[u] \notin chattingroom
          /\ UNCHANGED destroyer
    /\ result' = result \cup {u}
    /\ Go(u, "DeleteRoomMember")
    /\ UNCHANGED <<chattingroom, RoomMember, lastRoom, inserted, undone, unstored,
                   GroupNetworkSessions, room, found, toReach, clients, chat>>

\* That DELETE fails: the room stays, and the user's rows are deleted.
DestroyFails(u) ==
    /\ "DELETE" \in Failing
    /\ pc[u] = "DestroyChatting"
    /\ Go(u, "DeleteRoomMember")
    /\ UNCHANGED <<database, GroupNetworkSessions, locals, clients, chat>>

\* The DELETE of the user's rows waits for another's cascade.
DeleteRoomMember(u) ==
    /\ pc[u] = "DeleteRoomMember"
    /\ destroyer[room[u]] \in {Nobody, u}
    /\ Go(u, "CommitExit")
    /\ UNCHANGED <<database, GroupNetworkSessions, locals, clients, chat>>

\* That DELETE fails, or finds no account, and its result is not looked at: the
\* rows stay.  A deadlock rolls back the DELETE of the room as well.
DeleteFails(u) ==
    /\ "DELETE" \in Failing
    /\ pc[u] = "DeleteRoomMember"
    /\ \/ UNCHANGED <<destroyer, undone>>
       \/ /\ destroyer[room[u]] = u
          /\ destroyer' = [destroyer EXCEPT ![room[u]] = Nobody]
          /\ undone' = undone \cup {room[u]}
    /\ Go(u, "CommitUndeleted")
    /\ UNCHANGED <<chattingroom, RoomMember, lastRoom, inserted, unstored,
                   GroupNetworkSessions, locals, clients, chat>>

\* A mutant: the user's own rows are left.
CommitExitKeepsRow(u) ==
    /\ pc[u] \in {"CommitExit", "CommitUndeleted"}
    /\ chattingroom' = {r \in chattingroom : destroyer[r] # u}
    /\ RoomMember' = [r \in Rooms |-> IF destroyer[r] = u THEN [w \in Users |-> 0]
                                      ELSE RoomMember[r]]
    /\ ChatMessage' = [r \in Rooms |-> IF destroyer[r] = u THEN {} ELSE ChatMessage[r]]
    /\ destroyer' = [r \in Rooms |-> IF destroyer[r] = u THEN Nobody ELSE destroyer[r]]
    /\ \/ u \in result /\ Go(u, "BroadcastRemoved") /\ UNCHANGED locals
       \/ u \notin result /\ Return(u)
    /\ UNCHANGED <<lastRoom, inserted, undone, unstored, GroupNetworkSessions, clients,
                   lastMessage, packet, rest, history, caughtUp, dropped>>

\* Transaction_End: a room that is gone takes its rows and messages with it.
\* The reply is the SUCCESS broadcast or, when the room stays, FAILED to the
\* client alone.
CommitExit(u) ==
    /\ pc[u] \in {"CommitExit", "CommitUndeleted"}
    /\ chattingroom' = {r \in chattingroom : destroyer[r] # u}
    /\ RoomMember' = [r \in Rooms |-> IF destroyer[r] = u THEN [w \in Users |-> 0]
                                      ELSE IF r = room[u] /\ pc[u] = "CommitExit"
                                      THEN [RoomMember[r] EXCEPT ![u] = 0]
                                      ELSE RoomMember[r]]
    /\ ChatMessage' = [r \in Rooms |-> IF destroyer[r] = u THEN {} ELSE ChatMessage[r]]
    /\ destroyer' = [r \in Rooms |-> IF destroyer[r] = u THEN Nobody ELSE destroyer[r]]
    /\ \/ u \in result /\ Go(u, "BroadcastRemoved") /\ UNCHANGED locals
       \/ u \notin result /\ Return(u)
    /\ UNCHANGED <<lastRoom, inserted, undone, unstored, GroupNetworkSessions, clients,
                   lastMessage, packet, rest, history, caughtUp, dropped>>

\* A mutant: result, not the commit, decides on the reply.
ExitIgnoresFailure(u) ==
    /\ pc[u] \in {"CommitExit", "CommitUndeleted"}
    /\ destroyer' = [r \in Rooms |-> IF destroyer[r] = u THEN Nobody ELSE destroyer[r]]
    /\ \/ u \in result /\ Go(u, "BroadcastRemoved") /\ UNCHANGED locals
       \/ u \notin result /\ Return(u)
    /\ UNCHANGED <<chattingroom, RoomMember, lastRoom, inserted, undone, unstored,
                   GroupNetworkSessions, clients, chat>>

\* Transaction_End that fails and rolls back.
ExitFails(u) ==
    /\ pc[u] \in {"CommitExit", "CommitUndeleted"}
    /\ destroyer' = [r \in Rooms |-> IF destroyer[r] = u THEN Nobody ELSE destroyer[r]]
    /\ Return(u)
    /\ UNCHANGED <<chattingroom, RoomMember, lastRoom, inserted, undone, unstored,
                   GroupNetworkSessions, clients, chat>>

\* Broadcast of the result to every registered session, under the mutex.
BroadcastRemoved(u) ==
    /\ pc[u] = "BroadcastRemoved"
    /\ roomList' = [w \in Users |-> IF w \in Online THEN roomList[w] \ {room[u]}
                                    ELSE roomList[w]]
    /\ Return(u)
    /\ UNCHANGED <<database, GroupNetworkSessions, listed, members, informed, chat>>

-----------------------------------------------------------------------------

\* One user's thread, when its session, its commits and its DELETEs do not fail.
RecvProc(u) ==
    \/ Connect(u) \/ Login(u) \/ SendRooms(u)
    \/ CreateRoom(u) \/ InsertChattingRoom(u) \/ BroadcastRoom(u)
    \/ \E r \in Rooms : EntryRoom(u, r) \/ RequireRoomInfo(u, r)
                       \/ SendMessage(u, r) \/ ExitRoom(u, r)
    \/ FindPassword(u) \/ InsertRoomMember(u) \/ CommitEntry(u)
    \/ FindEntry(u) \/ SendEntry(u) \/ EntryGroup(u)
    \/ FindAllMembers(u) \/ SendInfo(u) \/ FindAllMessages(u) \/ SendMessages(u)
    \/ InsertMessage(u) \/ GroupBroadcast(u)
    \/ FindExit(u) \/ SendExit(u) \/ ExitGroup(u) \/ CountByRoomMember(u)
    \/ DestroyChatting(u) \/ DeleteRoomMember(u) \/ CommitExit(u)
    \/ BroadcastRemoved(u)

Fails(u) ==
    \/ CloseSocket(u) \/ EntryFails(u) \/ CountFails(u)
    \/ DestroyFails(u) \/ DeleteFails(u) \/ ExitFails(u)

Next == \E u \in Users : RecvProc(u) \/ Fails(u)

Spec == Init /\ [][Next]_vars

-----------------------------------------------------------------------------
(* Properties.                                                             *)

\* From the start of an exit to the end of ExitGroup.
Leaving(u, r) == room[u] = r /\ pc[u] \in {"FindExit", "SendExit", "ExitGroup"}

\* A client that asked for a room's members knows every member whose entry
\* stored its row, however the entries, exits and questions of the others cross:
\* EntryGroup follows the commit and the SendEntry of the one who enters, and a
\* client asks only after its own EntryGroup (EntryRoomController.cpp:25-30).
MembersKnown ==
    \A r \in Rooms, u, w \in Users :
        /\ {u, w} \subseteq GroupNetworkSessions[r]
        /\ r \in informed[u]
        /\ w \in Members(r) /\ w \notin unstored[r]
        /\ ~Leaving(w, r)
        => w \in members[u][r]

\* A client that got its list knows every room whose creation was broadcast:
\* one that is committed after FindAllChatRoom is broadcast to it later
\* (LoginController.cpp:24, CreateChattingRoomController.cpp:19-44).  A room whose
\* DELETE was undone may have been told removed.
RoomsKnown ==
    \A u \in listed, r \in chattingroom \ undone :
        (\E v \in Users : pc[v] = "BroadcastRoom" /\ room[v] = r) \/ r \in roomList[u]

\* In a room that exists, the group holds no session without a row but those
\* whose own INSERT stored none, which nobody looks at: no failed commit, no exit
\* and no removal of another leaves one behind (EntryRoomController.cpp:25-29,
\* EntryRoomService.cpp:21-42, ExitRoomController.cpp:23-24).
GroupHasRows ==
    \A r \in chattingroom : GroupNetworkSessions[r] \subseteq Members(r) \cup unstored[r]

\* All clients are told a room is removed only after it is, unless MySQL has
\* rolled back that DELETE under the one of the user's rows, whose result nobody
\* looks at (ExitRoomController.cpp:24-33, ExitRoomService.cpp:21-25).
RemovedIsGone ==
    \A u \in Users :
        pc[u] = "BroadcastRemoved" /\ room[u] \in chattingroom => room[u] \in undone

\* A client that got the history of a room knows every message stored in it,
\* those whose packet is still being sent apart: a message is stored before it
\* is sent to the group, and the history is read by a session of the group
\* (SendMessageController.cpp:21-34, RequireRoomInfoController.cpp:43-78).  A
\* client may get one twice; it may get none when FindAllMessage, which returns
\* no value, is taken for false.
MessagesKnown ==
    \A r \in Rooms, u \in Users :
        u \in GroupNetworkSessions[r] /\ r \in caughtUp[u] =>
            \A m \in ChatMessage[r] :
                \/ m \in history[u][r]
                \/ \E v \in Users : pc[v] \in SendPCs /\ m \in packet[v]

\* In a room that exists, what a client was shown as a message is stored, so
\* that those who come later are shown it too, but for those whose own INSERT
\* stored no row, which are sent all the same (SendMessageController.cpp:27-34).
ShownIsStored ==
    \A r \in chattingroom, u \in Users : history[u][r] \subseteq ChatMessage[r] \cup dropped

=============================================================================
