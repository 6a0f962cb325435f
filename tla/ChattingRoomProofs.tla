-------------------------- MODULE ChattingRoomProofs --------------------------
(***************************************************************************)
(* The safety of ChattingRoom for any number of users, rooms and messages. *)
(* RoomInv is inductive: it says, for each place a controller may be at,   *)
(* which row its user has, which room its DELETE has locked, and whether   *)
(* its session is in the group.                                            *)
(***************************************************************************)
EXTENDS ChattingRoom, TLAPS

-----------------------------------------------------------------------------
(* Types, by the groups of variables that actions change together.         *)

PCs == {"Offline", "Login", "SendRooms", "Idle", "Create", "BroadcastRoom"}
         \cup EntryPCs \cup InfoPCs \cup ExitPCs \cup SendPCs

PlaceType == pc \in [Users -> PCs]

LocalType ==
    /\ room \in [Users -> 0..MaxRoom]
    /\ found \in [Users -> SUBSET (Users \cup Rooms)]
    /\ toReach \in [Users -> SUBSET Users]
    /\ result \subseteq Users

DatabaseType ==
    /\ chattingroom \subseteq 1..lastRoom
    /\ RoomMember \in [Rooms -> [Users -> 0..MaxRows]]
    /\ lastRoom \in 0..MaxRoom
    /\ inserted \subseteq Users
    /\ destroyer \in [Rooms -> Users \cup {Nobody}]
    /\ undone \subseteq Rooms
    /\ unstored \in [Rooms -> SUBSET Users]

GroupType == GroupNetworkSessions \in [Rooms -> SUBSET Users]

\* A client knows of no room that is not created yet.
ClientType ==
    /\ roomList \in [Users -> SUBSET (1..lastRoom)]
    /\ listed \subseteq Users
    /\ members \in [Users -> [Rooms -> SUBSET Users]]
    /\ informed \in [Users -> SUBSET Rooms]

ChatType ==
    /\ ChatMessage \in [Rooms -> SUBSET (1..lastMessage)]
    /\ lastMessage \in 0..MaxMessage
    /\ packet \in [Users -> SUBSET (1..lastMessage)]
    /\ rest \in [Users -> SUBSET Messages]
    /\ \A u \in Users : rest[u] \subseteq packet[u]
    /\ history \in [Users -> [Rooms -> SUBSET Messages]]
    /\ caughtUp \in [Users -> SUBSET Rooms]
    /\ dropped \subseteq Messages

TypeInv == PlaceType /\ LocalType /\ DatabaseType /\ GroupType /\ ClientType /\ ChatType

LEMMA PlacesArePCs ==
  {"Offline", "Login", "SendRooms", "Idle", "Create", "BroadcastRoom",
   "FindPassword", "InsertRoomMember", "CommitEntry", "FindEntry", "SendEntry",
   "EntryGroup", "FindAllMembers", "SendInfo", "FindAllMessages", "SendMessages",
   "FindExit", "SendExit", "ExitGroup", "CountByRoomMember", "DestroyChatting",
   "DeleteRoomMember", "CommitExit", "CommitUndeleted", "BroadcastRemoved",
   "InsertMessage", "GroupBroadcast"} \subseteq PCs
  BY DEF PCs, EntryPCs, InfoPCs, ExitPCs, SendPCs

-----------------------------------------------------------------------------
(* The invariant.                                                          *)

\* Where a thread works on no room.
Away == {"Offline", "Login", "SendRooms", "Idle", "Create"}

PlaceInv(u) ==
    /\ pc[u] \in Away => room[u] = 0
    /\ pc[u] \notin Away => room[u] \in Rooms
    /\ pc[u] = "BroadcastRoom" => room[u] \in 1..lastRoom
    /\ pc[u] = "SendRooms" => found[u] \subseteq 1..lastRoom
    /\ pc[u] = "SendInfo" => found[u] \subseteq Users
    /\ pc[u] # "InsertMessage" => rest[u] = {}

\* A room that is there, or that may yet be created.
Possible(r) == r \in 1..lastRoom => r \in chattingroom

\* The row of a user that enters, unless its INSERT stored none or the room is
\* gone.
EntryInv(u) ==
    /\ u \in inserted =>
         pc[u] = "CommitEntry" /\ RoomMember[room[u]][u] < MaxRows /\ room[u] \in 1..lastRoom
    /\ pc[u] = "CommitEntry" /\ Possible(room[u]) => u \in inserted \/ u \in unstored[room[u]]
    /\ pc[u] \in {"FindEntry", "SendEntry", "EntryGroup"} /\ Possible(room[u])
         => RoomMember[room[u]][u] > 0 \/ u \in unstored[room[u]]

\* Where the session is not in the group its thread works on.
Commits == {"CommitExit", "CommitUndeleted"}
Outside == EntryPCs \cup {"CountByRoomMember", "DestroyChatting", "DeleteRoomMember"}
                    \cup Commits

\* The room the DELETE of a user that leaves has locked.
ExitInv(u) ==
    /\ pc[u] \in Outside => u \notin GroupNetworkSessions[room[u]]
    /\ u \in result => pc[u] \in {"DeleteRoomMember", "BroadcastRemoved"} \cup Commits
    /\ u \in result \/ pc[u] \in {"DestroyChatting", "BroadcastRemoved"} => room[u] \in 1..lastRoom
    /\ pc[u] \in {"DeleteRoomMember"} \cup Commits /\ u \in result
         /\ room[u] \in chattingroom => destroyer[room[u]] = u \/ room[u] \in undone
    /\ pc[u] = "BroadcastRemoved" /\ room[u] \in chattingroom => room[u] \in undone

\* A room that is locked is locked by the user that will tell of it.
LockInv ==
    \A r \in Rooms, u \in Users : destroyer[r] = u =>
        /\ pc[u] \in {"DeleteRoomMember"} \cup Commits
        /\ room[u] = r
        /\ u \in result

\* There are rows of rooms that have been created only.
RowsCreated ==
    \A r \in Rooms, u \in Users : RoomMember[r][u] > 0 => r \in 1..lastRoom

\* GroupHasRows, of the rooms that may yet be created as well.
GroupsHold ==
    \A r \in Rooms :
        Possible(r) => GroupNetworkSessions[r] \subseteq Members(r) \cup unstored[r]

UserInv(u) == PlaceInv(u) /\ EntryInv(u) /\ ExitInv(u)

RoomInv ==
    /\ TypeInv
    /\ LockInv
    /\ RowsCreated
    /\ GroupsHold
    /\ \A u \in Users : UserInv(u)

LEMMA RoomsAreRooms ==
  ASSUME DatabaseType
  PROVE  /\ 1..lastRoom \subseteq Rooms /\ Rooms \subseteq 0..MaxRoom
         /\ chattingroom \subseteq Rooms /\ chattingroom \subseteq 1..lastRoom
  BY RoomAssumption DEF DatabaseType, Rooms

\* What a client knows of a room grows and shrinks within its type.
LEMMA EntryGrows ==
  ASSUME NEW S, NEW f \in [Users -> [Rooms -> SUBSET S]],
         NEW w \in Users, NEW r \in Rooms, NEW X \in SUBSET S
  PROVE  [f EXCEPT ![w][r] = @ \cup X] \in [Users -> [Rooms -> SUBSET S]]
  <1>1. f[w] \in [Rooms -> SUBSET S] /\ f[w][r] \cup X \in SUBSET S
    OBVIOUS
  <1>2. [f[w] EXCEPT ![r] = f[w][r] \cup X] \in [Rooms -> SUBSET S]
    BY <1>1
  <1> QED
    BY <1>2

LEMMA EntryShrinks ==
  ASSUME NEW S, NEW f \in [Users -> [Rooms -> SUBSET S]],
         NEW w \in Users, NEW r \in Rooms, NEW X
  PROVE  [f EXCEPT ![w][r] = @ \ X] \in [Users -> [Rooms -> SUBSET S]]
  <1>1. f[w] \in [Rooms -> SUBSET S] /\ f[w][r] \ X \in SUBSET S
    OBVIOUS
  <1>2. [f[w] EXCEPT ![r] = f[w][r] \ X] \in [Rooms -> SUBSET S]
    BY <1>1
  <1> QED
    BY <1>2

LEMMA MessagesKnownTo ==
  ASSUME ChatType
  PROVE  1..lastMessage \subseteq Messages /\ \A u \in Users : packet[u] \subseteq Messages
  BY RoomAssumption DEF ChatType, Messages

-----------------------------------------------------------------------------
(* What a step of one thread leaves to the others.                         *)

\* Nothing of user v changes.
SameUser(v) ==
    /\ pc'[v] = pc[v] /\ room'[v] = room[v] /\ found'[v] = found[v] /\ rest'[v] = rest[v]
    /\ packet'[v] = packet[v]
    /\ v \in inserted' <=> v \in inserted
    /\ v \in result' <=> v \in result

\* A step of user u.
StepOf(u) == \A v \in Users \ {u} : SameUser(v)

\* Nothing that user v relies on changes for room r, unless the room is removed.
SteadyRoom(v, r) ==
    /\ (r \in 1..lastRoom' => r \in chattingroom') => Possible(r)
    /\ r \in 1..lastRoom /\ r \in chattingroom' => r \in chattingroom
    /\ \/ RoomMember'[r][v] = RoomMember[r][v]
       \/ /\ r \in 1..lastRoom' /\ r \notin chattingroom'
          /\ RoomMember'[r][v] = 0
    /\ v \in unstored[r] => v \in unstored'[r]
    /\ v \in GroupNetworkSessions'[r] => v \in GroupNetworkSessions[r]
    /\ r \in chattingroom' /\ destroyer[r] = v => destroyer'[r] = v \/ r \in undone'
    /\ r \in undone => r \in undone'

LEMMA OthersKeep ==
  ASSUME TypeInv, NEW v \in Users, UserInv(v), SameUser(v),
         pc[v] \notin Away => SteadyRoom(v, room[v]),
         1..lastRoom \subseteq 1..lastRoom'
  PROVE  UserInv(v)'
  <1>1. PlaceInv(v)'
    BY DEF UserInv, PlaceInv, SameUser
  <1>2. pc[v] \notin Away => room[v] \in Rooms
    BY DEF UserInv, PlaceInv
  <1>3. /\ pc[v] \in Outside \cup {"BroadcastRemoved"} => pc[v] \notin Away
        /\ {"CommitEntry", "FindEntry", "SendEntry", "EntryGroup", "DestroyChatting",
            "DeleteRoomMember"} \cup Commits \subseteq Outside
    BY DEF Away, Outside, Commits, EntryPCs
  <1>4. EntryInv(v)'
    BY <1>2, <1>3, RoomAssumption
    DEF UserInv, EntryInv, SameUser, SteadyRoom, Possible, TypeInv, DatabaseType
  <1>5. ExitInv(v)'
    BY <1>3 DEF UserInv, ExitInv, SameUser, SteadyRoom
  <1> QED
    BY <1>1, <1>4, <1>5 DEF UserInv

\* A user that has locked a room goes on to its commit.
KeepsLock(u) ==
    u \in result /\ pc[u] \in {"DeleteRoomMember"} \cup Commits =>
        /\ pc'[u] \in {"DeleteRoomMember"} \cup Commits
        /\ room'[u] = room[u]
        /\ u \in result'

\* A step that leaves the tables and the groups alone.
LEMMA QuietStep ==
  ASSUME RoomInv, NEW u \in Users, StepOf(u),
         UNCHANGED <<database, GroupNetworkSessions>>,
         PlaceType', LocalType', ClientType', ChatType', UserInv(u)', KeepsLock(u)
  PROVE  RoomInv'
  <1>1. DatabaseType' /\ GroupType' /\ RowsCreated'
    BY DEF RoomInv, TypeInv, DatabaseType, GroupType, RowsCreated, database
  <1>2. GroupsHold'
    BY DEF RoomInv, GroupsHold, Possible, Members, database
  <1>3. LockInv'
    BY DEF RoomInv, LockInv, KeepsLock, StepOf, SameUser, database
  <1>4. ASSUME NEW v \in Users \ {u} PROVE UserInv(v)'
    <2>1. SteadyRoom(v, room[v])
      BY DEF SteadyRoom, Possible, database
    <2> QED
      BY <2>1, OthersKeep DEF RoomInv, StepOf, database
  <1> QED
    BY <1>1, <1>2, <1>3, <1>4 DEF RoomInv, TypeInv

\* One that leaves alone what the clients know, too.
LEMMA LocalStep ==
  ASSUME RoomInv, NEW u \in Users, StepOf(u),
         UNCHANGED <<database, GroupNetworkSessions, clients, chat>>,
         PlaceType', LocalType', UserInv(u)', KeepsLock(u)
  PROVE  RoomInv'
  <1>1. ClientType' /\ ChatType'
    BY DEF RoomInv, TypeInv, ClientType, ChatType, clients, chat, database
  <1> QED
    BY <1>1, QuietStep

LEMMA InitRoomInv == Init => RoomInv
  <1> SUFFICES ASSUME Init PROVE RoomInv
    OBVIOUS
  <1> USE RoomAssumption DEF Init
  <1>1. TypeInv
    BY DEF TypeInv, PlaceType, LocalType, PCs, DatabaseType, GroupType, ClientType,
       ChatType
  <1>2. LockInv /\ RowsCreated /\ GroupsHold
    BY DEF LockInv, RowsCreated, GroupsHold
  <1>3. \A u \in Users : UserInv(u)
    BY DEF UserInv, PlaceInv, EntryInv, ExitInv, Away, Outside, Commits,
       EntryPCs
  <1> QED
    BY <1>1, <1>2, <1>3 DEF RoomInv

-----------------------------------------------------------------------------
(* The steps that leave the tables and the groups alone.                   *)

LEMMA ConnectKeeps ==
  ASSUME RoomInv, NEW u \in Users, Connect(u)
  PROVE  RoomInv' /\ StepOf(u)
  <1> USE DEF Connect, Go
  <1>1. UNCHANGED <<database, GroupNetworkSessions, clients, chat>>
    BY DEF clients, chat
  <1>2. PlaceType'
    BY PlacesArePCs DEF RoomInv, TypeInv, PlaceType, locals
  <1>3. LocalType'
    BY RoomAssumption
    DEF RoomInv, TypeInv, LocalType, DatabaseType, GroupType, locals, Rooms
  <1>4. StepOf(u)
    BY <1>1
    DEF RoomInv, TypeInv, PlaceType, LocalType, ChatType, StepOf, SameUser, locals, chat,
        database
  <1>5. PlaceInv(u)'
    BY <1>1
    DEF RoomInv, TypeInv, PlaceType, LocalType, DatabaseType, ChatType, UserInv,
        PlaceInv, locals, chat, database, Away
  <1>6. EntryInv(u)'
    BY <1>1
    DEF RoomInv, TypeInv, PlaceType, LocalType, UserInv, EntryInv, Possible, locals, database,
        Members
  <1>7. ExitInv(u)'
    BY <1>1
    DEF RoomInv, TypeInv, PlaceType, LocalType, UserInv, ExitInv, Outside, Commits, EntryPCs, locals, database
  <1>8. KeepsLock(u)
    BY DEF KeepsLock, Commits, RoomInv, TypeInv, PlaceType, locals
  <1> QED
    BY <1>1, <1>2, <1>3, <1>4, <1>5, <1>6, <1>7, <1>8, LocalStep DEF UserInv

LEMMA LoginKeeps ==
  ASSUME RoomInv, NEW u \in Users, Login(u)
  PROVE  RoomInv' /\ StepOf(u)
  <1>a. /\ UNCHANGED <<database, GroupNetworkSessions, clients, chat>>
        /\ pc[u] = "Login"
        /\ \/ /\ found' = [found EXCEPT ![u] = chattingroom]
              /\ Go(u, "SendRooms")
              /\ UNCHANGED <<room, toReach, result>>
           \/ Return(u)
    BY DEF Login
  <1> USE <1>a DEF Go, Return, Finish
  <1>1. UNCHANGED <<database, GroupNetworkSessions, clients, chat>>
    BY DEF clients, chat
  <1>2. PlaceType'
    BY PlacesArePCs DEF RoomInv, TypeInv, PlaceType, locals
  <1>3. LocalType'
    BY RoomsAreRooms, RoomAssumption DEF RoomInv, TypeInv, LocalType
  <1>4. StepOf(u)
    BY <1>1
    DEF RoomInv, TypeInv, PlaceType, LocalType, ChatType, StepOf, SameUser, locals, chat,
        database
  <1>5. PlaceInv(u)'
    BY <1>1, RoomsAreRooms
    DEF RoomInv, TypeInv, PlaceType, LocalType, UserInv, PlaceInv, chat, database, Away
  <1>6. EntryInv(u)'
    BY <1>1
    DEF RoomInv, TypeInv, PlaceType, LocalType, UserInv, EntryInv, Possible, locals, database,
        Members
  <1>7. ExitInv(u)'
    BY <1>1
    DEF RoomInv, TypeInv, PlaceType, LocalType, UserInv, ExitInv, Outside, Commits, EntryPCs, locals, database
  <1>8. KeepsLock(u)
    BY DEF KeepsLock, Commits, RoomInv, TypeInv, PlaceType, locals
  <1> QED
    BY <1>1, <1>2, <1>3, <1>4, <1>5, <1>6, <1>7, <1>8, LocalStep DEF UserInv

LEMMA SendRoomsKeeps ==
  ASSUME RoomInv, NEW u \in Users, SendRooms(u)
  PROVE  RoomInv' /\ StepOf(u)
  <1> USE DEF SendRooms, Go, Return, Finish
  <1>1. UNCHANGED <<database, GroupNetworkSessions>>
    BY DEF locals
  <1>2. PlaceType'
    BY PlacesArePCs DEF RoomInv, TypeInv, PlaceType, locals
  <1>3. LocalType'
    BY RoomAssumption
    DEF RoomInv, TypeInv, LocalType, DatabaseType, GroupType, locals, Rooms
  <1>4. ClientType'
    BY RoomAssumption
    DEF RoomInv, TypeInv, LocalType, DatabaseType, ClientType, UserInv, PlaceInv,
        clients, database, Rooms, Away
  <1>5. ChatType'
    BY DEF RoomInv, TypeInv, ChatType, chat
  <1>6. StepOf(u)
    BY <1>1
    DEF RoomInv, TypeInv, PlaceType, LocalType, ChatType, StepOf, SameUser, locals, chat,
        database
  <1>7. PlaceInv(u)'
    BY <1>1
    DEF RoomInv, TypeInv, PlaceType, LocalType, DatabaseType, ChatType, UserInv,
        PlaceInv, locals, chat, database, Away
  <1>8. EntryInv(u)'
    BY <1>1
    DEF RoomInv, TypeInv, PlaceType, LocalType, UserInv, EntryInv, Possible, locals, database,
        Members
  <1>9. ExitInv(u)'
    BY <1>1
    DEF RoomInv, TypeInv, PlaceType, LocalType, UserInv, ExitInv, Outside, Commits, EntryPCs, locals, database
  <1>10. KeepsLock(u)
    BY DEF KeepsLock, Commits, RoomInv, TypeInv, PlaceType, locals
  <1> QED
    BY <1>1, <1>2, <1>3, <1>4, <1>5, <1>6, <1>7, <1>8, <1>9, <1>10, QuietStep
    DEF UserInv

LEMMA CreateRoomKeeps ==
  ASSUME RoomInv, NEW u \in Users, CreateRoom(u)
  PROVE  RoomInv' /\ StepOf(u)
  <1> USE DEF CreateRoom, Receive, Go
  <1>1. UNCHANGED <<database, GroupNetworkSessions, clients, chat>>
    BY DEF clients, chat, locals
  <1>2. PlaceType'
    BY PlacesArePCs DEF RoomInv, TypeInv, PlaceType, locals
  <1>3. LocalType'
    BY RoomAssumption
    DEF RoomInv, TypeInv, LocalType, DatabaseType, GroupType, locals, Rooms
  <1>4. StepOf(u)
    BY <1>1
    DEF RoomInv, TypeInv, PlaceType, LocalType, ChatType, StepOf, SameUser, locals, chat,
        database
  <1>5. PlaceInv(u)'
    BY <1>1
    DEF RoomInv, TypeInv, PlaceType, LocalType, DatabaseType, ChatType, UserInv,
        PlaceInv, locals, chat, database, Away
  <1>6. EntryInv(u)'
    BY <1>1
    DEF RoomInv, TypeInv, PlaceType, LocalType, UserInv, EntryInv, Possible, locals, database,
        Members
  <1>7. ExitInv(u)'
    BY <1>1
    DEF RoomInv, TypeInv, PlaceType, LocalType, UserInv, ExitInv, Outside, Commits, EntryPCs, locals, database
  <1>8. KeepsLock(u)
    BY DEF KeepsLock, Commits, RoomInv, TypeInv, PlaceType, locals
  <1> QED
    BY <1>1, <1>2, <1>3, <1>4, <1>5, <1>6, <1>7, <1>8, LocalStep DEF UserInv

LEMMA BroadcastRoomKeeps ==
  ASSUME RoomInv, NEW u \in Users, BroadcastRoom(u)
  PROVE  RoomInv' /\ StepOf(u)
  <1> USE DEF BroadcastRoom, Go, Return, Finish
  <1>1. UNCHANGED <<database, GroupNetworkSessions>>
    BY DEF locals
  <1>2. PlaceType'
    BY PlacesArePCs DEF RoomInv, TypeInv, PlaceType, locals
  <1>3. LocalType'
    BY RoomAssumption
    DEF RoomInv, TypeInv, LocalType, DatabaseType, GroupType, locals, Rooms
  <1>4. ClientType'
    <2>1. room[u] \in 1..lastRoom
      BY DEF RoomInv, UserInv, PlaceInv, Away
    <2>2. roomList' \in [Users -> SUBSET (1..lastRoom)]
      BY <2>1 DEF RoomInv, TypeInv, ClientType
    <2> QED
      BY <1>1, <2>2 DEF RoomInv, TypeInv, ClientType, database
  <1>5. ChatType'
    BY DEF RoomInv, TypeInv, ChatType, chat
  <1>6. StepOf(u)
    BY <1>1
    DEF RoomInv, TypeInv, PlaceType, LocalType, ChatType, StepOf, SameUser, locals, chat,
        database
  <1>7. PlaceInv(u)'
    BY <1>1
    DEF RoomInv, TypeInv, PlaceType, LocalType, DatabaseType, ChatType, UserInv,
        PlaceInv, locals, chat, database, Away
  <1>8. EntryInv(u)'
    BY <1>1
    DEF RoomInv, TypeInv, PlaceType, LocalType, UserInv, EntryInv, Possible, locals, database,
        Members
  <1>9. ExitInv(u)'
    BY <1>1
    DEF RoomInv, TypeInv, PlaceType, LocalType, UserInv, ExitInv, Outside, Commits, EntryPCs, locals, database
  <1>10. KeepsLock(u)
    BY DEF KeepsLock, Commits, RoomInv, TypeInv, PlaceType, locals
  <1> QED
    BY <1>1, <1>2, <1>3, <1>4, <1>5, <1>6, <1>7, <1>8, <1>9, <1>10, QuietStep
    DEF UserInv

LEMMA EntryRoomKeeps ==
  ASSUME RoomInv, NEW u \in Users, NEW q \in Rooms, EntryRoom(u, q)
  PROVE  RoomInv' /\ StepOf(u)
  <1> USE DEF EntryRoom, Receive, Go
  <1>1. UNCHANGED <<database, GroupNetworkSessions, clients, chat>>
    BY DEF clients, chat, locals
  <1>2. PlaceType'
    BY PlacesArePCs DEF RoomInv, TypeInv, PlaceType, locals
  <1>3. LocalType'
    BY RoomAssumption
    DEF RoomInv, TypeInv, LocalType, DatabaseType, GroupType, locals, Rooms
  <1>4. StepOf(u)
    BY <1>1
    DEF RoomInv, TypeInv, PlaceType, LocalType, ChatType, StepOf, SameUser, locals, chat,
        database
  <1>5. PlaceInv(u)'
    BY <1>1
    DEF RoomInv, TypeInv, PlaceType, LocalType, DatabaseType, ChatType, UserInv,
        PlaceInv, locals, chat, database, Away
  <1>6. EntryInv(u)'
    BY <1>1
    DEF RoomInv, TypeInv, PlaceType, LocalType, UserInv, EntryInv, Possible, locals, database,
        Members
  <1>7. ExitInv(u)'
    BY <1>1
    DEF RoomInv, TypeInv, PlaceType, LocalType, UserInv, ExitInv, Outside, Commits, EntryPCs, locals, database
  <1>8. KeepsLock(u)
    BY DEF KeepsLock, Commits, RoomInv, TypeInv, PlaceType, locals
  <1> QED
    BY <1>1, <1>2, <1>3, <1>4, <1>5, <1>6, <1>7, <1>8, LocalStep DEF UserInv

LEMMA FindPasswordKeeps ==
  ASSUME RoomInv, NEW u \in Users, FindPassword(u)
  PROVE  RoomInv' /\ StepOf(u)
  <1> USE DEF FindPassword, Go, Return, Finish
  <1>1. UNCHANGED <<database, GroupNetworkSessions, clients, chat>>
    BY DEF clients, chat, locals
  <1>2. PlaceType'
    BY PlacesArePCs DEF RoomInv, TypeInv, PlaceType, locals
  <1>3. LocalType'
    BY RoomsAreRooms, RoomAssumption DEF RoomInv, TypeInv, LocalType, locals, Members
  <1>4. StepOf(u)
    BY <1>1
    DEF RoomInv, TypeInv, PlaceType, LocalType, ChatType, StepOf, SameUser, locals, chat,
        database
  <1>5. PlaceInv(u)'
    BY <1>1, RoomsAreRooms
    DEF RoomInv, TypeInv, PlaceType, LocalType, UserInv, PlaceInv, locals, chat,
        database, Away, Members
  <1>6. EntryInv(u)'
    BY <1>1
    DEF RoomInv, TypeInv, PlaceType, LocalType, UserInv, EntryInv, Possible, locals, database,
        Members
  <1>7. ExitInv(u)'
    BY <1>1
    DEF RoomInv, TypeInv, PlaceType, LocalType, UserInv, ExitInv, Outside, Commits, EntryPCs, locals, database
  <1>8. KeepsLock(u)
    BY DEF KeepsLock, Commits, RoomInv, TypeInv, PlaceType, locals
  <1> QED
    BY <1>1, <1>2, <1>3, <1>4, <1>5, <1>6, <1>7, <1>8, LocalStep DEF UserInv

LEMMA FindEntryKeeps ==
  ASSUME RoomInv, NEW u \in Users, FindEntry(u)
  PROVE  RoomInv' /\ StepOf(u)
  <1> USE DEF FindEntry, Go, Begins
  <1>0. room[u] \in Rooms
    BY RoomsAreRooms DEF RoomInv, TypeInv, UserInv, PlaceInv, Away
  <1>1. UNCHANGED <<database, GroupNetworkSessions, clients, chat>>
    BY DEF clients, chat, locals
  <1>2. PlaceType'
    BY PlacesArePCs DEF RoomInv, TypeInv, PlaceType, locals
  <1>3. LocalType'
    BY <1>0 DEF RoomInv, TypeInv, LocalType, GroupType
  <1>4. StepOf(u)
    BY <1>1
    DEF RoomInv, TypeInv, PlaceType, LocalType, ChatType, StepOf, SameUser, locals, chat,
        database
  <1>b. /\ pc'[u] \in {"SendEntry", "EntryGroup"}
        /\ room' = room /\ UNCHANGED chat
    BY DEF RoomInv, TypeInv, PlaceType, locals
  <1>5. PlaceInv(u)'
    BY <1>0, <1>b DEF RoomInv, UserInv, PlaceInv, Away, chat
  <1>6. EntryInv(u)'
    BY <1>1
    DEF RoomInv, TypeInv, PlaceType, LocalType, UserInv, EntryInv, Possible, locals, database,
        Members
  <1>7. ExitInv(u)'
    BY <1>1
    DEF RoomInv, TypeInv, PlaceType, LocalType, UserInv, ExitInv, Outside, Commits, EntryPCs, locals, database
  <1>8. KeepsLock(u)
    BY DEF KeepsLock, Commits, RoomInv, TypeInv, PlaceType, locals
  <1> QED
    BY <1>1, <1>2, <1>3, <1>4, <1>5, <1>6, <1>7, <1>8, LocalStep DEF UserInv

LEMMA SendEntryKeeps ==
  ASSUME RoomInv, NEW u \in Users, SendEntry(u)
  PROVE  RoomInv' /\ StepOf(u)
  <1> USE DEF SendEntry, Go, SendsTo, Ends
  <1>0. room[u] \in Rooms
    BY RoomsAreRooms DEF RoomInv, TypeInv, UserInv, PlaceInv, Away
  <1>1. UNCHANGED <<database, GroupNetworkSessions>>
    BY DEF locals
  <1>2. PlaceType'
    BY PlacesArePCs DEF RoomInv, TypeInv, PlaceType, locals
  <1>3. LocalType'
    <2>1. UNCHANGED <<room, found, result>>
      OBVIOUS
    <2>2. toReach' \in [Users -> SUBSET Users]
      BY DEF RoomInv, TypeInv, LocalType, GroupType
    <2> QED
      BY <2>1, <2>2 DEF RoomInv, TypeInv, LocalType
  <1>4. ClientType'
    <2>1. \/ \E w \in Users : members' = [members EXCEPT ![w][room[u]] = @ \cup {u}]
          \/ members' = members
      OBVIOUS
    <2>2. ASSUME NEW w \in Users, members' = [members EXCEPT ![w][room[u]] = @ \cup {u}]
          PROVE  members' \in [Users -> [Rooms -> SUBSET Users]]
      BY <1>0, <2>2, EntryGrows DEF RoomInv, TypeInv, ClientType
    <2> QED
      BY <1>1, <2>1, <2>2 DEF RoomInv, TypeInv, ClientType, database
  <1>5. ChatType'
    BY DEF RoomInv, TypeInv, ChatType, chat
  <1>6. StepOf(u)
    BY <1>1
    DEF RoomInv, TypeInv, PlaceType, LocalType, ChatType, StepOf, SameUser, chat,
        database
  <1>7. PlaceInv(u)'
    BY <1>1
    DEF RoomInv, TypeInv, PlaceType, LocalType, DatabaseType, ChatType, UserInv,
        PlaceInv, locals, chat, database, Away
  <1>8. EntryInv(u)'
    BY <1>1
    DEF RoomInv, TypeInv, PlaceType, LocalType, UserInv, EntryInv, Possible, locals, database,
        Members
  <1>9. ExitInv(u)'
    BY <1>1
    DEF RoomInv, TypeInv, PlaceType, LocalType, UserInv, ExitInv, Outside, Commits, EntryPCs, locals, database
  <1>10. KeepsLock(u)
    BY DEF KeepsLock, Commits, RoomInv, TypeInv, PlaceType, locals
  <1> QED
    BY <1>1, <1>2, <1>3, <1>4, <1>5, <1>6, <1>7, <1>8, <1>9, <1>10, QuietStep
    DEF UserInv

LEMMA RequireRoomInfoKeeps ==
  ASSUME RoomInv, NEW u \in Users, NEW q \in Rooms, RequireRoomInfo(u, q)
  PROVE  RoomInv' /\ StepOf(u)
  <1> USE DEF RequireRoomInfo, Receive, Go
  <1>1. UNCHANGED <<database, GroupNetworkSessions, clients, chat>>
    BY DEF clients, chat, locals
  <1>2. PlaceType'
    BY PlacesArePCs DEF RoomInv, TypeInv, PlaceType, locals
  <1>3. LocalType'
    BY RoomAssumption
    DEF RoomInv, TypeInv, LocalType, DatabaseType, GroupType, locals, Rooms
  <1>4. StepOf(u)
    BY <1>1
    DEF RoomInv, TypeInv, PlaceType, LocalType, ChatType, StepOf, SameUser, locals, chat,
        database
  <1>5. PlaceInv(u)'
    BY <1>1
    DEF RoomInv, TypeInv, PlaceType, LocalType, DatabaseType, ChatType, UserInv,
        PlaceInv, locals, chat, database, Away
  <1>6. EntryInv(u)'
    BY <1>1
    DEF RoomInv, TypeInv, PlaceType, LocalType, UserInv, EntryInv, Possible, locals, database,
        Members
  <1>7. ExitInv(u)'
    BY <1>1
    DEF RoomInv, TypeInv, PlaceType, LocalType, UserInv, ExitInv, Outside, Commits, EntryPCs, locals, database
  <1>8. KeepsLock(u)
    BY DEF KeepsLock, Commits, RoomInv, TypeInv, PlaceType, locals
  <1> QED
    BY <1>1, <1>2, <1>3, <1>4, <1>5, <1>6, <1>7, <1>8, LocalStep DEF UserInv

LEMMA FindAllMembersKeeps ==
  ASSUME RoomInv, NEW u \in Users, FindAllMembers(u)
  PROVE  RoomInv' /\ StepOf(u)
  <1> USE DEF FindAllMembers, Go
  <1>1. UNCHANGED <<database, GroupNetworkSessions, clients, chat>>
    BY DEF clients, chat, locals
  <1>2. PlaceType'
    BY PlacesArePCs DEF RoomInv, TypeInv, PlaceType, locals
  <1>3. LocalType'
    BY RoomsAreRooms, RoomAssumption DEF RoomInv, TypeInv, LocalType, locals, Members
  <1>4. StepOf(u)
    BY <1>1
    DEF RoomInv, TypeInv, PlaceType, LocalType, ChatType, StepOf, SameUser, locals, chat,
        database
  <1>5. PlaceInv(u)'
    BY <1>1, RoomsAreRooms
    DEF RoomInv, TypeInv, PlaceType, LocalType, UserInv, PlaceInv, locals, chat,
        database, Away, Members
  <1>6. EntryInv(u)'
    BY <1>1
    DEF RoomInv, TypeInv, PlaceType, LocalType, UserInv, EntryInv, Possible, locals, database,
        Members
  <1>7. ExitInv(u)'
    BY <1>1
    DEF RoomInv, TypeInv, PlaceType, LocalType, UserInv, ExitInv, Outside, Commits, EntryPCs, locals, database
  <1>8. KeepsLock(u)
    BY DEF KeepsLock, Commits, RoomInv, TypeInv, PlaceType, locals
  <1> QED
    BY <1>1, <1>2, <1>3, <1>4, <1>5, <1>6, <1>7, <1>8, LocalStep DEF UserInv

LEMMA SendInfoKeeps ==
  ASSUME RoomInv, NEW u \in Users, SendInfo(u)
  PROVE  RoomInv' /\ StepOf(u)
  <1> USE DEF SendInfo, Go
  <1>1. UNCHANGED <<database, GroupNetworkSessions>>
    BY DEF locals
  <1>2. PlaceType'
    BY PlacesArePCs DEF RoomInv, TypeInv, PlaceType, locals
  <1>3. LocalType'
    BY RoomAssumption
    DEF RoomInv, TypeInv, LocalType, DatabaseType, GroupType, locals, Rooms
  <1>4. ClientType'
    <2>1. room[u] \in Rooms
      BY RoomsAreRooms DEF RoomInv, TypeInv, UserInv, PlaceInv, Away
    <2>2. members' \in [Users -> [Rooms -> SUBSET Users]]
      BY <2>1 DEF RoomInv, TypeInv, ClientType, UserInv, PlaceInv
    <2> QED
      BY <1>1, <2>1, <2>2 DEF RoomInv, TypeInv, ClientType, database
  <1>5. ChatType'
    BY DEF RoomInv, TypeInv, ChatType, chat
  <1>6. StepOf(u)
    BY <1>1
    DEF RoomInv, TypeInv, PlaceType, LocalType, ChatType, StepOf, SameUser, locals, chat,
        database
  <1>7. PlaceInv(u)'
    BY <1>1
    DEF RoomInv, TypeInv, PlaceType, LocalType, DatabaseType, ChatType, UserInv,
        PlaceInv, locals, chat, database, Away
  <1>8. EntryInv(u)'
    BY <1>1
    DEF RoomInv, TypeInv, PlaceType, LocalType, UserInv, EntryInv, Possible, locals, database,
        Members
  <1>9. ExitInv(u)'
    BY <1>1
    DEF RoomInv, TypeInv, PlaceType, LocalType, UserInv, ExitInv, Outside, Commits, EntryPCs, locals, database
  <1>10. KeepsLock(u)
    BY DEF KeepsLock, Commits, RoomInv, TypeInv, PlaceType, locals
  <1> QED
    BY <1>1, <1>2, <1>3, <1>4, <1>5, <1>6, <1>7, <1>8, <1>9, <1>10, QuietStep
    DEF UserInv

LEMMA FindAllMessagesKeeps ==
  ASSUME RoomInv, NEW u \in Users, FindAllMessages(u)
  PROVE  RoomInv' /\ StepOf(u)
  <1>a. /\ UNCHANGED <<database, GroupNetworkSessions, clients, ChatMessage, lastMessage,
                         rest, history, dropped>>
        /\ pc[u] = "FindAllMessages"
        /\ \/ /\ packet' = [packet EXCEPT ![u] = ChatMessage[room[u]]]
              /\ Go(u, "SendMessages")
              /\ UNCHANGED <<locals, caughtUp>>
           \/ /\ Return(u)
              /\ UNCHANGED packet
              /\ caughtUp' \in {caughtUp, [caughtUp EXCEPT ![u] = @ \cup {room[u]}]}
    BY DEF FindAllMessages
  <1> USE <1>a DEF Go, Return, Finish
  <1>0. room[u] \in Rooms
    BY RoomsAreRooms DEF RoomInv, TypeInv, UserInv, PlaceInv, Away
  <1>1. UNCHANGED <<database, GroupNetworkSessions>>
    BY DEF locals
  <1>2. PlaceType'
    BY PlacesArePCs DEF RoomInv, TypeInv, PlaceType, locals
  <1>3. LocalType'
    BY RoomsAreRooms, RoomAssumption DEF RoomInv, TypeInv, LocalType, locals, Members
  <1>4. ClientType'
    BY <1>1 DEF RoomInv, TypeInv, ClientType, clients, database
  <1>5. ChatType'
    <2>1. packet' \in [Users -> SUBSET (1..lastMessage)]
      BY <1>0 DEF RoomInv, TypeInv, ChatType
    <2>2. caughtUp' \in [Users -> SUBSET Rooms]
      BY <1>0 DEF RoomInv, TypeInv, ChatType
    <2>3. rest[u] = {}
      BY DEF RoomInv, UserInv, PlaceInv
    <2> QED
      BY <2>1, <2>2, <2>3 DEF RoomInv, TypeInv, ChatType
  <1>6. StepOf(u)
    BY <1>1
    DEF RoomInv, TypeInv, PlaceType, LocalType, ChatType, StepOf, SameUser, locals,
        database
  <1>7. PlaceInv(u)'
    BY <1>1, RoomsAreRooms
    DEF RoomInv, TypeInv, PlaceType, LocalType, UserInv, PlaceInv, locals, database,
        Away, Members
  <1>8. EntryInv(u)'
    BY <1>1
    DEF RoomInv, TypeInv, PlaceType, LocalType, UserInv, EntryInv, Possible, locals, database,
        Members
  <1>9. ExitInv(u)'
    BY <1>1
    DEF RoomInv, TypeInv, PlaceType, LocalType, UserInv, ExitInv, Outside, Commits, EntryPCs, locals, database
  <1>10. KeepsLock(u)
    BY DEF KeepsLock, Commits, RoomInv, TypeInv, PlaceType, locals
  <1> QED
    BY <1>1, <1>2, <1>3, <1>4, <1>5, <1>6, <1>7, <1>8, <1>9, <1>10, QuietStep
    DEF UserInv

LEMMA SendMessagesKeeps ==
  ASSUME RoomInv, NEW u \in Users, SendMessages(u)
  PROVE  RoomInv' /\ StepOf(u)
  <1> USE DEF SendMessages, Go, Return, Finish
  <1>0. room[u] \in Rooms
    BY RoomsAreRooms DEF RoomInv, TypeInv, UserInv, PlaceInv, Away
  <1>1. UNCHANGED <<database, GroupNetworkSessions>>
    BY DEF locals
  <1>2. PlaceType'
    BY PlacesArePCs DEF RoomInv, TypeInv, PlaceType, locals
  <1>3. LocalType'
    BY RoomAssumption
    DEF RoomInv, TypeInv, LocalType, DatabaseType, GroupType, locals, Rooms
  <1>4. ClientType'
    BY <1>1 DEF RoomInv, TypeInv, ClientType, clients, database
  <1>5. ChatType'
    <2>1. history' \in [Users -> [Rooms -> SUBSET Messages]]
      BY <1>0, EntryGrows, MessagesKnownTo DEF RoomInv, TypeInv, ChatType
    <2>2. caughtUp' \in [Users -> SUBSET Rooms] /\ packet' \in [Users -> SUBSET 1..lastMessage]
      BY <1>0 DEF RoomInv, TypeInv, ChatType
    <2>3. packet'[u] = {} /\ rest[u] = {}
      BY <1>0 DEF RoomInv, TypeInv, ChatType, UserInv, PlaceInv
    <2>4. \A v \in Users \ {u} : packet'[v] = packet[v]
      BY DEF RoomInv, TypeInv, ChatType
    <2> QED
      BY <2>1, <2>2, <2>3, <2>4 DEF RoomInv, TypeInv, ChatType
  <1>6. StepOf(u)
    BY <1>1
    DEF RoomInv, TypeInv, PlaceType, LocalType, ChatType, StepOf, SameUser, locals,
        database
  <1>7. PlaceInv(u)'
    BY <1>1
    DEF RoomInv, TypeInv, PlaceType, LocalType, DatabaseType, ChatType, UserInv,
        PlaceInv, locals, chat, database, Away
  <1>8. EntryInv(u)'
    BY <1>1
    DEF RoomInv, TypeInv, PlaceType, LocalType, UserInv, EntryInv, Possible, locals, database,
        Members
  <1>9. ExitInv(u)'
    BY <1>1
    DEF RoomInv, TypeInv, PlaceType, LocalType, UserInv, ExitInv, Outside, Commits, EntryPCs, locals, database
  <1>10. KeepsLock(u)
    BY DEF KeepsLock, Commits, RoomInv, TypeInv, PlaceType, locals
  <1> QED
    BY <1>1, <1>2, <1>3, <1>4, <1>5, <1>6, <1>7, <1>8, <1>9, <1>10, QuietStep
    DEF UserInv

LEMMA SendMessageKeeps ==
  ASSUME RoomInv, NEW u \in Users, NEW q \in Rooms, SendMessage(u, q)
  PROVE  RoomInv' /\ StepOf(u)
  <1> USE DEF SendMessage, Receive, Go
  <1>1. UNCHANGED <<database, GroupNetworkSessions>>
    BY DEF locals
  <1>2. PlaceType'
    BY PlacesArePCs DEF RoomInv, TypeInv, PlaceType, locals
  <1>3. LocalType'
    BY RoomAssumption
    DEF RoomInv, TypeInv, LocalType, DatabaseType, GroupType, locals, Rooms
  <1>4. ClientType'
    BY <1>1 DEF RoomInv, TypeInv, ClientType, clients, database
  <1>5. ChatType'
    BY RoomAssumption
    DEF RoomInv, TypeInv, LocalType, ChatType, UserInv, PlaceInv, chat, Messages
  <1>6. StepOf(u)
    BY <1>1
    DEF RoomInv, TypeInv, PlaceType, LocalType, ChatType, StepOf, SameUser, locals, chat,
        database
  <1>7. PlaceInv(u)'
    BY <1>1
    DEF RoomInv, TypeInv, PlaceType, LocalType, DatabaseType, ChatType, UserInv,
        PlaceInv, locals, chat, database, Away
  <1>8. EntryInv(u)'
    BY <1>1
    DEF RoomInv, TypeInv, PlaceType, LocalType, UserInv, EntryInv, Possible, locals, database,
        Members
  <1>9. ExitInv(u)'
    BY <1>1
    DEF RoomInv, TypeInv, PlaceType, LocalType, UserInv, ExitInv, Outside, Commits, EntryPCs, locals, database
  <1>10. KeepsLock(u)
    BY DEF KeepsLock, Commits, RoomInv, TypeInv, PlaceType, locals
  <1> QED
    BY <1>1, <1>2, <1>3, <1>4, <1>5, <1>6, <1>7, <1>8, <1>9, <1>10, QuietStep
    DEF UserInv

LEMMA InsertMessageKeeps ==
  ASSUME RoomInv, NEW u \in Users, InsertMessage(u)
  PROVE  RoomInv' /\ StepOf(u)
  <1> USE DEF InsertMessage, Stores, Drops, Go, Begins
  <1>0. room[u] \in Rooms
    BY RoomsAreRooms DEF RoomInv, TypeInv, UserInv, PlaceInv, Away
  <1>1. UNCHANGED <<database, GroupNetworkSessions>>
    BY DEF locals
  <1>2. PlaceType'
    BY PlacesArePCs DEF RoomInv, TypeInv, PlaceType, locals
  <1>3. LocalType'
    BY <1>0 DEF RoomInv, TypeInv, LocalType, GroupType
  <1>4. ClientType'
    BY <1>1 DEF RoomInv, TypeInv, ClientType, clients, database
  <1>5. ChatType'
    <2>1. PICK m \in rest[u] :
            /\ ChatMessage' \in {ChatMessage, [ChatMessage EXCEPT ![room[u]] = @ \cup {m}]}
            /\ rest' = [rest EXCEPT ![u] = @ \ {m}]
      OBVIOUS
    <2>2. m \in 1..lastMessage
      BY DEF RoomInv, TypeInv, ChatType
    <2>3. ChatMessage' \in [Rooms -> SUBSET (1..lastMessage)]
      BY <1>0, <2>1, <2>2 DEF RoomInv, TypeInv, ChatType
    <2> QED
      BY <2>1, <2>3 DEF RoomInv, TypeInv, ChatType
  <1>6. StepOf(u)
    BY <1>1
    DEF RoomInv, TypeInv, PlaceType, LocalType, ChatType, StepOf, SameUser, locals, chat,
        database
  <1>7. PlaceInv(u)'
    BY <1>1
    DEF RoomInv, TypeInv, PlaceType, LocalType, DatabaseType, ChatType, UserInv,
        PlaceInv, locals, chat, database, Away
  <1>8. EntryInv(u)'
    BY <1>1
    DEF RoomInv, TypeInv, PlaceType, LocalType, UserInv, EntryInv, Possible, locals, database,
        Members
  <1>9. ExitInv(u)'
    BY <1>1
    DEF RoomInv, TypeInv, PlaceType, LocalType, UserInv, ExitInv, Outside, Commits, EntryPCs, locals, database
  <1>10. KeepsLock(u)
    BY DEF KeepsLock, Commits, RoomInv, TypeInv, PlaceType, locals
  <1> QED
    BY <1>1, <1>2, <1>3, <1>4, <1>5, <1>6, <1>7, <1>8, <1>9, <1>10, QuietStep
    DEF UserInv

LEMMA GroupBroadcastKeeps ==
  ASSUME RoomInv, NEW u \in Users, GroupBroadcast(u)
  PROVE  RoomInv' /\ StepOf(u)
  <1> USE DEF GroupBroadcast, Go, Finish, SendsTo, Ends
  <1>0. room[u] \in Rooms
    BY RoomsAreRooms DEF RoomInv, TypeInv, UserInv, PlaceInv, Away
  <1>1. UNCHANGED <<database, GroupNetworkSessions>>
    BY DEF locals
  <1>2. PlaceType'
    BY PlacesArePCs DEF RoomInv, TypeInv, PlaceType, locals
  <1>3. LocalType'
    <2>1. room' \in [Users -> 0..MaxRoom] /\ found' \in [Users -> SUBSET (Users \cup Rooms)] /\ result' \subseteq Users
      BY RoomAssumption DEF RoomInv, TypeInv, LocalType
    <2>2. toReach' \in [Users -> SUBSET Users]
      BY DEF RoomInv, TypeInv, LocalType, GroupType
    <2> QED
      BY <2>1, <2>2 DEF RoomInv, TypeInv, LocalType
  <1>4. ClientType'
    BY <1>1 DEF RoomInv, TypeInv, ClientType, clients, database
  <1>5. ChatType'
    <2>1. \/ \E w \in Users : history' = [history EXCEPT ![w][room[u]] = @ \cup packet[u]]
          \/ history' = history
      OBVIOUS
    <2>2. ASSUME NEW w \in Users, history' = [history EXCEPT ![w][room[u]] = @ \cup packet[u]]
          PROVE  history' \in [Users -> [Rooms -> SUBSET Messages]]
      <3>1. packet[u] \in SUBSET Messages
        BY MessagesKnownTo DEF RoomInv, TypeInv
      <3> QED
        BY <1>0, <2>2, <3>1, EntryGrows DEF RoomInv, TypeInv, ChatType
    <2> QED
      BY <2>1, <2>2 DEF RoomInv, TypeInv, ChatType, UserInv, PlaceInv
  <1>6. StepOf(u)
    BY <1>1
    DEF RoomInv, TypeInv, PlaceType, LocalType, ChatType, StepOf, SameUser, locals, chat,
        database
  <1>7. PlaceInv(u)'
    BY <1>1
    DEF RoomInv, TypeInv, PlaceType, LocalType, DatabaseType, ChatType, UserInv,
        PlaceInv, locals, chat, database, Away
  <1>8. EntryInv(u)'
    BY <1>1
    DEF RoomInv, TypeInv, PlaceType, LocalType, UserInv, EntryInv, Possible, locals, database,
        Members
  <1>9. ExitInv(u)'
    BY <1>1
    DEF RoomInv, TypeInv, PlaceType, LocalType, UserInv, ExitInv, Outside, Commits, EntryPCs, locals, database
  <1>10. KeepsLock(u)
    BY DEF KeepsLock, Commits, RoomInv, TypeInv, PlaceType, locals
  <1> QED
    BY <1>1, <1>2, <1>3, <1>4, <1>5, <1>6, <1>7, <1>8, <1>9, <1>10, QuietStep
    DEF UserInv

LEMMA ExitRoomKeeps ==
  ASSUME RoomInv, NEW u \in Users, NEW q \in Rooms, ExitRoom(u, q)
  PROVE  RoomInv' /\ StepOf(u)
  <1> USE DEF ExitRoom, Receive, Go
  <1>1. UNCHANGED <<database, GroupNetworkSessions, clients, chat>>
    BY DEF clients, chat, locals
  <1>2. PlaceType'
    BY PlacesArePCs DEF RoomInv, TypeInv, PlaceType, locals
  <1>3. LocalType'
    BY RoomAssumption
    DEF RoomInv, TypeInv, LocalType, DatabaseType, GroupType, locals, Rooms
  <1>4. StepOf(u)
    BY <1>1
    DEF RoomInv, TypeInv, PlaceType, LocalType, ChatType, StepOf, SameUser, locals, chat,
        database
  <1>5. PlaceInv(u)'
    BY <1>1
    DEF RoomInv, TypeInv, PlaceType, LocalType, DatabaseType, ChatType, UserInv,
        PlaceInv, locals, chat, database, Away
  <1>6. EntryInv(u)'
    BY <1>1
    DEF RoomInv, TypeInv, PlaceType, LocalType, UserInv, EntryInv, Possible, locals, database,
        Members
  <1>7. ExitInv(u)'
    BY <1>1
    DEF RoomInv, TypeInv, PlaceType, LocalType, UserInv, ExitInv, Outside, Commits, EntryPCs, locals, database
  <1>8. KeepsLock(u)
    BY DEF KeepsLock, Commits, RoomInv, TypeInv, PlaceType, locals
  <1> QED
    BY <1>1, <1>2, <1>3, <1>4, <1>5, <1>6, <1>7, <1>8, LocalStep DEF UserInv

LEMMA FindExitKeeps ==
  ASSUME RoomInv, NEW u \in Users, FindExit(u)
  PROVE  RoomInv' /\ StepOf(u)
  <1> USE DEF FindExit, Go, Begins
  <1>0. room[u] \in Rooms
    BY RoomsAreRooms DEF RoomInv, TypeInv, UserInv, PlaceInv, Away
  <1>1. UNCHANGED <<database, GroupNetworkSessions, clients, chat>>
    BY DEF clients, chat, locals
  <1>2. PlaceType'
    BY PlacesArePCs DEF RoomInv, TypeInv, PlaceType, locals
  <1>3. LocalType'
    BY <1>0 DEF RoomInv, TypeInv, LocalType, GroupType
  <1>4. StepOf(u)
    BY <1>1
    DEF RoomInv, TypeInv, PlaceType, LocalType, ChatType, StepOf, SameUser, locals, chat,
        database
  <1>b. /\ pc'[u] \in {"SendExit", "ExitGroup"}
        /\ room' = room /\ UNCHANGED chat
    BY DEF RoomInv, TypeInv, PlaceType, locals
  <1>5. PlaceInv(u)'
    BY <1>0, <1>b DEF RoomInv, UserInv, PlaceInv, Away, chat
  <1>6. EntryInv(u)'
    BY <1>1
    DEF RoomInv, TypeInv, PlaceType, LocalType, UserInv, EntryInv, Possible, locals, database,
        Members
  <1>7. ExitInv(u)'
    BY <1>1
    DEF RoomInv, TypeInv, PlaceType, LocalType, UserInv, ExitInv, Outside, Commits, EntryPCs, locals, database
  <1>8. KeepsLock(u)
    BY DEF KeepsLock, Commits, RoomInv, TypeInv, PlaceType, locals
  <1> QED
    BY <1>1, <1>2, <1>3, <1>4, <1>5, <1>6, <1>7, <1>8, LocalStep DEF UserInv

LEMMA SendExitKeeps ==
  ASSUME RoomInv, NEW u \in Users, SendExit(u)
  PROVE  RoomInv' /\ StepOf(u)
  <1> USE DEF SendExit, Go, SendsTo, Ends
  <1>0. room[u] \in Rooms
    BY RoomsAreRooms DEF RoomInv, TypeInv, UserInv, PlaceInv, Away
  <1>1. UNCHANGED <<database, GroupNetworkSessions>>
    BY DEF locals
  <1>2. PlaceType'
    BY PlacesArePCs DEF RoomInv, TypeInv, PlaceType, locals
  <1>3. LocalType'
    <2>1. UNCHANGED <<room, found, result>>
      OBVIOUS
    <2>2. toReach' \in [Users -> SUBSET Users]
      BY DEF RoomInv, TypeInv, LocalType, GroupType
    <2> QED
      BY <2>1, <2>2 DEF RoomInv, TypeInv, LocalType
  <1>4. ClientType'
    <2>1. \/ \E w \in Users : members' = [members EXCEPT ![w][room[u]] = @ \ {u}]
          \/ members' = members
      OBVIOUS
    <2>2. ASSUME NEW w \in Users, members' = [members EXCEPT ![w][room[u]] = @ \ {u}]
          PROVE  members' \in [Users -> [Rooms -> SUBSET Users]]
      BY <1>0, <2>2, EntryShrinks DEF RoomInv, TypeInv, ClientType
    <2> QED
      BY <1>1, <2>1, <2>2 DEF RoomInv, TypeInv, ClientType, database
  <1>5. ChatType'
    BY DEF RoomInv, TypeInv, ChatType, chat
  <1>6. StepOf(u)
    BY <1>1
    DEF RoomInv, TypeInv, PlaceType, LocalType, ChatType, StepOf, SameUser, chat,
        database
  <1>7. PlaceInv(u)'
    BY <1>1
    DEF RoomInv, TypeInv, PlaceType, LocalType, DatabaseType, ChatType, UserInv,
        PlaceInv, locals, chat, database, Away
  <1>8. EntryInv(u)'
    BY <1>1
    DEF RoomInv, TypeInv, PlaceType, LocalType, UserInv, EntryInv, Possible, locals, database,
        Members
  <1>9. ExitInv(u)'
    BY <1>1
    DEF RoomInv, TypeInv, PlaceType, LocalType, UserInv, ExitInv, Outside, Commits, EntryPCs, locals, database
  <1>10. KeepsLock(u)
    BY DEF KeepsLock, Commits, RoomInv, TypeInv, PlaceType, locals
  <1> QED
    BY <1>1, <1>2, <1>3, <1>4, <1>5, <1>6, <1>7, <1>8, <1>9, <1>10, QuietStep
    DEF UserInv

LEMMA CountByRoomMemberKeeps ==
  ASSUME RoomInv, NEW u \in Users, CountByRoomMember(u)
  PROVE  RoomInv' /\ StepOf(u)
  <1> USE DEF CountByRoomMember, Go
  <1>1. UNCHANGED <<database, GroupNetworkSessions, clients, chat>>
    BY DEF clients, chat, locals
  <1>2. PlaceType'
    BY PlacesArePCs DEF RoomInv, TypeInv, PlaceType, locals
  <1>3. LocalType'
    BY RoomAssumption
    DEF RoomInv, TypeInv, LocalType, DatabaseType, GroupType, locals, Rooms
  <1>4. StepOf(u)
    BY <1>1
    DEF RoomInv, TypeInv, PlaceType, LocalType, ChatType, StepOf, SameUser, locals, chat,
        database
  <1>5. PlaceInv(u)'
    BY <1>1
    DEF RoomInv, TypeInv, PlaceType, LocalType, DatabaseType, ChatType, UserInv,
        PlaceInv, locals, chat, database, Away
  <1>6. EntryInv(u)'
    BY <1>1
    DEF RoomInv, TypeInv, PlaceType, LocalType, UserInv, EntryInv, Possible, locals, database,
        Members
  <1>b. OneRow(room[u]) => room[u] \in 1..lastRoom
    BY DEF RoomInv, RowsCreated, OneRow, UserInv, PlaceInv, Away
  <1>7. ExitInv(u)'
    BY <1>1, <1>b
    DEF RoomInv, TypeInv, PlaceType, LocalType, UserInv, ExitInv, Outside, Commits, EntryPCs, locals, database
  <1>8. KeepsLock(u)
    BY DEF KeepsLock, Commits, RoomInv, TypeInv, PlaceType, locals
  <1> QED
    BY <1>1, <1>2, <1>3, <1>4, <1>5, <1>6, <1>7, <1>8, LocalStep DEF UserInv

LEMMA CountFailsKeeps ==
  ASSUME RoomInv, NEW u \in Users, CountFails(u)
  PROVE  RoomInv' /\ StepOf(u)
  <1> USE DEF CountFails, Go, Return, Finish
  <1>1. UNCHANGED <<database, GroupNetworkSessions, clients, chat>>
    BY DEF clients, chat, locals
  <1>2. PlaceType'
    BY PlacesArePCs DEF RoomInv, TypeInv, PlaceType, locals
  <1>3. LocalType'
    BY RoomsAreRooms, RoomAssumption DEF RoomInv, TypeInv, LocalType, locals, Members
  <1>4. StepOf(u)
    BY <1>1
    DEF RoomInv, TypeInv, PlaceType, LocalType, ChatType, StepOf, SameUser, locals, chat,
        database
  <1>5. PlaceInv(u)'
    BY <1>1, RoomsAreRooms
    DEF RoomInv, TypeInv, PlaceType, LocalType, UserInv, PlaceInv, locals, chat,
        database, Away, Members
  <1>6. EntryInv(u)'
    BY <1>1
    DEF RoomInv, TypeInv, PlaceType, LocalType, UserInv, EntryInv, Possible, locals, database,
        Members
  <1>7. ExitInv(u)'
    BY <1>1
    DEF RoomInv, TypeInv, PlaceType, LocalType, UserInv, ExitInv, Outside, Commits, EntryPCs, locals, database
  <1>8. KeepsLock(u)
    BY DEF KeepsLock, Commits, RoomInv, TypeInv, PlaceType, locals
  <1> QED
    BY <1>1, <1>2, <1>3, <1>4, <1>5, <1>6, <1>7, <1>8, LocalStep DEF UserInv

LEMMA DestroyFailsKeeps ==
  ASSUME RoomInv, NEW u \in Users, DestroyFails(u)
  PROVE  RoomInv' /\ StepOf(u)
  <1> USE DEF DestroyFails, Go
  <1>1. UNCHANGED <<database, GroupNetworkSessions, clients, chat>>
    BY DEF clients, chat, locals
  <1>2. PlaceType'
    BY PlacesArePCs DEF RoomInv, TypeInv, PlaceType, locals
  <1>3. LocalType'
    BY RoomAssumption
    DEF RoomInv, TypeInv, LocalType, DatabaseType, GroupType, locals, Rooms
  <1>4. StepOf(u)
    BY <1>1
    DEF RoomInv, TypeInv, PlaceType, LocalType, ChatType, StepOf, SameUser, locals, chat,
        database
  <1>5. PlaceInv(u)'
    BY <1>1
    DEF RoomInv, TypeInv, PlaceType, LocalType, DatabaseType, ChatType, UserInv,
        PlaceInv, locals, chat, database, Away
  <1>6. EntryInv(u)'
    BY <1>1
    DEF RoomInv, TypeInv, PlaceType, LocalType, UserInv, EntryInv, Possible, locals, database,
        Members
  <1>7. ExitInv(u)'
    BY <1>1
    DEF RoomInv, TypeInv, PlaceType, LocalType, UserInv, ExitInv, Outside, Commits, EntryPCs, locals, database
  <1>8. KeepsLock(u)
    BY DEF KeepsLock, Commits, RoomInv, TypeInv, PlaceType, locals
  <1> QED
    BY <1>1, <1>2, <1>3, <1>4, <1>5, <1>6, <1>7, <1>8, LocalStep DEF UserInv

LEMMA DeleteRoomMemberKeeps ==
  ASSUME RoomInv, NEW u \in Users, DeleteRoomMember(u)
  PROVE  RoomInv' /\ StepOf(u)
  <1> USE DEF DeleteRoomMember, Go
  <1>1. UNCHANGED <<database, GroupNetworkSessions, clients, chat>>
    BY DEF clients, chat, locals
  <1>2. PlaceType'
    BY PlacesArePCs DEF RoomInv, TypeInv, PlaceType, locals
  <1>3. LocalType'
    BY RoomAssumption
    DEF RoomInv, TypeInv, LocalType, DatabaseType, GroupType, locals, Rooms
  <1>4. StepOf(u)
    BY <1>1
    DEF RoomInv, TypeInv, PlaceType, LocalType, ChatType, StepOf, SameUser, locals, chat,
        database
  <1>5. PlaceInv(u)'
    BY <1>1
    DEF RoomInv, TypeInv, PlaceType, LocalType, DatabaseType, ChatType, UserInv,
        PlaceInv, locals, chat, database, Away
  <1>6. EntryInv(u)'
    BY <1>1
    DEF RoomInv, TypeInv, PlaceType, LocalType, UserInv, EntryInv, Possible, locals, database,
        Members
  <1>7. ExitInv(u)'
    BY <1>1
    DEF RoomInv, TypeInv, PlaceType, LocalType, UserInv, ExitInv, Outside, Commits, EntryPCs, locals, database
  <1>8. KeepsLock(u)
    BY DEF KeepsLock, Commits, RoomInv, TypeInv, PlaceType, locals
  <1> QED
    BY <1>1, <1>2, <1>3, <1>4, <1>5, <1>6, <1>7, <1>8, LocalStep DEF UserInv

LEMMA BroadcastRemovedKeeps ==
  ASSUME RoomInv, NEW u \in Users, BroadcastRemoved(u)
  PROVE  RoomInv' /\ StepOf(u)
  <1> USE DEF BroadcastRemoved, Go, Return, Finish
  <1>1. UNCHANGED <<database, GroupNetworkSessions>>
    BY DEF locals
  <1>2. PlaceType'
    BY PlacesArePCs DEF RoomInv, TypeInv, PlaceType, locals
  <1>3. LocalType'
    BY RoomAssumption
    DEF RoomInv, TypeInv, LocalType, DatabaseType, GroupType, locals, Rooms
  <1>4. ClientType'
    BY RoomAssumption
    DEF RoomInv, TypeInv, LocalType, DatabaseType, ClientType, UserInv, PlaceInv,
        clients, database, Rooms, Away
  <1>5. ChatType'
    BY DEF RoomInv, TypeInv, ChatType, chat
  <1>6. StepOf(u)
    BY <1>1
    DEF RoomInv, TypeInv, PlaceType, LocalType, ChatType, StepOf, SameUser, locals, chat,
        database
  <1>7. PlaceInv(u)'
    BY <1>1
    DEF RoomInv, TypeInv, PlaceType, LocalType, DatabaseType, ChatType, UserInv,
        PlaceInv, locals, chat, database, Away
  <1>8. EntryInv(u)'
    BY <1>1
    DEF RoomInv, TypeInv, PlaceType, LocalType, UserInv, EntryInv, Possible, locals, database,
        Members
  <1>9. ExitInv(u)'
    BY <1>1
    DEF RoomInv, TypeInv, PlaceType, LocalType, UserInv, ExitInv, Outside, Commits, EntryPCs, locals, database
  <1>10. KeepsLock(u)
    BY DEF KeepsLock, Commits, RoomInv, TypeInv, PlaceType, locals
  <1> QED
    BY <1>1, <1>2, <1>3, <1>4, <1>5, <1>6, <1>7, <1>8, <1>9, <1>10, QuietStep
    DEF UserInv

-----------------------------------------------------------------------------
(* The steps that change them.                                             *)

LEMMA InsertChattingRoomKeeps ==
  ASSUME RoomInv, NEW u \in Users, InsertChattingRoom(u)
  PROVE  RoomInv' /\ StepOf(u)
  <1> USE RoomAssumption DEF InsertChattingRoom, Go
  <1>1. /\ lastRoom' = lastRoom + 1 /\ lastRoom' \in 1..MaxRoom /\ lastRoom \in Nat
        /\ 1..lastRoom \subseteq 1..lastRoom' /\ lastRoom' \notin 1..lastRoom
    BY DEF RoomInv, TypeInv, DatabaseType
  <1>2. DatabaseType'
    BY <1>1 DEF RoomInv, TypeInv, DatabaseType
  <1>3. PlaceType' /\ LocalType'
    BY <1>1, PlacesArePCs DEF RoomInv, TypeInv, PlaceType, LocalType
  <1>4. GroupType' /\ ClientType' /\ ChatType'
    BY <1>1 DEF RoomInv, TypeInv, GroupType, ClientType, ChatType, clients, chat
  <1>5. LockInv'
    BY DEF RoomInv, TypeInv, PlaceType, LocalType, LockInv, Commits
  <1>6. RowsCreated'
    BY <1>1 DEF RoomInv, RowsCreated
  <1>p. ASSUME NEW r, Possible(r)' PROVE Possible(r)
    BY <1>1, <1>p DEF RoomInv, TypeInv, DatabaseType, Possible
  <1>7. GroupsHold'
    BY <1>p DEF RoomInv, GroupsHold, Members
  <1>8. UserInv(u)'
    <2>1. PlaceInv(u)'
      BY <1>1
      DEF RoomInv, TypeInv, PlaceType, LocalType, UserInv, PlaceInv, Away, Rooms, chat
    <2>2. EntryInv(u)'
      BY DEF RoomInv, TypeInv, PlaceType, UserInv, EntryInv
    <2>3. ExitInv(u)'
      BY DEF RoomInv, TypeInv, PlaceType, UserInv, ExitInv, Outside, Commits, EntryPCs
    <2> QED
      BY <2>1, <2>2, <2>3 DEF UserInv
  <1>9. StepOf(u)
    BY DEF RoomInv, TypeInv, PlaceType, LocalType, StepOf, SameUser, chat
  <1>10. ASSUME NEW v \in Users \ {u} PROVE UserInv(v)'
    <2>1. pc[v] \notin Away => SteadyRoom(v, room[v])
      BY <1>1, <1>p DEF RoomInv, SteadyRoom, Possible
    <2> QED
      BY <1>1, <1>9, <2>1, OthersKeep DEF RoomInv, StepOf
  <1> QED
    BY <1>2, <1>3, <1>4, <1>5, <1>6, <1>7, <1>8, <1>9, <1>10 DEF RoomInv, TypeInv

LEMMA CloseSocketKeeps ==
  ASSUME RoomInv, NEW u \in Users, CloseSocket(u)
  PROVE  RoomInv' /\ StepOf(u)
  <1> USE DEF CloseSocket, Go, Leaves
  <1>1. PlaceType'
    BY PlacesArePCs DEF RoomInv, TypeInv, PlaceType
  <1>2. LocalType'
    BY RoomAssumption DEF RoomInv, TypeInv, LocalType, GroupType
  <1>3. DatabaseType'
    BY RoomAssumption DEF RoomInv, TypeInv, DatabaseType, UserInv, EntryInv, database
  <1>4. GroupType'
    BY DEF RoomInv, TypeInv, GroupType
  <1>5. ClientType'
    BY RoomAssumption DEF RoomInv, TypeInv, DatabaseType, ClientType, database
  <1>6. ChatType'
    BY DEF RoomInv, TypeInv, ChatType, UserInv, PlaceInv
  <1>7. LockInv'
    BY RoomAssumption
    DEF RoomInv, TypeInv, PlaceType, LocalType, DatabaseType, LockInv, Commits, locals,
        database
  <1>8. RowsCreated'
    BY DEF RoomInv, RowsCreated
  <1>9. GroupsHold'
    BY RoomsAreRooms
    DEF RoomInv, TypeInv, GroupType, DatabaseType, GroupsHold, Possible, Members, UserInv,
        EntryInv, ExitInv, Outside, EntryPCs, database
  <1>10. UserInv(u)'
    <2>1. PlaceInv(u)'
      BY DEF RoomInv, TypeInv, PlaceType, LocalType, ChatType, UserInv, PlaceInv, Away,
             locals, database
    <2>2. EntryInv(u)'
      BY DEF RoomInv, TypeInv, PlaceType, LocalType, DatabaseType, UserInv, EntryInv, Possible,
         locals, database
    <2>3. ExitInv(u)'
      BY RoomsAreRooms
      DEF RoomInv, TypeInv, PlaceType, LocalType, DatabaseType, GroupType, UserInv,
          ExitInv, Outside, Commits, EntryPCs, locals, database
    <2> QED
      BY <2>1, <2>2, <2>3 DEF UserInv
  <1>11. StepOf(u)
    BY DEF RoomInv, TypeInv, PlaceType, LocalType, ChatType, StepOf, SameUser, locals,
       chat, database
  <1>12. ASSUME NEW v \in Users \ {u} PROVE UserInv(v)'
    <2>0. pc[v] \notin Away => room[v] \in Rooms
      BY RoomsAreRooms DEF RoomInv, TypeInv, UserInv, PlaceInv
    <2>1. pc[v] \notin Away => SteadyRoom(v, room[v])
      BY <2>0, RoomAssumption
      DEF RoomInv, TypeInv, DatabaseType, GroupType, SteadyRoom, Possible, database
    <2> QED
      BY <1>11, <2>1, OthersKeep DEF RoomInv, StepOf, database
  <1> QED
    BY <1>1, <1>2, <1>3, <1>4, <1>5, <1>6, <1>7, <1>8, <1>9, <1>10, <1>11, <1>12
    DEF RoomInv, TypeInv

LEMMA InsertRoomMemberKeeps ==
  ASSUME RoomInv, NEW u \in Users, InsertRoomMember(u)
  PROVE  RoomInv' /\ StepOf(u)
  <1> USE DEF InsertRoomMember, Go, ShareLockable
  <1>0. room[u] \in Rooms
    BY RoomsAreRooms DEF RoomInv, TypeInv, UserInv, PlaceInv, Away
  <1>1. PlaceType'
    BY PlacesArePCs DEF RoomInv, TypeInv, PlaceType
  <1>2. LocalType'
    BY <1>0, RoomAssumption DEF RoomInv, TypeInv, LocalType, GroupType, locals
  <1>3. DatabaseType'
    BY <1>0, RoomAssumption DEF RoomInv, TypeInv, DatabaseType, UserInv, EntryInv
  <1>4. GroupType'
    BY <1>0 DEF RoomInv, TypeInv, GroupType
  <1>5. ClientType'
    BY <1>0, RoomAssumption
    DEF RoomInv, TypeInv, DatabaseType, ClientType, clients, database
  <1>6. ChatType'
    BY <1>0 DEF RoomInv, TypeInv, ChatType, UserInv, PlaceInv, chat
  <1>7. LockInv'
    BY RoomAssumption
    DEF RoomInv, TypeInv, PlaceType, LocalType, DatabaseType, LockInv, Commits, locals,
        database
  <1>8. RowsCreated'
    BY <1>0 DEF RoomInv, TypeInv, DatabaseType, RowsCreated, UserInv, EntryInv, database
  <1>a. /\ UNCHANGED <<chattingroom, RoomMember, lastRoom, destroyer, undone>>
        /\ UNCHANGED GroupNetworkSessions
        /\ \/ unstored' = [unstored EXCEPT ![room[u]] = @ \cup {u}]
           \/ unstored' = [unstored EXCEPT ![room[u]] = @ \ {u}]
    OBVIOUS
  <1>b. u \notin GroupNetworkSessions[room[u]]
    BY DEF RoomInv, UserInv, ExitInv, Outside, EntryPCs
  <1>c. \A r \in Rooms : \A v \in Users : v # u \/ r # room[u] =>
          (v \in unstored'[r] <=> v \in unstored[r])
    BY <1>0, <1>a DEF RoomInv, TypeInv, DatabaseType
  <1>9. GroupsHold'
    <2> SUFFICES ASSUME NEW r \in Rooms, Possible(r)', NEW v \in GroupNetworkSessions'[r]
                 PROVE  v \in Users /\ (RoomMember'[r][v] > 0 \/ v \in unstored'[r])
      BY DEF GroupsHold, Members
    <2>1. Possible(r) /\ v \in Users /\ v \in GroupNetworkSessions[r]
      BY <1>a DEF RoomInv, TypeInv, GroupType, Possible
    <2>2. RoomMember[r][v] > 0 \/ v \in unstored[r]
      BY <2>1 DEF RoomInv, GroupsHold, Members
    <2>3. v # u \/ r # room[u]
      BY <1>b, <2>1
    <2> QED
      BY <1>a, <1>c, <2>1, <2>2, <2>3
  <1>10. UserInv(u)'
    <2>1. PlaceInv(u)'
      BY <1>0
      DEF RoomInv, TypeInv, PlaceType, LocalType, ChatType, UserInv, PlaceInv, Away,
          locals, chat, database
    <2>2. EntryInv(u)'
      BY <1>0
      DEF RoomInv, TypeInv, PlaceType, LocalType, DatabaseType, UserInv, EntryInv, Possible,
          locals, database
    <2>3. ExitInv(u)'
      BY <1>0, RoomsAreRooms
      DEF RoomInv, TypeInv, PlaceType, LocalType, DatabaseType, GroupType, UserInv,
          ExitInv, Outside, Commits, EntryPCs, locals, database
    <2> QED
      BY <2>1, <2>2, <2>3 DEF UserInv
  <1>11. StepOf(u)
    BY DEF RoomInv, TypeInv, PlaceType, LocalType, ChatType, StepOf, SameUser, locals,
       chat, database
  <1>12. ASSUME NEW v \in Users \ {u} PROVE UserInv(v)'
    <2>0. pc[v] \notin Away => room[v] \in Rooms
      BY RoomsAreRooms DEF RoomInv, TypeInv, UserInv, PlaceInv
    <2>1. pc[v] \notin Away => SteadyRoom(v, room[v])
      BY <1>a, <1>c, <2>0 DEF SteadyRoom, Possible
    <2> QED
      BY <1>11, <2>1, OthersKeep DEF RoomInv, StepOf, database
  <1> QED
    BY <1>1, <1>2, <1>3, <1>4, <1>5, <1>6, <1>7, <1>8, <1>9, <1>10, <1>11, <1>12
    DEF RoomInv, TypeInv

LEMMA CommitEntryKeeps ==
  ASSUME RoomInv, NEW u \in Users, CommitEntry(u)
  PROVE  RoomInv' /\ StepOf(u)
  <1> USE DEF CommitEntry, Go
  <1>0. room[u] \in Rooms
    BY RoomsAreRooms DEF RoomInv, TypeInv, UserInv, PlaceInv, Away
  <1>1. PlaceType'
    BY PlacesArePCs DEF RoomInv, TypeInv, PlaceType
  <1>2. LocalType'
    BY <1>0, RoomAssumption DEF RoomInv, TypeInv, LocalType, GroupType, locals
  <1>3. DatabaseType'
    BY <1>0, RoomAssumption DEF RoomInv, TypeInv, DatabaseType, UserInv, EntryInv
  <1>4. GroupType'
    BY <1>0 DEF RoomInv, TypeInv, GroupType
  <1>5. ClientType'
    BY <1>0, RoomAssumption
    DEF RoomInv, TypeInv, DatabaseType, ClientType, clients, database
  <1>6. ChatType'
    BY <1>0 DEF RoomInv, TypeInv, ChatType, UserInv, PlaceInv, chat
  <1>7. LockInv'
    BY RoomAssumption
    DEF RoomInv, TypeInv, PlaceType, LocalType, DatabaseType, LockInv, Commits, locals,
        database
  <1>8. RowsCreated'
    BY <1>0 DEF RoomInv, TypeInv, DatabaseType, RowsCreated, UserInv, EntryInv, database
  <1>9. GroupsHold'
    BY <1>0, RoomsAreRooms
    DEF RoomInv, TypeInv, GroupType, DatabaseType, GroupsHold, Possible, Members, UserInv,
        EntryInv, ExitInv, Outside, EntryPCs, database
  <1>10. UserInv(u)'
    <2>1. PlaceInv(u)'
      BY <1>0
      DEF RoomInv, TypeInv, PlaceType, LocalType, ChatType, UserInv, PlaceInv, Away,
          locals, chat, database
    <2>2. EntryInv(u)'
      BY <1>0
      DEF RoomInv, TypeInv, PlaceType, LocalType, DatabaseType, UserInv, EntryInv, Possible,
          locals, database
    <2>3. ExitInv(u)'
      BY <1>0, RoomsAreRooms
      DEF RoomInv, TypeInv, PlaceType, LocalType, DatabaseType, GroupType, UserInv,
          ExitInv, Outside, Commits, EntryPCs, locals, database
    <2> QED
      BY <2>1, <2>2, <2>3 DEF UserInv
  <1>11. StepOf(u)
    BY DEF RoomInv, TypeInv, PlaceType, LocalType, ChatType, StepOf, SameUser, locals,
       chat, database
  <1>12. ASSUME NEW v \in Users \ {u} PROVE UserInv(v)'
    <2>0. pc[v] \notin Away => room[v] \in Rooms
      BY RoomsAreRooms DEF RoomInv, TypeInv, UserInv, PlaceInv
    <2>1. pc[v] \notin Away => SteadyRoom(v, room[v])
      BY <1>0, <2>0, RoomAssumption
      DEF RoomInv, TypeInv, DatabaseType, GroupType, SteadyRoom, Possible, database
    <2> QED
      BY <1>11, <2>1, OthersKeep DEF RoomInv, StepOf, database
  <1> QED
    BY <1>1, <1>2, <1>3, <1>4, <1>5, <1>6, <1>7, <1>8, <1>9, <1>10, <1>11, <1>12
    DEF RoomInv, TypeInv

LEMMA EntryFailsKeeps ==
  ASSUME RoomInv, NEW u \in Users, EntryFails(u)
  PROVE  RoomInv' /\ StepOf(u)
  <1> USE DEF EntryFails, Go, Return, Finish
  <1>0. room[u] \in Rooms
    BY RoomsAreRooms DEF RoomInv, TypeInv, UserInv, PlaceInv, Away
  <1>1. PlaceType'
    BY PlacesArePCs DEF RoomInv, TypeInv, PlaceType
  <1>2. LocalType'
    BY <1>0, RoomAssumption DEF RoomInv, TypeInv, LocalType, GroupType
  <1>3. DatabaseType'
    BY <1>0, RoomAssumption DEF RoomInv, TypeInv, DatabaseType, UserInv, EntryInv
  <1>4. GroupType'
    BY <1>0 DEF RoomInv, TypeInv, GroupType
  <1>5. ClientType'
    BY <1>0, RoomAssumption
    DEF RoomInv, TypeInv, DatabaseType, ClientType, clients, database
  <1>6. ChatType'
    BY <1>0 DEF RoomInv, TypeInv, ChatType, UserInv, PlaceInv, chat
  <1>7. LockInv'
    BY RoomAssumption
    DEF RoomInv, TypeInv, PlaceType, LocalType, DatabaseType, LockInv, Commits, locals,
        database
  <1>8. RowsCreated'
    BY <1>0 DEF RoomInv, TypeInv, DatabaseType, RowsCreated, UserInv, EntryInv, database
  <1>9. GroupsHold'
    BY <1>0, RoomsAreRooms
    DEF RoomInv, TypeInv, GroupType, DatabaseType, GroupsHold, Possible, Members, UserInv,
        EntryInv, ExitInv, Outside, EntryPCs, database
  <1>10. UserInv(u)'
    <2>1. PlaceInv(u)'
      BY <1>0
      DEF RoomInv, TypeInv, PlaceType, LocalType, ChatType, UserInv, PlaceInv, Away,
          locals, chat, database
    <2>2. EntryInv(u)'
      BY <1>0
      DEF RoomInv, TypeInv, PlaceType, LocalType, DatabaseType, UserInv, EntryInv, Possible,
          locals, database
    <2>3. ExitInv(u)'
      BY <1>0, RoomsAreRooms
      DEF RoomInv, TypeInv, PlaceType, LocalType, DatabaseType, GroupType, UserInv,
          ExitInv, Outside, Commits, EntryPCs, locals, database
    <2> QED
      BY <2>1, <2>2, <2>3 DEF UserInv
  <1>11. StepOf(u)
    BY DEF RoomInv, TypeInv, PlaceType, LocalType, ChatType, StepOf, SameUser, locals,
       chat, database
  <1>12. ASSUME NEW v \in Users \ {u} PROVE UserInv(v)'
    <2>0. pc[v] \notin Away => room[v] \in Rooms
      BY RoomsAreRooms DEF RoomInv, TypeInv, UserInv, PlaceInv
    <2>1. pc[v] \notin Away => SteadyRoom(v, room[v])
      BY <1>0, <2>0, RoomAssumption
      DEF RoomInv, TypeInv, DatabaseType, GroupType, SteadyRoom, Possible, database
    <2> QED
      BY <1>11, <2>1, OthersKeep DEF RoomInv, StepOf, database
  <1> QED
    BY <1>1, <1>2, <1>3, <1>4, <1>5, <1>6, <1>7, <1>8, <1>9, <1>10, <1>11, <1>12
    DEF RoomInv, TypeInv

LEMMA EntryGroupKeeps ==
  ASSUME RoomInv, NEW u \in Users, EntryGroup(u)
  PROVE  RoomInv' /\ StepOf(u)
  <1> USE DEF EntryGroup, Joins, Finish, Go
  <1>0. room[u] \in Rooms
    BY RoomsAreRooms DEF RoomInv, TypeInv, UserInv, PlaceInv, Away
  <1>1. PlaceType'
    BY PlacesArePCs DEF RoomInv, TypeInv, PlaceType
  <1>2. LocalType'
    BY <1>0, RoomAssumption DEF RoomInv, TypeInv, LocalType, GroupType
  <1>3. DatabaseType'
    BY <1>0, RoomAssumption
    DEF RoomInv, TypeInv, DatabaseType, UserInv, EntryInv, database
  <1>4. GroupType'
    BY <1>0 DEF RoomInv, TypeInv, GroupType
  <1>5. ClientType'
    BY <1>0, RoomAssumption
    DEF RoomInv, TypeInv, DatabaseType, ClientType, clients, database
  <1>6. ChatType'
    BY <1>0 DEF RoomInv, TypeInv, ChatType, UserInv, PlaceInv, chat
  <1>7. LockInv'
    BY RoomAssumption
    DEF RoomInv, TypeInv, PlaceType, LocalType, DatabaseType, LockInv, Commits, locals,
        database
  <1>8. RowsCreated'
    BY <1>0 DEF RoomInv, TypeInv, DatabaseType, RowsCreated, UserInv, EntryInv, database
  <1>9. GroupsHold'
    BY <1>0, RoomsAreRooms
    DEF RoomInv, TypeInv, GroupType, DatabaseType, GroupsHold, Possible, Members, UserInv,
        EntryInv, ExitInv, Outside, EntryPCs, database
  <1>10. UserInv(u)'
    <2>1. PlaceInv(u)'
      BY <1>0
      DEF RoomInv, TypeInv, PlaceType, LocalType, ChatType, UserInv, PlaceInv, Away,
          locals, chat, database
    <2>2. EntryInv(u)'
      BY <1>0
      DEF RoomInv, TypeInv, PlaceType, LocalType, DatabaseType, UserInv, EntryInv, Possible,
          locals, database
    <2>3. ExitInv(u)'
      BY <1>0, RoomsAreRooms
      DEF RoomInv, TypeInv, PlaceType, LocalType, DatabaseType, GroupType, UserInv,
          ExitInv, Outside, Commits, EntryPCs, locals, database
    <2> QED
      BY <2>1, <2>2, <2>3 DEF UserInv
  <1>11. StepOf(u)
    BY DEF RoomInv, TypeInv, PlaceType, LocalType, ChatType, StepOf, SameUser, locals,
       chat, database
  <1>12. ASSUME NEW v \in Users \ {u} PROVE UserInv(v)'
    <2>0. pc[v] \notin Away => room[v] \in Rooms
      BY RoomsAreRooms DEF RoomInv, TypeInv, UserInv, PlaceInv
    <2>1. pc[v] \notin Away => SteadyRoom(v, room[v])
      BY <1>0, <2>0, RoomAssumption
      DEF RoomInv, TypeInv, DatabaseType, GroupType, SteadyRoom, Possible, database
    <2> QED
      BY <1>11, <2>1, OthersKeep DEF RoomInv, StepOf, database
  <1> QED
    BY <1>1, <1>2, <1>3, <1>4, <1>5, <1>6, <1>7, <1>8, <1>9, <1>10, <1>11, <1>12
    DEF RoomInv, TypeInv

LEMMA ExitGroupKeeps ==
  ASSUME RoomInv, NEW u \in Users, ExitGroup(u)
  PROVE  RoomInv' /\ StepOf(u)
  <1> USE DEF ExitGroup, Leaves, Go
  <1>0. room[u] \in Rooms
    BY RoomsAreRooms DEF RoomInv, TypeInv, UserInv, PlaceInv, Away
  <1>1. PlaceType'
    BY PlacesArePCs DEF RoomInv, TypeInv, PlaceType
  <1>2. LocalType'
    BY <1>0, RoomAssumption DEF RoomInv, TypeInv, LocalType, GroupType
  <1>3. DatabaseType'
    BY <1>0, RoomAssumption
    DEF RoomInv, TypeInv, DatabaseType, UserInv, EntryInv, database
  <1>4. GroupType'
    BY <1>0 DEF RoomInv, TypeInv, GroupType
  <1>5. ClientType'
    BY <1>0, RoomAssumption DEF RoomInv, TypeInv, DatabaseType, ClientType, database
  <1>6. ChatType'
    BY <1>0 DEF RoomInv, TypeInv, ChatType, UserInv, PlaceInv
  <1>7. LockInv'
    BY RoomAssumption
    DEF RoomInv, TypeInv, PlaceType, LocalType, DatabaseType, LockInv, Commits, locals,
        database
  <1>8. RowsCreated'
    BY <1>0 DEF RoomInv, TypeInv, DatabaseType, RowsCreated, UserInv, EntryInv, database
  <1>9. GroupsHold'
    BY <1>0, RoomsAreRooms
    DEF RoomInv, TypeInv, GroupType, DatabaseType, GroupsHold, Possible, Members, UserInv,
        EntryInv, ExitInv, Outside, EntryPCs, database
  <1>10. UserInv(u)'
    <2>1. PlaceInv(u)'
      BY <1>0
      DEF RoomInv, TypeInv, PlaceType, LocalType, ChatType, UserInv, PlaceInv, Away,
          locals, database
    <2>2. EntryInv(u)'
      BY <1>0
      DEF RoomInv, TypeInv, PlaceType, LocalType, DatabaseType, UserInv, EntryInv, Possible,
          locals, database
    <2>3. ExitInv(u)'
      BY <1>0, RoomsAreRooms
      DEF RoomInv, TypeInv, PlaceType, LocalType, DatabaseType, GroupType, UserInv,
          ExitInv, Outside, Commits, EntryPCs, locals, database
    <2> QED
      BY <2>1, <2>2, <2>3 DEF UserInv
  <1>11. StepOf(u)
    BY DEF RoomInv, TypeInv, PlaceType, LocalType, ChatType, StepOf, SameUser, locals,
       chat, database
  <1>12. ASSUME NEW v \in Users \ {u} PROVE UserInv(v)'
    <2>0. pc[v] \notin Away => room[v] \in Rooms
      BY RoomsAreRooms DEF RoomInv, TypeInv, UserInv, PlaceInv
    <2>1. pc[v] \notin Away => SteadyRoom(v, room[v])
      BY <1>0, <2>0, RoomAssumption
      DEF RoomInv, TypeInv, DatabaseType, GroupType, SteadyRoom, Possible, database
    <2> QED
      BY <1>11, <2>1, OthersKeep DEF RoomInv, StepOf, database
  <1> QED
    BY <1>1, <1>2, <1>3, <1>4, <1>5, <1>6, <1>7, <1>8, <1>9, <1>10, <1>11, <1>12
    DEF RoomInv, TypeInv

LEMMA DestroyChattingKeeps ==
  ASSUME RoomInv, NEW u \in Users, DestroyChatting(u)
  PROVE  RoomInv' /\ StepOf(u)
  <1> USE DEF DestroyChatting, Lockable, Go
  <1>0. room[u] \in Rooms
    BY RoomsAreRooms DEF RoomInv, TypeInv, UserInv, PlaceInv, Away
  <1>1. PlaceType'
    BY PlacesArePCs DEF RoomInv, TypeInv, PlaceType
  <1>2. LocalType'
    BY <1>0, RoomAssumption DEF RoomInv, TypeInv, LocalType, GroupType
  <1>3. DatabaseType'
    BY <1>0, RoomAssumption DEF RoomInv, TypeInv, DatabaseType, UserInv, EntryInv
  <1>4. GroupType'
    BY <1>0 DEF RoomInv, TypeInv, GroupType
  <1>5. ClientType'
    BY <1>0, RoomAssumption
    DEF RoomInv, TypeInv, DatabaseType, ClientType, clients, database
  <1>6. ChatType'
    BY <1>0 DEF RoomInv, TypeInv, ChatType, UserInv, PlaceInv, chat
  <1>7. LockInv'
    BY RoomAssumption
    DEF RoomInv, TypeInv, PlaceType, LocalType, DatabaseType, LockInv, Commits, locals,
        database
  <1>8. RowsCreated'
    BY <1>0 DEF RoomInv, TypeInv, DatabaseType, RowsCreated, UserInv, EntryInv, database
  <1>9. GroupsHold'
    BY <1>0, RoomsAreRooms
    DEF RoomInv, TypeInv, GroupType, DatabaseType, GroupsHold, Possible, Members, UserInv,
        EntryInv, ExitInv, Outside, EntryPCs, database
  <1>10. UserInv(u)'
    <2>1. PlaceInv(u)'
      BY <1>0
      DEF RoomInv, TypeInv, PlaceType, LocalType, ChatType, UserInv, PlaceInv, Away,
          locals, chat, database
    <2>2. EntryInv(u)'
      BY <1>0
      DEF RoomInv, TypeInv, PlaceType, LocalType, DatabaseType, UserInv, EntryInv, Possible,
          locals, database
    <2>3. ExitInv(u)'
      BY <1>0, RoomsAreRooms
      DEF RoomInv, TypeInv, PlaceType, LocalType, DatabaseType, GroupType, UserInv,
          ExitInv, Outside, Commits, EntryPCs, locals, database
    <2> QED
      BY <2>1, <2>2, <2>3 DEF UserInv
  <1>11. StepOf(u)
    BY DEF RoomInv, TypeInv, PlaceType, LocalType, ChatType, StepOf, SameUser, locals,
       chat, database
  <1>12. ASSUME NEW v \in Users \ {u} PROVE UserInv(v)'
    <2>0. pc[v] \notin Away => room[v] \in Rooms
      BY RoomsAreRooms DEF RoomInv, TypeInv, UserInv, PlaceInv
    <2>1. pc[v] \notin Away => SteadyRoom(v, room[v])
      BY <1>0, <2>0, RoomAssumption
      DEF RoomInv, TypeInv, DatabaseType, GroupType, SteadyRoom, Possible, database
    <2> QED
      BY <1>11, <2>1, OthersKeep DEF RoomInv, StepOf, database
  <1> QED
    BY <1>1, <1>2, <1>3, <1>4, <1>5, <1>6, <1>7, <1>8, <1>9, <1>10, <1>11, <1>12
    DEF RoomInv, TypeInv

LEMMA DeleteFailsKeeps ==
  ASSUME RoomInv, NEW u \in Users, DeleteFails(u)
  PROVE  RoomInv' /\ StepOf(u)
  <1> USE DEF DeleteFails, Go
  <1>0. room[u] \in Rooms
    BY RoomsAreRooms DEF RoomInv, TypeInv, UserInv, PlaceInv, Away
  <1>1. PlaceType'
    BY PlacesArePCs DEF RoomInv, TypeInv, PlaceType
  <1>2. LocalType'
    BY <1>0, RoomAssumption DEF RoomInv, TypeInv, LocalType, GroupType, locals
  <1>3. DatabaseType'
    BY <1>0, RoomAssumption DEF RoomInv, TypeInv, DatabaseType, UserInv, EntryInv
  <1>4. GroupType'
    BY <1>0 DEF RoomInv, TypeInv, GroupType
  <1>5. ClientType'
    BY <1>0, RoomAssumption
    DEF RoomInv, TypeInv, DatabaseType, ClientType, clients, database
  <1>6. ChatType'
    BY <1>0 DEF RoomInv, TypeInv, ChatType, UserInv, PlaceInv, chat
  <1>7. LockInv'
    BY RoomAssumption
    DEF RoomInv, TypeInv, PlaceType, LocalType, DatabaseType, LockInv, Commits, locals,
        database
  <1>8. RowsCreated'
    BY <1>0 DEF RoomInv, TypeInv, DatabaseType, RowsCreated, UserInv, EntryInv, database
  <1>9. GroupsHold'
    BY <1>0, RoomsAreRooms
    DEF RoomInv, TypeInv, GroupType, DatabaseType, GroupsHold, Possible, Members, UserInv,
        EntryInv, ExitInv, Outside, EntryPCs, database
  <1>10. UserInv(u)'
    <2>1. PlaceInv(u)'
      BY <1>0
      DEF RoomInv, TypeInv, PlaceType, LocalType, ChatType, UserInv, PlaceInv, Away,
          locals, chat, database
    <2>2. EntryInv(u)'
      BY <1>0
      DEF RoomInv, TypeInv, PlaceType, LocalType, DatabaseType, UserInv, EntryInv, Possible,
          locals, database
    <2>3. ExitInv(u)'
      BY <1>0, RoomsAreRooms
      DEF RoomInv, TypeInv, PlaceType, LocalType, DatabaseType, GroupType, UserInv,
          ExitInv, Outside, Commits, EntryPCs, locals, database
    <2> QED
      BY <2>1, <2>2, <2>3 DEF UserInv
  <1>11. StepOf(u)
    BY DEF RoomInv, TypeInv, PlaceType, LocalType, ChatType, StepOf, SameUser, locals,
       chat, database
  <1>12. ASSUME NEW v \in Users \ {u} PROVE UserInv(v)'
    <2>0. pc[v] \notin Away => room[v] \in Rooms
      BY RoomsAreRooms DEF RoomInv, TypeInv, UserInv, PlaceInv
    <2>1. pc[v] \notin Away => SteadyRoom(v, room[v])
      BY <1>0, <2>0, RoomAssumption
      DEF RoomInv, TypeInv, DatabaseType, GroupType, SteadyRoom, Possible, database
    <2> QED
      BY <1>11, <2>1, OthersKeep DEF RoomInv, StepOf, database
  <1> QED
    BY <1>1, <1>2, <1>3, <1>4, <1>5, <1>6, <1>7, <1>8, <1>9, <1>10, <1>11, <1>12
    DEF RoomInv, TypeInv

LEMMA CommitExitKeeps ==
  ASSUME RoomInv, NEW u \in Users, CommitExit(u)
  PROVE  RoomInv' /\ StepOf(u)
  <1> USE DEF CommitExit, Go, Return, Finish
  <1>0. room[u] \in Rooms
    BY RoomsAreRooms DEF RoomInv, TypeInv, UserInv, PlaceInv, Away
  <1>a. /\ pc' \in {[pc EXCEPT ![u] = "BroadcastRemoved"], [pc EXCEPT ![u] = "Idle"]}
        /\ pc'[u] = "BroadcastRemoved" => UNCHANGED locals /\ u \in result
        /\ pc'[u] = "Idle" => room' = [room EXCEPT ![u] = 0] /\ result' = result \ {u}
    BY DEF RoomInv, TypeInv, PlaceType
  <1>b. ASSUME NEW r \in chattingroom'
        PROVE  /\ r \in chattingroom /\ r \in Rooms /\ destroyer[r] # u
               /\ \A v \in Users \ {u} : RoomMember'[r][v] = RoomMember[r][v]
    BY <1>b, RoomsAreRooms DEF RoomInv, TypeInv, DatabaseType
  <1>c. ASSUME NEW r \in Rooms, Possible(r)' PROVE Possible(r) /\ destroyer[r] # u
    <2>1. destroyer[r] = u => r \in 1..lastRoom
      BY DEF RoomInv, LockInv, UserInv, ExitInv
    <2> QED
      BY <1>b, <1>c, <2>1 DEF Possible
  <1>1. PlaceType'
    BY PlacesArePCs DEF RoomInv, TypeInv, PlaceType
  <1>2. LocalType'
    BY <1>0, RoomAssumption DEF RoomInv, TypeInv, LocalType, GroupType, locals
  <1>3. DatabaseType'
    <2>1. ASSUME NEW r \in Rooms PROVE RoomMember'[r] \in [Users -> 0..MaxRows]
      <3>1. RoomMember[r] \in [Users -> 0..MaxRows] /\ 0 \in 0..MaxRows
        BY RoomAssumption DEF RoomInv, TypeInv, DatabaseType
      <3> QED
        BY <3>1
    <2>2. RoomMember' \in [Rooms -> [Users -> 0..MaxRows]]
      BY <2>1
    <2>3. destroyer' \in [Rooms -> Users \cup {Nobody}]
      BY DEF RoomInv, TypeInv, DatabaseType
    <2> QED
      BY <2>2, <2>3 DEF RoomInv, TypeInv, DatabaseType
  <1>4. GroupType'
    BY <1>0 DEF RoomInv, TypeInv, GroupType
  <1>5. ClientType'
    BY <1>0, RoomAssumption
    DEF RoomInv, TypeInv, DatabaseType, ClientType, clients, database
  <1>6. ChatType'
    BY <1>0 DEF RoomInv, TypeInv, ChatType, UserInv, PlaceInv
  <1>7. LockInv'
    <2> SUFFICES ASSUME NEW r \in Rooms, NEW v \in Users, destroyer'[r] = v
                 PROVE  /\ pc'[v] \in {"DeleteRoomMember"} \cup Commits
                        /\ room'[v] = r /\ v \in result'
      BY DEF LockInv
    <2>1. destroyer[r] = v /\ v # u
      BY RoomAssumption
    <2>2. /\ pc[v] \in {"DeleteRoomMember"} \cup Commits /\ room[v] = r /\ v \in result
      BY <2>1 DEF RoomInv, LockInv
    <2> QED
      BY <2>1, <2>2 DEF RoomInv, TypeInv, PlaceType, LocalType, locals
  <1>8. RowsCreated'
    BY RoomAssumption DEF RoomInv, TypeInv, DatabaseType, RowsCreated
  <1>9. GroupsHold'
    <2> SUFFICES ASSUME NEW r \in Rooms, Possible(r)', NEW v \in GroupNetworkSessions[r],
                        v \notin unstored[r]
                 PROVE  RoomMember'[r][v] > 0
      BY DEF GroupsHold, Members, RoomInv, TypeInv, GroupType
    <2>1. Possible(r) /\ destroyer[r] # u
      BY <1>b, <1>c
    <2>2. v \in Users /\ RoomMember[r][v] > 0
      BY <2>1 DEF RoomInv, TypeInv, GroupType, GroupsHold, Members
    <2>3. v = u => r # room[u]
      BY DEF RoomInv, UserInv, ExitInv, Outside, Commits
    <2>4. RoomMember'[r][v] = RoomMember[r][v]
      BY <2>1, <2>2, <2>3 DEF RoomInv, TypeInv, DatabaseType
    <2> QED
      BY <2>2, <2>4
  <1>10. UserInv(u)'
    <2>1. PlaceInv(u)'
      BY <1>0, <1>a
      DEF RoomInv, TypeInv, PlaceType, LocalType, DatabaseType, UserInv, PlaceInv, Away,
          locals
    <2>2. EntryInv(u)'
      BY <1>0
      DEF RoomInv, TypeInv, PlaceType, LocalType, DatabaseType, UserInv, EntryInv, Possible,
          locals
    <2>3. ExitInv(u)'
      BY <1>0, RoomsAreRooms
      DEF RoomInv, TypeInv, PlaceType, LocalType, DatabaseType, GroupType, UserInv,
          ExitInv, Outside, Commits, EntryPCs, locals, database
    <2> QED
      BY <2>1, <2>2, <2>3 DEF UserInv
  <1>11. StepOf(u)
    BY DEF RoomInv, TypeInv, PlaceType, LocalType, ChatType, StepOf, SameUser, locals,
           database
  <1>12. ASSUME NEW v \in Users \ {u} PROVE UserInv(v)'
    <2>0. pc[v] \notin Away => room[v] \in Rooms
      BY RoomsAreRooms DEF RoomInv, TypeInv, UserInv, PlaceInv
    <2>1. ASSUME pc[v] \notin Away PROVE SteadyRoom(v, room[v])
      <3>1. room[v] \in Rooms
        BY <2>0, <2>1
      <3>2. CASE destroyer[room[v]] = u
        <4>1. room[v] \in 1..lastRoom' /\ room[v] \notin chattingroom'
          BY <3>1, <3>2 DEF RoomInv, LockInv, UserInv, ExitInv
        <4>2. RoomMember'[room[v]][v] = 0
          BY <3>1, <3>2
        <4> QED
          BY <3>1, <4>1, <4>2 DEF SteadyRoom, Possible
      <3>3. CASE destroyer[room[v]] # u
        <4>1. room[v] \in chattingroom' <=> room[v] \in chattingroom
          BY <3>3
        <4>2. RoomMember'[room[v]][v] = RoomMember[room[v]][v]
          BY <3>1, <3>3 DEF RoomInv, TypeInv, DatabaseType
        <4>3. destroyer'[room[v]] = destroyer[room[v]]
          BY <3>1, <3>3
        <4> QED
          BY <3>1, <4>1, <4>2, <4>3 DEF SteadyRoom, Possible
      <3> QED
        BY <3>2, <3>3
    <2> QED
      BY <1>11, <2>1, OthersKeep DEF RoomInv, StepOf, database
  <1> QED
    BY <1>1, <1>2, <1>3, <1>4, <1>5, <1>6, <1>7, <1>8, <1>9, <1>10, <1>11, <1>12
    DEF RoomInv, TypeInv

LEMMA ExitFailsKeeps ==
  ASSUME RoomInv, NEW u \in Users, ExitFails(u)
  PROVE  RoomInv' /\ StepOf(u)
  <1> USE DEF ExitFails, Go, Return, Finish
  <1>0. room[u] \in Rooms
    BY RoomsAreRooms DEF RoomInv, TypeInv, UserInv, PlaceInv, Away
  <1>1. PlaceType'
    BY PlacesArePCs DEF RoomInv, TypeInv, PlaceType
  <1>2. LocalType'
    BY <1>0, RoomAssumption DEF RoomInv, TypeInv, LocalType, GroupType
  <1>3. DatabaseType'
    BY <1>0, RoomAssumption DEF RoomInv, TypeInv, DatabaseType, UserInv, EntryInv
  <1>4. GroupType'
    BY <1>0 DEF RoomInv, TypeInv, GroupType
  <1>5. ClientType'
    BY <1>0, RoomAssumption
    DEF RoomInv, TypeInv, DatabaseType, ClientType, clients, database
  <1>6. ChatType'
    BY <1>0 DEF RoomInv, TypeInv, ChatType, UserInv, PlaceInv, chat
  <1>7. LockInv'
    BY RoomAssumption
    DEF RoomInv, TypeInv, PlaceType, LocalType, DatabaseType, LockInv, Commits, locals,
        database
  <1>8. RowsCreated'
    BY <1>0 DEF RoomInv, TypeInv, DatabaseType, RowsCreated, UserInv, EntryInv, database
  <1>9. GroupsHold'
    BY <1>0, RoomsAreRooms
    DEF RoomInv, TypeInv, GroupType, DatabaseType, GroupsHold, Possible, Members, UserInv,
        EntryInv, ExitInv, Outside, EntryPCs, database
  <1>10. UserInv(u)'
    <2>1. PlaceInv(u)'
      BY <1>0
      DEF RoomInv, TypeInv, PlaceType, LocalType, ChatType, UserInv, PlaceInv, Away,
          locals, chat, database
    <2>2. EntryInv(u)'
      BY <1>0
      DEF RoomInv, TypeInv, PlaceType, LocalType, DatabaseType, UserInv, EntryInv, Possible,
          locals, database
    <2>3. ExitInv(u)'
      BY <1>0, RoomsAreRooms
      DEF RoomInv, TypeInv, PlaceType, LocalType, DatabaseType, GroupType, UserInv,
          ExitInv, Outside, Commits, EntryPCs, locals, database
    <2> QED
      BY <2>1, <2>2, <2>3 DEF UserInv
  <1>11. StepOf(u)
    BY DEF RoomInv, TypeInv, PlaceType, LocalType, ChatType, StepOf, SameUser, locals,
       chat, database
  <1>12. ASSUME NEW v \in Users \ {u} PROVE UserInv(v)'
    <2>0. pc[v] \notin Away => room[v] \in Rooms
      BY RoomsAreRooms DEF RoomInv, TypeInv, UserInv, PlaceInv
    <2>1. pc[v] \notin Away => SteadyRoom(v, room[v])
      BY <1>0, <2>0, RoomAssumption
      DEF RoomInv, TypeInv, DatabaseType, GroupType, SteadyRoom, Possible, database
    <2> QED
      BY <1>11, <2>1, OthersKeep DEF RoomInv, StepOf, database
  <1> QED
    BY <1>1, <1>2, <1>3, <1>4, <1>5, <1>6, <1>7, <1>8, <1>9, <1>10, <1>11, <1>12
    DEF RoomInv, TypeInv

\* A step of a thread keeps the invariant, and what is its own of the others.
LEMMA ThreadKeeps ==
  ASSUME RoomInv, NEW u \in Users, RecvProc(u) \/ Fails(u)
  PROVE  RoomInv' /\ StepOf(u)
  BY ConnectKeeps, LoginKeeps, SendRoomsKeeps, CreateRoomKeeps, BroadcastRoomKeeps,
     EntryRoomKeeps, FindPasswordKeeps, FindEntryKeeps, SendEntryKeeps,
     RequireRoomInfoKeeps, FindAllMembersKeeps, SendInfoKeeps, FindAllMessagesKeeps,
     SendMessagesKeeps, SendMessageKeeps, InsertMessageKeeps, GroupBroadcastKeeps,
     ExitRoomKeeps, FindExitKeeps, SendExitKeeps, CountByRoomMemberKeeps,
     CountFailsKeeps, DestroyFailsKeeps, DeleteFailsKeeps,
     DeleteRoomMemberKeeps, BroadcastRemovedKeeps, InsertChattingRoomKeeps,
     InsertRoomMemberKeeps, CommitEntryKeeps, EntryFailsKeeps, EntryGroupKeeps,
     ExitGroupKeeps, CloseSocketKeeps, DestroyChattingKeeps, CommitExitKeeps,
     ExitFailsKeeps
  DEF RecvProc, Fails

LEMMA NextRoomInv == RoomInv /\ [Next]_vars => RoomInv'
  <1> SUFFICES ASSUME RoomInv, [Next]_vars PROVE RoomInv'
    OBVIOUS
  <1>1. CASE UNCHANGED vars
    <2>1. TypeInv' /\ LockInv' /\ RowsCreated' /\ GroupsHold'
      BY <1>1
      DEF vars, RoomInv, TypeInv, PlaceType, LocalType, DatabaseType, GroupType, ClientType,
          ChatType, LockInv, RowsCreated, GroupsHold, Possible, Members
    <2>2. \A u \in Users : UserInv(u)'
      BY <1>1 DEF vars, RoomInv, UserInv, PlaceInv, EntryInv, ExitInv, Possible
    <2> QED
      BY <2>1, <2>2 DEF RoomInv
  <1> QED
    BY <1>1, ThreadKeeps DEF Next

-----------------------------------------------------------------------------
(* The theorems.                                                           *)

\* Whatever packets and failures cross, each thread is at a place where its
\* user's row, lock and session are what the controller takes them for.
THEOREM RoomsSafe == Spec => []RoomInv
  BY InitRoomInv, NextRoomInv, PTL DEF Spec

\* Every variable has its type; an entry never makes more rows than its bound.
THEOREM RoomsTypeCorrect == Spec => []TypeOK
  <1>1. RoomInv => TypeOK
    <2> SUFFICES ASSUME RoomInv PROVE TypeOK
      OBVIOUS
    <2>1. /\ chattingroom \subseteq 1..lastRoom /\ pc \in [Users -> PCs]
          /\ roomList \in [Users -> SUBSET Rooms] /\ packet \in [Users -> SUBSET Messages]
      BY RoomsAreRooms, MessagesKnownTo
      DEF RoomInv, TypeInv, PlaceType, ClientType, ChatType, DatabaseType
    <2> QED
      BY <2>1
      DEF RoomInv, TypeInv, LocalType, DatabaseType, GroupType, ClientType, ChatType, PCs,
          TypeOK
  <1> QED
    BY <1>1, RoomsSafe, PTL

\* In a room that exists the group holds no session without a row but those
\* whose own INSERT stored none, whatever entries, exits and removals cross and
\* whichever commits and statements fail (EntryRoomController.cpp:25-29,
\* EntryRoomService.cpp:21-42, ExitRoomController.cpp:23-24).
THEOREM GroupsHaveRows == Spec => []GroupHasRows
  <1>1. RoomInv => GroupHasRows
    BY RoomsAreRooms DEF RoomInv, TypeInv, GroupsHold, GroupHasRows, Possible
  <1> QED
    BY <1>1, RoomsSafe, PTL

\* Clients are told that a room is removed after the commit that removed it,
\* also when two users remove it at once, unless its DELETE was rolled back under
\* the exit (ExitRoomController.cpp:24-33, ExitRoomService.cpp:21-25).
THEOREM RemovalIsTold == Spec => []RemovedIsGone
  <1>1. RoomInv => RemovedIsGone
    BY DEF RoomInv, UserInv, ExitInv, RemovedIsGone
  <1> QED
    BY <1>1, RoomsSafe, PTL

=============================================================================
