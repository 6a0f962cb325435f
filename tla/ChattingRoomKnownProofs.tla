------------------------ MODULE ChattingRoomKnownProofs ------------------------
(***************************************************************************)
(* What the clients of ChattingRoom know, for any number of users, rooms   *)
(* and messages.  Each part says where what a client does not know yet is  *)
(* on its way: in a list that was read and not sent, in a packet, or in a  *)
(* loop that has still to reach it.                                        *)
(* Last, what ChattingRoomHistory adds: rooms served one packet at a time. *)
(***************************************************************************)
EXTENDS ChattingRoomProofs, ChattingRoomHistory

-----------------------------------------------------------------------------
(* The list of rooms.                                                      *)

\* The creation of room r has still to be broadcast.
Announced(r) == \E v \in Users : pc[v] = "BroadcastRoom" /\ room[v] = r

ListInv ==
    /\ RoomsKnown
    /\ \A u \in Users : pc[u] = "SendRooms" =>
         \A r \in chattingroom \ undone : Announced(r) \/ r \in roomList[u] \cup found[u]
    /\ \A u \in listed : pc[u] # "Offline"

\* A step that creates and announces no room, and sends no list.
LEMMA ListStays ==
  ASSUME RoomInv, ListInv, NEW u \in Users, StepOf(u),
         UNCHANGED <<roomList, listed>>, chattingroom' \subseteq chattingroom,
         undone \subseteq undone',
         pc[u] # "BroadcastRoom", pc'[u] \notin {"SendRooms", "Offline"}
  PROVE  ListInv'
  <1>1. \A r \in Rooms : Announced(r) => Announced(r)'
    BY DEF Announced, StepOf, SameUser
  <1>2. chattingroom \subseteq Rooms /\ listed \subseteq Users
    BY RoomsAreRooms DEF RoomInv, TypeInv, ClientType
  <1>3. RoomsKnown'
    BY <1>1, <1>2 DEF ListInv, RoomsKnown, Announced
  <1>4. ASSUME NEW w \in Users, pc'[w] = "SendRooms", NEW r \in chattingroom' \ undone'
        PROVE  Announced(r)' \/ r \in roomList'[w] \cup found'[w]
    BY <1>1, <1>2, <1>4 DEF ListInv, StepOf, SameUser
  <1>5. \A w \in listed' : pc'[w] # "Offline"
    BY <1>2 DEF ListInv, StepOf, SameUser
  <1> QED
    BY <1>3, <1>4, <1>5 DEF ListInv

LEMMA ThreadListInv ==
  ASSUME RoomInv, ListInv, NEW u \in Users, RecvProc(u) \/ Fails(u), RoomInv', StepOf(u)
  PROVE  ListInv'
  <1>1. CASE Connect(u)
    BY <1>1, ListStays
    DEF Connect, Go, RoomInv, TypeInv, PlaceType, LocalType, clients, chat, locals,
        database
  <1>2. CASE CreateRoom(u)
    BY <1>2, ListStays
    DEF CreateRoom, Receive, Go, RoomInv, TypeInv, PlaceType, LocalType, clients, chat,
        locals, database
  <1>3. CASE \E r \in Rooms : EntryRoom(u, r)
    BY <1>3, ListStays
    DEF EntryRoom, Receive, Go, RoomInv, TypeInv, PlaceType, LocalType, clients, chat,
        locals, database
  <1>4. CASE FindPassword(u)
    BY <1>4, ListStays
    DEF FindPassword, Go, Return, Finish, RoomInv, TypeInv, PlaceType, LocalType,
        clients, chat, locals, database
  <1>5. CASE InsertRoomMember(u)
    BY <1>5, ListStays
    DEF InsertRoomMember, Go, RoomInv, TypeInv, PlaceType, LocalType, clients, chat,
        locals, database
  <1>6. CASE CommitEntry(u)
    BY <1>6, ListStays
    DEF CommitEntry, Go, RoomInv, TypeInv, PlaceType, LocalType, clients, chat, locals,
        database
  <1>7. CASE EntryFails(u)
    BY <1>7, ListStays
    DEF EntryFails, Go, Return, Finish, RoomInv, TypeInv, PlaceType, LocalType, clients,
        chat, locals, database
  <1>8. CASE FindEntry(u)
    BY <1>8, ListStays
    DEF FindEntry, Go, Begins, RoomInv, TypeInv, PlaceType, LocalType, clients, chat,
        locals, database
  <1>9. CASE SendEntry(u)
    BY <1>9, ListStays
    DEF SendEntry, Go, SendsTo, Ends, RoomInv, TypeInv, PlaceType, LocalType, clients,
        chat, locals, database
  <1>10. CASE EntryGroup(u)
    BY <1>10, ListStays
    DEF EntryGroup, Joins, Finish, Go, RoomInv, TypeInv, PlaceType, LocalType, clients,
        chat, locals, database
  <1>11. CASE \E r \in Rooms : RequireRoomInfo(u, r)
    BY <1>11, ListStays
    DEF RequireRoomInfo, Receive, Go, RoomInv, TypeInv, PlaceType, LocalType, clients,
        chat, locals, database
  <1>12. CASE FindAllMembers(u)
    BY <1>12, ListStays
    DEF FindAllMembers, Go, RoomInv, TypeInv, PlaceType, LocalType, clients, chat,
        locals, database
  <1>13. CASE SendInfo(u)
    BY <1>13, ListStays
    DEF SendInfo, Go, RoomInv, TypeInv, PlaceType, LocalType, clients, chat, locals,
        database
  <1>14. CASE FindAllMessages(u)
    BY <1>14, ListStays
    DEF FindAllMessages, Go, Return, Finish, RoomInv, TypeInv, PlaceType, LocalType,
        clients, chat, locals, database
  <1>15. CASE SendMessages(u)
    BY <1>15, ListStays
    DEF SendMessages, Go, Return, Finish, RoomInv, TypeInv, PlaceType, LocalType,
        clients, chat, locals, database
  <1>16. CASE \E r \in Rooms : SendMessage(u, r)
    BY <1>16, ListStays
    DEF SendMessage, Receive, Go, RoomInv, TypeInv, PlaceType, LocalType, clients, chat,
        locals, database
  <1>17. CASE InsertMessage(u)
    BY <1>17, ListStays
    DEF InsertMessage, Go, Begins, RoomInv, TypeInv, PlaceType, LocalType, clients, chat,
        locals, database
  <1>18. CASE GroupBroadcast(u)
    BY <1>18, ListStays
    DEF GroupBroadcast, Go, Finish, SendsTo, Ends, RoomInv, TypeInv, PlaceType,
        LocalType, clients, chat, locals, database
  <1>19. CASE \E r \in Rooms : ExitRoom(u, r)
    BY <1>19, ListStays
    DEF ExitRoom, Receive, Go, RoomInv, TypeInv, PlaceType, LocalType, clients, chat,
        locals, database
  <1>20. CASE FindExit(u)
    BY <1>20, ListStays
    DEF FindExit, Go, Begins, RoomInv, TypeInv, PlaceType, LocalType, clients, chat,
        locals, database
  <1>21. CASE SendExit(u)
    BY <1>21, ListStays
    DEF SendExit, Go, SendsTo, Ends, RoomInv, TypeInv, PlaceType, LocalType, clients,
        chat, locals, database
  <1>22. CASE ExitGroup(u)
    BY <1>22, ListStays
    DEF ExitGroup, Leaves, Go, RoomInv, TypeInv, PlaceType, LocalType, clients, chat,
        locals, database
  <1>23. CASE CountByRoomMember(u)
    BY <1>23, ListStays
    DEF CountByRoomMember, Go, RoomInv, TypeInv, PlaceType, LocalType, clients, chat,
        locals, database
  <1>24. CASE DestroyChatting(u)
    BY <1>24, ListStays
    DEF DestroyChatting, Go, RoomInv, TypeInv, PlaceType, LocalType, clients, chat,
        locals, database
  <1>25. CASE DeleteRoomMember(u)
    BY <1>25, ListStays
    DEF DeleteRoomMember, Go, RoomInv, TypeInv, PlaceType, LocalType, clients, chat,
        locals, database
  <1>26. CASE CommitExit(u)
    BY <1>26, ListStays
    DEF CommitExit, Go, Return, Finish, RoomInv, TypeInv, PlaceType, LocalType, clients,
        chat, locals, database
  <1>27. CASE ExitFails(u)
    BY <1>27, ListStays
    DEF ExitFails, Go, Return, Finish, RoomInv, TypeInv, PlaceType, LocalType, clients,
        chat, locals, database
  <1>28. CASE Login(u)
    <2>1. /\ UNCHANGED <<chattingroom, undone, roomList, listed>> /\ pc[u] = "Login"
          /\ (pc'[u] = "SendRooms" /\ found'[u] = chattingroom) \/ pc'[u] = "Idle"
      BY <1>28
      DEF Login, Go, Return, Finish, RoomInv, TypeInv, PlaceType, LocalType, database,
          clients
    <2>2. \A r \in Rooms : Announced(r) => Announced(r)'
      BY <2>1 DEF Announced, StepOf, SameUser
    <2>3. chattingroom \subseteq Rooms /\ listed \subseteq Users
      BY RoomsAreRooms DEF RoomInv, TypeInv, ClientType
    <2> QED
      BY <2>1, <2>2, <2>3 DEF ListInv, RoomsKnown, Announced, StepOf, SameUser
  <1>29. CASE SendRooms(u)
    <2>1. \A r \in Rooms : Announced(r) => Announced(r)'
      BY <1>29 DEF SendRooms, Announced, StepOf, SameUser
    <2>2. chattingroom \subseteq Rooms /\ listed \subseteq Users
      BY RoomsAreRooms DEF RoomInv, TypeInv, ClientType
    <2>3. pc[u] = "SendRooms" /\ pc'[u] = "Idle" /\ UNCHANGED <<chattingroom, undone>>
      BY <1>29 DEF SendRooms, Go, Return, Finish, RoomInv, TypeInv, PlaceType, database
    <2>4. /\ roomList'[u] = roomList[u] \cup found[u] /\ listed' = listed \cup {u}
          /\ \A w \in Users \ {u} : roomList'[w] = roomList[w]
      BY <1>29 DEF SendRooms, RoomInv, TypeInv, ClientType
    <2> QED
      BY <2>1, <2>2, <2>3, <2>4 DEF ListInv, RoomsKnown, Announced, StepOf, SameUser
  <1>30. CASE CloseSocket(u)
    <2>1. \A r \in Rooms : Announced(r) => Announced(r)'
      BY <1>30 DEF CloseSocket, Announced, StepOf, SameUser
    <2>2. chattingroom \subseteq Rooms /\ listed \subseteq Users
      BY RoomsAreRooms DEF RoomInv, TypeInv, ClientType
    <2>3. /\ pc'[u] = "Offline" /\ UNCHANGED <<chattingroom, undone>> /\ listed' = listed \ {u}
          /\ \A w \in Users \ {u} : roomList'[w] = roomList[w]
      BY <1>30
      DEF CloseSocket, Go, Leaves, RoomInv, TypeInv, PlaceType, ClientType, database
    <2> QED
      BY <2>1, <2>2, <2>3 DEF ListInv, RoomsKnown, Announced, StepOf, SameUser
  <1>31. CASE InsertChattingRoom(u)
    <2>1. \A r \in Rooms : Announced(r) => Announced(r)'
      BY <1>31 DEF InsertChattingRoom, Announced, StepOf, SameUser
    <2>2. chattingroom \subseteq Rooms /\ listed \subseteq Users
      BY RoomsAreRooms DEF RoomInv, TypeInv, ClientType
    <2>3. /\ chattingroom' = chattingroom \cup {lastRoom'} /\ room'[u] = lastRoom'
          /\ pc'[u] = "BroadcastRoom" /\ UNCHANGED <<roomList, listed, undone>>
      BY <1>31
      DEF InsertChattingRoom, Go, RoomInv, TypeInv, PlaceType, LocalType, clients
    <2>4. \E v \in Users : pc'[v] = "BroadcastRoom" /\ room'[v] = lastRoom'
      BY <2>3
    <2> QED
      BY <2>1, <2>2, <2>3, <2>4 DEF ListInv, RoomsKnown, Announced, StepOf, SameUser
  <1>32. CASE BroadcastRoom(u)
    <2>1. \A r \in Rooms \ {room[u]} : Announced(r) => Announced(r)'
      BY <1>32 DEF BroadcastRoom, Announced, StepOf, SameUser
    <2>2. chattingroom \subseteq Rooms /\ listed \subseteq Users
      BY RoomsAreRooms DEF RoomInv, TypeInv, ClientType
    <2>3. /\ UNCHANGED <<chattingroom, undone, listed>> /\ pc'[u] = "Idle"
          /\ \A w \in Users : roomList[w] \subseteq roomList'[w]
          /\ \A w \in Users : pc[w] # "Offline" => room[u] \in roomList'[w]
      BY <1>32
      DEF BroadcastRoom, Go, Return, Finish, RoomInv, TypeInv, PlaceType, ClientType,
          Online, database
    <2> QED
      BY <2>1, <2>2, <2>3 DEF ListInv, RoomsKnown, Announced, StepOf, SameUser
  <1>33. CASE BroadcastRemoved(u)
    <2>1. \A r \in Rooms : Announced(r) => Announced(r)'
      BY <1>33 DEF BroadcastRemoved, Announced, StepOf, SameUser
    <2>2. chattingroom \subseteq Rooms /\ listed \subseteq Users
      BY RoomsAreRooms DEF RoomInv, TypeInv, ClientType
    <2>3. /\ UNCHANGED <<chattingroom, undone, listed>> /\ pc'[u] = "Idle"
          /\ \A w \in Users : roomList[w] \ {room[u]} \subseteq roomList'[w]
          /\ room[u] \in chattingroom => room[u] \in undone
      BY <1>33
      DEF BroadcastRemoved, Go, Return, Finish, RoomInv, TypeInv, PlaceType, ClientType,
          database, UserInv, ExitInv
    <2> QED
      BY <2>1, <2>2, <2>3 DEF ListInv, RoomsKnown, Announced, StepOf, SameUser
  <1>34. CASE CountFails(u)
    BY <1>34, ListStays
    DEF CountFails, Go, Return, Finish, RoomInv, TypeInv, PlaceType, LocalType, clients,
        chat, locals, database
  <1>35. CASE DestroyFails(u)
    BY <1>35, ListStays
    DEF DestroyFails, Go, RoomInv, TypeInv, PlaceType, LocalType, clients, chat, locals,
        database
  <1>36. CASE DeleteFails(u)
    BY <1>36, ListStays
    DEF DeleteFails, Go, RoomInv, TypeInv, PlaceType, LocalType, clients, chat, locals,
        database
  <1> QED
    BY <1>1, <1>2, <1>3, <1>4, <1>5, <1>6, <1>7, <1>8, <1>9, <1>10, <1>11, <1>12,
       <1>13, <1>14, <1>15, <1>16, <1>17, <1>18, <1>19, <1>20, <1>21, <1>22, <1>23,
       <1>24, <1>25, <1>26, <1>27, <1>28, <1>29, <1>30, <1>31, <1>32, <1>33,
       <1>34, <1>35, <1>36
    DEF RecvProc, Fails

-----------------------------------------------------------------------------
(* What was shown is stored.                                               *)

\* What has become of a message: its row is stored, or none was.
Settled(r) == ChatMessage[r] \cup dropped

StoredInv ==
    \A r \in Rooms : Possible(r) =>
        /\ \A w \in Users : history[w][r] \subseteq Settled(r)
        /\ \A w \in Users : room[w] = r =>
             /\ pc[w] \in {"GroupBroadcast", "SendMessages"} => packet[w] \subseteq Settled(r)
             /\ pc[w] = "InsertMessage" => packet[w] \ rest[w] \subseteq Settled(r)

\* A step that stores, sends and shows no message.
LEMMA StoredStays ==
  ASSUME StoredInv, NEW u \in Users, StepOf(u),
         UNCHANGED <<history, ChatMessage, dropped, chattingroom, lastRoom>>,
         pc'[u] \notin {"GroupBroadcast", "SendMessages", "InsertMessage"}
  PROVE  StoredInv'
  <1> SUFFICES ASSUME NEW r \in Rooms, Possible(r)', NEW w \in Users
               PROVE  /\ history'[w][r] \subseteq Settled(r)'
                      /\ room'[w] = r =>
                           /\ pc'[w] \in {"GroupBroadcast", "SendMessages"}
                                => packet'[w] \subseteq Settled(r)'
                           /\ pc'[w] = "InsertMessage"
                                => packet'[w] \ rest'[w] \subseteq Settled(r)'
    BY DEF StoredInv
  <1>1. Possible(r) /\ Settled(r)' = Settled(r)
    BY DEF Possible, Settled
  <1> QED
    BY <1>1 DEF StoredInv, StepOf, SameUser

\* One that may store, drop or show messages of the room its thread works on.
LEMMA StoredGrows ==
  ASSUME StoredInv, NEW u \in Users, StepOf(u),
         \A r \in Rooms : Possible(r)' => Possible(r) /\ Settled(r) \subseteq Settled(r)',
         \A w \in Users, r \in Rooms :
            \/ history'[w][r] \subseteq history[w][r]
            \/ /\ r = room[u]
               /\ pc[u] \in {"GroupBroadcast", "SendMessages"}
               /\ history'[w][r] = history[w][r] \cup packet[u],
         \A r \in Rooms : room'[u] = r /\ Possible(r) =>
         /\ pc'[u] \in {"GroupBroadcast", "SendMessages"} => packet'[u] \subseteq Settled(r)'
         /\ pc'[u] = "InsertMessage" => packet'[u] \ rest'[u] \subseteq Settled(r)'
  PROVE  StoredInv'
  <1> SUFFICES ASSUME NEW r \in Rooms, Possible(r)', NEW w \in Users
               PROVE  /\ history'[w][r] \subseteq Settled(r)'
                      /\ room'[w] = r =>
                           /\ pc'[w] \in {"GroupBroadcast", "SendMessages"}
                                => packet'[w] \subseteq Settled(r)'
                           /\ pc'[w] = "InsertMessage"
                                => packet'[w] \ rest'[w] \subseteq Settled(r)'
    BY DEF StoredInv
  <1>1. Possible(r) /\ Settled(r) \subseteq Settled(r)'
    OBVIOUS
  <1>2. history'[w][r] \subseteq Settled(r)'
    BY <1>1 DEF StoredInv
  <1>3. CASE w = u
    BY <1>1, <1>2, <1>3
  <1>4. CASE w # u
    <2>1. /\ pc'[w] = pc[w] /\ room'[w] = room[w]
          /\ packet'[w] = packet[w] /\ rest'[w] = rest[w]
      BY <1>4 DEF StepOf, SameUser
    <2>2. room[w] = r =>
            /\ pc[w] \in {"GroupBroadcast", "SendMessages"} => packet[w] \subseteq Settled(r)
            /\ pc[w] = "InsertMessage" => packet[w] \ rest[w] \subseteq Settled(r)
      BY <1>1 DEF StoredInv
    <2> QED
      BY <1>1, <1>2, <2>1, <2>2
  <1> QED
    BY <1>3, <1>4

\* The messages of a room that are settled stay so.
LEMMA SettledStays ==
  ASSUME NEW r, UNCHANGED <<chattingroom, lastRoom>>,
         ChatMessage[r] \subseteq ChatMessage'[r], dropped \subseteq dropped'
  PROVE  Possible(r)' => Possible(r) /\ Settled(r) \subseteq Settled(r)'
  BY DEF Possible, Settled

LEMMA ThreadStoredInv ==
  ASSUME RoomInv, StoredInv, NEW u \in Users, RecvProc(u) \/ Fails(u), RoomInv', StepOf(u)
  PROVE  StoredInv'
  <1>1. CASE Connect(u)
    BY <1>1, StoredStays
    DEF Connect, Go, RoomInv, TypeInv, PlaceType, LocalType, clients, chat, locals,
        database
  <1>2. CASE Login(u)
    BY <1>2, StoredStays
    DEF Login, Go, Return, Finish, RoomInv, TypeInv, PlaceType, LocalType, clients, chat,
        locals, database
  <1>3. CASE SendRooms(u)
    BY <1>3, StoredStays
    DEF SendRooms, Go, Return, Finish, RoomInv, TypeInv, PlaceType, LocalType, clients,
        chat, locals, database
  <1>4. CASE CreateRoom(u)
    BY <1>4, StoredStays
    DEF CreateRoom, Receive, Go, RoomInv, TypeInv, PlaceType, LocalType, clients, chat,
        locals, database
  <1>5. CASE BroadcastRoom(u)
    BY <1>5, StoredStays
    DEF BroadcastRoom, Go, Return, Finish, RoomInv, TypeInv, PlaceType, LocalType,
        clients, chat, locals, database
  <1>6. CASE \E r \in Rooms : EntryRoom(u, r)
    BY <1>6, StoredStays
    DEF EntryRoom, Receive, Go, RoomInv, TypeInv, PlaceType, LocalType, clients, chat,
        locals, database
  <1>7. CASE FindPassword(u)
    BY <1>7, StoredStays
    DEF FindPassword, Go, Return, Finish, RoomInv, TypeInv, PlaceType, LocalType,
        clients, chat, locals, database
  <1>8. CASE InsertRoomMember(u)
    BY <1>8, StoredStays
    DEF InsertRoomMember, Go, RoomInv, TypeInv, PlaceType, LocalType, clients, chat,
        locals, database
  <1>9. CASE CommitEntry(u)
    BY <1>9, StoredStays
    DEF CommitEntry, Go, RoomInv, TypeInv, PlaceType, LocalType, clients, chat, locals,
        database
  <1>10. CASE EntryFails(u)
    BY <1>10, StoredStays
    DEF EntryFails, Go, Return, Finish, RoomInv, TypeInv, PlaceType, LocalType, clients,
        chat, locals, database
  <1>11. CASE FindEntry(u)
    BY <1>11, StoredStays
    DEF FindEntry, Go, Begins, RoomInv, TypeInv, PlaceType, LocalType, clients, chat,
        locals, database
  <1>12. CASE SendEntry(u)
    BY <1>12, StoredStays
    DEF SendEntry, Go, SendsTo, Ends, RoomInv, TypeInv, PlaceType, LocalType, clients,
        chat, locals, database
  <1>13. CASE EntryGroup(u)
    BY <1>13, StoredStays
    DEF EntryGroup, Joins, Finish, Go, RoomInv, TypeInv, PlaceType, LocalType, clients,
        chat, locals, database
  <1>14. CASE \E r \in Rooms : RequireRoomInfo(u, r)
    BY <1>14, StoredStays
    DEF RequireRoomInfo, Receive, Go, RoomInv, TypeInv, PlaceType, LocalType, clients,
        chat, locals, database
  <1>15. CASE FindAllMembers(u)
    BY <1>15, StoredStays
    DEF FindAllMembers, Go, RoomInv, TypeInv, PlaceType, LocalType, clients, chat,
        locals, database
  <1>16. CASE SendInfo(u)
    BY <1>16, StoredStays
    DEF SendInfo, Go, RoomInv, TypeInv, PlaceType, LocalType, clients, chat, locals,
        database
  <1>17. CASE \E r \in Rooms : ExitRoom(u, r)
    BY <1>17, StoredStays
    DEF ExitRoom, Receive, Go, RoomInv, TypeInv, PlaceType, LocalType, clients, chat,
        locals, database
  <1>18. CASE FindExit(u)
    BY <1>18, StoredStays
    DEF FindExit, Go, Begins, RoomInv, TypeInv, PlaceType, LocalType, clients, chat,
        locals, database
  <1>19. CASE SendExit(u)
    BY <1>19, StoredStays
    DEF SendExit, Go, SendsTo, Ends, RoomInv, TypeInv, PlaceType, LocalType, clients,
        chat, locals, database
  <1>20. CASE CountByRoomMember(u)
    BY <1>20, StoredStays
    DEF CountByRoomMember, Go, RoomInv, TypeInv, PlaceType, LocalType, clients, chat,
        locals, database
  <1>21. CASE DestroyChatting(u)
    BY <1>21, StoredStays
    DEF DestroyChatting, Go, RoomInv, TypeInv, PlaceType, LocalType, clients, chat,
        locals, database
  <1>22. CASE DeleteRoomMember(u)
    BY <1>22, StoredStays
    DEF DeleteRoomMember, Go, RoomInv, TypeInv, PlaceType, LocalType, clients, chat,
        locals, database
  <1>23. CASE ExitFails(u)
    BY <1>23, StoredStays
    DEF ExitFails, Go, Return, Finish, RoomInv, TypeInv, PlaceType, LocalType, clients,
        chat, locals, database
  <1>24. CASE BroadcastRemoved(u)
    BY <1>24, StoredStays
    DEF BroadcastRemoved, Go, Return, Finish, RoomInv, TypeInv, PlaceType, LocalType,
        clients, chat, locals, database
  <1>25. CASE CloseSocket(u)
    <2>1. /\ UNCHANGED <<chattingroom, lastRoom, ChatMessage, dropped>> /\ pc'[u] = "Offline"
          /\ \A w \in Users, r \in Rooms : history'[w][r] \subseteq history[w][r]
      BY <1>25
      DEF CloseSocket, Go, Leaves, RoomInv, TypeInv, PlaceType, LocalType, ChatType
    <2> QED
      BY <2>1, SettledStays, StoredGrows
  <1>26. CASE InsertChattingRoom(u)
    <2>1. /\ UNCHANGED <<ChatMessage, dropped, history>> /\ pc'[u] = "BroadcastRoom"
      BY <1>26 DEF InsertChattingRoom, Go, RoomInv, TypeInv, PlaceType, chat
    <2>2. ASSUME NEW r \in Rooms, Possible(r)'
          PROVE  Possible(r) /\ Settled(r) \subseteq Settled(r)'
      <3>1. /\ lastRoom \in Nat /\ lastRoom' = lastRoom + 1
            /\ chattingroom' = chattingroom \cup {lastRoom'}
        BY <1>26, RoomAssumption
        DEF InsertChattingRoom, RoomInv, TypeInv, DatabaseType
      <3>2. r \in 1..lastRoom => r \in 1..lastRoom' /\ r # lastRoom'
        BY <3>1
      <3> QED
        BY <2>1, <2>2, <3>1, <3>2 DEF Possible, Settled
    <2> QED
      BY <2>1, <2>2, StoredGrows
  <1>27. CASE FindAllMessages(u)
    <2>1. /\ UNCHANGED <<chattingroom, lastRoom, ChatMessage, dropped, history>>
          /\ \/ pc'[u] = "Idle"
             \/ /\ pc'[u] = "SendMessages" /\ room'[u] = room[u]
                /\ packet'[u] = ChatMessage[room[u]]
      <3>1. UNCHANGED <<chattingroom, lastRoom, ChatMessage, dropped, history>>
        BY <1>27 DEF FindAllMessages, database
      <3>2. \/ /\ packet' = [packet EXCEPT ![u] = ChatMessage[room[u]]]
               /\ pc' = [pc EXCEPT ![u] = "SendMessages"] /\ UNCHANGED room
            \/ pc' = [pc EXCEPT ![u] = "Idle"]
        BY <1>27 DEF FindAllMessages, Go, Return, Finish, locals
      <3> QED
        BY <3>1, <3>2 DEF RoomInv, TypeInv, PlaceType, ChatType
    <2>2. \A r \in Rooms : r = room'[u] /\ pc'[u] = "SendMessages" =>
            packet'[u] \subseteq Settled(r)'
      BY <2>1 DEF Settled
    <2> QED
      BY <2>1, <2>2, SettledStays, StoredGrows
  <1>28. CASE SendMessages(u)
    <2>0. room[u] \in Rooms
      BY <1>28, RoomsAreRooms
      DEF SendMessages, RoomInv, TypeInv, UserInv, PlaceInv, Away
    <2>1. /\ UNCHANGED <<chattingroom, lastRoom, ChatMessage, dropped>>
          /\ pc[u] = "SendMessages" /\ pc'[u] = "Idle"
          /\ history' = [history EXCEPT ![u][room[u]] = @ \cup packet[u]]
      BY <1>28
      DEF SendMessages, Go, Return, Finish, RoomInv, TypeInv, PlaceType, LocalType,
          ChatType, database
    <2>2. ASSUME NEW w \in Users, NEW r \in Rooms
          PROVE  \/ history'[w][r] = history[w][r]
                 \/ r = room[u] /\ history'[w][r] = history[w][r] \cup packet[u]
      BY <2>0, <2>1 DEF RoomInv, TypeInv, ChatType
    <2> QED
      BY <2>1, <2>2, SettledStays, StoredGrows
  <1>29. CASE \E r \in Rooms : SendMessage(u, r)
    <2>1. /\ UNCHANGED <<chattingroom, lastRoom, ChatMessage, dropped, history>>
          /\ pc'[u] = "InsertMessage" /\ packet'[u] = rest'[u]
      BY <1>29
      DEF SendMessage, Receive, Go, RoomInv, TypeInv, PlaceType, LocalType, ChatType,
          database
    <2> QED
      BY <2>1, SettledStays, StoredGrows
  <1>30. CASE InsertMessage(u)
    <2>0. room[u] \in Rooms
      BY <1>30, RoomsAreRooms
      DEF InsertMessage, RoomInv, TypeInv, UserInv, PlaceInv, Away
    <2>1. PICK m \in rest[u] : /\ Stores(room[u], m) \/ Drops(room[u], m)
                               /\ rest' = [rest EXCEPT ![u] = @ \ {m}]
      BY <1>30 DEF InsertMessage
    <2>2. /\ UNCHANGED <<chattingroom, lastRoom, room, packet, history>>
          /\ pc[u] = "InsertMessage"
      BY <1>30 DEF InsertMessage, database
    <2>3. pc'[u] = "InsertMessage" \/ (pc'[u] = "GroupBroadcast" /\ rest'[u] = {})
      <3>1. \/ rest'[u] = {} /\ pc' = [pc EXCEPT ![u] = "GroupBroadcast"]
            \/ pc' = pc
        BY <1>30 DEF InsertMessage, Begins, Go
      <3> QED
        BY <2>2, <3>1 DEF RoomInv, TypeInv, PlaceType
    <2>4. /\ \A r \in Rooms : ChatMessage[r] \subseteq ChatMessage'[r]
          /\ dropped \subseteq dropped'
          /\ m \in ChatMessage'[room[u]] \cup dropped'
      <3>1. CASE Stores(room[u], m)
        BY <2>0, <3>1 DEF Stores, RoomInv, TypeInv, ChatType
      <3>2. CASE Drops(room[u], m)
        BY <3>2 DEF Drops
      <3> QED
        BY <2>1, <3>1, <3>2
    <2>5. ASSUME NEW r \in Rooms, r = room[u], Possible(r)
          PROVE  packet[u] \ rest'[u] \subseteq Settled(r)'
      <3>1. rest'[u] = rest[u] \ {m}
        BY <2>1 DEF RoomInv, TypeInv, ChatType
      <3>2. packet[u] \ rest[u] \subseteq Settled(r)
        BY <2>2, <2>5 DEF StoredInv
      <3> QED
        BY <2>4, <2>5, <3>1, <3>2 DEF Settled
    <2>6. ASSUME NEW r \in Rooms, room'[u] = r, Possible(r)
          PROVE  /\ pc'[u] \in {"GroupBroadcast", "SendMessages"} => packet'[u] \subseteq Settled(r)'
                 /\ pc'[u] = "InsertMessage" => packet'[u] \ rest'[u] \subseteq Settled(r)'
      <3>1. packet'[u] \ rest'[u] \subseteq Settled(r)'
        BY <2>2, <2>5, <2>6
      <3> QED
        BY <2>3, <3>1
    <2> QED
      BY <2>2, <2>4, <2>6, SettledStays, StoredGrows
  <1>31. CASE GroupBroadcast(u)
    <2>0. room[u] \in Rooms
      BY <1>31, RoomsAreRooms
      DEF GroupBroadcast, RoomInv, TypeInv, UserInv, PlaceInv, Away
    <2>1. /\ UNCHANGED <<chattingroom, lastRoom, ChatMessage, dropped>>
          /\ pc[u] = "GroupBroadcast"
      BY <1>31 DEF GroupBroadcast, database
    <2>2. CASE \E w \in Users : /\ SendsTo(u, w)
                               /\ history' = [history EXCEPT ![w][room[u]] = @ \cup packet[u]]
                               /\ UNCHANGED <<room, packet>>
      <3>1. ASSUME NEW w \in Users, NEW r \in Rooms
            PROVE  \/ history'[w][r] = history[w][r]
                   \/ r = room[u] /\ history'[w][r] = history[w][r] \cup packet[u]
        BY <2>0, <2>2 DEF RoomInv, TypeInv, ChatType
      <3>2. UNCHANGED <<pc, room, packet>>
        BY <2>2 DEF SendsTo
      <3>3. \A r \in Rooms : room'[u] = r /\ Possible(r) => packet'[u] \subseteq Settled(r)'
        BY <2>1, <3>2 DEF StoredInv, Settled
      <3> QED
        BY <2>1, <3>1, <3>2, <3>3, SettledStays, StoredGrows
    <2>3. CASE pc'[u] = "Idle" /\ history' = history
      BY <2>1, <2>3, SettledStays, StoredGrows
    <2> QED
      BY <1>31, <2>2, <2>3 DEF GroupBroadcast, Ends, Go, RoomInv, TypeInv, PlaceType
  <1>32. CASE ExitGroup(u)
    <2>0. room[u] \in Rooms
      BY <1>32, RoomsAreRooms DEF ExitGroup, RoomInv, TypeInv, UserInv, PlaceInv, Away
    <2>1. /\ UNCHANGED <<chattingroom, lastRoom, ChatMessage, dropped>>
          /\ pc'[u] = "CountByRoomMember"
          /\ \A w \in Users, r \in Rooms : history'[w][r] \subseteq history[w][r]
      BY <1>32, <2>0
      DEF ExitGroup, Leaves, Go, RoomInv, TypeInv, PlaceType, LocalType, ChatType
    <2> QED
      BY <2>1, SettledStays, StoredGrows
  <1>33. CASE CommitExit(u)
    <2>1. UNCHANGED <<history, dropped>> /\ pc'[u] \in {"BroadcastRemoved", "Idle"}
      BY <1>33 DEF CommitExit, Go, Return, Finish, RoomInv, TypeInv, PlaceType
    <2>2. ASSUME NEW r \in Rooms, Possible(r)'
          PROVE  Possible(r) /\ Settled(r) \subseteq Settled(r)'
      <3>1. /\ lastRoom' = lastRoom /\ chattingroom' = {q \in chattingroom : destroyer[q] # u}
            /\ ChatMessage'[r] = IF destroyer[r] = u THEN {} ELSE ChatMessage[r]
        BY <1>33 DEF CommitExit
      <3>2. destroyer[r] = u => r \in 1..lastRoom
        BY DEF RoomInv, LockInv, UserInv, ExitInv
      <3> QED
        BY <2>1, <2>2, <3>1, <3>2 DEF Possible, Settled
    <2> QED
      BY <2>1, <2>2, StoredGrows
  <1>34. CASE CountFails(u)
    BY <1>34, StoredStays
    DEF CountFails, Go, Return, Finish, RoomInv, TypeInv, PlaceType, LocalType, clients,
        chat, locals, database
  <1>35. CASE DestroyFails(u)
    BY <1>35, StoredStays
    DEF DestroyFails, Go, RoomInv, TypeInv, PlaceType, LocalType, clients, chat, locals,
        database
  <1>36. CASE DeleteFails(u)
    BY <1>36, StoredStays
    DEF DeleteFails, Go, RoomInv, TypeInv, PlaceType, LocalType, clients, chat, locals,
        database
  <1> QED
    BY <1>1, <1>2, <1>3, <1>4, <1>5, <1>6, <1>7, <1>8, <1>9, <1>10, <1>11, <1>12,
       <1>13, <1>14, <1>15, <1>16, <1>17, <1>18, <1>19, <1>20, <1>21, <1>22, <1>23,
       <1>24, <1>25, <1>26, <1>27, <1>28, <1>29, <1>30, <1>31, <1>32, <1>33,
       <1>34, <1>35, <1>36
    DEF RecvProc, Fails

-----------------------------------------------------------------------------
(* The history of a room.                                                  *)

\* Message m of room r is in a packet on its way to the client of user w.
Coming(w, r, m) ==
    \E v \in Users : /\ room[v] = r /\ m \in packet[v]
                     /\ \/ pc[v] = "InsertMessage"
                        \/ pc[v] = "GroupBroadcast" /\ w \in toReach[v]

\* The client knows message m of room r, or will.
Knows(w, r, m) == m \in history[w][r] \/ Coming(w, r, m)

CaughtInv ==
    /\ \A w \in Users, r \in Rooms : r \in caughtUp[w] =>
         w \in GroupNetworkSessions[r] /\ \A m \in ChatMessage[r] : Knows(w, r, m)
    /\ \A w \in Users, r \in Rooms : pc[w] \in InfoPCs /\ room[w] = r =>
         w \in GroupNetworkSessions[r]
    /\ \A w \in Users, r \in Rooms : pc[w] = "SendMessages" /\ room[w] = r =>
         \A m \in ChatMessage[r] : m \in packet[w] \/ Knows(w, r, m)

\* A step after which a client of a group still knows, or will, what it did,
\* and whatever has been stored.
LEMMA CaughtStep ==
  ASSUME CaughtInv, NEW u \in Users, StepOf(u),
         \A w \in Users, r \in Rooms : w \in GroupNetworkSessions'[r] =>
            /\ \A m \in ChatMessage[r] : Knows(w, r, m) => Knows(w, r, m)'
            /\ \A m \in ChatMessage'[r] \ ChatMessage[r] : Knows(w, r, m)',
         \A w \in Users, r \in Rooms : r \in caughtUp'[w] =>
            /\ w \in GroupNetworkSessions'[r]
            /\ r \in caughtUp[w] \/ \A m \in ChatMessage'[r] : Knows(w, r, m)',
         \A w \in Users \ {u}, r \in Rooms :
            w \in GroupNetworkSessions[r] => w \in GroupNetworkSessions'[r],
         \A r \in Rooms : pc'[u] \in InfoPCs /\ room'[u] = r =>
            u \in GroupNetworkSessions'[r],
         \A r \in Rooms : pc'[u] = "SendMessages" /\ room'[u] = r =>
            \A m \in ChatMessage'[r] : m \in packet'[u] \/ Knows(u, r, m)'
  PROVE  CaughtInv'
  <1>1. ASSUME NEW w \in Users, NEW r \in Rooms, r \in caughtUp'[w]
        PROVE  w \in GroupNetworkSessions'[r] /\ \A m \in ChatMessage'[r] : Knows(w, r, m)'
    BY <1>1 DEF CaughtInv
  <1>2. ASSUME NEW w \in Users, NEW r \in Rooms, pc'[w] \in InfoPCs, room'[w] = r
        PROVE  w \in GroupNetworkSessions'[r]
    BY <1>2 DEF CaughtInv, StepOf, SameUser
  <1>3. ASSUME NEW w \in Users, NEW r \in Rooms, pc'[w] = "SendMessages", room'[w] = r,
               NEW m \in ChatMessage'[r]
        PROVE  m \in packet'[w] \/ Knows(w, r, m)'
    <2>1. CASE w = u
      BY <1>3, <2>1
    <2>2. CASE w # u
      <3>1. w \in GroupNetworkSessions'[r]
        BY <1>2, <1>3 DEF InfoPCs
      <3> QED
        BY <1>3, <2>2, <3>1 DEF CaughtInv, StepOf, SameUser
    <2> QED
      BY <2>1, <2>2
  <1> QED
    BY <1>1, <1>2, <1>3 DEF CaughtInv

\* One that is not about messages.
LEMMA CaughtStays ==
  ASSUME CaughtInv, NEW u \in Users, StepOf(u),
         UNCHANGED <<GroupNetworkSessions, history, caughtUp>>,
         \A r \in Rooms : ChatMessage'[r] \subseteq ChatMessage[r],
         \A v \in Users \ {u} : toReach'[v] = toReach[v],
         pc[u] \notin {"InsertMessage", "GroupBroadcast"}, pc'[u] # "SendMessages",
         pc'[u] \in InfoPCs => u \in GroupNetworkSessions'[room'[u]]
  PROVE  CaughtInv'
  <1>1. ASSUME NEW w \in Users, NEW r \in Rooms, NEW m, Knows(w, r, m) PROVE Knows(w, r, m)'
    BY <1>1 DEF Knows, Coming, StepOf, SameUser
  <1>2. \A w \in Users, r \in Rooms : r \in caughtUp'[w] => w \in GroupNetworkSessions'[r]
    BY DEF CaughtInv
  <1> QED
    BY <1>1, <1>2, CaughtStep

LEMMA ThreadCaughtInv ==
  ASSUME RoomInv, CaughtInv, NEW u \in Users, RecvProc(u) \/ Fails(u), RoomInv', StepOf(u)
  PROVE  CaughtInv'
  <1>1. CASE Connect(u)
    BY <1>1, CaughtStays
    DEF Connect, Go, RoomInv, TypeInv, PlaceType, LocalType, clients, chat, locals,
        database, InfoPCs
  <1>2. CASE Login(u)
    BY <1>2, CaughtStays
    DEF Login, Go, Return, Finish, RoomInv, TypeInv, PlaceType, LocalType, clients, chat,
        locals, database, InfoPCs
  <1>3. CASE SendRooms(u)
    BY <1>3, CaughtStays
    DEF SendRooms, Go, Return, Finish, RoomInv, TypeInv, PlaceType, LocalType, clients,
        chat, locals, database, InfoPCs
  <1>4. CASE CreateRoom(u)
    BY <1>4, CaughtStays
    DEF CreateRoom, Receive, Go, RoomInv, TypeInv, PlaceType, LocalType, clients, chat,
        locals, database, InfoPCs
  <1>5. CASE InsertChattingRoom(u)
    BY <1>5, CaughtStays
    DEF InsertChattingRoom, Go, RoomInv, TypeInv, PlaceType, LocalType, clients, chat,
        locals, database, InfoPCs
  <1>6. CASE BroadcastRoom(u)
    BY <1>6, CaughtStays
    DEF BroadcastRoom, Go, Return, Finish, RoomInv, TypeInv, PlaceType, LocalType,
        clients, chat, locals, database, InfoPCs
  <1>7. CASE \E r \in Rooms : EntryRoom(u, r)
    BY <1>7, CaughtStays
    DEF EntryRoom, Receive, Go, RoomInv, TypeInv, PlaceType, LocalType, clients, chat,
        locals, database, InfoPCs
  <1>8. CASE FindPassword(u)
    BY <1>8, CaughtStays
    DEF FindPassword, Go, Return, Finish, RoomInv, TypeInv, PlaceType, LocalType,
        clients, chat, locals, database, InfoPCs
  <1>9. CASE InsertRoomMember(u)
    BY <1>9, CaughtStays
    DEF InsertRoomMember, Go, RoomInv, TypeInv, PlaceType, LocalType, clients, chat,
        locals, database, InfoPCs
  <1>10. CASE CommitEntry(u)
    BY <1>10, CaughtStays
    DEF CommitEntry, Go, RoomInv, TypeInv, PlaceType, LocalType, clients, chat, locals,
        database, InfoPCs
  <1>11. CASE EntryFails(u)
    BY <1>11, CaughtStays
    DEF EntryFails, Go, Return, Finish, RoomInv, TypeInv, PlaceType, LocalType, clients,
        chat, locals, database, InfoPCs
  <1>12. CASE FindEntry(u)
    BY <1>12, CaughtStays
    DEF FindEntry, Go, Begins, RoomInv, TypeInv, PlaceType, LocalType, clients, chat,
        locals, database, InfoPCs
  <1>13. CASE SendEntry(u)
    BY <1>13, CaughtStays
    DEF SendEntry, Go, SendsTo, Ends, RoomInv, TypeInv, PlaceType, LocalType, clients,
        chat, locals, database, InfoPCs
  <1>14. CASE \E r \in Rooms : RequireRoomInfo(u, r)
    BY <1>14, CaughtStays
    DEF RequireRoomInfo, Receive, Go, RoomInv, TypeInv, PlaceType, LocalType, clients,
        chat, locals, database, InfoPCs
  <1>15. CASE \E r \in Rooms : ExitRoom(u, r)
    BY <1>15, CaughtStays
    DEF ExitRoom, Receive, Go, RoomInv, TypeInv, PlaceType, LocalType, clients, chat,
        locals, database, InfoPCs
  <1>16. CASE FindExit(u)
    BY <1>16, CaughtStays
    DEF FindExit, Go, Begins, RoomInv, TypeInv, PlaceType, LocalType, clients, chat,
        locals, database, InfoPCs
  <1>17. CASE SendExit(u)
    BY <1>17, CaughtStays
    DEF SendExit, Go, SendsTo, Ends, RoomInv, TypeInv, PlaceType, LocalType, clients,
        chat, locals, database, InfoPCs
  <1>18. CASE CountByRoomMember(u)
    BY <1>18, CaughtStays
    DEF CountByRoomMember, Go, RoomInv, TypeInv, PlaceType, LocalType, clients, chat,
        locals, database, InfoPCs
  <1>19. CASE DestroyChatting(u)
    BY <1>19, CaughtStays
    DEF DestroyChatting, Go, RoomInv, TypeInv, PlaceType, LocalType, clients, chat,
        locals, database, InfoPCs
  <1>20. CASE DeleteRoomMember(u)
    BY <1>20, CaughtStays
    DEF DeleteRoomMember, Go, RoomInv, TypeInv, PlaceType, LocalType, clients, chat,
        locals, database, InfoPCs
  <1>21. CASE CommitExit(u)
    BY <1>21, CaughtStays
    DEF CommitExit, Go, Return, Finish, RoomInv, TypeInv, PlaceType, LocalType, clients,
        chat, locals, database, InfoPCs
  <1>22. CASE ExitFails(u)
    BY <1>22, CaughtStays
    DEF ExitFails, Go, Return, Finish, RoomInv, TypeInv, PlaceType, LocalType, clients,
        chat, locals, database, InfoPCs
  <1>23. CASE BroadcastRemoved(u)
    BY <1>23, CaughtStays
    DEF BroadcastRemoved, Go, Return, Finish, RoomInv, TypeInv, PlaceType, LocalType,
        clients, chat, locals, database, InfoPCs
  <1>24. CASE CloseSocket(u)
    <2>1. /\ UNCHANGED <<ChatMessage, packet>> /\ pc[u] = "Idle" /\ pc'[u] = "Offline"
          /\ \A r \in Rooms : GroupNetworkSessions'[r] = GroupNetworkSessions[r] \ {u}
          /\ \A v, w \in Users : w \in toReach[v] /\ w # u => w \in toReach'[v]
          /\ \A w \in Users \ {u} : history'[w] = history[w] /\ caughtUp'[w] = caughtUp[w]
          /\ caughtUp'[u] = {}
      BY <1>24
      DEF CloseSocket, Go, Leaves, RoomInv, TypeInv, PlaceType, LocalType, ChatType,
          GroupType
    <2>k. ASSUME NEW w \in Users, NEW r \in Rooms, NEW m, Knows(w, r, m), w # u
          PROVE  Knows(w, r, m)'
      BY <2>k, <2>1 DEF Knows, Coming, StepOf, SameUser
    <2> QED
      BY <2>1, <2>k, CaughtStep DEF CaughtInv, InfoPCs
  <1>25. CASE EntryGroup(u)
    <2>1. /\ UNCHANGED <<ChatMessage, packet, history, caughtUp>>
          /\ pc[u] = "EntryGroup" /\ pc'[u] = "Idle"
          /\ \A r \in Rooms : GroupNetworkSessions[r] \subseteq GroupNetworkSessions'[r]
          /\ \A v \in Users : toReach[v] \subseteq toReach'[v]
      BY <1>25
      DEF EntryGroup, Joins, Finish, Go, RoomInv, TypeInv, PlaceType, LocalType,
          ChatType, GroupType, chat
    <2>k. ASSUME NEW w \in Users, NEW r \in Rooms, NEW m, Knows(w, r, m)
          PROVE  Knows(w, r, m)'
      BY <2>k, <2>1 DEF Knows, Coming, StepOf, SameUser
    <2> QED
      BY <2>1, <2>k, CaughtStep DEF CaughtInv, InfoPCs
  <1>26. CASE FindAllMembers(u)
    <2>0. room[u] \in Rooms
      BY <1>26, RoomsAreRooms
      DEF FindAllMembers, RoomInv, TypeInv, UserInv, PlaceInv, Away
    <2>g. u \in GroupNetworkSessions[room[u]]
      BY <1>26, <2>0 DEF FindAllMembers, CaughtInv, InfoPCs
    <2> QED
      BY <1>26, <2>0, <2>g, CaughtStays
      DEF FindAllMembers, Go, InfoPCs, RoomInv, TypeInv, PlaceType, clients, chat,
          database
  <1>27. CASE SendInfo(u)
    <2>0. room[u] \in Rooms
      BY <1>27, RoomsAreRooms DEF SendInfo, RoomInv, TypeInv, UserInv, PlaceInv, Away
    <2>g. u \in GroupNetworkSessions[room[u]]
      BY <1>27, <2>0 DEF SendInfo, CaughtInv, InfoPCs
    <2> QED
      BY <1>27, <2>0, <2>g, CaughtStays
      DEF SendInfo, Go, InfoPCs, RoomInv, TypeInv, PlaceType, clients, chat, locals,
          database
  <1>28. CASE FindAllMessages(u)
    <2>0. room[u] \in Rooms
      BY <1>28, RoomsAreRooms
      DEF FindAllMessages, RoomInv, TypeInv, UserInv, PlaceInv, Away
    <2>g. u \in GroupNetworkSessions[room[u]]
      BY <1>28, <2>0 DEF FindAllMessages, CaughtInv, InfoPCs
    <2>1. /\ UNCHANGED <<ChatMessage, history, toReach, GroupNetworkSessions>>
          /\ pc[u] = "FindAllMessages"
          /\ \A w \in Users \ {u} : caughtUp'[w] = caughtUp[w]
          /\ \/ pc'[u] = "Idle" /\ caughtUp'[u] = caughtUp[u]
             \/ /\ pc'[u] = "Idle" /\ caughtUp'[u] = caughtUp[u] \cup {room[u]}
                /\ ChatMessage[room[u]] = {}
             \/ /\ pc'[u] = "SendMessages" /\ room'[u] = room[u]
                /\ packet'[u] = ChatMessage[room[u]] /\ caughtUp'[u] = caughtUp[u]
      <3>1. /\ UNCHANGED <<ChatMessage, history, GroupNetworkSessions>>
            /\ pc[u] = "FindAllMessages"
        BY <1>28 DEF FindAllMessages
      <3>2. \/ /\ packet' = [packet EXCEPT ![u] = ChatMessage[room[u]]]
               /\ pc' = [pc EXCEPT ![u] = "SendMessages"]
               /\ UNCHANGED <<room, toReach, caughtUp>>
            \/ /\ pc' = [pc EXCEPT ![u] = "Idle"]
               /\ UNCHANGED <<toReach, caughtUp>>
            \/ /\ ChatMessage[room[u]] = {}
               /\ caughtUp' = [caughtUp EXCEPT ![u] = @ \cup {room[u]}]
               /\ pc' = [pc EXCEPT ![u] = "Idle"]
               /\ UNCHANGED toReach
        BY <1>28 DEF FindAllMessages, Go, Return, Finish, locals
      <3> QED
        BY <3>1, <3>2 DEF RoomInv, TypeInv, PlaceType, LocalType, ChatType, GroupType
    <2>k. ASSUME NEW w \in Users, NEW r \in Rooms, NEW m, Knows(w, r, m)
          PROVE  Knows(w, r, m)'
      BY <2>k, <2>1 DEF Knows, Coming, StepOf, SameUser
    <2>2. \A w \in Users, r \in Rooms : r \in caughtUp'[w] =>
            r \in caughtUp[w] \/ (w = u /\ r = room[u] /\ ChatMessage'[r] = {})
      BY <2>1
    <2>3. \A w \in Users, r \in Rooms : r \in caughtUp'[w] => w \in GroupNetworkSessions'[r]
      BY <2>1, <2>2, <2>g DEF CaughtInv
    <2>4. \A r \in Rooms : pc'[u] \in InfoPCs /\ room'[u] = r =>
            r = room[u] /\ (pc'[u] = "SendMessages" => packet'[u] = ChatMessage'[r])
      BY <2>1 DEF InfoPCs
    <2> QED
      BY <2>1, <2>2, <2>3, <2>4, <2>g, <2>k, CaughtStep DEF InfoPCs
  <1>29. CASE SendMessages(u)
    <2>0. room[u] \in Rooms
      BY <1>29, RoomsAreRooms
      DEF SendMessages, RoomInv, TypeInv, UserInv, PlaceInv, Away
    <2>g. u \in GroupNetworkSessions[room[u]]
      BY <1>29, <2>0 DEF SendMessages, CaughtInv, InfoPCs
    <2>1. /\ UNCHANGED <<ChatMessage, toReach, GroupNetworkSessions>>
          /\ pc[u] = "SendMessages" /\ pc'[u] = "Idle"
          /\ \A w \in Users, r \in Rooms : history[w][r] \subseteq history'[w][r]
          /\ packet[u] \subseteq history'[u][room[u]]
          /\ caughtUp'[u] = caughtUp[u] \cup {room[u]}
          /\ \A w \in Users \ {u} : caughtUp'[w] = caughtUp[w]
      BY <1>29, <2>0
      DEF SendMessages, Go, Return, Finish, RoomInv, TypeInv, PlaceType, LocalType,
          ChatType, GroupType
    <2>k. ASSUME NEW w \in Users, NEW r \in Rooms, NEW m, Knows(w, r, m)
          PROVE  Knows(w, r, m)'
      BY <2>k, <2>1 DEF Knows, Coming, StepOf, SameUser
    <2>2. \A m \in ChatMessage[room[u]] : m \in packet[u] \/ Knows(u, room[u], m)
      BY <2>0, <2>1 DEF CaughtInv
    <2>3. \A r \in Rooms : r = room[u] => \A m \in ChatMessage'[r] : Knows(u, r, m)'
      BY <2>0, <2>1, <2>2, <2>k DEF Knows
    <2> QED
      BY <2>0, <2>1, <2>3, <2>g, <2>k, CaughtStep DEF CaughtInv, InfoPCs
  <1>30. CASE \E r \in Rooms : SendMessage(u, r)
    <2>1. /\ UNCHANGED <<ChatMessage, history, caughtUp, toReach, GroupNetworkSessions>>
          /\ pc[u] = "Idle" /\ pc'[u] = "InsertMessage"
      BY <1>30
      DEF SendMessage, Receive, Go, RoomInv, TypeInv, PlaceType, LocalType, ChatType,
          GroupType
    <2>k. ASSUME NEW w \in Users, NEW r \in Rooms, NEW m, Knows(w, r, m)
          PROVE  Knows(w, r, m)'
      BY <2>k, <2>1 DEF Knows, Coming, StepOf, SameUser
    <2> QED
      BY <2>1, <2>k, CaughtStep DEF CaughtInv, InfoPCs
  <1>31. CASE InsertMessage(u)
    <2>0. room[u] \in Rooms
      BY <1>31, RoomsAreRooms
      DEF InsertMessage, RoomInv, TypeInv, UserInv, PlaceInv, Away
    <2>1. PICK m \in rest[u] :
            \/ ChatMessage' = [ChatMessage EXCEPT ![room[u]] = @ \cup {m}]
            \/ UNCHANGED ChatMessage
      BY <1>31 DEF InsertMessage, Stores, Drops
    <2>2. /\ UNCHANGED <<GroupNetworkSessions, room, packet, history, caughtUp>>
          /\ pc[u] = "InsertMessage"
      BY <1>31 DEF InsertMessage
    <2>3. \/ UNCHANGED <<pc, toReach>>
          \/ /\ pc' = [pc EXCEPT ![u] = "GroupBroadcast"]
             /\ toReach' = [toReach EXCEPT ![u] = GroupNetworkSessions[room[u]]]
      BY <1>31 DEF InsertMessage, Begins, Go
    <2>4. /\ \A v \in Users \ {u} : toReach'[v] = toReach[v]
          /\ \/ pc'[u] = "InsertMessage"
             \/ pc'[u] = "GroupBroadcast" /\ toReach'[u] = GroupNetworkSessions[room[u]]
      BY <2>2, <2>3 DEF RoomInv, TypeInv, PlaceType, LocalType
    <2>5. /\ m \in packet[u]
          /\ \A r \in Rooms : ChatMessage'[r] \subseteq
                IF r = room[u] THEN ChatMessage[r] \cup {m} ELSE ChatMessage[r]
      BY <2>0, <2>1 DEF RoomInv, TypeInv, ChatType
    <2>6. ASSUME NEW w \in Users, NEW n \in packet[u], w \in GroupNetworkSessions'[room[u]]
          PROVE  \E v \in Users : /\ room'[v] = room[u] /\ n \in packet'[v]
                                  /\ \/ pc'[v] = "InsertMessage"
                                     \/ pc'[v] = "GroupBroadcast" /\ w \in toReach'[v]
      BY <2>2, <2>4, <2>6
    <2>k. ASSUME NEW w \in Users, NEW r \in Rooms, w \in GroupNetworkSessions'[r], NEW n
          PROVE  /\ Knows(w, r, n) => Knows(w, r, n)'
                 /\ n \in packet[u] /\ r = room[u] => Knows(w, r, n)'
      BY <2>k, <2>2, <2>4, <2>6 DEF Knows, Coming, StepOf, SameUser
    <2> QED
      BY <2>0, <2>2, <2>4, <2>5, <2>k, CaughtStep DEF CaughtInv, InfoPCs
  <1>32. CASE GroupBroadcast(u)
    <2>0. room[u] \in Rooms
      BY <1>32, RoomsAreRooms
      DEF GroupBroadcast, RoomInv, TypeInv, UserInv, PlaceInv, Away
    <2>1. UNCHANGED <<GroupNetworkSessions, ChatMessage, caughtUp>> /\ pc[u] = "GroupBroadcast"
      BY <1>32 DEF GroupBroadcast
    <2>2. CASE \E w \in Users : /\ SendsTo(u, w)
                               /\ history' = [history EXCEPT ![w][room[u]] = @ \cup packet[u]]
                               /\ UNCHANGED <<room, packet>>
      <3>1. PICK w \in Users : /\ SendsTo(u, w)
                               /\ history' = [history EXCEPT ![w][room[u]] = @ \cup packet[u]]
                               /\ UNCHANGED <<room, packet>>
        BY <2>2
      <3>2. /\ UNCHANGED <<pc, room, packet>>
            /\ \A v, z \in Users : z \in toReach[v] /\ ~(v = u /\ z = w) => z \in toReach'[v]
            /\ \A z \in Users, r \in Rooms : history[z][r] \subseteq history'[z][r]
            /\ packet[u] \subseteq history'[w][room[u]]
        BY <2>0, <3>1
        DEF SendsTo, RoomInv, TypeInv, PlaceType, LocalType, ChatType, GroupType
      <3>k. ASSUME NEW z \in Users, NEW r \in Rooms, NEW n, Knows(z, r, n)
            PROVE  Knows(z, r, n)'
        BY <3>k, <3>2 DEF Knows, Coming
      <3> QED
        BY <2>1, <3>2, <3>k, CaughtStep DEF CaughtInv, InfoPCs
    <2>3. CASE /\ toReach[u] = {} /\ UNCHANGED <<history, toReach>> /\ pc'[u] = "Idle"
      <3>k. ASSUME NEW z \in Users, NEW r \in Rooms, NEW n, Knows(z, r, n)
            PROVE  Knows(z, r, n)'
        BY <3>k, <2>1, <2>3 DEF Knows, Coming, StepOf, SameUser
      <3> QED
        BY <2>1, <2>3, <3>k, CaughtStep DEF CaughtInv, InfoPCs
    <2> QED
      BY <1>32, <2>2, <2>3
      DEF GroupBroadcast, Ends, Finish, Go, RoomInv, TypeInv, PlaceType
  <1>33. CASE ExitGroup(u)
    <2>0. room[u] \in Rooms
      BY <1>33, RoomsAreRooms DEF ExitGroup, RoomInv, TypeInv, UserInv, PlaceInv, Away
    <2>1. /\ UNCHANGED <<ChatMessage, packet>> /\ pc[u] = "ExitGroup" /\ pc'[u] = "CountByRoomMember"
          /\ \A r \in Rooms : GroupNetworkSessions'[r] =
                IF r = room[u] THEN GroupNetworkSessions[r] \ {u} ELSE GroupNetworkSessions[r]
          /\ \A v, w \in Users : w \in toReach[v] /\ ~(w = u /\ room[v] = room[u]) => w \in toReach'[v]
          /\ \A w \in Users, r \in Rooms : ~(w = u /\ r = room[u]) =>
                history'[w][r] = history[w][r]
          /\ \A w \in Users : w # u => caughtUp'[w] = caughtUp[w]
          /\ caughtUp'[u] = caughtUp[u] \ {room[u]}
      BY <1>33, <2>0
      DEF ExitGroup, Leaves, Go, RoomInv, TypeInv, PlaceType, LocalType, ChatType,
          GroupType
    <2>k. ASSUME NEW w \in Users, NEW r \in Rooms, NEW m, Knows(w, r, m), ~(w = u /\ r = room[u])
          PROVE  Knows(w, r, m)'
      BY <2>k, <2>1 DEF Knows, Coming, StepOf, SameUser
    <2>2. ASSUME NEW w \in Users, NEW r \in Rooms
          PROVE  w \in GroupNetworkSessions'[r] <=>
                    w \in GroupNetworkSessions[r] /\ ~(w = u /\ r = room[u])
      BY <2>1
    <2>3. \A w \in Users, r \in Rooms : r \in caughtUp'[w] =>
             w \in GroupNetworkSessions'[r] /\ r \in caughtUp[w]
      BY <2>1 DEF CaughtInv
    <2> QED
      BY <2>1, <2>2, <2>3, <2>k, CaughtStep DEF InfoPCs
  <1>34. CASE CountFails(u)
    BY <1>34, CaughtStays
    DEF CountFails, Go, Return, Finish, RoomInv, TypeInv, PlaceType, LocalType, clients,
        chat, locals, database, InfoPCs
  <1>35. CASE DestroyFails(u)
    BY <1>35, CaughtStays
    DEF DestroyFails, Go, RoomInv, TypeInv, PlaceType, LocalType, clients, chat, locals,
        database, InfoPCs
  <1>36. CASE DeleteFails(u)
    BY <1>36, CaughtStays
    DEF DeleteFails, Go, RoomInv, TypeInv, PlaceType, LocalType, clients, chat, locals,
        database, InfoPCs
  <1> QED
    BY <1>1, <1>2, <1>3, <1>4, <1>5, <1>6, <1>7, <1>8, <1>9, <1>10, <1>11, <1>12,
       <1>13, <1>14, <1>15, <1>16, <1>17, <1>18, <1>19, <1>20, <1>21, <1>22, <1>23,
       <1>24, <1>25, <1>26, <1>27, <1>28, <1>29, <1>30, <1>31, <1>32, <1>33,
       <1>34, <1>35, <1>36
    DEF RecvProc, Fails

-----------------------------------------------------------------------------
(* The members of a room.                                                  *)

\* User w has a row for room r, which its last INSERT stored, and is in its group,
\* or tells it that it enters.
InRoom(w, r) ==
    /\ RoomMember[r][w] > 0 /\ w \notin unstored[r]
    /\ \/ w \in GroupNetworkSessions[r] /\ ~Leaving(w, r)
       \/ room[w] = r /\ pc[w] \in {"SendEntry", "EntryGroup"}

\* The client of user v knows w to be in room r, or will.
Told(v, w, r) ==
    \/ w \in members[v][r]
    \/ room[w] = r /\ pc[w] = "SendEntry" /\ v \in toReach[w]

MemberInv ==
    /\ \A v \in Users, r \in Rooms : r \in informed[v] =>
         v \in GroupNetworkSessions[r] /\ \A w \in Users : InRoom(w, r) => Told(v, w, r)
    /\ \A v \in Users, r \in Rooms : pc[v] = "SendInfo" /\ room[v] = r =>
         \A w \in Users : InRoom(w, r) => w \in found[v] \/ Told(v, w, r)
    /\ \A v \in Users, r \in Rooms : pc[v] \in EntryPCs /\ room[v] = r =>
         v \notin GroupNetworkSessions[r]

\* A step after which a client of a group still knows, or will, who is in the
\* room, and who comes into it.
LEMMA MemberStep ==
  ASSUME MemberInv, CaughtInv, NEW u \in Users, StepOf(u),
         \A v, w \in Users, r \in Rooms : v \in GroupNetworkSessions'[r] /\ InRoom(w, r)' =>
            Told(v, w, r)' \/ (InRoom(w, r) /\ ~Told(v, w, r)),
         \A v \in Users, r \in Rooms : r \in informed'[v] =>
            /\ v \in GroupNetworkSessions'[r]
            /\ r \in informed[v] \/ \A w \in Users : InRoom(w, r)' => Told(v, w, r)',
         \A v \in Users \ {u}, r \in Rooms :
            v \in GroupNetworkSessions[r] <=> v \in GroupNetworkSessions'[r],
         \A r \in Rooms : pc'[u] = "SendInfo" /\ room'[u] = r =>
            \A w \in Users : InRoom(w, r)' => w \in found'[u] \/ Told(u, w, r)',
         \A r \in Rooms : pc'[u] \in EntryPCs /\ room'[u] = r =>
            u \notin GroupNetworkSessions'[r]
  PROVE  MemberInv'
  <1>1. ASSUME NEW v \in Users, NEW r \in Rooms, r \in informed'[v], NEW w \in Users, InRoom(w, r)'
        PROVE  Told(v, w, r)'
    BY <1>1 DEF MemberInv
  <1>2. ASSUME NEW v \in Users, NEW r \in Rooms, pc'[v] = "SendInfo", room'[v] = r,
               NEW w \in Users, InRoom(w, r)'
        PROVE  w \in found'[v] \/ Told(v, w, r)'
    <2>1. CASE v = u
      BY <1>2, <2>1
    <2>2. CASE v # u
      <3>1. pc[v] = "SendInfo" /\ room[v] = r /\ found'[v] = found[v]
        BY <1>2, <2>2 DEF StepOf, SameUser
      <3>2. v \in GroupNetworkSessions'[r]
        BY <2>2, <3>1 DEF CaughtInv, InfoPCs
      <3> QED
        BY <1>2, <3>1, <3>2 DEF MemberInv
    <2> QED
      BY <2>1, <2>2
  <1>3. ASSUME NEW v \in Users, NEW r \in Rooms, pc'[v] \in EntryPCs, room'[v] = r
        PROVE  v \notin GroupNetworkSessions'[r]
    BY <1>3 DEF MemberInv, StepOf, SameUser
  <1> QED
    BY <1>1, <1>2, <1>3 DEF MemberInv

\* One that is not about members.
LEMMA MemberStays ==
  ASSUME MemberInv, CaughtInv, NEW u \in Users, StepOf(u),
         UNCHANGED <<GroupNetworkSessions, members, informed, RoomMember>>,
         \A w \in Users, r \in Rooms : w \in unstored[r] =>
            w \in unstored'[r] \/ (w = u /\ r = room[u] /\ pc[u] \in EntryPCs),
         \A v \in Users \ {u} : toReach'[v] = toReach[v],
         pc[u] # "SendEntry", pc'[u] \notin {"SendEntry", "EntryGroup", "SendInfo"},
         \A r \in Rooms : Leaving(u, r) => Leaving(u, r)',
         \A r \in Rooms : pc'[u] \in EntryPCs /\ room'[u] = r =>
            (pc[u] \in EntryPCs /\ room[u] = r) \/ u \notin GroupNetworkSessions[r]
  PROVE  MemberInv'
  <1>1. ASSUME NEW w \in Users, NEW r \in Rooms, InRoom(w, r)' PROVE InRoom(w, r)
    <2>1. CASE w = u
      <3>1. w \in GroupNetworkSessions[r] /\ ~Leaving(w, r) /\ RoomMember[r][w] > 0
        BY <1>1, <2>1 DEF InRoom
      <3>2. w \notin unstored[r]
        BY <1>1, <2>1, <3>1 DEF InRoom, MemberInv
      <3> QED
        BY <3>1, <3>2 DEF InRoom
    <2>2. CASE w # u
      BY <1>1, <2>2 DEF InRoom, Leaving, StepOf, SameUser
    <2> QED
      BY <2>1, <2>2
  <1>2. ASSUME NEW v \in Users, NEW w \in Users, NEW r \in Rooms, Told(v, w, r)
        PROVE  Told(v, w, r)'
    BY <1>2 DEF Told, StepOf, SameUser
  <1>3. \A v \in Users, r \in Rooms : r \in informed'[v] =>
            v \in GroupNetworkSessions'[r] /\ r \in informed[v]
    BY DEF MemberInv
  <1>4. \A r \in Rooms : pc'[u] \in EntryPCs /\ room'[u] = r => u \notin GroupNetworkSessions'[r]
    BY DEF MemberInv
  <1> QED
    BY <1>1, <1>2, <1>3, <1>4, MemberStep

LEMMA ThreadMemberInv ==
  ASSUME RoomInv, CaughtInv, MemberInv, NEW u \in Users, RecvProc(u) \/ Fails(u), RoomInv', StepOf(u)
  PROVE  MemberInv'
  <1>1. CASE Connect(u)
    BY <1>1, MemberStays
    DEF Connect, Go, RoomInv, TypeInv, PlaceType, LocalType, clients, chat, locals,
        database, Leaving, EntryPCs
  <1>2. CASE Login(u)
    <2>1. UNCHANGED <<GroupNetworkSessions, members, informed, RoomMember, unstored, toReach>>
      BY <1>2 DEF Login, Return, clients, database
    <2>2. pc[u] = "Login" /\ pc'[u] \in {"SendRooms", "Idle"}
      BY <1>2 DEF Login, Return, Finish, Go, RoomInv, TypeInv, PlaceType
    <2> QED
      BY <2>1, <2>2, MemberStays DEF Leaving, EntryPCs
  <1>3. CASE SendRooms(u)
    BY <1>3, MemberStays
    DEF SendRooms, Go, Return, Finish, RoomInv, TypeInv, PlaceType, LocalType, clients,
        chat, locals, database, Leaving, EntryPCs
  <1>4. CASE CreateRoom(u)
    BY <1>4, MemberStays
    DEF CreateRoom, Receive, Go, RoomInv, TypeInv, PlaceType, LocalType, clients, chat,
        locals, database, Leaving, EntryPCs
  <1>5. CASE InsertChattingRoom(u)
    BY <1>5, MemberStays
    DEF InsertChattingRoom, Go, RoomInv, TypeInv, PlaceType, LocalType, clients, chat,
        locals, database, Leaving, EntryPCs
  <1>6. CASE BroadcastRoom(u)
    BY <1>6, MemberStays
    DEF BroadcastRoom, Go, Return, Finish, RoomInv, TypeInv, PlaceType, LocalType,
        clients, chat, locals, database, Leaving, EntryPCs
  <1>7. CASE \E r \in Rooms : EntryRoom(u, r)
    BY <1>7, MemberStays
    DEF EntryRoom, Receive, Go, RoomInv, TypeInv, PlaceType, LocalType, clients, chat,
        locals, database, Leaving, EntryPCs
  <1>8. CASE FindPassword(u)
    BY <1>8, MemberStays
    DEF FindPassword, Go, Return, Finish, RoomInv, TypeInv, PlaceType, LocalType,
        clients, chat, locals, database, Leaving, EntryPCs
  <1>9. CASE InsertRoomMember(u)
    <2>0. room[u] \in Rooms
      BY <1>9, RoomsAreRooms
      DEF InsertRoomMember, RoomInv, TypeInv, UserInv, PlaceInv, Away
    <2>1. \/ unstored' = [unstored EXCEPT ![room[u]] = @ \cup {u}]
          \/ unstored' = [unstored EXCEPT ![room[u]] = @ \ {u}]
      BY <1>9 DEF InsertRoomMember
    <2>2. \A w \in Users, r \in Rooms : w \in unstored[r] =>
             w \in unstored'[r] \/ (w = u /\ r = room[u])
      BY <2>0, <2>1 DEF RoomInv, TypeInv, DatabaseType
    <2> QED
      BY <1>9, <2>2, MemberStays
      DEF InsertRoomMember, Go, RoomInv, TypeInv, PlaceType, LocalType, clients, chat,
          locals, Leaving, EntryPCs
  <1>10. CASE EntryFails(u)
    <2>0. room[u] \in Rooms
      BY <1>10, RoomsAreRooms
      DEF EntryFails, RoomInv, TypeInv, UserInv, PlaceInv, Away
    <2>1. unstored' = [unstored EXCEPT ![room[u]] = @ \ {u}]
      BY <1>10 DEF EntryFails
    <2>2. \A w \in Users, r \in Rooms : w \in unstored[r] =>
             w \in unstored'[r] \/ (w = u /\ r = room[u])
      BY <2>0, <2>1 DEF RoomInv, TypeInv, DatabaseType
    <2> QED
      BY <1>10, <2>2, MemberStays
      DEF EntryFails, Go, Return, Finish, RoomInv, TypeInv, PlaceType, LocalType, clients,
          chat, Leaving, EntryPCs
  <1>11. CASE \E r \in Rooms : RequireRoomInfo(u, r)
    BY <1>11, MemberStays
    DEF RequireRoomInfo, Receive, Go, RoomInv, TypeInv, PlaceType, LocalType, clients,
        chat, locals, database, Leaving, EntryPCs
  <1>12. CASE SendMessages(u)
    BY <1>12, MemberStays
    DEF SendMessages, Go, Return, Finish, RoomInv, TypeInv, PlaceType, LocalType,
        clients, chat, locals, database, Leaving, EntryPCs
  <1>13. CASE \E r \in Rooms : SendMessage(u, r)
    BY <1>13, MemberStays
    DEF SendMessage, Receive, Go, RoomInv, TypeInv, PlaceType, LocalType, clients, chat,
        locals, database, Leaving, EntryPCs
  <1>14. CASE InsertMessage(u)
    BY <1>14, MemberStays
    DEF InsertMessage, Go, Begins, RoomInv, TypeInv, PlaceType, LocalType, clients, chat,
        locals, database, Leaving, EntryPCs
  <1>15. CASE GroupBroadcast(u)
    BY <1>15, MemberStays
    DEF GroupBroadcast, Go, Finish, SendsTo, Ends, RoomInv, TypeInv, PlaceType,
        LocalType, clients, chat, locals, database, Leaving, EntryPCs
  <1>16. CASE \E r \in Rooms : ExitRoom(u, r)
    BY <1>16, MemberStays
    DEF ExitRoom, Receive, Go, RoomInv, TypeInv, PlaceType, LocalType, clients, chat,
        locals, database, Leaving, EntryPCs
  <1>17. CASE FindExit(u)
    BY <1>17, MemberStays
    DEF FindExit, Go, Begins, RoomInv, TypeInv, PlaceType, LocalType, clients, chat,
        locals, database, Leaving, EntryPCs
  <1>18. CASE CountByRoomMember(u)
    BY <1>18, MemberStays
    DEF CountByRoomMember, Go, RoomInv, TypeInv, PlaceType, LocalType, clients, chat,
        locals, database, Leaving, EntryPCs
  <1>19. CASE DestroyChatting(u)
    BY <1>19, MemberStays
    DEF DestroyChatting, Go, RoomInv, TypeInv, PlaceType, LocalType, clients, chat,
        locals, database, Leaving, EntryPCs
  <1>20. CASE DeleteRoomMember(u)
    BY <1>20, MemberStays
    DEF DeleteRoomMember, Go, RoomInv, TypeInv, PlaceType, LocalType, clients, chat,
        locals, database, Leaving, EntryPCs
  <1>21. CASE ExitFails(u)
    BY <1>21, MemberStays
    DEF ExitFails, Go, Return, Finish, RoomInv, TypeInv, PlaceType, LocalType, clients,
        chat, locals, database, Leaving, EntryPCs
  <1>22. CASE BroadcastRemoved(u)
    BY <1>22, MemberStays
    DEF BroadcastRemoved, Go, Return, Finish, RoomInv, TypeInv, PlaceType, LocalType,
        clients, chat, locals, database, Leaving, EntryPCs
  <1>23. CASE CloseSocket(u)
    <2>1. /\ UNCHANGED RoomMember /\ pc[u] = "Idle" /\ pc'[u] = "Offline"
          /\ \A r \in Rooms : GroupNetworkSessions'[r] = GroupNetworkSessions[r] \ {u}
          /\ \A v, w \in Users : w \in toReach[v] /\ w # u => w \in toReach'[v]
          /\ \A v \in Users \ {u} : members'[v] = members[v] /\ informed'[v] = informed[v]
          /\ informed'[u] = {}
      BY <1>23
      DEF CloseSocket, Go, Leaves, RoomInv, TypeInv, PlaceType, LocalType, ClientType,
          GroupType, database
    <2>a. \A w \in Users \ {u}, r \in Rooms : w \in unstored[r] => w \in unstored'[r]
      BY <1>23 DEF CloseSocket, Leaves, RoomInv, TypeInv, DatabaseType
    <2>2. ASSUME NEW w \in Users, NEW r \in Rooms, InRoom(w, r)'
          PROVE  InRoom(w, r)
      <3>1. w # u
        BY <2>1, <2>2 DEF InRoom
      <3> QED
        BY <2>1, <2>2, <2>a, <3>1 DEF InRoom, Leaving, StepOf, SameUser
    <2>3. ASSUME NEW v \in Users, NEW w \in Users, NEW r \in Rooms, Told(v, w, r), v # u
          PROVE  Told(v, w, r)'
      BY <2>1, <2>3 DEF Told, StepOf, SameUser
    <2>4. \A v \in Users, r \in Rooms : r \in informed'[v] =>
             v \in GroupNetworkSessions'[r] /\ r \in informed[v]
      BY <2>1 DEF MemberInv
    <2> QED
      BY <2>1, <2>2, <2>3, <2>4, MemberStep DEF EntryPCs
  <1>24. CASE CommitEntry(u)
    <2>0. room[u] \in Rooms
      BY <1>24, RoomsAreRooms DEF CommitEntry, RoomInv, TypeInv, UserInv, PlaceInv, Away
    <2>1. /\ UNCHANGED <<GroupNetworkSessions, informed, members, room, toReach, unstored>>
          /\ pc[u] = "CommitEntry" /\ pc'[u] = "FindEntry"
          /\ \A w \in Users, r \in Rooms : ~(w = u /\ r = room[u]) =>
                RoomMember'[r][w] = RoomMember[r][w]
      BY <1>24, <2>0
      DEF CommitEntry, Go, RoomInv, TypeInv, PlaceType, LocalType, ClientType, GroupType,
          DatabaseType, clients, locals
    <2>5. u \notin GroupNetworkSessions'[room[u]]
      BY <2>0, <2>1 DEF MemberInv, EntryPCs
    <2>2. ASSUME NEW w \in Users, NEW r \in Rooms, InRoom(w, r)' PROVE InRoom(w, r)
      <3>1. CASE w = u
        BY <2>1, <2>2, <2>5, <3>1 DEF InRoom, Leaving
      <3>2. CASE w # u
        BY <2>1, <2>2, <3>2 DEF InRoom, Leaving, StepOf, SameUser
      <3> QED
        BY <3>1, <3>2
    <2>3. ASSUME NEW v \in Users, NEW w \in Users, NEW r \in Rooms, Told(v, w, r)
          PROVE  Told(v, w, r)'
      BY <2>1, <2>3 DEF Told, StepOf, SameUser
    <2>4. \A v \in Users, r \in Rooms : r \in informed'[v] =>
             v \in GroupNetworkSessions'[r] /\ r \in informed[v]
      BY <2>1 DEF MemberInv
    <2> QED
      BY <2>1, <2>2, <2>3, <2>4, <2>5, MemberStep
  <1>25. CASE FindEntry(u)
    <2>0. room[u] \in Rooms
      BY <1>25, RoomsAreRooms DEF FindEntry, RoomInv, TypeInv, UserInv, PlaceInv, Away
    <2>1. /\ UNCHANGED <<RoomMember, unstored, GroupNetworkSessions, informed, members, room>>
          /\ pc[u] = "FindEntry"
      BY <1>25 DEF FindEntry, database, clients
    <2>a. /\ \A v \in Users \ {u} : toReach'[v] = toReach[v]
          /\ \/ pc'[u] = "SendEntry" /\ toReach'[u] = GroupNetworkSessions[room[u]]
             \/ /\ pc'[u] = "EntryGroup"
                /\ ~(RoomMember[room[u]][u] > 0) \/ u \in unstored[room[u]]
      <3>1. \/ /\ pc' = [pc EXCEPT ![u] = "SendEntry"]
               /\ toReach' = [toReach EXCEPT ![u] = GroupNetworkSessions[room[u]]]
            \/ /\ pc' = [pc EXCEPT ![u] = "EntryGroup"] /\ toReach' = toReach
               /\ ~(RoomMember[room[u]][u] > 0) \/ u \in unstored[room[u]]
        BY <1>25 DEF FindEntry, Members, Begins, Go
      <3> QED
        BY <3>1 DEF RoomInv, TypeInv, PlaceType, LocalType, ClientType, GroupType
    <2>2. ASSUME NEW w \in Users, NEW r \in Rooms, InRoom(w, r)'
          PROVE  InRoom(w, r) \/ (w = u /\ r = room[u] /\ pc'[u] = "SendEntry")
      <3>1. CASE w = u
        BY <2>1, <2>2, <2>a, <3>1 DEF InRoom, Leaving
      <3>2. CASE w # u
        BY <2>1, <2>2, <3>2 DEF InRoom, Leaving, StepOf, SameUser
      <3> QED
        BY <3>1, <3>2
    <2>3. ASSUME NEW v \in Users, NEW w \in Users, NEW r \in Rooms, Told(v, w, r)
          PROVE  Told(v, w, r)'
      BY <2>1, <2>3, <2>a DEF Told, StepOf, SameUser
    <2>4. \A v \in Users, r \in Rooms : r \in informed'[v] =>
             v \in GroupNetworkSessions'[r] /\ r \in informed[v]
      BY <2>1 DEF MemberInv
    <2>5. u \notin GroupNetworkSessions'[room[u]]
      BY <2>0, <2>1 DEF MemberInv, EntryPCs
    <2>6. ASSUME NEW v \in Users, v \in GroupNetworkSessions'[room[u]], pc'[u] = "SendEntry"
          PROVE  \A r \in Rooms : r = room[u] => Told(v, u, r)'
      BY <2>1, <2>6, <2>a DEF Told
    <2> QED
      BY <2>0, <2>1, <2>2, <2>3, <2>4, <2>5, <2>6, <2>a, MemberStep
  <1>26. CASE SendEntry(u)
    <2>0. room[u] \in Rooms
      BY <1>26, RoomsAreRooms DEF SendEntry, RoomInv, TypeInv, UserInv, PlaceInv, Away
    <2>1. /\ UNCHANGED <<RoomMember, unstored, GroupNetworkSessions, informed, room>>
          /\ pc[u] = "SendEntry"
      BY <1>26 DEF SendEntry, database
    <2>a. /\ \A v \in Users \ {u} : toReach'[v] = toReach[v]
          /\ \/ pc'[u] = "SendEntry"
             \/ pc'[u] = "EntryGroup" /\ toReach[u] = {}
      BY <1>26
      DEF SendEntry, SendsTo, Ends, Go, RoomInv, TypeInv, PlaceType, LocalType,
          ClientType, GroupType
    <2>b. /\ \A v \in Users, r \in Rooms : members[v][r] \subseteq members'[v][r]
          /\ \A v \in toReach[u] : v \in toReach'[u] \/ u \in members'[v][room[u]]
      <3>1. \/ toReach[u] = {} /\ members' = members
            \/ \E v \in Users : /\ toReach' = [toReach EXCEPT ![u] = @ \ {v}]
                               /\ members' = [members EXCEPT ![v][room[u]] = @ \cup {u}]
        BY <1>26 DEF SendEntry, SendsTo, Ends
      <3>2. ASSUME NEW v \in Users, toReach' = [toReach EXCEPT ![u] = @ \ {v}],
                   members' = [members EXCEPT ![v][room[u]] = @ \cup {u}]
            PROVE  /\ \A w \in Users, r \in Rooms : members[w][r] \subseteq members'[w][r]
                   /\ \A w \in toReach[u] : w \in toReach'[u] \/ u \in members'[w][room[u]]
        <4>1. members'[v][room[u]] = members[v][room[u]] \cup {u} /\ toReach'[u] = toReach[u] \ {v}
          BY <2>0, <3>2 DEF RoomInv, TypeInv, ClientType, LocalType
        <4>2. ASSUME NEW w \in Users, NEW r \in Rooms, ~(w = v /\ r = room[u])
              PROVE  members'[w][r] = members[w][r]
          BY <2>0, <3>2, <4>2 DEF RoomInv, TypeInv, ClientType
        <4> QED
          BY <4>1, <4>2
      <3> QED
        BY <3>1, <3>2
    <2>2. ASSUME NEW w \in Users, NEW r \in Rooms, InRoom(w, r)' PROVE InRoom(w, r)
      <3>1. CASE w = u
        BY <2>1, <2>2, <2>a, <3>1 DEF InRoom, Leaving
      <3>2. CASE w # u
        BY <2>1, <2>2, <3>2 DEF InRoom, Leaving, StepOf, SameUser
      <3> QED
        BY <3>1, <3>2
    <2>3. ASSUME NEW v \in Users, NEW w \in Users, NEW r \in Rooms, Told(v, w, r)
          PROVE  Told(v, w, r)'
      <3>1. CASE w = u
        BY <2>1, <2>3, <2>a, <2>b, <3>1 DEF Told
      <3>2. CASE w # u
        BY <2>1, <2>3, <2>a, <2>b, <3>2 DEF Told, StepOf, SameUser
      <3> QED
        BY <3>1, <3>2
    <2>4. \A v \in Users, r \in Rooms : r \in informed'[v] =>
             v \in GroupNetworkSessions'[r] /\ r \in informed[v]
      BY <2>1 DEF MemberInv
    <2>5. u \notin GroupNetworkSessions'[room[u]]
      BY <2>0, <2>1 DEF MemberInv, EntryPCs
    <2> QED
      BY <2>1, <2>2, <2>3, <2>4, <2>5, <2>a, MemberStep
  <1>27. CASE EntryGroup(u)
    <2>0. room[u] \in Rooms
      BY <1>27, RoomsAreRooms DEF EntryGroup, RoomInv, TypeInv, UserInv, PlaceInv, Away
    <2>1. /\ UNCHANGED <<RoomMember, unstored, members, informed>>
          /\ pc[u] = "EntryGroup" /\ pc'[u] = "Idle"
      BY <1>27
      DEF EntryGroup, Finish, Go, RoomInv, TypeInv, PlaceType, database, clients
    <2>a. \A r \in Rooms : GroupNetworkSessions'[r] =
            IF r = room[u] THEN GroupNetworkSessions[r] \cup {u} ELSE GroupNetworkSessions[r]
      BY <1>27 DEF EntryGroup, Joins, RoomInv, TypeInv, GroupType
    <2>b. \A v \in Users : toReach[v] \subseteq toReach'[v]
      BY <1>27 DEF EntryGroup, Joins
    <2>2. ASSUME NEW w \in Users, NEW r \in Rooms, InRoom(w, r)' PROVE InRoom(w, r)
      <3>1. CASE w = u
        BY <2>1, <2>2, <2>a, <3>1 DEF InRoom, Leaving
      <3>2. CASE w # u
        <4>1. /\ RoomMember'[r][w] = RoomMember[r][w] /\ unstored'[r] = unstored[r]
              /\ w \in GroupNetworkSessions'[r] => w \in GroupNetworkSessions[r]
              /\ pc'[w] = pc[w] /\ room'[w] = room[w]
          <5>1. w \in GroupNetworkSessions'[r] => w \in GroupNetworkSessions[r]
            BY <2>a, <3>2
          <5>2. pc'[w] = pc[w] /\ room'[w] = room[w]
            BY <3>2 DEF StepOf, SameUser
          <5> QED
            BY <2>1, <5>1, <5>2
        <4> QED
          BY <2>2, <4>1 DEF InRoom, Leaving
      <3> QED
        BY <3>1, <3>2
    <2>3. ASSUME NEW v \in Users, NEW w \in Users, NEW r \in Rooms, Told(v, w, r)
          PROVE  Told(v, w, r)'
      BY <2>1, <2>3, <2>b DEF Told, StepOf, SameUser
    <2>4. \A v \in Users, r \in Rooms : r \in informed'[v] =>
             v \in GroupNetworkSessions'[r] /\ r \in informed[v]
      BY <2>1, <2>a DEF MemberInv
    <2>5. \A v \in Users \ {u}, r \in Rooms :
            v \in GroupNetworkSessions[r] <=> v \in GroupNetworkSessions'[r]
      BY <2>a
    <2> QED
      BY <2>1, <2>2, <2>3, <2>4, <2>5, MemberStep DEF EntryPCs
  <1>28. CASE FindAllMembers(u)
    <2>0. room[u] \in Rooms
      BY <1>28, RoomsAreRooms
      DEF FindAllMembers, RoomInv, TypeInv, UserInv, PlaceInv, Away
    <2>1. /\ UNCHANGED <<RoomMember, unstored, GroupNetworkSessions, informed, members, room,
                        toReach>>
          /\ pc[u] = "FindAllMembers" /\ pc'[u] = "SendInfo"
          /\ \A w \in Users : RoomMember[room[u]][w] > 0 => w \in found'[u]
      BY <1>28
      DEF FindAllMembers, Go, Members, RoomInv, TypeInv, PlaceType, LocalType,
          ClientType, GroupType, clients, database
    <2>2. ASSUME NEW w \in Users, NEW r \in Rooms, InRoom(w, r)'
          PROVE  InRoom(w, r)
      BY <2>1, <2>2 DEF InRoom, Leaving, StepOf, SameUser
    <2>3. ASSUME NEW v \in Users, NEW w \in Users, NEW r \in Rooms, Told(v, w, r)
          PROVE  Told(v, w, r)'
      BY <2>1, <2>3 DEF Told, StepOf, SameUser
    <2>4. \A v \in Users, r \in Rooms : r \in informed'[v] =>
             v \in GroupNetworkSessions'[r] /\ r \in informed[v]
      BY <2>1 DEF MemberInv
    <2>5. \A r \in Rooms, w \in Users : r = room'[u] /\ InRoom(w, r)' => w \in found'[u]
      BY <2>1 DEF InRoom
    <2> QED
      BY <2>1, <2>2, <2>3, <2>4, <2>5, MemberStep DEF EntryPCs
  <1>29. CASE SendInfo(u)
    <2>0. room[u] \in Rooms
      BY <1>29, RoomsAreRooms DEF SendInfo, RoomInv, TypeInv, UserInv, PlaceInv, Away
    <2>g. u \in GroupNetworkSessions[room[u]]
      BY <1>29, <2>0 DEF SendInfo, CaughtInv, InfoPCs
    <2>1. /\ UNCHANGED <<RoomMember, unstored, GroupNetworkSessions, room, toReach>>
          /\ pc[u] = "SendInfo" /\ pc'[u] = "FindAllMessages"
          /\ \A v \in Users, r \in Rooms : members[v][r] \subseteq members'[v][r]
          /\ found[u] \subseteq members'[u][room[u]]
          /\ informed'[u] = informed[u] \cup {room[u]}
          /\ \A v \in Users \ {u} : informed'[v] = informed[v]
      BY <1>29, <2>0
      DEF SendInfo, Go, RoomInv, TypeInv, PlaceType, LocalType, ClientType, GroupType,
          database
    <2>2. ASSUME NEW w \in Users, NEW r \in Rooms, InRoom(w, r)'
          PROVE  InRoom(w, r)
      BY <2>1, <2>2 DEF InRoom, Leaving, StepOf, SameUser
    <2>3. ASSUME NEW v \in Users, NEW w \in Users, NEW r \in Rooms, Told(v, w, r)
          PROVE  Told(v, w, r)'
      BY <2>1, <2>3 DEF Told, StepOf, SameUser
    <2>4. \A v \in Users, r \in Rooms : r \in informed'[v] => v \in GroupNetworkSessions'[r]
      BY <2>0, <2>1, <2>g DEF MemberInv
    <2>5. ASSUME NEW w \in Users, NEW r \in Rooms, r = room[u], InRoom(w, r)'
          PROVE  Told(u, w, r)'
      <3>1. w \in found[u] \/ Told(u, w, r)
        BY <2>1, <2>2, <2>5 DEF MemberInv
      <3> QED
        BY <2>1, <2>3, <2>5, <3>1 DEF Told
    <2>6. \A v \in Users, r \in Rooms : r \in informed'[v] =>
             r \in informed[v] \/ (v = u /\ r = room[u])
      BY <2>1
    <2> QED
      BY <2>1, <2>2, <2>3, <2>4, <2>5, <2>6, MemberStep DEF EntryPCs
  <1>30. CASE FindAllMessages(u)
    <2>1. /\ pc[u] = "FindAllMessages"
          /\ UNCHANGED <<GroupNetworkSessions, members, informed, RoomMember, unstored>>
      BY <1>30 DEF FindAllMessages, database, clients
    <2>2. \/ pc' = [pc EXCEPT ![u] = "SendMessages"] /\ UNCHANGED toReach
          \/ pc' = [pc EXCEPT ![u] = "Idle"] /\ UNCHANGED toReach
      BY <1>30 DEF FindAllMessages, Go, Return, Finish, locals
    <2>3. pc'[u] \in {"SendMessages", "Idle"} /\ UNCHANGED toReach
      BY <2>2 DEF RoomInv, TypeInv, PlaceType
    <2> QED
      BY <2>1, <2>3, MemberStays DEF Leaving, EntryPCs
  <1>31. CASE SendExit(u)
    <2>0. room[u] \in Rooms
      BY <1>31, RoomsAreRooms DEF SendExit, RoomInv, TypeInv, UserInv, PlaceInv, Away
    <2>1. /\ UNCHANGED <<RoomMember, unstored, GroupNetworkSessions, informed, room>>
          /\ pc[u] = "SendExit"
      BY <1>31 DEF SendExit, database
    <2>a. pc'[u] \in {"SendExit", "ExitGroup"} /\ \A v \in Users \ {u} : toReach'[v] = toReach[v]
      BY <1>31
      DEF SendExit, SendsTo, Ends, Go, RoomInv, TypeInv, PlaceType, LocalType,
          ClientType, GroupType
    <2>b. \A v \in Users, r \in Rooms : \/ members'[v][r] = members[v][r]
                                      \/ (r = room[u] /\ members'[v][r] = members[v][r] \ {u})
      <3>1. \/ members' = members
            \/ \E v \in Users : members' = [members EXCEPT ![v][room[u]] = @ \ {u}]
        BY <1>31 DEF SendExit
      <3>2. ASSUME NEW v \in Users, members' = [members EXCEPT ![v][room[u]] = @ \ {u}],
                   NEW w \in Users, NEW r \in Rooms
            PROVE  \/ members'[w][r] = members[w][r]
                   \/ (r = room[u] /\ members'[w][r] = members[w][r] \ {u})
        BY <2>0, <3>2 DEF RoomInv, TypeInv, ClientType
      <3> QED
        BY <3>1, <3>2
    <2>2. ASSUME NEW w \in Users, NEW r \in Rooms, InRoom(w, r)'
          PROVE  InRoom(w, r) /\ ~(w = u /\ r = room[u])
      <3>1. CASE w = u
        BY <2>1, <2>2, <2>a, <3>1 DEF InRoom, Leaving
      <3>2. CASE w # u
        BY <2>1, <2>2, <3>2 DEF InRoom, Leaving, StepOf, SameUser
      <3> QED
        BY <3>1, <3>2
    <2>3. ASSUME NEW v \in Users, NEW w \in Users, NEW r \in Rooms, Told(v, w, r),
                 ~(w = u /\ r = room[u])
          PROVE  Told(v, w, r)'
      BY <2>1, <2>3, <2>a, <2>b DEF Told, StepOf, SameUser
    <2>4. \A v \in Users, r \in Rooms : r \in informed'[v] =>
             v \in GroupNetworkSessions'[r] /\ r \in informed[v]
      BY <2>1 DEF MemberInv
    <2> QED
      BY <2>1, <2>2, <2>3, <2>4, <2>a, MemberStep DEF EntryPCs
  <1>32. CASE ExitGroup(u)
    <2>0. room[u] \in Rooms
      BY <1>32, RoomsAreRooms DEF ExitGroup, RoomInv, TypeInv, UserInv, PlaceInv, Away
    <2>1. /\ UNCHANGED RoomMember /\ pc[u] = "ExitGroup" /\ pc'[u] = "CountByRoomMember"
          /\ UNCHANGED room
          /\ \A r \in Rooms : GroupNetworkSessions'[r] =
                IF r = room[u] THEN GroupNetworkSessions[r] \ {u} ELSE GroupNetworkSessions[r]
          /\ \A v, w \in Users : w \in toReach[v] /\ ~(w = u /\ room[v] = room[u]) => w \in toReach'[v]
          /\ \A v \in Users, r \in Rooms : ~(v = u /\ r = room[u]) => members'[v][r] = members[v][r]
          /\ \A v \in Users \ {u} : informed'[v] = informed[v]
          /\ informed'[u] = informed[u] \ {room[u]}
      BY <1>32, <2>0
      DEF ExitGroup, Leaves, Go, RoomInv, TypeInv, PlaceType, LocalType, ClientType,
          GroupType, database
    <2>a. \A w \in Users, r \in Rooms : w \in unstored[r] =>
             w \in unstored'[r] \/ (w = u /\ r = room[u])
      BY <1>32, <2>0 DEF ExitGroup, Leaves, RoomInv, TypeInv, DatabaseType
    <2>2. ASSUME NEW w \in Users, NEW r \in Rooms, InRoom(w, r)'
          PROVE  InRoom(w, r)
      <3>1. ~(w = u /\ r = room[u])
        BY <2>1, <2>2 DEF InRoom
      <3> QED
        BY <2>1, <2>2, <2>a, <3>1 DEF InRoom, Leaving, StepOf, SameUser
    <2>3. ASSUME NEW v \in Users, NEW w \in Users, NEW r \in Rooms, Told(v, w, r), ~(v = u /\ r = room[u])
          PROVE  Told(v, w, r)'
      BY <2>1, <2>3 DEF Told, StepOf, SameUser
    <2>4. ASSUME NEW v \in Users, NEW r \in Rooms, r \in informed'[v]
          PROVE  v \in GroupNetworkSessions'[r] /\ r \in informed[v]
      <3>1. r \in informed[v] /\ ~(v = u /\ r = room[u])
        BY <2>1, <2>4
      <3>2. v \in GroupNetworkSessions[r]
        BY <3>1 DEF MemberInv
      <3> QED
        BY <2>1, <3>1, <3>2
    <2>5. ASSUME NEW v \in Users, NEW r \in Rooms
          PROVE  v \in GroupNetworkSessions'[r] <=>
                    v \in GroupNetworkSessions[r] /\ ~(v = u /\ r = room[u])
      BY <2>1
    <2>6. pc'[u] = "CountByRoomMember"
      BY <2>1
    <2> QED
      BY <2>2, <2>3, <2>4, <2>5, <2>6, MemberStep DEF EntryPCs
  <1>33. CASE CommitExit(u)
    <2>0. room[u] \in Rooms
      BY <1>33, RoomsAreRooms DEF CommitExit, RoomInv, TypeInv, UserInv, PlaceInv, Away
    <2>1. /\ UNCHANGED <<GroupNetworkSessions, informed, members, toReach, unstored>>
          /\ pc[u] \in Commits /\ pc'[u] \in {"BroadcastRemoved", "Idle"}
          /\ \A w \in Users, r \in Rooms : RoomMember'[r][w] > 0 => RoomMember[r][w] > 0
      BY <1>33, <2>0
      DEF CommitExit, Go, Return, Finish, RoomInv, TypeInv, PlaceType, LocalType,
          ClientType, GroupType, DatabaseType, clients, locals, Commits
    <2>2. ASSUME NEW w \in Users, NEW r \in Rooms, InRoom(w, r)'
          PROVE  InRoom(w, r)
      BY <2>1, <2>2 DEF InRoom, Leaving, StepOf, SameUser, Commits
    <2>3. ASSUME NEW v \in Users, NEW w \in Users, NEW r \in Rooms, Told(v, w, r)
          PROVE  Told(v, w, r)'
      BY <2>1, <2>3 DEF Told, StepOf, SameUser, Commits
    <2>4. \A v \in Users, r \in Rooms : r \in informed'[v] =>
             v \in GroupNetworkSessions'[r] /\ r \in informed[v]
      BY <2>1 DEF MemberInv
    <2> QED
      BY <2>1, <2>2, <2>3, <2>4, MemberStep DEF EntryPCs
  <1>34. CASE CountFails(u)
    BY <1>34, MemberStays
    DEF CountFails, Go, Return, Finish, RoomInv, TypeInv, PlaceType, LocalType, clients,
        chat, locals, database, Leaving, EntryPCs
  <1>35. CASE DestroyFails(u)
    BY <1>35, MemberStays
    DEF DestroyFails, Go, RoomInv, TypeInv, PlaceType, LocalType, clients, chat, locals,
        database, Leaving, EntryPCs
  <1>36. CASE DeleteFails(u)
    BY <1>36, MemberStays
    DEF DeleteFails, Go, RoomInv, TypeInv, PlaceType, LocalType, clients, chat, locals,
        database, Leaving, EntryPCs
  <1> QED
    BY <1>1, <1>2, <1>3, <1>4, <1>5, <1>6, <1>7, <1>8, <1>9, <1>10, <1>11, <1>12,
       <1>13, <1>14, <1>15, <1>16, <1>17, <1>18, <1>19, <1>20, <1>21, <1>22, <1>23,
       <1>24, <1>25, <1>26, <1>27, <1>28, <1>29, <1>30, <1>31, <1>32, <1>33,
       <1>34, <1>35, <1>36
    DEF RecvProc, Fails

-----------------------------------------------------------------------------
(* The theorems.                                                           *)

KnownInv == RoomInv /\ ListInv /\ StoredInv /\ CaughtInv /\ MemberInv

LEMMA InitKnownInv == Init => KnownInv
  <1> SUFFICES ASSUME Init PROVE KnownInv
    OBVIOUS
  <1>1. RoomInv
    BY InitRoomInv
  <1>2. ListInv
    BY DEF Init, ListInv, RoomsKnown
  <1>3. StoredInv
    BY DEF Init, StoredInv
  <1>4. CaughtInv
    BY DEF Init, CaughtInv, InfoPCs
  <1>5. MemberInv
    BY DEF Init, MemberInv, EntryPCs
  <1> QED
    BY <1>1, <1>2, <1>3, <1>4, <1>5 DEF KnownInv

LEMMA NextKnownInv == KnownInv /\ [Next]_vars => KnownInv'
  <1> SUFFICES ASSUME KnownInv, [Next]_vars PROVE KnownInv'
    OBVIOUS
  <1>1. RoomInv'
    BY NextRoomInv DEF KnownInv
  <1>2. CASE UNCHANGED vars
    <2>1. ListInv' /\ StoredInv'
      BY <1>2
      DEF vars, KnownInv, ListInv, StoredInv, Settled, Possible, RoomsKnown, Announced
    <2>2. CaughtInv'
      BY <1>2 DEF vars, KnownInv, CaughtInv, Knows, Coming
    <2>3. MemberInv'
      BY <1>2 DEF vars, KnownInv, MemberInv, InRoom, Told, Leaving
    <2> QED
      BY <1>1, <2>1, <2>2, <2>3 DEF KnownInv
  <1>3. ASSUME NEW u \in Users, RecvProc(u) \/ Fails(u) PROVE KnownInv'
    <2>1. StepOf(u)
      BY <1>3, ThreadKeeps DEF KnownInv
    <2> QED
      BY <1>1, <1>3, <2>1, ThreadListInv, ThreadStoredInv, ThreadCaughtInv,
         ThreadMemberInv
      DEF KnownInv
  <1> QED
    BY <1>2, <1>3 DEF Next

\* What a client does not know yet is on its way, in whatever order the steps
\* of the users' threads come.
THEOREM KnownSafe == Spec => []KnownInv
  BY InitKnownInv, NextKnownInv, PTL DEF Spec

\* A client that got its list knows every room whose creation was broadcast,
\* also one created between the SELECT of its login and the list that goes out
\* (LoginController.cpp:24, CreateChattingRoomController.cpp:19-44).
THEOREM ListsAreComplete == Spec => []RoomsKnown
  <1>1. KnownInv => RoomsKnown
    BY DEF KnownInv, ListInv
  <1> QED
    BY <1>1, KnownSafe, PTL

\* What a client was shown of a room that exists is stored, although the value
\* InsertMessage returns is not looked at (SendMessageController.cpp:21-34).
THEOREM ShownStaysStored == Spec => []ShownIsStored
  <1>1. KnownInv => ShownIsStored
    BY RoomsAreRooms
    DEF KnownInv, RoomInv, TypeInv, StoredInv, Settled, Possible, ShownIsStored
  <1> QED
    BY <1>1, KnownSafe, PTL

\* A client that got the history of a room knows every stored message whose
\* packet is not still being sent, also when messages are stored and sent while
\* the history is read and sent (SendMessageController.cpp:21-34,
\* RequireRoomInfoController.cpp:43-78).
THEOREM HistoryIsComplete == Spec => []MessagesKnown
  <1>1. ASSUME KnownInv PROVE MessagesKnown
    BY <1>1 DEF KnownInv, CaughtInv, MessagesKnown, Knows, Coming, SendPCs
  <1> QED
    BY <1>1, KnownSafe, PTL

\* A client that asked for the members of a room knows every member that is in
\* it, whatever entries, exits and questions cross (EntryRoomController.cpp:25-30,
\* RequireRoomInfoController.cpp:19-41).
THEOREM MemberListIsComplete == Spec => []MembersKnown
  <1>1. ASSUME KnownInv, NEW r \in Rooms, NEW u \in Users, NEW w \in Users,
               {u, w} \subseteq GroupNetworkSessions[r], r \in informed[u],
               w \in Members(r), w \notin unstored[r], ~Leaving(w, r)
        PROVE  w \in members[u][r]
    <2>1. InRoom(w, r)
      BY <1>1 DEF InRoom, Members
    <2>2. ~(room[w] = r /\ pc[w] = "SendEntry")
      BY <1>1 DEF KnownInv, MemberInv, EntryPCs
    <2> QED
      BY <1>1, <2>1, <2>2 DEF KnownInv, MemberInv, Told
  <1>2. KnownInv => MembersKnown
    BY <1>1 DEF MembersKnown
  <1> QED
    BY <1>2, KnownSafe, PTL

-----------------------------------------------------------------------------
(* The rooms served one packet at a time (ChattingRoomHistory).            *)

\* User w has a row for room r while its session is not yet, or no more, in
\* the group.
LagPCs == {"FindEntry", "SendEntry", "EntryGroup", "CountByRoomMember",
           "DestroyChatting", "DeleteRoomMember", "CommitExit"}
Lags(w, r) == room[w] = r /\ pc[w] \in LagPCs

\* Served one by one, a user has one row at most, its session is in the group
\* exactly when it has the row and does not lag, and an exit that does not
\* remove the room leaves somebody in it.
SerialInv ==
    serial =>
        /\ OneAtATime /\ EntriesStored
        /\ undone = {} /\ \A w \in Users : pc[w] # "CommitUndeleted"
        /\ \A r \in chattingroom, w \in Users :
             /\ RoomMember[r][w] <= 1
             /\ w \in GroupNetworkSessions[r] <=> RoomMember[r][w] > 0 /\ ~Lags(w, r)
        /\ \A w \in Users :
             /\ pc[w] \in {"DeleteRoomMember", "CommitExit"}
             /\ w \notin result
             /\ room[w] \in chattingroom
             => ~OneRow(room[w])

HistoryInv == KnownInv /\ SerialInv

\* Rows are written by the two commits alone, and only a DELETE that fails is
\* undone.
LEMMA OnlyCommitsWriteRows ==
  ASSUME NEW u \in Users, RecvProc(u)
  PROVE  /\ UNCHANGED RoomMember \/ CommitEntry(u) \/ CommitExit(u)
         /\ UNCHANGED undone
  <1>1. CASE CommitEntry(u) \/ CommitExit(u) \/ InsertChattingRoom(u)
    BY <1>1 DEF CommitEntry, CommitExit, InsertChattingRoom
  <1>2. CASE \/ Connect(u) \/ Login(u) \/ SendRooms(u) \/ CreateRoom(u) \/ BroadcastRoom(u)
             \/ \E r \in Rooms : EntryRoom(u, r) \/ RequireRoomInfo(u, r)
                                \/ SendMessage(u, r) \/ ExitRoom(u, r)
    BY <1>2
    DEF Connect, Login, SendRooms, CreateRoom, BroadcastRoom, EntryRoom, RequireRoomInfo,
        SendMessage, ExitRoom, Receive, database
  <1>3. CASE \/ FindPassword(u) \/ InsertRoomMember(u) \/ FindEntry(u) \/ SendEntry(u)
             \/ EntryGroup(u) \/ FindAllMembers(u) \/ SendInfo(u) \/ FindAllMessages(u)
             \/ SendMessages(u) \/ InsertMessage(u) \/ GroupBroadcast(u)
    BY <1>3
    DEF FindPassword, InsertRoomMember, FindEntry, SendEntry, EntryGroup, FindAllMembers,
        SendInfo, FindAllMessages, SendMessages, InsertMessage, GroupBroadcast, database
  <1>4. CASE \/ FindExit(u) \/ SendExit(u) \/ ExitGroup(u) \/ CountByRoomMember(u)
             \/ DestroyChatting(u) \/ DeleteRoomMember(u) \/ BroadcastRemoved(u)
    BY <1>4
    DEF FindExit, SendExit, ExitGroup, CountByRoomMember, DestroyChatting,
        DeleteRoomMember, BroadcastRemoved, database
  <1> QED
    BY <1>1, <1>2, <1>3, <1>4 DEF RecvProc

\* A step that changes neither rows nor groups, nor who lags.
LEMMA SerialStays ==
  ASSUME SerialInv, NEW u \in Users, StepOf(u), serial' => serial /\ OneAtATime' /\ EntriesStored',
         UNCHANGED <<chattingroom, RoomMember, GroupNetworkSessions, undone>>,
         pc'[u] # "CommitUndeleted",
         \A r \in chattingroom : Lags(u, r)' <=> Lags(u, r),
         pc'[u] \in {"DeleteRoomMember", "CommitExit"} /\ u \notin result' =>
            \/ pc[u] = "DeleteRoomMember" /\ u \notin result /\ room'[u] = room[u]
            \/ ~OneRow(room'[u])
  PROVE  SerialInv'
  <1> SUFFICES ASSUME serial', serial, OneAtATime', EntriesStored' PROVE SerialInv'
    BY DEF SerialInv
  <1>1. ASSUME NEW r \in chattingroom, NEW w \in Users PROVE Lags(w, r)' <=> Lags(w, r)
    BY <1>1 DEF Lags, StepOf, SameUser
  <1>2. ASSUME NEW w \in Users, pc'[w] \in {"DeleteRoomMember", "CommitExit"},
               w \notin result', room'[w] \in chattingroom
        PROVE  ~OneRow(room'[w])
    BY <1>2 DEF SerialInv, StepOf, SameUser
  <1>3. \A r : OneRow(r)' <=> OneRow(r)
    BY DEF OneRow, Members
  <1>4. undone' = {} /\ \A w \in Users : pc'[w] # "CommitUndeleted"
    BY DEF SerialInv, StepOf, SameUser
  <1> QED
    BY <1>1, <1>2, <1>3, <1>4 DEF SerialInv

LEMMA ThreadSerialInv ==
  ASSUME RoomInv, MemberInv, SerialInv, NEW u \in Users, RecvProc(u),
         serial' => serial /\ OneAtATime' /\ EntriesStored', RoomInv', StepOf(u)
  PROVE  SerialInv'
  <1>0. ASSUME room[u] \in Rooms, serial, OneAtATime, NEW w \in Users \ {u}, room[w] = room[u]
        PROVE  FALSE
    BY <1>0 DEF OneAtATime, Rooms
  <1>u. serial => undone' = {}
    BY OnlyCommitsWriteRows DEF SerialInv
  <1>p. ASSUME serial, pc'[u] # "CommitUndeleted"
        PROVE  \A w \in Users : pc'[w] # "CommitUndeleted"
    BY <1>p DEF SerialInv, StepOf, SameUser
  <1>1. CASE InsertChattingRoom(u)
    <2> SUFFICES ASSUME serial', serial, OneAtATime', EntriesStored' PROVE SerialInv'
      BY DEF SerialInv
    <2> DEFINE q == lastRoom + 1
    <2>1. /\ chattingroom' = chattingroom \cup {q} /\ q \in Rooms /\ q \notin chattingroom
          /\ UNCHANGED <<RoomMember, GroupNetworkSessions, result>>
          /\ pc[u] = "Create" /\ pc'[u] = "BroadcastRoom"
      BY <1>1, RoomAssumption
      DEF InsertChattingRoom, Go, RoomInv, TypeInv, PlaceType, DatabaseType, Rooms
    <2>2. ASSUME NEW w \in Users
          PROVE  RoomMember[q][w] = 0 /\ w \notin GroupNetworkSessions[q]
      <3>1. q \notin 1..lastRoom /\ RoomMember[q][w] \in Nat
        BY <2>1, RoomAssumption DEF RoomInv, TypeInv, DatabaseType
      <3>2. RoomMember[q][w] = 0
        BY <2>1, <3>1 DEF RoomInv, RowsCreated
      <3>3. unstored[q] = {}
        BY <1>1, <2>1 DEF InsertChattingRoom, EntriesStored
      <3>4. GroupNetworkSessions[q] \subseteq Members(q) \cup unstored[q]
        BY <2>1, <3>1 DEF RoomInv, GroupsHold, Possible
      <3> QED
        BY <3>2, <3>3, <3>4 DEF Members
    <2>3. ASSUME NEW r \in chattingroom, NEW w \in Users PROVE Lags(w, r)' <=> Lags(w, r)
      BY <2>1, <2>3 DEF Lags, LagPCs, StepOf, SameUser
    <2>4. ASSUME NEW w \in Users, pc'[w] \in {"DeleteRoomMember", "CommitExit"},
                 w \notin result', room'[w] \in chattingroom'
          PROVE  ~OneRow(room[w])'
      <3>1. w # u /\ room'[w] = room[w] /\ pc[w] = pc'[w]
        BY <2>1, <2>4 DEF StepOf, SameUser
      <3>2. CASE room[w] \in chattingroom
        BY <2>1, <2>4, <3>1, <3>2 DEF SerialInv, OneRow, Members
      <3>3. CASE room[w] = q
        BY <2>1, <2>2, <3>1, <3>3 DEF OneRow, Members
      <3> QED
        BY <2>1, <2>4, <3>1, <3>2, <3>3
    <2> QED
      BY <1>p, <1>u, <2>1, <2>2, <2>3, <2>4 DEF SerialInv
  <1>2. CASE CommitEntry(u)
    <2> SUFFICES ASSUME serial', serial, OneAtATime', EntriesStored' PROVE SerialInv'
      BY DEF SerialInv
    <2>1. /\ UNCHANGED <<chattingroom, GroupNetworkSessions, result, room>>
          /\ pc[u] = "CommitEntry" /\ pc'[u] = "FindEntry" /\ room[u] \in Rooms
          /\ chattingroom \subseteq Rooms
      BY <1>2, RoomsAreRooms
      DEF CommitEntry, Go, RoomInv, TypeInv, PlaceType, UserInv, PlaceInv, Away, locals
    <2>2. ASSUME NEW r \in chattingroom, NEW w \in Users, w # u \/ r # room[u]
          PROVE  RoomMember'[r][w] = RoomMember[r][w] /\ (Lags(w, r)' <=> Lags(w, r))
      BY <1>2, <2>1, <2>2
      DEF CommitEntry, Lags, LagPCs, StepOf, SameUser, RoomInv, TypeInv, DatabaseType
    <2>3. ASSUME room[u] \in chattingroom
          PROVE  /\ RoomMember'[room[u]][u] = 1 /\ Lags(u, room[u])'
                 /\ u \notin GroupNetworkSessions[room[u]]
      <3>1. u \notin GroupNetworkSessions[room[u]] /\ ~Lags(u, room[u]) /\ u \in inserted
        BY <2>1, <2>3
        DEF MemberInv, EntryPCs, Lags, LagPCs, RoomInv, UserInv, EntryInv, Possible,
            SerialInv, EntriesStored
      <3>2. RoomMember[room[u]][u] = 0
        <4>1. ~(RoomMember[room[u]][u] > 0)
          BY <2>3, <3>1 DEF SerialInv
        <4>2. ASSUME NEW q \in Rooms PROVE RoomMember[q][u] \in Nat
          BY RoomAssumption DEF RoomInv, TypeInv, DatabaseType
        <4> QED
          BY <2>1, <4>1, <4>2
      <3> QED
        BY <1>2, <2>1, <3>1, <3>2
        DEF CommitEntry, RoomInv, TypeInv, DatabaseType, Lags, LagPCs
    <2>4. ASSUME NEW w \in Users, pc'[w] \in {"DeleteRoomMember", "CommitExit"},
                 w \notin result', room'[w] \in chattingroom'
          PROVE  ~OneRow(room[w])'
      <3>1. w # u /\ room'[w] = room[w] /\ pc[w] = pc'[w] /\ w \notin result
        BY <2>1, <2>4 DEF StepOf, SameUser
      <3>2. room[w] # room[u]
        BY <1>0, <2>1, <3>1 DEF SerialInv
      <3>3. \A v \in Users : RoomMember'[room[w]][v] = RoomMember[room[w]][v]
        BY <2>1, <2>2, <2>4, <3>1, <3>2
      <3> QED
        BY <2>1, <2>4, <3>1, <3>3 DEF SerialInv, OneRow, Members
    <2> QED
      BY <1>p, <1>u, <2>1, <2>2, <2>3, <2>4 DEF SerialInv
  <1>3. CASE EntryGroup(u)
    <2> SUFFICES ASSUME serial', serial, OneAtATime', EntriesStored' PROVE SerialInv'
      BY DEF SerialInv
    <2>1. /\ UNCHANGED <<chattingroom, RoomMember>> /\ room'[u] = 0
          /\ pc[u] = "EntryGroup" /\ pc'[u] = "Idle" /\ room[u] \in Rooms
          /\ chattingroom \subseteq Rooms
          /\ GroupNetworkSessions' =
               [GroupNetworkSessions EXCEPT ![room[u]] = @ \cup {u}]
      BY <1>3, RoomsAreRooms
      DEF EntryGroup, Joins, Finish, Go, RoomInv, TypeInv, PlaceType, LocalType, UserInv,
          PlaceInv, Away, database
    <2>2. ASSUME NEW r \in chattingroom, NEW w \in Users, w # u \/ r # room[u]
          PROVE  /\ w \in GroupNetworkSessions'[r] <=> w \in GroupNetworkSessions[r]
                 /\ Lags(w, r)' <=> Lags(w, r)
      BY <2>1, <2>2 DEF Lags, LagPCs, StepOf, SameUser, RoomInv, TypeInv, GroupType, Rooms
    <2>3. ASSUME NEW r \in chattingroom, r = room[u]
          PROVE  RoomMember[r][u] > 0 /\ ~Lags(u, r)' /\ u \in GroupNetworkSessions'[r]
      BY <2>1, <2>3
      DEF Lags, LagPCs, RoomInv, TypeInv, GroupType, UserInv, EntryInv, Possible,
          SerialInv, EntriesStored
    <2>4. ASSUME NEW w \in Users, pc'[w] \in {"DeleteRoomMember", "CommitExit"},
                 w \notin result', room'[w] \in chattingroom'
          PROVE  ~OneRow(room[w])'
      <3>1. w # u /\ room'[w] = room[w] /\ pc[w] = pc'[w] /\ w \notin result
        BY <2>1, <2>4 DEF StepOf, SameUser
      <3> QED
        BY <2>1, <2>4, <3>1 DEF SerialInv, OneRow, Members
    <2>5. ASSUME NEW r \in chattingroom, NEW w \in Users
          PROVE  /\ RoomMember'[r][w] <= 1
                 /\ w \in GroupNetworkSessions'[r] <=> RoomMember'[r][w] > 0 /\ ~Lags(w, r)'
      <3>1. CASE w = u /\ r = room[u]
        BY <2>1, <2>3, <3>1 DEF SerialInv
      <3>2. CASE w # u \/ r # room[u]
        BY <2>1, <2>2, <3>2 DEF SerialInv
      <3> QED
        BY <3>1, <3>2
    <2> QED
      BY <1>p, <1>u, <2>1, <2>4, <2>5 DEF SerialInv
  <1>4. CASE ExitGroup(u)
    <2> SUFFICES ASSUME serial', serial, OneAtATime', EntriesStored' PROVE SerialInv'
      BY DEF SerialInv
    <2>1. /\ UNCHANGED <<chattingroom, RoomMember, room>>
          /\ pc[u] = "ExitGroup" /\ pc'[u] = "CountByRoomMember" /\ room[u] \in Rooms
          /\ chattingroom \subseteq Rooms
          /\ \A r \in Rooms : GroupNetworkSessions'[r] =
               IF r = room[u] THEN GroupNetworkSessions[r] \ {u} ELSE GroupNetworkSessions[r]
      BY <1>4, RoomsAreRooms
      DEF ExitGroup, Leaves, Go, RoomInv, TypeInv, PlaceType, LocalType, UserInv,
          PlaceInv, Away, database
    <2>2. ASSUME NEW r \in chattingroom, NEW w \in Users, w # u \/ r # room[u]
          PROVE  /\ w \in GroupNetworkSessions'[r] <=> w \in GroupNetworkSessions[r]
                 /\ Lags(w, r)' <=> Lags(w, r)
      BY <2>1, <2>2 DEF Lags, LagPCs, StepOf, SameUser, RoomInv, TypeInv, GroupType
    <2>3. u \notin GroupNetworkSessions'[room[u]] /\ Lags(u, room[u])'
      BY <2>1 DEF Lags, LagPCs
    <2>4. ASSUME NEW w \in Users, pc'[w] \in {"DeleteRoomMember", "CommitExit"},
                 w \notin result', room'[w] \in chattingroom'
          PROVE  ~OneRow(room[w])'
      <3>1. w # u /\ room'[w] = room[w] /\ pc[w] = pc'[w] /\ w \notin result
        BY <2>1, <2>4 DEF StepOf, SameUser
      <3> QED
        BY <2>1, <2>4, <3>1 DEF SerialInv, OneRow, Members
    <2> QED
      BY <1>p, <1>u, <2>1, <2>2, <2>3, <2>4 DEF SerialInv
  <1>5. CASE CommitExit(u)
    <2> SUFFICES ASSUME serial', serial, OneAtATime', EntriesStored' PROVE SerialInv'
      BY DEF SerialInv
    <2>1. /\ UNCHANGED GroupNetworkSessions
          /\ pc[u] = "CommitExit" /\ pc'[u] \in {"BroadcastRemoved", "Idle"}
          /\ room[u] \in Rooms /\ chattingroom \subseteq Rooms
          /\ chattingroom' \subseteq chattingroom
      BY <1>5, RoomsAreRooms
      DEF CommitExit, Go, Return, Finish, RoomInv, TypeInv, PlaceType, UserInv, PlaceInv,
          Away, SerialInv
    <2>2. ASSUME NEW r \in chattingroom', NEW w \in Users, w # u \/ r # room[u]
          PROVE  RoomMember'[r][w] = RoomMember[r][w] /\ (Lags(w, r)' <=> Lags(w, r))
      <3>1. destroyer[r] # u /\ r \in Rooms
        BY <1>5, <2>1 DEF CommitExit
      <3>2. RoomMember'[r][w] = RoomMember[r][w]
        BY <1>5, <2>2, <3>1 DEF CommitExit, RoomInv, TypeInv, DatabaseType
      <3>3. Lags(w, r)' <=> Lags(w, r)
        <4>1. CASE w = u
          <5>1. ~Lags(u, r) /\ ~Lags(u, r)'
            BY <2>1, <2>2, <4>1 DEF Lags, LagPCs
          <5> QED
            BY <4>1, <5>1
        <4>2. CASE w # u
          BY <4>2 DEF Lags, StepOf, SameUser
        <4> QED
          BY <4>1, <4>2
      <3> QED
        BY <3>2, <3>3
    <2>3. ASSUME room[u] \in chattingroom'
          PROVE  /\ RoomMember'[room[u]][u] = 0
                 /\ u \notin GroupNetworkSessions[room[u]]
      <3>1. destroyer[room[u]] # u /\ u \notin GroupNetworkSessions[room[u]]
        BY <1>5, <2>1, <2>3 DEF CommitExit, RoomInv, UserInv, ExitInv, Outside, Commits
      <3> QED
        BY <1>5, <2>1, <3>1 DEF CommitExit, RoomInv, TypeInv, DatabaseType
    <2>4. ASSUME NEW w \in Users, pc'[w] \in {"DeleteRoomMember", "CommitExit"},
                 w \notin result', room'[w] \in chattingroom'
          PROVE  ~OneRow(room[w])'
      <3>1. w # u /\ room'[w] = room[w] /\ pc[w] = pc'[w] /\ w \notin result
        BY <2>1, <2>4 DEF StepOf, SameUser
      <3>2. room[w] # room[u]
        BY <1>0, <2>1, <3>1 DEF SerialInv
      <3>3. \A v \in Users : RoomMember'[room[w]][v] = RoomMember[room[w]][v]
        BY <2>1, <2>2, <2>4, <3>1, <3>2
      <3> QED
        BY <2>1, <2>4, <3>1, <3>3 DEF SerialInv, OneRow, Members
    <2> QED
      BY <1>p, <1>u, <2>1, <2>2, <2>3, <2>4 DEF SerialInv
  <1>6. CASE Connect(u)
    BY <1>6, SerialStays
    DEF Connect, Go, RoomInv, TypeInv, PlaceType, LocalType, clients, chat, locals,
        database, Lags, LagPCs, OneRow, Members
  <1>7. CASE Login(u)
    BY <1>7, SerialStays
    DEF Login, Go, Return, Finish, RoomInv, TypeInv, PlaceType, LocalType, clients,
        chat, locals, database, Lags, LagPCs, OneRow, Members
  <1>8. CASE SendRooms(u)
    BY <1>8, SerialStays
    DEF SendRooms, Go, Return, Finish, RoomInv, TypeInv, PlaceType, LocalType, clients,
        chat, locals, database, Lags, LagPCs, OneRow, Members
  <1>9. CASE CreateRoom(u)
    BY <1>9, SerialStays
    DEF CreateRoom, Receive, Go, RoomInv, TypeInv, PlaceType, LocalType, clients, chat,
        locals, database, Lags, LagPCs, OneRow, Members
  <1>10. CASE BroadcastRoom(u)
    BY <1>10, SerialStays
    DEF BroadcastRoom, Go, Return, Finish, RoomInv, TypeInv, PlaceType, LocalType,
        clients, chat, locals, database, Lags, LagPCs, OneRow, Members
  <1>11. CASE \E r \in Rooms : EntryRoom(u, r)
    BY <1>11, SerialStays
    DEF EntryRoom, Receive, Go, RoomInv, TypeInv, PlaceType, LocalType, clients, chat,
        locals, database, Lags, LagPCs, OneRow, Members
  <1>12. CASE \E r \in Rooms : RequireRoomInfo(u, r)
    BY <1>12, SerialStays
    DEF RequireRoomInfo, Receive, Go, RoomInv, TypeInv, PlaceType, LocalType, clients,
        chat, locals, database, Lags, LagPCs, OneRow, Members
  <1>13. CASE \E r \in Rooms : SendMessage(u, r)
    BY <1>13, SerialStays
    DEF SendMessage, Receive, Go, RoomInv, TypeInv, PlaceType, LocalType, clients, chat,
        locals, database, Lags, LagPCs, OneRow, Members
  <1>14. CASE \E r \in Rooms : ExitRoom(u, r)
    BY <1>14, SerialStays
    DEF ExitRoom, Receive, Go, RoomInv, TypeInv, PlaceType, LocalType, clients, chat,
        locals, database, Lags, LagPCs, OneRow, Members
  <1>15. CASE FindPassword(u)
    BY <1>15, SerialStays
    DEF FindPassword, Go, Return, Finish, RoomInv, TypeInv, PlaceType, LocalType,
        clients, chat, locals, database, Lags, LagPCs, OneRow, Members
  <1>16. CASE InsertRoomMember(u)
    BY <1>16, SerialStays
    DEF InsertRoomMember, Go, RoomInv, TypeInv, PlaceType, LocalType, clients, chat,
        locals, database, Lags, LagPCs, OneRow, Members
  <1>17. CASE FindEntry(u)
    BY <1>17, SerialStays
    DEF FindEntry, Go, Begins, RoomInv, TypeInv, PlaceType, LocalType, clients, chat,
        locals, database, Lags, LagPCs, OneRow, Members
  <1>18. CASE SendEntry(u)
    BY <1>18, SerialStays
    DEF SendEntry, Go, SendsTo, Ends, RoomInv, TypeInv, PlaceType, LocalType, clients,
        chat, locals, database, Lags, LagPCs, OneRow, Members
  <1>19. CASE FindAllMembers(u)
    BY <1>19, SerialStays
    DEF FindAllMembers, Go, RoomInv, TypeInv, PlaceType, LocalType, clients, chat,
        locals, database, Lags, LagPCs, OneRow, Members
  <1>20. CASE SendInfo(u)
    BY <1>20, SerialStays
    DEF SendInfo, Go, RoomInv, TypeInv, PlaceType, LocalType, clients, chat, locals,
        database, Lags, LagPCs, OneRow, Members
  <1>21. CASE FindAllMessages(u)
    BY <1>21, SerialStays
    DEF FindAllMessages, Go, Return, Finish, RoomInv, TypeInv, PlaceType, LocalType,
        clients, chat, locals, database, Lags, LagPCs, OneRow, Members
  <1>22. CASE SendMessages(u)
    BY <1>22, SerialStays
    DEF SendMessages, Go, Return, Finish, RoomInv, TypeInv, PlaceType, LocalType,
        clients, chat, locals, database, Lags, LagPCs, OneRow, Members
  <1>23. CASE InsertMessage(u)
    BY <1>23, SerialStays
    DEF InsertMessage, Go, Begins, RoomInv, TypeInv, PlaceType, LocalType, clients,
        chat, locals, database, Lags, LagPCs, OneRow, Members
  <1>24. CASE GroupBroadcast(u)
    BY <1>24, SerialStays
    DEF GroupBroadcast, Go, Finish, SendsTo, Ends, RoomInv, TypeInv, PlaceType,
        LocalType, clients, chat, locals, database, Lags, LagPCs, OneRow, Members
  <1>25. CASE FindExit(u)
    BY <1>25, SerialStays
    DEF FindExit, Go, Begins, RoomInv, TypeInv, PlaceType, LocalType, clients, chat,
        locals, database, Lags, LagPCs, OneRow, Members
  <1>26. CASE SendExit(u)
    BY <1>26, SerialStays
    DEF SendExit, Go, SendsTo, Ends, RoomInv, TypeInv, PlaceType, LocalType, clients,
        chat, locals, database, Lags, LagPCs, OneRow, Members
  <1>27. CASE CountByRoomMember(u)
    BY <1>27, SerialStays
    DEF CountByRoomMember, Go, RoomInv, TypeInv, PlaceType, LocalType, clients, chat,
        locals, database, Lags, LagPCs, OneRow, Members
  <1>28. CASE DestroyChatting(u)
    BY <1>28, SerialStays
    DEF DestroyChatting, Go, RoomInv, TypeInv, PlaceType, LocalType, clients, chat,
        locals, database, Lags, LagPCs, OneRow, Members
  <1>29. CASE DeleteRoomMember(u)
    BY <1>29, SerialStays
    DEF DeleteRoomMember, Go, RoomInv, TypeInv, PlaceType, LocalType, clients, chat,
        locals, database, Lags, LagPCs, OneRow, Members
  <1>30. CASE BroadcastRemoved(u)
    BY <1>30, SerialStays
    DEF BroadcastRemoved, Go, Return, Finish, RoomInv, TypeInv, PlaceType, LocalType,
        clients, chat, locals, database, Lags, LagPCs, OneRow, Members
  <1> QED
    BY <1>1, <1>2, <1>3, <1>4, <1>5, <1>6, <1>7, <1>8, <1>9, <1>10, <1>11, <1>12,
       <1>13, <1>14, <1>15, <1>16, <1>17, <1>18, <1>19, <1>20, <1>21, <1>22,
       <1>23, <1>24, <1>25, <1>26, <1>27, <1>28, <1>29, <1>30 DEF RecvProc

LEMMA InitHistoryInv == HInit => HistoryInv
  <1> SUFFICES ASSUME HInit PROVE HistoryInv
    OBVIOUS
  <1>1. KnownInv
    BY InitKnownInv DEF HInit
  <1>2. SerialInv
    BY DEF HInit, Init, SerialInv, OneAtATime, EntriesStored
  <1> QED
    BY <1>1, <1>2 DEF HistoryInv

\* A step of the history's specification is one of the rooms'.
LEMMA HNextIsNext == [HNext]_hvars => [Next]_vars
  BY DEF HNext, Next, hvars

LEMMA NextHistoryInv == HistoryInv /\ [HNext]_hvars => HistoryInv'
  <1> SUFFICES ASSUME HistoryInv, [HNext]_hvars PROVE HistoryInv'
    OBVIOUS
  <1>1. KnownInv'
    BY NextKnownInv, HNextIsNext DEF HistoryInv
  <1>2. CASE UNCHANGED hvars
    <2>1. SerialInv'
      BY <1>2 DEF hvars, vars, HistoryInv, SerialInv, OneAtATime, EntriesStored, Lags,
         OneRow, Members
    <2> QED
      BY <1>1, <2>1 DEF HistoryInv
  <1>3. ASSUME NEW u \in Users, RecvProc(u),
               serial' = (serial /\ OneAtATime' /\ EntriesStored')
        PROVE  HistoryInv'
    <2>1. StepOf(u)
      BY <1>3, ThreadKeeps DEF HistoryInv, KnownInv
    <2>2. serial' => serial /\ OneAtATime' /\ EntriesStored'
      BY <1>3
    <2>3. SerialInv'
      BY <1>1, <1>3, <2>1, <2>2, ThreadSerialInv DEF HistoryInv, KnownInv
    <2> QED
      BY <1>1, <2>3 DEF HistoryInv
  <1>4. ASSUME NEW u \in Users, Fails(u), serial' = FALSE PROVE HistoryInv'
    <2>1. SerialInv'
      BY <1>4 DEF SerialInv
    <2> QED
      BY <1>1, <2>1 DEF HistoryInv
  <1> QED
    BY <1>2, <1>3, <1>4 DEF HNext

\* As long as the packets of each room are served one by one and nothing fails,
\* the rows and the group of a room differ only by the user being served.
THEOREM HistorySafe == HSpec => []HistoryInv
  BY InitHistoryInv, NextHistoryInv, PTL DEF HSpec

\* So far served one by one, a room that nobody is working on has in its group
\* exactly the sessions of its rows (EntryRoomController.cpp:25-29,
\* ExitRoomController.cpp:22-24).
THEOREM ServedGroupIsRows == HSpec => []GroupIsRows
  <1>1. ASSUME HistoryInv, NEW r \in chattingroom, serial, \A u \in Users : room[u] # r
        PROVE  GroupNetworkSessions[r] = Members(r)
    <2>1. r \in Rooms /\ GroupNetworkSessions[r] \subseteq Users
      BY <1>1, RoomsAreRooms DEF HistoryInv, KnownInv, RoomInv, TypeInv, GroupType
    <2>2. \A w \in Users : w \in GroupNetworkSessions[r] <=> RoomMember[r][w] > 0
      BY <1>1 DEF HistoryInv, SerialInv, Lags
    <2> QED
      BY <2>1, <2>2 DEF Members
  <1>2. HistoryInv => GroupIsRows
    BY <1>1 DEF GroupIsRows
  <1> QED
    BY <1>2, HistorySafe, PTL

\* Served one by one, the step that takes the last member of a room removes the
\* room: the count of ExitRoomService is then still true at its commit
\* (ExitRoomService.cpp:15-24).
THEOREM LastExitRemovesRoom == HSpec => LastExitDestroys
  <1> DEFINE Removes ==
        \A r \in chattingroom :
          serial' /\ Members(r) # {} /\ Members(r)' = {} => r \notin chattingroom'
  <1>1. HistoryInv /\ [HNext]_hvars => Removes
    <2> SUFFICES ASSUME HistoryInv, [HNext]_hvars, NEW r \in chattingroom, serial',
                        Members(r) # {}, Members(r)' = {}, r \in chattingroom'
                 PROVE  FALSE
      OBVIOUS
    <2>1. PICK u \in Users : RecvProc(u) /\ serial
      BY DEF HNext, hvars, vars, Members
    <2>2. r \in Rooms /\ RoomMember[r] \in [Users -> Nat]
      BY RoomsAreRooms, RoomAssumption
      DEF HistoryInv, KnownInv, RoomInv, TypeInv, DatabaseType
    <2>3. CASE UNCHANGED RoomMember
      BY <2>3 DEF Members
    <2>4. CASE CommitEntry(u)
      <3>1. \A w \in Users : RoomMember[r][w] > 0 => RoomMember'[r][w] > 0
        BY <2>2, <2>4 DEF CommitEntry, HistoryInv, KnownInv, RoomInv, TypeInv, DatabaseType
      <3> QED
        BY <3>1 DEF Members
    <2>5. CASE CommitExit(u)
      <3>1. /\ destroyer[r] # u /\ pc[u] = "CommitExit"
            /\ \A w \in Users : w # u \/ r # room[u] => RoomMember'[r][w] = RoomMember[r][w]
        BY <2>1, <2>2, <2>5
        DEF CommitExit, HistoryInv, KnownInv, RoomInv, TypeInv, DatabaseType, SerialInv
      <3>2. r = room[u] /\ Members(r) = {u}
        BY <3>1 DEF Members
      <3>3. u \notin result
        BY <2>1, <3>1, <3>2
        DEF HistoryInv, KnownInv, RoomInv, UserInv, ExitInv, Commits, SerialInv
      <3>4. RoomMember[r][u] = 1
        BY <2>1, <2>2, <3>2 DEF HistoryInv, SerialInv, Members
      <3>5. OneRow(r)
        BY <3>2, <3>4 DEF OneRow
      <3> QED
        BY <2>1, <3>1, <3>2, <3>3, <3>5 DEF HistoryInv, SerialInv
    <2> QED
      BY <2>1, <2>3, <2>4, <2>5, OnlyCommitsWriteRows
  <1> QED
    BY <1>1, HistorySafe, PTL DEF HSpec, LastExitDestroys

=============================================================================
