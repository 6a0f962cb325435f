------------------------ MODULE ChattingRoomHistory ------------------------
(***************************************************************************)
(* ChattingRoom with a history variable that tells whether the rooms have  *)
(* been served one packet at a time, for sessions that are logged in, and  *)
(* nothing has failed: what holds then, and is lost when the packets of    *)
(* one room cross.                                                         *)
(***************************************************************************)
EXTENDS ChattingRoom

VARIABLE serial

hvars == <<vars, serial>>

\* No two users' controllers work on one room.
OneAtATime ==
    \A u, v \in Users : u # v /\ room[u] = room[v] => room[u] = 0

\* Every entry to a room that is there has stored its row.
EntriesStored == \A r \in chattingroom : unstored[r] = {}

HInit == Init /\ serial = TRUE

HNext ==
    \E u \in Users :
        \/ RecvProc(u) /\ serial' = (serial /\ OneAtATime' /\ EntriesStored')
        \/ Fails(u) /\ serial' = FALSE

HSpec == HInit /\ [][HNext]_hvars

-----------------------------------------------------------------------------
(* Properties.                                                             *)

\* The step that takes a room's last member removes the room
\* (ExitRoomService.cpp:15-24), as long as no other step comes between its
\* count and its commit.
LastExitDestroys ==
    [][\A r \in chattingroom :
         serial' /\ Members(r) # {} /\ Members(r)' = {} => r \notin chattingroom']_hvars

\* With the packets of a room served one by one, and every INSERT of an entry
\* storing its row, its group is its rows whenever none is in progress
\* (EntryRoomController.cpp:25-29, ExitRoomController.cpp:22-24).
GroupIsRows ==
    \A r \in chattingroom :
        serial /\ (\A u \in Users : room[u] # r) => GroupNetworkSessions[r] = Members(r)

=============================================================================
