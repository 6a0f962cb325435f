# Verification of WinServer

TLA+ models of the chat server in `src/WindowServer`, checked with TLC, and
theorems about them checked with TLAPS. Paths below are relative to
`src/WindowServer` unless they start with `README.md`, which is the repository's
own. `PROJECT.json` maps every definition to the lines it models.

## 1. The system

WinServer is one Windows process. It accepts TCP connections, gives each a
number (`UserLocalId`) and a thread, and lets clients join, log in, create chat
rooms, enter and leave them and send messages. Accounts, rooms, members and
messages are in MySQL.

| component | state | operations |
|---|---|---|
| Sessions and groups, `BlockSocketWrapper`, `BlockingSock` | `AllNetworkSessions`, `AllSockets`, `GroupNetworkSessions`, `LastUserID`, `NetworkSessionMutex` | `AcceptClient`, `CloseSocket`, `EntryGroup`, `ExitGroup`, `RecvMessage`, `RecvMessageHeader`, `PrivateMessage`, `Broadcast`, `GroupBroadcast` |
| Server threads, `ServerApp` | one accepting thread, one thread per user | `AcceptProc`, `RecvProc` |
| Database pool, `DatabasePool` | `Databases`, `DBSemaphore`, `DatabasesMutex` | `PopWrapper`, `PushWrapper` |
| Transactions, `DatabaseWrapper` | a MySQL connection: transaction, autocommit | `Transaction_Start`, `Transaction_End`, `RollBack`, `SetAutoCommit`, statements |
| Rooms: controllers, services, repositories | tables `chattingroom`, `RoomMember`; the groups; what clients were told | create, enter, ask for members, leave, remove |
| Accounts: JOIN, LOGIN, LOGOUT, EXIT_CLIENT, `DatabaseManager` | table `users`; `LocalUserIdToUserId` | those four, and the registration of an accepted session |
| Messages, `SendMessageController`, `MessageRepository` | table `ChatMessage` | send to a room, history of a room |
| Password check, `EntryRoomCompare*` | none | one read, one reply |
| Packet dispatch, `RecvManager` | callbacks per packet type, a critical section | register at start, `ExecuteCallback` |
| Object pools, `MemoryPool`, `ObjectPool`, `PoolingManager` | pages, chunks, the free `SList`, `AllocationMutex`, `initFlag` | `GenerateObject`, `FreeObject` |
| Thread pool | job queue, semaphores, threads | made at start; the server gives it no job |
| Packets and conversions | none | byte order, layouts, UTF-8 |
| Start, singletons, listen socket, UDP | none after start | once, on one thread; UDP is never selected |

How they interact. `AcceptProc` registers a connection with `BlockSocketWrapper`
and `DatabaseManager`, sends it its number and starts its `RecvProc`. `RecvProc`
takes a header from its object pool, reads a packet and calls
`RecvManager::ExecuteCallback`, which calls a controller; the controller calls a
service; the service takes a connection from `DatabasePool`, calls repositories
inside a transaction or not, and gives it back; the controller then sends
through `BlockSocketWrapper`. Everything a controller does, it does on the
thread of the user whose packet it serves, so all concurrency is between the
threads of different users and the accepting thread.

What is hard about it:

- *shared state under several locks*: `NetworkSessionMutex` guards the maps but
  not the use of a session afterwards, and `GroupBroadcast` takes no lock;
- *order of three worlds*: the database, the groups in memory and what each
  client was told change one after the other, never together, and two users'
  steps interleave at each point;
- *failures in the middle*: a commit fails, a peer vanishes while its packet is
  served or while others send to it;
- *limits*: a semaphore that must count a queue, a pool that a path leaks from,
  chunks cut into objects that do not fit;
- *check, then act*: counts and existence tests that lock nothing.

The hazards are in `PROJECT.json`, each at its line, with the properties that
cover it or the reason why none does yet.

## 2. Modules

    BlockSocketWrapper          sessions, groups, mutex, AcceptProc, RecvProc
      MCBlockSocketWrapper      for TLC
      BlockSocketWrapperProofs  theorems
    ConnectionPool              what DatabasePool promises, in three actions
    DatabasePool                the pool and its callers, step by step
      MCDatabasePool
      DatabasePoolProofs        theorems, refinement of ConnectionPool
    ChattingRoom                create, enter, ask, send, leave, remove
      MCChattingRoom
      ChattingRoomProofs        theorems: rows, groups, removal
        ChattingRoomKnownProofs theorems: what clients know, rooms served one by one
      ChattingRoomHistory       what holds while rooms are served one by one
      MCChattingRoomHistory
    Transactions                the services over the connections of ConnectionPool
      MCTransactions
      TransactionsProofs        theorems
    Framing                     RecvProc over the bytes of one connection
      MCFraming
      FramingProofs             theorems
    ObjectPool                  one PoolingManager: pages, chunks, objects
      MCObjectPool
      ObjectPoolProofs          theorems
    Accounts                    JOIN, LOGIN, LOGOUT, EXIT_CLIENT
      MCAccounts
      AccountsProofs            theorems

A module abstracts the ones below it by what is shown of them. `ChattingRoom`
and `Accounts` send by one step per recipient and hold a database connection
without naming it: that the session is alive and the connection unshared is what
`BlockSocketWrapper` and `DatabasePool` are about. In the other direction
`BlockSocketWrapper` lets a controller make any call, about any room: what it
does to groups is about its own user, as every controller passes its `userID`
on, while a private message may be for any user, because `SendResult` takes the
number from the packet. A controller may also stop to wait for a connection.

### BlockSocketWrapper

State and actions keep the names of the class. A session pointer is the id of
its user, so a dangling pointer is an id in a group or a variable whose socket
is no longer in `Live`. `Acquire(t)` is `WaitForSingleObject`; the body under
the mutex is one step, since nothing else can read or write the maps then,
except for `Broadcast`, which sends to one session after another with the mutex
held. `ExitGroup` is two actions because the code locks twice; `GroupBroadcast`
reads the group at each turn of its loop because it locks never.
`PrivateMessage` is for one of `Addressees`: AcceptProc's new user, or whichever
user the packet names (`Source/Controllers/Controller.cpp:14`), whose own thread
may close that session between the lookup and the send.

`RecvProc` is the loop of that name: `Peek`, `Recv`, `CallWrapper` (a
controller's next call), `PopWrapper`, `NextPacket`, `CloseSocket`. What a peek
makes it do is `AfterPeek`: read a body; go on with a length of 0, which reads
nothing and consumes nothing; or end, on a negative length or a lost connection.
`Lose` is the network: a peer closes, resets, or leaves after bytes that read as
a header of length 0 (`"remnant"`: one to three zero bytes will do), which the
peek then finds for ever, so that the loop never ends. `SendMsg` and
`PopWrapper` return or do not: a `send` that fails makes the loop in
`BlockingSock::SendMsg` repeat for ever, and the pool may have lost its
connections.

### ConnectionPool and DatabasePool

`PopWrapper` is three steps (semaphore, lock and `front`, `pop` and unlock) and
`PushWrapper` two (lock and push, permit and unlock). `ReturnWithoutPush` is the
return of `EntryRoomService::PasswordCompare` that gives nothing back: its
`shared_ptr` closes the connection. `ConnectionPool` has three actions, lend,
give back and drop; `DatabasePool` implements it with the idle set as `free` and
what each thread holds, once popped, as `held`.

### ChattingRoom

One action per statement or send, in the order of the controllers; a send to a
group is one step per recipient, as `GroupBroadcast` takes no lock, and
`Broadcast`, which holds the mutex, is one step. `toReach` is what the loop of
`GroupBroadcast` has still before its iterator: a session that joins meanwhile
is put on either side of it, one that leaves is not met any more. `RoomMember`
counts rows, because the table has no key and a user may have two. `inserted`
and `destroyer` are the locks InnoDB holds between a statement and its commit:
an INSERT of a member or a message waits for a room being deleted, and the
DELETE waits for an uncommitted member. `roomList`, `members`, `informed` and
`listed` are what clients have been told of rooms and members, `history` and
`caughtUp` of messages.

`SendMessage` is a packet of one or more messages; `InsertMessage` is one turn
of the controller's loop, an INSERT that commits alone and whose result nobody
looks at, and the packet is sent to the group when all are done.
`FindAllMessage` and `FindAllChatRoom` end without a return; whether the
controller goes on is then a free choice among the values of `Residue`.

No controller asks whether a session is logged in, and `EntryRoom` is about any
room. An INSERT IGNORE whose room or account is not there stores nothing and is
true, a statement that fails is mostly not looked at, and a `DeleteRoomMember`
that is the victim of a deadlock takes the DELETE of the room back with it
(`DeleteFails`). `Failing` says which of these happen in an instance (those that
need the room to be gone happen in all), and three variables remember them:
`unstored`, the sessions that enter with no row of that entry; `dropped`, the
messages that are sent and not stored; `undone`, the rooms whose DELETE was
rolled back under an exit that is then told as done. The properties about rows
except exactly these sessions, messages and rooms, which the code lets through,
and say that nothing else comes apart.

`ChattingRoomHistory` adds the history variable `serial`, true as long as no two
users' packets have worked on one room at a time, each entry has stored its row
and nothing else has failed. `LastExitDestroys` and `GroupIsRows` have it as
their premise; without it the code loses both (see "what was met", below).

### Transactions

Three threads run services on the connections of `ConnectionPool`, which
`DatabasePool` is proved to implement: `PopWrapper`, `PushWrapper` and the path
that drops the connection are its `Lend`, `GiveBack` and `Drop`. What a
connection keeps from one service to the next is its state: `autocommit`,
whether a transaction is open (`begun`), and what that transaction would write
(`pending`). The services are told apart by how they treat it: `JoinUser`,
`PasswordCompare` and `ExitRoom` start a transaction, `CreateChattingRoom` and
`InsertMessage` run one statement with none, a "Read" service one SELECT. Each
statement and each commit may fail, a failed write alone or, as InnoDB does with
the victim of a deadlock, with its whole transaction. The two services that
INSERT IGNORE may also succeed and store nothing (`InsertIgnored`), when the
foreign keys find no room or no account. `ExitRoom` gives its connection back
inside the transaction when its count fails: those connections are in `left`
until a later service turns autocommit on again. `PasswordCompare` and
`ExitRoom` do not look at what their INSERT or DELETE returned: those threads
are in `excused`, and so are those whose INSERT IGNORE stored nothing and those
that returned on a connection of `left`.

### Framing

`RecvProc` again, alone with the bytes of its connection: it peeks at a header,
reads as many bytes as the header says in chunks of `bufferMaxSize`, and
dispatches. Bytes arrive in order and in segments that end anywhere, so a peek
may return a part of the header; what it did not return stays 0, and
`PacketLenOf` is what `ntohl` makes of that. `shortest` remembers the shortest
peek. With four bytes or more the length is right and the loop stays in step
(`InStep`); with eight the type is right too, and the controllers get every
packet, whole and in order (`DispatchedWhole`), and eventually
(`PacketsAreServed`) as long as they return (`ControllerReturns`), which one
that waits for a connection, or is in `SendMsg` to a lost peer, need not. With
fewer the code loses these, because it never asks how many bytes the peek
returned: a length cut to its first bytes is read as a smaller one, often 0, and
what follows is read as a header (`OutOfStep`). Without its premise each
property is violated within a few steps. A peek of eight to eleven bytes cuts
`UserLocalId`, which only addresses the reply. A packet of `sent` is where it
starts in the stream and how long it is; its length is a positive INT32, as the
one `ntohl` gives.

### ObjectPool

An address is a page and an offset; a unit is the 16 bytes every pooled type is
aligned to. `PushEntry` is one turn of the loop in `AllocateMemory`, because
other threads pop what was pushed while it still runs. `PopEntry` and `Push` are
the interlocked operations, `Wait` and `QueryDepth` the mutex and the second
look at the list, `GenerateObject` the `call_once`. A thread need not free what
it took: `Leave` is `LogoutController`, which forgets its `ResultPacket`, the
break of `RecvProc` with its header, and `AcceptProc`, which hands the parameter
on to the thread it makes, and `TakeOver` is that thread. So one thread may hold
any number of objects, and no bound on the pool follows from the number of
threads; `mostLent` remembers how many were lent at once, and `GrowsWhenAllLent`
says the pool took no chunk that was not needed for them. `PoolAssumption` says
that chunks fill their page: every pool has pages of 1 MiB and chunks of 1 KiB
(`Header/Pool/PoolingManager.h:39-42`). That objects fill their chunk is not
assumed, because it holds of some types only.

### Accounts

`snapshot` is what a transaction reads at REPEATABLE READ; `inserted` is the row
of an open transaction, which another INSERT with an equal UNIQUE key waits for.
`IsExistUserNickname` is called with the username, as in the code, and `Cut` is
the copy of the nickname with the length of the username. `loggedIn` is what the
client believes; `LocalUserIdToUserId` is what the server acts by.

## 3. Runs

| run | bounds | shows |
|---|---|---|
| `socket_wrapper` | 2 users, 1 room | no dangling pointer in a group, the two maps agree, a thread's own session and those `Broadcast` sends to are alive when used, only a user's own thread changes its membership; a user whose peer is gone is unregistered and its thread ends, if no thread stays in `SendMsg` and it does not stay in `PopWrapper` for ever |
| `group_broadcast_race` | 2 users, 1 room | **violated**: `GroupBroadcast` uses a session that `CloseSocket` destroyed |
| `database_pool` | 4 threads, 2 connections | never an empty `front()`, never a shared connection, permits count connections, `ConnectionPool` implemented, every waiter served while nothing is dropped |
| `connection_leak` | 3 threads, 2 connections | **violated**: a room with no password costs a connection, and a service waits for ever |
| `chatting_room` | 3 users, 1 room, 2 rows per user, failed commits and lost sessions | members and rooms known to clients; served one by one, the group of a room at rest is its rows, and the last exit removes the room |
| `chatting_room_messages` | 2 users, 1 room, 1 row per user, 2 messages, failed commits and statements | a client that got the history knows every stored message; shown messages are stored, sessions of a group have rows and rooms told removed are, each with the exception above |
| `object_pool` | 4 threads, 2 objects that no thread holds, chunks of 2 objects, 2 chunks per page, 3 pages | objects never share memory or pass their page, the pool grows only when all is lent |
| `object_overlap` | 4 threads, 1 object that no thread holds, chunks of 3, objects of 2 | **violated**: two objects overlap |
| `accounts` | 2 sessions, names of 1 or 2 letters, 3 ids | unique names, truthful SUCCESS and SameID, a logged-in session is mapped to its account |
| `same_nickname` | 2 sessions, 2 names | **violated**: a nickname nobody has is refused as existing |
| `transactions` | 3 threads, 2 connections | connections come back clean, what returned true is committed, what returned false is not stored, with the exceptions above |
| `framing` | 3 packets of 12, 272 and 1400 bytes, segments that end at 3, 6, 11, 200 and 1100 bytes of a packet or at its end | the loop stays in step, packets reach controllers whole and in order, one header is lent at a time, every packet sent is served while controllers return |

Why the bounds are enough. Two users and the acceptor are every pair of threads
that can meet in `BlockSocketWrapper`: the two-party races are pairwise, and a
third party could only hold the mutex longer. The theorems remove the bound for
safety. The pool needs more threads than connections, so that some wait, and two
connections, so that the order of the queue matters. Three users make an
observer of a room in which an entry and an exit cross; one room is enough there
because no step relates two rooms, and `RoomsKnown` needs only one room to be
missed. Two rows per user are the first case of duplicates. The messages need a
sender and a reader, and two of them a packet of two, or one beside another. The
statements fail in that run, in a room with a row per user, and succeed in
`chatting_room` (`Failing` is {} there), where the three users and the second
rows would take TLC beyond what a run may last; `Residue` is {TRUE} in both for
that reason: a client without its list, or without the history, adds no
observer, and a session without its list is where a refused login leaves it. The
theorems hold for every `Failing` and `Residue`. `Transactions` needs a thread
whose writes another's rollback or commit could take along on the connection
they share in turn, and a third to find what is left; two connections let two
transactions be open at once. The lengths of `framing` are a header alone, a
body of one chunk and a body of two; the cuts are inside each field of the
header and inside each chunk; three packets are one before and one after the one
that is cut. The object pool needs a second chunk, a second page and a thread
that waits while another cuts; four threads, and two objects nobody gives back,
lend more than two chunks hold. `object_overlap` keeps the proportions that
matter of the real sizes (an object is 288 bytes, a chunk 1024): the last object
starts inside the chunk and ends in the next. Two sessions with names of two
lengths give equal names, names cut to be equal, and ids used up by failed
INSERTs. Deadlock is checked where the system cannot stop (`object_pool`);
elsewhere the bounds stop it (connections, rows or ids run out).

Every property has a mutant in `PROJECT.json`, a change of one mapped definition
such as a lock left out or a failed commit ignored, under which its run fails.

### Fairness

Windows schedules every ready thread, so steps a thread can take on its own have
weak fairness. `WaitForSingleObject` on a mutex or a semaphore, and the SRW lock
under `std::mutex`, give no order that is documented, but a waiter is not passed
over for ever; acquisition therefore has strong fairness. A query returns. A
`recv` from a live peer need not return, no client must send anything, and
nothing is assumed about losing peers. A controller is a finite list of calls,
so `NextPacket` has strong fairness; but no `SendMsg` has to return and no
service has to get a connection. `LostPeersAreClosed` states as its premises
that no thread stays in `SendMsg` for ever, because the loop there has no exit
on an error and `Broadcast` would be in it with the mutex held, and that the
user's own thread does not wait for a connection for ever. Other threads may,
and one may turn for ever on a remnant: it takes the mutex again and again, and
does not keep it. `WaiterIsServedUnlessClosed` has the premise that no
connection is dropped; `connection_leak` shows the premise is needed. In
`Framing` the thread runs, and TCP delivers what was sent while the connection
lasts; nothing makes a client send, a peer leave or a controller return, and
`PacketsAreServed` has as its premise that the thread does not stay in one for
ever.

### What the violated runs say

1. `BlockSocketWrapper::GroupBroadcast` walks the group without
   `NetworkSessionMutex`, where README.md:286 says member variables are used
   under a mutex. Another thread's `CloseSocket` destroys the session between
   the read and the send.
2. `EntryRoomService::PasswordCompare` returns at line 27 without `PushWrapper`.
   After as many entries into rooms with no password as there are connections,
   `PopWrapper` waits for ever; README.md:200 says it waits until there is a
   connection.
3. `ObjectPool::AllocateMemory` pushes an object at each start that lies in the
   chunk, fitting or not. A result packet does not divide the chunk: its last
   object covers part of the next chunk. README.md:90 promises that many threads
   pop and push safely.
4. `JoinService::JoinUser` passes the username to `IsExistUserNickname`, so the
   message "the same nickname exists" (`Source/Services/JoinService.cpp:28`) is
   sent when it does not.

Some things the code does were met and are part of the models, but no document
says otherwise, so they are hazards and not findings: two members who leave at
once both count two and the empty room stays; an entry that crosses the last
exit ends in the group of a removed room; a user who reconnects has two rows; a
member list read between EXIT and its commit names a user who is gone; a service
that follows a failed count on its connection may report writes that are never
committed; an entry whose INSERT fails, or whose session is not logged in, is
reported as an entry and joins the group with no row, and a message whose INSERT
stored nothing is sent to the group; a deadlock in the DELETE of a member brings
back the room that all clients are then told is removed; a private message to
the user a packet names may find that session destroyed; a header that arrives
in two segments can put `RecvProc` out of step for good, and a peer that leaves
behind a few zero bytes makes it turn for ever; each logout takes one object
from the pool of result packets for good.

## 4. Proofs

The theorems hold for every number of users, groups, threads and connections,
under the assumptions the modules state on their constants. The invariants that
`RegistrySafe`, `ServiceSafe`, `RoomsSafe`, `KnownSafe`, `HistorySafe` and
`PoolSafe` are about contain the properties with their exceptions, and nothing
stronger: what the code loses is not in them.

`BlockSocketWrapperProofs`. `GroupsHoldRegistered` is not inductive: it needs
that a thread past `AcceptClient` or inside `RecvProc` has a registered user,
and that only that user's own thread removes it. `RegistryInv` is the
strengthening: types, which threads have started (`ThreadsStarted`), whose
sockets exist then (`SocketsOwned`), that the session of a receive is the
thread's own and that of a `Broadcast` was read under the mutex it still owns
(`SessionsRead`, which says nothing of the session of a private message), that
the two maps agree, and that groups hold registered sessions. `InitRegistryInv`
and `NextRegistryInv` prove it inductive, one step per action. From it follow
`RegistrySafe`, `TypeCorrect`, `NoDanglingSession`, `MapsAgree`,
`OwnSessionIsLive`, which claims no private message to another user, and the
action property `MembershipIsOwned`.

`DatabasePoolProofs`. `LendInv` is types, a queue without repetition, the lock
owned by the thread inside, a wrapper held exactly where the code has one, the
head of the queue in the hand of the one thread about to pop it, and `LentOnce`.
`PoolInv` adds `PermitsCountConnections`, whose step needs the cardinality of
the set of threads between the semaphore and the queue. `QueueFits`, a queue
without repetition is no longer than there are connections, gives that
`ReleaseSemaphore` never meets its maximum. From `PoolInv` follow the three
safety properties and, step by step (`Front` and the waits stutter, `Pop` lends,
`Push` gives back, `ReturnWithoutPush` drops), `PoolRefines`.

`TransactionsProofs`. What a service reported, and what the pool holds, follows
only from what each service has done so far to the connection it has:
`ReportedIsCommitted` says nothing of a write that is still pending, and
`IdleIsClean` nothing of a connection that a thread still holds. `ServiceInv`
says both for each place a service may be at: which services get there
(`ServiceAt`), whether its connection has autocommit off (`CleanOutside`),
whether its write is absent, pending or stored (`WritesAt`, but for the
excused), and what it has told (`TruthTold`). That a connection is in one place
(`Apart`) and that writes are pending only where their service is
(`PendingIsOwn`) make the steps of one thread harmless to the others:
`OthersKeep` and `StepInside` say so once, and each action's lemma is then about
its own thread. From `ServiceInv` follow `PoolIsClean`, `SuccessIsCommitted` and
`RefusalStoresNothing`. The one assumption is `TransactionsAssumption`.

`AccountsProofs`. `UniqueNames` is not inductive: a commit adds a row that was
compared with the table some steps ago. `InsertedDiffer` adds that the rows of
the open transactions already differ from those of the table and from each
other, which is what the lock an INSERT waits for and its UNIQUE keys give, and
`IdsGiven` that AUTO_INCREMENT is ahead of all of them. `JoinedIsStored` and
`LoggedInIsMapped` need what a session has at each place (`SessionInv`): the row
it commits bears its name, the id it found is that of its name's row, and its
entry in `LocalUserIdToUserId` is there from `RegisterId` on. `CutIsName`, by
the theorems on sequences, gives that a cut nickname is not empty. The only
assumption is `AccountAssumption`; that MySQL's UNIQUE keys hold is part of the
model of `InsertUser`, so what is proved is that the code between them tells
clients the truth and stores what it tells.

`ChattingRoomProofs`. `GroupHasRows` needs the whole of an entry and of an exit:
that the row an entry committed is still there when `EntryGroup` runs, unless it
was never stored or the room is gone, and that an exit deletes its row after it
left the group. `RoomInv` is types, the lock of a deleted room (`LockInv`), rows
of created rooms only (`RowsCreated`), `GroupHasRows` for the rooms that are
there and those that may yet be created (`GroupsHold`, `Possible`: a session may
enter a room before it is there, and joins with no row), and for each user what
its place says (`UserInv`): which room it works on, whether its row is there,
uncommitted, unstored or gone, whose lock is held, and that an exit which lost
its lock to a deadlock is about a room in `undone` (`ExitInv`). A step of one
user leaves the place and the room of the others alone (`StepOf`), and their
rows and locks too unless it removes the room (`SteadyRoom`), so the lemma of an
action is about its own user, and `OthersKeep` carries the others.
`GroupsHaveRows` and `RemovalIsTold` follow.

`ChattingRoomKnownProofs` adds a layer for each thing a client knows, with where
the rest of it is on its way. A room that is not in a list is announced, or in
the rows a login has read (`ListInv`). A message that is not in a history is in
a packet not yet sent, or in one whose loop has still to reach that session
(`CaughtInv`); while the history is read, in that packet (`StoredInv` says those
packets hold what is stored, or dropped: `Settled`). A member that is not in a
client's list is in a `SendEntry` loop that has still to reach it (`MemberInv`).
The argument in all is the same: the question is read by a session that is in
the group, and what is written after that is sent to the group later. For each
layer one lemma is about the steps that do not touch it (`ListStays`,
`StoredStays`, `CaughtStays`, `MemberStays`), and one case per action that does.
The four theorems hold for any number of users, rooms, rows and messages, for
any statements that fail, and for either outcome of the functions without a
return; the one assumption is `RoomAssumption`.

Its last part is about `ChattingRoomHistory`. `GroupIsRows` speaks of a room
nobody works on; `SerialInv` says what it is while somebody does: a session is
in the group exactly when its user has the row and does not lag (`Lags`), that
is, is not between the commit of its entry and `EntryGroup`, or between
`ExitGroup` and the commit of its exit. `LastExitDestroys` is lost when a row
comes or goes between an exit's count and its commit; `SerialInv` has for it
that no room's DELETE was undone, that every entry stored its row, that no user
has two rows and that an exit on its way to its commit with nothing to remove
leaves somebody in the room. Rows are in rooms that were created
(`RowsCreated`), so that a new one starts empty. A step that changes neither
rows nor groups nor who lags keeps `SerialInv` (`SerialStays`); the five others,
the creation, the two commits and the two changes of the group, are a case each
and lean on `RoomInv` and `MemberInv`. A failed commit or statement, an entry
that stores no row and a lost session end `serial`, and with it what is claimed.
`ServedGroupIsRows` and `LastExitRemovesRoom`, an action property, follow.

`ObjectPoolProofs`. `ObjectsApart` says nothing of a chunk that is being cut,
nor of the thread that is about to cut one. `PoolInv` does: that only one thread
cuts, under `call_once` first and under the mutex afterwards (`MutexInv`), that
no two chunks share memory and the one a thread has taken is the head of its
queue or the last that was cut (`ChunkInv`), that each object, free or lent,
starts in a chunk that was cut, and before the point the loop of
`AllocateMemory` has reached in it (`StartInv`), and that each chunk gives
`PerChunk` objects (`CountInv`). The last gives `GrowsWhenAllLent`: a thread
that takes a chunk met an empty list after it had the mutex, so all objects of
the chunks there are were lent at that moment (`EmptyListMeansAllLent`), and
`mostLent` does not forget it, whatever is freed later. `StartsDiffer` and
`GrowsWhenAllLent` need nothing of the sizes (`ObjectsLentOnce`,
`PoolGrowsByNeed`). That objects also end where the next one starts is
`FillInv`, which holds for types whose size divides the chunk's: `ObjectsFill`
is the hypothesis of `ObjectsLieApart` and `ObjectsInsidePage`. It is true of
the header and of the packets of 16 and 32 bytes (LOGOUT, ENTRY_MEMBER, a room's
info ...) and false of LOGIN, JOIN, ENTRY_ROOM, RESULT and CREATE_ROOM, and it
cannot be left out: `object_overlap` is the second kind. What is computed about
a chunk's objects is a lemma on multiples (`LoopTurns`, `PerChunkBounds`).

`FramingProofs`. `InStep` says where `RecvProc` is when it asks for a header;
`FrameInv` says it everywhere else too. `Laid` is how the packets lie in the
stream: each starts where the one before it ends, so no two start at one place
(`OneStart`). `StepInv` has, as long as every peek returned the length, that the
thread is as far into some packet as `totalRecvSize` says, and past
`RecvMessage` it has all of it, or the peer is gone and no byte will come
(`Drained`). `OrderInv` adds, as long as every peek returned the type too, that
this packet is the next one to dispatch, or the one just dispatched. `HeaderInv`
counts the header of the thread, and gives `OneHeader`. The three theorems hold
for any number and lengths of packets, for any segments, and wherever the peer
is lost; `FramingAssumption` is the one assumption. `PacketLenOf` needs no
arithmetic in them: of a peek that returns four bytes it is the length, and of a
shorter one only that it is an INT32 and not negative (`PeekedLength`).

Model-checked only: the liveness properties (`LostPeersAreClosed`,
`WaiterIsServedUnlessClosed`, `PacketsAreServed`), since temporal reasoning with
fairness and ENABLED is out of the prover's reach. Every invariant, action
property and refinement that a run checks is a theorem.

## 5. Assumptions, and what is left out

- MySQL is external: InnoDB at REPEATABLE READ with the locks named above.
  Commits may fail and then roll back. Statements fail in `Transactions` and,
  those that `Failing` names, in `ChattingRoom`; the others there
  (`InsertChattingRoom`, the lists and the history) succeed: one that fails
  leaves a client without what it asked for, and the properties are about
  clients that got it. A fetch that breaks off half-way is not modelled. They
  succeed in `Accounts`. The connection to MySQL is not lost: nothing in the
  code reconnects it, and the first statement on a dead one is executed as a
  null pointer.
- A client sends nothing after EXIT_CLIENT, and names that are not empty; it
  asks about, leaves and sends to rooms it is in only, as the code does not
  check. It may enter any room, logged in or not, and name any user as the
  sender of a packet. In `ChattingRoom` an account has one session at a time.
- A group is an `unordered_set`, and `GroupBroadcast` walks it with no mutex: a
  join that rehashes it under the loop may make the loop skip members, or worse.
  That race is `group_broadcast_race`; `MembersKnown` and `MessagesKnown` are
  about a loop that survives it: a session that joins is met or not met, and no
  other is lost.
- `Broadcast` is one step of `ChattingRoom`: it holds the mutex that every other
  send needs. Bytes of two packets to one client that mix inside `send` are not
  modelled.
- Ids do not wrap: `LastUserID` is 32 bits wide and one run of the server does
  not accept that many connections.
- Clients send packets whose length is that of their bytes. A length that is
  negative or wrong, and what a thread out of step goes on to read and dispatch,
  are not followed further than the end of the connection.

### Not modelled

- *Thread pool*: `ServerApp` makes one and destroys it at the end of its own
  constructor; it submits no job and never calls `EndThreadPool`, and no
  document says what the pool promises.
- *UDP*: the server always makes a TCP wrapper.
- *Layouts of bodies, byte order, character sets*: sequential formatting that no
  property is about, the header's fields apart.
- *Start and end of the process*: one thread, before or after all others.
- *Operations with no caller*: `AllocateObjects`, `CountGroup`,
  `FindChattingRoomById`, `FindUserByUserID`, `FindUserByNickname`, `SendQuery`.

## 6. Plan

In this order, the most important behaviour first:

1. *Composition*: sessions of `Accounts` in the rooms of `ChattingRoom`: logout
   inside a room, two sessions of one account.
2. *An abstract object pool*: lend an object nobody has, take one back, and
   `ObjectPool` shown to implement it over `PoolInv`, step by step.
