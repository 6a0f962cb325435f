------------------------------ MODULE Accounts ------------------------------
(***************************************************************************)
(* Accounts: JOIN, LOGIN, LOGOUT and EXIT_CLIENT of many sessions at once, *)
(* over the table users and the map from the id of a session to the id of  *)
(* an account that DatabaseManager keeps.                                  *)
(*                                                                         *)
(* MySQL is external: at REPEATABLE READ a transaction reads what was      *)
(* committed when its first SELECT ran, and an INSERT waits for another    *)
(* transaction's row that a UNIQUE key makes equal, then fails if that row *)
(* is committed.  Other statements succeed; a commit may fail.  A name is  *)
(* a sequence of letters, since one of its conversions cuts it; it is not  *)
(* empty, and equal names are the same letters.                            *)
(***************************************************************************)
EXTENDS Integers, Sequences, FiniteSets

CONSTANTS
    Sessions,   \* connections; an id is never reused
    Letters,    \* of names
    MaxLength,  \* bound: letters in a name
    MaxId       \* bound: ids AUTO_INCREMENT gives

ASSUME AccountAssumption ==
    /\ IsFiniteSet(Sessions)
    /\ MaxLength \in Nat
    /\ MaxId \in Nat

Names  == UNION {[1..n -> Letters] : n \in 1..MaxLength}
NoName == <<>>
Absent == -2        \* no entry in LocalUserIdToUserId

Rows  == [id : 1..MaxId, Username : Names, Nickname : Names]
NoRow == [id |-> 0, Username |-> NoName, Nickname |-> NoName]

Answers == {"none", "SUCCESS", "SameID", "SameNickname", "FAILED"}

VARIABLES
    users,                  \* the committed rows
    inserted,               \* the row of each session's open transaction
    lastId,                 \* the last id AUTO_INCREMENT gave
    LocalUserIdToUserId,    \* session -> account, -1 unknown, 0 logged out
    pc,                     \* where each session's RecvProc thread is
    username,               \* arguments of its JOIN or LOGIN
    nickname,
    snapshot,               \* what its transaction reads
    found,                  \* the id FindUserByUsername returned
    answer,                 \* the reply to the session's last JOIN
    loggedIn                \* the name its client is logged in by

vars == <<users, inserted, lastId, LocalUserIdToUserId, pc, username,
          nickname, snapshot, found, answer, loggedIn>>

database == <<users, inserted, lastId>>

TypeOK ==
    /\ users \in SUBSET Rows
    /\ inserted \in [Sessions -> Rows \cup {NoRow}]
    /\ lastId \in 0..MaxId
    /\ LocalUserIdToUserId \in [Sessions -> Absent..MaxId]
    /\ pc \in [Sessions -> {"Offline", "Idle", "IsExistUsername",
                            "IsExistUserNickname", "InsertUser", "Commit",
                            "FindUser", "SetUserID", "Closed"}]
    /\ username \in [Sessions -> Names \cup {NoName}]
    /\ nickname \in [Sessions -> Names \cup {NoName}]
    /\ snapshot \in [Sessions -> SUBSET Rows]
    /\ found \in [Sessions -> 0..MaxId]
    /\ answer \in [Sessions -> Answers]
    /\ loggedIn \in [Sessions -> Names \cup {NoName}]

Init ==
    /\ users = {}
    /\ inserted = [s \in Sessions |-> NoRow]
    /\ lastId = 0
    /\ LocalUserIdToUserId = [s \in Sessions |-> Absent]
    /\ pc = [s \in Sessions |-> "Offline"]
    /\ username = [s \in Sessions |-> NoName]
    /\ nickname = [s \in Sessions |-> NoName]
    /\ snapshot = [s \in Sessions |-> {}]
    /\ found = [s \in Sessions |-> 0]
    /\ answer = [s \in Sessions |-> "none"]
    /\ loggedIn = [s \in Sessions |-> NoName]

Go(s, next) == pc' = [pc EXCEPT ![s] = next]

-----------------------------------------------------------------------------
(* JoinController and JoinService                                          *)

\* JoinUser: Transaction_Start.
JoinUser(s, name, nick) ==
    /\ pc[s] = "Idle"
    /\ username' = [username EXCEPT ![s] = name]
    /\ nickname' = [nickname EXCEPT ![s] = nick]
    /\ answer' = [answer EXCEPT ![s] = "none"]
    /\ Go(s, "IsExistUsername")
    /\ UNCHANGED <<database, LocalUserIdToUserId, snapshot, found, loggedIn>>

\* The end of a JOIN: RollBack or Transaction_End, and the reply.
Reply(s, result) ==
    /\ answer' = [answer EXCEPT ![s] = result]
    /\ snapshot' = [snapshot EXCEPT ![s] = {}]
    /\ Go(s, "Idle")

\* A mutant: a name that is free is refused, one that is taken goes on.
IsExistUsernameInverted(s) ==
    /\ pc[s] = "IsExistUsername"
    /\ \/ /\ \A r \in users : r.Username # username[s]
          /\ Reply(s, "SameID")
       \/ /\ \E r \in users : r.Username = username[s]
          /\ snapshot' = [snapshot EXCEPT ![s] = users]
          /\ Go(s, "IsExistUserNickname")
          /\ UNCHANGED answer
    /\ UNCHANGED <<database, LocalUserIdToUserId, username, nickname, found, loggedIn>>

\* The transaction's first SELECT.
IsExistUsername(s) ==
    /\ pc[s] = "IsExistUsername"
    /\ \/ /\ \E r \in users : r.Username = username[s]
          /\ Reply(s, "SameID")
       \/ /\ \A r \in users : r.Username # username[s]
          /\ snapshot' = [snapshot EXCEPT ![s] = users]
          /\ Go(s, "IsExistUserNickname")
          /\ UNCHANGED answer
    /\ UNCHANGED <<database, LocalUserIdToUserId, username, nickname, found, loggedIn>>

\* JoinService passes the username, not the nickname.
IsExistUserNickname(s) ==
    /\ pc[s] = "IsExistUserNickname"
    /\ \/ /\ \E r \in snapshot[s] : r.Nickname = username[s]
          /\ Reply(s, "SameNickname")
       \/ /\ \A r \in snapshot[s] : r.Nickname # username[s]
          /\ Go(s, "InsertUser")
          /\ UNCHANGED <<answer, snapshot>>
    /\ UNCHANGED <<database, LocalUserIdToUserId, username, nickname, found, loggedIn>>

\* A mutant: one letter is kept for the terminator.
CutOneShort(nick, name) == SubSeq(nick, 1, (IF Len(nick) < Len(name) THEN Len(nick) ELSE Len(name)) - 1)

\* InsertUser copies as many letters of the nickname as the username has.
Cut(nick, name) == SubSeq(nick, 1, IF Len(nick) < Len(name) THEN Len(nick) ELSE Len(name))

NewRow(s) == [id |-> lastId + 1, Username |-> username[s],
              Nickname |-> Cut(nickname[s], username[s])]

\* Equal by one of the UNIQUE keys.
Clash(r, q) == r.Username = q.Username \/ r.Nickname = q.Nickname

\* A mutant: the table has no UNIQUE key.
InsertUserTwice(s) ==
    /\ pc[s] = "InsertUser"
    /\ lastId < MaxId
    /\ lastId' = lastId + 1
    /\ inserted' = [inserted EXCEPT ![s] = NewRow(s)]
    /\ Go(s, "Commit")
    /\ UNCHANGED <<users, LocalUserIdToUserId, username, nickname, snapshot,
                   found, answer, loggedIn>>

\* The INSERT takes an id whether it succeeds or not.
InsertUser(s) ==
    /\ pc[s] = "InsertUser"
    /\ lastId < MaxId
    /\ \A t \in Sessions : inserted[t] # NoRow => ~Clash(NewRow(s), inserted[t])
    /\ lastId' = lastId + 1
    /\ \/ /\ \E r \in users : Clash(NewRow(s), r)
          /\ Reply(s, "FAILED")
          /\ UNCHANGED inserted
       \/ /\ \A r \in users : ~Clash(NewRow(s), r)
          /\ inserted' = [inserted EXCEPT ![s] = NewRow(s)]
          /\ Go(s, "Commit")
          /\ UNCHANGED <<answer, snapshot>>
    /\ UNCHANGED <<users, LocalUserIdToUserId, username, nickname, found, loggedIn>>

\* Transaction_End
CommitJoin(s) ==
    /\ pc[s] = "Commit"
    /\ users' = users \cup {inserted[s]}
    /\ inserted' = [inserted EXCEPT ![s] = NoRow]
    /\ Reply(s, "SUCCESS")
    /\ UNCHANGED <<lastId, LocalUserIdToUserId, username, nickname, found, loggedIn>>

\* A mutant: the failed commit is not looked at.
JoinIgnoresFailure(s) ==
    /\ pc[s] = "Commit"
    /\ inserted' = [inserted EXCEPT ![s] = NoRow]
    /\ Reply(s, "SUCCESS")
    /\ UNCHANGED <<users, lastId, LocalUserIdToUserId, username, nickname, found, loggedIn>>

\* Transaction_End that fails and rolls back.
JoinFails(s) ==
    /\ pc[s] = "Commit"
    /\ inserted' = [inserted EXCEPT ![s] = NoRow]
    /\ Reply(s, "FAILED")
    /\ UNCHANGED <<users, lastId, LocalUserIdToUserId, username, nickname, found, loggedIn>>

-----------------------------------------------------------------------------
(* LoginController, LogoutController, ExitClientController                 *)

\* A mutant: the callback of AcceptClient does not register the id.
RegisterNothing(s) ==
    /\ pc[s] = "Offline"
    /\ Go(s, "Idle")
    /\ UNCHANGED <<database, LocalUserIdToUserId, username, nickname, snapshot,
                   found, answer, loggedIn>>

\* AcceptProc, before it starts the RecvProc thread.
RegisterId(s) ==
    /\ pc[s] = "Offline"
    /\ LocalUserIdToUserId' = [LocalUserIdToUserId EXCEPT ![s] = -1]
    /\ Go(s, "Idle")
    /\ UNCHANGED <<database, username, nickname, snapshot, found, answer, loggedIn>>

Login(s, name) ==
    /\ pc[s] = "Idle"
    /\ username' = [username EXCEPT ![s] = name]
    /\ answer' = [answer EXCEPT ![s] = "none"]
    /\ Go(s, "FindUser")
    /\ UNCHANGED <<database, LocalUserIdToUserId, nickname, snapshot, found, loggedIn>>

\* No such name, or another password: FAILED, and the session stays what it was.
FindUserByUsername(s) ==
    /\ pc[s] = "FindUser"
    /\ \/ \E r \in users :
            /\ r.Username = username[s]
            /\ found' = [found EXCEPT ![s] = r.id]
            /\ Go(s, "SetUserID")
       \/ /\ Go(s, "Idle")
          /\ UNCHANGED found
    /\ UNCHANGED <<database, LocalUserIdToUserId, username, nickname, snapshot,
                   answer, loggedIn>>

\* SetUserID leaves an unregistered session out; the reply is SUCCESS.
SetUserID(s) ==
    /\ pc[s] = "SetUserID"
    /\ LocalUserIdToUserId' =
         [LocalUserIdToUserId EXCEPT ![s] = IF @ = Absent THEN @ ELSE found[s]]
    /\ loggedIn' = [loggedIn EXCEPT ![s] = username[s]]
    /\ found' = [found EXCEPT ![s] = 0]
    /\ Go(s, "Idle")
    /\ UNCHANGED <<database, username, nickname, snapshot, answer>>

\* UnRegisterUserID, and the reply.
Logout(s) ==
    /\ pc[s] = "Idle"
    /\ LocalUserIdToUserId' =
         [LocalUserIdToUserId EXCEPT ![s] = IF @ = Absent THEN @ ELSE 0]
    /\ loggedIn' = [loggedIn EXCEPT ![s] = NoName]
    /\ UNCHANGED <<database, pc, username, nickname, snapshot, found, answer>>

\* UnRegisterLocalUserID: the last packet a client sends.
ExitClient(s) ==
    /\ pc[s] = "Idle"
    /\ LocalUserIdToUserId' = [LocalUserIdToUserId EXCEPT ![s] = Absent]
    /\ loggedIn' = [loggedIn EXCEPT ![s] = NoName]
    /\ Go(s, "Closed")
    /\ UNCHANGED <<database, username, nickname, snapshot, found, answer>>

\* A connection lost without it: the entry stays in the map.
CloseSocket(s) ==
    /\ pc[s] = "Idle"
    /\ loggedIn' = [loggedIn EXCEPT ![s] = NoName]
    /\ Go(s, "Closed")
    /\ UNCHANGED <<database, LocalUserIdToUserId, username, nickname, snapshot,
                   found, answer>>

-----------------------------------------------------------------------------

RecvProc(s) ==
    \/ RegisterId(s)
    \/ \E name, nick \in Names : JoinUser(s, name, nick)
    \/ IsExistUsername(s) \/ IsExistUserNickname(s) \/ InsertUser(s)
    \/ CommitJoin(s) \/ JoinFails(s)
    \/ \E name \in Names : Login(s, name)
    \/ FindUserByUsername(s) \/ SetUserID(s)
    \/ Logout(s) \/ ExitClient(s) \/ CloseSocket(s)

Next == \E s \in Sessions : RecvProc(s)

Spec == Init /\ [][Next]_vars

-----------------------------------------------------------------------------
(* Properties.                                                             *)

\* However many JOINs check and then insert at once, an id, a username and a
\* nickname are one account's (JoinService.cpp:17-43, UserRepository.cpp:15-21).
UniqueNames ==
    \A r, q \in users : r # q => r.id # q.id /\ ~Clash(r, q)

\* A client told SUCCESS has its account, and a name is told SUCCESS once: two
\* sessions that join by one name at a time do not both believe it theirs
\* (JoinService.cpp:35-52).
JoinedIsStored ==
    \A s, t \in Sessions :
        answer[s] = "SUCCESS" =>
            /\ \E r \in users : r.Username = username[s]
            /\ s # t /\ answer[t] = "SUCCESS" => username[s] # username[t]

\* A client told that its id exists was told so by a row that is there
\* (JoinService.cpp:17-19).
SameIDIsTaken ==
    \A s \in Sessions :
        answer[s] = "SameID" => \E r \in users : r.Username = username[s]

\* A client that is logged in acts as its account, in every room and message,
\* until it logs out: RegisterId comes before the thread that may call
\* SetUserID (ServerApp.cpp:88-101, LoginService.cpp:16-22).
LoggedInIsMapped ==
    \A s \in Sessions :
        loggedIn[s] # NoName =>
            \E r \in users : /\ r.Username = loggedIn[s]
                             /\ r.id = LocalUserIdToUserId[s]

\* JoinService.cpp:28 tells a client that the same nickname exists: then the
\* nickname it asked for, as it would be stored, is one that another account has.
SameNicknameIsTaken ==
    \A s \in Sessions :
        answer[s] = "SameNickname" =>
            \E r \in users : r.Nickname \in {nickname[s], Cut(nickname[s], username[s])}

=============================================================================
