---------------------------- MODULE AccountsProofs ----------------------------
(***************************************************************************)
(* The safety of Accounts for any number of sessions, names and ids.       *)
(* AccountInv is inductive.  To what the properties say of users it adds   *)
(* the rows of the open transactions: a commit adds one of them, so they   *)
(* already differ from the rows that are there and from each other.        *)
(***************************************************************************)
EXTENDS Accounts, TLAPS, SequenceTheorems

\* The two rows may both be in the table.
Differ(r, q) == r.id # q.id /\ ~Clash(r, q)

\* Which names a session has at a place, and what it has there.
SessionInv(s) ==
    /\ pc[s] \in {"IsExistUsername", "IsExistUserNickname", "InsertUser"}
         => username[s] \in Names /\ nickname[s] \in Names
    /\ inserted[s] # NoRow <=> pc[s] = "Commit"
    /\ pc[s] = "Commit" => inserted[s].Username = username[s]
    /\ pc[s] = "SetUserID"
         => \E r \in users : r.Username = username[s] /\ r.id = found[s]
    /\ pc[s] \in {"Offline", "Closed"} => loggedIn[s] = NoName
    /\ pc[s] \notin {"Offline", "Closed"} => LocalUserIdToUserId[s] # Absent

\* What a session was told has its row.
ToldInv(s) ==
    /\ answer[s] \in {"SUCCESS", "SameID"} => \E r \in users : r.Username = username[s]
    /\ loggedIn[s] # NoName =>
         \E r \in users : r.Username = loggedIn[s] /\ r.id = LocalUserIdToUserId[s]

\* A name is told SUCCESS once.
ToldOnce ==
    \A s, t \in Sessions :
        s # t /\ answer[s] = "SUCCESS" /\ answer[t] = "SUCCESS" => username[s] # username[t]

\* The rows of the open transactions differ from those of the table and from
\* each other.
InsertedDiffer ==
    \A s \in Sessions : inserted[s] # NoRow =>
        /\ \A r \in users : Differ(r, inserted[s])
        /\ \A t \in Sessions \ {s} : inserted[t] # NoRow => Differ(inserted[t], inserted[s])

IdsGiven ==
    /\ \A r \in users : r.id <= lastId
    /\ \A s \in Sessions : inserted[s].id <= lastId

AccountInv ==
    /\ TypeOK
    /\ UniqueNames
    /\ InsertedDiffer
    /\ IdsGiven
    /\ ToldOnce
    /\ \A s \in Sessions : SessionInv(s) /\ ToldInv(s)

-----------------------------------------------------------------------------
(* Names.                                                                  *)

\* A name is a sequence of one letter at least.
LEMMA NameIsSeq ==
  ASSUME NEW n \in Names
  PROVE  n \in Seq(Letters) /\ Len(n) \in 1..MaxLength
  <1>1. PICK k \in 1..MaxLength : n \in [1..k -> Letters]
    BY DEF Names
  <1> QED
    BY <1>1, AccountAssumption

\* What is cut off a name to fit another one leaves a name.
LEMMA CutIsName ==
  ASSUME NEW nick \in Names, NEW name \in Names
  PROVE  Cut(nick, name) \in Names
  <1> DEFINE k == IF Len(nick) < Len(name) THEN Len(nick) ELSE Len(name)
  <1>1. nick \in Seq(Letters) /\ k \in 1..Len(nick) /\ k \in 1..MaxLength
    BY NameIsSeq, AccountAssumption
  <1> HIDE DEF k
  <1>2. SubSeq(nick, 1, k) \in Seq(Letters) /\ Len(SubSeq(nick, 1, k)) = k
    BY <1>1, SubSeqProperties
  <1>3. SubSeq(nick, 1, k) \in [1..k -> Letters]
    BY <1>2, LenProperties
  <1> QED
    BY <1>1, <1>3 DEF Cut, Names, k

\* The row a session inserts is one the table may hold.
LEMMA NewRowIsRow ==
  ASSUME TypeOK, NEW s \in Sessions, lastId < MaxId,
         username[s] \in Names, nickname[s] \in Names
  PROVE  NewRow(s) \in Rows
  <1>1. lastId + 1 \in 1..MaxId
    BY AccountAssumption DEF TypeOK
  <1> QED
    BY <1>1, CutIsName DEF NewRow, Rows

LEMMA NoRowIsNoRow == NoRow \notin Rows
  BY AccountAssumption DEF NoRow, Rows

-----------------------------------------------------------------------------
(* The steps.                                                              *)

\* Nothing of session t changes.
SameSession(t) ==
    /\ pc'[t] = pc[t] /\ username'[t] = username[t] /\ nickname'[t] = nickname[t]
    /\ inserted'[t] = inserted[t] /\ found'[t] = found[t] /\ answer'[t] = answer[t]
    /\ loggedIn'[t] = loggedIn[t] /\ LocalUserIdToUserId'[t] = LocalUserIdToUserId[t]

\* A step of one session keeps what is true of another: rows stay.
LEMMA OthersKeep ==
  ASSUME NEW t, SessionInv(t), ToldInv(t), SameSession(t), users \subseteq users'
  PROVE  SessionInv(t)' /\ ToldInv(t)'
  <1>1. SessionInv(t)'
    BY DEF SessionInv, SameSession
  <1>2. ToldInv(t)'
    BY DEF ToldInv, SameSession
  <1> QED
    BY <1>1, <1>2

\* A step of session s that leaves the database alone.
LEMMA StepOutside ==
  ASSUME AccountInv, NEW s \in Sessions, UNCHANGED database,
         \A t \in Sessions \ {s} : SameSession(t),
         TypeOK', SessionInv(s)', ToldInv(s)',
         answer'[s] = "SUCCESS" => answer[s] = "SUCCESS" /\ username'[s] = username[s]
  PROVE  AccountInv'
  <1>1. UniqueNames' /\ InsertedDiffer' /\ IdsGiven'
    BY DEF AccountInv, UniqueNames, InsertedDiffer, IdsGiven, database
  <1>2. ToldOnce'
    BY DEF AccountInv, ToldOnce, SameSession
  <1>3. \A t \in Sessions : SessionInv(t)' /\ ToldInv(t)'
    BY OthersKeep DEF AccountInv, database
  <1> QED
    BY <1>1, <1>2, <1>3 DEF AccountInv

LEMMA InitAccountInv == Init => AccountInv
  BY AccountAssumption
  DEF Init, AccountInv, TypeOK, UniqueNames, InsertedDiffer, IdsGiven, ToldOnce,
      SessionInv, ToldInv, NoRow, NoName, Absent, Answers

LEMMA RegisterIdKeeps ==
  ASSUME AccountInv, NEW s \in Sessions, RegisterId(s)
  PROVE  AccountInv'
  <1> USE DEF RegisterId, Go, Reply
  <1>1. UNCHANGED database /\ \A t \in Sessions \ {s} : SameSession(t)
    BY DEF AccountInv, TypeOK, SameSession, database
  <1>2. TypeOK'
    BY AccountAssumption DEF AccountInv, TypeOK, Answers, Absent, Rows, database
  <1>3. SessionInv(s)'
    BY <1>1 DEF AccountInv, TypeOK, SessionInv, Absent, database
  <1>4. ToldInv(s)'
    BY <1>1 DEF AccountInv, TypeOK, SessionInv, ToldInv, Absent, database
  <1>5. answer'[s] = "SUCCESS" => answer[s] = "SUCCESS" /\ username'[s] = username[s]
    BY DEF AccountInv, TypeOK
  <1> QED
    BY <1>1, <1>2, <1>3, <1>4, <1>5, StepOutside

LEMMA JoinUserKeeps ==
  ASSUME AccountInv, NEW s \in Sessions, NEW name \in Names, NEW nick \in Names, JoinUser(s, name, nick)
  PROVE  AccountInv'
  <1> USE DEF JoinUser, Go, Reply
  <1>1. UNCHANGED database /\ \A t \in Sessions \ {s} : SameSession(t)
    BY DEF AccountInv, TypeOK, SameSession, database
  <1>2. TypeOK'
    BY AccountAssumption DEF AccountInv, TypeOK, Answers, Absent, Rows, database
  <1>3. SessionInv(s)'
    BY <1>1 DEF AccountInv, TypeOK, SessionInv, Absent, database
  <1>4. ToldInv(s)'
    BY <1>1 DEF AccountInv, TypeOK, SessionInv, ToldInv, Absent, database
  <1>5. answer'[s] = "SUCCESS" => answer[s] = "SUCCESS" /\ username'[s] = username[s]
    BY DEF AccountInv, TypeOK
  <1> QED
    BY <1>1, <1>2, <1>3, <1>4, <1>5, StepOutside

LEMMA IsExistUsernameKeeps ==
  ASSUME AccountInv, NEW s \in Sessions, IsExistUsername(s)
  PROVE  AccountInv'
  <1> USE DEF IsExistUsername, Go, Reply
  <1>1. UNCHANGED database /\ \A t \in Sessions \ {s} : SameSession(t)
    BY DEF AccountInv, TypeOK, SameSession, database
  <1>2. TypeOK'
    BY AccountAssumption DEF AccountInv, TypeOK, Answers, Absent, Rows, database
  <1>3. SessionInv(s)'
    BY <1>1 DEF AccountInv, TypeOK, SessionInv, Absent, database
  <1>4. ToldInv(s)'
    BY <1>1 DEF AccountInv, TypeOK, SessionInv, ToldInv, Absent, database
  <1>5. answer'[s] = "SUCCESS" => answer[s] = "SUCCESS" /\ username'[s] = username[s]
    BY DEF AccountInv, TypeOK
  <1> QED
    BY <1>1, <1>2, <1>3, <1>4, <1>5, StepOutside

LEMMA IsExistUserNicknameKeeps ==
  ASSUME AccountInv, NEW s \in Sessions, IsExistUserNickname(s)
  PROVE  AccountInv'
  <1> USE DEF IsExistUserNickname, Go, Reply
  <1>1. UNCHANGED database /\ \A t \in Sessions \ {s} : SameSession(t)
    BY DEF AccountInv, TypeOK, SameSession, database
  <1>2. TypeOK'
    BY AccountAssumption DEF AccountInv, TypeOK, Answers, Absent, Rows, database
  <1>3. SessionInv(s)'
    BY <1>1 DEF AccountInv, TypeOK, SessionInv, Absent, database
  <1>4. ToldInv(s)'
    BY <1>1 DEF AccountInv, TypeOK, SessionInv, ToldInv, Absent, database
  <1>5. answer'[s] = "SUCCESS" => answer[s] = "SUCCESS" /\ username'[s] = username[s]
    BY DEF AccountInv, TypeOK
  <1> QED
    BY <1>1, <1>2, <1>3, <1>4, <1>5, StepOutside

LEMMA LoginKeeps ==
  ASSUME AccountInv, NEW s \in Sessions, NEW name \in Names, Login(s, name)
  PROVE  AccountInv'
  <1> USE DEF Login, Go, Reply
  <1>1. UNCHANGED database /\ \A t \in Sessions \ {s} : SameSession(t)
    BY DEF AccountInv, TypeOK, SameSession, database
  <1>2. TypeOK'
    BY AccountAssumption DEF AccountInv, TypeOK, Answers, Absent, Rows, database
  <1>3. SessionInv(s)'
    BY <1>1 DEF AccountInv, TypeOK, SessionInv, Absent, database
  <1>4. ToldInv(s)'
    BY <1>1 DEF AccountInv, TypeOK, SessionInv, ToldInv, Absent, database
  <1>5. answer'[s] = "SUCCESS" => answer[s] = "SUCCESS" /\ username'[s] = username[s]
    BY DEF AccountInv, TypeOK
  <1> QED
    BY <1>1, <1>2, <1>3, <1>4, <1>5, StepOutside

LEMMA FindUserByUsernameKeeps ==
  ASSUME AccountInv, NEW s \in Sessions, FindUserByUsername(s)
  PROVE  AccountInv'
  <1> USE DEF FindUserByUsername, Go, Reply
  <1>1. UNCHANGED database /\ \A t \in Sessions \ {s} : SameSession(t)
    BY DEF AccountInv, TypeOK, SameSession, database
  <1>2. TypeOK'
    BY AccountAssumption DEF AccountInv, TypeOK, Answers, Absent, Rows, database
  <1>3. SessionInv(s)'
    BY <1>1 DEF AccountInv, TypeOK, SessionInv, Absent, database
  <1>4. ToldInv(s)'
    BY <1>1 DEF AccountInv, TypeOK, SessionInv, ToldInv, Absent, database
  <1>5. answer'[s] = "SUCCESS" => answer[s] = "SUCCESS" /\ username'[s] = username[s]
    BY DEF AccountInv, TypeOK
  <1> QED
    BY <1>1, <1>2, <1>3, <1>4, <1>5, StepOutside

LEMMA SetUserIDKeeps ==
  ASSUME AccountInv, NEW s \in Sessions, SetUserID(s)
  PROVE  AccountInv'
  <1> USE DEF SetUserID, Go, Reply
  <1>1. UNCHANGED database /\ \A t \in Sessions \ {s} : SameSession(t)
    BY DEF AccountInv, TypeOK, SameSession, database
  <1>2. TypeOK'
    BY AccountAssumption DEF AccountInv, TypeOK, Answers, Absent, Rows, database
  <1>3. SessionInv(s)'
    BY <1>1 DEF AccountInv, TypeOK, SessionInv, Absent, database
  <1>4. ToldInv(s)'
    BY <1>1 DEF AccountInv, TypeOK, SessionInv, ToldInv, Absent, database
  <1>5. answer'[s] = "SUCCESS" => answer[s] = "SUCCESS" /\ username'[s] = username[s]
    BY DEF AccountInv, TypeOK
  <1> QED
    BY <1>1, <1>2, <1>3, <1>4, <1>5, StepOutside

LEMMA LogoutKeeps ==
  ASSUME AccountInv, NEW s \in Sessions, Logout(s)
  PROVE  AccountInv'
  <1> USE DEF Logout, Go, Reply
  <1>1. UNCHANGED database /\ \A t \in Sessions \ {s} : SameSession(t)
    BY DEF AccountInv, TypeOK, SameSession, database
  <1>2. TypeOK'
    BY AccountAssumption DEF AccountInv, TypeOK, Answers, Absent, Rows, database
  <1>3. SessionInv(s)'
    BY <1>1 DEF AccountInv, TypeOK, SessionInv, Absent, database
  <1>4. ToldInv(s)'
    BY <1>1 DEF AccountInv, TypeOK, SessionInv, ToldInv, Absent, database
  <1>5. answer'[s] = "SUCCESS" => answer[s] = "SUCCESS" /\ username'[s] = username[s]
    BY DEF AccountInv, TypeOK
  <1> QED
    BY <1>1, <1>2, <1>3, <1>4, <1>5, StepOutside

LEMMA ExitClientKeeps ==
  ASSUME AccountInv, NEW s \in Sessions, ExitClient(s)
  PROVE  AccountInv'
  <1> USE DEF ExitClient, Go, Reply
  <1>1. UNCHANGED database /\ \A t \in Sessions \ {s} : SameSession(t)
    BY DEF AccountInv, TypeOK, SameSession, database
  <1>2. TypeOK'
    BY AccountAssumption DEF AccountInv, TypeOK, Answers, Absent, Rows, database
  <1>3. SessionInv(s)'
    BY <1>1 DEF AccountInv, TypeOK, SessionInv, Absent, database
  <1>4. ToldInv(s)'
    BY <1>1 DEF AccountInv, TypeOK, SessionInv, ToldInv, Absent, database
  <1>5. answer'[s] = "SUCCESS" => answer[s] = "SUCCESS" /\ username'[s] = username[s]
    BY DEF AccountInv, TypeOK
  <1> QED
    BY <1>1, <1>2, <1>3, <1>4, <1>5, StepOutside

LEMMA CloseSocketKeeps ==
  ASSUME AccountInv, NEW s \in Sessions, CloseSocket(s)
  PROVE  AccountInv'
  <1> USE DEF CloseSocket, Go, Reply
  <1>1. UNCHANGED database /\ \A t \in Sessions \ {s} : SameSession(t)
    BY DEF AccountInv, TypeOK, SameSession, database
  <1>2. TypeOK'
    BY AccountAssumption DEF AccountInv, TypeOK, Answers, Absent, Rows, database
  <1>3. SessionInv(s)'
    BY <1>1 DEF AccountInv, TypeOK, SessionInv, Absent, database
  <1>4. ToldInv(s)'
    BY <1>1 DEF AccountInv, TypeOK, SessionInv, ToldInv, Absent, database
  <1>5. answer'[s] = "SUCCESS" => answer[s] = "SUCCESS" /\ username'[s] = username[s]
    BY DEF AccountInv, TypeOK
  <1> QED
    BY <1>1, <1>2, <1>3, <1>4, <1>5, StepOutside

\* The INSERT: its row differs from those of the table and of every session.
LEMMA InsertUserKeeps ==
  ASSUME AccountInv, NEW s \in Sessions, InsertUser(s)
  PROVE  AccountInv'
  <1> USE DEF InsertUser, Go, Reply
  <1> DEFINE row == NewRow(s)
  <1>1. /\ row \in Rows /\ row # NoRow
        /\ row.id = lastId + 1 /\ row.Username = username[s]
    <2>1. username[s] \in Names /\ nickname[s] \in Names
      BY DEF AccountInv, SessionInv
    <2>2. row \in Rows
      BY <2>1, NewRowIsRow DEF AccountInv
    <2> QED
      BY <2>2, NoRowIsNoRow DEF NewRow
  <1>2. /\ lastId \in Nat /\ lastId' = lastId + 1 /\ lastId' \in 0..MaxId
        /\ users' = users /\ inserted[s] = NoRow
        /\ \A t \in Sessions \ {s} : SameSession(t)
    BY AccountAssumption DEF AccountInv, TypeOK, SessionInv, SameSession
  <1>3. \/ inserted' = inserted /\ pc'[s] = "Idle" /\ answer'[s] = "FAILED"
        \/ /\ inserted' = [inserted EXCEPT ![s] = row] /\ pc'[s] = "Commit"
           /\ answer' = answer
           /\ \A r \in users : ~Clash(row, r)
    BY DEF AccountInv, TypeOK
  <1>4. \A t \in Sessions : inserted[t] # NoRow => ~Clash(row, inserted[t])
    OBVIOUS
  <1>5. TypeOK'
    <2>1. inserted' \in [Sessions -> Rows \cup {NoRow}]
      BY <1>1, <1>3 DEF AccountInv, TypeOK
    <2> HIDE DEF row
    <2> QED
      BY <1>2, <2>1 DEF AccountInv, TypeOK, Answers
  <1> HIDE DEF row
  <1>6. UniqueNames'
    BY <1>2 DEF AccountInv, UniqueNames
  <1>7. IdsGiven'
    BY <1>1, <1>2, <1>3 DEF AccountInv, IdsGiven, TypeOK, Rows, NoRow
  <1>8. InsertedDiffer'
    BY <1>1, <1>2, <1>3, <1>4
    DEF AccountInv, InsertedDiffer, Differ, Clash, IdsGiven, TypeOK, Rows, NoRow
  <1>9. ToldOnce'
    BY <1>2, <1>3 DEF AccountInv, ToldOnce, SameSession
  <1>10. SessionInv(s)' /\ ToldInv(s)'
    BY <1>1, <1>2, <1>3 DEF AccountInv, TypeOK, SessionInv, ToldInv
  <1> QED
    BY <1>2, <1>5, <1>6, <1>7, <1>8, <1>9, <1>10, OthersKeep DEF AccountInv

\* The commit: the row that differed from those of the table is one of them.
LEMMA CommitJoinKeeps ==
  ASSUME AccountInv, NEW s \in Sessions, CommitJoin(s)
  PROVE  AccountInv'
  <1> USE DEF CommitJoin, Go, Reply
  <1>1. /\ inserted[s] # NoRow /\ inserted[s] \in Rows
        /\ inserted[s].Username = username[s]
        /\ \A r \in users : Differ(r, inserted[s])
    BY DEF AccountInv, TypeOK, SessionInv, InsertedDiffer
  <1>2. /\ users' = users \cup {inserted[s]} /\ inserted'[s] = NoRow
        /\ \A t \in Sessions \ {s} : SameSession(t)
    BY DEF AccountInv, TypeOK, SameSession
  <1>3. TypeOK'
    BY <1>1 DEF AccountInv, TypeOK, Answers
  <1>4. UniqueNames'
    BY <1>1, <1>2 DEF AccountInv, UniqueNames, Differ, Clash
  <1>5. InsertedDiffer'
    BY <1>1, <1>2 DEF AccountInv, InsertedDiffer, Differ, Clash, SameSession
  <1>6. IdsGiven'
    BY <1>1, <1>2, AccountAssumption DEF AccountInv, IdsGiven, TypeOK, NoRow
  <1>7. ToldOnce'
    <2>1. ASSUME NEW t \in Sessions \ {s}, answer[t] = "SUCCESS"
          PROVE  username[t] # username[s]
      BY <1>1, <2>1 DEF AccountInv, ToldInv, Differ, Clash
    <2> QED
      BY <1>2, <2>1 DEF AccountInv, ToldOnce, SameSession
  <1>8. SessionInv(s)' /\ ToldInv(s)'
    BY <1>1, <1>2 DEF AccountInv, TypeOK, SessionInv, ToldInv
  <1> QED
    BY <1>2, <1>3, <1>4, <1>5, <1>6, <1>7, <1>8, OthersKeep DEF AccountInv

\* The commit that fails: its row is gone, and every other stays.
LEMMA JoinFailsKeeps ==
  ASSUME AccountInv, NEW s \in Sessions, JoinFails(s)
  PROVE  AccountInv'
  <1> USE DEF JoinFails, Go, Reply
  <1>1. /\ users' = users /\ lastId' = lastId /\ inserted'[s] = NoRow
        /\ \A t \in Sessions \ {s} : SameSession(t)
    BY DEF AccountInv, TypeOK, SameSession
  <1>2. TypeOK'
    BY DEF AccountInv, TypeOK, Answers
  <1>3. UniqueNames'
    BY <1>1 DEF AccountInv, UniqueNames
  <1>4. InsertedDiffer'
    BY <1>1 DEF AccountInv, InsertedDiffer, SameSession
  <1>5. IdsGiven'
    BY <1>1, AccountAssumption DEF AccountInv, IdsGiven, TypeOK, NoRow
  <1>6. ToldOnce'
    BY <1>1 DEF AccountInv, TypeOK, ToldOnce, SameSession
  <1>7. SessionInv(s)' /\ ToldInv(s)'
    BY <1>1 DEF AccountInv, TypeOK, SessionInv, ToldInv
  <1> QED
    BY <1>1, <1>2, <1>3, <1>4, <1>5, <1>6, <1>7, OthersKeep DEF AccountInv

LEMMA NextAccountInv == AccountInv /\ [Next]_vars => AccountInv'
  <1> SUFFICES ASSUME AccountInv, [Next]_vars PROVE AccountInv'
    OBVIOUS
  <1>1. CASE UNCHANGED vars
    BY <1>1
    DEF vars, database, AccountInv, TypeOK, UniqueNames, InsertedDiffer, IdsGiven,
        ToldOnce, SessionInv, ToldInv
  <1>2. ASSUME NEW s \in Sessions, RecvProc(s) PROVE AccountInv'
    BY <1>2, RegisterIdKeeps, JoinUserKeeps, IsExistUsernameKeeps,
       IsExistUserNicknameKeeps, InsertUserKeeps, CommitJoinKeeps, JoinFailsKeeps,
       LoginKeeps, FindUserByUsernameKeeps, SetUserIDKeeps, LogoutKeeps,
       ExitClientKeeps, CloseSocketKeeps
    DEF RecvProc
  <1> QED
    BY <1>1, <1>2 DEF Next

-----------------------------------------------------------------------------
(* The theorems.                                                           *)

\* Whatever JOINs and LOGINs cross, the rows of the table and of the open
\* transactions differ, and every session was told what is there
\* (JoinService.cpp:15-52, LoginService.cpp:11-32).
THEOREM AccountsSafe == Spec => []AccountInv
  BY InitAccountInv, NextAccountInv, PTL DEF Spec

\* Every variable has its type: a nickname cut by InsertUser is a name still, as
\* it has a letter of the username's length (UserRepository.cpp:15-21).
THEOREM AccountsTypeCorrect == Spec => []TypeOK
  <1>1. AccountInv => TypeOK
    BY DEF AccountInv
  <1> QED
    BY <1>1, AccountsSafe, PTL

\* An id, a username and a nickname are one account's, for any number of JOINs
\* between their checks and their inserts (JoinService.cpp:17-43).
THEOREM NamesAreUnique == Spec => []UniqueNames
  <1>1. AccountInv => UniqueNames
    BY DEF AccountInv
  <1> QED
    BY <1>1, AccountsSafe, PTL

\* SUCCESS is told of a row that is there, and of one name once
\* (JoinService.cpp:35-52).
THEOREM SuccessIsStored == Spec => []JoinedIsStored
  <1>1. AccountInv => JoinedIsStored
    BY DEF AccountInv, JoinedIsStored, ToldInv, ToldOnce
  <1> QED
    BY <1>1, AccountsSafe, PTL

\* SameID is told of a row that is there (JoinService.cpp:17-19).
THEOREM RefusedNameIsTaken == Spec => []SameIDIsTaken
  <1>1. AccountInv => SameIDIsTaken
    BY DEF AccountInv, SameIDIsTaken, ToldInv
  <1> QED
    BY <1>1, AccountsSafe, PTL

\* A client that is logged in is mapped to its account: no step of another
\* session, and no order of its own, leaves it without the entry
\* (ServerApp.cpp:88-101, LoginService.cpp:16-22).
THEOREM LoginIsMapped == Spec => []LoggedInIsMapped
  <1>1. AccountInv => LoggedInIsMapped
    BY DEF AccountInv, LoggedInIsMapped, ToldInv
  <1> QED
    BY <1>1, AccountsSafe, PTL

=============================================================================
