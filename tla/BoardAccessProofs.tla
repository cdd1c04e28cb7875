------------------------- MODULE BoardAccessProofs --------------------------
(***************************************************************************)
(* Proofs about BoardAccess.  Calls read the row in one step and write it  *)
(* in another.  The inductive invariant says what lies between: who holds  *)
(* which mutex, and how far what somebody has read is still true - as to   *)
(* the owner always, as to settings unless they were saved over a copy, as *)
(* to the revision unless an operation ran while settings were changed.    *)
(***************************************************************************)
EXTENDS BoardAccess, TLAPS

Alone == {"settings", "member", "delete"}
Shared == {"join", "look"}
Read == Alone \cup Shared \cup {"install"}

Calls ==
    {Idle}
      \cup [op : {"settings"}, args : ChangeRequests, board : Boards]
      \cup [op : {"member"}, board : Boards,
            args : [user : Users, role : Roles \cup {"none"}]]
      \cup [op : {"delete"}, args : {Nothing}, board : Boards]
      \cup [op : {"join"}, args : Passwords \cup {Nothing}, board : Boards]
      \cup [op : {"look"}, password : Passwords \cup {Nothing}, board : Boards,
            member : Roles \cup {"none"}]
      \cup [op : {"install"}, board : Boards]
      \cup [op : {"close"}]

\* What TypeOK says, and what calls and histories look like.
Types ==
    /\ row \in Boards \cup {Nothing} /\ runtime \in Boards \cup {Nothing}
    /\ members \in [Users -> Roles \cup {"none"}]
    /\ role \in [Callers -> Roles \cup {"none"}]
    /\ call \in [Callers -> Calls]
    /\ agreed \in Settings \cup {Nothing}
    /\ stale \in BOOLEAN /\ raced \in BOOLEAN
    /\ deletion \in {"none", "lost", "done"}

\* A call that reads to write has the mutex alone, one that joins shares it.
ServiceLock ==
    /\ writer \in Callers \cup {Nothing} /\ readers \subseteq Callers
    /\ writer # Nothing => readers = {}
    /\ \A c \in Callers : call[c].op \in Alone <=> writer = c
    /\ \A c \in Callers : call[c].op \in Shared <=> c \in readers

\* The mutex of the board.
BoardLock ==
    /\ Joining = {} \/ Deleting = {}
    /\ \A c, d \in Deleting : c = d

\* Nothing was there before the board was created, and it is created once.
BeforeCreation ==
    agreed = Nothing =>
        /\ row = Nothing /\ runtime = Nothing /\ members = Nobody /\ operations = {}
        /\ deletion = "none"
        /\ \A c \in Callers : role[c] = "none" /\ call[c] = Idle

\* A runtime outlives the row only until the board is closed, unless nobody
\* knows of the deletion; then no session's role is that of a membership.
RowIsGone ==
    row = Nothing =>
        IF deletion = "lost" THEN \A c \in Callers : role[c] # "none" => c \in touched
        ELSE runtime = Nothing \/ Deleting # {}

\* Who has read the row finds it there, with the same owner.
ReadsAreCurrent ==
    /\ \A c \in Callers :
          call[c].op \in Read => row # Nothing /\ call[c].board.owner = row.owner
    /\ \A c \in Callers : call[c].op = "close" => row = Nothing
    /\ \A c \in Callers : call[c].op = "look" => call[c].member = Member(who[c])
    /\ runtime # Nothing /\ row # Nothing => runtime.owner = row.owner

\* Unless settings were saved over a copy, all copies have those agreed.
CopiesHaveSettings ==
    ~stale =>
        /\ row # Nothing => row.settings = agreed
        /\ runtime # Nothing => runtime.settings = agreed
        /\ \A c \in Joining : call[c].board.settings = agreed

\* The log has no gaps, and no copy is ahead of it.  After a deletion that
\* nobody knew of it begins anew, after some revision j, and no copy is behind.
LogIsWhole ==
    row # Nothing => \E j, k \in 0..MaxOps :
        /\ operations = (j + 1)..k
        /\ j <= row.revision /\ row.revision <= k
        /\ runtime # Nothing => j <= runtime.revision /\ runtime.revision <= k
        /\ \A c \in Callers : call[c].op \in Read =>
               j <= call[c].board.revision /\ call[c].board.revision <= k

\* Unless an operation ran while settings were changed, row and copies are at
\* the end of the log.
CopiesHaveRevision ==
    row # Nothing /\ ~raced =>
        /\ \A n \in operations : n <= row.revision
        /\ runtime # Nothing => runtime.revision = row.revision
        /\ \A c \in Callers :
              call[c].op = "settings" \/ (call[c].op \in Read /\ runtime = Nothing)
                => call[c].board.revision = row.revision

IInv ==
    /\ Types /\ ServiceLock /\ BoardLock /\ BeforeCreation /\ RowIsGone
    /\ ReadsAreCurrent /\ DeletedLeavesNothing /\ CachedRoleIsCurrent
    /\ CopiesHaveSettings /\ LogIsWhole /\ CopiesHaveRevision

\* The calls that begin, with the row as it is, and those that come to nothing.
Begin(c) ==
    \/ \E r \in Changes : UpdateSettings(c, r)
    \/ \E u \in Users, r \in Roles \cup {"none"} : UpdateMember(c, u, r)
    \/ \E p \in Passwords \cup {Nothing} : StartJoin(c, p)
    \/ StartDelete(c)

Refuse(c) == SettingsRefused(c) \/ MemberRefused(c) \/ JoinRefused(c) \/ DeleteRefused(c)

-----------------------------------------------------------------------------
(* What single operators and actions do *)

\* A change that is not refused leaves settings that fit together.
LEMMA ChangedIsSettings ==
    ASSUME NEW s \in Settings, NEW r \in ChangeRequests, Changed(s, r) # Nothing
    PROVE  Changed(s, r) \in Settings
  <1> USE DEF Changed, Settings, ChangeRequests
  <1>1. CASE s.access_mode = "private_board"
    BY <1>1 DEF AccessModes, GuestPolicies
  <1>2. CASE s.access_mode = "password_protected"
    BY <1>2 DEF AccessModes, GuestPolicies
  <1> QED
    BY <1>1, <1>2

\* The rows that calls and operations write, and where they have them from.
LEMMA CreateEffect ==
    ASSUME NEW c \in Callers, NEW r \in CreateRequests, CreateBoard(c, r)
    PROVE  /\ r \in Settings /\ r # Nothing
           /\ row' \in Boards /\ row' # Nothing
           /\ row'.owner = who[c] /\ row'.settings = r /\ row'.revision = 0
  <1>1. r \in Settings
    BY DEF CreateBoard, CreateRequests, Valid, Settings, AccessModes, GuestPolicies
  <1>2. row' = [owner |-> who[c], settings |-> r, revision |-> 0] /\ who[c] \in Users
    BY DEF CreateBoard
  <1> QED
    BY <1>1, <1>2, NothingAssumption, BoundAssumption DEF Boards

LEMMA SaveEffect ==
    ASSUME Types, NEW c \in Callers, SaveSettings(c)
    PROVE  /\ agreed' \in Settings /\ agreed' # Nothing
           /\ row' \in Boards /\ row' # Nothing
           /\ row'.owner = call[c].board.owner /\ row'.settings = agreed'
           /\ row'.revision = call[c].board.revision
  <1>1. call[c] \in [op : {"settings"}, args : ChangeRequests, board : Boards]
    BY DEF SaveSettings, Types, Calls, Idle
  <1>2. call[c].board \in Boards /\ call[c].board.settings \in Settings
        /\ call[c].args \in ChangeRequests
    BY <1>1 DEF Boards
  <1> DEFINE new == Changed(call[c].board.settings, call[c].args)
  <1>3. new \in Settings /\ agreed' = new
    BY <1>2, ChangedIsSettings DEF SaveSettings
  <1>4. row' = [call[c].board EXCEPT !.settings = new]
    BY DEF SaveSettings, Saved
  <1> HIDE DEF new
  <1> QED
    BY <1>2, <1>3, <1>4, NothingAssumption DEF Boards

LEMMA OperateEffect ==
    ASSUME Types, RowIsGone, NEW c \in Callers, Operate(c)
    PROVE  /\ row # Nothing \/ deletion = "lost"
           /\ runtime \in Boards /\ runtime # Nothing
           /\ row' = runtime' /\ row' \in Boards /\ row' # Nothing
           /\ row'.owner = runtime.owner /\ row'.settings = runtime.settings
           /\ row'.revision = runtime.revision + 1
           /\ operations' = operations \cup {row'.revision}
  <1>1. runtime \in Boards /\ runtime # Nothing
    BY DEF Operate, Types
  <1>2. row # Nothing \/ deletion = "lost"
    BY DEF Operate, RowIsGone
  <1>3. runtime.revision + 1 \in 0..MaxOps
    BY <1>1, BoundAssumption DEF Operate, Boards
  <1>4. row' = [runtime EXCEPT !.revision = @ + 1] /\ runtime' = row'
    BY DEF Operate, Persisted
  <1>5. operations' = operations \cup {runtime.revision + 1}
    BY DEF Operate
  <1> QED
    BY <1>1, <1>2, <1>3, <1>4, <1>5, NothingAssumption DEF Boards

\* A join is given a role or none.
LEMMA GrantedRole ==
    ASSUME Types, NEW c \in Callers, call[c].op = "look"
    PROVE  Granted(c) \in Roles \cup {"none"}
  BY DEF Types, Calls, Idle, Granted, RoleForJoin, ExistingRole, GuestRole, Roles, Boards,
         Settings, GuestPolicies

-----------------------------------------------------------------------------
(* The steps *)

LEMMA NextTypes == IInv /\ Step /\ UNCHANGED who => Types'
  <1> SUFFICES ASSUME IInv, Step, UNCHANGED who PROVE Types'
    OBVIOUS
  <1>0. Types /\ RowIsGone /\ LogIsWhole
    BY DEF IInv
  <1> USE <1>0, NothingAssumption, BoundAssumption, ChangesAssumption DEF Types,
          Calls, Idle, database, memory, lock, history, Starts, Returns, Unlock
  <1>1. ASSUME NEW c \in Callers, NEW r \in CreateRequests, CreateBoard(c, r)
        PROVE  Types'
    BY <1>1, CreateEffect DEF CreateBoard, Roles
  <1>2. ASSUME NEW c \in Callers, Begin(c) PROVE Types'
    BY <1>2 DEF Begin, UpdateSettings, UpdateMember, StartJoin, StartDelete,
       LockAlone, LockShared
  <1>3. ASSUME NEW c \in Callers, Refuse(c) PROVE Types'
    BY <1>3 DEF Refuse, SettingsRefused, MemberRefused, JoinRefused, DeleteRefused,
       Fails
  <1>4. ASSUME NEW c \in Callers, SaveSettings(c) PROVE Types'
    BY <1>4, SaveEffect DEF SaveSettings
  <1>5. ASSUME NEW c \in Callers, SaveMember(c) PROVE Types'
    BY <1>5 DEF SaveMember, Touched
  <1>6. ASSUME NEW c \in Callers, FindMember(c) PROVE Types'
    BY <1>6 DEF FindMember, Member, Roles
  <1>7. ASSUME NEW c \in Callers, JoinGranted(c) PROVE Types'
    BY <1>7, GrantedRole DEF JoinGranted
  <1>8. ASSUME NEW c \in Callers, Install(c) PROVE Types'
    BY <1>8 DEF Install
  <1>9. ASSUME NEW c \in Callers, Leave(c) PROVE Types'
    BY <1>9 DEF Leave
  <1>10. ASSUME NEW c \in Callers, DeleteRows(c) PROVE Types'
    BY <1>10 DEF DeleteRows, Nobody, Roles
  <1>14. ASSUME NEW c \in Callers, DeleteLost(c) PROVE Types'
    BY <1>14 DEF DeleteLost, Nobody, Roles
  <1>11. ASSUME NEW c \in Callers, Close(c) PROVE Types'
    BY <1>11 DEF Close
  <1>12. ASSUME NEW c \in Callers, Operate(c) PROVE Types'
    BY <1>12, OperateEffect DEF Operate
  <1>13. CASE Restart
    BY <1>13 DEF Restart
  <1> QED
    BY <1>1, <1>2, <1>3, <1>4, <1>5, <1>6, <1>7, <1>8, <1>9, <1>10, <1>11,
       <1>12, <1>13, <1>14 DEF Step, Refuse, Begin

LEMMA NextServiceLock == IInv /\ Step /\ UNCHANGED who => ServiceLock'
  <1> SUFFICES ASSUME IInv, Step, UNCHANGED who PROVE ServiceLock'
    OBVIOUS
  <1>0. Types /\ ServiceLock
    BY DEF IInv
  <1> USE <1>0, NothingAssumption DEF Types, ServiceLock, Idle, Alone, Shared,
          database, memory, lock, history, Starts, Returns, Unlock
  <1>1. ASSUME NEW c \in Callers, NEW r \in CreateRequests, CreateBoard(c, r)
        PROVE  ServiceLock'
    BY <1>1 DEF CreateBoard
  <1>2. ASSUME NEW c \in Callers, Begin(c) PROVE ServiceLock'
    BY <1>2 DEF Begin, UpdateSettings, UpdateMember, StartJoin, StartDelete,
       LockAlone, LockShared
  <1>3. ASSUME NEW c \in Callers, Refuse(c) PROVE ServiceLock'
    BY <1>3 DEF Refuse, SettingsRefused, MemberRefused, JoinRefused, DeleteRefused,
       Fails
  <1>4. ASSUME NEW c \in Callers, SaveSettings(c) PROVE ServiceLock'
    BY <1>4 DEF SaveSettings
  <1>5. ASSUME NEW c \in Callers, SaveMember(c) PROVE ServiceLock'
    BY <1>5 DEF SaveMember, Touched
  <1>6. ASSUME NEW c \in Callers, FindMember(c) PROVE ServiceLock'
    BY <1>6 DEF FindMember
  <1>7. ASSUME NEW c \in Callers, JoinGranted(c) PROVE ServiceLock'
    BY <1>7 DEF JoinGranted
  <1>8. ASSUME NEW c \in Callers, Install(c) PROVE ServiceLock'
    BY <1>8 DEF Install
  <1>9. ASSUME NEW c \in Callers, Leave(c) PROVE ServiceLock'
    BY <1>9 DEF Leave
  <1>10. ASSUME NEW c \in Callers, DeleteRows(c) PROVE ServiceLock'
    BY <1>10 DEF DeleteRows
  <1>14. ASSUME NEW c \in Callers, DeleteLost(c) PROVE ServiceLock'
    BY <1>14 DEF DeleteLost
  <1>11. ASSUME NEW c \in Callers, Close(c) PROVE ServiceLock'
    BY <1>11 DEF Close
  <1>12. ASSUME NEW c \in Callers, Operate(c) PROVE ServiceLock'
    BY <1>12 DEF Operate
  <1>13. CASE Restart
    BY <1>13 DEF Restart
  <1> QED
    BY <1>1, <1>2, <1>3, <1>4, <1>5, <1>6, <1>7, <1>8, <1>9, <1>10, <1>11,
       <1>12, <1>13, <1>14 DEF Step, Refuse, Begin

LEMMA NextBoardLock == IInv /\ Step /\ UNCHANGED who => BoardLock'
  <1> SUFFICES ASSUME IInv, Step, UNCHANGED who PROVE BoardLock'
    OBVIOUS
  <1>0. Types /\ BoardLock
    BY DEF IInv
  <1> USE <1>0 DEF Types, BoardLock, Joining, Deleting, Idle, database, memory, lock,
          history, Starts, Returns, Unlock
  <1>1. ASSUME NEW c \in Callers, NEW r \in CreateRequests, CreateBoard(c, r)
        PROVE  BoardLock'
    BY <1>1 DEF CreateBoard
  <1>2. ASSUME NEW c \in Callers, Begin(c) PROVE BoardLock'
    BY <1>2 DEF Begin, UpdateSettings, UpdateMember, StartJoin, StartDelete,
       LockAlone, LockShared
  <1>3. ASSUME NEW c \in Callers, Refuse(c) PROVE BoardLock'
    BY <1>3 DEF Refuse, SettingsRefused, MemberRefused, JoinRefused, DeleteRefused,
       Fails
  <1>4. ASSUME NEW c \in Callers, SaveSettings(c) PROVE BoardLock'
    BY <1>4 DEF SaveSettings
  <1>5. ASSUME NEW c \in Callers, SaveMember(c) PROVE BoardLock'
    BY <1>5 DEF SaveMember, Touched
  <1>6. ASSUME NEW c \in Callers, FindMember(c) PROVE BoardLock'
    BY <1>6 DEF FindMember
  <1>7. ASSUME NEW c \in Callers, JoinGranted(c) PROVE BoardLock'
    BY <1>7 DEF JoinGranted
  <1>8. ASSUME NEW c \in Callers, Install(c) PROVE BoardLock'
    BY <1>8 DEF Install
  <1>9. ASSUME NEW c \in Callers, Leave(c) PROVE BoardLock'
    BY <1>9 DEF Leave
  <1>10. ASSUME NEW c \in Callers, DeleteRows(c) PROVE BoardLock'
    BY <1>10 DEF DeleteRows
  <1>14. ASSUME NEW c \in Callers, DeleteLost(c) PROVE BoardLock'
    BY <1>14 DEF DeleteLost
  <1>11. ASSUME NEW c \in Callers, Close(c) PROVE BoardLock'
    BY <1>11 DEF Close
  <1>12. ASSUME NEW c \in Callers, Operate(c) PROVE BoardLock'
    BY <1>12 DEF Operate
  <1>13. CASE Restart
    BY <1>13 DEF Restart
  <1> QED
    BY <1>1, <1>2, <1>3, <1>4, <1>5, <1>6, <1>7, <1>8, <1>9, <1>10, <1>11,
       <1>12, <1>13, <1>14 DEF Step, Refuse, Begin

LEMMA NextBeforeCreation == IInv /\ Step /\ UNCHANGED who => BeforeCreation'
  <1> SUFFICES ASSUME IInv, Step, UNCHANGED who PROVE BeforeCreation'
    OBVIOUS
  <1>0. Types /\ ReadsAreCurrent /\ BeforeCreation /\ RowIsGone /\ LogIsWhole
    BY DEF IInv
  <1> USE <1>0, NothingAssumption DEF Types, ReadsAreCurrent, BeforeCreation, Idle,
          Read, Alone, Shared, Nobody, database, memory, lock, history, Starts,
          Returns, Unlock
  <1>1. ASSUME NEW c \in Callers, NEW r \in CreateRequests, CreateBoard(c, r)
        PROVE  BeforeCreation'
    BY <1>1, CreateEffect DEF CreateBoard
  <1>2. ASSUME NEW c \in Callers, Begin(c) PROVE BeforeCreation'
    BY <1>2 DEF Begin, UpdateSettings, UpdateMember, StartJoin, StartDelete,
       LockAlone, LockShared
  <1>3. ASSUME NEW c \in Callers, Refuse(c) PROVE BeforeCreation'
    BY <1>3 DEF Refuse, SettingsRefused, MemberRefused, JoinRefused, DeleteRefused,
       Fails
  <1>4. ASSUME NEW c \in Callers, SaveSettings(c) PROVE BeforeCreation'
    BY <1>4 DEF SaveSettings
  <1>5. ASSUME NEW c \in Callers, SaveMember(c) PROVE BeforeCreation'
    BY <1>5 DEF SaveMember, Touched
  <1>6. ASSUME NEW c \in Callers, FindMember(c) PROVE BeforeCreation'
    BY <1>6 DEF FindMember
  <1>7. ASSUME NEW c \in Callers, JoinGranted(c) PROVE BeforeCreation'
    BY <1>7 DEF JoinGranted
  <1>8. ASSUME NEW c \in Callers, Install(c) PROVE BeforeCreation'
    BY <1>8 DEF Install
  <1>9. ASSUME NEW c \in Callers, Leave(c) PROVE BeforeCreation'
    BY <1>9 DEF Leave
  <1>10. ASSUME NEW c \in Callers, DeleteRows(c) PROVE BeforeCreation'
    BY <1>10 DEF DeleteRows
  <1>14. ASSUME NEW c \in Callers, DeleteLost(c) PROVE BeforeCreation'
    BY <1>14 DEF DeleteLost
  <1>11. ASSUME NEW c \in Callers, Close(c) PROVE BeforeCreation'
    BY <1>11 DEF Close
  <1>12. ASSUME NEW c \in Callers, Operate(c) PROVE BeforeCreation'
    BY <1>12 DEF Operate
  <1>13. CASE Restart
    BY <1>13 DEF Restart
  <1> QED
    BY <1>1, <1>2, <1>3, <1>4, <1>5, <1>6, <1>7, <1>8, <1>9, <1>10, <1>11,
       <1>12, <1>13, <1>14 DEF Step, Refuse, Begin

LEMMA NextRowIsGone == IInv /\ Step /\ UNCHANGED who => RowIsGone'
  <1> SUFFICES ASSUME IInv, Step, UNCHANGED who PROVE RowIsGone'
    OBVIOUS
  <1>0. Types /\ ReadsAreCurrent /\ BoardLock /\ RowIsGone /\ LogIsWhole
    BY DEF IInv
  <1> USE <1>0, NothingAssumption DEF Types, ReadsAreCurrent, BoardLock,
          RowIsGone, Idle, Read, Alone, Shared, Joining, Deleting, database,
          memory, lock, history, Starts, Returns, Unlock
  <1>1. ASSUME NEW c \in Callers, NEW r \in CreateRequests, CreateBoard(c, r)
        PROVE  RowIsGone'
    BY <1>1 DEF CreateBoard
  <1>2. ASSUME NEW c \in Callers, Begin(c) PROVE RowIsGone'
    BY <1>2 DEF Begin, UpdateSettings, UpdateMember, StartJoin, StartDelete,
       LockAlone, LockShared
  <1>3. ASSUME NEW c \in Callers, Refuse(c) PROVE RowIsGone'
    BY <1>3 DEF Refuse, SettingsRefused, MemberRefused, JoinRefused, DeleteRefused,
       Fails
  <1>4. ASSUME NEW c \in Callers, SaveSettings(c) PROVE RowIsGone'
    BY <1>4, SaveEffect DEF SaveSettings
  <1>5. ASSUME NEW c \in Callers, SaveMember(c) PROVE RowIsGone'
    BY <1>5 DEF SaveMember, Touched
  <1>6. ASSUME NEW c \in Callers, FindMember(c) PROVE RowIsGone'
    BY <1>6 DEF FindMember
  <1>7. ASSUME NEW c \in Callers, JoinGranted(c) PROVE RowIsGone'
    BY <1>7 DEF JoinGranted
  <1>8. ASSUME NEW c \in Callers, Install(c) PROVE RowIsGone'
    BY <1>8 DEF Install
  <1>9. ASSUME NEW c \in Callers, Leave(c) PROVE RowIsGone'
    BY <1>9 DEF Leave
  <1>10. ASSUME NEW c \in Callers, DeleteRows(c) PROVE RowIsGone'
    BY <1>10 DEF DeleteRows
  <1>14. ASSUME NEW c \in Callers, DeleteLost(c) PROVE RowIsGone'
    BY <1>14 DEF DeleteLost
  <1>11. ASSUME NEW c \in Callers, Close(c) PROVE RowIsGone'
    BY <1>11 DEF Close
  <1>12. ASSUME NEW c \in Callers, Operate(c) PROVE RowIsGone'
    BY <1>12, OperateEffect DEF Operate
  <1>13. CASE Restart
    BY <1>13 DEF Restart
  <1> QED
    BY <1>1, <1>2, <1>3, <1>4, <1>5, <1>6, <1>7, <1>8, <1>9, <1>10, <1>11,
       <1>12, <1>13, <1>14 DEF Step, Refuse, Begin

LEMMA NextReadsAreCurrent == IInv /\ Step /\ UNCHANGED who => ReadsAreCurrent'
  <1> SUFFICES ASSUME IInv, Step, UNCHANGED who PROVE ReadsAreCurrent'
    OBVIOUS
  <1>0. Types /\ ServiceLock /\ BoardLock /\ BeforeCreation /\ RowIsGone /\
        ReadsAreCurrent /\ LogIsWhole
    BY DEF IInv
  <1> USE <1>0, NothingAssumption DEF Types, ServiceLock, BoardLock, BeforeCreation,
          RowIsGone, ReadsAreCurrent, Idle, Read, Alone, Shared, Joining,
          Deleting, Member, database, memory, lock, history, Starts, Returns, Unlock
  <1>1. ASSUME NEW c \in Callers, NEW r \in CreateRequests, CreateBoard(c, r)
        PROVE  ReadsAreCurrent'
    BY <1>1 DEF CreateBoard
  <1>2. ASSUME NEW c \in Callers, Begin(c) PROVE ReadsAreCurrent'
    BY <1>2 DEF Begin, UpdateSettings, UpdateMember, StartJoin, StartDelete,
       LockAlone, LockShared
  <1>3. ASSUME NEW c \in Callers, Refuse(c) PROVE ReadsAreCurrent'
    BY <1>3 DEF Refuse, SettingsRefused, MemberRefused, JoinRefused, DeleteRefused,
       Fails
  <1>4. ASSUME NEW c \in Callers, SaveSettings(c) PROVE ReadsAreCurrent'
    BY <1>4, SaveEffect DEF SaveSettings
  <1>5. ASSUME NEW c \in Callers, SaveMember(c) PROVE ReadsAreCurrent'
    BY <1>5 DEF SaveMember, Touched
  <1>6. ASSUME NEW c \in Callers, FindMember(c) PROVE ReadsAreCurrent'
    BY <1>6 DEF FindMember
  <1>7. ASSUME NEW c \in Callers, JoinGranted(c) PROVE ReadsAreCurrent'
    BY <1>7 DEF JoinGranted
  <1>8. ASSUME NEW c \in Callers, Install(c) PROVE ReadsAreCurrent'
    BY <1>8 DEF Install
  <1>9. ASSUME NEW c \in Callers, Leave(c) PROVE ReadsAreCurrent'
    BY <1>9 DEF Leave
  <1>10. ASSUME NEW c \in Callers, DeleteRows(c) PROVE ReadsAreCurrent'
    BY <1>10 DEF DeleteRows
  <1>14. ASSUME NEW c \in Callers, DeleteLost(c) PROVE ReadsAreCurrent'
    BY <1>14 DEF DeleteLost
  <1>11. ASSUME NEW c \in Callers, Close(c) PROVE ReadsAreCurrent'
    BY <1>11 DEF Close
  <1>12. ASSUME NEW c \in Callers, Operate(c) PROVE ReadsAreCurrent'
    BY <1>12, OperateEffect DEF Operate
  <1>13. CASE Restart
    BY <1>13 DEF Restart
  <1> QED
    BY <1>1, <1>2, <1>3, <1>4, <1>5, <1>6, <1>7, <1>8, <1>9, <1>10, <1>11,
       <1>12, <1>13, <1>14 DEF Step, Refuse, Begin

LEMMA NextDeletedLeavesNothing == IInv /\ Step /\ UNCHANGED who => DeletedLeavesNothing'
  <1> SUFFICES ASSUME IInv, Step, UNCHANGED who PROVE DeletedLeavesNothing'
    OBVIOUS
  <1>0. Types /\ ServiceLock /\ BeforeCreation /\ ReadsAreCurrent /\ RowIsGone
        /\ DeletedLeavesNothing /\ LogIsWhole
    BY DEF IInv
  <1> USE <1>0, NothingAssumption DEF Types, ServiceLock, BeforeCreation,
          ReadsAreCurrent, RowIsGone, DeletedLeavesNothing, Nobody, Idle, Read,
          Alone, Shared, Deleting, database, memory, lock, history, Starts, Returns,
          Unlock
  <1>1. ASSUME NEW c \in Callers, NEW r \in CreateRequests, CreateBoard(c, r)
        PROVE  DeletedLeavesNothing'
    BY <1>1, CreateEffect DEF CreateBoard
  <1>2. ASSUME NEW c \in Callers, Begin(c) PROVE DeletedLeavesNothing'
    BY <1>2 DEF Begin, UpdateSettings, UpdateMember, StartJoin, StartDelete,
       LockAlone, LockShared
  <1>3. ASSUME NEW c \in Callers, Refuse(c) PROVE DeletedLeavesNothing'
    BY <1>3 DEF Refuse, SettingsRefused, MemberRefused, JoinRefused, DeleteRefused,
       Fails
  <1>4. ASSUME NEW c \in Callers, SaveSettings(c) PROVE DeletedLeavesNothing'
    BY <1>4, SaveEffect DEF SaveSettings
  <1>5. ASSUME NEW c \in Callers, SaveMember(c) PROVE DeletedLeavesNothing'
    BY <1>5 DEF SaveMember, Touched
  <1>6. ASSUME NEW c \in Callers, FindMember(c) PROVE DeletedLeavesNothing'
    BY <1>6 DEF FindMember
  <1>7. ASSUME NEW c \in Callers, JoinGranted(c) PROVE DeletedLeavesNothing'
    BY <1>7 DEF JoinGranted
  <1>8. ASSUME NEW c \in Callers, Install(c) PROVE DeletedLeavesNothing'
    BY <1>8 DEF Install
  <1>9. ASSUME NEW c \in Callers, Leave(c) PROVE DeletedLeavesNothing'
    BY <1>9 DEF Leave
  <1>10. ASSUME NEW c \in Callers, DeleteRows(c) PROVE DeletedLeavesNothing'
    BY <1>10 DEF DeleteRows
  <1>14. ASSUME NEW c \in Callers, DeleteLost(c) PROVE DeletedLeavesNothing'
    BY <1>14 DEF DeleteLost
  <1>11. ASSUME NEW c \in Callers, Close(c) PROVE DeletedLeavesNothing'
    BY <1>11 DEF Close
  <1>12. ASSUME NEW c \in Callers, Operate(c) PROVE DeletedLeavesNothing'
    BY <1>12, OperateEffect DEF Operate
  <1>13. CASE Restart
    BY <1>13 DEF Restart
  <1> QED
    BY <1>1, <1>2, <1>3, <1>4, <1>5, <1>6, <1>7, <1>8, <1>9, <1>10, <1>11,
       <1>12, <1>13, <1>14 DEF Step, Refuse, Begin

LEMMA NextCachedRoleIsCurrent == IInv /\ Step /\ UNCHANGED who => CachedRoleIsCurrent'
  <1> SUFFICES ASSUME IInv, Step, UNCHANGED who PROVE CachedRoleIsCurrent'
    OBVIOUS
  <1>0. Types /\ ServiceLock /\ BeforeCreation /\ RowIsGone /\ ReadsAreCurrent
        /\ CachedRoleIsCurrent /\ LogIsWhole
    BY DEF IInv
  <1> USE <1>0, NothingAssumption DEF Types, ServiceLock, BeforeCreation,
          RowIsGone, ReadsAreCurrent, CachedRoleIsCurrent, Nobody, Idle, Read,
          Alone, Shared, Deleting, ExistingRole, Member, database, memory, lock,
          history, Starts, Returns, Unlock
  <1>1. ASSUME NEW c \in Callers, NEW r \in CreateRequests, CreateBoard(c, r)
        PROVE  CachedRoleIsCurrent'
    BY <1>1 DEF CreateBoard
  <1>2. ASSUME NEW c \in Callers, Begin(c) PROVE CachedRoleIsCurrent'
    BY <1>2 DEF Begin, UpdateSettings, UpdateMember, StartJoin, StartDelete,
       LockAlone, LockShared
  <1>3. ASSUME NEW c \in Callers, Refuse(c) PROVE CachedRoleIsCurrent'
    BY <1>3 DEF Refuse, SettingsRefused, MemberRefused, JoinRefused, DeleteRefused,
       Fails
  <1>4. ASSUME NEW c \in Callers, SaveSettings(c) PROVE CachedRoleIsCurrent'
    <2>1. row # Nothing /\ row'.owner = row.owner
      BY <1>4, SaveEffect DEF SaveSettings, ReadsAreCurrent, Read, Alone
    <2>2. role' = role /\ members' = members /\ touched' = touched
      BY <1>4 DEF SaveSettings, memory
    <2> QED
      BY <2>1, <2>2 DEF CachedRoleIsCurrent, ExistingRole, Member
  <1>5. ASSUME NEW c \in Callers, SaveMember(c) PROVE CachedRoleIsCurrent'
    BY <1>5 DEF SaveMember, Touched, Touching
  <1>6. ASSUME NEW c \in Callers, FindMember(c) PROVE CachedRoleIsCurrent'
    BY <1>6 DEF FindMember
  <1>7. ASSUME NEW c \in Callers, JoinGranted(c) PROVE CachedRoleIsCurrent'
    <2>1. /\ call[c].op = "look" /\ row # Nothing /\ call[c].board.owner = row.owner
          /\ call[c].member = Member(who[c])
      BY <1>7 DEF JoinGranted, ReadsAreCurrent, Read, Shared
    <2>2. LET existing == ExistingRole(row, who[c], Member(who[c])) IN
            IF existing # "none" THEN Granted(c) = existing
            ELSE who[c] \in Users => Granted(c) = "viewer"
      BY <2>1, <1>7 DEF JoinGranted, Granted, RoleForJoin, ExistingRole
    <2>3. /\ row' = row /\ members' = members /\ touched' = touched \ {c}
          /\ role' = [role EXCEPT ![c] = Granted(c)]
      BY <1>7 DEF JoinGranted, database
    <2> QED
      BY <2>2, <2>3 DEF CachedRoleIsCurrent, Types, Member, ExistingRole
  <1>8. ASSUME NEW c \in Callers, Install(c) PROVE CachedRoleIsCurrent'
    BY <1>8 DEF Install
  <1>9. ASSUME NEW c \in Callers, Leave(c) PROVE CachedRoleIsCurrent'
    BY <1>9 DEF Leave
  <1>10. ASSUME NEW c \in Callers, DeleteRows(c) PROVE CachedRoleIsCurrent'
    BY <1>10 DEF DeleteRows
  <1>14. ASSUME NEW c \in Callers, DeleteLost(c) PROVE CachedRoleIsCurrent'
    BY <1>14 DEF DeleteLost
  <1>11. ASSUME NEW c \in Callers, Close(c) PROVE CachedRoleIsCurrent'
    BY <1>11 DEF Close
  <1>12. ASSUME NEW c \in Callers, Operate(c) PROVE CachedRoleIsCurrent'
    BY <1>12, OperateEffect DEF Operate
  <1>13. CASE Restart
    BY <1>13 DEF Restart
  <1> QED
    BY <1>1, <1>2, <1>3, <1>4, <1>5, <1>6, <1>7, <1>8, <1>9, <1>10, <1>11,
       <1>12, <1>13, <1>14 DEF Step, Refuse, Begin

LEMMA NextCopiesHaveSettings == IInv /\ Step /\ UNCHANGED who => CopiesHaveSettings'
  <1> SUFFICES ASSUME IInv, Step, UNCHANGED who PROVE CopiesHaveSettings'
    OBVIOUS
  <1>0. Types /\ BeforeCreation /\ RowIsGone /\ ReadsAreCurrent /\
        CopiesHaveSettings /\ LogIsWhole
    BY DEF IInv
  <1> USE <1>0, NothingAssumption DEF Types, BeforeCreation, RowIsGone,
          ReadsAreCurrent, CopiesHaveSettings, Idle, Read, Alone, Shared, Joining,
          Deleting, Copied, database, memory, lock, history, Starts, Returns, Unlock
  <1>1. ASSUME NEW c \in Callers, NEW r \in CreateRequests, CreateBoard(c, r)
        PROVE  CopiesHaveSettings'
    BY <1>1 DEF CreateBoard
  <1>2. ASSUME NEW c \in Callers, Begin(c) PROVE CopiesHaveSettings'
    BY <1>2 DEF Begin, UpdateSettings, UpdateMember, StartJoin, StartDelete,
       LockAlone, LockShared
  <1>3. ASSUME NEW c \in Callers, Refuse(c) PROVE CopiesHaveSettings'
    BY <1>3 DEF Refuse, SettingsRefused, MemberRefused, JoinRefused, DeleteRefused,
       Fails
  <1>4. ASSUME NEW c \in Callers, SaveSettings(c) PROVE CopiesHaveSettings'
    BY <1>4, SaveEffect DEF SaveSettings
  <1>5. ASSUME NEW c \in Callers, SaveMember(c) PROVE CopiesHaveSettings'
    BY <1>5 DEF SaveMember, Touched
  <1>6. ASSUME NEW c \in Callers, FindMember(c) PROVE CopiesHaveSettings'
    BY <1>6 DEF FindMember
  <1>7. ASSUME NEW c \in Callers, JoinGranted(c) PROVE CopiesHaveSettings'
    BY <1>7 DEF JoinGranted
  <1>8. ASSUME NEW c \in Callers, Install(c) PROVE CopiesHaveSettings'
    BY <1>8 DEF Install
  <1>9. ASSUME NEW c \in Callers, Leave(c) PROVE CopiesHaveSettings'
    BY <1>9 DEF Leave
  <1>10. ASSUME NEW c \in Callers, DeleteRows(c) PROVE CopiesHaveSettings'
    BY <1>10 DEF DeleteRows
  <1>14. ASSUME NEW c \in Callers, DeleteLost(c) PROVE CopiesHaveSettings'
    BY <1>14 DEF DeleteLost
  <1>11. ASSUME NEW c \in Callers, Close(c) PROVE CopiesHaveSettings'
    BY <1>11 DEF Close
  <1>12. ASSUME NEW c \in Callers, Operate(c) PROVE CopiesHaveSettings'
    BY <1>12, OperateEffect DEF Operate
  <1>13. CASE Restart
    BY <1>13 DEF Restart
  <1> QED
    BY <1>1, <1>2, <1>3, <1>4, <1>5, <1>6, <1>7, <1>8, <1>9, <1>10, <1>11,
       <1>12, <1>13, <1>14 DEF Step, Refuse, Begin

LEMMA NextLogIsWhole == IInv /\ Step /\ UNCHANGED who => LogIsWhole'
  <1> SUFFICES ASSUME IInv, Step, UNCHANGED who PROVE LogIsWhole'
    OBVIOUS
  <1>0. Types /\ BeforeCreation /\ RowIsGone /\ ReadsAreCurrent /\ LogIsWhole
        /\ DeletedLeavesNothing
    BY DEF IInv
  <1> USE <1>0, NothingAssumption, BoundAssumption DEF Types, BeforeCreation,
          RowIsGone, ReadsAreCurrent, LogIsWhole, Idle, Read, Alone, Shared,
          Joining, Deleting, database, memory, lock, history, Starts, Returns, Unlock
  <1>1. ASSUME NEW c \in Callers, NEW r \in CreateRequests, CreateBoard(c, r)
        PROVE  LogIsWhole'
    <2>1. operations' = (0 + 1)..0 /\ row'.revision = 0 /\ runtime' = Nothing
      BY <1>1, CreateEffect DEF CreateBoard, BeforeCreation, memory
    <2>2. \A d \in Callers : call'[d].op \notin Read
      BY <1>1 DEF CreateBoard, BeforeCreation, Idle, Read, Alone, Shared
    <2>3. /\ 0 \in 0..MaxOps /\ 0 <= row'.revision /\ row'.revision <= 0
      BY <2>1, BoundAssumption
    <2> QED
      BY <2>1, <2>2, <2>3, Zenon DEF LogIsWhole
  <1>2. ASSUME NEW c \in Callers, Begin(c) PROVE LogIsWhole'
    BY <1>2 DEF Begin, UpdateSettings, UpdateMember, StartJoin, StartDelete,
       LockAlone, LockShared
  <1>3. ASSUME NEW c \in Callers, Refuse(c) PROVE LogIsWhole'
    BY <1>3 DEF Refuse, SettingsRefused, MemberRefused, JoinRefused, DeleteRefused,
       Fails
  <1>4. ASSUME NEW c \in Callers, SaveSettings(c) PROVE LogIsWhole'
    BY <1>4, SaveEffect DEF SaveSettings
  <1>5. ASSUME NEW c \in Callers, SaveMember(c) PROVE LogIsWhole'
    BY <1>5 DEF SaveMember, Touched
  <1>6. ASSUME NEW c \in Callers, FindMember(c) PROVE LogIsWhole'
    BY <1>6 DEF FindMember
  <1>7. ASSUME NEW c \in Callers, JoinGranted(c) PROVE LogIsWhole'
    BY <1>7 DEF JoinGranted
  <1>8. ASSUME NEW c \in Callers, Install(c) PROVE LogIsWhole'
    BY <1>8 DEF Install
  <1>9. ASSUME NEW c \in Callers, Leave(c) PROVE LogIsWhole'
    BY <1>9 DEF Leave
  <1>10. ASSUME NEW c \in Callers, DeleteRows(c) PROVE LogIsWhole'
    BY <1>10 DEF DeleteRows
  <1>14. ASSUME NEW c \in Callers, DeleteLost(c) PROVE LogIsWhole'
    BY <1>14 DEF DeleteLost
  <1>11. ASSUME NEW c \in Callers, Close(c) PROVE LogIsWhole'
    BY <1>11 DEF Close
  <1>12. ASSUME NEW c \in Callers, Operate(c) PROVE LogIsWhole'
    <2> DEFINE n == runtime.revision
    <2>1. /\ n \in 0..MaxOps /\ n + 1 \in 0..MaxOps /\ row'.revision = n + 1
          /\ runtime' = row' /\ operations' = operations \cup {n + 1}
          /\ n + 1 \notin operations /\ call' = call
      BY <1>12, OperateEffect DEF Operate, Boards
    <2>2. CASE row = Nothing
      <3>1. operations' = (n + 1)..(n + 1)
        BY <1>0, <2>1, <2>2 DEF DeletedLeavesNothing
      <3>2. \A d \in Callers : call'[d].op \notin Read
        BY <2>1, <2>2 DEF ReadsAreCurrent
      <3>3. /\ n <= row'.revision /\ row'.revision <= n + 1
            /\ n <= runtime'.revision /\ runtime'.revision <= n + 1
        BY <2>1, BoundAssumption
      <3> HIDE DEF n
      <3> QED
        BY <2>1, <3>1, <3>2, <3>3, Zenon DEF LogIsWhole
    <2>3. CASE row # Nothing
      <3>1. PICK j, k \in 0..MaxOps :
              /\ operations = (j + 1)..k
              /\ j <= n /\ n <= k
              /\ \A d \in Callers : call[d].op \in Read =>
                     j <= call[d].board.revision /\ call[d].board.revision <= k
        BY <1>12, <2>3, OperateEffect DEF LogIsWhole
      <3>2. n = k
        BY <2>1, <3>1, BoundAssumption
      <3>3. operations' = (j + 1)..(n + 1)
        BY <2>1, <3>1, <3>2, BoundAssumption
      <3>4. \A d \in Callers : call[d].op \in Read => call[d].board.revision \in 0..MaxOps
        BY <1>0 DEF Types, Calls, Read, Alone, Shared, Boards, Idle
      <3>5. \A d \in Callers : call'[d].op \in Read =>
                j <= call'[d].board.revision /\ call'[d].board.revision <= n + 1
        BY <2>1, <3>1, <3>2, <3>4, BoundAssumption
      <3> QED
        BY <2>1, <3>1, <3>2, <3>3, <3>5, BoundAssumption DEF LogIsWhole
    <2> QED
      BY <2>2, <2>3
  <1>13. CASE Restart
    BY <1>13 DEF Restart
  <1> QED
    BY <1>1, <1>2, <1>3, <1>4, <1>5, <1>6, <1>7, <1>8, <1>9, <1>10, <1>11,
       <1>12, <1>13, <1>14 DEF Step, Refuse, Begin

LEMMA NextCopiesHaveRevision == IInv /\ Step /\ UNCHANGED who => CopiesHaveRevision'
  <1> SUFFICES ASSUME IInv, Step, UNCHANGED who PROVE CopiesHaveRevision'
    OBVIOUS
  <1>0. Types /\ BeforeCreation /\ RowIsGone /\ ReadsAreCurrent /\
        CopiesHaveRevision /\ LogIsWhole /\ DeletedLeavesNothing
    BY DEF IInv
  <1> USE <1>0, NothingAssumption, BoundAssumption DEF Types, BeforeCreation,
          RowIsGone, ReadsAreCurrent, CopiesHaveRevision, Idle, Read, Alone,
          Shared, Joining, Deleting, database, memory, lock, history, Starts, Returns,
          Unlock
  <1>1. ASSUME NEW c \in Callers, NEW r \in CreateRequests, CreateBoard(c, r)
        PROVE  CopiesHaveRevision'
    BY <1>1 DEF CreateBoard
  <1>2. ASSUME NEW c \in Callers, Begin(c) PROVE CopiesHaveRevision'
    BY <1>2 DEF Begin, UpdateSettings, UpdateMember, StartJoin, StartDelete,
       LockAlone, LockShared
  <1>3. ASSUME NEW c \in Callers, Refuse(c) PROVE CopiesHaveRevision'
    BY <1>3 DEF Refuse, SettingsRefused, MemberRefused, JoinRefused, DeleteRefused,
       Fails
  <1>4. ASSUME NEW c \in Callers, SaveSettings(c) PROVE CopiesHaveRevision'
    BY <1>4, SaveEffect DEF SaveSettings
  <1>5. ASSUME NEW c \in Callers, SaveMember(c) PROVE CopiesHaveRevision'
    BY <1>5 DEF SaveMember, Touched
  <1>6. ASSUME NEW c \in Callers, FindMember(c) PROVE CopiesHaveRevision'
    BY <1>6 DEF FindMember
  <1>7. ASSUME NEW c \in Callers, JoinGranted(c) PROVE CopiesHaveRevision'
    BY <1>7 DEF JoinGranted
  <1>8. ASSUME NEW c \in Callers, Install(c) PROVE CopiesHaveRevision'
    BY <1>8 DEF Install
  <1>9. ASSUME NEW c \in Callers, Leave(c) PROVE CopiesHaveRevision'
    BY <1>9 DEF Leave
  <1>10. ASSUME NEW c \in Callers, DeleteRows(c) PROVE CopiesHaveRevision'
    BY <1>10 DEF DeleteRows
  <1>14. ASSUME NEW c \in Callers, DeleteLost(c) PROVE CopiesHaveRevision'
    BY <1>14 DEF DeleteLost
  <1>11. ASSUME NEW c \in Callers, Close(c) PROVE CopiesHaveRevision'
    BY <1>11 DEF Close
  <1>12. ASSUME NEW c \in Callers, Operate(c) PROVE CopiesHaveRevision'
    <2> DEFINE n == runtime.revision
    <2>1. /\ row'.revision = n + 1 /\ runtime' = row' /\ n \in Nat
          /\ operations' = operations \cup {n + 1}
          /\ call' = call /\ runtime # Nothing /\ runtime' # Nothing
      BY <1>12, OperateEffect DEF Operate, Boards
    <2>2. raced' \/ \A d \in Callers : call'[d].op # "settings"
      BY <1>12 DEF Operate
    <2>3. ~raced => raced' \/ \A k \in operations : k <= n
      <3>1. row = Nothing => operations = {}
        BY <1>0 DEF DeletedLeavesNothing
      <3> QED
        BY <2>1, <3>1 DEF CopiesHaveRevision
    <2>4. ~raced' => ~raced
      BY <1>12 DEF Operate
    <2>5. ASSUME ~raced' PROVE \A k \in operations' : k <= row'.revision
      <3>1. \A k \in operations : k \in Nat /\ k <= n
        BY <2>3, <2>4, <2>5 DEF LogIsWhole, DeletedLeavesNothing
      <3> QED
        BY <2>1, <3>1
    <2> QED
      BY <2>1, <2>2, <2>5 DEF CopiesHaveRevision
  <1>13. CASE Restart
    BY <1>13 DEF Restart
  <1> QED
    BY <1>1, <1>2, <1>3, <1>4, <1>5, <1>6, <1>7, <1>8, <1>9, <1>10, <1>11,
       <1>12, <1>13, <1>14 DEF Step, Refuse, Begin

-----------------------------------------------------------------------------

LEMMA InitIInv == Init => IInv
  <1> SUFFICES ASSUME Init PROVE IInv
    OBVIOUS
  <1> USE NothingAssumption DEF Init, Nobody, Idle
  <1>1. Types
    BY DEF Types, Calls, Roles, Idle
  <1>2. ServiceLock /\ BoardLock
    BY DEF ServiceLock, BoardLock, Alone, Shared, Joining, Deleting
  <1>3. BeforeCreation /\ RowIsGone /\ ReadsAreCurrent
    BY DEF BeforeCreation, RowIsGone, ReadsAreCurrent, Read, Alone, Shared
  <1>4. DeletedLeavesNothing /\ CachedRoleIsCurrent
    BY DEF DeletedLeavesNothing, CachedRoleIsCurrent
  <1>5. CopiesHaveSettings /\ LogIsWhole /\ CopiesHaveRevision
    BY DEF CopiesHaveSettings, LogIsWhole, CopiesHaveRevision, Joining
  <1> QED
    BY <1>1, <1>2, <1>3, <1>4, <1>5 DEF IInv

LEMMA StutterIInv == IInv /\ UNCHANGED vars => IInv'
  BY DEF vars, IInv, Types, ServiceLock, BoardLock, BeforeCreation, RowIsGone,
         ReadsAreCurrent, DeletedLeavesNothing, CachedRoleIsCurrent, CopiesHaveSettings,
         LogIsWhole, CopiesHaveRevision, Joining, Deleting, Member, ExistingRole

\* What is true between the steps of the calls of BoardService, of operations
\* and of restarts.
THEOREM Inductive == Spec => []IInv
  <1>1. IInv /\ [Next]_vars => IInv'
    <2> SUFFICES ASSUME IInv, [Next]_vars PROVE IInv'
      OBVIOUS
    <2>1. CASE Next
      <3> Step /\ UNCHANGED who
        BY <2>1 DEF Next
      <3> QED
        BY NextTypes, NextServiceLock, NextBoardLock, NextBeforeCreation,
           NextRowIsGone, NextReadsAreCurrent, NextDeletedLeavesNothing,
           NextCachedRoleIsCurrent, NextCopiesHaveSettings, NextLogIsWhole,
           NextCopiesHaveRevision DEF IInv
    <2> QED
      BY <2>1, StutterIInv
  <1> QED
    BY InitIInv, <1>1, PTL DEF Spec

\* No sequence of changes of settings leaves a protected board without a
\* password, or a private one open to guests: not in the row, and not in the
\* copy of the runtime (update_board_settings, persist_applied_operation).
THEOREM TypeCorrect == Spec => []TypeOK
  <1>1. IInv => TypeOK
    <2> SUFFICES ASSUME IInv PROVE TypeOK
      OBVIOUS
    <2>1. operations \subseteq 1..MaxOps
      BY BoundAssumption DEF IInv, LogIsWhole, DeletedLeavesNothing
    <2> QED
      BY <2>1 DEF IInv, Types, ServiceLock, TypeOK
  <1> QED
    BY Inductive, <1>1, PTL

\* delete_board takes everything along and, once it has answered, nothing that
\* was read before it comes back: neither the whole row that
\* update_board_settings writes, nor the copy that an operation writes.  If its
\* COMMIT took effect and was answered by an error, an operation brings back
\* the row, and the row only: no member, and nobody who owns it but its owner.
THEOREM DeletionIsFinal == Spec => []DeletedLeavesNothing
  <1>1. IInv => DeletedLeavesNothing
    BY DEF IInv
  <1> QED
    BY Inductive, <1>1, PTL

\* Joins do not slip past changes of membership: a session has the role that
\* its user's membership gives, or was told of an earlier one before the change.
THEOREM RolesAreCurrent == Spec => []CachedRoleIsCurrent
  <1>1. IInv => CachedRoleIsCurrent
    BY DEF IInv
  <1> QED
    BY Inductive, <1>1, PTL

\* Settings that were saved while nobody had a copy of the row stay.
THEOREM SettingsStay == Spec => []SettingsStayAtRest
  <1>1. IInv => SettingsStayAtRest
    BY DEF IInv, CopiesHaveSettings, SettingsStayAtRest
  <1> QED
    BY Inductive, <1>1, PTL

\* A restarted server goes on after the last operation in the log, unless one
\* ran between the read and the write of a change of settings.
THEOREM LogIsCovered == Spec => []RevisionCoversLog
  <1>1. IInv => RevisionCoversLog
    <2> SUFFICES ASSUME IInv, row # Nothing, ~raced PROVE RevisionCoversLog
      BY DEF RevisionCoversLog
    <2> QED
      BY DEF IInv, CopiesHaveRevision, RevisionCoversLog
  <1> QED
    BY Inductive, <1>1, PTL

=============================================================================
