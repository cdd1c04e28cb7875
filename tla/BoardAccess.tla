---------------------------- MODULE BoardAccess -----------------------------
(***************************************************************************)
(* Who may do what on a board: BoardService with the settings of the board *)
(* and its members, and the two copies that others keep of what it decides.*)
(* A session keeps the role it was given when it joined, and the runtime   *)
(* keeps the row of the board as it was when the runtime was made.         *)
(*                                                                         *)
(* The calls of BoardService exclude each other by its mutex, shared for   *)
(* the calls that only read.  Operations on the board do not take it: they *)
(* write the row from the copy of the runtime.  So a call reads the row in *)
(* one step and writes it in another, with operations in between.          *)
(*                                                                         *)
(* There is one board.  Titles and times are left out, and a password is   *)
(* its own hash.  What happens to the objects is the matter of             *)
(* BoardRuntime: here an operation is the number of its revision.          *)
(***************************************************************************)
EXTENDS Naturals

CONSTANTS
    Callers,        \* sessions, each with one request at a time
    Users,          \* registered users
    Parties,        \* who the sessions may belong to: users, and guests
    Passwords,      \* passwords
    Changes,        \* requests to change the settings
    Nothing,        \* no password, no change, no row, no call
    MaxCalls,       \* bound: calls of the service
    MaxOps          \* bound: operations

AccessModes == {"private_board", "password_protected"}
GuestPolicies == {"guest_disabled", "guest_view_only", "guest_edit_allowed"}

ChangeRequests ==
    [access_mode : AccessModes \cup {Nothing},
     guest_policy : GuestPolicies \cup {Nothing},
     change_password : BOOLEAN, password : Passwords \cup {Nothing}]

ASSUME ChangesAssumption == Changes \subseteq ChangeRequests

ASSUME BoundAssumption == MaxOps \in Nat

VARIABLES
    who,            \* principal_ of each session
    row,            \* boards
    members,        \* board_members: role by user
    operations,     \* board_operations: revisions
    runtime,        \* the copy of the row that the runtime keeps
    role,           \* current_role_ of the sessions
    call,           \* what each session is doing
    writer,         \* who holds the mutex of BoardService alone
    readers,        \* who shares it
    calls,          \* how many calls were made
    agreed,         \* history: the settings that were saved last
    stale,          \* history: they were saved while somebody kept a copy
    raced,          \* history: an operation ran between the read and the save
    deletion,       \* history: whether the rows were deleted, and who knows
    touched         \* history: sessions whose membership changed since they joined

vars == <<who, row, members, operations, runtime, role, call, writer, readers, calls,
          agreed, stale, raced, deletion, touched>>

database == <<row, members, operations>>
memory == <<runtime, role>>
lock == <<writer, readers>>
history == <<agreed, stale, raced, deletion, touched>>

-----------------------------------------------------------------------------
(* Settings *)

\* Guests and passwords only where the board is protected by a password.
Settings ==
    [access_mode : {"private_board"}, guest_policy : {"guest_disabled"},
     password : {Nothing}]
      \cup [access_mode : {"password_protected"}, guest_policy : GuestPolicies,
            password : Passwords]

\* The row of the board.
Boards == [owner : Users, settings : Settings, revision : 0..MaxOps]

ASSUME NothingAssumption ==
    Nothing \notin Callers \cup Users \cup Passwords \cup Settings \cup Boards

CreateRequests ==
    [access_mode : AccessModes, guest_policy : GuestPolicies,
     password : Passwords \cup {Nothing}]

\* validate_create_board_request
Valid(r) ==
    IF r.access_mode = "password_protected" THEN r.password # Nothing
    ELSE r.password = Nothing /\ r.guest_policy = "guest_disabled"

\* (Faulty: the password of a board that stops being protected is kept.)
ChangedKeeping(s, r) ==
    LET access == IF r.access_mode = Nothing THEN s.access_mode ELSE r.access_mode
        policy == IF r.guest_policy = Nothing THEN s.guest_policy ELSE r.guest_policy
        password == IF r.change_password THEN r.password ELSE s.password
    IN  CASE r.password # Nothing /\ ~r.change_password -> Nothing
          [] access = "password_protected" /\ password = Nothing -> Nothing
          [] OTHER -> [access_mode |-> access, guest_policy |-> policy, password |-> password]

\* The settings after a request, Nothing if it is refused.
Changed(s, r) ==
    LET access == IF r.access_mode = Nothing THEN s.access_mode ELSE r.access_mode
        policy == IF r.guest_policy = Nothing THEN s.guest_policy ELSE r.guest_policy
        password == IF r.change_password THEN r.password ELSE s.password
        opens == r.guest_policy \notin {Nothing, "guest_disabled"} \/ r.password # Nothing
    IN  CASE r.password # Nothing /\ ~r.change_password -> Nothing
          [] access = "private_board" /\ opens -> Nothing
          [] access = "private_board" /\ ~opens ->
               [access_mode |-> access, guest_policy |-> "guest_disabled", password |-> Nothing]
          [] access = "password_protected" /\ password = Nothing -> Nothing
          [] OTHER -> [access_mode |-> access, guest_policy |-> policy, password |-> password]

-----------------------------------------------------------------------------
(* Roles *)

Roles == {"owner", "editor", "viewer"}

\* resolve_existing_role; "none" for no role.
ExistingRole(board, p, member) == IF p = board.owner THEN "owner" ELSE member

GuestRole(s) ==
    CASE s.guest_policy = "guest_disabled" -> "none"
      [] s.guest_policy = "guest_view_only" -> "viewer"
      [] s.guest_policy = "guest_edit_allowed" -> "editor"

\* resolve_role_for_join
RoleForJoin(board, p, member, password) ==
    LET s == board.settings IN
    IF ExistingRole(board, p, member) # "none" THEN ExistingRole(board, p, member)
    ELSE IF s.access_mode = "private_board" THEN "none"
    ELSE IF s.password \notin {Nothing, password} THEN "none"
    ELSE IF p \in Users THEN "viewer" ELSE GuestRole(s)

\* can_apply_operation
CanApplyOperation(r) == r \in {"owner", "editor"}

\* find_member_for_principal: guests are no members.
Member(p) == IF p \in Users THEN members[p] ELSE "none"

-----------------------------------------------------------------------------
(* Calls *)

Idle == [op |-> "idle"]

Nobody == [u \in Users |-> "none"]

\* No join holds the board's mutex, and no delete.
Joining == {c \in Callers : call[c].op \in {"join", "look", "install"}}
Deleting == {c \in Callers : call[c].op \in {"delete", "close"}}

\* The board has not been created.
Init ==
    /\ who \in Parties
    /\ row = Nothing /\ members = Nobody /\ operations = {}
    /\ runtime = Nothing
    /\ role = [c \in Callers |-> "none"]
    /\ call = [c \in Callers |-> Idle]
    /\ writer = Nothing /\ readers = {}
    /\ calls = 0
    /\ agreed = Nothing /\ stale = FALSE /\ raced = FALSE /\ touched = {}
    /\ deletion = "none"

Counted == calls < MaxCalls /\ calls' = calls + 1

\* (Faulty: a shared lock where the code takes it alone.)
LockAloneShared(c) ==
    /\ writer = Nothing
    /\ readers' = readers \cup {c} /\ UNCHANGED writer

\* std::unique_lock
LockAlone(c) ==
    /\ writer = Nothing /\ readers = {}
    /\ writer' = c /\ UNCHANGED readers

\* std::shared_lock
LockShared(c) ==
    /\ writer = Nothing
    /\ readers' = readers \cup {c} /\ UNCHANGED writer

Unlock(c) ==
    /\ writer' = IF writer = c THEN Nothing ELSE writer
    /\ readers' = readers \ {c}

Starts(c, op, args) ==
    /\ call[c] = Idle
    /\ Counted
    /\ call' = [call EXCEPT ![c] = [op |-> op, args |-> args, board |-> row]]
    /\ UNCHANGED <<database, memory, history>>

Returns(c) ==
    /\ Unlock(c)
    /\ call' = [call EXCEPT ![c] = Idle]
    /\ UNCHANGED calls

\* A refusal, or a transaction that was rolled back.
Fails(c) == Returns(c) /\ UNCHANGED <<database, memory, history>>

\* The row was there and its owner makes the call.
Manages(c) ==
    /\ call[c].board # Nothing
    /\ ExistingRole(call[c].board, who[c], Member(who[c])) = "owner"

-----------------------------------------------------------------------------
(* create_board *)

\* One transaction inserts the board and the membership of its owner.  Nobody
\* knows the new identifier yet, so it is a single step.
CreateBoard(c, r) ==
    /\ call[c] = Idle /\ row = Nothing /\ agreed = Nothing
    /\ who[c] \in Users /\ Valid(r)
    /\ row' = [owner |-> who[c], settings |-> r, revision |-> 0]
    /\ members' = [members EXCEPT ![who[c]] = "owner"]
    /\ agreed' = r
    /\ UNCHANGED <<operations, memory, call, lock, calls, stale, raced, deletion, touched>>

-----------------------------------------------------------------------------
(* update_board_settings *)

UpdateSettings(c, r) ==
    /\ row # Nothing
    /\ LockAlone(c)
    /\ Starts(c, "settings", r)

\* (Faulty: a new password is hashed and forgotten.)
SavedButPassword(board, new) ==
    [board EXCEPT !.settings = [new EXCEPT !.password = board.settings.password]]

\* board_repository_.save writes the whole row as it was read, changed.
Saved(board, new) == [board EXCEPT !.settings = new]

Copied == runtime # Nothing \/ Joining # {}

SaveSettings(c) ==
    LET new == Changed(call[c].board.settings, call[c].args) IN
    /\ call[c].op = "settings"
    /\ Manages(c) /\ new # Nothing
    /\ row' = Saved(call[c].board, new)
    /\ agreed' = new
    /\ stale' = (stale \/ Copied)
    /\ Returns(c)
    /\ UNCHANGED <<members, operations, memory, raced, deletion, touched>>

SettingsRefused(c) == call[c].op = "settings" /\ Fails(c)

-----------------------------------------------------------------------------
(* upsert_board_member, remove_board_member *)

\* args is the role to give, "none" to remove the member.
UpdateMember(c, u, r) ==
    /\ row # Nothing
    /\ LockAlone(c)
    /\ Starts(c, "member", [user |-> u, role |-> r])

Touching(u) == {c \in Callers : role[c] # "none" /\ who[c] = u}

\* (Faulty: the row is written as it was read.)
TouchedWhole(board) == board

\* Only updated_at is written, and times are left out.
Touched(board) == row

\* The transactions of upsert_member_and_touch_board and of
\* remove_member_and_touch_board: the row keeps what it has, but for a time.
SaveMember(c) ==
    LET u == call[c].args.user
        r == call[c].args.role
    IN  /\ call[c].op = "member"
        /\ Manages(c)
        /\ r # "owner" /\ u # call[c].board.owner
        /\ row # Nothing
        /\ r = "none" => members[u] # "none"
        /\ row' = Touched(call[c].board)
        /\ members' = [members EXCEPT ![u] = r]
        /\ touched' = touched \cup Touching(u)
        /\ Returns(c)
        /\ UNCHANGED <<operations, memory, agreed, stale, raced, deletion>>

MemberRefused(c) == call[c].op = "member" /\ Fails(c)

-----------------------------------------------------------------------------
(* join_board and what the session does with its answer *)

StartJoin(c, password) ==
    /\ role[c] = "none" /\ row # Nothing
    /\ Deleting = {}
    /\ LockShared(c)
    /\ Starts(c, "join", password)

FindMember(c) ==
    /\ call[c].op = "join"
    /\ call' = [call EXCEPT ![c] = [op |-> "look", password |-> @.args, board |-> @.board,
                                    member |-> Member(who[c])]]
    /\ UNCHANGED <<database, memory, lock, calls, history>>

Granted(c) ==
    RoleForJoin(call[c].board, who[c], call[c].member, call[c].password)

JoinRefused(c) ==
    /\ call[c].op = "look"
    /\ Granted(c) = "none"
    /\ Fails(c)

\* The answer leaves the service, and the runtime may be made of it.
JoinGranted(c) ==
    /\ call[c].op = "look"
    /\ Granted(c) # "none"
    /\ Unlock(c)
    /\ role' = [role EXCEPT ![c] = Granted(c)]
    /\ touched' = touched \ {c}
    /\ call' = [call EXCEPT ![c] = [op |-> "install", board |-> @.board]]
    /\ UNCHANGED <<database, runtime, calls, agreed, stale, raced, deletion>>

\* get_or_create
Install(c) ==
    /\ call[c].op = "install"
    /\ runtime' = IF runtime = Nothing THEN call[c].board ELSE runtime
    /\ call' = [call EXCEPT ![c] = Idle]
    /\ UNCHANGED <<database, role, lock, calls, history>>

Leave(c) ==
    /\ call[c] = Idle /\ role[c] # "none"
    /\ role' = [role EXCEPT ![c] = "none"]
    /\ touched' = touched \ {c}
    /\ UNCHANGED <<database, runtime, call, lock, calls, agreed, stale, raced, deletion>>

-----------------------------------------------------------------------------
(* delete_board, under the board's own mutex *)

StartDelete(c) ==
    /\ row # Nothing
    /\ Joining = {} /\ Deleting = {}
    /\ LockAlone(c)
    /\ Starts(c, "delete", Nothing)

DeleteRows(c) ==
    /\ call[c].op = "delete"
    /\ Manages(c)
    /\ row' = Nothing /\ members' = Nobody /\ operations' = {}
    /\ deletion' = "done"
    /\ Unlock(c)
    /\ call' = [call EXCEPT ![c] = [op |-> "close"]]
    /\ UNCHANGED <<memory, calls, agreed, stale, raced, touched>>

\* The COMMIT takes effect and its answer is lost: the call fails, and the
\* runtime and the sessions stay on a board that has no rows.
DeleteLost(c) ==
    /\ call[c].op = "delete"
    /\ Manages(c)
    /\ row' = Nothing /\ members' = Nobody /\ operations' = {}
    /\ deletion' = "lost"
    /\ touched' = touched \cup {s \in Callers : role[s] # "none"}
    /\ Returns(c)
    /\ UNCHANGED <<memory, agreed, stale, raced>>

DeleteRefused(c) == call[c].op = "delete" /\ Fails(c)

\* close_board: the runtime is gone and every session is off the board.
Close(c) ==
    /\ call[c].op = "close"
    /\ runtime' = Nothing
    /\ role' = [s \in Callers |-> "none"]
    /\ touched' = {}
    /\ call' = [call EXCEPT ![c] = Idle]
    /\ UNCHANGED <<database, lock, calls, agreed, stale, raced, deletion>>

-----------------------------------------------------------------------------
(* Operations and restarts *)

\* persist_applied_operation writes the row from the copy of the runtime, and
\* inserts it if it is not there.
Persisted(board) == [board EXCEPT !.revision = @ + 1]

\* The primary key of the log refuses a revision that it has.
Operate(c) ==
    /\ call[c] = Idle
    /\ CanApplyOperation(role[c])
    /\ runtime # Nothing /\ Deleting = {}
    /\ runtime.revision < MaxOps
    /\ runtime.revision + 1 \notin operations
    /\ row' = Persisted(runtime)
    /\ operations' = operations \cup {runtime.revision + 1}
    /\ runtime' = [runtime EXCEPT !.revision = @ + 1]
    /\ raced' = (raced \/ \E s \in Callers : call[s].op = "settings")
    /\ UNCHANGED <<members, role, call, lock, calls, agreed, stale, deletion, touched>>

\* The server starts again; what is in the database is all there is.
Restart ==
    /\ runtime' = Nothing
    /\ role' = [c \in Callers |-> "none"]
    /\ call' = [c \in Callers |-> Idle]
    /\ writer' = Nothing /\ readers' = {}
    /\ touched' = {}
    /\ UNCHANGED <<database, calls, agreed, stale, raced, deletion>>

\* Nobody signs in as somebody else: that is the matter of Accounts.
Step ==
    \/ \E c \in Callers :
         \/ \E r \in CreateRequests : CreateBoard(c, r)
         \/ \E r \in Changes : UpdateSettings(c, r)
         \/ \E u \in Users, r \in Roles \cup {"none"} : UpdateMember(c, u, r)
         \/ \E p \in Passwords \cup {Nothing} : StartJoin(c, p)
         \/ SaveSettings(c) \/ SettingsRefused(c)
         \/ SaveMember(c) \/ MemberRefused(c)
         \/ FindMember(c) \/ JoinRefused(c) \/ JoinGranted(c) \/ Install(c) \/ Leave(c)
         \/ StartDelete(c) \/ DeleteRows(c) \/ DeleteLost(c) \/ DeleteRefused(c) \/ Close(c)
         \/ Operate(c)
    \/ Restart

Next == Step /\ UNCHANGED who

Spec == Init /\ [][Next]_vars

-----------------------------------------------------------------------------
(* Properties *)

\* A board is never protected without a password or open to guests without
\* protection, in the row as in the copy, whatever sequence of changes was
\* asked for; and what a session may do is one of the three roles.
TypeOK ==
    /\ row \in Boards \cup {Nothing} /\ runtime \in Boards \cup {Nothing}
    /\ members \in [Users -> Roles \cup {"none"}]
    /\ role \in [Callers -> Roles \cup {"none"}]
    /\ operations \subseteq 1..MaxOps
    /\ writer # Nothing => readers = {}

\* A deletion takes the members and the log along, and once it is answered no
\* call that had read the row, and no operation, brings it back.  Nobody but
\* the owner of a board is a member as its owner, and its owner is, unless a
\* deletion was answered by an error although it took effect: the next
\* operation then inserts the row again, and nothing inserts the members.
DeletedLeavesNothing ==
    /\ row = Nothing => members = Nobody /\ operations = {}
    /\ deletion = "done" => row = Nothing
    /\ row # Nothing =>
         /\ \A u \in Users : members[u] = "owner" => u = row.owner
         /\ deletion = "none" => members[row.owner] = "owner"

\* A session acts by the role that its user's membership gives, unless the
\* membership was changed after the session had joined: joins and changes of
\* membership do not slip past each other.
CachedRoleIsCurrent ==
    \A c \in Callers :
        role[c] # "none" /\ c \notin touched /\ row # Nothing =>
            LET existing == ExistingRole(row, who[c], Member(who[c])) IN
            IF existing # "none" THEN role[c] = existing
            ELSE who[c] \in Users => role[c] = "viewer"

\* What is in the row is what was agreed last, as long as nobody had a copy of
\* the row when it was agreed.
SettingsStayAtRest ==
    row # Nothing /\ ~stale => row.settings = agreed

\* The row knows of every operation in the log, so that after a restart the
\* next revision is free, unless an operation was applied between the read and
\* the save of a change of settings.
RevisionCoversLog ==
    row # Nothing /\ ~raced => \A n \in operations : n <= row.revision

=============================================================================
