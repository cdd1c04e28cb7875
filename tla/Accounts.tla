------------------------------ MODULE Accounts ------------------------------
(***************************************************************************)
(* Who a connection belongs to: AuthService with the rows of users and of  *)
(* their sessions, the requests that give a connection its principal, and  *)
(* the list of participants, which knows people by that principal.         *)
(*                                                                         *)
(* Registration writes two rows by two statements, each of which may fail, *)
(* or take effect while its answer is lost.  The server may restart at any *)
(* time; the rows stay.  Identifiers and tokens are numbers drawn from     *)
(* counters that begin again with the process, behind a prefix that is     *)
(* drawn anew; prefixes of different processes are taken to differ.  Names *)
(* to display are left out, and a password is its own hash, as a token is. *)
(*                                                                         *)
(* There is one board.  Joining and leaving it are single steps: what goes *)
(* on inside them is the matter of BoardServer, where each session has a   *)
(* principal of its own.  Here several may have the same, and one session  *)
(* several in turn.                                                        *)
(***************************************************************************)
EXTENDS Naturals

CONSTANTS
    Connections,    \* sessions of clients, each with one request at a time
    Logins,         \* names that people register under
    Passwords,      \* passwords
    Nothing,        \* no principal, nobody
    Lifetime,       \* how long a session lasts: 24 hours
    MaxIds,         \* bound: identifiers that one process draws
    MaxBoots,       \* bound: processes
    MaxTime         \* bound: the clock

Serials == Nat \X Nat

Principals == {"user", "guest"} \X Serials

ASSUME NothingAssumption == Nothing \notin Connections \cup Principals

ASSUME LifetimeAssumption == Lifetime \in Nat

VARIABLES
    users,          \* rows of users
    sessions,       \* rows of auth_sessions
    boot,           \* the prefix of the process
    ids,            \* counter of the generator of identifiers
    tokens,         \* counter of the generator of tokens
    now,            \* the clock
    holder,         \* who holds the mutex of AuthService alone
    call,           \* what each connection is doing
    principal,      \* principal_ of each connection
    as,             \* the principal it joined the board with
    listed,         \* active participants of the board
    stopped,        \* stopped_ of each session: its connection has ended
    given,          \* history: what was answered to those who came in
    taken,          \* history: logins that somebody was told are taken
    forsaken        \* history: who was left behind, see NobodyLeftBehind

vars == <<users, sessions, boot, ids, tokens, now, holder, call, principal, as, listed,
          stopped, given, taken, forsaken>>

rows == <<users, sessions>>
process == <<boot, now>>
counters == <<ids, tokens>>
board == <<as, listed, stopped, forsaken>>

-----------------------------------------------------------------------------
(* Identifiers *)

\* (Faulty: the counter alone.)
SerialOfCounter(n) == <<0, n + 1>>

\* The number that a counter at n gives next: prefix_ and counter_.
Serial(n) == <<boot, n + 1>>

NextId == Serial(ids)
NextToken == Serial(tokens)

-----------------------------------------------------------------------------
(* Rows *)

User(id, login, password) == [id |-> id, login |-> login, password |-> password]

Session(user, expires) ==
    [id |-> NextId, user |-> user, token |-> NextToken, expires |-> expires]

\* The primary key of users, and its UNIQUE login.
Insertable(u) == \A v \in users : v.id # u.id /\ v.login # u.login

\* UNIQUE (token_hash), for a row that replaces the one of its identifier.
Savable(s) == \A t \in sessions : t.id = s.id \/ t.token # s.token

\* INSERT ... ON CONFLICT (id) DO UPDATE
Upserted(s) == {t \in sessions : t.id # s.id} \cup {s}

-----------------------------------------------------------------------------
(* Requests *)

Idle == [at |-> "none"]

\* A call of the service ends, and unique_lock gives the mutex back.
Return(c) ==
    /\ call' = [call EXCEPT ![c] = Idle]
    /\ holder' = Nothing

Answered(c) == [login |-> call[c].login, password |-> call[c].password,
                user |-> call[c].user, token |-> NextToken, expires |-> call[c].expires]

\* register_user draws the user's identifier and reads the clock.
Register(c) ==
    /\ call[c] = Idle
    /\ holder = Nothing
    /\ ids < MaxIds
    /\ \E login \in Logins, password \in Passwords :
           call' = [call EXCEPT ![c] =
               [at |-> "user", user |-> NextId, login |-> login, password |-> password,
                expires |-> now + Lifetime]]
    /\ holder' = c
    /\ ids' = ids + 1
    /\ UNCHANGED <<rows, process, tokens, principal, board, given, taken>>

\* PostgresUserRepository::create
CreateUser(c) ==
    LET u == User(call[c].user, call[c].login, call[c].password) IN
    /\ call[c].at = "user"
    /\ Insertable(u)
    /\ users' = users \cup {u}
    /\ \/ /\ call' = [call EXCEPT ![c].at = "session"]
          /\ UNCHANGED holder
       \/ Return(c)                         \* the answer of the database is lost
    /\ UNCHANGED <<sessions, process, counters, principal, board, given, taken>>

\* SQLSTATE 23505, whichever constraint it was.
LoginTaken(c) ==
    /\ call[c].at = "user"
    /\ ~Insertable(User(call[c].user, call[c].login, call[c].password))
    /\ taken' = taken \cup {call[c].login}
    /\ Return(c)
    /\ UNCHANGED <<rows, process, counters, principal, board, given>>

\* login: the user is found and the password is right.
Login(c) ==
    /\ call[c] = Idle
    /\ holder = Nothing
    /\ ids < MaxIds
    /\ \E u \in users :
           call' = [call EXCEPT ![c] =
               [at |-> "session", user |-> u.id, login |-> u.login, password |-> u.password,
                expires |-> now + Lifetime]]
    /\ holder' = c
    /\ UNCHANGED <<rows, process, counters, principal, board, given, taken>>

\* save_auth_session, and the answer to who registered or logged in.
SaveSession(c) ==
    LET s == Session(call[c].user, call[c].expires) IN
    /\ call[c].at = "session"
    /\ ids < MaxIds
    /\ Savable(s)
    /\ sessions' = Upserted(s)
    /\ \/ /\ principal' = [principal EXCEPT ![c] = <<"user", call[c].user>>]
          /\ given' = given \cup {Answered(c)}
       \/ UNCHANGED <<principal, given>>    \* the answer of the database is lost
    /\ Return(c)
    /\ ids' = ids + 1
    /\ tokens' = tokens + 1
    /\ UNCHANGED <<users, process, board, taken>>

\* A statement fails: the handler answers with an error.
StatementFails(c) ==
    /\ call[c].at \in {"user", "session"}
    /\ Return(c)
    /\ UNCHANGED <<rows, process, counters, principal, board, given, taken>>

\* enter_guest
EnterGuest(c) ==
    /\ call[c] = Idle
    /\ holder = Nothing
    /\ ids < MaxIds
    /\ principal' = [principal EXCEPT ![c] = <<"guest", NextId>>]
    /\ ids' = ids + 1
    /\ UNCHANGED <<rows, process, tokens, holder, call, board, given, taken>>

\* restore_session: a token that somebody was given, before it expires.
RestoreSession(c) ==
    /\ call[c] = Idle
    /\ holder = Nothing
    /\ \E g \in given, s \in sessions :
           /\ s.token = g.token
           /\ ~(s.expires < now)
           /\ call' = [call EXCEPT ![c] = [at |-> "restore", user |-> s.user, token |-> g.token]]
    /\ UNCHANGED <<rows, process, counters, holder, principal, board, given, taken>>

\* The handler then looks for the user, with no mutex.
RestoreUser(c) ==
    /\ call[c].at = "restore"
    /\ \/ /\ \E u \in users : u.id = call[c].user
          /\ principal' = [principal EXCEPT ![c] = <<"user", call[c].user>>]
       \/ UNCHANGED principal               \* the statement fails
    /\ call' = [call EXCEPT ![c] = Idle]
    /\ UNCHANGED <<rows, process, counters, holder, board, given, taken>>

-----------------------------------------------------------------------------
(* The board *)

\* leave_current_board: the participants that stay.
Left(c) == IF as[c] = Nothing THEN listed ELSE listed \ {principal[c]}

\* Whoever is still listed although the session that joined as them left.
LeftBehind(c) ==
    CASE as[c] = Nothing -> forsaken
      [] as[c] = principal[c] -> forsaken \ {principal[c]}
      [] OTHER -> (forsaken \cup {as[c]}) \ {principal[c]}

\* handle_join_board leaves the board the session is on; then the join is
\* granted or refused.
JoinBoard(c) ==
    /\ call[c] = Idle
    /\ principal[c] # Nothing
    /\ \/ /\ as' = [as EXCEPT ![c] = principal[c]]
          /\ listed' = Left(c) \cup {principal[c]}
          /\ forsaken' = LeftBehind(c) \ {principal[c]}
       \/ /\ as[c] # Nothing
          /\ as' = [as EXCEPT ![c] = Nothing]
          /\ listed' = Left(c)
          /\ forsaken' = LeftBehind(c)
    /\ UNCHANGED <<rows, process, counters, holder, call, principal, stopped, given, taken>>

LeaveBoard(c) ==
    /\ call[c] = Idle
    /\ as[c] # Nothing
    /\ as' = [as EXCEPT ![c] = Nothing]
    /\ listed' = Left(c)
    /\ forsaken' = LeftBehind(c)
    /\ UNCHANGED <<rows, process, counters, holder, call, principal, stopped, given, taken>>

\* (Faulty: the board is forgotten without being left.)
DisconnectSocket(c) ==
    /\ call[c] = Idle
    /\ ~stopped[c]
    /\ stopped' = [stopped EXCEPT ![c] = TRUE]
    /\ as' = [as EXCEPT ![c] = Nothing]
    /\ UNCHANGED <<rows, process, counters, holder, call, principal, listed, forsaken,
                   given, taken>>

\* cleanup.  Requests that were read before it are handled after it, like any.
Disconnect(c) ==
    /\ call[c] = Idle
    /\ ~stopped[c]
    /\ stopped' = [stopped EXCEPT ![c] = TRUE]
    /\ as' = [as EXCEPT ![c] = Nothing]
    /\ listed' = Left(c)
    /\ forsaken' = LeftBehind(c)
    /\ UNCHANGED <<rows, process, counters, holder, call, principal, given, taken>>

\* The next read fails, and the session is destroyed without leaving a board
\* that it joined meanwhile; the client may come back, by a connection of
\* nobody yet.
Expire(c) ==
    /\ call[c] = Idle
    /\ stopped[c]
    /\ stopped' = [stopped EXCEPT ![c] = FALSE]
    /\ as' = [as EXCEPT ![c] = Nothing]
    /\ forsaken' = forsaken \cup ({as[c]} \ {Nothing})
    /\ principal' = [principal EXCEPT ![c] = Nothing]
    /\ UNCHANGED <<rows, process, counters, holder, call, listed, given, taken>>

-----------------------------------------------------------------------------
(* The world *)

Tick ==
    /\ now < MaxTime
    /\ now' = now + 1
    /\ UNCHANGED <<rows, boot, counters, holder, call, principal, board, given, taken>>

\* A new process: a new prefix, counters at their start, nobody connected.
Restart ==
    /\ boot < MaxBoots
    /\ boot' = boot + 1
    /\ ids' = 0
    /\ tokens' = 0
    /\ holder' = Nothing
    /\ call' = [c \in Connections |-> Idle]
    /\ principal' = [c \in Connections |-> Nothing]
    /\ as' = [c \in Connections |-> Nothing]
    /\ listed' = {}
    /\ stopped' = [c \in Connections |-> FALSE]
    /\ forsaken' = {}
    /\ UNCHANGED <<rows, now, given, taken>>

Init ==
    /\ users = {}
    /\ sessions = {}
    /\ boot = 1
    /\ ids = 0
    /\ tokens = 0
    /\ now = 0
    /\ holder = Nothing
    /\ call = [c \in Connections |-> Idle]
    /\ principal = [c \in Connections |-> Nothing]
    /\ as = [c \in Connections |-> Nothing]
    /\ listed = {}
    /\ stopped = [c \in Connections |-> FALSE]
    /\ given = {}
    /\ taken = {}
    /\ forsaken = {}

Next ==
    \/ Tick
    \/ Restart
    \/ \E c \in Connections :
           \/ Register(c) \/ CreateUser(c) \/ LoginTaken(c)
           \/ Login(c) \/ SaveSession(c) \/ StatementFails(c)
           \/ EnterGuest(c)
           \/ RestoreSession(c) \/ RestoreUser(c)
           \/ JoinBoard(c) \/ LeaveBoard(c) \/ Disconnect(c) \/ Expire(c)

Spec == Init /\ [][Next]_vars

-----------------------------------------------------------------------------
(* Correctness *)

UserRows == [id : Serials, login : Logins, password : Passwords]

Calls ==
    {Idle}
      \cup [at : {"user", "session"}, user : Serials, login : Logins,
            password : Passwords, expires : Nat]
      \cup [at : {"restore"}, user : Serials, token : Serials]

\* Rows, calls and principals are of their types, and the mutex is held by
\* the one call that writes.
TypeOK ==
    /\ users \subseteq UserRows
    /\ sessions \subseteq [id : Serials, user : Serials, token : Serials, expires : Nat]
    /\ boot \in Nat /\ ids \in Nat /\ tokens \in Nat /\ now \in Nat
    /\ holder \in Connections \cup {Nothing}
    /\ call \in [Connections -> Calls]
    /\ principal \in [Connections -> Principals \cup {Nothing}]
    /\ as \in [Connections -> Principals \cup {Nothing}]
    /\ listed \subseteq Principals /\ forsaken \subseteq Principals
    /\ stopped \in [Connections -> BOOLEAN]
    /\ given \subseteq [login : Logins, password : Passwords, user : Serials,
                        token : Serials, expires : Nat]
    /\ taken \subseteq Logins
    /\ \A c \in Connections : call[c].at \in {"user", "session"} <=> holder = c

\* What was answered to somebody who registered or logged in stays true,
\* through failed statements and restarts: the login and the password are
\* those of that user, and of no other; the token is in the rows with that
\* user and that time, and in one row only.
PromisesKept ==
    \A g \in given :
        /\ \A u \in users : u.login = g.login <=> u.id = g.user
        /\ User(g.user, g.login, g.password) \in users
        /\ \E s \in sessions : s.token = g.token
        /\ \A s \in sessions : s.token = g.token => s.user = g.user /\ s.expires = g.expires

\* Who was told that a login is taken was told the truth.  A unique violation
\* of the identifier is answered in the same words, so this rests on every
\* identifier being new, across restarts too.
TakenIsTaken == \A login \in taken : \E u \in users : u.login = login

\* Everybody in the list of participants is on the board, or was left behind
\* in one of two ways: by a session that came to belong to somebody else while
\* it was there, since leave_participant is then told of the new principal and
\* the old one stays; or by one that joined after its connection had ended, and
\* was destroyed.
NobodyLeftBehind == listed \subseteq {as[c] : c \in Connections} \cup forsaken

=============================================================================
