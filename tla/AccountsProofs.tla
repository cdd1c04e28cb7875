--------------------------- MODULE AccountsProofs ---------------------------
(***************************************************************************)
(* Proofs about Accounts.  All that was answered rests on identifiers and  *)
(* tokens being new whenever they are drawn, so the inductive invariant    *)
(* says which were drawn already: those of earlier processes, and those up *)
(* to the counters.                                                        *)
(***************************************************************************)
EXTENDS Accounts, TLAPS

\* Drawn by an earlier process, or by this one.
Drawn(serial, counter) ==
    \/ serial[1] < boot
    \/ serial[1] = boot /\ serial[2] <= counter

\* Whatever is named was drawn.
NamesAreDrawn ==
    /\ \A u \in users : Drawn(u.id, ids)
    /\ \A s \in sessions : Drawn(s.id, ids) /\ Drawn(s.token, tokens)
    /\ \A g \in given : Drawn(g.token, tokens)
    /\ \A c \in Connections : call[c].at = "user" => Drawn(call[c].user, ids)

\* The primary key and the UNIQUE column of users.
UsersDiffer ==
    \A u, v \in users : u.id = v.id \/ u.login = v.login => u = v

\* Who is about to get a row has an identifier that no row has.
NewcomersAreNew ==
    \A c \in Connections : call[c].at = "user" => \A u \in users : u.id # call[c].user

\* Who is about to get a session has a row.
CallersHaveRows ==
    \A c \in Connections : call[c].at = "session" =>
        User(call[c].user, call[c].login, call[c].password) \in users

IInv ==
    /\ TypeOK
    /\ NamesAreDrawn
    /\ UsersDiffer
    /\ NewcomersAreNew
    /\ CallersHaveRows
    /\ PromisesKept
    /\ TakenIsTaken

-----------------------------------------------------------------------------

\* The numbers a counter gives next are none of those drawn.
LEMMA NextIsNew ==
    ASSUME boot \in Nat, NEW n \in Nat, NEW i \in Serials, Drawn(i, n)
    PROVE  i # Serial(n) /\ Serial(n) \in Serials
  BY DEF Drawn, Serial, Serials

-----------------------------------------------------------------------------
(* Types *)

LEMMA InitTypeOK == Init => TypeOK
  BY NothingAssumption DEF Init, TypeOK, Calls, Idle

LEMMA NextTypeOK == TypeOK /\ [Next]_vars => TypeOK'
  <1> SUFFICES ASSUME TypeOK, [Next]_vars PROVE TypeOK'
    OBVIOUS
  <1> USE NothingAssumption, LifetimeAssumption
  <1>1. CASE UNCHANGED vars
    BY <1>1 DEF TypeOK, vars, User
  <1>2. CASE Tick
    <2>1. now' \in Nat
      BY <1>2 DEF TypeOK, Tick
    <2>2. UNCHANGED <<users, sessions, boot, ids, tokens, holder, call, principal, as,
                      listed, stopped, forsaken, given, taken>>
      BY <1>2 DEF Tick, rows, counters, board
    <2> QED
      BY <2>1, <2>2 DEF TypeOK
  <1>3. CASE Restart
    BY <1>3 DEF TypeOK, Restart, rows, Calls, Idle
  <1>4. ASSUME NEW c \in Connections, Register(c) PROVE TypeOK'
    <2>1. NextId \in Serials /\ now + Lifetime \in Nat
      BY DEF TypeOK, NextId, Serial, Serials
    <2>2. call' \in [Connections -> Calls]
      BY <1>4, <2>1 DEF TypeOK, Register, Calls
    <2>3. \A d \in Connections : call'[d].at \in {"user", "session"} <=> holder' = d
      BY <1>4 DEF TypeOK, Register
    <2>4. holder' \in Connections \cup {Nothing} /\ ids' \in Nat
      BY <1>4 DEF TypeOK, Register
    <2>5. UNCHANGED <<users, sessions, boot, tokens, now, principal, as, listed, stopped,
                      forsaken, given, taken>>
      BY <1>4 DEF Register, rows, process, board
    <2> QED
      BY <2>2, <2>3, <2>4, <2>5 DEF TypeOK
  <1>5. ASSUME NEW c \in Connections, CreateUser(c) PROVE TypeOK'
    <2>1. call[c] \in [at : {"user", "session"}, user : Serials, login : Logins,
                       password : Passwords, expires : Nat]
      BY <1>5 DEF TypeOK, Calls, CreateUser, Idle
    <2>2. users' \subseteq UserRows
      BY <1>5, <2>1 DEF TypeOK, CreateUser, UserRows, User
    <2>3. call' \in [Connections -> Calls]
      BY <1>5, <2>1 DEF TypeOK, CreateUser, Return, Calls
    <2>4. /\ holder' \in Connections \cup {Nothing}
          /\ \A d \in Connections : call'[d].at \in {"user", "session"} <=> holder' = d
      <3>1. call[c].at = "user" /\ holder = c
        BY <1>5 DEF TypeOK, CreateUser
      <3>2. CASE call' = [call EXCEPT ![c].at = "session"] /\ holder' = holder
        <4>1. call'[c].at = "session"
          BY <2>1, <3>2 DEF TypeOK
        <4> QED
          BY <3>1, <3>2, <4>1 DEF TypeOK
      <3>3. CASE Return(c)
        BY <3>1, <3>3 DEF TypeOK, Return, Idle
      <3> QED
        BY <1>5, <3>2, <3>3 DEF CreateUser
    <2>5. UNCHANGED <<sessions, boot, ids, tokens, now, principal, as, listed, stopped,
                      forsaken, given, taken>>
      <3>1. UNCHANGED <<sessions, process, counters, principal, board, given, taken>>
        BY <1>5 DEF CreateUser
      <3> QED
        BY <3>1 DEF process, counters, board
    <2> QED
      <3>1. /\ sessions' \subseteq [id : Serials, user : Serials, token : Serials, expires : Nat]
            /\ given' \subseteq [login : Logins, password : Passwords, user : Serials,
                                 token : Serials, expires : Nat]
        BY <2>5 DEF TypeOK
      <3>2. /\ boot' \in Nat /\ ids' \in Nat /\ tokens' \in Nat /\ now' \in Nat
            /\ principal' \in [Connections -> Principals \cup {Nothing}]
            /\ as' \in [Connections -> Principals \cup {Nothing}]
            /\ listed' \subseteq Principals /\ forsaken' \subseteq Principals
            /\ stopped' \in [Connections -> BOOLEAN]
            /\ taken' \subseteq Logins
        BY <2>5 DEF TypeOK
      <3> QED
        BY <2>2, <2>3, <2>4, <3>1, <3>2 DEF TypeOK
  <1>6. ASSUME NEW c \in Connections, LoginTaken(c) PROVE TypeOK'
    <2>1. call[c].login \in Logins
      BY <1>6 DEF TypeOK, Calls, LoginTaken, Idle
    <2> QED
      BY <1>6, <2>1 DEF TypeOK, LoginTaken, Return, Calls, Idle, rows, process, counters, board
  <1>7. ASSUME NEW c \in Connections, Login(c) PROVE TypeOK'
    <2>1. now + Lifetime \in Nat
      BY DEF TypeOK
    <2>2. call' \in [Connections -> Calls]
      BY <1>7, <2>1 DEF TypeOK, Login, Calls, UserRows
    <2>3. \A d \in Connections : call'[d].at \in {"user", "session"} <=> holder' = d
      BY <1>7 DEF TypeOK, Login
    <2> QED
      BY <1>7, <2>2, <2>3 DEF TypeOK, Login, rows, process, counters, board
  <1>8. ASSUME NEW c \in Connections, SaveSession(c) PROVE TypeOK'
    <2>1. call[c] \in [at : {"user", "session"}, user : Serials, login : Logins,
                       password : Passwords, expires : Nat]
      BY <1>8 DEF TypeOK, Calls, SaveSession, Idle
    <2>2. NextId \in Serials /\ NextToken \in Serials
      BY DEF TypeOK, NextId, NextToken, Serial, Serials
    <2>3. sessions' \subseteq [id : Serials, user : Serials, token : Serials, expires : Nat]
      BY <1>8, <2>1, <2>2 DEF TypeOK, SaveSession, Upserted, Session
    <2>4. given' \subseteq [login : Logins, password : Passwords, user : Serials,
                            token : Serials, expires : Nat]
      BY <1>8, <2>1, <2>2 DEF TypeOK, SaveSession, Answered
    <2>5. principal' \in [Connections -> Principals \cup {Nothing}]
      BY <1>8, <2>1 DEF TypeOK, SaveSession, Principals
    <2>6. /\ call' \in [Connections -> Calls]
          /\ holder' \in Connections \cup {Nothing}
          /\ \A d \in Connections : call'[d].at \in {"user", "session"} <=> holder' = d
      BY <1>8 DEF TypeOK, SaveSession, Return, Calls, Idle
    <2>7. UNCHANGED <<users, boot, now, as, listed, stopped, forsaken, taken>>
      BY <1>8 DEF SaveSession, process, board
    <2>8. ids' \in Nat /\ tokens' \in Nat
      BY <1>8 DEF TypeOK, SaveSession
    <2> QED
      BY <2>3, <2>4, <2>5, <2>6, <2>7, <2>8 DEF TypeOK
  <1>9. ASSUME NEW c \in Connections, StatementFails(c) PROVE TypeOK'
    BY <1>9 DEF TypeOK, StatementFails, Return, Calls, Idle, rows, process, counters, board
  <1>10. ASSUME NEW c \in Connections, EnterGuest(c) PROVE TypeOK'
    <2>1. NextId \in Serials
      BY DEF TypeOK, NextId, Serial, Serials
    <2>2. principal' \in [Connections -> Principals \cup {Nothing}]
      BY <1>10, <2>1 DEF TypeOK, EnterGuest, Principals
    <2>3. ids' \in Nat
      BY <1>10 DEF TypeOK, EnterGuest
    <2>4. UNCHANGED <<users, sessions, boot, tokens, now, holder, call, as, listed,
                      stopped, forsaken, given, taken>>
      BY <1>10 DEF EnterGuest, rows, process, board
    <2> QED
      BY <2>2, <2>3, <2>4 DEF TypeOK
  <1>11. ASSUME NEW c \in Connections, RestoreSession(c) PROVE TypeOK'
    <2>1. call' \in [Connections -> Calls]
      BY <1>11 DEF TypeOK, RestoreSession, Calls
    <2>2. \A d \in Connections : call'[d].at \in {"user", "session"} <=> holder' = d
      BY <1>11 DEF TypeOK, RestoreSession
    <2> QED
      BY <1>11, <2>1, <2>2 DEF TypeOK, RestoreSession, rows, process, counters, board
  <1>12. ASSUME NEW c \in Connections, RestoreUser(c) PROVE TypeOK'
    <2>1. call[c].user \in Serials
      BY <1>12 DEF TypeOK, Calls, RestoreUser, Idle
    <2>2. principal' \in [Connections -> Principals \cup {Nothing}]
      BY <1>12, <2>1 DEF TypeOK, RestoreUser, Principals
    <2>3. /\ call' \in [Connections -> Calls]
          /\ \A d \in Connections : call'[d].at \in {"user", "session"} <=> holder' = d
      BY <1>12 DEF TypeOK, RestoreUser, Calls, Idle
    <2> QED
      BY <1>12, <2>2, <2>3 DEF TypeOK, RestoreUser, rows, process, counters, board
  <1>13. ASSUME NEW c \in Connections,
                JoinBoard(c) \/ LeaveBoard(c) \/ Disconnect(c) \/ Expire(c)
         PROVE  TypeOK'
    <2>1. LeftBehind(c) \subseteq Principals /\ Left(c) \subseteq Principals
      <3>1. as[c] \in Principals \cup {Nothing}
        BY DEF TypeOK
      <3> QED
        BY <3>1 DEF TypeOK, LeftBehind, Left
    <2>2. principal[c] \in Principals \cup {Nothing}
      BY DEF TypeOK
    <2>3. CASE JoinBoard(c)
      BY <2>1, <2>2, <2>3 DEF TypeOK, JoinBoard, rows, process, counters
    <2>4. CASE LeaveBoard(c)
      BY <2>1, <2>4 DEF TypeOK, LeaveBoard, rows, process, counters
    <2>5. CASE Disconnect(c)
      BY <2>1, <2>5 DEF TypeOK, Disconnect, rows, process, counters
    <2>6. CASE Expire(c)
      BY <2>6 DEF TypeOK, Expire, rows, process, counters
    <2> QED
      BY <1>13, <2>3, <2>4, <2>5, <2>6
  <1> QED
    BY <1>1, <1>2, <1>3, <1>4, <1>5, <1>6, <1>7, <1>8, <1>9, <1>10, <1>11, <1>12, <1>13
    DEF Next

\* Rows, calls and principals are of their types, and at most one call of
\* the service writes at a time: unique_lock in every call that does.
THEOREM TypeCorrect == Spec => []TypeOK
  BY InitTypeOK, NextTypeOK, PTL DEF Spec

-----------------------------------------------------------------------------
(* Names and rows *)

LEMMA InitIInv == Init => IInv
  BY InitTypeOK
  DEF Init, IInv, NamesAreDrawn, UsersDiffer, NewcomersAreNew, CallersHaveRows,
      PromisesKept, TakenIsTaken, Idle

\* Counters only grow, and a process has a prefix that is new.
LEMMA DrawnStays ==
    ASSUME TypeOK, [Next]_vars, NEW i \in Serials
    PROVE  /\ Drawn(i, ids) => Drawn(i, ids)'
           /\ Drawn(i, tokens) => Drawn(i, tokens)'
  <1>1. \/ boot' = boot /\ ids' >= ids /\ tokens' >= tokens
        \/ boot' = boot + 1
    <2>1. CASE UNCHANGED vars
      BY <2>1 DEF TypeOK, vars
    <2>4. CASE Tick
      BY <2>4 DEF TypeOK, Tick, counters
    <2>5. CASE Restart
      BY <2>5 DEF Restart
    <2>2. ASSUME NEW c \in Connections, Register(c) \/ SaveSession(c) \/ EnterGuest(c)
          PROVE  boot' = boot /\ ids' >= ids /\ tokens' >= tokens
      BY <2>2 DEF TypeOK, Register, SaveSession, EnterGuest, process
    <2>3. ASSUME NEW c \in Connections,
                 CreateUser(c) \/ LoginTaken(c) \/ Login(c) \/ StatementFails(c)
                   \/ RestoreSession(c) \/ RestoreUser(c) \/ JoinBoard(c) \/ LeaveBoard(c)
                   \/ Disconnect(c) \/ Expire(c)
          PROVE  boot' = boot /\ ids' >= ids /\ tokens' >= tokens
      <3>1. UNCHANGED <<process, counters>>
        BY <2>3 DEF CreateUser, LoginTaken, Login, StatementFails, RestoreSession, RestoreUser,
           JoinBoard, LeaveBoard, Disconnect, Expire
      <3> QED
        BY <3>1 DEF TypeOK, process, counters
    <2> QED
      BY <2>1, <2>2, <2>3, <2>4, <2>5 DEF Next
  <1>2. /\ boot \in Nat /\ ids \in Nat /\ tokens \in Nat
        /\ ids' \in Nat /\ tokens' \in Nat
        /\ i[1] \in Nat /\ i[2] \in Nat
    BY NextTypeOK DEF TypeOK, Serials
  <1> QED
    BY <1>1, <1>2 DEF Drawn

\* Steps that add no row and start no registration or login.
Others ==
    \/ UNCHANGED vars
    \/ Tick
    \/ Restart
    \/ \E c \in Connections :
           \/ StatementFails(c) \/ EnterGuest(c) \/ RestoreSession(c) \/ RestoreUser(c)
           \/ JoinBoard(c) \/ LeaveBoard(c) \/ Disconnect(c) \/ Expire(c)

LEMMA OthersAreQuiet ==
    ASSUME TypeOK, Others
    PROVE  /\ UNCHANGED <<users, sessions, given, taken>>
           /\ \A d \in Connections : call'[d] = call[d] \/ call'[d].at \in {"none", "restore"}
  <1>1. CASE UNCHANGED vars
    BY <1>1 DEF vars
  <1>2. CASE Tick
    BY <1>2 DEF Tick, rows
  <1>3. CASE Restart
    BY <1>3 DEF Restart, rows, Idle
  <1>4. ASSUME NEW c \in Connections, StatementFails(c) \/ RestoreSession(c) \/ RestoreUser(c)
        PROVE  /\ UNCHANGED <<users, sessions, given, taken>>
               /\ \A d \in Connections :
                      call'[d] = call[d] \/ call'[d].at \in {"none", "restore"}
    BY <1>4 DEF TypeOK, StatementFails, RestoreSession, RestoreUser, Return, Idle, rows
  <1>5. ASSUME NEW c \in Connections,
               EnterGuest(c) \/ JoinBoard(c) \/ LeaveBoard(c) \/ Disconnect(c)
                 \/ Expire(c)
        PROVE  UNCHANGED <<users, sessions, given, taken, call>>
    BY <1>5 DEF EnterGuest, JoinBoard, LeaveBoard, Disconnect, Expire, rows
  <1> QED
    BY <1>1, <1>2, <1>3, <1>4, <1>5 DEF Others

LEMMA NextCases ==
    ASSUME [Next]_vars
    PROVE  \/ Others
           \/ \E c \in Connections :
                  Register(c) \/ CreateUser(c) \/ LoginTaken(c) \/ Login(c) \/ SaveSession(c)
  BY DEF Next, Others

\* A user about to be written has a login and an identifier of its own, and
\* the rest of the call is as it was.
LEMMA AboutToWrite ==
    ASSUME TypeOK, NEW c \in Connections, call[c].at \in {"user", "session"}
    PROVE  /\ call[c] \in [at : {"user", "session"}, user : Serials, login : Logins,
                            password : Passwords, expires : Nat]
           /\ \A d \in Connections : call[d].at \in {"user", "session"} => d = c
  BY DEF TypeOK, Calls, Idle

LEMMA NextNames == IInv /\ [Next]_vars => NamesAreDrawn'
  <1> SUFFICES ASSUME IInv, [Next]_vars PROVE NamesAreDrawn'
    OBVIOUS
  <1>1. TypeOK /\ TypeOK' /\ NamesAreDrawn
    BY NextTypeOK DEF IInv
  <1>2. \A i \in Serials : /\ Drawn(i, ids) => Drawn(i, ids)'
                           /\ Drawn(i, tokens) => Drawn(i, tokens)'
    BY <1>1, DrawnStays
  <1>3. /\ \A u \in users : u.id \in Serials
        /\ \A s \in sessions : s.id \in Serials /\ s.token \in Serials
        /\ \A g \in given : g.token \in Serials
    BY <1>1 DEF TypeOK, UserRows
  <1>4. \A d \in Connections : call[d].at = "user" => call[d].user \in Serials
    BY <1>1, AboutToWrite
  <1>5. CASE Others
    BY <1>1, <1>2, <1>3, <1>4, <1>5, OthersAreQuiet DEF NamesAreDrawn
  <1>6. ASSUME NEW c \in Connections, Register(c) PROVE NamesAreDrawn'
    <2>1. UNCHANGED <<users, sessions, given>>
      BY <1>6 DEF Register, rows
    <2>2. \A d \in Connections : d # c => call'[d] = call[d]
      BY <1>1, <1>6 DEF TypeOK, Register
    <2>3. call'[c].user = <<boot, ids + 1>>
      BY <1>1, <1>6 DEF TypeOK, Register, NextId, Serial
    <2>4. boot' = boot /\ ids' = ids + 1
      BY <1>6 DEF Register, process
    <2>5. Drawn(call[c].user, ids)'
      BY <1>1, <2>3, <2>4 DEF TypeOK, Drawn
    <2> QED
      BY <1>1, <1>2, <1>3, <1>4, <2>1, <2>2, <2>5 DEF NamesAreDrawn
  <1>7. ASSUME NEW c \in Connections, CreateUser(c) PROVE NamesAreDrawn'
    <2>1. /\ \A u \in users' : u \in users \/ u.id = call[c].user
          /\ UNCHANGED <<sessions, given>>
      BY <1>7 DEF CreateUser, User
    <2>2. call[c].at = "user"
      BY <1>7 DEF CreateUser
    <2>3. \A d \in Connections : call'[d].at = "user" => call'[d] = call[d]
      <3>1. call'[c].at # "user"
        <4>1. call[c] \in [at : {"user", "session"}, user : Serials, login : Logins,
                           password : Passwords, expires : Nat]
          BY <1>1, <2>2, AboutToWrite
        <4>2. CASE call' = [call EXCEPT ![c].at = "session"]
          BY <1>1, <4>1, <4>2 DEF TypeOK
        <4>3. CASE Return(c)
          BY <1>1, <4>3 DEF TypeOK, Return, Idle
        <4> QED
          BY <1>7, <4>2, <4>3 DEF CreateUser
      <3>2. \A d \in Connections : d # c => call'[d] = call[d]
        BY <1>1, <1>7 DEF TypeOK, CreateUser, Return
      <3> QED
        BY <3>1, <3>2
    <2> QED
      BY <1>1, <1>2, <1>3, <1>4, <2>1, <2>2, <2>3 DEF NamesAreDrawn
  <1>8. ASSUME NEW c \in Connections, LoginTaken(c) \/ Login(c) PROVE NamesAreDrawn'
    <2>1. UNCHANGED <<users, sessions, given>>
      BY <1>8 DEF LoginTaken, Login, rows
    <2>2. \A d \in Connections : call'[d].at = "user" => call'[d] = call[d]
      BY <1>1, <1>8 DEF TypeOK, LoginTaken, Login, Return, Idle
    <2> QED
      BY <1>1, <1>2, <1>3, <1>4, <2>1, <2>2 DEF NamesAreDrawn
  <1>9. ASSUME NEW c \in Connections, SaveSession(c) PROVE NamesAreDrawn'
    <2>1. boot' = boot /\ ids' = ids + 1 /\ tokens' = tokens + 1 /\ users' = users
      BY <1>9 DEF SaveSession, process
    <2>2. /\ \A i \in {NextId} : Drawn(i, ids)'
          /\ \A i \in {NextToken} : Drawn(i, tokens)'
      BY <1>1, <2>1 DEF TypeOK, Drawn, NextId, NextToken, Serial
    <2>3. \A s \in sessions' : s \in sessions \/ (s.id = NextId /\ s.token = NextToken)
      <3> DEFINE r == Session(call[c].user, call[c].expires)
      <3>1. sessions' = Upserted(r)
        BY <1>9 DEF SaveSession
      <3>2. r.id = NextId /\ r.token = NextToken
        BY DEF Session
      <3> HIDE DEF r
      <3> QED
        BY <3>1, <3>2 DEF Upserted
    <2>4. \A g \in given' : g \in given \/ g.token = NextToken
      BY <1>9 DEF SaveSession, Answered
    <2>5. \A d \in Connections : call'[d].at = "user" => call'[d] = call[d]
      BY <1>1, <1>9 DEF TypeOK, SaveSession, Return, Idle
    <2> QED
      BY <1>1, <1>2, <1>3, <1>4, <2>1, <2>2, <2>3, <2>4, <2>5 DEF NamesAreDrawn
  <1> QED
    BY <1>5, <1>6, <1>7, <1>8, <1>9, NextCases

\* What a call writes, and what becomes of the other calls.
LEMMA CreateUserEffect ==
    ASSUME TypeOK, NEW c \in Connections, CreateUser(c)
    PROVE  /\ call[c].at = "user"
           /\ Insertable(User(call[c].user, call[c].login, call[c].password))
           /\ users' = users \cup {User(call[c].user, call[c].login, call[c].password)}
           /\ UNCHANGED <<sessions, given, taken>>
           /\ \A d \in Connections : call'[d].at # "user"
           /\ \A d \in Connections : call'[d].at = "session" =>
                  /\ d = c
                  /\ call'[d].user = call[c].user
                  /\ call'[d].login = call[c].login
                  /\ call'[d].password = call[c].password
  <1>1. /\ call[c].at = "user"
        /\ Insertable(User(call[c].user, call[c].login, call[c].password))
        /\ users' = users \cup {User(call[c].user, call[c].login, call[c].password)}
        /\ UNCHANGED <<sessions, given, taken>>
    BY DEF CreateUser
  <1>2. /\ call[c] \in [at : {"user", "session"}, user : Serials, login : Logins,
                        password : Passwords, expires : Nat]
        /\ \A d \in Connections : d # c => call[d].at \notin {"user", "session"}
    BY <1>1, AboutToWrite
  <1>3. CASE call' = [call EXCEPT ![c].at = "session"]
    <2>1. call'[c] = [call[c] EXCEPT !.at = "session"]
      BY <1>3 DEF TypeOK
    <2>2. \A d \in Connections : d # c => call'[d] = call[d]
      BY <1>3 DEF TypeOK
    <2> QED
      BY <1>1, <1>2, <2>1, <2>2
  <1>4. CASE Return(c)
    BY <1>1, <1>2, <1>4 DEF TypeOK, Return, Idle
  <1> QED
    BY <1>3, <1>4 DEF CreateUser

LEMMA SaveSessionEffect ==
    ASSUME IInv, NEW c \in Connections, SaveSession(c)
    PROVE  /\ call[c].at = "session"
           /\ UNCHANGED <<users, taken>>
           /\ \A d \in Connections : call'[d].at \notin {"user", "session"}
           /\ sessions' = sessions \cup {Session(call[c].user, call[c].expires)}
           /\ given' \subseteq given \cup {Answered(c)}
  <1>1. /\ call[c].at = "session"
        /\ UNCHANGED <<users, taken>>
        /\ given' \subseteq given \cup {Answered(c)}
        /\ sessions' = Upserted(Session(call[c].user, call[c].expires))
    BY DEF SaveSession
  <1>2. \A d \in Connections : d # c => call[d].at \notin {"user", "session"}
    BY <1>1, AboutToWrite DEF IInv
  <1>3. \A d \in Connections : call'[d].at \notin {"user", "session"}
    BY <1>2 DEF IInv, TypeOK, SaveSession, Return, Idle
  <1>4. \A s \in sessions : s.id # NextId
    <2> TAKE s \in sessions
    <2>1. s.id \in Serials /\ ids \in Nat /\ boot \in Nat /\ Drawn(s.id, ids)
      BY DEF IInv, TypeOK, NamesAreDrawn
    <2> QED
      BY <2>1, NextIsNew DEF NextId
  <1>5. Session(call[c].user, call[c].expires).id = NextId
    BY DEF Session
  <1>6. sessions' = sessions \cup {Session(call[c].user, call[c].expires)}
    BY <1>1, <1>4, <1>5 DEF Upserted
  <1> QED
    BY <1>1, <1>3, <1>6

LEMMA NextUsersDiffer == IInv /\ [Next]_vars => UsersDiffer'
  <1> SUFFICES ASSUME IInv, [Next]_vars PROVE UsersDiffer'
    OBVIOUS
  <1>1. TypeOK /\ UsersDiffer
    BY DEF IInv
  <1>2. CASE Others
    BY <1>1, <1>2, OthersAreQuiet DEF UsersDiffer
  <1>3. ASSUME NEW c \in Connections, Register(c) \/ LoginTaken(c) \/ Login(c) \/ SaveSession(c)
        PROVE  UsersDiffer'
    BY <1>1, <1>3 DEF UsersDiffer, Register, LoginTaken, Login, SaveSession, rows
  <1>4. ASSUME NEW c \in Connections, CreateUser(c) PROVE UsersDiffer'
    BY <1>1, <1>4, CreateUserEffect DEF UsersDiffer, Insertable
  <1> QED
    BY <1>2, <1>3, <1>4, NextCases

LEMMA NextNewcomers == IInv /\ [Next]_vars => NewcomersAreNew'
  <1> SUFFICES ASSUME IInv, [Next]_vars PROVE NewcomersAreNew'
    OBVIOUS
  <1>1. TypeOK /\ NewcomersAreNew /\ NamesAreDrawn
    BY DEF IInv
  <1>2. CASE Others
    BY <1>1, <1>2, OthersAreQuiet DEF NewcomersAreNew
  <1>3. ASSUME NEW c \in Connections, Register(c) PROVE NewcomersAreNew'
    <2>1. \A u \in users : u.id # NextId
      <3> TAKE u \in users
      <3>1. u.id \in Serials /\ ids \in Nat /\ boot \in Nat /\ Drawn(u.id, ids)
        BY <1>1 DEF TypeOK, NamesAreDrawn, UserRows
      <3> QED
        BY <3>1, NextIsNew DEF NextId
    <2>2. /\ users' = users
          /\ \A d \in Connections : call'[d] = call[d] \/ call'[d].user = NextId
      BY <1>1, <1>3 DEF TypeOK, Register, rows
    <2> QED
      BY <1>1, <2>1, <2>2 DEF NewcomersAreNew
  <1>4. ASSUME NEW c \in Connections, CreateUser(c) PROVE NewcomersAreNew'
    BY <1>1, <1>4, CreateUserEffect DEF NewcomersAreNew
  <1>5. ASSUME NEW c \in Connections, LoginTaken(c) \/ Login(c) PROVE NewcomersAreNew'
    <2>1. /\ users' = users
          /\ \A d \in Connections : call'[d].at = "user" => call'[d] = call[d]
      BY <1>1, <1>5 DEF TypeOK, LoginTaken, Login, Return, Idle, rows
    <2> QED
      BY <1>1, <2>1 DEF NewcomersAreNew
  <1>6. ASSUME NEW c \in Connections, SaveSession(c) PROVE NewcomersAreNew'
    BY <1>6, SaveSessionEffect DEF NewcomersAreNew
  <1> QED
    BY <1>2, <1>3, <1>4, <1>5, <1>6, NextCases

LEMMA NextCallers == IInv /\ [Next]_vars => CallersHaveRows'
  <1> SUFFICES ASSUME IInv, [Next]_vars PROVE CallersHaveRows'
    OBVIOUS
  <1>1. TypeOK /\ CallersHaveRows
    BY DEF IInv
  <1>2. CASE Others
    BY <1>1, <1>2, OthersAreQuiet DEF CallersHaveRows
  <1>3. ASSUME NEW c \in Connections, Register(c) \/ LoginTaken(c) PROVE CallersHaveRows'
    <2>1. /\ users' = users
          /\ \A d \in Connections : call'[d].at = "session" => call'[d] = call[d]
      BY <1>1, <1>3 DEF TypeOK, Register, LoginTaken, Return, Idle, rows
    <2> QED
      BY <1>1, <2>1 DEF CallersHaveRows
  <1>4. ASSUME NEW c \in Connections, CreateUser(c) PROVE CallersHaveRows'
    BY <1>1, <1>4, CreateUserEffect DEF CallersHaveRows
  <1>5. ASSUME NEW c \in Connections, Login(c) PROVE CallersHaveRows'
    <2>1. users' = users
      BY <1>5 DEF Login, rows
    <2>2. PICK u \in users :
            call' = [call EXCEPT ![c] =
              [at |-> "session", user |-> u.id, login |-> u.login, password |-> u.password,
               expires |-> now + Lifetime]]
      BY <1>5 DEF Login
    <2>3. User(u.id, u.login, u.password) = u
      BY <1>1 DEF TypeOK, UserRows, User
    <2>4. /\ call'[c].user = u.id /\ call'[c].login = u.login /\ call'[c].password = u.password
          /\ \A d \in Connections : d # c => call'[d] = call[d]
      BY <1>1, <2>2 DEF TypeOK
    <2> QED
      BY <1>1, <2>1, <2>3, <2>4 DEF CallersHaveRows
  <1>6. ASSUME NEW c \in Connections, SaveSession(c) PROVE CallersHaveRows'
    BY <1>6, SaveSessionEffect DEF CallersHaveRows
  <1> QED
    BY <1>2, <1>3, <1>4, <1>5, <1>6, NextCases

-----------------------------------------------------------------------------
(* What was answered *)

LEMMA NextPromises == IInv /\ [Next]_vars => PromisesKept'
  <1> SUFFICES ASSUME IInv, [Next]_vars PROVE PromisesKept'
    OBVIOUS
  <1>1. TypeOK /\ PromisesKept
    BY DEF IInv
  <1>2. CASE Others
    BY <1>1, <1>2, OthersAreQuiet DEF PromisesKept
  <1>3. ASSUME NEW c \in Connections, Register(c) \/ LoginTaken(c) \/ Login(c)
        PROVE  PromisesKept'
    BY <1>1, <1>3 DEF PromisesKept, Register, LoginTaken, Login, rows
  <1>4. ASSUME NEW c \in Connections, CreateUser(c) PROVE PromisesKept'
    <2> DEFINE u == User(call[c].user, call[c].login, call[c].password)
    <2>1. users' = users \cup {u} /\ UNCHANGED <<sessions, given>>
      BY <1>1, <1>4, CreateUserEffect
    <2>2. \A v \in users : v.id # u.id /\ v.login # u.login
      BY <1>1, <1>4, CreateUserEffect DEF Insertable
    <2>3. \A g \in given : u.login # g.login /\ u.id # g.user
      <3> TAKE g \in given
      <3>1. User(g.user, g.login, g.password) \in users
        BY <1>1 DEF PromisesKept
      <3>2. /\ User(g.user, g.login, g.password).id = g.user
            /\ User(g.user, g.login, g.password).login = g.login
        BY DEF User
      <3> HIDE DEF u
      <3> QED
        BY <2>2, <3>1, <3>2
    <2> HIDE DEF u
    <2> QED
      BY <1>1, <2>1, <2>3 DEF PromisesKept
  <1>5. ASSUME NEW c \in Connections, SaveSession(c) PROVE PromisesKept'
    <2> DEFINE s == Session(call[c].user, call[c].expires)
               a == Answered(c)
    <2>1. /\ call[c].at = "session"
          /\ users' = users /\ sessions' = sessions \cup {s}
          /\ given' \subseteq given \cup {a}
      BY <1>5, SaveSessionEffect
    <2>2. /\ s.token = NextToken /\ s.user = call[c].user /\ s.expires = call[c].expires
          /\ a.token = NextToken /\ a.user = call[c].user /\ a.expires = call[c].expires
          /\ a.login = call[c].login /\ a.password = call[c].password
      BY DEF Session, Answered
    <2>3. \A i \in Serials : Drawn(i, tokens) => i # NextToken
      <3>1. tokens \in Nat /\ boot \in Nat
        BY <1>1 DEF TypeOK
      <3> QED
        BY <3>1, NextIsNew DEF NextToken
    <2>4. /\ \A t \in sessions : t.token # NextToken
          /\ \A g \in given : g.token # NextToken
      BY <1>1, <2>3 DEF IInv, TypeOK, NamesAreDrawn
    <2>5. User(a.user, a.login, a.password) \in users
      BY <2>1, <2>2 DEF IInv, CallersHaveRows
    <2>6. \A v \in users : v.login = a.login <=> v.id = a.user
      <3>1. /\ User(a.user, a.login, a.password).id = a.user
            /\ User(a.user, a.login, a.password).login = a.login
        BY DEF User
      <3> HIDE DEF a
      <3> QED
        BY <2>5, <3>1 DEF IInv, UsersDiffer
    <2> HIDE DEF s, a
    <2>7. ASSUME NEW g \in given'
          PROVE  /\ \A v \in users' : v.login = g.login <=> v.id = g.user
                 /\ User(g.user, g.login, g.password) \in users'
                 /\ \E t \in sessions' : t.token = g.token
                 /\ \A t \in sessions' :
                        t.token = g.token => t.user = g.user /\ t.expires = g.expires
      <3>1. CASE g \in given
        BY <1>1, <2>1, <2>2, <2>4, <3>1 DEF PromisesKept
      <3>2. CASE g = a
        BY <2>1, <2>2, <2>4, <2>5, <2>6, <3>2
      <3> QED
        BY <2>1, <2>7, <3>1, <3>2
    <2> QED
      BY <2>7 DEF PromisesKept, User
  <1> QED
    BY <1>2, <1>3, <1>4, <1>5, NextCases

LEMMA NextTaken == IInv /\ [Next]_vars => TakenIsTaken'
  <1> SUFFICES ASSUME IInv, [Next]_vars PROVE TakenIsTaken'
    OBVIOUS
  <1>1. TypeOK /\ TakenIsTaken /\ NewcomersAreNew
    BY DEF IInv
  <1>2. CASE Others
    BY <1>1, <1>2, OthersAreQuiet DEF TakenIsTaken
  <1>3. ASSUME NEW c \in Connections, Register(c) \/ Login(c) \/ SaveSession(c)
        PROVE  TakenIsTaken'
    BY <1>1, <1>3 DEF TakenIsTaken, Register, Login, SaveSession, rows
  <1>4. ASSUME NEW c \in Connections, CreateUser(c) PROVE TakenIsTaken'
    BY <1>1, <1>4, CreateUserEffect DEF TakenIsTaken
  <1>5. ASSUME NEW c \in Connections, LoginTaken(c) PROVE TakenIsTaken'
    <2>1. /\ call[c].at = "user"
          /\ ~Insertable(User(call[c].user, call[c].login, call[c].password))
          /\ taken' = taken \cup {call[c].login}
          /\ users' = users
      BY <1>5 DEF LoginTaken, rows
    <2>2. \E v \in users : v.id = call[c].user \/ v.login = call[c].login
      BY <2>1 DEF Insertable, User
    <2>3. \A v \in users : v.id # call[c].user
      BY <1>1, <2>1 DEF NewcomersAreNew
    <2> QED
      BY <1>1, <2>1, <2>2, <2>3 DEF TakenIsTaken
  <1> QED
    BY <1>2, <1>3, <1>4, <1>5, NextCases

THEOREM Inductive == Spec => []IInv
  <1>1. IInv /\ [Next]_vars => IInv'
    BY NextTypeOK, NextNames, NextUsersDiffer, NextNewcomers, NextCallers, NextPromises,
       NextTaken
    DEF IInv
  <1> QED
    BY InitIInv, <1>1, PTL DEF Spec

\* Whoever was answered keeps their account and their session: for any number
\* of connections, restarts and failures.
THEOREM PromisesAreKept == Spec => []PromisesKept
  <1>1. IInv => PromisesKept
    BY DEF IInv
  <1> QED
    BY <1>1, Inductive, PTL

\* A login is called taken only when it is.
THEOREM TakenIsTrue == Spec => []TakenIsTaken
  <1>1. IInv => TakenIsTaken
    BY DEF IInv
  <1> QED
    BY <1>1, Inductive, PTL

-----------------------------------------------------------------------------
(* Participants *)

\* Nobody is in the list of participants without a session there, except for
\* those whom a change of principal left behind, and those who joined after
\* their connection had ended: for any number of connections and requests.
THEOREM ListIsSound == Spec => []NobodyLeftBehind
  <1>1. Init => NobodyLeftBehind
    BY DEF Init, NobodyLeftBehind
  <1>2. ASSUME TypeOK, NobodyLeftBehind, [Next]_vars PROVE NobodyLeftBehind'
    <2>1. CASE UNCHANGED board
      BY <1>2, <2>1 DEF NobodyLeftBehind, board
    <2>2. CASE Restart
      BY <2>2 DEF NobodyLeftBehind, Restart
    <2>3. ASSUME NEW c \in Connections, LeaveBoard(c) \/ Disconnect(c)
          PROVE  NobodyLeftBehind'
      <3>1. /\ \A d \in Connections : d # c => as'[d] = as[d]
            /\ listed' = Left(c) /\ forsaken' = LeftBehind(c)
        BY <1>2, <2>3 DEF TypeOK, LeaveBoard, Disconnect
      <3>2. ASSUME NEW p \in listed' PROVE p \in {as'[d] : d \in Connections} \cup forsaken'
        <4>1. p \in listed /\ p # Nothing
          BY <1>2, <3>1, <3>2, NothingAssumption DEF TypeOK, Left
        <4> QED
          BY <1>2, <3>1, <3>2, <4>1 DEF NobodyLeftBehind, Left, LeftBehind
      <3> QED
        BY <3>2 DEF NobodyLeftBehind
    <2>6. ASSUME NEW c \in Connections, Expire(c) PROVE NobodyLeftBehind'
      <3>1. /\ \A d \in Connections : d # c => as'[d] = as[d]
            /\ listed' = listed /\ forsaken' = forsaken \cup ({as[c]} \ {Nothing})
        BY <1>2, <2>6 DEF TypeOK, Expire
      <3>2. ASSUME NEW p \in listed' PROVE p \in {as'[d] : d \in Connections} \cup forsaken'
        <4>1. p \in listed /\ p # Nothing
          BY <1>2, <3>1, <3>2, NothingAssumption DEF TypeOK
        <4> QED
          BY <1>2, <3>1, <4>1 DEF NobodyLeftBehind
      <3> QED
        BY <3>2 DEF NobodyLeftBehind
    <2>4. ASSUME NEW c \in Connections, JoinBoard(c) PROVE NobodyLeftBehind'
      <3>1. \A d \in Connections : d # c => as'[d] = as[d]
        BY <1>2, <2>4 DEF TypeOK, JoinBoard
      <3>2. \/ /\ as'[c] = principal[c] /\ listed' = Left(c) \cup {principal[c]}
               /\ forsaken' = LeftBehind(c) \ {principal[c]}
            \/ listed' = Left(c) /\ forsaken' = LeftBehind(c)
        BY <1>2, <2>4 DEF TypeOK, JoinBoard
      <3>3. ASSUME NEW p \in listed' PROVE p \in {as'[d] : d \in Connections} \cup forsaken'
        <4>1. CASE p = principal[c] /\ as'[c] = principal[c]
          BY <4>1
        <4>2. CASE p \in Left(c) /\ (p # principal[c] \/ forsaken' = LeftBehind(c))
          <5>1. p \in listed /\ p # Nothing
            BY <1>2, <4>2, NothingAssumption DEF TypeOK, Left
          <5>2. p \in {as[d] : d \in Connections \ {c}} \cup forsaken \cup {as[c]}
            BY <1>2, <5>1 DEF NobodyLeftBehind
          <5>3. p \in forsaken \cup {as[c]} => p \in LeftBehind(c)
            <6>1. CASE as[c] = Nothing
              BY <4>2, <5>1, <6>1 DEF LeftBehind
            <6>2. CASE as[c] # Nothing /\ as[c] = principal[c]
              BY <4>2, <5>1, <6>2 DEF Left, LeftBehind
            <6>3. CASE as[c] # Nothing /\ as[c] # principal[c]
              BY <4>2, <5>1, <6>3 DEF Left, LeftBehind
            <6> QED
              BY <6>1, <6>2, <6>3
          <5> QED
            BY <3>1, <3>2, <4>2, <5>2, <5>3
        <4> QED
          BY <3>2, <3>3, <4>1, <4>2
      <3> QED
        BY <3>3 DEF NobodyLeftBehind
    <2>5. UNCHANGED board \/ Restart
            \/ \E c \in Connections :
                   LeaveBoard(c) \/ Disconnect(c) \/ Expire(c) \/ JoinBoard(c)
      BY <1>2 DEF Next, vars, board, Tick, Register, CreateUser, LoginTaken, Login,
         SaveSession, StatementFails, EnterGuest, RestoreSession, RestoreUser
    <2> QED
      BY <2>1, <2>2, <2>3, <2>4, <2>5, <2>6
  <1> QED
    BY <1>1, <1>2, TypeCorrect, PTL DEF Spec

=============================================================================
