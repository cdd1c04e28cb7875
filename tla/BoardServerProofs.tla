------------------------- MODULE BoardServerProofs --------------------------
(***************************************************************************)
(* BoardServer for any number of sessions, principals, boards and requests: *)
(* the types, who is on a board, and what the server promises its clients. *)
(*                                                                         *)
(* Typed says what every place of a handler has to go with, Present where  *)
(* the sessions on a board are subscribed and how those on a deleted one   *)
(* get to know, Listed who the participants of a board are.  Each is kept  *)
(* by every step, given those before it.  They do not depend on what       *)
(* clients do.                                                             *)
(*                                                                         *)
(* The clients of the second half are those of BoardServerObserver, which  *)
(* is what the hypothesis ObserverListens says: none hears of a board      *)
(* after its deletion, each knows which board it is on, none misses an     *)
(* operation, and every request gets one reply.                            *)
(***************************************************************************)
EXTENDS BoardServerObserver, BoardStateProofs, SequenceTheorems,
        FiniteSetTheorems, TLAPS

-----------------------------------------------------------------------------
(* What the variables hold *)

\* The codes of the errors that answer a request.
Codes ==
    {"refused", "access_denied", "invalid_argument", "not_found", "conflict",
     "already_exists", "invalid_state"}

Message ==
    [type : {"none", "leave_board_response"}]
      \cup [type : {"error"}, code : Codes]
      \cup [type : {"join_response"}, board : Boards, revision : Nat,
            objects : Objects, participants : SUBSET Principals]
      \cup [type : {"operation_applied"}, board : Boards, revision : Nat,
            actor : Principals, command : Command]
      \cup [type : {"presence_update"}, participants : SUBSET Principals]
      \cup [type : {"board_deleted", "delete_board_response", "notice"}, board : Boards]

\* Requests, whatever the commands and revisions that clients send.
AnyRequest ==
    [type : {"join", "delete"}, board : Boards]
      \cup [type : {"leave"}]
      \cup [type : {"operation"}, board : Boards, base : Nat, command : Command]

Busy ==
    [at : Places \ {"idle"}, request : AnyRequest \cup {Hangup},
     message : Message, to : Seq(Sessions)]

\* The types of the variables, of messages and handlers too.
Types ==
    /\ rows \subseteq Boards /\ kept \subseteq Boards
    /\ runtime \in [Boards -> Runtime]
    /\ subscribers \in [Boards -> Seq(Sessions)]
    /\ board \in [Sessions -> Boards \cup {NoBoard}]
    /\ reading \in [Sessions -> {"open", "last", "closed"}]
    /\ ghost \in [Sessions -> Boards \cup {NoBoard}]
    /\ handler \in [Sessions -> {Idle} \cup Busy]
    /\ strand \in [Sessions -> Seq(Message)]
    /\ asked \in [Sessions -> 0 .. MaxRequests]

Leaving == {"leave", "remaining", "unsubscribe", "leave_collect", "farewell"}

\* What a handler was begun for, and what it is about to send.
Purpose(s) ==
    LET at == handler[s].at
        request == handler[s].request
        message == handler[s].message
    IN
    /\ at \in Leaving =>
         request.type \in {"join", "leave", "hangup"} /\ board[s] # NoBoard
    /\ at \in {"unsubscribe", "leave_collect", "farewell"} =>
         message.type = "presence_update"
    /\ at = "join" => request.type = "join" /\ board[s] = NoBoard
    /\ at \in {"subscribe", "snapshot", "present"} =>
         request.type = "join" /\ request.board = board[s]
    /\ at = "respond" =>
         \/ /\ request.type \in {"leave", "operation"}
            /\ message.type \in {"error", "leave_board_response"}
         \/ /\ request.type = "join" /\ request.board = board[s]
            /\ message.type = "join_response" /\ message.board = board[s]
    /\ at \in {"collect", "post"} =>
         /\ request.type \in {"join", "operation"} /\ request.board = board[s]
         /\ request.type = "join" => message.type = "presence_update"
         /\ request.type = "operation" =>
              /\ message.type = "operation_applied"
              /\ message.board = board[s] /\ message.actor = Identity[s]
    /\ at = "apply" => request.type = "operation" /\ request.board = board[s]
    /\ at \in {"delete", "close", "notify"} => request.type = "delete"

Typed == Types /\ \A s \in Sessions : Purpose(s)

\* How Without comes to its value: f[n] is what is kept of the first n.
Keeps(f, q, s, n) ==
    f = [i \in 0 .. n |-> IF i = 0 THEN <<>>
                          ELSE IF q[i] = s THEN f[i - 1] ELSE Append(f[i - 1], q[i])]

\* There is such a function for every n.
LEMMA KeepsExists ==
    ASSUME NEW q, NEW s, NEW n \in Nat
    PROVE  \E f : Keeps(f, q, s, n)
<1> DEFINE T == {k \in Nat : ~ \E f : Keeps(f, q, s, k)}
<1> SUFFICES ASSUME T # {} PROVE FALSE OBVIOUS
<1>1. PICK m \in T : \A y \in T : m <= y
  BY Least
<1>2. CASE m = 0
  <2> DEFINE g == [i \in 0 .. 0 |-> <<>>]
  <2>1. Keeps(g, q, s, 0)
    BY DEF Keeps
  <2> QED BY <2>1, <1>2
<1>3. CASE m # 0
  <2>1. m - 1 \in Nat /\ m \in Nat
    BY <1>3
  <2>2. m - 1 \notin T
    BY <2>1, <1>1
  <2>3. PICK f : Keeps(f, q, s, m - 1)
    BY <2>1, <2>2
  <2> DEFINE g == [i \in 0 .. m |-> IF i < m THEN f[i] ELSE
                      IF q[m] = s THEN f[m - 1] ELSE Append(f[m - 1], q[m])]
             h == [i \in 0 .. m |-> IF i = 0 THEN <<>>
          ELSE IF q[i] = s THEN g[i - 1] ELSE Append(g[i - 1], q[i])]
  <2>4. ASSUME NEW i \in 0 .. m PROVE g[i] = h[i]
    <3>1. CASE i = m
      <4>1. g[m - 1] = f[m - 1]
        BY <2>1
      <4>2. h[m] = IF q[m] = s THEN g[m - 1] ELSE Append(g[m - 1], q[m])
        BY <2>1, <1>3
      <4> QED BY <4>1, <4>2, <3>1, <1>3, <2>1
    <3>2. CASE i # m /\ i # 0
      <4>1. i \in 0 .. m - 1 /\ i - 1 \in 0 .. m - 1
        BY <2>1, <3>2
      <4>2. g[i] = f[i] /\ g[i - 1] = f[i - 1]
        BY <4>1
      <4>3. f[i] = IF q[i] = s THEN f[i - 1] ELSE Append(f[i - 1], q[i])
        BY <2>3, <4>1, <3>2 DEF Keeps
      <4> HIDE DEF g
      <4> QED BY <4>2, <4>3, <3>2
    <3>3. CASE i = 0
      <4>1. f[0] = <<>>
        BY <2>3, <2>1 DEF Keeps
      <4> QED BY <3>3, <1>3, <4>1
    <3> QED BY <3>1, <3>2, <3>3
  <2>5. g = h
    BY <2>4
  <2>6. Keeps(g, q, s, m)
    BY <2>5 DEF Keeps
  <2> HIDE DEF g
  <2> QED BY <2>6
<1> QED BY <1>2, <1>3

\* Without is the last of its values.
LEMMA WithoutKeeps ==
    ASSUME NEW S, NEW q \in Seq(S), NEW s
    PROVE  \E f : Keeps(f, q, s, Len(q)) /\ Without(q, s) = f[Len(q)]
<1>1. Len(q) \in Nat
  OBVIOUS
<1>2. \E f : Keeps(f, q, s, Len(q))
  BY <1>1, KeepsExists
<1>3. PICK f : f = (CHOOSE g : Keeps(g, q, s, Len(q)))
  OBVIOUS
<1>4. Keeps(f, q, s, Len(q))
  BY <1>2, <1>3
<1>5. Without(q, s) = f[Len(q)]
  BY <1>3 DEF Without, Keeps
<1> QED BY <1>4, <1>5

\* What is without s is a sequence of the others, each as often as before.
LEMMA WithoutIs ==
    ASSUME NEW S, NEW q \in Seq(S), NEW s
    PROVE  /\ Without(q, s) \in Seq(S)
           /\ Range(Without(q, s)) = Range(q) \ {s}
           /\ IsInjective(q) => IsInjective(Without(q, s))
<1>1. PICK f : Keeps(f, q, s, Len(q)) /\ Without(q, s) = f[Len(q)]
  BY WithoutKeeps
<1>2. Len(q) \in Nat
  OBVIOUS
<1>3. ASSUME NEW n \in 1 .. Len(q)
      PROVE  f[n] = IF q[n] = s THEN f[n - 1] ELSE Append(f[n - 1], q[n])
  <2>1. n \in 0 .. Len(q) /\ n # 0
    BY <1>2
  <2> QED BY <1>1, <2>1 DEF Keeps
<1>4. f[0] = <<>>
  BY <1>1, <1>2 DEF Keeps
<1> DEFINE P(n) == /\ f[n] \in Seq(S)
                   /\ \A i \in 1 .. Len(f[n]) : f[n][i] # s /\ \E j \in 1 .. n : f[n][i] = q[j]
                   /\ \A j \in 1 .. n : q[j] # s => \E i \in 1 .. Len(f[n]) : f[n][i] = q[j]
                   /\ IsInjective(q) => \A i, j \in 1 .. Len(f[n]) : f[n][i] = f[n][j] => i = j
           T == {n \in 0 .. Len(q) : ~P(n)}
<1>5. P(0)
  BY <1>4
<1>6. ASSUME NEW n \in 1 .. Len(q), P(n - 1) PROVE P(n)
  <2>1. f[n] = IF q[n] = s THEN f[n - 1] ELSE Append(f[n - 1], q[n])
    BY <1>3
  <2>2. q[n] \in S
    OBVIOUS
  <2>3. PICK g : g = f[n - 1]
    OBVIOUS
  <2>4. /\ g \in Seq(S)
        /\ \A i \in 1 .. Len(g) : g[i] # s /\ \E j \in 1 .. n - 1 : g[i] = q[j]
        /\ \A j \in 1 .. n - 1 : q[j] # s => \E i \in 1 .. Len(g) : g[i] = q[j]
        /\ IsInjective(q) => \A i, j \in 1 .. Len(g) : g[i] = g[j] => i = j
    BY <1>6, <2>3
  <2>5. CASE q[n] = s
    <3>1. f[n] = g
      BY <2>1, <2>3, <2>5
    <3>2. \A j \in 1 .. n : j \in 1 .. n - 1 \/ j = n
      OBVIOUS
    <3>3. \A j \in 1 .. n - 1 : j \in 1 .. n
      OBVIOUS
    <3>4. \A i \in 1 .. Len(g) : g[i] # s /\ \E j \in 1 .. n : g[i] = q[j]
      BY <2>4, <3>3
    <3>5. \A j \in 1 .. n : q[j] # s => \E i \in 1 .. Len(g) : g[i] = q[j]
      BY <2>4, <2>5, <3>2
    <3> QED BY <2>4, <3>1, <3>4, <3>5
  <2>6. CASE q[n] # s
    <3>1. PICK a : a = Append(g, q[n])
      OBVIOUS
    <3>2. /\ a \in Seq(S) /\ Len(a) = Len(g) + 1 /\ Len(g) \in Nat
          /\ \A i \in 1 .. Len(g) : a[i] = g[i]
          /\ a[Len(g) + 1] = q[n]
      BY <3>1, <2>2, <2>4
    <3>3. f[n] = a
      BY <2>1, <2>3, <2>6, <3>1
    <3>4. ASSUME NEW i \in 1 .. Len(a) PROVE a[i] # s /\ \E j \in 1 .. n : a[i] = q[j]
      <4>1. CASE i = Len(g) + 1
        BY <4>1, <3>2, <2>6
      <4>2. CASE i # Len(g) + 1
        <5>1. i \in 1 .. Len(g)
          BY <4>2, <3>2
        <5>2. g[i] # s /\ \E j \in 1 .. n - 1 : g[i] = q[j]
          BY <5>1, <2>4
        <5>3. PICK j \in 1 .. n - 1 : g[i] = q[j]
          BY <5>2
        <5>4. j \in 1 .. n
          OBVIOUS
        <5> QED BY <5>1, <5>2, <5>3, <5>4, <3>2
      <4> QED BY <4>1, <4>2
    <3>5. ASSUME NEW j \in 1 .. n, q[j] # s PROVE \E i \in 1 .. Len(a) : a[i] = q[j]
      <4>1. CASE j = n BY <3>2, <4>1
      <4>2. CASE j # n
        <5>1. j \in 1 .. n - 1
          BY <4>2
        <5>2. PICK i \in 1 .. Len(g) : g[i] = q[j]
          BY <2>4, <5>1, <3>5
        <5> QED BY <5>2, <3>2
      <4> QED BY <4>1, <4>2
    <3>6. ASSUME IsInjective(q), NEW i \in 1 .. Len(a), NEW j \in 1 .. Len(a), a[i] = a[j]
          PROVE  i = j
      <4>1. \A k \in 1 .. Len(g) : g[k] # q[n]
        <5> SUFFICES ASSUME NEW k \in 1 .. Len(g), g[k] = q[n] PROVE FALSE
          OBVIOUS
        <5>1. PICK l \in 1 .. n - 1 : g[k] = q[l]
          BY <2>4
        <5>2. l \in DOMAIN q /\ n \in DOMAIN q /\ l # n
          BY <1>2
        <5> QED BY <5>1, <5>2, <3>6 DEF IsInjective
      <4> QED BY <4>1, <2>4, <3>2, <3>6
    <3> HIDE DEF P
    <3>7. P(n)
      <4> USE DEF P
      <4>1. IsInjective(q) => \A i, j \in 1 .. Len(a) : a[i] = a[j] => i = j
        BY <3>6
      <4>2. \A j \in 1 .. n : q[j] # s => \E i \in 1 .. Len(a) : a[i] = q[j]
        BY <3>5
      <4> QED BY <3>2, <3>3, <3>4, <4>1, <4>2
    <3> QED BY <3>7
  <2> QED BY <2>5, <2>6
<1> HIDE DEF P
<1>7. T = {}
  <2> SUFFICES ASSUME T # {} PROVE FALSE OBVIOUS
  <2>1. T \subseteq Nat
    BY <1>2
  <2>2. PICK m \in T : \A y \in T : m <= y
    BY <2>1, Least
  <2>3. m \in 0 .. Len(q) /\ ~P(m)
    OBVIOUS
  <2>4. m # 0
    BY <2>3, <1>5
  <2>5. m \in 1 .. Len(q) /\ m - 1 \in 0 .. Len(q)
    BY <2>3, <2>4, <1>2
  <2>6. P(m - 1)
    BY <2>2, <2>5
  <2> QED BY <2>3, <2>5, <2>6, <1>6
<1>8. P(Len(q))
  BY <1>2, <1>7
<1>9. PICK w : w = Without(q, s)
  OBVIOUS
<1>10. /\ w \in Seq(S)
       /\ \A i \in 1 .. Len(w) : w[i] # s /\ \E j \in 1 .. Len(q) : w[i] = q[j]
       /\ \A j \in 1 .. Len(q) : q[j] # s => \E i \in 1 .. Len(w) : w[i] = q[j]
       /\ IsInjective(q) => \A i, j \in 1 .. Len(w) : w[i] = w[j] => i = j
  BY <1>1, <1>8, <1>9 DEF P
<1>11. Range(w) = Range(q) \ {s}
  BY <1>10 DEF Range
<1>12. IsInjective(q) => IsInjective(w)
  BY <1>10 DEF IsInjective
<1> QED BY <1>9, <1>10, <1>11, <1>12
-----------------------------------------------------------------------------
(* Types *)

Handlers == [Sessions -> {Idle} \cup Busy]

\* The handler of s, and no other, has become h.
Becomes(s, h) ==
    /\ handler' \in Handlers
    /\ handler'[s] = h
    /\ \A t \in Sessions \ {s} : handler'[t] = handler[t]

Record(at, request, message, to) ==
    [at |-> at, request |-> request, message |-> message, to |-> to]

\* A handler that is not idle is a record of four fields.
LEMMA BusyIs ==
    ASSUME handler \in Handlers, NEW s \in Sessions, handler[s].at # "idle"
    PROVE  /\ handler[s] \in Busy
           /\ handler[s].at \in Places \ {"idle"}
           /\ handler[s].request \in AnyRequest \cup {Hangup}
           /\ handler[s].message \in Message
           /\ handler[s].to \in Seq(Sessions)
           /\ handler[s] = Record(handler[s].at, handler[s].request,
                                  handler[s].message, handler[s].to)
<1>1. handler[s] \in Busy
  BY DEF Handlers, Idle
<1> QED BY <1>1 DEF Busy, Record

\* Each way in which the actions write the handler, as a Becomes.
LEMMA SetMoves ==
    ASSUME handler \in Handlers, NEW s \in Sessions, NEW h \in {Idle} \cup Busy,
           handler' = [handler EXCEPT ![s] = h]
    PROVE  Becomes(s, h)
  BY DEF Handlers, Becomes

LEMMA FinishMoves ==
    ASSUME handler \in Handlers, NEW s \in Sessions, Finish(s)
    PROVE  Becomes(s, Idle)
  BY SetMoves DEF Finish

LEMMA GotoMoves ==
    ASSUME handler \in Handlers, NEW s \in Sessions, handler[s].at # "idle",
           NEW there \in Places \ {"idle"}, Goto(s, there)
    PROVE  Becomes(s, Record(there, handler[s].request, handler[s].message, handler[s].to))
<1>1. handler[s] \in Busy
  BY BusyIs
<1>2. PICK h : h = [handler[s] EXCEPT !.at = there]
  OBVIOUS
<1>3. h = Record(there, handler[s].request, handler[s].message, handler[s].to) /\ h \in Busy
  BY <1>1, <1>2 DEF Busy, Record
<1>4. handler' = [handler EXCEPT ![s] = h]
  BY <1>2 DEF Goto, Handlers
<1> QED BY <1>3, <1>4, SetMoves

LEMMA SayMoves ==
    ASSUME handler \in Handlers, NEW s \in Sessions, handler[s].at # "idle",
           NEW there \in Places \ {"idle"}, NEW m \in Message,
           handler' = [handler EXCEPT ![s].at = there, ![s].message = m]
    PROVE  Becomes(s, Record(there, handler[s].request, m, handler[s].to))
<1>1. handler[s] \in Busy
  BY BusyIs
<1>2. PICK h : h = [handler[s] EXCEPT !.at = there, !.message = m]
  OBVIOUS
<1>3. h = Record(there, handler[s].request, m, handler[s].to) /\ h \in Busy
  BY <1>1, <1>2 DEF Busy, Record
<1>4. handler' = [handler EXCEPT ![s] = h]
  BY <1>2 DEF Handlers
<1> QED BY <1>3, <1>4, SetMoves

LEMMA GatherMoves ==
    ASSUME handler \in Handlers, NEW s \in Sessions, handler[s].at # "idle",
           NEW there \in Places \ {"idle"}, NEW q \in Seq(Sessions),
           handler' = [handler EXCEPT ![s].at = there, ![s].to = q]
    PROVE  Becomes(s, Record(there, handler[s].request, handler[s].message, q))
<1>1. handler[s] \in Busy
  BY BusyIs
<1>2. PICK h : h = [handler[s] EXCEPT !.at = there, !.to = q]
  OBVIOUS
<1>3. h = Record(there, handler[s].request, handler[s].message, q) /\ h \in Busy
  BY <1>1, <1>2 DEF Busy, Record
<1>4. handler' = [handler EXCEPT ![s] = h]
  BY <1>2 DEF Handlers
<1> QED BY <1>3, <1>4, SetMoves

LEMMA NextMoves ==
    ASSUME handler \in Handlers, NEW s \in Sessions, handler[s].at # "idle",
           handler[s].to # <<>>,
           handler' = [handler EXCEPT ![s].to = Tail(@)]
    PROVE  Becomes(s, Record(handler[s].at, handler[s].request, handler[s].message,
                             Tail(handler[s].to)))
<1>1. handler[s] \in Busy
  BY BusyIs
<1>2. PICK h : h = [handler[s] EXCEPT !.to = Tail(@)]
  OBVIOUS
<1>3. Tail(handler[s].to) \in Seq(Sessions)
  BY <1>1 DEF Busy
<1>4. /\ h = Record(handler[s].at, handler[s].request, handler[s].message,
                    Tail(handler[s].to))
      /\ h \in Busy
  BY <1>1, <1>2, <1>3 DEF Busy, Record
<1>5. handler' = [handler EXCEPT ![s] = h]
  BY <1>2 DEF Handlers
<1> QED BY <1>4, <1>5, SetMoves

LEMMA BeginMoves ==
    ASSUME handler \in Handlers, NEW s \in Sessions, NEW r \in AnyRequest \cup {Hangup},
           NEW there \in Places \ {"idle"}, Begin(s, r, there)
    PROVE  Becomes(s, Record(there, r, [type |-> "none"], <<>>))
<1>1. PICK h : h = Record(there, r, [type |-> "none"], <<>>)
  OBVIOUS
<1>2. [type |-> "none"] \in Message /\ <<>> \in Seq(Sessions)
  BY DEF Message
<1>3. h \in Busy
  BY <1>1, <1>2 DEF Busy, Record
<1>4. handler' = [handler EXCEPT ![s] = h]
  BY <1>1 DEF Begin, Record
<1> QED BY <1>1, <1>3, <1>4, SetMoves

LEMMA ReplyMoves ==
    ASSUME handler \in Handlers, NEW s \in Sessions, NEW r \in AnyRequest,
           NEW m \in Message, Reply(s, r, m)
    PROVE  Becomes(s, Record("respond", r, m, <<>>))
<1>1. PICK h : h = Record("respond", r, m, <<>>)
  OBVIOUS
<1>2. <<>> \in Seq(Sessions) /\ "respond" \in Places \ {"idle"}
  BY DEF Places
<1>3. h \in Busy
  BY <1>1, <1>2 DEF Busy, Record
<1>4. handler' = [handler EXCEPT ![s] = h]
  BY <1>1 DEF Reply, Record
<1> QED BY <1>1, <1>3, <1>4, SetMoves

\* The constructors make messages.
LEMMA MessageTypes ==
    /\ \A code \in Codes : Error(code) \in Message
    /\ \A b \in Boards, x \in Runtime : JoinResponse(b, x) \in Message
    /\ \A b \in Boards, r \in Nat, p \in Principals, c \in Command :
          OperationApplied(b, r, p, c) \in Message
    /\ \A ps \in SUBSET Principals : PresenceUpdate(ps) \in Message
    /\ LeaveBoardResponse \in Message
    /\ \A b \in Boards : /\ BoardDeleted(b) \in Message /\ Notice(b) \in Message
                         /\ [type |-> "delete_board_response", board |-> b] \in Message
<1>1. \A b \in Boards, x \in Runtime : JoinResponse(b, x) \in Message
  BY DEF Message, JoinResponse, Runtime
<1>2. \A b \in Boards, r \in Nat, p \in Principals, c \in Command :
          OperationApplied(b, r, p, c) \in Message
  BY DEF Message, OperationApplied
<1> QED BY <1>1, <1>2 DEF Message, Error, PresenceUpdate, LeaveBoardResponse, BoardDeleted, Notice

\* The fields of a request.
LEMMA RequestTypes ==
    ASSUME NEW r \in AnyRequest
    PROVE  /\ r.type \in {"join", "delete", "leave", "operation"}
           /\ r.type # "leave" => r.board \in Boards
           /\ r.type = "operation" => r.base \in Nat /\ r.command \in Command
  BY DEF AnyRequest

\* The bounds of the model are of no importance to it.
LEMMA RequestsAre ==
    Requests \subseteq AnyRequest
  BY BoundAssumption, CommandsAssumption DEF Requests, AnyRequest

\* Posting keeps the strands sequences of messages.
LEMMA PostTypes ==
    ASSUME strand \in [Sessions -> Seq(Message)], NEW s \in Sessions, NEW m \in Message,
           Post(s, m)
    PROVE  strand' \in [Sessions -> Seq(Message)]
<1>1. PICK q : q = Append(strand[s], m)
  OBVIOUS
<1>2. strand[s] \in Seq(Message)
  OBVIOUS
<1>3. q \in Seq(Message)
  BY <1>1, <1>2
<1>4. strand' = strand \/ strand' = [strand EXCEPT ![s] = q]
  BY <1>1 DEF Post
<1> QED BY <1>3, <1>4

\* The other handlers are where they were.
LEMMA OthersKeepTheirPurpose ==
    ASSUME \A t \in Sessions : Purpose(t), NEW s \in Sessions, NEW h, Becomes(s, h),
           \A t \in Sessions \ {s} : board'[t] = board[t],
           Purpose(s)'
    PROVE  \A t \in Sessions : Purpose(t)'
<1>1. ASSUME NEW t \in Sessions, t # s PROVE Purpose(t)'
  <2>1. Purpose(t) /\ handler'[t] = handler[t] /\ board'[t] = board[t]
    BY <1>1 DEF Becomes
  <2> QED BY <2>1 DEF Purpose
<1> QED BY <1>1

\* A handler that is done has no purpose left to keep.
LEMMA IdlePurpose ==
    ASSUME NEW s \in Sessions, handler'[s] = Idle
    PROVE  Purpose(s)'
  BY DEF Purpose, Idle, Leaving

\* Handlers that rely on the session's board have one.
LEMMA OnBoardIs ==
    ASSUME Typed, NEW s \in Sessions, handler[s].at \in OnBoard
    PROVE  board[s] \in Boards /\ board[s] # NoBoard
<1>1. handler[s].request \in AnyRequest \cup {Hangup} /\ Purpose(s)
  BY BusyIs DEF Typed, Types, Handlers, OnBoard
<1>2. board[s] \in Boards \cup {NoBoard}
  BY DEF Typed, Types
<1>3. CASE handler[s].at \in Leaving
  BY <1>1, <1>2, <1>3 DEF Purpose
<1>4. CASE handler[s].at \notin Leaving
  <2>1. /\ handler[s].request.board = board[s]
        /\ handler[s].request.type \in {"join", "operation"}
    BY <1>1, <1>4 DEF Purpose, OnBoard, Leaving
  <2>2. handler[s].request \in AnyRequest
    BY <1>1, <2>1 DEF Hangup
  <2>3. handler[s].request.board \in Boards
    BY <2>1, <2>2, RequestTypes
  <2> QED BY <2>1, <2>3, BoardsAssumption
<1> QED BY <1>3, <1>4

\* Action by action: the types are kept, and the handler becomes what it says.
LEMMA LeaveParticipantMoves ==
    ASSUME Typed, NEW s \in Sessions, LeaveParticipant(s)
    PROVE  /\ Typed'
           /\ Becomes(s, Record("remaining", handler[s].request, handler[s].message,
                                handler[s].to))
<1>1. Becomes(s, Record("remaining", handler[s].request, handler[s].message, handler[s].to))
  BY GotoMoves DEF LeaveParticipant, At, Typed, Types, Handlers, Places
<1>2. board[s] \in Boards /\ Purpose(s) /\ board' = board
  BY OnBoardIs DEF LeaveParticipant, At, Typed, OnBoard, own
<1>3. Purpose(s)'
  BY <1>1, <1>2 DEF Purpose, Becomes, Record, LeaveParticipant, At, Leaving
<1>4. runtime' \in [Boards -> Runtime]
  <2>1. PICK b \in Boards : b = board[s]
    BY <1>2
  <2>2. PICK x : x = [runtime[b] EXCEPT !.participants = @ \ {Identity[s]}]
    OBVIOUS
  <2>3. runtime[b] \in Runtime
    BY DEF Typed, Types
  <2>4. x \in Runtime
    BY <2>2, <2>3 DEF Runtime
  <2>5. runtime' = [runtime EXCEPT ![b] = x]
    BY <2>1, <2>2 DEF LeaveParticipant, Typed, Types
  <2> QED BY <2>4, <2>5 DEF Typed, Types
<1> QED
  BY <1>1, <1>2, <1>3, <1>4, OthersKeepTheirPurpose
  DEF LeaveParticipant, Typed, Types, Becomes, Handlers, own, posts

LEMMA ReadRemainingMoves ==
    ASSUME Typed, NEW s \in Sessions, ReadRemaining(s)
    PROVE  /\ Typed'
           /\ Becomes(s, Record("unsubscribe", handler[s].request,
                                PresenceUpdate(runtime[board[s]].participants),
                                handler[s].to))
<1>1. board[s] \in Boards /\ Purpose(s) /\ board' = board
  BY OnBoardIs DEF ReadRemaining, At, Typed, OnBoard, own
<1>2. PICK m \in Message : m = PresenceUpdate(runtime[board[s]].participants)
  BY <1>1, MessageTypes DEF Typed, Types, Runtime
<1>3. Becomes(s, Record("unsubscribe", handler[s].request, m, handler[s].to))
  BY <1>2, SayMoves DEF ReadRemaining, At, Typed, Types, Handlers, Places
<1>4. Purpose(s)'
  BY <1>3, <1>1, <1>2 DEF Purpose, Becomes, Record, ReadRemaining, At, Leaving, PresenceUpdate
<1>5. Becomes(s, Record("unsubscribe", handler[s].request,
                        PresenceUpdate(runtime[board[s]].participants), handler[s].to))
  BY <1>3, <1>2
<1>6. Typed'
  BY <1>3, <1>1, <1>4, OthersKeepTheirPurpose
  DEF ReadRemaining, Typed, Types, Becomes, Handlers, shared, own, posts
<1> QED BY <1>5, <1>6

LEMMA UnsubscribeMoves ==
    ASSUME Typed, NEW s \in Sessions, Unsubscribe(s)
    PROVE  /\ Typed'
           /\ Becomes(s, Record("leave_collect", handler[s].request, handler[s].message,
                                handler[s].to))
<1>1. Becomes(s, Record("leave_collect", handler[s].request, handler[s].message, handler[s].to))
  BY GotoMoves DEF Unsubscribe, At, Typed, Types, Handlers, Places
<1>2. board[s] \in Boards /\ Purpose(s) /\ board' = board
  BY OnBoardIs DEF Unsubscribe, At, Typed, OnBoard, own
<1>3. Purpose(s)'
  BY <1>1, <1>2 DEF Purpose, Becomes, Record, Unsubscribe, At, Leaving
<1>4. PICK q \in Seq(Sessions) : q = Without(subscribers[board[s]], s)
  BY <1>2, WithoutIs DEF Typed, Types
<1>5. subscribers' \in [Boards -> Seq(Sessions)]
  BY <1>2, <1>4 DEF Unsubscribe, Typed, Types
<1> QED
  BY <1>1, <1>2, <1>3, <1>5, OthersKeepTheirPurpose
  DEF Unsubscribe, Typed, Types, Becomes, Handlers, own, posts

\* The two broadcasts.
BroadcastPlaces(here, there) ==
    \/ here = "collect" /\ there = "post"
    \/ here = "leave_collect" /\ there = "farewell"

LEMMA CollectMoves ==
    ASSUME Typed, NEW s \in Sessions, NEW here, NEW there, BroadcastPlaces(here, there),
           Collect(s, here, there)
    PROVE  /\ Typed'
           /\ Becomes(s, Record(there, handler[s].request, handler[s].message,
                                subscribers[board[s]]))
<1>1. board[s] \in Boards /\ Purpose(s) /\ board' = board
  BY OnBoardIs DEF Collect, At, Typed, OnBoard, own, BroadcastPlaces
<1>2. PICK q \in Seq(Sessions) : q = subscribers[board[s]]
  BY <1>1 DEF Typed, Types
<1>3. Becomes(s, Record(there, handler[s].request, handler[s].message, q))
  BY <1>2, GatherMoves DEF Collect, At, Typed, Types, Handlers, Places, BroadcastPlaces
<1>4. Purpose(s)'
  BY <1>1, <1>3 DEF Purpose, Becomes, Record, Collect, At, Leaving, BroadcastPlaces
<1>5. Becomes(s, Record(there, handler[s].request, handler[s].message,
                        subscribers[board[s]]))
  BY <1>2, <1>3
<1>6. Typed'
  BY <1>1, <1>3, <1>4, OthersKeepTheirPurpose
  DEF Collect, Typed, Types, Becomes, Handlers, shared, own, posts
<1> QED BY <1>5, <1>6

LEMMA PostNextMoves ==
    ASSUME Typed, NEW s \in Sessions, NEW here \in {"post", "farewell"}, PostNext(s, here)
    PROVE  /\ Typed'
           /\ Becomes(s, Record(here, handler[s].request, handler[s].message,
                                Tail(handler[s].to)))
<1>1. Becomes(s, Record(handler[s].at, handler[s].request, handler[s].message,
                        Tail(handler[s].to)))
  BY NextMoves DEF PostNext, At, Typed, Types, Handlers
<1>2. Purpose(s) /\ board' = board
  BY DEF PostNext, Typed, own
<1>3. Purpose(s)'
  BY <1>1, <1>2 DEF Purpose, Becomes, Record
<1>4. PICK t \in Sessions, m \in Message : t = Head(handler[s].to) /\ m = handler[s].message
  <2>1. handler[s].to \in Seq(Sessions) /\ handler[s].message \in Message
    BY BusyIs DEF PostNext, At, Typed, Types, Handlers
  <2> QED BY <2>1 DEF PostNext
<1>5. strand' \in [Sessions -> Seq(Message)]
  BY <1>4, PostTypes DEF PostNext, Typed, Types
<1>6. Becomes(s, Record(here, handler[s].request, handler[s].message,
                        Tail(handler[s].to)))
  BY <1>1 DEF PostNext, At
<1>7. Typed'
  BY <1>1, <1>2, <1>3, <1>5, OthersKeepTheirPurpose
  DEF PostNext, Typed, Types, Becomes, Handlers, shared, own
<1> QED BY <1>6, <1>7

\* The broadcast has posted to the last of its recipients.
LEMMA BroadcastEndMoves ==
    ASSUME Typed, NEW s \in Sessions, At(s, "post"), Finish(s), UNCHANGED <<shared, own, posts>>
    PROVE  /\ Typed'
           /\ Becomes(s, Idle)
<1>1. Becomes(s, Idle)
  BY FinishMoves DEF Typed, Types, Handlers
<1>2. Purpose(s)'
  BY <1>1, IdlePurpose DEF Becomes
<1> QED
  BY <1>1, <1>2, OthersKeepTheirPurpose
  DEF Typed, Types, Becomes, Handlers, shared, own, posts

\* A handler that answers its request is done, with a message on the strand or not.
LEMMA AnswerTypes ==
    ASSUME Typed, NEW s \in Sessions, NEW m \in Message, Answer(s, m)
    PROVE  Becomes(s, Idle) /\ Purpose(s)' /\ strand' \in [Sessions -> Seq(Message)]
<1>1. Becomes(s, Idle)
  BY FinishMoves DEF Typed, Types, Handlers, Answer
<1>2. Purpose(s)'
  BY <1>1, IdlePurpose DEF Becomes
<1>3. strand' \in [Sessions -> Seq(Message)]
  BY PostTypes DEF Typed, Types, Answer
<1> QED BY <1>1, <1>2, <1>3

\* Left, by its three kinds of request.
LEMMA LeftIs ==
    ASSUME Typed, NEW s \in Sessions, Left(s)
    PROVE  /\ board' = [board EXCEPT ![s] = NoBoard]
           /\ UNCHANGED <<shared, reading, ghost, asked>>
           /\ handler[s].at = "farewell" /\ handler[s].to = <<>>
           /\ \/ /\ handler[s].request.type = "join"
                 /\ Goto(s, "join") /\ UNCHANGED posts
              \/ handler[s].request.type = "leave" /\ Answer(s, LeaveBoardResponse)
              \/ /\ handler[s].request.type = "hangup"
                 /\ Finish(s) /\ UNCHANGED posts
<1>1. handler[s].request.type \in {"join", "leave", "hangup"}
  BY DEF Left, At, Typed, Purpose, Leaving
<1>2. CASE handler[s].request.type = "join"
  <2>1. Goto(s, "join") /\ UNCHANGED posts
    BY <1>2, Zenon DEF Left
  <2> QED BY <1>2, <2>1 DEF Left, At
<1>3. CASE handler[s].request.type = "leave"
  <2>1. Answer(s, LeaveBoardResponse)
    BY <1>3, Zenon DEF Left
  <2> QED BY <1>3, <2>1 DEF Left, At
<1>4. CASE handler[s].request.type = "hangup"
  <2>1. Finish(s) /\ UNCHANGED posts
    BY <1>4, Zenon DEF Left
  <2> QED BY <1>4, <2>1 DEF Left, At
<1> QED BY <1>1, <1>2, <1>3, <1>4

LEMMA LeftMoves ==
    ASSUME Typed, NEW s \in Sessions, Left(s)
    PROVE  Typed'
<1>1. /\ board' = [board EXCEPT ![s] = NoBoard]
      /\ board' \in [Sessions -> Boards \cup {NoBoard}]
      /\ board'[s] = NoBoard /\ \A t \in Sessions \ {s} : board'[t] = board[t]
  BY LeftIs DEF Typed, Types
<1>2. CASE handler[s].request.type = "join" /\ Goto(s, "join") /\ UNCHANGED posts
  <2>1. Becomes(s, Record("join", handler[s].request, handler[s].message, handler[s].to))
    BY <1>2, LeftIs, GotoMoves DEF Typed, Types, Handlers, Places
  <2>2. Purpose(s)'
    BY <1>1, <1>2, <2>1 DEF Purpose, Becomes, Record, Leaving
  <2> QED
    BY <1>1, <1>2, <2>1, <2>2, LeftIs, OthersKeepTheirPurpose
    DEF Typed, Types, Becomes, Handlers, shared, posts
<1>3. CASE Answer(s, LeaveBoardResponse)
  <2>1. Becomes(s, Idle) /\ Purpose(s)' /\ strand' \in [Sessions -> Seq(Message)]
    BY <1>3, AnswerTypes, MessageTypes
  <2> QED
    BY <1>1, <2>1, LeftIs, OthersKeepTheirPurpose
    DEF Typed, Types, Becomes, Handlers, shared
<1>4. CASE Finish(s) /\ UNCHANGED posts
  <2>1. Becomes(s, Idle)
    BY <1>4, FinishMoves DEF Typed, Types, Handlers
  <2>2. Purpose(s)'
    BY <2>1, IdlePurpose DEF Becomes
  <2> QED
    BY <1>1, <1>4, <2>1, <2>2, LeftIs, OthersKeepTheirPurpose
    DEF Typed, Types, Becomes, Handlers, shared, posts
<1> QED BY <1>2, <1>3, <1>4, LeftIs

\* The board of a request is one.
LEMMA RequestedIs ==
    ASSUME Typed, NEW s \in Sessions,
           handler[s].at \in {"join", "subscribe", "snapshot", "present", "apply", "collect",
                              "post", "delete", "close", "notify"}
    PROVE  /\ handler[s].request \in AnyRequest
           /\ handler[s].request.board \in Boards
           /\ handler[s].request.type \in {"join", "delete", "operation"}
<1>1. handler[s].request \in AnyRequest \cup {Hangup} /\ Purpose(s)
  BY BusyIs DEF Typed, Types, Handlers
<1>2. handler[s].request.type \in {"join", "delete", "operation"}
  BY <1>1 DEF Purpose, Leaving
<1>3. handler[s].request \in AnyRequest
  BY <1>1, <1>2 DEF Hangup
<1> QED BY <1>2, <1>3, RequestTypes

\* A handler that answers its request with an error.
LEMMA RefusedMoves ==
    ASSUME Typed, NEW s \in Sessions, NEW code \in Codes, Answer(s, Error(code)),
           UNCHANGED <<shared, own>>
    PROVE  /\ Typed'
           /\ Becomes(s, Idle)
<1>1. Becomes(s, Idle) /\ Purpose(s)' /\ strand' \in [Sessions -> Seq(Message)]
  BY AnswerTypes, MessageTypes
<1> QED
  BY <1>1, OthersKeepTheirPurpose DEF Typed, Types, Becomes, Handlers, shared, own

LEMMA JoinBoardMoves ==
    ASSUME Typed, NEW s \in Sessions, JoinBoard(s)
    PROVE  /\ Typed'
           /\ Becomes(s, Record("subscribe", handler[s].request, handler[s].message,
                                handler[s].to))
<1>1. PICK b \in Boards : b = handler[s].request.board
  BY RequestedIs DEF JoinBoard, At
<1>2. Becomes(s, Record("subscribe", handler[s].request, handler[s].message, handler[s].to))
  BY GotoMoves DEF JoinBoard, At, Typed, Types, Handlers, Places
<1>3. /\ board' = [board EXCEPT ![s] = b]
      /\ board'[s] = b /\ \A t \in Sessions \ {s} : board'[t] = board[t]
      /\ board' \in [Sessions -> Boards \cup {NoBoard}]
  BY <1>1 DEF JoinBoard, Typed, Types
<1>4. Purpose(s)'
  BY <1>1, <1>2, <1>3 DEF Purpose, Becomes, Record, JoinBoard, At, Leaving, Typed
<1>5. Identity[s] \in Principals
  BY IdentityAssumption
<1>6. runtime' \in [Boards -> Runtime]
  <2>1. PICK x : x = [runtime[b] EXCEPT !.status = "open",
                                        !.participants = @ \cup {Identity[s]}]
    OBVIOUS
  <2>2. runtime[b] \in Runtime
    BY DEF Typed, Types
  <2>3. x \in Runtime
    BY <2>1, <2>2, <1>5 DEF Runtime
  <2>4. runtime' = [runtime EXCEPT ![b] = x]
    BY <1>1, <2>1 DEF JoinBoard, Typed, Types
  <2> QED BY <2>3, <2>4 DEF Typed, Types
<1> QED
  BY <1>2, <1>3, <1>4, <1>6, OthersKeepTheirPurpose
  DEF JoinBoard, Typed, Types, Becomes, Handlers, posts

LEMMA SubscribeMoves ==
    ASSUME Typed, NEW s \in Sessions, Subscribe(s)
    PROVE  /\ Typed'
           /\ Becomes(s, Record("snapshot", handler[s].request, handler[s].message,
                                handler[s].to))
<1>1. Becomes(s, Record("snapshot", handler[s].request, handler[s].message, handler[s].to))
  BY GotoMoves DEF Subscribe, At, Typed, Types, Handlers, Places
<1>2. board[s] \in Boards /\ Purpose(s) /\ board' = board
  BY OnBoardIs DEF Subscribe, At, Typed, OnBoard, own
<1>3. Purpose(s)'
  BY <1>1, <1>2 DEF Purpose, Becomes, Record, Subscribe, At, Leaving
<1>4. PICK q \in Seq(Sessions) : q = Append(subscribers[board[s]], s)
  <2>1. subscribers[board[s]] \in Seq(Sessions)
    BY <1>2 DEF Typed, Types
  <2>2. Append(subscribers[board[s]], s) \in Seq(Sessions)
    BY <2>1
  <2> QED BY <2>2
<1>5. subscribers' \in [Boards -> Seq(Sessions)]
  BY <1>2, <1>4 DEF Subscribe, Typed, Types
<1> QED
  BY <1>1, <1>2, <1>3, <1>5, OthersKeepTheirPurpose
  DEF Subscribe, Typed, Types, Becomes, Handlers, own, posts

LEMMA ReadSnapshotMoves ==
    ASSUME Typed, NEW s \in Sessions, ReadSnapshot(s)
    PROVE  /\ Typed'
           /\ Becomes(s, Record("respond", handler[s].request,
                                JoinResponse(board[s], runtime[board[s]]), handler[s].to))
<1>1. board[s] \in Boards /\ Purpose(s) /\ board' = board
  BY OnBoardIs DEF ReadSnapshot, At, Typed, OnBoard, own
<1>2. PICK m \in Message : m = JoinResponse(board[s], runtime[board[s]])
  BY <1>1, MessageTypes DEF Typed, Types
<1>3. Becomes(s, Record("respond", handler[s].request, m, handler[s].to))
  BY <1>2, SayMoves DEF ReadSnapshot, At, Typed, Types, Handlers, Places
<1>4. Purpose(s)'
  BY <1>1, <1>2, <1>3 DEF Purpose, Becomes, Record, ReadSnapshot, At, Leaving, JoinResponse
<1>5. Becomes(s, Record("respond", handler[s].request,
                        JoinResponse(board[s], runtime[board[s]]), handler[s].to))
  BY <1>2, <1>3
<1>6. Typed'
  BY <1>1, <1>3, <1>4, OthersKeepTheirPurpose
  DEF ReadSnapshot, Typed, Types, Becomes, Handlers, shared, own, posts
<1> QED BY <1>5, <1>6

LEMMA RespondMoves ==
    ASSUME Typed, NEW s \in Sessions, Respond(s)
    PROVE  /\ Typed'
           /\ Becomes(s, IF handler[s].request.type = "join"
                        THEN Record("present", handler[s].request, handler[s].message,
                                    handler[s].to)
                        ELSE Idle)
<1>1. handler[s].message \in Message /\ Purpose(s) /\ board' = board
  BY BusyIs DEF Respond, At, Typed, Types, Handlers, own
<1>2. strand' \in [Sessions -> Seq(Message)]
  BY <1>1, PostTypes DEF Respond, Typed, Types
<1>3. CASE handler[s].request.type = "join"
  <2>1. Becomes(s, Record("present", handler[s].request, handler[s].message, handler[s].to))
    BY <1>3, GotoMoves DEF Respond, At, Typed, Types, Handlers, Places
  <2>2. Purpose(s)'
    BY <1>1, <1>3, <2>1 DEF Purpose, Becomes, Record, Respond, At, Leaving
  <2>3. Typed'
    BY <1>1, <1>2, <2>1, <2>2, OthersKeepTheirPurpose
    DEF Respond, Typed, Types, Becomes, Handlers, shared, own
  <2> QED BY <1>3, <2>1, <2>3
<1>4. CASE handler[s].request.type # "join"
  <2>1. Becomes(s, Idle)
    BY <1>4, FinishMoves DEF Respond, Typed, Types, Handlers
  <2>2. Purpose(s)'
    BY <2>1, IdlePurpose DEF Becomes
  <2>3. Typed'
    BY <1>1, <1>2, <2>1, <2>2, OthersKeepTheirPurpose
    DEF Respond, Typed, Types, Becomes, Handlers, shared, own
  <2> QED BY <1>4, <2>1, <2>3
<1> QED BY <1>3, <1>4

LEMMA ReadPresentMoves ==
    ASSUME Typed, NEW s \in Sessions, ReadPresent(s)
    PROVE  /\ Typed'
           /\ Becomes(s, Record("collect", handler[s].request,
                                PresenceUpdate(runtime[board[s]].participants),
                                handler[s].to))
<1>1. board[s] \in Boards /\ Purpose(s) /\ board' = board
  BY OnBoardIs DEF ReadPresent, At, Typed, OnBoard, own
<1>2. PICK m \in Message : m = PresenceUpdate(runtime[board[s]].participants)
  BY <1>1, MessageTypes DEF Typed, Types, Runtime
<1>3. Becomes(s, Record("collect", handler[s].request, m, handler[s].to))
  BY <1>2, SayMoves DEF ReadPresent, At, Typed, Types, Handlers, Places
<1>4. Purpose(s)'
  BY <1>1, <1>2, <1>3 DEF Purpose, Becomes, Record, ReadPresent, At, Leaving, PresenceUpdate
<1>5. Becomes(s, Record("collect", handler[s].request,
                        PresenceUpdate(runtime[board[s]].participants), handler[s].to))
  BY <1>2, <1>3
<1>6. Typed'
  BY <1>1, <1>3, <1>4, OthersKeepTheirPurpose
  DEF ReadPresent, Typed, Types, Becomes, Handlers, shared, own, posts
<1> QED BY <1>5, <1>6

LEMMA ApplyOperationMoves ==
    ASSUME Typed, NEW s \in Sessions, ApplyOperation(s)
    PROVE  /\ Typed'
           /\ Becomes(s, Record("collect", handler[s].request,
                                OperationApplied(board[s], runtime[board[s]].revision + 1,
                                                 Identity[s], handler[s].request.command),
                                handler[s].to))
<1>1. board[s] \in Boards /\ Purpose(s) /\ board' = board
  BY OnBoardIs DEF ApplyOperation, At, Typed, OnBoard, own
<1>2. /\ handler[s].request \in AnyRequest /\ handler[s].request.type = "operation"
      /\ handler[s].request.board = board[s]
  BY <1>1, RequestedIs DEF ApplyOperation, At, Purpose
<1>3. PICK c \in Command : c = handler[s].request.command
  BY <1>2, RequestTypes
<1>4. PICK b \in Boards : b = handler[s].request.board /\ b = board[s]
  BY <1>1, <1>2
<1>5. PICK next \in Nat : next = runtime[b].revision + 1
  BY DEF Typed, Types, Runtime
<1>6. PICK m \in Message : m = OperationApplied(b, next, Identity[s], c)
  BY IdentityAssumption, MessageTypes
<1>7. Becomes(s, Record("collect", handler[s].request, m, handler[s].to))
  BY <1>3, <1>4, <1>5, <1>6, SayMoves DEF ApplyOperation, At, Typed, Types, Handlers, Places
<1>8. Purpose(s)'
  BY <1>1, <1>2, <1>4, <1>6, <1>7
  DEF Purpose, Becomes, Record, ApplyOperation, At, Leaving, OperationApplied
<1>9. runtime' \in [Boards -> Runtime]
  <2>1. runtime[b].objects \in Objects
    BY DEF Typed, Types, Runtime
  <2>2. Accepts(runtime[b].objects, c)
    BY <1>3, <1>4 DEF ApplyOperation, Verdict, Accepts
  <2>3. PICK x \in Objects : x = Apply(runtime[b].objects, c)
    BY <2>1, <2>2, ApplyType
  <2>4. runtime' = [runtime EXCEPT ![b].revision = next, ![b].objects = x]
    BY <2>3, <1>3, <1>4, <1>5 DEF ApplyOperation, Typed, Types
  <2> QED BY <2>4 DEF Typed, Types, Runtime
<1>10. Becomes(s, Record("collect", handler[s].request,
                         OperationApplied(board[s], runtime[board[s]].revision + 1,
                                          Identity[s], handler[s].request.command),
                         handler[s].to))
  BY <1>3, <1>4, <1>5, <1>6, <1>7
<1>11. rows' \subseteq Boards
  BY <1>4 DEF ApplyOperation, Typed, Types
<1>12. Typed'
  BY <1>1, <1>7, <1>8, <1>9, <1>11, OthersKeepTheirPurpose
  DEF ApplyOperation, Typed, Types, Becomes, Handlers, own, posts
<1> QED BY <1>10, <1>12

\* Validation has a few answers.
LEMMA VerdictIs ==
    ASSUME NEW s \in Sessions
    PROVE  Verdict(s) \in Codes \cup {"ok"}
<1>1. \A o, c : /\ CreateFailure(o, c) \in Codes \cup {"ok"}
               /\ ResizeFailure(o, c) \in Codes \cup {"ok"}
               /\ UpdateFailure(o, c) \in Codes \cup {"ok"}
  BY DEF CreateFailure, UpdateFailure, ResizeFailure, Codes
<1>2. \A objects, c : Failure(objects, c) \in Codes \cup {"ok"}
  BY <1>1 DEF Failure, Codes
<1> QED BY <1>2 DEF Verdict, Codes

LEMMA OperationRejectedMoves ==
    ASSUME Typed, NEW s \in Sessions, OperationRejected(s)
    PROVE  /\ Typed'
           /\ Becomes(s, Idle)
<1>1. PICK code \in Codes : code = IF Verdict(s) = "ok" THEN "refused" ELSE Verdict(s)
  BY VerdictIs DEF Codes
<1> QED BY <1>1, RefusedMoves DEF OperationRejected

LEMMA DeleteRowsMoves ==
    ASSUME Typed, NEW s \in Sessions, DeleteRows(s)
    PROVE  /\ Typed'
           /\ Becomes(s, Record("close", handler[s].request, handler[s].message,
                                handler[s].to))
<1>1. PICK b \in Boards : b = handler[s].request.board
  BY RequestedIs DEF DeleteRows, At
<1>2. Becomes(s, Record("close", handler[s].request, handler[s].message, handler[s].to))
  BY GotoMoves DEF DeleteRows, At, Typed, Types, Handlers, Places
<1>3. Purpose(s) /\ board' = board
  BY DEF DeleteRows, Typed, own
<1>4. Purpose(s)'
  BY <1>2, <1>3 DEF Purpose, Becomes, Record, DeleteRows, At, Leaving
<1>5. runtime' \in [Boards -> Runtime]
  <2>1. PICK x : x = [runtime[b] EXCEPT !.participants = {},
                                        !.status = IF @ = "open" THEN "closed" ELSE @]
    OBVIOUS
  <2>2. runtime[b] \in Runtime
    BY DEF Typed, Types
  <2>3. x \in Runtime
    BY <2>1, <2>2 DEF Runtime
  <2>4. runtime' = [runtime EXCEPT ![b] = x]
    BY <1>1, <2>1 DEF DeleteRows, Typed, Types
  <2> QED BY <2>3, <2>4 DEF Typed, Types
<1>6. rows' \subseteq Boards /\ kept' \subseteq Boards
  BY DEF DeleteRows, Typed, Types
<1> QED
  BY <1>2, <1>3, <1>4, <1>5, <1>6, OthersKeepTheirPurpose
  DEF DeleteRows, Typed, Types, Becomes, Handlers, own, posts

LEMMA CloseBoardMoves ==
    ASSUME Typed, NEW s \in Sessions, CloseBoard(s)
    PROVE  /\ Typed'
           /\ Becomes(s, Record("notify", handler[s].request, handler[s].message,
                                subscribers[handler[s].request.board]))
<1>1. PICK b \in Boards : b = handler[s].request.board
  BY RequestedIs DEF CloseBoard, At
<1>2. PICK q \in Seq(Sessions) : q = subscribers[b]
  BY DEF Typed, Types
<1>3. Becomes(s, Record("notify", handler[s].request, handler[s].message, q))
  BY <1>1, <1>2, GatherMoves DEF CloseBoard, At, Typed, Types, Handlers, Places
<1>4. Purpose(s) /\ board' = board
  BY DEF CloseBoard, Typed, own
<1>5. Purpose(s)'
  BY <1>3, <1>4 DEF Purpose, Becomes, Record, CloseBoard, At, Leaving
<1>6. subscribers' \in [Boards -> Seq(Sessions)]
  BY <1>1 DEF CloseBoard, Typed, Types
<1>7. Becomes(s, Record("notify", handler[s].request, handler[s].message,
                        subscribers[handler[s].request.board]))
  BY <1>1, <1>2, <1>3
<1>8. Typed'
  BY <1>3, <1>4, <1>5, <1>6, OthersKeepTheirPurpose
  DEF CloseBoard, Typed, Types, Becomes, Handlers, own, posts
<1> QED BY <1>7, <1>8

\* A strand after Notify.
Informed(q, self, b) ==
    IF self THEN Append(q, Notice(b)) ELSE Append(Append(q, Notice(b)), BoardDeleted(b))

\* What Notify appends to a strand.
LEMMA InformedIs ==
    ASSUME NEW q \in Seq(Message), NEW b \in Boards, NEW self \in BOOLEAN
    PROVE  /\ Informed(q, self, b) \in Seq(Message)
           /\ Informed(q, self, b)
                = q \o <<Notice(b)>> \o (IF self THEN <<>> ELSE <<BoardDeleted(b)>>)
<1>1. PICK n, d \in Message : n = Notice(b) /\ d = BoardDeleted(b)
  BY MessageTypes
<1>2. PICK p : p = Append(q, n)
  OBVIOUS
<1>3. p \in Seq(Message) /\ p = q \o <<n>>
  BY <1>2, AppendIsConcat, AppendProperties
<1>4. Append(p, d) \in Seq(Message) /\ Append(p, d) = p \o <<d>>
  BY <1>3, AppendIsConcat, AppendProperties
<1>5. p \o <<>> = p
  BY <1>3, ConcatEmptySeq
<1> QED BY <1>1, <1>2, <1>3, <1>4, <1>5 DEF Informed

\* Notify, as what becomes of the handler and of the strands.
LEMMA NotifyIs ==
    ASSUME Typed, NEW s \in Sessions, Notify(s)
    PROVE  /\ At(s, "notify") /\ handler[s].to # <<>>
           /\ handler[s].to \in Seq(Sessions)
           /\ handler[s].request.board \in Boards
           /\ Head(handler[s].to) \in Sessions
           /\ Becomes(s, Record("notify", handler[s].request, handler[s].message,
                                Tail(handler[s].to)))
           /\ strand' = [strand EXCEPT ![Head(handler[s].to)] =
                  Informed(@, Head(handler[s].to) = s, handler[s].request.board)]
           /\ UNCHANGED <<shared, own, client>>
<1>1. handler[s].to \in Seq(Sessions) /\ handler[s].request.board \in Boards
  BY RequestedIs, BusyIs DEF Notify, At, Typed, Types, Handlers
<1>2. Head(handler[s].to) \in Sessions
  BY <1>1 DEF Notify
<1>3. Becomes(s, Record("notify", handler[s].request, handler[s].message,
                        Tail(handler[s].to)))
  BY NextMoves DEF Notify, At, Typed, Types, Handlers
<1>4. PICK t \in Sessions, b \in Boards : t = Head(handler[s].to) /\ b = handler[s].request.board
  BY <1>1, <1>2
<1>5. strand' = [strand EXCEPT ![t] = @ \o <<Notice(b)>>
                                        \o (IF t = s THEN <<>> ELSE <<BoardDeleted(b)>>)]
  BY <1>4 DEF Notify, PostNotice
<1>6. strand[t] \in Seq(Message)
  BY DEF Typed, Types
<1>7. PICK self \in BOOLEAN : self = (t = s)
  OBVIOUS
<1>8. Informed(strand[t], self, b)
        = strand[t] \o <<Notice(b)>> \o (IF self THEN <<>> ELSE <<BoardDeleted(b)>>)
  BY <1>6, InformedIs
<1>9. strand' = [strand EXCEPT ![t] = Informed(@, t = s, b)]
  BY <1>5, <1>7, <1>8
<1> QED BY <1>1, <1>2, <1>3, <1>4, <1>9 DEF Notify, PostNotice

LEMMA NotifyMoves ==
    ASSUME Typed, NEW s \in Sessions, Notify(s)
    PROVE  Typed'
<1>1. PICK t \in Sessions, b \in Boards : t = Head(handler[s].to) /\ b = handler[s].request.board
  BY NotifyIs
<1>2. PICK self \in BOOLEAN : self = (t = s)
  OBVIOUS
<1>3. PICK q \in Seq(Message) : q = Informed(strand[t], self, b)
  <2>1. strand[t] \in Seq(Message)
    BY DEF Typed, Types
  <2>2. Informed(strand[t], self, b) \in Seq(Message)
    BY <2>1, InformedIs
  <2> QED BY <2>2
<1>4. strand' = [strand EXCEPT ![t] = q]
  BY <1>1, <1>2, <1>3, NotifyIs
<1>5. strand' \in [Sessions -> Seq(Message)]
  BY <1>4 DEF Typed, Types
<1>6. Purpose(s) /\ board' = board
  BY NotifyIs DEF Typed, own
<1>7. Purpose(s)'
  BY <1>6, NotifyIs DEF Purpose, Becomes, Record, Notify, At, Leaving
<1>8. PICK h : Becomes(s, h)
  BY NotifyIs
<1>9. \A u \in Sessions : Purpose(u)'
  BY <1>6, <1>7, <1>8, OthersKeepTheirPurpose DEF Typed
<1> QED BY <1>5, <1>6, <1>8, <1>9, NotifyIs DEF Typed, Types, Becomes, Handlers, shared, own

LEMMA DeletedMoves ==
    ASSUME Typed, NEW s \in Sessions, Deleted(s)
    PROVE  /\ Typed'
           /\ Becomes(s, Idle)
<1>1. PICK m \in Message :
        m = [type |-> "delete_board_response", board |-> handler[s].request.board]
  BY RequestedIs, MessageTypes DEF Deleted, At
<1>2. Becomes(s, Idle) /\ Purpose(s)' /\ strand' \in [Sessions -> Seq(Message)]
  BY <1>1, AnswerTypes DEF Deleted
<1> QED
  BY <1>2, OthersKeepTheirPurpose DEF Deleted, Typed, Types, Becomes, Handlers, shared, own

LEMMA RunPostedMoves ==
    ASSUME Typed, NEW s \in Sessions, RunPosted(s)
    PROVE  Typed'
<1>1. PICK q \in Seq(Message) : q = Tail(strand[s])
  <2>1. strand[s] \in Seq(Message) /\ strand[s] # <<>>
    BY DEF Typed, Types, RunPosted
  <2>2. Tail(strand[s]) \in Seq(Message)
    BY <2>1
  <2> QED BY <2>2
<1>2. strand' \in [Sessions -> Seq(Message)]
  BY <1>1 DEF RunPosted, Typed, Types
<1>3. /\ board' \in [Sessions -> Boards \cup {NoBoard}]
      /\ \A t \in Sessions \ {s} : board'[t] = board[t]
  BY DEF RunPosted, Typed, Types
<1>4. \A t \in Sessions \ {s} : Purpose(t)'
  BY <1>3 DEF RunPosted, Typed, Purpose
<1>5. Purpose(s)'
  BY DEF RunPosted, At, Purpose, Leaving
<1> QED BY <1>2, <1>3, <1>4, <1>5 DEF RunPosted, Typed, Types, shared

\* Where a request begins.
LEMMA DispatchIs ==
    ASSUME NEW s \in Sessions, NEW r \in AnyRequest, Dispatch(s, r)
    PROVE  \/ /\ board[s] = NoBoard /\ r.type = "join"
              /\ Begin(s, r, "join")
           \/ /\ board[s] # NoBoard /\ r.type \in {"join", "leave"}
              /\ Begin(s, r, "leave")
           \/ /\ board[s] # NoBoard /\ r.type = "operation" /\ board[s] = r.board
              /\ Begin(s, r, "apply")
           \/ r.type = "delete" /\ Begin(s, r, "delete")
           \/ /\ r.type \in {"leave", "operation"}
              /\ \E m \in Message :
                    m.type \in {"error", "leave_board_response"} /\ Reply(s, r, m)
<1>1. CASE r.type = "join"
  <2>1. Begin(s, r, IF board[s] = NoBoard THEN "join" ELSE "leave")
    BY <1>1, Zenon DEF Dispatch
  <2> QED BY <1>1, <2>1
<1>2. CASE r.type = "leave"
  <2>1. IF board[s] = NoBoard THEN Reply(s, r, LeaveBoardResponse) ELSE Begin(s, r, "leave")
    BY <1>2, Zenon DEF Dispatch
  <2> QED BY <1>2, <2>1, MessageTypes DEF LeaveBoardResponse
<1>3. CASE r.type = "operation"
  <2>1. IF board[s] = NoBoard THEN Reply(s, r, Error("access_denied"))
        ELSE IF board[s] # r.board THEN Reply(s, r, Error("invalid_argument"))
        ELSE Begin(s, r, "apply")
    BY <1>3, Zenon DEF Dispatch
  <2>2. \A code \in Codes : Error(code) \in Message /\ Error(code).type = "error"
    BY MessageTypes DEF Error
  <2> QED BY <1>3, <2>1, <2>2 DEF Codes
<1>4. CASE r.type = "delete"
  <2>1. Begin(s, r, "delete")
    BY <1>4, Zenon DEF Dispatch
  <2> QED BY <1>4, <2>1
<1> QED BY <1>1, <1>2, <1>3, <1>4, RequestTypes

\* And as what.
LEMMA DispatchMoves ==
    ASSUME Typed, NEW s \in Sessions, NEW r \in AnyRequest, Dispatch(s, r), board' = board
    PROVE  /\ \E place \in {"join", "leave", "apply", "delete", "respond"}, m \in Message :
                /\ Becomes(s, Record(place, r, m, <<>>))
                /\ place = "respond" => r.type # "join"
           /\ Purpose(s)'
<1>1. handler \in Handlers
  BY DEF Typed, Types, Handlers
<1>2. PICK none \in Message : none = [type |-> "none"]
  BY DEF Message
<1>3. ASSUME NEW place \in {"join", "leave", "apply", "delete"}, Begin(s, r, place)
      PROVE  Becomes(s, Record(place, r, none, <<>>))
  BY <1>1, <1>2, <1>3, BeginMoves DEF Places
<1>4. CASE board[s] = NoBoard /\ r.type = "join" /\ Begin(s, r, "join")
  <2>1. Becomes(s, Record("join", r, none, <<>>))
    BY <1>3, <1>4
  <2> QED BY <1>4, <2>1 DEF Purpose, Becomes, Record, Leaving
<1>5. CASE board[s] # NoBoard /\ r.type \in {"join", "leave"} /\ Begin(s, r, "leave")
  <2>1. Becomes(s, Record("leave", r, none, <<>>))
    BY <1>3, <1>5
  <2> QED BY <1>5, <2>1 DEF Purpose, Becomes, Record, Leaving
<1>6. CASE /\ board[s] # NoBoard /\ r.type = "operation" /\ board[s] = r.board
           /\ Begin(s, r, "apply")
  <2>1. Becomes(s, Record("apply", r, none, <<>>))
    BY <1>3, <1>6
  <2> QED BY <1>6, <2>1 DEF Purpose, Becomes, Record, Leaving
<1>7. CASE r.type = "delete" /\ Begin(s, r, "delete")
  <2>1. Becomes(s, Record("delete", r, none, <<>>))
    BY <1>3, <1>7
  <2> QED BY <1>7, <2>1 DEF Purpose, Becomes, Record, Leaving
<1>8. CASE /\ r.type \in {"leave", "operation"}
           /\ \E m \in Message :
                 m.type \in {"error", "leave_board_response"} /\ Reply(s, r, m)
  <2>1. PICK m \in Message : m.type \in {"error", "leave_board_response"} /\ Reply(s, r, m)
    BY <1>8
  <2>2. Becomes(s, Record("respond", r, m, <<>>))
    BY <1>1, <2>1, ReplyMoves
  <2> QED BY <1>8, <2>1, <2>2 DEF Purpose, Becomes, Record, Leaving
<1> QED BY <1>4, <1>5, <1>6, <1>7, <1>8, DispatchIs

\* The rows are gone, and the owner is told of an error.
LEMMA DeleteLostMoves ==
    ASSUME Typed, NEW s \in Sessions, DeleteLost(s)
    PROVE  /\ Typed'
           /\ Becomes(s, Idle)
<1>1. Answer(s, Error("refused")) /\ "refused" \in Codes
  BY DEF DeleteLost, Codes
<1>2. Becomes(s, Idle) /\ Purpose(s)' /\ strand' \in [Sessions -> Seq(Message)]
  BY <1>1, AnswerTypes, MessageTypes
<1>3. rows' \subseteq Boards
  BY DEF DeleteLost, Typed, Types
<1> QED
  BY <1>2, <1>3, OthersKeepTheirPurpose
  DEF DeleteLost, Typed, Types, Becomes, Handlers, own

\* A session accepts a request.
LEMMA AcceptMoves ==
    ASSUME Typed, NEW s \in Sessions, NEW r \in AnyRequest, Accept(s, r),
           asked' \in [Sessions -> 0 .. MaxRequests]
    PROVE  Typed'
<1>1. Dispatch(s, r) /\ UNCHANGED <<shared, board, reading, ghost, strand>>
  BY DEF Accept
<1>2. PICK h : Becomes(s, h) /\ Purpose(s)'
  BY <1>1, DispatchMoves
<1> QED
  BY <1>1, <1>2, OthersKeepTheirPurpose DEF Typed, Types, Becomes, Handlers, shared

\* Of a client that may send anything.
LEMMA ReceiveMoves ==
    ASSUME Typed, NEW s \in Sessions, NEW r \in Requests, Receive(s, r)
    PROVE  Typed'
<1>1. asked' \in [Sessions -> 0 .. MaxRequests]
  BY BoundAssumption DEF Receive, Typed, Types
<1>2. Accept(s, r)
  BY DEF Receive
<1> QED BY <1>1, <1>2, RequestsAre, AcceptMoves

LEMMA DisconnectMoves ==
    ASSUME Typed, NEW s \in Sessions, Disconnect(s)
    PROVE  Typed'
<1>1. reading' \in [Sessions -> {"open", "last", "closed"}]
  BY DEF Disconnect, Typed, Types
<1>2. CASE board[s] = NoBoard
  BY <1>1, <1>2 DEF Disconnect, Typed, Types, Purpose, shared, posts
<1>3. CASE board[s] # NoBoard
  <2>1. Becomes(s, Record("leave", Hangup, [type |-> "none"], <<>>))
    BY <1>3, BeginMoves DEF Disconnect, Typed, Types, Handlers, Places
  <2>2. Purpose(s)'
    BY <1>3, <2>1 DEF Disconnect, Purpose, Becomes, Record, Leaving, Hangup
  <2> QED
    BY <1>1, <2>1, <2>2, OthersKeepTheirPurpose
    DEF Disconnect, Typed, Types, Becomes, Handlers, shared, posts
<1> QED BY <1>2, <1>3

\* Expire, session by session and board by board.
LEMMA ExpireIs ==
    ASSUME Typed, NEW s \in Sessions, Expire(s)
    PROVE  /\ handler[s].at = "idle" /\ strand[s] = <<>>
           /\ UNCHANGED <<rows, kept, runtime, asked, handler, strand, client>>
           /\ \A t \in Sessions :
                /\ board'[t] = IF t = s THEN NoBoard ELSE board[t]
                /\ ghost'[t] = IF t = s THEN board[s] ELSE ghost[t]
                /\ reading'[t] = IF t = s THEN "closed" ELSE reading[t]
                /\ handler[t].at # "idle" => s \notin Range(handler[t].to)
           /\ \A b \in Boards :
                /\ subscribers'[b] \in Seq(Sessions)
                /\ Range(subscribers'[b]) = Range(subscribers[b]) \ {s}
                /\ IsInjective(subscribers[b]) => IsInjective(subscribers'[b])
<1>1. ASSUME NEW b \in Boards
      PROVE  /\ subscribers'[b] \in Seq(Sessions)
             /\ Range(subscribers'[b]) = Range(subscribers[b]) \ {s}
             /\ IsInjective(subscribers[b]) => IsInjective(subscribers'[b])
  <2>1. subscribers[b] \in Seq(Sessions) /\ subscribers'[b] = Without(subscribers[b], s)
    BY DEF Expire, Typed, Types
  <2> QED BY <2>1, WithoutIs
<1> QED BY <1>1 DEF Expire, At, posts, Typed, Types

LEMMA ExpireMoves ==
    ASSUME Typed, NEW s \in Sessions, Expire(s)
    PROVE  Typed'
<1>1. board' \in [Sessions -> Boards \cup {NoBoard}]
  BY DEF Expire, Typed, Types
<1>2. /\ reading' \in [Sessions -> {"open", "last", "closed"}]
      /\ ghost' \in [Sessions -> Boards \cup {NoBoard}]
  BY DEF Expire, Typed, Types
<1>3. subscribers' \in [Boards -> Seq(Sessions)]
  BY ExpireIs DEF Expire
<1>4. ASSUME NEW t \in Sessions PROVE Purpose(t)'
  <2>1. CASE t = s
    BY <2>1, ExpireIs DEF Purpose, Leaving
  <2>2. CASE t # s
    <3>1. Purpose(t) /\ handler' = handler /\ board'[t] = board[t]
      BY <2>2, ExpireIs DEF Typed
    <3> QED BY <3>1 DEF Purpose
  <2> QED BY <2>1, <2>2
<1> QED BY <1>1, <1>2, <1>3, <1>4, ExpireIs DEF Typed, Types

\* Every step of the server keeps the types and the purposes of the handlers.
LEMMA StepTypes ==
    ASSUME Typed, Next
    PROVE  Typed'
<1>1. PICK s \in Sessions :
        (\E r \in Requests : Receive(s, r)) \/ Disconnect(s) \/ Expire(s) \/ Step(s)
  BY DEF Next
<1>2. CASE \E r \in Requests : Receive(s, r)
  BY <1>2, ReceiveMoves
<1>3. CASE Disconnect(s)
  BY <1>3, DisconnectMoves
<1>9. CASE Expire(s)
  BY <1>9, ExpireMoves
<1>4. CASE Leave(s)
  BY <1>4, LeaveParticipantMoves, ReadRemainingMoves, UnsubscribeMoves, CollectMoves,
     PostNextMoves, LeftMoves
  DEF Leave, BroadcastPlaces
<1>5. CASE Join(s)
  <2>1. CASE JoinRefused(s)
    BY <2>1, RefusedMoves DEF JoinRefused, Codes
  <2> QED
    BY <1>5, <2>1, JoinBoardMoves, SubscribeMoves, ReadSnapshotMoves, RespondMoves,
       ReadPresentMoves
    DEF Join
<1>6. CASE Broadcast(s)
  BY <1>6, CollectMoves, PostNextMoves, BroadcastEndMoves DEF Broadcast, BroadcastPlaces
<1>7. CASE Delete(s)
  <2>1. CASE DeleteRefused(s)
    BY <2>1, RefusedMoves DEF DeleteRefused, Codes
  <2> QED
    BY <1>7, <2>1, DeleteLostMoves, DeleteRowsMoves, CloseBoardMoves, NotifyMoves, DeletedMoves
       DEF Delete
<1>8. CASE ApplyOperation(s) \/ OperationRejected(s) \/ RunPosted(s)
  BY <1>8, ApplyOperationMoves, OperationRejectedMoves, RunPostedMoves
<1> QED BY <1>1, <1>2, <1>3, <1>4, <1>5, <1>6, <1>7, <1>8, <1>9 DEF Step

\* It all starts well typed.
LEMMA InitTyped ==
    Init => Typed
<1> SUFFICES ASSUME Init PROVE Typed
  OBVIOUS
<1>1. runtime \in [Boards -> Runtime]
  BY DEF Init, Fresh, Runtime, Objects, NoObjects
<1>2. asked \in [Sessions -> 0 .. MaxRequests]
  BY BoundAssumption DEF Init
<1>3. Types
  BY <1>1, <1>2 DEF Init, Types
<1> QED BY <1>3 DEF Typed, Init, Purpose, Idle, Leaving

\* Typed is an invariant.
LEMMA TypedInvariant ==
    Spec => []Typed
<1>1. ASSUME Typed, UNCHANGED vars PROVE Typed'
  BY <1>1 DEF Typed, Types, Purpose, vars
<1>2. Typed /\ [Next]_vars => Typed'
  BY <1>1, StepTypes
<1> QED BY <1>2, InitTyped, PTL DEF Spec

\* The types that the runs check are among those of Typed, but for the rows, which
\* come with Present.
LEMMA TypedIsOK ==
    ASSUME Typed
    PROVE  /\ \A b \in Boards : Range(subscribers[b]) \subseteq Sessions
           /\ rows \subseteq kept => TypeOK
<1>1. \A b \in Boards : Range(subscribers[b]) \subseteq Sessions
  <2>1. ASSUME NEW b \in Boards PROVE Range(subscribers[b]) \subseteq Sessions
    <3>1. subscribers[b] \in Seq(Sessions)
      BY DEF Typed, Types
    <3> QED BY <3>1 DEF Range
  <2> QED BY <2>1
<1>2. \A s \in Sessions : /\ handler[s].at \in Places
                          /\ handler[s].at \in OnBoard => board[s] # NoBoard
  <2>1. ASSUME NEW s \in Sessions PROVE handler[s].at \in Places
    <3>1. CASE handler[s].at = "idle"
      BY <3>1 DEF Places
    <3>2. CASE handler[s].at # "idle"
      BY <3>2, BusyIs DEF Typed, Types, Handlers
    <3> QED BY <3>1, <3>2
  <2> QED BY <2>1, OnBoardIs
<1> QED BY <1>1, <1>2 DEF TypeOK, Typed, Types

-----------------------------------------------------------------------------
(* Presence *)

\* The handlers that hold a board's mutex shared, and alone.
Sharer(s) ==
    \/ handler[s].at \in {"subscribe", "snapshot", "present", "collect", "post"}
    \/ At(s, "respond") /\ handler[s].request.type = "join"

Holder(s) == handler[s].at \in {"close", "notify"}

\* The board is deleted and its subscriptions are taken away.
Closing(b) == \E d \in Sessions : At(d, "close") /\ handler[d].request.board = b
Gone(b) == b \notin kept /\ ~Closing(b)

\* The session is on the board, and subscribed.
On(s, b) == board[s] = b /\ handler[s].at \notin {"subscribe", "leave_collect", "farewell"}

\* Who holds the mutex shared is on a board that exists; who holds it alone has
\* deleted the board, and nobody else has.
Held(s) ==
    /\ Sharer(s) => board[s] \in kept
    /\ Holder(s) => /\ handler[s].request.board \notin kept
                    /\ \A d \in Sessions :
                         Holder(d) /\ handler[d].request.board = handler[s].request.board
                           => d = s

\* A runtime that is open is of a board that is not deleted, and a session on a
\* board has a runtime.
Opened(b) ==
    /\ runtime[b].status = "open" => b \in kept
    /\ \A s \in Sessions : board[s] = b => runtime[b].status # "none"

\* The subscribers of a board are the sessions on it, each once, and none when the
\* board is gone.
Subscribed(b) ==
    /\ IsInjective(subscribers[b])
    /\ \A s \in Range(subscribers[b]) : On(s, b)
    /\ Gone(b) => subscribers[b] = <<>>
    /\ ~Gone(b) => \A s \in Sessions : On(s, b) => s \in Range(subscribers[b])

\* A session on a deleted board is going to be told, or is about to leave.
Warned(s) ==
    board[s] \in Boards \ kept =>
      \/ Closing(board[s])
      \/ \E d \in Sessions : /\ At(d, "notify") /\ handler[d].request.board = board[s]
                             /\ s \in Range(handler[d].to)
      \/ Notice(board[s]) \in Range(strand[s])
      \/ handler[s].at \in {"leave_collect", "farewell"}

\* Notice is given of deleted boards only.
Noticed(s) == \A b \in Boards : Notice(b) \in Range(strand[s]) => Gone(b)

\* Boards that were deleted have no row: an operation inserts one only through a
\* runtime that is open.
Present ==
    /\ rows \subseteq kept
    /\ \A s \in Sessions : Held(s) /\ Warned(s) /\ Noticed(s)
    /\ \A b \in Boards : Opened(b) /\ Subscribed(b)

\* What is gone stays gone, and nobody gets on it.
Later ==
    \A b \in Boards : Gone(b) => Gone(b)' /\ \A s \in Sessions : board'[s] = b => board[s] = b

\* A step between two places that are the same for who is present.
QuietMove(s, h) ==
    /\ Becomes(s, h)
    /\ handler[s].at \notin {"close", "subscribe"}
    /\ handler[s].at = "notify" => handler[s].to = <<>>
    /\ h.at \notin {"close", "notify", "subscribe"}
    /\ h.at \in {"leave_collect", "farewell"} <=> handler[s].at \in {"leave_collect", "farewell"}
    /\ (\/ h.at \in {"snapshot", "present", "collect", "post"}
        \/ h.at = "respond" /\ h.request.type = "join") => board[s] \in kept

SameNotices ==
    \A t \in Sessions, b \in Boards :
        Notice(b) \in Range(strand'[t]) <=> Notice(b) \in Range(strand[t])

\* Quiet moves keep Present.
LEMMA QuietPresent ==
    ASSUME Typed, Present, NEW s \in Sessions, NEW h, QuietMove(s, h), SameNotices,
           UNCHANGED <<kept, subscribers, board>>, rows' \subseteq kept,
           \A b \in Boards : runtime'[b].status = runtime[b].status
    PROVE  Present' /\ Later
<1>1. \A t \in Sessions \ {s} : handler'[t] = handler[t]
  BY DEF QuietMove, Becomes
<1>2. handler'[s] = h
  BY DEF QuietMove, Becomes
<1>3. \A b \in Boards : Closing(b)' <=> Closing(b)
  BY <1>1, <1>2 DEF QuietMove, Closing, At
<1>4. \A b \in Boards : Gone(b)' <=> Gone(b)
  BY <1>3 DEF Gone
<1>5. \A t \in Sessions, b \in Boards : On(t, b)' <=> On(t, b)
  BY <1>1, <1>2 DEF QuietMove, On
<1>6. ASSUME NEW b \in Boards PROVE Opened(b)' /\ Subscribed(b)'
  <2>1. Opened(b) /\ Subscribed(b)
    BY DEF Present
  <2>2. Range(subscribers[b]) \subseteq Sessions
    BY TypedIsOK
  <2>3. Opened(b)'
    BY <2>1 DEF Opened
  <2> QED BY <2>1, <2>2, <2>3, <1>4, <1>5 DEF Subscribed
<1>7. ASSUME NEW t \in Sessions PROVE Held(t)'
  <2>1. Sharer(t)' => board[t] \in kept
    <3>1. CASE t = s
      BY <1>2, <3>1 DEF QuietMove, Sharer, At
    <3>2. CASE t # s
      BY <1>1, <3>2 DEF Present, Held, Sharer, At
    <3> QED BY <3>1, <3>2
  <2>2. ~Holder(s)'
    BY <1>2 DEF QuietMove, Holder
  <2>3. \A d \in Sessions \ {s} : Holder(d)' <=> Holder(d)
    BY <1>1 DEF Holder
  <2> QED BY <1>1, <2>1, <2>2, <2>3 DEF Present, Held
<1>8. ASSUME NEW t \in Sessions PROVE Warned(t)'
  <2>1. CASE board[t] \in Boards \ kept
    <3>1. CASE Closing(board[t])
      BY <2>1, <3>1, <1>3 DEF Warned
    <3>2. CASE \E d \in Sessions : /\ At(d, "notify") /\ handler[d].request.board = board[t]
                                   /\ t \in Range(handler[d].to)
      <4>1. PICK d \in Sessions : /\ At(d, "notify") /\ handler[d].request.board = board[t]
                                  /\ t \in Range(handler[d].to)
        BY <3>2
      <4>2. d # s
        BY <4>1 DEF QuietMove, At, Range
      <4>3. handler'[d] = handler[d]
        BY <4>2, <1>1
      <4> QED BY <4>1, <4>3 DEF Warned, At
    <3>3. CASE Notice(board[t]) \in Range(strand[t])
      BY <2>1, <3>3 DEF Warned, SameNotices
    <3>4. CASE handler[t].at \in {"leave_collect", "farewell"}
      BY <3>4, <1>1, <1>2 DEF Warned, QuietMove
    <3> QED BY <2>1, <3>1, <3>2, <3>3, <3>4 DEF Present, Warned
  <2>2. CASE board[t] \notin Boards \ kept
    BY <2>2 DEF Warned
  <2> QED BY <2>1, <2>2
<1>9. \A t \in Sessions : Noticed(t)'
  BY <1>4 DEF Present, Noticed, SameNotices
<1>10. Later
  BY <1>4 DEF Later
<1> QED BY <1>6, <1>7, <1>8, <1>9, <1>10 DEF Present

\* Who posts a message leaves the notices alone.
LEMMA AppendRange ==
    ASSUME NEW S, NEW q \in Seq(S), NEW m \in S
    PROVE  Range(Append(q, m)) = Range(q) \cup {m}
<1>1. PICK a : a = Append(q, m)
  OBVIOUS
<1>2. /\ a \in Seq(S) /\ Len(a) = Len(q) + 1 /\ Len(q) \in Nat
      /\ \A i \in 1 .. Len(q) : a[i] = q[i]
      /\ a[Len(q) + 1] = m
  BY <1>1, AppendProperties
<1>3. DOMAIN a = 1 .. Len(q) + 1 /\ DOMAIN q = 1 .. Len(q)
  BY <1>2
<1>4. Range(a) \subseteq Range(q) \cup {m}
  <2>1. ASSUME NEW i \in 1 .. Len(q) + 1 PROVE a[i] \in Range(q) \cup {m}
    <3>1. CASE i = Len(q) + 1 BY <3>1, <1>2
    <3>2. CASE i # Len(q) + 1
      <4>1. i \in 1 .. Len(q)
        BY <3>2, <1>2
      <4> QED BY <4>1, <1>2, <1>3 DEF Range
    <3> QED BY <3>1, <3>2
  <2> QED BY <2>1, <1>3 DEF Range
<1>5. Range(q) \cup {m} \subseteq Range(a)
  <2>1. Len(q) + 1 \in DOMAIN a
    BY <1>2, <1>3
  <2>2. \A i \in 1 .. Len(q) : i \in DOMAIN a
    BY <1>2, <1>3
  <2> QED BY <2>1, <2>2, <1>2, <1>3 DEF Range
<1> QED BY <1>1, <1>4, <1>5

\* The elements of a sequence are its head and those of its tail.
LEMMA TailRange ==
    ASSUME NEW S, NEW q \in Seq(S), q # <<>>
    PROVE  Range(q) = Range(Tail(q)) \cup {Head(q)}
<1>1. PICK a : a = Tail(q)
  OBVIOUS
<1>2. /\ a \in Seq(S) /\ Len(a) = Len(q) - 1 /\ Len(q) \in Nat \ {0}
      /\ \A i \in 1 .. Len(a) : a[i] = q[i + 1]
      /\ Head(q) = q[1]
  BY <1>1, HeadTailProperties
<1>3. DOMAIN a = 1 .. Len(q) - 1 /\ DOMAIN q = 1 .. Len(q)
  BY <1>2
<1>4. Range(q) \subseteq Range(a) \cup {Head(q)}
  <2>1. ASSUME NEW i \in 1 .. Len(q) PROVE q[i] \in Range(a) \cup {Head(q)}
    <3>1. CASE i = 1 BY <3>1, <1>2
    <3>2. CASE i # 1
      <4>1. i - 1 \in 1 .. Len(a) /\ (i - 1) + 1 = i
        BY <3>2, <1>2
      <4>2. a[i - 1] = q[i]
        BY <4>1, <1>2
      <4> QED BY <4>1, <4>2, <1>2, <1>3 DEF Range
    <3> QED BY <3>1, <3>2
  <2> QED BY <2>1, <1>3 DEF Range
<1>5. Range(a) \cup {Head(q)} \subseteq Range(q)
  <2>1. 1 \in DOMAIN q /\ \A i \in 1 .. Len(q) - 1 : i + 1 \in DOMAIN q
    BY <1>2, <1>3
  <2> QED BY <2>1, <1>2, <1>3 DEF Range
<1> QED BY <1>1, <1>4, <1>5

LEMMA PostNotices ==
    ASSUME Typed, NEW s \in Sessions, NEW m \in Message, m.type # "notice", Post(s, m)
    PROVE  SameNotices
<1>1. strand[s] \in Seq(Message)
  BY DEF Typed, Types
<1>2. Range(Append(strand[s], m)) = Range(strand[s]) \cup {m}
  BY <1>1, AppendRange
<1>3. \A b \in Boards : Notice(b) # m
  BY DEF Notice
<1>4. PICK q : q = Append(strand[s], m)
  OBVIOUS
<1>5. strand' = strand \/ strand' = [strand EXCEPT ![s] = q]
  BY <1>4 DEF Post
<1>6. CASE strand' = [strand EXCEPT ![s] = q]
  BY <1>2, <1>3, <1>4, <1>6 DEF SameNotices, Typed, Types
<1>7. CASE strand' = strand
  BY <1>7 DEF SameNotices
<1> QED BY <1>5, <1>6, <1>7

\* A broadcast is of no notice, and a refusal is none.
LEMMA PostNextSays ==
    ASSUME Typed, NEW s \in Sessions, NEW here \in {"post", "farewell"}, PostNext(s, here)
    PROVE  SameNotices
<1>1. handler[s].to \in Seq(Sessions) /\ handler[s].message \in Message /\ Purpose(s)
  BY BusyIs DEF PostNext, At, Typed, Types, Handlers
<1>2. handler[s].message.type # "notice"
  BY <1>1 DEF PostNext, At, Purpose
<1>3. Head(handler[s].to) \in Sessions
  BY <1>1 DEF PostNext
<1> QED BY <1>1, <1>2, <1>3, PostNotices DEF PostNext

LEMMA RefusedSays ==
    ASSUME Typed, NEW s \in Sessions, NEW code \in Codes, Answer(s, Error(code))
    PROVE  SameNotices
<1>1. Error(code) \in Message
  BY MessageTypes
<1>2. Error(code).type # "notice"
  BY DEF Error
<1> QED BY <1>1, <1>2, PostNotices DEF Answer
\* Handlers that hold a mutex have a board.
LEMMA SharesRows ==
    ASSUME Present, NEW s \in Sessions,
           \/ handler[s].at \in {"subscribe", "snapshot", "present", "collect", "post"}
           \/ handler[s].at = "respond" /\ handler[s].request.type = "join"
    PROVE  board[s] \in kept
  BY DEF Present, Held, Sharer, At

\* A step that posts nothing.
LEMMA SameStrand ==
    ASSUME UNCHANGED posts
    PROVE  SameNotices
  BY DEF posts, SameNotices

\* The fields of a handler's record.
LEMMA RecordIs ==
    \A at, request, message, to :
        /\ Record(at, request, message, to).at = at
        /\ Record(at, request, message, to).request = request
        /\ Record(at, request, message, to).message = message
        /\ Record(at, request, message, to).to = to
  BY DEF Record

\* The actions that are quiet moves.
LEMMA LeavePresent ==
    ASSUME Typed, Present, NEW s \in Sessions,
           \/ LeaveParticipant(s) \/ ReadRemaining(s)
           \/ Collect(s, "leave_collect", "farewell") \/ PostNext(s, "farewell")
    PROVE  Present' /\ Later
<1>1. CASE LeaveParticipant(s)
  <2>1. PICK h : /\ h = Record("remaining", handler[s].request, handler[s].message,
                               handler[s].to)
                 /\ Becomes(s, h)
    BY <1>1, LeaveParticipantMoves
  <2>2. QuietMove(s, h)
    BY <1>1, <2>1, RecordIs DEF QuietMove, LeaveParticipant, At
  <2>3. \A b \in Boards : runtime'[b].status = runtime[b].status
    BY <1>1 DEF LeaveParticipant, Typed, Types, Runtime
  <2> QED BY <1>1, <2>2, <2>3, QuietPresent, SameStrand DEF Present, LeaveParticipant, own
<1>2. CASE ReadRemaining(s)
  <2>1. PICK h : /\ h = Record("unsubscribe", handler[s].request,
                               PresenceUpdate(runtime[board[s]].participants), handler[s].to)
                 /\ Becomes(s, h)
    BY <1>2, ReadRemainingMoves
  <2>2. QuietMove(s, h)
    BY <1>2, <2>1, RecordIs DEF QuietMove, ReadRemaining, At
  <2> QED BY <1>2, <2>2, QuietPresent, SameStrand DEF Present, ReadRemaining, shared, own
<1>3. CASE Collect(s, "leave_collect", "farewell")
  <2>1. PICK h : /\ h = Record("farewell", handler[s].request, handler[s].message,
                               subscribers[board[s]])
                 /\ Becomes(s, h)
    BY <1>3, CollectMoves DEF BroadcastPlaces
  <2>2. QuietMove(s, h)
    BY <1>3, <2>1, RecordIs DEF QuietMove, Collect, At
  <2> QED BY <1>3, <2>2, QuietPresent, SameStrand DEF Present, Collect, shared, own
<1>4. CASE PostNext(s, "farewell")
  <2>1. PICK h : /\ h = Record("farewell", handler[s].request, handler[s].message,
                               Tail(handler[s].to))
                 /\ Becomes(s, h)
    BY <1>4, PostNextMoves
  <2>2. QuietMove(s, h)
    BY <1>4, <2>1, RecordIs DEF QuietMove, PostNext, At
  <2>3. SameNotices
    BY <1>4, PostNextSays
  <2> QED BY <1>4, <2>2, <2>3, QuietPresent DEF Present, PostNext, shared, own
<1> QED BY <1>1, <1>2, <1>3, <1>4

LEMMA JoinPresent ==
    ASSUME Typed, Present, NEW s \in Sessions,
           \/ JoinRefused(s) \/ ReadSnapshot(s) \/ Respond(s) \/ ReadPresent(s)
    PROVE  Present' /\ Later
<1>1. CASE JoinRefused(s)
  <2>1. QuietMove(s, Idle)
    BY <1>1, RefusedMoves DEF QuietMove, JoinRefused, At, Idle, Codes
  <2>2. SameNotices
    BY <1>1, RefusedSays DEF JoinRefused, Codes
  <2> QED BY <1>1, <2>1, <2>2, QuietPresent DEF Present, JoinRefused, shared, own
<1>2. CASE ReadSnapshot(s)
  <2>1. PICK h : /\ h = Record("respond", handler[s].request,
                               JoinResponse(board[s], runtime[board[s]]), handler[s].to)
                 /\ Becomes(s, h)
    BY <1>2, ReadSnapshotMoves
  <2>2. QuietMove(s, h)
    BY <1>2, <2>1, RecordIs, SharesRows DEF QuietMove, ReadSnapshot, At
  <2> QED BY <1>2, <2>2, QuietPresent, SameStrand DEF Present, ReadSnapshot, shared, own
<1>3. CASE Respond(s)
  <2>1. PICK h : /\ h = IF handler[s].request.type = "join"
                          THEN Record("present", handler[s].request, handler[s].message,
                                      handler[s].to)
                          ELSE Idle
                 /\ Becomes(s, h)
    BY <1>3, RespondMoves
  <2>2. QuietMove(s, h)
    BY <1>3, <2>1, RecordIs, SharesRows DEF QuietMove, Respond, At, Idle
  <2>3. SameNotices
    <3>1. handler[s].message \in Message /\ Purpose(s)
      BY <1>3, BusyIs DEF Respond, At, Typed, Types, Handlers
    <3>2. handler[s].message.type # "notice"
      BY <1>3, <3>1 DEF Respond, At, Purpose
    <3> QED BY <1>3, <3>1, <3>2, PostNotices DEF Respond
  <2> QED BY <1>3, <2>2, <2>3, QuietPresent DEF Present, Respond, shared, own
<1>4. CASE ReadPresent(s)
  <2>1. PICK h : /\ h = Record("collect", handler[s].request,
                               PresenceUpdate(runtime[board[s]].participants), handler[s].to)
                 /\ Becomes(s, h)
    BY <1>4, ReadPresentMoves
  <2>2. QuietMove(s, h)
    BY <1>4, <2>1, RecordIs, SharesRows DEF QuietMove, ReadPresent, At
  <2> QED BY <1>4, <2>2, QuietPresent, SameStrand DEF Present, ReadPresent, shared, own
<1> QED BY <1>1, <1>2, <1>3, <1>4

LEMMA BroadcastPresent ==
    ASSUME Typed, Present, NEW s \in Sessions, Broadcast(s)
    PROVE  Present' /\ Later
<1>1. CASE Collect(s, "collect", "post")
  <2>1. PICK h : /\ h = Record("post", handler[s].request, handler[s].message,
                               subscribers[board[s]])
                 /\ Becomes(s, h)
    BY <1>1, CollectMoves DEF BroadcastPlaces
  <2>2. QuietMove(s, h)
    BY <1>1, <2>1, RecordIs, SharesRows DEF QuietMove, Collect, At
  <2> QED BY <1>1, <2>2, QuietPresent, SameStrand DEF Present, Collect, shared, own
<1>2. CASE PostNext(s, "post")
  <2>1. PICK h : /\ h = Record("post", handler[s].request, handler[s].message,
                               Tail(handler[s].to))
                 /\ Becomes(s, h)
    BY <1>2, PostNextMoves
  <2>2. QuietMove(s, h)
    BY <1>2, <2>1, RecordIs, SharesRows DEF QuietMove, PostNext, At
  <2>3. SameNotices
    BY <1>2, PostNextSays
  <2> QED BY <1>2, <2>2, <2>3, QuietPresent DEF Present, PostNext, shared, own
<1>3. CASE /\ At(s, "post") /\ handler[s].to = <<>>
           /\ Finish(s)
           /\ UNCHANGED <<shared, own, posts>>
  <2>1. QuietMove(s, Idle)
    BY <1>3, BroadcastEndMoves DEF QuietMove, At, Idle
  <2> QED BY <1>3, <2>1, QuietPresent, SameStrand DEF Present, shared, own
<1> QED BY <1>1, <1>2, <1>3 DEF Broadcast

LEMMA OperationPresent ==
    ASSUME Typed, Present, NEW s \in Sessions, ApplyOperation(s) \/ OperationRejected(s)
    PROVE  Present' /\ Later
<1>1. CASE OperationRejected(s)
  <2>1. PICK code \in Codes : code = IF Verdict(s) = "ok" THEN "refused" ELSE Verdict(s)
    BY VerdictIs DEF Codes
  <2>2. Answer(s, Error(code)) /\ UNCHANGED <<shared, own>>
    BY <1>1, <2>1 DEF OperationRejected
  <2>3. QuietMove(s, Idle)
    BY <1>1, OperationRejectedMoves DEF QuietMove, OperationRejected, At, Idle
  <2> QED BY <2>2, <2>3, RefusedSays, QuietPresent DEF Present, shared, own
<1>2. CASE ApplyOperation(s)
  <2>1. PICK h : /\ h.at = "collect"
                 /\ Becomes(s, h)
    BY <1>2, ApplyOperationMoves, RecordIs
  <2>2. PICK b \in Boards : b = handler[s].request.board /\ board[s] = b
    BY <1>2, RequestedIs DEF ApplyOperation, At, Typed, Purpose
  <2>3. b \in kept
    <3>1. runtime[b].status # "closed"
      BY <1>2, <2>2 DEF ApplyOperation, Verdict
    <3>2. runtime[b].status \in {"none", "open", "closed"}
      BY DEF Typed, Types, Runtime
    <3> QED BY <2>2, <3>1, <3>2 DEF Present, Opened
  <2>4. QuietMove(s, h)
    BY <1>2, <2>1, <2>2, <2>3 DEF QuietMove, ApplyOperation, At
  <2>5. \A c \in Boards : runtime'[c].status = runtime[c].status
    BY <1>2, <2>2 DEF ApplyOperation, Typed, Types, Runtime
  <2> QED BY <1>2, <2>2, <2>3, <2>4, <2>5, QuietPresent, SameStrand
             DEF Present, ApplyOperation, own
<1> QED BY <1>1, <1>2

\* Nobody is anywhere else because of a request that is accepted.
LEMMA AcceptPresent ==
    ASSUME Typed, Present, NEW s \in Sessions, NEW r \in AnyRequest, Accept(s, r)
    PROVE  Present' /\ Later
<1>1. At(s, "idle") /\ Dispatch(s, r) /\ UNCHANGED <<shared, board, strand>>
  BY DEF Accept
<1>2. PICK place \in {"join", "leave", "apply", "delete", "respond"}, m \in Message :
        /\ Becomes(s, Record(place, r, m, <<>>))
        /\ place = "respond" => r.type # "join"
  BY <1>1, DispatchMoves
<1>3. PICK h : h = Record(place, r, m, <<>>)
  OBVIOUS
<1>4. QuietMove(s, h)
  BY <1>1, <1>2, <1>3, RecordIs DEF QuietMove, At
<1>5. SameNotices
  BY <1>1 DEF SameNotices
<1> QED BY <1>1, <1>4, <1>5, QuietPresent DEF Present, shared

\* Nor because of the end of a connection.
LEMMA RequestPresent ==
    ASSUME Typed, Present, NEW s \in Sessions,
           (\E r \in Requests : Receive(s, r)) \/ Disconnect(s)
    PROVE  Present' /\ Later
<1>1. ASSUME NEW r \in Requests, Receive(s, r) PROVE Present' /\ Later
  BY <1>1, RequestsAre, AcceptPresent DEF Receive
<1>2. CASE Disconnect(s)
  <2>1. PICK h : QuietMove(s, h)
    <3>1. CASE board[s] = NoBoard
      <4>1. Becomes(s, handler[s])
        BY <1>2, <3>1 DEF Disconnect, Becomes, Typed, Types, Handlers
      <4>2. QuietMove(s, handler[s])
        BY <1>2, <4>1 DEF QuietMove, Disconnect, At
      <4> QED BY <4>2
    <3>2. CASE board[s] # NoBoard
      <4>1. PICK h : /\ h = Record("leave", Hangup, [type |-> "none"], <<>>)
                     /\ Becomes(s, h)
        BY <1>2, <3>2, BeginMoves DEF Disconnect, Typed, Types, Handlers, Places
      <4>2. QuietMove(s, h)
        BY <1>2, <4>1, RecordIs DEF QuietMove, Disconnect, At
      <4> QED BY <4>2
    <3> QED BY <3>1, <3>2
  <2> QED BY <1>2, <2>1, QuietPresent, SameStrand DEF Present, Disconnect, shared
<1> QED BY <1>1, <1>2

LEMMA RefusalPresent ==
    ASSUME Typed, Present, NEW s \in Sessions, DeleteRefused(s) \/ DeleteLost(s) \/ Deleted(s)
    PROVE  Present' /\ Later
<1>1. CASE DeleteRefused(s)
  <2>1. QuietMove(s, Idle)
    BY <1>1, RefusedMoves DEF QuietMove, DeleteRefused, At, Idle, Codes
  <2>2. SameNotices
    BY <1>1, RefusedSays DEF DeleteRefused, Codes
  <2> QED BY <1>1, <2>1, <2>2, QuietPresent DEF Present, DeleteRefused, shared, own
<1>2. CASE Deleted(s)
  <2>1. QuietMove(s, Idle)
    BY <1>2, DeletedMoves DEF QuietMove, Deleted, At, Idle
  <2>2. PICK m \in Message :
          m = [type |-> "delete_board_response", board |-> handler[s].request.board]
    BY <1>2, RequestedIs, MessageTypes DEF Deleted, At
  <2>3. SameNotices
    BY <1>2, <2>2, PostNotices DEF Deleted, Answer
  <2> QED BY <1>2, <2>1, <2>3, QuietPresent DEF Present, Deleted, shared, own
<1>3. CASE DeleteLost(s)
  <2>1. QuietMove(s, Idle)
    BY <1>3, DeleteLostMoves DEF QuietMove, DeleteLost, At, Idle
  <2>2. SameNotices
    BY <1>3, RefusedSays DEF DeleteLost, Codes
  <2> QED BY <1>3, <2>1, <2>2, QuietPresent DEF Present, DeleteLost, own
<1> QED BY <1>1, <1>2, <1>3

\* Appending a new element to a sequence without repetitions.
LEMMA AppendKeepsInjective ==
    ASSUME NEW S, NEW q \in Seq(S), NEW m \in S, IsInjective(q), m \notin Range(q)
    PROVE  IsInjective(Append(q, m))
<1>1. PICK a : a = Append(q, m)
  OBVIOUS
<1>2. /\ a \in Seq(S) /\ Len(a) = Len(q) + 1 /\ Len(q) \in Nat
      /\ \A i \in 1 .. Len(q) : a[i] = q[i]
      /\ a[Len(q) + 1] = m
  BY <1>1, AppendProperties
<1>3. DOMAIN a = 1 .. Len(q) + 1 /\ DOMAIN q = 1 .. Len(q)
  BY <1>2
<1>4. \A i \in 1 .. Len(q) : q[i] # m
  BY <1>3 DEF Range
<1>5. \A i \in 1 .. Len(q) + 1 : i = Len(q) + 1 \/ i \in 1 .. Len(q)
  BY <1>2
<1>6. ASSUME NEW i \in 1 .. Len(q) + 1, NEW j \in 1 .. Len(q) + 1, a[i] = a[j]
      PROVE  i = j
  <2>1. CASE i \in 1 .. Len(q) /\ j \in 1 .. Len(q)
    BY <1>2, <1>3, <1>6, <2>1 DEF IsInjective
  <2>2. CASE i = Len(q) + 1 \/ j = Len(q) + 1
    BY <1>2, <1>4, <1>5, <1>6, <2>2
  <2> QED BY <1>5, <2>1, <2>2
<1>7. IsInjective(a)
  BY <1>3, <1>6 DEF IsInjective
<1> QED BY <1>1, <1>7

\* Only the empty sequence has no elements.
LEMMA EmptyRange ==
    ASSUME NEW S, NEW q \in Seq(S)
    PROVE  Range(q) = {} <=> q = <<>>
<1>1. DOMAIN q = 1 .. Len(q) /\ Len(q) \in Nat
  OBVIOUS
<1>2. CASE q = <<>>
  BY <1>2 DEF Range
<1>3. CASE q # <<>>
  <2>1. q[1] \in Range(q)
    BY <1>1, <1>3 DEF Range
  <2> QED BY <1>3, <2>1
<1> QED BY <1>2, <1>3

\* The session leaves the subscriptions, and with that On.
LEMMA UnsubscribePresent ==
    ASSUME Typed, Present, NEW s \in Sessions, Unsubscribe(s)
    PROVE  Present' /\ Later
<1>1. PICK h : /\ h = Record("leave_collect", handler[s].request, handler[s].message,
                             handler[s].to)
               /\ Becomes(s, h)
  BY UnsubscribeMoves
<1>2. /\ \A t \in Sessions \ {s} : handler'[t] = handler[t]
      /\ handler'[s].at = "leave_collect" /\ handler[s].at = "unsubscribe"
  BY <1>1, RecordIs DEF Becomes, Unsubscribe, At
<1>3. PICK b \in Boards : b = board[s]
  BY OnBoardIs DEF Unsubscribe, At, OnBoard
<1>4. UNCHANGED <<rows, kept, runtime, board, strand>>
  BY DEF Unsubscribe, own, posts
<1>5. \A c : Closing(c)' <=> Closing(c)
  BY <1>2 DEF Closing, At
<1>6. \A c : Gone(c)' <=> Gone(c)
  BY <1>4, <1>5 DEF Gone
<1>7. \A c \in Boards, t \in Sessions : On(t, c)' <=> On(t, c) /\ t # s
  BY <1>2, <1>4 DEF On
<1>8. PICK q \in Seq(Sessions) : /\ q = Without(subscribers[b], s)
                                 /\ Range(q) = Range(subscribers[b]) \ {s}
                                 /\ IsInjective(subscribers[b]) => IsInjective(q)
  <2>1. subscribers[b] \in Seq(Sessions)
    BY DEF Typed, Types
  <2> QED BY <2>1, WithoutIs
<1>9. subscribers' = [subscribers EXCEPT ![b] = q]
  BY <1>3, <1>8 DEF Unsubscribe
<1>10. ASSUME NEW c \in Boards PROVE Subscribed(c)'
  <2>1. subscribers[c] \in Seq(Sessions) /\ Range(subscribers[c]) \subseteq Sessions
    BY TypedIsOK DEF Typed, Types
  <2>2. Subscribed(c)
    BY DEF Present
  <2>3. CASE c = b
    <3>1. subscribers'[c] = q
      BY <1>9, <2>3 DEF Typed, Types
    <3>2. Gone(c) => q = <<>>
      BY <1>8, <2>1, <2>2, <2>3, EmptyRange DEF Subscribed
    <3> QED BY <1>6, <1>7, <1>8, <2>1, <2>2, <2>3, <3>1, <3>2 DEF Subscribed
  <2>4. CASE c # b
    <3>1. subscribers'[c] = subscribers[c]
      BY <1>9, <2>4 DEF Typed, Types
    <3>2. ~ On(s, c)
      BY <1>3, <2>4 DEF On
    <3> QED BY <1>6, <1>7, <2>1, <2>2, <3>1, <3>2 DEF Subscribed
  <2> QED BY <2>3, <2>4
<1>11. ASSUME NEW t \in Sessions PROVE Held(t)'
  <2>1. Sharer(t)' => board[t] \in kept
    BY <1>2 DEF Present, Held, Sharer, At
  <2>2. \A d \in Sessions : Holder(d)' <=> Holder(d)
    BY <1>2 DEF Holder
  <2>3. \A d \in Sessions : Holder(d) => handler'[d] = handler[d]
    BY <1>2 DEF Holder
  <2> QED BY <1>4, <2>1, <2>2, <2>3 DEF Present, Held
<1>12. ASSUME NEW t \in Sessions PROVE Warned(t)'
  <2>1. \A d \in Sessions : At(d, "notify") => handler'[d] = handler[d]
    BY <1>2 DEF At
  <2> QED BY <1>2, <1>4, <1>5, <2>1 DEF Present, Warned, At
<1>13. \A t \in Sessions : Noticed(t)'
  BY <1>4, <1>6 DEF Present, Noticed
<1>14. \A c \in Boards : Opened(c)'
  BY <1>4 DEF Present, Opened
<1>15. Later
  BY <1>6, <1>4 DEF Later
<1> QED BY <1>4, <1>15, <1>10, <1>11, <1>12, <1>13, <1>14 DEF Present

\* Nobody who has left was subscribed any more.
LEMMA LeftPresent ==
    ASSUME Typed, Present, NEW s \in Sessions, Left(s)
    PROVE  Present' /\ Later
<1>1. PICK h : Becomes(s, h) /\ h.at \in {"join", "idle"}
  <2>1. CASE Goto(s, "join")
    <3>1. "join" \in Places \ {"idle"} /\ handler \in Handlers
      BY DEF Typed, Types, Handlers, Places
    <3>2. Becomes(s, Record("join", handler[s].request, handler[s].message, handler[s].to))
      BY <2>1, <3>1, LeftIs, GotoMoves
    <3> QED BY <3>2, RecordIs
  <2>2. CASE Answer(s, LeaveBoardResponse) \/ Finish(s)
    BY <2>2, FinishMoves DEF Answer, Typed, Types, Handlers, Idle
  <2> QED BY <2>1, <2>2, LeftIs
<1>2. /\ \A t \in Sessions \ {s} : handler'[t] = handler[t]
      /\ handler'[s].at \in {"join", "idle"} /\ handler[s].at = "farewell"
  BY <1>1, LeftIs DEF Becomes
<1>3. /\ UNCHANGED <<rows, kept, runtime, subscribers>>
      /\ board'[s] = NoBoard /\ \A t \in Sessions \ {s} : board'[t] = board[t]
  BY LeftIs DEF shared, Typed, Types
<1>4. SameNotices
  <2>1. CASE UNCHANGED posts
    BY <2>1, SameStrand
  <2>2. CASE Answer(s, LeaveBoardResponse)
    BY <2>2, PostNotices, MessageTypes DEF Answer, LeaveBoardResponse
  <2> QED BY <2>1, <2>2, LeftIs
<1>5. \A c : Closing(c)' <=> Closing(c)
  BY <1>2 DEF Closing, At
<1>6. \A c : Gone(c)' <=> Gone(c)
  BY <1>3, <1>5 DEF Gone
<1>7. \A c \in Boards, t \in Sessions : On(t, c)' <=> On(t, c)
  BY <1>2, <1>3, BoardsAssumption DEF On
<1>8. ASSUME NEW c \in Boards PROVE Subscribed(c)'
  <2>1. Range(subscribers[c]) \subseteq Sessions
    BY TypedIsOK
  <2> QED BY <1>3, <1>6, <1>7, <2>1 DEF Present, Subscribed
<1>9. ASSUME NEW t \in Sessions PROVE Held(t)'
  <2>1. Sharer(t)' => board'[t] \in kept
    BY <1>2, <1>3 DEF Present, Held, Sharer, At
  <2>2. \A d \in Sessions : Holder(d)' <=> Holder(d)
    BY <1>2 DEF Holder
  <2>3. \A d \in Sessions : Holder(d) => handler'[d] = handler[d]
    BY <1>2 DEF Holder
  <2> QED BY <1>3, <2>1, <2>2, <2>3 DEF Present, Held
<1>10. ASSUME NEW t \in Sessions PROVE Warned(t)'
  <2>1. \A d \in Sessions : At(d, "notify") => handler'[d] = handler[d]
    BY <1>2 DEF At
  <2>2. CASE t = s
    BY <1>3, <2>2, BoardsAssumption DEF Warned
  <2>3. CASE t # s
    BY <1>2, <1>3, <1>4, <1>5, <2>1, <2>3 DEF Present, Warned, At, SameNotices
  <2> QED BY <2>2, <2>3
<1>11. \A t \in Sessions : Noticed(t)'
  BY <1>4, <1>6 DEF Present, Noticed, SameNotices
<1>12. \A c \in Boards : Opened(c)'
  BY <1>3, BoardsAssumption DEF Present, Opened
<1>13. Later
  BY <1>6, <1>3, BoardsAssumption DEF Later
<1> QED BY <1>3, <1>13, <1>8, <1>9, <1>10, <1>11, <1>12 DEF Present

\* The mutex, and the row that is read under it, keep a join off a deleted board.
LEMMA JoinBoardPresent ==
    ASSUME Typed, Present, NEW s \in Sessions, JoinBoard(s)
    PROVE  Present' /\ Later
<1>1. PICK h : /\ h = Record("subscribe", handler[s].request, handler[s].message,
                             handler[s].to)
               /\ Becomes(s, h)
  BY JoinBoardMoves
<1>2. /\ \A t \in Sessions \ {s} : handler'[t] = handler[t]
      /\ handler'[s].at = "subscribe" /\ handler[s].at = "join"
  BY <1>1, RecordIs DEF Becomes, JoinBoard, At
<1>3. PICK b \in Boards : b = handler[s].request.board
  BY RequestedIs DEF JoinBoard, At
<1>4. /\ b \in kept /\ UNCHANGED <<rows, kept, subscribers, strand>>
      /\ board'[s] = b /\ \A t \in Sessions \ {s} : board'[t] = board[t]
  BY <1>3 DEF Present, JoinBoard, posts, Typed, Types
<1>5. board[s] = NoBoard
  BY <1>2 DEF Typed, Purpose
<1>6. \A c : Closing(c)' <=> Closing(c)
  BY <1>2 DEF Closing, At
<1>7. \A c : Gone(c)' <=> Gone(c)
  BY <1>4, <1>6 DEF Gone
<1>8. \A c \in Boards, t \in Sessions : On(t, c)' <=> On(t, c)
  BY <1>2, <1>4, <1>5, BoardsAssumption DEF On
<1>9. ASSUME NEW c \in Boards PROVE Subscribed(c)'
  <2>1. Range(subscribers[c]) \subseteq Sessions
    BY TypedIsOK
  <2> QED BY <1>4, <1>7, <1>8, <2>1 DEF Present, Subscribed
<1>10. ASSUME NEW t \in Sessions PROVE Held(t)'
  <2>1. Sharer(t)' => board'[t] \in kept
    BY <1>2, <1>4 DEF Present, Held, Sharer, At
  <2>2. \A d \in Sessions : Holder(d)' <=> Holder(d)
    BY <1>2 DEF Holder
  <2>3. \A d \in Sessions : Holder(d) => handler'[d] = handler[d]
    BY <1>2 DEF Holder
  <2> QED BY <1>4, <2>1, <2>2, <2>3 DEF Present, Held
<1>11. ASSUME NEW t \in Sessions PROVE Warned(t)'
  <2>1. \A d \in Sessions : At(d, "notify") => handler'[d] = handler[d]
    BY <1>2 DEF At
  <2>2. CASE t = s
    BY <1>4, <2>2 DEF Warned
  <2>3. CASE t # s
    BY <1>2, <1>4, <1>6, <2>1, <2>3 DEF Present, Warned, At
  <2> QED BY <2>2, <2>3
<1>12. \A t \in Sessions : Noticed(t)'
  BY <1>4, <1>7 DEF Present, Noticed
<1>13. ASSUME NEW c \in Boards PROVE Opened(c)'
  <2>1. runtime'[c].status = IF c = b THEN "open" ELSE runtime[c].status
    BY <1>3 DEF JoinBoard, Typed, Types, Runtime
  <2> QED BY <1>4, <2>1 DEF Present, Opened
<1>14. Later
  BY <1>7, <1>4 DEF Later, Gone
<1> QED BY <1>4, <1>14, <1>9, <1>10, <1>11, <1>12, <1>13 DEF Present

\* A session subscribes once: it was not On.
LEMMA SubscribePresent ==
    ASSUME Typed, Present, NEW s \in Sessions, Subscribe(s)
    PROVE  Present' /\ Later
<1>1. PICK h : /\ h = Record("snapshot", handler[s].request, handler[s].message,
                             handler[s].to)
               /\ Becomes(s, h)
  BY SubscribeMoves
<1>2. /\ \A t \in Sessions \ {s} : handler'[t] = handler[t]
      /\ handler'[s].at = "snapshot" /\ handler[s].at = "subscribe"
  BY <1>1, RecordIs DEF Becomes, Subscribe, At
<1>3. PICK b \in Boards : b = board[s] /\ b \in kept
  BY <1>2, OnBoardIs, SharesRows DEF OnBoard
<1>4. UNCHANGED <<rows, kept, runtime, board, strand>>
  BY DEF Subscribe, own, posts
<1>5. \A c : Closing(c)' <=> Closing(c)
  BY <1>2 DEF Closing, At
<1>6. \A c : Gone(c)' <=> Gone(c)
  BY <1>4, <1>5 DEF Gone
<1>7. \A c \in Boards, t \in Sessions : On(t, c)' <=> On(t, c) \/ (t = s /\ c = b)
  BY <1>2, <1>3, <1>4 DEF On
<1>8. PICK q \in Seq(Sessions) : /\ q = Append(subscribers[b], s)
                                 /\ Range(q) = Range(subscribers[b]) \cup {s}
                                 /\ IsInjective(q)
  <2>1. subscribers[b] \in Seq(Sessions)
    BY DEF Typed, Types
  <2>2. IsInjective(subscribers[b]) /\ s \notin Range(subscribers[b])
    BY <1>2 DEF Present, Subscribed, On
  <2>3. Append(subscribers[b], s) \in Seq(Sessions)
    BY <2>1
  <2>4. Range(Append(subscribers[b], s)) = Range(subscribers[b]) \cup {s}
    BY <2>1, AppendRange
  <2>5. IsInjective(Append(subscribers[b], s))
    BY <2>1, <2>2, AppendKeepsInjective
  <2> QED BY <2>3, <2>4, <2>5
<1>9. subscribers' = [subscribers EXCEPT ![b] = q]
  BY <1>3, <1>8 DEF Subscribe
<1>10. ASSUME NEW c \in Boards PROVE Subscribed(c)'
  <2>1. Range(subscribers[c]) \subseteq Sessions
    BY TypedIsOK
  <2>2. Subscribed(c)
    BY DEF Present
  <2>3. CASE c = b
    <3>1. subscribers'[c] = q
      BY <1>9, <2>3 DEF Typed, Types
    <3>2. ~ Gone(c)
      BY <1>3, <2>3 DEF Gone
    <3> QED BY <1>6, <1>7, <1>8, <2>1, <2>2, <2>3, <3>1, <3>2 DEF Subscribed
  <2>4. CASE c # b
    <3>1. subscribers'[c] = subscribers[c]
      BY <1>9, <2>4 DEF Typed, Types
    <3> QED BY <1>6, <1>7, <2>1, <2>2, <2>4, <3>1 DEF Subscribed
  <2> QED BY <2>3, <2>4
<1>11. ASSUME NEW t \in Sessions PROVE Held(t)'
  <2>1. Sharer(t)' => board[t] \in kept
    BY <1>2, <1>3 DEF Present, Held, Sharer, At
  <2>2. \A d \in Sessions : Holder(d)' <=> Holder(d)
    BY <1>2 DEF Holder
  <2>3. \A d \in Sessions : Holder(d) => handler'[d] = handler[d]
    BY <1>2 DEF Holder
  <2> QED BY <1>4, <2>1, <2>2, <2>3 DEF Present, Held
<1>12. ASSUME NEW t \in Sessions PROVE Warned(t)'
  <2>1. \A d \in Sessions : At(d, "notify") => handler'[d] = handler[d]
    BY <1>2 DEF At
  <2> QED BY <1>2, <1>4, <1>5, <2>1 DEF Present, Warned, At
<1>13. \A t \in Sessions : Noticed(t)'
  BY <1>4, <1>6 DEF Present, Noticed
<1>14. \A c \in Boards : Opened(c)'
  BY <1>4 DEF Present, Opened
<1>15. Later
  BY <1>6, <1>4 DEF Later
<1> QED BY <1>4, <1>15, <1>10, <1>11, <1>12, <1>13, <1>14 DEF Present

\* The delete holds the mutex alone: from here on nobody joins, and those who
\* are on the board are about to be taken from its subscriptions.
LEMMA DeleteRowsPresent ==
    ASSUME Typed, Present, NEW s \in Sessions, DeleteRows(s)
    PROVE  Present' /\ Later
<1>1. PICK h : /\ h = Record("close", handler[s].request, handler[s].message,
                             handler[s].to)
               /\ Becomes(s, h)
  BY DeleteRowsMoves
<1>2. /\ \A t \in Sessions \ {s} : handler'[t] = handler[t]
      /\ handler'[s].at = "close" /\ handler[s].at = "delete"
      /\ handler'[s].request = handler[s].request
  BY <1>1, RecordIs DEF Becomes, DeleteRows, At
<1>3. PICK b \in Boards : b = handler[s].request.board
  BY RequestedIs DEF DeleteRows, At
<1>4. /\ b \in kept /\ kept' = kept \ {b} /\ rows' = rows \ {b}
      /\ ~Deleting(b) /\ ~Sharing(b)
      /\ UNCHANGED <<subscribers, board, strand>>
  BY <1>3 DEF Present, DeleteRows, own, posts
<1>5. /\ Closing(b)'
      /\ \A c : c # b => (Closing(c)' <=> Closing(c))
  BY <1>2, <1>3 DEF Closing, At
<1>6. \A c : Gone(c)' <=> Gone(c)
  BY <1>4, <1>5 DEF Gone
<1>7. \A c \in Boards, t \in Sessions : On(t, c)' <=> On(t, c)
  BY <1>2, <1>4 DEF On
<1>8. ASSUME NEW c \in Boards PROVE Subscribed(c)'
  <2>1. Range(subscribers[c]) \subseteq Sessions
    BY TypedIsOK
  <2> QED BY <1>4, <1>6, <1>7, <2>1 DEF Present, Subscribed
<1>9. ASSUME NEW t \in Sessions PROVE Held(t)'
  <2>1. Sharer(t)' => board[t] \in kept'
    <3>1. Sharer(t)' <=> Sharer(t)
      BY <1>2 DEF Sharer, At
    <3>2. Sharer(t) => board[t] # b
      BY <1>4 DEF Sharer, Sharing, At
    <3> QED BY <1>4, <3>1, <3>2 DEF Present, Held
  <2>2. /\ Holder(s)' /\ ~Holder(s)
        /\ \A d \in Sessions \ {s} : Holder(d)' <=> Holder(d)
    BY <1>2 DEF Holder
  <2>3. \A d \in Sessions : Holder(d) => handler[d].request.board # b
    BY <1>4 DEF Deleting, Holder
  <2>4. \A d \in Sessions : handler'[d].request = handler[d].request
    BY <1>2
  <2> QED BY <1>3, <1>4, <2>1, <2>2, <2>3, <2>4 DEF Present, Held
<1>10. ASSUME NEW t \in Sessions PROVE Warned(t)'
  <2>1. \A d \in Sessions : At(d, "notify") => handler'[d] = handler[d]
    BY <1>2 DEF At
  <2>2. CASE board[t] = b
    BY <1>4, <1>5, <2>2 DEF Warned
  <2>3. CASE board[t] # b
    BY <1>2, <1>4, <1>5, <2>1, <2>3 DEF Present, Warned, At
  <2> QED BY <2>2, <2>3
<1>11. \A t \in Sessions : Noticed(t)'
  BY <1>4, <1>6 DEF Present, Noticed
<1>12. ASSUME NEW c \in Boards PROVE Opened(c)'
  <2>1. runtime'[c].status = IF c = b /\ runtime[c].status = "open" THEN "closed"
                             ELSE runtime[c].status
    BY <1>3 DEF DeleteRows, Typed, Types, Runtime
  <2> QED BY <1>4, <2>1 DEF Present, Opened
<1>13. Later
  BY <1>6, <1>4 DEF Later
<1> QED BY <1>4, <1>13, <1>8, <1>9, <1>10, <1>11, <1>12 DEF Present

\* All that are on the board become recipients of the notice.
LEMMA CloseBoardPresent ==
    ASSUME Typed, Present, NEW s \in Sessions, CloseBoard(s)
    PROVE  Present' /\ Later
<1>1. PICK h : /\ h = Record("notify", handler[s].request, handler[s].message,
                             subscribers[handler[s].request.board])
               /\ Becomes(s, h)
  BY CloseBoardMoves
<1>2. PICK b \in Boards : b = handler[s].request.board
  BY RequestedIs DEF CloseBoard, At
<1>3. /\ \A t \in Sessions \ {s} : handler'[t] = handler[t]
      /\ handler'[s].at = "notify" /\ handler[s].at = "close"
      /\ handler'[s].request = handler[s].request /\ handler'[s].to = subscribers[b]
  <2>1. /\ h.at = "notify" /\ h.request = handler[s].request
        /\ h.to = subscribers[handler[s].request.board]
    BY <1>1, RecordIs
  <2>2. handler[s].at = "close"
    BY DEF CloseBoard, At
  <2> QED BY <1>1, <1>2, <2>1, <2>2 DEF Becomes
<1>4. /\ UNCHANGED <<rows, kept, runtime, board, strand>>
      /\ subscribers' = [subscribers EXCEPT ![b] = <<>>]
  BY <1>2 DEF CloseBoard, own, posts
<1>5. /\ b \notin kept
      /\ \A d \in Sessions : Holder(d) /\ handler[d].request.board = b => d = s
  BY <1>2, <1>3 DEF Present, Held, Holder
<1>6. /\ Closing(b) /\ ~Closing(b)'
      /\ \A c : c # b => (Closing(c)' <=> Closing(c))
  BY <1>2, <1>3, <1>5 DEF Closing, At, Holder
<1>7. /\ Gone(b)' /\ ~Gone(b)
      /\ \A c : c # b => (Gone(c)' <=> Gone(c))
  BY <1>4, <1>5, <1>6 DEF Gone
<1>8. \A c \in Boards, t \in Sessions : On(t, c)' <=> On(t, c)
  BY <1>3, <1>4 DEF On
<1>9. ASSUME NEW c \in Boards PROVE Subscribed(c)'
  <2>1. Range(subscribers[c]) \subseteq Sessions
    BY TypedIsOK
  <2>2. CASE c = b
    <3>1. subscribers'[c] = <<>>
      BY <1>4, <2>2 DEF Typed, Types
    <3>2. IsInjective(<<>>) /\ Range(<<>>) = {}
      BY DEF IsInjective, Range
    <3> QED BY <1>7, <2>2, <3>1, <3>2 DEF Subscribed
  <2>3. CASE c # b
    <3>1. subscribers'[c] = subscribers[c]
      BY <1>4, <2>3 DEF Typed, Types
    <3> QED BY <1>7, <1>8, <2>1, <2>3, <3>1 DEF Present, Subscribed
  <2> QED BY <2>2, <2>3
<1>10. ASSUME NEW t \in Sessions PROVE Held(t)'
  <2>1. Sharer(t)' => board[t] \in kept
    BY <1>3 DEF Present, Held, Sharer, At
  <2>2. \A d \in Sessions : Holder(d)' <=> Holder(d)
    BY <1>3 DEF Holder
  <2>3. \A d \in Sessions : handler'[d].request = handler[d].request
    BY <1>3
  <2> QED BY <1>4, <2>1, <2>2, <2>3 DEF Present, Held
<1>11. ASSUME NEW t \in Sessions, board[t] = b PROVE Warned(t)'
  <2>1. CASE handler[t].at = "subscribe"
    BY <1>5, <1>11, <2>1, SharesRows
  <2>2. CASE handler[t].at \in {"leave_collect", "farewell"}
    BY <1>3, <2>2 DEF Warned
  <2>3. CASE On(t, b)
    <3>1. t \in Range(subscribers[b])
      BY <1>7, <2>3 DEF Present, Subscribed
    <3> QED BY <1>2, <1>3, <1>4, <1>11, <3>1 DEF Warned, At
  <2> QED BY <1>11, <2>1, <2>2, <2>3 DEF On
<1>12. ASSUME NEW t \in Sessions, board[t] # b PROVE Warned(t)'
  <2>1. \A d \in Sessions : At(d, "notify") => handler'[d] = handler[d]
    BY <1>3 DEF At
  <2> QED BY <1>3, <1>4, <1>6, <1>12, <2>1 DEF Present, Warned, At
<1>13. \A t \in Sessions : Noticed(t)'
  BY <1>4, <1>7 DEF Present, Noticed
<1>14. \A c \in Boards : Opened(c)'
  BY <1>4 DEF Present, Opened
<1>15. Later
  BY <1>7, <1>4 DEF Later
<1> QED BY <1>4, <1>15, <1>9, <1>10, <1>11, <1>12, <1>13, <1>14 DEF Present

\* The elements of a strand after Notify.
LEMMA InformedRange ==
    ASSUME NEW q \in Seq(Message), NEW b \in Boards, NEW self \in BOOLEAN
    PROVE  Range(Informed(q, self, b))
             = Range(q) \cup {Notice(b)} \cup (IF self THEN {} ELSE {BoardDeleted(b)})
<1>1. PICK n, d \in Message : n = Notice(b) /\ d = BoardDeleted(b)
  BY MessageTypes
<1>2. PICK p : p = Append(q, n)
  OBVIOUS
<1>3. p \in Seq(Message) /\ Range(p) = Range(q) \cup {n}
  BY <1>2, AppendRange, AppendProperties
<1>4. Range(Append(p, d)) = Range(p) \cup {d}
  BY <1>3, AppendRange
<1> QED BY <1>1, <1>2, <1>3, <1>4 DEF Informed

\* The recipient has a notice on its strand instead.
LEMMA NotifyPresent ==
    ASSUME Typed, Present, NEW s \in Sessions, Notify(s)
    PROVE  Present' /\ Later
<1>1. PICK t0 \in Sessions, b \in Boards, to \in Seq(Sessions) :
        /\ to = handler[s].to /\ to # <<>>
        /\ t0 = Head(to) /\ b = handler[s].request.board
  BY NotifyIs
<1>2. /\ \A t \in Sessions \ {s} : handler'[t] = handler[t]
      /\ handler'[s].at = "notify" /\ handler[s].at = "notify"
      /\ handler'[s].request = handler[s].request /\ handler'[s].to = Tail(to)
  BY <1>1, NotifyIs, RecordIs DEF Becomes, At
<1>3. UNCHANGED <<rows, kept, subscribers, runtime, board>>
  BY NotifyIs DEF shared, own
<1>4. /\ b \notin kept
      /\ \A d \in Sessions : Holder(d) /\ handler[d].request.board = b => d = s
  BY <1>1, <1>2 DEF Present, Held, Holder
<1>5. Gone(b)
  BY <1>2, <1>4 DEF Gone, Closing, Holder, At
<1>6. \A c : Closing(c)' <=> Closing(c)
  BY <1>2 DEF Closing, At
<1>7. \A c : Gone(c)' <=> Gone(c)
  BY <1>3, <1>6 DEF Gone
<1>8. \A c \in Boards, t \in Sessions : On(t, c)' <=> On(t, c)
  BY <1>2, <1>3 DEF On
<1>9. PICK self \in BOOLEAN : self = (t0 = s)
  OBVIOUS
<1>10. PICK q : q = Informed(strand[t0], self, b)
  OBVIOUS
<1>11. strand' = [strand EXCEPT ![t0] = q]
  BY <1>1, <1>9, <1>10, NotifyIs
<1>12. Range(q) = Range(strand[t0]) \cup {Notice(b)} \cup
                    (IF self THEN {} ELSE {BoardDeleted(b)})
  <2>1. strand[t0] \in Seq(Message)
    BY DEF Typed, Types
  <2> QED BY <1>10, <2>1, InformedRange
<1>13. \A t \in Sessions, c \in Boards :
          Notice(c) \in Range(strand'[t]) <=>
            Notice(c) \in Range(strand[t]) \/ (t = t0 /\ c = b)
  <2>1. \A c \in Boards : Notice(c) # BoardDeleted(b) /\ (Notice(c) = Notice(b) <=> c = b)
    BY DEF Notice, BoardDeleted
  <2>2. \A t \in Sessions : strand'[t] = IF t = t0 THEN q ELSE strand[t]
    BY <1>11 DEF Typed, Types
  <2> QED BY <1>12, <2>1, <2>2
<1>14. ASSUME NEW c \in Boards PROVE Subscribed(c)'
  <2>1. Range(subscribers[c]) \subseteq Sessions
    BY TypedIsOK
  <2> QED BY <1>3, <1>7, <1>8, <2>1 DEF Present, Subscribed
<1>15. ASSUME NEW t \in Sessions PROVE Held(t)'
  <2>1. Sharer(t)' => board[t] \in kept
    BY <1>2 DEF Present, Held, Sharer, At
  <2>2. \A d \in Sessions : Holder(d)' <=> Holder(d)
    BY <1>2 DEF Holder
  <2>3. \A d \in Sessions : handler'[d].request = handler[d].request
    BY <1>2
  <2> QED BY <1>3, <2>1, <2>2, <2>3 DEF Present, Held
<1>16. Range(to) = Range(Tail(to)) \cup {t0}
  BY <1>1, TailRange
<1>17. ASSUME NEW t \in Sessions PROVE Warned(t)'
  <2>1. CASE board[t] \in Boards \ kept
    <3>1. CASE Closing(board[t])
      BY <3>1, <1>3, <1>6 DEF Warned
    <3>2. CASE \E d \in Sessions : /\ At(d, "notify") /\ handler[d].request.board = board[t]
                                   /\ t \in Range(handler[d].to)
      <4>1. PICK d \in Sessions : /\ At(d, "notify") /\ handler[d].request.board = board[t]
                                  /\ t \in Range(handler[d].to)
        BY <3>2
      <4>2. CASE d # s
        BY <4>1, <4>2, <1>2, <1>3 DEF Warned, At
      <4>3. CASE d = s /\ t = t0
        BY <4>1, <4>3, <1>1, <1>3, <1>13 DEF Warned
      <4>4. CASE d = s /\ t # t0
        <5>1. t \in Range(Tail(to))
          BY <4>1, <4>4, <1>1, <1>16
        <5> QED BY <4>1, <4>4, <5>1, <1>2, <1>3 DEF Warned, At
      <4> QED BY <4>2, <4>3, <4>4
    <3>3. CASE Notice(board[t]) \in Range(strand[t])
      BY <2>1, <3>3, <1>3, <1>13 DEF Warned
    <3>4. CASE handler[t].at \in {"leave_collect", "farewell"}
      BY <3>4, <1>2 DEF Warned
    <3> QED BY <2>1, <3>1, <3>2, <3>3, <3>4 DEF Present, Warned
  <2>2. CASE board[t] \notin Boards \ kept
    BY <2>2, <1>3 DEF Warned
  <2> QED BY <2>1, <2>2
<1>18. \A t \in Sessions : Noticed(t)'
  BY <1>5, <1>7, <1>13 DEF Present, Noticed
<1>19. \A c \in Boards : Opened(c)'
  BY <1>3 DEF Present, Opened
<1>20. Later
  BY <1>7, <1>3 DEF Later
<1> QED BY <1>3, <1>20, <1>14, <1>15, <1>17, <1>18, <1>19 DEF Present

\* RunPosted, as what becomes of the strand, the board and the client.
LEMMA RunPostedIs ==
    ASSUME Typed, NEW s \in Sessions, RunPosted(s)
    PROVE  /\ At(s, "idle")
           /\ strand[s] \in Seq(Message) /\ strand[s] # <<>>
           /\ Head(strand[s]) \in Message
           /\ Head(strand[s]).type = "notice" =>
                /\ Head(strand[s]).board \in Boards
                /\ Head(strand[s]) = Notice(Head(strand[s]).board)
           /\ \A t \in Sessions : strand'[t] = IF t = s THEN Tail(strand[s]) ELSE strand[t]
           /\ \A t \in Sessions : board'[t] =
                IF /\ t = s /\ Head(strand[s]).type = "notice"
                   /\ board[s] = Head(strand[s]).board
                  THEN NoBoard ELSE board[t]
           /\ UNCHANGED <<shared, reading, ghost, handler, asked>>
<1>1. strand[s] \in Seq(Message) /\ strand[s] # <<>>
  BY DEF RunPosted, Typed, Types
<1>2. PICK m \in Message : m = Head(strand[s])
  BY <1>1
<1>3. m.type = "notice" => m.board \in Boards /\ m = Notice(m.board)
  BY DEF Message, Notice
<1>4. \A t \in Sessions : board'[t] =
        IF t = s /\ m.type = "notice" /\ board[s] = m.board THEN NoBoard ELSE board[t]
  BY <1>2 DEF RunPosted, Typed, Types
<1>5. \A t \in Sessions : strand'[t] = IF t = s THEN Tail(strand[s]) ELSE strand[t]
  BY DEF RunPosted, Typed, Types
<1> QED BY <1>1, <1>2, <1>3, <1>4, <1>5 DEF RunPosted

\* The session that runs a notice is off the board that the notice names.
LEMMA RunPostedPresent ==
    ASSUME Typed, Present, NEW s \in Sessions, RunPosted(s)
    PROVE  Present' /\ Later
<1>1. PICK m \in Message : m = Head(strand[s])
  BY RunPostedIs
<1>2. /\ handler[s].at = "idle"
      /\ UNCHANGED <<rows, kept, runtime, subscribers, handler>>
      /\ m.type = "notice" => m.board \in Boards /\ m = Notice(m.board)
      /\ \A t \in Sessions : board'[t] =
           IF t = s /\ m.type = "notice" /\ board[s] = m.board THEN NoBoard ELSE board[t]
  BY <1>1, RunPostedIs DEF At, shared
<1>3. \A t \in Sessions : Range(strand[t]) = Range(strand'[t]) \cup (IF t = s THEN {m} ELSE {})
  <2>1. Range(strand[s]) = Range(Tail(strand[s])) \cup {m}
    BY <1>1, RunPostedIs, TailRange
  <2> QED BY <2>1, RunPostedIs
<1>4. \A c : (Closing(c)' <=> Closing(c)) /\ (Gone(c)' <=> Gone(c))
  BY <1>2 DEF Closing, Gone, At
<1>5. \A c \in Boards, t \in Sessions :
        On(t, c)' <=> On(t, c) /\ ~(t = s /\ m.type = "notice" /\ m.board = c)
  BY <1>2, BoardsAssumption DEF On
<1>6. m.type = "notice" => Gone(m.board)
  BY <1>2, <1>3 DEF Present, Noticed
<1>7. ASSUME NEW c \in Boards PROVE Subscribed(c)'
  <2>1. Range(subscribers[c]) \subseteq Sessions
    BY TypedIsOK
  <2>2. Subscribed(c)
    BY DEF Present
  <2>3. CASE m.type = "notice" /\ m.board = c
    <3>1. Gone(c) /\ subscribers[c] = <<>>
      BY <1>6, <2>2, <2>3 DEF Subscribed
    <3>2. Range(subscribers[c]) = {}
      BY <3>1 DEF Range
    <3> QED BY <1>2, <1>4, <2>2, <3>1, <3>2 DEF Subscribed
  <2>4. CASE ~(m.type = "notice" /\ m.board = c)
    <3>1. \A t \in Sessions : On(t, c)' <=> On(t, c)
      BY <1>5, <2>4
    <3> QED BY <1>2, <1>4, <2>1, <2>2, <3>1 DEF Subscribed
  <2> QED BY <2>3, <2>4
<1>8. ASSUME NEW t \in Sessions PROVE Held(t)'
  <2>1. Sharer(t)' => board'[t] \in kept
    BY <1>2 DEF Present, Held, Sharer, At
  <2>2. \A d \in Sessions : Holder(d)' <=> Holder(d)
    BY <1>2 DEF Holder
  <2> QED BY <1>2, <2>1, <2>2 DEF Present, Held
<1>9. ASSUME NEW t \in Sessions PROVE Warned(t)'
  <2>1. CASE board'[t] \notin Boards \ kept
    BY <1>2, <2>1 DEF Warned
  <2>2. CASE board'[t] \in Boards \ kept
    <3>1. board'[t] = board[t]
      BY <1>2, <2>2, BoardsAssumption
    <3>2. Notice(board[t]) \in Range(strand[t]) => Notice(board[t]) \in Range(strand'[t])
      <4>1. CASE t # s
        BY <4>1, <1>3
      <4>2. CASE t = s
        <5>1. m # Notice(board[s])
          BY <1>2, <2>2, <3>1, <4>2, BoardsAssumption DEF Notice
        <5> QED BY <4>2, <5>1, <1>3
      <4> QED BY <4>1, <4>2
    <3>3. Warned(t)
      BY DEF Present
    <3> QED BY <1>2, <1>4, <2>2, <3>1, <3>2, <3>3 DEF Warned, At
  <2> QED BY <2>1, <2>2
<1>10. \A t \in Sessions : Noticed(t)'
  BY <1>3, <1>4 DEF Present, Noticed
<1>11. \A c \in Boards : Opened(c)'
  BY <1>2, BoardsAssumption DEF Present, Opened
<1>12. Later
  BY <1>4, <1>2, BoardsAssumption DEF Later
<1> QED BY <1>2, <1>12, <1>7, <1>8, <1>9, <1>10, <1>11 DEF Present

\* A session that ceases to exist is nobody's recipient, and no subscriber.
LEMMA ExpirePresent ==
    ASSUME Typed, Present, NEW s \in Sessions, Expire(s)
    PROVE  Present' /\ Later
<1>1. /\ handler[s].at = "idle" /\ strand[s] = <<>>
      /\ UNCHANGED <<rows, kept, runtime, handler, strand>>
      /\ \A t \in Sessions : board'[t] = IF t = s THEN NoBoard ELSE board[t]
  BY ExpireIs
<1>2. \A c : (Closing(c)' <=> Closing(c)) /\ (Gone(c)' <=> Gone(c))
  BY <1>1 DEF Closing, Gone, At
<1>3. \A c \in Boards, t \in Sessions : On(t, c)' <=> On(t, c) /\ t # s
  BY <1>1, BoardsAssumption DEF On
<1>4. ASSUME NEW c \in Boards PROVE Subscribed(c)'
  <2>1. Range(subscribers[c]) \subseteq Sessions /\ Subscribed(c)
    BY TypedIsOK DEF Present
  <2>2. /\ subscribers'[c] \in Seq(Sessions)
        /\ Range(subscribers'[c]) = Range(subscribers[c]) \ {s}
        /\ IsInjective(subscribers'[c])
    BY <2>1, ExpireIs DEF Subscribed
  <2>3. ASSUME Gone(c) PROVE subscribers'[c] = <<>>
    <3>1. PICK q \in Seq(Sessions) : q = subscribers'[c]
      BY <2>2
    <3>2. Range(q) = {}
      BY <2>1, <2>2, <2>3, <3>1 DEF Subscribed, Range
    <3> QED BY <3>1, <3>2, EmptyRange
  <2> QED BY <1>2, <1>3, <2>1, <2>2, <2>3 DEF Subscribed
<1>5. ASSUME NEW t \in Sessions PROVE Held(t)'
  <2>1. Sharer(t)' => board'[t] \in kept
    BY <1>1 DEF Present, Held, Sharer, At
  <2>2. \A d \in Sessions : Holder(d)' <=> Holder(d)
    BY <1>1 DEF Holder
  <2> QED BY <1>1, <2>1, <2>2 DEF Present, Held
<1>6. ASSUME NEW t \in Sessions PROVE Warned(t)'
  <2>1. CASE t = s
    BY <1>1, <2>1, BoardsAssumption DEF Warned
  <2>2. CASE t # s
    BY <1>1, <1>2, <2>2 DEF Present, Warned, At
  <2> QED BY <2>1, <2>2
<1>7. \A t \in Sessions : Noticed(t)'
  BY <1>1, <1>2 DEF Present, Noticed
<1>8. \A c \in Boards : Opened(c)'
  BY <1>1, BoardsAssumption DEF Present, Opened
<1>9. Later
  BY <1>1, <1>2, BoardsAssumption DEF Later
<1> QED BY <1>1, <1>4, <1>5, <1>6, <1>7, <1>8, <1>9 DEF Present

\* Every step keeps Present, and what is gone stays gone.
LEMMA StepPresent ==
    ASSUME Typed, Present, Next
    PROVE  Present' /\ Later
<1>1. PICK s \in Sessions :
        (\E r \in Requests : Receive(s, r)) \/ Disconnect(s) \/ Expire(s) \/ Step(s)
  BY DEF Next
<1>2. CASE (\E r \in Requests : Receive(s, r)) \/ Disconnect(s)
  BY <1>2, RequestPresent
<1>9. CASE Expire(s)
  BY <1>9, ExpirePresent
<1>3. CASE Leave(s)
  BY <1>3, LeavePresent, UnsubscribePresent, LeftPresent DEF Leave
<1>4. CASE Join(s)
  BY <1>4, JoinPresent, JoinBoardPresent, SubscribePresent DEF Join
<1>5. CASE Broadcast(s)
  BY <1>5, BroadcastPresent
<1>6. CASE Delete(s)
  BY <1>6, RefusalPresent, DeleteRowsPresent, CloseBoardPresent, NotifyPresent DEF Delete
<1>7. CASE ApplyOperation(s) \/ OperationRejected(s)
  BY <1>7, OperationPresent
<1>8. CASE RunPosted(s)
  BY <1>8, RunPostedPresent
<1> QED BY <1>1, <1>2, <1>3, <1>4, <1>5, <1>6, <1>7, <1>8, <1>9 DEF Step

\* At first nobody is anywhere.
LEMMA InitPresent ==
    Init => Present
<1> SUFFICES ASSUME Init PROVE Present
  OBVIOUS
<1>1. \A s \in Sessions : handler[s].at = "idle" /\ board[s] = NoBoard /\ strand[s] = <<>>
  BY DEF Init, Idle
<1>2. Range(<<>>) = {} /\ IsInjective(<<>>)
  BY DEF Range, IsInjective
<1>3. kept = Boards /\ rows = Boards
  BY DEF Init
<1>4. \A s \in Sessions : Held(s)
  BY <1>1 DEF Held, Sharer, Holder, At
<1>5. \A s \in Sessions : Warned(s) /\ Noticed(s)
  BY <1>1, <1>2, <1>3 DEF Warned, Noticed
<1>6. ASSUME NEW b \in Boards PROVE Opened(b) /\ Subscribed(b)
  <2>1. Opened(b)
    BY <1>1, <1>3, BoardsAssumption DEF Opened, Init, Fresh
  <2>2. subscribers[b] = <<>>
    BY DEF Init
  <2> QED BY <1>1, <1>2, <2>1, <2>2, BoardsAssumption DEF Subscribed, On
<1> QED BY <1>3, <1>4, <1>5, <1>6 DEF Present

\* Present is an invariant.
LEMMA PresentInvariant ==
    Spec => []Present
<1>1. ASSUME Present, UNCHANGED vars PROVE Present'
  BY <1>1
  DEF vars, Present, Held, Warned, Noticed, Opened, Subscribed, Sharer, Holder, At, Closing,
      Gone, On
<1>2. Typed /\ Present /\ [Next]_vars => Present'
  BY <1>1, StepPresent
<1> QED BY <1>2, InitPresent, TypedInvariant, PTL DEF Spec

\* Whatever the handlers of the sessions do at once, the shared structures and the
\* sessions stay well typed, and a handler in between that relies on
\* joined_board_id_ never finds it reset: board_deleted is posted to the strand of
\* the session instead of being done to it.  And a board that was deleted never
\* has a row again, although an operation inserts the row if it misses it.
THEOREM TypeCorrectness ==
    Spec => []TypeOK
<1>1. Typed /\ Present => TypeOK
  BY TypedIsOK DEF Present
<1> QED BY <1>1, TypedInvariant, PresentInvariant, PTL

-----------------------------------------------------------------------------
(* Participants *)

\* A session is a participant from when it joins until it has begun to leave, and
\* for ever if it ceased to be on the board.
Enrolled(s, b) ==
    \/ /\ board[s] = b
       /\ handler[s].at \notin {"remaining", "unsubscribe", "leave_collect", "farewell"}
    \/ ghost[s] = b

\* Such a session does nothing any more.
Silenced(s) ==
    ghost[s] # NoBoard =>
        reading[s] = "closed" /\ handler[s].at = "idle" /\ board[s] = NoBoard

\* What a session does of itself, or is asked to, changes no other.
LEMMA StepAlone ==
    ASSUME Typed, NEW s \in Sessions, Step(s), ~RunPosted(s)
    PROVE  /\ handler[s].at # "idle"
           /\ UNCHANGED <<reading, ghost, asked>>
           /\ \A t \in Sessions \ {s} : handler'[t] = handler[t] /\ board'[t] = board[t]
<1>1. CASE Leave(s)
  <2>1. CASE Left(s)
    BY <2>1, LeftIs DEF Goto, Finish, Answer, Typed, Types
  <2> QED
    BY <1>1, <2>1
    DEF Leave, LeaveParticipant, ReadRemaining, Unsubscribe, Collect, PostNext, Goto, At,
        own, Typed, Types
<1>2. CASE Join(s)
  BY <1>2
  DEF Join, JoinRefused, JoinBoard, Subscribe, ReadSnapshot, Respond, ReadPresent, Goto,
      Finish, Answer, At, own, Typed, Types
<1>3. CASE Broadcast(s)
  BY <1>3 DEF Broadcast, Collect, PostNext, Finish, At, own, Typed, Types
<1>4. CASE Delete(s)
  BY <1>4
  DEF Delete, DeleteRefused, DeleteLost, DeleteRows, CloseBoard, Notify, Deleted, Goto,
      Finish, Answer, At, own, Typed, Types
<1>5. CASE ApplyOperation(s) \/ OperationRejected(s)
  BY <1>5 DEF ApplyOperation, OperationRejected, Finish, Answer, At, own, Typed, Types
<1> QED BY <1>1, <1>2, <1>3, <1>4, <1>5 DEF Step

\* A session that ceased to be on a board stays as it is.
LEMMA StepSilenced ==
    ASSUME Typed, \A t \in Sessions : Silenced(t), Next
    PROVE  \A t \in Sessions : Silenced(t)'
<1>1. PICK s \in Sessions :
        (\E r \in Requests : Receive(s, r)) \/ Disconnect(s) \/ Expire(s) \/ Step(s)
  BY DEF Next
<1>2. CASE \E r \in Requests : Receive(s, r)
  <2>1. PICK r \in Requests : Receive(s, r)
    BY <1>2
  <2>2. PICK h : Becomes(s, h)
    BY <2>1, DispatchMoves, RequestsAre DEF Receive, Accept
  <2> QED BY <2>1, <2>2 DEF Silenced, Becomes, Receive, Accept
<1>3. CASE Disconnect(s)
  BY <1>3 DEF Silenced, Disconnect, Begin, Typed, Types
<1>4. CASE Expire(s)
  BY <1>4, ExpireIs DEF Silenced
<1>5. CASE RunPosted(s)
  BY <1>5, RunPostedIs DEF Silenced
<1>6. CASE Step(s) /\ ~RunPosted(s)
  BY <1>6, StepAlone DEF Silenced
<1> QED BY <1>1, <1>2, <1>3, <1>4, <1>5, <1>6

LEMMA SilencedInvariant ==
    Spec => [](\A t \in Sessions : Silenced(t))
<1> DEFINE Inv == \A t \in Sessions : Silenced(t)
<1>1. Init => Inv
  BY DEF Init, Silenced
<1>2. Typed /\ Inv /\ [Next]_vars => Inv'
  BY StepSilenced DEF vars, Silenced
<1> QED BY <1>1, <1>2, TypedInvariant, PTL DEF Spec

\* The participants of a board are the principals of those who have joined.
Listed ==
    IsInjective(Identity) =>
        \A b \in Boards :
            runtime[b].participants =
                IF b \in kept THEN {Identity[s] : s \in {t \in Sessions : Enrolled(t, b)}} ELSE {}

\* A move that neither joins nor leaves.
QuietListed(s, h) ==
    /\ Becomes(s, h)
    /\ h.at \in {"remaining", "unsubscribe", "leave_collect", "farewell"} <=>
         handler[s].at \in {"remaining", "unsubscribe", "leave_collect", "farewell"}
    /\ UNCHANGED <<kept, board, ghost>>

\* A step that changes neither the participants nor who has joined.
LEMMA SameListed ==
    ASSUME Listed, UNCHANGED kept,
           \A b \in Boards : runtime'[b].participants = runtime[b].participants,
           \A s \in Sessions, b \in kept : Enrolled(s, b)' <=> Enrolled(s, b)
    PROVE  Listed'
<1>1. \A b \in kept : {t \in Sessions : Enrolled(t, b)}' = {t \in Sessions : Enrolled(t, b)}
  OBVIOUS
<1> QED BY <1>1 DEF Listed

\* A handler that moves without joining or leaving.
LEMMA MoveListed ==
    ASSUME Typed, Listed, NEW s \in Sessions, NEW h, QuietListed(s, h),
           \A b \in Boards : runtime'[b].participants = runtime[b].participants
    PROVE  Listed'
<1>1. \A t \in Sessions : \A b : Enrolled(t, b)' <=> Enrolled(t, b)
  BY DEF QuietListed, Becomes, Enrolled
<1> QED BY <1>1, SameListed DEF QuietListed

\* The actions that change the participants, or who counts as one.
LEMMA LeaveParticipantListed ==
    ASSUME Typed, Listed, NEW s \in Sessions, Silenced(s), LeaveParticipant(s)
    PROVE  Listed'
<1> SUFFICES ASSUME IsInjective(Identity), NEW b \in Boards
             PROVE  runtime'[b].participants =
                      IF b \in kept' THEN {Identity[t] : t \in {u \in Sessions : Enrolled(u, b)'}}
                      ELSE {}
  BY DEF Listed
<1>1. /\ \A t \in Sessions \ {s} : handler'[t] = handler[t]
      /\ handler'[s].at = "remaining" /\ handler[s].at = "leave"
  <2>1. PICK h : h.at = "remaining" /\ Becomes(s, h)
    BY LeaveParticipantMoves, RecordIs
  <2> QED BY <2>1 DEF Becomes, LeaveParticipant, At
<1>2. UNCHANGED <<kept, board, ghost>> /\ ghost[s] = NoBoard
  BY DEF LeaveParticipant, own, At, Silenced
<1>3. \A t \in Sessions, c \in Boards : Enrolled(t, c)' <=> Enrolled(t, c) /\ t # s
  BY <1>1, <1>2, BoardsAssumption DEF Enrolled
<1>4. board[s] \in Boards
  BY <1>1, OnBoardIs DEF OnBoard
<1>5. runtime'[b].participants =
        IF b = board[s] THEN runtime[b].participants \ {Identity[s]}
        ELSE runtime[b].participants
  BY <1>4 DEF LeaveParticipant, Typed, Types, Runtime
<1>6. runtime[b].participants =
        IF b \in kept THEN {Identity[t] : t \in {u \in Sessions : Enrolled(u, b)}} ELSE {}
  BY DEF Listed
<1>7. \A t \in Sessions : Identity[t] = Identity[s] => t = s
  BY IdentityAssumption DEF IsInjective
<1>8. CASE b = board[s]
  BY <1>2, <1>3, <1>5, <1>6, <1>7, <1>8
<1>9. CASE b # board[s]
  <2>1. \A t \in Sessions : Enrolled(t, b)' <=> Enrolled(t, b)
    BY <1>2, <1>3, <1>9, BoardsAssumption DEF Enrolled
  <2> QED BY <1>2, <1>5, <1>6, <1>9, <2>1
<1> QED BY <1>8, <1>9

LEMMA JoinBoardListed ==
    ASSUME Typed, Present, Listed, NEW s \in Sessions, JoinBoard(s)
    PROVE  Listed'
<1> SUFFICES ASSUME IsInjective(Identity), NEW c \in Boards
             PROVE  runtime'[c].participants =
                      IF c \in kept' THEN {Identity[t] : t \in {u \in Sessions : Enrolled(u, c)'}}
                      ELSE {}
  BY DEF Listed
<1>1. /\ \A t \in Sessions \ {s} : handler'[t] = handler[t]
      /\ handler'[s].at = "subscribe" /\ handler[s].at = "join"
  <2>1. PICK h : h.at = "subscribe" /\ Becomes(s, h)
    BY JoinBoardMoves, RecordIs
  <2> QED BY <2>1 DEF Becomes, JoinBoard, At
<1>2. PICK b \in Boards : b = handler[s].request.board
  BY RequestedIs DEF JoinBoard, At
<1>3. /\ b \in kept /\ kept' = kept /\ ghost' = ghost
      /\ board'[s] = b /\ \A t \in Sessions \ {s} : board'[t] = board[t]
  BY <1>2 DEF Present, JoinBoard, Typed, Types
<1>4. board[s] = NoBoard
  BY <1>1 DEF Typed, Purpose
<1>5. \A t \in Sessions : Enrolled(t, c)' <=> Enrolled(t, c) \/ (t = s /\ c = b)
  BY <1>1, <1>3, <1>4, BoardsAssumption DEF Enrolled
<1>6. runtime'[c].participants =
        IF c = b THEN runtime[c].participants \cup {Identity[s]}
        ELSE runtime[c].participants
  BY <1>2 DEF JoinBoard, Typed, Types, Runtime
<1>7. runtime[c].participants =
        IF c \in kept THEN {Identity[t] : t \in {u \in Sessions : Enrolled(u, c)}} ELSE {}
  BY DEF Listed
<1>8. CASE c = b
  BY <1>3, <1>5, <1>6, <1>7, <1>8
<1>9. CASE c # b
  BY <1>3, <1>5, <1>6, <1>7, <1>9
<1> QED BY <1>8, <1>9

LEMMA DeleteRowsListed ==
    ASSUME Typed, Listed, NEW s \in Sessions, DeleteRows(s)
    PROVE  Listed'
<1>1. /\ \A t \in Sessions \ {s} : handler'[t] = handler[t]
      /\ handler'[s].at = "close" /\ handler[s].at = "delete"
  <2>1. PICK h : h.at = "close" /\ Becomes(s, h)
    BY DeleteRowsMoves, RecordIs
  <2> QED BY <2>1 DEF Becomes, DeleteRows, At
<1>2. PICK b \in Boards : b = handler[s].request.board
  BY RequestedIs DEF DeleteRows, At
<1>3. kept' = kept \ {b} /\ board' = board /\ ghost' = ghost
  BY <1>2 DEF DeleteRows, own
<1>4. \A t \in Sessions : \A c : Enrolled(t, c)' <=> Enrolled(t, c)
  BY <1>1, <1>3 DEF Enrolled
<1>5. \A c \in Boards : runtime'[c].participants =
        IF c = b THEN {} ELSE runtime[c].participants
  BY <1>2 DEF DeleteRows, Typed, Types, Runtime
<1>6. \A c \in Boards :
        {t \in Sessions : Enrolled(t, c)}' = {t \in Sessions : Enrolled(t, c)}
  BY <1>4
<1> QED BY <1>3, <1>5, <1>6 DEF Listed

LEMMA LeftListed ==
    ASSUME Typed, Listed, NEW s \in Sessions, Left(s)
    PROVE  Listed'
<1>1. PICK h : Becomes(s, h)
  <2>1. CASE Goto(s, "join")
    <3>1. "join" \in Places \ {"idle"} /\ handler \in Handlers
      BY DEF Typed, Types, Handlers, Places
    <3> QED BY <2>1, <3>1, LeftIs, GotoMoves
  <2>2. CASE Answer(s, LeaveBoardResponse) \/ Finish(s)
    BY <2>2, FinishMoves DEF Answer, Typed, Types, Handlers
  <2> QED BY <2>1, <2>2, LeftIs
<1>2. /\ \A t \in Sessions \ {s} : handler'[t] = handler[t]
      /\ handler[s].at = "farewell"
  BY <1>1, LeftIs DEF Becomes
<1>3. /\ UNCHANGED <<kept, runtime, ghost>>
      /\ board'[s] = NoBoard /\ \A t \in Sessions \ {s} : board'[t] = board[t]
  BY LeftIs DEF shared, Typed, Types
<1>4. \A t \in Sessions, b \in Boards : Enrolled(t, b)' <=> Enrolled(t, b)
  BY <1>2, <1>3, BoardsAssumption DEF Enrolled
<1> QED BY <1>3, <1>4, SameListed DEF Typed, Types

LEMMA RunPostedListed ==
    ASSUME Typed, Present, Listed, NEW s \in Sessions, RunPosted(s)
    PROVE  Listed'
<1>1. PICK m \in Message : m = Head(strand[s])
  BY RunPostedIs
<1>2. /\ UNCHANGED <<kept, runtime, handler, ghost>>
      /\ m.type = "notice" => m.board \in Boards /\ m = Notice(m.board)
      /\ \A t \in Sessions : board'[t] =
           IF t = s /\ m.type = "notice" /\ board[s] = m.board THEN NoBoard ELSE board[t]
  BY <1>1, RunPostedIs DEF shared
<1>3. m \in Range(strand[s])
  BY <1>1, RunPostedIs, TailRange
<1>4. m.type = "notice" => m.board \notin kept
  BY <1>2, <1>3 DEF Present, Noticed, Gone
<1>5. \A t \in Sessions, b \in kept : Enrolled(t, b)' <=> Enrolled(t, b)
  BY <1>2, <1>4, BoardsAssumption DEF Enrolled, Typed, Types
<1> QED BY <1>2, <1>5, SameListed

\* The actions that do not.
LEMMA LeaveListed ==
    ASSUME Typed, Listed, NEW s \in Sessions,
           \/ ReadRemaining(s) \/ Unsubscribe(s)
           \/ Collect(s, "leave_collect", "farewell") \/ PostNext(s, "farewell")
    PROVE  Listed'
<1>1. CASE ReadRemaining(s)
  <2>1. PICK h : /\ h.at = "unsubscribe"
                 /\ Becomes(s, h)
    BY <1>1, ReadRemainingMoves, RecordIs
  <2> QED BY <1>1, <2>1, MoveListed DEF QuietListed, ReadRemaining, At, shared, own
<1>2. CASE Unsubscribe(s)
  <2>1. PICK h : /\ h.at = "leave_collect"
                 /\ Becomes(s, h)
    BY <1>2, UnsubscribeMoves, RecordIs
  <2> QED BY <1>2, <2>1, MoveListed DEF QuietListed, Unsubscribe, At, own
<1>3. CASE Collect(s, "leave_collect", "farewell")
  <2>1. PICK h : /\ h.at = "farewell"
                 /\ Becomes(s, h)
    BY <1>3, CollectMoves, RecordIs DEF BroadcastPlaces
  <2> QED BY <1>3, <2>1, MoveListed DEF QuietListed, Collect, At, shared, own
<1>4. CASE PostNext(s, "farewell")
  <2>1. PICK h : /\ h.at = "farewell"
                 /\ Becomes(s, h)
    BY <1>4, PostNextMoves, RecordIs
  <2> QED BY <1>4, <2>1, MoveListed DEF QuietListed, PostNext, At, shared, own
<1> QED BY <1>1, <1>2, <1>3, <1>4

LEMMA JoinListed ==
    ASSUME Typed, Listed, NEW s \in Sessions,
           \/ JoinRefused(s) \/ Subscribe(s) \/ ReadSnapshot(s) \/ Respond(s) \/ ReadPresent(s)
    PROVE  Listed'
<1>1. CASE JoinRefused(s)
  BY <1>1, RefusedMoves, MoveListed DEF QuietListed, JoinRefused, At, Idle, Codes, shared, own
<1>2. CASE Subscribe(s)
  <2>1. PICK h : /\ h.at = "snapshot"
                 /\ Becomes(s, h)
    BY <1>2, SubscribeMoves, RecordIs
  <2> QED BY <1>2, <2>1, MoveListed DEF QuietListed, Subscribe, At, own
<1>3. CASE ReadSnapshot(s)
  <2>1. PICK h : /\ h.at = "respond"
                 /\ Becomes(s, h)
    BY <1>3, ReadSnapshotMoves, RecordIs
  <2> QED BY <1>3, <2>1, MoveListed DEF QuietListed, ReadSnapshot, At, shared, own
<1>4. CASE Respond(s)
  <2>1. PICK h : /\ h.at \in {"present", "idle"}
                 /\ Becomes(s, h)
    BY <1>4, RespondMoves, RecordIs DEF Idle
  <2> QED BY <1>4, <2>1, MoveListed DEF QuietListed, Respond, At, shared, own
<1>5. CASE ReadPresent(s)
  <2>1. PICK h : /\ h.at = "collect"
                 /\ Becomes(s, h)
    BY <1>5, ReadPresentMoves, RecordIs
  <2> QED BY <1>5, <2>1, MoveListed DEF QuietListed, ReadPresent, At, shared, own
<1> QED BY <1>1, <1>2, <1>3, <1>4, <1>5

LEMMA BroadcastListed ==
    ASSUME Typed, Listed, NEW s \in Sessions, Broadcast(s)
    PROVE  Listed'
<1>1. CASE Collect(s, "collect", "post")
  <2>1. PICK h : /\ h.at = "post"
                 /\ Becomes(s, h)
    BY <1>1, CollectMoves, RecordIs DEF BroadcastPlaces
  <2> QED BY <1>1, <2>1, MoveListed DEF QuietListed, Collect, At, shared, own
<1>2. CASE PostNext(s, "post")
  <2>1. PICK h : /\ h.at = "post"
                 /\ Becomes(s, h)
    BY <1>2, PostNextMoves, RecordIs
  <2> QED BY <1>2, <2>1, MoveListed DEF QuietListed, PostNext, At, shared, own
<1>3. CASE /\ At(s, "post") /\ handler[s].to = <<>>
           /\ Finish(s)
           /\ UNCHANGED <<shared, own, posts>>
  BY <1>3, BroadcastEndMoves, MoveListed DEF QuietListed, At, Idle, shared, own
<1> QED BY <1>1, <1>2, <1>3 DEF Broadcast

LEMMA DeleteListed ==
    ASSUME Typed, Listed, NEW s \in Sessions,
           DeleteRefused(s) \/ DeleteLost(s) \/ CloseBoard(s) \/ Notify(s) \/ Deleted(s)
    PROVE  Listed'
<1>1. CASE DeleteRefused(s)
  BY <1>1, RefusedMoves, MoveListed
  DEF QuietListed, DeleteRefused, At, Idle, Codes, shared, own
<1>2. CASE CloseBoard(s)
  <2>1. PICK h : /\ h.at = "notify"
                 /\ Becomes(s, h)
    BY <1>2, CloseBoardMoves, RecordIs
  <2> QED BY <1>2, <2>1, MoveListed DEF QuietListed, CloseBoard, At, own
<1>3. CASE Notify(s)
  <2>1. PICK h : /\ h.at = "notify"
                 /\ Becomes(s, h)
    BY <1>3, NotifyIs, RecordIs
  <2> QED BY <1>3, <2>1, MoveListed DEF QuietListed, Notify, At, shared, own
<1>4. CASE Deleted(s)
  BY <1>4, DeletedMoves, MoveListed DEF QuietListed, Deleted, At, Idle, shared, own
<1>5. CASE DeleteLost(s)
  BY <1>5, DeleteLostMoves, MoveListed DEF QuietListed, DeleteLost, At, Idle, own
<1> QED BY <1>1, <1>2, <1>3, <1>4, <1>5

LEMMA OperationListed ==
    ASSUME Typed, Listed, NEW s \in Sessions, ApplyOperation(s) \/ OperationRejected(s)
    PROVE  Listed'
<1>1. CASE ApplyOperation(s)
  <2>1. PICK h : /\ h.at = "collect"
                 /\ Becomes(s, h)
    BY <1>1, ApplyOperationMoves, RecordIs
  <2>2. \A b \in Boards : runtime'[b].participants = runtime[b].participants
    BY <1>1 DEF ApplyOperation, Typed, Types, Runtime
  <2> QED BY <1>1, <2>1, <2>2, MoveListed DEF QuietListed, ApplyOperation, At, own
<1>2. CASE OperationRejected(s)
  BY <1>2, OperationRejectedMoves, MoveListed
  DEF QuietListed, OperationRejected, At, Idle, shared, own
<1> QED BY <1>1, <1>2

LEMMA RequestListed ==
    ASSUME Typed, Listed, NEW s \in Sessions,
           (\E r \in Requests : Receive(s, r)) \/ Disconnect(s)
    PROVE  Listed'
<1>1. ASSUME NEW r \in Requests, Receive(s, r) PROVE Listed'
  <2>1. At(s, "idle") /\ Dispatch(s, r) /\ UNCHANGED <<shared, board, ghost, strand>>
    BY <1>1 DEF Receive, Accept
  <2>2. PICK h : /\ h.at \in {"join", "leave", "apply", "delete", "respond"}
                 /\ Becomes(s, h)
    BY <2>1, DispatchMoves, RequestsAre, RecordIs
  <2> QED BY <2>1, <2>2, MoveListed DEF QuietListed, At, shared
<1>2. CASE Disconnect(s)
  <2>1. PICK h : h.at \in {"idle", "leave"} /\ Becomes(s, h)
    <3>1. CASE board[s] = NoBoard
      BY <1>2, <3>1 DEF Disconnect, At, Becomes, Typed, Types, Handlers
    <3>2. CASE board[s] # NoBoard
      <4>1. Becomes(s, Record("leave", Hangup, [type |-> "none"], <<>>))
        BY <1>2, <3>2, BeginMoves DEF Disconnect, Typed, Types, Handlers, Places
      <4> QED BY <4>1, RecordIs
    <3> QED BY <3>1, <3>2
  <2> QED BY <1>2, <2>1, MoveListed DEF QuietListed, Disconnect, At, shared
<1> QED BY <1>1, <1>2

\* The principal of a session that ceases to be stays.
LEMMA ExpireListed ==
    ASSUME Typed, Listed, NEW s \in Sessions, Silenced(s), Expire(s)
    PROVE  Listed'
<1>1. ghost[s] = NoBoard
  BY DEF Silenced, Expire
<1>2. \A t \in Sessions, b \in Boards : Enrolled(t, b)' <=> Enrolled(t, b)
  BY <1>1, ExpireIs, BoardsAssumption DEF Enrolled
<1> QED BY <1>2, ExpireIs, SameListed DEF Typed, Types

\* Every step keeps the participants those who have joined.
LEMMA StepListed ==
    ASSUME Typed, Present, Listed, \A t \in Sessions : Silenced(t), Next
    PROVE  Listed'
<1>1. PICK s \in Sessions :
        (\E r \in Requests : Receive(s, r)) \/ Disconnect(s) \/ Expire(s) \/ Step(s)
  BY DEF Next
<1>2. CASE (\E r \in Requests : Receive(s, r)) \/ Disconnect(s)
  BY <1>2, RequestListed
<1>9. CASE Expire(s)
  BY <1>9, ExpireListed
<1>3. CASE Leave(s)
  BY <1>3, LeaveListed, LeaveParticipantListed, LeftListed DEF Leave
<1>4. CASE Join(s)
  BY <1>4, JoinListed, JoinBoardListed DEF Join
<1>5. CASE Broadcast(s)
  BY <1>5, BroadcastListed
<1>6. CASE Delete(s)
  BY <1>6, DeleteListed, DeleteRowsListed DEF Delete
<1>7. CASE ApplyOperation(s) \/ OperationRejected(s)
  BY <1>7, OperationListed
<1>8. CASE RunPosted(s)
  BY <1>8, RunPostedListed
<1> QED BY <1>1, <1>2, <1>3, <1>4, <1>5, <1>6, <1>7, <1>8, <1>9 DEF Step

\* Listed is an invariant.
LEMMA ListedInvariant ==
    Spec => []Listed
<1>1. ASSUME Listed, UNCHANGED vars PROVE Listed'
  BY <1>1 DEF vars, Listed, Enrolled
<1>2. Typed /\ Present /\ (\A t \in Sessions : Silenced(t)) /\ Listed /\ [Next]_vars => Listed'
  BY <1>1, StepListed
<1>3. Init => Listed
  <2> SUFFICES ASSUME Init PROVE Listed
    OBVIOUS
  <2>1. \A s \in Sessions, b \in Boards : ~Enrolled(s, b)
    BY BoardsAssumption DEF Init, Enrolled
  <2>2. \A b \in Boards : runtime[b].participants = {}
    BY DEF Init, Fresh
  <2> QED BY <2>1, <2>2 DEF Listed
<1> QED BY <1>2, <1>3, TypedInvariant, SilencedInvariant, PresentInvariant, PTL DEF Spec

\* A sequence without repetitions is as long as the set of its elements.
LEMMA InjectiveLength ==
    ASSUME NEW S, NEW q \in Seq(S), IsInjective(q)
    PROVE  Len(q) = Cardinality(Range(q))
<1>1. Len(q) \in Nat /\ DOMAIN q = 1 .. Len(q)
  OBVIOUS
<1>2. q \in Bijection(1 .. Len(q), Range(q))
  <2>1. q \in [1 .. Len(q) -> Range(q)]
    BY <1>1 DEF Range
  <2>2. \A a, b \in 1 .. Len(q) : q[a] = q[b] => a = b
    BY <1>1 DEF IsInjective
  <2>3. \A t \in Range(q) : \E a \in 1 .. Len(q) : q[a] = t
    BY <1>1 DEF Range
  <2> QED BY <2>1, <2>2, <2>3 DEF Bijection, Injection, Surjection, IsInjective
<1>3. ExistsBijection(1 .. Len(q), Range(q))
  BY <1>2 DEF ExistsBijection
<1> QED BY <1>1, <1>3, FS_CountingElements

\* At rest nobody waits to be told.
LEMMA RestIs ==
    ASSUME Typed, Present, AtRest, NEW b \in Boards
    PROVE  /\ Range(subscribers[b]) = Members(b)
           /\ b \notin kept => Members(b) = {}
<1>1. \A s \in Sessions : handler[s].at = "idle" /\ strand[s] = <<>>
  BY DEF AtRest, At
<1>2. Range(<<>>) = {}
  BY DEF Range
<1>3. ~Closing(b) /\ \A s \in Sessions : On(s, b) <=> s \in Members(b)
  BY <1>1 DEF Closing, At, On, Members
<1>4. b \notin kept => Members(b) = {}
  BY <1>1, <1>2, <1>3 DEF Present, Warned, At, Members
<1>5. Range(subscribers[b]) \subseteq Sessions
  BY TypedIsOK
<1>6. CASE b \in kept
  BY <1>3, <1>4, <1>5, <1>6 DEF Present, Subscribed, Gone, Members
<1>7. CASE b \notin kept
  <2>1. subscribers[b] = <<>>
    BY <1>3, <1>7 DEF Present, Subscribed, Gone
  <2> QED BY <1>2, <1>4, <1>7, <2>1
<1> QED BY <1>4, <1>6, <1>7

\* However joins, leaves, disconnects and deletions interleave, once the handlers
\* have returned the subscriptions of ServerState are the sessions that are on the
\* board, each once, and the participants of its runtime are their principals and
\* those of the sessions that were destroyed on the board.
THEOREM PresenceAgrees ==
    Spec => []PresenceAtRest
<1>1. Typed /\ Present /\ Listed => PresenceAtRest
  <2> SUFFICES ASSUME Typed, Present, Listed, AtRest, NEW b \in Boards
               PROVE  /\ Range(subscribers[b]) = Members(b)
                      /\ Len(subscribers[b]) = Cardinality(Members(b))
                      /\ IsInjective(Identity) =>
                           runtime[b].participants =
                             {Identity[s] : s \in Members(b) \cup Ghosts(b)}
    BY DEF PresenceAtRest
  <2>1. Range(subscribers[b]) = Members(b) /\ (b \notin kept => Members(b) = {})
    BY RestIs
  <2>2. subscribers[b] \in Seq(Sessions) /\ IsInjective(subscribers[b])
    BY DEF Typed, Types, Present, Subscribed
  <2>3. Len(subscribers[b]) = Cardinality(Members(b))
    BY <2>1, <2>2, InjectiveLength
  <2>4. /\ b \in kept => {t \in Sessions : Enrolled(t, b)} = Members(b) \cup Ghosts(b)
        /\ b \notin kept => Members(b) \cup Ghosts(b) = {}
    BY <2>1 DEF AtRest, At, Enrolled, Members, Ghosts
  <2>5. ASSUME IsInjective(Identity)
        PROVE  runtime[b].participants = {Identity[s] : s \in Members(b) \cup Ghosts(b)}
    BY <2>4, <2>5 DEF Listed
  <2> QED BY <2>1, <2>3, <2>5
<1> QED BY <1>1, TypedInvariant, PresentInvariant, ListedInvariant, PTL

-----------------------------------------------------------------------------
(* Clients *)

Revisions == Boards \X Nat

Clients ==
    [answer : Answers \cup {"none"}, on : Boards \cup {NoBoard}, revision : Nat,
     replies : Nat, heard : SUBSET Revisions, later : Seq(Nat),
     gone : SUBSET Boards, toolate : BOOLEAN]

\* The clients are those of BoardServerObserver: they only listen.
ObserverListens ==
    /\ NewClient = Nothing
    /\ \A s \in Sessions, k \in Clients, m \in Message : Heard(s, k, m) = Remember(s, k, m)

\* What send_json is called with, and what a client may be told.
Sendable == {m \in Message : m.type \notin {"none", "notice", "board_deleted"}}
Tellable == {m \in Message : m.type \notin {"none", "notice"}}

Operation(m, b) == m.type = "operation_applied" /\ m.board = b

\* The client k after it was told m.
Told(s, k, m, next) ==
    /\ next \in Clients
    /\ next.answer = IF m.type \in Answers THEN m.type ELSE k.answer
    /\ next.on = IF m.type = "join_response" THEN m.board ELSE k.on
    /\ next.revision = IF m.type = "join_response" THEN m.revision ELSE k.revision
    /\ next.replies = k.replies + (IF IsReply(s, m) THEN 1 ELSE 0)
    /\ next.heard = k.heard \cup
         (IF m.type = "operation_applied" THEN {<<m.board, m.revision>>} ELSE {})
    /\ next.gone = k.gone \cup (IF m.type = "board_deleted" THEN {m.board} ELSE {})
    /\ next.toolate <=>
         k.toolate \/ (m.type = "operation_applied" /\ m.board \in k.gone)

\* What a message is, by its type.
LEMMA MessageIs ==
    ASSUME NEW m \in Message
    PROVE  /\ m.type \in {"none", "notice"} \cup Answers \cup
                           {"operation_applied", "presence_update"}
           /\ m.type = "join_response" => m.board \in Boards /\ m.revision \in Nat
           /\ m.type = "operation_applied" => m.board \in Boards /\ m.revision \in Nat
           /\ m.type \in {"board_deleted", "notice"} => m.board \in Boards
           /\ m.type = "board_deleted" => m = BoardDeleted(m.board)
           /\ m.type = "notice" => m = Notice(m.board)
  BY DEF Message, Answers, BoardDeleted, Notice

\* What a message that is not a presence update adds to what a client remembers.
LEMMA AnsweredIs ==
    ASSUME NEW k \in Clients, NEW m \in Tellable, m.type # "presence_update"
    PROVE  \E n \in Clients :
             /\ n = Answered(k, m)
             /\ n.answer = IF m.type \in Answers THEN m.type ELSE k.answer
             /\ n.on = IF m.type = "join_response" THEN m.board ELSE k.on
             /\ n.revision = IF m.type = "join_response" THEN m.revision ELSE k.revision
             /\ n.replies = k.replies
             /\ n.heard = k.heard \cup
                  (IF m.type = "operation_applied" THEN {<<m.board, m.revision>>} ELSE {})
             /\ n.gone = k.gone \cup (IF m.type = "board_deleted" THEN {m.board} ELSE {})
             /\ n.toolate <=>
                  k.toolate \/ (m.type = "operation_applied" /\ m.board \in k.gone)
<1>1. /\ m.type \in Answers \cup {"operation_applied"}
      /\ m.type = "join_response" => m.board \in Boards /\ m.revision \in Nat
      /\ m.type = "operation_applied" => m.board \in Boards /\ m.revision \in Nat
      /\ m.type = "board_deleted" => m.board \in Boards
  BY MessageIs DEF Tellable
<1>2. CASE m.type = "join_response"
  <2>1. Answered(k, m) = [k EXCEPT !.answer = m.type, !.on = m.board,
                                   !.revision = m.revision, !.later = <<>>]
    BY <1>2, Zenon DEF Answered
  <2>2. PICK x \in Answers, b \in Boards, r \in Nat, later \in Seq(Nat) :
          x = m.type /\ b = m.board /\ r = m.revision /\ later = <<>>
    <3>1. <<>> \in Seq(Nat)
      OBVIOUS
    <3>2. PICK later \in Seq(Nat) : later = <<>>
      BY <3>1
    <3>3. m.type \in Answers /\ m.board \in Boards /\ m.revision \in Nat
      BY <1>1, <1>2 DEF Answers
    <3> QED BY <3>2, <3>3
  <2>3. PICK n : n = [k EXCEPT !.answer = x, !.on = b, !.revision = r, !.later = later]
    OBVIOUS
  <2>4. n = Answered(k, m)
    BY <2>1, <2>2, <2>3
  <2>5. n \in Clients
    BY <2>3 DEF Clients
  <2>6. /\ n.answer = x /\ n.on = b /\ n.revision = r
        /\ n.replies = k.replies /\ n.heard = k.heard /\ n.gone = k.gone
        /\ n.toolate = k.toolate
    BY <2>3 DEF Clients
  <2> QED BY <1>2, <2>2, <2>4, <2>5, <2>6
<1>3. CASE m.type = "board_deleted"
  <2>1. Answered(k, m) = [k EXCEPT !.answer = m.type, !.gone = @ \cup {m.board}]
    BY <1>3, Zenon DEF Answered
  <2>2. PICK n : n = Answered(k, m)
    OBVIOUS
  <2> QED BY <1>1, <1>3, <2>1, <2>2 DEF Clients, Answers
<1>4. CASE m.type \in Answers \ {"join_response", "board_deleted"}
  <2>1. m.type # "join_response" /\ m.type # "board_deleted" /\ m.type # "operation_applied"
    BY <1>4 DEF Answers
  <2>2. Answered(k, m) = [k EXCEPT !.answer = m.type]
    BY <1>4, <2>1, Zenon DEF Answered
  <2>3. PICK n : n = Answered(k, m)
    OBVIOUS
  <2> QED BY <1>4, <2>1, <2>2, <2>3 DEF Clients, Answers
<1>5. CASE m.type = "operation_applied"
  <2>1. m.type # "join_response" /\ m.type # "board_deleted" /\ m.type \notin Answers
    BY <1>5 DEF Answers
  <2>2. Answered(k, m) = [k EXCEPT !.heard = @ \cup {<<m.board, m.revision>>},
                                   !.later = Append(@, m.revision),
                                   !.toolate = @ \/ m.board \in k.gone]
    BY <1>5, <2>1, Zenon DEF Answered
  <2>3. PICK late \in BOOLEAN : late <=> (k.toolate \/ m.board \in k.gone)
    BY DEF Clients
  <2>4. late = (k.toolate \/ m.board \in k.gone)
    BY <2>3 DEF Clients
  <2>5. PICK later \in Seq(Nat) : later = Append(k.later, m.revision)
    <3>1. k.later \in Seq(Nat) /\ m.revision \in Nat
      BY <1>1, <1>5 DEF Clients
    <3>2. Append(k.later, m.revision) \in Seq(Nat)
      BY <3>1, AppendProperties
    <3> QED BY <3>2
  <2>6. PICK heard \in SUBSET Revisions : heard = k.heard \cup {<<m.board, m.revision>>}
    <3>1. k.heard \in SUBSET Revisions
      BY DEF Clients
    <3>2. <<m.board, m.revision>> \in Revisions
      BY <1>1, <1>5 DEF Revisions
    <3> QED BY <3>1, <3>2
  <2>7. PICK n : n = [k EXCEPT !.heard = heard, !.later = later, !.toolate = late]
    OBVIOUS
  <2>8. n = Answered(k, m)
    BY <2>2, <2>4, <2>5, <2>7, <2>6
  <2>9. n \in Clients
    BY <2>7 DEF Clients
  <2>10. /\ n.answer = k.answer /\ n.on = k.on /\ n.revision = k.revision
         /\ n.replies = k.replies /\ n.gone = k.gone
         /\ n.heard = heard /\ n.toolate = late
    BY <2>7 DEF Clients
  <2> QED BY <1>5, <2>1, <2>3, <2>8, <2>10, <2>6, <2>9
<1> QED BY <1>1, <1>2, <1>3, <1>4, <1>5

\* What any message adds to it.
LEMMA RememberIs ==
    ASSUME NEW s \in Sessions, NEW k \in Clients, NEW m \in Tellable
    PROVE  Told(s, k, m, Remember(s, k, m))
<1>1. CASE m.type = "presence_update"
  <2>1. Remember(s, k, m) = k
    BY <1>1 DEF Remember
  <2>2. ~IsReply(s, m) /\ m.type \notin Answers
    BY <1>1 DEF IsReply, Answers
  <2>3. k.replies + 0 = k.replies
    BY DEF Clients
  <2> QED BY <1>1, <2>1, <2>2, <2>3 DEF Told
<1>2. CASE m.type # "presence_update"
  <2>1. PICK n \in Clients :
             /\ n = Answered(k, m)
             /\ n.answer = IF m.type \in Answers THEN m.type ELSE k.answer
             /\ n.on = IF m.type = "join_response" THEN m.board ELSE k.on
             /\ n.revision = IF m.type = "join_response" THEN m.revision ELSE k.revision
             /\ n.replies = k.replies
             /\ n.heard = k.heard \cup
                  (IF m.type = "operation_applied" THEN {<<m.board, m.revision>>} ELSE {})
             /\ n.gone = k.gone \cup (IF m.type = "board_deleted" THEN {m.board} ELSE {})
             /\ n.toolate <=>
                  k.toolate \/ (m.type = "operation_applied" /\ m.board \in k.gone)
    BY <1>2, AnsweredIs
  <2>2. PICK one \in {0, 1} : one = IF IsReply(s, m) THEN 1 ELSE 0
    OBVIOUS
  <2>3. PICK count \in Nat : count = n.replies + one
    BY DEF Clients
  <2>4. PICK next : next = [n EXCEPT !.replies = count]
    OBVIOUS
  <2>5. Remember(s, k, m) = next
    BY <1>2, <2>1, <2>2, <2>4, <2>3 DEF Remember
  <2>6. next \in Clients
    BY <2>4 DEF Clients
  <2>7. /\ next.answer = n.answer /\ next.on = n.on /\ next.revision = n.revision
        /\ next.heard = n.heard /\ next.gone = n.gone /\ next.toolate = n.toolate
        /\ next.replies = count
    BY <2>4 DEF Clients
  <2> QED BY <2>1, <2>2, <2>5, <2>7, <2>3, <2>6 DEF Told
<1> QED BY <1>1, <1>2

\* Every message that waits on a strand is one.
Listening ==
    /\ client \in [Sessions -> Clients]
    /\ \A s \in Sessions :
          /\ \A m \in Range(strand[s]) : m.type # "none"
          /\ client[s].answer = "join_response" => client[s].on \in Boards

\* A client that is on a board by its last answer has a board to be on.
LEMMA ToldJoins ==
    ASSUME NEW s, NEW k, NEW m \in Tellable, NEW next, Told(s, k, m, next),
           k.answer = "join_response" => k.on \in Boards
    PROVE  next.answer = "join_response" => next.on \in Boards
<1>1. m.type = "join_response" => m.board \in Boards
  BY MessageIs DEF Tellable
<1>2. "join_response" \in Answers
  BY DEF Answers
<1> QED BY <1>1, <1>2 DEF Told

\* A message is posted.
Send(s, m) ==
    \/ /\ strand[s] = <<>> /\ strand' = strand
       /\ Told(s, client[s], m, client'[s])
       /\ client' \in [Sessions -> Clients]
       /\ \A t \in Sessions \ {s} : client'[t] = client[t]
    \/ /\ strand[s] # <<>> /\ client' = client
       /\ strand' = [strand EXCEPT ![s] = Append(@, m)]

\* Tell, as what the client of s was told.
LEMMA TellIs ==
    ASSUME ObserverListens, client \in [Sessions -> Clients],
           NEW s \in Sessions, NEW m \in Tellable, Tell(s, m)
    PROVE  /\ Told(s, client[s], m, client'[s])
           /\ client' \in [Sessions -> Clients]
           /\ \A t \in Sessions \ {s} : client'[t] = client[t]
<1>1. PICK k \in Clients : k = client[s]
  OBVIOUS
<1>2. PICK next : next = Remember(s, k, m)
  OBVIOUS
<1>3. Told(s, k, m, next) /\ next \in Clients
  BY <1>2, RememberIs DEF Told
<1>4. Heard(s, k, m) = next
  BY <1>2 DEF ObserverListens, Tellable
<1>5. client' = [client EXCEPT ![s] = next]
  BY <1>1, <1>4 DEF Tell
<1> QED BY <1>1, <1>3, <1>5

\* Post, as a message told or left on the strand.
LEMMA SendIs ==
    ASSUME ObserverListens, Listening, NEW s \in Sessions, NEW m \in Sendable, Post(s, m)
    PROVE  Send(s, m)
<1>1. m \in Tellable
  BY DEF Sendable, Tellable
<1>2. CASE strand[s] = <<>>
  BY <1>1, <1>2, TellIs DEF Post, Send, Listening
<1>3. CASE strand[s] # <<>>
  BY <1>3 DEF Post, Send
<1> QED BY <1>2, <1>3

\* What a handler has to say.
LEMMA SaysSendable ==
    ASSUME Typed, NEW s \in Sessions, handler[s].at \in {"respond", "post", "farewell"}
    PROVE  handler[s].message \in Sendable
<1>1. handler[s].message \in Message /\ Purpose(s)
  BY BusyIs DEF Typed, Types, Handlers
<1>2. handler[s].message.type \in {"error", "leave_board_response", "join_response",
                                   "presence_update", "operation_applied"}
  <2>1. CASE handler[s].at = "respond"
    BY <1>1, <2>1 DEF Purpose
  <2>2. CASE handler[s].at = "farewell"
    BY <1>1, <2>2 DEF Purpose
  <2>3. CASE handler[s].at = "post"
    BY <1>1, <2>3 DEF Purpose
  <2> QED BY <2>1, <2>2, <2>3
<1> QED BY <1>1, <1>2 DEF Sendable

\* Answers are messages that may be sent.
LEMMA AnswersSendable ==
    /\ \A code \in Codes : Error(code) \in Sendable /\ Error(code).type = "error"
    /\ LeaveBoardResponse \in Sendable /\ LeaveBoardResponse.type = "leave_board_response"
    /\ \A b \in Boards :
          LET m == [type |-> "delete_board_response", board |-> b]
          IN  m \in Sendable /\ m.type = "delete_board_response"
  BY MessageTypes DEF Sendable, Error, LeaveBoardResponse

\* A step that answers a request, or refuses it.
Replies(s, m) ==
    /\ m \in Sendable /\ m.type \in {"error", "leave_board_response", "delete_board_response"}
    /\ Answer(s, m)

\* The actions that answer with an error, or with the deletion.
LEMMA RepliesIs ==
    ASSUME Typed, NEW s \in Sessions,
           \/ JoinRefused(s) \/ OperationRejected(s)
           \/ DeleteRefused(s) \/ DeleteLost(s) \/ Deleted(s)
    PROVE  \E m : Replies(s, m)
<1>1. CASE JoinRefused(s)
  BY <1>1, AnswersSendable DEF JoinRefused, Replies, Codes
<1>2. CASE DeleteRefused(s) \/ DeleteLost(s)
  BY <1>2, AnswersSendable DEF DeleteRefused, DeleteLost, Replies, Codes
<1>3. CASE OperationRejected(s)
  <2>1. PICK code \in Codes : code = IF Verdict(s) = "ok" THEN "refused" ELSE Verdict(s)
    BY VerdictIs DEF Codes
  <2> QED BY <1>3, <2>1, AnswersSendable DEF OperationRejected, Replies
<1>4. CASE Deleted(s)
  <2>1. PICK b \in Boards : b = handler[s].request.board
    BY <1>4, RequestedIs DEF Deleted, At
  <2>2. PICK m : m = [type |-> "delete_board_response", board |-> b]
    OBVIOUS
  <2> QED BY <1>4, <2>1, <2>2, AnswersSendable DEF Deleted, Replies
<1> QED BY <1>1, <1>2, <1>3, <1>4

\* What a step does to the strands and to the clients.
Silent == UNCHANGED posts
Sends(m) == m \in Sendable /\ (\A b \in Boards : Operation(m, b) => b \in kept)
              /\ \E t \in Sessions : Post(t, m)

\* Every step says nothing, sends one message to one session, gives notice of a
\* deletion, or runs what was posted.
LEMMA StepPosts ==
    ASSUME Typed, Present, Next
    PROVE  Silent \/ (\E m : Sends(m)) \/ \E s \in Sessions : Notify(s) \/ RunPosted(s)
<1>1. PICK s \in Sessions :
        (\E r \in Requests : Receive(s, r)) \/ Disconnect(s) \/ Expire(s) \/ Step(s)
  BY DEF Next
<1>2. CASE (\E r \in Requests : Receive(s, r)) \/ Disconnect(s) \/ Expire(s)
  BY <1>2 DEF Receive, Accept, Disconnect, Expire, Silent, posts
<1>3. ASSUME NEW m, Replies(s, m) PROVE Sends(m)
  BY <1>3 DEF Replies, Answer, Sends, Operation
<1>4. ASSUME NEW here \in {"post", "farewell"}, PostNext(s, here) PROVE \E m : Sends(m)
  <2>1. /\ handler[s].at = here /\ handler[s].to \in Seq(Sessions) /\ handler[s].to # <<>>
        /\ Post(Head(handler[s].to), handler[s].message)
    BY <1>4, BusyIs DEF PostNext, At, Typed, Types, Handlers
  <2>2. PICK t \in Sessions, m \in Sendable : t = Head(handler[s].to) /\ m = handler[s].message
    BY <2>1, SaysSendable
  <2>3. ASSUME NEW b \in Boards, Operation(m, b) PROVE b \in kept
    <3>1. Purpose(s)
      BY DEF Typed
    <3>2. CASE here = "farewell"
      BY <2>1, <2>2, <2>3, <3>1, <3>2 DEF Purpose, Operation
    <3>3. CASE here = "post"
      <4>1. m.type = "operation_applied" /\ m.board = b
        BY <2>3 DEF Operation
      <4>2. m.board = board[s]
        BY <2>1, <2>2, <3>1, <3>3, <4>1 DEF Purpose
      <4> QED BY <2>1, <3>3, <4>1, <4>2, SharesRows
    <3> QED BY <3>2, <3>3
  <2> QED BY <2>1, <2>2, <2>3 DEF Sends
<1>5. CASE Leave(s)
  <2>1. CASE LeaveParticipant(s) \/ ReadRemaining(s) \/ Unsubscribe(s)
             \/ Collect(s, "leave_collect", "farewell")
    BY <2>1 DEF LeaveParticipant, ReadRemaining, Unsubscribe, Collect, Silent
  <2>2. CASE Left(s)
    <3>1. UNCHANGED posts \/ Answer(s, LeaveBoardResponse)
      BY <2>2, LeftIs
    <3> QED BY <1>3, <3>1, AnswersSendable DEF Silent, Replies
  <2> QED BY <1>4, <1>5, <2>1, <2>2 DEF Leave
<1>6. CASE Join(s)
  <2>1. CASE JoinRefused(s)
    BY <1>3, <2>1, RepliesIs
  <2>2. CASE JoinBoard(s) \/ Subscribe(s) \/ ReadSnapshot(s) \/ ReadPresent(s)
    BY <2>2 DEF JoinBoard, Subscribe, ReadSnapshot, ReadPresent, Silent
  <2>3. CASE Respond(s)
    <3>1. handler[s].at = "respond" /\ Post(s, handler[s].message)
      BY <2>3 DEF Respond, At
    <3>2. handler[s].message \in Sendable
      BY <3>1, SaysSendable
    <3>3. ~ (\E b \in Boards : Operation(handler[s].message, b))
      BY <3>1 DEF Typed, Purpose, Operation
    <3> QED BY <3>1, <3>2, <3>3 DEF Sends
  <2> QED BY <1>6, <2>1, <2>2, <2>3 DEF Join
<1>7. CASE Broadcast(s)
  BY <1>4, <1>7 DEF Broadcast, Collect, Silent
<1>8. CASE Delete(s)
  <2>1. CASE DeleteRefused(s) \/ DeleteLost(s) \/ Deleted(s)
    BY <1>3, <2>1, RepliesIs
  <2>2. CASE DeleteRows(s) \/ CloseBoard(s)
    BY <2>2 DEF DeleteRows, CloseBoard, Silent
  <2> QED BY <1>8, <2>1, <2>2 DEF Delete
<1>9. CASE ApplyOperation(s)
  BY <1>9 DEF ApplyOperation, Silent
<1>10. CASE OperationRejected(s)
  BY <1>3, <1>10, RepliesIs
<1> QED BY <1>1, <1>2, <1>5, <1>6, <1>7, <1>8, <1>9, <1>10 DEF Step

\* Every step keeps what the clients and the strands hold well typed.
LEMMA StepListening ==
    ASSUME ObserverListens, Typed, Present, Listening, Next
    PROVE  Listening'
<1>1. CASE Silent
  BY <1>1 DEF Silent, posts, Listening
<1>2. ASSUME NEW m, Sends(m) PROVE Listening'
  <2>1. PICK t \in Sessions : Send(t, m)
    BY <1>2, SendIs DEF Sends
  <2>2. CASE /\ strand' = strand /\ client' \in [Sessions -> Clients]
             /\ Told(t, client[t], m, client'[t])
             /\ \A u \in Sessions \ {t} : client'[u] = client[u]
    <3>1. m \in Tellable
      BY <1>2 DEF Sends, Sendable, Tellable
    <3>2. client'[t].answer = "join_response" => client'[t].on \in Boards
      BY <2>2, <3>1, ToldJoins DEF Listening
    <3> QED BY <2>2, <3>2 DEF Listening
  <2>3. CASE client' = client /\ strand' = [strand EXCEPT ![t] = Append(@, m)]
    <3>1. m \in Message /\ m.type # "none"
      BY <1>2 DEF Sends, Sendable
    <3>2. strand[t] \in Seq(Message)
      BY DEF Typed, Types
    <3>3. Range(Append(strand[t], m)) = Range(strand[t]) \cup {m}
      BY <3>1, <3>2, AppendRange
    <3>4. PICK q : q = Append(strand[t], m)
      OBVIOUS
    <3>5. strand' = [strand EXCEPT ![t] = q]
      BY <2>3, <3>4
    <3>6. \A s \in Sessions : \A n \in Range(strand'[s]) : n.type # "none"
      BY <3>1, <3>3, <3>4, <3>5 DEF Listening, Typed, Types
    <3> QED BY <2>3, <3>6 DEF Listening
  <2> QED BY <2>1, <2>2, <2>3 DEF Send
<1>3. ASSUME NEW s \in Sessions, Notify(s) PROVE Listening'
  <2>1. PICK t \in Sessions, b \in Boards :
          strand' = [strand EXCEPT ![t] = Informed(@, t = s, b)] /\ client' = client
    BY <1>3, NotifyIs
  <2>2. PICK self \in BOOLEAN : self = (t = s)
    OBVIOUS
  <2>3. PICK q : q = Informed(strand[t], self, b)
    OBVIOUS
  <2>4. strand' = [strand EXCEPT ![t] = q]
    BY <2>1, <2>2, <2>3
  <2>5. strand[t] \in Seq(Message)
    BY DEF Typed, Types
  <2>6. Range(q) = Range(strand[t]) \cup {Notice(b)} \cup
                     (IF self THEN {} ELSE {BoardDeleted(b)})
    BY <2>3, <2>5, InformedRange
  <2>7. \A n \in Range(q) : n.type # "none"
    BY <2>6 DEF Listening, Notice, BoardDeleted
  <2>8. \A u \in Sessions : strand'[u] = IF u = t THEN q ELSE strand[u]
    BY <2>4 DEF Typed, Types
  <2>9. \A u \in Sessions : \A n \in Range(strand'[u]) : n.type # "none"
    BY <2>7, <2>8 DEF Listening
  <2> QED BY <2>1, <2>9 DEF Listening
<1>4. ASSUME NEW s \in Sessions, RunPosted(s) PROVE Listening'
  <2>1. PICK m \in Message : m = Head(strand[s])
    BY <1>4, RunPostedIs
  <2>2. Range(strand[s]) = Range(Tail(strand[s])) \cup {m}
    BY <1>4, <2>1, RunPostedIs, TailRange
  <2>3. \A t \in Sessions : \A n \in Range(strand'[t]) : n.type # "none"
    BY <1>4, <2>2, RunPostedIs DEF Listening
  <2>4. /\ client' \in [Sessions -> Clients]
        /\ \A t \in Sessions :
              client'[t].answer = "join_response" => client'[t].on \in Boards
    <3>1. CASE m.type = "notice"
      BY <1>4, <2>1, <3>1 DEF RunPosted, Listening
    <3>2. CASE m.type # "notice"
      <4>1. m \in Tellable
        BY <2>2, <3>2 DEF Tellable, Listening
      <4>2. Tell(s, m)
        BY <1>4, <2>1, <3>2 DEF RunPosted
      <4>3. /\ Told(s, client[s], m, client'[s])
            /\ client' \in [Sessions -> Clients]
            /\ \A t \in Sessions \ {s} : client'[t] = client[t]
        BY <4>1, <4>2, TellIs DEF Listening
      <4>4. client'[s].answer = "join_response" => client'[s].on \in Boards
        BY <4>1, <4>3, ToldJoins DEF Listening
      <4> QED BY <4>3, <4>4 DEF Listening
    <3> QED BY <3>1, <3>2
  <2> QED BY <2>3, <2>4 DEF Listening
<1> QED BY <1>1, <1>2, <1>3, <1>4, StepPosts

\* Listening is an invariant.
LEMMA ListeningInvariant ==
    ASSUME ObserverListens
    PROVE  Spec => []Listening
<1>1. ASSUME Listening, UNCHANGED vars PROVE Listening'
  BY <1>1 DEF vars, Listening
<1>2. Typed /\ Present /\ Listening /\ [Next]_vars => Listening'
  BY <1>1, StepListening
<1>3. Init => Listening
  <2> SUFFICES ASSUME Init PROVE Listening
    OBVIOUS
  <2>1. <<>> \in Seq(Nat)
    OBVIOUS
  <2>2. PICK q \in Seq(Nat) : q = <<>>
    BY <2>1
  <2>3. Nothing = [answer |-> "none", on |-> NoBoard, revision |-> 0, replies |-> 0,
                   heard |-> {}, later |-> q, gone |-> {}, toolate |-> FALSE]
    BY <2>2 DEF Nothing
  <2>4. Nothing \in Clients /\ Nothing.answer = "none"
    BY <2>3 DEF Clients
  <2>5. Range(<<>>) = {}
    BY DEF Range
  <2> QED BY <2>4, <2>5 DEF Listening, Init, ObserverListens
<1> QED BY <1>2, <1>3, TypedInvariant, PresentInvariant, PTL DEF Spec

-----------------------------------------------------------------------------
(* Deletion *)

\* In a strand, the deletion of b comes after a notice of it, unless the session
\* is not on b, and after every operation on it.
InOrder(q, b, on) ==
    \A j \in 1 .. Len(q) : q[j] = BoardDeleted(b) =>
        /\ on => \E i \in 1 .. j - 1 : q[i] = Notice(b)
        /\ \A i \in 1 .. Len(q) : Operation(q[i], b) => i < j

\* A message that is sent late enough keeps the order of a strand.
LEMMA AppendInOrder ==
    ASSUME NEW q \in Seq(Message), NEW b \in Boards, NEW on \in BOOLEAN, NEW m \in Message,
           InOrder(q, b, on), m # BoardDeleted(b),
           Operation(m, b) => BoardDeleted(b) \notin Range(q)
    PROVE  InOrder(Append(q, m), b, on)
<1>1. PICK a : a = Append(q, m)
  OBVIOUS
<1>2. /\ a \in Seq(Message) /\ Len(a) = Len(q) + 1 /\ Len(q) \in Nat
      /\ \A i \in 1 .. Len(q) : a[i] = q[i]
      /\ a[Len(q) + 1] = m
  BY <1>1, AppendProperties
<1>3. ASSUME NEW j \in 1 .. Len(a), a[j] = BoardDeleted(b)
      PROVE  /\ on => \E i \in 1 .. j - 1 : a[i] = Notice(b)
             /\ \A i \in 1 .. Len(a) : Operation(a[i], b) => i < j
  <2>1. j \in 1 .. Len(q) /\ q[j] = BoardDeleted(b)
    BY <1>2, <1>3
  <2>2. BoardDeleted(b) \in Range(q)
    BY <2>1 DEF Range
  <2>3. ~Operation(m, b)
    BY <2>2
  <2>4. ASSUME on PROVE \E i \in 1 .. j - 1 : a[i] = Notice(b)
    <3>1. PICK i \in 1 .. j - 1 : q[i] = Notice(b)
      BY <2>1, <2>4 DEF InOrder
    <3> QED BY <1>2, <2>1, <3>1
  <2>5. ASSUME NEW i \in 1 .. Len(a), Operation(a[i], b) PROVE i < j
    <3>1. i \in 1 .. Len(q) /\ Operation(q[i], b)
      <4>1. i # Len(q) + 1
        BY <1>2, <2>3, <2>5
      <4> QED BY <1>2, <2>5, <4>1
    <3> QED BY <2>1, <3>1 DEF InOrder
  <2> QED BY <2>4, <2>5
<1>4. InOrder(a, b, on)
  BY <1>3 DEF InOrder
<1> QED BY <1>1, <1>4

\* The deletion may follow its notice.
LEMMA AppendDeletion ==
    ASSUME NEW q \in Seq(Message), NEW b \in Boards, NEW on \in BOOLEAN,
           InOrder(q, b, on), on => Notice(b) \in Range(q)
    PROVE  InOrder(Append(q, BoardDeleted(b)), b, on)
<1>1. PICK m \in Message : m = BoardDeleted(b)
  BY MessageTypes
<1>2. PICK a : a = Append(q, m)
  OBVIOUS
<1>3. /\ a \in Seq(Message) /\ Len(a) = Len(q) + 1 /\ Len(q) \in Nat
      /\ \A i \in 1 .. Len(q) : a[i] = q[i]
      /\ a[Len(q) + 1] = m
  BY <1>2, AppendProperties
<1>4. ~Operation(m, b)
  BY <1>1 DEF Operation, BoardDeleted
<1>5. ASSUME NEW j \in 1 .. Len(a), a[j] = BoardDeleted(b)
      PROVE  /\ on => \E i \in 1 .. j - 1 : a[i] = Notice(b)
             /\ \A i \in 1 .. Len(a) : Operation(a[i], b) => i < j
  <2>1. ASSUME NEW i \in 1 .. Len(a), Operation(a[i], b)
        PROVE  i \in 1 .. Len(q) /\ Operation(q[i], b)
    <3>1. i # Len(q) + 1
      BY <1>3, <1>4, <2>1
    <3> QED BY <1>3, <2>1, <3>1
  <2>2. CASE j = Len(q) + 1
    <3>1. ASSUME on PROVE \E i \in 1 .. j - 1 : a[i] = Notice(b)
      <4>1. PICK i \in 1 .. Len(q) : q[i] = Notice(b)
        BY <1>3, <3>1 DEF Range
      <4> QED BY <1>3, <2>2, <4>1
    <3> QED BY <1>3, <2>1, <2>2, <3>1
  <2>3. CASE j # Len(q) + 1
    <3>1. j \in 1 .. Len(q) /\ q[j] = BoardDeleted(b)
      BY <1>3, <1>5, <2>3
    <3>2. ASSUME on PROVE \E i \in 1 .. j - 1 : a[i] = Notice(b)
      <4>1. PICK i \in 1 .. j - 1 : q[i] = Notice(b)
        BY <3>1, <3>2 DEF InOrder
      <4> QED BY <1>3, <3>1, <4>1
    <3> QED BY <2>1, <3>1, <3>2 DEF InOrder
  <2> QED BY <2>2, <2>3
<1>6. InOrder(a, b, on)
  BY <1>5 DEF InOrder
<1> QED BY <1>1, <1>2, <1>6

\* The order holds for what is left of a strand.
LEMMA TailInOrder ==
    ASSUME NEW q \in Seq(Message), q # <<>>, NEW b \in Boards,
           NEW on \in BOOLEAN, NEW next \in BOOLEAN,
           InOrder(q, b, on), next => on, Head(q) = Notice(b) => ~next
    PROVE  InOrder(Tail(q), b, next)
<1>1. PICK a : a = Tail(q)
  OBVIOUS
<1>2. /\ a \in Seq(Message) /\ Len(a) = Len(q) - 1 /\ Len(q) \in Nat \ {0}
      /\ \A i \in 1 .. Len(a) : a[i] = q[i + 1]
      /\ Head(q) = q[1]
  BY <1>1, HeadTailProperties
<1>3. ASSUME NEW j \in 1 .. Len(a), a[j] = BoardDeleted(b)
      PROVE  /\ next => \E i \in 1 .. j - 1 : a[i] = Notice(b)
             /\ \A i \in 1 .. Len(a) : Operation(a[i], b) => i < j
  <2>1. j + 1 \in 1 .. Len(q) /\ q[j + 1] = BoardDeleted(b)
    BY <1>2, <1>3
  <2>2. ASSUME next PROVE \E i \in 1 .. j - 1 : a[i] = Notice(b)
    <3>1. PICK i \in 1 .. (j + 1) - 1 : q[i] = Notice(b)
      BY <2>1, <2>2 DEF InOrder
    <3>2. i # 1
      BY <1>2, <2>2, <3>1
    <3>3. i - 1 \in 1 .. j - 1 /\ i - 1 \in 1 .. Len(a) /\ (i - 1) + 1 = i
      BY <1>2, <3>2
    <3>4. a[i - 1] = q[i]
      BY <1>2, <3>3
    <3> QED BY <3>1, <3>3, <3>4
  <2>3. ASSUME NEW i \in 1 .. Len(a), Operation(a[i], b) PROVE i < j
    <3>1. i + 1 \in 1 .. Len(q) /\ Operation(q[i + 1], b)
      BY <1>2, <2>3
    <3>2. i + 1 < j + 1
      BY <2>1, <3>1 DEF InOrder
    <3> QED BY <3>2
  <2> QED BY <2>2, <2>3
<1>4. InOrder(a, b, next)
  BY <1>3 DEF InOrder
<1> QED BY <1>1, <1>4

\* If the first of a strand is the deletion, there is no operation left.
LEMMA FirstDeletion ==
    ASSUME NEW q \in Seq(Message), q # <<>>, NEW b \in Boards, NEW on \in BOOLEAN,
           InOrder(q, b, on), Head(q) = BoardDeleted(b)
    PROVE  ~on /\ \A m \in Range(q) : ~Operation(m, b)
<1>1. Len(q) \in Nat \ {0} /\ Head(q) = q[1] /\ DOMAIN q = 1 .. Len(q)
  BY HeadTailProperties
<1>2. 1 \in 1 .. Len(q) /\ q[1] = BoardDeleted(b)
  BY <1>1
<1>3. \A i \in 1 .. Len(q) : Operation(q[i], b) => i < 1
  BY <1>2 DEF InOrder
<1>4. on => \E i \in 1 .. 1 - 1 : q[i] = Notice(b)
  BY <1>2 DEF InOrder
<1> QED BY <1>1, <1>3, <1>4 DEF Range

\* Without a deletion there is nothing to order.
LEMMA NoDeletion ==
    ASSUME NEW q \in Seq(Message), NEW b \in Boards, NEW on, BoardDeleted(b) \notin Range(q)
    PROVE  InOrder(q, b, on)
<1>1. \A j \in 1 .. Len(q) : q[j] # BoardDeleted(b)
  BY DEF Range
<1> QED BY <1>1 DEF InOrder

\* The client of s is told of the deletion of b in time, and once for all.
DeletionTold(s, b) ==
    /\ b \in client[s].gone => Gone(b) /\ board[s] # b
    /\ BoardDeleted(b) \in Range(strand[s]) => Gone(b)
    /\ InOrder(strand[s], b, board[s] = b)
    /\ \A m \in Range(strand[s]) : Operation(m, b) => b \notin client[s].gone

\* So are all clients, of all boards.
Deletions ==
    \A s \in Sessions :
        ~client[s].toolate /\ \A b \in Boards : DeletionTold(s, b)

\* A session that loses its board keeps the order of its strand.
LEMMA OrderLater ==
    ASSUME Typed, Later, NEW s \in Sessions, NEW b \in Boards, DeletionTold(s, b)
    PROVE  InOrder(strand[s], b, board'[s] = b)
<1>1. CASE BoardDeleted(b) \in Range(strand[s])
  <2>1. board'[s] = b => board[s] = b
    BY <1>1 DEF DeletionTold, Later
  <2> QED BY <2>1 DEF DeletionTold, InOrder
<1>2. CASE BoardDeleted(b) \notin Range(strand[s])
  <2>1. strand[s] \in Seq(Message)
    BY DEF Typed, Types
  <2> QED BY <1>2, <2>1, NoDeletion
<1> QED BY <1>1, <1>2

\* A step that tells s nothing.
LEMMA ToldStays ==
    ASSUME Typed, Later, NEW s \in Sessions, NEW b \in Boards, DeletionTold(s, b),
           strand'[s] = strand[s], client'[s].gone = client[s].gone
    PROVE  DeletionTold(s, b)'
<1>1. InOrder(strand[s], b, board'[s] = b)
  BY OrderLater
<1>2. Gone(b) => Gone(b)' /\ (board'[s] = b => board[s] = b)
  BY DEF Later
<1>3. InOrder(strand'[s], b, board'[s] = b)
  BY <1>1
<1> QED BY <1>2, <1>3 DEF DeletionTold

\* No operation is sent of a board that is gone.
LEMMA SendTells ==
    ASSUME ObserverListens, Typed, Listening, Deletions, Later,
           NEW m \in Sendable, NEW t \in Sessions, Send(t, m),
           \A b \in Boards : Operation(m, b) => b \in kept
    PROVE  Deletions'
<1>1. m \in Message /\ m.type # "board_deleted"
  BY DEF Sendable
<1>2. \A b \in Boards : Operation(m, b) => ~Gone(b)
  BY DEF Gone
<1>3. strand[t] \in Seq(Message)
  BY DEF Typed, Types
<1>4. CASE /\ strand[t] = <<>> /\ strand' = strand
           /\ Told(t, client[t], m, client'[t])
           /\ \A u \in Sessions \ {t} : client'[u] = client[u]
  <2>1. \A u \in Sessions : client'[u].gone = client[u].gone
    BY <1>1, <1>4 DEF Told, Listening, Clients
  <2>2. \A u \in Sessions, b \in Boards : DeletionTold(u, b)'
    BY <1>4, <2>1, ToldStays DEF Deletions
  <2>3. ~client'[t].toolate
    <3>1. m.type = "operation_applied" => m.board \notin client[t].gone
      <4>1. m.type = "operation_applied" => m.board \in Boards /\ Operation(m, m.board)
        BY <1>1, MessageIs DEF Operation
      <4> QED BY <1>2, <4>1 DEF Deletions, DeletionTold
    <3>2. ~client[t].toolate
      BY DEF Deletions
    <3> QED BY <1>4, <3>1, <3>2 DEF Told
  <2> QED BY <1>4, <2>2, <2>3 DEF Deletions
<1>5. CASE client' = client /\ strand' = [strand EXCEPT ![t] = Append(@, m)]
  <2>1. PICK q : q = Append(strand[t], m)
    OBVIOUS
  <2>2. \A u \in Sessions : strand'[u] = IF u = t THEN q ELSE strand[u]
    BY <1>5, <2>1 DEF Typed, Types
  <2>3. Range(q) = Range(strand[t]) \cup {m}
    BY <1>1, <1>3, <2>1, AppendRange
  <2>4. ASSUME NEW b \in Boards PROVE DeletionTold(t, b)'
    <3>1. DeletionTold(t, b) /\ (Gone(b) => Gone(b)' /\ (board'[t] = b => board[t] = b))
      BY DEF Deletions, Later
    <3>2. m # BoardDeleted(b)
      BY <1>1 DEF BoardDeleted
    <3>3. Operation(m, b) => BoardDeleted(b) \notin Range(strand[t]) /\ b \notin client[t].gone
      BY <1>2, <3>1 DEF DeletionTold
    <3>4. PICK on \in BOOLEAN : on = (board'[t] = b)
      OBVIOUS
    <3>5. InOrder(strand[t], b, on)
      BY <3>1, <3>4, OrderLater
    <3>6. InOrder(q, b, on)
      BY <1>1, <1>3, <2>1, <3>2, <3>3, <3>5, AppendInOrder
    <3>7. InOrder(strand'[t], b, board'[t] = b)
      BY <2>2, <3>4, <3>6
    <3> QED BY <1>5, <2>2, <2>3, <3>1, <3>2, <3>3, <3>7 DEF DeletionTold
  <2>5. ASSUME NEW u \in Sessions \ {t}, NEW b \in Boards PROVE DeletionTold(u, b)'
    BY <1>5, <2>2, ToldStays DEF Deletions
  <2> QED BY <1>5, <2>4, <2>5 DEF Deletions
<1> QED BY <1>4, <1>5 DEF Send

\* A deletion is posted behind its notice, when no operation can follow.
LEMMA NotifyTells ==
    ASSUME Typed, Present, Later, Deletions, NEW s \in Sessions, Notify(s)
    PROVE  Deletions'
<1>1. PICK t \in Sessions, b \in Boards :
        /\ t = Head(handler[s].to) /\ b = handler[s].request.board
        /\ strand' = [strand EXCEPT ![t] = Informed(@, t = s, b)]
        /\ UNCHANGED <<shared, own, client>>
        /\ handler[s].at = "notify"
  BY NotifyIs DEF At
<1>2. PICK self \in BOOLEAN : self = (t = s)
  OBVIOUS
<1>3. strand[t] \in Seq(Message)
  BY DEF Typed, Types
<1>4. PICK n \in Message : n = Notice(b)
  BY MessageTypes
<1>5. PICK p \in Seq(Message) : p = Append(strand[t], n)
  <2>1. Append(strand[t], n) \in Seq(Message)
    BY <1>3
  <2> QED BY <2>1
<1>6. Range(p) = Range(strand[t]) \cup {n}
  BY <1>3, <1>5, AppendRange
<1>7. PICK d \in Message : d = BoardDeleted(b)
  BY MessageTypes
<1>8. PICK q \in Seq(Message) : q = Append(p, d)
  <2>1. Append(p, d) \in Seq(Message)
    OBVIOUS
  <2> QED BY <2>1
<1>9. Range(q) = Range(p) \cup {d}
  BY <1>8, AppendRange
<1>10. \A u \in Sessions : strand'[u] = IF u # t THEN strand[u] ELSE IF self THEN p ELSE q
  BY <1>1, <1>2, <1>4, <1>5, <1>7, <1>8 DEF Informed, Typed, Types
<1>11. Gone(b)'
  <2>1. /\ b \notin kept
        /\ \A c \in Sessions : Holder(c) /\ handler[c].request.board = b => c = s
    BY <1>1 DEF Present, Held, Holder
  <2>2. Gone(b)
    BY <1>1, <2>1 DEF Gone, Closing, Holder, At
  <2> QED BY <2>2 DEF Later
<1>12. ASSUME NEW c \in Boards PROVE DeletionTold(t, c)'
  <2>1. DeletionTold(t, c) /\ (Gone(c) => Gone(c)' /\ (board'[t] = c => board[t] = c))
    BY DEF Deletions, Later
  <2>2. /\ n # BoardDeleted(c) /\ ~Operation(n, c)
        /\ ~Operation(d, c) /\ (c # b => d # BoardDeleted(c))
    BY <1>4, <1>7 DEF Notice, BoardDeleted, Operation
  <2>3. PICK on \in BOOLEAN : on = (board'[t] = c)
    OBVIOUS
  <2>4. InOrder(strand[t], c, on)
    BY <2>1, <2>3, OrderLater
  <2>5. InOrder(p, c, on)
    BY <1>3, <1>5, <2>2, <2>4, AppendInOrder
  <2>6. InOrder(q, c, on)
    <3>1. CASE c = b
      <4>1. Notice(b) \in Range(p)
        BY <1>4, <1>6
      <4> QED BY <1>7, <1>8, <2>5, <3>1, <4>1, AppendDeletion
    <3>2. CASE c # b
      BY <1>8, <2>2, <2>5, <3>2, AppendInOrder
    <3> QED BY <3>1, <3>2
  <2>7. InOrder(strand'[t], c, board'[t] = c)
    BY <1>10, <2>3, <2>5, <2>6
  <2>8. Range(strand'[t]) \subseteq Range(strand[t]) \cup {n, d}
    BY <1>6, <1>9, <1>10
  <2> QED BY <1>1, <1>11, <2>1, <2>2, <2>7, <2>8 DEF DeletionTold
<1>13. ASSUME NEW u \in Sessions \ {t}, NEW c \in Boards PROVE DeletionTold(u, c)'
  BY <1>1, <1>10, ToldStays DEF Deletions
<1> QED BY <1>1, <1>12, <1>13 DEF Deletions

\* The client is told of a deletion when its session is off the board.
LEMMA RunPostedTells ==
    ASSUME ObserverListens, Typed, Listening, Later, Deletions, NEW s \in Sessions, RunPosted(s)
    PROVE  Deletions'
<1>1. PICK m \in Message : m = Head(strand[s])
  BY RunPostedIs
<1>2. /\ strand[s] \in Seq(Message) /\ strand[s] # <<>>
      /\ \A t \in Sessions : strand'[t] = IF t = s THEN Tail(strand[s]) ELSE strand[t]
      /\ m.type = "notice" => m.board \in Boards /\ m = Notice(m.board)
      /\ \A t \in Sessions : board'[t] =
           IF t = s /\ m.type = "notice" /\ board[s] = m.board THEN NoBoard ELSE board[t]
  BY <1>1, RunPostedIs
<1>3. Range(strand[s]) = Range(Tail(strand[s])) \cup {m}
  BY <1>1, <1>2, TailRange
<1>4. /\ \A t \in Sessions \ {s} : client'[t] = client[t]
      /\ client'[s].gone =
           client[s].gone \cup (IF m.type = "board_deleted" THEN {m.board} ELSE {})
      /\ client'[s].toolate <=>
           client[s].toolate \/ (m.type = "operation_applied" /\ m.board \in client[s].gone)
  <2>1. CASE m.type = "notice"
    BY <1>1, <2>1 DEF RunPosted
  <2>2. CASE m.type # "notice"
    <3>1. m \in Tellable /\ Tell(s, m)
      BY <1>1, <1>3, <2>2 DEF RunPosted, Tellable, Listening
    <3> QED BY <3>1, TellIs DEF Listening, Told
  <2> QED BY <2>1, <2>2
<1>5. ~client'[s].toolate
  <2>1. m.type = "operation_applied" => m.board \notin client[s].gone
    <3>1. m.type = "operation_applied" => m.board \in Boards /\ Operation(m, m.board)
      BY MessageIs DEF Operation
    <3> QED BY <1>3, <3>1 DEF Deletions, DeletionTold
  <2> QED BY <1>4, <2>1 DEF Deletions
<1>6. ASSUME NEW b \in Boards PROVE DeletionTold(s, b)'
  <2>1. DeletionTold(s, b) /\ (Gone(b) => Gone(b)' /\ (board'[s] = b => board[s] = b))
    BY DEF Deletions, Later
  <2>2. PICK on, next \in BOOLEAN : on = (board[s] = b) /\ next = (board'[s] = b)
    OBVIOUS
  <2>3. InOrder(strand[s], b, on)
    BY <2>1, <2>2 DEF DeletionTold
  <2>4. next => on
    BY <1>2, <2>2, BoardsAssumption
  <2>5. m = Notice(b) => ~next
    <3>1. m = Notice(b) => m.type = "notice" /\ m.board = b
      BY DEF Notice
    <3>2. m = Notice(b) => board'[s] # b
      BY <1>2, <3>1, BoardsAssumption
    <3> QED BY <2>2, <3>2
  <2>6. InOrder(strand'[s], b, board'[s] = b)
    <3>1. InOrder(Tail(strand[s]), b, next)
      BY <1>1, <1>2, <2>3, <2>4, <2>5, TailInOrder
    <3> QED BY <1>2, <2>2, <3>1
  <2>7. CASE m = BoardDeleted(b)
    <3>1. ~on /\ \A n \in Range(strand[s]) : ~Operation(n, b)
      BY <1>1, <1>2, <2>3, <2>7, FirstDeletion
    <3>2. Gone(b) /\ m.type = "board_deleted" /\ m.board = b
      BY <1>3, <2>1, <2>7 DEF DeletionTold, BoardDeleted
    <3> QED BY <1>2, <1>3, <1>4, <2>1, <2>2, <2>4, <2>6, <3>1, <3>2 DEF DeletionTold
  <2>8. CASE m # BoardDeleted(b)
    <3>1. b \in client'[s].gone <=> b \in client[s].gone
      BY <1>4, <2>8, MessageIs
    <3> QED BY <1>2, <1>3, <2>1, <2>6, <3>1 DEF DeletionTold
  <2> QED BY <2>7, <2>8
<1>7. ASSUME NEW u \in Sessions \ {s}, NEW b \in Boards PROVE DeletionTold(u, b)'
  BY <1>2, <1>4, ToldStays DEF Deletions
<1> QED BY <1>4, <1>5, <1>6, <1>7 DEF Deletions

\* A client that was told of the deletion of a board by board_deleted is not on it
\* any more, and no operation_applied of that board follows: close_board takes the
\* subscriptions away before it posts, and no broadcast can be under way.
THEOREM DeletionIsFinal ==
    ASSUME ObserverListens
    PROVE  Spec => []NothingAfterDeletion
<1>1. ASSUME Typed, Present, Listening, Deletions, Next PROVE Deletions'
  <2>1. Later
    BY <1>1, StepPresent
  <2>2. CASE Silent
    BY <1>1, <2>1, <2>2, ToldStays DEF Silent, posts, Deletions
  <2>3. ASSUME NEW m, Sends(m) PROVE Deletions'
    <3>1. PICK t \in Sessions : Send(t, m)
      BY <1>1, <2>3, SendIs DEF Sends
    <3> QED BY <1>1, <2>1, <2>3, <3>1, SendTells DEF Sends
  <2>4. ASSUME NEW s \in Sessions, Notify(s) \/ RunPosted(s) PROVE Deletions'
    BY <1>1, <2>1, <2>4, NotifyTells, RunPostedTells
  <2> QED BY <1>1, <2>2, <2>3, <2>4, StepPosts
<1>2. ASSUME Deletions, UNCHANGED vars PROVE Deletions'
  BY <1>2 DEF vars, Deletions, DeletionTold, Gone, Closing, At
<1>3. Typed /\ Present /\ Listening /\ Deletions /\ [Next]_vars => Deletions'
  BY <1>1, <1>2
<1>4. Init => Deletions
  <2> SUFFICES ASSUME Init PROVE Deletions
    OBVIOUS
  <2>1. Range(<<>>) = {} /\ Len(<<>>) = 0
    BY DEF Range
  <2>2. \A s \in Sessions : /\ strand[s] = <<>> /\ client[s].gone = {}
                             /\ ~client[s].toolate
    BY DEF Init, ObserverListens, Nothing
  <2>3. <<>> \in Seq(Message)
    OBVIOUS
  <2>4. \A s \in Sessions, b \in Boards : InOrder(<<>>, b, board[s] = b)
    BY <2>1, <2>3, NoDeletion
  <2> QED BY <2>1, <2>2, <2>4 DEF Deletions, DeletionTold
<1>5. Listening /\ Deletions => NothingAfterDeletion
  <2> SUFFICES ASSUME Listening, Deletions, NEW s \in Sessions
               PROVE  board[s] \notin client[s].gone /\ ~client[s].toolate
    BY DEF NothingAfterDeletion
  <2>1. client[s].gone \subseteq Boards
    BY DEF Listening, Clients
  <2> QED BY <2>1 DEF Deletions, DeletionTold
<1> QED BY <1>3, <1>4, <1>5, TypedInvariant, PresentInvariant, ListeningInvariant, PTL DEF Spec

-----------------------------------------------------------------------------
(* Where a client thinks it is *)

\* The last answer among q, or before it to k, was to a join of b.
LastJoin(q, k, b) ==
    \/ /\ k.answer = "join_response" /\ k.on = b
       /\ \A i \in 1 .. Len(q) : q[i].type \notin Answers
    \/ \E i \in 1 .. Len(q) :
         /\ q[i].type = "join_response" /\ q[i].board = b
         /\ \A j \in 1 .. Len(q) : j > i => q[j].type \notin Answers

\* The last answer of a longer strand.
LEMMA AppendLast ==
    ASSUME NEW q \in Seq(Message), NEW m \in Message, NEW k, NEW b, LastJoin(Append(q, m), k, b)
    PROVE  IF m.type \in Answers THEN m.type = "join_response" /\ m.board = b
           ELSE LastJoin(q, k, b)
<1>1. PICK a : a = Append(q, m)
  OBVIOUS
<1>2. /\ a \in Seq(Message) /\ Len(a) = Len(q) + 1 /\ Len(q) \in Nat
      /\ \A i \in 1 .. Len(q) : a[i] = q[i] /\ i \in 1 .. Len(a)
      /\ a[Len(q) + 1] = m /\ Len(q) + 1 \in 1 .. Len(a)
  BY <1>1, AppendProperties
<1>3. CASE /\ k.answer = "join_response" /\ k.on = b
           /\ \A i \in 1 .. Len(a) : a[i].type \notin Answers
  <2>1. m.type \notin Answers
    BY <1>2, <1>3
  <2>2. \A i \in 1 .. Len(q) : q[i].type \notin Answers
    BY <1>2, <1>3
  <2> QED BY <1>3, <2>1, <2>2 DEF LastJoin
<1>4. ASSUME NEW i \in 1 .. Len(a),
             a[i].type = "join_response", a[i].board = b,
             \A j \in 1 .. Len(a) : j > i => a[j].type \notin Answers
      PROVE  IF m.type \in Answers THEN m.type = "join_response" /\ m.board = b
             ELSE LastJoin(q, k, b)
  <2>1. CASE i = Len(q) + 1
    BY <1>2, <1>4, <2>1 DEF Answers
  <2>2. CASE i # Len(q) + 1
    <3>1. i \in 1 .. Len(q) /\ Len(q) + 1 > i
      BY <1>2, <2>2
    <3>2. m.type \notin Answers
      BY <1>2, <1>4, <3>1
    <3>3. \A j \in 1 .. Len(q) : j > i => q[j].type \notin Answers
      BY <1>2, <1>4
    <3> QED BY <1>2, <1>4, <3>1, <3>2, <3>3 DEF LastJoin
  <2> QED BY <2>1, <2>2
<1> QED BY <1>1, <1>3, <1>4 DEF LastJoin

\* The last answer after the first of a strand was delivered.
LEMMA TailLast ==
    ASSUME NEW q \in Seq(Message), q # <<>>, NEW k, NEW next, NEW b,
           next.answer = (IF Head(q).type \in Answers THEN Head(q).type ELSE k.answer),
           next.on = (IF Head(q).type = "join_response" THEN Head(q).board ELSE k.on),
           LastJoin(Tail(q), next, b)
    PROVE  LastJoin(q, k, b)
<1>1. PICK a : a = Tail(q)
  OBVIOUS
<1>2. /\ a \in Seq(Message) /\ Len(a) = Len(q) - 1 /\ Len(q) \in Nat \ {0}
      /\ \A i \in 1 .. Len(a) : a[i] = q[i + 1] /\ i + 1 \in 1 .. Len(q)
      /\ Head(q) = q[1] /\ 1 \in 1 .. Len(q)
  BY <1>1, HeadTailProperties
<1>3. ASSUME NEW j \in 1 .. Len(q), j # 1 PROVE j - 1 \in 1 .. Len(a) /\ a[j - 1] = q[j]
  <2>1. j - 1 \in 1 .. Len(a) /\ (j - 1) + 1 = j
    BY <1>2, <1>3
  <2> QED BY <1>2, <2>1
<1>4. CASE /\ next.answer = "join_response" /\ next.on = b
           /\ \A i \in 1 .. Len(a) : a[i].type \notin Answers
  <2>1. \A j \in 1 .. Len(q) : j # 1 => q[j].type \notin Answers
    BY <1>3, <1>4
  <2>2. CASE q[1].type \in Answers
    <3>1. q[1].type = "join_response" /\ q[1].board = b
      BY <1>2, <1>4, <2>2
    <3>2. \A j \in 1 .. Len(q) : j > 1 => q[j].type \notin Answers
      BY <1>2, <2>1
    <3> QED BY <1>2, <3>1, <3>2 DEF LastJoin
  <2>3. CASE q[1].type \notin Answers
    <3>1. q[1].type # "join_response"
      BY <2>3 DEF Answers
    <3>2. k.answer = "join_response" /\ k.on = b
      BY <1>2, <1>4, <2>3, <3>1
    <3>3. \A j \in 1 .. Len(q) : q[j].type \notin Answers
      BY <2>1, <2>3
    <3> QED BY <3>2, <3>3 DEF LastJoin
  <2> QED BY <2>2, <2>3
<1>5. ASSUME NEW i \in 1 .. Len(a),
             a[i].type = "join_response", a[i].board = b,
             \A j \in 1 .. Len(a) : j > i => a[j].type \notin Answers
      PROVE  LastJoin(q, k, b)
  <2>1. i + 1 \in 1 .. Len(q) /\ q[i + 1].type = "join_response" /\ q[i + 1].board = b
    BY <1>2, <1>5
  <2>2. ASSUME NEW j \in 1 .. Len(q), j > i + 1 PROVE q[j].type \notin Answers
    <3>1. j # 1 /\ j - 1 > i
      BY <2>2
    <3> QED BY <1>3, <1>5, <3>1
  <2> QED BY <2>1, <2>2 DEF LastJoin
<1> QED BY <1>1, <1>4, <1>5 DEF LastJoin

\* A client without a strand is told something.
LEMMA ToldLast ==
    ASSUME NEW s, NEW k, NEW m, NEW next, NEW b, Told(s, k, m, next), LastJoin(<<>>, next, b)
    PROVE  IF m.type \in Answers THEN m.type = "join_response" /\ m.board = b
           ELSE LastJoin(<<>>, k, b)
<1>1. next.answer = "join_response" /\ next.on = b
  BY DEF LastJoin
<1>2. \A i \in 1 .. Len(<<>>) : FALSE
  OBVIOUS
<1>3. CASE m.type \in Answers
  BY <1>1, <1>3 DEF Told
<1>4. CASE m.type \notin Answers
  <2>1. m.type # "join_response"
    BY <1>4 DEF Answers
  <2>2. k.answer = "join_response" /\ k.on = b
    BY <1>1, <1>4, <2>1 DEF Told
  <2> QED BY <1>2, <1>4, <2>2 DEF LastJoin
<1> QED BY <1>3, <1>4

\* The last answer after a message is sent.
LEMMA SendLast ==
    ASSUME Typed, NEW s \in Sessions, NEW m \in Message, Send(s, m), NEW b
    PROVE  /\ LastJoin(strand'[s], client'[s], b) =>
                IF m.type \in Answers THEN m.type = "join_response" /\ m.board = b
                ELSE LastJoin(strand[s], client[s], b)
           /\ \A t \in Sessions \ {s} : strand'[t] = strand[t] /\ client'[t] = client[t]
<1>1. CASE /\ strand[s] = <<>> /\ strand' = strand
           /\ Told(s, client[s], m, client'[s])
           /\ \A t \in Sessions \ {s} : client'[t] = client[t]
  <2>1. strand'[s] = <<>>
    BY <1>1
  <2> QED BY <1>1, <2>1, ToldLast
<1>2. CASE client' = client /\ strand' = [strand EXCEPT ![s] = Append(@, m)]
  <2>1. strand[s] \in Seq(Message)
    BY DEF Typed, Types
  <2>2. PICK q : q = Append(strand[s], m)
    OBVIOUS
  <2>3. \A t \in Sessions : strand'[t] = IF t = s THEN q ELSE strand[t]
    BY <1>2, <2>2 DEF Typed, Types
  <2>4. LastJoin(q, client[s], b) =>
          IF m.type \in Answers THEN m.type = "join_response" /\ m.board = b
          ELSE LastJoin(strand[s], client[s], b)
    BY <2>1, <2>2, AppendLast
  <2> QED BY <1>2, <2>3, <2>4
<1> QED BY <1>1, <1>2 DEF Send

\* Handlers that end by answering.
Answering ==
    {"leave", "remaining", "unsubscribe", "leave_collect", "farewell", "join", "respond",
     "subscribe", "snapshot", "delete", "close", "notify"}

Thinks(s, b) == LastJoin(strand[s], client[s], b)
Noted(s, b) == Notice(b) \in Range(strand[s])

Knowing ==
    \A s \in Sessions :
       /\ handler[s].at # "idle" /\ handler[s].request.type = "hangup" => reading[s] # "open"
       /\ \A b \in Boards : reading[s] = "open" /\ Thinks(s, b) =>
            board[s] = b \/ handler[s].at \in Answering
       /\ \A b \in Boards : Noted(s, b) /\ Thinks(s, b) =>
            At(s, "notify") /\ handler[s].request.board = b

\* Nobody learns from the step that he is somewhere, and nobody is given notice.
Unlearned ==
    \A s \in Sessions, b \in Boards :
       (Thinks(s, b)' => Thinks(s, b)) /\ (Noted(s, b)' => Noted(s, b))

\* A handler moves and nobody learns more: Knowing stays if the handler still has
\* to answer, or what it answered is true.
LEMMA KnowingMoves ==
    ASSUME Knowing, NEW s \in Sessions, NEW h, Becomes(s, h),
           \A t \in Sessions \ {s} : board'[t] = board[t] /\ reading'[t] = reading[t],
           \A t \in Sessions \ {s}, b \in Boards :
               /\ Thinks(t, b)' => Thinks(t, b)
               /\ Thinks(t, b)' /\ Noted(t, b)' => Noted(t, b),
           h.at # "idle" /\ h.request.type = "hangup" => reading'[s] # "open",
           h.at \notin Answering /\ reading'[s] = "open" =>
               \A b \in Boards : Thinks(s, b)' => board'[s] = b,
           \A b \in Boards : Thinks(s, b)' /\ Noted(s, b)' =>
               h.at = "notify" /\ h.request.board = b
    PROVE  Knowing'
<1>1. handler'[s] = h /\ \A t \in Sessions \ {s} : handler'[t] = handler[t]
  BY DEF Becomes
<1>2. ASSUME NEW t \in Sessions \ {s}
      PROVE  /\ handler'[t].at # "idle" /\ handler'[t].request.type = "hangup" =>
                  reading'[t] # "open"
             /\ \A b \in Boards : reading'[t] = "open" /\ Thinks(t, b)' =>
                  board'[t] = b \/ handler'[t].at \in Answering
             /\ \A b \in Boards : Noted(t, b)' /\ Thinks(t, b)' =>
                  handler'[t].at = "notify" /\ handler'[t].request.board = b
  BY <1>1 DEF Knowing, At
<1>3. /\ handler'[s].at # "idle" /\ handler'[s].request.type = "hangup" =>
           reading'[s] # "open"
      /\ \A b \in Boards : reading'[s] = "open" /\ Thinks(s, b)' =>
           board'[s] = b \/ handler'[s].at \in Answering
      /\ \A b \in Boards : Noted(s, b)' /\ Thinks(s, b)' =>
           handler'[s].at = "notify" /\ handler'[s].request.board = b
  BY <1>1
<1> QED BY <1>2, <1>3 DEF Knowing, At

\* A step of a handler after which it still has an answer to give, or never had.
LEMMA KnowingOnward ==
    ASSUME Knowing, Unlearned, NEW s \in Sessions, NEW h, Becomes(s, h), UNCHANGED own,
           handler[s].at \notin {"idle", "notify"},
           h.at = "idle" \/ h.request = handler[s].request,
           handler[s].at \in Answering => h.at \in Answering
    PROVE  Knowing'
<1>1. h.at # "idle" /\ h.request.type = "hangup" => reading'[s] # "open"
  BY DEF Knowing, own
<1>2. ASSUME h.at \notin Answering, reading'[s] = "open", NEW b \in Boards, Thinks(s, b)'
      PROVE  board'[s] = b
  BY <1>2 DEF Knowing, Unlearned, own
<1>3. \A b \in Boards : ~ (Thinks(s, b)' /\ Noted(s, b)')
  BY DEF Knowing, Unlearned, At
<1> QED BY <1>1, <1>2, <1>3, KnowingMoves DEF Unlearned, own

\* Nobody learns from silence.
LEMMA SilentUnlearned ==
    ASSUME Silent
    PROVE  Unlearned
  BY DEF Silent, posts, Unlearned, Thinks, Noted

\* A message that is no answer.
LEMMA SendUnlearned ==
    ASSUME Typed, NEW s \in Sessions, NEW m \in Message, Send(s, m), m.type \notin Answers,
           SameNotices
    PROVE  Unlearned
<1>1. ASSUME NEW t \in Sessions, NEW b \in Boards
      PROVE  Thinks(t, b)' => Thinks(t, b)
  <2>1. CASE t = s
    BY <2>1, SendLast DEF Thinks
  <2>2. CASE t # s
    BY <2>2, SendLast DEF Thinks
  <2> QED BY <2>1, <2>2
<1> QED BY <1>1 DEF Unlearned, SameNotices, Noted

\* Broadcasts do not answer.
LEMMA PostNextUnlearned ==
    ASSUME ObserverListens, Typed, Listening,
           NEW s \in Sessions, NEW here \in {"post", "farewell"}, PostNext(s, here)
    PROVE  Unlearned
<1>1. /\ handler[s].at = here /\ handler[s].to \in Seq(Sessions) /\ handler[s].to # <<>>
      /\ Post(Head(handler[s].to), handler[s].message)
  BY BusyIs DEF PostNext, At, Typed, Types, Handlers
<1>2. PICK t \in Sessions, m \in Sendable : t = Head(handler[s].to) /\ m = handler[s].message
  BY <1>1, SaysSendable
<1>3. m.type \notin Answers
  BY <1>1, <1>2 DEF Typed, Purpose, Answers
<1>4. m \in Message /\ Send(t, m)
  BY <1>1, <1>2, SendIs DEF Sendable
<1> QED BY <1>3, <1>4, SendUnlearned, PostNextSays

\* An answer that is no join response: the client is nowhere it knows of.
LEMMA KnowingReplies ==
    ASSUME ObserverListens, Typed, Listening, Knowing, NEW s \in Sessions, NEW m,
           Replies(s, m), UNCHANGED reading,
           \A t \in Sessions \ {s} : board'[t] = board[t]
    PROVE  Knowing'
<1>1. m \in Message /\ m.type \in Answers \ {"join_response"} /\ m.type # "notice"
  BY DEF Replies, Sendable, Answers
<1>2. Send(s, m)
  BY SendIs DEF Replies, Answer
<1>3. \A b \in Boards : ~Thinks(s, b)'
  BY <1>1, <1>2, SendLast DEF Thinks
<1>4. \A t \in Sessions \ {s} : strand'[t] = strand[t] /\ client'[t] = client[t]
  BY <1>1, <1>2, SendLast
<1>5. \A t \in Sessions \ {s}, b \in Boards :
        (Thinks(t, b)' => Thinks(t, b)) /\ (Noted(t, b)' => Noted(t, b))
  BY <1>4 DEF Thinks, Noted
<1>6. Becomes(s, Idle) /\ Idle.at = "idle"
  BY <1>1, AnswerTypes DEF Replies, Idle
<1> QED BY <1>3, <1>5, <1>6, KnowingMoves

\* The actions, one kind after the other: each keeps Knowing.
LEMMA LeaveKnowing ==
    ASSUME ObserverListens, Typed, Listening, Knowing, NEW s \in Sessions,
           \/ LeaveParticipant(s) \/ ReadRemaining(s) \/ Unsubscribe(s)
           \/ Collect(s, "leave_collect", "farewell") \/ PostNext(s, "farewell")
    PROVE  Knowing'
<1>1. PICK place, m, to :
        place \in Leaving /\ Becomes(s, Record(place, handler[s].request, m, to))
  BY LeaveParticipantMoves, ReadRemainingMoves, UnsubscribeMoves, CollectMoves, PostNextMoves
  DEF Leaving, BroadcastPlaces
<1>2. PICK h : Becomes(s, h) /\ h.at \in Leaving /\ h.request = handler[s].request
  BY <1>1, RecordIs
<1>3. handler[s].at \in Leaving /\ UNCHANGED own
  BY DEF LeaveParticipant, ReadRemaining, Unsubscribe, Collect, PostNext, At, Leaving, own
<1>4. Unlearned
  <2>1. CASE PostNext(s, "farewell")
    BY <2>1, PostNextUnlearned
  <2>2. CASE ~PostNext(s, "farewell")
    BY <2>2, SilentUnlearned DEF LeaveParticipant, ReadRemaining, Unsubscribe, Collect, Silent
  <2> QED BY <2>1, <2>2
<1> QED BY <1>2, <1>3, <1>4, KnowingOnward DEF Leaving, Answering

LEMMA LeftKnowing ==
    ASSUME ObserverListens, Typed, Listening, Knowing, NEW s \in Sessions, Left(s)
    PROVE  Knowing'
<1>1. /\ \A t \in Sessions \ {s} : board'[t] = board[t]
      /\ reading' = reading /\ handler[s].at = "farewell"
  BY LeftIs DEF Typed, Types
<1>2. CASE /\ UNCHANGED posts
           /\ \/ handler[s].request.type = "join" /\ Goto(s, "join")
              \/ handler[s].request.type = "hangup" /\ Finish(s)
  <2>1. Unlearned
    BY <1>2, SilentUnlearned DEF Silent
  <2>2. \A b \in Boards : ~ (Thinks(s, b)' /\ Noted(s, b)')
    BY <1>1, <2>1 DEF Knowing, Unlearned, At
  <2>3. CASE handler[s].request.type = "join" /\ Goto(s, "join")
    <3>1. Becomes(s, Record("join", handler[s].request, handler[s].message, handler[s].to))
      BY <1>1, <2>3, GotoMoves DEF Typed, Types, Handlers, Places
    <3>2. PICK h : Becomes(s, h) /\ h.at = "join" /\ h.request.type = "join"
      BY <2>3, <3>1, RecordIs
    <3> QED BY <1>1, <2>1, <2>2, <3>2, KnowingMoves DEF Unlearned, Answering
  <2>4. CASE handler[s].request.type = "hangup" /\ Finish(s)
    <3>1. Becomes(s, Idle) /\ Idle.at = "idle"
      BY <2>4, FinishMoves DEF Typed, Types, Handlers, Idle
    <3>2. reading'[s] # "open"
      BY <1>1, <2>4 DEF Knowing
    <3> QED BY <1>1, <2>1, <2>2, <3>1, <3>2, KnowingMoves DEF Unlearned
  <2> QED BY <1>2, <2>3, <2>4
<1>3. CASE Answer(s, LeaveBoardResponse)
  <2>1. Replies(s, LeaveBoardResponse)
    BY <1>3, AnswersSendable DEF Replies
  <2> QED BY <1>1, <2>1, KnowingReplies
<1> QED BY <1>2, <1>3, LeftIs

LEMMA RefusalKnowing ==
    ASSUME ObserverListens, Typed, Listening, Knowing, NEW s \in Sessions,
           \/ JoinRefused(s) \/ OperationRejected(s)
           \/ DeleteRefused(s) \/ DeleteLost(s) \/ Deleted(s)
    PROVE  Knowing'
<1>1. PICK m : Replies(s, m)
  BY RepliesIs
<1>2. UNCHANGED own
  BY DEF JoinRefused, OperationRejected, DeleteRefused, DeleteLost, Deleted
<1> QED BY <1>1, <1>2, KnowingReplies DEF own

\* The answer to a join is given while the session is on the board.
LEMMA RespondKnowing ==
    ASSUME ObserverListens, Typed, Present, Listening, Knowing, NEW s \in Sessions, Respond(s)
    PROVE  Knowing'
<1>1. handler[s].at = "respond" /\ Post(s, handler[s].message) /\ UNCHANGED <<shared, own>>
  BY DEF Respond, At
<1>2. PICK m \in Sendable : m = handler[s].message
  BY <1>1, SaysSendable
<1>3. m \in Message /\ Send(s, m) /\ m.type # "notice"
  BY <1>1, <1>2, SendIs DEF Sendable
<1>4. SameNotices
  BY <1>1, <1>2, <1>3, PostNotices
<1>5. /\ m.type \in {"error", "leave_board_response", "join_response"}
      /\ m.type = "join_response" => m.board = board[s] /\ handler[s].request.type = "join"
  BY <1>1, <1>2 DEF Typed, Purpose
<1>6. \A b \in Boards : Thinks(s, b)' => b = board[s] /\ handler[s].request.type = "join"
  BY <1>3, <1>5, SendLast DEF Thinks, Answers
<1>7. ASSUME NEW b \in Boards, Thinks(s, b)', Noted(s, b)' PROVE FALSE
  <2>1. b \in kept
    BY <1>1, <1>6, <1>7, SharesRows
  <2>2. Noted(s, b)
    BY <1>4, <1>7 DEF SameNotices, Noted
  <2> QED BY <2>1, <2>2 DEF Noted, Present, Noticed, Gone
<1>8. \A t \in Sessions \ {s}, b \in Boards :
        (Thinks(t, b)' => Thinks(t, b)) /\ (Noted(t, b)' => Noted(t, b))
  BY <1>3, SendLast DEF Thinks, Noted
<1>9. PICK h : /\ Becomes(s, h)
               /\ h.at = "idle" \/ h.request = handler[s].request
  <2>1. CASE handler[s].request.type = "join"
    BY <2>1, RespondMoves, RecordIs
  <2>2. CASE handler[s].request.type # "join"
    BY <2>2, RespondMoves DEF Idle
  <2> QED BY <2>1, <2>2
<1>10. h.at # "idle" /\ h.request.type = "hangup" => reading'[s] # "open"
  BY <1>1, <1>9 DEF Knowing, own
<1>11. \A b \in Boards : Thinks(s, b)' => board'[s] = b
  BY <1>1, <1>6 DEF own
<1> QED BY <1>1, <1>7, <1>8, <1>9, <1>10, <1>11, KnowingMoves DEF own

LEMMA JoinKnowing ==
    ASSUME ObserverListens, Typed, Present, Listening, Knowing, NEW s \in Sessions, Join(s)
    PROVE  Knowing'
<1>1. CASE JoinRefused(s) \/ Respond(s)
  BY <1>1, RefusalKnowing, RespondKnowing
<1>2. CASE JoinBoard(s)
  <2>1. PICK h : /\ Becomes(s, h) /\ h.at = "subscribe" /\ h.request = handler[s].request
    BY <1>2, JoinBoardMoves, RecordIs
  <2>2. /\ Silent /\ reading' = reading /\ handler[s].at = "join"
        /\ \A t \in Sessions \ {s} : board'[t] = board[t]
    BY <1>2 DEF JoinBoard, Silent, At, Typed, Types
  <2>3. Unlearned
    BY <2>2, SilentUnlearned
  <2>4. \A b \in Boards : ~ (Thinks(s, b)' /\ Noted(s, b)')
    BY <2>2, <2>3 DEF Knowing, Unlearned, At
  <2>5. h.at # "idle" /\ h.request.type = "hangup" => reading'[s] # "open"
    BY <2>1, <2>2 DEF Knowing
  <2> QED BY <2>1, <2>2, <2>3, <2>4, <2>5, KnowingMoves DEF Unlearned, Answering
<1>3. CASE Subscribe(s) \/ ReadSnapshot(s) \/ ReadPresent(s)
  <2>1. /\ Unlearned /\ UNCHANGED own
        /\ handler[s].at \in {"subscribe", "snapshot", "present"}
    BY <1>3, SilentUnlearned DEF Subscribe, ReadSnapshot, ReadPresent, Silent, At
  <2>2. CASE Subscribe(s)
    <3>1. PICK h : /\ Becomes(s, h) /\ h.at = "snapshot" /\ h.request = handler[s].request
      BY <2>2, SubscribeMoves, RecordIs
    <3> QED BY <2>1, <3>1, KnowingOnward DEF Answering
  <2>3. CASE ReadSnapshot(s)
    <3>1. PICK h : /\ Becomes(s, h) /\ h.at = "respond" /\ h.request = handler[s].request
      BY <2>3, ReadSnapshotMoves, RecordIs
    <3> QED BY <2>1, <3>1, KnowingOnward DEF Answering
  <2>4. CASE ReadPresent(s)
    <3>1. PICK h : /\ Becomes(s, h) /\ h.at = "collect" /\ h.request = handler[s].request
      BY <2>4, ReadPresentMoves, RecordIs
    <3>2. handler[s].at \notin Answering
      BY <2>4 DEF ReadPresent, At, Answering
    <3> QED BY <2>1, <3>1, <3>2, KnowingOnward
  <2> QED BY <1>3, <2>2, <2>3, <2>4
<1> QED BY <1>1, <1>2, <1>3 DEF Join

LEMMA BroadcastKnowing ==
    ASSUME ObserverListens, Typed, Listening, Knowing, NEW s \in Sessions,
           Broadcast(s) \/ ApplyOperation(s)
    PROVE  Knowing'
<1>1. /\ handler[s].at \in {"collect", "post", "apply"} /\ handler[s].at \notin Answering
      /\ UNCHANGED own
  BY DEF Broadcast, Collect, PostNext, ApplyOperation, At, Answering
<1>2. PICK h : Becomes(s, h) /\ (h.at = "idle" \/ h.request = handler[s].request)
  <2>1. CASE Collect(s, "collect", "post")
    BY <2>1, CollectMoves, RecordIs DEF BroadcastPlaces
  <2>2. CASE PostNext(s, "post")
    BY <2>2, PostNextMoves, RecordIs
  <2>3. CASE /\ At(s, "post") /\ handler[s].to = <<>>
             /\ Finish(s)
             /\ UNCHANGED <<shared, own, posts>>
    BY <2>3, BroadcastEndMoves DEF Idle
  <2>4. CASE ApplyOperation(s)
    BY <2>4, ApplyOperationMoves, RecordIs
  <2> QED BY <2>1, <2>2, <2>3, <2>4 DEF Broadcast
<1>3. Unlearned
  <2>1. CASE PostNext(s, "post")
    BY <2>1, PostNextUnlearned
  <2>2. CASE ~PostNext(s, "post")
    BY <2>2, SilentUnlearned DEF Broadcast, Collect, ApplyOperation, Silent
  <2> QED BY <2>1, <2>2
<1> QED BY <1>1, <1>2, <1>3, KnowingOnward

LEMMA RequestKnowing ==
    ASSUME Typed, Knowing, NEW s \in Sessions,
           (\E r \in Requests : Receive(s, r)) \/ Disconnect(s)
    PROVE  Knowing'
<1>1. /\ handler[s].at = "idle" /\ board' = board /\ Silent
      /\ \A t \in Sessions \ {s} : reading'[t] = reading[t]
      /\ reading'[s] = "open" => reading[s] = "open"
  BY DEF Receive, Accept, Disconnect, At, posts, Silent, Typed, Types
<1>2. Unlearned
  BY <1>1, SilentUnlearned
<1>3. /\ \A b \in Boards : ~ (Thinks(s, b)' /\ Noted(s, b)')
      /\ reading'[s] = "open" => \A b \in Boards : Thinks(s, b)' => board'[s] = b
  BY <1>1, <1>2 DEF Knowing, Unlearned, At, Answering
<1>4. PICK h : Becomes(s, h) /\ (h.at # "idle" /\ h.request.type = "hangup" => reading'[s] # "open")
  <2>1. ASSUME NEW r \in Requests, Receive(s, r)
        PROVE  \E h : Becomes(s, h) /\ h.request.type # "hangup"
    <3>1. PICK h : Becomes(s, h) /\ h.request = r
      BY <2>1, DispatchMoves, RequestsAre, RecordIs DEF Receive, Accept
    <3> QED BY <3>1, RequestTypes, RequestsAre
  <2>2. CASE Disconnect(s)
    <3>1. reading'[s] # "open"
      BY <2>2 DEF Disconnect, Typed, Types
    <3>2. handler' \in Handlers
      BY <2>2, DisconnectMoves DEF Typed, Types, Handlers
    <3>3. \A t \in Sessions \ {s} : handler'[t] = handler[t]
      BY <2>2 DEF Disconnect, Begin, Typed, Types
    <3> QED BY <3>1, <3>2, <3>3 DEF Becomes
  <2> QED BY <2>1, <2>2
<1> QED BY <1>1, <1>2, <1>3, <1>4, KnowingMoves DEF Unlearned

LEMMA DeleteKnowing ==
    ASSUME Typed, Listening, Knowing, NEW s \in Sessions,
           DeleteRows(s) \/ CloseBoard(s)
    PROVE  Knowing'
<1>1. Unlearned /\ UNCHANGED own /\ handler[s].at \in {"delete", "close"}
  BY SilentUnlearned DEF DeleteRows, CloseBoard, Silent, At
<1>2. PICK h : Becomes(s, h) /\ h.at \in {"close", "notify"} /\ h.request = handler[s].request
  BY DeleteRowsMoves, CloseBoardMoves, RecordIs
<1> QED BY <1>1, <1>2, KnowingOnward DEF Answering

\* Who gets a notice gets the deletion with it, or is its initiator, who still
\* has to be answered.
LEMMA NotifyKnowing ==
    ASSUME Typed, Knowing, NEW s \in Sessions, Notify(s)
    PROVE  Knowing'
<1>1. PICK t \in Sessions, b \in Boards :
        /\ t = Head(handler[s].to) /\ b = handler[s].request.board
        /\ strand' = [strand EXCEPT ![t] = Informed(@, t = s, b)]
        /\ UNCHANGED <<shared, own, client>>
        /\ handler[s].at = "notify"
  BY NotifyIs DEF At
<1>2. PICK self \in BOOLEAN : self = (t = s)
  OBVIOUS
<1>3. strand[t] \in Seq(Message)
  BY DEF Typed, Types
<1>4. PICK n \in Message : n = Notice(b) /\ n.type \notin Answers
  BY MessageTypes DEF Notice, Answers
<1>5. PICK p \in Seq(Message) : p = Append(strand[t], n)
  <2>1. Append(strand[t], n) \in Seq(Message)
    BY <1>3
  <2> QED BY <2>1
<1>6. Range(p) = Range(strand[t]) \cup {n}
  BY <1>3, <1>5, AppendRange
<1>7. PICK d \in Message : d = BoardDeleted(b) /\ d.type \in Answers \ {"join_response"}
  BY MessageTypes DEF BoardDeleted, Answers
<1>8. PICK q : q = Append(p, d)
  OBVIOUS
<1>9. \A u \in Sessions : strand'[u] = IF u # t THEN strand[u] ELSE IF self THEN p ELSE q
  BY <1>1, <1>2, <1>4, <1>5, <1>7, <1>8 DEF Informed, Typed, Types
<1>10. \A c : LastJoin(p, client[t], c) => LastJoin(strand[t], client[t], c)
  BY <1>3, <1>4, <1>5, AppendLast
<1>11. \A c : ~LastJoin(q, client[t], c)
  BY <1>7, <1>8, AppendLast
<1>12. \A u \in Sessions \ {t} : \A c : (Thinks(u, c)' <=> Thinks(u, c)) /\ (Noted(u, c)' <=> Noted(u, c))
  BY <1>1, <1>9 DEF Thinks, Noted
<1>13. CASE t # s
  <2>1. \A c : ~Thinks(t, c)'
    BY <1>1, <1>2, <1>9, <1>11, <1>13 DEF Thinks
  <2>2. PICK h : Becomes(s, h) /\ h.at = "notify" /\ h.request = handler[s].request
    BY NotifyIs, RecordIs
  <2>3. \A c \in Boards : Thinks(s, c)' /\ Noted(s, c)' => h.at = "notify" /\ h.request.board = c
    BY <1>12, <1>13, <2>2 DEF Knowing
  <2>4. h.request.type = "hangup" => reading'[s] # "open"
    BY <1>1, <2>2 DEF Knowing, own
  <2> QED BY <1>1, <1>12, <2>1, <2>2, <2>3, <2>4, KnowingMoves DEF own, Answering
<1>14. CASE t = s
  <2>1. \A c : (Thinks(s, c)' => Thinks(s, c)) /\ (Noted(s, c)' => Noted(s, c) \/ c = b)
    <3>1. strand'[s] = p /\ client'[s] = client[t] /\ strand[s] = strand[t] /\ client[s] = client[t]
      BY <1>1, <1>2, <1>9, <1>14
    <3>2. \A c : Notice(c) \in Range(p) => Notice(c) \in Range(strand[t]) \/ c = b
      BY <1>4, <1>6 DEF Notice
    <3> QED BY <1>10, <3>1, <3>2 DEF Thinks, Noted
  <2>2. PICK h : Becomes(s, h) /\ h.at = "notify" /\ h.request = handler[s].request
    BY NotifyIs, RecordIs
  <2>3. \A c \in Boards : Thinks(s, c)' /\ Noted(s, c)' => h.at = "notify" /\ h.request.board = c
    BY <1>1, <2>1, <2>2 DEF Knowing
  <2>4. h.request.type = "hangup" => reading'[s] # "open"
    BY <1>1, <2>2 DEF Knowing, own
  <2> QED BY <1>1, <1>12, <1>14, <2>2, <2>3, <2>4, KnowingMoves DEF own, Answering
<1> QED BY <1>13, <1>14

\* The session that loses its board has the deletion next on its strand, or an
\* answer to come.
LEMMA RunPostedKnowing ==
    ASSUME ObserverListens, Typed, Listening, Knowing, NEW s \in Sessions, RunPosted(s)
    PROVE  Knowing'
<1>1. PICK m \in Message : m = Head(strand[s])
  BY RunPostedIs
<1>2. /\ strand[s] \in Seq(Message) /\ strand[s] # <<>> /\ handler[s].at = "idle"
      /\ \A t \in Sessions : strand'[t] = IF t = s THEN Tail(strand[s]) ELSE strand[t]
      /\ m.type = "notice" => m.board \in Boards /\ m = Notice(m.board)
      /\ \A t \in Sessions : board'[t] =
           IF t = s /\ m.type = "notice" /\ board[s] = m.board THEN NoBoard ELSE board[t]
      /\ UNCHANGED <<reading, handler>>
  BY <1>1, RunPostedIs DEF At
<1>3. Range(strand[s]) = Range(Tail(strand[s])) \cup {m}
  BY <1>1, <1>2, TailRange
<1>4. /\ \A t \in Sessions \ {s} : client'[t] = client[t]
      /\ client'[s].answer = IF m.type \in Answers THEN m.type ELSE client[s].answer
      /\ client'[s].on = IF m.type = "join_response" THEN m.board ELSE client[s].on
  <2>1. CASE m.type = "notice"
    BY <1>1, <2>1 DEF RunPosted, Answers
  <2>2. CASE m.type # "notice"
    <3>1. m \in Tellable /\ Tell(s, m)
      BY <1>1, <1>3, <2>2 DEF RunPosted, Tellable, Listening
    <3> QED BY <3>1, TellIs DEF Listening, Told
  <2> QED BY <2>1, <2>2
<1>5. \A b \in Boards : (Thinks(s, b)' => Thinks(s, b)) /\ (Noted(s, b)' => Noted(s, b))
  BY <1>1, <1>2, <1>3, <1>4, TailLast DEF Thinks, Noted
<1>6. \A t \in Sessions \ {s}, b \in Boards :
        (Thinks(t, b)' => Thinks(t, b)) /\ (Noted(t, b)' => Noted(t, b))
  BY <1>2, <1>4 DEF Thinks, Noted
<1>7. \A b \in Boards : ~ (Thinks(s, b) /\ Noted(s, b))
  BY <1>2 DEF Knowing, At
<1>8. ASSUME reading[s] = "open", NEW b \in Boards, Thinks(s, b)' PROVE board'[s] = b
  <2>1. board[s] = b
    BY <1>2, <1>5, <1>8 DEF Knowing, Answering
  <2>2. ~ (m.type = "notice" /\ m.board = b)
    BY <1>2, <1>3, <1>5, <1>7, <1>8 DEF Noted
  <2> QED BY <1>2, <2>1, <2>2
<1>9. PICK h : h = handler[s] /\ Becomes(s, h) /\ h.at = "idle"
  BY <1>2 DEF Becomes, Typed, Types, Handlers
<1> QED BY <1>2, <1>5, <1>6, <1>7, <1>8, <1>9, KnowingMoves

\* Nobody hears of a session that ceases to be, and its client is not connected.
LEMMA ExpireKnowing ==
    ASSUME Typed, Knowing, NEW s \in Sessions, Expire(s)
    PROVE  Knowing'
<1>1. Unlearned
  BY ExpireIs, SilentUnlearned DEF Silent, posts
<1>2. PICK h : h = handler[s] /\ Becomes(s, h) /\ h.at = "idle"
  BY ExpireIs DEF Becomes, Typed, Types, Handlers
<1>3. \A b \in Boards : ~ (Thinks(s, b)' /\ Noted(s, b)')
  BY <1>1, <1>2 DEF Knowing, Unlearned, At
<1> QED BY <1>1, <1>2, <1>3, ExpireIs, KnowingMoves DEF Unlearned

\* Every step keeps what clients know true, or about to be corrected.
LEMMA StepKnowing ==
    ASSUME ObserverListens, Typed, Present, Listening, Knowing, Next
    PROVE  Knowing'
<1>1. PICK s \in Sessions :
        (\E r \in Requests : Receive(s, r)) \/ Disconnect(s) \/ Expire(s) \/ Step(s)
  BY DEF Next
<1>2. CASE (\E r \in Requests : Receive(s, r)) \/ Disconnect(s)
  BY <1>2, RequestKnowing
<1>9. CASE Expire(s)
  BY <1>9, ExpireKnowing
<1>3. CASE Leave(s)
  BY <1>3, LeaveKnowing, LeftKnowing DEF Leave
<1>4. CASE Join(s)
  BY <1>4, JoinKnowing
<1>5. CASE Broadcast(s) \/ ApplyOperation(s)
  BY <1>5, BroadcastKnowing
<1>6. CASE OperationRejected(s)
  BY <1>6, RefusalKnowing
<1>7. CASE Delete(s)
  BY <1>7, RefusalKnowing, DeleteKnowing, NotifyKnowing DEF Delete
<1>8. CASE RunPosted(s)
  BY <1>8, RunPostedKnowing
<1> QED BY <1>1, <1>2, <1>3, <1>4, <1>5, <1>6, <1>7, <1>8, <1>9 DEF Step

\* A client that is connected and whose last answer was a join_board_response is on
\* the board it was told of, and no deletion of the board has succeeded: one that
\* races with the join comes either before it, and refuses it, or after it, and is
\* told.  (A deletion whose COMMIT took effect but was answered by an error is no
\* success to the server, and nobody is told of it.)
THEOREM JoinedClientsKnow ==
    ASSUME ObserverListens
    PROVE  Spec => []ClientKnowsItsBoard
<1>1. ASSUME Knowing, UNCHANGED vars PROVE Knowing'
  BY <1>1 DEF vars, Knowing, Thinks, Noted, At
<1>2. Typed /\ Present /\ Listening /\ Knowing /\ [Next]_vars => Knowing'
  BY <1>1, StepKnowing
<1>3. Init => Knowing
  <2> SUFFICES ASSUME Init PROVE Knowing
    OBVIOUS
  <2>1. \A s \in Sessions : /\ handler[s] = Idle /\ Idle.at = "idle"
                             /\ strand[s] = <<>> /\ client[s].answer = "none"
    BY DEF Init, ObserverListens, Nothing, Idle
  <2>2. \A i \in 1 .. Len(<<>>) : FALSE
    OBVIOUS
  <2>3. \A s \in Sessions : \A b : ~Thinks(s, b)
    BY <2>1, <2>2 DEF Thinks, LastJoin
  <2> QED BY <2>1, <2>3 DEF Knowing
<1>4. Typed /\ Present /\ Listening /\ Knowing => ClientKnowsItsBoard
  <2> SUFFICES ASSUME Typed, Present, Listening, Knowing, AtRest, NEW s \in Sessions,
                      reading[s] = "open", client[s].answer = "join_response"
               PROVE  board[s] = client[s].on /\ client[s].on \in kept
    BY DEF ClientKnowsItsBoard
  <2>1. PICK b \in Boards : b = client[s].on
    BY DEF Listening
  <2>2. handler[s].at = "idle" /\ strand[s] = <<>>
    BY DEF AtRest, At
  <2>3. \A i \in 1 .. Len(<<>>) : FALSE
    OBVIOUS
  <2>4. Thinks(s, b)
    BY <2>1, <2>2, <2>3 DEF Thinks, LastJoin
  <2>5. board[s] = b
    BY <2>2, <2>4 DEF Knowing, Answering
  <2>6. b \notin kept => Members(b) = {}
    BY RestIs
  <2>7. s \in Members(b)
    BY <2>5 DEF Members
  <2> QED BY <2>1, <2>5, <2>6, <2>7
<1> QED BY <1>2, <1>3, <1>4, TypedInvariant, PresentInvariant, ListeningInvariant, PTL DEF Spec

-----------------------------------------------------------------------------
(* Where the operations are *)

\* The message is operation r on b.
OpAt(m, b, r) == m.type = "operation_applied" /\ m.board = b /\ m.revision = r

\* The client has heard of operation r on b, or is going to.
Received(s, b, r) ==
    <<b, r>> \in client[s].heard \/ \E m \in Range(strand[s]) : OpAt(m, b, r)

\* The handler of e broadcasts it, to s too.
Coming(e, s, b, r) ==
    /\ OpAt(handler[e].message, b, r)
    /\ At(e, "collect") \/ (At(e, "post") /\ s \in Range(handler[e].to))

\* The last snapshot in q, or before it in k, has operation r.
From(q, k, r) ==
    \/ /\ k.revision >= r
       /\ \A i \in 1 .. Len(q) : q[i].type # "join_response"
    \/ \E i \in 1 .. Len(q) :
         /\ q[i].type = "join_response" /\ q[i].revision >= r
         /\ \A j \in 1 .. Len(q) : j > i => q[j].type # "join_response"

\* The handler is about to answer a join.
Responding(s) == At(s, "respond") /\ handler[s].request.type = "join"

\* The snapshot that s has, or is about to be sent, has operation r.
Based(s, r) ==
    /\ Responding(s) => handler[s].message.revision >= r
    /\ ~Responding(s) => From(strand[s], client[s], r)

\* Operation r is nothing that s could miss.
Covered(s, b, r) ==
    Received(s, b, r) \/ (\E e \in Sessions : Coming(e, s, b, r)) \/ Based(s, r)

\* The session has a snapshot of b, and still gets its operations.
Due(s, b) ==
    /\ board[s] = b /\ b \in kept
    /\ handler[s].at \notin {"subscribe", "snapshot", "leave_collect", "farewell"}

\* No operation is missed by a session that is due to get it.
Reached ==
    \A s \in Sessions, b \in Boards :
        Due(s, b) => \A r \in 1 .. runtime[b].revision : Covered(s, b, r)

\* The last snapshot of a longer strand.
LEMMA AppendFrom ==
    ASSUME NEW q \in Seq(Message), NEW m \in Message, NEW k, NEW r,
           IF m.type = "join_response" THEN m.revision >= r ELSE From(q, k, r)
    PROVE  From(Append(q, m), k, r)
<1>1. PICK a : a = Append(q, m)
  OBVIOUS
<1>2. /\ a \in Seq(Message) /\ Len(a) = Len(q) + 1 /\ Len(q) \in Nat
      /\ \A i \in 1 .. Len(q) : a[i] = q[i] /\ i \in 1 .. Len(a)
      /\ a[Len(q) + 1] = m /\ Len(q) + 1 \in 1 .. Len(a)
      /\ \A i \in 1 .. Len(a) : i = Len(q) + 1 \/ i \in 1 .. Len(q)
  <2>1. /\ a \in Seq(Message) /\ Len(a) = Len(q) + 1 /\ Len(q) \in Nat
        /\ \A i \in 1 .. Len(q) : a[i] = q[i]
        /\ a[Len(q) + 1] = m
    BY <1>1, AppendProperties
  <2> QED BY <2>1
<1>3. CASE m.type = "join_response"
  <2>1. \A j \in 1 .. Len(a) : ~ (j > Len(q) + 1)
    BY <1>2
  <2> QED BY <1>1, <1>2, <1>3, <2>1 DEF From
<1>4. CASE m.type # "join_response"
  <2>1. CASE /\ k.revision >= r
             /\ \A i \in 1 .. Len(q) : q[i].type # "join_response"
    <3>1. \A i \in 1 .. Len(a) : a[i].type # "join_response"
      BY <1>2, <1>4, <2>1
    <3> QED BY <1>1, <2>1, <3>1 DEF From
  <2>2. ASSUME NEW i \in 1 .. Len(q),
               q[i].type = "join_response", q[i].revision >= r,
               \A j \in 1 .. Len(q) : j > i => q[j].type # "join_response"
        PROVE  From(a, k, r)
    <3>1. \A j \in 1 .. Len(a) : j > i => a[j].type # "join_response"
      BY <1>2, <1>4, <2>2
    <3>2. i \in 1 .. Len(a) /\ a[i] = q[i]
      BY <1>2
    <3> QED BY <2>2, <3>1, <3>2 DEF From
  <2> QED BY <1>1, <1>4, <2>1, <2>2 DEF From
<1> QED BY <1>3, <1>4

\* The last snapshot after the first of a strand was delivered.
LEMMA TailFrom ==
    ASSUME NEW q \in Seq(Message), q # <<>>, NEW k, NEW next, NEW r, From(q, k, r),
           next.revision =
             (IF Head(q).type = "join_response" THEN Head(q).revision ELSE k.revision)
    PROVE  From(Tail(q), next, r)
<1>1. PICK a : a = Tail(q)
  OBVIOUS
<1>2. /\ a \in Seq(Message) /\ Len(a) = Len(q) - 1 /\ Len(q) \in Nat \ {0}
      /\ \A i \in 1 .. Len(a) : a[i] = q[i + 1] /\ i + 1 \in 1 .. Len(q)
      /\ Head(q) = q[1] /\ 1 \in 1 .. Len(q)
  BY <1>1, HeadTailProperties
<1>3. CASE /\ k.revision >= r
           /\ \A i \in 1 .. Len(q) : q[i].type # "join_response"
  <2>1. \A i \in 1 .. Len(a) : a[i].type # "join_response"
    BY <1>2, <1>3
  <2>2. next.revision = k.revision
    BY <1>2, <1>3
  <2> QED BY <1>1, <1>3, <2>1, <2>2 DEF From
<1>4. ASSUME NEW i \in 1 .. Len(q),
             q[i].type = "join_response", q[i].revision >= r,
             \A j \in 1 .. Len(q) : j > i => q[j].type # "join_response"
      PROVE  From(a, next, r)
  <2>1. CASE i = 1
    <3>1. next.revision >= r
      BY <1>2, <1>4, <2>1
    <3>2. ASSUME NEW j \in 1 .. Len(a) PROVE a[j].type # "join_response"
      <4>1. j + 1 > i
        BY <2>1
      <4> QED BY <1>2, <1>4, <4>1
    <3> QED BY <3>1, <3>2 DEF From
  <2>2. CASE i # 1
    <3>1. i - 1 \in 1 .. Len(a) /\ (i - 1) + 1 = i
      BY <1>2, <2>2
    <3>2. a[i - 1] = q[i]
      BY <1>2, <3>1
    <3>3. ASSUME NEW j \in 1 .. Len(a), j > i - 1 PROVE a[j].type # "join_response"
      <4>1. j + 1 > i
        BY <3>3
      <4> QED BY <1>2, <1>4, <4>1
    <3> QED BY <1>4, <3>1, <3>2, <3>3 DEF From
  <2> QED BY <2>1, <2>2
<1> QED BY <1>1, <1>3, <1>4 DEF From

\* The last snapshot of a client that was told something.
LEMMA ToldFrom ==
    ASSUME NEW s, NEW k, NEW m, NEW next, NEW r, Told(s, k, m, next),
           IF m.type = "join_response" THEN m.revision >= r ELSE From(<<>>, k, r)
    PROVE  From(<<>>, next, r)
<1>1. \A i \in 1 .. Len(<<>>) : FALSE
  OBVIOUS
<1>2. CASE m.type = "join_response"
  BY <1>1, <1>2 DEF Told, From
<1>3. CASE m.type # "join_response"
  <2>1. k.revision >= r
    BY <1>1, <1>3 DEF From
  <2> QED BY <1>1, <1>3, <2>1 DEF Told, From
<1> QED BY <1>2, <1>3

\* The last snapshot after a message is sent.
LEMMA SendFrom ==
    ASSUME Typed, NEW s \in Sessions, NEW m \in Message, Send(s, m), NEW r,
           IF m.type = "join_response" THEN m.revision >= r
           ELSE From(strand[s], client[s], r)
    PROVE  From(strand'[s], client'[s], r)
<1>1. CASE /\ strand[s] = <<>> /\ strand' = strand
           /\ Told(s, client[s], m, client'[s])
  <2>1. From(<<>>, client'[s], r)
    BY <1>1, ToldFrom
  <2> QED BY <1>1, <2>1
<1>2. CASE client' = client /\ strand' = [strand EXCEPT ![s] = Append(@, m)]
  <2>1. strand[s] \in Seq(Message)
    BY DEF Typed, Types
  <2>2. PICK q : q = Append(strand[s], m)
    OBVIOUS
  <2>3. strand'[s] = q
    BY <1>2, <2>2 DEF Typed, Types
  <2>4. From(q, client[s], r)
    BY <2>1, <2>2, AppendFrom
  <2> QED BY <1>2, <2>3, <2>4
<1> QED BY <1>1, <1>2 DEF Send

\* What was received stays, and what is sent is.
LEMMA SendReceived ==
    ASSUME Typed, NEW s \in Sessions, NEW m \in Message, Send(s, m), NEW b, NEW r
    PROVE  /\ \A t \in Sessions : Received(t, b, r) => Received(t, b, r)'
           /\ OpAt(m, b, r) => Received(s, b, r)'
<1>1. CASE /\ strand' = strand /\ Told(s, client[s], m, client'[s])
           /\ \A t \in Sessions \ {s} : client'[t] = client[t]
  <2>1. /\ client[s].heard \subseteq client'[s].heard
        /\ OpAt(m, b, r) => <<b, r>> \in client'[s].heard
    BY <1>1 DEF Told, OpAt
  <2> QED BY <1>1, <2>1 DEF Received
<1>2. CASE client' = client /\ strand' = [strand EXCEPT ![s] = Append(@, m)]
  <2>1. strand[s] \in Seq(Message)
    BY DEF Typed, Types
  <2>2. PICK q : q = Append(strand[s], m)
    OBVIOUS
  <2>3. \A t \in Sessions : strand'[t] = IF t = s THEN q ELSE strand[t]
    BY <1>2, <2>2 DEF Typed, Types
  <2>4. Range(q) = Range(strand[s]) \cup {m}
    BY <2>1, <2>2, AppendRange
  <2> QED BY <1>2, <2>3, <2>4 DEF Received
<1> QED BY <1>1, <1>2 DEF Send

Unready == {"subscribe", "snapshot", "leave_collect", "farewell"}

\* The step takes nothing back that was said to anybody.
Kept ==
    \A t \in Sessions, b \in Boards, r \in Nat : Received(t, b, r) => Received(t, b, r)'
Seen(t) ==
    \A r \in Nat : From(strand[t], client[t], r) => From(strand[t], client[t], r)'

\* Nor does it what is going to be said by the handler of s.
Carried(s) ==
    \A t \in Sessions, b \in Boards, r \in Nat :
       Due(t, b) /\ Coming(s, t, b, r) => Coming(s, t, b, r)' \/ Received(t, b, r)'

\* A handler moves and nothing is taken back: Reached stays if every operation that
\* is new is on its way to all, and who becomes due has a snapshot with the others.
LEMMA ReachedMoves ==
    ASSUME Typed, Reached, NEW s \in Sessions, NEW h, Becomes(s, h),
           Kept, \A t \in Sessions \ {s} : Seen(t), Carried(s),
           kept' \subseteq kept, \A t \in Sessions \ {s} : board'[t] = board[t],
           \A b \in Boards : \A r \in 1 .. runtime'[b].revision :
               r \in 1 .. runtime[b].revision \/ \A t \in Sessions : Coming(s, t, b, r)',
           \A b \in Boards : board'[s] = b /\ b \in kept' /\ h.at \notin Unready =>
               \A r \in 1 .. runtime[b].revision :
                  Based(s, r)' \/ (Due(s, b) /\ (Based(s, r) => Based(s, r)'))
    PROVE  Reached'
<1>1. handler'[s] = h /\ \A t \in Sessions \ {s} : handler'[t] = handler[t]
  BY DEF Becomes
<1> SUFFICES ASSUME NEW u \in Sessions, NEW b \in Boards, Due(u, b)',
                    NEW r \in 1 .. runtime'[b].revision
             PROVE  Covered(u, b, r)'
  BY DEF Reached
<1>2. CASE r \notin 1 .. runtime[b].revision
  BY <1>2 DEF Covered
<1>3. CASE r \in 1 .. runtime[b].revision
  <2>1. r \in Nat
    BY <1>3
  <2>2. ASSUME Due(u, b), Based(u, r) => Based(u, r)' PROVE Covered(u, b, r)'
    <3>1. Covered(u, b, r)
      BY <1>3, <2>2 DEF Reached
    <3>2. CASE Received(u, b, r)
      BY <2>1, <3>2 DEF Kept, Covered
    <3>3. ASSUME NEW e \in Sessions, Coming(e, u, b, r) PROVE Covered(u, b, r)'
      <4>1. CASE e = s
        BY <2>1, <2>2, <3>3, <4>1 DEF Carried, Covered
      <4>2. CASE e # s
        <5>1. Coming(e, u, b, r)'
          BY <1>1, <3>3, <4>2 DEF Coming, At
        <5> QED BY <5>1 DEF Covered
      <4> QED BY <4>1, <4>2
    <3> QED BY <2>2, <3>1, <3>2, <3>3 DEF Covered
  <2>3. CASE u = s
    <3>1. board'[s] = b /\ b \in kept' /\ h.at \notin Unready
      BY <1>1, <2>3 DEF Due, Unready
    <3>2. Based(s, r)' \/ (Due(s, b) /\ (Based(s, r) => Based(s, r)'))
      BY <1>3, <3>1
    <3>3. CASE Based(s, r)'
      BY <2>3, <3>3 DEF Covered
    <3> QED BY <2>2, <2>3, <3>2, <3>3
  <2>4. CASE u # s
    <3>1. Due(u, b)
      BY <1>1, <2>4 DEF Due
    <3>2. Based(u, r) => Based(u, r)'
      BY <1>1, <2>1, <2>4 DEF Based, Responding, At, Seen
    <3> QED BY <2>2, <3>1, <3>2
  <2> QED BY <2>3, <2>4
<1> QED BY <1>2, <1>3

\* Most steps are not about snapshots.
LEMMA ReachedQuiet ==
    ASSUME Typed, Reached, NEW s \in Sessions, NEW h, Becomes(s, h),
           Kept, \A t \in Sessions : Seen(t), Carried(s),
           kept' \subseteq kept, \A t \in Sessions \ {s} : board'[t] = board[t],
           \A b \in Boards : runtime'[b].revision = runtime[b].revision,
           \A b \in Boards : board'[s] = b /\ h.at \notin Unready =>
               board[s] = b /\ handler[s].at \notin Unready,
           ~Responding(s), h.at = "respond" => h.request.type # "join"
    PROVE  Reached'
<1>1. handler'[s] = h
  BY DEF Becomes
<1>2. ~Responding(s)'
  BY <1>1 DEF Responding, At
<1>3. \A r \in Nat : Based(s, r) => Based(s, r)'
  BY <1>2 DEF Based, Seen
<1>4. ASSUME NEW b \in Boards, board'[s] = b, b \in kept', h.at \notin Unready,
             NEW r \in 1 .. runtime[b].revision
      PROVE  Due(s, b) /\ (Based(s, r) => Based(s, r)')
  <2>1. r \in Nat
    OBVIOUS
  <2>2. Due(s, b)
    BY <1>4 DEF Due, Unready
  <2> QED BY <1>3, <2>1, <2>2
<1>5. \A b \in Boards : \A r \in 1 .. runtime'[b].revision : r \in 1 .. runtime[b].revision
  OBVIOUS
<1> QED BY <1>4, <1>5, ReachedMoves

\* A handler that is in no broadcast carries no operation.
LEMMA NotCarrying ==
    ASSUME NEW s \in Sessions, handler[s].at \notin {"collect", "post"}
    PROVE  Carried(s)
  BY DEF Carried, Coming, At

\* Silence takes nothing back.
LEMMA SilentKept ==
    ASSUME Silent
    PROVE  Kept /\ \A t \in Sessions : Seen(t)
  BY DEF Silent, posts, Kept, Seen, Received

\* Nor does a message, but a snapshot may replace a snapshot.
LEMMA SendKept ==
    ASSUME Typed, NEW s \in Sessions, NEW m \in Message, Send(s, m)
    PROVE  /\ Kept /\ \A t \in Sessions \ {s} : Seen(t)
           /\ m.type # "join_response" => Seen(s)
<1>1. Kept
  BY SendReceived DEF Kept
<1>2. \A t \in Sessions \ {s} : strand'[t] = strand[t] /\ client'[t] = client[t]
  BY SendLast
<1>3. \A t \in Sessions \ {s} : Seen(t)
  BY <1>2 DEF Seen
<1>4. m.type # "join_response" => Seen(s)
  BY SendFrom DEF Seen
<1> QED BY <1>1, <1>3, <1>4

\* What a handler stops carrying to s has been sent to s.
LEMMA PostNextKept ==
    ASSUME ObserverListens, Typed, Listening,
           NEW s \in Sessions, NEW here \in {"post", "farewell"}, PostNext(s, here)
    PROVE  /\ Kept /\ \A t \in Sessions : Seen(t)
           /\ \A t \in Sessions : \A b, r :
                t = Head(handler[s].to) /\ OpAt(handler[s].message, b, r) => Received(t, b, r)'
<1>1. /\ handler[s].at = here /\ handler[s].to \in Seq(Sessions) /\ handler[s].to # <<>>
      /\ Post(Head(handler[s].to), handler[s].message)
  BY BusyIs DEF PostNext, At, Typed, Types, Handlers
<1>2. PICK t \in Sessions, m \in Sendable : t = Head(handler[s].to) /\ m = handler[s].message
  BY <1>1, SaysSendable
<1>3. m.type # "join_response"
  BY <1>1, <1>2 DEF Typed, Purpose
<1>4. m \in Message /\ Send(t, m)
  BY <1>1, <1>2, SendIs DEF Sendable
<1>5. Kept /\ \A u \in Sessions : Seen(u)
  BY <1>3, <1>4, SendKept
<1>6. \A b, r : OpAt(m, b, r) => Received(t, b, r)'
  BY <1>4, SendReceived
<1> QED BY <1>2, <1>5, <1>6

\* A step that answers something else.
LEMMA ReachedReplies ==
    ASSUME ObserverListens, Typed, Listening, Reached, NEW s \in Sessions, NEW m,
           Replies(s, m), UNCHANGED <<kept, runtime>>,
           \A t \in Sessions \ {s} : board'[t] = board[t],
           board'[s] = NoBoard \/ (board'[s] = board[s] /\ handler[s].at \notin Unready),
           handler[s].at \notin {"respond", "collect", "post"}
    PROVE  Reached'
<1>1. m \in Message /\ m.type # "join_response"
  BY DEF Replies, Sendable
<1>2. Send(s, m)
  BY SendIs DEF Replies, Answer
<1>3. Becomes(s, Idle) /\ Idle.at = "idle"
  BY <1>1, AnswerTypes DEF Replies, Idle
<1>4. ~Responding(s)
  BY DEF Responding, At
<1> QED BY <1>1, <1>2, <1>3, <1>4, SendKept, NotCarrying, ReachedQuiet, BoardsAssumption

\* The actions, one kind after the other: each keeps Reached.
LEMMA LeaveReached ==
    ASSUME ObserverListens, Typed, Listening, Reached, NEW s \in Sessions,
           \/ LeaveParticipant(s) \/ ReadRemaining(s) \/ Unsubscribe(s)
           \/ Collect(s, "leave_collect", "farewell") \/ PostNext(s, "farewell")
    PROVE  Reached'
<1>1. /\ handler[s].at \notin {"collect", "post", "respond"}
      /\ kept' = kept /\ board' = board
  BY DEF LeaveParticipant, ReadRemaining, Unsubscribe, Collect, PostNext, At, shared, own
<1>2. Carried(s) /\ ~Responding(s)
  BY <1>1, NotCarrying DEF Responding, At
<1>3. Kept /\ \A t \in Sessions : Seen(t)
  <2>1. CASE PostNext(s, "farewell")
    BY <2>1, PostNextKept
  <2>2. CASE ~PostNext(s, "farewell")
    BY <2>2, SilentKept DEF LeaveParticipant, ReadRemaining, Unsubscribe, Collect, Silent
  <2> QED BY <2>1, <2>2
<1>4. \A b \in Boards : runtime'[b].revision = runtime[b].revision
  <2>1. CASE LeaveParticipant(s)
    BY <2>1 DEF LeaveParticipant, Typed, Types, Runtime
  <2>2. CASE ~LeaveParticipant(s)
    BY <2>2 DEF ReadRemaining, Unsubscribe, Collect, PostNext, shared
  <2> QED BY <2>1, <2>2
<1>5. LeaveParticipant(s) \/ ReadRemaining(s) \/ Unsubscribe(s) => handler[s].at \notin Unready
  BY DEF LeaveParticipant, ReadRemaining, Unsubscribe, At, Unready
<1>6. PICK h : /\ Becomes(s, h) /\ h.at \in Leaving
               /\ h.at \notin Unready => handler[s].at \notin Unready
  <2>1. CASE LeaveParticipant(s)
    BY <1>5, <2>1, LeaveParticipantMoves, RecordIs DEF Leaving
  <2>2. CASE ReadRemaining(s)
    BY <1>5, <2>2, ReadRemainingMoves, RecordIs DEF Leaving
  <2>3. CASE Unsubscribe(s)
    BY <1>5, <2>3, UnsubscribeMoves, RecordIs DEF Leaving
  <2>4. CASE Collect(s, "leave_collect", "farewell")
    BY <2>4, CollectMoves, RecordIs DEF BroadcastPlaces, Leaving, Unready
  <2>5. CASE PostNext(s, "farewell")
    BY <2>5, PostNextMoves, RecordIs DEF Leaving, Unready
  <2> QED BY <2>1, <2>2, <2>3, <2>4, <2>5
<1>7. h.at # "respond"
  BY <1>6 DEF Leaving
<1> QED BY <1>1, <1>2, <1>3, <1>4, <1>6, <1>7, ReachedQuiet

LEMMA LeftReached ==
    ASSUME ObserverListens, Typed, Listening, Reached, NEW s \in Sessions, Left(s)
    PROVE  Reached'
<1>1. /\ \A t \in Sessions \ {s} : board'[t] = board[t]
      /\ board'[s] = NoBoard /\ kept' = kept /\ runtime' = runtime
      /\ handler[s].at \notin {"collect", "post", "respond"}
  BY LeftIs DEF Typed, Types, shared
<1>2. CASE handler[s].request.type = "join" /\ Goto(s, "join") /\ UNCHANGED posts
  <2>1. Becomes(s, Record("join", handler[s].request, handler[s].message, handler[s].to))
    BY <1>2, LeftIs, GotoMoves DEF Typed, Types, Handlers, Places
  <2>2. PICK h : Becomes(s, h) /\ h.at = "join"
    BY <2>1, RecordIs
  <2> QED
    BY <1>1, <1>2, <2>2, SilentKept, NotCarrying, ReachedQuiet, BoardsAssumption
    DEF Silent, Responding, At
<1>3. CASE handler[s].request.type = "hangup" /\ Finish(s) /\ UNCHANGED posts
  <2>1. Becomes(s, Idle) /\ Idle.at = "idle"
    BY <1>3, FinishMoves DEF Typed, Types, Handlers, Idle
  <2> QED
    BY <1>1, <1>3, <2>1, SilentKept, NotCarrying, ReachedQuiet, BoardsAssumption
    DEF Silent, Responding, At
<1>4. CASE Answer(s, LeaveBoardResponse)
  <2>1. Replies(s, LeaveBoardResponse)
    BY <1>4, AnswersSendable DEF Replies
  <2> QED BY <1>1, <2>1, ReachedReplies
<1> QED BY <1>2, <1>3, <1>4, LeftIs

LEMMA RefusalReached ==
    ASSUME ObserverListens, Typed, Listening, Reached, NEW s \in Sessions,
           \/ JoinRefused(s) \/ OperationRejected(s) \/ DeleteRefused(s)
           \/ DeleteLost(s) \/ Deleted(s)
    PROVE  Reached'
<1>1. PICK m : Replies(s, m)
  BY RepliesIs
<1>2. /\ UNCHANGED <<kept, runtime, board>>
      /\ handler[s].at \in {"join", "apply", "delete", "notify"}
  BY DEF JoinRefused, OperationRejected, DeleteRefused, DeleteLost, Deleted, At, shared, own
<1> QED BY <1>1, <1>2, ReachedReplies DEF Unready

\* A step that says nothing, and reads no snapshot.
LEMMA ReachedSilent ==
    ASSUME Typed, Reached, Silent, NEW s \in Sessions, NEW h, Becomes(s, h),
           handler[s].at \notin {"collect", "post", "respond"},
           h.at = "respond" => h.request.type # "join",
           kept' \subseteq kept, \A t \in Sessions \ {s} : board'[t] = board[t],
           \A b \in Boards : runtime'[b].revision = runtime[b].revision,
           h.at \notin Unready => handler[s].at \notin Unready /\ board'[s] = board[s]
    PROVE  Reached'
  BY SilentKept, NotCarrying, ReachedQuiet DEF Responding, At

LEMMA JoinReached ==
    ASSUME ObserverListens, Typed, Listening, Reached, NEW s \in Sessions,
           JoinBoard(s) \/ Subscribe(s) \/ ReadPresent(s)
    PROVE  Reached'
<1>1. CASE JoinBoard(s)
  <2>1. PICK h : Becomes(s, h) /\ h.at = "subscribe"
    BY <1>1, JoinBoardMoves, RecordIs
  <2>2. \A b \in Boards : runtime'[b].revision = runtime[b].revision
    BY <1>1 DEF JoinBoard, Typed, Types, Runtime
  <2>3. \A t \in Sessions \ {s} : board'[t] = board[t]
    BY <1>1 DEF JoinBoard, Typed, Types
  <2>4. Silent /\ kept' = kept /\ handler[s].at = "join"
    BY <1>1 DEF JoinBoard, Silent, At
  <2> QED BY <2>1, <2>2, <2>3, <2>4, ReachedSilent DEF Unready
<1>2. CASE Subscribe(s)
  <2>1. PICK h : Becomes(s, h) /\ h.at = "snapshot"
    BY <1>2, SubscribeMoves, RecordIs
  <2>2. UNCHANGED <<kept, runtime, board>> /\ Silent /\ handler[s].at = "subscribe"
    BY <1>2 DEF Subscribe, Silent, At, own
  <2> QED BY <2>1, <2>2, ReachedSilent DEF Unready
<1>3. CASE ReadPresent(s)
  <2>1. PICK h : Becomes(s, h) /\ h.at = "collect"
    BY <1>3, ReadPresentMoves, RecordIs
  <2>2. UNCHANGED <<kept, runtime, board>> /\ Silent /\ handler[s].at = "present"
    BY <1>3 DEF ReadPresent, Silent, At, own, shared
  <2> QED BY <2>1, <2>2, ReachedSilent DEF Unready
<1> QED BY <1>1, <1>2, <1>3

\* The snapshot has every operation so far.
LEMMA ReadSnapshotReached ==
    ASSUME Typed, Reached, NEW s \in Sessions, ReadSnapshot(s)
    PROVE  Reached'
<1>1. UNCHANGED <<kept, runtime, board>> /\ Silent /\ handler[s].at = "snapshot"
  BY DEF ReadSnapshot, Silent, At, own, shared
<1>2. PICK h : /\ Becomes(s, h) /\ h.at = "respond" /\ h.request = handler[s].request
               /\ h.message = JoinResponse(board[s], runtime[board[s]])
  BY ReadSnapshotMoves, RecordIs
<1>3. h.message.revision = runtime[board[s]].revision /\ h.request.type = "join"
  BY <1>1, <1>2 DEF JoinResponse, Typed, Purpose
<1>4. ASSUME NEW b \in Boards, board'[s] = b, NEW r \in 1 .. runtime[b].revision
      PROVE  Based(s, r)'
  <2>1. runtime[b].revision \in Nat
    BY DEF Typed, Types, Runtime
  <2>2. h.message.revision >= r
    BY <1>1, <1>3, <1>4, <2>1
  <2>3. handler'[s] = h
    BY <1>2 DEF Becomes
  <2> QED BY <1>2, <1>3, <2>2, <2>3 DEF Based, Responding, At
<1>5. Carried(s)
  BY <1>1, NotCarrying
<1>6. \A b \in Boards : \A r \in 1 .. runtime'[b].revision : r \in 1 .. runtime[b].revision
  BY <1>1
<1> QED BY <1>1, <1>2, <1>4, <1>5, <1>6, SilentKept, ReachedMoves

\* The snapshot that is sent is the one that Based speaks of.
LEMMA RespondReached ==
    ASSUME ObserverListens, Typed, Listening, Reached, NEW s \in Sessions, Respond(s)
    PROVE  Reached'
<1>1. /\ handler[s].at = "respond" /\ Post(s, handler[s].message)
      /\ UNCHANGED <<kept, runtime, board>>
  BY DEF Respond, At, shared, own
<1>2. PICK m \in Sendable : m = handler[s].message
  BY <1>1, SaysSendable
<1>3. m \in Message /\ Send(s, m)
  BY <1>1, <1>2, SendIs DEF Sendable
<1>4. m.type = "join_response" <=> Responding(s)
  BY <1>1, <1>2 DEF Typed, Purpose, Responding, At
<1>5. Carried(s)
  BY <1>1, NotCarrying
<1>6. PICK h : Becomes(s, h) /\ h.at \in {"idle", "present"}
  <2>1. CASE handler[s].request.type = "join"
    BY <2>1, RespondMoves, RecordIs
  <2>2. CASE handler[s].request.type # "join"
    BY <2>2, RespondMoves DEF Idle
  <2> QED BY <2>1, <2>2
<1>7. ~Responding(s)'
  BY <1>6 DEF Responding, At, Becomes
<1>8. ASSUME NEW r \in Nat, Based(s, r) PROVE Based(s, r)'
  <2>1. IF m.type = "join_response" THEN m.revision >= r ELSE From(strand[s], client[s], r)
    BY <1>2, <1>4, <1>8 DEF Based
  <2>2. From(strand'[s], client'[s], r)
    BY <1>3, <2>1, SendFrom
  <2> QED BY <1>7, <2>2 DEF Based
<1>9. ASSUME NEW b \in Boards, board'[s] = b, b \in kept', NEW r \in 1 .. runtime[b].revision
      PROVE  Due(s, b) /\ (Based(s, r) => Based(s, r)')
  <2>1. r \in Nat
    OBVIOUS
  <2>2. Due(s, b)
    BY <1>1, <1>9 DEF Due
  <2> QED BY <1>8, <2>1, <2>2
<1>10. \A b \in Boards : \A r \in 1 .. runtime'[b].revision : r \in 1 .. runtime[b].revision
  BY <1>1
<1> QED BY <1>1, <1>3, <1>5, <1>6, <1>9, <1>10, SendKept, ReachedMoves

\* Whoever is to be reached is among the subscribers, and then among the recipients.
LEMMA BroadcastReached ==
    ASSUME ObserverListens, Typed, Present, Listening, Reached, NEW s \in Sessions, Broadcast(s)
    PROVE  Reached'
<1>1. /\ handler[s].at \in {"collect", "post"} /\ handler[s].at \notin Unready
      /\ ~Responding(s) /\ UNCHANGED <<kept, runtime, board>>
  BY DEF Broadcast, Collect, PostNext, At, Responding, Unready, shared, own
<1>2. CASE Collect(s, "collect", "post")
  <2>1. PICK h : /\ Becomes(s, h) /\ h.at = "post" /\ h.message = handler[s].message
                 /\ h.to = subscribers[board[s]]
    BY <1>2, CollectMoves, RecordIs DEF BroadcastPlaces
  <2>2. ASSUME NEW t \in Sessions, NEW b \in Boards, NEW r \in Nat, Due(t, b), Coming(s, t, b, r)
        PROVE  Coming(s, t, b, r)'
    <3>1. handler[s].at = "collect"
      BY <1>2 DEF Collect, At
    <3>2. board[s] = b
      BY <2>2, <3>1 DEF Typed, Purpose, Coming, OpAt
    <3>3. t \in Range(subscribers[b])
      BY <2>2 DEF Due, On, Present, Subscribed, Gone
    <3> QED BY <2>1, <2>2, <3>2, <3>3 DEF Coming, Becomes, At
  <2>3. Carried(s)
    BY <2>2 DEF Carried
  <2>4. Silent
    BY <1>2 DEF Collect, Silent
  <2> QED BY <1>1, <2>1, <2>3, <2>4, SilentKept, ReachedQuiet
<1>3. CASE PostNext(s, "post")
  <2>1. PICK h : /\ Becomes(s, h) /\ h.at = "post" /\ h.message = handler[s].message
                 /\ h.to = Tail(handler[s].to)
    BY <1>3, PostNextMoves, RecordIs
  <2>2. handler[s].to \in Seq(Sessions) /\ handler[s].to # <<>> /\ handler[s].at = "post"
    BY <1>3, BusyIs DEF PostNext, At, Typed, Types, Handlers
  <2>3. Range(handler[s].to) = Range(Tail(handler[s].to)) \cup {Head(handler[s].to)}
    BY <2>2, TailRange
  <2>4. ASSUME NEW t \in Sessions, NEW b \in Boards, NEW r \in Nat, Coming(s, t, b, r)
        PROVE  Coming(s, t, b, r)' \/ Received(t, b, r)'
    <3>1. OpAt(handler[s].message, b, r) /\ t \in Range(handler[s].to)
      BY <2>2, <2>4 DEF Coming, At
    <3>2. CASE t \in Range(Tail(handler[s].to))
      BY <2>1, <3>1, <3>2 DEF Coming, Becomes, At
    <3>3. CASE t = Head(handler[s].to)
      BY <1>3, <3>1, <3>3, PostNextKept
    <3> QED BY <2>3, <3>1, <3>2, <3>3
  <2>5. Carried(s)
    BY <2>4 DEF Carried
  <2> QED BY <1>1, <1>3, <2>1, <2>5, PostNextKept, ReachedQuiet
<1>4. CASE /\ At(s, "post") /\ handler[s].to = <<>>
           /\ Finish(s)
           /\ UNCHANGED <<shared, own, posts>>
  <2>1. Becomes(s, Idle) /\ Idle.at = "idle"
    BY <1>4, BroadcastEndMoves DEF Idle
  <2>2. \A t \in Sessions, b \in Boards, r \in Nat : ~Coming(s, t, b, r)
    <3>1. Range(<<>>) = {}
      BY DEF Range
    <3> QED BY <1>4, <3>1 DEF Coming, At
  <2>3. Carried(s) /\ Silent
    BY <1>4, <2>2 DEF Carried, Silent
  <2> QED BY <1>1, <2>1, <2>3, SilentKept, ReachedQuiet
<1> QED BY <1>2, <1>3, <1>4 DEF Broadcast

\* An operation is on its way from the moment it counts.
LEMMA ApplyReached ==
    ASSUME Typed, Reached, NEW s \in Sessions, ApplyOperation(s)
    PROVE  Reached'
<1>1. /\ handler[s].at = "apply" /\ handler[s].at \notin Unready /\ ~Responding(s)
      /\ UNCHANGED <<kept, board>> /\ Silent
  BY DEF ApplyOperation, At, Responding, Unready, own, Silent
<1>2. board[s] \in Boards /\ handler[s].request.board = board[s]
  BY <1>1, RequestedIs DEF Typed, Purpose
<1>3. PICK b \in Boards, next \in Nat : b = board[s] /\ next = runtime[b].revision + 1
  BY <1>2 DEF Typed, Types, Runtime
<1>4. PICK h : /\ Becomes(s, h) /\ h.at = "collect"
               /\ h.message = OperationApplied(b, next, Identity[s], handler[s].request.command)
  BY <1>3, ApplyOperationMoves, RecordIs
<1>5. PICK x : x = Apply(runtime[b].objects, handler[s].request.command)
  OBVIOUS
<1>6. runtime' = [runtime EXCEPT ![b].revision = next, ![b].objects = x]
  BY <1>2, <1>3, <1>5 DEF ApplyOperation
<1>7. \A c \in Boards : runtime'[c].revision = IF c = b THEN next ELSE runtime[c].revision
  BY <1>6 DEF Typed, Types, Runtime
<1>8. \A t \in Sessions : Coming(s, t, b, next)'
  BY <1>4 DEF Coming, Becomes, At, OpAt, OperationApplied
<1>9. ASSUME NEW c \in Boards, NEW r \in 1 .. runtime'[c].revision
      PROVE  r \in 1 .. runtime[c].revision \/ \A t \in Sessions : Coming(s, t, c, r)'
  <2>1. runtime[c].revision \in Nat
    BY DEF Typed, Types, Runtime
  <2>2. CASE c = b /\ r = next
    BY <1>8, <2>2
  <2>3. CASE ~ (c = b /\ r = next)
    BY <1>3, <1>7, <2>1, <2>3
  <2> QED BY <2>2, <2>3
<1>10. handler'[s] = h
  BY <1>4 DEF Becomes
<1>11. \A r \in Nat : Based(s, r) => Based(s, r)'
  BY <1>1, <1>4, <1>10, SilentKept DEF Based, Seen, Responding, At
<1>12. ASSUME NEW c \in Boards, board'[s] = c, c \in kept', NEW r \in 1 .. runtime[c].revision
       PROVE  Due(s, c) /\ (Based(s, r) => Based(s, r)')
  <2>1. r \in Nat
    OBVIOUS
  <2> QED BY <1>1, <1>11, <1>12, <2>1 DEF Due, Unready
<1>13. Carried(s)
  BY <1>1, NotCarrying
<1> QED BY <1>1, <1>4, <1>9, <1>12, <1>13, SilentKept, ReachedMoves

LEMMA DeleteReached ==
    ASSUME Typed, Reached, NEW s \in Sessions, DeleteRows(s) \/ CloseBoard(s)
    PROVE  Reached'
<1>1. /\ kept' \subseteq kept /\ board' = board /\ Silent
      /\ handler[s].at \in {"delete", "close"}
  BY DEF DeleteRows, CloseBoard, own, Silent, At
<1>2. \A b \in Boards : runtime'[b].revision = runtime[b].revision
  <2>1. CASE DeleteRows(s)
    BY <2>1, RequestedIs DEF DeleteRows, At, Typed, Types, Runtime
  <2>2. CASE CloseBoard(s)
    BY <2>2 DEF CloseBoard
  <2> QED BY <2>1, <2>2
<1>3. PICK h : Becomes(s, h) /\ h.at \in {"close", "notify"}
  BY DeleteRowsMoves, CloseBoardMoves, RecordIs
<1> QED BY <1>1, <1>2, <1>3, ReachedSilent DEF Unready

LEMMA NotifyReached ==
    ASSUME Typed, Reached, NEW s \in Sessions, Notify(s)
    PROVE  Reached'
<1>1. PICK t \in Sessions, b \in Boards :
        /\ t = Head(handler[s].to) /\ b = handler[s].request.board
        /\ strand' = [strand EXCEPT ![t] = Informed(@, t = s, b)]
        /\ UNCHANGED <<shared, own, client>>
        /\ handler[s].at = "notify"
  BY NotifyIs DEF At
<1>2. PICK self \in BOOLEAN : self = (t = s)
  OBVIOUS
<1>3. strand[t] \in Seq(Message)
  BY DEF Typed, Types
<1>4. PICK n \in Message : n = Notice(b) /\ n.type # "join_response"
  BY MessageTypes DEF Notice
<1>5. PICK p \in Seq(Message) : p = Append(strand[t], n)
  <2>1. Append(strand[t], n) \in Seq(Message)
    BY <1>3
  <2> QED BY <2>1
<1>6. PICK d \in Message : d = BoardDeleted(b) /\ d.type # "join_response"
  BY MessageTypes DEF BoardDeleted
<1>7. PICK q \in Seq(Message) : q = Append(p, d)
  <2>1. Append(p, d) \in Seq(Message)
    OBVIOUS
  <2> QED BY <2>1
<1>8. \A u \in Sessions : strand'[u] = IF u # t THEN strand[u] ELSE IF self THEN p ELSE q
  BY <1>1, <1>2, <1>4, <1>5, <1>6, <1>7 DEF Informed, Typed, Types
<1>9. Range(p) = Range(strand[t]) \cup {n} /\ Range(q) = Range(p) \cup {d}
  <2>1. Range(p) = Range(strand[t]) \cup {n}
    BY <1>3, <1>5, AppendRange
  <2>2. Range(q) = Range(p) \cup {d}
    BY <1>7, AppendRange
  <2> QED BY <2>1, <2>2
<1>10. Kept
  BY <1>1, <1>8, <1>9 DEF Kept, Received
<1>11. \A r : From(strand[t], client[t], r) => From(p, client[t], r) /\ From(q, client[t], r)
  BY <1>3, <1>4, <1>5, <1>6, <1>7, AppendFrom
<1>12. \A u \in Sessions : Seen(u)
  BY <1>1, <1>8, <1>11 DEF Seen
<1>13. PICK h : Becomes(s, h) /\ h.at = "notify"
  BY NotifyIs, RecordIs
<1>14. /\ \A c \in Boards : runtime'[c].revision = runtime[c].revision
       /\ kept' = kept /\ board' = board /\ handler[s].at \notin Unready
  BY <1>1 DEF shared, own, Unready
<1> QED
  BY <1>1, <1>10, <1>12, <1>13, <1>14, NotCarrying, ReachedQuiet DEF Responding, At

LEMMA RunPostedReached ==
    ASSUME ObserverListens, Typed, Listening, Reached, NEW s \in Sessions, RunPosted(s)
    PROVE  Reached'
<1>1. PICK m \in Message : m = Head(strand[s])
  BY RunPostedIs
<1>2. /\ strand[s] \in Seq(Message) /\ strand[s] # <<>> /\ handler[s].at = "idle"
      /\ \A t \in Sessions : strand'[t] = IF t = s THEN Tail(strand[s]) ELSE strand[t]
      /\ \A t \in Sessions : board'[t] =
           IF t = s /\ m.type = "notice" /\ board[s] = m.board THEN NoBoard ELSE board[t]
      /\ UNCHANGED <<shared, handler>>
  BY <1>1, RunPostedIs DEF At
<1>3. Range(strand[s]) = Range(Tail(strand[s])) \cup {m}
  BY <1>1, <1>2, TailRange
<1>4. /\ \A t \in Sessions \ {s} : client'[t] = client[t]
      /\ client'[s].revision =
           IF m.type = "join_response" THEN m.revision ELSE client[s].revision
      /\ client'[s].heard = client[s].heard \cup
           (IF m.type = "operation_applied" THEN {<<m.board, m.revision>>} ELSE {})
  <2>1. CASE m.type = "notice"
    BY <1>1, <2>1 DEF RunPosted
  <2>2. CASE m.type # "notice"
    <3>1. m \in Tellable /\ Tell(s, m)
      BY <1>1, <1>3, <2>2 DEF RunPosted, Tellable, Listening
    <3> QED BY <3>1, TellIs DEF Listening, Told
  <2> QED BY <2>1, <2>2
<1>5. Kept
  <2>1. ASSUME NEW b \in Boards, NEW r \in Nat, Received(s, b, r) PROVE Received(s, b, r)'
    BY <1>2, <1>3, <1>4, <2>1 DEF Received, OpAt
  <2>2. \A t \in Sessions \ {s}, b \in Boards, r \in Nat : Received(t, b, r) => Received(t, b, r)'
    BY <1>2, <1>4 DEF Received
  <2> QED BY <2>1, <2>2 DEF Kept
<1>6. \A t \in Sessions : Seen(t)
  BY <1>1, <1>2, <1>4, TailFrom DEF Seen
<1>7. PICK h : h = handler[s] /\ Becomes(s, h) /\ h.at = "idle"
  BY <1>2 DEF Becomes, Typed, Types, Handlers
<1>8. \A b \in Boards : board'[s] = b => board[s] = b
  BY <1>2, BoardsAssumption
<1> QED
  BY <1>2, <1>5, <1>6, <1>7, <1>8, NotCarrying, ReachedQuiet
  DEF Responding, At, Unready, shared

LEMMA RequestReached ==
    ASSUME Typed, Reached, NEW s \in Sessions,
           (\E r \in Requests : Receive(s, r)) \/ Disconnect(s)
    PROVE  Reached'
<1>1. /\ handler[s].at = "idle" /\ UNCHANGED <<kept, runtime, board>> /\ Silent
  BY DEF Receive, Accept, Disconnect, At, posts, Silent, shared
<1>2. PICK h : Becomes(s, h) /\ (h.at = "respond" => h.request.type # "join")
  <2>1. ASSUME NEW r \in Requests, Receive(s, r)
        PROVE  \E h : Becomes(s, h) /\ (h.at = "respond" => h.request.type # "join")
    BY <2>1, DispatchMoves, RequestsAre, RecordIs DEF Receive, Accept
  <2>2. CASE Disconnect(s)
    <3>1. CASE board[s] = NoBoard
      <4>1. handler' = handler
        BY <2>2, <3>1 DEF Disconnect
      <4> QED BY <1>1, <4>1 DEF Becomes, Typed, Types, Handlers
    <3>2. CASE board[s] # NoBoard
      <4>1. Becomes(s, Record("leave", Hangup, [type |-> "none"], <<>>))
        BY <2>2, <3>2, BeginMoves DEF Disconnect, Typed, Types, Handlers, Places
      <4> QED BY <4>1, RecordIs
    <3> QED BY <3>1, <3>2
  <2> QED BY <2>1, <2>2
<1> QED BY <1>1, <1>2, ReachedSilent DEF Unready

LEMMA ExpireReached ==
    ASSUME Typed, Reached, NEW s \in Sessions, Expire(s)
    PROVE  Reached'
<1>1. /\ handler[s].at = "idle" /\ handler' = handler /\ UNCHANGED <<kept, runtime>>
      /\ board'[s] = NoBoard /\ \A t \in Sessions \ {s} : board'[t] = board[t]
      /\ Silent
  BY ExpireIs DEF Expire, At, Silent, Typed, Types
<1>2. PICK h : h = handler[s] /\ Becomes(s, h)
  BY <1>1 DEF Becomes, Typed, Types, Handlers
<1> QED
  BY <1>1, <1>2, BoardsAssumption, SilentKept, NotCarrying, ReachedQuiet
  DEF Responding, At

\* Every step keeps every operation among what is, or is going to be, received.
LEMMA StepReached ==
    ASSUME ObserverListens, Typed, Present, Listening, Reached, Next
    PROVE  Reached'
<1>1. PICK s \in Sessions :
        (\E r \in Requests : Receive(s, r)) \/ Disconnect(s) \/ Expire(s) \/ Step(s)
  BY DEF Next
<1>2. CASE (\E r \in Requests : Receive(s, r)) \/ Disconnect(s)
  BY <1>2, RequestReached
<1>9. CASE Expire(s)
  BY <1>9, ExpireReached
<1>3. CASE Leave(s)
  BY <1>3, LeaveReached, LeftReached DEF Leave
<1>4. CASE Join(s)
  BY <1>4, RefusalReached, JoinReached, ReadSnapshotReached, RespondReached DEF Join
<1>5. CASE Broadcast(s)
  BY <1>5, BroadcastReached
<1>6. CASE ApplyOperation(s) \/ OperationRejected(s)
  BY <1>6, ApplyReached, RefusalReached
<1>7. CASE Delete(s)
  BY <1>7, RefusalReached, DeleteReached, NotifyReached DEF Delete
<1>8. CASE RunPosted(s)
  BY <1>8, RunPostedReached
<1> QED BY <1>1, <1>2, <1>3, <1>4, <1>5, <1>6, <1>7, <1>8, <1>9 DEF Step

\* Every operation on a board reaches every session on it, in the snapshot that
\* handle_join_board answered or as an operation_applied: the session subscribes
\* before the snapshot is read, and the broadcast collects its recipients after the
\* objects were changed.
THEOREM NothingIsLost ==
    ASSUME ObserverListens
    PROVE  Spec => []NoneLost
<1>1. ASSUME Reached, UNCHANGED vars PROVE Reached'
  BY <1>1 DEF vars, Reached, Due, Covered, Received, Coming, Based, Responding, At
<1>2. Typed /\ Present /\ Listening /\ Reached /\ [Next]_vars => Reached'
  BY <1>1, StepReached
<1>3. Init => Reached
  BY BoardsAssumption DEF Init, Reached, Due
<1>4. Typed /\ Present /\ Listening /\ Reached => NoneLost
  <2> SUFFICES ASSUME Typed, Present, Listening, Reached, AtRest, NEW s \in Sessions,
                      board[s] # NoBoard,
                      NEW r \in (client[s].revision + 1) .. runtime[board[s]].revision
               PROVE  <<board[s], r>> \in client[s].heard
    BY DEF NoneLost
  <2>1. PICK b \in Boards : b = board[s]
    BY DEF Typed, Types
  <2>2. \A e \in Sessions : handler[e].at = "idle" /\ strand[e] = <<>>
    BY DEF AtRest, At
  <2>3. client[s].revision \in Nat /\ runtime[b].revision \in Nat
    BY DEF Listening, Clients, Typed, Types, Runtime
  <2>4. r \in 1 .. runtime[b].revision /\ ~ (client[s].revision >= r)
    BY <2>1, <2>3
  <2>5. b \in kept
    <3>1. b \notin kept => Members(b) = {}
      BY RestIs
    <3>2. s \in Members(b)
      BY <2>1 DEF Members
    <3> QED BY <3>1, <3>2
  <2>6. Covered(s, b, r)
    BY <2>1, <2>2, <2>4, <2>5 DEF Reached, Due
  <2>7. ~Based(s, r)
    <3>1. \A i \in 1 .. Len(<<>>) : FALSE
      OBVIOUS
    <3>2. ~From(<<>>, client[s], r)
      BY <2>4, <3>1 DEF From
    <3> QED BY <2>2, <3>2 DEF Based, Responding, At
  <2>8. \A e \in Sessions : ~Coming(e, s, b, r)
    BY <2>2 DEF Coming, At
  <2>9. Range(<<>>) = {}
    BY DEF Range
  <2> QED BY <2>1, <2>2, <2>6, <2>7, <2>8, <2>9 DEF Covered, Received
<1> QED BY <1>2, <1>3, <1>4, TypedInvariant, PresentInvariant, ListeningInvariant, PTL DEF Spec

-----------------------------------------------------------------------------
(* Replies *)

One(s, m) == IF IsReply(s, m) THEN 1 ELSE 0

\* The replies to s among q.
Waiting(s, q) == {i \in 1 .. Len(q) : IsReply(s, q[i])}

\* How many replies s was given, delivered or not.
Given(s) == client[s].replies + Cardinality(Waiting(s, strand[s]))

\* The replies of a strand can be counted.
LEMMA WaitingFinite ==
    ASSUME NEW s, NEW q \in Seq(Message)
    PROVE  IsFiniteSet(Waiting(s, q)) /\ Cardinality(Waiting(s, q)) \in Nat
<1>1. Len(q) \in Nat /\ IsFiniteSet(1 .. Len(q))
  BY FS_Interval
<1>2. Waiting(s, q) \in SUBSET (1 .. Len(q))
  BY DEF Waiting
<1> QED BY <1>1, <1>2, FS_Subset, FS_CardinalityType

\* There are none on an empty strand.
LEMMA NobodyWaits ==
    ASSUME NEW s
    PROVE  Cardinality(Waiting(s, <<>>)) = 0
<1>1. Waiting(s, <<>>) = {}
  BY DEF Waiting
<1> QED BY <1>1, FS_EmptySet

\* One message more.
LEMMA AppendWaiting ==
    ASSUME NEW s, NEW q \in Seq(Message), NEW m \in Message
    PROVE  Cardinality(Waiting(s, Append(q, m))) = Cardinality(Waiting(s, q)) + One(s, m)
<1>1. PICK a : a = Append(q, m)
  OBVIOUS
<1>2. /\ Len(a) = Len(q) + 1 /\ Len(q) \in Nat
      /\ \A i \in 1 .. Len(q) : a[i] = q[i]
      /\ a[Len(q) + 1] = m
  BY <1>1, AppendProperties
<1>3. CASE IsReply(s, m)
  <2>1. Waiting(s, a) = Waiting(s, q) \cup {Len(q) + 1}
    BY <1>2, <1>3 DEF Waiting
  <2>2. Len(q) + 1 \notin Waiting(s, q)
    BY <1>2 DEF Waiting
  <2> QED BY <1>1, <1>3, <2>1, <2>2, WaitingFinite, FS_AddElement DEF One
<1>4. CASE ~IsReply(s, m)
  <2>1. Waiting(s, a) = Waiting(s, q)
    BY <1>2, <1>4 DEF Waiting
  <2> QED BY <1>1, <1>4, <2>1, WaitingFinite DEF One
<1> QED BY <1>3, <1>4

\* One message less.
LEMMA TailWaiting ==
    ASSUME NEW s, NEW q \in Seq(Message), q # <<>>
    PROVE  Cardinality(Waiting(s, q)) = Cardinality(Waiting(s, Tail(q))) + One(s, Head(q))
<1>1. PICK a : a = Tail(q)
  OBVIOUS
<1>2. /\ a \in Seq(Message) /\ Len(a) = Len(q) - 1 /\ Len(q) \in Nat \ {0}
      /\ \A i \in 1 .. Len(a) : a[i] = q[i + 1]
      /\ Head(q) = q[1]
  BY <1>1, HeadTailProperties
<1>3. PICK rest : rest = Waiting(s, q) \ {1}
  OBVIOUS
<1>4. PICK next : next = [i \in Waiting(s, a) |-> i + 1]
  OBVIOUS
<1>5. next \in Bijection(Waiting(s, a), rest)
  <2>1. ASSUME NEW i \in Waiting(s, a) PROVE i \in Nat /\ i + 1 \in rest
    BY <1>2, <1>3 DEF Waiting
  <2>2. next \in [Waiting(s, a) -> rest]
    BY <1>4, <2>1
  <2>3. \A i, j \in Waiting(s, a) : next[i] = next[j] => i = j
    BY <1>4, <2>1
  <2>4. ASSUME NEW j \in rest PROVE \E i \in Waiting(s, a) : next[i] = j
    <3>1. j \in 1 .. Len(q) /\ j # 1 /\ IsReply(s, q[j])
      BY <1>3 DEF Waiting
    <3>2. j - 1 \in 1 .. Len(a) /\ (j - 1) + 1 = j
      BY <1>2, <3>1
    <3>3. j - 1 \in Waiting(s, a)
      BY <1>2, <3>1, <3>2 DEF Waiting
    <3> QED BY <1>4, <3>2, <3>3
  <2> QED BY <2>2, <2>3, <2>4 DEF Bijection, Injection, Surjection, IsInjective
<1>6. Cardinality(rest) = Cardinality(Waiting(s, a))
  BY <1>2, <1>5, WaitingFinite, FS_Bijection DEF ExistsBijection
<1>7. 1 \in Waiting(s, q) <=> IsReply(s, Head(q))
  BY <1>2 DEF Waiting
<1>8. Cardinality(rest) =
        IF 1 \in Waiting(s, q) THEN Cardinality(Waiting(s, q)) - 1 ELSE Cardinality(Waiting(s, q))
  BY <1>3, WaitingFinite, FS_RemoveElement
<1>9. Cardinality(Waiting(s, q)) \in Nat
  BY WaitingFinite
<1> QED BY <1>1, <1>6, <1>7, <1>8, <1>9 DEF One

\* The counts are numbers.
LEMMA GivenType ==
    ASSUME Typed, Listening, NEW s \in Sessions
    PROVE  /\ Given(s) \in Nat /\ client[s].replies \in Nat
           /\ Cardinality(Waiting(s, strand[s])) \in Nat
<1>1. client[s].replies \in Nat /\ strand[s] \in Seq(Message)
  BY DEF Listening, Clients, Typed, Types
<1> QED BY <1>1, WaitingFinite DEF Given

\* Silence gives no reply.
LEMMA SilentGiven ==
    ASSUME Silent
    PROVE  \A t \in Sessions : Given(t)' = Given(t)
  BY DEF Silent, posts, Given

\* A message is a reply or not.
LEMMA SendGiven ==
    ASSUME Typed, Listening, NEW s \in Sessions, NEW m \in Message, Send(s, m)
    PROVE  /\ Given(s)' = Given(s) + One(s, m)
           /\ \A t \in Sessions \ {s} : Given(t)' = Given(t)
<1>1. /\ client[s].replies \in Nat /\ One(s, m) \in {0, 1}
      /\ Cardinality(Waiting(s, strand[s])) \in Nat
  BY GivenType DEF One
<1>2. CASE /\ strand' = strand /\ Told(s, client[s], m, client'[s])
  <2>1. client'[s].replies = client[s].replies + One(s, m)
    BY <1>2 DEF Told, One
  <2>2. Given(s)' = Given(s) + One(s, m)
    BY <1>1, <1>2, <2>1 DEF Given
  <2> QED BY <2>2, SendLast DEF Given
<1>3. CASE client' = client /\ strand' = [strand EXCEPT ![s] = Append(@, m)]
  <2>1. strand[s] \in Seq(Message)
    BY DEF Typed, Types
  <2>2. PICK q : q = Append(strand[s], m)
    OBVIOUS
  <2>3. strand'[s] = q
    BY <1>3, <2>2 DEF Typed, Types
  <2>4. Cardinality(Waiting(s, q)) = Cardinality(Waiting(s, strand[s])) + One(s, m)
    BY <2>1, <2>2, AppendWaiting
  <2>5. /\ Cardinality(Waiting(s, strand'[s])) = Cardinality(Waiting(s, strand[s])) + One(s, m)
        /\ client'[s].replies = client[s].replies
    BY <1>3, <2>3, <2>4
  <2>6. Given(s)' = Given(s) + One(s, m)
    BY <1>1, <2>5 DEF Given
  <2> QED BY <2>6, SendLast DEF Given
<1> QED BY <1>2, <1>3 DEF Send

\* Notices and deletions are no replies.
LEMMA NotifyGiven ==
    ASSUME Typed, Listening, NEW s \in Sessions, Notify(s)
    PROVE  \A u \in Sessions : Given(u)' = Given(u)
<1>1. PICK t \in Sessions, b \in Boards :
        /\ strand' = [strand EXCEPT ![t] = Informed(@, t = s, b)]
        /\ client' = client
  BY NotifyIs
<1>2. PICK self \in BOOLEAN : self = (t = s)
  OBVIOUS
<1>3. strand[t] \in Seq(Message)
  BY DEF Typed, Types
<1>4. PICK n \in Message : n = Notice(b) /\ ~IsReply(t, n)
  BY MessageTypes DEF Notice, IsReply, Answers
<1>5. PICK p \in Seq(Message) : p = Append(strand[t], n)
  <2>1. Append(strand[t], n) \in Seq(Message)
    BY <1>3
  <2> QED BY <2>1
<1>6. PICK d \in Message : d = BoardDeleted(b) /\ ~IsReply(t, d)
  BY MessageTypes DEF BoardDeleted, IsReply, Answers
<1>7. PICK q : q = Append(p, d)
  OBVIOUS
<1>8. \A u \in Sessions : strand'[u] = IF u # t THEN strand[u] ELSE IF self THEN p ELSE q
  BY <1>1, <1>2, <1>4, <1>5, <1>6, <1>7 DEF Informed, Typed, Types
<1>9. Cardinality(Waiting(t, p)) = Cardinality(Waiting(t, strand[t]))
  BY <1>3, <1>4, <1>5, AppendWaiting, WaitingFinite DEF One
<1>10. Cardinality(Waiting(t, q)) = Cardinality(Waiting(t, strand[t]))
  BY <1>6, <1>7, <1>9, AppendWaiting, WaitingFinite DEF One
<1>11. Cardinality(Waiting(t, strand'[t])) = Cardinality(Waiting(t, strand[t]))
  BY <1>8, <1>9, <1>10
<1> QED BY <1>1, <1>8, <1>11 DEF Given

\* A reply that is delivered was given before.
LEMMA RunPostedGiven ==
    ASSUME ObserverListens, Typed, Listening, NEW s \in Sessions, RunPosted(s)
    PROVE  \A u \in Sessions : Given(u)' = Given(u)
<1>1. PICK m \in Message : m = Head(strand[s])
  BY RunPostedIs
<1>2. /\ strand[s] \in Seq(Message) /\ strand[s] # <<>>
      /\ \A t \in Sessions : strand'[t] = IF t = s THEN Tail(strand[s]) ELSE strand[t]
  BY RunPostedIs
<1>3. m \in Range(strand[s])
  BY <1>1, <1>2, TailRange
<1>4. /\ \A t \in Sessions \ {s} : client'[t] = client[t]
      /\ client'[s].replies = client[s].replies + One(s, m)
  <2>1. CASE m.type = "notice"
    <3>1. One(s, m) = 0
      BY <2>1 DEF One, IsReply, Answers
    <3>2. client' = client
      BY <1>1, <2>1 DEF RunPosted
    <3> QED BY <3>1, <3>2, GivenType
  <2>2. CASE m.type # "notice"
    <3>1. m \in Tellable /\ Tell(s, m)
      BY <1>1, <1>3, <2>2 DEF RunPosted, Tellable, Listening
    <3> QED BY <3>1, TellIs DEF Listening, Told, One
  <2> QED BY <2>1, <2>2
<1>5. /\ Cardinality(Waiting(s, strand[s])) = Cardinality(Waiting(s, Tail(strand[s]))) + One(s, m)
      /\ Tail(strand[s]) \in Seq(Message)
  BY <1>1, <1>2, TailWaiting
<1>6. /\ Cardinality(Waiting(s, Tail(strand[s]))) \in Nat /\ client[s].replies \in Nat
      /\ One(s, m) \in {0, 1}
  BY <1>5, WaitingFinite, GivenType DEF One
<1>7. strand'[s] = Tail(strand[s])
  BY <1>2
<1>8. Given(s)' = Given(s)
  BY <1>4, <1>5, <1>6, <1>7 DEF Given
<1>9. \A t \in Sessions \ {s} : Given(t)' = Given(t)
  BY <1>2, <1>4 DEF Given
<1> QED BY <1>8, <1>9

\* The handler h of s still has to answer.
Owes(s, h) ==
    \/ h.at \in Leaving /\ h.request.type # "hangup"
    \/ h.at \in {"join", "subscribe", "snapshot", "respond", "apply", "delete", "close",
                 "notify"}
    \/ h.at = "collect" /\ h.request.type = "operation"
    \/ h.at = "post" /\ h.request.type = "operation" /\ s \in Range(h.to)

Owed(s, h) == IF Owes(s, h) THEN 1 ELSE 0

\* Whoever is not owed a reply has as many as he asked for; and a broadcast reaches
\* nobody twice.
Counted ==
    IsInjective(Identity) =>
        \A s \in Sessions : /\ Given(s) + Owed(s, handler[s]) = asked[s]
                            /\ At(s, "post") => IsInjective(handler[s].to)

\* A handler moves, and its balance is kept.
LEMMA CountedMoves ==
    ASSUME IsInjective(Identity), Counted, NEW s \in Sessions, NEW h, Becomes(s, h),
           \A t \in Sessions \ {s} : Given(t)' = Given(t) /\ asked'[t] = asked[t],
           Given(s)' + Owed(s, h) = asked'[s],
           h.at = "post" => IsInjective(h.to)
    PROVE  Counted'
<1>1. handler'[s] = h /\ \A t \in Sessions \ {s} : handler'[t] = handler[t]
  BY DEF Becomes
<1>2. ASSUME NEW t \in Sessions \ {s}
      PROVE  /\ Given(t)' + Owed(t, handler'[t]) = asked'[t]
             /\ handler'[t].at = "post" => IsInjective(handler'[t].to)
  <2>1. handler'[t] = handler[t] /\ Given(t)' = Given(t) /\ asked'[t] = asked[t]
    BY <1>1, <1>2
  <2>2. /\ Given(t) + Owed(t, handler[t]) = asked[t]
        /\ handler[t].at = "post" => IsInjective(handler[t].to)
    BY DEF Counted, At
  <2> QED BY <2>1, <2>2
<1>3. /\ Given(s)' + Owed(s, handler'[s]) = asked'[s]
      /\ handler'[s].at = "post" => IsInjective(handler'[s].to)
  BY <1>1
<1>4. \A t \in Sessions : /\ Given(t)' + Owed(t, handler'[t]) = asked'[t]
                          /\ handler'[t].at = "post" => IsInjective(handler'[t].to)
  BY <1>2, <1>3
<1> QED BY <1>4 DEF Counted, At

\* A step that gives no reply, and owes as much as before.
LEMMA CountedSame ==
    ASSUME IsInjective(Identity), Counted, NEW s \in Sessions, NEW h, Becomes(s, h),
           \A t \in Sessions : Given(t)' = Given(t), UNCHANGED asked,
           Owes(s, h) <=> Owes(s, handler[s]),
           h.at = "post" => IsInjective(h.to)
    PROVE  Counted'
<1>1. Given(s)' = Given(s) /\ asked' = asked /\ Owed(s, h) = Owed(s, handler[s])
  BY DEF Owed
<1>2. Given(s) + Owed(s, handler[s]) = asked[s]
  BY DEF Counted
<1>3. Given(s)' + Owed(s, h) = asked'[s]
  BY <1>1, <1>2
<1> QED BY <1>1, <1>3, CountedMoves

\* A step that gives the reply that was owed.
LEMMA CountedReply ==
    ASSUME IsInjective(Identity), Typed, Listening, Counted, NEW s \in Sessions,
           NEW h, Becomes(s, h), NEW m \in Message, Send(s, m), IsReply(s, m),
           UNCHANGED asked, Owes(s, handler[s]), ~Owes(s, h),
           h.at = "post" => IsInjective(h.to)
    PROVE  Counted'
<1>1. Given(s)' = Given(s) + 1 /\ \A t \in Sessions \ {s} : Given(t)' = Given(t)
  BY SendGiven DEF One
<1>2. Given(s) + 1 = asked[s]
  BY DEF Counted, Owed
<1>3. asked[s] \in Nat
  BY BoundAssumption DEF Typed, Types
<1>4. Given(s)' + Owed(s, h) = asked'[s]
  BY <1>1, <1>2, <1>3 DEF Owed
<1> QED BY <1>1, <1>4, CountedMoves

\* The reply that was owed is given, and the handler is done.
LEMMA RepliesCounted ==
    ASSUME ObserverListens, IsInjective(Identity), Typed, Listening, Counted,
           NEW s \in Sessions, NEW m, Replies(s, m), UNCHANGED asked, Owes(s, handler[s])
    PROVE  Counted'
<1>1. m \in Message /\ IsReply(s, m)
  BY DEF Replies, Sendable, IsReply, Answers
<1>2. Send(s, m)
  BY SendIs DEF Replies, Answer
<1>3. Becomes(s, Idle) /\ Idle.at = "idle"
  BY <1>1, AnswerTypes DEF Replies, Idle
<1>4. ~Owes(s, Idle)
  BY <1>3 DEF Owes, Leaving
<1> QED BY <1>1, <1>2, <1>3, <1>4, CountedReply

\* A broadcast is a reply to its author, if it is an operation.
LEMMA PostNextGiven ==
    ASSUME ObserverListens, IsInjective(Identity), Typed, Listening,
           NEW s \in Sessions, NEW here \in {"post", "farewell"}, PostNext(s, here)
    PROVE  /\ \A t \in Sessions \ {s} : Given(t)' = Given(t)
           /\ Given(s)' = Given(s) +
                (IF /\ here = "post" /\ handler[s].request.type = "operation"
                    /\ Head(handler[s].to) = s
                   THEN 1 ELSE 0)
<1>1. /\ handler[s].at = here /\ handler[s].to \in Seq(Sessions) /\ handler[s].to # <<>>
      /\ Post(Head(handler[s].to), handler[s].message)
  BY BusyIs DEF PostNext, At, Typed, Types, Handlers
<1>2. PICK t \in Sessions, m \in Sendable : t = Head(handler[s].to) /\ m = handler[s].message
  BY <1>1, SaysSendable
<1>3. m \in Message /\ Send(t, m)
  BY <1>1, <1>2, SendIs DEF Sendable
<1>4. IsReply(t, m) <=> here = "post" /\ handler[s].request.type = "operation" /\ t = s
  <2>1. Purpose(s)
    BY DEF Typed
  <2>2. CASE here = "farewell"
    <3>1. m.type = "presence_update"
      BY <1>1, <1>2, <2>1, <2>2 DEF Purpose
    <3> QED BY <2>2, <3>1 DEF IsReply, Answers
  <2>3. CASE here = "post"
    <3>1. handler[s].request.type \in {"join", "operation"}
      BY <1>1, <2>1, <2>3 DEF Purpose
    <3>2. CASE handler[s].request.type = "join"
      <4>1. m.type = "presence_update"
        BY <1>1, <1>2, <2>1, <2>3, <3>2 DEF Purpose
      <4> QED BY <3>2, <4>1 DEF IsReply, Answers
    <3>3. CASE handler[s].request.type = "operation"
      <4>1. m.type = "operation_applied" /\ m.actor = Identity[s]
        BY <1>1, <1>2, <2>1, <2>3, <3>3 DEF Purpose
      <4>2. Identity[s] = Identity[t] <=> s = t
        BY IdentityAssumption DEF IsInjective
      <4> QED BY <2>3, <3>3, <4>1, <4>2 DEF IsReply, Answers
    <3> QED BY <3>1, <3>2, <3>3
  <2> QED BY <2>2, <2>3
<1>5. /\ Given(t)' = Given(t) + One(t, m)
      /\ \A u \in Sessions \ {t} : Given(u)' = Given(u)
  BY <1>3, SendGiven
<1>6. Given(s) \in Nat /\ Given(t) \in Nat
  BY GivenType
<1>7. CASE t = s
  BY <1>2, <1>4, <1>5, <1>7 DEF One
<1>8. CASE t # s
  <2>1. One(t, m) = 0
    BY <1>4, <1>8 DEF One
  <2>2. \A u \in Sessions : Given(u)' = Given(u)
    BY <1>5, <1>6, <2>1
  <2> QED BY <1>2, <1>6, <1>8, <2>2
<1> QED BY <1>7, <1>8

\* A sequence without repetitions has its head once.
LEMMA TailInjective ==
    ASSUME NEW S, NEW q \in Seq(S), q # <<>>, IsInjective(q)
    PROVE  IsInjective(Tail(q)) /\ Head(q) \notin Range(Tail(q))
<1>1. PICK a : a = Tail(q)
  OBVIOUS
<1>2. /\ DOMAIN a = 1 .. Len(q) - 1 /\ Len(q) \in Nat \ {0} /\ DOMAIN q = 1 .. Len(q)
      /\ \A i \in 1 .. Len(q) - 1 : a[i] = q[i + 1]
      /\ Head(q) = q[1]
  <2>1. /\ a \in Seq(S) /\ Len(a) = Len(q) - 1 /\ Len(q) \in Nat \ {0}
        /\ \A i \in 1 .. Len(a) : a[i] = q[i + 1]
        /\ Head(q) = q[1]
    BY <1>1, HeadTailProperties
  <2> QED BY <2>1
<1>3. \A i, j \in 1 .. Len(q) : q[i] = q[j] => i = j
  BY <1>2 DEF IsInjective
<1>4. \A i \in 1 .. Len(q) - 1 : i + 1 \in 1 .. Len(q) /\ i + 1 # 1 /\ 1 \in 1 .. Len(q)
  BY <1>2
<1>5. \A i, j \in 1 .. Len(q) - 1 : a[i] = a[j] => i = j
  <2>1. ASSUME NEW i \in 1 .. Len(q) - 1, NEW j \in 1 .. Len(q) - 1, a[i] = a[j]
        PROVE  i = j
    <3>1. i + 1 = j + 1
      BY <1>2, <1>3, <1>4, <2>1
    <3> QED BY <3>1
  <2> QED BY <2>1
<1>6. IsInjective(a)
  BY <1>2, <1>5 DEF IsInjective
<1>7. \A i \in 1 .. Len(q) - 1 : a[i] # q[1]
  BY <1>2, <1>3, <1>4
<1> QED BY <1>1, <1>2, <1>6, <1>7 DEF Range

\* The actions, one kind after the other: each keeps Counted.
LEMMA LeaveCounted ==
    ASSUME ObserverListens, IsInjective(Identity), Typed, Listening, Counted,
           NEW s \in Sessions,
           \/ LeaveParticipant(s) \/ ReadRemaining(s) \/ Unsubscribe(s)
           \/ Collect(s, "leave_collect", "farewell") \/ PostNext(s, "farewell")
    PROVE  Counted'
<1>1. PICK place, m, to :
        place \in Leaving /\ Becomes(s, Record(place, handler[s].request, m, to))
  BY LeaveParticipantMoves, ReadRemainingMoves, UnsubscribeMoves, CollectMoves, PostNextMoves
  DEF Leaving, BroadcastPlaces
<1>2. PICK h : Becomes(s, h) /\ h.at \in Leaving /\ h.request = handler[s].request
  BY <1>1, RecordIs
<1>3. handler[s].at \in Leaving /\ UNCHANGED own
  BY DEF LeaveParticipant, ReadRemaining, Unsubscribe, Collect, PostNext, At, Leaving, own
<1>4. \A t \in Sessions : Given(t)' = Given(t)
  <2>1. CASE PostNext(s, "farewell")
    BY <2>1, PostNextGiven, GivenType
  <2>2. CASE ~PostNext(s, "farewell")
    BY <2>2, SilentGiven DEF LeaveParticipant, ReadRemaining, Unsubscribe, Collect, Silent
  <2> QED BY <2>1, <2>2
<1>5. (Owes(s, h) <=> Owes(s, handler[s])) /\ h.at # "post"
  BY <1>2, <1>3 DEF Owes, Leaving
<1> QED BY <1>2, <1>3, <1>4, <1>5, CountedSame DEF own

LEMMA LeftCounted ==
    ASSUME ObserverListens, IsInjective(Identity), Typed, Listening, Counted,
           NEW s \in Sessions, Left(s)
    PROVE  Counted'
<1>1. handler[s].at = "farewell" /\ asked' = asked
  BY LeftIs
<1>2. CASE handler[s].request.type = "join" /\ Goto(s, "join") /\ UNCHANGED posts
  <2>1. Becomes(s, Record("join", handler[s].request, handler[s].message, handler[s].to))
    BY <1>1, <1>2, GotoMoves DEF Typed, Types, Handlers, Places
  <2>2. PICK h : Becomes(s, h) /\ h.at = "join"
    BY <2>1, RecordIs
  <2>3. Owes(s, h) /\ Owes(s, handler[s])
    BY <1>1, <1>2, <2>2 DEF Owes, Leaving
  <2> QED BY <1>1, <1>2, <2>2, <2>3, SilentGiven, CountedSame DEF Silent
<1>3. CASE handler[s].request.type = "leave" /\ Answer(s, LeaveBoardResponse)
  <2>1. Replies(s, LeaveBoardResponse)
    BY <1>3, AnswersSendable DEF Replies
  <2>2. Owes(s, handler[s])
    BY <1>1, <1>3 DEF Owes, Leaving
  <2> QED BY <1>1, <2>1, <2>2, RepliesCounted
<1>4. CASE handler[s].request.type = "hangup" /\ Finish(s) /\ UNCHANGED posts
  <2>1. Becomes(s, Idle) /\ Idle.at = "idle"
    BY <1>4, FinishMoves DEF Typed, Types, Handlers, Idle
  <2>2. ~Owes(s, Idle) /\ ~Owes(s, handler[s])
    BY <1>1, <1>4, <2>1 DEF Owes, Leaving
  <2> QED BY <1>1, <1>4, <2>1, <2>2, SilentGiven, CountedSame DEF Silent
<1> QED BY <1>2, <1>3, <1>4, LeftIs

LEMMA RefusalCounted ==
    ASSUME ObserverListens, IsInjective(Identity), Typed, Listening, Counted,
           NEW s \in Sessions,
           \/ JoinRefused(s) \/ OperationRejected(s) \/ DeleteRefused(s)
           \/ DeleteLost(s) \/ Deleted(s)
    PROVE  Counted'
<1>1. PICK m : Replies(s, m)
  BY RepliesIs
<1>2. asked' = asked /\ handler[s].at \in {"join", "apply", "delete", "notify"}
  BY DEF JoinRefused, OperationRejected, DeleteRefused, DeleteLost, Deleted, At, own
<1>3. Owes(s, handler[s])
  BY <1>2 DEF Owes
<1> QED BY <1>1, <1>2, <1>3, RepliesCounted

LEMMA RespondCounted ==
    ASSUME ObserverListens, IsInjective(Identity), Typed, Listening, Counted,
           NEW s \in Sessions, Respond(s)
    PROVE  Counted'
<1>1. handler[s].at = "respond" /\ Post(s, handler[s].message) /\ asked' = asked
  BY DEF Respond, At, own
<1>2. PICK m \in Sendable : m = handler[s].message
  BY <1>1, SaysSendable
<1>3. m \in Message /\ Send(s, m)
  BY <1>1, <1>2, SendIs DEF Sendable
<1>4. IsReply(s, m)
  BY <1>1, <1>2 DEF Typed, Purpose, IsReply, Answers
<1>5. PICK h : Becomes(s, h) /\ h.at \in {"idle", "present"}
  <2>1. CASE handler[s].request.type = "join"
    BY <2>1, RespondMoves, RecordIs
  <2>2. CASE handler[s].request.type # "join"
    BY <2>2, RespondMoves DEF Idle
  <2> QED BY <2>1, <2>2
<1>6. Owes(s, handler[s]) /\ ~Owes(s, h)
  BY <1>1, <1>5 DEF Owes, Leaving
<1> QED BY <1>1, <1>3, <1>4, <1>5, <1>6, CountedReply

LEMMA JoinCounted ==
    ASSUME ObserverListens, IsInjective(Identity), Typed, Listening, Counted,
           NEW s \in Sessions, Join(s)
    PROVE  Counted'
<1>1. CASE JoinRefused(s) \/ Respond(s)
  BY <1>1, RefusalCounted, RespondCounted
<1>2. CASE JoinBoard(s) \/ Subscribe(s) \/ ReadSnapshot(s)
  <2>1. /\ Silent /\ asked' = asked /\ handler[s].at \in {"join", "subscribe", "snapshot"}
    BY <1>2 DEF JoinBoard, Subscribe, ReadSnapshot, Silent, At, own
  <2>2. PICK h : Becomes(s, h) /\ h.at \in {"subscribe", "snapshot", "respond"}
    BY <1>2, JoinBoardMoves, SubscribeMoves, ReadSnapshotMoves, RecordIs
  <2>3. Owes(s, h) /\ Owes(s, handler[s])
    BY <2>1, <2>2 DEF Owes
  <2> QED BY <2>1, <2>2, <2>3, SilentGiven, CountedSame
<1>3. CASE ReadPresent(s)
  <2>1. /\ Silent /\ asked' = asked /\ handler[s].at = "present"
    BY <1>3 DEF ReadPresent, Silent, At, own
  <2>2. PICK h : Becomes(s, h) /\ h.at = "collect" /\ h.request = handler[s].request
    BY <1>3, ReadPresentMoves, RecordIs
  <2>3. handler[s].request.type = "join"
    BY <2>1 DEF Typed, Purpose
  <2>4. ~Owes(s, h) /\ ~Owes(s, handler[s])
    BY <2>1, <2>2, <2>3 DEF Owes, Leaving
  <2> QED BY <2>1, <2>2, <2>4, SilentGiven, CountedSame
<1> QED BY <1>1, <1>2, <1>3 DEF Join

\* The author of an operation is a recipient of it, once.
LEMMA BroadcastCounted ==
    ASSUME ObserverListens, IsInjective(Identity), Typed, Present, Listening, Counted,
           NEW s \in Sessions, Broadcast(s)
    PROVE  Counted'
<1>1. asked' = asked
  BY DEF Broadcast, Collect, PostNext, own
<1>2. CASE Collect(s, "collect", "post")
  <2>1. PICK h : /\ Becomes(s, h) /\ h.at = "post" /\ h.request = handler[s].request
                 /\ h.to = subscribers[board[s]]
    BY <1>2, CollectMoves, RecordIs DEF BroadcastPlaces
  <2>2. handler[s].at = "collect" /\ Silent
    BY <1>2 DEF Collect, At, Silent
  <2>3. PICK b \in Boards : b = board[s] /\ b \in kept
    BY <2>2, SharesRows DEF Typed, Types
  <2>4. s \in Range(subscribers[b]) /\ IsInjective(subscribers[b])
    BY <2>2, <2>3 DEF Present, Subscribed, Gone, On
  <2>5. Owes(s, h) <=> Owes(s, handler[s])
    BY <2>1, <2>2, <2>3, <2>4 DEF Owes, Leaving
  <2> QED BY <1>1, <2>1, <2>2, <2>3, <2>4, <2>5, SilentGiven, CountedSame
<1>3. CASE PostNext(s, "post")
  <2>1. PICK h : /\ Becomes(s, h) /\ h.at = "post" /\ h.request = handler[s].request
                 /\ h.to = Tail(handler[s].to)
    BY <1>3, PostNextMoves, RecordIs
  <2>2. handler[s].to \in Seq(Sessions) /\ handler[s].to # <<>> /\ handler[s].at = "post"
    BY <1>3, BusyIs DEF PostNext, At, Typed, Types, Handlers
  <2>3. Range(handler[s].to) = Range(Tail(handler[s].to)) \cup {Head(handler[s].to)}
    BY <2>2, TailRange
  <2>4. IsInjective(Tail(handler[s].to)) /\ Head(handler[s].to) \notin Range(Tail(handler[s].to))
    <3>1. IsInjective(handler[s].to)
      BY <2>2 DEF Counted, At
    <3> QED BY <2>2, <3>1, TailInjective
  <2>5. Given(s) + Owed(s, handler[s]) = asked[s] /\ Given(s) \in Nat
    BY GivenType DEF Counted
  <2>6. CASE handler[s].request.type = "operation" /\ Head(handler[s].to) = s
    <3>1. Given(s)' = Given(s) + 1 /\ \A t \in Sessions \ {s} : Given(t)' = Given(t)
      BY <1>3, <2>6, PostNextGiven
    <3>2. Owes(s, handler[s]) /\ ~Owes(s, h)
      BY <2>1, <2>2, <2>3, <2>4, <2>6 DEF Owes, Leaving
    <3>3. Given(s)' + Owed(s, h) = asked'[s]
      BY <1>1, <2>5, <3>1, <3>2 DEF Owed
    <3> QED BY <1>1, <2>1, <2>4, <3>1, <3>3, CountedMoves
  <2>7. CASE ~ (handler[s].request.type = "operation" /\ Head(handler[s].to) = s)
    <3>1. Given(s)' = Given(s) + 0 /\ \A t \in Sessions \ {s} : Given(t)' = Given(t)
      BY <1>3, <2>7, PostNextGiven
    <3>2. \A t \in Sessions : Given(t)' = Given(t)
      BY <2>5, <3>1
    <3>3. Owes(s, h) <=> Owes(s, handler[s])
      BY <2>1, <2>2, <2>3, <2>7 DEF Owes, Leaving
    <3> QED BY <1>1, <2>1, <2>4, <3>2, <3>3, CountedSame
  <2> QED BY <2>6, <2>7
<1>4. CASE /\ At(s, "post") /\ handler[s].to = <<>>
           /\ Finish(s)
           /\ UNCHANGED <<shared, own, posts>>
  <2>1. Becomes(s, Idle) /\ Idle.at = "idle" /\ Silent
    BY <1>4, BroadcastEndMoves DEF Idle, Silent
  <2>2. Range(<<>>) = {}
    BY DEF Range
  <2>3. ~Owes(s, Idle) /\ ~Owes(s, handler[s])
    BY <1>4, <2>1, <2>2 DEF Owes, Leaving, At
  <2> QED BY <1>1, <2>1, <2>3, SilentGiven, CountedSame
<1> QED BY <1>2, <1>3, <1>4 DEF Broadcast

LEMMA DeleteCounted ==
    ASSUME IsInjective(Identity), Typed, Listening, Counted, NEW s \in Sessions,
           DeleteRows(s) \/ CloseBoard(s) \/ Notify(s)
    PROVE  Counted'
<1>1. asked' = asked /\ handler[s].at \in {"delete", "close", "notify"}
  BY DEF DeleteRows, CloseBoard, Notify, At, own
<1>2. PICK h : Becomes(s, h) /\ h.at \in {"close", "notify"}
  BY DeleteRowsMoves, CloseBoardMoves, NotifyIs, RecordIs
<1>3. Owes(s, h) /\ Owes(s, handler[s])
  BY <1>1, <1>2 DEF Owes
<1>4. \A t \in Sessions : Given(t)' = Given(t)
  <2>1. CASE Notify(s)
    BY <2>1, NotifyGiven
  <2>2. CASE ~Notify(s)
    BY <2>2, SilentGiven DEF DeleteRows, CloseBoard, Silent
  <2> QED BY <2>1, <2>2
<1> QED BY <1>1, <1>2, <1>3, <1>4, CountedSame

LEMMA OperationCounted ==
    ASSUME IsInjective(Identity), Typed, Listening, Counted, NEW s \in Sessions,
           ApplyOperation(s)
    PROVE  Counted'
<1>1. Silent /\ asked' = asked /\ handler[s].at = "apply"
  BY DEF ApplyOperation, Silent, At, own
<1>2. PICK h : Becomes(s, h) /\ h.at = "collect" /\ h.request = handler[s].request
  BY ApplyOperationMoves, RecordIs
<1>3. handler[s].request.type = "operation"
  BY <1>1 DEF Typed, Purpose
<1>4. Owes(s, h) /\ Owes(s, handler[s])
  BY <1>1, <1>2, <1>3 DEF Owes
<1> QED BY <1>1, <1>2, <1>4, SilentGiven, CountedSame

LEMMA RunPostedCounted ==
    ASSUME ObserverListens, IsInjective(Identity), Typed, Listening, Counted,
           NEW s \in Sessions, RunPosted(s)
    PROVE  Counted'
<1>1. handler[s].at = "idle" /\ UNCHANGED <<handler, asked>>
  BY RunPostedIs DEF At
<1>2. PICK h : h = handler[s] /\ Becomes(s, h)
  BY <1>1 DEF Becomes, Typed, Types, Handlers
<1> QED BY <1>1, <1>2, RunPostedGiven, CountedSame

LEMMA RequestCounted ==
    ASSUME IsInjective(Identity), Typed, Listening, Counted, NEW s \in Sessions,
           (\E r \in Requests : Receive(s, r)) \/ Disconnect(s)
    PROVE  Counted'
<1>1. handler[s].at = "idle" /\ Silent
  BY DEF Receive, Accept, Disconnect, At, posts, Silent
<1>2. ~Owes(s, handler[s])
  BY <1>1 DEF Owes, Leaving
<1>3. \A t \in Sessions : Given(t)' = Given(t)
  BY <1>1, SilentGiven
<1>4. ASSUME NEW r \in Requests, Receive(s, r) PROVE Counted'
  <2>1. /\ Dispatch(s, r) /\ board' = board /\ asked'[s] = asked[s] + 1
        /\ \A t \in Sessions \ {s} : asked'[t] = asked[t]
    BY <1>4 DEF Receive, Accept, Typed, Types
  <2>2. PICK h : /\ Becomes(s, h) /\ h.request = r
                 /\ h.at \in {"join", "leave", "apply", "delete", "respond"}
    BY <2>1, DispatchMoves, RequestsAre, RecordIs
  <2>3. Owes(s, h)
    BY <2>2, RequestTypes, RequestsAre DEF Owes, Leaving
  <2>4. Given(s) = asked[s]
    BY <1>2, GivenType DEF Counted, Owed
  <2>5. Given(s)' + Owed(s, h) = asked'[s]
    BY <1>3, <2>1, <2>3, <2>4 DEF Owed
  <2> QED BY <1>3, <2>1, <2>2, <2>5, CountedMoves
<1>5. CASE Disconnect(s)
  <2>1. CASE board[s] = NoBoard
    <3>1. UNCHANGED <<handler, asked>>
      BY <1>5, <2>1 DEF Disconnect
    <3>2. PICK h : h = handler[s] /\ Becomes(s, h)
      BY <3>1 DEF Becomes, Typed, Types, Handlers
    <3> QED BY <1>1, <1>3, <3>1, <3>2, CountedSame
  <2>2. CASE board[s] # NoBoard
    <3>1. Becomes(s, Record("leave", Hangup, [type |-> "none"], <<>>))
      BY <1>5, <2>2, BeginMoves DEF Disconnect, Typed, Types, Handlers, Places
    <3>2. PICK h : Becomes(s, h) /\ h.at = "leave" /\ h.request.type = "hangup"
      BY <3>1, RecordIs DEF Hangup
    <3>3. ~Owes(s, h) /\ asked' = asked
      BY <1>5, <3>2 DEF Owes, Leaving, Disconnect
    <3> QED BY <1>2, <1>3, <3>2, <3>3, CountedSame
  <2> QED BY <2>1, <2>2
<1> QED BY <1>4, <1>5

LEMMA ExpireCounted ==
    ASSUME IsInjective(Identity), Typed, Counted, NEW s \in Sessions, Expire(s)
    PROVE  Counted'
<1>1. handler[s].at = "idle" /\ UNCHANGED <<handler, asked>> /\ Silent
  BY DEF Expire, At, Silent
<1>2. PICK h : h = handler[s] /\ Becomes(s, h)
  BY <1>1 DEF Becomes, Typed, Types, Handlers
<1> QED BY <1>1, <1>2, SilentGiven, CountedSame

\* Every step keeps the balance of requests and replies.
LEMMA StepCounted ==
    ASSUME ObserverListens, IsInjective(Identity), Typed, Present, Listening, Counted, Next
    PROVE  Counted'
<1>1. PICK s \in Sessions :
        (\E r \in Requests : Receive(s, r)) \/ Disconnect(s) \/ Expire(s) \/ Step(s)
  BY DEF Next
<1>2. CASE (\E r \in Requests : Receive(s, r)) \/ Disconnect(s)
  BY <1>2, RequestCounted
<1>9. CASE Expire(s)
  BY <1>9, ExpireCounted
<1>3. CASE Leave(s)
  BY <1>3, LeaveCounted, LeftCounted DEF Leave
<1>4. CASE Join(s)
  BY <1>4, JoinCounted
<1>5. CASE Broadcast(s)
  BY <1>5, BroadcastCounted
<1>6. CASE ApplyOperation(s) \/ OperationRejected(s)
  BY <1>6, OperationCounted, RefusalCounted
<1>7. CASE Delete(s)
  BY <1>7, RefusalCounted, DeleteCounted DEF Delete
<1>8. CASE RunPosted(s)
  BY <1>8, RunPostedCounted
<1> QED BY <1>1, <1>2, <1>3, <1>4, <1>5, <1>6, <1>7, <1>8, <1>9 DEF Step

\* Every request is answered once, whatever it runs into: a handler that has not
\* answered still owes its reply, and the author of an operation that is broadcast
\* is among the recipients once.
THEOREM RequestsAreAnswered ==
    ASSUME ObserverListens
    PROVE  Spec => []EveryRequestAnswered
<1>1. ASSUME Counted, UNCHANGED vars PROVE Counted'
  BY <1>1 DEF vars, Counted, Given, At
<1>2. Typed /\ Present /\ Listening /\ Counted /\ [Next]_vars => Counted'
  <2>1. CASE IsInjective(Identity)
    BY <1>1, <2>1, StepCounted
  <2>2. CASE ~IsInjective(Identity)
    BY <2>2 DEF Counted
  <2> QED BY <2>1, <2>2
<1>3. Init => Counted
  <2> SUFFICES ASSUME Init, NEW s \in Sessions
               PROVE  /\ Given(s) + Owed(s, handler[s]) = asked[s]
                      /\ ~At(s, "post")
    BY DEF Counted
  <2>1. /\ handler[s].at = "idle" /\ strand[s] = <<>> /\ client[s].replies = 0
        /\ asked[s] = 0
    BY DEF Init, ObserverListens, Nothing, Idle
  <2>2. Cardinality(Waiting(s, <<>>)) = 0
    BY NobodyWaits
  <2>3. Owed(s, handler[s]) = 0
    BY <2>1 DEF Owed, Owes, Leaving
  <2> QED BY <2>1, <2>2, <2>3 DEF Given, At
<1>4. Typed /\ Listening /\ Counted => EveryRequestAnswered
  <2> SUFFICES ASSUME Typed, Listening, Counted, AtRest, IsInjective(Identity),
                      NEW s \in Sessions
               PROVE  client[s].replies = asked[s]
    BY DEF EveryRequestAnswered
  <2>1. handler[s].at = "idle" /\ strand[s] = <<>>
    BY DEF AtRest, At
  <2>2. Cardinality(Waiting(s, <<>>)) = 0
    BY NobodyWaits
  <2>3. Owed(s, handler[s]) = 0
    BY <2>1 DEF Owed, Owes, Leaving
  <2>4. client[s].replies \in Nat
    BY GivenType
  <2> QED BY <2>1, <2>2, <2>3, <2>4 DEF Counted, Given
<1> QED BY <1>2, <1>3, <1>4, TypedInvariant, PresentInvariant, ListeningInvariant, PTL DEF Spec

=============================================================================
