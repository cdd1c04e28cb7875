------------------------ MODULE CollaborationProofs ------------------------
(***************************************************************************)
(* Collaboration for any number of clients, objects and strokes: the       *)
(* types, what a deletion does to those who draw, that the clients agree   *)
(* on every object that nobody erased, and that strokes get through.       *)
(*                                                                         *)
(* The steps of the server keep Typed and Present of BoardServerProofs,    *)
(* whatever the clients do; Working adds what each session and each client *)
(* may be doing here, Following how the end of the board gets to a client, *)
(* Steady where every operation is on its way, and AllSound what each      *)
(* client has in flight and what is left of its strokes.  Each is kept by  *)
(* every step, given those before it.                                      *)
(*                                                                         *)
(* That the clients are Qt clients is the hypothesis QtClients, as the     *)
(* server leaves open what a client makes of what it hears.                *)
(***************************************************************************)
EXTENDS Collaboration, BoardServerProofs

-----------------------------------------------------------------------------
(* The client uses the objects of the server *)

\* What the client keeps is what the server keeps.
LEMMA ClientData ==
    /\ Client!Command = Command
    /\ Client!Objects = Objects
    /\ Client!NoObjects = NoObjects
<1>1. Client!Command = Command
  BY DEF Client!Command, Command, Client!BeginStroke, BeginStroke,
     Client!AppendStrokePoints, AppendStrokePoints, Client!EndStroke, EndStroke,
     Client!CreateShape, CreateShape, Client!UpdateShapeGeometry, UpdateShapeGeometry,
     Client!UpdateShapeStyle, UpdateShapeStyle, Client!CreateText, CreateText,
     Client!UpdateTextContent, UpdateTextContent, Client!UpdateTextStyle, UpdateTextStyle,
     Client!ResizeObject, ResizeObject, Client!DeleteObject, DeleteObject
<1>2. Client!Objects = Objects
  BY DEF Client!Objects, Objects, Client!BoardObject, BoardObject, Client!NoObject, NoObject,
     Client!Stroke, Stroke, Client!Shape, Shape, Client!Text, Text
<1>3. Client!NoObjects = NoObjects
  BY DEF Client!NoObjects, NoObjects, Client!NoObject, NoObject
<1> QED BY <1>1, <1>2, <1>3

\* The client validates and applies a command as the server does.
LEMMA ClientApplies ==
    ASSUME NEW objects, NEW c
    PROVE  /\ Client!Accepts(objects, c) <=> Accepts(objects, c)
           /\ Client!Apply(objects, c) = Apply(objects, c)
<1>1. Client!Accepts(objects, c) <=> Accepts(objects, c)
  BY Zenon DEF Client!Accepts, Accepts, Client!Failure, Failure, Client!CreateFailure,
     CreateFailure, Client!ResizeFailure, ResizeFailure, Client!UpdateFailure, UpdateFailure,
     Client!Malformed, Malformed, Client!Active, Active, Client!Creations, Creations,
     Client!Target, Target, Client!NoObject, NoObject
<1>2. Client!Apply(objects, c) = Apply(objects, c)
  BY Zenon DEF Client!Apply, Apply, Client!Changed, Changed, Client!Created, Created,
     Client!NewStroke, NewStroke, Client!NewShape, NewShape, Client!NewText, NewText,
     Client!ChangedInk, ChangedInk, Client!ChangedShape, ChangedShape,
     Client!ChangedText, ChangedText, Client!Creations, Creations, Client!Target, Target
<1> QED BY <1>1, <1>2

-----------------------------------------------------------------------------
(* The client *)

Qt == Client!Session(Boards)

Wire ==
    [type : {"operation"}, board : Boards, base : Nat, command : Command]
      \cup [type : {"delete"}, board : Boards]

\* The messages that a client on a board, or one that deletes it, may get.
Hearable ==
    {m \in Message : m.type \in {"error", "operation_applied", "board_deleted",
                                 "delete_board_response"}}

Made(on, revision, objects, pending, awaiting, timer, sent, used) ==
    [board |-> on, revision |-> revision, objects |-> objects, pending |-> pending,
     awaiting |-> awaiting, timer |-> timer, sent |-> sent, used |-> used]

\* The fields of a client.
LEMMA QtIs ==
    ASSUME NEW k \in Qt
    PROVE  /\ k.board \in Boards \cup {NoBoard} /\ k.revision \in Nat
           /\ k.objects \in Objects /\ k.pending \in Seq(Command)
           /\ k.awaiting \in BOOLEAN /\ k.timer \in BOOLEAN
           /\ k.sent \in Seq(Wire) /\ k.used \in SUBSET ObjectIds
           /\ k = Made(k.board, k.revision, k.objects, k.pending, k.awaiting, k.timer,
                       k.sent, k.used)
BY ClientData DEF Qt, Client!Session, Wire, Made

\* And of one that is made of them.
LEMMA MadeIs ==
    \A on, revision, objects, pending, awaiting, timer, sent, used :
        LET k == Made(on, revision, objects, pending, awaiting, timer, sent, used) IN
        /\ k.board = on /\ k.revision = revision /\ k.objects = objects
        /\ k.pending = pending /\ k.awaiting = awaiting /\ k.timer = timer
        /\ k.sent = sent /\ k.used = used
BY DEF Made

\* It is a client if its fields are those of one.
LEMMA MadeTyped ==
    ASSUME NEW on \in Boards \cup {NoBoard}, NEW revision \in Nat,
           NEW objects \in Objects, NEW pending \in Seq(Command),
           NEW awaiting \in BOOLEAN, NEW timer \in BOOLEAN,
           NEW sent \in Seq(Wire), NEW used \in SUBSET ObjectIds
    PROVE  Made(on, revision, objects, pending, awaiting, timer, sent, used) \in Qt
BY ClientData DEF Qt, Client!Session, Wire, Made

\* What stays when a client only writes a request to its socket, if it does.
SameBoard(k, next) ==
    /\ next.board = k.board /\ next.revision = k.revision /\ next.objects = k.objects
    /\ next.pending = k.pending /\ next.timer = k.timer /\ next.used = k.used

Flushed(k, next) ==
    /\ next \in Qt
    /\ SameBoard(k, next)
    /\ \/ /\ ~(k.board # NoBoard /\ ~k.awaiting /\ k.pending # <<>>)
          /\ next.awaiting = k.awaiting /\ next.sent = k.sent
       \/ /\ k.board # NoBoard /\ ~k.awaiting /\ k.pending # <<>>
          /\ next.awaiting = TRUE
          /\ \E r \in Wire : /\ r.type = "operation" /\ r.board = k.board
                             /\ r.command = Head(k.pending)
                             /\ next.sent = Append(k.sent, r)

\* FlushOperationQueue, as Flushed.
LEMMA FlushIs ==
    ASSUME NEW k \in Qt
    PROVE  Flushed(k, Client!FlushOperationQueue(k))
<1> DEFINE next == Client!FlushOperationQueue(k)
<1>0. /\ k.board \in Boards \cup {NoBoard} /\ k.revision \in Nat
      /\ k.objects \in Objects /\ k.pending \in Seq(Command)
      /\ k.awaiting \in BOOLEAN /\ k.timer \in BOOLEAN
      /\ k.sent \in Seq(Wire) /\ k.used \in SUBSET ObjectIds
      /\ k = Made(k.board, k.revision, k.objects, k.pending, k.awaiting, k.timer,
                  k.sent, k.used)
  BY QtIs
<1>1. CASE k.board # NoBoard /\ ~k.awaiting /\ k.pending # <<>>
  <2> DEFINE r == [type |-> "operation", board |-> k.board, base |-> k.revision,
                   command |-> Head(k.pending)]
  <2>1. Head(k.pending) \in Command
    BY <1>0, <1>1
  <2>2. r \in Wire /\ r.type = "operation" /\ r.board = k.board
        /\ r.command = Head(k.pending)
    BY <1>0, <1>1, <2>1 DEF Wire
  <2>3. next = [k EXCEPT !.awaiting = TRUE, !.sent = Append(@, r)]
    BY <1>1 DEF Client!FlushOperationQueue, Client!HasOperationReady, Client!OperationRequest
  <2> HIDE DEF r, next
  <2>4. Append(k.sent, r) \in Seq(Wire)
    BY <1>0, <2>2
  <2>5. PICK q \in Seq(Wire) : q = Append(k.sent, r)
    BY <2>4
  <2>6. next = [k EXCEPT !.awaiting = TRUE, !.sent = q]
    BY <1>0, <2>3, <2>5 DEF Made
  <2>7. next = Made(k.board, k.revision, k.objects, k.pending, TRUE, k.timer, q, k.used)
    BY <1>0, <2>6 DEF Made
  <2>8. /\ next.board = k.board /\ next.revision = k.revision /\ next.objects = k.objects
        /\ next.pending = k.pending /\ next.timer = k.timer /\ next.used = k.used
        /\ next.awaiting = TRUE /\ next.sent = q
    BY <2>7 DEF Made
  <2>9. next \in Qt
    BY <1>0, <2>7, MadeTyped
  <2>10. SameBoard(k, next)
    BY <2>8 DEF SameBoard
  <2> QED BY <1>1, <2>2, <2>5, <2>8, <2>9, <2>10 DEF Flushed, next
<1>2. CASE ~(k.board # NoBoard /\ ~k.awaiting /\ k.pending # <<>>)
  <2>1. next = k
    BY <1>2 DEF Client!FlushOperationQueue, Client!HasOperationReady
  <2> QED BY <1>2, <2>1 DEF Flushed, SameBoard
<1> QED BY <1>1, <1>2

\* The queue after an operation was given up: what is left is its tail, from
\* some operation on.
LEMMA DiscardIs ==
    ASSUME NEW k \in Qt
    PROVE  LET q == Client!DiscardFrontGroup(k).pending IN
           /\ q \in Seq(Command)
           /\ Client!DiscardFrontGroup(k)
                = Made(k.board, k.revision, k.objects, q, FALSE, k.timer, k.sent, k.used)
           /\ \/ q = <<>>
                 /\ \A i \in 1 .. Len(k.pending) : k.pending[i].id = k.pending[1].id
              \/ \E n \in 2 .. Len(k.pending) :
                    /\ k.pending[n].id # k.pending[1].id
                    /\ \A i \in 1 .. n - 1 : k.pending[i].id = k.pending[1].id
                    /\ q = SubSeq(k.pending, n, Len(k.pending))
<1> DEFINE p == k.pending
           others == {i \in DOMAIN p : p[i].id # p[1].id}
           d == Client!DiscardFrontGroup(k)
<1>0. /\ k.board \in Boards \cup {NoBoard} /\ k.revision \in Nat
      /\ k.objects \in Objects /\ k.pending \in Seq(Command)
      /\ k.awaiting \in BOOLEAN /\ k.timer \in BOOLEAN
      /\ k.sent \in Seq(Wire) /\ k.used \in SUBSET ObjectIds
      /\ k = Made(k.board, k.revision, k.objects, k.pending, k.awaiting, k.timer,
                  k.sent, k.used)
  BY QtIs
<1>1. CASE others = {}
  <2>1. d = [k EXCEPT !.awaiting = FALSE, !.pending = <<>>]
    BY <1>0, <1>1 DEF Client!DiscardFrontGroup, Made
  <2>2. d = Made(k.board, k.revision, k.objects, <<>>, FALSE, k.timer, k.sent, k.used)
    BY <1>0, <2>1 DEF Made
  <2>3. d.pending = <<>>
    BY <2>2 DEF Made
  <2>4. \A i \in 1 .. Len(p) : p[i].id = p[1].id
    <3>1. DOMAIN p = 1 .. Len(p)
      BY <1>0
    <3> QED BY <1>1, <3>1
  <2>5. <<>> \in Seq(Command)
    OBVIOUS
  <2> HIDE DEF others
  <2> QED BY <2>2, <2>3, <2>4, <2>5
<1>2. CASE others # {}
  <2>1. others \subseteq Nat /\ DOMAIN p = 1 .. Len(p) /\ Len(p) \in Nat
    BY <1>0
  <2>2. PICK n \in others : \A i \in others : n <= i
    BY <1>2, <2>1, Least
  <2>3. Client!Min(others) = n
    <3>1. Client!Min(others) = CHOOSE x \in others : \A y \in others : x <= y
      BY DEF Client!Min
    <3>2. \A x \in others : (\A y \in others : x <= y) => x = n
      BY <2>1, <2>2
    <3> QED BY <2>2, <3>1, <3>2
  <2>4. n \in 2 .. Len(p) /\ p[n].id # p[1].id
    BY <2>1, <2>2
  <2>5. \A i \in 1 .. n - 1 : p[i].id = p[1].id
    <3> SUFFICES ASSUME NEW i \in 1 .. n - 1, p[i].id # p[1].id PROVE FALSE
      OBVIOUS
    <3>1. i \in others
      BY <2>1, <2>4
    <3> QED BY <2>1, <2>2, <2>4, <3>1
  <2>6. SubSeq(p, n, Len(p)) \in Seq(Command)
    BY <1>0, <2>4
  <2>7. PICK q \in Seq(Command) : q = SubSeq(p, n, Len(p))
    BY <2>6
  <2>8. d = [k EXCEPT !.awaiting = FALSE, !.pending = q]
    <3>1. d = [k EXCEPT !.awaiting = FALSE,
                 !.pending = SubSeq(@, Client!Min(others), Len(@))]
      BY <1>2 DEF Client!DiscardFrontGroup
    <3> HIDE DEF others, d
    <3> QED BY <1>0, <2>3, <2>7, <3>1 DEF Made
  <2>9. d = Made(k.board, k.revision, k.objects, q, FALSE, k.timer, k.sent, k.used)
    BY <1>0, <2>8 DEF Made
  <2>10. d.pending = q
    BY <2>9 DEF Made
  <2> QED BY <2>4, <2>5, <2>7, <2>9, <2>10
<1> QED BY <1>1, <1>2

\* What an error leaves of a client.
Errored(k, m, next) ==
    /\ next \in Qt
    /\ next.board = k.board /\ next.objects = k.objects
    /\ next.sent = k.sent /\ next.used = k.used
    /\ next.awaiting = FALSE /\ next.timer = TRUE
    /\ m.code = "conflict" => next.pending = k.pending
    /\ m.code # "conflict" => next.pending = Client!DiscardFrontGroup(k).pending

\* HandleError, as Errored.
LEMMA ErrorIs ==
    ASSUME NEW k \in Qt, NEW m
    PROVE  Errored(k, m, Client!HandleError(k, m))
<1>0. /\ k.board \in Boards \cup {NoBoard} /\ k.revision \in Nat
      /\ k.objects \in Objects /\ k.pending \in Seq(Command)
      /\ k.awaiting \in BOOLEAN /\ k.timer \in BOOLEAN
      /\ k.sent \in Seq(Wire) /\ k.used \in SUBSET ObjectIds
      /\ k = Made(k.board, k.revision, k.objects, k.pending, k.awaiting, k.timer,
                  k.sent, k.used)
  BY QtIs
<1> DEFINE next == Client!HandleError(k, m)
<1>1. PICK q \in Seq(Command) :
         /\ m.code = "conflict" => q = k.pending
         /\ m.code # "conflict" => q = Client!DiscardFrontGroup(k).pending
  <2>1. CASE m.code = "conflict"
    BY <1>0, <2>1
  <2>2. CASE m.code # "conflict"
    <3>1. Client!DiscardFrontGroup(k).pending \in Seq(Command)
      BY DiscardIs
    <3> QED BY <2>2, <3>1
  <2> QED BY <2>1, <2>2
<1>2. next = Made(k.board, k.revision, k.objects, q, FALSE, TRUE, k.sent, k.used)
  <2>1. CASE m.code = "conflict"
    <3>1. next = [k EXCEPT !.awaiting = FALSE, !.timer = TRUE]
      BY <2>1 DEF Client!HandleError
    <3>2. q = k.pending
      BY <1>1, <2>1
    <3> QED BY <1>0, <3>1, <3>2 DEF Made
  <2>2. CASE m.code # "conflict"
    <3>0. PICK d : d = Client!DiscardFrontGroup(k)
      OBVIOUS
    <3>1. next = [d EXCEPT !.timer = TRUE]
      BY <2>2, <3>0 DEF Client!HandleError
    <3>2. q = Client!DiscardFrontGroup(k).pending
      BY <1>1, <2>2
    <3>3. d = Made(k.board, k.revision, k.objects, q, FALSE, k.timer, k.sent, k.used)
      BY <3>0, <3>2, DiscardIs
    <3> HIDE DEF next
    <3> QED BY <3>1, <3>3 DEF Made
  <2> QED BY <2>1, <2>2
<1> HIDE DEF next
<1>3. next \in Qt
  BY <1>0, <1>1, <1>2, MadeTyped
<1>4. /\ next.board = k.board /\ next.objects = k.objects
      /\ next.sent = k.sent /\ next.used = k.used
      /\ next.awaiting = FALSE /\ next.timer = TRUE /\ next.pending = q
  BY <1>2 DEF Made
<1> QED BY <1>1, <1>3, <1>4 DEF Errored, next

\* A client that took an operation over, before it sends its next one.
Acked(k, c) ==
    k.awaiting /\ k.pending # <<>> /\ Head(k.pending).op = c.op /\ Head(k.pending).id = c.id

TookOver(k, m, mid) ==
    /\ mid \in Qt
    /\ mid.board = k.board /\ mid.objects = Apply(k.objects, m.command)
    /\ mid.sent = k.sent /\ mid.used = k.used /\ mid.timer = k.timer
    /\ mid.pending = IF Acked(k, m.command) THEN Tail(k.pending) ELSE k.pending
    /\ mid.awaiting = (k.awaiting /\ ~Acked(k, m.command))

\* HandleOperationApplied takes an operation over and sends the next, or does nothing.
LEMMA AppliedIs ==
    ASSUME NEW k \in Qt, NEW m, m.revision \in Nat, m.command \in Command
    PROVE  \/ /\ ~(k.board = m.board /\ Accepts(k.objects, m.command))
              /\ Client!HandleOperationApplied(k, m) = k
           \/ /\ k.board = m.board /\ Accepts(k.objects, m.command)
              /\ \E mid : TookOver(k, m, mid)
                          /\ Flushed(mid, Client!HandleOperationApplied(k, m))
<1>0. /\ k.board \in Boards \cup {NoBoard} /\ k.revision \in Nat
      /\ k.objects \in Objects /\ k.pending \in Seq(Command)
      /\ k.awaiting \in BOOLEAN /\ k.timer \in BOOLEAN
      /\ k.sent \in Seq(Wire) /\ k.used \in SUBSET ObjectIds
      /\ k = Made(k.board, k.revision, k.objects, k.pending, k.awaiting, k.timer,
                  k.sent, k.used)
  BY QtIs
<1>1. CASE ~(k.board = m.board /\ Accepts(k.objects, m.command))
  BY <1>1, ClientApplies DEF Client!HandleOperationApplied
<1>2. CASE k.board = m.board /\ Accepts(k.objects, m.command)
  <2> DEFINE mid == Client!ApplyRemote(k, m)
             c == m.command
  <2>1. Client!HandleOperationApplied(k, m) = Client!FlushOperationQueue(mid)
    BY <1>2, ClientApplies DEF Client!HandleOperationApplied
  <2>2. PICK objects \in Objects : objects = Apply(k.objects, c)
    BY <1>0, <1>2, ApplyType
  <2>3. PICK q \in Seq(Command) : q = IF Acked(k, c) THEN Tail(k.pending) ELSE k.pending
    <3>1. (IF Acked(k, c) THEN Tail(k.pending) ELSE k.pending) \in Seq(Command)
      BY <1>0 DEF Acked
    <3> QED BY <3>1
  <2>4. PICK w \in BOOLEAN : w = (k.awaiting /\ ~Acked(k, c))
    OBVIOUS
  <2>5. mid = Made(k.board, m.revision, objects, q, w, k.timer, k.sent, k.used)
    <3>1. mid = [k EXCEPT !.objects = Client!Apply(@, c),
                   !.revision = m.revision,
                   !.pending = IF k.awaiting /\ Client!MatchesFront(k, c)
                                 THEN Tail(@) ELSE @,
                   !.awaiting = @ /\ ~(k.awaiting /\ Client!MatchesFront(k, c))]
      BY DEF Client!ApplyRemote
    <3>2. (k.awaiting /\ Client!MatchesFront(k, c)) <=> Acked(k, c)
      BY DEF Client!MatchesFront, Acked
    <3>3. Client!Apply(k.objects, c) = objects
      BY <2>2, ClientApplies
    <3> HIDE DEF mid, c
    <3>4. mid = Made(k.board, m.revision, Client!Apply(k.objects, c),
                     IF k.awaiting /\ Client!MatchesFront(k, c)
                       THEN Tail(k.pending) ELSE k.pending,
                     k.awaiting /\ ~(k.awaiting /\ Client!MatchesFront(k, c)),
                     k.timer, k.sent, k.used)
      BY <1>0, <3>1 DEF Made
    <3> QED BY <2>3, <2>4, <3>2, <3>3, <3>4
  <2> HIDE DEF mid, c
  <2>6. mid \in Qt
    BY <1>0, <2>2, <2>3, <2>4, <2>5, MadeTyped
  <2>7. /\ mid.board = k.board /\ mid.objects = objects
        /\ mid.sent = k.sent /\ mid.used = k.used /\ mid.timer = k.timer
        /\ mid.pending = q /\ mid.awaiting = w
    BY <2>5 DEF Made
  <2>8. TookOver(k, m, mid)
    BY <2>2, <2>3, <2>4, <2>6, <2>7 DEF TookOver, c
  <2> QED BY <1>2, <2>1, <2>6, <2>8, FlushIs
<1> QED BY <1>1, <1>2

\* A client that lost the board it was on.
Lost(k, next) ==
    /\ next \in Qt
    /\ next.board = NoBoard /\ next.pending = <<>> /\ next.awaiting = FALSE
    /\ next.timer = k.timer /\ next.sent = k.sent /\ next.used = k.used

\* HandleBoardDeleted, as Lost.
LEMMA DeletedIs ==
    ASSUME NEW k \in Qt, NEW m
    PROVE  \/ k.board # m.board /\ Client!HandleBoardDeleted(k, m) = k
           \/ k.board = m.board /\ Lost(k, Client!HandleBoardDeleted(k, m))
<1>0. /\ k.board \in Boards \cup {NoBoard} /\ k.revision \in Nat
      /\ k.objects \in Objects /\ k.pending \in Seq(Command)
      /\ k.awaiting \in BOOLEAN /\ k.timer \in BOOLEAN
      /\ k.sent \in Seq(Wire) /\ k.used \in SUBSET ObjectIds
      /\ k = Made(k.board, k.revision, k.objects, k.pending, k.awaiting, k.timer,
                  k.sent, k.used)
  BY QtIs
<1>1. CASE k.board # m.board
  BY <1>1 DEF Client!HandleBoardDeleted
<1>2. CASE k.board = m.board
  <2> DEFINE next == Client!HandleBoardDeleted(k, m)
  <2>1. next = [k EXCEPT !.board = NoBoard, !.revision = 0, !.objects = Client!NoObjects,
                         !.pending = <<>>, !.awaiting = FALSE]
    BY <1>2 DEF Client!HandleBoardDeleted, Client!Clear
  <2> HIDE DEF next
  <2>2. next = Made(NoBoard, 0, NoObjects, <<>>, FALSE, k.timer, k.sent, k.used)
    BY <1>0, <2>1, ClientData DEF Made
  <2>3. NoObjects \in Objects /\ <<>> \in Seq(Command)
    BY DEF NoObjects, Objects
  <2>4. next \in Qt
    BY <1>0, <2>2, <2>3, MadeTyped
  <2> QED BY <1>2, <2>2, <2>4 DEF Lost, Made, next
<1> QED BY <1>1, <1>2

\* What a client makes of any message it may hear.
LEMMA HandleIs ==
    ASSUME NEW k \in Qt, NEW m \in Hearable
    PROVE  LET next == Client!Handle(k, m) IN
           \/ m.type = "error" /\ Errored(k, m, next)
           \/ /\ m.type = "operation_applied"
              /\ m.command \in Command
              /\ \/ ~(k.board = m.board /\ Accepts(k.objects, m.command)) /\ next = k
                 \/ /\ k.board = m.board /\ Accepts(k.objects, m.command)
                    /\ \E mid : TookOver(k, m, mid) /\ Flushed(mid, next)
           \/ /\ m.type \in {"board_deleted", "delete_board_response"}
              /\ \/ k.board # m.board /\ next = k
                 \/ k.board = m.board /\ Lost(k, next)
<1>1. CASE m.type = "error"
  <2>1. Client!Handle(k, m) = Client!HandleError(k, m)
    BY <1>1, Zenon DEF Client!Handle
  <2> QED BY <1>1, <2>1, ErrorIs
<1>2. CASE m.type = "operation_applied"
  <2>1. Client!Handle(k, m) = Client!HandleOperationApplied(k, m)
    BY <1>2 DEF Client!Handle
  <2>2. m.revision \in Nat /\ m.command \in Command
    BY <1>2 DEF Hearable, Message
  <2> QED BY <1>2, <2>1, <2>2, AppliedIs
<1>3. CASE m.type \in {"board_deleted", "delete_board_response"}
  <2>1. Client!Handle(k, m) = Client!HandleBoardDeleted(k, m)
    BY <1>3 DEF Client!Handle
  <2> QED BY <1>3, <2>1, DeletedIs
<1> QED BY <1>1, <1>2, <1>3 DEF Hearable

\* EnqueueOperations appends to the queue, and then sends if it may.
LEMMA EnqueueIs ==
    ASSUME NEW k \in Qt, NEW operations \in Seq(Command)
    PROVE  LET next == Client!EnqueueOperations(k, operations) IN
           \/ k.board = NoBoard /\ next = k
           \/ /\ k.board # NoBoard
              /\ \E mid \in Qt :
                    /\ mid.board = k.board /\ mid.objects = k.objects
                    /\ mid.pending = k.pending \o operations
                    /\ mid.awaiting = k.awaiting /\ mid.timer = k.timer
                    /\ mid.sent = k.sent /\ mid.used = k.used
                    /\ Flushed(mid, next)
<1>0. /\ k.board \in Boards \cup {NoBoard} /\ k.revision \in Nat
      /\ k.objects \in Objects /\ k.pending \in Seq(Command)
      /\ k.awaiting \in BOOLEAN /\ k.timer \in BOOLEAN
      /\ k.sent \in Seq(Wire) /\ k.used \in SUBSET ObjectIds
      /\ k = Made(k.board, k.revision, k.objects, k.pending, k.awaiting, k.timer,
                  k.sent, k.used)
  BY QtIs
<1>1. CASE k.board = NoBoard
  BY <1>1 DEF Client!EnqueueOperations
<1>2. CASE k.board # NoBoard
  <2>0. PICK q \in Seq(Command) : q = k.pending \o operations
    <3>1. k.pending \o operations \in Seq(Command)
      BY <1>0
    <3> QED BY <3>1
  <2> DEFINE mid == [k EXCEPT !.pending = q]
  <2>1. Client!EnqueueOperations(k, operations) = Client!FlushOperationQueue(mid)
    <3>1. mid = [k EXCEPT !.pending = @ \o operations]
      BY <2>0
    <3> HIDE DEF mid
    <3> QED BY <1>2, <3>1 DEF Client!EnqueueOperations
  <2>2. mid = [k EXCEPT !.pending = q]
    OBVIOUS
  <2> HIDE DEF mid
  <2>3. mid = Made(k.board, k.revision, k.objects, q, k.awaiting, k.timer, k.sent, k.used)
    BY <1>0, <2>2 DEF Made
  <2>4. mid \in Qt
    BY <1>0, <2>3, MadeTyped
  <2>5. /\ mid.board = k.board /\ mid.objects = k.objects
        /\ mid.pending = k.pending \o operations
        /\ mid.awaiting = k.awaiting /\ mid.timer = k.timer
        /\ mid.sent = k.sent /\ mid.used = k.used
    BY <2>0, <2>3 DEF Made
  <2>6. Flushed(mid, Client!FlushOperationQueue(mid))
    BY <2>4, FlushIs
  <2> QED BY <1>2, <2>1, <2>4, <2>5, <2>6
<1> QED BY <1>1, <1>2

\* TimerFires stops the timer, and then sends if it may.
LEMMA TimerIs ==
    ASSUME NEW k \in Qt
    PROVE  \E mid \in Qt :
              /\ mid.board = k.board /\ mid.objects = k.objects
              /\ mid.pending = k.pending /\ mid.awaiting = k.awaiting
              /\ mid.timer = FALSE /\ mid.sent = k.sent /\ mid.used = k.used
              /\ Flushed(mid, Client!TimerFires(k))
<1>0. /\ k.board \in Boards \cup {NoBoard} /\ k.revision \in Nat
      /\ k.objects \in Objects /\ k.pending \in Seq(Command)
      /\ k.awaiting \in BOOLEAN /\ k.timer \in BOOLEAN
      /\ k.sent \in Seq(Wire) /\ k.used \in SUBSET ObjectIds
      /\ k = Made(k.board, k.revision, k.objects, k.pending, k.awaiting, k.timer,
                  k.sent, k.used)
  BY QtIs
<1> DEFINE mid == [k EXCEPT !.timer = FALSE]
<1>1. Client!TimerFires(k) = Client!FlushOperationQueue(mid)
  BY DEF Client!TimerFires
<1>2. mid = [k EXCEPT !.timer = FALSE]
  OBVIOUS
<1> HIDE DEF mid
<1>3. mid = Made(k.board, k.revision, k.objects, k.pending, k.awaiting, FALSE,
                 k.sent, k.used)
  BY <1>0, <1>2 DEF Made
<1>4. mid \in Qt
  BY <1>0, <1>3, MadeTyped
<1>5. /\ mid.board = k.board /\ mid.objects = k.objects
      /\ mid.pending = k.pending /\ mid.awaiting = k.awaiting
      /\ mid.timer = FALSE /\ mid.sent = k.sent /\ mid.used = k.used
  BY <1>3 DEF Made
<1>6. Flushed(mid, Client!FlushOperationQueue(mid))
  BY <1>4, FlushIs
<1> QED BY <1>1, <1>4, <1>5, <1>6

\* A concatenation of three.
LEMMA ThreeIs ==
    ASSUME NEW a, NEW b, NEW c
    PROVE  <<a>> \o <<b>> \o <<c>> = <<a, b, c>>
<1>1. PICK S : S = {a, b, c}
  OBVIOUS
<1>2. a \in S /\ b \in S /\ c \in S
  BY <1>1
<1>3. <<a>> \in Seq(S) /\ <<b>> \in Seq(S) /\ <<c>> \in Seq(S) /\ <<a, b>> \in Seq(S)
  BY <1>2
<1>4. <<a>> \o <<b>> = <<a, b>>
  <2>1. /\ <<a>> \o <<b>> \in Seq(S) /\ Len(<<a>> \o <<b>>) = 2
        /\ (<<a>> \o <<b>>)[1] = a /\ (<<a>> \o <<b>>)[2] = b
    BY <1>3
  <2>2. Len(<<a, b>>) = 2 /\ <<a, b>>[1] = a /\ <<a, b>>[2] = b
    OBVIOUS
  <2>3. \A i \in 1 .. 2 : i = 1 \/ i = 2
    OBVIOUS
  <2> QED BY <1>3, <2>1, <2>2, <2>3, SeqEqual
<1>5. <<a, b>> \o <<c>> = <<a, b, c>>
  <2>1. /\ <<a, b>> \o <<c>> \in Seq(S) /\ Len(<<a, b>> \o <<c>>) = 3
        /\ (<<a, b>> \o <<c>>)[1] = a /\ (<<a, b>> \o <<c>>)[2] = b
        /\ (<<a, b>> \o <<c>>)[3] = c
    BY <1>3
  <2>2. /\ <<a, b, c>> \in Seq(S) /\ Len(<<a, b, c>>) = 3 /\ <<a, b, c>>[1] = a
        /\ <<a, b, c>>[2] = b /\ <<a, b, c>>[3] = c
    BY <1>2
  <2>3. \A i \in 1 .. 3 : i = 1 \/ i = 2 \/ i = 3
    OBVIOUS
  <2> QED BY <2>1, <2>2, <2>3, SeqEqual
<1> QED BY <1>4, <1>5

\* The three operations of a stroke.
LEMMA StrokeIs ==
    ASSUME NEW id \in ObjectIds, NEW style \in Styles, NEW points \in Ink, Len(points) > 1
    PROVE  \E first \in BeginStroke, second \in AppendStrokePoints, third \in EndStroke :
              /\ Client!StrokeSequence(id, style, points) = <<first, second, third>>
              /\ first.id = id /\ second.id = id /\ third.id = id
              /\ first.style = style /\ first.start = Head(points)
              /\ second.points = Tail(points)
<1>1. points \in Seq(Points) /\ points # <<>>
  BY InkAssumption
<1>2. Head(points) \in Points /\ Tail(points) \in Seq(Points)
  BY <1>1
<1> DEFINE first == [op |-> "begin_stroke", id |-> id, style |-> style,
                     start |-> Head(points)]
           second == [op |-> "append_stroke_points", id |-> id, points |-> Tail(points)]
           third == [op |-> "end_stroke", id |-> id]
<1>3. Client!StrokeSequence(id, style, points) = <<first>> \o <<second>> \o <<third>>
  BY DEF Client!StrokeSequence
<1>4. first \in BeginStroke /\ second \in AppendStrokePoints /\ third \in EndStroke
  BY <1>2 DEF BeginStroke, AppendStrokePoints, EndStroke
<1>5. /\ first.id = id /\ second.id = id /\ third.id = id
      /\ first.style = style /\ first.start = Head(points)
      /\ second.points = Tail(points)
  OBVIOUS
<1> HIDE DEF first, second, third
<1>6. <<first>> \o <<second>> \o <<third>> = <<first, second, third>>
  BY ThreeIs
<1> QED BY <1>3, <1>4, <1>5, <1>6

\* The operations of strokes and of the eraser are commands.
LEMMA StrokeCommands ==
    /\ BeginStroke \subseteq Command /\ AppendStrokePoints \subseteq Command
    /\ EndStroke \subseteq Command /\ DeleteObject \subseteq Command
    /\ \A first \in BeginStroke : first.op = "begin_stroke"
    /\ \A second \in AppendStrokePoints : second.op = "append_stroke_points"
    /\ \A third \in EndStroke : third.op = "end_stroke"
BY DEF Command, BeginStroke, AppendStrokePoints, EndStroke

\* The one operation of the eraser.
LEMMA EraseIs ==
    ASSUME NEW id \in ObjectIds
    PROVE  \E c \in DeleteObject :
              /\ c.op = "delete_object" /\ c.id = id
              /\ Client!DeleteOperation(id) = <<c>>
BY DEF Client!DeleteOperation, DeleteObject

-----------------------------------------------------------------------------
(* What holds of handlers, queues and clients *)

\* The clients are Qt clients.
QtClients ==
    \A s \in Sessions : \A k \in Qt : \A m \in Hearable : Heard(s, k, m) = Client!Handle(k, m)

\* What a session is doing.
Doing(s) ==
    /\ handler[s].at \in {"idle", "respond", "apply", "collect", "post",
                          "delete", "close", "notify"}
    /\ handler[s].at \in {"respond", "apply", "collect", "post"} =>
         handler[s].request.type = "operation"
    /\ handler[s].at = "respond" => handler[s].message.type = "error"
    /\ handler[s].at \in {"delete", "close", "notify"} =>
         s \in Cabinet /\ handler[s].request.board = TheBoard
    /\ handler[s].at = "notify" => Range(handler[s].to) \subseteq Artists
    /\ board[s] # NoBoard => board[s] = TheBoard /\ s \in Artists

Hearing(s) == \A m \in Range(strand[s]) : m \in Hearable \/ m = Notice(TheBoard)

Using(s, k) ==
    /\ k \in Qt
    /\ k.board # NoBoard => k.board = TheBoard /\ s \in Artists
    /\ k.board = NoBoard => k.pending = <<>> /\ k.awaiting = FALSE
    /\ \A r \in Range(k.sent) : r.board = TheBoard /\ (r.type = "delete" => s \in Cabinet)

Working ==
    /\ \A s \in Sessions : Doing(s) /\ Hearing(s)
    /\ client \in [Sessions -> Qt]
    /\ \A s \in Sessions : Using(s, client[s])

\* Sending keeps a client a user of the one board.
LEMMA FlushedUsing ==
    ASSUME NEW s \in Sessions, NEW k, NEW next, Using(s, k), Flushed(k, next)
    PROVE  Using(s, next)
<1>1. /\ next \in Qt /\ next.board = k.board /\ next.pending = k.pending
      /\ k \in Qt /\ k.sent \in Seq(Wire)
  BY QtIs DEF Flushed, SameBoard, Using
<1>2. next.board = NoBoard => next.pending = <<>> /\ next.awaiting = FALSE
  BY <1>1 DEF Flushed, Using
<1>3. \A r \in Range(next.sent) : r.board = TheBoard /\ (r.type = "delete" => s \in Cabinet)
  <2>1. CASE next.sent = k.sent
    BY <2>1 DEF Using
  <2>2. CASE next.sent # k.sent
    <3>1. k.board # NoBoard
      BY <2>2 DEF Flushed
    <3>2. PICK r \in Wire : /\ r.type = "operation" /\ r.board = k.board
                            /\ next.sent = Append(k.sent, r)
      BY <2>2 DEF Flushed
    <3>3. Range(next.sent) = Range(k.sent) \cup {r}
      BY <1>1, <3>2, AppendRange
    <3> QED BY <3>1, <3>2, <3>3 DEF Using
  <2> QED BY <2>1, <2>2
<1> QED BY <1>1, <1>2, <1>3 DEF Using

\* So does whatever it hears.
LEMMA HandleUsing ==
    ASSUME NEW s \in Sessions, NEW k, Using(s, k), NEW m \in Hearable
    PROVE  Using(s, Client!Handle(k, m))
<1> DEFINE next == Client!Handle(k, m)
<1>0. k \in Qt
  BY DEF Using
<1>1. CASE m.type = "error" /\ Errored(k, m, next)
  <2>1. next \in Qt /\ next.board = k.board /\ next.sent = k.sent /\ next.awaiting = FALSE
    BY <1>1 DEF Errored
  <2>2. ASSUME k.board = NoBoard PROVE next.pending = <<>>
    <3>1. k.pending = <<>>
      BY <2>2 DEF Using
    <3>2. Client!DiscardFrontGroup(k).pending = <<>>
      <4>1. Len(k.pending) = 0
        BY <3>1
      <4>2. 2 .. Len(k.pending) = {}
        BY <4>1
      <4> QED BY <1>0, <4>2, DiscardIs
    <3> QED BY <1>1, <3>1, <3>2 DEF Errored
  <2> QED BY <2>1, <2>2 DEF Using
<1>2. CASE next = k
  BY <1>2
<1>3. CASE \E mid : TookOver(k, m, mid) /\ Flushed(mid, next)
  <2>1. PICK mid : TookOver(k, m, mid) /\ Flushed(mid, next)
    BY <1>3
  <2>2. mid \in Qt /\ mid.board = k.board /\ mid.sent = k.sent
    BY <2>1 DEF TookOver
  <2>3. ASSUME k.board = NoBoard PROVE mid.pending = <<>> /\ mid.awaiting = FALSE
    <3>1. k.pending = <<>> /\ k.awaiting = FALSE
      BY <2>3 DEF Using
    <3> QED BY <2>1, <3>1 DEF TookOver, Acked
  <2>4. Using(s, mid)
    BY <2>2, <2>3 DEF Using
  <2> QED BY <2>1, <2>4, FlushedUsing
<1>4. CASE Lost(k, next)
  BY <1>4 DEF Lost, Using
<1> QED BY <1>0, <1>1, <1>2, <1>3, <1>4, HandleIs

-----------------------------------------------------------------------------
(* What the steps do to them *)

Hears(t, m) == client' = [client EXCEPT ![t] = Client!Handle(@, m)]

\* What is posted to a session that has nothing to run is heard at once.
LEMMA PostIs ==
    ASSUME QtClients, Typed, Working, NEW s \in Sessions, NEW m \in Hearable, Post(s, m)
    PROVE  \/ strand[s] = <<>> /\ strand' = strand /\ Hears(s, m)
           \/ /\ strand[s] # <<>> /\ client' = client
              /\ strand' = [strand EXCEPT ![s] = Append(@, m)]
<1>1. CASE strand[s] = <<>>
  <2>1. client' = [client EXCEPT ![s] = Heard(s, @, m)] /\ strand' = strand
    BY <1>1 DEF Post, Tell
  <2>2. Heard(s, client[s], m) = Client!Handle(client[s], m)
    BY DEF QtClients, Working
  <2>3. PICK k : k = Client!Handle(client[s], m)
    OBVIOUS
  <2>4. client' = [client EXCEPT ![s] = k]
    BY <2>1, <2>2, <2>3
  <2> QED BY <1>1, <2>1, <2>3, <2>4 DEF Hears
<1>2. CASE strand[s] # <<>>
  BY <1>2 DEF Post
<1> QED BY <1>1, <1>2

\* At most one client hears something, and what is posted may be heard.
LEMMA PostHears ==
    ASSUME QtClients, Typed, Working, NEW s \in Sessions, NEW m \in Hearable, Post(s, m)
    PROVE  /\ UNCHANGED client \/ Hears(s, m)
           /\ \A t \in Sessions : Hearing(t)'
<1>1. strand \in [Sessions -> Seq(Message)] /\ m \in Message
  BY DEF Typed, Types, Hearable
<1>2. CASE strand' = strand /\ Hears(s, m)
  BY <1>2 DEF Working, Hearing
<1>3. CASE client' = client /\ strand' = [strand EXCEPT ![s] = Append(@, m)]
  <2>1. \A t \in Sessions : strand'[t] = IF t = s THEN Append(strand[s], m) ELSE strand[t]
    BY <1>1, <1>3
  <2>2. Range(Append(strand[s], m)) = Range(strand[s]) \cup {m}
    BY <1>1, AppendRange
  <2>3. ASSUME NEW t \in Sessions PROVE Hearing(t)'
    <3>1. CASE t = s
      <4>1. Range(strand'[t]) = Range(strand[s]) \cup {m}
        BY <2>1, <2>2, <3>1
      <4>2. \A x \in Range(strand'[t]) : x \in Hearable \/ x = Notice(TheBoard)
        BY <4>1 DEF Working, Hearing
      <4> QED BY <4>2 DEF Hearing, Notice
    <3>2. CASE t # s
      BY <2>1, <3>2 DEF Working, Hearing, Notice
    <3> QED BY <3>1, <3>2
  <2> QED BY <1>3, <2>3
<1> QED BY <1>2, <1>3, PostIs

\* What may be heard may be heard as long as the strands stay.
LEMMA QuietHears ==
    ASSUME Working, strand' = strand
    PROVE  \A t \in Sessions : Hearing(t)'
BY DEF Working, Hearing, Notice

\* A client may hear any error.
LEMMA ErrorsHearable ==
    \A code \in Codes : Error(code) \in Hearable
BY MessageTypes DEF Hearable, Error

\* What a session says while it serves an operation.
LEMMA SaysHearable ==
    ASSUME Typed, Working, NEW s \in Sessions, handler[s].at \in {"respond", "collect", "post"}
    PROVE  /\ handler[s].message \in Hearable
           /\ handler[s].at # "respond" =>
                /\ handler[s].message.type = "operation_applied"
                /\ handler[s].message.board = board[s]
<1>1. handler[s].message \in Message
  BY BusyIs DEF Typed, Types, Handlers
<1>2. CASE handler[s].at = "respond"
  BY <1>1, <1>2 DEF Working, Doing, Hearable
<1>3. CASE handler[s].at \in {"collect", "post"}
  <2>1. handler[s].request.type = "operation"
    BY <1>3 DEF Working, Doing
  <2>2. /\ handler[s].message.type = "operation_applied"
        /\ handler[s].message.board = board[s]
    BY <1>3, <2>1 DEF Typed, Purpose
  <2> QED BY <1>1, <1>3, <2>2 DEF Hearable
<1> QED BY <1>2, <1>3

\* The answers of the handlers are heard by clients.
LEMMA RefusalPosts ==
    ASSUME Typed, Working, NEW s \in Sessions,
           DeleteRefused(s) \/ DeleteLost(s) \/ Deleted(s) \/ OperationRejected(s) \/ Respond(s)
    PROVE  \E m \in Hearable : Post(s, m) /\ (Deleted(s) \/ m.type = "error")
<1>1. CASE DeleteRefused(s) \/ DeleteLost(s)
  <2>1. Post(s, Error("refused")) /\ "refused" \in Codes
    BY <1>1 DEF DeleteRefused, DeleteLost, Answer, Codes
  <2> QED BY <2>1, ErrorsHearable DEF Error
<1>2. CASE Deleted(s)
  <2> DEFINE m == [type |-> "delete_board_response", board |-> handler[s].request.board]
  <2>1. Post(s, m) /\ At(s, "notify")
    BY <1>2 DEF Deleted, Answer
  <2>2. handler[s].request.board \in Boards
    BY <2>1, RequestedIs DEF At
  <2>3. m \in Hearable
    BY <2>2 DEF Hearable, Message
  <2> QED BY <1>2, <2>1, <2>3
<1>3. CASE OperationRejected(s)
  <2>1. PICK code : code = IF Verdict(s) = "ok" THEN "refused" ELSE Verdict(s)
    OBVIOUS
  <2>2. Post(s, Error(code))
    BY <1>3, <2>1 DEF OperationRejected, Answer
  <2>3. code \in Codes
    BY <2>1, VerdictIs DEF Codes
  <2> QED BY <2>2, <2>3, ErrorsHearable DEF Error
<1>4. CASE Respond(s)
  <2>1. Post(s, handler[s].message) /\ handler[s].at = "respond"
    BY <1>4 DEF Respond, At
  <2>2. handler[s].message.type = "error"
    BY <2>1 DEF Working, Doing
  <2> QED BY <2>1, <2>2, SaysHearable
<1> QED BY <1>1, <1>2, <1>3, <1>4

\* Notify tells nobody anything that it may not hear.
LEMMA NotifyHears ==
    ASSUME Typed, Working, NEW s \in Sessions, Notify(s)
    PROVE  /\ UNCHANGED client
           /\ \A t \in Sessions : Hearing(t)'
<1> DEFINE b == handler[s].request.board
           x == Head(handler[s].to)
<1>1. /\ At(s, "notify") /\ b \in Boards /\ x \in Sessions
      /\ strand' = [strand EXCEPT ![x] = Informed(@, x = s, b)]
      /\ client' = client
  BY NotifyIs DEF posts
<1>2. b = TheBoard
  BY <1>1 DEF Working, Doing, At
<1> HIDE DEF b, x
<1>3. strand \in [Sessions -> Seq(Message)]
  BY DEF Typed, Types
<1>4. PICK self \in BOOLEAN : self = (x = s)
  OBVIOUS
<1>5. \A t \in Sessions : strand'[t] = IF t = x THEN Informed(strand[x], self, b) ELSE strand[t]
  BY <1>1, <1>3, <1>4
<1>6. Range(Informed(strand[x], self, b))
        = Range(strand[x]) \cup {Notice(b)} \cup (IF self THEN {} ELSE {BoardDeleted(b)})
  BY <1>1, <1>3, InformedRange
<1>7. BoardDeleted(b) \in Hearable
  BY <1>1, MessageTypes DEF Hearable, BoardDeleted
<1>8. ASSUME NEW t \in Sessions PROVE Hearing(t)'
  <2>1. \A m \in Range(strand'[t]) : m \in Hearable \/ m = Notice(TheBoard)
    <3>1. CASE t = x
      BY <1>1, <1>2, <1>5, <1>6, <1>7, <3>1 DEF Working, Hearing
    <3>2. CASE t # x
      BY <1>5, <3>2 DEF Working, Hearing
    <3> QED BY <3>1, <3>2
  <2> QED BY <2>1 DEF Hearing, Notice
<1> QED BY <1>1, <1>8

\* A session runs the notice of the one board, or passes on what may be heard.
LEMMA RunPostedHears ==
    ASSUME QtClients, Typed, Working, NEW s \in Sessions, RunPosted(s)
    PROVE  /\ \/ client' = client /\ Head(strand[s]) = Notice(TheBoard)
              \/ Head(strand[s]) \in Hearable /\ Hears(s, Head(strand[s]))
           /\ \A t \in Sessions : Hearing(t)'
<1>1. /\ strand[s] \in Seq(Message) /\ strand[s] # <<>>
      /\ \A t \in Sessions : strand'[t] = IF t = s THEN Tail(strand[s]) ELSE strand[t]
  BY RunPostedIs
<1>2. Range(strand[s]) = Range(Tail(strand[s])) \cup {Head(strand[s])}
  BY <1>1, TailRange
<1>3. \A t \in Sessions : Hearing(t)'
  <2>1. ASSUME NEW t \in Sessions
        PROVE  \A m \in Range(strand'[t]) : m \in Hearable \/ m = Notice(TheBoard)
    <3>1. CASE t = s
      BY <1>1, <1>2, <3>1 DEF Working, Hearing
    <3>2. CASE t # s
      BY <1>1, <3>2 DEF Working, Hearing
    <3> QED BY <3>1, <3>2
  <2> QED BY <2>1 DEF Hearing, Notice
<1>4. PICK m : m = Head(strand[s])
  OBVIOUS
<1>5. m \in Hearable \/ m = Notice(TheBoard)
  BY <1>2, <1>4 DEF Working, Hearing
<1>6. CASE m = Notice(TheBoard)
  <2>1. m.type = "notice"
    BY <1>6 DEF Notice
  <2>2. client' = client
    BY <1>4, <2>1 DEF RunPosted
  <2> QED BY <1>3, <1>4, <1>6, <2>2
<1>7. CASE m \in Hearable
  <2>1. m.type # "notice"
    BY <1>7 DEF Hearable
  <2>2. client' = [client EXCEPT ![s] = Heard(s, @, m)]
    BY <1>4, <2>1 DEF RunPosted, Tell
  <2>3. PICK k : k = Client!Handle(client[s], m)
    OBVIOUS
  <2>4. Heard(s, client[s], m) = k
    BY <1>7, <2>3 DEF QtClients, Working
  <2>5. client' = [client EXCEPT ![s] = k]
    BY <2>2, <2>4
  <2> QED BY <1>3, <1>4, <1>7, <2>3, <2>5 DEF Hears
<1> QED BY <1>5, <1>6, <1>7

\* A step of one session leaves the others where they are.
LEMMA SameDoing ==
    ASSUME Working, NEW s \in Sessions, NEW h, Becomes(s, h),
           \A t \in Sessions \ {s} : board'[t] = board[t], Doing(s)'
    PROVE  \A t \in Sessions : Doing(t)'
<1>1. ASSUME NEW t \in Sessions \ {s} PROVE Doing(t)'
  <2>1. handler'[t] = handler[t] /\ board'[t] = board[t]
    BY DEF Becomes
  <2> QED BY <2>1 DEF Working, Doing
<1> QED BY <1>1

\* Action by action: every session keeps doing one of the things of Doing.
LEMMA BroadcastDoing ==
    ASSUME Typed, Working, NEW s \in Sessions, Broadcast(s)
    PROVE  \A t \in Sessions : Doing(t)'
<1>1. CASE Collect(s, "collect", "post")
  <2>1. PICK h : /\ h.at = "post" /\ h.request = handler[s].request /\ Becomes(s, h)
    BY <1>1, CollectMoves, RecordIs DEF BroadcastPlaces
  <2>2. handler[s].at = "collect" /\ board' = board
    BY <1>1 DEF Collect, own, At
  <2>3. handler'[s] = h
    BY <2>1 DEF Becomes
  <2>4. Doing(s)'
    BY <2>1, <2>2, <2>3 DEF Working, Doing
  <2> QED BY <2>1, <2>2, <2>4, SameDoing
<1>2. CASE PostNext(s, "post")
  <2>1. PICK h : /\ h.at = "post" /\ h.request = handler[s].request /\ Becomes(s, h)
    BY <1>2, PostNextMoves, RecordIs
  <2>2. handler[s].at = "post" /\ board' = board
    BY <1>2 DEF PostNext, own, At
  <2>3. handler'[s] = h
    BY <2>1 DEF Becomes
  <2>4. Doing(s)'
    BY <2>1, <2>2, <2>3 DEF Working, Doing
  <2> QED BY <2>1, <2>2, <2>4, SameDoing
<1>3. CASE At(s, "post") /\ handler[s].to = <<>> /\ Finish(s) /\ UNCHANGED <<shared, own, posts>>
  <2>1. Becomes(s, Idle)
    BY <1>3, BroadcastEndMoves
  <2>2. board' = board
    BY <1>3 DEF own
  <2>3. handler'[s] = Idle
    BY <2>1 DEF Becomes
  <2>4. Doing(s)'
    BY <2>2, <2>3 DEF Working, Doing, Idle
  <2> QED BY <2>1, <2>2, <2>4, SameDoing
<1> QED BY <1>1, <1>2, <1>3 DEF Broadcast

\* A handler that is done.
LEMMA IdleDoing ==
    ASSUME Working, NEW s \in Sessions, Becomes(s, Idle), board' = board
    PROVE  \A t \in Sessions : Doing(t)'
<1>1. handler'[s] = Idle
  BY DEF Becomes
<1>2. Doing(s)'
  BY <1>1 DEF Working, Doing, Idle
<1> QED BY <1>2, SameDoing

\* An operation was answered.
LEMMA RespondDoing ==
    ASSUME Typed, Working, NEW s \in Sessions, Respond(s)
    PROVE  \A t \in Sessions : Doing(t)'
<1>1. handler[s].at = "respond" /\ board' = board
  BY DEF Respond, At, own
<1>2. handler[s].request.type # "join"
  BY <1>1 DEF Working, Doing
<1>3. Becomes(s, Idle)
  BY <1>2, RespondMoves
<1> QED BY <1>1, <1>3, IdleDoing

\* An operation was applied or refused.
LEMMA OperationDoing ==
    ASSUME Typed, Working, NEW s \in Sessions, ApplyOperation(s) \/ OperationRejected(s)
    PROVE  \A t \in Sessions : Doing(t)'
<1>1. CASE ApplyOperation(s)
  <2>1. PICK h : /\ h.at = "collect" /\ h.request = handler[s].request /\ Becomes(s, h)
    BY <1>1, ApplyOperationMoves, RecordIs
  <2>2. handler[s].at = "apply" /\ board' = board
    BY <1>1 DEF ApplyOperation, own, At
  <2>3. handler'[s] = h
    BY <2>1 DEF Becomes
  <2>4. Doing(s)'
    BY <2>1, <2>2, <2>3 DEF Working, Doing
  <2> QED BY <2>1, <2>2, <2>4, SameDoing
<1>2. CASE OperationRejected(s)
  <2>1. board' = board
    BY <1>2 DEF OperationRejected, own
  <2> QED BY <1>2, <2>1, OperationRejectedMoves, IdleDoing
<1> QED BY <1>1, <1>2

\* The deletion, from the refusal to the answer.
LEMMA DeleteDoing ==
    ASSUME Typed, Present, Working, NEW s \in Sessions, Delete(s)
    PROVE  \A t \in Sessions : Doing(t)'
<1>1. CASE DeleteRefused(s)
  <2>1. Answer(s, Error("refused")) /\ UNCHANGED <<shared, own>> /\ "refused" \in Codes
    BY <1>1 DEF DeleteRefused, Codes
  <2>2. Becomes(s, Idle)
    BY <2>1, RefusedMoves
  <2> QED BY <2>1, <2>2, IdleDoing DEF own
<1>6. CASE DeleteLost(s)
  <2>1. board' = board
    BY <1>6 DEF DeleteLost, own
  <2> QED BY <1>6, <2>1, DeleteLostMoves, IdleDoing
<1>2. CASE DeleteRows(s)
  <2>1. PICK h : /\ h.at = "close" /\ h.request = handler[s].request /\ Becomes(s, h)
    BY <1>2, DeleteRowsMoves, RecordIs
  <2>2. handler[s].at = "delete" /\ board' = board
    BY <1>2 DEF DeleteRows, own, At
  <2>3. handler'[s] = h
    BY <2>1 DEF Becomes
  <2>4. Doing(s)'
    BY <2>1, <2>2, <2>3 DEF Working, Doing
  <2> QED BY <2>1, <2>2, <2>4, SameDoing
<1>3. CASE CloseBoard(s)
  <2>1. PICK h : /\ h.at = "notify" /\ h.request = handler[s].request
                 /\ h.to = subscribers[handler[s].request.board] /\ Becomes(s, h)
    BY <1>3, CloseBoardMoves, RecordIs
  <2>2. handler[s].at = "close" /\ board' = board
    BY <1>3 DEF CloseBoard, own, At
  <2>3. handler'[s] = h
    BY <2>1 DEF Becomes
  <2>4. handler[s].request.board = TheBoard
    BY <2>2 DEF Working, Doing
  <2>5. Range(h.to) \subseteq Artists
    <3>1. h.to = subscribers[TheBoard]
      BY <2>1, <2>4
    <3>2. subscribers[TheBoard] \in Seq(Sessions)
      BY TheBoardAssumption DEF Typed, Types
    <3>3. \A t \in Range(subscribers[TheBoard]) : t \in Sessions /\ board[t] = TheBoard
      BY <3>2, TheBoardAssumption DEF Present, Subscribed, On, Range
    <3>4. TheBoard # NoBoard
      BY TheBoardAssumption, BoardsAssumption
    <3> QED BY <3>1, <3>3, <3>4 DEF Working, Doing
  <2>6. Doing(s)'
    BY <2>1, <2>2, <2>3, <2>5 DEF Working, Doing
  <2> QED BY <2>1, <2>2, <2>6, SameDoing
<1>4. CASE Notify(s)
  <2>1. PICK h : /\ h.at = "notify" /\ h.request = handler[s].request
                 /\ h.to = Tail(handler[s].to) /\ Becomes(s, h)
    BY <1>4, NotifyIs, RecordIs
  <2>2. /\ handler[s].at = "notify" /\ board' = board
        /\ handler[s].to \in Seq(Sessions) /\ handler[s].to # <<>>
    BY <1>4, NotifyIs DEF own, At
  <2>3. handler'[s] = h
    BY <2>1 DEF Becomes
  <2>4. Range(h.to) \subseteq Artists
    <3>1. Range(h.to) \subseteq Range(handler[s].to)
      BY <2>1, <2>2, TailRange
    <3> QED BY <2>2, <3>1 DEF Working, Doing
  <2>5. Doing(s)'
    BY <2>1, <2>2, <2>3, <2>4 DEF Working, Doing
  <2> QED BY <2>1, <2>2, <2>5, SameDoing
<1>5. CASE Deleted(s)
  <2>1. board' = board
    BY <1>5 DEF Deleted, own
  <2> QED BY <1>5, <2>1, DeletedMoves, IdleDoing
<1> QED BY <1>1, <1>2, <1>3, <1>4, <1>5, <1>6 DEF Delete

\* The notice takes the session off the board.
LEMMA RunPostedDoing ==
    ASSUME Typed, Working, NEW s \in Sessions, RunPosted(s)
    PROVE  \A t \in Sessions : Doing(t)'
<1>1. handler' = handler /\ \A t \in Sessions : board'[t] = board[t] \/ board'[t] = NoBoard
  BY RunPostedIs
<1>2. ASSUME NEW t \in Sessions PROVE Doing(t)'
  BY <1>1 DEF Working, Doing
<1> QED BY <1>2

-----------------------------------------------------------------------------
(* What a client sends is read *)

\* What a client sends is a request.
LEMMA WireIs ==
    /\ Wire \subseteq AnyRequest
    /\ \A r \in Wire : /\ r.type \in {"operation", "delete"} /\ r.board \in Boards
                       /\ r.type = "operation" => r.base \in Nat /\ r.command \in Command
BY DEF Wire, AnyRequest

\* The session takes r from the queue, and q is left of it.
Delivers(s, r, q, place, m) ==
    /\ handler[s].at = "idle"
    /\ client[s].sent # <<>> /\ r = Head(client[s].sent) /\ q = Tail(client[s].sent)
    /\ Range(client[s].sent) = Range(q) \cup {r}
    /\ client' = [client EXCEPT ![s].sent = q]
    /\ Accept(s, r) /\ asked' = asked
    /\ Becomes(s, Record(place, r, m, <<>>))
    /\ place = "apply" => r.type = "operation" /\ board[s] = r.board
    /\ place = "delete" => r.type = "delete"
    /\ place = "respond" => r.type = "operation" /\ m.type = "error"
                            /\ board[s] # r.board

\* Deliver, as Delivers.
LEMMA DeliverIs ==
    ASSUME Typed, Working, NEW s \in Sessions, Deliver(s)
    PROVE  \E r \in Wire, q \in Seq(Wire), place \in {"apply", "delete", "respond"}, m \in Message :
              Delivers(s, r, q, place, m)
<1>1. client[s] \in Qt /\ client[s].sent \in Seq(Wire) /\ client[s].sent # <<>>
  BY QtIs DEF Deliver, Working
<1>2. PICK r \in Wire : r = Head(client[s].sent)
  BY <1>1
<1>3. Tail(client[s].sent) \in Seq(Wire)
  BY <1>1
<1>4. PICK q \in Seq(Wire) : q = Tail(client[s].sent)
  BY <1>3
<1>5. Range(client[s].sent) = Range(q) \cup {r}
  BY <1>1, <1>2, <1>4, TailRange
<1>6. client' = [client EXCEPT ![s].sent = q] /\ asked' = asked /\ Accept(s, r)
  BY <1>2, <1>4 DEF Deliver
<1>7. handler \in Handlers /\ r \in AnyRequest /\ handler[s].at = "idle" /\ Dispatch(s, r)
  BY <1>6, WireIs DEF Typed, Types, Handlers, Accept, At
<1>8. \/ r.type = "operation" /\ board[s] = r.board /\ Begin(s, r, "apply")
      \/ r.type = "delete" /\ Begin(s, r, "delete")
      \/ r.type = "operation" /\ board[s] # r.board
         /\ \E code \in Codes : Reply(s, r, Error(code))
  <2>1. r.board # NoBoard
    BY WireIs, BoardsAssumption
  <2>2. CASE r.type = "delete"
    BY <1>7, <2>2 DEF Dispatch
  <2>3. CASE r.type = "operation"
    <3>1. IF board[s] = NoBoard THEN Reply(s, r, Error("access_denied"))
           ELSE IF board[s] # r.board THEN Reply(s, r, Error("invalid_argument"))
           ELSE Begin(s, r, "apply")
      BY <1>7, <2>3 DEF Dispatch
    <3> QED BY <2>1, <2>3, <3>1 DEF Codes
  <2> QED BY <2>2, <2>3, WireIs
<1>9. \E place \in {"apply", "delete", "respond"}, m \in Message :
         /\ Becomes(s, Record(place, r, m, <<>>))
         /\ place = "apply" => r.type = "operation" /\ board[s] = r.board
         /\ place = "delete" => r.type = "delete"
         /\ place = "respond" => r.type = "operation" /\ m.type = "error" /\ board[s] # r.board
  <2>0. [type |-> "none"] \in Message
    BY DEF Message
  <2>1. CASE r.type = "operation" /\ board[s] = r.board /\ Begin(s, r, "apply")
    <3>1. Becomes(s, Record("apply", r, [type |-> "none"], <<>>))
      BY <1>7, <2>1, BeginMoves DEF Places
    <3> QED BY <2>0, <2>1, <3>1
  <2>2. CASE r.type = "delete" /\ Begin(s, r, "delete")
    <3>1. Becomes(s, Record("delete", r, [type |-> "none"], <<>>))
      BY <1>7, <2>2, BeginMoves DEF Places
    <3> QED BY <2>0, <2>2, <3>1
  <2>3. CASE r.type = "operation" /\ board[s] # r.board
             /\ \E code \in Codes : Reply(s, r, Error(code))
    <3>1. PICK code \in Codes : Reply(s, r, Error(code))
      BY <2>3
    <3>2. Error(code) \in Message /\ Error(code).type = "error"
      BY MessageTypes DEF Error
    <3>3. Becomes(s, Record("respond", r, Error(code), <<>>))
      BY <1>7, <3>1, <3>2, ReplyMoves
    <3> QED BY <2>3, <3>2, <3>3
  <2> QED BY <1>8, <2>1, <2>2, <2>3
<1> QED BY <1>1, <1>2, <1>4, <1>5, <1>6, <1>7, <1>9 DEF Delivers

\* The session reads a request.
LEMMA DeliverWorks ==
    ASSUME Typed, Present, Working, NEW s \in Sessions, Deliver(s)
    PROVE  Typed' /\ Present' /\ Working'
<1>0. PICK r \in Wire, q \in Seq(Wire), place \in {"apply", "delete", "respond"}, m \in Message :
         Delivers(s, r, q, place, m)
  BY DeliverIs
<1>1. /\ Range(client[s].sent) = Range(q) \cup {r}
      /\ client' = [client EXCEPT ![s].sent = q]
      /\ Accept(s, r) /\ asked' = asked
      /\ Becomes(s, Record(place, r, m, <<>>))
      /\ place = "apply" => r.type = "operation" /\ board[s] = r.board
      /\ place = "delete" => r.type = "delete"
      /\ place = "respond" => r.type = "operation" /\ m.type = "error"
  BY <1>0 DEF Delivers
<1>2. r \in AnyRequest /\ asked' \in [Sessions -> 0 .. MaxRequests]
  BY <1>1, WireIs DEF Typed, Types
<1>3. Typed' /\ Present'
  BY <1>1, <1>2, AcceptMoves, AcceptPresent
<1>4. client[s] \in Qt /\ Using(s, client[s]) /\ client \in [Sessions -> Qt]
  BY DEF Working
<1>5. r.board = TheBoard /\ (r.type = "delete" => s \in Cabinet)
  BY <1>1, <1>4 DEF Using
<1>6. \A t \in Sessions : Doing(t)'
  <2>1. board' = board
    BY <1>1 DEF Accept
  <2>2. PICK h : /\ h.at = place /\ h.request = r /\ h.message = m /\ Becomes(s, h)
    BY <1>1, RecordIs
  <2>3. handler'[s] = h
    BY <2>2 DEF Becomes
  <2>4. Doing(s)'
    BY <1>1, <1>5, <2>1, <2>2, <2>3 DEF Working, Doing
  <2> QED BY <2>1, <2>2, <2>4, SameDoing
<1>7. \A t \in Sessions : Hearing(t)'
  <2>1. strand' = strand
    BY <1>1 DEF Accept
  <2> QED BY <2>1, QuietHears
<1>8. PICK k : k = [client[s] EXCEPT !.sent = q]
  OBVIOUS
<1>9. client' = [client EXCEPT ![s] = k]
  BY <1>1, <1>8
<1>10. k \in Qt /\ Using(s, k)
  <2>1. /\ client[s].board \in Boards \cup {NoBoard} /\ client[s].revision \in Nat
        /\ client[s].objects \in Objects /\ client[s].pending \in Seq(Command)
        /\ client[s].awaiting \in BOOLEAN /\ client[s].timer \in BOOLEAN
        /\ client[s].used \in SUBSET ObjectIds
        /\ client[s] = Made(client[s].board, client[s].revision, client[s].objects,
                            client[s].pending, client[s].awaiting, client[s].timer,
                            client[s].sent, client[s].used)
    BY <1>4, QtIs
  <2>2. k = Made(client[s].board, client[s].revision, client[s].objects,
                 client[s].pending, client[s].awaiting, client[s].timer, q, client[s].used)
    BY <1>8, <2>1 DEF Made
  <2>3. k \in Qt
    BY <2>1, <2>2, MadeTyped
  <2>4. /\ k.board = client[s].board /\ k.pending = client[s].pending
        /\ k.awaiting = client[s].awaiting /\ k.sent = q
    BY <2>2 DEF Made
  <2> QED BY <1>1, <1>4, <2>3, <2>4 DEF Using
<1>11. client' \in [Sessions -> Qt] /\ \A t \in Sessions : Using(t, client'[t])
  BY <1>4, <1>9, <1>10 DEF Working
<1>12. Working'
  BY <1>6, <1>7, <1>11 DEF Working, Using, Qt
<1> QED BY <1>3, <1>12

\* A step that changes nothing but a client, and counts what its user did.
LEMMA ClientWorks ==
    ASSUME Typed, Present, Working, NEW s \in Sessions, NEW k, Using(s, k),
           client' = [client EXCEPT ![s] = k],
           UNCHANGED <<shared, board, reading, ghost, handler, strand>>,
           asked' \in [Sessions -> 0 .. MaxRequests]
    PROVE  Typed' /\ Present' /\ Working'
<1>1. UNCHANGED <<rows, kept, runtime, subscribers, board, reading, ghost, handler, strand>>
  BY DEF shared
<1>2. Typed'
  BY <1>1 DEF Typed, Types, Purpose
<1>3. Present'
  BY <1>1 DEF Present, Held, Sharer, Holder, Opened, Subscribed, On, Gone, Closing, Warned,
     Noticed, At, Notice
<1>4. client' \in [Sessions -> Qt] /\ \A t \in Sessions : Using(t, client'[t])
  BY DEF Working, Using
<1>5. \A t \in Sessions : Doing(t)' /\ Hearing(t)'
  BY <1>1 DEF Working, Doing, Hearing, Notice
<1> QED BY <1>2, <1>3, <1>4, <1>5 DEF Working, Using, Qt

\* A step of the server: at most one client hears something.
LEMMA ServerWorks ==
    ASSUME Typed, Present, Working,
           UNCHANGED client \/ \E t \in Sessions : \E m \in Hearable : Hears(t, m),
           Typed', Present', \A t \in Sessions : Doing(t)' /\ Hearing(t)'
    PROVE  Working'
<1>1. client' \in [Sessions -> Qt] /\ \A t \in Sessions : Using(t, client'[t])
  <2>1. CASE UNCHANGED client
    BY <2>1 DEF Working
  <2>2. CASE \E t \in Sessions : \E m \in Hearable : Hears(t, m)
    <3>1. PICK x \in Sessions, m \in Hearable : Hears(x, m)
      BY <2>2
    <3>2. PICK k : k = Client!Handle(client[x], m)
      OBVIOUS
    <3>3. Using(x, k)
      BY <3>2, HandleUsing DEF Working
    <3>4. client' = [client EXCEPT ![x] = k]
      BY <3>1, <3>2 DEF Hears
    <3> QED BY <3>3, <3>4 DEF Working, Using
  <2> QED BY <2>1, <2>2
<1> QED BY <1>1 DEF Working, Using, Qt

\* A handler posts one message at most, but for Notify and RunPosted.
LEMMA ServePosts ==
    ASSUME Typed, Working, NEW s \in Sessions, Serve(s), ~Notify(s), ~RunPosted(s)
    PROVE  /\ board' = board
           /\ \/ UNCHANGED posts
              \/ \E t \in Sessions : \E m \in Hearable : Post(t, m)
<1>1. CASE PostNext(s, "post")
  <2>1. handler[s].at = "post" /\ handler[s].to # <<>>
        /\ Post(Head(handler[s].to), handler[s].message)
    BY <1>1 DEF PostNext, At
  <2>2. handler[s].message \in Hearable
    BY <2>1, SaysHearable
  <2>3. handler[s].to \in Seq(Sessions)
    BY <2>1, BusyIs DEF Typed, Types, Handlers
  <2>4. Head(handler[s].to) \in Sessions
    BY <2>1, <2>3
  <2>5. board' = board
    BY <1>1 DEF PostNext, own
  <2> QED BY <2>1, <2>2, <2>4, <2>5
<1>2. CASE DeleteRefused(s) \/ DeleteLost(s) \/ Deleted(s) \/ OperationRejected(s) \/ Respond(s)
  <2>1. board' = board
    BY <1>2 DEF DeleteRefused, DeleteLost, Deleted, OperationRejected, Respond, own
  <2> QED BY <1>2, <2>1, RefusalPosts
<1>3. CASE UNCHANGED <<own, posts>>
  BY <1>3 DEF own
<1>4. \/ PostNext(s, "post")
      \/ DeleteRefused(s) \/ DeleteLost(s) \/ Deleted(s) \/ OperationRejected(s) \/ Respond(s)
      \/ UNCHANGED <<own, posts>>
  BY DEF Serve, Broadcast, Delete, Collect, ApplyOperation, DeleteRows, CloseBoard
<1> QED BY <1>1, <1>2, <1>3, <1>4

\* And by that at most one client hears something.
LEMMA ServeHears ==
    ASSUME QtClients, Typed, Working, NEW s \in Sessions, Serve(s)
    PROVE  /\ UNCHANGED client \/ \E t \in Sessions : \E m \in Hearable : Hears(t, m)
           /\ \A t \in Sessions : Hearing(t)'
<1>1. CASE Notify(s)
  BY <1>1, NotifyHears
<1>2. CASE RunPosted(s)
  BY <1>2, RunPostedHears
<1>3. CASE UNCHANGED posts
  BY <1>3, QuietHears DEF posts
<1>4. CASE \E t \in Sessions : \E m \in Hearable : Post(t, m)
  BY <1>4, PostHears
<1> QED BY <1>1, <1>2, <1>3, <1>4, ServePosts

\* The steps of the server keep what holds of handlers and clients.
LEMMA ServeWorks ==
    ASSUME QtClients, Typed, Present, Working, NEW s \in Sessions, Serve(s)
    PROVE  Typed' /\ Present' /\ Working'
<1>1. CASE Broadcast(s)
  <2>1. Typed'
    BY <1>1, CollectMoves, PostNextMoves, BroadcastEndMoves DEF Broadcast, BroadcastPlaces
  <2> QED BY <1>1, <2>1, BroadcastPresent, BroadcastDoing, ServeHears, ServerWorks
<1>2. CASE Respond(s)
  BY <1>2, RespondMoves, JoinPresent, RespondDoing, ServeHears, ServerWorks
<1>3. CASE Delete(s)
  <2>1. Typed'
    <3>1. CASE DeleteRefused(s)
      <4>1. Answer(s, Error("refused")) /\ UNCHANGED <<shared, own>> /\ "refused" \in Codes
        BY <3>1 DEF DeleteRefused, Codes
      <4> QED BY <4>1, RefusedMoves
    <3>2. CASE ~DeleteRefused(s)
      BY <1>3, <3>2, DeleteLostMoves, DeleteRowsMoves, CloseBoardMoves, NotifyMoves, DeletedMoves
         DEF Delete
    <3> QED BY <3>1, <3>2
  <2>2. Present'
    BY <1>3, RefusalPresent, DeleteRowsPresent, CloseBoardPresent, NotifyPresent DEF Delete
  <2> QED BY <1>3, <2>1, <2>2, DeleteDoing, ServeHears, ServerWorks
<1>4. CASE RunPosted(s)
  BY <1>4, RunPostedMoves, RunPostedPresent, RunPostedDoing, ServeHears, ServerWorks
<1>5. CASE ApplyOperation(s)
  BY <1>5, ApplyOperationMoves, OperationPresent, OperationDoing, ServeHears, ServerWorks
<1>6. CASE OperationRejected(s)
  BY <1>6, OperationRejectedMoves, OperationPresent, OperationDoing, ServeHears, ServerWorks
<1> QED BY <1>1, <1>2, <1>3, <1>4, <1>5, <1>6 DEF Serve

-----------------------------------------------------------------------------
(* The user *)

\* What drawing and erasing do to a client: operations join the queue.
Enqueued(k, operations, used, next) ==
    \E mid \in Qt :
        /\ mid.board = k.board /\ mid.objects = k.objects
        /\ mid.pending = k.pending \o operations
        /\ mid.awaiting = k.awaiting /\ mid.timer = k.timer
        /\ mid.sent = k.sent /\ mid.used = used
        /\ Flushed(mid, next)

\* An identifier is marked as used.
LEMMA MarkUsed ==
    ASSUME NEW k \in Qt, NEW used \in SUBSET ObjectIds
    PROVE  LET next == [k EXCEPT !.used = used] IN
           /\ next \in Qt
           /\ next = Made(k.board, k.revision, k.objects, k.pending, k.awaiting, k.timer,
                          k.sent, used)
<1>0. /\ k.board \in Boards \cup {NoBoard} /\ k.revision \in Nat
      /\ k.objects \in Objects /\ k.pending \in Seq(Command)
      /\ k.awaiting \in BOOLEAN /\ k.timer \in BOOLEAN
      /\ k.sent \in Seq(Wire)
      /\ k = Made(k.board, k.revision, k.objects, k.pending, k.awaiting, k.timer,
                  k.sent, k.used)
  BY QtIs
<1> DEFINE next == [k EXCEPT !.used = used]
<1>1. next = [k EXCEPT !.used = used]
  OBVIOUS
<1> HIDE DEF next
<1>2. next = Made(k.board, k.revision, k.objects, k.pending, k.awaiting, k.timer,
                  k.sent, used)
  BY <1>0, <1>1 DEF Made
<1>3. next \in Qt
  BY <1>0, <1>2, MadeTyped
<1> QED BY <1>2, <1>3 DEF next

\* Which might as well have been done before sending.
LEMMA FlushedMark ==
    ASSUME NEW k \in Qt, NEW next, Flushed(k, next), NEW used \in SUBSET ObjectIds
    PROVE  Flushed([k EXCEPT !.used = used], [next EXCEPT !.used = used])
<1>1. PICK k1 : k1 = [k EXCEPT !.used = used]
  OBVIOUS
<1>2. PICK next1 : next1 = [next EXCEPT !.used = used]
  OBVIOUS
<1>3. next \in Qt
  BY DEF Flushed
<1>4. /\ k1.board = k.board /\ k1.revision = k.revision /\ k1.objects = k.objects
      /\ k1.pending = k.pending /\ k1.awaiting = k.awaiting /\ k1.timer = k.timer
      /\ k1.sent = k.sent /\ k1.used = used
  BY <1>1, MarkUsed, MadeIs
<1>5. next1 = Made(next.board, next.revision, next.objects, next.pending, next.awaiting,
                    next.timer, next.sent, used)
  BY <1>2, <1>3, MarkUsed
<1>6. /\ next1.board = next.board /\ next1.revision = next.revision
      /\ next1.objects = next.objects /\ next1.pending = next.pending
      /\ next1.awaiting = next.awaiting /\ next1.timer = next.timer
      /\ next1.sent = next.sent /\ next1.used = used
  BY <1>5 DEF Made
<1>7. next1 \in Qt
  BY <1>2, <1>3, MarkUsed
<1>8. SameBoard(k1, next1)
  BY <1>4, <1>6 DEF Flushed, SameBoard
<1>9. Flushed(k1, next1)
  BY <1>4, <1>6, <1>7, <1>8 DEF Flushed
<1> QED BY <1>1, <1>2, <1>9

\* DrawStroke, as three operations that join the queue.
LEMMA DrawIs ==
    ASSUME Working, NEW s \in Sessions, DrawStroke(s)
    PROVE  \E id \in ObjectIds, first \in BeginStroke, second \in AppendStrokePoints,
              third \in EndStroke, next \in Qt :
              /\ \A t \in Sessions : id \notin client[t].used
              /\ first.id = id /\ second.id = id /\ third.id = id
              /\ first.style \in Styles /\ <<first.start>> \o second.points \in Ink
              /\ second.points # <<>>
              /\ client[s].board = TheBoard
              /\ Enqueued(client[s], <<first, second, third>>, client[s].used \cup {id}, next)
              /\ Gesture(s, next)
<1>1. PICK id \in Unused, style \in Styles, points \in Ink :
         /\ client[s].board = TheBoard
         /\ Len(points) > 1
         /\ Gesture(s, [Client!EnqueueOperations(client[s],
                            Client!StrokeSequence(id, style, points))
                          EXCEPT !.used = @ \cup {id}])
  BY DEF DrawStroke
<1>2. id \in ObjectIds /\ \A t \in Sessions : id \notin client[t].used
  BY DEF Unused
<1>3. PICK first \in BeginStroke, second \in AppendStrokePoints, third \in EndStroke :
         /\ Client!StrokeSequence(id, style, points) = <<first, second, third>>
         /\ first.id = id /\ second.id = id /\ third.id = id
         /\ first.style = style /\ first.start = Head(points)
         /\ second.points = Tail(points)
  BY <1>1, <1>2, StrokeIs
<1>4. /\ first.style \in Styles /\ <<first.start>> \o second.points \in Ink
      /\ second.points # <<>>
  <2>1. points \in Seq(Points) /\ points # <<>>
    BY InkAssumption
  <2>2. <<Head(points)>> \o Tail(points) = points
    BY <2>1
  <2>3. Tail(points) # <<>>
    <3>1. Len(points) \in Nat /\ Len(points) > 1 /\ Len(Tail(points)) = Len(points) - 1
      BY <1>1, <2>1, HeadTailProperties
    <3>2. Len(Tail(points)) # 0
      BY <3>1
    <3>3. Len(<<>>) = 0
      OBVIOUS
    <3> QED BY <3>2, <3>3, Zenon
  <2> QED BY <1>3, <2>2, <2>3
<1>5. client[s] \in Qt /\ client[s].used \in SUBSET ObjectIds /\ client[s].board # NoBoard
  BY <1>1, QtIs, TheBoardAssumption, BoardsAssumption DEF Working
<1>6. <<first, second, third>> \in Seq(Command)
  <2>1. first \in Command /\ second \in Command /\ third \in Command
    BY StrokeCommands
  <2> QED BY <2>1
<1>7. PICK e : e = Client!EnqueueOperations(client[s], <<first, second, third>>)
  OBVIOUS
<1>8. PICK mid \in Qt :
         /\ mid.board = client[s].board /\ mid.objects = client[s].objects
         /\ mid.pending = client[s].pending \o <<first, second, third>>
         /\ mid.awaiting = client[s].awaiting /\ mid.timer = client[s].timer
         /\ mid.sent = client[s].sent /\ mid.used = client[s].used
         /\ Flushed(mid, e)
  BY <1>5, <1>6, <1>7, EnqueueIs
<1>9. e \in Qt /\ e.used = client[s].used
  BY <1>8 DEF Flushed, SameBoard
<1>10. PICK used \in SUBSET ObjectIds : used = client[s].used \cup {id}
  BY <1>2, <1>5
<1>11. PICK next : next = [e EXCEPT !.used = used]
  OBVIOUS
<1>12. PICK mid1 : mid1 = [mid EXCEPT !.used = used]
  OBVIOUS
<1>13. mid1 \in Qt /\ Flushed(mid1, next) /\ next \in Qt
  BY <1>8, <1>9, <1>11, <1>12, MarkUsed, FlushedMark
<1>14. /\ mid1.board = mid.board /\ mid1.objects = mid.objects
       /\ mid1.pending = mid.pending /\ mid1.awaiting = mid.awaiting
       /\ mid1.timer = mid.timer /\ mid1.sent = mid.sent /\ mid1.used = used
  BY <1>12, MarkUsed, MadeIs
<1>15. Enqueued(client[s], <<first, second, third>>, client[s].used \cup {id}, next)
  BY <1>8, <1>10, <1>13, <1>14 DEF Enqueued
<1>16. Gesture(s, next)
  <2>1. [e EXCEPT !.used = @ \cup {id}] = next
    BY <1>9, <1>10, <1>11
  <2> QED BY <1>1, <1>3, <1>7, <2>1
<1> QED BY <1>1, <1>2, <1>3, <1>4, <1>13, <1>15, <1>16

\* EraseObject, as one that does.
LEMMA EraserIs ==
    ASSUME Working, NEW s \in Sessions, EraseObject(s)
    PROVE  \E c \in DeleteObject, next \in Qt :
              /\ c.op = "delete_object" /\ Active(client[s].objects[c.id])
              /\ \/ client[s].board = NoBoard /\ next = client[s]
                 \/ client[s].board # NoBoard
                    /\ Enqueued(client[s], <<c>>, client[s].used, next)
              /\ Gesture(s, next)
<1>1. PICK id \in ObjectIds :
         /\ Active(client[s].objects[id])
         /\ Gesture(s, Client!EnqueueOperations(client[s], Client!DeleteOperation(id)))
  BY DEF EraseObject
<1>2. PICK c \in DeleteObject :
         c.op = "delete_object" /\ c.id = id /\ Client!DeleteOperation(id) = <<c>>
  BY EraseIs
<1>3. client[s] \in Qt
  BY DEF Working
<1>4. <<c>> \in Seq(Command)
  BY StrokeCommands
<1>5. PICK next : next = Client!EnqueueOperations(client[s], <<c>>)
  OBVIOUS
<1>6. CASE client[s].board = NoBoard /\ next = client[s]
  BY <1>1, <1>2, <1>3, <1>5, <1>6
<1>7. CASE client[s].board # NoBoard
  <2>1. Enqueued(client[s], <<c>>, client[s].used, next)
    BY <1>3, <1>4, <1>5, <1>7, EnqueueIs DEF Enqueued
  <2>2. next \in Qt
    BY <2>1 DEF Enqueued, Flushed
  <2> QED BY <1>1, <1>2, <1>5, <1>7, <2>1, <2>2
<1> QED BY <1>3, <1>4, <1>5, <1>6, <1>7, EnqueueIs

\* Both keep a client a user of the one board.
LEMMA EnqueuedUsing ==
    ASSUME NEW s \in Sessions, NEW k, Using(s, k), k.board # NoBoard,
           NEW operations, NEW used, NEW next, Enqueued(k, operations, used, next)
    PROVE  Using(s, next)
<1>1. PICK mid \in Qt : mid.board = k.board /\ mid.sent = k.sent /\ Flushed(mid, next)
  BY DEF Enqueued
<1>2. Using(s, mid)
  BY <1>1 DEF Using
<1> QED BY <1>1, <1>2, FlushedUsing

\* What a user does keeps what holds of handlers and clients.
LEMMA GestureWorks ==
    ASSUME Typed, Present, Working, NEW s \in Sessions, NEW k, Using(s, k), Gesture(s, k)
    PROVE  Typed' /\ Present' /\ Working'
<1>1. asked' \in [Sessions -> 0 .. MaxRequests]
  <2>1. asked \in [Sessions -> 0 .. MaxRequests] /\ asked[s] < MaxRequests
    BY DEF Typed, Types, Gesture
  <2>2. asked[s] + 1 \in 0 .. MaxRequests
    BY <2>1, BoundAssumption
  <2> QED BY <2>1, <2>2 DEF Gesture
<1> QED BY <1>1, ClientWorks DEF Gesture

\* The request to delete the board.
LEMMA PressIs ==
    ASSUME Working, NEW s \in Sessions, DeleteTheBoard(s)
    PROVE  \E r \in Wire, q \in Seq(Wire), next \in Qt :
              /\ r.type = "delete" /\ r.board = TheBoard /\ s \in Cabinet
              /\ q = Append(client[s].sent, r)
              /\ next = Made(client[s].board, client[s].revision, client[s].objects,
                             client[s].pending, client[s].awaiting, client[s].timer,
                             q, client[s].used)
              /\ Gesture(s, next)
<1>1. PICK k : k = client[s]
  OBVIOUS
<1>2. k \in Qt
  BY <1>1 DEF Working
<1>3. /\ k.board \in Boards \cup {NoBoard} /\ k.revision \in Nat
      /\ k.objects \in Objects /\ k.pending \in Seq(Command)
      /\ k.awaiting \in BOOLEAN /\ k.timer \in BOOLEAN
      /\ k.sent \in Seq(Wire) /\ k.used \in SUBSET ObjectIds
      /\ k = Made(k.board, k.revision, k.objects, k.pending, k.awaiting, k.timer,
                  k.sent, k.used)
  BY <1>2, QtIs
<1>4. PICK r : r = [type |-> "delete", board |-> TheBoard]
  OBVIOUS
<1>5. r \in Wire /\ r.type = "delete" /\ r.board = TheBoard
  BY <1>4, TheBoardAssumption DEF Wire
<1>6. Append(k.sent, r) \in Seq(Wire)
  BY <1>3, <1>5
<1>7. PICK q \in Seq(Wire) : q = Append(k.sent, r)
  BY <1>6
<1>8. PICK next : next = Made(k.board, k.revision, k.objects, k.pending, k.awaiting, k.timer,
                              q, k.used)
  OBVIOUS
<1>9. next \in Qt
  BY <1>3, <1>8, MadeTyped
<1>10. next = [k EXCEPT !.sent = Append(@, r)]
  <2>1. next = [k EXCEPT !.sent = q]
    BY <1>3, <1>8 DEF Made
  <2> QED BY <1>7, <2>1
<1>11. s \in Cabinet /\ Gesture(s, next)
  BY <1>1, <1>4, <1>10 DEF DeleteTheBoard
<1> QED BY <1>1, <1>5, <1>7, <1>8, <1>9, <1>11

\* All that a user does.
LEMMA UserWorks ==
    ASSUME Typed, Present, Working, NEW s \in Sessions,
           DrawStroke(s) \/ EraseObject(s) \/ DeleteTheBoard(s)
    PROVE  Typed' /\ Present' /\ Working'
<1>0. Using(s, client[s]) /\ client[s] \in Qt
  BY DEF Working
<1>1. CASE DrawStroke(s)
  <2>1. PICK id \in ObjectIds, first \in BeginStroke, second \in AppendStrokePoints,
              third \in EndStroke, next \in Qt :
           /\ client[s].board = TheBoard
           /\ Enqueued(client[s], <<first, second, third>>, client[s].used \cup {id}, next)
           /\ Gesture(s, next)
    BY <1>1, DrawIs
  <2>2. client[s].board # NoBoard
    BY <2>1, TheBoardAssumption, BoardsAssumption
  <2>3. Using(s, next)
    BY <1>0, <2>1, <2>2, EnqueuedUsing
  <2> QED BY <2>1, <2>3, GestureWorks
<1>2. CASE EraseObject(s)
  <2>1. PICK c \in DeleteObject, next \in Qt :
           /\ \/ client[s].board = NoBoard /\ next = client[s]
              \/ client[s].board # NoBoard
                 /\ Enqueued(client[s], <<c>>, client[s].used, next)
           /\ Gesture(s, next)
    BY <1>2, EraserIs
  <2>2. Using(s, next)
    BY <1>0, <2>1, EnqueuedUsing
  <2> QED BY <2>1, <2>2, GestureWorks
<1>3. CASE DeleteTheBoard(s)
  <2>1. PICK r \in Wire, q \in Seq(Wire), next \in Qt :
           /\ r.type = "delete" /\ r.board = TheBoard /\ s \in Cabinet
           /\ q = Append(client[s].sent, r)
           /\ next = Made(client[s].board, client[s].revision, client[s].objects,
                          client[s].pending, client[s].awaiting, client[s].timer,
                          q, client[s].used)
           /\ Gesture(s, next)
    BY <1>3, PressIs
  <2>2. /\ next.board = client[s].board /\ next.pending = client[s].pending
        /\ next.awaiting = client[s].awaiting /\ next.sent = q
    BY <2>1 DEF Made
  <2>3. Range(q) = Range(client[s].sent) \cup {r}
    BY <1>0, <2>1, QtIs, AppendRange
  <2>4. Using(s, next)
    BY <1>0, <2>1, <2>2, <2>3 DEF Using
  <2> QED BY <2>1, <2>4, GestureWorks
<1> QED BY <1>1, <1>2, <1>3

\* TimerFires, as Flushed.
LEMMA TimerFiresIs ==
    ASSUME Working, NEW s \in Sessions, TimerFires(s)
    PROVE  \E mid \in Qt, next \in Qt :
              /\ client[s].timer
              /\ mid.board = client[s].board /\ mid.objects = client[s].objects
              /\ mid.pending = client[s].pending /\ mid.awaiting = client[s].awaiting
              /\ mid.timer = FALSE /\ mid.sent = client[s].sent
              /\ mid.used = client[s].used
              /\ Flushed(mid, next)
              /\ client' = [client EXCEPT ![s] = next]
              /\ UNCHANGED <<shared, own, handler, strand>>
<1>1. PICK next : next = Client!TimerFires(client[s])
  OBVIOUS
<1>2. client' = [client EXCEPT ![s] = next]
  BY <1>1 DEF TimerFires
<1>3. PICK mid \in Qt :
        /\ mid.board = client[s].board /\ mid.objects = client[s].objects
        /\ mid.pending = client[s].pending /\ mid.awaiting = client[s].awaiting
        /\ mid.timer = FALSE /\ mid.sent = client[s].sent
        /\ mid.used = client[s].used
        /\ Flushed(mid, next)
  BY <1>1, TimerIs DEF Working
<1>4. next \in Qt
  BY <1>3 DEF Flushed
<1> QED BY <1>2, <1>3, <1>4 DEF TimerFires

\* The timer keeps what holds of handlers and clients.
LEMMA TimerWorks ==
    ASSUME Typed, Present, Working, NEW s \in Sessions, TimerFires(s)
    PROVE  Typed' /\ Present' /\ Working'
<1>1. PICK mid \in Qt, next \in Qt :
         /\ mid.board = client[s].board
         /\ mid.pending = client[s].pending /\ mid.awaiting = client[s].awaiting
         /\ mid.sent = client[s].sent
         /\ Flushed(mid, next)
         /\ client' = [client EXCEPT ![s] = next]
         /\ UNCHANGED <<shared, own, handler, strand>>
  BY TimerFiresIs
<1>2. Using(s, mid)
  BY <1>1 DEF Working, Using
<1>3. Using(s, next)
  BY <1>1, <1>2, FlushedUsing
<1> QED BY <1>1, <1>3, ClientWorks DEF own, Typed, Types

-----------------------------------------------------------------------------
(* The types, together *)

\* The order in which the sessions subscribed.
LEMMA OrderIs ==
    ASSUME NEW order \in SetToSeqs(Artists)
    PROVE  order \in Seq(Sessions) /\ IsInjective(order) /\ Range(order) = Artists
<1>1. IsFiniteSet(Artists) /\ Cardinality(Artists) \in Nat
  BY SessionsAssumption, FS_Subset, FS_CardinalityType DEF Artists
<1>2. /\ order \in [1 .. Cardinality(Artists) -> Artists]
      /\ \A i, j \in 1 .. Cardinality(Artists) : i # j => order[i] # order[j]
  BY DEF SetToSeqs
<1>3. order \in Seq(Artists) /\ Len(order) = Cardinality(Artists)
  BY <1>1, <1>2
<1>4. IsInjective(order)
  BY <1>2 DEF IsInjective
<1>5. Range(order) \subseteq Artists
  BY <1>2 DEF Range
<1>6. Cardinality(Artists) = Cardinality(Range(order))
  BY <1>3, <1>4, InjectiveLength
<1>7. Range(order) = Artists
  BY <1>1, <1>5, <1>6, FS_Subset
<1>8. order \in Seq(Sessions)
  BY <1>3 DEF Artists
<1> QED BY <1>4, <1>7, <1>8

\* The clients in the beginning.
LEMMA FirstClients ==
    /\ Joined = Made(TheBoard, 0, NoObjects, <<>>, FALSE, FALSE, <<>>, {})
    /\ Elsewhere = Made(NoBoard, 0, NoObjects, <<>>, FALSE, FALSE, <<>>, {})
    /\ Joined \in Qt /\ Elsewhere \in Qt
<1>1. Joined = Made(TheBoard, 0, NoObjects, <<>>, FALSE, FALSE, <<>>, {})
  BY DEF Joined, Made
<1>2. Elsewhere = Made(NoBoard, 0, NoObjects, <<>>, FALSE, FALSE, <<>>, {})
  <2>1. PICK k : k = Joined
    OBVIOUS
  <2>2. Elsewhere = [k EXCEPT !.board = NoBoard, !.revision = 0, !.objects = NoObjects,
                              !.pending = <<>>, !.awaiting = FALSE]
    BY <2>1, ClientData DEF Elsewhere, Client!Clear
  <2> QED BY <1>1, <2>1, <2>2 DEF Made
<1>3. /\ NoObjects \in Objects /\ <<>> \in Seq(Command) /\ <<>> \in Seq(Wire)
      /\ {} \in SUBSET ObjectIds /\ TheBoard \in Boards
  BY TheBoardAssumption DEF NoObjects, Objects
<1> QED BY <1>1, <1>2, <1>3, MadeTyped

\* What holds in the beginning.
LEMMA TogetherStarts ==
    Together => Typed /\ Present /\ Working
<1> SUFFICES ASSUME Together PROVE Typed /\ Present /\ Working
  OBVIOUS
<1>1. PICK order \in SetToSeqs(Artists) :
         subscribers = [b \in Boards |-> IF b = TheBoard THEN order ELSE <<>>]
  BY DEF Together
<1>2. /\ order \in Seq(Sessions) /\ IsInjective(order) /\ Range(order) = Artists
  BY OrderIs
<1>3. /\ <<>> \in Seq(Sessions) /\ <<>> \in Seq(Message)
      /\ Range(<<>>) = {} /\ IsInjective(<<>>)
  BY DEF Range, IsInjective
<1>4. /\ rows = Boards /\ kept = Boards
      /\ ghost = [s \in Sessions |-> NoBoard]
      /\ board = [s \in Sessions |-> IF s \in Artists THEN TheBoard ELSE NoBoard]
      /\ reading = [s \in Sessions |-> "open"]
      /\ handler = [s \in Sessions |-> Idle]
      /\ strand = [s \in Sessions |-> <<>>]
      /\ client = [s \in Sessions |-> IF s \in Artists THEN Joined ELSE Elsewhere]
      /\ asked = [s \in Sessions |-> 0]
  BY DEF Together
<1>5. /\ runtime \in [Boards -> Runtime]
      /\ runtime[TheBoard].status = "open"
      /\ \A b \in Boards \ {TheBoard} : runtime[b].status = "none"
  <2>1. Fresh \in Runtime /\ Fresh.status = "none"
    BY DEF Fresh, Runtime, NoObjects, Objects
  <2>2. PICK present : present = {Identity[s] : s \in Artists}
    OBVIOUS
  <2>3. present \subseteq Principals
    BY <2>2, IdentityAssumption DEF Artists
  <2>4. PICK x : x = [Fresh EXCEPT !.status = "open", !.participants = present]
    OBVIOUS
  <2>5. x \in Runtime /\ x.status = "open"
    BY <2>1, <2>3, <2>4 DEF Runtime
  <2>6. runtime = [b \in Boards |-> IF b = TheBoard THEN x ELSE Fresh]
    BY <2>2, <2>4 DEF Together
  <2> QED BY <2>1, <2>5, <2>6, TheBoardAssumption
<1>6. Types
  BY <1>1, <1>2, <1>3, <1>4, <1>5, TheBoardAssumption, BoundAssumption DEF Types
<1>7. Typed
  BY <1>4, <1>6 DEF Typed, Purpose, Idle, Leaving
<1>8. \A s \in Sessions : Held(s) /\ Warned(s) /\ Noticed(s)
  <2>1. ASSUME NEW s \in Sessions PROVE Held(s) /\ Warned(s) /\ Noticed(s)
    <3>1. handler[s] = Idle /\ strand[s] = <<>> /\ Range(strand[s]) = {}
      BY <1>3, <1>4
    <3> QED BY <1>4, <3>1 DEF Held, Sharer, Holder, Warned, Noticed, At, Idle
  <2> QED BY <2>1
<1>9. \A b \in Boards : Opened(b) /\ Subscribed(b)
  <2>1. ASSUME NEW b \in Boards PROVE Opened(b) /\ Subscribed(b)
    <3>1. Opened(b)
      BY <1>4, <1>5, BoardsAssumption DEF Opened, Artists
    <3>2. \A s \in Sessions : On(s, b) <=> b = TheBoard /\ s \in Artists
      BY <1>4, BoardsAssumption DEF On, Idle, Artists
    <3>3. ~Gone(b)
      BY <1>4 DEF Gone
    <3>4. IsInjective(subscribers[b])
      BY <1>1, <1>2, <1>3
    <3>5. Range(subscribers[b]) = IF b = TheBoard THEN Artists ELSE {}
      BY <1>1, <1>2, <1>3
    <3> QED BY <3>1, <3>2, <3>3, <3>4, <3>5 DEF Subscribed, Artists
  <2> QED BY <2>1
<1>10. Working
  <2>1. ASSUME NEW s \in Sessions PROVE Doing(s) /\ Hearing(s)
    <3>1. Range(strand[s]) = {}
      BY <1>3, <1>4
    <3> QED BY <1>4, <3>1 DEF Doing, Hearing, Idle, Artists
  <2>2. ASSUME NEW s \in Sessions PROVE Using(s, client[s])
    <3>1. Using(s, Joined) \/ s \notin Artists
      <4>1. /\ Joined.board = TheBoard /\ Joined.sent = <<>>
        BY FirstClients DEF Made
      <4> QED BY <1>3, <4>1, FirstClients, TheBoardAssumption, BoardsAssumption DEF Using
    <3>2. Using(s, Elsewhere)
      <4>1. /\ Elsewhere.board = NoBoard /\ Elsewhere.sent = <<>>
            /\ Elsewhere.pending = <<>> /\ Elsewhere.awaiting = FALSE
        BY FirstClients DEF Made
      <4> QED BY <1>3, <4>1, FirstClients DEF Using
    <3> QED BY <1>4, <3>1, <3>2
  <2>3. client \in [Sessions -> Qt]
    BY <1>4, FirstClients
  <2> QED BY <2>1, <2>2, <2>3 DEF Working
<1> QED BY <1>4, <1>7, <1>8, <1>9, <1>10 DEF Present

\* What every step keeps.
LEMMA TogetherWorks ==
    ASSUME QtClients, Typed, Present, Working, TogetherNext
    PROVE  Typed' /\ Present' /\ Working'
<1>1. PICK s \in Sessions :
         DrawStroke(s) \/ EraseObject(s) \/ DeleteTheBoard(s) \/ Proceed(s)
  BY DEF TogetherNext
<1>2. CASE DrawStroke(s) \/ EraseObject(s) \/ DeleteTheBoard(s)
  BY <1>2, UserWorks
<1>3. CASE TimerFires(s)
  BY <1>3, TimerWorks
<1>4. CASE Deliver(s)
  BY <1>4, DeliverWorks
<1>5. CASE Serve(s)
  BY <1>5, ServeWorks
<1> QED BY <1>1, <1>2, <1>3, <1>4, <1>5 DEF Proceed

\* And no step.
LEMMA StutterWorks ==
    ASSUME Typed, Present, Working, UNCHANGED vars
    PROVE  Typed' /\ Present' /\ Working'
<1>1. UNCHANGED <<rows, kept, runtime, subscribers, board, reading, ghost, handler, strand,
                  client, asked>>
  BY DEF vars
<1>2. Typed'
  BY <1>1 DEF Typed, Types, Purpose
<1>3. Present'
  BY <1>1 DEF Present, Held, Sharer, Holder, Opened, Subscribed, On, Gone, Closing, Warned,
     Noticed, At, Notice
<1>4. Working'
  BY <1>1 DEF Working, Doing, Hearing, Using, Qt, Notice
<1> QED BY <1>2, <1>3, <1>4

\* Working is an invariant, with Typed and Present.
LEMMA WorkingInvariant ==
    ASSUME QtClients
    PROVE  TogetherSpec => [](Typed /\ Present /\ Working)
<1>1. Together => Typed /\ Present /\ Working
  BY TogetherStarts
<1>2. Typed /\ Present /\ Working /\ [TogetherNext]_vars => (Typed /\ Present /\ Working)'
  BY TogetherWorks, StutterWorks
<1> QED BY <1>1, <1>2, PTL DEF TogetherSpec

\* Whatever they draw, erase and delete at once, the clients stay well-formed
\* clients and the server keeps its types: no handler finds the board of its
\* session reset, and no queue anything but commands.
THEOREM TogetherTypes ==
    ASSUME QtClients
    PROVE  TogetherSpec => []TogetherTypeOK
<1>1. Typed /\ Present /\ Working => TogetherTypeOK
  BY TypedIsOK DEF TogetherTypeOK, Present, Working, Qt
<1> QED BY <1>1, WorkingInvariant, PTL

-----------------------------------------------------------------------------
(* A deletion reaches every client *)

\* A client on the board is about to hear that it was deleted, or its session
\* is still on it and not told to leave.
Following(s) ==
    client[s].board = TheBoard =>
        \/ BoardDeleted(TheBoard) \in Range(strand[s])
        \/ board[s] = TheBoard /\ Notice(TheBoard) \notin Range(strand[s])

\* A client stays on its board or is on none.
LEMMA HandleBoard ==
    ASSUME NEW k \in Qt, NEW m \in Hearable
    PROVE  Client!Handle(k, m).board \in {k.board, NoBoard}
<1> DEFINE next == Client!Handle(k, m)
<1>1. CASE Errored(k, m, next)
  BY <1>1 DEF Errored
<1>2. CASE next = k
  BY <1>2
<1>3. CASE \E mid : TookOver(k, m, mid) /\ Flushed(mid, next)
  BY <1>3 DEF TookOver, Flushed, SameBoard
<1>4. CASE Lost(k, next)
  BY <1>4 DEF Lost
<1> QED BY <1>1, <1>2, <1>3, <1>4, HandleIs

\* So do all, whoever heard something.
LEMMA HearsBoard ==
    ASSUME Working, UNCHANGED client \/ \E t \in Sessions : \E m \in Hearable : Hears(t, m)
    PROVE  \A t \in Sessions : client'[t].board \in {client[t].board, NoBoard}
<1>1. CASE UNCHANGED client
  BY <1>1
<1>2. CASE \E t \in Sessions : \E m \in Hearable : Hears(t, m)
  <2>1. PICK x \in Sessions, m \in Hearable : Hears(x, m)
    BY <1>2
  <2>2. PICK k : k = Client!Handle(client[x], m)
    OBVIOUS
  <2>3. k.board \in {client[x].board, NoBoard}
    BY <2>2, HandleBoard DEF Working
  <2>4. client' = [client EXCEPT ![x] = k]
    BY <2>1, <2>2 DEF Hears
  <2> QED BY <2>3, <2>4 DEF Working
<1> QED BY <1>1, <1>2

\* Who stays on the board, with the strands growing, is still going to hear of its end.
LEMMA FollowingMoves ==
    ASSUME \A t \in Sessions : Following(t),
           \A t \in Sessions : client'[t].board \in {client[t].board, NoBoard},
           \A t \in Sessions : board'[t] = board[t],
           \A t \in Sessions :
               /\ Range(strand[t]) \subseteq Range(strand'[t])
               /\ Notice(TheBoard) \in Range(strand'[t]) =>
                    \/ Notice(TheBoard) \in Range(strand[t])
                    \/ BoardDeleted(TheBoard) \in Range(strand'[t])
    PROVE  \A t \in Sessions : Following(t)'
<1>1. NoBoard # TheBoard
  BY TheBoardAssumption, BoardsAssumption
<1>2. ASSUME NEW t \in Sessions PROVE Following(t)'
  <2>1. CASE client'[t].board = TheBoard
    <3>1. client[t].board = TheBoard
      BY <1>1, <2>1
    <3> QED BY <3>1 DEF Following, Notice, BoardDeleted
  <2>2. CASE client'[t].board # TheBoard
    BY <2>2 DEF Following
  <2> QED BY <2>1, <2>2
<1> QED BY <1>2

\* A message is added to a strand, and no notice.
LEMMA PostKeeps ==
    ASSUME Typed, NEW s \in Sessions, NEW m \in Hearable, Post(s, m)
    PROVE  \A t \in Sessions :
               /\ Range(strand[t]) \subseteq Range(strand'[t])
               /\ Notice(TheBoard) \in Range(strand'[t]) =>
                    Notice(TheBoard) \in Range(strand[t])
<1>1. strand \in [Sessions -> Seq(Message)] /\ m \in Message /\ m.type # "notice"
  BY DEF Typed, Types, Hearable
<1>2. SameNotices
  BY <1>1, PostNotices
<1>3. CASE strand' = strand
  BY <1>3
<1>4. CASE strand' = [strand EXCEPT ![s] = Append(@, m)]
  <2>1. \A t \in Sessions : strand'[t] = IF t = s THEN Append(strand[s], m) ELSE strand[t]
    BY <1>1, <1>4
  <2>2. Range(Append(strand[s], m)) = Range(strand[s]) \cup {m}
    BY <1>1, AppendRange
  <2> QED BY <1>2, <2>1, <2>2, TheBoardAssumption DEF SameNotices
<1> QED BY <1>3, <1>4 DEF Post

\* The steps of the server keep Following: the notice of a deletion comes with a message.
LEMMA ServeFollowing ==
    ASSUME QtClients, Typed, Present, Working, \A t \in Sessions : Following(t),
           NEW s \in Sessions, Serve(s)
    PROVE  \A t \in Sessions : Following(t)'
<1>1. \A t \in Sessions : client'[t].board \in {client[t].board, NoBoard}
  BY ServeHears, HearsBoard
<1>2. CASE Notify(s)
  <2> DEFINE x == Head(handler[s].to)
             b == handler[s].request.board
  <2>1. /\ At(s, "notify") /\ b \in Boards /\ x \in Sessions
        /\ handler[s].to \in Seq(Sessions) /\ handler[s].to # <<>>
        /\ strand' = [strand EXCEPT ![x] = Informed(@, x = s, b)]
        /\ board' = board
    BY <1>2, NotifyIs DEF own
  <2>2. b = TheBoard /\ s \in Cabinet /\ Range(handler[s].to) \subseteq Artists
    BY <2>1 DEF Working, Doing, At
  <2>3. x \in Range(handler[s].to)
    BY <2>1, TailRange
  <2>4. x # s
    BY <2>2, <2>3 DEF Artists
  <2> HIDE DEF x, b
  <2>5. strand \in [Sessions -> Seq(Message)]
    BY DEF Typed, Types
  <2>6. PICK self \in BOOLEAN : self = (x = s)
    OBVIOUS
  <2>7. \A t \in Sessions :
          strand'[t] = IF t = x THEN Informed(strand[x], self, b) ELSE strand[t]
    BY <2>1, <2>5, <2>6
  <2>8. Range(Informed(strand[x], self, b))
          = Range(strand[x]) \cup {Notice(b)} \cup {BoardDeleted(b)}
    BY <2>1, <2>4, <2>5, <2>6, InformedRange
  <2>9. \A t \in Sessions :
           /\ Range(strand[t]) \subseteq Range(strand'[t])
           /\ Notice(TheBoard) \in Range(strand'[t]) =>
                \/ Notice(TheBoard) \in Range(strand[t])
                \/ BoardDeleted(TheBoard) \in Range(strand'[t])
    BY <2>2, <2>7, <2>8
  <2> QED BY <1>1, <2>1, <2>9, FollowingMoves
<1>3. CASE RunPosted(s)
  <2>1. /\ strand[s] \in Seq(Message) /\ strand[s] # <<>>
        /\ \A t \in Sessions : strand'[t] = IF t = s THEN Tail(strand[s]) ELSE strand[t]
        /\ \A t \in Sessions : board'[t] =
              IF /\ t = s /\ Head(strand[s]).type = "notice"
                 /\ board[s] = Head(strand[s]).board
                THEN NoBoard ELSE board[t]
    BY <1>3, RunPostedIs
  <2>2. PICK m : m = Head(strand[s])
    OBVIOUS
  <2>3. Range(strand[s]) = Range(Tail(strand[s])) \cup {m}
    BY <2>1, <2>2, TailRange
  <2>4. \/ client' = client /\ m = Notice(TheBoard)
        \/ m \in Hearable /\ Hears(s, m)
    BY <1>3, <2>2, RunPostedHears
  <2>5. NoBoard # TheBoard
    BY TheBoardAssumption, BoardsAssumption
  <2>6. ASSUME NEW t \in Sessions PROVE Following(t)'
    <3>1. CASE t # s
      <4>1. strand'[t] = strand[t] /\ board'[t] = board[t]
        BY <2>1, <3>1
      <4> QED BY <1>1, <2>5, <4>1 DEF Following, Notice, BoardDeleted
    <3>2. CASE t = s /\ m = Notice(TheBoard)
      <4>1. /\ m # BoardDeleted(TheBoard) /\ strand'[t] = Tail(strand[s])
            /\ client[t].board = TheBoard => BoardDeleted(TheBoard) \in Range(strand[s])
        BY <2>1, <2>3, <3>2 DEF Following, Notice, BoardDeleted
      <4>2. client[t].board = TheBoard => BoardDeleted(TheBoard) \in Range(strand'[t])
        BY <2>3, <4>1
      <4>3. client'[t].board = TheBoard => client[t].board = TheBoard
        BY <1>1, <2>5
      <4> QED BY <4>2, <4>3 DEF Following, BoardDeleted
    <3>3. CASE t = s /\ m = BoardDeleted(TheBoard)
      <4>1. Hears(s, m) /\ m \in Hearable /\ m.type = "board_deleted" /\ m.board = TheBoard
        BY <2>4, <3>3 DEF Notice, BoardDeleted
      <4>2. PICK k : k = Client!Handle(client[s], m)
        OBVIOUS
      <4>3. (client[s].board # TheBoard /\ k = client[s]) \/ Lost(client[s], k)
        BY <4>1, <4>2, HandleIs DEF Working
      <4>4. k.board # TheBoard
        BY <2>5, <4>3 DEF Lost
      <4>5. client' = [client EXCEPT ![s] = k]
        BY <4>1, <4>2 DEF Hears
      <4>6. client'[s] = k
        BY <4>5 DEF Working
      <4> QED BY <3>3, <4>4, <4>6 DEF Following
    <3>4. CASE t = s /\ m # Notice(TheBoard) /\ m # BoardDeleted(TheBoard)
      <4>1. m \in Hearable
        BY <2>4, <3>4
      <4>2. m.type # "notice"
        BY <4>1 DEF Hearable
      <4>3. board'[t] = board[t] /\ strand'[t] = Tail(strand[s])
        BY <2>1, <2>2, <3>4, <4>2
      <4>4. /\ BoardDeleted(TheBoard) \in Range(strand[s]) =>
                 BoardDeleted(TheBoard) \in Range(strand'[t])
            /\ Notice(TheBoard) \notin Range(strand[s]) =>
                 Notice(TheBoard) \notin Range(strand'[t])
        BY <2>3, <3>4, <4>3
      <4>5. client'[t].board = TheBoard => client[t].board = TheBoard
        BY <1>1, <2>5
      <4> QED BY <3>4, <4>3, <4>4, <4>5 DEF Following, BoardDeleted, Notice
    <3> QED BY <3>1, <3>2, <3>3, <3>4
  <2> QED BY <2>6
<1>4. CASE board' = board /\ UNCHANGED posts
  BY <1>1, <1>4, FollowingMoves DEF posts
<1>5. CASE board' = board /\ \E t \in Sessions : \E m \in Hearable : Post(t, m)
  BY <1>1, <1>5, PostKeeps, FollowingMoves
<1> QED BY <1>2, <1>3, <1>4, <1>5, ServePosts

\* A client that goes on on its board.
LEMMA ClientFollowing ==
    ASSUME Working, \A t \in Sessions : Following(t), NEW s \in Sessions, NEW k,
           k.board = client[s].board, client' = [client EXCEPT ![s] = k],
           UNCHANGED <<board, strand>>
    PROVE  \A t \in Sessions : Following(t)'
<1>1. \A t \in Sessions : client'[t].board = client[t].board
  BY DEF Working
<1> QED BY <1>1, FollowingMoves

\* Drawing changes neither the board nor the objects of a client.
LEMMA EnqueuedBoard ==
    ASSUME NEW k, NEW operations, NEW used, NEW next, Enqueued(k, operations, used, next)
    PROVE  next.board = k.board /\ next.objects = k.objects
BY DEF Enqueued, Flushed, SameBoard

\* What every step keeps.
LEMMA TogetherFollowing ==
    ASSUME QtClients, Typed, Present, Working, \A t \in Sessions : Following(t), TogetherNext
    PROVE  \A t \in Sessions : Following(t)'
<1>1. PICK s \in Sessions :
         DrawStroke(s) \/ EraseObject(s) \/ DeleteTheBoard(s) \/ Proceed(s)
  BY DEF TogetherNext
<1>2. ASSUME NEW k, k.board = client[s].board, Gesture(s, k)
      PROVE  \A t \in Sessions : Following(t)'
  <2>1. client' = [client EXCEPT ![s] = k] /\ UNCHANGED <<board, strand>>
    BY <1>2 DEF Gesture
  <2> QED BY <1>2, <2>1, ClientFollowing
<1>3. CASE DrawStroke(s)
  <2>1. PICK id \in ObjectIds, first \in BeginStroke, second \in AppendStrokePoints,
              third \in EndStroke, next \in Qt :
           /\ Enqueued(client[s], <<first, second, third>>, client[s].used \cup {id}, next)
           /\ Gesture(s, next)
    BY <1>3, DrawIs
  <2>2. next.board = client[s].board
    BY <2>1, EnqueuedBoard
  <2> QED BY <1>2, <2>1, <2>2
<1>4. CASE EraseObject(s)
  <2>1. PICK c \in DeleteObject, next \in Qt :
           /\ \/ client[s].board = NoBoard /\ next = client[s]
              \/ client[s].board # NoBoard
                 /\ Enqueued(client[s], <<c>>, client[s].used, next)
           /\ Gesture(s, next)
    BY <1>4, EraserIs
  <2>2. next.board = client[s].board
    BY <2>1, EnqueuedBoard
  <2> QED BY <1>2, <2>1, <2>2
<1>5. CASE DeleteTheBoard(s)
  <2>1. \E k : k.board = client[s].board /\ Gesture(s, k)
    BY <1>5, PressIs, MadeIs
  <2> QED BY <1>2, <2>1
<1>6. CASE TimerFires(s)
  <2>1. PICK mid \in Qt, next \in Qt :
           /\ mid.board = client[s].board
           /\ Flushed(mid, next)
           /\ client' = [client EXCEPT ![s] = next]
           /\ UNCHANGED <<shared, own, handler, strand>>
    BY <1>6, TimerFiresIs
  <2>2. next.board = client[s].board /\ UNCHANGED <<board, strand>>
    BY <2>1 DEF Flushed, SameBoard, own
  <2> QED BY <2>1, <2>2, ClientFollowing
<1>7. CASE Deliver(s)
  <2>1. PICK q \in Seq(Wire), r \in Wire : client' = [client EXCEPT ![s].sent = q] /\ Accept(s, r)
    BY <1>7, DeliverIs DEF Delivers
  <2>2. UNCHANGED <<board, strand>>
    BY <2>1 DEF Accept
  <2>3. PICK k : k = [client[s] EXCEPT !.sent = q]
    OBVIOUS
  <2>4. client' = [client EXCEPT ![s] = k]
    BY <2>1, <2>3
  <2>5. k.board = client[s].board
    <3>1. client[s] \in Qt
      BY DEF Working
    <3>2. client[s] = Made(client[s].board, client[s].revision, client[s].objects,
                           client[s].pending, client[s].awaiting, client[s].timer,
                           client[s].sent, client[s].used)
      BY <3>1, QtIs
    <3> QED BY <2>3, <3>2 DEF Made
  <2> QED BY <2>2, <2>4, <2>5, ClientFollowing
<1>8. CASE Serve(s)
  BY <1>8, ServeFollowing
<1> QED BY <1>1, <1>3, <1>4, <1>5, <1>6, <1>7, <1>8 DEF Proceed

\* Following is an invariant.
LEMMA FollowingInvariant ==
    ASSUME QtClients
    PROVE  TogetherSpec => [](\A s \in Sessions : Following(s))
<1>1. Together => \A s \in Sessions : Following(s)
  <2> SUFFICES ASSUME Together, NEW s \in Sessions PROVE Following(s)
    OBVIOUS
  <2>1. Range(<<>>) = {}
    BY DEF Range
  <2>2. /\ strand[s] = <<>>
        /\ board[s] = IF s \in Artists THEN TheBoard ELSE NoBoard
        /\ client[s] = IF s \in Artists THEN Joined ELSE Elsewhere
    BY DEF Together
  <2>3. Elsewhere.board = NoBoard /\ NoBoard # TheBoard
    <3>1. Elsewhere.board = NoBoard
      BY FirstClients DEF Made
    <3> QED BY <3>1, TheBoardAssumption, BoardsAssumption
  <2> QED BY <2>1, <2>2, <2>3 DEF Following
<1>2. /\ Typed /\ Present /\ Working /\ (\A s \in Sessions : Following(s))
      /\ [TogetherNext]_vars
      => (\A s \in Sessions : Following(s))'
  <2> SUFFICES ASSUME Typed, Present, Working, \A s \in Sessions : Following(s),
                      [TogetherNext]_vars
               PROVE  (\A s \in Sessions : Following(s))'
    OBVIOUS
  <2>1. CASE TogetherNext
    BY <2>1, TogetherFollowing
  <2>2. CASE UNCHANGED vars
    <3>1. UNCHANGED <<board, strand, client>>
      BY <2>2 DEF vars
    <3> QED BY <3>1, FollowingMoves
  <2> QED BY <2>1, <2>2
<1> QED BY <1>1, <1>2, WorkingInvariant, PTL DEF TogetherSpec

\* When the board is deleted under the hands of those who draw and the server
\* knows that it is, whatever was on its way then, all of them lose it, and the
\* queues of their operations are empty and wait for nothing once everything is
\* quiet: board_deleted clears the client's state, and an answer that comes late
\* finds nothing to acknowledge.
THEOREM DeletionSpreads ==
    ASSUME QtClients
    PROVE  TogetherSpec => []DeletionReachesAll
<1>1. Typed /\ Present /\ Working /\ (\A s \in Sessions : Following(s)) => DeletionReachesAll
  <2> SUFFICES ASSUME Typed, Present, Working, \A s \in Sessions : Following(s),
                      AllQuiet, TheBoard \notin kept
               PROVE  /\ Drawing = {}
                      /\ \A s \in Sessions : client[s].pending = <<>> /\ ~client[s].awaiting
    BY DEF DeletionReachesAll
  <2>1. AtRest
    BY DEF AtRest, AllQuiet, Quiet
  <2>2. Members(TheBoard) = {}
    BY <2>1, RestIs, TheBoardAssumption
  <2>3. ASSUME NEW s \in Sessions PROVE client[s].board # TheBoard
    <3>1. Range(strand[s]) = {}
      BY DEF AllQuiet, Quiet, Range
    <3>2. board[s] # TheBoard
      BY <2>2 DEF Members
    <3> QED BY <3>1, <3>2 DEF Following
  <2>4. \A s \in Sessions : client[s].board = NoBoard
    BY <2>3 DEF Working, Using
  <2> QED BY <2>3, <2>4 DEF Drawing, Working, Using
<1> QED BY <1>1, WorkingInvariant, FollowingInvariant, PTL

-----------------------------------------------------------------------------
(* What nobody erased converges *)

Dead(id) == Canvas[id] # NoObject /\ Canvas[id].deleted

\* A client erases any object, and otherwise changes its own.
Own(k, c) == c.op = "delete_object" \/ c.id \in k.used

Owns(k) ==
    /\ \A c \in Range(k.pending) : Own(k, c)
    /\ \A r \in Range(k.sent) : r.type = "operation" => Own(k, r.command)

Owning(s) ==
    /\ Owns(client[s])
    /\ handler[s].at = "apply" => Own(client[s], handler[s].request.command)
    /\ handler[s].at \in {"collect", "post"} => Own(client[s], handler[s].message.command)

Apart ==
    \A s, t \in Sessions : s # t => client[s].used \cap client[t].used = {}

\* A broadcast goes to every client once, and that of a deletion comes after it.
Spread(s) ==
    /\ handler[s].at \in {"collect", "post"} =>
         (handler[s].message.command.op = "delete_object"
            => Dead(handler[s].message.command.id))
    /\ handler[s].at = "post" => IsInjective(handler[s].to)

\* Before the deletion nobody is told of it.
Calm ==
    TheBoard \in kept =>
      \A s \in Sessions :
        /\ strand[s] = <<>>
        /\ s \in Artists => board[s] = TheBoard /\ client[s].board = TheBoard

\* Session e has an operation on the object to tell client s.
Carries(e, s, id) ==
    /\ \/ handler[e].at = "collect"
       \/ handler[e].at = "post" /\ s \in Range(handler[e].to)
    /\ handler[e].message.command.id = id

\* It is the one that client s lacks.
Lacks(e, s, id) ==
    /\ Accepts(client[s].objects, handler[e].message.command)
    /\ Apply(client[s].objects, handler[e].message.command)[id] = Canvas[id]

InStep(s, id) ==
    (TheBoard \in kept /\ s \in Artists /\ ~Dead(id)) =>
      /\ \A e \in Sessions : Carries(e, s, id) => Lacks(e, s, id)
      /\ (\A e \in Sessions : ~Carries(e, s, id)) => client[s].objects[id] = Canvas[id]

Steady ==
    /\ Calm
    /\ Apart
    /\ \A s \in Sessions : Owning(s) /\ Spread(s)
    /\ \A s \in Sessions, id \in ObjectIds : InStep(s, id)

-----------------------------------------------------------------------------
(* Who owns what *)

\* Sending an operation makes nobody the owner of anything.
LEMMA FlushedOwns ==
    ASSUME NEW k \in Qt, NEW next, Flushed(k, next), Owns(k)
    PROVE  Owns(next) /\ next.used = k.used /\ next.objects = k.objects /\ next.board = k.board
<1>1. /\ next.used = k.used /\ next.objects = k.objects /\ next.board = k.board
      /\ next.pending = k.pending
      /\ k.sent \in Seq(Wire) /\ k.pending \in Seq(Command)
  BY QtIs DEF Flushed, SameBoard
<1>2. \A c : Own(next, c) <=> Own(k, c)
  BY <1>1 DEF Own
<1>3. CASE next.sent = k.sent
  BY <1>1, <1>2, <1>3 DEF Owns
<1>4. CASE next.sent # k.sent
  <2>1. k.pending # <<>>
    BY <1>4 DEF Flushed
  <2>2. PICK r \in Wire : r.command = Head(k.pending) /\ next.sent = Append(k.sent, r)
    BY <1>4 DEF Flushed
  <2>3. Range(next.sent) = Range(k.sent) \cup {r}
    BY <1>1, <2>2, AppendRange
  <2>4. r.command \in Range(k.pending)
    BY <1>1, <2>1, <2>2, TailRange
  <2> QED BY <1>1, <1>2, <2>3, <2>4 DEF Owns
<1> QED BY <1>1, <1>3, <1>4

\* A tail has no elements of its own.
LEMMA TailWithin ==
    ASSUME NEW S, NEW q \in Seq(S), q # <<>>
    PROVE  Range(Tail(q)) \subseteq Range(q)
BY TailRange

\* Nor has what is left of a queue after an operation was given up.
LEMMA DiscardWithin ==
    ASSUME NEW k \in Qt
    PROVE  Range(Client!DiscardFrontGroup(k).pending) \subseteq Range(k.pending)
<1>1. k.pending \in Seq(Command)
  BY QtIs
<1>2. PICK q : q = Client!DiscardFrontGroup(k).pending
  OBVIOUS
<1>3. CASE q = <<>>
  BY <1>2, <1>3 DEF Range
<1>4. CASE \E n \in 2 .. Len(k.pending) : q = SubSeq(k.pending, n, Len(k.pending))
  <2>1. PICK n \in 2 .. Len(k.pending) : q = SubSeq(k.pending, n, Len(k.pending))
    BY <1>4
  <2>2. \A i \in 1 .. Len(q) : i + n - 1 \in 1 .. Len(k.pending) /\ q[i] = k.pending[i + n - 1]
    BY <1>1, <2>1
  <2>3. DOMAIN q = 1 .. Len(q) /\ DOMAIN k.pending = 1 .. Len(k.pending)
    BY <1>1, <2>1
  <2>4. Range(q) \subseteq Range(k.pending)
    BY <2>2, <2>3 DEF Range
  <2> QED BY <1>2, <2>4
<1> QED BY <1>2, <1>3, <1>4, DiscardIs

\* A client keeps to its own whatever it hears, and makes no identifier.
LEMMA HandleOwns ==
    ASSUME NEW k \in Qt, NEW m \in Hearable, Owns(k)
    PROVE  Owns(Client!Handle(k, m)) /\ Client!Handle(k, m).used = k.used
<1> DEFINE next == Client!Handle(k, m)
<1>0. k.pending \in Seq(Command)
  BY QtIs
<1>1. CASE Errored(k, m, next)
  <2>1. next.used = k.used /\ next.sent = k.sent
    BY <1>1 DEF Errored
  <2>2. Range(next.pending) \subseteq Range(k.pending)
    BY <1>1, DiscardWithin DEF Errored
  <2> QED BY <2>1, <2>2 DEF Owns, Own
<1>2. CASE next = k
  BY <1>2
<1>3. CASE \E mid : TookOver(k, m, mid) /\ Flushed(mid, next)
  <2>1. PICK mid : TookOver(k, m, mid) /\ Flushed(mid, next)
    BY <1>3
  <2>2. mid \in Qt /\ mid.used = k.used /\ mid.sent = k.sent
    BY <2>1 DEF TookOver
  <2>3. Range(mid.pending) \subseteq Range(k.pending)
    BY <1>0, <2>1, TailWithin DEF TookOver, Acked
  <2>4. Owns(mid)
    BY <2>2, <2>3 DEF Owns, Own
  <2> QED BY <2>1, <2>2, <2>4, FlushedOwns
<1>4. CASE Lost(k, next)
  <2>1. next.used = k.used /\ next.sent = k.sent /\ Range(next.pending) = {}
    BY <1>4 DEF Lost, Range
  <2> QED BY <2>1 DEF Owns, Own
<1> QED BY <1>1, <1>2, <1>3, <1>4, HandleIs

\* Who enqueues what is its own keeps to its own.
LEMMA EnqueuedOwns ==
    ASSUME NEW k \in Qt, NEW operations \in Seq(Command), NEW used, NEW next,
           Enqueued(k, operations, used, next), Owns(k), k.used \subseteq used,
           \A c \in Range(operations) : c.op = "delete_object" \/ c.id \in used
    PROVE  Owns(next) /\ next.used = used
<1>1. PICK mid \in Qt :
         /\ mid.pending = k.pending \o operations
         /\ mid.sent = k.sent /\ mid.used = used
         /\ Flushed(mid, next)
  BY DEF Enqueued
<1>2. Range(mid.pending) \subseteq Range(k.pending) \cup Range(operations)
  <2>1. k.pending \in Seq(Command)
    BY QtIs
  <2>2. /\ Len(mid.pending) = Len(k.pending) + Len(operations)
        /\ \A i \in 1 .. Len(k.pending) + Len(operations) : mid.pending[i] =
             IF i <= Len(k.pending) THEN k.pending[i] ELSE operations[i - Len(k.pending)]
        /\ DOMAIN mid.pending = 1 .. Len(mid.pending)
    BY <1>1, <2>1, ConcatProperties
  <2>3. ASSUME NEW i \in 1 .. Len(mid.pending)
        PROVE  mid.pending[i] \in Range(k.pending) \cup Range(operations)
    <3>1. CASE i <= Len(k.pending)
      <4>1. i \in DOMAIN k.pending /\ mid.pending[i] = k.pending[i]
        BY <2>1, <2>2, <2>3, <3>1
      <4> QED BY <4>1 DEF Range
    <3>2. CASE ~(i <= Len(k.pending))
      <4>1. /\ i - Len(k.pending) \in DOMAIN operations
            /\ mid.pending[i] = operations[i - Len(k.pending)]
        BY <2>1, <2>2, <2>3, <3>2
      <4> QED BY <4>1 DEF Range
    <3> QED BY <3>1, <3>2
  <2> QED BY <2>2, <2>3 DEF Range
<1>3. Owns(mid)
  BY <1>1, <1>2 DEF Owns, Own
<1> QED BY <1>1, <1>3, FlushedOwns

-----------------------------------------------------------------------------
(* Before the deletion *)

\* An error changes no objects, and neither it nor an operation the board.
LEMMA HandleKeeps ==
    ASSUME NEW k \in Qt, NEW m \in Hearable, m.type \in {"error", "operation_applied"}
    PROVE  /\ Client!Handle(k, m).board = k.board
           /\ m.type = "error" => Client!Handle(k, m).objects = k.objects
<1> DEFINE next == Client!Handle(k, m)
<1>1. CASE m.type = "error" /\ Errored(k, m, next)
  BY <1>1 DEF Errored
<1>2. CASE m.type = "operation_applied" /\ next = k
  BY <1>2
<1>3. CASE m.type = "operation_applied" /\ \E mid : TookOver(k, m, mid) /\ Flushed(mid, next)
  BY <1>3 DEF TookOver, Flushed, SameBoard
<1> QED BY <1>1, <1>2, <1>3, HandleIs

\* Who closes the board has deleted it.
LEMMA ClosingOver ==
    ASSUME Present, Working, NEW s \in Sessions, handler[s].at \in {"close", "notify"}
    PROVE  TheBoard \notin kept
<1>1. handler[s].request.board = TheBoard
  BY DEF Working, Doing
<1> QED BY <1>1 DEF Present, Held, Holder

\* Errors and operations are all that a client hears.
LEMMA ServeEffect ==
    ASSUME QtClients, Typed, Present, Working, Calm, NEW s \in Sessions, Serve(s),
           TheBoard \in kept'
    PROVE  /\ TheBoard \in kept /\ strand' = strand /\ board' = board
           /\ \/ UNCHANGED client
              \/ \E m \in Hearable : m.type = "error" /\ Hears(s, m)
              \/ /\ PostNext(s, "post")
                 /\ handler[s].message \in Hearable
                 /\ handler[s].message.type = "operation_applied"
                 /\ Head(handler[s].to) \in Sessions
                 /\ Hears(Head(handler[s].to), handler[s].message)
           /\ ~CloseBoard(s) /\ ~Notify(s) /\ ~Deleted(s) /\ ~RunPosted(s)
           /\ PostNext(s, "post") => Hears(Head(handler[s].to), handler[s].message)
<1>1. ~DeleteRows(s)
  <2> SUFFICES ASSUME DeleteRows(s) PROVE FALSE
    OBVIOUS
  <2>1. handler[s].request.board = TheBoard
    BY DEF DeleteRows, At, Working, Doing
  <2> QED BY <2>1 DEF DeleteRows
<1>2. kept' = kept
  BY <1>1 DEF Serve, Broadcast, Collect, PostNext, Respond, Delete, DeleteRefused, DeleteLost, CloseBoard,
     Notify, Deleted, RunPosted, ApplyOperation, OperationRejected, shared
<1>3. TheBoard \in kept /\ \A t \in Sessions : strand[t] = <<>>
  BY <1>2 DEF Calm
<1>4. ~CloseBoard(s) /\ ~Notify(s) /\ ~Deleted(s) /\ ~RunPosted(s)
  BY <1>3, ClosingOver DEF CloseBoard, Notify, Deleted, RunPosted, At
<1>5. board' = board
  BY <1>4, ServePosts
<1>6. CASE PostNext(s, "post")
  <2>1. handler[s].at = "post" /\ handler[s].to # <<>>
        /\ Post(Head(handler[s].to), handler[s].message)
    BY <1>6 DEF PostNext, At
  <2>2. handler[s].message \in Hearable /\ handler[s].message.type = "operation_applied"
    BY <2>1, SaysHearable
  <2>3. handler[s].to \in Seq(Sessions)
    BY <2>1, BusyIs DEF Typed, Types, Handlers
  <2>4. Head(handler[s].to) \in Sessions
    BY <2>1, <2>3
  <2>5. strand' = strand /\ Hears(Head(handler[s].to), handler[s].message)
    BY <1>3, <2>1, <2>2, <2>4, PostIs
  <2> QED BY <1>3, <1>4, <1>5, <1>6, <2>2, <2>4, <2>5
<1>7. CASE DeleteRefused(s) \/ DeleteLost(s) \/ OperationRejected(s) \/ Respond(s)
  <2>1. PICK m \in Hearable : Post(s, m) /\ m.type = "error"
    BY <1>4, <1>7, RefusalPosts
  <2>2. strand' = strand /\ Hears(s, m)
    BY <1>3, <2>1, PostIs
  <2>3. ~PostNext(s, "post")
    BY <1>7 DEF PostNext, DeleteRefused, DeleteLost, OperationRejected, Respond, At
  <2> QED BY <1>3, <1>4, <1>5, <2>1, <2>2, <2>3
<1>8. CASE UNCHANGED posts /\ ~PostNext(s, "post")
  BY <1>3, <1>4, <1>5, <1>8 DEF posts
<1>9. \/ PostNext(s, "post")
      \/ DeleteRefused(s) \/ DeleteLost(s) \/ OperationRejected(s) \/ Respond(s)
      \/ UNCHANGED posts
  BY <1>1, <1>4 DEF Serve, Broadcast, Delete, Collect, ApplyOperation
<1> QED BY <1>6, <1>7, <1>8, <1>9

\* The steps of the server keep Calm: they tell of the deletion only after it.
LEMMA ServeCalm ==
    ASSUME QtClients, Typed, Present, Working, Calm, NEW s \in Sessions, Serve(s)
    PROVE  Calm'
<1> SUFFICES ASSUME TheBoard \in kept'
             PROVE  \A t \in Sessions :
                       /\ strand'[t] = <<>>
                       /\ t \in Artists => board'[t] = TheBoard /\ client'[t].board = TheBoard
  BY DEF Calm, Artists
<1>1. /\ TheBoard \in kept /\ strand' = strand /\ board' = board
      /\ \/ UNCHANGED client
         \/ \E t \in Sessions : \E m \in Hearable :
              m.type \in {"error", "operation_applied"} /\ Hears(t, m)
  BY ServeEffect
<1>2. \A t \in Sessions : client'[t].board = client[t].board
  <2>1. CASE UNCHANGED client
    BY <2>1
  <2>2. CASE \E t \in Sessions : \E m \in Hearable :
               m.type \in {"error", "operation_applied"} /\ Hears(t, m)
    <3>1. PICK x \in Sessions, m \in Hearable :
             m.type \in {"error", "operation_applied"} /\ Hears(x, m)
      BY <2>2
    <3>2. PICK k : k = Client!Handle(client[x], m)
      OBVIOUS
    <3>3. k.board = client[x].board
      BY <3>1, <3>2, HandleKeeps DEF Working
    <3>4. client' = [client EXCEPT ![x] = k]
      BY <3>1, <3>2 DEF Hears
    <3> QED BY <3>3, <3>4 DEF Working
  <2> QED BY <1>1, <2>1, <2>2
<1> QED BY <1>1, <1>2 DEF Calm

\* Nothing that clients hear makes two of them the owners of one object.
LEMMA ServeApart ==
    ASSUME QtClients, Typed, Working, Apart, \A t \in Sessions : Owns(client[t]),
           NEW s \in Sessions, Serve(s)
    PROVE  /\ Apart'
           /\ \A t \in Sessions : Owns(client[t])' /\ client'[t].used = client[t].used
<1>1. \A t \in Sessions : Owns(client'[t]) /\ client'[t].used = client[t].used
  <2>1. CASE UNCHANGED client
    BY <2>1
  <2>2. CASE \E t \in Sessions : \E m \in Hearable : Hears(t, m)
    <3>1. PICK x \in Sessions, m \in Hearable : Hears(x, m)
      BY <2>2
    <3>2. PICK k : k = Client!Handle(client[x], m)
      OBVIOUS
    <3>3. Owns(k) /\ k.used = client[x].used
      BY <3>2, HandleOwns DEF Working
    <3>4. client' = [client EXCEPT ![x] = k]
      BY <3>1, <3>2 DEF Hears
    <3> QED BY <3>3, <3>4 DEF Working
  <2> QED BY <2>1, <2>2, ServeHears
<1>2. Apart'
  BY <1>1 DEF Apart
<1> QED BY <1>1, <1>2 DEF Owns, Own

\* What an operation does to the objects of the board.
LEMMA ApplyOperationIs ==
    ASSUME Typed, Present, Working, NEW s \in Sessions, ApplyOperation(s)
    PROVE  LET c == handler[s].request.command IN
           /\ handler[s].at = "apply" /\ board[s] = TheBoard /\ s \in Artists
           /\ TheBoard \in kept
           /\ c \in Command /\ Canvas \in Objects /\ Accepts(Canvas, c)
           /\ runtime'[TheBoard].objects = Apply(Canvas, c)
           /\ \E h : /\ h.at = "collect" /\ h.message.command = c /\ Becomes(s, h)
           /\ UNCHANGED <<kept, subscribers, board, strand, client>>
<1>1. handler[s].at = "apply" /\ Verdict(s) = "ok"
  BY DEF ApplyOperation, At
<1>2. /\ handler[s].request.type = "operation" /\ handler[s].request.board = board[s]
      /\ handler[s].request \in AnyRequest
  BY <1>1, RequestedIs DEF Typed, Purpose
<1>3. board[s] = TheBoard /\ s \in Artists
  BY <1>1, OnBoardIs DEF OnBoard, Working, Doing
<1>4. PICK c : c = handler[s].request.command
  OBVIOUS
<1>5. c \in Command
  BY <1>2, <1>4, RequestTypes
<1>6. /\ runtime \in [Boards -> Runtime] /\ runtime[TheBoard] \in Runtime
      /\ runtime[TheBoard].revision \in Nat /\ Canvas \in Objects
  BY TheBoardAssumption DEF Typed, Types, Runtime, Canvas
<1>7. /\ runtime[TheBoard].status # "closed"
      /\ Failure(Canvas, c) = "ok"
  BY <1>1, <1>2, <1>3, <1>4 DEF Verdict, Canvas
<1>8. TheBoard \in kept
  <2>1. runtime[TheBoard].status # "none"
    BY <1>3, TheBoardAssumption DEF Present, Opened
  <2>2. runtime[TheBoard].status = "open"
    BY <1>6, <1>7, <2>1 DEF Runtime
  <2> QED BY <2>2, TheBoardAssumption DEF Present, Opened
<1>9. runtime'[TheBoard].objects = Apply(Canvas, c)
  <2>1. runtime' = [runtime EXCEPT ![TheBoard].revision = runtime[TheBoard].revision + 1,
                                   ![TheBoard].objects = Apply(@, c)]
    BY <1>2, <1>3, <1>4 DEF ApplyOperation
  <2>2. PICK o : o = Apply(Canvas, c)
    OBVIOUS
  <2>3. PICK n : n = runtime[TheBoard].revision + 1
    OBVIOUS
  <2>4. PICK x : x = [runtime[TheBoard] EXCEPT !.revision = n, !.objects = o]
    OBVIOUS
  <2>5. runtime' = [runtime EXCEPT ![TheBoard] = x]
    BY <1>6, <2>1, <2>2, <2>3, <2>4, TheBoardAssumption DEF Canvas, Runtime
  <2>6. x.objects = o
    BY <1>6, <2>4 DEF Runtime
  <2> QED BY <1>6, <2>2, <2>5, <2>6, TheBoardAssumption
<1>10. \E h : /\ h.at = "collect" /\ h.message.command = c /\ Becomes(s, h)
  <2>1. PICK m : m = OperationApplied(board[s], runtime[board[s]].revision + 1, Identity[s], c)
    OBVIOUS
  <2>2. m.command = c
    BY <2>1 DEF OperationApplied
  <2>3. Becomes(s, Record("collect", handler[s].request, m, handler[s].to))
    BY <1>4, <2>1, ApplyOperationMoves
  <2> QED BY <2>2, <2>3, RecordIs
<1> QED
  BY <1>1, <1>3, <1>4, <1>5, <1>6, <1>7, <1>8, <1>9, <1>10
  DEF ApplyOperation, Accepts, own, posts

-----------------------------------------------------------------------------
(* What is erased stays so *)

\* No command is accepted for an erased object.
LEMMA DeadRefuses ==
    ASSUME NEW objects, NEW c, objects[c.id] # NoObject, objects[c.id].deleted
    PROVE  ~Accepts(objects, c)
BY DEF Accepts, Failure, CreateFailure, Active

\* A delete that is accepted erases its object.
LEMMA DeleteKills ==
    ASSUME NEW objects \in Objects, NEW c \in Command, Accepts(objects, c),
           c.op = "delete_object"
    PROVE  /\ Apply(objects, c)[c.id] # NoObject
           /\ Apply(objects, c)[c.id].deleted
<1> DEFINE o == objects[c.id]
<1>1. c.id \in ObjectIds /\ Apply(objects, c)[c.id] = Changed(o, c)
  BY ApplyHere DEF Creations
<1>2. Active(o)
  BY DEF Accepts, Failure, Creations
<1>3. o \in BoardObject
  BY <1>1, <1>2 DEF Objects, Active
<1>4. Changed(o, c) = [o EXCEPT !.deleted = TRUE]
  BY DEF Changed
<1>5. [o EXCEPT !.deleted = TRUE].deleted /\ [o EXCEPT !.deleted = TRUE].type = o.type
  BY <1>3 DEF BoardObject, Stroke, Shape, Text
<1>6. o.type # "none" /\ NoObject.type = "none"
  BY <1>3 DEF BoardObject, Stroke, Shape, Text, NoObject
<1> QED BY <1>1, <1>4, <1>5, <1>6

\* What a session broadcasts is an operation on the one board, by one that draws.
LEMMA SaysCommand ==
    ASSUME Typed, Working, NEW s \in Sessions, handler[s].at \in {"collect", "post"}
    PROVE  /\ handler[s].message.command \in Command
           /\ handler[s].message.command.id \in ObjectIds
           /\ handler[s].message.type = "operation_applied"
           /\ handler[s].message.board = TheBoard
           /\ board[s] = TheBoard /\ s \in Artists
<1>1. /\ handler[s].message \in Hearable /\ handler[s].message.type = "operation_applied"
      /\ handler[s].message.board = board[s]
  BY SaysHearable
<1>2. handler[s].message.command \in Command
  BY <1>1 DEF Hearable, Message
<1>3. \A c \in Command : c.id \in ObjectIds
  BY DEF Command, BeginStroke, AppendStrokePoints, EndStroke, CreateShape,
     UpdateShapeGeometry, UpdateShapeStyle, CreateText, UpdateTextContent,
     UpdateTextStyle, ResizeObject, DeleteObject
<1>4. board[s] = TheBoard /\ s \in Artists
  BY OnBoardIs DEF OnBoard, Working, Doing
<1> QED BY <1>1, <1>2, <1>3, <1>4

\* A command names an object.
LEMMA CommandId ==
    ASSUME NEW c \in Command
    PROVE  c.id \in ObjectIds
BY DEF Command, BeginStroke, AppendStrokePoints, EndStroke, CreateShape,
   UpdateShapeGeometry, UpdateShapeStyle, CreateText, UpdateTextContent,
   UpdateTextStyle, ResizeObject, DeleteObject

-----------------------------------------------------------------------------
(* The handlers of the server *)

\* Not a broadcast: the session has nothing more to tell anybody.
TellsNobody(s, h) ==
    /\ Becomes(s, h)
    /\ h.at \notin {"apply", "collect", "post"}
    /\ handler[s].at # "collect"
    /\ handler[s].at = "post" => handler[s].to = <<>>

\* The steps that have nothing to do with a broadcast.
LEMMA TellNobody ==
    ASSUME Typed, Present, Working, NEW s \in Sessions,
           \/ handler[s].at = "post" /\ handler[s].to = <<>> /\ Finish(s)
              /\ UNCHANGED <<shared, own, posts>>
           \/ Respond(s) \/ Delete(s) \/ RunPosted(s)
           \/ OperationRejected(s)
    PROVE  \E h : TellsNobody(s, h)
<1> USE RecordIs
<1>1. CASE handler[s].at = "post" /\ handler[s].to = <<>> /\ Finish(s)
           /\ UNCHANGED <<shared, own, posts>>
  <2>1. Becomes(s, Idle)
    BY <1>1, BroadcastEndMoves DEF At
  <2> QED BY <1>1, <2>1 DEF TellsNobody, Idle
<1>2. CASE Respond(s)
  <2>1. handler[s].at = "respond"
    BY <1>2 DEF Respond, At
  <2>2. handler[s].request.type = "operation"
    BY <2>1 DEF Working, Doing
  <2>3. Becomes(s, Idle)
    BY <1>2, <2>2, RespondMoves
  <2> QED BY <2>1, <2>3 DEF TellsNobody, Idle
<1>3. CASE DeleteRefused(s)
  <2>1. handler[s].at = "delete" /\ Answer(s, Error("refused")) /\ UNCHANGED <<shared, own>>
    BY <1>3 DEF DeleteRefused, At
  <2>2. Becomes(s, Idle)
    BY <2>1, RefusedMoves DEF Codes
  <2> QED BY <2>1, <2>2 DEF TellsNobody, Idle
<1>10. CASE DeleteLost(s)
  <2>1. handler[s].at = "delete"
    BY <1>10 DEF DeleteLost, At
  <2> QED BY <1>10, <2>1, DeleteLostMoves DEF TellsNobody, Idle
<1>4. CASE DeleteRows(s)
  <2>1. handler[s].at = "delete"
    BY <1>4 DEF DeleteRows, At
  <2> QED BY <1>4, <2>1, DeleteRowsMoves DEF TellsNobody
<1>5. CASE CloseBoard(s)
  <2>1. handler[s].at = "close"
    BY <1>5 DEF CloseBoard, At
  <2> QED BY <1>5, <2>1, CloseBoardMoves DEF TellsNobody
<1>6. CASE Notify(s)
  <2>1. handler[s].at = "notify"
    BY <1>6 DEF Notify, At
  <2> QED BY <1>6, <2>1, NotifyIs DEF TellsNobody
<1>7. CASE Deleted(s)
  <2>1. handler[s].at = "notify"
    BY <1>7 DEF Deleted, At
  <2> QED BY <1>7, <2>1, DeletedMoves DEF TellsNobody, Idle
<1>8. CASE RunPosted(s)
  <2>1. handler[s].at = "idle" /\ handler' = handler
    BY <1>8 DEF RunPosted, At
  <2>2. Becomes(s, handler[s])
    BY <2>1 DEF Becomes, Typed, Types, Handlers
  <2> QED BY <2>1, <2>2 DEF TellsNobody
<1>9. CASE OperationRejected(s)
  <2>1. handler[s].at = "apply"
    BY <1>9 DEF OperationRejected, At
  <2> QED BY <1>9, <2>1, OperationRejectedMoves DEF TellsNobody, Idle
<1> QED BY <1>1, <1>2, <1>3, <1>4, <1>5, <1>6, <1>7, <1>8, <1>9, <1>10 DEF Delete

\* What a step of the server does to the broadcasts.
LEMMA ServeIs ==
    ASSUME Typed, Present, Working, NEW s \in Sessions, Serve(s)
    PROVE  \/ ApplyOperation(s)
           \/ /\ handler[s].at = "collect" /\ UNCHANGED <<shared, own, posts>>
              /\ Becomes(s, Record("post", handler[s].request, handler[s].message,
                                   subscribers[board[s]]))
           \/ /\ handler[s].at = "post" /\ handler[s].to # <<>> /\ PostNext(s, "post")
              /\ UNCHANGED shared
              /\ Becomes(s, Record("post", handler[s].request, handler[s].message,
                                   Tail(handler[s].to)))
           \/ /\ ~PostNext(s, "post") /\ Canvas' = Canvas
              /\ \E h : TellsNobody(s, h)
<1>1. CASE ApplyOperation(s)
  BY <1>1
<1>2. CASE Collect(s, "collect", "post")
  <2>1. /\ handler[s].at = "collect" /\ UNCHANGED <<shared, own, posts>>
    BY <1>2 DEF Collect, At
  <2>2. Becomes(s, Record("post", handler[s].request, handler[s].message,
                          subscribers[board[s]]))
    BY <1>2, CollectMoves DEF BroadcastPlaces
  <2> QED BY <2>1, <2>2
<1>3. CASE PostNext(s, "post")
  <2>1. handler[s].at = "post" /\ handler[s].to # <<>> /\ UNCHANGED shared
    BY <1>3 DEF PostNext, At
  <2>2. Becomes(s, Record("post", handler[s].request, handler[s].message,
                          Tail(handler[s].to)))
    BY <1>3, PostNextMoves
  <2> QED BY <1>3, <2>1, <2>2
<1>4. CASE /\ \/ handler[s].at = "post" /\ handler[s].to = <<>> /\ Finish(s)
                 /\ UNCHANGED <<shared, own, posts>>
              \/ Respond(s) \/ Delete(s) \/ RunPosted(s)
              \/ OperationRejected(s)
           /\ ~PostNext(s, "post")
  <2>1. Canvas' = Canvas
    <3>1. CASE DeleteRows(s)
      <4>1. /\ handler[s].request.board = TheBoard
            /\ runtime[TheBoard] \in Runtime /\ runtime \in [Boards -> Runtime]
        BY <3>1, TheBoardAssumption DEF DeleteRows, At, Working, Doing, Typed, Types
      <4>2. PICK p, st : runtime' = [runtime EXCEPT ![TheBoard].participants = p,
                                                    ![TheBoard].status = st]
        BY <3>1, <4>1 DEF DeleteRows
      <4>3. runtime'[TheBoard].objects = runtime[TheBoard].objects
        BY <4>1, <4>2, TheBoardAssumption DEF Runtime
      <4> QED BY <4>3 DEF Canvas
    <3>2. CASE runtime' = runtime
      BY <3>2 DEF Canvas
    <3> QED
      BY <1>4, <3>1, <3>2 DEF Respond, Delete, DeleteRefused, DeleteLost, CloseBoard, Notify, Deleted,
         RunPosted, OperationRejected, shared
  <2> QED BY <1>4, <2>1, TellNobody
<1> QED BY <1>1, <1>2, <1>3, <1>4 DEF Serve, Broadcast, At

\* A step of one session that deals with what its client owns.
LEMMA OwningMoves ==
    ASSUME \A t \in Sessions : Owning(t),
           \A t \in Sessions : Owns(client[t])' /\ client'[t].used = client[t].used,
           NEW s \in Sessions, NEW h, Becomes(s, h),
           h.at = "apply" => Own(client[s], h.request.command),
           h.at \in {"collect", "post"} => Own(client[s], h.message.command)
    PROVE  \A t \in Sessions : Owning(t)'
<1> SUFFICES ASSUME NEW t \in Sessions PROVE Owning(t)'
  OBVIOUS
<1>1. \A c : Own(client'[t], c) <=> Own(client[t], c)
  BY DEF Own
<1>2. CASE t = s
  <2>1. handler'[t] = h
    BY <1>2 DEF Becomes
  <2> QED BY <1>1, <1>2, <2>1 DEF Owning
<1>3. CASE t # s
  <2>1. handler'[t] = handler[t]
    BY <1>3 DEF Becomes
  <2> QED BY <1>1, <2>1 DEF Owning
<1> QED BY <1>2, <1>3

\* A step of one session that tells of erased objects only.
LEMMA SpreadMoves ==
    ASSUME Typed, Working, \A t \in Sessions : Spread(t),
           \A id \in ObjectIds : Dead(id) => Dead(id)',
           NEW s \in Sessions, NEW h, Becomes(s, h),
           h.at \in {"collect", "post"} =>
             (h.message.command.op = "delete_object" => Dead(h.message.command.id)'),
           h.at = "post" => IsInjective(h.to)
    PROVE  \A t \in Sessions : Spread(t)'
<1> SUFFICES ASSUME NEW t \in Sessions PROVE Spread(t)'
  OBVIOUS
<1>1. CASE t = s
  <2>1. handler'[t] = h
    BY <1>1 DEF Becomes
  <2> QED BY <2>1 DEF Spread, Dead
<1>2. CASE t # s
  <2>1. handler'[t] = handler[t]
    BY <1>2 DEF Becomes
  <2>2. handler[t].at \in {"collect", "post"} => handler[t].message.command.id \in ObjectIds
    BY SaysCommand
  <2> QED BY <2>1, <2>2 DEF Spread, Dead
<1> QED BY <1>1, <1>2

\* What an accepted operation leaves dead.
LEMMA DeadStays ==
    ASSUME NEW objects \in Objects, NEW c \in Command, Accepts(objects, c),
           Canvas = objects, Canvas' = Apply(objects, c)
    PROVE  /\ \A id \in ObjectIds : Dead(id) => Dead(id)'
           /\ \A id \in ObjectIds \ {c.id} : Canvas'[id] = Canvas[id] /\ (Dead(id)' <=> Dead(id))
           /\ ~Dead(c.id)
           /\ c.op = "delete_object" => Dead(c.id)'
<1>1. \A id \in ObjectIds \ {c.id} : Canvas'[id] = Canvas[id] /\ (Dead(id)' <=> Dead(id))
  <2>1. \A id \in ObjectIds \ {c.id} : Canvas'[id] = Canvas[id]
    BY ApplyElsewhere
  <2> QED BY <2>1 DEF Dead
<1>2. ~Dead(c.id)
  BY DeadRefuses DEF Dead
<1>3. c.op = "delete_object" => Dead(c.id)'
  BY DeleteKills DEF Dead
<1> QED BY <1>1, <1>2, <1>3

\* The first of a sequence without repetitions is not in the rest of it.
LEMMA InjectiveTail ==
    ASSUME NEW S, NEW q \in Seq(S), q # <<>>, IsInjective(q)
    PROVE  IsInjective(Tail(q)) /\ Head(q) \notin Range(Tail(q))
<1>1. /\ Len(Tail(q)) = Len(q) - 1 /\ Len(q) \in Nat \ {0}
      /\ DOMAIN q = 1 .. Len(q) /\ DOMAIN Tail(q) = 1 .. Len(Tail(q))
      /\ \A i \in 1 .. Len(Tail(q)) : Tail(q)[i] = q[i + 1]
      /\ Head(q) = q[1]
  BY HeadTailProperties
<1>2. \A i, j \in 1 .. Len(q) : q[i] = q[j] => i = j
  BY <1>1 DEF IsInjective
<1>3. \A i \in 1 .. Len(Tail(q)) : i + 1 \in 1 .. Len(q) /\ i + 1 # 1
  BY <1>1
<1>4. \A i, j \in 1 .. Len(Tail(q)) : Tail(q)[i] = Tail(q)[j] => i = j
  <2> SUFFICES ASSUME NEW i \in 1 .. Len(Tail(q)), NEW j \in 1 .. Len(Tail(q)),
                      Tail(q)[i] = Tail(q)[j]
               PROVE  i = j
    OBVIOUS
  <2>1. q[i + 1] = q[j + 1]
    BY <1>1
  <2>2. i + 1 = j + 1
    BY <1>2, <1>3, <2>1
  <2> QED BY <2>2
<1>5. Head(q) \notin Range(Tail(q))
  <2>1. ASSUME NEW i \in 1 .. Len(Tail(q)) PROVE Tail(q)[i] # q[1]
    <3>1. 1 \in 1 .. Len(q)
      BY <1>1
    <3> QED BY <1>1, <1>2, <1>3, <3>1
  <2> QED BY <1>1, <2>1 DEF Range
<1> QED BY <1>1, <1>4, <1>5 DEF IsInjective

\* The server passes on what the clients own, and what was deleted.
LEMMA ServeOwning ==
    ASSUME QtClients, Typed, Present, Working, Steady, NEW s \in Sessions, Serve(s)
    PROVE  \A t \in Sessions : Owning(t)' /\ Spread(t)'
<1> USE RecordIs
<1>1. \A t \in Sessions : Owns(client[t])' /\ client'[t].used = client[t].used
  BY ServeApart DEF Steady, Owning
<1>2. CASE ApplyOperation(s)
  <2>1. PICK c : c = handler[s].request.command
    OBVIOUS
  <2>2. /\ handler[s].at = "apply"
        /\ c \in Command /\ Canvas \in Objects /\ Accepts(Canvas, c)
        /\ Canvas' = Apply(Canvas, c)
    BY <1>2, <2>1, ApplyOperationIs DEF Canvas
  <2>3. PICK h : h.at = "collect" /\ h.message.command = c /\ Becomes(s, h)
    BY <1>2, <2>1, ApplyOperationIs
  <2>4. Own(client[s], c)
    BY <2>1, <2>2 DEF Steady, Owning
  <2>5. \A t \in Sessions : Owning(t)'
    BY <1>1, <2>3, <2>4, OwningMoves DEF Steady
  <2>6. /\ \A id \in ObjectIds : Dead(id) => Dead(id)'
        /\ c.op = "delete_object" => Dead(c.id)'
    BY <2>2, DeadStays
  <2>7. \A t \in Sessions : Spread(t)'
    BY <2>3, <2>6, SpreadMoves DEF Steady
  <2> QED BY <2>5, <2>7
<1>3. CASE /\ handler[s].at = "collect" /\ UNCHANGED <<shared, own, posts>>
           /\ Becomes(s, Record("post", handler[s].request, handler[s].message,
                                subscribers[board[s]]))
  <2>1. Canvas' = Canvas
    BY <1>3 DEF shared, Canvas
  <2>2. board[s] = TheBoard /\ handler[s].message.command.id \in ObjectIds
    BY <1>3, SaysCommand
  <2>3. IsInjective(subscribers[TheBoard])
    BY TheBoardAssumption DEF Present, Subscribed
  <2>4. \A id : Dead(id)' <=> Dead(id)
    BY <2>1 DEF Dead
  <2>5. \A t \in Sessions : Owning(t)'
    BY <1>1, <1>3, OwningMoves DEF Steady, Owning
  <2>6. \A t \in Sessions : Spread(t)'
    BY <1>3, <2>2, <2>3, <2>4, SpreadMoves DEF Steady, Spread
  <2> QED BY <2>5, <2>6
<1>4. CASE /\ handler[s].at = "post" /\ handler[s].to # <<>>
           /\ UNCHANGED shared
           /\ Becomes(s, Record("post", handler[s].request, handler[s].message,
                                Tail(handler[s].to)))
  <2>1. Canvas' = Canvas
    BY <1>4 DEF shared, Canvas
  <2>2. handler[s].to \in Seq(Sessions)
    BY <1>4, BusyIs DEF Typed, Types, Handlers
  <2>3. IsInjective(Tail(handler[s].to))
    BY <1>4, <2>2, InjectiveTail DEF Steady, Spread
  <2>4. \A id : Dead(id)' <=> Dead(id)
    BY <2>1 DEF Dead
  <2>5. \A t \in Sessions : Owning(t)'
    BY <1>1, <1>4, OwningMoves DEF Steady, Owning
  <2>6. \A t \in Sessions : Spread(t)'
    BY <1>4, <2>3, <2>4, SpreadMoves DEF Steady, Spread
  <2> QED BY <2>5, <2>6
<1>5. CASE Canvas' = Canvas /\ \E h : TellsNobody(s, h)
  <2>1. PICK h : TellsNobody(s, h)
    BY <1>5
  <2>2. \A id : Dead(id)' <=> Dead(id)
    BY <1>5 DEF Dead
  <2>3. \A t \in Sessions : Owning(t)'
    BY <1>1, <2>1, OwningMoves DEF Steady, TellsNobody
  <2>4. \A t \in Sessions : Spread(t)'
    BY <2>1, <2>2, SpreadMoves DEF Steady, TellsNobody
  <2> QED BY <2>3, <2>4
<1> QED BY <1>2, <1>3, <1>4, <1>5, ServeIs

-----------------------------------------------------------------------------
(* Every live object is on its way or there *)

\* An object that nobody erased is changed by one client, by one operation at
\* a time.
LEMMA OneCarries ==
    ASSUME Steady, NEW id \in ObjectIds, ~Dead(id),
           NEW d \in Sessions, NEW e \in Sessions, NEW s, NEW t,
           Carries(d, s, id), Carries(e, t, id)
    PROVE  d = e
<1>1. id \in client[d].used
  <2>1. handler[d].at \in {"collect", "post"} /\ handler[d].message.command.id = id
    BY DEF Carries
  <2>2. handler[d].message.command.op # "delete_object"
    BY <2>1 DEF Steady, Spread
  <2> QED BY <2>1, <2>2 DEF Steady, Owning, Own
<1>2. id \in client[e].used
  <2>1. handler[e].at \in {"collect", "post"} /\ handler[e].message.command.id = id
    BY DEF Carries
  <2>2. handler[e].message.command.op # "delete_object"
    BY <2>1 DEF Steady, Spread
  <2> QED BY <2>1, <2>2 DEF Steady, Owning, Own
<1> QED BY <1>1, <1>2 DEF Steady, Apart

\* What a command makes of its object depends on that object alone.
LEMMA ApplyLocal ==
    ASSUME NEW objects \in Objects, NEW others \in Objects, NEW c \in Command,
           objects[c.id] = others[c.id]
    PROVE  Apply(objects, c)[c.id] = Apply(others, c)[c.id]
BY ApplyHere

\* Neither the board nor what the clients have of it changes, nor who is told what.
LEMMA InStepQuiet ==
    ASSUME \A t \in Sessions, id \in ObjectIds : InStep(t, id),
           Canvas' = Canvas,
           TheBoard \in kept' => TheBoard \in kept,
           TheBoard \in kept' => \A t \in Sessions : client'[t].objects = client[t].objects,
           TheBoard \in kept' =>
             \A e \in Sessions, t \in Artists, id \in ObjectIds :
               Carries(e, t, id)' <=> Carries(e, t, id),
           \A e \in Sessions, t \in Artists, id \in ObjectIds :
               Carries(e, t, id) => handler'[e].message = handler[e].message
    PROVE  \A t \in Sessions, id \in ObjectIds : InStep(t, id)'
<1> SUFFICES ASSUME NEW t \in Artists, NEW id \in ObjectIds, t \in Sessions,
                    TheBoard \in kept', ~Dead(id)'
             PROVE  /\ \A e \in Sessions : Carries(e, t, id)' => Lacks(e, t, id)'
                    /\ (\A e \in Sessions : ~Carries(e, t, id)') =>
                          client'[t].objects[id] = Canvas'[id]
  BY DEF InStep, Artists
<1>1. /\ \A e \in Sessions : Carries(e, t, id) => Lacks(e, t, id)
      /\ (\A e \in Sessions : ~Carries(e, t, id)) => client[t].objects[id] = Canvas[id]
  BY DEF InStep, Dead
<1>2. ASSUME NEW e \in Sessions, Carries(e, t, id)' PROVE Lacks(e, t, id)'
  <2>1. Carries(e, t, id) /\ Lacks(e, t, id) /\ handler'[e].message = handler[e].message
    BY <1>1, <1>2
  <2> QED BY <2>1 DEF Lacks
<1>3. (\A e \in Sessions : ~Carries(e, t, id)') => client'[t].objects[id] = Canvas'[id]
  BY <1>1
<1> QED BY <1>2, <1>3

\* A step of the session of s that has nothing to tell.
LEMMA InStepTelling ==
    ASSUME \A t \in Sessions, id \in ObjectIds : InStep(t, id),
           Canvas' = Canvas,
           TheBoard \in kept' => TheBoard \in kept,
           TheBoard \in kept' => \A t \in Sessions : client'[t].objects = client[t].objects,
           NEW s \in Sessions, NEW h, TellsNobody(s, h)
    PROVE  \A t \in Sessions, id \in ObjectIds : InStep(t, id)'
<1>1. ASSUME NEW e \in Sessions, NEW t \in Artists, NEW id \in ObjectIds
      PROVE  /\ Carries(e, t, id)' <=> Carries(e, t, id)
             /\ Carries(e, t, id) => handler'[e].message = handler[e].message
  <2>1. CASE e = s
    <3>1. handler'[e] = h /\ ~Carries(e, t, id)
      <4>1. Range(<<>>) = {}
        BY DEF Range
      <4> QED BY <2>1, <4>1 DEF TellsNobody, Becomes, Carries
    <3> QED BY <2>1, <3>1 DEF TellsNobody, Carries
  <2>2. CASE e # s
    <3>1. handler'[e] = handler[e]
      BY <2>2 DEF TellsNobody, Becomes
    <3> QED BY <3>1 DEF Carries
  <2> QED BY <2>1, <2>2
<1> QED BY <1>1, InStepQuiet

\* A session is told of an operation with all who are on the board.
LEMMA InStepCollect ==
    ASSUME Typed, Present, Working, Steady, NEW s \in Sessions,
           handler[s].at = "collect", UNCHANGED <<shared, own, posts>>,
           Becomes(s, Record("post", handler[s].request, handler[s].message,
                             subscribers[board[s]]))
    PROVE  \A t \in Sessions, id \in ObjectIds : InStep(t, id)'
<1> USE RecordIs
<1>1. Canvas' = Canvas /\ kept' = kept /\ client' = client
  BY DEF Canvas, shared, posts
<1>2. board[s] = TheBoard
  BY SaysCommand
<1>3. TheBoard \in kept => \A t \in Artists : t \in Range(subscribers[TheBoard])
  <2> SUFFICES ASSUME TheBoard \in kept, NEW t \in Artists
               PROVE  t \in Range(subscribers[TheBoard])
    OBVIOUS
  <2>1. t \in Sessions /\ board[t] = TheBoard
    BY DEF Steady, Calm, Artists
  <2>2. handler[t].at \notin {"subscribe", "leave_collect", "farewell"}
    BY <2>1 DEF Working, Doing
  <2> QED BY <2>1, <2>2, TheBoardAssumption DEF Present, Subscribed, Gone, On
<1>4. ASSUME NEW e \in Sessions, NEW t \in Artists, NEW id \in ObjectIds, TheBoard \in kept
      PROVE  Carries(e, t, id)' <=> Carries(e, t, id)
  <2>1. CASE e = s
    BY <1>2, <1>3, <1>4, <2>1 DEF Becomes, Carries
  <2>2. CASE e # s
    <3>1. handler'[e] = handler[e]
      BY <2>2 DEF Becomes
    <3> QED BY <3>1 DEF Carries
  <2> QED BY <2>1, <2>2
<1>5. \A e \in Sessions : handler'[e].message = handler[e].message
  BY DEF Becomes
<1> QED BY <1>1, <1>4, <1>5, InStepQuiet DEF Steady

\* What a client becomes of an operation that it lacks.
LEMMA HandleTakes ==
    ASSUME NEW k \in Qt, NEW m \in Hearable, m.type = "operation_applied", k.board = m.board
    PROVE  \/ ~Accepts(k.objects, m.command) /\ Client!Handle(k, m).objects = k.objects
           \/ Accepts(k.objects, m.command)
              /\ Client!Handle(k, m).objects = Apply(k.objects, m.command)
<1> DEFINE next == Client!Handle(k, m)
<1>1. \/ ~Accepts(k.objects, m.command) /\ next = k
      \/ Accepts(k.objects, m.command)
         /\ \E mid : TookOver(k, m, mid) /\ Flushed(mid, next)
  BY HandleIs
<1>2. CASE ~Accepts(k.objects, m.command) /\ next = k
  BY <1>2
<1>3. CASE Accepts(k.objects, m.command) /\ \E mid : TookOver(k, m, mid) /\ Flushed(mid, next)
  BY <1>3 DEF TookOver, Flushed, SameBoard
<1> QED BY <1>1, <1>2, <1>3

\* A client hears of an operation.
LEMMA InStepPost ==
    ASSUME QtClients, Typed, Present, Working, Steady, NEW s \in Sessions, Serve(s),
           handler[s].at = "post", handler[s].to # <<>>, PostNext(s, "post"),
           UNCHANGED shared,
           Becomes(s, Record("post", handler[s].request, handler[s].message,
                             Tail(handler[s].to)))
    PROVE  \A t \in Sessions, id \in ObjectIds : InStep(t, id)'
<1> USE RecordIs
<1> SUFFICES ASSUME NEW t \in Artists, NEW id \in ObjectIds, t \in Sessions,
                    TheBoard \in kept', ~Dead(id)'
             PROVE  /\ \A e \in Sessions : Carries(e, t, id)' => Lacks(e, t, id)'
                    /\ (\A e \in Sessions : ~Carries(e, t, id)') =>
                          client'[t].objects[id] = Canvas'[id]
  BY DEF InStep, Artists
<1>1. Canvas' = Canvas /\ TheBoard \in kept /\ ~Dead(id)
  BY DEF Canvas, shared, Dead
<1>2. /\ \A e \in Sessions : Carries(e, t, id) => Lacks(e, t, id)
      /\ (\A e \in Sessions : ~Carries(e, t, id)) => client[t].objects[id] = Canvas[id]
  BY <1>1 DEF Steady, InStep
<1>3. PICK x \in Sessions : x = Head(handler[s].to)
  <2>1. handler[s].to \in Seq(Sessions)
    BY BusyIs DEF Typed, Types, Handlers
  <2> QED BY <2>1
<1>4. PICK m \in Hearable : m = handler[s].message
  BY SaysHearable
<1>5. /\ m.type = "operation_applied" /\ m.board = TheBoard
      /\ m.command \in Command /\ m.command.id \in ObjectIds
  BY <1>4, SaysCommand
<1>6. Hears(x, m)
  BY <1>3, <1>4, ServeEffect DEF Steady
<1>7. PICK k : k = Client!Handle(client[x], m)
  OBVIOUS
<1>8. client' = [client EXCEPT ![x] = k]
  BY <1>6, <1>7 DEF Hears
<1>9. /\ Range(handler[s].to) = Range(Tail(handler[s].to)) \cup {x}
      /\ x \notin Range(Tail(handler[s].to))
  <2>1. handler[s].to \in Seq(Sessions)
    BY BusyIs DEF Typed, Types, Handlers
  <2> QED BY <1>3, <2>1, InjectiveTail, TailRange DEF Steady, Spread
<1>10. \A e \in Sessions : handler'[e].message = handler[e].message
  BY DEF Becomes
<1>11. ASSUME NEW e \in Sessions, NEW i \in Sessions, e # s \/ i # x
       PROVE  Carries(e, i, id)' <=> Carries(e, i, id)
  <2>1. CASE e = s
    <3>1. handler'[e].at = "post" /\ handler'[e].to = Tail(handler[s].to)
      BY <2>1 DEF Becomes
    <3>2. i # x
      BY <1>11, <2>1
    <3> QED BY <1>9, <1>10, <2>1, <3>1, <3>2 DEF Carries
  <2>2. CASE e # s
    <3>1. handler'[e] = handler[e]
      BY <2>2 DEF Becomes
    <3> QED BY <3>1 DEF Carries
  <2> QED BY <2>1, <2>2
<1>12. CASE t # x
  <2>1. client'[t] = client[t]
    BY <1>8, <1>12 DEF Working
  <2>2. ASSUME NEW e \in Sessions, Carries(e, t, id)' PROVE Lacks(e, t, id)'
    <3>1. Carries(e, t, id)
      BY <1>11, <1>12, <2>2
    <3>2. Lacks(e, t, id)
      BY <1>2, <3>1
    <3> QED BY <1>1, <1>10, <2>1, <3>2 DEF Lacks
  <2>3. (\A e \in Sessions : ~Carries(e, t, id)') => client'[t].objects[id] = Canvas'[id]
    BY <1>1, <1>2, <1>11, <1>12, <2>1
  <2> QED BY <2>2, <2>3
<1>13. CASE t = x
  <2>1. client'[t] = k /\ client[t] \in Qt /\ client[t].board = TheBoard
    BY <1>1, <1>8, <1>13 DEF Working, Steady, Calm
  <2>2. \/ ~Accepts(client[t].objects, m.command) /\ k.objects = client[t].objects
        \/ Accepts(client[t].objects, m.command)
           /\ k.objects = Apply(client[t].objects, m.command)
    BY <1>5, <1>7, <1>13, <2>1, HandleTakes
  <2>3. client[t].objects \in Objects /\ k.objects \in Objects
    <3>1. client[t].objects \in Objects
      BY <2>1, QtIs
    <3> QED BY <1>5, <2>2, <3>1, ApplyType
  <2>4. CASE id = m.command.id
    <3>1. Carries(s, t, id)
      BY <1>4, <1>9, <1>13, <2>4 DEF Carries
    <3>2. Lacks(s, t, id)
      BY <1>2, <3>1
    <3>3. k.objects[id] = Canvas[id]
      BY <1>4, <2>2, <3>2 DEF Lacks
    <3>4. \A e \in Sessions : ~Carries(e, t, id)'
      <4>1. ~Carries(s, t, id)'
        BY <1>9, <1>13 DEF Becomes, Carries
      <4>2. ASSUME NEW e \in Sessions, e # s PROVE ~Carries(e, t, id)'
        <5>1. ~Carries(e, t, id)
          BY <1>1, <3>1, <4>2, OneCarries
        <5> QED BY <1>11, <4>2, <5>1
      <4> QED BY <4>1, <4>2
    <3> QED BY <1>1, <2>1, <3>3, <3>4
  <2>5. CASE id # m.command.id
    <3>1. k.objects[id] = client[t].objects[id]
      BY <1>5, <2>2, <2>3, <2>5, ApplyElsewhere
    <3>2. ~Carries(s, t, id)' /\ ~Carries(s, t, id)
      BY <1>4, <1>10, <2>5 DEF Carries
    <3>3. \A e \in Sessions : Carries(e, t, id)' <=> Carries(e, t, id)
      BY <1>11, <3>2
    <3>4. ASSUME NEW e \in Sessions, Carries(e, t, id)' PROVE Lacks(e, t, id)'
      <4>1. PICK c : c = handler[e].message.command
        OBVIOUS
      <4>2. Carries(e, t, id) /\ Lacks(e, t, id)
        BY <1>2, <3>3, <3>4
      <4>3. c \in Command /\ c.id = id
        BY <4>1, <4>2, SaysCommand DEF Carries
      <4>4. Accepts(client[t].objects, c) /\ Apply(client[t].objects, c)[id] = Canvas[id]
        BY <4>1, <4>2 DEF Lacks
      <4>5. Accepts(k.objects, c)
        BY <3>1, <4>3, <4>4, FailureLocal
      <4>6. Apply(k.objects, c)[id] = Canvas[id]
        BY <2>3, <3>1, <4>3, <4>4, ApplyLocal
      <4> QED BY <1>1, <1>10, <2>1, <4>1, <4>5, <4>6 DEF Lacks
    <3>5. (\A e \in Sessions : ~Carries(e, t, id)') => client'[t].objects[id] = Canvas'[id]
      BY <1>1, <1>2, <2>1, <3>1, <3>3
    <3> QED BY <3>4, <3>5
  <2> QED BY <2>4, <2>5
<1> QED BY <1>12, <1>13

\* The board takes an operation over.
LEMMA InStepApply ==
    ASSUME Typed, Present, Working, Steady, NEW s \in Sessions, ApplyOperation(s)
    PROVE  \A t \in Sessions, id \in ObjectIds : InStep(t, id)'
<1>1. PICK c : c = handler[s].request.command
  OBVIOUS
<1>2. /\ handler[s].at = "apply" /\ TheBoard \in kept
      /\ c \in Command /\ c.id \in ObjectIds /\ Canvas \in Objects /\ Accepts(Canvas, c)
      /\ Canvas' = Apply(Canvas, c)
      /\ client' = client
  BY <1>1, ApplyOperationIs, CommandId DEF Canvas
<1>3. PICK h : h.at = "collect" /\ h.message.command = c /\ Becomes(s, h)
  BY <1>1, ApplyOperationIs
<1>4. /\ \A id \in ObjectIds \ {c.id} : Canvas'[id] = Canvas[id] /\ (Dead(id)' <=> Dead(id))
      /\ ~Dead(c.id)
      /\ c.op = "delete_object" => Dead(c.id)'
  BY <1>2, DeadStays
<1> SUFFICES ASSUME NEW t \in Artists, NEW id \in ObjectIds, t \in Sessions, ~Dead(id)'
             PROVE  /\ \A e \in Sessions : Carries(e, t, id)' => Lacks(e, t, id)'
                    /\ (\A e \in Sessions : ~Carries(e, t, id)') =>
                          client'[t].objects[id] = Canvas'[id]
  BY DEF InStep, Artists
<1>5. /\ \A e \in Sessions : Carries(e, t, id) => Lacks(e, t, id)
      /\ (\A e \in Sessions : ~Carries(e, t, id)) => client[t].objects[id] = Canvas[id]
  BY <1>2, <1>4 DEF Steady, InStep
<1>6. \A e \in Sessions \ {s} :
        /\ handler'[e] = handler[e]
        /\ Carries(e, t, id)' <=> Carries(e, t, id)
  BY <1>3 DEF Becomes, Carries
<1>7. ~Carries(s, t, id) /\ (Carries(s, t, id)' <=> id = c.id)
  BY <1>2, <1>3 DEF Becomes, Carries
<1>8. CASE id # c.id
  <2>1. ASSUME NEW e \in Sessions, Carries(e, t, id)' PROVE Lacks(e, t, id)'
    <3>1. e # s /\ Lacks(e, t, id) /\ handler'[e] = handler[e]
      BY <1>5, <1>6, <1>7, <1>8, <2>1
    <3> QED BY <1>2, <1>4, <1>8, <3>1 DEF Lacks
  <2> QED BY <1>2, <1>4, <1>5, <1>6, <1>7, <1>8, <2>1
<1>9. CASE id = c.id
  <2>1. c.id \in client[s].used
    BY <1>1, <1>2, <1>4, <1>9 DEF Steady, Owning, Own
  <2>2. \A e \in Sessions : ~Carries(e, t, id)
    <3> SUFFICES ASSUME NEW e \in Sessions, Carries(e, t, id), e # s PROVE FALSE
      BY <1>7
    <3>1. handler[e].at \in {"collect", "post"} /\ handler[e].message.command.id = id
      BY DEF Carries
    <3>2. handler[e].message.command.op # "delete_object"
      BY <1>4, <1>9, <3>1 DEF Steady, Spread
    <3>3. id \in client[e].used
      BY <3>1, <3>2 DEF Steady, Owning, Own
    <3> QED BY <1>9, <2>1, <3>3 DEF Steady, Apart
  <2>3. client[t].objects[id] = Canvas[id]
    BY <1>5, <2>2
  <2>4. client[t].objects \in Objects
    BY QtIs DEF Working
  <2>5. Accepts(client[t].objects, c)
    BY <1>2, <1>9, <2>3, FailureLocal
  <2>6. Apply(client[t].objects, c)[id] = Canvas'[id]
    BY <1>2, <1>9, <2>3, <2>4, ApplyLocal
  <2>7. handler'[s].message.command = c
    BY <1>3 DEF Becomes
  <2>8. Lacks(s, t, id)'
    BY <1>2, <2>5, <2>6, <2>7 DEF Lacks
  <2> QED BY <1>6, <1>7, <1>9, <2>2, <2>8
<1> QED BY <1>8, <1>9

\* The steps of the server keep Steady.
LEMMA ServeSteady ==
    ASSUME QtClients, Typed, Present, Working, Steady, NEW s \in Sessions, Serve(s)
    PROVE  Steady'
<1>1. Calm'
  BY ServeCalm DEF Steady
<1>2. Apart'
  BY ServeApart DEF Steady, Owning
<1>3. \A t \in Sessions : Owning(t)' /\ Spread(t)'
  BY ServeOwning
<1>4. \A t \in Sessions, id \in ObjectIds : InStep(t, id)'
  <2>1. CASE ApplyOperation(s)
    BY <2>1, InStepApply
  <2>2. CASE /\ handler[s].at = "collect" /\ UNCHANGED <<shared, own, posts>>
             /\ Becomes(s, Record("post", handler[s].request, handler[s].message,
                                  subscribers[board[s]]))
    BY <2>2, InStepCollect
  <2>3. CASE /\ handler[s].at = "post" /\ handler[s].to # <<>> /\ PostNext(s, "post")
             /\ UNCHANGED shared
             /\ Becomes(s, Record("post", handler[s].request, handler[s].message,
                                  Tail(handler[s].to)))
    BY <2>3, InStepPost
  <2>4. CASE ~PostNext(s, "post") /\ Canvas' = Canvas /\ \E h : TellsNobody(s, h)
    <3>1. PICK h : TellsNobody(s, h)
      BY <2>4
    <3>2. TheBoard \in kept' =>
            /\ TheBoard \in kept
            /\ UNCHANGED client \/ \E m \in Hearable : m.type = "error" /\ Hears(s, m)
      BY <2>4, ServeEffect DEF Steady
    <3>3. TheBoard \in kept' => \A t \in Sessions : client'[t].objects = client[t].objects
      <4>1. CASE UNCHANGED client
        BY <4>1
      <4>2. CASE \E m \in Hearable : m.type = "error" /\ Hears(s, m)
        <5>1. PICK m \in Hearable : m.type = "error" /\ Hears(s, m)
          BY <4>2
        <5>2. PICK k : k = Client!Handle(client[s], m)
          OBVIOUS
        <5>3. k.objects = client[s].objects
          BY <5>1, <5>2, HandleKeeps DEF Working
        <5>4. client' = [client EXCEPT ![s] = k]
          BY <5>1, <5>2 DEF Hears
        <5> QED BY <5>3, <5>4 DEF Working
      <4> QED BY <3>2, <4>1, <4>2
    <3> QED BY <2>4, <3>1, <3>2, <3>3, InStepTelling DEF Steady
  <2> QED BY <2>1, <2>2, <2>3, <2>4, ServeIs
<1> QED BY <1>1, <1>2, <1>3, <1>4 DEF Steady

-----------------------------------------------------------------------------
(* The steps of the clients *)

\* A step of a client that leaves its objects alone, and the server too.
LEMMA ClientSteady ==
    ASSUME Typed, Working, Steady, NEW s \in Sessions, NEW k,
           client' = [client EXCEPT ![s] = k],
           k.board = client[s].board, k.objects = client[s].objects,
           Owns(k), client[s].used \subseteq k.used,
           \A t \in Sessions \ {s} : k.used \cap client[t].used = {},
           UNCHANGED <<shared, board, handler, strand>>
    PROVE  Steady'
<1>1. /\ client'[s] = k
      /\ \A t \in Sessions \ {s} : client'[t] = client[t]
  BY DEF Working
<1>2. \A t \in Sessions : /\ client'[t].board = client[t].board
                          /\ client'[t].objects = client[t].objects
                          /\ client[t].used \subseteq client'[t].used
                          /\ Owns(client'[t])
  <2> SUFFICES ASSUME NEW t \in Sessions
               PROVE  /\ client'[t].board = client[t].board
                      /\ client'[t].objects = client[t].objects
                      /\ client[t].used \subseteq client'[t].used
                      /\ Owns(client'[t])
    OBVIOUS
  <2>1. CASE t = s
    BY <1>1, <2>1
  <2>2. CASE t # s
    BY <1>1, <2>2 DEF Steady, Owning
  <2> QED BY <2>1, <2>2
<1>3. kept' = kept /\ Canvas' = Canvas
  BY DEF shared, Canvas
<1>4. Calm'
  BY <1>2, <1>3 DEF Steady, Calm, Artists
<1>5. Apart'
  <2> SUFFICES ASSUME NEW t \in Sessions, NEW u \in Sessions, t # u
               PROVE  client'[t].used \cap client'[u].used = {}
    BY DEF Apart
  <2>1. CASE t = s
    BY <1>1, <2>1
  <2>2. CASE u = s
    BY <1>1, <2>2
  <2>3. CASE t # s /\ u # s
    BY <1>1, <2>3 DEF Steady, Apart
  <2> QED BY <2>1, <2>2, <2>3
<1>6. \A t \in Sessions : Owning(t)' /\ Spread(t)'
  <2> SUFFICES ASSUME NEW t \in Sessions PROVE Owning(t)' /\ Spread(t)'
    OBVIOUS
  <2>1. Owning(t) /\ Spread(t)
    BY DEF Steady
  <2>2. \A c : Own(client[t], c) => Own(client'[t], c)
    BY <1>2 DEF Own
  <2>3. Owning(t)'
    BY <1>2, <2>1, <2>2 DEF Owning, Owns, Own
  <2>4. Spread(t)'
    BY <1>3, <2>1 DEF Spread, Dead
  <2> QED BY <2>3, <2>4
<1>7. \A t \in Sessions, id \in ObjectIds : InStep(t, id)'
  <2>1. \A e \in Sessions, t \in Artists, id \in ObjectIds :
           Carries(e, t, id)' <=> Carries(e, t, id)
    BY DEF Carries
  <2> QED BY <1>2, <1>3, <2>1, InStepQuiet DEF Steady
<1> QED BY <1>4, <1>5, <1>6, <1>7 DEF Steady

\* A new stroke has an identifier that nobody else has.
LEMMA DrawSteady ==
    ASSUME Typed, Working, Steady, NEW s \in Sessions, DrawStroke(s)
    PROVE  Steady'
<1>1. PICK id \in ObjectIds, first \in BeginStroke, second \in AppendStrokePoints,
           third \in EndStroke, next \in Qt :
              /\ \A t \in Sessions : id \notin client[t].used
              /\ first.id = id /\ second.id = id /\ third.id = id
              /\ client[s].board = TheBoard
              /\ Enqueued(client[s], <<first, second, third>>, client[s].used \cup {id}, next)
              /\ Gesture(s, next)
  BY DrawIs
<1>2. PICK operations : operations = <<first, second, third>>
  OBVIOUS
<1>3. operations \in Seq(Command) /\ Range(operations) = {first, second, third}
  BY <1>2, StrokeCommands DEF Range
<1>4. Owns(next) /\ next.used = client[s].used \cup {id}
  <2>1. \A c \in Range(operations) : c.op = "delete_object" \/ c.id \in client[s].used \cup {id}
    BY <1>1, <1>3
  <2>2. PICK k : k = client[s]
    OBVIOUS
  <2>3. Owns(k) /\ k \in Qt
    BY <2>2 DEF Steady, Owning, Working
  <2>4. PICK used : used = client[s].used \cup {id}
    OBVIOUS
  <2>5. Enqueued(k, operations, used, next) /\ k.used \subseteq used
    BY <1>1, <1>2, <2>2, <2>4
  <2>6. \A c \in Range(operations) : c.op = "delete_object" \/ c.id \in used
    BY <2>1, <2>4
  <2>7. Owns(next) /\ next.used = used
    BY <1>3, <2>3, <2>5, <2>6, EnqueuedOwns
  <2> QED BY <2>4, <2>7
<1>5. next.board = client[s].board /\ next.objects = client[s].objects
  BY <1>1, EnqueuedBoard
<1>6. \A t \in Sessions \ {s} : next.used \cap client[t].used = {}
  BY <1>1, <1>4 DEF Steady, Apart
<1>7. /\ client' = [client EXCEPT ![s] = next]
      /\ UNCHANGED <<shared, board, handler, strand>>
  BY <1>1 DEF Gesture
<1> QED BY <1>4, <1>5, <1>6, <1>7, ClientSteady

\* Anybody may erase.
LEMMA EraseSteady ==
    ASSUME Typed, Working, Steady, NEW s \in Sessions, EraseObject(s)
    PROVE  Steady'
<1>1. PICK c \in DeleteObject, next \in Qt :
              /\ c.op = "delete_object"
              /\ \/ client[s].board = NoBoard /\ next = client[s]
                 \/ client[s].board # NoBoard
                    /\ Enqueued(client[s], <<c>>, client[s].used, next)
              /\ Gesture(s, next)
  BY EraserIs
<1>2. Owns(client[s]) /\ client[s] \in Qt
  BY DEF Steady, Owning, Working
<1>3. /\ Owns(next) /\ next.used = client[s].used
      /\ next.board = client[s].board /\ next.objects = client[s].objects
  <2>1. CASE next = client[s]
    BY <1>2, <2>1
  <2>2. CASE Enqueued(client[s], <<c>>, client[s].used, next)
    <3>1. <<c>> \in Seq(Command) /\ Range(<<c>>) = {c}
      BY StrokeCommands DEF Range
    <3>2. PICK operations, k, used :
             operations = <<c>> /\ k = client[s] /\ used = client[s].used
      OBVIOUS
    <3>3. /\ operations \in Seq(Command)
          /\ \A d \in Range(operations) : d.op = "delete_object" \/ d.id \in used
      BY <1>1, <3>1, <3>2
    <3>4. Owns(k) /\ k \in Qt /\ Enqueued(k, operations, used, next) /\ k.used \subseteq used
      BY <1>2, <2>2, <3>2
    <3>5. Owns(next) /\ next.used = used
      BY <3>3, <3>4, EnqueuedOwns
    <3> QED BY <2>2, <3>2, <3>5, EnqueuedBoard
  <2> QED BY <1>1, <2>1, <2>2
<1>4. \A t \in Sessions \ {s} : next.used \cap client[t].used = {}
  BY <1>3 DEF Steady, Apart
<1>5. /\ client' = [client EXCEPT ![s] = next]
      /\ UNCHANGED <<shared, board, handler, strand>>
  BY <1>1 DEF Gesture
<1> QED BY <1>3, <1>4, <1>5, ClientSteady

\* The request to delete the board is no operation.
LEMMA PressSteady ==
    ASSUME Typed, Working, Steady, NEW s \in Sessions, DeleteTheBoard(s)
    PROVE  Steady'
<1>1. PICK r \in Wire, q \in Seq(Wire), next \in Qt :
              /\ r.type = "delete"
              /\ q = Append(client[s].sent, r)
              /\ next = Made(client[s].board, client[s].revision, client[s].objects,
                             client[s].pending, client[s].awaiting, client[s].timer,
                             q, client[s].used)
              /\ Gesture(s, next)
  BY PressIs
<1>2. Owns(client[s]) /\ client[s].sent \in Seq(Wire)
  BY QtIs DEF Steady, Owning, Working
<1>3. Range(q) = Range(client[s].sent) \cup {r}
  BY <1>1, <1>2, AppendRange
<1>4. /\ next.board = client[s].board /\ next.objects = client[s].objects
      /\ next.used = client[s].used /\ next.pending = client[s].pending /\ next.sent = q
  BY <1>1 DEF Made
<1>5. Owns(next)
  BY <1>1, <1>2, <1>3, <1>4 DEF Owns, Own
<1>6. \A t \in Sessions \ {s} : next.used \cap client[t].used = {}
  BY <1>4 DEF Steady, Apart
<1>7. /\ client' = [client EXCEPT ![s] = next]
      /\ UNCHANGED <<shared, board, handler, strand>>
  BY <1>1 DEF Gesture
<1> QED BY <1>4, <1>5, <1>6, <1>7, ClientSteady

\* A retry sends what was the client's own.
LEMMA TimerSteady ==
    ASSUME Typed, Working, Steady, NEW s \in Sessions, TimerFires(s)
    PROVE  Steady'
<1>1. PICK mid \in Qt, next \in Qt :
              /\ mid.board = client[s].board /\ mid.objects = client[s].objects
              /\ mid.pending = client[s].pending /\ mid.sent = client[s].sent
              /\ mid.used = client[s].used
              /\ Flushed(mid, next)
              /\ client' = [client EXCEPT ![s] = next]
              /\ UNCHANGED <<shared, own, handler, strand>>
  BY TimerFiresIs
<1>2. Owns(mid)
  BY <1>1 DEF Steady, Owning, Owns, Own
<1>3. /\ Owns(next) /\ next.used = client[s].used
      /\ next.board = client[s].board /\ next.objects = client[s].objects
  BY <1>1, <1>2, FlushedOwns
<1>4. \A t \in Sessions \ {s} : next.used \cap client[t].used = {}
  BY <1>3 DEF Steady, Apart
<1>5. UNCHANGED <<shared, board, handler, strand>>
  BY <1>1 DEF own
<1> QED BY <1>1, <1>3, <1>4, <1>5, ClientSteady

\* The session takes an operation from the socket, to apply it or to refuse it.
LEMMA DeliverSteady ==
    ASSUME Typed, Working, Steady, NEW s \in Sessions, Deliver(s)
    PROVE  Steady'
<1>1. PICK r \in Wire, q \in Seq(Wire), place \in {"apply", "delete", "respond"}, m \in Message :
              Delivers(s, r, q, place, m)
  BY DeliverIs
<1>2. /\ handler[s].at = "idle"
      /\ Range(client[s].sent) = Range(q) \cup {r}
      /\ client' = [client EXCEPT ![s].sent = q]
      /\ Accept(s, r)
      /\ Becomes(s, Record(place, r, m, <<>>))
      /\ place = "apply" => r.type = "operation"
  BY <1>1 DEF Delivers
<1>3. PICK k : k = [client[s] EXCEPT !.sent = q]
  OBVIOUS
<1>4. client' = [client EXCEPT ![s] = k] /\ client[s] \in Qt
  BY <1>2, <1>3 DEF Working
<1>5. /\ k.board = client[s].board /\ k.objects = client[s].objects
      /\ k.used = client[s].used /\ k.pending = client[s].pending /\ k.sent = q
  <2>1. client[s] = Made(client[s].board, client[s].revision, client[s].objects,
                         client[s].pending, client[s].awaiting, client[s].timer,
                         client[s].sent, client[s].used)
    BY <1>4, QtIs
  <2> QED BY <1>3, <2>1 DEF Made
<1>6. Owns(client[s]) /\ Owning(s)
  BY DEF Steady, Owning
<1>7. Owns(k)
  BY <1>2, <1>5, <1>6 DEF Owns, Own
<1>8. /\ client'[s] = k
      /\ \A t \in Sessions \ {s} : client'[t] = client[t]
  BY <1>4 DEF Working
<1>9. \A t \in Sessions : /\ client'[t].board = client[t].board
                          /\ client'[t].objects = client[t].objects
                          /\ client'[t].used = client[t].used
                          /\ Owns(client'[t])
  <2> SUFFICES ASSUME NEW t \in Sessions
               PROVE  /\ client'[t].board = client[t].board
                      /\ client'[t].objects = client[t].objects
                      /\ client'[t].used = client[t].used
                      /\ Owns(client'[t])
    OBVIOUS
  <2>1. CASE t = s
    BY <1>5, <1>7, <1>8, <2>1
  <2>2. CASE t # s
    BY <1>8, <2>2 DEF Steady, Owning
  <2> QED BY <2>1, <2>2
<1>10. kept' = kept /\ Canvas' = Canvas /\ board' = board /\ strand' = strand
  BY <1>2 DEF Accept, shared, Canvas
<1>11. Calm'
  BY <1>9, <1>10 DEF Steady, Calm, Artists
<1>12. Apart'
  BY <1>9 DEF Steady, Apart
<1>13. PICK h : h = Record(place, r, m, <<>>)
  OBVIOUS
<1>14. Becomes(s, h) /\ h.at = place /\ h.request = r
  BY <1>2, <1>13, RecordIs
<1>15. \A t \in Sessions : Owning(t)'
  <2>1. h.at = "apply" => Own(client[s], h.request.command)
    BY <1>2, <1>6, <1>14 DEF Owns
  <2>2. \A t \in Sessions : Owns(client[t])'
    BY <1>9 DEF Owns, Own
  <2>3. h.at \notin {"collect", "post"}
    BY <1>14
  <2> QED BY <1>9, <1>14, <2>1, <2>2, <2>3, OwningMoves DEF Steady
<1>16. \A t \in Sessions : Spread(t)'
  <2>1. \A id \in ObjectIds : Dead(id) => Dead(id)'
    BY <1>10 DEF Dead
  <2>2. h.at \notin {"collect", "post"}
    BY <1>14
  <2> QED BY <1>14, <2>1, <2>2, SpreadMoves DEF Steady
<1>17. \A t \in Sessions, id \in ObjectIds : InStep(t, id)'
  <2>1. \A e \in Sessions \ {s} : handler'[e] = handler[e]
    BY <1>14 DEF Becomes
  <2>2. handler[s].at = "idle" /\ handler'[s].at = place
    BY <1>2, <1>14 DEF Becomes
  <2>3. \A e \in Sessions, t \in Artists, id \in ObjectIds :
           /\ Carries(e, t, id)' <=> Carries(e, t, id)
           /\ Carries(e, t, id) => handler'[e].message = handler[e].message
    BY <2>1, <2>2 DEF Carries
  <2> QED BY <1>9, <1>10, <2>3, InStepQuiet DEF Steady
<1> QED BY <1>11, <1>12, <1>15, <1>16, <1>17 DEF Steady

\* What every step keeps.
LEMMA TogetherSteady ==
    ASSUME QtClients, Typed, Present, Working, Steady, TogetherNext
    PROVE  Steady'
BY DrawSteady, EraseSteady, PressSteady, TimerSteady, DeliverSteady, ServeSteady
   DEF TogetherNext, Proceed

\* And no step.
LEMMA StutterSteady ==
    ASSUME Steady, UNCHANGED vars
    PROVE  Steady'
<1>1. /\ kept' = kept /\ runtime' = runtime /\ board' = board /\ handler' = handler
      /\ strand' = strand /\ client' = client
  BY DEF vars, shared, own, posts
<1>2. Calm'
  BY <1>1 DEF Steady, Calm, Artists
<1>3. Apart'
  BY <1>1 DEF Steady, Apart
<1>4. \A t \in Sessions : Owning(t)' /\ Spread(t)'
  BY <1>1 DEF Steady, Owning, Owns, Own, Spread, Dead, Canvas
<1>5. \A t \in Sessions, id \in ObjectIds : InStep(t, id)'
  BY <1>1 DEF Steady, InStep, Carries, Lacks, Dead, Canvas
<1> QED BY <1>2, <1>3, <1>4, <1>5 DEF Steady

\* In the beginning there is nothing to agree on.
LEMMA SteadyStarts ==
    Together => Steady
<1> SUFFICES ASSUME Together PROVE Steady
  OBVIOUS
<1>1. \A s \in Sessions : /\ handler[s] = Idle /\ handler[s].at = "idle"
                          /\ strand[s] = <<>>
                          /\ s \in Artists => board[s] = TheBoard
                          /\ client[s] = IF s \in Artists THEN Joined ELSE Elsewhere
  BY DEF Together, Idle
<1>2. /\ Joined.board = TheBoard /\ Joined.objects = NoObjects /\ Joined.pending = <<>>
      /\ Joined.sent = <<>> /\ Joined.used = {}
      /\ Elsewhere.pending = <<>> /\ Elsewhere.sent = <<>> /\ Elsewhere.used = {}
  BY FirstClients DEF Made
<1>3. Canvas = NoObjects
  BY TheBoardAssumption DEF Together, Canvas, Fresh
<1>4. Calm
  BY <1>1, <1>2 DEF Calm
<1>5. Apart
  BY <1>1, <1>2 DEF Apart
<1>6. \A s \in Sessions : Owning(s) /\ Spread(s)
  <2> SUFFICES ASSUME NEW s \in Sessions PROVE Owning(s) /\ Spread(s)
    OBVIOUS
  <2>1. client[s].pending = <<>> /\ client[s].sent = <<>>
    BY <1>1, <1>2
  <2>2. Range(client[s].pending) = {} /\ Range(client[s].sent) = {}
    BY <2>1 DEF Range
  <2> QED BY <1>1, <2>2 DEF Owning, Owns, Spread
<1>7. \A s \in Sessions, id \in ObjectIds : InStep(s, id)
  <2> SUFFICES ASSUME NEW s \in Sessions, NEW id \in ObjectIds, s \in Artists
               PROVE  /\ \A e \in Sessions : ~Carries(e, s, id)
                      /\ client[s].objects[id] = Canvas[id]
    BY DEF InStep
  <2> QED BY <1>1, <1>2, <1>3 DEF Carries
<1> QED BY <1>4, <1>5, <1>6, <1>7 DEF Steady

\* Steady is an invariant.
LEMMA SteadyInvariant ==
    ASSUME QtClients
    PROVE  TogetherSpec => []Steady
<1>1. Together => Steady
  BY SteadyStarts
<1>2. Typed /\ Present /\ Working /\ Steady /\ [TogetherNext]_vars => Steady'
  BY TogetherSteady, StutterSteady
<1> QED BY <1>1, <1>2, WorkingInvariant, PTL DEF TogetherSpec

\* Whatever conflicts, retries and overtaking broadcasts there were among any number
\* of clients, once all is quiet every client on the board shows every object that
\* nobody erased exactly as the server has it: an operation that a client ignores
\* because it does not fit its objects is never one on such an object.
THEOREM LiveObjectsAgree ==
    ASSUME QtClients
    PROVE  TogetherSpec => []LiveObjectsConverge
<1>1. ASSUME Typed, Working, Steady, DeletionReachesAll
      PROVE  LiveObjectsConverge
  <2> SUFFICES ASSUME AllQuiet, NEW s \in Drawing, NEW id \in ObjectIds, Active(Canvas[id])
               PROVE  client[s].objects[id] = Canvas[id]
    BY DEF LiveObjectsConverge
  <2>1. s \in Sessions /\ s \in Artists
    <3>1. s \in Sessions /\ client[s].board = TheBoard
      BY DEF Drawing
    <3>2. Using(s, client[s])
      BY <1>1, <3>1 DEF Working
    <3> QED BY <3>1, <3>2, BoardsAssumption, TheBoardAssumption DEF Using
  <2>2. TheBoard \in kept
    BY <1>1 DEF DeletionReachesAll
  <2>3. ~Dead(id)
    BY DEF Dead, Active
  <2>4. \A e \in Sessions : ~Carries(e, s, id)
    BY DEF AllQuiet, Quiet, At, Carries
  <2> QED BY <1>1, <2>1, <2>2, <2>3, <2>4 DEF Steady, InStep
<1> QED BY <1>1, WorkingInvariant, SteadyInvariant, DeletionSpreads, PTL

-----------------------------------------------------------------------------
(* What is drawn gets there as a whole *)

\* Acknowledgements are told by type and object: nobody else erases.
OneEraser == \A s, t \in Erasers : s = t

\* The operations of a stroke on the object.
StrokeOf(ops, id) ==
    \E first \in BeginStroke, second \in AppendStrokePoints, third \in EndStroke :
        /\ ops = <<first, second, third>>
        /\ first.id = id /\ second.id = id /\ third.id = id
        /\ first.style \in Styles /\ second.points # <<>>
        /\ <<first.start>> \o second.points \in Ink

\* The object after the first n of them.
Drawn(ops, n) ==
    IF n = 0 THEN NoObject
    ELSE IF n = 1 THEN Created(ops[1])
    ELSE IF n = 2 THEN Changed(Created(ops[1]), ops[2])
    ELSE Changed(Changed(Created(ops[1]), ops[2]), ops[3])

\* From its i-th on, the queue has the operations of the stroke but for the first n,
\* and it has no others on the object.
Rest(q, ops, n, i) ==
    /\ i + 2 - n <= Len(q)
    /\ n > 0 => i = 1
    /\ \A k \in 1 .. Len(q) :
          IF i <= k /\ k <= i + 2 - n THEN q[k] = ops[n + 1 + k - i]
          ELSE q[k].id = ops[1].id => q[k].op = "delete_object"

\* The object o is as the queue leaves it, or has had the first of the queue too.
Whole(q, o, ahead, id) ==
    \E ops : \E n \in 0 .. 3 : \E i \in Nat \ {0} :
        /\ StrokeOf(ops, id)
        /\ Rest(q, ops, n, i)
        /\ o = Drawn(ops, IF i = 1 /\ n < 3 /\ ahead THEN n + 1 ELSE n)

-----------------------------------------------------------------------------
(* Queues *)

\* Its operations are three commands on the object, and none erases it.
LEMMA StrokeOfIs ==
    ASSUME NEW ops, NEW id, StrokeOf(ops, id)
    PROVE  /\ ops \in Seq(Command) /\ Len(ops) = 3
           /\ \A j \in 1 .. 3 : ops[j] \in Command /\ ops[j].id = id /\ ops[j].op # "delete_object"
<1>1. PICK first \in BeginStroke, second \in AppendStrokePoints, third \in EndStroke :
        /\ ops = <<first, second, third>>
        /\ first.id = id /\ second.id = id /\ third.id = id
        /\ first.style \in Styles /\ second.points # <<>>
        /\ <<first.start>> \o second.points \in Ink
  BY DEF StrokeOf
<1>2. /\ first \in Command /\ second \in Command /\ third \in Command
      /\ first.op # "delete_object" /\ second.op # "delete_object" /\ third.op # "delete_object"
  BY StrokeCommands
<1>3. ops \in Seq(Command) /\ Len(ops) = 3
  BY <1>1, <1>2
<1>4. ops[1] = first /\ ops[2] = second /\ ops[3] = third
  BY <1>1
<1> QED BY <1>1, <1>2, <1>3, <1>4

\* They begin, draw and end a stroke.
LEMMA StrokeOfHas ==
    ASSUME NEW ops, NEW id, StrokeOf(ops, id)
    PROVE  /\ ops[1] \in BeginStroke /\ ops[2] \in AppendStrokePoints /\ ops[3] \in EndStroke
           /\ ops[1].style \in Styles /\ ops[2].points # <<>>
           /\ <<ops[1].start>> \o ops[2].points \in Ink
<1>1. PICK first \in BeginStroke, second \in AppendStrokePoints, third \in EndStroke :
        /\ ops = <<first, second, third>>
        /\ first.style \in Styles /\ second.points # <<>>
        /\ <<first.start>> \o second.points \in Ink
  BY DEF StrokeOf
<1>2. ops[1] = first /\ ops[2] = second /\ ops[3] = third
  BY <1>1
<1> QED BY <1>1, <1>2

\* The first of the queue is the next of the stroke, or none of it.
LEMMA RestHead ==
    ASSUME NEW q \in Seq(Command), q # <<>>, NEW id, NEW ops, StrokeOf(ops, id),
           NEW n \in 0 .. 3, NEW i \in Nat \ {0}, Rest(q, ops, n, i)
    PROVE  \/ i = 1 /\ n < 3 /\ Head(q) = ops[n + 1]
           \/ /\ (i > 1 /\ n = 0) \/ (i = 1 /\ n = 3)
              /\ Head(q).id = id => Head(q).op = "delete_object"
<1>1. Len(q) \in Nat \ {0} /\ Head(q) = q[1] /\ 1 \in 1 .. Len(q)
  BY EmptySeq
<1>2. ops[1].id = id
  BY StrokeOfIs
<1>3. IF i <= 1 /\ 1 <= i + 2 - n THEN q[1] = ops[n + 1 + 1 - i]
      ELSE q[1].id = ops[1].id => q[1].op = "delete_object"
  BY <1>1 DEF Rest
<1>4. CASE i = 1 /\ n < 3
  <2>1. n + 1 + 1 - i = n + 1
    BY <1>4
  <2> QED BY <1>1, <1>3, <1>4, <2>1
<1>5. CASE i > 1 /\ n = 0
  BY <1>1, <1>2, <1>3, <1>5
<1>6. CASE i = 1 /\ n = 3
  BY <1>1, <1>2, <1>3, <1>6
<1>7. n > 0 => i = 1
  BY DEF Rest
<1> QED BY <1>4, <1>5, <1>6, <1>7

\* What the tail of the queue has of the stroke.
LEMMA RestTail ==
    ASSUME NEW q \in Seq(Command), q # <<>>, NEW ops,
           NEW n \in 0 .. 3, NEW i \in Nat \ {0}, Rest(q, ops, n, i)
    PROVE  /\ i = 1 /\ n < 3 => Rest(Tail(q), ops, n + 1, 1)
           /\ i > 1 => Rest(Tail(q), ops, n, i - 1)
           /\ n = 3 => Rest(Tail(q), ops, 3, 1)
<1>1. /\ Len(q) \in Nat \ {0} /\ Len(Tail(q)) = Len(q) - 1
      /\ \A k \in 1 .. Len(Tail(q)) : Tail(q)[k] = q[k + 1] /\ k + 1 \in 1 .. Len(q)
  BY EmptySeq
<1>2. ASSUME NEW k \in 1 .. Len(Tail(q))
      PROVE  IF i <= k + 1 /\ k + 1 <= i + 2 - n THEN Tail(q)[k] = ops[n + 1 + (k + 1) - i]
             ELSE Tail(q)[k].id = ops[1].id => Tail(q)[k].op = "delete_object"
  BY <1>1 DEF Rest
<1>3. CASE i = 1 /\ n < 3
  <2>1. ASSUME NEW k \in 1 .. Len(Tail(q))
        PROVE  IF 1 <= k /\ k <= 1 + 2 - (n + 1) THEN Tail(q)[k] = ops[(n + 1) + 1 + k - 1]
               ELSE Tail(q)[k].id = ops[1].id => Tail(q)[k].op = "delete_object"
    <3>1. /\ n + 1 + (k + 1) - i = (n + 1) + 1 + k - 1
          /\ (i <= k + 1 /\ k + 1 <= i + 2 - n) <=> (1 <= k /\ k <= 1 + 2 - (n + 1))
      BY <1>3
    <3> QED BY <1>2, <3>1
  <2>2. 1 + 2 - (n + 1) <= Len(Tail(q))
    BY <1>1, <1>3 DEF Rest
  <2> QED BY <1>3, <2>1, <2>2 DEF Rest
<1>4. CASE i > 1
  <2>1. n = 0
    BY <1>4 DEF Rest
  <2>2. ASSUME NEW k \in 1 .. Len(Tail(q))
        PROVE  IF i - 1 <= k /\ k <= (i - 1) + 2 - n THEN Tail(q)[k] = ops[n + 1 + k - (i - 1)]
               ELSE Tail(q)[k].id = ops[1].id => Tail(q)[k].op = "delete_object"
    <3>1. /\ n + 1 + (k + 1) - i = n + 1 + k - (i - 1)
          /\ (i <= k + 1 /\ k + 1 <= i + 2 - n) <=> (i - 1 <= k /\ k <= (i - 1) + 2 - n)
      OBVIOUS
    <3> QED BY <1>2, <3>1
  <2>3. (i - 1) + 2 - n <= Len(Tail(q))
    BY <1>1 DEF Rest
  <2> QED BY <1>4, <2>1, <2>2, <2>3 DEF Rest
<1>5. CASE n = 3
  <2>1. i = 1
    BY <1>5 DEF Rest
  <2>2. ASSUME NEW k \in 1 .. Len(Tail(q))
        PROVE  /\ ~(1 <= k /\ k <= 1 + 2 - 3)
               /\ Tail(q)[k].id = ops[1].id => Tail(q)[k].op = "delete_object"
    <3>1. ~(i <= k + 1 /\ k + 1 <= i + 2 - n)
      BY <1>5, <2>1
    <3> QED BY <1>2, <3>1
  <2>3. 1 + 2 - 3 <= Len(Tail(q))
    BY <1>1
  <2> QED BY <2>2, <2>3 DEF Rest
<1> QED BY <1>3, <1>4, <1>5 DEF Rest

\* Erasing may be appended, and whatever is about other objects.
LEMMA RestAppend ==
    ASSUME NEW q \in Seq(Command), NEW r \in Seq(Command), NEW id, NEW ops, StrokeOf(ops, id),
           NEW n \in 0 .. 3, NEW i \in Nat \ {0}, Rest(q, ops, n, i),
           \A c \in Range(r) : c.id = id => c.op = "delete_object"
    PROVE  Rest(q \o r, ops, n, i)
<1>1. PICK p : p = q \o r
  OBVIOUS
<1>2. /\ Len(q) \in Nat /\ Len(r) \in Nat /\ Len(p) = Len(q) + Len(r)
      /\ \A k \in 1 .. Len(p) : p[k] = IF k <= Len(q) THEN q[k] ELSE r[k - Len(q)]
  BY <1>1, ConcatProperties
<1>3. ASSUME NEW k \in 1 .. Len(p)
      PROVE  IF i <= k /\ k <= i + 2 - n THEN p[k] = ops[n + 1 + k - i]
             ELSE p[k].id = ops[1].id => p[k].op = "delete_object"
  <2>1. CASE k <= Len(q)
    <3>1. k \in 1 .. Len(q) /\ p[k] = q[k]
      BY <1>2, <2>1
    <3> QED BY <3>1 DEF Rest
  <2>2. CASE k > Len(q)
    <3>1. k - Len(q) \in 1 .. Len(r) /\ p[k] = r[k - Len(q)]
      BY <1>2, <2>2
    <3>2. p[k] \in Range(r)
      BY <3>1 DEF Range
    <3>3. ~(k <= i + 2 - n)
      BY <1>2, <2>2 DEF Rest
    <3> QED BY <3>2, <3>3, StrokeOfIs
  <2> QED BY <1>2, <2>1, <2>2
<1>4. i + 2 - n <= Len(p)
  BY <1>2 DEF Rest
<1> QED BY <1>1, <1>3, <1>4 DEF Rest

\* A stroke joins a queue that has nothing on its object.
LEMMA RestNew ==
    ASSUME NEW q \in Seq(Command), NEW id, NEW ops, StrokeOf(ops, id),
           \A c \in Range(q) : c.id = id => c.op = "delete_object"
    PROVE  Rest(q \o ops, ops, 0, Len(q) + 1)
<1>1. PICK p : p = q \o ops
  OBVIOUS
<1>2. ops \in Seq(Command) /\ Len(ops) = 3 /\ ops[1].id = id
  BY StrokeOfIs
<1>3. /\ Len(q) \in Nat /\ Len(p) = Len(q) + 3
      /\ \A k \in 1 .. Len(p) : p[k] = IF k <= Len(q) THEN q[k] ELSE ops[k - Len(q)]
  <2>1. /\ Len(q) \in Nat /\ Len(p) = Len(q) + Len(ops)
        /\ \A k \in 1 .. Len(q) + Len(ops) :
              p[k] = IF k <= Len(q) THEN q[k] ELSE ops[k - Len(q)]
    <3>1. PICK r \in Seq(Command) : r = ops
      BY <1>2
    <3>2. /\ Len(q) \in Nat /\ Len(q \o r) = Len(q) + Len(r)
          /\ \A k \in 1 .. Len(q) + Len(r) :
                (q \o r)[k] = IF k <= Len(q) THEN q[k] ELSE r[k - Len(q)]
      BY ConcatProperties
    <3> QED BY <1>1, <3>1, <3>2
  <2> QED BY <1>2, <2>1
<1>4. PICK i : i = Len(q) + 1
  OBVIOUS
<1>5. ASSUME NEW k \in 1 .. Len(p)
      PROVE  IF i <= k /\ k <= i + 2 - 0 THEN p[k] = ops[0 + 1 + k - i]
             ELSE p[k].id = ops[1].id => p[k].op = "delete_object"
  <2>1. CASE k <= Len(q)
    <3>1. k \in 1 .. Len(q) /\ p[k] = q[k] /\ ~(i <= k)
      BY <1>3, <1>4, <2>1
    <3>2. p[k] \in Range(q)
      BY <3>1 DEF Range
    <3> QED BY <1>2, <3>1, <3>2
  <2>2. CASE k > Len(q)
    <3>1. p[k] = ops[k - Len(q)] /\ i <= k /\ k <= i + 2 - 0 /\ 0 + 1 + k - i = k - Len(q)
      BY <1>3, <1>4, <2>2
    <3> QED BY <3>1
  <2> QED BY <1>3, <2>1, <2>2
<1>6. i + 2 - 0 <= Len(p)
  BY <1>3, <1>4
<1>7. Rest(p, ops, 0, i)
  BY <1>5, <1>6 DEF Rest
<1> QED BY <1>1, <1>4, <1>7

\* What is given up is all of another object, or comes after the stroke.
LEMMA RestDiscard ==
    ASSUME NEW q \in Seq(Command), NEW id, NEW ops, StrokeOf(ops, id),
           NEW n \in 0 .. 3, NEW i \in Nat \ {0}, Rest(q, ops, n, i),
           n = 3 \/ q[1].id # id,
           NEW m \in 2 .. Len(q), \A j \in 1 .. m - 1 : q[j].id = q[1].id
    PROVE  /\ n \in {0, 3}
           /\ n = 3 => Rest(SubSeq(q, m, Len(q)), ops, 3, 1)
           /\ n = 0 => i >= m /\ Rest(SubSeq(q, m, Len(q)), ops, 0, i - m + 1)
<1>1. PICK p : p = SubSeq(q, m, Len(q))
  OBVIOUS
<1>2. /\ Len(q) \in Nat /\ Len(p) = Len(q) - m + 1
      /\ \A k \in 1 .. Len(p) : p[k] = q[k + m - 1] /\ k + m - 1 \in 1 .. Len(q)
  BY <1>1
<1>3. /\ ops[1].id = id /\ ops[2].id = id /\ ops[3].id = id
  BY StrokeOfIs
<1>4. ASSUME NEW k \in 1 .. Len(p)
      PROVE  IF i <= k + m - 1 /\ k + m - 1 <= i + 2 - n
               THEN p[k] = ops[n + 1 + (k + m - 1) - i]
             ELSE p[k].id = ops[1].id => p[k].op = "delete_object"
  BY <1>2 DEF Rest
<1>5. CASE n = 3
  <2>1. i = 1
    BY <1>5 DEF Rest
  <2>2. ASSUME NEW k \in 1 .. Len(p)
        PROVE  /\ ~(1 <= k /\ k <= 1 + 2 - 3)
               /\ p[k].id = ops[1].id => p[k].op = "delete_object"
    <3>1. ~(i <= k + m - 1 /\ k + m - 1 <= i + 2 - n)
      BY <1>5, <2>1
    <3> QED BY <1>4, <3>1
  <2>3. 1 + 2 - 3 <= Len(p)
    BY <1>2
  <2> QED BY <1>1, <1>5, <2>2, <2>3 DEF Rest
<1>6. CASE n < 3
  <2>1. ASSUME i < m PROVE FALSE
    <3>1. i \in 1 .. m - 1 /\ i \in 1 .. Len(q)
      BY <1>2, <2>1
    <3>2. q[i] = ops[n + 1 + i - i] /\ n + 1 + i - i = n + 1 /\ n + 1 \in {1, 2, 3}
      BY <1>6, <3>1 DEF Rest
    <3>3. q[i].id = id
      BY <1>3, <3>2
    <3> QED BY <1>6, <3>1, <3>3
  <2>2. i >= m /\ n = 0
    BY <2>1 DEF Rest
  <2>3. ASSUME NEW k \in 1 .. Len(p)
        PROVE  IF i - m + 1 <= k /\ k <= (i - m + 1) + 2 - 0
                 THEN p[k] = ops[0 + 1 + k - (i - m + 1)]
               ELSE p[k].id = ops[1].id => p[k].op = "delete_object"
    <3>1. /\ n + 1 + (k + m - 1) - i = 0 + 1 + k - (i - m + 1)
          /\ (i <= k + m - 1 /\ k + m - 1 <= i + 2 - n)
               <=> (i - m + 1 <= k /\ k <= (i - m + 1) + 2 - 0)
      BY <2>2
    <3> QED BY <1>4, <3>1
  <2>4. (i - m + 1) + 2 - 0 <= Len(p)
    BY <1>2, <2>2 DEF Rest
  <2>5. Rest(p, ops, 0, i - m + 1)
    BY <2>3, <2>4 DEF Rest
  <2> QED BY <1>1, <1>6, <2>2, <2>5
<1> QED BY <1>5, <1>6

\* One state of the stroke follows from the other.
LEMMA DrawnIs ==
    ASSUME NEW ops
    PROVE  /\ Drawn(ops, 0) = NoObject
           /\ Drawn(ops, 1) = Created(ops[1])
           /\ Drawn(ops, 2) = Changed(Drawn(ops, 1), ops[2])
           /\ Drawn(ops, 3) = Changed(Drawn(ops, 2), ops[3])
BY DEF Drawn

\* The last of them has all the points.
LEMMA DrawnHas ==
    ASSUME NEW ops, NEW id, StrokeOf(ops, id)
    PROVE  /\ \A n \in 1 .. 3 : Drawn(ops, n).type = "stroke" /\ ~Drawn(ops, n).deleted
           /\ ~Drawn(ops, 1).finished /\ ~Drawn(ops, 2).finished
           /\ Drawn(ops, 3).finished
           /\ Drawn(ops, 3).points = <<ops[1].start>> \o ops[2].points
<1> PICK first : first = ops[1]
  OBVIOUS
<1> PICK second : second = ops[2]
  OBVIOUS
<1> PICK third : third = ops[3]
  OBVIOUS
<1>1. first \in BeginStroke /\ second \in AppendStrokePoints /\ third \in EndStroke
  BY StrokeOfHas
<1>2. first.op = "begin_stroke" /\ second.op = "append_stroke_points" /\ third.op = "end_stroke"
  BY <1>1 DEF BeginStroke, AppendStrokePoints, EndStroke
<1> PICK begun : begun = Drawn(ops, 1)
  OBVIOUS
<1> PICK moved : moved = Drawn(ops, 2)
  OBVIOUS
<1> PICK ended : ended = Drawn(ops, 3)
  OBVIOUS
<1>3. begun = Created(first) /\ moved = Changed(begun, second) /\ ended = Changed(moved, third)
  BY DrawnIs
<1>4. begun = NewStroke(first)
  BY <1>2, <1>3 DEF Created
<1>5. /\ begun.type = "stroke" /\ ~begun.deleted /\ ~begun.finished
      /\ begun.points = <<first.start>>
      /\ DOMAIN begun = {"type", "deleted", "style", "points", "finished"}
  BY <1>4 DEF NewStroke
<1>6. moved = [begun EXCEPT !.points = @ \o second.points]
  <2>1. Target["append_stroke_points"] = "stroke"
    BY DEF Target
  <2>2. Changed(begun, second) = ChangedInk(begun, second)
    BY <1>2, <2>1, Zenon DEF Changed
  <2> QED BY <1>2, <1>3, <2>2 DEF ChangedInk
<1>7. /\ moved.type = "stroke" /\ ~moved.deleted /\ ~moved.finished
      /\ moved.points = <<first.start>> \o second.points
      /\ DOMAIN moved = DOMAIN begun
  BY <1>5, <1>6
<1>8. ended = [moved EXCEPT !.finished = TRUE]
  BY <1>2, <1>3, <1>7 DEF Changed, ChangedInk, Target
<1>9. /\ ended.type = "stroke" /\ ~ended.deleted /\ ended.finished
      /\ ended.points = <<first.start>> \o second.points
  BY <1>5, <1>7, <1>8
<1> QED BY <1>5, <1>7, <1>9

\* There is a stroke as soon as it has begun.
LEMMA DrawnSomething ==
    ASSUME NEW ops, NEW id, StrokeOf(ops, id), NEW n \in 0 .. 3
    PROVE  Drawn(ops, n) = NoObject <=> n = 0
<1>1. n # 0 => Drawn(ops, n).type = "stroke"
  <2>1. n # 0 => n \in 1 .. 3
    OBVIOUS
  <2> QED BY <2>1, DrawnHas
<1>2. NoObject.type = "none"
  BY DEF NoObject
<1> QED BY <1>1, <1>2, DrawnIs

\* What the operations of a stroke do, one after the other.
LEMMA StrokeDraws ==
    ASSUME NEW ops, NEW id, StrokeOf(ops, id), NEW objects \in Objects,
           NEW n \in 0 .. 2, objects[id] = Drawn(ops, n)
    PROVE  /\ Accepts(objects, ops[n + 1])
           /\ Apply(objects, ops[n + 1])[id] = Drawn(ops, n + 1)
<1>1. /\ \A j \in 1 .. 3 : ops[j] \in Command /\ ops[j].id = id
      /\ ops[1] \in BeginStroke /\ ops[2] \in AppendStrokePoints /\ ops[3] \in EndStroke
      /\ ops[1].style \in Styles /\ ops[2].points # <<>>
  BY StrokeOfIs, StrokeOfHas
<1>2. CASE n = 0
  <2>1. PICK c : c = ops[1]
    OBVIOUS
  <2>2. /\ c \in Command /\ c.id = id /\ c.op = "begin_stroke" /\ objects[id] = NoObject
        /\ c.style # Invalid /\ DOMAIN c = {"op", "id", "style", "start"}
    BY <1>1, <1>2, <2>1, DrawnIs, InvalidAssumption DEF BeginStroke
  <2>3. Accepts(objects, c)
    <3>1. ~Malformed(c)
      BY <2>2 DEF Malformed
    <3> QED BY <2>2, <3>1 DEF Accepts, Failure, Creations, CreateFailure
  <2>4. Apply(objects, c)[id] = Drawn(ops, 1)
    BY <2>1, <2>2, ApplyHere, DrawnIs DEF Creations
  <2>5. n + 1 = 1
    BY <1>2
  <2> QED BY <2>1, <2>3, <2>4, <2>5
<1>3. CASE n = 1
  <2>1. PICK c : c = ops[2]
    OBVIOUS
  <2>2. /\ c \in Command /\ c.id = id /\ c.op = "append_stroke_points" /\ c.points # <<>>
        /\ DOMAIN c = {"op", "id", "points"}
    BY <1>1, <2>1 DEF AppendStrokePoints
  <2>3. PICK o : o = objects[id]
    OBVIOUS
  <2>4. /\ o = Drawn(ops, 1) /\ o.type = "stroke" /\ ~o.deleted /\ ~o.finished /\ o # NoObject
    <3>1. o = Drawn(ops, 1) /\ 1 \in 1 .. 3 /\ 1 \in 0 .. 3 /\ 1 # 0
      BY <1>3, <2>3
    <3>2. ~Drawn(ops, 1).finished
      BY DrawnHas
    <3>3. Drawn(ops, 1).type = "stroke" /\ ~Drawn(ops, 1).deleted
      BY <3>1, DrawnHas
    <3>4. Drawn(ops, 1) # NoObject
      BY <3>1, DrawnSomething
    <3> QED BY <3>1, <3>2, <3>3, <3>4
  <2>5. Accepts(objects, c)
    <3>1. ~Malformed(c)
      BY <2>2 DEF Malformed
    <3>2. Target[c.op] = "stroke"
      BY <2>2 DEF Target
    <3>3. UpdateFailure(o, c) = "ok"
      BY <2>4, <3>1, <3>2 DEF UpdateFailure
    <3> QED BY <2>2, <2>3, <2>4, <3>3 DEF Accepts, Failure, Creations, Active
  <2>6. Apply(objects, c)[id] = Drawn(ops, 2)
    BY <2>1, <2>2, <2>3, <2>4, ApplyHere, DrawnIs DEF Creations
  <2>7. n + 1 = 2
    BY <1>3
  <2> QED BY <2>1, <2>5, <2>6, <2>7
<1>4. CASE n = 2
  <2>1. PICK c : c = ops[3]
    OBVIOUS
  <2>2. /\ c \in Command /\ c.id = id /\ c.op = "end_stroke" /\ DOMAIN c = {"op", "id"}
    BY <1>1, <2>1 DEF EndStroke
  <2>3. PICK o : o = objects[id]
    OBVIOUS
  <2>4. /\ o = Drawn(ops, 2) /\ o.type = "stroke" /\ ~o.deleted /\ ~o.finished /\ o # NoObject
    <3>1. o = Drawn(ops, 2) /\ 2 \in 1 .. 3 /\ 2 \in 0 .. 3 /\ 2 # 0
      BY <1>4, <2>3
    <3>2. ~Drawn(ops, 2).finished
      BY DrawnHas
    <3>3. Drawn(ops, 2).type = "stroke" /\ ~Drawn(ops, 2).deleted
      BY <3>1, DrawnHas
    <3>4. Drawn(ops, 2) # NoObject
      BY <3>1, DrawnSomething
    <3> QED BY <3>1, <3>2, <3>3, <3>4
  <2>5. Accepts(objects, c)
    <3>1. ~Malformed(c)
      BY <2>2 DEF Malformed
    <3>2. Target[c.op] = "stroke"
      BY <2>2 DEF Target
    <3>3. UpdateFailure(o, c) = "ok"
      BY <2>4, <3>1, <3>2 DEF UpdateFailure
    <3> QED BY <2>2, <2>3, <2>4, <3>3 DEF Accepts, Failure, Creations, Active
  <2>6. Apply(objects, c)[id] = Drawn(ops, 3)
    BY <2>1, <2>2, <2>3, <2>4, ApplyHere, DrawnIs DEF Creations
  <2>7. n + 1 = 3
    BY <1>4
  <2> QED BY <2>1, <2>5, <2>6, <2>7
<1> QED BY <1>2, <1>3, <1>4

-----------------------------------------------------------------------------
(* Strokes, as the queue goes on *)

\* As RestAppend and RestNew.
LEMMA WholeAppend ==
    ASSUME NEW q \in Seq(Command), NEW r \in Seq(Command), NEW o, NEW ahead \in BOOLEAN, NEW id,
           Whole(q, o, ahead, id), \A c \in Range(r) : c.id = id => c.op = "delete_object"
    PROVE  Whole(q \o r, o, ahead, id)
<1>1. PICK ops : \E n \in 0 .. 3 : \E i \in Nat \ {0} :
        /\ StrokeOf(ops, id) /\ Rest(q, ops, n, i)
        /\ o = Drawn(ops, IF i = 1 /\ n < 3 /\ ahead THEN n + 1 ELSE n)
  BY DEF Whole
<1>2. PICK n \in 0 .. 3, i \in Nat \ {0} :
        /\ StrokeOf(ops, id) /\ Rest(q, ops, n, i)
        /\ o = Drawn(ops, IF i = 1 /\ n < 3 /\ ahead THEN n + 1 ELSE n)
  BY <1>1
<1>3. Rest(q \o r, ops, n, i)
  BY <1>2, RestAppend
<1> QED BY <1>2, <1>3 DEF Whole

\* A new stroke, of which the board has nothing yet.
LEMMA WholeNew ==
    ASSUME NEW q \in Seq(Command), NEW ops, NEW id, StrokeOf(ops, id), NEW ahead \in BOOLEAN,
           q = <<>> => ~ahead, \A c \in Range(q) : c.id = id => c.op = "delete_object"
    PROVE  Whole(q \o ops, NoObject, ahead, id)
<1>1. PICK i : i = Len(q) + 1
  OBVIOUS
<1>2. i \in Nat \ {0} /\ (i = 1 => q = <<>>)
  BY <1>1, EmptySeq
<1>3. Rest(q \o ops, ops, 0, i)
  BY <1>1, RestNew
<1>4. NoObject = Drawn(ops, IF i = 1 /\ 0 < 3 /\ ahead THEN 0 + 1 ELSE 0)
  <2>1. ~(i = 1 /\ 0 < 3 /\ ahead)
    BY <1>2
  <2> QED BY <2>1, DrawnIs
<1> QED BY <1>2, <1>3, <1>4 DEF Whole

\* The first of the queue is the next of the stroke: it is accepted.
LEMMA WholeApply ==
    ASSUME NEW q \in Seq(Command), q # <<>>, NEW objects \in Objects, NEW id,
           Whole(q, objects[id], FALSE, id),
           Head(q).id = id, Head(q).op # "delete_object"
    PROVE  /\ Accepts(objects, Head(q))
           /\ Whole(q, Apply(objects, Head(q))[id], TRUE, id)
<1>1. PICK ops : \E n \in 0 .. 3 : \E i \in Nat \ {0} :
        /\ StrokeOf(ops, id) /\ Rest(q, ops, n, i)
        /\ objects[id] = Drawn(ops, IF i = 1 /\ n < 3 /\ FALSE THEN n + 1 ELSE n)
  BY DEF Whole
<1>2. PICK n \in 0 .. 3, i \in Nat \ {0} :
        /\ StrokeOf(ops, id) /\ Rest(q, ops, n, i)
        /\ objects[id] = Drawn(ops, n)
  BY <1>1
<1>3. i = 1 /\ n < 3 /\ Head(q) = ops[n + 1]
  BY <1>2, RestHead
<1>4. n \in 0 .. 2
  BY <1>3
<1>5. /\ Accepts(objects, Head(q))
      /\ Apply(objects, Head(q))[id] = Drawn(ops, n + 1)
  BY <1>2, <1>3, <1>4, StrokeDraws
<1> QED BY <1>2, <1>3, <1>5 DEF Whole

\* The first of the queue is none of the stroke.
LEMMA WholeElsewhere ==
    ASSUME NEW q \in Seq(Command), NEW o, NEW ahead \in BOOLEAN, NEW id, Whole(q, o, ahead, id),
           NEW now \in BOOLEAN,
           q # <<>> => (Head(q).id = id => Head(q).op = "delete_object")
    PROVE  Whole(q, o, now, id)
<1>1. PICK ops : \E n \in 0 .. 3 : \E i \in Nat \ {0} :
        /\ StrokeOf(ops, id) /\ Rest(q, ops, n, i)
        /\ o = Drawn(ops, IF i = 1 /\ n < 3 /\ ahead THEN n + 1 ELSE n)
  BY DEF Whole
<1>2. PICK n \in 0 .. 3, i \in Nat \ {0} :
        /\ StrokeOf(ops, id) /\ Rest(q, ops, n, i)
        /\ o = Drawn(ops, IF i = 1 /\ n < 3 /\ ahead THEN n + 1 ELSE n)
  BY <1>1
<1>3. ~(i = 1 /\ n < 3)
  <2>1. CASE q = <<>>
    <3>1. Len(q) = 0
      BY <2>1
    <3> QED BY <1>2, <3>1 DEF Rest
  <2>2. CASE q # <<>>
    <3> SUFFICES ASSUME i = 1, n < 3 PROVE FALSE
      OBVIOUS
    <3>1. Head(q) = ops[n + 1] /\ n + 1 \in 1 .. 3
      BY <1>2, <2>2, RestHead
    <3>2. Head(q).id = id /\ Head(q).op # "delete_object"
      BY <1>2, <3>1, StrokeOfIs
    <3> QED BY <2>2, <3>2
  <2> QED BY <2>1, <2>2
<1>4. o = Drawn(ops, IF i = 1 /\ n < 3 /\ now THEN n + 1 ELSE n)
  BY <1>2, <1>3
<1> QED BY <1>2, <1>4 DEF Whole

\* The first of the queue was taken over and acknowledged.
LEMMA WholeTail ==
    ASSUME NEW q \in Seq(Command), q # <<>>, NEW o, NEW id, Whole(q, o, TRUE, id)
    PROVE  Whole(Tail(q), o, FALSE, id)
<1>1. PICK ops : \E n \in 0 .. 3 : \E i \in Nat \ {0} :
        /\ StrokeOf(ops, id) /\ Rest(q, ops, n, i)
        /\ o = Drawn(ops, IF i = 1 /\ n < 3 /\ TRUE THEN n + 1 ELSE n)
  BY DEF Whole
<1>2. PICK n \in 0 .. 3, i \in Nat \ {0} :
        /\ StrokeOf(ops, id) /\ Rest(q, ops, n, i)
        /\ o = Drawn(ops, IF i = 1 /\ n < 3 THEN n + 1 ELSE n)
  BY <1>1
<1>3. CASE i = 1 /\ n < 3
  <2>1. Rest(Tail(q), ops, n + 1, 1) /\ n + 1 \in 0 .. 3
    BY <1>2, <1>3, RestTail
  <2>2. o = Drawn(ops, IF 1 = 1 /\ n + 1 < 3 /\ FALSE THEN (n + 1) + 1 ELSE n + 1)
    BY <1>2, <1>3
  <2> QED BY <1>2, <2>1, <2>2 DEF Whole
<1>4. CASE i > 1
  <2>1. Rest(Tail(q), ops, n, i - 1)
    BY <1>2, <1>4, RestTail
  <2>2. i - 1 \in Nat \ {0}
    BY <1>4
  <2>3. o = Drawn(ops, IF i - 1 = 1 /\ n < 3 /\ FALSE THEN n + 1 ELSE n)
    BY <1>2, <1>4
  <2> QED BY <1>2, <2>1, <2>2, <2>3 DEF Whole
<1>5. CASE n = 3
  <2>1. Rest(Tail(q), ops, 3, 1)
    BY <1>2, <1>5, RestTail
  <2>2. o = Drawn(ops, IF 1 = 1 /\ 3 < 3 /\ FALSE THEN 3 + 1 ELSE 3)
    BY <1>2, <1>5
  <2> QED BY <1>2, <2>1, <2>2 DEF Whole
<1>6. (i = 1 /\ n < 3) \/ i > 1 \/ n = 3
  OBVIOUS
<1> QED BY <1>3, <1>4, <1>5, <1>6

\* The first of the queue was given up, with all that follows it on its object.
LEMMA WholeDiscard ==
    ASSUME NEW k \in Qt, k.pending # <<>>, NEW o, NEW id, Whole(k.pending, o, FALSE, id),
           Head(k.pending).id = id => Head(k.pending).op = "delete_object" /\ o # NoObject
    PROVE  Whole(Client!DiscardFrontGroup(k).pending, o, FALSE, id)
<1>1. PICK q : q = k.pending
  OBVIOUS
<1>2. q \in Seq(Command) /\ Len(q) \in Nat \ {0} /\ Head(q) = q[1]
  BY <1>1, QtIs, EmptySeq
<1>3. PICK ops : \E n \in 0 .. 3 : \E i \in Nat \ {0} :
        /\ StrokeOf(ops, id) /\ Rest(q, ops, n, i)
        /\ o = Drawn(ops, IF i = 1 /\ n < 3 /\ FALSE THEN n + 1 ELSE n)
  BY <1>1 DEF Whole
<1>4. PICK n \in 0 .. 3, i \in Nat \ {0} :
        /\ StrokeOf(ops, id) /\ Rest(q, ops, n, i)
        /\ o = Drawn(ops, n)
  BY <1>3
<1>5. n = 3 \/ q[1].id # id
  <2> SUFFICES ASSUME q[1].id = id PROVE n = 3
    OBVIOUS
  <2>1. Head(q).op = "delete_object" /\ n # 0
    BY <1>1, <1>2, <1>4, DrawnSomething
  <2>2. ASSUME i = 1, n < 3, Head(q) = ops[n + 1] PROVE FALSE
    <3>1. n + 1 \in 1 .. 3
      BY <2>2
    <3> QED BY <1>4, <2>1, <2>2, <3>1, StrokeOfIs
  <2> QED BY <1>1, <1>2, <1>4, <2>1, <2>2, RestHead
<1>6. PICK p : p = Client!DiscardFrontGroup(k).pending
  OBVIOUS
<1>7. CASE p = <<>> /\ \A j \in 1 .. Len(q) : q[j].id = q[1].id
  <2>1. n = 3
    <3> SUFFICES ASSUME n < 3, q[1].id # id PROVE FALSE
      BY <1>5
    <3>1. i \in 1 .. Len(q)
      BY <1>4 DEF Rest
    <3>2. q[i] = ops[n + 1 + i - i] /\ n + 1 + i - i = n + 1 /\ n + 1 \in 1 .. 3
      BY <1>4, <3>1 DEF Rest
    <3>3. q[i].id = id
      BY <1>4, <3>2, StrokeOfIs
    <3> QED BY <1>7, <3>1, <3>3
  <2>2. Rest(p, ops, 3, 1)
    BY <1>7 DEF Rest
  <2>3. o = Drawn(ops, IF 1 = 1 /\ 3 < 3 /\ FALSE THEN 3 + 1 ELSE 3)
    BY <1>4, <2>1
  <2> QED BY <1>4, <1>6, <2>2, <2>3 DEF Whole
<1>8. CASE \E m \in 2 .. Len(q) : /\ \A j \in 1 .. m - 1 : q[j].id = q[1].id
                                  /\ p = SubSeq(q, m, Len(q))
  <2>1. PICK m \in 2 .. Len(q) : /\ \A j \in 1 .. m - 1 : q[j].id = q[1].id
                                 /\ p = SubSeq(q, m, Len(q))
    BY <1>8
  <2>2. /\ n \in {0, 3}
        /\ n = 3 => Rest(p, ops, 3, 1)
        /\ n = 0 => i >= m /\ Rest(p, ops, 0, i - m + 1)
    BY <1>2, <1>4, <1>5, <2>1, RestDiscard
  <2>3. CASE n = 3
    <3>1. o = Drawn(ops, IF 1 = 1 /\ 3 < 3 /\ FALSE THEN 3 + 1 ELSE 3)
      BY <1>4, <2>3
    <3> QED BY <1>4, <1>6, <2>2, <2>3, <3>1 DEF Whole
  <2>4. CASE n = 0
    <3>1. i - m + 1 \in Nat \ {0}
      BY <2>2, <2>4
    <3>2. o = Drawn(ops, IF i - m + 1 = 1 /\ 0 < 3 /\ FALSE THEN 0 + 1 ELSE 0)
      BY <1>4, <2>4
    <3> QED BY <1>4, <1>6, <2>2, <2>4, <3>1, <3>2 DEF Whole
  <2> QED BY <2>2, <2>3, <2>4
<1> QED BY <1>1, <1>6, <1>7, <1>8, DiscardIs

\* What is in two queues, one after the other.
LEMMA RangeJoin ==
    ASSUME NEW S, NEW p \in Seq(S), NEW q \in Seq(S)
    PROVE  Range(p \o q) \subseteq Range(p) \cup Range(q)
<1> PICK both : both = p \o q
  OBVIOUS
<1>1. /\ Len(p) \in Nat /\ Len(q) \in Nat
      /\ DOMAIN both = 1 .. Len(p) + Len(q)
      /\ \A i \in 1 .. Len(p) + Len(q) :
           both[i] = IF i <= Len(p) THEN p[i] ELSE q[i - Len(p)]
  BY ConcatProperties
<1>2. ASSUME NEW i \in 1 .. Len(p) + Len(q)
      PROVE  both[i] \in Range(p) \cup Range(q)
  <2>1. CASE i <= Len(p)
    <3>1. i \in DOMAIN p /\ both[i] = p[i]
      BY <1>1, <2>1
    <3> QED BY <3>1 DEF Range
  <2>2. CASE ~(i <= Len(p))
    <3>1. i - Len(p) \in DOMAIN q /\ both[i] = q[i - Len(p)]
      BY <1>1, <2>2
    <3> QED BY <3>1 DEF Range
  <2> QED BY <2>1, <2>2
<1> QED BY <1>1, <1>2 DEF Range

-----------------------------------------------------------------------------
(* A client and its session *)

\* The session has an operation of its own to tell the client.
Echoes(h, s) == h.at = "collect" \/ (h.at = "post" /\ s \in Range(h.to))

Awaits(k, c) == k.awaiting /\ k.pending # <<>> /\ Head(k.pending) = c

\* An operation is at one place at a time between the front of the queue and its echo.
InFlight(k, h, s) ==
    /\ k.sent # <<>> =>
         /\ h.at # "apply" /\ ~Echoes(h, s)
         /\ \E r \in Wire : k.sent = <<r>> /\ r.type = "operation" /\ Awaits(k, r.command)
    /\ h.at = "apply" => Awaits(k, h.request.command)
    /\ Echoes(h, s) => Awaits(k, h.message.command)
    /\ h.at # "respond"

\* What a client shows, means to erase, and what is told of it, was on the board.
Known(k, h, canvas, s) ==
    /\ \A id \in ObjectIds : k.objects[id] # NoObject => canvas[id] # NoObject
    /\ \A c \in Range(k.pending) :
          c.op = "delete_object" => canvas[c.id] # NoObject /\ s \in Erasers
    /\ h.at \in {"collect", "post"} =>
         /\ canvas[h.message.command.id] # NoObject
         /\ h.message.command.op = "delete_object" => s \in Erasers

Erased(canvas, id) == canvas[id] # NoObject /\ canvas[id].deleted

Sound(k, h, canvas, s) ==
    /\ InFlight(k, h, s)
    /\ Known(k, h, canvas, s)
    /\ \A id \in k.used : Erased(canvas, id) \/ Whole(k.pending, canvas[id], Echoes(h, s), id)

\* An operation is sent when none is in flight.
LEMMA FlushInFlight ==
    ASSUME NEW k \in Qt, NEW next, Flushed(k, next), NEW h, NEW s, InFlight(k, h, s)
    PROVE  InFlight(next, h, s)
<1>1. CASE next.awaiting = k.awaiting /\ next.sent = k.sent
  <2>1. \A c : Awaits(next, c) <=> Awaits(k, c)
    BY <1>1 DEF Flushed, SameBoard, Awaits
  <2> QED BY <1>1, <2>1 DEF InFlight
<1>2. CASE /\ ~k.awaiting /\ k.pending # <<>> /\ next.awaiting = TRUE
           /\ \E r \in Wire : /\ r.type = "operation"
                              /\ r.command = Head(k.pending)
                              /\ next.sent = Append(k.sent, r)
  <2>1. PICK r \in Wire : /\ r.type = "operation"
                          /\ r.command = Head(k.pending)
                          /\ next.sent = Append(k.sent, r)
    BY <1>2
  <2>2. k.sent = <<>> /\ h.at # "apply" /\ ~Echoes(h, s) /\ h.at # "respond"
    BY <1>2 DEF InFlight, Awaits
  <2>3. next.sent = <<r>>
    BY <2>1, <2>2
  <2>4. Awaits(next, r.command)
    BY <1>2, <2>1 DEF Flushed, SameBoard, Awaits
  <2> QED BY <2>1, <2>2, <2>3, <2>4 DEF InFlight
<1> QED BY <1>1, <1>2 DEF Flushed

\* Sending changes nothing else.
LEMMA FlushSound ==
    ASSUME NEW k \in Qt, NEW next, Flushed(k, next), NEW h, NEW canvas, NEW s,
           Sound(k, h, canvas, s)
    PROVE  Sound(next, h, canvas, s)
<1>1. InFlight(next, h, s)
  BY FlushInFlight DEF Sound
<1>2. next.objects = k.objects /\ next.pending = k.pending /\ next.used = k.used
  BY DEF Flushed, SameBoard
<1> QED BY <1>1, <1>2 DEF Sound, Known

\* Operations join the queue.
LEMMA EnqueueSound ==
    ASSUME NEW k \in Qt, NEW operations \in Seq(Command), NEW used \in SUBSET ObjectIds, NEW next,
           Enqueued(k, operations, used, next), NEW h, NEW canvas, NEW s, Sound(k, h, canvas, s),
           \A c \in Range(operations) :
              /\ c.op = "delete_object" => canvas[c.id] # NoObject /\ s \in Erasers
              /\ c.id \in k.used => c.op = "delete_object",
           k.used \subseteq used,
           \A id \in used \ k.used : Whole(k.pending \o operations, canvas[id], Echoes(h, s), id)
    PROVE  Sound(next, h, canvas, s)
<1>1. PICK mid \in Qt :
        /\ mid.board = k.board /\ mid.objects = k.objects
        /\ mid.pending = k.pending \o operations
        /\ mid.awaiting = k.awaiting /\ mid.timer = k.timer
        /\ mid.sent = k.sent /\ mid.used = used
        /\ Flushed(mid, next)
  BY DEF Enqueued
<1>2. PICK q \in Seq(Command) : q = k.pending
  BY QtIs
<1>3. \A c : Awaits(k, c) => Awaits(mid, c)
  <2> SUFFICES ASSUME NEW c, Awaits(k, c) PROVE Awaits(mid, c)
    OBVIOUS
  <2>1. k.awaiting /\ q # <<>> /\ Head(q) = c
    BY <1>2 DEF Awaits
  <2>2. q \o operations # <<>> /\ Head(q \o operations) = Head(q)
    BY <2>1, ConcatProperties, EmptySeq
  <2> QED BY <1>1, <1>2, <2>1, <2>2 DEF Awaits
<1>4. InFlight(mid, h, s)
  BY <1>1, <1>3 DEF Sound, InFlight
<1>5. Known(mid, h, canvas, s)
  <2>1. Range(mid.pending) \subseteq Range(q) \cup Range(operations)
    BY <1>1, <1>2, RangeJoin
  <2> QED BY <1>1, <1>2, <2>1 DEF Sound, Known
<1>6. ASSUME NEW id \in used
      PROVE  Erased(canvas, id) \/ Whole(mid.pending, canvas[id], Echoes(h, s), id)
  <2>1. CASE id \in used \ k.used
    BY <1>1, <2>1
  <2>2. CASE id \in k.used /\ Whole(q, canvas[id], Echoes(h, s), id)
    <3>1. \A c \in Range(operations) : c.id = id => c.op = "delete_object"
      BY <2>2
    <3>2. PICK o : o = canvas[id]
      OBVIOUS
    <3>3. PICK ahead \in BOOLEAN : ahead = Echoes(h, s)
      BY DEF Echoes
    <3>4. Whole(q, o, ahead, id)
      BY <2>2, <3>2, <3>3
    <3>5. Whole(q \o operations, o, ahead, id)
      BY <3>1, <3>4, WholeAppend
    <3> QED BY <1>1, <1>2, <3>2, <3>3, <3>5
  <2> QED BY <1>2, <2>1, <2>2 DEF Sound
<1>7. Sound(mid, h, canvas, s)
  BY <1>1, <1>4, <1>5, <1>6 DEF Sound
<1> QED BY <1>1, <1>7, FlushSound

\* A handler that has as much to tell the client as before.
LEMMA HandlerSound ==
    ASSUME NEW k, NEW h, NEW next, NEW canvas, NEW s, Sound(k, h, canvas, s),
           h.at \in {"collect", "post"}, next.at \in {"collect", "post"}, next.message = h.message,
           Echoes(next, s) <=> Echoes(h, s)
    PROVE  Sound(k, next, canvas, s)
<1>1. InFlight(k, next, s)
  BY DEF Sound, InFlight
<1>2. Known(k, next, canvas, s)
  BY DEF Sound, Known
<1>3. \A id \in k.used : \A o : Whole(k.pending, o, Echoes(h, s), id)
                                 => Whole(k.pending, o, Echoes(next, s), id)
  BY DEF Whole
<1> QED BY <1>1, <1>2, <1>3 DEF Sound

\* The client hears of an operation that is none of its own.
LEMMA OtherSound ==
    ASSUME NEW k \in Qt, NEW h, NEW canvas, NEW s, Sound(k, h, canvas, s),
           NEW m, m.command \in Command, canvas[m.command.id] # NoObject,
           ~Acked(k, m.command), NEW next,
           \/ next = k
           \/ \E mid : TookOver(k, m, mid) /\ Flushed(mid, next)
    PROVE  Sound(next, h, canvas, s)
<1>1. CASE next = k
  BY <1>1
<1>2. CASE \E mid : TookOver(k, m, mid) /\ Flushed(mid, next)
  <2>1. PICK mid : TookOver(k, m, mid) /\ Flushed(mid, next)
    BY <1>2
  <2>2. /\ mid \in Qt /\ mid.objects = Apply(k.objects, m.command)
        /\ mid.sent = k.sent /\ mid.used = k.used /\ mid.pending = k.pending
        /\ mid.awaiting = k.awaiting
    <3>1. k.awaiting \in BOOLEAN
      BY QtIs
    <3> QED BY <2>1, <3>1 DEF TookOver
  <2>3. InFlight(mid, h, s)
    <3>1. \A c : Awaits(mid, c) <=> Awaits(k, c)
      BY <2>2 DEF Awaits
    <3> QED BY <2>2, <3>1 DEF Sound, InFlight
  <2>4. Known(mid, h, canvas, s)
    <3>1. \A id \in ObjectIds : mid.objects[id] # NoObject => canvas[id] # NoObject
      <4>1. k.objects \in Objects
        BY QtIs
      <4>2. \A id \in ObjectIds \ {m.command.id} : mid.objects[id] = k.objects[id]
        BY <2>2, <4>1, ApplyElsewhere
      <4> QED BY <4>2 DEF Sound, Known
    <3> QED BY <2>2, <3>1 DEF Sound, Known
  <2>5. Sound(mid, h, canvas, s)
    BY <2>2, <2>3, <2>4 DEF Sound
  <2> QED BY <2>1, <2>2, <2>5, FlushSound
<1> QED BY <1>1, <1>2

\* The client hears of its own operation, which is the front of its queue.
LEMMA OwnSound ==
    ASSUME NEW k \in Qt, NEW h, NEW canvas, NEW s, Sound(k, h, canvas, s), Echoes(h, s),
           NEW m, m.command \in Command, m.command = h.message.command,
           NEW next, NEW mid, TookOver(k, m, mid), Flushed(mid, next),
           NEW after, after.at = "post", after.message = h.message, ~Echoes(after, s)
    PROVE  Sound(next, after, canvas, s)
<1>1. k.awaiting /\ k.pending # <<>> /\ Head(k.pending) = m.command
  BY DEF Sound, InFlight, Awaits
<1>2. Acked(k, m.command)
  BY <1>1 DEF Acked
<1>3. /\ mid \in Qt /\ mid.objects = Apply(k.objects, m.command)
      /\ mid.sent = k.sent /\ mid.used = k.used /\ mid.pending = Tail(k.pending)
      /\ mid.awaiting = FALSE
  BY <1>2 DEF TookOver
<1>4. k.sent = <<>> /\ h.at \in {"collect", "post"}
  BY DEF Sound, InFlight, Echoes
<1>5. InFlight(mid, after, s)
  BY <1>3, <1>4 DEF InFlight
<1>6. Known(mid, after, canvas, s)
  <2>1. \A id \in ObjectIds : mid.objects[id] # NoObject => canvas[id] # NoObject
    <3>1. k.objects \in Objects
      BY QtIs
    <3>2. \A id \in ObjectIds \ {m.command.id} : mid.objects[id] = k.objects[id]
      BY <1>3, <3>1, ApplyElsewhere
    <3>3. canvas[m.command.id] # NoObject
      BY <1>4 DEF Sound, Known
    <3> QED BY <3>2, <3>3 DEF Sound, Known
  <2>2. Range(mid.pending) \subseteq Range(k.pending)
    <3>1. k.pending \in Seq(Command)
      BY QtIs
    <3> QED BY <1>1, <1>3, <3>1, TailWithin
  <2> QED BY <1>4, <2>1, <2>2 DEF Sound, Known
<1>7. ASSUME NEW id \in k.used, Whole(k.pending, canvas[id], Echoes(h, s), id)
      PROVE  Whole(mid.pending, canvas[id], Echoes(after, s), id)
  <2>1. PICK o : o = canvas[id]
    OBVIOUS
  <2>2. PICK q \in Seq(Command) : q = k.pending
    BY QtIs
  <2>3. Whole(q, o, TRUE, id)
    BY <1>7, <2>1, <2>2 DEF Whole
  <2>4. Whole(Tail(q), o, FALSE, id)
    BY <1>1, <2>2, <2>3, WholeTail
  <2> QED BY <1>3, <2>1, <2>2, <2>4 DEF Whole
<1>8. Sound(mid, after, canvas, s)
  BY <1>3, <1>5, <1>6, <1>7 DEF Sound
<1> QED BY <1>3, <1>8, FlushSound

\* It refuses it: somebody has erased the object.
LEMMA RefusedSound ==
    ASSUME NEW k \in Qt, NEW h, NEW canvas, NEW s, Sound(k, h, canvas, s), Echoes(h, s),
           Erased(canvas, h.message.command.id),
           NEW after, after.at = "post", after.message = h.message, ~Echoes(after, s)
    PROVE  Sound(k, after, canvas, s)
<1>1. k.awaiting /\ k.pending # <<>> /\ Head(k.pending) = h.message.command
  BY DEF Sound, InFlight, Awaits
<1>2. k.sent = <<>> /\ h.at \in {"collect", "post"}
  BY DEF Sound, InFlight, Echoes
<1>3. InFlight(k, after, s)
  BY <1>2 DEF InFlight
<1>4. Known(k, after, canvas, s)
  BY <1>2 DEF Sound, Known
<1>5. ASSUME NEW id \in k.used, Whole(k.pending, canvas[id], Echoes(h, s), id), ~Erased(canvas, id)
      PROVE  Whole(k.pending, canvas[id], Echoes(after, s), id)
  <2>1. PICK o : o = canvas[id]
    OBVIOUS
  <2>2. PICK q \in Seq(Command) : q = k.pending
    BY QtIs
  <2>3. Whole(q, o, TRUE, id)
    BY <1>5, <2>1, <2>2 DEF Whole
  <2>4. Head(q).id # id
    BY <1>1, <1>5, <2>2
  <2>5. Whole(q, o, FALSE, id)
    BY <2>3, <2>4, WholeElsewhere
  <2> QED BY <2>1, <2>2, <2>5 DEF Whole
<1> QED BY <1>3, <1>4, <1>5 DEF Sound

\* An accepted operation leaves an object, and none disappears.
LEMMA ApplyMakes ==
    ASSUME NEW objects \in Objects, NEW c \in Command, Accepts(objects, c)
    PROVE  /\ Apply(objects, c)[c.id] # NoObject
           /\ \A id \in ObjectIds : /\ objects[id] # NoObject => Apply(objects, c)[id] # NoObject
                                    /\ Erased(objects, id) => Erased(Apply(objects, c), id)
           /\ c.op = "delete_object" => Erased(Apply(objects, c), c.id)
           /\ objects[c.id] = NoObject => c.op # "delete_object"
<1>1. PICK o : o = objects[c.id]
  OBVIOUS
<1>2. PICK made : made = Apply(objects, c)[c.id]
  OBVIOUS
<1>3. NoObject \notin BoardObject
  BY DEF NoObject, BoardObject, Stroke, Shape, Text
<1>4. made \in BoardObject
  <2>1. CASE c.op \in Creations
    <3>1. ~Malformed(c)
      BY <2>1 DEF Accepts, Failure, CreateFailure
    <3> QED BY <1>2, <2>1, <3>1, ApplyHere, CreatedType
  <2>2. CASE c.op \notin Creations
    <3>1. Active(o) /\ c.id \in ObjectIds
      BY <1>1, <2>2, ApplyHere DEF Accepts, Failure
    <3>2. o \in BoardObject
      BY <1>1, <3>1 DEF Objects, Active
    <3>3. \/ c.op = "delete_object"
          \/ c.op = "resize_object" /\ ResizeFailure(o, c) = "ok"
          \/ c.op \notin {"delete_object", "resize_object"} /\ UpdateFailure(o, c) = "ok"
      BY <1>1, <2>2, <3>1 DEF Accepts, Failure
    <3>4. made = Changed(o, c)
      BY <1>1, <1>2, <2>2, ApplyHere
    <3> QED BY <2>2, <3>1, <3>2, <3>3, <3>4, ChangedType
  <2> QED BY <2>1, <2>2
<1>5. \A id \in ObjectIds \ {c.id} : Apply(objects, c)[id] = objects[id]
  BY ApplyElsewhere
<1>6. ~Erased(objects, c.id)
  BY DeadRefuses DEF Erased
<1>7. c.op = "delete_object" => Erased(Apply(objects, c), c.id)
  BY DeleteKills DEF Erased
<1>8. objects[c.id] = NoObject => c.op # "delete_object"
  BY DEF Accepts, Failure, Creations, Active
<1> QED BY <1>2, <1>3, <1>4, <1>5, <1>6, <1>7, <1>8 DEF Erased

\* The board takes over the operation that the client has in flight.
LEMMA ApplySound ==
    ASSUME NEW k \in Qt, NEW h, NEW canvas \in Objects, NEW s, Sound(k, h, canvas, s),
           h.at = "apply", NEW c \in Command, c = h.request.command, Accepts(canvas, c),
           NEW after, after.at = "collect", after.message.command = c
    PROVE  Sound(k, after, Apply(canvas, c), s)
<1>1. k.awaiting /\ k.pending # <<>> /\ Head(k.pending) = c /\ k.sent = <<>>
  BY DEF Sound, InFlight, Awaits
<1>2. PICK q \in Seq(Command) : q = k.pending
  BY QtIs
<1>3. PICK now \in Objects : now = Apply(canvas, c)
  BY ApplyType
<1>4. /\ now[c.id] # NoObject
      /\ \A id \in ObjectIds : /\ canvas[id] # NoObject => now[id] # NoObject
                               /\ Erased(canvas, id) => Erased(now, id)
      /\ c.op = "delete_object" => Erased(now, c.id)
  BY <1>3, ApplyMakes
<1>5. InFlight(k, after, s)
  BY <1>1 DEF InFlight, Awaits, Echoes
<1>6. Known(k, after, now, s)
  <2>1. \A d \in Range(q) : d.id \in ObjectIds
    <3>1. Range(q) \subseteq Command
      BY DEF Range
    <3> QED BY <3>1, CommandId
  <2>2. c \in Range(q)
    BY <1>1, <1>2, TailRange
  <2>3. \A d \in Range(q) : d.op = "delete_object" => canvas[d.id] # NoObject /\ s \in Erasers
    BY <1>2 DEF Sound, Known
  <2>4. \A id \in ObjectIds : k.objects[id] # NoObject => now[id] # NoObject
    BY <1>4 DEF Sound, Known
  <2> QED BY <1>2, <1>4, <2>1, <2>2, <2>3, <2>4 DEF Known
<1>7. ASSUME NEW id \in k.used, ~Erased(now, id)
      PROVE  Whole(k.pending, now[id], Echoes(after, s), id)
  <2>1. id \in ObjectIds
    BY QtIs
  <2>2. Whole(q, canvas[id], FALSE, id)
    <3>1. ~Erased(canvas, id) /\ ~Echoes(h, s)
      BY <1>4, <1>7, <2>1 DEF Echoes
    <3> QED BY <1>2, <3>1 DEF Sound, Whole
  <2>3. CASE id = c.id
    <3>1. c.op # "delete_object"
      BY <1>4, <1>7, <2>3
    <3>2. Whole(q, Apply(canvas, c)[id], TRUE, id)
      BY <1>1, <1>2, <2>2, <2>3, <3>1, WholeApply
    <3> QED BY <1>2, <1>3, <3>2 DEF Whole, Echoes
  <2>4. CASE id # c.id
    <3>1. now[id] = canvas[id]
      BY <1>3, <2>1, <2>4, ApplyElsewhere
    <3>2. PICK o : o = canvas[id]
      OBVIOUS
    <3>3. Whole(q, o, TRUE, id)
      BY <1>1, <1>2, <2>2, <2>4, <3>2, WholeElsewhere
    <3> QED BY <1>2, <3>1, <3>2, <3>3 DEF Whole, Echoes
  <2> QED BY <2>3, <2>4
<1> QED BY <1>3, <1>5, <1>6, <1>7 DEF Sound

\* It takes over that of another client.
LEMMA ApplyOtherSound ==
    ASSUME NEW k \in Qt, NEW h, NEW canvas \in Objects, NEW s, Sound(k, h, canvas, s),
           h.at \in {"collect", "post"} => h.message.command \in Command,
           NEW c \in Command, Accepts(canvas, c), c.op = "delete_object" \/ c.id \notin k.used
    PROVE  Sound(k, h, Apply(canvas, c), s)
<1>1. PICK now : now = Apply(canvas, c)
  OBVIOUS
<1>2. /\ \A id \in ObjectIds : /\ canvas[id] # NoObject => now[id] # NoObject
                               /\ Erased(canvas, id) => Erased(now, id)
      /\ c.op = "delete_object" => Erased(now, c.id)
  BY <1>1, ApplyMakes
<1>3. Known(k, h, now, s)
  <2>1. \A d \in Range(k.pending) : d.id \in ObjectIds
    <3>1. k.pending \in Seq(Command)
      BY QtIs
    <3>2. Range(k.pending) \subseteq Command
      BY <3>1 DEF Range
    <3> QED BY <3>2, CommandId
  <2>2. h.at \in {"collect", "post"} => h.message.command.id \in ObjectIds
    BY CommandId
  <2> QED BY <1>2, <2>1, <2>2 DEF Sound, Known
<1>4. ASSUME NEW id \in k.used, ~Erased(now, id)
      PROVE  Whole(k.pending, now[id], Echoes(h, s), id)
  <2>1. id \in ObjectIds /\ id # c.id
    BY <1>2, <1>4, QtIs
  <2>2. now[id] = canvas[id] /\ ~Erased(canvas, id)
    BY <1>1, <1>2, <1>4, <2>1, ApplyElsewhere
  <2> QED BY <2>2 DEF Sound
<1> QED BY <1>1, <1>3, <1>4 DEF Sound

\* The board refuses the operation that the client has in flight.
LEMMA ErrorSound ==
    ASSUME NEW k \in Qt, NEW h, NEW canvas \in Objects, NEW s, Sound(k, h, canvas, s),
           h.at = "apply", NEW c, c = h.request.command,
           NEW m, m.code = "conflict" \/ ~Accepts(canvas, c), NEW next, Errored(k, m, next)
    PROVE  Sound(next, Idle, canvas, s)
<1>1. k.awaiting /\ k.pending # <<>> /\ Head(k.pending) = c /\ k.sent = <<>>
  BY DEF Sound, InFlight, Awaits
<1>2. next.objects = k.objects /\ next.sent = <<>> /\ next.used = k.used
  BY <1>1 DEF Errored
<1>3. Idle.at = "idle" /\ ~Echoes(Idle, s) /\ ~Echoes(h, s)
  BY DEF Idle, Echoes
<1>4. InFlight(next, Idle, s)
  BY <1>2, <1>3 DEF InFlight
<1>5. CASE m.code = "conflict"
  <2>1. next.pending = k.pending
    BY <1>5 DEF Errored
  <2>2. Known(next, Idle, canvas, s)
    BY <1>2, <1>3, <2>1 DEF Sound, Known
  <2>3. \A id \in k.used : Whole(k.pending, canvas[id], Echoes(h, s), id)
                             => Whole(k.pending, canvas[id], Echoes(Idle, s), id)
    BY <1>3 DEF Whole
  <2> QED BY <1>2, <1>4, <2>1, <2>2, <2>3 DEF Sound
<1>6. CASE m.code # "conflict"
  <2>1. next.pending = Client!DiscardFrontGroup(k).pending /\ ~Accepts(canvas, c)
    BY <1>6 DEF Errored
  <2>2. Range(next.pending) \subseteq Range(k.pending)
    BY <2>1, DiscardWithin
  <2>3. Known(next, Idle, canvas, s)
    BY <1>2, <1>3, <2>2 DEF Sound, Known
  <2>4. ASSUME NEW id \in k.used, Whole(k.pending, canvas[id], Echoes(h, s), id)
        PROVE  Whole(next.pending, canvas[id], Echoes(Idle, s), id)
    <3>1. PICK q \in Seq(Command) : q = k.pending
      BY QtIs
    <3>2. PICK o : o = canvas[id]
      OBVIOUS
    <3>3. Whole(k.pending, o, FALSE, id)
      BY <1>3, <2>4, <3>2 DEF Whole
    <3>4. Head(k.pending).id = id => Head(k.pending).op = "delete_object"
      <4>1. Whole(q, canvas[id], FALSE, id)
        BY <3>1, <3>2, <3>3
      <4> QED BY <1>1, <2>1, <3>1, <4>1, WholeApply
    <3>5. Head(k.pending).id = id => o # NoObject
      <4>1. c \in Range(q)
        BY <1>1, <3>1, TailRange
      <4> QED BY <1>1, <3>1, <3>2, <3>4, <4>1 DEF Sound, Known
    <3>6. Whole(Client!DiscardFrontGroup(k).pending, o, FALSE, id)
      BY <1>1, <3>3, <3>4, <3>5, WholeDiscard
    <3> QED BY <1>3, <2>1, <3>2, <3>6 DEF Whole
  <2> QED BY <1>2, <1>4, <2>3, <2>4 DEF Sound
<1> QED BY <1>5, <1>6

-----------------------------------------------------------------------------
(* All clients *)

AllSound ==
    TheBoard \in kept =>
      /\ runtime[TheBoard].status # "closed"
      /\ \A id \in ObjectIds : Canvas[id] # NoObject => \E s \in Sessions : id \in client[s].used
      /\ \A s \in Artists : Sound(client[s], handler[s], Canvas, s)

\* A step of a client that leaves the server alone.
LEMMA ClientSound ==
    ASSUME Working, AllSound, NEW s \in Sessions, NEW k,
           client' = [client EXCEPT ![s] = k], client[s].used \subseteq k.used,
           UNCHANGED <<shared, handler>>,
           TheBoard \in kept /\ s \in Artists => Sound(k, handler[s], Canvas, s)
    PROVE  AllSound'
<1>1. kept' = kept /\ runtime' = runtime /\ Canvas' = Canvas /\ handler' = handler
  BY DEF shared, Canvas
<1>2. client'[s] = k /\ \A t \in Sessions \ {s} : client'[t] = client[t]
  BY DEF Working
<1>3. \A t \in Sessions : client[t].used \subseteq client'[t].used
  BY <1>2
<1>4. ASSUME TheBoard \in kept, NEW t \in Artists
      PROVE  Sound(client'[t], handler[t], Canvas, t)
  <2>1. t \in Sessions
    BY DEF Artists
  <2> QED BY <1>2, <1>4, <2>1 DEF AllSound
<1>5. ASSUME NEW t PROVE Sound(client[t], handler[t], Canvas, t)'
                         <=> Sound(client'[t], handler[t], Canvas, t)
  BY <1>1 DEF Sound, InFlight, Known
<1> QED BY <1>1, <1>3, <1>4, <1>5 DEF AllSound, Artists

\* A user draws a stroke.
LEMMA DrawSound ==
    ASSUME Typed, Working, Steady, AllSound, NEW s \in Sessions, DrawStroke(s)
    PROVE  AllSound'
<1>1. PICK id \in ObjectIds, first \in BeginStroke, second \in AppendStrokePoints,
           third \in EndStroke, next \in Qt :
              /\ \A t \in Sessions : id \notin client[t].used
              /\ first.id = id /\ second.id = id /\ third.id = id
              /\ first.style \in Styles /\ <<first.start>> \o second.points \in Ink
              /\ second.points # <<>>
              /\ Enqueued(client[s], <<first, second, third>>, client[s].used \cup {id}, next)
              /\ Gesture(s, next)
  BY DrawIs
<1>2. PICK operations : operations = <<first, second, third>>
  OBVIOUS
<1>3. StrokeOf(operations, id)
  BY <1>1, <1>2 DEF StrokeOf
<1>4. /\ operations \in Seq(Command) /\ Range(operations) = {first, second, third}
      /\ \A c \in Range(operations) : c.id = id /\ c.op # "delete_object"
  BY <1>1, <1>2, StrokeCommands DEF Range
<1>5. PICK k \in Qt : k = client[s]
  BY DEF Working
<1>6. PICK used \in SUBSET ObjectIds : used = k.used \cup {id}
  BY QtIs
<1>7. Enqueued(k, operations, used, next)
  BY <1>1, <1>2, <1>5, <1>6
<1>8. ASSUME TheBoard \in kept, s \in Artists
      PROVE  Sound(next, handler[s], Canvas, s)
  <2>1. Sound(k, handler[s], Canvas, s)
    BY <1>5, <1>8 DEF AllSound
  <2>2. Canvas[id] = NoObject
    BY <1>1, <1>8 DEF AllSound
  <2>3. PICK q \in Seq(Command) : q = k.pending
    BY QtIs
  <2>4. PICK ahead \in BOOLEAN : ahead = Echoes(handler[s], s)
    BY DEF Echoes
  <2>5. q = <<>> => ~ahead
    BY <2>1, <2>3, <2>4 DEF Sound, InFlight, Awaits
  <2>6. \A c \in Range(q) : c.id = id => c.op = "delete_object"
    BY <1>1, <1>5, <2>3 DEF Steady, Owning, Owns, Own
  <2>7. Whole(q \o operations, NoObject, ahead, id)
    BY <1>3, <2>5, <2>6, WholeNew
  <2>8. \A i \in used \ k.used : Whole(k.pending \o operations, Canvas[i], Echoes(handler[s], s), i)
    BY <1>6, <2>2, <2>3, <2>4, <2>7
  <2>9. PICK h, canvas : h = handler[s] /\ canvas = Canvas
    OBVIOUS
  <2>10. \A c \in Range(operations) :
            /\ c.op = "delete_object" => canvas[c.id] # NoObject /\ s \in Erasers
            /\ c.id \in k.used => c.op = "delete_object"
    BY <1>1, <1>4, <1>5
  <2>11. Sound(next, h, canvas, s)
    BY <1>4, <1>6, <1>7, <2>1, <2>8, <2>9, <2>10, EnqueueSound
  <2> QED BY <2>9, <2>11
<1>9. next.used = used
  BY <1>7 DEF Enqueued, Flushed, SameBoard
<1>10. client' = [client EXCEPT ![s] = next] /\ UNCHANGED <<shared, handler>>
  BY <1>1 DEF Gesture
<1> QED BY <1>5, <1>6, <1>8, <1>9, <1>10, ClientSound

\* A user erases what the canvas shows.
LEMMA EraseSound ==
    ASSUME Typed, Working, Steady, AllSound, NEW s \in Sessions, EraseObject(s)
    PROVE  AllSound'
<1>1. PICK c \in DeleteObject, next \in Qt :
              /\ c.op = "delete_object" /\ Active(client[s].objects[c.id])
              /\ \/ client[s].board = NoBoard /\ next = client[s]
                 \/ client[s].board # NoBoard
                    /\ Enqueued(client[s], <<c>>, client[s].used, next)
              /\ Gesture(s, next)
  BY EraserIs
<1>2. PICK operations : operations = <<c>>
  OBVIOUS
<1>3. c \in Command /\ operations \in Seq(Command) /\ Range(operations) = {c} /\ c.id \in ObjectIds
  BY <1>2, StrokeCommands, CommandId DEF Range
<1>4. PICK k \in Qt : k = client[s]
  BY DEF Working
<1>5. PICK used \in SUBSET ObjectIds : used = k.used
  BY QtIs
<1>6. ASSUME TheBoard \in kept, s \in Artists
      PROVE  Sound(next, handler[s], Canvas, s)
  <2>1. PICK h, canvas : h = handler[s] /\ canvas = Canvas
    OBVIOUS
  <2>2. Sound(k, h, canvas, s)
    BY <1>4, <1>6, <2>1 DEF AllSound
  <2>3. CASE next = k
    BY <2>1, <2>2, <2>3
  <2>4. CASE Enqueued(k, operations, used, next)
    <3>1. s \in Erasers
      BY DEF EraseObject
    <3>2. canvas[c.id] # NoObject
      BY <1>1, <1>3, <1>4, <2>2 DEF Sound, Known, Active
    <3>3. \A d \in Range(operations) :
            /\ d.op = "delete_object" => canvas[d.id] # NoObject /\ s \in Erasers
            /\ d.id \in k.used => d.op = "delete_object"
      BY <1>1, <1>3, <3>1, <3>2
    <3>4. Sound(next, h, canvas, s)
      BY <1>3, <1>5, <2>2, <2>4, <3>3, EnqueueSound
    <3> QED BY <2>1, <3>4
  <2> QED BY <1>1, <1>2, <1>4, <1>5, <2>3, <2>4
<1>7. next.used = client[s].used
  BY <1>1 DEF Enqueued, Flushed, SameBoard
<1>8. client' = [client EXCEPT ![s] = next] /\ UNCHANGED <<shared, handler>>
  BY <1>1 DEF Gesture
<1> QED BY <1>6, <1>7, <1>8, ClientSound

\* A user who is elsewhere asks for the deletion.
LEMMA PressSound ==
    ASSUME Working, AllSound, NEW s \in Sessions, DeleteTheBoard(s)
    PROVE  AllSound'
<1>1. PICK r \in Wire, q \in Seq(Wire), next \in Qt :
              /\ s \in Cabinet
              /\ next = Made(client[s].board, client[s].revision, client[s].objects,
                             client[s].pending, client[s].awaiting, client[s].timer,
                             q, client[s].used)
              /\ Gesture(s, next)
  BY PressIs
<1>2. next.used = client[s].used
  BY <1>1, MadeIs
<1>3. client' = [client EXCEPT ![s] = next] /\ UNCHANGED <<shared, handler>>
  BY <1>1 DEF Gesture
<1>4. s \notin Artists
  BY <1>1 DEF Artists
<1> QED BY <1>2, <1>3, <1>4, ClientSound

\* The timer sends the front of the queue, if it was given back.
LEMMA TimerSound ==
    ASSUME Working, AllSound, NEW s \in Sessions, TimerFires(s)
    PROVE  AllSound'
<1>1. PICK mid \in Qt, next \in Qt :
              /\ mid.objects = client[s].objects
              /\ mid.pending = client[s].pending /\ mid.awaiting = client[s].awaiting
              /\ mid.sent = client[s].sent
              /\ mid.used = client[s].used
              /\ Flushed(mid, next)
              /\ client' = [client EXCEPT ![s] = next]
              /\ UNCHANGED <<shared, own, handler, strand>>
  BY TimerFiresIs
<1>2. ASSUME TheBoard \in kept, s \in Artists
      PROVE  Sound(next, handler[s], Canvas, s)
  <2>1. Sound(client[s], handler[s], Canvas, s)
    BY <1>2 DEF AllSound
  <2>2. InFlight(mid, handler[s], s)
    BY <1>1, <2>1 DEF Sound, InFlight, Awaits
  <2>3. Sound(mid, handler[s], Canvas, s)
    BY <1>1, <2>1, <2>2 DEF Sound, Known
  <2> QED BY <1>1, <2>3, FlushSound
<1>3. next.used = client[s].used
  BY <1>1 DEF Flushed, SameBoard
<1> QED BY <1>1, <1>2, <1>3, ClientSound

\* The session takes the operation in flight from the socket.
LEMMA DeliverSound ==
    ASSUME Typed, Working, Steady, AllSound, NEW s \in Sessions, Deliver(s)
    PROVE  AllSound'
<1>1. PICK r \in Wire, q \in Seq(Wire), place \in {"apply", "delete", "respond"}, m \in Message :
              Delivers(s, r, q, place, m)
  BY DeliverIs
<1>2. /\ handler[s].at = "idle"
      /\ client[s].sent # <<>> /\ r = Head(client[s].sent) /\ q = Tail(client[s].sent)
      /\ client' = [client EXCEPT ![s].sent = q]
      /\ Accept(s, r)
      /\ Becomes(s, Record(place, r, m, <<>>))
      /\ place = "delete" => r.type = "delete"
      /\ place = "respond" => board[s] # r.board
  BY <1>1 DEF Delivers
<1>3. PICK k : k = [client[s] EXCEPT !.sent = q]
  OBVIOUS
<1>4. client' = [client EXCEPT ![s] = k] /\ client[s] \in Qt
  BY <1>2, <1>3 DEF Working
<1>5. /\ k.objects = client[s].objects /\ k.awaiting = client[s].awaiting
      /\ k.used = client[s].used /\ k.pending = client[s].pending /\ k.sent = q
  <2>1. client[s] = Made(client[s].board, client[s].revision, client[s].objects,
                         client[s].pending, client[s].awaiting, client[s].timer,
                         client[s].sent, client[s].used)
    BY <1>4, QtIs
  <2> QED BY <1>3, <2>1 DEF Made
<1>6. /\ client'[s] = k
      /\ \A t \in Sessions \ {s} : client'[t] = client[t]
  BY <1>4 DEF Working
<1>7. PICK h : h = Record(place, r, m, <<>>)
  OBVIOUS
<1>8. /\ h.at = place /\ h.request = r /\ handler'[s] = h
      /\ \A t \in Sessions \ {s} : handler'[t] = handler[t]
  BY <1>2, <1>7, RecordIs DEF Becomes
<1>9. kept' = kept /\ runtime' = runtime /\ Canvas' = Canvas
  BY <1>2 DEF Accept, shared, Canvas
<1>10. ASSUME TheBoard \in kept, s \in Artists
       PROVE  Sound(k, h, Canvas, s)
  <2>1. Sound(client[s], handler[s], Canvas, s)
    BY <1>10 DEF AllSound
  <2>2. /\ ~Echoes(handler[s], s) /\ client[s].sent = <<r>> /\ r.type = "operation"
        /\ Awaits(client[s], r.command)
    BY <1>2, <2>1 DEF Sound, InFlight
  <2>3. place = "apply"
    <3>1. r.board = TheBoard
      <4>1. r \in Range(client[s].sent)
        BY <2>2 DEF Range
      <4> QED BY <4>1 DEF Working, Using
    <3>2. board[s] = TheBoard
      BY <1>10 DEF Steady, Calm
    <3> QED BY <1>2, <2>2, <3>1, <3>2
  <2>4. q = <<>> /\ Awaits(k, r.command) /\ ~Echoes(h, s)
    BY <1>2, <1>5, <1>8, <2>2, <2>3 DEF Awaits, Echoes
  <2>5. InFlight(k, h, s)
    BY <1>5, <1>8, <2>3, <2>4 DEF InFlight
  <2>6. Known(k, h, Canvas, s)
    BY <1>5, <1>8, <2>1, <2>3 DEF Sound, Known
  <2>7. \A id \in k.used : Whole(k.pending, Canvas[id], Echoes(handler[s], s), id)
                             => Whole(k.pending, Canvas[id], Echoes(h, s), id)
    BY <2>2, <2>4 DEF Whole
  <2> QED BY <1>5, <2>1, <2>5, <2>6, <2>7 DEF Sound
<1>11. ASSUME TheBoard \in kept, NEW t \in Artists
       PROVE  Sound(client'[t], handler'[t], Canvas, t)
  <2>1. t \in Sessions
    BY DEF Artists
  <2> QED BY <1>6, <1>8, <1>10, <1>11, <2>1 DEF AllSound
<1>12. \A t \in Sessions : client[t].used \subseteq client'[t].used
  BY <1>5, <1>6
<1> QED BY <1>9, <1>11, <1>12 DEF AllSound, Artists

-----------------------------------------------------------------------------
(* The server, and the clients that hear of it *)

\* A board that was not deleted is not closed.
LEMMA ServeRuns ==
    ASSUME Typed, Working, NEW s \in Sessions, Serve(s), TheBoard \in kept',
           runtime[TheBoard].status # "closed"
    PROVE  runtime'[TheBoard].status # "closed"
<1>1. ~DeleteRows(s)
  <2> SUFFICES ASSUME DeleteRows(s) PROVE FALSE
    OBVIOUS
  <2>1. handler[s].request.board = TheBoard
    BY DEF DeleteRows, At, Working, Doing
  <2> QED BY <2>1 DEF DeleteRows
<1>2. runtime' = runtime \/ ApplyOperation(s)
  BY <1>1 DEF Serve, Broadcast, Collect, PostNext, Respond, Delete, DeleteRefused, DeleteLost, CloseBoard,
     Notify, Deleted, RunPosted, OperationRejected, shared
<1>3. CASE ApplyOperation(s)
  <2>1. runtime \in [Boards -> Runtime]
    BY DEF Typed, Types
  <2>2. PICK b, n, o : runtime' = [runtime EXCEPT ![b].revision = n, ![b].objects = o]
    <3>1. PICK b : b = handler[s].request.board
      OBVIOUS
    <3>2. PICK o : o = Apply(runtime[b].objects, handler[s].request.command)
      OBVIOUS
    <3>3. runtime' = [runtime EXCEPT ![b].revision = runtime[b].revision + 1, ![b].objects = o]
      BY <1>3, <2>1, <3>1, <3>2 DEF ApplyOperation, Runtime
    <3> QED BY <3>3
  <2>3. runtime'[TheBoard].status = runtime[TheBoard].status
    BY <2>1, <2>2, TheBoardAssumption DEF Runtime
  <2> QED BY <2>3
<1> QED BY <1>2, <1>3

\* What is on the board was made by somebody.
LEMMA ServeMakers ==
    ASSUME QtClients, Typed, Present, Working, Steady, AllSound, NEW s \in Sessions, Serve(s),
           TheBoard \in kept, TheBoard \in kept'
    PROVE  \A id \in ObjectIds :
              Canvas'[id] # NoObject => \E t \in Sessions : id \in client'[t].used
<1>1. \A t \in Sessions : client'[t].used = client[t].used
  BY ServeApart DEF Steady, Owning
<1>2. CASE Canvas' = Canvas
  BY <1>1, <1>2 DEF AllSound
<1>3. CASE ApplyOperation(s)
  <2>1. PICK c \in Command :
          /\ c = handler[s].request.command /\ handler[s].at = "apply"
          /\ Canvas \in Objects /\ Accepts(Canvas, c) /\ Canvas' = Apply(Canvas, c)
    BY <1>3, ApplyOperationIs DEF Canvas
  <2>2. \A id \in ObjectIds \ {c.id} : Canvas'[id] = Canvas[id]
    BY <2>1, ApplyElsewhere
  <2>3. Canvas[c.id] = NoObject => c.id \in client[s].used
    <3>1. Canvas[c.id] = NoObject => c.op # "delete_object"
      BY <2>1, ApplyMakes
    <3>2. Own(client[s], c)
      BY <2>1 DEF Steady, Owning
    <3> QED BY <3>1, <3>2 DEF Own
  <2> QED BY <1>1, <2>2, <2>3 DEF AllSound
<1> QED BY <1>2, <1>3, ServeIs DEF shared, Canvas

\* An operation was accepted.
LEMMA OperationSound ==
    ASSUME Typed, Present, Working, Steady, AllSound, NEW s \in Sessions, ApplyOperation(s),
           NEW t \in Artists
    PROVE  Sound(client'[t], handler'[t], Canvas', t)
<1>1. PICK c \in Command :
        /\ c = handler[s].request.command /\ handler[s].at = "apply" /\ TheBoard \in kept
        /\ Canvas \in Objects /\ Accepts(Canvas, c) /\ Canvas' = Apply(Canvas, c)
        /\ \E h : /\ h.at = "collect" /\ h.message.command = c /\ Becomes(s, h)
        /\ client' = client
  BY ApplyOperationIs DEF Canvas
<1>2. PICK after : after.at = "collect" /\ after.message.command = c /\ Becomes(s, after)
  BY <1>1
<1>3. t \in Sessions
  BY DEF Artists
<1>4. PICK k \in Qt : k = client[t]
  BY <1>3 DEF Working
<1>5. PICK h : h = handler[t]
  OBVIOUS
<1>6. PICK canvas \in Objects : canvas = Canvas
  BY <1>1
<1>7. Sound(k, h, canvas, t)
  BY <1>1, <1>4, <1>5, <1>6 DEF AllSound
<1>8. CASE t = s
  <2>1. h.at = "apply" /\ c = h.request.command /\ Accepts(canvas, c)
    BY <1>1, <1>5, <1>6, <1>8
  <2>2. Sound(k, after, Apply(canvas, c), t)
    BY <1>2, <1>7, <2>1, ApplySound
  <2>3. handler'[t] = after
    BY <1>2, <1>8 DEF Becomes
  <2> QED BY <1>1, <1>4, <1>6, <2>2, <2>3
<1>9. CASE t # s
  <2>1. h.at \in {"collect", "post"} => h.message.command \in Command
    BY <1>3, <1>5, SaysCommand
  <2>2. c.op = "delete_object" \/ c.id \notin k.used
    <3>1. Own(client[s], c)
      BY <1>1 DEF Steady, Owning
    <3> QED BY <1>3, <1>4, <1>9, <3>1 DEF Own, Steady, Apart
  <2>3. Sound(k, h, Apply(canvas, c), t)
    BY <1>1, <1>6, <1>7, <2>1, <2>2, ApplyOtherSound
  <2>4. handler'[t] = h
    BY <1>2, <1>3, <1>5, <1>9 DEF Becomes
  <2> QED BY <1>1, <1>4, <1>6, <2>3, <2>4
<1> QED BY <1>8, <1>9

\* All who are on the board are to be told.
LEMMA CollectSound ==
    ASSUME Typed, Present, Working, Steady, AllSound, TheBoard \in kept, NEW s \in Sessions,
           handler[s].at = "collect", UNCHANGED <<shared, own, posts>>,
           Becomes(s, Record("post", handler[s].request, handler[s].message,
                             subscribers[board[s]])),
           NEW t \in Artists
    PROVE  Sound(client'[t], handler'[t], Canvas', t)
<1>1. Canvas' = Canvas /\ client' = client
  BY DEF Canvas, shared, posts
<1>2. board[s] = TheBoard /\ t \in Sessions /\ s \in Artists
  BY SaysCommand DEF Artists
<1>3. s \in Range(subscribers[TheBoard])
  <2>1. handler[s].at \notin {"subscribe", "leave_collect", "farewell"}
    OBVIOUS
  <2> QED BY <1>2, <2>1, TheBoardAssumption DEF Present, Subscribed, Gone, On
<1>4. Sound(client[t], handler[t], Canvas, t)
  BY DEF AllSound
<1>5. CASE t = s
  <2>1. PICK h : h = Record("post", handler[s].request, handler[s].message,
                            subscribers[board[s]])
    OBVIOUS
  <2>2. h.at = "post" /\ h.message = handler[s].message /\ h.to = subscribers[TheBoard]
    BY <1>2, <2>1, RecordIs
  <2>3. Echoes(h, s) <=> Echoes(handler[s], s)
    BY <1>3, <2>2 DEF Echoes
  <2>4. Sound(client[s], h, Canvas, s)
    BY <1>4, <1>5, <2>2, <2>3, HandlerSound
  <2> QED BY <1>1, <1>5, <2>1, <2>4 DEF Becomes
<1>6. CASE t # s
  BY <1>1, <1>2, <1>4, <1>6 DEF Becomes
<1> QED BY <1>5, <1>6

\* A client hears of an operation.
LEMMA HeardSound ==
    ASSUME OneEraser, QtClients, Typed, Present, Working, Steady, AllSound, TheBoard \in kept,
           NEW s \in Sessions, Serve(s), TheBoard \in kept',
           handler[s].at = "post", handler[s].to # <<>>, PostNext(s, "post"), UNCHANGED shared,
           Becomes(s, Record("post", handler[s].request, handler[s].message, Tail(handler[s].to))),
           NEW t \in Artists
    PROVE  Sound(client'[t], handler'[t], Canvas', t)
<1>1. Canvas' = Canvas
  BY DEF Canvas, shared
<1>2. handler[s].to \in Seq(Sessions)
  BY BusyIs DEF Typed, Types, Handlers
<1>3. PICK x \in Sessions : x = Head(handler[s].to)
  BY <1>2
<1>4. PICK m \in Hearable : m = handler[s].message
  BY SaysHearable
<1>5. /\ m.type = "operation_applied" /\ m.board = TheBoard /\ s \in Artists
      /\ m.command \in Command /\ m.command.id \in ObjectIds
  BY <1>4, SaysCommand
<1>6. Hears(x, m)
  BY <1>3, <1>4, ServeEffect DEF Steady
<1>7. PICK next : next = Client!Handle(client[x], m)
  OBVIOUS
<1>8. client'[x] = next /\ \A i \in Sessions \ {x} : client'[i] = client[i]
  BY <1>6, <1>7 DEF Hears, Working
<1>9. PICK after : after = Record("post", handler[s].request, handler[s].message,
                                  Tail(handler[s].to))
  OBVIOUS
<1>10. /\ after.at = "post" /\ after.message = handler[s].message
       /\ after.to = Tail(handler[s].to)
       /\ handler'[s] = after /\ \A i \in Sessions \ {s} : handler'[i] = handler[i]
  BY <1>9, RecordIs DEF Becomes
<1>11. /\ Range(handler[s].to) = Range(Tail(handler[s].to)) \cup {x}
       /\ x \notin Range(Tail(handler[s].to))
  BY <1>2, <1>3, InjectiveTail, TailRange DEF Steady, Spread
<1>12. t \in Sessions
  BY DEF Artists
<1>13. PICK h, canvas : h = handler[t] /\ canvas = Canvas
  OBVIOUS
<1>14. Sound(client[t], h, canvas, t)
  BY <1>13 DEF AllSound
<1>15. CASE t # x /\ t # s
  BY <1>1, <1>8, <1>10, <1>12, <1>13, <1>14, <1>15
<1>16. CASE t # x /\ t = s
  <2>1. Echoes(after, t) <=> Echoes(h, t)
    BY <1>10, <1>11, <1>13, <1>16 DEF Echoes
  <2>2. Sound(client[t], after, canvas, t)
    BY <1>10, <1>13, <1>14, <1>16, <2>1, HandlerSound
  <2> QED BY <1>1, <1>8, <1>10, <1>12, <1>13, <1>16, <2>2
<1>17. CASE t = x
  <2>1. PICK k \in Qt : k = client[t]
    BY <1>12 DEF Working
  <2>2. k.board = m.board
    BY <1>5, <2>1, <1>12 DEF Steady, Calm
  <2>3. \/ ~Accepts(k.objects, m.command) /\ next = k
        \/ /\ Accepts(k.objects, m.command)
           /\ \E mid : TookOver(k, m, mid) /\ Flushed(mid, next)
    BY <1>5, <1>7, <1>17, <2>1, <2>2, HandleIs
  <2>4. Sound(k, h, canvas, t)
    BY <1>14, <2>1
  <2>5. CASE t # s
    <3>1. canvas[m.command.id] # NoObject
      BY <1>4, <1>5, <1>13 DEF AllSound, Sound, Known
    <3>2. ~Acked(k, m.command)
      <4> SUFFICES ASSUME k.pending # <<>>, Head(k.pending).op = m.command.op,
                          Head(k.pending).id = m.command.id
                   PROVE  FALSE
        BY DEF Acked
      <4>1. Head(k.pending) \in Range(k.pending)
        <5>1. k.pending \in Seq(Command)
          BY QtIs
        <5> QED BY <5>1, TailRange
      <4>2. CASE m.command.op = "delete_object"
        <5>1. t \in Erasers
          BY <2>4, <4>1, <4>2 DEF Sound, Known
        <5>2. s \in Erasers
          BY <1>4, <1>5, <4>2 DEF AllSound, Sound, Known
        <5> QED BY <2>5, <5>1, <5>2 DEF OneEraser
      <4>3. CASE m.command.op # "delete_object"
        <5>1. m.command.id \in client[s].used
          BY <1>4, <4>3 DEF Steady, Owning, Own
        <5>2. m.command.id \in client[t].used
          BY <1>12, <2>1, <4>1, <4>3 DEF Steady, Owning, Owns, Own
        <5> QED BY <1>12, <2>5, <5>1, <5>2 DEF Steady, Apart
      <4> QED BY <4>2, <4>3
    <3>3. Sound(next, h, canvas, t)
      BY <1>5, <2>3, <2>4, <3>1, <3>2, OtherSound
    <3> QED BY <1>1, <1>8, <1>10, <1>12, <1>13, <1>17, <2>5, <3>3
  <2>6. CASE t = s
    <3>1. Echoes(h, t) /\ ~Echoes(after, t) /\ m.command = h.message.command
      BY <1>4, <1>10, <1>11, <1>13, <1>17, <2>6 DEF Echoes
    <3>2. after.message = h.message
      BY <1>10, <1>13, <2>6
    <3>3. Sound(next, after, canvas, t)
      <4>1. CASE ~Accepts(k.objects, m.command) /\ next = k
        <5>1. Erased(canvas, m.command.id)
          <6> SUFFICES ASSUME ~Dead(m.command.id) PROVE FALSE
            BY <1>13 DEF Erased, Dead
          <6>1. Carries(s, t, m.command.id)
            BY <1>4, <1>11, <1>17 DEF Carries
          <6>2. Lacks(s, t, m.command.id)
            BY <1>5, <1>12, <6>1 DEF Steady, InStep
          <6> QED BY <1>4, <2>1, <4>1, <6>2 DEF Lacks
        <5> QED BY <1>10, <2>4, <3>1, <3>2, <4>1, <5>1, RefusedSound
      <4>2. CASE \E mid : TookOver(k, m, mid) /\ Flushed(mid, next)
        <5>1. PICK mid : TookOver(k, m, mid) /\ Flushed(mid, next)
          BY <4>2
        <5> QED BY <1>5, <1>10, <2>4, <3>1, <3>2, <5>1, OwnSound
      <4> QED BY <2>3, <4>1, <4>2
    <3> QED BY <1>1, <1>8, <1>10, <1>13, <1>17, <2>6, <3>3
  <2> QED BY <2>5, <2>6
<1> QED BY <1>15, <1>16, <1>17

\* The board refused an operation.
LEMMA RejectedSound ==
    ASSUME QtClients, Typed, Present, Working, Steady, AllSound, TheBoard \in kept,
           NEW s \in Artists, Verdict(s) # "ok", OperationRejected(s)
    PROVE  Sound(client'[s], handler'[s], Canvas', s)
<1>1. s \in Sessions
  BY DEF Artists
<1>2. PICK code : code = Verdict(s)
  OBVIOUS
<1>3. PICK m : m = Error(code)
  OBVIOUS
<1>4. m \in Hearable /\ m.type = "error" /\ m.code = code
  BY <1>1, <1>2, <1>3, VerdictIs, ErrorsHearable DEF Error
<1>5. handler[s].at = "apply" /\ Post(s, m) /\ Canvas' = Canvas
  BY <1>2, <1>3 DEF OperationRejected, Answer, At, shared, Canvas
<1>6. PICK next : next = Client!Handle(client[s], m)
  OBVIOUS
<1>7. client'[s] = next
  <2>1. strand[s] = <<>>
    BY <1>1 DEF Steady, Calm
  <2>2. Hears(s, m)
    BY <1>1, <1>4, <1>5, <2>1, PostIs
  <2> QED BY <1>1, <1>6, <2>2 DEF Hears, Working
<1>8. PICK k \in Qt : k = client[s]
  BY <1>1 DEF Working
<1>9. Errored(k, m, next)
  BY <1>4, <1>6, <1>8, HandleIs
<1>10. handler'[s] = Idle
  BY <1>1, OperationRejectedMoves DEF Becomes
<1>11. PICK c : c = handler[s].request.command
  OBVIOUS
<1>12. m.code = "conflict" \/ ~Accepts(Canvas, c)
  <2>1. handler[s].request.type = "operation" /\ handler[s].request.board = board[s]
    BY <1>1, <1>5, RequestedIs DEF Typed, Purpose
  <2>2. board[s] = TheBoard
    BY <1>1 DEF Steady, Calm
  <2>3. runtime[TheBoard].status # "closed"
    BY DEF AllSound
  <2>4. code = "conflict" \/ code = Failure(Canvas, c)
    BY <1>2, <1>11, <2>1, <2>2, <2>3 DEF Verdict, Canvas
  <2> QED BY <1>2, <1>4, <2>4 DEF Accepts
<1>13. PICK canvas \in Objects : canvas = Canvas
  BY TheBoardAssumption DEF Typed, Types, Runtime, Canvas
<1>14. PICK h : h = handler[s]
  OBVIOUS
<1>15. Sound(k, h, canvas, s)
  BY <1>8, <1>13, <1>14 DEF AllSound
<1>16. Sound(next, Idle, canvas, s)
  BY <1>5, <1>9, <1>11, <1>12, <1>13, <1>14, <1>15, ErrorSound
<1> QED BY <1>5, <1>7, <1>10, <1>13, <1>16

\* The session has told everybody.
LEMMA ToldSound ==
    ASSUME Typed, AllSound, TheBoard \in kept, NEW s \in Artists,
           handler[s].at = "post", handler[s].to = <<>>, Finish(s),
           UNCHANGED <<shared, own, posts>>
    PROVE  Sound(client'[s], handler'[s], Canvas', s)
<1>1. Sound(client[s], handler[s], Canvas, s)
  BY DEF AllSound
<1>2. ~Echoes(handler[s], s) /\ ~Echoes(Idle, s) /\ Idle.at = "idle"
  BY DEF Echoes, Range, Idle
<1>3. InFlight(client[s], Idle, s)
  BY <1>1, <1>2 DEF Sound, InFlight
<1>4. Known(client[s], Idle, Canvas, s)
  BY <1>1, <1>2 DEF Sound, Known
<1>5. \A id \in client[s].used :
         Whole(client[s].pending, Canvas[id], Echoes(handler[s], s), id)
           => Whole(client[s].pending, Canvas[id], Echoes(Idle, s), id)
  BY <1>2 DEF Whole
<1>6. Sound(client[s], Idle, Canvas, s)
  BY <1>1, <1>3, <1>4, <1>5 DEF Sound
<1>7. handler'[s] = Idle
  BY DEF Finish, Artists, Typed, Types, Handlers
<1>8. client'[s] = client[s] /\ Canvas' = Canvas
  BY DEF posts, shared, Canvas
<1> QED BY <1>6, <1>7, <1>8

\* A step of the session of s that has nothing to tell.
LEMMA SilentSound ==
    ASSUME QtClients, Typed, Present, Working, Steady, AllSound, TheBoard \in kept,
           NEW s \in Sessions, Serve(s), TheBoard \in kept',
           ~PostNext(s, "post"), Canvas' = Canvas, NEW h, TellsNobody(s, h),
           NEW t \in Artists
    PROVE  Sound(client'[t], handler'[t], Canvas', t)
<1>1. t \in Sessions
  BY DEF Artists
<1>2. Sound(client[t], handler[t], Canvas, t)
  BY DEF AllSound
<1>3. CASE t # s
  <2>1. UNCHANGED client \/ \E m \in Hearable : Hears(s, m)
    BY ServeEffect DEF Steady
  <2>2. client'[t] = client[t]
    BY <1>1, <1>3, <2>1 DEF Hears, Working
  <2>3. handler'[t] = handler[t]
    BY <1>1, <1>3 DEF TellsNobody, Becomes
  <2> QED BY <1>2, <2>2, <2>3
<1>4. CASE t = s
  <2>1. handler[s].at # "respond" /\ ~Respond(s)
    BY <1>2, <1>4 DEF Sound, InFlight, Respond, At
  <2>2. ~Delete(s)
    <3>1. s \notin Cabinet
      BY <1>4 DEF Artists
    <3> QED BY <3>1 DEF Delete, DeleteRefused, DeleteLost, DeleteRows, CloseBoard, Notify, Deleted, At,
              Working, Doing
  <2>3. ~RunPosted(s)
    BY ServeEffect DEF Steady
  <2>4. ~ApplyOperation(s)
    <3> SUFFICES ASSUME ApplyOperation(s) PROVE FALSE
      OBVIOUS
    <3>1. PICK g : g.at = "collect" /\ Becomes(s, g)
      BY ApplyOperationIs
    <3> QED BY <3>1 DEF TellsNobody, Becomes
  <2>5. ~Collect(s, "collect", "post")
    BY DEF TellsNobody, Collect, At
  <2>6. CASE At(s, "apply") /\ Verdict(s) # "ok" /\ OperationRejected(s)
    BY <1>4, <2>6, RejectedSound
  <2>7. CASE At(s, "post") /\ handler[s].to = <<>> /\ Finish(s) /\ UNCHANGED <<shared, own, posts>>
    BY <1>4, <2>7, ToldSound DEF At
  <2> QED BY <2>1, <2>2, <2>3, <2>4, <2>5, <2>6, <2>7 DEF Serve, Broadcast
<1> QED BY <1>3, <1>4

\* The steps of the server keep all clients sound.
LEMMA ServeSound ==
    ASSUME OneEraser, QtClients, Typed, Present, Working, Steady, AllSound,
           NEW s \in Sessions, Serve(s)
    PROVE  AllSound'
<1> SUFFICES ASSUME TheBoard \in kept'
             PROVE  /\ runtime'[TheBoard].status # "closed"
                    /\ \A id \in ObjectIds :
                          Canvas'[id] # NoObject => \E t \in Sessions : id \in client'[t].used
                    /\ \A t \in Artists : Sound(client'[t], handler'[t], Canvas', t)
  BY DEF AllSound, Artists
<1>1. TheBoard \in kept
  BY ServeEffect DEF Steady
<1>2. runtime'[TheBoard].status # "closed"
  BY <1>1, ServeRuns DEF AllSound
<1>3. \A id \in ObjectIds : Canvas'[id] # NoObject => \E t \in Sessions : id \in client'[t].used
  BY <1>1, ServeMakers
<1>4. ASSUME NEW t \in Artists
      PROVE  Sound(client'[t], handler'[t], Canvas', t)
  <2>1. CASE ApplyOperation(s)
    BY <2>1, OperationSound
  <2>2. CASE /\ handler[s].at = "collect" /\ UNCHANGED <<shared, own, posts>>
             /\ Becomes(s, Record("post", handler[s].request, handler[s].message,
                                  subscribers[board[s]]))
    BY <1>1, <2>2, CollectSound
  <2>3. CASE /\ handler[s].at = "post" /\ handler[s].to # <<>> /\ PostNext(s, "post")
             /\ UNCHANGED shared
             /\ Becomes(s, Record("post", handler[s].request, handler[s].message,
                                  Tail(handler[s].to)))
    BY <1>1, <2>3, HeardSound
  <2>4. CASE ~PostNext(s, "post") /\ Canvas' = Canvas /\ \E h : TellsNobody(s, h)
    BY <1>1, <2>4, SilentSound
  <2> QED BY <2>1, <2>2, <2>3, <2>4, ServeIs
<1> QED BY <1>2, <1>3, <1>4

\* So does every step.
LEMMA TogetherSound ==
    ASSUME OneEraser, QtClients, Typed, Present, Working, Steady, AllSound, TogetherNext
    PROVE  AllSound'
BY DrawSound, EraseSound, PressSound, TimerSound, DeliverSound, ServeSound
   DEF TogetherNext, Proceed

\* And one that changes nothing.
LEMMA StutterSound ==
    ASSUME AllSound, UNCHANGED vars
    PROVE  AllSound'
<1>1. kept' = kept /\ runtime' = runtime /\ handler' = handler /\ client' = client
  BY DEF vars
<1>2. Canvas' = Canvas /\ Artists' = Artists
  BY <1>1 DEF Canvas, Artists
<1> QED BY <1>1, <1>2 DEF AllSound

\* Nobody has drawn yet.
LEMMA SoundStarts ==
    Together => AllSound
<1> SUFFICES ASSUME Together PROVE AllSound
  OBVIOUS
<1>1. Joined.objects = NoObjects /\ Joined.pending = <<>> /\ Joined.sent = <<>> /\ Joined.used = {}
  BY FirstClients DEF Made
<1>2. Canvas = NoObjects /\ runtime[TheBoard].status = "open"
  BY TheBoardAssumption DEF Together, Canvas, Fresh
<1>3. \A id \in ObjectIds : NoObjects[id] = NoObject
  BY DEF NoObjects
<1>4. ASSUME NEW s \in Artists PROVE Sound(client[s], handler[s], Canvas, s)
  <2>1. client[s] = Joined /\ handler[s] = Idle /\ Idle.at = "idle"
    BY DEF Together, Artists, Idle
  <2>2. ~Echoes(Idle, s)
    BY DEF Echoes, Idle
  <2>3. Range(Joined.pending) = {}
    BY <1>1 DEF Range
  <2>4. InFlight(Joined, Idle, s)
    BY <1>1, <2>1, <2>2 DEF InFlight
  <2>5. Known(Joined, Idle, Canvas, s)
    BY <1>1, <1>3, <2>1, <2>3 DEF Known
  <2> QED BY <1>1, <2>1, <2>4, <2>5 DEF Sound
<1> QED BY <1>2, <1>3, <1>4 DEF AllSound

\* With one eraser, no stroke is torn on its way.
LEMMA SoundInvariant ==
    ASSUME OneEraser, QtClients
    PROVE  TogetherSpec => []AllSound
<1>1. Together => AllSound
  BY SoundStarts
<1>2. Typed /\ Present /\ Working /\ Steady /\ AllSound /\ [TogetherNext]_vars => AllSound'
  BY TogetherSound, StutterSound
<1> QED BY <1>1, <1>2, WorkingInvariant, SteadyInvariant, PTL DEF TogetherSpec

\* If at most one user has the eraser, what a Qt client drew gets through as a
\* whole, or is erased: with one operation in flight, conflicts retried and a
\* refused operation given up with all that follows it on its object, as in
\* ClientSessionController, a client that is done with its queue leaves no part
\* of a stroke on the board, however many draw.  (Two erasers of one object take
\* each other's broadcast for their own acknowledgement: the run torn_strokes.)
THEOREM StrokesGetThrough ==
    ASSUME OneEraser, QtClients
    PROVE  TogetherSpec => []StrokesAreWhole
<1>1. ASSUME Typed, Working, AllSound, DeletionReachesAll
      PROVE  StrokesAreWhole
  <2> SUFFICES ASSUME AllQuiet, NEW s \in Drawing, client[s].pending = <<>>,
                      NEW id \in client[s].used
               PROVE  /\ Canvas[id] # NoObject
                      /\ Active(Canvas[id]) => Canvas[id].finished /\ Canvas[id].points \in Ink
    BY DEF StrokesAreWhole
  <2>1. s \in Sessions /\ s \in Artists
    <3>1. s \in Sessions /\ client[s].board = TheBoard
      BY DEF Drawing
    <3>2. Using(s, client[s])
      BY <1>1, <3>1 DEF Working
    <3> QED BY <3>1, <3>2, BoardsAssumption, TheBoardAssumption DEF Using
  <2>2. TheBoard \in kept
    BY <1>1 DEF DeletionReachesAll
  <2>3. Sound(client[s], handler[s], Canvas, s)
    BY <1>1, <2>1, <2>2 DEF AllSound
  <2>4. ~Echoes(handler[s], s)
    BY <2>1 DEF AllQuiet, Quiet, At, Echoes
  <2>5. CASE Erased(Canvas, id)
    BY <2>5 DEF Erased, Active
  <2>6. CASE Whole(client[s].pending, Canvas[id], Echoes(handler[s], s), id)
    <3>1. Whole(<<>>, Canvas[id], FALSE, id)
      BY <2>4, <2>6 DEF Whole
    <3>2. PICK ops : \E n \in 0 .. 3 : \E i \in Nat \ {0} :
            /\ StrokeOf(ops, id) /\ Rest(<<>>, ops, n, i)
            /\ Canvas[id] = Drawn(ops, IF i = 1 /\ n < 3 /\ FALSE THEN n + 1 ELSE n)
      BY <3>1 DEF Whole
    <3>3. PICK n \in 0 .. 3, i \in Nat \ {0} :
            /\ StrokeOf(ops, id) /\ Rest(<<>>, ops, n, i)
            /\ Canvas[id] = Drawn(ops, n)
      BY <3>2
    <3>4. n = 3
      BY <3>3 DEF Rest
    <3>5. Drawn(ops, 3) # NoObject /\ Drawn(ops, 3).finished /\ Drawn(ops, 3).points \in Ink
      <4>1. Drawn(ops, 3) # NoObject
        BY <3>3, <3>4, DrawnSomething
      <4>2. Drawn(ops, 3).finished /\ Drawn(ops, 3).points = <<ops[1].start>> \o ops[2].points
        BY <3>3, DrawnHas
      <4>3. <<ops[1].start>> \o ops[2].points \in Ink
        BY <3>3, StrokeOfHas
      <4> QED BY <4>1, <4>2, <4>3
    <3> QED BY <3>3, <3>4, <3>5
  <2> QED BY <2>3, <2>5, <2>6 DEF Sound
<1> QED BY <1>1, WorkingInvariant, SoundInvariant, DeletionSpreads, PTL

=============================================================================
