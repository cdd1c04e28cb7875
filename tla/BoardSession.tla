---------------------------- MODULE BoardSession ----------------------------
(***************************************************************************)
(* The Qt client on a board, as pure operators on its state: what it shows *)
(* (the objects and the revision it holds), the operations its user made   *)
(* that are not acknowledged yet, and what it does with every message.     *)
(* BoardSessionState keeps the state, ClientSessionController the rules:   *)
(* one operation is in flight at a time, it is retried when it conflicts,  *)
(* and given up with everything queued for the same object on any other    *)
(* error.                                                                  *)
(*                                                                         *)
(* Messages are those of BoardServer.                                      *)
(***************************************************************************)
EXTENDS BoardObjects, FiniteSetsExt

CONSTANT NoBoard            \* no board open

\* The state of a client, by the members of its classes.
Session(Boards) ==
    [board : Boards \cup {NoBoard},     \* current_board_id_
     revision : Nat,                    \* snapshot_.revision
     objects : Objects,                 \* snapshot_.objects
     pending : Seq(Command),            \* pending_operations_
     awaiting : BOOLEAN,                \* awaiting_operation_ack_
     timer : BOOLEAN,                   \* QTimer::singleShot is to flush the queue
     sent : Seq([type : {"operation"}, board : Boards, base : Nat, command : Command]
                  \cup [type : {"delete"}, board : Boards]),
                                        \* written to the socket and not yet read
     used : SUBSET ObjectIds]           \* identifiers it made

-----------------------------------------------------------------------------
(* BoardSessionState *)

Clear(k) ==
    [k EXCEPT !.board = NoBoard, !.revision = 0, !.objects = NoObjects,
              !.pending = <<>>, !.awaiting = FALSE]

HasOperationReady(k) == k.board # NoBoard /\ ~k.awaiting /\ k.pending # <<>>

\* Faulty: based on the revision before the one it holds.
RequestBehind(k) ==
    [type |-> "operation", board |-> k.board, base |-> k.revision - 1,
     command |-> Head(k.pending)]

OperationRequest(k) ==
    [type |-> "operation", board |-> k.board, base |-> k.revision,
     command |-> Head(k.pending)]

\* An applied operation is taken for the client's own by type and object.
MatchesFront(k, c) ==
    /\ k.pending # <<>>
    /\ Head(k.pending).op = c.op
    /\ Head(k.pending).id = c.id

ApplyRemote(k, m) ==
    LET acked == k.awaiting /\ MatchesFront(k, m.command) IN
    [k EXCEPT !.objects = Apply(@, m.command),
              !.revision = m.revision,
              !.pending = IF acked THEN Tail(@) ELSE @,
              !.awaiting = @ /\ ~acked]

\* The front operation and all those behind it for the same object.
DiscardFrontGroup(k) ==
    LET others == {i \in DOMAIN k.pending : k.pending[i].id # k.pending[1].id} IN
    [k EXCEPT !.awaiting = FALSE,
              !.pending = IF others = {} THEN <<>>
                          ELSE SubSeq(@, Min(others), Len(@))]

-----------------------------------------------------------------------------
(* ClientSessionController *)

FlushOperationQueue(k) ==
    IF HasOperationReady(k)
      THEN [k EXCEPT !.awaiting = TRUE, !.sent = Append(@, OperationRequest(k))]
      ELSE k

\* enqueue_operation for one after the other: the first flush sends the front
\* operation if any can be sent, the others find it in flight.
EnqueueOperations(k, operations) ==
    IF k.board = NoBoard THEN k
    ELSE FlushOperationQueue([k EXCEPT !.pending = @ \o operations])

\* Faulty: an operation that does not follow the one before is dropped.
HandleNextApplied(k, m) ==
    IF /\ k.board = m.board /\ m.revision = k.revision + 1
       /\ Accepts(k.objects, m.command)
      THEN FlushOperationQueue(ApplyRemote(k, m))
      ELSE k

HandleOperationApplied(k, m) ==
    IF k.board = m.board /\ Accepts(k.objects, m.command)
      THEN FlushOperationQueue(ApplyRemote(k, m))
      ELSE k

\* Faulty: a conflict is an error like any other.
GiveUp(k, m) == [DiscardFrontGroup(k) EXCEPT !.timer = TRUE]

HandleError(k, m) ==
    IF m.code = "conflict" THEN [k EXCEPT !.awaiting = FALSE, !.timer = TRUE]
    ELSE [DiscardFrontGroup(k) EXCEPT !.timer = TRUE]

\* Faulty: the queue is left as it is.
ForgetBoard(k, m) ==
    IF k.board = m.board THEN [k EXCEPT !.board = NoBoard, !.objects = NoObjects] ELSE k

\* board_deleted, and delete_board_response for the board that is open.
HandleBoardDeleted(k, m) ==
    IF k.board = m.board THEN Clear(k) ELSE k

\* What a client makes of the messages that one on a board may get, and one
\* that deletes it.
Handle(k, m) ==
    CASE m.type = "error" -> HandleError(k, m)
      [] m.type = "operation_applied" -> HandleOperationApplied(k, m)
      [] m.type \in {"board_deleted", "delete_board_response"} -> HandleBoardDeleted(k, m)

\* The singleShot timer that follows an error.
TimerFires(k) == FlushOperationQueue([k EXCEPT !.timer = FALSE])

-----------------------------------------------------------------------------
(* BoardOperationBuilder *)

StrokeSequence(id, style, points) ==
    <<[op |-> "begin_stroke", id |-> id, style |-> style, start |-> Head(points)]>>
      \o (IF Len(points) > 1
            THEN <<[op |-> "append_stroke_points", id |-> id, points |-> Tail(points)]>>
            ELSE <<>>)
      \o <<[op |-> "end_stroke", id |-> id]>>

DeleteOperation(id) == <<[op |-> "delete_object", id |-> id]>>

=============================================================================
