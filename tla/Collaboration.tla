--------------------------- MODULE Collaboration ---------------------------
(***************************************************************************)
(* Clients that share a board: the Qt client (BoardSession) on each of the *)
(* sessions of BoardServer.  Some have joined one board, on which nobody   *)
(* has drawn yet; from then on their users draw strokes and erase what     *)
(* they see, and everything else follows: the queue of each client, its    *)
(* retries, the handlers of the server, and the broadcasts.  Others are in *)
(* their cabinet, where an owner may delete the board.                     *)
(*                                                                         *)
(* What a client sends waits in its sent until the session reads it.  What *)
(* the server posts counts as heard at once: hearing it later is as good   *)
(* as what the client did before having been done earlier.                 *)
(*                                                                         *)
(* Nobody joins, leaves or loses the connection here, every client may     *)
(* edit, and no operation fails to be persisted: what the properties say   *)
(* of clients that work together needs no such excuse.  The deletion may   *)
(* fail, and it may fail although the rows are gone, with nobody told.     *)
(***************************************************************************)
EXTENDS BoardServer

CONSTANTS
    Ink,            \* what a user draws: the points of a stroke
    Erasers,        \* sessions whose users use the eraser
    Cabinet,        \* sessions whose users are in their cabinet
    TheBoard        \* the board the others are on

ASSUME SessionsAssumption == IsFiniteSet(Sessions)
ASSUME InkAssumption == Ink \subseteq Seq(Points) \ {<<>>}
ASSUME ErasersAssumption == Erasers \subseteq Sessions
ASSUME CabinetAssumption == Cabinet \subseteq Sessions
ASSUME TheBoardAssumption == TheBoard \in Boards

Client == INSTANCE BoardSession

Artists == Sessions \ Cabinet

\* A client that joined the board, and one that is in its cabinet.
Joined ==
    [board |-> TheBoard, revision |-> 0, objects |-> NoObjects, pending |-> <<>>,
     awaiting |-> FALSE, timer |-> FALSE, sent |-> <<>>, used |-> {}]

Elsewhere == Client!Clear(Joined)

\* The sessions joined in some order.
Together ==
    /\ rows = Boards /\ kept = Boards
    /\ runtime = [b \in Boards |->
           IF b = TheBoard
             THEN [Fresh EXCEPT !.status = "open",
                                !.participants = {Identity[s] : s \in Artists}]
             ELSE Fresh]
    /\ \E order \in SetToSeqs(Artists) :
           subscribers = [b \in Boards |-> IF b = TheBoard THEN order ELSE <<>>]
    /\ board = [s \in Sessions |-> IF s \in Artists THEN TheBoard ELSE NoBoard]
    /\ reading = [s \in Sessions |-> "open"]
    /\ ghost = [s \in Sessions |-> NoBoard]
    /\ handler = [s \in Sessions |-> Idle]
    /\ strand = [s \in Sessions |-> <<>>]
    /\ client = [s \in Sessions |-> IF s \in Artists THEN Joined ELSE Elsewhere]
    /\ asked = [s \in Sessions |-> 0]

-----------------------------------------------------------------------------
(* The user *)

\* asked counts what the user of a client did.
Gesture(s, k) ==
    /\ asked[s] < MaxRequests
    /\ asked' = [asked EXCEPT ![s] = @ + 1]
    /\ client' = [client EXCEPT ![s] = k]
    /\ UNCHANGED <<shared, board, reading, ghost, handler, strand>>

\* next_object_id: no other client makes the identifier, nor this one again.
Unused == ObjectIds \ UNION {client[s].used : s \in Sessions}

\* The pen: the mouse is released at the end of a stroke.
DrawStroke(s) ==
    \E id \in Unused, style \in Styles, points \in Ink :
        /\ client[s].board = TheBoard
        /\ Len(points) > 1
        /\ Gesture(s, [Client!EnqueueOperations(client[s],
                           Client!StrokeSequence(id, style, points))
                         EXCEPT !.used = @ \cup {id}])

\* The eraser hits an object that the canvas shows.
EraseObject(s) ==
    /\ s \in Erasers
    /\ \E id \in ObjectIds :
         /\ Active(client[s].objects[id])
         /\ Gesture(s, Client!EnqueueOperations(client[s], Client!DeleteOperation(id)))

\* The delete button in the cabinet (bound: pressed once).
DeleteTheBoard(s) ==
    /\ s \in Cabinet
    /\ asked[s] = 0
    /\ Gesture(s, [client[s] EXCEPT
           !.sent = Append(@, [type |-> "delete", board |-> TheBoard])])

-----------------------------------------------------------------------------
(* The rest goes by itself. *)

TimerFires(s) ==
    /\ client[s].timer
    /\ client' = [client EXCEPT ![s] = Client!TimerFires(@)]
    /\ UNCHANGED <<shared, own, handler, strand>>

\* The session reads what the client sent.
Deliver(s) ==
    /\ client[s].sent # <<>>
    /\ Accept(s, Head(client[s].sent))
    /\ client' = [client EXCEPT ![s].sent = Tail(@)]
    /\ UNCHANGED asked

\* Handlers of operations and of the deletion.  An operation that arrives when
\* the session has lost the board is answered at once.
Serve(s) ==
    \/ Broadcast(s)
    \/ Respond(s)
    \/ Delete(s)
    \/ RunPosted(s)
    \/ ApplyOperation(s)
    \/ At(s, "apply") /\ Verdict(s) # "ok" /\ OperationRejected(s)

Proceed(s) == TimerFires(s) \/ Deliver(s) \/ Serve(s)

TogetherNext ==
    \E s \in Sessions :
        DrawStroke(s) \/ EraseObject(s) \/ DeleteTheBoard(s) \/ Proceed(s)

TogetherSpec == Together /\ [][TogetherNext]_vars

\* Timers fire, sockets deliver, worker threads run handlers; nobody has to
\* draw.
FairTogetherSpec ==
    TogetherSpec /\ \A s \in Sessions :
        WF_vars(TimerFires(s)) /\ WF_vars(Deliver(s)) /\ WF_vars(Serve(s))

-----------------------------------------------------------------------------
(* What users who draw together may rely on. *)

TogetherTypeOK ==
    /\ TypeOK
    /\ client \in [Sessions -> Client!Session(Boards)]

\* Nothing is under way between a client and its session.
Quiet(s) ==
    /\ At(s, "idle") /\ strand[s] = <<>>
    /\ client[s].sent = <<>> /\ ~client[s].timer

AllQuiet == \A s \in Sessions : Quiet(s)

Canvas == runtime[TheBoard].objects

Drawing == {s \in Sessions : client[s].board = TheBoard}

\* Two broadcasts may overtake each other on the way to a client, and still,
\* once they are through, every client shows every object that nobody erased
\* exactly as the server has it.
LiveObjectsConverge ==
    AllQuiet => \A s \in Drawing, id \in ObjectIds :
        Active(Canvas[id]) => client[s].objects[id] = Canvas[id]

\* What a user drew gets through as a whole, whatever conflicts it met on its
\* way: when the client is done with its queue, each of its strokes is on the
\* board, finished, with all its points, or somebody has erased it.
StrokesAreWhole ==
    AllQuiet => \A s \in Drawing :
        client[s].pending = <<>> =>
            \A id \in client[s].used :
                /\ Canvas[id] # NoObject
                /\ Active(Canvas[id]) => Canvas[id].finished /\ Canvas[id].points \in Ink

\* When a board is deleted under the hands of those who draw, and the server
\* knows that it is, all of them lose it, with whatever they had queued, and a
\* late answer to an operation does not leave a client waiting.  (After a
\* deletion whose COMMIT was answered by an error, TheBoard is in kept, and
\* everybody draws on.)
DeletionReachesAll ==
    (AllQuiet /\ TheBoard \notin kept) =>
        /\ Drawing = {}
        /\ \A s \in Sessions : client[s].pending = <<>> /\ ~client[s].awaiting

-----------------------------------------------------------------------------
(* What one expects, and the code does not do. *)

\* What a user drew is accepted or refused some time.
OperationsSettle ==
    \A s \in Sessions : client[s].pending # <<>> ~> client[s].pending = <<>>

=============================================================================
