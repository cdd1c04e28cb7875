---------------------------- MODULE BoardServer ----------------------------
(***************************************************************************)
(* The sessions of the server, and what they make of each other: joining   *)
(* and leaving boards, the list of participants, the subscriptions, and    *)
(* the broadcasts of operations, presence and deletion.                    *)
(*                                                                         *)
(* Each session runs on a strand of its own, so it handles one request, or *)
(* one thing posted to it, at a time.  The strands run on several threads: *)
(* handlers of different sessions interleave between any two visits to a   *)
(* structure they share, each of which has a mutex: the participants and   *)
(* objects of a runtime, the subscriptions, the queue of a strand.  A      *)
(* handler is a record of where it is; one action is one such visit.       *)
(*                                                                         *)
(* Joins and operations hold the board's mutex shared until they return, a *)
(* delete holds it alone; leaving holds none.  BoardRuntime has the mutex  *)
(* itself, the database, its failures and restarts; here a failure is one  *)
(* more error that a request may be answered with.                         *)
(***************************************************************************)
EXTENDS BoardObjects, FiniteSets, SequencesExt

CONSTANTS
    Sessions,       \* connections to the server
    Boards,         \* boards that were created before they came
    Principals,     \* registered users and guests
    Identity,       \* whom each session authenticated as
    Owners,         \* principals who own the boards
    Commands,       \* commands that clients send
    NoBoard,        \* no board joined
    Heard(_, _, _), \* what the client of a session, in some state, becomes by
                    \* a message
    NewClient,      \* the state of a client before any message
    MaxRequests,    \* bound: requests that a session may send
    MaxRevision     \* bound: revisions that operations are based on

ASSUME IdentityAssumption ==
    Identity \in [Sessions -> Principals] /\ Owners \subseteq Principals
ASSUME CommandsAssumption == Commands \subseteq Command
ASSUME BoardsAssumption == NoBoard \notin Boards
ASSUME BoundAssumption == MaxRequests \in Nat /\ MaxRevision \in Nat

VARIABLES
    rows,           \* boards the database has
    kept,           \* history: boards without a deletion that succeeded
    runtime,        \* their BoardRuntimeManagers
    subscribers,    \* ServerState::subscriptions_
    board,          \* joined_board_id_, runtime_ and joined_role_ of a session
    reading,        \* whether a session reads from its socket
    ghost,          \* history: the board a session was on when it ceased to be
    handler,        \* what a session is doing
    strand,         \* what is posted to a session, from a board_deleted on
    client,         \* the clients, by what was written to them
    asked           \* how many requests a session got

shared == <<rows, kept, runtime, subscribers>>
own == <<board, reading, ghost, asked>>
posts == <<strand, client>>
vars == <<rows, kept, runtime, subscribers, board, reading, ghost, handler, strand,
          client, asked>>

-----------------------------------------------------------------------------
(* Requests and messages *)

Requests ==
    [type : {"join", "delete"}, board : Boards]
      \cup [type : {"leave"}]
      \cup [type : {"operation"}, board : Boards, base : 0 .. MaxRevision, command : Commands]

\* The connection ends: not a request, but a thing to handle like one.
Hangup == [type |-> "hangup"]

Error(code) == [type |-> "error", code |-> code]

JoinResponse(b, snapshot) ==
    [type |-> "join_response", board |-> b, revision |-> snapshot.revision,
     objects |-> snapshot.objects, participants |-> snapshot.participants]

OperationApplied(b, r, who, c) ==
    [type |-> "operation_applied", board |-> b, revision |-> r,
     actor |-> who, command |-> c]

\* It names no board.
PresenceUpdate(participants) ==
    [type |-> "presence_update", participants |-> participants]

LeaveBoardResponse == [type |-> "leave_board_response"]

BoardDeleted(b) == [type |-> "board_deleted", board |-> b]

\* on_board_deleted: no message, a call posted to the strand.
Notice(b) == [type |-> "notice", board |-> b]

-----------------------------------------------------------------------------
(* State *)

Runtime ==
    [status : {"none", "open", "closed"}, participants : SUBSET Principals,
     revision : Nat, objects : Objects]

Fresh == [status |-> "none", participants |-> {}, revision |-> 0,
          objects |-> NoObjects]

Idle == [at |-> "idle"]

Places == {"idle", "leave", "remaining", "unsubscribe", "leave_collect", "farewell",
           "join", "subscribe", "snapshot", "respond", "present", "collect", "post",
           "apply", "delete", "close", "notify"}

\* Places between which a handler relies on joined_board_id_ and runtime_.
OnBoard == {"leave", "remaining", "unsubscribe", "leave_collect", "farewell",
            "subscribe", "snapshot", "present", "collect", "post", "apply"}

\* The types of the variables; a handler that relies on the session's board
\* never finds it reset halfway.
TypeOK ==
    /\ rows \subseteq kept /\ kept \subseteq Boards
    /\ runtime \in [Boards -> Runtime]
    /\ \A b \in Boards : Range(subscribers[b]) \subseteq Sessions
    /\ board \in [Sessions -> Boards \cup {NoBoard}]
    /\ reading \in [Sessions -> {"open", "last", "closed"}]
    /\ ghost \in [Sessions -> Boards \cup {NoBoard}]
    /\ \A s \in Sessions : /\ handler[s].at \in Places
                           /\ handler[s].at \in OnBoard => board[s] # NoBoard
    /\ asked \in [Sessions -> 0 .. MaxRequests]

Init ==
    /\ rows = Boards /\ kept = Boards
    /\ runtime = [b \in Boards |-> Fresh]
    /\ subscribers = [b \in Boards |-> <<>>]
    /\ board = [s \in Sessions |-> NoBoard]
    /\ reading = [s \in Sessions |-> "open"]
    /\ ghost = [s \in Sessions |-> NoBoard]
    /\ handler = [s \in Sessions |-> Idle]
    /\ strand = [s \in Sessions |-> <<>>]
    /\ client = [s \in Sessions |-> NewClient]
    /\ asked = [s \in Sessions |-> 0]

Goto(s, there) == handler' = [handler EXCEPT ![s].at = there]
Finish(s) == handler' = [handler EXCEPT ![s] = Idle]

At(s, place) == handler[s].at = place

Tell(s, m) == client' = [client EXCEPT ![s] = Heard(s, @, m)]

\* ClientSession::send_json.  Nothing on the server depends on when a message
\* is written or arrives, so one that finds no notice before it counts as
\* heard: a client that sends something before it hears of it might as well
\* have sent it earlier.
Post(s, m) ==
    IF strand[s] = <<>>
      THEN Tell(s, m) /\ UNCHANGED strand
      ELSE strand' = [strand EXCEPT ![s] = Append(@, m)] /\ UNCHANGED client

\* on_board_deleted and then, if m is one, a message.
PostNotice(s, b, m) ==
    /\ strand' = [strand EXCEPT ![s] = @ \o <<Notice(b)>> \o m]
    /\ UNCHANGED client

\* The request is answered, which ends its handler.
Answer(s, m) == Post(s, m) /\ Finish(s)

-----------------------------------------------------------------------------
(* ServerState: subscriptions and broadcasts.                               *)

\* std::remove_if and erase: every entry of s goes, the others keep their order.
Without(sessions, s) ==
    LET others[n \in 0 .. Len(sessions)] ==
          IF n = 0 THEN <<>>
          ELSE IF sessions[n] = s THEN others[n - 1]
          ELSE Append(others[n - 1], sessions[n])
    IN  others[Len(sessions)]

(* ServerState::broadcast: the recipients are collected under the mutex of  *)
(* the subscriptions, and the message posted to one after the other.        *)

\* Faulty: the author of a message is no recipient.
CollectOthers(s, here, there) ==
    /\ At(s, here)
    /\ handler' = [handler EXCEPT ![s].at = there,
           ![s].to = Without(subscribers[board[s]], s)]
    /\ UNCHANGED <<shared, own, posts>>

Collect(s, here, there) ==
    /\ At(s, here)
    /\ handler' = [handler EXCEPT ![s].at = there, ![s].to = subscribers[board[s]]]
    /\ UNCHANGED <<shared, own, posts>>

PostNext(s, here) ==
    /\ At(s, here)
    /\ handler[s].to # <<>>
    /\ Post(Head(handler[s].to), handler[s].message)
    /\ handler' = [handler EXCEPT ![s].to = Tail(@)]
    /\ UNCHANGED <<shared, own>>

Broadcast(s) ==
    \/ Collect(s, "collect", "post")
    \/ PostNext(s, "post")
    \/ /\ At(s, "post") /\ handler[s].to = <<>>
       /\ Finish(s)
       /\ UNCHANGED <<shared, own, posts>>

-----------------------------------------------------------------------------
(* ClientSession::handle_message *)

Begin(s, r, place) ==
    handler' = [handler EXCEPT ![s] =
        [at |-> place, request |-> r, message |-> [type |-> "none"], to |-> <<>>]]

\* A request that is answered at once.
Reply(s, r, m) ==
    handler' = [handler EXCEPT ![s] =
        [at |-> "respond", request |-> r, message |-> m, to |-> <<>>]]

\* A join leaves the board that the session is on, whether it succeeds or not.
Dispatch(s, r) ==
    CASE r.type = "join" -> Begin(s, r, IF board[s] = NoBoard THEN "join" ELSE "leave")
      [] r.type = "leave" ->
           IF board[s] = NoBoard THEN Reply(s, r, LeaveBoardResponse)
           ELSE Begin(s, r, "leave")
      [] r.type = "operation" ->
           IF board[s] = NoBoard THEN Reply(s, r, Error("access_denied"))
           ELSE IF board[s] # r.board THEN Reply(s, r, Error("invalid_argument"))
           ELSE Begin(s, r, "apply")
      [] r.type = "delete" -> Begin(s, r, "delete")

Accept(s, r) ==
    /\ At(s, "idle")
    /\ reading[s] # "closed"
    /\ Dispatch(s, r)
    /\ UNCHANGED <<shared, board, reading, ghost, strand>>

\* A request of a client that may send anything.
Receive(s, r) ==
    /\ asked[s] < MaxRequests
    /\ asked' = [asked EXCEPT ![s] = @ + 1]
    /\ Accept(s, r)
    /\ UNCHANGED client

\* ClientSession::cleanup, after a read or write that failed or stop().  A
\* read that had completed by then still is handled after it, and so is, one
\* after the other, every line that had come with it: no handler looks whether
\* the session is stopped.
Disconnect(s) ==
    /\ At(s, "idle")
    /\ reading[s] = "open"
    /\ \E next \in {"closed", "last"} : reading' = [reading EXCEPT ![s] = next]
    /\ IF board[s] = NoBoard THEN UNCHANGED handler ELSE Begin(s, Hangup, "leave")
    /\ UNCHANGED <<shared, board, ghost, asked, posts>>

\* The read after those lines fails, and cleanup returns, since the session is
\* stopped already.  Once nothing posted or collected holds it, the session
\* exists no more: a board it joined in between is never left.  ServerState has
\* weak pointers, and drops those that have expired wherever it meets them, so
\* here the subscription goes at once; the principal stays in the runtime.
Expire(s) ==
    /\ At(s, "idle")
    /\ reading[s] = "last"
    /\ strand[s] = <<>>
    /\ \A t \in Sessions : ~At(t, "idle") => s \notin Range(handler[t].to)
    /\ reading' = [reading EXCEPT ![s] = "closed"]
    /\ ghost' = [ghost EXCEPT ![s] = board[s]]
    /\ board' = [board EXCEPT ![s] = NoBoard]
    /\ subscribers' = [b \in Boards |-> Without(subscribers[b], s)]
    /\ UNCHANGED <<rows, kept, runtime, asked, handler, posts>>

-----------------------------------------------------------------------------
(* ClientSession::leave_current_board *)

LeaveParticipant(s) ==
    /\ At(s, "leave")
    /\ runtime' = [runtime EXCEPT ![board[s]].participants = @ \ {Identity[s]}]
    /\ Goto(s, "remaining")
    /\ UNCHANGED <<rows, kept, subscribers, own, posts>>

ReadRemaining(s) ==
    /\ At(s, "remaining")
    /\ handler' = [handler EXCEPT ![s].at = "unsubscribe",
           ![s].message = PresenceUpdate(runtime[board[s]].participants)]
    /\ UNCHANGED <<shared, own, posts>>

Unsubscribe(s) ==
    /\ At(s, "unsubscribe")
    /\ subscribers' = [subscribers EXCEPT ![board[s]] = Without(@, s)]
    /\ Goto(s, "leave_collect")
    /\ UNCHANGED <<rows, kept, runtime, own, posts>>

\* joined_board_id_ and runtime_ are reset, and the request goes on.
Left(s) ==
    /\ At(s, "farewell") /\ handler[s].to = <<>>
    /\ board' = [board EXCEPT ![s] = NoBoard]
    /\ CASE handler[s].request.type = "join" -> Goto(s, "join") /\ UNCHANGED posts
         [] handler[s].request.type = "leave" -> Answer(s, LeaveBoardResponse)
         [] handler[s].request.type = "hangup" -> Finish(s) /\ UNCHANGED posts
    /\ UNCHANGED <<shared, reading, ghost, asked>>

Leave(s) ==
    \/ LeaveParticipant(s)
    \/ ReadRemaining(s)
    \/ Unsubscribe(s)
    \/ Collect(s, "leave_collect", "farewell")
    \/ PostNext(s, "farewell")
    \/ Left(s)

-----------------------------------------------------------------------------
(* BoardAccessCoordinator: the mutex of a board, by the places at which a    *)
(* handler holds it until its last message is posted.                       *)

Deleting(b) ==
    \E s \in Sessions : handler[s].at \in {"close", "notify"} /\ handler[s].request.board = b

\* Faulty: a join keeps the mutex only until it is subscribed.
SharingToSubscribe(b) ==
    \E s \in Sessions :
        board[s] = b /\ handler[s].at \in {"subscribe", "collect", "post"}

\* Faulty: an operation releases the mutex before it is broadcast.
SharingWhileJoining(b) ==
    \E s \in Sessions :
        /\ board[s] = b
        /\ handler[s].at \in {"subscribe", "snapshot", "respond", "present", "collect", "post"}
        /\ handler[s].request.type = "join"

Sharing(b) ==
    \E s \in Sessions :
        /\ board[s] = b
        /\ \/ handler[s].at \in {"subscribe", "snapshot", "present", "collect", "post"}
           \/ At(s, "respond") /\ handler[s].request.type = "join"

-----------------------------------------------------------------------------
(* ClientSession::handle_join_board *)

\* No such board, no role on it, or a query that failed.
JoinRefused(s) ==
    /\ At(s, "join")
    /\ ~Deleting(handler[s].request.board)
    /\ Answer(s, Error("refused"))
    /\ UNCHANGED <<shared, own>>

\* The row and its objects are read, get_or_create finds or makes the
\* runtime, join_participant lists the principal.  Only a delete could come
\* between these, and it waits for the board's mutex.
JoinBoard(s) ==
    LET b == handler[s].request.board IN
    /\ At(s, "join")
    /\ ~Deleting(b)
    /\ b \in rows
    /\ runtime' = [runtime EXCEPT ![b].status = "open",
                                  ![b].participants = @ \cup {Identity[s]}]
    /\ board' = [board EXCEPT ![s] = b]
    /\ Goto(s, "subscribe")
    /\ UNCHANGED <<rows, kept, subscribers, reading, ghost, asked, posts>>

\* Faulty: the session subscribes once it has responded.
SubscribeLate(s) ==
    \/ /\ At(s, "subscribe")
       /\ Goto(s, "snapshot")
       /\ UNCHANGED <<shared, own, posts>>
    \/ /\ At(s, "present")
       /\ s \notin Range(subscribers[board[s]])
       /\ subscribers' = [subscribers EXCEPT ![board[s]] = Append(@, s)]
       /\ UNCHANGED <<rows, kept, runtime, own, handler, posts>>

Subscribe(s) ==
    /\ At(s, "subscribe")
    /\ subscribers' = [subscribers EXCEPT ![board[s]] = Append(@, s)]
    /\ Goto(s, "snapshot")
    /\ UNCHANGED <<rows, kept, runtime, own, posts>>

\* The argument of send_json is made before send_json posts it.
ReadSnapshot(s) ==
    /\ At(s, "snapshot")
    /\ handler' = [handler EXCEPT ![s].at = "respond",
           ![s].message = JoinResponse(board[s], runtime[board[s]])]
    /\ UNCHANGED <<shared, own, posts>>

Respond(s) ==
    /\ At(s, "respond")
    /\ Post(s, handler[s].message)
    /\ IF handler[s].request.type = "join" THEN Goto(s, "present") ELSE Finish(s)
    /\ UNCHANGED <<shared, own>>

ReadPresent(s) ==
    /\ At(s, "present")
    /\ handler' = [handler EXCEPT ![s].at = "collect",
           ![s].message = PresenceUpdate(runtime[board[s]].participants)]
    /\ UNCHANGED <<shared, own, posts>>

Join(s) ==
    \/ JoinRefused(s)
    \/ JoinBoard(s)
    \/ Subscribe(s)
    \/ ReadSnapshot(s)
    \/ Respond(s)
    \/ ReadPresent(s)

-----------------------------------------------------------------------------
(* ClientSession::handle_operation *)

\* BoardRuntimeManager::apply_operation, which holds the runtime's mutex.
Verdict(s) ==
    LET r == handler[s].request
        current == runtime[r.board]
    IN  IF current.status = "closed" THEN "not_found"
        ELSE IF r.base # current.revision THEN "conflict"
        ELSE Failure(current.objects, r.command)

\* The row is inserted if it is not there: a deletion may have taken it away
\* without the runtime being told.
ApplyOperation(s) ==
    LET b == handler[s].request.board
        c == handler[s].request.command
        next == runtime[b].revision + 1
    IN  /\ At(s, "apply")
        /\ ~Deleting(b)
        /\ Verdict(s) = "ok"
        /\ rows' = rows \cup {b}
        /\ runtime' = [runtime EXCEPT ![b].revision = next,
                                      ![b].objects = Apply(@, c)]
        /\ handler' = [handler EXCEPT ![s].at = "collect",
               ![s].message = OperationApplied(b, next, Identity[s], c)]
        /\ UNCHANGED <<kept, subscribers, own, posts>>

\* An operation that would be accepted is refused if the role of the session
\* does not allow it, or if it cannot be persisted.
OperationRejected(s) ==
    /\ At(s, "apply")
    /\ ~Deleting(handler[s].request.board)
    /\ Answer(s, Error(IF Verdict(s) = "ok" THEN "refused" ELSE Verdict(s)))
    /\ UNCHANGED <<shared, own>>

-----------------------------------------------------------------------------
(* ClientSession::handle_delete_board *)

DeleteRefused(s) ==
    /\ At(s, "delete")
    /\ ~Deleting(handler[s].request.board) /\ ~Sharing(handler[s].request.board)
    /\ Answer(s, Error("refused"))
    /\ UNCHANGED <<shared, own>>

\* The COMMIT takes effect and its answer is lost: an error like any other, so
\* the runtime stays, and nobody is told that the rows are gone.
DeleteLost(s) ==
    LET b == handler[s].request.board IN
    /\ At(s, "delete")
    /\ ~Deleting(b) /\ ~Sharing(b)
    /\ Identity[s] \in Owners
    /\ b \in rows
    /\ rows' = rows \ {b}
    /\ Answer(s, Error("refused"))
    /\ UNCHANGED <<kept, runtime, subscribers, own>>

\* Faulty: the runtime is dropped without being closed.
DeleteRowsOnly(s) ==
    LET b == handler[s].request.board IN
    /\ At(s, "delete")
    /\ ~Deleting(b) /\ ~Sharing(b)
    /\ Identity[s] \in Owners
    /\ b \in rows
    /\ rows' = rows \ {b} /\ kept' = kept \ {b}
    /\ Goto(s, "close")
    /\ UNCHANGED <<runtime, subscribers, own, posts>>

\* The rows are deleted, the runtime leaves the registry and is closed.
DeleteRows(s) ==
    LET b == handler[s].request.board IN
    /\ At(s, "delete")
    /\ ~Deleting(b) /\ ~Sharing(b)
    /\ Identity[s] \in Owners
    /\ b \in rows
    /\ rows' = rows \ {b} /\ kept' = kept \ {b}
    /\ runtime' = [runtime EXCEPT ![b].participants = {},
                       ![b].status = IF @ = "open" THEN "closed" ELSE @]
    /\ Goto(s, "close")
    /\ UNCHANGED <<subscribers, own, posts>>

\* ServerState::close_board takes the subscribers away.
CloseBoard(s) ==
    LET b == handler[s].request.board IN
    /\ At(s, "close")
    /\ subscribers' = [subscribers EXCEPT ![b] = <<>>]
    /\ handler' = [handler EXCEPT ![s].at = "notify", ![s].to = subscribers[b]]
    /\ UNCHANGED <<rows, kept, runtime, own, posts>>

\* Faulty: the sessions are reset at once, not on their strands.
NotifyAtOnce(s) ==
    LET b == handler[s].request.board
        t == Head(handler[s].to)
    IN  /\ At(s, "notify")
        /\ handler[s].to # <<>>
        /\ board' = [board EXCEPT ![t] = IF @ = b THEN NoBoard ELSE @]
        /\ IF t = s THEN UNCHANGED posts ELSE Post(t, BoardDeleted(b))
        /\ handler' = [handler EXCEPT ![s].to = Tail(@)]
        /\ UNCHANGED <<shared, reading, ghost, asked>>

\* Everybody loses the board; all but the initiator are told.
Notify(s) ==
    LET b == handler[s].request.board
        t == Head(handler[s].to)
    IN  /\ At(s, "notify")
        /\ handler[s].to # <<>>
        /\ PostNotice(t, b, IF t = s THEN <<>> ELSE <<BoardDeleted(b)>>)
        /\ handler' = [handler EXCEPT ![s].to = Tail(@)]
        /\ UNCHANGED <<shared, own>>

Deleted(s) ==
    /\ At(s, "notify") /\ handler[s].to = <<>>
    /\ Answer(s, [type |-> "delete_board_response", board |-> handler[s].request.board])
    /\ UNCHANGED <<shared, own>>

Delete(s) ==
    \/ DeleteRefused(s)
    \/ DeleteLost(s)
    \/ DeleteRows(s)
    \/ CloseBoard(s)
    \/ Notify(s)
    \/ Deleted(s)

\* What is posted to a strand runs between its handlers, in order;
\* handle_board_deleted resets the session if it still is on that board.
RunPosted(s) ==
    LET first == Head(strand[s]) IN
    /\ At(s, "idle")
    /\ strand[s] # <<>>
    /\ strand' = [strand EXCEPT ![s] = Tail(@)]
    /\ IF first.type = "notice"
         THEN /\ board' = [board EXCEPT ![s] =
                     IF @ = first.board THEN NoBoard ELSE @]
              /\ UNCHANGED client
         ELSE Tell(s, first) /\ UNCHANGED board
    /\ UNCHANGED <<shared, reading, ghost, handler, asked>>

-----------------------------------------------------------------------------

\* What a session does of itself.
Step(s) ==
    \/ Leave(s) \/ Join(s) \/ Broadcast(s) \/ Delete(s)
    \/ ApplyOperation(s) \/ OperationRejected(s)
    \/ RunPosted(s)

Next ==
    \E s \in Sessions :
        \/ \E r \in Requests : Receive(s, r)
        \/ Disconnect(s)
        \/ Expire(s)
        \/ Step(s)

Spec == Init /\ [][Next]_vars

=============================================================================
