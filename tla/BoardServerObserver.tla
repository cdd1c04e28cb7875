------------------------ MODULE BoardServerObserver ------------------------
(***************************************************************************)
(* What a client can tell from the messages of BoardServer, and what the   *)
(* server promises it.  The client here only listens: it remembers as much *)
(* of what it was told as the properties ask for.                          *)
(***************************************************************************)
EXTENDS BoardServer

Nothing == [answer |-> "none", on |-> NoBoard, revision |-> 0, replies |-> 0,
            heard |-> {}, later |-> <<>>, gone |-> {}, toolate |-> FALSE]

\* The answers that tell a client where it is.
Answers == {"join_response", "leave_board_response", "board_deleted",
            "delete_board_response", "error"}

IsReply(s, m) ==
    \/ m.type \in Answers \ {"board_deleted"}
    \/ m.type = "operation_applied" /\ m.actor = Identity[s]

Answered(k, m) ==
    CASE m.type = "join_response" ->
           [k EXCEPT !.answer = m.type, !.on = m.board, !.revision = m.revision,
                     !.later = <<>>]
      [] m.type = "board_deleted" ->
           [k EXCEPT !.answer = m.type, !.gone = @ \cup {m.board}]
      [] m.type \in Answers \ {"join_response", "board_deleted"} ->
           [k EXCEPT !.answer = m.type]
      [] m.type = "operation_applied" ->
           [k EXCEPT !.heard = @ \cup {<<m.board, m.revision>>},
                     !.later = Append(@, m.revision),
                     !.toolate = @ \/ m.board \in k.gone]

\* Lists of participants are not remembered.
Remember(s, k, m) ==
    IF m.type = "presence_update" THEN k
    ELSE [Answered(k, m) EXCEPT !.replies = @ + (IF IsReply(s, m) THEN 1 ELSE 0)]

-----------------------------------------------------------------------------
(* "At rest" means that every handler has returned and every posted call    *)
(* has run, whatever clients do next.                                       *)

AtRest ==
    \A s \in Sessions : At(s, "idle") /\ strand[s] = <<>>

Members(b) == {s \in Sessions : board[s] = b}

\* Sessions that joined the board after their connection had ended, and that
\* no deletion of the board made up for.
Ghosts(b) == {s \in Sessions : ghost[s] = b /\ b \in kept}

\* Once the handlers are done, the three places that know who is on a board
\* agree, however their joins, leaves, disconnects and the board's deletion
\* interleaved: the sessions themselves, the subscriptions (each session
\* once), and the participants of the runtime, if every session has a
\* principal of its own.  The participants have one more kind of entry: the
\* principal of a session that was destroyed on the board stays.  It is there
\* for that reason only: nobody is listed who neither is on the board nor was
\* when its session was destroyed, and nobody who is on it is missing.
PresenceAtRest ==
    AtRest => \A b \in Boards :
        /\ Range(subscribers[b]) = Members(b)
        /\ Len(subscribers[b]) = Cardinality(Members(b))
        /\ IsInjective(Identity) =>
             runtime[b].participants = {Identity[s] : s \in Members(b) \cup Ghosts(b)}

\* A client that a join was the last answer to, and that still is connected,
\* is on the board it thinks it is on, and no deletion of that board, whoever
\* did it and whatever it raced with, has escaped it, if the server knew of
\* the deletion.  One whose COMMIT took effect and was answered by an error
\* is told to nobody: such a board is not in rows, but it is in kept.
ClientKnowsItsBoard ==
    AtRest => \A s \in Sessions :
        (reading[s] = "open" /\ client[s].answer = "join_response") =>
            board[s] = client[s].on /\ client[s].on \in kept

\* A client that has been told of the deletion of a board is not on it any
\* more, so that an operation it sends then is denied; and no operation on
\* that board is broadcast to it after that.
NothingAfterDeletion ==
    \A s \in Sessions : board[s] \notin client[s].gone /\ ~client[s].toolate

\* Every operation on a board reaches every session on it, in the snapshot
\* that the session joined with or as a message of its own.
NoneLost ==
    AtRest => \A s \in Sessions : board[s] # NoBoard =>
        \A r \in (client[s].revision + 1) .. runtime[board[s]].revision :
            <<board[s], r>> \in client[s].heard

\* Every request gets exactly one reply, in the worst case an error; the
\* reply to an operation is its own broadcast, so its author is always among
\* the recipients.  A client that waits for the reply before it sends its
\* next operation is never left waiting.
EveryRequestAnswered ==
    (AtRest /\ IsInjective(Identity)) =>
        \A s \in Sessions : client[s].replies = asked[s]

-----------------------------------------------------------------------------
(* What the documentation leads one to expect, and the code does not do.    *)

\* A client that joined gets, after the snapshot, every later operation: what
\* it draws from the snapshot and then from the messages is what the board has.
LaterOperationsFollow ==
    AtRest => \A s \in Sessions : board[s] # NoBoard =>
        \A r \in (client[s].revision + 1) .. runtime[board[s]].revision :
            r \in Range(client[s].later)

=============================================================================
