----------------------------- MODULE Transport -----------------------------
(***************************************************************************)
(* How messages get from the server to a client: the acceptor, the queue   *)
(* of outgoing messages of a ClientSession, the connection, and the buffer *)
(* in which the client's ServerConnection puts lines together again.       *)
(*                                                                         *)
(* One client connects, loses its connection, and connects again; its      *)
(* connections are numbered, and each has a session of its own on the      *)
(* server.  A message travels in two pieces, the second of which ends with *)
(* the line.  A strand runs the tasks posted to it in their order, and the *)
(* completions of reads and writes between them.                           *)
(*                                                                         *)
(* The server may be told to stop at any time.  What requests say, and who *)
(* posts an answer, is left to the other modules: here anybody may post.   *)
(***************************************************************************)
EXTENDS Naturals, Sequences, SequencesExt

CONSTANTS
    MaxLinks,       \* bound: connections of the client, one after the other
    MaxPosted       \* bound: messages posted to each session

ASSUME BoundsAssumption == MaxLinks \in Nat /\ MaxPosted \in Nat

Links == 1 .. MaxLinks

\* Messages are told apart by their connection and their number.
Messages == Links \X (1 .. MaxPosted)

\* The task of a session that is told to stop; there is no connection 0.
Stop == <<0, 0>>

VARIABLES
    server,         \* it accepts, has closed the acceptor, or told sessions to stop
    phase,          \* how far the server has come with each connection
    tracked,        \* sessions_ of JsonTcpServer
    collected,      \* sessions that stop() has found there
    tasks,          \* what is posted to the strand of each session
    outgoing,       \* its queue of messages
    write,          \* its async_write: how much is written, or that it failed
    stopped,        \* stopped_: its socket is closed
    wire,           \* pieces on their way to the client
    link,           \* the connection of the client, 0 for none
    buffer,         \* buffer_ of the client
    heard,          \* history: messages the client was given, by connection
    posted,         \* history: messages posted, by connection
    spoiled         \* history: connections begun with a buffer in use

vars == <<server, phase, tracked, collected, tasks, outgoing, write, stopped, wire,
          link, buffer, heard, posted, spoiled>>

acceptor == <<server, phase, tracked, collected>>
session == <<tasks, outgoing, write, stopped>>
client == <<link, buffer, heard, spoiled>>

-----------------------------------------------------------------------------
(* Pieces *)

Pieces(m) == << <<m, "head">>, <<m, "tail">> >>

EndsLine(piece) == piece[2] = "tail"

-----------------------------------------------------------------------------
(* Accepting and stopping: JsonTcpServer *)

\* The client connects: the kernel takes it while the acceptor is open.
Connect(k) ==
    /\ link = 0
    /\ server = "accepting"
    /\ phase[k] = "none"
    /\ \A j \in 1 .. k - 1 : phase[j] # "none"
    /\ phase' = [phase EXCEPT ![k] = "waiting"]
    /\ link' = k
    /\ spoiled' = IF buffer = <<>> THEN spoiled ELSE spoiled \cup {k}
    /\ UNCHANGED <<server, tracked, collected, session, wire, buffer, heard, posted>>

\* async_accept completes, of which there is one at a time.
Accept(k) ==
    /\ server = "accepting"
    /\ phase[k] = "waiting"
    /\ \A j \in Links : phase[j] # "accepted"
    /\ phase' = [phase EXCEPT ![k] = "accepted"]
    /\ UNCHANGED <<server, tracked, collected, session, wire, client, posted>>

\* Its handler makes a session, tracks it and starts it.
TrackAndStart(k) ==
    /\ phase[k] = "accepted"
    /\ phase' = [phase EXCEPT ![k] = "started"]
    /\ tracked' = tracked \cup {k}
    /\ UNCHANGED <<server, collected, session, wire, client, posted>>

\* stop() closes the acceptor; nobody who waits is accepted any more.
StopAccepting ==
    /\ server = "accepting"
    /\ server' = "closed"
    /\ UNCHANGED <<phase, tracked, collected, session, wire, client, posted>>

\* (Faulty: a session that has something to write is left alone.)
CollectQuiet ==
    /\ server = "closed"
    /\ server' = "told"
    /\ collected' = tracked
    /\ tasks' = [k \in Links |->
                   IF k \in tracked /\ outgoing[k] = <<>> THEN Append(tasks[k], Stop)
                   ELSE tasks[k]]
    /\ UNCHANGED <<phase, tracked, outgoing, write, stopped, wire, client, posted>>

\* Then it posts a cleanup to every session that is tracked and alive.
Collect ==
    /\ server = "closed"
    /\ server' = "told"
    /\ collected' = tracked
    /\ tasks' = [k \in Links |-> IF k \in tracked THEN Append(tasks[k], Stop) ELSE tasks[k]]
    /\ UNCHANGED <<phase, tracked, outgoing, write, stopped, wire, client, posted>>

-----------------------------------------------------------------------------
(* Sessions: ClientSession *)

\* send_json
Post(k) ==
    /\ phase[k] = "started"
    /\ Len(posted[k]) < MaxPosted
    /\ LET m == <<k, Len(posted[k]) + 1>> IN
         /\ posted' = [posted EXCEPT ![k] = Append(@, m)]
         /\ tasks' = [tasks EXCEPT ![k] = Append(@, m)]
    /\ UNCHANGED <<acceptor, outgoing, write, stopped, wire, client>>

\* cleanup: the socket is closed, and what is not written yet never will be.
Cleanup(k) == stopped' = [stopped EXCEPT ![k] = TRUE]

\* (Faulty: every message starts a write.)
NeedsWriteAlways(k) == TRUE

\* The queue was empty before the message.
NeedsWrite(k) == outgoing[k] = <<>>

RunSend(k) ==
    /\ tasks[k] # <<>>
    /\ Head(tasks[k]) # Stop
    /\ tasks' = [tasks EXCEPT ![k] = Tail(@)]
    /\ outgoing' = [outgoing EXCEPT ![k] = Append(@, Head(tasks[k]))]
    /\ write' = IF NeedsWrite(k) THEN [write EXCEPT ![k] = "begun"] ELSE write
    /\ UNCHANGED <<acceptor, stopped, wire, client, posted>>

RunStop(k) ==
    /\ tasks[k] # <<>>
    /\ Head(tasks[k]) = Stop
    /\ tasks' = [tasks EXCEPT ![k] = Tail(@)]
    /\ Cleanup(k)
    /\ UNCHANGED <<acceptor, outgoing, write, wire, client, posted>>

\* async_write writes the front of the queue piece by piece.
WritePiece(k) ==
    /\ ~stopped[k]
    /\ link = k
    /\ LET pieces == Pieces(Head(outgoing[k])) IN
         \/ /\ write[k] = "begun"
            /\ wire' = [wire EXCEPT ![k] = Append(@, pieces[1])]
            /\ write' = [write EXCEPT ![k] = "half"]
         \/ /\ write[k] = "half"
            /\ wire' = [wire EXCEPT ![k] = Append(@, pieces[2])]
            /\ write' = [write EXCEPT ![k] = "whole"]
    /\ UNCHANGED <<acceptor, tasks, outgoing, stopped, client, posted>>

\* It fails when the socket is closed or the client is gone: the message
\* stays in the queue, so that no other write is ever started.
WriteFailed(k) ==
    /\ write[k] \in {"begun", "half"}
    /\ stopped[k] \/ link # k
    /\ write' = [write EXCEPT ![k] = "failed"]
    /\ Cleanup(k)
    /\ UNCHANGED <<acceptor, tasks, outgoing, wire, client, posted>>

\* (Faulty: the next message waits for another to be posted.)
WrittenAndIdle(k) ==
    /\ write[k] = "whole"
    /\ outgoing' = [outgoing EXCEPT ![k] = Tail(@)]
    /\ write' = [write EXCEPT ![k] = "none"]
    /\ UNCHANGED <<acceptor, tasks, stopped, wire, client, posted>>

\* The message was written, perhaps just before the socket was closed.
Written(k) ==
    /\ write[k] = "whole"
    /\ outgoing' = [outgoing EXCEPT ![k] = Tail(@)]
    /\ write' = [write EXCEPT ![k] = IF Len(outgoing[k]) > 1 THEN "begun" ELSE "none"]
    /\ UNCHANGED <<acceptor, tasks, stopped, wire, client, posted>>

\* The pending read ends when the client is gone.
ReadFailed(k) ==
    /\ phase[k] = "started"
    /\ link # k
    /\ ~stopped[k]
    /\ Cleanup(k)
    /\ UNCHANGED <<acceptor, tasks, outgoing, write, wire, client, posted>>

-----------------------------------------------------------------------------
(* The client: ServerConnection *)

\* handle_ready_read: a line is a message if it holds one; it is taken for
\* garbage if it begins with what an earlier connection left.
Read(k) ==
    /\ link = k
    /\ wire[k] # <<>>
    /\ wire' = [wire EXCEPT ![k] = Tail(@)]
    /\ LET piece == Head(wire[k])
           line == Append(buffer, piece)
       IN  /\ buffer' = IF EndsLine(piece) THEN <<>> ELSE line
           /\ heard' = IF line = Pieces(piece[1])
                         THEN [heard EXCEPT ![k] = Append(@, piece[1])] ELSE heard
    /\ UNCHANGED <<acceptor, session, link, posted, spoiled>>

\* The connection breaks: pieces that are not read yet are lost.
Break(k) ==
    /\ link = k
    /\ link' = 0
    /\ wire' = [wire EXCEPT ![k] = <<>>]
    /\ UNCHANGED <<acceptor, session, buffer, heard, posted, spoiled>>

\* disconnect_from_server
Logout(k) ==
    /\ link = k
    /\ link' = 0
    /\ buffer' = <<>>
    /\ wire' = [wire EXCEPT ![k] = <<>>]
    /\ UNCHANGED <<acceptor, session, heard, posted, spoiled>>

-----------------------------------------------------------------------------

Init ==
    /\ server = "accepting"
    /\ phase = [k \in Links |-> "none"]
    /\ tracked = {}
    /\ collected = {}
    /\ tasks = [k \in Links |-> <<>>]
    /\ outgoing = [k \in Links |-> <<>>]
    /\ write = [k \in Links |-> "none"]
    /\ stopped = [k \in Links |-> FALSE]
    /\ wire = [k \in Links |-> <<>>]
    /\ link = 0
    /\ buffer = <<>>
    /\ heard = [k \in Links |-> <<>>]
    /\ posted = [k \in Links |-> <<>>]
    /\ spoiled = {}

\* What the threads of the server, and the client's event loop, get to do.
Work(k) ==
    \/ Accept(k) \/ TrackAndStart(k)
    \/ RunSend(k) \/ RunStop(k)
    \/ WritePiece(k) \/ WriteFailed(k) \/ Written(k) \/ ReadFailed(k)
    \/ Read(k)

Next ==
    \/ StopAccepting \/ Collect
    \/ \E k \in Links : Connect(k) \/ Post(k) \/ Work(k) \/ Break(k) \/ Logout(k)

Spec == Init /\ [][Next]_vars

\* The workers of io_context run whatever is ready, and stop() goes on;
\* nobody has to connect, post or break a connection.
FairSpec ==
    /\ Spec
    /\ WF_vars(Collect)
    /\ \A k \in Links : WF_vars(Work(k))

-----------------------------------------------------------------------------
(* Correctness *)

\* What a client has heard on a connection is what was posted to it, whole
\* and in the order of the posts, up to some message.  The one exception is
\* a connection begun with a part of a line still in the buffer, because the
\* one before broke and connect_to_server does not clear it: the first
\* message is then lost, and no more than that.
WholeAndInOrder ==
    \A k \in Links :
        IsPrefix(heard[k],
                 IF k \in spoiled /\ posted[k] # <<>> THEN Tail(posted[k]) ELSE posted[k])

\* A message posted to a session reaches the client if the connection lasts,
\* unless it is the one message that a used buffer loses: the queue never
\* waits for a write that nobody starts.
NothingStuck ==
    \A k \in Links, n \in 1 .. MaxPosted :
        Len(posted[k]) >= n ~>
            \/ stopped[k] \/ link # k
            \/ n = 1 /\ k \in spoiled
            \/ \E i \in DOMAIN heard[k] : heard[k][i] = <<k, n>>

\* When the server is told to stop, every session it tracks by then closes
\* its socket, whatever it is doing.  A session that is tracked later, by the
\* handler of an accept that was completed before, is not among them.
ShutdownReachesAll == \A k \in Links : k \in collected ~> stopped[k]

=============================================================================
