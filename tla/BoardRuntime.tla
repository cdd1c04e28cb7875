---------------------------- MODULE BoardRuntime ----------------------------
(***************************************************************************)
(* One board on the server: its rows in PostgreSQL (store), its in-memory  *)
(* runtime (runtime), the reader-writer mutex that orders the requests for *)
(* it, and the handlers, one per client session, that join it, apply       *)
(* operations to it and delete it.                                         *)
(*                                                                         *)
(* A handler runs on the strand of its session, so it does one request at  *)
(* a time, and handlers interleave wherever the code holds no mutex.       *)
(* BoardRuntimeManager::apply_operation holds the runtime's mutex from the *)
(* test of the revision to the assignment of the new snapshot, with the    *)
(* transaction in between, so it is one step; joining is three, for the    *)
(* board row, the object rows and the registry are visited one by one.     *)
(*                                                                         *)
(* A transaction commits, rolls back, or commits while its caller is told  *)
(* it failed: the connection may break after COMMIT was sent.  The server  *)
(* may crash between any two steps; its memory is lost, the rows are not.  *)
(***************************************************************************)
EXTENDS BoardObjects

CONSTANTS
    Handlers,       \* client sessions
    Editors,        \* those that join as owner or editor
    Owners,         \* those of the board's owner
    Commands,       \* the commands that clients send
    MaxRevision     \* bound: no operation is sent at this revision

ASSUME HandlersAssumption == Owners \subseteq Editors /\ Editors \subseteq Handlers
ASSUME CommandsAssumption == Commands \subseteq Command
ASSUME RevisionAssumption == MaxRevision \in Nat

VARIABLES
    store,      \* rows of boards, board_objects and board_operations
    runtime,    \* the BoardRuntimeManager of the board, if any
    epoch,      \* which mutex the coordinator's map holds: forget counts up
    mutex,      \* the mutex a handler got from the coordinator
    pc,         \* what each handler is about to do
    read,       \* what a joining handler has read from the store
    joined,     \* handlers whose session holds the runtime
    acked,      \* history: operations that were acknowledged to a client
    deletion    \* history: whether a delete was acknowledged, or committed
                \* behind the server's back

vars == <<store, runtime, epoch, mutex, pc, read, joined, acked, deletion>>

-----------------------------------------------------------------------------
(* State *)

\* A row of board_operations; its primary key is board id and revision.
LogEntry == [revision : Nat, command : Commands]

Snapshot == [revision : Nat, objects : Objects]

EmptySnapshot == [revision |-> 0, objects |-> NoObjects]

Store == [exists : BOOLEAN, snapshot : Snapshot, log : SUBSET LogEntry]

Runtime == [status : {"none", "open", "closed"}, snapshot : Snapshot]

NoRuntime == [status |-> "none", snapshot |-> EmptySnapshot]

NoRows == [exists |-> FALSE, snapshot |-> EmptySnapshot, log |-> {}]

Waiting == {"join_lock", "op_lock", "delete_lock"}
Shared == {"join_board", "join_objects", "join_install", "op_apply"}
Exclusive == {"delete_store", "delete_close"}

TypeOK ==
    /\ store \in Store
    /\ runtime \in Runtime
    /\ epoch \in Nat
    /\ mutex \in [Handlers -> Nat]
    /\ pc \in [Handlers -> {"idle"} \cup Waiting \cup Shared \cup Exclusive]
    /\ read \in [Handlers -> Snapshot]
    /\ joined \subseteq Handlers
    /\ acked \subseteq LogEntry
    /\ deletion \in {"none", "lost", "acked"}

\* A board just created: an empty row, no runtime.
Init ==
    /\ store = [exists |-> TRUE, snapshot |-> EmptySnapshot, log |-> {}]
    /\ runtime = NoRuntime
    /\ epoch = 0
    /\ mutex = [h \in Handlers |-> 0]
    /\ pc = [h \in Handlers |-> "idle"]
    /\ read = [h \in Handlers |-> EmptySnapshot]
    /\ joined = {}
    /\ acked = {}
    /\ deletion = "none"

Goto(h, there) == pc' = [pc EXCEPT ![h] = there]

\* The handler returns: its guard releases the mutex.
Finish(h) == Goto(h, "idle")

-----------------------------------------------------------------------------
(* BoardAccessCoordinator *)

\* mutex_for: the mutex in the map.  One nobody holds any more is replaced
\* by a new one, which nobody can tell from it.
GetMutex(h, there) ==
    /\ pc[h] = "idle"
    /\ mutex' = [mutex EXCEPT ![h] = epoch]
    /\ Goto(h, there)

\* Handlers inside the same mutex as h.
Companions(h) ==
    {g \in Handlers \ {h} : pc[g] \in Shared \cup Exclusive /\ mutex[g] = mutex[h]}

\* (Faulty: a shared lock is given while the exclusive one is held.)
LockAlways(h, there) ==
    /\ Goto(h, there)
    /\ UNCHANGED <<store, runtime, epoch, mutex, read, joined, acked, deletion>>

LockShared(h, there) ==
    /\ \A g \in Companions(h) : pc[g] \in Shared
    /\ Goto(h, there)
    /\ UNCHANGED <<store, runtime, epoch, mutex, read, joined, acked, deletion>>

LockExclusive(h, there) ==
    /\ Companions(h) = {}
    /\ Goto(h, there)
    /\ UNCHANGED <<store, runtime, epoch, mutex, read, joined, acked, deletion>>

-----------------------------------------------------------------------------
(* Joining: ClientSession::handle_join_board *)

\* leave_current_board comes first.
StartJoin(h) ==
    /\ GetMutex(h, "join_lock")
    /\ joined' = joined \ {h}
    /\ UNCHANGED <<store, runtime, epoch, read, acked, deletion>>

LockJoin(h) == pc[h] = "join_lock" /\ LockShared(h, "join_board")

\* The board is gone, the role is denied, or a query fails.
JoinRefused(h) ==
    /\ pc[h] \in {"join_board", "join_objects"}
    /\ Finish(h)
    /\ UNCHANGED <<store, runtime, epoch, mutex, read, joined, acked, deletion>>

JoinReadBoard(h) ==
    /\ pc[h] = "join_board"
    /\ store.exists
    /\ read' = [read EXCEPT ![h].revision = store.snapshot.revision]
    /\ Goto(h, "join_objects")
    /\ UNCHANGED <<store, runtime, epoch, mutex, joined, acked, deletion>>

\* A second query: nothing ties it to the transaction of the first.
JoinReadObjects(h) ==
    /\ pc[h] = "join_objects"
    /\ read' = [read EXCEPT ![h].objects = store.snapshot.objects]
    /\ Goto(h, "join_install")
    /\ UNCHANGED <<store, runtime, epoch, mutex, joined, acked, deletion>>

\* (Faulty: the registry replaces the runtime it has.)
Overwritten(old, snapshot) == [status |-> "open", snapshot |-> snapshot]

\* BoardRegistry::get_or_create: what was read counts only for a board that
\* has no runtime yet.
GetOrCreate(old, snapshot) ==
    IF old.status = "open" THEN old
    ELSE [status |-> "open", snapshot |-> snapshot]

JoinInstall(h) ==
    /\ pc[h] = "join_install"
    /\ runtime' = GetOrCreate(runtime, read[h])
    /\ joined' = joined \cup {h}
    /\ Finish(h)
    /\ UNCHANGED <<store, epoch, mutex, read, acked, deletion>>

\* handle_leave_board, the end of the connection, or on_board_deleted.
Leave(h) ==
    /\ pc[h] = "idle"
    /\ h \in joined
    /\ joined' = joined \ {h}
    /\ UNCHANGED <<store, runtime, epoch, mutex, pc, read, acked, deletion>>

-----------------------------------------------------------------------------
(* Operations: ClientSession::handle_operation *)

StartOperation(h) ==
    /\ h \in joined
    /\ GetMutex(h, "op_lock")
    /\ UNCHANGED <<store, runtime, epoch, read, joined, acked, deletion>>

LockOperation(h) == pc[h] = "op_lock" /\ LockShared(h, "op_apply")

\* closed_, the role, the revision and the command itself, as tested by
\* BoardRuntimeManager and OperationService.
OperationAccepted(h, base, c) ==
    /\ runtime.status = "open"
    /\ h \in Editors
    /\ base = runtime.snapshot.revision
    /\ Accepts(runtime.snapshot.objects, c)

\* The snapshot OperationService answers.
NextSnapshot(c) ==
    [revision |-> runtime.snapshot.revision + 1,
     objects |-> Apply(runtime.snapshot.objects, c)]

Entry(c) == [revision |-> runtime.snapshot.revision + 1, command |-> c]

\* The primary key of board_operations admits the entry.
Insertable(entry) == \A e \in store.log : e.revision # entry.revision

\* (Faulty: an object deleted leaves no entry in the log.)
PersistQuietly(c) ==
    /\ Insertable(Entry(c))
    /\ store' = [exists |-> TRUE, snapshot |-> NextSnapshot(c),
                 log |-> IF c.op = "delete_object" THEN store.log
                         ELSE store.log \cup {Entry(c)}]

\* The transaction of persist_applied_operation: the board row is inserted
\* or updated, the object rows replaced, the operation row inserted.
Persist(c) ==
    /\ Insertable(Entry(c))
    /\ store' = [exists |-> TRUE, snapshot |-> NextSnapshot(c),
                 log |-> store.log \cup {Entry(c)}]

OperationRejected(h, base, c) ==
    /\ pc[h] = "op_apply"
    /\ ~OperationAccepted(h, base, c)
    /\ Finish(h)
    /\ UNCHANGED <<store, runtime, epoch, mutex, read, joined, acked, deletion>>

\* (Faulty: the runtime keeps its old snapshot.)
ForgetfulCommitted(h, base, c) ==
    /\ pc[h] = "op_apply"
    /\ OperationAccepted(h, base, c)
    /\ Persist(c)
    /\ acked' = acked \cup {Entry(c)}
    /\ Finish(h)
    /\ UNCHANGED <<runtime, epoch, mutex, read, joined, deletion>>

OperationCommitted(h, base, c) ==
    /\ pc[h] = "op_apply"
    /\ OperationAccepted(h, base, c)
    /\ Persist(c)
    /\ runtime' = [runtime EXCEPT !.snapshot = NextSnapshot(c)]
    /\ acked' = acked \cup {Entry(c)}
    /\ Finish(h)
    /\ UNCHANGED <<epoch, mutex, read, joined, deletion>>

\* (Faulty: the snapshot is assigned, and the operation broadcast, whatever
\* the transaction answered.)
AdvancedAnyway(h, base, c) ==
    /\ pc[h] = "op_apply"
    /\ OperationAccepted(h, base, c)
    /\ runtime' = [runtime EXCEPT !.snapshot = NextSnapshot(c)]
    /\ acked' = acked \cup {Entry(c)}
    /\ Finish(h)
    /\ UNCHANGED <<store, epoch, mutex, read, joined, deletion>>

\* The transaction fails, for the database or for the primary key.
OperationRolledBack(h, base, c) ==
    /\ pc[h] = "op_apply"
    /\ OperationAccepted(h, base, c)
    /\ Finish(h)
    /\ UNCHANGED <<store, runtime, epoch, mutex, read, joined, acked, deletion>>

\* COMMIT took effect, its answer was lost: the client is told of an error
\* and the runtime stays where it was.
OperationLost(h, base, c) ==
    /\ pc[h] = "op_apply"
    /\ OperationAccepted(h, base, c)
    /\ Persist(c)
    /\ Finish(h)
    /\ UNCHANGED <<runtime, epoch, mutex, read, joined, acked, deletion>>

-----------------------------------------------------------------------------
(* Deletion: ClientSession::handle_delete_board *)

StartDelete(h) ==
    /\ GetMutex(h, "delete_lock")
    /\ UNCHANGED <<store, runtime, epoch, read, joined, acked, deletion>>

LockDelete(h) == pc[h] = "delete_lock" /\ LockExclusive(h, "delete_store")

\* BoardService::delete_board holds the service's mutex alone, join_board
\* holds it shared while it reads.  Calls for other boards hold it too, and
\* may make a delete wait as long as they like, which no property here minds:
\* a delete need not go on.  Locks is about who waits for whom.
ServiceIdle == \A g \in Handlers : pc[g] # "join_objects"

\* (Faulty: the mutex of a board is forgotten whether it was deleted or not.)
RefusedAndForgotten(h) ==
    /\ pc[h] = "delete_store"
    /\ epoch' = epoch + 1
    /\ Finish(h)
    /\ UNCHANGED <<store, runtime, mutex, read, joined, acked, deletion>>

\* No such board, not its owner, or the transaction rolled back.
DeleteRefused(h) ==
    /\ pc[h] = "delete_store"
    /\ ServiceIdle
    /\ Finish(h)
    /\ UNCHANGED <<store, runtime, epoch, mutex, read, joined, acked, deletion>>

\* delete_board_cascade committed.
DeleteRows(h) ==
    /\ pc[h] = "delete_store"
    /\ ServiceIdle
    /\ h \in Owners
    /\ store.exists
    /\ store' = NoRows

DeleteCommitted(h) ==
    /\ DeleteRows(h)
    /\ deletion' = "acked"
    /\ Goto(h, "delete_close")
    /\ UNCHANGED <<runtime, epoch, mutex, read, joined, acked>>

\* Committed, but the owner is told of an error and the runtime stays open.
DeleteLost(h) ==
    /\ DeleteRows(h)
    /\ deletion' = "lost"
    /\ Finish(h)
    /\ UNCHANGED <<runtime, epoch, mutex, read, joined, acked>>

\* (Faulty: the runtime leaves the registry and is not closed.)
Unregistered(r) == r

\* BoardRegistry::remove closes the runtime that sessions still hold.
Closed(r) ==
    IF r.status = "open"
      THEN [status |-> "closed", snapshot |-> r.snapshot] ELSE r

\* ServerState::close_board.
DeleteClose(h) ==
    /\ pc[h] = "delete_close"
    /\ runtime' = Closed(runtime)
    /\ epoch' = epoch + 1
    /\ Finish(h)
    /\ UNCHANGED <<store, mutex, read, joined, acked, deletion>>

-----------------------------------------------------------------------------
(* The process dies and is started again. *)

Crash ==
    /\ runtime' = NoRuntime
    /\ epoch' = 0
    /\ mutex' = [h \in Handlers |-> 0]
    /\ pc' = [h \in Handlers |-> "idle"]
    /\ read' = [h \in Handlers |-> EmptySnapshot]
    /\ joined' = {}
    /\ UNCHANGED <<store, acked, deletion>>

-----------------------------------------------------------------------------

Join(h) ==
    \/ LockJoin(h)
    \/ JoinRefused(h)
    \/ JoinReadBoard(h)
    \/ JoinReadObjects(h)
    \/ JoinInstall(h)

Operation(h) ==
    \/ LockOperation(h)
    \/ \E base \in 0 .. MaxRevision, c \in Commands :
         \/ OperationRejected(h, base, c)
         \/ base < MaxRevision /\ \/ OperationCommitted(h, base, c)
                                  \/ OperationRolledBack(h, base, c)
                                  \/ OperationLost(h, base, c)

Delete(h) ==
    \/ LockDelete(h)
    \/ DeleteRefused(h)
    \/ DeleteCommitted(h)
    \/ DeleteLost(h)
    \/ DeleteClose(h)

Request(h) == StartJoin(h) \/ StartOperation(h) \/ StartDelete(h) \/ Leave(h)

Next ==
    \/ \E h \in Handlers : Request(h) \/ Join(h) \/ Operation(h) \/ Delete(h)
    \/ Crash

Spec == Init /\ [][Next]_vars

-----------------------------------------------------------------------------
(* Safety *)

\* The store holds one operation that the runtime does not know of and that
\* nobody was told of.
OneAhead ==
    \E c \in Commands :
        /\ Accepts(runtime.snapshot.objects, c)
        /\ store.snapshot = NextSnapshot(c)
        /\ Entry(c) \in store.log \ acked

\* Whatever transactions fail and however joins, operations and deletes
\* interleave, the snapshot the server hands out is the one in the database,
\* or the database has exactly one more operation: one whose COMMIT took
\* effect while apply_operation was told it failed.
RuntimeMatchesStore ==
    (runtime.status = "open" /\ store.exists)
        => runtime.snapshot = store.snapshot \/ OneAhead

\* A joining session reads the revision and the objects in two queries, and
\* hands both to get_or_create later.  If they are going to be the board's
\* new runtime, then they still are what the database holds, and belong
\* together.
FreshInstall ==
    \A h \in Handlers :
        (pc[h] = "join_install" /\ runtime.status # "open")
            => store.exists /\ read[h] = store.snapshot

\* An operation whose author was told "applied" stays in the log of the
\* database, crashes included, as long as nothing deleted the board; and no
\* revision is ever acknowledged for two operations.
AckedIsDurable ==
    /\ deletion = "none" => acked \subseteq store.log
    /\ \A e, f \in acked : e.revision = f.revision => e = f

\* The deletion that the server knows of is final: no join, no operation of a
\* session that still holds the runtime, and no restart brings the row back,
\* although persisting an operation inserts the board row if it is missing.
DeletedStaysDeleted == deletion = "acked" => ~store.exists

\* The command that the log has for a revision.
Logged(log, n) == (CHOOSE e \in log : e.revision = n).command

\* The objects that the first n commands of the log lead to.
Replay(log, n) ==
    LET after[k \in 0 .. n] ==
          IF k = 0 THEN NoObjects ELSE Apply(after[k - 1], Logged(log, k))
    IN  after[n]

\* The operation log explains the objects.  As long as no delete took effect,
\* it has one command for every revision up to last_revision, each would be
\* accepted where it stands, and together they lead to the rows of
\* board_objects, whichever transactions failed or lost their answer.
LogExplainsObjects ==
    (store.exists /\ deletion = "none") =>
        /\ {e.revision : e \in store.log} = 1 .. store.snapshot.revision
        /\ \A e, f \in store.log : e.revision = f.revision => e = f
        /\ \A n \in 1 .. store.snapshot.revision :
             Accepts(Replay(store.log, n - 1), Logged(store.log, n))
        /\ Replay(store.log, store.snapshot.revision) = store.snapshot.objects

\* Forgetting the mutex of a deleted board lets later requests make a second
\* one.  While the board can still be seen, nobody works on it beside an
\* exclusive handler, whichever mutex each of them holds.
ExclusiveWhileAlive ==
    (store.exists \/ runtime.status = "open")
        => \A g, h \in Handlers :
             (g # h /\ pc[g] \in Exclusive) => pc[h] \notin Shared \cup Exclusive

-----------------------------------------------------------------------------
(* Refinement: what users see is the runtime if there is one, else the      *)
(* rows.  An operation that only the database knows of is seen as a late    *)
(* edit when the server restarts, a delete that only the database knows of  *)
(* as a late destruction.                                                   *)

Visible == runtime.status = "open" \/ store.exists

View ==
    IF runtime.status = "open" THEN runtime.snapshot
    ELSE IF store.exists THEN store.snapshot ELSE EmptySnapshot

Promise == INSTANCE SharedBoard
    WITH Blank <- NoObjects,
         alive <- Visible, revision <- View.revision, objects <- View.objects

\* Through every interleaving, failed or lost transaction and restart, users
\* of the board see one accepted command at a time, in the order of the
\* revisions, and nothing after its destruction.
KeepsPromise == Promise!Spec

=============================================================================
