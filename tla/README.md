# A formal model of Dosochka

Dosochka is a whiteboard that several people draw on at the same time: a server
(Boost.Asio, PostgreSQL or in-memory storage) and a Qt client. This directory
holds TLA+ modules that model the server, what travels between server and client,
and what the client does with it, the TLC configurations that check them on
small instances, and TLAPS proofs of the results that hold for every instance.
Paths below are relative to the repository's root. `PROJECT.json` maps every
definition to the lines it models.

    tlc -workers 2 -config MCBoardRuntime.cfg MCBoardRuntime.tla
    tlapm BoardRuntimeProofs.tla

Contents: 1 the system, 2 the modules, 3 the runs, 4 the findings, 5 the proofs,
6 what is not modelled, 7 the plan.

## 1. The system

### Parts, their state, their operations

| part | state | operations |
| --- | --- | --- |
| domain, `BoardStateService`, `OperationService` (`libs/domain`, `libs/application/src/board_state_*`) | `BoardSnapshot`: revision, objects, participants | eleven commands: begin/append/end stroke, create and change shapes and texts, resize, delete; each validated against the objects |
| `BoardRuntimeManager`, `BoardRegistry` (`libs/runtime`) | one runtime per board in use: board row, snapshot, `closed_`; the registry's map | `get_or_create`, `apply_operation`, `join/leave_participant`, `snapshot`, `close`, `remove` |
| PostgreSQL persistence (`libs/persistence/src/postgres`) | rows of users, sessions, boards, members, objects, operations | a transaction that persists an operation, one that creates and one that deletes a board; single queries |
| `BoardAccessCoordinator` (`apps/server/src/core`) | a map from boards to reader-writer mutexes | `lock_shared` (join, operation), `lock_exclusive` (delete), `forget` |
| `ServerState` (`apps/server/src/core`) | the subscriptions: for each board, a list of weak pointers to sessions | `subscribe`, `unsubscribe`, `broadcast`, `broadcast_presence`, `close_board` |
| `ClientSession` (`apps/server/src/session`) | principal, `joined_board_id_`, `runtime_`, `joined_role_`, outgoing queue, `stopped_` | a handler per message; `cleanup`; `on_board_deleted`, `send_json` posted to its strand |
| `BoardService`, `BoardAccessService` (`libs/application`) | none of their own (one shared mutex for the calls of all boards) | create, join, delete, settings, members, roles |
| `PresenceService` | the participants of a runtime, keyed by principal | join, leave, list |
| `AuthService`, `SecurityPrimitives` | users, password hashes, sessions with an expiry; a prefix and counters for identifiers and tokens | register, login, guest, restore |
| JSON protocol, rows (`apps/server/src/protocol`, `postgres_json.cpp`, `client_json.cpp`) | none: three writers and three readers of the same things | every command, object, operation and board to and from JSON and rows |
| `JsonTcpServer`, `ServerConnection` (transport) | acceptor, tracked sessions, queue of outgoing messages; the client's buffer | accept, stop, post, write, read lines |
| Qt client (`apps/client-qt/src/session`, `network`) | open board, snapshot, queue of own operations, `awaiting_operation_ack_` | what the user does; what each message does; a retry timer |
| Qt user interface | canvas, pages | mouse input, painting |

### How they interact

A client sends one JSON object per line. Its session handles them one at a time
on its strand; strands run on a pool of threads, so handlers of different
sessions interleave between any two visits to something they share. There are
six kinds of mutex on the way: that of the coordinator's map, the board's
reader-writer mutex (held shared by joins and operations, alone by deletes, not at all
by leaves), the service's (shared by joins and lists, alone for changes), the registry's,
the runtime's, and that of the subscriptions. Those of a board and of a runtime exist once
per board; the others belong to all boards. An operation is tested and persisted under the runtime's mutex,
and broadcast after that mutex is released; recipients are collected under the
subscriptions' mutex and the message is posted to the strand of each of them.

A Qt client shows nothing of its own: what a user draws is queued, sent one
operation at a time with the revision the client holds, and drawn when the
server broadcasts it. The broadcast is the acknowledgement. A conflict (another
revision is current) is retried, any other error discards the front operation
and what is queued behind it for the same object.

### What is hard in it

* interleavings: joins with joins, leaves, operations and deletions of one
  board; a deleted board's mutex is forgotten while sessions wait for it;
* stale reads: a join reads the board by two queries and installs it later; the
  snapshot and the list of participants are read before they are posted;
* partial failures: a transaction that commits while its caller is told it did
  not; a deletion likewise; a crash between commit and broadcast;
* order: two operations can be posted to a client in the wrong order; a notice
  of deletion meets a session in the middle of a request;
* retries: conflicts, answers matched by type and object, errors that belong to
  another request;
* the end of a connection while requests of it still are to be handled, in the middle
  of a line, or while the server stops;
* mutexes: handlers hold one while they wait for another, and each kind of handler
  takes them in an order of its own;
* copies: the runtime has a copy of the board's row and a session of its role, while
  `BoardService` can change settings and members; a change of settings writes the whole row
  that it read;
* conversions: what three hand-written parsers and serialisers must agree on, field
  by field, for a board to survive a restart and to be the same for everybody;
* identity: statements of one registration that fail apart, identifiers that must be
  new across restarts, a session that signs in as somebody else while on a board.

`PROJECT.json` lists these hazards line by line, with the properties that watch
them, or why none does yet.

### What makes each part correct

* objects: data that validation refuses never gets on a board; a deleted object
  stays deleted; strokes only grow, and not after their end; commands on
  different objects commute.
* runtime and persistence: memory and database agree; what was acknowledged
  survives; the log explains the objects; a deleted board stays deleted; users
  see one accepted command after the other.
* sessions: sessions, subscriptions and participants agree on who is on a
  board, but for sessions that were destroyed on it; every request is answered once; no
  operation is lost on the way to somebody on the board; a deletion that the server knows to
  have succeeded reaches everybody, and nothing comes after.
* mutexes: no set of handlers waits for each other, and every handler returns when no
  more requests come.
* client: it shows what the board has; what its user draws gets through as a
  whole; it is never left waiting.
* conversions: the log tells what was meant, the rows are what the log makes of an
  empty board, a restart is invisible, followers and newcomers see the same.
* board service: settings always fit together; a deletion that was answered is final; a
  session has the role its membership gives; settings and revision of the row are not lost.
* accounts: what was answered stays true; who is listed is there, or one of the two known
  ways of being left behind accounts for it.
* transport: messages arrive whole, in order, and none is left behind; a stop
  reaches everybody.

## 2. The modules

| module | models | state and actions |
| --- | --- | --- |
| `BoardObjects` | commands, objects, validation, application | operators only: `Failure(objects, c)` is "ok" or the error code, in the order in which the code tests; `Apply(objects, c)` the result |
| `BoardState` | a board that any commands are applied to | `boardObjects`; `ApplyCommand` |
| `BoardRuntime` | one board on the server: rows, runtime, registry, coordinator, handlers, transactions, crashes | see below |
| `SharedBoard` | what a board promises its users | `alive`, `revision`, `objects`; `Edit`, `Destroy` |
| `BoardServer` | sessions, subscriptions, presence, broadcasts, deletion notices | see below |
| `BoardServerObserver` | a client that only listens, and the properties of what it hears | operators: `Remember`; properties |
| `Locks` | the mutexes of the server: handlers as sequences of locks, run by worker threads on several boards | `todo`, `held`, `got`, `generation`; `Begin`, `Take`, `Release`, `GetMutex`, `ForgetMutex`, `Return` |
| `BoardSession` | the Qt client's session state and its handlers | operators on a record: `EnqueueOperations`, `Handle`, `TimerFires` |
| `Collaboration` | `BoardServer` with a `BoardSession` on each session | users' gestures, delivery, timers |
| `BoardWire` | commands, objects, operations and boards as JSON and as rows | writers and readers for each; `Receive` is the whole way of a command, `Restart` reads the rows; the objects in memory are a `BoardState` (`Life`) |
| `BoardAccess` | `BoardService`: settings, members, roles, joins, deletion; the copies of row and role | see below |
| `Accounts` | `AuthService`, identifiers, principals on a board | see below |
| `Transport` | acceptor, stop, strand, queue, connection, the client's buffer | see below |
| `BoardStateProofs`, `BoardWireProofs`, `BoardRuntimeProofs`, `BoardServerProofs`, `CollaborationProofs`, `BoardAccessProofs`, `AccountsProofs`, `TransportProofs` | | proofs |
| `MC*` | | constants of the runs |

**BoardObjects.** Identifiers, positions, sizes, styles, texts and points are sets
of abstract values, and `Invalid` stands for data that the validation refuses (an
empty text, a size that is not positive). Styles are one value: colour,
thickness, font and the numbers among them are not told apart. Left out: z order and
timestamps, which no test looks at, and the role test, which is made where roles
are (`BoardRuntime`, `BoardServer`).

**BoardRuntime.** `store` is the board's row, its object rows and its operation
rows; `runtime` the `BoardRuntimeManager`, `"closed"` once it left the registry
while sessions may hold it; `mutex[h]` says which mutex a handler got from the
coordinator, and `epoch` which one its map holds. A handler's `pc` is where it
stands. `apply_operation` holds the runtime's mutex from the first test to the last
assignment and is one step; a join is three (the board row, the object rows, the
registry), a delete two (the transaction; closing the runtime, the subscriptions
and forgetting the mutex). Every transaction has three outcomes: committed,
rolled back, committed but reported as failed (`OperationLost`, `DeleteLost`).
`Crash` keeps only the rows, at any point. Sessions that hold a closed runtime
keep it: their operations must be refused by it.

**BoardServer.** `handler[s]` is what session `s` is doing: where it stands, for
which request, with which message still to be posted to whom. Each visit to the
runtime, the subscriptions or another session's strand is a step. `strand[t]` holds
what was posted to a session behind a notice of deletion; without one a message
counts as heard when it is posted (nothing on the server depends on when a message is
written). The notice runs between the session's own handlers (`RunPosted`). After `cleanup` (`Disconnect`) a session may still handle the read that had completed and every
line that had come with it (`reading = "last"`), as `do_read` does; then it is destroyed
(`Expire`). A board it joined meanwhile is never left: its subscription is a weak pointer and
expires, its principal stays among the participants. `ghost` remembers where. The mutex of `BoardRuntime` appears
as two guards, `Deleting(b)` and `Sharing(b)`, derived from where handlers stand;
failures of the database appear as requests that may be refused, and as deletions
whose COMMIT takes effect and is answered by an error (`DeleteLost`): the rows are gone, the
runtime stays open, nobody is told, and the next operation inserts the board's row again.
`kept` has the boards without a deletion that succeeded as far as the server knows. Two sequences of
the code are one step here, because only a delete could come between them
and it waits for the mutex: reading the rows, finding the runtime and listing the
participant (`JoinBoard`); deleting the rows and closing the runtime
(`DeleteRows`). `BoardRuntime` has them apart.

**Locks.** The other modules fold what a mutex protects into one step; here the data is left
out instead. A handler is the sequence of mutexes that its code takes and releases, one inside
the other; where it may return early, it may do so at any time, and releases what it
holds. There are any number of boards, which share the mutexes of service, registry, subscriptions and
coordinator, as in the code. The mutex of a board has generations: `forget` drops the
one in the map while the handler and those that wait still have it. A `std::shared_mutex` may
or may not let readers pass a writer that waits, so `Take` lets them, and `WaitsFor`
counts the writer as in their way: `NoCircularWait` holds for both policies.
The mutexes of `AuthService`, of the list of sessions in `JsonTcpServer` and of the in-memory
storage are left out: who holds one of them takes no other.

**BoardSession, Collaboration.** A client is a record of the members of
`BoardSessionState`, plus the timer of `QTimer::singleShot`, what it wrote to its
socket and the identifiers it made. Users draw strokes (three operations) and
erase what their canvas shows; one in the cabinet may delete the board. The client is
one thread, so each of its handlers is one step. A message counts as heard when
posted: if a client does something before it hears of it, the same run exists
with that done earlier, since the client's requests wait in `sent` as long as they
like. `Collaboration` starts with the clients joined to an empty board. An operation that is read when the
session has lost the board already is answered with an error at once (`Respond`).

`BoardServer` takes the client as parameters (`Heard`, `NewClient`): the observer
in `MCBoardServer`, the Qt client in `MCCollaboration`.

**BoardWire** extends `BoardObjects`. A JSON value is its kind and its content, since
kinds are what readers test: Boost writes 1.0 so that it is read as a double, Qt and
`jsonb` so that it is read as an integer. There are three of each function: the
server's (`Server...`), the database's (`Postgres...`, rows) and the client's (`Builder...`,
`Client...`). The server's and the database's readers throw (`Strict`), for a
field of the wrong kind and for what is inside it: the axes of a point, size or rectangle and each of
the points of a stroke (`WellTyped`, `Judged`). The client's take defaults (`Lenient`); the server cuts strings at a null character. `Draw` is a command
of the Qt client, `Send` one of a client that writes like the server, `SendForeign` JSON
with a mistake, at any level. Reading a number is the identity: that Boost's default parser may
lose the last bit of a double is outside the model. What happens between the steps of a command's way is the matter of
`BoardRuntime` and `BoardServer`, so the way is one action. `meant` keeps the commands as their
senders meant them; `entries` is what the server has in memory. `Life` is `BoardState` over the objects
of `entries`: `LivesOn` says that, whatever comes as JSON and is read back from rows, the objects only ever
change by accepted commands, so that the theorems about `BoardState` hold of a board that went
through its formats. Times are ticks finer than the milliseconds that are written.

**BoardAccess.** `row`, `members` and `operations` are the database; `runtime` the copy of the
row, `role` those cached by sessions; `writer` and `readers` the mutex of `BoardService`. A call
starts by reading the row under the mutex (`UpdateSettings`, `UpdateMember`, `StartJoin`,
`StartDelete`) and ends by writing or refusing (`SaveSettings`, `SaveMember`,
`DeleteRows`; a join reads the member in between and then may make the runtime, `Install`).
Operations take no part in that mutex: `Operate` writes the row from the copy, as
`persist_applied_operation` does, and inserts it again, without its members, after a deletion whose
COMMIT took effect unheard (`DeleteLost`). `agreed`, `stale`, `raced` and `touched` are histories
that say when the copies may differ. Settings and members are changed by
calls of `BoardService` that its tests make and no handler of the server does. `Changed` is the whole of the validation of settings. A
password is its own hash. Reading members changes nothing and is left out.

**Accounts.** `users` and `sessions` are rows; `boot`, `ids` and `tokens` the prefix and the
counters of `SecurityPrimitives`; `call[c]` where a request stands, `holder` who has the
service's mutex. Registration is `Register`, `CreateUser` (or `LoginTaken`), `SaveSession`; each
statement may fail, or take effect and lose its answer. `JoinBoard`, `LeaveBoard` and
`Disconnect` change the list of participants under the principal that the connection has
*then*, which need not be the one it joined with (`as`). After `Disconnect` requests that
were read before it are handled like any; a session that joined a board so is destroyed without
leaving it (`Expire`). `forsaken` is a history of who was left behind in one of these two ways. `Restart` begins a new process
over the old rows. Prefixes of different processes are taken to differ; in the code they
are random numbers of 24 bits.

**Transport.** `tasks[k]` is the strand of the session of connection `k`, `outgoing[k]` its
queue, `write[k]` its `async_write`, `wire[k]` the connection. A message travels in two
pieces, so a connection can break inside a line; `buffer` is the client's. `TrackAndStart`
is the handler of an accept, `Collect` what `stop()` does to the sessions it finds.
It is what allows `BoardServer` to take posting for hearing.

## 3. The runs

| run | instance | shows | states |
| --- | --- | --- | --- |
| `board_state` | two objects, one value of each kind and an invalid one | `StateTypeOK`, `DeletedForever`, `InkIsAppendOnly`, `DistinctObjectsCommute` after every sequence of commands | 1 100 |
| `board_runtime` | three sessions, a stroke begun, deleted, and begun with a style that is refused, revisions up to 2 | `RuntimeMatchesStore`, `AckedIsDurable`, `LogExplainsObjects`, `FreshInstall`, `DeletedStaysDeleted`, `ExclusiveWhileAlive`, the refinement `KeepsPromise`; deadlock is checked | 76 000 |
| `server_sessions` | two sessions of three requests each, one board | `PresenceAtRest`, `ClientKnowsItsBoard`, `NothingAfterDeletion`, `NoneLost`, `EveryRequestAnswered` | 2.4 million |
| `locks` | three threads, three requests on one board, fairness | `NoCircularWait`, `HandlersReturn` | 150 000 |
| `collaboration` | two clients with two gestures each, one of them with the eraser, a third that may delete the board | `LiveObjectsConverge`, `StrokesAreWhole`, `DeletionReachesAll` | 480 000 |
| `board_wire` | two objects, every kind of command, three of them per run, a user and a guest, documents with a mistake in a field or inside one, two ticks per millisecond | `TypeOK`, `LogTellsWhatWasMeant`, `LogRebuildsObjects`, `RestartIsInvisible`, `FollowersAndNewcomersAgree`, the refinement `LivesOn` | 110 000 |
| `board_access` | three sessions of two users and a guest, or two of one user; three calls, two operations | `TypeOK`, `DeletedLeavesNothing`, `CachedRoleIsCurrent`, `SettingsStayAtRest`, `RevisionCoversLog` | 240 000 |
| `accounts` | two connections, two logins, two passwords, two processes that draw two identifiers each | `PromisesKept`, `TakenIsTaken`, `NobodyLeftBehind` | 1.1 million |
| `transport` | two connections one after the other, two messages posted on each, fairness | `WholeAndInOrder`, `NothingStuck`, `ShutdownReachesAll` | 120 000 |

Why the bounds are enough for what they check:

* Objects: no command touches two objects, so two are enough to see that they do not
  disturb each other; strokes grow to the bound of `MCBoardState`.
* `board_runtime`: a lost COMMIT needs one operation to happen and a second to be refused
  by the primary key; then a restart shows it. Of the commands the second needs the first.
  A join and a delete, or two joins, are two sessions.
  The forgotten mutex takes three: one that deletes, one that waits for the old mutex, one that
  gets a new one. The `VIEW` of the configuration leaves out what a handler that has returned had
  read and the mutex it had: the next one overwrites both before it looks at them.
* `server_sessions`: three requests let a session join, work and leave or join
  again, while the other does the same or deletes; each also may disconnect.
  With one board a session that joins again leaves that same board first.
* `locks`: a circle of two threads takes two mutexes, and of three one that waits to have a
  mutex alone between two that share it, or the two mutexes that a board has after `forget`. What
  calls for another board share with those for this one is the mutexes of all boards, and lists and
  creations of boards take that of the service. `NoCircularWait` was seen to hold with three threads
  and two boards, both properties with two threads and two boards.
* `collaboration`: two gestures of three and one operations are enough for
  queues of several operations, conflicts, operations that overtake each other and
  a deletion of what is being drawn. The objects are interchangeable, hence
  the symmetry. The same properties were seen to hold with three objects.

* `board_wire`: commands and objects do not look at each other on their way, so what can go
  wrong does with one object: its creation, a change, a deletion; the second object shows that
  they are kept apart. Every field has two values where a reader could take the wrong
  one (fill or none, whole or half, a name that is not the first).
* `board_access`: a change of settings, a change of a member and a join are three calls,
  so any two race with a third before them; two operations tell a lost revision from a
  late one. One user with two sessions is an instance of its own.
* `accounts`: two of each are enough for a race for a login and for a token of an
  earlier process. The proofs have no bound.
* `transport`: two messages are enough for one to be posted while the other is written, two
  connections for the second to begin with what the first left in the buffer.

`CHECK_DEADLOCK FALSE` is said where requests are bounded and the system stops when they
are used up.

Fairness: `NothingStuck` and `ShutdownReachesAll` assume weak fairness of `Collect` and of `Work(k)`: the
workers of `io_context` run whatever is ready, and `stop()` goes on once it has closed the
acceptor. Nobody has to connect, to post, or to break a connection. `HandlersReturn` assumes that a
thread goes on which waits for no other, not even for one that waits to have alone what it
would share itself. `OperationsSettle` assumes weak fairness of timers, sockets and handlers. The code runs handlers on a
pool of threads (`io_context.run()` in each), and a handler never blocks but for mutexes,
so one that can go on does. Nothing is assumed of the users, and none of the mutexes:
`std::shared_mutex` promises no order, so while requests keep coming a delete may starve, at the
mutex of its board or, holding that, at the one of `BoardService`, and no property says that it does
not. `HandlersReturn` says that everybody returns once no more requests come.

Every property of a passing run has a faulty variant of a definition (marked
"Faulty" in the modules, listed as mutants) that breaks it.

## 4. Findings

Three properties that the documentation leads one to expect are violated by what
the code does; a run shows each, and `PROJECT.json` has the lines.

| run | what happens |
| --- | --- |
| `join_gap` | The join response is made before it is posted; an operation in between reaches the client first and is missing from the snapshot that it then shows. |
| `operations_settle` | An operation that overtook another makes the client's revision regress; it then retries its next operation for ever, in conflict each time. |
| `torn_strokes` | Two users erase the same object: the other's deletion is taken for one's own, two operations are in flight, a stroke begun twice is given up half drawn. |

`StrokesAreWhole` holds with one eraser (`collaboration`) and fails with two
(`torn_strokes`): acknowledgement by type and object is safe only as long as nobody
else sends the same command for the same object.

What follows from `operations_settle` for the passing run is worth saying:
`LiveObjectsConverge` is a statement about the objects, not about revisions, and
about objects nobody erased. `StrokesAreWhole` is about clients that are done with their
queue.

More was met while the code was read, of which the passing properties say the
exact limit and no document promises otherwise:

* A read that completed before `cleanup()` is handled after it, and may join a board
  (`client_session_io.cpp:28`). The session is destroyed soon after; its subscription expires, but its
  principal stays in the list. `PresenceAtRest` and `NobodyLeftBehind` say that this and no other
  disconnection leaves anybody in it.
* A deletion whose COMMIT took effect may be answered by an error
  (`postgres_board_lifecycle_persistence.cpp:193`): the rows are gone, the runtime stays, nobody is
  told, and the next operation inserts the board's row without its members
  (`postgres_board_runtime_persistence.cpp:38`). `ClientKnowsItsBoard`, `DeletionReachesAll` and `DeletedLeavesNothing`
  are about deletions that the server knows to have succeeded, and say what is left of the other ones.
* Lists of participants are read, then posted; an older one can arrive last
  (`client_session_board.cpp:94`). `PresenceAtRest` is about the server's list.
* A client whose object was deleted before it hears of its own operation on it never takes
  that operation for the answer it waits for (`board_session_state.cpp:169`).
* `BoardService` can change settings and members, but no request of the protocol does yet. If one did,
  an operation would write the settings of the runtime's copy over settings saved since
  (`board_runtime_manager.cpp:87`), and a change of settings that was raced by an
  operation would write an old revision back (`board_service.cpp:223`): after a restart the next
  operation would be refused by the primary key. `SettingsStayAtRest` and `RevisionCoversLog` say under
  which condition neither happens.
* A session that signs in as somebody else while it is on a board leaves its first
  principal in the list (`client_session_auth.cpp:17`), and of two sessions of one user the
  first to leave takes both off it (`presence_service.hpp:35`). `NobodyLeftBehind` says that nobody
  else stays by mistake.
* A connection that broke in the middle of a line spoils the first message of the next
  one (`server_connection.cpp:118`); `WholeAndInOrder` says that it is no more than that.
* A connection whose accept was completed before `stop()` closed the acceptor may be tracked
  after the sessions were collected, and is not stopped (`json_tcp_server.cpp:70`).
* Registration whose second statement failed leaves an account that its owner was told
  does not exist (`auth_service.cpp:46`). Logging in works.

## 5. The proofs

No instance is assumed beyond the `ASSUME`s of the modules: sets of
commands are sets of commands, owners are editors and editors sessions, bounds are
natural numbers, the sessions that draw together are finitely many (they subscribed in some order).

* **BoardStateProofs**: `StateTypeCorrect`; `DeletedForeverHolds` and
  `InkIsAppendOnlyHolds`, action properties that follow from what `Failure`
  refuses; `DistinctObjectsCommuteHolds`, from a lemma that a command depends on and changes
  its own object only; `RepeatChangesNothing`, what applying a command twice does.
  The module also has the lemmas on commands and objects, and `Least`, that the other proofs cite; its names carry
  `State` so that they can extend it.
* **BoardRuntimeProofs**: type correctness (proved only: no run checks it), the six safety invariants, and that
  `BoardRuntime` implements `SharedBoard`.

The inductive invariant `IInv` of BoardRuntime. None of the properties is inductive
by itself; `IInv` adds what they rest on:

* `MutexInv`: an exclusive handler is alone *in its mutex*. This is not
  exclusion on the board, since a forgotten mutex gets a successor; so
* `EpochInv`: there is a successor only for a board that is gone, with no
  runtime open and no join beyond the test of the row. This is what makes `forget`
  safe although it runs while others wait.
* `DeletionInv`: between the transaction of a delete and the closing of the
  runtime, the handler that is to close it exists. With the two above, no operation
  can bring the rows back.
* `ReadInv`: what a join has read is what the store holds, or there is a runtime
  and the reads do not count: two joins may race, but only an operation could change
  the rows under them, and there is none without a runtime.
* `RuntimeMatchesStore`, `AckInv`: a lost COMMIT leaves the store exactly one
  ahead, the primary key keeps it there, and acknowledged revisions are at most
  the runtime's, so that none is acknowledged twice.

`LogExplainsObjects` is inductive on top of `IInv`: whoever persists an operation has the objects of the store in
memory, since the primary key refuses an operation on top of a lost COMMIT (`PersistExplains`). `Replay` is
a recursive function, and what it computes is proved without induction over an operator, from the least
revision at which something would be wrong (`Least`): it exists (`ReplaysExists`), depends on the
revisions that it replays only (`ReplayOf`), and goes on by one command per revision (`ReplayStep`).

`Init => IInv` is `InvInit`; each conjunct has a lemma for the step (`MutexStep`,
`EpochStep`, ...), with a case per action; `Invariance` puts them together. The
refinement uses `IInv` twice: a crash with a lost COMMIT is an `Edit` of the abstract board,
by `OneAhead`, and installing a runtime is a stutter, by `FreshInstall`.

**AccountsProofs**: `PromisesAreKept`, `TakenIsTrue`, `ListIsSound` and type correctness, for any
number of connections, processes and identifiers, from two assumptions: `Nothing` is neither a
connection nor a principal, and a lifetime is a natural number. All rests on
identifiers being new when they are drawn, so the inductive invariant `IInv` adds what was drawn
already (`NamesAreDrawn`: by an earlier process, or up to the counter), that rows of users differ in
identifier and login (`UsersDiffer`), that a caller about to insert a user has an identifier
that no row has (`NewcomersAreNew`), and that one about to save a session has its row
(`CallersHaveRows`). From these a violated constraint of `users` can only be that of the login, which is
why it may be reported so. `NobodyLeftBehind` (`ListIsSound`) is inductive with types alone: who is listed is there under the
principal it joined with, changed its principal on the board, or was destroyed there after its connection had ended.

**BoardServerProofs**: `TypeCorrectness` and `PresenceAgrees`, for any number of sessions, principals,
boards and requests. `TypeOK` is not inductive: whether the session of a handler has a board depends on
what the handler was begun for. Three invariants follow one another, each kept by every step
(`StepTypes`, `StepPresent`, `StepListed`, with a lemma per action), given those before it:

* `Typed`: the types, of messages and of records of handlers too, and `Purpose`: for every place what
  kind of request the handler serves, which message it is about to send, and that the session is on the
  board of its request. That nothing resets `board[s]` meanwhile is because `RunPosted` runs
  between handlers only.
* `Present`: whoever holds a board's mutex shared is on a board that exists, and of those that hold it
  alone there is one, that deleted the board (`Held`); a runtime is open only as long as no
  deletion of its board has succeeded, the rows being there or lost unheard (`Opened`); the subscribers are the sessions on the board that are subscribed and have
  not unsubscribed, each once, and none when the deletion took them away (`Subscribed`); a session on
  a deleted board is about to be collected by the delete, or is one of the recipients of its notice,
  or has the notice on its strand, or is leaving (`Warned`); and notice is given of nothing else
  (`Noticed`).
* `Listed`: the participants are the principals of the sessions that have joined and not begun
  to leave, and of those that were destroyed on the board. This one needs a principal per session, as the property does.

The second half proves `DeletionIsFinal`, `JoinedClientsKnow`, `NothingIsLost` and
`RequestsAreAnswered`, for the same instances. `BoardServer` leaves open what a client is; the hypothesis
`ObserverListens` of these theorems says that it is the one of `BoardServerObserver` (`NewClient = Nothing`,
`Heard = Remember`), as `MCBoardServer.cfg` does. `StepPosts` reduces every step to four kinds: it says
nothing, sends one message to one session, gives notice of a deletion, or runs what was
posted. On top of `Typed` and `Present` there are

* `Listening`: types of what clients remember and of what waits on strands;
* `Deletions`: on a strand the deletion of a board comes behind its notice, unless the session is off
  the board already, and behind every operation on it (`InOrder`); once the client was told, the board is deleted,
  so that the handler of no operation can be on it (`Held`);
* `Knowing`: if the last answer that a client was given or is going to be was to a join of `b`,
  then its session is on `b`, or has an answer still to give, or the connection is at its end; a notice
  of `b` on the strand has the deletion behind it, which is the later answer, unless the session is the
  initiator, who is still to be answered;
* `Reached`: every revision of a board is, for every session that is due to get it, in the last
  snapshot sent to it, or among what it heard or has on its strand, or carried by a handler that has yet to collect
  its recipients or has the session among them. A new revision is in the last class for everybody:
  collecting comes after applying, and `Subscribed` says that the session is among the subscribers.
  A session that becomes due has just read a snapshot with all revisions;
* `Counted`: the replies given, delivered or on the strand, and the one that the handler still owes
  are as many as the requests. An operation is replied to by its own broadcast, so its author must be
  among the recipients exactly once until then.

The last kind of argument needs sequences of messages to be cut and extended; `AppendLast`, `TailFrom`,
`AppendWaiting` and the like say what that does. `Without`, which takes a session from the subscriptions, is
a function defined by recursion, and `WithoutIs` says what it returns: the induction is by `Least` (a set of
numbers that is not empty has a least element), which needs no operator as a parameter.

**BoardAccessProofs**: all five invariants of the run, for any callers, users, parties, passwords and
bounds. Calls read the row in one step and write it in another; `IInv` says what holds
in between: who has the service's mutex (`ServiceLock`) and the board's (`BoardLock`); that the row is
still there for whoever read it, with the same owner (`ReadsAreCurrent`), hence that a write never
brings it back; that a runtime outlives its row only until the deletion closes it
(`RuntimeIsClosed`); that all copies have the settings agreed on, unless some were saved over
a copy (`CopiesHaveSettings`); that the log has no gaps and no copy is ahead of it
(`LogIsWhole`), and that row and copies are at its end unless an operation ran within a
change of settings (`CopiesHaveRevision`). `ChangedIsSettings` is the lemma on the validation of
settings. A deletion that was answered by an error and took effect leaves copies without a row; `DeletedLeavesNothing`
is about the others, and about what an operation makes of these.

**TransportProofs**: `MessagesAreWholeAndInOrder`, for any number of connections and messages. The
invariant `IInv` follows every message by its number. For each connection there is a number `w` of
messages that have left the queue; behind them come those of the queue and those of the strand, with
the one stop anywhere among them (`Queued`, `Strand`, `Place`). While the connection lasts there
are a number `m` and a half that is read next: the wire has every piece from that one to the one
that `async_write` writes next, each after the other (`OnWire`), the buffer has what precedes it
in its line (`Buffered`), and what was heard is `m` messages, one less if the connection began with
a used buffer (`HeardOf`). A failed write ends the chain, since nothing is written any more. Every
action moves one end of one of these by one; `Untouched` says that it leaves other connections
alone. That a connection still to come has nothing of its own (`Fresh`) is what lets it begin
with `w = m = 0`.

**BoardWireProofs**: `EntriesTyped`, `LogIsMeant`, `LogIsEnough`, `RestartGivesBack`, `EverybodySeesTheBoard` and
`ObjectsLiveOn`, the refinement of `BoardState`, for any commands, principals, settings, JSON and bounds and any number of
ticks in a millisecond. The assumptions say what data is: a command that somebody means is well formed and has no
null character in its strings (`OrdersAssumption`: the server would cut them); JSON from elsewhere is JSON, and may
have or lack any field, axis or point, of any kind (`ForeignAssumption`: content of a kind is of that kind; `Positions`,
`Points` and `ObjectIds`, which are sets of the instance, have what is well typed; whether it is, and whether it is
valid, is for the reader and the validation to find out); names of settings and principals are those of the code's types (`SettingsAssumption`,
`PrincipalsAssumption`). The first half is about the formats alone:

* a reader gives back what a writer was given, through each of the conversions, of a field (`FieldKept`), a
  command (`CommandRead`), an object with its author and times (`EntryKept`), a table of objects (`TableKept`);
  times lose their fraction of a millisecond and nothing else does;
* whatever the server's reader lets through of JSON that nobody meant is a command again, one that can be written and
  read (`ForeignFormed`), since a document that it accepts has passed the tests of `WellTyped`
  (`JudgedAccepted`). This is what those tests are for: without them a document could be
  accepted that nobody can read back;
* rounding times and applying a command commute (`ApplyStep`), hence whoever applies the
  operations as they were written has what the server has, rounded;
* rebuilding from the log goes on by one operation (`RebuiltAppend`); as with `Replay`, by `Least`.

The second half is the invariant `WireInv`, which TLC checked on the instance of `board_wire` first.
`EntriesInv`: the server's objects are valid, complete (a shape has a figure, nothing else has) and no younger than
the clock. Without it what is written might not be readable. `CopiesInv` and `BoardInv`: rows and follower are that
table, rounded, and the board's row is the board. `LogInv`: each operation of the log says what was meant, and what
the log rebuilds is the same rounded table. The five properties compare copies with each
other or with memory, and none is inductive alone, since a restart makes any copy the memory of
the next process: all have to be compared with `entries` at once. A restart rounds what is in
memory, and rounding twice is rounding once.

**CollaborationProofs**: `TogetherTypes`, `DeletionSpreads`, `LiveObjectsAgree` and `StrokesGetThrough`, for
any number of sessions, objects, strokes and gestures. The hypothesis `QtClients` says that what the sessions of
`BoardServer` speak to is the client of `BoardSession`, as `MCCollaboration` does. The steps of the server
are those of `BoardServer`, so its `Typed` and `Present` are kept by them here too, action by action;
they need nothing of the clients. On top of them there are

* `Working`: what each session may be doing (`Doing`), what may wait on its strand (`Hearing`), and that
  each client is a well-formed client of the one board or of none (`Using`). `HandleIs`, `FlushIs`,
  `EnqueueIs` and their like say what the operators of `BoardSession` do to a client, as relations
  between the client before and after, which is what all the rest uses;
* `Following`: a client that is on the board is going to hear of its deletion, or its session is on it and
  has no notice: `Notify` puts both on the strand at once, and the initiator is in its cabinet;
* `Steady`: what makes the clients agree although broadcasts overtake each other. A client
  changes only the objects that it drew itself, which are its alone (`Owning`, `Apart`); everybody erases
  everything, but an erased object stays erased (`Spread`). So at most one broadcast at a time carries an
  operation on an object that nobody erased (`OneCarries`), and `InStep` says of each client and object that,
  if such a broadcast has not reached the client yet, it is what the client lacks (the client accepts it
  and then has the object as the server has it), and else that the client has the object already. `Calm` says that
  all this lasts as long as the board does; after that `DeletionSpreads` answers for the clients.
  TLC checked `Steady` on the instance of `collaboration` before it was proved;
* `AllSound`: what is left of every stroke. A client has one operation in flight (`InFlight`): it is the head of
  the queue and is in its request or in the broadcast that brings the acknowledgement, or else the client
  waits for nothing. Of each object of its own the queue and the board together make a stroke
  (`Whole`): the board has the first `n` of its three operations, the queue the rest, in order and with nothing else
  on the object but an erasure, and the broadcast on the way tells which of the two is one ahead. An erased object needs
  none of this. So a refusal other than a conflict can only hit what is erased (`Known` says that whatever
  is there to be erased or continued is there), and what `DiscardFrontGroup` throws away belongs to no stroke that
  is still to become whole.

`StrokesGetThrough` has a second hypothesis, `OneEraser`: at most one user erases. It is what the proof needs in one
place only: a deletion that a client which waits for its own hears from the server is its own, since
`matches_pending_operation` compares type and object. `collaboration` satisfies it; `torn_strokes` shows that
without it the theorem is false. The other theorems allow any number of erasers.

The proof uses from `BoardServer` that the recipients of a broadcast are all sessions on the board, each once
(`Subscribed`), and from the domain that a command depends on and changes its own object only
(`ApplyElsewhere`, `FailureLocal`). That neither revisions nor retries occur in `Steady` is the point of
it: they decide when an operation is accepted, not what the clients make of it.

Only model-checked: what assumes fairness (`HandlersReturn`, `NothingStuck`,
`ShutdownReachesAll`), which TLAPS does not reason about here, and `NoCircularWait`.

## 6. What is not modelled

* Pages, styles and the canvas of the Qt client, and the growth of its scene: layout and
  painting, which keep no state that anything else depends on. Signing in, joining and leaving
  from the user interface: `Collaboration` starts with the clients on the board.
* The envelopes of requests and answers, and participants in JSON: fields without
  alternatives.
* The in-memory persistence: `BoardRuntime` without failures.
* Repository methods that nothing calls, titles of boards, names of users, logging.
* The cost of hashing passwords: a password is its own hash.
* More than one board in one instance of the modules with data: boards share maps, and the mutexes of these and
  of `BoardService`, whatever the board. `Locks` may have several boards; the proofs of `BoardServer` hold
  for any number of them.

## 7. The plan

Done: all modules of section 2 with their runs, and proofs of `BoardState`, `BoardRuntime`, `BoardServer` with its
observer, `Collaboration`, `BoardAccess`, `Accounts`, `Transport` and `BoardWire`.

What would come next:

1. `Collaboration` with joins and leaves of the client, over `Transport` instead of posting.
2. `BoardAccess` and `BoardRuntime` in one: a lost COMMIT of an operation within a change of settings.
3. A proof of `NoCircularWait` for any number of threads and boards: the mutexes are taken in one order.
