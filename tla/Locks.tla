------------------------------- MODULE Locks -------------------------------
(***************************************************************************)
(* Who waits for whom: the worker threads of the server, the handlers that *)
(* they run, and the mutexes that handlers hold while they wait for others.*)
(*                                                                         *)
(* The other modules fold what a mutex protects into one step.  Here the   *)
(* data is left out, and a handler is what is left to do of its locking:   *)
(* the mutexes in the order in which its code takes and releases them.     *)
(* Where it may return early it may do so at any time, whatever the state  *)
(* of the board: that is more than the code does, and never less.  A       *)
(* handler blocks its thread, so it is done before the thread begins       *)
(* another.                                                                *)
(*                                                                         *)
(* Left out are the mutexes of AuthService, of JsonTcpServer's list and of *)
(* the in-memory storage: who holds one of them takes no other.            *)
(***************************************************************************)
EXTENDS Naturals, SequencesExt

CONSTANTS
    Workers,        \* threads that run io_context
    Boards,
    MaxRequests     \* bound: requests that come before it is quiet

ASSUME BoundAssumption == MaxRequests \in Nat

VARIABLES
    todo,           \* what is left to do of the handler a worker runs
    held,           \* who holds which mutex
    got,            \* the mutex that a worker got from the coordinator
    generation,     \* which mutex of a board is in the coordinator's map
    requests        \* how many came

vars == <<todo, held, got, generation, requests>>

-----------------------------------------------------------------------------
(* Mutexes.  Those of a board exist several times, since forget drops the   *)
(* one that is in the map.                                                  *)

Lock(mutex, mode) == [act |-> "lock", mutex |-> mutex, mode |-> mode]
Unlock(mutex, mode) == [act |-> "unlock", mutex |-> mutex, mode |-> mode]

\* A guard: what is done in its scope is done with the mutex held.
Guarded(mutex, mode, scope) == <<Lock(mutex, mode)>> \o scope \o <<Unlock(mutex, mode)>>

Visit(mutex) == Guarded(mutex, "exclusive", <<>>)

OfBoard(b) == <<"board", b>>
OfRuntime(b) == <<"runtime", b>>
Service == <<"service">>
Registry == <<"registry">>
Subscriptions == <<"subscriptions">>
Coordinator == <<"coordinator">>

\* The handler may return, and its guards release what they hold.
MayReturn == <<[act |-> "may_return"]>>

-----------------------------------------------------------------------------
(* What the handlers do *)

\* BoardAccessCoordinator::mutex_for and forget.
MutexFor(b) == Guarded(Coordinator, "exclusive", <<[act |-> "mutex_for", board |-> b]>>)
Forget(b) == Guarded(Coordinator, "exclusive", <<[act |-> "forget", board |-> b]>>)

\* ServerState::broadcast collects the recipients; the messages are posted
\* when the mutex is released.
Broadcast == Visit(Subscriptions)

\* leave_participant, active_participants, unsubscribe, broadcast_presence.
LeaveCurrentBoard(b) ==
    Visit(OfRuntime(b)) \o Visit(OfRuntime(b)) \o Visit(Subscriptions) \o Broadcast

\* BoardService::join_board, get_or_create, join_participant, subscribe,
\* snapshot, active_participants, broadcast_presence.
JoinBoard(b) ==
    MutexFor(b) \o
    Guarded(OfBoard(b), "shared",
        Guarded(Service, "shared", <<>>) \o MayReturn \o
        Visit(Registry) \o Visit(OfRuntime(b)) \o Visit(Subscriptions) \o
        Visit(OfRuntime(b)) \o Visit(OfRuntime(b)) \o Broadcast)

\* apply_operation holds the runtime's mutex through its transaction.
HandleOperation(b) ==
    MutexFor(b) \o
    Guarded(OfBoard(b), "shared", Visit(OfRuntime(b)) \o MayReturn \o Broadcast)

\* Faulty: the owner is looked up, under the mutex of the service, before the
\* mutex of the board is taken.
DeleteInService(b) ==
    Guarded(Service, "exclusive",
        MutexFor(b) \o
        Guarded(OfBoard(b), "exclusive",
            Guarded(Registry, "exclusive", Visit(OfRuntime(b))) \o Forget(b) \o Broadcast))

\* Faulty: a request that is refused does not release the service.
DeleteLeaks(b) ==
    MutexFor(b) \o
    Guarded(OfBoard(b), "exclusive",
        <<Lock(Service, "exclusive")>> \o MayReturn \o <<Unlock(Service, "exclusive")>> \o
        Guarded(Registry, "exclusive", Visit(OfRuntime(b))) \o Forget(b) \o Broadcast)

\* BoardService::delete_board; then close_board: BoardRegistry::remove closes
\* the runtime while it holds the registry, the mutex of the board leaves the
\* map while it is held, and the subscribers are taken away.
DeleteBoard(b) ==
    MutexFor(b) \o
    Guarded(OfBoard(b), "exclusive",
        Guarded(Service, "exclusive", <<>>) \o MayReturn \o
        Guarded(Registry, "exclusive", Visit(OfRuntime(b))) \o Forget(b) \o Broadcast)

\* handle_list_user_boards and handle_create_board hold no mutex of a board.
ListUserBoards == Guarded(Service, "shared", <<>>)
CreateBoard == Guarded(Service, "exclusive", <<>>)

\* A join by a session that is on a board leaves that first, and holds nothing
\* in between: it is a leave and a join one after the other.
Handlers ==
    {ListUserBoards, CreateBoard}
      \cup UNION {{LeaveCurrentBoard(b), JoinBoard(b), HandleOperation(b), DeleteBoard(b)}
                    : b \in Boards}

-----------------------------------------------------------------------------
(* The workers *)

Init ==
    /\ todo = [w \in Workers |-> <<>>]
    /\ held = {}
    /\ got = [w \in Workers |-> 0]
    /\ generation = [b \in Boards |-> 0]
    /\ requests = 0

\* What a worker does next.
Does(w, act) == todo[w] # <<>> /\ Head(todo[w]).act = act

Goes(w) == todo' = [todo EXCEPT ![w] = Tail(@)]

\* A session has sent a request, or lost its connection.
Begin(w) ==
    /\ todo[w] = <<>>
    /\ requests < MaxRequests
    /\ requests' = requests + 1
    /\ \E h \in Handlers : todo' = [todo EXCEPT ![w] = h]
    /\ UNCHANGED <<held, got, generation>>

\* The mutex that the next act of w is about: of those of a board, the one
\* that w got.
Mutex(w) ==
    LET mutex == Head(todo[w]).mutex
    IN  IF mutex[1] = "board" THEN Append(mutex, got[w]) ELSE mutex

Holding(w) == [worker |-> w, mutex |-> Mutex(w), mode |-> Head(todo[w]).mode]

\* What v holds excludes what w wants.
Excludes(v, w) ==
    \E x \in held :
        /\ x.worker = v /\ x.mutex = Mutex(w)
        /\ "exclusive" \in {x.mode, Head(todo[w]).mode}

\* A shared_mutex may let nobody in who would share it while somebody waits
\* to have it alone, or it may not care; the language leaves that open.
GoesFirst(v, w) ==
    /\ Does(v, "lock") /\ Mutex(v) = Mutex(w)
    /\ Head(todo[v]).mode = "exclusive" /\ Head(todo[w]).mode = "shared"

Take(w) ==
    /\ Does(w, "lock")
    /\ \A v \in Workers : ~Excludes(v, w)
    /\ held' = held \cup {Holding(w)}
    /\ Goes(w)
    /\ UNCHANGED <<got, generation, requests>>

\* Every handler ends with one; the mutex it got goes with it.
Release(w) ==
    /\ Does(w, "unlock")
    /\ held' = held \ {Holding(w)}
    /\ got' = [got EXCEPT ![w] = IF Tail(todo[w]) = <<>> THEN 0 ELSE @]
    /\ Goes(w)
    /\ UNCHANGED <<generation, requests>>

GetMutex(w) ==
    /\ Does(w, "mutex_for")
    /\ got' = [got EXCEPT ![w] = generation[Head(todo[w]).board]]
    /\ Goes(w)
    /\ UNCHANGED <<held, generation, requests>>

ForgetMutex(w) ==
    /\ Does(w, "forget")
    /\ generation' = [generation EXCEPT ![Head(todo[w]).board] = @ + 1]
    /\ Goes(w)
    /\ UNCHANGED <<held, got, requests>>

\* Early: no such board, no right to it, a conflict, a failed transaction or
\* an exception.  The one guard that is left then is that of the board.
Return(w) ==
    /\ Does(w, "may_return")
    /\ \/ Goes(w)
       \/ todo' = [todo EXCEPT ![w] = <<Last(@)>>]
    /\ UNCHANGED <<held, got, generation, requests>>

Step(w) == Take(w) \/ Release(w) \/ GetMutex(w) \/ ForgetMutex(w) \/ Return(w)

Next == \E w \in Workers : Begin(w) \/ Step(w)

Spec == Init /\ [][Next]_vars

\* A thread goes on if it waits for nobody, not even for one who waits to have
\* alone what it would share.  Nothing else is promised: no order of those who
\* wait, and no end of waiting as long as requests keep coming.
FairSpec ==
    /\ Spec
    /\ \A w \in Workers :
         WF_vars(Step(w) /\ \A v \in Workers : Does(w, "lock") => ~GoesFirst(v, w))

-----------------------------------------------------------------------------
(* Correctness *)

WaitsFor(w, v) == Does(w, "lock") /\ (Excludes(v, w) \/ GoesFirst(v, w))

\* Among any threads there is one that waits for none of them: no handler
\* takes a mutex twice, and no two take two of them in orders that disagree,
\* whoever a shared_mutex lets in first and whichever mutex of a board each
\* of them holds.
NoCircularWait ==
    \A waiting \in SUBSET Workers \ {{}} :
        \E w \in waiting : \A v \in waiting : ~WaitsFor(w, v)

\* When no more requests come, every handler returns: no mutex stays locked
\* behind a request that was refused, and nobody waits for one for ever.  (The
\* requests are MaxRequests; while they keep coming, a delete may starve.)
HandlersReturn == \A w \in Workers : todo[w] # <<>> ~> todo[w] = <<>>

=============================================================================
