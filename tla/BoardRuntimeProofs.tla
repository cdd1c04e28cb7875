------------------------- MODULE BoardRuntimeProofs -------------------------
(***************************************************************************)
(* Proofs about BoardRuntime, for any sets of sessions, owners, editors,   *)
(* identifiers, data and commands, and any bound on the revision.          *)
(***************************************************************************)
EXTENDS BoardRuntime, BoardStateProofs

Inside(h) == pc[h] \in Shared \cup Exclusive

\* An exclusive handler is alone in its mutex, and no handler has a mutex
\* younger than the one in the coordinator's map.
MutexInv ==
    /\ \A g, h \in Handlers :
         (g # h /\ pc[g] \in Exclusive /\ Inside(h)) => mutex[g] # mutex[h]
    /\ \A h \in Handlers : mutex[h] <= epoch

\* A second mutex exists only for a board that nobody can see any more.
EpochInv ==
    epoch > 0 =>
        /\ ~store.exists
        /\ runtime.status # "open"
        /\ \A h \in Handlers : pc[h] \notin {"join_objects", "join_install"}

DeletionInv ==
    /\ \A h \in Handlers : pc[h] = "delete_close" => ~store.exists
    /\ deletion = "none" => store.exists
    /\ deletion = "acked" =>
         /\ ~store.exists
         /\ \/ runtime.status # "open"
            \/ \E h \in Handlers : pc[h] = "delete_close"

\* What a join has read so far is what the store still holds, unless the
\* board has a runtime and the reads do not matter.
ReadInv ==
    runtime.status # "open" =>
        \A h \in Handlers :
            /\ pc[h] \in {"join_objects", "join_install"} =>
                 store.exists /\ read[h].revision = store.snapshot.revision
            /\ pc[h] = "join_install" =>
                 read[h].objects = store.snapshot.objects

\* Acknowledged revisions are behind the runtime and the store.
AckInv ==
    /\ runtime.status = "open" =>
         \A e \in acked : e.revision <= runtime.snapshot.revision
    /\ store.exists =>
         \A e \in acked : e.revision <= store.snapshot.revision
    /\ AckedIsDurable

IInv ==
    /\ TypeOK
    /\ MutexInv
    /\ EpochInv
    /\ DeletionInv
    /\ ReadInv
    /\ RuntimeMatchesStore
    /\ AckInv

-----------------------------------------------------------------------------
(* Type correctness *)

\* An accepted operation leads to a well-formed snapshot and log entry.
LEMMA NextSnapshotType ==
    ASSUME TypeOK, NEW c \in Commands, Accepts(runtime.snapshot.objects, c)
    PROVE  /\ NextSnapshot(c) \in Snapshot
           /\ Entry(c) \in LogEntry
           /\ NextSnapshot(c).revision = runtime.snapshot.revision + 1
           /\ Entry(c).revision = runtime.snapshot.revision + 1
<1>1. /\ runtime.snapshot.revision \in Nat
      /\ runtime.snapshot.objects \in Objects
  BY DEF TypeOK, Runtime, Snapshot
<1>2. Apply(runtime.snapshot.objects, c) \in Objects
  BY <1>1, ApplyType, CommandsAssumption
<1> QED BY <1>1, <1>2 DEF NextSnapshot, Entry, Snapshot, LogEntry

LEMMA EmptySnapshotType == EmptySnapshot \in Snapshot
BY DEF EmptySnapshot, Snapshot, Objects, NoObjects

LEMMA TypeInit == Init => TypeOK
BY EmptySnapshotType DEF Init, TypeOK, Store, Runtime, NoRuntime

LEMMA TypeStep == TypeOK /\ [Next]_vars => TypeOK'
<1> SUFFICES ASSUME TypeOK, [Next]_vars PROVE TypeOK'
  OBVIOUS
<1>1. CASE UNCHANGED vars
  BY <1>1 DEF vars, TypeOK
<1>2. CASE Crash
  BY <1>2, EmptySnapshotType DEF Crash, TypeOK, Runtime, NoRuntime
<1>3. ASSUME NEW h \in Handlers, Request(h) PROVE TypeOK'
  BY <1>3 DEF Request, StartJoin, StartOperation, StartDelete, Leave,
     GetMutex, Goto, TypeOK, Waiting
<1>4. ASSUME NEW h \in Handlers, Join(h) PROVE TypeOK'
  <2>1. CASE LockJoin(h)
    BY <2>1 DEF LockJoin, LockShared, Goto, TypeOK, Shared
  <2>2. CASE JoinRefused(h)
    BY <2>2 DEF JoinRefused, Finish, Goto, TypeOK
  <2>3. CASE JoinReadBoard(h)
    BY <2>3 DEF JoinReadBoard, Goto, TypeOK, Shared, Snapshot, Store
  <2>4. CASE JoinReadObjects(h)
    BY <2>4 DEF JoinReadObjects, Goto, TypeOK, Shared, Snapshot, Store
  <2>5. CASE JoinInstall(h)
    BY <2>5 DEF JoinInstall, GetOrCreate, Finish, Goto, TypeOK, Runtime
  <2> QED BY <1>4, <2>1, <2>2, <2>3, <2>4, <2>5 DEF Join
<1>5. ASSUME NEW h \in Handlers, Operation(h) PROVE TypeOK'
  <2>1. CASE LockOperation(h)
    BY <2>1 DEF LockOperation, LockShared, Goto, TypeOK, Shared
  <2>2. ASSUME NEW base \in 0 .. MaxRevision, NEW c \in Commands,
               OperationRejected(h, base, c)
        PROVE  TypeOK'
    BY <2>2 DEF OperationRejected, Finish, Goto, TypeOK
  <2>3. ASSUME NEW base \in 0 .. MaxRevision, NEW c \in Commands,
               OperationCommitted(h, base, c)
        PROVE  TypeOK'
    <3>1. NextSnapshot(c) \in Snapshot /\ Entry(c) \in LogEntry
      BY <2>3, NextSnapshotType DEF OperationCommitted, OperationAccepted
    <3> QED
      BY <2>3, <3>1 DEF OperationCommitted, Persist, Finish, Goto, TypeOK,
         Store, Runtime
  <2>4. ASSUME NEW base \in 0 .. MaxRevision, NEW c \in Commands,
               OperationRolledBack(h, base, c)
        PROVE  TypeOK'
    BY <2>4 DEF OperationRolledBack, Finish, Goto, TypeOK
  <2>5. ASSUME NEW base \in 0 .. MaxRevision, NEW c \in Commands,
               OperationLost(h, base, c)
        PROVE  TypeOK'
    <3>1. NextSnapshot(c) \in Snapshot /\ Entry(c) \in LogEntry
      BY <2>5, NextSnapshotType DEF OperationLost, OperationAccepted
    <3> QED
      BY <2>5, <3>1 DEF OperationLost, Persist, Finish, Goto, TypeOK, Store
  <2> QED BY <1>5, <2>1, <2>2, <2>3, <2>4, <2>5 DEF Operation
<1>6. ASSUME NEW h \in Handlers, Delete(h) PROVE TypeOK'
  <2>1. CASE LockDelete(h)
    BY <2>1 DEF LockDelete, LockExclusive, Goto, TypeOK, Exclusive
  <2>2. CASE DeleteRefused(h)
    BY <2>2 DEF DeleteRefused, Finish, Goto, TypeOK
  <2>3. CASE DeleteCommitted(h)
    BY <2>3, EmptySnapshotType
    DEF DeleteCommitted, DeleteRows, NoRows, Goto, TypeOK, Exclusive, Store
  <2>4. CASE DeleteLost(h)
    BY <2>4, EmptySnapshotType
    DEF DeleteLost, DeleteRows, NoRows, Finish, Goto, TypeOK, Store
  <2>5. CASE DeleteClose(h)
    BY <2>5 DEF DeleteClose, Closed, Finish, Goto, TypeOK, Runtime
  <2> QED BY <1>6, <2>1, <2>2, <2>3, <2>4, <2>5 DEF Delete
<1> QED BY <1>1, <1>2, <1>3, <1>4, <1>5, <1>6 DEF Next

\* In every reachable state the rows, the runtime and the handlers have their
\* types; in particular every object is well formed.
THEOREM TypeCorrect == Spec => []TypeOK
<1>1. Init => TypeOK
  BY TypeInit
<1>2. TypeOK /\ [Next]_vars => TypeOK'
  BY TypeStep
<1> QED BY <1>1, <1>2, PTL DEF Spec

-----------------------------------------------------------------------------
(* The inductive invariant *)

LEMMA InvInit == Init => IInv
<1> SUFFICES ASSUME Init PROVE IInv
  OBVIOUS
<1>1. TypeOK
  BY TypeInit
<1>2. MutexInv /\ EpochInv /\ DeletionInv /\ ReadInv
  BY DEF Init, MutexInv, EpochInv, DeletionInv, ReadInv, NoRuntime, Inside,
     Shared, Exclusive
<1>3. RuntimeMatchesStore /\ AckInv
  BY DEF Init, RuntimeMatchesStore, AckInv, AckedIsDurable, NoRuntime
<1> QED BY <1>1, <1>2, <1>3 DEF IInv


\* Locking respects who is inside; a new mutex is younger than all others.
LEMMA MutexStep == IInv /\ [Next]_vars => MutexInv'
<1> SUFFICES ASSUME IInv, [Next]_vars PROVE MutexInv'
  OBVIOUS
<1>1. CASE UNCHANGED vars
  BY <1>1 DEF vars, MutexInv, Inside, TypeOK, IInv, Waiting, Shared,
     Exclusive
<1>2. CASE Crash
  BY <1>2 DEF Crash, NoRuntime, MutexInv, Inside, TypeOK, IInv, Waiting,
     Shared, Exclusive
<1>3. ASSUME NEW h \in Handlers, Request(h) PROVE MutexInv'
  <2>1. CASE StartJoin(h)
    BY <2>1 DEF StartJoin, GetMutex, Goto, MutexInv, Inside, TypeOK, IInv,
       Waiting, Shared, Exclusive
  <2>2. CASE StartOperation(h)
    BY <2>2 DEF StartOperation, GetMutex, Goto, MutexInv, Inside, TypeOK,
       IInv, Waiting, Shared, Exclusive
  <2>3. CASE StartDelete(h)
    BY <2>3 DEF StartDelete, GetMutex, Goto, MutexInv, Inside, TypeOK, IInv,
       Waiting, Shared, Exclusive
  <2>4. CASE Leave(h)
    BY <2>4 DEF Leave, MutexInv, Inside, TypeOK, IInv, Waiting, Shared,
       Exclusive
  <2> QED BY <1>3, <2>1, <2>2, <2>3, <2>4 DEF Request
<1>4. ASSUME NEW h \in Handlers, Join(h) PROVE MutexInv'
  <2>1. CASE LockJoin(h)
    BY <2>1 DEF LockJoin, LockShared, Companions, Goto, MutexInv, Inside,
       TypeOK, IInv, Waiting, Shared, Exclusive
  <2>2. CASE JoinRefused(h)
    BY <2>2 DEF JoinRefused, Finish, Goto, MutexInv, Inside, TypeOK, IInv,
       Waiting, Shared, Exclusive
  <2>3. CASE JoinReadBoard(h)
    BY <2>3 DEF JoinReadBoard, Goto, MutexInv, Inside, TypeOK, IInv,
       Waiting, Shared, Exclusive
  <2>4. CASE JoinReadObjects(h)
    BY <2>4 DEF JoinReadObjects, Goto, MutexInv, Inside, TypeOK, IInv,
       Waiting, Shared, Exclusive
  <2>5. CASE JoinInstall(h)
    BY <2>5 DEF JoinInstall, GetOrCreate, Finish, Goto, MutexInv, Inside,
       TypeOK, IInv, Waiting, Shared, Exclusive
  <2> QED BY <1>4, <2>1, <2>2, <2>3, <2>4, <2>5 DEF Join
<1>5. ASSUME NEW h \in Handlers, Operation(h) PROVE MutexInv'
  <2>1. CASE LockOperation(h)
    BY <2>1 DEF LockOperation, LockShared, Companions, Goto, MutexInv,
       Inside, TypeOK, IInv, Waiting, Shared, Exclusive
  <2>2. ASSUME NEW base \in 0 .. MaxRevision, NEW c \in Commands,
               OperationRejected(h, base, c)
        PROVE  MutexInv'
    BY <2>2 DEF OperationRejected, Finish, Goto, MutexInv, Inside, TypeOK,
       IInv, Waiting, Shared, Exclusive
  <2>3. ASSUME NEW base \in 0 .. MaxRevision, NEW c \in Commands,
               OperationCommitted(h, base, c)
        PROVE  MutexInv'
    BY <2>3, NextSnapshotType DEF OperationCommitted, OperationAccepted,
       Persist, Insertable, Finish, Goto, MutexInv, Inside, TypeOK, IInv,
       Waiting, Shared, Exclusive
  <2>4. ASSUME NEW base \in 0 .. MaxRevision, NEW c \in Commands,
               OperationRolledBack(h, base, c)
        PROVE  MutexInv'
    BY <2>4 DEF OperationRolledBack, Finish, Goto, MutexInv, Inside, TypeOK,
       IInv, Waiting, Shared, Exclusive
  <2>5. ASSUME NEW base \in 0 .. MaxRevision, NEW c \in Commands,
               OperationLost(h, base, c)
        PROVE  MutexInv'
    BY <2>5, NextSnapshotType DEF OperationLost, OperationAccepted, Persist,
       Insertable, Finish, Goto, MutexInv, Inside, TypeOK, IInv, Waiting,
       Shared, Exclusive
  <2> QED BY <1>5, <2>1, <2>2, <2>3, <2>4, <2>5 DEF Operation
<1>6. ASSUME NEW h \in Handlers, Delete(h) PROVE MutexInv'
  <2>1. CASE LockDelete(h)
    BY <2>1 DEF LockDelete, LockExclusive, Companions, Goto, MutexInv,
       Inside, TypeOK, IInv, Waiting, Shared, Exclusive
  <2>2. CASE DeleteRefused(h)
    BY <2>2 DEF DeleteRefused, Finish, Goto, MutexInv, Inside, TypeOK, IInv,
       Waiting, Shared, Exclusive
  <2>3. CASE DeleteCommitted(h)
    BY <2>3 DEF DeleteCommitted, DeleteRows, NoRows, Goto, MutexInv, Inside,
       TypeOK, IInv, Waiting, Shared, Exclusive
  <2>4. CASE DeleteLost(h)
    BY <2>4 DEF DeleteLost, DeleteRows, NoRows, Finish, Goto, MutexInv,
       Inside, TypeOK, IInv, Waiting, Shared, Exclusive
  <2>5. CASE DeleteClose(h)
    BY <2>5 DEF DeleteClose, Closed, Finish, Goto, MutexInv, Inside, TypeOK,
       IInv, Waiting, Shared, Exclusive
  <2> QED BY <1>6, <2>1, <2>2, <2>3, <2>4, <2>5 DEF Delete
<1> QED BY <1>1, <1>2, <1>3, <1>4, <1>5, <1>6 DEF Next


\* The mutex is forgotten when the board is gone, and it stays gone.
LEMMA EpochStep == IInv /\ [Next]_vars => EpochInv'
<1> SUFFICES ASSUME IInv, [Next]_vars PROVE EpochInv'
  OBVIOUS
<1>1. CASE UNCHANGED vars
  BY <1>1 DEF vars, EpochInv, MutexInv, DeletionInv, Inside, TypeOK, IInv,
     Waiting, Shared, Exclusive
<1>2. CASE Crash
  BY <1>2 DEF Crash, NoRuntime, EpochInv, MutexInv, DeletionInv, Inside,
     TypeOK, IInv, Waiting, Shared, Exclusive
<1>3. ASSUME NEW h \in Handlers, Request(h) PROVE EpochInv'
  <2>1. CASE StartJoin(h)
    BY <2>1 DEF StartJoin, GetMutex, Goto, EpochInv, MutexInv, DeletionInv,
       Inside, TypeOK, IInv, Waiting, Shared, Exclusive
  <2>2. CASE StartOperation(h)
    BY <2>2 DEF StartOperation, GetMutex, Goto, EpochInv, MutexInv,
       DeletionInv, Inside, TypeOK, IInv, Waiting, Shared, Exclusive
  <2>3. CASE StartDelete(h)
    BY <2>3 DEF StartDelete, GetMutex, Goto, EpochInv, MutexInv,
       DeletionInv, Inside, TypeOK, IInv, Waiting, Shared, Exclusive
  <2>4. CASE Leave(h)
    BY <2>4 DEF Leave, EpochInv, MutexInv, DeletionInv, Inside, TypeOK,
       IInv, Waiting, Shared, Exclusive
  <2> QED BY <1>3, <2>1, <2>2, <2>3, <2>4 DEF Request
<1>4. ASSUME NEW h \in Handlers, Join(h) PROVE EpochInv'
  <2>1. CASE LockJoin(h)
    BY <2>1 DEF LockJoin, LockShared, Companions, Goto, EpochInv, MutexInv,
       DeletionInv, Inside, TypeOK, IInv, Waiting, Shared, Exclusive
  <2>2. CASE JoinRefused(h)
    BY <2>2 DEF JoinRefused, Finish, Goto, EpochInv, MutexInv, DeletionInv,
       Inside, TypeOK, IInv, Waiting, Shared, Exclusive
  <2>3. CASE JoinReadBoard(h)
    BY <2>3 DEF JoinReadBoard, Goto, EpochInv, MutexInv, DeletionInv,
       Inside, TypeOK, IInv, Waiting, Shared, Exclusive
  <2>4. CASE JoinReadObjects(h)
    BY <2>4 DEF JoinReadObjects, Goto, EpochInv, MutexInv, DeletionInv,
       Inside, TypeOK, IInv, Waiting, Shared, Exclusive
  <2>5. CASE JoinInstall(h)
    BY <2>5 DEF JoinInstall, GetOrCreate, Finish, Goto, EpochInv, MutexInv,
       DeletionInv, Inside, TypeOK, IInv, Waiting, Shared, Exclusive
  <2> QED BY <1>4, <2>1, <2>2, <2>3, <2>4, <2>5 DEF Join
<1>5. ASSUME NEW h \in Handlers, Operation(h) PROVE EpochInv'
  <2>1. CASE LockOperation(h)
    BY <2>1 DEF LockOperation, LockShared, Companions, Goto, EpochInv,
       MutexInv, DeletionInv, Inside, TypeOK, IInv, Waiting, Shared,
       Exclusive
  <2>2. ASSUME NEW base \in 0 .. MaxRevision, NEW c \in Commands,
               OperationRejected(h, base, c)
        PROVE  EpochInv'
    BY <2>2 DEF OperationRejected, Finish, Goto, EpochInv, MutexInv,
       DeletionInv, Inside, TypeOK, IInv, Waiting, Shared, Exclusive
  <2>3. ASSUME NEW base \in 0 .. MaxRevision, NEW c \in Commands,
               OperationCommitted(h, base, c)
        PROVE  EpochInv'
    BY <2>3, NextSnapshotType DEF OperationCommitted, OperationAccepted,
       Persist, Insertable, Finish, Goto, EpochInv, MutexInv, DeletionInv,
       Inside, TypeOK, IInv, Waiting, Shared, Exclusive
  <2>4. ASSUME NEW base \in 0 .. MaxRevision, NEW c \in Commands,
               OperationRolledBack(h, base, c)
        PROVE  EpochInv'
    BY <2>4 DEF OperationRolledBack, Finish, Goto, EpochInv, MutexInv,
       DeletionInv, Inside, TypeOK, IInv, Waiting, Shared, Exclusive
  <2>5. ASSUME NEW base \in 0 .. MaxRevision, NEW c \in Commands,
               OperationLost(h, base, c)
        PROVE  EpochInv'
    BY <2>5, NextSnapshotType DEF OperationLost, OperationAccepted, Persist,
       Insertable, Finish, Goto, EpochInv, MutexInv, DeletionInv, Inside,
       TypeOK, IInv, Waiting, Shared, Exclusive
  <2> QED BY <1>5, <2>1, <2>2, <2>3, <2>4, <2>5 DEF Operation
<1>6. ASSUME NEW h \in Handlers, Delete(h) PROVE EpochInv'
  <2>1. CASE LockDelete(h)
    BY <2>1 DEF LockDelete, LockExclusive, Companions, Goto, EpochInv,
       MutexInv, DeletionInv, Inside, TypeOK, IInv, Waiting, Shared,
       Exclusive
  <2>2. CASE DeleteRefused(h)
    BY <2>2 DEF DeleteRefused, Finish, Goto, EpochInv, MutexInv,
       DeletionInv, Inside, TypeOK, IInv, Waiting, Shared, Exclusive
  <2>3. CASE DeleteCommitted(h)
    BY <2>3 DEF DeleteCommitted, DeleteRows, NoRows, Goto, EpochInv,
       MutexInv, DeletionInv, Inside, TypeOK, IInv, Waiting, Shared,
       Exclusive
  <2>4. CASE DeleteLost(h)
    BY <2>4 DEF DeleteLost, DeleteRows, NoRows, Finish, Goto, EpochInv,
       MutexInv, DeletionInv, Inside, TypeOK, IInv, Waiting, Shared,
       Exclusive
  <2>5. CASE DeleteClose(h)
    BY <2>5 DEF DeleteClose, Closed, Finish, Goto, EpochInv, MutexInv,
       DeletionInv, Inside, TypeOK, IInv, Waiting, Shared, Exclusive
  <2> QED BY <1>6, <2>1, <2>2, <2>3, <2>4, <2>5 DEF Delete
<1> QED BY <1>1, <1>2, <1>3, <1>4, <1>5, <1>6 DEF Next


\* No operation brings back a row that a delete removed for good.
LEMMA DeletionStep == IInv /\ [Next]_vars => DeletionInv'
<1> SUFFICES ASSUME IInv, [Next]_vars PROVE DeletionInv'
  OBVIOUS
<1>1. CASE UNCHANGED vars
  BY <1>1 DEF vars, DeletionInv, EpochInv, MutexInv, ReadInv, Inside,
     TypeOK, IInv, Waiting, Shared, Exclusive
<1>2. CASE Crash
  BY <1>2 DEF Crash, NoRuntime, DeletionInv, EpochInv, MutexInv, ReadInv,
     Inside, TypeOK, IInv, Waiting, Shared, Exclusive
<1>3. ASSUME NEW h \in Handlers, Request(h) PROVE DeletionInv'
  <2>1. CASE StartJoin(h)
    BY <2>1 DEF StartJoin, GetMutex, Goto, DeletionInv, EpochInv, MutexInv,
       ReadInv, Inside, TypeOK, IInv, Waiting, Shared, Exclusive
  <2>2. CASE StartOperation(h)
    BY <2>2 DEF StartOperation, GetMutex, Goto, DeletionInv, EpochInv,
       MutexInv, ReadInv, Inside, TypeOK, IInv, Waiting, Shared, Exclusive
  <2>3. CASE StartDelete(h)
    BY <2>3 DEF StartDelete, GetMutex, Goto, DeletionInv, EpochInv,
       MutexInv, ReadInv, Inside, TypeOK, IInv, Waiting, Shared, Exclusive
  <2>4. CASE Leave(h)
    BY <2>4 DEF Leave, DeletionInv, EpochInv, MutexInv, ReadInv, Inside,
       TypeOK, IInv, Waiting, Shared, Exclusive
  <2> QED BY <1>3, <2>1, <2>2, <2>3, <2>4 DEF Request
<1>4. ASSUME NEW h \in Handlers, Join(h) PROVE DeletionInv'
  <2>1. CASE LockJoin(h)
    BY <2>1 DEF LockJoin, LockShared, Companions, Goto, DeletionInv,
       EpochInv, MutexInv, ReadInv, Inside, TypeOK, IInv, Waiting, Shared,
       Exclusive
  <2>2. CASE JoinRefused(h)
    BY <2>2 DEF JoinRefused, Finish, Goto, DeletionInv, EpochInv, MutexInv,
       ReadInv, Inside, TypeOK, IInv, Waiting, Shared, Exclusive
  <2>3. CASE JoinReadBoard(h)
    BY <2>3 DEF JoinReadBoard, Goto, DeletionInv, EpochInv, MutexInv,
       ReadInv, Inside, TypeOK, IInv, Waiting, Shared, Exclusive
  <2>4. CASE JoinReadObjects(h)
    BY <2>4 DEF JoinReadObjects, Goto, DeletionInv, EpochInv, MutexInv,
       ReadInv, Inside, TypeOK, IInv, Waiting, Shared, Exclusive
  <2>5. CASE JoinInstall(h)
    BY <2>5 DEF JoinInstall, GetOrCreate, Finish, Goto, DeletionInv,
       EpochInv, MutexInv, ReadInv, Inside, TypeOK, IInv, Waiting, Shared,
       Exclusive
  <2> QED BY <1>4, <2>1, <2>2, <2>3, <2>4, <2>5 DEF Join
<1>5. ASSUME NEW h \in Handlers, Operation(h) PROVE DeletionInv'
  <2>1. CASE LockOperation(h)
    BY <2>1 DEF LockOperation, LockShared, Companions, Goto, DeletionInv,
       EpochInv, MutexInv, ReadInv, Inside, TypeOK, IInv, Waiting, Shared,
       Exclusive
  <2>2. ASSUME NEW base \in 0 .. MaxRevision, NEW c \in Commands,
               OperationRejected(h, base, c)
        PROVE  DeletionInv'
    BY <2>2 DEF OperationRejected, Finish, Goto, DeletionInv, EpochInv,
       MutexInv, ReadInv, Inside, TypeOK, IInv, Waiting, Shared, Exclusive
  <2>3. ASSUME NEW base \in 0 .. MaxRevision, NEW c \in Commands,
               OperationCommitted(h, base, c)
        PROVE  DeletionInv'
    BY <2>3, NextSnapshotType DEF OperationCommitted, OperationAccepted,
       Persist, Insertable, Finish, Goto, DeletionInv, EpochInv, MutexInv,
       ReadInv, Inside, TypeOK, IInv, Waiting, Shared, Exclusive
  <2>4. ASSUME NEW base \in 0 .. MaxRevision, NEW c \in Commands,
               OperationRolledBack(h, base, c)
        PROVE  DeletionInv'
    BY <2>4 DEF OperationRolledBack, Finish, Goto, DeletionInv, EpochInv,
       MutexInv, ReadInv, Inside, TypeOK, IInv, Waiting, Shared, Exclusive
  <2>5. ASSUME NEW base \in 0 .. MaxRevision, NEW c \in Commands,
               OperationLost(h, base, c)
        PROVE  DeletionInv'
    BY <2>5, NextSnapshotType DEF OperationLost, OperationAccepted, Persist,
       Insertable, Finish, Goto, DeletionInv, EpochInv, MutexInv, ReadInv,
       Inside, TypeOK, IInv, Waiting, Shared, Exclusive
  <2> QED BY <1>5, <2>1, <2>2, <2>3, <2>4, <2>5 DEF Operation
<1>6. ASSUME NEW h \in Handlers, Delete(h) PROVE DeletionInv'
  <2>1. CASE LockDelete(h)
    BY <2>1 DEF LockDelete, LockExclusive, Companions, Goto, DeletionInv,
       EpochInv, MutexInv, ReadInv, Inside, TypeOK, IInv, Waiting, Shared,
       Exclusive
  <2>2. CASE DeleteRefused(h)
    BY <2>2 DEF DeleteRefused, Finish, Goto, DeletionInv, EpochInv,
       MutexInv, ReadInv, Inside, TypeOK, IInv, Waiting, Shared, Exclusive
  <2>3. CASE DeleteCommitted(h)
    BY <2>3 DEF DeleteCommitted, DeleteRows, NoRows, Goto, DeletionInv,
       EpochInv, MutexInv, ReadInv, Inside, TypeOK, IInv, Waiting, Shared,
       Exclusive
  <2>4. CASE DeleteLost(h)
    BY <2>4 DEF DeleteLost, DeleteRows, NoRows, Finish, Goto, DeletionInv,
       EpochInv, MutexInv, ReadInv, Inside, TypeOK, IInv, Waiting, Shared,
       Exclusive
  <2>5. CASE DeleteClose(h)
    BY <2>5 DEF DeleteClose, Closed, Finish, Goto, DeletionInv, EpochInv,
       MutexInv, ReadInv, Inside, TypeOK, IInv, Waiting, Shared, Exclusive
  <2> QED BY <1>6, <2>1, <2>2, <2>3, <2>4, <2>5 DEF Delete
<1> QED BY <1>1, <1>2, <1>3, <1>4, <1>5, <1>6 DEF Next


\* Only operations of an open runtime and exclusive deletes change the rows.
LEMMA ReadStep == IInv /\ [Next]_vars => ReadInv'
<1> SUFFICES ASSUME IInv, [Next]_vars PROVE ReadInv'
  OBVIOUS
<1>1. CASE UNCHANGED vars
  BY <1>1 DEF vars, ReadInv, DeletionInv, EpochInv, MutexInv, Inside, Store,
     Runtime, Snapshot, TypeOK, IInv, Waiting, Shared, Exclusive
<1>2. CASE Crash
  BY <1>2 DEF Crash, NoRuntime, ReadInv, DeletionInv, EpochInv, MutexInv,
     Inside, Store, Runtime, Snapshot, TypeOK, IInv, Waiting, Shared,
     Exclusive
<1>3. ASSUME NEW h \in Handlers, Request(h) PROVE ReadInv'
  <2>1. CASE StartJoin(h)
    BY <2>1 DEF StartJoin, GetMutex, Goto, ReadInv, DeletionInv, EpochInv,
       MutexInv, Inside, Store, Runtime, Snapshot, TypeOK, IInv, Waiting,
       Shared, Exclusive
  <2>2. CASE StartOperation(h)
    BY <2>2 DEF StartOperation, GetMutex, Goto, ReadInv, DeletionInv,
       EpochInv, MutexInv, Inside, Store, Runtime, Snapshot, TypeOK, IInv,
       Waiting, Shared, Exclusive
  <2>3. CASE StartDelete(h)
    BY <2>3 DEF StartDelete, GetMutex, Goto, ReadInv, DeletionInv, EpochInv,
       MutexInv, Inside, Store, Runtime, Snapshot, TypeOK, IInv, Waiting,
       Shared, Exclusive
  <2>4. CASE Leave(h)
    BY <2>4 DEF Leave, ReadInv, DeletionInv, EpochInv, MutexInv, Inside,
       Store, Runtime, Snapshot, TypeOK, IInv, Waiting, Shared, Exclusive
  <2> QED BY <1>3, <2>1, <2>2, <2>3, <2>4 DEF Request
<1>4. ASSUME NEW h \in Handlers, Join(h) PROVE ReadInv'
  <2>1. CASE LockJoin(h)
    BY <2>1 DEF LockJoin, LockShared, Companions, Goto, ReadInv,
       DeletionInv, EpochInv, MutexInv, Inside, Store, Runtime, Snapshot,
       TypeOK, IInv, Waiting, Shared, Exclusive
  <2>2. CASE JoinRefused(h)
    BY <2>2 DEF JoinRefused, Finish, Goto, ReadInv, DeletionInv, EpochInv,
       MutexInv, Inside, Store, Runtime, Snapshot, TypeOK, IInv, Waiting,
       Shared, Exclusive
  <2>3. CASE JoinReadBoard(h)
    BY <2>3 DEF JoinReadBoard, Goto, ReadInv, DeletionInv, EpochInv,
       MutexInv, Inside, Store, Runtime, Snapshot, TypeOK, IInv, Waiting,
       Shared, Exclusive
  <2>4. CASE JoinReadObjects(h)
    BY <2>4 DEF JoinReadObjects, Goto, ReadInv, DeletionInv, EpochInv,
       MutexInv, Inside, Store, Runtime, Snapshot, TypeOK, IInv, Waiting,
       Shared, Exclusive
  <2>5. CASE JoinInstall(h)
    BY <2>5 DEF JoinInstall, GetOrCreate, Finish, Goto, ReadInv,
       DeletionInv, EpochInv, MutexInv, Inside, Store, Runtime, Snapshot,
       TypeOK, IInv, Waiting, Shared, Exclusive
  <2> QED BY <1>4, <2>1, <2>2, <2>3, <2>4, <2>5 DEF Join
<1>5. ASSUME NEW h \in Handlers, Operation(h) PROVE ReadInv'
  <2>1. CASE LockOperation(h)
    BY <2>1 DEF LockOperation, LockShared, Companions, Goto, ReadInv,
       DeletionInv, EpochInv, MutexInv, Inside, Store, Runtime, Snapshot,
       TypeOK, IInv, Waiting, Shared, Exclusive
  <2>2. ASSUME NEW base \in 0 .. MaxRevision, NEW c \in Commands,
               OperationRejected(h, base, c)
        PROVE  ReadInv'
    BY <2>2 DEF OperationRejected, Finish, Goto, ReadInv, DeletionInv,
       EpochInv, MutexInv, Inside, Store, Runtime, Snapshot, TypeOK, IInv,
       Waiting, Shared, Exclusive
  <2>3. ASSUME NEW base \in 0 .. MaxRevision, NEW c \in Commands,
               OperationCommitted(h, base, c)
        PROVE  ReadInv'
    BY <2>3, NextSnapshotType DEF OperationCommitted, OperationAccepted,
       Persist, Insertable, Finish, Goto, ReadInv, DeletionInv, EpochInv,
       MutexInv, Inside, Store, Runtime, Snapshot, TypeOK, IInv, Waiting,
       Shared, Exclusive
  <2>4. ASSUME NEW base \in 0 .. MaxRevision, NEW c \in Commands,
               OperationRolledBack(h, base, c)
        PROVE  ReadInv'
    BY <2>4 DEF OperationRolledBack, Finish, Goto, ReadInv, DeletionInv,
       EpochInv, MutexInv, Inside, Store, Runtime, Snapshot, TypeOK, IInv,
       Waiting, Shared, Exclusive
  <2>5. ASSUME NEW base \in 0 .. MaxRevision, NEW c \in Commands,
               OperationLost(h, base, c)
        PROVE  ReadInv'
    BY <2>5, NextSnapshotType DEF OperationLost, OperationAccepted, Persist,
       Insertable, Finish, Goto, ReadInv, DeletionInv, EpochInv, MutexInv,
       Inside, Store, Runtime, Snapshot, TypeOK, IInv, Waiting, Shared,
       Exclusive
  <2> QED BY <1>5, <2>1, <2>2, <2>3, <2>4, <2>5 DEF Operation
<1>6. ASSUME NEW h \in Handlers, Delete(h) PROVE ReadInv'
  <2>1. CASE LockDelete(h)
    BY <2>1 DEF LockDelete, LockExclusive, Companions, Goto, ReadInv,
       DeletionInv, EpochInv, MutexInv, Inside, Store, Runtime, Snapshot,
       TypeOK, IInv, Waiting, Shared, Exclusive
  <2>2. CASE DeleteRefused(h)
    BY <2>2 DEF DeleteRefused, Finish, Goto, ReadInv, DeletionInv, EpochInv,
       MutexInv, Inside, Store, Runtime, Snapshot, TypeOK, IInv, Waiting,
       Shared, Exclusive
  <2>3. CASE DeleteCommitted(h)
    BY <2>3 DEF DeleteCommitted, DeleteRows, NoRows, Goto, ReadInv,
       DeletionInv, EpochInv, MutexInv, Inside, Store, Runtime, Snapshot,
       TypeOK, IInv, Waiting, Shared, Exclusive
  <2>4. CASE DeleteLost(h)
    BY <2>4 DEF DeleteLost, DeleteRows, NoRows, Finish, Goto, ReadInv,
       DeletionInv, EpochInv, MutexInv, Inside, Store, Runtime, Snapshot,
       TypeOK, IInv, Waiting, Shared, Exclusive
  <2>5. CASE DeleteClose(h)
    BY <2>5 DEF DeleteClose, Closed, Finish, Goto, ReadInv, DeletionInv,
       EpochInv, MutexInv, Inside, Store, Runtime, Snapshot, TypeOK, IInv,
       Waiting, Shared, Exclusive
  <2> QED BY <1>6, <2>1, <2>2, <2>3, <2>4, <2>5 DEF Delete
<1> QED BY <1>1, <1>2, <1>3, <1>4, <1>5, <1>6 DEF Next

\* The steps that neither persist, delete, install, close nor crash leave
\* untouched all that RuntimeMatchesStore and AckInv speak of.
Quiet == UNCHANGED <<store, runtime, acked, deletion>>

LEMMA QuietSteps ==
    ASSUME NEW h \in Handlers,
           \/ Request(h)
           \/ LockJoin(h) \/ JoinRefused(h) \/ JoinReadBoard(h)
           \/ JoinReadObjects(h)
           \/ LockOperation(h)
           \/ \E base \in 0 .. MaxRevision, c \in Commands :
                OperationRejected(h, base, c) \/ OperationRolledBack(h, base, c)
           \/ LockDelete(h) \/ DeleteRefused(h)
    PROVE  Quiet
BY DEF Quiet, Request, StartJoin, StartOperation, StartDelete, Leave,
   LockJoin, JoinRefused, JoinReadBoard, JoinReadObjects, LockOperation,
   OperationRejected, OperationRolledBack, LockDelete, DeleteRefused,
   LockShared, LockExclusive

\* The other steps, one by one.
LEMMA StepCases ==
    ASSUME [Next]_vars
    PROVE  \/ Quiet
           \/ Crash
           \/ \E h \in Handlers :
                \/ JoinInstall(h)
                \/ \E base \in 0 .. MaxRevision, c \in Commands :
                     OperationCommitted(h, base, c) \/ OperationLost(h, base, c)
                \/ DeleteCommitted(h) \/ DeleteLost(h) \/ DeleteClose(h)
<1>1. CASE UNCHANGED vars
  BY <1>1 DEF vars, Quiet
<1>2. CASE Next
  BY <1>2, QuietSteps DEF Next, Join, Operation, Delete
<1> QED BY <1>1, <1>2

\* After an operation whose COMMIT was lost, the primary key of
\* board_operations keeps the store from running any further ahead.
LEMMA MatchStep == IInv /\ [Next]_vars => RuntimeMatchesStore'
<1> SUFFICES ASSUME IInv, [Next]_vars PROVE RuntimeMatchesStore'
  OBVIOUS
<1> USE DEF IInv
<1>1. CASE Quiet
  BY <1>1 DEF Quiet, RuntimeMatchesStore, OneAhead, NextSnapshot, Entry
<1>2. CASE Crash
  BY <1>2 DEF Crash, NoRuntime, RuntimeMatchesStore
<1>3. ASSUME NEW h \in Handlers, JoinInstall(h) PROVE RuntimeMatchesStore'
  <2>1. CASE runtime.status = "open"
    <3>1. UNCHANGED <<store, runtime, acked>>
      BY <1>3, <2>1 DEF JoinInstall, GetOrCreate
    <3> QED
      BY <3>1 DEF RuntimeMatchesStore, OneAhead, NextSnapshot, Entry
  <2>2. CASE runtime.status # "open"
    <3>1. read[h] = store.snapshot
      BY <1>3, <2>2 DEF JoinInstall, ReadInv, TypeOK, Snapshot, Store
    <3>2. runtime'.snapshot = store'.snapshot
      BY <1>3, <2>2, <3>1 DEF JoinInstall, GetOrCreate
    <3> QED BY <3>2 DEF RuntimeMatchesStore
  <2> QED BY <2>1, <2>2
<1>4. ASSUME NEW h \in Handlers, NEW base \in 0 .. MaxRevision,
             NEW c \in Commands, OperationCommitted(h, base, c)
      PROVE  RuntimeMatchesStore'
  <2>1. runtime'.snapshot = store'.snapshot
    BY <1>4 DEF OperationCommitted, Persist, TypeOK, Runtime
  <2> QED BY <2>1 DEF RuntimeMatchesStore
<1>5. ASSUME NEW h \in Handlers, NEW base \in 0 .. MaxRevision,
             NEW c \in Commands, OperationLost(h, base, c)
      PROVE  RuntimeMatchesStore'
  <2>1. /\ Accepts(runtime.snapshot.objects, c)
        /\ runtime.status = "open"
        /\ UNCHANGED <<runtime, acked>>
        /\ store'.snapshot = NextSnapshot(c)
        /\ Entry(c) \in store'.log
    BY <1>5 DEF OperationLost, OperationAccepted, Persist
  <2>2. Entry(c) \notin acked
    <3>1. Entry(c).revision = runtime.snapshot.revision + 1
      BY <2>1, NextSnapshotType
    <3>2. \A e \in acked : e.revision <= runtime.snapshot.revision
      BY <2>1 DEF AckInv
    <3> QED
      BY <3>1, <3>2 DEF TypeOK, Runtime, Snapshot, LogEntry
  <2>3. OneAhead'
    BY <2>1, <2>2 DEF OneAhead, NextSnapshot, Entry
  <2> QED BY <2>3 DEF RuntimeMatchesStore
<1>6. ASSUME NEW h \in Handlers, DeleteCommitted(h) \/ DeleteLost(h)
      PROVE  RuntimeMatchesStore'
  BY <1>6 DEF DeleteCommitted, DeleteLost, DeleteRows, NoRows,
     RuntimeMatchesStore
<1>7. ASSUME NEW h \in Handlers, DeleteClose(h) PROVE RuntimeMatchesStore'
  BY <1>7 DEF DeleteClose, Closed, RuntimeMatchesStore, DeletionInv
<1> QED
  BY <1>1, <1>2, <1>3, <1>4, <1>5, <1>6, <1>7, StepCases

\* Only a revision beyond all acknowledged ones is ever acknowledged.
LEMMA AckStep == IInv /\ [Next]_vars => AckInv'
<1> SUFFICES ASSUME IInv, [Next]_vars PROVE AckInv'
  OBVIOUS
<1> USE DEF IInv
<1>1. CASE Quiet
  BY <1>1 DEF Quiet, AckInv, AckedIsDurable
<1>2. CASE Crash
  BY <1>2 DEF Crash, NoRuntime, AckInv, AckedIsDurable
<1>3. ASSUME NEW h \in Handlers, JoinInstall(h) PROVE AckInv'
  <2>1. UNCHANGED <<store, acked, deletion>>
    BY <1>3 DEF JoinInstall
  <2>2. \A e \in acked : e.revision <= runtime'.snapshot.revision
    <3>1. CASE runtime.status = "open"
      BY <1>3, <3>1 DEF JoinInstall, GetOrCreate, AckInv
    <3>2. CASE runtime.status # "open"
      <4>1. store.exists /\ read[h].revision = store.snapshot.revision
        BY <1>3, <3>2 DEF JoinInstall, ReadInv
      <4> QED
        BY <1>3, <3>2, <4>1 DEF JoinInstall, GetOrCreate, AckInv
    <3> QED BY <3>1, <3>2
  <2> QED BY <2>1, <2>2 DEF AckInv, AckedIsDurable
<1>4. ASSUME NEW h \in Handlers, NEW base \in 0 .. MaxRevision,
             NEW c \in Commands, OperationCommitted(h, base, c)
      PROVE  AckInv'
  <2>1. /\ runtime.status = "open"
        /\ runtime'.snapshot.revision = runtime.snapshot.revision + 1
        /\ store'.snapshot.revision = runtime.snapshot.revision + 1
        /\ Entry(c) \in LogEntry
        /\ Entry(c).revision = runtime.snapshot.revision + 1
        /\ acked' = acked \cup {Entry(c)}
        /\ store'.log = store.log \cup {Entry(c)}
        /\ deletion' = deletion
        /\ runtime.snapshot.revision \in Nat
    BY <1>4, NextSnapshotType
    DEF OperationCommitted, OperationAccepted, Persist, TypeOK, Runtime,
        Snapshot
  <2>2. \A e \in acked :
           e.revision \in Nat /\ e.revision <= runtime.snapshot.revision
    BY <2>1 DEF AckInv, TypeOK, LogEntry
  <2>3. \A e \in acked' : e.revision <= runtime.snapshot.revision + 1
    BY <2>1, <2>2
  <2>4. \A e, f \in acked' : e.revision = f.revision => e = f
    BY <2>1, <2>2 DEF AckInv, AckedIsDurable
  <2>5. deletion' = "none" => acked' \subseteq store'.log
    BY <2>1 DEF AckInv, AckedIsDurable
  <2> QED BY <2>1, <2>3, <2>4, <2>5 DEF AckInv, AckedIsDurable
<1>5. ASSUME NEW h \in Handlers, NEW base \in 0 .. MaxRevision,
             NEW c \in Commands, OperationLost(h, base, c)
      PROVE  AckInv'
  <2>1. /\ runtime.status = "open"
        /\ store'.snapshot.revision = runtime.snapshot.revision + 1
        /\ store.log \subseteq store'.log
        /\ UNCHANGED <<runtime, acked, deletion>>
        /\ runtime.snapshot.revision \in Nat
    BY <1>5, NextSnapshotType
    DEF OperationLost, OperationAccepted, Persist, TypeOK, Runtime, Snapshot
  <2>2. \A e \in acked :
           e.revision \in Nat /\ e.revision <= runtime.snapshot.revision
    BY <2>1 DEF AckInv, TypeOK, LogEntry
  <2> QED BY <2>1, <2>2 DEF AckInv, AckedIsDurable
<1>6. ASSUME NEW h \in Handlers, DeleteCommitted(h) \/ DeleteLost(h)
      PROVE  AckInv'
  BY <1>6 DEF DeleteCommitted, DeleteLost, DeleteRows, NoRows, AckInv,
     AckedIsDurable
<1>7. ASSUME NEW h \in Handlers, DeleteClose(h) PROVE AckInv'
  BY <1>7 DEF DeleteClose, Closed, AckInv, AckedIsDurable
<1> QED
  BY <1>1, <1>2, <1>3, <1>4, <1>5, <1>6, <1>7, StepCases

\* The strengthening holds in every reachable state.
THEOREM Invariance == Spec => []IInv
<1>1. Init => IInv
  BY InvInit
<1>2. IInv /\ [Next]_vars => IInv'
  BY TypeStep, MutexStep, EpochStep, DeletionStep, ReadStep, MatchStep,
     AckStep DEF IInv
<1> QED BY <1>1, <1>2, PTL DEF Spec

-----------------------------------------------------------------------------
(* The safety properties *)

\* The snapshot handed out is the database's, or exactly one lost COMMIT
\* behind it.
THEOREM RuntimeMatchesStoreHolds == Spec => []RuntimeMatchesStore
<1>1. IInv => RuntimeMatchesStore
  BY DEF IInv
<1> QED BY <1>1, Invariance, PTL

\* What a join has read is still true when it becomes the runtime.
THEOREM FreshInstallHolds == Spec => []FreshInstall
<1>1. IInv => FreshInstall
  BY DEF IInv, ReadInv, FreshInstall, TypeOK, Snapshot, Store
<1> QED BY <1>1, Invariance, PTL

\* Acknowledged operations survive crashes, and have revisions of their own.
THEOREM AckedIsDurableHolds == Spec => []AckedIsDurable
<1>1. IInv => AckedIsDurable
  BY DEF IInv, AckInv
<1> QED BY <1>1, Invariance, PTL

\* A deletion known to the server is final.
THEOREM DeletedStaysDeletedHolds == Spec => []DeletedStaysDeleted
<1>1. IInv => DeletedStaysDeleted
  BY DEF IInv, DeletionInv, DeletedStaysDeleted
<1> QED BY <1>1, Invariance, PTL

\* While a board can be seen, an exclusive handler is alone on it.
THEOREM ExclusiveWhileAliveHolds == Spec => []ExclusiveWhileAlive
<1>1. ASSUME IInv PROVE ExclusiveWhileAlive
  <2> SUFFICES ASSUME store.exists \/ runtime.status = "open",
                      NEW g \in Handlers, NEW h \in Handlers, g # h,
                      pc[g] \in Exclusive, Inside(h)
               PROVE  FALSE
    BY DEF ExclusiveWhileAlive, Inside
  <2>1. epoch = 0
    BY <1>1 DEF IInv, EpochInv, TypeOK
  <2>2. mutex[g] = 0 /\ mutex[h] = 0
    BY <1>1, <2>1 DEF IInv, MutexInv, TypeOK
  <2> QED BY <1>1, <2>2 DEF IInv, MutexInv
<1> QED BY <1>1, Invariance, PTL

-----------------------------------------------------------------------------
(* The operation log *)

\* What Replay comes to its value by: the objects after each revision.
Replays(after, log, n) ==
    after = [k \in 0 .. n |->
               IF k = 0 THEN NoObjects ELSE Apply(after[k - 1], Logged(log, k))]

\* Logs that agree up to a revision lead to the same objects until then.
LEMMA ReplaysAgree ==
    ASSUME NEW one, NEW other, NEW log, NEW more, NEW n \in Nat, NEW m \in Nat, n <= m,
           Replays(one, log, n), Replays(other, more, m),
           \A k \in 1 .. n : Logged(log, k) = Logged(more, k)
    PROVE  \A k \in 0 .. n : one[k] = other[k]
<1> DEFINE T == {k \in 0 .. n : one[k] # other[k]}
<1> SUFFICES ASSUME T # {} PROVE FALSE
  OBVIOUS
<1>1. PICK k \in T : \A j \in T : k <= j
  <2>1. T \subseteq Nat
    OBVIOUS
  <2> HIDE DEF T
  <2> QED BY <2>1, Least
<1>2. /\ k \in 0 .. n /\ k \in 0 .. m
      /\ one[k] = IF k = 0 THEN NoObjects ELSE Apply(one[k - 1], Logged(log, k))
      /\ other[k] = IF k = 0 THEN NoObjects ELSE Apply(other[k - 1], Logged(more, k))
  <2>1. k \in 0 .. n /\ k \in 0 .. m
    BY <1>1
  <2> QED BY <2>1 DEF Replays
<1>3. CASE k = 0
  BY <1>1, <1>2, <1>3
<1>4. CASE k # 0
  <2>1. k - 1 \in 0 .. n /\ ~(k <= k - 1) /\ k \in 1 .. n
    BY <1>2, <1>4
  <2>2. one[k - 1] = other[k - 1]
    BY <1>1, <2>1
  <2> QED BY <1>1, <1>2, <1>4, <2>1, <2>2
<1> QED BY <1>3, <1>4

\* The objects after one more revision.
LEMMA ReplaysOn ==
    ASSUME NEW log, NEW n \in Nat, NEW after, Replays(after, log, n)
    PROVE  \E then : Replays(then, log, n + 1)
<1> DEFINE then == [k \in 0 .. n + 1 |-> IF k <= n THEN after[k]
                                          ELSE Apply(after[n], Logged(log, n + 1))]
           again == [k \in 0 .. n + 1 |->
                       IF k = 0 THEN NoObjects ELSE Apply(then[k - 1], Logged(log, k))]
<1>1. ASSUME NEW k \in 0 .. n + 1 PROVE then[k] = again[k]
  <2>1. again[k] = IF k = 0 THEN NoObjects ELSE Apply(then[k - 1], Logged(log, k))
    OBVIOUS
  <2>2. CASE k = n + 1
    <3>1. then[k] = Apply(after[n], Logged(log, n + 1))
      BY <2>2
    <3>2. then[k - 1] = after[n] /\ k # 0
      BY <2>2
    <3> HIDE DEF then, again
    <3> QED BY <2>1, <2>2, <3>1, <3>2
  <2>3. CASE k # n + 1
    <3>1. k \in 0 .. n /\ then[k] = after[k]
      BY <2>3
    <3>2. after[k] = IF k = 0 THEN NoObjects ELSE Apply(after[k - 1], Logged(log, k))
      BY <3>1 DEF Replays
    <3>3. k # 0 => then[k - 1] = after[k - 1]
      BY <3>1
    <3> HIDE DEF then, again
    <3> QED BY <2>1, <3>1, <3>2, <3>3
  <2> QED BY <2>2, <2>3
<1>2. then = again
  BY <1>1
<1>3. Replays(then, log, n + 1)
  BY <1>2 DEF Replays
<1> HIDE DEF then
<1> QED BY <1>3

\* There are such objects for every revision.
LEMMA ReplaysExists ==
    ASSUME NEW log, NEW n \in Nat
    PROVE  \E after : Replays(after, log, n)
<1> DEFINE T == {k \in Nat : ~ \E after : Replays(after, log, k)}
<1> SUFFICES ASSUME T # {} PROVE FALSE
  OBVIOUS
<1>1. PICK k \in T : \A j \in T : k <= j
  BY Least
<1>2. CASE k = 0
  <2> DEFINE none == [j \in 0 .. 0 |-> NoObjects]
  <2>1. none = [j \in 0 .. 0 |->
                  IF j = 0 THEN NoObjects ELSE Apply(none[j - 1], Logged(log, j))]
    OBVIOUS
  <2>2. Replays(none, log, 0)
    BY <2>1 DEF Replays
  <2> HIDE DEF none
  <2> QED BY <1>1, <1>2, <2>2
<1>3. CASE k # 0
  <2>1. k - 1 \in Nat /\ ~(k <= k - 1) /\ (k - 1) + 1 = k
    BY <1>1, <1>3
  <2>2. PICK after : Replays(after, log, k - 1)
    BY <1>1, <2>1
  <2>3. PICK j \in Nat : j = k - 1
    BY <2>1
  <2>4. \E then : Replays(then, log, j + 1)
    BY <2>2, <2>3, ReplaysOn
  <2> QED BY <1>1, <2>1, <2>3, <2>4
<1> QED BY <1>2, <1>3

LEMMA ReplayIs ==
    ASSUME NEW log, NEW n \in Nat
    PROVE  \E after : Replays(after, log, n) /\ Replay(log, n) = after[n]
<1>1. PICK after : after = (CHOOSE f : Replays(f, log, n))
  OBVIOUS
<1>2. Replays(after, log, n)
  BY <1>1, ReplaysExists
<1>3. Replay(log, n) = after[n]
  BY <1>1 DEF Replay, Replays
<1> QED BY <1>2, <1>3

\* Replay depends on the revisions it replays only.
LEMMA ReplayOf ==
    ASSUME NEW log, NEW more, NEW n \in Nat,
           \A k \in 1 .. n : Logged(log, k) = Logged(more, k)
    PROVE  Replay(log, n) = Replay(more, n)
<1>1. PICK one : Replays(one, log, n) /\ Replay(log, n) = one[n]
  BY ReplayIs
<1>2. PICK other : Replays(other, more, n) /\ Replay(more, n) = other[n]
  BY ReplayIs
<1>3. n \in 0 .. n
  OBVIOUS
<1>4. \A k \in 0 .. n : one[k] = other[k]
  BY <1>1, <1>2, ReplaysAgree
<1> QED BY <1>1, <1>2, <1>3, <1>4

\* It starts from the empty board and applies the command of one revision
\* after the other.
LEMMA ReplayStep ==
    ASSUME NEW log
    PROVE  /\ Replay(log, 0) = NoObjects
           /\ \A n \in Nat : Replay(log, n + 1) = Apply(Replay(log, n), Logged(log, n + 1))
<1>1. Replay(log, 0) = NoObjects
  <2>1. PICK after : Replays(after, log, 0) /\ Replay(log, 0) = after[0]
    BY ReplayIs
  <2> QED BY <2>1 DEF Replays
<1>2. ASSUME NEW n \in Nat
      PROVE  Replay(log, n + 1) = Apply(Replay(log, n), Logged(log, n + 1))
  <2>1. PICK one : Replays(one, log, n) /\ Replay(log, n) = one[n]
    BY ReplayIs
  <2>2. PICK m \in Nat : m = n + 1
    OBVIOUS
  <2>3. PICK other : Replays(other, log, m) /\ Replay(log, m) = other[m]
    BY ReplayIs
  <2>4. \A k \in 0 .. n : one[k] = other[k]
    BY <2>1, <2>2, <2>3, ReplaysAgree
  <2>5. n \in 0 .. n /\ m \in 0 .. m /\ m # 0 /\ m - 1 = n
    BY <2>2
  <2>6. other[m] = Apply(other[m - 1], Logged(log, m))
    BY <2>3, <2>5 DEF Replays
  <2> QED BY <2>1, <2>2, <2>3, <2>4, <2>5, <2>6
<1> QED BY <1>1, <1>2

\* An entry for the next revision explains one more.
LEMMA PersistExplains ==
    ASSUME IInv, LogExplainsObjects, store.exists, deletion = "none", deletion' = "none",
           runtime.status = "open", NEW c \in Commands, Persist(c),
           Accepts(runtime.snapshot.objects, c)
    PROVE  LogExplainsObjects'
<1> DEFINE n == store.snapshot.revision
           log == store.log
           e == Entry(c)
           more == log \cup {e}
<1>1. /\ n \in Nat /\ log \subseteq LogEntry
      /\ {f.revision : f \in log} = 1 .. n
      /\ \A f, g \in log : f.revision = g.revision => f = g
      /\ \A k \in 1 .. n : Accepts(Replay(log, k - 1), Logged(log, k))
      /\ Replay(log, n) = store.snapshot.objects
  BY DEF IInv, TypeOK, Store, Snapshot, LogExplainsObjects
<1>2. runtime.snapshot = store.snapshot
  <2>1. ~OneAhead
    BY DEF OneAhead, Persist, Insertable, Entry
  <2> QED BY <2>1 DEF IInv, RuntimeMatchesStore
<1>3. /\ e = [revision |-> n + 1, command |-> c]
      /\ store'.snapshot.revision = n + 1
      /\ store'.snapshot.objects = Apply(store.snapshot.objects, c)
      /\ store'.log = more
  BY <1>2 DEF Persist, NextSnapshot, Entry
<1>4. e.revision = n + 1 /\ e.command = c
  BY <1>3
<1>5. \A f \in log : f.revision \in 1 .. n
  BY <1>1
<1> HIDE DEF n, log, e
<1>6. {f.revision : f \in more} = 1 .. n + 1
  <2>1. {f.revision : f \in more} = {f.revision : f \in log} \cup {n + 1}
    BY <1>4
  <2>2. (1 .. n) \cup {n + 1} = 1 .. n + 1
    BY <1>1
  <2> QED BY <1>1, <2>1, <2>2
<1>7. \A f, g \in more : f.revision = g.revision => f = g
  BY <1>1, <1>4, <1>5
<1>8. Logged(more, n + 1) = c
  <2>1. PICK f : f = (CHOOSE g \in more : g.revision = n + 1)
    OBVIOUS
  <2>2. f \in more /\ f.revision = n + 1
    BY <1>4, <2>1
  <2>3. f = e
    BY <1>4, <1>7, <2>2
  <2> QED BY <1>4, <2>1, <2>3 DEF Logged
<1>9. ASSUME NEW k \in 1 .. n PROVE Logged(log, k) = Logged(more, k)
  <2>1. \E g \in log : g.revision = k
    BY <1>1
  <2>2. PICK f : f = (CHOOSE g \in log : g.revision = k)
    OBVIOUS
  <2>3. f \in log /\ f.revision = k
    BY <2>1, <2>2
  <2>4. PICK h : h = (CHOOSE g \in more : g.revision = k)
    OBVIOUS
  <2>5. h \in more /\ h.revision = k
    BY <2>1, <2>4
  <2>6. f = h
    BY <1>7, <2>3, <2>5
  <2> QED BY <2>2, <2>4, <2>6 DEF Logged
<1> HIDE DEF more
<1>10. ASSUME NEW k \in 0 .. n PROVE Replay(log, k) = Replay(more, k)
  <2>1. k \in Nat /\ \A j \in 1 .. k : Logged(log, j) = Logged(more, j)
    BY <1>1, <1>9
  <2> QED BY <2>1, ReplayOf
<1>11. ASSUME NEW k \in 1 .. n + 1
       PROVE  Accepts(Replay(more, k - 1), Logged(more, k))
  <2>1. CASE k = n + 1
    <3>1. k - 1 = n /\ n \in 0 .. n
      BY <1>1, <2>1
    <3>2. Replay(more, n) = store.snapshot.objects
      BY <1>1, <1>10, <3>1
    <3> QED BY <1>2, <1>8, <2>1, <3>1, <3>2
  <2>2. CASE k # n + 1
    <3>1. k \in 1 .. n /\ k - 1 \in 0 .. n
      BY <1>1, <2>2
    <3>2. Replay(log, k - 1) = Replay(more, k - 1) /\ Logged(log, k) = Logged(more, k)
      BY <1>9, <1>10, <3>1
    <3> QED BY <1>1, <3>1, <3>2
  <2> QED BY <2>1, <2>2
<1>12. Replay(more, n + 1) = store'.snapshot.objects
  <2>1. Replay(more, n + 1) = Apply(Replay(more, n), Logged(more, n + 1))
    BY <1>1, ReplayStep
  <2>2. n \in 0 .. n
    BY <1>1
  <2> QED BY <1>1, <1>3, <1>8, <1>10, <2>1, <2>2
<1>13. /\ {f.revision : f \in store'.log} = 1 .. store'.snapshot.revision
       /\ \A f, g \in store'.log : f.revision = g.revision => f = g
       /\ \A k \in 1 .. store'.snapshot.revision :
             Accepts(Replay(store'.log, k - 1), Logged(store'.log, k))
       /\ Replay(store'.log, store'.snapshot.revision) = store'.snapshot.objects
  BY <1>3, <1>6, <1>7, <1>11, <1>12
<1> QED BY <1>13 DEF LogExplainsObjects

LEMMA LogStep == IInv /\ LogExplainsObjects /\ [Next]_vars => LogExplainsObjects'
<1> SUFFICES ASSUME IInv, LogExplainsObjects, [Next]_vars PROVE LogExplainsObjects'
  OBVIOUS
<1>1. CASE UNCHANGED <<store, deletion>>
  BY <1>1 DEF LogExplainsObjects
<1>2. ASSUME NEW h \in Handlers, NEW base \in 0 .. MaxRevision, NEW c \in Commands,
             OperationCommitted(h, base, c) \/ OperationLost(h, base, c)
      PROVE  LogExplainsObjects'
  <2>1. /\ Persist(c) /\ runtime.status = "open" /\ deletion' = deletion
        /\ Accepts(runtime.snapshot.objects, c)
    BY <1>2 DEF OperationCommitted, OperationLost, OperationAccepted
  <2>2. CASE deletion = "none"
    <3>1. store.exists
      BY <2>2 DEF IInv, DeletionInv
    <3> QED BY <2>1, <2>2, <3>1, PersistExplains
  <2>3. CASE deletion # "none"
    BY <2>1, <2>3 DEF LogExplainsObjects
  <2> QED BY <2>2, <2>3
<1>3. ASSUME NEW h \in Handlers, DeleteCommitted(h) \/ DeleteLost(h)
      PROVE  LogExplainsObjects'
  BY <1>3 DEF DeleteCommitted, DeleteLost, LogExplainsObjects
<1>4. ASSUME NEW h \in Handlers, JoinInstall(h) \/ DeleteClose(h)
      PROVE  UNCHANGED <<store, deletion>>
  BY <1>4 DEF JoinInstall, DeleteClose
<1> QED BY <1>1, <1>2, <1>3, <1>4, StepCases DEF Quiet, Crash

\* As long as nothing deleted the board, the log has one command for every
\* revision, each acceptable where it stands, and leads to the objects in the
\* other table: whatever failed, got lost or crashed, the two tables that one
\* transaction writes tell the same board.
THEOREM LogExplainsObjectsHolds == Spec => []LogExplainsObjects
<1>1. Init => LogExplainsObjects
  <2> SUFFICES ASSUME Init PROVE LogExplainsObjects
    OBVIOUS
  <2>1. store.snapshot.revision = 0 /\ store.snapshot.objects = NoObjects /\ store.log = {}
    BY DEF Init, EmptySnapshot
  <2>2. Replay(store.log, 0) = NoObjects
    BY ReplayStep
  <2>3. 1 .. 0 = {}
    OBVIOUS
  <2> QED BY <2>1, <2>2, <2>3 DEF LogExplainsObjects
<1>2. IInv /\ LogExplainsObjects /\ [Next]_vars => LogExplainsObjects'
  BY LogStep
<1> QED BY <1>1, <1>2, Invariance, PTL DEF Spec

-----------------------------------------------------------------------------
(* Refinement *)

LEMMA PromiseInit == Init => Promise!Init
BY DEF Init, Promise!Init, Visible, View, NoRuntime, EmptySnapshot

\* Every step of the server is a step of the abstract board or invisible.
LEMMA PromiseStep == IInv /\ [Next]_vars => [Promise!Next]_(Promise!vars)
<1> SUFFICES ASSUME IInv, [Next]_vars PROVE [Promise!Next]_(Promise!vars)
  OBVIOUS
<1> USE DEF IInv
<1>1. CASE Quiet
  BY <1>1 DEF Quiet, Promise!vars, Visible, View
<1>2. CASE Crash
  <2>1. runtime' = NoRuntime /\ store' = store
    BY <1>2 DEF Crash
  <2>2. CASE runtime.status # "open"
    BY <2>1, <2>2 DEF NoRuntime, Promise!vars, Visible, View
  <2>3. CASE runtime.status = "open" /\ ~store.exists
    <3>1. Promise!Destroy
      BY <2>1, <2>3 DEF NoRuntime, Promise!Destroy, Visible, View, EmptySnapshot
    <3> QED BY <3>1 DEF Promise!Next
  <2>4. CASE runtime.status = "open" /\ store.exists
    <3>1. CASE runtime.snapshot = store.snapshot
      BY <2>1, <2>4, <3>1 DEF NoRuntime, Promise!vars, Visible, View
    <3>2. CASE OneAhead
      <4>1. PICK c \in Commands :
              /\ Accepts(runtime.snapshot.objects, c)
              /\ store.snapshot = NextSnapshot(c)
        BY <3>2 DEF OneAhead
      <4>2. Promise!Edit(c)
        BY <2>1, <2>4, <4>1
        DEF NoRuntime, Promise!Edit, Visible, View, NextSnapshot
      <4> QED BY <4>2 DEF Promise!Next
    <3> QED BY <2>4, <3>1, <3>2 DEF RuntimeMatchesStore
  <2> QED BY <2>2, <2>3, <2>4
<1>3. ASSUME NEW h \in Handlers, JoinInstall(h)
      PROVE  UNCHANGED Promise!vars
  <2>1. CASE runtime.status = "open"
    BY <1>3, <2>1 DEF JoinInstall, GetOrCreate, Promise!vars, Visible, View
  <2>2. CASE runtime.status # "open"
    <3>1. store.exists /\ read[h] = store.snapshot
      BY <1>3, <2>2 DEF JoinInstall, ReadInv, TypeOK, Snapshot, Store
    <3> QED
      BY <1>3, <2>2, <3>1
      DEF JoinInstall, GetOrCreate, Promise!vars, Visible, View
  <2> QED BY <2>1, <2>2
<1>4. ASSUME NEW h \in Handlers, NEW base \in 0 .. MaxRevision,
             NEW c \in Commands, OperationCommitted(h, base, c)
      PROVE  Promise!Next
  <2>1. Promise!Edit(c)
    BY <1>4 DEF OperationCommitted, OperationAccepted, Persist, NextSnapshot,
       Promise!Edit, Visible, View, TypeOK, Runtime
  <2> QED BY <2>1 DEF Promise!Next
<1>5. ASSUME NEW h \in Handlers, NEW base \in 0 .. MaxRevision,
             NEW c \in Commands, OperationLost(h, base, c)
      PROVE  UNCHANGED Promise!vars
  BY <1>5 DEF OperationLost, OperationAccepted, Promise!vars, Visible, View
<1>6. ASSUME NEW h \in Handlers, DeleteCommitted(h) \/ DeleteLost(h)
      PROVE  [Promise!Next]_(Promise!vars)
  <2>1. /\ store.exists
        /\ ~store'.exists
        /\ runtime' = runtime
    BY <1>6 DEF DeleteCommitted, DeleteLost, DeleteRows, NoRows
  <2>2. CASE runtime.status = "open"
    BY <2>1, <2>2 DEF Promise!vars, Visible, View
  <2>3. CASE runtime.status # "open"
    <3>1. Promise!Destroy
      BY <2>1, <2>3 DEF Promise!Destroy, Visible, View, EmptySnapshot
    <3> QED BY <3>1 DEF Promise!Next
  <2> QED BY <2>2, <2>3
<1>7. ASSUME NEW h \in Handlers, DeleteClose(h)
      PROVE  [Promise!Next]_(Promise!vars)
  <2>1. ~store.exists /\ store' = store /\ runtime'.status # "open"
    BY <1>7 DEF DeleteClose, Closed, DeletionInv
  <2>2. CASE runtime.status = "open"
    <3>1. Promise!Destroy
      BY <2>1, <2>2 DEF Promise!Destroy, Visible, View, EmptySnapshot
    <3> QED BY <3>1 DEF Promise!Next
  <2>3. CASE runtime.status # "open"
    BY <2>1, <2>3 DEF Promise!vars, Visible, View
  <2> QED BY <2>2, <2>3
<1> QED
  BY <1>1, <1>2, <1>3, <1>4, <1>5, <1>6, <1>7, StepCases

\* BoardRuntime implements SharedBoard: whatever is interleaved, fails or
\* crashes, users see one accepted command at a time and no board after its
\* destruction.
THEOREM Implements == Spec => KeepsPromise
<1>1. Init => Promise!Init
  BY PromiseInit
<1>2. IInv /\ [Next]_vars => [Promise!Next]_(Promise!vars)
  BY PromiseStep
<1> QED
  BY <1>1, <1>2, Invariance, PTL DEF Spec, KeepsPromise, Promise!Spec

=============================================================================
