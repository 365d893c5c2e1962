-------------------------- MODULE SeatLockProofs --------------------------
(***************************************************************************)
(* Proofs about the Redis locks of SeatInventory, for any sets of          *)
(* requests, users and seats and any bounds: a hold request that was       *)
(* refused has given its locks back, and a hold whose time is not over has *)
(* the lock of its request, so that a seat has one such hold, unless calls *)
(* for one buyer met on that seat or a lock ran out under such a call.     *)
(***************************************************************************)
EXTENDS SeatInventoryProofs

-----------------------------------------------------------------------------
(* A refused hold leaves no trace: where the locks of a request can be.    *)

\* A lock of a request is among its seats, and either the request is on the way
\* to its commit or past it, or it still has the seat on its list to unlock, or
\* it was cut off.
HasKey(r, s) ==
    /\ job[r].op = "holdSeats" /\ s \in job[r].seats
    /\ \/ pc[r] = "lock" /\ s \in got[r]
       \/ pc[r] \in {"unlock", "get", "del"} /\ s \in todo[r]
       \/ pc[r] \in {"begin", "cache", "done", "broken", "cut"} \cup InTx
KeysOf(r) ==
    /\ \A s \in Seats : lock[s] = r => HasKey(r, s)
    /\ pc[r] = "lock" => todo[r] \subseteq job[r].seats
KeysInv == \A r \in Requests : KeysOf(r)

\* Init establishes KeysInv: nothing is locked.
LEMMA InitKeys == Init => KeysInv
BY NoneAssumption DEF Init, KeysInv, KeysOf, Procs

\* A step of one handler that takes or deletes locks of its own only.
LEMMA KeysFrame ==
    ASSUME NEW p \in Procs, KeysInv, job' = job,
           \A q \in Procs : q # p => UNCHANGED <<pc[q], todo[q], got[q]>>,
           \A s \in Seats : lock'[s] \in {lock[s], None, p},
           p \in Requests => KeysOf(p)'
    PROVE  KeysInv'
<1> SUFFICES ASSUME NEW r \in Requests PROVE KeysOf(r)'
  BY DEF KeysInv
<1>1. CASE r = p
  BY <1>1
<1>2. CASE r # p
  <2>1. KeysOf(r) /\ pc'[r] = pc[r] /\ todo'[r] = todo[r] /\ got'[r] = got[r]
    BY <1>2 DEF KeysInv, Procs
  <2>2. \A s \in Seats : lock'[s] = r => lock[s] = r
    BY <1>2, NoneAssumption
  <2> QED BY <2>1, <2>2 DEF KeysOf, HasKey
<1> QED BY <1>1, <1>2

\* The steps of lockSeats.
LEMMA LockingKeys ==
    ASSUME NEW p \in Procs, IInv, KeysInv, LockSeat(p) \/ LockSeatsEnd(p) \/ UnlockSeat(p)
    PROVE  KeysInv'
<1> USE DEF IInv, TypeOK, Goto, db, redis
<1>1. job' = job /\ \A q \in Procs : q # p => UNCHANGED <<pc[q], todo[q], got[q]>>
  BY DEF LockSeat, LockSeatsEnd, UnlockSeat
<1>2. \A s \in Seats : lock'[s] \in {lock[s], None, p}
  BY DEF LockSeat, LockSeatsEnd, UnlockSeat
<1>3. ASSUME p \in Requests PROVE KeysOf(p)'
  <2>1. KeysOf(p)
    BY <1>3 DEF KeysInv
  <2>2. job[p].op = "holdSeats"
    BY DEF LockSeat, LockSeatsEnd, UnlockSeat, OpsInv, OpsOf
  <2>3. CASE LockSeat(p)
    <3>1. PICK z \in todo[p] : /\ todo' = [todo EXCEPT ![p] = @ \ {z}]
                              /\ IF lock[z] = None
                                   THEN /\ lock' = [lock EXCEPT ![z] = p]
                                        /\ got' = [got EXCEPT ![p] = @ \cup {z}]
                                   ELSE UNCHANGED <<lock, got>>
      BY <2>3 DEF LockSeat
    <3>2. pc[p] = "lock" /\ pc' = pc
      BY <2>3 DEF LockSeat
    <3>3. \A s \in Seats : lock'[s] = p => s \in job[p].seats /\ s \in got'[p]
      BY <2>1, <3>1, <3>2 DEF KeysOf, HasKey, InTx
    <3> QED BY <1>1, <2>1, <2>2, <3>1, <3>2, <3>3 DEF KeysOf, HasKey
  <2>4. CASE LockSeatsEnd(p)
    <3>1. pc[p] = "lock" /\ lock' = lock
      BY <2>4 DEF LockSeatsEnd
    <3>2. \A s \in Seats : lock[s] = p => s \in job[p].seats /\ s \in got[p]
      BY <2>1, <3>1 DEF KeysOf, HasKey, InTx
    <3>3. pc'[p] = "begin" \/ (pc'[p] = "unlock" /\ todo'[p] = got[p])
      <4>1. CASE got[p] = job[p].seats
        BY <2>4, <4>1 DEF LockSeatsEnd
      <4>2. CASE got[p] # job[p].seats
        BY <2>4, <4>2 DEF LockSeatsEnd
      <4> QED BY <4>1, <4>2
    <3> QED BY <1>1, <2>2, <3>1, <3>2, <3>3 DEF KeysOf, HasKey
  <2>5. CASE UnlockSeat(p)
    <3>1. pc[p] = "unlock"
      BY <2>5 DEF UnlockSeat
    <3>2. \A s \in Seats : lock[s] = p => s \in job[p].seats /\ s \in todo[p]
      BY <2>1, <3>1 DEF KeysOf, HasKey, InTx
    <3>3. \A s \in Seats : lock'[s] = p => lock[s] = p /\ s \in todo'[p] /\ pc'[p] = "unlock"
      BY <1>3, <2>5, <3>2, NoneAssumption DEF UnlockSeat
    <3>4. pc'[p] # "lock"
      BY <2>5 DEF UnlockSeat
    <3> QED BY <1>1, <2>2, <3>2, <3>3, <3>4 DEF KeysOf, HasKey
  <2> QED BY <2>3, <2>4, <2>5
<1> QED BY <1>1, <1>2, <1>3, KeysFrame

\* The steps of releaseSeats in SeatLockService.
LEMMA DeletingKeys ==
    ASSUME NEW p \in Procs, IInv, KeysInv, GetLock(p) \/ DelLock(p)
    PROVE  KeysInv'
<1> USE DEF IInv, TypeOK, Goto, db, redis
<1>1. job' = job /\ \A q \in Procs : q # p => UNCHANGED <<pc[q], todo[q], got[q]>>
  BY DEF GetLock, DelLock
<1>2. \A s \in Seats : lock'[s] \in {lock[s], None, p}
  BY DEF GetLock, DelLock
<1>3. ASSUME p \in Requests PROVE KeysOf(p)'
  <2>1. pc[p] \in {"get", "del"} /\ pc'[p] # "lock"
    BY DEF GetLock, DelLock
  <2>2. \A s \in Seats : lock[s] = p =>
          job[p].op = "holdSeats" /\ s \in job[p].seats /\ s \in todo[p]
    BY <1>3, <2>1 DEF KeysInv, KeysOf, HasKey, InTx
  <2>3. CASE GetLock(p)
    <3>1. CASE \E s \in todo[p] :
            IF lock[s] # None /\ User(lock[s]) = job[p].user
              THEN /\ got' = [got EXCEPT ![p] = {s}]
                   /\ pc' = [pc EXCEPT ![p] = "del"]
                   /\ todo' = todo
              ELSE /\ todo' = [todo EXCEPT ![p] = @ \ {s}]
                   /\ UNCHANGED <<pc, got>>
      <4>1. PICK z \in todo[p] :
              IF lock[z] # None /\ User(lock[z]) = job[p].user
                THEN /\ got' = [got EXCEPT ![p] = {z}]
                     /\ pc' = [pc EXCEPT ![p] = "del"]
                     /\ todo' = todo
                ELSE /\ todo' = [todo EXCEPT ![p] = @ \ {z}]
                     /\ UNCHANGED <<pc, got>>
        BY <3>1
      <4>2. lock' = lock /\ pc'[p] \in {"get", "del"}
        BY <2>3, <4>1 DEF GetLock
      <4>3. lock[z] = p => todo' = todo
        BY <1>3, <4>1, NoneAssumption DEF User
      <4>4. \A s \in Seats : lock[s] = p => s \in todo'[p]
        BY <2>2, <4>1, <4>3
      <4> QED BY <1>1, <2>1, <2>2, <4>2, <4>4 DEF KeysOf, HasKey
    <3>2. CASE todo[p] = {}
      <4>1. lock' = lock
        BY <2>3 DEF GetLock
      <4> QED BY <2>1, <2>2, <3>2, <4>1 DEF KeysOf
    <3> QED BY <2>3, <3>1, <3>2 DEF GetLock
  <2>4. CASE DelLock(p)
    <3>1. \A s \in Seats : lock'[s] = p => lock[s] = p /\ s \in todo'[p]
      BY <1>3, <2>2, <2>4, NoneAssumption DEF DelLock
    <3>2. pc'[p] = "get"
      BY <2>4 DEF DelLock
    <3> QED BY <1>1, <2>1, <2>2, <3>1, <3>2 DEF KeysOf, HasKey
  <2> QED BY <2>3, <2>4
<1> QED BY <1>1, <1>2, <1>3, KeysFrame

\* A rollback of holdSeats puts all its seats on the list to unlock.
LEMMA RollbackKeys ==
    ASSUME NEW p \in Procs, IInv, KeysInv, pc[p] \in InTx, Rollback(p)
    PROVE  KeysInv'
<1> USE DEF IInv, TypeOK, Goto, db, redis
<1>1. job' = job /\ \A q \in Procs : q # p => UNCHANGED <<pc[q], todo[q], got[q]>>
  BY DEF Rollback
<1>2. lock' = lock
  BY DEF Rollback
<1>3. ASSUME p \in Requests PROVE KeysOf(p)'
  <2>1. KeysOf(p)
    BY <1>3 DEF KeysInv
  <2>2. pc'[p] # "lock" /\ (job[p].op = "holdSeats" =>
                              pc'[p] = "get" /\ todo'[p] = job[p].seats)
    BY DEF Rollback, AfterRollback, EndsAs
  <2> QED BY <1>1, <1>2, <2>1, <2>2 DEF KeysOf, HasKey
<1> QED BY <1>1, <1>2, <1>3, KeysFrame

\* The other steps of a handler: from begin to the commit, and after it.
LEMMA WorkingKeys ==
    ASSUME NEW p \in Procs, IInv, KeysInv, lock' = lock, job' = job,
           \A q \in Procs : q # p => UNCHANGED <<pc[q], todo[q], got[q]>>,
           pc[p] \in {"begin", "cache", "put", "hget", "dbread", "hfill"} \cup InTx,
           pc'[p] # "lock",
           job[p].op = "holdSeats" =>
               pc'[p] \in {"cache", "done", "broken", "cut"} \cup InTx
    PROVE  KeysInv'
<1>1. ASSUME p \in Requests PROVE KeysOf(p)'
  BY <1>1 DEF KeysInv, KeysOf, HasKey
<1> QED BY <1>1, KeysFrame

LEMMA HandlerStepKeys ==
    ASSUME NEW p \in Procs, IInv, KeysInv, HandlerStep(p) PROVE KeysInv'
<1> USE DEF IInv, TypeOK, Goto, db, redis, env
<1>1. CASE LockSeat(p) \/ LockSeatsEnd(p) \/ UnlockSeat(p)
  BY <1>1, LockingKeys
<1>2. CASE GetLock(p) \/ DelLock(p)
  BY <1>2, DeletingKeys
<1>3. CASE BeginTx(p)
  BY <1>3, WorkingKeys DEF BeginTx, After, InTx
<1>4. CASE ReadInventory(p)
  <2>1. CASE Rollback(p)
    BY <1>4, <2>1, RollbackKeys DEF ReadInventory, InTx
  <2>2. CASE ~ Rollback(p)
    BY <1>4, <2>2, WorkingKeys DEF ReadInventory, After, InTx, OpsInv, OpsOf
  <2> QED BY <2>1, <2>2
<1>5. CASE SaveInventory(p)
  <2>1. CASE Rollback(p)
    BY <1>5, <2>1, RollbackKeys DEF SaveInventory, InTx
  <2>2. CASE ~ Rollback(p)
    BY <1>5, <2>2, WorkingKeys DEF SaveInventory, After, InTx
  <2> QED BY <2>1, <2>2
<1>6. CASE ReadHolds(p) \/ SaveHolds(p)
  BY <1>6, WorkingKeys DEF ReadHolds, SaveHolds, After, InTx, OpsInv, OpsOf, Releases
<1>7. CASE Commit(p)
  BY <1>7, WorkingKeys DEF Commit, InTx
<1>8. CASE PutSoldSeats(p)
  BY <1>8, WorkingKeys DEF PutSoldSeats, InTx
<1>9. CASE UpdateMultipleSeatsStatus(p)
  BY <1>9, WorkingKeys, WorkerAssumption DEF UpdateMultipleSeatsStatus, EndsAs, WorkerInv, InTx
<1>10. CASE ReadCache(p) \/ RebuildRead(p) \/ RebuildWrite(p)
  BY <1>10, WorkingKeys DEF ReadCache, RebuildRead, RebuildWrite, OpsInv, OpsOf, InTx
<1>11. CASE DeadlockAbort(p)
  <2>1. pc[p] \in InTx
    BY <1>11 DEF DeadlockAbort, WaitsFor, InTx
  <2> QED BY <1>11, <2>1, RollbackKeys DEF DeadlockAbort
<1> QED
  BY <1>1, <1>2, <1>3, <1>4, <1>5, <1>6, <1>7, <1>8, <1>9, <1>10, <1>11, HandlerStep(p)
  DEF HandlerStep

\* Failures: a rollback, or the handler stops where it is.
LEMMA HandlerErrorKeys ==
    ASSUME NEW p \in Procs, IInv, KeysInv, HandlerError(p) PROVE KeysInv'
<1> USE DEF IInv, TypeOK, Goto, db, redis
<1>1. CASE TxError(p)
  BY <1>1, RollbackKeys DEF TxError
<1>2. CASE CacheWriteLost(p)
  BY <1>2, WorkingKeys, WorkerAssumption DEF CacheWriteLost, EndsAs, WorkerInv, InTx
<1>3. CASE ConnectError(p) \/ RedisError(p)
  <2>1. job' = job /\ lock' = lock
    BY <1>3 DEF ConnectError, RedisError
  <2>2. \A q \in Procs : q # p => UNCHANGED <<pc[q], todo[q], got[q]>>
    BY <1>3 DEF ConnectError, RedisError
  <2>3. ASSUME p \in Requests PROVE KeysOf(p)'
    <3>1. pc'[p] \in {"cut", "broken"}
      BY <1>3, <2>3, WorkerAssumption DEF ConnectError, RedisError, EndsAs
    <3>2. KeysOf(p)
      BY <2>3 DEF KeysInv
    <3> QED BY <2>1, <3>1, <3>2 DEF KeysOf, HasKey
  <2> QED BY <2>1, <2>2, <2>3, KeysFrame
<1> QED BY <1>1, <1>2, <1>3 DEF HandlerError

\* A restart stops every handler.
LEMMA CrashKeys == ASSUME IInv, KeysInv, Crash PROVE KeysInv'
<1> USE DEF IInv, TypeOK, db
<1> SUFFICES ASSUME NEW r \in Requests PROVE KeysOf(r)'
  BY DEF KeysInv
<1>1. KeysOf(r) /\ lock' = lock /\ job'[r] = job[r]
  BY WorkerAssumption DEF Crash, KeysInv, Procs
<1>2. r \in Procs /\ r # Worker
  BY WorkerAssumption DEF Procs
<1>3. pc'[r] = (CASE Committed(r) -> "broken"
                 [] pc[r] \in Running /\ ~ Committed(r) -> "cut"
                 [] OTHER -> pc[r])
  BY <1>2 DEF Crash
<1>4. pc[r] \in Running => pc'[r] \in {"broken", "cut"}
  BY <1>3
<1>5. pc[r] \notin Running => pc'[r] = pc[r]
  BY <1>3 DEF Committed, Running, InTx
<1>6. CASE pc[r] \in Running
  BY <1>1, <1>4, <1>6 DEF KeysOf, HasKey
<1>7. CASE pc[r] \notin Running
  BY <1>1, <1>5, <1>7 DEF KeysOf, HasKey, Running, InTx
<1> QED BY <1>6, <1>7

\* Every step preserves KeysInv.
LEMMA NextKeys ==
    ASSUME IInv, KeysInv, [Next]_vars PROVE KeysInv'
<1> USE DEF IInv, TypeOK, Goto, db, redis, env
<1>1. CASE UNCHANGED vars
  BY <1>1 DEF vars, KeysInv, KeysOf, HasKey
<1>2. ASSUME NEW r \in Requests, Begin(r) PROVE KeysInv'
  <2>1. lock' = lock /\ pc[r] = "idle"
    BY <1>2 DEF Begin
  <2>2. \A s \in Seats : lock[s] # r
    BY <2>1 DEF KeysInv, KeysOf, HasKey, InTx
  <2>3. pc'[r] = "lock" => todo'[r] \subseteq job'[r].seats
    BY <1>2 DEF Begin, FirstStep, Procs
  <2>4. KeysOf(r)'
    BY <2>1, <2>2, <2>3 DEF KeysOf
  <2>5. ASSUME NEW q \in Requests, q # r PROVE KeysOf(q)'
    <3>1. pc'[q] = pc[q] /\ todo'[q] = todo[q] /\ got'[q] = got[q] /\ job'[q] = job[q]
      BY <1>2, <2>5 DEF Begin, Procs
    <3> QED BY <2>1, <3>1 DEF KeysInv, KeysOf, HasKey
  <2> QED BY <2>4, <2>5 DEF KeysInv
<1>3. ASSUME NEW p \in Procs, HandlerStep(p) \/ HandlerError(p) PROVE KeysInv'
  BY <1>3, HandlerStepKeys, HandlerErrorKeys
<1>4. CASE Scan \/ NextGroup
  <2>1. /\ lock' = lock /\ todo' = todo /\ got' = got
        /\ \A q \in Requests : pc'[q] = pc[q] /\ job'[q] = job[q]
    BY <1>4, WorkerAssumption DEF Scan, NextGroup, Procs
  <2> QED BY <2>1 DEF KeysInv, KeysOf, HasKey
<1>5. CASE TimePasses
  <2>1. \A z \in Seats, q \in Requests : lock'[z] = q => lock[z] = q
    BY <1>5, NoneAssumption DEF TimePasses, LockLapses, HoldLapses
  <2>2. UNCHANGED <<job, pc, todo, got>>
    BY <1>5 DEF TimePasses, LockLapses, HoldLapses
  <2> SUFFICES ASSUME NEW q \in Requests PROVE KeysOf(q)'
    BY DEF KeysInv
  <2>3. KeysOf(q)
    BY DEF KeysInv
  <2>4. \A z \in Seats : lock'[z] = q => HasKey(q, z)'
    <3> SUFFICES ASSUME NEW z \in Seats, lock'[z] = q PROVE HasKey(q, z)'
      OBVIOUS
    <3>1. HasKey(q, z)
      BY <2>1, <2>3 DEF KeysOf
    <3> QED BY <2>2, <3>1 DEF HasKey
  <2> QED BY <2>2, <2>3, <2>4 DEF KeysOf
<1>6. CASE Crash
  BY <1>6, CrashKeys
<1> QED BY <1>1, <1>2, <1>3, <1>4, <1>5, <1>6 DEF Next

\* A hold request that was refused, by a taken seat, a missing row, a seat that
\* is not available, an aborted transaction or a deadlock, has given back every
\* lock it took and has left no row, for any batches, also when locks lapse
\* under it and whatever fails around it; one that Redis, connect() or a
\* restart cut off ends in another state (hold.service.ts 25-114).
THEOREM FailedHoldLeavesNoTraceHolds == Spec => []FailedHoldLeavesNoTrace
<1>1. Spec => []IInv
  BY InitIInv, NextIInv, PTL DEF Spec
<1>2. IInv /\ KeysInv /\ [Next]_vars => KeysInv'
  BY NextKeys
<1>3. IInv /\ KeysInv => FailedHoldLeavesNoTrace
  BY DEF IInv, HoldsInv, KeysInv, KeysOf, HasKey, FailedHoldLeavesNoTrace, InTx
<1> QED BY <1>1, <1>2, <1>3, InitKeys, PTL DEF Spec

-----------------------------------------------------------------------------
(* A hold in force has its lock, on the seats that are not crossed.        *)

\* A handler under way on behalf of a buyer, the worker's included.
Busy(p) == pc[p] \notin Ended \cup {"idle", "next"} /\ job[p].op \in ForBuyer

\* Two calls for one buyer have made all their seats crossed.
Apart ==
    \A p, q \in Procs :
        p # q /\ Busy(p) /\ Busy(q) /\ User(p) = User(q) =>
            job[p].seats \cup job[q].seats \subseteq crossed

\* A request that has not come has nothing.
Fresh == \A r \in Requests : pc[r] = "idle" => job[r] = NoJob /\ got[r] = {}

\* A hold request has the locks it counts on, and later those it has to delete.
BackedBy(r) ==
    job[r].op = "holdSeats" =>
        \A s \in Seats \ crossed :
            /\ pc[r] \in {"begin"} \cup InTx /\ s \in job[r].seats => lock[s] = r
            /\ pc[r] = "lock" /\ s \in got[r] => lock[s] = r
            /\ pc[r] \in {"unlock", "get", "del"} /\ s \in todo[r] => lock[s] = r

\* Between GET and DEL the lock remains one of the buyer.
DeletingBy(q) ==
    \A s \in Seats :
        /\ pc[q] \in {"get", "del"} /\ s \in todo[q] => s \in job[q].seats
        /\ pc[q] = "del" /\ s \in got[q] =>
             /\ s \in todo[q]
             /\ s \notin crossed => lock[s] # None /\ User(lock[s]) = job[q].user

\* A row that was read is still open: what is saved as it was read puts no
\* hold into force again.
StillOpenFor(q) ==
    /\ \A r \in Requests, s \in Seats \ crossed :
         <<r, s>> \in rows[q] \cup kept[q] =>
             User(r) = job[q].user /\ hold[r][s] = "open"
    /\ pc[q] \notin InTx => rows[q] = {} /\ kept[q] = {}

\* A release has read every hold in force it is about ...
HasRead(q) ==
    \/ pc[q] = "saveHolds"
    \/ pc[q] = "commit" /\ job[q].op \in Releases
    \/ pc[q] = "saveInv" /\ job[q].op = "releaseSeats"
ReadsAll(q) ==
    HasRead(q) =>
        \A r \in Requests, s \in Seats \ crossed :
            User(r) = job[q].user /\ s \in job[q].seats /\ Live(r, s) => <<r, s>> \in rows[q]

\* ... and when it deletes the locks none is left.
OverFor(q) ==
    job[q].op \in Releases /\ pc[q] \in {"get", "del"} =>
        \A r \in Requests, s \in Seats \ crossed :
            User(r) = job[q].user /\ s \in job[q].seats => ~ Live(r, s)

ProcInv(q) ==
    BackedBy(q) /\ DeletingBy(q) /\ StillOpenFor(q) /\ ReadsAll(q) /\ OverFor(q)

LockInv ==
    /\ Apart /\ Fresh
    /\ \A q \in Procs : ProcInv(q)
    /\ LiveHoldIsLocked

\* Init establishes LockInv.
LEMMA InitLocks == Init => LockInv
<1> SUFFICES ASSUME Init PROVE LockInv
  OBVIOUS
<1> USE DEF Init, NoJob, Procs
<1>1. Apart /\ Fresh /\ LiveHoldIsLocked
  BY DEF Apart, Busy, Fresh, LiveHoldIsLocked, Live
<1>2. \A q \in Procs : ProcInv(q)
  BY DEF ProcInv, DeletingBy, StillOpenFor, ReadsAll, HasRead, BackedBy, OverFor, InTx
<1> QED BY <1>1, <1>2 DEF LockInv

\* Handlers with locks to delete, transactions and rows are under way.
LEMMA BusyWhen ==
    ASSUME IInv, NEW p \in Procs,
           pc[p] \in {"lock", "unlock", "begin", "get", "del"} \cup InTx
    PROVE  Busy(p)
BY DEF IInv, OpsInv, OpsOf, Busy, ForBuyer, Releases, InTx, Ended

\* On a seat that is not crossed a buyer has one call under way.
LEMMA OneAtATime ==
    ASSUME LockInv, NEW p \in Procs, NEW q \in Procs, Busy(p), Busy(q), User(p) = User(q),
           NEW s \in Seats \ crossed, s \in job[p].seats \/ s \in job[q].seats
    PROVE  p = q
BY DEF LockInv, Apart

-----------------------------------------------------------------------------
(* Steps that move one handler *)

\* What such a step leaves alone.
Local(p) ==
    /\ UNCHANGED <<hold, lapsed, job, crossed>>
    /\ \A q \in Procs : q # p => UNCHANGED <<pc[q], todo[q], got[q], rows[q], kept[q]>>
    /\ pc[p] \notin Ended \cup {"idle", "next"}
    /\ p \in Requests => pc'[p] # "idle"

\* What it may do to locks: take a free one, or delete one of the buyer on
\* which no hold is in force.
Takes(p, s) == lock[s] = None /\ lock'[s] = p
Frees(p, s) ==
    /\ lock[s] # None /\ lock'[s] = None
    /\ Busy(p) /\ User(lock[s]) = User(p)
    /\ \A r \in Requests : ~ Live(r, s)

\* The handlers that do not move keep what the invariant says of them ...
LEMMA LocalOthers ==
    ASSUME NEW p \in Procs, IInv, KeysInv, LockInv, Local(p),
           \A s \in Seats \ crossed : lock'[s] = lock[s] \/ Takes(p, s) \/ Frees(p, s),
           NEW q \in Procs, q # p
    PROVE  ProcInv(q)'
<1> USE DEF Local
<1>1. ProcInv(q)
  BY DEF LockInv
<1>2. StillOpenFor(q)'
  BY <1>1 DEF ProcInv, StillOpenFor, User
<1>3. ReadsAll(q)'
  BY <1>1 DEF ProcInv, ReadsAll, HasRead, User, Live
<1>4. OverFor(q)'
  BY <1>1 DEF ProcInv, OverFor, User, Live
<1>5. BackedBy(q)'
  <2> SUFFICES ASSUME job[q].op = "holdSeats", NEW s \in Seats \ crossed, lock[s] = q,
                      pc[q] \in {"lock", "unlock", "begin", "get", "del"} \cup InTx
               PROVE  lock'[s] = q
    BY <1>1 DEF ProcInv, BackedBy
  <2>1. q \in Requests /\ q # None
    BY NoneAssumption, WorkerAssumption DEF IInv, WorkerInv, Procs
  <2>2. Busy(q) /\ s \in job[q].seats
    BY <2>1, BusyWhen DEF KeysInv, KeysOf, HasKey
  <2>3. ~ Frees(p, s)
    BY <2>2, OneAtATime DEF Frees
  <2> QED BY <2>1, <2>3 DEF Takes
<1>6. DeletingBy(q)'
  <2> SUFFICES ASSUME NEW s \in Seats \ crossed, pc[q] = "del", s \in got[q]
               PROVE  lock'[s] # None /\ User(lock'[s]) = job[q].user
    BY <1>1 DEF ProcInv, DeletingBy, User
  <2>1. s \in job[q].seats /\ lock[s] # None /\ User(lock[s]) = job[q].user
    BY <1>1 DEF ProcInv, DeletingBy
  <2>2. Busy(q)
    BY BusyWhen
  <2>3. ~ Frees(p, s)
    BY <2>1, <2>2, OneAtATime DEF Frees, User
  <2>4. lock'[s] = lock[s]
    BY <2>1, <2>3 DEF Takes
  <2> QED BY <2>1, <2>4
<1> QED BY <1>2, <1>3, <1>4, <1>5, <1>6 DEF ProcInv

\* ... so only what it says of the handler that moves is left to show.
LEMMA LocalLocks ==
    ASSUME NEW p \in Procs, IInv, KeysInv, LockInv, Local(p),
           \A s \in Seats \ crossed : lock'[s] = lock[s] \/ Takes(p, s) \/ Frees(p, s),
           ProcInv(p)'
    PROVE  LockInv'
<1>1. Apart'
  <2>1. \A q \in Procs : Busy(q)' => Busy(q)
    BY DEF Local, Busy
  <2> QED BY <2>1 DEF LockInv, Apart, Local, User
<1>2. Fresh'
  BY DEF LockInv, Fresh, Local, Procs
<1>3. \A q \in Procs : ProcInv(q)'
  BY LocalOthers
<1>4. LiveHoldIsLocked'
  <2> SUFFICES ASSUME NEW r \in Requests, NEW s \in Seats \ crossed, Live(r, s)
               PROVE  lock'[s] = r
    BY DEF LiveHoldIsLocked, Live, Local
  <2>1. lock[s] = r
    BY DEF LockInv, LiveHoldIsLocked
  <2> QED BY <2>1, NoneAssumption DEF Takes, Frees
<1> QED BY <1>1, <1>2, <1>3, <1>4 DEF LockInv

\* A step that changes no lock and no row, and reads none.
LEMMA MoveLocks ==
    ASSUME NEW p \in Procs, IInv, KeysInv, LockInv, Local(p), lock' = lock,
           rows'[p] \subseteq rows[p], kept'[p] \subseteq kept[p],
           pc'[p] \notin InTx => rows'[p] = {} /\ kept'[p] = {},
           HasRead(p)' => HasRead(p) /\ rows'[p] = rows[p],
           job[p].op \in Releases /\ pc'[p] \in {"get", "del"} => pc[p] \in {"get", "del"},
           BackedBy(p)', DeletingBy(p)'
    PROVE  LockInv'
<1>1. ProcInv(p)
  BY DEF LockInv
<1>2. StillOpenFor(p)'
  BY <1>1 DEF ProcInv, StillOpenFor, Local, User
<1>3. ReadsAll(p)'
  BY <1>1 DEF ProcInv, ReadsAll, Local, User, Live
<1>4. OverFor(p)'
  BY <1>1 DEF ProcInv, OverFor, Local, User, Live
<1>5. ProcInv(p)'
  BY <1>2, <1>3, <1>4 DEF ProcInv
<1> QED BY <1>5, LocalLocks

\* All tried: the locks are all there, or go on the list to unlock.
LEMMA LockSeatsEndLocks ==
    ASSUME NEW p \in Procs, IInv, KeysInv, LockInv, LockSeatsEnd(p) PROVE LockInv'
<1> USE DEF IInv, TypeOK, Goto, db, redis, env
<1>1. pc[p] = "lock" /\ job[p].op = "holdSeats" /\ UNCHANGED <<job, crossed, rows, kept>>
  BY DEF LockSeatsEnd, OpsInv, OpsOf
<1>2. ProcInv(p)
  BY DEF LockInv
<1>3. pc'[p] \in {"begin", "unlock"} /\ lock' = lock
  BY DEF LockSeatsEnd
<1>4. Local(p)
  BY <1>1, <1>3 DEF LockSeatsEnd, Local, Ended
<1>5. BackedBy(p)'
  <2>1. CASE got[p] = job[p].seats
    BY <1>1, <1>2, <2>1 DEF LockSeatsEnd, ProcInv, BackedBy
  <2>2. CASE got[p] # job[p].seats
    BY <1>1, <1>2, <2>2 DEF LockSeatsEnd, ProcInv, BackedBy, InTx
  <2> QED BY <2>1, <2>2
<1>6. rows'[p] = {} /\ kept'[p] = {} /\ rows[p] = {} /\ kept[p] = {}
  BY <1>1, <1>2 DEF ProcInv, StillOpenFor, InTx
<1>7. DeletingBy(p)' /\ ~ HasRead(p)'
  BY <1>3 DEF DeletingBy, HasRead
<1> QED BY <1>3, <1>4, <1>5, <1>6, <1>7, MoveLocks

\* The lock that was read is one of the buyer.
LEMMA GetLockLocks ==
    ASSUME NEW p \in Procs, IInv, KeysInv, LockInv, GetLock(p) PROVE LockInv'
<1> USE DEF IInv, TypeOK, Goto, db, redis, env
<1>1. pc[p] = "get" /\ UNCHANGED <<job, lock, crossed, rows, kept>>
  BY DEF GetLock
<1>2. ProcInv(p)
  BY DEF LockInv
<1>3. pc'[p] \in {"get", "del", "failed", "cache"} /\ todo'[p] \subseteq todo[p]
  BY <1>1 DEF GetLock
<1>4. Local(p)
  BY <1>1, <1>3 DEF GetLock, Local, Ended
<1>5. DeletingBy(p)'
  BY <1>1, <1>2 DEF GetLock, ProcInv, DeletingBy, User
<1>6. BackedBy(p)' /\ ~ HasRead(p)'
  BY <1>1, <1>2, <1>3 DEF ProcInv, BackedBy, HasRead, InTx
<1>7. rows'[p] = {} /\ kept'[p] = {} /\ rows[p] = {} /\ kept[p] = {}
  BY <1>1, <1>2 DEF ProcInv, StillOpenFor, InTx
<1> QED BY <1>1, <1>4, <1>5, <1>6, <1>7, MoveLocks

\* The steps of a transaction that read or write no hold rows.
LEMMA StepsLocks ==
    ASSUME NEW p \in Procs, IInv, KeysInv, LockInv,
           UNCHANGED <<hold, lapsed, crossed, job, lock, todo, got, rows, kept>>,
           \A q \in Procs : q # p => pc'[q] = pc[q],
           pc[p] \in {"begin"} \cup InTx, pc'[p] \in InTx,
           HasRead(p)' => HasRead(p)
    PROVE  LockInv'
<1>1. ProcInv(p)
  BY DEF LockInv
<1>2. Local(p)
  BY DEF Local, InTx, Ended
<1>3. BackedBy(p)'
  BY <1>1 DEF ProcInv, BackedBy, InTx
<1>4. DeletingBy(p)' /\ pc'[p] \notin {"get", "del"}
  BY DEF DeletingBy, InTx
<1> QED BY <1>2, <1>3, <1>4, MoveLocks

\* After a rollback no rows are left; holdSeats goes on to its locks.
LEMMA RollbackLocks ==
    ASSUME NEW p \in Procs, IInv, KeysInv, LockInv, pc[p] \in InTx, Rollback(p),
           crossed' = crossed
    PROVE  LockInv'
<1> USE DEF IInv, TypeOK, Goto, db, redis
<1>1. rows'[p] = {} /\ kept'[p] = {} /\ job' = job /\ lock' = lock
  BY DEF Rollback
<1>2. /\ pc'[p] \in {"get", "failed", "next"}
      /\ pc'[p] = "get" => job[p].op = "holdSeats" /\ todo'[p] = job[p].seats
  BY DEF Rollback, AfterRollback, EndsAs
<1>3. Local(p)
  BY <1>1, <1>2 DEF Rollback, Local, InTx, Ended
<1>4. BackedBy(p)'
  BY <1>1, <1>2 DEF LockInv, ProcInv, BackedBy, InTx
<1>5. ~ HasRead(p)' /\ pc'[p] \notin InTx
  BY <1>2 DEF HasRead, InTx
<1>6. DeletingBy(p)'
  BY <1>1, <1>2 DEF DeletingBy
<1>7. "holdSeats" \notin Releases
  BY DEF Releases
<1> QED BY <1>1, <1>2, <1>3, <1>4, <1>5, <1>6, <1>7, MoveLocks

\* Steps outside transactions that touch neither locks nor holds.
LEMMA OutsideLocks ==
    ASSUME NEW p \in Procs, IInv, KeysInv, LockInv,
           UNCHANGED <<hold, lapsed, crossed, job, lock, rows, kept>>,
           \A q \in Procs : q # p => UNCHANGED <<pc[q], todo[q], got[q]>>,
           pc[p] \notin InTx \cup Ended \cup {"idle", "next"},
           pc'[p] \in Ended \cup {"cache", "next", "dbread", "hfill"}
    PROVE  LockInv'
<1>1. ProcInv(p)
  BY DEF LockInv
<1>2. Local(p)
  BY DEF Local, Ended
<1>3. BackedBy(p)' /\ DeletingBy(p)' /\ ~ HasRead(p)' /\ pc'[p] \notin InTx \cup {"get", "del"}
  BY DEF BackedBy, DeletingBy, HasRead, InTx, Ended
<1>4. rows'[p] = {} /\ kept'[p] = {}
  BY <1>1 DEF ProcInv, StillOpenFor
<1> QED BY <1>2, <1>3, <1>4, MoveLocks

-----------------------------------------------------------------------------
(* Steps that take and delete locks *)

\* SET NX: a lock that is taken was free.
LEMMA LockSeatLocks ==
    ASSUME NEW p \in Procs, IInv, KeysInv, LockInv, LockSeat(p) PROVE LockInv'
<1> USE DEF IInv, TypeOK, Goto, db, redis, env
<1>1. pc[p] = "lock" /\ job[p].op = "holdSeats" /\ UNCHANGED <<pc, job, crossed, rows, kept>>
  BY DEF LockSeat, OpsInv, OpsOf
<1>2. ProcInv(p)
  BY DEF LockInv
<1>3. Local(p)
  BY <1>1 DEF LockSeat, Local, Ended
<1>4. PICK z \in todo[p] : /\ todo' = [todo EXCEPT ![p] = @ \ {z}]
                          /\ IF lock[z] = None
                               THEN /\ lock' = [lock EXCEPT ![z] = p]
                                    /\ got' = [got EXCEPT ![p] = @ \cup {z}]
                               ELSE UNCHANGED <<lock, got>>
  BY DEF LockSeat
<1>5. z \in Seats
  BY <1>4
<1>6. BackedBy(p)'
  <2>1. \A s \in Seats \ crossed : s \in got[p] => lock[s] = p
    BY <1>1, <1>2 DEF ProcInv, BackedBy
  <2>2. \A s \in Seats \ crossed : s \in got'[p] => lock'[s] = p
    <3>1. CASE lock[z] = None
      BY <1>4, <1>5, <2>1, <3>1
    <3>2. CASE lock[z] # None
      BY <1>4, <2>1, <3>2
    <3> QED BY <3>1, <3>2
  <2> QED BY <1>1, <2>2 DEF BackedBy, InTx
<1>7. StillOpenFor(p)'
  BY <1>1, <1>2 DEF ProcInv, StillOpenFor, InTx
<1>8. ReadsAll(p)' /\ DeletingBy(p)' /\ OverFor(p)'
  BY <1>1 DEF ReadsAll, HasRead, DeletingBy, OverFor
<1>9. \A s \in Seats : lock'[s] = lock[s] \/ Takes(p, s)
  BY <1>4, <1>5 DEF Takes
<1>10. ProcInv(p)'
  BY <1>6, <1>7, <1>8 DEF ProcInv
<1> QED BY <1>3, <1>9, <1>10, LocalLocks

\* On a seat with a lock of p, a running hold request, no hold is in force.
LEMMA NoLiveUnder ==
    ASSUME NEW p \in Requests, IInv, LockInv, NEW s \in Seats \ crossed, lock[s] = p,
           pc[p] \notin {"cache"} \cup Ended
    PROVE  \A r \in Requests : ~ Live(r, s)
<1>1. \A r \in Requests : Live(r, s) => r = p
  BY DEF LockInv, LiveHoldIsLocked
<1>2. ~ Live(p, s)
  BY DEF IInv, HoldsInv, Live, Ended
<1> QED BY <1>1, <1>2

\* The keys a failed batch deletes are its own still.
LEMMA UnlockSeatLocks ==
    ASSUME NEW p \in Procs, IInv, KeysInv, LockInv, UnlockSeat(p) PROVE LockInv'
<1> USE DEF IInv, TypeOK, Goto, db, redis, env
<1>1. pc[p] = "unlock" /\ job[p].op = "holdSeats" /\ UNCHANGED <<job, crossed, rows, kept>>
  BY DEF UnlockSeat, OpsInv, OpsOf
<1>2. p \in Requests /\ Busy(p)
  BY <1>1, BusyWhen DEF WorkerInv, Procs
<1>3. ProcInv(p)
  BY DEF LockInv
<1>4. pc'[p] \in {"unlock", "failed"}
  BY <1>1 DEF UnlockSeat
<1>5. Local(p)
  BY <1>1, <1>4 DEF UnlockSeat, Local, Ended
<1>6. \A s \in Seats \ crossed : s \in todo[p] => lock[s] = p
  BY <1>1, <1>3 DEF ProcInv, BackedBy
<1>7. BackedBy(p)'
  <2>1. \A s \in Seats : s \in todo'[p] => s \in todo[p] /\ lock'[s] = lock[s]
    BY DEF UnlockSeat
  <2> QED BY <1>1, <1>4, <1>6, <2>1 DEF BackedBy, InTx
<1>8. StillOpenFor(p)'
  BY <1>1, <1>3, <1>4 DEF ProcInv, StillOpenFor, InTx
<1>9. ReadsAll(p)' /\ DeletingBy(p)' /\ OverFor(p)'
  BY <1>4 DEF ReadsAll, HasRead, DeletingBy, OverFor
<1>10. ASSUME NEW s \in Seats \ crossed, lock'[s] # lock[s] PROVE Frees(p, s)
  <2>1. lock[s] = p /\ lock'[s] = None
    BY <1>6, <1>10 DEF UnlockSeat
  <2>2. \A r \in Requests : ~ Live(r, s)
    BY <1>1, <1>2, <2>1, NoLiveUnder DEF Ended
  <2> QED BY <1>2, <2>1, <2>2, NoneAssumption DEF Frees
<1>11. ProcInv(p)'
  BY <1>7, <1>8, <1>9 DEF ProcInv
<1> QED BY <1>5, <1>10, <1>11, LocalLocks

\* The DEL finds the lock the GET has seen, and no hold in force.
LEMMA DelLockLocks ==
    ASSUME NEW p \in Procs, IInv, KeysInv, LockInv, DelLock(p) PROVE LockInv'
<1> USE DEF IInv, TypeOK, Goto, db, redis, env
<1>1. pc[p] = "del" /\ pc'[p] = "get" /\ UNCHANGED <<job, crossed, rows, kept, hold, lapsed>>
  BY DEF DelLock
<1>2. Busy(p) /\ job[p].op \in Releases \cup {"holdSeats"}
  BY <1>1, BusyWhen DEF OpsInv, OpsOf
<1>3. ProcInv(p)
  BY DEF LockInv
<1>4. Local(p)
  BY <1>1 DEF DelLock, Local, Ended
<1>5. todo'[p] = todo[p] \ got[p] /\ got'[p] = {}
      /\ \A s \in Seats : lock'[s] = IF s \in got[p] THEN None ELSE lock[s]
  BY DEF DelLock
<1>6. BackedBy(p)'
  BY <1>1, <1>3, <1>5 DEF ProcInv, BackedBy, InTx
<1>7. DeletingBy(p)'
  BY <1>1, <1>3, <1>5 DEF ProcInv, DeletingBy
<1>8. OverFor(p)'
  BY <1>1, <1>3 DEF ProcInv, OverFor, User, Live
<1>9. StillOpenFor(p)' /\ ReadsAll(p)'
  BY <1>1, <1>3 DEF ProcInv, StillOpenFor, ReadsAll, HasRead, InTx
<1>10. ASSUME NEW s \in Seats \ crossed, lock'[s] # lock[s] PROVE Frees(p, s)
  <2>1. s \in got[p] /\ lock'[s] = None
    BY <1>5, <1>10
  <2>2. /\ s \in todo[p] /\ s \in job[p].seats
        /\ lock[s] # None /\ User(lock[s]) = User(p)
    BY <1>1, <1>3, <2>1 DEF ProcInv, DeletingBy, User
  <2>3. CASE job[p].op = "holdSeats"
    <3>1. lock[s] = p
      BY <1>1, <1>3, <2>2, <2>3 DEF ProcInv, BackedBy
    <3>2. p \in Requests
      BY <2>3 DEF WorkerInv, Procs
    <3>3. \A r \in Requests : ~ Live(r, s)
      BY <1>1, <3>1, <3>2, NoLiveUnder DEF Ended
    <3> QED BY <1>2, <2>1, <2>2, <3>3 DEF Frees
  <2>4. CASE job[p].op \in Releases
    <3>1. ASSUME NEW r \in Requests, Live(r, s) PROVE FALSE
      <4>1. lock[s] = r
        BY <3>1 DEF LockInv, LiveHoldIsLocked
      <4> QED BY <1>1, <1>3, <2>2, <2>4, <3>1, <4>1 DEF ProcInv, OverFor, User
    <3> QED BY <1>2, <2>1, <2>2, <3>1 DEF Frees
  <2> QED BY <1>2, <2>3, <2>4
<1>11. ProcInv(p)'
  BY <1>6, <1>7, <1>8, <1>9 DEF ProcInv
<1> QED BY <1>4, <1>10, <1>11, LocalLocks

-----------------------------------------------------------------------------
(* Hold rows: the find, the save and the commit *)

\* The find of releaseSeats and markAsSold sees every hold in force.
LEMMA ReadHoldsLocks ==
    ASSUME NEW p \in Procs, IInv, KeysInv, LockInv, ReadHolds(p) PROVE LockInv'
<1> USE DEF IInv, TypeOK, Goto, db, redis
<1>1. pc[p] = "readHolds" /\ job[p].op \in Releases /\ pc'[p] = "saveHolds"
  BY DEF ReadHolds, OpsInv, OpsOf, After, Releases
<1>2. UNCHANGED <<hold, lapsed, crossed, job, lock>>
  BY DEF ReadHolds
<1>3. Local(p)
  BY <1>1, <1>2 DEF ReadHolds, Local, Ended
<1>4. \A r \in Requests, s \in Seats : <<r, s>> \in rows'[p] \cup kept'[p] <=>
        hold[r][s] = "open" /\ User(r) = job[p].user
  BY DEF ReadHolds, OpenRows, Rows
<1>5. StillOpenFor(p)'
  BY <1>1, <1>2, <1>4 DEF StillOpenFor, InTx, User
<1>6. \A r \in Requests, s \in Seats :
        hold[r][s] = "open" /\ User(r) = job[p].user /\ s \in job[p].seats => <<r, s>> \in rows'[p]
  BY DEF ReadHolds, OpenRows, Rows
<1>7. ReadsAll(p)'
  BY <1>2, <1>6 DEF ReadsAll, User, Live
<1>8. DeletingBy(p)' /\ BackedBy(p)' /\ OverFor(p)'
  BY <1>1, <1>2 DEF DeletingBy, BackedBy, OverFor, Releases
<1>9. ProcInv(p)'
  BY <1>5, <1>7, <1>8 DEF ProcInv
<1> QED BY <1>2, <1>3, <1>9, LocalLocks

\* The save keeps what it releases, and opens again a part of what it read.
LEMMA SaveHoldsLocks ==
    ASSUME NEW p \in Procs, IInv, KeysInv, LockInv, SaveHolds(p) PROVE LockInv'
<1> USE DEF IInv, TypeOK, Goto, db, redis, env
<1>1. pc[p] = "saveHolds" /\ job[p].op \in Releases /\ pc'[p] \in {"saveInv", "commit"}
  BY DEF SaveHolds, OpsInv, OpsOf, After, Releases
<1>2. UNCHANGED <<hold, lapsed, crossed, job, lock, rows, todo, got>>
  BY DEF SaveHolds
<1>3. kept'[p] \subseteq kept[p]
  BY DEF SaveHolds, Revived
<1>4. Local(p)
  BY <1>1, <1>2 DEF SaveHolds, Local, Ended
<1>5. DeletingBy(p)' /\ BackedBy(p)' /\ HasRead(p) /\ pc'[p] \in InTx
  BY <1>1, <1>2 DEF DeletingBy, BackedBy, Releases, HasRead, InTx
<1> QED BY <1>1, <1>2, <1>3, <1>4, <1>5, MoveLocks

\* A commit puts its own holds into force, and no others.
LEMMA CommitLive ==
    ASSUME NEW p \in Procs, IInv, LockInv, Commit(p),
           NEW r \in Requests, NEW s \in Seats \ crossed, Live(r, s)'
    PROVE  Live(r, s) \/ (r = p /\ job[p].op = "holdSeats" /\ s \in job[p].seats)
<1> USE DEF IInv, TypeOK
<1>1. hold'[r][s] = "open" /\ <<r, s>> \notin lapsed
  BY DEF Live, Commit
<1>2. job[p].op \in Releases => job[p].reason # "open"
  BY DEF OpsInv, OpsOf, Reasons
<1>3. job[p].op \in Releases \cup {"holdSeats"}
  BY DEF Commit, OpsInv, OpsOf
<1>4. CASE <<r, s>> \in kept[p]
  BY <1>1, <1>4 DEF LockInv, ProcInv, StillOpenFor, Live
<1>5. CASE <<r, s>> \notin kept[p]
  BY <1>1, <1>2, <1>3, <1>5 DEF Commit, HoldsAfter, Live, Releases
<1> QED BY <1>4, <1>5

\* A commit releases rows it has read.
LEMMA CommitReleases ==
    ASSUME NEW p \in Procs, IInv, LockInv, Commit(p),
           NEW r \in Requests, NEW s \in Seats \ crossed,
           hold[r][s] = "open", hold'[r][s] # "open"
    PROVE  User(r) = job[p].user /\ s \in job[p].seats
<1>1. <<r, s>> \in rows[p]
  BY DEF Commit, HoldsAfter
<1>2. s \in job[p].seats
  BY <1>1 DEF IInv, RowsInv
<1> QED BY <1>1, <1>2 DEF LockInv, ProcInv, StillOpenFor

LEMMA CommitOthers ==
    ASSUME NEW p \in Procs, IInv, LockInv, Commit(p), NEW q \in Procs, q # p
    PROVE  ProcInv(q)'
<1> USE DEF IInv, TypeOK, Goto, db, redis, env
<1>1. UNCHANGED <<lapsed, crossed, job, lock, got>> /\ pc[p] = "commit"
  BY DEF Commit
<1>2. UNCHANGED <<pc[q], todo[q], rows[q], kept[q]>>
  BY DEF Commit
<1>3. ProcInv(q) /\ Busy(p)
  BY <1>1, BusyWhen DEF LockInv, InTx
<1>4. DeletingBy(q)' /\ BackedBy(q)'
  BY <1>1, <1>2, <1>3 DEF ProcInv, DeletingBy, BackedBy, User
<1>5. StillOpenFor(q)'
  <2>1. ASSUME NEW r \in Requests, NEW s \in Seats \ crossed, <<r, s>> \in rows[q] \cup kept[q]
        PROVE  hold'[r][s] = "open"
    <3>1. User(r) = job[q].user /\ hold[r][s] = "open" /\ pc[q] \in InTx
      BY <1>3, <2>1 DEF ProcInv, StillOpenFor
    <3>2. Busy(q)
      BY <3>1, BusyWhen
    <3>3. ~ (User(r) = job[p].user /\ s \in job[p].seats)
      BY <1>3, <3>1, <3>2, OneAtATime DEF User
    <3> QED BY <3>1, <3>3, CommitReleases
  <2> QED BY <1>1, <1>2, <1>3, <2>1 DEF ProcInv, StillOpenFor, User
<1>6. ASSUME pc[q] \in InTx \cup {"get", "del"}, NEW r \in Requests, NEW s \in Seats \ crossed,
             User(r) = job[q].user, Live(r, s)'
      PROVE  Live(r, s)
  <2>1. Busy(q)
    BY <1>6, BusyWhen
  <2>2. ~ (r = p /\ job[p].op = "holdSeats" /\ s \in job[p].seats)
    BY <1>3, <1>6, <2>1, OneAtATime DEF User
  <2> QED BY <1>6, <2>2, CommitLive
<1>7. ReadsAll(q)'
  <2>1. HasRead(q)' => HasRead(q) /\ pc[q] \in InTx
    BY <1>1, <1>2 DEF HasRead, InTx
  <2> QED BY <1>1, <1>2, <1>3, <1>6, <2>1 DEF ProcInv, ReadsAll, User
<1>8. OverFor(q)'
  BY <1>1, <1>2, <1>3, <1>6 DEF ProcInv, OverFor, User
<1> QED BY <1>4, <1>5, <1>7, <1>8 DEF ProcInv

LEMMA CommitLocks ==
    ASSUME NEW p \in Procs, IInv, KeysInv, LockInv, Commit(p) PROVE LockInv'
<1> USE DEF IInv, TypeOK, Goto, db, redis, env
<1>1. UNCHANGED <<lapsed, crossed, job, lock, got>> /\ pc[p] = "commit"
  BY DEF Commit
<1>2. /\ pc'[p] \in {"cache", "get"} /\ (pc'[p] = "get" => job[p].op # "holdSeats")
      /\ \A q \in Procs : q # p => pc'[q] = pc[q]
  BY DEF Commit
<1>3. ProcInv(p)
  BY DEF LockInv
<1>4. Apart'
  <2>1. \A q \in Procs : Busy(q)' => Busy(q)
    BY <1>1, <1>2 DEF Busy, Ended
  <2> QED BY <1>1, <2>1 DEF LockInv, Apart, User
<1>5. Fresh'
  BY <1>1, <1>2 DEF LockInv, Fresh, Procs
<1>6. ProcInv(p)'
  <2>1. DeletingBy(p)'
    BY <1>1, <1>2 DEF Commit, DeletingBy
  <2>2. StillOpenFor(p)' /\ ReadsAll(p)' /\ BackedBy(p)'
    BY <1>1, <1>2 DEF Commit, StillOpenFor, ReadsAll, HasRead, BackedBy, InTx
  <2>3. OverFor(p)'
    <3> SUFFICES ASSUME job[p].op \in Releases, NEW r \in Requests, NEW s \in Seats \ crossed,
                        User(r) = job[p].user, s \in job[p].seats, Live(r, s)'
                 PROVE  FALSE
      BY <1>1 DEF OverFor, User
    <3>1. Live(r, s)
      BY CommitLive DEF Releases
    <3>2. <<r, s>> \in rows[p]
      BY <1>1, <1>3, <3>1 DEF ProcInv, ReadsAll, HasRead
    <3>3. hold'[r][s] = job[p].reason /\ job[p].reason # "open"
      BY <3>2 DEF Commit, HoldsAfter, Releases, OpsInv, OpsOf, Reasons
    <3> QED BY <3>3 DEF Live
  <2> QED BY <2>1, <2>2, <2>3 DEF ProcInv
<1>7. \A q \in Procs : ProcInv(q)'
  BY <1>6, CommitOthers
<1>8. LiveHoldIsLocked'
  <2> SUFFICES ASSUME NEW r \in Requests, NEW s \in Seats \ crossed, Live(r, s)'
               PROVE  lock[s] = r
    BY <1>1 DEF LiveHoldIsLocked
  <2>1. CASE Live(r, s)
    BY <2>1 DEF LockInv, LiveHoldIsLocked
  <2>2. CASE r = p /\ job[p].op = "holdSeats" /\ s \in job[p].seats
    BY <1>1, <1>3, <2>2 DEF ProcInv, BackedBy, InTx
  <2> QED BY <2>1, <2>2, CommitLive
<1> QED BY <1>4, <1>5, <1>7, <1>8 DEF LockInv

-----------------------------------------------------------------------------
(* Requests, the worker, time and restarts *)

\* A call for a buyer begins: it and those under way cross each other's seats.
LEMMA CallBegins ==
    ASSUME NEW p \in Procs, IInv, LockInv, ~ Busy(p),
           \A q \in Procs : q # p => UNCHANGED <<job[q], pc[q]>>,
           crossed \subseteq crossed',
           Busy(p)' => Meeting(job'[p].user, job'[p].seats) \subseteq crossed'
    PROVE  Apart'
<1>1. ASSUME NEW q \in Procs, q # p, Busy(p)', Busy(q), job'[p].user = User(q)
      PROVE  job'[p].seats \cup job[q].seats \subseteq crossed'
  <2>1. CallFor(q, job'[p].user)
    BY <1>1 DEF CallFor, Busy
  <2>2. job'[p].seats \cup job[q].seats \subseteq Meeting(job'[p].user, job'[p].seats)
    BY <2>1 DEF Meeting
  <2> QED BY <1>1, <2>2
<1>2. \A q \in Procs : q # p => (Busy(q)' <=> Busy(q)) /\ job'[q] = job[q]
  BY DEF Busy
<1>3. ASSUME NEW x \in Procs, NEW y \in Procs, x # y, Busy(x)', Busy(y)', User(x)' = User(y)'
      PROVE  (job[x].seats \cup job[y].seats \subseteq crossed)'
  <2>1. CASE x = p
    BY <1>1, <1>2, <1>3, <2>1 DEF User
  <2>2. CASE y = p
    BY <1>1, <1>2, <1>3, <2>2 DEF User
  <2>3. CASE x # p /\ y # p
    BY <1>2, <1>3, <2>3 DEF User, LockInv, Apart
  <2> QED BY <2>1, <2>2, <2>3
<1> QED BY <1>3 DEF Apart

\* The other handlers, when no lock and no row changes.
LEMMA QuietOthers ==
    ASSUME NEW q \in Procs, LockInv, crossed \subseteq crossed', UNCHANGED <<hold, lapsed, lock>>,
           UNCHANGED <<job[q], pc[q], todo[q], got[q], rows[q], kept[q]>>,
           \A r \in Requests, s \in Seats : hold[r][s] # "none" \/ lock[s] = r => User(r)' = User(r),
           lock \in [Seats -> Requests \cup {None}]
    PROVE  ProcInv(q)'
<1>1. ProcInv(q)
  BY DEF LockInv
<1>2. \A r \in Requests, s \in Seats : Live(r, s)' <=> Live(r, s)
  BY DEF Live
<1>3. \A r \in Requests, s \in Seats : Live(r, s) => User(r)' = User(r)
  BY DEF Live
<1>4. DeletingBy(q)'
  <2>1. \A s \in Seats : lock[s] # None => User(lock[s])' = User(lock[s])
    OBVIOUS
  <2> QED BY <1>1, <2>1 DEF ProcInv, DeletingBy, User
<1>5. StillOpenFor(q)'
  BY <1>1 DEF ProcInv, StillOpenFor
<1>6. ReadsAll(q)' /\ OverFor(q)'
  BY <1>1, <1>2, <1>3 DEF ProcInv, ReadsAll, HasRead, OverFor
<1>7. BackedBy(q)'
  BY <1>1 DEF ProcInv, BackedBy
<1> QED BY <1>4, <1>5, <1>6, <1>7 DEF ProcInv

LEMMA BeginLocks ==
    ASSUME NEW r \in Requests, IInv, KeysInv, LockInv, Begin(r) PROVE LockInv'
<1> USE DEF IInv, TypeOK, Goto, db, redis
<1>1. /\ pc[r] = "idle" /\ UNCHANGED <<hold, lapsed, lock, got, rows, kept>>
      /\ r \in Procs
  BY DEF Begin, Procs
<1>2. \A q \in Procs : q # r => UNCHANGED <<job[q], pc[q], todo[q]>>
  BY DEF Begin, Procs
<1>3. got[r] = {} /\ rows[r] = {} /\ kept[r] = {}
  BY <1>1 DEF LockInv, Fresh, ProcInv, StillOpenFor, InTx
<1>4. \A s \in Seats : lock[s] # r /\ hold[r][s] = "none"
  BY <1>1 DEF KeysInv, KeysOf, HasKey, HoldsInv, InTx
<1>5. pc'[r] \in {"lock", "begin", "put", "hget"} /\ (pc'[r] = "begin" => job'[r].op # "holdSeats")
  BY <1>1 DEF Begin, FirstStep
<1>6. /\ crossed \subseteq crossed'
      /\ job'[r].op \in ForBuyer => Meeting(job'[r].user, job'[r].seats) \subseteq crossed'
  BY <1>1 DEF Begin
<1>7. Apart'
  BY <1>1, <1>2, <1>6, CallBegins DEF Busy
<1>8. Fresh'
  BY <1>1, <1>2, <1>5 DEF LockInv, Fresh, Procs
<1>9. ProcInv(r)'
  BY <1>1, <1>3, <1>5
  DEF ProcInv, DeletingBy, StillOpenFor, ReadsAll, HasRead, BackedBy, OverFor, InTx
<1>10. \A x \in Requests, s \in Seats : hold[x][s] # "none" \/ lock[s] = x => User(x)' = User(x)
  BY <1>2, <1>4 DEF User, Procs
<1>11. ASSUME NEW q \in Procs, q # r PROVE ProcInv(q)'
  BY <1>1, <1>2, <1>6, <1>10, <1>11, QuietOthers
<1>12. LiveHoldIsLocked'
  BY <1>1, <1>6 DEF LockInv, LiveHoldIsLocked, Live
<1> QED BY <1>7, <1>8, <1>9, <1>11, <1>12 DEF LockInv

\* The worker outside releaseSeats.
LEMMA WorkerLocks ==
    ASSUME IInv, LockInv, Scan \/ NextGroup PROVE LockInv'
<1> USE DEF IInv, TypeOK, Goto, db, redis, env
<1>1. UNCHANGED <<hold, lapsed, lock, todo, got, rows, kept>> /\ Worker \in Procs
  BY DEF Scan, NextGroup, Procs
<1>2. \A q \in Procs : q # Worker => UNCHANGED <<job[q], pc[q]>>
  BY DEF Scan, NextGroup, Procs
<1>3. pc[Worker] \in {"idle", "next"} /\ pc'[Worker] \in {"idle", "next", "begin"}
  BY <1>1 DEF Scan, NextGroup
<1>4. /\ crossed \subseteq crossed'
      /\ Busy(Worker)' => Meeting(job'[Worker].user, job'[Worker].seats) \subseteq crossed'
  <2>1. CASE Scan
    BY <1>1, <2>1 DEF Scan, Busy
  <2>2. CASE NextGroup
    <3>1. CASE pc' = [pc EXCEPT ![Worker] = "idle"] /\ crossed' = crossed
      BY <1>1, <3>1 DEF Busy
    <3>2. CASE \E h \in batch :
            LET group == {g \in batch : User(g[1]) = User(h[1])}
                seats == {g[2] : g \in group} IN
            /\ job' = [job EXCEPT ![Worker] =
                         [op |-> "releaseSeats", user |-> User(h[1]), seats |-> seats,
                          reason |-> "timeout"]]
            /\ crossed' = crossed \cup Meeting(User(h[1]), seats)
      BY <1>1, <3>2
    <3> QED BY <2>2, <3>1, <3>2 DEF NextGroup
  <2> QED BY <2>1, <2>2
<1>5. Apart'
  BY <1>1, <1>2, <1>3, <1>4, CallBegins DEF Busy
<1>6. Fresh'
  BY <1>1, <1>2, WorkerAssumption DEF LockInv, Fresh, Procs
<1>7. ProcInv(Worker)'
  <2>1. job'[Worker].op # "holdSeats"
    <3>1. Worker \in Procs /\ (job' = job \/ NextGroup)
      BY <1>1 DEF Scan
    <3> QED BY <3>1 DEF NextGroup, WorkerInv, NoJob
  <2> QED BY <1>1, <1>3, <2>1
      DEF LockInv, ProcInv, DeletingBy, StillOpenFor, ReadsAll, HasRead, BackedBy, OverFor, InTx
<1>8. \A x \in Requests : User(x)' = User(x)
  BY <1>2, WorkerAssumption DEF User, Procs
<1>9. ASSUME NEW q \in Procs, q # Worker PROVE ProcInv(q)'
  BY <1>1, <1>2, <1>4, <1>8, <1>9, QuietOthers
<1>10. LiveHoldIsLocked'
  BY <1>1, <1>4 DEF LockInv, LiveHoldIsLocked, Live
<1> QED BY <1>5, <1>6, <1>7, <1>9, <1>10 DEF LockInv

\* A lock that runs out under a call of its buyer makes the seat crossed; one
\* that runs out otherwise ends the hold it backs.
LEMMA LockLapsesLocks ==
    ASSUME NEW r \in Requests, NEW s \in Seats, IInv, KeysInv, LockInv, LockLapses(r, s)
    PROVE  LockInv'
<1> USE DEF IInv, TypeOK
<1>1. UNCHANGED <<hold, job, pc, todo, got, rows, kept>> /\ lapsed' = lapsed \cup {<<r, s>>}
  BY DEF LockLapses
<1>2. /\ crossed \subseteq crossed'
      /\ \A z \in Seats : lock'[z] = lock[z] \/ (z = s /\ lock[z] = r /\ lock'[z] = None)
  BY DEF LockLapses
<1>3. ASSUME NEW q \in Procs, Busy(q), User(q) = User(r), s \in job[q].seats
      PROVE  s \in crossed'
  <2>1. CallFor(q, User(r))
    BY <1>3 DEF CallFor, Busy
  <2> QED BY <1>3, <2>1 DEF LockLapses
<1>4. Apart' /\ Fresh'
  BY <1>1, <1>2 DEF LockInv, Apart, Fresh, Busy, User
<1>5. ASSUME NEW q \in Procs PROVE ProcInv(q)'
  <2>1. ProcInv(q)
    BY DEF LockInv
  <2>2. \A x \in Requests, z \in Seats : Live(x, z)' => Live(x, z)
    BY <1>1 DEF Live
  <2>3. StillOpenFor(q)'
    BY <1>1, <1>2, <2>1 DEF ProcInv, StillOpenFor, User
  <2>4. ReadsAll(q)' /\ OverFor(q)'
    BY <1>1, <1>2, <2>1, <2>2 DEF ProcInv, ReadsAll, HasRead, OverFor, User
  <2>5. BackedBy(q)'
    <3> SUFFICES ASSUME job[q].op = "holdSeats", NEW z \in Seats \ crossed', lock[z] = q,
                        pc[q] \in {"lock", "unlock", "begin", "get", "del"} \cup InTx
                 PROVE  lock'[z] = q
      BY <1>1, <1>2, <2>1 DEF ProcInv, BackedBy
    <3>1. q \in Requests
      BY DEF WorkerInv, Procs
    <3>2. Busy(q) /\ z \in job[q].seats
      BY <3>1, BusyWhen DEF KeysInv, KeysOf, HasKey
    <3>3. ~ (z = s /\ q = r)
      BY <1>3, <3>2
    <3> QED BY <1>2, <3>3
  <2>6. DeletingBy(q)'
    <3> SUFFICES ASSUME NEW z \in Seats \ crossed', pc[q] = "del", z \in got[q]
                 PROVE  lock'[z] # None /\ User(lock'[z]) = job[q].user
      BY <1>1, <2>1 DEF ProcInv, DeletingBy, User
    <3>1. z \in job[q].seats /\ lock[z] # None /\ User(lock[z]) = job[q].user
      BY <1>2, <2>1 DEF ProcInv, DeletingBy
    <3>2. Busy(q)
      BY BusyWhen
    <3>3. ~ (z = s /\ lock[z] = r)
      BY <1>3, <3>1, <3>2 DEF User
    <3> QED BY <1>2, <3>1, <3>3
  <2> QED BY <2>3, <2>4, <2>5, <2>6 DEF ProcInv
<1>6. LiveHoldIsLocked'
  <2> SUFFICES ASSUME NEW x \in Requests, NEW z \in Seats \ crossed', Live(x, z)'
               PROVE  lock'[z] = x
    BY DEF LiveHoldIsLocked
  <2>1. lock[z] = x /\ <<x, z>> # <<r, s>>
    BY <1>1, <1>2 DEF LockInv, LiveHoldIsLocked, Live
  <2> QED BY <1>2, <2>1
<1> QED BY <1>4, <1>5, <1>6 DEF LockInv

\* After a restart no handler runs; Redis and the rows are as they were.
LEMMA CrashLocks ==
    ASSUME IInv, LockInv, Crash PROVE LockInv'
<1> USE DEF IInv, TypeOK, db
<1>1. UNCHANGED <<hold, lapsed, lock, crossed>> /\ Worker \in Procs
  BY DEF Crash, Procs, Fault
<1>2. \A q \in Procs : todo'[q] = {} /\ got'[q] = {} /\ rows'[q] = {} /\ kept'[q] = {}
  BY DEF Crash
<1>3. pc'[Worker] = "idle" /\ \A q \in Requests : job'[q] = job[q]
  BY <1>1, WorkerAssumption DEF Crash, Procs
<1>4. ASSUME NEW q \in Requests
      PROVE  pc'[q] \notin Running /\ (pc'[q] = "idle" => pc[q] = "idle")
  <2>1. q \in Procs /\ q # Worker
    BY WorkerAssumption DEF Procs
  <2> QED BY <2>1 DEF Crash, Committed, Ended, Running, InTx
<1>5. \A q \in Procs : pc'[q] \notin Running
  BY <1>3, <1>4 DEF Procs, Running, InTx
<1>6. \A q \in Procs : pc'[q] \in Running \cup Ended \cup {"idle", "next"}
  BY CrashIInv DEF IInv, TypeOK
<1>7. Apart'
  BY <1>5, <1>6 DEF Apart, Busy
<1>8. Fresh'
  BY <1>2, <1>3, <1>4 DEF LockInv, Fresh, Procs
<1>9. \A q \in Procs : ProcInv(q)'
  BY <1>2, <1>5
  DEF ProcInv, DeletingBy, StillOpenFor, ReadsAll, HasRead, BackedBy, OverFor, Running, InTx
<1>10. LiveHoldIsLocked'
  BY <1>1 DEF LockInv, LiveHoldIsLocked, Live
<1> QED BY <1>7, <1>8, <1>9, <1>10 DEF LockInv

-----------------------------------------------------------------------------
(* All steps *)

LEMMA HandlerStepLocks ==
    ASSUME NEW p \in Procs, IInv, KeysInv, LockInv, HandlerStep(p) PROVE LockInv'
<1> USE DEF IInv, TypeOK, Goto, db, redis, env
<1>1. CASE LockSeat(p) \/ LockSeatsEnd(p) \/ UnlockSeat(p)
  BY <1>1, LockSeatLocks, LockSeatsEndLocks, UnlockSeatLocks
<1>2. CASE GetLock(p) \/ DelLock(p)
  BY <1>2, GetLockLocks, DelLockLocks
<1>3. CASE BeginTx(p)
  <2>1. pc'[p] \in InTx /\ ~ HasRead(p)'
    BY <1>3 DEF BeginTx, After, InTx, HasRead, OpsInv, OpsOf, Releases
  <2> QED BY <1>3, <2>1, StepsLocks DEF BeginTx
<1>4. CASE ReadInventory(p)
  <2>1. CASE Rollback(p)
    BY <1>4, <2>1, RollbackLocks DEF ReadInventory, InTx
  <2>2. CASE ~ Rollback(p)
    <3>1. job[p].op = "holdSeats" /\ pc'[p] = "saveInv" /\ job' = job
      BY <1>4, <2>2 DEF ReadInventory, After, OpsInv, OpsOf
    <3>2. pc'[p] \in InTx /\ pc[p] \in InTx /\ ~ HasRead(p)'
      BY <1>4, <3>1 DEF ReadInventory, InTx, HasRead
    <3> QED BY <1>4, <2>2, <3>2, StepsLocks DEF ReadInventory
  <2> QED BY <2>1, <2>2
<1>5. CASE SaveInventory(p)
  <2>1. CASE Rollback(p)
    BY <1>5, <2>1, RollbackLocks DEF SaveInventory, InTx
  <2>2. CASE ~ Rollback(p)
    <3>1. pc[p] = "saveInv" /\ pc'[p] = After(job[p].op, "saveInv") /\ job' = job
      BY <1>5, <2>2 DEF SaveInventory
    <3>2. pc'[p] \in InTx /\ pc[p] \in InTx /\ (HasRead(p)' => HasRead(p))
      BY <3>1 DEF InTx, HasRead, After, OpsInv, OpsOf, Releases
    <3> QED BY <1>5, <2>2, <3>2, StepsLocks DEF SaveInventory
  <2> QED BY <2>1, <2>2
<1>6. CASE ReadHolds(p) \/ SaveHolds(p) \/ Commit(p)
  BY <1>6, ReadHoldsLocks, SaveHoldsLocks, CommitLocks
<1>7. CASE PutSoldSeats(p)
  BY <1>7, OutsideLocks DEF PutSoldSeats, InTx, Ended
<1>8. CASE UpdateMultipleSeatsStatus(p)
  BY <1>8, OutsideLocks DEF UpdateMultipleSeatsStatus, EndsAs, InTx, Ended
<1>9. CASE ReadCache(p) \/ RebuildRead(p) \/ RebuildWrite(p)
  BY <1>9, OutsideLocks DEF ReadCache, RebuildRead, RebuildWrite, InTx, Ended
<1>10. CASE DeadlockAbort(p)
  <2>1. pc[p] \in InTx
    BY <1>10 DEF DeadlockAbort, WaitsFor, InTx
  <2> QED BY <1>10, <2>1, RollbackLocks DEF DeadlockAbort
<1> QED
  BY <1>1, <1>2, <1>3, <1>4, <1>5, <1>6, <1>7, <1>8, <1>9, <1>10, HandlerStep(p)
  DEF HandlerStep

LEMMA HandlerErrorLocks ==
    ASSUME NEW p \in Procs, IInv, KeysInv, LockInv, HandlerError(p) PROVE LockInv'
<1> USE DEF IInv, TypeOK, Goto, db, redis
<1>1. crossed' = crossed
  BY DEF HandlerError, ConnectError, TxError, RedisError, CacheWriteLost, Fault
<1>2. CASE ConnectError(p)
  BY <1>1, <1>2, OutsideLocks DEF ConnectError, EndsAs, InTx, Ended
<1>3. CASE TxError(p)
  BY <1>1, <1>3, RollbackLocks DEF TxError
<1>4. CASE RedisError(p)
  BY <1>1, <1>4, OutsideLocks DEF RedisError, EndsAs, InTx, Ended
<1>5. CASE CacheWriteLost(p)
  BY <1>1, <1>5, OutsideLocks DEF CacheWriteLost, EndsAs, InTx, Ended
<1> QED BY <1>2, <1>3, <1>4, <1>5 DEF HandlerError

\* Every step preserves LockInv.
LEMMA NextLocks ==
    ASSUME IInv, KeysInv, LockInv, [Next]_vars PROVE LockInv'
<1>1. CASE UNCHANGED vars \/ \E r \in Requests : HoldLapses(r)
  <2>1. UNCHANGED <<hold, lapsed, lock, job, pc, todo, got, rows, kept, crossed>>
    BY <1>1 DEF vars, HoldLapses, redis, env
  <2> QED
    BY <2>1
    DEF LockInv, Apart, Busy, Fresh, LiveHoldIsLocked, ProcInv, DeletingBy, StillOpenFor,
        ReadsAll, HasRead, BackedBy, OverFor, User, Live
<1>2. CASE \E r \in Requests, s \in Seats : LockLapses(r, s)
  BY <1>2, LockLapsesLocks
<1>3. CASE Next /\ ~ TimePasses
  BY <1>3, BeginLocks, HandlerStepLocks, HandlerErrorLocks, WorkerLocks, CrashLocks DEF Next
<1> QED BY <1>1, <1>2, <1>3 DEF TimePasses

\* Until the TTL of its lock is over, a hold that has not been released has
\* the Redis lock of the request that made it, so the answer of verifyHold
\* (inventory.grpc-controller.ts 44-57) is the truth about the rows, whatever
\* rivals do, fails or restarts, on every seat where no two calls for one
\* buyer have met and no lock has run out under a call of its buyer.
THEOREM LiveHoldIsLockedHolds == Spec => []LiveHoldIsLocked
<1>1. Spec => []IInv
  BY InitIInv, NextIInv, PTL DEF Spec
<1>2. IInv /\ KeysInv /\ [Next]_vars => KeysInv'
  BY NextKeys
<1>3. IInv /\ KeysInv /\ LockInv /\ [Next]_vars => LockInv'
  BY NextLocks
<1>4. LockInv => LiveHoldIsLocked
  BY DEF LockInv
<1> QED BY <1>1, <1>2, <1>3, <1>4, InitKeys, InitLocks, PTL DEF Spec

\* What README.md 95 promises, where it is true: two holds on one seat whose
\* locks would both still be in force only ever come about on a seat where
\* two calls for one buyer have met or a lock has run out under a call of its
\* buyer; different buyers alone never produce them (seat-lock.service.ts 35-58).
THEOREM DoubleHoldsAreCrossed ==
    Spec => [](\A s \in Seats, r1, r2 \in Requests :
                 Live(r1, s) /\ Live(r2, s) /\ r1 # r2 => s \in crossed)
<1>1. LiveHoldIsLocked => \A s \in Seats, r1, r2 \in Requests :
                            Live(r1, s) /\ Live(r2, s) /\ r1 # r2 => s \in crossed
  BY DEF LiveHoldIsLocked
<1> QED BY <1>1, LiveHoldIsLockedHolds, PTL
=============================================================================
