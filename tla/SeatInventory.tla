--------------------------- MODULE SeatInventory ---------------------------
(***************************************************************************)
(* The seat-inventory service for the seats of one event: the Redis seat   *)
(* locks (inventory/seat-lock.service.ts), the PostgreSQL inventory and    *)
(* hold rows (hold/hold.service.ts, inventory/inventory.service.ts), the   *)
(* cron worker that ends expired holds (hold/hold-expiry.worker.ts) and    *)
(* the Redis read model of seat availability                               *)
(* (cqrs/availability-read.service.ts).                                    *)
(*                                                                         *)
(* A handler is a process that takes one step per await.  A transaction    *)
(* runs at PostgreSQL's default level, READ COMMITTED: the finds go        *)
(* through the repositories, hence through another connection of the pool, *)
(* and see committed rows only; a save selects the rows, updates those     *)
(* that differ from what it wants and keeps their row locks until the      *)
(* transaction ends; the writes become visible at commit.  A find whose    *)
(* result is overwritten whatever it says is one step with its save.       *)
(***************************************************************************)
EXTENDS Naturals, FiniteSets

CONSTANTS
    Requests,     \* identities of client and service requests, each used once
    Worker,       \* the process of HoldExpiryWorker
    Users,
    Seats,        \* seat ids a request may name
    Inventory,    \* the seat ids that have an inventory row
    Calls,        \* the calls the environment may make
    None,         \* no lock / no user
    PoolSize,     \* connections of the PostgreSQL pool (pg default: 10)
    FaultKinds,   \* which of "connect", "tx", "redis", "cache", "crash" may happen
    MaxFaults     \* bound on failed calls to PostgreSQL and Redis and on restarts

Statuses == {"available", "held", "sold"}
Reasons == {"user_cancel", "timeout", "payment_success", "payment_failed"}
Ops == {"holdSeats", "releaseSeats", "markAsSold", "relaseSoldSeats",
        "getEventSeatsWithStatus"}
Jobs == [op : Ops, user : Users, seats : SUBSET Seats,
         reason : Reasons \cup {"none"}]
NoJob == [op |-> "none", user |-> None, seats |-> {}, reason |-> "none"]

Procs == Requests \cup {Worker}
Rows == Requests \X Seats   \* a hold row: the request that made it, its seat

ASSUME CallsAssumption ==
    \A c \in Calls :
        /\ c \in Jobs
        /\ c.op = "releaseSeats" => c.reason \in Reasons
        /\ c.op = "markAsSold" => c.reason = "payment_success"
ASSUME WorkerAssumption == Worker \notin Requests
ASSUME NoneAssumption == None \notin Requests /\ None \notin Users
ASSUME SeatsAssumption == Inventory \subseteq Seats
ASSUME BoundsAssumption == PoolSize \in Nat /\ MaxFaults \in Nat

VARIABLES
    \* PostgreSQL, committed
    inv,      \* seat_inventory.status
    hold,     \* seat_holds, by request and seat; a released row is its reason
    late,     \* requests whose rows are past their expiresAt
    lapsed,   \* the locks, as rows, whose TTL is over, deleted by then or not
    \* Redis
    lock,     \* lock:event:E:seat:S, the request whose lock it is
    cache,    \* avail:E, the status hash of the read model
    \* memory of the service, one entry per running handler
    job,      \* the arguments of the handler
    pc,       \* the await it is at
    todo,     \* seats its current loop has still to visit
    got,      \* lockedKeys of lockSeats
    wInv,     \* inventory rows its open transaction has updated (row locks)
    rows,     \* hold rows its transaction has read to release
    kept,     \* the user's other unreleased rows it has read, to save them as read
    snap,     \* inventory rows read by rebuildCache
    batch,    \* expiredHolds of the expiry worker
    \* environment
    faults,
    \* history, read by properties only
    crossed,  \* seats of calls for one buyer that overlapped, or that a lock's
              \* TTL ran out under
    blind     \* seats whose hold markAsSold released without writing the seat

db == <<inv, hold, late, lapsed>>
redis == <<lock, cache>>
env == <<faults, crossed, blind>>
vars == <<inv, hold, late, lapsed, lock, cache, job, pc, todo, got, wInv, rows, kept,
          snap, batch, faults, crossed, blind>>

InTx == {"read", "saveInv", "readHolds", "saveHolds", "commit"}
Running == InTx \cup {"lock", "unlock", "begin", "get", "del", "cache", "put",
                      "hget", "dbread", "hfill"}
Ended == {"done", "failed", "broken", "cut"}  \* broken: committed, then an error;
                                              \* cut: an error no catch undoes

TypeOK ==
    /\ inv \in [Inventory -> Statuses]
    /\ hold \in [Requests -> [Seats -> {"none", "open"} \cup Reasons]]
    /\ late \in SUBSET Requests
    /\ lapsed \in SUBSET Rows
    /\ lock \in [Seats -> Requests \cup {None}]
    /\ cache \in [Seats -> Statuses \cup {"absent"}]
    /\ job \in [Procs -> Jobs \cup {NoJob}]
    /\ pc \in [Procs -> Running \cup Ended \cup {"idle", "next"}]
    /\ todo \in [Procs -> SUBSET Seats]
    /\ got \in [Procs -> SUBSET Seats]
    /\ wInv \in [Procs -> SUBSET Inventory]
    /\ rows \in [Procs -> SUBSET Rows]
    /\ kept \in [Procs -> SUBSET Rows]
    /\ snap \in [Procs -> [Inventory -> Statuses]]
    /\ batch \in SUBSET Rows
    /\ faults \in 0..MaxFaults
    /\ crossed \in SUBSET Seats
    /\ blind \in SUBSET Seats

NoCache == [s \in Seats |-> "absent"]
Rebuilt(status) == [s \in Seats |-> IF s \in Inventory THEN status[s] ELSE "absent"]

\* The event has just been created, after the last start of the service, whose
\* onModuleInit rebuilt the read model of the events there were.
Init ==
    /\ inv = [s \in Inventory |-> "available"]
    /\ hold = [r \in Requests |-> [s \in Seats |-> "none"]]
    /\ late = {} /\ lapsed = {}
    /\ lock = [s \in Seats |-> None]
    /\ cache = NoCache
    /\ job = [p \in Procs |-> NoJob]
    /\ pc = [p \in Procs |-> "idle"]
    /\ todo = [p \in Procs |-> {}]
    /\ got = [p \in Procs |-> {}]
    /\ wInv = [p \in Procs |-> {}]
    /\ rows = [p \in Procs |-> {}]
    /\ kept = [p \in Procs |-> {}]
    /\ snap = [p \in Procs |-> inv]
    /\ batch = {}
    /\ faults = 0 /\ crossed = {} /\ blind = {}

-----------------------------------------------------------------------------
(* What a handler writes, and the order of its transaction. *)

\* Mutant: markAsSold writes the reason into the status.
TargetIsReason(op) == CASE op = "holdSeats"  -> "held"
                        [] op = "markAsSold" -> "payment_success"
                        [] OTHER             -> "available"

Target(op) == CASE op = "holdSeats"  -> "held"
                [] op = "markAsSold" -> "sold"
                [] OTHER             -> "available"

FirstStep(op) == CASE op = "holdSeats"                    -> "lock"
                   [] op \in {"releaseSeats", "markAsSold"} -> "begin"
                   [] op = "relaseSoldSeats"              -> "put"
                   [] OTHER                               -> "hget"

\* Mutant: releaseSeats frees the inventory before it looks for holds.
InventoryFirst(op, step) ==
    CASE step = "begin"     -> IF op = "holdSeats" THEN "read" ELSE "saveInv"
      [] step = "read"      -> "saveInv"
      [] step = "saveInv"   -> IF op = "holdSeats" THEN "commit" ELSE "readHolds"
      [] step = "readHolds" -> "saveHolds"
      [] OTHER              -> "commit"

\* holdSeats checks and writes the inventory; markAsSold writes the inventory
\* and then looks for holds; releaseSeats does it the other way round.
After(op, step) ==
    CASE op = "holdSeats"  -> (CASE step = "begin"     -> "read"
                                 [] step = "read"      -> "saveInv"
                                 [] OTHER              -> "commit")
      [] op = "markAsSold" -> (CASE step = "begin"     -> "saveInv"
                                 [] step = "saveInv"   -> "readHolds"
                                 [] step = "readHolds" -> "saveHolds"
                                 [] OTHER              -> "commit")
      [] OTHER             -> (CASE step = "begin"     -> "readHolds"
                                 [] step = "readHolds" -> "saveHolds"
                                 [] step = "saveHolds" -> "saveInv"
                                 [] OTHER              -> "commit")

\* A transaction keeps its connection until the finally block releases it,
\* which is after the Redis calls that follow the commit.
Connected(p) ==
    \/ pc[p] \in InTx
    \/ pc[p] \in {"get", "del"}
    \/ pc[p] = "cache" /\ job[p].op # "relaseSoldSeats"
ConnectionFree == Cardinality({p \in Procs : Connected(p)}) < PoolSize

LockedRows(p) == IF pc[p] \in {"saveInv", "commit"} THEN rows[p] \cup kept[p] ELSE {}

\* The inventory rows a save changes: TypeORM diffs against the committed row.
Changed(p) == {s \in job[p].seats \cap Inventory : inv[s] # Target(job[p].op)}

WaitsFor(p, q) ==
    /\ p # q
    /\ \/ pc[p] = "saveInv" /\ Changed(p) \cap wInv[q] # {}
       \/ pc[p] = "saveHolds" /\ rows[p] \cap LockedRows(q) # {}

User(r) == job[r].user

\* The handler returns or throws; the worker goes on with its next group.
EndsAs(p, how) == IF p = Worker THEN "next" ELSE how

Goto(p, step) == pc' = [pc EXCEPT ![p] = step]

\* Rollback in the catch blocks; only holdSeats then releases its locks.
AfterRollback(p) == IF job[p].op = "holdSeats" THEN "get" ELSE EndsAs(p, "failed")
\* Mutant: the transaction is never rolled back and keeps its row locks.
NoRollback(p) ==
    /\ Goto(p, AfterRollback(p))
    /\ todo' = [todo EXCEPT ![p] =
                  IF job[p].op = "holdSeats" THEN job[p].seats ELSE {}]
    /\ UNCHANGED <<db, redis, job, got, wInv, rows, kept, snap, batch>>

Rollback(p) ==
    /\ Goto(p, AfterRollback(p))
    /\ todo' = [todo EXCEPT ![p] =
                  IF job[p].op = "holdSeats" THEN job[p].seats ELSE {}]
    /\ wInv' = [wInv EXCEPT ![p] = {}]
    /\ rows' = [rows EXCEPT ![p] = {}]
    /\ kept' = [kept EXCEPT ![p] = {}]
    /\ UNCHANGED <<db, redis, job, got, snap, batch>>

-----------------------------------------------------------------------------
(* Requests *)

\* What booking-service may ask for: seats of bookings, hence seats somebody
\* once held (the buyer, where the call names one).
ServiceCall(c) ==
    /\ c.reason \in {"payment_success", "payment_failed"} =>
         \A s \in c.seats : \E r \in Requests : hold[r][s] # "none" /\ User(r) = c.user
    /\ c.op = "relaseSoldSeats" =>
         \A s \in c.seats : \E r \in Requests : hold[r][s] # "none"

\* p is running a call that a buyer makes, or that is made on his behalf.
ForBuyer == {"holdSeats", "releaseSeats", "markAsSold"}
CallFor(p, u) ==
    pc[p] \notin Ended \cup {"idle", "next"} /\ job[p].op \in ForBuyer /\ User(p) = u

\* The seats of the calls for u that are running when one for ss begins, and ss.
Meeting(u, ss) == UNION {ss \cup job[p].seats : p \in {q \in Procs : CallFor(q, u)}}

Begin(r) ==
    /\ pc[r] = "idle"
    /\ \E c \in Calls :
         /\ ServiceCall(c)
         /\ job' = [job EXCEPT ![r] = c]
         /\ Goto(r, FirstStep(c.op))
         /\ todo' = [todo EXCEPT ![r] = IF c.op = "holdSeats" THEN c.seats ELSE {}]
         /\ crossed' = IF c.op \in ForBuyer THEN crossed \cup Meeting(c.user, c.seats)
                       ELSE crossed
    /\ UNCHANGED <<db, redis, got, wInv, rows, kept, snap, batch, faults, blind>>

-----------------------------------------------------------------------------
(* SeatLockService *)

\* SET key NX EX for one seat.
LockSeat(p) ==
    /\ pc[p] = "lock"
    /\ \E s \in todo[p] :
         /\ todo' = [todo EXCEPT ![p] = @ \ {s}]
         /\ IF lock[s] = None
              THEN /\ lock' = [lock EXCEPT ![s] = p]
                   /\ got' = [got EXCEPT ![p] = @ \cup {s}]
              ELSE UNCHANGED <<lock, got>>
    /\ UNCHANGED <<db, cache, job, pc, wInv, rows, kept, snap, batch, env>>

\* Mutant: the acquired keys of a failed batch are left to their TTL.
LeaveAcquired(p) ==
    /\ pc[p] = "lock" /\ todo[p] = {}
    /\ Goto(p, IF got[p] = job[p].seats THEN "begin" ELSE "failed")
    /\ got' = [got EXCEPT ![p] = {}]
    /\ UNCHANGED <<db, redis, job, todo, wInv, rows, kept, snap, batch, env>>

\* All seats tried: go on when none failed, else delete the acquired keys.
LockSeatsEnd(p) ==
    /\ pc[p] = "lock" /\ todo[p] = {}
    /\ IF got[p] = job[p].seats
         THEN Goto(p, "begin") /\ todo' = todo
         ELSE Goto(p, "unlock") /\ todo' = [todo EXCEPT ![p] = got[p]]
    /\ got' = [got EXCEPT ![p] = {}]
    /\ UNCHANGED <<db, redis, job, wInv, rows, kept, snap, batch, env>>

UnlockSeat(p) ==
    /\ pc[p] = "unlock"
    /\ \/ \E s \in todo[p] :
            /\ todo' = [todo EXCEPT ![p] = @ \ {s}]
            /\ lock' = [lock EXCEPT ![s] = None]
            /\ pc' = pc
       \/ /\ todo[p] = {}
          /\ Goto(p, "failed")
          /\ UNCHANGED <<todo, lock>>
    /\ UNCHANGED <<db, cache, job, got, wInv, rows, kept, snap, batch, env>>

\* Mutant: the lock is deleted whoever owns it.
GetAnyLock(p) ==
    /\ pc[p] = "get"
    /\ \/ \E s \in todo[p] :
            IF lock[s] # None
              THEN /\ got' = [got EXCEPT ![p] = {s}]
                   /\ Goto(p, "del")
                   /\ todo' = todo
              ELSE /\ todo' = [todo EXCEPT ![p] = @ \ {s}]
                   /\ UNCHANGED <<pc, got>>
       \/ /\ todo[p] = {}
          /\ Goto(p, IF job[p].op = "holdSeats" THEN "failed" ELSE "cache")
          /\ UNCHANGED <<todo, got>>
    /\ UNCHANGED <<db, redis, job, wInv, rows, kept, snap, batch, env>>

\* releaseSeats: GET, the ownership test on the user id, and then the DEL,
\* which deletes whatever the key holds by then.
GetLock(p) ==
    /\ pc[p] = "get"
    /\ \/ \E s \in todo[p] :
            IF lock[s] # None /\ User(lock[s]) = job[p].user
              THEN /\ got' = [got EXCEPT ![p] = {s}]
                   /\ Goto(p, "del")
                   /\ todo' = todo
              ELSE /\ todo' = [todo EXCEPT ![p] = @ \ {s}]
                   /\ UNCHANGED <<pc, got>>
       \/ /\ todo[p] = {}
          /\ Goto(p, IF job[p].op = "holdSeats" THEN "failed" ELSE "cache")
          /\ UNCHANGED <<todo, got>>
    /\ UNCHANGED <<db, redis, job, wInv, rows, kept, snap, batch, env>>

DelLock(p) ==
    /\ pc[p] = "del"
    /\ lock' = [s \in Seats |-> IF s \in got[p] THEN None ELSE lock[s]]
    /\ todo' = [todo EXCEPT ![p] = @ \ got[p]]
    /\ got' = [got EXCEPT ![p] = {}]
    /\ Goto(p, "get")
    /\ UNCHANGED <<db, cache, job, wInv, rows, kept, snap, batch, env>>

-----------------------------------------------------------------------------
(* HoldService and InventoryService *)

BeginTx(p) ==
    /\ pc[p] = "begin"
    /\ ConnectionFree
    /\ Goto(p, After(job[p].op, "begin"))
    /\ UNCHANGED <<db, redis, job, todo, got, wInv, rows, kept, snap, batch, env>>

\* holdSeats reads the inventory and gives up unless all of it is available.
ReadInventory(p) ==
    /\ pc[p] = "read"
    /\ ConnectionFree
    /\ IF \A s \in job[p].seats \cap Inventory : inv[s] = "available"
         THEN /\ Goto(p, After(job[p].op, "read"))
              /\ UNCHANGED <<db, redis, job, todo, got, wInv, rows, kept, snap, batch>>
         ELSE Rollback(p)
    /\ UNCHANGED env

\* save(inventories); a seat without a row makes holdSeats throw afterwards.
SaveInventory(p) ==
    /\ pc[p] = "saveInv"
    /\ job[p].op = "holdSeats" \/ ConnectionFree
    /\ \A q \in Procs : ~ WaitsFor(p, q)
    /\ IF job[p].op = "holdSeats" /\ ~ (job[p].seats \subseteq Inventory)
         THEN Rollback(p)
         ELSE /\ wInv' = [wInv EXCEPT ![p] = Changed(p)]
              /\ Goto(p, After(job[p].op, "saveInv"))
              /\ UNCHANGED <<db, redis, job, todo, got, rows, kept, snap, batch>>
    /\ UNCHANGED env

\* The user's unreleased holds, of which those among the seats get released.
OpenRows(u) == {h \in Rows : hold[h[1]][h[2]] = "open" /\ User(h[1]) = u}

ReadHolds(p) ==
    /\ pc[p] = "readHolds"
    /\ ConnectionFree
    /\ rows' = [rows EXCEPT ![p] = {h \in OpenRows(job[p].user) : h[2] \in job[p].seats}]
    /\ kept' = [kept EXCEPT ![p] = {h \in OpenRows(job[p].user) : h[2] \notin job[p].seats}]
    /\ blind' = IF job[p].op = "markAsSold"
                THEN blind \cup {h[2] : h \in {g \in rows'[p] : g[2] \notin wInv[p]}}
                ELSE blind
    /\ Goto(p, After(job[p].op, "readHolds"))
    /\ UNCHANGED <<db, redis, job, todo, got, wInv, snap, batch, faults, crossed>>

\* save(holds) writes back all the rows it has read: of the ones it does not
\* release, those that differ by then because somebody has released them
\* between the find and the select of the save.
Revived(p) == {h \in kept[p] : /\ hold[h[1]][h[2]] \in Reasons
                               /\ \A q \in Procs \ {p} : h \notin LockedRows(q)}

SaveHolds(p) ==
    /\ pc[p] = "saveHolds"
    /\ \A q \in Procs : ~ WaitsFor(p, q)
    /\ \E back \in SUBSET Revived(p) : kept' = [kept EXCEPT ![p] = back]
    /\ Goto(p, After(job[p].op, "saveHolds"))
    /\ UNCHANGED <<db, redis, job, todo, got, wInv, rows, snap, batch, env>>

\* The hold rows after the commit: holdSeats has inserted its own, the other
\* two have stamped the rows they read with their reason, or opened them again.
HoldsAfter(p) ==
    [r \in Requests |-> [s \in Seats |->
        IF job[p].op = "holdSeats"
          THEN IF r = p /\ s \in job[p].seats THEN "open" ELSE hold[r][s]
          ELSE IF <<r, s>> \in rows[p] THEN job[p].reason
          ELSE IF <<r, s>> \in kept[p] THEN "open" ELSE hold[r][s]]]

Commit(p) ==
    /\ pc[p] = "commit"
    /\ inv' = [s \in Inventory |->
                 IF s \in wInv[p] THEN Target(job[p].op) ELSE inv[s]]
    /\ hold' = HoldsAfter(p)
    /\ UNCHANGED <<late, lapsed>>
    /\ wInv' = [wInv EXCEPT ![p] = {}]
    /\ rows' = [rows EXCEPT ![p] = {}]
    /\ kept' = [kept EXCEPT ![p] = {}]
    /\ IF job[p].op = "holdSeats"
         THEN Goto(p, "cache") /\ todo' = todo
         ELSE Goto(p, "get") /\ todo' = [todo EXCEPT ![p] = job[p].seats]
    /\ UNCHANGED <<redis, job, got, snap, batch, env>>

\* relaseSoldSeats: find and save outside any transaction of its own.
PutSoldSeats(p) ==
    /\ pc[p] = "put"
    /\ ConnectionFree
    /\ \A q \in Procs \ {p} : Changed(p) \cap wInv[q] = {}
    /\ inv' = [s \in Inventory |-> IF s \in job[p].seats THEN "available" ELSE inv[s]]
    /\ Goto(p, "cache")
    /\ UNCHANGED <<hold, late, lapsed, redis, job, todo, got, wInv, rows, kept, snap, batch, env>>

-----------------------------------------------------------------------------
(* AvailabilityReadService *)

\* updateMultipleSeatsStatus: the last thing every writing handler does.
UpdateMultipleSeatsStatus(p) ==
    /\ pc[p] = "cache"
    /\ cache' = [s \in Seats |->
                   IF s \in job[p].seats THEN Target(job[p].op) ELSE cache[s]]
    /\ Goto(p, EndsAs(p, "done"))
    /\ UNCHANGED <<db, lock, job, todo, got, wInv, rows, kept, snap, batch, env>>

\* getEventSeatsWithStatus rebuilds only when the status hash is empty.
ReadCache(p) ==
    /\ pc[p] = "hget"
    /\ Goto(p, IF cache = NoCache THEN "dbread" ELSE "done")
    /\ UNCHANGED <<db, redis, job, todo, got, wInv, rows, kept, snap, batch, env>>

RebuildRead(p) ==
    /\ pc[p] = "dbread"
    /\ ConnectionFree
    /\ snap' = [snap EXCEPT ![p] = inv]
    /\ Goto(p, IF Inventory = {} THEN "done" ELSE "hfill")
    /\ UNCHANGED <<db, redis, job, todo, got, wInv, rows, kept, batch, env>>

RebuildWrite(p) ==
    /\ pc[p] = "hfill"
    /\ cache' = Rebuilt(snap[p])
    /\ Goto(p, "done")
    /\ UNCHANGED <<db, lock, job, todo, got, wInv, rows, kept, snap, batch, env>>

-----------------------------------------------------------------------------
(* HoldExpiryWorker: a tick that finds isProcessing set returns at once, so *)
(* one process, whose "idle" is isProcessing = false.                       *)

ExpiredRows == {h \in Rows : hold[h[1]][h[2]] = "open" /\ h[1] \in late}

Scan ==
    /\ pc[Worker] = "idle"
    /\ ConnectionFree
    /\ ExpiredRows # {}
    /\ batch' = ExpiredRows
    /\ Goto(Worker, "next")
    /\ UNCHANGED <<db, redis, job, todo, got, wInv, rows, kept, snap, env>>

\* Mutant: isProcessing is not reset when the loop is over.
NextGroupNoReset ==
    /\ pc[Worker] = "next"
    /\ \/ \E h \in batch :
            LET group == {g \in batch : User(g[1]) = User(h[1])}
                seats == {g[2] : g \in group} IN
            /\ job' = [job EXCEPT ![Worker] =
                         [op |-> "releaseSeats", user |-> User(h[1]), seats |-> seats,
                          reason |-> "timeout"]]
            /\ batch' = batch \ group
            /\ Goto(Worker, "begin")
            /\ crossed' = crossed \cup Meeting(User(h[1]), seats)
       \/ /\ batch = {}
          /\ Goto(Worker, "done")
          /\ UNCHANGED <<job, batch, crossed>>
    /\ UNCHANGED <<db, redis, todo, got, wInv, rows, kept, snap, faults, blind>>

\* One releaseSeats call per user among the expired holds.
NextGroup ==
    /\ pc[Worker] = "next"
    /\ \/ \E h \in batch :
            LET group == {g \in batch : User(g[1]) = User(h[1])}
                seats == {g[2] : g \in group} IN
            /\ job' = [job EXCEPT ![Worker] =
                         [op |-> "releaseSeats", user |-> User(h[1]), seats |-> seats,
                          reason |-> "timeout"]]
            /\ batch' = batch \ group
            /\ Goto(Worker, "begin")
            /\ crossed' = crossed \cup Meeting(User(h[1]), seats)
       \/ /\ batch = {}
          /\ Goto(Worker, "idle")
          /\ job' = [job EXCEPT ![Worker] = NoJob]
          /\ UNCHANGED <<batch, crossed>>
    /\ UNCHANGED <<db, redis, todo, got, wInv, rows, kept, snap, faults, blind>>

-----------------------------------------------------------------------------
(* Time, failures and restarts *)

\* The TTL of the lock r has taken of s is over: it starts with the SET, before
\* the expiresAt of the hold rows is computed, so the lock always goes first.
\* The handlers that used the lock, or have just read it, may still be running.
LockLapses(r, s) ==
    /\ <<r, s>> \notin lapsed
    /\ lock[s] = r \/ hold[r][s] = "open"
    /\ lapsed' = lapsed \cup {<<r, s>>}
    /\ lock' = IF lock[s] = r THEN [lock EXCEPT ![s] = None] ELSE lock
    /\ crossed' = IF \E p \in Procs : CallFor(p, User(r)) /\ s \in job[p].seats
                  THEN crossed \cup {s} ELSE crossed
    /\ UNCHANGED <<inv, hold, late, cache, job, pc, todo, got, wInv, rows, kept, snap,
                   batch, faults, blind>>

\* The rows of r that are still open are past their expiresAt.
HoldLapses(r) ==
    /\ r \notin late
    /\ \E s \in Seats : hold[r][s] = "open"
    /\ \A s \in Seats : hold[r][s] = "open" => <<r, s>> \in lapsed
    /\ late' = late \cup {r}
    /\ UNCHANGED <<inv, hold, lapsed, redis, job, pc, todo, got, wInv, rows, kept, snap,
                   batch, env>>

Fault(kind) ==
    /\ kind \in FaultKinds
    /\ faults < MaxFaults
    /\ faults' = faults + 1
    /\ UNCHANGED <<crossed, blind>>

\* connect and startTransaction stand before the try block: nothing is undone.
ConnectError(p) ==
    /\ Fault("connect")
    /\ pc[p] \in {"begin", "put", "dbread"}
    /\ Goto(p, EndsAs(p, "cut"))
    /\ UNCHANGED <<db, redis, job, todo, got, wInv, rows, kept, snap, batch>>

TxError(p) ==
    /\ Fault("tx")
    /\ pc[p] \in InTx
    /\ Rollback(p)

\* PostgreSQL ends a cycle of row-lock waits by aborting one transaction.
DeadlockAbort(p) ==
    /\ \E C \in SUBSET Procs : p \in C /\ \A q \in C : \E w \in C : WaitsFor(q, w)
    /\ Rollback(p)
    /\ UNCHANGED env

\* A Redis command of SeatLockService throws.  After a commit the catch block
\* rolls back a transaction that is over, and the caller sees an error.
RedisError(p) ==
    /\ Fault("redis")
    /\ pc[p] \in {"lock", "unlock", "get", "del", "hget"}
    /\ Goto(p, EndsAs(p, IF pc[p] \in {"get", "del"} /\ job[p].op # "holdSeats"
                           THEN "broken" ELSE "cut"))
    /\ todo' = [todo EXCEPT ![p] = {}]
    /\ got' = [got EXCEPT ![p] = {}]
    /\ UNCHANGED <<db, redis, job, wInv, rows, kept, snap, batch>>

\* pipeline.exec resolves although its commands failed: the write is lost.
CacheWriteLost(p) ==
    /\ Fault("cache")
    /\ pc[p] \in {"cache", "hfill"}
    /\ Goto(p, EndsAs(p, "done"))
    /\ UNCHANGED <<db, redis, job, todo, got, wInv, rows, kept, snap, batch>>

\* The process dies and comes back: open transactions are rolled back, Redis
\* and the committed rows stay, onModuleInit rebuilds the read model.
Committed(p) == /\ pc[p] \in {"get", "del", "cache"}
                /\ pc[p] # "cache" => job[p].op # "holdSeats"
Crash ==
    /\ Fault("crash")
    /\ pc' = [p \in Procs |->
                CASE p = Worker          -> "idle"
                  [] p # Worker /\ Committed(p) -> "broken"
                  [] p # Worker /\ pc[p] \in Running /\ ~ Committed(p) -> "cut"
                  [] OTHER               -> pc[p]]
    /\ job' = [job EXCEPT ![Worker] = NoJob]
    /\ cache' = IF Inventory = {} THEN cache ELSE Rebuilt(inv)
    /\ todo' = [p \in Procs |-> {}]
    /\ got' = [p \in Procs |-> {}]
    /\ wInv' = [p \in Procs |-> {}]
    /\ rows' = [p \in Procs |-> {}]
    /\ kept' = [p \in Procs |-> {}]
    /\ batch' = {}
    /\ UNCHANGED <<db, lock, snap>>

-----------------------------------------------------------------------------

HandlerStep(p) ==
    \/ LockSeat(p) \/ LockSeatsEnd(p) \/ UnlockSeat(p)
    \/ GetLock(p) \/ DelLock(p)
    \/ BeginTx(p) \/ ReadInventory(p) \/ SaveInventory(p)
    \/ ReadHolds(p) \/ SaveHolds(p) \/ Commit(p) \/ PutSoldSeats(p)
    \/ UpdateMultipleSeatsStatus(p) \/ ReadCache(p)
    \/ RebuildRead(p) \/ RebuildWrite(p)
    \/ DeadlockAbort(p)

TimePasses ==
    \/ \E r \in Requests, s \in Seats : LockLapses(r, s)
    \/ \E r \in Requests : HoldLapses(r)

HandlerError(p) ==
    ConnectError(p) \/ TxError(p) \/ RedisError(p) \/ CacheWriteLost(p)

Next ==
    \/ \E r \in Requests : Begin(r)
    \/ \E p \in Procs : HandlerStep(p) \/ HandlerError(p)
    \/ Scan
    \/ NextGroup
    \/ TimePasses
    \/ Crash

Spec == Init /\ [][Next]_vars

\* Handlers that have begun run on, the cron fires, time passes.  Requests
\* need not come, and nothing has to fail.
Fairness ==
    /\ \A p \in Procs : WF_vars(HandlerStep(p))
    /\ WF_vars(Scan)
    /\ WF_vars(NextGroup)
    /\ WF_vars(TimePasses)

FairSpec == Spec /\ Fairness

-----------------------------------------------------------------------------
(* Properties *)

Live(r, s) == hold[r][s] = "open" /\ <<r, s>> \notin lapsed

\* Seat status and hold rows agree: a seat the inventory shows as held is
\* held by somebody, so the expiry worker will free it one day.  holdSeats
\* writes both in one transaction (hold.service.ts 64-89), but releaseSeats
\* and markAsSold read the holds and the inventory at different moments.  The
\* one exception: markAsSold for a seat that is sold already (a retry of the
\* outbox) locks no row, so the seat may be freed and held anew by the same buyer
\* before it reads, and releases, his hold.
NoOrphanedHeld ==
    \A s \in Inventory \ blind :
        inv[s] = "held" => \E r \in Requests : hold[r][s] = "open"

\* All or nothing: a hold request that was refused leaves neither a lock nor
\* a hold row behind (seat-lock.service.ts 48-58, hold.service.ts 107-110); only
\* a request cut off by a restart, a Redis error or a refused connection does.
FailedHoldLeavesNoTrace ==
    \A r \in Requests :
        job[r].op = "holdSeats" /\ pc[r] = "failed" =>
            \A s \in Seats : lock[s] # r /\ hold[r][s] = "none"

\* Until the TTL of its lock is over, a hold that has not been released is
\* backed by the Redis lock of the request that made it, which is what
\* verifyHold (inventory.grpc-controller.ts 44-57) relies on: no rival, no
\* failure, no restart and no release of another hold takes the lock away.
\* It is lost only on seats for which two calls for one buyer have overlapped
\* (the DEL that follows a GET, the save of stale rows of hold.service.ts 137),
\* or a lock's TTL has run out under a call of its buyer.
LiveHoldIsLocked ==
    \A r \in Requests, s \in Seats \ crossed : Live(r, s) => lock[s] = r

\* README.md 95: "Atomic lock acquisition prevents double-booking": no seat
\* has two holds whose locks would still be in force.
AtMostOneLiveHold ==
    \A s \in Seats, r1, r2 \in Requests :
        Live(r1, s) /\ Live(r2, s) => r1 = r2

\* README.md 385: availability reads are eventually consistent: once no
\* handler is running, what the read model shows of a seat is its status.
ReadModelSettles ==
    (\A p \in Procs : pc[p] \in Ended \cup {"idle"}) =>
        \A s \in Inventory : cache[s] \in {"absent", inv[s]}

\* Every hold ends: its row is released by the buyer, by a sale or at last
\* by the expiry worker, whatever that races with.
HoldsEnd ==
    \A r \in Requests, s \in Inventory :
        hold[r][s] = "open" ~> hold[r][s] \in Reasons

\* Every call ends, the worker's included: nobody waits for ever for a row
\* lock or for a connection of the pool (hold.service.ts 44-46, 118-120).
RequestsAnswered ==
    \A p \in Procs : pc[p] \in Running ~> pc[p] \notin Running
=============================================================================
