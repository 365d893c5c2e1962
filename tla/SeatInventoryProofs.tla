------------------------ MODULE SeatInventoryProofs ------------------------
(***************************************************************************)
(* Proofs about SeatInventory, for any sets of requests, users and seats   *)
(* and any bounds: the type invariant, and that a seat shown as held has   *)
(* an unreleased hold unless a repeated markAsSold released it unseen.     *)
(***************************************************************************)
EXTENDS SeatInventory, TLAPS

-----------------------------------------------------------------------------
(* The inductive invariant behind the type invariant: which handler can be *)
(* at which await, and what its local variables point to.                  *)

Releases == {"releaseSeats", "markAsSold"}

\* The step a handler is at belongs to its operation.
OpsOf(p) ==
    /\ pc[p] \in {"lock", "unlock", "read"} => job[p].op = "holdSeats"
    /\ pc[p] \in {"readHolds", "saveHolds"} => job[p].op \in Releases
    /\ pc[p] \in {"begin", "saveInv", "commit", "get", "del"} =>
         job[p].op \in Releases \cup {"holdSeats"}
    /\ pc[p] = "put" => job[p].op = "relaseSoldSeats"
    /\ pc[p] = "cache" => job[p].op \in Releases \cup {"holdSeats", "relaseSoldSeats"}
    /\ pc[p] \in {"hget", "dbread", "hfill"} => job[p].op = "getEventSeatsWithStatus"
    /\ job[p].op \in Releases => job[p].reason \in Reasons
    /\ pc[p] \in Running \cup Ended => job[p] \in Jobs
OpsInv == \A p \in Procs : OpsOf(p)

\* The worker only ever releases.
WorkerInv ==
    /\ job[Worker].op \in {"none", "releaseSeats"}
    /\ pc[Worker] \notin Ended

\* A hold row was inserted by the commit of its holdSeats request.
HoldsInv ==
    \A r \in Requests, s \in Seats :
        hold[r][s] # "none" =>
            job[r].op = "holdSeats" /\ pc[r] \in {"cache", "done", "broken"}

\* Rows that were read exist, and those of a transaction lie on its seats.
RowsInv ==
    /\ \A p \in Procs, r \in Requests, s \in Seats :
         <<r, s>> \in rows[p] =>
            /\ hold[r][s] # "none"
            /\ s \in job[p].seats
            /\ job[p].op \in Releases
    /\ \A p \in Procs, r \in Requests, s \in Seats :
         <<r, s>> \in kept[p] => hold[r][s] # "none"
    /\ \A p \in Procs : pc[p] \notin InTx => rows[p] = {}
    /\ \A r \in Requests, s \in Seats : <<r, s>> \in batch => hold[r][s] # "none"

\* The inventory rows a transaction has updated are among its seats.
WritesInv ==
    \A p \in Procs :
        /\ wInv[p] \subseteq job[p].seats
        /\ pc[p] \notin InTx => wInv[p] = {}

IInv == TypeOK /\ OpsInv /\ WorkerInv /\ HoldsInv /\ RowsInv /\ WritesInv

-----------------------------------------------------------------------------
(* What makes NoOrphanedHeld inductive.                                    *)

\* A sale has the row lock of every seat whose hold it is about to release, but
\* for those recorded as blind.
SaleSeesSeat ==
    \A p \in Procs, r \in Requests, s \in Inventory \ blind :
        job[p].op = "markAsSold" /\ pc[p] \in {"saveHolds", "commit"}
            /\ <<r, s>> \in rows[p] => s \in wInv[p]

\* A held seat has an unreleased hold that no transaction about to commit
\* releases without also rewriting the status of the seat.
Witness(r, s) ==
    /\ hold[r][s] = "open"
    /\ \A q \in Procs : pc[q] = "commit" /\ s \notin wInv[q] => <<r, s>> \notin rows[q]
HeldHasWitness ==
    \A s \in Inventory \ blind : inv[s] = "held" => \E r \in Requests : Witness(r, s)

HeldInv == SaleSeesSeat /\ HeldHasWitness

-----------------------------------------------------------------------------
(* The type invariant *)

\* Init establishes the inductive invariant.
LEMMA InitIInv == Init => IInv
<1> SUFFICES ASSUME Init PROVE IInv
  OBVIOUS
<1>1. TypeOK
  BY SeatsAssumption, BoundsAssumption
  DEF Init, TypeOK, NoCache, Rebuilt, Statuses, Rows
<1>2. OpsInv /\ WorkerInv /\ HoldsInv /\ RowsInv /\ WritesInv
  BY DEF Init, OpsInv, OpsOf, WorkerInv, HoldsInv, RowsInv, WritesInv, NoJob, Releases,
     Running, Ended, InTx, Procs
<1> QED BY <1>1, <1>2 DEF IInv

\* LockSeat preserves the inductive invariant.
LEMMA LockSeatIInv ==
    ASSUME NEW p \in Procs, IInv, LockSeat(p) PROVE IInv'
<1> USE DEF IInv, LockSeat, Goto, db, redis, env, Procs, InTx, Running, Ended
<1>1. TypeOK'
  <2>1. lock' \in [Seats -> Requests \cup {None}]
    BY SMTT(30), WorkerAssumption DEF TypeOK, OpsInv, OpsOf, WorkerInv
  <2>2. todo' \in [Procs -> SUBSET Seats]
    BY SMTT(30) DEF TypeOK
  <2>3. got' \in [Procs -> SUBSET Seats]
    BY SMTT(30) DEF TypeOK
  <2>4. /\ inv' \in [Inventory -> Statuses]
       /\ hold' \in [Requests -> [Seats -> {"none", "open"} \cup Reasons]]
       /\ late' \in SUBSET Requests
       /\ cache' \in [Seats -> Statuses \cup {"absent"}]
       /\ job' \in [Procs -> Jobs \cup {NoJob}]
       /\ pc' \in [Procs -> Running \cup Ended \cup {"idle", "next"}]
       /\ wInv' \in [Procs -> SUBSET Inventory]
       /\ rows' \in [Procs -> SUBSET Rows]
       /\ kept' \in [Procs -> SUBSET Rows]
       /\ snap' \in [Procs -> [Inventory -> Statuses]]
       /\ batch' \in SUBSET Rows
       /\ faults' \in 0..MaxFaults
       /\ lapsed' \in SUBSET Rows
       /\ crossed' \in SUBSET Seats
       /\ blind' \in SUBSET Seats
    BY DEF TypeOK
  <2> QED BY <2>1, <2>2, <2>3, <2>4 DEF TypeOK
<1>2. OpsInv'
  BY WorkerAssumption DEF TypeOK, OpsInv, OpsOf, WorkerInv, Releases, Jobs
<1>3. WorkerInv'
  BY WorkerAssumption DEF TypeOK, OpsInv, OpsOf, WorkerInv
<1>4. HoldsInv'
  BY WorkerAssumption DEF TypeOK, HoldsInv, OpsInv, OpsOf
<1>5. RowsInv'
  BY WorkerAssumption DEF TypeOK, RowsInv, OpsInv, OpsOf, Releases, Rows
<1>6. WritesInv'
  BY DEF TypeOK, WritesInv
<1> QED BY <1>1, <1>2, <1>3, <1>4, <1>5, <1>6

\* LockSeatsEnd preserves the inductive invariant.
LEMMA LockSeatsEndIInv ==
    ASSUME NEW p \in Procs, IInv, LockSeatsEnd(p) PROVE IInv'
<1> USE DEF IInv, LockSeatsEnd, Goto, db, redis, env, Procs, InTx, Running, Ended
<1>1. TypeOK'
  <2>1. pc' \in [Procs -> Running \cup Ended \cup {"idle", "next"}]
    <3>1. pc' = [pc EXCEPT ![p] = "begin"] \/ pc' = [pc EXCEPT ![p] = "unlock"]
      OBVIOUS
    <3> QED BY <3>1 DEF TypeOK
  <2>2. todo' \in [Procs -> SUBSET Seats]
    BY DEF TypeOK
  <2>3. got' \in [Procs -> SUBSET Seats]
    BY DEF TypeOK
  <2>4. /\ inv' \in [Inventory -> Statuses]
       /\ hold' \in [Requests -> [Seats -> {"none", "open"} \cup Reasons]]
       /\ late' \in SUBSET Requests
       /\ lock' \in [Seats -> Requests \cup {None}]
       /\ cache' \in [Seats -> Statuses \cup {"absent"}]
       /\ job' \in [Procs -> Jobs \cup {NoJob}]
       /\ wInv' \in [Procs -> SUBSET Inventory]
       /\ rows' \in [Procs -> SUBSET Rows]
       /\ kept' \in [Procs -> SUBSET Rows]
       /\ snap' \in [Procs -> [Inventory -> Statuses]]
       /\ batch' \in SUBSET Rows
       /\ faults' \in 0..MaxFaults
       /\ lapsed' \in SUBSET Rows
       /\ crossed' \in SUBSET Seats
       /\ blind' \in SUBSET Seats
    BY DEF TypeOK
  <2> QED BY <2>1, <2>2, <2>3, <2>4 DEF TypeOK
<1>2. OpsInv'
  BY WorkerAssumption DEF TypeOK, OpsInv, OpsOf, WorkerInv, Releases, Jobs
<1>3. WorkerInv'
  BY WorkerAssumption DEF TypeOK, OpsInv, OpsOf, WorkerInv
<1>4. HoldsInv'
  BY WorkerAssumption DEF TypeOK, HoldsInv, OpsInv, OpsOf
<1>5. RowsInv'
  <2>1. pc[p] \notin InTx /\ \A q \in Procs : q # p => pc'[q] = pc[q]
    BY DEF TypeOK
  <2>2. UNCHANGED <<hold, job, rows, kept, batch>>
    OBVIOUS
  <2> QED BY <2>1, <2>2 DEF RowsInv
<1>6. WritesInv'
  BY DEF TypeOK, WritesInv
<1> QED BY <1>1, <1>2, <1>3, <1>4, <1>5, <1>6

\* UnlockSeat preserves the inductive invariant.
LEMMA UnlockSeatIInv ==
    ASSUME NEW p \in Procs, IInv, UnlockSeat(p) PROVE IInv'
<1> USE DEF IInv, UnlockSeat, Goto, db, redis, env, Procs, InTx, Running, Ended
<1>1. TypeOK'
  <2>1. lock' \in [Seats -> Requests \cup {None}]
    BY DEF TypeOK
  <2>2. pc' \in [Procs -> Running \cup Ended \cup {"idle", "next"}]
    BY DEF TypeOK
  <2>3. todo' \in [Procs -> SUBSET Seats]
    BY SMTT(30) DEF TypeOK
  <2>4. /\ inv' \in [Inventory -> Statuses]
       /\ hold' \in [Requests -> [Seats -> {"none", "open"} \cup Reasons]]
       /\ late' \in SUBSET Requests
       /\ cache' \in [Seats -> Statuses \cup {"absent"}]
       /\ job' \in [Procs -> Jobs \cup {NoJob}]
       /\ got' \in [Procs -> SUBSET Seats]
       /\ wInv' \in [Procs -> SUBSET Inventory]
       /\ rows' \in [Procs -> SUBSET Rows]
       /\ kept' \in [Procs -> SUBSET Rows]
       /\ snap' \in [Procs -> [Inventory -> Statuses]]
       /\ batch' \in SUBSET Rows
       /\ faults' \in 0..MaxFaults
       /\ lapsed' \in SUBSET Rows
       /\ crossed' \in SUBSET Seats
       /\ blind' \in SUBSET Seats
    BY DEF TypeOK
  <2> QED BY <2>1, <2>2, <2>3, <2>4 DEF TypeOK
<1>2. OpsInv'
  BY WorkerAssumption DEF TypeOK, OpsInv, OpsOf, WorkerInv, Releases, Jobs
<1>3. WorkerInv'
  BY WorkerAssumption DEF TypeOK, OpsInv, OpsOf, WorkerInv
<1>4. HoldsInv'
  BY WorkerAssumption DEF TypeOK, HoldsInv, OpsInv, OpsOf
<1>5. RowsInv'
  <2>1. pc[p] \notin InTx /\ \A q \in Procs : q # p => pc'[q] = pc[q]
    BY DEF TypeOK
  <2>2. UNCHANGED <<hold, job, rows, kept, batch>>
    OBVIOUS
  <2> QED BY <2>1, <2>2 DEF RowsInv
<1>6. WritesInv'
  BY DEF TypeOK, WritesInv
<1> QED BY <1>1, <1>2, <1>3, <1>4, <1>5, <1>6

\* GetLock preserves the inductive invariant.
LEMMA GetLockIInv ==
    ASSUME NEW p \in Procs, IInv, GetLock(p) PROVE IInv'
<1> USE DEF IInv, GetLock, Goto, db, redis, env, Procs, InTx, Running, Ended,
    User
<1>1. TypeOK'
  <2>1. pc' \in [Procs -> Running \cup Ended \cup {"idle", "next"}]
    BY DEF TypeOK
  <2>2. todo' \in [Procs -> SUBSET Seats]
    <3>1. todo' = todo \/ \E s \in todo[p] : todo' = [todo EXCEPT ![p] = todo[p] \ {s}]
      OBVIOUS
    <3> QED BY <3>1 DEF TypeOK
  <2>3. got' \in [Procs -> SUBSET Seats]
    <3>1. got' = got \/ \E s \in todo[p] : got' = [got EXCEPT ![p] = {s}]
      OBVIOUS
    <3>2. todo[p] \subseteq Seats
      BY DEF TypeOK
    <3>3. got \in [Procs -> SUBSET Seats]
      BY DEF TypeOK
    <3> QED BY <3>1, <3>2, <3>3
  <2>4. /\ inv' \in [Inventory -> Statuses]
       /\ hold' \in [Requests -> [Seats -> {"none", "open"} \cup Reasons]]
       /\ late' \in SUBSET Requests
       /\ lock' \in [Seats -> Requests \cup {None}]
       /\ cache' \in [Seats -> Statuses \cup {"absent"}]
       /\ job' \in [Procs -> Jobs \cup {NoJob}]
       /\ wInv' \in [Procs -> SUBSET Inventory]
       /\ rows' \in [Procs -> SUBSET Rows]
       /\ kept' \in [Procs -> SUBSET Rows]
       /\ snap' \in [Procs -> [Inventory -> Statuses]]
       /\ batch' \in SUBSET Rows
       /\ faults' \in 0..MaxFaults
       /\ lapsed' \in SUBSET Rows
       /\ crossed' \in SUBSET Seats
       /\ blind' \in SUBSET Seats
    BY DEF TypeOK
  <2> QED BY <2>1, <2>2, <2>3, <2>4 DEF TypeOK
<1>2. OpsInv'
  BY WorkerAssumption DEF TypeOK, OpsInv, OpsOf, WorkerInv, Releases, Jobs
<1>3. WorkerInv'
  BY WorkerAssumption DEF TypeOK, OpsInv, OpsOf, WorkerInv
<1>4. HoldsInv'
  BY WorkerAssumption DEF TypeOK, HoldsInv, OpsInv, OpsOf
<1>5. RowsInv'
  <2>1. pc[p] \notin InTx /\ \A q \in Procs : q # p => pc'[q] = pc[q]
    BY DEF TypeOK
  <2>2. UNCHANGED <<hold, job, rows, kept, batch>>
    OBVIOUS
  <2> QED BY <2>1, <2>2 DEF RowsInv
<1>6. WritesInv'
  BY DEF TypeOK, WritesInv
<1> QED BY <1>1, <1>2, <1>3, <1>4, <1>5, <1>6

\* DelLock preserves the inductive invariant.
LEMMA DelLockIInv ==
    ASSUME NEW p \in Procs, IInv, DelLock(p) PROVE IInv'
<1> USE DEF IInv, DelLock, Goto, db, redis, env, Procs, InTx, Running, Ended
<1>1. TypeOK'
  BY SeatsAssumption, NoneAssumption, WorkerAssumption
  DEF TypeOK, OpsInv, OpsOf, WorkerInv, Statuses, Rows, Reasons, Jobs, Releases
<1>2. OpsInv'
  BY WorkerAssumption DEF TypeOK, OpsInv, OpsOf, WorkerInv, Releases, Jobs
<1>3. WorkerInv'
  BY WorkerAssumption DEF TypeOK, OpsInv, OpsOf, WorkerInv
<1>4. HoldsInv'
  BY WorkerAssumption DEF TypeOK, HoldsInv, OpsInv, OpsOf
<1>5. RowsInv'
  BY WorkerAssumption DEF TypeOK, RowsInv, OpsInv, OpsOf, Releases, Rows
<1>6. WritesInv'
  BY DEF TypeOK, WritesInv
<1> QED BY <1>1, <1>2, <1>3, <1>4, <1>5, <1>6

\* BeginTx preserves the inductive invariant.
LEMMA BeginTxIInv ==
    ASSUME NEW p \in Procs, IInv, BeginTx(p) PROVE IInv'
<1> USE DEF IInv, BeginTx, Goto, db, redis, env, Procs, InTx, Running, Ended,
    After
<1>1. TypeOK'
  BY SeatsAssumption, NoneAssumption, WorkerAssumption
  DEF TypeOK, OpsInv, OpsOf, WorkerInv, Statuses, Rows, Reasons, Jobs, Releases
<1>2. OpsInv'
  BY WorkerAssumption DEF TypeOK, OpsInv, OpsOf, WorkerInv, Releases, Jobs
<1>3. WorkerInv'
  BY WorkerAssumption DEF TypeOK, OpsInv, OpsOf, WorkerInv
<1>4. HoldsInv'
  BY WorkerAssumption DEF TypeOK, HoldsInv, OpsInv, OpsOf
<1>5. RowsInv'
  BY WorkerAssumption DEF TypeOK, RowsInv, OpsInv, OpsOf, Releases, Rows
<1>6. WritesInv'
  BY DEF TypeOK, WritesInv
<1> QED BY <1>1, <1>2, <1>3, <1>4, <1>5, <1>6

\* Rolling a transaction back preserves the inductive invariant.
LEMMA RollbackIInv ==
    ASSUME NEW p \in Procs, IInv, pc[p] \in InTx, Rollback(p),
           faults' \in 0..MaxFaults, UNCHANGED <<crossed, blind>> PROVE IInv'
<1> USE DEF IInv, Rollback, Goto, db, redis, env, Procs, InTx, Running, Ended,
    AfterRollback, EndsAs
<1>1. TypeOK'
  <2>1. pc' \in [Procs -> Running \cup Ended \cup {"idle", "next"}]
    BY DEF TypeOK
  <2>2. todo' \in [Procs -> SUBSET Seats]
    BY DEF TypeOK, OpsInv, OpsOf, Jobs
  <2>3. wInv' \in [Procs -> SUBSET Inventory]
    BY DEF TypeOK
  <2>4. /\ rows' \in [Procs -> SUBSET Rows]
       /\ kept' \in [Procs -> SUBSET Rows]
    BY DEF TypeOK
  <2>5. faults' \in 0..MaxFaults
    OBVIOUS
  <2>6. lapsed' \in SUBSET Rows /\ crossed' \in SUBSET Seats /\ blind' \in SUBSET Seats
    BY DEF TypeOK
  <2>7. /\ inv' \in [Inventory -> Statuses]
       /\ hold' \in [Requests -> [Seats -> {"none", "open"} \cup Reasons]]
       /\ late' \in SUBSET Requests
       /\ lock' \in [Seats -> Requests \cup {None}]
       /\ cache' \in [Seats -> Statuses \cup {"absent"}]
       /\ job' \in [Procs -> Jobs \cup {NoJob}]
       /\ got' \in [Procs -> SUBSET Seats]
       /\ snap' \in [Procs -> [Inventory -> Statuses]]
       /\ batch' \in SUBSET Rows
    BY DEF TypeOK
  <2> QED BY <2>1, <2>2, <2>3, <2>4, <2>5, <2>6, <2>7 DEF TypeOK
<1>2. OpsInv'
  BY WorkerAssumption DEF TypeOK, OpsInv, OpsOf, WorkerInv, Releases, Jobs
<1>3. WorkerInv'
  BY WorkerAssumption DEF TypeOK, OpsInv, OpsOf, WorkerInv
<1>4. HoldsInv'
  BY WorkerAssumption DEF TypeOK, HoldsInv, OpsInv, OpsOf
<1>5. RowsInv'
  BY WorkerAssumption DEF TypeOK, RowsInv, OpsInv, OpsOf, Releases, Rows
<1>6. WritesInv'
  BY DEF TypeOK, WritesInv
<1> QED BY <1>1, <1>2, <1>3, <1>4, <1>5, <1>6

\* ReadInventory preserves the inductive invariant.
LEMMA ReadInventoryIInv ==
    ASSUME NEW p \in Procs, IInv, ReadInventory(p) PROVE IInv'
<1>1. pc[p] \in InTx /\ faults' \in 0..MaxFaults /\ UNCHANGED <<crossed, blind>>
  BY DEF ReadInventory, IInv, TypeOK, env, InTx
<1>2. CASE Rollback(p)
  BY <1>1, <1>2, RollbackIInv
<1>3. CASE ~ Rollback(p)
  <2> USE DEF IInv, ReadInventory, Goto, db, redis, env, Procs, InTx, Running, Ended,
      After
  <2>1. TypeOK'
    <3>1. pc' \in [Procs -> Running \cup Ended \cup {"idle", "next"}]
      BY <1>3 DEF TypeOK, OpsInv, OpsOf
    <3>2. /\ inv' \in [Inventory -> Statuses]
         /\ hold' \in [Requests -> [Seats -> {"none", "open"} \cup Reasons]]
         /\ late' \in SUBSET Requests
         /\ lock' \in [Seats -> Requests \cup {None}]
         /\ cache' \in [Seats -> Statuses \cup {"absent"}]
         /\ job' \in [Procs -> Jobs \cup {NoJob}]
         /\ todo' \in [Procs -> SUBSET Seats]
         /\ got' \in [Procs -> SUBSET Seats]
         /\ wInv' \in [Procs -> SUBSET Inventory]
         /\ rows' \in [Procs -> SUBSET Rows]
         /\ kept' \in [Procs -> SUBSET Rows]
         /\ snap' \in [Procs -> [Inventory -> Statuses]]
         /\ batch' \in SUBSET Rows
         /\ faults' \in 0..MaxFaults
         /\ lapsed' \in SUBSET Rows
         /\ crossed' \in SUBSET Seats
         /\ blind' \in SUBSET Seats
      BY <1>3 DEF TypeOK
    <3> QED BY <3>1, <3>2 DEF TypeOK
  <2>2. OpsInv'
    BY <1>3, WorkerAssumption DEF TypeOK, OpsInv, OpsOf, WorkerInv, Releases, Jobs
  <2>3. WorkerInv'
    BY <1>3, WorkerAssumption DEF TypeOK, OpsInv, OpsOf, WorkerInv
  <2>4. HoldsInv'
    <3>1. pc[p] = "read" /\ UNCHANGED <<hold, job>>
      BY <1>3
    <3>2. \A q \in Procs : q # p => pc'[q] = pc[q]
      BY <1>3 DEF TypeOK
    <3> QED BY <3>1, <3>2 DEF HoldsInv
  <2>5. RowsInv'
    BY <1>3, WorkerAssumption DEF TypeOK, RowsInv, OpsInv, OpsOf, Releases, Rows
  <2>6. WritesInv'
    BY <1>3 DEF TypeOK, WritesInv
  <2> QED BY <2>1, <2>2, <2>3, <2>4, <2>5, <2>6
<1> QED BY <1>2, <1>3

\* SaveInventory preserves the inductive invariant.
LEMMA SaveInventoryIInv ==
    ASSUME NEW p \in Procs, IInv, SaveInventory(p) PROVE IInv'
<1>1. pc[p] \in InTx /\ faults' \in 0..MaxFaults /\ UNCHANGED <<crossed, blind>>
  BY DEF SaveInventory, IInv, TypeOK, env, InTx
<1>2. CASE Rollback(p)
  BY <1>1, <1>2, RollbackIInv
<1>3. CASE ~ Rollback(p)
  <2> USE DEF IInv, SaveInventory, Goto, db, redis, env, Procs, InTx, Running, Ended,
      After
  <2>1. TypeOK'
    <3>1. pc' \in [Procs -> Running \cup Ended \cup {"idle", "next"}]
      <4>1. pc' = [pc EXCEPT ![p] = After(job[p].op, "saveInv")]
        BY <1>3
      <4>2. After(job[p].op, "saveInv") \in Running
        OBVIOUS
      <4> QED BY <4>1, <4>2 DEF TypeOK
    <3>2. wInv' \in [Procs -> SUBSET Inventory]
      BY <1>3 DEF TypeOK, Changed
    <3>3. /\ inv' \in [Inventory -> Statuses]
         /\ hold' \in [Requests -> [Seats -> {"none", "open"} \cup Reasons]]
         /\ late' \in SUBSET Requests
         /\ lock' \in [Seats -> Requests \cup {None}]
         /\ cache' \in [Seats -> Statuses \cup {"absent"}]
         /\ job' \in [Procs -> Jobs \cup {NoJob}]
         /\ todo' \in [Procs -> SUBSET Seats]
         /\ got' \in [Procs -> SUBSET Seats]
         /\ rows' \in [Procs -> SUBSET Rows]
         /\ kept' \in [Procs -> SUBSET Rows]
         /\ snap' \in [Procs -> [Inventory -> Statuses]]
         /\ batch' \in SUBSET Rows
         /\ faults' \in 0..MaxFaults
         /\ lapsed' \in SUBSET Rows
         /\ crossed' \in SUBSET Seats
         /\ blind' \in SUBSET Seats
      BY <1>3 DEF TypeOK
    <3> QED BY <3>1, <3>2, <3>3 DEF TypeOK
  <2>2. OpsInv'
    BY <1>3, WorkerAssumption DEF TypeOK, OpsInv, OpsOf, WorkerInv, Releases, Jobs
  <2>3. WorkerInv'
    BY <1>3, WorkerAssumption DEF TypeOK, OpsInv, OpsOf, WorkerInv
  <2>4. HoldsInv'
    BY <1>3, WorkerAssumption DEF TypeOK, HoldsInv, OpsInv, OpsOf
  <2>5. RowsInv'
    <3>1. pc'[p] \in InTx /\ \A q \in Procs : q # p => pc'[q] = pc[q]
      BY <1>3 DEF TypeOK
    <3>2. UNCHANGED <<hold, job, rows, kept, batch>>
      BY <1>3
    <3> QED BY <3>1, <3>2 DEF RowsInv
  <2>6. WritesInv'
    <3>1. pc'[p] \in InTx /\ \A q \in Procs : q # p => UNCHANGED <<pc[q], wInv[q]>>
      BY <1>3 DEF TypeOK
    <3>2. wInv'[p] \subseteq job[p].seats /\ job' = job
      BY <1>3 DEF TypeOK, Changed
    <3> QED BY <3>1, <3>2 DEF WritesInv
  <2> QED BY <2>1, <2>2, <2>3, <2>4, <2>5, <2>6
<1> QED BY <1>2, <1>3

\* ReadHolds preserves the inductive invariant.
LEMMA ReadHoldsIInv ==
    ASSUME NEW p \in Procs, IInv, ReadHolds(p) PROVE IInv'
<1> USE DEF IInv, ReadHolds, Goto, db, redis, env, Procs, InTx, Running, Ended,
    After, User, OpenRows
<1>1. TypeOK'
  BY SeatsAssumption, NoneAssumption, WorkerAssumption
  DEF TypeOK, OpsInv, OpsOf, WorkerInv, Statuses, Rows, Reasons, Jobs, Releases
<1>2. OpsInv'
  BY WorkerAssumption DEF TypeOK, OpsInv, OpsOf, WorkerInv, Releases, Jobs
<1>3. WorkerInv'
  BY WorkerAssumption DEF TypeOK, OpsInv, OpsOf, WorkerInv
<1>4. HoldsInv'
  BY WorkerAssumption DEF TypeOK, HoldsInv, OpsInv, OpsOf
<1>5. RowsInv'
  <2>1. \A r \in Requests, s \in Seats :
          <<r, s>> \in rows'[p] => hold[r][s] # "none" /\ s \in job[p].seats
    BY DEF TypeOK, Rows
  <2>2. \A r \in Requests, s \in Seats : <<r, s>> \in kept'[p] => hold[r][s] # "none"
    BY DEF TypeOK, Rows
  <2> QED BY <2>1, <2>2 DEF TypeOK, RowsInv, OpsInv, OpsOf, Releases
<1>6. WritesInv'
  BY DEF TypeOK, WritesInv
<1> QED BY <1>1, <1>2, <1>3, <1>4, <1>5, <1>6

\* SaveHolds preserves the inductive invariant.
LEMMA SaveHoldsIInv ==
    ASSUME NEW p \in Procs, IInv, SaveHolds(p) PROVE IInv'
<1> USE DEF IInv, SaveHolds, Goto, db, redis, env, Procs, InTx, Running, Ended,
    After
<1>0. PICK back \in SUBSET kept[p] : kept' = [kept EXCEPT ![p] = back]
  BY DEF Revived
<1>1. TypeOK'
  <2>1. pc' \in [Procs -> Running \cup Ended \cup {"idle", "next"}]
    <3>1. pc' = [pc EXCEPT ![p] = After(job[p].op, "saveHolds")]
      OBVIOUS
    <3>2. After(job[p].op, "saveHolds") \in Running
      OBVIOUS
    <3> QED BY <3>1, <3>2 DEF TypeOK
  <2>2. kept' \in [Procs -> SUBSET Rows]
    <3>1. kept \in [Procs -> SUBSET Rows] /\ kept[p] \subseteq Rows
      BY DEF TypeOK
    <3> QED BY <1>0, <3>1
  <2>3. UNCHANGED <<inv, hold, late, lapsed, lock, cache, job, todo, got, wInv, rows,
                    snap, batch, faults, crossed, blind>>
    OBVIOUS
  <2> QED BY <2>1, <2>2, <2>3 DEF TypeOK
<1>2. OpsInv'
  BY WorkerAssumption DEF TypeOK, OpsInv, OpsOf, WorkerInv, Releases, Jobs
<1>3. WorkerInv'
  BY WorkerAssumption DEF TypeOK, OpsInv, OpsOf, WorkerInv
<1>4. HoldsInv'
  BY WorkerAssumption DEF TypeOK, HoldsInv, OpsInv, OpsOf
<1>5. RowsInv'
  <2>1. pc'[p] \in InTx /\ \A q \in Procs : q # p => pc'[q] = pc[q]
    BY DEF TypeOK, OpsInv, OpsOf, Releases
  <2>2. UNCHANGED <<hold, job, rows, batch>>
    OBVIOUS
  <2>3. \A q \in Procs : kept'[q] \subseteq kept[q]
    BY <1>0 DEF TypeOK
  <2> QED BY <2>1, <2>2, <2>3 DEF RowsInv
<1>6. WritesInv'
  BY DEF TypeOK, WritesInv
<1> QED BY <1>1, <1>2, <1>3, <1>4, <1>5, <1>6

\* Commit preserves the inductive invariant.
LEMMA CommitIInv ==
    ASSUME NEW p \in Procs, IInv, Commit(p) PROVE IInv'
<1> USE DEF IInv, Commit, Goto, db, redis, env, Procs, InTx, Running, Ended
<1>a. \A r \in Requests, s \in Seats :
        /\ hold'[r][s] \in {"none", "open"} \cup Reasons
        /\ hold[r][s] # "none" => hold'[r][s] # "none"
        /\ hold'[r][s] # "none" => hold[r][s] # "none" \/ (r = p /\ job[p].op = "holdSeats")
  <2> TAKE r \in Requests, s \in Seats
  <2>1. hold'[r][s] = IF job[p].op = "holdSeats"
                       THEN IF r = p /\ s \in job[p].seats THEN "open" ELSE hold[r][s]
                       ELSE IF <<r, s>> \in rows[p] THEN job[p].reason
                       ELSE IF <<r, s>> \in kept[p] THEN "open" ELSE hold[r][s]
    BY DEF HoldsAfter
  <2>2. job[p].op # "holdSeats" => job[p].reason \in Reasons
    BY DEF OpsInv, OpsOf, Releases
  <2>3. <<r, s>> \in rows[p] \cup kept[p] => hold[r][s] # "none"
    BY DEF RowsInv
  <2>4. hold[r][s] \in {"none", "open"} \cup Reasons
    BY DEF TypeOK
  <2> QED BY <2>1, <2>2, <2>3, <2>4 DEF Reasons
<1>1. TypeOK'
  <2>1. inv' \in [Inventory -> Statuses]
    BY DEF TypeOK, Target, Statuses
  <2>2. hold' \in [Requests -> [Seats -> {"none", "open"} \cup Reasons]]
    BY <1>a DEF TypeOK, HoldsAfter
  <2>3. pc' \in [Procs -> Running \cup Ended \cup {"idle", "next"}]
    <3>1. pc' = [pc EXCEPT ![p] = "cache"] \/ pc' = [pc EXCEPT ![p] = "get"]
      OBVIOUS
    <3> QED BY <3>1 DEF TypeOK
  <2>4. todo' \in [Procs -> SUBSET Seats]
    BY DEF TypeOK, OpsInv, OpsOf, Jobs
  <2>5. wInv' \in [Procs -> SUBSET Inventory]
    BY DEF TypeOK
  <2>6. /\ rows' \in [Procs -> SUBSET Rows]
       /\ kept' \in [Procs -> SUBSET Rows]
    BY DEF TypeOK
  <2>7. /\ lock' \in [Seats -> Requests \cup {None}]
       /\ cache' \in [Seats -> Statuses \cup {"absent"}]
       /\ job' \in [Procs -> Jobs \cup {NoJob}]
       /\ got' \in [Procs -> SUBSET Seats]
       /\ snap' \in [Procs -> [Inventory -> Statuses]]
       /\ batch' \in SUBSET Rows
       /\ faults' \in 0..MaxFaults
       /\ lapsed' \in SUBSET Rows
       /\ crossed' \in SUBSET Seats
       /\ blind' \in SUBSET Seats
    BY DEF TypeOK
  <2> QED BY <2>1, <2>2, <2>3, <2>4, <2>5, <2>6, <2>7 DEF TypeOK
<1>2. OpsInv'
  BY WorkerAssumption DEF TypeOK, OpsInv, OpsOf, WorkerInv, Releases, Jobs
<1>3. WorkerInv'
  BY WorkerAssumption DEF TypeOK, OpsInv, OpsOf, WorkerInv
<1>4. HoldsInv'
  BY <1>a, WorkerAssumption DEF TypeOK, HoldsInv, OpsInv, OpsOf
<1>5. RowsInv'
  BY <1>a, WorkerAssumption DEF TypeOK, RowsInv
<1>6. WritesInv'
  BY DEF TypeOK, WritesInv
<1> QED BY <1>1, <1>2, <1>3, <1>4, <1>5, <1>6

\* PutSoldSeats preserves the inductive invariant.
LEMMA PutSoldSeatsIInv ==
    ASSUME NEW p \in Procs, IInv, PutSoldSeats(p) PROVE IInv'
<1> USE DEF IInv, PutSoldSeats, Goto, db, redis, env, Procs, InTx, Running, Ended,
    Changed
<1>1. TypeOK'
  BY SeatsAssumption, NoneAssumption, WorkerAssumption
  DEF TypeOK, OpsInv, OpsOf, WorkerInv, Statuses, Rows, Reasons, Jobs, Releases
<1>2. OpsInv'
  BY WorkerAssumption DEF TypeOK, OpsInv, OpsOf, WorkerInv, Releases, Jobs
<1>3. WorkerInv'
  BY WorkerAssumption DEF TypeOK, OpsInv, OpsOf, WorkerInv
<1>4. HoldsInv'
  BY WorkerAssumption DEF TypeOK, HoldsInv, OpsInv, OpsOf
<1>5. RowsInv'
  BY WorkerAssumption DEF TypeOK, RowsInv, OpsInv, OpsOf, Releases, Rows
<1>6. WritesInv'
  BY DEF TypeOK, WritesInv
<1> QED BY <1>1, <1>2, <1>3, <1>4, <1>5, <1>6

\* UpdateMultipleSeatsStatus preserves the inductive invariant.
LEMMA UpdateMultipleSeatsStatusIInv ==
    ASSUME NEW p \in Procs, IInv, UpdateMultipleSeatsStatus(p) PROVE IInv'
<1> USE DEF IInv, UpdateMultipleSeatsStatus, Goto, db, redis, env, Procs, InTx, Running, Ended,
    EndsAs, Target
<1>1. TypeOK'
  BY SeatsAssumption, NoneAssumption, WorkerAssumption
  DEF TypeOK, OpsInv, OpsOf, WorkerInv, Statuses, Rows, Reasons, Jobs, Releases
<1>2. OpsInv'
  BY WorkerAssumption DEF TypeOK, OpsInv, OpsOf, WorkerInv, Releases, Jobs
<1>3. WorkerInv'
  BY WorkerAssumption DEF TypeOK, OpsInv, OpsOf, WorkerInv
<1>4. HoldsInv'
  BY WorkerAssumption DEF TypeOK, HoldsInv, OpsInv, OpsOf
<1>5. RowsInv'
  BY WorkerAssumption DEF TypeOK, RowsInv, OpsInv, OpsOf, Releases, Rows
<1>6. WritesInv'
  BY DEF TypeOK, WritesInv
<1> QED BY <1>1, <1>2, <1>3, <1>4, <1>5, <1>6

\* ReadCache preserves the inductive invariant.
LEMMA ReadCacheIInv ==
    ASSUME NEW p \in Procs, IInv, ReadCache(p) PROVE IInv'
<1> USE DEF IInv, ReadCache, Goto, db, redis, env, Procs, InTx, Running, Ended,
    NoCache
<1>1. TypeOK'
  BY SeatsAssumption, NoneAssumption, WorkerAssumption
  DEF TypeOK, OpsInv, OpsOf, WorkerInv, Statuses, Rows, Reasons, Jobs, Releases
<1>2. OpsInv'
  BY WorkerAssumption DEF TypeOK, OpsInv, OpsOf, WorkerInv, Releases, Jobs
<1>3. WorkerInv'
  BY WorkerAssumption DEF TypeOK, OpsInv, OpsOf, WorkerInv
<1>4. HoldsInv'
  BY WorkerAssumption DEF TypeOK, HoldsInv, OpsInv, OpsOf
<1>5. RowsInv'
  BY WorkerAssumption DEF TypeOK, RowsInv, OpsInv, OpsOf, Releases, Rows
<1>6. WritesInv'
  BY DEF TypeOK, WritesInv
<1> QED BY <1>1, <1>2, <1>3, <1>4, <1>5, <1>6

\* RebuildRead preserves the inductive invariant.
LEMMA RebuildReadIInv ==
    ASSUME NEW p \in Procs, IInv, RebuildRead(p) PROVE IInv'
<1> USE DEF IInv, RebuildRead, Goto, db, redis, env, Procs, InTx, Running, Ended
<1>1. TypeOK'
  BY SeatsAssumption, NoneAssumption, WorkerAssumption
  DEF TypeOK, OpsInv, OpsOf, WorkerInv, Statuses, Rows, Reasons, Jobs, Releases
<1>2. OpsInv'
  BY WorkerAssumption DEF TypeOK, OpsInv, OpsOf, WorkerInv, Releases, Jobs
<1>3. WorkerInv'
  BY WorkerAssumption DEF TypeOK, OpsInv, OpsOf, WorkerInv
<1>4. HoldsInv'
  BY WorkerAssumption DEF TypeOK, HoldsInv, OpsInv, OpsOf
<1>5. RowsInv'
  BY WorkerAssumption DEF TypeOK, RowsInv, OpsInv, OpsOf, Releases, Rows
<1>6. WritesInv'
  BY DEF TypeOK, WritesInv
<1> QED BY <1>1, <1>2, <1>3, <1>4, <1>5, <1>6

\* RebuildWrite preserves the inductive invariant.
LEMMA RebuildWriteIInv ==
    ASSUME NEW p \in Procs, IInv, RebuildWrite(p) PROVE IInv'
<1> USE DEF IInv, RebuildWrite, Goto, db, redis, env, Procs, InTx, Running, Ended,
    Rebuilt
<1>1. TypeOK'
  BY SeatsAssumption, NoneAssumption, WorkerAssumption
  DEF TypeOK, OpsInv, OpsOf, WorkerInv, Statuses, Rows, Reasons, Jobs, Releases
<1>2. OpsInv'
  BY WorkerAssumption DEF TypeOK, OpsInv, OpsOf, WorkerInv, Releases, Jobs
<1>3. WorkerInv'
  BY WorkerAssumption DEF TypeOK, OpsInv, OpsOf, WorkerInv
<1>4. HoldsInv'
  BY WorkerAssumption DEF TypeOK, HoldsInv, OpsInv, OpsOf
<1>5. RowsInv'
  BY WorkerAssumption DEF TypeOK, RowsInv, OpsInv, OpsOf, Releases, Rows
<1>6. WritesInv'
  BY DEF TypeOK, WritesInv
<1> QED BY <1>1, <1>2, <1>3, <1>4, <1>5, <1>6

\* DeadlockAbort preserves the inductive invariant.
LEMMA DeadlockAbortIInv ==
    ASSUME NEW p \in Procs, IInv, DeadlockAbort(p) PROVE IInv'
<1>1. pc[p] \in InTx
  BY DEF DeadlockAbort, WaitsFor, InTx
<1>2. Rollback(p) /\ faults' \in 0..MaxFaults /\ UNCHANGED <<crossed, blind>>
  BY DEF DeadlockAbort, env, IInv, TypeOK
<1> QED BY <1>1, <1>2, RollbackIInv

\* A failure keeps the count within its bound.
LEMMA FaultCounted ==
    ASSUME IInv, NEW kind, Fault(kind)
    PROVE faults' \in 0..MaxFaults /\ UNCHANGED <<crossed, blind>>
BY BoundsAssumption DEF Fault, IInv, TypeOK

\* TxError preserves the inductive invariant.
LEMMA TxErrorIInv ==
    ASSUME NEW p \in Procs, IInv, TxError(p) PROVE IInv'
<1>1. pc[p] \in InTx /\ Rollback(p) /\ faults' \in 0..MaxFaults /\ UNCHANGED <<crossed, blind>>
  BY FaultCounted DEF TxError
<1> QED BY <1>1, RollbackIInv

\* ConnectError preserves the inductive invariant.
LEMMA ConnectErrorIInv ==
    ASSUME NEW p \in Procs, IInv, ConnectError(p) PROVE IInv'
<1> USE DEF IInv, ConnectError, Goto, db, redis, env, Procs, InTx, Running, Ended,
    EndsAs
<1>1. TypeOK'
  <2>1. pc' \in [Procs -> Running \cup Ended \cup {"idle", "next"}]
    BY DEF TypeOK
  <2>2. faults' \in 0..MaxFaults
    BY FaultCounted
  <2>3. lapsed' \in SUBSET Rows /\ crossed' \in SUBSET Seats /\ blind' \in SUBSET Seats
    BY FaultCounted DEF TypeOK
  <2>4. /\ inv' \in [Inventory -> Statuses]
       /\ hold' \in [Requests -> [Seats -> {"none", "open"} \cup Reasons]]
       /\ late' \in SUBSET Requests
       /\ lock' \in [Seats -> Requests \cup {None}]
       /\ cache' \in [Seats -> Statuses \cup {"absent"}]
       /\ job' \in [Procs -> Jobs \cup {NoJob}]
       /\ todo' \in [Procs -> SUBSET Seats]
       /\ got' \in [Procs -> SUBSET Seats]
       /\ wInv' \in [Procs -> SUBSET Inventory]
       /\ rows' \in [Procs -> SUBSET Rows]
       /\ kept' \in [Procs -> SUBSET Rows]
       /\ snap' \in [Procs -> [Inventory -> Statuses]]
       /\ batch' \in SUBSET Rows
    BY DEF TypeOK
  <2> QED BY <2>1, <2>2, <2>3, <2>4 DEF TypeOK
<1>2. OpsInv'
  BY WorkerAssumption DEF TypeOK, OpsInv, OpsOf, WorkerInv, Releases, Jobs
<1>3. WorkerInv'
  BY WorkerAssumption DEF TypeOK, OpsInv, OpsOf, WorkerInv
<1>4. HoldsInv'
  BY WorkerAssumption DEF TypeOK, HoldsInv, OpsInv, OpsOf
<1>5. RowsInv'
  BY WorkerAssumption DEF TypeOK, RowsInv, OpsInv, OpsOf, Releases, Rows
<1>6. WritesInv'
  BY DEF TypeOK, WritesInv
<1> QED BY <1>1, <1>2, <1>3, <1>4, <1>5, <1>6

\* RedisError preserves the inductive invariant.
LEMMA RedisErrorIInv ==
    ASSUME NEW p \in Procs, IInv, RedisError(p) PROVE IInv'
<1> USE DEF IInv, RedisError, Goto, db, redis, env, Procs, InTx, Running, Ended,
    EndsAs
<1>1. TypeOK'
  <2>1. pc' \in [Procs -> Running \cup Ended \cup {"idle", "next"}]
    BY DEF TypeOK
  <2>2. todo' \in [Procs -> SUBSET Seats]
    BY DEF TypeOK
  <2>3. got' \in [Procs -> SUBSET Seats]
    BY DEF TypeOK
  <2>4. faults' \in 0..MaxFaults
    BY FaultCounted
  <2>5. lapsed' \in SUBSET Rows /\ crossed' \in SUBSET Seats /\ blind' \in SUBSET Seats
    BY FaultCounted DEF TypeOK
  <2>6. /\ inv' \in [Inventory -> Statuses]
       /\ hold' \in [Requests -> [Seats -> {"none", "open"} \cup Reasons]]
       /\ late' \in SUBSET Requests
       /\ lock' \in [Seats -> Requests \cup {None}]
       /\ cache' \in [Seats -> Statuses \cup {"absent"}]
       /\ job' \in [Procs -> Jobs \cup {NoJob}]
       /\ wInv' \in [Procs -> SUBSET Inventory]
       /\ rows' \in [Procs -> SUBSET Rows]
       /\ kept' \in [Procs -> SUBSET Rows]
       /\ snap' \in [Procs -> [Inventory -> Statuses]]
       /\ batch' \in SUBSET Rows
    BY DEF TypeOK
  <2> QED BY <2>1, <2>2, <2>3, <2>4, <2>5, <2>6 DEF TypeOK
<1>2. OpsInv'
  BY WorkerAssumption DEF TypeOK, OpsInv, OpsOf, WorkerInv, Releases, Jobs
<1>3. WorkerInv'
  BY WorkerAssumption DEF TypeOK, OpsInv, OpsOf, WorkerInv
<1>4. HoldsInv'
  BY WorkerAssumption DEF TypeOK, HoldsInv, OpsInv, OpsOf
<1>5. RowsInv'
  BY WorkerAssumption DEF TypeOK, RowsInv, OpsInv, OpsOf, Releases, Rows
<1>6. WritesInv'
  BY DEF TypeOK, WritesInv
<1> QED BY <1>1, <1>2, <1>3, <1>4, <1>5, <1>6

\* CacheWriteLost preserves the inductive invariant.
LEMMA CacheWriteLostIInv ==
    ASSUME NEW p \in Procs, IInv, CacheWriteLost(p) PROVE IInv'
<1> USE DEF IInv, CacheWriteLost, Goto, db, redis, env, Procs, InTx, Running, Ended,
    EndsAs
<1>1. TypeOK'
  <2>1. pc' \in [Procs -> Running \cup Ended \cup {"idle", "next"}]
    BY DEF TypeOK
  <2>2. faults' \in 0..MaxFaults
    BY FaultCounted
  <2>3. lapsed' \in SUBSET Rows /\ crossed' \in SUBSET Seats /\ blind' \in SUBSET Seats
    BY FaultCounted DEF TypeOK
  <2>4. /\ inv' \in [Inventory -> Statuses]
       /\ hold' \in [Requests -> [Seats -> {"none", "open"} \cup Reasons]]
       /\ late' \in SUBSET Requests
       /\ lock' \in [Seats -> Requests \cup {None}]
       /\ cache' \in [Seats -> Statuses \cup {"absent"}]
       /\ job' \in [Procs -> Jobs \cup {NoJob}]
       /\ todo' \in [Procs -> SUBSET Seats]
       /\ got' \in [Procs -> SUBSET Seats]
       /\ wInv' \in [Procs -> SUBSET Inventory]
       /\ rows' \in [Procs -> SUBSET Rows]
       /\ kept' \in [Procs -> SUBSET Rows]
       /\ snap' \in [Procs -> [Inventory -> Statuses]]
       /\ batch' \in SUBSET Rows
    BY DEF TypeOK
  <2> QED BY <2>1, <2>2, <2>3, <2>4 DEF TypeOK
<1>2. OpsInv'
  BY WorkerAssumption DEF TypeOK, OpsInv, OpsOf, WorkerInv, Releases, Jobs
<1>3. WorkerInv'
  BY WorkerAssumption DEF TypeOK, OpsInv, OpsOf, WorkerInv
<1>4. HoldsInv'
  BY WorkerAssumption DEF TypeOK, HoldsInv, OpsInv, OpsOf
<1>5. RowsInv'
  BY WorkerAssumption DEF TypeOK, RowsInv, OpsInv, OpsOf, Releases, Rows
<1>6. WritesInv'
  BY DEF TypeOK, WritesInv
<1> QED BY <1>1, <1>2, <1>3, <1>4, <1>5, <1>6

\* Calls that meet meet on seats.
LEMMA MeetingSeats ==
    ASSUME IInv, NEW u, NEW ss \in SUBSET Seats PROVE Meeting(u, ss) \subseteq Seats
<1>1. \A p \in Procs : CallFor(p, u) => job[p].seats \subseteq Seats
  BY DEF IInv, TypeOK, Jobs, NoJob, CallFor
<1> QED BY <1>1 DEF Meeting

\* Begin preserves the inductive invariant.
LEMMA BeginIInv ==
    ASSUME NEW r \in Requests, IInv, Begin(r) PROVE IInv'
<1> USE DEF IInv, db, redis, env, Procs
<1>1. PICK c \in Calls :
        /\ job' = [job EXCEPT ![r] = c]
        /\ pc' = [pc EXCEPT ![r] = FirstStep(c.op)]
        /\ todo' = [todo EXCEPT ![r] = IF c.op = "holdSeats" THEN c.seats ELSE {}]
        /\ crossed' = IF c.op \in ForBuyer THEN crossed \cup Meeting(c.user, c.seats)
                      ELSE crossed
  BY DEF Begin, Goto
<1>2. c \in Jobs /\ (c.op \in Releases => c.reason \in Reasons)
  BY CallsAssumption DEF Releases, Reasons
<1>3. c.op \in Ops /\ c.seats \subseteq Seats
  BY <1>2 DEF Jobs
<1>4. UNCHANGED <<inv, hold, late, lapsed, lock, cache, got, wInv, rows, kept, snap,
                  batch, faults, blind>>
  BY DEF Begin
<1>5. \A p \in Procs : p # r => job'[p] = job[p] /\ pc'[p] = pc[p]
  BY <1>1 DEF TypeOK
<1>6. job'[r] = c /\ pc'[r] = FirstStep(c.op) /\ pc[r] = "idle"
  BY <1>1 DEF TypeOK, Begin
<1>7. TypeOK'
  <2>1. job' \in [Procs -> Jobs \cup {NoJob}]
    BY <1>1, <1>2 DEF TypeOK
  <2>2. pc' \in [Procs -> Running \cup Ended \cup {"idle", "next"}]
    BY <1>1 DEF TypeOK, FirstStep, Running, InTx, Ended
  <2>3. todo' \in [Procs -> SUBSET Seats]
    BY <1>1, <1>3 DEF TypeOK
  <2>4. Meeting(c.user, c.seats) \subseteq Seats
    BY <1>3, MeetingSeats
  <2>5. crossed' \in SUBSET Seats
    BY <1>1, <2>4 DEF TypeOK
  <2> QED BY <1>4, <2>1, <2>2, <2>3, <2>5 DEF TypeOK
<1>8. OpsInv'
  BY <1>2, <1>3, <1>5, <1>6
  DEF OpsInv, OpsOf, FirstStep, Ops, Releases, Running, InTx, Ended
<1>9. WorkerInv'
  BY <1>5, WorkerAssumption DEF WorkerInv
<1>10. HoldsInv'
  BY <1>4, <1>5, <1>6 DEF HoldsInv
<1>11. RowsInv' /\ WritesInv'
  <2>1. rows[r] = {} /\ wInv[r] = {}
    BY <1>6 DEF RowsInv, WritesInv, InTx
  <2> QED BY <1>4, <1>5, <2>1 DEF RowsInv, WritesInv
<1> QED BY <1>7, <1>8, <1>9, <1>10, <1>11

\* Scan preserves the inductive invariant.
LEMMA ScanIInv == ASSUME IInv, Scan PROVE IInv'
<1> USE DEF IInv, Scan, Goto, db, redis, env, Procs, InTx, Running, Ended
<1>1. TypeOK'
  BY DEF TypeOK, ExpiredRows
<1>2. OpsInv' /\ WorkerInv'
  BY WorkerAssumption DEF TypeOK, OpsInv, OpsOf, WorkerInv
<1>3. HoldsInv'
  BY WorkerAssumption DEF TypeOK, HoldsInv
<1>4. RowsInv' /\ WritesInv'
  BY DEF TypeOK, RowsInv, WritesInv, ExpiredRows, Rows
<1> QED BY <1>1, <1>2, <1>3, <1>4

\* NextGroup preserves the inductive invariant.
LEMMA NextGroupIInv == ASSUME IInv, NextGroup PROVE IInv'
<1> USE DEF IInv, db, redis, env, Procs
<1>1. UNCHANGED <<inv, hold, late, lapsed, lock, cache, todo, got, wInv, rows, kept, snap,
                  faults, blind>>
  BY DEF NextGroup
<1>2. pc[Worker] = "next" /\ rows[Worker] = {} /\ wInv[Worker] = {}
  BY DEF NextGroup, RowsInv, WritesInv, InTx
<1>3. /\ job' = [job EXCEPT ![Worker] = job'[Worker]]
      /\ pc' = [pc EXCEPT ![Worker] = pc'[Worker]]
      /\ \/ job'[Worker] = NoJob /\ pc'[Worker] = "idle"
         \/ /\ job'[Worker] \in Jobs /\ job'[Worker].op = "releaseSeats"
            /\ job'[Worker].reason = "timeout" /\ pc'[Worker] = "begin"
  <2>1. CASE batch = {}
    BY <2>1 DEF NextGroup, Goto, TypeOK
  <2>2. CASE batch # {}
    <3>1. PICK h \in batch :
            /\ job' = [job EXCEPT ![Worker] =
                 [op |-> "releaseSeats", user |-> User(h[1]),
                  seats |-> {g[2] : g \in {g \in batch : User(g[1]) = User(h[1])}},
                  reason |-> "timeout"]]
            /\ pc' = [pc EXCEPT ![Worker] = "begin"]
      BY <2>2 DEF NextGroup, Goto
    <3>2. PICK r \in Requests, s \in Seats : h = <<r, s>>
      BY DEF TypeOK, Rows
    <3>3. job[r] \in Jobs
      BY <3>2 DEF RowsInv, HoldsInv, TypeOK, NoJob
    <3>4. User(h[1]) \in Users
      BY <3>2, <3>3 DEF User, Jobs
    <3>5. {g[2] : g \in {g \in batch : User(g[1]) = User(h[1])}} \subseteq Seats
      BY DEF TypeOK, Rows
    <3>6. /\ job'[Worker] \in Jobs
          /\ job'[Worker].op = "releaseSeats" /\ job'[Worker].reason = "timeout"
      BY <3>1, <3>4, <3>5 DEF TypeOK, Jobs, Ops, Reasons
    <3> QED BY <3>1, <3>6 DEF TypeOK
  <2> QED BY <2>1, <2>2
<1>4. \A p \in Procs : p # Worker => job'[p] = job[p] /\ pc'[p] = pc[p]
  BY <1>3 DEF TypeOK
<1>5. TypeOK'
  <2>1. job' \in [Procs -> Jobs \cup {NoJob}]
    BY <1>3 DEF TypeOK
  <2>2. pc' \in [Procs -> Running \cup Ended \cup {"idle", "next"}]
    BY <1>3 DEF TypeOK, Running
  <2>3. batch' \subseteq batch
    BY DEF NextGroup
  <2>4. \A h \in batch :
          Meeting(User(h[1]), {g[2] : g \in {x \in batch : User(x[1]) = User(h[1])}})
            \subseteq Seats
    <3>1. \A g \in batch : g[2] \in Seats
      BY DEF TypeOK, Rows
    <3>2. \A h \in batch :
            {g[2] : g \in {x \in batch : User(x[1]) = User(h[1])}} \in SUBSET Seats
      BY <3>1
    <3> QED BY <3>2, MeetingSeats
  <2>5. crossed' \in SUBSET Seats
    BY <2>4 DEF NextGroup, TypeOK
  <2> QED BY <1>1, <2>1, <2>2, <2>3, <2>5 DEF TypeOK
<1>7. OpsInv'
  BY <1>4, <1>3 DEF OpsInv, OpsOf, Releases, Reasons, NoJob, Running, InTx, Ended
<1>8. WorkerInv'
  BY <1>3 DEF WorkerInv, NoJob, Ended
<1>9. HoldsInv'
  BY <1>1, <1>4, WorkerAssumption DEF HoldsInv
<1>10. RowsInv' /\ WritesInv'
  <2>1. batch' \subseteq batch
    BY DEF NextGroup
  <2> QED BY <1>1, <1>2, <1>4, <2>1 DEF RowsInv, WritesInv
<1> QED BY <1>5, <1>7, <1>8, <1>9, <1>10

\* Time preserves the inductive invariant.
LEMMA TimePassesIInv == ASSUME IInv, TimePasses PROVE IInv'
<1> USE DEF IInv, redis, env, Procs
<1>1. /\ UNCHANGED <<inv, hold, cache, job, pc, todo, got, wInv, rows, kept, snap, batch,
                    faults, blind>>
      /\ late' \subseteq Requests /\ lapsed' \subseteq Rows /\ crossed' \subseteq Seats
      /\ lock' \in [Seats -> Requests \cup {None}]
  <2>1. ASSUME NEW r \in Requests, NEW s \in Seats, LockLapses(r, s) PROVE <1>1!:
    BY <2>1 DEF LockLapses, TypeOK, Rows
  <2>2. ASSUME NEW r \in Requests, HoldLapses(r) PROVE <1>1!:
    BY <2>2 DEF HoldLapses, TypeOK
  <2> QED BY <2>1, <2>2 DEF TimePasses
<1>2. TypeOK'
  BY <1>1 DEF TypeOK
<1>3. OpsInv' /\ WorkerInv'
  BY <1>1 DEF OpsInv, OpsOf, WorkerInv
<1>4. HoldsInv' /\ RowsInv'
  BY <1>1 DEF HoldsInv, RowsInv
<1>5. WritesInv'
  BY <1>1 DEF WritesInv
<1> QED BY <1>2, <1>3, <1>4, <1>5

\* Crash preserves the inductive invariant.
LEMMA CrashIInv == ASSUME IInv, Crash PROVE IInv'
<1> USE DEF IInv, Crash, db, Procs, InTx, Running, Ended
<1>1. TypeOK'
  <2>1. pc' \in [Procs -> Running \cup Ended \cup {"idle", "next"}]
    BY WorkerAssumption DEF TypeOK
  <2>2. cache' \in [Seats -> Statuses \cup {"absent"}]
    BY SeatsAssumption DEF TypeOK, Rebuilt
  <2>3. faults' \in 0..MaxFaults /\ UNCHANGED <<crossed, blind>>
    BY FaultCounted
  <2> QED BY <2>1, <2>2, <2>3 DEF TypeOK
<1>2. OpsInv'
  <2>1. \A p \in Procs :
          /\ pc'[p] \in Ended \cup {"idle", "next"}
          /\ pc'[p] \in Ended => p # Worker /\ pc[p] \in Running \cup Ended
          /\ p # Worker => job'[p] = job[p]
    BY WorkerAssumption DEF TypeOK, Committed
  <2>2. job'[Worker] = NoJob
    BY DEF TypeOK
  <2>3. \A p \in Procs : p # Worker => OpsOf(p)'
    BY <2>1 DEF OpsInv, OpsOf
  <2>4. OpsOf(Worker)'
    BY <2>1, <2>2 DEF OpsOf, NoJob, Releases
  <2> QED BY <2>3, <2>4 DEF OpsInv
<1>3. WorkerInv'
  BY WorkerAssumption DEF TypeOK, NoJob, WorkerInv
<1>4. HoldsInv'
  BY WorkerAssumption DEF TypeOK, HoldsInv, Committed
<1>5. RowsInv' /\ WritesInv'
  BY DEF RowsInv, WritesInv
<1> QED BY <1>1, <1>2, <1>3, <1>4, <1>5

\* Every step preserves the inductive invariant.
LEMMA NextIInv == IInv /\ [Next]_vars => IInv'
<1> SUFFICES ASSUME IInv, [Next]_vars PROVE IInv'
  OBVIOUS
<1>1. CASE UNCHANGED vars
  BY <1>1 DEF vars, IInv, TypeOK, OpsInv, OpsOf, WorkerInv, HoldsInv, RowsInv, WritesInv
<1>2. ASSUME NEW r \in Requests, Begin(r) PROVE IInv'
  BY <1>2, BeginIInv
<1>3. ASSUME NEW p \in Procs, HandlerStep(p) PROVE IInv'
  BY <1>3, LockSeatIInv, LockSeatsEndIInv, UnlockSeatIInv, GetLockIInv, DelLockIInv,
     BeginTxIInv, ReadInventoryIInv, SaveInventoryIInv, ReadHoldsIInv, SaveHoldsIInv,
     CommitIInv, PutSoldSeatsIInv, UpdateMultipleSeatsStatusIInv, ReadCacheIInv,
     RebuildReadIInv, RebuildWriteIInv, DeadlockAbortIInv
  DEF HandlerStep
<1>4. ASSUME NEW p \in Procs, HandlerError(p) PROVE IInv'
  BY <1>4, ConnectErrorIInv, TxErrorIInv, RedisErrorIInv, CacheWriteLostIInv
  DEF HandlerError
<1> QED
  BY <1>1, <1>2, <1>3, <1>4, TimePassesIInv, ScanIInv, NextGroupIInv, CrashIInv DEF Next

\* The type invariant of the service holds in every behaviour, however many
\* requests, seats, failures and restarts there are.
THEOREM TypeCorrect == Spec => []TypeOK
<1>1. Spec => []IInv
  BY InitIInv, NextIInv, PTL DEF Spec
<1>2. IInv => TypeOK
  BY DEF IInv
<1> QED BY <1>1, <1>2, PTL

-----------------------------------------------------------------------------
(* A held seat has an unreleased hold *)

\* What a step must leave alone to preserve HeldInv without any thought about
\* seats: it moves one handler, not to the save of its holds or to a commit.
Quiet(p) ==
    /\ UNCHANGED <<inv, hold, job, blind>>
    /\ \A q \in Procs : q # p => UNCHANGED <<pc[q], wInv[q], rows[q]>>
    /\ pc'[p] \notin {"saveHolds", "commit"}

\* Quiet steps preserve HeldInv.
LEMMA QuietHeld ==
    ASSUME NEW p \in Procs, IInv, HeldInv, Quiet(p) PROVE HeldInv'
<1> USE DEF HeldInv, Quiet
<1>1. SaleSeesSeat'
  BY DEF SaleSeesSeat
<1>2. \A r \in Requests, s \in Inventory : Witness(r, s) => Witness(r, s)'
  BY DEF Witness
<1> QED BY <1>1, <1>2 DEF HeldHasWitness

\* Init establishes HeldInv: nothing is held or sold.
LEMMA InitHeld == Init => HeldInv
BY DEF Init, HeldInv, SaleSeesSeat, HeldHasWitness

\* A new request has not written or read anything.
LEMMA BeginHeld ==
    ASSUME NEW r \in Requests, IInv, HeldInv, Begin(r) PROVE HeldInv'
<1> USE DEF HeldInv, db
<1>1. PICK c \in Calls :
        /\ job' = [job EXCEPT ![r] = c]
        /\ pc' = [pc EXCEPT ![r] = FirstStep(c.op)]
  BY DEF Begin, Goto
<1>2. UNCHANGED <<inv, hold, wInv, rows, blind>>
  BY DEF Begin
<1>3. \A p \in Procs : p # r => job'[p] = job[p] /\ pc'[p] = pc[p]
  BY <1>1 DEF IInv, TypeOK
<1>4. pc'[r] \in {"lock", "begin", "put", "hget"}
  BY <1>1 DEF IInv, TypeOK, FirstStep, Procs
<1>5. SaleSeesSeat'
  BY <1>2, <1>3, <1>4 DEF SaleSeesSeat
<1>6. \A x \in Requests, s \in Inventory : Witness(x, s) => Witness(x, s)'
  BY <1>2, <1>3, <1>4 DEF Witness
<1> QED BY <1>2, <1>5, <1>6 DEF HeldHasWitness

\* The save of the inventory: a release that skips a seat has seen it not held.
LEMMA SaveInventoryHeld ==
    ASSUME NEW p \in Procs, IInv, HeldInv, SaveInventory(p), ~ Rollback(p)
    PROVE  HeldInv'
<1> USE DEF HeldInv, db, env
<1>1. /\ pc[p] = "saveInv"
      /\ wInv' = [wInv EXCEPT ![p] = Changed(p)]
      /\ pc' = [pc EXCEPT ![p] = After(job[p].op, "saveInv")]
      /\ UNCHANGED <<inv, hold, job, rows, blind>>
  BY DEF SaveInventory, Goto
<1>2. \A q \in Procs : q # p => pc'[q] = pc[q] /\ wInv'[q] = wInv[q]
  BY <1>1 DEF IInv, TypeOK
<1>3. wInv'[p] = Changed(p) /\ pc'[p] = After(job[p].op, "saveInv")
  BY <1>1 DEF IInv, TypeOK
<1>4. pc'[p] \in {"readHolds", "commit"} /\ (pc'[p] = "commit" <=> job[p].op # "markAsSold")
  BY <1>1, <1>3 DEF After, IInv, OpsInv, OpsOf, Releases
<1>5. SaleSeesSeat'
  BY <1>1, <1>2, <1>4 DEF SaleSeesSeat
<1>6. ASSUME NEW r \in Requests, NEW s \in Inventory, inv[s] = "held", Witness(r, s)
      PROVE  Witness(r, s)'
  <2>1. ASSUME pc'[p] = "commit", s \notin wInv'[p], <<r, s>> \in rows[p] PROVE FALSE
    <3>1. s \in job[p].seats /\ job[p].op \in Releases
      BY <2>1, SeatsAssumption DEF IInv, RowsInv
    <3>2. job[p].op = "releaseSeats"
      BY <1>4, <2>1, <3>1 DEF Releases
    <3> QED BY <1>3, <1>6, <2>1, <3>1, <3>2 DEF Changed, Target
  <2> QED BY <1>1, <1>2, <1>6, <2>1 DEF Witness
<1> QED BY <1>1, <1>5, <1>6 DEF HeldHasWitness

\* The hold rows are found: what a sale finds on seats it has not written is
\* recorded.
LEMMA ReadHoldsHeld ==
    ASSUME NEW p \in Procs, IInv, HeldInv, ReadHolds(p) PROVE HeldInv'
<1> USE DEF HeldInv, db
<1>1. /\ pc[p] = "readHolds" /\ pc'[p] = "saveHolds"
      /\ UNCHANGED <<inv, hold, job, wInv>>
      /\ \A q \in Procs : q # p => pc'[q] = pc[q] /\ rows'[q] = rows[q]
  BY DEF ReadHolds, Goto, After, IInv, TypeOK, OpsInv, OpsOf, Releases
<1>2. /\ blind \subseteq blind'
      /\ job[p].op = "markAsSold" =>
           \A h \in rows'[p] : h[2] \notin wInv[p] => h[2] \in blind'
  BY DEF ReadHolds
<1>3. SaleSeesSeat'
  <2> SUFFICES ASSUME NEW r \in Requests, NEW s \in Inventory \ blind',
                      job[p].op = "markAsSold", <<r, s>> \in rows'[p]
               PROVE  s \in wInv[p]
    BY <1>1, <1>2 DEF SaleSeesSeat
  <2>1. <<r, s>>[2] = s
    OBVIOUS
  <2> QED BY <1>2, <2>1
<1>4. \A r \in Requests, s \in Inventory : Witness(r, s) => Witness(r, s)'
  BY <1>1 DEF Witness
<1> QED BY <1>1, <1>2, <1>3, <1>4 DEF HeldHasWitness

\* The hold rows are saved: a sale that goes on to commit has the row locks of
\* the seats, a release goes on to the inventory.
LEMMA SaveHoldsHeld ==
    ASSUME NEW p \in Procs, IInv, HeldInv, SaveHolds(p) PROVE HeldInv'
<1> USE DEF HeldInv, db, env
<1>1. /\ pc[p] = "saveHolds"
      /\ pc'[p] = IF job[p].op = "markAsSold" THEN "commit" ELSE "saveInv"
      /\ UNCHANGED <<inv, hold, job, wInv, rows, blind>>
      /\ \A q \in Procs : q # p => pc'[q] = pc[q]
  BY DEF SaveHolds, Goto, After, IInv, TypeOK, OpsInv, OpsOf, Releases
<1>2. SaleSeesSeat'
  BY <1>1 DEF SaleSeesSeat
<1>3. \A r \in Requests, s \in Inventory \ blind : Witness(r, s) => Witness(r, s)'
  BY <1>1 DEF Witness, SaleSeesSeat
<1> QED BY <1>1, <1>2, <1>3 DEF HeldHasWitness

\* The commit: a hold brings its own row as witness, any other transaction
\* rewrites the seat or spares the witness.
LEMMA CommitHeld ==
    ASSUME NEW p \in Procs, IInv, HeldInv, Commit(p) PROVE HeldInv'
<1> USE DEF HeldInv, env
<1>1. /\ pc[p] = "commit" /\ UNCHANGED <<job, blind>>
      /\ pc'[p] = IF job[p].op = "holdSeats" THEN "cache" ELSE "get"
      /\ wInv'[p] = {} /\ rows'[p] = {}
      /\ \A q \in Procs : q # p => UNCHANGED <<pc[q], wInv[q], rows[q]>>
  BY DEF Commit, Goto, IInv, TypeOK
<1>2. \A s \in Inventory :
        inv'[s] = IF s \in wInv[p] THEN Target(job[p].op) ELSE inv[s]
  BY DEF Commit
<1>3. \A r \in Requests, s \in Seats :
        hold'[r][s] =
          IF job[p].op = "holdSeats"
            THEN IF r = p /\ s \in job[p].seats THEN "open" ELSE hold[r][s]
            ELSE IF <<r, s>> \in rows[p] THEN job[p].reason
            ELSE IF <<r, s>> \in kept[p] THEN "open" ELSE hold[r][s]
  BY DEF Commit, HoldsAfter
<1>4. job[p].op \in Releases \cup {"holdSeats"}
  BY <1>1 DEF IInv, OpsInv, OpsOf
<1>5. SaleSeesSeat'
  BY <1>1 DEF SaleSeesSeat
<1>6. HeldHasWitness'
  <2> SUFFICES ASSUME NEW s \in Inventory \ blind, inv'[s] = "held"
               PROVE  \E r \in Requests : Witness(r, s)'
    BY <1>1 DEF HeldHasWitness
  <2>0. s \in Seats
    BY SeatsAssumption
  <2>1. CASE s \in wInv[p]
    <3>1. job[p].op = "holdSeats" /\ s \in job[p].seats
      BY <1>2, <1>4, <2>1 DEF Target, Releases, IInv, WritesInv
    <3>2. p \in Requests
      BY <3>1 DEF Procs, IInv, WorkerInv
    <3>3. hold'[p][s] = "open" /\ hold[p][s] = "none"
      BY <1>1, <1>3, <2>0, <3>1, <3>2 DEF IInv, HoldsInv
    <3>4. \A q \in Procs : <<p, s>> \notin rows[q]
      BY <2>0, <3>2, <3>3 DEF IInv, RowsInv
    <3> QED BY <1>1, <3>2, <3>3, <3>4 DEF Witness
  <2>2. CASE s \notin wInv[p]
    <3>1. PICK r \in Requests : Witness(r, s)
      BY <1>2, <2>2 DEF HeldHasWitness
    <3>2. hold'[r][s] = "open"
      BY <1>1, <1>3, <2>0, <2>2, <3>1 DEF Witness
    <3> QED BY <1>1, <3>1, <3>2 DEF Witness
  <2> QED BY <2>1, <2>2
<1> QED BY <1>5, <1>6

\* Seats of a refunded booking: no seat becomes held.
LEMMA PutSoldSeatsHeld ==
    ASSUME NEW p \in Procs, IInv, HeldInv, PutSoldSeats(p) PROVE HeldInv'
<1> USE DEF HeldInv, env
<1>1. /\ pc[p] = "put" /\ pc'[p] = "cache"
      /\ UNCHANGED <<hold, job, wInv, rows, blind>>
      /\ \A q \in Procs : q # p => pc'[q] = pc[q]
  BY DEF PutSoldSeats, Goto, IInv, TypeOK
<1>2. \A s \in Inventory : inv'[s] \in {"available", inv[s]}
  BY DEF PutSoldSeats
<1>3. SaleSeesSeat'
  BY <1>1 DEF SaleSeesSeat
<1>4. \A r \in Requests, s \in Inventory : Witness(r, s) => Witness(r, s)'
  BY <1>1 DEF Witness
<1> QED BY <1>1, <1>2, <1>3, <1>4 DEF HeldHasWitness

\* Time: a hold past its expiresAt is still unreleased.
LEMMA TimePassesHeld == ASSUME HeldInv, TimePasses PROVE HeldInv'
<1>1. UNCHANGED <<inv, hold, job, pc, wInv, rows, blind>>
  BY DEF TimePasses, LockLapses, HoldLapses, env
<1> QED BY <1>1 DEF HeldInv, SaleSeesSeat, HeldHasWitness, Witness

\* A restart: no transaction is left.
LEMMA CrashHeld == ASSUME IInv, HeldInv, Crash PROVE HeldInv'
<1> USE DEF HeldInv, db
<1>1. UNCHANGED <<inv, hold, blind>> /\ \A q \in Procs : pc'[q] \in Ended \cup {"idle", "next"}
  BY WorkerAssumption DEF Crash, Fault, IInv, TypeOK, Running, Ended, Committed
<1> QED BY <1>1 DEF SaleSeesSeat, HeldHasWitness, Witness, Ended

\* The expiry worker between two transactions of its own.
LEMMA WorkerHeld ==
    ASSUME IInv, HeldInv, Scan \/ NextGroup PROVE HeldInv'
<1> USE DEF HeldInv, db, env
<1>1. /\ UNCHANGED <<inv, hold, wInv, rows, blind>>
      /\ pc'[Worker] \in {"idle", "next", "begin"}
  BY DEF Scan, NextGroup, Goto, IInv, TypeOK, Procs
<1>2. \A q \in Procs : q # Worker => pc'[q] = pc[q] /\ job'[q] = job[q]
  BY DEF Scan, NextGroup, Goto, IInv, TypeOK
<1>3. SaleSeesSeat'
  BY <1>1, <1>2 DEF SaleSeesSeat
<1>4. \A r \in Requests, s \in Inventory : Witness(r, s) => Witness(r, s)'
  BY <1>1, <1>2 DEF Witness
<1> QED BY <1>1, <1>3, <1>4 DEF HeldHasWitness

\* A rollback is quiet.
LEMMA RollbackQuiet ==
    ASSUME NEW p \in Procs, IInv, pc[p] \in InTx, Rollback(p), UNCHANGED blind
    PROVE  Quiet(p)
BY DEF Quiet, Rollback, AfterRollback, EndsAs, Goto, IInv, TypeOK, db

\* The steps of a handler preserve HeldInv.
LEMMA HandlerStepHeld ==
    ASSUME NEW p \in Procs, IInv, HeldInv, HandlerStep(p) PROVE HeldInv'
<1> USE DEF IInv, TypeOK, Goto, db, redis, env, Quiet
<1>1. CASE LockSeat(p) \/ LockSeatsEnd(p) \/ UnlockSeat(p)
  <2>1. Quiet(p)
    BY <1>1 DEF LockSeat, LockSeatsEnd, UnlockSeat
  <2> QED BY <2>1, QuietHeld
<1>2. CASE GetLock(p) \/ DelLock(p)
  <2>1. Quiet(p)
    BY <1>2 DEF GetLock, DelLock
  <2> QED BY <2>1, QuietHeld
<1>3. CASE BeginTx(p)
  <2>1. Quiet(p)
    BY <1>3 DEF BeginTx, After
  <2> QED BY <2>1, QuietHeld
<1>4. CASE ReadInventory(p)
  <2>1. CASE Rollback(p)
    BY <1>4, <2>1, RollbackQuiet, QuietHeld DEF ReadInventory, InTx
  <2>2. CASE ~ Rollback(p)
    <3>1. Quiet(p)
      BY <1>4, <2>2 DEF ReadInventory, After, OpsInv, OpsOf
    <3> QED BY <3>1, QuietHeld
  <2> QED BY <2>1, <2>2
<1>5. CASE SaveInventory(p)
  BY <1>5, RollbackQuiet, QuietHeld, SaveInventoryHeld DEF SaveInventory, InTx
<1>6. CASE ReadHolds(p) \/ SaveHolds(p) \/ Commit(p) \/ PutSoldSeats(p)
  BY <1>6, ReadHoldsHeld, SaveHoldsHeld, CommitHeld, PutSoldSeatsHeld
<1>7. CASE UpdateMultipleSeatsStatus(p)
  <2>1. Quiet(p)
    BY <1>7 DEF UpdateMultipleSeatsStatus, EndsAs
  <2> QED BY <2>1, QuietHeld
<1>8. CASE ReadCache(p) \/ RebuildRead(p) \/ RebuildWrite(p)
  <2>1. Quiet(p)
    BY <1>8 DEF ReadCache, RebuildRead, RebuildWrite
  <2> QED BY <2>1, QuietHeld
<1>9. CASE DeadlockAbort(p)
  <2>1. pc[p] \in InTx
    BY <1>9 DEF DeadlockAbort, WaitsFor, InTx
  <2> QED BY <1>9, <2>1, RollbackQuiet, QuietHeld DEF DeadlockAbort
<1> QED
  BY <1>1, <1>2, <1>3, <1>4, <1>5, <1>6, <1>7, <1>8, <1>9, HandlerStep(p) DEF HandlerStep

\* The failures of a handler are quiet.
LEMMA HandlerErrorHeld ==
    ASSUME NEW p \in Procs, IInv, HeldInv, HandlerError(p) PROVE HeldInv'
<1> USE DEF IInv, TypeOK, Goto, db, redis, EndsAs, Fault
<1>1. CASE ConnectError(p)
  <2>1. Quiet(p)
    BY <1>1 DEF ConnectError, Quiet
  <2> QED BY <2>1, QuietHeld
<1>2. CASE TxError(p)
  BY <1>2, RollbackQuiet, QuietHeld DEF TxError
<1>3. CASE RedisError(p)
  <2>1. Quiet(p)
    BY <1>3 DEF RedisError, Quiet
  <2> QED BY <2>1, QuietHeld
<1>4. CASE CacheWriteLost(p)
  <2>1. Quiet(p)
    BY <1>4 DEF CacheWriteLost, Quiet
  <2> QED BY <2>1, QuietHeld
<1> QED BY <1>1, <1>2, <1>3, <1>4 DEF HandlerError

\* Every step preserves HeldInv.
LEMMA NextHeld ==
    ASSUME IInv, HeldInv, [Next]_vars PROVE HeldInv'
<1>1. CASE UNCHANGED vars
  BY <1>1 DEF vars, HeldInv, SaleSeesSeat, HeldHasWitness, Witness
<1>2. ASSUME NEW r \in Requests, Begin(r) PROVE HeldInv'
  BY <1>2, BeginHeld
<1>3. ASSUME NEW p \in Procs, HandlerStep(p) \/ HandlerError(p) PROVE HeldInv'
  BY <1>3, HandlerStepHeld, HandlerErrorHeld
<1> QED BY <1>1, <1>2, <1>3, WorkerHeld, TimePassesHeld, CrashHeld DEF Next

\* No seat is shown as held without a hold that can still end, in any
\* interleaving of hold, cancel, sale and expiry transactions with failures,
\* restarts, retried sales and resales, but for a seat whose fresh hold a
\* repeated markAsSold released without having written the seat.
THEOREM NoOrphanedHeldHolds == Spec => []NoOrphanedHeld
<1>1. Spec => []IInv
  BY InitIInv, NextIInv, PTL DEF Spec
<1>2. IInv /\ HeldInv /\ [Next]_vars => HeldInv'
  BY NextHeld
<1>3. HeldInv => NoOrphanedHeld
  BY DEF HeldInv, HeldHasWitness, Witness, NoOrphanedHeld
<1> QED BY <1>1, <1>2, <1>3, InitHeld, PTL DEF Spec
=============================================================================
