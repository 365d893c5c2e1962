------------------------------ MODULE Booking ------------------------------
(***************************************************************************)
(* How a held seat becomes a paid booking: createBooking of booking-       *)
(* service (booking/booking-orchestrator.service.ts) and initiatePayment   *)
(* of payment-service (payment/payment.service.ts), which it calls over    *)
(* gRPC.  The seat-inventory service appears with whole operations on one  *)
(* seat (SeatInventory has their steps), the outbox worker with the one    *)
(* call that concerns the seat (Fulfilment has the rest).                  *)
(*                                                                         *)
(* A handler takes one step per await.  The payment handler runs on when   *)
(* its caller has gone.                                                    *)
(***************************************************************************)
EXTENDS Naturals

CONSTANTS
    Requests,          \* createBooking requests, each used once
    Users,
    Keys,              \* payment idempotency keys
    None,              \* no user, no key, no booking
    FaultKinds,        \* calls that may fail, services that may restart: some of
                       \* "rpc", "db", "gateway", "booking", "payment"
    MaxFaults,         \* bound on failures and restarts
    MaxHolds           \* bound on holds of the seat

ASSUME NoneAssumption == None \notin Users /\ None \notin Keys /\ None \notin Requests
ASSUME BoundsAssumption == MaxFaults \in Nat /\ MaxHolds \in Nat

VARIABLES
    \* seat-inventory service
    seat,     \* status of the inventory row
    lock,     \* user of the Redis lock
    hold,     \* the user's unreleased hold rows, in time or past expiresAt
    \* booking-service, PostgreSQL
    booking,  \* status of the booking row a request has made
    outbox,   \* its seats.mark_sold entry
    \* payment-service, PostgreSQL, and the gateway
    payment,  \* the payment row of an idempotency key
    charged,  \* keys the gateway has taken money for
    \* memory: createBooking, and the initiatePayment call it makes
    user, key, pc,
    cpc, waiting, reply,
    \* environment
    faults, holds,
    \* history, read by properties only
    freed     \* requests under which the seat was made available

seats == <<seat, lock, hold, freed>>
rows == <<booking, outbox>>
money == <<payment, charged>>
calls == <<cpc, waiting, reply>>
env == <<faults, holds>>
vars == <<seat, lock, hold, booking, outbox, payment, charged, user, key, pc,
          cpc, waiting, reply, faults, holds, freed>>

BookingStatuses == {"none", "pending", "confirmed", "cancelled"}
PaymentStatuses == {"none", "initiated", "processing", "succeeded", "failed"}
Replies == PaymentStatuses \cup {"error"}
Steps == {"idle", "verify", "persist", "pay", "await", "confirm", "cancel",
          "release", "catch", "done", "failed"}
CallSteps == {"none", "find", "insert", "processing", "charge", "save", "undo",
              "answer", "over"}
Ended == {"done", "failed"}

TypeOK ==
    /\ seat \in {"available", "held", "sold"}
    /\ lock \in Users \cup {None}
    /\ hold \in [Users -> SUBSET {"live", "expired"}]
    /\ booking \in [Requests -> BookingStatuses]
    /\ outbox \in [Requests -> {"none", "pending", "completed"}]
    /\ payment \in [Keys -> PaymentStatuses]
    /\ charged \in SUBSET Keys
    /\ user \in [Requests -> Users \cup {None}]
    /\ key \in [Requests -> Keys \cup {None}]
    /\ pc \in [Requests -> Steps]
    /\ cpc \in [Requests -> CallSteps]
    /\ waiting \in SUBSET Requests
    /\ reply \in [Requests -> Replies]
    /\ faults \in 0..MaxFaults
    /\ holds \in 0..MaxHolds
    /\ freed \in SUBSET Requests

Init ==
    /\ seat = "available"
    /\ lock = None
    /\ hold = [u \in Users |-> {}]
    /\ booking = [r \in Requests |-> "none"]
    /\ outbox = [r \in Requests |-> "none"]
    /\ payment = [k \in Keys |-> "none"]
    /\ charged = {}
    /\ user = [r \in Requests |-> None]
    /\ key = [r \in Requests |-> None]
    /\ pc = [r \in Requests |-> "idle"]
    /\ cpc = [r \in Requests |-> "none"]
    /\ waiting = {}
    /\ reply = [r \in Requests |-> "none"]
    /\ faults = 0 /\ holds = 0 /\ freed = {}

Fault(kind) ==
    /\ kind \in FaultKinds
    /\ faults < MaxFaults
    /\ faults' = faults + 1
NoFault == faults' = faults

Goto(r, step) == pc' = [pc EXCEPT ![r] = step]

-----------------------------------------------------------------------------
(* The seat-inventory service, operation by operation *)

\* Mutant: the inventory row is not looked at.
HoldAnySeat(u) ==
    /\ holds < MaxHolds
    /\ lock = None
    /\ lock' = u /\ seat' = "held"
    /\ hold' = [hold EXCEPT ![u] = @ \cup {"live"}]
    /\ holds' = holds + 1
    /\ UNCHANGED <<rows, money, user, key, pc, calls, faults, freed>>

HoldSeats(u) ==
    /\ holds < MaxHolds
    /\ lock = None /\ seat = "available"
    /\ lock' = u /\ seat' = "held"
    /\ hold' = [hold EXCEPT ![u] = @ \cup {"live"}]
    /\ holds' = holds + 1
    /\ UNCHANGED <<rows, money, user, key, pc, calls, faults, freed>>

\* The ten minutes are over: the lock is older than the row and goes first.
LockLapses ==
    /\ lock' = None
    /\ UNCHANGED <<seat, hold, rows, money, user, key, pc, calls, env, freed>>

HoldExpires(u) ==
    /\ "live" \in hold[u] /\ lock # u
    /\ hold' = [hold EXCEPT ![u] = {"expired"}]
    /\ UNCHANGED <<seat, lock, rows, money, user, key, pc, calls, env, freed>>

\* releaseSeats of HoldService for u, whoever holds the seat or has bought it.
FreeSeat(u) ==
    /\ seat' = "available"
    /\ hold' = [hold EXCEPT ![u] = {}]
    /\ lock' = IF lock = u THEN None ELSE lock
    /\ freed' = freed \cup {r \in Requests : pc[r] \notin {"idle", "failed"}}

ExpiryWorker(u) ==
    /\ "expired" \in hold[u]
    /\ FreeSeat(u)
    /\ UNCHANGED <<rows, money, user, key, pc, calls, env>>

\* DELETE /holds/:eventId, which asks for no hold, lock or status.
UserCancels(u) ==
    /\ FreeSeat(u)
    /\ UNCHANGED <<rows, money, user, key, pc, calls, env>>

\* The outbox worker delivers seats.mark_sold.
MarkSeatsAsSold(r) ==
    /\ outbox[r] = "pending"
    /\ seat' = "sold"
    /\ hold' = [hold EXCEPT ![user[r]] = {}]
    /\ lock' = IF lock = user[r] THEN None ELSE lock
    /\ outbox' = [outbox EXCEPT ![r] = "completed"]
    /\ UNCHANGED <<booking, money, user, key, pc, calls, env, freed>>

-----------------------------------------------------------------------------
(* BookingOrchestratorService.createBooking *)

\* What getSeatsByEvent shows of the seat, and what verifyHold says.
GetSeatsByEvent == seat
Verified(u) == lock = u

\* The seat must be held, by whomever.
CreateBooking(r) ==
    /\ pc[r] = "idle"
    /\ \E u \in Users, k \in Keys :
         /\ user' = [user EXCEPT ![r] = u]
         /\ key' = [key EXCEPT ![r] = k]
    /\ \/ Goto(r, IF GetSeatsByEvent = "held" THEN "verify" ELSE "failed") /\ NoFault
       \/ Goto(r, "failed") /\ Fault("rpc")
    /\ UNCHANGED <<seats, rows, money, calls, holds>>

VerifyHold(r) ==
    /\ pc[r] = "verify"
    /\ \/ Goto(r, IF Verified(user[r]) THEN "persist" ELSE "failed") /\ NoFault
       \/ Goto(r, "failed") /\ Fault("rpc")
    /\ UNCHANGED <<seats, rows, money, user, key, calls, holds>>

\* One transaction; the find that follows it may fail too, and leaves the
\* booking pending.
PersistBooking(r) ==
    /\ pc[r] = "persist"
    /\ \/ booking' = [booking EXCEPT ![r] = "pending"] /\ Goto(r, "pay") /\ NoFault
       \/ booking' = [booking EXCEPT ![r] = "pending"] /\ Goto(r, "failed") /\ Fault("db")
       \/ booking' = booking /\ Goto(r, "failed") /\ Fault("db")
    /\ UNCHANGED <<seats, outbox, money, user, key, calls, holds>>

CallInitiatePayment(r) ==
    /\ pc[r] = "pay"
    /\ \/ /\ cpc' = [cpc EXCEPT ![r] = "find"]
          /\ waiting' = waiting \cup {r}
          /\ Goto(r, "await")
          /\ NoFault
       \/ UNCHANGED <<cpc, waiting>> /\ Goto(r, "catch") /\ Fault("rpc")
    /\ UNCHANGED <<seats, rows, money, user, key, reply, holds>>

\* Mutant: only a failed payment cancels.
AfterAnyPayment(status) ==
    CASE status = "failed" -> "cancel"
      [] status = "error"  -> "catch"
      [] OTHER             -> "confirm"

\* Anything but a succeeded payment, one in progress included, cancels.
AfterPayment(status) ==
    CASE status = "succeeded" -> "confirm"
      [] status = "error"     -> "catch"
      [] OTHER                -> "cancel"

PaymentAnswered(r) ==
    /\ cpc[r] = "answer"
    /\ cpc' = [cpc EXCEPT ![r] = "over"]
    /\ waiting' = waiting \ {r}
    /\ IF r \in waiting THEN Goto(r, AfterPayment(reply[r])) ELSE pc' = pc
    /\ UNCHANGED <<seats, rows, money, user, key, reply, env>>

\* The connection breaks while createBooking waits.
PaymentCallLost(r) ==
    /\ r \in waiting
    /\ Fault("rpc")
    /\ waiting' = waiting \ {r}
    /\ Goto(r, "catch")
    /\ UNCHANGED <<seats, rows, money, user, key, cpc, reply, holds>>

\* confirmBookingWithOutbox: one transaction.
ConfirmBookingWithOutbox(r) ==
    /\ pc[r] = "confirm"
    /\ \/ /\ booking' = [booking EXCEPT ![r] = "confirmed"]
          /\ outbox' = [outbox EXCEPT ![r] = "pending"]
          /\ Goto(r, "done")
          /\ NoFault
       \/ UNCHANGED rows /\ Goto(r, "catch") /\ Fault("db")
    /\ UNCHANGED <<seats, money, user, key, calls, holds>>

\* Mutant: the status of the payment is stored as the booking's.
CancelWrongEnum(r) ==
    /\ pc[r] = "cancel"
    /\ booking' = [booking EXCEPT ![r] = "failed"]
    /\ Goto(r, "release")
    /\ UNCHANGED <<seats, outbox, money, user, key, calls, env>>

CancelUnpaid(r) ==
    /\ pc[r] = "cancel"
    /\ \/ booking' = [booking EXCEPT ![r] = "cancelled"] /\ Goto(r, "release") /\ NoFault
       \/ booking' = booking /\ Goto(r, "catch") /\ Fault("db")
    /\ UNCHANGED <<seats, outbox, money, user, key, calls, holds>>

\* The success flag of the answer, FALSE when the seat was not freed, is not
\* looked at.
ReleaseSeats(r) ==
    /\ pc[r] = "release"
    /\ \/ FreeSeat(user[r]) /\ Goto(r, "done") /\ NoFault
       \/ UNCHANGED seats /\ Goto(r, "done") /\ Fault("db")
       \/ FreeSeat(user[r]) /\ Goto(r, "catch") /\ Fault("rpc")
       \/ UNCHANGED seats /\ Goto(r, "catch") /\ Fault("rpc")
    /\ UNCHANGED <<rows, money, user, key, calls, holds>>

\* Any error after the booking was stored cancels it; the seat stays held.
CatchError(r) ==
    /\ pc[r] = "catch"
    /\ \/ booking' = [booking EXCEPT ![r] = "cancelled"] /\ NoFault
       \/ booking' = booking /\ Fault("db")
    /\ Goto(r, "failed")
    /\ UNCHANGED <<seats, outbox, money, user, key, calls, holds>>

-----------------------------------------------------------------------------
(* PaymentService.initiatePayment *)

CallGoto(r, step) == cpc' = [cpc EXCEPT ![r] = step]
Reply(r, status) == reply' = [reply EXCEPT ![r] = status]
SetPayment(r, status) == payment' = [payment EXCEPT ![key[r]] = status]

\* A payment with the key is returned as it is, whatever its status or booking.
FindPayment(r) ==
    /\ cpc[r] = "find"
    /\ IF payment[key[r]] # "none"
         THEN CallGoto(r, "answer") /\ Reply(r, payment[key[r]])
         ELSE CallGoto(r, "insert") /\ reply' = reply
    /\ UNCHANGED <<seats, rows, money, user, key, pc, waiting, env>>

\* The key is unique: the second insert throws.
InsertPayment(r) ==
    /\ cpc[r] = "insert"
    /\ \/ /\ payment[key[r]] = "none"
          /\ SetPayment(r, "initiated")
          /\ CallGoto(r, "processing")
          /\ reply' = reply /\ NoFault
       \/ /\ (payment[key[r]] # "none" /\ NoFault) \/ Fault("db")
          /\ payment' = payment
          /\ CallGoto(r, "answer")
          /\ Reply(r, "error")
    /\ UNCHANGED <<seats, rows, charged, user, key, pc, waiting, holds>>

SaveProcessing(r) ==
    /\ cpc[r] = "processing"
    /\ \/ SetPayment(r, "processing") /\ CallGoto(r, "charge") /\ NoFault
       \/ payment' = payment /\ CallGoto(r, "undo") /\ Fault("db")
    /\ UNCHANGED <<seats, rows, charged, user, key, pc, waiting, reply, holds>>

\* The gateway takes the money or declines.  An error of the calls, which may
\* come after the money was taken, is reported like a refusal.
Charge(r) ==
    /\ cpc[r] = "charge"
    /\ CallGoto(r, "save")
    /\ \/ charged' = charged \cup {key[r]} /\ Reply(r, "succeeded") /\ NoFault
       \/ charged' = charged /\ Reply(r, "failed") /\ NoFault
       \/ charged' = charged \cup {key[r]} /\ Reply(r, "failed") /\ Fault("gateway")
    /\ UNCHANGED <<seats, rows, payment, user, key, pc, waiting, holds>>

SavePayment(r) ==
    /\ cpc[r] = "save"
    /\ \/ SetPayment(r, reply[r]) /\ CallGoto(r, "answer") /\ NoFault
       \/ payment' = payment /\ CallGoto(r, "undo") /\ Fault("db")
    /\ UNCHANGED <<seats, rows, charged, user, key, pc, waiting, reply, holds>>

\* The catch block: the payment has failed, whatever the gateway did.
PaymentError(r) ==
    /\ cpc[r] = "undo"
    /\ \/ SetPayment(r, "failed") /\ NoFault
       \/ payment' = payment /\ Fault("db")
    /\ CallGoto(r, "answer")
    /\ Reply(r, "error")
    /\ UNCHANGED <<seats, rows, charged, user, key, pc, waiting, holds>>

-----------------------------------------------------------------------------

\* booking-service restarts; a booking whose handler is gone stays as it is.
BookingServiceRestarts ==
    /\ Fault("booking")
    /\ pc' = [r \in Requests |-> IF pc[r] \in {"idle", "done"} THEN pc[r] ELSE "failed"]
    /\ waiting' = {}
    /\ UNCHANGED <<seats, rows, money, user, key, cpc, reply, holds>>

\* payment-service restarts; its callers see an error.
PaymentServiceRestarts ==
    /\ Fault("payment")
    /\ pc' = [r \in Requests |-> IF pc[r] = "await" THEN "catch" ELSE pc[r]]
    /\ cpc' = [r \in Requests |-> IF cpc[r] = "none" THEN "none" ELSE "over"]
    /\ waiting' = {}
    /\ UNCHANGED <<seats, rows, money, user, key, reply, holds>>

BookingStep(r) ==
    \/ CreateBooking(r) \/ VerifyHold(r) \/ PersistBooking(r)
    \/ CallInitiatePayment(r) \/ PaymentAnswered(r) \/ PaymentCallLost(r)
    \/ ConfirmBookingWithOutbox(r) \/ CancelUnpaid(r) \/ ReleaseSeats(r)
    \/ CatchError(r)

PaymentStep(r) ==
    \/ FindPayment(r) \/ InsertPayment(r) \/ SaveProcessing(r) \/ Charge(r)
    \/ SavePayment(r) \/ PaymentError(r)

Next ==
    \/ \E u \in Users : HoldSeats(u) \/ HoldExpires(u) \/ ExpiryWorker(u) \/ UserCancels(u)
    \/ LockLapses
    \/ \E r \in Requests : BookingStep(r) \/ PaymentStep(r) \/ MarkSeatsAsSold(r)
    \/ BookingServiceRestarts
    \/ PaymentServiceRestarts

Spec == Init /\ [][Next]_vars

-----------------------------------------------------------------------------
(* Properties *)

\* No booking is confirmed without money: the answer passes from the gateway
\* through two services, and a payment found by its key may belong to another
\* request (payment.service.ts 33-42, booking-orchestrator.service.ts 130).
ConfirmedIsCharged ==
    \A r \in Requests : booking[r] = "confirmed" => key[r] \in charged

\* No double booking, as far as the code goes: of two confirmed bookings of a
\* seat by different buyers, one has had the seat made available under it, after
\* createBooking had seen it held, by the expiry worker, a cancelled hold or
\* the release of a failed payment.  Neither lapsing locks nor expired rows, lost
\* answers, restarts or late sales are enough: nothing looks at the seat again
\* after verifyHold (booking-orchestrator.service.ts 83-136), so this rests on
\* holdSeats asking for the lock and for the status (hold.service.ts 31-62).
NoDoubleBooking ==
    \A q, r \in Requests :
        booking[q] = "confirmed" /\ booking[r] = "confirmed" /\ user[q] # user[r] =>
            q \in freed \/ r \in freed

\* README.md 382: payment is "Strong + Idempotent": once nothing runs for it
\* any more, a booking that was cancelled has not been paid.
CancelledIsUnpaid ==
    \A r \in Requests :
        booking[r] = "cancelled" /\ pc[r] \in Ended /\ cpc[r] \in {"none", "over"}
            => key[r] \notin charged
=============================================================================
