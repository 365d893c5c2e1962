--------------------------- MODULE BookingProofs ---------------------------
(***************************************************************************)
(* Proofs about Booking: type correctness, that a confirmed booking has    *)
(* been paid, and that two buyers have confirmed bookings of a seat only   *)
(* when the seat was made available under one of them.                     *)
(***************************************************************************)
EXTENDS Booking, TLAPS

\* A request that has not begun has left nothing, one that has has a user, a
\* key; it waits only where it awaits, and only a verdict is saved.
Begun ==
    \A r \in Requests :
        /\ pc[r] = "idle" => /\ user[r] = None /\ booking[r] = "none"
                             /\ outbox[r] = "none" /\ cpc[r] = "none"
                             /\ reply[r] = "none"
        /\ pc[r] # "idle" => user[r] \in Users /\ key[r] \in Keys
        /\ r \in waiting => pc[r] = "await"
        /\ cpc[r] = "save" => reply[r] \in {"succeeded", "failed"}

\* Whatever says that a key has been paid is right.
Paid ==
    /\ \A k \in Keys : payment[k] = "succeeded" => k \in charged
    /\ \A r \in Requests :
         /\ reply[r] = "succeeded" => key[r] \in charged
         /\ pc[r] = "confirm" => key[r] \in charged
         /\ booking[r] = "confirmed" => key[r] \in charged

PayInv == TypeOK /\ Begun /\ Paid

\* A request under way or done that has not had the seat made available under
\* it; past verifyHold it counts on having the seat.
InForce(r) == pc[r] \notin {"idle", "failed"} /\ r \notin freed
Past(r) == InForce(r) /\ pc[r] # "verify"

\* So the seat is still taken, nobody else has locked it since, and all who
\* count on it are one buyer.
SeatInv ==
    /\ \A r \in Requests : InForce(r) => seat # "available"
    /\ \A r \in Requests : Past(r) => lock \in {user[r], None}
    /\ \A q, r \in Requests : Past(q) /\ Past(r) => user[q] = user[r]
    /\ \A r \in Requests : booking[r] = "confirmed" => pc[r] = "done"

-----------------------------------------------------------------------------
(* Every step keeps PayInv. *)

LEMMA CreateBookingPay == ASSUME PayInv, NEW r \in Requests, CreateBooking(r) PROVE PayInv'
<1>1. TypeOK'
  BY BoundsAssumption DEF PayInv, Begun, TypeOK, BookingStatuses, PaymentStatuses, Replies,
     Steps, CallSteps, Ended, CreateBooking, GetSeatsByEvent, Goto, NoFault, Fault, seats, rows, money,
     calls, env
<1>2. Begun'
  BY NoneAssumption DEF PayInv, Begun, TypeOK, BookingStatuses, PaymentStatuses, Replies,
     Steps, CallSteps, Ended, CreateBooking, GetSeatsByEvent, Goto, NoFault, Fault, seats, rows, money,
     calls, env
<1>3. Paid'
  BY DEF PayInv, Begun, Paid, TypeOK, BookingStatuses, PaymentStatuses, Replies, Steps,
     CallSteps, Ended, CreateBooking, GetSeatsByEvent, Goto, NoFault, Fault, seats, rows, money, calls, env
<1> QED BY <1>1, <1>2, <1>3 DEF PayInv

LEMMA VerifyHoldPay == ASSUME PayInv, NEW r \in Requests, VerifyHold(r) PROVE PayInv'
<1>1. TypeOK'
  BY BoundsAssumption DEF PayInv, Begun, TypeOK, BookingStatuses, PaymentStatuses, Replies,
     Steps, CallSteps, Ended, VerifyHold, Verified, Goto, NoFault, Fault, seats, rows,
     money, calls
<1>2. Begun'
  BY NoneAssumption DEF PayInv, Begun, TypeOK, BookingStatuses, PaymentStatuses, Replies,
     Steps, CallSteps, Ended, VerifyHold, Verified, Goto, NoFault, Fault, seats, rows,
     money, calls
<1>3. Paid'
  BY DEF PayInv, Begun, Paid, TypeOK, BookingStatuses, PaymentStatuses, Replies, Steps,
     CallSteps, Ended, VerifyHold, Verified, Goto, NoFault, Fault, seats, rows, money,
     calls
<1> QED BY <1>1, <1>2, <1>3 DEF PayInv

LEMMA PersistBookingPay == ASSUME PayInv, NEW r \in Requests, PersistBooking(r) PROVE PayInv'
<1>1. TypeOK'
  BY BoundsAssumption DEF PayInv, Begun, TypeOK, BookingStatuses, PaymentStatuses, Replies,
     Steps, CallSteps, Ended, PersistBooking, Goto, NoFault, Fault, seats,
     money, calls
<1>2. Begun'
  BY NoneAssumption DEF PayInv, Begun, TypeOK, BookingStatuses, PaymentStatuses, Replies,
     Steps, CallSteps, Ended, PersistBooking, Goto, NoFault, Fault, seats,
     money, calls
<1>3. Paid'
  BY DEF PayInv, Begun, Paid, TypeOK, BookingStatuses, PaymentStatuses, Replies, Steps,
     CallSteps, Ended, PersistBooking, Goto, NoFault, Fault, seats, money,
     calls
<1> QED BY <1>1, <1>2, <1>3 DEF PayInv

LEMMA CallInitiatePaymentPay == ASSUME PayInv, NEW r \in Requests, CallInitiatePayment(r) PROVE PayInv'
<1>1. TypeOK'
  BY BoundsAssumption DEF PayInv, Begun, TypeOK, BookingStatuses, PaymentStatuses, Replies,
     Steps, CallSteps, Ended, CallInitiatePayment, Goto, NoFault, Fault,
     seats, rows, money
<1>2. Begun'
  BY NoneAssumption DEF PayInv, Begun, TypeOK, BookingStatuses, PaymentStatuses, Replies,
     Steps, CallSteps, Ended, CallInitiatePayment, Goto, NoFault, Fault,
     seats, rows, money
<1>3. Paid'
  BY DEF PayInv, Begun, Paid, TypeOK, BookingStatuses, PaymentStatuses, Replies, Steps,
     CallSteps, Ended, CallInitiatePayment, Goto, NoFault, Fault, seats,
     rows, money
<1> QED BY <1>1, <1>2, <1>3 DEF PayInv

LEMMA PaymentAnsweredPay == ASSUME PayInv, NEW r \in Requests, PaymentAnswered(r) PROVE PayInv'
<1>1. TypeOK'
  BY BoundsAssumption DEF PayInv, Begun, TypeOK, BookingStatuses, PaymentStatuses, Replies,
     Steps, CallSteps, Ended, PaymentAnswered, Goto, AfterPayment, seats,
     rows, money, env
<1>2. Begun'
  BY NoneAssumption DEF PayInv, Begun, TypeOK, BookingStatuses, PaymentStatuses, Replies,
     Steps, CallSteps, Ended, PaymentAnswered, Goto, AfterPayment, seats,
     rows, money, env
<1>3. Paid'
  BY DEF PayInv, Begun, Paid, TypeOK, BookingStatuses, PaymentStatuses, Replies, Steps,
     CallSteps, Ended, PaymentAnswered, Goto, AfterPayment, seats, rows,
     money, env
<1> QED BY <1>1, <1>2, <1>3 DEF PayInv

LEMMA PaymentCallLostPay == ASSUME PayInv, NEW r \in Requests, PaymentCallLost(r) PROVE PayInv'
<1>1. TypeOK'
  BY BoundsAssumption DEF PayInv, Begun, TypeOK, BookingStatuses, PaymentStatuses, Replies,
     Steps, CallSteps, Ended, PaymentCallLost, Goto, Fault, seats, rows,
     money
<1>2. Begun'
  BY NoneAssumption DEF PayInv, Begun, TypeOK, BookingStatuses, PaymentStatuses, Replies,
     Steps, CallSteps, Ended, PaymentCallLost, Goto, Fault, seats, rows,
     money
<1>3. Paid'
  BY DEF PayInv, Begun, Paid, TypeOK, BookingStatuses, PaymentStatuses, Replies, Steps,
     CallSteps, Ended, PaymentCallLost, Goto, Fault, seats, rows, money
<1> QED BY <1>1, <1>2, <1>3 DEF PayInv

LEMMA ConfirmBookingWithOutboxPay == ASSUME PayInv, NEW r \in Requests, ConfirmBookingWithOutbox(r) PROVE PayInv'
<1>1. TypeOK'
  BY BoundsAssumption DEF PayInv, Begun, TypeOK, BookingStatuses, PaymentStatuses, Replies,
     Steps, CallSteps, Ended, ConfirmBookingWithOutbox, Goto, NoFault,
     Fault, seats, rows, money, calls
<1>2. Begun'
  BY NoneAssumption DEF PayInv, Begun, TypeOK, BookingStatuses, PaymentStatuses, Replies,
     Steps, CallSteps, Ended, ConfirmBookingWithOutbox, Goto, NoFault,
     Fault, seats, rows, money, calls
<1>3. Paid'
  BY DEF PayInv, Begun, Paid, TypeOK, BookingStatuses, PaymentStatuses, Replies, Steps,
     CallSteps, Ended, ConfirmBookingWithOutbox, Goto, NoFault, Fault,
     seats, rows, money, calls
<1> QED BY <1>1, <1>2, <1>3 DEF PayInv

LEMMA CancelUnpaidPay == ASSUME PayInv, NEW r \in Requests, CancelUnpaid(r) PROVE PayInv'
<1>1. TypeOK'
  BY BoundsAssumption DEF PayInv, Begun, TypeOK, BookingStatuses, PaymentStatuses, Replies,
     Steps, CallSteps, Ended, CancelUnpaid, Goto, NoFault, Fault, seats,
     money, calls
<1>2. Begun'
  BY NoneAssumption DEF PayInv, Begun, TypeOK, BookingStatuses, PaymentStatuses, Replies,
     Steps, CallSteps, Ended, CancelUnpaid, Goto, NoFault, Fault, seats,
     money, calls
<1>3. Paid'
  BY DEF PayInv, Begun, Paid, TypeOK, BookingStatuses, PaymentStatuses, Replies, Steps,
     CallSteps, Ended, CancelUnpaid, Goto, NoFault, Fault, seats, money,
     calls
<1> QED BY <1>1, <1>2, <1>3 DEF PayInv

LEMMA ReleaseSeatsPay == ASSUME PayInv, NEW r \in Requests, ReleaseSeats(r) PROVE PayInv'
<1>1. TypeOK'
  BY BoundsAssumption DEF PayInv, Begun, TypeOK, BookingStatuses, PaymentStatuses, Replies,
     Steps, CallSteps, Ended, ReleaseSeats, Goto, NoFault, Fault, FreeSeat,
     seats, rows, money, calls
<1>2. Begun'
  BY NoneAssumption DEF PayInv, Begun, TypeOK, BookingStatuses, PaymentStatuses, Replies,
     Steps, CallSteps, Ended, ReleaseSeats, Goto, NoFault, Fault, FreeSeat,
     seats, rows, money, calls
<1>3. Paid'
  BY DEF PayInv, Begun, Paid, TypeOK, BookingStatuses, PaymentStatuses, Replies, Steps,
     CallSteps, Ended, ReleaseSeats, Goto, NoFault, Fault, FreeSeat, seats,
     rows, money, calls
<1> QED BY <1>1, <1>2, <1>3 DEF PayInv

LEMMA CatchErrorPay == ASSUME PayInv, NEW r \in Requests, CatchError(r) PROVE PayInv'
<1>1. TypeOK'
  BY BoundsAssumption DEF PayInv, Begun, TypeOK, BookingStatuses, PaymentStatuses, Replies,
     Steps, CallSteps, Ended, CatchError, Goto, NoFault, Fault, seats,
     money, calls
<1>2. Begun'
  BY NoneAssumption DEF PayInv, Begun, TypeOK, BookingStatuses, PaymentStatuses, Replies,
     Steps, CallSteps, Ended, CatchError, Goto, NoFault, Fault, seats,
     money, calls
<1>3. Paid'
  BY DEF PayInv, Begun, Paid, TypeOK, BookingStatuses, PaymentStatuses, Replies, Steps,
     CallSteps, Ended, CatchError, Goto, NoFault, Fault, seats, money, calls
<1> QED BY <1>1, <1>2, <1>3 DEF PayInv

LEMMA FindPaymentPay == ASSUME PayInv, NEW r \in Requests, FindPayment(r) PROVE PayInv'
<1>1. TypeOK'
  BY BoundsAssumption DEF PayInv, Begun, TypeOK, BookingStatuses, PaymentStatuses, Replies,
     Steps, CallSteps, Ended, FindPayment, Reply, CallGoto, seats, rows,
     money, env
<1>2. Begun'
  BY NoneAssumption DEF PayInv, Begun, TypeOK, BookingStatuses, PaymentStatuses, Replies,
     Steps, CallSteps, Ended, FindPayment, Reply, CallGoto, seats, rows,
     money, env
<1>3. Paid'
  BY DEF PayInv, Begun, Paid, TypeOK, BookingStatuses, PaymentStatuses, Replies, Steps,
     CallSteps, Ended, FindPayment, Reply, CallGoto, seats, rows, money, env
<1> QED BY <1>1, <1>2, <1>3 DEF PayInv

LEMMA InsertPaymentPay == ASSUME PayInv, NEW r \in Requests, InsertPayment(r) PROVE PayInv'
<1>1. TypeOK'
  BY BoundsAssumption DEF PayInv, Begun, TypeOK, BookingStatuses, PaymentStatuses, Replies,
     Steps, CallSteps, Ended, InsertPayment, SetPayment, Reply, CallGoto,
     NoFault, Fault, seats, rows
<1>2. Begun'
  BY NoneAssumption DEF PayInv, Begun, TypeOK, BookingStatuses, PaymentStatuses, Replies,
     Steps, CallSteps, Ended, InsertPayment, SetPayment, Reply, CallGoto,
     NoFault, Fault, seats, rows
<1>3. Paid'
  BY DEF PayInv, Begun, Paid, TypeOK, BookingStatuses, PaymentStatuses, Replies, Steps,
     CallSteps, Ended, InsertPayment, SetPayment, Reply, CallGoto, NoFault,
     Fault, seats, rows
<1> QED BY <1>1, <1>2, <1>3 DEF PayInv

LEMMA SaveProcessingPay == ASSUME PayInv, NEW r \in Requests, SaveProcessing(r) PROVE PayInv'
<1>1. TypeOK'
  BY BoundsAssumption DEF PayInv, Begun, TypeOK, BookingStatuses, PaymentStatuses, Replies,
     Steps, CallSteps, Ended, SaveProcessing, SetPayment, CallGoto, NoFault,
     Fault, seats, rows
<1>2. Begun'
  BY NoneAssumption DEF PayInv, Begun, TypeOK, BookingStatuses, PaymentStatuses, Replies,
     Steps, CallSteps, Ended, SaveProcessing, SetPayment, CallGoto, NoFault,
     Fault, seats, rows
<1>3. Paid'
  BY DEF PayInv, Begun, Paid, TypeOK, BookingStatuses, PaymentStatuses, Replies, Steps,
     CallSteps, Ended, SaveProcessing, SetPayment, CallGoto, NoFault, Fault,
     seats, rows
<1> QED BY <1>1, <1>2, <1>3 DEF PayInv

LEMMA ChargePay == ASSUME PayInv, NEW r \in Requests, Charge(r) PROVE PayInv'
<1>1. TypeOK'
  BY BoundsAssumption DEF PayInv, Begun, TypeOK, BookingStatuses, PaymentStatuses, Replies,
     Steps, CallSteps, Ended, Charge, Reply, CallGoto, NoFault, Fault,
     seats, rows
<1>2. Begun'
  BY NoneAssumption DEF PayInv, Begun, TypeOK, BookingStatuses, PaymentStatuses, Replies,
     Steps, CallSteps, Ended, Charge, Reply, CallGoto, NoFault, Fault,
     seats, rows
<1>3. Paid'
  BY DEF PayInv, Begun, Paid, TypeOK, BookingStatuses, PaymentStatuses, Replies, Steps,
     CallSteps, Ended, Charge, Reply, CallGoto, NoFault, Fault, seats, rows
<1> QED BY <1>1, <1>2, <1>3 DEF PayInv

LEMMA SavePaymentPay == ASSUME PayInv, NEW r \in Requests, SavePayment(r) PROVE PayInv'
<1>1. TypeOK'
  BY BoundsAssumption DEF PayInv, Begun, TypeOK, BookingStatuses, PaymentStatuses, Replies,
     Steps, CallSteps, Ended, SavePayment, SetPayment, CallGoto, NoFault,
     Fault, seats, rows
<1>2. Begun'
  BY NoneAssumption DEF PayInv, Begun, TypeOK, BookingStatuses, PaymentStatuses, Replies,
     Steps, CallSteps, Ended, SavePayment, SetPayment, CallGoto, NoFault,
     Fault, seats, rows
<1>3. Paid'
  BY DEF PayInv, Begun, Paid, TypeOK, BookingStatuses, PaymentStatuses, Replies, Steps,
     CallSteps, Ended, SavePayment, SetPayment, CallGoto, NoFault, Fault,
     seats, rows
<1> QED BY <1>1, <1>2, <1>3 DEF PayInv

LEMMA PaymentErrorPay == ASSUME PayInv, NEW r \in Requests, PaymentError(r) PROVE PayInv'
<1>1. TypeOK'
  BY BoundsAssumption DEF PayInv, Begun, TypeOK, BookingStatuses, PaymentStatuses, Replies,
     Steps, CallSteps, Ended, PaymentError, SetPayment, Reply, CallGoto,
     NoFault, Fault, seats, rows
<1>2. Begun'
  BY NoneAssumption DEF PayInv, Begun, TypeOK, BookingStatuses, PaymentStatuses, Replies,
     Steps, CallSteps, Ended, PaymentError, SetPayment, Reply, CallGoto,
     NoFault, Fault, seats, rows
<1>3. Paid'
  BY DEF PayInv, Begun, Paid, TypeOK, BookingStatuses, PaymentStatuses, Replies, Steps,
     CallSteps, Ended, PaymentError, SetPayment, Reply, CallGoto, NoFault,
     Fault, seats, rows
<1> QED BY <1>1, <1>2, <1>3 DEF PayInv

LEMMA MarkSeatsAsSoldPay == ASSUME PayInv, NEW r \in Requests, MarkSeatsAsSold(r) PROVE PayInv'
<1>1. TypeOK'
  BY BoundsAssumption DEF PayInv, Begun, TypeOK, BookingStatuses, PaymentStatuses, Replies,
     Steps, CallSteps, Ended, MarkSeatsAsSold, money, calls, env
<1>2. Begun'
  BY NoneAssumption DEF PayInv, Begun, TypeOK, BookingStatuses, PaymentStatuses, Replies,
     Steps, CallSteps, Ended, MarkSeatsAsSold, money, calls, env
<1>3. Paid'
  BY DEF PayInv, Begun, Paid, TypeOK, BookingStatuses, PaymentStatuses, Replies, Steps,
     CallSteps, Ended, MarkSeatsAsSold, money, calls, env
<1> QED BY <1>1, <1>2, <1>3 DEF PayInv

LEMMA HoldSeatsPay == ASSUME PayInv, NEW u \in Users, HoldSeats(u) PROVE PayInv'
<1>1. TypeOK'
  BY BoundsAssumption DEF PayInv, Begun, TypeOK, BookingStatuses, PaymentStatuses, Replies,
     Steps, CallSteps, Ended, HoldSeats, rows, money, calls
<1>2. Begun'
  BY NoneAssumption DEF PayInv, Begun, TypeOK, BookingStatuses, PaymentStatuses, Replies,
     Steps, CallSteps, Ended, HoldSeats, rows, money, calls
<1>3. Paid'
  BY DEF PayInv, Begun, Paid, TypeOK, BookingStatuses, PaymentStatuses, Replies, Steps,
     CallSteps, Ended, HoldSeats, rows, money, calls
<1> QED BY <1>1, <1>2, <1>3 DEF PayInv

LEMMA HoldExpiresPay == ASSUME PayInv, NEW u \in Users, HoldExpires(u) PROVE PayInv'
<1>1. TypeOK'
  BY BoundsAssumption DEF PayInv, Begun, TypeOK, BookingStatuses, PaymentStatuses, Replies,
     Steps, CallSteps, Ended, HoldExpires, rows, money, calls, env
<1>2. Begun'
  BY NoneAssumption DEF PayInv, Begun, TypeOK, BookingStatuses, PaymentStatuses, Replies,
     Steps, CallSteps, Ended, HoldExpires, rows, money, calls, env
<1>3. Paid'
  BY DEF PayInv, Begun, Paid, TypeOK, BookingStatuses, PaymentStatuses, Replies, Steps,
     CallSteps, Ended, HoldExpires, rows, money, calls, env
<1> QED BY <1>1, <1>2, <1>3 DEF PayInv

LEMMA ExpiryWorkerPay == ASSUME PayInv, NEW u \in Users, ExpiryWorker(u) PROVE PayInv'
<1>1. TypeOK'
  BY BoundsAssumption DEF PayInv, Begun, TypeOK, BookingStatuses, PaymentStatuses, Replies,
     Steps, CallSteps, Ended, ExpiryWorker, FreeSeat, rows, money, calls,
     env
<1>2. Begun'
  BY NoneAssumption DEF PayInv, Begun, TypeOK, BookingStatuses, PaymentStatuses, Replies,
     Steps, CallSteps, Ended, ExpiryWorker, FreeSeat, rows, money, calls,
     env
<1>3. Paid'
  BY DEF PayInv, Begun, Paid, TypeOK, BookingStatuses, PaymentStatuses, Replies, Steps,
     CallSteps, Ended, ExpiryWorker, FreeSeat, rows, money, calls, env
<1> QED BY <1>1, <1>2, <1>3 DEF PayInv

LEMMA UserCancelsPay == ASSUME PayInv, NEW u \in Users, UserCancels(u) PROVE PayInv'
<1>1. TypeOK'
  BY BoundsAssumption DEF PayInv, Begun, TypeOK, BookingStatuses, PaymentStatuses, Replies,
     Steps, CallSteps, Ended, UserCancels, FreeSeat, rows, money, calls,
     env
<1>2. Begun'
  BY NoneAssumption DEF PayInv, Begun, TypeOK, BookingStatuses, PaymentStatuses, Replies,
     Steps, CallSteps, Ended, UserCancels, FreeSeat, rows, money, calls,
     env
<1>3. Paid'
  BY DEF PayInv, Begun, Paid, TypeOK, BookingStatuses, PaymentStatuses, Replies, Steps,
     CallSteps, Ended, UserCancels, FreeSeat, rows, money, calls, env
<1> QED BY <1>1, <1>2, <1>3 DEF PayInv

LEMMA LockLapsesPay == ASSUME PayInv, LockLapses PROVE PayInv'
<1>1. TypeOK'
  BY BoundsAssumption DEF PayInv, Begun, TypeOK, BookingStatuses, PaymentStatuses, Replies,
     Steps, CallSteps, Ended, LockLapses, rows, money, calls, env
<1>2. Begun'
  BY NoneAssumption DEF PayInv, Begun, TypeOK, BookingStatuses, PaymentStatuses, Replies,
     Steps, CallSteps, Ended, LockLapses, rows, money, calls, env
<1>3. Paid'
  BY DEF PayInv, Begun, Paid, TypeOK, BookingStatuses, PaymentStatuses, Replies, Steps,
     CallSteps, Ended, LockLapses, rows, money, calls, env
<1> QED BY <1>1, <1>2, <1>3 DEF PayInv

LEMMA BookingServiceRestartsPay == ASSUME PayInv, BookingServiceRestarts PROVE PayInv'
<1>1. TypeOK'
  BY BoundsAssumption DEF PayInv, Begun, TypeOK, BookingStatuses, PaymentStatuses, Replies,
     Steps, CallSteps, Ended, BookingServiceRestarts, Fault, seats, rows,
     money
<1>2. Begun'
  BY NoneAssumption DEF PayInv, Begun, TypeOK, BookingStatuses, PaymentStatuses, Replies,
     Steps, CallSteps, Ended, BookingServiceRestarts, Fault, seats, rows,
     money
<1>3. Paid'
  BY DEF PayInv, Begun, Paid, TypeOK, BookingStatuses, PaymentStatuses, Replies, Steps,
     CallSteps, Ended, BookingServiceRestarts, Fault, seats, rows, money
<1> QED BY <1>1, <1>2, <1>3 DEF PayInv

LEMMA PaymentServiceRestartsPay == ASSUME PayInv, PaymentServiceRestarts PROVE PayInv'
<1>1. TypeOK'
  BY BoundsAssumption DEF PayInv, Begun, TypeOK, BookingStatuses, PaymentStatuses, Replies,
     Steps, CallSteps, Ended, PaymentServiceRestarts, Fault, seats, rows,
     money
<1>2. Begun'
  BY NoneAssumption DEF PayInv, Begun, TypeOK, BookingStatuses, PaymentStatuses, Replies,
     Steps, CallSteps, Ended, PaymentServiceRestarts, Fault, seats, rows,
     money
<1>3. Paid'
  BY DEF PayInv, Begun, Paid, TypeOK, BookingStatuses, PaymentStatuses, Replies, Steps,
     CallSteps, Ended, PaymentServiceRestarts, Fault, seats, rows, money
<1> QED BY <1>1, <1>2, <1>3 DEF PayInv

LEMMA PayInit == Init => PayInv
BY NoneAssumption, BoundsAssumption DEF Init, PayInv, Begun, Paid, TypeOK,
   BookingStatuses, PaymentStatuses, Replies, Steps, CallSteps, Ended

LEMMA PayStutter == PayInv /\ UNCHANGED vars => PayInv'
BY DEF vars, PayInv, Begun, Paid, TypeOK, BookingStatuses, PaymentStatuses, Replies, Steps,
   CallSteps, Ended

LEMMA PayNext == PayInv /\ [Next]_vars => PayInv'
<1> SUFFICES ASSUME PayInv, [Next]_vars PROVE PayInv'
  OBVIOUS
<1>1. ASSUME NEW r \in Requests, CreateBooking(r) PROVE PayInv'
  BY <1>1, CreateBookingPay
<1>2. ASSUME NEW r \in Requests, VerifyHold(r) PROVE PayInv'
  BY <1>2, VerifyHoldPay
<1>3. ASSUME NEW r \in Requests, PersistBooking(r) PROVE PayInv'
  BY <1>3, PersistBookingPay
<1>4. ASSUME NEW r \in Requests, CallInitiatePayment(r) PROVE PayInv'
  BY <1>4, CallInitiatePaymentPay
<1>5. ASSUME NEW r \in Requests, PaymentAnswered(r) PROVE PayInv'
  BY <1>5, PaymentAnsweredPay
<1>6. ASSUME NEW r \in Requests, PaymentCallLost(r) PROVE PayInv'
  BY <1>6, PaymentCallLostPay
<1>7. ASSUME NEW r \in Requests, ConfirmBookingWithOutbox(r) PROVE PayInv'
  BY <1>7, ConfirmBookingWithOutboxPay
<1>8. ASSUME NEW r \in Requests, CancelUnpaid(r) PROVE PayInv'
  BY <1>8, CancelUnpaidPay
<1>9. ASSUME NEW r \in Requests, ReleaseSeats(r) PROVE PayInv'
  BY <1>9, ReleaseSeatsPay
<1>10. ASSUME NEW r \in Requests, CatchError(r) PROVE PayInv'
  BY <1>10, CatchErrorPay
<1>11. ASSUME NEW r \in Requests, FindPayment(r) PROVE PayInv'
  BY <1>11, FindPaymentPay
<1>12. ASSUME NEW r \in Requests, InsertPayment(r) PROVE PayInv'
  BY <1>12, InsertPaymentPay
<1>13. ASSUME NEW r \in Requests, SaveProcessing(r) PROVE PayInv'
  BY <1>13, SaveProcessingPay
<1>14. ASSUME NEW r \in Requests, Charge(r) PROVE PayInv'
  BY <1>14, ChargePay
<1>15. ASSUME NEW r \in Requests, SavePayment(r) PROVE PayInv'
  BY <1>15, SavePaymentPay
<1>16. ASSUME NEW r \in Requests, PaymentError(r) PROVE PayInv'
  BY <1>16, PaymentErrorPay
<1>17. ASSUME NEW r \in Requests, MarkSeatsAsSold(r) PROVE PayInv'
  BY <1>17, MarkSeatsAsSoldPay
<1>18. ASSUME NEW u \in Users, HoldSeats(u) PROVE PayInv'
  BY <1>18, HoldSeatsPay
<1>19. ASSUME NEW u \in Users, HoldExpires(u) PROVE PayInv'
  BY <1>19, HoldExpiresPay
<1>20. ASSUME NEW u \in Users, ExpiryWorker(u) PROVE PayInv'
  BY <1>20, ExpiryWorkerPay
<1>21. CASE BookingServiceRestarts
  BY <1>21, BookingServiceRestartsPay
<1>22. CASE PaymentServiceRestarts
  BY <1>22, PaymentServiceRestartsPay
<1>23. ASSUME NEW u \in Users, UserCancels(u) PROVE PayInv'
  BY <1>23, UserCancelsPay
<1>24. CASE LockLapses
  BY <1>24, LockLapsesPay
<1> QED
  BY <1>1, <1>2, <1>3, <1>4, <1>5, <1>6, <1>7, <1>8, <1>9, <1>10, <1>11,
     <1>12, <1>13, <1>14, <1>15, <1>16, <1>17, <1>18, <1>19, <1>20, <1>21,
     <1>22, <1>23, <1>24, PayStutter DEF Next, BookingStep, PaymentStep

LEMMA PayAlways == Spec => []PayInv
BY PayInit, PayNext, PTL DEF Spec

\* Every variable of Booking keeps its type, for any number of requests,
\* users and keys and any pattern of failures.
THEOREM TypeCorrect == Spec => []TypeOK
BY PayAlways, PTL DEF PayInv

\* No booking is confirmed without money, for any number of requests that
\* share keys as they like, under every failure and restart of the model.
THEOREM ConfirmedIsChargedHolds == Spec => []ConfirmedIsCharged
<1>1. PayInv => ConfirmedIsCharged
  BY DEF PayInv, Paid, ConfirmedIsCharged
<1> QED BY <1>1, PayAlways, PTL

-----------------------------------------------------------------------------
(* Every step keeps SeatInv. *)

\* Steps that move no createBooking request and leave the seat alone.
LEMMA QuietSeat ==
  ASSUME SeatInv, UNCHANGED <<seat, lock, booking, user, pc, freed>>
  PROVE  SeatInv'
BY DEF SeatInv, InForce, Past

\* Requests past verifyHold go on or fail, others stay or fail, and only a
\* done one is confirmed.
LEMMA WalkSeat ==
  ASSUME SeatInv, UNCHANGED <<seat, lock, user, freed>>,
         \A q \in Requests : \/ pc'[q] \in {pc[q], "failed"}
                             \/ /\ pc[q] \notin {"idle", "failed", "verify"}
                                /\ pc'[q] \notin {"idle", "verify"},
         \A q \in Requests : booking'[q] = "confirmed" => pc'[q] = "done"
  PROVE  SeatInv'
<1>1. \A q \in Requests : (InForce(q)' => InForce(q)) /\ (Past(q)' => Past(q))
  BY DEF InForce, Past
<1> QED BY <1>1 DEF SeatInv

LEMMA CreateBookingSeat ==
  ASSUME PayInv, SeatInv, NEW r \in Requests, CreateBooking(r) PROVE SeatInv'
<1> USE DEF PayInv, TypeOK
<1>1. /\ pc[r] = "idle" /\ UNCHANGED <<seat, lock, booking, freed>>
      /\ \A q \in Requests : q # r => pc'[q] = pc[q] /\ user'[q] = user[q]
  BY DEF CreateBooking, Goto, seats, rows
<1>2. pc'[r] = "failed" \/ (pc'[r] = "verify" /\ seat = "held")
  BY DEF CreateBooking, Goto, GetSeatsByEvent
<1>3. \A q \in Requests : (InForce(q)' => InForce(q) \/ seat = "held") /\ (Past(q)' => Past(q) /\ q # r)
  BY <1>1, <1>2 DEF InForce, Past
<1>4. booking[r] # "confirmed"
  BY <1>1 DEF SeatInv
<1> QED BY <1>1, <1>3, <1>4 DEF SeatInv

\* The lock is the buyer's: whoever counts on the seat already is he.
LEMMA VerifyHoldSeat ==
  ASSUME PayInv, SeatInv, NEW r \in Requests, VerifyHold(r) PROVE SeatInv'
<1> USE DEF PayInv, TypeOK
<1>1. /\ pc[r] = "verify" /\ UNCHANGED <<seat, lock, booking, user, freed>>
      /\ \A q \in Requests : q # r => pc'[q] = pc[q]
  BY DEF VerifyHold, Goto, seats, rows
<1>2. CASE pc'[r] = "failed"
  BY <1>1, <1>2, WalkSeat DEF SeatInv
<1>3. CASE pc'[r] = "persist" /\ lock = user[r]
  <2>1. \A q \in Requests : InForce(q)' => InForce(q)
    BY <1>1, <1>3 DEF InForce
  <2>2. \A q \in Requests : Past(q)' => Past(q) \/ q = r
    BY <1>1, <1>3 DEF Past, InForce
  <2>3. user[r] # None
    BY <1>1, NoneAssumption DEF Begun
  <2>4. \A q \in Requests : Past(q) => user[q] = user[r]
    BY <1>3, <2>3 DEF SeatInv
  <2>5. \A q \in Requests : booking'[q] = "confirmed" => pc'[q] = "done"
    BY <1>1 DEF SeatInv
  <2>6. \A q \in Requests : Past(q)' => user'[q] = user[r] /\ lock' = lock
    BY <1>1, <2>2, <2>4
  <2> QED BY <1>1, <1>3, <2>1, <2>5, <2>6 DEF SeatInv
<1> QED BY <1>2, <1>3 DEF VerifyHold, Goto, Verified

\* Whoever frees the seat, nobody who counted on it is in force any more.
LEMMA FreeSeatSeat ==
  ASSUME SeatInv, NEW u \in Users, FreeSeat(u),
         \A q \in Requests : pc[q] \in {"idle", "failed"} => pc'[q] = pc[q],
         \A q \in Requests : booking'[q] = "confirmed" => pc'[q] = "done"
  PROVE  SeatInv'
<1>1. \A q \in Requests : ~ InForce(q)'
  BY DEF FreeSeat, InForce
<1> QED BY <1>1 DEF SeatInv, Past

LEMMA ReleaseSeatsSeat ==
  ASSUME PayInv, SeatInv, NEW r \in Requests, ReleaseSeats(r) PROVE SeatInv'
<1> USE DEF PayInv, TypeOK
<1>1. /\ pc[r] = "release" /\ UNCHANGED <<booking, user>>
      /\ \A q \in Requests : q # r => pc'[q] = pc[q]
      /\ pc'[r] \in {"done", "catch"}
  BY DEF ReleaseSeats, Goto, rows
<1>2. \A q \in Requests : booking'[q] = "confirmed" => pc'[q] = "done"
  BY <1>1 DEF SeatInv
<1>3. CASE FreeSeat(user[r])
  <2>1. user[r] \in Users
    BY <1>1 DEF Begun
  <2> QED BY <1>1, <1>2, <1>3, <2>1, FreeSeatSeat
<1>4. CASE UNCHANGED seats
  BY <1>1, <1>2, <1>4, WalkSeat DEF seats
<1> QED BY <1>3, <1>4 DEF ReleaseSeats

LEMMA BookingStepSeat ==
  ASSUME PayInv, SeatInv, NEW r \in Requests, BookingStep(r) PROVE SeatInv'
<1> USE DEF PayInv, TypeOK, Goto, seats, rows
<1>1. CASE CreateBooking(r) \/ VerifyHold(r) \/ ReleaseSeats(r)
  BY <1>1, CreateBookingSeat, VerifyHoldSeat, ReleaseSeatsSeat
<1>2. CASE PersistBooking(r)
  BY <1>2, WalkSeat DEF PersistBooking, SeatInv
<1>3. CASE CallInitiatePayment(r)
  BY <1>3, WalkSeat DEF CallInitiatePayment, SeatInv
<1>4. CASE PaymentAnswered(r)
  <2>1. r \in waiting => pc[r] = "await"
    BY DEF Begun
  <2>2. AfterPayment(reply[r]) \notin {"idle", "verify"}
    BY DEF AfterPayment
  <2> QED BY <1>4, <2>1, <2>2, WalkSeat DEF PaymentAnswered, SeatInv
<1>5. CASE PaymentCallLost(r)
  <2>1. pc[r] = "await"
    BY <1>5 DEF Begun, PaymentCallLost
  <2> QED BY <1>5, <2>1, WalkSeat DEF PaymentCallLost, SeatInv
<1>6. CASE ConfirmBookingWithOutbox(r)
  BY <1>6, WalkSeat DEF ConfirmBookingWithOutbox, SeatInv
<1>7. CASE CancelUnpaid(r)
  BY <1>7, WalkSeat DEF CancelUnpaid, SeatInv
<1>8. CASE CatchError(r)
  BY <1>8, WalkSeat DEF CatchError, SeatInv
<1> QED BY <1>1, <1>2, <1>3, <1>4, <1>5, <1>6, <1>7, <1>8 DEF BookingStep

LEMMA PaymentStepSeat ==
  ASSUME SeatInv, NEW r \in Requests, PaymentStep(r) PROVE SeatInv'
BY QuietSeat DEF PaymentStep, FindPayment, InsertPayment, SaveProcessing, Charge, SavePayment,
   PaymentError, seats, rows

\* The lock goes, or is taken when the seat is available and nobody in force.
LEMMA SeatServiceSeat ==
  ASSUME PayInv, SeatInv,
         \/ LockLapses
         \/ \E u \in Users : HoldSeats(u) \/ HoldExpires(u) \/ ExpiryWorker(u) \/ UserCancels(u)
         \/ \E r \in Requests : MarkSeatsAsSold(r)
  PROVE  SeatInv'
<1> USE DEF PayInv, TypeOK, rows
<1>1. CASE LockLapses
  BY <1>1 DEF LockLapses, SeatInv, InForce, Past
<1>2. ASSUME NEW u \in Users, HoldSeats(u) PROVE SeatInv'
  <2>1. \A r \in Requests : ~ InForce(r)'
    BY <1>2 DEF HoldSeats, SeatInv, InForce
  <2> QED BY <1>2, <2>1 DEF HoldSeats, SeatInv, Past
<1>3. ASSUME NEW u \in Users, HoldExpires(u) PROVE SeatInv'
  BY <1>3, QuietSeat DEF HoldExpires
<1>4. ASSUME NEW u \in Users, ExpiryWorker(u) \/ UserCancels(u) PROVE SeatInv'
  BY <1>4, FreeSeatSeat DEF ExpiryWorker, UserCancels, SeatInv
<1>5. ASSUME NEW r \in Requests, MarkSeatsAsSold(r) PROVE SeatInv'
  BY <1>5 DEF MarkSeatsAsSold, SeatInv, InForce, Past
<1> QED BY <1>1, <1>2, <1>3, <1>4, <1>5

LEMMA RestartsSeat ==
  ASSUME SeatInv, BookingServiceRestarts \/ PaymentServiceRestarts PROVE SeatInv'
BY WalkSeat DEF BookingServiceRestarts, PaymentServiceRestarts, SeatInv, seats, rows

LEMMA SeatNext == ASSUME PayInv, SeatInv, [Next]_vars PROVE SeatInv'
<1>1. CASE UNCHANGED vars
  BY <1>1, QuietSeat DEF vars
<1>2. CASE Next
  BY <1>2, BookingStepSeat, PaymentStepSeat, SeatServiceSeat, RestartsSeat DEF Next
<1> QED BY <1>1, <1>2

\* Two buyers have confirmed bookings of one seat only when the seat was made
\* available under one of them, for any number of buyers, requests, holds,
\* failures and restarts, however long the holds last and the answers take.
THEOREM NoDoubleBookingHolds == Spec => []NoDoubleBooking
<1>1. Init => SeatInv
  BY DEF Init, SeatInv, InForce, Past
<1>2. PayInv /\ SeatInv /\ [Next]_vars => SeatInv'
  BY SeatNext
<1>3. SeatInv => NoDoubleBooking
  BY DEF SeatInv, InForce, Past, NoDoubleBooking
<1> QED BY <1>1, <1>2, <1>3, PayAlways, PTL DEF Spec
=============================================================================
