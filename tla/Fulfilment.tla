---------------------------- MODULE Fulfilment ----------------------------
(***************************************************************************)
(* What booking-service does with one booking after it is confirmed: the   *)
(* outbox worker (booking/outbox.worker.ts) delivers the effects of the    *)
(* confirmation, tickets are issued, checked in and cancelled              *)
(* (ticket/ticket.service.ts), the buyer cancels and the refund state      *)
(* machine returns the money (booking/booking-orchestrator.service.ts,     *)
(* cancelBooking and processRefundStateMachine), driven again by the       *)
(* recovery worker (booking/refund-recovery.worker.ts).  The refund itself *)
(* is the handler of payment-service (payment/refund.service.ts).          *)
(*                                                                         *)
(* Every handler takes one step per await and works on the copy of the row *)
(* it has read; save writes the whole copy back, whatever the row says by  *)
(* then.  The booking has one item, hence one seat and one ticket.         *)
(***************************************************************************)
EXTENDS Naturals, Sequences, FiniteSets

CONSTANTS
    Ticks,            \* runs of the outbox cron that may be under way at once
    Cancels,          \* cancel requests of the buyer, each used once
    Recovery,         \* the process of RefundRecoveryWorker
    Gates,            \* check-in requests, each used once
    Keys,             \* refund idempotency keys the buyer's requests carry
    NoKey,
    NoDriver,         \* nobody waits for the answer of a call any more
    MaxCalls,         \* bound on refund calls
    MaxRetries,       \* outbox.maxRetries, 5 in the code
    MaxTries,         \* MAX_RETRIES of the recovery worker, 5 in the code
    FaultKinds,       \* calls that may fail, services that may restart: some of
                      \* "rpc", "db", "gateway", "booking", "payment"
    MaxUpsets         \* bound on failures, restarts and handlers that start while
                      \* another is under way, together

Drivers == Cancels \cup {Recovery}
RefundStates == {"none", "refund_initiated", "payment_refunded", "seats_released",
                 "completed", "failed"}
Stuck == {"refund_initiated", "payment_refunded", "seats_released"}
BookingRows == [status : {"confirmed", "refunded"}, refundState : RefundStates,
                key : Keys \cup {NoKey}, tries : Nat]
TicketStatuses == {"active", "used", "cancelled"}
OutboxStatuses == {"pending", "processing", "completed", "failed"}
Kinds == {"seats.mark_sold", "booking.confirmed", "booking.refunded"}
OutboxRows == [kind : Kinds, status : OutboxStatuses, retry : Nat, fails : Nat]

ASSUME ProcessesAssumption ==
    Recovery \notin Cancels /\ NoKey \notin Keys /\ NoDriver \notin Drivers
ASSUME LimitsAssumption ==
    /\ MaxRetries \in Nat \ {0} /\ MaxTries \in Nat \ {0}
    /\ MaxCalls \in Nat /\ MaxUpsets \in Nat

VARIABLES
    \* booking-service, PostgreSQL
    booking,  \* the row of the booking
    outbox,   \* its outbox rows, oldest first; fails counts failed attempts
    tickets,  \* status of each ticket row
    \* seat-inventory and payment services, and the gateway
    seat,     \* status of the booked seat
    payment,  \* status of the payment row
    calls,    \* refundPayment calls so far, each with the refund row it made
    returned, \* TRUE once the gateway has given the money back
    \* memory of booking-service: ticks
    tpc, batch, cur,
    \* memory of booking-service: cancel requests and the recovery worker
    dpc, copy,
    \* memory of booking-service: check-ins
    gpc, shown,
    \* environment
    upsets,   \* failures, restarts and overlaps so far
    \* what has happened, for the properties only
    shared,   \* entries two ticks have had in their batches at once
    died,     \* entries a tick was on when it broke off
    stale,    \* drivers over whose copy another one has written the row
    lost,     \* TRUE once a stale copy has been saved over the row
    seatBack, \* what releaseSoldSeats has done: "no", "given" or "refused"
    cleared   \* what cancelByBooking has done: "no", "yes", or "late" when a
              \* ticket was issued after it

ticking == <<tpc, batch, cur>>
driving == <<dpc, copy>>
gates == <<gpc, shown>>
paying == <<payment, calls, returned>>
tickPast == <<shared, died>>
rowPast == <<stale, lost>>
past == <<shared, died, stale, lost, seatBack, cleared>>
vars == <<booking, outbox, tickets, seat, payment, calls, returned,
          tpc, batch, cur, dpc, copy, gpc, shown, upsets,
          shared, died, stale, lost, seatBack, cleared>>

TickSteps == {"idle", "loop", "run", "generate", "complete", "retry"}
DriverSteps == {"idle", "init", "refund", "await", "saveRow", "releaseSold",
                "cancelTickets", "finish", "saveFailed", "catch", "ended"}
CallSteps == {"findPayment", "findRefund", "insertRefund", "gateway",
              "saveRefund", "savePayment", "undo", "answer", "over"}
CallRecords == [driver : Drivers \cup {NoDriver}, key : Keys \cup {NoKey},
                step : CallSteps, success : BOOLEAN,
                row : {"none", "pending", "processed", "failed"}]

StateOK ==
    /\ booking \in BookingRows
    /\ outbox \in Seq(OutboxRows)
    /\ tickets \in Seq(TicketStatuses)
    /\ seat \in {"held", "sold", "available"}
    /\ payment \in {"succeeded", "refunded"}
    /\ calls \in Seq(CallRecords)
    /\ returned \in BOOLEAN
    /\ tpc \in [Ticks -> TickSteps]
    /\ \A t \in Ticks : batch[t] \in [DOMAIN batch[t] -> Nat]
    /\ cur \in [Ticks -> Nat]
    /\ dpc \in [Drivers -> DriverSteps]
    /\ copy \in [Drivers -> BookingRows]
    /\ gpc \in [Gates -> {"idle", "save", "ended"}]
    /\ shown \in [Gates -> Nat]
    /\ upsets \in 0..MaxUpsets
PastOK ==
    /\ shared \subseteq DOMAIN outbox /\ died \subseteq DOMAIN outbox
    /\ stale \subseteq Drivers /\ lost \in BOOLEAN
    /\ seatBack \in {"no", "given", "refused"} /\ cleared \in {"no", "yes", "late"}
TypeOK == StateOK /\ PastOK

NewEntry(kind) == [kind |-> kind, status |-> "pending", retry |-> 0, fails |-> 0]
NoEntries == [i \in {} |-> 0]
BookingRow(status, refundState, key, tries) ==
    [status |-> status, refundState |-> refundState, key |-> key, tries |-> tries]
NewRow == BookingRow("confirmed", "none", NoKey, 0)

\* confirmBookingWithOutbox has just committed.
Init ==
    /\ booking = NewRow
    /\ outbox = <<NewEntry("seats.mark_sold"), NewEntry("booking.confirmed")>>
    /\ tickets = <<>>
    /\ seat = "held"
    /\ payment = "succeeded"
    /\ calls = <<>>
    /\ returned = FALSE
    /\ tpc = [t \in Ticks |-> "idle"]
    /\ batch = [t \in Ticks |-> NoEntries]
    /\ cur = [t \in Ticks |-> 0]
    /\ dpc = [d \in Drivers |-> "idle"]
    /\ copy = [d \in Drivers |-> NewRow]
    /\ gpc = [g \in Gates |-> "idle"]
    /\ shown = [g \in Gates |-> 0]
    /\ upsets = 0
    /\ shared = {} /\ died = {} /\ stale = {} /\ lost = FALSE
    /\ seatBack = "no" /\ cleared = "no"

Fault(kind) ==
    /\ kind \in FaultKinds
    /\ upsets < MaxUpsets
    /\ upsets' = upsets + 1
NoFault == upsets' = upsets

\* Cancel requests and recovery runs under way.
Working == {d \in Drivers : dpc[d] \notin {"idle", "ended"}}

\* A handler starts, alone or beside others that are under way.
Quiet == /\ \A t \in Ticks : tpc[t] = "idle"
         /\ Working = {}
         /\ \A g \in Gates : gpc[g] # "save"
Starts ==
    \/ Quiet /\ upsets' = upsets
    \/ ~ Quiet /\ upsets < MaxUpsets /\ upsets' = upsets + 1

-----------------------------------------------------------------------------
(* OutboxWorker.processOutbox *)

TickGoto(t, step) == tpc' = [tpc EXCEPT ![t] = step]
TickEnds(t) ==
    /\ TickGoto(t, "idle")
    /\ batch' = [batch EXCEPT ![t] = NoEntries]
    /\ cur' = [cur EXCEPT ![t] = 0]

\* Mutant: everything that has not failed.
NotFailed == {i \in DOMAIN outbox : outbox[i].status # "failed"}

Pending == {i \in DOMAIN outbox : outbox[i].status = "pending"}

\* The tick reads the pending entries (at most ten, more than there are),
\* whatever the ticks before it are still working on.
TickReads(t) ==
    /\ tpc[t] = "idle"
    /\ Starts
    /\ Pending # {}
    /\ TickGoto(t, "loop")
    /\ batch' = [batch EXCEPT ![t] = [i \in Pending |-> outbox[i].retry]]
    /\ shared' = shared \cup {i \in Pending : \E u \in Ticks : i \in DOMAIN batch[u]}
    /\ UNCHANGED <<booking, outbox, tickets, seat, paying, cur, driving, gates,
                   died, rowPast, seatBack, cleared>>

SetEntry(i, status, retry, fails) ==
    outbox' = [outbox EXCEPT ![i] = [kind |-> outbox[i].kind, status |-> status,
                                     retry |-> retry, fails |-> fails]]

\* save(entry) of the tick's copy, which knows the retry count it has read.
SaveEntry(i, status, retry) == SetEntry(i, status, retry, outbox[i].fails)

\* Oldest first; the first two rows were created in the same instant.
TickTakes(t) ==
    /\ tpc[t] = "loop"
    /\ \/ \E i \in DOMAIN batch[t] :
            /\ outbox[i].kind = "booking.refunded" => \A j \in DOMAIN batch[t] : i <= j
            /\ SaveEntry(i, "processing", batch[t][i])
            /\ TickGoto(t, "run")
            /\ cur' = [cur EXCEPT ![t] = i]
            /\ batch' = batch
       \/ /\ DOMAIN batch[t] = {}
          /\ TickEnds(t)
          /\ outbox' = outbox
    /\ UNCHANGED <<booking, tickets, seat, paying, driving, gates, upsets, past>>

KindOf(t) == outbox[cur[t]].kind

\* handleSeatsSold: markSeatsAsSold, which may fail before or after its commit.
HandleSeatsSold(t) ==
    /\ tpc[t] = "run" /\ KindOf(t) = "seats.mark_sold"
    /\ \/ seat' = "sold" /\ TickGoto(t, "complete") /\ NoFault
       \/ seat' \in {seat, "sold"} /\ TickGoto(t, "retry") /\ Fault("rpc")
    /\ UNCHANGED <<booking, outbox, tickets, paying, batch, cur, driving, gates, past>>

\* Mutant: generateTicket does not look for tickets that are there already.
GenerateAgain(t) ==
    /\ tpc[t] = "run" /\ KindOf(t) = "booking.confirmed"
    /\ TickGoto(t, "generate")
    /\ UNCHANGED <<booking, outbox, tickets, seat, paying, batch, cur, driving, gates, upsets, past>>

\* handleBookingConfirmed: generateTicket looks for tickets, then inserts.
HandleBookingConfirmed(t) ==
    /\ tpc[t] = "run" /\ KindOf(t) = "booking.confirmed"
    /\ \/ TickGoto(t, IF tickets = <<>> THEN "generate" ELSE "complete") /\ NoFault
       \/ TickGoto(t, "retry") /\ Fault("db")
    /\ UNCHANGED <<booking, outbox, tickets, seat, paying, batch, cur, driving, gates, past>>

GenerateTicket(t) ==
    /\ tpc[t] = "generate"
    /\ \/ /\ tickets' = Append(tickets, "active")
          /\ cleared' = IF cleared = "no" THEN "no" ELSE "late"
          /\ TickGoto(t, "complete")
          /\ NoFault
       \/ /\ TickGoto(t, "retry")
          /\ Fault("db")
          /\ UNCHANGED <<tickets, cleared>>
    /\ UNCHANGED <<booking, outbox, seat, paying, batch, cur, driving, gates, tickPast,
                   rowPast, seatBack>>

\* handleBookingRefunded only emits.
HandleBookingRefunded(t) ==
    /\ tpc[t] = "run" /\ KindOf(t) = "booking.refunded"
    /\ TickGoto(t, "complete")
    /\ UNCHANGED <<booking, outbox, tickets, seat, paying, batch, cur, driving, gates, upsets, past>>

\* The entry is dealt with; the loop goes on.
NextEntry(t) ==
    /\ TickGoto(t, "loop")
    /\ batch' = [batch EXCEPT ![t] = [i \in DOMAIN batch[t] \ {cur[t]} |-> batch[t][i]]]
    /\ cur' = [cur EXCEPT ![t] = 0]

EntryCompleted(t) ==
    /\ tpc[t] = "complete"
    /\ \/ /\ SaveEntry(cur[t], "completed", batch[t][cur[t]])
          /\ NextEntry(t)
          /\ NoFault
       \/ /\ TickGoto(t, "retry")
          /\ Fault("db")
          /\ UNCHANGED <<outbox, batch, cur>>
    /\ UNCHANGED <<booking, tickets, seat, paying, driving, gates, past>>

\* Mutant: the catch block counts the try and leaves the status as it is.
RetryForgotten(t) ==
    /\ tpc[t] = "retry"
    /\ SetEntry(cur[t], "processing", batch[t][cur[t]] + 1, outbox[cur[t]].fails + 1)
    /\ NextEntry(t)
    /\ UNCHANGED <<booking, tickets, seat, paying, driving, gates, upsets, past>>

\* Mutant: the last try is never made.
GiveUpOneEarly(t) ==
    /\ tpc[t] = "retry"
    /\ SetEntry(cur[t],
                IF batch[t][cur[t]] + 2 >= MaxRetries THEN "failed" ELSE "pending",
                batch[t][cur[t]] + 1, outbox[cur[t]].fails + 1)
    /\ NextEntry(t)
    /\ UNCHANGED <<booking, tickets, seat, paying, driving, gates, upsets, past>>

\* The catch block: another try, or the end of the entry.
EntryFailed(t) ==
    /\ tpc[t] = "retry"
    /\ LET i == cur[t]
           n == batch[t][i] + 1
       IN  \/ /\ SetEntry(i, IF n >= MaxRetries THEN "failed" ELSE "pending", n,
                          outbox[i].fails + 1)
              /\ NextEntry(t)
              /\ NoFault
              /\ died' = died
           \/ /\ TickEnds(t)
              /\ SetEntry(i, outbox[i].status, outbox[i].retry, outbox[i].fails + 1)
              /\ Fault("db")
              /\ died' = died \cup {i}
    /\ UNCHANGED <<booking, tickets, seat, paying, driving, gates, shared, rowPast,
                   seatBack, cleared>>

\* The first save of an entry stands outside the try block.
TickAborts(t) ==
    /\ tpc[t] = "loop" /\ DOMAIN batch[t] # {}
    /\ Fault("db")
    /\ TickEnds(t)
    /\ UNCHANGED <<booking, outbox, tickets, seat, paying, driving, gates, past>>

TickStep(t) ==
    \/ TickTakes(t) \/ HandleSeatsSold(t) \/ HandleBookingConfirmed(t)
    \/ GenerateTicket(t) \/ HandleBookingRefunded(t) \/ EntryCompleted(t)
    \/ EntryFailed(t) \/ TickAborts(t)

-----------------------------------------------------------------------------
(* BookingOrchestratorService.cancelBooking and the recovery worker *)

DriverGoto(d, step) == dpc' = [dpc EXCEPT ![d] = step]

\* What a driver writes into its copy of the booking.
SetCopy(d, status, refundState, tries) ==
    copy' = [copy EXCEPT ![d] = BookingRow(status, refundState, copy[d].key, tries)]
SetRefundState(d, refundState) == SetCopy(d, copy[d].status, refundState, copy[d].tries)

\* Mutant: the case that gives the seats back is missing.
StepWithoutSeats(state) ==
    CASE state = "refund_initiated" -> "refund"
      [] state \in {"payment_refunded", "seats_released"} -> "cancelTickets"
      [] state = "completed"        -> "ended"
      [] OTHER                      -> "catch"

\* The case of the switch for a refund state.
StepFor(state) ==
    CASE state = "refund_initiated" -> "refund"
      [] state = "payment_refunded" -> "releaseSold"
      [] state = "seats_released"   -> "cancelTickets"
      [] state = "completed"        -> "ended"
      [] OTHER                      -> "catch"

\* save(booking) of driver d writes its whole copy: whoever else is at work has
\* a stale one from now on, and if d's own was stale, an update is lost.
Save(d, row) ==
    /\ booking' = row
    /\ stale' = (stale \cup Working) \ {d}
    /\ lost' = (lost \/ d \in stale)
SaveFails == Fault("db") /\ UNCHANGED <<booking, rowPast>>

\* Driver d has just read the row.
Fresh(d) == stale' = stale \ {d} /\ lost' = lost

\* A cancel request reads the booking; the first one starts the refund.
CancelBooking(c) ==
    /\ dpc[c] = "idle"
    /\ Starts
    /\ Fresh(c)
    /\ IF booking.status # "confirmed"
         THEN DriverGoto(c, "ended") /\ copy' = copy
         ELSE IF booking.refundState = "none"
                THEN /\ \E k \in Keys :
                          copy' = [copy EXCEPT ![c] =
                            BookingRow("confirmed", "refund_initiated", k, booking.tries)]
                     /\ DriverGoto(c, "init")
                ELSE /\ copy' = [copy EXCEPT ![c] = booking]
                     /\ DriverGoto(c, StepFor(booking.refundState))
    /\ UNCHANGED <<booking, outbox, tickets, seat, paying, ticking, gates,
                   shared, died, seatBack, cleared>>

\* The first save stands outside the state machine: an error ends the request.
InitiateRefund(c) ==
    /\ dpc[c] = "init"
    /\ \/ Save(c, copy[c]) /\ DriverGoto(c, "refund") /\ NoFault
       \/ SaveFails /\ DriverGoto(c, "ended")
    /\ UNCHANGED <<outbox, tickets, seat, paying, ticking, copy, gates, tickPast,
                   seatBack, cleared>>

\* Mutant: SEATS_RELEASED is missing in the list of stuck states.
RecoverUnlessReleased ==
    /\ dpc[Recovery] \in {"idle", "ended"}
    /\ Starts
    /\ Fresh(Recovery)
    /\ booking.refundState \in Stuck \ {"seats_released"}
    /\ booking.tries < MaxTries
    /\ copy' = [copy EXCEPT ![Recovery] = booking]
    /\ DriverGoto(Recovery, StepFor(booking.refundState))
    /\ UNCHANGED <<booking, outbox, tickets, seat, paying, ticking, gates,
                   shared, died, seatBack, cleared>>

\* recoveryStuckRefunds; its flag allows one run at a time.
RecoverStuckRefund ==
    /\ dpc[Recovery] \in {"idle", "ended"}
    /\ Starts
    /\ Fresh(Recovery)
    /\ booking.refundState \in Stuck
    /\ booking.tries < MaxTries
    /\ copy' = [copy EXCEPT ![Recovery] = booking]
    /\ DriverGoto(Recovery, StepFor(booking.refundState))
    /\ UNCHANGED <<booking, outbox, tickets, seat, paying, ticking, gates,
                   shared, died, seatBack, cleared>>

-----------------------------------------------------------------------------
(* RefundService.refundByBooking in payment-service, and the call to it.   *)
(* The handler runs on when the caller is gone.                            *)

CallRefundPayment(d) ==
    /\ dpc[d] = "refund"
    /\ Len(calls) < MaxCalls
    /\ \/ /\ calls' = Append(calls, [driver |-> d, key |-> copy[d].key,
                                    step |-> "findPayment", success |-> FALSE,
                                    row |-> "none"])
          /\ DriverGoto(d, "await")
          /\ NoFault
       \/ calls' = calls /\ DriverGoto(d, "catch") /\ Fault("rpc")
    /\ UNCHANGED <<booking, outbox, tickets, seat, payment, returned, ticking, copy, gates, past>>

\* Call i as it stands after a step of its handler.
CallAfter(i, driver, step, success, row) ==
    [driver |-> driver, key |-> calls[i].key, step |-> step, success |-> success, row |-> row]
SetCall(i, step, success, row) ==
    calls' = [calls EXCEPT ![i] = CallAfter(i, calls[i].driver, step, success, row)]
CallGoto(i, step) == SetCall(i, step, calls[i].success, calls[i].row)
Answer(i, success) == SetCall(i, "answer", success, calls[i].row)

\* Call i once nobody waits for it any more.
Detached(i, step) == CallAfter(i, NoDriver, step, calls[i].success, calls[i].row)

FindPayment(i) ==
    /\ calls[i].step = "findPayment"
    /\ IF payment = "succeeded" THEN CallGoto(i, "findRefund") ELSE Answer(i, FALSE)
    /\ UNCHANGED <<booking, outbox, tickets, seat, payment, returned, ticking, driving, gates, upsets, past>>

\* Mutant: an existing refund is taken for a processed one.
TrustRefund(i) ==
    /\ calls[i].step = "findRefund"
    /\ IF \E j \in DOMAIN calls : calls[j].key = calls[i].key /\ calls[j].row # "none"
         THEN Answer(i, TRUE)
         ELSE CallGoto(i, "insertRefund")
    /\ UNCHANGED <<booking, outbox, tickets, seat, payment, returned, ticking, driving, gates, upsets, past>>

\* A refund with the same key is returned as it is, whatever its status.
FindRefund(i) ==
    /\ calls[i].step = "findRefund"
    /\ LET existing == {j \in DOMAIN calls :
                          calls[j].key = calls[i].key /\ calls[j].row # "none"}
       IN  \/ \E j \in existing : Answer(i, calls[j].row = "processed")
           \/ existing = {} /\ CallGoto(i, "insertRefund")
    /\ UNCHANGED <<booking, outbox, tickets, seat, payment, returned, ticking, driving, gates, upsets, past>>

\* The insert stands before the try block.
InsertRefund(i) ==
    /\ calls[i].step = "insertRefund"
    /\ \/ SetCall(i, "gateway", calls[i].success, "pending") /\ NoFault
       \/ Answer(i, FALSE) /\ Fault("db")
    /\ UNCHANGED <<booking, outbox, tickets, seat, payment, returned, ticking, driving, gates, past>>

\* The gateway refunds a payment once.  An error of the call, which may come
\* after the money has moved, is reported as a failed refund.
GatewayRefund(i) ==
    /\ calls[i].step = "gateway"
    /\ \/ /\ returned' = TRUE
          /\ SetCall(i, "saveRefund", ~ returned, calls[i].row)
          /\ NoFault
       \/ /\ returned' \in {returned, TRUE}
          /\ SetCall(i, "saveRefund", FALSE, calls[i].row)
          /\ Fault("gateway")
    /\ UNCHANGED <<booking, outbox, tickets, seat, payment, ticking, driving, gates, past>>

SaveRefund(i) ==
    /\ calls[i].step = "saveRefund"
    /\ \/ /\ IF calls[i].success THEN SetCall(i, "savePayment", TRUE, "processed")
                               ELSE SetCall(i, "answer", FALSE, "failed")
          /\ NoFault
       \/ CallGoto(i, "undo") /\ Fault("db")
    /\ UNCHANGED <<booking, outbox, tickets, seat, payment, returned, ticking, driving, gates, past>>

SavePayment(i) ==
    /\ calls[i].step = "savePayment"
    /\ \/ payment' = "refunded" /\ Answer(i, TRUE) /\ NoFault
       \/ payment' = payment /\ CallGoto(i, "undo") /\ Fault("db")
    /\ UNCHANGED <<booking, outbox, tickets, seat, returned, ticking, driving, gates, past>>

\* The catch block of the handler: the refund failed, whatever the gateway did.
RefundError(i) ==
    /\ calls[i].step = "undo"
    /\ \/ SetCall(i, "answer", FALSE, "failed") /\ NoFault
       \/ Answer(i, FALSE) /\ Fault("db")
    /\ UNCHANGED <<booking, outbox, tickets, seat, payment, returned, ticking, driving, gates, past>>

-----------------------------------------------------------------------------
(* BookingOrchestratorService.processRefundStateMachine *)

\* Mutant: the status of a booking is stored as its refund state.
AnsweredWrongEnum(i) ==
    /\ calls[i].step = "answer"
    /\ calls[i].driver # NoDriver
    /\ SetRefundState(calls[i].driver, IF calls[i].success THEN "refunded" ELSE "failed")
    /\ DriverGoto(calls[i].driver, IF calls[i].success THEN "saveRow" ELSE "saveFailed")
    /\ calls' = [calls EXCEPT ![i] = Detached(i, "over")]
    /\ UNCHANGED <<booking, outbox, tickets, seat, payment, returned, ticking, gates, upsets, past>>

\* The answer arrives, if its caller is still there.
RefundAnswered(i) ==
    /\ calls[i].step = "answer"
    /\ LET d == calls[i].driver IN
         IF d = NoDriver
           THEN UNCHANGED driving
           ELSE /\ SetRefundState(d, IF calls[i].success THEN "payment_refunded" ELSE "failed")
                /\ DriverGoto(d, IF calls[i].success THEN "saveRow" ELSE "saveFailed")
    /\ calls' = [calls EXCEPT ![i] = Detached(i, "over")]
    /\ UNCHANGED <<booking, outbox, tickets, seat, payment, returned, ticking, gates, upsets, past>>

\* The connection breaks while the caller waits.
RefundCallLost(i) ==
    /\ calls[i].driver # NoDriver
    /\ Fault("rpc")
    /\ DriverGoto(calls[i].driver, "catch")
    /\ calls' = [calls EXCEPT ![i] = Detached(i, calls[i].step)]
    /\ UNCHANGED <<booking, outbox, tickets, seat, payment, returned, ticking, copy, gates, past>>

CallStep(i) ==
    \/ FindPayment(i) \/ FindRefund(i) \/ InsertRefund(i) \/ GatewayRefund(i)
    \/ SaveRefund(i) \/ SavePayment(i) \/ RefundError(i) \/ RefundAnswered(i)

Released == seat' = "available" /\ seatBack' = "given"
NotReleased ==
    seat' = seat /\ seatBack' = IF seatBack = "no" THEN "refused" ELSE seatBack

\* releaseSoldSeats: the success flag of the answer is not looked at.
ReleaseSoldSeats(d) ==
    /\ dpc[d] = "releaseSold"
    /\ \/ /\ (Released /\ NoFault) \/ (NotReleased /\ Fault("db"))
          /\ SetRefundState(d, "seats_released")
          /\ DriverGoto(d, "saveRow")
       \/ /\ Released \/ (UNCHANGED <<seat, seatBack>>)
          /\ copy' = copy
          /\ DriverGoto(d, "catch")
          /\ Fault("rpc")
    /\ UNCHANGED <<booking, outbox, tickets, paying, ticking, gates, tickPast, rowPast,
                   cleared>>

\* save after a step of the machine, and on to the next step.
SaveRow(d) ==
    /\ dpc[d] = "saveRow"
    /\ \/ Save(d, copy[d]) /\ DriverGoto(d, StepFor(copy[d].refundState)) /\ NoFault
       \/ SaveFails /\ DriverGoto(d, "catch")
    /\ UNCHANGED <<outbox, tickets, seat, paying, ticking, copy, gates, tickPast,
                   seatBack, cleared>>

\* save of the failed state; the error thrown next is caught below.
SaveFailed(d) ==
    /\ dpc[d] = "saveFailed"
    /\ (Save(d, copy[d]) /\ NoFault) \/ SaveFails
    /\ DriverGoto(d, "catch")
    /\ UNCHANGED <<outbox, tickets, seat, paying, ticking, copy, gates, tickPast,
                   seatBack, cleared>>

\* Mutant: the call of cancelByBooking is forgotten.
KeepTickets(d) ==
    /\ dpc[d] = "cancelTickets"
    /\ SetCopy(d, "refunded", "completed", copy[d].tries)
    /\ DriverGoto(d, "finish")
    /\ UNCHANGED <<booking, outbox, tickets, seat, paying, ticking, gates, upsets, past>>

\* cancelByBooking is not part of the transaction it is called in.
CancelTickets(d) ==
    /\ dpc[d] = "cancelTickets"
    /\ \/ /\ tickets' = [i \in DOMAIN tickets |->
                           IF tickets[i] = "active" THEN "cancelled" ELSE tickets[i]]
          /\ cleared' = IF cleared = "no" THEN "yes" ELSE cleared
          /\ SetCopy(d, "refunded", "completed", copy[d].tries)
          /\ DriverGoto(d, "finish")
          /\ NoFault
       \/ /\ DriverGoto(d, "catch")
          /\ Fault("db")
          /\ UNCHANGED <<tickets, copy, cleared>>
    /\ UNCHANGED <<booking, outbox, seat, paying, ticking, gates, tickPast, rowPast,
                   seatBack>>

\* Mutant: the transaction does not write the outbox.
FinishSilently(d) ==
    /\ dpc[d] = "finish"
    /\ Save(d, copy[d])
    /\ DriverGoto(d, "ended")
    /\ UNCHANGED <<outbox, tickets, seat, paying, ticking, copy, gates, upsets, tickPast,
                   seatBack, cleared>>

FinishRefund(d) ==
    /\ dpc[d] = "finish"
    /\ \/ /\ Save(d, copy[d])
          /\ outbox' = Append(outbox, NewEntry("booking.refunded"))
          /\ DriverGoto(d, "ended")
          /\ NoFault
       \/ SaveFails /\ outbox' = outbox /\ DriverGoto(d, "catch")
    /\ UNCHANGED <<tickets, seat, paying, ticking, copy, gates, tickPast, seatBack,
                   cleared>>

\* Mutant: after an error the refund starts over.
StartOver(d) ==
    /\ dpc[d] = "catch"
    /\ SetCopy(d, copy[d].status, "refund_initiated", copy[d].tries + 1)
    /\ Save(d, copy'[d])
    /\ DriverGoto(d, "ended")
    /\ UNCHANGED <<outbox, tickets, seat, paying, ticking, gates, upsets, tickPast,
                   seatBack, cleared>>

\* Any error: the copy, as far as it has got, is saved with one try more.
CatchError(d) ==
    /\ dpc[d] = "catch"
    /\ SetCopy(d, copy[d].status, copy[d].refundState, copy[d].tries + 1)
    /\ (Save(d, copy'[d]) /\ NoFault) \/ SaveFails
    /\ DriverGoto(d, "ended")
    /\ UNCHANGED <<outbox, tickets, seat, paying, ticking, gates, tickPast, seatBack,
                   cleared>>

DriverStep(d) ==
    \/ CallRefundPayment(d) \/ ReleaseSoldSeats(d) \/ SaveRow(d) \/ SaveFailed(d)
    \/ CancelTickets(d) \/ FinishRefund(d) \/ CatchError(d)

-----------------------------------------------------------------------------
(* TicketService.checkIn: read and test, then save *)

CheckInReads(g) ==
    /\ gpc[g] = "idle"
    /\ Starts
    /\ \E i \in DOMAIN tickets :
         /\ gpc' = [gpc EXCEPT ![g] = IF tickets[i] = "active" THEN "save" ELSE "ended"]
         /\ shown' = [shown EXCEPT ![g] = i]
    /\ UNCHANGED <<booking, outbox, tickets, seat, paying, ticking, driving,
                   shared, died, rowPast, seatBack, cleared>>

CheckInSaves(g) ==
    /\ gpc[g] = "save"
    /\ tickets' = [tickets EXCEPT ![shown[g]] = "used"]
    /\ gpc' = [gpc EXCEPT ![g] = "ended"]
    /\ UNCHANGED <<booking, outbox, seat, paying, ticking, driving, shown, upsets, past>>

-----------------------------------------------------------------------------

\* booking-service restarts: whatever its handlers had in memory is gone.
BookingServiceRestarts ==
    /\ Fault("booking")
    /\ tpc' = [t \in Ticks |-> "idle"]
    /\ batch' = [t \in Ticks |-> NoEntries]
    /\ cur' = [t \in Ticks |-> 0]
    /\ dpc' = [d \in Drivers |-> IF dpc[d] = "idle" THEN "idle" ELSE "ended"]
    /\ gpc' = [g \in Gates |-> IF gpc[g] = "idle" THEN "idle" ELSE "ended"]
    /\ calls' = [i \in DOMAIN calls |-> Detached(i, calls[i].step)]
    /\ died' = died \cup {cur[t] : t \in {u \in Ticks : tpc[u] \notin {"idle", "loop"}}}
    /\ stale' = {}
    /\ UNCHANGED <<booking, outbox, tickets, seat, payment, returned, copy, shown, shared,
                   lost, seatBack, cleared>>

\* payment-service restarts: its handlers are gone, their callers see an error.
PaymentServiceRestarts ==
    /\ Fault("payment")
    /\ \E i \in DOMAIN calls : calls[i].step # "over"
    /\ dpc' = [d \in Drivers |-> IF dpc[d] = "await" THEN "catch" ELSE dpc[d]]
    /\ calls' = [i \in DOMAIN calls |-> Detached(i, "over")]
    /\ UNCHANGED <<booking, outbox, tickets, seat, payment, returned, ticking, copy,
                   gates, past>>

Next ==
    \/ \E t \in Ticks : TickReads(t) \/ TickStep(t)
    \/ \E c \in Cancels : CancelBooking(c) \/ InitiateRefund(c)
    \/ RecoverStuckRefund
    \/ \E d \in Drivers : DriverStep(d)
    \/ \E i \in DOMAIN calls : CallStep(i) \/ RefundCallLost(i)
    \/ \E g \in Gates : CheckInReads(g) \/ CheckInSaves(g)
    \/ BookingServiceRestarts
    \/ PaymentServiceRestarts

Spec == Init /\ [][Next]_vars

\* The crons fire and handlers run on; nobody has to cancel or check in.
Fairness ==
    /\ \A t \in Ticks : WF_vars(TickReads(t)) /\ WF_vars(TickStep(t))
    /\ \A c \in Cancels : WF_vars(InitiateRefund(c))
    /\ \A g \in Gates : WF_vars(CheckInSaves(g))
    /\ WF_vars(RecoverStuckRefund)
    /\ \A d \in Drivers : WF_vars(DriverStep(d))
    /\ \A i \in 1..MaxCalls : WF_vars(i \in DOMAIN calls /\ CallStep(i))

FairSpec == Spec /\ Fairness

-----------------------------------------------------------------------------
(* Properties *)

\* The booking never runs ahead of the money: a row, or a copy some handler
\* may still save over it, that says the payment is refunded (or anything
\* later) is only there when the gateway has returned the money.  The claim
\* passes through two services, a duplicate-key answer and stale saves
\* (booking-orchestrator.service.ts 253-295, refund.service.ts 48-91).
PastPayment == {"payment_refunded", "seats_released", "completed"}
RefundedMeansReturned ==
    /\ booking.refundState \in PastPayment \/ booking.status = "refunded" => returned
    /\ \A d \in Drivers :
         dpc[d] \notin {"idle", "ended"} /\ copy[d].refundState \in PastPayment => returned
    /\ payment = "refunded" => returned

\* An outbox entry is given up only after MaxRetries failed attempts, however
\* many ticks work on stale copies of it (outbox.worker.ts 55-71).
GivenUpAfterRetries ==
    \A i \in DOMAIN outbox :
        outbox[i].status = "failed" => outbox[i].fails >= MaxRetries

\* Retries issue a second ticket for an item only when two ticks had read the
\* entry of the confirmation before either was done with it (nothing stops a
\* tick from starting while another is under way, and generateTicket looks first
\* and inserts later: outbox.worker.ts 32-46, ticket.service.ts 26-33).  Lost
\* answers, failed saves and restarts alone never do.
OneTicketPerItem == Len(tickets) <= 1 \/ 2 \in shared

\* A refund that is completed leaves no ticket that admits somebody, except one
\* that was issued after the tickets had been cancelled: the entry that issues it
\* is retried whatever the refund has done (outbox.worker.ts 111-112 beside
\* booking-orchestrator.service.ts 291-296, ticket.service.ts 83-88).
RefundedHoldsNoTicket ==
    booking.refundState = "completed" =>
        cleared = "late" \/ \A i \in DOMAIN tickets : tickets[i] # "active"

\* A refund falls back to an earlier state, or a failed one comes back, only when
\* a cancel request or the recovery worker saves a copy over which another one
\* has written since it was read: however many of them are at work, whoever is up
\* to date moves the refund on (booking-orchestrator.service.ts 233-356).
Rank == [none |-> 0, refund_initiated |-> 1, payment_refunded |-> 2,
         seats_released |-> 3, completed |-> 4, failed |-> 5]
RefundNeverRegresses ==
    [][\/ Rank[booking.refundState] <= Rank[booking'.refundState]
       \/ \E d \in stale \cap Working : booking' = copy'[d]]_vars

\* A refund under way ends: completed, failed, or left alone after MaxTries
\* tries (refund-recovery.worker.ts 45-51).
RefundSettles ==
    booking.refundState \in Stuck ~>
        booking.refundState \in {"completed", "failed"} \/ booking.tries >= MaxTries

\* No outbox entry is retried for ever, given up early or left half way: it ends
\* completed, failed after MaxRetries attempts, or in processing when a tick broke
\* off while it was on it (outbox.worker.ts 46-73).
Settled(i) ==
    \/ outbox[i].status = "completed"
    \/ outbox[i].status = "failed" /\ outbox[i].fails >= MaxRetries
    \/ outbox[i].status = "processing" /\ i \in died
OutboxEntriesSettle == <>[](\A i \in DOMAIN outbox : Settled(i))

\* A seat a refund has given back stays free: once seats.mark_sold is delivered
\* no later tick, retry or driver sells it to the same booking again, unless two
\* ticks had read that entry.  Until it is delivered it may: the entry is retried
\* whatever the refund has done meanwhile (outbox.worker.ts 46-54 and 93-109
\* beside booking-orchestrator.service.ts 274-285).
FreedSeatStaysFree ==
    [](outbox[1].status = "completed" /\ seat = "available" /\ 1 \notin shared =>
        [](seat = "available"))

\* README.md 149: "Single TX": the refund and the entry that announces it are
\* written together.  As long as no stale copy was saved nobody is told twice, and
\* a refund completed at the first try has its entry; after a try that failed the
\* row may say completed without one, as the catch block saves the copy of the
\* transaction rolled back (booking-orchestrator.service.ts 286-333, 348-353).
Announcements == {i \in DOMAIN outbox : outbox[i].kind = "booking.refunded"}
AnnouncedOnce ==
    \/ lost
    \/ /\ Cardinality(Announcements) <= 1
       /\ booking.refundState = "completed" /\ booking.tries = 0 => Announcements # {}

\* Fulfilment implements Refund: the booking row is its stage, the gateway its
\* money, the outbox entry its announcement.  Several drivers, retries of lost
\* answers, rolled back transactions and restarts included, the work is done in
\* its order, and the row never claims what is not done.  What it does not promise
\* is that the seat is free in the end: an answer success = false is passed over
\* (booking-orchestrator.service.ts 240-353, refund.service.ts 48-113).
Abstract == INSTANCE Refund WITH
    stage <- booking.refundState, money <- returned, seatBack <- seatBack,
    cleared <- (cleared # "no"), announced <- (Announcements # {}),
    contested <- (stale \cap Working # {})
ImplementsRefund == Abstract!Spec

\* README.md 75: "If any step fails, the recovery worker picks up from the
\* last successful state and retries": a refund that has begun is completed,
\* unless its tries are used up.
RefundResumes ==
    booking.refundState # "none" ~>
        booking.refundState = "completed" \/ booking.tries >= MaxTries

\* README.md 61: "This guarantees that if a booking is confirmed, the downstream
\* effects [...] will eventually be processed".
EffectsProcessed == <>(\A i \in 1..2 : outbox[i].status = "completed")
=============================================================================
