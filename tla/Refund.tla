------------------------------- MODULE Refund -------------------------------
(***************************************************************************)
(* What cancelling a paid booking promises, whatever goes on between the   *)
(* booking, payment and seat-inventory services.  The work is done in one  *)
(* order: the money goes back first, then the inventory is asked for the   *)
(* seat, then the tickets are cancelled.  The stage the booking shows      *)
(* follows the work one step at a time and never shows a step that is not  *)
(* done.  It is only taken back by a handler that writes over what another *)
(* one has written meanwhile, and then to a stage whose work is done too.  *)
(***************************************************************************)
VARIABLES
    stage,     \* the refund as the booking shows it
    money,     \* TRUE once the buyer has his money back
    seatBack,  \* "no", "given", or "refused" by an inventory that failed
    cleared,   \* TRUE once the tickets issued so far have been cancelled
    announced, \* TRUE once an announcement is on its way
    contested  \* TRUE while a handler works on a stale copy of the booking

vars == <<stage, money, seatBack, cleared, announced, contested>>
work == <<money, seatBack, cleared>>

Init ==
    /\ stage = "none"
    /\ money = FALSE
    /\ seatBack = "no"
    /\ cleared = FALSE
    /\ announced = FALSE
    /\ contested = FALSE

(* The work *)

\* The money may come late, when the refund has been given up already.
ReturnMoney ==
    /\ stage # "none"
    /\ money' = TRUE
    /\ UNCHANGED <<stage, seatBack, cleared, announced, contested>>

GiveSeatBack ==
    /\ money
    /\ seatBack' = "given"
    /\ UNCHANGED <<stage, money, cleared, announced, contested>>

\* The inventory answers that it could not: the refund goes on all the same.
RefuseSeat ==
    /\ money
    /\ seatBack = "no"
    /\ seatBack' = "refused"
    /\ UNCHANGED <<stage, money, cleared, announced, contested>>

CancelTickets ==
    /\ seatBack # "no"
    /\ cleared' = TRUE
    /\ UNCHANGED <<stage, money, seatBack, announced, contested>>

(* The stage *)

\* The stage one step further, once the work of the new one is done.
Ask == stage = "none" /\ stage' = "refund_initiated"
GiveUp == stage = "refund_initiated" /\ stage' = "failed"
MoneyIsBack == money /\ stage = "refund_initiated" /\ stage' = "payment_refunded"
SeatIsBack ==
    seatBack # "no" /\ stage = "payment_refunded" /\ stage' = "seats_released"
Close == cleared /\ stage = "seats_released" /\ stage' = "completed"

\* The work that a stage says is done.
Done(s) ==
    /\ s \in {"payment_refunded", "seats_released", "completed"} => money
    /\ s \in {"seats_released", "completed"} => seatBack # "no"
    /\ s = "completed" => cleared

\* A handler saves its stale copy.
Overwrite == contested /\ stage' # "none" /\ Done(stage')

\* Announced with the end of the refund, or not at all.
Move ==
    /\ \/ Ask \/ GiveUp \/ MoneyIsBack \/ SeatIsBack \/ Close \/ Overwrite
       \/ stage' = stage
    /\ announced' # announced => announced' = TRUE /\ cleared /\ stage' = "completed"
    /\ UNCHANGED work

Next == ReturnMoney \/ GiveSeatBack \/ RefuseSeat \/ CancelTickets \/ Move

Spec == Init /\ [][Next]_vars
=============================================================================
