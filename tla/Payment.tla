------------------------------ MODULE Payment ------------------------------
(***************************************************************************)
(* What an idempotency key promises to those who pay under it, however     *)
(* often they ask and whoever asks: one payment, money taken once at most, *)
(* while the payment is open; an outcome that is reached once and that     *)
(* only a refund of a success changes; success for money taken only; and   *)
(* no word to anybody about the outcome before it is reached, or another   *)
(* than it is or, after a refund, was.  Money may be taken for a payment   *)
(* that is recorded as failed, or stays open for ever: an error after the  *)
(* charge does that.  PaymentApi implements this.                          *)
(***************************************************************************)
EXTENDS Naturals

CONSTANT Keys

VARIABLES
    status,   \* of the payment of a key: none, open, succeeded, failed or refunded
    charged,  \* how often money was taken under a key
    told      \* outcomes the clients of a key have heard

vars == <<status, charged, told>>

Init ==
    /\ status = [k \in Keys |-> "none"]
    /\ charged = [k \in Keys |-> 0]
    /\ told = [k \in Keys |-> {}]

Open(k) ==
    /\ status[k] = "none"
    /\ status' = [status EXCEPT ![k] = "open"]
    /\ UNCHANGED <<charged, told>>

Charge(k) ==
    /\ status[k] = "open"
    /\ charged[k] = 0
    /\ charged' = [charged EXCEPT ![k] = 1]
    /\ UNCHANGED <<status, told>>

\* The client who waits for the outcome may hear it at once.
Settle(k, outcome) ==
    /\ status[k] = "open"
    /\ outcome = "succeeded" => charged[k] = 1
    /\ status' = [status EXCEPT ![k] = outcome]
    /\ told' \in {told, [told EXCEPT ![k] = @ \cup {outcome}]}
    /\ UNCHANGED charged

Refund(k) ==
    /\ status[k] = "succeeded"
    /\ status' = [status EXCEPT ![k] = "refunded"]
    /\ UNCHANGED <<charged, told>>

\* Who kept the answer of a payment that was refunded since repeats it.
Words(k) == IF status[k] = "refunded" THEN {"succeeded", "refunded"}
            ELSE {status[k]} \cap {"succeeded", "failed"}

Tell(k) ==
    /\ \E word \in Words(k) : told' = [told EXCEPT ![k] = @ \cup {word}]
    /\ UNCHANGED <<status, charged>>

Next ==
    \E k \in Keys :
        \/ Open(k) \/ Charge(k) \/ Refund(k) \/ Tell(k)
        \/ \E outcome \in {"succeeded", "failed"} : Settle(k, outcome)

Spec == Init /\ [][Next]_vars
=============================================================================
