----------------------------- MODULE PaymentApi -----------------------------
(***************************************************************************)
(* POST /api/payments from the client to the card: the rate limiter of     *)
(* api-gateway (RateLimit), the proxy behind it (proxy/proxy.service.ts),  *)
(* the idempotency interceptor of payment-service                          *)
(* (payment/idempotency/idempotency.interceptor.ts) and initiatePayment    *)
(* (payment/payment.service.ts).  Clients repeat a request under its key   *)
(* when they got no answer, or a refusal, or for no reason.                *)
(*                                                                         *)
(* A handler takes one step per await.  It runs on when the proxy has      *)
(* given up waiting.  A failed save has not been applied.                  *)
(***************************************************************************)
EXTENDS RateLimit

CONSTANTS
    Keys,   \* idempotency keys; a client who sends the header sends the body's key
    Quick   \* TRUE: no request is under way for as long as a key lives in Redis

ASSUME QuickAssumption == Quick \in BOOLEAN
ASSUME KeysAssumption == None \notin Keys

VARIABLES
    \* Redis, PostgreSQL and the gateway of the card
    cache,    \* the entry of a key: absent, busy, or the status that was answered
    payment,  \* the payment row of a key
    charges,  \* how often money was taken for a key
    \* memory of payment-service
    key,      \* the key of a request
    marked,   \* requests that carry the header
    pc, reply,
    storing,  \* requests answered whose entry is still being written
    \* what the client was told
    answer

serving == <<pc, reply, storing>>
vars == <<clock, recorded, expiry, arrival, at, stamp, dropped, faults, cache, payment,
          charges, key, marked, pc, reply, storing, answer>>

PaymentStatuses == {"initiated", "processing", "succeeded", "failed", "refunded"}
Handler == {"find", "insert", "processing", "charge", "save", "undo"}
Steps == {"idle", "get", "setnx", "over"} \cup Handler
Answers == {"none", "conflict", "error", "unavailable"} \cup PaymentStatuses

TypeOK ==
    /\ LimiterTypeOK
    /\ cache \in [Keys -> {"absent", "busy"} \cup PaymentStatuses]
    /\ payment \in [Keys -> {"none"} \cup PaymentStatuses]
    /\ charges \in [Keys -> Nat]
    /\ key \in [Requests -> Keys \cup {None}]
    /\ marked \in SUBSET Requests
    /\ pc \in [Requests -> Steps]
    /\ reply \in [Requests -> {"none"} \cup PaymentStatuses]
    /\ storing \in SUBSET Requests
    /\ answer \in [Requests -> Answers]

Init ==
    /\ LimiterInit
    /\ cache = [k \in Keys |-> "absent"]
    /\ payment = [k \in Keys |-> "none"]
    /\ charges = [k \in Keys |-> 0]
    /\ key = [r \in Requests |-> None]
    /\ marked = {}
    /\ pc = [r \in Requests |-> "idle"]
    /\ reply = [r \in Requests |-> "none"]
    /\ storing = {}
    /\ answer = [r \in Requests |-> "none"]

Goto(r, step) == pc' = [pc EXCEPT ![r] = step]

\* The client hears what the handler says, if the proxy still waits for it.
Respond(r, what) ==
    /\ Goto(r, "over")
    /\ answer' = [answer EXCEPT ![r] = IF @ = "none" THEN what ELSE @]

-----------------------------------------------------------------------------
(* ProxyService.forward *)

Forward(r) ==
    /\ at[r] \in {"passed", "open"} /\ pc[r] = "idle" /\ answer[r] = "none"
    /\ \/ /\ \E k \in Keys : key' = [key EXCEPT ![r] = k]
          /\ \/ marked' = marked \cup {r} /\ Goto(r, "get")
             \/ marked' = marked /\ Goto(r, "find")
          /\ answer' = answer
          /\ NoFault
       \/ /\ answer' = [answer EXCEPT ![r] = "unavailable"]
          /\ Fault("proxy")
          /\ UNCHANGED <<key, marked, pc>>
    /\ UNCHANGED <<limiter, cache, payment, charges, reply, storing>>

\* 30 seconds are over, or the connection breaks: 502.
ProxyGivesUp(r) ==
    /\ pc[r] \notin {"idle", "over"} /\ answer[r] = "none"
    /\ Fault("proxy")
    /\ answer' = [answer EXCEPT ![r] = "unavailable"]
    /\ UNCHANGED <<limiter, cache, payment, charges, key, marked, serving>>

-----------------------------------------------------------------------------
(* IdempotencyInterceptor.intercept *)

\* An error of Redis ends the request.
RedisFails(r) == Respond(r, "error") /\ Fault("redis")

Get(r) ==
    /\ pc[r] = "get"
    /\ LET entry == cache[key[r]] IN
         \/ entry = "absent" /\ Goto(r, "setnx") /\ answer' = answer /\ NoFault
         \/ entry = "busy" /\ Respond(r, "conflict") /\ NoFault
         \/ entry \in PaymentStatuses /\ Respond(r, entry) /\ NoFault
         \/ RedisFails(r)
    /\ UNCHANGED <<limiter, cache, payment, charges, key, marked, reply, storing>>

SetEntry(r, entry) == cache' = [cache EXCEPT ![key[r]] = entry]

\* Mutant: SET without NX.
SetAlways(r) ==
    /\ pc[r] = "setnx"
    /\ SetEntry(r, "busy") /\ Goto(r, "find")
    /\ UNCHANGED <<limiter, payment, charges, key, marked, reply, storing, answer, faults>>

SetNX(r) ==
    /\ pc[r] = "setnx"
    /\ \/ /\ cache[key[r]] = "absent"
          /\ SetEntry(r, "busy") /\ Goto(r, "find")
          /\ answer' = answer /\ NoFault
       \/ /\ cache[key[r]] # "absent"
          /\ cache' = cache /\ Respond(r, "conflict") /\ NoFault
       \/ cache' = cache /\ RedisFails(r)
    /\ UNCHANGED <<limiter, payment, charges, key, marked, reply, storing>>

\* The tap behind the handler is not awaited: the client is answered first.
Return(r, status) ==
    /\ Respond(r, status)
    /\ reply' = [reply EXCEPT ![r] = status]
    /\ storing' = IF r \in marked THEN storing \cup {r} ELSE storing

\* A handler that throws leaves its key busy.
Throw(r) == Respond(r, "error") /\ UNCHANGED <<reply, storing>>

\* A write that is rejected ends the process: PaymentServiceRestarts.
StoreAnswer(r) ==
    /\ r \in storing
    /\ SetEntry(r, reply[r])
    /\ storing' = storing \ {r}
    /\ UNCHANGED <<limiter, payment, charges, key, marked, pc, reply, answer, faults>>

\* Requests that hold the key as theirs.
Holding(k) == {r \in marked : key[r] = k /\ (pc[r] \in Handler \/ r \in storing)}

\* The TTL of an hour.
KeyLapses(k) ==
    /\ cache[k] # "absent"
    /\ Quick => Holding(k) = {}
    /\ cache' = [cache EXCEPT ![k] = "absent"]
    /\ UNCHANGED <<limiter, faults, payment, charges, key, marked, serving, answer>>

-----------------------------------------------------------------------------
(* PaymentService.initiatePayment *)

SetPayment(r, status) == payment' = [payment EXCEPT ![key[r]] = status]

\* Mutant: a payment that is not through yet is returned as failed.
FindInProgress(r) ==
    /\ pc[r] = "find"
    /\ \/ /\ payment[key[r]] # "none"
          /\ Return(r, IF payment[key[r]] \in {"initiated", "processing"}
                         THEN "failed" ELSE payment[key[r]])
       \/ payment[key[r]] = "none" /\ Goto(r, "insert") /\ UNCHANGED <<reply, storing, answer>>
    /\ UNCHANGED <<limiter, faults, cache, payment, charges, key, marked>>

\* A payment with the key is returned as it is.
FindPayment(r) ==
    /\ pc[r] = "find"
    /\ \/ payment[key[r]] # "none" /\ Return(r, payment[key[r]])
       \/ payment[key[r]] = "none" /\ Goto(r, "insert") /\ UNCHANGED <<reply, storing, answer>>
    /\ UNCHANGED <<limiter, faults, cache, payment, charges, key, marked>>

\* Mutant: the column of the key is not unique.
InsertTwice(r) ==
    /\ pc[r] = "insert"
    /\ SetPayment(r, "initiated") /\ Goto(r, "processing")
    /\ UNCHANGED <<limiter, faults, cache, charges, key, marked, reply, storing, answer>>

\* The second insert of a key is rejected.
InsertPayment(r) ==
    /\ pc[r] = "insert"
    /\ \/ /\ payment[key[r]] = "none"
          /\ SetPayment(r, "initiated") /\ Goto(r, "processing")
          /\ UNCHANGED <<reply, storing, answer>> /\ NoFault
       \/ /\ (payment[key[r]] # "none" /\ NoFault) \/ Fault("db")
          /\ payment' = payment /\ Throw(r)
    /\ UNCHANGED <<limiter, cache, charges, key, marked>>

SaveProcessing(r) ==
    /\ pc[r] = "processing"
    /\ \/ SetPayment(r, "processing") /\ Goto(r, "charge") /\ NoFault
       \/ payment' = payment /\ Goto(r, "undo") /\ Fault("db")
    /\ UNCHANGED <<limiter, cache, charges, key, marked, reply, storing, answer>>

\* Mutant: the word of the gateway is taken for the status.
ChargeDeclined(r) ==
    /\ pc[r] = "charge"
    /\ Goto(r, "save")
    /\ charges' = charges
    /\ reply' = [reply EXCEPT ![r] = "declined"]
    /\ UNCHANGED <<limiter, faults, cache, payment, key, marked, storing, answer>>

\* Mutant: an answer of the gateway without an error is a success.
ChargeUnchecked(r) ==
    /\ pc[r] = "charge"
    /\ Goto(r, "save")
    /\ charges' \in {charges, [charges EXCEPT ![key[r]] = @ + 1]}
    /\ reply' = [reply EXCEPT ![r] = "succeeded"]
    /\ UNCHANGED <<limiter, faults, cache, payment, key, marked, storing, answer>>

\* The money is taken or the card declined; an error, before or after the money
\* was taken, is reported as declined.
Charge(r) ==
    /\ pc[r] = "charge"
    /\ Goto(r, "save")
    /\ \/ /\ charges' = [charges EXCEPT ![key[r]] = @ + 1]
          /\ \E status \in {"succeeded", "failed"} : reply' = [reply EXCEPT ![r] = status]
       \/ charges' = charges /\ reply' = [reply EXCEPT ![r] = "failed"]
    /\ UNCHANGED <<limiter, faults, cache, payment, key, marked, storing, answer>>

\* Mutant: the row is not saved when the card was declined.
SaveSucceeded(r) ==
    /\ pc[r] = "save"
    /\ payment' = IF reply[r] = "succeeded"
                    THEN [payment EXCEPT ![key[r]] = reply[r]] ELSE payment
    /\ Return(r, reply[r])
    /\ UNCHANGED <<limiter, faults, cache, charges, key, marked>>

SavePayment(r) ==
    /\ pc[r] = "save"
    /\ \/ SetPayment(r, reply[r]) /\ Return(r, reply[r]) /\ NoFault
       \/ /\ payment' = payment /\ Goto(r, "undo") /\ Fault("db")
          /\ UNCHANGED <<reply, storing, answer>>
    /\ UNCHANGED <<limiter, cache, charges, key, marked>>

\* The catch block: failed, whatever the gateway did, and the error goes on.
PaymentError(r) ==
    /\ pc[r] = "undo"
    /\ \/ SetPayment(r, "failed") /\ NoFault
       \/ payment' = payment /\ Fault("db")
    /\ Throw(r)
    /\ UNCHANGED <<limiter, cache, charges, key, marked>>

-----------------------------------------------------------------------------

\* RefundService.refundByBooking has got the money back, see Fulfilment.
RefundPayment(k) ==
    /\ payment[k] = "succeeded"
    /\ payment' = [payment EXCEPT ![k] = "refunded"]
    /\ UNCHANGED <<limiter, faults, cache, charges, key, marked, serving, answer>>

\* payment-service restarts; the proxy answers 502.
PaymentServiceRestarts ==
    /\ Fault("payment")
    /\ pc' = [r \in Requests |-> IF pc[r] = "idle" THEN "idle" ELSE "over"]
    /\ answer' = [r \in Requests |->
         IF pc[r] \notin {"idle", "over"} /\ answer[r] = "none"
           THEN "unavailable" ELSE answer[r]]
    /\ storing' = {}
    /\ UNCHANGED <<limiter, cache, payment, charges, key, marked, reply>>

\* api-gateway restarts: its clients hear nothing.
ApiGatewayRestarts ==
    /\ Fault("api")
    /\ LimiterRestarts
    /\ answer' = [r \in Requests |->
         IF at[r] \in {"passed", "open"} /\ answer[r] = "none"
           THEN "unavailable" ELSE answer[r]]
    /\ UNCHANGED <<cache, payment, charges, key, marked, serving>>

Limit(r) ==
    /\ LimiterStep(r)
    /\ UNCHANGED <<cache, payment, charges, key, marked, serving, answer>>

Clock ==
    /\ Tick
    /\ UNCHANGED <<cache, payment, charges, key, marked, serving, answer>>

Next ==
    \/ \E r \in Requests :
         \/ Limit(r) \/ Forward(r) \/ ProxyGivesUp(r) \/ Get(r) \/ SetNX(r)
         \/ StoreAnswer(r) \/ FindPayment(r) \/ InsertPayment(r) \/ SaveProcessing(r)
         \/ Charge(r) \/ SavePayment(r) \/ PaymentError(r)
    \/ \E k \in Keys : KeyLapses(k) \/ RefundPayment(k)
    \/ Clock
    \/ PaymentServiceRestarts
    \/ ApiGatewayRestarts

Spec == Init /\ [][Next]_vars

-----------------------------------------------------------------------------
(* Properties *)

\* README.md 110: "Dual-layer idempotency protection": however often and in
\* whatever overlap a payment is asked for, with or without the header, across
\* timeouts of the proxy, restarts and the end of the key in Redis, money is
\* taken once (payment.service.ts 33-58, idempotency.interceptor.ts 35-62).
ChargedOnce == \A k \in Keys : charges[k] <= 1

\* The layer in Redis alone keeps two requests with the header apart, from the
\* SET NX to the write of the answer (idempotency.interceptor.ts 48-74).
OneHandlerPerKey == \A k \in Keys : Cardinality(Holding(k)) <= 1

\* What Redis repeats for an hour is what the database says, but for a refund
\* that came after the answer was given, as long as nobody pays under the key
\* without the header: else the answer of a request that found the payment in
\* progress would be kept (idempotency.interceptor.ts 65, refund.service.ts 90).
CachedIsPayment ==
    \A k \in Keys :
        /\ cache[k] \in PaymentStatuses
        /\ \A r \in Requests : key[r] = k => r \in marked
        => \/ cache[k] = payment[k]
           \/ cache[k] = "succeeded" /\ payment[k] = "refunded"

\* Two clients, or one who tries again, are never told that a payment has
\* succeeded, or was refunded, and that it has failed.
AnswersAgree ==
    \A q, r \in Requests :
        key[q] = key[r] => ~ (answer[q] \in {"succeeded", "refunded"} /\ answer[r] = "failed")

\* What the clients of a key have heard of the outcome of its payment.
Outcomes == {"succeeded", "failed", "refunded"}
Told == [k \in Keys |-> {answer[r] : r \in {q \in Requests : key[q] = k}} \cap Outcomes]

\* A payment that has a row and no outcome is open.
Status == [k \in Keys |-> IF payment[k] \in {"initiated", "processing"} THEN "open" ELSE payment[k]]

Abstract == INSTANCE Payment WITH status <- Status, charged <- charges, told <- Told

\* README.md 382: "Payment | Strong + Idempotent": limiter, proxy, interceptor
\* and initiatePayment together are the payment of Payment: an outcome is
\* reached once, success only for money taken, and what Redis, a late handler
\* or a repeated request tells anybody is that outcome, or after a refund the
\* success it undid (payment.service.ts 33-97, idempotency.interceptor.ts 35-74).
ImplementsPayment == Abstract!Spec
=============================================================================
