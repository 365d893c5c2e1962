-------------------------- MODULE PaymentApiProofs --------------------------
(***************************************************************************)
(* Proofs about PaymentApi and the rate limiter in front of it: type       *)
(* correctness, that a key is charged once and answered one way, what the  *)
(* entry in Redis is worth, and (from RateLimitProofs) that nobody is      *)
(* refused with room left, nor many more let through than allowed; that    *)
(* the whole route implements the abstract payment (Payment).              *)
(***************************************************************************)
EXTENDS PaymentApi, RateLimitProofs

-----------------------------------------------------------------------------
(* Types *)

\* A request that has reached payment-service has a key; an answer that is
\* being stored, or was given, is that of a handler that is over.
Begun ==
    \A r \in Requests :
        /\ pc[r] = "idle" <=> key[r] = None
        /\ r \in marked => pc[r] # "idle"
        /\ r \in storing => pc[r] = "over" /\ r \in marked /\ reply[r] \in PaymentStatuses
        /\ pc[r] = "save" => reply[r] \in {"succeeded", "failed"}
        /\ answer[r] \in PaymentStatuses => pc[r] = "over"
TypeInv == TypeOK /\ Begun

LEMMA TypeInit == Init => TypeInv
BY LimitAssumption DEF Init, LimiterInit, TypeInv, TypeOK, LimiterTypeOK, Begun,
   LimiterSteps, Steps, Answers, PaymentStatuses

LEMMA TypeStep ==
    ASSUME TypeInv, [Next]_vars
    PROVE  TypeInv'
<1> USE LimitAssumption, KeysAssumption DEF TypeInv, TypeOK, LimiterTypeOK, Begun,
        LimiterSteps, Steps, Handler, Answers, PaymentStatuses, Goto, LimiterGoto,
        Fault, NoFault, limiter
<1>1. ASSUME NEW r \in Requests, Limit(r) PROVE TypeInv'
  <2> USE <1>1 DEF Limit, serving
  <2>1. CASE Arrive(r)
    BY <2>1 DEF Arrive
  <2>2. CASE Trim(r)
    BY <2>2 DEF Trim
  <2>3. CASE Count(r) \/ Refuse(r)
    BY <2>3 DEF Count, Refuse
  <2>4. CASE Add(r)
    BY <2>4 DEF Add
  <2>5. CASE Expire(r)
    BY <2>5 DEF Expire
  <2>6. CASE FailOpen(r)
    BY <2>6 DEF FailOpen, InLimiter
  <2> QED
    BY <2>1, <2>2, <2>3, <2>4, <2>5, <2>6 DEF LimiterStep
<1>2. ASSUME NEW r \in Requests, Forward(r) PROVE TypeInv'
  BY <1>2 DEF Forward
<1>3. ASSUME NEW r \in Requests, ProxyGivesUp(r) PROVE TypeInv'
  BY <1>3 DEF ProxyGivesUp, serving
<1>4. ASSUME NEW r \in Requests, Get(r) PROVE TypeInv'
  BY <1>4 DEF Get, RedisFails, Respond
<1>5. ASSUME NEW r \in Requests, SetNX(r) PROVE TypeInv'
  BY <1>5 DEF SetNX, SetEntry, RedisFails, Respond
<1>6. ASSUME NEW r \in Requests, StoreAnswer(r) PROVE TypeInv'
  BY <1>6 DEF StoreAnswer, SetEntry
<1>7. ASSUME NEW r \in Requests, FindPayment(r) PROVE TypeInv'
  BY <1>7 DEF FindPayment, Return, Respond
<1>8. ASSUME NEW r \in Requests, InsertPayment(r) PROVE TypeInv'
  BY <1>8 DEF InsertPayment, SetPayment, Throw, Respond
<1>9. ASSUME NEW r \in Requests, SaveProcessing(r) PROVE TypeInv'
  BY <1>9 DEF SaveProcessing, SetPayment
<1>10. ASSUME NEW r \in Requests, Charge(r) PROVE TypeInv'
  BY <1>10 DEF Charge
<1>11. ASSUME NEW r \in Requests, SavePayment(r) PROVE TypeInv'
  BY <1>11 DEF SavePayment, SetPayment, Return, Respond
<1>12. ASSUME NEW r \in Requests, PaymentError(r) PROVE TypeInv'
  BY <1>12 DEF PaymentError, SetPayment, Throw, Respond
<1>13. ASSUME NEW k \in Keys, KeyLapses(k) PROVE TypeInv'
  BY <1>13 DEF KeyLapses, serving
<1>13a. ASSUME NEW k \in Keys, RefundPayment(k) PROVE TypeInv'
  BY <1>13a DEF RefundPayment, serving
<1>14. ASSUME Clock PROVE TypeInv'
  BY <1>14 DEF Clock, Tick, serving
<1>15. ASSUME PaymentServiceRestarts PROVE TypeInv'
  BY <1>15 DEF PaymentServiceRestarts
<1>16. ASSUME ApiGatewayRestarts PROVE TypeInv'
  BY <1>16 DEF ApiGatewayRestarts, LimiterRestarts, Inside, serving
<1>17. ASSUME UNCHANGED vars PROVE TypeInv'
  BY <1>17 DEF vars
<1> QED
  BY <1>1, <1>2, <1>3, <1>4, <1>5, <1>6, <1>7, <1>8, <1>9, <1>10, <1>11, <1>12, <1>13,
     <1>14, <1>15, <1>16, <1>17, <1>13a DEF Next

\* Every reachable state of the payment route is well typed.
THEOREM TypeCorrect == Spec => []TypeOK
<1>1. TypeInv => TypeOK
  BY DEF TypeInv
<1> QED
  BY <1>1, TypeInit, TypeStep, PTL DEF Spec

-----------------------------------------------------------------------------
(* ChargedOnce *)

\* The handlers behind the insert of the payment row.
Paying == {"processing", "charge", "save", "undo"}

\* The unique column admits one of them per key, before it has charged; without
\* a row nothing is charged.
PayInv ==
    /\ ChargedOnce
    /\ \A q, r \in Requests :
         key[q] = key[r] /\ pc[q] \in Paying /\ pc[r] \in Paying => q = r
    /\ \A r \in Requests :
         /\ pc[r] \in Paying => payment[key[r]] \in {"initiated", "processing"}
         /\ pc[r] \in {"processing", "charge"} => charges[key[r]] = 0
    /\ \A k \in Keys : payment[k] = "none" => charges[k] = 0

LEMMA PayInit == Init => PayInv
BY DEF Init, PayInv, ChargedOnce, Paying

LEMMA PayStep ==
    ASSUME TypeInv, PayInv, [Next]_vars
    PROVE  PayInv'
<1> USE KeysAssumption DEF TypeInv, TypeOK, Begun, Steps, Handler, PaymentStatuses,
        Goto, Fault, NoFault, limiter, PayInv, ChargedOnce, Paying
<1>1. ASSUME NEW r \in Requests, Limit(r) PROVE PayInv'
  BY <1>1 DEF Limit, serving
<1>2. ASSUME NEW r \in Requests, Forward(r) PROVE PayInv'
  BY <1>2 DEF Forward
<1>3. ASSUME NEW r \in Requests, ProxyGivesUp(r) PROVE PayInv'
  BY <1>3 DEF ProxyGivesUp, serving
<1>4. ASSUME NEW r \in Requests, Get(r) PROVE PayInv'
  BY <1>4 DEF Get, RedisFails, Respond
<1>5. ASSUME NEW r \in Requests, SetNX(r) PROVE PayInv'
  BY <1>5 DEF SetNX, SetEntry, RedisFails, Respond
<1>6. ASSUME NEW r \in Requests, StoreAnswer(r) PROVE PayInv'
  BY <1>6 DEF StoreAnswer, SetEntry
<1>7. ASSUME NEW r \in Requests, FindPayment(r) PROVE PayInv'
  BY <1>7 DEF FindPayment, Return, Respond
<1>8. ASSUME NEW r \in Requests, InsertPayment(r) PROVE PayInv'
  BY <1>8 DEF InsertPayment, SetPayment, Throw, Respond
<1>9. ASSUME NEW r \in Requests, SaveProcessing(r) PROVE PayInv'
  BY <1>9 DEF SaveProcessing, SetPayment
<1>10. ASSUME NEW r \in Requests, Charge(r) PROVE PayInv'
  BY <1>10 DEF Charge
<1>11. ASSUME NEW r \in Requests, SavePayment(r) PROVE PayInv'
  BY <1>11 DEF SavePayment, SetPayment, Return, Respond
<1>12. ASSUME NEW r \in Requests, PaymentError(r) PROVE PayInv'
  BY <1>12 DEF PaymentError, SetPayment, Throw, Respond
<1>13. ASSUME NEW k \in Keys, KeyLapses(k) PROVE PayInv'
  BY <1>13 DEF KeyLapses, serving
<1>13a. ASSUME NEW k \in Keys, RefundPayment(k) PROVE PayInv'
  BY <1>13a DEF RefundPayment, serving
<1>14. ASSUME Clock PROVE PayInv'
  BY <1>14 DEF Clock, serving
<1>15. ASSUME PaymentServiceRestarts PROVE PayInv'
  BY <1>15 DEF PaymentServiceRestarts
<1>16. ASSUME ApiGatewayRestarts PROVE PayInv'
  BY <1>16 DEF ApiGatewayRestarts, serving
<1>17. ASSUME UNCHANGED vars PROVE PayInv'
  BY <1>17 DEF vars
<1> QED
  BY <1>1, <1>2, <1>3, <1>4, <1>5, <1>6, <1>7, <1>8, <1>9, <1>10, <1>11, <1>12, <1>13,
     <1>14, <1>15, <1>16, <1>17, <1>13a DEF Next

\* However often a payment is asked for, the card is charged once.
THEOREM ChargedOnceHolds == Spec => []ChargedOnce
<1>1. PayInv => ChargedOnce
  BY DEF PayInv
<1> QED
  BY <1>1, TypeInit, TypeStep, PayInit, PayStep, PTL DEF Spec

-----------------------------------------------------------------------------
(* AnswersAgree *)

\* What may be said of a payment with a status: after a refund its success too.
Says(status, word) == word = status \/ (word = "succeeded" /\ status = "refunded")

\* A final word, in Redis, in a handler or with the client, is the final status
\* of the payment row, or was it before the refund: nobody is paying any more
\* who could change it.
AnswerInv ==
    /\ \A k \in Keys : cache[k] \in Outcomes => Says(payment[k], cache[k])
    /\ \A r \in Requests :
         /\ answer[r] \in Outcomes => Says(payment[key[r]], answer[r])
         /\ r \in storing /\ reply[r] \in Outcomes => Says(payment[key[r]], reply[r])

LEMMA AnswerInit == Init => AnswerInv
BY DEF Init, AnswerInv, Outcomes

LEMMA AnswerStep ==
    ASSUME TypeInv, PayInv, AnswerInv, [Next]_vars
    PROVE  AnswerInv'
<1> USE KeysAssumption DEF TypeInv, TypeOK, Begun, Steps, Handler, PaymentStatuses,
        Goto, Fault, NoFault, limiter, Answers, PayInv, Paying, AnswerInv, Outcomes,
        Says
<1>1. ASSUME NEW r \in Requests, Limit(r) PROVE AnswerInv'
  BY <1>1 DEF Limit, serving
<1>2. ASSUME NEW r \in Requests, Forward(r) PROVE AnswerInv'
  BY <1>2 DEF Forward
<1>3. ASSUME NEW r \in Requests, ProxyGivesUp(r) PROVE AnswerInv'
  BY <1>3 DEF ProxyGivesUp, serving
<1>4. ASSUME NEW r \in Requests, Get(r) PROVE AnswerInv'
  BY <1>4 DEF Get, RedisFails, Respond
<1>5. ASSUME NEW r \in Requests, SetNX(r) PROVE AnswerInv'
  BY <1>5 DEF SetNX, SetEntry, RedisFails, Respond
<1>6. ASSUME NEW r \in Requests, StoreAnswer(r) PROVE AnswerInv'
  BY <1>6 DEF StoreAnswer, SetEntry
<1>7. ASSUME NEW r \in Requests, FindPayment(r) PROVE AnswerInv'
  BY <1>7 DEF FindPayment, Return, Respond
<1>8. ASSUME NEW r \in Requests, InsertPayment(r) PROVE AnswerInv'
  BY <1>8 DEF InsertPayment, SetPayment, Throw, Respond
<1>9. ASSUME NEW r \in Requests, SaveProcessing(r) PROVE AnswerInv'
  BY <1>9 DEF SaveProcessing, SetPayment
<1>10. ASSUME NEW r \in Requests, Charge(r) PROVE AnswerInv'
  BY <1>10 DEF Charge
<1>11. ASSUME NEW r \in Requests, SavePayment(r) PROVE AnswerInv'
  BY <1>11 DEF SavePayment, SetPayment, Return, Respond
<1>12. ASSUME NEW r \in Requests, PaymentError(r) PROVE AnswerInv'
  BY <1>12 DEF PaymentError, SetPayment, Throw, Respond
<1>13. ASSUME NEW k \in Keys, KeyLapses(k) PROVE AnswerInv'
  BY <1>13 DEF KeyLapses, serving
<1>13a. ASSUME NEW k \in Keys, RefundPayment(k) PROVE AnswerInv'
  BY <1>13a DEF RefundPayment, serving
<1>14. ASSUME Clock PROVE AnswerInv'
  BY <1>14 DEF Clock, serving
<1>15. ASSUME PaymentServiceRestarts PROVE AnswerInv'
  BY <1>15 DEF PaymentServiceRestarts
<1>16. ASSUME ApiGatewayRestarts PROVE AnswerInv'
  BY <1>16 DEF ApiGatewayRestarts, serving
<1>17. ASSUME UNCHANGED vars PROVE AnswerInv'
  BY <1>17 DEF vars
<1> QED
  BY <1>1, <1>2, <1>3, <1>4, <1>5, <1>6, <1>7, <1>8, <1>9, <1>10, <1>11, <1>12, <1>13,
     <1>14, <1>15, <1>16, <1>17, <1>13a DEF Next

\* Nobody is told that a payment has succeeded and somebody that it has failed.
THEOREM AnswersAgreeHolds == Spec => []AnswersAgree
<1>1. AnswerInv => AnswersAgree
  BY DEF AnswerInv, AnswersAgree, Outcomes, Says
<1> QED
  BY <1>1, TypeInit, TypeStep, PayInit, PayStep, AnswerInit, AnswerStep, PTL DEF Spec

-----------------------------------------------------------------------------
(* OneHandlerPerKey and CachedIsPayment *)

\* Requests that hold their key in Redis.
Holds(r) == r \in marked /\ (pc[r] \in Handler \/ r \in storing)

\* From the SET NX to the write of the answer the entry says busy, for one
\* request; and where every request sends the header nobody else touches the
\* payment meanwhile.
HoldInv ==
    /\ \A r \in Requests : Holds(r) => cache[key[r]] = "busy"
    /\ \A q, r \in Requests : Holds(q) /\ Holds(r) /\ key[q] = key[r] => q = r
CacheInv ==
    /\ CachedIsPayment
    /\ \A r \in storing :
         (\A q \in Requests : key[q] = key[r] => q \in marked)
           => Says(payment[key[r]], reply[r])

LEMMA HoldInit == Init => HoldInv
BY DEF Init, HoldInv, Holds, Handler

LEMMA HoldStep ==
    ASSUME Quick, TypeInv, HoldInv, [Next]_vars
    PROVE  HoldInv'
<1> USE KeysAssumption DEF TypeInv, TypeOK, Begun, Steps, Handler, PaymentStatuses,
        Goto, Fault, NoFault, limiter, HoldInv, Holds
<1>1. ASSUME NEW r \in Requests, Limit(r) PROVE HoldInv'
  BY <1>1 DEF Limit, serving
<1>2. ASSUME NEW r \in Requests, Forward(r) PROVE HoldInv'
  BY <1>2 DEF Forward
<1>3. ASSUME NEW r \in Requests, ProxyGivesUp(r) PROVE HoldInv'
  BY <1>3 DEF ProxyGivesUp, serving
<1>4. ASSUME NEW r \in Requests, Get(r) PROVE HoldInv'
  BY <1>4 DEF Get, RedisFails, Respond
<1>5. ASSUME NEW r \in Requests, SetNX(r) PROVE HoldInv'
  BY <1>5 DEF SetNX, SetEntry, RedisFails, Respond
<1>6. ASSUME NEW r \in Requests, StoreAnswer(r) PROVE HoldInv'
  BY <1>6 DEF StoreAnswer, SetEntry
<1>7. ASSUME NEW r \in Requests, FindPayment(r) PROVE HoldInv'
  BY <1>7 DEF FindPayment, Return, Respond
<1>8. ASSUME NEW r \in Requests, InsertPayment(r) PROVE HoldInv'
  BY <1>8 DEF InsertPayment, SetPayment, Throw, Respond
<1>9. ASSUME NEW r \in Requests, SaveProcessing(r) PROVE HoldInv'
  BY <1>9 DEF SaveProcessing, SetPayment
<1>10. ASSUME NEW r \in Requests, Charge(r) PROVE HoldInv'
  BY <1>10 DEF Charge
<1>11. ASSUME NEW r \in Requests, SavePayment(r) PROVE HoldInv'
  BY <1>11 DEF SavePayment, SetPayment, Return, Respond
<1>12. ASSUME NEW r \in Requests, PaymentError(r) PROVE HoldInv'
  BY <1>12 DEF PaymentError, SetPayment, Throw, Respond
<1>13. ASSUME NEW k \in Keys, KeyLapses(k) PROVE HoldInv'
  BY <1>13 DEF KeyLapses, Holding, serving
<1>13a. ASSUME NEW k \in Keys, RefundPayment(k) PROVE HoldInv'
  BY <1>13a DEF RefundPayment, serving
<1>14. ASSUME Clock PROVE HoldInv'
  BY <1>14 DEF Clock, serving
<1>15. ASSUME PaymentServiceRestarts PROVE HoldInv'
  BY <1>15 DEF PaymentServiceRestarts
<1>16. ASSUME ApiGatewayRestarts PROVE HoldInv'
  BY <1>16 DEF ApiGatewayRestarts, serving
<1>17. ASSUME UNCHANGED vars PROVE HoldInv'
  BY <1>17 DEF vars
<1> QED
  BY <1>1, <1>2, <1>3, <1>4, <1>5, <1>6, <1>7, <1>8, <1>9, <1>10, <1>11, <1>12, <1>13,
     <1>14, <1>15, <1>16, <1>17, <1>13a DEF Next

LEMMA OneHandler == ASSUME TypeInv, HoldInv PROVE OneHandlerPerKey
<1> SUFFICES ASSUME NEW k \in Keys PROVE Cardinality(Holding(k)) <= 1
  BY DEF OneHandlerPerKey
<1>1. \A q, r \in Holding(k) : q = r
  BY DEF TypeInv, TypeOK, HoldInv, Holds, Holding
<1>2. CASE Holding(k) = {}
  BY <1>2, FS_EmptySet
<1>3. CASE Holding(k) # {}
  <2>1. PICK r : Holding(k) = {r}
    BY <1>1, <1>3
  <2> QED
    BY <2>1, FS_Singleton
<1> QED
  BY <1>2, <1>3

\* As long as no request outlives its key in Redis, one request with the header
\* at a time is at work on a key.
THEOREM OneHandlerPerKeyHolds == Quick /\ Spec => []OneHandlerPerKey
<1> SUFFICES ASSUME Quick PROVE Spec => []OneHandlerPerKey
  OBVIOUS
<1>1. TypeInv /\ HoldInv /\ [Next]_vars => HoldInv'
  BY HoldStep
<1>2. TypeInv /\ HoldInv => OneHandlerPerKey
  BY OneHandler
<1> QED
  BY <1>1, <1>2, TypeInit, TypeStep, HoldInit, PTL DEF Spec

LEMMA CacheInit == Init => CacheInv
BY DEF Init, CacheInv, CachedIsPayment, PaymentStatuses

LEMMA CacheStep ==
    ASSUME Quick, TypeInv, HoldInv, CacheInv, [Next]_vars
    PROVE  CacheInv'
<1> USE KeysAssumption DEF TypeInv, TypeOK, Begun, Steps, Handler, PaymentStatuses,
        Goto, Fault, NoFault, limiter, HoldInv, Holds, CacheInv, CachedIsPayment,
        Says
<1>1. ASSUME NEW r \in Requests, Limit(r) PROVE CacheInv'
  BY <1>1 DEF Limit, serving
<1>2. ASSUME NEW r \in Requests, Forward(r) PROVE CacheInv'
  <2>1. pc[r] = "idle" /\ r \notin marked /\ r \notin storing
    BY <1>2 DEF Forward
  <2>2. /\ cache' = cache /\ payment' = payment /\ reply' = reply /\ storing' = storing
        /\ \A q \in Requests : q # r => key'[q] = key[q]
        /\ marked' \subseteq marked \cup {r}
    BY <1>2 DEF Forward
  <2>3. ASSUME NEW k \in Keys, \A q \in Requests : key'[q] = k => q \in marked'
        PROVE  \A q \in Requests : key[q] = k => q \in marked
    <3>1. key[r] # k
      BY <2>1, <2>3, <1>2 DEF Forward
    <3> QED
      BY <2>2, <2>3, <3>1
  <2> QED
    BY <2>1, <2>2, <2>3
<1>3. ASSUME NEW r \in Requests, ProxyGivesUp(r) PROVE CacheInv'
  BY <1>3 DEF ProxyGivesUp, serving
<1>4. ASSUME NEW r \in Requests, Get(r) PROVE CacheInv'
  BY <1>4 DEF Get, RedisFails, Respond
<1>5. ASSUME NEW r \in Requests, SetNX(r) PROVE CacheInv'
  BY <1>5 DEF SetNX, SetEntry, RedisFails, Respond
<1>6. ASSUME NEW r \in Requests, StoreAnswer(r) PROVE CacheInv'
  BY <1>6 DEF StoreAnswer, SetEntry
<1>7. ASSUME NEW r \in Requests, FindPayment(r) PROVE CacheInv'
  BY <1>7 DEF FindPayment, Return, Respond
<1>8. ASSUME NEW r \in Requests, InsertPayment(r) PROVE CacheInv'
  BY <1>8 DEF InsertPayment, SetPayment, Throw, Respond
<1>9. ASSUME NEW r \in Requests, SaveProcessing(r) PROVE CacheInv'
  BY <1>9 DEF SaveProcessing, SetPayment
<1>10. ASSUME NEW r \in Requests, Charge(r) PROVE CacheInv'
  BY <1>10 DEF Charge
<1>11. ASSUME NEW r \in Requests, SavePayment(r) PROVE CacheInv'
  BY <1>11 DEF SavePayment, SetPayment, Return, Respond
<1>12. ASSUME NEW r \in Requests, PaymentError(r) PROVE CacheInv'
  BY <1>12 DEF PaymentError, SetPayment, Throw, Respond
<1>13. ASSUME NEW k \in Keys, KeyLapses(k) PROVE CacheInv'
  BY <1>13 DEF KeyLapses, serving
<1>13a. ASSUME NEW k \in Keys, RefundPayment(k) PROVE CacheInv'
  BY <1>13a DEF RefundPayment, serving
<1>14. ASSUME Clock PROVE CacheInv'
  BY <1>14 DEF Clock, serving
<1>15. ASSUME PaymentServiceRestarts PROVE CacheInv'
  BY <1>15 DEF PaymentServiceRestarts
<1>16. ASSUME ApiGatewayRestarts PROVE CacheInv'
  BY <1>16 DEF ApiGatewayRestarts, serving
<1>17. ASSUME UNCHANGED vars PROVE CacheInv'
  BY <1>17 DEF vars
<1> QED
  BY <1>1, <1>2, <1>3, <1>4, <1>5, <1>6, <1>7, <1>8, <1>9, <1>10, <1>11, <1>12, <1>13,
     <1>14, <1>15, <1>16, <1>17, <1>13a DEF Next

\* What Redis repeats for an hour is what the database says, or said before a
\* refund, as long as all requests send the header and none outlives its key.
THEOREM CachedIsPaymentHolds == Quick /\ Spec => []CachedIsPayment
<1> SUFFICES ASSUME Quick PROVE Spec => []CachedIsPayment
  OBVIOUS
<1>1. TypeInv /\ HoldInv /\ [Next]_vars => HoldInv'
  BY HoldStep
<1>2. TypeInv /\ HoldInv /\ CacheInv /\ [Next]_vars => CacheInv'
  BY CacheStep
<1>3. CacheInv => CachedIsPayment
  BY DEF CacheInv
<1> QED
  BY <1>1, <1>2, <1>3, TypeInit, TypeStep, HoldInit, CacheInit, PTL DEF Spec

-----------------------------------------------------------------------------
(* The rate limiter *)

LEMMA LimiterMoves ==
    ASSUME TypeInv, [Next]_vars
    PROVE  LimiterNext
<1>1. faults \in Nat
  BY LimitAssumption DEF TypeInv, TypeOK, LimiterTypeOK
<1>2. CASE \E r \in Requests : Limit(r)
  BY <1>2 DEF Limit, LimiterNext
<1>3. CASE Clock
  BY <1>3 DEF Clock, LimiterNext
<1>4. CASE ApiGatewayRestarts
  BY <1>1, <1>4 DEF ApiGatewayRestarts, Fault, LimiterNext
<1>5. ASSUME NEW r \in Requests, Forward(r) \/ ProxyGivesUp(r) \/ Get(r) \/ SetNX(r)
      PROVE  UNCHANGED limiter /\ faults' >= faults
  BY <1>1, <1>5 DEF Forward, ProxyGivesUp, Get, SetNX, RedisFails, Fault, NoFault
<1>6. ASSUME NEW r \in Requests, StoreAnswer(r) \/ FindPayment(r) \/ Charge(r)
      PROVE  UNCHANGED limiter /\ faults' >= faults
  BY <1>1, <1>6 DEF StoreAnswer, FindPayment, Charge
<1>7. ASSUME NEW r \in Requests,
             InsertPayment(r) \/ SaveProcessing(r) \/ SavePayment(r) \/ PaymentError(r)
      PROVE  UNCHANGED limiter /\ faults' >= faults
  BY <1>1, <1>7 DEF InsertPayment, SaveProcessing, SavePayment, PaymentError, Fault, NoFault
<1>8. ASSUME NEW k \in Keys, KeyLapses(k) \/ RefundPayment(k)
      PROVE  UNCHANGED limiter /\ faults' >= faults
  BY <1>1, <1>8 DEF KeyLapses, RefundPayment
<1>9. ASSUME PaymentServiceRestarts \/ UNCHANGED vars
      PROVE  UNCHANGED limiter /\ faults' >= faults
  BY <1>1, <1>9 DEF PaymentServiceRestarts, Fault, vars, limiter
<1> QED
  BY <1>2, <1>3, <1>4, <1>5, <1>6, <1>7, <1>8, <1>9 DEF Next, LimiterNext

LEMMA RecordAlways == Spec => []RecordInv
<1>1. Init => RecordInv
  BY RecordInit DEF Init
<1>2. TypeInv /\ RecordInv /\ [Next]_vars => RecordInv'
  BY RecordStep, LimiterMoves DEF TypeInv, TypeOK
<1> QED
  BY <1>1, <1>2, TypeInit, TypeStep, PTL DEF Spec

\* However slow the limiter is, nobody is answered 429 unless as many requests as
\* allowed were put on record since the start of his window.
THEOREM RefusedOnlyWhenFullHolds == Spec => []RefusedOnlyWhenFull
<1>1. Spec => []RecordInv
  BY RecordAlways
<1>2. Init => FullInv
  BY FullInit DEF Init
<1>3. TypeInv /\ TypeInv' /\ RecordInv /\ FullInv /\ [Next]_vars => FullInv'
  BY FullStep, LimiterMoves DEF TypeInv, TypeOK
<1>4. FullInv => RefusedOnlyWhenFull
  BY FullRefusal
<1> QED
  BY <1>1, <1>2, <1>3, <1>4, TypeInit, TypeStep, PTL DEF Spec

\* The requests let through in any window, those let through because Redis failed
\* included, exceed the limit by no more than the others in the limiter at once,
\* the failures, and the records that lapsed too early.
THEOREM WindowBoundHolds == Spec => []WindowBound
<1>1. Spec => []RecordInv
  BY RecordAlways
<1>2. Init => ForgottenInv /\ WindowInv /\ OpenInv
  BY ForgottenInit, WindowInit DEF Init
<1>3. TypeInv /\ RecordInv /\ ForgottenInv /\ [Next]_vars => ForgottenInv'
  BY ForgottenStep, LimiterMoves DEF TypeInv, TypeOK
<1>4. TypeInv /\ TypeInv' /\ RecordInv /\ ForgottenInv /\ WindowInv /\ [Next]_vars
        => WindowInv'
  BY WindowStep, LimiterMoves DEF TypeInv, TypeOK
<1>5. TypeInv /\ TypeInv' /\ RecordInv /\ OpenInv /\ [Next]_vars => OpenInv'
  BY OpenStep, LimiterMoves DEF TypeInv, TypeOK
<1>6. TypeInv /\ WindowInv /\ OpenInv => WindowBound
  BY WindowBounded DEF TypeInv, TypeOK
<1> QED
  BY <1>1, <1>2, <1>3, <1>4, <1>5, <1>6, TypeInit, TypeStep, PTL DEF Spec

-----------------------------------------------------------------------------
(* ImplementsPayment *)

\* Who is about to save a success has taken the money.
AskedInv ==
    \A r \in Requests : pc[r] = "save" /\ reply[r] = "succeeded" => charges[key[r]] = 1

LEMMA AskedInit == Init => AskedInv
BY DEF Init, AskedInv

LEMMA AskedStep ==
    ASSUME TypeInv, PayInv, AskedInv, [Next]_vars
    PROVE  AskedInv'
<1> USE KeysAssumption DEF TypeInv, TypeOK, Begun, Steps, Handler, PaymentStatuses,
        Goto, Fault, NoFault, limiter, PayInv, Paying, AskedInv
<1>1. ASSUME NEW r \in Requests, Charge(r) PROVE AskedInv'
  BY <1>1 DEF Charge
<1>2. ASSUME NEW r \in Requests, Forward(r) PROVE AskedInv'
  BY <1>2 DEF Forward
<1>3. ASSUME NEW r \in Requests, FindPayment(r) \/ InsertPayment(r) PROVE AskedInv'
  BY <1>3 DEF FindPayment, InsertPayment, SetPayment, Return, Throw, Respond
<1>4. ASSUME NEW r \in Requests, SaveProcessing(r) \/ SavePayment(r) \/ PaymentError(r)
      PROVE  AskedInv'
  BY <1>4 DEF SaveProcessing, SavePayment, PaymentError, SetPayment, Return, Throw, Respond
<1>5. ASSUME NEW r \in Requests, Get(r) \/ SetNX(r) \/ StoreAnswer(r) PROVE AskedInv'
  BY <1>5 DEF Get, SetNX, StoreAnswer, SetEntry, RedisFails, Respond
<1>6. ASSUME NEW r \in Requests, Limit(r) \/ ProxyGivesUp(r) PROVE AskedInv'
  BY <1>6 DEF Limit, ProxyGivesUp, serving
<1>7. ASSUME NEW k \in Keys, KeyLapses(k) \/ RefundPayment(k) PROVE AskedInv'
  BY <1>7 DEF KeyLapses, RefundPayment, serving
<1>8. ASSUME Clock \/ PaymentServiceRestarts \/ ApiGatewayRestarts \/ UNCHANGED vars
      PROVE  AskedInv'
  BY <1>8 DEF Clock, PaymentServiceRestarts, ApiGatewayRestarts, serving, vars
<1> QED
  BY <1>1, <1>2, <1>3, <1>4, <1>5, <1>6, <1>7, <1>8 DEF Next

\* An outcome that was told is still told.
LEMMA ToldSame ==
    ASSUME \A q \in Requests : answer[q] \in Outcomes \/ answer'[q] \in Outcomes =>
             key'[q] = key[q] /\ answer'[q] = answer[q]
    PROVE  Told' = Told
<1>1. \A k \in Keys : Told'[k] = Told[k]
  BY DEF Told
<1> QED
  BY <1>1 DEF Told

\* A client hears the outcome of his payment.
LEMMA ToldMore ==
    ASSUME NEW r \in Requests, NEW what \in Outcomes, TypeInv, key[r] \in Keys, key' = key,
           answer[r] = "none", answer' = [answer EXCEPT ![r] = what]
    PROVE  Told' = [Told EXCEPT ![key[r]] = @ \cup {what}]
<1>1. \A k \in Keys : k # key[r] => Told'[k] = Told[k]
  BY DEF Told, TypeInv, TypeOK
<1>2. Told'[key[r]] = Told[key[r]] \cup {what}
  BY DEF Told, TypeInv, TypeOK, Outcomes
<1> QED
  BY <1>1, <1>2 DEF Told

\* Nobody has heard anything from a request whose handler is at work.
LEMMA Unheard ==
    ASSUME TypeInv, NEW r \in Requests, pc[r] # "over"
    PROVE  answer[r] \notin Outcomes
BY DEF TypeInv, Begun, Outcomes, PaymentStatuses

\* The answer of a handler: no outcome, an outcome nobody waits for, or one heard.
LEMMA Responding ==
    ASSUME TypeInv, NEW r \in Requests, NEW what, pc[r] # "over", key[r] \in Keys,
           key' = key, Respond(r, what)
    PROVE  /\ what \notin Outcomes => Told' = Told
           /\ what \in Outcomes =>
                Told' \in {Told, [Told EXCEPT ![key[r]] = @ \cup {what}]}
<1>1. answer[r] \notin Outcomes
  BY Unheard
<1>2. CASE answer[r] = "none" /\ what \in Outcomes
  BY <1>2, ToldMore DEF Respond, TypeInv, TypeOK
<1>3. CASE ~ (answer[r] = "none" /\ what \in Outcomes)
  <2>1. Told' = Told
    BY <1>1, <1>3, ToldSame DEF Respond, TypeInv, TypeOK, Outcomes
  <2> QED
    BY <2>1, <1>3
<1> QED
  BY <1>2, <1>3

LEMMA AbstractInit == Init => Abstract!Init
<1> SUFFICES ASSUME Init PROVE Abstract!Init
  OBVIOUS
<1>1. Status = [k \in Keys |-> "none"] /\ charges = [k \in Keys |-> 0]
  BY DEF Init, Status
<1>2. \A k \in Keys : Told[k] = {}
  BY DEF Init, Told, Outcomes
<1>3. Told = [k \in Keys |-> {}]
  BY <1>2 DEF Told
<1> QED
  BY <1>1, <1>3 DEF Abstract!Init

\* Steps that move neither the payment nor the card, and tell nobody an outcome.
LEMMA Unseen ==
    ASSUME payment' = payment, charges' = charges,
           \A q \in Requests : answer[q] \in Outcomes \/ answer'[q] \in Outcomes =>
             key'[q] = key[q] /\ answer'[q] = answer[q]
    PROVE  UNCHANGED Abstract!vars
BY ToldSame DEF Abstract!vars, Status

\* A word about the payment that is no outcome, or is the one reached.
LEMMA Telling ==
    ASSUME TypeInv, NEW r \in Requests, pc[r] \notin {"idle", "over"}, key' = key,
           UNCHANGED <<payment, charges>>, NEW what, Respond(r, what),
           what \in Outcomes => Says(payment[key[r]], what)
    PROVE  [Abstract!Next]_Abstract!vars
<1>1. key[r] \in Keys /\ Status' = Status
  BY DEF TypeInv, TypeOK, Begun, Status
<1>2. CASE Told' = Told
  BY <1>1, <1>2 DEF Abstract!vars
<1>3. CASE what \in Outcomes /\ Told' = [Told EXCEPT ![key[r]] = @ \cup {what}]
  <2>1. what \in Abstract!Words(key[r])
    BY <1>1, <1>3 DEF Status, Outcomes, Says, Abstract!Words
  <2>2. Abstract!Tell(key[r])
    BY <1>1, <1>3, <2>1 DEF Abstract!Tell
  <2> QED
    BY <1>1, <2>2 DEF Abstract!Next
<1> QED
  BY <1>1, <1>2, <1>3, Responding

\* A handler saves the outcome.
LEMMA Settling ==
    ASSUME TypeInv, NEW r \in Requests, key[r] \in Keys, NEW what \in {"succeeded", "failed"},
           payment[key[r]] \in {"initiated", "processing"},
           what = "succeeded" => charges[key[r]] = 1,
           SetPayment(r, what), charges' = charges,
           Told' \in {Told, [Told EXCEPT ![key[r]] = @ \cup {what}]}
    PROVE  Abstract!Next
<1>1. Status[key[r]] = "open"
  BY DEF Status
<1>2. Status' = [Status EXCEPT ![key[r]] = what]
  BY DEF Status, SetPayment, TypeInv, TypeOK, Outcomes
<1>3. Abstract!Settle(key[r], what)
  BY <1>1, <1>2 DEF Abstract!Settle
<1> QED
  BY <1>3 DEF Abstract!Next

\* Every step is one step of the abstract payment or none.
LEMMA AbstractStep ==
    ASSUME TypeInv, PayInv, AnswerInv, AskedInv, [Next]_vars
    PROVE  [Abstract!Next]_Abstract!vars
<1> USE DEF NoFault, Fault, limiter
<1> DEFINE Step == [Abstract!Next]_Abstract!vars
<1>a. \A r \in Requests : pc[r] # "idle" => key[r] \in Keys
  BY DEF TypeInv, TypeOK, Begun
<1>1. ASSUME NEW r \in Requests, Limit(r) PROVE Step
  BY <1>1, Unseen DEF Limit
<1>2. ASSUME NEW r \in Requests, Forward(r) PROVE Step
  <2>1. answer[r] = "none" /\ answer'[r] \in {"none", "unavailable"}
    BY <1>2 DEF Forward, TypeInv, TypeOK
  <2>2. \A q \in Requests : q # r => key'[q] = key[q] /\ answer'[q] = answer[q]
    BY <1>2 DEF Forward, TypeInv, TypeOK
  <2> QED
    BY <1>2, <2>1, <2>2, Unseen DEF Forward, Outcomes
<1>3. ASSUME NEW r \in Requests, ProxyGivesUp(r) PROVE Step
  BY <1>3, Unseen DEF ProxyGivesUp, TypeInv, TypeOK, Outcomes
<1>4. ASSUME NEW r \in Requests, Get(r) PROVE Step
  <2>1. CASE \E what : Respond(r, what) /\ (what \in Outcomes => cache[key[r]] = what)
    <3>1. PICK what : Respond(r, what) /\ (what \in Outcomes => cache[key[r]] = what)
      BY <2>1
    <3>2. what \in Outcomes => Says(payment[key[r]], what)
      BY <1>4, <3>1, <1>a DEF Get, AnswerInv, Outcomes
    <3> QED
      BY <1>4, <3>1, <3>2, Telling DEF Get
  <2>2. CASE answer' = answer
    BY <1>4, <2>2, Unseen DEF Get
  <2> QED
    BY <1>4, <2>1, <2>2 DEF Get, RedisFails, Outcomes
<1>5. ASSUME NEW r \in Requests, SetNX(r) PROVE Step
  <2>1. CASE \E what \in {"conflict", "error"} : Respond(r, what)
    BY <1>5, <2>1, Telling DEF SetNX, Outcomes
  <2>2. CASE answer' = answer
    BY <1>5, <2>2, Unseen DEF SetNX
  <2> QED
    BY <1>5, <2>1, <2>2 DEF SetNX, RedisFails
<1>6. ASSUME NEW r \in Requests, StoreAnswer(r) PROVE Step
  BY <1>6, Unseen DEF StoreAnswer
<1>7. ASSUME NEW r \in Requests, FindPayment(r) PROVE Step
  <2>1. CASE Return(r, payment[key[r]])
    BY <1>7, <2>1, Telling DEF FindPayment, Return, Says
  <2>2. CASE answer' = answer
    BY <1>7, <2>2, Unseen DEF FindPayment
  <2> QED
    BY <1>7, <2>1, <2>2 DEF FindPayment
<1>8. ASSUME NEW r \in Requests, InsertPayment(r) PROVE Step
  <2>1. CASE payment[key[r]] = "none" /\ SetPayment(r, "initiated") /\ answer' = answer
    <3>1. Told' = Told /\ charges' = charges /\ key[r] \in Keys
      BY <1>8, <2>1, <1>a, ToldSame DEF InsertPayment
    <3>2. Status[key[r]] = "none" /\ Status' = [Status EXCEPT ![key[r]] = "open"]
      BY <2>1, <3>1 DEF Status, SetPayment, TypeInv, TypeOK
    <3>3. Abstract!Open(key[r])
      BY <3>1, <3>2 DEF Abstract!Open
    <3> QED
      BY <3>1, <3>3 DEF Abstract!Next
  <2>2. CASE payment' = payment /\ Throw(r)
    BY <1>8, <2>2, Telling DEF InsertPayment, Throw, Outcomes
  <2> QED
    BY <1>8, <2>1, <2>2 DEF InsertPayment
<1>9. ASSUME NEW r \in Requests, SaveProcessing(r) PROVE Step
  <2>1. Told' = Told /\ charges' = charges
    BY <1>9, ToldSame DEF SaveProcessing
  <2>2. Status' = Status
    BY <1>9, <1>a DEF SaveProcessing, SetPayment, Status, TypeInv, TypeOK, PayInv, Paying
  <2> QED
    BY <2>1, <2>2 DEF Abstract!vars
<1>10. ASSUME NEW r \in Requests, Charge(r) PROVE Step
  <2>1. Told' = Told /\ Status' = Status /\ key[r] \in Keys
    BY <1>10, <1>a, ToldSame DEF Charge, Status
  <2>2. Status[key[r]] = "open" /\ charges[key[r]] = 0
    BY <1>10, <2>1 DEF Charge, Status, PayInv, Paying
  <2>3. CASE charges' = charges
    BY <2>1, <2>3 DEF Abstract!vars
  <2>4. CASE charges' = [charges EXCEPT ![key[r]] = @ + 1]
    <3>1. charges' = [charges EXCEPT ![key[r]] = 1]
      BY <2>1, <2>2, <2>4 DEF TypeInv, TypeOK
    <3>2. Abstract!Charge(key[r])
      BY <2>1, <2>2, <3>1 DEF Abstract!Charge
    <3> QED
      BY <2>1, <3>2 DEF Abstract!Next
  <2> QED
    BY <1>10, <2>3, <2>4 DEF Charge
<1>11. ASSUME NEW r \in Requests, SavePayment(r) PROVE Step
  <2>1. CASE SetPayment(r, reply[r]) /\ Return(r, reply[r])
    <3>1. /\ key[r] \in Keys /\ reply[r] \in {"succeeded", "failed"}
          /\ reply[r] = "succeeded" => charges[key[r]] = 1
          /\ payment[key[r]] \in {"initiated", "processing"}
      BY <1>11, <1>a DEF SavePayment, TypeInv, Begun, Outcomes, AskedInv, PayInv, Paying
    <3>2. Told' \in {Told, [Told EXCEPT ![key[r]] = @ \cup {reply[r]}]}
      BY <1>11, <2>1, <3>1, Responding DEF SavePayment, Return, Outcomes
    <3> QED
      BY <1>11, <2>1, <3>1, <3>2, Settling DEF SavePayment
  <2>2. CASE payment' = payment /\ answer' = answer
    BY <1>11, <2>2, Unseen DEF SavePayment
  <2> QED
    BY <1>11, <2>1, <2>2 DEF SavePayment
<1>12. ASSUME NEW r \in Requests, PaymentError(r) PROVE Step
  <2>1. /\ key[r] \in Keys /\ Told' = Told /\ charges' = charges
        /\ payment[key[r]] \in {"initiated", "processing"}
    BY <1>12, <1>a, Responding DEF PaymentError, Throw, Outcomes, PayInv, Paying
  <2>2. CASE SetPayment(r, "failed")
    BY <2>1, <2>2, Settling
  <2>3. CASE payment' = payment
    BY <2>1, <2>3 DEF Abstract!vars, Status
  <2> QED
    BY <1>12, <2>2, <2>3 DEF PaymentError
<1>13. ASSUME NEW k \in Keys, KeyLapses(k) PROVE Step
  BY <1>13, Unseen DEF KeyLapses
<1>13a. ASSUME NEW k \in Keys, RefundPayment(k) PROVE Step
  <2>1. Told' = Told /\ charges' = charges
    BY <1>13a, ToldSame DEF RefundPayment
  <2>2. Status[k] = "succeeded" /\ Status' = [Status EXCEPT ![k] = "refunded"]
    BY <1>13a DEF RefundPayment, Status, TypeInv, TypeOK
  <2> QED
    BY <2>1, <2>2 DEF Abstract!Refund, Abstract!Next
<1>14. ASSUME Clock PROVE Step
  BY <1>14, Unseen DEF Clock
<1>15. ASSUME PaymentServiceRestarts \/ ApiGatewayRestarts PROVE Step
  <2>1. \A q \in Requests : answer'[q] # answer[q] =>
          answer[q] = "none" /\ answer'[q] = "unavailable"
    BY <1>15 DEF PaymentServiceRestarts, ApiGatewayRestarts, TypeInv, TypeOK
  <2> QED
    BY <1>15, <2>1, Unseen DEF PaymentServiceRestarts, ApiGatewayRestarts, Outcomes
<1>16. ASSUME UNCHANGED vars PROVE Step
  BY <1>16, Unseen DEF vars
<1> QED
  BY <1>1, <1>2, <1>3, <1>4, <1>5, <1>6, <1>7, <1>8, <1>9, <1>10, <1>11, <1>12, <1>13,
     <1>14, <1>15, <1>16, <1>13a DEF Next

\* However often, in whatever overlap and through whatever failure a key is paid
\* under, it is one payment with one outcome, which is what everybody hears.
THEOREM ImplementsPaymentHolds == Spec => ImplementsPayment
<1>1. Spec => [](TypeInv /\ PayInv /\ AnswerInv /\ AskedInv)
  BY TypeInit, TypeStep, PayInit, PayStep, AnswerInit, AnswerStep, AskedInit, AskedStep,
     PTL DEF Spec
<1> QED
  BY <1>1, AbstractInit, AbstractStep, PTL DEF Spec, ImplementsPayment, Abstract!Spec
=============================================================================
