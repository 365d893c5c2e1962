-------------------------- MODULE RateLimitProofs ---------------------------
(***************************************************************************)
(* What the rate limiter keeps up by itself, whatever is behind it and     *)
(* however slow it is: the inductive invariants from which                 *)
(* PaymentApiProofs has WindowBound and RefusedOnlyWhenFull.               *)
(***************************************************************************)
EXTENDS RateLimit, FiniteSetTheorems, TLAPS

\* What the modules around the limiter let it do; failures elsewhere count too.
LimiterNext ==
    \/ UNCHANGED limiter /\ faults' >= faults
    \/ \E r \in Requests : LimiterStep(r)
    \/ Tick
    \/ LimiterRestarts /\ faults' >= faults

-----------------------------------------------------------------------------
(* Finite sets of requests *)

LEMMA RequestsFinite ==
    ASSUME NEW S \in SUBSET Requests
    PROVE  IsFiniteSet(S) /\ Cardinality(S) \in Nat
BY FiniteAssumption, FS_Subset, FS_CardinalityType

LEMMA LargerSet ==
    ASSUME NEW S \in SUBSET Requests, NEW T \in SUBSET Requests, S \subseteq T
    PROVE  Cardinality(S) <= Cardinality(T)
BY RequestsFinite, FS_Subset

LEMMA OneMore ==
    ASSUME NEW S \in SUBSET Requests, NEW r \in Requests
    PROVE  Cardinality(S \cup {r}) <= Cardinality(S) + 1
<1>1. IsFiniteSet(S) /\ Cardinality(S) \in Nat
  BY RequestsFinite
<1>2. Cardinality(S \cup {r}) = IF r \in S THEN Cardinality(S) ELSE Cardinality(S) + 1
  BY <1>1, FS_AddElement
<1>3. Cardinality(S \cup {r}) \in {Cardinality(S), Cardinality(S) + 1}
  BY <1>2
<1> QED
  BY <1>1, <1>3

LEMMA TwoParts ==
    ASSUME NEW S \in SUBSET Requests, NEW T \in SUBSET Requests
    PROVE  Cardinality(S \cup T) <= Cardinality(S) + Cardinality(T)
<1>1. IsFiniteSet(S) /\ IsFiniteSet(T) /\ Cardinality(S) \in Nat /\ Cardinality(T) \in Nat
  BY RequestsFinite
<1>2. Cardinality(S \cap T) \in Nat
  BY RequestsFinite
<1>3. Cardinality(S \cup T) = Cardinality(S) + Cardinality(T) - Cardinality(S \cap T)
  BY <1>1, FS_Union
<1> QED
  BY <1>1, <1>2, <1>3

-----------------------------------------------------------------------------
(* Refused only when full *)

\* Requests put on record since the start of the window of r.
Filling(r) == {q \in Requests : stamp[q] # 0 /\ arrival[r] < stamp[q] + Window}

\* Nobody is on record before he has arrived or after now; after a request has
\* trimmed, nothing on record was put there before its window began: what
\* others add while it waits is younger still.
RecordInv ==
    /\ \A q \in Requests :
         /\ arrival[q] <= clock /\ stamp[q] <= clock
         /\ stamp[q] # 0 => arrival[q] <= stamp[q]
         /\ stamp[q] # 0 => at[q] \notin {"none", "trim", "count", "range", "add"}
    /\ \A q \in recorded : stamp[q] # 0
    /\ \A r \in Requests :
         at[r] = "count" => \A q \in recorded : arrival[r] < stamp[q] + Window
FullInv ==
    \A r \in Requests : at[r] \in {"range", "refused"} => Cardinality(Filling(r)) >= Max

LEMMA RecordInit == LimiterInit => RecordInv
BY DEF LimiterInit, RecordInv

LEMMA RecordStep ==
    ASSUME LimiterTypeOK, RecordInv, LimiterNext
    PROVE  RecordInv'
<1> USE LimitAssumption DEF LimiterTypeOK, RecordInv, Inside, InLimiter, LimiterGoto, LimiterSteps
<1>1. ASSUME NEW r \in Requests, Arrive(r) PROVE RecordInv'
  BY <1>1 DEF Arrive
<1>2. ASSUME NEW r \in Requests, Trim(r) PROVE RecordInv'
  BY <1>2 DEF Trim
<1>3. ASSUME NEW r \in Requests, Count(r) \/ Refuse(r) PROVE RecordInv'
  BY <1>3 DEF Count, Refuse
<1>4. ASSUME NEW r \in Requests, Add(r) PROVE RecordInv'
  BY <1>4 DEF Add
<1>5. ASSUME NEW r \in Requests, Expire(r) PROVE RecordInv'
  BY <1>5 DEF Expire
<1>6. ASSUME NEW r \in Requests, FailOpen(r) PROVE RecordInv'
  BY <1>6 DEF FailOpen
<1>7. CASE Tick
  BY <1>7 DEF Tick
<1>8. CASE LimiterRestarts
  BY <1>8 DEF LimiterRestarts
<1>9. CASE UNCHANGED limiter
  BY <1>9 DEF limiter
<1> QED
  BY <1>1, <1>2, <1>3, <1>4, <1>5, <1>6, <1>7, <1>8, <1>9 DEF LimiterNext, LimiterStep

\* Nobody who has filled the window of a request inside is taken out of it again.
LEMMA FillingGrows ==
    ASSUME LimiterTypeOK, RecordInv, LimiterNext, NEW r \in Requests, at[r] # "none"
    PROVE  Filling(r) \subseteq Filling(r)'
<1> USE DEF LimiterTypeOK, RecordInv, Filling, Inside, InLimiter, LimiterGoto, LimiterSteps
<1>1. ASSUME NEW q \in Requests, LimiterStep(q)
      PROVE  Filling(r) \subseteq Filling(r)'
  <2>1. CASE Arrive(q)
    BY <2>1 DEF Arrive
  <2>2. CASE Add(q)
    BY <2>2 DEF Add
  <2>3. CASE Trim(q) \/ Count(q) \/ Refuse(q) \/ Expire(q) \/ FailOpen(q)
    BY <2>3 DEF Trim, Count, Refuse, Expire, FailOpen
  <2> QED
    BY <1>1, <2>1, <2>2, <2>3 DEF LimiterStep
<1>2. CASE Tick
  BY <1>2 DEF Tick
<1>3. CASE LimiterRestarts
  BY <1>3 DEF LimiterRestarts
<1>4. CASE UNCHANGED limiter
  BY <1>4 DEF limiter
<1> QED
  BY <1>1, <1>2, <1>3, <1>4 DEF LimiterNext

\* Who is on the way to a refusal has counted, and found the set full.
LEMMA RefusedByCount ==
    ASSUME LimiterTypeOK, LimiterNext, NEW r \in Requests,
           at[r] \notin {"range", "refused"}, at'[r] \in {"range", "refused"}
    PROVE  /\ at[r] = "count" /\ Cardinality(recorded) >= Max
           /\ stamp' = stamp /\ arrival' = arrival
<1> USE DEF LimiterTypeOK, Inside, InLimiter, LimiterGoto, LimiterSteps
<1>1. ASSUME NEW q \in Requests, LimiterStep(q)
      PROVE  q = r /\ Count(r)
  BY <1>1 DEF LimiterStep, Arrive, Trim, Count, Refuse, Add, Expire, FailOpen
<1>2. ~ Tick
  BY DEF Tick
<1>3. ~ LimiterRestarts
  BY DEF LimiterRestarts
<1>4. ~ UNCHANGED limiter
  BY DEF limiter
<1>5. Count(r)
  BY <1>1, <1>2, <1>3, <1>4 DEF LimiterNext
<1> QED
  BY <1>5 DEF Count

LEMMA FullInit == LimiterInit => FullInv
BY DEF LimiterInit, FullInv

LEMMA FullStep ==
    ASSUME LimiterTypeOK, LimiterTypeOK', RecordInv, FullInv, LimiterNext
    PROVE  FullInv'
<1> SUFFICES ASSUME NEW r \in Requests, at'[r] \in {"range", "refused"}
             PROVE  Cardinality(Filling(r)') >= Max
  BY DEF FullInv
<1>0. Max \in Nat /\ Filling(r) \in SUBSET Requests /\ Filling(r)' \in SUBSET Requests
      /\ recorded \in SUBSET Requests
  BY LimitAssumption DEF Filling, LimiterTypeOK
<1>1. CASE at[r] \in {"range", "refused"}
  <2>1. Cardinality(Filling(r)) >= Max
    BY <1>1 DEF FullInv
  <2>2. Filling(r) \subseteq Filling(r)'
    BY <1>1, FillingGrows
  <2>3. Cardinality(Filling(r)) <= Cardinality(Filling(r)')
    BY <1>0, <2>2, LargerSet
  <2> QED
    BY <1>0, <2>1, <2>3, RequestsFinite
<1>2. CASE at[r] \notin {"range", "refused"}
  <2>1. /\ at[r] = "count" /\ Cardinality(recorded) >= Max
        /\ stamp' = stamp /\ arrival' = arrival
    BY <1>2, RefusedByCount
  <2>2. recorded \subseteq Filling(r)'
    BY <1>0, <2>1 DEF RecordInv, Filling
  <2>3. Cardinality(recorded) <= Cardinality(Filling(r)')
    BY <1>0, <2>2, LargerSet
  <2> QED
    BY <1>0, <2>1, <2>3, RequestsFinite
<1> QED
  BY <1>1, <1>2

LEMMA FullRefusal == ASSUME FullInv PROVE RefusedOnlyWhenFull
BY DEF FullInv, RefusedOnlyWhenFull, Filling

-----------------------------------------------------------------------------
(* The window bound *)

\* Requests past the count that lie in the window that ends at t and are on
\* record by then, or may still be.
Through(t) ==
    {r \in Requests : /\ \/ at[r] = "add" /\ clock <= t
                         \/ at[r] \in {"expire", "passed"} /\ stamp[r] <= t /\ r \notin dropped
                      /\ arrival[r] <= t /\ t < arrival[r] + Window}
OpenOnes == {r \in Requests : at[r] = "open"}

\* A request past its count that is off the record lies before the window of
\* everybody still to come, unless the set lapsed with it.
ForgottenInv ==
    \A q \in Requests :
        at[q] \in {"expire", "passed"} /\ q \notin recorded /\ q \notin dropped
            => arrival[q] + Window <= clock
WindowInv ==
    /\ Cardinality(Inside) <= MaxInside
    /\ \A t \in 1..MaxClock : Cardinality(Through(t)) < Max + MaxInside
OpenInv == Cardinality(OpenOnes) <= faults

LEMMA ForgottenInit == LimiterInit => ForgottenInv
BY DEF LimiterInit, ForgottenInv

LEMMA ForgottenStep ==
    ASSUME LimiterTypeOK, RecordInv, ForgottenInv, LimiterNext
    PROVE  ForgottenInv'
<1> USE LimitAssumption DEF LimiterTypeOK, RecordInv, ForgottenInv, Inside, InLimiter,
        LimiterGoto, LimiterSteps
<1>1. ASSUME NEW r \in Requests, Arrive(r) PROVE ForgottenInv'
  BY <1>1 DEF Arrive
<1>2. ASSUME NEW r \in Requests, Trim(r) PROVE ForgottenInv'
  BY <1>2 DEF Trim
<1>3. ASSUME NEW r \in Requests, Count(r) \/ Refuse(r) PROVE ForgottenInv'
  BY <1>3 DEF Count, Refuse
<1>4. ASSUME NEW r \in Requests, Add(r) PROVE ForgottenInv'
  BY <1>4 DEF Add
<1>5. ASSUME NEW r \in Requests, Expire(r) PROVE ForgottenInv'
  BY <1>5 DEF Expire
<1>6. ASSUME NEW r \in Requests, FailOpen(r) PROVE ForgottenInv'
  BY <1>6 DEF FailOpen
<1>7. CASE Tick
  BY <1>7 DEF Tick
<1>8. CASE LimiterRestarts
  BY <1>8 DEF LimiterRestarts
<1>9. CASE UNCHANGED limiter
  BY <1>9 DEF limiter
<1> QED
  BY <1>1, <1>2, <1>3, <1>4, <1>5, <1>6, <1>7, <1>8, <1>9 DEF LimiterNext, LimiterStep

LEMMA WindowInit == LimiterInit => WindowInv /\ OpenInv
<1> SUFFICES ASSUME LimiterInit PROVE WindowInv /\ OpenInv
  OBVIOUS
<1>1. Inside = {} /\ OpenOnes = {} /\ \A t \in 1..MaxClock : Through(t) = {}
  BY DEF LimiterInit, Inside, InLimiter, Through, OpenOnes
<1> QED
  BY <1>1, FS_EmptySet, LimitAssumption DEF WindowInv, OpenInv, LimiterInit

\* Only an arrival adds to the limiter, only a count to the windows that are
\* not over, and only a failure to the requests let through unseen.
LEMMA WindowMoves ==
    ASSUME LimiterTypeOK, RecordInv, LimiterNext
    PROVE  /\ \/ Inside' \subseteq Inside
              \/ \E r \in Requests : /\ Cardinality(Inside) < MaxInside
                                      /\ Inside' \subseteq Inside \cup {r}
           /\ \/ \A t \in 1..MaxClock : Through(t)' \subseteq Through(t)
              \/ \E r \in Requests :
                   /\ at[r] = "count" /\ Cardinality(recorded) < Max
                   /\ \A t \in 1..MaxClock : /\ Through(t)' \subseteq Through(t) \cup {r}
                                             /\ r \in Through(t)' => clock <= t
           /\ \/ OpenOnes' \subseteq OpenOnes /\ faults' >= faults
              \/ \E r \in Requests : OpenOnes' \subseteq OpenOnes \cup {r} /\ faults' = faults + 1
<1> USE LimitAssumption DEF LimiterTypeOK, Inside, InLimiter, LimiterGoto, LimiterSteps, Through,
        OpenOnes
<1> DEFINE Enters == \/ Inside' \subseteq Inside
                     \/ \E r \in Requests : /\ Cardinality(Inside) < MaxInside
                                             /\ Inside' \subseteq Inside \cup {r}
           Same == \A t \in 1..MaxClock : Through(t)' \subseteq Through(t)
           Passes == \E r \in Requests :
                       /\ at[r] = "count" /\ Cardinality(recorded) < Max
                       /\ \A t \in 1..MaxClock : /\ Through(t)' \subseteq Through(t) \cup {r}
                                                 /\ r \in Through(t)' => clock <= t
           Closed == OpenOnes' \subseteq OpenOnes /\ faults' >= faults
           Opens == \E r \in Requests : OpenOnes' \subseteq OpenOnes \cup {r} /\ faults' = faults + 1
<1>1. ASSUME NEW r \in Requests, Arrive(r) PROVE Enters /\ Same /\ Closed
  <2>1. Same /\ Closed
    BY <1>1 DEF Arrive
  <2>2. Cardinality(Inside) < MaxInside
    BY <1>1 DEF Arrive
  <2>3. Inside' \subseteq Inside \cup {r}
    BY <1>1 DEF Arrive
  <2> QED
    BY <2>1, <2>2, <2>3
<1>2. ASSUME NEW r \in Requests, Trim(r) PROVE Enters /\ Same /\ Closed
  BY <1>2 DEF Trim
<1>3. ASSUME NEW r \in Requests, Count(r) PROVE Enters /\ (Same \/ Passes) /\ Closed
  <2>1. Enters /\ Closed
    BY <1>3 DEF Count
  <2>2. CASE Cardinality(recorded) >= Max
    <3>1. Same
      BY <1>3, <2>2 DEF Count
    <3> QED
      BY <2>1, <3>1
  <2>3. CASE ~ (Cardinality(recorded) >= Max)
    <3>1. \A t \in 1..MaxClock : /\ Through(t)' \subseteq Through(t) \cup {r}
                                 /\ r \in Through(t)' => clock <= t
      BY <1>3, <2>3 DEF Count
    <3>2. Cardinality(recorded) < Max
      BY <2>3, RequestsFinite, LimitAssumption
    <3> QED
      BY <1>3, <2>1, <3>1, <3>2 DEF Count
  <2> QED
    BY <2>1, <2>2, <2>3
<1>4. ASSUME NEW r \in Requests, Add(r) PROVE Enters /\ Same /\ Closed
  BY <1>4 DEF Add
<1>5. ASSUME NEW r \in Requests, Expire(r) \/ Refuse(r) PROVE Enters /\ Same /\ Closed
  BY <1>5 DEF Expire, Refuse
<1>6. ASSUME NEW r \in Requests, FailOpen(r) PROVE Enters /\ Same /\ Opens
  <2>1. Enters /\ Same
    BY <1>6 DEF FailOpen
  <2>2. OpenOnes' \subseteq OpenOnes \cup {r} /\ faults' = faults + 1
    BY <1>6 DEF FailOpen, Fault
  <2> QED
    BY <2>1, <2>2
<1>7. ASSUME Tick PROVE Enters /\ Same /\ Closed
  <2>1. Enters /\ Closed
    BY <1>7 DEF Tick
  <2>2. Same
    BY <1>7 DEF Tick
  <2> QED
    BY <2>1, <2>2
<1>8. ASSUME LimiterRestarts /\ faults' >= faults PROVE Enters /\ Same /\ Closed
  BY <1>8 DEF LimiterRestarts
<1>9. ASSUME UNCHANGED limiter /\ faults' >= faults PROVE Enters /\ Same /\ Closed
  BY <1>9 DEF limiter
<1>10. ASSUME NEW r \in Requests, LimiterStep(r)
       PROVE  Enters /\ (Same \/ Passes) /\ (Closed \/ Opens)
  <2> HIDE DEF Enters, Same, Passes, Closed, Opens
  <2> QED
    BY <1>1, <1>2, <1>3, <1>4, <1>5, <1>6, <1>10 DEF LimiterStep
<1>11. Enters /\ (Same \/ Passes) /\ (Closed \/ Opens)
  <2> HIDE DEF Enters, Same, Passes, Closed, Opens
  <2>1. CASE Tick
    BY <2>1, <1>7
  <2>2. CASE LimiterRestarts /\ faults' >= faults
    BY <2>2, <1>8
  <2>3. CASE UNCHANGED limiter /\ faults' >= faults
    BY <2>3, <1>9
  <2> QED
    BY <2>1, <2>2, <2>3, <1>10 DEF LimiterNext
<1> QED
  BY <1>11

\* In a window that is not over, the others past their count are on record or,
\* as the request that counts is itself, in the limiter.
LEMMA OnRecordOrInside ==
    ASSUME LimiterTypeOK, RecordInv, ForgottenInv, NEW r \in Requests, at[r] = "count",
           NEW t \in 1..MaxClock, clock <= t
    PROVE  Through(t) \cup {r} \subseteq recorded \cup Inside
<1>1. r \in Inside
  BY DEF Inside, InLimiter
<1>2. ASSUME NEW q \in Through(t), q \notin Inside PROVE q \in recorded
  <2>1. at[q] = "passed" /\ t < arrival[q] + Window /\ q \notin dropped /\ q \in Requests
    BY <1>2 DEF Through, Inside, InLimiter
  <2> QED
    BY <1>2, <2>1, LimitAssumption DEF ForgottenInv, LimiterTypeOK
<1> QED
  BY <1>1, <1>2

LEMMA WindowStep ==
    ASSUME LimiterTypeOK, LimiterTypeOK', RecordInv, ForgottenInv, WindowInv, LimiterNext
    PROVE  WindowInv'
<1>0. /\ Max \in Nat /\ MaxInside \in Nat
      /\ Inside \in SUBSET Requests /\ Inside' \in SUBSET Requests
      /\ recorded \in SUBSET Requests
      /\ \A t \in 1..MaxClock : Through(t) \in SUBSET Requests
      /\ \A t \in 1..MaxClock : Through(t)' \in SUBSET Requests
  BY LimitAssumption DEF Inside, Through, LimiterTypeOK
<1>1. Cardinality(Inside') <= MaxInside
  <2>1. CASE Inside' \subseteq Inside
    <3>1. Cardinality(Inside') <= Cardinality(Inside)
      BY <1>0, <2>1, LargerSet
    <3> QED
      BY <1>0, <3>1, RequestsFinite DEF WindowInv
  <2>2. ASSUME NEW r \in Requests, Cardinality(Inside) < MaxInside,
               Inside' \subseteq Inside \cup {r}
        PROVE  Cardinality(Inside') <= MaxInside
    <3>1. Inside \cup {r} \in SUBSET Requests
      BY <1>0
    <3>2. Cardinality(Inside') <= Cardinality(Inside \cup {r})
      BY <1>0, <2>2, <3>1, LargerSet
    <3>3. Cardinality(Inside \cup {r}) <= Cardinality(Inside) + 1
      BY <1>0, OneMore
    <3>4. /\ Cardinality(Inside') \in Nat /\ Cardinality(Inside \cup {r}) \in Nat
          /\ Cardinality(Inside) \in Nat
      BY <1>0, <3>1, RequestsFinite
    <3> QED
      BY <1>0, <2>2, <3>2, <3>3, <3>4
  <2> QED
    BY <2>1, <2>2, WindowMoves
<1>2. ASSUME NEW t \in 1..MaxClock
      PROVE  Cardinality(Through(t)') < Max + MaxInside
  <2>1. CASE Through(t)' \subseteq Through(t)
    <3>1. Cardinality(Through(t)') <= Cardinality(Through(t))
      BY <1>0, <2>1, LargerSet
    <3>2. /\ Cardinality(Through(t)') \in Nat /\ Cardinality(Through(t)) \in Nat
          /\ Cardinality(Through(t)) < Max + MaxInside
      BY <1>0, RequestsFinite DEF WindowInv
    <3> QED
      BY <1>0, <3>1, <3>2
  <2>2. ASSUME NEW r \in Requests, at[r] = "count", Cardinality(recorded) < Max,
               Through(t)' \subseteq Through(t) \cup {r}, r \in Through(t)' => clock <= t
        PROVE  Cardinality(Through(t)') < Max + MaxInside
    <3>1. CASE r \notin Through(t)'
      <4>1. Through(t)' \subseteq Through(t)
        BY <2>2, <3>1
      <4> QED
        BY <2>1, <4>1
    <3>2. CASE r \in Through(t)'
      <4>1. Through(t)' \subseteq recorded \cup Inside
        BY <2>2, <3>2, OnRecordOrInside
      <4>2. recorded \cup Inside \in SUBSET Requests
        BY <1>0
      <4>3. Cardinality(Through(t)') <= Cardinality(recorded \cup Inside)
        BY <1>0, <4>1, <4>2, LargerSet
      <4>4. Cardinality(recorded \cup Inside) <= Cardinality(recorded) + Cardinality(Inside)
        BY <1>0, TwoParts
      <4>5. /\ Cardinality(Through(t)') \in Nat /\ Cardinality(recorded) \in Nat
            /\ Cardinality(recorded \cup Inside) \in Nat /\ Cardinality(Inside) \in Nat
        BY <1>0, <4>2, RequestsFinite
      <4>6. Cardinality(Inside) <= MaxInside
        BY DEF WindowInv
      <4> QED
        BY <1>0, <2>2, <4>3, <4>4, <4>5, <4>6
    <3> QED
      BY <3>1, <3>2
  <2> QED
    BY <2>1, <2>2, WindowMoves
<1> QED
  BY <1>1, <1>2 DEF WindowInv

LEMMA OpenStep ==
    ASSUME LimiterTypeOK, LimiterTypeOK', RecordInv, OpenInv, LimiterNext
    PROVE  OpenInv'
<1>0. /\ OpenOnes \in SUBSET Requests /\ OpenOnes' \in SUBSET Requests
      /\ faults \in Nat /\ faults' \in Nat
  BY LimitAssumption DEF OpenOnes, LimiterTypeOK
<1>1. Cardinality(OpenOnes) \in Nat /\ Cardinality(OpenOnes') \in Nat
  BY <1>0, RequestsFinite
<1>2. CASE OpenOnes' \subseteq OpenOnes /\ faults' >= faults
  <2>1. Cardinality(OpenOnes') <= Cardinality(OpenOnes)
    BY <1>0, <1>2, LargerSet
  <2> QED
    BY <1>0, <1>1, <1>2, <2>1 DEF OpenInv
<1>3. ASSUME NEW r \in Requests, OpenOnes' \subseteq OpenOnes \cup {r}, faults' = faults + 1
      PROVE  OpenInv'
  <2>1. OpenOnes \cup {r} \in SUBSET Requests
    BY <1>0
  <2>2. Cardinality(OpenOnes') <= Cardinality(OpenOnes \cup {r})
    BY <1>0, <1>3, <2>1, LargerSet
  <2>3. Cardinality(OpenOnes \cup {r}) <= Cardinality(OpenOnes) + 1
    BY <1>0, OneMore
  <2>4. Cardinality(OpenOnes \cup {r}) \in Nat
    BY <2>1, RequestsFinite
  <2> QED
    BY <1>0, <1>1, <1>3, <2>2, <2>3, <2>4 DEF OpenInv
<1> QED
  BY <1>2, <1>3, WindowMoves

LEMMA WindowBounded == ASSUME LimiterTypeOK, WindowInv, OpenInv PROVE WindowBound
<1> SUFFICES ASSUME NEW t \in 1..MaxClock
             PROVE  Cardinality(LetThrough(t)) < Max + MaxInside + faults + Cardinality(dropped)
  BY DEF WindowBound
<1>1. LetThrough(t) \subseteq (Through(t) \cup OpenOnes) \cup dropped
  BY DEF LetThrough, Through, OpenOnes
<1>2. /\ LetThrough(t) \in SUBSET Requests /\ Through(t) \in SUBSET Requests
      /\ OpenOnes \in SUBSET Requests /\ dropped \in SUBSET Requests
      /\ Through(t) \cup OpenOnes \in SUBSET Requests
      /\ (Through(t) \cup OpenOnes) \cup dropped \in SUBSET Requests
  BY DEF LetThrough, Through, OpenOnes, LimiterTypeOK
<1>3. Cardinality(LetThrough(t)) <= Cardinality((Through(t) \cup OpenOnes) \cup dropped)
  BY <1>1, <1>2, LargerSet
<1>4. Cardinality((Through(t) \cup OpenOnes) \cup dropped)
        <= Cardinality(Through(t) \cup OpenOnes) + Cardinality(dropped)
  BY <1>2, TwoParts
<1>5. Cardinality(Through(t) \cup OpenOnes) <= Cardinality(Through(t)) + Cardinality(OpenOnes)
  BY <1>2, TwoParts
<1>6. Cardinality(Through(t)) < Max + MaxInside /\ Cardinality(OpenOnes) <= faults
  BY DEF WindowInv, OpenInv
<1>7. /\ Cardinality(LetThrough(t)) \in Nat /\ Cardinality(Through(t)) \in Nat
      /\ Cardinality(OpenOnes) \in Nat /\ Cardinality(dropped) \in Nat
      /\ Cardinality(Through(t) \cup OpenOnes) \in Nat
      /\ Cardinality((Through(t) \cup OpenOnes) \cup dropped) \in Nat
      /\ Max \in Nat /\ MaxInside \in Nat /\ faults \in Nat
  BY <1>2, RequestsFinite, LimitAssumption DEF LimiterTypeOK
<1> QED
  BY <1>3, <1>4, <1>5, <1>6, <1>7
=============================================================================
