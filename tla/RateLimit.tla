----------------------------- MODULE RateLimit -----------------------------
(***************************************************************************)
(* The sliding-window rate limiter of api-gateway                          *)
(* (rate-limit/rate-limit.interceptor.ts) for one address and one route: a *)
(* sorted set in Redis holds the arrival times of the requests let         *)
(* through.  A request takes one step per Redis call, and the clock may    *)
(* move between any two of them.                                           *)
(***************************************************************************)
EXTENDS Naturals, FiniteSets

CONSTANTS
    Requests,    \* requests of the address to the route
    None,
    Max,         \* config.max
    Window,      \* config.windowMs, in ticks of the clock
    MaxClock,    \* bound on the clock
    MaxInside,   \* requests the limiter works on at a time
    FaultKinds,  \* what may go wrong, see Fault
    MaxFaults    \* bound on failures and restarts

ASSUME LimitAssumption ==
    /\ Max \in Nat \ {0} /\ Window \in Nat \ {0} /\ MaxInside \in Nat \ {0}
    /\ MaxClock \in Nat \ {0} /\ MaxFaults \in Nat
ASSUME NoneAssumption == None \notin Requests
ASSUME FiniteAssumption == IsFiniteSet(Requests)

VARIABLES
    clock,     \* Date.now
    recorded,  \* requests in the sorted set, scored with their arrival
    expiry,    \* when Redis drops the set: a time, or 0 for never
    arrival,   \* const now of a request
    at,        \* next step of a request in the limiter
    stamp,     \* history: when a request was put on record, or 0
    dropped,   \* history: requests whose record Redis dropped within their window
    faults

limiter == <<clock, recorded, expiry, arrival, at, stamp, dropped>>

LimiterSteps == {"none", "trim", "count", "range", "add", "expire", "passed", "open",
                 "refused", "lost"}
InLimiter == {"trim", "count", "range", "add", "expire"}

LimiterTypeOK ==
    /\ clock \in 1..MaxClock
    /\ recorded \in SUBSET Requests
    /\ expiry \in 0..(MaxClock + Window)
    /\ arrival \in [Requests -> 0..MaxClock]
    /\ at \in [Requests -> LimiterSteps]
    /\ stamp \in [Requests -> 0..MaxClock]
    /\ dropped \in SUBSET Requests
    /\ faults \in 0..MaxFaults

LimiterInit ==
    /\ clock = 1
    /\ recorded = {}
    /\ expiry = 0
    /\ arrival = [r \in Requests |-> 0]
    /\ at = [r \in Requests |-> "none"]
    /\ stamp = [r \in Requests |-> 0]
    /\ dropped = {}
    /\ faults = 0

\* "redis" and "api" (a restart of the gateway) here, more in PaymentApi.
Fault(kind) ==
    /\ kind \in FaultKinds
    /\ faults < MaxFaults
    /\ faults' = faults + 1
NoFault == faults' = faults

Inside == {r \in Requests : at[r] \in InLimiter}
LimiterGoto(r, step) == at' = [at EXCEPT ![r] = step]

Arrive(r) ==
    /\ at[r] = "none"
    /\ Cardinality(Inside) < MaxInside
    /\ arrival' = [arrival EXCEPT ![r] = clock]
    /\ LimiterGoto(r, "trim")
    /\ UNCHANGED <<clock, recorded, expiry, stamp, dropped, faults>>

\* Mutant: the window is one tick short.
TrimTooMuch(r) ==
    /\ at[r] = "trim"
    /\ recorded' = {q \in recorded : arrival[q] + Window > arrival[r] + 1}
    /\ LimiterGoto(r, "count")
    /\ UNCHANGED <<clock, expiry, arrival, stamp, dropped, faults>>

\* zremrangebyscore; the bound itself goes too.
Trim(r) ==
    /\ at[r] = "trim"
    /\ recorded' = {q \in recorded : arrival[q] + Window > arrival[r]}
    /\ expiry' = IF recorded' = {} THEN 0 ELSE expiry
    /\ LimiterGoto(r, "count")
    /\ UNCHANGED <<clock, arrival, stamp, dropped, faults>>

\* Mutant: one request less than the limit.
CountOneLess(r) ==
    /\ at[r] = "count"
    /\ LimiterGoto(r, IF Cardinality(recorded) + 1 >= Max THEN "range" ELSE "add")
    /\ UNCHANGED <<clock, recorded, expiry, arrival, stamp, dropped, faults>>

\* zcard
Count(r) ==
    /\ at[r] = "count"
    /\ LimiterGoto(r, IF Cardinality(recorded) >= Max THEN "range" ELSE "add")
    /\ UNCHANGED <<clock, recorded, expiry, arrival, stamp, dropped, faults>>

\* zrange, for the header that says when to come again; then 429.
Refuse(r) ==
    /\ at[r] = "range"
    /\ LimiterGoto(r, "refused")
    /\ UNCHANGED <<clock, recorded, expiry, arrival, stamp, dropped, faults>>

\* zadd
Add(r) ==
    /\ at[r] = "add"
    /\ recorded' = recorded \cup {r}
    /\ stamp' = [stamp EXCEPT ![r] = clock]
    /\ LimiterGoto(r, "expire")
    /\ UNCHANGED <<clock, expiry, arrival, dropped, faults>>

\* pexpire; a set that is gone is left alone.
Expire(r) ==
    /\ at[r] = "expire"
    /\ expiry' = IF recorded = {} THEN 0 ELSE clock + Window
    /\ LimiterGoto(r, "passed")
    /\ UNCHANGED <<clock, recorded, arrival, stamp, dropped, faults>>

\* A Redis call fails, be it the one on the way to a 429: the request is let
\* through all the same.
FailOpen(r) ==
    /\ at[r] \in InLimiter
    /\ Fault("redis")
    /\ LimiterGoto(r, "open")
    /\ UNCHANGED <<clock, recorded, expiry, arrival, stamp, dropped>>

\* api-gateway restarts: the requests it was working on are gone.
LimiterRestarts ==
    /\ at' = [r \in Requests |-> IF r \in Inside THEN "lost" ELSE at[r]]
    /\ UNCHANGED <<clock, recorded, expiry, arrival, stamp, dropped>>

\* Time passes; Redis drops a set that has expired, with the records of
\* requests between zadd and pexpire.
Tick ==
    /\ clock < MaxClock
    /\ clock' = clock + 1
    /\ IF expiry # 0 /\ expiry <= clock'
         THEN /\ recorded' = {} /\ expiry' = 0
              /\ dropped' = dropped \cup {q \in recorded : clock' < arrival[q] + Window}
         ELSE UNCHANGED <<recorded, expiry, dropped>>
    /\ UNCHANGED <<arrival, at, stamp, faults>>

LimiterStep(r) ==
    \/ Arrive(r) \/ Trim(r) \/ Count(r) \/ Refuse(r) \/ Add(r) \/ Expire(r) \/ FailOpen(r)

-----------------------------------------------------------------------------
(* Properties *)

\* Requests of the window that ends at t which were let through by then, on
\* record or because a call to Redis failed.
LetThrough(t) ==
    {r \in Requests : /\ (at[r] = "passed" /\ stamp[r] <= t) \/ at[r] = "open"
                      /\ arrival[r] <= t /\ t < arrival[r] + Window}

\* How precise the limiter of README.md 117 is: whichever stretch of one window
\* one looks at, the requests let through in it exceed the limit by the other
\* requests it was working on at once (it counts and records in two calls), one
\* for every failure (it fails open), and those that Redis dropped too early
\* (the set lapsed before their pexpire), and by no more, however slow it is
\* (rate-limit.interceptor.ts 51-91).
WindowBound ==
    \A t \in 1..MaxClock :
        Cardinality(LetThrough(t)) < Max + MaxInside + faults + Cardinality(dropped)

\* Nobody is answered 429 unless as many requests as the limit allows were put
\* on record since the start of his window: requests that were refused or let
\* through unseen, and records further back, do not count, whatever others trim
\* and add while he waits (rate-limit.interceptor.ts 54-63).
RefusedOnlyWhenFull ==
    \A r \in Requests :
        at[r] = "refused" =>
            Cardinality({q \in Requests : stamp[q] # 0 /\ arrival[r] < stamp[q] + Window})
                >= Max
=============================================================================
