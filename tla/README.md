# A verification project for the event-ticketing platform

TLA+ models of the parts of the platform where money, seats and tickets change
hands, checked with TLC on small instances and, for all but liveness, proved with TLAPS
for all instances. `PROJECT.json` lists the runs, the theorems, the source lines
each definition stands for, the hazards of the code and the disagreements
found.

Source paths below are relative to `src/apps/`.

## 1. The system

Seven NestJS services, each deployed as one replica, talk over gRPC (calls that
need an answer), Kafka (notifications) and their own PostgreSQL, MongoDB and
Redis stores.

| Part | State it keeps | Operations | Hard behaviour |
|---|---|---|---|
| seat locks (`seat-inventory-service/.../seat-lock.service.ts`) | Redis keys with a TTL of 600 s | `lockSeats`, `releaseSeats`, `getLockInfo` | batches lock seat by seat; release is GET, test, DEL |
| seat holds (`hold.service.ts`, `hold-expiry.worker.ts`) | `seat_holds` rows, `seat_inventory.status` | `holdSeats`, `releaseSeats`, `markAsSold`, cron every 10 s | reads outside the transaction, whole-row saves, row locks, two connections per handler |
| inventory (`inventory.service.ts`) | `seat_inventory` rows | `createFromEvent`, `relaseSoldSeats` | writes beside the transactions of the holds |
| availability read model (`cqrs/availability-read.service.ts`) | Redis hashes `avail:E`, `seat_detail:E` | update after each write, rebuild on a miss and at start | rebuild against a concurrent write |
| booking creation (`booking-orchestrator.service.ts`) | `booking`, `booking_item`, `outbox` rows | `createBooking` | four remote calls and three transactions in a row; lost answers |
| payments (`payment.service.ts`, `gateways/`) | `payment` rows by idempotency key, the money | `initiatePayment` | duplicate keys in progress, errors after the charge |
| outbox (`outbox.worker.ts`) | `outbox` rows | cron every 5 s (the README of the repository says 30 s) | overlapping ticks, retries, restarts |
| tickets (`ticket.service.ts`) | `tickets` rows | `generateTicket`, `checkIn`, `cancelByBooking` | check-then-act |
| refund machine (`booking-orchestrator.service.ts`, `refund-recovery.worker.ts`) | `booking.refundState`, retry count | `cancelBooking`, recovery cron every minute | several drivers save stale copies of the row |
| refunds (`refund.service.ts`) | `refund` and `payment` rows, the money | `refundByBooking` | retries after lost answers |
| payment REST idempotency (`idempotency.interceptor.ts`) | Redis key per request | around `POST /payments` | a key left at "processing", an answer stored without being awaited |
| event service (`event.service.ts`) | events and venues in MongoDB | `create`, which emits `event.create` | the emit is not awaited; redelivery to the inventory |
| auth service (`auth.service.ts`, `user.service.ts`) | `user` and `refresh_tokens` rows | register, verify, login, refresh, logout, forgot, reset | two statements without a transaction in every route; a reset beside a login; `refresh` looks a token up by a fresh bcrypt hash while a sha256 is stored |
| notification service (`booking.consumer.ts`, `auth.consumer.ts`, `notification.service.ts`) | notification rows | mail on Kafka events | redelivered events, a save that fails after the mail is out, handlers that read `payload.value` |
| api gateway (`rate-limit.interceptor.ts`, `proxy.service.ts`) | Redis sorted set per client and route | sliding-window limit, proxying with a timeout | trim, count, add and expire are four calls; the service behind runs on after the timeout |
| libs, k8s, docker | configuration, generated gRPC stubs | | |

How the parts interact, along a purchase:

1. A buyer holds seats: Redis locks first, then one transaction that sets the
   inventory to HELD and inserts hold rows, then the read model.
2. `createBooking` sees the seats held, verifies the locks, stores a PENDING
   booking, calls `initiatePayment` and either confirms the booking together
   with two outbox rows in one transaction or cancels it and releases the seats.
3. The outbox worker calls `markSeatsAsSold`, issues tickets and emits Kafka
   events, retrying each entry up to five times.
4. `cancelBooking` starts the refund machine: money back (payment-service),
   seats back (seat-inventory), tickets cancelled and booking closed with an
   outbox entry. A recovery worker drives refunds that stopped half way.
5. A buyer gives his holds up with `DELETE /holds/:eventId`, at any time; holds that
   are not paid for end when the expiry worker finds them.
6. Beside all this, Kafka: `event.create` makes seat-inventory create the seats
   of a new event; `booking.*` and `auth.*` make notification-service send mails.
7. From outside, every request comes through api-gateway: rate limit, JWT guard,
   proxy. A payment may also be asked for there (`POST /api/payments`); it then
   passes the idempotency interceptor, which the gRPC call of booking-service
   does not.

What makes each part correct is stated as the properties of section 4.

## 2. The modules

| Module | Models | Theorems in |
|---|---|---|
| `SeatInventory` | the seats of one event | `SeatInventoryProofs`, `SeatLockProofs` |
| `Booking` | one seat, many buyers, from the hold to the confirmed booking | `BookingProofs` |
| `Refund` | abstract: the refund of a booking | |
| `Fulfilment` | one confirmed booking: outbox, tickets, refund; implements `Refund` | `FulfilmentProofs` |
| `RateLimit` | the limiter of api-gateway for one client and route | `RateLimitProofs` (lemmas) |
| `Payment` | abstract: what an idempotency key promises to those who pay under it | |
| `PaymentApi` | `POST /api/payments`: `RateLimit`, the proxy, the interceptor and `initiatePayment` composed; implements `Payment` | `PaymentApiProofs` |
| `Accounts` | one email address in auth-service | `AccountsProofs` |
| `Messaging` | what goes through Kafka: new events, mails | `MessagingProofs` |

The `MC*` modules instantiate them for TLC. Definitions keep the names of the
functions they model (the misspelt `relaseSoldSeats` included). In all of them a
handler is a process that takes one step per `await`, so that everything other
handlers, cron runs, failures and restarts can do in between is explored.

Where the code allows a loss, a property names exactly when it happens, by means
of a history variable, and says that it happens in no other way. No step reads
these variables: `crossed`, `blind`, `freed`, `shared`, `died`, `stale`, `lost`,
`seatBack`, `cleared`, `spared`, `used`, `raced`, `stamp`, `dropped`.

**SeatInventory.** `inv`, `hold` and `late` are PostgreSQL (late: past
`expiresAt`), `lock` and `cache` are Redis, and `job`, `pc`, `todo`, `got`,
`wInv`, `rows`, `kept`, `snap`, `batch` the memory of the handlers. Points that
matter for faithfulness:

- The TTL of a lock and the `expiresAt` of the rows are two timers. The TTL is
  started by the SET, `expiresAt` is computed later with the same length, so a
  lock goes before the rows of its request are late: `LockLapses`, at any moment
  and seat by seat, then `HoldLapses`. `lapsed` keeps the locks whose TTL is over.
- `findBySeatIds` and `holdRepo.find` go through the repositories, not the
  query runner: they use a second connection of the pool and see committed rows
  only (`ConnectionFree`, and no own writes).
- `save` on entities is a select and an update of the rows that differ
  (`Changed`), whose row locks are kept to the end of the transaction. Waiting
  for them is a disabled action; a cycle is broken by `DeadlockAbort`.
- `save(SeatHold, holds)` writes back every row the handler has read, also the
  ones it does not release. A row that somebody else has released in between is
  thereby opened again (`Revived`, `HoldsAfter`).
- `queryRunner.connect()` stands before the try block (`ConnectError` leaves the
  locks, "cut"), `pipeline.exec()` does not reject when a command fails
  (`CacheWriteLost`), and a Redis error after the commit makes the handler roll
  back a transaction that is over and report an error (`RedisError`, "broken").
- A transaction error means rollback. A commit whose outcome the client does
  not learn is not modelled.

`crossed` collects the seats of two calls for one buyer (the expiry worker's
included) that overlapped, and the seats whose lock ran out under a call of
their buyer; `blind` the seats whose hold a `markAsSold` released without having
written the seat, because it was sold already.

**Booking.** The seat-inventory service appears with whole operations on one
seat; `createBooking` and `initiatePayment` are step by step. `UserCancels` is
`DELETE /holds/:eventId`, which writes AVAILABLE whatever the seat is by then:
held for another buyer, confirmed, or sold. A lock lapses at any time
(`LockLapses`), rows become late (`HoldExpires`) and are found by the worker
(`ExpiryWorker`). A payment handler runs on when its caller is gone
(`PaymentCallLost`). `Charge` may take the money and report a failure, because
`doCharge` catches every error; `withRetry` returns within its loop and so never
retries. `CatchError` cancels the booking on every error, `AfterPayment` on every
status but "succeeded". `freed` has the requests under which the seat was made
available after they had seen it held.

**Fulfilment.** One confirmed booking with one item. Ticks, cancel requests, the
recovery worker, the `refundPayment` calls and check-ins are processes that may
overlap in any way: nothing in `outbox.worker.ts` or `cancelBooking` prevents it.
A tick works on the retry counts it has read, a driver of the refund on the copy
of the booking it has read, and each save writes the copy (`SetEntry`,
`BookingRow`, `SetCopy`; `CatchError` too). `Save` records whose copies become
`stale` by it, and whether the one saved was stale (`lost`); `shared` has the
entries two ticks had in their batches at once, `died` those a tick was on when
it broke off. `fails` is a counter of failed attempts that changes nothing.
`FinishRefund` that is rolled back leaves a copy that says "completed", and
`CatchError` saves it, as the code does. The gateway refunds a payment once;
Stripe refuses a second refund. `MaxUpsets` bounds failures, restarts and starts
of a handler beside another (`Starts`) together.

**Refund.** What a cancelled booking promises. The work is done in one order: the
money goes back, then the inventory is asked for the seat, which is given back or
refused, then the tickets are cancelled. The stage the booking shows moves one
step at a time, each only after its work is done; no step is skipped, and none is
taken back except when a handler saves a stale copy (`Overwrite`), and then the
row shows a stage whose work is done too. The announcement comes with the end.
"Refused" is there because `releaseSoldSeats` may answer `success: false`, which
`booking-orchestrator.service.ts` 275-283 does not look at: the refund goes on,
and the seat stays sold. (README 75 of the repository speaks of a retry "if any
step fails"; this failed step is not retried.) `Fulfilment` maps the booking
row, the money at the gateway, what the inventory did, the tickets and the outbox
entry of the refund (`Abstract`); copies, calls, retries and ticks are stutters.

**RateLimit.** `recorded` is the sorted set: the requests let through, scored with
`arrival`, the `now` each has read. Trim, count, add and expire are one step
each, and so is the `zrange` on the way to a refusal (`Refuse`); the clock may
move between any two of them. An error of Redis lets the request through,
unrecorded or with its record (`FailOpen`, "open"). `stamp` is when a request was
put on record, `dropped` has the records Redis dropped too early because the set
expired before their `pexpire`. `MaxInside` names how many requests the limiter
works on at once; it bounds by how much they can overshoot.

**PaymentApi.** A request passes the limiter, is forwarded, looks its key up
(`Get`), takes it (`SetNX`) and runs `initiatePayment` step by step; the answer
goes to the client and, in a `tap` nobody awaits, to Redis (`StoreAnswer`). When
the proxy gives up (`ProxyGivesUp`) the handler runs on. A handler that throws
leaves its key busy until the TTL (`KeyLapses`): the `tap` has no error branch.
`RefundPayment` is what `refund.service.ts` does to the row, while Redis repeats
the old answer. `charges` counts money taken, not attempts: the card may decline.
A request without the header bypasses the interceptor. A save that fails has
not been applied. What the client sends in the header and in the body is one
key; a client who sends two different ones is on his own. `Quick` says that no
request is under way for as long as its key lives in Redis, one hour; two
theorems need it, and it is the only such assumption in the project.

**Payment.** One payment per key in five actions: opened, charged once while open,
settled (with success only after a charge), refunded after a success, told. A
payment may stay open for ever, or be settled as failed after a charge that went
through: an error behind the charge does that. After a refund a client may still
hear "succeeded" from whoever kept the answer. `PaymentApi` maps the payment row
(`Status`), the charges and what clients have heard (`Told`); entries in Redis,
retries and timeouts are stutters.

**Accounts.** `account` is the row of the address, `session` one refresh-token
row per login, `mailed` the links that reached the buyer. A token is named after
the request that made it: the code draws a random UUID. `emit` is not awaited,
so a lost mail is noticed by nobody (`Emit`). `resetPassword` finds the link,
updates the password and, in a second statement, revokes the sessions. `spared`
has the sessions it cannot see (their login has tested the old password and not
stored its row) or did not come to (it failed in between); `used` the resets that
changed the password, `raced` those that had found a link before another reset
used it. `Refresh` always refuses: it looks for the bcrypt hash of the token,
salted anew, while the row has its sha256, so that what follows the lookup
(`auth.service.ts` 129-149) is not reached. `resendVerification` and
`requestEmailVerification` are called by no route.

**Messaging.** `catalogue` and `unsent` are event-service, `topic`, `committed`
and `owner` Kafka (an external part, modelled from how the services use it),
`inv` and `rows` the two stores, `work` the handlers. An offset is committed
when the handler has ended, so a crash (`Crash`) or a rebalance (`TakeOver`)
has a message handled again, in the second case while its first handler is
still running. A handler that throws does not commit either (`Throw`): the Kafka
transport of Nest 11 passes the exception of an event handler on to kafkajs, which
delivers the message again. So a rejected query costs a repetition, not the
message (`DbError`), and a message whose handler cannot read it comes again and
again. That such a message holds up the rest of its partition is left out:
messages are delivered independently of each other. `createFromEvent` is a count
and, one step later, an insert of all rows in one transaction, which the unique
index on event and seat can fail. `send` is a save (QUEUED), the mail and a second
save; that one is returned and not awaited, so the catch block around it does not
see its error. `mailed` is what the SMTP server acknowledged. `PayloadIsValue` is
TRUE where the transport hands a handler the value of the message, as Nest does:
then three of the five mail handlers, which read `payload.value`, throw
(`Readable`).

## 3. Bounds and fairness

| Bound | Where | Why it is enough |
|---|---|---|
| 2 calls of any kind, 2 users, 2 seats, the expiry worker | SeatInventory (`seats`) | a call of a buyer, a rival or the same buyer's second call, and the worker; a batch that overlaps another needs two seats. The proofs cover more calls |
| 3 or 4 requests, 1 seat | SeatInventory (violations) | as many as the counterexamples need, and one more |
| `PoolSize` 3 or 10 | SeatInventory | 10 is the default of pg. Of two requests and the worker two can have a transaction open at once (the worker needs a hold, made by a request that has ended), and with 3 one connection is left for their finds |
| `MaxFaults` 1 or 2 | all | one failure at every place; two in `booking`, where a first one can lose an answer and a second one the repair |
| `MaxUpsets` 2 | Fulfilment (`fulfil`) | two ticks at once and a failure, a cancel beside the recovery worker and a restart, two failures in a row |
| 2 requests, 2 users, 2 keys, `MaxHolds` 3 | Booking | two buyers with one key or two, a double submission, a seat held again twice |
| `MaxRetries`, `MaxTries` 2 (5 in the code; 5 in the violation runs where they matter) | Fulfilment | "one more try" and "no more tries" are both reached |
| `MaxCalls` 4 | Fulfilment | a first call and the retries the failures allow |
| 3 requests, 1 key, `Max` 1, `Window` 2, `MaxClock` 3, `MaxInside` 2, 1 fault | PaymentApi | a repeat of a repeat; a window that is full, overshot by one, and past |
| 2 registrations, link requests and resets, one request of each other route, 2 passwords, 1 fault | Accounts | the routes that race with themselves twice, a newer link, the others beside them |
| 1 event with 2 seats, 1 booking with 2 items, 3 consumers, `MaxRepeats` 1, `MaxRows` 6 | Messaging | two handlers of one `event.create` at once, one of the mails of a booking repeated in the middle; the rows suffice for all deliveries the other bounds allow |

Fairness is stated in the three modules whose runs check liveness, with weak
fairness except where said.

- `SeatInventory`: a handler that has begun goes on (`HandlerStep`, per process:
  Node's event loop and PostgreSQL do not starve it), the cron fires again and
  again and works through what it has found (`Scan`, `NextGroup`), and time
  passes (`TimePasses`).
- `Fulfilment`: ticks are fired and go on, the recovery worker is fired, drivers
  and the handlers of calls go on (`CallStep`, for each call), a cancel request
  that has begun is carried on (`InitiateRefund`), a check-in that has read its
  ticket saves it. Nobody has to cancel or to check in.
- `Messaging`: event-service emits or loses what it has saved (`EmitEventCreate`),
  consumers go on (`Consume`), and every message that is not committed is
  delivered in its turn: strong fairness of `Take` per message, since a consumer
  is busy with other messages in between, among them some that come for ever.

No request has to come, nothing has to fail, and no fairness is assumed of
restarts or errors. Deadlock checking is off in the runs: every system here may
come to rest when there are no requests left.

## 4. What the runs show

Passing runs:

- `seats` (`Seats.cfg`, fair): two calls of any kind beside the expiry worker,
  locks and holds that lapse under slow handlers, one failure or restart.
  `NoOrphanedHeld`: a seat shown as held has an open hold row, so that the worker
  can find it; `blind` seats excepted, where a repeated `markAsSold` (the outbox
  retries it) of a seat sold already releases a hold it did not see the seat of.
  `FailedHoldLeavesNoTrace`: a refused batch leaves no lock and no row; a request
  cut off by a restart, a Redis error or a refused connection is not counted as
  refused, and does leave locks until they lapse. `LiveHoldIsLocked`, which
  `verifyHold` relies on: until its TTL is over a lock stays with its hold, but
  for the `crossed` seats, where the write-back of `hold.service.ts` 137 and 208
  or the DEL that follows a GET hits a later hold. `HoldsEnd`: every hold is
  released in the end, by the worker if by nobody else. `RequestsAnswered`: every
  call ends, although `releaseSeats` and `markAsSold` take row locks in opposite
  orders. With `PoolSize` equal to the number of concurrent transactions (2) the
  last one fails: every handler has one connection and waits for a second.
- `fulfil` (`Fulfil.cfg`, fair): two ticks, a cancel request, the recovery worker
  and a check-in, any of them at once, on stale copies, with failures and
  restarts. `RefundedMeansReturned`: no row and no copy says the payment is
  refunded before the gateway has returned the money. `GivenUpAfterRetries`: no
  entry is given up before as many attempts as it has retries have failed.
  `OneTicketPerItem` and `FreedSeatStaysFree`: a second ticket, or a second sale
  of a seat given back, needs two ticks that had read the entry; the second one
  speaks of a sale that was delivered, since `seats.mark_sold` is retried whatever
  the refund does. `RefundedHoldsNoTicket`: a completed refund leaves no active
  ticket but one issued after the tickets were cancelled. `RefundNeverRegresses`:
  a refund falls back only in a step that saves a stale copy. `AnnouncedOnce`: as
  long as no stale copy was saved a refund is announced once at most, and is
  announced if its first try completes it; after a failed one the catch block
  saves a copy that says "completed" and the entry is missing. `RefundSettles`,
  `OutboxEntriesSettle` (what a tick broke off on stays in processing), and
  `ImplementsRefund`, the refinement of `Refund`.
- `booking` (`Booking.cfg`): `ConfirmedIsCharged`; `NoDoubleBooking`: two buyers
  have the seat confirmed only if it was made available (by a cancelled hold, the
  expiry worker or a failed payment) under one of the bookings. That happens:
  nothing looks at the seat after `verifyHold`. Lapsing locks, late rows, lost
  answers, restarts, double submissions and late sales do not suffice.
- `payment_api` (`PaymentApi.cfg`): three requests under one key from the
  gateway to the card. `ChargedOnce`: money is taken once per key, whatever times
  out, restarts or lapses. `AnswersAgree`: no two clients of a key hear that the
  payment succeeded and that it failed. `OneHandlerPerKey` and `CachedIsPayment`:
  the layer in Redis alone keeps the requests with the header apart, and repeats
  what the database says, or the success a refund has undone since. `WindowBound`:
  of all requests let through in a window, those that failed open included, no
  more exceed the limit than the limiter worked on at once, failures and records
  dropped early account for; README 117 of the repository calls the limiter
  "precise", and this is how precise it is. `RefusedOnlyWhenFull`: nobody is
  refused unless as many as the limit allows were put on record since the start
  of his window. `ImplementsPayment`, the refinement of `Payment`. With `Quick`
  FALSE `OneHandlerPerKey` fails, and the unique key in PostgreSQL still upholds
  `ChargedOnce`, `AnswersAgree` and `ImplementsPayment`.
- `accounts` (`Accounts.cfg`): every route of auth-service for one address.
  `RegisteredOnce`: of two registrations one is accepted, and its link stays
  valid until it is used. `OldSessionsEnd`: after a reset no session of the old
  password is live, but the `spared` ones. `LinkUsedOnce`: a reset link works a
  second time only for a reset that had found it before the first was done,
  whatever newer links are asked for.
- `messages` (`Messages.cfg`, fair): `InventoryComplete`: an event has no seats or
  exactly those it sells tickets for. `TakenStaysTaken`: a repeated
  `event.create` puts no taken seat on sale again. `StatusIsTrue`: a
  notification row that says sent or failed says what the SMTP server answered.
  `MessagesTakeEffect`: what Kafka has and a handler can read takes effect in
  spite of crashes, rebalances and rejected queries. Nothing is promised for an
  `event.create` that was not emitted: such an event has no seats, and no code
  looks for it.

Each module has one type invariant, `TypeOK`. Every property of a passing run
has a mutant, a plausible bug in one definition, with which the run fails; the
mutated definitions stand before the originals with a comment "Mutant:".

Runs in which the code contradicts the repository's README:

- `double_hold`: a cancel that reads the holds before the buyer's own hold
  commits releases no row, yet frees the seat and the lock; a second hold comes
  into force (README 95).
- `read_model`: a rebuild overwrites a newer status and nothing corrects it
  (README 385).
- `refund_retry`: a refund retried after a lost answer is refused, stored as
  FAILED and picked up by nobody, with the money returned, the seat sold and
  the tickets active (README 75).
- `outbox_restart`: an entry whose tick dies after saving it as PROCESSING is
  selected by no later tick, so an effect of a confirmed booking is never
  delivered (README 61 and 381).
- `booking_paid`: a lost payment answer cancels a booking that is charged
  (README 382).
- `unread_mails`: the handlers of refund, verification and reset mails read
  `payload.value` where the payload is the value; they throw at every delivery
  and no such mail is sent (README 151, 326 and 384).

## 5. What is proved

All theorems hold for every value of the constants that satisfies the `ASSUME`s
of the component (sets of any size, any bounds). The bounds on failures, holds
and overlaps are arbitrary naturals, so the bounds of the runs play no part. All
but two theorems hold for every behaviour of `Spec`; `OneHandlerPerKeyHolds` and
`CachedIsPaymentHolds` assume `Quick`.

`SeatInventoryProofs`:

- `TypeCorrect`: `Spec => []TypeOK`. `TypeOK` alone is not inductive: whether
  `Commit` writes a reason depends on which operation is at "commit", and
  `HoldsAfter` on the rows it has read. `IInv` adds what each program counter
  says of the job (`OpsInv`), of the worker (`WorkerInv`), of hold rows and the
  requests that made them (`HoldsInv`), of the rows in memory (`RowsInv`) and of
  the inventory rows written (`WritesInv`).
- `NoOrphanedHeldHolds`: `Spec => []NoOrphanedHeld`. The argument (`HeldInv`): a
  held seat has an open row that no transaction about to commit releases without
  also rewriting the status of the seat (`HeldHasWitness`). For `releaseSeats`
  that holds because it saves the holds before the inventory, which is the order
  the mutant of this property swaps; for `markAsSold` because it has the row lock
  of every seat it wrote before it looks for holds (`SaleSeesSeat`), and the seats
  it did not write become `blind` in the step that releases their holds.

`SeatLockProofs`, on top of `IInv`:

- `FailedHoldLeavesNoTraceHolds`: `Spec => []FailedHoldLeavesNoTrace`, with every
  failure and restart. `KeysInv` says where the locks of a request can be: taken
  so far by `lockSeats`, still on the list of the seats to unlock, or with a
  request that goes on to its commit or was cut off. The rows need no more than
  `HoldsInv`: they are inserted by the commit.
- `LiveHoldIsLockedHolds`: `Spec => []LiveHoldIsLocked`, with every failure and
  restart. A lock is deleted by a GET, a test of its owner and a DEL, so a step
  that breaks the property has been prepared long before. `LockInv` says of the
  seats that are not `crossed` that two calls for one buyer are never both about
  them (`Apart`) and that a request has no lock before it begins (`Fresh`); that a
  hold not yet committed has its locks (`BackedBy`); that a handler about to
  delete deletes locks of its own user (`DeletingBy`); that the rows it has read
  are still open (`StillOpenFor`); and that a release has read all the live holds
  of its user's seats (`ReadsAll`) and leaves none in force when it comes to the
  locks (`OverFor`).
- `DoubleHoldsAreCrossed`: a seat with two live holds is `crossed`, since a lock
  has one owner. The run `double_hold` finds such a state; the theorem says that
  it has no other cause.

`BookingProofs`:

- `TypeCorrect`; `ConfirmedIsChargedHolds`: `Spec => []ConfirmedIsCharged`. The
  invariant `PayInv` follows the money: a request that is past `verify` has a
  user and a key (`Begun`), and wherever "succeeded" stands, in a payment row, in
  an answer or in a handler about to confirm, the key is charged (`Paid`).
- `NoDoubleBookingHolds`: `Spec => []NoDoubleBooking`, with user cancels, lapsing
  locks and double submissions. `SeatInv`: as long as the seat was not made
  available under a request (`InForce`) it is taken; the lock is that of the
  request's buyer or gone; and all requests past `verifyHold` in that position
  are of one buyer.

`FulfilmentProofs` (any numbers of ticks, cancel requests, calls and gates, in
any overlap):

- `TypeCorrect`. `TypeInv` adds to the types that a tick works on an entry of its
  batch (`TicksInv`) and a gate on a ticket that exists (`GatesInv`).
- `RefundedMeansReturnedHolds`: `MoneyInv` extends the claim to the answers of
  calls and to the refund rows of the handlers behind them: wherever "success"
  stands, the money is returned.
- `GivenUpAfterRetriesHolds`: `RetryInv`: no row and no copy of it in a tick
  knows more retries than attempts have failed.
- `OneTicketPerItemHolds` and `FreedSeatStaysFreeHolds`: an entry that is not
  `shared` is in the batch of one tick at most, and open as long as it is
  (`BatchInv`); the tick about to insert a ticket has then seen what still holds
  (`TicketInv`), and nothing sells a seat again once it is `Freed`.
- `RefundedHoldsNoTicketHolds`: `WorkInv`: no row or copy is ahead of the work,
  and once `cleared` says "yes" no ticket is active.
- `RefundNeverRegressesHolds`: `DriveInv` says that a call is waited for by the
  driver that made it (`Waiting`), and that the copy of a driver that is not
  `stale` shows the state of the row or the next one, according to its step
  (`FitsInv`, `NextStage`). A save makes every other driver at work stale.
- `AnnouncedOnceHolds`: `AnnouncedInv` ties the entry to the row as long as no
  stale copy was saved.
- `ImplementsRefundHolds`: `Spec => ImplementsRefund`, without assumptions on who
  overlaps whom, from `MoneyInv`, `WorkInv` and `DriveInv`: a driver that is up to
  date makes a step of the abstract stage, a stale one an `Overwrite`, to a stage
  whose work is done (`CopyDone`). Each action is one abstract step or a stutter.

`PaymentApiProofs`, with the lemmas about the limiter in `RateLimitProofs`:

- `TypeCorrect`; `ChargedOnceHolds` and `AnswersAgreeHolds`: between the insert
  and the last save of a key there is one request at most, and it has charged
  nothing before its charge (`PayInv`); a final status, in an answer, in Redis or
  about to be stored there, is that of the row, or the success that a refund has
  undone (`AnswerInv`, `Says`).
- `ImplementsPaymentHolds`: `Spec => ImplementsPayment`. From `PayInv` (who
  settles is alone, and the row is open), `AnswerInv` (Redis repeats an outcome
  that was reached) and `AskedInv` (who saves a success has taken the money);
  lemmas say how an answer changes `Told` (`ToldSame`, `ToldMore`).
- `OneHandlerPerKeyHolds` and `CachedIsPaymentHolds` for `Quick`: a request that
  has taken a key finds it in Redis until it has stored its answer (`HoldInv`,
  `CacheInv`).
- `RefusedOnlyWhenFullHolds` and `WindowBoundHolds`, however far the clock moves
  between two Redis calls: after a request has trimmed, nothing on record was put
  there before its window began (`RecordInv`), so that its count is one of
  requests that fill the window (`FullInv`). For the bound, what is off the
  record is out of the window or was dropped (`ForgottenInv`), `WindowInv` bounds
  by cardinality those on record in a window together with those still inside,
  and `OpenInv` those that failed open by the failures.

`AccountsProofs`:

- `TypeCorrect`; `RegisteredOnceHolds` (`RegInv`: the row belongs to the one
  registration that has inserted it); `OldSessionsEndHolds` (`SessionInv`: a live
  session, or one about to be stored, has the password of the account, or a reset
  has it ahead, or it was spared); `LinkUsedOnceHolds` (`LinkInv`: a link that was
  used is out of the account and is not stored again, so that only resets that had
  found it still carry it, and these are in `raced`).

`MessagingProofs`:

- `TypeCorrect`. `Handling` is the strengthening: the steps of a handler fit the
  topic of its message, and the row of a send exists.
- `InventoryCompleteHolds`: `Spec => []InventoryComplete`. `InvInv` adds that
  `event.create` is in the topic for saved events only (`Known`). A handler that
  reaches the insert finds all the seats, and the index refuses it, or none.
- `TakenStaysTakenHolds`: `Spec => TakenStaysTaken`, an action property, from
  the type invariant.
- `StatusIsTrueHolds`: `Spec => []StatusIsTrue`. `Queued`: the row of a send
  under way is QUEUED and no other handler's, also where two handlers have the
  same message, and the handler knows what became of the mail.

Only model-checked: the liveness properties (`HoldsEnd`, `RequestsAnswered`,
`RefundSettles`, `OutboxEntriesSettle`, `MessagesTakeEffect`); fairness and ENABLED
are outside the prover. Every invariant, action property and refinement of a
passing run is a theorem. What recursive definitions compute for all inputs could
not be proved either; the modules contain none.

## 6. Not modelled

Venues and the JWT guard keep no state that changes; generated gRPC code,
templates, manifests and configuration have no logic of their own; iyzico is a
placeholder and the choice of a gateway a lookup. Prices, names, QR codes and
mail texts are left out: no property tells them apart. `extendLock`,
`updateStatus`, `resendVerification` and the `__*.middleware.ts` files are not
called. Bookings of several items differ from those of one in `SeatInventory`,
where batches are modelled, and in the mails of `Messaging`. Whether a mail
whose acknowledgement was lost arrived is not modelled. The gateway's limiter
and proxy are modelled on the route of payments; other routes differ in their
numbers.

Some hazards have no property, because what one would wish for is false and no
document claims it. The models contain all of these situations:

- as many transactions as the pool has connections wait for each other for ever;
- two gates admit one ticket, or a check-in turns a cancelled ticket into a used
  one;
- a booking left PENDING by a restart is never expired;
- an account whose link was not stored or mailed can neither be verified nor
  registered again;
- an event whose `event.create` was not emitted has no seats.

Likewise a key that pays for two bookings is in `Booking`, and
`ConfirmedIsCharged`, which is per key, does not exclude it; and a notification
row may stay QUEUED for ever, or a mail be sent twice, in `Messaging`.

## 7. Plan

Done: all modules of section 2 with their runs and proofs, and the two refinements.
Next:

1. A composed module of seat, booking and refund for the orders in which
   `seats.mark_sold` and `releaseSoldSeats` meet with the next buyer of the seat.
2. The abstract `Payment` for the gRPC route of `Booking` as well.
3. Partitions in `Messaging`: what waits behind a message that is never committed.
