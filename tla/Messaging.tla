------------------------------ MODULE Messaging ------------------------------
(***************************************************************************)
(* The asynchronous half of the platform: event-service saves an event and *)
(* emits event.create, seat-inventory-service creates the seats from it;   *)
(* booking-service and auth-service emit what notification-service mails.  *)
(*                                                                         *)
(* Kafka delivers at least once: the offset of a message is committed when *)
(* its handler has ended, so a crash or a rebalance has it handled again,  *)
(* the second time possibly while the first handler is still running.  An  *)
(* event handler that throws leaves its offset uncommitted too: the        *)
(* transport hands the exception to kafkajs, which delivers the message    *)
(* again.  Messages are delivered independently of each other; that one    *)
(* that is not committed holds up its partition is left out.               *)
(***************************************************************************)
EXTENDS Naturals, FiniteSets

CONSTANTS
    Events,          \* ids of the events organizers create
    Sections,        \* section ids a ticket type may name
    VenueSections,   \* the sections the venue has
    Seats,           \* seat ids, section, row and number in one
    SeatsIn,         \* the seats of each section of the venue
    Bookings, Users, \* keys of the messages that notification-service reads
    Topics,          \* the topics that are emitted to
    NumItems,        \* the number of items of a booking
    Addressed,       \* the items with an attendeeEmail
    Consumers,       \* processes of the consumer groups
    GroupOf,         \* "inventory" or "notification"
    PayloadIsValue,  \* TRUE: @Payload() is the value of the Kafka message
    MaxRows,         \* bound on notification rows
    FaultKinds,      \* which of "emit", "db", "smtp", "crash" may happen
    MaxFaults,       \* bound on failures
    MaxRepeats,      \* bound on overlapping deliveries and repeated emits
    None

VARIABLES
    catalogue,  \* MongoDB: the sections with a ticket type, None: no such event
    unsent,     \* events saved by a create() that has not emitted yet
    topic,      \* messages the broker has
    committed,  \* messages whose offset is committed
    owner,      \* the consumer the message is assigned to
    inv,        \* seat_inventory: status of each seat of each event
    rows,       \* notifications: [msg, item, status], None where no row is
    mailed,     \* rows whose mail the SMTP server has acknowledged
    work,       \* the handler each consumer is running
    faults,     \* number of failures so far
    repeats     \* overlapping deliveries and repeated emits so far

vars == <<catalogue, unsent, topic, committed, owner, inv, rows, mailed, work,
          faults, repeats>>
kafka == <<topic, committed, owner>>
budget == <<faults, repeats>>

-----------------------------------------------------------------------------
(* Data *)

BookingTopics == {"booking.confirmed", "booking.cancelled", "booking.refunded"}
AuthTopics == {"auth.email_verification", "auth.password_reset"}

Message(t, k) == [topic |-> t, key |-> k]
EventMessages == {Message("event.create", e) : e \in Events}
BookingMessages == {Message(t, b) : t \in BookingTopics, b \in Bookings}
AuthMessages == {Message(t, u) : t \in AuthTopics, u \in Users}
Messages == EventMessages \cup BookingMessages \cup AuthMessages

Items == 1..NumItems

\* The statuses the code writes; DELIVERED and BOUNCED are never used.
NotificationStatuses == {"queued", "sent", "failed"}
RowIds == 1..MaxRows
Notifications == [msg : BookingMessages \cup AuthMessages, item : Items,
                  status : NotificationStatuses]

ASSUME MessagingAssumption ==
    /\ VenueSections \subseteq Sections
    /\ SeatsIn \in [VenueSections -> SUBSET Seats]
    /\ NumItems \in Nat \ {0} /\ Addressed \subseteq 1..NumItems
    /\ GroupOf \in [Consumers -> {"inventory", "notification"}]
    /\ PayloadIsValue \in BOOLEAN
    /\ MaxRows \in Nat /\ MaxFaults \in Nat /\ MaxRepeats \in Nat
    /\ None \notin Consumers /\ None \notin Messages /\ None \notin Notifications
    /\ \A secs \in SUBSET Sections : None # secs

\* A handler: its step, its message, the items to come, the row it is working
\* on, and whether the mail for that row went out.
Handler(step, m, todo, row, ok) ==
    [step |-> step, msg |-> m, todo |-> todo, row |-> row, ok |-> ok]
Idle == Handler("idle", None, {}, 0, FALSE)
Steps == {"start", "save", "send", "mail", "report", "done"}
Works == {Idle} \cup [step : Steps, msg : Messages, todo : SUBSET Items,
                      row : {0} \cup RowIds, ok : BOOLEAN]

TypeOK ==
    /\ catalogue \in [Events -> (SUBSET VenueSections) \cup {None}]
    /\ unsent \subseteq {e \in Events : catalogue[e] # None}
    /\ topic \subseteq Messages
    /\ committed \subseteq topic
    /\ owner \in [Messages -> Consumers \cup {None}]
    /\ inv \in [Events -> [Seats -> {"none", "available", "taken"}]]
    /\ rows \in [RowIds -> Notifications \cup {None}]
    /\ mailed \subseteq {n \in RowIds : rows[n] # None}
    /\ work \in [Consumers -> Works]
    /\ faults \in 0..MaxFaults
    /\ repeats \in 0..MaxRepeats

Init ==
    /\ catalogue = [e \in Events |-> None]
    /\ unsent = {}
    /\ topic = {} /\ committed = {}
    /\ owner = [m \in Messages |-> None]
    /\ inv = [e \in Events |-> [s \in Seats |-> "none"]]
    /\ rows = [n \in RowIds |-> None]
    /\ mailed = {}
    /\ work = [c \in Consumers |-> Idle]
    /\ faults = 0 /\ repeats = 0

\* A failure of the given kind happens.
Fault(kind) ==
    /\ kind \in FaultKinds
    /\ faults < MaxFaults
    /\ faults' = faults + 1
    /\ UNCHANGED repeats

-----------------------------------------------------------------------------
(* event-service: EventService.create *)

\* The seats of the sections that have a ticket type.
SeatsFor(e) == UNION {SeatsIn[sec] : sec \in catalogue[e]}

\* Mutant: the message is queued for emission before the sections are checked.
CreateUnchecked(e, ticketTypes) ==
    /\ catalogue[e] = None
    /\ catalogue' = [catalogue EXCEPT ![e] =
                        IF ticketTypes \subseteq VenueSections THEN ticketTypes ELSE None]
    /\ unsent' = unsent \cup {e}
    /\ UNCHANGED <<kafka, inv, rows, mailed, work, budget>>

\* A ticket type for a section the venue lacks is refused and changes nothing.
Create(e, ticketTypes) ==
    /\ catalogue[e] = None
    /\ ticketTypes \subseteq VenueSections
    /\ catalogue' = [catalogue EXCEPT ![e] = ticketTypes]
    /\ unsent' = unsent \cup {e}
    /\ UNCHANGED <<kafka, inv, rows, mailed, work, budget>>

\* emit is not awaited: an unreachable broker, or a restart of event-service
\* after the save, loses the message and nobody notices.
EmitEventCreate(e) ==
    /\ e \in unsent
    /\ unsent' = unsent \ {e}
    /\ \/ /\ topic' = topic \cup {Message("event.create", e)}
          /\ UNCHANGED budget
       \/ /\ Fault("emit")
          /\ UNCHANGED topic
    /\ UNCHANGED <<catalogue, committed, owner, inv, rows, mailed, work>>

-----------------------------------------------------------------------------
(* booking-service and auth-service *)

\* The outbox worker, createBooking's error path and AuthService emit.
EmitNotice(m) ==
    /\ m \notin topic
    /\ m.topic \in Topics
    /\ topic' = topic \cup {m}
    /\ UNCHANGED <<catalogue, unsent, committed, owner, inv, rows, mailed, work, budget>>

\* The outbox worker repeats an entry whose COMPLETED it could not save.
EmitAgain(m) ==
    /\ m \in committed
    /\ repeats < MaxRepeats
    /\ repeats' = repeats + 1
    /\ committed' = committed \ {m}
    /\ UNCHANGED <<catalogue, unsent, topic, owner, inv, rows, mailed, work, faults>>

-----------------------------------------------------------------------------
(* Delivery *)

GroupFor(m) == IF m \in EventMessages THEN "inventory" ELSE "notification"
Handled(m) == \E c \in Consumers : work[c].msg = m

Deliver(c, m) ==
    /\ work[c] = Idle
    /\ GroupOf[c] = GroupFor(m)
    /\ work' = [work EXCEPT ![c] = Handler("start", m, {}, 0, FALSE)]
    /\ owner' = [owner EXCEPT ![m] = c]
    /\ UNCHANGED <<catalogue, unsent, topic, inv, rows, mailed, faults>>

Take(c, m) ==
    /\ m \in topic \ committed
    /\ ~ Handled(m)
    /\ Deliver(c, m)
    /\ UNCHANGED <<committed, repeats>>

\* A rebalance assigns the message to c while its first handler runs on.
TakeOver(c, m) ==
    /\ m \in topic \ committed
    /\ Handled(m)
    /\ repeats < MaxRepeats
    /\ repeats' = repeats + 1
    /\ Deliver(c, m)
    /\ UNCHANGED committed

\* The handler of c is gone, and with it the assignment if c has it.
Leave(c) ==
    /\ work' = [work EXCEPT ![c] = Idle]
    /\ owner' = [m \in Messages |-> IF owner[m] = c THEN None ELSE owner[m]]

\* The handler has ended; the broker refuses the commit of a former owner.
CommitOffset(c) ==
    LET m == work[c].msg IN
    /\ work[c].step = "done"
    /\ committed' = IF owner[m] = c THEN committed \cup {m} ELSE committed
    /\ Leave(c)
    /\ UNCHANGED <<catalogue, unsent, topic, inv, rows, mailed, budget>>

\* The handler throws: the offset is not committed and the message comes again.
Throw(c) ==
    /\ Leave(c)
    /\ UNCHANGED <<topic, committed>>

\* The consumer moves on to a step that needs nothing of the earlier ones.
Step(c, step) ==
    work' = [work EXCEPT ![c] = Handler(step, work[c].msg, {}, 0, FALSE)]

-----------------------------------------------------------------------------
(* seat-inventory-service: InventoryConsumer.handleEventCreate *)

Existing(e) == {s \in Seats : inv[e][s] # "none"}

\* createFromEvent returns early when the event has seats already.
CountSeats(c) ==
    LET m == work[c].msg IN
    /\ work[c].step = "start"
    /\ m \in EventMessages
    /\ Step(c, IF Existing(m.key) # {} THEN "done" ELSE "save")
    /\ UNCHANGED <<catalogue, unsent, kafka, inv, rows, mailed, budget>>

\* Mutant: save updates the rows that are there already.
UpsertSeats(c) ==
    LET e == work[c].msg.key IN
    /\ work[c].step = "save"
    /\ inv' = [inv EXCEPT ![e] = [s \in Seats |->
                  IF s \in SeatsFor(e) THEN "available" ELSE @[s]]]
    /\ Step(c, "done")
    /\ UNCHANGED <<catalogue, unsent, kafka, rows, mailed, budget>>

\* Mutant: the rows are inserted one by one, outside a transaction.
SaveOneByOne(c) ==
    LET e == work[c].msg.key IN
    /\ work[c].step = "save"
    /\ \E some \in SUBSET (SeatsFor(e) \ Existing(e)) :
          inv' = [inv EXCEPT ![e] = [s \in Seats |->
                    IF s \in some THEN "available" ELSE @[s]]]
    /\ Step(c, "done")
    /\ UNCHANGED <<catalogue, unsent, kafka, rows, mailed, budget>>

\* repo.save(entities) inserts all rows in one transaction; the unique index on
\* event and seat fails it when another handler was faster.
SaveSeats(c) ==
    LET e == work[c].msg.key IN
    /\ work[c].step = "save"
    /\ \/ /\ SeatsFor(e) \cap Existing(e) = {}
          /\ inv' = [inv EXCEPT ![e] = [s \in Seats |->
                        IF s \in SeatsFor(e) THEN "available" ELSE @[s]]]
          /\ Step(c, "done")
          /\ UNCHANGED kafka
       \/ /\ SeatsFor(e) \cap Existing(e) # {}
          /\ inv' = inv
          /\ Throw(c)
    /\ UNCHANGED <<catalogue, unsent, rows, mailed, budget>>

\* A seat is held or sold; module SeatInventory has the details.
TakeSeat(e, s) ==
    /\ inv[e][s] = "available"
    /\ inv' = [inv EXCEPT ![e][s] = "taken"]
    /\ UNCHANGED <<catalogue, unsent, kafka, rows, mailed, work, budget>>

-----------------------------------------------------------------------------
(* notification-service: BookingConsumer, AuthConsumer, NotificationService *)

\* Two handlers take payload.value if there is one and payload otherwise; the
\* other three read payload.value and throw when the payload is the value.
Readable(m) ==
    \/ m.topic \in {"event.create", "booking.confirmed", "booking.cancelled"}
    \/ ~ PayloadIsValue

\* One mail per item with an address, or one to the first item's, or to the user.
Addressees(m) ==
    CASE m.topic = "booking.confirmed" -> Addressed
      [] m.topic \in {"booking.cancelled", "booking.refunded"} -> {1} \cap Addressed
      [] OTHER -> {1}

Handle(c) ==
    LET m == work[c].msg IN
    /\ work[c].step = "start"
    /\ m \notin EventMessages
    /\ \/ /\ Readable(m)
          /\ work' = [work EXCEPT ![c] = Handler("send", m, Addressees(m), 0, FALSE)]
          /\ UNCHANGED kafka
       \/ /\ ~ Readable(m)
          /\ Throw(c)
    /\ UNCHANGED <<catalogue, unsent, inv, rows, mailed, budget>>

\* send: the row is saved as QUEUED before the mail goes out.
QueueRow(c, i, n) ==
    /\ work[c].step = "send"
    /\ i \in work[c].todo /\ \A j \in work[c].todo : i <= j
    /\ rows[n] = None /\ \A k \in RowIds : k < n => rows[k] # None
    /\ rows' = [rows EXCEPT ![n] = [msg |-> work[c].msg, item |-> i, status |-> "queued"]]
    /\ work' = [work EXCEPT ![c] = Handler("mail", @.msg, @.todo \ {i}, n, FALSE)]
    /\ UNCHANGED <<catalogue, unsent, kafka, inv, mailed, budget>>

\* EmailAdapter.send reports a failure, it never throws.  An answer of the SMTP
\* server that is lost counts as a failure: the mail may be out all the same.
SendMail(c) ==
    /\ work[c].step = "mail"
    /\ \/ /\ mailed' = mailed \cup {work[c].row}
          /\ work' = [work EXCEPT ![c] = Handler("report", @.msg, @.todo, @.row, TRUE)]
          /\ UNCHANGED budget
       \/ /\ Fault("smtp")
          /\ work' = [work EXCEPT ![c] = Handler("report", @.msg, @.todo, @.row, FALSE)]
          /\ UNCHANGED mailed
    /\ UNCHANGED <<catalogue, unsent, kafka, inv, rows>>

SaveStatus(c) ==
    LET k == work[c].row IN
    /\ work[c].step = "report"
    /\ rows' = [rows EXCEPT ![k].status = IF work[c].ok THEN "sent" ELSE "failed"]
    /\ work' = [work EXCEPT ![c] = Handler("send", @.msg, @.todo, 0, FALSE)]
    /\ UNCHANGED <<catalogue, unsent, kafka, inv, mailed, budget>>

AllSent(c) ==
    /\ work[c].step = "send"
    /\ work[c].todo = {}
    /\ Step(c, "done")
    /\ UNCHANGED <<catalogue, unsent, kafka, inv, rows, mailed, budget>>

-----------------------------------------------------------------------------
(* Failures *)

Querying(c) == \/ work[c].step \in {"save", "report"}
               \/ work[c].step = "start" /\ work[c].msg \in EventMessages
               \/ work[c].step = "send" /\ work[c].todo # {}

\* Mutant: the last save is awaited inside the try, whose catch writes FAILED.
DbErrorCaught(c) ==
    /\ Querying(c)
    /\ Fault("db")
    /\ Throw(c)
    /\ rows' = IF work[c].step = "report"
               THEN [rows EXCEPT ![work[c].row].status = "failed"] ELSE rows
    /\ UNCHANGED <<catalogue, unsent, inv, mailed>>

\* Mutant: the error of a query is caught and logged.
DbErrorLogged(c) ==
    /\ Querying(c)
    /\ Fault("db")
    /\ Step(c, "done")
    /\ UNCHANGED <<catalogue, unsent, kafka, inv, rows, mailed>>

\* A rejected query ends the handler, the items it has not come to included: the
\* last save of send is returned and not awaited, so its catch does not run.
DbError(c) ==
    /\ Querying(c)
    /\ Fault("db")
    /\ Throw(c)
    /\ UNCHANGED <<catalogue, unsent, inv, rows, mailed>>

\* The consumer restarts.
Crash(c) ==
    /\ work[c] # Idle
    /\ Fault("crash")
    /\ Leave(c)
    /\ UNCHANGED <<catalogue, unsent, topic, committed, inv, rows, mailed>>

-----------------------------------------------------------------------------
Consume(c) ==
    \/ CountSeats(c) \/ SaveSeats(c)
    \/ Handle(c) \/ SendMail(c) \/ SaveStatus(c) \/ AllSent(c)
    \/ \E i \in Items, n \in RowIds : QueueRow(c, i, n)
    \/ CommitOffset(c)

Next ==
    \/ \E e \in Events, ticketTypes \in SUBSET Sections : Create(e, ticketTypes)
    \/ \E e \in Events : EmitEventCreate(e)
    \/ \E m \in BookingMessages \cup AuthMessages : EmitNotice(m)
    \/ \E m \in BookingMessages : EmitAgain(m)
    \/ \E e \in Events, s \in Seats : TakeSeat(e, s)
    \/ \E c \in Consumers, m \in Messages : Take(c, m) \/ TakeOver(c, m)
    \/ \E c \in Consumers : Consume(c) \/ DbError(c) \/ Crash(c)

Spec == Init /\ [][Next]_vars

\* A process that runs goes on, and every message that is not committed is
\* delivered in its turn, however often another one is delivered in vain.
\* Nothing is assumed of organizers, buyers, producers or failures.
Fairness ==
    /\ \A e \in Events : WF_vars(EmitEventCreate(e))
    /\ \A c \in Consumers : WF_vars(Consume(c))
    /\ \A m \in Messages : SF_vars(\E c \in Consumers : Take(c, m))

FairSpec == Spec /\ Fairness

-----------------------------------------------------------------------------
(* Properties *)

\* createFromEvent is all or nothing: whatever is delivered twice, by two
\* consumers at once or cut short, an event has either no seats or exactly
\* those of the sections it sells tickets for (inventory.service.ts 19-51).
InventoryComplete ==
    \A e \in Events : Existing(e) # {} => /\ catalogue[e] # None
                                          /\ Existing(e) = SeatsFor(e)

\* A late or repeated event.create never puts a seat on sale again that a buyer
\* has taken since the first one was handled (inventory.service.ts 22-27, 46).
TakenStaysTaken ==
    [][\A e \in Events, s \in Seats : inv[e][s] = "taken" => inv'[e][s] = "taken"]_vars

\* What a finished notification row says is what the SMTP server has answered,
\* although saving it may fail after the mail is out and two handlers may work
\* on one message (notification.service.ts 55-69).
StatusIsTrue ==
    \A n \in RowIds : rows[n] # None =>
        /\ rows[n].status = "sent" => n \in mailed
        /\ rows[n].status = "failed" => n \notin mailed

\* The message has had its effect: the event has its seats, every addressee a
\* mail that was sent or is recorded as failed.
Effect(m) ==
    IF m \in EventMessages
    THEN catalogue[m.key] # None /\ Existing(m.key) = SeatsFor(m.key)
    ELSE \A i \in Addressees(m) : \E n \in RowIds :
            /\ rows[n] # None
            /\ rows[n].msg = m /\ rows[n].item = i
            /\ rows[n].status # "queued"

\* At-least-once delivery carries through the handlers: a message that the
\* broker has and its handler can read takes effect, whatever crashes, whatever
\* is rebalanced and whichever query is rejected half way (inventory.consumer.ts
\* 13-23, booking.consumer.ts 12-37, notification.service.ts 34-63).
MessagesTakeEffect ==
    \A m \in Messages : (m \in topic /\ Readable(m)) ~> Effect(m)

\* README.md 384: "Notification | Eventual", 326: "Auth -> Notification: email
\* verification, password reset", and 151: "Worker: Kafka event -> refund email":
\* whatever booking-service and auth-service emit is mailed in the end.
NoticesAreMailed ==
    \A m \in BookingMessages \cup AuthMessages : m \in topic ~> Effect(m)
=============================================================================
