-------------------------- MODULE MessagingProofs ---------------------------
(***************************************************************************)
(* Proofs about Messaging: type correctness, that seats are created all    *)
(* together and never put on sale again, and that a notification row says  *)
(* what the SMTP server has answered.                                      *)
(***************************************************************************)
EXTENDS Messaging, TLAPS

\* A handler works on a message the broker has, in the steps of its topic.
Handling ==
    \A c \in Consumers :
        /\ work[c].step # "idle" => work[c].msg \in topic
        /\ work[c].step = "save" => work[c].msg \in EventMessages
        /\ work[c].step \in {"send", "mail", "report"} => work[c].msg \notin EventMessages
        /\ work[c].step \in {"mail", "report"} => /\ work[c].row \in RowIds
                                                 /\ rows[work[c].row] # None

TypeInv == TypeOK /\ Handling

\* The fields of a handler that is running.
LEMMA Fields ==
    ASSUME TypeInv, NEW c \in Consumers, work[c].step # "idle"
    PROVE  /\ work[c].step \in Steps /\ work[c].msg \in Messages
           /\ work[c].todo \subseteq Items /\ work[c].row \in {0} \cup RowIds
           /\ work[c].ok \in BOOLEAN
BY DEF TypeInv, TypeOK, Works, Idle, Handler

LEMMA IdleTyped == Idle \in Works /\ Idle.step = "idle"
BY DEF Idle, Handler, Works

\* One consumer's handler changes, the others stay.
LEMMA Moves ==
    ASSUME TypeInv, NEW c \in Consumers, NEW h \in Works, work' = [work EXCEPT ![c] = h]
    PROVE  /\ work' \in [Consumers -> Works]
           /\ work'[c] = h
           /\ \A d \in Consumers : d # c => work'[d] = work[d]
BY DEF TypeInv, TypeOK

\* Only items of the booking are addressed (booking.consumer.ts 12-82).
LEMMA AddresseesAreItems == ASSUME NEW m PROVE Addressees(m) \subseteq Items
<1>1. {1} \subseteq Items /\ Addressed \subseteq Items
  BY MessagingAssumption DEF Items
<1> QED
  BY <1>1 DEF Addressees

-----------------------------------------------------------------------------
(* Every step keeps TypeInv. *)

LEMMA CreateType ==
    ASSUME TypeInv, NEW e \in Events, NEW ticketTypes \in SUBSET Sections, Create(e,
           ticketTypes)
    PROVE  TypeInv'
BY MessagingAssumption
DEF TypeInv, TypeOK, Handling, Create, kafka, budget

LEMMA EmitEventCreateType ==
    ASSUME TypeInv, NEW e \in Events, EmitEventCreate(e)
    PROVE  TypeInv'
BY MessagingAssumption
DEF TypeInv, TypeOK, Handling, EmitEventCreate, Fault, EventMessages, Messages, kafka,
     budget

LEMMA EmitNoticeType ==
    ASSUME TypeInv, NEW m \in BookingMessages \cup AuthMessages, EmitNotice(m)
    PROVE  TypeInv'
BY MessagingAssumption
DEF TypeInv, TypeOK, Handling, EmitNotice, Messages, kafka, budget

LEMMA EmitAgainType ==
    ASSUME TypeInv, NEW m \in BookingMessages, EmitAgain(m)
    PROVE  TypeInv'
BY MessagingAssumption
DEF TypeInv, TypeOK, Handling, EmitAgain, kafka, budget

LEMMA TakeSeatType ==
    ASSUME TypeInv, NEW e \in Events, NEW s \in Seats, TakeSeat(e, s)
    PROVE  TypeInv'
BY MessagingAssumption
DEF TypeInv, TypeOK, Handling, TakeSeat, kafka, budget

LEMMA TakeType ==
    ASSUME TypeInv, NEW c \in Consumers, NEW m \in Messages, Take(c, m)
    PROVE  TypeInv'
<1> DEFINE h == Handler("start", m, {}, 0, FALSE)
<1>4. work' = [work EXCEPT ![c] = h]
  BY DEF Take, Deliver
<1>5. h \in Works /\ h.step = "start" /\ h.msg = m
  BY DEF Handler, Works, Steps
<1> HIDE DEF h
<1>6. /\ work' \in [Consumers -> Works]
      /\ work'[c] = h
      /\ \A d \in Consumers : d # c => work'[d] = work[d]
  BY <1>4, <1>5, Moves
<1>7. TypeOK'
  BY <1>6, MessagingAssumption
  DEF TypeInv, TypeOK, Handling, Take, Deliver, kafka, budget
<1>8. Handling'
  BY <1>5, <1>6
  DEF TypeInv, TypeOK, Handling, Take, Deliver, kafka, budget
<1> QED
  BY <1>7, <1>8 DEF TypeInv

LEMMA TakeOverType ==
    ASSUME TypeInv, NEW c \in Consumers, NEW m \in Messages, TakeOver(c, m)
    PROVE  TypeInv'
<1> DEFINE h == Handler("start", m, {}, 0, FALSE)
<1>4. work' = [work EXCEPT ![c] = h]
  BY DEF TakeOver, Deliver
<1>5. h \in Works /\ h.step = "start" /\ h.msg = m
  BY DEF Handler, Works, Steps
<1> HIDE DEF h
<1>6. /\ work' \in [Consumers -> Works]
      /\ work'[c] = h
      /\ \A d \in Consumers : d # c => work'[d] = work[d]
  BY <1>4, <1>5, Moves
<1>a. repeats' \in 0..MaxRepeats
  BY MessagingAssumption DEF TypeInv, TypeOK, TakeOver
<1>7. TypeOK'
  BY <1>6, <1>a
  DEF TypeInv, TypeOK, Handling, TakeOver, Deliver, kafka, budget
<1>8. Handling'
  BY <1>5, <1>6
  DEF TypeInv, TypeOK, Handling, TakeOver, Deliver, kafka, budget
<1> QED
  BY <1>7, <1>8 DEF TypeInv

LEMMA CommitOffsetType ==
    ASSUME TypeInv, NEW c \in Consumers, CommitOffset(c)
    PROVE  TypeInv'
<1>1. work[c].step # "idle"
  BY DEF CommitOffset
<1>2. /\ work[c].msg \in Messages /\ work[c].todo \subseteq Items
      /\ work[c].row \in {0} \cup RowIds /\ work[c].msg \in topic
  BY <1>1, Fields DEF TypeInv, Handling
<1>4. /\ work' \in [Consumers -> Works]
      /\ work'[c].step = "idle"
      /\ \A d \in Consumers : d # c => work'[d] = work[d]
  BY IdleTyped, Moves DEF CommitOffset, Leave
<1>7. TypeOK'
  BY <1>4, <1>2, MessagingAssumption
  DEF TypeInv, TypeOK, Handling, CommitOffset, Leave, kafka, budget
<1>8. Handling'
  BY <1>4, <1>2
  DEF TypeInv, TypeOK, Handling, CommitOffset, Leave, kafka, budget
<1> QED
  BY <1>7, <1>8 DEF TypeInv

LEMMA CountSeatsType ==
    ASSUME TypeInv, NEW c \in Consumers, CountSeats(c)
    PROVE  TypeInv'
<1>1. work[c].step # "idle"
  BY DEF CountSeats
<1>2. /\ work[c].msg \in Messages /\ work[c].todo \subseteq Items
      /\ work[c].row \in {0} \cup RowIds /\ work[c].msg \in topic
  BY <1>1, Fields DEF TypeInv, Handling
<1> DEFINE h == Handler(IF Existing(work[c].msg.key) # {} THEN "done" ELSE "save",
                     work[c].msg, {}, 0, FALSE)
<1>4. work' = [work EXCEPT ![c] = h]
  BY DEF CountSeats, Step
<1>5. h \in Works /\ h.step \in {"done", "save"} /\ h.msg = work[c].msg
  BY <1>2 DEF Handler, Works, Steps, CountSeats
<1> HIDE DEF h
<1>6. /\ work' \in [Consumers -> Works]
      /\ work'[c] = h
      /\ \A d \in Consumers : d # c => work'[d] = work[d]
  BY <1>4, <1>5, Moves
<1>7. TypeOK'
  BY <1>6, <1>2, MessagingAssumption
  DEF TypeInv, TypeOK, Handling, CountSeats, kafka, budget
<1>8. Handling'
  BY <1>5, <1>6, <1>2
  DEF TypeInv, TypeOK, Handling, CountSeats, kafka, budget
<1> QED
  BY <1>7, <1>8 DEF TypeInv

\* A handler that throws is gone, and nothing else has changed.
LEMMA ThrowType ==
    ASSUME TypeInv, NEW c \in Consumers, Throw(c),
           UNCHANGED <<catalogue, unsent, inv, rows, mailed>>,
           faults' \in 0..MaxFaults, repeats' \in 0..MaxRepeats
    PROVE  TypeInv'
<1>1. /\ work' \in [Consumers -> Works]
      /\ work'[c].step = "idle"
      /\ \A d \in Consumers : d # c => work'[d] = work[d]
  BY IdleTyped, Moves DEF Throw, Leave
<1>2. TypeOK'
  BY <1>1, MessagingAssumption DEF TypeInv, TypeOK, Throw, Leave
<1>3. Handling'
  BY <1>1 DEF TypeInv, TypeOK, Handling, Throw, Leave
<1> QED
  BY <1>2, <1>3 DEF TypeInv

LEMMA SaveSeatsType == ASSUME TypeInv, NEW c \in Consumers, SaveSeats(c) PROVE TypeInv'
<1>1. work[c].step # "idle"
  BY DEF SaveSeats
<1>2. /\ work[c].msg \in Messages /\ work[c].todo \subseteq Items
      /\ work[c].row \in {0} \cup RowIds /\ work[c].msg \in topic
  BY <1>1, Fields DEF TypeInv, Handling
<1>3. faults' \in 0..MaxFaults /\ repeats' \in 0..MaxRepeats
  BY DEF TypeInv, TypeOK, SaveSeats, budget
<1>4. CASE ~ (SeatsFor(work[c].msg.key) \cap Existing(work[c].msg.key) = {})
  BY <1>3, <1>4, ThrowType DEF SaveSeats
<1>5. CASE (SeatsFor(work[c].msg.key) \cap Existing(work[c].msg.key) = {})
  <2> DEFINE h == Handler("done", work[c].msg, {}, 0, FALSE)
  <2>1. work' = [work EXCEPT ![c] = h] /\ UNCHANGED kafka
    BY <1>5 DEF SaveSeats, Step
  <2>2. h \in Works /\ h.step = "done" /\ h.msg = work[c].msg
    BY <1>2 DEF Handler, Works, Steps
  <2> HIDE DEF h
  <2>3. /\ work' \in [Consumers -> Works]
        /\ work'[c] = h
        /\ \A d \in Consumers : d # c => work'[d] = work[d]
    BY <2>1, <2>2, Moves
  <2>4. inv' \in [Events -> [Seats -> {"none", "available", "taken"}]]
    BY <1>5 DEF TypeInv, TypeOK, SaveSeats
  <2>5. TypeOK'
    BY <1>2, <1>3, <2>1, <2>3, <2>4, MessagingAssumption
    DEF TypeInv, TypeOK, Handling, SaveSeats, kafka
  <2>6. Handling'
    BY <1>2, <2>1, <2>2, <2>3 DEF TypeInv, TypeOK, Handling, SaveSeats, kafka
  <2> QED
    BY <2>5, <2>6 DEF TypeInv
<1> QED
  BY <1>4, <1>5

LEMMA HandleType == ASSUME TypeInv, NEW c \in Consumers, Handle(c) PROVE TypeInv'
<1>1. work[c].step # "idle"
  BY DEF Handle
<1>2. /\ work[c].msg \in Messages /\ work[c].todo \subseteq Items
      /\ work[c].row \in {0} \cup RowIds /\ work[c].msg \in topic
  BY <1>1, Fields DEF TypeInv, Handling
<1>3. faults' \in 0..MaxFaults /\ repeats' \in 0..MaxRepeats
  BY DEF TypeInv, TypeOK, Handle, budget
<1>4. CASE ~ Readable(work[c].msg)
  BY <1>3, <1>4, ThrowType DEF Handle
<1>5. CASE Readable(work[c].msg)
  <2> DEFINE h == Handler("send", work[c].msg, Addressees(work[c].msg), 0, FALSE)
  <2>1. work' = [work EXCEPT ![c] = h] /\ UNCHANGED kafka
    BY <1>5 DEF Handle, Step
  <2>2. h \in Works /\ h.step = "send" /\ h.msg = work[c].msg
    BY <1>2, AddresseesAreItems DEF Handler, Works, Steps
  <2> HIDE DEF h
  <2>3. /\ work' \in [Consumers -> Works]
        /\ work'[c] = h
        /\ \A d \in Consumers : d # c => work'[d] = work[d]
    BY <2>1, <2>2, Moves
  <2>4. UNCHANGED <<catalogue, unsent, inv, rows, mailed>>
    BY DEF Handle
  <2>5. TypeOK'
    BY <1>2, <1>3, <2>1, <2>3, <2>4, MessagingAssumption
    DEF TypeInv, TypeOK, Handling, Handle, kafka
  <2>6. Handling'
    BY <1>2, <2>1, <2>2, <2>3 DEF TypeInv, TypeOK, Handling, Handle, kafka
  <2> QED
    BY <2>5, <2>6 DEF TypeInv
<1> QED
  BY <1>4, <1>5

LEMMA QueueRowType ==
    ASSUME TypeInv, NEW c \in Consumers, NEW i \in Items, NEW n \in RowIds, QueueRow(c, i,
           n)
    PROVE  TypeInv'
<1>1. work[c].step # "idle"
  BY DEF QueueRow
<1>2. /\ work[c].msg \in Messages /\ work[c].todo \subseteq Items
      /\ work[c].row \in {0} \cup RowIds /\ work[c].msg \in topic
  BY <1>1, Fields DEF TypeInv, Handling
<1> DEFINE h == Handler("mail", work[c].msg, work[c].todo \ {i}, n, FALSE)
<1>4. work' = [work EXCEPT ![c] = h]
  BY DEF QueueRow
<1>5. h \in Works /\ h.step = "mail" /\ h.row = n /\ h.msg = work[c].msg
  BY <1>2 DEF Handler, Works, Steps
<1> HIDE DEF h
<1>6. /\ work' \in [Consumers -> Works]
      /\ work'[c] = h
      /\ \A d \in Consumers : d # c => work'[d] = work[d]
  BY <1>4, <1>5, Moves
<1>9. [msg |-> work[c].msg, item |-> i, status |-> "queued"] \in Notifications
  BY <1>2 DEF TypeInv, Handling, QueueRow, Messages, Notifications, NotificationStatuses
<1>a. rows' \in [RowIds -> Notifications \cup {None}]
  BY <1>9 DEF TypeInv, TypeOK, QueueRow
<1>b. /\ rows'[n] # None
      /\ \A k \in RowIds : rows[k] # None => rows'[k] # None
  BY <1>9, MessagingAssumption DEF TypeInv, TypeOK, QueueRow
<1>7. TypeOK'
  BY <1>6, <1>a, <1>b
  DEF TypeInv, TypeOK, Handling, QueueRow, kafka, budget
<1>8. Handling'
  BY <1>5, <1>6, <1>2, <1>b
  DEF TypeInv, TypeOK, Handling, QueueRow, kafka, budget
<1> QED
  BY <1>7, <1>8 DEF TypeInv

LEMMA SendMailType == ASSUME TypeInv, NEW c \in Consumers, SendMail(c) PROVE TypeInv'
<1>1. work[c].step # "idle"
  BY DEF SendMail
<1>2. /\ work[c].msg \in Messages /\ work[c].todo \subseteq Items
      /\ work[c].row \in {0} \cup RowIds /\ work[c].msg \in topic
  BY <1>1, Fields DEF TypeInv, Handling
<1>3. PICK sent \in BOOLEAN :
        work' = [work EXCEPT ![c] = Handler("report", work[c].msg, work[c].todo, work[c].row, sent)]
  BY DEF SendMail
<1> DEFINE h == Handler("report", work[c].msg, work[c].todo, work[c].row, sent)
<1>4. work' = [work EXCEPT ![c] = h]
  BY <1>3 DEF SendMail, Fault
<1>5. h \in Works /\ h.step = "report" /\ h.row = work[c].row /\ h.msg = work[c].msg
  BY <1>2, <1>3 DEF Handler, Works, Steps
<1> HIDE DEF h
<1>6. /\ work' \in [Consumers -> Works]
      /\ work'[c] = h
      /\ \A d \in Consumers : d # c => work'[d] = work[d]
  BY <1>4, <1>5, Moves
<1>a. /\ faults' \in 0..MaxFaults
      /\ UNCHANGED repeats
  <2>1. CASE UNCHANGED budget
    BY <2>1 DEF TypeInv, TypeOK, budget
  <2>2. CASE Fault("smtp")
    BY <2>2, MessagingAssumption DEF TypeInv, TypeOK, Fault
  <2> QED
    BY <2>1, <2>2 DEF SendMail
<1>b. mailed' \subseteq {k \in RowIds : rows[k] # None}
  BY DEF TypeInv, TypeOK, Handling, SendMail
<1>7. TypeOK'
  BY <1>6, <1>a, <1>b
  DEF TypeInv, TypeOK, Handling, SendMail, Fault, kafka, budget
<1>8. Handling'
  BY <1>5, <1>6, <1>2
  DEF TypeInv, TypeOK, Handling, SendMail, Fault, kafka, budget
<1> QED
  BY <1>7, <1>8 DEF TypeInv

LEMMA SaveStatusType ==
    ASSUME TypeInv, NEW c \in Consumers, SaveStatus(c)
    PROVE  TypeInv'
<1>1. work[c].step # "idle"
  BY DEF SaveStatus
<1>2. /\ work[c].msg \in Messages /\ work[c].todo \subseteq Items
      /\ work[c].row \in {0} \cup RowIds /\ work[c].msg \in topic
  BY <1>1, Fields DEF TypeInv, Handling
<1> DEFINE h == Handler("send", work[c].msg, work[c].todo, 0, FALSE)
<1>4. work' = [work EXCEPT ![c] = h]
  BY DEF SaveStatus
<1>5. h \in Works /\ h.step = "send" /\ h.msg = work[c].msg
  BY <1>2 DEF Handler, Works, Steps
<1> HIDE DEF h
<1>6. /\ work' \in [Consumers -> Works]
      /\ work'[c] = h
      /\ \A d \in Consumers : d # c => work'[d] = work[d]
  BY <1>4, <1>5, Moves
<1>9. /\ work[c].row \in RowIds
      /\ [rows[work[c].row] EXCEPT !.status = IF work[c].ok THEN "sent" ELSE "failed"]
           \in Notifications
  BY DEF TypeInv, TypeOK, Handling, SaveStatus, Notifications, NotificationStatuses
<1>a. rows' \in [RowIds -> Notifications \cup {None}]
  BY <1>9 DEF TypeInv, TypeOK, SaveStatus
<1>b. /\ rows'[work[c].row] # None
      /\ \A k \in RowIds : rows[k] # None => rows'[k] # None
  BY <1>9, MessagingAssumption DEF TypeInv, TypeOK, SaveStatus
<1>7. TypeOK'
  BY <1>6, <1>a, <1>b
  DEF TypeInv, TypeOK, Handling, SaveStatus, kafka, budget
<1>8. Handling'
  BY <1>5, <1>6, <1>2, <1>b
  DEF TypeInv, TypeOK, Handling, SaveStatus, kafka, budget
<1> QED
  BY <1>7, <1>8 DEF TypeInv

LEMMA AllSentType == ASSUME TypeInv, NEW c \in Consumers, AllSent(c) PROVE TypeInv'
<1>1. work[c].step # "idle"
  BY DEF AllSent
<1>2. /\ work[c].msg \in Messages /\ work[c].todo \subseteq Items
      /\ work[c].row \in {0} \cup RowIds /\ work[c].msg \in topic
  BY <1>1, Fields DEF TypeInv, Handling
<1> DEFINE h == Handler("done", work[c].msg, {}, 0, FALSE)
<1>4. work' = [work EXCEPT ![c] = h]
  BY DEF AllSent, Step
<1>5. h \in Works /\ h.step = "done" /\ h.msg = work[c].msg
  BY <1>2 DEF Handler, Works, Steps
<1> HIDE DEF h
<1>6. /\ work' \in [Consumers -> Works]
      /\ work'[c] = h
      /\ \A d \in Consumers : d # c => work'[d] = work[d]
  BY <1>4, <1>5, Moves
<1>7. TypeOK'
  BY <1>6, <1>2, MessagingAssumption
  DEF TypeInv, TypeOK, Handling, AllSent, kafka, budget
<1>8. Handling'
  BY <1>5, <1>6, <1>2
  DEF TypeInv, TypeOK, Handling, AllSent, kafka, budget
<1> QED
  BY <1>7, <1>8 DEF TypeInv

LEMMA DbErrorType == ASSUME TypeInv, NEW c \in Consumers, DbError(c) PROVE TypeInv'
<1>1. faults' \in 0..MaxFaults /\ repeats' \in 0..MaxRepeats
  BY MessagingAssumption DEF TypeInv, TypeOK, DbError, Fault
<1> QED
  BY <1>1, ThrowType DEF DbError

LEMMA CrashType == ASSUME TypeInv, NEW c \in Consumers, Crash(c) PROVE TypeInv'
<1>4. /\ work' \in [Consumers -> Works]
      /\ work'[c].step = "idle"
      /\ \A d \in Consumers : d # c => work'[d] = work[d]
  BY IdleTyped, Moves DEF Crash, Leave, Fault
<1>7. TypeOK'
  BY <1>4, MessagingAssumption
  DEF TypeInv, TypeOK, Handling, Crash, Leave, Fault, kafka, budget
<1>8. Handling'
  BY <1>4
  DEF TypeInv, TypeOK, Handling, Crash, Leave, Fault, kafka, budget
<1> QED
  BY <1>7, <1>8 DEF TypeInv

-----------------------------------------------------------------------------
(* Type correctness. *)

LEMMA TypeStart == ASSUME Init PROVE TypeInv
BY MessagingAssumption, IdleTyped
DEF Init, TypeInv, TypeOK, Handling

LEMMA TypeStep == ASSUME TypeInv, [Next]_vars PROVE TypeInv'
<1>1. CASE UNCHANGED vars
  BY <1>1 DEF vars, TypeInv, TypeOK, Handling
<1>2. ASSUME NEW e \in Events, NEW ticketTypes \in SUBSET Sections, Create(e, ticketTypes)
      PROVE  TypeInv'
  BY <1>2, CreateType
<1>3. ASSUME NEW e \in Events, EmitEventCreate(e) PROVE TypeInv'
  BY <1>3, EmitEventCreateType
<1>4. ASSUME NEW m \in BookingMessages \cup AuthMessages, EmitNotice(m) PROVE TypeInv'
  BY <1>4, EmitNoticeType
<1>5. ASSUME NEW m \in BookingMessages, EmitAgain(m) PROVE TypeInv'
  BY <1>5, EmitAgainType
<1>6. ASSUME NEW e \in Events, NEW s \in Seats, TakeSeat(e, s) PROVE TypeInv'
  BY <1>6, TakeSeatType
<1>7. ASSUME NEW c \in Consumers, NEW m \in Messages, Take(c, m) \/ TakeOver(c, m)
      PROVE  TypeInv'
  BY <1>7, TakeType, TakeOverType
<1>8. ASSUME NEW c \in Consumers, Consume(c) PROVE TypeInv'
  BY <1>8, CountSeatsType, SaveSeatsType, HandleType, SendMailType, SaveStatusType,
     AllSentType, QueueRowType, CommitOffsetType DEF Consume
<1>9. ASSUME NEW c \in Consumers, DbError(c) \/ Crash(c) PROVE TypeInv'
  BY <1>9, DbErrorType, CrashType
<1> QED
  BY <1>1, <1>2, <1>3, <1>4, <1>5, <1>6, <1>7, <1>8, <1>9 DEF Next

LEMMA TypeInvHolds == Spec => []TypeInv
BY TypeStart, TypeStep, PTL DEF Spec

\* Every reachable state of the topics, the handlers and the two stores is well
\* typed; in particular an offset is committed only for a message the broker has.
THEOREM TypeCorrect == Spec => []TypeOK
<1>1. TypeInv => TypeOK
  BY DEF TypeInv
<1> QED
  BY <1>1, TypeInvHolds, PTL

-----------------------------------------------------------------------------
(* The inventory. *)

\* event.create is emitted for saved events only.
Known == \A m \in topic : m \in EventMessages => catalogue[m.key] # None

InvInv == TypeInv /\ Known /\ InventoryComplete

LEMMA EventKey == ASSUME NEW m \in EventMessages PROVE m.key \in Events
BY DEF EventMessages, Message

LEMMA NoticesAreNotEvents ==
    ASSUME NEW m \in BookingMessages \cup AuthMessages PROVE m \notin EventMessages
BY DEF BookingMessages, AuthMessages, EventMessages, Message, BookingTopics, AuthTopics

LEMMA InventoryKept ==
    ASSUME InvInv, UNCHANGED <<catalogue, inv>>,
           \A m \in topic' : m \in topic \/ m \notin EventMessages
    PROVE  Known' /\ InventoryComplete'
BY DEF InvInv, Known, InventoryComplete, Existing, SeatsFor

LEMMA CreateInv ==
    ASSUME InvInv, NEW e \in Events, NEW ticketTypes \in SUBSET Sections,
           Create(e, ticketTypes)
    PROVE  Known' /\ InventoryComplete'
<1>1. /\ catalogue'[e] = ticketTypes /\ catalogue'[e] # None
      /\ \A d \in Events : d # e => catalogue'[d] = catalogue[d]
  BY MessagingAssumption DEF InvInv, TypeInv, TypeOK, Create
<1>2. Known'
  BY <1>1, EventKey DEF InvInv, Known, Create, kafka
<1>3. Existing(e) = {}
  BY DEF InvInv, InventoryComplete, Create
<1>4. InventoryComplete'
  BY <1>1, <1>3 DEF InvInv, InventoryComplete, Existing, SeatsFor, Create
<1> QED
  BY <1>2, <1>4

LEMMA EmitEventCreateInv ==
    ASSUME InvInv, NEW e \in Events, EmitEventCreate(e)
    PROVE  Known' /\ InventoryComplete'
<1>1. Message("event.create", e).key = e
  BY DEF Message
<1>2. Known'
  BY <1>1 DEF InvInv, TypeInv, TypeOK, Known, EmitEventCreate
<1>3. InventoryComplete'
  BY DEF InvInv, InventoryComplete, Existing, SeatsFor, EmitEventCreate
<1> QED
  BY <1>2, <1>3

LEMMA TakeSeatInv ==
    ASSUME InvInv, NEW e \in Events, NEW s \in Seats, TakeSeat(e, s)
    PROVE  Known' /\ InventoryComplete'
<1>1. \A d \in Events : Existing(d)' = Existing(d)
  BY DEF InvInv, TypeInv, TypeOK, Existing, TakeSeat
<1> QED
  BY <1>1 DEF InvInv, Known, InventoryComplete, SeatsFor, TakeSeat, kafka

\* Either all the seats of the event are there or none: the insert that passes
\* the unique index starts from none and leaves all.
LEMMA SaveSeatsInv ==
    ASSUME InvInv, NEW c \in Consumers, SaveSeats(c)
    PROVE  Known' /\ InventoryComplete'
<1>1. PICK e \in Events : e = work[c].msg.key /\ catalogue[e] # None
  BY EventKey DEF InvInv, TypeInv, Handling, Known, SaveSeats
<1>2. SeatsFor(e) \subseteq Seats
  BY <1>1, MessagingAssumption DEF InvInv, TypeInv, TypeOK, SeatsFor
<1>3. UNCHANGED <<catalogue, topic>>
  BY DEF SaveSeats, Throw, kafka
<1>4. CASE SeatsFor(e) \cap Existing(e) # {}
  BY <1>1, <1>3, <1>4, InventoryKept DEF SaveSeats
<1>5. CASE SeatsFor(e) \cap Existing(e) = {}
  <2>1. inv' = [inv EXCEPT ![e] = [s \in Seats |->
                   IF s \in SeatsFor(e) THEN "available" ELSE inv[e][s]]]
    BY <1>1, <1>5 DEF SaveSeats
  <2>2. Existing(e) = {}
    BY <1>1, <1>5 DEF InvInv, InventoryComplete
  <2>3. \A s \in Seats : inv'[e][s] # "none" <=> s \in SeatsFor(e)
    BY <1>1, <2>1, <2>2 DEF InvInv, TypeInv, TypeOK, Existing
  <2>4. Existing(e)' = SeatsFor(e)
    BY <1>2, <2>3 DEF Existing
  <2>5. \A d \in Events : d # e => Existing(d)' = Existing(d)
    BY <1>1, <2>1 DEF InvInv, TypeInv, TypeOK, Existing
  <2>6. \A d \in Events : SeatsFor(d)' = SeatsFor(d)
    BY <1>3 DEF SeatsFor
  <2>7. InventoryComplete'
    BY <1>1, <1>3, <2>4, <2>5, <2>6 DEF InvInv, InventoryComplete
  <2> QED
    BY <1>3, <2>7 DEF InvInv, Known
<1> QED
  BY <1>4, <1>5

LEMMA InvStep == ASSUME InvInv, [Next]_vars PROVE InvInv'
<1>1. TypeInv'
  BY TypeStep DEF InvInv
<1>2. CASE UNCHANGED vars
  <2>1. UNCHANGED <<catalogue, inv, topic>>
    BY <1>2 DEF vars
  <2> QED
    BY <1>1, <2>1, InventoryKept DEF InvInv
<1>3. ASSUME NEW e \in Events, NEW ticketTypes \in SUBSET Sections, Create(e, ticketTypes)
      PROVE  Known' /\ InventoryComplete'
  BY <1>3, CreateInv
<1>4. ASSUME NEW e \in Events, EmitEventCreate(e) PROVE Known' /\ InventoryComplete'
  BY <1>4, EmitEventCreateInv
<1>5. ASSUME NEW m \in BookingMessages \cup AuthMessages, EmitNotice(m)
      PROVE  Known' /\ InventoryComplete'
  BY <1>5, NoticesAreNotEvents, InventoryKept DEF EmitNotice
<1>6. ASSUME NEW m \in BookingMessages, EmitAgain(m) PROVE Known' /\ InventoryComplete'
  BY <1>6, InventoryKept DEF EmitAgain
<1>7. ASSUME NEW e \in Events, NEW s \in Seats, TakeSeat(e, s)
      PROVE  Known' /\ InventoryComplete'
  BY <1>7, TakeSeatInv
<1>8. ASSUME NEW c \in Consumers, NEW m \in Messages, Take(c, m) \/ TakeOver(c, m)
      PROVE  Known' /\ InventoryComplete'
  BY <1>8, InventoryKept DEF Take, TakeOver, Deliver
<1>9. ASSUME NEW c \in Consumers, SaveSeats(c) PROVE Known' /\ InventoryComplete'
  BY <1>9, SaveSeatsInv
<1>10. ASSUME NEW c \in Consumers,
              \/ CountSeats(c) \/ Handle(c) \/ SendMail(c) \/ SaveStatus(c) \/ AllSent(c)
              \/ \E i \in Items, n \in RowIds : QueueRow(c, i, n)
              \/ CommitOffset(c) \/ DbError(c) \/ Crash(c)
       PROVE  Known' /\ InventoryComplete'
  <2>1. UNCHANGED <<catalogue, inv, topic>>
    BY <1>10 DEF CountSeats, Handle, SendMail, SaveStatus, AllSent, QueueRow, CommitOffset,
       DbError, Throw, Crash, kafka
  <2> QED
    BY <2>1, InventoryKept
<1> QED
  BY <1>1, <1>2, <1>3, <1>4, <1>5, <1>6, <1>7, <1>8, <1>9, <1>10
  DEF Next, Consume, InvInv

LEMMA InvStart == ASSUME Init PROVE InvInv
BY TypeStart DEF Init, InvInv, Known, InventoryComplete, Existing

\* However often event.create is delivered, to however many consumers at once,
\* and whatever fails: an event has no seats or exactly those it sells.
THEOREM InventoryCompleteHolds == Spec => []InventoryComplete
<1>1. InvInv => InventoryComplete
  BY DEF InvInv
<1> QED
  BY <1>1, InvStart, InvStep, PTL DEF Spec

LEMMA TakenStep ==
    ASSUME TypeInv, [Next]_vars, NEW e \in Events, NEW s \in Seats, inv[e][s] = "taken"
    PROVE  inv'[e][s] = "taken"
<1>1. CASE UNCHANGED inv
  BY <1>1
<1>2. ASSUME NEW d \in Events, NEW t \in Seats, TakeSeat(d, t) PROVE inv'[e][s] = "taken"
  BY <1>2 DEF TypeInv, TypeOK, TakeSeat
<1>3. ASSUME NEW c \in Consumers, SaveSeats(c) PROVE inv'[e][s] = "taken"
  <2> DEFINE d == work[c].msg.key
  <2>1. d \in Events
    BY <1>3, EventKey DEF TypeInv, Handling, SaveSeats
  <2>2. s \in Existing(e)
    BY DEF Existing
  <2>3. CASE e = d /\ SeatsFor(d) \cap Existing(d) = {}
    <3>1. s \notin SeatsFor(d)
      BY <2>2, <2>3
    <3> QED
      BY <1>3, <2>1, <2>3, <3>1 DEF TypeInv, TypeOK, SaveSeats
  <2>4. CASE ~ (e = d /\ SeatsFor(d) \cap Existing(d) = {})
    BY <1>3, <2>1, <2>4 DEF TypeInv, TypeOK, SaveSeats
  <2> QED
    BY <2>3, <2>4
<1>4. \/ UNCHANGED inv
      \/ \E d \in Events, t \in Seats : TakeSeat(d, t)
      \/ \E c \in Consumers : SaveSeats(c)
  BY DEF Next, Consume, vars, Create, EmitEventCreate, EmitNotice, EmitAgain, Take, TakeOver,
     Deliver, CountSeats, Handle, SendMail, SaveStatus, AllSent, QueueRow, CommitOffset,
     DbError, Crash
<1> QED
  BY <1>1, <1>2, <1>3, <1>4

\* No delivery of event.create, first or repeated, puts a taken seat on sale.
THEOREM TakenStaysTakenHolds == Spec => TakenStaysTaken
<1>1. TypeInv /\ [Next]_vars =>
        [\A e \in Events, s \in Seats : inv[e][s] = "taken" => inv'[e][s] = "taken"]_vars
  BY TakenStep
<1> QED
  BY <1>1, TypeInvHolds, PTL DEF Spec, TakenStaysTaken

-----------------------------------------------------------------------------
(* The notification rows. *)

Sending(c) == work[c].step \in {"mail", "report"}

\* The row of a send that is under way is QUEUED and nobody else's, and the
\* handler knows whether its mail went out.
Queued ==
    \A c \in Consumers : Sending(c) =>
        /\ rows[work[c].row].status = "queued"
        /\ work[c].row \in mailed <=> (work[c].step = "report" /\ work[c].ok)
        /\ \A d \in Consumers : Sending(d) /\ work[d].row = work[c].row => d = c

MailInv == TypeInv /\ Queued /\ StatusIsTrue

LEMMA RowsKept ==
    ASSUME MailInv, UNCHANGED <<rows, mailed>>,
           \A c \in Consumers : work'[c] = work[c] \/ work'[c].step \notin {"mail", "report"}
    PROVE  Queued' /\ StatusIsTrue'
BY DEF MailInv, Queued, Sending, StatusIsTrue

LEMMA QueueRowMail ==
    ASSUME MailInv, NEW c \in Consumers, NEW i \in Items, NEW n \in RowIds, QueueRow(c, i, n)
    PROVE  Queued' /\ StatusIsTrue'
<1> DEFINE h == Handler("mail", work[c].msg, work[c].todo \ {i}, n, FALSE)
           r == [msg |-> work[c].msg, item |-> i, status |-> "queued"]
<1>1. h.step = "mail" /\ h.row = n /\ r.status = "queued"
  BY DEF Handler
<1>2. /\ work' = [work EXCEPT ![c] = h]
      /\ rows' = [rows EXCEPT ![n] = r]
      /\ rows[n] = None
      /\ mailed' = mailed
  BY DEF QueueRow
<1> HIDE DEF h, r
<1>3. /\ work'[c] = h
      /\ \A d \in Consumers : d # c => work'[d] = work[d]
      /\ rows'[n] = r
      /\ \A k \in RowIds : k # n => rows'[k] = rows[k]
  BY <1>2 DEF MailInv, TypeInv, TypeOK
<1>4. n \notin mailed
  BY <1>2 DEF MailInv, TypeInv, TypeOK
<1>5. \A d \in Consumers : Sending(d) => work[d].row \in RowIds \ {n}
  BY <1>2 DEF MailInv, TypeInv, Handling, Sending
<1>6. Queued'
  BY <1>1, <1>2, <1>3, <1>4, <1>5 DEF MailInv, Queued, Sending
<1>7. StatusIsTrue'
  BY <1>1, <1>2, <1>3, <1>4 DEF MailInv, StatusIsTrue
<1> QED
  BY <1>6, <1>7

LEMMA SendMailMail ==
    ASSUME MailInv, NEW c \in Consumers, SendMail(c)
    PROVE  Queued' /\ StatusIsTrue'
<1> DEFINE k == work[c].row
           h(ok) == Handler("report", work[c].msg, work[c].todo, k, ok)
<1>1. \A ok \in BOOLEAN : h(ok).step = "report" /\ h(ok).row = k /\ h(ok).ok = ok
  BY DEF Handler
<1>2. PICK ok \in BOOLEAN : /\ work' = [work EXCEPT ![c] = h(ok)]
                            /\ mailed' = IF ok THEN mailed \cup {k} ELSE mailed
  BY DEF SendMail
<1> HIDE DEF h
<1>3. /\ work'[c] = h(ok)
      /\ \A d \in Consumers : d # c => work'[d] = work[d]
  BY <1>2 DEF MailInv, TypeInv, TypeOK
<1>4. rows' = rows /\ Sending(c)
  BY DEF SendMail, Sending
<1>5. /\ k \in RowIds /\ rows[k].status = "queued" /\ k \notin mailed
      /\ \A d \in Consumers : Sending(d) /\ d # c => work[d].row # k
  BY <1>4 DEF MailInv, TypeInv, Handling, Queued, Sending, SendMail
<1> HIDE DEF k
<1>6. Queued'
  BY <1>1, <1>2, <1>3, <1>4, <1>5 DEF MailInv, Queued, Sending
<1>7. StatusIsTrue'
  BY <1>2, <1>4, <1>5 DEF MailInv, StatusIsTrue
<1> QED
  BY <1>6, <1>7

LEMMA SaveStatusMail ==
    ASSUME MailInv, NEW c \in Consumers, SaveStatus(c)
    PROVE  Queued' /\ StatusIsTrue'
<1> DEFINE k == work[c].row
           st == IF work[c].ok THEN "sent" ELSE "failed"
           h == Handler("send", work[c].msg, work[c].todo, 0, FALSE)
<1>1. h.step = "send"
  BY DEF Handler
<1>2. /\ work' = [work EXCEPT ![c] = h]
      /\ rows' = [rows EXCEPT ![k].status = st]
      /\ mailed' = mailed
      /\ Sending(c) /\ work[c].step = "report"
  BY DEF SaveStatus, Sending
<1> HIDE DEF h
<1>3. /\ work'[c] = h
      /\ \A d \in Consumers : d # c => work'[d] = work[d]
  BY <1>2 DEF MailInv, TypeInv, TypeOK
<1>4. /\ k \in RowIds /\ rows[k] # None
      /\ k \in mailed <=> work[c].ok
      /\ \A d \in Consumers : Sending(d) /\ d # c => work[d].row # k
  BY <1>2 DEF MailInv, TypeInv, Handling, Queued, Sending
<1>5. /\ rows'[k].status = st
      /\ \A n \in RowIds : n # k => rows'[n] = rows[n]
  <2>1. rows[k] \in Notifications
    BY <1>4 DEF MailInv, TypeInv, TypeOK
  <2>2. rows'[k] = [rows[k] EXCEPT !.status = st]
    BY <1>2, <1>4 DEF MailInv, TypeInv, TypeOK
  <2> QED
    BY <1>2, <1>4, <2>1, <2>2 DEF MailInv, TypeInv, TypeOK, Notifications
<1>6. st = "sent" <=> k \in mailed
  BY <1>4
<1>7. st = "failed" <=> k \notin mailed
  BY <1>4
<1> HIDE DEF st
<1>8. \A d \in Consumers : Sending(d) => work[d].row \in RowIds
  BY DEF MailInv, TypeInv, Handling, Sending
<1>9. Queued'
  BY <1>1, <1>2, <1>3, <1>4, <1>5, <1>8 DEF MailInv, Queued, Sending
<1>10. StatusIsTrue'
  BY <1>2, <1>4, <1>5, <1>6, <1>7 DEF MailInv, StatusIsTrue
<1> QED
  BY <1>9, <1>10

LEMMA MailStep == ASSUME MailInv, [Next]_vars PROVE MailInv'
<1>1. TypeInv'
  BY TypeStep DEF MailInv
<1>2. ASSUME UNCHANGED <<work, rows, mailed>> PROVE Queued' /\ StatusIsTrue'
  BY <1>2, RowsKept
<1>3. ASSUME NEW c \in Consumers, NEW h, work' = [work EXCEPT ![c] = h],
             h.step \notin {"mail", "report"}, UNCHANGED <<rows, mailed>>
      PROVE  Queued' /\ StatusIsTrue'
  <2>1. \A d \in Consumers : work'[d] = IF d = c THEN h ELSE work[d]
    BY <1>3 DEF MailInv, TypeInv, TypeOK
  <2> QED
    BY <1>3, <2>1, RowsKept
<1>4. \A step, m, todo : Handler(step, m, todo, 0, FALSE).step = step
  BY DEF Handler
<1>5. ASSUME NEW c \in Consumers, NEW m \in Messages, Take(c, m) \/ TakeOver(c, m)
      PROVE  Queued' /\ StatusIsTrue'
  <2>1. /\ work' = [work EXCEPT ![c] = Handler("start", m, {}, 0, FALSE)]
        /\ UNCHANGED <<rows, mailed>>
    BY <1>5 DEF Take, TakeOver, Deliver
  <2>2. Handler("start", m, {}, 0, FALSE).step \notin {"mail", "report"}
    BY DEF Handler
  <2> QED
    BY <1>3, <2>1, <2>2
<1>10. ASSUME NEW c \in Consumers, Leave(c), UNCHANGED <<rows, mailed>>
       PROVE  Queued' /\ StatusIsTrue'
  BY <1>3, <1>10, IdleTyped DEF Leave
<1>6. ASSUME NEW c \in Consumers, CommitOffset(c) \/ Crash(c) \/ DbError(c)
      PROVE  Queued' /\ StatusIsTrue'
  BY <1>6, <1>10 DEF CommitOffset, Crash, DbError, Throw
<1>7. ASSUME NEW c \in Consumers,
             CountSeats(c) \/ SaveSeats(c) \/ Handle(c) \/ AllSent(c)
      PROVE  Queued' /\ StatusIsTrue'
  <2>1. \/ \E step \in {"save", "send", "done"} : \E m, todo :
              work' = [work EXCEPT ![c] = Handler(step, m, todo, 0, FALSE)]
        \/ Leave(c)
    BY <1>7 DEF CountSeats, SaveSeats, Handle, AllSent, Throw, Step
  <2>2. UNCHANGED <<rows, mailed>>
    BY <1>7 DEF CountSeats, SaveSeats, Handle, AllSent
  <2> QED
    BY <1>3, <1>4, <1>10, <2>1, <2>2
<1>8. ASSUME NEW c \in Consumers,
             \/ SendMail(c) \/ SaveStatus(c)
             \/ \E i \in Items, n \in RowIds : QueueRow(c, i, n)
      PROVE  Queued' /\ StatusIsTrue'
  BY <1>8, QueueRowMail, SendMailMail, SaveStatusMail
<1>9. \/ UNCHANGED <<work, rows, mailed>>
      \/ \E c \in Consumers, m \in Messages : Take(c, m) \/ TakeOver(c, m)
      \/ \E c \in Consumers :
            \/ CommitOffset(c) \/ Crash(c)
            \/ CountSeats(c) \/ SaveSeats(c) \/ Handle(c) \/ AllSent(c) \/ DbError(c)
            \/ SendMail(c) \/ SaveStatus(c)
            \/ \E i \in Items, n \in RowIds : QueueRow(c, i, n)
  BY DEF Next, Consume, vars, Create, EmitEventCreate, EmitNotice, EmitAgain, TakeSeat
<1> QED
  BY <1>1, <1>2, <1>5, <1>6, <1>7, <1>8, <1>9 DEF MailInv

LEMMA MailStart == ASSUME Init PROVE MailInv
<1>1. \A c \in Consumers : ~ Sending(c)
  BY IdleTyped DEF Init, Sending
<1> QED
  BY <1>1, TypeStart DEF Init, MailInv, Queued, StatusIsTrue

\* SENT and FAILED in the notifications table are what the SMTP server answered,
\* whichever query fails and however handlers of one message overlap.
THEOREM StatusIsTrueHolds == Spec => []StatusIsTrue
<1>1. MailInv => StatusIsTrue
  BY DEF MailInv
<1> QED
  BY <1>1, MailStart, MailStep, PTL DEF Spec

=============================================================================
