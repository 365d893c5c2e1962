-------------------------- MODULE FulfilmentProofs --------------------------
(***************************************************************************)
(* Proofs about Fulfilment, for any number of ticks, cancel requests and   *)
(* check-ins at work at once: type correctness; the booking never says     *)
(* that money is back before it is; entries are given up only after their  *)
(* retries; one ticket per item, and a freed seat stays free, unless two   *)
(* ticks had read the same entry; a completed refund leaves no ticket that *)
(* admits somebody; a refund falls back only when a stale copy is saved    *)
(* and is announced once until one is; and the services implement the      *)
(* abstract refund (Refund).                                               *)
(***************************************************************************)
EXTENDS Fulfilment, SequenceTheorems, FiniteSetTheorems, TLAPS

-----------------------------------------------------------------------------
(* Sequences *)

LEMMA SeqSet ==
    ASSUME NEW S, NEW s \in Seq(S), NEW i \in DOMAIN s, NEW e \in S, NEW r,
           r = [s EXCEPT ![i] = e]
    PROVE  /\ r \in Seq(S) /\ DOMAIN r = DOMAIN s /\ Len(r) = Len(s)
           /\ r[i] = e
           /\ \A j \in DOMAIN s : j # i => r[j] = s[j]
<1>1. i \in 1..Len(s) /\ DOMAIN s = 1..Len(s)
  BY LenProperties
<1>2. r \in Seq(S) /\ Len(r) = Len(s)
  BY <1>1, ExceptSeq
<1> QED
  BY <1>1, <1>2, LenProperties

LEMMA SeqAppend ==
    ASSUME NEW S, NEW s \in Seq(S), NEW e \in S, NEW r, r = Append(s, e)
    PROVE  /\ r \in Seq(S) /\ DOMAIN r = DOMAIN s \cup {Len(s) + 1}
           /\ Len(r) = Len(s) + 1 /\ Len(s) \in Nat
           /\ Len(s) + 1 \notin DOMAIN s
           /\ r[Len(s) + 1] = e
           /\ \A j \in DOMAIN s : r[j] = s[j]
<1>1. Len(s) \in Nat /\ DOMAIN s = 1..Len(s)
  BY LenProperties
<1>2. r \in Seq(S) /\ Len(r) = Len(s) + 1 /\ r[Len(s) + 1] = e
  BY AppendProperties
<1>3. \A j \in 1..Len(s) : r[j] = s[j]
  BY AppendProperties
<1>4. DOMAIN r = 1..(Len(s) + 1)
  BY <1>2, LenProperties
<1> QED
  BY <1>1, <1>2, <1>3, <1>4

LEMMA SeqMap ==
    ASSUME NEW S, NEW T, NEW s \in Seq(S), NEW r, DOMAIN r = DOMAIN s,
           r = [i \in DOMAIN s |-> r[i]], \A i \in DOMAIN s : r[i] \in T
    PROVE  r \in Seq(T) /\ Len(r) = Len(s)
<1>1. Len(s) \in Nat /\ DOMAIN s = 1..Len(s)
  BY LenProperties
<1>2. r \in [1..Len(s) -> T]
  BY <1>1
<1>3. r \in Seq(T)
  BY <1>1, <1>2, SeqDef
<1> QED
  BY <1>1, <1>3, LenProperties

LEMMA SeqElement ==
    ASSUME NEW S, NEW s \in Seq(S), NEW i \in DOMAIN s
    PROVE  s[i] \in S
BY LenProperties, ElementOfSeq

-----------------------------------------------------------------------------
(* Types *)

AtEntry == {"run", "generate", "complete", "retry"}

\* A tick works on entries that exist, on one of its batch at a time.
TicksInv ==
    /\ DOMAIN batch = Ticks
    /\ \A t \in Ticks : /\ DOMAIN batch[t] \subseteq DOMAIN outbox
                        /\ tpc[t] \in AtEntry => cur[t] \in DOMAIN batch[t]

\* A check-in saves a ticket it has read.
GatesInv == \A g \in Gates : gpc[g] = "save" => shown[g] \in DOMAIN tickets

TypeInv == StateOK /\ TicksInv /\ GatesInv

LEMMA EntryTyped ==
    ASSUME TypeInv, NEW i \in DOMAIN outbox
    PROVE  /\ outbox[i] \in OutboxRows
           /\ outbox[i].kind \in Kinds /\ outbox[i].status \in OutboxStatuses
           /\ outbox[i].retry \in Nat /\ outbox[i].fails \in Nat
<1>1. outbox[i] \in OutboxRows
  BY SeqElement DEF TypeInv, StateOK
<1> QED
  BY <1>1 DEF OutboxRows

RowStates == {"none", "pending", "processed", "failed"}

LEMMA CallTyped ==
    ASSUME TypeInv, NEW i \in DOMAIN calls
    PROVE  /\ calls[i] \in CallRecords
           /\ calls[i].driver \in Drivers \cup {NoDriver}
           /\ calls[i].key \in Keys \cup {NoKey}
           /\ calls[i].step \in CallSteps
           /\ calls[i].success \in BOOLEAN
           /\ calls[i].row \in RowStates
<1>1. calls[i] \in CallRecords
  BY SeqElement DEF TypeInv, StateOK
<1> QED
  BY <1>1 DEF CallRecords, RowStates

LEMMA CopyTyped ==
    ASSUME TypeInv, NEW d \in Drivers
    PROVE  /\ copy[d] \in BookingRows
           /\ copy[d].status \in {"confirmed", "refunded"}
           /\ copy[d].refundState \in RefundStates
           /\ copy[d].key \in Keys \cup {NoKey} /\ copy[d].tries \in Nat
BY DEF TypeInv, StateOK, BookingRows

LEMMA BookingTyped ==
    ASSUME TypeInv
    PROVE  /\ booking \in BookingRows
           /\ booking.status \in {"confirmed", "refunded"}
           /\ booking.refundState \in RefundStates
           /\ booking.key \in Keys \cup {NoKey} /\ booking.tries \in Nat
BY DEF TypeInv, StateOK, BookingRows

\* What SetEntry writes.
LEMMA EntrySet ==
    ASSUME TypeInv, NEW i \in DOMAIN outbox, NEW status \in OutboxStatuses,
           NEW retry \in Nat, NEW fails \in Nat, SetEntry(i, status, retry, fails)
    PROVE  /\ outbox' \in Seq(OutboxRows) /\ DOMAIN outbox' = DOMAIN outbox
           /\ outbox'[i].kind = outbox[i].kind /\ outbox'[i].status = status
           /\ outbox'[i].retry = retry /\ outbox'[i].fails = fails
           /\ \A j \in DOMAIN outbox : j # i => outbox'[j] = outbox[j]
           /\ \A j \in DOMAIN outbox : outbox'[j].kind = outbox[j].kind
<1> DEFINE e == [kind |-> outbox[i].kind, status |-> status, retry |-> retry, fails |-> fails]
<1>1. /\ e \in OutboxRows /\ e.kind = outbox[i].kind /\ e.status = status
      /\ e.retry = retry /\ e.fails = fails
  BY EntryTyped DEF OutboxRows
<1>2. outbox' = [outbox EXCEPT ![i] = e] /\ outbox \in Seq(OutboxRows)
  BY DEF SetEntry, TypeInv, StateOK
<1> HIDE DEF e
<1> QED
  BY <1>1, <1>2, SeqSet

\* What NewEntry adds.
LEMMA EntryAdded ==
    ASSUME TypeInv, NEW kind \in Kinds, outbox' = Append(outbox, NewEntry(kind))
    PROVE  /\ outbox' \in Seq(OutboxRows)
           /\ DOMAIN outbox' = DOMAIN outbox \cup {Len(outbox) + 1}
           /\ Len(outbox) \in Nat /\ Len(outbox) + 1 \notin DOMAIN outbox
           /\ outbox'[Len(outbox) + 1].kind = kind
           /\ outbox'[Len(outbox) + 1].status = "pending"
           /\ outbox'[Len(outbox) + 1].retry = 0 /\ outbox'[Len(outbox) + 1].fails = 0
           /\ \A j \in DOMAIN outbox : outbox'[j] = outbox[j]
<1>1. /\ NewEntry(kind) \in OutboxRows /\ NewEntry(kind).kind = kind
      /\ NewEntry(kind).status = "pending" /\ NewEntry(kind).retry = 0
      /\ NewEntry(kind).fails = 0
  BY DEF NewEntry, OutboxRows, OutboxStatuses
<1>2. outbox \in Seq(OutboxRows)
  BY DEF TypeInv, StateOK
<1> QED
  BY <1>1, <1>2, SeqAppend

LEMMA CallAfterTyped ==
    ASSUME TypeInv, NEW i \in DOMAIN calls, NEW driver \in Drivers \cup {NoDriver},
           NEW step \in CallSteps, NEW success \in BOOLEAN,
           NEW row \in RowStates
    PROVE  /\ CallAfter(i, driver, step, success, row) \in CallRecords
           /\ CallAfter(i, driver, step, success, row).driver = driver
           /\ CallAfter(i, driver, step, success, row).key = calls[i].key
           /\ CallAfter(i, driver, step, success, row).step = step
           /\ CallAfter(i, driver, step, success, row).success = success
           /\ CallAfter(i, driver, step, success, row).row = row
BY CallTyped DEF CallAfter, CallRecords, RowStates

\* What a step of call i writes.
CallBecomes(i, driver, step, success, row) ==
    calls' = [calls EXCEPT ![i] = CallAfter(i, driver, step, success, row)]

LEMMA CallSet ==
    ASSUME TypeInv, NEW i \in DOMAIN calls, NEW driver \in Drivers \cup {NoDriver},
           NEW step \in CallSteps, NEW success \in BOOLEAN,
           NEW row \in RowStates,
           CallBecomes(i, driver, step, success, row)
    PROVE  /\ calls' \in Seq(CallRecords) /\ DOMAIN calls' = DOMAIN calls
           /\ calls'[i].driver = driver /\ calls'[i].step = step
           /\ calls'[i].success = success /\ calls'[i].row = row
           /\ \A j \in DOMAIN calls : j # i => calls'[j] = calls[j]
<1> DEFINE c == CallAfter(i, driver, step, success, row)
<1>1. calls \in Seq(CallRecords)
  BY DEF TypeInv, StateOK
<1>2. /\ c \in CallRecords /\ c.driver = driver /\ c.step = step
      /\ c.success = success /\ c.row = row
  BY CallAfterTyped
<1>3. calls' = [calls EXCEPT ![i] = c]
  BY DEF CallBecomes
<1> HIDE DEF c
<1> QED
  BY <1>1, <1>2, <1>3, SeqSet

LEMMA DetachedTyped ==
    ASSUME TypeInv, NEW i \in DOMAIN calls, NEW step \in CallSteps
    PROVE  /\ Detached(i, step) \in CallRecords /\ Detached(i, step).driver = NoDriver
           /\ Detached(i, step).step = step
           /\ Detached(i, step).success = calls[i].success
           /\ Detached(i, step).row = calls[i].row
<1>1. /\ calls[i].success \in BOOLEAN /\ NoDriver \in Drivers \cup {NoDriver}
      /\ calls[i].row \in RowStates
  BY CallTyped
<1> QED
  BY <1>1, CallAfterTyped DEF Detached

\* The caller of one call is gone.
LEMMA DetachedSet ==
    ASSUME TypeInv, NEW i \in DOMAIN calls, NEW step \in CallSteps,
           calls' = [calls EXCEPT ![i] = Detached(i, step)]
    PROVE  /\ calls' \in Seq(CallRecords) /\ DOMAIN calls' = DOMAIN calls
           /\ calls'[i].driver = NoDriver /\ calls'[i].step = step
           /\ calls'[i].success = calls[i].success /\ calls'[i].row = calls[i].row
           /\ \A j \in DOMAIN calls : j # i => calls'[j] = calls[j]
<1> DEFINE c == Detached(i, step)
<1>1. /\ c \in CallRecords /\ c.driver = NoDriver /\ c.step = step
      /\ c.success = calls[i].success /\ c.row = calls[i].row
  BY DetachedTyped
<1>2. calls \in Seq(CallRecords) /\ calls' = [calls EXCEPT ![i] = c]
  BY DEF TypeInv, StateOK
<1> HIDE DEF c
<1>3. /\ calls' \in Seq(CallRecords) /\ DOMAIN calls' = DOMAIN calls /\ calls'[i] = c
      /\ \A j \in DOMAIN calls : j # i => calls'[j] = calls[j]
  BY <1>1, <1>2, SeqSet
<1> QED
  BY <1>1, <1>3

\* Restarts detach all calls.
LEMMA CallsDetached ==
    ASSUME TypeInv, NEW r, r = [i \in DOMAIN calls |-> r[i]],
           \A i \in DOMAIN calls : \E step \in CallSteps : r[i] = Detached(i, step)
    PROVE  /\ r \in Seq(CallRecords) /\ DOMAIN r = DOMAIN calls
           /\ \A i \in DOMAIN calls :
                /\ r[i].driver = NoDriver
                /\ r[i].success = calls[i].success /\ r[i].row = calls[i].row
<1>1. calls \in Seq(CallRecords) /\ DOMAIN r = DOMAIN calls
  BY DEF TypeInv, StateOK
<1>2. ASSUME NEW i \in DOMAIN calls
      PROVE  /\ r[i] \in CallRecords /\ r[i].driver = NoDriver
             /\ r[i].success = calls[i].success /\ r[i].row = calls[i].row
  <2>1. PICK step \in CallSteps : r[i] = Detached(i, step)
    OBVIOUS
  <2> QED
    BY <2>1, DetachedTyped
<1> QED
  BY <1>1, <1>2, SeqMap

\* What a driver writes into its copy.
LEMMA CopySet ==
    ASSUME TypeInv, NEW d \in Drivers, NEW status \in {"confirmed", "refunded"},
           NEW refundState \in RefundStates, NEW tries \in Nat,
           SetCopy(d, status, refundState, tries)
    PROVE  /\ copy' \in [Drivers -> BookingRows]
           /\ copy'[d].status = status /\ copy'[d].refundState = refundState
           /\ copy'[d].tries = tries
           /\ \A e \in Drivers : e # d => copy'[e] = copy[e]
<1> DEFINE b == BookingRow(status, refundState, copy[d].key, tries)
<1>1. b \in BookingRows /\ b.status = status /\ b.refundState = refundState /\ b.tries = tries
  BY CopyTyped DEF BookingRow, BookingRows
<1>2. copy' = [copy EXCEPT ![d] = b] /\ copy \in [Drivers -> BookingRows]
  BY DEF SetCopy, TypeInv, StateOK
<1> HIDE DEF b
<1> QED
  BY <1>1, <1>2

LEMMA DriverMoves ==
    ASSUME TypeInv, NEW d \in Drivers, NEW step \in DriverSteps, DriverGoto(d, step)
    PROVE  /\ dpc' \in [Drivers -> DriverSteps]
           /\ dpc'[d] = step
           /\ \A e \in Drivers : e # d => dpc'[e] = dpc[e]
BY DEF TypeInv, StateOK, DriverGoto

LEMMA TickMoves ==
    ASSUME TypeInv, NEW t \in Ticks, NEW step \in TickSteps, TickGoto(t, step)
    PROVE  /\ tpc' \in [Ticks -> TickSteps]
           /\ tpc'[t] = step
           /\ \A u \in Ticks : u # t => tpc'[u] = tpc[u]
BY DEF TypeInv, StateOK, TickGoto

LEMMA UpsetsTyped ==
    ASSUME TypeInv, \/ NoFault \/ Starts
                    \/ \E kind \in {"rpc", "db", "gateway", "booking", "payment"} : Fault(kind)
    PROVE  upsets' \in 0..MaxUpsets
<1>1. upsets \in 0..MaxUpsets
  BY DEF TypeInv, StateOK
<1>2. upsets' = upsets \/ (upsets < MaxUpsets /\ upsets' = upsets + 1)
  BY DEF Fault, NoFault, Starts
<1> QED
  BY <1>1, <1>2, LimitsAssumption

LEMMA StepForTyped == ASSUME NEW state PROVE StepFor(state) \in DriverSteps
BY DEF StepFor, DriverSteps

-----------------------------------------------------------------------------
(* Every step keeps TypeInv.  First the ticks. *)

LEMMA InitType == Init => TypeInv
<1> SUFFICES ASSUME Init PROVE TypeInv
  OBVIOUS
<1>1. NewRow \in BookingRows
  BY DEF NewRow, BookingRow, BookingRows, RefundStates
<1>2. outbox \in Seq(OutboxRows)
  <2>1. NewEntry("seats.mark_sold") \in OutboxRows /\ NewEntry("booking.confirmed") \in OutboxRows
    BY DEF NewEntry, OutboxRows, Kinds, OutboxStatuses
  <2> QED
    BY <2>1 DEF Init
<1>3. tickets \in Seq(TicketStatuses) /\ calls \in Seq(CallRecords)
  BY DEF Init
<1>4. \A t \in Ticks : DOMAIN batch[t] = {} /\ batch[t] \in [DOMAIN batch[t] -> Nat]
  BY DEF Init, NoEntries
<1>5. TicksInv /\ GatesInv
  BY <1>4 DEF Init, TicksInv, GatesInv, AtEntry
<1>6. /\ booking \in BookingRows /\ copy \in [Drivers -> BookingRows]
      /\ dpc \in [Drivers -> DriverSteps]
  BY <1>1 DEF Init, DriverSteps
<1>7. /\ tpc \in [Ticks -> TickSteps] /\ cur \in [Ticks -> Nat]
      /\ gpc \in [Gates -> {"idle", "save", "ended"}] /\ shown \in [Gates -> Nat]
      /\ seat \in {"held", "sold", "available"} /\ payment \in {"succeeded", "refunded"}
  BY DEF Init, TickSteps
<1>8. returned \in BOOLEAN
  BY Zenon DEF Init
<1>9. upsets \in 0..MaxUpsets
  BY LimitsAssumption DEF Init
<1> QED
  BY <1>2, <1>3, <1>4, <1>5, <1>6, <1>7, <1>8, <1>9 DEF TypeInv, StateOK

LEMMA TickReadsType ==
    ASSUME TypeInv, NEW t \in Ticks, TickReads(t)
    PROVE  TypeInv'
<1> DEFINE b == [i \in Pending |-> outbox[i].retry]
<1>1. b \in [DOMAIN b -> Nat] /\ DOMAIN b \subseteq DOMAIN outbox
  BY EntryTyped DEF Pending
<1>2. batch' = [batch EXCEPT ![t] = b] /\ tpc' = [tpc EXCEPT ![t] = "loop"]
  BY DEF TickReads, TickGoto
<1>3. upsets' \in 0..MaxUpsets
  BY UpsetsTyped DEF TickReads
<1> HIDE DEF b
<1> QED
  BY <1>1, <1>2, <1>3
  DEF TypeInv, StateOK, TicksInv, GatesInv, TickReads, TickSteps, AtEntry,
      driving, gates, paying

LEMMA TickEndsType ==
    ASSUME TypeInv, NEW t \in Ticks, TickEnds(t), DOMAIN outbox' = DOMAIN outbox
    PROVE  /\ tpc' \in [Ticks -> TickSteps] /\ cur' \in [Ticks -> Nat]
           /\ \A u \in Ticks : batch'[u] \in [DOMAIN batch'[u] -> Nat]
           /\ TicksInv'
<1>1. NoEntries \in [DOMAIN NoEntries -> Nat] /\ DOMAIN NoEntries = {}
  BY DEF NoEntries
<1> QED
  BY <1>1 DEF TypeInv, StateOK, TicksInv, TickEnds, TickGoto, TickSteps, AtEntry

LEMMA NextEntryType ==
    ASSUME TypeInv, NEW t \in Ticks, NextEntry(t), DOMAIN outbox' = DOMAIN outbox
    PROVE  /\ tpc' \in [Ticks -> TickSteps] /\ cur' \in [Ticks -> Nat]
           /\ \A u \in Ticks : batch'[u] \in [DOMAIN batch'[u] -> Nat]
           /\ TicksInv'
<1> DEFINE b == [i \in DOMAIN batch[t] \ {cur[t]} |-> batch[t][i]]
<1>1. b \in [DOMAIN b -> Nat] /\ DOMAIN b \subseteq DOMAIN batch[t]
  BY DEF TypeInv, StateOK
<1>2. batch' = [batch EXCEPT ![t] = b]
  BY DEF NextEntry
<1> HIDE DEF b
<1> QED
  BY <1>1, <1>2 DEF TypeInv, StateOK, TicksInv, NextEntry, TickGoto, TickSteps, AtEntry

LEMMA TickTakesType ==
    ASSUME TypeInv, NEW t \in Ticks, TickTakes(t)
    PROVE  TypeInv'
<1>1. CASE DOMAIN batch[t] = {} /\ TickEnds(t) /\ outbox' = outbox
  BY <1>1, TickEndsType
  DEF TypeInv, StateOK, GatesInv, TickTakes, driving, gates, paying
<1>2. ASSUME NEW i \in DOMAIN batch[t], SaveEntry(i, "processing", batch[t][i]),
             TickGoto(t, "run"), cur' = [cur EXCEPT ![t] = i], batch' = batch
      PROVE  TypeInv'
  <2>1. i \in DOMAIN outbox /\ batch[t][i] \in Nat /\ i \in Nat
    BY LenProperties DEF TypeInv, StateOK, TicksInv
  <2>2. outbox' \in Seq(OutboxRows) /\ DOMAIN outbox' = DOMAIN outbox
    BY <1>2, <2>1, EntrySet, EntryTyped DEF SaveEntry, OutboxStatuses
  <2> QED
    BY <1>2, <2>1, <2>2
    DEF TypeInv, StateOK, TicksInv, GatesInv, TickTakes, TickGoto, TickSteps, AtEntry,
        driving, gates, paying
<1> QED
  BY <1>1, <1>2 DEF TickTakes

\* A step of a tick on its entry that leaves the outbox alone.
LEMMA OnEntryType ==
    ASSUME TypeInv, NEW t \in Ticks, NEW step \in AtEntry, tpc[t] \in AtEntry,
           TickGoto(t, step), UNCHANGED <<outbox, batch, cur>>
    PROVE  tpc' \in [Ticks -> TickSteps] /\ TicksInv'
<1>1. step \in TickSteps
  BY DEF AtEntry, TickSteps
<1> QED
  BY <1>1, TickMoves DEF TypeInv, TicksInv

LEMMA HandleSeatsSoldType ==
    ASSUME TypeInv, NEW t \in Ticks, HandleSeatsSold(t)
    PROVE  TypeInv'
<1>1. tpc' \in [Ticks -> TickSteps] /\ TicksInv'
  BY OnEntryType DEF HandleSeatsSold, AtEntry
<1>2. upsets' \in 0..MaxUpsets
  BY UpsetsTyped DEF HandleSeatsSold
<1>3. seat' \in {"held", "sold", "available"}
  BY DEF HandleSeatsSold, TypeInv, StateOK
<1> QED
  BY <1>1, <1>2, <1>3
  DEF TypeInv, StateOK, GatesInv, HandleSeatsSold, driving, gates, paying

LEMMA HandleBookingConfirmedType ==
    ASSUME TypeInv, NEW t \in Ticks, HandleBookingConfirmed(t)
    PROVE  TypeInv'
<1>1. tpc' \in [Ticks -> TickSteps] /\ TicksInv'
  BY OnEntryType DEF HandleBookingConfirmed, AtEntry
<1>2. upsets' \in 0..MaxUpsets
  BY UpsetsTyped DEF HandleBookingConfirmed
<1> QED
  BY <1>1, <1>2
  DEF TypeInv, StateOK, GatesInv, HandleBookingConfirmed, driving, gates, paying

LEMMA HandleBookingRefundedType ==
    ASSUME TypeInv, NEW t \in Ticks, HandleBookingRefunded(t)
    PROVE  TypeInv'
<1>1. tpc' \in [Ticks -> TickSteps] /\ TicksInv'
  BY OnEntryType DEF HandleBookingRefunded, AtEntry
<1> QED
  BY <1>1
  DEF TypeInv, StateOK, GatesInv, HandleBookingRefunded, driving, gates, paying

\* What GenerateTicket adds.
LEMMA TicketAdded ==
    ASSUME TypeInv, tickets' = Append(tickets, "active")
    PROVE  /\ tickets' \in Seq(TicketStatuses) /\ DOMAIN tickets \subseteq DOMAIN tickets'
           /\ Len(tickets') = Len(tickets) + 1
           /\ \A i \in DOMAIN tickets : tickets'[i] = tickets[i]
<1>1. tickets \in Seq(TicketStatuses) /\ "active" \in TicketStatuses
  BY DEF TypeInv, StateOK, TicketStatuses
<1> QED
  BY <1>1, SeqAppend

LEMMA GenerateTicketType ==
    ASSUME TypeInv, NEW t \in Ticks, GenerateTicket(t)
    PROVE  TypeInv'
<1>1. tickets' \in Seq(TicketStatuses) /\ DOMAIN tickets \subseteq DOMAIN tickets'
  BY TicketAdded DEF TypeInv, StateOK, GenerateTicket
<1>2. tpc' \in [Ticks -> TickSteps] /\ TicksInv'
  BY OnEntryType DEF GenerateTicket, AtEntry
<1>3. upsets' \in 0..MaxUpsets
  BY UpsetsTyped DEF GenerateTicket
<1> QED
  BY <1>1, <1>2, <1>3
  DEF TypeInv, StateOK, GatesInv, GenerateTicket, driving, gates, paying

LEMMA EntryCompletedType ==
    ASSUME TypeInv, NEW t \in Ticks, EntryCompleted(t)
    PROVE  TypeInv'
<1>1. CASE SaveEntry(cur[t], "completed", batch[t][cur[t]]) /\ NextEntry(t) /\ NoFault
  <2>1. cur[t] \in DOMAIN outbox /\ batch[t][cur[t]] \in Nat
    BY DEF TypeInv, StateOK, TicksInv, EntryCompleted, AtEntry
  <2>2. outbox' \in Seq(OutboxRows) /\ DOMAIN outbox' = DOMAIN outbox
    BY <1>1, <2>1, EntrySet, EntryTyped DEF SaveEntry, OutboxStatuses
  <2> QED
    BY <1>1, <2>2, NextEntryType
    DEF TypeInv, StateOK, GatesInv, EntryCompleted, NoFault, driving, gates, paying
<1>2. CASE TickGoto(t, "retry") /\ Fault("db") /\ UNCHANGED <<outbox, batch, cur>>
  BY <1>2, LimitsAssumption
  DEF TypeInv, StateOK, TicksInv, GatesInv, EntryCompleted, TickGoto, TickSteps, AtEntry,
      Fault, driving, gates, paying
<1> QED
  BY <1>1, <1>2 DEF EntryCompleted

\* The two outcomes of the catch block of a tick.
LEMMA EntryFailedCases ==
    ASSUME TypeInv, NEW t \in Ticks, EntryFailed(t)
    PROVE  /\ cur[t] \in DOMAIN batch[t] /\ cur[t] \in DOMAIN outbox
           /\ batch[t][cur[t]] \in Nat /\ batch[t][cur[t]] + 1 \in Nat
           /\ outbox[cur[t]].fails + 1 \in Nat
           /\ \/ /\ \E status \in OutboxStatuses :
                      /\ status # "completed"
                      /\ status = "failed" => batch[t][cur[t]] + 1 >= MaxRetries
                      /\ SetEntry(cur[t], status, batch[t][cur[t]] + 1,
                                  outbox[cur[t]].fails + 1)
                 /\ NextEntry(t) /\ NoFault
              \/ /\ TickEnds(t) /\ Fault("db")
                 /\ SetEntry(cur[t], outbox[cur[t]].status, outbox[cur[t]].retry,
                             outbox[cur[t]].fails + 1)
<1>1. /\ cur[t] \in DOMAIN batch[t] /\ cur[t] \in DOMAIN outbox
      /\ batch[t][cur[t]] \in Nat
  BY DEF TypeInv, StateOK, TicksInv, EntryFailed, AtEntry
<1>2. batch[t][cur[t]] + 1 \in Nat /\ outbox[cur[t]].fails + 1 \in Nat
  BY <1>1, EntryTyped
<1>3. CASE batch[t][cur[t]] + 1 >= MaxRetries
  BY <1>1, <1>2, <1>3 DEF EntryFailed, OutboxStatuses
<1>4. CASE ~ (batch[t][cur[t]] + 1 >= MaxRetries)
  BY <1>1, <1>2, <1>4 DEF EntryFailed, OutboxStatuses
<1> QED
  BY <1>3, <1>4

LEMMA EntryFailedType ==
    ASSUME TypeInv, NEW t \in Ticks, EntryFailed(t)
    PROVE  TypeInv'
<1>1. outbox' \in Seq(OutboxRows) /\ DOMAIN outbox' = DOMAIN outbox
  BY EntryFailedCases, EntrySet, EntryTyped
<1>2. /\ tpc' \in [Ticks -> TickSteps] /\ cur' \in [Ticks -> Nat]
      /\ \A u \in Ticks : batch'[u] \in [DOMAIN batch'[u] -> Nat]
      /\ TicksInv'
  BY <1>1, EntryFailedCases, NextEntryType, TickEndsType
<1>3. upsets' \in 0..MaxUpsets
  BY EntryFailedCases, UpsetsTyped
<1> QED
  BY <1>1, <1>2, <1>3
  DEF TypeInv, StateOK, GatesInv, EntryFailed, driving, gates, paying

LEMMA TickAbortsType ==
    ASSUME TypeInv, NEW t \in Ticks, TickAborts(t)
    PROVE  TypeInv'
<1>1. upsets' \in 0..MaxUpsets
  BY LimitsAssumption DEF TypeInv, StateOK, TickAborts, Fault
<1> QED
  BY <1>1, TickEndsType
  DEF TypeInv, StateOK, GatesInv, TickAborts, driving, gates, paying

-----------------------------------------------------------------------------
(* TypeInv: drivers, calls, check-ins, restarts. *)

LEMMA CancelsDrive == Cancels \subseteq Drivers /\ Recovery \in Drivers
BY DEF Drivers

\* What CancelBooking reads into the copy.
LEMMA CancelBookingCases ==
    ASSUME TypeInv, NEW c \in Cancels, CancelBooking(c)
    PROVE  /\ c \in Drivers /\ dpc[c] = "idle"
           /\ \/ DriverGoto(c, "ended") /\ copy' = copy
              \/ \E k \in Keys, row \in BookingRows :
                   /\ copy' = [copy EXCEPT ![c] = row]
                   /\ row.status = "confirmed" /\ row.refundState = "refund_initiated"
                   /\ booking.refundState = "none"
                   /\ DriverGoto(c, "init")
              \/ /\ copy' = [copy EXCEPT ![c] = booking]
                 /\ booking.status = "confirmed" /\ booking.refundState # "none"
                 /\ DriverGoto(c, StepFor(booking.refundState))
<1>1. c \in Drivers /\ dpc[c] = "idle"
  BY CancelsDrive DEF CancelBooking
<1>2. CASE booking.status # "confirmed"
  BY <1>1, <1>2 DEF CancelBooking
<1>3. CASE booking.status = "confirmed" /\ booking.refundState # "none"
  BY <1>1, <1>3 DEF CancelBooking
<1>4. CASE booking.status = "confirmed" /\ booking.refundState = "none"
  <2>1. PICK k \in Keys : copy' = [copy EXCEPT ![c] =
                            BookingRow("confirmed", "refund_initiated", k, booking.tries)]
    BY <1>4 DEF CancelBooking
  <2> DEFINE row == BookingRow("confirmed", "refund_initiated", k, booking.tries)
  <2>2. row \in BookingRows /\ row.status = "confirmed" /\ row.refundState = "refund_initiated"
    BY BookingTyped DEF BookingRow, BookingRows, RefundStates
  <2>3. DriverGoto(c, "init")
    BY <1>4 DEF CancelBooking
  <2>4. copy' = [copy EXCEPT ![c] = row]
    BY <2>1
  <2> HIDE DEF row
  <2> QED
    BY <1>1, <1>4, <2>2, <2>3, <2>4
<1> QED
  BY <1>2, <1>3, <1>4

LEMMA CancelBookingType ==
    ASSUME TypeInv, NEW c \in Cancels, CancelBooking(c)
    PROVE  TypeInv'
<1>1. dpc' \in [Drivers -> DriverSteps]
  BY CancelBookingCases, DriverMoves, StepForTyped DEF DriverSteps
<1>2. copy' \in [Drivers -> BookingRows]
  BY CancelBookingCases DEF TypeInv, StateOK
<1>3. upsets' \in 0..MaxUpsets
  BY UpsetsTyped DEF CancelBooking
<1> QED
  BY <1>1, <1>2, <1>3
  DEF TypeInv, StateOK, TicksInv, GatesInv, CancelBooking, ticking, gates, paying

LEMMA InitiateRefundType ==
    ASSUME TypeInv, NEW c \in Cancels, InitiateRefund(c)
    PROVE  TypeInv'
<1>1. dpc' \in [Drivers -> DriverSteps]
  BY CancelsDrive, DriverMoves DEF InitiateRefund, DriverSteps
<1>2. booking' \in BookingRows
  BY CancelsDrive DEF InitiateRefund, Save, SaveFails, TypeInv, StateOK
<1>3. upsets' \in 0..MaxUpsets
  BY UpsetsTyped DEF InitiateRefund, SaveFails
<1> QED
  BY <1>1, <1>2, <1>3
  DEF TypeInv, StateOK, TicksInv, GatesInv, InitiateRefund, ticking, gates, paying

LEMMA RecoverStuckRefundType ==
    ASSUME TypeInv, RecoverStuckRefund
    PROVE  TypeInv'
<1>1. dpc' \in [Drivers -> DriverSteps]
  BY CancelsDrive, DriverMoves, StepForTyped DEF RecoverStuckRefund
<1>2. copy' \in [Drivers -> BookingRows]
  BY DEF RecoverStuckRefund, TypeInv, StateOK
<1>3. upsets' \in 0..MaxUpsets
  BY UpsetsTyped DEF RecoverStuckRefund
<1> QED
  BY <1>1, <1>2, <1>3
  DEF TypeInv, StateOK, TicksInv, GatesInv, RecoverStuckRefund, ticking, gates, paying

\* What a new call is.
LEMMA CallAdded ==
    ASSUME TypeInv, NEW d \in Drivers,
           calls' = Append(calls, [driver |-> d, key |-> copy[d].key, step |-> "findPayment",
                                   success |-> FALSE, row |-> "none"])
    PROVE  /\ calls' \in Seq(CallRecords)
           /\ DOMAIN calls' = DOMAIN calls \cup {Len(calls) + 1}
           /\ Len(calls) + 1 \notin DOMAIN calls
           /\ calls'[Len(calls) + 1].driver = d
           /\ calls'[Len(calls) + 1].step = "findPayment"
           /\ calls'[Len(calls) + 1].success = FALSE
           /\ calls'[Len(calls) + 1].row = "none"
           /\ \A j \in DOMAIN calls : calls'[j] = calls[j]
<1> DEFINE e == [driver |-> d, key |-> copy[d].key, step |-> "findPayment",
                 success |-> FALSE, row |-> "none"]
<1>1. /\ e \in CallRecords /\ e.driver = d /\ e.step = "findPayment"
      /\ e.success = FALSE /\ e.row = "none"
  BY CopyTyped DEF CallRecords, CallSteps
<1>2. calls \in Seq(CallRecords) /\ calls' = Append(calls, e)
  BY DEF TypeInv, StateOK
<1> HIDE DEF e
<1> QED
  BY <1>1, <1>2, SeqAppend

LEMMA CallRefundPaymentType ==
    ASSUME TypeInv, NEW d \in Drivers, CallRefundPayment(d)
    PROVE  TypeInv'
<1>1. dpc' \in [Drivers -> DriverSteps]
  BY DriverMoves DEF CallRefundPayment, DriverSteps
<1>2. calls' \in Seq(CallRecords)
  BY CallAdded DEF CallRefundPayment, TypeInv, StateOK
<1>3. upsets' \in 0..MaxUpsets
  BY UpsetsTyped DEF CallRefundPayment
<1> QED
  BY <1>1, <1>2, <1>3
  DEF TypeInv, StateOK, TicksInv, GatesInv, CallRefundPayment, ticking, gates

\* What a step of the handler of call i writes.
LEMMA HandlerSets ==
    ASSUME TypeInv, NEW i \in DOMAIN calls, NEW step \in CallSteps,
           NEW success \in BOOLEAN, NEW row \in RowStates, SetCall(i, step, success, row)
    PROVE  /\ calls' \in Seq(CallRecords) /\ DOMAIN calls' = DOMAIN calls
           /\ calls'[i].driver = calls[i].driver /\ calls'[i].step = step
           /\ calls'[i].success = success /\ calls'[i].row = row
           /\ \A j \in DOMAIN calls : j # i => calls'[j] = calls[j]
<1>1. CallBecomes(i, calls[i].driver, step, success, row)
  BY DEF SetCall, CallBecomes
<1>2. calls[i].driver \in Drivers \cup {NoDriver}
  BY CallTyped
<1> QED
  BY <1>1, <1>2, CallSet, SMTT(30)

\* A step of the handler, as far as the types can tell.
HandlerStep(i) ==
    \/ FindPayment(i) \/ FindRefund(i) \/ InsertRefund(i) \/ GatewayRefund(i)
    \/ SaveRefund(i) \/ SavePayment(i) \/ RefundError(i)

LEMMA FindPaymentSets ==
    ASSUME TypeInv, NEW i \in DOMAIN calls, FindPayment(i)
    PROVE  /\ \E step \in CallSteps \ {"over"}, success \in BOOLEAN, row \in RowStates :
                SetCall(i, step, success, row)
           /\ returned' \in BOOLEAN /\ payment' \in {"succeeded", "refunded"}
           /\ NoFault \/ \E kind \in {"db", "gateway"} : Fault(kind)
<1>1. calls[i].success \in BOOLEAN /\ calls[i].row \in RowStates
  BY CallTyped DEF RowStates
<1>2. returned' \in BOOLEAN /\ payment' \in {"succeeded", "refunded"}
  BY DEF FindPayment, TypeInv, StateOK
<1>3. NoFault \/ \E kind \in {"db", "gateway"} : Fault(kind)
  BY DEF FindPayment, NoFault
<1>4. \E step \in CallSteps \ {"over"}, success \in BOOLEAN, row \in RowStates :
        SetCall(i, step, success, row)
  BY <1>1 DEF FindPayment, CallGoto, Answer, CallSteps, RowStates, TypeInv, StateOK
<1> QED
  BY <1>2, <1>3, <1>4

LEMMA FindRefundSets ==
    ASSUME TypeInv, NEW i \in DOMAIN calls, FindRefund(i)
    PROVE  /\ \E step \in CallSteps \ {"over"}, success \in BOOLEAN, row \in RowStates :
                SetCall(i, step, success, row)
           /\ returned' \in BOOLEAN /\ payment' \in {"succeeded", "refunded"}
           /\ NoFault \/ \E kind \in {"db", "gateway"} : Fault(kind)
<1>1. calls[i].success \in BOOLEAN /\ calls[i].row \in RowStates
  BY CallTyped DEF RowStates
<1>2. returned' \in BOOLEAN /\ payment' \in {"succeeded", "refunded"}
  BY DEF FindRefund, TypeInv, StateOK
<1>3. NoFault \/ \E kind \in {"db", "gateway"} : Fault(kind)
  BY DEF FindRefund, NoFault
<1>4. \E step \in CallSteps \ {"over"}, success \in BOOLEAN, row \in RowStates :
        SetCall(i, step, success, row)
  BY <1>1 DEF FindRefund, CallGoto, Answer, CallSteps, RowStates, TypeInv, StateOK
<1> QED
  BY <1>2, <1>3, <1>4

LEMMA InsertRefundSets ==
    ASSUME TypeInv, NEW i \in DOMAIN calls, InsertRefund(i)
    PROVE  /\ \E step \in CallSteps \ {"over"}, success \in BOOLEAN, row \in RowStates :
                SetCall(i, step, success, row)
           /\ returned' \in BOOLEAN /\ payment' \in {"succeeded", "refunded"}
           /\ NoFault \/ \E kind \in {"db", "gateway"} : Fault(kind)
<1>1. calls[i].success \in BOOLEAN /\ calls[i].row \in RowStates
  BY CallTyped DEF RowStates
<1>2. returned' \in BOOLEAN /\ payment' \in {"succeeded", "refunded"}
  BY DEF InsertRefund, TypeInv, StateOK
<1>3. NoFault \/ \E kind \in {"db", "gateway"} : Fault(kind)
  BY DEF InsertRefund, NoFault
<1>4. \E step \in CallSteps \ {"over"}, success \in BOOLEAN, row \in RowStates :
        SetCall(i, step, success, row)
  BY <1>1 DEF InsertRefund, CallGoto, Answer, CallSteps, RowStates, TypeInv, StateOK
<1> QED
  BY <1>2, <1>3, <1>4

LEMMA GatewayRefundSets ==
    ASSUME TypeInv, NEW i \in DOMAIN calls, GatewayRefund(i)
    PROVE  /\ \E step \in CallSteps \ {"over"}, success \in BOOLEAN, row \in RowStates :
                SetCall(i, step, success, row)
           /\ returned' \in BOOLEAN /\ payment' \in {"succeeded", "refunded"}
           /\ NoFault \/ \E kind \in {"db", "gateway"} : Fault(kind)
<1>1. calls[i].success \in BOOLEAN /\ calls[i].row \in RowStates
  BY CallTyped DEF RowStates
<1>2. returned' \in BOOLEAN /\ payment' \in {"succeeded", "refunded"}
  BY DEF GatewayRefund, TypeInv, StateOK
<1>3. NoFault \/ \E kind \in {"db", "gateway"} : Fault(kind)
  BY DEF GatewayRefund, NoFault
<1>4. \E step \in CallSteps \ {"over"}, success \in BOOLEAN, row \in RowStates :
        SetCall(i, step, success, row)
  BY <1>1 DEF GatewayRefund, CallGoto, Answer, CallSteps, RowStates, TypeInv, StateOK
<1> QED
  BY <1>2, <1>3, <1>4

LEMMA SaveRefundSets ==
    ASSUME TypeInv, NEW i \in DOMAIN calls, SaveRefund(i)
    PROVE  /\ \E step \in CallSteps \ {"over"}, success \in BOOLEAN, row \in RowStates :
                SetCall(i, step, success, row)
           /\ returned' \in BOOLEAN /\ payment' \in {"succeeded", "refunded"}
           /\ NoFault \/ \E kind \in {"db", "gateway"} : Fault(kind)
<1>1. calls[i].success \in BOOLEAN /\ calls[i].row \in RowStates
  BY CallTyped DEF RowStates
<1>2. returned' \in BOOLEAN /\ payment' \in {"succeeded", "refunded"}
  BY DEF SaveRefund, TypeInv, StateOK
<1>3. NoFault \/ \E kind \in {"db", "gateway"} : Fault(kind)
  BY DEF SaveRefund, NoFault
<1>4. \E step \in CallSteps \ {"over"}, success \in BOOLEAN, row \in RowStates :
        SetCall(i, step, success, row)
  BY <1>1 DEF SaveRefund, CallGoto, Answer, CallSteps, RowStates, TypeInv, StateOK
<1> QED
  BY <1>2, <1>3, <1>4

LEMMA SavePaymentSets ==
    ASSUME TypeInv, NEW i \in DOMAIN calls, SavePayment(i)
    PROVE  /\ \E step \in CallSteps \ {"over"}, success \in BOOLEAN, row \in RowStates :
                SetCall(i, step, success, row)
           /\ returned' \in BOOLEAN /\ payment' \in {"succeeded", "refunded"}
           /\ NoFault \/ \E kind \in {"db", "gateway"} : Fault(kind)
<1>1. calls[i].success \in BOOLEAN /\ calls[i].row \in RowStates
  BY CallTyped DEF RowStates
<1>2. returned' \in BOOLEAN /\ payment' \in {"succeeded", "refunded"}
  BY DEF SavePayment, TypeInv, StateOK
<1>3. NoFault \/ \E kind \in {"db", "gateway"} : Fault(kind)
  BY DEF SavePayment, NoFault
<1>4. \E step \in CallSteps \ {"over"}, success \in BOOLEAN, row \in RowStates :
        SetCall(i, step, success, row)
  BY <1>1 DEF SavePayment, CallGoto, Answer, CallSteps, RowStates, TypeInv, StateOK
<1> QED
  BY <1>2, <1>3, <1>4

LEMMA RefundErrorSets ==
    ASSUME TypeInv, NEW i \in DOMAIN calls, RefundError(i)
    PROVE  /\ \E step \in CallSteps \ {"over"}, success \in BOOLEAN, row \in RowStates :
                SetCall(i, step, success, row)
           /\ returned' \in BOOLEAN /\ payment' \in {"succeeded", "refunded"}
           /\ NoFault \/ \E kind \in {"db", "gateway"} : Fault(kind)
<1>1. calls[i].success \in BOOLEAN /\ calls[i].row \in RowStates
  BY CallTyped DEF RowStates
<1>2. returned' \in BOOLEAN /\ payment' \in {"succeeded", "refunded"}
  BY DEF RefundError, TypeInv, StateOK
<1>3. NoFault \/ \E kind \in {"db", "gateway"} : Fault(kind)
  BY DEF RefundError, NoFault
<1>4. \E step \in CallSteps \ {"over"}, success \in BOOLEAN, row \in RowStates :
        SetCall(i, step, success, row)
  BY <1>1 DEF RefundError, CallGoto, Answer, CallSteps, RowStates, TypeInv, StateOK
<1> QED
  BY <1>2, <1>3, <1>4


LEMMA HandlerStepType ==
    ASSUME TypeInv, NEW i \in DOMAIN calls, HandlerStep(i)
    PROVE  TypeInv'
<1>1. /\ \E step \in CallSteps \ {"over"}, success \in BOOLEAN, row \in RowStates :
           SetCall(i, step, success, row)
      /\ returned' \in BOOLEAN /\ payment' \in {"succeeded", "refunded"}
      /\ NoFault \/ \E kind \in {"db", "gateway"} : Fault(kind)
  BY FindPaymentSets, FindRefundSets, InsertRefundSets, GatewayRefundSets, SaveRefundSets,
     SavePaymentSets, RefundErrorSets DEF HandlerStep
<1>2. calls' \in Seq(CallRecords)
  BY <1>1, HandlerSets
<1>3. upsets' \in 0..MaxUpsets
  BY <1>1, UpsetsTyped
<1>4. UNCHANGED <<booking, outbox, tickets, seat, ticking, driving, gates>>
  BY DEF HandlerStep, FindPayment, FindRefund, InsertRefund, GatewayRefund, SaveRefund,
         SavePayment, RefundError
<1> QED
  BY <1>1, <1>2, <1>3, <1>4 DEF TypeInv, StateOK, TicksInv, GatesInv, ticking, driving, gates

\* What becomes of the caller when its call is answered.
LEMMA RefundAnsweredSets ==
    ASSUME TypeInv, NEW i \in DOMAIN calls, RefundAnswered(i)
    PROVE  /\ calls' \in Seq(CallRecords) /\ DOMAIN calls' = DOMAIN calls
           /\ calls'[i].driver = NoDriver /\ calls'[i].step = "over"
           /\ calls'[i].success = calls[i].success /\ calls'[i].row = calls[i].row
           /\ \A j \in DOMAIN calls : j # i => calls'[j] = calls[j]
           /\ \/ calls[i].driver = NoDriver /\ UNCHANGED driving
              \/ \E d \in Drivers :
                   /\ calls[i].driver = d
                   /\ copy' \in [Drivers -> BookingRows]
                   /\ copy'[d].status = copy[d].status /\ copy'[d].tries = copy[d].tries
                   /\ copy'[d].refundState =
                        IF calls[i].success THEN "payment_refunded" ELSE "failed"
                   /\ \A e \in Drivers : e # d => copy'[e] = copy[e]
                   /\ DriverGoto(d, IF calls[i].success THEN "saveRow" ELSE "saveFailed")
<1>1. "over" \in CallSteps /\ calls' = [calls EXCEPT ![i] = Detached(i, "over")]
  BY DEF CallSteps, RefundAnswered
<1>3. /\ calls' \in Seq(CallRecords) /\ DOMAIN calls' = DOMAIN calls
      /\ calls'[i].driver = NoDriver /\ calls'[i].step = "over"
      /\ calls'[i].success = calls[i].success /\ calls'[i].row = calls[i].row
      /\ \A j \in DOMAIN calls : j # i => calls'[j] = calls[j]
  BY <1>1, DetachedSet
<1>4. CASE calls[i].driver = NoDriver
  BY <1>3, <1>4 DEF RefundAnswered
<1>5. CASE calls[i].driver # NoDriver
  <2> DEFINE d == calls[i].driver
             state == IF calls[i].success THEN "payment_refunded" ELSE "failed"
  <2>1. d \in Drivers /\ state \in RefundStates
    BY <1>5, CallTyped DEF RefundStates
  <2>2. /\ SetCopy(d, copy[d].status, state, copy[d].tries)
        /\ DriverGoto(d, IF calls[i].success THEN "saveRow" ELSE "saveFailed")
    BY <1>5 DEF RefundAnswered, SetRefundState
  <2>3. copy[d].status \in {"confirmed", "refunded"} /\ copy[d].tries \in Nat
    BY <2>1, CopyTyped
  <2>4. /\ copy' \in [Drivers -> BookingRows]
        /\ copy'[d].status = copy[d].status /\ copy'[d].tries = copy[d].tries
        /\ copy'[d].refundState = state
        /\ \A e \in Drivers : e # d => copy'[e] = copy[e]
    BY <2>1, <2>2, <2>3, CopySet
  <2> QED
    BY <1>3, <2>1, <2>2, <2>4
<1> QED
  BY <1>4, <1>5

LEMMA RefundAnsweredType ==
    ASSUME TypeInv, NEW i \in DOMAIN calls, RefundAnswered(i)
    PROVE  TypeInv'
<1>1. dpc' \in [Drivers -> DriverSteps]
  BY RefundAnsweredSets, DriverMoves DEF DriverSteps, driving, TypeInv, StateOK
<1>2. calls' \in Seq(CallRecords) /\ copy' \in [Drivers -> BookingRows]
  BY RefundAnsweredSets DEF driving, TypeInv, StateOK
<1> QED
  BY <1>1, <1>2 DEF TypeInv, StateOK, TicksInv, GatesInv, RefundAnswered, ticking, gates

LEMMA RefundCallLostSets ==
    ASSUME TypeInv, NEW i \in DOMAIN calls, RefundCallLost(i)
    PROVE  /\ calls' \in Seq(CallRecords) /\ DOMAIN calls' = DOMAIN calls
           /\ calls'[i].driver = NoDriver /\ calls'[i].step = calls[i].step
           /\ calls'[i].success = calls[i].success /\ calls'[i].row = calls[i].row
           /\ \A j \in DOMAIN calls : j # i => calls'[j] = calls[j]
           /\ calls[i].driver \in Drivers
<1>1. /\ calls[i].step \in CallSteps
      /\ calls' = [calls EXCEPT ![i] = Detached(i, calls[i].step)]
  BY CallTyped DEF RefundCallLost
<1>3. calls[i].driver \in Drivers
  BY CallTyped DEF RefundCallLost
<1>4. /\ calls' \in Seq(CallRecords) /\ DOMAIN calls' = DOMAIN calls
      /\ calls'[i].driver = NoDriver /\ calls'[i].step = calls[i].step
      /\ calls'[i].success = calls[i].success /\ calls'[i].row = calls[i].row
      /\ \A j \in DOMAIN calls : j # i => calls'[j] = calls[j]
  BY <1>1, DetachedSet
<1> QED
  BY <1>3, <1>4

LEMMA RefundCallLostType ==
    ASSUME TypeInv, NEW i \in DOMAIN calls, RefundCallLost(i)
    PROVE  TypeInv'
<1>1. dpc' \in [Drivers -> DriverSteps]
  BY RefundCallLostSets, DriverMoves DEF RefundCallLost, DriverSteps
<1>2. upsets' \in 0..MaxUpsets
  BY UpsetsTyped DEF RefundCallLost
<1> QED
  BY <1>1, <1>2, RefundCallLostSets
  DEF TypeInv, StateOK, TicksInv, GatesInv, RefundCallLost, ticking, gates

LEMMA ReleaseSoldSeatsSets ==
    ASSUME TypeInv, NEW d \in Drivers, ReleaseSoldSeats(d)
    PROVE  /\ copy' \in [Drivers -> BookingRows]
           /\ \A e \in Drivers : e # d => copy'[e] = copy[e]
           /\ \/ /\ copy'[d].status = copy[d].status
                 /\ copy'[d].refundState = "seats_released"
                 /\ copy'[d].tries = copy[d].tries
                 /\ DriverGoto(d, "saveRow")
              \/ copy' = copy /\ DriverGoto(d, "catch")
           /\ seat' \in {seat, "available"}
           /\ NoFault \/ \E kind \in {"rpc", "db"} : Fault(kind)
<1>1. /\ copy[d].status \in {"confirmed", "refunded"} /\ copy[d].tries \in Nat
      /\ "seats_released" \in RefundStates
  BY CopyTyped DEF RefundStates
<1>2. CASE /\ SetRefundState(d, "seats_released") /\ DriverGoto(d, "saveRow")
           /\ seat' \in {seat, "available"} /\ (NoFault \/ Fault("db"))
  BY <1>1, <1>2, CopySet DEF SetRefundState
<1>3. CASE /\ copy' = copy /\ DriverGoto(d, "catch") /\ seat' \in {seat, "available"}
           /\ Fault("rpc")
  BY <1>3 DEF TypeInv, StateOK
<1> QED
  BY <1>2, <1>3 DEF ReleaseSoldSeats, Released, NotReleased

LEMMA ReleaseSoldSeatsType ==
    ASSUME TypeInv, NEW d \in Drivers, ReleaseSoldSeats(d)
    PROVE  TypeInv'
<1>1. dpc' \in [Drivers -> DriverSteps] /\ copy' \in [Drivers -> BookingRows]
  BY ReleaseSoldSeatsSets, DriverMoves DEF DriverSteps
<1>2. upsets' \in 0..MaxUpsets
  BY ReleaseSoldSeatsSets, UpsetsTyped
<1>3. seat' \in {"held", "sold", "available"}
  BY ReleaseSoldSeatsSets DEF TypeInv, StateOK
<1> QED
  BY <1>1, <1>2, <1>3
  DEF TypeInv, StateOK, TicksInv, GatesInv, ReleaseSoldSeats, ticking, gates, paying

LEMMA SaveRowType ==
    ASSUME TypeInv, NEW d \in Drivers, SaveRow(d)
    PROVE  TypeInv'
<1>1. dpc' \in [Drivers -> DriverSteps]
  BY DriverMoves, StepForTyped DEF SaveRow, DriverSteps
<1>2. booking' \in BookingRows
  BY DEF SaveRow, Save, SaveFails, TypeInv, StateOK
<1>3. upsets' \in 0..MaxUpsets
  BY UpsetsTyped DEF SaveRow, SaveFails
<1> QED
  BY <1>1, <1>2, <1>3 DEF TypeInv, StateOK, TicksInv, GatesInv, SaveRow, ticking, gates, paying

LEMMA SaveFailedType ==
    ASSUME TypeInv, NEW d \in Drivers, SaveFailed(d)
    PROVE  TypeInv'
<1>1. dpc' \in [Drivers -> DriverSteps]
  BY DriverMoves DEF SaveFailed, DriverSteps
<1>2. booking' \in BookingRows
  BY DEF SaveFailed, Save, SaveFails, TypeInv, StateOK
<1>3. upsets' \in 0..MaxUpsets
  BY UpsetsTyped DEF SaveFailed, SaveFails
<1> QED
  BY <1>1, <1>2, <1>3 DEF TypeInv, StateOK, TicksInv, GatesInv, SaveFailed, ticking, gates, paying

LEMMA CancelTicketsSets ==
    ASSUME TypeInv, NEW d \in Drivers, CancelTickets(d)
    PROVE  /\ tickets' \in Seq(TicketStatuses) /\ DOMAIN tickets' = DOMAIN tickets
           /\ Len(tickets') = Len(tickets)
           /\ \A i \in DOMAIN tickets : tickets[i] = "used" => tickets'[i] = "used"
           /\ copy' \in [Drivers -> BookingRows]
           /\ \A e \in Drivers : e # d => copy'[e] = copy[e]
           /\ \/ /\ copy'[d].status = "refunded" /\ copy'[d].refundState = "completed"
                 /\ copy'[d].tries = copy[d].tries
                 /\ DriverGoto(d, "finish") /\ NoFault
              \/ copy' = copy /\ DriverGoto(d, "catch") /\ Fault("db")
<1>1. tickets \in Seq(TicketStatuses)
  BY DEF TypeInv, StateOK
<1>2. CASE /\ SetCopy(d, "refunded", "completed", copy[d].tries)
           /\ DriverGoto(d, "finish") /\ NoFault
           /\ tickets' = [i \in DOMAIN tickets |->
                            IF tickets[i] = "active" THEN "cancelled" ELSE tickets[i]]
  <2>1. \A i \in DOMAIN tickets : tickets[i] \in TicketStatuses
    BY <1>1, SeqElement
  <2>2. /\ DOMAIN tickets' = DOMAIN tickets /\ tickets' = [i \in DOMAIN tickets |-> tickets'[i]]
        /\ \A i \in DOMAIN tickets : tickets'[i] \in TicketStatuses
        /\ \A i \in DOMAIN tickets : tickets[i] = "used" => tickets'[i] = "used"
    BY <1>2, <2>1 DEF TicketStatuses
  <2>3. tickets' \in Seq(TicketStatuses) /\ Len(tickets') = Len(tickets)
    BY <1>1, <2>2, SeqMap
  <2>4. copy[d].tries \in Nat /\ "completed" \in RefundStates
    BY CopyTyped DEF RefundStates
  <2>5. /\ copy' \in [Drivers -> BookingRows]
        /\ copy'[d].status = "refunded" /\ copy'[d].refundState = "completed"
        /\ copy'[d].tries = copy[d].tries
        /\ \A e \in Drivers : e # d => copy'[e] = copy[e]
    BY <1>2, <2>4, CopySet
  <2> QED
    BY <1>2, <2>2, <2>3, <2>5
<1>3. CASE DriverGoto(d, "catch") /\ Fault("db") /\ UNCHANGED <<tickets, copy>>
  BY <1>1, <1>3 DEF TypeInv, StateOK
<1> QED
  BY <1>2, <1>3 DEF CancelTickets

LEMMA CancelTicketsType ==
    ASSUME TypeInv, NEW d \in Drivers, CancelTickets(d)
    PROVE  TypeInv'
<1>1. dpc' \in [Drivers -> DriverSteps] /\ copy' \in [Drivers -> BookingRows]
  BY CancelTicketsSets, DriverMoves DEF DriverSteps
<1>2. upsets' \in 0..MaxUpsets
  BY CancelTicketsSets, UpsetsTyped
<1>3. tickets' \in Seq(TicketStatuses) /\ DOMAIN tickets' = DOMAIN tickets
  BY CancelTicketsSets
<1> QED
  BY <1>1, <1>2, <1>3
  DEF TypeInv, StateOK, TicksInv, GatesInv, CancelTickets, ticking, gates, paying

LEMMA FinishRefundType ==
    ASSUME TypeInv, NEW d \in Drivers, FinishRefund(d)
    PROVE  TypeInv'
<1>1. dpc' \in [Drivers -> DriverSteps]
  BY DriverMoves DEF FinishRefund, DriverSteps
<1>2. booking' \in BookingRows
  BY DEF FinishRefund, Save, SaveFails, TypeInv, StateOK
<1>3. upsets' \in 0..MaxUpsets
  BY UpsetsTyped DEF FinishRefund, SaveFails
<1>4. outbox' \in Seq(OutboxRows) /\ DOMAIN outbox \subseteq DOMAIN outbox'
  BY EntryAdded DEF FinishRefund, Kinds, TypeInv, StateOK
<1> QED
  BY <1>1, <1>2, <1>3, <1>4
  DEF TypeInv, StateOK, TicksInv, GatesInv, FinishRefund, ticking, gates, paying

LEMMA CatchErrorSets ==
    ASSUME TypeInv, NEW d \in Drivers, CatchError(d)
    PROVE  /\ copy' \in [Drivers -> BookingRows]
           /\ copy'[d].status = copy[d].status
           /\ copy'[d].refundState = copy[d].refundState
           /\ copy'[d].tries = copy[d].tries + 1
           /\ \A e \in Drivers : e # d => copy'[e] = copy[e]
<1>1. /\ copy[d].status \in {"confirmed", "refunded"} /\ copy[d].refundState \in RefundStates
      /\ copy[d].tries + 1 \in Nat
  BY CopyTyped
<1>2. SetCopy(d, copy[d].status, copy[d].refundState, copy[d].tries + 1)
  BY DEF CatchError
<1> QED
  BY <1>1, <1>2, CopySet

LEMMA CatchErrorType ==
    ASSUME TypeInv, NEW d \in Drivers, CatchError(d)
    PROVE  TypeInv'
<1>1. dpc' \in [Drivers -> DriverSteps] /\ copy' \in [Drivers -> BookingRows]
  BY CatchErrorSets, DriverMoves DEF CatchError, DriverSteps
<1>2. booking' \in BookingRows
  BY <1>1 DEF CatchError, Save, SaveFails, TypeInv, StateOK
<1>3. upsets' \in 0..MaxUpsets
  BY UpsetsTyped DEF CatchError, SaveFails
<1> QED
  BY <1>1, <1>2, <1>3 DEF TypeInv, StateOK, TicksInv, GatesInv, CatchError, ticking, gates, paying

LEMMA CheckInReadsType ==
    ASSUME TypeInv, NEW g \in Gates, CheckInReads(g)
    PROVE  TypeInv'
<1>1. PICK i \in DOMAIN tickets :
        /\ gpc' = [gpc EXCEPT ![g] = IF tickets[i] = "active" THEN "save" ELSE "ended"]
        /\ shown' = [shown EXCEPT ![g] = i]
  BY DEF CheckInReads
<1>2. i \in Nat
  BY LenProperties DEF TypeInv, StateOK
<1>3. upsets' \in 0..MaxUpsets
  BY UpsetsTyped DEF CheckInReads
<1> QED
  BY <1>1, <1>2, <1>3
  DEF TypeInv, StateOK, TicksInv, GatesInv, CheckInReads, ticking, driving, paying

\* What a check-in writes.
LEMMA CheckInSavesSets ==
    ASSUME TypeInv, NEW g \in Gates, CheckInSaves(g)
    PROVE  /\ tickets' \in Seq(TicketStatuses) /\ DOMAIN tickets' = DOMAIN tickets
           /\ Len(tickets') = Len(tickets)
           /\ \A i \in DOMAIN tickets : tickets'[i] \in {tickets[i], "used"}
<1>1. /\ tickets \in Seq(TicketStatuses) /\ "used" \in TicketStatuses
      /\ shown[g] \in DOMAIN tickets /\ tickets' = [tickets EXCEPT ![shown[g]] = "used"]
  BY DEF TypeInv, StateOK, TicketStatuses, GatesInv, CheckInSaves
<1> QED
  BY <1>1, SeqSet

LEMMA CheckInSavesType ==
    ASSUME TypeInv, NEW g \in Gates, CheckInSaves(g)
    PROVE  TypeInv'
BY CheckInSavesSets
DEF TypeInv, StateOK, TicksInv, GatesInv, CheckInSaves, ticking, driving, paying

LEMMA BookingServiceRestartsType ==
    ASSUME TypeInv, BookingServiceRestarts
    PROVE  TypeInv'
<1>1. calls' \in Seq(CallRecords)
  BY CallsDetached, CallTyped DEF BookingServiceRestarts
<1>2. upsets' \in 0..MaxUpsets
  BY UpsetsTyped DEF BookingServiceRestarts
<1>3. /\ DOMAIN batch' = Ticks
      /\ \A t \in Ticks : DOMAIN batch'[t] = {} /\ batch'[t] \in [DOMAIN batch'[t] -> Nat]
  BY DEF BookingServiceRestarts, NoEntries
<1>4. /\ tpc' \in [Ticks -> TickSteps] /\ cur' \in [Ticks -> Nat]
      /\ dpc' \in [Drivers -> DriverSteps] /\ gpc' \in [Gates -> {"idle", "save", "ended"}]
      /\ \A t \in Ticks : tpc'[t] \notin AtEntry
      /\ \A g \in Gates : gpc'[g] # "save"
  BY DEF BookingServiceRestarts, TickSteps, DriverSteps, AtEntry
<1> QED
  BY <1>1, <1>2, <1>3, <1>4 DEF TypeInv, StateOK, TicksInv, GatesInv, BookingServiceRestarts

LEMMA PaymentServiceRestartsType ==
    ASSUME TypeInv, PaymentServiceRestarts
    PROVE  TypeInv'
<1>1. calls' \in Seq(CallRecords)
  BY CallsDetached DEF PaymentServiceRestarts, CallSteps
<1>2. upsets' \in 0..MaxUpsets
  BY UpsetsTyped DEF PaymentServiceRestarts
<1>3. dpc' \in [Drivers -> DriverSteps]
  BY DEF PaymentServiceRestarts, DriverSteps, TypeInv, StateOK
<1> QED
  BY <1>1, <1>2, <1>3
  DEF TypeInv, StateOK, TicksInv, GatesInv, PaymentServiceRestarts, ticking, gates

-----------------------------------------------------------------------------
(* What the groups of steps leave alone. *)

LEMMA TickFrame ==
    ASSUME NEW t \in Ticks, TickReads(t) \/ TickStep(t)
    PROVE  UNCHANGED <<booking, paying, driving, gates>>
BY DEF TickReads, TickStep, TickTakes, HandleSeatsSold, HandleBookingConfirmed,
       GenerateTicket, HandleBookingRefunded, EntryCompleted, EntryFailed, TickAborts

LEMMA HandlerFrame ==
    ASSUME NEW i, HandlerStep(i)
    PROVE  UNCHANGED <<booking, outbox, tickets, seat, ticking, driving, gates>>
BY DEF HandlerStep, FindPayment, FindRefund, InsertRefund, GatewayRefund, SaveRefund,
       SavePayment, RefundError

LEMMA CallFrame ==
    ASSUME NEW i, CallStep(i) \/ RefundCallLost(i)
    PROVE  /\ UNCHANGED <<booking, outbox, tickets, seat, ticking, gates>>
           /\ HandlerStep(i) \/ RefundAnswered(i) \/ RefundCallLost(i)
<1>1. HandlerStep(i) \/ RefundAnswered(i) \/ RefundCallLost(i)
  BY DEF CallStep, HandlerStep
<1> QED
  BY <1>1, HandlerFrame DEF RefundAnswered, RefundCallLost

LEMMA DriverFrame ==
    ASSUME NEW d \in Drivers, DriverStep(d)
    PROVE  UNCHANGED <<payment, returned, ticking, gates>>
BY DEF DriverStep, CallRefundPayment, ReleaseSoldSeats, SaveRow, SaveFailed,
       CancelTickets, FinishRefund, CatchError, paying

LEMMA CallPast ==
    ASSUME NEW i, CallStep(i) \/ RefundCallLost(i)
    PROVE  UNCHANGED past
BY DEF CallStep, FindPayment, FindRefund, InsertRefund, GatewayRefund, SaveRefund,
       SavePayment, RefundError, RefundAnswered, RefundCallLost

LEMMA StartFrame ==
    ASSUME (\E c \in Cancels : CancelBooking(c) \/ InitiateRefund(c)) \/ RecoverStuckRefund
    PROVE  UNCHANGED <<outbox, tickets, seat, paying, ticking, gates>>
BY DEF CancelBooking, InitiateRefund, RecoverStuckRefund

LEMMA GateFrame ==
    ASSUME NEW g \in Gates, CheckInReads(g) \/ CheckInSaves(g)
    PROVE  UNCHANGED <<booking, outbox, seat, paying, ticking, driving>>
BY DEF CheckInReads, CheckInSaves

-----------------------------------------------------------------------------
(* Types: the theorem *)

LEMMA StepType == TypeInv /\ [Next]_vars => TypeInv'
<1> SUFFICES ASSUME TypeInv, [Next]_vars PROVE TypeInv'
  OBVIOUS
<1>1. CASE UNCHANGED vars
  BY <1>1 DEF TypeInv, StateOK, TicksInv, GatesInv, vars
<1>2. ASSUME NEW t \in Ticks, TickReads(t) \/ TickStep(t) PROVE TypeInv'
  BY <1>2, TickReadsType, TickTakesType, HandleSeatsSoldType, HandleBookingConfirmedType,
     GenerateTicketType, HandleBookingRefundedType, EntryCompletedType, EntryFailedType,
     TickAbortsType DEF TickStep
<1>3. ASSUME NEW c \in Cancels, CancelBooking(c) \/ InitiateRefund(c) PROVE TypeInv'
  BY <1>3, CancelBookingType, InitiateRefundType
<1>4. CASE RecoverStuckRefund
  BY <1>4, RecoverStuckRefundType
<1>5. ASSUME NEW d \in Drivers, DriverStep(d) PROVE TypeInv'
  BY <1>5, CallRefundPaymentType, ReleaseSoldSeatsType, SaveRowType, SaveFailedType,
     CancelTicketsType, FinishRefundType, CatchErrorType DEF DriverStep
<1>6. ASSUME NEW i \in DOMAIN calls, CallStep(i) \/ RefundCallLost(i) PROVE TypeInv'
  BY <1>6, CallFrame, HandlerStepType, RefundAnsweredType, RefundCallLostType
<1>7. ASSUME NEW g \in Gates, CheckInReads(g) \/ CheckInSaves(g) PROVE TypeInv'
  BY <1>7, CheckInReadsType, CheckInSavesType
<1>8. CASE BookingServiceRestarts \/ PaymentServiceRestarts
  BY <1>8, BookingServiceRestartsType, PaymentServiceRestartsType
<1> QED
  BY <1>1, <1>2, <1>3, <1>4, <1>5, <1>6, <1>7, <1>8 DEF Next

LEMMA AlwaysTyped == Spec => []TypeInv
BY InitType, StepType, PTL DEF Spec

-----------------------------------------------------------------------------
(* The money: every place that says refunded stands behind the gateway. *)

\* A call that says, or is about to say, that the money is back.
Claims(c) == c.success \/ c.row = "processed" \/ c.step = "savePayment"

\* A row or copy that does.
Refunded(b) == b.refundState \in PastPayment \/ b.status = "refunded"

MoneyInv ==
    /\ Refunded(booking) => returned
    /\ \A d \in Drivers : Refunded(copy[d]) => returned
    /\ \A d \in Drivers : dpc[d] \in {"releaseSold", "cancelTickets", "finish"} => returned
    /\ \A i \in DOMAIN calls : Claims(calls[i]) => returned
    /\ payment = "refunded" => returned

LEMMA InitMoney == Init => MoneyInv
BY DEF Init, MoneyInv, Refunded, NewRow, BookingRow, PastPayment

LEMMA MoneyFrame ==
    ASSUME MoneyInv, UNCHANGED <<booking, paying, driving>>
    PROVE  MoneyInv'
BY DEF MoneyInv, Refunded, Claims, paying, driving

LEMMA StepForMoney ==
    ASSUME NEW state, StepFor(state) \in {"releaseSold", "cancelTickets", "finish"}
    PROVE  state \in PastPayment
BY DEF StepFor, PastPayment

\* A handler claims a refund it has seen at the gateway or in another refund row.
LEMMA HandlerMoney ==
    ASSUME TypeInv, MoneyInv, NEW i \in DOMAIN calls, HandlerStep(i)
    PROVE  MoneyInv'
<1>1. \A j \in DOMAIN calls : Claims(calls[j]) => returned
  BY DEF MoneyInv
<1>2. calls[i].success \in BOOLEAN /\ calls[i].row \in RowStates /\ returned \in BOOLEAN
  BY CallTyped DEF TypeInv, StateOK
<1>3. /\ \E step \in CallSteps, success \in BOOLEAN, row \in RowStates :
           /\ SetCall(i, step, success, row)
           /\ success \/ row = "processed" \/ step = "savePayment" => returned'
      /\ returned => returned'
      /\ payment' = "refunded" => returned'
  <2>1. CASE FindPayment(i)
    BY <1>1, <1>2, <2>1 DEF FindPayment, CallGoto, Answer, Claims, CallSteps, MoneyInv
  <2>2. CASE FindRefund(i)
    <3>1. /\ \A j \in DOMAIN calls : calls[j].row = "processed" => returned
          /\ returned' = returned /\ payment' = payment
      BY <1>1, <2>2 DEF Claims, FindRefund
    <3>2. CASE CallGoto(i, "insertRefund")
      BY <1>1, <1>2, <3>1, <3>2 DEF CallGoto, Claims, CallSteps, MoneyInv
    <3>3. ASSUME NEW j \in DOMAIN calls, Answer(i, calls[j].row = "processed")
          PROVE  <1>3!1
      BY <1>1, <1>2, <3>1, <3>3 DEF Answer, Claims, CallSteps
    <3> QED
      BY <2>2, <3>1, <3>2, <3>3 DEF FindRefund, MoneyInv
  <2>3. CASE InsertRefund(i)
    BY <1>1, <1>2, <2>3 DEF InsertRefund, Answer, Claims, CallSteps, RowStates, MoneyInv
  <2>4. CASE GatewayRefund(i)
    BY <1>1, <1>2, <2>4 DEF GatewayRefund, Claims, CallSteps, MoneyInv
  <2>5. CASE SaveRefund(i)
    BY <1>1, <1>2, <2>5 DEF SaveRefund, CallGoto, Claims, CallSteps, RowStates, MoneyInv
  <2>6. CASE SavePayment(i)
    BY <1>1, <1>2, <2>6 DEF SavePayment, CallGoto, Answer, Claims, CallSteps, MoneyInv
  <2>7. CASE RefundError(i)
    BY <1>1, <1>2, <2>7 DEF RefundError, Answer, Claims, CallSteps, RowStates, MoneyInv
  <2> QED
    BY <2>1, <2>2, <2>3, <2>4, <2>5, <2>6, <2>7 DEF HandlerStep
<1>4. \A j \in DOMAIN calls' : Claims(calls'[j]) => returned'
  BY <1>1, <1>3, HandlerSets DEF Claims
<1> QED
  BY <1>3, <1>4, HandlerFrame DEF MoneyInv, Refunded, driving

LEMMA StartMoney ==
    ASSUME TypeInv, MoneyInv,
           (\E c \in Cancels : CancelBooking(c) \/ InitiateRefund(c)) \/ RecoverStuckRefund
    PROVE  MoneyInv'
<1>1. UNCHANGED paying
  BY StartFrame
<1>2. ASSUME NEW c \in Cancels, CancelBooking(c) PROVE MoneyInv'
  <2>1. booking' = booking
    BY <1>2 DEF CancelBooking
  <2>2. \A d \in Drivers : Refunded(copy'[d]) => Refunded(copy[d]) \/ Refunded(booking)
    BY <1>2, CancelBookingCases DEF Refunded, PastPayment, TypeInv, StateOK
  <2>3. \A d \in Drivers : dpc'[d] \in {"releaseSold", "cancelTickets", "finish"} =>
          dpc[d] \in {"releaseSold", "cancelTickets", "finish"} \/ Refunded(booking)
    BY <1>2, CancelBookingCases, DriverMoves, StepForTyped, StepForMoney
    DEF Refunded, DriverSteps
  <2> QED
    BY <1>1, <2>1, <2>2, <2>3 DEF MoneyInv, paying
<1>3. ASSUME NEW c \in Cancels, InitiateRefund(c) PROVE MoneyInv'
  <2>1. copy' = copy /\ booking' \in {booking, copy[c]} /\ c \in Drivers
    BY <1>3, CancelsDrive DEF InitiateRefund, Save, SaveFails
  <2>2. \A d \in Drivers : dpc'[d] \in {"releaseSold", "cancelTickets", "finish"} =>
          dpc[d] \in {"releaseSold", "cancelTickets", "finish"}
    BY <1>3, <2>1, DriverMoves DEF InitiateRefund, DriverSteps
  <2> QED
    BY <1>1, <2>1, <2>2 DEF MoneyInv, paying
<1>4. CASE RecoverStuckRefund
  <2>1. booking' = booking
    BY <1>4 DEF RecoverStuckRefund
  <2>2. \A d \in Drivers : Refunded(copy'[d]) => Refunded(copy[d]) \/ Refunded(booking)
    BY <1>4 DEF RecoverStuckRefund, TypeInv, StateOK
  <2>3. \A d \in Drivers : dpc'[d] \in {"releaseSold", "cancelTickets", "finish"} =>
          dpc[d] \in {"releaseSold", "cancelTickets", "finish"} \/ Refunded(booking)
    BY <1>4, CancelsDrive, DriverMoves, StepForTyped, StepForMoney
    DEF RecoverStuckRefund, Refunded
  <2> QED
    BY <1>1, <2>1, <2>2, <2>3 DEF MoneyInv, paying
<1> QED
  BY <1>2, <1>3, <1>4

LEMMA CallRefundPaymentMoney ==
    ASSUME TypeInv, MoneyInv, NEW d \in Drivers, CallRefundPayment(d)
    PROVE  MoneyInv'
<1>1. \A i \in DOMAIN calls' : Claims(calls'[i]) => i \in DOMAIN calls /\ Claims(calls[i])
  BY CallAdded DEF CallRefundPayment, Claims
<1>2. \A e \in Drivers : dpc'[e] \in {"releaseSold", "cancelTickets", "finish"} =>
        dpc[e] \in {"releaseSold", "cancelTickets", "finish"}
  BY DriverMoves DEF CallRefundPayment, DriverSteps
<1> QED
  BY <1>1, <1>2 DEF CallRefundPayment, MoneyInv

LEMMA DriverMoney ==
    ASSUME TypeInv, MoneyInv, NEW d \in Drivers, DriverStep(d)
    PROVE  MoneyInv'
<1>1. CASE CallRefundPayment(d)
  BY <1>1, CallRefundPaymentMoney
<1>2. CASE ReleaseSoldSeats(d)
  <2>1. returned /\ returned' /\ calls' = calls
    BY <1>2 DEF ReleaseSoldSeats, MoneyInv, paying
  <2> QED
    BY <2>1 DEF MoneyInv
<1>3. CASE SaveRow(d)
  <2>1. copy' = copy /\ calls' = calls /\ returned' = returned /\ payment' = payment
    BY <1>3 DEF SaveRow, paying
  <2>2. \A e \in Drivers : dpc'[e] \in {"releaseSold", "cancelTickets", "finish"} =>
          dpc[e] \in {"releaseSold", "cancelTickets", "finish"} \/ Refunded(copy[d])
    BY <1>3, DriverMoves, StepForTyped, StepForMoney DEF SaveRow, Refunded, DriverSteps
  <2>3. booking' \in {booking, copy[d]}
    BY <1>3 DEF SaveRow, Save, SaveFails
  <2> QED
    BY <2>1, <2>2, <2>3 DEF MoneyInv
<1>4. CASE SaveFailed(d)
  <2>1. copy' = copy /\ calls' = calls /\ returned' = returned /\ payment' = payment
    BY <1>4 DEF SaveFailed, paying
  <2>2. \A e \in Drivers : dpc'[e] \in {"releaseSold", "cancelTickets", "finish"} =>
          dpc[e] \in {"releaseSold", "cancelTickets", "finish"}
    BY <1>4, DriverMoves DEF SaveFailed, DriverSteps
  <2>3. booking' \in {booking, copy[d]}
    BY <1>4 DEF SaveFailed, Save, SaveFails
  <2> QED
    BY <2>1, <2>2, <2>3 DEF MoneyInv
<1>5. CASE CancelTickets(d)
  <2>1. returned /\ returned' /\ calls' = calls
    BY <1>5 DEF CancelTickets, MoneyInv, paying
  <2> QED
    BY <2>1 DEF MoneyInv
<1>6. CASE FinishRefund(d)
  <2>1. returned /\ returned' /\ calls' = calls
    BY <1>6 DEF FinishRefund, MoneyInv, paying
  <2> QED
    BY <2>1 DEF MoneyInv
<1>7. CASE CatchError(d)
  <2>1. calls' = calls /\ returned' = returned /\ payment' = payment
    BY <1>7 DEF CatchError, paying
  <2>2. \A e \in Drivers : dpc'[e] \in {"releaseSold", "cancelTickets", "finish"} =>
          dpc[e] \in {"releaseSold", "cancelTickets", "finish"}
    BY <1>7, DriverMoves DEF CatchError, DriverSteps
  <2>3. \A e \in Drivers : Refunded(copy'[e]) => Refunded(copy[e])
    BY <1>7, CatchErrorSets DEF Refunded
  <2>4. booking' \in {booking, copy'[d]}
    BY <1>7 DEF CatchError, Save, SaveFails
  <2> QED
    BY <2>1, <2>2, <2>3, <2>4 DEF MoneyInv
<1> QED
  BY <1>1, <1>2, <1>3, <1>4, <1>5, <1>6, <1>7 DEF DriverStep

LEMMA AnswerMoney ==
    ASSUME TypeInv, MoneyInv, NEW i \in DOMAIN calls, RefundAnswered(i) \/ RefundCallLost(i)
    PROVE  MoneyInv'
<1>1. CASE RefundAnswered(i)
  <2>1. booking' = booking /\ returned' = returned /\ payment' = payment
    BY <1>1 DEF RefundAnswered
  <2>2. \A j \in DOMAIN calls' : Claims(calls'[j]) => j \in DOMAIN calls /\ Claims(calls[j])
    BY <1>1, RefundAnsweredSets DEF Claims
  <2>3. \A e \in Drivers : Refunded(copy'[e]) => Refunded(copy[e]) \/ calls[i].success
    BY <1>1, RefundAnsweredSets DEF Refunded, PastPayment, driving
  <2>4. \A e \in Drivers : dpc'[e] \in {"releaseSold", "cancelTickets", "finish"} =>
          dpc[e] \in {"releaseSold", "cancelTickets", "finish"}
    BY <1>1, RefundAnsweredSets, DriverMoves DEF DriverSteps, driving
  <2> QED
    BY <2>1, <2>2, <2>3, <2>4 DEF MoneyInv, Claims
<1>2. CASE RefundCallLost(i)
  <2>1. booking' = booking /\ returned' = returned /\ payment' = payment /\ copy' = copy
    BY <1>2 DEF RefundCallLost
  <2>2. \A j \in DOMAIN calls' : Claims(calls'[j]) => j \in DOMAIN calls /\ Claims(calls[j])
    BY <1>2, RefundCallLostSets DEF Claims
  <2>3. \A e \in Drivers : dpc'[e] \in {"releaseSold", "cancelTickets", "finish"} =>
          dpc[e] \in {"releaseSold", "cancelTickets", "finish"}
    BY <1>2, RefundCallLostSets, DriverMoves DEF RefundCallLost, DriverSteps
  <2> QED
    BY <2>1, <2>2, <2>3 DEF MoneyInv
<1> QED
  BY <1>1, <1>2

\* What a restart does to the calls and the drivers.
LEMMA RestartSets ==
    ASSUME TypeInv, BookingServiceRestarts \/ PaymentServiceRestarts
    PROVE  /\ DOMAIN calls' = DOMAIN calls
           /\ \A i \in DOMAIN calls :
                /\ calls'[i].driver = NoDriver
                /\ calls'[i].success = calls[i].success /\ calls'[i].row = calls[i].row
                /\ calls'[i].step \in {calls[i].step, "over"}
           /\ UNCHANGED <<booking, outbox, tickets, seat, payment, returned, copy>>
           /\ DOMAIN dpc' = Drivers
           /\ \A d \in Drivers : /\ dpc'[d] \in {dpc[d], "ended", "catch"}
                                 /\ dpc'[d] = "catch" => dpc[d] \in {"await", "catch"}
                                 /\ dpc'[d] # "await"
<1>1. "over" \in CallSteps /\ \A i \in DOMAIN calls : calls[i].step \in CallSteps
  BY CallTyped DEF CallSteps
<1>2. CASE BookingServiceRestarts
  <2>1. calls' = [i \in DOMAIN calls |-> Detached(i, calls[i].step)]
    BY <1>2 DEF BookingServiceRestarts
  <2>2. \A i \in DOMAIN calls : calls'[i].step = calls[i].step
    BY <2>1 DEF Detached, CallAfter
  <2> QED
    BY <1>1, <1>2, <2>1, <2>2, CallsDetached DEF BookingServiceRestarts
<1>3. CASE PaymentServiceRestarts
  <2>1. calls' = [i \in DOMAIN calls |-> Detached(i, "over")]
    BY <1>3 DEF PaymentServiceRestarts
  <2>2. \A i \in DOMAIN calls : calls'[i].step = "over"
    BY <2>1 DEF Detached, CallAfter
  <2> QED
    BY <1>1, <1>3, <2>1, <2>2, CallsDetached DEF PaymentServiceRestarts
<1> QED
  BY <1>2, <1>3

LEMMA StepMoney == TypeInv /\ MoneyInv /\ [Next]_vars => MoneyInv'
<1> SUFFICES ASSUME TypeInv, MoneyInv, [Next]_vars PROVE MoneyInv'
  OBVIOUS
<1>1. CASE UNCHANGED vars
  BY <1>1, MoneyFrame DEF vars, paying, driving
<1>2. ASSUME NEW t \in Ticks, TickReads(t) \/ TickStep(t) PROVE MoneyInv'
  BY <1>2, TickFrame, MoneyFrame
<1>3. CASE (\E c \in Cancels : CancelBooking(c) \/ InitiateRefund(c)) \/ RecoverStuckRefund
  BY <1>3, StartMoney
<1>4. ASSUME NEW d \in Drivers, DriverStep(d) PROVE MoneyInv'
  BY <1>4, DriverMoney
<1>5. ASSUME NEW i \in DOMAIN calls, CallStep(i) \/ RefundCallLost(i) PROVE MoneyInv'
  BY <1>5, CallFrame, HandlerMoney, AnswerMoney
<1>6. ASSUME NEW g \in Gates, CheckInReads(g) \/ CheckInSaves(g) PROVE MoneyInv'
  BY <1>6, GateFrame, MoneyFrame
<1>7. CASE BookingServiceRestarts \/ PaymentServiceRestarts
  BY <1>7, RestartSets DEF MoneyInv, Claims
<1> QED
  BY <1>1, <1>2, <1>3, <1>4, <1>5, <1>6, <1>7 DEF Next

\* The booking never says the payment is refunded before the gateway has
\* returned the money, with any number of cancel requests, the recovery worker,
\* lost answers and restarts (booking-orchestrator.service.ts 253-295,
\* refund.service.ts 48-91).
THEOREM RefundedMeansReturnedHolds == Spec => []RefundedMeansReturned
<1>1. MoneyInv => RefundedMeansReturned
  BY DEF MoneyInv, RefundedMeansReturned, Refunded
<1> QED
  BY <1>1, InitMoney, StepMoney, AlwaysTyped, PTL DEF Spec

-----------------------------------------------------------------------------
(* Retries: no copy of an entry knows of more failures than there were. *)

RetryInv ==
    /\ \A i \in DOMAIN outbox : outbox[i].retry <= outbox[i].fails
    /\ \A t \in Ticks : \A i \in DOMAIN batch[t] : batch[t][i] <= outbox[i].fails
    /\ GivenUpAfterRetries

LEMMA InitRetry == Init => RetryInv
<1> SUFFICES ASSUME Init PROVE RetryInv
  OBVIOUS
<1>1. \A i \in DOMAIN outbox : /\ outbox[i].retry = 0 /\ outbox[i].fails = 0
                               /\ outbox[i].status = "pending"
  BY DEF Init, NewEntry
<1>2. \A t \in Ticks : DOMAIN batch[t] = {}
  BY DEF Init, NoEntries
<1> QED
  BY <1>1, <1>2 DEF RetryInv, GivenUpAfterRetries

LEMMA RetryFrame ==
    ASSUME RetryInv, UNCHANGED <<outbox, batch>>
    PROVE  RetryInv'
BY DEF RetryInv, GivenUpAfterRetries

\* Batches only shrink, except when a tick reads.
LEMMA TickBatches ==
    ASSUME TypeInv, NEW t \in Ticks, TickStep(t)
    PROVE  \A u \in Ticks : \A i \in DOMAIN batch'[u] :
             i \in DOMAIN batch[u] /\ batch'[u][i] = batch[u][i]
<1>1. DOMAIN batch = Ticks /\ DOMAIN NoEntries = {}
  BY DEF TypeInv, TicksInv, NoEntries
<1>2. CASE batch' = batch
  BY <1>2
<1>3. CASE TickEnds(t)
  BY <1>1, <1>3 DEF TickEnds
<1>4. CASE NextEntry(t)
  BY <1>1, <1>4 DEF NextEntry
<1>5. batch' = batch \/ TickEnds(t) \/ NextEntry(t)
  BY DEF TickStep, TickTakes, HandleSeatsSold, HandleBookingConfirmed, GenerateTicket,
         HandleBookingRefunded, EntryCompleted, EntryFailed, TickAborts
<1> QED
  BY <1>2, <1>3, <1>4, <1>5

\* What a step of a tick does to entry i of its batch.
Takes(t, i) ==
    /\ tpc[t] = "loop" /\ TickGoto(t, "run") /\ cur' = [cur EXCEPT ![t] = i] /\ batch' = batch
    /\ SetEntry(i, "processing", batch[t][i], outbox[i].fails)
Completes(t, i) ==
    /\ tpc[t] = "complete" /\ cur[t] = i /\ NextEntry(t)
    /\ SetEntry(i, "completed", batch[t][i], outbox[i].fails)
Retries(t, i) ==
    /\ tpc[t] = "retry" /\ cur[t] = i /\ NextEntry(t)
    /\ \E status \in OutboxStatuses :
         /\ status # "completed"
         /\ status = "failed" => batch[t][i] + 1 >= MaxRetries
         /\ SetEntry(i, status, batch[t][i] + 1, outbox[i].fails + 1)
BreaksOff(t, i) ==
    /\ tpc[t] = "retry" /\ cur[t] = i /\ TickEnds(t)
    /\ SetEntry(i, outbox[i].status, outbox[i].retry, outbox[i].fails + 1)

LEMMA TickOutbox ==
    ASSUME TypeInv, NEW t \in Ticks, TickStep(t)
    PROVE  \/ outbox' = outbox
           \/ \E i \in DOMAIN batch[t] :
                Takes(t, i) \/ Completes(t, i) \/ Retries(t, i) \/ BreaksOff(t, i)
<1>1. CASE TickTakes(t)
  BY <1>1 DEF TickTakes, SaveEntry, Takes
<1>2. CASE EntryCompleted(t)
  <2>1. cur[t] \in DOMAIN batch[t]
    BY <1>2 DEF TypeInv, TicksInv, EntryCompleted, AtEntry
  <2> QED
    BY <1>2, <2>1 DEF EntryCompleted, SaveEntry, Completes
<1>3. CASE EntryFailed(t)
  <2>1. tpc[t] = "retry"
    BY <1>3 DEF EntryFailed
  <2> QED
    BY <1>3, <2>1, EntryFailedCases DEF Retries, BreaksOff
<1>4. CASE ~ (TickTakes(t) \/ EntryCompleted(t) \/ EntryFailed(t))
  BY <1>4 DEF TickStep, HandleSeatsSold, HandleBookingConfirmed, GenerateTicket,
              HandleBookingRefunded, TickAborts
<1> QED
  BY <1>1, <1>2, <1>3, <1>4

\* An entry of a batch, and what is in it.
LEMMA BatchEntry ==
    ASSUME TypeInv, NEW t \in Ticks, NEW i \in DOMAIN batch[t]
    PROVE  /\ i \in DOMAIN outbox /\ batch[t][i] \in Nat /\ batch[t][i] + 1 \in Nat
           /\ outbox[i].fails \in Nat /\ outbox[i].fails + 1 \in Nat
           /\ outbox[i].retry \in Nat /\ outbox[i].status \in OutboxStatuses
           /\ outbox[i].kind \in Kinds
<1>1. i \in DOMAIN outbox /\ batch[t][i] \in Nat
  BY DEF TypeInv, StateOK, TicksInv
<1> QED
  BY <1>1, EntryTyped

\* However a tick rewrites entry i, the failures it counts only grow, and the
\* other entries stay.
LEMMA EntryRewritten ==
    ASSUME TypeInv, NEW t \in Ticks, NEW i \in DOMAIN batch[t],
           Takes(t, i) \/ Completes(t, i) \/ Retries(t, i) \/ BreaksOff(t, i)
    PROVE  /\ outbox' \in Seq(OutboxRows) /\ DOMAIN outbox' = DOMAIN outbox
           /\ \A j \in DOMAIN outbox : j # i => outbox'[j] = outbox[j]
           /\ \A j \in DOMAIN outbox : outbox'[j].kind = outbox[j].kind
           /\ \A j \in DOMAIN outbox : outbox[j].fails <= outbox'[j].fails
<1>1. /\ i \in DOMAIN outbox /\ batch[t][i] \in Nat /\ batch[t][i] + 1 \in Nat
      /\ outbox[i].fails \in Nat /\ outbox[i].fails + 1 \in Nat
      /\ outbox[i].retry \in Nat /\ outbox[i].status \in OutboxStatuses
  BY BatchEntry
<1>2. \E status \in OutboxStatuses, retry \in Nat, fails \in Nat :
        SetEntry(i, status, retry, fails) /\ outbox[i].fails <= fails
  BY <1>1 DEF Takes, Completes, Retries, BreaksOff, OutboxStatuses
<1>3. \A j \in DOMAIN outbox : outbox[j].fails \in Nat
  BY EntryTyped
<1> QED
  BY <1>1, <1>2, <1>3, EntrySet

LEMMA TickRetry ==
    ASSUME TypeInv, RetryInv, NEW t \in Ticks, TickStep(t)
    PROVE  RetryInv'
<1>1. CASE outbox' = outbox
  BY <1>1, TickBatches DEF RetryInv, GivenUpAfterRetries
<1>2. ASSUME NEW i \in DOMAIN batch[t],
             Takes(t, i) \/ Completes(t, i) \/ Retries(t, i) \/ BreaksOff(t, i)
      PROVE  RetryInv'
  <2>1. /\ i \in DOMAIN outbox /\ batch[t][i] \in Nat /\ batch[t][i] + 1 \in Nat
        /\ outbox[i].fails \in Nat /\ outbox[i].fails + 1 \in Nat
        /\ outbox[i].retry \in Nat /\ outbox[i].status \in OutboxStatuses
    BY BatchEntry
  <2>2. batch[t][i] <= outbox[i].fails /\ outbox[i].retry <= outbox[i].fails
    BY <2>1 DEF RetryInv
  <2>3. /\ outbox'[i].retry <= outbox'[i].fails
        /\ outbox'[i].status = "failed" => outbox'[i].fails >= MaxRetries
    <3>1. CASE Takes(t, i)
      BY <2>1, <2>2, <3>1, EntrySet DEF Takes, OutboxStatuses
    <3>2. CASE Completes(t, i)
      BY <2>1, <2>2, <3>2, EntrySet DEF Completes, OutboxStatuses
    <3>3. CASE Retries(t, i)
      <4>1. PICK status \in OutboxStatuses :
              /\ status = "failed" => batch[t][i] + 1 >= MaxRetries
              /\ SetEntry(i, status, batch[t][i] + 1, outbox[i].fails + 1)
        BY <3>3 DEF Retries
      <4>2. /\ outbox'[i].status = status /\ outbox'[i].retry = batch[t][i] + 1
            /\ outbox'[i].fails = outbox[i].fails + 1
        BY <2>1, <4>1, EntrySet
      <4> QED
        BY <2>1, <2>2, <4>1, <4>2, LimitsAssumption
    <3>4. CASE BreaksOff(t, i)
      <4>1. /\ outbox'[i].status = outbox[i].status /\ outbox'[i].retry = outbox[i].retry
            /\ outbox'[i].fails = outbox[i].fails + 1
        BY <2>1, <3>4, EntrySet DEF BreaksOff
      <4>2. outbox[i].status = "failed" => outbox[i].fails >= MaxRetries
        BY <2>1 DEF RetryInv, GivenUpAfterRetries
      <4> QED
        BY <2>1, <2>2, <4>1, <4>2, LimitsAssumption
    <3> QED
      BY <1>2, <3>1, <3>2, <3>3, <3>4
  <2>4. /\ DOMAIN outbox' = DOMAIN outbox
        /\ \A j \in DOMAIN outbox : j # i => outbox'[j] = outbox[j]
        /\ \A j \in DOMAIN outbox : outbox[j].fails <= outbox'[j].fails
    BY <1>2, EntryRewritten
  <2>5. \A u \in Ticks : \A j \in DOMAIN batch'[u] : batch'[u][j] <= outbox'[j].fails
    <3> SUFFICES ASSUME NEW u \in Ticks, NEW j \in DOMAIN batch'[u]
                 PROVE  batch'[u][j] <= outbox'[j].fails
      OBVIOUS
    <3>1. j \in DOMAIN batch[u] /\ batch'[u][j] = batch[u][j]
      BY TickBatches
    <3>2. batch[u][j] \in Nat /\ j \in DOMAIN outbox /\ outbox[j].fails \in Nat
      BY <3>1, BatchEntry
    <3>3. batch[u][j] <= outbox[j].fails /\ outbox[j].fails <= outbox'[j].fails
      BY <3>1, <3>2, <2>4 DEF RetryInv
    <3>4. outbox'[j].fails \in Nat
      <4>1. outbox' \in Seq(OutboxRows)
        BY <1>2, EntryRewritten
      <4>2. outbox'[j] \in OutboxRows
        BY <2>4, <3>2, <4>1, SeqElement
      <4> QED
        BY <4>2 DEF OutboxRows
    <3> QED
      BY <3>1, <3>2, <3>3, <3>4
  <2> QED
    BY <2>1, <2>3, <2>4, <2>5 DEF RetryInv, GivenUpAfterRetries
<1> QED
  BY <1>1, <1>2, TickOutbox

LEMMA TickReadsRetry ==
    ASSUME TypeInv, RetryInv, NEW t \in Ticks, TickReads(t)
    PROVE  RetryInv'
<1>1. /\ outbox' = outbox /\ Pending \subseteq DOMAIN outbox /\ DOMAIN batch = Ticks
      /\ batch' = [batch EXCEPT ![t] = [i \in Pending |-> outbox[i].retry]]
  BY DEF TickReads, Pending, TypeInv, TicksInv
<1> QED
  BY <1>1 DEF RetryInv, GivenUpAfterRetries

LEMMA FinishRefundRetry ==
    ASSUME TypeInv, RetryInv, NEW d \in Drivers, FinishRefund(d)
    PROVE  RetryInv'
<1>1. batch' = batch
  BY DEF FinishRefund, ticking
<1>2. CASE outbox' = outbox
  BY <1>1, <1>2, RetryFrame
<1>3. CASE outbox' = Append(outbox, NewEntry("booking.refunded"))
  <2>1. "booking.refunded" \in Kinds
    BY DEF Kinds
  <2>2. \A u \in Ticks : DOMAIN batch[u] \subseteq DOMAIN outbox
    BY DEF TypeInv, TicksInv
  <2> QED
    BY <1>1, <1>3, <2>1, <2>2, EntryAdded DEF RetryInv, GivenUpAfterRetries
<1> QED
  BY <1>2, <1>3 DEF FinishRefund

LEMMA StepRetry == TypeInv /\ RetryInv /\ [Next]_vars => RetryInv'
<1> SUFFICES ASSUME TypeInv, RetryInv, [Next]_vars PROVE RetryInv'
  OBVIOUS
<1>1. CASE UNCHANGED vars
  BY <1>1, RetryFrame DEF vars
<1>2. ASSUME NEW t \in Ticks, TickReads(t) \/ TickStep(t) PROVE RetryInv'
  BY <1>2, TickRetry, TickReadsRetry
<1>3. CASE (\E c \in Cancels : CancelBooking(c) \/ InitiateRefund(c)) \/ RecoverStuckRefund
  BY <1>3, StartFrame, RetryFrame DEF ticking
<1>4. ASSUME NEW d \in Drivers, DriverStep(d) PROVE RetryInv'
  <2>1. CASE FinishRefund(d)
    BY <2>1, FinishRefundRetry
  <2>2. CASE ~ FinishRefund(d)
    BY <1>4, <2>2, RetryFrame
    DEF DriverStep, CallRefundPayment, ReleaseSoldSeats, SaveRow, SaveFailed,
        CancelTickets, CatchError, ticking
  <2> QED
    BY <2>1, <2>2
<1>5. ASSUME NEW i \in DOMAIN calls, CallStep(i) \/ RefundCallLost(i) PROVE RetryInv'
  BY <1>5, CallFrame, RetryFrame DEF ticking
<1>6. ASSUME NEW g \in Gates, CheckInReads(g) \/ CheckInSaves(g) PROVE RetryInv'
  BY <1>6, GateFrame, RetryFrame DEF ticking
<1>7. CASE BookingServiceRestarts
  <2>1. outbox' = outbox /\ \A t \in Ticks : DOMAIN batch'[t] = {}
    BY <1>7 DEF BookingServiceRestarts, NoEntries
  <2> QED
    BY <2>1 DEF RetryInv, GivenUpAfterRetries
<1>8. CASE PaymentServiceRestarts
  BY <1>8, RetryFrame DEF PaymentServiceRestarts, ticking
<1> QED
  BY <1>1, <1>2, <1>3, <1>4, <1>5, <1>6, <1>7, <1>8 DEF Next

\* An outbox entry is given up only after MaxRetries failed attempts, with any
\* number of ticks that save stale copies of it (outbox.worker.ts 55-71).
THEOREM GivenUpAfterRetriesHolds == Spec => []GivenUpAfterRetries
<1>1. RetryInv => GivenUpAfterRetries
  BY DEF RetryInv
<1> QED
  BY <1>1, InitRetry, StepRetry, AlwaysTyped, PTL DEF Spec

-----------------------------------------------------------------------------
(* What the properties remember is well typed. *)

LEMMA RowPastTyped ==
    ASSUME PastOK, NEW d \in Drivers, NEW row, Save(d, row) \/ SaveFails \/ Fresh(d)
    PROVE  stale' \subseteq Drivers /\ lost' \in BOOLEAN
<1>1. stale \subseteq Drivers /\ lost \in BOOLEAN /\ Working \subseteq Drivers
  BY DEF PastOK, Working
<1>2. CASE Save(d, row)
  <2>1. stale' \subseteq Drivers
    BY <1>1, <1>2 DEF Save
  <2>2. lost' \in BOOLEAN
    BY <1>1, <1>2, Zenon DEF Save
  <2> QED
    BY <2>1, <2>2
<1>3. CASE SaveFails
  BY <1>1, <1>3 DEF SaveFails, rowPast
<1>4. CASE Fresh(d)
  BY <1>1, <1>4 DEF Fresh
<1> QED
  BY <1>2, <1>3, <1>4

LEMMA OutboxGrows ==
    ASSUME TypeInv, [Next]_vars
    PROVE  DOMAIN outbox \subseteq DOMAIN outbox'
<1>1. CASE outbox' = outbox
  BY <1>1
<1>2. ASSUME NEW t \in Ticks, TickReads(t) \/ TickStep(t)
      PROVE  DOMAIN outbox \subseteq DOMAIN outbox'
  BY <1>2, TickOutbox, EntryRewritten DEF TickReads
<1>3. ASSUME NEW d \in Drivers, DriverStep(d)
      PROVE  DOMAIN outbox \subseteq DOMAIN outbox'
  <2>1. CASE FinishRefund(d)
    BY <2>1, EntryAdded DEF FinishRefund, Kinds
  <2>2. CASE ~ FinishRefund(d)
    BY <1>3, <2>2
    DEF DriverStep, CallRefundPayment, ReleaseSoldSeats, SaveRow, SaveFailed,
        CancelTickets, CatchError
  <2> QED
    BY <2>1, <2>2
<1> QED
  BY <1>1, <1>2, <1>3, StartFrame, CallFrame, GateFrame, RestartSets DEF Next, vars

\* The entries remembered exist.
LEMMA StepTickPast ==
    ASSUME TypeInv, PastOK, Next
    PROVE  shared' \subseteq DOMAIN outbox' /\ died' \subseteq DOMAIN outbox'
<1>1. /\ shared \subseteq DOMAIN outbox /\ died \subseteq DOMAIN outbox
      /\ DOMAIN outbox \subseteq DOMAIN outbox'
  BY OutboxGrows DEF PastOK
<1>2. CASE UNCHANGED tickPast
  BY <1>1, <1>2 DEF tickPast
<1>3. ASSUME NEW t \in Ticks, TickReads(t)
      PROVE  shared' \subseteq DOMAIN outbox /\ died' = died
  BY <1>1, <1>3 DEF TickReads, Pending
<1>4. ASSUME NEW t \in Ticks, TickStep(t)
      PROVE  shared' = shared /\ died' \subseteq DOMAIN outbox
  <2>1. CASE EntryFailed(t)
    BY <1>1, <2>1, EntryFailedCases DEF EntryFailed
  <2>2. CASE ~ EntryFailed(t)
    BY <1>1, <1>4, <2>2
    DEF TickStep, TickTakes, HandleSeatsSold, HandleBookingConfirmed, GenerateTicket,
        HandleBookingRefunded, EntryCompleted, TickAborts, past, tickPast
  <2> QED
    BY <2>1, <2>2
<1>5. CASE BookingServiceRestarts
  <2>1. \A t \in Ticks : tpc[t] \notin {"idle", "loop"} => cur[t] \in DOMAIN outbox
    BY DEF TypeInv, StateOK, TicksInv, AtEntry, TickSteps
  <2> QED
    BY <1>1, <1>5, <2>1 DEF BookingServiceRestarts
<1>6. CASE PaymentServiceRestarts
  BY <1>1, <1>6 DEF PaymentServiceRestarts, past
<1>7. ASSUME (\E c \in Cancels : CancelBooking(c) \/ InitiateRefund(c)) \/ RecoverStuckRefund
      PROVE  UNCHANGED tickPast
  BY <1>7 DEF CancelBooking, InitiateRefund, RecoverStuckRefund, tickPast
<1>8. ASSUME NEW d \in Drivers, DriverStep(d) PROVE UNCHANGED tickPast
  BY <1>8 DEF DriverStep, CallRefundPayment, ReleaseSoldSeats, SaveRow, SaveFailed,
              CancelTickets, FinishRefund, CatchError, past, tickPast
<1>9. ASSUME NEW i \in DOMAIN calls, CallStep(i) \/ RefundCallLost(i) PROVE UNCHANGED past
  BY <1>9, CallPast
<1>10. ASSUME NEW g \in Gates, CheckInReads(g) \/ CheckInSaves(g) PROVE UNCHANGED tickPast
  BY <1>10 DEF CheckInReads, CheckInSaves, past, tickPast
<1> QED
  BY <1>1, <1>2, <1>3, <1>4, <1>5, <1>6, <1>7, <1>8, <1>9, <1>10 DEF Next, past, tickPast

LEMMA StepRefundPast ==
    ASSUME TypeInv, PastOK, Next
    PROVE  /\ stale' \subseteq Drivers /\ lost' \in BOOLEAN
           /\ seatBack' \in {"no", "given", "refused"}
           /\ cleared' \in {"no", "yes", "late"}
<1> DEFINE Typed == /\ stale' \subseteq Drivers /\ lost' \in BOOLEAN
                    /\ seatBack' \in {"no", "given", "refused"}
                    /\ cleared' \in {"no", "yes", "late"}
<1>1. /\ stale \subseteq Drivers /\ lost \in BOOLEAN
      /\ seatBack \in {"no", "given", "refused"} /\ cleared \in {"no", "yes", "late"}
  BY DEF PastOK
<1>2. ASSUME NEW t \in Ticks, TickReads(t) \/ TickStep(t) PROVE Typed
  BY <1>1, <1>2
  DEF TickReads, TickStep, TickTakes, HandleSeatsSold, HandleBookingConfirmed, GenerateTicket,
      HandleBookingRefunded, EntryCompleted, EntryFailed, TickAborts, past, rowPast
<1>3. ASSUME NEW c \in Cancels, CancelBooking(c) \/ InitiateRefund(c) PROVE Typed
  <2>1. stale' \subseteq Drivers /\ lost' \in BOOLEAN
    BY <1>3, CancelsDrive, RowPastTyped DEF CancelBooking, InitiateRefund
  <2> QED
    BY <1>1, <1>3, <2>1 DEF CancelBooking, InitiateRefund
<1>4. CASE RecoverStuckRefund
  <2>1. stale' \subseteq Drivers /\ lost' \in BOOLEAN
    BY <1>4, CancelsDrive, RowPastTyped DEF RecoverStuckRefund
  <2> QED
    BY <1>1, <1>4, <2>1 DEF RecoverStuckRefund
<1>5. ASSUME NEW d \in Drivers, DriverStep(d) PROVE Typed
  <2>1. CASE CallRefundPayment(d)
    BY <1>1, <2>1 DEF CallRefundPayment, past
  <2>2. CASE ReleaseSoldSeats(d) \/ CancelTickets(d)
    BY <1>1, <2>2 DEF ReleaseSoldSeats, CancelTickets, Released, NotReleased, rowPast
  <2>3. CASE SaveRow(d) \/ SaveFailed(d) \/ FinishRefund(d) \/ CatchError(d)
    <3>1. stale' \subseteq Drivers /\ lost' \in BOOLEAN
      BY <2>3, RowPastTyped DEF SaveRow, SaveFailed, FinishRefund, CatchError
    <3> QED
      BY <1>1, <2>3, <3>1 DEF SaveRow, SaveFailed, FinishRefund, CatchError
  <2> QED
    BY <1>5, <2>1, <2>2, <2>3 DEF DriverStep
<1>6. ASSUME NEW i \in DOMAIN calls, CallStep(i) \/ RefundCallLost(i) PROVE Typed
  BY <1>1, <1>6, CallPast DEF past
<1>7. ASSUME NEW g \in Gates, CheckInReads(g) \/ CheckInSaves(g) PROVE Typed
  BY <1>1, <1>7 DEF CheckInReads, CheckInSaves, past, rowPast
<1>8. CASE BookingServiceRestarts \/ PaymentServiceRestarts
  BY <1>1, <1>8 DEF BookingServiceRestarts, PaymentServiceRestarts, past
<1> QED
  BY <1>2, <1>3, <1>4, <1>5, <1>6, <1>7, <1>8 DEF Next

LEMMA StepPast == TypeInv /\ PastOK /\ [Next]_vars => PastOK'
<1>1. CASE UNCHANGED vars
  BY <1>1 DEF vars, PastOK
<1> QED
  BY <1>1, StepTickPast, StepRefundPast DEF PastOK

LEMMA AlwaysPast == Spec => []PastOK
<1>1. Init => PastOK
  BY DEF Init, PastOK
<1> QED
  BY <1>1, StepPast, AlwaysTyped, PTL DEF Spec

\* Every variable keeps its type: whatever the interleaving, the handlers of
\* outbox.worker.ts, booking-orchestrator.service.ts and refund.service.ts
\* read rows that exist and store states their enums know.
THEOREM TypeCorrect == Spec => []TypeOK
<1>1. TypeInv /\ PastOK => TypeOK
  BY DEF TypeInv, TypeOK
<1> QED
  BY <1>1, AlwaysTyped, AlwaysPast, PTL

-----------------------------------------------------------------------------
(* The batches of the ticks *)

\* A tick holds on to what it has read.  An entry two ticks have not shared is in
\* one batch at most, and open as long as it is; the first entry alone sells the
\* seat, the second alone issues tickets.
Apart == \A t, u \in Ticks : \A i \in DOMAIN batch[t] \cap DOMAIN batch[u] :
             t = u \/ i \in shared
BatchInv ==
    /\ Apart
    /\ \A t \in Ticks : tpc[t] = "idle" => DOMAIN batch[t] = {}
    /\ \A t \in Ticks : \A i \in DOMAIN batch[t] \ shared : outbox[i].status # "completed"
    /\ 1 \in DOMAIN outbox
    /\ \A i \in DOMAIN outbox : /\ outbox[i].kind = "seats.mark_sold" => i = 1
                                /\ outbox[i].kind = "booking.confirmed" => i = 2

LEMMA InitBatch == Init => BatchInv
<1> SUFFICES ASSUME Init PROVE BatchInv
  OBVIOUS
<1>1. \A t \in Ticks : DOMAIN batch[t] = {}
  BY DEF Init, NoEntries
<1>2. DOMAIN outbox = {1, 2} /\ outbox[1].kind = "seats.mark_sold"
      /\ outbox[2].kind = "booking.confirmed"
  BY DEF Init, NewEntry
<1> QED
  BY <1>1, <1>2 DEF BatchInv, Apart

LEMMA TickBatchInv ==
    ASSUME TypeInv, BatchInv, NEW t \in Ticks, TickStep(t)
    PROVE  BatchInv'
<1>1. shared' = shared
  BY DEF TickStep, TickTakes, HandleSeatsSold, HandleBookingConfirmed, GenerateTicket,
         HandleBookingRefunded, EntryCompleted, EntryFailed, TickAborts, past, tickPast
<1>2. \A u \in Ticks : \A i \in DOMAIN batch'[u] : i \in DOMAIN batch[u]
  BY TickBatches
<1>3. Apart'
  BY <1>1, <1>2 DEF BatchInv, Apart
<1>4. \A u \in Ticks : tpc'[u] = "idle" => DOMAIN batch'[u] = {}
  <2>1. CASE TickEnds(t)
    <3>1. DOMAIN batch'[t] = {} /\ \A u \in Ticks : u # t => tpc'[u] = tpc[u]
      BY <2>1, TickMoves DEF TickEnds, NoEntries, TypeInv, TicksInv, TickSteps
    <3> QED
      BY <1>2, <3>1 DEF BatchInv
  <2>2. CASE ~ TickEnds(t)
    <3>1. \E step \in TickSteps \ {"idle"} : TickGoto(t, step)
      BY <2>2 DEF TickStep, TickTakes, HandleSeatsSold, HandleBookingConfirmed,
         GenerateTicket, HandleBookingRefunded, EntryCompleted, EntryFailed, TickAborts,
         NextEntry, TickSteps
    <3>2. tpc'[t] # "idle" /\ \A u \in Ticks : u # t => tpc'[u] = tpc[u]
      BY <3>1, TickMoves
    <3> QED
      BY <1>2, <3>2 DEF BatchInv
  <2> QED
    BY <2>1, <2>2
<1>5. CASE outbox' = outbox
  BY <1>1, <1>2, <1>3, <1>4, <1>5 DEF BatchInv
<1>6. ASSUME NEW i \in DOMAIN batch[t],
             Takes(t, i) \/ Completes(t, i) \/ Retries(t, i) \/ BreaksOff(t, i)
      PROVE  BatchInv'
  <2>1. /\ DOMAIN outbox' = DOMAIN outbox
        /\ \A j \in DOMAIN outbox : j # i => outbox'[j] = outbox[j]
        /\ \A j \in DOMAIN outbox : outbox'[j].kind = outbox[j].kind
    BY <1>6, EntryRewritten
  <2>2. \A u \in Ticks : i \in DOMAIN batch'[u] \ shared => outbox'[i].status # "completed"
    <3>1. /\ i \in DOMAIN outbox /\ batch[t][i] \in Nat /\ outbox[i].fails \in Nat
          /\ "processing" \in OutboxStatuses
      BY BatchEntry DEF OutboxStatuses
    <3>2. CASE Takes(t, i)
      BY <3>1, <3>2, EntrySet DEF Takes
    <3>3. CASE i \notin DOMAIN batch'[t]
      BY <1>2, <3>3 DEF BatchInv, Apart
    <3>4. CASE Completes(t, i) \/ Retries(t, i)
      <4>1. NextEntry(t) /\ cur[t] = i
        BY <3>4 DEF Completes, Retries
      <4> QED
        BY <3>3, <4>1 DEF NextEntry, TypeInv, TicksInv
    <3>5. CASE BreaksOff(t, i)
      BY <3>3, <3>5 DEF BreaksOff, TickEnds, NoEntries, TypeInv, TicksInv
    <3> QED
      BY <1>6, <3>2, <3>4, <3>5
  <2>3. ASSUME NEW u \in Ticks, NEW j \in DOMAIN batch'[u] \ shared'
        PROVE  outbox'[j].status # "completed"
    <3>1. j \in DOMAIN batch[u] \ shared /\ j \in DOMAIN outbox
      BY <1>1, <1>2, BatchEntry
    <3> QED
      BY <1>1, <2>1, <2>2, <3>1 DEF BatchInv
  <2> QED
    BY <1>3, <1>4, <2>1, <2>3 DEF BatchInv
<1> QED
  BY <1>5, <1>6, TickOutbox

LEMMA BatchFrame ==
    ASSUME BatchInv, UNCHANGED <<tpc, batch, outbox, shared>>
    PROVE  BatchInv'
BY DEF BatchInv, Apart

LEMMA SharedFrame ==
    ASSUME TypeInv, Next, \A t \in Ticks : ~ TickReads(t)
    PROVE  shared' = shared
<1>1. \A t \in Ticks : TickStep(t) => shared' = shared
  BY DEF TickStep, TickTakes, HandleSeatsSold, HandleBookingConfirmed, GenerateTicket,
         HandleBookingRefunded, EntryCompleted, EntryFailed, TickAborts, past, tickPast
<1>2. (\E c \in Cancels : CancelBooking(c) \/ InitiateRefund(c)) \/ RecoverStuckRefund
        => shared' = shared
  BY DEF CancelBooking, InitiateRefund, RecoverStuckRefund, tickPast
<1>3. \A d \in Drivers : DriverStep(d) => shared' = shared
  BY DEF DriverStep, CallRefundPayment, ReleaseSoldSeats, SaveRow, SaveFailed,
         CancelTickets, FinishRefund, CatchError, past, tickPast
<1>4. \A i \in DOMAIN calls : CallStep(i) \/ RefundCallLost(i) => shared' = shared
  BY CallPast DEF past
<1>5. \A g \in Gates : CheckInReads(g) \/ CheckInSaves(g) => shared' = shared
  BY DEF CheckInReads, CheckInSaves, past
<1>6. BookingServiceRestarts \/ PaymentServiceRestarts => shared' = shared
  BY DEF BookingServiceRestarts, PaymentServiceRestarts, past
<1> QED
  BY <1>1, <1>2, <1>3, <1>4, <1>5, <1>6 DEF Next

LEMMA StepBatch == TypeInv /\ BatchInv /\ [Next]_vars => BatchInv'
<1> SUFFICES ASSUME TypeInv, BatchInv, [Next]_vars PROVE BatchInv'
  OBVIOUS
<1>1. CASE UNCHANGED vars
  BY <1>1, BatchFrame DEF vars
<1>2. ASSUME NEW t \in Ticks, TickStep(t) PROVE BatchInv'
  BY <1>2, TickBatchInv
<1>3. ASSUME NEW t \in Ticks, TickReads(t) PROVE BatchInv'
  <2>1. /\ outbox' = outbox /\ DOMAIN batch = Ticks /\ tpc'[t] = "loop"
        /\ batch' = [batch EXCEPT ![t] = [i \in Pending |-> outbox[i].retry]]
        /\ \A u \in Ticks : u # t => tpc'[u] = tpc[u]
        /\ shared' = shared \cup {i \in Pending : \E u \in Ticks : i \in DOMAIN batch[u]}
    BY <1>3, TickMoves DEF TickReads, TickSteps, TypeInv, TicksInv
  <2>2. /\ DOMAIN batch'[t] = Pending
        /\ \A u \in Ticks : u # t => batch'[u] = batch[u]
    BY <2>1
  <2>3. Apart'
    <3> SUFFICES ASSUME NEW u \in Ticks, NEW v \in Ticks,
                        NEW i \in DOMAIN batch'[u] \cap DOMAIN batch'[v], u # v
                 PROVE  i \in shared'
      BY DEF Apart
    <3>1. CASE u = t
      BY <2>1, <2>2, <3>1
    <3>2. CASE v = t
      BY <2>1, <2>2, <3>2
    <3>3. CASE u # t /\ v # t
      BY <2>1, <2>2, <3>3 DEF BatchInv, Apart
    <3> QED
      BY <3>1, <3>2, <3>3
  <2>4. \A u \in Ticks : \A i \in DOMAIN batch'[u] \ shared' : outbox'[i].status # "completed"
    BY <2>1, <2>2 DEF BatchInv, Pending
  <2>5. \A u \in Ticks : tpc'[u] = "idle" => DOMAIN batch'[u] = {}
    BY <2>1, <2>2 DEF BatchInv
  <2> QED
    BY <2>1, <2>3, <2>4, <2>5 DEF BatchInv
<1>4. CASE (\E c \in Cancels : CancelBooking(c) \/ InitiateRefund(c)) \/ RecoverStuckRefund
  <2>1. shared' = shared
    BY <1>4 DEF CancelBooking, InitiateRefund, RecoverStuckRefund, tickPast
  <2> QED
    BY <1>4, <2>1, StartFrame, BatchFrame DEF ticking
<1>5. ASSUME NEW d \in Drivers, DriverStep(d) PROVE BatchInv'
  <2>1. UNCHANGED <<tpc, batch, shared>>
    <3>1. shared' = shared
      BY <1>5 DEF DriverStep, CallRefundPayment, ReleaseSoldSeats, SaveRow, SaveFailed,
         CancelTickets, FinishRefund, CatchError, past, tickPast
    <3> QED
      BY <1>5, <3>1, DriverFrame DEF ticking
  <2>2. CASE outbox' = outbox
    BY <2>1, <2>2, BatchFrame
  <2>3. CASE outbox' = Append(outbox, NewEntry("booking.refunded"))
    <3>1. "booking.refunded" \in Kinds /\ \A t \in Ticks : DOMAIN batch[t] \subseteq DOMAIN outbox
      BY DEF Kinds, TypeInv, TicksInv
    <3> QED
      BY <2>1, <2>3, <3>1, EntryAdded DEF BatchInv, Apart
  <2> QED
    BY <1>5, <2>2, <2>3 DEF DriverStep, CallRefundPayment, ReleaseSoldSeats, SaveRow,
       SaveFailed, CancelTickets, FinishRefund, CatchError
<1>6. ASSUME NEW i \in DOMAIN calls, CallStep(i) \/ RefundCallLost(i) PROVE BatchInv'
  BY <1>6, CallFrame, CallPast, BatchFrame DEF ticking, past
<1>7. ASSUME NEW g \in Gates, CheckInReads(g) \/ CheckInSaves(g) PROVE BatchInv'
  <2>1. shared' = shared
    BY <1>7 DEF CheckInReads, CheckInSaves, past
  <2> QED
    BY <1>7, <2>1, GateFrame, BatchFrame DEF ticking
<1>8. CASE BookingServiceRestarts
  <2>1. /\ outbox' = outbox /\ shared' = shared
        /\ \A t \in Ticks : DOMAIN batch'[t] = {} /\ tpc'[t] = "idle"
    BY <1>8 DEF BookingServiceRestarts, NoEntries
  <2> QED
    BY <2>1 DEF BatchInv, Apart
<1>9. CASE PaymentServiceRestarts
  BY <1>9, BatchFrame DEF PaymentServiceRestarts, ticking, past
<1> QED
  BY <1>1, <1>2, <1>3, <1>4, <1>5, <1>6, <1>7, <1>8, <1>9 DEF Next

LEMMA AlwaysBatch == Spec => []BatchInv
BY InitBatch, StepBatch, AlwaysTyped, PTL DEF Spec

\* The entry a tick works on is one of its batch.
LEMMA CurrentEntry ==
    ASSUME TypeInv, BatchInv, NEW t \in Ticks, tpc[t] = "run"
    PROVE  /\ cur[t] \in DOMAIN batch[t]
           /\ KindOf(t) = "seats.mark_sold" => cur[t] = 1
           /\ KindOf(t) = "booking.confirmed" => cur[t] = 2
BY DEF KindOf, TypeInv, TicksInv, AtEntry, BatchInv

-----------------------------------------------------------------------------
(* The seat: once seats.mark_sold is delivered no tick sells it again. *)

\* The sale is delivered and the refund has given the seat back.
Freed == outbox[1].status = "completed" /\ seat = "available" /\ 1 \notin shared

LEMMA StepFreed ==
    TypeInv /\ BatchInv /\ Freed /\ [Next]_vars => Freed'
<1> SUFFICES ASSUME TypeInv, BatchInv, Freed, [Next]_vars PROVE Freed'
  OBVIOUS
<1>1. /\ 1 \in DOMAIN outbox /\ outbox[1].status = "completed" /\ seat = "available"
      /\ 1 \notin shared
  BY DEF Freed, BatchInv
<1>2. \A t \in Ticks : 1 \notin DOMAIN batch[t]
  BY <1>1 DEF BatchInv
<1>3. CASE UNCHANGED vars
  BY <1>3 DEF vars, Freed
<1>4. ASSUME NEW t \in Ticks, TickStep(t), shared' = shared PROVE Freed'
  <2>1. outbox'[1] = outbox[1]
    BY <1>1, <1>2, <1>4, TickOutbox, EntryRewritten
  <2>2. ~ HandleSeatsSold(t)
    BY <1>2, CurrentEntry DEF HandleSeatsSold
  <2>3. seat' = seat
    BY <1>4, <2>2 DEF TickStep, TickTakes, HandleBookingConfirmed, GenerateTicket,
       HandleBookingRefunded, EntryCompleted, EntryFailed, TickAborts
  <2> QED
    BY <1>1, <1>4, <2>1, <2>3 DEF Freed
<1>5. ASSUME NEW t \in Ticks, TickReads(t) PROVE Freed'
  BY <1>1, <1>5 DEF TickReads, Freed, Pending
<1>6. ASSUME NEW d \in Drivers, DriverStep(d), shared' = shared PROVE Freed'
  <2>1. seat' = "available"
    BY <1>1, <1>6 DEF DriverStep, CallRefundPayment, ReleaseSoldSeats, SaveRow,
       SaveFailed, CancelTickets, FinishRefund, CatchError, Released, NotReleased
  <2>2. outbox' = outbox \/ outbox' = Append(outbox, NewEntry("booking.refunded"))
    BY <1>6 DEF DriverStep, CallRefundPayment, ReleaseSoldSeats, SaveRow,
       SaveFailed, CancelTickets, FinishRefund, CatchError
  <2>3. outbox'[1] = outbox[1]
    BY <1>1, <2>2, EntryAdded DEF Kinds
  <2> QED
    BY <1>1, <1>6, <2>1, <2>3 DEF Freed
<1>7. CASE UNCHANGED <<seat, outbox, shared>>
  BY <1>7 DEF Freed
<1>8. ASSUME (\E c \in Cancels : CancelBooking(c) \/ InitiateRefund(c)) \/ RecoverStuckRefund
      PROVE  UNCHANGED <<seat, outbox>>
  BY <1>8, StartFrame
<1>9. ASSUME NEW i \in DOMAIN calls, CallStep(i) \/ RefundCallLost(i)
      PROVE  UNCHANGED <<seat, outbox>>
  BY <1>9, CallFrame
<1>10. ASSUME NEW g \in Gates, CheckInReads(g) \/ CheckInSaves(g)
       PROVE  UNCHANGED <<seat, outbox>>
  BY <1>10, GateFrame
<1>11. BookingServiceRestarts \/ PaymentServiceRestarts => UNCHANGED <<seat, outbox>>
  BY RestartSets
<1> QED
  BY <1>3, <1>4, <1>5, <1>6, <1>7, <1>8, <1>9, <1>10, <1>11, SharedFrame DEF Next

\* A seat a refund has given back after its sale was delivered is not sold to the
\* same booking again, unless two ticks had read the entry that sells it
\* (outbox.worker.ts 46-54 and 93-109, booking-orchestrator.service.ts 274-285).
THEOREM FreedSeatStaysFreeHolds == Spec => FreedSeatStaysFree
<1>1. outbox[1].status = "completed" /\ seat = "available" /\ 1 \notin shared <=> Freed
  BY DEF Freed
<1>2. Freed => seat = "available"
  BY DEF Freed
<1> QED
  BY <1>1, <1>2, StepFreed, AlwaysBatch, AlwaysTyped, PTL DEF Spec, FreedSeatStaysFree

-----------------------------------------------------------------------------
(* Tickets *)

\* A tick about to issue a ticket works on the entry of the confirmation and has
\* seen no ticket, or two ticks have shared that entry.
TicketInv ==
    \/ 2 \in shared
    \/ /\ \A t \in Ticks : tpc[t] = "generate" => cur[t] = 2 /\ Len(tickets) = 0
       /\ Len(tickets) <= 1

LEMMA TicketsCount ==
    ASSUME TypeInv
    PROVE  Len(tickets) \in Nat /\ (tickets = <<>> => Len(tickets) = 0)
BY EmptySeq, LenProperties DEF TypeInv, StateOK

LEMMA InitTicket == Init => TicketInv
<1> SUFFICES ASSUME Init PROVE TicketInv
  OBVIOUS
<1>1. Len(tickets) = 0
  BY DEF Init
<1> QED
  BY <1>1 DEF Init, TicketInv

\* Once the entry is shared it stays so.
LEMMA SharedStays ==
    ASSUME TypeInv, [Next]_vars
    PROVE  shared \subseteq shared'
BY SharedFrame DEF TickReads, vars

LEMMA TickTicket ==
    ASSUME TypeInv, BatchInv, TicketInv, NEW t \in Ticks, TickReads(t) \/ TickStep(t),
           shared \subseteq shared'
    PROVE  TicketInv'
<1>1. CASE 2 \in shared
  BY <1>1 DEF TicketInv
<1>2. CASE 2 \notin shared
  <2>1. /\ \A u \in Ticks : tpc[u] = "generate" => cur[u] = 2 /\ Len(tickets) = 0
        /\ Len(tickets) <= 1
    BY <1>2 DEF TicketInv
  <2>2. CASE GenerateTicket(t)
    <3>1. Len(tickets) = 0 /\ tpc[t] = "generate" /\ cur[t] = 2 /\ cur' = cur
      BY <2>1, <2>2 DEF GenerateTicket
    <3>2. Len(tickets') <= 1
      <4>1. CASE tickets' = Append(tickets, "active")
        BY <3>1, <4>1, TicketAdded
      <4>2. CASE tickets' = tickets
        BY <3>1, <4>2
      <4> QED
        BY <2>2, <4>1, <4>2 DEF GenerateTicket
    <3>3. \A u \in Ticks : u # t => tpc[u] # "generate"
      <4>1. \A u \in Ticks : tpc[u] = "generate" => 2 \in DOMAIN batch[u]
        BY <2>1 DEF TypeInv, TicksInv, AtEntry
      <4> QED
        BY <1>2, <3>1, <4>1 DEF BatchInv, Apart
    <3>4. tpc'[t] # "generate" /\ \A u \in Ticks : u # t => tpc'[u] = tpc[u]
      BY <2>2, TickMoves DEF GenerateTicket, TickSteps
    <3> QED
      BY <3>2, <3>3, <3>4 DEF TicketInv
  <2>3. CASE HandleBookingConfirmed(t)
    <3>1. tickets' = tickets /\ cur' = cur /\ cur[t] = 2
      BY <2>3, CurrentEntry DEF HandleBookingConfirmed
    <3>2. /\ tpc'[t] = "generate" => tickets = <<>>
          /\ \A u \in Ticks : u # t => tpc'[u] = tpc[u]
      BY <2>3, TickMoves DEF HandleBookingConfirmed, TickSteps
    <3> QED
      BY <2>1, <3>1, <3>2, TicketsCount DEF TicketInv
  <2>4. CASE ~ (GenerateTicket(t) \/ HandleBookingConfirmed(t))
    <3>1. tickets' = tickets
      BY <2>4 DEF TickReads, TickStep, TickTakes, HandleSeatsSold, HandleBookingRefunded,
                  EntryCompleted, EntryFailed, TickAborts
    <3>2. \E step \in TickSteps \ {"generate"} : TickGoto(t, step)
      BY <2>4 DEF TickReads, TickStep, TickTakes, HandleSeatsSold, HandleBookingRefunded,
                  EntryCompleted, EntryFailed, TickAborts, TickEnds, NextEntry, TickSteps
    <3>3. tpc'[t] # "generate" /\ \A u \in Ticks : u # t => tpc'[u] = tpc[u]
      BY <3>2, TickMoves
    <3>4. \A u \in Ticks : u # t => cur'[u] = cur[u]
      BY DEF TickReads, TickStep, TickTakes, HandleSeatsSold, HandleBookingConfirmed,
         GenerateTicket, HandleBookingRefunded, EntryCompleted, EntryFailed, TickAborts,
         TickEnds, NextEntry, TypeInv, StateOK
    <3> QED
      BY <2>1, <3>1, <3>3, <3>4 DEF TicketInv
  <2> QED
    BY <2>2, <2>3, <2>4
<1> QED
  BY <1>1, <1>2

LEMMA StepTicket == TypeInv /\ BatchInv /\ TicketInv /\ [Next]_vars => TicketInv'
<1> SUFFICES ASSUME TypeInv, BatchInv, TicketInv, [Next]_vars PROVE TicketInv'
  OBVIOUS
<1>0. shared \subseteq shared'
  BY SharedStays
<1>1. ASSUME NEW t \in Ticks, TickReads(t) \/ TickStep(t) PROVE TicketInv'
  BY <1>0, <1>1, TickTicket
<1>2. CASE UNCHANGED <<tpc, cur>> /\ Len(tickets') = Len(tickets)
  BY <1>0, <1>2 DEF TicketInv
<1>3. CASE UNCHANGED vars
  BY <1>2, <1>3 DEF vars
<1>4. CASE (\E c \in Cancels : CancelBooking(c) \/ InitiateRefund(c)) \/ RecoverStuckRefund
  BY <1>2, <1>4, StartFrame DEF ticking
<1>5. ASSUME NEW d \in Drivers, DriverStep(d) PROVE TicketInv'
  <2>1. UNCHANGED <<tpc, cur>>
    BY <1>5, DriverFrame DEF ticking
  <2>2. tickets' = tickets \/ CancelTickets(d)
    BY <1>5 DEF DriverStep, CallRefundPayment, ReleaseSoldSeats, SaveRow, SaveFailed,
                FinishRefund, CatchError
  <2> QED
    BY <1>2, <2>1, <2>2, CancelTicketsSets
<1>6. ASSUME NEW i \in DOMAIN calls, CallStep(i) \/ RefundCallLost(i) PROVE TicketInv'
  BY <1>2, <1>6, CallFrame DEF ticking
<1>7. ASSUME NEW g \in Gates, CheckInReads(g) \/ CheckInSaves(g) PROVE TicketInv'
  <2>1. UNCHANGED <<tpc, cur>> /\ (tickets' = tickets \/ CheckInSaves(g))
    BY <1>7, GateFrame DEF ticking, CheckInReads
  <2> QED
    BY <1>2, <2>1, CheckInSavesSets
<1>8. CASE BookingServiceRestarts
  <2>1. tickets' = tickets /\ \A t \in Ticks : tpc'[t] = "idle"
    BY <1>8 DEF BookingServiceRestarts
  <2> QED
    BY <1>0, <2>1 DEF TicketInv
<1>9. CASE PaymentServiceRestarts
  BY <1>2, <1>9 DEF PaymentServiceRestarts, ticking
<1> QED
  BY <1>1, <1>3, <1>4, <1>5, <1>6, <1>7, <1>8, <1>9 DEF Next

\* An item never gets a second ticket, whatever is retried, lost or restarted,
\* unless two ticks had read the entry of the confirmation (outbox.worker.ts
\* 32-46, ticket.service.ts 26-33).
THEOREM OneTicketPerItemHolds == Spec => []OneTicketPerItem
<1>1. TicketInv => OneTicketPerItem
  BY DEF TicketInv, OneTicketPerItem
<1> QED
  BY <1>1, InitTicket, StepTicket, AlwaysBatch, AlwaysTyped, PTL DEF Spec

-----------------------------------------------------------------------------
(* The work of the refund: no row or copy is ahead of it. *)

\* The work that a refund state stands for; the money is left to MoneyInv.
Behind(state) ==
    /\ state \in {"seats_released", "completed"} => seatBack # "no"
    /\ state = "completed" => cleared # "no"

\* No ticket is left that admits somebody.
NoneActive == \A i \in DOMAIN tickets : tickets[i] # "active"

WorkInv ==
    /\ Behind(booking.refundState)
    /\ \A d \in Drivers : Behind(copy[d].refundState)
    /\ \A d \in Drivers : dpc[d] = "cancelTickets" => seatBack # "no"
    /\ cleared = "yes" => NoneActive

LEMMA InitWork == Init => WorkInv
<1> SUFFICES ASSUME Init PROVE WorkInv
  OBVIOUS
<1>1. booking.refundState = "none" /\ \A d \in Drivers : copy[d].refundState = "none"
  BY DEF Init, NewRow, BookingRow
<1> QED
  BY <1>1 DEF Init, WorkInv, Behind

\* Steps that leave the work alone, and write states that were there before.
LEMMA WorkFrame ==
    ASSUME WorkInv, UNCHANGED <<tickets, seatBack, cleared>>,
           Behind(booking'.refundState), \A d \in Drivers : Behind(copy'[d].refundState),
           \A d \in Drivers : dpc'[d] = "cancelTickets" => seatBack # "no"
    PROVE  WorkInv'
BY DEF WorkInv, Behind, NoneActive

LEMMA TickWork ==
    ASSUME TypeInv, PastOK, WorkInv, NEW t \in Ticks, TickReads(t) \/ TickStep(t)
    PROVE  WorkInv'
<1>1. UNCHANGED <<booking, dpc, copy>>
  BY TickFrame DEF driving
<1>2. CASE GenerateTicket(t) /\ tickets' = Append(tickets, "active")
  <2>1. seatBack' = seatBack /\ cleared' = IF cleared = "no" THEN "no" ELSE "late"
    BY <1>2 DEF GenerateTicket
  <2> QED
    BY <1>1, <2>1 DEF WorkInv, Behind
<1>3. CASE ~ (GenerateTicket(t) /\ tickets' = Append(tickets, "active"))
  <2>1. UNCHANGED <<tickets, seatBack, cleared>>
    BY <1>3 DEF TickReads, TickStep, TickTakes, HandleSeatsSold, HandleBookingConfirmed,
       GenerateTicket, HandleBookingRefunded, EntryCompleted, EntryFailed, TickAborts, past
  <2> QED
    BY <1>1, <2>1, WorkFrame DEF WorkInv
<1> QED
  BY <1>2, <1>3

LEMMA StartWork ==
    ASSUME TypeInv, WorkInv,
           (\E c \in Cancels : CancelBooking(c) \/ InitiateRefund(c)) \/ RecoverStuckRefund
    PROVE  WorkInv'
<1>1. tickets' = tickets
  BY StartFrame
<1>2. UNCHANGED <<seatBack, cleared>>
  BY DEF CancelBooking, InitiateRefund, RecoverStuckRefund
<1>3. ASSUME NEW c \in Cancels, CancelBooking(c) PROVE WorkInv'
  <2>1. booking' = booking
    BY <1>3 DEF CancelBooking
  <2>2. \A d \in Drivers : copy'[d].refundState \in
          {copy[d].refundState, booking.refundState, "refund_initiated"}
    BY <1>3, CancelBookingCases DEF TypeInv, StateOK
  <2>3. \A d \in Drivers : dpc'[d] = "cancelTickets" =>
          dpc[d] = "cancelTickets" \/ booking.refundState = "seats_released"
    BY <1>3, CancelBookingCases, DriverMoves, StepForTyped DEF DriverSteps, StepFor
  <2> QED
    BY <1>1, <1>2, <2>1, <2>2, <2>3, WorkFrame DEF WorkInv, Behind
<1>4. ASSUME NEW c \in Cancels, InitiateRefund(c) PROVE WorkInv'
  <2>1. copy' = copy /\ booking' \in {booking, copy[c]} /\ c \in Drivers
    BY <1>4, CancelsDrive DEF InitiateRefund, Save, SaveFails
  <2>2. \A d \in Drivers : dpc'[d] = "cancelTickets" => dpc[d] = "cancelTickets"
    BY <1>4, <2>1, DriverMoves DEF InitiateRefund, DriverSteps
  <2> QED
    BY <1>1, <1>2, <2>1, <2>2, WorkFrame DEF WorkInv
<1>5. CASE RecoverStuckRefund
  <2>1. booking' = booking
    BY <1>5 DEF RecoverStuckRefund
  <2>2. \A d \in Drivers : copy'[d] \in {copy[d], booking}
    BY <1>5 DEF RecoverStuckRefund, TypeInv, StateOK
  <2>3. \A d \in Drivers : dpc'[d] = "cancelTickets" =>
          dpc[d] = "cancelTickets" \/ booking.refundState = "seats_released"
    BY <1>5, CancelsDrive, DriverMoves, StepForTyped DEF RecoverStuckRefund, StepFor
  <2> QED
    BY <1>1, <1>2, <2>1, <2>2, <2>3, WorkFrame DEF WorkInv, Behind
<1> QED
  BY <1>3, <1>4, <1>5

LEMMA DriverWork ==
    ASSUME TypeInv, PastOK, WorkInv, NEW d \in Drivers, DriverStep(d)
    PROVE  WorkInv'
<1>1. CASE CallRefundPayment(d)
  <2>1. UNCHANGED <<booking, copy, tickets, seatBack, cleared>>
    BY <1>1 DEF CallRefundPayment, past
  <2>2. \A e \in Drivers : dpc'[e] = "cancelTickets" => dpc[e] = "cancelTickets"
    BY <1>1, DriverMoves DEF CallRefundPayment, DriverSteps
  <2> QED
    BY <2>1, <2>2, WorkFrame DEF WorkInv
<1>2. CASE ReleaseSoldSeats(d)
  <2>1. UNCHANGED <<booking, tickets, cleared>>
    BY <1>2 DEF ReleaseSoldSeats
  <2>2. \A e \in Drivers : dpc'[e] = "cancelTickets" => dpc[e] = "cancelTickets"
    BY <1>2, ReleaseSoldSeatsSets, DriverMoves DEF DriverSteps
  <2>3. seatBack # "no" => seatBack' # "no"
    BY <1>2 DEF ReleaseSoldSeats, Released, NotReleased
  <2>4. \A e \in Drivers : copy'[e].refundState = copy[e].refundState \/
                           (copy'[e].refundState = "seats_released" /\ seatBack' # "no")
    <3>1. CASE seatBack' # "no"
      BY <1>2, <3>1, ReleaseSoldSeatsSets
    <3>2. CASE seatBack' = "no"
      BY <1>2, <3>2 DEF ReleaseSoldSeats, Released, NotReleased
    <3> QED
      BY <3>1, <3>2
  <2> QED
    BY <2>1, <2>2, <2>3, <2>4 DEF WorkInv, Behind, NoneActive
<1>3. CASE SaveRow(d)
  <2>1. copy' = copy /\ UNCHANGED <<tickets, seatBack, cleared>> /\ booking' \in {booking, copy[d]}
    BY <1>3 DEF SaveRow, Save, SaveFails
  <2>2. \A e \in Drivers : dpc'[e] = "cancelTickets" =>
          dpc[e] = "cancelTickets" \/ copy[d].refundState = "seats_released"
    BY <1>3, DriverMoves, StepForTyped DEF SaveRow, StepFor, DriverSteps
  <2> QED
    BY <2>1, <2>2, WorkFrame DEF WorkInv, Behind
<1>4. CASE SaveFailed(d)
  <2>1. copy' = copy /\ UNCHANGED <<tickets, seatBack, cleared>> /\ booking' \in {booking, copy[d]}
    BY <1>4 DEF SaveFailed, Save, SaveFails
  <2>2. \A e \in Drivers : dpc'[e] = "cancelTickets" => dpc[e] = "cancelTickets"
    BY <1>4, DriverMoves DEF SaveFailed, DriverSteps
  <2> QED
    BY <2>1, <2>2, WorkFrame DEF WorkInv
<1>5. CASE CancelTickets(d)
  <2>1. booking' = booking /\ seatBack' = seatBack /\ seatBack # "no"
    BY <1>5 DEF CancelTickets, WorkInv
  <2>2. \A e \in Drivers : dpc'[e] = "cancelTickets" => dpc[e] = "cancelTickets"
    BY <1>5, CancelTicketsSets, DriverMoves DEF DriverSteps
  <2>3. CASE UNCHANGED <<tickets, copy, cleared>>
    BY <2>1, <2>2, <2>3, WorkFrame DEF WorkInv
  <2>4. CASE /\ tickets' = [i \in DOMAIN tickets |->
                             IF tickets[i] = "active" THEN "cancelled" ELSE tickets[i]]
             /\ cleared' = IF cleared = "no" THEN "yes" ELSE cleared
    <3>1. NoneActive'
      BY <2>4 DEF NoneActive
    <3>2. cleared' # "no"
      BY <2>4
    <3> QED
      BY <2>1, <2>2, <3>1, <3>2 DEF WorkInv, Behind
  <2> QED
    BY <1>5, <2>3, <2>4 DEF CancelTickets
<1>6. CASE FinishRefund(d)
  <2>1. copy' = copy /\ UNCHANGED <<tickets, seatBack, cleared>> /\ booking' \in {booking, copy[d]}
    BY <1>6 DEF FinishRefund, Save, SaveFails
  <2>2. \A e \in Drivers : dpc'[e] = "cancelTickets" => dpc[e] = "cancelTickets"
    BY <1>6, DriverMoves DEF FinishRefund, DriverSteps
  <2> QED
    BY <2>1, <2>2, WorkFrame DEF WorkInv
<1>7. CASE CatchError(d)
  <2>1. UNCHANGED <<tickets, seatBack, cleared>> /\ booking' \in {booking, copy'[d]}
    BY <1>7 DEF CatchError, Save, SaveFails
  <2>2. \A e \in Drivers : dpc'[e] = "cancelTickets" => dpc[e] = "cancelTickets"
    BY <1>7, DriverMoves DEF CatchError, DriverSteps
  <2>3. \A e \in Drivers : copy'[e].refundState = copy[e].refundState
    BY <1>7, CatchErrorSets
  <2> QED
    BY <2>1, <2>2, <2>3, WorkFrame DEF WorkInv
<1> QED
  BY <1>1, <1>2, <1>3, <1>4, <1>5, <1>6, <1>7 DEF DriverStep

LEMMA StepWork == TypeInv /\ PastOK /\ WorkInv /\ [Next]_vars => WorkInv'
<1> SUFFICES ASSUME TypeInv, PastOK, WorkInv, [Next]_vars PROVE WorkInv'
  OBVIOUS
<1>1. CASE UNCHANGED vars
  BY <1>1, WorkFrame DEF vars, WorkInv
<1>2. ASSUME NEW t \in Ticks, TickReads(t) \/ TickStep(t) PROVE WorkInv'
  BY <1>2, TickWork
<1>3. CASE (\E c \in Cancels : CancelBooking(c) \/ InitiateRefund(c)) \/ RecoverStuckRefund
  BY <1>3, StartWork
<1>4. ASSUME NEW d \in Drivers, DriverStep(d) PROVE WorkInv'
  BY <1>4, DriverWork
<1>5. ASSUME NEW i \in DOMAIN calls, CallStep(i) \/ RefundCallLost(i) PROVE WorkInv'
  <2>1. UNCHANGED <<booking, tickets, seatBack, cleared>>
    BY <1>5, CallFrame, CallPast DEF past
  <2>2. CASE HandlerStep(i)
    BY <2>1, <2>2, HandlerFrame, WorkFrame DEF WorkInv, driving
  <2>3. CASE RefundAnswered(i)
    <3>1. \A d \in Drivers : copy'[d].refundState \in
            {copy[d].refundState, "payment_refunded", "failed"}
      BY <2>3, RefundAnsweredSets DEF driving
    <3>2. \A d \in Drivers : dpc'[d] = "cancelTickets" => dpc[d] = "cancelTickets"
      BY <2>3, RefundAnsweredSets, DriverMoves DEF DriverSteps, driving
    <3> QED
      BY <2>1, <3>1, <3>2, WorkFrame DEF WorkInv, Behind
  <2>4. CASE RefundCallLost(i)
    <3>1. copy' = copy /\ \A d \in Drivers : dpc'[d] = "cancelTickets" => dpc[d] = "cancelTickets"
      BY <2>4, RefundCallLostSets, DriverMoves DEF RefundCallLost, DriverSteps
    <3> QED
      BY <2>1, <3>1, WorkFrame DEF WorkInv
  <2> QED
    BY <1>5, <2>2, <2>3, <2>4, CallFrame
<1>6. ASSUME NEW g \in Gates, CheckInReads(g) \/ CheckInSaves(g) PROVE WorkInv'
  <2>1. UNCHANGED <<booking, dpc, copy, seatBack, cleared>>
    BY <1>6, GateFrame DEF driving, CheckInReads, CheckInSaves, past
  <2>2. NoneActive => NoneActive'
    <3>1. CASE tickets' = tickets
      BY <3>1 DEF NoneActive
    <3>2. CASE CheckInSaves(g)
      BY <3>2, CheckInSavesSets DEF NoneActive
    <3> QED
      BY <1>6, <3>1, <3>2 DEF CheckInReads
  <2> QED
    BY <2>1, <2>2 DEF WorkInv, Behind
<1>7. CASE BookingServiceRestarts \/ PaymentServiceRestarts
  <2>1. UNCHANGED <<booking, copy, tickets, seatBack, cleared>>
    BY <1>7, RestartSets DEF BookingServiceRestarts, PaymentServiceRestarts, past
  <2>2. \A d \in Drivers : dpc'[d] = "cancelTickets" => dpc[d] = "cancelTickets"
    BY <1>7, RestartSets
  <2> QED
    BY <2>1, <2>2, WorkFrame DEF WorkInv
<1> QED
  BY <1>1, <1>2, <1>3, <1>4, <1>5, <1>6, <1>7 DEF Next

LEMMA AlwaysWork == Spec => []WorkInv
BY InitWork, StepWork, AlwaysTyped, AlwaysPast, PTL DEF Spec

\* A refund that is completed leaves no ticket that admits somebody, except one
\* issued after the tickets had been cancelled, with any number of drivers, ticks
\* and check-ins at work (booking-orchestrator.service.ts 291-296,
\* ticket.service.ts 83-88).
THEOREM RefundedHoldsNoTicketHolds == Spec => []RefundedHoldsNoTicket
<1>1. PastOK /\ WorkInv => RefundedHoldsNoTicket
  BY DEF PastOK, WorkInv, Behind, NoneActive, RefundedHoldsNoTicket
<1> QED
  BY <1>1, AlwaysWork, AlwaysPast, PTL

-----------------------------------------------------------------------------
(* The refund state: a driver whose copy is up to date moves the row on. *)

\* The caller of a call waits for this call and no other.
Waiting ==
    \A i \in DOMAIN calls : calls[i].driver # NoDriver =>
        /\ dpc[calls[i].driver] = "await"
        /\ \A j \in DOMAIN calls : calls[j].driver = calls[i].driver => j = i

\* The stages in their order.
NextStage(a, b) ==
    \/ a = "none" /\ b = "refund_initiated"
    \/ a = "refund_initiated" /\ b \in {"payment_refunded", "failed"}
    \/ a = "payment_refunded" /\ b = "seats_released"
    \/ a = "seats_released" /\ b = "completed"

\* A driver at this step, whose copy has this state, with the row in that one.
Fitting(step, row, state) ==
    /\ step = "init" => row = "none" /\ state = "refund_initiated"
    /\ step \in {"refund", "await"} => row = "refund_initiated" /\ state = "refund_initiated"
    /\ step = "releaseSold" => row = "payment_refunded" /\ state = "payment_refunded"
    /\ step = "cancelTickets" => row = "seats_released" /\ state = "seats_released"
    /\ step = "saveRow" => NextStage(row, state) /\ state \in {"payment_refunded", "seats_released"}
    /\ step = "saveFailed" => row = "refund_initiated" /\ state = "failed"
    /\ step = "finish" => row = "seats_released" /\ state = "completed"
    /\ step = "catch" => row = state \/ (row # "none" /\ NextStage(row, state))

\* Only a driver over whose copy another one has written is out of step.
Fits(d) == Fitting(dpc[d], booking.refundState, copy[d].refundState)
FitsInv == \A d \in Drivers \ stale : Fits(d)

\* A refund that is worked on has begun, or is about to.
Begun(d) ==
    /\ d \in Working => copy[d].refundState # "none"
    /\ dpc[d] = "init" => copy[d].refundState = "refund_initiated"
    /\ dpc[d] = "finish" => copy[d].refundState = "completed"
Asked ==
    /\ \A d \in Drivers : Begun(d)
    /\ \A d \in Working : dpc[d] # "init" => booking.refundState # "none"
    /\ calls # <<>> => booking.refundState # "none"

DriveInv == Waiting /\ FitsInv /\ Asked

LEMMA InitDrive == Init => DriveInv
<1> SUFFICES ASSUME Init PROVE DriveInv
  OBVIOUS
<1>1. calls = <<>> /\ \A d \in Drivers : dpc[d] = "idle"
  BY DEF Init
<1> QED
  BY <1>1 DEF DriveInv, Waiting, FitsInv, Fits, Fitting, Asked, Begun, Working

\* Fits only looks at states and steps.
LEMMA FitsFrame ==
    ASSUME DriveInv, NEW d \in Drivers \ stale, dpc'[d] = dpc[d],
           copy'[d].refundState = copy[d].refundState,
           booking'.refundState = booking.refundState
    PROVE  Fits(d)'
BY DEF DriveInv, FitsInv, Fits

\* The row is where it was, and driver d alone has moved.
Alone(d) ==
    /\ booking' = booking
    /\ \A e \in Drivers : e # d => dpc'[e] = dpc[e] /\ copy'[e] = copy[e]

LEMMA OneMoves ==
    ASSUME TypeInv, DriveInv, NEW d \in Drivers, Alone(d),
           stale' = stale \/ stale' = stale \ {d},
           d \notin stale' => Fits(d)',
           Begun(d)', d \in Working' /\ dpc'[d] # "init" => booking.refundState # "none"
    PROVE  /\ FitsInv'
           /\ calls' = calls => Asked'
<1>1. \A e \in Drivers \ stale' : Fits(e)'
  BY FitsFrame DEF Alone
<1>2. \A e \in Drivers : Begun(e)'
  BY DEF Alone, DriveInv, Asked, Begun, Working
<1>3. \A e \in Working' : dpc'[e] # "init" => booking.refundState # "none"
  BY DEF Alone, DriveInv, Asked, Working
<1> QED
  BY <1>1, <1>2, <1>3 DEF FitsInv, DriveInv, Asked, Alone

\* Driver d has saved its copy: the others' are stale, if they work at all.
LEMMA OneSaves ==
    ASSUME TypeInv, DriveInv, NEW d \in Drivers, Save(d, booking'),
           \A e \in Drivers : e # d => dpc'[e] = dpc[e] /\ copy'[e] = copy[e],
           Fits(d)', booking'.refundState # "none", Begun(d)'
    PROVE  FitsInv' /\ Asked'
<1>1. stale' = (stale \cup Working) \ {d}
  BY DEF Save
<1>2. ASSUME NEW e \in Drivers \ stale' PROVE Fits(e)'
  <2>1. CASE e = d
    BY <2>1
  <2>2. CASE e # d
    <3>1. dpc'[e] \in {"idle", "ended"}
      BY <1>1, <2>2 DEF Working
    <3> QED
      BY <3>1 DEF Fits, Fitting
  <2> QED
    BY <2>1, <2>2
<1>3. \A e \in Drivers : Begun(e)'
  BY DEF DriveInv, Asked, Begun, Working
<1> QED
  BY <1>2, <1>3 DEF FitsInv, Asked

LEMMA StepForFits ==
    ASSUME NEW state, state # "none"
    PROVE  /\ Fitting(StepFor(state), state, state)
           /\ StepFor(state) \in DriverSteps \ {"await", "init", "idle"}
BY DEF StepFor, Fitting, DriverSteps

\* Calls wait as before when nobody who waits moves.
LEMMA WaitingStays ==
    ASSUME TypeInv, Waiting, calls' = calls,
           \A e \in Drivers : dpc[e] = "await" => dpc'[e] = "await"
    PROVE  Waiting'
BY CallTyped DEF Waiting

LEMMA CancelBookingDrive ==
    ASSUME TypeInv, DriveInv, NEW c \in Cancels, CancelBooking(c)
    PROVE  DriveInv'
<1>1. /\ booking' = booking /\ calls' = calls /\ stale' = stale \ {c}
      /\ c \in Drivers /\ dpc[c] = "idle"
  BY CancelBookingCases DEF CancelBooking, Fresh, paying
<1>2. \E step \in DriverSteps \ {"await"} :
        /\ DriverGoto(c, step)
        /\ \A e \in Drivers : e # c => copy'[e] = copy[e]
        /\ Fitting(step, booking.refundState, copy'[c].refundState)
        /\ step # "ended" => copy'[c].refundState # "none"
        /\ step \notin {"ended", "init"} => booking.refundState # "none"
  <2>1. CASE DriverGoto(c, "ended") /\ copy' = copy
    BY <2>1 DEF Fitting, DriverSteps
  <2>2. ASSUME NEW row \in BookingRows, copy' = [copy EXCEPT ![c] = row],
               row.refundState = "refund_initiated", booking.refundState = "none",
               DriverGoto(c, "init")
        PROVE  <1>2
    <3>1. copy'[c] = row /\ \A e \in Drivers : e # c => copy'[e] = copy[e]
      BY <1>1, <2>2 DEF TypeInv, StateOK
    <3> QED
      BY <2>2, <3>1 DEF Fitting, DriverSteps
  <2>3. CASE /\ copy' = [copy EXCEPT ![c] = booking] /\ booking.refundState # "none"
             /\ DriverGoto(c, StepFor(booking.refundState))
    <3>1. copy'[c] = booking /\ \A e \in Drivers : e # c => copy'[e] = copy[e]
      BY <1>1, <2>3 DEF TypeInv, StateOK
    <3> QED
      BY <2>3, <3>1, StepForFits
  <2> QED
    BY <2>1, <2>2, <2>3, CancelBookingCases
<1>3. PICK step \in DriverSteps \ {"await"} :
        /\ DriverGoto(c, step)
        /\ \A e \in Drivers : e # c => copy'[e] = copy[e]
        /\ Fitting(step, booking.refundState, copy'[c].refundState)
        /\ step # "ended" => copy'[c].refundState # "none"
        /\ step \notin {"ended", "init"} => booking.refundState # "none"
  BY <1>2
<1>4. dpc'[c] = step /\ \A e \in Drivers : e # c => dpc'[e] = dpc[e]
  BY <1>1, <1>3, DriverMoves
<1>5. Alone(c) /\ Fits(c)'
  BY <1>1, <1>3, <1>4 DEF Alone, Fits
<1>6. Waiting'
  BY <1>1, <1>4, WaitingStays DEF DriveInv
<1>7. Begun(c)'
  BY <1>3, <1>4 DEF Begun, Fitting, Working
<1>8. FitsInv' /\ Asked'
  BY <1>1, <1>3, <1>4, <1>5, <1>7, OneMoves DEF Working
<1> QED
  BY <1>6, <1>8 DEF DriveInv

LEMMA RecoverDrive ==
    ASSUME TypeInv, DriveInv, RecoverStuckRefund
    PROVE  DriveInv'
<1>1. /\ booking' = booking /\ calls' = calls /\ stale' = stale \ {Recovery}
      /\ Recovery \in Drivers /\ dpc[Recovery] \in {"idle", "ended"}
      /\ booking.refundState # "none"
  BY CancelsDrive DEF RecoverStuckRefund, Fresh, paying, Stuck
<1>2. /\ copy'[Recovery] = booking
      /\ \A e \in Drivers : e # Recovery => copy'[e] = copy[e]
  BY <1>1 DEF RecoverStuckRefund, TypeInv, StateOK
<1>3. /\ dpc'[Recovery] = StepFor(booking.refundState)
      /\ \A e \in Drivers : e # Recovery => dpc'[e] = dpc[e]
  BY <1>1, DriverMoves, StepForTyped DEF RecoverStuckRefund
<1>4. Alone(Recovery) /\ Fits(Recovery)'
  BY <1>1, <1>2, <1>3, StepForFits DEF Alone, Fits
<1>5. Waiting'
  BY <1>1, <1>3, WaitingStays DEF DriveInv
<1>6. Begun(Recovery)'
  BY <1>1, <1>2, <1>3, StepForFits DEF Begun, Fitting
<1>7. FitsInv' /\ Asked'
  BY <1>1, <1>4, <1>6, OneMoves
<1> QED
  BY <1>5, <1>7 DEF DriveInv

LEMMA InitiateRefundDrive ==
    ASSUME TypeInv, DriveInv, NEW c \in Cancels, InitiateRefund(c)
    PROVE  DriveInv'
<1>1. /\ c \in Drivers /\ dpc[c] = "init" /\ calls' = calls /\ copy' = copy
      /\ copy[c].refundState = "refund_initiated"
  BY CancelsDrive DEF InitiateRefund, paying, DriveInv, Asked, Begun
<1>2. CASE Save(c, copy[c]) /\ DriverGoto(c, "refund")
  <2>1. booking' = copy[c] /\ Save(c, booking')
    BY <1>2 DEF Save
  <2>2. dpc'[c] = "refund" /\ \A e \in Drivers : e # c => dpc'[e] = dpc[e]
    BY <1>1, <1>2, DriverMoves DEF DriverSteps
  <2>3. Fits(c)' /\ Begun(c)'
    BY <1>1, <2>1, <2>2 DEF Fits, Fitting, Begun
  <2>4. FitsInv' /\ Asked'
    BY <1>1, <2>1, <2>2, <2>3, OneSaves
  <2>5. Waiting'
    BY <1>1, <2>2, WaitingStays DEF DriveInv
  <2> QED
    BY <2>4, <2>5 DEF DriveInv
<1>3. CASE SaveFails /\ DriverGoto(c, "ended")
  <2>1. booking' = booking /\ stale' = stale
    BY <1>3 DEF SaveFails, rowPast
  <2>2. dpc'[c] = "ended" /\ \A e \in Drivers : e # c => dpc'[e] = dpc[e]
    BY <1>1, <1>3, DriverMoves DEF DriverSteps
  <2>3. Alone(c) /\ Fits(c)' /\ Begun(c)' /\ c \notin Working'
    BY <1>1, <2>1, <2>2 DEF Alone, Fits, Fitting, Begun, Working
  <2>4. FitsInv' /\ Asked'
    BY <1>1, <2>1, <2>3, OneMoves
  <2>5. Waiting'
    BY <1>1, <2>2, WaitingStays DEF DriveInv
  <2> QED
    BY <2>4, <2>5 DEF DriveInv
<1> QED
  BY <1>2, <1>3 DEF InitiateRefund

LEMMA CallRefundPaymentDrive ==
    ASSUME TypeInv, DriveInv, NEW d \in Drivers, CallRefundPayment(d)
    PROVE  DriveInv'
<1>1. /\ dpc[d] = "refund" /\ copy' = copy /\ booking' = booking /\ stale' = stale
      /\ copy[d].refundState # "none" /\ booking.refundState # "none"
      /\ d \notin stale => Fits(d)
  BY DEF CallRefundPayment, past, DriveInv, FitsInv, Asked, Begun, Working
<1>2. PICK step \in {"await", "catch"} : DriverGoto(d, step) /\ (step = "catch" => calls' = calls)
  BY DEF CallRefundPayment
<1>3. dpc'[d] = step /\ \A e \in Drivers : e # d => dpc'[e] = dpc[e]
  BY <1>2, DriverMoves DEF DriverSteps
<1>4. Alone(d) /\ (d \notin stale => Fits(d)') /\ Begun(d)'
  BY <1>1, <1>2, <1>3 DEF Alone, Fits, Fitting, Begun
<1>5. FitsInv' /\ Asked'
  <2>1. FitsInv'
    BY <1>1, <1>4, OneMoves
  <2>2. \A e \in Drivers : Begun(e)'
    BY <1>3, <1>4 DEF Alone, DriveInv, Asked, Begun, Working
  <2> QED
    BY <1>1, <2>1, <2>2 DEF Asked
<1>6. CASE calls' = calls
  BY <1>1, <1>3, <1>5, <1>6, WaitingStays DEF DriveInv
<1>7. CASE calls' # calls
  <2>1. dpc'[d] = "await"
    BY <1>2, <1>3, <1>7
  <2>2. \A i \in DOMAIN calls : calls[i].driver # d
    BY <1>1, ProcessesAssumption DEF DriveInv, Waiting
  <2>3. Waiting'
    <3>1. /\ DOMAIN calls' = DOMAIN calls \cup {Len(calls) + 1}
          /\ Len(calls) + 1 \notin DOMAIN calls
          /\ calls'[Len(calls) + 1].driver = d
          /\ \A j \in DOMAIN calls : calls'[j] = calls[j]
      BY <1>7, CallAdded DEF CallRefundPayment
    <3>2. \A i \in DOMAIN calls : calls[i].driver # NoDriver => calls[i].driver \in Drivers
      BY CallTyped
    <3> QED
      BY <1>3, <2>1, <2>2, <3>1, <3>2 DEF DriveInv, Waiting
  <2> QED
    BY <1>5, <2>3 DEF DriveInv
<1> QED
  BY <1>6, <1>7

\* Driver d goes on with the row as it is.
LEMMA GoesOn ==
    ASSUME TypeInv, DriveInv, NEW d \in Drivers, NEW step \in DriverSteps,
           DriverGoto(d, step), booking' = booking, calls' = calls, stale' = stale,
           dpc[d] \notin {"idle", "ended", "init", "await"}, step # "init",
           \A e \in Drivers : e # d => copy'[e] = copy[e], copy'[d].refundState # "none",
           Fits(d) => Fitting(step, booking.refundState, copy'[d].refundState),
           step = "finish" => copy'[d].refundState = "completed"
    PROVE  DriveInv'
<1>1. dpc'[d] = step /\ \A e \in Drivers : e # d => dpc'[e] = dpc[e]
  BY DriverMoves
<1>2. Alone(d) /\ (d \notin stale => Fits(d)') /\ Begun(d)'
  BY <1>1 DEF Alone, Fits, Begun, DriveInv, FitsInv
<1>3. booking.refundState # "none"
  BY DEF DriveInv, Asked, Working
<1>4. FitsInv' /\ Asked'
  BY <1>2, <1>3, OneMoves
<1>5. Waiting'
  BY <1>1, WaitingStays DEF DriveInv
<1> QED
  BY <1>4, <1>5 DEF DriveInv

\* Driver d saves its copy and goes on.
LEMMA SavesOn ==
    ASSUME TypeInv, DriveInv, NEW d \in Drivers, NEW step \in DriverSteps,
           DriverGoto(d, step), Save(d, copy'[d]), calls' = calls,
           dpc[d] \notin {"idle", "ended", "await"}, step # "init",
           \A e \in Drivers : e # d => copy'[e] = copy[e], copy'[d].refundState # "none",
           Fitting(step, copy'[d].refundState, copy'[d].refundState)
    PROVE  DriveInv'
<1>1. dpc'[d] = step /\ \A e \in Drivers : e # d => dpc'[e] = dpc[e]
  BY DriverMoves
<1>2. booking' = copy'[d] /\ Save(d, booking')
  BY DEF Save
<1>3. Fits(d)' /\ Begun(d)'
  BY <1>1, <1>2 DEF Fits, Fitting, Begun
<1>4. FitsInv' /\ Asked'
  BY <1>1, <1>2, <1>3, OneSaves
<1>5. Waiting'
  BY <1>1, WaitingStays DEF DriveInv
<1> QED
  BY <1>4, <1>5 DEF DriveInv

LEMMA DriverDrive ==
    ASSUME TypeInv, DriveInv, NEW d \in Drivers, DriverStep(d)
    PROVE  DriveInv'
<1>1. CASE CallRefundPayment(d)
  BY <1>1, CallRefundPaymentDrive
<1>2. CASE ~ CallRefundPayment(d)
  <2>1. /\ calls' = calls /\ copy[d].refundState # "none"
        /\ dpc[d] \notin {"idle", "ended", "init", "await"}
    BY <1>2 DEF DriverStep, ReleaseSoldSeats, SaveRow, SaveFailed, CancelTickets,
       FinishRefund, CatchError, paying, DriveInv, Asked, Begun, Working
  <2>2. CASE ReleaseSoldSeats(d)
    <3>1. booking' = booking /\ stale' = stale /\ dpc[d] = "releaseSold"
      BY <2>2 DEF ReleaseSoldSeats, rowPast
    <3>2. CASE copy'[d].refundState = "seats_released" /\ DriverGoto(d, "saveRow")
      <4>1. /\ Fits(d) => Fitting("saveRow", booking.refundState, copy'[d].refundState)
            /\ "saveRow" \in DriverSteps
        BY <3>1, <3>2 DEF Fits, Fitting, NextStage, DriverSteps
      <4> QED
        BY <2>1, <2>2, <3>1, <3>2, <4>1, ReleaseSoldSeatsSets, GoesOn
    <3>3. CASE copy' = copy /\ DriverGoto(d, "catch")
      <4>1. /\ Fits(d) => Fitting("catch", booking.refundState, copy'[d].refundState)
            /\ "catch" \in DriverSteps
        BY <3>1, <3>3 DEF Fits, Fitting, DriverSteps
      <4> QED
        BY <2>1, <3>1, <3>3, <4>1, GoesOn
    <3> QED
      BY <2>2, <3>2, <3>3, ReleaseSoldSeatsSets
  <2>3. CASE SaveRow(d)
    <3>1. copy' = copy /\ dpc[d] = "saveRow"
      BY <2>3 DEF SaveRow
    <3>2. CASE Save(d, copy[d]) /\ DriverGoto(d, StepFor(copy[d].refundState))
      BY <2>1, <3>1, <3>2, StepForFits, SavesOn
    <3>3. CASE SaveFails /\ DriverGoto(d, "catch")
      <4>1. /\ Fits(d) => Fitting("catch", booking.refundState, copy'[d].refundState)
            /\ "catch" \in DriverSteps
        BY <3>1 DEF Fits, Fitting, NextStage, DriverSteps
      <4>2. booking' = booking /\ stale' = stale
        BY <3>3 DEF SaveFails, rowPast
      <4> QED
        BY <2>1, <3>1, <3>3, <4>1, <4>2, GoesOn
    <3> QED
      BY <2>3, <3>2, <3>3 DEF SaveRow
  <2>4. CASE SaveFailed(d)
    <3>1. copy' = copy /\ dpc[d] = "saveFailed" /\ DriverGoto(d, "catch")
      BY <2>4 DEF SaveFailed
    <3>2. /\ Fits(d) => Fitting("catch", booking.refundState, copy'[d].refundState)
          /\ Fitting("catch", copy'[d].refundState, copy'[d].refundState)
          /\ "catch" \in DriverSteps
      BY <3>1 DEF Fits, Fitting, NextStage, DriverSteps
    <3>3. CASE Save(d, copy[d])
      BY <2>1, <3>1, <3>2, <3>3, SavesOn
    <3>4. CASE SaveFails
      <4>1. booking' = booking /\ stale' = stale
        BY <3>4 DEF SaveFails, rowPast
      <4> QED
        BY <2>1, <3>1, <3>2, <4>1, GoesOn
    <3> QED
      BY <2>4, <3>3, <3>4 DEF SaveFailed
  <2>5. CASE CancelTickets(d)
    <3>1. booking' = booking /\ stale' = stale /\ dpc[d] = "cancelTickets"
      BY <2>5 DEF CancelTickets, rowPast
    <3>2. CASE copy'[d].refundState = "completed" /\ DriverGoto(d, "finish")
      <4>1. /\ Fits(d) => Fitting("finish", booking.refundState, copy'[d].refundState)
            /\ "finish" \in DriverSteps
        BY <3>1, <3>2 DEF Fits, Fitting, DriverSteps
      <4> QED
        BY <2>1, <2>5, <3>1, <3>2, <4>1, CancelTicketsSets, GoesOn
    <3>3. CASE copy' = copy /\ DriverGoto(d, "catch")
      <4>1. /\ Fits(d) => Fitting("catch", booking.refundState, copy'[d].refundState)
            /\ "catch" \in DriverSteps
        BY <3>1, <3>3 DEF Fits, Fitting, DriverSteps
      <4> QED
        BY <2>1, <3>1, <3>3, <4>1, GoesOn
    <3> QED
      BY <2>5, <3>2, <3>3, CancelTicketsSets
  <2>6. CASE FinishRefund(d)
    <3>1. copy' = copy /\ dpc[d] = "finish"
      BY <2>6 DEF FinishRefund
    <3>2. CASE Save(d, copy[d]) /\ DriverGoto(d, "ended")
      <4>1. /\ Fitting("ended", copy'[d].refundState, copy'[d].refundState)
            /\ "ended" \in DriverSteps
        BY DEF Fitting, DriverSteps
      <4> QED
        BY <2>1, <3>1, <3>2, <4>1, SavesOn
    <3>3. CASE SaveFails /\ DriverGoto(d, "catch")
      <4>1. /\ Fits(d) => Fitting("catch", booking.refundState, copy'[d].refundState)
            /\ "catch" \in DriverSteps
        BY <3>1 DEF Fits, Fitting, NextStage, DriverSteps
      <4>2. booking' = booking /\ stale' = stale
        BY <3>3 DEF SaveFails, rowPast
      <4> QED
        BY <2>1, <3>1, <3>3, <4>1, <4>2, GoesOn
    <3> QED
      BY <2>6, <3>2, <3>3 DEF FinishRefund
  <2>7. CASE CatchError(d)
    <3>1. /\ \A e \in Drivers : e # d => copy'[e] = copy[e]
          /\ copy'[d].refundState # "none" /\ DriverGoto(d, "ended")
      BY <2>1, <2>7, CatchErrorSets DEF CatchError
    <3>2. "ended" \in DriverSteps /\ \A row, state : Fitting("ended", row, state)
      BY DEF Fitting, DriverSteps
    <3>3. CASE Save(d, copy'[d])
      BY <2>1, <3>1, <3>2, <3>3, SavesOn
    <3>4. CASE SaveFails
      <4>1. booking' = booking /\ stale' = stale
        BY <3>4 DEF SaveFails, rowPast
      <4> QED
        BY <2>1, <3>1, <3>2, <4>1, GoesOn
    <3> QED
      BY <2>7, <3>3, <3>4 DEF CatchError
  <2> QED
    BY <1>2, <2>2, <2>3, <2>4, <2>5, <2>6, <2>7 DEF DriverStep
<1> QED
  BY <1>1, <1>2

LEMMA HandlerDrive ==
    ASSUME TypeInv, DriveInv, NEW i \in DOMAIN calls, HandlerStep(i)
    PROVE  DriveInv'
<1>1. DOMAIN calls' = DOMAIN calls /\ \A j \in DOMAIN calls : calls'[j].driver = calls[j].driver
  BY FindPaymentSets, FindRefundSets, InsertRefundSets, GatewayRefundSets, SaveRefundSets,
     SavePaymentSets, RefundErrorSets, HandlerSets DEF HandlerStep
<1>2. /\ booking' = booking /\ dpc' = dpc /\ copy' = copy /\ stale' = stale
      /\ Working' = Working
  BY HandlerFrame, CallPast DEF driving, CallStep, HandlerStep, past, Working
<1>3. Waiting'
  BY <1>1, <1>2 DEF DriveInv, Waiting
<1>4. FitsInv'
  BY <1>2 DEF DriveInv, FitsInv, Fits
<1>5. calls # <<>>
  BY EmptySeq
<1> QED
  BY <1>2, <1>3, <1>4, <1>5 DEF DriveInv, Asked, Begun

\* The answer, or its loss, reaches the driver that waits for it.
LEMMA AnswerDrive ==
    ASSUME TypeInv, DriveInv, NEW i \in DOMAIN calls, RefundAnswered(i) \/ RefundCallLost(i)
    PROVE  DriveInv'
<1>1. /\ DOMAIN calls' = DOMAIN calls /\ calls'[i].driver = NoDriver
      /\ \A j \in DOMAIN calls : j # i => calls'[j] = calls[j]
      /\ booking' = booking /\ stale' = stale
  BY RefundAnsweredSets, RefundCallLostSets DEF RefundAnswered, RefundCallLost, past
<1>2. calls # <<>> /\ booking.refundState # "none"
  <2>1. calls # <<>>
    BY EmptySeq
  <2> QED
    BY <2>1 DEF DriveInv, Asked
<1>3. CASE calls[i].driver = NoDriver
  <2>1. UNCHANGED driving
    BY <1>3, RefundAnsweredSets, ProcessesAssumption DEF RefundCallLost
  <2>2. \A j \in DOMAIN calls : calls'[j].driver = calls[j].driver
    BY <1>1, <1>3
  <2>3. Waiting'
    BY <1>1, <2>1, <2>2 DEF DriveInv, Waiting, driving
  <2>4. Working' = Working
    BY <2>1 DEF Working, driving
  <2> QED
    BY <1>1, <1>2, <2>1, <2>3, <2>4 DEF DriveInv, FitsInv, Fits, Asked, Begun, driving
<1>4. ASSUME NEW d \in Drivers, calls[i].driver = d PROVE DriveInv'
  <2>1. /\ dpc[d] = "await" /\ d # NoDriver /\ copy[d].refundState # "none"
        /\ \A j \in DOMAIN calls : j # i => calls[j].driver # d
    BY <1>4, ProcessesAssumption DEF DriveInv, Waiting, Asked, Begun, Working
  <2>2. \E step \in {"saveRow", "saveFailed", "catch"} :
          /\ DriverGoto(d, step)
          /\ step = "saveRow" => copy'[d].refundState = "payment_refunded"
          /\ step = "saveFailed" => copy'[d].refundState = "failed"
          /\ step = "catch" => copy'[d] = copy[d]
          /\ \A e \in Drivers : e # d => copy'[e] = copy[e]
    <3>1. CASE RefundAnswered(i)
      <4>1. /\ copy'[d].refundState = IF calls[i].success THEN "payment_refunded" ELSE "failed"
            /\ \A e \in Drivers : e # d => copy'[e] = copy[e]
            /\ DriverGoto(d, IF calls[i].success THEN "saveRow" ELSE "saveFailed")
        BY <1>4, <2>1, <3>1, RefundAnsweredSets
      <4> QED
        BY <4>1
    <3>2. CASE RefundCallLost(i)
      BY <1>4, <3>2 DEF RefundCallLost
    <3> QED
      BY <3>1, <3>2
  <2>3. PICK step \in {"saveRow", "saveFailed", "catch"} :
          /\ DriverGoto(d, step)
          /\ step = "saveRow" => copy'[d].refundState = "payment_refunded"
          /\ step = "saveFailed" => copy'[d].refundState = "failed"
          /\ step = "catch" => copy'[d] = copy[d]
          /\ \A e \in Drivers : e # d => copy'[e] = copy[e]
    BY <2>2
  <2>4. dpc'[d] = step /\ \A e \in Drivers : e # d => dpc'[e] = dpc[e]
    BY <2>3, DriverMoves DEF DriverSteps
  <2>5. Waiting'
    <3>1. \A j \in DOMAIN calls : calls[j].driver # NoDriver => calls[j].driver \in Drivers
      BY CallTyped
    <3> QED
      BY <1>1, <2>1, <2>4, <3>1 DEF DriveInv, Waiting
  <2>6. d \notin stale => Fits(d)'
    <3>1. d \notin stale => Fits(d)
      BY DEF DriveInv, FitsInv
    <3> QED
      BY <1>1, <2>1, <2>3, <2>4, <3>1 DEF Fits, Fitting, NextStage
  <2>7. Alone(d) /\ Begun(d)'
    BY <1>1, <2>1, <2>3, <2>4 DEF Alone, Begun
  <2>8. FitsInv'
    BY <1>1, <1>2, <2>6, <2>7, OneMoves
  <2>9. \A e \in Drivers : Begun(e)'
    BY <2>7 DEF Alone, DriveInv, Asked, Begun, Working
  <2> QED
    BY <1>1, <1>2, <2>5, <2>8, <2>9 DEF DriveInv, Asked
<1> QED
  BY <1>3, <1>4, CallTyped

LEMMA RestartDrive ==
    ASSUME TypeInv, DriveInv, BookingServiceRestarts \/ PaymentServiceRestarts
    PROVE  DriveInv'
<1>1. Waiting' /\ booking' = booking /\ copy' = copy /\ DOMAIN calls' = DOMAIN calls
  BY RestartSets DEF Waiting
<1>2. CASE BookingServiceRestarts
  <2>1. \A d \in Drivers : dpc'[d] \in {"idle", "ended"}
    BY <1>2 DEF BookingServiceRestarts
  <2>2. FitsInv' /\ Working' = {} /\ \A d \in Drivers : Begun(d)'
    BY <2>1 DEF FitsInv, Fits, Fitting, Working, Begun
  <2>3. calls' # <<>> => calls # <<>>
    <3>1. calls = <<>> => calls' = <<>>
      BY <1>2 DEF BookingServiceRestarts
    <3> QED
      BY <3>1
  <2> QED
    BY <1>1, <2>2, <2>3 DEF DriveInv, Asked
<1>3. CASE PaymentServiceRestarts
  <2>1. stale' = stale /\ \A d \in Drivers : dpc'[d] = IF dpc[d] = "await" THEN "catch" ELSE dpc[d]
    BY <1>3 DEF PaymentServiceRestarts, past
  <2>2. FitsInv'
    BY <1>1, <2>1 DEF DriveInv, FitsInv, Fits, Fitting
  <2>3. Working' = Working /\ \A d \in Drivers : Begun(d)'
    BY <1>1, <2>1 DEF DriveInv, Asked, Begun, Working
  <2>4. calls # <<>>
    BY <1>3 DEF PaymentServiceRestarts
  <2> QED
    BY <1>1, <2>1, <2>2, <2>3, <2>4 DEF DriveInv, Asked
<1> QED
  BY <1>2, <1>3

LEMMA DriveFrame ==
    ASSUME DriveInv, UNCHANGED <<booking, calls, dpc, copy, stale>>
    PROVE  DriveInv'
<1>1. Working' = Working
  BY DEF Working
<1> QED
  BY <1>1 DEF DriveInv, Waiting, FitsInv, Fits, Asked, Begun

LEMMA StepDrive == TypeInv /\ DriveInv /\ [Next]_vars => DriveInv'
<1> SUFFICES ASSUME TypeInv, DriveInv, [Next]_vars PROVE DriveInv'
  OBVIOUS
<1>1. CASE UNCHANGED vars
  BY <1>1, DriveFrame DEF vars
<1>2. ASSUME NEW t \in Ticks, TickReads(t) \/ TickStep(t) PROVE DriveInv'
  <2>1. stale' = stale
    BY <1>2 DEF TickReads, TickStep, TickTakes, HandleSeatsSold, HandleBookingConfirmed,
       GenerateTicket, HandleBookingRefunded, EntryCompleted, EntryFailed, TickAborts,
       past, rowPast
  <2> QED
    BY <1>2, <2>1, TickFrame, DriveFrame DEF paying, driving
<1>3. ASSUME NEW c \in Cancels, CancelBooking(c) \/ InitiateRefund(c) PROVE DriveInv'
  BY <1>3, CancelBookingDrive, InitiateRefundDrive
<1>4. CASE RecoverStuckRefund
  BY <1>4, RecoverDrive
<1>5. ASSUME NEW d \in Drivers, DriverStep(d) PROVE DriveInv'
  BY <1>5, DriverDrive
<1>6. ASSUME NEW i \in DOMAIN calls, CallStep(i) \/ RefundCallLost(i) PROVE DriveInv'
  BY <1>6, CallFrame, HandlerDrive, AnswerDrive
<1>7. ASSUME NEW g \in Gates, CheckInReads(g) \/ CheckInSaves(g) PROVE DriveInv'
  <2>1. stale' = stale
    BY <1>7 DEF CheckInReads, CheckInSaves, past, rowPast
  <2> QED
    BY <1>7, <2>1, GateFrame, DriveFrame DEF paying, driving
<1>8. CASE BookingServiceRestarts \/ PaymentServiceRestarts
  BY <1>8, RestartDrive
<1> QED
  BY <1>1, <1>2, <1>3, <1>4, <1>5, <1>6, <1>7, <1>8 DEF Next

LEMMA AlwaysDrive == Spec => []DriveInv
BY InitDrive, StepDrive, AlwaysTyped, PTL DEF Spec

\* The booking is written by a driver at work, from its copy.
Writes(d) ==
    /\ d \in Working
    /\ Save(d, copy'[d])
    /\ copy'[d].refundState = copy[d].refundState
    /\ UNCHANGED <<tickets, returned, seatBack, cleared>>
    /\ \/ FinishRefund(d) /\ outbox' = Append(outbox, NewEntry("booking.refunded"))
       \/ CatchError(d) /\ copy'[d].tries = copy[d].tries + 1 /\ outbox' = outbox
       \/ dpc[d] \in {"init", "saveRow", "saveFailed"} /\ outbox' = outbox

LEMMA RowWritten ==
    ASSUME TypeInv, [Next]_vars, booking' # booking
    PROVE  \E d \in Drivers : Writes(d)
<1>1. CASE UNCHANGED vars
  BY <1>1 DEF vars
<1>2. \A t \in Ticks : ~ (TickReads(t) \/ TickStep(t))
  BY TickFrame
<1>3. ASSUME NEW c \in Cancels, CancelBooking(c) \/ InitiateRefund(c)
      PROVE  c \in Drivers /\ Writes(c)
  BY <1>3, CancelsDrive DEF CancelBooking, InitiateRefund, SaveFails, Writes, Working, paying
<1>4. ~ RecoverStuckRefund
  BY DEF RecoverStuckRefund
<1>5. ASSUME NEW d \in Drivers, DriverStep(d) PROVE Writes(d)
  <2>1. SaveRow(d) \/ SaveFailed(d) \/ FinishRefund(d) \/ CatchError(d)
    BY <1>5 DEF DriverStep, CallRefundPayment, ReleaseSoldSeats, CancelTickets
  <2> QED
    BY <2>1, CatchErrorSets DEF SaveRow, SaveFailed, FinishRefund, CatchError, SaveFails,
       Writes, Working, paying
<1>6. \A i \in DOMAIN calls : ~ (CallStep(i) \/ RefundCallLost(i))
  BY CallFrame
<1>7. \A g \in Gates : ~ (CheckInReads(g) \/ CheckInSaves(g))
  BY GateFrame
<1>8. ~ (BookingServiceRestarts \/ PaymentServiceRestarts)
  BY RestartSets
<1> QED
  BY <1>1, <1>2, <1>3, <1>4, <1>5, <1>6, <1>7, <1>8 DEF Next

\* Where an up-to-date driver takes the row.
LEMMA FreshWrites ==
    ASSUME DriveInv, NEW d \in Drivers, Writes(d), d \notin stale
    PROVE  /\ \/ copy[d].refundState = booking.refundState
              \/ NextStage(booking.refundState, copy[d].refundState)
           /\ booking.refundState = "completed" =>
                dpc[d] = "catch" /\ copy[d].refundState = "completed"
           /\ dpc[d] \in {"init", "saveRow", "saveFailed"} => copy[d].refundState # "completed"
           /\ dpc[d] = "finish" => /\ booking.refundState = "seats_released"
                                   /\ copy[d].refundState = "completed"
<1>1. Fits(d) /\ dpc[d] \in {"init", "saveRow", "saveFailed", "finish", "catch"}
  BY DEF DriveInv, FitsInv, Writes, FinishRefund, CatchError
<1> QED
  BY <1>1 DEF Fits, Fitting, NextStage

LEMMA Ranks ==
    /\ Rank["none"] = 0 /\ Rank["refund_initiated"] = 1 /\ Rank["payment_refunded"] = 2
    /\ Rank["seats_released"] = 3 /\ Rank["completed"] = 4 /\ Rank["failed"] = 5
BY DEF Rank

LEMMA StepRank ==
    ASSUME TypeInv, DriveInv, [Next]_vars
    PROVE  \/ Rank[booking.refundState] <= Rank[booking'.refundState]
           \/ \E d \in stale \cap Working : booking' = copy'[d]
<1>1. CASE booking' = booking
  BY <1>1, BookingTyped, Ranks DEF RefundStates
<1>2. CASE booking' # booking
  <2>1. PICK d \in Drivers : Writes(d)
    BY <1>2, RowWritten
  <2>2. booking' = copy'[d] /\ booking'.refundState = copy[d].refundState /\ d \in Working
    BY <2>1 DEF Writes, Save
  <2>3. CASE d \in stale
    BY <2>2, <2>3
  <2>4. CASE d \notin stale
    BY <2>1, <2>2, <2>4, FreshWrites, BookingTyped, Ranks DEF NextStage, RefundStates
  <2> QED
    BY <2>3, <2>4
<1> QED
  BY <1>1, <1>2

\* A refund falls back, or a failed one comes back, only when a stale copy is
\* saved: with any number of cancel requests beside the recovery worker, lost
\* answers, failed saves and restarts, whoever is up to date moves it on
\* (booking-orchestrator.service.ts 233-356).
THEOREM RefundNeverRegressesHolds == Spec => RefundNeverRegresses
<1>1. TypeInv /\ DriveInv /\ [Next]_vars =>
        [\/ Rank[booking.refundState] <= Rank[booking'.refundState]
         \/ \E d \in stale \cap Working : booking' = copy'[d]]_vars
  BY StepRank
<1> QED
  BY <1>1, AlwaysDrive, AlwaysTyped, PTL DEF Spec, RefundNeverRegresses

-----------------------------------------------------------------------------
(* The announcement *)

\* Once the refund is announced the booking is closed for good, as long as no
\* update of it is lost.
AnnouncedInv ==
    /\ AnnouncedOnce
    /\ lost \/ (Announcements # {} => booking.refundState = "completed")

LEMMA InitAnnounced == Init => AnnouncedInv
<1> SUFFICES ASSUME Init PROVE AnnouncedInv
  OBVIOUS
<1>1. Announcements = {}
  BY DEF Init, NewEntry, Announcements
<1>2. Cardinality({}) = 0
  BY FS_EmptySet
<1>3. booking.refundState = "none"
  BY DEF Init, NewRow, BookingRow
<1> QED
  BY <1>1, <1>2, <1>3 DEF AnnouncedInv, AnnouncedOnce

\* Only the last transaction of a refund adds an announcement.
LEMMA AnnouncementsGrow ==
    ASSUME TypeInv, [Next]_vars
    PROVE  \/ Announcements' = Announcements
           \/ \E d \in Drivers :
                /\ FinishRefund(d) /\ Save(d, copy[d]) /\ copy' = copy
                /\ outbox' = Append(outbox, NewEntry("booking.refunded"))
                /\ Announcements' = Announcements \cup {Len(outbox) + 1}
<1>1. CASE outbox' = outbox
  BY <1>1 DEF Announcements
<1>2. ASSUME NEW t \in Ticks, TickStep(t) PROVE Announcements' = Announcements
  BY <1>1, <1>2, TickOutbox, EntryRewritten DEF Announcements
<1>3. ASSUME NEW t \in Ticks, TickReads(t) PROVE outbox' = outbox
  BY <1>3 DEF TickReads
<1>4. ASSUME NEW d \in Drivers, DriverStep(d), outbox' # outbox
      PROVE  /\ FinishRefund(d) /\ Save(d, copy[d]) /\ copy' = copy
             /\ outbox' = Append(outbox, NewEntry("booking.refunded"))
             /\ Announcements' = Announcements \cup {Len(outbox) + 1}
  <2>1. FinishRefund(d)
    BY <1>4 DEF DriverStep, CallRefundPayment, ReleaseSoldSeats, SaveRow, SaveFailed,
       CancelTickets, CatchError
  <2>2. /\ Save(d, copy[d]) /\ copy' = copy
        /\ outbox' = Append(outbox, NewEntry("booking.refunded"))
    BY <1>4, <2>1 DEF FinishRefund
  <2>3. Announcements' = Announcements \cup {Len(outbox) + 1}
    BY <2>2, EntryAdded DEF Announcements, Kinds
  <2> QED
    BY <2>1, <2>2, <2>3
<1>5. CASE (\E c \in Cancels : CancelBooking(c) \/ InitiateRefund(c)) \/ RecoverStuckRefund
  BY <1>1, <1>5, StartFrame
<1>6. ASSUME NEW i \in DOMAIN calls, CallStep(i) \/ RefundCallLost(i) PROVE outbox' = outbox
  BY <1>6, CallFrame
<1>7. ASSUME NEW g \in Gates, CheckInReads(g) \/ CheckInSaves(g) PROVE outbox' = outbox
  BY <1>7, GateFrame
<1>8. CASE BookingServiceRestarts \/ PaymentServiceRestarts
  BY <1>1, <1>8, RestartSets
<1>9. CASE UNCHANGED vars
  BY <1>1, <1>9 DEF vars
<1> QED
  BY <1>1, <1>2, <1>3, <1>4, <1>5, <1>6, <1>7, <1>8, <1>9 DEF Next

\* A lost update stays lost.
LEMMA LostStays ==
    ASSUME TypeInv, [Next]_vars, lost
    PROVE  lost'
<1>1. \A d : Fresh(d) \/ SaveFails \/ UNCHANGED rowPast \/ UNCHANGED past \/ lost' = lost => lost'
  BY DEF Fresh, SaveFails, rowPast, past
<1>2. \A d, row : Save(d, row) => lost'
  BY DEF Save
<1>3. \A t \in Ticks : TickReads(t) \/ TickStep(t) => lost'
  BY <1>1 DEF TickReads, TickStep, TickTakes, HandleSeatsSold, HandleBookingConfirmed,
     GenerateTicket, HandleBookingRefunded, EntryCompleted, EntryFailed, TickAborts
<1>4. (\E c \in Cancels : CancelBooking(c) \/ InitiateRefund(c)) \/ RecoverStuckRefund => lost'
  BY <1>1, <1>2 DEF CancelBooking, InitiateRefund, RecoverStuckRefund
<1>5. \A d \in Drivers : DriverStep(d) => lost'
  BY <1>1, <1>2 DEF DriverStep, CallRefundPayment, ReleaseSoldSeats, SaveRow, SaveFailed,
     CancelTickets, FinishRefund, CatchError
<1>6. \A i \in DOMAIN calls : CallStep(i) \/ RefundCallLost(i) => lost'
  BY <1>1, CallPast
<1>7. \A g \in Gates : CheckInReads(g) \/ CheckInSaves(g) => lost'
  BY <1>1 DEF CheckInReads, CheckInSaves
<1>8. BookingServiceRestarts \/ PaymentServiceRestarts => lost'
  BY <1>1 DEF BookingServiceRestarts, PaymentServiceRestarts
<1>9. UNCHANGED vars => lost'
  BY DEF vars
<1> QED
  BY <1>3, <1>4, <1>5, <1>6, <1>7, <1>8, <1>9 DEF Next

LEMMA StepAnnounced ==
    ASSUME TypeInv, DriveInv, AnnouncedInv, [Next]_vars
    PROVE  AnnouncedInv'
<1>1. CASE lost'
  BY <1>1 DEF AnnouncedInv, AnnouncedOnce
<1>2. CASE ~ lost'
  <2>1. ~ lost
    BY <1>2, LostStays
  <2>2. /\ Cardinality(Announcements) <= 1
        /\ booking.refundState = "completed" /\ booking.tries = 0 => Announcements # {}
        /\ Announcements # {} => booking.refundState = "completed"
    BY <2>1 DEF AnnouncedInv, AnnouncedOnce
  <2>3. ASSUME NEW d \in Drivers, Save(d, booking') PROVE d \notin stale
    BY <1>2, <2>3 DEF Save
  <2>4. CASE Announcements' = Announcements
    <3>1. CASE booking' = booking
      BY <2>2, <2>4, <3>1 DEF AnnouncedInv, AnnouncedOnce
    <3>2. CASE booking' # booking
      <4>1. PICK d \in Drivers : Writes(d)
        BY <3>2, RowWritten
      <4>2. /\ booking' = copy'[d] /\ booking'.refundState = copy[d].refundState
            /\ d \notin stale
        <5>1. booking' = copy'[d]
          BY <4>1 DEF Writes, Save
        <5>2. Save(d, booking')
          BY <4>1, <5>1 DEF Writes
        <5> QED
          BY <2>3, <4>1, <5>1, <5>2 DEF Writes
      <4>3. Announcements # {} => booking'.refundState = "completed"
        BY <2>2, <4>1, <4>2, FreshWrites
      <4>4. Announcements = {} => ~ (booking'.refundState = "completed" /\ booking'.tries = 0)
        <5> SUFFICES ASSUME Announcements = {}
                     PROVE  ~ (booking'.refundState = "completed" /\ booking'.tries = 0)
          OBVIOUS
        <5>1. CASE dpc[d] \in {"init", "saveRow", "saveFailed"}
          BY <4>1, <4>2, <5>1, FreshWrites
        <5>2. CASE copy'[d].tries = copy[d].tries + 1
          BY <4>2, <5>2, CopyTyped
        <5>3. CASE outbox' = Append(outbox, NewEntry("booking.refunded"))
          <6>1. Len(outbox) + 1 \in Announcements'
            BY <5>3, EntryAdded DEF Announcements, Kinds
          <6> QED
            BY <2>4, <6>1
        <5> QED
          BY <4>1, <5>1, <5>2, <5>3 DEF Writes
      <4> QED
        BY <2>2, <2>4, <4>3, <4>4 DEF AnnouncedInv, AnnouncedOnce
    <3> QED
      BY <3>1, <3>2
  <2>5. ASSUME NEW d \in Drivers, FinishRefund(d), Save(d, copy[d]), copy' = copy,
               outbox' = Append(outbox, NewEntry("booking.refunded")),
               Announcements' = Announcements \cup {Len(outbox) + 1}
        PROVE  AnnouncedInv'
    <3>1. booking' = copy[d] /\ d \notin stale /\ dpc[d] = "finish"
      BY <2>3, <2>5 DEF Save, FinishRefund
    <3>2. booking.refundState = "seats_released" /\ copy[d].refundState = "completed"
      BY <3>1 DEF DriveInv, FitsInv, Fits, Fitting
    <3>3. Announcements' = {Len(outbox) + 1}
      BY <2>2, <2>5, <3>2
    <3>4. Cardinality(Announcements') = 1
      BY <3>3, FS_Singleton
    <3> QED
      BY <3>1, <3>2, <3>3, <3>4 DEF AnnouncedInv, AnnouncedOnce
  <2> QED
    BY <2>4, <2>5, AnnouncementsGrow
<1> QED
  BY <1>1, <1>2

\* As long as no stale copy has been saved nobody is told of a refund twice, and
\* one completed at the first try is announced, with any number of drivers, failed
\* saves and restarts (booking-orchestrator.service.ts 286-353).
THEOREM AnnouncedOnceHolds == Spec => []AnnouncedOnce
<1>1. AnnouncedInv => AnnouncedOnce
  BY DEF AnnouncedInv
<1>2. TypeInv /\ DriveInv /\ AnnouncedInv /\ [Next]_vars => AnnouncedInv'
  BY StepAnnounced
<1> QED
  BY <1>1, <1>2, InitAnnounced, AlwaysDrive, AlwaysTyped, PTL DEF Spec

-----------------------------------------------------------------------------
(* The refinement: every step is one of Refund or a stutter. *)

LEMMA InitRefund == Init => Abstract!Init
<1> SUFFICES ASSUME Init PROVE Abstract!Init
  OBVIOUS
<1>1. booking.refundState = "none" /\ (stale \cap Working # {}) = FALSE
  BY DEF Init, NewRow, BookingRow
<1>2. (Announcements # {}) = FALSE /\ (cleared # "no") = FALSE
  BY DEF Init, NewEntry, Announcements
<1> QED
  BY <1>1, <1>2 DEF Init, Abstract!Init

\* What Refund sees of a step that leaves the row and the work alone.
LEMMA RefundStutters ==
    ASSUME booking'.refundState = booking.refundState, UNCHANGED <<returned, seatBack>>,
           cleared' # "no" <=> cleared # "no", Announcements' = Announcements
    PROVE  Abstract!Next
<1>1. (cleared # "no")' = (cleared # "no") /\ (Announcements # {})' = (Announcements # {})
  OBVIOUS
<1> QED
  BY <1>1 DEF Abstract!Next, Abstract!Move, Abstract!work

\* The work of what a driver is about to save is done.
LEMMA CopyDone ==
    ASSUME MoneyInv, WorkInv, NEW d \in Drivers
    PROVE  Abstract!Done(copy[d].refundState)
BY DEF Abstract!Done, MoneyInv, Refunded, PastPayment, WorkInv, Behind

\* A driver saves its copy.
LEMMA WriteRefines ==
    ASSUME TypeInv, MoneyInv, WorkInv, DriveInv, [Next]_vars, NEW d \in Drivers, Writes(d)
    PROVE  Abstract!Next
<1>1. /\ booking'.refundState = copy[d].refundState /\ d \in Working
      /\ UNCHANGED <<returned, seatBack, cleared>>
  BY DEF Writes, Save
<1>2. (Announcements # {})' # (Announcements # {}) =>
        /\ (Announcements # {})' = TRUE /\ (cleared # "no") /\ booking'.refundState = "completed"
  <2>1. CASE Announcements' = Announcements
    BY <2>1
  <2>2. ASSUME NEW e \in Drivers, FinishRefund(e), Save(e, copy[e]),
               Announcements' = Announcements \cup {Len(outbox) + 1}
        PROVE  <1>2
    <3>1. booking' = copy[e] /\ dpc[e] = "finish" /\ e \in Working
      BY <2>2 DEF Save, FinishRefund, Working
    <3>2. copy[e].refundState = "completed"
      BY <3>1 DEF DriveInv, Asked, Begun
    <3>3. cleared # "no"
      BY <3>2 DEF WorkInv, Behind
    <3>4. (Announcements # {})' = TRUE
      BY <2>2
    <3> QED
      BY <3>1, <3>2, <3>3, <3>4
  <2> QED
    BY <2>1, <2>2, AnnouncementsGrow
<1>3. (cleared # "no")' = (cleared # "no")
  BY <1>1
<1>4. \/ booking'.refundState = booking.refundState
      \/ Abstract!Ask \/ Abstract!GiveUp \/ Abstract!MoneyIsBack
      \/ Abstract!SeatIsBack \/ Abstract!Close \/ Abstract!Overwrite
  <2>1. Abstract!Done(copy[d].refundState) /\ copy[d].refundState # "none"
    BY <1>1, CopyDone DEF DriveInv, Asked, Begun
  <2>2. CASE d \in stale
    <3>1. stale \cap Working # {}
      BY <1>1, <2>2
    <3> QED
      BY <1>1, <2>1, <3>1 DEF Abstract!Overwrite, Abstract!Done
  <2>3. CASE d \notin stale
    <3>1. \/ copy[d].refundState = booking.refundState
          \/ NextStage(booking.refundState, copy[d].refundState)
      BY <2>3, FreshWrites
    <3> QED
      BY <1>1, <2>1, <3>1
      DEF NextStage, Abstract!Done, Abstract!Ask, Abstract!GiveUp, Abstract!MoneyIsBack,
          Abstract!SeatIsBack, Abstract!Close
  <2> QED
    BY <2>2, <2>3
<1> QED
  BY <1>1, <1>2, <1>3, <1>4 DEF Abstract!Next, Abstract!Move, Abstract!work

\* The seat and the tickets: each step of the work has the one before it behind it.
LEMMA DriverRefines ==
    ASSUME TypeInv, MoneyInv, WorkInv, DriveInv, NEW d \in Drivers, DriverStep(d),
           [Next]_vars, booking' = booking
    PROVE  Abstract!Next
<1>1. CASE ReleaseSoldSeats(d)
  <2>1. UNCHANGED <<returned, cleared, Announcements, stale>> /\ returned
    BY <1>1 DEF ReleaseSoldSeats, Announcements, MoneyInv, paying, rowPast
  <2>2. Working' = Working
    BY <1>1, ReleaseSoldSeatsSets, DriverMoves DEF ReleaseSoldSeats, Working, DriverSteps
  <2>3. /\ (cleared # "no")' = (cleared # "no") /\ (Announcements # {})' = (Announcements # {})
        /\ (stale \cap Working # {})' = (stale \cap Working # {})
    BY <2>1, <2>2
  <2>4. CASE seatBack' = seatBack
    BY <2>1, <2>4, RefundStutters
  <2>5. CASE seatBack' = "given"
    BY <2>1, <2>3, <2>5 DEF Abstract!Next, Abstract!GiveSeatBack
  <2>6. CASE seatBack = "no" /\ seatBack' = "refused"
    BY <2>1, <2>3, <2>6 DEF Abstract!Next, Abstract!RefuseSeat
  <2> QED
    BY <1>1, <2>4, <2>5, <2>6 DEF ReleaseSoldSeats, Released, NotReleased
<1>2. CASE CancelTickets(d)
  <2>1. UNCHANGED <<returned, seatBack, Announcements, stale>> /\ seatBack # "no"
    BY <1>2 DEF CancelTickets, Announcements, WorkInv, paying, rowPast
  <2>2. Working' = Working
    BY <1>2, CancelTicketsSets, DriverMoves DEF CancelTickets, Working, DriverSteps
  <2>3. /\ (Announcements # {})' = (Announcements # {})
        /\ (stale \cap Working # {})' = (stale \cap Working # {})
    BY <2>1, <2>2
  <2>4. CASE cleared' = cleared
    BY <2>1, <2>4, RefundStutters
  <2>5. CASE cleared' # cleared
    <3>1. (cleared # "no")' = TRUE
      BY <1>2, <2>5 DEF CancelTickets
    <3> QED
      BY <2>1, <2>3, <3>1 DEF Abstract!Next, Abstract!CancelTickets
  <2> QED
    BY <2>4, <2>5
<1>3. CASE ~ (ReleaseSoldSeats(d) \/ CancelTickets(d))
  <2>1. UNCHANGED <<returned, seatBack, cleared>>
    BY <1>3 DEF DriverStep, CallRefundPayment, SaveRow, SaveFailed, FinishRefund, CatchError,
       past, paying
  <2>2. CASE Announcements' = Announcements
    BY <2>1, <2>2, RefundStutters
  <2>3. ASSUME NEW e \in Drivers, FinishRefund(e), Save(e, copy[e]), copy' = copy,
               outbox' = Append(outbox, NewEntry("booking.refunded"))
        PROVE  Writes(e)
    BY <2>3 DEF FinishRefund, Writes, Working, paying
  <2> QED
    BY <2>2, <2>3, WriteRefines, AnnouncementsGrow
<1> QED
  BY <1>1, <1>2, <1>3

\* The money moves at the gateway, for refunds that have begun.
LEMMA CallRefines ==
    ASSUME TypeInv, DriveInv, NEW i \in DOMAIN calls, CallStep(i) \/ RefundCallLost(i)
    PROVE  Abstract!Next
<1>1. UNCHANGED <<booking, Announcements, seatBack, cleared, stale>>
  BY CallFrame, CallPast DEF Announcements, past
<1>2. CASE returned' = returned
  BY <1>1, <1>2, RefundStutters
<1>3. CASE returned' # returned
  <2>1. GatewayRefund(i) /\ returned' = TRUE
    BY <1>3 DEF CallStep, FindPayment, FindRefund, InsertRefund, GatewayRefund, SaveRefund,
       SavePayment, RefundError, RefundAnswered, RefundCallLost, TypeInv, StateOK
  <2>2. booking.refundState # "none"
    <3>1. calls # <<>>
      BY EmptySeq
    <3> QED
      BY <3>1 DEF DriveInv, Asked
  <2>3. Working' = Working
    BY <2>1 DEF GatewayRefund, Working, driving
  <2>4. /\ (cleared # "no")' = (cleared # "no") /\ (Announcements # {})' = (Announcements # {})
        /\ (stale \cap Working # {})' = (stale \cap Working # {})
    BY <1>1, <2>3
  <2> QED
    BY <1>1, <2>1, <2>2, <2>4 DEF Abstract!Next, Abstract!ReturnMoney
<1> QED
  BY <1>2, <1>3

\* Every step of Fulfilment is a step of Refund.
LEMMA StepRefines ==
    ASSUME TypeInv, MoneyInv, WorkInv, DriveInv, [Next]_vars
    PROVE  Abstract!Next
<1>1. CASE UNCHANGED vars
  BY <1>1, RefundStutters DEF vars, Announcements
<1>2. CASE booking' # booking
  BY <1>2, RowWritten, WriteRefines
<1>3. CASE booking' = booking
  <2>1. ASSUME NEW t \in Ticks, TickReads(t) \/ TickStep(t) PROVE Abstract!Next
    <3>1. UNCHANGED <<returned, seatBack>> /\ (cleared' # "no" <=> cleared # "no")
      BY <2>1 DEF TickReads, TickStep, TickTakes, HandleSeatsSold, HandleBookingConfirmed,
         GenerateTicket, HandleBookingRefunded, EntryCompleted, EntryFailed, TickAborts,
         past, paying
    <3>2. Announcements' = Announcements
      <4>1. CASE outbox' = outbox
        BY <4>1 DEF Announcements
      <4>2. CASE TickStep(t)
        BY <4>1, <4>2, TickOutbox, EntryRewritten DEF Announcements
      <4> QED
        BY <2>1, <4>1, <4>2 DEF TickReads
    <3> QED
      BY <1>3, <3>1, <3>2, RefundStutters
  <2>2. CASE (\E c \in Cancels : CancelBooking(c) \/ InitiateRefund(c)) \/ RecoverStuckRefund
    <3>1. UNCHANGED <<returned, seatBack, cleared, Announcements>>
      BY <2>2 DEF CancelBooking, InitiateRefund, RecoverStuckRefund, Announcements, paying
    <3> QED
      BY <1>3, <3>1, RefundStutters
  <2>3. ASSUME NEW d \in Drivers, DriverStep(d) PROVE Abstract!Next
    BY <1>3, <2>3, DriverRefines
  <2>4. ASSUME NEW i \in DOMAIN calls, CallStep(i) \/ RefundCallLost(i) PROVE Abstract!Next
    BY <2>4, CallRefines
  <2>5. ASSUME NEW g \in Gates, CheckInReads(g) \/ CheckInSaves(g) PROVE Abstract!Next
    <3>1. UNCHANGED <<returned, seatBack, cleared, Announcements>>
      BY <2>5, GateFrame DEF CheckInReads, CheckInSaves, past, Announcements, paying
    <3> QED
      BY <1>3, <3>1, RefundStutters
  <2>6. CASE BookingServiceRestarts \/ PaymentServiceRestarts
    <3>1. UNCHANGED <<returned, seatBack, cleared, Announcements>>
      BY <2>6, RestartSets DEF BookingServiceRestarts, PaymentServiceRestarts, past,
         Announcements
    <3> QED
      BY <1>3, <3>1, RefundStutters
  <2> QED
    BY <1>1, <2>1, <2>2, <2>3, <2>4, <2>5, <2>6 DEF Next
<1> QED
  BY <1>2, <1>3

\* Whatever is lost, fails, restarts or runs twice between the three services, the
\* work of a refund is done in its order (the money, then the seat or its refusal,
\* then the tickets), and the stage the booking shows follows it one step at a
\* time; only a handler that saves a stale copy takes the stage back or makes it
\* jump, and then to a stage whose work is done
\* (booking-orchestrator.service.ts 240-353, refund-recovery.worker.ts 22-60,
\* refund.service.ts 48-113).
THEOREM ImplementsRefundHolds == Spec => ImplementsRefund
<1>1. TypeInv /\ MoneyInv /\ WorkInv /\ DriveInv /\ [Next]_vars =>
        [Abstract!Next]_(Abstract!vars)
  BY StepRefines
<1>2. Spec => []MoneyInv
  BY InitMoney, StepMoney, AlwaysTyped, PTL DEF Spec
<1> QED
  BY <1>1, <1>2, InitRefund, AlwaysTyped, AlwaysWork, AlwaysDrive, PTL
  DEF Spec, ImplementsRefund, Abstract!Spec
=============================================================================
