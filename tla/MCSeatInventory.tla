-------------------------- MODULE MCSeatInventory --------------------------
(* Small instances of SeatInventory for TLC. *)
EXTENDS SeatInventory, TLC

CONSTANTS r1, r2, r3, r4, u1, u2, s1, s2, s3, w

Call(op, u, ss, reason) == [op |-> op, user |-> u, seats |-> ss, reason |-> reason]
Hold(u, ss) == Call("holdSeats", u, ss, "none")
Cancel(u, ss) == Call("releaseSeats", u, ss, "user_cancel")
Sold(u, ss) == Call("markAsSold", u, ss, "payment_success")
Unsold(u, ss) == Call("relaseSoldSeats", u, ss, "none")
View(u) == Call("getEventSeatsWithStatus", u, {}, "none")

\* Two buyers on overlapping seats, and every operation.
SeatCalls == {Hold(u1, {s1, s2}), Hold(u2, {s2}),
              Cancel(u1, {s1}), Sold(u1, {s1, s2}), Unsold(u1, {s1}), View(u2)}
\* A buyer who tries again, and a rival.
RetryCalls == {Hold(u1, {s1}), Hold(u2, {s1}), Cancel(u1, {s1})}
\* Writers of one seat, and a viewer.
ViewCalls == {Hold(u1, {s1}), Cancel(u1, {s1}), View(u1)}

Sym == Permutations(Requests)
=============================================================================
