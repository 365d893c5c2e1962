----------------------------- MODULE MCBooking -----------------------------
(* Small instances of Booking for TLC. *)
EXTENDS Booking, TLC

CONSTANTS r1, r2, r3, u1, u2, u3, k1, k2, k3

Sym == Permutations(Requests) \cup Permutations(Users) \cup Permutations(Keys)
=============================================================================
