---------------------------- MODULE MCPaymentApi ----------------------------
(* Small instances of PaymentApi for TLC. *)
EXTENDS PaymentApi, TLC

CONSTANTS r1, r2, r3, r4, k1, k2

Sym == Permutations(Requests) \cup Permutations(Keys)
=============================================================================
