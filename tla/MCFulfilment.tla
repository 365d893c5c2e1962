---------------------------- MODULE MCFulfilment ----------------------------
(* Small instances of Fulfilment for TLC. *)
EXTENDS Fulfilment

CONSTANTS t1, t2, c1, rec, g1, k1
=============================================================================
