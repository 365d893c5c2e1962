----------------------------- MODULE MCAccounts -----------------------------
(* Small instances of Accounts for TLC. *)
EXTENDS Accounts, TLC

CONSTANTS a1, a2, l1, l2, o1, v1, f1, f2, s1, s2, p1, p2

Sym == Permutations(Registers) \cup Permutations(Logins) \cup Permutations(Forgots)
         \cup Permutations(Resets) \cup Permutations(Passwords)
=============================================================================
