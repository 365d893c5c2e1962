---------------------------- MODULE MCMessaging -----------------------------
(* A small instance of Messaging for TLC. *)
EXTENDS Messaging, TLC

CONSTANTS e1, b1, secA, secX, s1, s2, ci1, ci2, cn1, u1

\* A section of two seats.
Layout == secA :> {s1, s2}
\* Two consumers of event.create, one of the notifications.
Groups == (ci1 :> "inventory") @@ (ci2 :> "inventory") @@ (cn1 :> "notification")
Notifier == cn1 :> "notification"
=============================================================================
