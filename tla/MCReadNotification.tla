-------------------------- MODULE MCReadNotification --------------------------
(***************************************************************************)
(* ReadNotification with two users, one notification each, and two         *)
(* requests, whose user and notification are left open.                    *)
(***************************************************************************)
EXTENDS ReadNotification, TLC

CONSTANTS n1, n2, u1, u2

MCOwner == (n1 :> u1) @@ (n2 :> u2)

=============================================================================
