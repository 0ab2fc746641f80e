----------------------------- MODULE MCOwnerApi -----------------------------
(***************************************************************************)
(* OwnerApi with two users, one job each, a client of the first user, and  *)
(* read requests whose user and notification are left open.                *)
(***************************************************************************)
EXTENDS OwnerApi, TLC

CONSTANTS n1, n2, u1, u2, c1

MCOwner == (n1 :> u1) @@ (n2 :> u2)
MCUserOf == c1 :> u1

RequestSymmetry == Permutations(Requests)

=============================================================================
