------------------------------ MODULE MCAccounts ------------------------------
(***************************************************************************)
(* Accounts with two spellings of one email, another email, and            *)
(* interchangeable passwords and registrations.                            *)
(***************************************************************************)
EXTENDS Accounts, TLC

CONSTANTS e1, E1, e2

MCLower == [e \in Emails |-> IF e = E1 THEN e1 ELSE e]

AccountSymmetry == Permutations(Registrations) \cup Permutations(Passwords)

=============================================================================
