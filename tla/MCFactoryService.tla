-------------------------- MODULE MCFactoryService --------------------------
(***************************************************************************)
(* GuardedService with four requests: two for one name, spelled with and   *)
(* without white space around it, one for a name without a slug, and one   *)
(* whose description is blank.                                             *)
(***************************************************************************)
EXTENDS GuardedService, TLC

CONSTANTS j1, j2, j3, j4, crm, dots, crash, u1, u2

MCWords == {crm, dots, crash, Unexpected}
MCSlugOf == [w \in MCWords |-> IF w = dots THEN NoSlug ELSE crm]
MCOwner == (j1 :> u1) @@ (j2 :> u2) @@ (j3 :> u1) @@ (j4 :> u1)

Padded(w) == [word |-> w, spaces |-> TRUE]

Ask(name, description, notes) ==
  [projectName |-> name, projectDescription |-> description, notes |-> notes]

MCBody ==
  (j1 :> Ask(Padded(crm), Plain(crash), Padded(Blank))) @@
  (j2 :> Ask(Plain(crm), Padded(crash), Plain(crash))) @@
  (j3 :> Ask(Plain(dots), Plain(crash), Empty)) @@
  (j4 :> Ask(Plain(crm), Padded(Blank), Empty))

\* A message with white space around it, one that is blank, and none.
MCMessages == {Padded(crash), Padded(Blank), Null}

=============================================================================
