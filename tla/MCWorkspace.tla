----------------------------- MODULE MCWorkspace -----------------------------
(***************************************************************************)
(* Workspace with four jobs: two that collide after normalization, and    *)
(* each of the others once (a free name, a name without a slug).           *)
(***************************************************************************)
EXTENDS Workspace, TLC

CONSTANTS a, b, c, d, crm, shop

MCSlugOf == (a :> crm) @@ (b :> crm) @@ (c :> shop) @@ (d :> NoSlug)

=============================================================================
