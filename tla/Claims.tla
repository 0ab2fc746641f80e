-------------------------------- MODULE Claims --------------------------------
(***************************************************************************)
(* What two unrelated parts of the service promise about the names they    *)
(* give away: the directories of the workspace, named by slugs, and the    *)
(* accounts, named by emails.  Claimants that want the same name race for  *)
(* it; whoever comes first has it for good, in one step and in person, and *)
(* nothing that exists already is given away.  In the code a look-up comes *)
(* long before the step that decides, and does not decide: a rename does   *)
(* it, or a unique index.                                                  *)
(*                                                                         *)
(* Workspace and Accounts implement this.                                  *)
(***************************************************************************)
CONSTANTS
  Names,            \* what can be held
  Claimants,
  Wishes,           \* what claimants may want; only Names can be had
  Free,             \* holds a name that nobody has
  Squatters         \* hold names from the start

VARIABLES
  holder,           \* holder[n]: who has the name
  wanted            \* wanted[c]: the one name that c wants; never changes

vars == <<holder, wanted>>

Init ==
  /\ holder \in [Names -> Squatters \cup {Free}]
  /\ wanted \in [Claimants -> Wishes]

Claim(c) ==
  /\ wanted[c] \in Names
  /\ holder[wanted[c]] = Free
  /\ holder' = [holder EXCEPT ![wanted[c]] = c]
  /\ UNCHANGED wanted

Next == \E c \in Claimants : Claim(c)

Spec == Init /\ [][Next]_vars

=============================================================================
