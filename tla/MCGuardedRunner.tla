--------------------------- MODULE MCGuardedRunner ---------------------------
(***************************************************************************)
(* GuardedRunner on scopes with a file-level status, which must not count, *)
(* and two tasks.                                                          *)
(***************************************************************************)
EXTENDS GuardedRunner

\* Both tasks ready, one of them, none of them, and a change of wording only.
BothReady   == <<"ready", "heading", "ready", "heading", "ready">>
FirstDone   == <<"ready", "heading", "other", "heading", "ready">>
SecondDone  == <<"ready", "heading", "ready", "heading", "other">>
AllDone     == <<"ready", "heading", "other", "heading", "other">>
Reworded    == <<"ready", "heading", "other", "other", "heading", "ready">>

MCScopes == {BothReady, FirstDone, SecondDone, AllDone, Reworded}
MCFirstScopes == {BothReady}

=============================================================================
