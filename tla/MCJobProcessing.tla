--------------------------- MODULE MCJobProcessing ---------------------------
(***************************************************************************)
(* JobProcessing on a few jobs, whose values the configurations give.      *)
(***************************************************************************)
EXTENDS JobProcessing

=============================================================================
