--------------------------- MODULE MCPlanningPack ---------------------------
(***************************************************************************)
(* PlanningPack on texts of one to three lines: plain ones, with a status  *)
(* line at the start, in the middle or at the end, with a heading before   *)
(* a status, with either of the PRD's own headings on a line of its own,   *)
(* and with one of them on the same line as a status, before or behind it. *)
(***************************************************************************)
EXTENDS PlanningPack

MCNames ==
  { <<"plain">>,
    <<"plain", "newline", "status">>,
    <<"plain", "newline", "status", "newline", "plain">>,
    <<"plain", "newline", "heading", "newline", "status">>,
    <<"plain", "newline", "testing", "newline", "plain">>,
    <<"plain", "newline", "criteria", "plain">> }
MCDescriptions ==
  { <<"plain">>,
    <<"plain", "newline", "status">>,
    <<"plain", "newline", "criteria">>,
    <<"plain", "newline", "status", "testing">> }
MCNotes ==
  { <<"plain">>,
    <<"status">>,
    <<"plain", "newline", "status">>,
    <<"plain", "newline", "criteria", "status", "newline", "plain">>,
    <<"plain", "newline", "testing", "newline", "criteria">>,
    <<"criteria", "plain", "newline", "status", "testing", "plain">> }

\* Any two of the texts together, the third one plain.
MCRequests ==
  {r \in [name : MCNames, description : MCDescriptions, notes : MCNotes] :
     <<"plain">> \in {r.name, r.description, r.notes}}

\* One request whose notes end with a status line.
MCStatusInNotes ==
  { [name |-> <<"plain">>, description |-> <<"plain">>,
     notes |-> <<"plain", "newline", "status">>] }

MCScopes == {FileOf(r, done) : r \in Requests, done \in SUBSET Tasks}
MCFirstScopes == {FileOf(r, {}) : r \in Requests}

=============================================================================
