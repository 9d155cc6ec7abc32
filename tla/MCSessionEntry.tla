--------------------------- MODULE MCSessionEntry ---------------------------
(***************************************************************************)
(* Small instances of SessionEntry: two or three page loads of a student   *)
(* whose pair is new, or already has duplicate rows.                       *)
(***************************************************************************)
EXTENDS SessionEntry, TLC

\* Page loads are interchangeable; so are ids of rows not written yet.
Symmetric == Permutations(Request) \cup Permutations(Row \ Historic) \cup Permutations(Historic)
=============================================================================
