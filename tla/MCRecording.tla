---------------------------- MODULE MCRecording ----------------------------
(* Edits after long pauses, in tenths of a second; a switch of file or task *)
(* comes early in the second pause and at the end of the third.             *)
EXTENDS Recording

SomeTimes == [k \in 1..MaxEdits |-> <<70, 140, 195>>[k]]
SomePauses == [k \in 1..MaxEdits |-> <<{0}, {65}, {0}>>[k]]
=============================================================================
