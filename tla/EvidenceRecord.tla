--------------------------- MODULE EvidenceRecord ---------------------------
(***************************************************************************)
(* What one exam session promises about its evidence, with the network,    *)
(* the retries, the queue and the pages forgotten.  Keystrokes are added   *)
(* to a record that only grows.  The session is submitted once, and the    *)
(* record as it stood at that moment is the part the analysis owes the     *)
(* student and the instructor.  A verdict is reached only after the        *)
(* submission, only from keystrokes that were recorded, never from less    *)
(* than the record held at the submission, and a repeated analysis never   *)
(* knows less than the one before it.  Nothing here stops the record from  *)
(* growing after the submission: the ingest route does not look at the     *)
(* session's status.                                                       *)
(***************************************************************************)
CONSTANT Key                 \* the keystrokes a student may make

VARIABLES recorded,          \* keystrokes in playback_log
          submitted,         \* status = 'SUBMITTED'
          sealed,            \* what was recorded when the status flipped
          judged,            \* forensicsResults is present
          verdict            \* the keystrokes forensicsResults was computed from

vars == <<recorded, submitted, sealed, judged, verdict>>

Init ==
    /\ recorded = {}
    /\ submitted = FALSE
    /\ sealed = {}
    /\ judged = FALSE
    /\ verdict = {}

Record(S) ==
    /\ recorded' = recorded \cup S
    /\ UNCHANGED <<submitted, sealed, judged, verdict>>

Submit ==
    /\ ~submitted
    /\ submitted' = TRUE
    /\ sealed' = recorded
    /\ UNCHANGED <<recorded, judged, verdict>>

Judge(S) ==
    /\ submitted
    /\ sealed \cup verdict \subseteq S
    /\ S \subseteq recorded
    /\ judged' = TRUE
    /\ verdict' = S
    /\ UNCHANGED <<recorded, submitted, sealed>>

Next ==
    \/ \E S \in SUBSET Key : Record(S) \/ Judge(S)
    \/ Submit

Spec == Init /\ [][Next]_vars
=============================================================================
