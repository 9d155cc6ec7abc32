----------------------------- MODULE ExamWindow -----------------------------
(***************************************************************************)
(* codecep-server/src/lib/examWindow.ts: the submission window of an       *)
(* assignment, as operators on its two instants.  An instant is a number   *)
(* of ticks, or None for a bound that is absent or unreadable.             *)
(***************************************************************************)
EXTENDS Integers

CONSTANTS None,         \* no bound
          MinuteTicks   \* ticks in a minute

ASSUME WindowAssumption == None \notin Nat /\ MinuteTicks \in Nat \ {0}

\* A close that is not after the open is ignored.
EffectiveClose(opens, closes) ==
    IF opens # None /\ closes # None /\ closes <= opens THEN None ELSE closes

\* windowStatusFor: a close in the past is looked at before an open to come.
WindowState(opens, closes, now) ==
    LET close == EffectiveClose(opens, closes)
    IN  CASE opens = None /\ close = None  -> "untimed"
          [] close # None /\ now > close   -> "closed"
          [] opens # None /\ now < opens   -> "pending"
          [] OTHER                         -> "open"

IsSubmitAllowed(state) == state \in {"untimed", "open"}

\* closesAtFrom: an opening instant and a duration.
ClosesAtFrom(opens, minutes) ==
    IF opens = None \/ minutes = None THEN None ELSE opens + minutes * MinuteTicks

\* windowMinutesBetween: Math.round of the distance.
WindowMinutesBetween(opens, closes) ==
    IF opens = None \/ closes = None THEN None
    ELSE IF closes <= opens THEN None
    ELSE (2 * (closes - opens) + MinuteTicks) \div (2 * MinuteTicks)
=============================================================================
