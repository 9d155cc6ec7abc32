------------------------------ MODULE MCAlerts ------------------------------
(***************************************************************************)
(* Two small programs: a loop with its increment beside an increment on    *)
(* its own, and a class with a loop in it beside a loop that does not      *)
(* parse yet.                                                              *)
(***************************************************************************)
EXTENDS Alerts

Construct(type, line, parent) ==
    [type |-> type, named |-> TRUE, missing |-> FALSE, line |-> line, parent |-> parent]

Programs ==
    [t \in {"loop", "class"} |->
        IF t = "loop"
          THEN <<Construct("unit", 1, 0), Construct("for", 2, 1), Construct("update", 2, 2), Construct("update", 4, 1)>>
          ELSE <<Construct("unit", 1, 0), Construct("class", 1, 1), Construct("members", 1, 2), Construct("for", 3, 3),
                 Construct("ERROR", 5, 1), Construct("for", 5, 5)>>]

SomeTexts == DOMAIN Programs \cup {Blank}

\* No syllabus, and one without the baseline or a list for the second week.
SomeSyllabi == {None, [w \in {1, 3} |-> IF w = 1 THEN {"for", "update"} ELSE {"class"}]}
=============================================================================
