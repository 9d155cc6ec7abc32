------------------------------ MODULE MCCourse ------------------------------
EXTENDS Course

Nothing == [opens |-> Keep, closes |-> Keep, minutes |-> Keep, tasks |-> Keep]

\* The form with both instants, an extension alone, a later opening alone, the
\* opening cleared, a duration, another number of tasks.
SomeBodies ==
    {[Nothing EXCEPT !.opens = 2, !.closes = 6],
     [Nothing EXCEPT !.closes = 4],
     [Nothing EXCEPT !.opens = 5],
     [Nothing EXCEPT !.opens = None],
     [Nothing EXCEPT !.minutes = 1],
     [Nothing EXCEPT !.tasks = 2]}

\* Off; on with one address; on with ranges of two lengths; on with nothing.
SomePolicies ==
    {[enabled |-> FALSE, rules |-> {}],
     [enabled |-> TRUE, rules |-> {[base |-> 1, bits |-> Exact]}],
     [enabled |-> TRUE, rules |-> {[base |-> 5, bits |-> 1], [base |-> 2, bits |-> 2]}],
     [enabled |-> TRUE, rules |-> {}]}

\* A first row without the userId; one handed in; an empty duplicate before or
\* after the row with the work; two rows with work, one handed in.
Old(linked, worked, status) ==
    [student |-> CHOOSE s \in Student : TRUE, linked |-> linked, worked |-> worked, status |-> status]

SomeHistories ==
    {<<>>,
     <<Old(FALSE, TRUE, "IN_PROGRESS")>>,
     <<Old(FALSE, TRUE, "IN_PROGRESS"), Old(FALSE, FALSE, "IN_PROGRESS")>>,
     <<Old(TRUE, FALSE, "IN_PROGRESS"), Old(TRUE, TRUE, "IN_PROGRESS")>>,
     <<Old(TRUE, TRUE, "SUBMITTED"), Old(TRUE, TRUE, "IN_PROGRESS")>>,
     <<Old(TRUE, FALSE, "IN_PROGRESS"), Old(TRUE, FALSE, "SUBMITTED")>>}

ClockOffsets == {-4, 3}
=============================================================================
