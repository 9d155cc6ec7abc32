------------------------------ MODULE Allowlist ------------------------------
(***************************************************************************)
(* Which constructs a C++ file may use and which of those it uses are not  *)
(* allowed: the week's list of a class, the baseline under every list, the *)
(* walk over the parse tree and the summary an alert or a report carries.  *)
(*                                                                         *)
(* A program is its parse tree in preorder, a sequence of                  *)
(* [type, named, missing, line, parent], parent being an earlier place or  *)
(* 0.  A class's allowlist is None or a function from weeks to sets of     *)
(* node types.                                                             *)
(***************************************************************************)
EXTENDS Integers, SequencesExt

CONSTANTS
    None,
    NodeType,     \* of the C++ grammar
    Baseline,     \* node types no list can forbid
    Structural,   \* node types that are part of the construct around them
    DetailLimit   \* constructs a summary names

Node == [type : NodeType, named : BOOLEAN, missing : BOOLEAN, line : Nat, parent : Nat]

\* Every subtree stands together.
IsTree(program) ==
    /\ program \in Seq(Node)
    /\ \A i \in DOMAIN program :
          /\ program[i].parent < i
          /\ \A j \in program[i].parent + 1 .. i - 1 : program[j].parent >= program[i].parent

Violation == [type : NodeType, line : Nat]

ASSUME AllowlistAssumption ==
    /\ DetailLimit \in Nat \ {0}
    /\ None \notin Violation /\ \A types \in SUBSET NodeType : types # None

-----------------------------------------------------------------------------
\* The list of the week, else of the latest week before it, else none.
ResolveWeekAllowlist(weeks, week) ==
    LET past == {w \in DOMAIN weeks : w <= week}
    IN  IF past = {} THEN None ELSE weeks[CHOOSE w \in past : \A v \in past : v <= w]

WithBaseline(list) == Baseline \cup (IF list = None THEN {} ELSE list)

\* An exam without an assignment, and a lookup that fails, get the baseline.
ResolveAllowlistFor(weeks, week, found) ==
    WithBaseline(IF found /\ weeks # None THEN ResolveWeekAllowlist(weeks, week) ELSE None)

-----------------------------------------------------------------------------
IsSignificantConstruct(type) == type \notin Structural

\* Variant: nothing is reported from inside a construct that is.
ReportsTopmost(node, visit, list) ==
    ~visit.dropped /\ node.named /\ node.type \notin list /\ ~visit.inside

Reports(node, visit, list) ==
    /\ ~visit.dropped
    /\ node.named /\ node.type \notin list
    /\ ~visit.inside \/ IsSignificantConstruct(node.type)

\* What the walk knows at each node: whether it lies in a subtree the walk
\* drops, and whether it comes from inside a construct that is not allowed.
Walk(program, list) ==
    LET from[i \in DOMAIN program] ==
            LET p == program[i].parent
                n == program[i]
            IN  [dropped |-> (p # 0 /\ from[p].dropped) \/ n.type = "ERROR" \/ n.missing,
                 inside  |-> p # 0 /\ (from[p].inside
                                         \/ (program[p].named /\ program[p].type \notin list))]
    IN  from

\* The violations, in the order of the walk.
ValidateAST(program, list) ==
    LET visit == Walk(program, list)
        found[i \in 0 .. Len(program)] ==
            IF i = 0 THEN <<>>
            ELSE IF Reports(program[i], visit[i], list)
                   THEN Append(found[i - 1], [type |-> program[i].type, line |-> program[i].line])
                   ELSE found[i - 1]
    IN  found[Len(program)]

\* Each violation once, where it is first found.
Distinct(violations) ==
    LET seen[i \in 0 .. Len(violations)] ==
            IF i = 0 THEN <<>>
            ELSE IF violations[i] \in ToSet(seen[i - 1])
                   THEN seen[i - 1] ELSE Append(seen[i - 1], violations[i])
    IN  seen[Len(violations)]

\* Distinct violations: how many there are and the first few.
SummariseViolations(violations) ==
    LET distinct == Distinct(violations)
        shown == IF Len(distinct) < DetailLimit THEN Len(distinct) ELSE DetailLimit
    IN  [items |-> SubSeq(distinct, 1, shown), distinct |-> Len(distinct)]
=============================================================================
