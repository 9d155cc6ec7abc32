------------------------------- MODULE Alerts -------------------------------
(***************************************************************************)
(* The alerts of a running exam: the checks of what is written against the *)
(* class's allowlist (Allowlist), by a debounce and at every switch of     *)
(* files, whose answers come in any order; the attribution of pastes and   *)
(* of text dropped in without a paste event; and the audit of the final    *)
(* files when the exam is handed in.                                       *)
(*                                                                         *)
(* Files stand for the files of all tasks: the code keys everything here   *)
(* by task and file alike.                                                 *)
(***************************************************************************)
EXTENDS Allowlist

CONSTANTS
    File, CodeFile,
    EntryFile,     \* the file that opens
    Text,          \* what a file may hold
    Blank,         \* no text at all
    Program,       \* Program[t]: the parse tree of a text that is not Blank
    Bulk,          \* texts above PASTE_THRESHOLD
    Syllabus,      \* the allowlists a class may have
    Week,          \* of the assignment
    MaxActs,       \* changes, switches and saved allowlists, together
    MaxFaults      \* checks and lookups that fail

ASSUME AlertsAssumption ==
    /\ CodeFile \subseteq File /\ EntryFile \in CodeFile
    /\ Blank \in Text /\ Bulk \subseteq Text \ {Blank}
    /\ \A t \in Text \ {Blank} : IsTree(Program[t])
    /\ \A w \in Syllabus \ {None} :
          DOMAIN w \subseteq Nat /\ \A n \in DOMAIN w : w[n] \subseteq NodeType
    /\ None \notin [file : File, text : Text]
    /\ {Week, MaxActs, MaxFaults} \subseteq Nat

VARIABLES
    mode,     \* "coding", "submitted"
    text,     \* text[f]
    active,   \* the file in the editor
    timer,    \* the debounce: the file and text of the last change, or None
    checks,   \* validations in flight
    sig,      \* lastViolationSig
    banked,   \* sessionContentRef
    inserts,  \* the pastes and bulk insertions, in order
    weeks,    \* the class's allowlist
    audit,    \* astAudit of forensicsResults
    alerts,   \* history: the AST_VIOLATION alerts emitted
    held,     \* history: which file has held which text
    lists,    \* history: the lists that have been in force
    faults,   \* bound
    acts      \* bound

vars == <<mode, text, active, timer, checks, sig, banked, inserts, weeks, audit,
          alerts, held, lists, faults, acts>>

editor   == <<mode, text, active, held>>
checking == <<timer, checks, sig, alerts>>
pasting  == <<banked, inserts>>
course   == <<weeks, audit, lists>>

Act   == acts < MaxActs /\ acts' = acts + 1
Fault == faults < MaxFaults /\ faults' = faults + 1

Coding == mode = "coding"

ListOf(w, found) == ResolveAllowlistFor(w, Week, found)

Init ==
    /\ mode = "coding"
    /\ text = [f \in File |-> Blank]
    /\ active = EntryFile
    /\ timer = None /\ checks = {} /\ sig = [f \in File |-> None]
    /\ banked = {} /\ inserts = <<>>
    /\ weeks \in Syllabus /\ lists = {ListOf(weeks, TRUE)}
    /\ audit = None
    /\ alerts = {}
    /\ held = {<<f, Blank>> : f \in File}
    /\ faults = 0 /\ acts = 0

-----------------------------------------------------------------------------
(***************************************************************************)
(* Pastes.                                                                 *)
(***************************************************************************)
Push(contents, t) == contents \cup ({t} \ {Blank})

\* Only what the session's content history holds is internal.
Provenance(contents, t) == IF t \in contents THEN "internal" ELSE "external"

\* An alert for what came from outside, once, and none after the hand-in.
Attributed(insert, contents, coding) ==
    LET provenance == Provenance(contents, insert.text)
    IN  [insert EXCEPT !.action = "paste",
                       !.provenance = provenance,
                       !.alerts = @ + (IF coding /\ insert.text \in Bulk /\ provenance = "external"
                                         THEN 1 ELSE 0)]

\* history: something ran between a drop and the timer it set.
Overtaken == [i \in DOMAIN inserts |->
                 [inserts[i] EXCEPT !.overtaken = @ \/ inserts[i].action = "type"]]

Insert(t) ==
    [text |-> t, before |-> text[active], action |-> "type", provenance |-> None,
     alerts |-> 0, pending |-> t \in Bulk, overtaken |-> FALSE,
     own |-> \E f \in File : <<f, t>> \in held]

\* handleChange restarts the debounce, in a data file only to stop it.
Change(t) ==
    /\ Coding /\ Act
    /\ text' = [text EXCEPT ![active] = t]
    /\ held' = held \cup {<<active, t>>}
    /\ timer' = IF active \in CodeFile THEN [file |-> active, text |-> t] ELSE None
    /\ UNCHANGED <<mode, active, checks, sig, alerts, course, faults>>

\* Typing, deleting, undoing: the file ends up with this text.
Type(t) ==
    /\ t # text[active]
    /\ Change(t)
    /\ inserts' = Overtaken
    /\ UNCHANGED banked

\* A paste over the whole file; onDidPaste comes with the change.
Paste(t) ==
    /\ t # Blank
    /\ Change(t)
    /\ banked' = Push(banked, text[active])
    /\ inserts' = Append(Overtaken, Attributed(Insert(t), banked', TRUE))

\* Text dropped into an empty file: no paste event.
Drop(t) ==
    /\ t \in Bulk /\ text[active] = Blank
    /\ Change(t)
    /\ inserts' = Append(Overtaken, Insert(t))
    /\ UNCHANGED banked

\* Variant: promoted whether or not it was known for a paste.
PromoteAnyway ==
    \E i \in DOMAIN inserts :
        /\ inserts[i].pending
        /\ \A j \in 1 .. i - 1 : ~inserts[j].pending
        /\ banked' = Push(banked, inserts[i].before)
        /\ inserts' = [inserts EXCEPT ![i] = [Attributed(@, banked', Coding) EXCEPT !.pending = FALSE]]
        /\ UNCHANGED <<editor, checking, course, faults, acts>>

\* The timer every bulk insertion sets, in the order they were set.
Promote ==
    \E i \in DOMAIN inserts :
        /\ inserts[i].pending
        /\ \A j \in 1 .. i - 1 : ~inserts[j].pending
        /\ \/ /\ inserts[i].action = "paste"
              /\ inserts' = [inserts EXCEPT ![i].pending = FALSE]
              /\ UNCHANGED banked
           \/ /\ inserts[i].action # "paste"
              /\ banked' = Push(banked, inserts[i].before)
              /\ inserts' = [inserts EXCEPT ![i] =
                                [Attributed(@, banked', Coding) EXCEPT !.pending = FALSE]]
        /\ UNCHANGED <<editor, checking, course, faults, acts>>

\* Every 30 seconds, for a watcher and before the hand-in: what the editor
\* shows is banked.  (What is sent is Recording's.)
Flush ==
    /\ Coding
    /\ banked' = Push(banked, text[active])
    /\ inserts' = Overtaken
    /\ banked' # banked \/ inserts' # inserts
    /\ UNCHANGED <<editor, checking, course, faults, acts>>

-----------------------------------------------------------------------------
(***************************************************************************)
(* Checks.                                                                 *)
(***************************************************************************)
\* validateFileNow: only while coding and only code files.  The text is the
\* caller's.  A second check of the same text is another one.
Started(file, t) ==
    IF Coding /\ file \in CodeFile
      THEN {[n |-> 1 + Max({0} \cup {c.n : c \in checks}), file |-> file, text |-> t,
             answer |-> "asked", found |-> <<>>]}
      ELSE {}

\* Variant: the file is read when the timer fires.
DebounceOfActive ==
    /\ timer # None
    /\ checks' = checks \cup Started(active, timer.text)
    /\ timer' = None
    /\ UNCHANGED <<editor, pasting, course, sig, alerts, faults, acts>>

Debounce ==
    /\ timer # None
    /\ checks' = checks \cup Started(timer.file, timer.text)
    /\ timer' = None
    /\ UNCHANGED <<editor, pasting, course, sig, alerts, faults, acts>>

\* The file that is left is checked at once; its timer goes on.
SwitchTo(file) ==
    /\ Coding /\ file # active /\ Act
    /\ active' = file
    /\ checks' = checks \cup Started(active, text[active])
    /\ UNCHANGED <<mode, text, held, timer, sig, alerts, pasting, course, faults>>

\* POST /api/ast/validate.  A failed lookup falls back to the baseline; a
\* blank text is refused.
CheckRead(c) ==
    /\ c.answer = "asked"
    /\ \/ /\ c.text = Blank
          /\ checks' = (checks \ {c}) \cup {[c EXCEPT !.answer = "refused"]}
          /\ UNCHANGED faults
       \/ \E found \in BOOLEAN :
              /\ c.text # Blank
              /\ IF found THEN UNCHANGED faults ELSE Fault
              /\ checks' = (checks \ {c})
                             \cup {[c EXCEPT !.answer = "judged",
                                            !.found = ValidateAST(Program[c.text], ListOf(weeks, found))]}
    /\ UNCHANGED <<editor, timer, sig, alerts, pasting, course, acts>>

AlertOf(c) == [file |-> c.file, summary |-> SummariseViolations(c.found)]

Alerted(c) == IF sig[c.file] = c.found[1] THEN alerts ELSE alerts \cup {AlertOf(c)}

\* Variant: one signature for all files.
AnsweredOneSig(c) ==
    /\ c.answer # "asked"
    /\ checks' = checks \ {c}
    /\ \/ c.answer = "refused" /\ UNCHANGED <<sig, alerts>>
       \/ /\ c.answer = "judged" /\ c.found = <<>>
          /\ sig' = [f \in File |-> None]
          /\ UNCHANGED alerts
       \/ /\ c.answer = "judged" /\ c.found # <<>>
          /\ sig' = [f \in File |-> c.found[1]]
          /\ alerts' = Alerted(c)
    /\ UNCHANGED <<editor, timer, pasting, course, faults, acts>>

\* An alert unless the file's last one had the same first violation.  Nothing
\* asks here whether the exam has been handed in meanwhile.
CheckAnswered(c) ==
    /\ c.answer # "asked"
    /\ checks' = checks \ {c}
    /\ \/ c.answer = "refused" /\ UNCHANGED <<sig, alerts>>
       \/ /\ c.answer = "judged" /\ c.found = <<>>
          /\ sig' = [sig EXCEPT ![c.file] = None]
          /\ UNCHANGED alerts
       \/ /\ c.answer = "judged" /\ c.found # <<>>
          /\ sig' = [sig EXCEPT ![c.file] = c.found[1]]
          /\ alerts' = Alerted(c)
    /\ UNCHANGED <<editor, timer, pasting, course, faults, acts>>

CheckFails(c) ==
    /\ Fault
    /\ checks' = checks \ {c}
    /\ UNCHANGED <<editor, timer, sig, alerts, pasting, course, acts>>

-----------------------------------------------------------------------------
\* PUT /api/classes/:classId/allowlist.
SaveAllowlist(w) ==
    /\ w \notin {weeks, None} /\ audit = None /\ Act
    /\ weeks' = w
    /\ lists' = lists \cup {ListOf(w, TRUE)}
    /\ UNCHANGED <<editor, checking, pasting, audit, faults>>

\* The page disarms itself.
Submit ==
    /\ Coding
    /\ mode' = "submitted"
    /\ timer' = None /\ sig' = [f \in File |-> None]
    /\ inserts' = Overtaken
    /\ UNCHANGED <<text, active, held, checks, alerts, banked, course, faults, acts>>

\* The worker: every code file that is not blank.
AuditCodeFiles ==
    /\ ~Coding /\ audit = None
    /\ \E found \in BOOLEAN :
          /\ IF found THEN UNCHANGED faults ELSE Fault
          /\ audit' = [list |-> ListOf(weeks, found),
                       files |-> [f \in {g \in CodeFile : text[g] # Blank} |->
                                     ValidateAST(Program[text[f]], ListOf(weeks, found))]]
    /\ UNCHANGED <<editor, checking, pasting, weeks, lists, acts>>

Next ==
    \/ \E t \in Text : Type(t) \/ Paste(t) \/ Drop(t)
    \/ Promote \/ Flush \/ Debounce
    \/ \E f \in File : SwitchTo(f)
    \/ \E c \in checks : CheckRead(c) \/ CheckAnswered(c) \/ CheckFails(c)
    \/ \E w \in Syllabus : SaveAllowlist(w)
    \/ Submit \/ AuditCodeFiles

Spec == Init /\ [][Next]_vars

-----------------------------------------------------------------------------
\* While the exam runs on one allowlist and no check has failed, once nothing
\* is pending every code file that breaks it has had an alert that names this
\* file and its first violation, in whatever order the answers came and
\* whichever files were open.
StandingViolationIsAlerted ==
    Coding /\ timer = None /\ checks = {} /\ faults = 0 /\ Cardinality(lists) = 1 =>
        \A f \in CodeFile :
            LET found == IF text[f] = Blank THEN <<>>
                         ELSE ValidateAST(Program[text[f]], ListOf(weeks, TRUE))
            IN  found # <<>> =>
                    \E a \in alerts : a.file = f /\ a.summary.items[1] = found[1]

\* An alert is about the file it names: this file has held a text with these
\* violations of a list that was in force, or of the baseline when a lookup
\* failed.
AlertNamesItsFile ==
    \A a \in alerts :
        \E t \in Text \ {Blank} :
            \E list \in lists \cup (IF faults = 0 THEN {} ELSE {ListOf(None, FALSE)}) :
                /\ <<a.file, t>> \in held
                /\ a.summary = SummariseViolations(ValidateAST(Program[t], list))

\* A bulk insertion raises at most one alert, whichever of the two paths sees
\* it; text the session never held raises exactly one and is recorded as a
\* paste, unless something came between a drop and its timer.
BulkInsertAlertedOnce ==
    \A i \in DOMAIN inserts :
        LET b == inserts[i]
        IN  /\ b.alerts <= 1
            /\ b.text \in Bulk /\ ~b.own /\ ~b.pending /\ ~b.overtaken =>
                   b.alerts = 1 /\ b.action = "paste"

\* Where a construct stands in another: preorder keeps a subtree together.
Within(program, i, j) == j < i /\ \A k \in j + 1 .. i : program[k].parent >= j

\* The audit names exactly the constructs outside the baseline and the week's
\* list, however deep they stand and in whichever file, but for the scaffolding
\* of one that is named, and what does not parse.
AuditListsEveryConstruct ==
    audit # None =>
        \A f \in CodeFile :
            LET program == Program[text[f]]
                forbidden == {i \in DOMAIN program :
                                 program[i].named /\ program[i].type \notin Baseline \cup
                                     (IF faults > 0 THEN audit.list ELSE
                                      IF weeks = None THEN {} ELSE
                                        UNION {weeks[w] : w \in
                                            {v \in DOMAIN weeks : v <= Week /\
                                                \A u \in DOMAIN weeks : u <= Week => u <= v}})}
                torn == {i \in DOMAIN program :
                            \E j \in DOMAIN program :
                                /\ program[j].type = "ERROR" \/ program[j].missing
                                /\ i = j \/ Within(program, i, j)}
                listed == {i \in forbidden \ torn :
                              \/ program[i].type \notin Structural
                              \/ ~\E j \in forbidden : Within(program, i, j)}
            IN  text[f] # Blank =>
                    ToSet(audit.files[f]) =
                        {[type |-> program[i].type, line |-> program[i].line] : i \in listed}
=============================================================================
