----------------------------- MODULE AlertsProofs -----------------------------
(***************************************************************************)
(* Proofs of AlertNamesItsFile, BulkInsertAlertedOnce,                     *)
(* StandingViolationIsAlerted and AuditListsEveryConstruct, for any files, *)
(* texts, programs and allowlists, any number of changes, pastes, switches *)
(* and checks in flight, and any number of failures.                       *)
(***************************************************************************)
EXTENDS Alerts, FiniteSetTheorems, SequenceTheorems, WellFoundedInduction, TLAPS

(***************************************************************************)
(* Checks.  A check carries the file and the text of the moment it was     *)
(* started, and its answer one of the lists that have been in force, so an *)
(* alert is true of its file however late the answer comes.                *)
(***************************************************************************)
\* The lists a check may have been judged by.
Judging == lists \cup (IF faults = 0 THEN {} ELSE {ListOf(None, FALSE)})

Judged(c) == \E list \in Judging : c.found = ValidateAST(Program[c.text], list)

CheckIsTrue(c) ==
    /\ DOMAIN c = {"n", "file", "text", "answer", "found"}
    /\ c.text \in Text /\ <<c.file, c.text>> \in held
    /\ c.answer = "judged" => c.text # Blank /\ Judged(c)

EditorIsHeld ==
    /\ active \in File /\ text \in [File -> Text] /\ faults \in Nat
    /\ \A f \in File : <<f, text[f]>> \in held
    /\ timer # None => timer.text \in Text /\ <<timer.file, timer.text>> \in held
    /\ ListOf(weeks, TRUE) \in lists

ChecksAreTrue == \A c \in checks : CheckIsTrue(c)

CheckInv == EditorIsHeld /\ ChecksAreTrue /\ AlertNamesItsFile

LEMMA CheckStart == Init => CheckInv
<1> SUFFICES ASSUME Init PROVE CheckInv
  OBVIOUS
<1>1. EditorIsHeld
  BY AlertsAssumption DEF Init, EditorIsHeld
<1>2. QED
  BY <1>1 DEF Init, CheckInv, ChecksAreTrue, AlertNamesItsFile

\* What is true of a check and of an alert stays true: nothing is taken out of
\* held and of lists.
LEMMA ChecksStay ==
    ASSUME CheckInv, held \subseteq held', lists \subseteq lists', faults' \in Nat,
           faults' >= faults
    PROVE  /\ Judging \subseteq Judging'
           /\ \A c \in checks : CheckIsTrue(c)'
           /\ \A a \in alerts : \E t \in Text \ {Blank}, list \in Judging' :
                  /\ <<a.file, t>> \in held'
                  /\ a.summary = SummariseViolations(ValidateAST(Program[t], list))
<1>1. Judging \subseteq Judging'
  BY DEF Judging, CheckInv, EditorIsHeld, ListOf, ResolveAllowlistFor
<1>2. \A c \in checks : CheckIsTrue(c)'
  BY <1>1 DEF CheckInv, ChecksAreTrue, CheckIsTrue, Judged
<1>3. \A a \in alerts : \E t \in Text \ {Blank}, list \in Judging :
         /\ <<a.file, t>> \in held
         /\ a.summary = SummariseViolations(ValidateAST(Program[t], list))
  BY DEF CheckInv, AlertNamesItsFile, Judging
<1>4. QED
  BY <1>1, <1>2, <1>3

\* A step that raises no alert.
LEMMA NoAlert ==
    ASSUME CheckInv, held \subseteq held', lists \subseteq lists', faults' \in Nat,
           faults' >= faults, EditorIsHeld', alerts' = alerts,
           \A c \in checks' \ checks : CheckIsTrue(c)'
    PROVE  CheckInv'
<1>1. \A a \in alerts' : \E t \in Text \ {Blank}, list \in Judging' :
         /\ <<a.file, t>> \in held'
         /\ a.summary = SummariseViolations(ValidateAST(Program[t], list))
  BY ChecksStay
<1>2. AlertNamesItsFile'
  BY <1>1 DEF AlertNamesItsFile, Judging
<1>3. ChecksAreTrue'
  BY ChecksStay DEF ChecksAreTrue
<1>4. QED
  BY <1>2, <1>3 DEF CheckInv

LEMMA ChangeKeeps ==
    ASSUME CheckInv, NEW t \in Text, Change(t)
    PROVE  CheckInv'
<1>1. /\ active' = active /\ text' = [text EXCEPT ![active] = t]
      /\ held' = held \cup {<<active, t>>}
      /\ timer' = IF active \in CodeFile THEN [file |-> active, text |-> t] ELSE None
      /\ UNCHANGED <<checks, alerts, weeks, lists, faults>>
  BY DEF Change, course
<1>2. timer' # None => timer'.text = t /\ timer'.file = active
  BY <1>1
<1>3. EditorIsHeld'
  BY <1>1, <1>2 DEF CheckInv, EditorIsHeld
<1>4. faults' \in Nat /\ faults' >= faults
  BY <1>1 DEF CheckInv, EditorIsHeld
<1>5. QED
  BY <1>1, <1>3, <1>4, NoAlert

\* A check is started with what the file holds, or held when the timer was set.
LEMMA StartedIsTrue ==
    ASSUME NEW file, NEW t \in Text, <<file, t>> \in held', NEW c \in Started(file, t)
    PROVE  CheckIsTrue(c)'
  BY DEF Started, CheckIsTrue

LEMMA CheckStarts ==
    ASSUME CheckInv, Debounce \/ \E f \in File : SwitchTo(f)
    PROVE  CheckInv'
<1>1. UNCHANGED <<text, held, alerts, weeks, lists, faults>>
  BY DEF Debounce, SwitchTo, editor, course
<1>2. EditorIsHeld'
  BY <1>1 DEF Debounce, SwitchTo, editor, CheckInv, EditorIsHeld
<1>3. \A c \in checks' \ checks : CheckIsTrue(c)'
  <2>1. CASE Debounce
    BY <1>1, <2>1, StartedIsTrue DEF Debounce, CheckInv, EditorIsHeld
  <2>2. CASE \E f \in File : SwitchTo(f)
    BY <1>1, <2>2, StartedIsTrue DEF SwitchTo, CheckInv, EditorIsHeld
  <2>3. QED
    BY <2>1, <2>2
<1>4. faults' \in Nat /\ faults' >= faults
  BY <1>1 DEF CheckInv, EditorIsHeld
<1>5. QED
  BY <1>1, <1>2, <1>3, <1>4, NoAlert

LEMMA ReadKeeps ==
    ASSUME CheckInv, NEW c \in checks, CheckRead(c)
    PROVE  CheckInv'
<1>1. UNCHANGED <<active, text, held, timer, alerts, weeks, lists>> /\ CheckIsTrue(c)
  BY DEF CheckRead, editor, course, CheckInv, ChecksAreTrue
<1>2. faults' \in Nat /\ faults' >= faults
  <2>1. faults' = faults \/ Fault
    BY DEF CheckRead
  <2>2. faults \in Nat /\ (Fault => faults' = faults + 1)
    BY DEF Fault, CheckInv, EditorIsHeld
  <2>3. QED
    BY <2>1, <2>2
<1>3. EditorIsHeld'
  BY <1>1, <1>2 DEF CheckInv, EditorIsHeld
<1>4. \A d \in checks' \ checks : CheckIsTrue(d)'
  <2>1. CASE c.text = Blank
    BY <1>1, <2>1 DEF CheckRead, CheckIsTrue
  <2>2. CASE c.text # Blank
    <3>1. PICK found \in BOOLEAN :
            /\ IF found THEN UNCHANGED faults ELSE Fault
            /\ checks' = (checks \ {c})
                 \cup {[c EXCEPT !.answer = "judged",
                                 !.found = ValidateAST(Program[c.text], ListOf(weeks, found))]}
      BY <2>2 DEF CheckRead
    <3>2. ListOf(weeks, found) \in Judging'
      <4>1. CASE found
        BY <1>1, <4>1 DEF Judging, CheckInv, EditorIsHeld
      <4>2. CASE ~found
        <5>1. faults' # 0
          <6>1. faults \in Nat /\ Fault
            BY <3>1, <4>2 DEF CheckInv, EditorIsHeld
          <6>2. QED
            BY <6>1 DEF Fault
        <5>2. ListOf(weeks, FALSE) = ListOf(None, FALSE)
          BY DEF ListOf, ResolveAllowlistFor
        <5>3. QED
          BY <4>2, <5>1, <5>2 DEF Judging
      <4>3. QED
        BY <4>1, <4>2
    <3>3. PICK list \in Judging' : list = ListOf(weeks, found)
      BY <3>2
    <3> DEFINE d == [c EXCEPT !.answer = "judged", !.found = ValidateAST(Program[c.text], list)]
    <3>4. checks' = (checks \ {c}) \cup {d}
      BY <3>1, <3>3
    <3>5. /\ DOMAIN d = {"n", "file", "text", "answer", "found"}
          /\ d.text = c.text /\ d.file = c.file /\ d.found = ValidateAST(Program[c.text], list)
      BY <1>1 DEF CheckIsTrue
    <3> HIDE DEF d
    <3>6. CheckIsTrue(d)'
      BY <1>1, <2>2, <3>3, <3>5 DEF CheckIsTrue, Judged
    <3>7. QED
      BY <3>4, <3>6
  <2>3. QED
    BY <2>1, <2>2
<1>5. QED
  BY <1>1, <1>2, <1>3, <1>4, NoAlert

LEMMA AnswerKeeps ==
    ASSUME CheckInv, NEW c \in checks, CheckAnswered(c)
    PROVE  CheckInv'
<1>1. /\ UNCHANGED <<active, text, held, timer, weeks, lists, faults>>
      /\ CheckIsTrue(c) /\ checks' \subseteq checks
  BY DEF CheckAnswered, editor, course, CheckInv, ChecksAreTrue
<1>2. EditorIsHeld' /\ faults' \in Nat /\ faults' >= faults
  <2>1. faults' \in Nat /\ faults' >= faults
    BY <1>1 DEF CheckInv, EditorIsHeld
  <2>2. EditorIsHeld'
    BY <1>1 DEF CheckInv, EditorIsHeld, ListOf
  <2>3. QED
    BY <2>1, <2>2
<1>3. CASE alerts' = alerts
  BY <1>1, <1>2, <1>3, NoAlert
<1>4. CASE alerts' # alerts
  <2>1. c.answer = "judged" /\ alerts' = alerts \cup {AlertOf(c)}
    BY <1>4 DEF CheckAnswered, Alerted
  <2>2. PICK list \in Judging : c.found = ValidateAST(Program[c.text], list)
    BY <1>1, <2>1 DEF CheckIsTrue, Judged
  <2>3. /\ c.text \in Text \ {Blank} /\ list \in Judging' /\ <<AlertOf(c).file, c.text>> \in held'
        /\ AlertOf(c).summary = SummariseViolations(ValidateAST(Program[c.text], list))
    BY <1>1, <2>1, <2>2 DEF CheckIsTrue, AlertOf, Judging
  <2>4. \A a \in alerts : \E t \in Text \ {Blank}, l \in Judging' :
            /\ <<a.file, t>> \in held'
            /\ a.summary = SummariseViolations(ValidateAST(Program[t], l))
    BY <1>1, <1>2, ChecksStay
  <2>5. AlertNamesItsFile'
    BY <2>1, <2>3, <2>4 DEF AlertNamesItsFile, Judging
  <2>6. ChecksAreTrue'
    BY <1>1, <1>2, ChecksStay DEF ChecksAreTrue
  <2>7. QED
    BY <1>2, <2>5, <2>6 DEF CheckInv
<1>5. QED
  BY <1>3, <1>4

\* Every other step leaves the checks and what they speak of alone, or adds a
\* list.
LEMMA OthersKeep ==
    ASSUME CheckInv, \/ Promote \/ Flush \/ Submit \/ AuditCodeFiles \/ UNCHANGED vars
                     \/ \E c \in checks : CheckFails(c)
                     \/ \E w \in Syllabus : SaveAllowlist(w)
    PROVE  CheckInv'
<1>1. UNCHANGED <<active, text, held, alerts>> /\ lists \subseteq lists' /\ checks' \subseteq checks
  BY DEF Promote, Flush, Submit, AuditCodeFiles, CheckFails, SaveAllowlist, editor, checking,
         course, vars
<1>2. faults' \in Nat /\ faults' >= faults
  <2>1. faults' = faults \/ Fault
    BY DEF Promote, Flush, Submit, AuditCodeFiles, CheckFails, SaveAllowlist, course, vars
  <2>2. faults \in Nat /\ (Fault => faults' = faults + 1)
    BY DEF Fault, CheckInv, EditorIsHeld
  <2>3. QED
    BY <2>1, <2>2
<1>3. ListOf(weeks', TRUE) \in lists' /\ (timer' = timer \/ timer' = None)
  BY DEF Promote, Flush, Submit, AuditCodeFiles, CheckFails, SaveAllowlist, editor, checking,
         course, vars, CheckInv, EditorIsHeld
<1>4. EditorIsHeld'
  BY <1>1, <1>2, <1>3 DEF CheckInv, EditorIsHeld, ListOf
<1>5. QED
  BY <1>1, <1>2, <1>4, NoAlert

LEMMA CheckStep == CheckInv /\ [Next]_vars => CheckInv'
<1>1. ASSUME NEW t \in Text, Type(t) \/ Paste(t) \/ Drop(t) PROVE Change(t)
  BY <1>1 DEF Type, Paste, Drop
<1>2. QED
  BY <1>1, ChangeKeeps, CheckStarts, ReadKeeps, AnswerKeeps, OthersKeep DEF Next

\* Whatever the order of the answers, and however long after a switch, an edit
\* or a new allowlist they come, an alert says what was true of the file it
\* names.
THEOREM AlertsNameTheirFile == Spec => []AlertNamesItsFile
<1>1. CheckInv => AlertNamesItsFile
  BY DEF CheckInv
<1>2. QED
  BY <1>1, CheckStart, CheckStep, PTL DEF Spec

-----------------------------------------------------------------------------
(***************************************************************************)
(* Bulk insertions.  A paste is judged on the spot.  A drop waits for its  *)
(* timer, and as long as nothing ran in between it is the last insertion   *)
(* and its text is neither banked nor about to be banked by an earlier     *)
(* timer, so that the timer still finds it external.                       *)
(***************************************************************************)
\* Some file has held this text.
WasHeld(t) == \E f \in File : <<f, t>> \in held

Entries ==
    [text : Text, before : Text, action : {"type", "paste"},
     provenance : {None, "internal", "external"}, alerts : Nat,
     pending : BOOLEAN, overtaken : BOOLEAN, own : BOOLEAN]

EntryOK(b) ==
    /\ b.alerts <= 1
    /\ b.action = "type" => b.alerts = 0 /\ (b.text \in Bulk => b.pending = TRUE)
    /\ b.action = "paste" /\ b.text \in Bulk /\ b.own = FALSE /\ b.overtaken = FALSE => b.alerts = 1

\* A drop whose timer will still find it as it was.
Waiting(b) == b.action = "type" /\ b.own = FALSE /\ b.overtaken = FALSE

LastAndNew(i) ==
    /\ i = Len(inserts) /\ Coding
    /\ inserts[i].text \notin banked
    /\ \A j \in DOMAIN inserts : inserts[j].before # inserts[i].text

TextsAreHeld ==
    /\ active \in File /\ text \in [File -> Text]
    /\ \A f \in File : <<f, text[f]>> \in held
    /\ banked \subseteq Text /\ \A t \in banked : WasHeld(t)
    /\ \A i \in DOMAIN inserts : WasHeld(inserts[i].before)

InsertInv ==
    /\ TextsAreHeld
    /\ inserts \in Seq(Entries)
    /\ \A i \in DOMAIN inserts : EntryOK(inserts[i])
    /\ \A i \in DOMAIN inserts : Waiting(inserts[i]) => LastAndNew(i)

LEMMA InsertStart == Init => InsertInv
  BY AlertsAssumption DEF Init, InsertInv, TextsAreHeld, WasHeld

\* What the attribution makes of an insertion that was not seen as a paste yet.
LEMMA AttributedOK ==
    ASSUME NEW b \in Entries, EntryOK(b), b.action = "type", NEW contents, NEW coding \in BOOLEAN,
           Waiting(b) => coding /\ b.text \notin contents
    PROVE  LET a == Attributed(b, contents, coding)
           IN  /\ a \in Entries /\ EntryOK(a) /\ a.action = "paste"
               /\ a.text = b.text /\ a.before = b.before /\ a.pending = b.pending
<1> DEFINE external == IF b.text \in contents THEN "internal" ELSE "external"
           more == IF coding /\ b.text \in Bulk /\ external = "external" THEN 1 ELSE 0
           n == b.alerts + more
           a == [b EXCEPT !.action = "paste", !.provenance = external, !.alerts = n]
<1>1. a = Attributed(b, contents, coding)
  BY DEF Attributed, Provenance
<1>2. more \in {0, 1} /\ external \in {None, "internal", "external"} /\ b.alerts = 0
  BY DEF EntryOK
<1>3. Waiting(b) /\ b.text \in Bulk => more = 1
  OBVIOUS
<1> HIDE DEF more
<1>4. n = more /\ n \in Nat
  BY <1>2
<1> HIDE DEF external, n
<1>5. /\ a \in Entries /\ a.action = "paste" /\ a.alerts = n
      /\ a.text = b.text /\ a.before = b.before /\ a.pending = b.pending
      /\ a.own = b.own /\ a.overtaken = b.overtaken
  BY <1>2, <1>4 DEF Entries
<1> HIDE DEF a
<1>6. EntryOK(a)
  BY <1>2, <1>3, <1>4, <1>5 DEF EntryOK, Waiting
<1>7. QED
  BY <1>1, <1>5, <1>6

LEMMA OvertakenOK ==
    ASSUME InsertInv
    PROVE  /\ Overtaken \in Seq(Entries) /\ Len(Overtaken) = Len(inserts)
           /\ \A i \in DOMAIN inserts : /\ EntryOK(Overtaken[i]) /\ ~Waiting(Overtaken[i])
                                        /\ Overtaken[i].before = inserts[i].before
<1>1. inserts \in Seq(Entries) /\ DOMAIN inserts = 1 .. Len(inserts) /\ Len(inserts) \in Nat
  BY DEF InsertInv
<1>2. ASSUME NEW i \in DOMAIN inserts
      PROVE  /\ Overtaken[i] \in Entries /\ EntryOK(Overtaken[i]) /\ ~Waiting(Overtaken[i])
             /\ Overtaken[i].before = inserts[i].before
  <2> DEFINE b == inserts[i]
             was == b.overtaken \/ b.action = "type"
             o == [b EXCEPT !.overtaken = was]
  <2>1. b \in Entries /\ EntryOK(b)
    BY <1>1 DEF InsertInv
  <2>2. Overtaken[i] = o
    BY DEF Overtaken
  <2>3. was \in BOOLEAN /\ (b.action = "type" => was = TRUE) /\ (was = FALSE => b.overtaken = FALSE)
    BY <2>1 DEF Entries
  <2> HIDE DEF was, b
  <2>4. /\ o \in Entries /\ o.overtaken = was /\ o.own = b.own /\ o.action = b.action
        /\ o.alerts = b.alerts /\ o.text = b.text /\ o.pending = b.pending /\ o.before = b.before
    BY <2>1, <2>3 DEF Entries
  <2> HIDE DEF o
  <2>5. EntryOK(o) /\ ~Waiting(o)
    BY <2>1, <2>3, <2>4 DEF EntryOK, Waiting
  <2>6. QED
    BY <2>2, <2>4, <2>5 DEF b
<1>3. Overtaken \in [1 .. Len(inserts) -> Entries]
  BY <1>1, <1>2 DEF Overtaken
<1>4. Overtaken \in Seq(Entries) /\ Len(Overtaken) = Len(inserts)
  BY <1>1, <1>3
<1>5. QED
  BY <1>2, <1>4

\* A step that overtakes what waits and inserts nothing.
LEMMA NothingInserted ==
    ASSUME InsertInv, inserts' = Overtaken, TextsAreHeld'
    PROVE  InsertInv'
<1>1. inserts' \in Seq(Entries) /\ DOMAIN inserts' = DOMAIN inserts
  BY OvertakenOK DEF InsertInv
<1>2. \A i \in DOMAIN inserts' : EntryOK(inserts'[i]) /\ ~Waiting(inserts'[i])
  BY <1>1, OvertakenOK
<1>3. QED
  BY <1>1, <1>2 DEF InsertInv, EntryOK, Waiting

\* A step that leaves the insertions and what they are judged by alone.
LEMMA NothingMoves ==
    ASSUME InsertInv, UNCHANGED <<mode, text, held, inserts, banked>>, active' \in File
    PROVE  InsertInv'
  BY DEF InsertInv, TextsAreHeld, WasHeld, LastAndNew, Coding, EntryOK, Waiting

\* An insertion overtakes those before it and is the last one.
LEMMA EntryAppended ==
    ASSUME InsertInv, TextsAreHeld', NEW e \in Entries, EntryOK(e), inserts' = Append(Overtaken, e),
           Waiting(e) => /\ Coding' /\ e.text \notin banked' /\ e.before # e.text
                         /\ \A j \in DOMAIN inserts : inserts[j].before # e.text
    PROVE  InsertInv'
<1> DEFINE n == Len(inserts)
<1>1. /\ Overtaken \in Seq(Entries) /\ Len(Overtaken) = n /\ n \in Nat /\ DOMAIN inserts = 1 .. n
      /\ \A i \in 1 .. n : /\ EntryOK(Overtaken[i]) /\ ~Waiting(Overtaken[i])
                           /\ Overtaken[i].before = inserts[i].before
  BY OvertakenOK DEF InsertInv
<1>2. /\ inserts' \in Seq(Entries) /\ Len(inserts') = n + 1 /\ DOMAIN inserts' = 1 .. n + 1
      /\ inserts'[n + 1] = e /\ \A i \in 1 .. n : inserts'[i] = Overtaken[i]
  BY <1>1
<1> HIDE DEF n
<1>3. \A i \in 1 .. n + 1 : i \in 1 .. n \/ i = n + 1
  BY <1>1
<1>4. \A i \in DOMAIN inserts' : EntryOK(inserts'[i])
  BY <1>1, <1>2, <1>3
<1>5. ASSUME NEW i \in DOMAIN inserts', Waiting(inserts'[i]) PROVE LastAndNew(i)'
  <2>1. i = n + 1 /\ inserts'[i] = e
    BY <1>1, <1>2, <1>3, <1>5
  <2>2. \A j \in DOMAIN inserts' : inserts'[j].before # e.text
    BY <1>1, <1>2, <1>3, <1>5, <2>1
  <2>3. QED
    BY <1>2, <1>5, <2>1, <2>2 DEF LastAndNew
<1>6. QED
  BY <1>2, <1>4, <1>5 DEF InsertInv, EntryOK, Waiting

LEMMA EntryReplaced ==
    ASSUME InsertInv, NEW i \in DOMAIN inserts, NEW e \in Entries, EntryOK(e), ~Waiting(e),
           e.before = inserts[i].before, inserts' = [inserts EXCEPT ![i] = e],
           banked' \in {banked, Push(banked, inserts[i].before)},
           UNCHANGED <<mode, text, active, held>>
    PROVE  InsertInv'
<1>1. /\ inserts' \in Seq(Entries) /\ Len(inserts') = Len(inserts) /\ DOMAIN inserts' = DOMAIN inserts
      /\ inserts'[i] = e /\ \A j \in DOMAIN inserts : j # i => inserts'[j] = inserts[j]
  BY DEF InsertInv
<1>2. \A j \in DOMAIN inserts : inserts'[j].before = inserts[j].before
  BY <1>1
<1>3. inserts[i].before \in Text /\ WasHeld(inserts[i].before)
  <2>1. inserts[i] \in Entries
    BY DEF InsertInv
  <2>2. QED
    BY <2>1 DEF InsertInv, TextsAreHeld, Entries
<1>4. banked' \subseteq banked \cup {inserts[i].before}
  BY DEF Push
<1>5. TextsAreHeld'
  BY <1>1, <1>2, <1>3, <1>4 DEF InsertInv, TextsAreHeld, WasHeld
<1>6. \A j \in DOMAIN inserts' : EntryOK(inserts'[j])
  BY <1>1 DEF InsertInv
<1>7. ASSUME NEW j \in DOMAIN inserts', Waiting(inserts'[j]) PROVE LastAndNew(j)'
  <2>1. j # i /\ inserts'[j] = inserts[j] /\ LastAndNew(j)
    BY <1>1, <1>7 DEF InsertInv
  <2>2. QED
    BY <1>1, <1>2, <1>4, <2>1 DEF LastAndNew, Coding
<1>8. QED
  BY <1>1, <1>5, <1>6, <1>7 DEF InsertInv, EntryOK, Waiting

LEMMA ChangeHolds ==
    ASSUME InsertInv, NEW t \in Text, Change(t), banked' \in {banked, Push(banked, text[active])},
           \A i \in DOMAIN inserts' : \/ inserts'[i].before = text[active]
                                      \/ \E j \in DOMAIN inserts : inserts'[i].before = inserts[j].before
    PROVE  TextsAreHeld'
<1>1. /\ active' = active /\ text' = [text EXCEPT ![active] = t] /\ held' = held \cup {<<active, t>>}
      /\ active \in File /\ text \in [File -> Text]
  BY DEF Change, InsertInv, TextsAreHeld
<1>2. \A u : WasHeld(u) => WasHeld(u)'
  BY <1>1 DEF WasHeld
<1>3. WasHeld(text[active]) /\ text[active] \in Text
  BY <1>1 DEF InsertInv, TextsAreHeld, WasHeld
<1>4. \A f \in File : <<f, text'[f]>> \in held'
  BY <1>1 DEF InsertInv, TextsAreHeld
<1>5. banked' \subseteq banked \cup {text[active]}
  BY DEF Push
<1>6. \A i \in DOMAIN inserts' : WasHeld(inserts'[i].before)
  BY <1>3 DEF InsertInv, TextsAreHeld
<1>7. banked' \subseteq Text /\ \A u \in banked' : WasHeld(u)
  BY <1>3, <1>5 DEF InsertInv, TextsAreHeld
<1>8. QED
  BY <1>1, <1>2, <1>4, <1>6, <1>7 DEF TextsAreHeld

\* An insertion knows whether its text is the session's own.
LEMMA InsertOK ==
    ASSUME InsertInv, NEW t \in Text
    PROVE  /\ Insert(t) \in Entries /\ EntryOK(Insert(t))
           /\ Insert(t).action = "type" /\ Insert(t).text = t /\ Insert(t).before = text[active]
           /\ Waiting(Insert(t)) => ~WasHeld(t)
<1>1. text[active] \in Text
  BY DEF InsertInv, TextsAreHeld
<1>2. Insert(t) = [text |-> t, before |-> text[active], action |-> "type", provenance |-> None,
                   alerts |-> 0, pending |-> t \in Bulk, overtaken |-> FALSE, own |-> WasHeld(t)]
  BY DEF Insert, WasHeld
<1> DEFINE p == t \in Bulk
           o == WasHeld(t)
<1>3. p \in BOOLEAN /\ o \in BOOLEAN /\ (t \in Bulk => p = TRUE) /\ (o = FALSE => ~WasHeld(t))
  BY DEF WasHeld
<1> HIDE DEF p, o
<1>4. Insert(t) = [text |-> t, before |-> text[active], action |-> "type", provenance |-> None,
                   alerts |-> 0, pending |-> p, overtaken |-> FALSE, own |-> o]
  BY <1>2 DEF p, o
<1>5. QED
  BY <1>1, <1>3, <1>4 DEF Entries, EntryOK, Waiting

LEMMA TypeKeeps == ASSUME InsertInv, NEW t \in Text, Type(t) PROVE InsertInv'
<1>1. inserts' = Overtaken /\ banked' = banked /\ Change(t)
  BY DEF Type
<1>2. \A i \in DOMAIN inserts' : i \in DOMAIN inserts /\ inserts'[i].before = inserts[i].before
  BY <1>1, OvertakenOK DEF Overtaken
<1>3. QED
  BY <1>1, <1>2, ChangeHolds, NothingInserted

LEMMA PasteKeeps == ASSUME InsertInv, NEW t \in Text, Paste(t) PROVE InsertInv'
<1> DEFINE b == Insert(t)
           e == Attributed(b, banked', TRUE)
<1>1. Change(t) /\ banked' = Push(banked, text[active]) /\ inserts' = Append(Overtaken, e)
  BY DEF Paste
<1>2. Waiting(b) => t \notin banked'
  BY <1>1, InsertOK DEF Push, InsertInv, TextsAreHeld, WasHeld
<1>3. b \in Entries /\ EntryOK(b) /\ b.action = "type" /\ b.text = t /\ b.before = text[active]
  BY InsertOK
<1> HIDE DEF b
<1>4. e \in Entries /\ EntryOK(e) /\ e.action = "paste" /\ e.before = text[active]
  BY <1>2, <1>3, AttributedOK
<1> HIDE DEF e
<1>5. ~Waiting(e)
  BY <1>4 DEF Waiting
<1>6. ASSUME NEW i \in DOMAIN inserts'
      PROVE  \/ inserts'[i].before = text[active]
             \/ \E j \in DOMAIN inserts : inserts'[i].before = inserts[j].before
  <2>1. /\ Overtaken \in Seq(Entries) /\ Len(Overtaken) = Len(inserts)
        /\ Len(inserts) \in Nat /\ DOMAIN inserts = 1 .. Len(inserts)
    BY OvertakenOK DEF InsertInv
  <2>2. i \in 1 .. Len(inserts) \/ i = Len(inserts) + 1
    BY <1>1, <1>4, <2>1
  <2>3. CASE i \in 1 .. Len(inserts)
    BY <1>1, <1>4, <2>1, <2>3, OvertakenOK
  <2>4. CASE i = Len(inserts) + 1
    BY <1>1, <1>4, <2>1, <2>4
  <2>5. QED
    BY <2>2, <2>3, <2>4
<1>7. TextsAreHeld'
  BY <1>1, <1>6, ChangeHolds
<1>8. QED
  BY <1>1, <1>4, <1>5, <1>7, EntryAppended

LEMMA DropKeeps == ASSUME InsertInv, NEW t \in Text, Drop(t) PROVE InsertInv'
<1> DEFINE b == Insert(t)
<1>1. Change(t) /\ Coding' /\ banked' = banked /\ inserts' = Append(Overtaken, b)
  BY DEF Drop, Change, Coding
<1>2. b \in Entries /\ EntryOK(b) /\ b.text = t /\ b.before = text[active]
  BY InsertOK
<1>3. ASSUME Waiting(b)
      PROVE  /\ t \notin banked /\ text[active] # t
             /\ \A j \in DOMAIN inserts : inserts[j].before # t
  <2>1. ~WasHeld(t)
    BY <1>3, InsertOK
  <2>2. WasHeld(text[active])
    BY DEF InsertInv, TextsAreHeld, WasHeld
  <2>3. QED
    BY <2>1, <2>2 DEF InsertInv, TextsAreHeld
<1> HIDE DEF b
<1>4. ASSUME NEW i \in DOMAIN inserts'
      PROVE  \/ inserts'[i].before = text[active]
             \/ \E j \in DOMAIN inserts : inserts'[i].before = inserts[j].before
  <2>1. /\ Overtaken \in Seq(Entries) /\ Len(Overtaken) = Len(inserts)
        /\ Len(inserts) \in Nat /\ DOMAIN inserts = 1 .. Len(inserts)
    BY OvertakenOK DEF InsertInv
  <2>2. i \in 1 .. Len(inserts) \/ i = Len(inserts) + 1
    BY <1>1, <1>2, <2>1
  <2>3. CASE i \in 1 .. Len(inserts)
    BY <1>1, <1>2, <2>1, <2>3, OvertakenOK
  <2>4. CASE i = Len(inserts) + 1
    BY <1>1, <1>2, <2>1, <2>4
  <2>5. QED
    BY <2>2, <2>3, <2>4
<1>5. TextsAreHeld'
  BY <1>1, <1>4, ChangeHolds
<1>6. QED
  BY <1>1, <1>2, <1>3, <1>5, EntryAppended

LEMMA PromoteKeeps == ASSUME InsertInv, Promote PROVE InsertInv'
<1>1. PICK i \in DOMAIN inserts :
        /\ UNCHANGED editor
        /\ \/ /\ inserts[i].action = "paste"
              /\ inserts' = [inserts EXCEPT ![i].pending = FALSE]
              /\ UNCHANGED banked
           \/ /\ inserts[i].action # "paste"
              /\ banked' = Push(banked, inserts[i].before)
              /\ inserts' = [inserts EXCEPT ![i] =
                                [Attributed(@, banked', Coding) EXCEPT !.pending = FALSE]]
  BY DEF Promote
<1> DEFINE b == inserts[i]
<1>2. b \in Entries /\ EntryOK(b) /\ (Waiting(b) => LastAndNew(i))
  BY DEF InsertInv
<1>3. UNCHANGED <<mode, text, active, held>>
  BY <1>1 DEF editor
<1>4. CASE b.action = "paste"
  <2> DEFINE e == [b EXCEPT !.pending = FALSE]
  <2>1. inserts' = [inserts EXCEPT ![i] = e] /\ banked' = banked
    BY <1>1, <1>4
  <2> HIDE DEF b
  <2>2. /\ e \in Entries /\ e.action = "paste" /\ e.alerts = b.alerts /\ e.text = b.text
        /\ e.own = b.own /\ e.overtaken = b.overtaken /\ e.before = b.before
    BY <1>2, <1>4 DEF Entries
  <2> HIDE DEF e
  <2>3. EntryOK(e) /\ ~Waiting(e)
    BY <1>2, <1>4, <2>2 DEF EntryOK, Waiting
  <2>4. e.before = inserts[i].before
    BY <2>2 DEF b
  <2>5. QED
    BY <1>3, <2>1, <2>2, <2>3, <2>4, EntryReplaced
<1>5. CASE b.action # "paste"
  <2> DEFINE a == Attributed(b, banked', Coding)
             e == [a EXCEPT !.pending = FALSE]
  <2>1. inserts' = [inserts EXCEPT ![i] = e] /\ banked' = Push(banked, b.before)
    BY <1>1, <1>5
  <2>2. ASSUME Waiting(b) PROVE Coding /\ b.text \notin banked'
    BY <1>2, <2>1, <2>2 DEF LastAndNew, Push
  <2> HIDE DEF b
  <2>3. b.action = "type" /\ Coding \in BOOLEAN
    BY <1>2, <1>5 DEF Entries, Coding
  <2>4. a \in Entries /\ EntryOK(a) /\ a.action = "paste" /\ a.before = b.before
    BY <1>2, <2>2, <2>3, AttributedOK
  <2> HIDE DEF a
  <2>5. /\ e \in Entries /\ e.action = "paste" /\ e.alerts = a.alerts /\ e.text = a.text
        /\ e.own = a.own /\ e.overtaken = a.overtaken /\ e.before = a.before
    BY <2>4 DEF Entries
  <2> HIDE DEF e
  <2>6. EntryOK(e) /\ ~Waiting(e)
    BY <2>4, <2>5 DEF EntryOK, Waiting
  <2>7. e.before = inserts[i].before /\ banked' = Push(banked, inserts[i].before)
    BY <2>1, <2>4, <2>5 DEF b
  <2>8. QED
    BY <1>3, <2>1, <2>5, <2>6, <2>7, EntryReplaced
<1>6. QED
  BY <1>4, <1>5

LEMMA InsertStep == InsertInv /\ [Next]_vars => InsertInv'
<1> SUFFICES ASSUME InsertInv, [Next]_vars PROVE InsertInv'
  OBVIOUS
<1>1. CASE Flush \/ Submit
  <2>1. /\ UNCHANGED <<active, text, held>> /\ inserts' = Overtaken
        /\ banked' \subseteq banked \cup {text[active]}
    BY <1>1 DEF Flush, Submit, editor, Push
  <2>2. WasHeld(text[active]) /\ text[active] \in Text
    BY DEF InsertInv, TextsAreHeld, WasHeld
  <2>3. \A i \in DOMAIN inserts' : WasHeld(inserts'[i].before)
    BY <2>1, OvertakenOK DEF Overtaken, InsertInv, TextsAreHeld
  <2>4. TextsAreHeld'
    BY <2>1, <2>2, <2>3 DEF InsertInv, TextsAreHeld, WasHeld
  <2>5. QED
    BY <2>1, <2>4, NothingInserted
<1>2. CASE \/ Debounce \/ AuditCodeFiles \/ UNCHANGED vars
           \/ \E f \in File : SwitchTo(f)
           \/ \E c \in checks : CheckRead(c) \/ CheckAnswered(c) \/ CheckFails(c)
           \/ \E w \in Syllabus : SaveAllowlist(w)
  <2>1. active \in File
    BY DEF InsertInv, TextsAreHeld
  <2>2. UNCHANGED <<mode, text, held, inserts, banked>> /\ active' \in File
    BY <1>2, <2>1
    DEF Debounce, AuditCodeFiles, SwitchTo, CheckRead, CheckAnswered, CheckFails, SaveAllowlist,
        vars, editor, pasting
  <2>3. QED
    BY <2>2, NothingMoves
<1>3. QED
  BY <1>1, <1>2, TypeKeeps, PasteKeeps, DropKeeps, PromoteKeeps DEF Next

\* A bulk insertion is alerted at most once, and one of new text exactly once
\* unless something ran between a drop and its timer.
THEOREM BulkIsAlertedOnce == Spec => []BulkInsertAlertedOnce
<1>1. InsertInv => BulkInsertAlertedOnce
  <2> SUFFICES ASSUME InsertInv, NEW i \in DOMAIN inserts
               PROVE  /\ inserts[i].alerts <= 1
                      /\ inserts[i].text \in Bulk /\ ~inserts[i].own /\ ~inserts[i].pending
                           /\ ~inserts[i].overtaken =>
                             inserts[i].alerts = 1 /\ inserts[i].action = "paste"
    BY DEF BulkInsertAlertedOnce
  <2>1. inserts[i] \in Entries /\ EntryOK(inserts[i])
    BY DEF InsertInv
  <2> DEFINE b == inserts[i]
  <2> HIDE DEF b
  <2>2. b \in Entries => /\ b.own \in BOOLEAN /\ b.pending \in BOOLEAN
                         /\ b.overtaken \in BOOLEAN /\ b.action \in {"type", "paste"}
    BY DEF Entries
  <2>3. /\ inserts[i].own \in BOOLEAN /\ inserts[i].pending \in BOOLEAN
        /\ inserts[i].overtaken \in BOOLEAN /\ inserts[i].action \in {"type", "paste"}
    BY <2>1, <2>2 DEF b
  <2>4. QED
    BY <2>1, <2>3 DEF EntryOK
<1>2. QED
  BY <1>1, InsertStart, InsertStep, PTL DEF Spec

-----------------------------------------------------------------------------
(***************************************************************************)
(* Induction and recursion over the naturals, from the well-foundedness of *)
(* their order.                                                            *)
(***************************************************************************)
LEMMA LeastNat ==
    ASSUME NEW T, T \subseteq Nat, T # {}
    PROVE  \E n \in T : \A m \in T : n <= m
<1>1. PICK n \in T : \A m \in T : <<m, n>> \notin OpToRel(<, Nat)
  BY NatLessThanWellFounded, WFMin
<1>2. \A m \in T : ~(m < n)
  <2> SUFFICES ASSUME NEW m \in T, m < n PROVE FALSE
    OBVIOUS
  <2>1. <<m, n>> \in OpToRel(<, Nat)
    BY DEF OpToRel
  <2>2. QED
    BY <1>1, <2>1
<1>3. QED
  BY <1>2

LEMMA NatInd ==
    ASSUME NEW S, S \subseteq Nat, 0 \in S, \A n \in S : n + 1 \in S
    PROVE  S = Nat
<1> DEFINE T == Nat \ S
<1>1. SUFFICES ASSUME T # {} PROVE FALSE
  OBVIOUS
<1>2. PICK n \in T : \A m \in T : n <= m
  BY <1>1, LeastNat
<1>3. n # 0 /\ n - 1 \in Nat /\ n - 1 \notin T
  BY <1>2
<1>4. QED
  BY <1>3

\* A recursion that steps from i - 1 to i has a solution.
Solves(g, n, D, base, step) ==
    /\ g \in [0 .. n -> D] /\ g[0] = base
    /\ \A i \in 1 .. n : g[i] = step[<<i, g[i - 1]>>]

LEMMA Iterates ==
    ASSUME NEW n \in Nat, NEW D, NEW base \in D, NEW step \in [(1 .. n) \X D -> D]
    PROVE  \E g : Solves(g, n, D, base, step)
<1> DEFINE Sol(g, k) == Solves(g, k, D, base, step)
           S == {k \in Nat : k <= n => \E g : Sol(g, k)}
<1>1. 0 \in S
  <2>1. Sol([i \in 0 .. 0 |-> base], 0)
    BY DEF Solves
  <2> HIDE DEF Sol
  <2>2. QED
    BY <2>1
<1>2. ASSUME NEW k \in S PROVE k + 1 \in S
  <2> SUFFICES ASSUME k + 1 <= n PROVE \E g : Sol(g, k + 1)
    OBVIOUS
  <2>1. k \in Nat /\ k <= n
    OBVIOUS
  <2>2. PICK g : Sol(g, k)
    BY <2>1
  <2> DEFINE h == [i \in 0 .. (k + 1) |-> IF i = k + 1 THEN step[<<k + 1, g[k]>>] ELSE g[i]]
  <2>3. g[k] \in D /\ step[<<k + 1, g[k]>>] \in D
    BY <2>1, <2>2 DEF Solves
  <2>4. h \in [0 .. (k + 1) -> D] /\ h[0] = base
    BY <2>1, <2>2, <2>3 DEF Solves
  <2>5. ASSUME NEW i \in 1 .. (k + 1) PROVE h[i] = step[<<i, h[i - 1]>>]
    <3>1. i - 1 \in 0 .. k /\ h[i - 1] = g[i - 1]
      BY <2>1
    <3>2. CASE i = k + 1
      <4>1. h[k + 1] = step[<<k + 1, g[k]>>] /\ (k + 1) - 1 = k
        BY <2>1
      <4>2. QED
        BY <3>1, <3>2, <4>1
    <3>3. CASE i # k + 1
      <4>1. i \in 1 .. k /\ h[i] = g[i]
        BY <2>1, <3>3
      <4>2. QED
        BY <2>2, <3>1, <4>1 DEF Solves
    <3>4. QED
      BY <3>2, <3>3
  <2> HIDE DEF h
  <2>6. QED
    BY <2>4, <2>5 DEF Solves
<1>3. S = Nat
  <2> HIDE DEF S
  <2>1. S \subseteq Nat
    BY DEF S
  <2>2. QED
    BY <1>1, <1>2, <2>1, NatInd
<1>4. QED
  BY <1>3

(***************************************************************************)
(* What ValidateAST finds: exactly the constructs the walk reports.        *)
(***************************************************************************)
ViolationAt(program, i) == [type |-> program[i].type, line |-> program[i].line]

Reported(program, list) ==
    {i \in DOMAIN program : Reports(program[i], Walk(program, list)[i], list)}

LEMMA ToSetAppend ==
    ASSUME NEW S, NEW s \in Seq(S), NEW e \in S
    PROVE  Append(s, e) \in Seq(S) /\ ToSet(Append(s, e)) = ToSet(s) \cup {e}
<1>1. /\ Append(s, e) \in Seq(S) /\ DOMAIN s = 1 .. Len(s) /\ Len(s) \in Nat
      /\ DOMAIN Append(s, e) = 1 .. Len(s) + 1
      /\ Append(s, e)[Len(s) + 1] = e /\ \A i \in 1 .. Len(s) : Append(s, e)[i] = s[i]
  OBVIOUS
<1> DEFINE a == Append(s, e)
<1> HIDE DEF a
<1>2. \A i \in 1 .. Len(s) + 1 : i \in 1 .. Len(s) \/ i = Len(s) + 1
  BY <1>1
<1>3. Len(s) + 1 \in 1 .. Len(s) + 1 /\ 1 .. Len(s) \subseteq 1 .. Len(s) + 1
  BY <1>1
<1>4. ToSet(a) = ToSet(s) \cup {e}
  BY <1>1, <1>2, <1>3 DEF ToSet, a
<1>5. QED
  BY <1>1, <1>4 DEF a

LEMMA ValidateFound ==
    ASSUME NEW program, IsTree(program), NEW list
    PROVE  /\ ValidateAST(program, list) \in Seq(Violation)
           /\ ToSet(ValidateAST(program, list)) =
                 {ViolationAt(program, i) : i \in Reported(program, list)}
<1> DEFINE n == Len(program)
           D == Seq(Violation)
           visit == Walk(program, list)
           R(i) == Reports(program[i], visit[i], list)
           V(i) == ViolationAt(program, i)
           step == [p \in (1 .. n) \X D |-> IF R(p[1]) THEN Append(p[2], V(p[1])) ELSE p[2]]
<1>1. n \in Nat /\ DOMAIN program = 1 .. n /\ \A i \in 1 .. n : program[i] \in Node
  BY DEF IsTree
<1>2. \A i \in 1 .. n : V(i) \in Violation
  BY <1>1 DEF Node, Violation, ViolationAt
<1> HIDE DEF V, R, n
<1>3. step \in [(1 .. n) \X D -> D] /\ <<>> \in D
  BY <1>2
<1>4. PICK g : Solves(g, n, D, <<>>, step)
  <2>1. n \in Nat
    BY <1>1
  <2> HIDE DEF step, D, n
  <2>2. QED
    BY <1>3, <2>1, Iterates
<1>5. \A i \in 1 .. n : i - 1 \in 0 .. n /\ i # 0
  BY <1>1
<1>6. \A i \in 1 .. n : g[i] = IF R(i) THEN Append(g[i - 1], V(i)) ELSE g[i - 1]
  BY <1>4, <1>5 DEF Solves
<1> DEFINE F(f) == [i \in 0 .. n |->
                      IF i = 0 THEN <<>> ELSE IF R(i) THEN Append(f[i - 1], V(i)) ELSE f[i - 1]]
           found == CHOOSE f : f = F(f)
<1>7. g = F(g)
  <2>1. \A i \in 0 .. n : i = 0 \/ i \in 1 .. n
    BY <1>1
  <2>2. QED
    BY <1>4, <1>5, <1>6, <2>1 DEF Solves
<1>8. found = F(found)
  <2> HIDE DEF F
  <2>1. QED
    BY <1>7
<1>9. ValidateAST(program, list) = found[n]
  BY DEF ValidateAST, n, R, V, ViolationAt
<1> HIDE DEF found
<1> DEFINE S == {k \in Nat : k <= n =>
                   /\ found[k] \in D
                   /\ \A v : v \in ToSet(found[k]) <=> \E i \in 1 .. k : R(i) /\ v = V(i)}
<1>10. 0 \in S
  <2>1. found[0] = <<>>
    BY <1>1, <1>8
  <2>2. ToSet(<<>>) = {} /\ 1 .. 0 = {} /\ <<>> \in D
    BY <1>3 DEF ToSet
  <2>3. \A v : v \in ToSet(found[0]) <=> \E i \in 1 .. 0 : R(i) /\ v = V(i)
    BY <2>1, <2>2
  <2>4. QED
    BY <2>1, <2>2, <2>3
<1>11. ASSUME NEW k \in S PROVE k + 1 \in S
  <2> SUFFICES ASSUME k + 1 <= n
               PROVE  /\ found[k + 1] \in D
                      /\ \A v : v \in ToSet(found[k + 1]) <=>
                                  \E i \in 1 .. k + 1 : R(i) /\ v = V(i)
    OBVIOUS
  <2>1. k \in Nat /\ k <= n /\ k + 1 \in 0 .. n /\ k + 1 \in 1 .. n /\ k + 1 # 0 /\ (k + 1) - 1 = k
    BY <1>1
  <2>2. found[k + 1] = IF R(k + 1) THEN Append(found[k], V(k + 1)) ELSE found[k]
    BY <1>8, <2>1
  <2>3. /\ found[k] \in D
        /\ \A v : v \in ToSet(found[k]) <=> \E i \in 1 .. k : R(i) /\ v = V(i)
    BY <2>1
  <2>4. \A j : j \in 1 .. k + 1 <=> j \in 1 .. k \/ j = k + 1
    BY <2>1
  <2> HIDE DEF S
  <2>5. CASE R(k + 1)
    <3>1. V(k + 1) \in Violation
      BY <1>2, <2>1
    <3>2. found[k + 1] \in D /\ ToSet(found[k + 1]) = ToSet(found[k]) \cup {V(k + 1)}
      BY <2>2, <2>3, <2>5, <3>1, ToSetAppend
    <3>3. QED
      BY <2>3, <2>4, <2>5, <3>2
  <2>6. CASE ~R(k + 1)
    BY <2>2, <2>3, <2>4, <2>6
  <2>7. QED
    BY <2>5, <2>6
<1>12. S = Nat
  <2> HIDE DEF S
  <2>1. S \subseteq Nat
    BY DEF S
  <2>2. QED
    BY <1>10, <1>11, <2>1, NatInd
<1>13. n \in S
  BY <1>1, <1>12
<1>14. /\ found[n] \in D
       /\ \A v : v \in ToSet(found[n]) <=> \E i \in 1 .. n : R(i) /\ v = V(i)
  BY <1>1, <1>13
<1>15. Reported(program, list) = {j \in 1 .. n : R(j)}
  BY <1>1 DEF Reported, R
<1>16. ToSet(found[n]) = {V(i) : i \in Reported(program, list)}
  BY <1>14, <1>15
<1>17. QED
  BY <1>9, <1>14, <1>16 DEF V

(***************************************************************************)
(* The first violation found is the first one a summary names.             *)
(***************************************************************************)
LEMMA FirstIsNamed ==
    ASSUME NEW v \in Seq(Violation), v # <<>>
    PROVE  SummariseViolations(v).items[1] = v[1]
<1> DEFINE n == Len(v)
           D == Seq(Violation)
           step == [p \in (1 .. n) \X D |->
                      IF v[p[1]] \in ToSet(p[2]) THEN p[2] ELSE Append(p[2], v[p[1]])]
<1>1. n \in Nat /\ n # 0 /\ 1 \in 1 .. n /\ \A i \in 1 .. n : v[i] \in Violation
  BY EmptySeq
<1>3. step \in [(1 .. n) \X D -> D] /\ <<>> \in D
  BY <1>1
<1>4. PICK g : Solves(g, n, D, <<>>, step)
  <2>1. n \in Nat
    BY <1>1
  <2> HIDE DEF step, D, n
  <2>2. QED
    BY <1>3, <2>1, Iterates
<1>5. \A i \in 1 .. n : i - 1 \in 0 .. n /\ i # 0
  BY <1>1
<1>6. \A i \in 1 .. n :
        g[i] = IF v[i] \in ToSet(g[i - 1]) THEN g[i - 1] ELSE Append(g[i - 1], v[i])
  BY <1>4, <1>5 DEF Solves
<1> DEFINE F(f) == [i \in 0 .. n |->
                      IF i = 0 THEN <<>>
                      ELSE IF v[i] \in ToSet(f[i - 1]) THEN f[i - 1] ELSE Append(f[i - 1], v[i])]
           seen == CHOOSE f : f = F(f)
<1>2. Distinct(v) = seen[n]
  BY DEF Distinct
<1> HIDE DEF n
<1>7. g = F(g)
  <2>1. \A i \in 0 .. n : i = 0 \/ i \in 1 .. n
    BY <1>1
  <2>2. QED
    BY <1>4, <1>5, <1>6, <2>1 DEF Solves
<1>8. seen = F(seen)
  <2> HIDE DEF F
  <2>1. QED
    BY <1>7
<1> HIDE DEF seen
<1> DEFINE Starts(s) == s \in D /\ Len(s) >= 1 /\ s[1] = v[1]
           S == {k \in Nat : k + 1 <= n => Starts(seen[k + 1])}
<1>9. 0 \in S
  <2>1. 0 \in 0 .. n /\ 1 \in 0 .. n /\ 1 # 0 /\ 1 - 1 = 0 /\ 0 + 1 = 1
    BY <1>1
  <2>2. seen[0] = <<>>
    BY <1>8, <2>1
  <2>3. seen[1] = IF v[1] \in ToSet(seen[0]) THEN seen[0] ELSE Append(seen[0], v[1])
    BY <1>8, <2>1
  <2>4. v[1] \notin ToSet(<<>>)
    BY DEF ToSet
  <2>5. seen[1] = <<v[1]>>
    BY <1>1, <2>2, <2>3, <2>4
  <2>6. Starts(<<v[1]>>)
    BY <1>1
  <2> HIDE DEF Starts
  <2>7. QED
    BY <2>1, <2>5, <2>6
<1>10. ASSUME NEW k \in S PROVE k + 1 \in S
  <2> SUFFICES ASSUME (k + 1) + 1 <= n PROVE Starts(seen[(k + 1) + 1])
    OBVIOUS
  <2> DEFINE m == k + 1
  <2>1. /\ k \in Nat /\ m \in Nat /\ m <= n /\ m + 1 \in 0 .. n /\ m + 1 \in 1 .. n
        /\ m + 1 # 0 /\ (m + 1) - 1 = m
    BY <1>1
  <2>2. Starts(seen[m])
    BY <2>1
  <2> HIDE DEF S, m
  <2>3. seen[m + 1] = IF v[m + 1] \in ToSet(seen[m]) THEN seen[m] ELSE Append(seen[m], v[m + 1])
    BY <1>8, <2>1
  <2>4. v[m + 1] \in Violation
    BY <1>1, <2>1
  <2>5. Starts(Append(seen[m], v[m + 1]))
    BY <2>2, <2>4
  <2>6. QED
    BY <2>2, <2>3, <2>5 DEF m
<1>11. S = Nat
  <2> HIDE DEF S
  <2>1. S \subseteq Nat
    BY DEF S
  <2>2. QED
    BY <1>9, <1>10, <2>1, NatInd
<1>12. Starts(Distinct(v))
  <2>1. n - 1 \in Nat /\ (n - 1) + 1 = n
    BY <1>1
  <2>2. n - 1 \in S
    BY <1>11, <2>1
  <2>3. QED
    BY <1>1, <1>2, <2>1, <2>2
<1> DEFINE d == Distinct(v)
           shown == IF Len(d) < DetailLimit THEN Len(d) ELSE DetailLimit
<1>13. SummariseViolations(v).items = SubSeq(d, 1, shown)
  BY DEF SummariseViolations
<1> HIDE DEF d
<1>14. d \in D /\ Len(d) >= 1 /\ d[1] = v[1] /\ Len(d) \in Nat
  BY <1>12 DEF d
<1>15. shown \in Nat /\ 1 <= shown /\ shown <= Len(d)
  BY <1>14, AllowlistAssumption
<1> HIDE DEF shown
<1>16. SubSeq(d, 1, shown)[1] = d[1]
  BY <1>14, <1>15
<1>17. QED
  BY <1>13, <1>14, <1>16

-----------------------------------------------------------------------------
(***************************************************************************)
(* Whatever breaks the list in force is alerted.  Of every code file, the  *)
(* text it holds waits in the debounce (of the file in the editor alone:   *)
(* the one that is left is checked at once), or is being checked, or       *)
(* breaks nothing, or was alerted; and the signature that keeps a file     *)
(* from a second alert is that of an alert this file has had.              *)
(***************************************************************************)
InForce == ListOf(weeks, TRUE)

Found(t) == ValidateAST(Program[t], InForce)

HasAlert(f, v) == \E a \in alerts : a.file = f /\ a.summary.items[1] = v

Watched(f) ==
    \/ f = active /\ timer = [file |-> f, text |-> text[f]]
    \/ \E c \in checks : c.file = f /\ c.text = text[f]
    \/ text[f] = Blank
    \/ Found(text[f]) = <<>>
    \/ HasAlert(f, Found(text[f])[1])

OnOneList == Coding /\ faults = 0 /\ Cardinality(lists) = 1

SigOK ==
    /\ sig \in [File -> Violation \cup {None}]
    /\ \A f \in File : sig[f] # None => HasAlert(f, sig[f])

CheckOK(c) ==
    /\ c.file \in File
    /\ c.answer \in {"asked", "judged", "refused"}
    /\ c.answer = "refused" => c.text = Blank

StandInv ==
    /\ CheckInv
    /\ IsFiniteSet(lists)
    /\ SigOK
    /\ \A c \in checks : CheckOK(c)
    /\ OnOneList => \A f \in CodeFile : Watched(f)

LEMMA StandStart == Init => StandInv
<1> SUFFICES ASSUME Init PROVE StandInv
  OBVIOUS
<1>1. CheckInv
  BY CheckStart
<1>2. IsFiniteSet(lists)
  BY FS_Singleton DEF Init
<1>3. SigOK /\ checks = {} /\ \A f \in CodeFile : text[f] = Blank
  BY AlertsAssumption DEF Init, SigOK
<1>4. QED
  BY <1>1, <1>2, <1>3 DEF StandInv, Watched

\* No list is taken back, so that one list is the same as before.
LEMMA SameList ==
    ASSUME StandInv, EditorIsHeld', IsFiniteSet(lists'), lists \subseteq lists', Coding' => Coding,
           faults' = 0 => faults = 0, OnOneList'
    PROVE  OnOneList /\ InForce' = InForce
<1>1. PICK x : lists' = {x}
  BY FS_Singleton DEF OnOneList
<1>2. InForce \in lists /\ InForce' \in lists'
  BY DEF StandInv, CheckInv, EditorIsHeld, InForce
<1>3. lists = {x}
  BY <1>1, <1>2
<1>4. Cardinality(lists) = 1
  BY <1>3, FS_Singleton
<1>5. QED
  BY <1>1, <1>2, <1>3, <1>4 DEF OnOneList

\* A step that takes no alert back keeps the invariant when every file it
\* finds watched stays so.
LEMMA StaysWatched ==
    ASSUME StandInv, [Next]_vars, IsFiniteSet(lists'), lists \subseteq lists', Coding' => Coding,
           faults' = 0 => faults = 0, SigOK', \A c \in checks' : CheckOK(c),
           \A f \in CodeFile : OnOneList /\ OnOneList' /\ InForce' = InForce /\ Watched(f) => Watched(f)'
    PROVE  StandInv'
<1>1. CheckInv'
  BY CheckStep DEF StandInv
<1>2. OnOneList' => \A f \in CodeFile : Watched(f)'
  BY <1>1, SameList DEF StandInv, CheckInv
<1>3. QED
  BY <1>1, <1>2 DEF StandInv

\* What a step leaves of what the invariant speaks of.
LEMMA SigStays ==
    ASSUME SigOK, sig' = sig, alerts' = alerts
    PROVE  SigOK'
  BY DEF SigOK, HasAlert

LEMMA WatchedChange == ASSUME StandInv, [Next]_vars, NEW t \in Text, Change(t) PROVE StandInv'
<1>1. /\ active' = active /\ text' = [text EXCEPT ![active] = t] /\ active \in File
      /\ text \in [File -> Text]
      /\ timer' = IF active \in CodeFile THEN [file |-> active, text |-> t] ELSE None
      /\ UNCHANGED <<mode, checks, sig, alerts, weeks, lists, faults>>
  BY DEF Change, course, StandInv, CheckInv, EditorIsHeld
<1>2. SigOK' /\ \A c \in checks' : CheckOK(c)
  BY <1>1, SigStays DEF StandInv, CheckOK
<1>3. ASSUME NEW f \in CodeFile, Watched(f), InForce' = InForce PROVE Watched(f)'
  <2>1. CASE f = active
    BY <1>1, <2>1 DEF Watched
  <2>2. CASE f # active
    <3>1. text'[f] = text[f]
      BY <1>1, <2>2
    <3>2. QED
      BY <1>1, <1>3, <2>2, <3>1 DEF Watched, Found, HasAlert
  <2>3. QED
    BY <2>1, <2>2
<1>4. QED
  BY <1>1, <1>2, <1>3, StaysWatched DEF StandInv, Coding

\* A check that is started holds what it is started with.
LEMMA StartedHolds ==
    ASSUME NEW file, NEW t
    PROVE  /\ \A c \in Started(file, t) : CheckOK(c) /\ c.file = file /\ c.text = t
           /\ Coding /\ file \in CodeFile => \E c \in Started(file, t) : c.file = file /\ c.text = t
<1> DEFINE c == [n |-> 1 + Max({0} \cup {d.n : d \in checks}), file |-> file, text |-> t,
                 answer |-> "asked", found |-> <<>>]
<1>1. Started(file, t) = IF Coding /\ file \in CodeFile THEN {c} ELSE {}
  BY DEF Started
<1>2. c.file = file /\ c.text = t /\ c.answer = "asked"
  OBVIOUS
<1> HIDE DEF c
<1>3. file \in CodeFile => CheckOK(c)
  BY <1>2, AlertsAssumption DEF CheckOK
<1>4. QED
  BY <1>1, <1>2, <1>3

LEMMA WatchedStart ==
    ASSUME StandInv, [Next]_vars, Debounce \/ \E f \in File : SwitchTo(f)
    PROVE  StandInv'
<1>1. /\ UNCHANGED <<mode, text, sig, alerts, weeks, lists, faults>>
      /\ \/ /\ timer # None /\ timer' = None /\ active' = active
            /\ checks' = checks \cup Started(timer.file, timer.text)
         \/ /\ timer' = timer
            /\ checks' = checks \cup Started(active, text[active])
  BY DEF Debounce, SwitchTo, editor, course
<1>2. checks \subseteq checks' /\ \A c \in checks' : CheckOK(c)
  BY <1>1, StartedHolds DEF StandInv, CheckOK
<1>3. SigOK'
  BY <1>1, SigStays DEF StandInv
<1>4. ASSUME NEW f \in CodeFile, OnOneList, Watched(f), InForce' = InForce PROVE Watched(f)'
  <2>1. CASE f = active /\ timer = [file |-> f, text |-> text[f]]
    <3>1. Coding /\ timer.file = f /\ timer.text = text[f]
      BY <1>4, <2>1 DEF OnOneList
    <3>2. \E c \in checks' : c.file = f /\ c.text = text[f]
      BY <1>1, <2>1, <3>1, StartedHolds
    <3>3. QED
      BY <1>1, <3>2 DEF Watched
  <2>2. CASE ~(f = active /\ timer = [file |-> f, text |-> text[f]])
    BY <1>1, <1>2, <1>4, <2>2 DEF Watched, Found, HasAlert
  <2>3. QED
    BY <2>1, <2>2
<1>5. QED
  BY <1>1, <1>2, <1>3, <1>4, StaysWatched DEF StandInv, Coding

LEMMA WatchedRead ==
    ASSUME StandInv, [Next]_vars, NEW c \in checks, CheckRead(c)
    PROVE  StandInv'
<1>1. /\ UNCHANGED <<mode, active, text, timer, sig, alerts, weeks, lists>>
      /\ faults' = faults \/ Fault
  BY DEF CheckRead, editor, course
<1>2. CheckIsTrue(c) /\ CheckOK(c)
  BY DEF StandInv, CheckInv, ChecksAreTrue
<1>3. PICK d : /\ checks' = (checks \ {c}) \cup {d}
               /\ d.file = c.file /\ d.text = c.text
               /\ d.answer = "judged" \/ (d.answer = "refused" /\ c.text = Blank)
  <2>1. CASE c.text = Blank
    <3> DEFINE d == [c EXCEPT !.answer = "refused"]
    <3>1. checks' = (checks \ {c}) \cup {d}
      BY <2>1 DEF CheckRead
    <3>2. d.file = c.file /\ d.text = c.text /\ d.answer = "refused"
      BY <1>2 DEF CheckIsTrue
    <3>3. QED
      BY <2>1, <3>1, <3>2
  <2>2. CASE c.text # Blank
    <3>1. PICK v : checks' = (checks \ {c}) \cup {[c EXCEPT !.answer = "judged", !.found = v]}
      BY <2>2 DEF CheckRead
    <3> DEFINE d == [c EXCEPT !.answer = "judged", !.found = v]
    <3>2. d.file = c.file /\ d.text = c.text /\ d.answer = "judged"
      BY <1>2 DEF CheckIsTrue
    <3>3. QED
      BY <3>1, <3>2
  <2>3. QED
    BY <2>1, <2>2
<1>4. CheckOK(d) /\ \A e \in checks' : CheckOK(e)
  BY <1>2, <1>3 DEF CheckOK, StandInv
<1>5. SigOK'
  BY <1>1, SigStays DEF StandInv
<1>6. faults' = 0 => faults = 0
  BY <1>1 DEF Fault, StandInv, CheckInv, EditorIsHeld
<1>7. ASSUME NEW f \in CodeFile, Watched(f), InForce' = InForce PROVE Watched(f)'
  <2>1. CASE \E e \in checks : e.file = f /\ e.text = text[f]
    <3>1. PICK e \in checks : e.file = f /\ e.text = text[f]
      BY <2>1
    <3>2. \E h \in checks' : h.file = f /\ h.text = text[f]
      BY <1>3, <3>1
    <3>3. QED
      BY <1>1, <3>2 DEF Watched
  <2>2. CASE ~\E e \in checks : e.file = f /\ e.text = text[f]
    BY <1>1, <1>7, <2>2 DEF Watched, Found, HasAlert
  <2>3. QED
    BY <2>1, <2>2
<1>8. QED
  BY <1>1, <1>4, <1>5, <1>6, <1>7, StaysWatched DEF StandInv, Coding

\* An answer is alerted, or an alert of its file with its first violation is
\* there.
LEMMA AnswerAlerts ==
    ASSUME StandInv, NEW c \in checks, CheckAnswered(c)
    PROVE  /\ SigOK' /\ alerts \subseteq alerts'
           /\ c.answer = "judged" /\ c.found # <<>> => HasAlert(c.file, c.found[1])'
<1>1. CheckIsTrue(c) /\ CheckOK(c) /\ SigOK
  BY DEF StandInv, CheckInv, ChecksAreTrue
<1>2. CASE c.answer = "refused" \/ (c.answer = "judged" /\ c.found = <<>>)
  <2>1. alerts' = alerts /\ (sig' = sig \/ sig' = [sig EXCEPT ![c.file] = None])
    BY <1>2 DEF CheckAnswered
  <2>2. SigOK'
    BY <1>1, <2>1 DEF SigOK, HasAlert, CheckOK
  <2>3. QED
    BY <1>2, <2>1, <2>2
<1>3. CASE c.answer = "judged" /\ c.found # <<>>
  <2>1. sig' = [sig EXCEPT ![c.file] = c.found[1]] /\ alerts' = Alerted(c)
    BY <1>3 DEF CheckAnswered
  <2>2. PICK list : c.found = ValidateAST(Program[c.text], list)
    BY <1>1, <1>3 DEF CheckIsTrue, Judged
  <2>3. IsTree(Program[c.text])
    BY <1>1, <1>3, AlertsAssumption DEF CheckIsTrue
  <2>4. c.found \in Seq(Violation)
    BY <2>2, <2>3, ValidateFound
  <2>5. c.found[1] \in Violation /\ c.found[1] # None
    BY <1>3, <2>4, EmptySeq, AllowlistAssumption
  <2>6. alerts \subseteq alerts'
    BY <2>1 DEF Alerted
  <2>7. HasAlert(c.file, c.found[1])'
    <3>1. CASE sig[c.file] = c.found[1]
      BY <1>1, <2>5, <2>6, <3>1 DEF SigOK, HasAlert, CheckOK
    <3>2. CASE sig[c.file] # c.found[1]
      <4>1. AlertOf(c) \in alerts' /\ AlertOf(c).file = c.file
        BY <2>1, <3>2 DEF Alerted, AlertOf
      <4>2. AlertOf(c).summary.items[1] = c.found[1]
        BY <1>3, <2>4, FirstIsNamed DEF AlertOf
      <4>3. QED
        BY <4>1, <4>2 DEF HasAlert
    <3>3. QED
      BY <3>1, <3>2
  <2>8. SigOK'
    <3>1. sig' \in [File -> Violation \cup {None}]
      BY <1>1, <2>1, <2>5 DEF SigOK
    <3>2. ASSUME NEW f \in File, sig'[f] # None PROVE HasAlert(f, sig[f])'
      <4>1. CASE f = c.file
        <5>1. sig'[f] = c.found[1]
          BY <1>1, <2>1, <4>1 DEF SigOK
        <5>2. QED
          BY <2>7, <4>1, <5>1 DEF HasAlert
      <4>2. CASE f # c.file
        <5>1. sig'[f] = sig[f]
          BY <1>1, <2>1, <4>2 DEF SigOK
        <5>2. QED
          BY <1>1, <2>6, <3>2, <5>1 DEF SigOK, HasAlert
      <4>3. QED
        BY <4>1, <4>2
    <3>3. QED
      BY <3>1, <3>2 DEF SigOK, HasAlert
  <2>9. QED
    BY <2>6, <2>7, <2>8
<1>4. QED
  BY <1>2, <1>3 DEF CheckAnswered

LEMMA WatchedAnswer ==
    ASSUME StandInv, [Next]_vars, NEW c \in checks, CheckAnswered(c)
    PROVE  StandInv'
<1>1. /\ UNCHANGED <<mode, active, text, timer, weeks, lists, faults>>
      /\ checks' = checks \ {c} /\ c.answer # "asked"
  BY DEF CheckAnswered, editor, course
<1>2. CheckIsTrue(c) /\ CheckOK(c)
  BY DEF StandInv, CheckInv, ChecksAreTrue
<1>3. \A e \in checks' : CheckOK(e)
  BY <1>1 DEF CheckOK, StandInv
<1>4. SigOK' /\ alerts \subseteq alerts'
  BY AnswerAlerts
<1>5. ASSUME NEW f \in CodeFile, OnOneList, Watched(f), InForce' = InForce PROVE Watched(f)'
  <2>1. CASE c.file = f /\ c.text = text[f] /\ text[f] # Blank
    <3>1. c.answer = "judged"
      BY <1>1, <1>2, <2>1 DEF CheckOK
    <3>2. c.found = Found(text[f])
      <4>1. PICK list \in Judging : c.found = ValidateAST(Program[c.text], list)
        BY <1>2, <3>1 DEF CheckIsTrue, Judged
      <4>2. PICK x : lists = {x}
        BY <1>5, FS_Singleton DEF OnOneList, StandInv
      <4>3. Judging = {x} /\ InForce \in lists
        BY <1>5, <4>2 DEF Judging, OnOneList, InForce, StandInv, CheckInv, EditorIsHeld
      <4>4. QED
        BY <2>1, <4>1, <4>2, <4>3 DEF Found
    <3>3. Found(text[f])' = Found(text[f])
      BY <1>1, <1>5 DEF Found
    <3>4. CASE c.found = <<>>
      BY <3>2, <3>3, <3>4 DEF Watched
    <3>5. CASE c.found # <<>>
      <4>1. HasAlert(f, Found(text[f])[1])'
        BY <1>1, <2>1, <3>1, <3>2, <3>3, <3>5, AnswerAlerts
      <4>2. QED
        BY <3>3, <4>1 DEF Watched
    <3>6. QED
      BY <3>4, <3>5
  <2>2. CASE text[f] = Blank
    BY <1>1, <2>2 DEF Watched
  <2>3. CASE ~(c.file = f /\ c.text = text[f])
    BY <1>1, <1>4, <1>5, <2>3 DEF Watched, Found, HasAlert
  <2>4. QED
    BY <2>1, <2>2, <2>3
<1>6. QED
  BY <1>1, <1>3, <1>4, <1>5, StaysWatched DEF StandInv, Coding

LEMMA StandStep == StandInv /\ [Next]_vars => StandInv'
<1> SUFFICES ASSUME StandInv, [Next]_vars PROVE StandInv'
  OBVIOUS
<1>1. CASE \E t \in Text : Type(t) \/ Paste(t) \/ Drop(t)
  BY <1>1, WatchedChange DEF Type, Paste, Drop
<1>2. CASE Debounce \/ \E f \in File : SwitchTo(f)
  BY <1>2, WatchedStart
<1>3. CASE \E c \in checks : CheckRead(c) \/ CheckAnswered(c)
  BY <1>3, WatchedRead, WatchedAnswer
<1>4. CASE \/ Promote \/ Flush \/ UNCHANGED vars
           \/ \E w \in Syllabus : SaveAllowlist(w)
  <2>1. /\ UNCHANGED <<mode, active, text, timer, checks, sig, alerts, faults>>
        /\ lists' = lists \/ \E x : lists' = lists \cup {x}
    BY <1>4 DEF Promote, Flush, SaveAllowlist, editor, checking, course, vars
  <2>2. IsFiniteSet(lists') /\ lists \subseteq lists'
    BY <2>1, FS_AddElement DEF StandInv
  <2>3. SigOK' /\ \A c \in checks' : CheckOK(c)
    BY <2>1, SigStays DEF StandInv, CheckOK
  <2>4. \A f \in CodeFile : Watched(f) /\ InForce' = InForce => Watched(f)'
    BY <2>1 DEF Watched, Found, HasAlert
  <2>5. QED
    BY <2>1, <2>2, <2>3, <2>4, StaysWatched DEF Coding
<1>5. CASE \/ \E c \in checks : CheckFails(c)
           \/ Submit \/ AuditCodeFiles
  <2>1. /\ UNCHANGED <<alerts, lists>> /\ checks' \subseteq checks
        /\ sig' = sig \/ sig' = [f \in File |-> None]
        /\ Coding' => Coding
        /\ faults' = faults \/ Fault
    BY <1>5 DEF CheckFails, Submit, AuditCodeFiles, editor, checking, course, Coding
  <2>2. faults' = 0 => faults = 0
    BY <2>1 DEF Fault, StandInv, CheckInv, EditorIsHeld
  <2>3. ~OnOneList'
    BY <1>5 DEF CheckFails, Submit, AuditCodeFiles, editor, Coding, OnOneList, Fault, StandInv,
                CheckInv, EditorIsHeld
  <2>4. SigOK' /\ \A c \in checks' : CheckOK(c)
    BY <2>1 DEF SigOK, HasAlert, StandInv, CheckOK
  <2>5. IsFiniteSet(lists') /\ lists \subseteq lists'
    BY <2>1 DEF StandInv
  <2>6. QED
    BY <2>1, <2>2, <2>3, <2>4, <2>5, StaysWatched
<1>6. QED
  BY <1>1, <1>2, <1>3, <1>4, <1>5 DEF Next

\* While the exam runs on one list and no check has failed, once nothing is
\* pending every code file that breaks the list has had an alert that names it
\* and its first violation.
THEOREM ViolationsAreAlerted == Spec => []StandingViolationIsAlerted
<1>1. StandInv => StandingViolationIsAlerted
  <2> SUFFICES ASSUME StandInv, OnOneList, timer = None, checks = {}, NEW f \in CodeFile,
                      text[f] # Blank, Found(text[f]) # <<>>
               PROVE  HasAlert(f, Found(text[f])[1])
    BY DEF StandingViolationIsAlerted, OnOneList, Found, InForce, HasAlert
  <2>1. f \in File /\ text[f] \in Text
    BY AlertsAssumption DEF StandInv, CheckInv, EditorIsHeld
  <2>2. timer # [file |-> f, text |-> text[f]]
    BY <2>1, AlertsAssumption
  <2>3. QED
    BY <2>2 DEF StandInv, Watched
<1>2. QED
  BY <1>1, StandStart, StandStep, PTL DEF Spec

-----------------------------------------------------------------------------
(***************************************************************************)
(* The audit.  The walk hands down, parent by parent, what a node lies in; *)
(* in a tree whose subtrees stand together that is what stands around it.  *)
(***************************************************************************)
Broken(node) == node.type = "ERROR" \/ node.missing

Forbids(node, list) == node.named /\ node.type \notin list

LEMMA TreeFacts ==
    ASSUME NEW program, IsTree(program)
    PROVE  /\ Len(program) \in Nat /\ DOMAIN program = 1 .. Len(program)
           /\ \A k \in DOMAIN program : program[k].parent \in Nat /\ program[k].parent < k
<1>1. \A k \in DOMAIN program : program[k] \in Node /\ program[k].parent < k
  BY DEF IsTree
<1>2. \A k \in DOMAIN program : program[k].parent \in Nat
  BY <1>1 DEF Node
<1>3. Len(program) \in Nat /\ DOMAIN program = 1 .. Len(program)
  BY DEF IsTree
<1>4. QED
  BY <1>1, <1>2, <1>3

\* The walk is a recursion to earlier places, and has a solution.
LEMMA WalkSolves ==
    ASSUME NEW program, IsTree(program), NEW list, NEW i \in DOMAIN program
    PROVE  LET W == Walk(program, list)
               p == program[i].parent
           IN  /\ W[i].dropped <=> (p # 0 /\ W[p].dropped) \/ Broken(program[i])
               /\ W[i].inside <=> p # 0 /\ (W[p].inside \/ Forbids(program[p], list))
<1> DEFINE n == Len(program)
           par(k) == program[k].parent
           E(f, k) == [dropped |-> (par(k) # 0 /\ f[par(k)].dropped)
                                     \/ program[k].type = "ERROR" \/ program[k].missing,
                       inside  |-> par(k) # 0 /\ (f[par(k)].inside
                                     \/ (program[par(k)].named /\ program[par(k)].type \notin list))]
           F(f) == [k \in DOMAIN program |-> E(f, k)]
           from == CHOOSE f : f = F(f)
<1>1. /\ n \in Nat /\ DOMAIN program = 1 .. n
      /\ \A k \in 1 .. n : par(k) \in Nat /\ par(k) < k
  BY TreeFacts
<1>2. Walk(program, list) = from
  BY DEF Walk
<1> HIDE DEF n, par, from
<1> DEFINE Sol(g, m) == \A k \in 1 .. m : g[k] = E(g, k)
           S == {m \in Nat : m <= n => \E g : Sol(g, m)}
<1>3. 0 \in S
  OBVIOUS
<1>4. ASSUME NEW m \in S PROVE m + 1 \in S
  <2> SUFFICES ASSUME m + 1 <= n PROVE \E g : Sol(g, m + 1)
    <3> HIDE DEF Sol
    <3>1. QED
      OBVIOUS
  <2>1. m \in Nat /\ m <= n
    BY <1>1
  <2>2. PICK g : Sol(g, m)
    <3> HIDE DEF Sol
    <3>1. QED
      BY <2>1
  <2> DEFINE h == [k \in 1 .. m + 1 |-> IF k = m + 1 THEN E(g, k) ELSE g[k]]
  <2>3. ASSUME NEW k \in 1 .. m + 1 PROVE h[k] = E(h, k)
    <3>1. k \in 1 .. n /\ par(k) \in Nat /\ par(k) < k
      BY <1>1, <2>1
    <3>2. par(k) # 0 => h[par(k)] = g[par(k)]
      BY <2>1, <3>1
    <3>3. h[k] = E(g, k)
      <4>1. CASE k = m + 1
        BY <4>1
      <4>2. CASE k # m + 1
        <5>1. k \in 1 .. m /\ h[k] = g[k]
          BY <2>1, <4>2
        <5>2. QED
          BY <2>2, <5>1
      <4>3. QED
        BY <4>1, <4>2
    <3> HIDE DEF h
    <3>4. E(g, k) = E(h, k)
      <4>1. CASE par(k) = 0
        BY <4>1
      <4>2. CASE par(k) # 0
        BY <3>2, <4>2
      <4>3. QED
        BY <4>1, <4>2
    <3>5. QED
      BY <3>3, <3>4
  <2> HIDE DEF h, E
  <2>4. QED
    BY <2>3
<1>5. S = Nat
  <2> HIDE DEF S
  <2>1. S \subseteq Nat
    BY DEF S
  <2>2. QED
    BY <1>3, <1>4, <2>1, NatInd
<1>6. PICK g : Sol(g, n)
  <2> HIDE DEF Sol
  <2>1. n \in S
    BY <1>1, <1>5
  <2>2. QED
    BY <2>1
<1> DEFINE h == [k \in 1 .. n |-> g[k]]
<1>7. h = F(h)
  <2>1. ASSUME NEW k \in 1 .. n PROVE h[k] = E(h, k)
    <3>1. par(k) # 0 => h[par(k)] = g[par(k)]
      BY <1>1
    <3>2. h[k] = E(g, k)
      BY <1>6
    <3> HIDE DEF h
    <3>3. E(g, k) = E(h, k)
      <4>1. CASE par(k) = 0
        BY <4>1
      <4>2. CASE par(k) # 0
        BY <3>1, <4>2
      <4>3. QED
        BY <4>1, <4>2
    <3>4. QED
      BY <3>2, <3>3
  <2> HIDE DEF E
  <2>2. QED
    BY <1>1, <2>1
<1> HIDE DEF h
<1>8. from = F(from)
  <2> HIDE DEF F
  <2>1. QED
    BY <1>7 DEF from
<1>9. from[i] = E(from, i)
  <2> HIDE DEF E
  <2>1. QED
    BY <1>8
<1>10. /\ from[i].dropped = ((par(i) # 0 /\ from[par(i)].dropped)
                                 \/ program[i].type = "ERROR" \/ program[i].missing)
       /\ from[i].inside = (par(i) # 0 /\ (from[par(i)].inside
                                 \/ (program[par(i)].named /\ program[par(i)].type \notin list)))
  BY <1>9
<1>11. QED
  BY <1>2, <1>10 DEF par, Broken, Forbids

\* What a node stands in is its parent and what that stands in.
LEMMA WithinParent ==
    ASSUME NEW program, IsTree(program), NEW i \in DOMAIN program, NEW j \in DOMAIN program
    PROVE  LET p == program[i].parent
           IN  Within(program, i, j) <=> p # 0 /\ (j = p \/ Within(program, p, j))
<1> DEFINE p == program[i].parent
           n == Len(program)
           par(k) == program[k].parent
<1>1. /\ n \in Nat /\ DOMAIN program = 1 .. n /\ i \in 1 .. n /\ j \in 1 .. n
      /\ \A k \in 1 .. n : par(k) \in Nat /\ par(k) < k
      /\ \A k \in p + 1 .. i - 1 : par(k) >= p
      /\ p = par(i)
  BY TreeFacts DEF IsTree
<1> HIDE DEF n, p, par
<1>2. p \in Nat /\ p < i /\ (p # 0 => p \in 1 .. n)
  BY <1>1
<1>3. ASSUME j < i, \A k \in j + 1 .. i : par(k) >= j
      PROVE  p # 0 /\ (j = p \/ (j < p /\ \A k \in j + 1 .. p : par(k) >= j))
  <2>1. i \in j + 1 .. i
    BY <1>1, <1>3
  <2>2. p >= j
    BY <1>1, <1>3, <2>1
  <2>3. \A k \in j + 1 .. p : k \in j + 1 .. i
    BY <1>1, <1>2
  <2>4. QED
    BY <1>1, <1>2, <1>3, <2>2, <2>3
<1>4. ASSUME p # 0, j = p PROVE j < i /\ \A k \in j + 1 .. i : par(k) >= j
  <2>1. \A k \in j + 1 .. i : k \in p + 1 .. i - 1 \/ k = i
    BY <1>1, <1>2, <1>4
  <2>2. QED
    BY <1>1, <1>2, <1>4, <2>1
<1>5. ASSUME p # 0, j < p, \A k \in j + 1 .. p : par(k) >= j
      PROVE  j < i /\ \A k \in j + 1 .. i : par(k) >= j
  <2>1. \A k \in j + 1 .. i : \/ k \in j + 1 .. p
                              \/ k \in p + 1 .. i - 1
                              \/ k = i
    BY <1>1, <1>2
  <2>2. \A k \in p + 1 .. i - 1 : k \in 1 .. n /\ par(k) \in Nat /\ par(k) >= p
    BY <1>1, <1>2
  <2>3. ASSUME NEW k \in j + 1 .. i PROVE par(k) >= j
    <3>1. CASE k \in j + 1 .. p
      BY <1>5, <3>1
    <3>2. CASE k \in p + 1 .. i - 1
      BY <1>1, <1>2, <1>5, <2>2, <3>2
    <3>3. CASE k = i
      BY <1>1, <1>2, <1>5, <3>3
    <3>4. QED
      BY <2>1, <3>1, <3>2, <3>3
  <2>4. QED
    BY <1>1, <1>2, <1>5, <2>3
<1>6. QED
  BY <1>3, <1>4, <1>5 DEF Within, p, par

\* What the walk knows of a node is what stands around it.
LEMMA WalkKnows ==
    ASSUME NEW program, IsTree(program), NEW list, NEW i \in DOMAIN program
    PROVE  /\ Walk(program, list)[i].dropped <=>
                 \E j \in DOMAIN program : Broken(program[j]) /\ (i = j \/ Within(program, i, j))
           /\ Walk(program, list)[i].inside <=>
                 \E j \in DOMAIN program : Forbids(program[j], list) /\ Within(program, i, j)
<1> DEFINE D == DOMAIN program
           W == Walk(program, list)
           Torn(k) == \E j \in D : Broken(program[j]) /\ (k = j \/ Within(program, k, j))
           Under(k) == \E j \in D : Forbids(program[j], list) /\ Within(program, k, j)
           Known(k) == (W[k].dropped <=> Torn(k)) /\ (W[k].inside <=> Under(k))
           T == {k \in D : ~Known(k)}
<1>1. /\ D = 1 .. Len(program) /\ Len(program) \in Nat
      /\ \A k \in D : program[k].parent \in Nat /\ program[k].parent < k
  BY TreeFacts
<1>2. SUFFICES ASSUME T # {} PROVE FALSE
  OBVIOUS
<1>3. PICK k \in T : \A m \in T : k <= m
  <2>1. T \subseteq Nat
    BY <1>1
  <2> HIDE DEF T
  <2>2. QED
    BY <1>2, <2>1, LeastNat
<1> DEFINE p == program[k].parent
<1>4. k \in D /\ p \in Nat /\ p < k
  BY <1>1
<1>5. p # 0 => p \in D /\ Known(p)
  <2>1. p # 0 => p \in D
    BY <1>1, <1>4
  <2>2. p \notin T
    BY <1>1, <1>3, <1>4
  <2>3. QED
    BY <2>1, <2>2
<1>6. /\ W[k].dropped <=> (p # 0 /\ W[p].dropped) \/ Broken(program[k])
      /\ W[k].inside <=> p # 0 /\ (W[p].inside \/ Forbids(program[p], list))
  BY <1>4, WalkSolves
<1>7. \A j \in D : Within(program, k, j) <=> p # 0 /\ (j = p \/ Within(program, p, j))
  BY <1>4, WithinParent
<1> HIDE DEF W, p
<1>8. W[k].dropped <=> Torn(k)
  BY <1>4, <1>5, <1>6, <1>7
<1>9. W[k].inside <=> Under(k)
  BY <1>4, <1>5, <1>6, <1>7
<1>10. QED
  BY <1>3, <1>8, <1>9

\* What the audit judged is still there: the exam is over, the allowlist is
\* saved no more, and a lookup that failed has been counted.
AuditDone(found) ==
    audit = [list |-> ListOf(weeks, found),
             files |-> [f \in {g \in CodeFile : text[g] # Blank} |->
                           ValidateAST(Program[text[f]], ListOf(weeks, found))]]

AuditInv ==
    /\ CheckInv
    /\ weeks \in Syllabus
    /\ audit # None => ~Coding /\ \E found \in BOOLEAN : (~found => faults > 0) /\ AuditDone(found)

LEMMA AuditStep == AuditInv /\ [Next]_vars => AuditInv'
<1> SUFFICES ASSUME AuditInv, [Next]_vars PROVE AuditInv'
  OBVIOUS
<1>1. CheckInv' /\ faults \in Nat
  BY CheckStep DEF AuditInv, CheckInv, EditorIsHeld
<1>2. CASE \E t \in Text : Change(t)
  BY <1>1, <1>2 DEF Change, course, AuditInv
<1>3. CASE \E w \in Syllabus : SaveAllowlist(w)
  BY <1>1, <1>3 DEF SaveAllowlist, AuditInv
<1>4. CASE AuditCodeFiles
  <2>1. PICK found \in BOOLEAN :
          /\ IF found THEN UNCHANGED faults ELSE Fault
          /\ audit' = [list |-> ListOf(weeks, found),
                       files |-> [f \in {g \in CodeFile : text[g] # Blank} |->
                                     ValidateAST(Program[text[f]], ListOf(weeks, found))]]
    BY <1>4 DEF AuditCodeFiles
  <2>2. ~Coding /\ UNCHANGED <<mode, text, weeks>>
    BY <1>4 DEF AuditCodeFiles, editor
  <2>3. ~found => faults' > 0
    BY <1>1, <2>1 DEF Fault
  <2>4. AuditDone(found)'
    BY <2>1, <2>2 DEF AuditDone
  <2>5. QED
    BY <1>1, <2>2, <2>3, <2>4 DEF AuditInv, Coding
<1>5. CASE \/ Promote \/ Flush \/ Debounce \/ Submit \/ UNCHANGED vars
           \/ \E f \in File : SwitchTo(f)
           \/ \E c \in checks : CheckRead(c) \/ CheckAnswered(c) \/ CheckFails(c)
  <2>1. UNCHANGED <<text, weeks, audit>> /\ (Coding' => Coding)
    BY <1>5 DEF Promote, Flush, Debounce, Submit, SwitchTo, CheckRead, CheckAnswered, CheckFails,
                editor, course, vars, Coding
  <2>2. faults' = faults \/ Fault
    BY <1>5 DEF Promote, Flush, Debounce, Submit, SwitchTo, CheckRead, CheckAnswered, CheckFails,
                course, vars
  <2>3. faults > 0 => faults' > 0
    BY <1>1, <2>2 DEF Fault
  <2>4. \A found : AuditDone(found) => AuditDone(found)'
    BY <2>1 DEF AuditDone
  <2>5. QED
    BY <1>1, <2>1, <2>3, <2>4 DEF AuditInv
<1>6. QED
  BY <1>2, <1>3, <1>4, <1>5 DEF Next, Type, Paste, Drop

\* The latest week that is not after the assignment's.
LEMMA LatestWeek ==
    ASSUME NEW past, past \subseteq Nat, past # {}, \A w \in past : w <= Week
    PROVE  \E w \in past : \A v \in past : v <= w
<1> DEFINE T == {Week - w : w \in past}
<1>1. Week \in Nat
  BY AlertsAssumption
<1>2. T \subseteq Nat /\ T # {}
  BY <1>1
<1>3. PICK n \in T : \A m \in T : n <= m
  <2> HIDE DEF T
  <2>1. QED
    BY <1>2, LeastNat
<1>4. PICK w \in past : n = Week - w
  BY <1>3
<1>5. ASSUME NEW v \in past PROVE v <= w
  <2>1. Week - v \in T
    OBVIOUS
  <2>2. n <= Week - v
    BY <1>3, <2>1
  <2>3. v \in Nat /\ w \in Nat
    OBVIOUS
  <2>4. QED
    BY <1>1, <1>4, <2>2, <2>3
<1>6. QED
  BY <1>5

\* The list in force is the baseline and what the latest week brings.
WeeksList ==
    IF weeks = None THEN {}
    ELSE UNION {weeks[w] : w \in {v \in DOMAIN weeks : v <= Week /\
                                     \A u \in DOMAIN weeks : u <= Week => u <= v}}

LEMMA ListInForce ==
    ASSUME weeks \in Syllabus
    PROVE  ListOf(weeks, TRUE) = Baseline \cup WeeksList
<1>1. CASE weeks = None
  BY <1>1 DEF ListOf, ResolveAllowlistFor, WithBaseline, WeeksList
<1>2. CASE weeks # None
  <2> DEFINE past == {w \in DOMAIN weeks : w <= Week}
             last == CHOOSE w \in past : \A v \in past : v <= w
             latest == {v \in DOMAIN weeks : v <= Week /\ \A u \in DOMAIN weeks : u <= Week => u <= v}
  <2>1. DOMAIN weeks \subseteq Nat /\ \A n \in DOMAIN weeks : weeks[n] \subseteq NodeType
    BY <1>2, AlertsAssumption
  <2>2. ListOf(weeks, TRUE) = WithBaseline(IF past = {} THEN None ELSE weeks[last])
    BY <1>2 DEF ListOf, ResolveAllowlistFor, ResolveWeekAllowlist
  <2>3. WeeksList = UNION {weeks[w] : w \in latest}
    BY <1>2 DEF WeeksList
  <2>4. CASE past = {}
    <3>1. latest = {}
      BY <2>4
    <3> HIDE DEF latest
    <3>2. WeeksList = {}
      BY <2>3, <3>1
    <3>3. QED
      BY <2>2, <2>4, <3>2 DEF WithBaseline
  <2>5. CASE past # {}
    <3>1. last \in past /\ \A v \in past : v <= last
      <4>1. past \subseteq Nat /\ \A w \in past : w <= Week
        BY <2>1
      <4> HIDE DEF past
      <4>2. \E w \in past : \A v \in past : v <= w
        BY <2>5, <4>1, LatestWeek
      <4>3. QED
        BY <4>2
    <3> HIDE DEF last
    <3>2. last \in DOMAIN weeks /\ last \in latest
      BY <3>1
    <3>3. \A v \in latest : v \in past
      OBVIOUS
    <3>4. \A v \in latest : v = last
      <4> SUFFICES ASSUME NEW v \in latest PROVE v = last
        OBVIOUS
      <4>1. v <= last /\ last <= v /\ v \in Nat /\ last \in Nat
        BY <2>1, <3>1, <3>2, <3>3
      <4>2. QED
        BY <4>1
    <3> HIDE DEF latest
    <3>5. WeeksList = weeks[last]
      BY <2>3, <3>2, <3>4
    <3>6. weeks[last] # None
      BY <2>1, <3>2, AllowlistAssumption
    <3>7. QED
      BY <2>2, <2>5, <3>5, <3>6 DEF WithBaseline
  <2>6. QED
    BY <2>4, <2>5
<1>3. QED
  BY <1>1, <1>2

\* What the audit lists of a file is what stands in it outside the list.
LEMMA AuditOfFile ==
    ASSUME NEW program, IsTree(program), NEW list
    PROVE  LET forbidden == {i \in DOMAIN program : program[i].named /\ program[i].type \notin list}
               torn == {i \in DOMAIN program :
                            \E j \in DOMAIN program :
                                /\ program[j].type = "ERROR" \/ program[j].missing
                                /\ i = j \/ Within(program, i, j)}
               listed == {i \in forbidden \ torn :
                              \/ program[i].type \notin Structural
                              \/ ~\E j \in forbidden : Within(program, i, j)}
           IN  ToSet(ValidateAST(program, list)) =
                   {[type |-> program[i].type, line |-> program[i].line] : i \in listed}
<1> DEFINE forbidden == {i \in DOMAIN program : program[i].named /\ program[i].type \notin list}
           torn == {i \in DOMAIN program :
                        \E j \in DOMAIN program :
                            /\ program[j].type = "ERROR" \/ program[j].missing
                            /\ i = j \/ Within(program, i, j)}
           listed == {i \in forbidden \ torn :
                          \/ program[i].type \notin Structural
                          \/ ~\E j \in forbidden : Within(program, i, j)}
<1>1. ASSUME NEW i \in DOMAIN program PROVE i \in Reported(program, list) <=> i \in listed
  <2>1. Walk(program, list)[i].dropped <=> i \in torn
    BY WalkKnows DEF Broken
  <2>2. Walk(program, list)[i].inside <=> \E j \in forbidden : Within(program, i, j)
    BY WalkKnows DEF Forbids
  <2>3. i \in Reported(program, list) <=>
            /\ ~Walk(program, list)[i].dropped
            /\ i \in forbidden
            /\ ~Walk(program, list)[i].inside \/ program[i].type \notin Structural
    BY DEF Reported, Reports, IsSignificantConstruct
  <2> HIDE DEF forbidden, torn
  <2>4. QED
    BY <2>1, <2>2, <2>3
<1>2. Reported(program, list) = listed
  <2>1. Reported(program, list) \subseteq DOMAIN program /\ listed \subseteq DOMAIN program
    BY DEF Reported
  <2> HIDE DEF listed
  <2>2. QED
    BY <1>1, <2>1
<1> HIDE DEF listed
<1>3. ToSet(ValidateAST(program, list)) = {ViolationAt(program, i) : i \in listed}
  BY <1>2, ValidateFound
<1>4. QED
  BY <1>3 DEF ViolationAt, listed

\* The audit names exactly the constructs outside the baseline and the week's
\* list, however deep they stand and in whichever file.
THEOREM AuditIsComplete == Spec => []AuditListsEveryConstruct
<1>1. Init => AuditInv
  BY CheckStart DEF Init, AuditInv
<1>2. AuditInv => AuditListsEveryConstruct
  <2> SUFFICES ASSUME AuditInv, audit # None PROVE AuditListsEveryConstruct
    BY DEF AuditListsEveryConstruct
  <2>1. PICK found \in BOOLEAN : (~found => faults > 0) /\ AuditDone(found)
    BY DEF AuditInv
  <2> DEFINE list == ListOf(weeks, found)
             other == IF faults > 0 THEN audit.list ELSE WeeksList
  <2>2. list = Baseline \cup other
    <3>1. CASE faults > 0
      BY <2>1, <3>1 DEF AuditDone, ListOf, ResolveAllowlistFor, WithBaseline
    <3>2. CASE ~(faults > 0)
      <4>1. found = TRUE
        BY <2>1, <3>2
      <4>2. QED
        BY <3>2, <4>1, ListInForce DEF AuditInv
    <3>3. QED
      BY <3>1, <3>2
  <2>3. ASSUME NEW f \in CodeFile, text[f] # Blank
        PROVE  IsTree(Program[text[f]]) /\ audit.files[f] = ValidateAST(Program[text[f]], list)
    <3>1. text[f] \in Text \ {Blank}
      BY <2>3, AlertsAssumption DEF AuditInv, CheckInv, EditorIsHeld
    <3>2. QED
      BY <2>1, <2>3, <3>1, AlertsAssumption DEF AuditDone
  <2> HIDE DEF list, other
  <2>4. \A f \in CodeFile :
          LET program == Program[text[f]]
              forbidden == {i \in DOMAIN program :
                               program[i].named /\ program[i].type \notin Baseline \cup other}
              torn == {i \in DOMAIN program :
                          \E j \in DOMAIN program :
                              /\ program[j].type = "ERROR" \/ program[j].missing
                              /\ i = j \/ Within(program, i, j)}
              listed == {i \in forbidden \ torn :
                            \/ program[i].type \notin Structural
                            \/ ~\E j \in forbidden : Within(program, i, j)}
          IN  text[f] # Blank =>
                  ToSet(audit.files[f]) =
                      {[type |-> program[i].type, line |-> program[i].line] : i \in listed}
    BY <2>2, <2>3, AuditOfFile
  <2>5. QED
    BY <2>4 DEF AuditListsEveryConstruct, other, WeeksList
<1>3. QED
  BY <1>1, <1>2, AuditStep, PTL DEF Spec
=============================================================================
