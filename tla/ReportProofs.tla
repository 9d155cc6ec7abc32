----------------------------- MODULE ReportProofs -----------------------------
(***************************************************************************)
(* Proofs of AnswerStaysInItsTask, JudgmentShownIsSaved,                   *)
(* UnassessedNeverReadsClean, ReviewRunsWhatWasJudged, RunsAreCounted and  *)
(* PastedTaskCannotHide for any exam, any record, any number of runs,      *)
(* reloads, broken requests, reports and clicks.                           *)
(***************************************************************************)
EXTENDS Report, FiniteSetTheorems, SequenceTheorems, WellFoundedInduction, TLAPS

(***************************************************************************)
(* The consoles.  What keeps an answer in its task is that a page has at   *)
(* most one run under way, and that the console of its task announced it.  *)
(* What keeps the terminal right is that a run under way has three lines   *)
(* and a finished one at least five: whatever the screen held when a run   *)
(* starts is reset.                                                        *)
(***************************************************************************)
Current(r) == r.page = page

RunsAreTyped ==
    /\ page \in Nat
    /\ DOMAIN code \subseteq Task
    /\ DOMAIN console = Task
    /\ \A t \in Task : DOMAIN console[t] = {"run", "answer", "files"}
    /\ \A r \in requests :
          /\ DOMAIN r = {"run", "task", "page", "at", "ending"}
          /\ r.task \in Task
          /\ r.page \in Nat \cup {None}
          /\ r.page \in Nat => r.page <= page

OneRunPerPage == \A r, q \in requests : Current(r) /\ Current(q) => r = q

RunIsAnnounced == \A r \in requests : Current(r) => console[r.task].run = r.run

TasksKeepTheirs ==
    \A t \in Task :
        LET c == console[t]
        IN  /\ c.answer # None => c.answer.task = t /\ c.answer.run = c.run
            /\ c.files # None => c.files.task = t
            /\ c.files # None /\ c.answer # None => c.files = c.answer

ConsoleInv == RunsAreTyped /\ OneRunPerPage /\ RunIsAnnounced /\ TasksKeepTheirs

LEMMA ConsoleStart == Init => ConsoleInv
<1> SUFFICES ASSUME Init PROVE ConsoleInv
  OBVIOUS
<1>1. DOMAIN code \subseteq Task
  BY ReportAssumption DEF Init
<1>2. RunsAreTyped
  BY <1>1 DEF Init, ConsoleInit, RunsAreTyped, Blank
<1>3. QED
  BY <1>2 DEF Init, ConsoleInit, ConsoleInv, OneRunPerPage, RunIsAnnounced, TasksKeepTheirs,
              Blank

LEMMA ConsoleRun ==
    ASSUME ConsoleInv, NEW t \in DOMAIN code, Run(t)
    PROVE  ConsoleInv'
<1> DEFINE new == [run |-> asked', task |-> t, page |-> page, at |-> "sent", ending |-> None]
<1>1. /\ t \in Task /\ UNCHANGED <<page, code>> /\ requests' = requests \cup {new}
      /\ console' = [console EXCEPT ![t] = [Blank EXCEPT !.run = asked']]
      /\ ~IsRunning /\ page \in Nat /\ DOMAIN console = Task
  BY DEF ConsoleInv, RunsAreTyped, Run, StartRun, editing
<1>2. console'[t] = [run |-> asked', answer |-> None, files |-> None]
  BY <1>1 DEF Blank
<1>3. \A u \in Task : u # t => console'[u] = console[u]
  BY <1>1
<1>4. RunsAreTyped'
  BY <1>1, <1>2, <1>3 DEF ConsoleInv, RunsAreTyped
<1>5. \A r \in requests : ~Current(r)
  BY <1>1 DEF IsRunning, Current
<1>6. OneRunPerPage' /\ RunIsAnnounced'
  BY <1>1, <1>2, <1>5 DEF OneRunPerPage, RunIsAnnounced, Current
<1>7. TasksKeepTheirs'
  BY <1>1, <1>2, <1>3 DEF ConsoleInv, TasksKeepTheirs
<1>8. QED
  BY <1>4, <1>6, <1>7 DEF ConsoleInv

\* A request goes on at the server: the page, the task and the number of its
\* run stay, and it may disappear when nobody waits for it.
LEMMA ConsoleServes ==
    ASSUME ConsoleInv, NEW r \in requests, NEW next, Refresh(r, next),
           DOMAIN next = DOMAIN r, next.task = r.task, next.run = r.run, next.page = r.page,
           UNCHANGED <<console, page, code>>
    PROVE  ConsoleInv'
<1>1. requests' \subseteq (requests \ {r}) \cup {next}
  BY DEF Refresh
<1>2. RunsAreTyped'
  BY <1>1 DEF ConsoleInv, RunsAreTyped
<1>3. OneRunPerPage' /\ RunIsAnnounced'
  BY <1>1 DEF ConsoleInv, OneRunPerPage, RunIsAnnounced, Current
<1>4. QED
  BY <1>2, <1>3 DEF ConsoleInv, TasksKeepTheirs

LEMMA ConsoleWritten ==
    ASSUME NEW slice, DOMAIN slice = {"run", "answer", "files"}, NEW r, NEW ending, NEW lines
    PROVE  LET next == Written(slice, r, ending, lines)
           IN  /\ DOMAIN next = {"run", "answer", "files"}
               /\ next.run = slice.run
               /\ next.answer.task = r.task /\ next.answer.run = r.run
               /\ next.files # None => next.files = next.answer
  BY DEF Written, SelectWrittenFiles

\* The end of a run, answered or broken, in the console of its task.
LEMMA ConsoleEnds ==
    ASSUME ConsoleInv, NEW r \in requests, Current(r), NEW ending, NEW lines,
           console' = [console EXCEPT ![r.task] = Written(console[r.task], r, ending, lines)],
           UNCHANGED <<page, code>>,
           NEW left, requests' = (requests \ {r}) \cup left,
           \A q \in left : /\ DOMAIN q = DOMAIN r
                           /\ q.task \in Task /\ q.page = None
    PROVE  ConsoleInv'
<1>1. /\ r.task \in Task /\ console[r.task].run = r.run /\ DOMAIN console = Task
      /\ DOMAIN console[r.task] = {"run", "answer", "files"} /\ page \in Nat /\ page # None
  BY NoneIsNoNumber DEF ConsoleInv, RunsAreTyped, RunIsAnnounced
<1>2. console'[r.task] = Written(console[r.task], r, ending, lines)
  BY <1>1
<1>3. \A u \in Task : u # r.task => console'[u] = console[u]
  BY <1>1
<1>4. /\ DOMAIN console'[r.task] = {"run", "answer", "files"}
      /\ console'[r.task].run = r.run
      /\ console'[r.task].answer.task = r.task /\ console'[r.task].answer.run = r.run
      /\ console'[r.task].files # None => console'[r.task].files = console'[r.task].answer
  BY <1>1, <1>2, ConsoleWritten
<1>5. RunsAreTyped'
  BY <1>1, <1>3, <1>4, NoneIsNoNumber DEF ConsoleInv, RunsAreTyped
<1>6. \A q \in requests' : ~Current(q)'
  BY <1>1 DEF ConsoleInv, OneRunPerPage, Current
<1>7. TasksKeepTheirs'
  BY <1>1, <1>3, <1>4 DEF ConsoleInv, TasksKeepTheirs
<1>8. QED
  BY <1>5, <1>6, <1>7 DEF ConsoleInv, OneRunPerPage, RunIsAnnounced

LEMMA ConsoleRunStep == ASSUME ConsoleInv, active \in Task, RunStep PROVE ConsoleInv'
<1>0. UNCHANGED code
  BY DEF RunStep, editing
<1>1. ASSUME NEW r \in requests, Execute(r) PROVE ConsoleInv'
  <2> DEFINE next == [r EXCEPT !.at = "executed", !.ending = "ran"]
  <2>1. /\ DOMAIN next = DOMAIN r /\ next.task = r.task /\ next.run = r.run
        /\ next.page = r.page
    BY DEF ConsoleInv, RunsAreTyped
  <2>2. Refresh(r, next) /\ UNCHANGED <<console, page, code>>
    BY <1>0, <1>1 DEF Execute
  <2> HIDE DEF next
  <2>3. QED
    BY <2>1, <2>2, ConsoleServes
<1>2. ASSUME NEW r \in requests, NEW why \in Failures, Refuse(r, why) PROVE ConsoleInv'
  <2> DEFINE next == [r EXCEPT !.at = "done", !.ending = RunStatusOf(why)]
  <2>1. /\ DOMAIN next = DOMAIN r /\ next.task = r.task /\ next.run = r.run
        /\ next.page = r.page
    BY DEF ConsoleInv, RunsAreTyped
  <2>2. Refresh(r, next) /\ UNCHANGED <<console, page, code>>
    BY <1>0, <1>2 DEF Refuse
  <2> HIDE DEF next
  <2>3. QED
    BY <2>1, <2>2, ConsoleServes
<1>3. ASSUME NEW r \in requests, NEW times \in 0..3, CountRun(r, times) PROVE ConsoleInv'
  <2> DEFINE next == [r EXCEPT !.at = "done"]
  <2>1. /\ DOMAIN next = DOMAIN r /\ next.task = r.task /\ next.run = r.run
        /\ next.page = r.page
    BY DEF ConsoleInv, RunsAreTyped
  <2>2. Refresh(r, next) /\ UNCHANGED <<console, page, code>>
    BY <1>0, <1>3 DEF CountRun
  <2> HIDE DEF next
  <2>3. QED
    BY <2>1, <2>2, ConsoleServes
<1>4. ASSUME NEW r \in requests, Answer(r, results # None) PROVE ConsoleInv'
  <2> DEFINE left == {}
  <2>1. PICK lines \in Lines(r.ending) :
            console' = [console EXCEPT ![r.task] = Written(console[r.task], r, r.ending, lines)]
    BY <1>4 DEF Answer, ConsoleFor
  <2>3. requests' = (requests \ {r}) \cup left /\ UNCHANGED page /\ Current(r)
    BY <1>4 DEF Answer, ConsoleFor, Current
  <2>2. \A q \in left : DOMAIN q = DOMAIN r /\ q.task \in Task /\ q.page = None
    OBVIOUS
  <2> HIDE DEF left
  <2>4. QED
    BY <1>0, <2>1, <2>2, <2>3, ConsoleEnds
<1>5. ASSUME NEW r \in requests, BreakRun(r) PROVE ConsoleInv'
  <2> DEFINE left == IF r.at = "done" THEN {} ELSE {[r EXCEPT !.page = None]}
  <2>1. \A q \in left : DOMAIN q = DOMAIN r /\ q.task \in Task /\ q.page = None
    BY DEF ConsoleInv, RunsAreTyped
  <2>2. /\ requests' = (requests \ {r}) \cup left /\ UNCHANGED page /\ Current(r)
        /\ console' = [console EXCEPT ![r.task] = Written(console[r.task], r, "network error", 2)]
    BY <1>5 DEF BreakRun, ConsoleFor, Current
  <2> HIDE DEF left
  <2>3. QED
    BY <1>0, <2>1, <2>2, ConsoleEnds
<1>6. ASSUME Clear, active \in Task PROVE ConsoleInv'
  <2> DEFINE t == active
  <2>1. /\ t \in Task /\ DOMAIN console = Task /\ UNCHANGED <<page, requests>>
        /\ \A r \in requests : ~Current(r)
        /\ console' = [console EXCEPT ![t] = [Blank EXCEPT !.files = console[t].files]]
    BY <1>6 DEF ConsoleInv, RunsAreTyped, Clear, IsRunning, Current
  <2>2. console'[t] = [run |-> None, answer |-> None, files |-> console[t].files]
    BY <2>1 DEF Blank
  <2>3. \A u \in Task : u # t => console'[u] = console[u]
    BY <2>1
  <2>4. RunsAreTyped' /\ TasksKeepTheirs'
    BY <1>0, <2>1, <2>2, <2>3 DEF ConsoleInv, RunsAreTyped, TasksKeepTheirs
  <2>5. OneRunPerPage' /\ RunIsAnnounced'
    BY <2>1 DEF OneRunPerPage, RunIsAnnounced, Current
  <2>6. QED
    BY <2>4, <2>5 DEF ConsoleInv
<1>7. QED
  BY <1>1, <1>2, <1>3, <1>4, <1>5, <1>6 DEF RunStep

LEMMA ConsoleReload == ASSUME ConsoleInv, Reload PROVE ConsoleInv'
<1>1. /\ page' = page + 1 /\ console' = [t \in Task |-> Blank] /\ UNCHANGED <<requests, code>>
      /\ page \in Nat /\ None \notin Nat
  BY NoneIsNoNumber DEF ConsoleInv, RunsAreTyped, Reload, ReloadPage, editing
<1>2. \A r \in requests : ~Current(r)'
  BY <1>1 DEF ConsoleInv, RunsAreTyped, Current
<1>3. RunsAreTyped' /\ TasksKeepTheirs'
  BY <1>1 DEF ConsoleInv, RunsAreTyped, TasksKeepTheirs, Blank
<1>4. QED
  BY <1>1, <1>2, <1>3 DEF ConsoleInv, OneRunPerPage, RunIsAnnounced

\* Editing changes the files of a task, not the tasks there are.
LEMMA ConsoleEdit ==
    ASSUME ConsoleInv, UNCHANGED <<console, page, requests>>, DOMAIN code' = DOMAIN code
    PROVE  ConsoleInv'
  BY DEF ConsoleInv, RunsAreTyped, OneRunPerPage, RunIsAnnounced, Current, TasksKeepTheirs

LEMMA EditKeepsConsoles ==
    ASSUME NEW t, NEW files, NEW event, Edit(t, files, event)
    PROVE  UNCHANGED <<console, page, requests>> /\ DOMAIN code' = DOMAIN code
  BY DEF Edit, TurnTo

\* The steps of the report: they change none of the exam.
Judging ==
    \/ OpenReport \/ LoadRead \/ LoadAnswered
    \/ \E j \in Judgments : Click(j)
    \/ \E task \in Scopes : SelectScope(task)
    \/ PostWritten \/ PostAnswered \/ PostFails \/ OrphanWritten

LEMMA JudgingIsReviewing == Judging => Reviewing
  BY DEF Judging, OpenReport, LoadRead, LoadAnswered, Click, SelectScope, PostWritten,
         PostAnswered, PostFails, OrphanWritten

LEMMA ConsoleStep == ConsoleInv /\ active \in Task /\ [Next]_vars => ConsoleInv'
<1> SUFFICES ASSUME ConsoleInv, active \in Task, [Next]_vars PROVE ConsoleInv'
  OBVIOUS
<1>1. ASSUME NEW t \in DOMAIN code, NEW gap \in Gaps, Type(t, gap) PROVE ConsoleInv'
  BY <1>1, EditKeepsConsoles, ConsoleEdit DEF Type
<1>2. ASSUME NEW t \in DOMAIN code,
             \/ Complete(t) \/ Delete(t) \/ TypeData(t)
             \/ \E construct \in BOOLEAN : Paste(t, construct)
      PROVE  ConsoleInv'
  BY <1>2, EditKeepsConsoles, ConsoleEdit DEF Complete, Delete, TypeData, Paste
<1>3. CASE Flush \/ Post \/ Land \/ Analyse
  BY <1>3, ConsoleEdit DEF Flush, Post, Land, Analyse, editing, running, exec
<1>4. CASE Judging
  BY <1>4, ConsoleEdit, JudgingIsReviewing DEF Reviewing, editing, running, exec
<1>6. ASSUME NEW task, ReviewRun(task) PROVE ConsoleInv'
  BY <1>6, ConsoleEdit DEF ReviewRun, StartReview, editing, exec
<1>7. CASE ReviewRunEnds
  BY <1>7, ConsoleEdit DEF ReviewRunEnds, ReviewAnswered, ReviewRefused, editing, exec
<1>8. CASE UNCHANGED vars
  BY <1>8, ConsoleEdit DEF vars, exec
<1>9. QED
  BY <1>1, <1>2, <1>3, <1>4, <1>6, <1>7, <1>8, ConsoleRun, ConsoleRunStep,
     ConsoleReload DEF Next, Judging

(***************************************************************************)
(* The terminal: as many lines as the console on screen has, those of that *)
(* console unless the student turned to it.                                *)
(***************************************************************************)
Size(slice) == CASE slice.run = None -> 0
                 [] slice.run # None /\ slice.answer = None -> 3
                 [] OTHER -> 3 + slice.answer.lines

SlicesAreSized ==
    \A t \in Task :
        LET c == console[t]
        IN  /\ c.run \in Nat \cup {None}
            /\ c.answer # None => c.run # None /\ c.answer.lines \in Nat \ (0 .. 1)

RunsAreAwaited ==
    /\ asked \in Nat
    /\ \A r \in requests : r.run \in Nat /\ (Current(r) => console[r.task].answer = None)
    /\ \A t \in Task : console[t].run # None /\ console[t].answer = None =>
          \E r \in requests : Current(r) /\ r.task = t

ScreenIsSized == screen = [i \in 1 .. Size(console[active]) |-> screen[i]]

TerminalInv ==
    /\ active \in Task
    /\ SlicesAreSized /\ RunsAreAwaited /\ ScreenIsSized
    /\ ~turned => screen = Events(console[active])

LEMMA SizeIsLen ==
    ASSUME NEW n \in Nat, NEW f, f = [i \in 1 .. n |-> f[i]]
    PROVE  DOMAIN f = 1 .. n /\ Len(f) = n
<1>1. f \in [1 .. n -> {f[i] : i \in 1 .. n}]
  OBVIOUS
<1>2. f \in Seq({f[i] : i \in 1 .. n})
  BY <1>1, SeqDef
<1>3. DOMAIN f = 1 .. Len(f) /\ Len(f) \in Nat
  BY <1>2, LenProperties
<1>4. QED
  BY <1>1, <1>3

LEMMA SizeIsNat ==
    ASSUME SlicesAreSized, NEW t \in Task
    PROVE  /\ Size(console[t]) \in Nat
           /\ Size(console[t]) = 0 \/ Size(console[t]) = 3 \/ Size(console[t]) >= 5
           /\ console[t].run # None /\ console[t].answer # None => Size(console[t]) >= 5
<1>1. CASE console[t].run = None
  BY <1>1 DEF SlicesAreSized, Size
<1>2. CASE console[t].run # None /\ console[t].answer = None
  BY <1>2 DEF SlicesAreSized, Size
<1>3. CASE console[t].run # None /\ console[t].answer # None
  <2> DEFINE n == console[t].answer.lines
  <2>1. n \in Nat \ (0 .. 1)
    BY <1>3 DEF SlicesAreSized
  <2>2. Size(console[t]) = 3 + n
    BY <1>3 DEF Size
  <2> HIDE DEF n
  <2>3. QED
    BY <2>1, <2>2
<1>4. QED
  BY <1>1, <1>2, <1>3

LEMMA EventsAre ==
    ASSUME NEW c, Size(c) \in Nat
    PROVE  LET lines == Events(c)
           IN  /\ lines = [i \in 1 .. Size(c) |-> lines[i]]
               /\ \A i \in 1 .. Size(c) : lines[i] = IF i <= 3 THEN c.run ELSE c.answer.run
<1>1. Events(c) = [i \in 1 .. Size(c) |-> IF i <= 3 THEN c.run ELSE c.answer.run]
  BY DEF Events, Size
<1>2. QED
  BY <1>1

LEMMA TerminalShows ==
    ASSUME NEW c, NEW d, Size(c) \in Nat, Size(d) \in Nat,
           NEW shown, shown = [i \in 1 .. Size(c) |-> shown[i]]
    PROVE  LET next == Terminal(shown, Events(d))
           IN  /\ next = [i \in 1 .. Size(d) |-> next[i]]
               /\ Size(c) = Size(d) => next = shown
               /\ Size(c) > Size(d) \/ Size(c) = 0 => next = Events(d)
               /\ shown = Events(c) /\ Size(c) = 3 /\ Size(d) > 3 /\ c.run = d.run
                     => next = Events(d)
<1> DEFINE events == Events(d)
           n == Size(c)
           m == Size(d)
<1>1. /\ n \in Nat /\ m \in Nat
      /\ events = [i \in 1 .. m |-> events[i]]
      /\ \A i \in 1 .. m : events[i] = IF i <= 3 THEN d.run ELSE d.answer.run
  BY EventsAre
<1>2. shown = Events(c) => \A i \in 1 .. n : shown[i] = IF i <= 3 THEN c.run ELSE c.answer.run
  BY EventsAre
<1> HIDE DEF events, n, m
<1>3. DOMAIN events = 1 .. m /\ Len(events) = m
  BY <1>1, SizeIsLen
<1>4. shown = [i \in 1 .. n |-> shown[i]] /\ Len(shown) = n
  BY <1>1, SizeIsLen DEF n
<1> DEFINE next == Terminal(shown, events)
<1>5. next = [i \in 1 .. m |-> IF n <= m /\ i <= n THEN shown[i] ELSE events[i]]
  BY <1>3, <1>4 DEF Terminal
<1> HIDE DEF next
<1>6. next = [i \in 1 .. m |-> next[i]]
  BY <1>5
<1>7. n = m => next = shown
  BY <1>1, <1>4, <1>5
<1>8. n > m \/ n = 0 => next = events
  BY <1>1, <1>5
<1>9. shown = Events(c) /\ n = 3 /\ m > 3 /\ c.run = d.run => next = events
  <2> SUFFICES ASSUME shown = Events(c), n = 3, m > 3, c.run = d.run PROVE next = events
    OBVIOUS
  <2>1. \A i \in 1 .. m : next[i] = events[i]
    BY <1>1, <1>2, <1>5
  <2>2. QED
    BY <1>1, <1>6, <2>1
<1>10. QED
  BY <1>6, <1>7, <1>8, <1>9 DEF next, events, n, m

LEMMA TerminalStart == Init => TerminalInv
<1> SUFFICES ASSUME Init PROVE TerminalInv
  OBVIOUS
<1>1. PICK exam \in Exams : code = [t \in exam |-> NoFiles]
  BY DEF Init
<1>2. DefaultTask \in Task
  BY <1>1, ReportAssumption
<1>3. /\ console = [t \in Task |-> Blank] /\ requests = {} /\ asked = 0
      /\ active = DefaultTask /\ screen = <<>>
  BY DEF Init, ConsoleInit
<1>4. \A t \in Task : console[t].run = None /\ console[t].answer = None
  BY <1>3 DEF Blank
<1>5. Size(console[active]) = 0
  BY <1>2, <1>3, <1>4 DEF Size
<1>6. screen = [i \in 1 .. 0 |-> screen[i]] /\ screen = Events(console[active])
  <2>1. Events(console[active]) = [i \in 1 .. Size(console[active]) |-> Events(console[active])[i]]
    BY <1>5, EventsAre
  <2>2. DOMAIN Events(console[active]) = {} /\ DOMAIN screen = {} /\ 1 .. 0 = {}
    BY <1>3, <1>5, <2>1
  <2>3. Events(console[active]) = <<>>
    BY <1>5, <2>1
  <2>4. QED
    BY <1>3, <2>3
<1>7. QED
  BY <1>2, <1>3, <1>4, <1>5, <1>6 DEF TerminalInv, SlicesAreSized, RunsAreAwaited, ScreenIsSized

\* The consoles and the requests stay; the student may have turned to a task.
LEMMA TerminalTurn ==
    ASSUME TerminalInv, NEW t \in Task, TurnTo(t)
    PROVE  TerminalInv'
<1>1. /\ active' = t /\ screen' = Terminal(screen, Events(console[t]))
      /\ turned' = (turned \/ t # active) /\ UNCHANGED <<console, page, requests, asked>>
  BY DEF TurnTo
<1>2. Size(console[active]) \in Nat /\ Size(console[t]) \in Nat
  BY SizeIsNat DEF TerminalInv
<1>3. screen = [i \in 1 .. Size(console[active]) |-> screen[i]]
  BY DEF TerminalInv, ScreenIsSized
<1>4. /\ screen' = [i \in 1 .. Size(console[t]) |-> screen'[i]]
      /\ Size(console[active]) = Size(console[t]) => screen' = screen
  <2> DEFINE c == console[active]
             d == console[t]
  <2>1. /\ Size(c) \in Nat /\ Size(d) \in Nat /\ screen = [i \in 1 .. Size(c) |-> screen[i]]
        /\ screen' = Terminal(screen, Events(d))
    BY <1>1, <1>2, <1>3
  <2> HIDE DEF c, d
  <2>2. /\ screen' = [i \in 1 .. Size(d) |-> screen'[i]]
        /\ Size(c) = Size(d) => screen' = screen
    BY <2>1, TerminalShows
  <2>3. QED
    BY <2>2 DEF c, d
<1>5. ~turned' => screen' = Events(console[t])
  <2>1. ~turned' => t = active /\ ~turned
    BY <1>1
  <2>2. QED
    BY <1>4, <2>1 DEF TerminalInv
<1>6. SlicesAreSized' /\ RunsAreAwaited'
  BY <1>1 DEF TerminalInv, SlicesAreSized, RunsAreAwaited, Current
<1>7. QED
  BY <1>1, <1>4, <1>5, <1>6 DEF TerminalInv, ScreenIsSized

LEMMA TerminalRun ==
    ASSUME ConsoleInv, TerminalInv, NEW t \in DOMAIN code, Run(t)
    PROVE  TerminalInv'
<1> DEFINE new == [run |-> asked', task |-> t, page |-> page, at |-> "sent", ending |-> None]
           between == Terminal(screen, Events(console[t]))
<1>1. /\ t \in Task /\ UNCHANGED page /\ requests' = requests \cup {new} /\ asked' = asked + 1
      /\ console' = [console EXCEPT ![t] = [Blank EXCEPT !.run = asked']]
      /\ DOMAIN console = Task /\ asked \in Nat /\ active' = t /\ active \in Task
      /\ screen' = Terminal(between, Events(console'[t]))
  BY DEF ConsoleInv, RunsAreTyped, TerminalInv, RunsAreAwaited, Run, StartRun
<1>2. \A r \in requests : ~Current(r)
  BY DEF Run, StartRun, IsRunning, Current
<1>3. console'[t] = [run |-> asked', answer |-> None, files |-> None]
  BY <1>1 DEF Blank
<1>4. \A u \in Task : u # t => console'[u] = console[u]
  BY <1>1
<1>5. asked' \in Nat /\ asked' # None /\ Size(console'[t]) = 3
  BY <1>1, <1>3, NoneIsNoNumber DEF Size
<1>6. Size(console[t]) \in Nat /\ (Size(console[t]) = 0 \/ Size(console[t]) >= 5)
  <2>1. ~(console[t].run # None /\ console[t].answer = None)
    BY <1>1, <1>2 DEF TerminalInv, RunsAreAwaited
  <2>2. CASE console[t].run = None
    BY <2>2 DEF Size
  <2>3. CASE console[t].run # None /\ console[t].answer # None
    BY <1>1, <2>3, SizeIsNat DEF TerminalInv
  <2>4. QED
    BY <2>1, <2>2, <2>3
<1>7. between = [i \in 1 .. Size(console[t]) |-> between[i]]
  <2>1. Size(console[active]) \in Nat
    BY <1>1, SizeIsNat DEF TerminalInv
  <2>2. screen = [i \in 1 .. Size(console[active]) |-> screen[i]]
    BY DEF TerminalInv, ScreenIsSized
  <2>3. QED
    BY <1>6, <2>1, <2>2, TerminalShows
<1> HIDE DEF between
<1>8. /\ screen' = [i \in 1 .. Size(console'[t]) |-> screen'[i]]
      /\ screen' = Events(console'[t])
  <2>1. Size(console'[t]) \in Nat
    BY <1>5
  <2>2. Size(console[t]) > Size(console'[t]) \/ Size(console[t]) = 0
    BY <1>5, <1>6
  <2>3. QED
    BY <1>1, <1>6, <1>7, <2>1, <2>2, TerminalShows
<1>9. SlicesAreSized'
  BY <1>1, <1>3, <1>4, <1>5 DEF TerminalInv, SlicesAreSized
<1>10. RunsAreAwaited'
  <2>1. new \in requests' /\ new.run = asked' /\ new.task = t /\ new.page = page
    BY <1>1
  <2> HIDE DEF new
  <2>2. \A r \in requests' : r.run \in Nat /\ (Current(r)' => console'[r.task].answer = None)
    BY <1>1, <1>2, <1>3, <1>5, <2>1 DEF TerminalInv, RunsAreAwaited, Current
  <2>3. \A u \in Task : console'[u].run # None /\ console'[u].answer = None =>
            \E r \in requests' : Current(r)' /\ r.task = u
    BY <1>1, <1>2, <1>4, <2>1 DEF TerminalInv, RunsAreAwaited, Current
  <2>4. QED
    BY <1>5, <2>2, <2>3 DEF RunsAreAwaited
<1>11. QED
  BY <1>1, <1>8, <1>9, <1>10 DEF TerminalInv, ScreenIsSized

\* A request goes on at the server.
LEMMA TerminalServes ==
    ASSUME TerminalInv, NEW r \in requests, NEW next, Refresh(r, next),
           next.task = r.task, next.run = r.run, next.page = r.page,
           UNCHANGED <<console, active, screen, turned, page, asked>>
    PROVE  TerminalInv'
<1>1. \/ requests' = (requests \ {r}) \cup {next}
      \/ requests' = requests \ {r} /\ ~Current(r)
  BY DEF Refresh, Nobody, Current
<1>2. RunsAreAwaited'
  BY <1>1 DEF TerminalInv, RunsAreAwaited, Current
<1>3. QED
  BY <1>2 DEF TerminalInv, SlicesAreSized, ScreenIsSized

\* The end of a run, in the console of its task.
LEMMA TerminalEnds ==
    ASSUME ConsoleInv, TerminalInv, NEW r \in requests, Current(r), NEW ending,
           NEW lines \in Nat \ (0 .. 1),
           console' = [console EXCEPT ![r.task] = Written(console[r.task], r, ending, lines)],
           Repaint, UNCHANGED <<turned, page, asked>>,
           NEW left, requests' = (requests \ {r}) \cup left,
           \A q \in left : q.run = r.run /\ q.page = None
    PROVE  TerminalInv'
<1> DEFINE k == r.task
<1>1. /\ k \in Task /\ console[k].run = r.run /\ console[k].answer = None /\ r.run \in Nat
      /\ DOMAIN console = Task /\ DOMAIN console[k] = {"run", "answer", "files"}
      /\ page \in Nat /\ page # None /\ active \in Task /\ r.run # None
  BY NoneIsNoNumber DEF ConsoleInv, RunsAreTyped, RunIsAnnounced, TerminalInv, RunsAreAwaited
<1>2. /\ console'[k] = Written(console[k], r, ending, lines)
      /\ \A u \in Task : u # k => console'[u] = console[u]
  BY <1>1
<1>3. console'[k].run = r.run /\ console'[k].answer.run = r.run /\ console'[k].answer.lines = lines
  BY <1>1, <1>2 DEF Written
<1>4. console'[k].answer # None => Size(console'[k]) = 3 + lines
  BY <1>1, <1>3 DEF Size
<1>5. SlicesAreSized'
  BY <1>1, <1>2, <1>3 DEF TerminalInv, SlicesAreSized
<1>6. \A q \in requests' : ~Current(q)'
  BY <1>1 DEF ConsoleInv, OneRunPerPage, Current
<1>7. console'[k].answer # None
  <2> DEFINE answer == [run |-> r.run, task |-> k, status |-> RunStatusOf(ending),
                        lines |-> lines]
  <2>1. console'[k].answer = answer
    BY <1>1, <1>2 DEF Written
  <2>2. RunStatusOf(ending) \in {"ran", "network error", "rejected"}
    BY DEF RunStatusOf
  <2>3. answer \in Answers
    BY <1>1, <2>2 DEF Answers
  <2> HIDE DEF answer
  <2>4. QED
    BY <2>1, <2>3, ConsoleAssumption
<1>8. RunsAreAwaited'
  <2>1. \A q \in requests' : q.run \in Nat
    BY <1>1 DEF TerminalInv, RunsAreAwaited
  <2>2. ASSUME NEW u \in Task, console'[u].run # None, console'[u].answer = None PROVE FALSE
    <3>1. u # k /\ console[u].run # None /\ console[u].answer = None
      BY <1>2, <1>7, <2>2
    <3>2. PICK q \in requests : Current(q) /\ q.task = u
      BY <3>1 DEF TerminalInv, RunsAreAwaited
    <3>3. QED
      BY <3>1, <3>2 DEF ConsoleInv, OneRunPerPage
  <2>3. QED
    BY <1>6, <2>1, <2>2 DEF TerminalInv, RunsAreAwaited
<1>9. /\ screen' = [i \in 1 .. Size(console'[active]) |-> screen'[i]]
      /\ ~turned => screen' = Events(console'[active])
  <2>1. Size(console[active]) \in Nat /\ Size(console'[active]) \in Nat
    <3>1. Size(console[active]) \in Nat
      BY <1>1, SizeIsNat DEF TerminalInv
    <3>2. CASE active = k
      BY <1>4, <1>7, <3>1, <3>2
    <3>3. CASE active # k
      BY <1>1, <1>2, <3>1, <3>3
    <3>4. QED
      BY <3>1, <3>2, <3>3
  <2>2. /\ screen' = Terminal(screen, Events(console'[active]))
        /\ screen = [i \in 1 .. Size(console[active]) |-> screen[i]]
        /\ ~turned => screen = Events(console[active])
    BY DEF Repaint, TerminalInv, ScreenIsSized
  <2>3. /\ screen' = [i \in 1 .. Size(console'[active]) |-> screen'[i]]
        /\ Size(console[active]) = Size(console'[active]) => screen' = screen
        /\ screen = Events(console[active]) /\ Size(console[active]) = 3
             /\ Size(console'[active]) > 3 /\ console[active].run = console'[active].run
                => screen' = Events(console'[active])
    <3>0. PICK c, d : c = console[active] /\ d = console'[active]
      OBVIOUS
    <3>1. /\ Size(c) \in Nat /\ Size(d) \in Nat /\ screen = [i \in 1 .. Size(c) |-> screen[i]]
          /\ screen' = Terminal(screen, Events(d))
      BY <2>1, <2>2, <3>0
    <3> DEFINE next == Terminal(screen, Events(d))
    <3>2. /\ next = [i \in 1 .. Size(d) |-> next[i]]
          /\ Size(c) = Size(d) => next = screen
          /\ screen = Events(c) /\ Size(c) = 3 /\ Size(d) > 3 /\ c.run = d.run
                => next = Events(d)
      BY <3>1, TerminalShows
    <3>4. next = screen'
      BY <3>1
    <3> HIDE DEF next
    <3>3. QED
      BY <3>0, <3>2, <3>4
  <2>4. CASE active = k
    <3>1. Size(console[k]) = 3
      BY <1>1 DEF Size
    <3>2. Size(console'[k]) > 3
      BY <1>4, <1>7
    <3>3. QED
      BY <1>1, <1>3, <2>2, <2>3, <2>4, <3>1, <3>2
  <2>5. CASE active # k
    <3>1. console'[active] = console[active]
      BY <1>1, <1>2, <2>5
    <3>2. QED
      BY <2>2, <2>3, <3>1
  <2>6. QED
    BY <2>3, <2>4, <2>5
<1>10. QED
  BY <1>1, <1>5, <1>8, <1>9 DEF TerminalInv, ScreenIsSized, Repaint

LEMMA TerminalClear == ASSUME ConsoleInv, TerminalInv, Clear PROVE TerminalInv'
<1>1. /\ active \in Task /\ DOMAIN console = Task /\ UNCHANGED <<page, requests, asked, active>>
      /\ console' = [console EXCEPT ![active] = [Blank EXCEPT !.files = console[active].files]]
      /\ screen' = Terminal(screen, Events(console'[active]))
  BY DEF ConsoleInv, RunsAreTyped, TerminalInv, Clear, Repaint
<1>2. \A r \in requests : ~Current(r)
  BY DEF Clear, IsRunning, Current
<1>3. console'[active] = [run |-> None, answer |-> None, files |-> console[active].files]
  BY <1>1 DEF Blank
<1>4. \A u \in Task : u # active => console'[u] = console[u]
  BY <1>1
<1>5. Size(console'[active]) = 0
  BY <1>3 DEF Size
<1>6. /\ screen' = [i \in 1 .. Size(console'[active]) |-> screen'[i]]
      /\ screen' = Events(console'[active])
  <2>1. Size(console[active]) \in Nat /\ Size(console'[active]) \in Nat
    BY <1>1, <1>5, SizeIsNat DEF TerminalInv
  <2>2. screen = [i \in 1 .. Size(console[active]) |-> screen[i]]
    BY DEF TerminalInv, ScreenIsSized
  <2>3. Size(console[active]) > Size(console'[active]) \/ Size(console[active]) = 0
    BY <1>5, <2>1
  <2>4. QED
    BY <1>1, <2>1, <2>2, <2>3, TerminalShows
<1>7. SlicesAreSized' /\ RunsAreAwaited'
  BY <1>1, <1>2, <1>3, <1>4 DEF TerminalInv, SlicesAreSized, RunsAreAwaited, Current
<1>8. QED
  BY <1>1, <1>6, <1>7 DEF TerminalInv, ScreenIsSized

LEMMA TerminalRunStep == ASSUME ConsoleInv, TerminalInv, RunStep PROVE TerminalInv'
<1>1. ASSUME NEW r \in requests, Execute(r) PROVE TerminalInv'
  <2> DEFINE next == [r EXCEPT !.at = "executed", !.ending = "ran"]
  <2>1. next.task = r.task /\ next.run = r.run /\ next.page = r.page
    BY DEF ConsoleInv, RunsAreTyped
  <2>2. Refresh(r, next) /\ UNCHANGED <<console, active, screen, turned, page, asked>>
    BY <1>1 DEF Execute, display
  <2> HIDE DEF next
  <2>3. QED
    BY <2>1, <2>2, TerminalServes
<1>2. ASSUME NEW r \in requests, NEW why \in Failures, Refuse(r, why) PROVE TerminalInv'
  <2> DEFINE next == [r EXCEPT !.at = "done", !.ending = RunStatusOf(why)]
  <2>1. next.task = r.task /\ next.run = r.run /\ next.page = r.page
    BY DEF ConsoleInv, RunsAreTyped
  <2>2. Refresh(r, next) /\ UNCHANGED <<console, active, screen, turned, page, asked>>
    BY <1>2 DEF Refuse, display
  <2> HIDE DEF next
  <2>3. QED
    BY <2>1, <2>2, TerminalServes
<1>3. ASSUME NEW r \in requests, NEW times \in 0..3, CountRun(r, times) PROVE TerminalInv'
  <2> DEFINE next == [r EXCEPT !.at = "done"]
  <2>1. next.task = r.task /\ next.run = r.run /\ next.page = r.page
    BY DEF ConsoleInv, RunsAreTyped
  <2>2. Refresh(r, next) /\ UNCHANGED <<console, active, screen, turned, page, asked>>
    BY <1>3 DEF CountRun, display
  <2> HIDE DEF next
  <2>3. QED
    BY <2>1, <2>2, TerminalServes
<1>4. ASSUME NEW r \in requests, Answer(r, results # None) PROVE TerminalInv'
  <2> DEFINE left == {}
  <2>1. PICK lines \in Lines(r.ending) :
            console' = [console EXCEPT ![r.task] = Written(console[r.task], r, r.ending, lines)]
    BY <1>4 DEF Answer, ConsoleFor
  <2>2. /\ requests' = (requests \ {r}) \cup left /\ Current(r) /\ Repaint
        /\ UNCHANGED <<turned, page, asked>>
    BY <1>4 DEF Answer, Current
  <2>3. lines \in Nat \ (0 .. 1)
    BY ConsoleAssumption DEF Lines
  <2>4. \A q \in left : q.run = r.run /\ q.page = None
    OBVIOUS
  <2> HIDE DEF left
  <2>5. QED
    BY <2>1, <2>2, <2>3, <2>4, TerminalEnds
<1>5. ASSUME NEW r \in requests, BreakRun(r) PROVE TerminalInv'
  <2> DEFINE left == IF r.at = "done" THEN {} ELSE {[r EXCEPT !.page = None]}
  <2>1. \A q \in left : q.run = r.run /\ q.page = None
    BY DEF ConsoleInv, RunsAreTyped
  <2>2. /\ requests' = (requests \ {r}) \cup left /\ Current(r) /\ Repaint
        /\ UNCHANGED <<turned, page, asked>>
        /\ console' = [console EXCEPT ![r.task] = Written(console[r.task], r, "network error", 2)]
    BY <1>5 DEF BreakRun, ConsoleFor, Current
  <2> HIDE DEF left
  <2>3. 2 \in Nat \ (0 .. 1)
    OBVIOUS
  <2>4. QED
    BY <2>1, <2>2, <2>3, TerminalEnds
<1>6. QED
  BY <1>1, <1>2, <1>3, <1>4, <1>5, TerminalClear DEF RunStep

LEMMA TerminalReload == ASSUME ConsoleInv, TerminalInv, Reload PROVE TerminalInv'
<1>1. /\ page' = page + 1 /\ console' = [t \in Task |-> Blank]
      /\ UNCHANGED <<active, requests, asked>> /\ page \in Nat /\ screen' = <<>>
      /\ active \in Task
  BY DEF ConsoleInv, RunsAreTyped, TerminalInv, Reload, ReloadPage
<1>2. \A r \in requests : ~Current(r)'
  BY <1>1, NoneIsNoNumber DEF ConsoleInv, RunsAreTyped, Current
<1>3. \A t \in Task : console'[t].run = None /\ console'[t].answer = None
  BY <1>1 DEF Blank
<1>4. Size(console'[active]) = 0
  BY <1>1, <1>3 DEF Size
<1>5. /\ screen' = [i \in 1 .. Size(console'[active]) |-> screen'[i]]
      /\ screen' = Events(console'[active])
  <2> DEFINE lines == Events(console'[active])
  <2>1. lines = [i \in 1 .. Size(console'[active]) |-> lines[i]]
    BY <1>4, EventsAre
  <2> HIDE DEF lines
  <2>2. lines = <<>>
    BY <1>4, <2>1
  <2>3. QED
    BY <1>1, <1>4, <2>1, <2>2 DEF lines
<1>6. SlicesAreSized' /\ RunsAreAwaited'
  BY <1>1, <1>2, <1>3 DEF TerminalInv, SlicesAreSized, RunsAreAwaited
<1>7. QED
  BY <1>1, <1>5, <1>6 DEF TerminalInv, ScreenIsSized

LEMMA TerminalBeside ==
    ASSUME TerminalInv, UNCHANGED <<console, active, screen, turned, page, requests, asked>>
    PROVE  TerminalInv'
  BY DEF TerminalInv, SlicesAreSized, RunsAreAwaited, ScreenIsSized, Current

LEMMA TerminalStep == ASSUME ConsoleInv, TerminalInv, [Next]_vars PROVE TerminalInv'
<1>1. ASSUME NEW t \in DOMAIN code,
             \/ \E gap \in Gaps : Type(t, gap)
             \/ Complete(t) \/ Delete(t) \/ TypeData(t)
             \/ \E construct \in BOOLEAN : Paste(t, construct)
      PROVE  TerminalInv'
  <2>1. TurnTo(t) /\ t \in Task
    BY <1>1 DEF Type, Complete, Delete, TypeData, Paste, Edit, ConsoleInv, RunsAreTyped
  <2>2. QED
    BY <2>1, TerminalTurn
<1>2. CASE Flush \/ Post \/ Land \/ Analyse
  BY <1>2, TerminalBeside DEF Flush, Post, Land, Analyse, running, exec, display
<1>3. CASE Judging
  BY <1>3, TerminalBeside, JudgingIsReviewing DEF Reviewing, running, exec, display
<1>4. ASSUME NEW task, ReviewRun(task) PROVE TerminalInv'
  BY <1>4, TerminalBeside DEF ReviewRun, StartReview, exec, display
<1>5. CASE ReviewRunEnds
  BY <1>5, TerminalBeside DEF ReviewRunEnds, ReviewAnswered, ReviewRefused, exec, display
<1>6. CASE UNCHANGED vars
  BY <1>6, TerminalBeside DEF vars, exec, display
<1>7. QED
  <2>1. ASSUME NEW t \in DOMAIN code, Run(t) PROVE TerminalInv'
    BY <2>1, TerminalRun
  <2>2. CASE RunStep
    BY <2>2, TerminalRunStep
  <2>3. CASE Reload
    BY <2>3, TerminalReload
  <2>4. QED
    BY <1>1, <1>2, <1>3, <1>4, <1>5, <1>6, <2>1, <2>2, <2>3 DEF Next, Judging


\* For every exam, any number of runs, of lines they print and of switches
\* between tasks: the header and the file panel of a task show that task's runs
\* and the outcome of the run its console announced, and the terminal shows the
\* console of the task on screen unless the student turned to it from another
\* since the last run, Clear or load.
THEOREM AnswersStay == Spec => []AnswerStaysInItsTask
<1>1. ConsoleInv /\ TerminalInv => AnswerStaysInItsTask
  BY DEF ConsoleInv, TasksKeepTheirs, TerminalInv, AnswerStaysInItsTask
<1>2. ConsoleInv /\ TerminalInv /\ [Next]_vars => (ConsoleInv /\ TerminalInv)'
  BY ConsoleStep, TerminalStep DEF TerminalInv
<1>3. Init => ConsoleInv /\ TerminalInv
  BY ConsoleStart, TerminalStart
<1>4. QED
  BY <1>1, <1>2, <1>3, PTL DEF Spec

-----------------------------------------------------------------------------
(***************************************************************************)
(* The control of a judgment.  It has one seen and one shown judgment, and *)
(* the task it is for may change at any time.  At rest it has seen what    *)
(* the player has for the selected task, and shows it unless the task was  *)
(* changed under a click; a click in flight keeps what it would be taken   *)
(* back to.                                                                *)
(***************************************************************************)
MaybeJudgment == Judgments \cup {None}

Table == [Scopes -> MaybeJudgment]

Posts == [scope : Scopes, j : Judgments, written : BOOLEAN]

Panel == [at : {"open"}, selected : Scopes, judgments : Table, seen : MaybeJudgment,
          judgment : MaybeJudgment, post : Posts \cup {None}, previous : MaybeJudgment,
          load : {"asked", "read", "done"}, rows : Table \cup {None}, turned : BOOLEAN]

PanelSettled(p) ==
    p.post = None => /\ p.seen = p.judgments[p.selected]
                     /\ ~p.turned => p.judgment = p.seen

PanelInFlight(p) ==
    p.post # None /\ ~p.turned => /\ p.selected = p.post.scope
                                  /\ p.judgment = p.post.j /\ p.previous = p.seen

Underway(p) == p.post # None /\ p.post.written

\* Once loaded, the player has what is stored, or is about to.
PanelLoaded(p) ==
    /\ Underway(p) /\ ~crossed => saved[p.post.scope] = p.post.j
    /\ p.load = "done" /\ ~crossed =>
          \A s \in Scopes : ~(Underway(p) /\ s = p.post.scope) => p.judgments[s] = saved[s]
    /\ p.load = "read" => p.rows \in Table

JudgmentInv ==
    /\ DOMAIN code \subseteq Task
    /\ saved \in Table /\ crossed \in BOOLEAN /\ orphans \subseteq Posts
    /\ \/ panel = Unopened /\ orphans = {}
       \/ panel \in Panel /\ PanelSettled(panel) /\ PanelInFlight(panel) /\ PanelLoaded(panel)

OpenPanel == panel \in Panel /\ PanelSettled(panel) /\ PanelInFlight(panel) /\ PanelLoaded(panel)

LEMMA OpenIsPanel == ASSUME JudgmentInv, Open PROVE OpenPanel
  BY DEF JudgmentInv, Open, Unopened, OpenPanel

LEMMA PostsAreSome == ASSUME JudgmentInv PROVE None \notin Posts
<1>1. Posts \subseteq JudgmentPost
  BY DEF JudgmentInv, Posts, JudgmentPost, Scopes
<1>2. QED
  BY <1>1, ReportAssumption

LEMMA JudgmentLike ==
    ASSUME JudgmentInv, DOMAIN code' = DOMAIN code,
           saved' \in Table, crossed' \in BOOLEAN, orphans' \subseteq Posts,
           panel' \in Panel, PanelSettled(panel'), PanelInFlight(panel'), PanelLoaded(panel)'
    PROVE  JudgmentInv'
  BY DEF JudgmentInv, PanelSettled, PanelInFlight, Table, Posts, Panel, Scopes

\* What adopting does: nothing under a click; at rest the control has then seen
\* the judgment of the selected task.
LEMMA Adopts ==
    ASSUME NEW p \in Panel
    PROVE  LET q == Adopt(p)
           IN  /\ q \in Panel
               /\ q.selected = p.selected /\ q.judgments = p.judgments /\ q.post = p.post
               /\ q.load = p.load /\ q.rows = p.rows
               /\ p.post # None => q = p
               /\ p.post = None => q.seen = q.judgments[q.selected]
               /\ p.post = None /\ p.judgments[p.selected] # p.seen => q.judgment = q.seen
               /\ p.judgments[p.selected] = p.seen => q = p
<1> DEFINE initial == p.judgments[p.selected]
           q == Adopt(p)
<1>1. initial \in MaybeJudgment
  BY DEF Panel, Table
<1>2. CASE initial # p.seen /\ p.post = None
  <2>1. q = [p EXCEPT !.seen = initial, !.judgment = initial, !.turned = FALSE]
    BY <1>2 DEF Adopt
  <2> HIDE DEF initial, q
  <2>2. q \in Panel
    BY <1>1, <2>1 DEF Panel
  <2>3. /\ q.selected = p.selected /\ q.judgments = p.judgments /\ q.post = p.post
        /\ q.load = p.load /\ q.rows = p.rows /\ q.seen = initial /\ q.judgment = initial
    BY <2>1 DEF Panel
  <2>4. QED
    BY <1>2, <2>2, <2>3 DEF initial, q
<1>3. CASE ~(initial # p.seen /\ p.post = None)
  <2>1. q = p
    BY <1>3 DEF Adopt
  <2>2. QED
    BY <1>3, <2>1
<1>4. QED
  BY <1>2, <1>3

\* A panel with no click in flight is settled when its control adopts.
LEMMA AdoptSettles ==
    ASSUME NEW p \in Panel, p.post = None, ~p.turned => p.judgment = p.seen
    PROVE  PanelSettled(Adopt(p)) /\ PanelInFlight(Adopt(p))
<1> DEFINE q == Adopt(p)
<1>1. /\ q.post = None /\ q.seen = q.judgments[q.selected]
      /\ p.judgments[p.selected] # p.seen => q.judgment = q.seen
      /\ p.judgments[p.selected] = p.seen => q = p
  BY Adopts
<1> HIDE DEF q
<1>2. PanelSettled(q) /\ PanelInFlight(q)
  BY <1>1 DEF PanelSettled, PanelInFlight
<1>3. QED
  BY <1>2 DEF q

LEMMA JudgmentOpens == ASSUME JudgmentInv, OpenReport PROVE JudgmentInv'
<1>1. PICK task \in Scopes :
          panel' = [at |-> "open", selected |-> task, judgments |-> [s \in Scopes |-> None],
                    seen |-> None, judgment |-> None, post |-> None, previous |-> None,
                    load |-> "asked", rows |-> None, turned |-> FALSE]
  BY DEF OpenReport
<1>2. [s \in Scopes |-> None] \in Table /\ None \in MaybeJudgment
  BY DEF Table, MaybeJudgment
<1>3. panel' \in Panel /\ panel'.post = None /\ panel'.load = "asked"
      /\ panel'.seen = None /\ panel'.judgment = None
      /\ panel'.judgments[panel'.selected] = None
  BY <1>1, <1>2 DEF Panel
<1>4. PanelSettled(panel') /\ PanelInFlight(panel') /\ PanelLoaded(panel)'
  BY <1>3 DEF PanelSettled, PanelInFlight, PanelLoaded, Underway
<1>5. Unwritten \subseteq Posts
  BY OpenIsPanel DEF Unwritten, InFlight, OpenPanel, Panel
<1>6. /\ saved' \in Table /\ crossed' \in BOOLEAN /\ orphans' \subseteq Posts
      /\ DOMAIN code' = DOMAIN code
  BY <1>5 DEF OpenReport, JudgmentInv, Reviewing, editing
<1>7. QED
  BY <1>3, <1>4, <1>6, JudgmentLike

LEMMA JudgmentSelects ==
    ASSUME JudgmentInv, NEW task \in Scopes, SelectScope(task)
    PROVE  JudgmentInv'
<1> DEFINE p == [panel EXCEPT !.selected = task, !.turned = panel.turned \/ InFlight]
<1>1. OpenPanel /\ UNCHANGED <<saved, orphans, crossed>> /\ DOMAIN code' = DOMAIN code
      /\ panel' = Adopt(p)
  BY OpenIsPanel DEF SelectScope, Reviewing, editing
<1>2. DOMAIN panel = {"at", "selected", "judgments", "seen", "judgment", "post", "previous",
                      "load", "rows", "turned"}
      /\ panel.turned \in BOOLEAN
  BY <1>1 DEF OpenPanel, Panel
<1>3. /\ p.selected = task /\ p.at = panel.at /\ p.judgments = panel.judgments
      /\ p.seen = panel.seen /\ p.judgment = panel.judgment /\ p.post = panel.post
      /\ p.previous = panel.previous /\ p.load = panel.load /\ p.rows = panel.rows
  BY <1>2
<1>4. p.turned = (panel.turned \/ InFlight)
  BY <1>2, Zenon
<1>5. (panel.turned \/ InFlight) \in BOOLEAN
  BY <1>2, Zenon DEF InFlight, Open
<1>6. p \in Panel
  <2>1. p \in [at : {"open"}, selected : Scopes, judgments : Table, seen : MaybeJudgment,
          judgment : MaybeJudgment, post : Posts \cup {None}, previous : MaybeJudgment,
          load : {"asked", "read", "done"}, rows : Table \cup {None}, turned : BOOLEAN]
    <3> DEFINE b == panel.turned \/ InFlight
    <3>1. b \in BOOLEAN
      BY <1>5
    <3>2. p = [panel EXCEPT !.selected = task, !.turned = b]
      OBVIOUS
    <3> HIDE DEF b, p
    <3>3. QED
      BY <1>1, <3>1, <3>2 DEF OpenPanel, Panel
  <2>2. QED
    BY <2>1 DEF Panel
<1>7. p.turned = FALSE => panel.turned = FALSE /\ panel.post = None
  <2>1. ~p.turned => ~panel.turned /\ ~InFlight
    BY <1>4, Zenon
  <2>2. ~InFlight => panel.post = None
    BY DEF InFlight, SelectScope
  <2>3. QED
    BY <1>2, <2>1, <2>2
<1> HIDE DEF p
<1>8. panel' \in Panel /\ panel'.judgments = panel.judgments /\ panel'.post = panel.post
      /\ panel'.load = panel.load /\ panel'.rows = panel.rows
  BY <1>1, <1>3, <1>6, Adopts
<1>9. PanelLoaded(panel)'
  BY <1>1, <1>8 DEF OpenPanel, PanelLoaded, Underway, Scopes, Table, MaybeJudgment
<1>10. PanelSettled(panel') /\ PanelInFlight(panel')
  <2>1. p.turned \in BOOLEAN
    BY <1>6 DEF Panel
  <2>2. CASE panel.post = None
    <3>1. ~p.turned => p.judgment = p.seen
      BY <1>1, <1>3, <1>7, <2>1, <2>2 DEF OpenPanel, PanelSettled
    <3>2. QED
      BY <1>1, <1>3, <1>6, <2>2, <3>1, AdoptSettles
  <2>3. CASE panel.post # None
    <3>1. panel' = p
      BY <1>1, <1>3, <1>6, <2>3, Adopts
    <3>2. p.turned
      BY <1>7, <2>1, <2>3
    <3>3. QED
      BY <1>3, <2>3, <3>1, <3>2 DEF PanelSettled, PanelInFlight
  <2>4. QED
    BY <2>2, <2>3
<1>11. QED
  BY <1>1, <1>8, <1>9, <1>10, JudgmentLike DEF JudgmentInv

LEMMA JudgmentLoads == ASSUME JudgmentInv, LoadRead \/ LoadAnswered PROVE JudgmentInv'
<1>1. OpenPanel /\ UNCHANGED <<saved, orphans>> /\ DOMAIN code' = DOMAIN code
  BY OpenIsPanel DEF LoadRead, LoadAnswered, Reviewing, editing
<1>2. CASE LoadRead
  <2>1. panel' = [panel EXCEPT !.load = "read", !.rows = saved] /\ UNCHANGED crossed
    BY <1>2 DEF LoadRead
  <2>2. panel' \in Panel
    BY <1>1, <2>1 DEF OpenPanel, Panel, JudgmentInv
  <2>3. /\ panel'.selected = panel.selected /\ panel'.judgments = panel.judgments
        /\ panel'.seen = panel.seen /\ panel'.judgment = panel.judgment
        /\ panel'.post = panel.post /\ panel'.previous = panel.previous
        /\ panel'.turned = panel.turned /\ panel'.load = "read" /\ panel'.rows = saved
    BY <1>1, <2>1 DEF OpenPanel, Panel
  <2>4. PanelSettled(panel') /\ PanelInFlight(panel')
    BY <1>1, <2>3 DEF OpenPanel, PanelSettled, PanelInFlight
  <2>5. PanelLoaded(panel)'
    BY <1>1, <2>1, <2>3 DEF OpenPanel, PanelLoaded, Underway, JudgmentInv, Table, Scopes,
                            MaybeJudgment
  <2>6. QED
    BY <1>1, <2>1, <2>2, <2>4, <2>5, JudgmentLike DEF JudgmentInv
<1>3. CASE LoadAnswered
  <2> DEFINE p == [panel EXCEPT !.load = "done", !.judgments = panel.rows]
  <2>1. panel' = Adopt(p) /\ crossed' = (crossed \/ panel.rows # saved) /\ panel.rows \in Table
    BY <1>1, <1>3 DEF LoadAnswered, OpenPanel, PanelLoaded
  <2>2. p \in Panel
    BY <1>1, <2>1 DEF OpenPanel, Panel
  <2>3. /\ p.selected = panel.selected /\ p.judgments = panel.rows
        /\ p.seen = panel.seen /\ p.judgment = panel.judgment
        /\ p.post = panel.post /\ p.previous = panel.previous
        /\ p.turned = panel.turned /\ p.load = "done"
    BY <1>1 DEF OpenPanel, Panel
  <2> HIDE DEF p
  <2>4. panel' \in Panel /\ panel'.judgments = panel.rows /\ panel'.post = panel.post
        /\ panel'.load = "done"
    BY <2>1, <2>2, <2>3, Adopts
  <2>5. PanelSettled(panel') /\ PanelInFlight(panel')
    <3>1. CASE panel.post = None
      <4>1. ~p.turned => p.judgment = p.seen
        BY <1>1, <2>3, <3>1 DEF OpenPanel, PanelSettled
      <4>2. QED
        BY <2>1, <2>2, <2>3, <3>1, <4>1, AdoptSettles
    <3>2. CASE panel.post # None
      <4>1. panel' = p
        BY <2>1, <2>2, <2>3, <3>2, Adopts
      <4>2. QED
        BY <1>1, <2>3, <3>2, <4>1 DEF OpenPanel, PanelSettled, PanelInFlight
    <3>3. QED
      BY <3>1, <3>2
  <2>6. PanelLoaded(panel)'
    <3>1. ~crossed' => ~crossed /\ panel.rows = saved
      BY <2>1
    <3>2. Underway(panel)' <=> Underway(panel)
      BY <2>4 DEF Underway
    <3>3. QED
      BY <1>1, <2>4, <3>1, <3>2 DEF OpenPanel, PanelLoaded, Underway, Scopes
  <2>7. crossed' \in BOOLEAN
    BY <2>1 DEF JudgmentInv
  <2>8. QED
    BY <1>1, <2>4, <2>5, <2>6, <2>7, JudgmentLike DEF JudgmentInv, Table, Scopes, MaybeJudgment
<1>4. QED
  BY <1>2, <1>3

LEMMA JudgmentClicks == ASSUME JudgmentInv, NEW j \in Judgments, Click(j) PROVE JudgmentInv'
<1> DEFINE post == [scope |-> panel.selected, j |-> j, written |-> FALSE]
<1>1. /\ OpenPanel /\ UNCHANGED <<saved, orphans, crossed>> /\ DOMAIN code' = DOMAIN code
      /\ panel.post = None
      /\ panel' = [panel EXCEPT !.post = post, !.previous = panel.judgment, !.judgment = j]
  BY OpenIsPanel DEF Click, Reviewing, editing
<1>2. post \in Posts /\ post.scope = panel.selected /\ post.j = j
  BY <1>1 DEF OpenPanel, Panel, Posts
<1>3. ~post.written
  <2>1. post.written = FALSE
    OBVIOUS
  <2>2. QED
    BY <2>1, Zenon
<1> HIDE DEF post
<1>4. post # None
  BY <1>2, PostsAreSome
<1>5. panel' \in Panel
  BY <1>1, <1>2 DEF OpenPanel, Panel, MaybeJudgment
<1>6. /\ panel'.selected = panel.selected /\ panel'.judgments = panel.judgments
      /\ panel'.seen = panel.seen /\ panel'.judgment = j /\ panel'.post = post
      /\ panel'.previous = panel.judgment /\ panel'.turned = panel.turned
      /\ panel'.load = panel.load /\ panel'.rows = panel.rows
  BY <1>1 DEF OpenPanel, Panel
<1>7. PanelSettled(panel') /\ PanelInFlight(panel')
  BY <1>1, <1>2, <1>4, <1>6 DEF OpenPanel, PanelSettled, PanelInFlight
<1>8. ~Underway(panel) /\ ~Underway(panel')
  BY <1>1, <1>3, <1>6 DEF Underway
<1>9. PanelLoaded(panel)'
  BY <1>1, <1>6, <1>8 DEF OpenPanel, PanelLoaded, Underway, Scopes, Table, MaybeJudgment
<1>10. QED
  BY <1>1, <1>5, <1>7, <1>9, JudgmentLike DEF JudgmentInv

LEMMA JudgmentWritten == ASSUME JudgmentInv, PostWritten PROVE JudgmentInv'
<1> DEFINE post == [panel.post EXCEPT !.written = TRUE]
<1>1. /\ OpenPanel /\ UNCHANGED <<orphans, crossed>> /\ DOMAIN code' = DOMAIN code
      /\ panel.post # None /\ ~panel.post.written
      /\ saved' = [saved EXCEPT ![panel.post.scope] = panel.post.j]
      /\ panel' = [panel EXCEPT !.post.written = TRUE]
  BY OpenIsPanel DEF PostWritten, InFlight, Reviewing, editing
<1>2. panel.post \in Posts
  BY <1>1 DEF OpenPanel, Panel
<1>3. post \in Posts /\ post.scope = panel.post.scope /\ post.j = panel.post.j
  BY <1>2 DEF Posts
<1>4. post.written
  <2>1. post.written = TRUE
    BY <1>2 DEF Posts
  <2>2. QED
    BY <2>1, Zenon
<1>5. panel' = [panel EXCEPT !.post = post]
  BY <1>1
<1> HIDE DEF post
<1>6. post # None
  BY <1>3, PostsAreSome
<1>7. panel' \in Panel
  BY <1>1, <1>3, <1>5 DEF OpenPanel, Panel
<1>8. /\ panel'.selected = panel.selected /\ panel'.judgments = panel.judgments
      /\ panel'.seen = panel.seen /\ panel'.judgment = panel.judgment /\ panel'.post = post
      /\ panel'.previous = panel.previous /\ panel'.turned = panel.turned
      /\ panel'.load = panel.load /\ panel'.rows = panel.rows
  BY <1>1, <1>5 DEF OpenPanel, Panel
<1>9. PanelSettled(panel') /\ PanelInFlight(panel')
  BY <1>1, <1>3, <1>6, <1>8 DEF OpenPanel, PanelSettled, PanelInFlight
<1>10. ~Underway(panel) /\ panel.post.scope \in Scopes /\ panel.post.j \in Judgments
  BY <1>1, <1>2 DEF Underway, Posts
<1>11. saved' \in Table /\ saved'[panel.post.scope] = panel.post.j
       /\ \A s \in Scopes : s # panel.post.scope => saved'[s] = saved[s]
  BY <1>1, <1>10 DEF JudgmentInv, Table, MaybeJudgment
<1>12. PanelLoaded(panel)'
  <2>1. ASSUME panel.load = "done", ~crossed, NEW s \in Scopes, s # panel.post.scope
        PROVE  panel.judgments[s] = saved'[s]
    BY <1>1, <1>10, <1>11, <2>1 DEF OpenPanel, PanelLoaded
  <2>2. panel.load = "read" => panel.rows \in Table
    BY <1>1 DEF OpenPanel, PanelLoaded
  <2>3. Scopes' = Scopes /\ Table' = Table
    BY <1>1 DEF Scopes, Table, MaybeJudgment
  <2>4. Underway(panel')
    BY <1>4, <1>6, <1>8 DEF Underway
  <2>5. panel'.post.scope = panel.post.scope /\ panel'.post.j = panel.post.j
    BY <1>3, <1>8
  <2>6. saved'[panel'.post.scope] = panel'.post.j
    BY <1>11, <2>5
  <2>7. \A s \in Scopes : panel'.load = "done" /\ ~crossed /\ s # panel'.post.scope
            => panel'.judgments[s] = saved'[s]
    BY <1>8, <2>1, <2>5
  <2>8. panel'.load = "read" => panel'.rows \in Table
    BY <1>8, <2>2
  <2>9. UNCHANGED crossed
    BY <1>1
  <2> HIDE <1>1
  <2>10. QED
    BY <2>3, <2>4, <2>6, <2>7, <2>8, <2>9 DEF PanelLoaded, Underway
<1>13. QED
  BY <1>1, <1>7, <1>9, <1>11, <1>12, JudgmentLike DEF JudgmentInv

LEMMA JudgmentAnswered == ASSUME JudgmentInv, PostAnswered PROVE JudgmentInv'
<1> DEFINE post == panel.post
           table == [panel.judgments EXCEPT ![post.scope] = post.j]
           p == [panel EXCEPT !.post = None, !.judgments = table]
<1>1. /\ OpenPanel /\ UNCHANGED <<saved, orphans, crossed>> /\ DOMAIN code' = DOMAIN code
      /\ post # None /\ post.written
      /\ panel' = Adopt([panel EXCEPT !.post = None,
                                      !.judgments[panel.post.scope] = panel.post.j])
  BY OpenIsPanel DEF PostAnswered, InFlight, Reviewing, editing
<1>2. post \in Posts /\ post.scope \in Scopes /\ post.j \in MaybeJudgment
  BY <1>1 DEF OpenPanel, Panel, Posts, MaybeJudgment
<1>3. panel' = Adopt(p)
  BY <1>1
<1>4. table \in Table /\ table[post.scope] = post.j
      /\ \A s \in Scopes : s # post.scope => table[s] = panel.judgments[s]
  BY <1>1, <1>2 DEF OpenPanel, Panel, Table
<1> HIDE DEF table
<1>5. p \in Panel
  BY <1>1, <1>4 DEF OpenPanel, Panel
<1>6. /\ p.selected = panel.selected /\ p.judgments = table
      /\ p.seen = panel.seen /\ p.judgment = panel.judgment /\ p.post = None
      /\ p.turned = panel.turned /\ p.load = panel.load /\ p.rows = panel.rows
  BY <1>1 DEF OpenPanel, Panel
<1> HIDE DEF p
<1>7. panel' \in Panel /\ panel'.judgments = table /\ panel'.post = None
      /\ panel'.load = panel.load /\ panel'.rows = panel.rows
  BY <1>3, <1>5, <1>6, Adopts
<1>8. PanelSettled(panel') /\ PanelInFlight(panel')
  <2>1. CASE p.judgments[p.selected] = p.seen
    <3>1. ~p.turned => p.judgment = p.seen
      BY <1>1, <1>4, <1>6, <2>1 DEF OpenPanel, PanelInFlight
    <3>2. QED
      BY <1>3, <1>5, <1>6, <3>1, AdoptSettles
  <2>2. CASE p.judgments[p.selected] # p.seen
    <3>1. panel'.seen = panel'.judgments[panel'.selected] /\ panel'.judgment = panel'.seen
      BY <1>3, <1>5, <1>6, <2>2, Adopts
    <3>2. QED
      BY <1>7, <3>1 DEF PanelSettled, PanelInFlight
  <2>3. QED
    BY <2>1, <2>2
<1>9. Underway(panel) /\ ~Underway(panel')
  BY <1>1, <1>7 DEF Underway
<1>10. PanelLoaded(panel)'
  <2>1. ASSUME panel.load = "done", ~crossed, NEW s \in Scopes PROVE table[s] = saved[s]
    <3>1. CASE s = post.scope
      BY <1>1, <1>4, <1>9, <2>1, <3>1 DEF OpenPanel, PanelLoaded
    <3>2. CASE s # post.scope
      BY <1>1, <1>4, <1>9, <2>1, <3>2 DEF OpenPanel, PanelLoaded
    <3>3. QED
      BY <3>1, <3>2
  <2>2. panel.load = "read" => panel.rows \in Table
    BY <1>1 DEF OpenPanel, PanelLoaded
  <2>3. Scopes' = Scopes /\ Table' = Table
    BY <1>1 DEF Scopes, Table, MaybeJudgment
  <2>4. QED
    BY <1>1, <1>7, <1>9, <2>1, <2>2, <2>3 DEF PanelLoaded, Underway
<1>11. QED
  BY <1>1, <1>7, <1>8, <1>10, JudgmentLike DEF JudgmentInv

LEMMA JudgmentFails == ASSUME JudgmentInv, PostFails PROVE JudgmentInv'
<1> DEFINE p == [panel EXCEPT !.post = None, !.judgment = panel.previous]
<1>1. /\ OpenPanel /\ UNCHANGED saved /\ DOMAIN code' = DOMAIN code
      /\ panel.post # None /\ panel' = Adopt(p)
      /\ crossed' = (crossed \/ panel.post.written)
  BY OpenIsPanel DEF PostFails, InFlight, Reviewing, editing
<1>2. p \in Panel
  BY <1>1 DEF OpenPanel, Panel
<1>3. /\ p.selected = panel.selected /\ p.judgments = panel.judgments
      /\ p.seen = panel.seen /\ p.judgment = panel.previous /\ p.post = None
      /\ p.turned = panel.turned /\ p.load = panel.load /\ p.rows = panel.rows
  BY <1>1 DEF OpenPanel, Panel
<1> HIDE DEF p
<1>4. panel' \in Panel /\ panel'.judgments = panel.judgments /\ panel'.post = None
      /\ panel'.load = panel.load /\ panel'.rows = panel.rows
  BY <1>1, <1>2, <1>3, Adopts
<1>5. ~p.turned => p.judgment = p.seen
  BY <1>1, <1>3 DEF OpenPanel, PanelInFlight
<1>6. PanelSettled(panel') /\ PanelInFlight(panel')
  BY <1>1, <1>2, <1>3, <1>5, AdoptSettles
<1>7. panel.post \in Posts
  BY <1>1 DEF OpenPanel, Panel
<1>8. crossed' \in BOOLEAN /\ (~crossed' => ~crossed /\ ~Underway(panel))
  BY <1>1, <1>7 DEF JudgmentInv, Posts, Underway
<1>9. PanelLoaded(panel)'
  BY <1>1, <1>4, <1>8 DEF OpenPanel, PanelLoaded, Underway, Scopes, Table, MaybeJudgment
<1>10. Unwritten \subseteq Posts
  BY <1>7 DEF Unwritten
<1>11. orphans' \subseteq Posts
  BY <1>10 DEF PostFails, JudgmentInv
<1>12. QED
  BY <1>1, <1>4, <1>6, <1>8, <1>9, <1>11, JudgmentLike DEF JudgmentInv

LEMMA JudgmentOrphan == ASSUME JudgmentInv, OrphanWritten PROVE JudgmentInv'
<1>1. PICK post \in orphans : /\ saved' = [saved EXCEPT ![post.scope] = post.j]
                              /\ orphans' = orphans \ {post}
  BY DEF OrphanWritten
<1>2. /\ crossed' = (crossed \/ panel.load = "done" \/ InFlight)
      /\ UNCHANGED panel /\ DOMAIN code' = DOMAIN code
  BY DEF OrphanWritten, Reviewing, editing
<1>3. OpenPanel
  BY <1>1 DEF JudgmentInv, OpenPanel
<1>4. saved' \in Table /\ orphans' \subseteq Posts
  BY <1>1 DEF JudgmentInv, Table, Posts, MaybeJudgment
<1>5. crossed' \in BOOLEAN /\ (~crossed' => panel.load # "done" /\ panel.post = None)
  <2>1. panel.at = "open"
    BY <1>3 DEF OpenPanel, Panel
  <2>2. InFlight <=> panel.post # None
    BY <2>1 DEF InFlight, Open
  <2>3. QED
    BY <1>2, <2>2 DEF JudgmentInv
<1>6. PanelLoaded(panel)'
  BY <1>2, <1>3, <1>5 DEF OpenPanel, PanelLoaded, Underway, Scopes, Table, MaybeJudgment
<1>7. panel' \in Panel /\ PanelSettled(panel') /\ PanelInFlight(panel')
  BY <1>2, <1>3 DEF OpenPanel
<1>8. QED
  BY <1>2, <1>4, <1>5, <1>6, <1>7, JudgmentLike

LEMMA JudgmentStep == ASSUME JudgmentInv, Judging PROVE JudgmentInv'
  BY JudgmentOpens, JudgmentSelects, JudgmentLoads, JudgmentClicks, JudgmentWritten,
     JudgmentAnswered, JudgmentFails, JudgmentOrphan DEF Judging

\* The tasks of the exam stay, and with them the rows there may be.
LEMMA JudgmentBeside ==
    ASSUME JudgmentInv, UNCHANGED judging, DOMAIN code' = DOMAIN code
    PROVE  JudgmentInv'
<1>1. UNCHANGED <<saved, panel, orphans, crossed>>
  BY DEF judging
<1>2. CASE panel = Unopened /\ orphans = {}
  BY <1>1, <1>2 DEF JudgmentInv, Table, Posts, Scopes, MaybeJudgment
<1>3. CASE OpenPanel
  <2>1. PanelLoaded(panel)'
    BY <1>1, <1>3 DEF OpenPanel, PanelLoaded, Underway, Scopes, Table, MaybeJudgment
  <2>2. QED
    BY <1>1, <1>3, <2>1, JudgmentLike DEF OpenPanel, JudgmentInv
<1>4. QED
  BY <1>2, <1>3 DEF JudgmentInv, OpenPanel

\* However loads, clicks, failures and switches of the task interleave, and
\* whatever an earlier report left on its way: unless an answer was lost or
\* overtaken, the player at rest has the stored judgment of every task, and the
\* control shows that of the selected task unless it was changed under a click.
THEOREM JudgmentsShown == Spec => []JudgmentShownIsSaved
<1>1. Init => JudgmentInv
  <2> SUFFICES ASSUME Init PROVE JudgmentInv
    OBVIOUS
  <2>1. PICK exam \in Exams : code = [t \in exam |-> NoFiles]
    BY DEF Init
  <2>2. DOMAIN code \subseteq Task
    BY <2>1, ReportAssumption
  <2>3. saved \in Table
    BY DEF Init, Table, MaybeJudgment, Judgments
  <2>4. QED
    BY <2>2, <2>3 DEF Init, JudgmentInv
<1>2. JudgmentInv /\ [Next]_vars => JudgmentInv'
  <2> SUFFICES ASSUME JudgmentInv, [Next]_vars PROVE JudgmentInv'
    OBVIOUS
  <2>1. ASSUME NEW t \in DOMAIN code,
               \/ \E gap \in Gaps : Type(t, gap)
               \/ Complete(t) \/ Delete(t) \/ TypeData(t)
               \/ \E construct \in BOOLEAN : Paste(t, construct)
        PROVE  UNCHANGED judging /\ DOMAIN code' = DOMAIN code
    BY <2>1 DEF Type, Complete, Delete, TypeData, Paste, Edit
  <2>2. (\E t \in DOMAIN code : Run(t)) \/ Reload \/ RunStep \/ Flush \/ Post \/ Land \/ Analyse
          \/ ReviewRunEnds \/ (\E task : ReviewRun(task))
          => UNCHANGED judging /\ DOMAIN code' = DOMAIN code
    BY DEF Run, Reload, RunStep, Flush, Post, Land, Analyse, ReviewRunEnds, ReviewRun, editing
  <2>3. UNCHANGED vars => UNCHANGED judging /\ DOMAIN code' = DOMAIN code
    BY DEF vars, judging
  <2>4. QED
    BY <2>1, <2>2, <2>3, JudgmentStep, JudgmentBeside DEF Next, Judging
<1>3. JudgmentInv => JudgmentShownIsSaved
  <2> SUFFICES ASSUME JudgmentInv, Open, panel.post = None, panel.load = "done", ~crossed
               PROVE  /\ panel.judgments = saved
                      /\ ~panel.turned => panel.judgment = saved[panel.selected]
    BY DEF JudgmentShownIsSaved
  <2>1. OpenPanel
    BY OpenIsPanel
  <2>2. \A s \in Scopes : panel.judgments[s] = saved[s]
    BY <2>1 DEF OpenPanel, PanelLoaded, Underway
  <2>3. panel.judgments \in Table /\ saved \in Table
    BY <2>1 DEF OpenPanel, Panel, JudgmentInv
  <2>4. panel.judgments = saved
    BY <2>2, <2>3 DEF Table
  <2>5. QED
    BY <2>1, <2>4 DEF OpenPanel, PanelSettled
<1>4. QED
  BY <1>1, <1>2, <1>3, PTL DEF Spec

-----------------------------------------------------------------------------
(***************************************************************************)
(* The verdict.  A metric whose guard tripped does not flag, so on a       *)
(* substantial program MarkInconclusive marks it, in every reading the     *)
(* worker makes; and no summary drops the mark.                            *)
(***************************************************************************)
LEMMA LinearGuard ==
    ASSUME NEW events, LinearInjection(events).guarded
    PROVE  /\ LinearInjection(events).flag = FALSE
           /\ "inconclusive" \in DOMAIN LinearInjection(events)
<1> DEFINE n == Count(events, LAMBDA e : TRUE)
           deletes == Count(events, LAMBDA e : e.action = "delete")
           singles == Count(events, LAMBDA e : e.action = "type" /\ e.chars <= 2)
           flag == deletes * 100 < 2 * n /\ singles * 100 > 90 * n
<1>1. LinearInjection(events) = IF n < MinEvents
          THEN [flag |-> FALSE, guarded |-> TRUE, inconclusive |-> FALSE]
          ELSE [flag |-> flag, guarded |-> FALSE, inconclusive |-> FALSE]
  BY Zenon DEF LinearInjection
<1> HIDE DEF n, flag
<1>2. QED
  BY <1>1

LEMMA VarianceGuard ==
    ASSUME NEW bursts, NEW events, RoboticVariance(bursts, events).guarded
    PROVE  /\ RoboticVariance(bursts, events).flag = FALSE
           /\ "inconclusive" \in DOMAIN RoboticVariance(bursts, events)
<1> DEFINE r == RoboticVariance(bursts, events)
           few == TypingIntervals(events) < MinTypingIntervals
           enough == TypingIntervals(events) >= MinTypingIntervals
           n == Len(SelectSeq(bursts, LAMBDA mean : mean > 0))
<1>1. \E flag, cv : r =
        CASE few -> [flag |-> FALSE, guarded |-> TRUE, inconclusive |-> TRUE, cv |-> None]
          [] enough /\ n < MinBursts ->
                [flag |-> FALSE, guarded |-> TRUE, inconclusive |-> FALSE, cv |-> None]
          [] OTHER -> [flag |-> flag, guarded |-> FALSE, inconclusive |-> FALSE, cv |-> cv]
  BY Zenon DEF RoboticVariance
<1>2. PICK flag, cv : r =
        CASE few -> [flag |-> FALSE, guarded |-> TRUE, inconclusive |-> TRUE, cv |-> None]
          [] enough /\ n < MinBursts ->
                [flag |-> FALSE, guarded |-> TRUE, inconclusive |-> FALSE, cv |-> None]
          [] OTHER -> [flag |-> flag, guarded |-> FALSE, inconclusive |-> FALSE, cv |-> cv]
  BY <1>1
<1> HIDE DEF few, enough, n, r
<1>3. r.guarded => r.flag = FALSE
  BY <1>2
<1>4. "inconclusive" \in DOMAIN r
  BY <1>2
<1>5. QED
  BY <1>3, <1>4 DEF r

Unassessed == {"metricB", "metricC"}

\* What the worker promises of one set of readings.
MarksUnassessed(readings) ==
    /\ Unassessed \subseteq DOMAIN readings
    /\ \A m \in Unassessed :
          readings[m].guarded /\ readings.length >= MinCodeLen => readings[m].inconclusive = TRUE

LEMMA MarkKeepsGuard ==
    ASSUME NEW reading, NEW len,
           reading.guarded => reading.flag = FALSE /\ "inconclusive" \in DOMAIN reading,
           MarkInconclusive(reading, len).guarded, len >= MinCodeLen
    PROVE  MarkInconclusive(reading, len).inconclusive = TRUE
  BY DEF MarkInconclusive

LEMMA ReadingsMark ==
    ASSUME NEW events, NEW bursts, NEW files, NEW len, NEW counts
    PROVE  MarksUnassessed(Readings(events, bursts, files, len, counts))
<1> DEFINE a == LowRuns(counts)
           b == MarkInconclusive(LinearInjection(events), len)
           c == MarkInconclusive(RoboticVariance(bursts, events), len)
           d == Authorship(events, len)
           e == Audit(files)
           r == Readings(events, bursts, files, len, counts)
<1>1. r = [metricA |-> a, metricB |-> b, metricC |-> c, authorship |-> d, astAudit |-> e,
           length |-> len]
  BY DEF Readings
<1>2. len >= MinCodeLen /\ b.guarded => b.inconclusive = TRUE
  BY LinearGuard, MarkKeepsGuard
<1>3. len >= MinCodeLen /\ c.guarded => c.inconclusive = TRUE
  BY VarianceGuard, MarkKeepsGuard
<1> HIDE DEF a, b, c, d, e, r
<1>4. MarksUnassessed(r)
  BY <1>1, <1>2, <1>3 DEF MarksUnassessed, Unassessed
<1>5. QED
  BY <1>4 DEF r

\* Only the worker writes the results.
LEMMA VerdictStays == [Next]_vars => Analyse \/ UNCHANGED <<results, read>>
<1> SUFFICES ASSUME [Next]_vars PROVE Analyse \/ UNCHANGED <<results, read>>
  OBVIOUS
<1>1. ASSUME NEW t \in DOMAIN code,
             \/ \E gap \in Gaps : Type(t, gap)
             \/ Complete(t) \/ Delete(t) \/ TypeData(t)
             \/ \E construct \in BOOLEAN : Paste(t, construct)
             \/ Run(t)
      PROVE  UNCHANGED <<results, read>>
  BY <1>1 DEF Type, Complete, Delete, TypeData, Paste, Run, Edit, verdict
<1>2. Reload \/ RunStep \/ Flush \/ Post \/ Land \/ ReviewRunEnds \/ (\E task : ReviewRun(task))
          => UNCHANGED <<results, read>>
  BY DEF Reload, RunStep, Flush, Post, Land, ReviewRunEnds, ReviewRun, verdict
<1>3. Judging => UNCHANGED <<results, read>>
  BY JudgingIsReviewing DEF Reviewing, verdict
<1>4. UNCHANGED vars => UNCHANGED <<results, read>>
  BY DEF vars
<1>5. QED
  BY <1>1, <1>2, <1>3, <1>4 DEF Next, Judging

VerdictMarks ==
    results # None => /\ MarksUnassessed(results.session)
                      /\ \A t \in DOMAIN results.tasks : MarksUnassessed(results.tasks[t])

\* No colour, of the session, of a row or in the player, is green for a metric
\* that had too little data about a substantial program, whatever was recorded.
THEOREM UnassessedIsNotClean == Spec => []UnassessedNeverReadsClean
<1>1. Init => VerdictMarks
  BY DEF Init, VerdictMarks
<1>2. VerdictMarks /\ [Next]_vars => VerdictMarks'
  <2> SUFFICES ASSUME VerdictMarks, [Next]_vars PROVE VerdictMarks'
    OBVIOUS
  <2>1. CASE Analyse
    <3>1. /\ results'.session = SessionReadings(log, runs)
          /\ results'.tasks = [t \in TaskIdsIn(log) |-> TaskReadings(log, t, runs, byTask)]
      BY <2>1 DEF Analyse, ForensicsResults
    <3>2. MarksUnassessed(SessionReadings(log, runs))
      BY ReadingsMark DEF SessionReadings
    <3>3. \A t \in TaskIdsIn(log) : MarksUnassessed(TaskReadings(log, t, runs, byTask))
      BY ReadingsMark DEF TaskReadings
    <3>4. QED
      BY <3>1, <3>2, <3>3 DEF VerdictMarks, MarksUnassessed
  <2>2. CASE UNCHANGED results
    BY <2>2 DEF VerdictMarks, MarksUnassessed
  <2>3. Analyse \/ UNCHANGED results
    BY VerdictStays
  <2>4. QED
    BY <2>1, <2>2, <2>3
<1>3. VerdictMarks => UnassessedNeverReadsClean
  <2> SUFFICES ASSUME VerdictMarks, results # None PROVE UnassessedNeverReadsClean
    BY DEF UnassessedNeverReadsClean
  <2>1. ASSUME NEW r, NEW m \in Unassessed, MarksUnassessed(r), r[m].guarded, r.length >= MinCodeLen
        PROVE  Level(r, m) = "grey"
    BY <2>1 DEF MarksUnassessed, Unassessed, Level, LinearLevel, RhythmLevel
  <2>2. ASSUME NEW t \in DOMAIN results.tasks, NEW m \in Unassessed,
               results.tasks[t][m].guarded, results.tasks[t].length >= MinCodeLen
        PROVE  Level(TaskSummary(t), m) = "grey"
    <3> DEFINE r == results.tasks[t]
    <3>1. MarksUnassessed(r)
      BY DEF VerdictMarks
    <3>2. r[m].inconclusive = TRUE /\ Unassessed \subseteq DOMAIN r
      BY <2>2, <3>1 DEF MarksUnassessed
    <3> DEFINE b == [flag |-> r.metricB.flag, inconclusive |-> r.metricB.inconclusive]
               c == [flag |-> r.metricC.flag, inconclusive |-> r.metricC.inconclusive,
                     cv |-> r.metricC.cv]
    <3>3. /\ TaskSummary(t) = [r EXCEPT !.metricB = b, !.metricC = c]
          /\ b.inconclusive = r["metricB"].inconclusive
          /\ c.inconclusive = r["metricC"].inconclusive
      BY DEF TaskSummary
    <3> HIDE DEF b, c, r
    <3>4. TaskSummary(t)[m].inconclusive = TRUE
      <4>1. TaskSummary(t)["metricB"] = b /\ TaskSummary(t)["metricC"] = c
        BY <3>2, <3>3 DEF Unassessed
      <4>2. m = "metricB" \/ m = "metricC"
        BY DEF Unassessed
      <4>3. QED
        BY <3>2, <3>3, <4>1, <4>2
    <3>5. QED
      BY <3>4 DEF Unassessed, Level, LinearLevel, RhythmLevel
  <2>3. QED
    BY <2>1, <2>2 DEF VerdictMarks, UnassessedNeverReadsClean, Unassessed
<1>4. QED
  BY <1>1, <1>2, <1>3, PTL DEF Spec

-----------------------------------------------------------------------------
(***************************************************************************)
(* The instructor's run.  Every window carries the workspace of every      *)
(* task, so the last one has what was handed in, both for the worker and   *)
(* for the sandbox.  A window that arrives after the verdict only makes    *)
(* the record longer: it is then no longer the one the worker read.        *)
(***************************************************************************)
Files == [len : Int, construct : BOOLEAN]

LogIsTyped ==
    /\ code \in [DOMAIN code -> Files]
    /\ \E S : log \in Seq(S)
    /\ \A w \in 1 .. Len(log) : log[w].snap \in [DOMAIN code -> Files]
    /\ sent # None => sent.snap \in [DOMAIN code -> Files]

VerdictIsOfRead ==
    results # None =>
        /\ Len(read) \in Nat /\ Len(read) <= Len(log)
        /\ DOMAIN results.tasks = TaskIdsIn(read)
        /\ \A t \in TaskIdsIn(read) :
              /\ results.tasks[t].length = FinalTaskSnapshots(read)[t].len
              /\ results.tasks[t].astAudit.flag = FinalTaskSnapshots(read)[t].construct

ReviewIsOfLog ==
    /\ DOMAIN review = {"at", "of", "ranTask", "answer"}
    /\ review.at = "asked" \/ review.answer # None => results # None
    /\ review.answer # None =>
          /\ \E w \in 1 .. Len(log) : /\ review.ranTask \in DOMAIN log[w].snap
                                      /\ review.answer = log[w].snap[review.ranTask]
          /\ log = read => /\ review.ranTask \in TaskIdsIn(log)
                           /\ review.answer = FinalTaskSnapshots(log)[review.ranTask]

ReviewInv == LogIsTyped /\ VerdictIsOfRead /\ ReviewIsOfLog

LEMMA LogIsSeq == ASSUME LogIsTyped PROVE DOMAIN log = 1 .. Len(log) /\ Len(log) \in Nat
  BY DEF LogIsTyped

\* The files of a task that some window has are those of a window.
LEMMA FinalIsOfWindow ==
    ASSUME LogIsTyped, NEW t, \E w \in 1 .. Len(log) : t \in DOMAIN log[w].snap
    PROVE  \E w \in 1 .. Len(log) : /\ t \in DOMAIN log[w].snap
                                    /\ t \in TaskIdsIn(log)
                                          => FinalTaskSnapshots(log)[t] = log[w].snap[t]
<1> DEFINE carrying == {w \in DOMAIN log : t \in DOMAIN log[w].snap}
<1>1. DOMAIN log = 1 .. Len(log) /\ Len(log) \in Nat
  BY LogIsSeq
<1>2. t \in TaskIdsIn(log) =>
        FinalTaskSnapshots(log)[t] = IF carrying = {} THEN NoFiles ELSE log[Max(carrying)].snap[t]
  BY DEF FinalTaskSnapshots
<1>3. carrying = 1 .. Len(log) /\ Len(log) # 0
  BY <1>1 DEF LogIsTyped
<1> HIDE DEF carrying
<1>4. Len(log) \in carrying /\ \A w \in carrying : Len(log) >= w
  BY <1>1, <1>3
<1>5. Max(carrying) \in carrying
  BY <1>4 DEF Max
<1>6. t \in DOMAIN log[Max(carrying)].snap /\ Max(carrying) \in 1 .. Len(log) /\ carrying # {}
  BY <1>1, <1>3, <1>5 DEF LogIsTyped
<1>7. QED
  BY <1>2, <1>6

LEMMA LastWindowHasAll ==
    ASSUME LogIsTyped, NEW t \in TaskIdsIn(log)
    PROVE  FinalTaskSnapshots(log)[t] \in Files
<1>1. CASE \E w \in 1 .. Len(log) : t \in DOMAIN log[w].snap
  BY <1>1, FinalIsOfWindow DEF LogIsTyped
<1>2. CASE ~ \E w \in 1 .. Len(log) : t \in DOMAIN log[w].snap
  <2> DEFINE carrying == {w \in DOMAIN log : t \in DOMAIN log[w].snap}
  <2>1. carrying = {}
    BY <1>2, LogIsSeq
  <2>2. FinalTaskSnapshots(log)[t] = IF carrying = {} THEN NoFiles
                                     ELSE log[Max(carrying)].snap[t]
    BY DEF FinalTaskSnapshots
  <2>3. QED
    BY <2>1, <2>2 DEF NoFiles, Files
<1>3. QED
  BY <1>1, <1>2

LEMMA TaskIsJudgedByItsFiles ==
    ASSUME LogIsTyped, NEW t \in TaskIdsIn(log), NEW counts, NEW perTask
    PROVE  LET r == TaskReadings(log, t, counts, perTask)
           IN  /\ r.length = FinalTaskSnapshots(log)[t].len
               /\ r.astAudit.flag = FinalTaskSnapshots(log)[t].construct
<1> DEFINE final == FinalTaskSnapshots(log)[t]
           own == [u \in {t} |-> final]
           runsOf == RunCountForTask(perTask, t, counts, Cardinality(TaskIdsIn(log)))
           events == LogOfTask(log, t)
           bursts == BurstsOfTask(log, t)
           a == LowRuns(runsOf)
           b == MarkInconclusive(LinearInjection(events), final.len)
           c == MarkInconclusive(RoboticVariance(bursts, events), final.len)
           d == Authorship(events, final.len)
           e == Audit(own)
           r == TaskReadings(log, t, counts, perTask)
<1>1. r = [metricA |-> a, metricB |-> b, metricC |-> c, authorship |-> d, astAudit |-> e,
           length |-> final.len]
  BY DEF TaskReadings, Readings
<1>2. e.flag = final.construct
  <2>1. final \in Files
    BY LastWindowHasAll
  <2> HIDE DEF final
  <2>2. final.construct \in BOOLEAN
    BY <2>1 DEF Files
  <2>3. e.flag = (\E u \in {t} : own[u].construct)
    BY DEF Audit
  <2>4. own[t] = final
    OBVIOUS
  <2>5. QED
    BY <2>2, <2>3, <2>4
<1> HIDE DEF a, b, c, d, e, r, final
<1>3. r.length = final.len /\ r.astAudit.flag = final.construct
  BY <1>1, <1>2
<1>4. QED
  BY <1>3 DEF r, final

LEMMA LogStart == Init => ReviewInv
<1> SUFFICES ASSUME Init PROVE ReviewInv
  OBVIOUS
<1>1. PICK exam \in Exams : code = [t \in exam |-> NoFiles]
  BY DEF Init
<1>2. code \in [DOMAIN code -> Files]
  BY <1>1 DEF NoFiles, Files
<1>3. log \in Seq({}) /\ Len(log) = 0
  BY DEF Init
<1>4. QED
  BY <1>2, <1>3 DEF Init, ConsoleInit, ReviewInv, LogIsTyped, VerdictIsOfRead, ReviewIsOfLog

\* Neither the programs nor the windows change.
LEMMA RecordStays ==
    ASSUME ReviewInv, UNCHANGED <<code, log, sent, results, read>>, ReviewIsOfLog'
    PROVE  ReviewInv'
<1>1. LogIsTyped'
  BY DEF ReviewInv, LogIsTyped
<1>2. VerdictIsOfRead'
  BY DEF ReviewInv, VerdictIsOfRead
<1>3. QED
  BY <1>1, <1>2 DEF ReviewInv

LEMMA ReviewWaits ==
    ASSUME ReviewInv, results = None, UNCHANGED review
    PROVE  ReviewIsOfLog'
  BY DEF ReviewInv, ReviewIsOfLog

LEMMA EditKeepsLog ==
    ASSUME ReviewInv, NEW t \in DOMAIN code, NEW files \in Files, NEW event, Edit(t, files, event)
    PROVE  ReviewInv'
<1>1. /\ results = None /\ UNCHANGED <<log, sent, results, review>>
      /\ code' = [code EXCEPT ![t] = files]
  BY DEF Edit, verdict
<1>2. LogIsTyped'
  BY <1>1 DEF ReviewInv, LogIsTyped
<1>3. VerdictIsOfRead'
  BY <1>1 DEF VerdictIsOfRead
<1>4. QED
  BY <1>1, <1>2, <1>3, ReviewWaits DEF ReviewInv

LEMMA EventsKeepLog ==
    ASSUME ReviewInv, NEW t \in DOMAIN code,
           \/ \E gap \in Gaps : Type(t, gap)
           \/ Complete(t) \/ Delete(t) \/ TypeData(t)
           \/ \E construct \in BOOLEAN : Paste(t, construct)
    PROVE  ReviewInv'
<1>1. code[t] \in Files
  BY DEF ReviewInv, LogIsTyped
<1>2. \A n \in Int : Longer(t, n) \in Files
  <2> SUFFICES ASSUME NEW n \in Int PROVE Longer(t, n) \in Files
    OBVIOUS
  <2> DEFINE f == code[t]
  <2>1. Longer(t, n) = [f EXCEPT !.len = @ + n]
    BY DEF Longer
  <2>2. f \in Files
    BY <1>1
  <2> HIDE DEF f
  <2>3. QED
    BY <2>1, <2>2 DEF Files
<1>3. \A construct \in BOOLEAN : [len |-> PasteLen, construct |-> construct] \in Files
  BY ReportAssumption DEF Files
<1>4. CASE \E gap \in Gaps : Type(t, gap)
  <2>1. PICK gap \in Gaps : Edit(t, Longer(t, 1), Event(t, TRUE, "type", 1, gap))
    BY <1>4 DEF Type
  <2>2. Longer(t, 1) \in Files
    BY <1>2
  <2>3. QED
    BY <2>1, <2>2, EditKeepsLog
<1>5. CASE Complete(t)
  <2>1. Edit(t, Longer(t, 3), Event(t, TRUE, "type", 3, Min(Gaps)))
    BY <1>5 DEF Complete
  <2>2. Longer(t, 3) \in Files
    BY <1>2
  <2>3. QED
    BY <2>1, <2>2, EditKeepsLog
<1>6. CASE Delete(t)
  <2>1. Edit(t, Longer(t, -1), Event(t, TRUE, "delete", 0, Min(Gaps)))
    BY <1>6 DEF Delete
  <2>2. Longer(t, -1) \in Files
    BY <1>2
  <2>3. QED
    BY <2>1, <2>2, EditKeepsLog
<1>7. CASE TypeData(t)
  <2>1. Edit(t, code[t], Event(t, FALSE, "type", 1, Min(Gaps)))
    BY <1>7 DEF TypeData
  <2>2. QED
    BY <1>1, <2>1, EditKeepsLog
<1>8. CASE \E construct \in BOOLEAN : Paste(t, construct)
  BY <1>3, <1>8, EditKeepsLog DEF Paste
<1>9. QED
  BY <1>4, <1>5, <1>6, <1>7, <1>8

\* A window joins the record, and may leave the network for it.
LEMMA WindowKeepsLog ==
    ASSUME LogIsTyped, NEW window, window.snap \in [DOMAIN code -> Files],
           UNCHANGED code, log' = Append(log, window), sent' = None \/ UNCHANGED sent
    PROVE  /\ LogIsTyped' /\ Len(log) \in Nat /\ Len(log') = Len(log) + 1
           /\ \A w \in 1 .. Len(log) : log'[w] = log[w]
<1>1. PICK S : log \in Seq(S)
  BY DEF LogIsTyped
<1>2. /\ log' \in Seq(S \cup {window}) /\ Len(log) \in Nat /\ Len(log') = Len(log) + 1
      /\ \A w \in 1 .. Len(log) : log'[w] = log[w]
      /\ log'[Len(log) + 1] = window
  <2>1. log \in Seq(S \cup {window})
    BY <1>1
  <2>2. QED
    BY <2>1
<1>3. \A w \in 1 .. Len(log') : w \in 1 .. Len(log) \/ w = Len(log) + 1
  BY <1>2
<1>4. \A w \in 1 .. Len(log') : log'[w].snap \in [DOMAIN code -> Files]
  BY <1>2, <1>3 DEF LogIsTyped
<1>5. LogIsTyped'
  BY <1>2, <1>4 DEF LogIsTyped
<1>6. QED
  BY <1>2, <1>5

LEMMA FlushKeepsLog == ASSUME ReviewInv, Flush \/ Post PROVE ReviewInv'
<1>1. /\ results = None /\ UNCHANGED <<code, results, review>>
      /\ Window.snap = code /\ code \in [DOMAIN code -> Files] /\ LogIsTyped
  BY DEF Flush, Post, running, verdict, Window, ReviewInv, LogIsTyped
<1>4. LogIsTyped'
  <2>1. CASE Flush
    <3>1. log' = Append(log, Window) /\ UNCHANGED sent
      BY <2>1 DEF Flush
    <3>2. QED
      BY <1>1, <3>1, WindowKeepsLog
  <2>2. CASE Post
    <3>1. UNCHANGED log /\ sent' = Window
      BY <2>2 DEF Post
    <3>2. QED
      BY <1>1, <3>1 DEF LogIsTyped
  <2>3. QED
    BY <2>1, <2>2
<1>5. VerdictIsOfRead'
  BY <1>1 DEF VerdictIsOfRead
<1>6. QED
  BY <1>1, <1>4, <1>5, ReviewWaits DEF ReviewInv

LEMMA LandKeepsLog == ASSUME ReviewInv, Land PROVE ReviewInv'
<1>1. /\ UNCHANGED <<code, results, read, review>> /\ sent # None
      /\ log' = Append(log, sent) /\ sent' = None
  BY DEF Land, running, verdict
<1>2. /\ LogIsTyped' /\ Len(log) \in Nat /\ Len(log') = Len(log) + 1
      /\ \A w \in 1 .. Len(log) : log'[w] = log[w]
  <2>1. LogIsTyped /\ sent.snap \in [DOMAIN code -> Files]
    BY <1>1 DEF ReviewInv, LogIsTyped
  <2>2. QED
    BY <1>1, <2>1, WindowKeepsLog
<1>3. VerdictIsOfRead'
  BY <1>1, <1>2 DEF ReviewInv, VerdictIsOfRead
<1>4. results # None => log' # read
  BY <1>2 DEF ReviewInv, VerdictIsOfRead
<1>5. ReviewIsOfLog'
  <2>1. ASSUME review.answer # None
        PROVE  \E w \in 1 .. Len(log') : /\ review.ranTask \in DOMAIN log'[w].snap
                                         /\ review.answer = log'[w].snap[review.ranTask]
    <3>1. PICK w \in 1 .. Len(log) : /\ review.ranTask \in DOMAIN log[w].snap
                                     /\ review.answer = log[w].snap[review.ranTask]
      BY <2>1 DEF ReviewInv, ReviewIsOfLog
    <3>2. w \in 1 .. Len(log') /\ log'[w] = log[w]
      BY <1>2
    <3>3. QED
      BY <3>1, <3>2
  <2>2. QED
    BY <1>1, <1>4, <2>1 DEF ReviewInv, ReviewIsOfLog
<1>6. QED
  BY <1>2, <1>3, <1>5 DEF ReviewInv

LEMMA AnalyseKeepsLog == ASSUME ReviewInv, Analyse PROVE ReviewInv'
<1>1. /\ results = None /\ UNCHANGED <<code, log, sent, review>> /\ read' = log
      /\ results'.tasks = [t \in TaskIdsIn(log) |-> TaskReadings(log, t, runs, byTask)]
  BY DEF Analyse, ForensicsResults, editing, running
<1>2. LogIsTyped /\ LogIsTyped' /\ Len(log) \in Nat
  BY <1>1, LogIsSeq DEF ReviewInv, LogIsTyped
<1>3. VerdictIsOfRead'
  BY <1>1, <1>2, TaskIsJudgedByItsFiles DEF VerdictIsOfRead
<1>4. QED
  BY <1>1, <1>2, <1>3, ReviewWaits DEF ReviewInv

LEMMA ReviewKeepsLog ==
    ASSUME ReviewInv, ReviewRunEnds \/ \E task \in DOMAIN code \cup {None} : ReviewRun(task)
    PROVE  ReviewInv'
<1>1. /\ UNCHANGED <<code, log, sent, results, read>>
      /\ DOMAIN review = {"at", "of", "ranTask", "answer"}
  BY DEF ReviewRunEnds, ReviewRun, editing, verdict, ReviewInv, ReviewIsOfLog
<1>2. CASE \E task \in DOMAIN code \cup {None} : ReviewRun(task)
  <2>1. results # None /\ review'.answer = None /\ DOMAIN review' = DOMAIN review
    BY <1>1, <1>2 DEF ReviewRun, StartReview
  <2>2. QED
    BY <1>1, <2>1, RecordStays DEF ReviewIsOfLog
<1>3. CASE ReviewRunEnds /\ ReviewRefused
  <2>1. results # None /\ review'.answer = review.answer /\ review'.ranTask = review.ranTask
        /\ DOMAIN review' = DOMAIN review
    BY <1>1, <1>3 DEF ReviewRefused, ReviewInv, ReviewIsOfLog
  <2>2. QED
    BY <1>1, <2>1, RecordStays DEF ReviewInv, ReviewIsOfLog
<1>4. CASE ReviewRunEnds /\ ReviewAnswered(log)
  <2> DEFINE t == SelectTask(log, review.of)
  <2>1. /\ review.at = "asked" /\ t # None /\ SnapshotOf(log, t) # None
        /\ review' = [review EXCEPT !.at = "idle", !.ranTask = t, !.answer = SnapshotOf(log, t)]
    BY <1>4 DEF ReviewAnswered
  <2>2. results # None
    BY <2>1 DEF ReviewInv, ReviewIsOfLog
  <2> HIDE DEF t
  <2>3. /\ SnapshotOf(log, t) = FinalTaskSnapshots(log)[t] /\ t \in TaskIdsIn(log)
        /\ \E w \in DOMAIN log : t \in DOMAIN log[w].snap
    BY <2>1 DEF SnapshotOf, TaskIdsIn
  <2>4. /\ DOMAIN review' = {"at", "of", "ranTask", "answer"}
        /\ review'.ranTask = t /\ review'.answer = FinalTaskSnapshots(log)[t]
    BY <1>1, <2>1, <2>3
  <2>5. LogIsTyped /\ DOMAIN log = 1 .. Len(log)
    BY LogIsSeq DEF ReviewInv
  <2>6. \E w \in 1 .. Len(log) : /\ t \in DOMAIN log[w].snap
                                 /\ FinalTaskSnapshots(log)[t] = log[w].snap[t]
    BY <2>3, <2>5, FinalIsOfWindow
  <2>7. ReviewIsOfLog'
    BY <1>1, <2>2, <2>3, <2>4, <2>6 DEF ReviewIsOfLog
  <2>8. QED
    BY <1>1, <2>7, RecordStays
<1>5. QED
  BY <1>2, <1>3, <1>4 DEF ReviewRunEnds

LEMMA ReviewStep == ReviewInv /\ [Next]_vars => ReviewInv'
<1> SUFFICES ASSUME ReviewInv, [Next]_vars PROVE ReviewInv'
  OBVIOUS
<1> DEFINE Kept == UNCHANGED <<code, log, sent, results, read, review>>
<1>1. CASE Kept
  BY <1>1, RecordStays DEF ReviewInv, ReviewIsOfLog
<1>2. ASSUME NEW t \in DOMAIN code, Run(t) PROVE Kept
  BY <1>2 DEF Run, StartRun, editing, verdict
<1>3. Reload \/ RunStep => Kept
  <2>1. Reload => Kept
    BY DEF Reload, ReloadPage, editing, verdict
  <2>2. RunStep => UNCHANGED <<code, log, sent, results, read>>
    BY DEF RunStep, editing, verdict
  <2>3. RunStep => UNCHANGED review
    BY DEF RunStep, Execute, Refuse, CountRun, Answer, BreakRun, Clear
  <2>4. QED
    BY <2>1, <2>2, <2>3
<1>4. Judging => Kept
  BY JudgingIsReviewing DEF Reviewing, editing, running, verdict
<1>5. UNCHANGED vars => Kept
  BY DEF vars
<1> HIDE DEF Kept
<1>6. QED
  BY <1>1, <1>2, <1>3, <1>4, <1>5, EventsKeepLog, FlushKeepsLog, LandKeepsLog, AnalyseKeepsLog,
     ReviewKeepsLog DEF Next, Judging

\* Whatever was typed, flushed and run, whichever task the instructor asks for,
\* and also when windows arrive after the verdict: the run shows a program that
\* was recorded for its task, and the one the report measured and audited as
\* long as the record is the one the worker read.
THEOREM JudgedProgramRuns == Spec => []ReviewRunsWhatWasJudged
<1>1. ReviewInv => ReviewRunsWhatWasJudged
  <2> SUFFICES ASSUME ReviewInv, review.answer # None PROVE ReviewRunsWhatWasJudged
    BY DEF ReviewRunsWhatWasJudged
  <2>1. results # None /\ DOMAIN log = 1 .. Len(log)
    BY LogIsSeq DEF ReviewInv, ReviewIsOfLog
  <2>2. QED
    BY <2>1 DEF ReviewInv, VerdictIsOfRead, ReviewIsOfLog, ReviewRunsWhatWasJudged
<1>2. QED
  BY <1>1, LogStart, ReviewStep, PTL DEF Spec

-----------------------------------------------------------------------------
(***************************************************************************)
(* Induction and recursion over the naturals, from the well-foundedness of *)
(* their order.                                                            *)
(***************************************************************************)
LEMMA LeastNat ==
    ASSUME NEW T, T \subseteq Nat, T # {}
    PROVE  \E n \in T : \A m \in T : n <= m
<1>1. PICK n \in T : \A m \in T : <<m, n>> \notin OpToRel(<, Nat)
  BY NatLessThanWellFounded, WFMin
<1>2. \A m \in T : ~(m < n)
  <2> SUFFICES ASSUME NEW m \in T, m < n PROVE FALSE
    OBVIOUS
  <2>1. <<m, n>> \in OpToRel(<, Nat)
    BY DEF OpToRel
  <2>2. QED
    BY <1>1, <2>1
<1>3. QED
  BY <1>2

LEMMA NatInd ==
    ASSUME NEW S, S \subseteq Nat, 0 \in S, \A n \in S : n + 1 \in S
    PROVE  S = Nat
<1> DEFINE T == Nat \ S
<1>1. SUFFICES ASSUME T # {} PROVE FALSE
  OBVIOUS
<1>2. PICK n \in T : \A m \in T : n <= m
  BY <1>1, LeastNat
<1>3. n # 0 /\ n - 1 \in Nat /\ n - 1 \notin T
  BY <1>2
<1>4. QED
  BY <1>3

\* A recursion that steps from i - 1 to i has a solution.
Solves(g, n, D, base, step) ==
    /\ g \in [0 .. n -> D] /\ g[0] = base
    /\ \A i \in 1 .. n : g[i] = step[<<i, g[i - 1]>>]

LEMMA Iterates ==
    ASSUME NEW n \in Nat, NEW D, NEW base \in D, NEW step \in [(1 .. n) \X D -> D]
    PROVE  \E g : Solves(g, n, D, base, step)
<1> DEFINE Sol(g, k) == Solves(g, k, D, base, step)
           S == {k \in Nat : k <= n => \E g : Sol(g, k)}
<1>1. 0 \in S
  <2>1. Sol([i \in 0 .. 0 |-> base], 0)
    BY DEF Solves
  <2> HIDE DEF Sol
  <2>2. QED
    BY <2>1
<1>2. ASSUME NEW k \in S PROVE k + 1 \in S
  <2> SUFFICES ASSUME k + 1 <= n PROVE \E g : Sol(g, k + 1)
    OBVIOUS
  <2>1. k \in Nat /\ k <= n
    OBVIOUS
  <2>2. PICK g : Sol(g, k)
    BY <2>1
  <2> DEFINE h == [i \in 0 .. (k + 1) |-> IF i = k + 1 THEN step[<<k + 1, g[k]>>] ELSE g[i]]
  <2>3. g[k] \in D /\ step[<<k + 1, g[k]>>] \in D
    BY <2>1, <2>2 DEF Solves
  <2>4. h \in [0 .. (k + 1) -> D] /\ h[0] = base
    BY <2>1, <2>2, <2>3 DEF Solves
  <2>5. ASSUME NEW i \in 1 .. (k + 1) PROVE h[i] = step[<<i, h[i - 1]>>]
    <3>1. i - 1 \in 0 .. k /\ h[i - 1] = g[i - 1]
      BY <2>1
    <3>2. CASE i = k + 1
      <4>1. h[k + 1] = step[<<k + 1, g[k]>>] /\ (k + 1) - 1 = k
        BY <2>1
      <4>2. QED
        BY <3>1, <3>2, <4>1
    <3>3. CASE i # k + 1
      <4>1. i \in 1 .. k /\ h[i] = g[i]
        BY <2>1, <3>3
      <4>2. QED
        BY <2>2, <3>1, <4>1 DEF Solves
    <3>4. QED
      BY <3>2, <3>3
  <2> HIDE DEF h
  <2>6. QED
    BY <2>4, <2>5 DEF Solves
<1>3. S = Nat
  <2> HIDE DEF S
  <2>1. S \subseteq Nat
    BY DEF S
  <2>2. QED
    BY <1>1, <1>2, <2>1, NatInd
<1>4. QED
  BY <1>3

(***************************************************************************)
(* Sums over finite sets.  A sum takes its set apart one chosen element    *)
(* after the other, in the same order whatever is summed.                  *)
(***************************************************************************)
Chosen(s) == CHOOSE x \in s : TRUE

Sums(g, f, S) ==
    \A s \in SUBSET S : g[s] = IF s = {} THEN 0 ELSE f[Chosen(s)] + g[s \ {Chosen(s)}]

\* What holds of no element, and of a set when of the set without its chosen
\* element, holds of all subsets.
LEMMA SubsetInd ==
    ASSUME NEW S, IsFiniteSet(S), NEW G, {} \in G,
           \A s \in SUBSET S : s # {} /\ s \ {Chosen(s)} \in G => s \in G
    PROVE  \A s \in SUBSET S : s \in G
<1> DEFINE N == {n \in Nat : \A s \in SUBSET S : Cardinality(s) = n => s \in G}
<1>1. \A s \in SUBSET S : IsFiniteSet(s) /\ Cardinality(s) \in Nat
  BY FS_Subset, FS_CardinalityType
<1>2. 0 \in N
  <2>1. \A s \in SUBSET S : Cardinality(s) = 0 => s = {}
    BY <1>1, FS_EmptySet
  <2>2. QED
    BY <2>1
<1>3. ASSUME NEW n \in N PROVE n + 1 \in N
  <2>1. n \in Nat /\ \A s \in SUBSET S : Cardinality(s) = n => s \in G
    OBVIOUS
  <2>2. ASSUME NEW s \in SUBSET S, Cardinality(s) = n + 1 PROVE s \in G
    <3>1. s # {}
      <4>1. Cardinality({}) = 0
        BY FS_EmptySet
      <4>2. Cardinality(s) # 0
        BY <2>1, <2>2
      <4>3. QED
        BY <4>1, <4>2
    <3>2. Chosen(s) \in s
      BY <3>1 DEF Chosen
    <3>3. Cardinality(s \ {Chosen(s)}) = n
      BY <1>1, <2>1, <2>2, <3>2, FS_RemoveElement
    <3>4. QED
      BY <2>1, <3>1, <3>3
  <2>3. QED
    BY <2>1, <2>2
<1>4. N = Nat
  <2> HIDE DEF N
  <2>1. N \subseteq Nat
    BY DEF N
  <2>2. QED
    BY <1>2, <1>3, <2>1, NatInd
<1>5. QED
  BY <1>1, <1>4

\* The recursion of a sum has a solution.
SumStep(g, f, S) ==
    [s \in SUBSET S |-> IF s = {} THEN 0 ELSE f[Chosen(s)] + g[s \ {Chosen(s)}]]

LEMMA SumsExist ==
    ASSUME NEW S, IsFiniteSet(S), NEW f
    PROVE  \E g : g = SumStep(g, f, S)
<1> DEFINE E(g, s) == IF s = {} THEN 0 ELSE f[Chosen(s)] + g[s \ {Chosen(s)}]
           Sol(g, n) == \A s \in SUBSET S : Cardinality(s) <= n => g[s] = E(g, s)
           N == {n \in Nat : \E g : Sol(g, n)}
<1>1. \A s \in SUBSET S : IsFiniteSet(s) /\ Cardinality(s) \in Nat
  BY FS_Subset, FS_CardinalityType
<1>2. \A s \in SUBSET S : s # {} => /\ s \ {Chosen(s)} \in SUBSET S
                                    /\ Cardinality(s \ {Chosen(s)}) = Cardinality(s) - 1
  <2> SUFFICES ASSUME NEW s \in SUBSET S, s # {}
               PROVE  /\ s \ {Chosen(s)} \in SUBSET S
                      /\ Cardinality(s \ {Chosen(s)}) = Cardinality(s) - 1
    OBVIOUS
  <2>1. Chosen(s) \in s
    BY DEF Chosen
  <2>2. QED
    BY <1>1, <2>1, FS_RemoveElement
<1>3. 0 \in N
  <2> DEFINE z == [s \in SUBSET S |-> 0]
  <2>1. \A s \in SUBSET S : Cardinality(s) <= 0 => s = {}
    BY <1>1, FS_EmptySet
  <2>2. Sol(z, 0)
    BY <2>1
  <2> HIDE DEF Sol
  <2>3. QED
    BY <2>2
<1>4. ASSUME NEW n \in N PROVE n + 1 \in N
  <2>1. PICK g : Sol(g, n)
    <3> HIDE DEF Sol
    <3>1. QED
      OBVIOUS
  <2>2. n \in Nat
    OBVIOUS
  <2> DEFINE h == [s \in SUBSET S |-> IF Cardinality(s) <= n THEN g[s] ELSE E(g, s)]
  <2>3. ASSUME NEW s \in SUBSET S, Cardinality(s) <= n + 1 PROVE h[s] = E(h, s)
    <3>1. CASE s = {}
      <4>1. h[s] = E(g, s)
        BY <2>1, <3>1
      <4>2. QED
        BY <3>1, <4>1
    <3>2. CASE s # {}
      <4> DEFINE r == s \ {Chosen(s)}
      <4>1. r \in SUBSET S /\ Cardinality(r) <= n
        BY <1>1, <1>2, <2>2, <2>3, <3>2
      <4>2. h[r] = g[r]
        BY <4>1
      <4>3. h[s] = E(g, s)
        BY <2>1
      <4> HIDE DEF h
      <4>4. QED
        BY <3>2, <4>2, <4>3
    <3>3. QED
      BY <3>1, <3>2
  <2> HIDE DEF h, E
  <2>4. Sol(h, n + 1)
    BY <2>3
  <2> HIDE DEF Sol
  <2>5. QED
    BY <2>2, <2>4
<1>5. N = Nat
  <2> HIDE DEF N
  <2>1. N \subseteq Nat
    BY DEF N
  <2>2. QED
    BY <1>3, <1>4, <2>1, NatInd
<1>6. PICK g : Sol(g, Cardinality(S))
  <2>1. Cardinality(S) \in N
    BY <1>1, <1>5
  <2> HIDE DEF Sol
  <2>2. QED
    BY <2>1
<1> DEFINE h == [s \in SUBSET S |-> g[s]]
<1>7. ASSUME NEW s \in SUBSET S PROVE h[s] = E(h, s)
  <2>1. Cardinality(s) <= Cardinality(S)
    BY FS_Subset
  <2>2. h[s] = E(g, s)
    BY <1>6, <2>1
  <2>3. s # {} => h[s \ {Chosen(s)}] = g[s \ {Chosen(s)}]
    BY <1>2
  <2> HIDE DEF h
  <2>4. QED
    BY <2>2, <2>3
<1>8. h = [s \in SUBSET S |-> E(h, s)]
  <2> HIDE DEF E
  <2>1. QED
    BY <1>7
<1>9. h = SumStep(h, f, S)
  BY <1>8 DEF SumStep
<1> HIDE DEF h
<1>10. QED
  BY <1>9

LEMMA SumHas ==
    ASSUME NEW S, IsFiniteSet(S), NEW f
    PROVE  \E g : Sums(g, f, S) /\ SumFunctionOnSet(f, S) = g[S]
<1> DEFINE iter == CHOOSE g : g = SumStep(g, f, S)
<1>1. SumFunctionOnSet(f, S) = iter[S]
  BY DEF SumFunctionOnSet, FoldFunctionOnSet, MapThenFoldSet, Chosen, SumStep
<1>2. iter = SumStep(iter, f, S)
  BY SumsExist
<1> HIDE DEF iter
<1>3. Sums(iter, f, S)
  BY <1>2 DEF Sums, SumStep
<1>4. QED
  BY <1>1, <1>3

\* A sum of naturals is one, and nothing when all of them are.
LEMMA SumOfNats ==
    ASSUME NEW S, IsFiniteSet(S), NEW f, \A x \in S : f[x] \in Nat
    PROVE  /\ SumFunctionOnSet(f, S) \in Nat
           /\ SumFunctionOnSet(f, S) = 0 <=> \A x \in S : f[x] = 0
<1>1. PICK g : Sums(g, f, S) /\ SumFunctionOnSet(f, S) = g[S]
  BY SumHas
<1> DEFINE G == {s \in SUBSET S : g[s] \in Nat /\ (g[s] = 0 <=> \A x \in s : f[x] = 0)}
<1>2. {} \in G
  <2>1. g[{}] = 0
    <3>1. {} \in SUBSET S
      OBVIOUS
    <3>2. QED
      BY <1>1, <3>1 DEF Sums
  <2>2. QED
    BY <2>1
<1>3. ASSUME NEW s \in SUBSET S, s # {}, s \ {Chosen(s)} \in G PROVE s \in G
  <2> DEFINE r == s \ {Chosen(s)}
  <2>1. Chosen(s) \in s
    BY <1>3 DEF Chosen
  <2>2. g[s] = f[Chosen(s)] + g[r]
    BY <1>1, <1>3 DEF Sums
  <2>3. g[r] \in Nat /\ (g[r] = 0 <=> \A x \in r : f[x] = 0)
    BY <1>3
  <2>4. \A x : x \in s <=> x \in r \/ x = Chosen(s)
    BY <2>1
  <2>5. f[Chosen(s)] \in Nat
    BY <2>1
  <2> HIDE DEF r
  <2>6. QED
    BY <2>2, <2>3, <2>4, <2>5
<1>4. S \in G
  <2> HIDE DEF G
  <2>1. QED
    BY <1>2, <1>3, SubsetInd
<1>5. QED
  BY <1>1, <1>4

\* One more at one place is one more in the sum.
LEMMA SumBump ==
    ASSUME NEW S, IsFiniteSet(S), NEW f, NEW h, NEW t, NEW n \in Nat,
           \A x \in S : f[x] \in Nat /\ h[x] = IF x = t THEN f[x] + n ELSE f[x]
    PROVE  SumFunctionOnSet(h, S) = SumFunctionOnSet(f, S) + IF t \in S THEN n ELSE 0
<1>1. PICK g : Sums(g, f, S) /\ SumFunctionOnSet(f, S) = g[S]
  BY SumHas
<1>2. PICK k : Sums(k, h, S) /\ SumFunctionOnSet(h, S) = k[S]
  BY SumHas
<1> DEFINE G == {s \in SUBSET S : g[s] \in Nat /\ k[s] = g[s] + IF t \in s THEN n ELSE 0}
<1>3. {} \in G
  <2>1. {} \in SUBSET S
    OBVIOUS
  <2>2. g[{}] = 0 /\ k[{}] = 0
    BY <1>1, <1>2, <2>1 DEF Sums
  <2>3. QED
    BY <2>2
<1>4. ASSUME NEW s \in SUBSET S, s # {}, s \ {Chosen(s)} \in G PROVE s \in G
  <2> DEFINE c == Chosen(s)
             r == s \ {c}
  <2>1. c \in s
    BY <1>4 DEF Chosen
  <2>2. g[s] = f[c] + g[r] /\ k[s] = h[c] + k[r]
    BY <1>1, <1>2, <1>4 DEF Sums
  <2>3. g[r] \in Nat /\ k[r] = g[r] + IF t \in r THEN n ELSE 0
    BY <1>4
  <2>4. f[c] \in Nat /\ h[c] = IF c = t THEN f[c] + n ELSE f[c]
    BY <2>1
  <2>5. t \in r <=> t \in s /\ t # c
    OBVIOUS
  <2> HIDE DEF r, c
  <2>6. g[s] \in Nat
    BY <2>2, <2>3, <2>4
  <2>7. k[s] = g[s] + IF t \in s THEN n ELSE 0
    <3>1. CASE c = t
      BY <2>1, <2>2, <2>3, <2>4, <2>5, <3>1
    <3>2. CASE c # t
      BY <2>1, <2>2, <2>3, <2>4, <2>5, <3>2
    <3>3. QED
      BY <3>1, <3>2
  <2>8. QED
    BY <2>6, <2>7
<1>5. S \in G
  <2> HIDE DEF G
  <2>1. QED
    BY <1>3, <1>4, SubsetInd
<1>6. QED
  BY <1>1, <1>2, <1>5

\* A sum of larger naturals is no smaller.
LEMMA SumGrows ==
    ASSUME NEW S, IsFiniteSet(S), NEW f, NEW h,
           \A x \in S : f[x] \in Nat /\ h[x] \in Nat /\ f[x] <= h[x]
    PROVE  SumFunctionOnSet(f, S) <= SumFunctionOnSet(h, S)
<1>1. PICK g : Sums(g, f, S) /\ SumFunctionOnSet(f, S) = g[S]
  BY SumHas
<1>2. PICK k : Sums(k, h, S) /\ SumFunctionOnSet(h, S) = k[S]
  BY SumHas
<1> DEFINE G == {s \in SUBSET S : g[s] \in Nat /\ k[s] \in Nat /\ g[s] <= k[s]}
<1>3. {} \in G
  <2>1. {} \in SUBSET S
    OBVIOUS
  <2>2. g[{}] = 0 /\ k[{}] = 0
    BY <1>1, <1>2, <2>1 DEF Sums
  <2>3. QED
    BY <2>2
<1>4. ASSUME NEW s \in SUBSET S, s # {}, s \ {Chosen(s)} \in G PROVE s \in G
  <2> DEFINE c == Chosen(s)
             r == s \ {c}
  <2>1. c \in s
    BY <1>4 DEF Chosen
  <2>2. g[s] = f[c] + g[r] /\ k[s] = h[c] + k[r]
    BY <1>1, <1>2, <1>4 DEF Sums
  <2>3. g[r] \in Nat /\ k[r] \in Nat /\ g[r] <= k[r]
    BY <1>4
  <2>4. f[c] \in Nat /\ h[c] \in Nat /\ f[c] <= h[c]
    BY <2>1
  <2> HIDE DEF r, c
  <2>5. QED
    BY <2>2, <2>3, <2>4
<1>5. S \in G
  <2> HIDE DEF G
  <2>1. QED
    BY <1>3, <1>4, SubsetInd
<1>6. QED
  BY <1>1, <1>2, <1>5

-----------------------------------------------------------------------------
(***************************************************************************)
(* What is recorded: windows and events of the tasks of the exam.          *)
(***************************************************************************)
IsEvents(bag) ==
    /\ IsFiniteSet(DOMAIN bag)
    /\ \A e \in DOMAIN bag : e.task \in DOMAIN code /\ e.chars \in Nat /\ bag[e] \in Nat

RecordIsTyped ==
    /\ DOMAIN code \in Exams
    /\ IsEvents(buffer)
    /\ \A w \in DOMAIN log : "events" \in DOMAIN log[w] /\ IsEvents(log[w].events)
    /\ sent # None => "events" \in DOMAIN sent /\ IsEvents(sent.events)

LEMMA RecordStart == Init => RecordIsTyped
<1> SUFFICES ASSUME Init PROVE RecordIsTyped
  OBVIOUS
<1>1. DOMAIN code \in Exams
  BY DEF Init
<1>2. DOMAIN buffer = {} /\ DOMAIN log = {} /\ sent = None
  BY DEF Init
<1>3. IsFiniteSet({})
  BY FS_EmptySet
<1>4. QED
  BY <1>1, <1>2, <1>3 DEF RecordIsTyped, IsEvents

\* One more event in the buffer.
LEMMA EventIsRecorded ==
    ASSUME RecordIsTyped, NEW t \in DOMAIN code, NEW files, NEW event, event.task = t,
           event.chars \in Nat, Edit(t, files, event)
    PROVE  RecordIsTyped'
<1> DEFINE one == SetToBag({event})
<1>1. /\ UNCHANGED <<log, sent>> /\ DOMAIN code' = DOMAIN code
      /\ buffer' = buffer (+) one
  BY DEF Edit
<1>2. DOMAIN one = {event} /\ one[event] = 1
  BY DEF SetToBag
<1> HIDE DEF one
<1>3. /\ DOMAIN buffer' = DOMAIN buffer \cup {event}
      /\ \A e \in DOMAIN buffer' :
            buffer'[e] = (IF e \in DOMAIN buffer THEN buffer[e] ELSE 0)
                           + (IF e \in {event} THEN one[e] ELSE 0)
  BY <1>1, <1>2 DEF (+)
<1>4. IsFiniteSet(DOMAIN buffer')
  BY <1>3, FS_AddElement DEF RecordIsTyped, IsEvents
<1>5. IsEvents(buffer)'
  BY <1>1, <1>2, <1>3, <1>4 DEF RecordIsTyped, IsEvents
<1>6. /\ \A w \in DOMAIN log : "events" \in DOMAIN log[w] /\ IsEvents(log[w].events)'
      /\ sent # None => "events" \in DOMAIN sent /\ IsEvents(sent.events)'
  BY <1>1 DEF RecordIsTyped, IsEvents
<1>7. QED
  BY <1>1, <1>5, <1>6 DEF RecordIsTyped

\* A window joins the record.
LEMMA WindowIsRecorded ==
    ASSUME RecordIsTyped, LogIsTyped, UNCHANGED code, NEW window,
           "events" \in DOMAIN window, IsEvents(window.events), log' = Append(log, window)
    PROVE  \A w \in DOMAIN log' : "events" \in DOMAIN log'[w] /\ IsEvents(log'[w].events)
<1>1. PICK S : log \in Seq(S)
  BY DEF LogIsTyped
<1>2. \A w \in DOMAIN log' : (w \in DOMAIN log /\ log'[w] = log[w]) \/ log'[w] = window
  <2>1. log \in Seq(S \cup {window})
    BY <1>1
  <2>2. QED
    BY <2>1
<1>3. QED
  BY <1>2 DEF RecordIsTyped, IsEvents

LEMMA FlushIsRecorded ==
    ASSUME RecordIsTyped, LogIsTyped, Flush \/ Post \/ Land
    PROVE  RecordIsTyped'
<1>0. "events" \in DOMAIN Window /\ IsEvents(Window.events)
  BY DEF Window, RecordIsTyped
<1>1. UNCHANGED code
  BY DEF Flush, Post, Land
<1>2. IsEvents(<<>>)'
  <2>1. DOMAIN <<>> = {} /\ IsFiniteSet({})
    BY FS_EmptySet
  <2>2. QED
    BY <2>1 DEF IsEvents
<1>3. CASE Flush
  <2>1. buffer' = <<>> /\ UNCHANGED sent /\ log' = Append(log, Window)
    BY <1>3 DEF Flush
  <2>2. \A w \in DOMAIN log' : "events" \in DOMAIN log'[w] /\ IsEvents(log'[w].events)
    BY <1>0, <1>1, <2>1, WindowIsRecorded
  <2>3. QED
    BY <1>1, <1>2, <2>1, <2>2 DEF RecordIsTyped, IsEvents
<1>4. CASE Post
  <2>1. buffer' = <<>> /\ UNCHANGED log /\ sent' = Window
    BY <1>4 DEF Post
  <2>2. QED
    BY <1>0, <1>1, <1>2, <2>1 DEF RecordIsTyped, IsEvents
<1>5. CASE Land
  <2>1. UNCHANGED buffer /\ sent' = None /\ log' = Append(log, sent) /\ sent # None
    BY <1>5 DEF Land
  <2>2. \A w \in DOMAIN log' : "events" \in DOMAIN log'[w] /\ IsEvents(log'[w].events)
    BY <1>1, <2>1, WindowIsRecorded DEF RecordIsTyped
  <2>3. QED
    BY <1>1, <2>1, <2>2 DEF RecordIsTyped, IsEvents
<1>6. QED
  BY <1>3, <1>4, <1>5

\* Which actions leave the record alone.
LEMMA RecordKept ==
    ASSUME [Next]_vars
    PROVE  \/ \E t \in DOMAIN code :
                \/ \E gap \in Gaps : Type(t, gap)
                \/ Complete(t) \/ Delete(t) \/ TypeData(t)
                \/ \E construct \in BOOLEAN : Paste(t, construct)
           \/ Flush \/ Post \/ Land
           \/ UNCHANGED <<code, buffer, log, sent>>
<1>1. ASSUME NEW t \in DOMAIN code, Run(t) PROVE UNCHANGED <<code, buffer, log, sent>>
  BY <1>1 DEF Run, editing
<1>2. Reload \/ RunStep \/ Analyse => UNCHANGED <<code, buffer, log, sent>>
  BY DEF Reload, RunStep, Analyse, editing
<1>3. Judging => UNCHANGED <<code, buffer, log, sent>>
  BY JudgingIsReviewing DEF Reviewing, editing
<1>4. ReviewRunEnds \/ (\E task \in DOMAIN code \cup {None} : ReviewRun(task))
        => UNCHANGED <<code, buffer, log, sent>>
  BY DEF ReviewRunEnds, ReviewRun, editing
<1>5. UNCHANGED vars => UNCHANGED <<code, buffer, log, sent>>
  BY DEF vars
<1>6. QED
  BY <1>1, <1>2, <1>3, <1>4, <1>5 DEF Next, Judging

LEMMA RecordStep == ASSUME RecordIsTyped, ReviewInv, [Next]_vars PROVE RecordIsTyped'
<1>1. ASSUME NEW t \in DOMAIN code,
             \/ \E gap \in Gaps : Type(t, gap)
             \/ Complete(t) \/ Delete(t) \/ TypeData(t)
             \/ \E construct \in BOOLEAN : Paste(t, construct)
      PROVE  RecordIsTyped'
  <2>1. \A isCode, action, chars, gap :
            LET e == Event(t, isCode, action, chars, gap) IN e.task = t /\ e.chars = chars
    BY DEF Event
  <2>2. PICK files, isCode, action, chars, gap :
            chars \in Nat /\ Edit(t, files, Event(t, isCode, action, chars, gap))
    <3>1. PasteLen \in Nat
      BY ReportAssumption
    <3>2. CASE \E gap \in Gaps : Type(t, gap)
      BY <3>2 DEF Type
    <3>3. CASE Complete(t) \/ Delete(t) \/ TypeData(t)
      BY <3>3 DEF Complete, Delete, TypeData
    <3>4. CASE \E construct \in BOOLEAN : Paste(t, construct)
      BY <3>1, <3>4 DEF Paste
    <3>5. QED
      BY <1>1, <3>2, <3>3, <3>4
  <2> DEFINE event == Event(t, isCode, action, chars, gap)
  <2>3. event.task = t /\ event.chars \in Nat /\ Edit(t, files, event)
    BY <2>1, <2>2
  <2> HIDE DEF event
  <2>4. QED
    BY <2>3, EventIsRecorded
<1>2. CASE UNCHANGED <<code, buffer, log, sent>>
  BY <1>2 DEF RecordIsTyped, IsEvents
<1>3. LogIsTyped
  BY DEF ReviewInv
<1>4. QED
  BY <1>1, <1>2, <1>3, FlushIsRecorded, RecordKept

LEMMA TasksAreOfExam == ASSUME RecordIsTyped, LogIsTyped PROVE TaskIdsIn(log) \subseteq DOMAIN code
<1>1. DefaultTask \in DOMAIN code
  BY ReportAssumption DEF RecordIsTyped
<1>2. \A w \in DOMAIN log : DOMAIN log[w].snap \subseteq DOMAIN code
  BY DEF LogIsTyped
<1>3. \A w \in DOMAIN log : \A e \in DOMAIN log[w].events : e.task \in DOMAIN code
  BY DEF RecordIsTyped, IsEvents
<1>4. QED
  BY <1>1, <1>2, <1>3 DEF TaskIdsIn

-----------------------------------------------------------------------------
(***************************************************************************)
(* The counters.  A run that was executed and not yet counted keeps the    *)
(* count of its task below what ran, one that was counted and not yet      *)
(* answered keeps it above what was seen; the session's count is the sum   *)
(* of its tasks'.                                                          *)
(***************************************************************************)
CountOf(t) == IF byTask = None \/ t \notin DOMAIN byTask THEN 0 ELSE byTask[t]

Uncounted(t) == {r \in requests : r.at = "executed" /\ r.task = t}

Unseen(t) == \E r \in requests : Current(r) /\ r.at = "done" /\ r.ending = "ran" /\ r.task = t

CountsAreTyped ==
    /\ IsFiniteSet(requests)
    /\ \A r \in requests : r.task \in DOMAIN code
    /\ byTask = None \/ (DOMAIN byTask \subseteq DOMAIN code /\ byTask \in [DOMAIN byTask -> Nat])
    /\ ran \in [Task -> Nat] /\ seen \in [Task -> Nat]
    /\ lost \in BOOLEAN /\ twice \in BOOLEAN

CountIsSum == runs = SumFunctionOnSet([t \in DOMAIN code |-> CountOf(t)], DOMAIN code)

NoneTwice == \A t \in DOMAIN code : CountOf(t) + Cardinality(Uncounted(t)) <= ran[t]

NoneLost == \A t \in DOMAIN code : seen[t] + (IF Unseen(t) THEN 1 ELSE 0) <= CountOf(t)

ReportedAreTyped ==
    results # None => /\ results.session.metricA.runs \in Nat
                      /\ \A t \in DOMAIN results.tasks :
                            t \in DOMAIN code /\ results.tasks[t].metricA.runs \in Nat

CountInv ==
    /\ CountsAreTyped /\ CountIsSum
    /\ twice \/ NoneTwice
    /\ results = None => lost \/ NoneLost
    /\ ReportedAreTyped /\ RunsAreCounted

LEMMA ExamIsFinite ==
    ASSUME RecordIsTyped
    PROVE  /\ IsFiniteSet(DOMAIN code) /\ DOMAIN code \subseteq Task
           /\ \A some \in SUBSET DOMAIN code : None \notin [some -> Nat]
  BY ReportAssumption DEF RecordIsTyped

LEMMA CountIsNat ==
    ASSUME CountsAreTyped
    PROVE  \A t : CountOf(t) \in Nat
  BY DEF CountsAreTyped, CountOf

LEMMA FewerUncounted ==
    ASSUME CountsAreTyped, NEW T, NEW t, NEW y,
           \/ T \subseteq Uncounted(t)
           \/ \E x \in Uncounted(t) : T \subseteq (Uncounted(t) \ {x}) \cup {y}
    PROVE  /\ Cardinality(T) \in Nat /\ Cardinality(Uncounted(t)) \in Nat
           /\ Cardinality(T) <= Cardinality(Uncounted(t))
<1> DEFINE U == Uncounted(t)
<1>1. IsFiniteSet(U) /\ Cardinality(U) \in Nat
  BY FS_Subset, FS_CardinalityType DEF CountsAreTyped, Uncounted
<1> HIDE DEF U
<1>2. CASE T \subseteq U
  BY <1>1, <1>2, FS_Subset, FS_CardinalityType DEF U
<1>3. CASE \E x \in U : T \subseteq (U \ {x}) \cup {y}
  <2>1. PICK x \in U : T \subseteq (U \ {x}) \cup {y}
    BY <1>3
  <2>2. IsFiniteSet(U \ {x}) /\ Cardinality(U \ {x}) = Cardinality(U) - 1
    BY <1>1, FS_RemoveElement
  <2> DEFINE Z == U \ {x}
             V == Z \cup {y}
  <2>3. IsFiniteSet(V) /\ Cardinality(V) \in Nat /\ Cardinality(V) <= Cardinality(U)
    <3> HIDE DEF Z
    <3>1. IsFiniteSet(Z) /\ Cardinality(Z) = Cardinality(U) - 1
      BY <2>2 DEF Z
    <3>2. /\ IsFiniteSet(V)
          /\ Cardinality(V) = Cardinality(Z) \/ Cardinality(V) = Cardinality(Z) + 1
      BY <3>1, FS_AddElement
    <3>3. QED
      BY <1>1, <3>1, <3>2, FS_CardinalityType
  <2> HIDE DEF V
  <2>4. T \subseteq V
    BY <2>1 DEF V
  <2>5. IsFiniteSet(T) /\ Cardinality(T) \in Nat /\ Cardinality(T) <= Cardinality(V)
    BY <2>3, <2>4, FS_Subset, FS_CardinalityType
  <2>6. QED
    BY <1>1, <2>3, <2>5 DEF U
<1>4. QED
  BY <1>2, <1>3 DEF U

LEMMA CountStart == Init => CountInv
<1> SUFFICES ASSUME Init PROVE CountInv
  OBVIOUS
<1>1. RecordIsTyped /\ results = None /\ requests = {} /\ runs = 0 /\ byTask \in {None, <<>>}
      /\ ran = [t \in Task |-> 0] /\ seen = [t \in Task |-> 0] /\ twice = FALSE /\ lost = FALSE
  BY RecordStart DEF Init, ConsoleInit, Maps
<1>2. DOMAIN <<>> = {}
  OBVIOUS
<1>3. \A t : CountOf(t) = 0
  BY <1>1, <1>2 DEF CountOf
<1>4. CountsAreTyped
  <2>1. IsFiniteSet({})
    BY FS_EmptySet
  <2>2. <<>> \in [{} -> Nat]
    OBVIOUS
  <2>3. QED
    BY <1>1, <1>2, <2>1, <2>2 DEF CountsAreTyped
<1>5. CountIsSum
  <2> DEFINE f == [t \in DOMAIN code |-> CountOf(t)]
  <2>1. \A t \in DOMAIN code : f[t] \in Nat /\ f[t] = 0
    BY <1>3
  <2> HIDE DEF f
  <2>2. SumFunctionOnSet(f, DOMAIN code) = 0
    BY <1>1, <2>1, ExamIsFinite, SumOfNats
  <2>3. QED
    BY <1>1, <2>2 DEF CountIsSum, f
<1>6. DOMAIN code \subseteq Task
  BY <1>1, ExamIsFinite
<1>7. NoneTwice
  <2>1. \A t : Uncounted(t) = {}
    BY <1>1 DEF Uncounted
  <2>2. QED
    BY <1>1, <1>3, <1>6, <2>1, FS_EmptySet DEF NoneTwice
<1>8. NoneLost
  BY <1>1, <1>3, <1>6 DEF NoneLost, Unseen
<1>9. RunsAreCounted /\ ReportedAreTyped
  BY <1>1 DEF RunsAreCounted, ReportedAreTyped
<1>10. QED
  BY <1>4, <1>5, <1>7, <1>8, <1>9 DEF CountInv

\* What is reported stays true: what was seen in time is settled, more may run.
LEMMA ReportedStay ==
    ASSUME CountInv, RecordIsTyped, UNCHANGED results, DOMAIN code' = DOMAIN code, CountsAreTyped',
           results # None => UNCHANGED seen,
           \A t \in DOMAIN code : ran[t] <= ran'[t],
           lost => lost', twice => twice'
    PROVE  ReportedAreTyped' /\ RunsAreCounted'
<1>1. ReportedAreTyped'
  BY DEF CountInv, ReportedAreTyped
<1>2. RunsAreCounted'
  <2> SUFFICES ASSUME results # None PROVE RunsAreCounted'
    BY DEF RunsAreCounted
  <2>1. DOMAIN code \subseteq Task /\ IsFiniteSet(DOMAIN code)
    BY ExamIsFinite
  <2>2. \A t \in DOMAIN code : ran[t] \in Nat /\ ran'[t] \in Nat /\ ran[t] <= ran'[t]
    BY <2>1 DEF CountInv, CountsAreTyped
  <2>3. ASSUME NEW t \in DOMAIN results.tasks, results.tasks[t].metricA.scope = "task"
        PROVE  /\ lost \/ seen[t] <= results.tasks[t].metricA.runs
               /\ twice \/ results.tasks[t].metricA.runs <= ran'[t]
    <3> DEFINE n == results.tasks[t].metricA.runs
    <3>1. t \in DOMAIN code /\ n \in Nat
      BY DEF CountInv, ReportedAreTyped
    <3>2. lost \/ seen[t] <= n
      BY <2>3 DEF CountInv, RunsAreCounted
    <3>3. twice \/ n <= ran[t]
      BY <2>3 DEF CountInv, RunsAreCounted
    <3> HIDE DEF n
    <3>4. twice \/ n <= ran'[t]
      BY <2>2, <3>1, <3>3
    <3>5. QED
      BY <3>2, <3>4 DEF n
  <2>4. /\ lost \/ SumFunctionOnSet(seen, DOMAIN code) <= results.session.metricA.runs
        /\ twice \/ results.session.metricA.runs <= SumFunctionOnSet(ran', DOMAIN code)
    <3> DEFINE n == results.session.metricA.runs
               s == SumFunctionOnSet(seen, DOMAIN code)
               k == SumFunctionOnSet(ran, DOMAIN code)
               m == SumFunctionOnSet(ran', DOMAIN code)
    <3>1. n \in Nat
      BY DEF CountInv, ReportedAreTyped
    <3>2. lost \/ s <= n
      BY DEF CountInv, RunsAreCounted
    <3>3. twice \/ n <= k
      BY DEF CountInv, RunsAreCounted
    <3>4. k <= m
      BY <2>1, <2>2, SumGrows
    <3>5. k \in Nat /\ m \in Nat
      BY <2>1, <2>2, SumOfNats
    <3> HIDE DEF n, s, k, m
    <3>6. twice \/ n <= m
      BY <3>1, <3>3, <3>4, <3>5
    <3>7. QED
      BY <3>2, <3>6 DEF n, s, m
  <2>5. QED
    BY <2>3, <2>4 DEF RunsAreCounted
<1>3. QED
  BY <1>1, <1>2

\* What keeps the counters: no run the student is owed is forgotten, and no
\* more are uncounted.
LEMMA CountsKept ==
    ASSUME CountInv, RecordIsTyped, UNCHANGED counted, UNCHANGED results, DOMAIN code' = DOMAIN code,
           IsFiniteSet(requests'), \A r \in requests' : r.task \in DOMAIN code,
           \A t \in DOMAIN code :
              /\ Unseen(t)' => Unseen(t)
              /\ \/ Uncounted(t)' \subseteq Uncounted(t)
                 \/ \E y : \E x \in Uncounted(t) :
                       Uncounted(t)' \subseteq (Uncounted(t) \ {x}) \cup {y}
    PROVE  CountInv'
<1>1. UNCHANGED <<runs, byTask, ran, seen, twice, lost>>
  BY DEF counted
<1>2. CountsAreTyped /\ CountsAreTyped'
  BY <1>1 DEF CountInv, CountsAreTyped
<1>3. \A t : CountOf(t)' = CountOf(t)
  BY <1>1 DEF CountOf
<1>4. CountIsSum'
  BY <1>1, <1>3 DEF CountInv, CountIsSum
<1>5. \A t \in Task : ran[t] \in Nat /\ seen[t] \in Nat
  BY <1>2 DEF CountsAreTyped
<1>6. DOMAIN code \subseteq Task
  BY ExamIsFinite
<1>7. ASSUME NoneTwice PROVE NoneTwice'
  <2> SUFFICES ASSUME NEW t \in DOMAIN code
               PROVE  CountOf(t)' + Cardinality(Uncounted(t)') <= ran[t]
    BY <1>1 DEF NoneTwice
  <2>1. CountOf(t) + Cardinality(Uncounted(t)) <= ran[t]
    BY <1>7 DEF NoneTwice
  <2>2. /\ Cardinality(Uncounted(t)') \in Nat /\ Cardinality(Uncounted(t)) \in Nat
        /\ Cardinality(Uncounted(t)') <= Cardinality(Uncounted(t))
    BY <1>2, FewerUncounted
  <2>3. QED
    BY <1>2, <1>3, <1>5, <1>6, <2>1, <2>2, CountIsNat
<1>8. ASSUME NoneLost PROVE NoneLost'
  BY <1>1, <1>2, <1>3, <1>5, <1>6, <1>8, CountIsNat DEF NoneLost
<1>9. RunsAreCounted' /\ ReportedAreTyped'
  BY <1>1 DEF CountInv, RunsAreCounted, ReportedAreTyped
<1>10. QED
  BY <1>1, <1>2, <1>4, <1>7, <1>8, <1>9 DEF CountInv

LEMMA CountsKeptBeside ==
    ASSUME CountInv, RecordIsTyped, UNCHANGED <<counted, results, page, requests>>,
           DOMAIN code' = DOMAIN code
    PROVE  CountInv'
<1>1. \A t : Unseen(t)' = Unseen(t) /\ Uncounted(t)' = Uncounted(t)
  BY DEF Unseen, Uncounted, Current
<1>2. IsFiniteSet(requests') /\ \A r \in requests' : r.task \in DOMAIN code
  BY DEF CountInv, CountsAreTyped
<1>3. QED
  BY <1>1, <1>2, CountsKept

LEMMA CountRunStarts ==
    ASSUME CountInv, RecordIsTyped, NEW t \in DOMAIN code, Run(t)
    PROVE  CountInv'
<1> DEFINE new == [run |-> asked', task |-> t, page |-> page, at |-> "sent", ending |-> None]
<1>1. /\ UNCHANGED <<page, code, results, counted>> /\ requests' = requests \cup {new}
  BY DEF Run, StartRun, editing, verdict
<1>2. new.task = t /\ new.at = "sent"
  OBVIOUS
<1> HIDE DEF new
<1>3. IsFiniteSet(requests') /\ \A r \in requests' : r.task \in DOMAIN code
  BY <1>1, <1>2, FS_AddElement DEF CountInv, CountsAreTyped
<1>4. \A u : (Unseen(u)' => Unseen(u)) /\ Uncounted(u)' \subseteq Uncounted(u)
  BY <1>1, <1>2 DEF Unseen, Uncounted, Current
<1>5. QED
  BY <1>1, <1>3, <1>4, CountsKept

LEMMA CountReload ==
    ASSUME CountInv, RecordIsTyped, ConsoleInv, Reload
    PROVE  CountInv'
<1>1. UNCHANGED <<code, results, counted, requests>> /\ page' = page + 1 /\ page \in Nat
  BY DEF Reload, ReloadPage, editing, verdict, ConsoleInv, RunsAreTyped
<1>2. \A r \in requests : r.page # page + 1
  BY <1>1, NoneIsNoNumber DEF ConsoleInv, RunsAreTyped
<1>3. \A u : (Unseen(u)' => Unseen(u)) /\ Uncounted(u)' \subseteq Uncounted(u)
  BY <1>1, <1>2 DEF Unseen, Uncounted, Current
<1>4. IsFiniteSet(requests') /\ \A r \in requests' : r.task \in DOMAIN code
  BY <1>1 DEF CountInv, CountsAreTyped
<1>5. QED
  BY <1>1, <1>3, <1>4, CountsKept

\* The request of a run goes on, or disappears.
LEMMA CountRefreshed ==
    ASSUME CountInv, NEW r \in requests, NEW next, Refresh(r, next), next.task = r.task
    PROVE  /\ requests' \subseteq (requests \ {r}) \cup {next}
           /\ IsFiniteSet(requests')
           /\ \A q \in requests' : q.task \in DOMAIN code
<1>1. requests' = requests \ {r} \/ requests' = (requests \ {r}) \cup {next}
  BY DEF Refresh
<1>2. IsFiniteSet(requests \ {r})
  BY FS_RemoveElement DEF CountInv, CountsAreTyped
<1>3. IsFiniteSet((requests \ {r}) \cup {next})
  BY <1>2, FS_AddElement
<1>4. QED
  BY <1>1, <1>2, <1>3 DEF CountInv, CountsAreTyped

LEMMA CountRefuse ==
    ASSUME CountInv, RecordIsTyped, ConsoleInv, UNCHANGED <<code, results>>,
           NEW r \in requests, NEW why \in Failures, Refuse(r, why)
    PROVE  CountInv'
<1> DEFINE next == [r EXCEPT !.at = "done", !.ending = RunStatusOf(why)]
<1>1. /\ next.at = "done" /\ next.ending = RunStatusOf(why) /\ next.task = r.task
      /\ next.page = r.page
  BY DEF ConsoleInv, RunsAreTyped
<1>2. RunStatusOf(why) # "ran"
  BY DEF RunStatusOf, Failures
<1>3. UNCHANGED <<page, counted>> /\ Refresh(r, next)
  BY DEF Refuse
<1> HIDE DEF next
<1>4. /\ requests' \subseteq (requests \ {r}) \cup {next}
      /\ IsFiniteSet(requests') /\ \A q \in requests' : q.task \in DOMAIN code
  BY <1>1, <1>3, CountRefreshed
<1>5. \A u : (Unseen(u)' => Unseen(u)) /\ Uncounted(u)' \subseteq Uncounted(u)
  BY <1>1, <1>2, <1>3, <1>4 DEF Unseen, Uncounted, Current
<1>6. QED
  BY <1>3, <1>4, <1>5, CountsKept

LEMMA CountBreak ==
    ASSUME CountInv, RecordIsTyped, ConsoleInv, UNCHANGED <<code, results>>,
           NEW r \in requests, BreakRun(r)
    PROVE  CountInv'
<1> DEFINE left == [r EXCEPT !.page = None]
<1>1. left.at = r.at /\ left.task = r.task /\ left.page = None
  BY DEF ConsoleInv, RunsAreTyped
<1>2. UNCHANGED <<page, counted>> /\ page # None
  BY NoneIsNoNumber DEF BreakRun, ConsoleInv, RunsAreTyped
<1>3. requests' = requests \ {r} \/ requests' = (requests \ {r}) \cup {left}
  BY DEF BreakRun
<1> HIDE DEF left
<1>4. IsFiniteSet(requests') /\ \A q \in requests' : q.task \in DOMAIN code
  <2>1. IsFiniteSet(requests \ {r})
    BY FS_RemoveElement DEF CountInv, CountsAreTyped
  <2>2. IsFiniteSet((requests \ {r}) \cup {left})
    BY <2>1, FS_AddElement
  <2>3. QED
    BY <1>1, <1>3, <2>1, <2>2 DEF CountInv, CountsAreTyped
<1>5. ASSUME NEW u
      PROVE  /\ Unseen(u)' => Unseen(u)
             /\ \/ Uncounted(u)' \subseteq Uncounted(u)
                \/ \E y : \E x \in Uncounted(u) : Uncounted(u)' \subseteq (Uncounted(u) \ {x}) \cup {y}
  <2>1. Unseen(u)' => Unseen(u)
    BY <1>1, <1>2, <1>3 DEF Unseen, Current
  <2>2. Uncounted(u)' \subseteq (Uncounted(u) \ {r}) \cup {left}
    BY <1>3 DEF Uncounted
  <2>3. CASE r \in Uncounted(u)
    BY <2>1, <2>2, <2>3
  <2>4. CASE r \notin Uncounted(u)
    <3>1. left \notin Uncounted(u)' \/ left \in requests
      BY <1>1, <2>4 DEF Uncounted
    <3>2. Uncounted(u)' \subseteq Uncounted(u)
      BY <1>3, <3>1 DEF Uncounted
    <3>3. QED
      BY <2>1, <3>2
  <2>5. QED
    BY <2>3, <2>4
<1>6. QED
  BY <1>2, <1>4, <1>5, CountsKept

\* One more ran, one more is uncounted.
LEMMA CountExecute ==
    ASSUME CountInv, RecordIsTyped, ConsoleInv, UNCHANGED <<code, results>>,
           NEW r \in requests, Execute(r)
    PROVE  CountInv'
<1> DEFINE next == [r EXCEPT !.at = "executed", !.ending = "ran"]
           k == r.task
<1>1. next.at = "executed" /\ next.task = k /\ next.page = r.page
  BY DEF ConsoleInv, RunsAreTyped
<1>2. /\ UNCHANGED <<page, runs, byTask, seen, twice, lost>> /\ Refresh(r, next) /\ r.at = "sent"
      /\ ran' = [ran EXCEPT ![k] = @ + 1]
  BY DEF Execute
<1>3. k \in DOMAIN code /\ CountsAreTyped
  BY DEF CountInv, CountsAreTyped
<1>4. DOMAIN code \subseteq Task /\ IsFiniteSet(DOMAIN code)
  BY ExamIsFinite
<1> HIDE DEF next, k
<1>5. /\ requests' \subseteq (requests \ {r}) \cup {next}
      /\ IsFiniteSet(requests') /\ \A q \in requests' : q.task \in DOMAIN code
  BY <1>1, <1>2, CountRefreshed DEF k
<1>6. /\ ran' \in [Task -> Nat] /\ ran'[k] = ran[k] + 1
      /\ \A t \in Task : ran[t] \in Nat /\ (t # k => ran'[t] = ran[t])
  BY <1>2, <1>3, <1>4 DEF CountsAreTyped
<1>7. CountsAreTyped'
  BY <1>2, <1>3, <1>5, <1>6 DEF CountsAreTyped
<1>8. \A t : CountOf(t)' = CountOf(t)
  BY <1>2 DEF CountOf
<1>9. CountIsSum'
  BY <1>2, <1>8 DEF CountInv, CountIsSum
<1>10. ASSUME NoneTwice PROVE NoneTwice'
  <2> SUFFICES ASSUME NEW t \in DOMAIN code
               PROVE  CountOf(t)' + Cardinality(Uncounted(t)') <= ran'[t]
    BY DEF NoneTwice
  <2>1. CountOf(t) + Cardinality(Uncounted(t)) <= ran[t]
    BY <1>10 DEF NoneTwice
  <2>2. Uncounted(t)' \subseteq Uncounted(t) \cup {next}
    BY <1>5 DEF Uncounted
  <2>3. t # k => Uncounted(t)' \subseteq Uncounted(t)
    BY <1>1, <1>5 DEF Uncounted
  <2> DEFINE U == Uncounted(t)
             T == Uncounted(t)'
  <2>4. IsFiniteSet(U) /\ Cardinality(U) \in Nat
    BY <1>3, FS_Subset, FS_CardinalityType DEF CountsAreTyped, Uncounted
  <2> HIDE DEF U, T
  <2>5. IsFiniteSet(T) /\ Cardinality(T) \in Nat /\ Cardinality(T) <= Cardinality(U) + 1
    <3>1. /\ IsFiniteSet(U \cup {next})
          /\ Cardinality(U \cup {next}) = Cardinality(U)
               \/ Cardinality(U \cup {next}) = Cardinality(U) + 1
      BY <2>4, FS_AddElement
    <3>2. T \subseteq U \cup {next}
      BY <2>2 DEF U, T
    <3>3. IsFiniteSet(T) /\ Cardinality(T) \in Nat /\ Cardinality(T) <= Cardinality(U \cup {next})
      BY <3>1, <3>2, FS_Subset, FS_CardinalityType
    <3>4. QED
      BY <2>4, <3>1, <3>3
  <2>6. t # k => Cardinality(T) <= Cardinality(U)
    BY <2>3, <2>4, FS_Subset DEF U, T
  <2>7. CountOf(t) \in Nat /\ CountOf(t)' = CountOf(t) /\ ran[t] \in Nat
    BY <1>3, <1>4, <1>6, <1>8, CountIsNat
  <2>8. CountOf(t) + Cardinality(U) <= ran[t]
    BY <2>1 DEF U
  <2>9. CountOf(t) + Cardinality(T) <= ran'[t]
    <3>1. CASE t = k
      BY <1>6, <2>4, <2>5, <2>7, <2>8, <3>1
    <3>2. CASE t # k
      BY <1>4, <1>6, <2>4, <2>5, <2>6, <2>7, <2>8, <3>2
    <3>3. QED
      BY <3>1, <3>2
  <2>10. QED
    BY <2>7, <2>9 DEF T
<1>11. \A u : Unseen(u)' => Unseen(u)
  BY <1>1, <1>2, <1>5 DEF Unseen, Current
<1>12. ASSUME NoneLost PROVE NoneLost'
  BY <1>2, <1>3, <1>4, <1>8, <1>11, <1>12, CountIsNat DEF NoneLost, CountsAreTyped
<1>13. ReportedAreTyped' /\ RunsAreCounted'
  <2>1. \A t \in DOMAIN code : ran[t] <= ran'[t]
    BY <1>4, <1>6
  <2>2. QED
    BY <1>2, <1>7, <2>1, ReportedStay
<1>14. QED
  BY <1>2, <1>7, <1>9, <1>10, <1>12, <1>13 DEF CountInv

\* A count: the run is no longer uncounted, and is the student's to be seen.
LEMMA CountCounts ==
    ASSUME CountInv, RecordIsTyped, ConsoleInv, UNCHANGED <<code, results>>,
           NEW r \in requests, NEW times \in 0..3, CountRun(r, times)
    PROVE  CountInv'
<1> DEFINE next == [r EXCEPT !.at = "done"]
           k == r.task
<1>1. next.at = "done" /\ next.task = k /\ next.page = r.page
  BY DEF ConsoleInv, RunsAreTyped
<1>0. times \in Nat /\ times <= 3
  OBVIOUS
<1>2. /\ UNCHANGED <<page, ran, seen>> /\ Refresh(r, next) /\ r.at = "executed"
      /\ runs' = runs + times
      /\ twice' = (twice \/ times > 1) /\ lost' = (lost \/ times = 0)
  BY DEF CountRun
<1>a. /\ twice => twice'
      /\ lost => lost'
      /\ ~twice' => ~(times > 1)
      /\ ~lost' => times # 0
  BY <1>2, Zenon
<1>3. k \in DOMAIN code /\ CountsAreTyped
  BY DEF CountInv, CountsAreTyped
<1>4. DOMAIN code \subseteq Task /\ IsFiniteSet(DOMAIN code)
      /\ \A some \in SUBSET DOMAIN code : None \notin [some -> Nat]
  BY ExamIsFinite
<1>5. /\ byTask' = None \/ (DOMAIN byTask' \subseteq DOMAIN code
                              /\ byTask' \in [DOMAIN byTask' -> Nat])
      /\ \A t : CountOf(t)' = IF t = k THEN CountOf(t) + times ELSE CountOf(t)
  <2>1. CASE times = 0
    <3>1. byTask' = byTask
      BY <2>1 DEF CountRun
    <3>2. \A t : CountOf(t)' = CountOf(t) /\ CountOf(t) \in Nat
      BY <1>3, <3>1, CountIsNat DEF CountOf
    <3>3. QED
      BY <1>3, <2>1, <3>1, <3>2 DEF CountsAreTyped
  <2>2. CASE times # 0
    <3> DEFINE old == IF byTask = None THEN <<>> ELSE byTask
               new == [u \in DOMAIN old \cup {k} |->
                          (IF u \in DOMAIN old THEN old[u] ELSE 0) + (IF u = k THEN times ELSE 0)]
    <3>1. byTask' = new
      BY <2>2 DEF CountRun
    <3>2. /\ DOMAIN old \subseteq DOMAIN code
          /\ \A t : (IF t \in DOMAIN old THEN old[t] ELSE 0) = CountOf(t)
      <4>1. CASE byTask = None
        <5>1. old = <<>> /\ DOMAIN old = {}
          BY <4>1
        <5>2. QED
          BY <4>1, <5>1 DEF CountOf
      <4>2. CASE byTask # None
        BY <1>3, <4>2 DEF CountsAreTyped, CountOf
      <4>3. QED
        BY <4>1, <4>2
    <3> HIDE DEF old
    <3>3. \A t : CountOf(t) \in Nat
      BY <1>3, CountIsNat
    <3>4. /\ DOMAIN new = DOMAIN old \cup {k}
          /\ \A t \in DOMAIN new : new[t] = CountOf(t) + (IF t = k THEN times ELSE 0)
      BY <3>2
    <3>5. new \in [DOMAIN old \cup {k} -> Nat]
      <4>0. \A t : CountOf(t) + (IF t = k THEN times ELSE 0) \in Nat
        BY <1>0, <3>3
      <4>1. \A t \in DOMAIN new : new[t] \in Nat
        <5> HIDE DEF new
        <5>1. QED
          BY <3>4, <4>0
      <4>2. new = [u \in DOMAIN new |-> new[u]]
        OBVIOUS
      <4> HIDE DEF new
      <4>3. QED
        BY <3>4, <4>1, <4>2
    <3>6. new # None
      BY <1>3, <1>4, <3>2, <3>5
    <3> HIDE DEF new
    <3>7. ASSUME NEW t PROVE CountOf(t)' = IF t = k THEN CountOf(t) + times ELSE CountOf(t)
      <4>1. CASE t \in DOMAIN new
        <5>1. CountOf(t)' = new[t]
          BY <3>1, <3>6, <4>1 DEF CountOf
        <5>2. QED
          BY <3>3, <3>4, <4>1, <5>1
      <4>2. CASE t \notin DOMAIN new
        <5>1. CountOf(t)' = 0 /\ CountOf(t) = 0 /\ t # k
          BY <3>1, <3>2, <3>4, <4>2 DEF CountOf
        <5>2. QED
          BY <5>1
      <4>3. QED
        BY <4>1, <4>2
    <3>8. QED
      BY <1>3, <3>1, <3>2, <3>4, <3>5, <3>7
  <2>3. QED
    BY <2>1, <2>2
<1> HIDE DEF next
<1>6. /\ requests' \subseteq (requests \ {r}) \cup {next}
      /\ IsFiniteSet(requests') /\ \A q \in requests' : q.task \in DOMAIN code
  BY <1>1, <1>2, CountRefreshed
<1>7. CountsAreTyped'
  <2>1. lost' \in BOOLEAN /\ twice' \in BOOLEAN
    BY <1>2
  <2>2. QED
    BY <1>2, <1>3, <1>5, <1>6, <2>1 DEF CountsAreTyped
<1>8. \A t : CountOf(t) \in Nat
  BY <1>3, CountIsNat
<1>9. CountIsSum'
  <2> DEFINE f == [t \in DOMAIN code |-> CountOf(t)]
             h == [t \in DOMAIN code |-> CountOf(t)']
  <2>1. runs = SumFunctionOnSet(f, DOMAIN code)
    BY DEF CountInv, CountIsSum
  <2>2. \A x \in DOMAIN code : f[x] \in Nat /\ h[x] = IF x = k THEN f[x] + times ELSE f[x]
    BY <1>5, <1>8
  <2>3. times \in Nat /\ IsFiniteSet(DOMAIN code)
    BY <1>0, <1>4
  <2> DEFINE S == DOMAIN code
  <2> HIDE DEF f, h, k, S
  <2>4. SumFunctionOnSet(h, S) = SumFunctionOnSet(f, S) + IF k \in S THEN times ELSE 0
    <3>1. IsFiniteSet(S) /\ \A x \in S : f[x] \in Nat /\ h[x] = IF x = k THEN f[x] + times ELSE f[x]
      BY <2>2, <2>3 DEF S
    <3>2. QED
      BY <2>3, <3>1, SumBump
  <2>5. runs' = SumFunctionOnSet(h, DOMAIN code)
    BY <1>2, <1>3, <2>1, <2>4 DEF S
  <2>6. QED
    BY <2>5 DEF CountIsSum, h
<1>10. \A t \in Task : ran[t] \in Nat /\ seen[t] \in Nat
  BY <1>3 DEF CountsAreTyped
<1>11. ASSUME ~twice', NoneTwice PROVE NoneTwice'
  <2> SUFFICES ASSUME NEW t \in DOMAIN code
               PROVE  CountOf(t)' + Cardinality(Uncounted(t)') <= ran[t]
    BY <1>2 DEF NoneTwice
  <2> DEFINE U == Uncounted(t)
             T == Uncounted(t)'
  <2>1. CountOf(t) + Cardinality(U) <= ran[t]
    BY <1>11 DEF NoneTwice
  <2>2. T \subseteq U \ {r}
    BY <1>1, <1>6 DEF Uncounted
  <2>3. t = k => r \in U
    BY <1>2 DEF Uncounted
  <2>4. IsFiniteSet(U) /\ Cardinality(U) \in Nat
    BY <1>3, FS_Subset, FS_CardinalityType DEF CountsAreTyped, Uncounted
  <2>5. times \in Nat /\ times <= 1
    BY <1>0, <1>a, <1>11
  <2>6. CountOf(t) \in Nat /\ ran[t] \in Nat
    BY <1>4, <1>8, <1>10
  <2>7. CountOf(t)' = IF t = k THEN CountOf(t) + times ELSE CountOf(t)
    BY <1>5
  <2> HIDE DEF U, T, k
  <2>8. /\ IsFiniteSet(U \ {r}) /\ Cardinality(U \ {r}) \in Nat
        /\ Cardinality(U \ {r}) = IF r \in U THEN Cardinality(U) - 1 ELSE Cardinality(U)
    BY <2>4, FS_RemoveElement, FS_CardinalityType
  <2>9. Cardinality(T) \in Nat /\ Cardinality(T) <= Cardinality(U \ {r})
    BY <2>2, <2>8, FS_Subset, FS_CardinalityType
  <2>10. CountOf(t)' + Cardinality(T) <= ran[t]
    <3>1. CASE t = k
      <4>1. CountOf(t)' = CountOf(t) + times /\ Cardinality(U \ {r}) = Cardinality(U) - 1
        BY <2>3, <2>7, <2>8, <3>1
      <4> DEFINE c == CountOf(t)
                 d == Cardinality(U)
                 e == Cardinality(U \ {r})
                 m == Cardinality(T)
                 n == CountOf(t)'
                 a == ran[t]
      <4>2. /\ c \in Nat /\ d \in Nat /\ e \in Nat /\ m \in Nat /\ a \in Nat
            /\ n = c + times /\ e = d - 1 /\ m <= e /\ c + d <= a
        BY <2>1, <2>4, <2>6, <2>8, <2>9, <4>1
      <4> HIDE DEF c, d, e, m, n, a
      <4>3. n + m <= a
        BY <2>5, <4>2
      <4>4. QED
        BY <4>3 DEF n, m, a
    <3>2. CASE t # k
      BY <2>1, <2>4, <2>6, <2>7, <2>8, <2>9, <3>2
    <3>3. QED
      BY <3>1, <3>2
  <2>11. QED
    BY <2>10 DEF T
<1>12. ASSUME ~lost', NoneLost, results = None PROVE NoneLost'
  <2> SUFFICES ASSUME NEW t \in DOMAIN code
               PROVE  seen[t] + (IF Unseen(t)' THEN 1 ELSE 0) <= CountOf(t)'
    BY <1>2 DEF NoneLost
  <2>1. seen[t] + (IF Unseen(t) THEN 1 ELSE 0) <= CountOf(t)
    BY <1>12 DEF NoneLost
  <2>2. seen[t] \in Nat /\ CountOf(t) \in Nat /\ times \in Nat /\ times >= 1
    BY <1>0, <1>a, <1>4, <1>8, <1>10, <1>12
  <2>3. CountOf(t)' = IF t = k THEN CountOf(t) + times ELSE CountOf(t)
    BY <1>5
  <2>4. Unseen(t)' => Unseen(t) \/ t = k
    BY <1>1, <1>2, <1>6 DEF Unseen, Current
  <2> HIDE DEF k
  <2>5. CASE t = k
    BY <2>1, <2>2, <2>3, <2>5
  <2>6. CASE t # k
    BY <2>1, <2>2, <2>3, <2>4, <2>6
  <2>7. QED
    BY <2>5, <2>6
<1>13. ReportedAreTyped' /\ RunsAreCounted'
  <2>1. \A t \in DOMAIN code : ran[t] <= ran'[t]
    BY <1>2, <1>4, <1>10
  <2>2. QED
    BY <1>2, <1>a, <1>7, <2>1, ReportedStay
<1>14. (twice' \/ NoneTwice') /\ (results = None => lost' \/ NoneLost')
  BY <1>a, <1>11, <1>12 DEF CountInv
<1>15. QED
  BY <1>7, <1>9, <1>13, <1>14 DEF CountInv

\* An answer is seen, unless the session was handed in meanwhile.
LEMMA CountAnswer ==
    ASSUME CountInv, RecordIsTyped, ConsoleInv, UNCHANGED <<code, results>>,
           NEW r \in requests, Answer(r, results # None)
    PROVE  CountInv'
<1> DEFINE k == r.task
<1>1. /\ UNCHANGED <<page, runs, byTask, ran, twice, lost>> /\ r.at = "done" /\ Current(r)
      /\ requests' = requests \ {r}
      /\ seen' = IF r.ending = "ran" /\ results = None
                   THEN [seen EXCEPT ![k] = @ + 1] ELSE seen
  BY DEF Answer, MayAnswer, Current
<1>2. k \in DOMAIN code /\ CountsAreTyped
  BY DEF CountInv, CountsAreTyped
<1>3. DOMAIN code \subseteq Task
  BY ExamIsFinite
<1>4. seen' \in [Task -> Nat]
  BY <1>1, <1>2, <1>3 DEF CountsAreTyped
<1>5. IsFiniteSet(requests')
  BY <1>1, <1>2, FS_RemoveElement DEF CountsAreTyped
<1>6. CountsAreTyped'
  BY <1>1, <1>2, <1>4, <1>5 DEF CountsAreTyped
<1>7. \A t : CountOf(t)' = CountOf(t) /\ CountOf(t) \in Nat
  BY <1>1, <1>2, CountIsNat DEF CountOf
<1>8. CountIsSum'
  BY <1>1, <1>7 DEF CountInv, CountIsSum
<1>9. ASSUME NoneTwice PROVE NoneTwice'
  <2>1. \A t : Uncounted(t)' \subseteq Uncounted(t)
    BY <1>1 DEF Uncounted
  <2>2. \A t : Uncounted(t) \subseteq Uncounted(t)' \cup {r} /\ r \notin Uncounted(t)
    BY <1>1 DEF Uncounted
  <2>3. \A t : Uncounted(t)' = Uncounted(t)
    BY <2>1, <2>2
  <2>4. QED
    BY <1>1, <1>7, <1>9, <2>3 DEF NoneTwice
<1>10. ASSUME NoneLost, results = None PROVE NoneLost'
  <2> SUFFICES ASSUME NEW t \in DOMAIN code
               PROVE  seen'[t] + (IF Unseen(t)' THEN 1 ELSE 0) <= CountOf(t)
    BY <1>1, <1>7 DEF NoneLost
  <2>1. ~Unseen(t)'
    BY <1>1 DEF Unseen, Current, ConsoleInv, OneRunPerPage
  <2>2. seen[t] + (IF Unseen(t) THEN 1 ELSE 0) <= CountOf(t)
    BY <1>10 DEF NoneLost
  <2>3. seen[t] \in Nat /\ CountOf(t) \in Nat
    BY <1>2, <1>3, <1>7 DEF CountsAreTyped
  <2>4. CASE r.ending = "ran" /\ t = k
    <3>1. Unseen(t)
      BY <1>1, <2>4 DEF Unseen
    <3>2. seen'[t] = seen[t] + 1
      BY <1>1, <1>2, <1>3, <1>10, <2>4 DEF CountsAreTyped
    <3>3. QED
      BY <2>1, <2>2, <2>3, <3>1, <3>2
  <2>5. CASE ~(r.ending = "ran" /\ t = k)
    <3>1. seen'[t] = seen[t]
      BY <1>1, <1>2, <1>3, <2>5 DEF CountsAreTyped
    <3>2. QED
      BY <2>1, <2>2, <2>3, <3>1
  <2>6. QED
    BY <2>4, <2>5
<1>11. ReportedAreTyped' /\ RunsAreCounted'
  <2>1. \A t \in DOMAIN code : ran[t] <= ran'[t]
    BY <1>1, <1>2, <1>3 DEF CountsAreTyped
  <2>2. QED
    BY <1>1, <1>6, <2>1, ReportedStay
<1>12. QED
  BY <1>1, <1>6, <1>8, <1>9, <1>10, <1>11 DEF CountInv

\* The verdict reports the count of the task, where it reports the task's.
LEMMA RunsOfReading ==
    ASSUME NEW record, NEW bursts, NEW files, NEW len, NEW count
    PROVE  LET a == Readings(record, bursts, files, len, count).metricA
           IN  a.runs = count.runs /\ a.scope = count.scope
  BY DEF Readings, LowRuns

LEMMA RunsOfTask ==
    ASSUME CountInv, RecordIsTyped, NEW t \in DOMAIN code
    PROVE  LET a == TaskReadings(log, t, runs, byTask).metricA
           IN  a.runs \in Nat /\ (a.scope = "task" => a.runs = CountOf(t))
<1> DEFINE c == RunCountForTask(byTask, t, runs, Cardinality(TaskIdsIn(log)))
           a == TaskReadings(log, t, runs, byTask).metricA
           f == [u \in DOMAIN code |-> CountOf(u)]
<1>1. a.runs = c.runs /\ a.scope = c.scope
  BY RunsOfReading DEF TaskReadings
<1>2. \A u \in DOMAIN code : f[u] = CountOf(u) /\ f[u] \in Nat
  BY CountIsNat DEF CountInv
<1> HIDE DEF f
<1>3. runs = SumFunctionOnSet(f, DOMAIN code)
  BY DEF CountInv, CountIsSum, f
<1>4. runs \in Nat /\ (runs = 0 <=> \A u \in DOMAIN code : f[u] = 0)
  BY <1>2, <1>3, ExamIsFinite, SumOfNats
<1>5. CASE byTask # None
  <2>1. c = [runs |-> IF t \in DOMAIN byTask THEN byTask[t] ELSE 0, scope |-> "task"]
    BY <1>5 DEF RunCountForTask
  <2>2. c.runs = CountOf(t)
    BY <1>5, <2>1 DEF CountOf
  <2>3. QED
    BY <1>1, <1>2, <2>2
<1>6. CASE byTask = None
  <2>1. CountOf(t) = 0 /\ runs = 0
    BY <1>2, <1>4, <1>6 DEF CountOf
  <2>2. c.runs = runs
    BY <1>6 DEF RunCountForTask
  <2>3. QED
    BY <1>1, <2>1, <2>2
<1>7. QED
  BY <1>5, <1>6

LEMMA CountAnalyse ==
    ASSUME CountInv, RecordIsTyped, LogIsTyped, Analyse
    PROVE  CountInv'
<1>1. /\ UNCHANGED <<code, page, requests, runs, byTask, ran, seen, twice, lost>>
      /\ results = None
      /\ results'.tasks = [t \in TaskIdsIn(log) |-> TaskReadings(log, t, runs, byTask)]
      /\ results'.session = SessionReadings(log, runs)
  BY DEF Analyse, ForensicsResults, editing, running, exec, counted
<1>2. CountsAreTyped /\ CountsAreTyped'
  BY <1>1 DEF CountInv, CountsAreTyped
<1>3. \A t : CountOf(t)' = CountOf(t) /\ CountOf(t) \in Nat
  BY <1>1, <1>2, CountIsNat DEF CountOf
<1>4. CountIsSum'
  BY <1>1, <1>3 DEF CountInv, CountIsSum
<1>5. (twice' \/ NoneTwice') /\ (lost' \/ NoneLost') /\ (twice \/ NoneTwice) /\ (lost \/ NoneLost)
  BY <1>1, <1>3 DEF CountInv, NoneTwice, NoneLost, Unseen, Uncounted, Current
<1>6. results'.session.metricA.runs = runs
  BY <1>1, RunsOfReading DEF SessionReadings
<1>7. /\ IsFiniteSet(DOMAIN code) /\ DOMAIN code \subseteq Task
      /\ TaskIdsIn(log) \subseteq DOMAIN code
  BY ExamIsFinite, TasksAreOfExam
<1> DEFINE f == [t \in DOMAIN code |-> CountOf(t)]
<1>8. \A t \in DOMAIN code : f[t] = CountOf(t) /\ f[t] \in Nat
  BY <1>3
<1> HIDE DEF f
<1>9. runs = SumFunctionOnSet(f, DOMAIN code)
  BY DEF CountInv, CountIsSum, f
<1>10. runs \in Nat
  BY <1>7, <1>8, <1>9, SumOfNats
<1>11. \A t \in DOMAIN results'.tasks :
          LET a == results'.tasks[t].metricA
          IN  t \in DOMAIN code /\ a.runs \in Nat /\ (a.scope = "task" => a.runs = CountOf(t))
  BY <1>1, <1>7, RunsOfTask
<1>12. ReportedAreTyped'
  BY <1>1, <1>6, <1>10, <1>11 DEF ReportedAreTyped
<1>13. \A t \in DOMAIN code :
          /\ seen[t] \in Nat /\ ran[t] \in Nat
          /\ lost \/ seen[t] <= f[t]
          /\ twice \/ f[t] <= ran[t]
  <2> SUFFICES ASSUME NEW t \in DOMAIN code
               PROVE  /\ seen[t] \in Nat /\ ran[t] \in Nat
                      /\ lost \/ seen[t] <= f[t]
                      /\ twice \/ f[t] <= ran[t]
    OBVIOUS
  <2>1. seen[t] \in Nat /\ ran[t] \in Nat
    BY <1>2, <1>7 DEF CountsAreTyped
  <2>2. Cardinality(Uncounted(t)) \in Nat
    BY <1>2, FewerUncounted
  <2>3. ASSUME NoneLost PROVE seen[t] <= f[t]
    <3>1. seen[t] + (IF Unseen(t) THEN 1 ELSE 0) <= CountOf(t)
      BY <2>3 DEF NoneLost
    <3>2. QED
      BY <1>8, <2>1, <3>1
  <2>4. ASSUME NoneTwice PROVE f[t] <= ran[t]
    <3>1. CountOf(t) + Cardinality(Uncounted(t)) <= ran[t]
      BY <2>4 DEF NoneTwice
    <3>2. QED
      BY <1>8, <2>1, <2>2, <3>1
  <2>5. QED
    BY <1>5, <2>1, <2>3, <2>4
<1>14. lost \/ SumFunctionOnSet(seen, DOMAIN code) <= runs
  BY <1>7, <1>8, <1>9, <1>13, SumGrows
<1>15. twice \/ runs <= SumFunctionOnSet(ran, DOMAIN code)
  BY <1>7, <1>8, <1>9, <1>13, SumGrows
<1>16. \A t \in DOMAIN results'.tasks :
          results'.tasks[t].metricA.scope = "task" =>
              /\ lost \/ seen[t] <= results'.tasks[t].metricA.runs
              /\ twice \/ results'.tasks[t].metricA.runs <= ran[t]
  BY <1>8, <1>11, <1>13
<1>17. RunsAreCounted'
  BY <1>1, <1>6, <1>14, <1>15, <1>16 DEF RunsAreCounted
<1>18. QED
  BY <1>2, <1>4, <1>5, <1>12, <1>17 DEF CountInv

LEMMA CountStep ==
    ASSUME CountInv, RecordIsTyped, ReviewInv, ConsoleInv, [Next]_vars
    PROVE  CountInv'
<1>1. ASSUME NEW t \in DOMAIN code,
             \/ \E gap \in Gaps : Type(t, gap)
             \/ Complete(t) \/ Delete(t) \/ TypeData(t)
             \/ \E construct \in BOOLEAN : Paste(t, construct)
      PROVE  CountInv'
  <2>1. PICK files, event : Edit(t, files, event)
    BY <1>1 DEF Type, Complete, Delete, TypeData, Paste
  <2>2. UNCHANGED <<counted, results, page, requests>> /\ DOMAIN code' = DOMAIN code
    BY <2>1 DEF Edit, TurnTo, verdict
  <2>3. QED
    BY <2>2, CountsKeptBeside
<1>2. CASE RunStep
  <2>1. UNCHANGED <<code, results>>
    BY <1>2 DEF RunStep, editing, verdict
  <2>2. CASE Clear
    BY <2>1, <2>2, CountsKeptBeside DEF Clear
  <2>3. QED
    BY <1>2, <2>1, <2>2, CountExecute, CountRefuse, CountCounts, CountAnswer, CountBreak DEF RunStep
<1>3. CASE Flush \/ Post \/ Land
  BY <1>3, CountsKeptBeside DEF Flush, Post, Land, running, exec, verdict
<1>4. CASE Judging
  BY <1>4, CountsKeptBeside, JudgingIsReviewing DEF Reviewing, editing, running, exec, verdict
<1>6. ASSUME NEW task, ReviewRun(task) PROVE CountInv'
  BY <1>6, CountsKeptBeside DEF ReviewRun, StartReview, editing, exec, verdict
<1>7. CASE ReviewRunEnds
  BY <1>7, CountsKeptBeside DEF ReviewRunEnds, ReviewAnswered, ReviewRefused, editing, exec, verdict
<1>8. CASE UNCHANGED vars
  BY <1>8, CountsKeptBeside DEF vars, exec
<1>9. LogIsTyped
  BY DEF ReviewInv
<1>10. QED
  BY <1>1, <1>2, <1>3, <1>4, <1>6, <1>7, <1>8, <1>9, CountRunStarts, CountReload,
     CountAnalyse DEF Next, Judging

\* For every exam, whatever reloads, breaks, retries and refusals come between:
\* metric A has the runs the student saw and only runs that took place, in
\* each task and in the session.
THEOREM CountsAreRuns == Spec => []RunsAreCounted
<1> DEFINE Inv == ConsoleInv /\ TerminalInv /\ ReviewInv /\ RecordIsTyped /\ CountInv
<1>1. Init => Inv
  BY ConsoleStart, TerminalStart, LogStart, RecordStart, CountStart
<1>2. Inv /\ [Next]_vars => Inv'
  BY ConsoleStep, TerminalStep, ReviewStep, RecordStep, CountStep DEF TerminalInv
<1>3. Inv => RunsAreCounted
  BY DEF CountInv
<1>4. QED
  BY <1>1, <1>2, <1>3, PTL DEF Spec

-----------------------------------------------------------------------------
(***************************************************************************)
(* Pasted work.  What a task's own log counts as typed was typed in that   *)
(* task: where nothing was, authorship flags a program that is there.      *)
(***************************************************************************)
LEMMA WindowsAreOfLog ==
    ASSUME NEW S, NEW record \in Seq(S), NEW task
    PROVE  WindowsOf(record, task) \in Seq(1 .. Len(record))
<1> DEFINE n == Len(record)
           D == Seq(1 .. n)
           In(w) == \E e \in DOMAIN record[w].events : e.task = task
           F(g) == [w \in 0 .. n |-> IF w = 0 THEN <<>>
                                     ELSE IF In(w) THEN Append(g[w - 1], w) ELSE g[w - 1]]
           step == [p \in (1 .. n) \X D |-> IF In(p[1]) THEN Append(p[2], p[1]) ELSE p[2]]
           f == CHOOSE g : g = F(g)
<1>1. n \in Nat /\ <<>> \in D
  OBVIOUS
<1>2. \A w \in 1 .. n, s \in D : Append(s, w) \in D
  OBVIOUS
<1>3. step \in [(1 .. n) \X D -> D] /\ \A w \in 1 .. n, s \in D :
        step[<<w, s>>] = IF In(w) THEN Append(s, w) ELSE s
  <2> HIDE DEF D, n, In
  <2>1. QED
    BY <1>2
<1>4. WindowsOf(record, task) = f[n]
  BY DEF WindowsOf
<1> HIDE DEF In, step, D, n
<1>5. PICK g : Solves(g, n, D, <<>>, step)
  BY <1>1, <1>3, Iterates
<1>6. g = F(g)
  <2>1. g \in [0 .. n -> D] /\ g[0] = <<>> /\ \A w \in 1 .. n : g[w] = step[<<w, g[w - 1]>>]
    BY <1>5 DEF Solves
  <2>2. \A w \in 1 .. n : w - 1 \in 0 .. n /\ g[w - 1] \in D
    BY <1>1, <2>1
  <2>3. \A w \in 0 .. n : g[w] = IF w = 0 THEN <<>>
                                 ELSE IF In(w) THEN Append(g[w - 1], w) ELSE g[w - 1]
    <3> SUFFICES ASSUME NEW w \in 0 .. n
                 PROVE  g[w] = IF w = 0 THEN <<>>
                               ELSE IF In(w) THEN Append(g[w - 1], w) ELSE g[w - 1]
      OBVIOUS
    <3>1. CASE w = 0
      BY <2>1, <3>1
    <3>2. CASE w # 0
      <4>1. w \in 1 .. n
        BY <1>1, <3>2
      <4>2. QED
        BY <1>3, <2>1, <2>2, <3>2, <4>1
    <3>3. QED
      BY <3>1, <3>2
  <2>4. g = [w \in 0 .. n |-> g[w]]
    BY <2>1
  <2>5. QED
    BY <2>3, <2>4
<1> HIDE DEF F
<1>7. f = F(f)
  BY <1>6
<1> HIDE DEF f
<1>8. f[0] = <<>> /\ \A w \in 1 .. n : f[w] = IF In(w) THEN Append(f[w - 1], w) ELSE f[w - 1]
  <2>1. f = [w \in 0 .. n |-> IF w = 0 THEN <<>>
                              ELSE IF In(w) THEN Append(f[w - 1], w) ELSE f[w - 1]]
    BY <1>7 DEF F
  <2>2. \A w \in 0 .. n : f[w] = IF w = 0 THEN <<>>
                                 ELSE IF In(w) THEN Append(f[w - 1], w) ELSE f[w - 1]
    BY <2>1
  <2>3. 0 \in 0 .. n /\ \A w \in 1 .. n : w \in 0 .. n /\ w # 0
    BY <1>1
  <2>4. QED
    BY <2>2, <2>3
<1> DEFINE G == {w \in Nat : w <= n => f[w] \in D}
<1>9. G = Nat
  <2>1. 0 \in G
    BY <1>1, <1>8
  <2>2. ASSUME NEW w \in G PROVE w + 1 \in G
    <3> SUFFICES ASSUME w + 1 <= n PROVE f[w + 1] \in D
      OBVIOUS
    <3>1. w + 1 \in 1 .. n /\ (w + 1) - 1 = w /\ f[w] \in D
      BY <1>1
    <3>2. f[w + 1] = IF In(w + 1) THEN Append(f[w], w + 1) ELSE f[w]
      BY <1>8, <3>1
    <3>3. QED
      BY <1>2, <3>1, <3>2 DEF D, n
  <2> HIDE DEF G
  <2>3. G \subseteq Nat
    BY DEF G
  <2>4. QED
    BY <2>1, <2>2, <2>3, NatInd
<1>10. f[n] \in D
  BY <1>1, <1>9
<1>11. QED
  BY <1>4, <1>10 DEF D, n

Weight(bag, t, e) == bag[e] * (IF e.task = t /\ e.code /\ e.action = "type" THEN e.chars ELSE 0)

\* Nothing typed is no weight in any window.
LEMMA NothingTyped ==
    ASSUME RecordIsTyped, LogIsTyped, NEW t, TypedIn(log, t) = 0
    PROVE  \A w \in DOMAIN log : \A e \in DOMAIN log[w].events : Weight(log[w].events, t, e) = 0
<1> DEFINE OfWindow(bag) == [e \in DOMAIN bag |-> Weight(bag, t, e)]
           all == [w \in DOMAIN log |-> SumFunction(OfWindow(log[w].events))]
<1>1. TypedIn(log, t) = SumFunction(all)
  BY DEF TypedIn, Total, Weight
<1>2. ASSUME NEW w \in DOMAIN log
      PROVE  /\ all[w] \in Nat
             /\ all[w] = 0 => \A e \in DOMAIN log[w].events : Weight(log[w].events, t, e) = 0
  <2> DEFINE bag == log[w].events
             f == OfWindow(bag)
  <2>1. IsFiniteSet(DOMAIN bag) /\ \A e \in DOMAIN bag : bag[e] \in Nat /\ e.chars \in Nat
    BY DEF RecordIsTyped, IsEvents
  <2> HIDE DEF bag
  <2>2. DOMAIN f = DOMAIN bag /\ \A e \in DOMAIN bag : f[e] = Weight(bag, t, e)
    OBVIOUS
  <2>3. \A e \in DOMAIN bag : Weight(bag, t, e) \in Nat
    BY <2>1 DEF Weight
  <2>4. all[w] = SumFunctionOnSet(f, DOMAIN bag)
    <3>1. all[w] = SumFunction(f)
      BY DEF bag
    <3> HIDE DEF f, all
    <3>2. QED
      BY <2>2, <3>1 DEF SumFunction
  <2> HIDE DEF f, all
  <2>5. /\ SumFunctionOnSet(f, DOMAIN bag) \in Nat
        /\ SumFunctionOnSet(f, DOMAIN bag) = 0 <=> \A e \in DOMAIN bag : f[e] = 0
    BY <2>1, <2>2, <2>3, SumOfNats
  <2>6. QED
    BY <2>2, <2>4, <2>5 DEF bag
<1>3. DOMAIN all = DOMAIN log /\ IsFiniteSet(DOMAIN log)
  <2>1. DOMAIN log = 1 .. Len(log) /\ Len(log) \in Nat
    BY DEF LogIsTyped
  <2>2. QED
    BY <2>1, FS_Interval
<1> HIDE DEF all
<1>4. SumFunctionOnSet(all, DOMAIN log) = 0
  BY <1>1, <1>3 DEF SumFunction
<1>5. \A w \in DOMAIN log : all[w] = 0
  BY <1>2, <1>3, <1>4, SumOfNats
<1>6. QED
  BY <1>2, <1>5

LEMMA TaskLog ==
    ASSUME RecordIsTyped, LogIsTyped, NEW t
    PROVE  LET own == LogOfTask(log, t)
           IN  /\ IsFiniteSet(DOMAIN own)
               /\ \A k \in DOMAIN own : \E w \in DOMAIN log :
                     own[k].events = [e \in {x \in DOMAIN log[w].events : x.task = t}
                                          |-> log[w].events[e]]
<1> DEFINE kept == WindowsOf(log, t)
           own == LogOfTask(log, t)
           Bag(w) == [e \in {x \in DOMAIN log[w].events : x.task = t} |-> log[w].events[e]]
           Narrowed(w) == [log[w] EXCEPT !.events = Bag(w)]
<1>1. kept \in Seq(1 .. Len(log)) /\ DOMAIN log = 1 .. Len(log)
  BY WindowsAreOfLog DEF LogIsTyped
<1>2. own = [k \in DOMAIN kept |-> Narrowed(kept[k])]
  BY DEF LogOfTask
<1> HIDE DEF kept, own
<1>3. IsFiniteSet(DOMAIN kept)
  <2>1. DOMAIN kept = 1 .. Len(kept) /\ Len(kept) \in Nat
    BY <1>1
  <2>2. QED
    BY <2>1, FS_Interval
<1>4. ASSUME NEW w \in DOMAIN log PROVE Narrowed(w).events = Bag(w)
  <2>1. "events" \in DOMAIN log[w]
    BY DEF RecordIsTyped
  <2> HIDE DEF Bag
  <2>2. QED
    BY <2>1
<1>5. \A k \in DOMAIN kept : kept[k] \in DOMAIN log
  BY <1>1
<1> HIDE DEF Narrowed
<1>6. DOMAIN own = DOMAIN kept /\ \A k \in DOMAIN own : own[k] = Narrowed(kept[k])
  BY <1>2
<1>7. \A k \in DOMAIN own : kept[k] \in DOMAIN log /\ own[k].events = Bag(kept[k])
  BY <1>4, <1>5, <1>6
<1>8. QED
  BY <1>3, <1>6, <1>7 DEF own

LEMMA PastedIsFlagged ==
    ASSUME RecordIsTyped, LogIsTyped, NEW t, TypedIn(log, t) = 0, NEW len \in Int, len >= MinCodeLen
    PROVE  Authorship(LogOfTask(log, t), len).flag = TRUE
<1> DEFINE own == LogOfTask(log, t)
           Own(bag, e) == bag[e] * (IF e.code /\ e.action = "type" THEN e.chars ELSE 0)
           OfWindow(bag) == [e \in DOMAIN bag |-> Own(bag, e)]
           all == [k \in DOMAIN own |-> SumFunction(OfWindow(own[k].events))]
           typed == SumFunction(all)
<1>1. Authorship(own, len).flag = (len >= MinCodeLen /\ typed * 100 < 30 * len)
  BY DEF Authorship, Total
<1>2. ASSUME NEW k \in DOMAIN own PROVE all[k] = 0
  <2> DEFINE bag == own[k].events
             f == OfWindow(bag)
  <2>1. PICK w \in DOMAIN log :
            bag = [e \in {x \in DOMAIN log[w].events : x.task = t} |-> log[w].events[e]]
    BY TaskLog
  <2>2. IsFiniteSet(DOMAIN log[w].events)
        /\ \A e \in DOMAIN log[w].events : Weight(log[w].events, t, e) = 0
    BY NothingTyped DEF RecordIsTyped, IsEvents
  <2> HIDE DEF own, bag
  <2>3. IsFiniteSet(DOMAIN bag)
    <3>1. DOMAIN bag \subseteq DOMAIN log[w].events
      BY <2>1
    <3>2. QED
      BY <2>2, <3>1, FS_Subset
  <2>4. \A e \in DOMAIN bag : Own(bag, e) = 0
    <3>1. \A e \in DOMAIN bag : /\ e \in DOMAIN log[w].events /\ e.task = t
                                /\ bag[e] = log[w].events[e]
      BY <2>1
    <3>2. QED
      BY <2>2, <3>1 DEF Weight
  <2> HIDE DEF Own
  <2>5. DOMAIN f = DOMAIN bag /\ \A e \in DOMAIN bag : f[e] = 0
    BY <2>4
  <2>6. all[k] = SumFunction(f)
    BY DEF bag
  <2> HIDE DEF f, all
  <2>7. QED
    BY <2>3, <2>5, <2>6, SumOfNats DEF SumFunction
<1>3. IsFiniteSet(DOMAIN own)
  BY TaskLog
<1>4. DOMAIN all = DOMAIN own
  OBVIOUS
<1> HIDE DEF own, all
<1>5. typed = 0
  BY <1>2, <1>3, <1>4, SumOfNats DEF SumFunction
<1>6. MinCodeLen \in Nat \ {0}
  BY ForensicsAssumption
<1> HIDE DEF typed
<1>7. len >= MinCodeLen /\ typed * 100 < 30 * len
  BY <1>5, <1>6
<1>8. QED
  BY <1>1, <1>7 DEF own

PastedInv ==
    results # None =>
        /\ results.merged = MergedReview(results.tasks, results.session, type)
        /\ \A t \in DOMAIN results.tasks :
              /\ Metrics \subseteq DOMAIN results.tasks[t]
              /\ TypedIn(read, t) = 0 /\ results.tasks[t].length >= MinCodeLen =>
                     results.tasks[t].authorship.flag = TRUE

LEMMA PastedAnalysed ==
    ASSUME RecordIsTyped, LogIsTyped, Analyse
    PROVE  PastedInv'
<1>1. /\ UNCHANGED type /\ read' = log
      /\ results'.tasks = [t \in TaskIdsIn(log) |-> TaskReadings(log, t, runs, byTask)]
      /\ results'.merged = MergedReview(results'.tasks, results'.session, type)
  BY DEF Analyse, ForensicsResults, editing
<1>2. ASSUME NEW t \in TaskIdsIn(log)
      PROVE  LET r == TaskReadings(log, t, runs, byTask)
             IN  /\ Metrics \subseteq DOMAIN r
                 /\ TypedIn(log, t) = 0 /\ r.length >= MinCodeLen => r.authorship.flag = TRUE
  <2> DEFINE r == TaskReadings(log, t, runs, byTask)
             len == FinalTaskSnapshots(log)[t].len
  <2>1. Metrics \subseteq DOMAIN r
    BY DEF TaskReadings, Readings, Metrics
  <2>2. r.length = len /\ r.authorship = Authorship(LogOfTask(log, t), len)
    BY DEF TaskReadings, Readings
  <2>3. len \in Int
    BY LastWindowHasAll DEF Files
  <2> HIDE DEF r, len
  <2>4. TypedIn(log, t) = 0 /\ len >= MinCodeLen => Authorship(LogOfTask(log, t), len).flag = TRUE
    BY <2>3, PastedIsFlagged
  <2>5. QED
    BY <2>1, <2>2, <2>4 DEF r
<1>3. \A t : TypedIn(read, t)' = TypedIn(log, t)
  BY <1>1 DEF TypedIn, Total
<1>4. QED
  BY <1>1, <1>2, <1>3 DEF PastedInv

LEMMA TypeStays == [Next]_vars => UNCHANGED type
<1> SUFFICES ASSUME [Next]_vars PROVE UNCHANGED type
  OBVIOUS
<1>1. ASSUME NEW t \in DOMAIN code,
             Run(t) \/ (\E gap \in Gaps : Type(t, gap)) \/ Complete(t) \/ Delete(t)
               \/ TypeData(t) \/ \E construct \in BOOLEAN : Paste(t, construct)
      PROVE  UNCHANGED type
  BY <1>1 DEF Run, Type, Complete, Delete, TypeData, Paste, Edit
<1>2. Reload \/ RunStep \/ Flush \/ Post \/ Land \/ Analyse => UNCHANGED type
  BY DEF Reload, RunStep, Flush, Post, Land, Analyse
<1>3. Judging => UNCHANGED type
  BY JudgingIsReviewing DEF Reviewing
<1>4. ReviewRunEnds \/ (\E task \in DOMAIN code \cup {None} : ReviewRun(task)) => UNCHANGED type
  BY DEF ReviewRunEnds, ReviewRun
<1>5. UNCHANGED vars => UNCHANGED type
  BY DEF vars
<1>6. QED
  BY <1>1, <1>2, <1>3, <1>4, <1>5 DEF Next, Judging

\* The verdict and the record it was made from stay, whatever arrives later.
LEMMA PastedStep ==
    ASSUME PastedInv, RecordIsTyped, ReviewInv, [Next]_vars
    PROVE  PastedInv'
<1>1. CASE Analyse
  <2>1. LogIsTyped
    BY DEF ReviewInv
  <2>2. QED
    BY <1>1, <2>1, PastedAnalysed
<1>2. CASE UNCHANGED <<results, read>>
  <2>1. UNCHANGED type
    BY TypeStays
  <2>2. \A t : TypedIn(read, t)' = TypedIn(read, t)
    BY <1>2 DEF TypedIn, Total
  <2>3. QED
    BY <1>2, <2>1, <2>2 DEF PastedInv
<1>3. QED
  BY <1>1, <1>2, VerdictStays

LEMMA FlaggedIsSeen ==
    ASSUME PastedInv, results # None, NEW t \in DOMAIN results.tasks,
           TypedIn(read, t) = 0, results.tasks[t].length >= MinCodeLen
    PROVE  /\ Level(TaskSummary(t), "authorship") = "red"
           /\ RowStandsOut(TaskSummary(t), t)
           /\ MergedLevel = "red"
<1> DEFINE r == results.tasks[t]
           b == [flag |-> r.metricB.flag, inconclusive |-> r.metricB.inconclusive]
           c == [flag |-> r.metricC.flag, inconclusive |-> r.metricC.inconclusive,
                 cv |-> r.metricC.cv]
<1>1. r["authorship"].flag = TRUE /\ Metrics \subseteq DOMAIN r
  BY DEF PastedInv
<1>2. TaskSummary(t) = [r EXCEPT !.metricB = b, !.metricC = c]
  BY DEF TaskSummary
<1> HIDE DEF r, b, c
<1>3. TaskSummary(t)["authorship"].flag = TRUE
  BY <1>1, <1>2 DEF Metrics
<1>4. Level(TaskSummary(t), "authorship") = "red"
  BY <1>3 DEF Level, RedIf
<1>5. "authorship" \in Shown(type) /\ "authorship" \in RelevantMetrics(type)
  BY DEF Shown, RelevantMetrics, Metrics
<1>6. RowStandsOut(TaskSummary(t), t)
  BY <1>3, <1>5 DEF RowStandsOut
<1>7. MergedLevel = "red"
  <2> DEFINE flagged == {u \in DOMAIN results.tasks : FlaggedMetricsOf(results.tasks[u], type) # {}}
  <2>1. "authorship" \in FlaggedMetricsOf(results.tasks[t], type)
    BY <1>1, <1>5 DEF FlaggedMetricsOf, r
  <2>2. t \in flagged
    BY <2>1
  <2>3. results.merged = [flag |-> flagged # {} \/ FlaggedMetricsOf(results.session, type) # {},
                          flaggedTasks |-> flagged]
    BY DEF PastedInv, MergedReview
  <2> HIDE DEF flagged
  <2>4. results.merged.flag = (flagged # {} \/ FlaggedMetricsOf(results.session, type) # {})
    BY <2>3
  <2>5. results.merged.flag
    BY <2>2, <2>4
  <2>6. QED
    BY <2>5 DEF MergedLevel, RedIf
<1>8. QED
  BY <1>4, <1>6, <1>7

\* Whatever else was typed, whichever task came last and however many windows,
\* in the record the worker read and after it: a task with a program and nothing
\* typed for it in that record is red in its row, and the verdict of the session
\* with it.
THEOREM PastedIsSeen == Spec => []PastedTaskCannotHide
<1> DEFINE Inv == ReviewInv /\ RecordIsTyped /\ PastedInv
<1>1. Init => Inv
  BY LogStart, RecordStart DEF Init, PastedInv
<1>2. Inv /\ [Next]_vars => Inv'
  BY ReviewStep, RecordStep, PastedStep
<1>3. Inv => PastedTaskCannotHide
  BY FlaggedIsSeen DEF PastedTaskCannotHide
<1>4. QED
  BY <1>1, <1>2, <1>3, PTL DEF Spec
=============================================================================
