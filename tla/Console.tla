-------------------------------- MODULE Console --------------------------------
(***************************************************************************)
(* Running a program: the console of each task in the exam page (App.jsx,  *)
(* runConsole.js, runStatus.js), POST /api/execute with the sandbox behind *)
(* it, the two run counters of the session, and the instructor's own run   *)
(* of what was handed in (InstructorRunPanel.jsx, instructorRun.ts).       *)
(*                                                                         *)
(* What a program prints and writes is known by the number of its run.     *)
(* The page sends one run at a time; a page that is reloaded, or whose     *)
(* request broke, leaves its run to the server.                            *)
(*                                                                         *)
(* The header and the file panel show the slice of the task on screen.     *)
(* There is one terminal for all tasks, and it only appends: of a line it  *)
(* shows we keep the run it came from.                                     *)
(***************************************************************************)
EXTENDS Forensics

CONSTANTS
    Task,
    Outputs    \* how many lines an executed program may leave in the console

\* What the end of a run puts in a console.
Answers == [run : Nat, task : Task, status : {"ran", "network error", "rejected"}, lines : Nat]

ASSUME ConsoleAssumption == Outputs \subseteq Nat \ (0 .. 2) /\ None \notin Answers

VARIABLES
    console,   \* console[t]: the slice of task t the runs write
    active,    \* the task on screen
    screen,    \* the lines Terminal has written, by their run; writtenRef is their number
    turned,    \* history: the student came to this task since a run, Clear or load
    page,      \* how often the exam page was reloaded
    requests,  \* runs that are not answered yet
    runs,      \* runCount
    byTask,    \* runCountByTask
    review,    \* InstructorRunPanel
    asked,     \* history: runs the student clicked; numbers them
    ran,       \* history: ran[t], runs of t the sandbox answered
    seen,      \* history: seen[t], runs of t the student saw the output of in time
    twice,     \* history: a run was counted twice
    lost       \* history: a run could not be counted

counted == <<runs, byTask, ran, seen, twice, lost>>
display == <<active, screen, turned>>
exec    == <<console, display, page, requests, asked, counted>>

\* No map yet, or one of a session that is counted per task.
Maps == {None, <<>>}

Blank == [run |-> None, answer |-> None, files |-> None]

ConsoleInit ==
    /\ console = [t \in Task |-> Blank]
    /\ active = DefaultTask /\ screen = <<>> /\ turned = FALSE
    /\ page = 0
    /\ requests = {}
    /\ runs = 0 /\ byTask \in Maps
    /\ review = [at |-> "idle", of |-> None, ranTask |-> None, answer |-> None]
    /\ asked = 0
    /\ ran = [t \in Task |-> 0] /\ seen = [t \in Task |-> 0]
    /\ twice = FALSE /\ lost = FALSE

-----------------------------------------------------------------------------
(***************************************************************************)
(* The terminal.                                                           *)
(***************************************************************************)
\* consoleEvents: three lines announce a run, the others are its answer.
Events(slice) ==
    LET lines == CASE slice.run = None -> 0
                   [] slice.run # None /\ slice.answer = None -> 3
                   [] OTHER -> 3 + slice.answer.lines
    IN  [i \in 1 .. lines |-> IF i <= 3 THEN slice.run ELSE slice.answer.run]

\* The effect on [events]: fewer of them than were written reset the screen,
\* otherwise the ones beyond those are appended.
Terminal(shown, events) ==
    [i \in DOMAIN events |->
        IF Len(shown) <= Len(events) /\ i <= Len(shown) THEN shown[i] ELSE events[i]]

\* The student turns to task t, whose console becomes the terminal's events.
TurnTo(t) ==
    /\ active' = t
    /\ screen' = Terminal(screen, Events(console[t]))
    /\ turned' = (turned \/ t # active)
    /\ UNCHANGED <<console, page, requests, asked, counted>>

\* The console of the task on screen may have changed.
Repaint == screen' = Terminal(screen, Events(console'[active])) /\ UNCHANGED active

-----------------------------------------------------------------------------
(***************************************************************************)
(* The exam page.                                                          *)
(***************************************************************************)
\* isRunning belongs to the page, not to a task.
IsRunning == \E r \in requests : r.page = page

\* The student goes to task t and runs it: handleRun up to its fetch.  The task
\* and its files are pinned here; what the last run left in the console is stale.
StartRun(t) ==
    /\ ~IsRunning
    /\ asked' = asked + 1
    /\ console' = [console EXCEPT ![t] = [Blank EXCEPT !.run = asked']]
    /\ requests' = requests \cup
          {[run |-> asked', task |-> t, page |-> page, at |-> "sent", ending |-> None]}
    /\ active' = t
    /\ screen' = Terminal(Terminal(screen, Events(console[t])), Events(console'[t]))
    /\ turned' = FALSE
    /\ UNCHANGED <<page, counted, review>>

\* Variant: the answer is put in the console of the task on screen.
OnScreen(r) == active

ConsoleFor(r) == r.task

\* The header's verdict: a workspace that was refused and a sandbox that was
\* out of reach read the same.
RunStatusOf(ending) == IF ending \in {"ran", "network error"} THEN ending ELSE "rejected"

\* Only a program that ran has written files.
SelectWrittenFiles(answer) == IF answer.status = "ran" THEN answer ELSE None

\* How many lines: an error and the prompt, or what was printed, the status
\* and the prompt.
Lines(ending) == IF ending = "ran" THEN Outputs ELSE {2}

Written(slice, r, ending, lines) ==
    LET answer == [run |-> r.run, task |-> r.task, status |-> RunStatusOf(ending),
                   lines |-> lines]
    IN  [slice EXCEPT !.answer = answer, !.files = SelectWrittenFiles(answer)]

\* Variant: a run is answered before it is counted.
AnswerFirst(r) == r.at \in {"executed", "done"}

MayAnswer(r) == r.at = "done"

Answer(r, handedIn) ==
    /\ MayAnswer(r) /\ r.page = page
    /\ \E lines \in Lines(r.ending) :
          console' = [console EXCEPT ![ConsoleFor(r)] = Written(@, r, r.ending, lines)]
    /\ Repaint
    /\ requests' = requests \ {r}
    /\ seen' = IF r.ending = "ran" /\ ~handedIn THEN [seen EXCEPT ![r.task] = @ + 1] ELSE seen
    /\ UNCHANGED <<turned, page, runs, byTask, review, asked, ran, twice, lost>>

\* The page has its network error; the server goes on with what reached it.
BreakRun(r) ==
    /\ r.page = page
    /\ console' = [console EXCEPT ![ConsoleFor(r)] = Written(@, r, "network error", 2)]
    /\ Repaint
    /\ requests' = (requests \ {r}) \cup
          (IF r.at = "done" THEN {} ELSE {[r EXCEPT !.page = None]})
    /\ UNCHANGED <<turned, page, review, asked, counted>>

\* Clear leaves the files of the last run in the file panel.
Clear ==
    /\ ~IsRunning
    /\ console[active].run # None
    /\ console' = [console EXCEPT ![active] = [Blank EXCEPT !.files = console[active].files]]
    /\ Repaint
    /\ turned' = FALSE
    /\ UNCHANGED <<page, requests, review, asked, counted>>

ReloadPage ==
    /\ page' = page + 1
    /\ console' = [t \in Task |-> Blank]
    /\ screen' = <<>> /\ turned' = FALSE
    /\ UNCHANGED <<active, requests, review, asked, counted>>

-----------------------------------------------------------------------------
(***************************************************************************)
(* POST /api/execute.                                                      *)
(***************************************************************************)
\* The page that would have had the answer is gone.
Nobody(r) == r.page # page

Refresh(r, next) ==
    requests' = (requests \ {r}) \cup (IF next.at = "done" /\ Nobody(r) THEN {} ELSE {next})

\* No program runs: names, sizes or the missing main.cpp of the workspace (or
\* its input) are refused, or the sandbox is out of reach.
Failures == {"invalid", "unreachable"}

\* Nothing is counted.
Refuse(r, why) ==
    /\ r.at = "sent"
    /\ Refresh(r, [r EXCEPT !.at = "done", !.ending = RunStatusOf(why)])
    /\ UNCHANGED <<console, display, page, review, asked, counted>>

Execute(r) ==
    /\ r.at = "sent"
    /\ Refresh(r, [r EXCEPT !.at = "executed", !.ending = "ran"])
    /\ ran' = [ran EXCEPT ![r.task] = @ + 1]
    /\ UNCHANGED <<console, display, page, review, asked, runs, byTask, seen, twice, lost>>

\* One statement counts a run for the session and for its task; a retry of a
\* lost acknowledgement counts it again, and a statement that keeps failing
\* counts nothing and leaves the answer as it is.
CountRun(r, times) ==
    /\ r.at = "executed"
    /\ runs' = runs + times
    /\ byTask' = IF times = 0 THEN byTask
                 ELSE LET old == IF byTask = None THEN <<>> ELSE byTask
                      IN  [u \in DOMAIN old \cup {r.task} |->
                              (IF u \in DOMAIN old THEN old[u] ELSE 0)
                                + (IF u = r.task THEN times ELSE 0)]
    /\ twice' = (twice \/ times > 1)
    /\ lost' = (lost \/ times = 0)
    /\ Refresh(r, [r EXCEPT !.at = "done"])
    /\ UNCHANGED <<console, display, page, review, asked, ran, seen>>

-----------------------------------------------------------------------------
(***************************************************************************)
(* The instructor's run of a handed-in session: it reads the record and    *)
(* writes nothing.                                                         *)
(***************************************************************************)
\* Variant: the files of the window that came last, whatever its task.
LastWindow(log, task) ==
    IF log = <<>> THEN None ELSE log[Len(log)].snap[log[Len(log)].active]

\* The program a task was handed in with, None when there is none.
SnapshotOf(log, task) ==
    IF \E w \in DOMAIN log : task \in DOMAIN log[w].snap
      THEN FinalTaskSnapshots(log)[task] ELSE None

\* Which task is run: the one that is asked for, or the only one there is.
SelectTask(log, task) ==
    LET available == UNION {DOMAIN log[w].snap : w \in DOMAIN log}
    IN  CASE task # None -> task
          [] task = None /\ Cardinality(available) = 1 -> CHOOSE t \in available : TRUE
          [] OTHER -> None

\* The player asks for a task first when the session, or its exam, has several.
StartReview(log, exam, task) ==
    /\ review.at = "idle"
    /\ task = None => Cardinality(TaskIdsIn(log)) = 1 /\ Cardinality(exam) = 1
    /\ review' = [review EXCEPT !.at = "asked", !.of = task, !.answer = None]
    /\ UNCHANGED exec

\* ranTask names the last run that was answered; a refusal leaves it.
ReviewAnswered(log) ==
    LET t == SelectTask(log, review.of)
    IN  /\ review.at = "asked"
        /\ t # None /\ SnapshotOf(log, t) # None
        /\ review' = [review EXCEPT !.at = "idle", !.ranTask = t, !.answer = SnapshotOf(log, t)]
        /\ UNCHANGED exec

\* No such task, nothing recorded, no main.cpp in it, no sandbox, no network.
ReviewRefused ==
    /\ review.at = "asked"
    /\ review' = [review EXCEPT !.at = "idle"]
    /\ UNCHANGED exec

-----------------------------------------------------------------------------
\* What the header and the file panel show of a run is that task's, and the
\* header's verdict is of the run the console announced, also when the student
\* went to another task meanwhile or an earlier page's run is still going.  The
\* terminal shows that console, of the task on screen, unless the student came
\* to it from another since the last run, Clear or load: handleRun and Clear
\* leave fewer lines than any finished run, so the terminal always starts anew.
AnswerStaysInItsTask ==
    /\ \A t \in Task :
          LET c == console[t]
          IN  /\ c.answer # None => c.answer.task = t /\ c.answer.run = c.run
              /\ c.files # None => c.files.task = t
              /\ c.files # None /\ c.answer # None => c.files = c.answer
    /\ ~turned => screen = Events(console[active])
=============================================================================
