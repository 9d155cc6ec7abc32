-------------------------------- MODULE Report --------------------------------
(***************************************************************************)
(* From what a student does in an exam to what the instructor reads: the   *)
(* events and runs of every task, the windows ingest stores, the verdict   *)
(* of the forensics worker (Forensics), its two summaries over the API,    *)
(* the colours of the class page, the task table and the player, and the   *)
(* instructor's own judgment of a reading.  Console runs the programs, of  *)
(* the student and then of the instructor.                                 *)
(*                                                                         *)
(* SubmitPipeline has how the windows reach the row and the job is run;    *)
(* here they arrive once, all but one of them in order: that one may come  *)
(* after later windows, and after the verdict.                             *)
(***************************************************************************)
EXTENDS Console

CONSTANTS
    Exams,      \* the tasks an exam may have
    Types,      \* of the exam: "LIVE_LAB", "ASSESSMENT"
    Gaps,       \* pauses before a typed character, milliseconds in some unit
    PasteLen,   \* characters in a paste
    MaxActs     \* events, runs, reloads, reports opened and judgments clicked, together

Judgments == {"accurate", "inaccurate"}

\* A saved judgment on its way: which, and whether the row is written.
JudgmentPost == [scope : Task \cup {None}, j : Judgments, written : BOOLEAN]

ASSUME ReportAssumption ==
    /\ None \notin Judgments \cup JudgmentPost
    /\ \A exam \in Exams : /\ DefaultTask \in exam /\ exam \subseteq Task /\ IsFiniteSet(exam)
                           /\ \A some \in SUBSET exam : None \notin [some -> Nat]
    /\ Gaps \subseteq Nat
    /\ {PasteLen, MaxActs} \subseteq Nat

VARIABLES
    type,     \* of the assignment
    code,     \* code[t]: the code files of task t
    buffer,   \* telemetryBuffer
    sent,     \* a window that was posted and has not arrived
    log,      \* playback_log and burst_history
    results,  \* forensicsResults, None until the worker has been
    read,     \* history: the log as the worker read it
    saved,    \* metric_reviews: the instructor's rows for one metric, by their task
    panel,    \* the player's judgments, its selected task, its control on the metric
    orphans,  \* judgments posted that no open report waits for, not written yet
    crossed,  \* history: an answer to the control was lost or overtaken
    acts      \* bound

vars == <<type, code, buffer, sent, log, exec, review, results, read,
          saved, panel, orphans, crossed, acts>>

editing == <<code, buffer, sent, log>>
running == <<exec, review>>
verdict == <<results, read>>
judging == <<saved, panel, orphans, crossed>>

Act == acts < MaxActs /\ acts' = acts + 1

\* The task selected in the player; none for all of them.
Scopes == DOMAIN code \cup {None}

Unopened == [at |-> "unopened"]

Init ==
    /\ type \in Types
    /\ \E exam \in Exams : code = [t \in exam |-> NoFiles]
    /\ buffer = <<>> /\ sent = None
    /\ log = <<>>
    /\ ConsoleInit
    /\ results = None /\ read = None
    /\ saved = [s \in Scopes |-> IF s = DefaultTask THEN "accurate" ELSE None]
    /\ panel = Unopened /\ orphans = {} /\ crossed = FALSE
    /\ acts = 0

-----------------------------------------------------------------------------
(***************************************************************************)
(* The exam.  A switch of tasks flushes first, but what is typed while it  *)
(* waits shares a window with what the next task begins with.              *)
(***************************************************************************)
Event(t, isCode, action, chars, gap) ==
    [task |-> t, code |-> isCode, action |-> action, chars |-> chars, gap |-> gap]

Edit(t, files, event) ==
    /\ results = None /\ Act
    /\ TurnTo(t)
    /\ code' = [code EXCEPT ![t] = files]
    /\ buffer' = buffer (+) SetToBag({event})
    /\ UNCHANGED <<type, sent, log, review, verdict, judging>>

Longer(t, n) == [code[t] EXCEPT !.len = @ + n]

\* One character, or several at once (completion, indentation).
Type(t, gap) == Edit(t, Longer(t, 1), Event(t, TRUE, "type", 1, gap))
Complete(t)  == Edit(t, Longer(t, 3), Event(t, TRUE, "type", 3, Min(Gaps)))

\* A paste over the whole file is one change that deletes and inserts.
Paste(t, construct) ==
    Edit(t, [len |-> PasteLen, construct |-> construct], Event(t, TRUE, "paste", PasteLen, 0))

Delete(t) ==
    /\ code[t].len > 0
    /\ Edit(t, Longer(t, -1), Event(t, TRUE, "delete", 0, Min(Gaps)))

TypeData(t) == Edit(t, code[t], Event(t, FALSE, "type", 1, Min(Gaps)))

\* The mean of the pauses, rounded; zero when there are none.
Mean(bag) ==
    LET one   == <<[events |-> bag]>>
        n     == Count(one, LAMBDA e : e.gap > 0)
        total == Total(one, LAMBDA e : e.gap)
    IN  IF n = 0 THEN 0 ELSE (2 * total + n) \div (2 * n)

Window == [events |-> buffer, snap |-> code, active |-> active, mean |-> Mean(buffer)]

Flush ==
    /\ results = None /\ DOMAIN buffer # {}
    /\ log' = Append(log, Window)
    /\ buffer' = <<>>
    /\ UNCHANGED <<type, code, sent, running, verdict, judging, acts>>

\* A window of the interval takes its time; hand-in does not wait for it.
Post ==
    /\ results = None /\ DOMAIN buffer # {} /\ sent = None
    /\ sent' = Window
    /\ buffer' = <<>>
    /\ UNCHANGED <<type, code, log, running, verdict, judging, acts>>

\* The ingest route does not look at the session's status.
Land ==
    /\ sent # None
    /\ log' = Append(log, sent)
    /\ sent' = None
    /\ UNCHANGED <<type, code, buffer, running, verdict, judging, acts>>

\* The student's runs, and what becomes of them at the server.
Run(t) ==
    /\ results = None /\ Act
    /\ StartRun(t)
    /\ UNCHANGED <<type, editing, verdict, judging>>

Reload ==
    /\ results = None /\ Act
    /\ ReloadPage
    /\ UNCHANGED <<type, editing, verdict, judging>>

\* A run may still be under way when the session is handed in and judged.
RunStep ==
    /\ \/ \E r \in requests :
              \/ Execute(r)
              \/ \E why \in Failures : Refuse(r, why)
              \/ \E times \in 0..3 : CountRun(r, times)
              \/ Answer(r, results # None) \/ BreakRun(r)
       \/ Clear
    /\ UNCHANGED <<type, editing, verdict, judging, acts>>

\* The worker, once the session has been handed in.
Analyse ==
    /\ results = None
    /\ results' = ForensicsResults(log, runs, byTask, type)
    /\ read' = log
    /\ UNCHANGED <<type, editing, running, judging, acts>>

-----------------------------------------------------------------------------
(***************************************************************************)
(* The summaries.  The class page gets sessionSummary with a taskSummary   *)
(* of every task; the player gets the results as they are stored.          *)
(***************************************************************************)
\* Variant: what could not be assessed is not passed on.
SummaryBare(t) ==
    [results.tasks[t] EXCEPT !.metricB = [flag |-> @.flag, inconclusive |-> FALSE],
                             !.metricC = [flag |-> @.flag, inconclusive |-> FALSE, cv |-> @.cv]]

TaskSummary(t) ==
    [results.tasks[t] EXCEPT !.metricB = [flag |-> @.flag, inconclusive |-> @.inconclusive],
                             !.metricC = [flag |-> @.flag, inconclusive |-> @.inconclusive,
                                          cv |-> @.cv]]

SessionSummary == [results EXCEPT !.tasks = [t \in DOMAIN @ |-> TaskSummary(t)]]

(***************************************************************************)
(* The colours.                                                            *)
(***************************************************************************)
RedIf(flag) == IF flag THEN "red" ELSE "green"

RunsLevel(runCount, scope) ==
    CASE scope # "task"                      -> "grey"
      [] scope = "task" /\ runCount <= 1     -> "red"
      [] scope = "task" /\ runCount = 2      -> "green"
      [] OTHER                               -> "darkgreen"

LinearLevel(b) == IF b.inconclusive THEN "grey" ELSE RedIf(b.flag)

RhythmLevel(c) ==
    CASE c.inconclusive \/ c.cv = None -> "grey"
      [] OTHER -> IF c.cv.var * 400 < 9 * c.cv.sq THEN "red"
                  ELSE IF c.cv.var * 25 < 4 * c.cv.sq THEN "yellow" ELSE "green"

Level(readings, m) ==
    CASE m = "metricA"    -> RunsLevel(readings.metricA.runs, readings.metricA.scope)
      [] m = "metricB"    -> LinearLevel(readings.metricB)
      [] m = "metricC"    -> RhythmLevel(readings.metricC)
      [] OTHER            -> RedIf(readings[m].flag)

MergedLevel == RedIf(results.merged.flag)

\* taskReport.js decides on its own which metrics a take-home shows.
Shown(t) == IF t = "ASSESSMENT" THEN Metrics \ {"metricA"} ELSE Metrics

\* A row of the task table stands out when one of its shown metrics flags, or
\* the merged verdict names it.
RowStandsOut(readings, t) ==
    (\E m \in Shown(type) : readings[m].flag) \/ t \in results.merged.flaggedTasks

-----------------------------------------------------------------------------
(***************************************************************************)
(* The instructor's judgments of one metric.  The player loads the saved   *)
(* ones beside the report.  It has one control for the metric, whatever    *)
(* task is selected; a click shows at once and is taken back when its      *)
(* request fails.                                                          *)
(***************************************************************************)
\* The control adopts a judgment of the player it has not seen, unless a click
\* of its own is in flight.
\* Variant: whatever is in flight.
AdoptAlways(p) ==
    LET initial == p.judgments[p.selected]
    IN  IF initial # p.seen
          THEN [p EXCEPT !.seen = initial, !.judgment = initial, !.turned = FALSE] ELSE p

Adopt(p) ==
    LET initial == p.judgments[p.selected]
    IN  IF initial # p.seen /\ p.post = None
          THEN [p EXCEPT !.seen = initial, !.judgment = initial, !.turned = FALSE] ELSE p

Reviewing == UNCHANGED <<type, editing, running, verdict>>

Open == panel.at = "open"
InFlight == Open /\ panel.post # None
Unwritten == IF InFlight /\ ~panel.post.written THEN {panel.post} ELSE {}

\* turned: the task changed while a click was in flight, and the control has
\* adopted nothing since.
OpenReport ==
    /\ results # None /\ Act
    /\ \E task \in Scopes :
          panel' = [at |-> "open", selected |-> task, judgments |-> [s \in Scopes |-> None],
                    seen |-> None, judgment |-> None, post |-> None, previous |-> None,
                    load |-> "asked", rows |-> None, turned |-> FALSE]
    /\ orphans' = orphans \cup Unwritten
    /\ crossed' = FALSE
    /\ UNCHANGED saved
    /\ Reviewing

\* selectTask, where the session has several tasks.
SelectScope(task) ==
    /\ Open /\ task # panel.selected /\ Cardinality(DOMAIN code) > 1
    /\ panel' = Adopt([panel EXCEPT !.selected = task, !.turned = @ \/ InFlight])
    /\ UNCHANGED <<saved, orphans, crossed, acts>>
    /\ Reviewing

\* GET /api/sessions/:sessionId/metric-reviews is read, and later answered.
LoadRead ==
    /\ Open /\ panel.load = "asked"
    /\ panel' = [panel EXCEPT !.load = "read", !.rows = saved]
    /\ UNCHANGED <<saved, orphans, crossed, acts>>
    /\ Reviewing

LoadAnswered ==
    /\ Open /\ panel.load = "read"
    /\ panel' = Adopt([panel EXCEPT !.load = "done", !.judgments = panel.rows])
    /\ crossed' = (crossed \/ panel.rows # saved)
    /\ UNCHANGED <<saved, orphans, acts>>
    /\ Reviewing

Click(j) ==
    /\ Open /\ panel.post = None /\ j # panel.judgment
    /\ Act
    /\ panel' = [panel EXCEPT !.post = [scope |-> panel.selected, j |-> j, written |-> FALSE],
                              !.previous = panel.judgment, !.judgment = j]
    /\ UNCHANGED <<saved, orphans, crossed>>
    /\ Reviewing

\* POST: one row per session, task, metric and instructor.
PostWritten ==
    /\ InFlight /\ ~panel.post.written
    /\ saved' = [saved EXCEPT ![panel.post.scope] = panel.post.j]
    /\ panel' = [panel EXCEPT !.post.written = TRUE]
    /\ UNCHANGED <<orphans, crossed, acts>>
    /\ Reviewing

\* onSaved puts the row among the player's judgments, and the click is over.
PostAnswered ==
    /\ InFlight /\ panel.post.written
    /\ panel' = Adopt([panel EXCEPT !.post = None,
                                    !.judgments[panel.post.scope] = panel.post.j])
    /\ UNCHANGED <<saved, orphans, crossed, acts>>
    /\ Reviewing

\* A request that failed may still be written.
PostFails ==
    /\ InFlight
    /\ panel' = Adopt([panel EXCEPT !.post = None, !.judgment = panel.previous])
    /\ \E late \in SUBSET Unwritten : orphans' = orphans \cup late
    /\ crossed' = (crossed \/ panel.post.written)
    /\ UNCHANGED <<saved, acts>>
    /\ Reviewing

OrphanWritten ==
    /\ \E post \in orphans : /\ saved' = [saved EXCEPT ![post.scope] = post.j]
                             /\ orphans' = orphans \ {post}
    /\ crossed' = (crossed \/ panel.load = "done" \/ InFlight)
    /\ UNCHANGED <<panel, acts>>
    /\ Reviewing

\* The instructor runs what was handed in.
ReviewRun(task) ==
    /\ results # None /\ Act
    /\ StartReview(log, DOMAIN code, task)
    /\ UNCHANGED <<type, editing, verdict, judging>>

ReviewRunEnds ==
    /\ ReviewAnswered(log) \/ ReviewRefused
    /\ UNCHANGED <<type, editing, verdict, judging, acts>>

Next ==
    \/ \E t \in DOMAIN code :
          \/ \E gap \in Gaps : Type(t, gap)
          \/ Complete(t) \/ Delete(t) \/ TypeData(t)
          \/ \E construct \in BOOLEAN : Paste(t, construct)
          \/ Run(t)
    \/ Reload \/ RunStep
    \/ Flush \/ Post \/ Land
    \/ Analyse
    \/ OpenReport \/ LoadRead \/ LoadAnswered
    \/ \E j \in Judgments : Click(j)
    \/ \E task \in Scopes : SelectScope(task)
    \/ PostWritten \/ PostAnswered \/ PostFails \/ OrphanWritten
    \/ \E task \in DOMAIN code \cup {None} : ReviewRun(task)
    \/ ReviewRunEnds

Spec == Init /\ [][Next]_vars

-----------------------------------------------------------------------------
TypedIn(record, t) ==
    Total(record, LAMBDA e : IF e.task = t /\ e.code /\ e.action = "type" THEN e.chars ELSE 0)

\* A task whose program is there and of which the record the worker read has
\* nothing typed in a code file is red in its row, makes the row stand out and
\* the verdict of the session red, whatever was typed in the other tasks or in
\* data files, and whichever task was submitted last.
PastedTaskCannotHide ==
    results # None =>
        \A t \in DOMAIN results.tasks :
            TypedIn(read, t) = 0 /\ results.tasks[t].length >= MinCodeLen =>
                /\ Level(TaskSummary(t), "authorship") = "red"
                /\ RowStandsOut(TaskSummary(t), t)
                /\ MergedLevel = "red"

\* B and C of a substantial program they had too little data for are not shown
\* green anywhere: not for the session, nor in a task's row, nor in the player.
UnassessedNeverReadsClean ==
    results # None =>
        \A m \in {"metricB", "metricC"} :
            LET Clean(stored, shown) ==
                    stored[m].guarded /\ stored.length >= MinCodeLen /\ Level(shown, m) = "green"
            IN  /\ ~Clean(results.session, results.session)
                /\ \A t \in DOMAIN results.tasks :
                      /\ ~Clean(results.tasks[t], TaskSummary(t))
                      /\ ~Clean(results.tasks[t], results.tasks[t])

\* Metric A counts every run whose output the student saw before handing in,
\* in its task and in the session, unless the database refused to count it, and
\* no run the sandbox did not answer, nor one of another task, unless a retry
\* counted one twice.
RunsAreCounted ==
    LET InAll(count) == SumFunctionOnSet(count, DOMAIN code)
    IN  results # None =>
            /\ \A t \in DOMAIN results.tasks :
                  LET a == results.tasks[t].metricA
                  IN  a.scope = "task" => /\ lost \/ seen[t] <= a.runs
                                          /\ twice \/ a.runs <= ran[t]
            /\ lost \/ InAll(seen) <= results.session.metricA.runs
            /\ twice \/ results.session.metricA.runs <= InAll(ran)

\* The instructor's run shows a program that was recorded for the task it names;
\* unless a window arrived after the verdict, it is the program the report
\* measured and audited.
ReviewRunsWhatWasJudged ==
    review.answer # None =>
        /\ \E w \in DOMAIN log : /\ review.ranTask \in DOMAIN log[w].snap
                                 /\ review.answer = log[w].snap[review.ranTask]
        /\ log = read =>
              /\ review.ranTask \in DOMAIN results.tasks
              /\ results.tasks[review.ranTask].length = review.answer.len
              /\ results.tasks[review.ranTask].astAudit.flag = review.answer.construct

\* Once loaded, with no click in flight and no answer lost or overtaken, the
\* player has the stored judgment of every task, whatever task was selected
\* when it was clicked or answered; and the control shows that of the selected
\* task, unless that was changed under a click.
JudgmentShownIsSaved ==
    Open /\ panel.post = None /\ panel.load = "done" /\ ~crossed =>
        /\ panel.judgments = saved
        /\ ~panel.turned => panel.judgment = saved[panel.selected]
=============================================================================
