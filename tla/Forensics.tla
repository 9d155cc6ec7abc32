------------------------------ MODULE Forensics ------------------------------
(***************************************************************************)
(* codecep-server/src/forensics/metrics.ts, and the forensics worker that  *)
(* applies it to a submitted session: the readings of the whole session,   *)
(* the same readings of every task, and one merged verdict.                *)
(*                                                                         *)
(* The metrics count events; their order within a window is never looked   *)
(* at.  A window is therefore the bag of its events, with the workspace of *)
(* every task (length of its code files, and whether a construct that is   *)
(* not on the allowlist is in them) and the burst mean ingest stored.      *)
(*                                                                         *)
(*   log[w] = [events |-> bag, snap |-> task :> [len, construct], mean]    *)
(*   an event = [task, code, action, chars, gap]                           *)
(*                                                                         *)
(* code says whether its file is a code file; chars is what it inserted    *)
(* (nothing, for a deletion), gap the time since the last keystroke.       *)
(***************************************************************************)
EXTENDS Integers, Sequences, SequencesExt

CONSTANTS
    MinEvents,           \* 20 in the code: fewer and B does not assess
    MinCodeLen,          \* 80: a shorter program is not assessed by D
    MinTypingIntervals,  \* 12: fewer and C does not assess
    MinBursts,           \* 3: fewer windows with a mean and C does not assess
    DefaultTask,         \* the task of a session that names none
    None

ASSUME NoneIsNoNumber == None \notin Nat

ASSUME ForensicsAssumption ==
    {MinEvents, MinCodeLen, MinTypingIntervals, MinBursts} \subseteq Nat \ {0}

\* The sum of a weight over all events of a log.
Total(log, Weight(_)) ==
    LET OfWindow(bag) == SumFunction([e \in DOMAIN bag |-> bag[e] * Weight(e)])
    IN  SumFunction([w \in DOMAIN log |-> OfWindow(log[w].events)])

Count(log, Test(_)) == Total(log, LAMBDA e : IF Test(e) THEN 1 ELSE 0)

-----------------------------------------------------------------------------
(***************************************************************************)
(* The metrics.                                                            *)
(***************************************************************************)
\* A: at most one run.  scope says whose count it is, the task's or the session's.
LowRuns(count) == [flag |-> count.runs <= 1, runs |-> count.runs, scope |-> count.scope]

\* B: hardly a deletion (under 2 %) and nearly all of it (over 90 %) typed
\* one or two characters at a time.
LinearInjection(log) ==
    LET n       == Count(log, LAMBDA e : TRUE)
        deletes == Count(log, LAMBDA e : e.action = "delete")
        singles == Count(log, LAMBDA e : e.action = "type" /\ e.chars <= 2)
    IN  IF n < MinEvents
          THEN [flag |-> FALSE, guarded |-> TRUE, inconclusive |-> FALSE]
          ELSE [flag |-> deletes * 100 < 2 * n /\ singles * 100 > 90 * n,
                guarded |-> FALSE, inconclusive |-> FALSE]

\* C: the burst means hardly vary.  The coefficient of variation is kept as
\* the pair of n*Q - S^2 and S^2, whose ratio is its square.
TypingIntervals(log) == Count(log, LAMBDA e : e.action # "paste" /\ e.gap > 0)

RoboticVariance(bursts, log) ==
    LET samples == SelectSeq(bursts, LAMBDA mean : mean > 0)
        n == Len(samples)
        S == FoldLeft(LAMBDA sum, x : sum + x, 0, samples)
        Q == FoldLeft(LAMBDA sum, x : sum + x * x, 0, samples)
        cv == [var |-> n * Q - S * S, sq |-> S * S]
    IN  CASE TypingIntervals(log) < MinTypingIntervals ->
                [flag |-> FALSE, guarded |-> TRUE, inconclusive |-> TRUE, cv |-> None]
          [] TypingIntervals(log) >= MinTypingIntervals /\ n < MinBursts ->
                [flag |-> FALSE, guarded |-> TRUE, inconclusive |-> FALSE, cv |-> None]
          [] OTHER ->
                [flag |-> cv.var * 400 < 9 * cv.sq, guarded |-> FALSE,
                 inconclusive |-> FALSE, cv |-> cv]

\* Authorship: a program is there, and less than 30 % of it was typed.  Only
\* what happened in code files counts, a paste by what it inserted.
Authorship(log, len) ==
    LET typed == Total(log, LAMBDA e : IF e.code /\ e.action = "type" THEN e.chars ELSE 0)
    IN  [flag |-> len >= MinCodeLen /\ typed * 100 < 30 * len, typed |-> typed]

\* AST audit of a set of files, by what Allowlist says of them.
Audit(files) == [flag |-> \E t \in DOMAIN files : files[t].construct]

\* Too little data on a substantial program is no clean result.
MarkInconclusive(reading, len) ==
    IF ~reading.flag /\ reading.guarded /\ len >= MinCodeLen
      THEN [reading EXCEPT !.inconclusive = TRUE]
      ELSE reading

-----------------------------------------------------------------------------
(***************************************************************************)
(* The session and its tasks.                                              *)
(***************************************************************************)
TaskIdsIn(log) ==
    LET ids == UNION {{e.task : e \in DOMAIN log[w].events} \cup DOMAIN log[w].snap :
                          w \in DOMAIN log}
    IN  IF ids = {} THEN {DefaultTask} ELSE ids

NoFiles == [len |-> 0, construct |-> FALSE]

FinalTaskSnapshots(log) ==
    LET carrying(t) == {w \in DOMAIN log : t \in DOMAIN log[w].snap}
    IN  [t \in TaskIdsIn(log) |->
            IF carrying(t) = {} THEN NoFiles ELSE log[Max(carrying(t))].snap[t]]

\* Every task's program; when all of it is empty, the last workspace that
\* was not.  active is the task whose files a window carries on their own.
FinalCodeLength(log) ==
    LET snaps == FinalTaskSnapshots(log)
        total == SumFunction([t \in DOMAIN snaps |-> snaps[t].len])
        full  == {w \in DOMAIN log : log[w].snap[log[w].active].len > 0}
    IN  IF total > 0 \/ full = {} THEN total
                                  ELSE log[Max(full)].snap[log[Max(full)].active].len

\* The windows in which something happened in a task.
WindowsOf(log, task) ==
    LET upTo[w \in 0 .. Len(log)] ==
            IF w = 0 THEN <<>>
            ELSE IF \E e \in DOMAIN log[w].events : e.task = task
                   THEN Append(upTo[w - 1], w) ELSE upTo[w - 1]
    IN  upTo[Len(log)]

LogOfTask(log, task) ==
    LET kept == WindowsOf(log, task)
        Narrowed(w) == [log[w] EXCEPT !.events =
                            [e \in {x \in DOMAIN @ : x.task = task} |-> @[e]]]
    IN  [k \in DOMAIN kept |-> Narrowed(kept[k])]

BurstsOfTask(log, task) ==
    LET kept == WindowsOf(log, task) IN [k \in DOMAIN kept |-> log[kept[k]].mean]

\* The task's own count, or the session's: for its only task, or as a number
\* that is not the task's.
RunCountForTask(byTask, task, runs, tasks) ==
    CASE byTask # None -> [runs |-> IF task \in DOMAIN byTask THEN byTask[task] ELSE 0,
                           scope |-> "task"]
      [] byTask = None /\ tasks <= 1 -> [runs |-> runs, scope |-> "task"]
      [] OTHER -> [runs |-> runs, scope |-> "session"]

Readings(log, bursts, files, len, runs) ==
    [metricA    |-> LowRuns(runs),
     metricB    |-> MarkInconclusive(LinearInjection(log), len),
     metricC    |-> MarkInconclusive(RoboticVariance(bursts, log), len),
     authorship |-> Authorship(log, len),
     astAudit   |-> Audit(files),
     length     |-> len]

TaskReadings(log, task, runs, byTask) ==
    LET files == FinalTaskSnapshots(log)[task]
    IN  Readings(LogOfTask(log, task), BurstsOfTask(log, task), [t \in {task} |-> files],
                 files.len, RunCountForTask(byTask, task, runs, Cardinality(TaskIdsIn(log))))

SessionReadings(log, runs) ==
    Readings(log, [w \in DOMAIN log |-> log[w].mean], FinalTaskSnapshots(log),
             FinalCodeLength(log), [runs |-> runs, scope |-> "task"])

Metrics == {"metricA", "metricB", "metricC", "authorship", "astAudit"}

\* How often a take-home is run says nothing.
RelevantMetrics(type) == IF type = "ASSESSMENT" THEN Metrics \ {"metricA"} ELSE Metrics

FlaggedMetricsOf(readings, type) == {m \in RelevantMetrics(type) : readings[m].flag}

\* Variant: the whole session's readings decide.
MergedReviewOfSession(tasks, session, type) ==
    [flag |-> FlaggedMetricsOf(session, type) # {},
     flaggedTasks |-> {t \in DOMAIN tasks : FlaggedMetricsOf(tasks[t], type) # {}}]

MergedReview(tasks, session, type) ==
    LET flaggedTasks == {t \in DOMAIN tasks : FlaggedMetricsOf(tasks[t], type) # {}}
    IN  [flag |-> flaggedTasks # {} \/ FlaggedMetricsOf(session, type) # {},
         flaggedTasks |-> flaggedTasks]

\* What the worker stores as forensicsResults.
ForensicsResults(log, runs, byTask, type) ==
    LET tasks   == [t \in TaskIdsIn(log) |-> TaskReadings(log, t, runs, byTask)]
        session == SessionReadings(log, runs)
    IN  [session |-> session, tasks |-> tasks, type |-> type,
         merged |-> MergedReview(tasks, session, type)]
=============================================================================
