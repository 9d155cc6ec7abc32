----------------------------- MODULE Recording -----------------------------
(***************************************************************************)
(* What a student's edits become: Monaco's change events in the page's     *)
(* buffer, windows posted to /api/telemetry/submit with a snapshot of      *)
(* every task, playback_log, the restored workspace after a reload, and    *)
(* the instructor's replay of it all (ReplayEngine).                       *)
(*                                                                         *)
(* SubmitPipeline follows the same windows to the verdict with one         *)
(* keystroke in each place; this module follows their contents.            *)
(***************************************************************************)
EXTENDS Timeline

CONSTANTS Task,            \* the tasks of the exam; the first in order is
          FirstTask,       \* the one a fresh exam opens on
          File, EntryFile, \* file names; EntryFile is main.cpp
          Opened,          \* when the exam was opened
          Time,            \* Time[k]: when the k-th edit happens
          SinceSwitch,     \* SinceSwitch[k]: how long before it a switch may have come
          MaxActs,         \* bound: edits and mishaps together; a mishap is a
          MaxMishaps,      \* file operation, a fault or a reload
          MaxEdits, MaxWindows

ASSUME RecordingAssumption ==
    /\ FirstTask \in Task /\ IsFiniteSet(Task)
    /\ EntryFile \in File
    /\ {Opened, MaxActs, MaxMishaps, MaxEdits, MaxWindows} \subseteq Nat
    /\ Time \in [1..MaxEdits -> Nat] /\ SinceSwitch \in [1..MaxEdits -> SUBSET Nat \ {{}}]
    /\ \A k \in 1..MaxEdits :
          \A p \in SinceSwitch[k] \cup {1} : Time[k] >= p + IF k = 1 THEN Opened ELSE Time[k - 1]

VARIABLES
    files,      \* files[t][n]: the text of file n of task t on the page
    activeFile, \* activeFile[t]: the file of task t in the editor
    activeTask, \* the task in the editor
    switches,   \* task switches that await their flush
    anew,       \* no edit since the editor last bound a file or task, or mounted
    buffer,     \* telemetryBuffer: events not yet drained
    posts,      \* windows on their way to the server
    log,        \* playback_log
    edits, drained, mishaps, page,  \* counters, bounded
    gone,       \* history: names a task once had and gave up
    torn        \* history: the record is no longer one uninterrupted story

vars == <<files, activeFile, activeTask, switches, anew, buffer, posts, log,
          edits, drained, mishaps, page, gone, torn>>

workspace == <<files, activeFile, activeTask>>
counters == <<edits, drained, mishaps, page>>

RoomToAct == edits + mishaps < MaxActs

Mishap == RoomToAct /\ mishaps < MaxMishaps /\ mishaps' = mishaps + 1

BlankWorkspace == [n \in {EntryFile} |-> <<>>]

Init ==
    /\ files = [t \in Task |-> BlankWorkspace]
    /\ activeFile = [t \in Task |-> EntryFile]
    /\ activeTask = FirstTask
    /\ switches = {}
    /\ anew = TRUE
    /\ buffer = <<>>
    /\ posts = {}
    /\ log = <<>>
    /\ edits = 0 /\ drained = 0 /\ mishaps = 0 /\ page = 0
    /\ gone = {}
    /\ torn = FALSE

-----------------------------------------------------------------------------
(***************************************************************************)
(* Capture.  Monaco changes the text and reports the edits; what the text  *)
(* then is comes from Monaco, not from the edits.  x is a fresh character. *)
(***************************************************************************)
Change(o, d, t) == [o |-> o, d |-> d, t |-> t]

MonacoChanges(s, x) ==
    \* a paste over the whole file, be it empty
    {[action |-> "paste", changes |-> <<Change(0, Len(s), <<x, x>>)>>, next |-> <<x, x>>]}
    \cup CASE Len(s) = 0 ->
            {[action |-> "type", changes |-> <<Change(0, 0, <<x>>)>>, next |-> <<x>>]}
           [] Len(s) = 1 ->
            {[action |-> "type", changes |-> <<Change(0, 1, <<>>)>>, next |-> <<>>]}
           \* two cursors, one appending and one deleting, listed from the end
           [] OTHER ->
            {[action |-> "type", changes |-> <<Change(Len(s), 0, <<x>>), Change(0, 1, <<>>)>>,
              next |-> Append(Tail(s), x)]}

\* What lastKeystrokeTime gives for the k-th edit: the time since the one before
\* or, when the editor came to the file or was loaded since then, a part of it.
SinceLast(k) ==
    IF anew THEN SinceSwitch[k] ELSE {Time[k] - IF k = 1 THEN Opened ELSE Time[k - 1]}

\* The effect on a change of file or task restarts that clock.
Rebinds ==
    anew' = (anew \/ activeTask' # activeTask
                  \/ activeFile'[activeTask'] # activeFile[activeTask])

\* handleChange and handleEditorChange.  The event is tagged where it
\* happened; `after`, what the student saw, and `anew` are history.
Edit ==
    LET t == activeTask
        n == activeFile[t]
    IN  /\ RoomToAct /\ edits < MaxEdits
        /\ n \in DOMAIN files[t]
        /\ \E m \in MonacoChanges(files[t][n], edits + 1), p \in SinceLast(edits + 1) :
              /\ files' = [files EXCEPT ![t][n] = m.next]
              /\ buffer' = Append(buffer, [task |-> t, file |-> n, action |-> m.action,
                                           at |-> Time[edits + 1], since |-> p, anew |-> anew,
                                           changes |-> m.changes, after |-> m.next])
        /\ edits' = edits + 1
        /\ anew' = (edits' = MaxEdits)  \* Bound: the clock of no later edit matters.
        /\ UNCHANGED <<activeFile, activeTask, switches, posts, log,
                       drained, mishaps, page, gone, torn>>

-----------------------------------------------------------------------------
(***************************************************************************)
(* Flush.  The buffer is copied and cleared in one step, and the POST      *)
(* carries a snapshot of every task taken in the same step.                *)
(***************************************************************************)
Window == [ord |-> drained + 1, page |-> page, events |-> buffer, snap |-> files]

Drain ==
    /\ buffer # <<>>
    /\ drained < MaxWindows
    /\ posts' = posts \cup {Window}
    /\ buffer' = <<>>
    /\ drained' = drained + 1

IntervalFlush ==
    /\ Drain
    /\ UNCHANGED <<workspace, switches, anew, log, edits, mishaps, page, gone, torn>>

\* handleSelectTask flushes first and switches when the flush has settled.
\* (Bound: no click when nothing can follow it.)
ClickTask(t) ==
    /\ RoomToAct
    /\ t # activeTask
    /\ \/ /\ buffer = <<>>
          /\ activeTask' = t
          /\ UNCHANGED <<switches, buffer, posts, drained>>
       \/ /\ Drain
          /\ switches' = switches \cup {[to |-> t, ord |-> drained + 1]}
          /\ UNCHANGED activeTask
    /\ UNCHANGED <<files, activeFile, log, edits, mishaps, page, gone, torn>>
    /\ Rebinds

FinishSwitch(s) ==
    /\ \A p \in posts : p.ord # s.ord
    /\ activeTask' = s.to
    /\ switches' = switches \ {s}
    /\ UNCHANGED <<files, activeFile, buffer, posts, log, counters, gone, torn>>
    /\ Rebinds

\* A window that lands tears the story when an earlier one of its page has
\* not landed, or when the page it came from has since been restored from a
\* record without it.
OutOfTurn(p) ==
    \/ p.page # page
    \/ \E q \in posts : q.page = p.page /\ q.ord < p.ord

Land(p) ==
    /\ log' = Append(log, p)
    /\ posts' = posts \ {p}
    /\ torn' = (torn \/ OutOfTurn(p))
    /\ UNCHANGED <<workspace, switches, anew, buffer, counters, gone>>

\* withRetry repeats an UPDATE that had committed.
LandTwice(p) ==
    /\ Mishap
    /\ log' = log \o <<p, p>>
    /\ posts' = posts \ {p}
    /\ torn' = TRUE
    /\ UNCHANGED <<workspace, switches, anew, buffer, edits, drained, page, gone>>

\* The request fails and the page keeps no copy of what it carried.
Lose(p) ==
    /\ Mishap
    /\ posts' = posts \ {p}
    /\ torn' = (torn \/ p.page = page)
    /\ UNCHANGED <<workspace, switches, anew, buffer, log, edits, drained, page, gone>>

-----------------------------------------------------------------------------
(***************************************************************************)
(* The file panel: files of the active task.                               *)
(***************************************************************************)
SelectFile(n) ==
    /\ RoomToAct
    /\ n \in DOMAIN files[activeTask] /\ n # activeFile[activeTask]
    /\ activeFile' = [activeFile EXCEPT ![activeTask] = n]
    /\ UNCHANGED <<files, activeTask, switches, buffer, posts, log, counters, gone, torn>>
    /\ Rebinds

FileOp ==
    /\ Mishap
    /\ UNCHANGED <<activeTask, switches, buffer, posts, log, edits, drained, page>>

CreateFile(n) ==
    LET t == activeTask
    IN  /\ FileOp
        /\ n \notin DOMAIN files[t]
        /\ files' = [files EXCEPT ![t] = [m \in DOMAIN @ \cup {n} |->
                                            IF m = n THEN <<>> ELSE @[m]]]
        /\ activeFile' = [activeFile EXCEPT ![t] = n]
        /\ torn' = (torn \/ <<t, n>> \in gone)
        /\ Rebinds
        /\ UNCHANGED gone

\* Nothing in the telemetry says that a file was renamed.
RenameFile(old, new) ==
    LET t == activeTask
    IN  /\ FileOp
        /\ old \in DOMAIN files[t] /\ new \notin DOMAIN files[t]
        /\ files' = [files EXCEPT ![t] = [m \in (DOMAIN @ \ {old}) \cup {new} |->
                                            IF m = new THEN @[old] ELSE @[m]]]
        /\ activeFile' = [activeFile EXCEPT ![t] = IF @ = old THEN new ELSE @]
        /\ torn' = (torn \/ files[t][old] # <<>> \/ <<t, new>> \in gone)
        /\ gone' = gone \cup {<<t, old>>}
        /\ Rebinds

DeleteFile(n) ==
    LET t == activeTask
    IN  /\ FileOp
        /\ n \in DOMAIN files[t] \ {EntryFile}
        /\ files' = [files EXCEPT ![t] = [m \in DOMAIN @ \ {n} |-> @[m]]]
        /\ activeFile' = [activeFile EXCEPT ![t] = IF @ = n THEN EntryFile ELSE @]
        /\ gone' = gone \cup {<<t, n>>}
        /\ Rebinds
        /\ UNCHANGED torn

-----------------------------------------------------------------------------
(***************************************************************************)
(* Reload.  GET /api/session/:id/restore merges the snapshots of the log   *)
(* per task, and the page opens on them.  When it fails, the page opens    *)
(* blank on the same session.                                              *)
(***************************************************************************)
FinalTaskSnapshots ==
    LET carrying(t) == {w \in DOMAIN log : t \in DOMAIN log[w].snap}
    IN  [t \in {u \in Task : carrying(u) # {}} |-> log[Max(carrying(t))].snap[t]]

\* filesFromSnapshot: the entry file always exists.
FilesFromSnapshot(snap) ==
    [n \in DOMAIN snap \cup {EntryFile} |-> IF n \in DOMAIN snap THEN snap[n] ELSE <<>>]

RestoreWorkspaces ==
    [t \in Task |-> IF t \in DOMAIN FinalTaskSnapshots
                      THEN FilesFromSnapshot(FinalTaskSnapshots[t])
                      ELSE BlankWorkspace]

\* The last event of the last window: where the student was typing.
LastActive == Last(Last(log).events)

FreshPage ==
    /\ Mishap
    /\ page' = page + 1
    /\ buffer' = <<>>
    /\ switches' = {}
    /\ anew' = TRUE
    /\ UNCHANGED <<posts, log, edits, drained, gone>>

OpenAt(task, file) ==
    /\ activeTask' = task
    /\ activeFile' = [t \in Task |-> IF t = task /\ file \in DOMAIN files'[t]
                                       THEN file ELSE EntryFile]

Reload ==
    /\ FreshPage
    /\ files' = RestoreWorkspaces
    /\ IF log = <<>> THEN OpenAt(FirstTask, EntryFile)
                     ELSE OpenAt(LastActive.task, LastActive.file)
    /\ torn' = (torn \/ \E t \in DOMAIN FinalTaskSnapshots :
                           /\ EntryFile \notin DOMAIN FinalTaskSnapshots[t]
                           /\ <<t, EntryFile>> \in gone)

ReloadBlank ==
    /\ FreshPage
    /\ files' = [t \in Task |-> BlankWorkspace]
    /\ OpenAt(FirstTask, EntryFile)
    /\ torn' = (torn \/ log # <<>>)

Next ==
    \/ Edit
    \/ IntervalFlush
    \/ \E t \in Task : ClickTask(t)
    \/ \E s \in switches : FinishSwitch(s)
    \/ \E p \in posts : Land(p) \/ LandTwice(p) \/ Lose(p)
    \/ \E n \in File : SelectFile(n) \/ CreateFile(n) \/ DeleteFile(n)
    \/ \E old, new \in File : RenameFile(old, new)
    \/ Reload
    \/ ReloadBlank

Spec == Init /\ [][Next]_vars

-----------------------------------------------------------------------------
(***************************************************************************)
(* What the instructor is served: GET /api/session/:id/replay flattens the *)
(* windows in the order of the log and counts the events of each.          *)
(***************************************************************************)
ReplayData ==
    [snaps  |-> [w \in DOMAIN log |-> [count |-> Len(log[w].events),
                                       files |-> log[w].snap,
                                       open  |-> FALSE]],
     events |-> FlattenSeq([w \in DOMAIN log |-> log[w].events]),
     openedAt |-> {Opened}]

-----------------------------------------------------------------------------
\* As long as no window was lost, repeated or overtaken, and no file with
\* text in it changed its name, the replay calls itself exact, and every
\* frame of it shows what the student saw after that edit, whatever the
\* order of edits, task switches, file operations, flushes and reloads.
ReplayIsExact ==
    ~torn /\ log # <<>> =>
        LET d == ReplayData
        IN  /\ Exact(d)
            /\ FrameTexts(d) = [i \in DOMAIN d.events |-> d.events[i].after]

\* The replay of one task agrees with the replay of the whole session: it has
\* a frame for each event of the task and no other, the frame shows the text
\* it shows there, and it is exact whenever the session is.
TaskReplayAgrees ==
    LET d      == ReplayData
        frames == FrameTexts(d)
    IN  \A t \in {d.events[i].task : i \in DOMAIN d.events} :
            LET n     == ReplayDataForTask(d, t)
                alone == FrameTexts(n)
                Of(i) == {j \in 1..i : d.events[j].task = t}
            IN  /\ Exact(d) => Exact(n)
                /\ Len(alone) = Cardinality(Of(Len(d.events)))
                /\ \A i \in Of(Len(d.events)) : alone[Cardinality(Of(i))] = frames[i]

\* Whatever was lost, repeated, reordered or renamed, the workspace a reload
\* restores is the one the replay ends on: the student resumes from what the
\* instructor sees, for every file the last snapshot of a task names.
RestoreMatchesReplay ==
    LET d     == ReplayData
        shown == FinalFiles(d)
        saved == FinalTaskSnapshots
    IN  \A t \in DOMAIN saved : \A n \in DOMAIN saved[t] :
            shown[Qualify(t, n, IsMultiTask(d))] = saved[t][n]

\* Every edit recorded as a paste of PASTE_MARK_MIN_CHARS or more has a mark,
\* whatever it replaced, and at its moment the player shows the file of the
\* mark with the pasted text in the marked range, in the replay of the session
\* and in that of the task.
PastesAreMarked ==
    ~torn /\ log # <<>> =>
        LET d == ReplayData
        IN  \A n \in {d} \cup {ReplayDataForTask(d, d.events[i].task) : i \in DOMAIN d.events} :
            \A i \in DOMAIN n.events :
                LET ev    == n.events[i]
                    shown == StateAt(n, Moments(n)[i])
                IN  ev.action = "paste" /\ Len(ev.changes[1].t) >= PasteMin =>
                        \E m \in PasteMarks(n) :
                            /\ m.t = Moments(n)[i]
                            /\ m.file = shown.file
                            /\ SubSeq(shown.text, m.start + 1, m.end) = ev.changes[1].t

\* Skipping idle time passes over no edit.  As long as no edit was lost, a pause
\* longer than DEFAULT_IDLE_GAP_MS between two edits of a timeline can be skipped
\* if the student stayed in the file, and also if an edit of another task came
\* between; not if the student only changed the file or loaded the page anew,
\* which restarts the editor's clock.  The mark of a Tier-1 event stands between
\* the edits it happened between.
TimelineKeepsTime ==
    ~torn /\ log # <<>> =>
        LET d     == ReplayData
            whole == \A i \in DOMAIN d.events : d.events[i].at = Time[i]
        IN  \A n \in {d} \cup {ReplayDataForTask(d, d.events[i].task) : i \in DOMAIN d.events} :
            LET m == Moments(n)
                Elsewhere(i) == \E j \in DOMAIN d.events :
                    n.events[i - 1].at < d.events[j].at /\ d.events[j].at < n.events[i].at
            IN  /\ \A g \in Gaps(n) :
                    \A next \in {g.start + SkipAfter + 1, g.end - SkipBefore - 1} :
                        FrameIndexAt(n, SkipIdle(n, next)) = FrameIndexAt(n, next)
                /\ whole =>
                    \A i \in DOMAIN m \ {1} :
                        m[i] - m[i - 1] > IdleGap /\ (~n.events[i].anew \/ Elsewhere(i)) =>
                            [start |-> m[i - 1], end |-> m[i]] \in Gaps(n)
                /\ \A at \in {Opened, Last(n.events).at + 1} \cup {n.events[i].at : i \in DOMAIN m} :
                    LET tier1 == TierOneShown({[type |-> "TAB_OUT", at |-> at]}, n # d, FALSE)
                    IN  tier1 # {} => \E k \in TickMarks(n, PasteMarks(n), tier1) :
                        /\ k.kind = "tabout"
                        /\ \A i \in DOMAIN m : /\ n.events[i].at <= at => m[i] <= k.t
                                              /\ n.events[i].at >= at => m[i] >= k.t

\* A record without edit lists: one task's, with its entry file as the editor.
LegacyData(n, task) ==
    [snaps |-> n.snaps, openedAt |-> {},
     code  |-> [w \in DOMAIN n.snaps |-> n.snaps[w].files[task][EntryFile]],
     events |-> [i \in DOMAIN n.events |->
        LET ev == n.events[i]
        IN  [at |-> ev.at, since |-> ev.since, action |-> ev.action, changes |-> <<>>,
             delta |-> Inserted(ev.changes) - Deleted(ev.changes)]]]

\* Without edit lists, and whatever was lost or reordered, the replay still
\* shows what was recorded at every flush, and the part of the text it marks
\* for a paste is there.
LegacyMeetsSnapshots ==
    \A t \in UNION {{log[w].events[i].task : i \in DOMAIN log[w].events} : w \in DOMAIN log} :
        (\A w \in DOMAIN log : EntryFile \in DOMAIN log[w].snap[t]) =>
            LET l == LegacyData(ReplayDataForTask(ReplayData, t), t)
            IN  /\ \A w \in DOMAIN l.code :
                    SegmentOf(l, w) # {} => LegacyText(l, Max(SegmentOf(l, w))) = l.code[w]
                /\ LegacyTextAt(l, Duration(l)) = Last(l.code)
                /\ \A m \in LegacyMarks(l) :
                    m.start <= m.end /\ m.end <= Len(LegacyText(l, m.i))
=============================================================================
