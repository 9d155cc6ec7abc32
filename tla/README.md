# CoDecep, specified

CoDecep is an online programming exam with a flight recorder: a student's page
(React, Monaco) buffers every keystroke and flushes it to an Express server over
PostgreSQL; submitting flips the session's status and queues a forensics job; an
instructor watches live over socket.io or replays the recording. This directory
holds TLA+ specifications of the parts where the order of things matters, the
TLC configurations that check them, and proofs of their main properties.

Paths below are relative to `src/`; `server.ts` is `codecep-server/src/server.ts`
and `App.jsx` is `codecep-client/src/App.jsx`.

    tlc -workers 2 -config submit_faults.cfg MCSubmitPipeline
    tlapm SubmitPipelineProofs.tla

## 1. Inventory

| Component | State | Operations | What makes it correct |
|---|---|---|---|
| **Exam page** (`App.jsx`, `EditorPane.jsx`) | telemetry buffer, status, outcome banner, active task and file, snapshots, paste history | type, paste, tab out, 30 s flush, flush on task switch, run, submit | each event sent once; nothing typed is lost; the banner tells the truth |
| **Ingest and submit** (`server.ts` 889–1046) | `sessions` row: status, `playback_log`, counters | append a window, flip the status, enqueue | a 202 is durable; one submission, one job |
| **Forensics worker** (`server.ts` 212–397) | BullMQ queue, `forensicsResults` | read the row, compute, store | the verdict covers what was submitted; every job is concluded |
| **Session entry** (`server.ts` 605–775, `sessionLifecycle.ts`, `sessionResolution.ts`) | the pair's rows, a Postgres advisory lock | create, resume, refuse; rank rows; hide phantoms | one row per pair; work is never abandoned or hidden |
| **Restore** (`sessionLifecycle.ts`, `multiFile.ts`, `workspace.js`) | snapshots inside the log | rebuild the workspace on reload | the editor shows what was recorded |
| **Watch registry** (`live/watchRegistry.ts`) | sessions by socket, sockets by session | add, remove, removeSocket | the two maps agree; first and last watcher are recognised |
| **Live relay and subscription** (`live/liveRelay.ts`, `lib/liveStream.js`, `DvrPlayer.jsx`) | rooms, flags of the page, status of each player | join, start, sync, stop, watch, unwatch, end, reconnect | stream exactly while watched; a player goes live, and learns of the end |
| **Live edge** (`lib/liveStitch.js`, `DvrPlayer.jsx`) | recorded log, live tail, sync point | relay, de-duplicate, stitch, reload | no event shown twice, none missing, order kept |
| **Exam window** (`examWindow.ts`, `ExamTimer.jsx`, PATCH in `server.ts`) | `opensAt`, `closesAt`, duration, task count | resolve, edit, auto-submit | a stored window can open; auto-submit precedes the refusal |
| **Network restriction** (`ipAccess.ts`, `server.ts` 512–603) | CIDR list of an assignment | match, guard | fails closed on a bad address, open with no list |
| **Lists, roster** (`server.ts` 2554–2843) | none of its own | group, rank, hide | the row shown is the real one |
| **AST audit, allowlist** (`ast/*`, `server.ts` 1180–1345) | allowlist per class and week | resolve, audit | the intended week's list is used |
| **Metrics and reviews** (`forensics/metrics.ts`, `metricReview.ts`) | report, reviews | compute per task, merge, review | per-task and whole readings agree |
| **Runs** (`server.ts` 1389–1722) | run counters | execute, count | total = sum over tasks |
| **Replay** (`replayEngine.js`, `scrubberMarks.js`) | none of its own | apply deltas, seek | seeking = replaying from the start |
| **Accounts, classes** (`server.ts` 1729–1950) | users, classes, memberships | register, create, join | one membership per pair |

The components meet in four places: the `sessions` row (ingest, submit, worker,
entry, alerts, runs and lists all write or read it), the flush of the exam page
(called by the interval, the task switch, the submit and the live sync), the
socket rooms (relay, pages, players), and the status `SUBMITTED`, which disarms
the page, ends the live stream and starts the analysis.

What is hard: awaits between a check and its use in the page, in the relay and
in the routes; `withRetry`, which repeats a statement whether or not it
committed; the gap between the flip and the enqueue; a process that restarts
with its registry in memory; two tabs of one student; messages lost with a
socket. In the pure parts: ties, thresholds,
empty inputs and the two ends of a range. `PROJECT.json` lists each such hazard
at its line with the properties that cover it.

## 2. Plan

Done, in this order: `SubmitPipeline` against `EvidenceRecord`; `SessionEntry`;
`WatchRegistry` against `WatchRelation`, and `LiveWatch`, which composes the
registry with page, relay and players; `ReplayEngine`, with `Recording` (what
capture, flush, faults and reloads make of a record), `Timeline` (what the
player makes of it) and `LiveEdge` (the same while the exam is on) on top of it;
`ExamWindow` and `NetworkPolicy` inside `Course`; `Forensics` and `Console`
inside `Report`; `Allowlist` inside `Alerts`.

    Timeline --> Recording          ExamWindow ----.
       |                                            >-- Course
    ReplayEngine --> LiveEdge       NetworkPolicy -'
    Forensics --> Console --> Report          Allowlist --> Alerts
    WatchRelation <-- WatchRegistry --> LiveWatch
    EvidenceRecord <-- SubmitPipeline         SessionEntry

(`A --> B`: B extends or instantiates A. `A <-- B`: B is shown to implement A.)

Left: the delivery of alerts to the dashboard's grid with the roster that is
loaded beside it; registration and the creation of classes, which are a check
and an insert over a unique constraint; a second instructor in `LiveEdge`.

### SubmitPipeline, EvidenceRecord

One session, any number of pages (tabs, and reloads of them), each flush request
and each submit request with its own progress.

| Code | Model |
|---|---|
| `telemetryBuffer.current`, `submitOutcome` | `buffer[p]`, `banner[p]` |
| `flushRef.current`, the 30 s interval, task switch | `Drain`, `IntervalFlush` |
| `handleSubmit` up to its first await, the disarm, the answer | `ClickSubmit`, `ClickSubmitEmpty`; `Disarm`; `SubmitAnswer`, `SubmitBreaks` |
| `POST /api/telemetry/submit`, `withRetry` | `IngestAppends`, `IngestAckLost`, `IngestFails`, `IngestThrows`, `IngestLost` |
| `POST /api/session/:id/submit`: read and window check, UPDATE, enqueue | `SubmitCheck`; `SubmitFlips`, `SubmitMatchesNoRow`, `SubmitFlipAckLost`, `SubmitFlipFails`; `SubmitEnqueues`, `SubmitEnqueueFails` |
| forensics worker | `WorkerReads` (findUnique), `WorkerStores`, `WorkerFails`, `RequeueStalled` |
| process restart | `Restart` |

A keystroke is a model value, a window the request that carried it; `log` is
`playback_log` as a sequence of requests, so a repeated UPDATE shows as a
request that occurs twice. The exam window is a Boolean that may change at any
moment (`WindowMoves`). `flippedBy`, `sealedLen` and `enqueuedBy` are history.
A statement fails before it commits, or commits and loses its acknowledgement;
`withRetry` tries again in both cases.

`EvidenceRecord` forgets all of that: a record that grows, one submission that
seals it, verdicts that contain the seal and never shrink. The mapping sends
`recorded` to the keystrokes of the requests in `log`, `sealed` and `verdict` to
those of its prefixes. The record may grow after the submission, because the
ingest route does not look at the status: that is in the abstract specification
on purpose.

### SessionEntry

The rows of one (student, assignment) pair and the page loads that ask for one.
A request goes `arrived`, then behind the advisory lock `locked`, one of
`Decision` (the transaction chose but has not committed), one of `Committed`,
and `editing` or `lockedOut`. `Break` is a connection lost inside the
transaction: before the COMMIT was sent nothing remains, after it the database
still holds the lock for an orphan that commits or rolls back (`OrphanEnds`),
while `withRetry` already waits for that lock. `evidence[r]` holds the fields in
the order `compareRealness` compares them, so the order is a first-difference
rule. Existing rows (`Historic`) start open or submitted, empty or with work,
with distinct `updatedAt`, as the database's clock gives them. Flushes, runs,
alerts, submissions and verdicts move the fields between page loads.

### WatchRelation, WatchRegistry, LiveWatch

`WatchRegistry` keeps both maps of `watchRegistry.ts`; `streaming` is the signal
its answers cause. `WatchRelation` is a set of pairs.

`LiveWatch` extends the registry and follows one of its sessions, `Exam`: the
relay's handlers change the maps by the registry's operations. By itself the
registry is `RegistrySpec`, any calls in any order.

| Code | Model |
|---|---|
| `liveStream.js`: watched, synced, stopped, `syncNow` before and after its await, retry timer | `watched`, `synced`, `stopped`, `syncs`, `retry`; `HearStart`, `HearStop`, `SyncSucceeds`, `SyncFails`, `RetryFires`, `Disarm` |
| `liveRelay.ts`: `session:join`, `live:synced`, `watch:start` before and after `canWatch`, `watch:stop`, `disconnect` | `ServerJoin`, `ServerSynced`, `ServerWatch`, `Grant`, `Deny`, `ServerUnwatch`, `ServerDisconnect` |
| `announceFlush`, `announceSessionEnd`; a queue that fails, or a flip whose acknowledgement was lost, after which nobody announces | `AnnounceFlush`, `AnnounceEnd`; `EndUnannounced` |
| `DvrPlayer.jsx`: load and reload, `liveMode` effect and its clean-up, the acknowledgement, listeners, reconnect | `Open`, `ServeReplay`, `ReplayFails`, `Subscribe`, `Unsubscribe`, `Reconcile`, `HearVerdict`, `HearBroadcast`, `DvrDrops`, `DvrConnects`, `Close` |

Each socket delivers in order; a socket that drops loses what it carried, the
server notices later (`ServerDisconnect`), and a reconnected client has a new
socket id over which socket.io first sends what it held back. The watch room
always has the members the registry has (`join` and `add`, `leave` and `remove`
stand in one synchronous block), so it is not kept twice. Simplifications: one
student page; messages to the student's dropped socket are lost at once; replay
requests beyond `MaxReloads` merge with one under way; the client's
`live:flushed` and the server's announcement are one action. What the messages
carry (keystrokes, sync times) is left to `LiveEdge`.

### ReplayEngine, Timeline, Recording

`ReplayEngine` is `lib/replayEngine.js` as operators on a replay payload: the
starting files, `ApplyChanges`, the frames with the checkpoint after each window
and the healing a mismatch causes, `ReplayDataForTask`, `Exact`. The windows,
the checkpoint pass and the frames are recursive functions. `Timeline` adds
time: moments that never run backwards, gaps and skip-idle, paste marks, Tier-1
ticks, and the legacy replay of records without edit lists (common start and
end, shares by proportion). Texts are sequences of characters, an edit list is
what Monaco reports: offset, length deleted, text.

`Recording` produces the payload. A page has `files`, `activeFile`, `activeTask`
and a `buffer`.

| Code | Model |
|---|---|
| `handleEditorChange` with its edit list and pause | `Edit` |
| `flushRef.current` on the interval; `handleSelectTask` up to and after its awaited flush | `IntervalFlush`; `ClickTask`, `FinishSwitch` |
| the POST answered, repeated after a lost acknowledgement, or lost | `Land`, `LandTwice`, `Lose` |
| file panel: select, create, rename, delete | `SelectFile`, `CreateFile`, `RenameFile`, `DeleteFile` |
| page load with `buildRestorePayload`, `restoreWorkspaces`; a restore that failed | `Reload`; `ReloadBlank` |

`FirstTask` is the task a fresh exam opens on. `torn` is history: a window was
repeated, overtaken or lost under the page that sent it, a restore did not give
back what was recorded, a file with text was renamed, or a name once given up
was taken was taken again. The replay promises exactness only without these; the
properties that hold in spite of them do not mention `torn`. `SinceLast` is the
pause an edit reports: since the edit before it or, for the first one after a
change of file or task or a page load (`anew`), since that, because the effect
on the active file restarts `lastKeystrokeTime`. `Time` and `SinceSwitch` are
constants: when edits happen, and what such a first edit may report. the
properties that hold in spite of them do not mention `torn`.

### LiveEdge

One student, one player, and a keystroke that may travel twice: in a window and
as a live event. `Emit` is the deferred emission after a keystroke, `SyncNow`
part of `HearStart` and `RetrySync`; `Land`, `Answered`, `Fails` are the three
fates of a POST; `Receive` applies `live:synced`, `live:flushed` and
`live:keystroke`; `ApplyReplay` an answer of the reload, in any order. `Shown`
is the replay of `StitchLive` by `ReplayEngine`. `PlayerReconnects` has two
cases: the server noticed the drop before the new socket asks, and the student
syncs again; or it did not, the new socket is not the first watcher, and nothing
makes up for what was announced meanwhile (`missed`). Keystroke `k` has the
timestamp `k`, so that `liveEventKey` tells keystrokes apart. Who watches is
`LiveWatch`'s.

### ExamWindow, NetworkPolicy, Course

`ExamWindow` and `NetworkPolicy` are `examWindow.ts` and `ipAccess.ts` as
operators. An address is its number below `2^Width`, a mask and its `&` are read
bit by bit; reading the text of an address is left out. `Course` is one
assignment of one class.

| Code | Model |
|---|---|
| creation of the assignment | `Init` |
| PATCH: read and check; count the sessions; write | `PatchRead`; `PatchCount`; `PatchWrite` |
| PUT network | `PutNetwork` |
| join; assignment page and guard; session create | `Join`; `Arrive`; `OpenRead`, `OpenCommit` |
| `ExamPage`: the answer of the create, the restore of a resumed session, the exam shown | `AskRestore`; `Mount` |
| `ExamTimer`: skew (measured when it mounts), lead, countdown | `Skew`, `LeadTime`, `Left`, `CountdownEnds` |
| submit by hand; the route's window check, its write | `ClickSubmit`; `SubmitCheck`, `SubmitWrite` |
| time | `Tick` |
| roster and list of sessions | `Roster`, `SessionList` |

`crossed` is history: two PATCHes overlapped, or the number of tasks was changed
by a PATCH that could not see a page that was opening. A page keeps the close it
was given (`deadline`) and whether it was opened before the lead began
(`promised`); `told` is the close its hand-in was judged by.

### Forensics, Console, Report

`Forensics` computes the report: authorship, metrics A, B and C and the audit's
flag, each with its guard, for every task and for the session, and the merged
verdict; in exact arithmetic, thresholds as constants. `Console` has the
student's run (`StartRun`, `Execute`, `CountRun`, `Answer`, `BreakRun`,
`ReloadPage`) and the instructor's (`StartReview`, `ReviewAnswered`,
`ReviewRefused`). What a program prints and writes is known by the number of its
run. The header and the file panel show the slice of the task on screen;
`Terminal.jsx` is one component for all tasks, so `screen` is kept beside the
slices: the lines it wrote, each by its run, extended by what lies beyond its
`writtenRef` whenever the active task or its console changes (`Terminal`,
`TurnTo`, `Repaint`). `Report` composes both with the exam that feeds them and
the screens that show the outcome: `Level` is the colour of a reading,
`RowStandsOut` the emphasis of a row, `TaskSummary` and `SessionSummary` what
the API passes on. A window reaches the log at once (`Flush`), or is posted and
lands any time later, also after the verdict (`Post`, `Land`); one is in flight
at a time. `read` is the log as the worker read it. One control of
`MetricReviewControl.jsx` is followed through `LoadRead`, `LoadAnswered`,
`Click`, `PostWritten`, `PostAnswered`, `PostFails`, while the player's task
changes around it (`SelectScope`); `saved` has a row for every task and for the
session, and a request the page no longer waits for may still be written
(`OrphanWritten`).

### Allowlist, Alerts

`Allowlist` resolves a week's list (`ResolveAllowlistFor`) and walks a program
(`ValidateAST`). A program is its parse tree in preorder (`IsTree`: every
subtree stands together); parsing is tree-sitter's. `Alerts` runs it: `Type`,
`Paste`, `Drop` and the timer after a drop (`Promote`), `Flush`, which banks
what was written, the debounce (`Debounce`), the check on leaving a file
(`SwitchTo`), the server's part (`CheckRead`) and the answer (`CheckAnswered`,
`CheckFails`), the hand-in and the audit of the final files. `banked` is
`sessionContentRef`, `sig` `lastViolationSig`. `held`, `lists` and the flags of
an insertion are history.

### Variants

A definition marked *Variant* is what a plausible bug would make of the
definition after it (a dropped guard, a swapped order). None is used by a
specification; each shows that some property notices the difference.

## 4. The runs

Invariants are checked over every reachable state of the instance.

| Run | Question | Instance |
|---|---|---|
| `submit_two_pages` | `OneJobPerSubmission`, `VerdictReadsFinalFlush` | 2 pages, 2 keystrokes, 2 flushes, 1 fault; 2.4 M states |
| `submit_faults` | `AcceptedIsRecorded`; refinement of `EvidenceRecord` (`KeepsRecordPromise`); under fairness `SubmitSettles`, `EnqueuedIsConcluded` | 1 page, 2 keystrokes, 2 flushes, 2 faults; 1.3 M |
| `entry_rows` | `CreatedRowIsAlone`, `EditorsShareRow`, `WorkIsResumed`, `NoSecondAttempt`, `EditedRowIsShown` | 3 page loads, up to 2 rows from before and 2 new ones, 3 faults; 0.7 M |
| `entry_unassigned` | under fairness `OpenIsAnswered`, without an assignment | 3 page loads, up to 1 row from before and 3 new ones, 1 fault; 0.4 M |
| `registry` | refinement of `WatchRelation` (`KeepsRelation`) | 3 sessions, 3 sockets |
| `watch_faults` | `SignalAgrees`, `SubscribedIsWatching` | 1 player, 2 sockets, 1 restart, and 1 drop, refusal or failed reload of the player or 1 fault of the student; 4.3 M |
| `watch_liveness` | `GoesLive`, `StreamStops`, `EndIsHeard` under fairness | 2 players, 3 sockets, and one of: both players, 2 faults of the student, 1 of a player; an end that may stay unannounced; 0.2 M |
| `recording` | `ReplayIsExact`, `TaskReplayAgrees`, `RestoreMatchesReplay`, `PastesAreMarked`, `TimelineKeepsTime`, `LegacyMeetsSnapshots` | 2 tasks, 2 file names, up to 3 edits and 3 windows, 4 acts of which 2 mishaps; pauses cut short by a change of file; 1.0 M |
| `live_edge` | `EdgeIsTrue`; under fairness `EdgeSettles` | 3 keystrokes, faults and reconnects together, noticed or not; 0.6 M |
| `course` | `LonePatchIsSafe`, `CountdownIsInTime`, `EveryoneOnOneTile`, `PolicyAdmitsItsBlocks` | 2 students, one of them with 5 histories, 2 requests, 6 bodies, 4 policies, clocks 4 behind and 3 ahead; create, restore and hand-in each up to `MaxDelay`; 4.0 M |
| `report` | `PastedTaskCannotHide`, `UnassessedNeverReadsClean`, `RunsAreCounted`, `AnswerStaysInItsTask`, `ReviewRunsWhatWasJudged`, `JudgmentShownIsSaved` | exams of 1 and 2 tasks, both types, 3 acts, 1 late window; 5.7 M |
| `alerts` | `StandingViolationIsAlerted`, `AlertNamesItsFile`, `BulkInsertAlertedOnce`, `AuditListsEveryConstruct` | 3 files, 2 programs, no syllabus or one of 2 weeks, 3 acts, 1 fault; 1.8 M |

**Bounds.** Two pages are enough for one to act inside the other's await, and
two flushes for one to be in flight while the next is made. `MaxAttempts` is 2
where the code has 3: one retry that succeeds and one that gives up, for which
two faults are needed. Three page loads give one that holds the lock, one that
waits and one that comes after a crash. Two sockets give a reconnect before the
old one is noticed. An *act* (`MaxActs`) is a step of a person: an edit, a click,
a request; the steps it causes are not counted, so three or four acts leave every
order of their consequences. Three edits and three windows give a window between
two others to lose or reorder. Prefix lengths, thresholds and leads are small
numbers (`Width` 3, `MinEvents` 3, `Lead` 4) placed so that inputs fall on both
sides. Every bound is a named constant in a guard; the proofs hold without
choosing them. That the bounds do not hide the interesting case is what the
mutants show: for every property of every run, `PROJECT.json` names a plausible
bug of the code with which TLC finds the property violated in the same instance.
`CHECK_DEADLOCK FALSE` stands where the system may come to rest: all page loads
answered, all players closed and everything heard, all acts spent.
`SubmitPipeline` and `WatchRegistry` need no such exemption.

**Symmetry** is used in safety runs only: pages, keystrokes, requests and
page loads are interchangeable model values.

**Fairness** is weak and on named steps: a handler that was reached runs on
(Node does not drop a callback), an awaited query, flush or request settles, a
message on a live socket is heard, a client reconnects (socket.io retries for
ever), a timer fires, a worker takes the next job. Nobody is assumed to type,
submit, open or close, and no fault is assumed to happen or not to happen beyond
its bound; `EdgeSettles` states in its own premise that none was, and that no
unnoticed reconnect swallowed the last announcement. Of a session that was
flipped it is only assumed that the handler ends: with the announcement or
without it (`AnnounceEnd \/ EndUnannounced`). `watch_liveness` starts with the
sockets of the dashboards connected (`OnlineInit`). Both runs of `LiveWatch`
have one kind of trouble in a behaviour: two players, or faults of the student,
or faults of one player (`First`); the proofs hold without that bound. A player
that waits while the page has not synced goes live in all of them; one that
begins to wait when the page has synced already is section 5's.

## 5. What the code does not do

While modelling we met executions in which the code does less than it seems to
promise. The models contain them: the properties are worded so that they
claim what holds, and `PROJECT.json` refers here where a hazard is left open.

**Submit.** An interval flush may be in flight when Submit awaits only its own;
the job then reads a log that still grows (`App.jsx:438`, 461). A fault between
the flip and the enqueue leaves a session submitted for good and analysed never
(`server.ts:1025`). What is typed while the final flush is awaited is buffered
and never sent (`EditorPane.jsx:582`). A lost submit request, a 503 or a 500
leaves the success banner over an open session (`App.jsx:459`). When the flip
commits and its acknowledgement is lost, the retry matches nothing and the one
who submitted is told ALREADY_SUBMITTED (`server.ts:1019`). In both cases nobody
announces the end to those who watch (`server.ts:1033`, 1036). A lost
acknowledgement of an append stores the window twice; the restore is as good as
before, the replay is not exact.

**Entry.** Without an assignment, a fresh attempt beside a submitted one
satisfies the phantom rule: hidden and deletable (`phantom-sessions.sql:31`).

**Watching.** A socket that disconnects while `canWatch` is awaited is registered
afterwards (`watchRegistry.ts:71`); the second of two instructors is granted the
watch and, when the page has synced for the first, no sync comes
(`DvrPlayer.jsx:379`), as for a player that reconnects before its old socket is
noticed (`liveRelay.ts:186`, `DvrPlayer.jsx:414`); a player mounted before its
socket connects sends `watch:start` twice, and the second acknowledgement turns
"following" back into "syncing"; a flush awaited across
`live:stop` marks the page as synced (`liveStream.js:103`); an older replay
answer that arrives after the end subscribes the player again
(`DvrPlayer.jsx:361`); a watch granted after the end never hears of it
(`liveRelay.ts:226`).

**Live edge.** Keystrokes typed while `syncNow` awaits its flush are neither
emitted nor recorded until the next flush (`liveStitch.js:34`). The sync point
moves before the reload it announces has answered. A flush that returns null is
taken for "all recorded" although an interval POST may be in flight
(`liveStream.js:89`); when such a POST is lost the text stays garbled until the
next reconnect, and a retried sync starts over the hole. A live event above the
size limit is dropped (`liveRelay.ts:139`), a hole until the next flush.
`EdgeIsTrue` therefore speaks of what was received without a hole. A player whose
new socket arrives before its old one is noticed does not reload
(`DvrPlayer.jsx:414`): what it missed stays missing until the next flush is
announced, and for good when that was the last, which `EdgeSettles` excepts.

**Recording and replay.** A file with text that is renamed, a lost, repeated or
overtaken window make the replay inexact, though `replayEngine.js:14` calls it
never silently wrong. `main.cpp` can be renamed although `workspace.js:14` says
it always exists; deleting its successor leaves the editor bound to no file. A
change of file or task restarts the clock of the pause (`EditorPane.jsx:126`,
103): when a student is idle and then changes the file, the edit after it
carries no pause, and the idle time cannot be skipped. Two quick task switches
may end on the earlier click (`App.jsx:590`). After a failed restore the page
opens blank and its next flush is every task's final snapshot. Of several
windows out of order the restore takes the last that landed. A paste with
several cursors highlights the wrong range (`replayEngine.js:600`), and of two
pastes in quick succession the first one's range stays highlighted
(`DvrPlayer.jsx:568`).

**Schedule.** Two PATCHes that overlap, each valid, can store a window that
never opens, or minutes of another window (`server.ts:2186`). A PATCH of the
task count between a page's load and its session gives that page another exam
shape. A page that is open does not learn of an extension (and a resumed page
measures the clocks only after its restore, which counts as an error of the
skew: `ExamTimer.jsx:51`) and hands in at the old close; an automatic hand-in
that is refused is not tried again. Simultaneous joins meet the unique index as
an unhandled P2002, a 500 (`server.ts:1817`). A member with one linked and one
unlinked row has a second tile, "not enrolled" (`server.ts:2771`); the histories
of the run are of one kind per student.

**Alerts.** Text cut and pasted back before a flush banked it is alerted as
external (`EditorPane.jsx:489`). A check in flight at the hand-in alerts after
it. A flush between a drop and its timer banks the dropped text: no alert
(`EditorPane.jsx:376`). The signature holds only the first violation; a file
emptied and refilled keeps its old one. A reload loses the pending debounce. An
added week without a list shadows the weeks before it.

**Console and report.** `Terminal.jsx:146` appends only what is beyond its last
position and has no key per task (`App.jsx:894`), so after a change of tasks the
other task's output can stay on screen until the next run or Clear;
`AnswerStaysInItsTask` claims the terminal only while the task was not changed
(`turned`), the header and the file panel always. A window that was in flight at
the hand-in may arrive after the verdict (`server.ts:928`): the instructor then
runs an older or newer program than the one that was measured, though one of the
same task. When the player's task changes while a judgment is being saved, the
control keeps showing the click under the new task until it adopts another value
(`MetricReviewControl.jsx:45`, `DvrPlayer.jsx:803`); what is stored, and what the
player has of it, is filed under the task it was made for. A judgment whose page
was closed, or whose request failed, may be written afterwards over a newer one.
The instructor's panel
keeps its last task after a refused run (`InstructorRunPanel.jsx:48`). An
unreachable sandbox reads "Run rejected". A run in flight at the hand-in is
counted after the verdict. An emptied workspace makes the session's authorship
fall back to an older snapshot (`metrics.ts:702`). A lost answer to a saved
judgment rolls the control back, and a GET read before and answered after it
overwrites it (`MetricReviewControl.jsx:49`). A session without a Tier-1 log
becomes "recorded" with its first alert.

**Dashboard** (not modelled). Roster and session answers are applied in the order
they arrive; `join_instructor` is sent on mount only, so a dashboard is deaf
after a reconnect; alerts are keyed by username without the assignment, and the
old roster stands until the new one is loaded.

## 6. What is proved

Checked by TLAPS with Z3, Zenon and LS4, for every value of the constants that
meets the named assumptions (`None` is not a member of the sets it is told apart
from; attempts and bounds are natural numbers).

- **SubmitPipelineProofs.** One inductive invariant, `Inductive`
  (`InductiveInvariant`): types; each keystroke in one place; what was
  acknowledged is in the log; the flip happens once and seals a prefix; the
  submit request is posted only after the awaited flush settled; whoever is
  between flip and enqueue is the one who flipped; a job outstanding or running
  reads at least the sealed prefix. None of the stated invariants is inductive
  alone: `VerdictReadsFinalFlush`, for instance, needs that the flush settled
  before the post, that the flip follows the post, and that the job follows the
  flip. From it: `TypeCorrect`, `AcceptedRecorded`, `OneJob`,
  `VerdictSeesFinalFlush`, `DrainedOnce`, and `RecordPromise`, the refinement:
  every step appends, submits, judges or stutters in `EvidenceRecord`.
- **SessionEntryProofs.** `LockSerializes` and `OneRowPerPair`: the lock has one
  holder from the SELECT to the end of the transaction, orphans included, so that
  the "no candidate" an inserting transaction saw still holds when it commits.
  `OneEditedRow`, `RecordedWorkIsResumed`, `OneAttempt` and `EditedIsShown` need
  a second invariant, `RowInv`: `updatedAt` is distinct on every row and never
  ahead of the clock, so `compareRealness` is a strict total order (`Before`);
  a write moves its row up and no other; hence the open row some page holds comes
  before every other open row of the pair (`Leads`), and the next page to ask
  gets the same one. `EditedIsShown` assumes an assignment (`Assigned`); without
  one it is false (section 5).
- **LiveWatchProofs.** `RegistryTypes`, `RegistryMaps`, `RegistrySignal`,
  `RegistryImplements` are about the registry by itself. Types, map agreement
  and the signal are one invariant (`RegistryInv`), because `removeSocket` finds
  sessions through one map and judges by the other. `RelayKeepsRelation` carries
  it into `LiveWatch`: every step of the relay is an operation of the registry,
  leaves it alone, or is the restart that empties it. `SignalKept`:
  `SignalAgrees` needs map agreement, that the page is disarmed before the end
  is announced (the announcement sends `live:stop` whoever watches), and that a
  page outside the room has heard everything and starts over when it connects,
  since `session:join` tells it to start and never to stop. Each action then
  either leaves the signal alone, hears its head, or appends what the registry
  now says. `SubscribedKept` is about what is in flight to and from a player
  (`WatchInv`): the last request a subscribed player sent is the watch of its
  present mount, and once the server has read it, it is registered, or the
  lookup is awaited, or hearing what is on its way leaves it refused.
- **CourseProofs.** `LonePatchSafe` and `CountdownInTime`, for any schedule,
  clocks, students and any lead that covers three delays and one tick
  (`LeadAssumption`: `3 * MaxDelay + 1 <= Lead`). For the first: a PATCH under
  way was acceptable against the row it read, and unless crossed that row is
  still the stored one; every page past its commit has a row, so that the count
  of a PATCH sees it. For the second: the server's time was read at most two
  delays before the page mounts, one for the answer and one for the restore, so
  the skew is off by no more than that; the countdown ends at most one tick
  late; the hand-in takes the third. `OneTileEach` (`RosterInv`): the rows of
  one student agree on whether they are linked to the account, an empty open row
  is older than an empty submitted one, and the row a page holds has work or is
  the student's newest. `PolicyAdmits`, for any width: masking with `k` leading
  ones clears the low bits and nothing else, so that two addresses agree under
  the mask exactly when they lie in one block.
- **ReportProofs.** `AnswersStay` (a page has one run under way at most, and the
  console of its task announced it: `ConsoleInv`; the terminal is right because
  a console has no line, three while its run is under way, or five and more
  afterwards, so that a new run and a Clear make it shorter and reset the
  screen, and an answer is what lies beyond: `TerminalInv`), `JudgmentsShown`
  (`JudgmentInv`: what the player has, what is saved and what was loaded differ
  only while a request that explains it is in flight; the control has seen the
  player's value of its task or has a click in flight, unless the task changed
  under one), `UnassessedIsNotClean` (a guard that tripped leaves its reading
  inconclusive, and no summary drops that), `JudgedProgramRuns` (`ReviewInv`:
  every window, late ones too, holds all tasks, so the program run is some
  window's of that task; the log only grows, so when it is the one the worker
  read, the snapshot is the one that was measured). `CountsAreRuns`
  (`CountInv`): unless a retry counted one twice, a task's count and the
  executed runs not yet counted stay within what ran; unless the database
  refused one, what was seen and the answered run about to be shown stay within
  the count; and the session's count is the sum of its tasks'. `PastedIsSeen`
  (`PastedInv` over `RecordIsTyped`): what the record the worker read holds of a
  task's typing is found again in its narrowed log, so that a task of which
  nothing was typed is flagged there, and one flagged task makes the merged
  verdict red.
- **AlertsProofs.** `AlertsNameTheirFile` (`CheckInv`: a check carries file and
  text of its start and is judged by a list that has been in force) and
  `BulkIsAlertedOnce` (`InsertInv`: a drop whose timer nothing overtook is the
  last insertion, and its text is neither banked nor about to be).
  `ViolationsAreAlerted` (`StandInv`): on one list, a code file that breaks it has
  its alert, or a check of its present text is in flight, or it is the open file
  and its debounce is pending; a signature that suppresses an alert belongs to
  one that was raised. `AuditIsComplete` (`AuditInv`), for every tree: the
  walk's verdict at a node agrees with what stands above it, by induction down
  the tree, and the list has one entry per reported node.
- **RecordingProofs.** `RestoreIsReplay` (`RecordIsTyped`): every window that
  was sent holds the workspace of every task, so that the last window on the
  record alone names what a reload restores, and the pass ends every window,
  healed or not, on that window's checkpoint. It holds for torn records too.
  `ReplayExact` (`Story`): an untorn record tells a story. The texts in it are
  those after each window on the record, after each window of this page still on
  its way, and on the page now, and each event leads from one text to the text
  the student saw after it; a name absent from a workspace and never given up
  was never written. `Land` moves the first window on its way to the record;
  `Reload` goes on from where the record stands. By induction over the windows
  the pass then plays what the story tells, finds every checkpoint as recorded,
  heals nothing, and its frames are the texts seen. `RecordingAssumption` asks
  for finitely many tasks, since the code qualifies a checkpoint's keys by
  counting tasks. `TaskAgrees` (`Beside`), for torn records too: window by
  window, narrowing keeps of the events those of the task, in order, and of the
  checkpoint its names; so the task's play, laid beside the session's, shows the
  same text for each of its files, is healed by a window exactly when one of
  those files is healed in the session's, and meets each of its events at that
  event's `Rank` among the kept ones. `PastesMarked` and `TimelineTrue` (`Story`
  and `Clock`): every event carries the time of its edit and the pause before
  it; the windows on an untorn record, then those of this page still on its way,
  then its buffer hold edits in the order of their times, since a page restored
  from the record starts later than all of it; the pause of an edit is since the
  one before it, or since a change of file, task or page after that (`anew`).
  Hence the moments of a replay grow strictly and a pause begins no earlier than
  the event before it, in the session and, by what narrowing does to `since`, on
  a task's own timeline. The thresholds are any naturals with `0 < SkipTo <
  SkipBefore` (`TimelineAssumption`; 100 and 200 in `DvrPlayer`). `LegacyTrue`
  (`RecordIsTyped`), for torn records too: the difference of two texts put back
  between what they share gives the later one (`DiffIs`); the running share of
  it lies within it, never shrinks from event to event and is all of it at a
  window's last (`SharesGrow`, by the monotonicity of rounded quotients); and
  the counts cut the events so that each lies in one window.
- **LiveEdgeProofs.** `EdgeTrue`. The invariant (`EdgeInv`) is about the pieces
  only: each keystroke's edits lead from the text before it to the text after
  it; every window in flight or on the record is a run of typed keystrokes; what
  is relayed was typed; the player has no more windows than the record. Nothing
  is said of the order in which windows land, events arrive or answers are
  applied, since the theorem holds in every order. The rest is an argument in
  one state. Windows that follow one another are the keystrokes 1 to
  `LastOf(data)` (`RecordIsUpTo`); a tail that leaves no hole, sorted and rid of
  what the record holds, is those after it (`TailContinues`, by the uniqueness
  of an increasing sequence over a set); so the stitched payload has one event
  per keystroke and its windows end where the texts do (`StitchedIsTold`); and
  on such a payload the checkpoint pass finds what was recorded, heals nothing,
  and frame `k` is `Text(k)` (`ToldIsShown`, by induction over windows and
  events).

`InductiveInvariant`, `TypeCorrect`, `DrainedOnce`, `LockSerializes`,
`RegistryTypes`, `RegistryMaps` and `RegistrySignal` prove what no run states:
they are the invariants the others rest on; `RelayKeepsRelation` is the
refinement of `WatchRelation` with the relay around it. Thirty-three of the
properties the runs check are proved: every invariant and both refinements.

Induction over data is first-order throughout: the least counterexample
(`LeastNat`, from the well-foundedness of `<` on the naturals) gives that a
recursive function is what its equation says, and facts about sums, walks and
lists follow from it value by value. For this the modules that are proved about
recurse by functions (`Pow2`, `Distinct`, `WindowsOf`, `ValidateAST`, and the
windows, narrowing, pass and frames of `ReplayEngine`) and add with
`SumFunctionOnSet` over finite sets.

Only model-checked: the liveness properties `SubmitSettles`,
`EnqueuedIsConcluded`, `OpenIsAnswered`, `GoesLive`, `StreamStops`, `EndIsHeard`
and `EdgeSettles`, since fairness and ENABLED are beyond the prover. No module
declares a RECURSIVE operator.

## 7. What is not modelled

- The delivery of alerts to `Dashboard.jsx` and the instructor's grid; the
  layout, themes and wording of every screen. Of what the screens show, the
  colours and emphasis of readings are modelled.
- Registration, login and the creation of classes: a check and an insert over a
  unique constraint that decides; tokens are stateless.
- The Gemini syllabus reading, the ZIP export and the PDF briefs: one request or
  one stream of finished data each.
- Judge0 and tree-sitter, which are external: the first answers, refuses or is
  out of reach; the second is represented by the trees it returns. IPv6 text and
  the reading of IPv4 text.
- Burst statistics beyond what metrics B and C use, and TAB_OUT detection.
- Environment, schema, migrations and scripts; constraints and defaults of the
  schema are used where a module needs them.

The session row's columns appear in the modules whose properties tell them apart
and nowhere else: `SubmitPipeline`, `SessionEntry`, `Recording`, `Course`,
`Report` and `Alerts` each follow one concern of the same page and row.
