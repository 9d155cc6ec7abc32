--------------------------- MODULE SubmitPipeline ---------------------------
(***************************************************************************)
(* The life of one exam session's evidence, from the keystroke buffer of   *)
(* the exam page to the forensics verdict:                                 *)
(*                                                                         *)
(*   page (EditorPane, App)  --flush-->  POST /api/telemetry/submit        *)
(*                                         appends to playback_log         *)
(*   page (handleSubmit)     --submit->  POST /api/session/:id/submit      *)
(*                                         flips status, adds a BullMQ job *)
(*   forensics worker        reads the row, stores forensicsResults        *)
(*                                                                         *)
(* The session may be open in several pages: create hands every tab of     *)
(* the student the same row, and a reload is a closed page followed by a   *)
(* newly opened one.  Requests and answers can be lost; a database         *)
(* statement can fail before it commits, or commit and lose its            *)
(* acknowledgement; withRetry runs it again in both cases; the server      *)
(* process can restart at any point.                                       *)
(***************************************************************************)
EXTENDS Naturals, Sequences

CONSTANTS
    Page,         \* page loads of App.jsx for this session
    Key,          \* keystrokes (KeystrokeEvent), each made once
    Post,         \* identities of POST /api/telemetry/submit requests
    None,         \* no page, no request
    MaxAttempts,  \* withRetry's `attempts`: 3 in the code
    MaxFaults     \* bound: database, queue and process faults in one behaviour

ASSUME NoneAssumption == None \notin Page /\ None \notin Post
ASSUME AttemptsAssumption == MaxAttempts \in Nat \ {0}
ASSUME FaultsAssumption == MaxFaults \in Nat

VARIABLES
    page,        \* where each page is in its life
    buffer,      \* telemetryBuffer.current of each page
    banner,      \* submitOutcome of each page
    awaits,      \* the flush handleSubmit is awaiting, or awaited
    typed,       \* keystrokes made so far
    body,        \* the events each ingest request carries
    ingest,      \* how far its handler is
    heard,       \* what its page has heard of it
    tries,       \* failed attempts of its UPDATE
    submit,      \* how far the handler of each page's submit request is
    attempts,    \* failed attempts of that UPDATE
    status,      \* sessions.status
    log,         \* sessions.playback_log: which request appended each window
    windowOpen,  \* isSubmitAllowed(windowStatusFor(...)) at this moment
    waiting,     \* forensics jobs waiting in the queue
    worker,      \* the forensics worker: "idle" or "running"
    read,        \* how much of playback_log the running job read
    judged,      \* forensicsResults is present
    verdict,     \* how much of playback_log it was computed from
    jobFailed,   \* a forensics job ended in the failed set
    stalls,      \* times the job was found stalled
    faults,      \* faults so far
    flippedBy,   \* history: the page whose request flipped the status
    sealedLen,   \* history: the length of playback_log at the flip
    enqueuedBy   \* history: the pages whose requests added a job

clientVars == <<page, buffer, banner, awaits, typed>>
rowVars    == <<status, log, flippedBy, sealedLen>>
postVars   == <<body, ingest, heard, tries>>
subVars    == <<submit, attempts>>
queueVars  == <<waiting, worker, read, judged, verdict, jobFailed, stalls, enqueuedBy>>
vars == <<clientVars, postVars, subVars, rowVars, queueVars, windowOpen, faults>>

-----------------------------------------------------------------------------
PageState   == {"unopened", "editing", "draining", "posting", "settled",
                "locked", "closed"}
Banner      == {"none", "submitted", "already", "refused"}
\* "sent" until the handler answers; a "dead" request never will.
IngestState == {"unused", "sent", "accepted", "rejected", "dead"}
ClientView  == {"waiting", "acked", "failed"}
SubmitState == {"idle", "sent", "checked", "flipped",
                "ok", "already", "refused", "error", "dead"}

TypeOK ==
    /\ page \in [Page -> PageState]
    /\ buffer \in [Page -> SUBSET Key]
    /\ banner \in [Page -> Banner]
    /\ awaits \in [Page -> Post \cup {None}]
    /\ typed \in SUBSET Key
    /\ body \in [Post -> SUBSET Key]
    /\ ingest \in [Post -> IngestState]
    /\ heard \in [Post -> ClientView]
    /\ tries \in [Post -> 0..MaxAttempts]
    /\ submit \in [Page -> SubmitState]
    /\ attempts \in [Page -> 0..MaxAttempts]
    /\ status \in {"IN_PROGRESS", "SUBMITTED"}
    /\ log \in Seq(Post)
    /\ windowOpen \in BOOLEAN
    /\ waiting \in Nat
    /\ worker \in {"idle", "running"}
    /\ read \in Nat
    /\ judged \in BOOLEAN
    /\ verdict \in Nat
    /\ jobFailed \in BOOLEAN
    /\ stalls \in Nat
    /\ faults \in 0..MaxFaults
    /\ flippedBy \in Page \cup {None}
    /\ sealedLen \in Nat
    /\ enqueuedBy \in SUBSET Page

Init ==
    /\ page = [p \in Page |-> "unopened"]
    /\ buffer = [p \in Page |-> {}]
    /\ banner = [p \in Page |-> "none"]
    /\ awaits = [p \in Page |-> None]
    /\ typed = {}
    /\ body = [f \in Post |-> {}]
    /\ ingest = [f \in Post |-> "unused"]
    /\ heard = [f \in Post |-> "waiting"]
    /\ tries = [f \in Post |-> 0]
    /\ submit = [p \in Page |-> "idle"]
    /\ attempts = [p \in Page |-> 0]
    /\ status = "IN_PROGRESS"
    /\ log = <<>>
    /\ windowOpen \in BOOLEAN
    /\ waiting = 0
    /\ worker = "idle"
    /\ read = 0
    /\ judged = FALSE
    /\ verdict = 0
    /\ jobFailed = FALSE
    /\ stalls = 0
    /\ faults = 0
    /\ flippedBy = None
    /\ sealedLen = 0
    /\ enqueuedBy = {}

Fault == faults < MaxFaults /\ faults' = faults + 1

-----------------------------------------------------------------------------
(* The exam page.                                                          *)

Armed(p) == page[p] \in {"editing", "draining"}  \* sessionStatusRef is IN_PROGRESS

\* ExamPage shows the locked screen for a SUBMITTED row and mounts App otherwise.
Open(p) ==
    /\ page[p] = "unopened"
    /\ page' = [page EXCEPT ![p] = IF status = "SUBMITTED" THEN "locked" ELSE "editing"]
    /\ UNCHANGED <<buffer, banner, awaits, typed, postVars, subVars, rowVars,
                   queueVars,
                   windowOpen, faults>>

\* The tab is closed or reloaded: the buffer dies, requests under way do not.
Close(p) ==
    /\ page[p] \in {"editing", "draining", "posting"}
    /\ page' = [page EXCEPT ![p] = "closed"]
    /\ UNCHANGED <<buffer, banner, awaits, typed, postVars, subVars, rowVars,
                   queueVars,
                   windowOpen, faults>>

\* The editor stays editable until the disarm, also while the final flush runs.
Type(p, k) ==
    /\ Armed(p)
    /\ k \notin typed
    /\ typed' = typed \cup {k}
    /\ buffer' = [buffer EXCEPT ![p] = @ \cup {k}]
    /\ UNCHANGED <<page, banner, awaits, postVars, subVars, rowVars, queueVars,
                   windowOpen, faults>>

\* The synchronous copy-then-clear, and the POST that carries the copy.
Drain(p, f) ==
    /\ buffer[p] # {}
    /\ ingest[f] = "unused"
    /\ body' = [body EXCEPT ![f] = buffer[p]]
    /\ ingest' = [ingest EXCEPT ![f] = "sent"]
    /\ buffer' = [buffer EXCEPT ![p] = {}]
    /\ UNCHANGED <<heard, tries>>

\* The 30 s interval, and the flush of a task switch: nobody's submit awaits it.
IntervalFlush(p, f) ==
    /\ Armed(p)
    /\ Drain(p, f)
    /\ UNCHANGED <<page, banner, awaits, typed, subVars, rowVars, queueVars,
                   windowOpen, faults>>

\* Steps 2 and 3 of handleSubmit: disarm, optimistic banner, POST submit.
SendSubmit(p) ==
    /\ page' = [page EXCEPT ![p] = "posting"]
    /\ banner' = [banner EXCEPT ![p] = "submitted"]
    /\ submit' = [submit EXCEPT ![p] = "sent"]
    /\ UNCHANGED attempts

\* Variant: the final flush is started but not awaited.
ClickSubmitNoAwait(p, f) ==
    /\ page[p] = "editing"
    /\ Drain(p, f)
    /\ awaits' = [awaits EXCEPT ![p] = f]
    /\ SendSubmit(p)
    /\ UNCHANGED <<typed, rowVars, queueVars, windowOpen, faults>>

\* Submit with events buffered: flush them and await the answer.
ClickSubmit(p, f) ==
    /\ page[p] = "editing"
    /\ Drain(p, f)
    /\ awaits' = [awaits EXCEPT ![p] = f]
    /\ page' = [page EXCEPT ![p] = "draining"]
    /\ UNCHANGED <<banner, typed, subVars, rowVars, queueVars, windowOpen,
                   faults>>

\* Submit with an empty buffer: the flush is null, nothing to wait for.
ClickSubmitEmpty(p) ==
    /\ page[p] = "editing"
    /\ buffer[p] = {}
    /\ SendSubmit(p)
    /\ UNCHANGED <<buffer, awaits, typed, postVars, rowVars, queueVars,
                   windowOpen, faults>>

\* Variant: the submit goes on only when the final flush persisted.
DisarmWhenPersisted(p) ==
    /\ page[p] = "draining"
    /\ heard[awaits[p]] = "acked"
    /\ SendSubmit(p)
    /\ UNCHANGED <<buffer, awaits, typed, postVars, rowVars, queueVars,
                   windowOpen, faults>>

\* The awaited flush has settled, either way: a failure is logged, not fatal.
Disarm(p) ==
    /\ page[p] = "draining"
    /\ heard[awaits[p]] # "waiting"
    /\ SendSubmit(p)
    /\ UNCHANGED <<buffer, awaits, typed, postVars, rowVars, queueVars,
                   windowOpen, faults>>

\* The page reads the answer of its flush: only a 202 is true.
FlushAnswer(f) ==
    /\ heard[f] = "waiting"
    /\ ingest[f] \in {"accepted", "rejected"}
    /\ heard' = [heard EXCEPT ![f] = IF ingest[f] = "accepted" THEN "acked" ELSE "failed"]
    /\ UNCHANGED <<clientVars, body, ingest, tries, subVars, rowVars,
                   queueVars, windowOpen, faults>>

\* fetch rejects: the request or its answer was lost, or the connection broke
\* while the handler was still at work.
FlushBreaks(f) ==
    /\ heard[f] = "waiting"
    /\ ingest[f] # "unused"
    /\ heard' = [heard EXCEPT ![f] = "failed"]
    /\ UNCHANGED <<clientVars, body, ingest, tries, subVars, rowVars,
                   queueVars, windowOpen, faults>>

\* Only a 403 and ALREADY_SUBMITTED touch the optimistic outcome; every other
\* answer leaves it.
SubmitAnswer(p) ==
    /\ page[p] = "posting"
    /\ submit[p] \in {"ok", "already", "refused", "error"}
    /\ page' = [page EXCEPT ![p] = "settled"]
    /\ banner' = [banner EXCEPT ![p] = CASE submit[p] = "already" -> "already"
                                         [] submit[p] = "refused" -> "refused"
                                         [] OTHER -> @]
    /\ UNCHANGED <<buffer, awaits, typed, postVars, subVars, rowVars,
                   queueVars, windowOpen, faults>>

\* The submit fetch rejects: caught, logged, and the page is done.
SubmitBreaks(p) ==
    /\ page[p] = "posting"
    /\ page' = [page EXCEPT ![p] = "settled"]
    /\ UNCHANGED <<buffer, banner, awaits, typed, postVars, subVars, rowVars,
                   queueVars,
                   windowOpen, faults>>

-----------------------------------------------------------------------------
(* POST /api/telemetry/submit: one UPDATE under withRetry, no status guard.  *)

AppendWindow(f) ==
    /\ log' = Append(log, f)
    /\ UNCHANGED <<status, flippedBy, sealedLen>>

IngestAppends(f) ==
    /\ ingest[f] = "sent"
    /\ AppendWindow(f)
    /\ ingest' = [ingest EXCEPT ![f] = "accepted"]
    /\ UNCHANGED <<clientVars, body, heard, tries, subVars, queueVars,
                   windowOpen, faults>>

\* Variant: the last failed attempt is answered 202 as well.
IngestRetryAccepts(f) ==
    /\ ingest[f] = "sent"
    /\ Fault
    /\ tries' = [tries EXCEPT ![f] = @ + 1]
    /\ ingest' = [ingest EXCEPT ![f] = IF tries'[f] = MaxAttempts THEN "accepted" ELSE @]
    /\ UNCHANGED <<body, heard>>

\* A transient error: another attempt, or 503 after the last one.
IngestRetry(f) ==
    /\ ingest[f] = "sent"
    /\ Fault
    /\ tries' = [tries EXCEPT ![f] = @ + 1]
    /\ ingest' = [ingest EXCEPT ![f] = IF tries'[f] = MaxAttempts THEN "rejected" ELSE @]
    /\ UNCHANGED <<body, heard>>

\* The UPDATE committed, its acknowledgement did not arrive.
IngestAckLost(f) ==
    /\ IngestRetry(f)
    /\ AppendWindow(f)
    /\ UNCHANGED <<clientVars, subVars, queueVars, windowOpen>>

IngestFails(f) ==
    /\ IngestRetry(f)
    /\ UNCHANGED <<clientVars, subVars, rowVars, queueVars, windowOpen>>

\* Any other error is not retried: 500, or 400/413 before the handler.
IngestThrows(f) ==
    /\ ingest[f] = "sent"
    /\ Fault
    /\ ingest' = [ingest EXCEPT ![f] = "rejected"]
    /\ UNCHANGED <<clientVars, body, heard, tries, subVars, rowVars,
                   queueVars, windowOpen>>

\* The request never reaches the server.
IngestLost(f) ==
    /\ ingest[f] = "sent" /\ tries[f] = 0
    /\ ingest' = [ingest EXCEPT ![f] = "dead"]
    /\ UNCHANGED <<clientVars, body, heard, tries, subVars, rowVars,
                   queueVars, windowOpen, faults>>

-----------------------------------------------------------------------------
(* POST /api/session/:id/submit.                                           *)

\* The scheduled window passes, opens, or is moved by the instructor.
WindowMoves ==
    /\ windowOpen' = ~windowOpen
    /\ UNCHANGED <<clientVars, postVars, subVars, rowVars, queueVars, faults>>

SubmitLost(p) ==
    /\ submit[p] = "sent"
    /\ submit' = [submit EXCEPT ![p] = "dead"]
    /\ UNCHANGED <<clientVars, postVars, attempts, rowVars, queueVars,
                   windowOpen, faults>>

\* Row and schedule are read once; only an IN_PROGRESS row can be refused.
SubmitCheck(p) ==
    /\ submit[p] = "sent"
    /\ submit' = [submit EXCEPT ![p] = IF status = "IN_PROGRESS" /\ ~windowOpen
                                     THEN "refused" ELSE "checked"]
    /\ UNCHANGED <<clientVars, postVars, attempts, rowVars, queueVars,
                   windowOpen, faults>>

\* The read, or the UPDATE, fails for good: 503 or 500.
SubmitFails(p) ==
    /\ submit[p] \in {"sent", "checked"}
    /\ Fault
    /\ submit' = [submit EXCEPT ![p] = "error"]
    /\ UNCHANGED <<clientVars, postVars, attempts, rowVars, queueVars,
                   windowOpen>>

\* Variant: the UPDATE has no status condition.
FlipAnyStatus(p) ==
    /\ status' = "SUBMITTED"
    /\ flippedBy' = p
    /\ sealedLen' = Len(log)
    /\ UNCHANGED log

\* UPDATE ... WHERE status = 'IN_PROGRESS' matched the row.
FlipStatus(p) ==
    /\ status = "IN_PROGRESS"
    /\ status' = "SUBMITTED"
    /\ flippedBy' = p
    /\ sealedLen' = Len(log)
    /\ UNCHANGED log

SubmitFlips(p) ==
    /\ submit[p] = "checked"
    /\ FlipStatus(p)
    /\ submit' = [submit EXCEPT ![p] = "flipped"]
    /\ UNCHANGED <<clientVars, postVars, attempts, queueVars, windowOpen,
                   faults>>

\* P2025: no IN_PROGRESS row matched.
SubmitMatchesNoRow(p) ==
    /\ submit[p] = "checked"
    /\ status # "IN_PROGRESS"
    /\ submit' = [submit EXCEPT ![p] = "already"]
    /\ UNCHANGED <<clientVars, postVars, attempts, rowVars, queueVars,
                   windowOpen, faults>>

SubmitRetry(p) ==
    /\ submit[p] = "checked"
    /\ Fault
    /\ attempts' = [attempts EXCEPT ![p] = @ + 1]
    /\ submit' = [submit EXCEPT ![p] = IF attempts'[p] = MaxAttempts THEN "error" ELSE @]

\* The flip committed, its acknowledgement did not arrive.
SubmitFlipAckLost(p) ==
    /\ SubmitRetry(p)
    /\ FlipStatus(p)
    /\ UNCHANGED <<clientVars, postVars, queueVars, windowOpen>>

SubmitFlipFails(p) ==
    /\ SubmitRetry(p)
    /\ UNCHANGED <<clientVars, postVars, rowVars, queueVars, windowOpen>>

AddJob(p) ==
    /\ waiting' = waiting + 1
    /\ enqueuedBy' = enqueuedBy \cup {p}
    /\ UNCHANGED <<worker, read, judged, verdict, jobFailed, stalls>>

SubmitEnqueues(p) ==
    /\ submit[p] = "flipped"
    /\ AddJob(p)
    /\ submit' = [submit EXCEPT ![p] = "ok"]
    /\ UNCHANGED <<clientVars, postVars, attempts, rowVars, windowOpen, faults>>

\* telemetryQueue.add throws, with the job in the queue or not: 503 or 500.
SubmitEnqueueFails(p) ==
    /\ submit[p] = "flipped"
    /\ Fault
    /\ AddJob(p) \/ UNCHANGED queueVars
    /\ submit' = [submit EXCEPT ![p] = "error"]
    /\ UNCHANGED <<clientVars, postVars, attempts, rowVars, windowOpen>>

-----------------------------------------------------------------------------
(* The forensics worker: one job at a time, one read, one write.             *)

WorkerReads ==
    /\ worker = "idle" /\ waiting > 0
    /\ waiting' = waiting - 1
    /\ worker' = "running"
    /\ read' = Len(log)
    /\ UNCHANGED <<clientVars, postVars, subVars, rowVars, judged, verdict,
                   jobFailed, stalls,
                   enqueuedBy, windowOpen, faults>>

StoreVerdict == judged' = TRUE /\ verdict' = read

WorkerStores ==
    /\ worker = "running"
    /\ StoreVerdict
    /\ worker' = "idle"
    /\ UNCHANGED <<clientVars, postVars, subVars, rowVars, waiting, read,
                   jobFailed, stalls,
                   enqueuedBy, windowOpen, faults>>

\* The worker's queries are not retried and the job has one attempt: an error,
\* before or after the write committed, leaves it in the failed set.
WorkerFails ==
    /\ worker = "running"
    /\ Fault
    /\ StoreVerdict \/ UNCHANGED <<judged, verdict>>
    /\ worker' = "idle"
    /\ jobFailed' = TRUE
    /\ UNCHANGED <<clientVars, postVars, subVars, rowVars, waiting, read,
                   stalls,
                   enqueuedBy, windowOpen>>

-----------------------------------------------------------------------------
(* The process restarts: handlers die with it, the row and the queue do not. *)

\* Variant: the running job is lost with the process.
DropStalled ==
    /\ worker' = "idle"
    /\ UNCHANGED <<stalls, waiting, jobFailed>>

\* A running job is found stalled and queued again, once; then it has failed.
RequeueStalled ==
    \/ /\ worker = "idle"
       /\ UNCHANGED <<worker, stalls, waiting, jobFailed>>
    \/ /\ worker = "running" /\ worker' = "idle"
       /\ stalls' = stalls + 1
       /\ \/ stalls = 0 /\ waiting' = waiting + 1 /\ UNCHANGED jobFailed
          \/ stalls > 0 /\ jobFailed' = TRUE /\ UNCHANGED waiting

\* A request that has not reached a handler yet may find the new process.
Restart ==
    /\ Fault
    /\ \E kept \in SUBSET {f \in Post : ingest[f] = "sent" /\ tries[f] = 0} :
          ingest' = [f \in Post |-> IF ingest[f] = "sent" /\ f \notin kept
                                    THEN "dead" ELSE ingest[f]]
    /\ submit' = [p \in Page |-> IF submit[p] \in {"checked", "flipped"}
                                 THEN "dead" ELSE submit[p]]
    /\ RequeueStalled
    /\ UNCHANGED <<clientVars, body, heard, tries, attempts, rowVars, read,
                   judged, verdict, enqueuedBy, windowOpen>>

-----------------------------------------------------------------------------
PageStep(p) ==
    \/ Open(p) \/ Close(p) \/ ClickSubmitEmpty(p) \/ Disarm(p)
    \/ SubmitAnswer(p) \/ SubmitBreaks(p)
    \/ \E k \in Key : Type(p, k)
    \/ \E f \in Post : IntervalFlush(p, f) \/ ClickSubmit(p, f)

IngestStep(f) ==
    \/ FlushAnswer(f) \/ FlushBreaks(f) \/ IngestLost(f)
    \/ IngestAppends(f) \/ IngestAckLost(f) \/ IngestFails(f) \/ IngestThrows(f)

SubmitStep(p) ==
    \/ SubmitLost(p) \/ SubmitCheck(p) \/ SubmitFails(p)
    \/ SubmitFlips(p) \/ SubmitMatchesNoRow(p) \/ SubmitFlipAckLost(p)
    \/ SubmitFlipFails(p) \/ SubmitEnqueues(p) \/ SubmitEnqueueFails(p)

WorkerStep == WorkerReads \/ WorkerStores \/ WorkerFails

Next ==
    \/ \E p \in Page : PageStep(p) \/ SubmitStep(p)
    \/ \E f \in Post : IngestStep(f)
    \/ WorkerStep \/ WindowMoves \/ Restart

Spec == Init /\ [][Next]_vars

(***************************************************************************)
(* Handlers that were reached run on, a fetch settles once its answer is   *)
(* there or can no longer come, and the worker takes the next job.  No     *)
(* student has to type or submit, and no fault has to happen.              *)
(***************************************************************************)
FetchSettles(f) == FlushAnswer(f) \/ (ingest[f] = "dead" /\ FlushBreaks(f))
SubmitSettlesAt(p) == SubmitAnswer(p) \/ (submit[p] = "dead" /\ SubmitBreaks(p))
HandlerRuns(p) == SubmitCheck(p) \/ SubmitFlips(p) \/ SubmitMatchesNoRow(p)
                  \/ SubmitEnqueues(p)

Fairness ==
    /\ \A p \in Page : WF_vars(Disarm(p)) /\ WF_vars(SubmitSettlesAt(p))
                       /\ WF_vars(HandlerRuns(p))
    /\ \A f \in Post : WF_vars(IngestAppends(f)) /\ WF_vars(FetchSettles(f))
    /\ WF_vars(WorkerReads \/ WorkerStores)

FairSpec == Spec /\ Fairness

-----------------------------------------------------------------------------
(* Properties.                                                             *)

\* Every keystroke made is in exactly one place: the buffer of the page it was
\* typed in, or the body of the one request that drained it.  The interval, the
\* task switch and the submit may all drain, in any order; none sends an event
\* the other sent, and none forgets one (EditorPane: "the two can never send
\* the same events twice even if they overlap").
EachKeystrokeDrainedOnce ==
    /\ \A k \in Key : k \in typed <=> \/ \E p \in Page : k \in buffer[p]
                                      \/ \E f \in Post : k \in body[f]
    /\ \A p \in Page, f \in Post : buffer[p] \cap body[f] = {}
    /\ \A p, q \in Page : p # q => buffer[p] \cap buffer[q] = {}
    /\ \A f, g \in Post : f # g => body[f] \cap body[g] = {}

\* A flush the page believes persisted is in playback_log.
AcceptedIsRecorded ==
    \A f \in Post : heard[f] = "acked" => \E i \in 1..Len(log) : log[i] = f

\* Whatever two tabs, retries and restarts do, at most one request ever adds a
\* forensics job, it is the one whose UPDATE moved the row, and no two jobs for
\* the session are ever outstanding.
OneJobPerSubmission ==
    /\ \A p \in enqueuedBy : p = flippedBy /\ status = "SUBMITTED"
    /\ waiting <= 1 /\ (worker = "running" => waiting = 0)

\* The await in handleSubmit buys what it is there for: when the submitting
\* page's final flush was accepted, the verdict was computed from it.
VerdictReadsFinalFlush ==
    judged =>
      \A p \in enqueuedBy :
        /\ awaits[p] # None
        /\ heard[awaits[p]] = "acked"
        => \E i \in 1..verdict : log[i] = awaits[p]

\* Submit never traps the student: the page leaves "Submitting...", whatever
\* becomes of its flush and of its submit request.
SubmitSettles ==
    \A p \in Page : page[p] \in {"draining", "posting"} ~> page[p] \in {"settled", "closed"}

\* A job that was added is concluded, also across a restart in the middle of it:
\* the results are stored, or the job is in the failed set.
EnqueuedIsConcluded == enqueuedBy # {} ~> (judged \/ jobFailed)

\* The session keeps the promise of EvidenceRecord.
KeysUpTo(n) == {k \in Key : \E i \in 1..n : k \in body[log[i]]}

Record == INSTANCE EvidenceRecord WITH
    recorded  <- KeysUpTo(Len(log)),
    submitted <- status = "SUBMITTED",
    sealed    <- KeysUpTo(sealedLen),
    judged    <- judged,
    verdict   <- KeysUpTo(verdict)

KeepsRecordPromise == Record!Spec

-----------------------------------------------------------------------------
(* The inductive invariant behind the safety properties, in parts.         *)

InLog(f, n) == \E i \in 1..n : log[i] = f

\* A request not answered yet has an attempt left.
TriesLeft ==
    /\ \A f \in Post : ingest[f] \in {"unused", "sent"} => tries[f] < MaxAttempts
    /\ \A p \in Page : submit[p] \in {"idle", "sent", "checked"} => attempts[p] < MaxAttempts

\* Request identities are used once; only used ones reach the log; a 202 means
\* the window is there.
PostsConsistent ==
    /\ \A f \in Post : ingest[f] = "unused" => body[f] = {} /\ heard[f] = "waiting"
    /\ \A i \in 1..Len(log) : ingest[log[i]] # "unused"
    /\ \A f \in Post : ingest[f] = "accepted" \/ heard[f] = "acked"
                         => InLog(f, Len(log))

\* A page posts its submit only after the flush it awaits has settled.
PagesConsistent ==
    /\ \A p \in Page : page[p] \in {"unopened", "editing", "draining", "locked"}
                         => submit[p] = "idle"
    /\ \A p \in Page : page[p] = "draining" => awaits[p] # None
    /\ \A p \in Page : awaits[p] # None => ingest[awaits[p]] # "unused"
    /\ \A p \in Page : submit[p] # "idle" /\ awaits[p] # None
                         => heard[awaits[p]] # "waiting"
    /\ \A p \in Page : page[p] \in {"unopened", "editing"} => awaits[p] = None

FinalFlushWithin(p, n) ==
    awaits[p] # None /\ heard[awaits[p]] = "acked" => InLog(awaits[p], n)

\* The flip happens once, seals what was recorded, and alone leads to a job.
FlipConsistent ==
    /\ status = "IN_PROGRESS" => flippedBy = None /\ enqueuedBy = {}
    /\ \A p \in Page : submit[p] = "flipped" => flippedBy = p /\ p \notin enqueuedBy
    /\ \A p \in enqueuedBy : p = flippedBy
    /\ \A p \in Page : flippedBy = p => submit[p] # "idle" /\ FinalFlushWithin(p, sealedLen)
    /\ sealedLen <= Len(log)

\* Jobs and verdicts exist only after a job was added, and read the sealed part.
JobsConsistent ==
    /\ enqueuedBy = {} => waiting = 0 /\ worker = "idle" /\ ~judged
    /\ waiting <= 1 /\ (worker = "running" => waiting = 0)
    /\ worker = "running" => sealedLen <= read /\ verdict <= read /\ read <= Len(log)
    /\ judged => sealedLen <= verdict
    /\ verdict <= Len(log)

\* All of the above: what every step preserves.
Inductive ==
    /\ TypeOK /\ TriesLeft /\ PostsConsistent /\ PagesConsistent
    /\ FlipConsistent /\ JobsConsistent
=============================================================================
