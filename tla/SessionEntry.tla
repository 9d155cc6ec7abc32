---------------------------- MODULE SessionEntry ----------------------------
(***************************************************************************)
(* How a student's exam page gets its session row: POST                    *)
(* /api/session/create for one (student, assignment) pair, raced by every  *)
(* tab, double click and retry of that student.  The check and the insert  *)
(* run in one READ COMMITTED transaction behind a Postgres advisory lock;  *)
(* withRetry runs the transaction again when its connection breaks, also   *)
(* when the COMMIT it lost is still under way in the database.  The pair   *)
(* may already have rows from before the lock existed, empty duplicates    *)
(* among them; lib/sessionResolution.ts ranks those and hides the empty    *)
(* ones from the instructor.                                               *)
(***************************************************************************)
EXTENDS Naturals, FiniteSets

CONSTANTS
    Request,      \* page loads of this student for this assignment
    Row,          \* ids of session rows of the pair
    Historic,     \* the rows that may exist before the server starts
    Assigned,     \* FALSE for the bucket of sessions without an assignment
    None,         \* no request, no row
    Orphan,       \* a transaction whose connection is gone
    MaxAttempts,  \* withRetry's `attempts`: 3 in the code
    MaxFaults,    \* bound: broken connections, restarts and lost answers
    MaxClock,     \* bound: updates that set updatedAt
    MaxAlerts     \* bound: Tier-1 alerts of one row

ASSUME RowAssumption == Historic \subseteq Row /\ IsFiniteSet(Historic) /\ None \notin Row
ASSUME HolderAssumption == None \notin Request /\ Orphan \notin Request \cup {None}
ASSUME BoundAssumption == MaxAttempts \in Nat \ {0} /\ MaxFaults \in Nat
ASSUME AssignedAssumption == Assigned \in BOOLEAN

VARIABLES
    status,    \* "absent" or sessions.status
    evidence,  \* what each row holds, in the order compareRealness looks at it
    clock,     \* the database's clock: one tick per write that sets updatedAt
    lock,      \* holder of the advisory lock of the pair
    pending,   \* the orphaned transaction's COMMIT would insert a row
    pc,        \* where each page and its create request are
    choice,    \* the row its transaction decided on
    tries,     \* failed attempts of that transaction
    faults     \* faults so far

rowVars == <<status, evidence, clock>>
txVars  == <<lock, pending>>
vars    == <<rowVars, txVars, pc, choice, tries, faults>>

\* Fields of evidence[r].
Windows == 1    \* jsonb_array_length(playback_log)
Forensics == 2  \* forensicsResults IS NOT NULL, as 0 or 1
Alerts == 3     \* jsonb_array_length(tier1_log)
Runs == 4       \* runCount
Updated == 5    \* updatedAt
Field == 1..5

RowStatus == {"absent", "IN_PROGRESS", "SUBMITTED"}
\* A Decision is not committed yet; Committed ones are not answered yet.
Decision == {"create", "resume", "already"}
Committed == {"created", "resumed", "wasSubmitted"}
PageState == {"idle", "arrived", "locked", "editing", "lockedOut", "left", "failed"}
                 \cup Decision \cup Committed

TypeOK ==
    /\ status \in [Row -> RowStatus]
    /\ evidence \in [Row -> [Field -> Nat]]
    /\ clock \in Nat
    /\ lock \in Request \cup {None, Orphan}
    /\ pending \in BOOLEAN
    /\ pc \in [Request -> PageState]
    /\ choice \in [Request -> Row \cup {None}]
    /\ tries \in [Request -> 0..MaxAttempts]
    /\ faults \in 0..MaxFaults

Present == {r \in Row : status[r] # "absent"}
Open == {r \in Row : status[r] = "IN_PROGRESS"}

\* Any of the historic rows, open or submitted, empty or not, no two updated at
\* one moment.
Init ==
    /\ status \in {s \in [Row -> RowStatus] : \A r \in Row \ Historic : s[r] = "absent"}
    /\ \E rank \in [Historic -> 1..Cardinality(Historic)], worked \in [Historic -> 0..1] :
          /\ \A r, s \in Historic : rank[r] = rank[s] => r = s
          /\ evidence = [r \in Row |-> [i \in Field |->
                CASE r \in Present /\ i = Updated -> rank[r]
                  [] r \in Present /\ i = Windows -> worked[r]
                  [] OTHER -> 0]]
    /\ clock = Cardinality(Historic)
    /\ lock = None
    /\ pending = FALSE
    /\ pc = [q \in Request |-> "idle"]
    /\ choice = [q \in Request |-> None]
    /\ tries = [q \in Request |-> 0]
    /\ faults = 0

Fault == faults < MaxFaults /\ faults' = faults + 1

-----------------------------------------------------------------------------
(* lib/sessionResolution.ts and lib/sessionLifecycle.ts.                   *)

\* compareRealness(r, s) < 0: the first field that differs decides.
Realer(r, s) ==
    \E i \in Field : /\ evidence[r][i] > evidence[s][i]
                     /\ \A j \in Field : j < i => evidence[r][j] = evidence[s][j]

\* Variant: the newest row, whatever it holds.
Newest(R) == {r \in R : \A s \in R : evidence[s][Updated] <= evidence[r][Updated]}

\* Variant: the rows come back in any order and the first one is taken.
AnyRow(R) == R

\* pickRealSession.
MostReal(R) == {r \in R : \A s \in R : ~Realer(s, r)}

IsPhantom(r) ==
    /\ status[r] = "IN_PROGRESS"
    /\ \A i \in {Windows, Forensics, Alerts, Runs} : evidence[r][i] = 0

IsReal(r) == status[r] = "SUBMITTED" \/ (status[r] # "absent" /\ evidence[r][Windows] > 0)

\* Variant: any empty row, whether or not there is another one.
PhantomAlone(r) == IsPhantom(r)

\* isDeletablePhantom: what the instructor's lists hide and phantom-sessions.sql
\* deletes.
DeletablePhantom(r) == IsPhantom(r) /\ \E s \in Row \ {r} : IsReal(s)

\* The rows decideSessionAction is given: the SELECT, less the submitted rows
\* when there is no assignment.
Candidates == {r \in Present : Assigned \/ status[r] = "IN_PROGRESS"}

\* Variant: an open row is resumed even when the pair has a submitted one.
ResumeFirst(q) ==
    \/ /\ Open # {}
       /\ \E r \in MostReal(Open) : choice' = [choice EXCEPT ![q] = r]
       /\ pc' = [pc EXCEPT ![q] = "resume"]
    \/ /\ Open = {} /\ Candidates # {}
       /\ \E r \in MostReal(Candidates) : choice' = [choice EXCEPT ![q] = r]
       /\ pc' = [pc EXCEPT ![q] = "already"]
    \/ /\ Candidates = {}
       /\ pc' = [pc EXCEPT ![q] = "create"]
       /\ UNCHANGED choice

\* decideSessionAction: a submitted row, else an open one, else a new one.
Decide(q) ==
    LET done == Candidates \ Open IN
    \/ /\ done # {}
       /\ \E r \in MostReal(done) : choice' = [choice EXCEPT ![q] = r]
       /\ pc' = [pc EXCEPT ![q] = "already"]
    \/ /\ done = {} /\ Open # {}
       /\ \E r \in MostReal(Open) : choice' = [choice EXCEPT ![q] = r]
       /\ pc' = [pc EXCEPT ![q] = "resume"]
    \/ /\ Candidates = {}
       /\ pc' = [pc EXCEPT ![q] = "create"]
       /\ UNCHANGED choice

-----------------------------------------------------------------------------
(* The page asks, and POST /api/session/create answers.                    *)

\* ExamPage loads the assignment first: one already submitted opens locked.
Arrive(q) ==
    /\ pc[q] = "idle"
    /\ pc' = [pc EXCEPT ![q] = IF Assigned /\ Present \ Open # {}
                               THEN "lockedOut" ELSE "arrived"]
    /\ UNCHANGED <<rowVars, txVars, choice, tries, faults>>

\* Variant: the transaction does not wait for the lock.
TakeLockAnyway(q) ==
    /\ pc[q] = "arrived"
    /\ lock' = q
    /\ pc' = [pc EXCEPT ![q] = "locked"]
    /\ UNCHANGED <<rowVars, pending, choice, tries, faults>>

\* SELECT pg_advisory_xact_lock(...).
TakeLock(q) ==
    /\ pc[q] = "arrived"
    /\ lock = None
    /\ lock' = q
    /\ pc' = [pc EXCEPT ![q] = "locked"]
    /\ UNCHANGED <<rowVars, pending, choice, tries, faults>>

\* The SELECT of the pair's rows, and the decision.
Select(q) ==
    /\ pc[q] = "locked"
    /\ Decide(q)
    /\ UNCHANGED <<rowVars, txVars, tries, faults>>

InsertRow(r) ==
    /\ status[r] = "absent" /\ r \notin Historic
    /\ clock' = clock + 1
    /\ status' = [status EXCEPT ![r] = "IN_PROGRESS"]
    /\ evidence' = [evidence EXCEPT ![r] = [i \in Field |-> IF i = Updated THEN clock' ELSE 0]]

\* Variant: the lock belongs to the connection, not to the transaction.
KeepLock == UNCHANGED lock

\* The advisory lock is an xact lock: it ends with the transaction.
ReleaseLock == lock' = None

\* COMMIT, with the INSERT when there is one.
Commit(q) ==
    /\ pc[q] \in Decision
    /\ ReleaseLock
    /\ pc' = [pc EXCEPT ![q] = CASE @ = "create" -> "created"
                                 [] @ = "resume" -> "resumed"
                                 [] OTHER -> "wasSubmitted"]
    /\ \/ /\ pc[q] = "create"
          /\ \E r \in Row : InsertRow(r) /\ choice' = [choice EXCEPT ![q] = r]
       \/ pc[q] # "create" /\ UNCHANGED <<rowVars, choice>>
    /\ UNCHANGED <<pending, tries, faults>>

\* The page has its row: an editor, or the locked screen.
Answer(q) ==
    /\ pc[q] \in Committed
    /\ pc' = [pc EXCEPT ![q] = IF @ = "wasSubmitted" THEN "lockedOut" ELSE "editing"]
    /\ UNCHANGED <<rowVars, txVars, choice, tries, faults>>

InTransaction(q) == pc[q] \in {"locked"} \cup Decision

\* A transaction that lost its client: rolled back by now, or still there, its
\* COMMIT sent or not.
LeaveTransaction(q) ==
    \/ ReleaseLock /\ UNCHANGED pending
    \/ lock' = Orphan /\ pending' \in {FALSE, pc[q] = "create"}

\* The connection breaks: withRetry starts over, or gives up with 503; an error
\* that is not transient is answered at once.
Break(q) ==
    /\ pc[q] = "arrived" \/ InTransaction(q)
    /\ Fault
    /\ IF InTransaction(q) THEN LeaveTransaction(q) ELSE UNCHANGED txVars
    /\ tries' = [tries EXCEPT ![q] = @ + 1]
    /\ \/ tries'[q] < MaxAttempts /\ pc' = [pc EXCEPT ![q] = "arrived"]
       \/ pc' = [pc EXCEPT ![q] = "failed"]
    /\ choice' = [choice EXCEPT ![q] = None]
    /\ UNCHANGED rowVars

\* The database ends an abandoned transaction.
OrphanEnds ==
    /\ lock = Orphan
    /\ ReleaseLock
    /\ pending' = FALSE
    /\ \/ pending /\ \E r \in Row : InsertRow(r)
       \/ UNCHANGED rowVars
    /\ UNCHANGED <<pc, choice, tries, faults>>

\* The answer is lost, or the page is gone before it arrives.
AnswerLost(q) ==
    /\ pc[q] \in Committed
    /\ Fault
    /\ pc' = [pc EXCEPT ![q] = "failed"]
    /\ UNCHANGED <<rowVars, txVars, choice, tries>>

\* The server process restarts: its requests fail, its transaction is abandoned.
Restart ==
    /\ Fault
    /\ pc' = [q \in Request |->
                IF pc[q] \in {"idle", "editing", "lockedOut", "left"} THEN pc[q] ELSE "failed"]
    /\ \/ lock \in Request /\ LeaveTransaction(lock)
       \/ lock \notin Request /\ UNCHANGED txVars
    /\ UNCHANGED <<rowVars, choice, tries>>

-----------------------------------------------------------------------------
(* What pages and the worker write to the rows.                            *)

Write(r, i) ==
    evidence' = [evidence EXCEPT ![r][i] = @ + 1, ![r][Updated] = clock']

Tick == clock < MaxClock /\ clock' = clock + 1

\* POST /api/telemetry/submit appends whatever the status; a run is counted
\* whatever the status, and from the locked page too.
Flush(q) ==
    /\ pc[q] = "editing"
    /\ Tick
    /\ Write(choice[q], Windows)
    /\ UNCHANGED <<status, txVars, pc, choice, tries, faults>>

Run(q) ==
    /\ pc[q] = "editing"
    /\ Tick
    /\ Write(choice[q], Runs)
    /\ UNCHANGED <<status, txVars, pc, choice, tries, faults>>

\* recordTier1Alert: guarded by the status, does not set updatedAt.
Alert(q) ==
    /\ pc[q] = "editing"
    /\ status[choice[q]] = "IN_PROGRESS"
    /\ evidence[choice[q]][Alerts] < MaxAlerts
    /\ evidence' = [evidence EXCEPT ![choice[q]][Alerts] = @ + 1]
    /\ UNCHANGED <<status, clock, txVars, pc, choice, tries, faults>>

\* POST /api/session/:id/submit from a page that is editing; that page leaves.
Submit(q) ==
    /\ pc[q] = "editing"
    /\ status[choice[q]] = "IN_PROGRESS"
    /\ Tick
    /\ status' = [status EXCEPT ![choice[q]] = "SUBMITTED"]
    /\ evidence' = [evidence EXCEPT ![choice[q]][Updated] = clock']
    /\ pc' = [pc EXCEPT ![q] = "left"]
    /\ UNCHANGED <<txVars, choice, tries, faults>>

\* The page is closed.
Leave(q) ==
    /\ pc[q] = "editing"
    /\ pc' = [pc EXCEPT ![q] = "left"]
    /\ UNCHANGED <<rowVars, txVars, choice, tries, faults>>

\* The forensics worker stores its results.
Score(r) ==
    /\ status[r] = "SUBMITTED"
    /\ Tick
    /\ evidence' = [evidence EXCEPT ![r][Forensics] = 1, ![r][Updated] = clock']
    /\ UNCHANGED <<status, txVars, pc, choice, tries, faults>>

-----------------------------------------------------------------------------
Handler(q) == TakeLock(q) \/ Select(q) \/ Commit(q) \/ Answer(q)

Next ==
    \/ \E q \in Request :
          \/ Arrive(q) \/ Handler(q) \/ Break(q) \/ AnswerLost(q)
          \/ Flush(q) \/ Run(q) \/ Alert(q) \/ Submit(q) \/ Leave(q)
    \/ \E r \in Row : Score(r)
    \/ OrphanEnds \/ Restart

Spec == Init /\ [][Next]_vars

\* Handlers that were reached run on, and the database ends what was abandoned.
FairSpec == Spec /\ (\A q \in Request : WF_vars(Handler(q))) /\ WF_vars(OrphanEnds)

-----------------------------------------------------------------------------
(* Properties.                                                             *)

\* The inductive invariant behind CreatedRowIsAlone: the lock has one holder
\* from the SELECT to the end of the transaction, so what a transaction that
\* will insert has seen still stands.
LockConsistent ==
    /\ \A q \in Request : InTransaction(q) => lock = q
    /\ \A q \in Request : pc[q] = "create" => Candidates = {}
    /\ pending => lock = Orphan /\ Candidates = {}

\* However many tabs, retries and half-finished transactions there are, the
\* server adds a row only to a pair that offers no other: a row it created is
\* the only candidate the next page can be given.
CreatedRowIsAlone == \A r \in Candidates \ Historic : Candidates = {r}

\* All the student's editors write to one open row, also when the pair has
\* duplicates and the pages resume it at different times.
EditorsShareRow ==
    \A p, q \in Request :
        /\ pc[p] = "editing" /\ status[choice[p]] = "IN_PROGRESS"
        /\ pc[q] = "editing" /\ status[choice[q]] = "IN_PROGRESS"
        => choice[p] = choice[q]

\* No student edits an empty row while another open row holds recorded work.
WorkIsResumed ==
    \A q \in Request :
        pc[q] = "editing" /\ status[choice[q]] = "IN_PROGRESS"
          => \A r \in Open : evidence[r][Windows] > 0 => evidence[choice[q]][Windows] > 0

\* With an assignment there is no second attempt: nobody edits an open row of a
\* pair that has a submitted one.
NoSecondAttempt ==
    Assigned => \A q \in Request :
        pc[q] = "editing" /\ status[choice[q]] = "IN_PROGRESS" => Present = Open

\* The row a student is working in is never one that the instructor's lists
\* hide and the cleanup deletes.
EditedRowIsShown == \A q \in Request : pc[q] = "editing" => ~DeletablePhantom(choice[q])

\* Opening an exam is never stuck behind a dead holder of the lock: the page
\* gets its row, the locked screen or an error.
OpenIsAnswered ==
    \A q \in Request : pc[q] = "arrived" ~> pc[q] \in {"editing", "lockedOut", "left", "failed"}
=============================================================================
