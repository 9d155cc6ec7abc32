------------------------------- MODULE Course -------------------------------
(***************************************************************************)
(* One assignment of a class while it is being sat: instructors move its   *)
(* schedule (PATCH /api/assignments/:id) and the network policy of its     *)
(* class (PUT /api/classes/:classId/network), students join, open the exam *)
(* through the network guard, and hand it in by hand or by the countdown   *)
(* of their page (components/ExamTimer.jsx).  The roster of the assignment *)
(* is what the instructor watches meanwhile.                               *)
(*                                                                         *)
(* Time passes in ticks.  A request or an answer is under way for at most  *)
(* MaxDelay of them; SubmitPipeline has the same hand-in with requests     *)
(* that are lost, and SessionEntry the race for the row.                   *)
(***************************************************************************)
EXTENDS ExamWindow, NetworkPolicy, Sequences, FiniteSetsExt

CONSTANTS
    Student,      \* each of them has one page
    Histories,    \* rows there may be from before, duplicates among them
    Tab,          \* instructor requests that may be under way at once
    Instants,     \* instants an instructor may schedule at creation
    Bodies,       \* bodies of the PATCH
    Policies,     \* bodies of the network PUT
    Hosts,        \* addresses pages open the exam from
    Offsets,      \* how far the clock of a page may be from the server's
    Keep,         \* a field a PATCH does not send
    Lead,         \* AUTO_SUBMIT_LEAD_MS: the countdown hands in this early
    MaxDelay,     \* an answer, or the restore of a resumed session, or a hand-in
    MaxActs,      \* patches, policies, joins, openings, flushes, failed lookups
    MaxClock

\* The lead is there to cover a slow answer and a slow restore, one period of
\* the countdown (a tick) and a slow hand-in.
ASSUME LeadAssumption == {MaxDelay, Lead} \subseteq Nat /\ 3 * MaxDelay + 1 <= Lead

\* Of the rows of one student all have the userId or none has it, and an empty
\* one that was handed in was updated after every empty one that is still open.
ASSUME HistoryAssumption ==
    \A past \in Histories : \A q, r \in DOMAIN past :
        past[q].student = past[r].student =>
            /\ past[q].linked = past[r].linked
            /\ /\ ~past[q].worked /\ past[q].status = "IN_PROGRESS"
               /\ ~past[r].worked /\ past[r].status = "SUBMITTED"
               => q < r

ASSUME CourseAssumption ==
    /\ Histories \subseteq Seq([student : Student, linked : BOOLEAN, worked : BOOLEAN,
                              status : {"IN_PROGRESS", "SUBMITTED"}])
    /\ Instants \subseteq Nat /\ Offsets \subseteq Int
    /\ Keep \notin Nat \cup {None}
    /\ Bodies \subseteq [opens : Nat \cup {None, Keep}, closes : Nat \cup {None, Keep},
                         minutes : Nat \cup {Keep}, tasks : Nat \cup {Keep}]
    /\ \A pol \in Policies : pol.rules \subseteq Rule
    /\ Hosts \subseteq Address
    /\ {MaxActs, MaxClock} \subseteq Nat

VARIABLES
    now,         \* the server's clock
    assignment,  \* its row: opensAt, closesAt, windowMinutes, taskCount
    policy,      \* of its class: ipRestrictionEnabled, allowedIps
    members,     \* class_memberships
    rows,        \* its sessions, in order of creation
    patch,       \* patch[t]: the PATCH under way in t
    page,        \* page[s]: the exam page of s
    acts,        \* bound
    crossed      \* history: a PATCH wrote over something it had not seen

vars == <<now, assignment, policy, members, rows, patch, page, acts, crossed>>

Act == acts < MaxActs /\ acts' = acts + 1

NoPatch == [at |-> "idle"]

Away == [at |-> "away"]

\* What the create route stores, for an exam of one task.
Stored(opens, closes) ==
    [opens |-> opens, closes |-> closes, tasks |-> 1,
     minutes |-> WindowMinutesBetween(opens, closes)]

CanOpen(opens, closes) == {opens, closes} \subseteq Nat => closes > opens

Init ==
    /\ now = 0
    /\ \E opens, closes \in Instants \cup {None} :
          /\ CanOpen(opens, closes)
          /\ assignment = Stored(opens, closes)
    /\ policy = [enabled |-> FALSE, rules |-> {}]
    /\ members = {}
    /\ rows \in Histories
    /\ patch = [t \in Tab |-> NoPatch]
    /\ page = [s \in Student |-> Away]
    /\ acts = 0
    /\ crossed = FALSE

-----------------------------------------------------------------------------
(***************************************************************************)
(* PATCH /api/assignments/:id.  The row is read, the body merged with it   *)
(* and checked, sessions counted when the number of tasks would change,    *)
(* and only then the fields that were sent are written.                    *)
(***************************************************************************)
Sent(field, stored) == IF field = Keep THEN stored ELSE field

MergedOpens(body, row) == Sent(body.opens, row.opens)

\* A duration counts only when no close was sent.
MergedCloses(body, row) ==
    IF body.closes = Keep /\ body.minutes # Keep
      THEN ClosesAtFrom(MergedOpens(body, row), body.minutes)
      ELSE Sent(body.closes, row.closes)

SendsCloses(body) == body.closes # Keep \/ body.minutes # Keep

\* Variant: only what was sent is checked.
AcceptsSent(body, row) == CanOpen(Sent(body.opens, None), Sent(body.closes, None))

Accepts(body, row) == CanOpen(MergedOpens(body, row), MergedCloses(body, row))

ChangesTasks(body, row) == body.tasks \notin {Keep, row.tasks}

PatchRead(t, body) ==
    /\ Act
    /\ patch[t] = NoPatch
    /\ Accepts(body, assignment)
    /\ patch' = [patch EXCEPT ![t] =
          [at   |-> IF ChangesTasks(body, assignment) THEN "counting" ELSE "checked",
           body |-> body, row |-> assignment]]
    /\ UNCHANGED <<now, assignment, policy, members, rows, page, crossed>>

\* 409 once any session exists, submitted or not.
PatchCount(t) ==
    /\ patch[t].at = "counting"
    /\ patch' = [patch EXCEPT ![t] = IF rows = <<>> THEN [@ EXCEPT !.at = "checked"] ELSE NoPatch]
    /\ UNCHANGED <<now, assignment, policy, members, rows, page, acts, crossed>>

Patched(body, read, current) ==
    [opens   |-> IF body.opens # Keep THEN body.opens ELSE current.opens,
     closes  |-> IF SendsCloses(body) THEN MergedCloses(body, read) ELSE current.closes,
     minutes |-> WindowMinutesBetween(MergedOpens(body, read), MergedCloses(body, read)),
     tasks   |-> IF ChangesTasks(body, read) THEN body.tasks ELSE current.tasks]

\* The pages that have loaded the assignment and have no session yet, and the
\* sessions that came after the count.
Unseen(t) ==
    \/ patch[t].row # assignment
    \/ /\ ChangesTasks(patch[t].body, patch[t].row)
       /\ \/ rows # <<>>
          \/ \E s \in Student : page[s].at \in {"listed", "opening"}

PatchWrite(t) ==
    /\ patch[t].at = "checked"
    /\ assignment' = Patched(patch[t].body, patch[t].row, assignment)
    /\ patch' = [patch EXCEPT ![t] = NoPatch]
    /\ crossed' = (crossed \/ Unseen(t))
    /\ UNCHANGED <<now, policy, members, rows, page, acts>>

\* PUT /api/classes/:classId/network: the whole policy at once.
PolicyAccepted(pol) == pol.enabled => pol.rules # {}

PutNetwork(pol) ==
    /\ Act
    /\ PolicyAccepted(pol)
    /\ policy' = pol
    /\ UNCHANGED <<now, assignment, members, rows, patch, page, crossed>>

-----------------------------------------------------------------------------
(***************************************************************************)
(* A student joins and opens the exam.                                     *)
(***************************************************************************)
\* POST /api/classes/join.  Of two at once the unique index refuses one.
Join(s) ==
    /\ Act
    /\ s \notin members
    /\ members' = members \cup {s}
    /\ UNCHANGED <<now, assignment, policy, rows, patch, page, crossed>>

RowsOf(s) == {r \in DOMAIN rows : rows[r].student = s}

\* pickRealSession, less the counters SessionEntry ranks after the windows;
\* the later row stands for the one updated later.
MostReal(R) ==
    LET worked == {r \in R : rows[r].worked}
    IN  IF worked = {} THEN Max(R) ELSE Max(worked)

\* The row decideSessionAction takes: a submitted one first.
Chosen(s) ==
    LET submitted == {r \in RowsOf(s) : rows[r].status = "SUBMITTED"}
    IN  MostReal(IF submitted = {} THEN RowsOf(s) ELSE submitted)

\* networkGuard on GET /api/assignments/:id and on the create: a refused address
\* stays outside, unless the lookup of the policy fails.
Guarded(s, ip, next) ==
    \/ /\ ~IsNetworkAllowed(policy, ip)
       /\ page' = [page EXCEPT ![s] = [at |-> "blocked"]]
    \/ page' = [page EXCEPT ![s] = next]

\* mySubmissions: whose class page shows the exam as handed in; the assignment
\* asks the same of its own reader.
MySubmissions == {rows[r].student : r \in {q \in DOMAIN rows :
                                              rows[q].linked /\ rows[q].status = "SUBMITTED"}}

\* ExamPage loads the assignment; an exam already handed in opens locked.
Arrive(s, ip) ==
    /\ Act
    /\ page[s].at = "away"
    /\ Guarded(s, ip,
         IF s \in MySubmissions
           THEN [at |-> "locked"]
           ELSE [at |-> "listed", ip |-> ip, tasks |-> assignment.tasks])
    /\ UNCHANGED <<now, assignment, policy, members, rows, patch, crossed>>

\* POST /api/session/create up to its transaction: the schedule is read.
OpenRead(s) ==
    /\ page[s].at = "listed"
    /\ Guarded(s, page[s].ip,
         [at |-> "opening", tasks |-> page[s].tasks,
          opens |-> assignment.opens, closes |-> assignment.closes])
    /\ UNCHANGED <<now, assignment, policy, members, rows, patch, acts, crossed>>

\* The transaction and the answer: the deadline of the schedule read before,
\* the server's clock of now.
OpenCommit(s) ==
    /\ page[s].at = "opening"
    /\ rows' = IF RowsOf(s) = {}
                 THEN Append(rows, [student |-> s, linked |-> TRUE, worked |-> FALSE,
                                    status |-> "IN_PROGRESS"])
                 ELSE rows
    /\ page' = [page EXCEPT ![s] =
          IF RowsOf(s) # {} /\ rows[Chosen(s)].status = "SUBMITTED"
            THEN [at |-> "locked"]
            ELSE [at |-> "answered", tasks |-> @.tasks, serverNow |-> now, wait |-> 0,
                  resumed |-> RowsOf(s) # {},
                  row |-> IF RowsOf(s) = {} THEN Len(rows) + 1 ELSE Chosen(s),
                  deadline |-> EffectiveClose(@.opens, @.closes)]]
    /\ UNCHANGED <<now, assignment, policy, members, patch, acts, crossed>>

-----------------------------------------------------------------------------
(***************************************************************************)
(* The countdown.  The clock of the page is off by some ticks; how far it  *)
(* is from the server's is measured once, when the countdown appears.      *)
(***************************************************************************)
\* Variant: the clock of the page is believed.
SkewIgnored(serverNow, local) == 0

Skew(serverNow, local) == serverNow - local

LeadTime == Lead

Left(p) == p.deadline - (now + p.offset + p.skew)

\* Time is up on the page: it hands in at its next tick, once.
TimeUp(s) == page[s].at = "exam" /\ page[s].deadline # None /\ Left(page[s]) <= LeadTime

\* The answer of the create arrives.  The exam of a resumed session appears
\* only when its restore has succeeded or failed.
AskRestore(s) ==
    /\ page[s].at = "answered" /\ page[s].resumed
    /\ page' = [page EXCEPT ![s].at = "restoring", ![s].wait = 0]
    /\ UNCHANGED <<now, assignment, policy, members, rows, patch, acts, crossed>>

\* Then the page shows the exam, and its countdown measures the clocks.
Mount(s, offset) ==
    /\ page[s].at = "restoring" \/ (page[s].at = "answered" /\ ~page[s].resumed)
    /\ page' = [page EXCEPT ![s] =
          [at |-> "exam", tasks |-> @.tasks, row |-> @.row, deadline |-> @.deadline,
           offset |-> offset, skew |-> Skew(@.serverNow, now + offset), wait |-> 0,
           ample |-> IF @.deadline = None THEN TRUE ELSE now <= @.deadline - Lead]]
    /\ UNCHANGED <<now, assignment, policy, members, rows, patch, acts, crossed>>

HandIn(s, auto) ==
    page' = [page EXCEPT ![s] =
        [at |-> "submitting", row |-> @.row, tasks |-> @.tasks, wait |-> 0,
         deadline |-> @.deadline, promised |-> auto /\ @.ample]]

CountdownEnds(s) ==
    /\ TimeUp(s)
    /\ HandIn(s, TRUE)
    /\ UNCHANGED <<now, assignment, policy, members, rows, patch, acts, crossed>>

ClickSubmit(s) ==
    /\ page[s].at = "exam"
    /\ HandIn(s, FALSE)
    /\ UNCHANGED <<now, assignment, policy, members, rows, patch, acts, crossed>>

\* A flush window reaches the row.
Flush(s) ==
    /\ Act
    /\ page[s].at = "exam" /\ ~rows[page[s].row].worked
    /\ rows' = [rows EXCEPT ![page[s].row].worked = TRUE]
    /\ UNCHANGED <<now, assignment, policy, members, patch, page, crossed>>

\* POST /api/session/:id/submit: the window of the schedule as it is now, by
\* the server's clock.  A refusal carries the close it was judged by.
SubmitCheck(s) ==
    LET state == WindowState(assignment.opens, assignment.closes, now)
    IN  /\ page[s].at = "submitting"
        /\ page' = [page EXCEPT ![s] =
              IF IsSubmitAllowed(state)
                THEN [at |-> "accepted", row |-> @.row, wait |-> @.wait]
                ELSE [at |-> "refused", state |-> state, promised |-> @.promised,
                      deadline |-> @.deadline,
                      told |-> EffectiveClose(assignment.opens, assignment.closes)]]
        /\ UNCHANGED <<now, assignment, policy, members, rows, patch, acts, crossed>>

SubmitWrite(s) ==
    /\ page[s].at = "accepted"
    /\ rows' = [rows EXCEPT ![page[s].row].status = "SUBMITTED"]
    /\ page' = [page EXCEPT ![s] = [at |-> "locked"]]
    /\ UNCHANGED <<now, assignment, policy, members, patch, acts, crossed>>

\* The student closes the page, or reloads it.
Leave(s) ==
    /\ page[s].at \in {"exam", "blocked", "refused"}
    /\ page' = [page EXCEPT ![s] = Away]
    /\ UNCHANGED <<now, assignment, policy, members, rows, patch, acts, crossed>>

Waiting(p) == p.at \in {"answered", "restoring", "submitting", "accepted"}

\* A tick: nothing under way grows older than MaxDelay, and a countdown that
\* has ended acts within one period.
Tick ==
    /\ now < MaxClock
    /\ \A s \in Student :
          /\ Waiting(page[s]) => page[s].wait < MaxDelay
          /\ TimeUp(s) => page[s].wait = 0
    /\ now' = now + 1
    /\ page' = [s \in Student |->
          IF Waiting(page[s]) \/ TimeUp(s)
            THEN [page[s] EXCEPT !.wait = @ + 1]
            ELSE page[s]]
    /\ UNCHANGED <<assignment, policy, members, rows, patch, acts, crossed>>

Next ==
    \/ \E t \in Tab : (\E body \in Bodies : PatchRead(t, body)) \/ PatchCount(t) \/ PatchWrite(t)
    \/ \E pol \in Policies : PutNetwork(pol)
    \/ \E s \in Student :
          \/ Join(s)
          \/ \E ip \in Hosts : Arrive(s, ip)
          \/ OpenRead(s) \/ OpenCommit(s)
          \/ AskRestore(s) \/ \E offset \in Offsets : Mount(s, offset)
          \/ CountdownEnds(s) \/ ClickSubmit(s) \/ Flush(s)
          \/ SubmitCheck(s) \/ SubmitWrite(s) \/ Leave(s)
    \/ Tick

Spec == Init /\ [][Next]_vars

-----------------------------------------------------------------------------
(***************************************************************************)
(* GET /api/assignments/:id/roster: a tile for every member, and one for   *)
(* everybody else who holds a session.                                     *)
(***************************************************************************)
\* A member's rows: the linked ones, or those under the name when there are none.
RowsOfMember(s) ==
    LET linked == {r \in RowsOf(s) : rows[r].linked}
    IN  IF linked = {} THEN RowsOf(s) ELSE linked

Tile(student, enrolled, R) ==
    [student |-> student, enrolled |-> enrolled,
     session |-> IF R = {} THEN 0 ELSE MostReal(R)]

\* Variant: a tile accounts for the row it shows.
ClaimsShown(R) == IF R = {} THEN {} ELSE {MostReal(R)}

\* A tile accounts for every row of its student.
Claims(R) == R

Claimed == UNION {Claims(RowsOfMember(s)) : s \in members}

\* sessions of nobody claimed, by account, or by name when there is none.
OrphanGroups ==
    LET orphans == DOMAIN rows \ Claimed
        Key(r) == IF rows[r].linked THEN <<"id", rows[r].student>>
                                    ELSE <<"name", rows[r].student>>
    IN  {{r \in orphans : Key(r) = Key(o)} : o \in orphans}

Roster ==
    {Tile(s, TRUE, RowsOfMember(s)) : s \in members}
      \cup {Tile(rows[Max(g)].student, FALSE, g) : g \in OrphanGroups}

\* An empty open row, and a row with work or handed in.
IsPhantom(r) == rows[r].status = "IN_PROGRESS" /\ ~rows[r].worked

IsReal(r) == rows[r].status = "SUBMITTED" \/ rows[r].worked

\* GET /api/assignments/:assignmentId/sessions: all but the phantoms beside a
\* real row of the same student.
SessionList ==
    {r \in DOMAIN rows :
        ~(IsPhantom(r) /\ \E sibling \in RowsOf(rows[r].student) : IsReal(sibling))}

-----------------------------------------------------------------------------
\* When no PATCH overlaps another one, nor changes the number of tasks under a
\* page that is opening, the stored window can open, the duration shown is that
\* of the instants enforced, and every page that is writing has the tasks of
\* the exam.
LonePatchIsSafe ==
    ~crossed =>
        /\ CanOpen(assignment.opens, assignment.closes)
        /\ assignment.minutes = WindowMinutesBetween(assignment.opens, assignment.closes)
        /\ \A s \in Student :
              page[s].at \in {"answered", "restoring", "exam", "submitting"} =>
                  page[s].tasks = assignment.tasks

\* What the countdown hands in for a student who had the page open before the
\* lead began is not refused as late, however wrong the clock of the page,
\* unless the close it is judged by is no longer the one the page was given.
CountdownIsInTime ==
    \A s \in Student :
        page[s].at = "refused" /\ page[s].state = "closed" /\ page[s].promised
            => page[s].told # page[s].deadline

\* Whoever joins, before or after sitting the exam, and whatever rows a student
\* has from before: every student who is a member or holds a session has one
\* tile, enrolled exactly when a member; the tile opens a session with work in
\* it when there is one, and never one that the list of sessions hides.
EveryoneOnOneTile ==
    /\ \A s \in members \cup {rows[r].student : r \in DOMAIN rows} :
          \E tile \in Roster :
              /\ {other \in Roster : other.student = s} = {tile}
              /\ tile.enrolled = (s \in members)
              /\ IF RowsOf(s) = {} THEN tile.session = 0 ELSE tile.session \in RowsOf(s) \cap SessionList
              /\ (\E r \in RowsOf(s) : rows[r].worked) => rows[tile.session].worked

\* A range admits the aligned block of addresses around its base and no other,
\* and whatever policies are saved, one that is on admits somebody.
PolicyAdmitsItsBlocks ==
    /\ policy.enabled => \E ip \in Address : IsNetworkAllowed(policy, ip)
    /\ \A rule \in policy.rules, ip \in Address :
          LET size == IF rule.bits = Exact THEN 1 ELSE Pow2[Width - rule.bits]
          IN  MatchesRule(ip, rule) <=> (ip \div size = rule.base \div size)
=============================================================================
