----------------------------- MODULE CourseProofs -----------------------------
(***************************************************************************)
(* Proofs of LonePatchIsSafe, CountdownIsInTime, EveryoneOnOneTile and     *)
(* PolicyAdmitsItsBlocks, for any schedule, any policies, any number of    *)
(* students and requests, any clocks, any rows from before, and any lead   *)
(* that covers twice the longest delay and one period of the countdown.    *)
(***************************************************************************)
EXTENDS Course, SequenceTheorems, WellFoundedInduction, TLAPS

Row == [student : Student, linked : BOOLEAN, worked : BOOLEAN,
        status : {"IN_PROGRESS", "SUBMITTED"}]

Instant == Nat \cup {None}

Underway(t) == patch[t].at \in {"counting", "checked"}

\* A PATCH that is under way was found acceptable against the row it read.
PatchesAccepted ==
    \A t \in Tab :
        Underway(t) =>
            /\ DOMAIN patch[t] = {"at", "body", "row"}
            /\ patch[t].body \in Bodies
            /\ Accepts(patch[t].body, patch[t].row)

Sitting(s) == page[s].at \in {"answered", "restoring", "exam", "submitting"}
Loaded(s)  == Sitting(s) \/ page[s].at \in {"listed", "opening"}

\* Every page that is under way has the tasks of the exam, and one that has its
\* session has a row, so that the count of a PATCH finds it.
PagesAgree ==
    \A s \in Student :
        /\ Loaded(s) => page[s].tasks = assignment.tasks
        /\ Sitting(s) => rows # <<>>

\* What Tick, the one step that keeps a page's record, relies on.
Fields ==
    /\ DOMAIN page = Student /\ DOMAIN patch = Tab
    /\ \A s \in Student :
          /\ {"at"} \subseteq DOMAIN page[s]
          /\ Sitting(s) => "tasks" \in DOMAIN page[s]

LoneInv ==
    /\ rows \in Seq(Row) /\ crossed \in BOOLEAN
    /\ Fields /\ PatchesAccepted
    /\ ~crossed =>
          /\ CanOpen(assignment.opens, assignment.closes)
          /\ assignment.minutes = WindowMinutesBetween(assignment.opens, assignment.closes)
          /\ PagesAgree

-----------------------------------------------------------------------------
\* What a PATCH writes, when nothing came between its read and its write, is
\* the merged window it was accepted with.
LEMMA PatchedIsMerged ==
    ASSUME NEW body, NEW row
    PROVE  /\ Patched(body, row, row).opens = MergedOpens(body, row)
           /\ Patched(body, row, row).closes = MergedCloses(body, row)
           /\ Patched(body, row, row).minutes
                = WindowMinutesBetween(MergedOpens(body, row), MergedCloses(body, row))
  BY DEF Patched, MergedOpens, MergedCloses, Sent, SendsCloses

LEMMA LoneInit == Init => LoneInv
<1> SUFFICES ASSUME Init PROVE LoneInv
  OBVIOUS
<1>1. rows \in Seq(Row) /\ crossed \in BOOLEAN
  BY CourseAssumption DEF Init, Row
<1>2. Fields /\ PatchesAccepted /\ PagesAgree
  BY DEF Init, Fields, PatchesAccepted, PagesAgree, Underway, Loaded, Sitting, NoPatch, Away
<1>3. /\ CanOpen(assignment.opens, assignment.closes)
      /\ assignment.minutes = WindowMinutesBetween(assignment.opens, assignment.closes)
  BY DEF Init, Stored
<1> QED
  BY <1>1, <1>2, <1>3 DEF LoneInv

LEMMA LonePatch ==
    ASSUME LoneInv, NEW t \in Tab,
           \/ \E body \in Bodies : PatchRead(t, body)
           \/ PatchCount(t)
           \/ PatchWrite(t)
    PROVE  LoneInv'
<1>1. ASSUME NEW body \in Bodies, PatchRead(t, body) PROVE LoneInv'
  <2>1. Fields' /\ PatchesAccepted'
    BY <1>1 DEF LoneInv, Fields, PatchesAccepted, Underway, Sitting, PatchRead, Accepts,
                MergedOpens, MergedCloses
  <2>2. UNCHANGED <<assignment, rows, page, crossed>>
    BY <1>1 DEF PatchRead
  <2>3. QED
    BY <2>1, <2>2 DEF LoneInv, PagesAgree, Loaded, Sitting
<1>2. CASE PatchCount(t)
  <2>1. Fields' /\ PatchesAccepted'
    BY <1>2 DEF LoneInv, Fields, PatchesAccepted, Underway, Sitting, PatchCount, NoPatch, Accepts,
                MergedOpens, MergedCloses
  <2>2. UNCHANGED <<assignment, rows, page, crossed>>
    BY <1>2 DEF PatchCount
  <2>3. QED
    BY <2>1, <2>2 DEF LoneInv, PagesAgree, Loaded, Sitting
<1>3. CASE PatchWrite(t)
  <2>1. Fields' /\ PatchesAccepted'
    BY <1>3 DEF LoneInv, Fields, PatchesAccepted, Underway, Sitting, PatchWrite, NoPatch, Accepts,
                MergedOpens, MergedCloses
  <2>2. UNCHANGED <<rows, page>> /\ crossed' = (crossed \/ Unseen(t))
    BY <1>3 DEF PatchWrite
  <2>3. ASSUME ~crossed'
        PROVE  /\ CanOpen(assignment.opens, assignment.closes)'
               /\ assignment'.minutes = WindowMinutesBetween(assignment'.opens, assignment'.closes)
               /\ PagesAgree'
    <3>1. ~crossed /\ ~Unseen(t) /\ patch[t].row = assignment
      BY <2>2, <2>3 DEF LoneInv, Unseen
    <3>2. assignment' = Patched(patch[t].body, assignment, assignment)
      BY <1>3, <3>1 DEF PatchWrite
    <3>3. Accepts(patch[t].body, assignment)
      BY <1>3, <3>1 DEF LoneInv, PatchesAccepted, PatchWrite, Underway
    <3>4. /\ CanOpen(assignment'.opens, assignment'.closes)
          /\ assignment'.minutes = WindowMinutesBetween(assignment'.opens, assignment'.closes)
      BY <3>2, <3>3, PatchedIsMerged DEF Accepts
    <3>5. CASE ChangesTasks(patch[t].body, assignment)
      <4>1. rows = <<>> /\ \A s \in Student : page[s].at \notin {"listed", "opening"}
        BY <3>1, <3>5 DEF Unseen
      <4>2. QED
        BY <2>2, <3>1, <3>4, <4>1 DEF LoneInv, PagesAgree, Loaded, Sitting, CanOpen
    <3>6. CASE ~ChangesTasks(patch[t].body, assignment)
      <4>1. assignment'.tasks = assignment.tasks
        BY <3>2, <3>6 DEF Patched
      <4>2. QED
        BY <2>2, <3>1, <3>4, <4>1 DEF LoneInv, PagesAgree, Loaded, Sitting, CanOpen
    <3>7. QED
      BY <3>5, <3>6
  <2>4. QED
    BY <2>1, <2>2, <2>3 DEF LoneInv
<1>4. QED
  BY <1>1, <1>2, <1>3

\* The actions of a page but Tick; each replaces the record of one page.
PageStep(s) ==
    \/ Join(s) \/ (\E ip \in Hosts : Arrive(s, ip)) \/ OpenRead(s) \/ OpenCommit(s)
    \/ AskRestore(s) \/ (\E offset \in Offsets : Mount(s, offset))
    \/ CountdownEnds(s) \/ ClickSubmit(s) \/ Flush(s)
    \/ SubmitCheck(s) \/ SubmitWrite(s) \/ Leave(s)

\* One page changed: it has the tasks it had, or those of the exam.
Replaced(s) ==
    /\ page' = [page EXCEPT ![s] = page'[s]]
    /\ "at" \in DOMAIN page'[s]
    /\ Sitting(s)' => "tasks" \in DOMAIN page'[s]
    /\ Loaded(s)' => page'[s].tasks = assignment.tasks \/ (Loaded(s) /\ page'[s].tasks = page[s].tasks)

LEMMA LoneReplaced ==
    ASSUME LoneInv, NEW s \in Student, Replaced(s), UNCHANGED <<assignment, patch, crossed>>,
           rows' \in Seq(Row), rows # <<>> => rows' # <<>>,
           ~crossed /\ Sitting(s)' => rows' # <<>>
    PROVE  LoneInv'
<1>1. \A q \in Student : q # s => page'[q] = page[q]
  BY DEF LoneInv, Fields, Replaced
<1>2. Fields'
  BY <1>1 DEF LoneInv, Fields, Replaced, Sitting
<1>3. PatchesAccepted'
  BY DEF LoneInv, PatchesAccepted, Underway, Accepts, MergedOpens, MergedCloses
<1>4. ~crossed => PagesAgree'
  BY <1>1 DEF LoneInv, PagesAgree, Loaded, Sitting, Replaced, Sitting
<1>5. QED
  BY <1>2, <1>3, <1>4 DEF LoneInv, CanOpen

LEMMA MarkedRows ==
    ASSUME rows \in Seq(Row), NEW r, NEW worked \in BOOLEAN,
           NEW status \in {"IN_PROGRESS", "SUBMITTED"}
    PROVE  /\ [rows EXCEPT ![r].worked = worked] \in Seq(Row)
           /\ [rows EXCEPT ![r].status = status] \in Seq(Row)
           /\ rows # <<>> => /\ [rows EXCEPT ![r].worked = worked] # <<>>
                             /\ [rows EXCEPT ![r].status = status] # <<>>
<1>1. rows \in [1..Len(rows) -> Row] /\ Len(rows) \in Nat
  OBVIOUS
<1>2. ASSUME NEW q \in [1..Len(rows) -> Row]
      PROVE  q \in Seq(Row) /\ (rows # <<>> => q # <<>>)
  <2>1. q \in Seq(Row) /\ Len(q) = Len(rows)
    BY <1>1
  <2>2. QED
    BY <2>1, EmptySeq
<1>3. /\ [rows EXCEPT ![r].worked = worked] \in [1..Len(rows) -> Row]
      /\ [rows EXCEPT ![r].status = status] \in [1..Len(rows) -> Row]
  BY <1>1 DEF Row
<1>4. QED
  BY <1>2, <1>3

LEMMA LonePage ==
    ASSUME LoneInv, NEW s \in Student, PageStep(s)
    PROVE  LoneInv'
<1>0. /\ rows \in Seq(Row) /\ (~crossed /\ Sitting(s) => rows # <<>>)
      /\ DOMAIN page = Student
  BY DEF LoneInv, PagesAgree, Fields
<1>1. CASE Join(s)
  BY <1>1 DEF LoneInv, Join, Fields, PatchesAccepted, Underway, PagesAgree, Loaded, Sitting,
              Accepts, MergedOpens, MergedCloses, CanOpen
<1>2. ASSUME NEW ip \in Hosts, Arrive(s, ip) PROVE LoneInv'
  <2>1. Replaced(s) /\ page'[s].at \in {"blocked", "locked", "listed"}
    BY <1>0, <1>2 DEF Arrive, Guarded, Replaced, Loaded, Sitting
  <2>2. QED
    BY <1>0, <1>2, <2>1, LoneReplaced DEF Arrive, Sitting
<1>3. CASE OpenRead(s)
  <2>1. Replaced(s) /\ page'[s].at \in {"blocked", "opening"}
    BY <1>0, <1>3 DEF OpenRead, Guarded, Replaced, Loaded, Sitting
  <2>2. QED
    BY <1>0, <1>3, <2>1, LoneReplaced DEF OpenRead, Sitting
<1>4. CASE OpenCommit(s)
  <2>1. Replaced(s)
    BY <1>0, <1>4 DEF OpenCommit, Replaced, Loaded, Sitting
  <2>2. rows' \in Seq(Row) /\ rows' # <<>>
    <3>1. CASE RowsOf(s) = {}
      BY <1>0, <1>4, <3>1 DEF OpenCommit, Row
    <3>2. CASE RowsOf(s) # {}
      BY <1>0, <1>4, <3>2 DEF OpenCommit, RowsOf
    <3>3. QED
      BY <3>1, <3>2
  <2>3. QED
    BY <1>4, <2>1, <2>2, LoneReplaced DEF OpenCommit, Sitting
<1>5. ASSUME AskRestore(s) \/ \E offset \in Offsets : Mount(s, offset) PROVE LoneInv'
  <2>1. Sitting(s) /\ UNCHANGED <<assignment, rows, patch, crossed>>
    BY <1>5 DEF AskRestore, Mount, Sitting
  <2>2. "at" \in DOMAIN page[s] /\ "tasks" \in DOMAIN page[s]
    BY <2>1 DEF LoneInv, Fields
  <2>3. Replaced(s)
    <3>1. CASE AskRestore(s)
      <4>1. page' = [page EXCEPT ![s] = [page[s] EXCEPT !.at = "restoring", !.wait = 0]]
        BY <1>0, <3>1 DEF AskRestore
      <4>2. page'[s] = [page[s] EXCEPT !.at = "restoring", !.wait = 0]
        BY <1>0, <4>1
      <4>3. DOMAIN page'[s] = DOMAIN page[s] /\ page'[s].tasks = page[s].tasks
        BY <2>2, <4>2
      <4>4. page' = [page EXCEPT ![s] = page'[s]]
        BY <4>1, <4>2
      <4>5. QED
        BY <2>1, <2>2, <4>3, <4>4 DEF Replaced, Loaded
    <3>2. ASSUME NEW offset \in Offsets, Mount(s, offset) PROVE Replaced(s)
      BY <1>0, <2>1, <3>2 DEF Mount, Replaced, Loaded
    <3>3. QED
      BY <1>5, <3>1, <3>2
  <2>4. QED
    BY <1>0, <2>1, <2>3, LoneReplaced
<1>6. CASE CountdownEnds(s) \/ ClickSubmit(s)
  <2>1. Replaced(s)
    BY <1>0, <1>6 DEF CountdownEnds, ClickSubmit, HandIn, TimeUp, Replaced, Loaded, Sitting
  <2>2. Sitting(s)
    BY <1>6 DEF CountdownEnds, ClickSubmit, TimeUp, Sitting
  <2>3. QED
    BY <1>0, <1>6, <2>1, <2>2, LoneReplaced DEF CountdownEnds, ClickSubmit
<1>7. CASE Flush(s)
  <2>1. rows' \in Seq(Row) /\ (rows # <<>> => rows' # <<>>)
    BY <1>0, <1>7, MarkedRows DEF Flush
  <2>2. UNCHANGED <<assignment, patch, page, crossed>>
    BY <1>7 DEF Flush
  <2>3. QED
    BY <2>1, <2>2 DEF LoneInv, Fields, PatchesAccepted, Underway, PagesAgree, Loaded, Sitting,
                      Accepts, MergedOpens, MergedCloses, CanOpen
<1>8. CASE SubmitCheck(s)
  <2>1. Replaced(s) /\ page'[s].at \in {"accepted", "refused"}
    BY <1>0, <1>8 DEF SubmitCheck, Replaced, Loaded, Sitting
  <2>2. QED
    BY <1>0, <1>8, <2>1, LoneReplaced DEF SubmitCheck, Sitting
<1>9. CASE SubmitWrite(s)
  <2>1. rows' \in Seq(Row) /\ (rows # <<>> => rows' # <<>>)
    BY <1>0, <1>9, MarkedRows DEF SubmitWrite
  <2>2. Replaced(s) /\ page'[s].at = "locked"
    BY <1>0, <1>9 DEF SubmitWrite, Replaced, Loaded, Sitting
  <2>3. QED
    BY <1>9, <2>1, <2>2, LoneReplaced DEF SubmitWrite, Sitting
<1>10. CASE Leave(s)
  <2>1. Replaced(s) /\ page'[s].at = "away"
    BY <1>0, <1>10 DEF Leave, Replaced, Away, Loaded, Sitting
  <2>2. QED
    BY <1>0, <1>10, <2>1, LoneReplaced DEF Leave, Sitting
<1>11. QED
  BY <1>1, <1>2, <1>3, <1>4, <1>5, <1>6, <1>7, <1>8, <1>9, <1>10 DEF PageStep

LEMMA LoneTick == ASSUME LoneInv, Tick PROVE LoneInv'
<1>1. \A s \in Student : page'[s] = page[s] \/ page'[s] = [page[s] EXCEPT !.wait = @ + 1]
  BY DEF Tick
<1>2. \A s \in Student :
        /\ DOMAIN page'[s] = DOMAIN page[s]
        /\ \A field \in DOMAIN page[s] : field # "wait" => page'[s][field] = page[s][field]
  BY <1>1
<1>3. \A s \in Student : page'[s].at = page[s].at
  BY <1>2 DEF LoneInv, Fields
<1>4. \A s \in Student : Sitting(s) => page'[s].tasks = page[s].tasks
  BY <1>2 DEF LoneInv, Fields
<1>5. Fields'
  BY <1>2, <1>3 DEF Tick, LoneInv, Fields, Sitting
<1>6. \A s \in Student : page[s].at \in {"listed", "opening"} => page'[s] = page[s]
  BY DEF Tick, TimeUp, Waiting
<1>7. ~crossed => PagesAgree'
  BY <1>3, <1>4, <1>6 DEF Tick, LoneInv, PagesAgree, Loaded, Sitting
<1>8. QED
  BY <1>5, <1>7 DEF Tick, LoneInv, PatchesAccepted, Underway, CanOpen, Accepts, MergedOpens,
                    MergedCloses

\* However many instructors and students there are, a PATCH that meets no other
\* and no opening page leaves a window that can open, the duration of its own
\* instants, and no page with the tasks of another exam.
THEOREM LonePatchSafe == Spec => []LonePatchIsSafe
<1>1. LoneInv /\ [Next]_vars => LoneInv'
  <2> SUFFICES ASSUME LoneInv, [Next]_vars PROVE LoneInv'
    OBVIOUS
  <2>1. ASSUME NEW pol \in Policies, PutNetwork(pol) PROVE LoneInv'
    BY <2>1 DEF PutNetwork, LoneInv, Fields, PatchesAccepted, Underway, PagesAgree, Loaded,
                Sitting, CanOpen, Accepts, MergedOpens, MergedCloses
  <2>2. CASE UNCHANGED vars
    BY <2>2 DEF vars, LoneInv, Fields, PatchesAccepted, Underway, PagesAgree, Loaded,
                Sitting, CanOpen, Accepts, MergedOpens, MergedCloses
  <2>3. QED
    BY <2>1, <2>2, LonePatch, LonePage, LoneTick DEF Next, PageStep
<1>2. LoneInv => LonePatchIsSafe
  BY DEF LoneInv, LonePatchIsSafe, PagesAgree, Loaded, Sitting
<1>3. QED
  BY <1>1, <1>2, LoneInit, PTL DEF Spec

-----------------------------------------------------------------------------
(***************************************************************************)
(* The countdown.  How late its request can be is added up along the way:  *)
(* the answer that sets the skew is at most MaxDelay old, twice that after *)
(* a restore, the countdown acts within one tick, and the request takes at *)
(* most MaxDelay.                                                          *)
(***************************************************************************)
StoredInstants ==
    /\ now \in Nat
    /\ {assignment.opens, assignment.closes} \subseteq Instant
    /\ DOMAIN patch = Tab
    /\ \A t \in Tab :
          Underway(t) => /\ DOMAIN patch[t] = {"at", "body", "row"}
                         /\ patch[t].body \in Bodies
                         /\ {patch[t].row.opens, patch[t].row.closes} \subseteq Instant

OpeningInv(p) == p.at = "opening" => {p.opens, p.closes} \subseteq Instant

AnsweredInv(p, n) ==
    p.at \in {"answered", "restoring"} =>
        /\ DOMAIN p = {"at", "tasks", "serverNow", "wait", "resumed", "row", "deadline"}
        /\ p.serverNow \in Nat /\ p.wait \in 0..MaxDelay /\ p.deadline \in Instant
        /\ p.serverNow <= n
        /\ n <= p.serverNow + p.wait + IF p.at = "restoring" THEN MaxDelay ELSE 0

\* The clock of the page, corrected, is at most 2 * MaxDelay behind the server's.
ExamInv(p, n) ==
    p.at = "exam" =>
        /\ DOMAIN p = {"at", "tasks", "row", "deadline", "offset", "skew", "wait", "ample"}
        /\ p.deadline \in Instant /\ p.offset \in Int /\ p.skew \in Int
        /\ p.wait \in 0..1
        /\ -(2 * MaxDelay) <= p.offset + p.skew /\ p.offset + p.skew <= 0
        /\ p.ample /\ p.deadline # None => n + p.offset + p.skew <= p.deadline - Lead + p.wait
        /\ p.wait = 1 => p.deadline # None /\ p.deadline - (n + p.offset + p.skew) <= Lead

SubmittingInv(p, n) ==
    p.at = "submitting" =>
        /\ DOMAIN p = {"at", "row", "tasks", "wait", "deadline", "promised"}
        /\ p.wait \in 0..MaxDelay /\ p.deadline \in Instant
        /\ p.promised => p.deadline # None /\ n <= p.deadline - Lead + 2 * MaxDelay + 1 + p.wait

RefusedInv(p) ==
    p.at = "refused" /\ p.state = "closed" /\ p.promised => p.told # p.deadline

PageInv(p, n) ==
    /\ "at" \in DOMAIN p
    /\ OpeningInv(p) /\ AnsweredInv(p, n) /\ ExamInv(p, n) /\ SubmittingInv(p, n) /\ RefusedInv(p)

TimeInv ==
    /\ StoredInstants
    /\ DOMAIN page = Student
    /\ \A s \in Student : PageInv(page[s], now)

LEMMA Bounds ==
    /\ None \notin Nat /\ MinuteTicks \in Nat \ {0}
    /\ MaxDelay \in Nat /\ Lead \in Nat /\ 3 * MaxDelay + 1 <= Lead
    /\ Instants \subseteq Nat /\ Offsets \subseteq Int
    /\ Keep \notin Nat \cup {None}
    /\ \A body \in Bodies : /\ body.opens \in Nat \cup {None, Keep}
                            /\ body.closes \in Nat \cup {None, Keep}
                            /\ body.minutes \in Nat \cup {Keep}
  BY WindowAssumption, LeadAssumption, CourseAssumption

LEMMA EffectiveCloseIsInstant ==
    ASSUME NEW opens \in Instant, NEW closes \in Instant
    PROVE  EffectiveClose(opens, closes) \in Instant
  BY DEF EffectiveClose, Instant

LEMMA ClosedIsLate ==
    ASSUME NEW opens \in Instant, NEW closes \in Instant, NEW n \in Nat,
           WindowState(opens, closes, n) = "closed"
    PROVE  LET close == EffectiveClose(opens, closes) IN close \in Nat /\ n > close
<1>1. EffectiveClose(opens, closes) \in Instant
  BY EffectiveCloseIsInstant
<1>2. QED
  BY <1>1, Bounds DEF WindowState, Instant

LEMMA MergedIsInstant ==
    ASSUME NEW body \in Bodies, NEW row, row.opens \in Instant, row.closes \in Instant
    PROVE  MergedOpens(body, row) \in Instant /\ MergedCloses(body, row) \in Instant
<1>1. MergedOpens(body, row) \in Instant
  BY Bounds DEF MergedOpens, Sent, Instant
<1>2. ASSUME NEW opens \in Nat, NEW minutes \in Nat
      PROVE  opens + minutes * MinuteTicks \in Nat
  BY Bounds
<1>3. CASE body.closes = Keep /\ body.minutes # Keep
  <2>1. body.minutes \in Nat
    BY <1>3, Bounds
  <2>2. ClosesAtFrom(MergedOpens(body, row), body.minutes) \in Instant
    BY <1>1, <1>2, <2>1, Bounds DEF ClosesAtFrom, Instant
  <2>3. QED
    BY <1>1, <1>3, <2>2 DEF MergedCloses
<1>4. CASE ~(body.closes = Keep /\ body.minutes # Keep)
  BY <1>1, <1>4, Bounds DEF MergedCloses, Sent, Instant
<1>5. QED
  BY <1>3, <1>4

LEMMA TimeInit == Init => TimeInv
<1> SUFFICES ASSUME Init PROVE TimeInv
  OBVIOUS
<1>1. StoredInstants
  BY Bounds DEF Init, StoredInstants, Stored, Underway, NoPatch, Instant
<1>2. QED
  BY <1>1 DEF Init, TimeInv, PageInv, OpeningInv, AnsweredInv, ExamInv, SubmittingInv, RefusedInv, Away

LEMMA TimePatch ==
    ASSUME TimeInv, NEW t \in Tab,
           \/ \E body \in Bodies : PatchRead(t, body)
           \/ PatchCount(t)
           \/ PatchWrite(t)
    PROVE  TimeInv'
<1>1. UNCHANGED <<now, page>>
  BY DEF PatchRead, PatchCount, PatchWrite
<1>2. ASSUME NEW body \in Bodies, PatchRead(t, body) PROVE StoredInstants'
  BY <1>2 DEF TimeInv, StoredInstants, PatchRead, Underway
<1>3. CASE PatchCount(t)
  BY <1>3 DEF TimeInv, StoredInstants, PatchCount, Underway, NoPatch
<1>4. CASE PatchWrite(t)
  <2>1. {assignment'.opens, assignment'.closes} \subseteq Instant
    <3>1. /\ patch[t].body \in Bodies
          /\ patch[t].row.opens \in Instant /\ patch[t].row.closes \in Instant
          /\ assignment.opens \in Instant /\ assignment.closes \in Instant
      BY <1>4 DEF TimeInv, StoredInstants, PatchWrite, Underway
    <3>2. MergedCloses(patch[t].body, patch[t].row) \in Instant
      BY <3>1, MergedIsInstant
    <3>3. QED
      BY <1>4, <3>1, <3>2, Bounds DEF PatchWrite, Patched, Instant
  <2>2. StoredInstants'
    BY <1>4, <2>1 DEF TimeInv, StoredInstants, PatchWrite, Underway, NoPatch
  <2>3. QED
    BY <1>1, <2>2 DEF TimeInv
<1>5. QED
  BY <1>1, <1>2, <1>3, <1>4 DEF TimeInv

LEMMA TimeReplaced ==
    ASSUME TimeInv, NEW s \in Student, page' = [page EXCEPT ![s] = page'[s]],
           UNCHANGED <<now, assignment, patch>>, PageInv(page[s], now)', DOMAIN page = Student
    PROVE  TimeInv'
<1>1. StoredInstants'
  BY DEF TimeInv, StoredInstants, Underway
<1>2. \A q \in Student : q # s => page'[q] = page[q]
  OBVIOUS
<1>3. QED
  BY <1>1, <1>2 DEF TimeInv

\* A state of a page that no part of the invariant speaks of.
LEMMA ElsewhereIsTimed ==
    ASSUME NEW p, NEW n, "at" \in DOMAIN p,
           p.at \notin {"opening", "answered", "restoring", "exam", "submitting", "refused"}
    PROVE  PageInv(p, n)
  BY DEF PageInv, OpeningInv, AnsweredInv, ExamInv, SubmittingInv, RefusedInv

LEMMA TimeAskRestore ==
    ASSUME TimeInv, NEW s \in Student, AskRestore(s)
    PROVE  PageInv(page[s], now)'
<1>1. /\ DOMAIN page[s] = {"at", "tasks", "serverNow", "wait", "resumed", "row", "deadline"}
      /\ page[s].serverNow \in Nat /\ page[s].wait \in 0..MaxDelay /\ page[s].deadline \in Instant
      /\ page[s].serverNow <= now /\ now <= page[s].serverNow + page[s].wait + 0 /\ now \in Nat
  BY DEF TimeInv, PageInv, AnsweredInv, AskRestore, StoredInstants
<1>2. now' = now /\ page'[s] = [page[s] EXCEPT !.at = "restoring", !.wait = 0]
  BY DEF AskRestore, TimeInv
<1>3. /\ DOMAIN page'[s] = {"at", "tasks", "serverNow", "wait", "resumed", "row", "deadline"}
      /\ page'[s].at = "restoring" /\ page'[s].wait = 0
      /\ page'[s].serverNow = page[s].serverNow /\ page'[s].deadline = page[s].deadline
  BY <1>1, <1>2
<1>4. AnsweredInv(page'[s], now)
  BY <1>1, <1>3, Bounds DEF AnsweredInv
<1>5. QED
  BY <1>2, <1>3, <1>4 DEF PageInv, OpeningInv, ExamInv, SubmittingInv, RefusedInv

LEMMA TimeMount ==
    ASSUME TimeInv, NEW s \in Student, NEW offset \in Offsets, Mount(s, offset)
    PROVE  PageInv(page[s], now)'
<1>1. /\ page[s].serverNow \in Nat /\ page[s].deadline \in Instant /\ now \in Nat
      /\ page[s].serverNow <= now /\ now <= page[s].serverNow + 2 * MaxDelay
  <2>1. /\ page[s].serverNow \in Nat /\ page[s].wait \in 0..MaxDelay /\ page[s].deadline \in Instant
        /\ page[s].serverNow <= now /\ now \in Nat
        /\ now <= page[s].serverNow + page[s].wait + IF page[s].at = "restoring" THEN MaxDelay ELSE 0
    BY DEF TimeInv, PageInv, AnsweredInv, Mount, StoredInstants
  <2>2. QED
    BY <2>1, Bounds
<1>2. /\ now' = now /\ DOMAIN page = Student
      /\ page'[s] = [at |-> "exam", tasks |-> page[s].tasks, row |-> page[s].row,
                     deadline |-> page[s].deadline, offset |-> offset,
                     skew |-> page[s].serverNow - (now + offset), wait |-> 0,
                     ample |-> IF page[s].deadline = None THEN TRUE
                                                          ELSE now <= page[s].deadline - Lead]
  BY DEF Mount, Skew, TimeInv
<1>3. offset + (page[s].serverNow - (now + offset)) = page[s].serverNow - now
  BY <1>1, Bounds
<1>4. ExamInv(page'[s], now)
  <2> DEFINE skew == page[s].serverNow - (now + offset)
  <2>1. offset \in Int /\ skew \in Int /\ now \in Int
    BY <1>1, Bounds
  <2>2. -(2 * MaxDelay) <= offset + skew /\ offset + skew <= 0
    BY <1>1, <1>3, Bounds
  <2>3. page[s].deadline # None /\ now <= page[s].deadline - Lead
          => now + offset + skew <= page[s].deadline - Lead + 0
    BY <1>1, <2>1, <2>2, Bounds DEF Instant
  <2>4. /\ DOMAIN page'[s] = {"at", "tasks", "row", "deadline", "offset", "skew", "wait", "ample"}
        /\ page'[s].deadline = page[s].deadline /\ page'[s].offset = offset
        /\ page'[s].skew = skew /\ page'[s].wait = 0
    BY <1>2
  <2>5. page'[s].ample => page[s].deadline = None \/ now <= page[s].deadline - Lead
    <3>1. page'[s].ample
            = IF page[s].deadline = None THEN TRUE ELSE now <= page[s].deadline - Lead
      BY <1>2
    <3>2. QED
      BY <3>1, Zenon
  <2> HIDE DEF skew
  <2>6. QED
    BY <1>1, <2>1, <2>2, <2>3, <2>4, <2>5 DEF ExamInv
<1>5. QED
  BY <1>2, <1>4 DEF PageInv, OpeningInv, AnsweredInv, SubmittingInv, RefusedInv

LEMMA TimeHandIn ==
    ASSUME TimeInv, NEW s \in Student, CountdownEnds(s) \/ ClickSubmit(s)
    PROVE  PageInv(page[s], now)'
<1>1. /\ page[s].at = "exam" /\ ExamInv(page[s], now) /\ now' = now /\ now \in Nat
      /\ DOMAIN page = Student
  BY DEF CountdownEnds, ClickSubmit, TimeUp, TimeInv, PageInv, StoredInstants
<1>2. PICK auto \in BOOLEAN :
        /\ auto => page[s].deadline # None
        /\ page'[s] = [at |-> "submitting", row |-> page[s].row, tasks |-> page[s].tasks,
                       wait |-> 0, deadline |-> page[s].deadline,
                       promised |-> auto /\ page[s].ample]
  <2>1. CASE CountdownEnds(s)
    BY <1>1, <2>1 DEF CountdownEnds, HandIn, TimeUp
  <2>2. CASE ClickSubmit(s)
    BY <1>1, <2>2 DEF ClickSubmit, HandIn
  <2>3. QED
    BY <2>1, <2>2
<1>3. SubmittingInv(page'[s], now)
  <2>1. page'[s].promised = (auto /\ page[s].ample)
    BY <1>2
  <2>2. page'[s].promised => auto /\ page[s].ample
    BY <2>1, Zenon
  <2>3. /\ DOMAIN page'[s] = {"at", "row", "tasks", "wait", "deadline", "promised"}
        /\ page'[s].wait = 0 /\ page'[s].deadline = page[s].deadline
    BY <1>2
  <2>4. QED
    BY <1>1, <1>2, <2>2, <2>3, Bounds DEF ExamInv, SubmittingInv, Instant
<1>4. QED
  BY <1>1, <1>2, <1>3 DEF PageInv, OpeningInv, AnsweredInv, ExamInv, RefusedInv

LEMMA TimeSubmitCheck ==
    ASSUME TimeInv, NEW s \in Student, SubmitCheck(s)
    PROVE  PageInv(page[s], now)'
<1> DEFINE state == WindowState(assignment.opens, assignment.closes, now)
<1> DEFINE close == EffectiveClose(assignment.opens, assignment.closes)
<1>1. /\ SubmittingInv(page[s], now) /\ page[s].at = "submitting" /\ DOMAIN page = Student
      /\ now \in Nat /\ assignment.opens \in Instant /\ assignment.closes \in Instant
  BY DEF TimeInv, PageInv, StoredInstants, SubmitCheck
<1>2. CASE IsSubmitAllowed(state)
  BY <1>1, <1>2, ElsewhereIsTimed DEF SubmitCheck
<1>3. CASE ~IsSubmitAllowed(state)
  <2>1. page'[s] = [at |-> "refused", state |-> state, promised |-> page[s].promised,
                    deadline |-> page[s].deadline, told |-> close]
    BY <1>1, <1>3 DEF SubmitCheck
  <2>2. state = "closed" /\ page[s].promised => close # page[s].deadline
    <3>1. state = "closed" => close \in Nat /\ now > close
      BY <1>1, ClosedIsLate
    <3> HIDE DEF state, close
    <3>2. QED
      BY <1>1, <3>1, Bounds DEF SubmittingInv, Instant
  <2>3. QED
    BY <2>1, <2>2 DEF PageInv, OpeningInv, AnsweredInv, ExamInv, SubmittingInv, RefusedInv
<1>4. QED
  BY <1>2, <1>3

LEMMA TimePage ==
    ASSUME TimeInv, NEW s \in Student, PageStep(s)
    PROVE  TimeInv'
<1>0. DOMAIN page = Student
  BY DEF TimeInv
<1>1. CASE Join(s) \/ Flush(s)
  BY <1>1 DEF Join, Flush, TimeInv, StoredInstants, Underway
<1>2. ASSUME NEW ip \in Hosts, Arrive(s, ip) PROVE TimeInv'
  <2>1. PageInv(page[s], now)'
    BY <1>0, <1>2, ElsewhereIsTimed DEF Arrive, Guarded
  <2>2. QED
    BY <1>0, <1>2, <2>1, TimeReplaced DEF Arrive, Guarded
<1>3. CASE OpenRead(s)
  <2>1. assignment.opens \in Instant /\ assignment.closes \in Instant
    BY DEF TimeInv, StoredInstants
  <2>2. PageInv(page[s], now)'
    BY <1>0, <1>3, <2>1 DEF OpenRead, Guarded, PageInv, OpeningInv, AnsweredInv, ExamInv,
                            SubmittingInv, RefusedInv
  <2>3. QED
    BY <1>0, <1>3, <2>2, TimeReplaced DEF OpenRead, Guarded
<1>4. CASE OpenCommit(s)
  <2>1. EffectiveClose(page[s].opens, page[s].closes) \in Instant /\ now \in Nat
    BY <1>4, EffectiveCloseIsInstant DEF OpenCommit, TimeInv, PageInv, OpeningInv, StoredInstants
  <2>2. now' = now /\ (\/ page'[s] = [at |-> "locked"]
                       \/ \E row : page'[s] = [at |-> "answered", tasks |-> page[s].tasks,
                             serverNow |-> now, wait |-> 0,
                             resumed |-> RowsOf(s) # {}, row |-> row,
                             deadline |-> EffectiveClose(page[s].opens, page[s].closes)])
    BY <1>0, <1>4 DEF OpenCommit
  <2>3. PageInv(page[s], now)'
    <3>1. CASE page'[s] = [at |-> "locked"]
      BY <3>1, ElsewhereIsTimed
    <3>2. ASSUME NEW row,
                 page'[s] = [at |-> "answered", tasks |-> page[s].tasks, serverNow |-> now,
                             wait |-> 0, resumed |-> RowsOf(s) # {}, row |-> row,
                             deadline |-> EffectiveClose(page[s].opens, page[s].closes)]
          PROVE  PageInv(page'[s], now')
      <4>1. AnsweredInv(page'[s], now')
        BY <2>1, <2>2, <3>2, Bounds DEF AnsweredInv
      <4>2. QED
        BY <3>2, <4>1 DEF PageInv, OpeningInv, ExamInv, SubmittingInv, RefusedInv
    <3>3. QED
      BY <2>2, <3>1, <3>2
  <2>4. QED
    BY <1>0, <1>4, <2>3, TimeReplaced DEF OpenCommit
<1>5. CASE AskRestore(s) \/ \E offset \in Offsets : Mount(s, offset)
  <2>1. PageInv(page[s], now)'
    BY <1>5, TimeAskRestore, TimeMount
  <2>2. page' = [page EXCEPT ![s] = page'[s]] /\ UNCHANGED <<now, assignment, patch>>
    BY <1>0, <1>5 DEF AskRestore, Mount
  <2>3. QED
    BY <1>0, <2>1, <2>2, TimeReplaced
<1>6. CASE CountdownEnds(s) \/ ClickSubmit(s)
  <2>1. PageInv(page[s], now)'
    BY <1>6, TimeHandIn
  <2>2. QED
    BY <1>0, <1>6, <2>1, TimeReplaced DEF CountdownEnds, ClickSubmit, HandIn
<1>7. CASE SubmitCheck(s)
  <2>1. PageInv(page[s], now)'
    BY <1>7, TimeSubmitCheck
  <2>2. QED
    BY <1>0, <1>7, <2>1, TimeReplaced DEF SubmitCheck
<1>8. CASE SubmitWrite(s) \/ Leave(s)
  <2>1. PageInv(page[s], now)'
    BY <1>0, <1>8, ElsewhereIsTimed DEF SubmitWrite, Leave, Away
  <2>2. QED
    BY <1>0, <1>8, <2>1, TimeReplaced DEF SubmitWrite, Leave, Away
<1>9. QED
  BY <1>1, <1>2, <1>3, <1>4, <1>5, <1>6, <1>7, <1>8 DEF PageStep

LEMMA TimeTick == ASSUME TimeInv, Tick PROVE TimeInv'
<1>1. StoredInstants'
  BY Bounds DEF Tick, TimeInv, StoredInstants, Underway
<1>2. DOMAIN page' = Student /\ now' = now + 1 /\ now \in Nat
  BY DEF Tick, TimeInv, StoredInstants
<1>3. ASSUME NEW s \in Student PROVE PageInv(page'[s], now')
  <2>1. PageInv(page[s], now)
    BY DEF TimeInv
  <2>2. CASE Waiting(page[s]) \/ TimeUp(s)
    <3>1. /\ page'[s] = [page[s] EXCEPT !.wait = page[s].wait + 1]
          /\ Waiting(page[s]) => page[s].wait < MaxDelay
          /\ TimeUp(s) => page[s].wait = 0
      BY <2>2 DEF Tick
    <3>2. /\ DOMAIN page'[s] = DOMAIN page[s]
          /\ \A field \in DOMAIN page[s] :
                page'[s][field] = IF field = "wait" THEN page[s].wait + 1 ELSE page[s][field]
      BY <3>1
    <3>3. "at" \in DOMAIN page'[s] /\ page'[s].at = page[s].at
      BY <2>1, <3>2 DEF PageInv
    <3>4. CASE page[s].at \in {"answered", "restoring"}
      <4>1. page[s].wait < MaxDelay
        BY <3>1, <3>4 DEF Waiting
      <4>2. AnsweredInv(page'[s], now')
        BY <1>2, <2>1, <3>2, <3>4, <4>1, Bounds DEF PageInv, AnsweredInv
      <4>3. QED
        BY <3>3, <3>4, <4>2 DEF PageInv, OpeningInv, ExamInv, SubmittingInv, RefusedInv
    <3>5. CASE page[s].at = "submitting"
      <4>1. SubmittingInv(page'[s], now')
        BY <1>2, <2>1, <3>1, <3>2, <3>5, Bounds DEF PageInv, SubmittingInv, Instant, Waiting
      <4>2. QED
        BY <3>3, <3>5, <4>1 DEF PageInv, OpeningInv, ExamInv, AnsweredInv, RefusedInv
    <3>6. CASE page[s].at = "exam"
      <4>1. TimeUp(s)
        BY <2>2, <3>6 DEF Waiting
      <4>2. ExamInv(page'[s], now')
        BY <1>2, <2>1, <3>1, <3>2, <3>6, <4>1, Bounds
           DEF PageInv, ExamInv, TimeUp, Left, LeadTime, Instant
      <4>3. QED
        BY <3>3, <3>6, <4>2 DEF PageInv, OpeningInv, AnsweredInv, SubmittingInv, RefusedInv
    <3>7. CASE page[s].at = "accepted"
      BY <3>3, <3>7, ElsewhereIsTimed
    <3>8. QED
      BY <2>2, <3>4, <3>5, <3>6, <3>7 DEF TimeUp, Waiting
  <2>3. CASE ~(Waiting(page[s]) \/ TimeUp(s))
    <3>1. page'[s] = page[s]
      BY <2>3 DEF Tick
    <3>2. ExamInv(page[s], now')
      BY <1>2, <2>1, <2>3, Bounds DEF PageInv, ExamInv, TimeUp, Left, LeadTime, Instant
    <3>3. QED
      BY <2>1, <2>3, <3>1, <3>2 DEF PageInv, OpeningInv, AnsweredInv, SubmittingInv, RefusedInv, Waiting
  <2>4. QED
    BY <2>2, <2>3
<1>4. QED
  BY <1>1, <1>2, <1>3 DEF TimeInv

\* Whatever the clocks of the pages and however the schedule moves meanwhile, a
\* countdown that started in time is only refused as late by a close other than
\* the one it counted to.
THEOREM CountdownInTime == Spec => []CountdownIsInTime
<1>1. TimeInv /\ [Next]_vars => TimeInv'
  <2> SUFFICES ASSUME TimeInv, [Next]_vars PROVE TimeInv'
    OBVIOUS
  <2>1. ASSUME NEW pol \in Policies, PutNetwork(pol) PROVE TimeInv'
    BY <2>1 DEF PutNetwork, TimeInv, StoredInstants, Underway
  <2>2. CASE UNCHANGED vars
    BY <2>2 DEF vars, TimeInv, StoredInstants, Underway
  <2>3. QED
    BY <2>1, <2>2, TimePatch, TimePage, TimeTick DEF Next, PageStep
<1>2. TimeInv => CountdownIsInTime
  BY DEF TimeInv, PageInv, RefusedInv, CountdownIsInTime
<1>3. QED
  BY <1>1, <1>2, TimeInit, PTL DEF Spec

-----------------------------------------------------------------------------
(***************************************************************************)
(* The roster.  The rows of one student are of one kind, so a member's     *)
(* tile takes all of them and nobody's rows are left for a second tile;    *)
(* and an empty row that was handed in is the last of its student's empty  *)
(* ones, because the page holds the most real row there was when it        *)
(* opened, and no page gets a row while its student has one.               *)
(***************************************************************************)
OneLink ==
    \A q, r \in DOMAIN rows :
        rows[q].student = rows[r].student => rows[q].linked = rows[r].linked

HandedInLast ==
    \A q, r \in DOMAIN rows :
        /\ rows[q].student = rows[r].student
        /\ ~rows[q].worked /\ rows[q].status = "IN_PROGRESS"
        /\ ~rows[r].worked /\ rows[r].status = "SUBMITTED"
        => q < r

Holds(s) == page[s].at \in {"answered", "restoring", "exam", "submitting", "accepted"}

PageHasRow ==
    \A s \in Student :
        /\ "at" \in DOMAIN page[s]
        /\ Holds(s) =>
             /\ "row" \in DOMAIN page[s] /\ page[s].row \in RowsOf(s)
             /\ rows[page[s].row].worked \/ \A q \in RowsOf(s) : q <= page[s].row

RosterInv ==
    /\ rows \in Seq(Row) /\ DOMAIN page = Student
    /\ OneLink /\ HandedInLast /\ PageHasRow

\* A set of naturals with a member has a least one.
LEMMA LeastNat ==
    ASSUME NEW T, T \subseteq Nat, T # {}
    PROVE  \E n \in T : \A m \in T : n <= m
<1>1. PICK n \in T : \A m \in T : <<m, n>> \notin OpToRel(<, Nat)
  BY NatLessThanWellFounded, WFMin
<1>2. \A m \in T : ~(m < n)
  <2> SUFFICES ASSUME NEW m \in T, m < n PROVE FALSE
    OBVIOUS
  <2>1. <<m, n>> \in OpToRel(<, Nat)
    BY DEF OpToRel
  <2>2. QED
    BY <1>1, <2>1
<1>3. QED
  BY <1>2

LEMMA MaxRow ==
    ASSUME NEW n \in Nat, NEW R, R \subseteq 1..n, R # {}
    PROVE  Max(R) \in R /\ \A q \in R : q <= Max(R)
<1> DEFINE T == {n - r : r \in R}
<1>a. \A r \in R : r \in 1..n /\ n - r \in Nat
  OBVIOUS
<1>1. T \subseteq Nat /\ T # {}
  BY <1>a
<1>2. PICK k \in T : \A m \in T : k <= m
  BY <1>1, LeastNat
<1>3. PICK r \in R : k = n - r
  OBVIOUS
<1>4. \A q \in R : r >= q
  <2> TAKE q \in R
  <2>1. n - q \in T
    OBVIOUS
  <2>2. n - r <= n - q
    BY <1>2, <1>3, <2>1
  <2>3. QED
    BY <2>2
<1>5. \E x \in R : \A y \in R : x >= y
  BY <1>4
<1>6. Max(R) \in R /\ \A q \in R : Max(R) >= q
  BY <1>5 DEF Max
<1>7. QED
  BY <1>6

LEMMA MostRealOf ==
    ASSUME rows \in Seq(Row), NEW R, R \subseteq DOMAIN rows, R # {}
    PROVE  /\ MostReal(R) \in R
           /\ (\E r \in R : rows[r].worked) => rows[MostReal(R)].worked
           /\ rows[MostReal(R)].worked \/ \A q \in R : q <= MostReal(R)
<1>1. DOMAIN rows = 1..Len(rows) /\ Len(rows) \in Nat
  OBVIOUS
<1> DEFINE W == {r \in R : rows[r].worked}
<1>2. CASE W = {}
  <2>1. MostReal(R) = Max(R)
    BY <1>2 DEF MostReal
  <2>2. QED
    BY <1>1, <1>2, <2>1, MaxRow
<1>3. CASE W # {}
  <2>1. MostReal(R) = Max(W)
    BY <1>3 DEF MostReal
  <2>2. Max(W) \in W
    <3> W \subseteq 1..Len(rows)
      BY <1>1
    <3> HIDE DEF W
    <3> QED
      BY <1>1, <1>3, MaxRow
  <2>3. QED
    BY <2>1, <2>2
<1>4. QED
  BY <1>2, <1>3

-----------------------------------------------------------------------------
LEMMA RosterInit == Init => RosterInv
<1> SUFFICES ASSUME Init PROVE RosterInv
  OBVIOUS
<1>1. rows \in Seq(Row) /\ rows \in Histories
  BY CourseAssumption DEF Init, Row
<1>2. OneLink /\ HandedInLast
  BY <1>1, HistoryAssumption DEF OneLink, HandedInLast
<1>3. DOMAIN page = Student /\ PageHasRow
  BY DEF Init, PageHasRow, Holds, Away
<1>4. QED
  BY <1>1, <1>2, <1>3 DEF RosterInv

\* One page changed, and it has the row it had, if any.
LEMMA SameRow ==
    ASSUME RosterInv, NEW s \in Student, UNCHANGED rows,
           page' = [page EXCEPT ![s] = page'[s]], "at" \in DOMAIN page'[s],
           Holds(s)' => Holds(s) /\ "row" \in DOMAIN page'[s] /\ page'[s].row = page[s].row
    PROVE  RosterInv'
<1>1. \A q \in Student : q # s => page'[q] = page[q]
  BY DEF RosterInv
<1>2. PageHasRow'
  BY <1>1 DEF RosterInv, PageHasRow, Holds, RowsOf
<1>3. DOMAIN page' = Student
  BY DEF RosterInv
<1>4. QED
  BY <1>2, <1>3 DEF RosterInv, OneLink, HandedInLast

LEMMA RosterOpen == ASSUME RosterInv, NEW s \in Student, OpenCommit(s) PROVE RosterInv'
<1>0. rows \in Seq(Row) /\ DOMAIN rows = 1..Len(rows) /\ Len(rows) \in Nat /\ DOMAIN page = Student
  BY DEF RosterInv
<1>1. DOMAIN page' = Student /\ \A q \in Student \ {s} : page'[q] = page[q]
  BY <1>0 DEF OpenCommit
<1>2. CASE RowsOf(s) = {}
  <2> DEFINE new == [student |-> s, linked |-> TRUE, worked |-> FALSE, status |-> "IN_PROGRESS"]
  <2>1. rows' = Append(rows, new) /\ new \in Row
    BY <1>2 DEF OpenCommit, Row
  <2> HIDE DEF new
  <2>2. /\ rows' \in Seq(Row) /\ DOMAIN rows' = 1..(Len(rows) + 1)
        /\ \A r \in DOMAIN rows : rows'[r] = rows[r]
        /\ rows'[Len(rows) + 1] = new
    BY <1>0, <2>1, AppendProperties
  <2>3. new.student = s /\ ~new.worked /\ new.status = "IN_PROGRESS"
    BY DEF new
  <2>4. \A r \in DOMAIN rows : rows[r].student # s
    BY <1>2 DEF RowsOf
  <2>5. \A r \in DOMAIN rows' : r \in DOMAIN rows \/ r = Len(rows) + 1
    BY <1>0, <2>2
  <2>6. OneLink'
    BY <2>2, <2>3, <2>4, <2>5 DEF RosterInv, OneLink
  <2>7. HandedInLast'
    BY <2>2, <2>3, <2>4, <2>5 DEF RosterInv, HandedInLast
  <2>8. page'[s] = [at |-> "answered", tasks |-> page[s].tasks, serverNow |-> now, wait |-> 0,
                    resumed |-> RowsOf(s) # {}, row |-> Len(rows) + 1,
                    deadline |-> EffectiveClose(page[s].opens, page[s].closes)]
    BY <1>0, <1>2 DEF OpenCommit
  <2>9. RowsOf(s)' = {Len(rows) + 1}
    BY <1>0, <2>2, <2>3, <2>4, <2>5 DEF RowsOf
  <2>10. ASSUME NEW q \in Student \ {s} PROVE RowsOf(q)' = RowsOf(q)
    <3>1. \A r \in DOMAIN rows' : rows'[r].student = q <=> r \in DOMAIN rows /\ rows[r].student = q
      BY <1>0, <2>2, <2>3, <2>5
    <3>2. DOMAIN rows \subseteq DOMAIN rows'
      BY <1>0, <2>2
    <3>3. QED
      BY <3>1, <3>2 DEF RowsOf
  <2>11. PageHasRow'
    <3> SUFFICES ASSUME NEW q \in Student
                 PROVE  /\ "at" \in DOMAIN page'[q]
                        /\ Holds(q)' =>
                             /\ "row" \in DOMAIN page'[q] /\ page'[q].row \in RowsOf(q)'
                             /\ \/ rows'[page'[q].row].worked
                                \/ \A r \in RowsOf(q)' : r <= page'[q].row
      BY DEF PageHasRow
    <3>1. CASE q = s
      BY <1>0, <2>8, <2>9, <3>1
    <3>2. CASE q # s
      <4>1. RowsOf(q)' = RowsOf(q) /\ page'[q] = page[q]
        BY <1>1, <2>10, <3>2
      <4>2. \A r \in RowsOf(q) : rows'[r] = rows[r]
        BY <2>2 DEF RowsOf
      <4>3. QED
        BY <4>1, <4>2 DEF RosterInv, PageHasRow, Holds
    <3>3. QED
      BY <3>1, <3>2
  <2>12. QED
    BY <1>1, <2>2, <2>6, <2>7, <2>11 DEF RosterInv
<1>3. CASE RowsOf(s) # {}
  <2>1. UNCHANGED rows
    BY <1>3 DEF OpenCommit
  <2>2. CASE rows[Chosen(s)].status = "SUBMITTED"
    <3>1. page' = [page EXCEPT ![s] = [at |-> "locked"]]
      BY <1>3, <2>2 DEF OpenCommit
    <3>2. page'[s] = [at |-> "locked"] /\ page' = [page EXCEPT ![s] = page'[s]]
      BY <1>0, <3>1
    <3>3. ~Holds(s)' /\ "at" \in DOMAIN page'[s]
      BY <3>2 DEF Holds
    <3>4. QED
      BY <2>1, <3>2, <3>3, SameRow
  <2>3. CASE rows[Chosen(s)].status # "SUBMITTED"
    <3>1. page'[s] = [at |-> "answered", tasks |-> page[s].tasks, serverNow |-> now, wait |-> 0,
                      resumed |-> RowsOf(s) # {}, row |-> Chosen(s),
                      deadline |-> EffectiveClose(page[s].opens, page[s].closes)]
      BY <1>0, <1>3, <2>3 DEF OpenCommit
    <3> DEFINE T == {r \in RowsOf(s) : rows[r].status = "SUBMITTED"}
    <3>2. RowsOf(s) \subseteq DOMAIN rows /\ T \subseteq DOMAIN rows
      BY DEF RowsOf
    <3>3. T = {}
      <4> SUFFICES ASSUME T # {} PROVE FALSE
        OBVIOUS
      <4>1. Chosen(s) = MostReal(T)
        BY DEF Chosen
      <4>2. MostReal(T) \in T
        <5> HIDE DEF T
        <5> QED
          BY <1>0, <3>2, MostRealOf
      <4>3. QED
        BY <2>3, <4>1, <4>2
    <3>4. Chosen(s) = MostReal(RowsOf(s))
      BY <3>3 DEF Chosen
    <3>5. /\ Chosen(s) \in RowsOf(s)
          /\ rows[Chosen(s)].worked \/ \A q \in RowsOf(s) : q <= Chosen(s)
      BY <1>0, <1>3, <3>2, <3>4, MostRealOf
    <3>6. PageHasRow'
      BY <1>1, <2>1, <3>1, <3>5 DEF RosterInv, PageHasRow, Holds, RowsOf
    <3>7. QED
      BY <1>1, <2>1, <3>6 DEF RosterInv, OneLink, HandedInLast
  <2>4. QED
    BY <2>2, <2>3
<1>4. QED
  BY <1>2, <1>3

\* A mark on the row a page holds.
LEMMA Marked ==
    ASSUME RosterInv, NEW r \in DOMAIN rows
    PROVE  /\ [rows EXCEPT ![r].worked = TRUE] \in Seq(Row)
           /\ [rows EXCEPT ![r].status = "SUBMITTED"] \in Seq(Row)
  BY MarkedRows DEF RosterInv

LEMMA RosterFlush == ASSUME RosterInv, NEW s \in Student, Flush(s) PROVE RosterInv'
<1> DEFINE r == page[s].row
<1>1. r \in DOMAIN rows
  BY DEF Flush, RosterInv, PageHasRow, Holds, RowsOf
<1>2. rows' = [rows EXCEPT ![r].worked = TRUE] /\ page' = page
  BY DEF Flush
<1> HIDE DEF r
<1>3. /\ rows' \in Seq(Row) /\ DOMAIN rows' = DOMAIN rows
      /\ \A q \in DOMAIN rows :
            /\ rows'[q].student = rows[q].student /\ rows'[q].linked = rows[q].linked
            /\ rows'[q].status = rows[q].status
            /\ rows[q].worked => rows'[q].worked
  <2>1. rows' \in Seq(Row)
    BY <1>1, <1>2, Marked
  <2>2. DOMAIN rows' = DOMAIN rows /\ \A q \in DOMAIN rows : rows[q] \in Row
    BY <1>2 DEF RosterInv
  <2>3. QED
    BY <1>1, <1>2, <2>1, <2>2 DEF Row
<1>4. OneLink' /\ HandedInLast'
  BY <1>3 DEF RosterInv, OneLink, HandedInLast
<1>5. PageHasRow'
  BY <1>2, <1>3 DEF RosterInv, PageHasRow, Holds, RowsOf
<1>6. QED
  BY <1>2, <1>3, <1>4, <1>5 DEF RosterInv

LEMMA RosterSubmit == ASSUME RosterInv, NEW s \in Student, SubmitWrite(s) PROVE RosterInv'
<1> DEFINE r == page[s].row
<1>1. /\ r \in DOMAIN rows /\ r \in RowsOf(s)
      /\ rows[r].worked \/ \A q \in RowsOf(s) : q <= r
  BY DEF SubmitWrite, RosterInv, PageHasRow, Holds, RowsOf
<1>2. /\ rows' = [rows EXCEPT ![r].status = "SUBMITTED"]
      /\ page' = [page EXCEPT ![s] = [at |-> "locked"]]
  BY DEF SubmitWrite
<1> HIDE DEF r
<1>3. /\ rows' \in Seq(Row) /\ DOMAIN rows' = DOMAIN rows
      /\ \A q \in DOMAIN rows :
            /\ rows'[q].student = rows[q].student /\ rows'[q].linked = rows[q].linked
            /\ rows'[q].worked = rows[q].worked
            /\ rows'[q].status = IF q = r THEN "SUBMITTED" ELSE rows[q].status
  <2>1. rows' \in Seq(Row)
    BY <1>1, <1>2, Marked
  <2>2. DOMAIN rows' = DOMAIN rows /\ \A q \in DOMAIN rows : rows[q] \in Row
    BY <1>2 DEF RosterInv
  <2>3. QED
    BY <1>1, <1>2, <2>1, <2>2 DEF Row
<1>4. OneLink'
  BY <1>3 DEF RosterInv, OneLink
<1>5. HandedInLast'
  <2> SUFFICES ASSUME NEW p \in DOMAIN rows, NEW q \in DOMAIN rows,
                      rows[p].student = rows[q].student,
                      ~rows[p].worked, rows'[p].status = "IN_PROGRESS",
                      ~rows[q].worked, rows'[q].status = "SUBMITTED"
               PROVE  p < q
    BY <1>3 DEF HandedInLast
  <2>1. p # r /\ rows[p].status = "IN_PROGRESS"
    BY <1>3
  <2>2. CASE q = r
    <3>1. p \in RowsOf(s)
      BY <1>1, <2>2 DEF RowsOf
    <3>2. p <= r /\ p \in Nat /\ r \in Nat
      BY <1>1, <2>2, <3>1 DEF RosterInv
    <3>3. QED
      BY <2>1, <2>2, <3>2
  <2>3. CASE q # r
    BY <1>3, <2>1, <2>3 DEF RosterInv, HandedInLast
  <2>4. QED
    BY <2>2, <2>3
<1>6. PageHasRow'
  <2>1. page'[s] = [at |-> "locked"] /\ \A q \in Student \ {s} : page'[q] = page[q]
    BY <1>2 DEF RosterInv
  <2>2. \A q : RowsOf(q)' = RowsOf(q)
    BY <1>3 DEF RowsOf
  <2>3. \A q : \A p \in RowsOf(q) : rows'[p].worked = rows[p].worked
    BY <1>3 DEF RowsOf
  <2>4. QED
    BY <2>1, <2>2, <2>3 DEF RosterInv, PageHasRow, Holds
<1>7. DOMAIN page' = Student
  BY <1>2 DEF RosterInv
<1>8. QED
  BY <1>3, <1>4, <1>5, <1>6, <1>7 DEF RosterInv

LEMMA RosterPage == ASSUME RosterInv, NEW s \in Student, PageStep(s) PROVE RosterInv'
<1>0. DOMAIN page = Student
  BY DEF RosterInv
<1>1. CASE Join(s)
  BY <1>1 DEF Join, RosterInv, OneLink, HandedInLast, PageHasRow, Holds, RowsOf
<1>2. ASSUME NEW ip \in Hosts, Arrive(s, ip) PROVE RosterInv'
  <2>1. page' = [page EXCEPT ![s] = page'[s]] /\ page'[s].at \in {"blocked", "locked", "listed"}
        /\ "at" \in DOMAIN page'[s] /\ UNCHANGED rows
    BY <1>0, <1>2 DEF Arrive, Guarded
  <2>2. QED
    BY <2>1, SameRow DEF Holds
<1>3. CASE OpenRead(s)
  <2>1. page' = [page EXCEPT ![s] = page'[s]] /\ page'[s].at \in {"blocked", "opening"}
        /\ "at" \in DOMAIN page'[s] /\ UNCHANGED rows
    BY <1>0, <1>3 DEF OpenRead, Guarded
  <2>2. QED
    BY <2>1, SameRow DEF Holds
<1>4. CASE AskRestore(s) \/ \E offset \in Offsets : Mount(s, offset)
  <2>1. Holds(s) /\ UNCHANGED rows
    BY <1>4 DEF AskRestore, Mount, Holds
  <2>2. {"at", "row"} \subseteq DOMAIN page[s]
    BY <2>1 DEF RosterInv, PageHasRow
  <2>3. /\ page' = [page EXCEPT ![s] = page'[s]] /\ {"at", "row"} \subseteq DOMAIN page'[s]
        /\ page'[s].row = page[s].row
    <3>1. CASE AskRestore(s)
      <4>1. page' = [page EXCEPT ![s] = [page[s] EXCEPT !.at = "restoring", !.wait = 0]]
        BY <1>0, <3>1 DEF AskRestore
      <4>2. page'[s] = [page[s] EXCEPT !.at = "restoring", !.wait = 0]
        BY <1>0, <4>1
      <4>3. QED
        BY <2>2, <4>1, <4>2
    <3>2. ASSUME NEW offset \in Offsets, Mount(s, offset)
          PROVE  /\ page' = [page EXCEPT ![s] = page'[s]] /\ {"at", "row"} \subseteq DOMAIN page'[s]
                 /\ page'[s].row = page[s].row
      BY <1>0, <3>2 DEF Mount
    <3>3. QED
      BY <1>4, <3>1, <3>2
  <2>4. QED
    BY <2>1, <2>3, SameRow
<1>5. CASE CountdownEnds(s) \/ ClickSubmit(s)
  <2>1. /\ page' = [page EXCEPT ![s] = page'[s]] /\ {"at", "row"} \subseteq DOMAIN page'[s]
        /\ page'[s].row = page[s].row /\ UNCHANGED rows
    BY <1>0, <1>5 DEF CountdownEnds, ClickSubmit, HandIn
  <2>2. Holds(s)
    BY <1>5 DEF CountdownEnds, ClickSubmit, TimeUp, Holds
  <2>3. QED
    BY <2>1, <2>2, SameRow
<1>6. CASE SubmitCheck(s)
  <2>1. /\ page' = [page EXCEPT ![s] = page'[s]] /\ "at" \in DOMAIN page'[s] /\ UNCHANGED rows
        /\ \/ page'[s].at = "refused"
           \/ "row" \in DOMAIN page'[s] /\ page'[s].row = page[s].row
    BY <1>0, <1>6 DEF SubmitCheck
  <2>2. Holds(s)
    BY <1>6 DEF SubmitCheck, Holds
  <2>3. page'[s].at = "refused" => ~Holds(s)'
    BY DEF Holds
  <2>4. QED
    BY <2>1, <2>2, <2>3, SameRow
<1>7. CASE Leave(s)
  <2>1. page' = [page EXCEPT ![s] = page'[s]] /\ page'[s].at = "away"
        /\ "at" \in DOMAIN page'[s] /\ UNCHANGED rows
    BY <1>0, <1>7 DEF Leave, Away
  <2>2. QED
    BY <2>1, SameRow DEF Holds
<1>8. QED
  BY <1>1, <1>2, <1>3, <1>4, <1>5, <1>6, <1>7, RosterOpen, RosterFlush, RosterSubmit DEF PageStep

LEMMA RosterTick == ASSUME RosterInv, Tick PROVE RosterInv'
<1>1. \A s \in Student : page'[s] = page[s] \/ page'[s] = [page[s] EXCEPT !.wait = @ + 1]
  BY DEF Tick
<1>2. \A s \in Student :
        /\ DOMAIN page'[s] = DOMAIN page[s]
        /\ \A field \in DOMAIN page[s] : field # "wait" => page'[s][field] = page[s][field]
  BY <1>1
<1>3. \A s \in Student : page'[s].at = page[s].at
  BY <1>2 DEF RosterInv, PageHasRow
<1>4. \A s \in Student : Holds(s) => page'[s].row = page[s].row
  BY <1>2 DEF RosterInv, PageHasRow
<1>5. UNCHANGED rows /\ DOMAIN page' = Student
  BY DEF Tick
<1>6. PageHasRow'
  BY <1>2, <1>3, <1>4, <1>5 DEF RosterInv, PageHasRow, Holds, RowsOf
<1>7. QED
  BY <1>5, <1>6 DEF RosterInv, OneLink, HandedInLast

-----------------------------------------------------------------------------
\* A member's rows are all the rows of the student.
LEMMA AllRowsOfMember == ASSUME OneLink, NEW s PROVE RowsOfMember(s) = RowsOf(s)
<1>1. \A q, r \in RowsOf(s) : rows[q].linked = rows[r].linked
  BY DEF OneLink, RowsOf
<1>2. QED
  BY <1>1 DEF RowsOfMember

\* Nobody's rows are split: what members leave is one group for each student.
LEMMA GroupsAreStudents ==
    ASSUME OneLink
    PROVE  OrphanGroups = {RowsOf(s) : s \in {rows[r].student : r \in DOMAIN rows} \ members}
<1>1. Claimed = {r \in DOMAIN rows : rows[r].student \in members}
  BY AllRowsOfMember DEF Claimed, Claims, RowsOf
<1> DEFINE orphans == DOMAIN rows \ Claimed
           Key(r) == IF rows[r].linked THEN <<"id", rows[r].student>>
                                       ELSE <<"name", rows[r].student>>
<1>2. orphans = {r \in DOMAIN rows : rows[r].student \notin members}
  BY <1>1
<1>3. \A o, r \in DOMAIN rows : Key(r) = Key(o) <=> rows[r].student = rows[o].student
  BY DEF OneLink
<1>4. \A o \in orphans : {r \in orphans : Key(r) = Key(o)} = RowsOf(rows[o].student)
  BY <1>2, <1>3 DEF RowsOf
<1>5. OrphanGroups = {{r \in orphans : Key(r) = Key(o)} : o \in orphans}
  BY DEF OrphanGroups
<1> HIDE DEF Key, orphans
<1>6. OrphanGroups = {RowsOf(rows[o].student) : o \in orphans}
  BY <1>4, <1>5
<1>7. QED
  BY <1>2, <1>6

\* The tile of a student.
TileOf(s) == Tile(s, s \in members, RowsOf(s))

LEMMA RosterTiles ==
    ASSUME rows \in Seq(Row), OneLink
    PROVE  Roster = {TileOf(s) : s \in members \cup {rows[r].student : r \in DOMAIN rows}}
<1> DEFINE sat == {rows[r].student : r \in DOMAIN rows}
<1>1. DOMAIN rows = 1..Len(rows) /\ Len(rows) \in Nat
  OBVIOUS
<1>2. {Tile(s, TRUE, RowsOfMember(s)) : s \in members} = {TileOf(s) : s \in members}
  BY AllRowsOfMember DEF TileOf
<1>3. ASSUME NEW s \in sat \ members
      PROVE  Tile(rows[Max(RowsOf(s))].student, FALSE, RowsOf(s)) = TileOf(s)
  <2>1. RowsOf(s) # {} /\ RowsOf(s) \subseteq 1..Len(rows)
    BY <1>1 DEF RowsOf
  <2>2. Max(RowsOf(s)) \in RowsOf(s)
    BY <1>1, <2>1, MaxRow
  <2>3. rows[Max(RowsOf(s))].student = s
    BY <2>2 DEF RowsOf
  <2>4. (s \in members) = FALSE
    OBVIOUS
  <2>5. QED
    BY <2>3, <2>4 DEF TileOf
<1> HIDE DEF sat
<1>4. {Tile(rows[Max(g)].student, FALSE, g) : g \in OrphanGroups} = {TileOf(s) : s \in sat \ members}
  <2>1. OrphanGroups = {RowsOf(s) : s \in sat \ members}
    BY GroupsAreStudents DEF sat
  <2>2. QED
    BY <1>3, <2>1
<1>5. Roster = {TileOf(s) : s \in members} \cup {TileOf(s) : s \in sat \ members}
  BY <1>2, <1>4 DEF Roster
<1>6. QED
  BY <1>5 DEF sat

\* Everybody has one tile, whose session is a real one if any is.
THEOREM OneTileEach == Spec => []EveryoneOnOneTile
<1>1. RosterInv => EveryoneOnOneTile
  <2> SUFFICES ASSUME RosterInv, NEW s \in members \cup {rows[r].student : r \in DOMAIN rows}
               PROVE  \E tile \in Roster :
                          /\ {other \in Roster : other.student = s} = {tile}
                          /\ tile.enrolled = (s \in members)
                          /\ IF RowsOf(s) = {} THEN tile.session = 0
                             ELSE tile.session \in RowsOf(s) \cap SessionList
                          /\ (\E r \in RowsOf(s) : rows[r].worked) => rows[tile.session].worked
    BY DEF EveryoneOnOneTile
  <2>1. Roster = {TileOf(q) : q \in members \cup {rows[r].student : r \in DOMAIN rows}}
    BY RosterTiles DEF RosterInv
  <2>2. \A q : TileOf(q).student = q
    BY DEF TileOf, Tile
  <2>3. TileOf(s) \in Roster /\ {other \in Roster : other.student = s} = {TileOf(s)}
    BY <2>1, <2>2
  <2>4. TileOf(s).enrolled = (s \in members)
    BY DEF TileOf, Tile
  <2>5. CASE RowsOf(s) = {}
    BY <2>3, <2>4, <2>5 DEF TileOf, Tile
  <2>6. CASE RowsOf(s) # {}
    <3> DEFINE m == MostReal(RowsOf(s))
    <3>1. TileOf(s).session = m
      BY <2>6 DEF TileOf, Tile
    <3>2. /\ m \in RowsOf(s)
          /\ (\E r \in RowsOf(s) : rows[r].worked) => rows[m].worked
          /\ rows[m].worked \/ \A q \in RowsOf(s) : q <= m
      <4>1. rows \in Seq(Row) /\ RowsOf(s) \subseteq DOMAIN rows
        BY DEF RosterInv, RowsOf
      <4>2. QED
        BY <2>6, <4>1, MostRealOf
    <3>3. m \in SessionList
      <4>1. m \in DOMAIN rows /\ rows[m].student = s
        BY <3>2 DEF RowsOf
      <4> SUFFICES ASSUME IsPhantom(m), NEW q \in RowsOf(s), IsReal(q) PROVE FALSE
        BY <4>1 DEF SessionList
      <4>2. ~rows[q].worked /\ rows[q].status = "SUBMITTED"
        BY <3>2 DEF IsPhantom, IsReal
      <4>3. m < q
        BY <4>1, <4>2 DEF IsPhantom, RosterInv, HandedInLast, RowsOf
      <4>4. q <= m /\ q \in Nat /\ m \in Nat
        BY <3>2 DEF IsPhantom, RosterInv, RowsOf
      <4>5. QED
        BY <4>3, <4>4
    <3>4. QED
      BY <2>3, <2>4, <2>6, <3>1, <3>2, <3>3
  <2>7. QED
    BY <2>5, <2>6
<1>2. RosterInv /\ [Next]_vars => RosterInv'
  <2> SUFFICES ASSUME RosterInv, [Next]_vars PROVE RosterInv'
    OBVIOUS
  <2>1. ASSUME UNCHANGED <<rows, page>> PROVE RosterInv'
    BY <2>1 DEF RosterInv, OneLink, HandedInLast, PageHasRow, Holds, RowsOf
  <2>2. ASSUME \/ UNCHANGED vars
               \/ \E pol \in Policies : PutNetwork(pol)
               \/ \E t \in Tab : \/ \E body \in Bodies : PatchRead(t, body)
                                 \/ PatchCount(t) \/ PatchWrite(t)
        PROVE  RosterInv'
    BY <2>1, <2>2 DEF vars, PutNetwork, PatchRead, PatchCount, PatchWrite
  <2>3. QED
    BY <2>2, RosterPage, RosterTick DEF Next, PageStep
<1>3. QED
  BY <1>1, <1>2, RosterInit, PTL DEF Spec

-----------------------------------------------------------------------------
(***************************************************************************)
(* The network policy, for addresses of any width: the mask has the first  *)
(* bits and no other, and addresses that agree on all bits from one on lie *)
(* in the same aligned block.  Both need powers of two and division, whose *)
(* laws are proved here by induction over the naturals.                    *)
(***************************************************************************)
LEMMA NatInd ==
    ASSUME NEW S, S \subseteq Nat, 0 \in S, \A n \in S : n + 1 \in S
    PROVE  S = Nat
<1> DEFINE T == Nat \ S
<1>1. SUFFICES ASSUME T # {} PROVE FALSE
  OBVIOUS
<1>2. PICK n \in T : \A m \in T : n <= m
  BY <1>1, LeastNat
<1>3. n # 0 /\ n - 1 \in Nat /\ n - 1 \notin T
  BY <1>2
<1>4. QED
  BY <1>3

\* A function on an initial part of Nat that doubles.
Doubles(g, n) == /\ g \in [0..n -> Nat] /\ g[0] = 1
                 /\ \A i \in 0..n : i # 0 => g[i] = 2 * g[i - 1]

LEMMA DoublesUnique ==
    ASSUME NEW m \in Nat, NEW n \in 0..m, NEW g, NEW h, Doubles(g, m), Doubles(h, n)
    PROVE  g[n] = h[n]
<1> DEFINE S == {i \in Nat : i <= n => g[i] = h[i]}
<1>1. 0 \in S
  BY DEF Doubles
<1>2. ASSUME NEW i \in S PROVE i + 1 \in S
  <2> SUFFICES ASSUME i + 1 <= n PROVE g[i + 1] = h[i + 1]
    OBVIOUS
  <2>1. i \in Nat /\ g[i] = h[i] /\ i + 1 \in 0..m /\ i + 1 \in 0..n /\ (i + 1) - 1 = i /\ i + 1 # 0
    OBVIOUS
  <2>2. g[i + 1] = 2 * g[i] /\ h[i + 1] = 2 * h[i]
    BY <2>1 DEF Doubles
  <2>3. QED
    BY <2>1, <2>2
<1>3. S = Nat
  <2> HIDE DEF S
  <2>1. S \subseteq Nat
    BY DEF S
  <2>2. QED
    BY <1>1, <1>2, <2>1, NatInd
<1>4. QED
  BY <1>3

LEMMA DoublesExists == \A n \in Nat : \E g : Doubles(g, n)
<1> DEFINE S == {n \in Nat : \E g : Doubles(g, n)}
<1>1. 0 \in S
  <2>1. Doubles([i \in 0..0 |-> 1], 0)
    BY DEF Doubles
  <2>2. QED
    BY <2>1
<1>2. ASSUME NEW n \in S PROVE n + 1 \in S
  <2>1. PICK g : Doubles(g, n)
    OBVIOUS
  <2>2. n \in Nat
    OBVIOUS
  <2> DEFINE h == [i \in 0..(n + 1) |-> IF i = n + 1 THEN 2 * g[n] ELSE g[i]]
  <2>3. h \in [0..(n + 1) -> Nat] /\ h[0] = 1
    BY <2>1, <2>2 DEF Doubles
  <2>4. ASSUME NEW i \in 0..(n + 1), i # 0 PROVE h[i] = 2 * h[i - 1]
    <3>1. i - 1 \in 0..n /\ h[i - 1] = g[i - 1]
      BY <2>2, <2>4
    <3>2. CASE i = n + 1
      BY <2>2, <3>1, <3>2
    <3>3. CASE i # n + 1
      BY <2>1, <2>2, <2>4, <3>1, <3>3 DEF Doubles
    <3>4. QED
      BY <3>2, <3>3
  <2> HIDE DEF h
  <2>5. Doubles(h, n + 1)
    BY <2>3, <2>4 DEF Doubles
  <2>6. QED
    BY <2>2, <2>5
<1>3. S = Nat
  <2> HIDE DEF S
  <2>1. S \subseteq Nat
    BY DEF S
  <2>2. QED
    BY <1>1, <1>2, <2>1, NatInd
<1>4. QED
  BY <1>3

\* What the recursion of Pow2 defines is a function: each initial part has one
\* and only one solution.
LEMMA Pow2Facts ==
    /\ Pow2 \in [Nat -> Nat \ {0}] /\ Pow2[0] = 1
    /\ \A n \in Nat : Pow2[n + 1] = 2 * Pow2[n]
<1> DEFINE G(n) == CHOOSE g : Doubles(g, n)
           f == [n \in Nat |-> G(n)[n]]
<1>1. \A n \in Nat : Doubles(G(n), n)
  BY DoublesExists
<1> HIDE DEF G
<1>2. f[0] = 1 /\ \A n \in Nat : f[n] \in Nat
  <2>1. \A n \in Nat : n \in 0..n
    OBVIOUS
  <2>2. QED
    BY <1>1, <2>1 DEF Doubles
<1>3. ASSUME NEW n \in Nat, n # 0 PROVE f[n] = 2 * f[n - 1]
  <2>1. n - 1 \in Nat /\ n - 1 \in 0..n /\ n \in 0..n /\ n - 1 \in 0..(n-1)
    BY <1>3
  <2>2. G(n)[n] = 2 * G(n)[n - 1]
    BY <1>1, <1>3, <2>1 DEF Doubles
  <2>3. Doubles(G(n), n) /\ Doubles(G(n - 1), n - 1)
    BY <1>1, <2>1
  <2>a. \A i \in 0..(n-1) : i <= n - 1
    BY <2>1
  <2>4. G(n)[n - 1] = G(n - 1)[n - 1]
    BY <2>1, <2>3, DoublesUnique
  <2>5. QED
    BY <2>1, <2>2, <2>4
<1>4. f = [n \in Nat |-> IF n = 0 THEN 1 ELSE 2 * f[n - 1]]
  BY <1>2, <1>3
<1> HIDE DEF f
<1>5. Pow2 = [n \in Nat |-> IF n = 0 THEN 1 ELSE 2 * Pow2[n - 1]]
  BY <1>4 DEF Pow2
<1>6. Pow2[0] = 1 /\ \A n \in Nat : Pow2[n + 1] = 2 * Pow2[n]
  <2>1. \A n \in Nat : n + 1 \in Nat /\ n + 1 # 0 /\ (n + 1) - 1 = n
    OBVIOUS
  <2>2. QED
    BY <1>5, <2>1
<1>7. \A n \in Nat : Pow2[n] \in Nat \ {0}
  <2> DEFINE S == {n \in Nat : Pow2[n] \in Nat \ {0}}
  <2>1. 0 \in S /\ \A n \in S : n + 1 \in S
    BY <1>6
  <2> HIDE DEF S
  <2>2. S \subseteq Nat
    BY DEF S
  <2>3. S = Nat
    BY <2>1, <2>2, NatInd
  <2>4. QED
    BY <2>3 DEF S
<1>8. Pow2 \in [Nat -> Nat \ {0}]
  <2>1. \E D : Pow2 = [n \in Nat |-> IF n = 0 THEN 1 ELSE 2 * Pow2[n - 1]]
    BY <1>5
  <2>2. QED
    BY <1>5, <1>7
<1>9. QED
  BY <1>6, <1>8

LEMMA DivDef ==
    ASSUME NEW x \in Nat, NEW p \in Nat \ {0}
    PROVE  /\ x \div p \in Nat /\ x % p \in Nat
           /\ x = p * (x \div p) + (x % p) /\ x % p < p
  OBVIOUS

LEMMA DivUnique ==
    ASSUME NEW x \in Nat, NEW p \in Nat \ {0}, NEW a \in Nat, NEW r \in Nat, r < p, x = p * a + r
    PROVE  x \div p = a
<1> DEFINE b == x \div p
           s == x % p
<1>1. b \in Nat /\ s \in Nat /\ x = p * b + s /\ s < p
  BY DivDef
<1> HIDE DEF b, s
<1>2. ASSUME b < a PROVE FALSE
  <2>1. p * (b + 1) <= p * a
    BY <1>1, <1>2
  <2>2. QED
    BY <1>1, <2>1
<1>3. ASSUME b > a PROVE FALSE
  <2>1. p * (a + 1) <= p * b
    BY <1>1, <1>3
  <2>2. QED
    BY <1>1, <2>1
<1>4. QED
  BY <1>1, <1>2, <1>3 DEF b

\* The next shift halves the last one.
LEMMA HalfAgain ==
    ASSUME NEW x \in Nat, NEW p \in Nat \ {0}
    PROVE  x \div (2 * p) = (x \div p) \div 2
<1> DEFINE a == x \div p
           r == x % p
           b == a \div 2
           c == a % 2
<1>1. a \in Nat /\ r \in Nat /\ x = p * a + r /\ r < p
  BY DivDef
<1> HIDE DEF a, r
<1>2. b \in Nat /\ c \in {0, 1} /\ a = 2 * b + c
  BY <1>1
<1> HIDE DEF b, c
<1>3. p * a = (2 * p) * b + p * c
  BY <1>1, <1>2
<1>4. p * c + r \in Nat /\ p * c + r < 2 * p
  BY <1>1, <1>2
<1>5. x = (2 * p) * b + (p * c + r)
  <2>1. p * c \in Nat /\ (2 * p) * b \in Nat
    BY <1>2
  <2>2. QED
    BY <1>1, <1>3, <2>1
<1>6. 2 * p \in Nat \ {0}
  OBVIOUS
<1>7. x \div (2 * p) = b
  BY <1>2, <1>4, <1>5, <1>6, DivUnique
<1>8. QED
  BY <1>7 DEF a, b

LEMMA Pow2Sum == ASSUME NEW a \in Nat, NEW b \in Nat PROVE Pow2[a + b] = Pow2[a] * Pow2[b]
<1> DEFINE S == {n \in Nat : Pow2[a + n] = Pow2[a] * Pow2[n]}
<1>1. 0 \in S
  <2>1. Pow2[0] = 1 /\ a + 0 = a /\ Pow2[a] \in Nat
    BY Pow2Facts
  <2>2. QED
    BY <2>1
<1>2. ASSUME NEW n \in S PROVE n + 1 \in S
  <2>1. n \in Nat /\ a + n \in Nat /\ (a + n) + 1 = a + (n + 1) /\ Pow2[a + n] = Pow2[a] * Pow2[n]
    OBVIOUS
  <2>2. Pow2[n + 1] = 2 * Pow2[n] /\ Pow2[a + (n + 1)] = 2 * Pow2[a + n]
    <3>1. Pow2[(a + n) + 1] = 2 * Pow2[a + n]
      BY <2>1, Pow2Facts
    <3>2. QED
      BY <2>1, <3>1, Pow2Facts
  <2>3. Pow2[a] \in Nat /\ Pow2[n] \in Nat
    BY <2>1, Pow2Facts
  <2>4. Pow2[a + (n + 1)] = Pow2[a] * Pow2[n + 1]
    BY <2>1, <2>2, <2>3
  <2>5. QED
    BY <2>1, <2>4
<1> HIDE DEF S
<1>3. S \subseteq Nat
  BY DEF S
<1>4. S = Nat
  BY <1>1, <1>2, <1>3, NatInd
<1>5. QED
  BY <1>4 DEF S

\* The bits of the mask are the first ones.
LEMMA MaskBits ==
    ASSUME NEW bits \in 0..Width, NEW i \in 0..(Width - 1)
    PROVE  HasBit(Mask(bits), i) <=> i >= Width - bits
<1> DEFINE k == Width - bits
           a == Pow2[i]
           b == Pow2[Width - i]
<1>0. Width \in Nat \ {0} /\ k \in Nat /\ k <= Width /\ i \in Nat /\ Width - i \in Nat \ {0}
  BY NetworkAssumption
<1>1. a \in Nat \ {0} /\ b \in Nat \ {0} /\ Pow2[Width] = a * b
  <2>1. Pow2[i + (Width - i)] = a * b
    BY <1>0, Pow2Sum
  <2>2. i + (Width - i) = Width
    BY <1>0
  <2>3. a \in Nat \ {0} /\ b \in Nat \ {0}
    BY <1>0, Pow2Facts
  <2>4. QED
    BY <2>1, <2>2, <2>3
<1>2. PICK h \in Nat \ {0} : b = 2 * h
  <2>1. Width - i - 1 \in Nat /\ (Width - i - 1) + 1 = Width - i
    BY <1>0
  <2>2. Pow2[(Width - i - 1) + 1] = 2 * Pow2[Width - i - 1] /\ Pow2[Width - i - 1] \in Nat \ {0}
    BY <2>1, Pow2Facts
  <2>3. QED
    BY <2>1, <2>2
<1>3. Mask(bits) = a * b - Pow2[k]
  BY <1>1 DEF Mask
<1>4. CASE i >= k
  <2> DEFINE c == Pow2[k]
             d == Pow2[i - k]
  <2>1. c \in Nat \ {0} /\ d \in Nat \ {0} /\ a = c * d
    <3>1. i - k \in Nat /\ k + (i - k) = i
      BY <1>0, <1>4
    <3>2. Pow2[k + (i - k)] = c * d
      BY <1>0, <3>1, Pow2Sum
    <3>3. c \in Nat \ {0} /\ d \in Nat \ {0}
      BY <1>0, <3>1, Pow2Facts
    <3>4. QED
      BY <3>1, <3>2, <3>3
  <2> HIDE DEF c, d
  <2>2. c <= a
    BY <2>1
  <2>3. Mask(bits) = a * (b - 1) + (a - c)
    <3>1. a * b = a * (b - 1) + a
      BY <1>1
    <3>2. a * (b - 1) \in Int /\ a * b \in Int
      BY <1>1
    <3>3. QED
      BY <1>1, <1>3, <2>1, <3>1, <3>2 DEF c
  <2>4. a * (b - 1) \in Nat /\ b - 1 \in Nat
    BY <1>1
  <2>5. a - c \in Nat /\ a - c < a
    BY <1>1, <2>1, <2>2
  <2> HIDE DEF a, b
  <2>6. Mask(bits) \div a = b - 1
    <3> DEFINE p == a * (b - 1)
               r == a - c
               q == b - 1
    <3>1. p \in Nat /\ q \in Nat /\ r \in Nat /\ r < a /\ Mask(bits) = p + r
      BY <2>3, <2>4, <2>5
    <3>2. p = a * q
      OBVIOUS
    <3> HIDE DEF p, r, q
    <3>3. Mask(bits) \in Nat /\ Mask(bits) = a * q + r
      BY <3>1, <3>2
    <3>4. QED
      BY <1>1, <3>1, <3>3, DivUnique DEF q
  <2>7. (b - 1) % 2 = 1
    BY <1>2
  <2>8. QED
    BY <1>4, <2>6, <2>7 DEF HasBit, a
<1>5. CASE i < k
  <2> DEFINE d == Pow2[k - i]
             e == Pow2[Width - k]
  <2>1. PICK j \in Nat \ {0} : d = 2 * j
    <3>1. k - i - 1 \in Nat /\ (k - i - 1) + 1 = k - i
      BY <1>0, <1>5
    <3>2. Pow2[(k - i - 1) + 1] = 2 * Pow2[k - i - 1] /\ Pow2[k - i - 1] \in Nat \ {0}
      BY <3>1, Pow2Facts
    <3>3. QED
      BY <3>1, <3>2
  <2>2. Pow2[k] = a * d
    <3>1. k - i \in Nat /\ i + (k - i) = k
      BY <1>0, <1>5
    <3>2. Pow2[i + (k - i)] = a * d
      BY <1>0, <3>1, Pow2Sum
    <3>3. QED
      BY <3>1, <3>2
  <2>3. b = d * e /\ e \in Nat \ {0}
    <3>1. k - i \in Nat /\ Width - k \in Nat /\ (k - i) + (Width - k) = Width - i
      BY <1>0, <1>5
    <3>2. Pow2[(k - i) + (Width - k)] = d * e
      BY <3>1, Pow2Sum
    <3>3. e \in Nat \ {0}
      BY <3>1, Pow2Facts
    <3>4. QED
      BY <3>1, <3>2, <3>3
  <2> HIDE DEF d, e
  <2>4. d <= b
    BY <2>1, <2>3
  <2>5. Mask(bits) = a * (b - d) + 0 /\ b - d \in Nat
    <3>1. a * b - a * d = a * (b - d)
      BY <1>1, <2>1
    <3>2. a * (b - d) \in Int
      BY <1>1, <2>1
    <3>3. QED
      BY <1>1, <1>3, <2>1, <2>2, <2>4, <3>1, <3>2
  <2>6. Mask(bits) \in Nat
    BY <1>1, <2>5
  <2>7. Mask(bits) \div a = b - d
    BY <1>1, <2>5, <2>6, DivUnique
  <2>8. (b - d) % 2 = 0
    BY <1>2, <2>1
  <2>9. QED
    BY <1>0, <1>5, <2>7, <2>8 DEF HasBit
<1>6. QED
  BY <1>0, <1>4, <1>5

\* Addresses with the same bits from k on lie in the same block of 2^k.
LEMMA SameBlock ==
    ASSUME NEW x \in Address, NEW y \in Address, NEW k \in 0..Width
    PROVE  (\A i \in k..(Width - 1) : HasBit(x, i) <=> HasBit(y, i))
             <=> x \div Pow2[k] = y \div Pow2[k]
<1> DEFINE X(i) == x \div Pow2[i]
           Y(i) == y \div Pow2[i]
<1>0. Width \in Nat \ {0} /\ x \in Nat /\ y \in Nat /\ k \in Nat
  BY NetworkAssumption, Pow2Facts DEF Address
<1>1. ASSUME NEW i \in Nat
      PROVE  /\ X(i) \in Nat /\ Y(i) \in Nat
             /\ X(i + 1) = X(i) \div 2 /\ Y(i + 1) = Y(i) \div 2
  <2>1. Pow2[i] \in Nat \ {0} /\ Pow2[i + 1] = 2 * Pow2[i]
    BY Pow2Facts
  <2>2. QED
    BY <1>0, <2>1, HalfAgain, DivDef
<1>2. X(Width) = 0 /\ Y(Width) = 0
  <2>1. Pow2[Width] \in Nat \ {0} /\ x < Pow2[Width] /\ y < Pow2[Width]
    BY <1>0, Pow2Facts DEF Address
  <2>2. x = Pow2[Width] * 0 + x /\ y = Pow2[Width] * 0 + y
    BY <1>0, <2>1
  <2>3. QED
    BY <1>0, <2>1, <2>2, DivUnique
<1>3. \A i \in Nat : (HasBit(x, i) <=> X(i) % 2 = 1) /\ (HasBit(y, i) <=> Y(i) % 2 = 1)
  BY DEF HasBit
<1> HIDE DEF X, Y
<1>4. ASSUME \A i \in k..(Width - 1) : HasBit(x, i) <=> HasBit(y, i) PROVE X(k) = Y(k)
  <2> DEFINE S == {n \in Nat : n <= Width - k => X(Width - n) = Y(Width - n)}
  <2>1. 0 \in S
    BY <1>0, <1>2
  <2>2. ASSUME NEW n \in S PROVE n + 1 \in S
    <3> SUFFICES ASSUME n + 1 <= Width - k PROVE X(Width - (n + 1)) = Y(Width - (n + 1))
      OBVIOUS
    <3> DEFINE i == Width - (n + 1)
    <3>1. i \in Nat /\ i \in k..(Width - 1) /\ i + 1 = Width - n /\ X(Width - n) = Y(Width - n)
      BY <1>0
    <3> HIDE DEF i
    <3>2. X(i) \div 2 = Y(i) \div 2 /\ X(i) \in Nat /\ Y(i) \in Nat
      BY <1>1, <3>1
    <3>3. X(i) % 2 = 1 <=> Y(i) % 2 = 1
      BY <1>3, <1>4, <3>1
    <3>4. X(i) = Y(i)
      BY <3>2, <3>3
    <3>5. QED
      BY <3>4 DEF i
  <2> HIDE DEF S
  <2>3. S \subseteq Nat
    BY DEF S
  <2>4. S = Nat
    BY <2>1, <2>2, <2>3, NatInd
  <2>5. Width - k \in S /\ Width - (Width - k) = k
    BY <1>0, <2>4
  <2>6. QED
    BY <2>5 DEF S
<1>5. ASSUME X(k) = Y(k) PROVE \A i \in k..(Width - 1) : HasBit(x, i) <=> HasBit(y, i)
  <2> DEFINE S == {n \in Nat : X(k + n) = Y(k + n)}
  <2>1. 0 \in S
    BY <1>0, <1>5
  <2>2. ASSUME NEW n \in S PROVE n + 1 \in S
    <3>1. k + n \in Nat /\ (k + n) + 1 = k + (n + 1) /\ X(k + n) = Y(k + n)
      BY <1>0
    <3>2. QED
      BY <1>1, <3>1
  <2> HIDE DEF S
  <2>3. S \subseteq Nat
    BY DEF S
  <2>4. S = Nat
    BY <2>1, <2>2, <2>3, NatInd
  <2>5. ASSUME NEW i \in k..(Width - 1) PROVE X(i) = Y(i) /\ i \in Nat
    <3>1. i - k \in S /\ k + (i - k) = i /\ i \in Nat
      BY <1>0, <2>4
    <3>2. QED
      BY <3>1 DEF S
  <2>6. QED
    BY <1>3, <2>5
<1>6. QED
  BY <1>4, <1>5 DEF X, Y

\* A range admits the aligned block of addresses around its base and no other.
LEMMA RuleAdmitsItsBlock ==
    ASSUME NEW rule \in Rule, NEW ip \in Address
    PROVE  LET size == IF rule.bits = Exact THEN 1 ELSE Pow2[Width - rule.bits]
           IN  MatchesRule(ip, rule) <=> (ip \div size = rule.base \div size)
<1>0. Width \in Nat \ {0} /\ Exact \notin Nat /\ ip \in Nat /\ rule.base \in Nat /\ rule.base \in Address
      /\ rule.bits \in (0..Width) \cup {Exact} /\ Pow2[Width] \in Nat /\ Pow2[0] = 1
  BY NetworkAssumption, Pow2Facts DEF Address, Rule
<1>1. CASE rule.bits = Exact \/ rule.bits = Width
  <2>1. MatchesRule(ip, rule) <=> ip = rule.base
    BY <1>0, <1>1 DEF MatchesRule
  <2>2. ip \div 1 = ip /\ rule.base \div 1 = rule.base
    BY <1>0
  <2>3. Width - Width = 0
    BY <1>0
  <2>4. QED
    BY <1>0, <1>1, <2>1, <2>2, <2>3
<1>2. CASE rule.bits = 0
  <2>1. MatchesRule(ip, rule)
    BY <1>0, <1>2 DEF MatchesRule
  <2>2. \A i \in Width..(Width - 1) : HasBit(ip, i) <=> HasBit(rule.base, i)
    BY <1>0
  <2>3. ip \div Pow2[Width] = rule.base \div Pow2[Width]
    <3>1. Width \in 0..Width
      BY <1>0
    <3>2. QED
      BY <1>0, <2>2, <3>1, SameBlock
  <2>4. Width - 0 = Width
    BY <1>0
  <2>5. QED
    BY <1>0, <1>2, <2>1, <2>3, <2>4
<1>3. CASE rule.bits \in 1..(Width - 1)
  <2> DEFINE k == Width - rule.bits
  <2>1. MatchesRule(ip, rule) <=> BitAnd(ip, Mask(rule.bits)) = BitAnd(rule.base, Mask(rule.bits))
    BY <1>0, <1>3 DEF MatchesRule
  <2>2. k \in 0..Width /\ rule.bits \in 0..Width
    BY <1>0, <1>3
  <2>3. \A i \in 0..(Width - 1) : HasBit(Mask(rule.bits), i) <=> i \in k..(Width - 1)
    BY <1>0, <2>2, MaskBits
  <2>4. BitAnd(ip, Mask(rule.bits)) = BitAnd(rule.base, Mask(rule.bits))
          <=> \A i \in k..(Width - 1) : HasBit(ip, i) <=> HasBit(rule.base, i)
    <3>1. k..(Width - 1) \subseteq 0..(Width - 1)
      BY <1>0, <2>2
    <3> HIDE DEF k
    <3>2. QED
      BY <2>3, <3>1 DEF BitAnd
  <2>5. QED
    BY <1>0, <1>3, <2>1, <2>2, <2>4, SameBlock
<1>4. QED
  BY <1>0, <1>1, <1>2, <1>3

PolicyInv == policy.rules \subseteq Rule /\ (policy.enabled => policy.rules # {})

\* Whatever policies are saved, one that is on admits somebody, and every range
\* in it admits exactly the aligned block of addresses around its base.
THEOREM PolicyAdmits == Spec => []PolicyAdmitsItsBlocks
<1>1. Init => PolicyInv
  BY DEF Init, PolicyInv
<1>2. PolicyInv /\ [Next]_vars => PolicyInv'
  <2> SUFFICES ASSUME PolicyInv, [Next]_vars PROVE PolicyInv'
    OBVIOUS
  <2>1. ASSUME NEW pol \in Policies, PutNetwork(pol) PROVE PolicyInv'
    BY <2>1, CourseAssumption DEF PutNetwork, PolicyAccepted, PolicyInv
  <2>2. ASSUME UNCHANGED policy PROVE PolicyInv'
    BY <2>2 DEF PolicyInv
  <2>3. CASE \E pol \in Policies : PutNetwork(pol)
    BY <2>1, <2>3
  <2>4. CASE ~\E pol \in Policies : PutNetwork(pol)
    <3>1. UNCHANGED policy
      BY <2>4 DEF Next, vars, PatchRead, PatchCount, PatchWrite, Join, Arrive, OpenRead, OpenCommit,
                  AskRestore, Mount, CountdownEnds, ClickSubmit, Flush, SubmitCheck, SubmitWrite, Leave, Tick
    <3>2. QED
      BY <2>2, <3>1
  <2>5. QED
    BY <2>3, <2>4
<1>3. PolicyInv => PolicyAdmitsItsBlocks
  <2> SUFFICES ASSUME PolicyInv PROVE PolicyAdmitsItsBlocks
    OBVIOUS
  <2>1. \A rule \in policy.rules, ip \in Address :
          LET size == IF rule.bits = Exact THEN 1 ELSE Pow2[Width - rule.bits]
          IN  MatchesRule(ip, rule) <=> (ip \div size = rule.base \div size)
    BY RuleAdmitsItsBlock DEF PolicyInv
  <2>2. ASSUME policy.enabled PROVE \E ip \in Address : IsNetworkAllowed(policy, ip)
    <3>1. PICK rule \in policy.rules : TRUE
      BY <2>2 DEF PolicyInv
    <3>2. rule.base \in Address /\ MatchesRule(rule.base, rule)
      BY <2>1, <3>1 DEF PolicyInv, Rule
    <3>3. QED
      BY <3>1, <3>2 DEF IsNetworkAllowed
  <2>3. QED
    BY <2>1, <2>2 DEF PolicyAdmitsItsBlocks
<1>4. QED
  BY <1>1, <1>2, <1>3, PTL DEF Spec
=============================================================================
