------------------------------ MODULE LiveEdge ------------------------------
(***************************************************************************)
(* The data of a live watch.  The student's keystrokes reach the player    *)
(* twice: in the windows the page posts to the record, and one by one over *)
(* the socket while somebody watches.  The player re-reads the record when *)
(* it is told of a flush, appends the live keystrokes the record does not  *)
(* hold yet as one open window (stitchLive), and replays the whole         *)
(* (ReplayEngine).                                                         *)
(*                                                                         *)
(* LiveWatch has the control plane: who watches, joins and leaves.  Here   *)
(* one player watches one student, and what matters is the order in which  *)
(* keystrokes, syncs, flushes and answers arrive.                          *)
(*                                                                         *)
(* Keystroke k is the k-th one and carries the timestamp k: the key that   *)
(* liveEventKey computes from an event tells two keystrokes apart.         *)
(***************************************************************************)
EXTENDS ReplayEngine

CONSTANT MaxActs   \* keystrokes, reconnects, and lost or overtaken
                   \* requests, answers and events, together

ASSUME LiveEdgeAssumption == MaxActs \in Nat

VARIABLES
    typed,    \* every keystroke: its edits and the text after it
    drained,  \* keystrokes 1..drained have left telemetryBuffer
    ticked,   \* keystrokes 1..ticked have had their deferred emit
    watched, synced, retry,  \* liveStream.js: flags, and an armed retry timer
    signals,  \* live:start and live:stop on their way to the student
    posts,    \* windows on their way to the server, or answered by it
    log,      \* playback_log
    chan,     \* messages on their way to the player, in order
    asked,    \* GET .../replay in flight, by the length of the log when asked
    data,     \* how many windows of the log the player has
    live,     \* liveEvents
    syncedAt, \* 0 until live:synced
    faults, drops,  \* counters, bounded
    missed    \* history: an announcement was lost in a reconnect, none came since

vars == <<typed, drained, ticked, watched, synced, retry, signals, posts, log, chan,
          asked, data, live, syncedAt, faults, drops, missed>>

student == <<typed, drained, ticked>>
stream  == <<watched, synced, retry>>
player  == <<data, live, syncedAt, missed>>
bounded == <<faults, drops>>

Text(k) == IF k = 0 THEN <<>> ELSE typed[k].after

CurrentText == Text(Len(typed))

Init ==
    /\ typed = <<>> /\ drained = 0 /\ ticked = 0
    /\ watched = FALSE /\ synced = FALSE /\ retry = FALSE
    /\ signals = <<"start">>
    /\ posts = {}
    /\ log = <<>>
    /\ chan = <<>>
    /\ asked = {}
    /\ data = 0 /\ live = <<>> /\ syncedAt = 0
    /\ faults = 0 /\ drops = 0 /\ missed = FALSE

\* Two flush announcements in a row make the player read the same record
\* twice; they are kept as one.
Flushed == [kind |-> "flushed", k |-> 0]
Announce(ms) == IF ms # <<>> /\ Last(ms) = Flushed THEN ms ELSE Append(ms, Flushed)

RoomToAct == Len(typed) + faults + drops < MaxActs

Fault == RoomToAct /\ faults' = faults + 1

-----------------------------------------------------------------------------
(***************************************************************************)
(* The student's page.                                                     *)
(***************************************************************************)
Change(o, d, t) == [o |-> o, d |-> d, t |-> t]

\* One keystroke: a character typed at the end, or one taken back.
Keystrokes(s, x) ==
    {[changes |-> <<Change(Len(s), 0, <<x>>)>>, after |-> Append(s, x)]}
    \cup IF s = <<>> THEN {} ELSE
    {[changes |-> <<Change(Len(s) - 1, 1, <<>>)>>, after |-> Front(s)]}

Edit ==
    /\ RoomToAct /\ ticked = Len(typed)
    /\ \E k \in Keystrokes(CurrentText, Len(typed) + 1) : typed' = Append(typed, k)
    /\ UNCHANGED <<drained, ticked, stream, signals, posts, log, chan, asked, player, bounded>>

\* The relay passes a keystroke on to the watch room; one over the size limit
\* it drops, which counts among the faults.
Relay(m) ==
    \/ chan' = Append(chan, m) /\ UNCHANGED faults
    \/ Fault /\ UNCHANGED chan

\* The emit of a keystroke is deferred by a timer, which runs before the next
\* keystroke, and sends only while the stream is armed and synced.
Emit ==
    /\ ticked < Len(typed)
    /\ ticked' = ticked + 1
    /\ IF watched /\ synced
         THEN Relay([kind |-> "keystroke", k |-> ticked + 1])
         ELSE UNCHANGED <<chan, faults>>
    /\ UNCHANGED <<typed, drained, stream, signals, posts, log, asked, player, drops>>

\* The window a drain produces; at is not 0 when syncNow awaits it.
Window(at) == [first |-> drained + 1, last |-> Len(typed), at |-> at, landed |-> FALSE]

Buffered == drained < Len(typed)

Drain(at) ==
    /\ posts' = posts \cup {Window(at)}
    /\ drained' = Len(typed)

IntervalFlush ==
    /\ Buffered
    /\ Drain(0)
    /\ UNCHANGED <<typed, ticked, stream, signals, log, chan, asked, player, bounded>>

\* syncNow from its first line to its await.  The clock is read before the
\* drain and may still show the millisecond of the last keystroke.  An empty
\* buffer is nothing to wait for.
SyncNow ==
    \/ /\ synced
       /\ UNCHANGED <<synced, posts, drained, chan>>
    \/ /\ ~synced
       /\ \E at \in {Len(typed), Len(typed) + 1} \ {0} :
             IF Buffered
               THEN Drain(at) /\ UNCHANGED <<synced, chan>>
               ELSE /\ synced' = TRUE
                    /\ chan' = Append(chan, [kind |-> "synced", k |-> at])
                    /\ UNCHANGED <<posts, drained>>

HearStart ==
    /\ signals # <<>> /\ Head(signals) = "start"
    /\ signals' = Tail(signals)
    /\ watched' = TRUE
    /\ IF watched THEN UNCHANGED <<synced, posts, drained, chan>> ELSE SyncNow
    /\ UNCHANGED <<typed, ticked, retry, log, asked, player, bounded>>

HearStop ==
    /\ signals # <<>> /\ Head(signals) = "stop"
    /\ signals' = Tail(signals)
    /\ watched' = FALSE /\ synced' = FALSE /\ retry' = FALSE
    /\ UNCHANGED <<student, posts, log, chan, asked, player, bounded>>

RetrySync ==
    /\ retry
    /\ retry' = FALSE
    /\ IF watched THEN SyncNow ELSE UNCHANGED <<synced, posts, drained, chan>>
    /\ UNCHANGED <<typed, ticked, watched, signals, log, asked, player, bounded>>

\* The student's socket drops and comes back; join is answered with
\* live:start because somebody watches.  What the server had sent is lost.
StudentReconnects ==
    /\ RoomToAct
    /\ drops' = drops + 1
    /\ watched' = FALSE /\ synced' = FALSE
    /\ signals' = <<"start">>
    /\ UNCHANGED <<student, retry, posts, log, chan, asked, player, faults>>

-----------------------------------------------------------------------------
(***************************************************************************)
(* Flushes.  The ingest route appends the window and tells the watchers;   *)
(* its answer tells the page, which tells them again, and lets an awaiting *)
(* syncNow go on.  A request without an answer is a failed flush.          *)
(***************************************************************************)
Land(p) ==
    /\ ~p.landed
    /\ IF \E q \in posts : ~q.landed /\ q.first < p.first THEN Fault ELSE UNCHANGED faults
    /\ posts' = (posts \ {p}) \cup {[p EXCEPT !.landed = TRUE]}
    /\ log' = Append(log, [first |-> p.first, last |-> p.last])
    /\ chan' = Announce(chan)
    /\ UNCHANGED <<student, stream, signals, asked, player, drops>>

Answered(p) ==
    /\ p.landed
    /\ posts' = posts \ {p}
    /\ synced' = (synced \/ p.at # 0)
    /\ chan' = (IF watched THEN Announce(chan) ELSE chan)
                    \o (IF p.at # 0 THEN <<[kind |-> "synced", k |-> p.at]>> ELSE <<>>)
    /\ UNCHANGED <<student, watched, retry, signals, log, asked, player, bounded>>

Fails(p) ==
    /\ Fault
    /\ posts' = posts \ {p}
    /\ retry' = (retry \/ p.at # 0)
    /\ UNCHANGED <<student, watched, synced, signals, log, chan, asked, player, drops>>

-----------------------------------------------------------------------------
(***************************************************************************)
(* The player.                                                             *)
(***************************************************************************)
\* Variant: only the end of a sync makes the player read the record again.
ReceiveSyncedOnly ==
    /\ chan # <<>>
    /\ chan' = Tail(chan)
    /\ LET m == Head(chan)
       IN  /\ live' = IF m.kind = "keystroke" THEN Append(live, m.k) ELSE live
           /\ syncedAt' = IF m.kind = "synced" THEN m.k ELSE syncedAt
           /\ asked' = IF m.kind = "synced" THEN asked \cup {Len(log)} ELSE asked
           /\ missed' = (missed /\ m.kind = "keystroke")
    /\ UNCHANGED <<student, stream, signals, posts, log, data, bounded>>

Receive ==
    /\ chan # <<>>
    /\ chan' = Tail(chan)
    /\ LET m == Head(chan)
       IN  /\ live' = IF m.kind = "keystroke" THEN Append(live, m.k) ELSE live
           /\ syncedAt' = IF m.kind = "synced" THEN m.k ELSE syncedAt
           /\ asked' = IF m.kind = "keystroke" THEN asked ELSE asked \cup {Len(log)}
           /\ missed' = (missed /\ m.kind = "keystroke")
    /\ UNCHANGED <<student, stream, signals, posts, log, data, bounded>>

\* An answer read when the request was made, or applied out of turn, counts
\* among the faults; the others show the row as it is.
ApplyReplay(n) ==
    /\ \/ n = Min(asked) /\ data' = Len(log) /\ UNCHANGED faults
       \/ n < Len(log) /\ data' = n /\ Fault
    /\ asked' = asked \ {n}
    /\ UNCHANGED <<student, stream, signals, posts, log, chan, live, syncedAt, missed, drops>>

\* The player's socket drops and comes back: the tail and the sync point go.
\* If the server noticed the drop before the new socket asks to watch, the watch
\* starts over and the student syncs again; otherwise the new socket only joins
\* a watch that never stopped, and what was announced meanwhile is not made up.
PlayerReconnects ==
    /\ RoomToAct
    /\ drops' = drops + 1
    /\ chan' = <<>> /\ live' = <<>> /\ syncedAt' = 0
    /\ \/ signals' = signals \o <<"stop", "start">> /\ UNCHANGED missed
       \/ /\ missed' = (missed \/ \E i \in DOMAIN chan : chan[i].kind # "keystroke")
          /\ UNCHANGED signals
    /\ UNCHANGED <<student, stream, posts, log, asked, data, faults>>

-----------------------------------------------------------------------------
(***************************************************************************)
(* What is on screen.                                                      *)
(***************************************************************************)
EventsIn(w) == [i \in 1..(w.last - w.first + 1) |-> w.first + i - 1]

RecordedEvents == FlattenSeq([w \in 1..data |-> EventsIn(log[w])])

\* The members of a set of keystrokes, each once, in the order of their
\* timestamps.
Ascending(S) ==
    CHOOSE s \in [1..Cardinality(S) -> S] : \A i, j \in DOMAIN s : i < j => s[i] < s[j]

\* Variant: the sync point alone decides.
DedupeBySyncPoint(recorded, arrived, since) ==
    Ascending({k \in ToSet(arrived) : k >= since})

\* dedupeLiveEvents: nothing from before the sync point, nothing the record
\* has, nothing twice.
DedupeLiveEvents(recorded, arrived, since) ==
    LET fresh == {k \in ToSet(arrived) : k >= since /\ k \notin ToSet(recorded)}
    IN  Ascending(fresh)

LiveTail == IF syncedAt = 0 THEN <<>>
                            ELSE DedupeLiveEvents(RecordedEvents, live, syncedAt)

Event(k) == [task |-> "task1", file |-> "main.cpp", changes |-> typed[k].changes]

Recorded(w) == [count |-> w.last - w.first + 1,
                files |-> [t \in {"task1"} |-> [f \in {"main.cpp"} |-> Text(w.last)]],
                open  |-> FALSE]

OpenWindow(n) == [count |-> n, files |-> <<>>, open |-> TRUE]

StitchLive ==
    [snaps  |-> [w \in 1..data |-> Recorded(log[w])]
                    \o (IF LiveTail = <<>> THEN <<>> ELSE <<OpenWindow(Len(LiveTail))>>),
     events |-> LET ks == RecordedEvents \o LiveTail
                IN  [i \in DOMAIN ks |-> Event(ks[i])]]

Shown == IF StitchLive.snaps = <<>> THEN <<>> ELSE FinalFiles(StitchLive)[<<"main.cpp">>]

Next ==
    \/ Edit \/ Emit \/ IntervalFlush
    \/ HearStart \/ HearStop \/ RetrySync \/ StudentReconnects
    \/ \E p \in posts : Land(p) \/ Answered(p) \/ Fails(p)
    \/ Receive \/ PlayerReconnects
    \/ \E n \in asked : ApplyReplay(n)

Spec == Init /\ [][Next]_vars

\* Timers, requests and messages are served; typing, faults and reconnects
\* are nobody's duty.
FairSpec ==
    /\ Spec
    /\ WF_vars(Emit) /\ WF_vars(IntervalFlush)
    /\ WF_vars(HearStart) /\ WF_vars(HearStop) /\ WF_vars(RetrySync)
    /\ WF_vars(\E p \in posts : Land(p)) /\ WF_vars(\E p \in posts : Answered(p))
    /\ WF_vars(Receive) /\ WF_vars(\E n \in asked : ApplyReplay(n))

-----------------------------------------------------------------------------
\* The windows the player has are the windows the student posted, in order
\* and none missing.
WholeRecord ==
    \A w \in 1..data : log[w].first = (IF w = 1 THEN 1 ELSE log[w - 1].last + 1)

\* What is on screen is made of the record and the tail without a hole:
\* every keystroke up to the last one shown is in one of the two.
OnScreen == ToSet(RecordedEvents \o LiveTail)

NoHole == OnScreen = 1..Cardinality(OnScreen)

\* Without a hole in what the player has received, the live edge is exactly
\* a text the student had, and the newest one the player can know, and so is
\* every moment the player scrubs back to: no keystroke is applied twice and
\* none out of order, whichever of the record and the stream delivered it,
\* across reconnects, retried syncs and answers that overtake one another.
EdgeIsTrue ==
    WholeRecord /\ NoHole =>
        /\ Shown = Text(Cardinality(OnScreen))
        /\ \A k \in OnScreen : FrameTexts(StitchLive)[k] = Text(k)

\* If no request, event or answer is lost or overtaken, the live edge settles
\* on the student's text: also across reconnects, unless the last announcement
\* of a flush or a sync fell into one that made nobody sync again.
EdgeSettles == [](faults = 0) /\ <>[]~missed => <>[](Shown = CurrentText)
=============================================================================
