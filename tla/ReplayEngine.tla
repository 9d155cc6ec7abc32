---------------------------- MODULE ReplayEngine ----------------------------
(***************************************************************************)
(* The keystroke replay of codecep-client/src/lib/replayEngine.js, as pure *)
(* operators on the payload of GET /api/session/:id/replay:                *)
(*                                                                         *)
(*   d.snaps   one record per flush window: how many events it carried     *)
(*             (count), the workspace of every task at that flush (files), *)
(*             and whether it is the un-flushed live edge (open)           *)
(*   d.events  the events of all windows, flattened in log order           *)
(*                                                                         *)
(* A text is a sequence of characters.  An event names its task and file   *)
(* and carries the edit list Monaco reported: o offset, d characters       *)
(* deleted, t text inserted.                                               *)
(***************************************************************************)
EXTENDS Naturals, Sequences, FiniteSets, SequencesExt

(***************************************************************************)
(* One edit: slice, insert, skip what was deleted.  An offset outside the  *)
(* text is clamped rather than refused.                                    *)
(***************************************************************************)
ApplyChange(text, c) ==
    LET o == Min({c.o, Len(text)})
    IN  SubSeq(text, 1, o) \o c.t \o SubSeq(text, o + c.d + 1, Len(text))

\* Monaco lists the edits of one change from the end of the text backwards,
\* so none of them moves the offset of the next.
ApplyChanges(text, changes) ==
    LET after[k \in 0..Len(changes)] ==
            IF k = 0 THEN text ELSE ApplyChange(after[k - 1], changes[k])
    IN  after[Len(changes)]

(***************************************************************************)
(* File identity.  Only a session that spans several tasks qualifies a     *)
(* file by its task, so that two main.cpp are two files.                   *)
(***************************************************************************)
TaskIds(d) == {d.events[i].task : i \in DOMAIN d.events}
                \cup UNION {DOMAIN d.snaps[w].files : w \in DOMAIN d.snaps}

IsMultiTask(d) == Cardinality(TaskIds(d)) > 1

\* Variant: the name of the file alone, in every session.
QualifyNever(task, file, multi) == <<file>>

Qualify(task, file, multi) == IF multi THEN <<task, file>> ELSE <<file>>

FileOf(ev, multi) == Qualify(ev.task, ev.file, multi)

\* The recorded workspace of a window under the names the events use.
SnapshotFiles(snap, multi) ==
    LET Owners(key) == {o \in UNION {{t} \X DOMAIN snap.files[t] : t \in DOMAIN snap.files} :
                            Qualify(o[1], o[2], multi) = key}
        keys == UNION {{Qualify(t, f, multi) : f \in DOMAIN snap.files[t]} :
                            t \in DOMAIN snap.files}
    IN  [key \in keys |-> LET o == CHOOSE o \in Owners(key) : TRUE
                          IN  snap.files[o[1]][o[2]]]

\* Every file an event or a snapshot names.
FilesSeen(d) ==
    LET multi == IsMultiTask(d)
    IN  {FileOf(d.events[i], multi) : i \in DOMAIN d.events}
          \cup UNION {DOMAIN SnapshotFiles(d.snaps[w], multi) : w \in DOMAIN d.snaps}

(***************************************************************************)
(* The flattened events are cut back into windows by their counts alone.   *)
(* Events beyond the last count belong to the last window.                 *)
(***************************************************************************)
EventsUpTo(d, w) ==
    LET upTo[v \in 0..w] == IF v = 0 THEN 0 ELSE upTo[v - 1] + d.snaps[v].count
    IN  upTo[w]

WindowOf(d, i) == Min({Len(d.snaps)} \cup {w \in DOMAIN d.snaps : i <= EventsUpTo(d, w)})

EventsOf(d, w) ==
    SubSeq(d.events, EventsUpTo(d, w - 1) + 1,
           IF w = Len(d.snaps) THEN Len(d.events) ELSE EventsUpTo(d, w))

(***************************************************************************)
(* The checkpoint pass: play every window forward, compare the outcome     *)
(* with what was recorded, heal a file that differs and remember the       *)
(* window as inexact.  An open window has nothing to be compared with.     *)
(***************************************************************************)
PlayWindow(d, multi, cur, w) ==
    LET evs == EventsOf(d, w)
        played[k \in 0..Len(evs)] ==
            IF k = 0 THEN cur
            ELSE [played[k - 1] EXCEPT ![FileOf(evs[k], multi)] = ApplyChanges(@, evs[k].changes)]
    IN  played[Len(evs)]

Differs(cur, recorded) == {f \in DOMAIN recorded : cur[f] # recorded[f]}

\* Variant: the difference is noted and the played text kept.
CheckedUnhealed(pass, played, snap, multi) ==
    [ends  |-> Append(pass.ends, played),
     wrong |-> pass.wrong \cup
                   (IF ~snap.open /\ Differs(played, SnapshotFiles(snap, multi)) # {}
                      THEN {Len(pass.ends) + 1} ELSE {})]

Checked(pass, played, snap, multi) ==
    LET recorded == SnapshotFiles(snap, multi)
        wrong    == IF snap.open THEN {} ELSE Differs(played, recorded)
        healed   == [f \in DOMAIN played |-> IF f \in wrong THEN recorded[f] ELSE played[f]]
    IN  [ends  |-> Append(pass.ends, healed),
         wrong |-> pass.wrong \cup (IF wrong # {} THEN {Len(pass.ends) + 1} ELSE {})]

\* Every file starts empty: exams open blank.
BlankFiles(d) == [f \in FilesSeen(d) |-> <<>>]

EndOf(d, pass) == IF pass.ends = <<>> THEN BlankFiles(d) ELSE Last(pass.ends)

Pass(d) ==
    LET multi == IsMultiTask(d)
        upTo[w \in 0..Len(d.snaps)] ==
            IF w = 0 THEN [ends |-> <<>>, wrong |-> {}]
            ELSE LET pass == upTo[w - 1]
                 IN  Checked(pass, PlayWindow(d, multi, EndOf(d, pass), w), d.snaps[w], multi)
    IN  upTo[Len(d.snaps)]

\* Only a payload with events and windows is replayed from its edits.
ExactCapable(d) == d.events # <<>> /\ d.snaps # <<>>

Exact(d) == ExactCapable(d) /\ Pass(d).wrong = {}

\* The frame of an event, the text of its file just after it: the checkpoint
\* of the window before, then this window's edits of the file.
FrameText(d, ends, i) ==
    LET multi == IsMultiTask(d)
        w     == WindowOf(d, i)
        file  == FileOf(d.events[i], multi)
        evs   == SubSeq(d.events, EventsUpTo(d, w - 1) + 1, i)
        text[k \in 0..Len(evs)] ==
            IF k = 0 THEN IF w = 1 THEN <<>> ELSE ends[w - 1][file]
            ELSE IF FileOf(evs[k], multi) # file THEN text[k - 1]
            ELSE ApplyChanges(text[k - 1], evs[k].changes)
    IN  text[Len(evs)]

FrameTexts(d) ==
    LET ends == Pass(d).ends
    IN  [i \in DOMAIN d.events |-> FrameText(d, ends, i)]

\* What the player shows at and after the end of the timeline.
FinalFiles(d) == EndOf(d, Pass(d))

(***************************************************************************)
(* The payload narrowed to one task.  The counts are those of the events   *)
(* that survive; the snapshot is that task's workspace.                    *)
(***************************************************************************)
\* The positions of one task's events, in order.
KeptIn(evs, task) ==
    LET upTo[k \in 0..Len(evs)] ==
            IF k = 0 THEN <<>>
            ELSE IF evs[k].task = task THEN Append(upTo[k - 1], k) ELSE upTo[k - 1]
    IN  upTo[Len(evs)]

\* Variant: the count of the whole session is kept.
NarrowWindowStale(d, task, w) ==
    LET snap == d.snaps[w]
    IN  [snap EXCEPT !.files = IF task \in DOMAIN snap.files
                                 THEN [t \in {task} |-> snap.files[t]]
                                 ELSE snap.files]

NarrowWindow(d, task, w) ==
    LET snap == d.snaps[w]
    IN  [snap EXCEPT !.count = Len(KeptIn(EventsOf(d, w), task)),
                     !.files = IF task \in DOMAIN snap.files
                                 THEN [t \in {task} |-> snap.files[t]]
                                 ELSE snap.files]

\* Variant: as they were measured.
KeptEventsAsMeasured(d, task) == SelectSeq(d.events, LAMBDA ev : ev.task = task)

\* Where another task's events are left out between two of this task's, the
\* pause before the second runs from the first.
KeptEvents(d, task) ==
    LET kept == KeptIn(d.events, task)
        Since(k) == IF k = 1 \/ kept[k] = kept[k - 1] + 1
                      THEN d.events[kept[k]].since
                      ELSE Max({d.events[kept[k - 1]].at, d.events[kept[k]].at})
                             - d.events[kept[k - 1]].at
    IN  [k \in DOMAIN kept |-> [d.events[kept[k]] EXCEPT !.since = Since(k)]]

ReplayDataForTask(d, task) ==
    [d EXCEPT !.snaps  = [w \in DOMAIN d.snaps |-> NarrowWindow(d, task, w)],
              !.events = KeptEvents(d, task)]
=============================================================================
