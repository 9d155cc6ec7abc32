------------------------------ MODULE Timeline ------------------------------
(***************************************************************************)
(* The timeline of a replay (lib/replayEngine.js, lib/scrubberMarks.js and *)
(* the playback of components/DvrPlayer.jsx): when each edit is shown,     *)
(* which pauses may be skipped, where pastes and Tier-1 events are marked, *)
(* and the approximate replay of events that carry no edit list.           *)
(*                                                                         *)
(* To what ReplayEngine reads of a payload this adds, for an event, when   *)
(* it happened (at), how long after the one before (since), what kind it   *)
(* was (action) and, where the edit list is missing, the net growth        *)
(* (delta); for the payload, when the exam was opened (openedAt, a set     *)
(* with one moment, or empty) and the editor's text at each flush (code).  *)
(***************************************************************************)
EXTENDS ReplayEngine, Integers

CONSTANTS
    IdleGap,     \* DEFAULT_IDLE_GAP_MS
    LeadIn,      \* FALLBACK_LEAD_IN_MS
    PasteMin,    \* PASTE_MARK_MIN_CHARS
    SkipAfter, SkipBefore, SkipTo  \* where in a gap playback jumps, and to

ASSUME TimelineAssumption ==
    /\ {IdleGap, LeadIn, PasteMin, SkipAfter, SkipBefore, SkipTo} \subseteq Nat
    /\ 0 < SkipTo /\ SkipTo < SkipBefore /\ LeadIn > 0

-----------------------------------------------------------------------------
(***************************************************************************)
(* Moments, relative to when the exam was opened.                          *)
(***************************************************************************)
Origin(d) ==
    LET first == d.events[1].at
    IN  IF \E o \in d.openedAt : o < first
          THEN CHOOSE o \in d.openedAt : o < first
          ELSE first - LeadIn

\* Time never runs backwards, whatever order the windows came in.
Moments(d) ==
    [i \in DOMAIN d.events |-> Max({0} \cup {d.events[j].at - Origin(d) : j \in 1..i})]

Duration(d) == IF d.events = <<>> THEN 0 ELSE Last(Moments(d))

\* Pauses that playback may skip: before the first edit, and before every
\* edit that came long after the last.
Gaps(d) ==
    LET m == Moments(d)
        Pause(i) == IF i = 1 THEN m[1] ELSE d.events[i].since
    IN  {[start |-> m[i] - Pause(i), end |-> m[i]] :
            i \in {j \in DOMAIN m : Pause(j) > IdleGap}}

\* Playback reaches a moment in a gap and fast-forwards to just before its end.
SkipIdle(d, next) ==
    LET inside == {g \in Gaps(d) : next > g.start + SkipAfter /\ next < g.end - SkipBefore}
    IN  IF inside = {} THEN next ELSE (CHOOSE g \in inside : TRUE).end - SkipTo

\* The last edit not after a moment; 0 before the first.
FrameIndexAt(d, rel) ==
    LET m == Moments(d)
    IN  Max({0} \cup {i \in DOMAIN m : m[i] <= rel})

\* What the player shows: the file last edited, and its text.
StateAt(d, rel) ==
    LET multi  == IsMultiTask(d)
        i      == FrameIndexAt(d, rel)
        ending == FileOf(Last(d.events), multi)
    IN  CASE rel >= Duration(d) -> [file |-> ending, text |-> FinalFiles(d)[ending]]
          [] rel < Duration(d) /\ i > 0 ->
                [file |-> FileOf(d.events[i], multi), text |-> FrameText(d, Pass(d).ends, i)]
          [] OTHER -> [file |-> FileOf(d.events[1], multi), text |-> <<>>]

-----------------------------------------------------------------------------
(***************************************************************************)
(* Marks.                                                                  *)
(***************************************************************************)
Inserted(changes) == FoldLeft(LAMBDA n, c : n + Len(c.t), 0, changes)
Deleted(changes) == FoldLeft(LAMBDA n, c : n + c.d, 0, changes)

\* Variant: what the text grew by.
NetChars(ev) == IF ev.changes # <<>> THEN Inserted(ev.changes) - Deleted(ev.changes)
                                     ELSE Max({0, ev.delta})

\* What an event inserted, whatever it replaced.
InsertedChars(ev) ==
    IF ev.changes # <<>> THEN Inserted(ev.changes) ELSE Max({0, ev.delta})

IsMarked(ev) == ev.action = "paste" /\ InsertedChars(ev) >= PasteMin

\* The mark of a paste is where its first edit put its text.
PasteMarks(d) ==
    {[t     |-> Moments(d)[i],
      file  |-> FileOf(d.events[i], IsMultiTask(d)),
      start |-> d.events[i].changes[1].o,
      end   |-> d.events[i].changes[1].o + Len(d.events[i].changes[1].t)] :
        i \in {j \in DOMAIN d.events : IsMarked(d.events[j])}}

\* Pastes are marked from the edits, so their alerts are not.
TickKind(type) == CASE type = "TAB_OUT" -> "tabout"
                    [] type = "AST_VIOLATION" -> "ast"
                    [] OTHER -> "none"

\* The marks on the scrubber, all within the timeline.
TickMarks(d, marks, tier1) ==
    LET Clamp(t) == Max({0, Min({Duration(d), t})})
    IN  IF Duration(d) = 0 THEN {} ELSE
        {[kind |-> "paste", t |-> Clamp(m.t)] : m \in marks}
            \cup {[kind |-> TickKind(e.type), t |-> Clamp(e.at - Origin(d))] :
                    e \in {a \in tier1 : TickKind(a.type) # "none"}}

\* A task's own timeline has no Tier-1 marks, and a take-home no tab-outs.
TierOneShown(tier1, perTask, takeHome) ==
    IF perTask THEN {} ELSE {e \in tier1 : ~(takeHome /\ e.type = "TAB_OUT")}

-----------------------------------------------------------------------------
(***************************************************************************)
(* Events without edit lists.  Between two flushes the difference of the   *)
(* editor's texts, one region, is spread over the window's events in       *)
(* proportion to how much each typed or deleted.                           *)
(***************************************************************************)
Agree(from, to, p) == SubSeq(from, 1, p) = SubSeq(to, 1, p)

AgreeAtEnd(from, to, s) ==
    SubSeq(from, Len(from) - s + 1, Len(from)) = SubSeq(to, Len(to) - s + 1, Len(to))

Region(from, to, p, s) ==
    [prefix   |-> SubSeq(to, 1, p),
     suffix   |-> SubSeq(to, Len(to) - s + 1, Len(to)),
     removed  |-> SubSeq(from, p + 1, Len(from) - s),
     inserted |-> SubSeq(to, p + 1, Len(to) - s)]

\* Variant: the common end may reach into the common start.
DiffTextsOverlapping(from, to) ==
    LET shorter == Min({Len(from), Len(to)})
    IN  Region(from, to, Max({p \in 0..shorter : Agree(from, to, p)}),
                         Max({s \in 0..shorter : AgreeAtEnd(from, to, s)}))

DiffTexts(from, to) ==
    LET shorter == Min({Len(from), Len(to)})
        p       == Max({n \in 0..shorter : Agree(from, to, n)})
    IN  Region(from, to, p, Max({s \in 0..shorter - p : AgreeAtEnd(from, to, s)}))

SegmentOf(d, w) == {i \in DOMAIN d.events : EventsUpTo(d, w - 1) < i /\ i <= EventsUpTo(d, w)}

SegmentDiff(d, w) == DiffTexts(IF w = 1 THEN <<>> ELSE d.code[w - 1], d.code[w])

\* Math.round of a quotient of naturals.
Round(n, m) == (2 * n + m) \div (2 * m)

\* What an amount comes to after the first k events of a segment, in proportion
\* to their sizes where there are any; the last event has all of it.
Share(amount, sizes, k, otherwise) ==
    LET acc[j \in 0..Len(sizes)] == IF j = 0 THEN 0 ELSE acc[j - 1] + sizes[j]
        total == acc[Len(sizes)]
    IN  CASE k = Len(sizes) -> amount
          [] k # Len(sizes) /\ total > 0 -> Min({amount, Round(amount * acc[k], total)})
          [] OTHER -> otherwise

LegacyFrame(d, i) ==
    LET w        == CHOOSE v \in DOMAIN d.code : i \in SegmentOf(d, v)
        from     == EventsUpTo(d, w - 1)
        count    == d.snaps[w].count
        inserted == Len(SegmentDiff(d, w).inserted)
        typed    == [k \in 1..count |-> Max({0, d.events[from + k].delta})]
        erased   == [k \in 1..count |-> Max({0, -d.events[from + k].delta})]
    IN  [seg |-> w,
         ins |-> Share(inserted, typed, i - from, Round(inserted * (i - from), count)),
         del |-> Share(Len(SegmentDiff(d, w).removed), erased, i - from, 0)]

\* textForFrame.
LegacyText(d, i) ==
    LET f    == LegacyFrame(d, i)
        diff == SegmentDiff(d, f.seg)
    IN  diff.prefix \o SubSeq(diff.inserted, 1, f.ins)
            \o SubSeq(diff.removed, 1, Len(diff.removed) - f.del) \o diff.suffix

\* All that a record without events can show, and every record at its end.
FinalText(d) == IF d.code = <<>> THEN <<>> ELSE Last(d.code)

LegacyTextAt(d, rel) ==
    LET i == FrameIndexAt(d, rel)
    IN  CASE d.events = <<>> \/ rel >= Duration(d) -> FinalText(d)
          [] d.events # <<>> /\ rel < Duration(d) /\ i > 0 -> LegacyText(d, i)
          [] OTHER -> <<>>

\* A legacy mark is the part of the region a paste realizes.
LegacyMarks(d) ==
    LET Mark(i) ==
            LET f      == LegacyFrame(d, i)
                before == IF i - 1 \in SegmentOf(d, f.seg) THEN LegacyFrame(d, i - 1).ins ELSE 0
                start  == Len(SegmentDiff(d, f.seg).prefix)
            IN  [i |-> i, t |-> Moments(d)[i], start |-> start + before, end |-> start + f.ins]
    IN  {Mark(i) : i \in {j \in DOMAIN d.events : IsMarked(d.events[j])}}
=============================================================================
