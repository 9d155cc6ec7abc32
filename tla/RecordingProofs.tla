--------------------------- MODULE RecordingProofs ---------------------------
(***************************************************************************)
(* Proofs of RestoreMatchesReplay, ReplayIsExact, TaskReplayAgrees,        *)
(* PastesAreMarked, TimelineKeepsTime and LegacyMeetsSnapshots for any     *)
(* exam, files, edits, faults and reloads.                                 *)
(***************************************************************************)
EXTENDS Recording, FiniteSetTheorems, SequenceTheorems, WellFoundedInduction, TLAPS

(***************************************************************************)
(* Induction and recursion over the naturals, from the well-foundedness of *)
(* their order.                                                            *)
(***************************************************************************)
LEMMA LeastNat ==
    ASSUME NEW T, T \subseteq Nat, T # {}
    PROVE  \E n \in T : \A m \in T : n <= m
<1>1. PICK n \in T : \A m \in T : <<m, n>> \notin OpToRel(<, Nat)
  BY NatLessThanWellFounded, WFMin
<1>2. \A m \in T : ~(m < n)
  <2> SUFFICES ASSUME NEW m \in T, m < n PROVE FALSE
    OBVIOUS
  <2>1. <<m, n>> \in OpToRel(<, Nat)
    BY DEF OpToRel
  <2>2. QED
    BY <1>1, <2>1
<1>3. QED
  BY <1>2

LEMMA NatInd ==
    ASSUME NEW S, S \subseteq Nat, 0 \in S, \A n \in S : n + 1 \in S
    PROVE  S = Nat
<1> DEFINE T == Nat \ S
<1>1. SUFFICES ASSUME T # {} PROVE FALSE
  OBVIOUS
<1>2. PICK n \in T : \A m \in T : n <= m
  BY <1>1, LeastNat
<1>3. n # 0 /\ n - 1 \in Nat /\ n - 1 \notin T
  BY <1>2
<1>4. QED
  BY <1>3

\* A recursion that steps from i - 1 to i has a solution.
Solves(g, n, D, base, step) ==
    /\ g \in [0 .. n -> D] /\ g[0] = base
    /\ \A i \in 1 .. n : g[i] = step[<<i, g[i - 1]>>]

LEMMA Iterates ==
    ASSUME NEW n \in Nat, NEW D, NEW base \in D, NEW step \in [(1 .. n) \X D -> D]
    PROVE  \E g : Solves(g, n, D, base, step)
<1> DEFINE Sol(g, k) == Solves(g, k, D, base, step)
           S == {k \in Nat : k <= n => \E g : Sol(g, k)}
<1>1. 0 \in S
  <2>1. Sol([i \in 0 .. 0 |-> base], 0)
    BY DEF Solves
  <2> HIDE DEF Sol
  <2>2. QED
    BY <2>1
<1>2. ASSUME NEW k \in S PROVE k + 1 \in S
  <2> SUFFICES ASSUME k + 1 <= n PROVE \E g : Sol(g, k + 1)
    OBVIOUS
  <2>1. k \in Nat /\ k <= n
    OBVIOUS
  <2>2. PICK g : Sol(g, k)
    BY <2>1
  <2> DEFINE h == [i \in 0 .. (k + 1) |-> IF i = k + 1 THEN step[<<k + 1, g[k]>>] ELSE g[i]]
  <2>3. g[k] \in D /\ step[<<k + 1, g[k]>>] \in D
    BY <2>1, <2>2 DEF Solves
  <2>4. h \in [0 .. (k + 1) -> D] /\ h[0] = base
    BY <2>1, <2>2, <2>3 DEF Solves
  <2>5. ASSUME NEW i \in 1 .. (k + 1) PROVE h[i] = step[<<i, h[i - 1]>>]
    <3>1. i - 1 \in 0 .. k /\ h[i - 1] = g[i - 1]
      BY <2>1
    <3>2. CASE i = k + 1
      <4>1. h[k + 1] = step[<<k + 1, g[k]>>] /\ (k + 1) - 1 = k
        BY <2>1
      <4>2. QED
        BY <3>1, <3>2, <4>1
    <3>3. CASE i # k + 1
      <4>1. i \in 1 .. k /\ h[i] = g[i]
        BY <2>1, <3>3
      <4>2. QED
        BY <2>2, <3>1, <4>1 DEF Solves
    <3>4. QED
      BY <3>2, <3>3
  <2> HIDE DEF h
  <2>6. QED
    BY <2>4, <2>5 DEF Solves
<1>3. S = Nat
  <2> HIDE DEF S
  <2>1. S \subseteq Nat
    BY DEF S
  <2>2. QED
    BY <1>1, <1>2, <2>1, NatInd
<1>4. QED
  BY <1>3

LEMMA SolvesOnce ==
    ASSUME NEW n \in Nat, NEW D, NEW base, NEW step, NEW g, Solves(g, n, D, base, step),
           NEW f, f[0] = base, \A i \in 1 .. n : f[i - 1] \in D => f[i] = step[<<i, f[i - 1]>>]
    PROVE  \A k \in 0 .. n : f[k] = g[k]
<1> DEFINE S == {k \in Nat : k <= n => f[k] = g[k]}
<1>1. 0 \in S
  BY DEF Solves
<1>2. ASSUME NEW k \in S PROVE k + 1 \in S
  <2> SUFFICES ASSUME k + 1 <= n PROVE f[k + 1] = g[k + 1]
    OBVIOUS
  <2>1. k + 1 \in 1 .. n /\ (k + 1) - 1 = k /\ f[k] = g[k] /\ k \in 0 .. n
    OBVIOUS
  <2>2. g[k] \in D /\ g[k + 1] = step[<<k + 1, g[k]>>]
    BY <2>1 DEF Solves
  <2>3. QED
    BY <2>1, <2>2
<1>3. S = Nat
  <2> HIDE DEF S
  <2>1. S \subseteq Nat
    BY DEF S
  <2>2. QED
    BY <1>1, <1>2, <2>1, NatInd
<1>4. QED
  BY <1>3

-----------------------------------------------------------------------------
(***************************************************************************)
(* Texts and edits.                                                        *)
(***************************************************************************)
Text == Seq(Nat)

OneEdit == [o : Nat, d : Nat, t : Text]

LEMMA MinOfTwo ==
    ASSUME NEW a \in Nat, NEW b \in Nat
    PROVE  Min({a, b}) = IF a <= b THEN a ELSE b
<1> DEFINE m == IF a <= b THEN a ELSE b
<1>1. m \in {a, b} /\ \A y \in {a, b} : m <= y
  OBVIOUS
<1>2. \A x \in {a, b} : (\A y \in {a, b} : x <= y) => x = m
  OBVIOUS
<1> HIDE DEF m
<1>3. Min({a, b}) = m
  BY <1>1, <1>2 DEF Min
<1>4. QED
  BY <1>3 DEF m

LEMMA ApplyChangeType ==
    ASSUME NEW text \in Text, NEW c \in OneEdit
    PROVE  ApplyChange(text, c) \in Text
<1> DEFINE o == Min({c.o, Len(text)})
<1>1. Len(text) \in Nat /\ c.o \in Nat /\ c.d \in Nat /\ c.t \in Text
  BY LenProperties DEF Text, OneEdit
<1>2. o \in Nat /\ o <= Len(text)
  BY <1>1, MinOfTwo
<1> HIDE DEF o
<1>3. \A i \in 1 .. Len(text) : text[i] \in Nat
  BY ElementOfSeq DEF Text
<1>4. SubSeq(text, 1, o) \in Seq(Nat)
  <2>1. \A i \in 1 .. o : text[i] \in Nat
    BY <1>1, <1>2, <1>3
  <2>2. QED
    BY <1>2, <2>1, SubSeqProperties
<1>5. SubSeq(text, o + c.d + 1, Len(text)) \in Seq(Nat)
  <2>1. \A i \in o + c.d + 1 .. Len(text) : text[i] \in Nat
    BY <1>1, <1>2, <1>3
  <2>2. QED
    BY <1>1, <1>2, <2>1, SubSeqProperties
<1>6. ApplyChange(text, c) = SubSeq(text, 1, o) \o c.t \o SubSeq(text, o + c.d + 1, Len(text))
  BY DEF ApplyChange, o
<1>7. SubSeq(text, 1, o) \o c.t \in Seq(Nat)
  BY <1>1, <1>4, ConcatProperties DEF Text
<1>8. QED
  BY <1>5, <1>6, <1>7, ConcatProperties DEF Text

LEMMA ApplyChangesSteps ==
    ASSUME NEW text \in Text, NEW cs \in Seq(OneEdit)
    PROVE  \E g : /\ g \in [0 .. Len(cs) -> Text] /\ g[0] = text
                  /\ \A k \in 1 .. Len(cs) : g[k] = ApplyChange(g[k - 1], cs[k])
                  /\ ApplyChanges(text, cs) = g[Len(cs)]
<1> DEFINE n == Len(cs)
           step == [p \in (1 .. n) \X Text |-> ApplyChange(p[2], cs[p[1]])]
           F(f) == [k \in 0 .. n |-> IF k = 0 THEN text ELSE ApplyChange(f[k - 1], cs[k])]
           after == CHOOSE f : f = F(f)
<1>1. n \in Nat /\ \A k \in 1 .. n : cs[k] \in OneEdit
  BY LenProperties, ElementOfSeq
<1>2. ApplyChanges(text, cs) = after[n]
  BY DEF ApplyChanges
<1> HIDE DEF n
<1>3. step \in [(1 .. n) \X Text -> Text]
  BY <1>1, ApplyChangeType
<1>4. PICK g : Solves(g, n, Text, text, step)
  <2> HIDE DEF step
  <2>1. QED
    BY <1>1, <1>3, Iterates
<1>5. \A k \in 1 .. n : k - 1 \in 0 .. n /\ k # 0 /\ k \in 0 .. n
  BY <1>1
<1>6. \A k \in 1 .. n : g[k] = ApplyChange(g[k - 1], cs[k])
  BY <1>4, <1>5 DEF Solves
<1>7. g = F(g)
  <2>1. \A k \in 0 .. n : k = 0 \/ k \in 1 .. n
    BY <1>1
  <2>2. QED
    BY <1>4, <1>5, <1>6, <2>1 DEF Solves
<1>8. after = F(after)
  <2> HIDE DEF F
  <2>1. QED
    BY <1>7
<1>9. after[0] = text /\ \A k \in 1 .. n : after[k] = ApplyChange(after[k - 1], cs[k])
  <2>1. 0 \in 0 .. n
    BY <1>1
  <2> HIDE DEF after
  <2>2. QED
    BY <1>5, <1>8, <2>1
<1> HIDE DEF after, F
<1>10. \A k \in 0 .. n : after[k] = g[k]
  <2> DEFINE T == {k \in Nat : k <= n => after[k] = g[k]}
  <2>1. 0 \in T
    BY <1>4, <1>9 DEF Solves
  <2>2. ASSUME NEW k \in T PROVE k + 1 \in T
    <3> SUFFICES ASSUME k + 1 <= n PROVE after[k + 1] = g[k + 1]
      OBVIOUS
    <3>1. k + 1 \in 1 .. n /\ (k + 1) - 1 = k /\ after[k] = g[k]
      BY <1>1
    <3>2. QED
      BY <1>6, <1>9, <3>1
  <2> HIDE DEF T
  <2>3. T = Nat
    <3>1. T \subseteq Nat
      BY DEF T
    <3>2. QED
      BY <2>1, <2>2, <3>1, NatInd
  <2>4. \A k \in 0 .. n : k \in T /\ k <= n
    BY <1>1, <2>3
  <2>5. QED
    BY <2>4 DEF T
<1>11. ApplyChanges(text, cs) = g[n]
  BY <1>1, <1>2, <1>10
<1>12. g \in [0 .. n -> Text] /\ g[0] = text
  BY <1>4 DEF Solves
<1>13. QED
  BY <1>6, <1>11, <1>12 DEF n

LEMMA ApplyChangesType ==
    ASSUME NEW text \in Text, NEW cs \in Seq(OneEdit)
    PROVE  ApplyChanges(text, cs) \in Text
<1>1. Len(cs) \in 0 .. Len(cs)
  BY LenProperties
<1>2. QED
  BY <1>1, ApplyChangesSteps

-----------------------------------------------------------------------------
(***************************************************************************)
(* Payloads of a replay over the tasks in U, whose windows count their     *)
(* events.                                                                 *)
(***************************************************************************)
Event == [task : Task, file : File, action : {"type", "paste"}, at : Nat, since : Nat,
          anew : BOOLEAN, changes : Seq(OneEdit), after : Text]

Workspace(U) == [U -> UNION {[N -> Text] : N \in SUBSET File}]

IsSnap(snap, U) == snap.count \in Nat /\ snap.files \in Workspace(U) /\ snap.open \in BOOLEAN

IsPayload(d, U) ==
    /\ U \subseteq Task /\ IsFiniteSet(U)
    /\ Len(d.snaps) \in Nat \ {0} /\ DOMAIN d.snaps = 1 .. Len(d.snaps)
    /\ \A w \in 1 .. Len(d.snaps) : IsSnap(d.snaps[w], U)
    /\ d.events \in Seq(Event)
    /\ \A i \in 1 .. Len(d.events) : d.events[i].task \in U
    /\ EventsUpTo(d, Len(d.snaps)) = Len(d.events)

LEMMA Cuts ==
    ASSUME NEW d, Len(d.snaps) \in Nat, \A w \in 1 .. Len(d.snaps) : d.snaps[w].count \in Nat
    PROVE  /\ EventsUpTo(d, 0) = 0
           /\ \A w \in 0 .. Len(d.snaps) : EventsUpTo(d, w) \in Nat
           /\ \A w \in 1 .. Len(d.snaps) :
                 EventsUpTo(d, w) = EventsUpTo(d, w - 1) + d.snaps[w].count
<1> DEFINE n == Len(d.snaps)
           C(v) == d.snaps[v].count
           step == [p \in (1 .. n) \X Nat |-> p[2] + C(p[1])]
<1>1. n \in Nat /\ \A w \in 1 .. n : C(w) \in Nat
  OBVIOUS
<1> HIDE DEF n, C
<1>2. step \in [(1 .. n) \X Nat -> Nat]
  BY <1>1
<1>3. PICK g : Solves(g, n, Nat, 0, step)
  <2> HIDE DEF step
  <2>1. QED
    BY <1>1, <1>2, Iterates
<1>4. g[0] = 0 /\ \A v \in 1 .. n : g[v] = g[v - 1] + C(v)
  <2>1. \A v \in 1 .. n : v - 1 \in 0 .. n
    BY <1>1
  <2>2. QED
    BY <1>3, <2>1 DEF Solves
<1>5. ASSUME NEW w \in 0 .. n PROVE EventsUpTo(d, w) = g[w]
  <2> DEFINE F(f) == [v \in 0 .. w |-> IF v = 0 THEN 0 ELSE f[v - 1] + C(v)]
             upTo == CHOOSE f : f = F(f)
             h == [v \in 0 .. w |-> g[v]]
  <2>1. EventsUpTo(d, w) = upTo[w]
    BY DEF EventsUpTo, C
  <2>2. \A v \in 1 .. w : v - 1 \in 0 .. w /\ v \in 0 .. w /\ v \in 1 .. n /\ v # 0
    BY <1>1
  <2>3. h = F(h)
    <3>1. \A v \in 0 .. w : v = 0 \/ v \in 1 .. w
      BY <1>1
    <3>2. QED
      BY <1>4, <2>2, <3>1
  <2>4. upTo = F(upTo)
    <3> HIDE DEF F, h
    <3>1. QED
      BY <2>3
  <2>5. upTo[0] = 0 /\ \A v \in 1 .. w : upTo[v] = upTo[v - 1] + C(v)
    <3>1. 0 \in 0 .. w
      BY <1>1
    <3> HIDE DEF upTo
    <3>2. QED
      BY <2>2, <2>4, <3>1
  <2> HIDE DEF upTo, F
  <2> DEFINE S == {k \in Nat : k <= w => upTo[k] = g[k]}
  <2>6. 0 \in S
    BY <1>4, <2>5
  <2>7. ASSUME NEW k \in S PROVE k + 1 \in S
    <3> SUFFICES ASSUME k + 1 <= w PROVE upTo[k + 1] = g[k + 1]
      OBVIOUS
    <3>1. k + 1 \in 1 .. w /\ (k + 1) - 1 = k /\ upTo[k] = g[k]
      BY <1>1
    <3>2. QED
      BY <1>4, <2>2, <2>5, <3>1
  <2> HIDE DEF S
  <2>8. S = Nat
    <3>1. S \subseteq Nat
      BY DEF S
    <3>2. QED
      BY <2>6, <2>7, <3>1, NatInd
  <2>9. w \in Nat /\ w <= w
    BY <1>1
  <2>10. QED
    BY <2>1, <2>8, <2>9 DEF S
<1>6. \A w \in 0 .. n : g[w] \in Nat
  BY <1>3 DEF Solves
<1>7. \A w \in 1 .. n : w \in 0 .. n /\ w - 1 \in 0 .. n
  BY <1>1
<1>8. 0 \in 0 .. n
  BY <1>1
<1>9. QED
  BY <1>4, <1>5, <1>6, <1>7, <1>8 DEF n, C

\* The counts cut the events into windows.
LEMMA WindowEvents ==
    ASSUME NEW d, NEW U, IsPayload(d, U), NEW w \in 1 .. Len(d.snaps)
    PROVE  LET from == EventsUpTo(d, w - 1)
           IN  /\ from \in Nat /\ EventsUpTo(d, w) = from + d.snaps[w].count
               /\ d.snaps[w].count \in Nat
               /\ EventsUpTo(d, w) <= Len(d.events)
               /\ EventsOf(d, w) = SubSeq(d.events, from + 1, EventsUpTo(d, w))
               /\ EventsOf(d, w) \in Seq(Event)
               /\ Len(EventsOf(d, w)) = d.snaps[w].count
               /\ \A k \in 1 .. d.snaps[w].count :
                     from + k \in 1 .. Len(d.events) /\ EventsOf(d, w)[k] = d.events[from + k]
<1> DEFINE n == Len(d.snaps)
           U_(v) == EventsUpTo(d, v)
           E == d.events
           C(v) == d.snaps[v].count
<1>1. /\ n \in Nat \ {0} /\ \A v \in 1 .. n : C(v) \in Nat
      /\ E \in Seq(Event) /\ Len(E) \in Nat /\ U_(n) = Len(E)
  BY LenProperties DEF IsPayload, IsSnap
<1>2. U_(0) = 0 /\ (\A v \in 0 .. n : U_(v) \in Nat) /\ \A v \in 1 .. n : U_(v) = U_(v - 1) + C(v)
  BY <1>1, Cuts
<1>3. w \in 1 .. n
  OBVIOUS
<1>4. EventsOf(d, w) = SubSeq(E, U_(w - 1) + 1, IF w = n THEN Len(E) ELSE U_(w))
  BY DEF EventsOf
<1> HIDE DEF n, U_, E, C
<1>5. \A v \in 0 .. n : U_(v) <= U_(n)
  <2> DEFINE S == {k \in Nat : k <= n => U_(n - k) <= U_(n)}
  <2>1. 0 \in S
    BY <1>1, <1>2
  <2>2. ASSUME NEW k \in S PROVE k + 1 \in S
    <3> SUFFICES ASSUME k + 1 <= n PROVE U_(n - (k + 1)) <= U_(n)
      OBVIOUS
    <3>1. /\ n - k \in 1 .. n /\ (n - k) - 1 = n - (k + 1) /\ n \in 0 .. n
          /\ n - k \in 0 .. n /\ n - (k + 1) \in 0 .. n
      BY <1>1
    <3>2. U_(n - k) <= U_(n) /\ U_(n - k) = U_(n - (k + 1)) + C(n - k)
      BY <1>1, <1>2, <3>1
    <3>3. C(n - k) \in Nat /\ U_(n - k) \in Nat /\ U_(n) \in Nat /\ U_(n - (k + 1)) \in Nat
      BY <1>1, <1>2, <3>1
    <3>4. QED
      BY <3>2, <3>3
  <2> HIDE DEF S
  <2>3. S = Nat
    <3>1. S \subseteq Nat
      BY DEF S
    <3>2. QED
      BY <2>1, <2>2, <3>1, NatInd
  <2>4. ASSUME NEW v \in 0 .. n PROVE U_(v) <= U_(n)
    <3>1. n - v \in S /\ n - v <= n /\ n - (n - v) = v
      BY <1>1, <2>3
    <3>2. QED
      BY <3>1 DEF S
  <2>5. QED
    BY <2>4
<1>6. /\ w - 1 \in 0 .. n /\ w \in 0 .. n /\ U_(w - 1) \in Nat /\ C(w) \in Nat
      /\ U_(w) = U_(w - 1) + C(w) /\ U_(w) <= Len(E) /\ U_(w) \in Nat
  <2>1. w - 1 \in 0 .. n /\ w \in 0 .. n
    BY <1>1, <1>3
  <2>2. QED
    BY <1>1, <1>2, <1>3, <1>5, <2>1
<1>7. EventsOf(d, w) = SubSeq(E, U_(w - 1) + 1, U_(w))
  BY <1>1, <1>4
<1>8. \A i \in U_(w - 1) + 1 .. U_(w) : i \in 1 .. Len(E) /\ E[i] \in Event
  <2>1. \A i \in U_(w - 1) + 1 .. U_(w) : i \in 1 .. Len(E)
    BY <1>1, <1>6
  <2>2. QED
    BY <1>1, <2>1, ElementOfSeq
<1> DEFINE sub == SubSeq(E, U_(w - 1) + 1, U_(w))
<1>9. /\ sub \in Seq(Event)
      /\ Len(sub) = IF U_(w - 1) + 1 <= U_(w) THEN U_(w) - (U_(w - 1) + 1) + 1 ELSE 0
      /\ \A k \in 1 .. U_(w) - (U_(w - 1) + 1) + 1 : sub[k] = E[(U_(w - 1) + 1) + k - 1]
  <2>1. U_(w - 1) + 1 \in Int /\ U_(w) \in Int
    BY <1>6
  <2>2. QED
    BY <1>8, <2>1, SubSeqProperties
<1> HIDE DEF sub
<1>10. Len(sub) = C(w) /\ \A k \in 1 .. C(w) : sub[k] = E[U_(w - 1) + k] /\ U_(w - 1) + k \in 1 .. Len(E)
  <2>1. U_(w) - (U_(w - 1) + 1) + 1 = C(w)
    BY <1>6
  <2>2. \A k \in 1 .. C(w) : (U_(w - 1) + 1) + k - 1 = U_(w - 1) + k /\ U_(w - 1) + k \in 1 .. Len(E)
    BY <1>1, <1>6
  <2>3. Len(sub) = C(w)
    BY <1>6, <1>9, <2>1
  <2>4. QED
    BY <1>9, <2>1, <2>2, <2>3
<1>11. QED
  BY <1>6, <1>7, <1>9, <1>10 DEF sub, n, U_, E, C

-----------------------------------------------------------------------------
(***************************************************************************)
(* Playing events over texts, as PlayWindow and FrameText do.              *)
(***************************************************************************)
OneStep(cur, f, ev) == [cur EXCEPT ![f] = ApplyChanges(@, ev.changes)]

Plays(g, evs, multi, cur) ==
    /\ g[0] = cur
    /\ \A k \in 1 .. Len(evs) : g[k] = OneStep(g[k - 1], FileOf(evs[k], multi), evs[k])

LEMMA OneStepType ==
    ASSUME NEW F, NEW cur \in [F -> Text], NEW f \in F, NEW ev \in Event
    PROVE  /\ OneStep(cur, f, ev) \in [F -> Text]
           /\ \A e \in F : OneStep(cur, f, ev)[e] =
                 IF e = f THEN ApplyChanges(cur[f], ev.changes) ELSE cur[e]
<1>1. ev.changes \in Seq(OneEdit) /\ cur[f] \in Text
  BY DEF Event
<1>2. ApplyChanges(cur[f], ev.changes) \in Text
  BY <1>1, ApplyChangesType
<1>3. QED
  BY <1>2 DEF OneStep

LEMMA PlaySteps ==
    ASSUME NEW d, NEW w, NEW multi, NEW F, NEW cur \in [F -> Text],
           EventsOf(d, w) \in Seq(Event),
           \A k \in 1 .. Len(EventsOf(d, w)) : FileOf(EventsOf(d, w)[k], multi) \in F
    PROVE  \E g \in [0 .. Len(EventsOf(d, w)) -> [F -> Text]] :
              /\ Plays(g, EventsOf(d, w), multi, cur)
              /\ PlayWindow(d, multi, cur, w) = g[Len(EventsOf(d, w))]
<1> DEFINE evs == EventsOf(d, w)
           n == Len(evs)
           D == [F -> Text]
           File_(k) == FileOf(evs[k], multi)
           step == [p \in (1 .. n) \X D |-> OneStep(p[2], File_(p[1]), evs[p[1]])]
           G(f) == [k \in 0 .. n |->
                      IF k = 0 THEN cur
                      ELSE [f[k - 1] EXCEPT ![FileOf(evs[k], multi)] = ApplyChanges(@, evs[k].changes)]]
           played == CHOOSE f : f = G(f)
<1>1. n \in Nat /\ \A k \in 1 .. n : evs[k] \in Event /\ File_(k) \in F
  BY LenProperties, ElementOfSeq
<1>2. PlayWindow(d, multi, cur, w) = played[n]
  BY DEF PlayWindow
<1>3. \A f : G(f) = [k \in 0 .. n |-> IF k = 0 THEN cur ELSE OneStep(f[k - 1], File_(k), evs[k])]
  BY DEF OneStep
<1> HIDE DEF played, n, evs, File_
<1>4. step \in [(1 .. n) \X D -> D]
  BY <1>1, OneStepType
<1>5. PICK g : Solves(g, n, D, cur, step)
  <2> HIDE DEF step
  <2>1. QED
    BY <1>1, <1>4, Iterates
<1>6. /\ \A k \in 1 .. n : k - 1 \in 0 .. n /\ k # 0 /\ k \in 0 .. n
      /\ \A k \in 0 .. n : k = 0 \/ k \in 1 .. n
      /\ 0 \in 0 .. n
  BY <1>1
<1>7. g \in [0 .. n -> D] /\ g[0] = cur /\ \A k \in 1 .. n : g[k - 1] \in D
  BY <1>5, <1>6 DEF Solves
<1>8. \A k \in 1 .. n : g[k] = OneStep(g[k - 1], File_(k), evs[k])
  BY <1>5, <1>7 DEF Solves
<1> HIDE DEF G
<1>9. g = G(g)
  BY <1>3, <1>6, <1>7, <1>8
<1>10. played = G(played)
  BY <1>9 DEF played
<1>11. played[0] = cur /\ \A k \in 1 .. n : played[k] = OneStep(played[k - 1], File_(k), evs[k])
  BY <1>3, <1>6, <1>10
<1>12. \A k \in 0 .. n : played[k] = g[k]
  <2>1. \A k \in 1 .. n : played[k - 1] \in D => played[k] = step[<<k, played[k - 1]>>]
    BY <1>11
  <2> HIDE DEF step
  <2>2. QED
    BY <1>1, <1>5, <1>11, <2>1, SolvesOnce
<1>13. PlayWindow(d, multi, cur, w) = g[n]
  BY <1>1, <1>2, <1>12
<1>14. Plays(g, evs, multi, cur)
  BY <1>7, <1>8 DEF Plays, n, File_
<1>15. QED
  BY <1>7, <1>13, <1>14 DEF n, evs

\* A frame plays the events of one file.
Tracks(g, evs, multi, f, base) ==
    /\ g[0] = base
    /\ \A k \in 1 .. Len(evs) :
          g[k] = IF FileOf(evs[k], multi) = f THEN ApplyChanges(g[k - 1], evs[k].changes)
                                              ELSE g[k - 1]

FrameBase(d, ends, i) ==
    LET w == WindowOf(d, i)
    IN  IF w = 1 THEN <<>> ELSE ends[w - 1][FileOf(d.events[i], IsMultiTask(d))]

FrameEvents(d, i) == SubSeq(d.events, EventsUpTo(d, WindowOf(d, i) - 1) + 1, i)

LEMMA FrameSteps ==
    ASSUME NEW d, NEW ends, NEW i, FrameBase(d, ends, i) \in Text, FrameEvents(d, i) \in Seq(Event)
    PROVE  \E g \in [0 .. Len(FrameEvents(d, i)) -> Text] :
              /\ Tracks(g, FrameEvents(d, i), IsMultiTask(d), FileOf(d.events[i], IsMultiTask(d)),
                        FrameBase(d, ends, i))
              /\ FrameText(d, ends, i) = g[Len(FrameEvents(d, i))]
<1> DEFINE evs == FrameEvents(d, i)
           n == Len(evs)
           multi == IsMultiTask(d)
           file == FileOf(d.events[i], multi)
           base == FrameBase(d, ends, i)
           Same(k) == FileOf(evs[k], multi) = file
           step == [p \in (1 .. n) \X Text |->
                      IF Same(p[1]) THEN ApplyChanges(p[2], evs[p[1]].changes) ELSE p[2]]
           G(f) == [k \in 0 .. n |->
                      IF k = 0 THEN base
                      ELSE IF FileOf(evs[k], multi) # file THEN f[k - 1]
                      ELSE ApplyChanges(f[k - 1], evs[k].changes)]
           text == CHOOSE f : f = G(f)
<1>1. n \in Nat /\ \A k \in 1 .. n : evs[k] \in Event /\ evs[k].changes \in Seq(OneEdit)
  <2>1. n \in Nat /\ \A k \in 1 .. n : evs[k] \in Event
    BY LenProperties, ElementOfSeq
  <2>2. \A ev \in Event : ev.changes \in Seq(OneEdit)
    BY DEF Event
  <2>3. QED
    BY <2>1, <2>2
<1>2. FrameText(d, ends, i) = text[n]
  BY DEF FrameText, FrameBase, FrameEvents
<1>3. \A f : G(f) = [k \in 0 .. n |-> IF k = 0 THEN base
                                     ELSE IF Same(k) THEN ApplyChanges(f[k - 1], evs[k].changes)
                                                     ELSE f[k - 1]]
  OBVIOUS
<1>4. base \in Text
  OBVIOUS
<1> HIDE DEF text, n, evs, Same, base
<1>5. step \in [(1 .. n) \X Text -> Text]
  BY <1>1, ApplyChangesType
<1>6. PICK g : Solves(g, n, Text, base, step)
  <2> HIDE DEF step
  <2>1. QED
    BY <1>1, <1>4, <1>5, Iterates
<1>7. /\ \A k \in 1 .. n : k - 1 \in 0 .. n /\ k # 0 /\ k \in 0 .. n
      /\ \A k \in 0 .. n : k = 0 \/ k \in 1 .. n
      /\ 0 \in 0 .. n
  BY <1>1
<1>8. g \in [0 .. n -> Text] /\ g[0] = base /\ \A k \in 1 .. n : g[k - 1] \in Text
  BY <1>6, <1>7 DEF Solves
<1>9. \A k \in 1 .. n : g[k] = IF Same(k) THEN ApplyChanges(g[k - 1], evs[k].changes) ELSE g[k - 1]
  BY <1>6, <1>8 DEF Solves
<1> HIDE DEF G
<1>10. g = G(g)
  BY <1>3, <1>7, <1>8, <1>9
<1>11. text = G(text)
  BY <1>10 DEF text
<1>12. /\ text[0] = base
       /\ \A k \in 1 .. n : text[k] = IF Same(k) THEN ApplyChanges(text[k - 1], evs[k].changes)
                                                ELSE text[k - 1]
  BY <1>3, <1>7, <1>11
<1>13. \A k \in 0 .. n : text[k] = g[k]
  <2>1. \A k \in 1 .. n : text[k - 1] \in Text => text[k] = step[<<k, text[k - 1]>>]
    BY <1>12
  <2> HIDE DEF step
  <2>2. QED
    BY <1>1, <1>6, <1>12, <2>1, SolvesOnce
<1>14. FrameText(d, ends, i) = g[n]
  BY <1>1, <1>2, <1>13
<1>15. Tracks(g, evs, multi, file, base)
  BY <1>8, <1>9 DEF Tracks, n, Same
<1>16. QED
  BY <1>8, <1>14, <1>15 DEF n, evs, base

-----------------------------------------------------------------------------
(***************************************************************************)
(* The names of files.                                                     *)
(***************************************************************************)
\* Two files never share a name: without the task in it, there is one task.
LEMMA QualifyOnce ==
    ASSUME NEW U, IsFiniteSet(U), NEW multi, multi = (Cardinality(U) > 1),
           NEW t \in U, NEW u \in U, NEW m, NEW n, Qualify(t, m, multi) = Qualify(u, n, multi)
    PROVE  t = u /\ m = n
<1>1. CASE multi
  BY <1>1 DEF Qualify
<1>2. CASE ~multi
  <2>1. m = n
    BY <1>2 DEF Qualify
  <2>2. ASSUME t # u PROVE FALSE
    <3>1. {t, u} \subseteq U /\ IsFiniteSet({t}) /\ Cardinality({t}) = 1
      BY FS_Singleton
    <3>2. Cardinality({t} \cup {u}) = 2
      BY <2>2, <3>1, FS_AddElement
    <3>3. {t} \cup {u} = {t, u}
      OBVIOUS
    <3>4. Cardinality({t, u}) <= Cardinality(U)
      BY <3>1, FS_Subset
    <3>5. Cardinality(U) \in Nat
      BY FS_CardinalityType
    <3>6. ~(Cardinality(U) > 1)
      BY <1>2
    <3> DEFINE all == Cardinality(U)
               two == Cardinality({t, u})
    <3>7. two = 2 /\ two <= all /\ all \in Nat /\ ~(all > 1)
      BY <3>2, <3>3, <3>4, <3>5, <3>6
    <3> HIDE DEF all, two
    <3>8. QED
      BY <3>7
  <2>3. QED
    BY <2>1, <2>2
<1>3. QED
  BY <1>1, <1>2

LEMMA PayloadTasks ==
    ASSUME NEW d, NEW U, IsPayload(d, U)
    PROVE  TaskIds(d) = U /\ IsMultiTask(d) = (Cardinality(U) > 1)
<1>1. \A w \in DOMAIN d.snaps : DOMAIN d.snaps[w].files = U
  BY DEF IsPayload, IsSnap, Workspace
<1>2. 1 \in DOMAIN d.snaps
  BY DEF IsPayload
<1>3. DOMAIN d.events = 1 .. Len(d.events)
  BY LenProperties DEF IsPayload
<1>4. UNION {DOMAIN d.snaps[w].files : w \in DOMAIN d.snaps} = U
  BY <1>1, <1>2
<1>5. {d.events[i].task : i \in DOMAIN d.events} \subseteq U
  BY <1>3 DEF IsPayload
<1>6. TaskIds(d) = U
  BY <1>4, <1>5 DEF TaskIds
<1>7. QED
  BY <1>6 DEF IsMultiTask

LEMMA SnapshotRecords ==
    ASSUME NEW U, IsFiniteSet(U), NEW snap, IsSnap(snap, U), NEW multi, multi = (Cardinality(U) > 1)
    PROVE  LET recorded == SnapshotFiles(snap, multi)
           IN  /\ \A key : key \in DOMAIN recorded <=>
                     \E t \in U : \E n \in DOMAIN snap.files[t] : key = Qualify(t, n, multi)
               /\ \A t \in U : \A n \in DOMAIN snap.files[t] :
                     /\ recorded[Qualify(t, n, multi)] = snap.files[t][n]
                     /\ snap.files[t][n] \in Text
<1> DEFINE ws == snap.files
           pairs == UNION {{t} \X DOMAIN ws[t] : t \in DOMAIN ws}
           Owners(key) == {o \in pairs : Qualify(o[1], o[2], multi) = key}
           keys == UNION {{Qualify(t, f, multi) : f \in DOMAIN ws[t]} : t \in DOMAIN ws}
           recorded == SnapshotFiles(snap, multi)
<1>1. recorded = [key \in keys |-> ws[(CHOOSE o \in Owners(key) : TRUE)[1]]
                                      [(CHOOSE o \in Owners(key) : TRUE)[2]]]
  BY DEF SnapshotFiles
<1>2. DOMAIN ws = U /\ \A t \in U : \A n \in DOMAIN ws[t] : ws[t][n] \in Text
  BY DEF IsSnap, Workspace
<1> HIDE DEF ws
<1>3. \A o : o \in pairs <=> \E t \in U : \E n \in DOMAIN ws[t] : o = <<t, n>>
  BY <1>2
<1>4. \A key : key \in keys <=> \E t \in U : \E n \in DOMAIN ws[t] : key = Qualify(t, n, multi)
  BY <1>2
<1>5. ASSUME NEW t \in U, NEW n \in DOMAIN ws[t]
      PROVE  (CHOOSE o \in Owners(Qualify(t, n, multi)) : TRUE) = <<t, n>>
  <2> DEFINE key == Qualify(t, n, multi)
             own == CHOOSE o \in Owners(key) : TRUE
  <2>1. <<t, n>> \in Owners(key)
    BY <1>3
  <2>2. own \in Owners(key)
    BY <2>1
  <2>3. PICK u \in U : \E m \in DOMAIN ws[u] : own = <<u, m>> /\ Qualify(u, m, multi) = key
    <3>1. own \in pairs /\ Qualify(own[1], own[2], multi) = key
      BY <2>2
    <3> HIDE DEF own, pairs, key
    <3>2. PICK u \in U : \E m \in DOMAIN ws[u] : own = <<u, m>>
      BY <1>3, <3>1
    <3>3. QED
      BY <3>1, <3>2
  <2>4. PICK m \in DOMAIN ws[u] : own = <<u, m>> /\ Qualify(u, m, multi) = key
    BY <2>3
  <2>5. u = t /\ m = n
    BY <2>4, QualifyOnce
  <2>6. QED
    BY <2>4, <2>5
<1> HIDE DEF Owners, pairs, keys, recorded
<1>6. DOMAIN recorded = keys
  BY <1>1
<1>7. ASSUME NEW t \in U, NEW n \in DOMAIN ws[t]
      PROVE  recorded[Qualify(t, n, multi)] = ws[t][n]
  <2>1. Qualify(t, n, multi) \in keys
    BY <1>4
  <2> DEFINE own == CHOOSE o \in Owners(Qualify(t, n, multi)) : TRUE
  <2>2. recorded[Qualify(t, n, multi)] = ws[own[1]][own[2]]
    BY <1>1, <2>1
  <2>3. own = <<t, n>>
    BY <1>5
  <2> HIDE DEF own
  <2>4. QED
    BY <2>2, <2>3
<1>8. QED
  BY <1>2, <1>4, <1>6, <1>7 DEF recorded, ws

\* What the files seen are.
LEMMA SeenFiles ==
    ASSUME NEW d, NEW U, IsPayload(d, U), NEW multi, multi = IsMultiTask(d)
    PROVE  /\ \A i \in 1 .. Len(d.events) : FileOf(d.events[i], multi) \in FilesSeen(d)
           /\ \A w \in 1 .. Len(d.snaps) : \A t \in U : \A n \in DOMAIN d.snaps[w].files[t] :
                 Qualify(t, n, multi) \in FilesSeen(d)
           /\ \A w \in 1 .. Len(d.snaps) : DOMAIN SnapshotFiles(d.snaps[w], multi) \subseteq FilesSeen(d)
           /\ \A f \in FilesSeen(d) : \E t \in U, n \in File : f = Qualify(t, n, multi)
<1>1. /\ DOMAIN d.events = 1 .. Len(d.events) /\ DOMAIN d.snaps = 1 .. Len(d.snaps)
      /\ \A i \in 1 .. Len(d.events) : d.events[i] \in Event /\ d.events[i].task \in U
  BY LenProperties, ElementOfSeq DEF IsPayload
<1>2. FilesSeen(d) = {FileOf(d.events[i], multi) : i \in DOMAIN d.events}
                        \cup UNION {DOMAIN SnapshotFiles(d.snaps[w], multi) : w \in DOMAIN d.snaps}
  BY DEF FilesSeen
<1>3. multi = (Cardinality(U) > 1)
  BY PayloadTasks
<1>4. \A w \in 1 .. Len(d.snaps) : DOMAIN SnapshotFiles(d.snaps[w], multi) \subseteq FilesSeen(d)
  BY <1>1, <1>2
<1>5. ASSUME NEW w \in 1 .. Len(d.snaps)
      PROVE  \A key : key \in DOMAIN SnapshotFiles(d.snaps[w], multi) <=>
                \E t \in U : \E n \in DOMAIN d.snaps[w].files[t] : key = Qualify(t, n, multi)
  <2>1. IsSnap(d.snaps[w], U) /\ IsFiniteSet(U)
    BY DEF IsPayload
  <2>2. QED
    BY <1>3, <2>1, SnapshotRecords
<1>6. \A w \in 1 .. Len(d.snaps) : \A t \in U : DOMAIN d.snaps[w].files[t] \subseteq File
  BY DEF IsPayload, IsSnap, Workspace
<1>7. \A i \in 1 .. Len(d.events) : FileOf(d.events[i], multi) \in FilesSeen(d)
  BY <1>1, <1>2
<1>8. \A w \in 1 .. Len(d.snaps) : \A t \in U : \A n \in DOMAIN d.snaps[w].files[t] :
         Qualify(t, n, multi) \in FilesSeen(d)
  BY <1>4, <1>5
<1>9. ASSUME NEW f \in FilesSeen(d) PROVE \E t \in U, n \in File : f = Qualify(t, n, multi)
  <2>1. CASE \E i \in 1 .. Len(d.events) : f = FileOf(d.events[i], multi)
    BY <1>1, <2>1 DEF FileOf, Event
  <2>2. CASE \E w \in 1 .. Len(d.snaps) : f \in DOMAIN SnapshotFiles(d.snaps[w], multi)
    BY <1>5, <1>6, <2>2
  <2>3. QED
    BY <1>1, <1>2, <2>1, <2>2
<1>10. QED
  BY <1>4, <1>7, <1>8, <1>9

-----------------------------------------------------------------------------
(***************************************************************************)
(* The checkpoint pass, window by window.                                  *)
(***************************************************************************)
Before(d, ends, w) == IF w = 1 THEN BlankFiles(d) ELSE ends[w - 1]

PlayedFrom(d, cur, w) == PlayWindow(d, IsMultiTask(d), cur, w)

RecordedAt(d, w) == SnapshotFiles(d.snaps[w], IsMultiTask(d))

WrongFrom(d, cur, w) ==
    IF d.snaps[w].open THEN {} ELSE Differs(PlayedFrom(d, cur, w), RecordedAt(d, w))

HealedFrom(d, cur, w) ==
    [f \in DOMAIN PlayedFrom(d, cur, w) |->
        IF f \in WrongFrom(d, cur, w) THEN RecordedAt(d, w)[f] ELSE PlayedFrom(d, cur, w)[f]]

Passes(d, ends, wrong, n) ==
    /\ Len(ends) = n
    /\ \A w \in 1 .. n : ends[w] = HealedFrom(d, Before(d, ends, w), w)
    /\ wrong = {w \in 1 .. n : WrongFrom(d, Before(d, ends, w), w) # {}}

LEMMA WindowType ==
    ASSUME NEW d, NEW U, IsPayload(d, U), NEW cur \in [FilesSeen(d) -> Text],
           NEW w \in 1 .. Len(d.snaps)
    PROVE  /\ PlayedFrom(d, cur, w) \in [FilesSeen(d) -> Text]
           /\ HealedFrom(d, cur, w) \in [FilesSeen(d) -> Text]
           /\ WrongFrom(d, cur, w) \subseteq DOMAIN RecordedAt(d, w)
           /\ DOMAIN RecordedAt(d, w) \subseteq FilesSeen(d)
<1> DEFINE F == FilesSeen(d)
           multi == IsMultiTask(d)
           evs == EventsOf(d, w)
<1>1. evs \in Seq(Event) /\ Len(evs) = d.snaps[w].count
  BY WindowEvents
<1>2. \A k \in 1 .. Len(evs) : FileOf(evs[k], multi) \in F
  <2>1. \A k \in 1 .. Len(evs) : \E i \in 1 .. Len(d.events) : evs[k] = d.events[i]
    BY <1>1, WindowEvents
  <2>2. QED
    BY <2>1, SeenFiles
<1>3. PlayedFrom(d, cur, w) \in [F -> Text]
  <2>1. PICK g \in [0 .. Len(evs) -> [F -> Text]] : PlayWindow(d, multi, cur, w) = g[Len(evs)]
    BY <1>1, <1>2, PlaySteps
  <2>2. Len(evs) \in 0 .. Len(evs)
    BY <1>1, LenProperties
  <2>3. QED
    BY <2>1, <2>2 DEF PlayedFrom
<1>4. WrongFrom(d, cur, w) \subseteq DOMAIN RecordedAt(d, w)
  BY DEF WrongFrom, Differs
<1>5. DOMAIN RecordedAt(d, w) \subseteq F
  BY SeenFiles DEF RecordedAt
<1>6. \A f \in DOMAIN RecordedAt(d, w) : RecordedAt(d, w)[f] \in Text
  <2>1. IsSnap(d.snaps[w], U) /\ IsFiniteSet(U)
    BY DEF IsPayload
  <2>2. multi = (Cardinality(U) > 1)
    BY PayloadTasks
  <2> HIDE DEF multi
  <2> DEFINE recorded == SnapshotFiles(d.snaps[w], multi)
  <2>3. /\ \A key : key \in DOMAIN recorded <=>
             \E t \in U : \E n \in DOMAIN d.snaps[w].files[t] : key = Qualify(t, n, multi)
        /\ \A t \in U : \A n \in DOMAIN d.snaps[w].files[t] :
             /\ recorded[Qualify(t, n, multi)] = d.snaps[w].files[t][n]
             /\ d.snaps[w].files[t][n] \in Text
    BY <2>1, <2>2, SnapshotRecords
  <2> HIDE DEF recorded
  <2>4. \A f \in DOMAIN recorded : recorded[f] \in Text
    BY <2>3
  <2>5. QED
    BY <2>4 DEF recorded, RecordedAt, multi
<1>7. HealedFrom(d, cur, w) \in [F -> Text]
  <2>1. DOMAIN PlayedFrom(d, cur, w) = F
    BY <1>3
  <2>2. \A f \in F : (IF f \in WrongFrom(d, cur, w) THEN RecordedAt(d, w)[f]
                                                  ELSE PlayedFrom(d, cur, w)[f]) \in Text
    BY <1>3, <1>4, <1>6
  <2>3. QED
    BY <2>1, <2>2 DEF HealedFrom
<1>8. QED
  BY <1>3, <1>4, <1>5, <1>7

PassRecord(d) == [ends : Seq([FilesSeen(d) -> Text]), wrong : SUBSET Nat]

OnePass(d, pass, w) ==
    Checked(pass, PlayWindow(d, IsMultiTask(d), EndOf(d, pass), w), d.snaps[w], IsMultiTask(d))

LEMMA OnePassDoes ==
    ASSUME NEW d, NEW U, IsPayload(d, U), NEW pass \in PassRecord(d), NEW w \in 1 .. Len(d.snaps)
    PROVE  LET cur == EndOf(d, pass)
           IN  /\ OnePass(d, pass, w) \in PassRecord(d)
               /\ cur \in [FilesSeen(d) -> Text]
               /\ HealedFrom(d, cur, w) \in [FilesSeen(d) -> Text]
               /\ OnePass(d, pass, w).ends = Append(pass.ends, HealedFrom(d, cur, w))
               /\ OnePass(d, pass, w).wrong =
                     pass.wrong \cup (IF WrongFrom(d, cur, w) # {} THEN {Len(pass.ends) + 1} ELSE {})
<1> DEFINE F == FilesSeen(d)
           cur == EndOf(d, pass)
<1>1. pass.ends \in Seq([F -> Text]) /\ pass.wrong \subseteq Nat /\ Len(pass.ends) \in Nat
  <2>1. pass.ends \in Seq([F -> Text]) /\ pass.wrong \subseteq Nat
    BY DEF PassRecord
  <2>2. QED
    BY <2>1, LenProperties
<1>2. BlankFiles(d) \in [F -> Text]
  <2>1. <<>> \in Text
    BY EmptySeq DEF Text
  <2>2. QED
    BY <2>1 DEF BlankFiles
<1>3. cur \in [F -> Text]
  <2>1. CASE pass.ends = <<>>
    BY <1>2, <2>1 DEF EndOf
  <2>2. CASE pass.ends # <<>>
    <3>1. Len(pass.ends) \in 1 .. Len(pass.ends)
      BY <1>1, <2>2, EmptySeq
    <3>2. pass.ends[Len(pass.ends)] \in [F -> Text]
      BY <1>1, <3>1, ElementOfSeq
    <3>3. QED
      BY <2>2, <3>2 DEF EndOf, Last
  <2>3. QED
    BY <2>1, <2>2
<1> HIDE DEF cur
<1>4. HealedFrom(d, cur, w) \in [F -> Text]
  BY <1>3, WindowType
<1>5. /\ OnePass(d, pass, w).ends = Append(pass.ends, HealedFrom(d, cur, w))
      /\ OnePass(d, pass, w).wrong =
            pass.wrong \cup (IF WrongFrom(d, cur, w) # {} THEN {Len(pass.ends) + 1} ELSE {})
      /\ OnePass(d, pass, w) = [ends |-> OnePass(d, pass, w).ends, wrong |-> OnePass(d, pass, w).wrong]
  BY DEF OnePass, Checked, HealedFrom, WrongFrom, PlayedFrom, RecordedAt, cur
<1>6. Append(pass.ends, HealedFrom(d, cur, w)) \in Seq([F -> Text])
  BY <1>1, <1>4, AppendProperties
<1>7. OnePass(d, pass, w).wrong \subseteq Nat
  BY <1>1, <1>5
<1>8. OnePass(d, pass, w) \in PassRecord(d)
  BY <1>5, <1>6, <1>7 DEF PassRecord
<1>9. QED
  BY <1>3, <1>4, <1>5, <1>8 DEF cur

LEMMA OneMorePassed ==
    ASSUME NEW d, NEW U, IsPayload(d, U), NEW pass \in PassRecord(d), NEW k \in Nat,
           k + 1 \in 1 .. Len(d.snaps), Passes(d, pass.ends, pass.wrong, k)
    PROVE  Passes(d, OnePass(d, pass, k + 1).ends, OnePass(d, pass, k + 1).wrong, k + 1)
<1> DEFINE F == FilesSeen(d)
           e == pass.ends
           cur == EndOf(d, pass)
           x == HealedFrom(d, cur, k + 1)
           b == OnePass(d, pass, k + 1).ends
<1>1. e \in Seq([F -> Text]) /\ Len(e) = k
  BY DEF PassRecord, Passes
<1>2. /\ x \in [F -> Text] /\ b = Append(e, x)
      /\ OnePass(d, pass, k + 1).wrong =
            pass.wrong \cup (IF WrongFrom(d, cur, k + 1) # {} THEN {Len(e) + 1} ELSE {})
  BY OnePassDoes
<1>3. Len(b) = k + 1 /\ b[k + 1] = x /\ \A w \in 1 .. k : b[w] = e[w]
  BY <1>1, <1>2, AppendProperties
<1>4. \A w \in 1 .. k : Before(d, b, w) = Before(d, e, w)
  <2>1. \A w \in 1 .. k : w = 1 \/ w - 1 \in 1 .. k
    OBVIOUS
  <2> HIDE DEF b, e
  <2>2. QED
    BY <1>3, <2>1 DEF Before
<1>5. Before(d, b, k + 1) = cur
  <2>1. CASE k = 0
    <3>1. e = <<>>
      BY <1>1, <2>1, EmptySeq
    <3>2. QED
      BY <2>1, <3>1 DEF Before, EndOf
  <2>2. CASE k # 0
    <3>1. e # <<>> /\ k \in 1 .. k /\ (k + 1) - 1 = k /\ k + 1 # 1
      BY <1>1, <2>2, EmptySeq
    <3>2. cur = e[k]
      BY <1>1, <3>1 DEF EndOf, Last
    <3> HIDE DEF b, e, cur
    <3>3. QED
      BY <1>3, <3>1, <3>2 DEF Before
  <2>3. QED
    BY <2>1, <2>2
<1>6. /\ \A w \in 1 .. k : e[w] = HealedFrom(d, Before(d, e, w), w)
      /\ pass.wrong = {w \in 1 .. k : WrongFrom(d, Before(d, e, w), w) # {}}
  BY DEF Passes
<1> HIDE DEF b, e, cur
<1>7. \A w \in 1 .. k + 1 : w \in 1 .. k \/ w = k + 1
  OBVIOUS
<1>8. \A w \in 1 .. k + 1 : b[w] = HealedFrom(d, Before(d, b, w), w)
  BY <1>3, <1>4, <1>5, <1>6, <1>7
<1>9. OnePass(d, pass, k + 1).wrong = {w \in 1 .. k + 1 : WrongFrom(d, Before(d, b, w), w) # {}}
  <2> DEFINE W(w) == WrongFrom(d, Before(d, b, w), w) # {}
             V(w) == WrongFrom(d, Before(d, e, w), w) # {}
             new == OnePass(d, pass, k + 1).wrong
  <2>1. \A w \in 1 .. k : W(w) <=> V(w)
    BY <1>4
  <2>2. new = pass.wrong \cup (IF W(k + 1) THEN {k + 1} ELSE {})
    BY <1>1, <1>2, <1>5 DEF e
  <2>3. pass.wrong = {w \in 1 .. k : V(w)}
    BY <1>6
  <2> HIDE DEF W, V, new
  <2>4. 1 .. k \subseteq 1 .. k + 1 /\ k + 1 \in 1 .. k + 1
    OBVIOUS
  <2>5. new = {w \in 1 .. k + 1 : W(w)}
    BY <1>7, <2>1, <2>2, <2>3, <2>4
  <2>6. QED
    BY <2>5 DEF W, new
<1>10. QED
  BY <1>3, <1>8, <1>9 DEF Passes, b

LEMMA PassEnds ==
    ASSUME NEW d, NEW U, IsPayload(d, U)
    PROVE  /\ Pass(d) \in PassRecord(d)
           /\ Passes(d, Pass(d).ends, Pass(d).wrong, Len(d.snaps))
<1> DEFINE n == Len(d.snaps)
           D == PassRecord(d)
           none == [ends |-> <<>>, wrong |-> {}]
           step == [p \in (1 .. n) \X D |-> OnePass(d, p[2], p[1])]
           G(f) == [w \in 0 .. n |->
                      IF w = 0 THEN none
                      ELSE Checked(f[w - 1],
                                   PlayWindow(d, IsMultiTask(d), EndOf(d, f[w - 1]), w),
                                   d.snaps[w], IsMultiTask(d))]
           upTo == CHOOSE f : f = G(f)
<1>1. n \in Nat
  BY DEF IsPayload
<1>2. Pass(d) = upTo[n]
  BY DEF Pass
<1>3. \A f : G(f) = [w \in 0 .. n |-> IF w = 0 THEN none ELSE OnePass(d, f[w - 1], w)]
  BY DEF OnePass
<1>4. none \in D
  <2>1. <<>> \in Seq([FilesSeen(d) -> Text])
    BY EmptySeq
  <2>2. QED
    BY <2>1 DEF PassRecord
<1>5. step \in [(1 .. n) \X D -> D]
  <2>1. \A p \in (1 .. n) \X D : OnePass(d, p[2], p[1]) \in D
    BY OnePassDoes
  <2> HIDE DEF D
  <2>2. QED
    BY <2>1
<1> HIDE DEF upTo, n, none, D
<1>6. PICK g : Solves(g, n, D, none, step)
  <2> HIDE DEF step
  <2>1. QED
    BY <1>1, <1>4, <1>5, Iterates
<1>7. /\ \A k \in 1 .. n : k - 1 \in 0 .. n /\ k # 0 /\ k \in 0 .. n
      /\ \A k \in 0 .. n : k = 0 \/ k \in 1 .. n
      /\ 0 \in 0 .. n /\ n \in 0 .. n
  BY <1>1
<1>8. g \in [0 .. n -> D] /\ g[0] = none /\ \A k \in 1 .. n : g[k - 1] \in D
  BY <1>6, <1>7 DEF Solves
<1>9. \A k \in 1 .. n : g[k] = OnePass(d, g[k - 1], k)
  BY <1>6, <1>8 DEF Solves
<1> HIDE DEF G
<1>10. g = G(g)
  BY <1>3, <1>7, <1>8, <1>9
<1>11. upTo = G(upTo)
  BY <1>10 DEF upTo
<1>12. upTo[0] = none /\ \A k \in 1 .. n : upTo[k] = OnePass(d, upTo[k - 1], k)
  BY <1>3, <1>7, <1>11
<1>13. \A k \in 0 .. n : upTo[k] = g[k]
  <2>1. \A k \in 1 .. n : upTo[k - 1] \in D => upTo[k] = step[<<k, upTo[k - 1]>>]
    BY <1>12
  <2> HIDE DEF step
  <2>2. QED
    BY <1>1, <1>6, <1>12, <2>1, SolvesOnce
<1>14. Pass(d) = g[n] /\ g[n] \in D
  BY <1>2, <1>7, <1>8, <1>13
<1> DEFINE S == {k \in Nat : k <= n => Passes(d, g[k].ends, g[k].wrong, k)}
<1>15. 0 \in S
  <2>1. g[0].ends = <<>> /\ g[0].wrong = {}
    BY <1>8 DEF none
  <2>2. Len(<<>>) = 0 /\ 1 .. 0 = {}
    BY EmptySeq
  <2>3. Passes(d, g[0].ends, g[0].wrong, 0)
    BY <2>1, <2>2 DEF Passes
  <2>4. QED
    BY <2>3
<1>16. ASSUME NEW k \in S PROVE k + 1 \in S
  <2> SUFFICES ASSUME k + 1 <= n PROVE Passes(d, g[k + 1].ends, g[k + 1].wrong, k + 1)
    OBVIOUS
  <2>1. k \in Nat /\ k + 1 \in 1 .. n /\ (k + 1) - 1 = k /\ Passes(d, g[k].ends, g[k].wrong, k)
    BY <1>1
  <2>2. g[k] \in D /\ g[k + 1] = OnePass(d, g[k], k + 1)
    BY <1>8, <1>9, <2>1
  <2>3. QED
    BY <2>1, <2>2, OneMorePassed DEF n, D
<1> HIDE DEF S
<1>17. S = Nat
  <2>1. S \subseteq Nat
    BY DEF S
  <2>2. QED
    BY <1>15, <1>16, <2>1, NatInd
<1>18. Passes(d, g[n].ends, g[n].wrong, n)
  BY <1>1, <1>17 DEF S
<1>19. QED
  BY <1>14, <1>18 DEF n, D

-----------------------------------------------------------------------------
(***************************************************************************)
(* What is recorded: windows of events, each with a workspace of every     *)
(* task.                                                                   *)
(***************************************************************************)
Windows == [ord : Nat, page : Nat, events : Seq(Event) \ {<<>>}, snap : Workspace(Task)]

RecordIsTyped ==
    /\ files \in Workspace(Task)
    /\ activeTask \in Task /\ activeFile \in [Task -> File]
    /\ \A s \in switches : s.to \in Task
    /\ anew \in BOOLEAN
    /\ buffer \in Seq(Event)
    /\ posts \subseteq Windows /\ log \in Seq(Windows)
    /\ edits \in Nat /\ drained \in Nat /\ mishaps \in Nat /\ page \in Nat
    /\ torn \in BOOLEAN

LEMMA WorkspaceHas ==
    ASSUME NEW U, NEW ws \in Workspace(U), NEW t \in U
    PROVE  /\ DOMAIN ws = U /\ DOMAIN ws[t] \subseteq File
           /\ ws[t] \in [DOMAIN ws[t] -> Text]
           /\ \A n \in DOMAIN ws[t] : ws[t][n] \in Text
  BY DEF Workspace

LEMMA IsWorkspace ==
    ASSUME NEW U, NEW ws, ws = [t \in U |-> ws[t]],
           \A t \in U : DOMAIN ws[t] \subseteq File /\ ws[t] \in [DOMAIN ws[t] -> Text]
    PROVE  ws \in Workspace(U)
<1>1. \A t \in U : ws[t] \in UNION {[N -> Text] : N \in SUBSET File}
  OBVIOUS
<1>2. QED
  BY <1>1 DEF Workspace

LEMMA PutFiles ==
    ASSUME NEW U, NEW ws \in Workspace(U), NEW t \in U, NEW v,
           DOMAIN v \subseteq File, v \in [DOMAIN v -> Text]
    PROVE  [ws EXCEPT ![t] = v] \in Workspace(U)
<1>1. v \in UNION {[N -> Text] : N \in SUBSET File}
  OBVIOUS
<1>2. QED
  BY <1>1 DEF Workspace

LEMMA WindowHas ==
    ASSUME NEW w \in Windows
    PROVE  /\ w.ord \in Nat /\ w.page \in Nat /\ w.snap \in Workspace(Task)
           /\ w.events \in Seq(Event) /\ w.events # <<>> /\ Len(w.events) \in Nat \ {0}
<1>1. w.ord \in Nat /\ w.page \in Nat /\ w.snap \in Workspace(Task)
  BY DEF Windows
<1>2. w.events \in Seq(Event) /\ w.events # <<>>
  BY DEF Windows
<1>3. Len(w.events) \in Nat \ {0}
  BY <1>2, EmptySeq
<1>4. QED
  BY <1>1, <1>2, <1>3

LEMMA MaxOfRange ==
    ASSUME NEW n \in Nat \ {0}
    PROVE  Max(1 .. n) = n
<1>1. n \in 1 .. n /\ \A y \in 1 .. n : n >= y
  OBVIOUS
<1>2. \A x \in 1 .. n : (\A y \in 1 .. n : x >= y) => x = n
  OBVIOUS
<1>3. QED
  BY <1>1, <1>2 DEF Max

LEMMA LastSnapshots ==
    ASSUME RecordIsTyped
    PROVE  /\ log = <<>> => DOMAIN FinalTaskSnapshots = {}
           /\ log # <<>> => /\ Len(log) \in 1 .. Len(log) /\ log[Len(log)] \in Windows
                            /\ DOMAIN FinalTaskSnapshots = Task
                            /\ \A t \in Task : FinalTaskSnapshots[t] = log[Len(log)].snap[t]
<1> DEFINE carrying(t) == {w \in DOMAIN log : t \in DOMAIN log[w].snap}
           n == Len(log)
<1>1. log \in Seq(Windows) /\ n \in Nat /\ DOMAIN log = 1 .. n /\ \A w \in 1 .. n : log[w] \in Windows
  <2>1. log \in Seq(Windows)
    BY DEF RecordIsTyped
  <2>2. QED
    BY <2>1, LenProperties, ElementOfSeq
<1>2. FinalTaskSnapshots = [t \in {u \in Task : carrying(u) # {}} |-> log[Max(carrying(t))].snap[t]]
  BY DEF FinalTaskSnapshots
<1>3. CASE log = <<>>
  <2>1. n = 0
    BY <1>3, EmptySeq
  <2>2. \A t \in Task : carrying(t) = {}
    BY <1>1, <2>1
  <2>3. QED
    BY <1>2, <1>3, <2>2
<1>4. CASE log # <<>>
  <2>1. n \in Nat \ {0} /\ n \in 1 .. n
    BY <1>1, <1>4, EmptySeq
  <2>2. \A w \in 1 .. n : DOMAIN log[w].snap = Task
    BY <1>1, WindowHas DEF Workspace
  <2>3. \A t \in Task : carrying(t) = 1 .. n
    BY <1>1, <2>2
  <2>4. Max(1 .. n) = n
    BY <2>1, MaxOfRange
  <2>5. {u \in Task : carrying(u) # {}} = Task
    BY <2>1, <2>3
  <2>6. \A t \in Task : Max(carrying(t)) = n
    BY <2>3, <2>4
  <2> HIDE DEF carrying
  <2>7. DOMAIN FinalTaskSnapshots = Task /\ \A t \in Task : FinalTaskSnapshots[t] = log[n].snap[t]
    BY <1>2, <2>5, <2>6
  <2>8. QED
    BY <1>1, <1>4, <2>1, <2>7
<1>5. QED
  BY <1>3, <1>4

-----------------------------------------------------------------------------
(***************************************************************************)
(* The payload of a recorded session.                                      *)
(***************************************************************************)
LEMMA FlattenSteps ==
    ASSUME NEW S, NEW n \in Nat \ {0}, NEW seqs \in [1 .. n -> Seq(S)]
    PROVE  \E g : /\ g \in [0 .. n -> Seq(S)] /\ g[0] = <<>>
                  /\ \A k \in 1 .. n : g[k] = g[k - 1] \o seqs[k]
                  /\ FlattenSeq(seqs) = g[n]
<1> DEFINE step == [p \in (1 .. n) \X Seq(S) |-> p[2] \o seqs[p[1]]]
           G(f) == [i \in 1 .. n |-> IF i = 1 THEN seqs[i] ELSE f[i - 1] \o seqs[i]]
           flatten == CHOOSE f : f = G(f)
<1>1. <<>> \in Seq(S)
  BY EmptySeq
<1>2. step \in [(1 .. n) \X Seq(S) -> Seq(S)]
  <2>1. \A p \in (1 .. n) \X Seq(S) : p[2] \o seqs[p[1]] \in Seq(S)
    <3>1. \A p \in (1 .. n) \X Seq(S) : p[2] \in Seq(S) /\ seqs[p[1]] \in Seq(S)
      OBVIOUS
    <3>2. QED
      BY <3>1, ConcatProperties
  <2>2. QED
    BY <2>1
<1>3. PICK g : Solves(g, n, Seq(S), <<>>, step)
  <2> HIDE DEF step
  <2>1. QED
    BY <1>1, <1>2, Iterates
<1>4. /\ \A k \in 1 .. n : k - 1 \in 0 .. n /\ k \in 0 .. n
      /\ 1 \in 1 .. n /\ 0 \in 0 .. n /\ n \in 1 .. n
      /\ \A k \in 1 .. n : k # 1 => k - 1 \in 1 .. n
  OBVIOUS
<1>5. g \in [0 .. n -> Seq(S)] /\ g[0] = <<>> /\ \A k \in 1 .. n : g[k - 1] \in Seq(S)
  BY <1>3, <1>4 DEF Solves
<1>6. \A k \in 1 .. n : g[k] = g[k - 1] \o seqs[k]
  BY <1>3, <1>5 DEF Solves
<1>7. g[1] = seqs[1]
  <2>1. seqs[1] \in Seq(S)
    BY <1>4
  <2>2. <<>> \o seqs[1] = seqs[1]
    BY <2>1, ConcatEmptySeq
  <2>3. g[1] = g[1 - 1] \o seqs[1] /\ 1 - 1 = 0
    BY <1>4, <1>6
  <2>4. QED
    BY <1>5, <2>2, <2>3
<1> DEFINE h == [i \in 1 .. n |-> g[i]]
<1>8. h = G(h)
  BY <1>4, <1>6, <1>7
<1>9. flatten = G(flatten)
  <2> HIDE DEF G, h
  <2>1. QED
    BY <1>8
<1>10. Len(seqs) = n /\ n # 0
  <2>1. seqs \in Seq(Seq(S))
    BY SeqDef
  <2>2. DOMAIN seqs = 1 .. Len(seqs) /\ Len(seqs) \in Nat /\ DOMAIN seqs = 1 .. n
    BY <2>1, LenProperties
  <2>3. QED
    BY <2>2
<1>11. FlattenSeq(seqs) = flatten[n]
  BY <1>10 DEF FlattenSeq
<1>12. flatten[1] = seqs[1] /\ \A i \in 1 .. n : i # 1 => flatten[i] = flatten[i - 1] \o seqs[i]
  <2> HIDE DEF flatten
  <2>1. QED
    BY <1>4, <1>9
<1> HIDE DEF flatten, G
<1> DEFINE T == {k \in Nat : k + 1 <= n => flatten[k + 1] = g[k + 1]}
<1>13. 0 \in T
  BY <1>7, <1>12
<1>14. ASSUME NEW k \in T PROVE k + 1 \in T
  <2> SUFFICES ASSUME (k + 1) + 1 <= n PROVE flatten[(k + 1) + 1] = g[(k + 1) + 1]
    OBVIOUS
  <2>1. /\ (k + 1) + 1 \in 1 .. n /\ ((k + 1) + 1) - 1 = k + 1 /\ (k + 1) + 1 # 1
        /\ flatten[k + 1] = g[k + 1]
    OBVIOUS
  <2>2. QED
    BY <1>6, <1>12, <2>1
<1> HIDE DEF T
<1>15. T = Nat
  <2>1. T \subseteq Nat
    BY DEF T
  <2>2. QED
    BY <1>13, <1>14, <2>1, NatInd
<1>16. flatten[n] = g[n]
  <2>1. n - 1 \in T /\ (n - 1) + 1 = n
    BY <1>15
  <2>2. QED
    BY <2>1 DEF T
<1>17. QED
  BY <1>5, <1>6, <1>11, <1>16

\* The payload is one, and its events are those of the windows in order.
LEMMA RecordIsPayload ==
    ASSUME RecordIsTyped, log # <<>>
    PROVE  LET d == ReplayData
           IN  /\ IsPayload(d, Task) /\ Len(d.snaps) = Len(log)
               /\ \A w \in 1 .. Len(log) : /\ d.snaps[w].files = log[w].snap
                                           /\ d.snaps[w].count = Len(log[w].events)
                                           /\ d.snaps[w].open = FALSE
               /\ \A w \in 1 .. Len(log) : \A k \in 1 .. Len(log[w].events) :
                     d.events[EventsUpTo(d, w - 1) + k] = log[w].events[k]
<1> DEFINE d == ReplayData
           n == Len(log)
           seqs == [w \in DOMAIN log |-> log[w].events]
           C(w) == EventsUpTo(d, w)
<1>1. log \in Seq(Windows) /\ n \in Nat \ {0} /\ DOMAIN log = 1 .. n /\ \A w \in 1 .. n : log[w] \in Windows
  <2>1. log \in Seq(Windows)
    BY DEF RecordIsTyped
  <2>2. QED
    BY <2>1, LenProperties, ElementOfSeq, EmptySeq
<1>2. seqs \in [1 .. n -> Seq(Event)]
  <2>1. \A w \in 1 .. n : log[w].events \in Seq(Event)
    BY <1>1, WindowHas
  <2>2. QED
    BY <1>1, <2>1
<1>3. d.events = FlattenSeq(seqs)
  BY DEF ReplayData
<1> DEFINE Taken(w) == [count |-> Len(log[w].events), files |-> log[w].snap, open |-> FALSE]
<1>4. d.snaps = [w \in 1 .. n |-> Taken(w)]
  BY <1>1 DEF ReplayData
<1>5. Len(d.snaps) = n /\ DOMAIN d.snaps = 1 .. n
  <2> DEFINE all == d.snaps
             X == {Taken(w) : w \in 1 .. n}
  <2> HIDE DEF n, Taken
  <2>1. all \in Seq(X)
    <3>1. all \in [1 .. n -> X] /\ n \in Nat
      BY <1>1, <1>4
    <3> HIDE DEF all, X
    <3>2. QED
      BY <3>1, SeqDef
  <2>2. DOMAIN d.snaps = 1 .. Len(d.snaps) /\ Len(d.snaps) \in Nat /\ DOMAIN d.snaps = 1 .. n
    BY <1>4, <2>1, LenProperties
  <2>3. QED
    BY <1>1, <2>2
<1>6. \A w \in 1 .. n : /\ d.snaps[w].count = Len(log[w].events) /\ d.snaps[w].count \in Nat
                        /\ d.snaps[w].files = log[w].snap
                        /\ d.snaps[w].open = FALSE
                        /\ IsSnap(d.snaps[w], Task)
  <2>1. \A w \in 1 .. n : log[w].snap \in Workspace(Task) /\ Len(log[w].events) \in Nat
    BY <1>1, WindowHas
  <2>2. \A w \in 1 .. n : d.snaps[w] = Taken(w)
    BY <1>4
  <2> HIDE DEF d, Taken
  <2>3. \A w \in 1 .. n : /\ Taken(w).count = Len(log[w].events) /\ Taken(w).files = log[w].snap
                          /\ Taken(w).open = FALSE
    BY DEF Taken
  <2>4. \A w \in 1 .. n : /\ d.snaps[w].count = Len(log[w].events) /\ d.snaps[w].files = log[w].snap
                          /\ d.snaps[w].open = FALSE
    BY <2>2, <2>3
  <2>5. QED
    BY <2>1, <2>4 DEF IsSnap
<1>7. /\ C(0) = 0 /\ (\A w \in 0 .. n : C(w) \in Nat)
      /\ \A w \in 1 .. n : C(w) = C(w - 1) + Len(log[w].events)
  <2>1. /\ C(0) = 0 /\ (\A w \in 0 .. n : C(w) \in Nat)
        /\ \A w \in 1 .. n : C(w) = C(w - 1) + d.snaps[w].count
    BY <1>1, <1>5, <1>6, Cuts
  <2>2. QED
    BY <1>6, <2>1
<1>8. PICK g : /\ g \in [0 .. n -> Seq(Event)] /\ g[0] = <<>>
               /\ \A k \in 1 .. n : g[k] = g[k - 1] \o seqs[k]
               /\ FlattenSeq(seqs) = g[n]
  <2> HIDE DEF n, seqs
  <2>1. QED
    BY <1>1, <1>2, FlattenSteps
<1>9. \A w \in 1 .. n : seqs[w] = log[w].events
  BY <1>1
<1> HIDE DEF d, C, seqs, n
<1> DEFINE Stands(k) ==
              /\ Len(g[k]) = C(k)
              /\ \A w \in 1 .. k : \A j \in 1 .. Len(log[w].events) :
                    C(w - 1) + j \in 1 .. C(k) /\ g[k][C(w - 1) + j] = log[w].events[j]
           S == {k \in Nat : k <= n => Stands(k)}
<1>10. 0 \in S
  <2>1. Len(g[0]) = 0 /\ 1 .. 0 = {}
    BY <1>8, EmptySeq
  <2>2. QED
    BY <1>7, <2>1
<1>11. ASSUME NEW k \in S PROVE k + 1 \in S
  <2> SUFFICES ASSUME k + 1 <= n PROVE Stands(k + 1)
    OBVIOUS
  <2> DEFINE a == g[k]
             e == log[k + 1].events
             b == g[k + 1]
  <2>1. k \in Nat /\ k \in 0 .. n /\ k + 1 \in 0 .. n /\ k + 1 \in 1 .. n /\ (k + 1) - 1 = k /\ Stands(k)
    BY <1>1
  <2>2. b = a \o e /\ a \in Seq(Event) /\ e \in Seq(Event)
    BY <1>1, <1>8, <1>9, <2>1, WindowHas
  <2>3. C(k + 1) = C(k) + Len(e) /\ Len(e) \in Nat /\ C(k) \in Nat /\ Len(a) = C(k)
    BY <1>7, <2>1, <2>2, LenProperties
  <2>4. /\ Len(b) = Len(a) + Len(e)
        /\ \A i \in 1 .. Len(a) + Len(e) : b[i] = IF i <= Len(a) THEN a[i] ELSE e[i - Len(a)]
    <3> HIDE DEF a, e, b
    <3>1. QED
      BY <2>2, ConcatProperties
  <2>5. \A w \in 1 .. k : \A j \in 1 .. Len(log[w].events) :
           C(w - 1) + j \in 1 .. C(k) /\ a[C(w - 1) + j] = log[w].events[j]
    BY <2>1
  <2> HIDE DEF a, e, b
  <2>6. \A w \in 1 .. k : \A j \in 1 .. Len(log[w].events) :
           C(w - 1) + j \in 1 .. C(k + 1) /\ b[C(w - 1) + j] = log[w].events[j]
    <3>1. \A i \in 1 .. C(k) : i \in 1 .. C(k + 1) /\ b[i] = a[i]
      BY <2>3, <2>4
    <3>2. QED
      BY <2>5, <3>1
  <2>7. \A j \in 1 .. Len(e) : C(k) + j \in 1 .. C(k + 1) /\ b[C(k) + j] = e[j]
    <3>1. \A j \in 1 .. Len(e) : /\ C(k) + j \in 1 .. C(k + 1) /\ C(k) + j \in 1 .. Len(a) + Len(e)
                                 /\ ~(C(k) + j <= Len(a)) /\ (C(k) + j) - Len(a) = j
      BY <2>3
    <3>2. QED
      BY <2>4, <3>1
  <2>8. \A w \in 1 .. k + 1 : w \in 1 .. k \/ w = k + 1
    BY <2>1
  <2>9. Len(b) = C(k + 1)
    BY <2>3, <2>4
  <2>10. \A w \in 1 .. k + 1 : \A j \in 1 .. Len(log[w].events) :
           C(w - 1) + j \in 1 .. C(k + 1) /\ b[C(w - 1) + j] = log[w].events[j]
    BY <2>1, <2>6, <2>7, <2>8 DEF e
  <2>11. QED
    BY <2>9, <2>10 DEF b
<1> HIDE DEF S
<1>12. S = Nat
  <2>1. S \subseteq Nat
    BY DEF S
  <2>2. QED
    BY <1>10, <1>11, <2>1, NatInd
<1>13. Stands(n) /\ d.events = g[n] /\ d.events \in Seq(Event)
  <2>1. n \in S /\ n <= n /\ n \in 0 .. n
    BY <1>1, <1>12
  <2>2. Stands(n)
    BY <2>1 DEF S
  <2> HIDE DEF Stands
  <2>3. d.events = g[n] /\ g[n] \in Seq(Event)
    BY <1>3, <1>8, <2>1
  <2>4. QED
    BY <2>2, <2>3
<1>14. \A i \in 1 .. Len(d.events) : d.events[i].task \in Task
  <2>1. \A i \in 1 .. Len(d.events) : d.events[i] \in Event
    BY <1>13, ElementOfSeq
  <2>2. QED
    BY <2>1 DEF Event
<1>15. IsPayload(d, Task)
  BY <1>1, <1>5, <1>6, <1>13, <1>14, RecordingAssumption DEF IsPayload, C
<1>16. \A w \in 1 .. n : \A k \in 1 .. Len(log[w].events) : d.events[C(w - 1) + k] = log[w].events[k]
  BY <1>13
<1>17. QED
  BY <1>5, <1>6, <1>15, <1>16 DEF d, n, C

-----------------------------------------------------------------------------
LEMMA RestoredIsReplayed == RecordIsTyped => RestoreMatchesReplay
<1> SUFFICES ASSUME RecordIsTyped PROVE RestoreMatchesReplay
  OBVIOUS
<1> DEFINE d == ReplayData
           n == Len(log)
           multi == IsMultiTask(d)
           shown == FinalFiles(d)
           saved == FinalTaskSnapshots
<1>1. CASE log = <<>>
  BY <1>1, LastSnapshots DEF RestoreMatchesReplay
<1>2. CASE log # <<>>
  <2>1. n \in 1 .. n /\ DOMAIN saved = Task /\ \A t \in Task : saved[t] = log[n].snap[t]
    BY <1>2, LastSnapshots
  <2>2. IsPayload(d, Task) /\ Len(d.snaps) = n /\ d.snaps[n].files = log[n].snap /\ d.snaps[n].open = FALSE
    BY <1>2, <2>1, RecordIsPayload
  <2> DEFINE ends == Pass(d).ends
             cur == Before(d, ends, n)
             F == FilesSeen(d)
             recorded == RecordedAt(d, n)
             played == PlayedFrom(d, cur, n)
             wrong == WrongFrom(d, cur, n)
  <2> HIDE DEF d, n
  <2>3. ends \in Seq([F -> Text]) /\ Len(ends) = n /\ ends[n] = HealedFrom(d, cur, n)
    BY <2>1, <2>2, PassEnds DEF PassRecord, Passes
  <2>4. shown = ends[n]
    <3>1. ends # <<>>
      BY <2>1, <2>3, EmptySeq
    <3>2. QED
      BY <2>3, <3>1 DEF FinalFiles, EndOf, Last
  <2>5. cur \in [F -> Text]
    <3>1. CASE n = 1
      <4>1. <<>> \in Text
        BY EmptySeq DEF Text
      <4>2. QED
        BY <3>1, <4>1 DEF Before, BlankFiles
    <3>2. CASE n # 1
      <4>1. n - 1 \in 1 .. Len(ends)
        BY <2>1, <2>3, <3>2
      <4> HIDE DEF ends
      <4>2. QED
        BY <2>3, <3>2, <4>1, ElementOfSeq DEF Before
    <3>3. QED
      BY <3>1, <3>2
  <2>6. played \in [F -> Text] /\ wrong \subseteq DOMAIN recorded /\ DOMAIN recorded \subseteq F
    <3> HIDE DEF cur
    <3>1. QED
      BY <2>1, <2>2, <2>5, WindowType
  <2>7. wrong = {f \in DOMAIN recorded : played[f] # recorded[f]}
    BY <2>2 DEF WrongFrom, Differs
  <2>8. shown = [f \in DOMAIN played |-> IF f \in wrong THEN recorded[f] ELSE played[f]]
    BY <2>3, <2>4 DEF HealedFrom
  <2> HIDE DEF played, wrong, recorded, shown, ends, cur
  <2>9. \A f \in DOMAIN recorded : shown[f] = recorded[f]
    BY <2>6, <2>7, <2>8
  <2>10. \A t \in Task : \A m \in DOMAIN d.snaps[n].files[t] :
           /\ Qualify(t, m, multi) \in DOMAIN recorded
           /\ recorded[Qualify(t, m, multi)] = d.snaps[n].files[t][m]
    <3>1. IsSnap(d.snaps[n], Task) /\ IsFiniteSet(Task) /\ multi = (Cardinality(Task) > 1)
      BY <2>1, <2>2, PayloadTasks DEF IsPayload
    <3>2. recorded = SnapshotFiles(d.snaps[n], multi)
      BY DEF recorded, RecordedAt
    <3> HIDE DEF multi
    <3>3. QED
      BY <3>1, <3>2, SnapshotRecords
  <2>11. \A t \in Task : \A m \in DOMAIN saved[t] : shown[Qualify(t, m, multi)] = saved[t][m]
    BY <2>1, <2>2, <2>9, <2>10
  <2>12. QED
    BY <2>1, <2>11 DEF RestoreMatchesReplay, d, shown
<1>3. QED
  BY <1>1, <1>2

-----------------------------------------------------------------------------
(***************************************************************************)
(* Monaco's edits: applied in the order listed they give the next text.    *)
(***************************************************************************)
LEMMA ApplyAt ==
    ASSUME NEW text \in Text, NEW o \in Nat, NEW k \in Nat, NEW t \in Text, o <= Len(text)
    PROVE  ApplyChange(text, Change(o, k, t)) =
              SubSeq(text, 1, o) \o t \o SubSeq(text, o + k + 1, Len(text))
<1>1. Len(text) \in Nat
  BY LenProperties DEF Text
<1>2. Min({o, Len(text)}) = o
  BY <1>1, MinOfTwo
<1>3. QED
  BY <1>2 DEF ApplyChange, Change

\* A change over the whole text leaves what it inserts.
LEMMA ApplyOverAll ==
    ASSUME NEW text \in Text, NEW t \in Text
    PROVE  ApplyChange(text, Change(0, Len(text), t)) = t
<1>1. Len(text) \in Nat
  BY LenProperties DEF Text
<1>2. SubSeq(text, 1, 0) = <<>>
  BY SubSeqEmpty
<1>3. SubSeq(text, 0 + Len(text) + 1, Len(text)) = <<>>
  BY <1>1, SubSeqEmpty
<1>4. ApplyChange(text, Change(0, Len(text), t)) = <<>> \o t \o <<>>
  <2>1. 0 \in Nat /\ 0 <= Len(text)
    BY <1>1
  <2>2. ApplyChange(text, Change(0, Len(text), t)) =
           SubSeq(text, 1, 0) \o t \o SubSeq(text, 0 + Len(text) + 1, Len(text))
    BY <1>1, <2>1, ApplyAt
  <2>3. QED
    BY <1>2, <1>3, <2>2, Zenon
<1>5. <<>> \o t = t /\ t \o <<>> = t
  BY ConcatEmptySeq DEF Text
<1>6. QED
  BY <1>4, <1>5

LEMMA ApplyAtEnd ==
    ASSUME NEW text \in Text, NEW x \in Nat
    PROVE  ApplyChange(text, Change(Len(text), 0, <<x>>)) = Append(text, x)
<1>1. Len(text) \in Nat /\ <<x>> \in Text
  BY LenProperties DEF Text
<1>2. SubSeq(text, 1, Len(text)) = text
  BY SubSeqFull DEF Text
<1>3. SubSeq(text, Len(text) + 0 + 1, Len(text)) = <<>>
  BY <1>1, SubSeqEmpty
<1>4. text \o <<x>> = Append(text, x) /\ Append(text, x) \in Text
  BY AppendIsConcat, AppendProperties DEF Text
<1>5. ApplyChange(text, Change(Len(text), 0, <<x>>)) = text \o <<x>> \o <<>>
  <2>1. 0 \in Nat /\ Len(text) <= Len(text)
    BY <1>1
  <2>2. ApplyChange(text, Change(Len(text), 0, <<x>>)) =
           SubSeq(text, 1, Len(text)) \o <<x>> \o SubSeq(text, Len(text) + 0 + 1, Len(text))
    BY <1>1, <2>1, ApplyAt
  <2>3. QED
    BY <1>2, <1>3, <2>2, Zenon
<1>6. Append(text, x) \o <<>> = Append(text, x)
  BY <1>4, ConcatEmptySeq DEF Text
<1>7. QED
  BY <1>4, <1>5, <1>6

LEMMA ApplyAtStart ==
    ASSUME NEW text \in Text, text # <<>>
    PROVE  ApplyChange(text, Change(0, 1, <<>>)) = Tail(text)
<1>1. <<>> \in Text
  BY EmptySeq DEF Text
<1>2. SubSeq(text, 1, 0) = <<>>
  BY SubSeqEmpty
<1>3. Tail(text) \in Text /\ Tail(text) = SubSeq(text, 2, Len(text)) /\ Len(text) \in Nat
  BY HeadTailProperties, TailIsSubSeq, LenProperties DEF Text
<1>4. ApplyChange(text, Change(0, 1, <<>>)) = <<>> \o <<>> \o Tail(text)
  <2>1. 0 \in Nat /\ 1 \in Nat /\ 0 <= Len(text) /\ 0 + 1 + 1 = 2
    BY <1>3
  <2>2. ApplyChange(text, Change(0, 1, <<>>)) =
           SubSeq(text, 1, 0) \o <<>> \o SubSeq(text, 0 + 1 + 1, Len(text))
    BY <1>1, <2>1, ApplyAt
  <2>3. QED
    BY <1>2, <1>3, <2>1, <2>2, Zenon
<1>5. <<>> \o <<>> = <<>> /\ <<>> \o Tail(text) = Tail(text)
  BY <1>1, <1>3, ConcatEmptySeq DEF Text
<1>6. QED
  BY <1>4, <1>5

LEMMA ApplyOne ==
    ASSUME NEW text \in Text, NEW c \in OneEdit
    PROVE  <<c>> \in Seq(OneEdit) /\ ApplyChanges(text, <<c>>) = ApplyChange(text, c)
<1>1. <<c>> \in Seq(OneEdit) /\ Len(<<c>>) = 1 /\ <<c>>[1] = c
  OBVIOUS
<1>2. PICK g : /\ g[0] = text /\ \A k \in 1 .. 1 : g[k] = ApplyChange(g[k - 1], <<c>>[k])
               /\ ApplyChanges(text, <<c>>) = g[1]
  <2> DEFINE cs == <<c>>
  <2>1. cs \in Seq(OneEdit) /\ Len(cs) = 1
    BY <1>1
  <2>2. \E g : /\ g[0] = text /\ \A k \in 1 .. Len(cs) : g[k] = ApplyChange(g[k - 1], cs[k])
               /\ ApplyChanges(text, cs) = g[Len(cs)]
    <3> HIDE DEF cs
    <3>1. QED
      BY <2>1, ApplyChangesSteps
  <2>3. QED
    BY <2>1, <2>2
<1>3. g[1] = ApplyChange(g[1 - 1], <<c>>[1]) /\ 1 - 1 = 0
  BY <1>2
<1>4. QED
  BY <1>1, <1>2, <1>3

LEMMA ApplyTwo ==
    ASSUME NEW text \in Text, NEW b \in OneEdit, NEW c \in OneEdit
    PROVE  /\ <<b, c>> \in Seq(OneEdit)
           /\ ApplyChanges(text, <<b, c>>) = ApplyChange(ApplyChange(text, b), c)
<1>1. <<b, c>> \in Seq(OneEdit) /\ Len(<<b, c>>) = 2 /\ <<b, c>>[1] = b /\ <<b, c>>[2] = c
  OBVIOUS
<1>2. PICK g : /\ g[0] = text /\ \A k \in 1 .. 2 : g[k] = ApplyChange(g[k - 1], <<b, c>>[k])
               /\ ApplyChanges(text, <<b, c>>) = g[2]
  BY <1>1, ApplyChangesSteps
<1>3. g[1] = ApplyChange(g[1 - 1], <<b, c>>[1]) /\ g[2] = ApplyChange(g[2 - 1], <<b, c>>[2])
  BY <1>2
<1>4. 1 - 1 = 0 /\ 2 - 1 = 1
  OBVIOUS
<1>5. QED
  BY <1>1, <1>2, <1>3, <1>4

LEMMA ChangeType ==
    ASSUME NEW o \in Nat, NEW k \in Nat, NEW t \in Text
    PROVE  Change(o, k, t) \in OneEdit
  BY DEF Change, OneEdit

LEMMA MonacoDoes ==
    ASSUME NEW s \in Text, NEW x \in Nat, NEW m \in MonacoChanges(s, x)
    PROVE  /\ m.action \in {"type", "paste"} /\ m.changes \in Seq(OneEdit) /\ m.next \in Text
           /\ ApplyChanges(s, m.changes) = m.next
<1>1. /\ Len(s) \in Nat /\ <<>> \in Text /\ <<x>> \in Text /\ <<x, x>> \in Text /\ 0 \in Nat /\ 1 \in Nat
      /\ (Len(s) = 0 => s = <<>>) /\ (Len(s) # 0 => s # <<>>)
  BY LenProperties, EmptySeq DEF Text
<1>2. CASE m = [action |-> "paste", changes |-> <<Change(0, Len(s), <<x, x>>)>>, next |-> <<x, x>>]
  <2>1. Change(0, Len(s), <<x, x>>) \in OneEdit
    BY <1>1, ChangeType
  <2>2. QED
    BY <1>1, <1>2, <2>1, ApplyOne, ApplyOverAll
<1>3. CASE /\ Len(s) = 0
           /\ m = [action |-> "type", changes |-> <<Change(0, 0, <<x>>)>>, next |-> <<x>>]
  <2>1. Change(0, 0, <<x>>) \in OneEdit
    BY <1>1, ChangeType
  <2>2. ApplyChange(s, Change(0, 0, <<x>>)) = <<x>>
    BY <1>1, <1>3, ApplyOverAll
  <2>3. QED
    BY <1>1, <1>3, <2>1, <2>2, ApplyOne
<1>4. CASE /\ Len(s) = 1
           /\ m = [action |-> "type", changes |-> <<Change(0, 1, <<>>)>>, next |-> <<>>]
  <2>1. Change(0, 1, <<>>) \in OneEdit
    BY <1>1, ChangeType
  <2>2. ApplyChange(s, Change(0, 1, <<>>)) = <<>>
    BY <1>1, <1>4, ApplyOverAll
  <2>3. QED
    BY <1>1, <1>4, <2>1, <2>2, ApplyOne
<1>5. CASE /\ Len(s) # 0
           /\ m = [action |-> "type",
                   changes |-> <<Change(Len(s), 0, <<x>>), Change(0, 1, <<>>)>>,
                   next |-> Append(Tail(s), x)]
  <2>1. Change(Len(s), 0, <<x>>) \in OneEdit /\ Change(0, 1, <<>>) \in OneEdit
    BY <1>1, ChangeType
  <2>2. ApplyChange(s, Change(Len(s), 0, <<x>>)) = Append(s, x)
    BY ApplyAtEnd
  <2>3. Append(s, x) \in Text /\ Append(s, x) # <<>>
    BY AppendProperties DEF Text
  <2>4. Tail(Append(s, x)) = Append(Tail(s), x)
    BY <1>1, <1>5, HeadTailAppend DEF Text
  <2>5. Append(Tail(s), x) \in Text
    <3>1. Tail(s) \in Seq(Nat)
      BY <1>1, <1>5, HeadTailProperties DEF Text
    <3>2. QED
      BY <3>1, AppendProperties DEF Text
  <2>6. ApplyChange(Append(s, x), Change(0, 1, <<>>)) = Append(Tail(s), x)
    BY <2>3, <2>4, ApplyAtStart
  <2>7. QED
    BY <1>5, <2>1, <2>2, <2>5, <2>6, ApplyTwo
<1>6. QED
  BY <1>1, <1>2, <1>3, <1>4, <1>5 DEF MonacoChanges

-----------------------------------------------------------------------------
(***************************************************************************)
(* Every action keeps the record typed.                                    *)
(***************************************************************************)
LEMMA BlankIsWorkspace == [t \in Task |-> BlankWorkspace] \in Workspace(Task)
<1>1. <<>> \in Text /\ EntryFile \in File
  BY EmptySeq, RecordingAssumption DEF Text
<1>2. DOMAIN BlankWorkspace \subseteq File /\ BlankWorkspace \in [DOMAIN BlankWorkspace -> Text]
  BY <1>1 DEF BlankWorkspace
<1> DEFINE ws == [t \in Task |-> BlankWorkspace]
<1>3. ws = [t \in Task |-> ws[t]] /\ \A t \in Task : ws[t] = BlankWorkspace
  OBVIOUS
<1> HIDE DEF ws
<1>4. ws \in Workspace(Task)
  BY <1>2, <1>3, IsWorkspace
<1>5. QED
  BY <1>4 DEF ws

LEMMA RecordStart == Init => RecordIsTyped
<1> SUFFICES ASSUME Init PROVE RecordIsTyped
  OBVIOUS
<1>1. files \in Workspace(Task)
  BY BlankIsWorkspace DEF Init
<1>2. buffer \in Seq(Event) /\ log \in Seq(Windows)
  BY EmptySeq DEF Init
<1>3. activeTask \in Task /\ activeFile \in [Task -> File]
  BY RecordingAssumption DEF Init
<1>4. switches = {} /\ posts = {} /\ torn = FALSE /\ anew = TRUE
  BY DEF Init
<1>5. edits = 0 /\ drained = 0 /\ mishaps = 0 /\ page = 0
  BY DEF Init
<1>6. QED
  BY <1>1, <1>2, <1>3, <1>4, <1>5 DEF RecordIsTyped

\* What Edit buffers.
Edited(m, since) == [task |-> activeTask, file |-> activeFile[activeTask], action |-> m.action,
                 at |-> Time[edits + 1], since |-> since, anew |-> anew,
                 changes |-> m.changes, after |-> m.next]

LEMMA EditDoes ==
    ASSUME RecordIsTyped, Edit
    PROVE  LET t == activeTask
               n == activeFile[t]
           IN  /\ t \in Task /\ n \in File /\ n \in DOMAIN files[t] /\ files[t][n] \in Text
               /\ \E m \in MonacoChanges(files[t][n], edits + 1), since \in SinceLast(edits + 1) :
                     /\ m.next \in Text /\ m.changes \in Seq(OneEdit)
                     /\ ApplyChanges(files[t][n], m.changes) = m.next
                     /\ files' = [files EXCEPT ![t] = [files[t] EXCEPT ![n] = m.next]]
                     /\ Edited(m, since) \in Event /\ buffer' = Append(buffer, Edited(m, since))
               /\ files' \in Workspace(Task)
               /\ edits' = edits + 1
               /\ UNCHANGED <<activeFile, activeTask, switches, posts, log,
                              drained, mishaps, page, gone, torn>>
<1> DEFINE t == activeTask
           n == activeFile[t]
           s == files[t][n]
<1>1. /\ edits < MaxEdits /\ n \in DOMAIN files[t] /\ edits' = edits + 1
      /\ UNCHANGED <<activeFile, activeTask, switches, posts, log, drained, mishaps, page, gone, torn>>
  BY DEF Edit
<1>2. t \in Task /\ n \in File /\ edits \in Nat /\ files \in Workspace(Task)
  BY DEF RecordIsTyped
<1>3. s \in Text /\ files[t] \in [DOMAIN files[t] -> Text] /\ DOMAIN files[t] \subseteq File
  BY <1>1, <1>2, WorkspaceHas
<1>4. PICK m \in MonacoChanges(s, edits + 1), since \in SinceLast(edits + 1) :
          /\ files' = [files EXCEPT ![t][n] = m.next]
          /\ buffer' = Append(buffer, Edited(m, since))
  BY DEF Edit, Edited
<1> HIDE DEF s, n, t
<1>5. /\ m.action \in {"type", "paste"} /\ m.changes \in Seq(OneEdit) /\ m.next \in Text
      /\ ApplyChanges(s, m.changes) = m.next
  BY <1>2, <1>3, MonacoDoes
<1>6. Time[edits + 1] \in Nat /\ since \in Nat
  <2>1. edits + 1 \in 1 .. MaxEdits /\ MaxEdits \in Nat /\ Opened \in Nat
    BY <1>1, <1>2, RecordingAssumption
  <2>2. Time[edits + 1] \in Nat /\ Time[edits + 1] > IF edits + 1 = 1 THEN Opened ELSE Time[(edits + 1) - 1]
    BY <2>1, RecordingAssumption
  <2>3. edits + 1 # 1 => Time[(edits + 1) - 1] \in Nat
    <3>1. edits + 1 # 1 => (edits + 1) - 1 \in 1 .. MaxEdits
      BY <1>2, <2>1
    <3>2. QED
      BY <3>1, RecordingAssumption
  <2> DEFINE prev == IF edits + 1 = 1 THEN Opened ELSE Time[(edits + 1) - 1]
  <2>4. prev \in Nat /\ Time[edits + 1] > prev
    BY <2>1, <2>2, <2>3
  <2>5. since \in SinceSwitch[edits + 1] \/ since = Time[edits + 1] - prev
    BY DEF SinceLast
  <2>6. SinceSwitch[edits + 1] \subseteq Nat
    BY <2>1, RecordingAssumption
  <2> HIDE DEF prev
  <2>7. QED
    BY <2>2, <2>4, <2>5, <2>6
<1>7. Edited(m, since) \in Event
  BY <1>2, <1>5, <1>6 DEF Edited, Event, t, n, RecordIsTyped
<1>8. files' = [files EXCEPT ![t] = [files[t] EXCEPT ![n] = m.next]]
  BY <1>4
<1>9. files' \in Workspace(Task)
  <2> DEFINE v == [files[t] EXCEPT ![n] = m.next]
  <2>1. DOMAIN v \subseteq File /\ v \in [DOMAIN v -> Text]
    BY <1>3, <1>5
  <2> HIDE DEF v
  <2>2. [files EXCEPT ![t] = v] \in Workspace(Task)
    BY <1>2, <2>1, PutFiles
  <2>3. QED
    BY <1>8, <2>2 DEF v
<1>10. QED
  BY <1>1, <1>2, <1>3, <1>4, <1>5, <1>7, <1>8, <1>9 DEF s, t, n

LEMMA DrainDoes ==
    ASSUME RecordIsTyped, Drain
    PROVE  /\ Window \in Windows
           /\ Window = [ord |-> drained + 1, page |-> page, events |-> buffer, snap |-> files]
           /\ buffer # <<>> /\ posts' = posts \cup {Window} /\ buffer' = <<>>
           /\ drained' = drained + 1
  BY DEF RecordIsTyped, Drain, Window, Windows

\* The file operations.
LEMMA FileOpsKeepFiles ==
    ASSUME RecordIsTyped, NEW n \in File, NEW old \in File,
           CreateFile(n) \/ DeleteFile(n) \/ RenameFile(old, n)
    PROVE  files' \in Workspace(Task) /\ activeFile' \in [Task -> File]
<1> DEFINE t == activeTask
<1>1. t \in Task /\ files \in Workspace(Task) /\ activeFile \in [Task -> File] /\ EntryFile \in File
  BY RecordingAssumption DEF RecordIsTyped
<1>2. <<>> \in Text
  BY EmptySeq DEF Text
<1>3. DOMAIN files[t] \subseteq File /\ files[t] \in [DOMAIN files[t] -> Text]
  BY <1>1, WorkspaceHas
<1>4. ASSUME NEW v, DOMAIN v \subseteq File, v \in [DOMAIN v -> Text], files' = [files EXCEPT ![t] = v]
      PROVE  files' \in Workspace(Task)
  BY <1>1, <1>4, PutFiles
<1>5. CASE CreateFile(n)
  <2> DEFINE v == [m \in DOMAIN files[t] \cup {n} |-> IF m = n THEN <<>> ELSE files[t][m]]
  <2>1. files' = [files EXCEPT ![t] = v] /\ activeFile' = [activeFile EXCEPT ![t] = n]
    BY <1>5 DEF CreateFile
  <2>2. DOMAIN v \subseteq File /\ v \in [DOMAIN v -> Text]
    BY <1>2, <1>3
  <2> HIDE DEF v
  <2>3. QED
    BY <1>1, <1>4, <2>1, <2>2
<1>6. CASE DeleteFile(n)
  <2> DEFINE v == [m \in DOMAIN files[t] \ {n} |-> files[t][m]]
  <2>1. /\ files' = [files EXCEPT ![t] = v]
        /\ activeFile' = [activeFile EXCEPT ![t] = IF activeFile[t] = n THEN EntryFile ELSE activeFile[t]]
    BY <1>6 DEF DeleteFile
  <2>2. DOMAIN v \subseteq File /\ v \in [DOMAIN v -> Text]
    BY <1>3
  <2> HIDE DEF v
  <2>3. QED
    BY <1>1, <1>4, <2>1, <2>2
<1>7. CASE RenameFile(old, n)
  <2> DEFINE v == [m \in (DOMAIN files[t] \ {old}) \cup {n} |->
                      IF m = n THEN files[t][old] ELSE files[t][m]]
  <2>1. /\ files' = [files EXCEPT ![t] = v] /\ old \in DOMAIN files[t]
        /\ activeFile' = [activeFile EXCEPT ![t] = IF activeFile[t] = old THEN n ELSE activeFile[t]]
    BY <1>7 DEF RenameFile
  <2>2. DOMAIN v \subseteq File /\ v \in [DOMAIN v -> Text]
    BY <1>3, <2>1
  <2> HIDE DEF v
  <2>3. QED
    BY <1>1, <1>4, <2>1, <2>2
<1>8. QED
  BY <1>5, <1>6, <1>7

\* What a reload opens on.
LEMMA RestoreDoes ==
    ASSUME RecordIsTyped
    PROVE  /\ RestoreWorkspaces \in Workspace(Task)
           /\ log = <<>> => RestoreWorkspaces = [t \in Task |-> BlankWorkspace]
           /\ log # <<>> => \A t \in Task :
                 RestoreWorkspaces[t] = FilesFromSnapshot(log[Len(log)].snap[t])
           /\ log # <<>> => LastActive \in Event
<1>1. CASE log = <<>>
  <2>1. DOMAIN FinalTaskSnapshots = {}
    BY <1>1, LastSnapshots
  <2>2. RestoreWorkspaces = [t \in Task |-> BlankWorkspace]
    BY <2>1 DEF RestoreWorkspaces
  <2>3. QED
    BY <1>1, <2>2, BlankIsWorkspace
<1>2. CASE log # <<>>
  <2> DEFINE last == log[Len(log)]
  <2>1. last \in Windows /\ DOMAIN FinalTaskSnapshots = Task /\ \A t \in Task : FinalTaskSnapshots[t] = last.snap[t]
    BY <1>2, LastSnapshots
  <2> HIDE DEF last
  <2>2. last.snap \in Workspace(Task) /\ last.events \in Seq(Event) /\ Len(last.events) \in Nat \ {0}
    BY <2>1, WindowHas
  <2>3. RestoreWorkspaces = [t \in Task |-> FilesFromSnapshot(last.snap[t])]
    BY <2>1 DEF RestoreWorkspaces
  <2>4. ASSUME NEW t \in Task
        PROVE  /\ DOMAIN FilesFromSnapshot(last.snap[t]) \subseteq File
               /\ FilesFromSnapshot(last.snap[t]) \in [DOMAIN FilesFromSnapshot(last.snap[t]) -> Text]
    <3>1. <<>> \in Text /\ EntryFile \in File
      BY EmptySeq, RecordingAssumption DEF Text
    <3>2. DOMAIN last.snap[t] \subseteq File /\ \A n \in DOMAIN last.snap[t] : last.snap[t][n] \in Text
      BY <2>2, WorkspaceHas
    <3>3. QED
      BY <3>1, <3>2 DEF FilesFromSnapshot
  <2>5. RestoreWorkspaces \in Workspace(Task)
    <3> DEFINE ws == RestoreWorkspaces
    <3>1. ws = [t \in Task |-> ws[t]] /\ \A t \in Task : ws[t] = FilesFromSnapshot(last.snap[t])
      BY <2>3
    <3> HIDE DEF ws
    <3>2. QED
      BY <2>4, <3>1, IsWorkspace DEF ws
  <2>6. LastActive \in Event
    <3>1. Len(last.events) \in 1 .. Len(last.events)
      BY <2>2
    <3>2. last.events[Len(last.events)] \in Event
      BY <2>2, <3>1, ElementOfSeq
    <3>3. QED
      BY <3>2 DEF LastActive, Last, last
  <2>7. QED
    BY <1>2, <2>3, <2>5, <2>6 DEF last
<1>3. QED
  BY <1>1, <1>2

LEMMA RecordStep == RecordIsTyped /\ [Next]_vars => RecordIsTyped'
<1> SUFFICES ASSUME RecordIsTyped, [Next]_vars PROVE RecordIsTyped'
  OBVIOUS
<1>1. /\ files \in Workspace(Task) /\ activeTask \in Task /\ activeFile \in [Task -> File]
      /\ \A s \in switches : s.to \in Task
      /\ buffer \in Seq(Event) /\ posts \subseteq Windows /\ log \in Seq(Windows)
      /\ edits \in Nat /\ drained \in Nat /\ mishaps \in Nat /\ page \in Nat /\ torn \in BOOLEAN
      /\ anew \in BOOLEAN
  BY DEF RecordIsTyped
<1>2. CASE Edit
  <2>1. buffer' \in Seq(Event)
    <3>1. \E ev \in Event : buffer' = Append(buffer, ev)
      BY <1>2, EditDoes
    <3>2. QED
      BY <1>1, <3>1, AppendProperties
  <2>2. /\ files' \in Workspace(Task) /\ edits' = edits + 1
        /\ UNCHANGED <<activeFile, activeTask, switches, posts, log, drained, mishaps, page, torn>>
    BY <1>2, EditDoes
  <2>3. anew' \in BOOLEAN
    BY <1>2 DEF Edit
  <2>4. QED
    BY <1>1, <2>1, <2>2, <2>3 DEF RecordIsTyped
<1>3. ASSUME Drain
      PROVE  posts' \subseteq Windows /\ buffer' \in Seq(Event) /\ drained' \in Nat
  BY <1>1, <1>3, DrainDoes, EmptySeq
<1>4. CASE IntervalFlush
  <2>1. Drain /\ UNCHANGED <<files, activeFile, activeTask, switches, anew, log, edits, mishaps, page, torn>>
    BY <1>4 DEF IntervalFlush, workspace
  <2>2. QED
    BY <1>1, <1>3, <2>1 DEF RecordIsTyped
<1>5. CASE \E t \in Task : ClickTask(t)
  <2>1. PICK t \in Task : ClickTask(t)
    BY <1>5
  <2>2. UNCHANGED <<files, activeFile, log, edits, mishaps, page, torn>> /\ anew' \in BOOLEAN
    BY <1>1, <2>1 DEF ClickTask, Rebinds
  <2>3. CASE buffer = <<>> /\ activeTask' = t /\ UNCHANGED <<switches, buffer, posts, drained>>
    BY <1>1, <2>2, <2>3 DEF RecordIsTyped
  <2>4. CASE Drain /\ switches' = switches \cup {[to |-> t, ord |-> drained + 1]} /\ UNCHANGED activeTask
    <3>1. \A s \in switches' : s.to \in Task
      BY <1>1, <2>4
    <3>2. QED
      BY <1>1, <1>3, <2>2, <2>4, <3>1 DEF RecordIsTyped
  <2>5. QED
    BY <2>1, <2>3, <2>4 DEF ClickTask
<1>6. CASE \E s \in switches : FinishSwitch(s)
  <2>1. PICK s \in switches : FinishSwitch(s)
    BY <1>6
  <2>2. /\ activeTask' = s.to /\ switches' \subseteq switches
        /\ UNCHANGED <<files, activeFile, buffer, posts, log, edits, drained, mishaps, page, torn>>
        /\ anew' \in BOOLEAN
    BY <1>1, <2>1 DEF FinishSwitch, counters, Rebinds
  <2>3. QED
    BY <1>1, <2>2 DEF RecordIsTyped
<1>7. ASSUME NEW p \in posts, Land(p) PROVE RecordIsTyped'
  <2>1. /\ log' = Append(log, p) /\ posts' \subseteq posts /\ torn' \in BOOLEAN
        /\ UNCHANGED <<files, activeFile, activeTask, switches, anew, buffer, edits, drained, mishaps, page>>
    BY <1>1, <1>7 DEF Land, workspace, counters
  <2>2. log' \in Seq(Windows)
    BY <1>1, <2>1, AppendProperties
  <2>3. QED
    BY <1>1, <2>1, <2>2 DEF RecordIsTyped
<1>8. ASSUME NEW p \in posts, LandTwice(p) PROVE RecordIsTyped'
  <2>1. /\ log' = log \o <<p, p>> /\ posts' \subseteq posts /\ torn' = TRUE /\ mishaps' = mishaps + 1
        /\ UNCHANGED <<files, activeFile, activeTask, switches, anew, buffer, edits, drained, page>>
    BY <1>8 DEF LandTwice, workspace, Mishap
  <2>2. log' \in Seq(Windows)
    <3>1. <<p, p>> \in Seq(Windows)
      BY <1>1
    <3>2. QED
      BY <1>1, <2>1, <3>1, ConcatProperties
  <2>3. QED
    BY <1>1, <2>1, <2>2 DEF RecordIsTyped
<1>9. ASSUME NEW p \in posts, Lose(p) PROVE RecordIsTyped'
  <2>1. /\ posts' \subseteq posts /\ torn' \in BOOLEAN /\ mishaps' = mishaps + 1
        /\ UNCHANGED <<files, activeFile, activeTask, switches, anew, buffer, log, edits, drained, page>>
    BY <1>1, <1>9 DEF Lose, workspace, Mishap
  <2>2. QED
    BY <1>1, <2>1 DEF RecordIsTyped
<1>10. ASSUME NEW n \in File, SelectFile(n) PROVE RecordIsTyped'
  <2>1. /\ activeFile' = [activeFile EXCEPT ![activeTask] = n]
        /\ UNCHANGED <<files, activeTask, switches, buffer, posts, log, edits, drained, mishaps, page, torn>>
        /\ anew' \in BOOLEAN
    BY <1>1, <1>10 DEF SelectFile, counters, Rebinds
  <2>2. QED
    BY <1>1, <2>1 DEF RecordIsTyped
<1>11. ASSUME NEW n \in File, NEW old \in File, CreateFile(n) \/ DeleteFile(n) \/ RenameFile(old, n)
       PROVE  RecordIsTyped'
  <2>1. files' \in Workspace(Task) /\ activeFile' \in [Task -> File]
    BY <1>11, FileOpsKeepFiles
  <2>2. FileOp /\ torn' \in BOOLEAN /\ anew' \in BOOLEAN
    BY <1>1, <1>11 DEF CreateFile, DeleteFile, RenameFile, Rebinds
  <2>3. /\ mishaps' = mishaps + 1
        /\ UNCHANGED <<activeTask, switches, buffer, posts, log, edits, drained, page>>
    BY <2>2 DEF FileOp, Mishap
  <2>4. QED
    BY <1>1, <2>1, <2>2, <2>3 DEF RecordIsTyped
<1>12. ASSUME FreshPage, NEW task \in Task, NEW file \in File, OpenAt(task, file),
              files' \in Workspace(Task), torn' \in BOOLEAN
       PROVE  RecordIsTyped'
  <2>1. /\ page' = page + 1 /\ buffer' = <<>> /\ switches' = {} /\ mishaps' = mishaps + 1
        /\ anew' \in BOOLEAN /\ UNCHANGED <<posts, log, edits, drained>>
    BY <1>12 DEF FreshPage, Mishap
  <2>2. activeTask' \in Task /\ activeFile' \in [Task -> File]
    BY <1>12, RecordingAssumption DEF OpenAt
  <2>3. buffer' \in Seq(Event)
    BY <2>1, EmptySeq
  <2>4. QED
    BY <1>1, <1>12, <2>1, <2>2, <2>3 DEF RecordIsTyped
<1>13. FirstTask \in Task /\ EntryFile \in File
  BY RecordingAssumption
<1>14. CASE Reload
  <2>1. FreshPage /\ files' = RestoreWorkspaces /\ torn' \in BOOLEAN
    BY <1>1, <1>14 DEF Reload
  <2>2. files' \in Workspace(Task)
    BY <2>1, RestoreDoes
  <2>3. CASE log = <<>>
    BY <1>12, <1>13, <1>14, <2>1, <2>2, <2>3 DEF Reload
  <2>4. CASE log # <<>>
    <3>1. LastActive.task \in Task /\ LastActive.file \in File
      BY <2>4, RestoreDoes DEF Event
    <3>2. OpenAt(LastActive.task, LastActive.file)
      BY <1>14, <2>4 DEF Reload
    <3>3. QED
      BY <1>12, <2>1, <2>2, <3>1, <3>2
  <2>5. QED
    BY <2>3, <2>4
<1>15. CASE ReloadBlank
  <2>1. FreshPage /\ files' = [t \in Task |-> BlankWorkspace] /\ OpenAt(FirstTask, EntryFile) /\ torn' \in BOOLEAN
    BY <1>1, <1>15 DEF ReloadBlank
  <2>2. QED
    BY <1>12, <1>13, <2>1, BlankIsWorkspace
<1>16. CASE UNCHANGED vars
  BY <1>16 DEF vars, RecordIsTyped
<1>17. QED
  BY <1>2, <1>4, <1>5, <1>6, <1>7, <1>8, <1>9, <1>10, <1>11, <1>14, <1>15, <1>16 DEF Next

\* Whatever is lost, repeated, reordered or renamed, a reload opens on the
\* workspace the replay ends on.
THEOREM RestoreIsReplay == Spec => []RestoreMatchesReplay
<1>1. Init => RecordIsTyped
  BY RecordStart
<1>2. RecordIsTyped /\ [Next]_vars => RecordIsTyped'
  BY RecordStep
<1>3. RecordIsTyped => RestoreMatchesReplay
  BY RestoredIsReplayed
<1>4. QED
  BY <1>1, <1>2, <1>3, PTL DEF Spec
-----------------------------------------------------------------------------
(***************************************************************************)
(* The story of an untorn record: what every file of every task showed     *)
(* after each window that landed, after each that is on its way, and on    *)
(* the page now.                                                           *)
(***************************************************************************)
Shown == [Task \X File -> Text]

NothingShown == [key \in Task \X File |-> <<>>]

At(ev) == <<ev.task, ev.file>>

\* The events lead from one to the other, each to the text the student saw.
Follows(h, evs) ==
    \A k \in 1 .. Len(evs) :
        /\ evs[k].after = ApplyChanges(h[k - 1][At(evs[k])], evs[k].changes)
        /\ h[k] = [h[k - 1] EXCEPT ![At(evs[k])] = evs[k].after]

Leads(evs, from, to) ==
    \E h \in [0 .. Len(evs) -> Shown] : h[0] = from /\ h[Len(evs)] = to /\ Follows(h, evs)

\* A workspace shows st; a name it has not, and no task ever gave up, was
\* never written to.
Stands(st, ws, given) ==
    /\ \A t \in Task : \A n \in DOMAIN ws[t] : st[<<t, n>>] = ws[t][n]
    /\ \A t \in Task, n \in File :
          n \notin DOMAIN ws[t] /\ <<t, n>> \notin given => st[<<t, n>>] = <<>>

LogTold(L, lg, given) ==
    /\ L \in [0 .. Len(lg) -> Shown] /\ L[0] = NothingShown
    /\ \A w \in 1 .. Len(lg) : Leads(lg[w].events, L[w - 1], L[w]) /\ Stands(L[w], lg[w].snap, given)

Mine(ps, pg) == {p \in ps : p.page = pg}

\* Q[o]: what the page showed when it drained window o; a window that has
\* landed, or was another page's, leads nowhere.
PostsTold(Q, ps, pg, dr, given) ==
    /\ Q \in [0 .. dr -> Shown]
    /\ \A p \in Mine(ps, pg) : Leads(p.events, Q[p.ord - 1], Q[p.ord]) /\ Stands(Q[p.ord], p.snap, given)
    /\ \A o \in 1 .. dr : (\A p \in Mine(ps, pg) : p.ord # o) => Q[o] = Q[o - 1]

PageTold(st, from, buf, ws, given) ==
    st \in Shown /\ Leads(buf, from, st) /\ Stands(st, ws, given)

Told(lg, ps, pg, dr, buf, ws, given) ==
    \E L, Q, st : /\ LogTold(L, lg, given) /\ PostsTold(Q, ps, pg, dr, given)
                  /\ Q[0] = L[Len(lg)] /\ PageTold(st, Q[dr], buf, ws, given)

PostsNumbered ==
    /\ \A p \in posts : p.ord \in 1 .. drained /\ p.page <= page
    /\ \A p, q \in posts : p.ord = q.ord => p = q

Story ==
    /\ RecordIsTyped /\ PostsNumbered
    /\ ~torn => Told(log, posts, page, drained, buffer, files, gone)

LEMMA NothingIsShown == NothingShown \in Shown
<1>1. <<>> \in Text
  BY EmptySeq DEF Text
<1>2. QED
  BY <1>1 DEF NothingShown, Shown

LEMMA LeadsNowhere ==
    ASSUME NEW st \in Shown
    PROVE  Leads(<<>>, st, st)
<1> DEFINE h == [k \in 0 .. 0 |-> st]
<1>1. h \in [0 .. 0 -> Shown] /\ h[0] = st
  OBVIOUS
<1>2. Len(<<>>) = 0 /\ 1 .. 0 = {}
  BY EmptySeq
<1> HIDE DEF h
<1>3. QED
  BY <1>1, <1>2 DEF Leads, Follows

LEMMA LeadsFurther ==
    ASSUME NEW evs \in Seq(Event), NEW from, NEW to, Leads(evs, from, to), NEW ev \in Event,
           ev.after = ApplyChanges(to[At(ev)], ev.changes)
    PROVE  /\ to \in Shown
           /\ [to EXCEPT ![At(ev)] = ev.after] \in Shown
           /\ Leads(Append(evs, ev), from, [to EXCEPT ![At(ev)] = ev.after])
<1> DEFINE n == Len(evs)
           more == Append(evs, ev)
           next == [to EXCEPT ![At(ev)] = ev.after]
<1>1. PICK h \in [0 .. n -> Shown] : h[0] = from /\ h[n] = to /\ Follows(h, evs)
  BY DEF Leads
<1>2. n \in Nat /\ Len(more) = n + 1 /\ more[n + 1] = ev /\ \A k \in 1 .. n : more[k] = evs[k]
  BY AppendProperties, LenProperties
<1>3. to \in Shown /\ n \in 0 .. n
  BY <1>1, <1>2
<1>4. next \in Shown
  <2>1. ev.after \in Text
    BY DEF Event
  <2>2. QED
    BY <1>3, <2>1 DEF Shown
<1> DEFINE g == [k \in 0 .. n + 1 |-> IF k = n + 1 THEN next ELSE h[k]]
<1>5. /\ g \in [0 .. n + 1 -> Shown] /\ g[0] = from /\ g[n + 1] = next
      /\ \A k \in 0 .. n : g[k] = h[k]
  <2> HIDE DEF next
  <2>1. QED
    BY <1>1, <1>2, <1>4
<1> HIDE DEF g, more
<1>6. ASSUME NEW k \in 1 .. n + 1
      PROVE  /\ more[k].after = ApplyChanges(g[k - 1][At(more[k])], more[k].changes)
             /\ g[k] = [g[k - 1] EXCEPT ![At(more[k])] = more[k].after]
  <2>1. CASE k = n + 1
    <3>1. k - 1 = n /\ g[k - 1] = to /\ more[k] = ev /\ g[k] = next
      BY <1>1, <1>2, <1>3, <1>5, <2>1
    <3>2. QED
      BY <3>1
  <2>2. CASE k # n + 1
    <3>1. k \in 1 .. n /\ k \in 0 .. n /\ k - 1 \in 0 .. n
      BY <1>2, <2>2
    <3>2. g[k] = h[k] /\ g[k - 1] = h[k - 1] /\ more[k] = evs[k]
      BY <1>2, <1>5, <3>1
    <3>3. QED
      BY <1>1, <3>1, <3>2 DEF Follows
  <2>3. QED
    BY <2>1, <2>2
<1>7. Follows(g, more)
  BY <1>2, <1>6 DEF Follows
<1>8. Leads(more, from, next)
  <2> HIDE DEF next
  <2>1. QED
    BY <1>2, <1>5, <1>7 DEF Leads
<1>9. QED
  BY <1>3, <1>4, <1>8 DEF more

LEMMA LeadsTyped ==
    ASSUME NEW evs \in Seq(Event), NEW from, NEW to, Leads(evs, from, to)
    PROVE  from \in Shown /\ to \in Shown
<1>1. 0 \in 0 .. Len(evs) /\ Len(evs) \in 0 .. Len(evs)
  BY LenProperties
<1>2. QED
  BY <1>1 DEF Leads

LEMMA StandsOn ==
    ASSUME NEW st, NEW ws, NEW given, NEW more, given \subseteq more, Stands(st, ws, given)
    PROVE  Stands(st, ws, more)
  BY DEF Stands

LEMMA ToldOn ==
    ASSUME NEW lg, NEW L, NEW Q, NEW ps, NEW pg, NEW dr, NEW given, NEW more, given \subseteq more
    PROVE  /\ LogTold(L, lg, given) => LogTold(L, lg, more)
           /\ PostsTold(Q, ps, pg, dr, given) => PostsTold(Q, ps, pg, dr, more)
<1>1. LogTold(L, lg, given) => LogTold(L, lg, more)
  BY StandsOn DEF LogTold
<1>2. PostsTold(Q, ps, pg, dr, given) => PostsTold(Q, ps, pg, dr, more)
  BY StandsOn DEF PostsTold
<1>3. QED
  BY <1>1, <1>2

\* Before the first window on its way, the page showed what the log tells.
LEMMA NoneBefore ==
    ASSUME NEW Q, NEW ps, NEW pg, NEW dr \in Nat, NEW given, PostsTold(Q, ps, pg, dr, given),
           NEW o \in 0 .. dr, \A p \in Mine(ps, pg) : ~(p.ord \in 1 .. o)
    PROVE  Q[o] = Q[0]
<1> DEFINE S == {k \in Nat : k <= o => Q[k] = Q[0]}
<1>1. 0 \in S
  OBVIOUS
<1>2. ASSUME NEW k \in S PROVE k + 1 \in S
  <2> SUFFICES ASSUME k + 1 <= o PROVE Q[k + 1] = Q[0]
    OBVIOUS
  <2>1. k + 1 \in 1 .. dr /\ k + 1 \in 1 .. o /\ (k + 1) - 1 = k /\ Q[k] = Q[0]
    OBVIOUS
  <2>2. \A p \in Mine(ps, pg) : p.ord # k + 1
    BY <2>1
  <2>3. QED
    BY <2>1, <2>2 DEF PostsTold
<1> HIDE DEF S
<1>3. S = Nat
  <2>1. S \subseteq Nat
    BY DEF S
  <2>2. QED
    BY <1>1, <1>2, <2>1, NatInd
<1>4. QED
  BY <1>3 DEF S
-----------------------------------------------------------------------------
(***************************************************************************)
(* How each action continues the story.                                    *)
(***************************************************************************)
LEMMA EmptyLogTold ==
    ASSUME NEW given
    PROVE  LogTold([k \in 0 .. 0 |-> NothingShown], <<>>, given)
<1>1. Len(<<>>) = 0 /\ 1 .. 0 = {}
  BY EmptySeq
<1>2. [k \in 0 .. 0 |-> NothingShown] \in [0 .. 0 -> Shown] /\ [k \in 0 .. 0 |-> NothingShown][0] = NothingShown
  BY NothingIsShown
<1>3. QED
  BY <1>1, <1>2 DEF LogTold

\* A page with nothing on its way and nothing typed shows what the log tells.
LEMMA FreshTold ==
    ASSUME NEW L, NEW lg \in Seq(Windows), NEW given, LogTold(L, lg, given),
           NEW ps, NEW pg, Mine(ps, pg) = {}, NEW dr \in Nat, NEW ws,
           Stands(L[Len(lg)], ws, given)
    PROVE  Told(lg, ps, pg, dr, <<>>, ws, given)
<1> DEFINE st == L[Len(lg)]
           Q == [o \in 0 .. dr |-> st]
<1>1. st \in Shown
  <2>1. Len(lg) \in 0 .. Len(lg)
    BY LenProperties
  <2>2. QED
    BY <2>1 DEF LogTold
<1> HIDE DEF st
<1>2. Q \in [0 .. dr -> Shown] /\ Q[0] = st /\ Q[dr] = st /\ \A o \in 1 .. dr : Q[o] = Q[o - 1]
  BY <1>1
<1> HIDE DEF Q
<1>3. PostsTold(Q, ps, pg, dr, given)
  BY <1>2 DEF PostsTold
<1>4. PageTold(st, Q[dr], <<>>, ws, given)
  BY <1>1, <1>2, LeadsNowhere DEF PageTold, st
<1>5. QED
  BY <1>2, <1>3, <1>4 DEF Told, st

LEMMA DrainTold ==
    ASSUME NEW lg, NEW ps, NEW pg, NEW dr \in Nat, NEW buf \in Seq(Event), NEW ws, NEW given,
           Told(lg, ps, pg, dr, buf, ws, given), \A q \in ps : q.ord \in 1 .. dr,
           NEW p, p.ord = dr + 1, p.page = pg, p.events = buf, p.snap = ws
    PROVE  Told(lg, ps \cup {p}, pg, dr + 1, <<>>, ws, given)
<1>1. PICK L, Q, st : /\ LogTold(L, lg, given) /\ PostsTold(Q, ps, pg, dr, given)
                      /\ Q[0] = L[Len(lg)] /\ PageTold(st, Q[dr], buf, ws, given)
  BY DEF Told
<1>2. st \in Shown /\ Leads(buf, Q[dr], st) /\ Stands(st, ws, given)
  BY <1>1 DEF PageTold
<1>3. /\ Q \in [0 .. dr -> Shown]
      /\ \A q \in Mine(ps, pg) : Leads(q.events, Q[q.ord - 1], Q[q.ord]) /\ Stands(Q[q.ord], q.snap, given)
      /\ \A o \in 1 .. dr : (\A q \in Mine(ps, pg) : q.ord # o) => Q[o] = Q[o - 1]
  BY <1>1 DEF PostsTold
<1> DEFINE R == [o \in 0 .. dr + 1 |-> IF o = dr + 1 THEN st ELSE Q[o]]
           all == ps \cup {p}
<1>4. /\ R \in [0 .. dr + 1 -> Shown] /\ R[dr + 1] = st /\ R[0] = Q[0]
      /\ \A o \in 0 .. dr : R[o] = Q[o]
  BY <1>2, <1>3
<1>5. Mine(all, pg) = Mine(ps, pg) \cup {p} /\ \A q \in Mine(ps, pg) : q \in ps /\ q.ord \in 1 .. dr
  BY DEF Mine
<1> HIDE DEF R, all
<1>6. ASSUME NEW q \in Mine(all, pg)
      PROVE  Leads(q.events, R[q.ord - 1], R[q.ord]) /\ Stands(R[q.ord], q.snap, given)
  <2>1. CASE q = p
    <3>1. q.ord = dr + 1 /\ (dr + 1) - 1 = dr /\ dr \in 0 .. dr
      BY <2>1
    <3>2. R[q.ord] = st /\ R[q.ord - 1] = Q[dr]
      BY <1>4, <3>1
    <3>3. QED
      BY <1>2, <2>1, <3>2
  <2>2. CASE q \in Mine(ps, pg)
    <3>1. q.ord \in 0 .. dr /\ q.ord - 1 \in 0 .. dr
      BY <1>5, <2>2
    <3>2. R[q.ord] = Q[q.ord] /\ R[q.ord - 1] = Q[q.ord - 1]
      BY <1>4, <3>1
    <3>3. QED
      BY <1>3, <2>2, <3>2
  <2>3. QED
    BY <1>5, <2>1, <2>2
<1>7. ASSUME NEW o \in 1 .. dr + 1, \A q \in Mine(all, pg) : q.ord # o PROVE R[o] = R[o - 1]
  <2>1. o # dr + 1
    BY <1>5, <1>7
  <2>2. o \in 1 .. dr /\ o \in 0 .. dr /\ o - 1 \in 0 .. dr /\ \A q \in Mine(ps, pg) : q.ord # o
    BY <1>5, <1>7, <2>1
  <2>3. QED
    BY <1>3, <1>4, <2>2
<1>8. PostsTold(R, all, pg, dr + 1, given)
  BY <1>4, <1>6, <1>7 DEF PostsTold
<1>9. PageTold(st, R[dr + 1], <<>>, ws, given)
  BY <1>2, <1>4, LeadsNowhere DEF PageTold
<1>10. QED
  BY <1>1, <1>4, <1>8, <1>9 DEF Told, all

\* The page's first window on its way becomes the last of the log.
LEMMA LandTold ==
    ASSUME NEW lg \in Seq(Windows), NEW ps, NEW pg, NEW dr \in Nat, NEW buf, NEW ws, NEW given,
           Told(lg, ps, pg, dr, buf, ws, given),
           \A q \in ps : q.ord \in 1 .. dr, \A q, r \in ps : q.ord = r.ord => q = r,
           NEW p \in ps, p \in Windows, p.page = pg, \A q \in ps : q.page = pg => ~(q.ord < p.ord)
    PROVE  Told(Append(lg, p), ps \ {p}, pg, dr, buf, ws, given)
<1>1. PICK L, Q, st : /\ LogTold(L, lg, given) /\ PostsTold(Q, ps, pg, dr, given)
                      /\ Q[0] = L[Len(lg)] /\ PageTold(st, Q[dr], buf, ws, given)
  BY DEF Told
<1>2. /\ Q \in [0 .. dr -> Shown]
      /\ \A q \in Mine(ps, pg) : Leads(q.events, Q[q.ord - 1], Q[q.ord]) /\ Stands(Q[q.ord], q.snap, given)
      /\ \A o \in 1 .. dr : (\A q \in Mine(ps, pg) : q.ord # o) => Q[o] = Q[o - 1]
  BY <1>1 DEF PostsTold
<1> DEFINE n == Len(lg)
           m == p.ord
           more == Append(lg, p)
           rest == ps \ {p}
           end == Q[m]
<1>3. m \in 1 .. dr /\ m \in 0 .. dr /\ m - 1 \in 0 .. dr /\ p \in Mine(ps, pg) /\ end \in Shown
  <2>1. m \in 1 .. dr /\ p \in Mine(ps, pg)
    BY DEF Mine
  <2>2. m \in 0 .. dr /\ m - 1 \in 0 .. dr
    BY <2>1
  <2>3. QED
    BY <1>2, <2>1, <2>2
<1>4. Q[m - 1] = L[n]
  <2>1. \A q \in Mine(ps, pg) : ~(q.ord \in 1 .. m - 1)
    BY <1>3 DEF Mine
  <2> HIDE DEF m
  <2>2. Q[m - 1] = Q[0]
    BY <1>1, <1>3, <2>1, NoneBefore
  <2>3. QED
    BY <1>1, <2>2
<1>5. Leads(p.events, L[n], end) /\ Stands(end, p.snap, given)
  BY <1>2, <1>3, <1>4
<1>6. /\ n \in Nat /\ Len(more) = n + 1 /\ more[n + 1] = p
      /\ \A w \in 1 .. n : more[w] = lg[w]
  BY AppendProperties, LenProperties
<1>7. /\ L \in [0 .. n -> Shown] /\ L[0] = NothingShown
      /\ \A w \in 1 .. n : Leads(lg[w].events, L[w - 1], L[w]) /\ Stands(L[w], lg[w].snap, given)
  BY <1>1 DEF LogTold
<1> HIDE DEF n, m, more, rest, end
<1> DEFINE K == [w \in 0 .. n + 1 |-> IF w = n + 1 THEN end ELSE L[w]]
           R == [o \in 0 .. dr |-> IF o < m THEN end ELSE Q[o]]
<1>8. /\ K \in [0 .. n + 1 -> Shown] /\ K[0] = NothingShown /\ K[n + 1] = end
      /\ \A w \in 0 .. n : K[w] = L[w]
  BY <1>3, <1>6, <1>7
<1>9. /\ R \in [0 .. dr -> Shown] /\ R[0] = end /\ R[m] = end
      /\ \A o \in 0 .. dr : o < m => R[o] = end
      /\ \A o \in 0 .. dr : ~(o < m) => R[o] = Q[o]
  <2>1. 0 \in 0 .. dr /\ 0 < m /\ ~(m < m)
    BY <1>3
  <2>2. Q[m] = end
    BY DEF end, m
  <2>3. QED
    BY <1>2, <1>3, <2>1, <2>2
<1> HIDE DEF K, R
<1>10. LogTold(K, more, given)
  <2>1. ASSUME NEW w \in 1 .. n + 1
        PROVE  Leads(more[w].events, K[w - 1], K[w]) /\ Stands(K[w], more[w].snap, given)
    <3>1. CASE w = n + 1
      <4>1. w - 1 = n /\ n \in 0 .. n
        BY <1>6, <3>1
      <4>2. K[w] = end /\ K[w - 1] = L[n] /\ more[w] = p
        BY <1>6, <1>8, <3>1, <4>1
      <4>3. QED
        BY <1>5, <4>2
    <3>2. CASE w # n + 1
      <4>1. w \in 1 .. n /\ w \in 0 .. n /\ w - 1 \in 0 .. n
        BY <1>6, <3>2
      <4>2. QED
        BY <1>6, <1>7, <1>8, <4>1
    <3>3. QED
      BY <3>1, <3>2
  <2>2. QED
    BY <1>6, <1>8, <2>1 DEF LogTold
<1>11. Mine(rest, pg) = Mine(ps, pg) \ {p} /\ \A q \in Mine(rest, pg) : q.ord \in 1 .. dr /\ m < q.ord
  <2>1. Mine(rest, pg) = Mine(ps, pg) \ {p}
    BY DEF Mine, rest
  <2>2. \A q \in Mine(rest, pg) : q.ord \in 1 .. dr /\ ~(q.ord < m) /\ q.ord # m
    BY DEF Mine, rest, m
  <2>3. QED
    BY <1>3, <2>1, <2>2
<1>12. ASSUME NEW q \in Mine(rest, pg)
       PROVE  Leads(q.events, R[q.ord - 1], R[q.ord]) /\ Stands(R[q.ord], q.snap, given)
  <2>1. /\ q.ord \in 0 .. dr /\ q.ord - 1 \in 0 .. dr /\ ~(q.ord < m) /\ ~(q.ord - 1 < m)
        /\ q \in Mine(ps, pg)
    BY <1>3, <1>11
  <2>2. R[q.ord] = Q[q.ord] /\ R[q.ord - 1] = Q[q.ord - 1]
    BY <1>9, <2>1
  <2>3. QED
    BY <1>2, <2>1, <2>2
<1>13. ASSUME NEW o \in 1 .. dr, \A q \in Mine(rest, pg) : q.ord # o PROVE R[o] = R[o - 1]
  <2>1. o \in 0 .. dr /\ o - 1 \in 0 .. dr
    BY <1>13
  <2>2. CASE o < m
    <3>1. o - 1 < m
      BY <1>3, <2>2
    <3>2. QED
      BY <1>9, <2>1, <2>2, <3>1
  <2>3. CASE o = m
    <3>1. o - 1 < m
      BY <1>3, <2>3
    <3>2. QED
      BY <1>9, <2>1, <2>3, <3>1
  <2>4. CASE m < o
    <3>1. ~(o < m) /\ ~(o - 1 < m) /\ o # m
      BY <1>3, <2>4
    <3>2. \A q \in Mine(ps, pg) : q.ord # o
      BY <1>11, <1>13, <3>1 DEF m
    <3>3. QED
      BY <1>2, <1>9, <2>1, <3>1, <3>2
  <2>5. QED
    BY <1>3, <2>2, <2>3, <2>4
<1>14. PostsTold(R, rest, pg, dr, given)
  BY <1>9, <1>12, <1>13 DEF PostsTold
<1>15. R[dr] = Q[dr]
  <2>1. dr \in 0 .. dr /\ ~(dr < m)
    BY <1>3
  <2>2. QED
    BY <1>9, <2>1
<1>16. R[0] = K[Len(more)]
  BY <1>6, <1>8, <1>9
<1>17. QED
  BY <1>1, <1>10, <1>14, <1>15, <1>16 DEF Told, more, rest

\* Only this page's windows on their way belong to the story.
LEMMA OthersAreSilent ==
    ASSUME NEW lg, NEW ps, NEW pg, NEW dr, NEW buf, NEW ws, NEW given,
           Told(lg, ps, pg, dr, buf, ws, given), NEW rest, Mine(rest, pg) = Mine(ps, pg)
    PROVE  Told(lg, rest, pg, dr, buf, ws, given)
  BY DEF Told, PostsTold

\* What the page does to its workspace without a keystroke.
LEMMA FilesTold ==
    ASSUME NEW lg, NEW ps, NEW pg, NEW dr, NEW buf, NEW ws, NEW given,
           Told(lg, ps, pg, dr, buf, ws, given), NEW next, NEW more, given \subseteq more,
           \A st \in Shown : Stands(st, ws, given) => Stands(st, next, more)
    PROVE  Told(lg, ps, pg, dr, buf, next, more)
<1>1. PICK L, Q, st : /\ LogTold(L, lg, given) /\ PostsTold(Q, ps, pg, dr, given)
                      /\ Q[0] = L[Len(lg)] /\ PageTold(st, Q[dr], buf, ws, given)
  BY DEF Told
<1>2. PageTold(st, Q[dr], buf, next, more)
  BY <1>1 DEF PageTold
<1>3. LogTold(L, lg, more) /\ PostsTold(Q, ps, pg, dr, more)
  BY <1>1, ToldOn
<1>4. QED
  BY <1>1, <1>2, <1>3 DEF Told

LEMMA EditTold ==
    ASSUME NEW lg, NEW ps, NEW pg, NEW dr, NEW buf \in Seq(Event), NEW ws \in Workspace(Task), NEW given,
           Told(lg, ps, pg, dr, buf, ws, given), NEW ev \in Event,
           ev.file \in DOMAIN ws[ev.task],
           ev.after = ApplyChanges(ws[ev.task][ev.file], ev.changes)
    PROVE  Told(lg, ps, pg, dr, Append(buf, ev),
                [ws EXCEPT ![ev.task] = [ws[ev.task] EXCEPT ![ev.file] = ev.after]], given)
<1> DEFINE t == ev.task
           n == ev.file
           next == [ws EXCEPT ![t] = [ws[t] EXCEPT ![n] = ev.after]]
<1>1. PICK L, Q, st : /\ LogTold(L, lg, given) /\ PostsTold(Q, ps, pg, dr, given)
                      /\ Q[0] = L[Len(lg)] /\ PageTold(st, Q[dr], buf, ws, given)
  BY DEF Told
<1>2. st \in Shown /\ Leads(buf, Q[dr], st) /\ Stands(st, ws, given)
  BY <1>1 DEF PageTold
<1>3. t \in Task /\ n \in File /\ ev.after \in Text /\ At(ev) = <<t, n>>
  BY DEF Event, At
<1> DEFINE after == [st EXCEPT ![At(ev)] = ev.after]
<1>4. st[<<t, n>>] = ws[t][n]
  BY <1>2, <1>3 DEF Stands
<1>5. after \in Shown /\ Leads(Append(buf, ev), Q[dr], after)
  BY <1>2, <1>3, <1>4, LeadsFurther
<1>6. DOMAIN ws = Task
  BY WorkspaceHas DEF Workspace
<1> HIDE DEF t, n
<1>7. /\ \A u \in Task : DOMAIN next[u] = DOMAIN ws[u]
      /\ \A u \in Task : \A m \in DOMAIN ws[u] :
            next[u][m] = IF u = t /\ m = n THEN ev.after ELSE ws[u][m]
  BY <1>3, <1>6
<1>8. \A u \in Task, m \in File : after[<<u, m>>] = IF u = t /\ m = n THEN ev.after ELSE st[<<u, m>>]
  BY <1>2, <1>3 DEF Shown
<1>9. \A u \in Task : DOMAIN ws[u] \subseteq File
  BY WorkspaceHas
<1> HIDE DEF next, after
<1>10. Stands(after, next, given)
  <2>1. n \in DOMAIN ws[t]
    BY DEF n, t
  <2>2. QED
    BY <1>2, <1>3, <1>7, <1>8, <1>9, <2>1 DEF Stands
<1>11. PageTold(after, Q[dr], Append(buf, ev), next, given)
  BY <1>5, <1>10 DEF PageTold
<1>12. QED
  BY <1>1, <1>11 DEF Told, next, t, n
-----------------------------------------------------------------------------
LEMMA NothingStands ==
    ASSUME NEW given
    PROVE  Stands(NothingShown, [t \in Task |-> BlankWorkspace], given)
<1> DEFINE ws == [t \in Task |-> BlankWorkspace]
<1>1. \A t \in Task : DOMAIN ws[t] = {EntryFile} /\ ws[t][EntryFile] = <<>>
  BY DEF BlankWorkspace
<1>2. \A t \in Task, n \in File : NothingShown[<<t, n>>] = <<>>
  BY DEF NothingShown
<1>3. EntryFile \in File
  BY RecordingAssumption
<1> HIDE DEF ws
<1>4. Stands(NothingShown, ws, given)
  BY <1>1, <1>2, <1>3 DEF Stands
<1>5. QED
  BY <1>4 DEF ws

LEMMA StoryStart == Init => Story
<1> SUFFICES ASSUME Init PROVE Story
  OBVIOUS
<1>1. RecordIsTyped
  BY RecordStart
<1>2. /\ posts = {} /\ log = <<>> /\ buffer = <<>> /\ drained = 0 /\ gone = {}
      /\ files = [t \in Task |-> BlankWorkspace]
  BY DEF Init
<1>3. PostsNumbered
  BY <1>2 DEF PostsNumbered
<1> DEFINE L == [k \in 0 .. 0 |-> NothingShown]
<1>4. LogTold(L, <<>>, gone) /\ L[Len(<<>>)] = NothingShown /\ <<>> \in Seq(Windows)
  BY EmptyLogTold, EmptySeq
<1>5. Stands(NothingShown, files, gone)
  BY <1>2, NothingStands
<1>6. Mine(posts, page) = {}
  BY <1>2 DEF Mine
<1> HIDE DEF L
<1>7. Told(<<>>, posts, page, 0, <<>>, files, gone)
  BY <1>4, <1>5, <1>6, FreshTold
<1>8. QED
  BY <1>1, <1>2, <1>3, <1>7 DEF Story

LEMMA FileOpTold ==
    ASSUME RecordIsTyped, NEW n \in File, NEW old \in File, ~torn',
           CreateFile(n) \/ DeleteFile(n) \/ RenameFile(old, n)
    PROVE  /\ gone \subseteq gone' /\ ~torn
           /\ \A st \in Shown : Stands(st, files, gone) => Stands(st, files', gone')
<1> DEFINE t == activeTask
<1>1. t \in Task /\ DOMAIN files = Task
  BY WorkspaceHas DEF RecordIsTyped, Workspace
<1>2. CASE CreateFile(n)
  <2> DEFINE v == [m \in DOMAIN files[t] \cup {n} |-> IF m = n THEN <<>> ELSE files[t][m]]
  <2>1. /\ files' = [files EXCEPT ![t] = v] /\ gone' = gone /\ n \notin DOMAIN files[t]
        /\ ~torn /\ <<t, n>> \notin gone
    BY <1>2 DEF CreateFile
  <2>2. \A u \in Task : files'[u] = IF u = t THEN v ELSE files[u]
    BY <1>1, <2>1
  <2>3. DOMAIN v = DOMAIN files[t] \cup {n} /\ v[n] = <<>> /\ \A m \in DOMAIN files[t] : v[m] = files[t][m]
    BY <2>1
  <2> HIDE DEF v, t
  <2>4. ASSUME NEW st \in Shown, Stands(st, files, gone) PROVE Stands(st, files', gone')
    <3>1. st[<<t, n>>] = <<>>
      BY <1>1, <2>1, <2>4 DEF Stands
    <3>2. \A u \in Task : \A m \in DOMAIN files'[u] : st[<<u, m>>] = files'[u][m]
      <4>1. \A m \in DOMAIN v : st[<<t, m>>] = v[m]
        BY <1>1, <2>3, <2>4, <3>1 DEF Stands
      <4>2. QED
        BY <2>2, <2>4, <4>1 DEF Stands
    <3>3. \A u \in Task, m \in File :
             m \notin DOMAIN files'[u] /\ <<u, m>> \notin gone' => st[<<u, m>>] = <<>>
      BY <2>1, <2>2, <2>3, <2>4 DEF Stands
    <3>4. QED
      BY <3>2, <3>3 DEF Stands
  <2>5. QED
    BY <2>1, <2>4
<1>3. CASE DeleteFile(n)
  <2> DEFINE v == [m \in DOMAIN files[t] \ {n} |-> files[t][m]]
  <2>1. files' = [files EXCEPT ![t] = v] /\ gone' = gone \cup {<<t, n>>} /\ ~torn
    BY <1>3 DEF DeleteFile
  <2>2. \A u \in Task : files'[u] = IF u = t THEN v ELSE files[u]
    BY <1>1, <2>1
  <2>3. DOMAIN v = DOMAIN files[t] \ {n} /\ \A m \in DOMAIN v : v[m] = files[t][m]
    OBVIOUS
  <2> HIDE DEF v, t
  <2>4. ASSUME NEW st \in Shown, Stands(st, files, gone) PROVE Stands(st, files', gone')
    <3>1. \A u \in Task : \A m \in DOMAIN files'[u] : st[<<u, m>>] = files'[u][m]
      <4>1. \A m \in DOMAIN v : st[<<t, m>>] = v[m]
        BY <1>1, <2>3, <2>4 DEF Stands
      <4>2. QED
        BY <2>2, <2>4, <4>1 DEF Stands
    <3>2. \A u \in Task, m \in File :
             m \notin DOMAIN files'[u] /\ <<u, m>> \notin gone' => st[<<u, m>>] = <<>>
      BY <2>1, <2>2, <2>3, <2>4 DEF Stands
    <3>3. QED
      BY <3>1, <3>2 DEF Stands
  <2>5. QED
    BY <2>1, <2>4
<1>4. CASE RenameFile(old, n)
  <2> DEFINE v == [m \in (DOMAIN files[t] \ {old}) \cup {n} |->
                      IF m = n THEN files[t][old] ELSE files[t][m]]
  <2>1. /\ files' = [files EXCEPT ![t] = v] /\ gone' = gone \cup {<<t, old>>} /\ ~torn
        /\ old \in DOMAIN files[t] /\ n \notin DOMAIN files[t]
        /\ files[t][old] = <<>> /\ <<t, n>> \notin gone
    BY <1>4 DEF RenameFile
  <2>2. \A u \in Task : files'[u] = IF u = t THEN v ELSE files[u]
    BY <1>1, <2>1
  <2>3. /\ DOMAIN v = (DOMAIN files[t] \ {old}) \cup {n} /\ v[n] = <<>>
        /\ \A m \in DOMAIN v : m # n => v[m] = files[t][m]
    BY <2>1
  <2> HIDE DEF v, t
  <2>4. ASSUME NEW st \in Shown, Stands(st, files, gone) PROVE Stands(st, files', gone')
    <3>1. st[<<t, n>>] = <<>>
      BY <1>1, <2>1, <2>4 DEF Stands
    <3>2. \A u \in Task : \A m \in DOMAIN files'[u] : st[<<u, m>>] = files'[u][m]
      <4>1. \A m \in DOMAIN v : st[<<t, m>>] = v[m]
        BY <1>1, <2>3, <2>4, <3>1 DEF Stands
      <4>2. QED
        BY <2>2, <2>4, <4>1 DEF Stands
    <3>3. \A u \in Task, m \in File :
             m \notin DOMAIN files'[u] /\ <<u, m>> \notin gone' => st[<<u, m>>] = <<>>
      BY <2>1, <2>2, <2>3, <2>4 DEF Stands
    <3>4. QED
      BY <3>2, <3>3 DEF Stands
  <2>5. QED
    BY <2>1, <2>4
<1>5. QED
  BY <1>2, <1>3, <1>4

\* A page that opens on the last workspace of the log goes on with its story.
LEMMA ReloadTold ==
    ASSUME RecordIsTyped, PostsNumbered, Told(log, posts, page, drained, buffer, files, gone), Reload, ~torn'
    PROVE  Told(log, posts, page + 1, drained, <<>>, files', gone)
<1>1. PICK L, Q, st : /\ LogTold(L, log, gone) /\ PostsTold(Q, posts, page, drained, gone)
                      /\ Q[0] = L[Len(log)] /\ PageTold(st, Q[drained], buffer, files, gone)
  BY DEF Told
<1>2. Mine(posts, page + 1) = {}
  BY DEF Mine, PostsNumbered, RecordIsTyped, Windows
<1>3. log \in Seq(Windows) /\ drained \in Nat /\ files' = RestoreWorkspaces
  BY DEF RecordIsTyped, Reload
<1>4. Stands(L[Len(log)], files', gone)
  <2>1. CASE log = <<>>
    <3>1. L[Len(log)] = NothingShown
      BY <1>1, <2>1, EmptySeq DEF LogTold
    <3>2. files' = [t \in Task |-> BlankWorkspace]
      BY <1>3, <2>1, RestoreDoes
    <3>3. QED
      BY <3>1, <3>2, NothingStands
  <2>2. CASE log # <<>>
    <3> DEFINE n == Len(log)
               snap == log[n].snap
    <3>1. n \in 1 .. n /\ DOMAIN FinalTaskSnapshots = Task /\ \A t \in Task : FinalTaskSnapshots[t] = snap[t]
      BY <2>2, LastSnapshots
    <3>2. \A t \in Task : files'[t] = FilesFromSnapshot(snap[t])
      BY <1>3, <2>2, RestoreDoes
    <3>3. \A t \in Task : EntryFile \notin DOMAIN snap[t] => <<t, EntryFile>> \notin gone
      BY <3>1 DEF Reload
    <3>4. Stands(L[n], snap, gone)
      BY <1>1, <3>1 DEF LogTold
    <3> HIDE DEF snap, n
    <3>5. \A t \in Task : /\ DOMAIN files'[t] = DOMAIN snap[t] \cup {EntryFile}
                          /\ \A m \in DOMAIN snap[t] : files'[t][m] = snap[t][m]
                          /\ EntryFile \notin DOMAIN snap[t] => files'[t][EntryFile] = <<>>
      BY <3>2 DEF FilesFromSnapshot
    <3>6. EntryFile \in File
      BY RecordingAssumption
    <3>7. \A t \in Task : \A m \in DOMAIN files'[t] : L[n][<<t, m>>] = files'[t][m]
      BY <3>3, <3>4, <3>5, <3>6 DEF Stands
    <3>8. \A t \in Task, m \in File :
             m \notin DOMAIN files'[t] /\ <<t, m>> \notin gone => L[n][<<t, m>>] = <<>>
      BY <3>4, <3>5 DEF Stands
    <3>9. QED
      BY <3>7, <3>8 DEF Stands, n
  <2>3. QED
    BY <2>1, <2>2
<1>5. QED
  BY <1>1, <1>2, <1>3, <1>4, FreshTold

LEMMA BlankTold ==
    ASSUME RecordIsTyped, PostsNumbered, ReloadBlank, ~torn'
    PROVE  Told(log, posts, page + 1, drained, <<>>, files', gone) /\ ~torn
<1> DEFINE L == [k \in 0 .. 0 |-> NothingShown]
<1>1. log = <<>> /\ files' = [t \in Task |-> BlankWorkspace] /\ ~torn
  BY DEF ReloadBlank
<1>2. LogTold(L, <<>>, gone) /\ L[Len(<<>>)] = NothingShown /\ <<>> \in Seq(Windows)
  BY EmptyLogTold, EmptySeq
<1>3. Stands(NothingShown, files', gone)
  BY <1>1, NothingStands
<1>4. Mine(posts, page + 1) = {} /\ drained \in Nat
  BY DEF Mine, PostsNumbered, RecordIsTyped, Windows
<1> HIDE DEF L
<1>5. QED
  BY <1>1, <1>2, <1>3, <1>4, FreshTold

LEMMA NumberingStep == RecordIsTyped /\ PostsNumbered /\ [Next]_vars => PostsNumbered'
<1> SUFFICES ASSUME RecordIsTyped, PostsNumbered, [Next]_vars PROVE PostsNumbered'
  OBVIOUS
<1>1. /\ drained \in Nat /\ page \in Nat
      /\ \A p \in posts : p.ord \in 1 .. drained /\ p.page \in Nat /\ p.page <= page
      /\ \A p, q \in posts : p.ord = q.ord => p = q
  <2>1. \A p \in posts : p.page \in Nat
    BY DEF RecordIsTyped, Windows
  <2>2. QED
    BY <2>1 DEF PostsNumbered, RecordIsTyped
<1>2. CASE posts' \subseteq posts /\ drained' = drained /\ page' \in {page, page + 1}
  <2>1. \A p \in posts' : p.ord \in 1 .. drained' /\ p.page <= page'
    BY <1>1, <1>2
  <2>2. QED
    BY <1>1, <1>2, <2>1 DEF PostsNumbered
<1>3. CASE Drain /\ page' = page
  <2>1. posts' = posts \cup {Window} /\ Window.ord = drained + 1 /\ Window.page = page /\ drained' = drained + 1
    BY <1>3, DrainDoes
  <2>2. \A p \in posts' : p.ord \in 1 .. drained' /\ p.page <= page'
    BY <1>1, <1>3, <2>1
  <2>3. ASSUME NEW p \in posts', NEW q \in posts', p.ord = q.ord PROVE p = q
    BY <1>1, <2>1, <2>3
  <2>4. QED
    BY <2>2, <2>3 DEF PostsNumbered
<1>4. CASE Edit
  BY <1>2, <1>4 DEF Edit
<1>5. CASE IntervalFlush
  BY <1>3, <1>5 DEF IntervalFlush
<1>6. CASE \E t \in Task : ClickTask(t)
  BY <1>2, <1>3, <1>6 DEF ClickTask
<1>7. CASE \E s \in switches : FinishSwitch(s)
  BY <1>2, <1>7 DEF FinishSwitch, counters
<1>8. CASE \E p \in posts : Land(p) \/ LandTwice(p) \/ Lose(p)
  BY <1>2, <1>8 DEF Land, LandTwice, Lose, counters
<1>9. CASE \E n \in File : SelectFile(n) \/ CreateFile(n) \/ DeleteFile(n)
  BY <1>2, <1>9 DEF SelectFile, CreateFile, DeleteFile, FileOp, counters
<1>10. CASE \E old, n \in File : RenameFile(old, n)
  BY <1>2, <1>10 DEF RenameFile, FileOp
<1>11. CASE Reload \/ ReloadBlank
  BY <1>2, <1>11 DEF Reload, ReloadBlank, FreshPage
<1>12. CASE UNCHANGED vars
  BY <1>2, <1>12 DEF vars
<1>13. QED
  BY <1>4, <1>5, <1>6, <1>7, <1>8, <1>9, <1>10, <1>11, <1>12 DEF Next

\* An action that leaves the record untorn continues its story.
LEMMA StoryGoesOn ==
    ASSUME RecordIsTyped, PostsNumbered, ~torn => Told(log, posts, page, drained, buffer, files, gone),
           [Next]_vars, ~torn'
    PROVE  Told(log', posts', page', drained', buffer', files', gone')
<1> DEFINE Now == Told(log, posts, page, drained, buffer, files, gone)
           Then == Told(log', posts', page', drained', buffer', files', gone')
<1>1. /\ files \in Workspace(Task) /\ buffer \in Seq(Event) /\ log \in Seq(Windows)
      /\ posts \subseteq Windows /\ drained \in Nat /\ torn \in BOOLEAN
      /\ \A p \in posts : p.ord \in 1 .. drained
      /\ \A p, q \in posts : p.ord = q.ord => p = q
  BY DEF RecordIsTyped, PostsNumbered
<1>2. torn' = torn => Now
  OBVIOUS
<1>3. CASE UNCHANGED <<log, posts, page, drained, buffer, files, gone, torn>>
  BY <1>2, <1>3
<1>4. CASE Edit
  <2> DEFINE t == activeTask
             n == activeFile[t]
  <2>1. /\ t \in Task /\ n \in DOMAIN files[t]
        /\ UNCHANGED <<posts, log, drained, page, gone, torn>>
    BY <1>4, EditDoes
  <2>2. PICK m \in MonacoChanges(files[t][n], edits + 1), since \in SinceLast(edits + 1) :
          /\ ApplyChanges(files[t][n], m.changes) = m.next
          /\ files' = [files EXCEPT ![t] = [files[t] EXCEPT ![n] = m.next]]
          /\ Edited(m, since) \in Event /\ buffer' = Append(buffer, Edited(m, since))
    BY <1>4, EditDoes
  <2> DEFINE ev == Edited(m, since)
  <2>3. ev.task = t /\ ev.file = n /\ ev.changes = m.changes /\ ev.after = m.next
    BY DEF Edited
  <2> HIDE DEF ev, t, n
  <2>4. Told(log, posts, page, drained, Append(buffer, ev),
             [files EXCEPT ![ev.task] = [files[ev.task] EXCEPT ![ev.file] = ev.after]], gone)
    <3>1. ev \in Event /\ ev.file \in DOMAIN files[ev.task]
          /\ ev.after = ApplyChanges(files[ev.task][ev.file], ev.changes)
      BY <2>1, <2>2, <2>3 DEF ev
    <3>2. QED
      BY <1>1, <1>2, <2>1, <3>1, EditTold
  <2>5. QED
    BY <2>1, <2>2, <2>3, <2>4 DEF ev
<1>5. CASE Drain /\ UNCHANGED <<files, log, page, gone, torn>>
  <2>1. /\ Window = [ord |-> drained + 1, page |-> page, events |-> buffer, snap |-> files]
        /\ posts' = posts \cup {Window} /\ buffer' = <<>> /\ drained' = drained + 1
    BY <1>5, DrainDoes
  <2>2. Window.ord = drained + 1 /\ Window.page = page /\ Window.events = buffer /\ Window.snap = files
    BY <2>1
  <2>3. QED
    BY <1>1, <1>2, <1>5, <2>1, <2>2, DrainTold
<1>6. CASE IntervalFlush
  BY <1>5, <1>6 DEF IntervalFlush, workspace
<1>7. CASE \E t \in Task : ClickTask(t)
  BY <1>3, <1>5, <1>7 DEF ClickTask
<1>8. CASE \E s \in switches : FinishSwitch(s)
  BY <1>3, <1>8 DEF FinishSwitch, counters
<1>9. ASSUME NEW p \in posts, Land(p) PROVE Then
  <2>1. /\ log' = Append(log, p) /\ posts' = posts \ {p} /\ ~torn /\ ~OutOfTurn(p)
        /\ UNCHANGED <<files, buffer, drained, page, gone>>
    BY <1>9 DEF Land, workspace, counters
  <2>2. p.page = page /\ \A q \in posts : q.page = page => ~(q.ord < p.ord)
    BY <2>1 DEF OutOfTurn
  <2>3. p \in Windows /\ Now
    BY <1>1, <2>1
  <2>4. QED
    BY <1>1, <2>1, <2>2, <2>3, LandTold
<1>10. ASSUME NEW p \in posts, LandTwice(p) PROVE Then
  BY <1>10 DEF LandTwice
<1>11. ASSUME NEW p \in posts, Lose(p) PROVE Then
  <2>1. /\ posts' = posts \ {p} /\ ~torn /\ p.page # page
        /\ UNCHANGED <<files, buffer, log, drained, page, gone>>
    BY <1>11 DEF Lose, workspace
  <2>2. Mine(posts', page) = Mine(posts, page)
    BY <2>1 DEF Mine
  <2>3. Told(log, posts', page, drained, buffer, files, gone)
    BY <2>1, <2>2, OthersAreSilent
  <2>4. QED
    BY <2>1, <2>3
<1>12. ASSUME NEW n \in File, SelectFile(n) PROVE Then
  BY <1>3, <1>12 DEF SelectFile, counters
<1>13. ASSUME NEW n \in File, NEW old \in File, CreateFile(n) \/ DeleteFile(n) \/ RenameFile(old, n)
       PROVE  Then
  <2>1. UNCHANGED <<buffer, posts, log, drained, page>>
    BY <1>13 DEF CreateFile, DeleteFile, RenameFile, FileOp
  <2>2. /\ gone \subseteq gone' /\ ~torn
        /\ \A st \in Shown : Stands(st, files, gone) => Stands(st, files', gone')
    BY <1>13, FileOpTold
  <2>3. Told(log, posts, page, drained, buffer, files', gone')
    BY <2>2, FilesTold
  <2>4. QED
    BY <2>1, <2>3
<1>14. CASE Reload
  <2>1. page' = page + 1 /\ buffer' = <<>> /\ UNCHANGED <<posts, log, drained, gone>> /\ ~torn
    BY <1>14 DEF Reload, FreshPage
  <2>2. QED
    BY <1>14, <2>1, ReloadTold
<1>15. CASE ReloadBlank
  <2>1. page' = page + 1 /\ buffer' = <<>> /\ UNCHANGED <<posts, log, drained, gone>>
    BY <1>15 DEF ReloadBlank, FreshPage
  <2>2. QED
    BY <1>15, <2>1, BlankTold
<1>16. CASE UNCHANGED vars
  BY <1>3, <1>16 DEF vars
<1>17. QED
  BY <1>4, <1>6, <1>7, <1>8, <1>9, <1>10, <1>11, <1>12, <1>13, <1>14, <1>15, <1>16 DEF Next

LEMMA StoryStep == Story /\ [Next]_vars => Story'
<1> SUFFICES ASSUME Story, [Next]_vars PROVE Story'
  OBVIOUS
<1>1. RecordIsTyped'
  BY RecordStep DEF Story
<1>2. PostsNumbered'
  BY NumberingStep DEF Story
<1>3. ~torn' => Told(log', posts', page', drained', buffer', files', gone')
  BY StoryGoesOn DEF Story
<1>4. QED
  BY <1>1, <1>2, <1>3 DEF Story
-----------------------------------------------------------------------------
(***************************************************************************)
(* The replay of a told record.                                            *)
(***************************************************************************)
Mirrors(cur, st, F, multi) ==
    /\ cur \in [F -> Text]
    /\ \A t \in Task, m \in File :
          Qualify(t, m, multi) \in F => cur[Qualify(t, m, multi)] = st[<<t, m>>]

LEMMA StepMirrors ==
    ASSUME NEW multi, multi = (Cardinality(Task) > 1), NEW F, NEW cur, NEW st \in Shown,
           Mirrors(cur, st, F, multi), NEW ev \in Event, FileOf(ev, multi) \in F,
           ev.after = ApplyChanges(st[At(ev)], ev.changes)
    PROVE  Mirrors(OneStep(cur, FileOf(ev, multi), ev), [st EXCEPT ![At(ev)] = ev.after], F, multi)
<1> DEFINE f == FileOf(ev, multi)
           then == OneStep(cur, f, ev)
           after == [st EXCEPT ![At(ev)] = ev.after]
<1>1. cur \in [F -> Text]
  BY DEF Mirrors
<1>2. /\ then \in [F -> Text]
      /\ \A e \in F : then[e] = IF e = f THEN ApplyChanges(cur[f], ev.changes) ELSE cur[e]
  BY <1>1, OneStepType
<1>3. ev.task \in Task /\ ev.file \in File /\ At(ev) = <<ev.task, ev.file>>
      /\ f = Qualify(ev.task, ev.file, multi)
  BY DEF Event, At, FileOf
<1>4. \A t \in Task, m \in File :
         after[<<t, m>>] = IF t = ev.task /\ m = ev.file THEN ev.after ELSE st[<<t, m>>]
  BY <1>3 DEF Shown
<1>5. cur[f] = st[At(ev)]
  BY <1>3 DEF Mirrors
<1>6. IsFiniteSet(Task)
  BY RecordingAssumption
<1> HIDE DEF then, after, f
<1>7. ASSUME NEW t \in Task, NEW m \in File, Qualify(t, m, multi) \in F
      PROVE  then[Qualify(t, m, multi)] = after[<<t, m>>]
  <2>1. CASE Qualify(t, m, multi) = f
    <3>1. t = ev.task /\ m = ev.file
      BY <1>3, <1>6, <2>1, QualifyOnce
    <3>2. after[<<t, m>>] = ev.after
      BY <1>4, <3>1
    <3>3. QED
      BY <1>2, <1>5, <1>7, <2>1, <3>2
  <2>2. CASE Qualify(t, m, multi) # f
    <3>1. ~(t = ev.task /\ m = ev.file)
      BY <1>3, <2>2
    <3>2. cur[Qualify(t, m, multi)] = st[<<t, m>>]
      BY <1>7 DEF Mirrors
    <3>3. QED
      BY <1>2, <1>4, <1>7, <2>2, <3>1, <3>2
  <2>3. QED
    BY <2>1, <2>2
<1>8. QED
  BY <1>2, <1>7 DEF Mirrors, then, after, f

LEMMA PlayMirrors ==
    ASSUME NEW d, IsPayload(d, Task), NEW w \in 1 .. Len(d.snaps), NEW cur, NEW from, NEW to,
           Mirrors(cur, from, FilesSeen(d), IsMultiTask(d)), Leads(EventsOf(d, w), from, to)
    PROVE  Mirrors(PlayedFrom(d, cur, w), to, FilesSeen(d), IsMultiTask(d))
<1> DEFINE F == FilesSeen(d)
           multi == IsMultiTask(d)
           evs == EventsOf(d, w)
           n == Len(evs)
<1>1. evs \in Seq(Event) /\ n = d.snaps[w].count
  BY WindowEvents
<1>2. n \in Nat /\ \A k \in 1 .. n : evs[k] \in Event
  BY <1>1, LenProperties, ElementOfSeq
<1>3. \A k \in 1 .. n : FileOf(evs[k], multi) \in F
  <2>1. \A k \in 1 .. n : \E i \in 1 .. Len(d.events) : evs[k] = d.events[i]
    BY <1>1, WindowEvents
  <2>2. QED
    BY <2>1, SeenFiles
<1>4. cur \in [F -> Text]
  BY DEF Mirrors
<1>5. multi = (Cardinality(Task) > 1)
  BY PayloadTasks
<1>6. PICK g \in [0 .. n -> [F -> Text]] : Plays(g, evs, multi, cur) /\ PlayedFrom(d, cur, w) = g[n]
  BY <1>1, <1>3, <1>4, PlaySteps DEF PlayedFrom
<1>7. PICK h \in [0 .. n -> Shown] : h[0] = from /\ h[n] = to /\ Follows(h, evs)
  BY DEF Leads
<1> HIDE DEF F, multi, evs, n
<1> DEFINE S == {k \in Nat : k <= n => Mirrors(g[k], h[k], F, multi)}
<1>8. 0 \in S
  BY <1>6, <1>7 DEF Plays, F, multi
<1>9. ASSUME NEW k \in S PROVE k + 1 \in S
  <2> SUFFICES ASSUME k + 1 <= n PROVE Mirrors(g[k + 1], h[k + 1], F, multi)
    OBVIOUS
  <2>1. k \in 0 .. n /\ k + 1 \in 1 .. n /\ (k + 1) - 1 = k /\ Mirrors(g[k], h[k], F, multi)
    BY <1>2
  <2> DEFINE ev == evs[k + 1]
  <2>2. /\ g[k + 1] = OneStep(g[k], FileOf(ev, multi), ev)
        /\ ev.after = ApplyChanges(h[k][At(ev)], ev.changes)
        /\ h[k + 1] = [h[k] EXCEPT ![At(ev)] = ev.after]
    <3>1. \A j \in 1 .. n : /\ g[j] = OneStep(g[j - 1], FileOf(evs[j], multi), evs[j])
                            /\ evs[j].after = ApplyChanges(h[j - 1][At(evs[j])], evs[j].changes)
                            /\ h[j] = [h[j - 1] EXCEPT ![At(evs[j])] = evs[j].after]
      BY <1>6, <1>7 DEF Plays, Follows, n
    <3>2. QED
      BY <2>1, <3>1
  <2>3. ev \in Event /\ FileOf(ev, multi) \in F /\ h[k] \in Shown
    BY <1>2, <1>3, <1>7, <2>1
  <2> HIDE DEF ev
  <2>4. Mirrors(OneStep(g[k], FileOf(ev, multi), ev), [h[k] EXCEPT ![At(ev)] = ev.after], F, multi)
    BY <1>5, <2>1, <2>2, <2>3, StepMirrors
  <2>5. QED
    BY <2>2, <2>4
<1> HIDE DEF S
<1>10. S = Nat
  <2>1. S \subseteq Nat
    BY DEF S
  <2>2. QED
    BY <1>8, <1>9, <2>1, NatInd
<1>11. Mirrors(g[n], h[n], F, multi)
  <2>1. n \in S /\ n <= n
    BY <1>2, <1>10
  <2>2. QED
    BY <2>1 DEF S
<1>12. QED
  BY <1>6, <1>7, <1>11 DEF F, multi

\* What a window recorded is what playing it gives, and nothing is healed.
LEMMA NothingToHeal ==
    ASSUME NEW d, IsPayload(d, Task), NEW w \in 1 .. Len(d.snaps), NEW cur, NEW st, NEW given,
           Mirrors(PlayedFrom(d, cur, w), st, FilesSeen(d), IsMultiTask(d)),
           Stands(st, d.snaps[w].files, given)
    PROVE  WrongFrom(d, cur, w) = {} /\ HealedFrom(d, cur, w) = PlayedFrom(d, cur, w)
<1> DEFINE F == FilesSeen(d)
           multi == IsMultiTask(d)
           played == PlayedFrom(d, cur, w)
           recorded == RecordedAt(d, w)
<1>1. multi = (Cardinality(Task) > 1)
  BY PayloadTasks
<1>2. IsSnap(d.snaps[w], Task) /\ IsFiniteSet(Task)
  BY DEF IsPayload
<1>3. /\ \A key : key \in DOMAIN recorded <=>
             \E t \in Task : \E n \in DOMAIN d.snaps[w].files[t] : key = Qualify(t, n, multi)
      /\ \A t \in Task : \A n \in DOMAIN d.snaps[w].files[t] :
             recorded[Qualify(t, n, multi)] = d.snaps[w].files[t][n]
  <2> HIDE DEF multi
  <2>1. recorded = SnapshotFiles(d.snaps[w], multi)
    BY DEF RecordedAt, multi
  <2>2. QED
    BY <1>1, <1>2, <2>1, SnapshotRecords
<1>4. DOMAIN recorded \subseteq F
  BY SeenFiles DEF RecordedAt
<1>5. \A t \in Task : DOMAIN d.snaps[w].files[t] \subseteq File
  BY <1>2 DEF IsSnap, Workspace
<1> HIDE DEF F, multi, played, recorded
<1>6. \A key \in DOMAIN recorded : played[key] = recorded[key]
  <2> SUFFICES ASSUME NEW key \in DOMAIN recorded PROVE played[key] = recorded[key]
    OBVIOUS
  <2>1. PICK t \in Task : \E n \in DOMAIN d.snaps[w].files[t] : key = Qualify(t, n, multi)
    BY <1>3
  <2>2. PICK n \in DOMAIN d.snaps[w].files[t] : key = Qualify(t, n, multi)
    BY <2>1
  <2>3. recorded[key] = d.snaps[w].files[t][n] /\ n \in File /\ key \in F
    BY <1>3, <1>4, <1>5, <2>2
  <2>4. played[key] = st[<<t, n>>]
    BY <2>2, <2>3 DEF Mirrors, F, multi, played
  <2>5. st[<<t, n>>] = d.snaps[w].files[t][n]
    BY DEF Stands
  <2>6. QED
    BY <2>3, <2>4, <2>5
<1>7. Differs(played, recorded) = {}
  BY <1>6 DEF Differs
<1>8. WrongFrom(d, cur, w) = {}
  BY <1>7 DEF WrongFrom, played, recorded
<1>9. played \in [F -> Text]
  BY DEF Mirrors, F, played
<1>10. HealedFrom(d, cur, w) = [f \in DOMAIN played |-> played[f]]
  BY <1>8 DEF HealedFrom, played
<1>11. QED
  BY <1>8, <1>9, <1>10 DEF played

\* The cuts grow, and every event is in one window.
LEMMA WindowIs ==
    ASSUME NEW d, NEW U, IsPayload(d, U), NEW w \in 1 .. Len(d.snaps), NEW i \in Nat,
           EventsUpTo(d, w - 1) < i, i <= EventsUpTo(d, w)
    PROVE  WindowOf(d, i) = w
<1> DEFINE n == Len(d.snaps)
           C(v) == EventsUpTo(d, v)
           K(v) == d.snaps[v].count
<1>1. n \in Nat /\ DOMAIN d.snaps = 1 .. n /\ \A v \in 1 .. n : K(v) \in Nat
  BY DEF IsPayload, IsSnap
<1>2. /\ \A v \in 0 .. n : C(v) \in Nat
      /\ \A v \in 1 .. n : C(v) = C(v - 1) + K(v)
  BY <1>1, Cuts
<1>3. w \in 1 .. n /\ C(w - 1) < i /\ i <= C(w)
  OBVIOUS
<1>4. WindowOf(d, i) = Min({n} \cup {v \in 1 .. n : i <= C(v)})
  BY <1>1 DEF WindowOf
<1> HIDE DEF n, C, K
<1> DEFINE S == {k \in Nat : k <= w - 1 => C((w - 1) - k) <= C(w - 1)}
<1>5. 0 \in S
  <2>1. w - 1 \in 0 .. n /\ (w - 1) - 0 = w - 1
    BY <1>1, <1>3
  <2>2. C(w - 1) \in Nat
    BY <1>2, <2>1
  <2>3. QED
    BY <2>1, <2>2
<1>6. ASSUME NEW k \in S PROVE k + 1 \in S
  <2> SUFFICES ASSUME k + 1 <= w - 1 PROVE C((w - 1) - (k + 1)) <= C(w - 1)
    OBVIOUS
  <2> DEFINE v == (w - 1) - k
  <2>1. v \in 1 .. n /\ v - 1 = (w - 1) - (k + 1) /\ w - 1 \in 0 .. n /\ v \in 0 .. n /\ v - 1 \in 0 .. n
    BY <1>1, <1>3
  <2>2. C(v) <= C(w - 1)
    BY <1>3
  <2> HIDE DEF v
  <2>3. C(v) = C(v - 1) + K(v) /\ K(v) \in Nat /\ C(v) \in Nat /\ C(v - 1) \in Nat /\ C(w - 1) \in Nat
    BY <1>1, <1>2, <2>1
  <2>4. C(v - 1) <= C(w - 1)
    BY <2>2, <2>3
  <2>5. QED
    BY <2>1, <2>4
<1> HIDE DEF S
<1>7. S = Nat
  <2>1. S \subseteq Nat
    BY DEF S
  <2>2. QED
    BY <1>5, <1>6, <2>1, NatInd
<1>8. \A v \in 1 .. n : i <= C(v) => w <= v
  <2> SUFFICES ASSUME NEW v \in 1 .. n, i <= C(v), ~(w <= v) PROVE FALSE
    OBVIOUS
  <2>1. /\ (w - 1) - v \in S /\ (w - 1) - v <= w - 1 /\ (w - 1) - ((w - 1) - v) = v
        /\ v \in 0 .. n /\ w - 1 \in 0 .. n
    BY <1>1, <1>3, <1>7
  <2>2. C(v) <= C(w - 1)
    BY <2>1 DEF S
  <2>3. C(v) \in Nat /\ C(w - 1) \in Nat
    BY <1>2, <2>1
  <2>4. QED
    BY <1>3, <2>2, <2>3
<1> DEFINE X == {n} \cup {v \in 1 .. n : i <= C(v)}
<1>9. w \in X /\ \A v \in X : w <= v /\ v \in Nat
  BY <1>1, <1>3, <1>8
<1>10. \A x \in X : (\A y \in X : x <= y) => x = w
  BY <1>9
<1> HIDE DEF X
<1>11. Min(X) = w
  BY <1>9, <1>10 DEF Min
<1>12. QED
  BY <1>4, <1>11 DEF X

LEMMA EveryEventIn ==
    ASSUME NEW d, NEW U, IsPayload(d, U), NEW i \in 1 .. Len(d.events)
    PROVE  \E w \in 1 .. Len(d.snaps) :
              EventsUpTo(d, w - 1) < i /\ i <= EventsUpTo(d, w)
<1> DEFINE n == Len(d.snaps)
           C(v) == EventsUpTo(d, v)
<1>1. n \in Nat \ {0} /\ C(n) = Len(d.events) /\ Len(d.events) \in Nat
  BY LenProperties DEF IsPayload
<1>2. \A v \in 1 .. n : d.snaps[v].count \in Nat
  BY DEF IsPayload, IsSnap
<1>3. C(0) = 0 /\ \A v \in 0 .. n : C(v) \in Nat
  BY <1>1, <1>2, Cuts
<1> DEFINE T == {v \in 1 .. n : i <= C(v)}
<1>4. i \in Nat /\ 0 < i /\ i <= C(n)
  BY <1>1
<1> HIDE DEF n, C
<1>5. T \subseteq Nat /\ n \in T
  BY <1>1, <1>4
<1>6. PICK w \in T : \A m \in T : w <= m
  BY <1>5, LeastNat
<1>7. C(w - 1) < i
  <2>1. CASE w = 1
    <3>1. w - 1 = 0
      BY <2>1
    <3>2. QED
      BY <1>3, <1>4, <3>1
  <2>2. CASE w # 1
    <3>1. w - 1 \in 1 .. n /\ w - 1 \in 0 .. n /\ ~(w <= w - 1)
      BY <1>1, <1>6, <2>2
    <3>2. ~(i <= C(w - 1)) /\ C(w - 1) \in Nat
      BY <1>3, <1>6, <3>1
    <3>3. QED
      BY <1>4, <3>2
  <2>3. QED
    BY <2>1, <2>2
<1>8. QED
  BY <1>6, <1>7 DEF n, C
-----------------------------------------------------------------------------
\* The windows of the payload are those of the log, and its events lead from
\* text to text.
LEMMA PayloadTold ==
    ASSUME RecordIsTyped, log # <<>>, NEW L, NEW given, LogTold(L, log, given)
    PROVE  LET d == ReplayData
           IN  /\ IsPayload(d, Task) /\ Len(d.snaps) = Len(log) /\ Len(log) \in Nat \ {0}
               /\ \A w \in 1 .. Len(log) :
                     /\ d.snaps[w].open = FALSE /\ EventsOf(d, w) # <<>>
                     /\ Leads(EventsOf(d, w), L[w - 1], L[w]) /\ Stands(L[w], d.snaps[w].files, given)
<1> DEFINE d == ReplayData
           n == Len(log)
<1>1. /\ IsPayload(d, Task) /\ Len(d.snaps) = n
      /\ \A w \in 1 .. n : /\ d.snaps[w].files = log[w].snap
                           /\ d.snaps[w].count = Len(log[w].events)
                           /\ d.snaps[w].open = FALSE
      /\ \A w \in 1 .. n : \A k \in 1 .. Len(log[w].events) :
            d.events[EventsUpTo(d, w - 1) + k] = log[w].events[k]
  BY RecordIsPayload
<1>2. n \in Nat \ {0} /\ \A w \in 1 .. n : log[w] \in Windows
  <2>1. log \in Seq(Windows)
    BY DEF RecordIsTyped
  <2>2. QED
    BY <2>1, EmptySeq, LenProperties, ElementOfSeq
<1> HIDE DEF d
<1>3. ASSUME NEW w \in 1 .. n PROVE EventsOf(d, w) = log[w].events /\ EventsOf(d, w) # <<>>
  <2> DEFINE a == EventsOf(d, w)
             b == log[w].events
  <2>1. b \in Seq(Event) /\ b # <<>>
    BY <1>2, WindowHas
  <2>2. a \in Seq(Event) /\ Len(a) = Len(b) /\ \A k \in 1 .. Len(b) : a[k] = b[k]
    <3> DEFINE from == EventsUpTo(d, w - 1)
               count == d.snaps[w].count
    <3>1. w \in 1 .. Len(d.snaps)
      BY <1>1
    <3>2. /\ a \in Seq(Event) /\ Len(a) = count
          /\ \A k \in 1 .. count : a[k] = d.events[from + k]
      BY <1>1, <3>1, WindowEvents
    <3>3. count = Len(b) /\ \A k \in 1 .. Len(b) : d.events[from + k] = b[k]
      BY <1>1
    <3> HIDE DEF a, b, from, count
    <3>4. QED
      BY <3>2, <3>3
  <2> HIDE DEF a, b
  <2>3. a = b
    BY <2>1, <2>2, SeqEqual
  <2>4. QED
    BY <2>1, <2>3 DEF a, b
<1>4. \A w \in 1 .. n : Leads(log[w].events, L[w - 1], L[w]) /\ Stands(L[w], log[w].snap, given)
  BY DEF LogTold
<1>5. QED
  BY <1>1, <1>2, <1>3, <1>4 DEF d

\* Window by window the pass heals nothing and ends where the student was.
LEMMA PassTold ==
    ASSUME RecordIsTyped, log # <<>>, NEW L, NEW given, LogTold(L, log, given)
    PROVE  LET d == ReplayData
               ends == Pass(d).ends
           IN  \A w \in 1 .. Len(log) :
                  /\ WrongFrom(d, Before(d, ends, w), w) = {}
                  /\ Mirrors(ends[w], L[w], FilesSeen(d), IsMultiTask(d))
<1> DEFINE d == ReplayData
           ends == Pass(d).ends
           n == Len(log)
           Same(cur, st) == Mirrors(cur, st, FilesSeen(d), IsMultiTask(d))
<1>1. /\ IsPayload(d, Task) /\ Len(d.snaps) = n /\ n \in Nat \ {0}
      /\ \A w \in 1 .. n : /\ Leads(EventsOf(d, w), L[w - 1], L[w])
                           /\ Stands(L[w], d.snaps[w].files, given)
  BY PayloadTold
<1>2. L[0] = NothingShown
  BY DEF LogTold
<1> HIDE DEF d, n
<1>3. \A w \in 1 .. n : ends[w] = HealedFrom(d, Before(d, ends, w), w)
  BY <1>1, PassEnds DEF Passes
<1> HIDE DEF ends
<1>4. Same(BlankFiles(d), NothingShown)
  <2>1. <<>> \in Text
    BY EmptySeq DEF Text
  <2>2. QED
    BY <2>1 DEF Mirrors, BlankFiles, NothingShown
<1>5. ASSUME NEW w \in 1 .. n, Same(Before(d, ends, w), L[w - 1])
      PROVE  WrongFrom(d, Before(d, ends, w), w) = {} /\ Same(ends[w], L[w])
  <2> DEFINE cur == Before(d, ends, w)
  <2>1. Leads(EventsOf(d, w), L[w - 1], L[w]) /\ Stands(L[w], d.snaps[w].files, given)
    BY <1>1
  <2>2. w \in 1 .. Len(d.snaps) /\ Same(cur, L[w - 1])
    BY <1>1, <1>5
  <2> HIDE DEF cur
  <2>3. Same(PlayedFrom(d, cur, w), L[w])
    BY <1>1, <2>1, <2>2, PlayMirrors
  <2>4. WrongFrom(d, cur, w) = {} /\ HealedFrom(d, cur, w) = PlayedFrom(d, cur, w)
    BY <1>1, <2>1, <2>2, <2>3, NothingToHeal
  <2>5. QED
    BY <1>3, <2>3, <2>4 DEF cur
<1> HIDE DEF Same
<1> DEFINE S == {k \in Nat : k + 1 <= n => Same(Before(d, ends, k + 1), L[k])}
<1>6. 0 \in S
  <2>1. Before(d, ends, 0 + 1) = BlankFiles(d)
    BY DEF Before
  <2>2. QED
    BY <1>2, <1>4, <2>1
<1>7. ASSUME NEW k \in S PROVE k + 1 \in S
  <2> SUFFICES ASSUME (k + 1) + 1 <= n PROVE Same(Before(d, ends, (k + 1) + 1), L[k + 1])
    OBVIOUS
  <2>1. /\ k \in Nat /\ k + 1 \in 1 .. n /\ (k + 1) - 1 = k /\ (k + 1) + 1 # 1
        /\ ((k + 1) + 1) - 1 = k + 1 /\ Same(Before(d, ends, k + 1), L[k])
    BY <1>1
  <2>2. Same(ends[k + 1], L[k + 1])
    BY <1>5, <2>1
  <2>3. Before(d, ends, (k + 1) + 1) = ends[k + 1]
    BY <2>1 DEF Before
  <2>4. QED
    BY <2>2, <2>3
<1> HIDE DEF S
<1>8. S = Nat
  <2>1. S \subseteq Nat
    BY DEF S
  <2>2. QED
    BY <1>6, <1>7, <2>1, NatInd
<1>9. ASSUME NEW w \in 1 .. n PROVE Same(Before(d, ends, w), L[w - 1])
  <2>1. w - 1 \in S /\ (w - 1) + 1 = w /\ w <= n
    BY <1>1, <1>8
  <2>2. QED
    BY <2>1 DEF S
<1>10. QED
  BY <1>5, <1>9 DEF Same, d, ends, n

\* Every frame is what the student saw.
LEMMA FrameTold ==
    ASSUME RecordIsTyped, log # <<>>, NEW L, NEW given, LogTold(L, log, given),
           NEW i \in 1 .. Len(ReplayData.events)
    PROVE  FrameText(ReplayData, Pass(ReplayData).ends, i) = ReplayData.events[i].after
<1> DEFINE d == ReplayData
           ends == Pass(d).ends
           n == Len(log)
           multi == IsMultiTask(d)
           F == FilesSeen(d)
           C(v) == EventsUpTo(d, v)
           ev == d.events[i]
           f == FileOf(ev, multi)
<1>1. /\ IsPayload(d, Task) /\ Len(d.snaps) = n /\ n \in Nat \ {0}
      /\ \A w \in 1 .. n : Leads(EventsOf(d, w), L[w - 1], L[w])
  BY PayloadTold
<1>2. \A w \in 1 .. n : Mirrors(ends[w], L[w], F, multi)
  BY PassTold
<1>3. L[0] = NothingShown
  BY DEF LogTold
<1>4. i \in 1 .. Len(d.events) /\ d.events \in Seq(Event) /\ ev \in Event /\ i \in Nat
  <2>1. d.events \in Seq(Event) /\ i \in 1 .. Len(d.events)
    BY <1>1 DEF IsPayload
  <2>2. Len(d.events) \in Nat /\ \A j \in 1 .. Len(d.events) : d.events[j] \in Event
    BY <2>1, LenProperties, ElementOfSeq
  <2>3. QED
    BY <2>1, <2>2
<1> HIDE DEF d, ends, n
<1>5. ev.task \in Task /\ ev.file \in File /\ f = Qualify(ev.task, ev.file, multi) /\ f \in F
      /\ At(ev) = <<ev.task, ev.file>>
  <2>1. f \in F
    BY <1>1, <1>4, SeenFiles
  <2>2. ev.task \in Task /\ ev.file \in File
    BY <1>4 DEF Event
  <2>3. QED
    BY <2>1, <2>2 DEF FileOf, At
<1>6. multi = (Cardinality(Task) > 1) /\ IsFiniteSet(Task)
  BY <1>1, PayloadTasks, RecordingAssumption
<1>7. PICK w \in 1 .. n : C(w - 1) < i /\ i <= C(w)
  BY <1>1, <1>4, EveryEventIn
<1>8. WindowOf(d, i) = w
  BY <1>1, <1>4, <1>7, WindowIs
<1> DEFINE evs == EventsOf(d, w)
           m == Len(evs)
           c == C(w - 1)
           j == i - c
<1>9. /\ evs \in Seq(Event) /\ m \in Nat /\ c \in Nat /\ C(w) = c + m /\ C(w) <= Len(d.events)
      /\ \A k \in 1 .. m : c + k \in 1 .. Len(d.events) /\ evs[k] = d.events[c + k]
  <2> DEFINE count == d.snaps[w].count
  <2>1. w \in 1 .. Len(d.snaps)
    BY <1>1, <1>7
  <2>2. /\ c \in Nat /\ C(w) = c + count /\ count \in Nat /\ C(w) <= Len(d.events)
        /\ evs \in Seq(Event) /\ m = count
        /\ \A k \in 1 .. count : c + k \in 1 .. Len(d.events) /\ evs[k] = d.events[c + k]
    BY <1>1, <2>1, WindowEvents
  <2> HIDE DEF c, C, evs, m, count
  <2>3. QED
    BY <2>2
<1>10. PICK h \in [0 .. m -> Shown] : h[0] = L[w - 1] /\ Follows(h, evs)
  BY <1>1, <1>7 DEF Leads
<1> DEFINE sub == FrameEvents(d, i)
<1>11. sub \in Seq(Event) /\ Len(sub) = j /\ j \in 1 .. m /\ \A k \in 1 .. j : sub[k] = evs[k]
  <2>1. sub = SubSeq(d.events, c + 1, i)
    BY <1>8 DEF FrameEvents
  <2> HIDE DEF C, evs, sub, ev
  <2>2. j \in 1 .. m /\ c + 1 \in Nat /\ i \in Nat /\ c + 1 <= i /\ c + j = i
    BY <1>4, <1>7, <1>9
  <2> HIDE DEF c, m
  <2>3. \A k \in c + 1 .. i : d.events[k] \in Event
    <3>1. \A k \in c + 1 .. i : k \in 1 .. Len(d.events)
      BY <1>4, <1>9, <2>2
    <3>2. QED
      BY <1>4, <3>1, ElementOfSeq
  <2>4. /\ sub \in Seq(Event)
        /\ Len(sub) = IF c + 1 <= i THEN i - (c + 1) + 1 ELSE 0
        /\ \A k \in 1 .. i - (c + 1) + 1 : sub[k] = d.events[(c + 1) + k - 1]
    BY <2>1, <2>2, <2>3, SubSeqProperties
  <2>5. i - (c + 1) + 1 = j
    BY <1>9, <2>2
  <2>6. ASSUME NEW k \in 1 .. j PROVE sub[k] = evs[k]
    <3>1. c \in Int /\ m \in Nat /\ j \in Nat /\ j <= m
      BY <1>9, <2>2
    <3>2. (c + 1) + k - 1 = c + k /\ k \in 1 .. m
      BY <3>1
    <3>3. QED
      BY <1>9, <2>4, <2>5, <3>2
  <2>7. QED
    BY <2>2, <2>4, <2>5, <2>6
<1>12. FrameBase(d, ends, i) = L[w - 1][At(ev)]
  <2>1. CASE w = 1
    <3>1. w - 1 = 0
      BY <2>1
    <3>2. L[w - 1][At(ev)] = <<>>
      BY <1>3, <1>5, <3>1 DEF NothingShown
    <3>3. QED
      BY <1>8, <2>1, <3>2 DEF FrameBase
  <2>2. CASE w # 1
    <3>1. w - 1 \in 1 .. n
      BY <1>1, <1>7, <2>2
    <3>2. Mirrors(ends[w - 1], L[w - 1], F, multi)
      BY <1>2, <3>1
    <3>3. ends[w - 1][f] = L[w - 1][At(ev)]
      BY <1>5, <3>2 DEF Mirrors
    <3>4. QED
      BY <1>8, <2>2, <3>3 DEF FrameBase
  <2>3. QED
    BY <2>1, <2>2
<1>13. h[0][At(ev)] \in Text /\ \A k \in 0 .. m : h[k] \in Shown
  <2>1. 0 \in 0 .. m
    BY <1>9
  <2>2. QED
    BY <1>5, <1>10, <2>1 DEF Shown
<1>14. PICK g \in [0 .. j -> Text] :
          /\ Tracks(g, sub, multi, f, FrameBase(d, ends, i))
          /\ FrameText(d, ends, i) = g[j]
  <2>1. FrameBase(d, ends, i) \in Text /\ sub \in Seq(Event)
    BY <1>10, <1>11, <1>12, <1>13
  <2>2. \E g \in [0 .. Len(sub) -> Text] :
           /\ Tracks(g, sub, multi, f, FrameBase(d, ends, i))
           /\ FrameText(d, ends, i) = g[Len(sub)]
    BY <2>1, FrameSteps
  <2>3. QED
    BY <1>11, <2>2
<1>15. i = c + j /\ evs[j] = ev
  <2>1. i = c + j
    BY <1>4, <1>9
  <2>2. QED
    BY <1>9, <1>11, <2>1
<1>16. \A k \in 1 .. m : /\ evs[k].after = ApplyChanges(h[k - 1][At(evs[k])], evs[k].changes)
                         /\ h[k] = [h[k - 1] EXCEPT ![At(evs[k])] = evs[k].after]
                         /\ evs[k] \in Event
  BY <1>9, <1>10, ElementOfSeq DEF Follows
<1>17. /\ g[0] = h[0][At(ev)]
       /\ \A k \in 1 .. j :
             g[k] = IF FileOf(evs[k], multi) = f THEN ApplyChanges(g[k - 1], evs[k].changes)
                                                 ELSE g[k - 1]
  BY <1>10, <1>11, <1>12, <1>14 DEF Tracks
<1> HIDE DEF ev, f, evs, m, c, j, sub, C, multi, F
<1> DEFINE S == {k \in Nat : k <= j => g[k] = h[k][At(ev)]}
<1>18. 0 \in S
  BY <1>17
<1>19. ASSUME NEW k \in S PROVE k + 1 \in S
  <2> SUFFICES ASSUME k + 1 <= j PROVE g[k + 1] = h[k + 1][At(ev)]
    OBVIOUS
  <2> DEFINE e == evs[k + 1]
  <2>1. /\ k + 1 \in 1 .. j /\ k + 1 \in 1 .. m /\ (k + 1) - 1 = k /\ k \in 0 .. m
        /\ g[k] = h[k][At(ev)]
    BY <1>9, <1>11
  <2>2. /\ e \in Event /\ e.after = ApplyChanges(h[k][At(e)], e.changes)
        /\ h[k + 1] = [h[k] EXCEPT ![At(e)] = e.after]
        /\ g[k + 1] = IF FileOf(e, multi) = f THEN ApplyChanges(g[k], e.changes) ELSE g[k]
    BY <1>16, <1>17, <2>1
  <2>3. h[k] \in [Task \X File -> Text] /\ At(ev) \in Task \X File
    BY <1>5, <1>13, <2>1 DEF Shown
  <2> HIDE DEF e
  <2>4. e.task \in Task /\ e.file \in File /\ At(e) = <<e.task, e.file>>
        /\ FileOf(e, multi) = Qualify(e.task, e.file, multi)
    BY <2>2 DEF Event, At, FileOf
  <2>5. CASE FileOf(e, multi) = f
    <3>1. e.task = ev.task /\ e.file = ev.file
      BY <1>5, <1>6, <2>4, <2>5, QualifyOnce
    <3>2. At(e) = At(ev)
      BY <1>5, <2>4, <3>1
    <3>3. QED
      BY <2>1, <2>2, <2>3, <2>5, <3>2
  <2>6. CASE FileOf(e, multi) # f
    <3>1. At(e) # At(ev)
      BY <1>5, <2>4, <2>6
    <3>2. QED
      BY <2>1, <2>2, <2>3, <2>6, <3>1
  <2>7. QED
    BY <2>5, <2>6
<1> HIDE DEF S
<1>20. S = Nat
  <2>1. S \subseteq Nat
    BY DEF S
  <2>2. QED
    BY <1>18, <1>19, <2>1, NatInd
<1>21. g[j] = h[j][At(ev)]
  <2>1. j \in S /\ j <= j
    BY <1>9, <1>11, <1>20
  <2>2. QED
    BY <2>1 DEF S
<1>22. h[j][At(ev)] = ev.after
  <2>1. j - 1 \in 0 .. m /\ j \in 1 .. m
    BY <1>9, <1>11
  <2>2. h[j - 1] \in [Task \X File -> Text] /\ At(ev) \in Task \X File
    BY <1>5, <1>13, <2>1 DEF Shown
  <2>3. h[j] = [h[j - 1] EXCEPT ![At(ev)] = ev.after]
    BY <1>15, <1>16, <2>1
  <2>4. QED
    BY <2>2, <2>3
<1>23. QED
  BY <1>14, <1>21, <1>22 DEF d, ends, ev

LEMMA StoryIsExact == Story => ReplayIsExact
<1> SUFFICES ASSUME Story, ~torn, log # <<>>
             PROVE  /\ Exact(ReplayData)
                    /\ FrameTexts(ReplayData) =
                          [i \in DOMAIN ReplayData.events |-> ReplayData.events[i].after]
  BY DEF ReplayIsExact
<1> DEFINE d == ReplayData
           n == Len(log)
<1>1. RecordIsTyped
  BY DEF Story
<1>2. PICK L : LogTold(L, log, gone)
  BY DEF Story, Told
<1>3. /\ IsPayload(d, Task) /\ Len(d.snaps) = n /\ n \in Nat \ {0}
      /\ \A w \in 1 .. n : EventsOf(d, w) # <<>>
  BY <1>1, <1>2, PayloadTold
<1>4. \A w \in 1 .. n : WrongFrom(d, Before(d, Pass(d).ends, w), w) = {}
  BY <1>1, <1>2, PassTold
<1>5. \A i \in 1 .. Len(d.events) : FrameText(d, Pass(d).ends, i) = d.events[i].after
  BY <1>1, <1>2, FrameTold
<1> HIDE DEF d, n
<1>6. Pass(d).wrong = {}
  <2>1. Passes(d, Pass(d).ends, Pass(d).wrong, n)
    BY <1>3, PassEnds
  <2>2. QED
    BY <1>4, <2>1 DEF Passes
<1>7. d.snaps # <<>>
  BY <1>3, EmptySeq
<1>8. d.events # <<>>
  <2>1. 1 \in 1 .. n
    BY <1>3
  <2>2. EventsOf(d, 1) \in Seq(Event) /\ EventsOf(d, 1) # <<>> /\ d.snaps[1].count \in Nat
        /\ Len(EventsOf(d, 1)) = d.snaps[1].count /\ EventsUpTo(d, 1 - 1) \in Nat
        /\ EventsUpTo(d, 1) = EventsUpTo(d, 1 - 1) + d.snaps[1].count
        /\ EventsUpTo(d, 1) <= Len(d.events)
    BY <1>3, <2>1, WindowEvents
  <2>3. Len(EventsOf(d, 1)) # 0
    BY <2>2, EmptySeq
  <2>4. Len(d.events) # 0
    <3> DEFINE a == EventsUpTo(d, 1 - 1)
               k == d.snaps[1].count
               b == EventsUpTo(d, 1)
               l == Len(d.events)
    <3>1. a \in Nat /\ k \in Nat /\ k # 0 /\ b = a + k /\ b <= l
      BY <2>2, <2>3
    <3> HIDE DEF a, k, b, l
    <3>2. l # 0
      BY <3>1
    <3>3. QED
      BY <3>2 DEF l
  <2>5. QED
    BY <2>4, EmptySeq
<1>9. Exact(d)
  BY <1>6, <1>7, <1>8 DEF Exact, ExactCapable
<1>10. FrameTexts(d) = [i \in DOMAIN d.events |-> d.events[i].after]
  <2>1. DOMAIN d.events = 1 .. Len(d.events)
    BY <1>3, LenProperties DEF IsPayload
  <2>2. QED
    BY <1>5, <2>1 DEF FrameTexts
<1>11. QED
  BY <1>9, <1>10 DEF d

\* As long as no window was lost, repeated or overtaken, and no file with text
\* in it was renamed, the replay calls itself exact and every frame shows what
\* the student saw after that edit.
THEOREM ReplayExact == Spec => []ReplayIsExact
<1>1. Init => Story
  BY StoryStart
<1>2. Story /\ [Next]_vars => Story'
  BY StoryStep
<1>3. Story => ReplayIsExact
  BY StoryIsExact
<1>4. QED
  BY <1>1, <1>2, <1>3, PTL DEF Spec
-----------------------------------------------------------------------------
(***************************************************************************)
(* Narrowing to a task.  The events kept of a sequence, and how many of    *)
(* them there are up to a position.                                        *)
(***************************************************************************)
Rank(evs, t, k) == Cardinality({j \in 1 .. k : evs[j].task = t})

LEMMA RankSteps ==
    ASSUME NEW evs, NEW t
    PROVE  /\ Rank(evs, t, 0) = 0
           /\ \A k \in Nat : Rank(evs, t, k) \in Nat
           /\ \A k \in Nat \ {0} : Rank(evs, t, k) =
                 Rank(evs, t, k - 1) + (IF evs[k].task = t THEN 1 ELSE 0)
           /\ \A j, k \in Nat : j <= k => Rank(evs, t, j) <= Rank(evs, t, k)
           /\ \A j, k \in Nat : j < k /\ evs[k].task = t => Rank(evs, t, j) < Rank(evs, t, k)
<1> DEFINE Of(k) == {j \in 1 .. k : evs[j].task = t}
           R(k) == Rank(evs, t, k)
<1>1. \A k \in Nat : IsFiniteSet(Of(k)) /\ R(k) \in Nat
  <2> TAKE k \in Nat
  <2>1. IsFiniteSet(1 .. k)
    BY FS_Interval
  <2>2. Of(k) \in SUBSET (1 .. k)
    OBVIOUS
  <2> HIDE DEF Of
  <2>3. IsFiniteSet(Of(k))
    BY <2>1, <2>2, FS_Subset
  <2>4. R(k) = Cardinality(Of(k))
    BY DEF Rank, Of
  <2>5. QED
    BY <2>3, <2>4, FS_CardinalityType
<1>2. R(0) = 0
  <2>1. Of(0) = {}
    OBVIOUS
  <2>2. QED
    BY <2>1, FS_EmptySet DEF Rank
<1>3. ASSUME NEW k \in Nat \ {0} PROVE R(k) = R(k - 1) + (IF evs[k].task = t THEN 1 ELSE 0)
  <2>1. k - 1 \in Nat /\ k \notin Of(k - 1) /\ IsFiniteSet(Of(k - 1))
    BY <1>1
  <2>2. R(k) = Cardinality(Of(k)) /\ R(k - 1) = Cardinality(Of(k - 1)) /\ R(k - 1) \in Nat
    BY <1>1, <2>1 DEF Rank
  <2>3. CASE evs[k].task = t
    <3>1. Of(k) = Of(k - 1) \cup {k}
      BY <2>3
    <3> HIDE DEF Of
    <3>2. Cardinality(Of(k - 1) \cup {k}) = Cardinality(Of(k - 1)) + 1
      BY <2>1, FS_AddElement
    <3>3. QED
      BY <2>2, <2>3, <3>1, <3>2
  <2>4. CASE evs[k].task # t
    <3>1. Of(k) = Of(k - 1)
      BY <2>4
    <3> HIDE DEF Of, R
    <3>2. QED
      BY <2>2, <2>4, <3>1
  <2>5. QED
    BY <2>3, <2>4
<1>4. ASSUME NEW j \in Nat, NEW k \in Nat, j <= k PROVE R(j) <= R(k)
  <2>1. Of(j) \in SUBSET Of(k) /\ IsFiniteSet(Of(k))
    BY <1>1, <1>4
  <2> HIDE DEF Of
  <2>2. Cardinality(Of(j)) <= Cardinality(Of(k))
    BY <2>1, FS_Subset
  <2>3. QED
    BY <2>2 DEF Rank, Of
<1>5. ASSUME NEW j \in Nat, NEW k \in Nat, j < k, evs[k].task = t PROVE R(j) < R(k)
  <2>1. k \in Nat \ {0} /\ k - 1 \in Nat /\ j <= k - 1
    BY <1>5
  <2>2. R(j) <= R(k - 1) /\ R(j) \in Nat /\ R(k - 1) \in Nat
    BY <1>1, <1>4, <2>1
  <2>3. R(k) = R(k - 1) + 1
    BY <1>3, <1>5, <2>1
  <2> HIDE DEF R
  <2>4. QED
    BY <2>2, <2>3
<1>6. QED
  BY <1>1, <1>2, <1>3, <1>4, <1>5

\* The kept positions, each found at its rank.
IsKept(kept, evs, t, k) ==
    /\ kept \in Seq(Nat) /\ Len(kept) = Rank(evs, t, k)
    /\ \A x \in 1 .. Rank(evs, t, k) : kept[x] \in 1 .. k /\ evs[kept[x]].task = t
    /\ \A j \in 1 .. k : evs[j].task = t => kept[Rank(evs, t, j)] = j

LEMMA KeepNext ==
    ASSUME NEW evs, NEW t, NEW k \in Nat, NEW kept, IsKept(kept, evs, t, k)
    PROVE  IsKept(IF evs[k + 1].task = t THEN Append(kept, k + 1) ELSE kept, evs, t, k + 1)
<1> DEFINE R(j) == Rank(evs, t, j)
           longer == Append(kept, k + 1)
<1>1. /\ kept \in Seq(Nat) /\ Len(kept) = R(k)
      /\ \A x \in 1 .. R(k) : kept[x] \in 1 .. k /\ evs[kept[x]].task = t
      /\ \A j \in 1 .. k : evs[j].task = t => kept[R(j)] = j
  BY DEF IsKept
<1>2. /\ R(k) \in Nat /\ R(k + 1) = R(k) + (IF evs[k + 1].task = t THEN 1 ELSE 0)
      /\ \A j \in 1 .. k : R(j) \in Nat /\ R(j) <= R(k) /\ (evs[j].task = t => 0 < R(j))
  <2>1. k + 1 \in Nat \ {0} /\ (k + 1) - 1 = k /\ \A j \in 1 .. k : j \in Nat /\ j <= k /\ 0 < j
    OBVIOUS
  <2>2. R(0) = 0
    BY RankSteps
  <2>3. R(k) \in Nat /\ R(k + 1) = R(k) + (IF evs[k + 1].task = t THEN 1 ELSE 0)
    <3>1. R(k + 1) = R((k + 1) - 1) + (IF evs[k + 1].task = t THEN 1 ELSE 0)
      BY <2>1, RankSteps
    <3>2. R(k) \in Nat
      BY RankSteps
    <3>3. QED
      BY <2>1, <3>1, <3>2
  <2>4. \A j \in 1 .. k : R(j) \in Nat /\ R(j) <= R(k) /\ (evs[j].task = t => R(0) < R(j))
    BY <2>1, RankSteps
  <2> HIDE DEF R
  <2>5. QED
    BY <2>2, <2>3, <2>4
<1>3. CASE evs[k + 1].task = t
  <2>1. /\ longer \in Seq(Nat) /\ Len(longer) = R(k) + 1 /\ longer[R(k) + 1] = k + 1
        /\ \A x \in 1 .. R(k) : longer[x] = kept[x]
    <3>1. k + 1 \in Nat
      OBVIOUS
    <3> HIDE DEF R
    <3>2. QED
      BY <1>1, <1>2, <3>1, AppendProperties
  <2> HIDE DEF R, longer
  <2>2. R(k + 1) = R(k) + 1
    BY <1>2, <1>3
  <2>3. \A x \in 1 .. R(k + 1) : longer[x] \in 1 .. (k + 1) /\ evs[longer[x]].task = t
    <3> TAKE x \in 1 .. R(k + 1)
    <3>1. CASE x = R(k) + 1
      BY <1>3, <2>1, <3>1
    <3>2. CASE x # R(k) + 1
      <4>1. x \in 1 .. R(k)
        BY <1>2, <2>2, <3>2
      <4>2. kept[x] \in 1 .. k /\ evs[kept[x]].task = t /\ longer[x] = kept[x]
        BY <1>1, <2>1, <4>1
      <4>3. QED
        BY <4>2
    <3>3. QED
      BY <3>1, <3>2
  <2>4. ASSUME NEW j \in 1 .. (k + 1), evs[j].task = t PROVE longer[R(j)] = j
    <3>1. CASE j = k + 1
      BY <2>1, <2>2, <3>1
    <3>2. CASE j # k + 1
      <4>1. j \in 1 .. k
        BY <3>2
      <4>2. R(j) \in 1 .. R(k) /\ kept[R(j)] = j
        BY <1>1, <1>2, <2>4, <4>1
      <4>3. QED
        BY <2>1, <4>2
    <3>3. QED
      BY <3>1, <3>2
  <2>5. longer \in Seq(Nat) /\ Len(longer) = R(k + 1)
    BY <2>1, <2>2
  <2>6. IsKept(longer, evs, t, k + 1)
    BY <2>3, <2>4, <2>5 DEF IsKept, R
  <2>7. QED
    BY <1>3, <2>6 DEF longer
<1>4. CASE evs[k + 1].task # t
  <2> HIDE DEF R
  <2>1. R(k + 1) = R(k)
    BY <1>2, <1>4
  <2>2. \A x \in 1 .. R(k + 1) : kept[x] \in 1 .. (k + 1) /\ evs[kept[x]].task = t
    BY <1>1, <2>1
  <2>3. ASSUME NEW j \in 1 .. (k + 1), evs[j].task = t PROVE kept[R(j)] = j
    <3>1. j # k + 1
      BY <1>4, <2>3
    <3>2. j \in 1 .. k
      BY <3>1
    <3>3. QED
      BY <1>1, <2>3, <3>2
  <2>4. Len(kept) = R(k + 1)
    BY <1>1, <2>1
  <2>5. IsKept(kept, evs, t, k + 1)
    BY <1>1, <2>2, <2>3, <2>4 DEF IsKept, R
  <2>6. QED
    BY <1>4, <2>5
<1>5. QED
  BY <1>3, <1>4

LEMMA KeptPositions ==
    ASSUME NEW evs \in Seq(Event), NEW t
    PROVE  IsKept(KeptIn(evs, t), evs, t, Len(evs))
<1> DEFINE n == Len(evs)
           D == Seq(Nat)
           With(kept, k) == IF evs[k].task = t THEN Append(kept, k) ELSE kept
           step == [p \in (1 .. n) \X D |-> With(p[2], p[1])]
           G(f) == [k \in 0 .. n |->
                      IF k = 0 THEN <<>>
                      ELSE IF evs[k].task = t THEN Append(f[k - 1], k) ELSE f[k - 1]]
           upTo == CHOOSE f : f = G(f)
<1>1. n \in Nat
  BY LenProperties
<1>2. KeptIn(evs, t) = upTo[n]
  BY DEF KeptIn
<1>3. \A f : G(f) = [k \in 0 .. n |-> IF k = 0 THEN <<>> ELSE With(f[k - 1], k)]
  OBVIOUS
<1>4. <<>> \in D
  BY EmptySeq
<1>5. \A k \in 1 .. n, kept \in D : With(kept, k) \in D
  <2> TAKE k \in 1 .. n, kept \in D
  <2>1. k \in Nat
    OBVIOUS
  <2>2. Append(kept, k) \in Seq(Nat)
    BY <2>1, AppendProperties
  <2>3. QED
    BY <2>2
<1> HIDE DEF upTo, n, With, D
<1>6. step \in [(1 .. n) \X D -> D]
  BY <1>5
<1>7. PICK g : Solves(g, n, D, <<>>, step)
  <2> HIDE DEF step
  <2>1. QED
    BY <1>1, <1>4, <1>6, Iterates
<1>8. /\ \A k \in 1 .. n : k - 1 \in 0 .. n /\ k # 0 /\ k \in 0 .. n
      /\ \A k \in 0 .. n : k = 0 \/ k \in 1 .. n
      /\ 0 \in 0 .. n
  BY <1>1
<1>9. g \in [0 .. n -> D] /\ g[0] = <<>> /\ \A k \in 1 .. n : g[k - 1] \in D
  BY <1>7, <1>8 DEF Solves
<1>10. \A k \in 1 .. n : g[k] = With(g[k - 1], k)
  BY <1>7, <1>9 DEF Solves
<1> HIDE DEF G
<1>11. g = G(g)
  BY <1>3, <1>8, <1>9, <1>10
<1>12. upTo = G(upTo)
  BY <1>11 DEF upTo
<1>13. upTo[0] = <<>> /\ \A k \in 1 .. n : upTo[k] = With(upTo[k - 1], k)
  BY <1>3, <1>8, <1>12
<1>14. \A k \in 0 .. n : upTo[k] = g[k]
  <2>1. \A k \in 1 .. n : upTo[k - 1] \in D => upTo[k] = step[<<k, upTo[k - 1]>>]
    BY <1>13
  <2> HIDE DEF step
  <2>2. QED
    BY <1>1, <1>7, <1>13, <2>1, SolvesOnce
<1> DEFINE S == {k \in Nat : k <= n => IsKept(upTo[k], evs, t, k)}
<1>15. 0 \in S
  <2>1. Rank(evs, t, 0) = 0 /\ <<>> \in Seq(Nat) /\ Len(<<>>) = 0
    BY RankSteps, EmptySeq
  <2>2. IsKept(<<>>, evs, t, 0)
    BY <2>1 DEF IsKept
  <2>3. QED
    BY <1>13, <2>2
<1>16. ASSUME NEW k \in S PROVE k + 1 \in S
  <2> SUFFICES ASSUME k + 1 <= n PROVE IsKept(upTo[k + 1], evs, t, k + 1)
    OBVIOUS
  <2>1. k \in Nat /\ k + 1 \in 1 .. n /\ (k + 1) - 1 = k /\ IsKept(upTo[k], evs, t, k)
    BY <1>1
  <2>2. upTo[k + 1] = With(upTo[k], k + 1)
    BY <1>13, <2>1
  <2>3. IsKept(With(upTo[k], k + 1), evs, t, k + 1)
    BY <2>1, KeepNext DEF With
  <2>4. QED
    BY <2>2, <2>3
<1> HIDE DEF S
<1>17. S = Nat
  <2>1. S \subseteq Nat
    BY DEF S
  <2>2. QED
    BY <1>15, <1>16, <2>1, NatInd
<1>18. IsKept(upTo[n], evs, t, n)
  <2>1. n \in S /\ n <= n
    BY <1>1, <1>17
  <2>2. QED
    BY <2>1 DEF S
<1>19. QED
  BY <1>2, <1>18 DEF n
-----------------------------------------------------------------------------
(***************************************************************************)
(* The payload of one task.                                                *)
(***************************************************************************)
IsServed(d, U) ==
    /\ IsPayload(d, U)
    /\ d = [snaps |-> d.snaps, events |-> d.events, openedAt |-> d.openedAt]
    /\ \A w \in 1 .. Len(d.snaps) :
          d.snaps[w] = [count |-> d.snaps[w].count, files |-> d.snaps[w].files,
                        open |-> d.snaps[w].open]

\* The window of a session holds as many of the task's events as it keeps.
LEMMA WindowRank ==
    ASSUME NEW d, NEW U, IsPayload(d, U), NEW w \in 1 .. Len(d.snaps), NEW t,
           NEW k \in 0 .. d.snaps[w].count
    PROVE  Rank(d.events, t, EventsUpTo(d, w - 1) + k)
             = Rank(d.events, t, EventsUpTo(d, w - 1)) + Rank(EventsOf(d, w), t, k)
<1> DEFINE c == EventsUpTo(d, w - 1)
           evs == EventsOf(d, w)
           m == d.snaps[w].count
           R(i) == Rank(d.events, t, i)
           r(i) == Rank(evs, t, i)
<1>1. c \in Nat /\ m \in Nat /\ \A i \in 1 .. m : evs[i] = d.events[c + i]
  BY WindowEvents
<1>2. /\ r(0) = 0
      /\ \A i \in Nat : R(i) \in Nat /\ r(i) \in Nat
      /\ \A i \in Nat \ {0} : R(i) = R(i - 1) + (IF d.events[i].task = t THEN 1 ELSE 0)
      /\ \A i \in Nat \ {0} : r(i) = r(i - 1) + (IF evs[i].task = t THEN 1 ELSE 0)
  <2> HIDE DEF evs
  <2>1. QED
    BY RankSteps
<1>3. k \in Nat /\ k <= m
  BY <1>1
<1> HIDE DEF c, evs, m, R, r
<1> DEFINE S == {i \in Nat : i <= m => R(c + i) = R(c) + r(i)}
<1>4. 0 \in S
  <2>1. c + 0 = c
    BY <1>1
  <2>2. R(c) \in Nat
    BY <1>1, <1>2
  <2>3. QED
    BY <1>2, <2>1, <2>2
<1>5. ASSUME NEW i \in S PROVE i + 1 \in S
  <2> SUFFICES ASSUME i + 1 <= m PROVE R(c + (i + 1)) = R(c) + r(i + 1)
    OBVIOUS
  <2>1. /\ i \in Nat /\ i + 1 \in 1 .. m /\ i + 1 \in Nat \ {0} /\ (i + 1) - 1 = i
        /\ c + (i + 1) \in Nat \ {0} /\ (c + (i + 1)) - 1 = c + i /\ c + i \in Nat
        /\ R(c + i) = R(c) + r(i)
    BY <1>1
  <2>2. evs[i + 1] = d.events[c + (i + 1)]
    BY <1>1, <2>1
  <2> DEFINE one == IF evs[i + 1].task = t THEN 1 ELSE 0
  <2>3. /\ R(c + (i + 1)) = R(c + i) + one /\ r(i + 1) = r(i) + one
        /\ R(c) \in Nat /\ r(i) \in Nat /\ one \in Nat
    BY <1>1, <1>2, <2>1, <2>2
  <2> HIDE DEF one
  <2>4. QED
    BY <2>1, <2>3
<1> HIDE DEF S
<1>6. S = Nat
  <2>1. S \subseteq Nat
    BY DEF S
  <2>2. QED
    BY <1>4, <1>5, <2>1, NatInd
<1>7. R(c + k) = R(c) + r(k)
  BY <1>3, <1>6 DEF S
<1>8. QED
  BY <1>7 DEF R, r, c, evs

LEMMA MaxOfTwo ==
    ASSUME NEW a \in Nat, NEW b \in Nat
    PROVE  Max({a, b}) - a \in Nat
<1> DEFINE m == IF a <= b THEN b ELSE a
<1>1. m \in {a, b} /\ \A y \in {a, b} : m >= y
  OBVIOUS
<1>2. \A x \in {a, b} : (\A y \in {a, b} : x >= y) => x = m
  OBVIOUS
<1> HIDE DEF m
<1>3. Max({a, b}) = m
  BY <1>1, <1>2 DEF Max
<1>4. m - a \in Nat
  BY DEF m
<1>5. QED
  BY <1>3, <1>4

\* The events kept are the task's, in order, but for the pause before them.
Alike(e, ev) == e.task = ev.task /\ e.file = ev.file /\ e.changes = ev.changes

LEMMA EventsKept ==
    ASSUME NEW d, d.events \in Seq(Event), NEW t
    PROVE  LET kept == KeptEvents(d, t)
               size == Rank(d.events, t, Len(d.events))
           IN  /\ kept \in Seq(Event) /\ Len(kept) = size
               /\ \A x \in 1 .. size : kept[x].task = t
               /\ \A x \in 1 .. size : \E i \in 1 .. Len(d.events) : Alike(kept[x], d.events[i])
               /\ \A i \in 1 .. Len(d.events) :
                     d.events[i].task = t => Alike(kept[Rank(d.events, t, i)], d.events[i])
<1> DEFINE E == d.events
           L == Len(E)
           R(i) == Rank(E, t, i)
           K == KeptIn(E, t)
           Since(y) == IF y = 1 \/ K[y] = K[y - 1] + 1
                         THEN E[K[y]].since
                         ELSE Max({E[K[y - 1]].at, E[K[y]].at}) - E[K[y - 1]].at
           At_(y) == [E[K[y]] EXCEPT !.since = Since(y)]
           kept == KeptEvents(d, t)
<1>1. L \in Nat /\ \A i \in 1 .. L : E[i] \in Event
  BY LenProperties, ElementOfSeq
<1>2. IsKept(K, E, t, L)
  BY KeptPositions
<1>3. /\ K \in Seq(Nat) /\ Len(K) = R(L) /\ R(L) \in Nat
      /\ \A x \in 1 .. R(L) : K[x] \in 1 .. L /\ E[K[x]].task = t
      /\ \A i \in 1 .. L : E[i].task = t => K[R(i)] = i
  <2>1. K \in Seq(Nat) /\ Len(K) = R(L)
    BY <1>2 DEF IsKept
  <2>2. R(L) \in Nat
    BY <2>1, LenProperties
  <2>3. QED
    BY <1>2, <2>1, <2>2 DEF IsKept
<1>4. kept = [x \in DOMAIN K |-> At_(x)]
  BY DEF KeptEvents
<1>5. DOMAIN K = 1 .. R(L)
  BY <1>3, LenProperties
<1>6. \A i \in 1 .. L : E[i].task = t => R(i) \in 1 .. R(L)
  <2> TAKE i \in 1 .. L
  <2> SUFFICES ASSUME E[i].task = t PROVE R(i) \in 1 .. R(L)
    OBVIOUS
  <2>1. i \in Nat /\ 0 \in Nat /\ 0 < i /\ i <= L
    BY <1>1
  <2>2. R(i) \in Nat /\ R(0) = 0 /\ R(0) < R(i) /\ R(i) <= R(L)
    BY <1>1, <2>1, RankSteps
  <2> HIDE DEF R
  <2>3. QED
    BY <1>3, <2>2
<1> HIDE DEF K, R, L, E
<1>7. \A x \in 1 .. R(L) : Since(x) \in Nat
  <2> TAKE x \in 1 .. R(L)
  <2>1. E[K[x]] \in Event
    BY <1>1, <1>3
  <2>2. CASE x = 1 \/ K[x] = K[x - 1] + 1
    BY <2>1, <2>2 DEF Event
  <2>3. CASE ~(x = 1 \/ K[x] = K[x - 1] + 1)
    <3>1. x - 1 \in 1 .. R(L)
      BY <1>3, <2>3
    <3>2. E[K[x - 1]] \in Event
      BY <1>1, <1>3, <3>1
    <3> DEFINE a == E[K[x - 1]].at
               b == E[K[x]].at
    <3>3. a \in Nat /\ b \in Nat
      BY <2>1, <3>2 DEF Event
    <3>4. Since(x) = Max({a, b}) - a
      BY <2>3
    <3> HIDE DEF a, b, Since
    <3>5. QED
      BY <3>3, <3>4, MaxOfTwo
  <2>4. QED
    BY <2>2, <2>3
<1> HIDE DEF Since
<1>8. \A x \in 1 .. R(L) : At_(x) \in Event /\ Alike(At_(x), E[K[x]])
  <2> TAKE x \in 1 .. R(L)
  <2>1. E[K[x]] \in Event /\ Since(x) \in Nat
    BY <1>1, <1>3, <1>7
  <2>2. QED
    BY <2>1 DEF Event, Alike
<1> HIDE DEF At_, kept
<1>9. kept \in Seq(Event) /\ Len(kept) = R(L) /\ \A x \in 1 .. R(L) : kept[x] = At_(x)
  <2>1. kept \in [1 .. R(L) -> Event]
    BY <1>4, <1>5, <1>8
  <2>2. kept \in Seq(Event)
    BY <1>3, <2>1, SeqDef
  <2>3. DOMAIN kept = 1 .. Len(kept) /\ Len(kept) \in Nat /\ DOMAIN kept = 1 .. R(L)
    BY <2>1, <2>2, LenProperties
  <2>4. Len(kept) = R(L)
    BY <1>3, <2>3
  <2>5. QED
    BY <1>4, <1>5, <2>2, <2>4
<1>10. \A x \in 1 .. R(L) : kept[x].task = t /\ Alike(kept[x], E[K[x]]) /\ K[x] \in 1 .. L
  BY <1>3, <1>8, <1>9 DEF Alike
<1>11. \A i \in 1 .. L : E[i].task = t => Alike(kept[R(i)], E[i])
  <2> TAKE i \in 1 .. L
  <2> SUFFICES ASSUME E[i].task = t PROVE Alike(kept[R(i)], E[i])
    OBVIOUS
  <2>1. R(i) \in 1 .. R(L) /\ K[R(i)] = i
    BY <1>3, <1>6
  <2>2. QED
    BY <1>10, <2>1
<1>12. QED
  BY <1>9, <1>10, <1>11 DEF kept, R, L, E

LEMMA Narrowed ==
    ASSUME NEW d, NEW U, IsServed(d, U), NEW t \in U
    PROVE  LET n == ReplayDataForTask(d, t)
           IN  /\ IsPayload(n, {t}) /\ Len(n.snaps) = Len(d.snaps)
               /\ n.events = KeptEvents(d, t)
               /\ \A w \in 1 .. Len(d.snaps) :
                     /\ n.snaps[w].files[t] = d.snaps[w].files[t]
                     /\ n.snaps[w].open = d.snaps[w].open
               /\ \A w \in 0 .. Len(d.snaps) :
                     EventsUpTo(n, w) = Rank(d.events, t, EventsUpTo(d, w))
<1> DEFINE n == ReplayDataForTask(d, t)
           N == Len(d.snaps)
           C(w) == EventsUpTo(d, w)
           R(i) == Rank(d.events, t, i)
           K(w) == Rank(EventsOf(d, w), t, d.snaps[w].count)
           Narrow(w) == [count |-> K(w), files |-> [u \in {t} |-> d.snaps[w].files[t]],
                         open |-> d.snaps[w].open]
<1>1. /\ IsPayload(d, U) /\ N \in Nat \ {0} /\ DOMAIN d.snaps = 1 .. N /\ U \subseteq Task
      /\ \A w \in 1 .. N : IsSnap(d.snaps[w], U)
      /\ d.events \in Seq(Event) /\ C(N) = Len(d.events)
  BY DEF IsServed, IsPayload
<1>2. n.snaps = [w \in 1 .. N |-> NarrowWindow(d, t, w)] /\ n.events = KeptEvents(d, t)
  <2>1. d = [snaps |-> d.snaps, events |-> d.events, openedAt |-> d.openedAt]
    BY DEF IsServed
  <2> DEFINE s == [w \in DOMAIN d.snaps |-> NarrowWindow(d, t, w)]
             e == KeptEvents(d, t)
  <2>2. n = [d EXCEPT !.snaps = s, !.events = e]
    BY DEF ReplayDataForTask
  <2> HIDE DEF n, s, e
  <2>3. n = [snaps |-> s, events |-> e, openedAt |-> d.openedAt]
    BY <2>1, <2>2
  <2>4. n.snaps = s /\ n.events = e
    BY <2>3
  <2>5. QED
    BY <1>1, <2>4 DEF s, e
<1>3. \A w \in 1 .. N : NarrowWindow(d, t, w) = Narrow(w) /\ K(w) \in Nat
  <2> TAKE w \in 1 .. N
  <2> DEFINE evs == EventsOf(d, w)
             snap == d.snaps[w]
             k == Len(KeptIn(evs, t))
             f == snap.files
  <2>1. evs \in Seq(Event) /\ Len(evs) = snap.count /\ snap.count \in Nat
    BY <1>1, WindowEvents
  <2>2. k = K(w)
    <3> HIDE DEF evs
    <3>1. IsKept(KeptIn(evs, t), evs, t, Len(evs))
      BY <2>1, KeptPositions
    <3>2. QED
      BY <2>1, <3>1 DEF IsKept, evs
  <2>3. K(w) \in Nat
    <3> HIDE DEF evs
    <3>1. Rank(evs, t, snap.count) \in Nat
      BY <2>1, RankSteps
    <3>2. QED
      BY <3>1 DEF evs
  <2>4. t \in DOMAIN f
    BY <1>1 DEF IsSnap, Workspace
  <2>5. snap = [count |-> snap.count, files |-> f, open |-> snap.open]
    BY DEF IsServed
  <2>6. NarrowWindow(d, t, w) = [snap EXCEPT !.count = k, !.files = [u \in {t} |-> f[u]]]
    BY <2>4 DEF NarrowWindow
  <2>7. [u \in {t} |-> f[u]] = [u \in {t} |-> f[t]]
    OBVIOUS
  <2> HIDE DEF snap, k, f, K
  <2>8. NarrowWindow(d, t, w) = [count |-> K(w), files |-> [u \in {t} |-> f[t]], open |-> snap.open]
    BY <2>2, <2>5, <2>6, <2>7
  <2>9. QED
    BY <2>3, <2>8 DEF snap, f
<1>4. n.snaps = [w \in 1 .. N |-> Narrow(w)]
  BY <1>2, <1>3
<1>5. Len(n.snaps) = N /\ DOMAIN n.snaps = 1 .. N
  <2> DEFINE all == n.snaps
             X == {Narrow(w) : w \in 1 .. N}
  <2> HIDE DEF N, Narrow
  <2>1. all \in Seq(X)
    <3>1. all \in [1 .. N -> X] /\ N \in Nat
      BY <1>1, <1>4
    <3> HIDE DEF all, X
    <3>2. QED
      BY <3>1, SeqDef
  <2>2. DOMAIN n.snaps = 1 .. Len(n.snaps) /\ Len(n.snaps) \in Nat /\ DOMAIN n.snaps = 1 .. N
    BY <1>4, <2>1, LenProperties
  <2>3. QED
    BY <1>1, <2>2
<1>6. \A w \in 1 .. N : /\ n.snaps[w].count = K(w) /\ K(w) \in Nat
                        /\ n.snaps[w].files = [u \in {t} |-> d.snaps[w].files[t]]
                        /\ n.snaps[w].open = d.snaps[w].open
  <2> TAKE w \in 1 .. N
  <2>1. n.snaps[w] = Narrow(w)
    BY <1>4
  <2> HIDE DEF n, K
  <2>2. QED
    BY <1>3, <2>1
<1>7. \A w \in 1 .. N : IsSnap(n.snaps[w], {t}) /\ n.snaps[w].files[t] = d.snaps[w].files[t]
  <2> TAKE w \in 1 .. N
  <2>1. d.snaps[w].files[t] \in UNION {[M -> Text] : M \in SUBSET File} /\ d.snaps[w].open \in BOOLEAN
    BY <1>1 DEF IsSnap, Workspace
  <2> HIDE DEF n, K
  <2>2. n.snaps[w].files \in Workspace({t})
    BY <1>6, <2>1 DEF Workspace
  <2>3. QED
    BY <1>6, <2>1, <2>2 DEF IsSnap
<1>8. /\ C(0) = 0 /\ (\A w \in 0 .. N : C(w) \in Nat)
      /\ \A w \in 1 .. N : C(w) = C(w - 1) + d.snaps[w].count /\ d.snaps[w].count \in Nat
  <2>1. \A w \in 1 .. N : d.snaps[w].count \in Nat
    BY <1>1 DEF IsSnap
  <2>2. QED
    BY <1>1, <2>1, Cuts
<1>9. \A w \in 1 .. N : R(C(w)) = R(C(w - 1)) + K(w)
  <2> TAKE w \in 1 .. N
  <2> DEFINE k == d.snaps[w].count
  <2>1. k \in 0 .. k /\ C(w) = C(w - 1) + k
    BY <1>8
  <2>2. R(C(w - 1) + k) = R(C(w - 1)) + Rank(EventsOf(d, w), t, k)
    BY <1>1, <2>1, WindowRank
  <2>3. QED
    BY <2>1, <2>2
<1>10. /\ EventsUpTo(n, 0) = 0
       /\ \A w \in 1 .. N : EventsUpTo(n, w) = EventsUpTo(n, w - 1) + K(w)
  <2>1. \A w \in 1 .. Len(n.snaps) : n.snaps[w].count \in Nat
    BY <1>5, <1>6
  <2>2. Len(n.snaps) \in Nat
    BY <1>1, <1>5
  <2> HIDE DEF n, K
  <2>3. /\ EventsUpTo(n, 0) = 0
        /\ \A w \in 1 .. Len(n.snaps) : EventsUpTo(n, w) = EventsUpTo(n, w - 1) + n.snaps[w].count
    BY <2>1, <2>2, Cuts
  <2>4. QED
    BY <1>5, <1>6, <2>3
<1>11. R(0) = 0
  BY RankSteps
<1> HIDE DEF n, N, K
<1> DEFINE S == {w \in Nat : w <= N => EventsUpTo(n, w) = R(C(w))}
<1>12. 0 \in S
  BY <1>8, <1>10, <1>11
<1>13. ASSUME NEW w \in S PROVE w + 1 \in S
  <2> SUFFICES ASSUME w + 1 <= N PROVE EventsUpTo(n, w + 1) = R(C(w + 1))
    OBVIOUS
  <2>1. w + 1 \in 1 .. N /\ (w + 1) - 1 = w /\ EventsUpTo(n, w) = R(C(w))
    BY <1>1
  <2> HIDE DEF C, R
  <2>2. QED
    BY <1>9, <1>10, <2>1
<1> HIDE DEF S
<1>14. S = Nat
  <2>1. S \subseteq Nat
    BY DEF S
  <2>2. QED
    BY <1>12, <1>13, <2>1, NatInd
<1>15. \A w \in 0 .. N : EventsUpTo(n, w) = R(C(w))
  <2>1. \A w \in 0 .. N : w \in S /\ w <= N
    BY <1>1, <1>14
  <2>2. QED
    BY <2>1 DEF S
<1>16. /\ n.events \in Seq(Event) /\ Len(n.events) = R(Len(d.events))
       /\ \A x \in 1 .. R(Len(d.events)) : n.events[x].task = t
  BY <1>1, <1>2, EventsKept
<1>17. IsPayload(n, {t})
  <2>1. EventsUpTo(n, N) = Len(n.events)
    <3>1. N \in 0 .. N
      BY <1>1
    <3>2. QED
      BY <1>1, <1>15, <1>16, <3>1
  <2>2. {t} \subseteq Task /\ IsFiniteSet({t})
    BY <1>1, FS_Singleton
  <2>3. \A i \in 1 .. Len(n.events) : n.events[i].task \in {t}
    BY <1>16
  <2>4. QED
    BY <1>1, <1>5, <1>7, <1>16, <2>1, <2>2, <2>3 DEF IsPayload
<1>18. QED
  BY <1>2, <1>5, <1>6, <1>7, <1>15, <1>17 DEF n, N
-----------------------------------------------------------------------------
(***************************************************************************)
(* The replay of the task beside the replay of the session: the task's     *)
(* files show the same texts.                                              *)
(***************************************************************************)
Beside(d, t, curn, cur) ==
    LET n == ReplayDataForTask(d, t)
    IN  /\ curn \in [FilesSeen(n) -> Text] /\ cur \in [FilesSeen(d) -> Text]
        /\ \A f : Qualify(t, f, IsMultiTask(n)) \in FilesSeen(n) =>
              /\ Qualify(t, f, IsMultiTask(d)) \in FilesSeen(d)
              /\ curn[Qualify(t, f, IsMultiTask(n))] = cur[Qualify(t, f, IsMultiTask(d))]

\* Every file of the task's replay is one of the session's.
LEMMA SeenBeside ==
    ASSUME NEW d, NEW U, IsServed(d, U), NEW t \in U
    PROVE  LET n == ReplayDataForTask(d, t)
           IN  \A f : Qualify(t, f, IsMultiTask(n)) \in FilesSeen(n) =>
                          Qualify(t, f, IsMultiTask(d)) \in FilesSeen(d)
<1> DEFINE n == ReplayDataForTask(d, t)
           multin == IsMultiTask(n)
           multi == IsMultiTask(d)
<1>1. /\ IsPayload(n, {t}) /\ Len(n.snaps) = Len(d.snaps) /\ n.events = KeptEvents(d, t)
      /\ \A w \in 1 .. Len(d.snaps) : n.snaps[w].files[t] = d.snaps[w].files[t]
  <2>1. IsPayload(n, {t}) /\ Len(n.snaps) = Len(d.snaps) /\ n.events = KeptEvents(d, t)
    BY Narrowed
  <2>2. \A w \in 1 .. Len(d.snaps) : /\ n.snaps[w].files[t] = d.snaps[w].files[t]
                                      /\ n.snaps[w].open = d.snaps[w].open
    BY Narrowed
  <2>3. QED
    BY <2>1, <2>2
<1>2. IsPayload(d, U) /\ d.events \in Seq(Event)
  BY DEF IsServed, IsPayload
<1>3. /\ \A x \in 1 .. Len(n.events) : n.events[x].task = t
      /\ \A x \in 1 .. Len(n.events) : \E i \in 1 .. Len(d.events) : Alike(n.events[x], d.events[i])
  BY <1>1, <1>2, EventsKept
<1>4. multin = (Cardinality({t}) > 1) /\ IsFiniteSet({t}) /\ t \in {t}
  BY <1>1, PayloadTasks, FS_Singleton
<1>5. /\ \A i \in 1 .. Len(d.events) : FileOf(d.events[i], multi) \in FilesSeen(d)
      /\ \A w \in 1 .. Len(d.snaps) : \A m \in DOMAIN d.snaps[w].files[t] :
            Qualify(t, m, multi) \in FilesSeen(d)
  BY <1>2, SeenFiles
<1>6. /\ DOMAIN n.events = 1 .. Len(n.events)
      /\ DOMAIN n.snaps = 1 .. Len(n.snaps)
      /\ \A w \in 1 .. Len(n.snaps) : IsSnap(n.snaps[w], {t})
  BY <1>1, LenProperties DEF IsPayload
<1>7. FilesSeen(n) = {FileOf(n.events[x], multin) : x \in DOMAIN n.events}
                       \cup UNION {DOMAIN SnapshotFiles(n.snaps[w], multin) : w \in DOMAIN n.snaps}
  BY DEF FilesSeen
<1> HIDE DEF n, multin, multi
<1>8. \A u, f, v, g : u \in {t} /\ v \in {t} /\ Qualify(u, f, multin) = Qualify(v, g, multin) => f = g
  BY <1>4, QualifyOnce
<1>9. \A w \in 1 .. Len(n.snaps) : \A key : key \in DOMAIN SnapshotFiles(n.snaps[w], multin) <=>
         \E u \in {t} : \E m \in DOMAIN n.snaps[w].files[u] : key = Qualify(u, m, multin)
  <2> TAKE w \in 1 .. Len(n.snaps)
  <2> DEFINE snap == n.snaps[w]
             one == {t}
  <2>1. IsSnap(snap, one) /\ IsFiniteSet(one) /\ multin = (Cardinality(one) > 1)
    BY <1>4, <1>6
  <2> HIDE DEF snap, one
  <2>2. \A key : key \in DOMAIN SnapshotFiles(snap, multin) <=>
           \E u \in one : \E m \in DOMAIN snap.files[u] : key = Qualify(u, m, multin)
    BY <2>1, SnapshotRecords
  <2>3. QED
    BY <2>2 DEF snap, one
<1>10. ASSUME NEW f, Qualify(t, f, multin) \in FilesSeen(n)
       PROVE  Qualify(t, f, multi) \in FilesSeen(d)
  <2> DEFINE key == Qualify(t, f, multin)
  <2>1. CASE key \in {FileOf(n.events[x], multin) : x \in DOMAIN n.events}
    <3>1. PICK x \in 1 .. Len(n.events) : key = FileOf(n.events[x], multin)
      BY <1>6, <2>1
    <3>2. PICK i \in 1 .. Len(d.events) : Alike(n.events[x], d.events[i])
      BY <1>3
    <3>3. key = Qualify(t, n.events[x].file, multin)
      BY <1>3, <3>1 DEF FileOf
    <3>4. f = n.events[x].file
      BY <1>8, <3>3
    <3>5. FileOf(d.events[i], multi) = Qualify(t, f, multi)
      BY <1>3, <3>2, <3>4 DEF FileOf, Alike
    <3>6. QED
      BY <1>5, <3>5
  <2>2. CASE key \in UNION {DOMAIN SnapshotFiles(n.snaps[w], multin) : w \in DOMAIN n.snaps}
    <3>1. PICK w \in 1 .. Len(n.snaps) : key \in DOMAIN SnapshotFiles(n.snaps[w], multin)
      BY <1>6, <2>2
    <3>2. PICK m \in DOMAIN n.snaps[w].files[t] : key = Qualify(t, m, multin)
      BY <1>9, <3>1
    <3>3. f = m
      BY <1>8, <3>2
    <3>4. w \in 1 .. Len(d.snaps) /\ f \in DOMAIN d.snaps[w].files[t]
      BY <1>1, <3>2, <3>3
    <3>5. QED
      BY <1>5, <3>4
  <2>3. QED
    BY <1>7, <1>10, <2>1, <2>2
<1>11. QED
  BY <1>10 DEF n, multin, multi

\* An event of the task does the same to both.
LEMMA StepBeside ==
    ASSUME NEW d, NEW U, IsServed(d, U), NEW t \in U, NEW curn, NEW cur, Beside(d, t, curn, cur),
           NEW en \in Event, NEW ev \in Event, Alike(en, ev), ev.task = t,
           FileOf(en, IsMultiTask(ReplayDataForTask(d, t))) \in FilesSeen(ReplayDataForTask(d, t)),
           FileOf(ev, IsMultiTask(d)) \in FilesSeen(d)
    PROVE  Beside(d, t, OneStep(curn, FileOf(en, IsMultiTask(ReplayDataForTask(d, t))), en),
                        OneStep(cur, FileOf(ev, IsMultiTask(d)), ev))
<1> DEFINE n == ReplayDataForTask(d, t)
           Fn == FilesSeen(n)
           F == FilesSeen(d)
           multin == IsMultiTask(n)
           multi == IsMultiTask(d)
           a == FileOf(en, multin)
           b == FileOf(ev, multi)
           thenn == OneStep(curn, a, en)
           then == OneStep(cur, b, ev)
<1>1. /\ curn \in [Fn -> Text] /\ cur \in [F -> Text]
      /\ \A f : Qualify(t, f, multin) \in Fn =>
            Qualify(t, f, multi) \in F /\ curn[Qualify(t, f, multin)] = cur[Qualify(t, f, multi)]
  BY DEF Beside
<1>2. IsPayload(n, {t}) /\ IsPayload(d, U)
  BY Narrowed DEF IsServed
<1>3. /\ multin = (Cardinality({t}) > 1) /\ IsFiniteSet({t}) /\ t \in {t}
      /\ multi = (Cardinality(U) > 1) /\ IsFiniteSet(U)
  BY <1>2, PayloadTasks, FS_Singleton DEF IsPayload
<1>4. a = Qualify(t, ev.file, multin) /\ b = Qualify(t, ev.file, multi) /\ en.changes = ev.changes
  BY DEF FileOf, Alike
<1>5. a \in Fn /\ b \in F
  OBVIOUS
<1> HIDE DEF n, Fn, F, multin, multi, a, b
<1>6. /\ thenn \in [Fn -> Text] /\ then \in [F -> Text]
      /\ \A e \in Fn : thenn[e] = IF e = a THEN ApplyChanges(curn[a], en.changes) ELSE curn[e]
      /\ \A e \in F : then[e] = IF e = b THEN ApplyChanges(cur[b], ev.changes) ELSE cur[e]
  BY <1>1, <1>5, OneStepType
<1> HIDE DEF thenn, then
<1>7. \A f : (Qualify(t, f, multin) = a => f = ev.file) /\ (Qualify(t, f, multi) = b => f = ev.file)
  BY <1>3, <1>4, QualifyOnce
<1>8. ASSUME NEW f, Qualify(t, f, multin) \in Fn
      PROVE  Qualify(t, f, multi) \in F /\ thenn[Qualify(t, f, multin)] = then[Qualify(t, f, multi)]
  <2>1. Qualify(t, f, multi) \in F /\ curn[Qualify(t, f, multin)] = cur[Qualify(t, f, multi)]
    BY <1>1, <1>8
  <2>2. CASE f = ev.file
    BY <1>4, <1>5, <1>6, <2>1, <2>2
  <2>3. CASE f # ev.file
    <3>1. Qualify(t, f, multin) # a /\ Qualify(t, f, multi) # b
      BY <1>7, <2>3
    <3>2. QED
      BY <1>6, <1>8, <2>1, <3>1
  <2>4. QED
    BY <2>2, <2>3
<1>9. Beside(d, t, thenn, then)
  BY <1>6, <1>8 DEF Beside, n, Fn, F, multin, multi
<1>10. QED
  BY <1>9 DEF thenn, then, a, b, n, multin, multi

\* An event of another task leaves the task's files alone.
LEMMA OthersBeside ==
    ASSUME NEW d, NEW U, IsServed(d, U), NEW t \in U, NEW curn, NEW cur, Beside(d, t, curn, cur),
           NEW ev \in Event, ev.task \in U, ev.task # t, FileOf(ev, IsMultiTask(d)) \in FilesSeen(d)
    PROVE  Beside(d, t, curn, OneStep(cur, FileOf(ev, IsMultiTask(d)), ev))
<1> DEFINE n == ReplayDataForTask(d, t)
           Fn == FilesSeen(n)
           F == FilesSeen(d)
           multin == IsMultiTask(n)
           multi == IsMultiTask(d)
           b == FileOf(ev, multi)
           then == OneStep(cur, b, ev)
<1>1. /\ curn \in [Fn -> Text] /\ cur \in [F -> Text]
      /\ \A f : Qualify(t, f, multin) \in Fn =>
            Qualify(t, f, multi) \in F /\ curn[Qualify(t, f, multin)] = cur[Qualify(t, f, multi)]
  BY DEF Beside
<1>2. multi = (Cardinality(U) > 1) /\ IsFiniteSet(U)
  BY PayloadTasks DEF IsServed, IsPayload
<1>3. b = Qualify(ev.task, ev.file, multi) /\ b \in F
  BY DEF FileOf
<1> HIDE DEF n, Fn, F, multin, multi, b
<1>4. /\ then \in [F -> Text]
      /\ \A e \in F : then[e] = IF e = b THEN ApplyChanges(cur[b], ev.changes) ELSE cur[e]
  BY <1>1, <1>3, OneStepType
<1> HIDE DEF then
<1>5. \A f : Qualify(t, f, multi) # b
  BY <1>2, <1>3, QualifyOnce
<1>6. \A f : Qualify(t, f, multin) \in Fn =>
         Qualify(t, f, multi) \in F /\ curn[Qualify(t, f, multin)] = then[Qualify(t, f, multi)]
  BY <1>1, <1>4, <1>5
<1>7. Beside(d, t, curn, then)
  BY <1>1, <1>4, <1>6 DEF Beside, n, Fn, F, multin, multi
<1>8. QED
  BY <1>7 DEF then, b, multi
LEMMA WindowPlays ==
    ASSUME NEW d, NEW U, IsPayload(d, U), NEW w \in 1 .. Len(d.snaps),
           NEW cur \in [FilesSeen(d) -> Text]
    PROVE  \E g \in [0 .. d.snaps[w].count -> [FilesSeen(d) -> Text]] :
              /\ Plays(g, EventsOf(d, w), IsMultiTask(d), cur)
              /\ PlayedFrom(d, cur, w) = g[d.snaps[w].count]
<1> DEFINE F == FilesSeen(d)
           multi == IsMultiTask(d)
           evs == EventsOf(d, w)
<1>1. evs \in Seq(Event) /\ Len(evs) = d.snaps[w].count
  BY WindowEvents
<1>2. \A k \in 1 .. Len(evs) : FileOf(evs[k], multi) \in F
  <2>1. \A k \in 1 .. Len(evs) : \E i \in 1 .. Len(d.events) : evs[k] = d.events[i]
    BY <1>1, WindowEvents
  <2>2. QED
    BY <2>1, SeenFiles
<1> HIDE DEF F, multi, evs
<1>3. \E g \in [0 .. Len(evs) -> [F -> Text]] :
         Plays(g, evs, multi, cur) /\ PlayWindow(d, multi, cur, w) = g[Len(evs)]
  BY <1>1, <1>2, PlaySteps DEF evs, F
<1>4. QED
  BY <1>1, <1>3 DEF PlayedFrom, F, multi, evs

\* The frame of an event is its file in the play of its window up to it.
LEMMA FramePlays ==
    ASSUME NEW d, NEW U, IsPayload(d, U), NEW ends, NEW i \in 1 .. Len(d.events),
           NEW w \in 1 .. Len(d.snaps), EventsUpTo(d, w - 1) < i, i <= EventsUpTo(d, w),
           Before(d, ends, w) \in [FilesSeen(d) -> Text],
           NEW g \in [0 .. d.snaps[w].count -> [FilesSeen(d) -> Text]],
           Plays(g, EventsOf(d, w), IsMultiTask(d), Before(d, ends, w))
    PROVE  /\ i - EventsUpTo(d, w - 1) \in 1 .. d.snaps[w].count
           /\ FrameText(d, ends, i)
                = g[i - EventsUpTo(d, w - 1)][FileOf(d.events[i], IsMultiTask(d))]
<1> DEFINE multi == IsMultiTask(d)
           F == FilesSeen(d)
           ev == d.events[i]
           f == FileOf(ev, multi)
           evs == EventsOf(d, w)
           m == d.snaps[w].count
           c == EventsUpTo(d, w - 1)
           j == i - c
           sub == FrameEvents(d, i)
<1>1. /\ evs \in Seq(Event) /\ m \in Nat /\ c \in Nat /\ EventsUpTo(d, w) = c + m
      /\ c + m <= Len(d.events) /\ Len(evs) = m
      /\ \A k \in 1 .. m : c + k \in 1 .. Len(d.events) /\ evs[k] = d.events[c + k]
  BY WindowEvents
<1>2. d.events \in Seq(Event) /\ Len(d.events) \in Nat
  BY LenProperties DEF IsPayload
<1>3. f \in F /\ i \in Nat
  BY <1>2, SeenFiles
<1>4. WindowOf(d, i) = w
  BY <1>3, WindowIs
<1>5. sub = SubSeq(d.events, c + 1, i)
  BY <1>4 DEF FrameEvents
<1>6. FrameBase(d, ends, i) = Before(d, ends, w)[f]
  <2>1. CASE w = 1
    <3>1. BlankFiles(d)[f] = <<>>
      BY <1>3 DEF BlankFiles
    <3>2. FrameBase(d, ends, i) = <<>> /\ Before(d, ends, w) = BlankFiles(d)
      BY <1>4, <2>1 DEF FrameBase, Before
    <3>3. QED
      BY <3>1, <3>2
  <2>2. CASE w # 1
    <3>1. FrameBase(d, ends, i) = ends[w - 1][f] /\ Before(d, ends, w) = ends[w - 1]
      BY <1>4, <2>2 DEF FrameBase, Before
    <3>2. QED
      BY <3>1
  <2>3. QED
    BY <2>1, <2>2
<1>7. /\ g \in [0 .. m -> [F -> Text]] /\ g[0] = Before(d, ends, w)
      /\ \A k \in 1 .. m : g[k] = OneStep(g[k - 1], FileOf(evs[k], multi), evs[k])
  BY <1>1 DEF Plays
<1>8. c < i /\ i <= c + m
  BY <1>1
<1> HIDE DEF c, m, evs, sub, f, ev, multi, F
<1>9. j \in 1 .. m /\ c + j = i /\ c + 1 \in Nat /\ c + 1 <= i /\ i - (c + 1) + 1 = j
  BY <1>1, <1>3, <1>8
<1>10. sub \in Seq(Event) /\ Len(sub) = j /\ \A k \in 1 .. j : sub[k] = evs[k]
  <2>1. \A k \in c + 1 .. i : d.events[k] \in Event
    <3>1. \A k \in c + 1 .. i : k \in 1 .. Len(d.events)
      BY <1>1, <1>2, <1>3, <1>8
    <3>2. QED
      BY <1>2, <3>1, ElementOfSeq
  <2>2. /\ sub \in Seq(Event)
        /\ Len(sub) = IF c + 1 <= i THEN i - (c + 1) + 1 ELSE 0
        /\ \A k \in 1 .. i - (c + 1) + 1 : sub[k] = d.events[(c + 1) + k - 1]
    BY <1>3, <1>5, <1>9, <2>1, SubSeqProperties
  <2>3. Len(sub) = j
    BY <1>9, <2>2
  <2>4. ASSUME NEW k \in 1 .. j PROVE sub[k] = evs[k]
    <3>1. (c + 1) + k - 1 = c + k /\ k \in 1 .. m /\ k \in 1 .. i - (c + 1) + 1
      BY <1>1, <1>9
    <3>2. sub[k] = d.events[(c + 1) + k - 1] /\ evs[k] = d.events[c + k]
      BY <1>1, <2>2, <3>1
    <3>3. QED
      BY <3>1, <3>2
  <2>5. QED
    BY <2>2, <2>3, <2>4
<1>11. \A k \in 1 .. m : evs[k] \in Event /\ FileOf(evs[k], multi) \in F
  <2>1. \A k \in 1 .. m : evs[k] \in Event
    BY <1>1, ElementOfSeq
  <2>2. \A k \in 1 .. Len(d.events) : FileOf(d.events[k], multi) \in F
    BY SeenFiles DEF multi, F
  <2>3. QED
    BY <1>1, <2>1, <2>2
<1>12. 0 \in 0 .. m /\ g[0] \in [F -> Text] /\ Before(d, ends, w)[f] \in Text
  <2>1. 0 \in 0 .. m
    BY <1>1
  <2>2. QED
    BY <1>3, <1>7, <2>1
<1>13. PICK h \in [0 .. j -> Text] :
          /\ Tracks(h, sub, multi, f, FrameBase(d, ends, i))
          /\ FrameText(d, ends, i) = h[j]
  <2>1. FrameBase(d, ends, i) \in Text /\ sub \in Seq(Event)
    BY <1>6, <1>10, <1>12
  <2>2. \E h \in [0 .. Len(sub) -> Text] :
           /\ Tracks(h, sub, multi, f, FrameBase(d, ends, i))
           /\ FrameText(d, ends, i) = h[Len(sub)]
    BY <2>1, FrameSteps DEF sub, multi, f, ev
  <2>3. QED
    BY <1>10, <2>2
<1>14. /\ h[0] = Before(d, ends, w)[f]
       /\ \A k \in 1 .. j : h[k] = IF FileOf(evs[k], multi) = f
                                     THEN ApplyChanges(h[k - 1], evs[k].changes) ELSE h[k - 1]
  BY <1>6, <1>10, <1>13 DEF Tracks
<1> HIDE DEF j
<1> DEFINE S == {k \in Nat : k <= j => g[k] \in [F -> Text] /\ h[k] = g[k][f]}
<1>15. 0 \in S
  BY <1>7, <1>12, <1>14
<1>16. ASSUME NEW k \in S PROVE k + 1 \in S
  <2> SUFFICES ASSUME k + 1 <= j PROVE g[k + 1] \in [F -> Text] /\ h[k + 1] = g[k + 1][f]
    OBVIOUS
  <2> DEFINE e == evs[k + 1]
  <2>1. /\ k + 1 \in 1 .. j /\ k + 1 \in 1 .. m /\ (k + 1) - 1 = k
        /\ g[k] \in [F -> Text] /\ h[k] = g[k][f]
    BY <1>1, <1>9
  <2>2. /\ e \in Event /\ FileOf(e, multi) \in F
        /\ g[k + 1] = OneStep(g[k], FileOf(e, multi), e)
        /\ h[k + 1] = IF FileOf(e, multi) = f THEN ApplyChanges(h[k], e.changes) ELSE h[k]
    BY <1>7, <1>11, <1>14, <2>1
  <2> HIDE DEF e
  <2>3. /\ OneStep(g[k], FileOf(e, multi), e) \in [F -> Text]
        /\ \A x \in F : OneStep(g[k], FileOf(e, multi), e)[x] =
              IF x = FileOf(e, multi) THEN ApplyChanges(g[k][FileOf(e, multi)], e.changes)
                                      ELSE g[k][x]
    <3> DEFINE cur == g[k]
               x == FileOf(e, multi)
    <3>1. cur \in [F -> Text] /\ x \in F /\ e \in Event
      BY <2>1, <2>2
    <3> HIDE DEF cur, x
    <3>2. /\ OneStep(cur, x, e) \in [F -> Text]
          /\ \A y \in F : OneStep(cur, x, e)[y] =
                IF y = x THEN ApplyChanges(cur[x], e.changes) ELSE cur[y]
      BY <3>1, OneStepType
    <3>3. QED
      BY <3>2 DEF cur, x
  <2>4. QED
    BY <1>3, <2>1, <2>2, <2>3
<1> HIDE DEF S
<1>17. S = Nat
  <2>1. S \subseteq Nat
    BY DEF S
  <2>2. QED
    BY <1>15, <1>16, <2>1, NatInd
<1>18. h[j] = g[j][f]
  <2>1. j \in S /\ j <= j
    BY <1>1, <1>9, <1>17
  <2>2. QED
    BY <2>1 DEF S
<1>19. QED
  BY <1>9, <1>13, <1>18 DEF j, c, m, f, ev, multi
\* Window by window, the task's play is beside the session's.
LEMMA PlayBeside ==
    ASSUME NEW d, NEW U, IsServed(d, U), NEW t \in U, NEW w \in 1 .. Len(d.snaps),
           NEW curn, NEW cur, Beside(d, t, curn, cur),
           NEW p \in [0 .. d.snaps[w].count -> [FilesSeen(d) -> Text]],
           Plays(p, EventsOf(d, w), IsMultiTask(d), cur),
           NEW q, Plays(q, EventsOf(ReplayDataForTask(d, t), w),
                        IsMultiTask(ReplayDataForTask(d, t)), curn)
    PROVE  /\ ReplayDataForTask(d, t).snaps[w].count = Rank(EventsOf(d, w), t, d.snaps[w].count)
           /\ \A k \in 0 .. d.snaps[w].count :
                 Beside(d, t, q[Rank(EventsOf(d, w), t, k)], p[k])
<1> DEFINE n == ReplayDataForTask(d, t)
           multin == IsMultiTask(n)
           multi == IsMultiTask(d)
           evs == EventsOf(d, w)
           evn == EventsOf(n, w)
           m == d.snaps[w].count
           mn == n.snaps[w].count
           c == EventsUpTo(d, w - 1)
           R(i) == Rank(d.events, t, i)
           r(k) == Rank(evs, t, k)
<1>1. /\ IsPayload(d, U) /\ IsPayload(n, {t}) /\ Len(n.snaps) = Len(d.snaps)
      /\ n.events = KeptEvents(d, t) /\ d.events \in Seq(Event)
  <2>1. IsPayload(n, {t}) /\ Len(n.snaps) = Len(d.snaps) /\ n.events = KeptEvents(d, t)
    BY Narrowed
  <2>2. IsPayload(d, U) /\ d.events \in Seq(Event)
    BY DEF IsServed, IsPayload
  <2>3. QED
    BY <2>1, <2>2
<1>2. EventsUpTo(n, w - 1) = R(c) /\ EventsUpTo(n, w) = R(EventsUpTo(d, w))
  <2>1. \A v \in 0 .. Len(d.snaps) : EventsUpTo(n, v) = R(EventsUpTo(d, v))
    BY Narrowed
  <2>2. Len(d.snaps) \in Nat
    BY <1>1 DEF IsPayload
  <2>3. w \in 0 .. Len(d.snaps) /\ w - 1 \in 0 .. Len(d.snaps)
    BY <2>2
  <2>4. QED
    BY <2>1, <2>3
<1>3. /\ evs \in Seq(Event) /\ m \in Nat /\ c \in Nat /\ EventsUpTo(d, w) = c + m
      /\ c + m <= Len(d.events) /\ Len(evs) = m
      /\ \A k \in 1 .. m : c + k \in 1 .. Len(d.events) /\ evs[k] = d.events[c + k]
  BY <1>1, WindowEvents
<1>4. /\ evn \in Seq(Event) /\ mn \in Nat /\ EventsUpTo(n, w) = R(c) + mn /\ Len(evn) = mn
      /\ \A k \in 1 .. mn : R(c) + k \in 1 .. Len(n.events) /\ evn[k] = n.events[R(c) + k]
  <2> DEFINE one == {t}
  <2>1. IsPayload(n, one) /\ w \in 1 .. Len(n.snaps)
    BY <1>1
  <2> HIDE DEF n, one
  <2>2. /\ evn \in Seq(Event) /\ mn \in Nat /\ EventsUpTo(n, w) = EventsUpTo(n, w - 1) + mn
        /\ Len(evn) = mn
        /\ \A k \in 1 .. mn : /\ EventsUpTo(n, w - 1) + k \in 1 .. Len(n.events)
                              /\ evn[k] = n.events[EventsUpTo(n, w - 1) + k]
    BY <2>1, WindowEvents
  <2>3. QED
    BY <1>2, <2>2
<1>5. \A k \in 0 .. m : R(c + k) = R(c) + r(k)
  BY <1>1, WindowRank
<1>6. /\ r(0) = 0
      /\ \A k \in Nat : R(k) \in Nat /\ r(k) \in Nat
      /\ \A k \in Nat \ {0} : r(k) = r(k - 1) + (IF evs[k].task = t THEN 1 ELSE 0)
      /\ \A j, k \in Nat : j <= k => r(j) <= r(k)
  <2> HIDE DEF evs
  <2>1. QED
    BY RankSteps
<1>7. mn = r(m)
  <2>1. m \in 0 .. m /\ R(c) \in Nat /\ r(m) \in Nat
    <3>1. m \in 0 .. m
      BY <1>3
    <3>2. R(c) \in Nat
      BY <1>3, <1>6
    <3>3. r(m) \in Nat
      BY <1>3, <1>6
    <3>4. QED
      BY <3>1, <3>2, <3>3
  <2>2. R(c + m) = R(c) + r(m) /\ R(c) + mn = R(c + m) /\ mn \in Nat
    BY <1>2, <1>3, <1>4, <1>5, <2>1
  <2> HIDE DEF R, r, c, m, mn
  <2>3. QED
    BY <2>1, <2>2
<1>8. \A i \in 1 .. Len(d.events) : d.events[i].task = t => Alike(n.events[R(i)], d.events[i])
  BY <1>1, EventsKept
<1>9. /\ p \in [0 .. m -> [FilesSeen(d) -> Text]] /\ p[0] = cur
      /\ \A k \in 1 .. m : p[k] = OneStep(p[k - 1], FileOf(evs[k], multi), evs[k])
  BY <1>3 DEF Plays
<1>10. /\ q[0] = curn
       /\ \A k \in 1 .. mn : q[k] = OneStep(q[k - 1], FileOf(evn[k], multin), evn[k])
  BY <1>4 DEF Plays
<1>11. \A k \in 1 .. m : evs[k] \in Event /\ evs[k].task \in U /\ FileOf(evs[k], multi) \in FilesSeen(d)
  <2>1. \A k \in 1 .. m : evs[k] \in Event
    BY <1>3, ElementOfSeq
  <2>2. \A i \in 1 .. Len(d.events) : d.events[i].task \in U /\ FileOf(d.events[i], multi) \in FilesSeen(d)
    BY <1>1, SeenFiles DEF IsPayload
  <2>3. QED
    BY <1>3, <2>1, <2>2
<1>12. \A k \in 1 .. mn : evn[k] \in Event /\ FileOf(evn[k], multin) \in FilesSeen(n)
  <2>1. \A k \in 1 .. mn : evn[k] \in Event
    BY <1>4, ElementOfSeq
  <2> DEFINE one == {t}
  <2>2. IsPayload(n, one)
    BY <1>1
  <2> HIDE DEF n, one
  <2>3. \A i \in 1 .. Len(n.events) : FileOf(n.events[i], multin) \in FilesSeen(n)
    BY <2>2, SeenFiles
  <2>4. QED
    BY <1>4, <2>1, <2>3
<1> HIDE DEF n, multin, multi, evs, evn, m, mn, c, R, r
<1> DEFINE S == {k \in Nat : k <= m => Beside(d, t, q[r(k)], p[k])}
<1>13. 0 \in S
  BY <1>6, <1>9, <1>10
<1>14. ASSUME NEW k \in S PROVE k + 1 \in S
  <2> SUFFICES ASSUME k + 1 <= m PROVE Beside(d, t, q[r(k + 1)], p[k + 1])
    OBVIOUS
  <2> DEFINE e == evs[k + 1]
             x == r(k + 1)
             en == evn[x]
  <2>1. /\ k \in Nat /\ k + 1 \in Nat \ {0} /\ k + 1 \in 1 .. m /\ (k + 1) - 1 = k /\ k + 1 \in 0 .. m
        /\ k + 1 <= m /\ Beside(d, t, q[r(k)], p[k])
    BY <1>3
  <2>2. /\ e \in Event /\ e.task \in U /\ FileOf(e, multi) \in FilesSeen(d)
        /\ e = d.events[c + (k + 1)] /\ c + (k + 1) \in 1 .. Len(d.events)
        /\ p[k + 1] = OneStep(p[k], FileOf(e, multi), e)
    BY <1>3, <1>9, <1>11, <2>1
  <2>3. x = r(k) + (IF e.task = t THEN 1 ELSE 0) /\ x \in Nat /\ r(k) \in Nat
    BY <1>6, <2>1
  <2> HIDE DEF e
  <2>4. CASE e.task = t
    <3>1. x \in 1 .. mn /\ x - 1 = r(k)
      <4>1. r(k + 1) <= r(m) /\ r(m) \in Nat
        BY <1>3, <1>6, <2>1
      <4> HIDE DEF r
      <4>2. QED
        BY <1>7, <2>3, <2>4, <4>1
    <3>2. R(c + (k + 1)) = R(c) + x
      BY <1>5, <2>1
    <3> HIDE DEF x
    <3>3. en = n.events[R(c) + x] /\ en \in Event /\ FileOf(en, multin) \in FilesSeen(n)
          /\ q[x] = OneStep(q[r(k)], FileOf(en, multin), en)
      BY <1>4, <1>10, <1>12, <3>1
    <3>4. Alike(en, e)
      BY <1>8, <2>2, <2>4, <3>2, <3>3
    <3> HIDE DEF en
    <3>5. Beside(d, t, OneStep(q[r(k)], FileOf(en, multin), en), OneStep(p[k], FileOf(e, multi), e))
      <4> DEFINE a == q[r(k)]
                 b == p[k]
      <4>1. Beside(d, t, a, b)
        BY <2>1
      <4> HIDE DEF a, b
      <4>2. Beside(d, t, OneStep(a, FileOf(en, multin), en), OneStep(b, FileOf(e, multi), e))
        BY <2>2, <2>4, <3>3, <3>4, <4>1, StepBeside DEF n, multin, multi
      <4>3. QED
        BY <4>2 DEF a, b
    <3>6. QED
      BY <2>2, <3>3, <3>5 DEF x
  <2>5. CASE e.task # t
    <3>1. x = r(k)
      BY <2>3, <2>5
    <3> DEFINE a == q[r(k)]
               b == p[k]
    <3>2. Beside(d, t, a, b)
      BY <2>1
    <3> HIDE DEF a, b
    <3>3. Beside(d, t, a, OneStep(b, FileOf(e, multi), e))
      BY <2>2, <2>5, <3>2, OthersBeside DEF multi
    <3>4. QED
      BY <2>2, <3>1, <3>3 DEF a, b
  <2>6. QED
    BY <2>4, <2>5
<1> HIDE DEF S
<1>15. S = Nat
  <2>1. S \subseteq Nat
    BY DEF S
  <2>2. QED
    BY <1>13, <1>14, <2>1, NatInd
<1>16. \A k \in 0 .. m : Beside(d, t, q[r(k)], p[k])
  <2>1. \A k \in 0 .. m : k \in S /\ k <= m
    BY <1>3, <1>15
  <2>2. QED
    BY <2>1 DEF S
<1>17. QED
  BY <1>7, <1>16 DEF m, mn, r, evs, n

\* A file is healed in the task's replay when it is in the session's, and to
\* the same text.
LEMMA HealBeside ==
    ASSUME NEW d, NEW U, IsServed(d, U), NEW t \in U, NEW w \in 1 .. Len(d.snaps),
           NEW curn \in [FilesSeen(ReplayDataForTask(d, t)) -> Text],
           NEW cur \in [FilesSeen(d) -> Text],
           Beside(d, t, PlayedFrom(ReplayDataForTask(d, t), curn, w), PlayedFrom(d, cur, w))
    PROVE  /\ Beside(d, t, HealedFrom(ReplayDataForTask(d, t), curn, w), HealedFrom(d, cur, w))
           /\ WrongFrom(d, cur, w) = {} => WrongFrom(ReplayDataForTask(d, t), curn, w) = {}
<1> DEFINE n == ReplayDataForTask(d, t)
           one == {t}
           Fn == FilesSeen(n)
           F == FilesSeen(d)
           multin == IsMultiTask(n)
           multi == IsMultiTask(d)
           playn == PlayedFrom(n, curn, w)
           play == PlayedFrom(d, cur, w)
           recn == RecordedAt(n, w)
           rec == RecordedAt(d, w)
           wrongn == WrongFrom(n, curn, w)
           wrong == WrongFrom(d, cur, w)
           files_ == d.snaps[w].files[t]
           A(f) == Qualify(t, f, multin)
           B(f) == Qualify(t, f, multi)
<1>1. IsPayload(d, U) /\ IsPayload(n, one) /\ Len(n.snaps) = Len(d.snaps)
  BY Narrowed DEF IsServed
<1>2. n.snaps[w].files[t] = files_ /\ n.snaps[w].open = d.snaps[w].open
  <2>1. \A v \in 1 .. Len(d.snaps) : /\ n.snaps[v].files[t] = d.snaps[v].files[t]
                                     /\ n.snaps[v].open = d.snaps[v].open
    BY Narrowed
  <2>2. QED
    BY <2>1
<1>3. /\ multin = (Cardinality(one) > 1) /\ IsFiniteSet(one) /\ IsSnap(n.snaps[w], one)
      /\ multi = (Cardinality(U) > 1) /\ IsFiniteSet(U) /\ IsSnap(d.snaps[w], U)
  <2>1. multin = (Cardinality(one) > 1) /\ IsFiniteSet(one)
    BY <1>1, PayloadTasks, FS_Singleton
  <2>2. multi = (Cardinality(U) > 1) /\ IsFiniteSet(U)
    BY <1>1, PayloadTasks DEF IsPayload
  <2>3. IsSnap(n.snaps[w], one) /\ IsSnap(d.snaps[w], U)
    BY <1>1 DEF IsPayload
  <2>4. QED
    BY <2>1, <2>2, <2>3
<1>4. t \in one /\ \A u \in one : u = t
  OBVIOUS
<1> HIDE DEF n, one, multin, multi
<1>5. /\ \A key : key \in DOMAIN recn <=>
             \E u \in one : \E m \in DOMAIN n.snaps[w].files[u] : key = Qualify(u, m, multin)
      /\ \A u \in one : \A m \in DOMAIN n.snaps[w].files[u] :
             recn[Qualify(u, m, multin)] = n.snaps[w].files[u][m]
  <2> DEFINE snap == n.snaps[w]
  <2>1. recn = SnapshotFiles(snap, multin) /\ IsSnap(snap, one)
    BY <1>3 DEF RecordedAt, multin
  <2> HIDE DEF snap, recn
  <2>2. /\ \A key : key \in DOMAIN recn <=>
             \E u \in one : \E m \in DOMAIN snap.files[u] : key = Qualify(u, m, multin)
        /\ \A u \in one : \A m \in DOMAIN snap.files[u] : recn[Qualify(u, m, multin)] = snap.files[u][m]
    BY <1>3, <2>1, SnapshotRecords
  <2>3. QED
    BY <2>2 DEF snap
<1>6. /\ \A key : key \in DOMAIN rec <=>
             \E u \in U : \E m \in DOMAIN d.snaps[w].files[u] : key = Qualify(u, m, multi)
      /\ \A u \in U : \A m \in DOMAIN d.snaps[w].files[u] :
             rec[Qualify(u, m, multi)] = d.snaps[w].files[u][m]
  <2> DEFINE snap == d.snaps[w]
  <2>1. rec = SnapshotFiles(snap, multi) /\ IsSnap(snap, U)
    BY <1>3 DEF RecordedAt, multi
  <2> HIDE DEF snap, rec
  <2>2. /\ \A key : key \in DOMAIN rec <=>
             \E u \in U : \E m \in DOMAIN snap.files[u] : key = Qualify(u, m, multi)
        /\ \A u \in U : \A m \in DOMAIN snap.files[u] : rec[Qualify(u, m, multi)] = snap.files[u][m]
    BY <1>3, <2>1, SnapshotRecords
  <2>3. QED
    BY <2>2 DEF snap
<1>7. /\ playn \in [Fn -> Text] /\ play \in [F -> Text]
      /\ \A f : A(f) \in Fn => B(f) \in F /\ playn[A(f)] = play[B(f)]
  BY DEF Beside, n, multin, multi
<1>8. wrongn \subseteq DOMAIN recn /\ DOMAIN recn \subseteq Fn
      /\ wrong \subseteq DOMAIN rec /\ DOMAIN rec \subseteq F
      /\ HealedFrom(n, curn, w) \in [Fn -> Text] /\ HealedFrom(d, cur, w) \in [F -> Text]
  <2>1. /\ WrongFrom(d, cur, w) \subseteq DOMAIN RecordedAt(d, w)
        /\ DOMAIN RecordedAt(d, w) \subseteq FilesSeen(d)
        /\ HealedFrom(d, cur, w) \in [FilesSeen(d) -> Text]
    BY <1>1, WindowType
  <2>2. /\ WrongFrom(n, curn, w) \subseteq DOMAIN RecordedAt(n, w)
        /\ DOMAIN RecordedAt(n, w) \subseteq FilesSeen(n)
        /\ HealedFrom(n, curn, w) \in [FilesSeen(n) -> Text]
    <3>1. curn \in [FilesSeen(n) -> Text] /\ w \in 1 .. Len(n.snaps)
      BY <1>1 DEF n
    <3>2. QED
      BY <1>1, <3>1, WindowType
  <2>3. QED
    BY <2>1, <2>2
<1>9. /\ wrongn = IF d.snaps[w].open THEN {} ELSE {f \in DOMAIN recn : playn[f] # recn[f]}
      /\ wrong = IF d.snaps[w].open THEN {} ELSE {f \in DOMAIN rec : play[f] # rec[f]}
  BY <1>2 DEF WrongFrom, Differs
<1>10. /\ HealedFrom(n, curn, w) = [f \in DOMAIN playn |-> IF f \in wrongn THEN recn[f] ELSE playn[f]]
       /\ HealedFrom(d, cur, w) = [f \in DOMAIN play |-> IF f \in wrong THEN rec[f] ELSE play[f]]
  BY DEF HealedFrom
<1> DEFINE healn == HealedFrom(n, curn, w)
           heal == HealedFrom(d, cur, w)
<1> HIDE DEF Fn, F, playn, play, recn, rec, wrongn, wrong, files_, healn, heal
<1>11. \A f : (A(f) \in DOMAIN recn <=> f \in DOMAIN files_) /\ (B(f) \in DOMAIN rec <=> f \in DOMAIN files_)
  <2> TAKE f
  <2>1. ASSUME A(f) \in DOMAIN recn PROVE f \in DOMAIN files_
    <3>1. PICK u \in one : \E m \in DOMAIN n.snaps[w].files[u] : A(f) = Qualify(u, m, multin)
      BY <1>5, <2>1
    <3>2. PICK m \in DOMAIN n.snaps[w].files[u] : A(f) = Qualify(u, m, multin)
      BY <3>1
    <3>3. u = t /\ m = f
      BY <1>3, <1>4, <3>2, QualifyOnce
    <3>4. QED
      BY <1>2, <3>2, <3>3
  <2>2. ASSUME B(f) \in DOMAIN rec PROVE f \in DOMAIN files_
    <3>1. PICK u \in U : \E m \in DOMAIN d.snaps[w].files[u] : B(f) = Qualify(u, m, multi)
      BY <1>6, <2>2
    <3>2. PICK m \in DOMAIN d.snaps[w].files[u] : B(f) = Qualify(u, m, multi)
      BY <3>1
    <3>3. u = t /\ m = f
      BY <1>3, <3>2, QualifyOnce
    <3>4. QED
      BY <3>2, <3>3 DEF files_
  <2>3. f \in DOMAIN files_ => A(f) \in DOMAIN recn
    BY <1>2, <1>4, <1>5
  <2>4. f \in DOMAIN files_ => B(f) \in DOMAIN rec
    BY <1>6 DEF files_
  <2>5. QED
    BY <2>1, <2>2, <2>3, <2>4
<1>12. \A f \in DOMAIN files_ : recn[A(f)] = rec[B(f)]
  <2>1. \A f \in DOMAIN files_ : recn[A(f)] = files_[f]
    BY <1>2, <1>4, <1>5
  <2>2. \A f \in DOMAIN files_ : rec[B(f)] = files_[f]
    BY <1>6 DEF files_
  <2>3. QED
    BY <2>1, <2>2
<1>13. \A f : A(f) \in Fn => (A(f) \in wrongn <=> B(f) \in wrong)
  <2> TAKE f
  <2> SUFFICES ASSUME A(f) \in Fn PROVE A(f) \in wrongn <=> B(f) \in wrong
    OBVIOUS
  <2>1. playn[A(f)] = play[B(f)]
    BY <1>7
  <2> HIDE DEF A, B
  <2>2. CASE f \in DOMAIN files_
    <3>1. A(f) \in DOMAIN recn /\ B(f) \in DOMAIN rec /\ recn[A(f)] = rec[B(f)]
      BY <1>11, <1>12, <2>2
    <3>2. QED
      BY <1>9, <2>1, <3>1
  <2>3. CASE f \notin DOMAIN files_
    <3>1. A(f) \notin DOMAIN recn /\ B(f) \notin DOMAIN rec
      BY <1>11, <2>3
    <3>2. QED
      BY <1>8, <3>1
  <2>4. QED
    BY <2>2, <2>3
<1>14. \A f : A(f) \in Fn => B(f) \in F /\ healn[A(f)] = heal[B(f)]
  <2> TAKE f
  <2> SUFFICES ASSUME A(f) \in Fn PROVE B(f) \in F /\ healn[A(f)] = heal[B(f)]
    OBVIOUS
  <2>1. B(f) \in F /\ playn[A(f)] = play[B(f)] /\ (A(f) \in wrongn <=> B(f) \in wrong)
    BY <1>7, <1>13
  <2>2. A(f) \in wrongn => recn[A(f)] = rec[B(f)]
    BY <1>8, <1>11, <1>12
  <2>3. A(f) \in DOMAIN playn /\ B(f) \in DOMAIN play
    BY <1>7, <2>1
  <2> HIDE DEF A, B
  <2>4. healn[A(f)] = (IF A(f) \in wrongn THEN recn[A(f)] ELSE playn[A(f)])
    BY <1>10, <2>3 DEF healn
  <2>5. heal[B(f)] = (IF B(f) \in wrong THEN rec[B(f)] ELSE play[B(f)])
    BY <1>10, <2>3 DEF heal
  <2>6. QED
    BY <2>1, <2>2, <2>4, <2>5
<1>15. ASSUME wrong = {} PROVE wrongn = {}
  <2> SUFFICES ASSUME NEW key \in wrongn PROVE FALSE
    OBVIOUS
  <2>1. key \in DOMAIN recn /\ key \in Fn
    BY <1>8
  <2>2. PICK u \in one : \E m \in DOMAIN n.snaps[w].files[u] : key = Qualify(u, m, multin)
    BY <1>5, <2>1
  <2>3. PICK m \in DOMAIN n.snaps[w].files[u] : key = Qualify(u, m, multin)
    BY <2>2
  <2>4. key = A(m)
    BY <1>4, <2>3
  <2>5. QED
    BY <1>13, <1>15, <2>1, <2>4
<1>16. Beside(d, t, healn, heal)
  <2>1. healn \in [Fn -> Text] /\ heal \in [F -> Text]
    BY <1>8 DEF healn, heal
  <2>2. QED
    BY <1>14, <2>1 DEF Beside, n, multin, multi, Fn, F
<1>17. QED
  BY <1>15, <1>16 DEF healn, heal, wrong, wrongn, n
\* The pass of the task's payload keeps beside the pass of the session's.
LEMMA PassBeside ==
    ASSUME NEW d, NEW U, IsServed(d, U), NEW t \in U
    PROVE  LET n == ReplayDataForTask(d, t)
           IN  /\ \A w \in 1 .. Len(d.snaps) :
                     Beside(d, t, Before(n, Pass(n).ends, w), Before(d, Pass(d).ends, w))
               /\ Pass(d).wrong = {} => Pass(n).wrong = {}
<1> DEFINE n == ReplayDataForTask(d, t)
           one == {t}
           N == Len(d.snaps)
           en == Pass(n).ends
           ed == Pass(d).ends
           curn(w) == Before(n, en, w)
           cur(w) == Before(d, ed, w)
<1>1. IsPayload(d, U) /\ IsPayload(n, one) /\ Len(n.snaps) = N
  BY Narrowed DEF IsServed
<1>2. N \in Nat \ {0}
  BY <1>1 DEF IsPayload
<1> HIDE DEF n, one, N
<1>3. /\ Passes(d, ed, Pass(d).wrong, N) /\ ed \in Seq([FilesSeen(d) -> Text])
  BY <1>1, PassEnds DEF PassRecord, N
<1>4. /\ Passes(n, en, Pass(n).wrong, N) /\ en \in Seq([FilesSeen(n) -> Text])
  BY <1>1, PassEnds DEF PassRecord
<1>5. \A w \in 1 .. N : ed[w] = HealedFrom(d, cur(w), w) /\ en[w] = HealedFrom(n, curn(w), w)
  BY <1>3, <1>4 DEF Passes
<1>6. /\ Pass(d).wrong = {w \in 1 .. N : WrongFrom(d, cur(w), w) # {}}
      /\ Pass(n).wrong = {w \in 1 .. N : WrongFrom(n, curn(w), w) # {}}
  BY <1>3, <1>4 DEF Passes
<1> HIDE DEF en, ed
<1>7. Beside(d, t, BlankFiles(n), BlankFiles(d))
  <2>1. <<>> \in Text
    BY EmptySeq DEF Text
  <2>2. \A f : Qualify(t, f, IsMultiTask(n)) \in FilesSeen(n) =>
                  Qualify(t, f, IsMultiTask(d)) \in FilesSeen(d)
    BY SeenBeside DEF n
  <2>3. /\ BlankFiles(n) \in [FilesSeen(n) -> Text] /\ BlankFiles(d) \in [FilesSeen(d) -> Text]
        /\ \A f \in FilesSeen(n) : BlankFiles(n)[f] = <<>>
        /\ \A f \in FilesSeen(d) : BlankFiles(d)[f] = <<>>
    BY <2>1 DEF BlankFiles
  <2>4. QED
    BY <2>2, <2>3 DEF Beside, n
<1>8. ASSUME NEW w \in 1 .. N, Beside(d, t, curn(w), cur(w))
      PROVE  /\ Beside(d, t, en[w], ed[w])
             /\ WrongFrom(d, cur(w), w) = {} => WrongFrom(n, curn(w), w) = {}
  <2> DEFINE an == curn(w)
             a == cur(w)
  <2>1. Beside(d, t, an, a)
    BY <1>8
  <2> HIDE DEF an, a
  <2>2. an \in [FilesSeen(n) -> Text] /\ a \in [FilesSeen(d) -> Text]
    BY <2>1 DEF Beside, n
  <2>3. w \in 1 .. Len(d.snaps) /\ w \in 1 .. Len(n.snaps)
    BY <1>1 DEF N
  <2>4. PICK p \in [0 .. d.snaps[w].count -> [FilesSeen(d) -> Text]] :
           Plays(p, EventsOf(d, w), IsMultiTask(d), a) /\ PlayedFrom(d, a, w) = p[d.snaps[w].count]
    BY <1>1, <2>2, <2>3, WindowPlays
  <2>5. PICK q \in [0 .. n.snaps[w].count -> [FilesSeen(n) -> Text]] :
           Plays(q, EventsOf(n, w), IsMultiTask(n), an) /\ PlayedFrom(n, an, w) = q[n.snaps[w].count]
    BY <1>1, <2>2, <2>3, WindowPlays
  <2> DEFINE m == d.snaps[w].count
             r(k) == Rank(EventsOf(d, w), t, k)
  <2>6. n.snaps[w].count = r(m) /\ \A k \in 0 .. m : Beside(d, t, q[r(k)], p[k])
    BY <2>1, <2>3, <2>4, <2>5, PlayBeside DEF n
  <2>7. m \in 0 .. m
    <3>1. m \in Nat
      BY <1>1, <2>3 DEF IsPayload, IsSnap
    <3>2. QED
      BY <3>1
  <2>8. Beside(d, t, PlayedFrom(n, an, w), PlayedFrom(d, a, w))
    BY <2>4, <2>5, <2>6, <2>7
  <2>9. /\ Beside(d, t, HealedFrom(n, an, w), HealedFrom(d, a, w))
        /\ WrongFrom(d, a, w) = {} => WrongFrom(n, an, w) = {}
    BY <2>2, <2>3, <2>8, HealBeside DEF n
  <2>10. QED
    BY <1>5, <2>9 DEF an, a
<1> DEFINE S == {k \in Nat : k + 1 <= N => Beside(d, t, curn(k + 1), cur(k + 1))}
<1>9. 0 \in S
  <2>1. curn(0 + 1) = BlankFiles(n) /\ cur(0 + 1) = BlankFiles(d)
    BY DEF Before
  <2> HIDE DEF curn, cur
  <2>2. QED
    BY <1>7, <2>1
<1>10. ASSUME NEW k \in S PROVE k + 1 \in S
  <2> SUFFICES ASSUME (k + 1) + 1 <= N PROVE Beside(d, t, curn((k + 1) + 1), cur((k + 1) + 1))
    OBVIOUS
  <2>1. /\ k \in Nat /\ k + 1 \in 1 .. N /\ (k + 1) + 1 # 1 /\ ((k + 1) + 1) - 1 = k + 1
        /\ Beside(d, t, curn(k + 1), cur(k + 1))
    BY <1>2
  <2>2. Beside(d, t, en[k + 1], ed[k + 1])
    BY <1>8, <2>1
  <2>3. curn((k + 1) + 1) = en[k + 1] /\ cur((k + 1) + 1) = ed[k + 1]
    BY <2>1 DEF Before
  <2> HIDE DEF curn, cur
  <2>4. QED
    BY <2>2, <2>3
<1> HIDE DEF S
<1>11. S = Nat
  <2>1. S \subseteq Nat
    BY DEF S
  <2>2. QED
    BY <1>9, <1>10, <2>1, NatInd
<1> HIDE DEF curn, cur
<1>12. ASSUME NEW w \in 1 .. N PROVE Beside(d, t, curn(w), cur(w))
  <2>1. w - 1 \in S /\ (w - 1) + 1 = w /\ w <= N
    BY <1>2, <1>11
  <2>2. QED
    BY <2>1 DEF S
<1>13. \A w \in 1 .. N : WrongFrom(d, cur(w), w) = {} => WrongFrom(n, curn(w), w) = {}
  BY <1>8, <1>12
<1>14. Pass(d).wrong = {} => Pass(n).wrong = {}
  BY <1>6, <1>13
<1>15. QED
  BY <1>12, <1>14 DEF curn, cur, en, ed, n, N

\* The frame of an event shows the same text in both.
LEMMA FrameBeside ==
    ASSUME NEW d, NEW U, IsServed(d, U), NEW i \in 1 .. Len(d.events)
    PROVE  LET t == d.events[i].task
               n == ReplayDataForTask(d, t)
               x == Rank(d.events, t, i)
           IN  x \in 1 .. Len(n.events)
               /\ FrameText(n, Pass(n).ends, x) = FrameText(d, Pass(d).ends, i)
<1> DEFINE t == d.events[i].task
           n == ReplayDataForTask(d, t)
           one == {t}
           x == Rank(d.events, t, i)
           C(w) == EventsUpTo(d, w)
           Cn(w) == EventsUpTo(n, w)
           R(k) == Rank(d.events, t, k)
<1>1. IsPayload(d, U) /\ t \in U /\ d.events \in Seq(Event) /\ Len(d.events) \in Nat
  BY LenProperties DEF IsServed, IsPayload
<1> HIDE DEF t
<1>2. /\ IsPayload(n, one) /\ Len(n.snaps) = Len(d.snaps) /\ n.events = KeptEvents(d, t)
  BY <1>1, Narrowed
<1>3. \A w \in 0 .. Len(d.snaps) : Cn(w) = R(C(w))
  BY <1>1, Narrowed
<1>4. Len(d.snaps) \in Nat \ {0} /\ \A w \in 1 .. Len(d.snaps) : d.snaps[w].count \in Nat
  BY <1>1 DEF IsPayload, IsSnap
<1>5. \A w \in 0 .. Len(d.snaps) : C(w) \in Nat
  BY <1>4, Cuts
<1> HIDE DEF n, one
<1>6. PICK w \in 1 .. Len(d.snaps) : C(w - 1) < i /\ i <= C(w)
  BY <1>1, EveryEventIn
<1> DEFINE c == C(w - 1)
           m == d.snaps[w].count
           mn == n.snaps[w].count
           j == i - c
           r(k) == Rank(EventsOf(d, w), t, k)
<1>7. /\ i \in Nat /\ c \in Nat /\ C(w) \in Nat /\ w \in 0 .. Len(d.snaps) /\ w - 1 \in 0 .. Len(d.snaps)
  <2>1. i \in Nat /\ w \in 0 .. Len(d.snaps) /\ w - 1 \in 0 .. Len(d.snaps)
    BY <1>1, <1>4
  <2>2. QED
    BY <1>5, <2>1
<1>8. Cn(w - 1) = R(c) /\ Cn(w) = R(C(w))
  BY <1>3, <1>7
<1>9. /\ R(0) = 0 /\ \A k \in Nat : R(k) \in Nat
      /\ \A k, l \in Nat : k <= l => R(k) <= R(l)
      /\ \A k, l \in Nat : k < l /\ d.events[l].task = t => R(k) < R(l)
  BY RankSteps
<1>10. d.events[i].task = t
  BY DEF t
<1> HIDE DEF R, C, Cn
<1>11. /\ Cn(w - 1) < R(i) /\ R(i) <= Cn(w) /\ R(i) \in Nat /\ R(i) \in 1 .. R(Len(d.events))
  <2>1. R(c) < R(i)
    BY <1>6, <1>7, <1>9, <1>10
  <2>2. R(i) <= R(C(w))
    BY <1>6, <1>7, <1>9
  <2>3. R(0) < R(i)
    <3>1. 0 \in Nat /\ 0 < i
      BY <1>1
    <3>2. QED
      BY <1>7, <1>9, <1>10, <3>1
  <2>4. R(i) <= R(Len(d.events))
    <3>1. i <= Len(d.events)
      BY <1>1
    <3>2. QED
      BY <1>1, <1>7, <1>9, <3>1
  <2>5. R(i) \in Nat /\ R(Len(d.events)) \in Nat
    BY <1>1, <1>7, <1>9
  <2> DEFINE a == R(i)
             b == R(Len(d.events))
  <2>6. a \in Nat /\ b \in Nat /\ 0 < a /\ a <= b
    BY <1>9, <2>3, <2>4, <2>5
  <2> HIDE DEF a, b
  <2>7. a \in 1 .. b
    BY <2>6
  <2>8. QED
    BY <1>8, <2>1, <2>2, <2>5, <2>7 DEF a, b
<1>12. /\ Len(n.events) = R(Len(d.events)) /\ Alike(n.events[R(i)], d.events[i])
       /\ n.events[R(i)].task = t
  <2>1. /\ Len(n.events) = R(Len(d.events))
        /\ \A k \in 1 .. Len(d.events) : d.events[k].task = t => Alike(n.events[R(k)], d.events[k])
    BY <1>1, <1>2, EventsKept DEF R
  <2>2. QED
    BY <1>10, <2>1 DEF Alike
<1> DEFINE curn == Before(n, Pass(n).ends, w)
           cur == Before(d, Pass(d).ends, w)
<1>13. Beside(d, t, curn, cur)
  BY <1>1, PassBeside DEF n
<1> HIDE DEF curn, cur
<1>14. curn \in [FilesSeen(n) -> Text] /\ cur \in [FilesSeen(d) -> Text]
  BY <1>13 DEF Beside, n
<1>15. w \in 1 .. Len(n.snaps) /\ R(i) \in 1 .. Len(n.events)
  BY <1>2, <1>11, <1>12
<1>16. PICK p \in [0 .. m -> [FilesSeen(d) -> Text]] :
          Plays(p, EventsOf(d, w), IsMultiTask(d), cur) /\ PlayedFrom(d, cur, w) = p[m]
  BY <1>1, <1>14, WindowPlays
<1>17. PICK q \in [0 .. mn -> [FilesSeen(n) -> Text]] :
          Plays(q, EventsOf(n, w), IsMultiTask(n), curn) /\ PlayedFrom(n, curn, w) = q[mn]
  BY <1>2, <1>14, <1>15, WindowPlays
<1>18. \A k \in 0 .. m : Beside(d, t, q[r(k)], p[k])
  BY <1>1, <1>13, <1>16, <1>17, PlayBeside DEF n
<1>19. j \in 1 .. m /\ FrameText(d, Pass(d).ends, i) = p[j][FileOf(d.events[i], IsMultiTask(d))]
  <2>1. EventsUpTo(d, w - 1) < i /\ i <= EventsUpTo(d, w)
    BY <1>6 DEF C
  <2> DEFINE e == Pass(d).ends
  <2>2. /\ Before(d, e, w) \in [FilesSeen(d) -> Text]
        /\ Plays(p, EventsOf(d, w), IsMultiTask(d), Before(d, e, w))
    BY <1>14, <1>16 DEF cur
  <2> HIDE DEF e
  <2>3. /\ i - EventsUpTo(d, w - 1) \in 1 .. d.snaps[w].count
        /\ FrameText(d, e, i) = p[i - EventsUpTo(d, w - 1)][FileOf(d.events[i], IsMultiTask(d))]
    BY <1>1, <2>1, <2>2, FramePlays
  <2>4. QED
    BY <2>3 DEF e, C
<1>20. FrameText(n, Pass(n).ends, R(i)) = q[R(i) - R(c)][FileOf(n.events[R(i)], IsMultiTask(n))]
  <2> DEFINE e == Pass(n).ends
             k == R(i)
  <2>1. EventsUpTo(n, w - 1) < k /\ k <= EventsUpTo(n, w) /\ k \in 1 .. Len(n.events)
    BY <1>11, <1>15 DEF Cn
  <2>2. /\ Before(n, e, w) \in [FilesSeen(n) -> Text]
        /\ Plays(q, EventsOf(n, w), IsMultiTask(n), Before(n, e, w))
    BY <1>14, <1>17 DEF curn
  <2> HIDE DEF e, k
  <2>3. FrameText(n, e, k) = q[k - EventsUpTo(n, w - 1)][FileOf(n.events[k], IsMultiTask(n))]
    BY <1>2, <1>15, <2>1, <2>2, FramePlays
  <2>4. QED
    BY <1>8, <2>3 DEF e, k, Cn
<1>21. R(i) - R(c) = r(j) /\ j \in 0 .. m
  <2>1. j \in 0 .. m /\ c + j = i
    BY <1>7, <1>19
  <2>2. R(c + j) = R(c) + r(j)
    BY <1>1, <2>1, WindowRank DEF R, C
  <2>3. R(c) \in Nat /\ r(j) \in Nat
    <3>1. j \in Nat
      BY <1>7, <1>19
    <3>2. r(j) \in Nat
      BY <3>1, RankSteps
    <3>3. QED
      BY <1>7, <1>9, <3>2
  <2>4. R(i) = R(c) + r(j)
    BY <2>1, <2>2
  <2> HIDE DEF r, j, c
  <2>5. QED
    BY <2>1, <2>3, <2>4
<1>22. Beside(d, t, q[r(j)], p[j])
  BY <1>18, <1>21
<1> DEFINE f == d.events[i].file
<1>23. /\ FileOf(n.events[R(i)], IsMultiTask(n)) = Qualify(t, f, IsMultiTask(n))
       /\ FileOf(d.events[i], IsMultiTask(d)) = Qualify(t, f, IsMultiTask(d))
  BY <1>10, <1>12 DEF FileOf, Alike
<1>24. Qualify(t, f, IsMultiTask(n)) \in FilesSeen(n)
  BY <1>2, <1>15, <1>23, SeenFiles
<1>25. q[r(j)][Qualify(t, f, IsMultiTask(n))] = p[j][Qualify(t, f, IsMultiTask(d))]
  BY <1>22, <1>24 DEF Beside, n
<1>26. FrameText(n, Pass(n).ends, R(i)) = FrameText(d, Pass(d).ends, i)
  BY <1>19, <1>20, <1>21, <1>23, <1>25
<1>27. QED
  BY <1>15, <1>26 DEF n, t, R

-----------------------------------------------------------------------------
LEMMA RecordIsServed == RecordIsTyped /\ log # <<>> => IsServed(ReplayData, Task)
<1> SUFFICES ASSUME RecordIsTyped, log # <<>> PROVE IsServed(ReplayData, Task)
  OBVIOUS
<1> DEFINE d == ReplayData
           Taken(w) == [count |-> Len(log[w].events), files |-> log[w].snap, open |-> FALSE]
<1>1. IsPayload(d, Task) /\ Len(d.snaps) = Len(log)
  BY RecordIsPayload
<1>2. d.snaps = [w \in DOMAIN log |-> Taken(w)] /\ DOMAIN log = 1 .. Len(log)
  BY LenProperties DEF ReplayData, RecordIsTyped
<1>3. d = [snaps |-> d.snaps, events |-> d.events, openedAt |-> d.openedAt]
  BY DEF ReplayData
<1> HIDE DEF d
<1>4. \A w \in 1 .. Len(d.snaps) :
         d.snaps[w] = [count |-> d.snaps[w].count, files |-> d.snaps[w].files,
                       open |-> d.snaps[w].open]
  BY <1>1, <1>2
<1>5. QED
  BY <1>1, <1>3, <1>4 DEF IsServed, d

LEMMA TaskIsReplayed == RecordIsTyped => TaskReplayAgrees
<1> SUFFICES ASSUME RecordIsTyped PROVE TaskReplayAgrees
  OBVIOUS
<1> DEFINE d == ReplayData
           E == d.events
           frames == FrameTexts(d)
<1>1. CASE log = <<>>
  <2>1. E = <<>>
    <3>1. DOMAIN log = {}
      BY <1>1
    <3> DEFINE seqs == [w \in DOMAIN log |-> log[w].events]
    <3>2. seqs = <<>>
      BY <3>1
    <3>3. E = FlattenSeq(seqs)
      BY DEF ReplayData
    <3>4. FlattenSeq(<<>>) = <<>>
      BY DEF FlattenSeq
    <3>5. QED
      BY <3>2, <3>3, <3>4
  <2>2. {E[i].task : i \in DOMAIN E} = {}
    BY <2>1
  <2>3. QED
    BY <2>2 DEF TaskReplayAgrees
<1>2. CASE log # <<>>
  <2>1. IsServed(d, Task)
    BY <1>2, RecordIsServed
  <2>2. IsPayload(d, Task) /\ E \in Seq(Event) /\ DOMAIN E = 1 .. Len(E) /\ Len(E) \in Nat
    BY <2>1, LenProperties DEF IsServed, IsPayload
  <2> HIDE DEF d, E
  <2>3. SUFFICES ASSUME NEW t \in {E[i].task : i \in DOMAIN E}
        PROVE  LET n == ReplayDataForTask(d, t)
                   alone == FrameTexts(n)
                   Of(i) == {j \in 1..i : E[j].task = t}
               IN  /\ Exact(d) => Exact(n)
                   /\ Len(alone) = Cardinality(Of(Len(E)))
                   /\ \A i \in Of(Len(E)) : alone[Cardinality(Of(i))] = frames[i]
    BY <2>3 DEF TaskReplayAgrees, d, E, frames
  <2>4. PICK i0 \in 1 .. Len(E) : E[i0].task = t
    BY <2>2
  <2>5. t \in Task
    BY <2>2, <2>4 DEF IsPayload, E
  <2> DEFINE n == ReplayDataForTask(d, t)
             alone == FrameTexts(n)
             R(i) == Rank(E, t, i)
  <2>6. /\ IsPayload(n, {t}) /\ Len(n.snaps) = Len(d.snaps) /\ n.events = KeptEvents(d, t)
    BY <2>1, <2>5, Narrowed
  <2>7. n.events \in Seq(Event) /\ Len(n.events) = R(Len(E))
    BY <2>2, <2>6, EventsKept DEF E
  <2>8. DOMAIN n.events = 1 .. R(Len(E)) /\ R(Len(E)) \in Nat
    BY <2>7, LenProperties
  <2>9. \A i \in 1 .. Len(E) : E[i].task = t =>
           /\ R(i) \in 1 .. R(Len(E))
           /\ FrameText(n, Pass(n).ends, R(i)) = FrameText(d, Pass(d).ends, i)
    <3> SUFFICES ASSUME NEW i \in 1 .. Len(E), E[i].task = t
                 PROVE  /\ R(i) \in 1 .. R(Len(E))
                        /\ FrameText(n, Pass(n).ends, R(i)) = FrameText(d, Pass(d).ends, i)
      OBVIOUS
    <3>1. /\ R(i) \in 1 .. Len(n.events)
          /\ FrameText(n, Pass(n).ends, R(i)) = FrameText(d, Pass(d).ends, i)
      BY <2>1, FrameBeside DEF E
    <3>2. QED
      BY <2>7, <3>1
  <2> HIDE DEF n
  <2>10. alone = [x \in 1 .. R(Len(E)) |-> FrameText(n, Pass(n).ends, x)]
    BY <2>8 DEF FrameTexts
  <2>11. frames = [i \in 1 .. Len(E) |-> FrameText(d, Pass(d).ends, i)]
    BY <2>2 DEF FrameTexts, E
  <2> HIDE DEF alone, frames, R
  <2>12. Len(alone) = R(Len(E))
    <3> DEFINE X == {FrameText(n, Pass(n).ends, x) : x \in 1 .. R(Len(E))}
               k == R(Len(E))
    <3>1. alone \in [1 .. k -> X] /\ k \in Nat
      BY <2>8, <2>10
    <3> HIDE DEF X, k
    <3>2. alone \in Seq(X)
      BY <3>1, SeqDef
    <3>3. DOMAIN alone = 1 .. Len(alone) /\ Len(alone) \in Nat /\ DOMAIN alone = 1 .. k
      BY <3>1, <3>2, LenProperties
    <3>4. Len(alone) = k
      BY <3>1, <3>3
    <3>5. QED
      BY <3>4 DEF k
  <2>13. \A i \in 1 .. Len(E) : E[i].task = t => alone[R(i)] = frames[i]
    BY <2>9, <2>10, <2>11
  <2>14. ASSUME Exact(d) PROVE Exact(n)
    <3>1. Pass(d).wrong = {}
      BY <2>14 DEF Exact
    <3>2. Pass(n).wrong = {}
      BY <2>1, <2>5, <3>1, PassBeside DEF n
    <3>3. n.snaps # <<>>
      <4>1. Len(n.snaps) \in Nat \ {0}
        BY <2>6 DEF IsPayload
      <4>2. QED
        BY <4>1, EmptySeq
    <3>4. n.events # <<>>
      <4>1. DOMAIN n.events # {}
        BY <2>4, <2>8, <2>9
      <4>2. QED
        BY <4>1
    <3>5. QED
      BY <3>2, <3>3, <3>4 DEF Exact, ExactCapable
  <2>15. QED
    BY <2>12, <2>13, <2>14 DEF R, Rank, n, alone
<1>3. QED
  BY <1>1, <1>2

\* Whatever became of the record, the replay narrowed to a task shows for each
\* of the task's events what the session's replay shows, and is exact when it is.
THEOREM TaskAgrees == Spec => []TaskReplayAgrees
<1>1. Init => RecordIsTyped
  BY RecordStart
<1>2. RecordIsTyped /\ [Next]_vars => RecordIsTyped'
  BY RecordStep
<1>3. RecordIsTyped => TaskReplayAgrees
  BY TaskIsReplayed
<1>4. QED
  BY <1>1, <1>2, <1>3, PTL DEF Spec

-----------------------------------------------------------------------------
(***************************************************************************)
(* The clock of an untorn record: what one page records, and what a reload *)
(* goes on from, was typed in the order it is replayed in.                 *)
(***************************************************************************)
LEMMA TimeGrows ==
    /\ \A k \in 1 .. MaxEdits : Time[k] \in Nat /\ Time[k] > Opened
    /\ \A j, k \in 1 .. MaxEdits : j < k => Time[j] < Time[k]
<1> DEFINE T(k) == Time[k]
           S == {k \in Nat : k + 1 <= MaxEdits =>
                    T(k + 1) > Opened /\ \A j \in 1 .. k : T(j) < T(k + 1)}
<1>1. /\ MaxEdits \in Nat /\ Opened \in Nat
      /\ \A k \in 1 .. MaxEdits : T(k) \in Nat
      /\ 1 \in 1 .. MaxEdits => T(1) > Opened
      /\ \A k \in 1 .. MaxEdits : k # 1 => T(k) > T(k - 1)
  <2>1. MaxEdits \in Nat /\ Opened \in Nat /\ \A k \in 1 .. MaxEdits : T(k) \in Nat
    BY RecordingAssumption
  <2>2. ASSUME NEW k \in 1 .. MaxEdits PROVE T(k) > IF k = 1 THEN Opened ELSE T(k - 1)
    <3>1. T(k) >= 1 + IF k = 1 THEN Opened ELSE T(k - 1)
      BY RecordingAssumption
    <3>2. (IF k = 1 THEN Opened ELSE T(k - 1)) \in Nat
      <4>1. k = 1 \/ k - 1 \in 1 .. MaxEdits
        BY <2>1
      <4>2. QED
        BY <2>1, <4>1
    <3> HIDE DEF T
    <3>3. QED
      BY <2>1, <3>1, <3>2
  <2> HIDE DEF T
  <2>3. QED
    BY <2>1, <2>2
<1> HIDE DEF T
<1>2. 0 \in S
  BY <1>1
<1>3. ASSUME NEW k \in S PROVE k + 1 \in S
  <2> SUFFICES ASSUME (k + 1) + 1 <= MaxEdits
               PROVE  /\ T((k + 1) + 1) > Opened
                      /\ \A j \in 1 .. k + 1 : T(j) < T((k + 1) + 1)
    OBVIOUS
  <2>1. k + 1 \in 1 .. MaxEdits /\ (k + 1) + 1 \in 1 .. MaxEdits /\ ((k + 1) + 1) - 1 = k + 1
    BY <1>1
  <2>2. T(k + 1) \in Nat /\ T((k + 1) + 1) \in Nat /\ T((k + 1) + 1) > T(k + 1)
    BY <1>1, <2>1
  <2>3. T(k + 1) > Opened /\ \A j \in 1 .. k : T(j) < T(k + 1)
    BY <1>1, <2>1
  <2>4. \A j \in 1 .. k + 1 : (j = k + 1 \/ j \in 1 .. k) /\ T(j) \in Nat
    BY <1>1, <2>1
  <2>5. QED
    BY <1>1, <2>2, <2>3, <2>4
<1> HIDE DEF S
<1>4. S = Nat
  <2>1. S \subseteq Nat
    BY DEF S
  <2>2. QED
    BY <1>2, <1>3, <2>1, NatInd
<1>5. \A k \in 1 .. MaxEdits : T(k) > Opened /\ \A j \in 1 .. MaxEdits : j < k => T(j) < T(k)
  <2> TAKE k \in 1 .. MaxEdits
  <2>1. k - 1 \in S /\ (k - 1) + 1 = k /\ k <= MaxEdits
    BY <1>1, <1>4
  <2>2. T(k) > Opened /\ \A j \in 1 .. k - 1 : T(j) < T(k)
    BY <2>1 DEF S
  <2>3. \A j \in 1 .. MaxEdits : j < k => j \in 1 .. k - 1
    BY <1>1
  <2>4. QED
    BY <2>2, <2>3
<1>6. QED
  BY <1>1, <1>5 DEF T

\* From the edit before.
Passed(k) == Time[k] - IF k = 1 THEN Opened ELSE Time[k - 1]

\* An event carries the time of its edit and the pause before it, and a paste
\* puts its text over the whole file.
Stamped(ev, n) ==
    /\ \E k \in 1 .. n : /\ ev.at = Time[k]
                          /\ ev.since \in IF ev.anew THEN SinceSwitch[k] ELSE {Passed(k)}
    /\ ev.action = "paste" =>
          Len(ev.changes) = 1 /\ ev.changes[1].o = 0 /\ ev.after = ev.changes[1].t

AllStamped(evs, n) == \A i \in 1 .. Len(evs) : Stamped(evs[i], n)

InOrder(evs) == \A i, j \in 1 .. Len(evs) : i < j => evs[i].at < evs[j].at

Precede(evs, later) == \A i \in 1 .. Len(evs), j \in 1 .. Len(later) : evs[i].at < later[j].at

\* Every event there is was stamped.
Stamps ==
    /\ edits \in 0 .. MaxEdits
    /\ AllStamped(buffer, edits)
    /\ \A p \in posts : AllStamped(p.events, edits)
    /\ \A w \in 1 .. Len(log) : AllStamped(log[w].events, edits)

\* The windows of the page on their way precede one another and its buffer.
PageInOrder(ps, pg, buf) ==
    /\ InOrder(buf) /\ \A p \in ps : InOrder(p.events)
    /\ \A p \in Mine(ps, pg) : /\ Precede(p.events, buf)
                               /\ \A q \in Mine(ps, pg) : p.ord < q.ord => Precede(p.events, q.events)

\* So do those of the log, and they precede what the page has.
LogInOrder(lg, ps, pg, buf) ==
    \A w \in 1 .. Len(lg) :
        /\ InOrder(lg[w].events)
        /\ \A v \in 1 .. Len(lg) : v < w => Precede(lg[v].events, lg[w].events)
        /\ Precede(lg[w].events, buf)
        /\ \A p \in Mine(ps, pg) : Precede(lg[w].events, p.events)

Clock ==
    /\ RecordIsTyped /\ PostsNumbered /\ Stamps
    /\ PageInOrder(posts, page, buffer)
    /\ ~torn => LogInOrder(log, posts, page, buffer)

LEMMA StampedLater ==
    ASSUME NEW evs, NEW n \in Nat, AllStamped(evs, n)
    PROVE  AllStamped(evs, n + 1)
<1>1. \A k \in 1 .. n : k \in 1 .. n + 1
  OBVIOUS
<1>2. QED
  BY <1>1 DEF AllStamped, Stamped

\* The next edit comes after every stamp there is.
LEMMA StampedBefore ==
    ASSUME NEW evs, NEW n \in Nat, n + 1 <= MaxEdits, AllStamped(evs, n), NEW i \in 1 .. Len(evs)
    PROVE  evs[i].at < Time[n + 1]
<1>1. PICK k \in 1 .. n : evs[i].at = Time[k]
  BY DEF AllStamped, Stamped
<1>2. MaxEdits \in Nat
  BY RecordingAssumption
<1>3. k \in 1 .. MaxEdits /\ n + 1 \in 1 .. MaxEdits /\ k < n + 1
  BY <1>2
<1>4. QED
  BY <1>1, <1>3, TimeGrows

LEMMA NothingPrecedes ==
    ASSUME NEW evs
    PROVE  InOrder(<<>>) /\ Precede(evs, <<>>) /\ Precede(<<>>, evs) /\ AllStamped(<<>>, 0)
           /\ \A n \in Nat : AllStamped(<<>>, n)
<1>1. Len(<<>>) = 0 /\ \A i \in 1 .. 0 : FALSE
  OBVIOUS
<1>2. QED
  BY <1>1 DEF InOrder, Precede, AllStamped

LEMMA ClockStart == Init => Clock
<1> SUFFICES ASSUME Init PROVE Clock
  OBVIOUS
<1>1. /\ buffer = <<>> /\ posts = {} /\ log = <<>> /\ edits = 0 /\ drained = 0
  BY DEF Init
<1>2. Len(log) = 0 /\ \A w \in 1 .. 0 : FALSE
  BY <1>1
<1>3. RecordIsTyped
  BY RecordStart
<1>4. PostsNumbered
  BY <1>1 DEF PostsNumbered
<1>5. Stamps
  <2>1. 0 \in 0 .. MaxEdits
    BY RecordingAssumption
  <2>2. AllStamped(<<>>, 0)
    BY NothingPrecedes
  <2>3. QED
    BY <1>1, <1>2, <2>1, <2>2 DEF Stamps
<1>6. PageInOrder(posts, page, buffer)
  <2>1. Mine({}, page) = {}
    BY DEF Mine
  <2>2. InOrder(<<>>)
    BY NothingPrecedes
  <2>3. QED
    BY <1>1, <2>1, <2>2 DEF PageInOrder
<1>7. LogInOrder(log, posts, page, buffer)
  BY <1>2 DEF LogInOrder
<1>8. QED
  BY <1>3, <1>4, <1>5, <1>6, <1>7 DEF Clock

\* What a paste does, in the shape the stamp asks for.
LEMMA PasteShape ==
    ASSUME NEW s \in Text, NEW x, NEW m \in MonacoChanges(s, x), m.action = "paste"
    PROVE  Len(m.changes) = 1 /\ m.changes[1].o = 0 /\ m.next = m.changes[1].t
<1> DEFINE typed == {[action |-> "type", changes |-> <<Change(0, 0, <<x>>)>>, next |-> <<x>>],
                     [action |-> "type", changes |-> <<Change(0, 1, <<>>)>>, next |-> <<>>],
                     [action |-> "type",
                      changes |-> <<Change(Len(s), 0, <<x>>), Change(0, 1, <<>>)>>,
                      next |-> Append(Tail(s), x)]}
           all == [action |-> "paste", changes |-> <<Change(0, Len(s), <<x, x>>)>>, next |-> <<x, x>>]
<1>1. m = all \/ m \in typed
  BY LenProperties DEF MonacoChanges, Text
<1>2. \A e \in typed : e.action = "type"
  OBVIOUS
<1>3. m = all
  BY <1>1, <1>2
<1>4. m.changes = <<Change(0, Len(s), <<x, x>>)>> /\ m.next = <<x, x>>
  BY <1>3
<1>5. m.changes[1] = Change(0, Len(s), <<x, x>>) /\ Len(m.changes) = 1
  BY <1>4
<1>6. m.changes[1].o = 0 /\ m.changes[1].t = <<x, x>>
  BY <1>5 DEF Change
<1>7. QED
  BY <1>4, <1>5, <1>6

LEMMA AppendStamped ==
    ASSUME NEW evs \in Seq(Event), NEW ev \in Event, NEW n, AllStamped(evs, n), Stamped(ev, n)
    PROVE  AllStamped(Append(evs, ev), n)
<1>1. /\ Len(Append(evs, ev)) = Len(evs) + 1 /\ Len(evs) \in Nat
      /\ \A i \in 1 .. Len(evs) : Append(evs, ev)[i] = evs[i]
      /\ Append(evs, ev)[Len(evs) + 1] = ev
  BY AppendProperties, LenProperties
<1>2. \A i \in 1 .. Len(evs) + 1 : i \in 1 .. Len(evs) \/ i = Len(evs) + 1
  BY <1>1
<1>3. QED
  BY <1>1, <1>2 DEF AllStamped

\* The windows of the log after one more has landed, once or twice.
LEMMA LandedWindows ==
    ASSUME NEW lg \in Seq(Windows), NEW p \in Windows
    PROVE  /\ Len(lg) \in Nat /\ Len(Append(lg, p)) = Len(lg) + 1
           /\ \A w \in 1 .. Len(lg) : Append(lg, p)[w] = lg[w]
           /\ Append(lg, p)[Len(lg) + 1] = p
           /\ \A w \in 1 .. Len(lg \o <<p, p>>) :
                 \/ w \in 1 .. Len(lg) /\ (lg \o <<p, p>>)[w] = lg[w]
                 \/ (lg \o <<p, p>>)[w] = p
<1>1. /\ Len(lg) \in Nat /\ Len(Append(lg, p)) = Len(lg) + 1
      /\ \A w \in 1 .. Len(lg) : Append(lg, p)[w] = lg[w]
      /\ Append(lg, p)[Len(lg) + 1] = p
  BY AppendProperties, LenProperties
<1> DEFINE two == <<p, p>>
<1>2. two \in Seq(Windows) /\ Len(two) = 2 /\ two[1] = p /\ two[2] = p
  OBVIOUS
<1> HIDE DEF two
<1>3. /\ Len(lg \o two) = Len(lg) + 2
      /\ \A w \in 1 .. Len(lg) + 2 : (lg \o two)[w] = IF w <= Len(lg) THEN lg[w] ELSE two[w - Len(lg)]
  <2>1. /\ lg \o two \in Seq(Windows) /\ Len(lg \o two) = Len(lg) + Len(two)
        /\ \A w \in 1 .. Len(lg) + Len(two) :
              (lg \o two)[w] = IF w <= Len(lg) THEN lg[w] ELSE two[w - Len(lg)]
    BY <1>2, ConcatProperties
  <2>2. QED
    BY <1>2, <2>1
<1>4. \A w \in 1 .. Len(lg) + 2 : w \in 1 .. Len(lg) \/ (~(w <= Len(lg)) /\ (w - Len(lg) = 1 \/ w - Len(lg) = 2))
  BY <1>1
<1>5. \A w \in 1 .. Len(lg) : w <= Len(lg)
  BY <1>1
<1>6. QED
  BY <1>1, <1>2, <1>3, <1>4, <1>5 DEF two

LEMMA StampsStep == RecordIsTyped /\ Stamps /\ [Next]_vars => Stamps'
<1> SUFFICES ASSUME RecordIsTyped, Stamps, [Next]_vars PROVE Stamps'
  OBVIOUS
<1>1. /\ edits \in Nat /\ edits \in 0 .. MaxEdits /\ MaxEdits \in Nat /\ buffer \in Seq(Event)
      /\ log \in Seq(Windows) /\ posts \subseteq Windows
      /\ AllStamped(buffer, edits) /\ \A p \in posts : AllStamped(p.events, edits)
      /\ \A w \in 1 .. Len(log) : AllStamped(log[w].events, edits)
  BY RecordingAssumption DEF RecordIsTyped, Stamps
<1>2. AllStamped(<<>>, edits)
  BY <1>1, NothingPrecedes
<1>3. CASE UNCHANGED <<edits, log>> /\ buffer' \in {buffer, <<>>}
           /\ \A p \in posts' : p \in posts \/ p.events = buffer
  BY <1>1, <1>2, <1>3 DEF Stamps
<1>4. CASE Edit
  <2> DEFINE t == activeTask
             n == activeFile[t]
             s == files[t][n]
  <2>1. s \in Text /\ edits' = edits + 1 /\ UNCHANGED <<posts, log>>
    BY <1>4, EditDoes
  <2>2. PICK m \in MonacoChanges(s, edits + 1), since \in SinceLast(edits + 1) :
           Edited(m, since) \in Event /\ buffer' = Append(buffer, Edited(m, since))
    BY <1>4, EditDoes
  <2> HIDE DEF s
  <2>3. edits < MaxEdits
    BY <1>4 DEF Edit
  <2> DEFINE ev == Edited(m, since)
  <2>4. /\ ev.at = Time[edits + 1] /\ ev.since = since /\ ev.anew = anew /\ ev.action = m.action
        /\ ev.changes = m.changes /\ ev.after = m.next
    BY DEF Edited
  <2> HIDE DEF ev
  <2>5. Stamped(ev, edits + 1)
    <3>1. edits + 1 \in 1 .. edits + 1
      BY <1>1
    <3>2. m.action = "paste" => Len(m.changes) = 1 /\ m.changes[1].o = 0 /\ m.next = m.changes[1].t
      BY <2>1, PasteShape
    <3>3. since \in IF anew THEN SinceSwitch[edits + 1] ELSE {Passed(edits + 1)}
      BY DEF SinceLast, Passed
    <3>4. QED
      BY <2>4, <3>1, <3>2, <3>3 DEF Stamped
  <2>6. AllStamped(buffer, edits + 1)
    BY <1>1, StampedLater
  <2>7. AllStamped(buffer', edits + 1)
    BY <1>1, <2>2, <2>5, <2>6, AppendStamped DEF ev
  <2>8. \A p \in posts : AllStamped(p.events, edits + 1)
    BY <1>1, StampedLater
  <2>9. \A w \in 1 .. Len(log) : AllStamped(log[w].events, edits + 1)
    BY <1>1, StampedLater
  <2>10. edits + 1 \in 0 .. MaxEdits
    BY <1>1, <2>3
  <2>11. QED
    BY <2>1, <2>7, <2>8, <2>9, <2>10 DEF Stamps
<1>5. ASSUME Drain, UNCHANGED <<edits, log>> PROVE Stamps'
  <2>1. posts' = posts \cup {Window} /\ buffer' = <<>> /\ Window.events = buffer
    BY <1>5, DrainDoes DEF Window
  <2>2. QED
    BY <1>3, <1>5, <2>1
<1>6. CASE IntervalFlush
  BY <1>5, <1>6 DEF IntervalFlush
<1>7. ASSUME NEW t \in Task, ClickTask(t) PROVE Stamps'
  BY <1>3, <1>5, <1>7 DEF ClickTask
<1>8. ASSUME NEW s \in switches, FinishSwitch(s) PROVE Stamps'
  BY <1>3, <1>8 DEF FinishSwitch, counters
<1>9. ASSUME NEW p \in posts, Land(p) \/ LandTwice(p) PROVE Stamps'
  <2>1. /\ log' = Append(log, p) \/ log' = log \o <<p, p>>
        /\ posts' \subseteq posts /\ UNCHANGED <<edits, buffer>>
    BY <1>9 DEF Land, LandTwice, counters
  <2>2. p \in Windows /\ AllStamped(p.events, edits)
    BY <1>1
  <2>3. \A w \in 1 .. Len(log') : (w \in 1 .. Len(log) /\ log'[w] = log[w]) \/ log'[w] = p
    <3>1. CASE log' = Append(log, p)
      <4>1. \A w \in 1 .. Len(log) + 1 : w \in 1 .. Len(log) \/ w = Len(log) + 1
        BY <1>1, LenProperties
      <4>2. QED
        BY <1>1, <2>2, <3>1, <4>1, LandedWindows
    <3>2. CASE log' = log \o <<p, p>>
      BY <1>1, <2>2, <3>2, LandedWindows
    <3>3. QED
      BY <2>1, <3>1, <3>2
  <2>4. \A w \in 1 .. Len(log') : AllStamped(log'[w].events, edits)
    BY <1>1, <2>2, <2>3
  <2>5. QED
    BY <1>1, <2>1, <2>4 DEF Stamps
<1>10. ASSUME NEW p \in posts, Lose(p) PROVE Stamps'
  BY <1>3, <1>10 DEF Lose
<1>11. ASSUME NEW n \in File, SelectFile(n) PROVE Stamps'
  BY <1>3, <1>11 DEF SelectFile, counters
<1>12. ASSUME NEW n \in File, NEW old \in File, CreateFile(n) \/ DeleteFile(n) \/ RenameFile(old, n)
       PROVE  Stamps'
  BY <1>3, <1>12 DEF CreateFile, DeleteFile, RenameFile, FileOp
<1>13. CASE Reload \/ ReloadBlank
  BY <1>3, <1>13 DEF Reload, ReloadBlank, FreshPage
<1>14. CASE UNCHANGED vars
  BY <1>3, <1>14 DEF vars, counters
<1>15. QED
  BY <1>4, <1>6, <1>7, <1>8, <1>9, <1>10, <1>11, <1>12, <1>13, <1>14 DEF Next

\* An event typed later goes to the end.
LEMMA AppendInOrder ==
    ASSUME NEW evs \in Seq(Event), NEW ev, \A i \in 1 .. Len(evs) : evs[i].at < ev.at, InOrder(evs)
    PROVE  /\ InOrder(Append(evs, ev))
           /\ \A others : /\ Precede(others, evs)
                          /\ \A i \in 1 .. Len(others) : others[i].at < ev.at
                          => Precede(others, Append(evs, ev))
<1> DEFINE n == Len(evs)
           a == Append(evs, ev)
<1>1. n \in Nat /\ Len(a) = n + 1 /\ (\A i \in 1 .. n : a[i] = evs[i]) /\ a[n + 1] = ev
  <2> DEFINE X == Event \cup {ev}
  <2>1. evs \in Seq(X) /\ ev \in X
    <3>1. evs \in [1 .. n -> Event] /\ n \in Nat
      BY LenProperties
    <3>2. evs \in [1 .. n -> X]
      BY <3>1
    <3> HIDE DEF X, n
    <3>3. evs \in Seq(X)
      BY <3>1, <3>2, SeqDef
    <3>4. QED
      BY <3>3 DEF X
  <2> HIDE DEF X
  <2>2. QED
    BY <2>1, AppendProperties, LenProperties
<1>2. \A i \in 1 .. n + 1 : i \in 1 .. n \/ i = n + 1
  BY <1>1
<1>3. \A i \in 1 .. n : i < n + 1 /\ ~(n + 1 < i)
  BY <1>1
<1>4. ~(n + 1 < n + 1)
  BY <1>1
<1> HIDE DEF a
<1>5. InOrder(a)
  <2> SUFFICES ASSUME NEW i \in 1 .. n + 1, NEW j \in 1 .. n + 1, i < j PROVE a[i].at < a[j].at
    BY <1>1 DEF InOrder
  <2>1. CASE j \in 1 .. n
    <3>1. i \in 1 .. n
      BY <1>2, <1>3, <2>1
    <3>2. QED
      BY <1>1, <2>1, <3>1 DEF InOrder
  <2>2. CASE j = n + 1
    <3>1. i \in 1 .. n
      BY <1>2, <1>4, <2>2
    <3>2. QED
      BY <1>1, <2>2, <3>1
  <2>3. QED
    BY <1>2, <2>1, <2>2
<1>6. ASSUME NEW others, Precede(others, evs), \A i \in 1 .. Len(others) : others[i].at < ev.at
      PROVE  Precede(others, a)
  BY <1>1, <1>2, <1>6 DEF Precede
<1>7. QED
  BY <1>5, <1>6 DEF a

LEMMA FewerInOrder ==
    ASSUME NEW lg, NEW ps, NEW fewer \in SUBSET ps, NEW pg, NEW buf
    PROVE  /\ PageInOrder(ps, pg, buf) => PageInOrder(fewer, pg, buf)
           /\ LogInOrder(lg, ps, pg, buf) => LogInOrder(lg, fewer, pg, buf)
<1>1. Mine(fewer, pg) \subseteq Mine(ps, pg)
  BY DEF Mine
<1>2. QED
  BY <1>1 DEF PageInOrder, LogInOrder

\* A page that opens has nothing on its way.
LEMMA FreshInOrder ==
    ASSUME NEW lg, NEW ps, NEW pg, NEW buf, NEW next, \A p \in ps : p.page # next
    PROVE  /\ PageInOrder(ps, pg, buf) => PageInOrder(ps, next, <<>>)
           /\ LogInOrder(lg, ps, pg, buf) => LogInOrder(lg, ps, next, <<>>)
<1>1. Mine(ps, next) = {}
  BY DEF Mine
<1>2. InOrder(<<>>) /\ \A evs : Precede(evs, <<>>)
  BY NothingPrecedes
<1>3. QED
  BY <1>1, <1>2 DEF PageInOrder, LogInOrder

LEMMA EditInOrder ==
    ASSUME NEW lg, NEW ps, NEW pg, NEW buf \in Seq(Event), NEW ev,
           \A i \in 1 .. Len(buf) : buf[i].at < ev.at,
           \A p \in ps : \A i \in 1 .. Len(p.events) : p.events[i].at < ev.at,
           \A w \in 1 .. Len(lg) : \A i \in 1 .. Len(lg[w].events) : lg[w].events[i].at < ev.at
    PROVE  /\ PageInOrder(ps, pg, buf) => PageInOrder(ps, pg, Append(buf, ev))
           /\ LogInOrder(lg, ps, pg, buf) /\ PageInOrder(ps, pg, buf)
                 => LogInOrder(lg, ps, pg, Append(buf, ev))
<1> DEFINE longer == Append(buf, ev)
<1>1. InOrder(buf) => /\ InOrder(longer)
                      /\ \A evs : /\ Precede(evs, buf)
                                  /\ \A i \in 1 .. Len(evs) : evs[i].at < ev.at
                                  => Precede(evs, longer)
  BY AppendInOrder
<1>2. Mine(ps, pg) \subseteq ps
  BY DEF Mine
<1> HIDE DEF longer
<1>3. PageInOrder(ps, pg, buf) => PageInOrder(ps, pg, longer)
  BY <1>1, <1>2 DEF PageInOrder
<1>4. LogInOrder(lg, ps, pg, buf) /\ PageInOrder(ps, pg, buf) => LogInOrder(lg, ps, pg, longer)
  BY <1>1 DEF PageInOrder, LogInOrder
<1>5. QED
  BY <1>3, <1>4 DEF longer

\* A window drained now comes after the others of its page.
LEMMA DrainInOrder ==
    ASSUME NEW lg, NEW ps, NEW pg, NEW buf, NEW dr \in Nat, NEW w,
           w.ord = dr + 1, w.events = buf, \A p \in ps : p.ord \in 1 .. dr
    PROVE  /\ PageInOrder(ps, pg, buf) => PageInOrder(ps \cup {w}, pg, <<>>)
           /\ LogInOrder(lg, ps, pg, buf) => LogInOrder(lg, ps \cup {w}, pg, <<>>)
<1> DEFINE more == ps \cup {w}
<1>1. /\ \A p \in Mine(more, pg) : p \in Mine(ps, pg) \/ p = w
      /\ Mine(ps, pg) \subseteq ps
  BY DEF Mine
<1>2. InOrder(<<>>) /\ \A evs : Precede(evs, <<>>)
  BY NothingPrecedes
<1>3. ~(w.ord < w.ord) /\ \A p \in ps : ~(w.ord < p.ord)
  OBVIOUS
<1>4. ASSUME PageInOrder(ps, pg, buf) PROVE PageInOrder(more, pg, <<>>)
  <2>1. \A p \in more : InOrder(p.events)
    BY <1>4 DEF PageInOrder
  <2>2. \A p, q \in Mine(more, pg) : p.ord < q.ord => Precede(p.events, q.events)
    <3> TAKE p, q \in Mine(more, pg)
    <3> HAVE p.ord < q.ord
    <3>1. p \in Mine(ps, pg)
      BY <1>1, <1>3
    <3>2. CASE q \in Mine(ps, pg)
      BY <1>4, <3>1, <3>2 DEF PageInOrder
    <3>3. CASE q = w
      BY <1>4, <3>1, <3>3 DEF PageInOrder
    <3>4. QED
      BY <1>1, <3>2, <3>3
  <2> HIDE DEF more
  <2>3. QED
    BY <1>2, <2>1, <2>2 DEF PageInOrder
<1>5. ASSUME LogInOrder(lg, ps, pg, buf) PROVE LogInOrder(lg, more, pg, <<>>)
  <2> HIDE DEF more
  <2>1. \A v \in 1 .. Len(lg) : \A p \in Mine(more, pg) : Precede(lg[v].events, p.events)
    BY <1>1, <1>5 DEF LogInOrder
  <2>2. QED
    BY <1>2, <1>5, <2>1 DEF LogInOrder
<1>6. QED
  BY <1>4, <1>5

\* The first window on its way comes after the log and before the rest.
LEMMA LandInOrder ==
    ASSUME NEW lg \in Seq(Windows), NEW ps \in SUBSET Windows, NEW pg, NEW buf, NEW p \in ps, p.page = pg,
           \A q \in ps : q.page = pg => ~(q.ord < p.ord),
           \A q, r \in ps : q.ord = r.ord => q = r,
           PageInOrder(ps, pg, buf), LogInOrder(lg, ps, pg, buf)
    PROVE  LogInOrder(Append(lg, p), ps \ {p}, pg, buf)
<1> DEFINE n == Len(lg)
           longer == Append(lg, p)
           rest == ps \ {p}
<1>1. /\ n \in Nat /\ Len(longer) = n + 1 /\ (\A w \in 1 .. n : longer[w] = lg[w])
      /\ longer[n + 1] = p
  BY LandedWindows
<1>2. p \in Mine(ps, pg) /\ Mine(rest, pg) \subseteq Mine(ps, pg)
  BY DEF Mine
<1>3. \A q \in Mine(rest, pg) : p.ord < q.ord
  <2> TAKE q \in Mine(rest, pg)
  <2>1. q \in ps /\ q # p /\ q.page = pg
    BY DEF Mine
  <2>2. q.ord # p.ord /\ ~(q.ord < p.ord) /\ q.ord \in Nat /\ p.ord \in Nat
    BY <2>1, WindowHas
  <2>3. QED
    BY <2>2
<1>4. \A w \in 1 .. n + 1 : w \in 1 .. n \/ w = n + 1
  BY <1>1
<1>5. \A w \in 1 .. n : ~(n + 1 < w)
  BY <1>1
<1>6. ~(n + 1 < n + 1)
  BY <1>1
<1> HIDE DEF longer, rest
<1>7. \A w \in 1 .. n + 1 : InOrder(longer[w].events) /\ Precede(longer[w].events, buf)
  <2>1. \A w \in 1 .. n : InOrder(longer[w].events) /\ Precede(longer[w].events, buf)
    BY <1>1 DEF LogInOrder
  <2>2. InOrder(p.events) /\ Precede(p.events, buf)
    BY <1>2 DEF PageInOrder
  <2>3. QED
    BY <1>1, <1>4, <2>1, <2>2
<1>8. \A w \in 1 .. n + 1, q \in Mine(rest, pg) : Precede(longer[w].events, q.events)
  <2>1. \A w \in 1 .. n, q \in Mine(rest, pg) : Precede(longer[w].events, q.events)
    BY <1>1, <1>2 DEF LogInOrder
  <2>2. \A q \in Mine(rest, pg) : Precede(p.events, q.events)
    BY <1>2, <1>3 DEF PageInOrder
  <2>3. QED
    BY <1>1, <1>4, <2>1, <2>2
<1>9. \A w \in 1 .. n + 1, v \in 1 .. n + 1 : v < w => Precede(longer[v].events, longer[w].events)
  <2> TAKE w \in 1 .. n + 1, v \in 1 .. n + 1
  <2> HAVE v < w
  <2>1. v \in 1 .. n
    BY <1>4, <1>5, <1>6
  <2>2. CASE w \in 1 .. n
    BY <1>1, <2>1, <2>2 DEF LogInOrder
  <2>3. CASE w = n + 1
    BY <1>1, <1>2, <2>1, <2>3 DEF LogInOrder
  <2>4. QED
    BY <1>4, <2>2, <2>3
<1>10. LogInOrder(longer, rest, pg, buf)
  BY <1>1, <1>7, <1>8, <1>9 DEF LogInOrder
<1>11. QED
  BY <1>10 DEF longer, rest

LEMMA ClockStep == Clock /\ [Next]_vars => Clock'
<1> SUFFICES ASSUME Clock, [Next]_vars PROVE Clock'
  OBVIOUS
<1>1. RecordIsTyped' /\ PostsNumbered' /\ Stamps'
  BY RecordStep, NumberingStep, StampsStep DEF Clock
<1> DEFINE Page(ps, pg, buf) == PageInOrder(ps, pg, buf)
           Log(lg, ps, pg, buf) == LogInOrder(lg, ps, pg, buf)
<1>2. /\ RecordIsTyped /\ PostsNumbered /\ Stamps /\ Page(posts, page, buffer)
      /\ ~torn => Log(log, posts, page, buffer)
  BY DEF Clock
<1>3. /\ posts \subseteq Windows /\ log \in Seq(Windows) /\ buffer \in Seq(Event)
      /\ drained \in Nat /\ page \in Nat /\ edits \in Nat /\ torn \in BOOLEAN
      /\ \A p \in posts : p.ord \in 1 .. drained /\ p.page <= page
      /\ \A p, q \in posts : p.ord = q.ord => p = q
  BY <1>2 DEF RecordIsTyped, PostsNumbered
<1>4. SUFFICES Page(posts', page', buffer') /\ (~torn' => Log(log', posts', page', buffer'))
  BY <1>1, <1>4 DEF Clock
<1> HIDE DEF Page, Log
<1>5. CASE UNCHANGED <<log, page, buffer>> /\ posts' \subseteq posts /\ (~torn' => ~torn)
  BY <1>2, <1>5, FewerInOrder DEF Page, Log
<1>6. CASE Edit
  <2> DEFINE s == files[activeTask][activeFile[activeTask]]
  <2>1. UNCHANGED <<posts, log, page, torn>> /\ edits < MaxEdits /\ MaxEdits \in Nat
    BY <1>2, <1>6, EditDoes, RecordingAssumption DEF Edit
  <2>2. PICK m \in MonacoChanges(s, edits + 1), since \in SinceLast(edits + 1) :
           buffer' = Append(buffer, Edited(m, since))
    BY <1>2, <1>6, EditDoes
  <2> DEFINE ev == Edited(m, since)
  <2>3. ev.at = Time[edits + 1]
    BY DEF Edited
  <2> HIDE DEF ev
  <2>4. edits + 1 <= MaxEdits
    BY <1>3, <2>1
  <2>5. /\ \A i \in 1 .. Len(buffer) : buffer[i].at < ev.at
        /\ \A p \in posts : \A i \in 1 .. Len(p.events) : p.events[i].at < ev.at
        /\ \A w \in 1 .. Len(log) : \A i \in 1 .. Len(log[w].events) : log[w].events[i].at < ev.at
    BY <1>2, <1>3, <2>3, <2>4, StampedBefore DEF Stamps
  <2>6. QED
    BY <1>2, <1>3, <2>1, <2>2, <2>5, EditInOrder DEF Page, Log, ev
<1>7. ASSUME Drain, UNCHANGED <<log, page, torn>>
      PROVE  Page(posts', page', buffer') /\ (~torn' => Log(log', posts', page', buffer'))
  <2>1. /\ posts' = posts \cup {Window} /\ buffer' = <<>>
        /\ Window.events = buffer /\ Window.ord = drained + 1
    BY <1>2, <1>7, DrainDoes DEF Window
  <2> DEFINE w == Window
  <2> HIDE DEF w
  <2>2. w.events = buffer /\ w.ord = drained + 1 /\ posts' = posts \cup {w}
    BY <2>1 DEF w
  <2>3. \A p \in posts : p.ord \in 1 .. drained
    BY <1>3
  <2>4. /\ Page(posts, page, buffer) => Page(posts \cup {w}, page, <<>>)
        /\ Log(log, posts, page, buffer) => Log(log, posts \cup {w}, page, <<>>)
    BY <1>3, <2>2, <2>3, DrainInOrder DEF Page, Log
  <2>5. QED
    BY <1>2, <1>7, <2>1, <2>2, <2>4
<1>8. CASE IntervalFlush
  BY <1>7, <1>8 DEF IntervalFlush
<1>9. ASSUME NEW t \in Task, ClickTask(t)
      PROVE  Page(posts', page', buffer') /\ (~torn' => Log(log', posts', page', buffer'))
  BY <1>5, <1>7, <1>9 DEF ClickTask
<1>10. ASSUME NEW s \in switches, FinishSwitch(s)
       PROVE  Page(posts', page', buffer') /\ (~torn' => Log(log', posts', page', buffer'))
  BY <1>5, <1>10 DEF FinishSwitch, counters
<1>11. ASSUME NEW p \in posts, Land(p)
       PROVE  Page(posts', page', buffer') /\ (~torn' => Log(log', posts', page', buffer'))
  <2>1. /\ log' = Append(log, p) /\ posts' = posts \ {p} /\ UNCHANGED <<page, buffer>>
        /\ torn' = (torn \/ OutOfTurn(p))
    BY <1>11 DEF Land, counters
  <2>2. Page(posts', page', buffer')
    BY <1>2, <2>1, FewerInOrder DEF Page
  <2>3. ASSUME ~torn' PROVE Log(log', posts', page', buffer')
    <3>1. /\ ~torn /\ p.page = page /\ \A q \in posts : q.page = page => ~(q.ord < p.ord)
      BY <1>3, <2>1, <2>3 DEF OutOfTurn
    <3>2. QED
      BY <1>2, <1>3, <2>1, <3>1, LandInOrder DEF Page, Log
  <2>4. QED
    BY <2>2, <2>3
<1>12. ASSUME NEW p \in posts, LandTwice(p)
       PROVE  Page(posts', page', buffer') /\ (~torn' => Log(log', posts', page', buffer'))
  <2>1. posts' \subseteq posts /\ UNCHANGED <<page, buffer>> /\ torn'
    BY <1>12 DEF LandTwice
  <2>2. QED
    BY <1>2, <2>1, FewerInOrder DEF Page
<1>13. ASSUME NEW p \in posts, Lose(p)
       PROVE  Page(posts', page', buffer') /\ (~torn' => Log(log', posts', page', buffer'))
  BY <1>3, <1>5, <1>13 DEF Lose
<1>14. ASSUME NEW n \in File, SelectFile(n)
       PROVE  Page(posts', page', buffer') /\ (~torn' => Log(log', posts', page', buffer'))
  BY <1>5, <1>14 DEF SelectFile, counters
<1>15. ASSUME NEW n \in File, NEW old \in File, CreateFile(n) \/ DeleteFile(n) \/ RenameFile(old, n)
       PROVE  Page(posts', page', buffer') /\ (~torn' => Log(log', posts', page', buffer'))
  <2>1. UNCHANGED <<buffer, posts, log, page>>
    BY <1>15 DEF CreateFile, DeleteFile, RenameFile, FileOp
  <2>2. ~torn' => ~torn
    BY <1>15 DEF CreateFile, DeleteFile, RenameFile
  <2>3. QED
    BY <1>5, <2>1, <2>2
<1>16. CASE Reload \/ ReloadBlank
  <2>1. page' = page + 1 /\ buffer' = <<>> /\ UNCHANGED <<posts, log>> /\ (~torn' => ~torn)
    BY <1>3, <1>16 DEF Reload, ReloadBlank, FreshPage
  <2>2. \A p \in posts : p.page # page + 1
    <3> TAKE p \in posts
    <3>1. p.page \in Nat /\ p.page <= page
      BY <1>3, WindowHas
    <3>2. QED
      BY <1>3, <3>1
  <2> DEFINE next == page + 1
  <2> HIDE DEF next
  <2>3. /\ Page(posts, page, buffer) => Page(posts, next, <<>>)
        /\ Log(log, posts, page, buffer) => Log(log, posts, next, <<>>)
    BY <2>2, FreshInOrder DEF Page, Log, next
  <2>4. page' = next
    BY <2>1 DEF next
  <2>5. QED
    BY <1>2, <2>1, <2>3, <2>4
<1>17. CASE UNCHANGED vars
  BY <1>5, <1>17 DEF vars, counters
<1>18. QED
  BY <1>6, <1>8, <1>9, <1>10, <1>11, <1>12, <1>13, <1>14, <1>15, <1>16, <1>17 DEF Next

-----------------------------------------------------------------------------
(***************************************************************************)
(* The times of a payload.                                                 *)
(***************************************************************************)
IsTimed(d) ==
    /\ d.events \in Seq(Event) /\ d.events # <<>> /\ d.openedAt = {Opened}
    /\ \A i \in 1 .. Len(d.events) : d.events[i].at > Opened
    /\ InOrder(d.events)
    /\ \A i \in 1 .. Len(d.events) :
          i # 1 => d.events[i - 1].at + d.events[i].since <= d.events[i].at

\* The pause of every event runs from the event before, unless the editor had
\* just come to the file.
IsWhole(d) ==
    \A i \in 1 .. Len(d.events) :
        i # 1 /\ ~d.events[i].anew => d.events[i - 1].at + d.events[i].since = d.events[i].at

\* So does that of an event of n when events of d happened in between.
Between(n, d, i) == \E j \in 1 .. Len(d.events) :
    n.events[i - 1].at < d.events[j].at /\ d.events[j].at < n.events[i].at

BridgesOthers(n, d) ==
    \A i \in 1 .. Len(n.events) :
        i # 1 /\ Between(n, d, i) => n.events[i - 1].at + n.events[i].since = n.events[i].at

PastesAreWhole(d) ==
    \A i \in 1 .. Len(d.events) :
        LET ev == d.events[i]
        IN  ev.action = "paste" =>
              Len(ev.changes) = 1 /\ ev.changes[1].o = 0 /\ ev.after = ev.changes[1].t

\* Where an event of the payload was recorded, and that later events are in
\* no earlier window.
LEMMA EventPlace ==
    ASSUME RecordIsTyped, log # <<>>, NEW i \in 1 .. Len(ReplayData.events)
    PROVE  \E w \in 1 .. Len(log) :
              /\ EventsUpTo(ReplayData, w - 1) \in Nat
              /\ i - EventsUpTo(ReplayData, w - 1) \in 1 .. Len(log[w].events)
              /\ ReplayData.events[i] = log[w].events[i - EventsUpTo(ReplayData, w - 1)]
              /\ \A j \in 1 .. Len(ReplayData.events), v \in 1 .. Len(log) :
                    i < j /\ j <= EventsUpTo(ReplayData, v) => w <= v
<1> DEFINE d == ReplayData
           n == Len(log)
           C(w) == EventsUpTo(d, w)
           E == d.events
           X == {v \in 1 .. n : i <= C(v)}
<1>1. /\ IsPayload(d, Task) /\ Len(d.snaps) = n
      /\ \A w \in 1 .. n : d.snaps[w].count = Len(log[w].events)
      /\ \A w \in 1 .. n : \A k \in 1 .. Len(log[w].events) : E[C(w - 1) + k] = log[w].events[k]
  BY RecordIsPayload
<1>2. /\ n \in Nat \ {0} /\ Len(E) \in Nat /\ C(n) = Len(E) /\ \A v \in 1 .. n : d.snaps[v].count \in Nat
  BY <1>1, LenProperties DEF IsPayload, IsSnap
<1>3. /\ \A v \in 0 .. n : C(v) \in Nat
      /\ \A v \in 1 .. n : C(v) = C(v - 1) + d.snaps[v].count
      /\ C(0) = 0
  BY <1>1, <1>2, Cuts
<1>4. i \in Nat /\ i >= 1 /\ i <= Len(E)
  BY <1>2
<1> HIDE DEF C, d, E, n
<1>5. X \subseteq Nat /\ X # {}
  <2>1. n \in X
    BY <1>2, <1>4
  <2>2. QED
    BY <1>2, <2>1
<1> HIDE DEF X
<1>6. PICK w \in X : \A v \in X : w <= v
  BY <1>5, LeastNat
<1>7. w \in 1 .. n /\ i <= C(w) /\ w - 1 \in 0 .. n /\ w \in 0 .. n
  BY <1>2 DEF X
<1>8. C(w - 1) < i
  <2>1. CASE w = 1
    BY <1>3, <1>4, <2>1
  <2>2. CASE w # 1
    <3>1. w - 1 \in 1 .. n /\ ~(w <= w - 1) /\ C(w - 1) \in Nat
      BY <1>2, <1>3, <1>7, <2>2
    <3>2. w - 1 \notin X
      BY <1>6, <3>1
    <3>3. ~(i <= C(w - 1))
      BY <3>1, <3>2 DEF X
    <3>4. QED
      BY <1>4, <3>1, <3>3
  <2>3. QED
    BY <2>1, <2>2
<1> DEFINE a == C(w - 1)
           c == Len(log[w].events)
<1>9. a \in Nat /\ c \in Nat /\ C(w) = a + c /\ a < i /\ i <= C(w)
  BY <1>1, <1>2, <1>3, <1>7, <1>8
<1>10. \A k \in 1 .. c : E[a + k] = log[w].events[k]
  BY <1>1, <1>7
<1> HIDE DEF a, c
<1>11. i - a \in 1 .. c /\ a + (i - a) = i
  BY <1>4, <1>9
<1>12. E[i] = log[w].events[i - a]
  BY <1>10, <1>11
<1>13. ASSUME NEW j \in 1 .. Len(E), NEW v \in 1 .. n, i < j, j <= C(v) PROVE w <= v
  <2>1. C(v) \in Nat /\ j \in Nat
    BY <1>2, <1>3
  <2>2. i <= C(v)
    BY <1>4, <1>13, <2>1
  <2>3. QED
    BY <1>6, <2>2 DEF X
<1>14. QED
  BY <1>7, <1>9, <1>11, <1>12, <1>13 DEF a, c, C, d, E, n

LEMMA RecordInOrder ==
    ASSUME RecordIsTyped, log # <<>>, Stamps, LogInOrder(log, posts, page, buffer)
    PROVE  /\ ReplayData.events \in Seq(Event)
           /\ AllStamped(ReplayData.events, edits) /\ InOrder(ReplayData.events)
<1> DEFINE d == ReplayData
           E == d.events
           n == Len(log)
           C(w) == EventsUpTo(d, w)
<1>1. IsPayload(d, Task) /\ E \in Seq(Event) /\ Len(E) \in Nat /\ n \in Nat
  BY RecordIsPayload, LenProperties DEF IsPayload, RecordIsTyped
<1>2. \A i \in 1 .. Len(E) : \E w \in 1 .. n :
         /\ C(w - 1) \in Nat /\ i - C(w - 1) \in 1 .. Len(log[w].events)
         /\ E[i] = log[w].events[i - C(w - 1)]
         /\ \A j \in 1 .. Len(E), v \in 1 .. n : i < j /\ j <= C(v) => w <= v
  BY EventPlace
<1>3. \A w \in 1 .. n : /\ Len(log[w].events) \in Nat
                        /\ C(w - 1) \in Nat => C(w) = C(w - 1) + Len(log[w].events)
  <2>1. \A w \in 1 .. n : Len(log[w].events) \in Nat
    <3>1. \A w \in 1 .. n : log[w] \in Windows
      BY LenProperties, ElementOfSeq DEF RecordIsTyped
    <3>2. QED
      BY <3>1, WindowHas
  <2>2. /\ Len(d.snaps) = n
        /\ \A w \in 1 .. n : d.snaps[w].count = Len(log[w].events)
    BY RecordIsPayload
  <2> HIDE DEF d, n
  <2>3. \A w \in 1 .. n : EventsUpTo(d, w) = EventsUpTo(d, w - 1) + d.snaps[w].count
    BY <1>1, <2>1, <2>2, Cuts
  <2>4. QED
    BY <2>1, <2>2, <2>3
<1> HIDE DEF C, E, d, n
<1>4. AllStamped(E, edits)
  <2> SUFFICES ASSUME NEW i \in 1 .. Len(E) PROVE Stamped(E[i], edits)
    BY DEF AllStamped
  <2>1. PICK w \in 1 .. n : /\ i - C(w - 1) \in 1 .. Len(log[w].events)
                            /\ E[i] = log[w].events[i - C(w - 1)]
    BY <1>2
  <2>2. AllStamped(log[w].events, edits)
    BY DEF Stamps, n
  <2>3. QED
    BY <2>1, <2>2 DEF AllStamped
<1>5. InOrder(E)
  <2> SUFFICES ASSUME NEW i \in 1 .. Len(E), NEW j \in 1 .. Len(E), i < j PROVE E[i].at < E[j].at
    BY DEF InOrder
  <2>1. PICK w \in 1 .. n :
           /\ C(w - 1) \in Nat /\ i - C(w - 1) \in 1 .. Len(log[w].events)
           /\ E[i] = log[w].events[i - C(w - 1)]
           /\ \A k \in 1 .. Len(E), v \in 1 .. n : i < k /\ k <= C(v) => w <= v
    BY <1>2
  <2>2. PICK v \in 1 .. n :
           /\ C(v - 1) \in Nat /\ j - C(v - 1) \in 1 .. Len(log[v].events)
           /\ E[j] = log[v].events[j - C(v - 1)]
    BY <1>2
  <2> DEFINE a == C(w - 1)
             b == C(v - 1)
             c == Len(log[v].events)
  <2>3. b \in Nat /\ c \in Nat /\ C(v) = b + c /\ j - b \in 1 .. c /\ i \in Nat /\ j \in Nat
    BY <1>1, <1>3, <2>2
  <2> HIDE DEF b, c
  <2>4. w <= v
    <3>1. j <= C(v)
      BY <2>3
    <3>2. QED
      BY <2>1, <3>1
  <2>5. CASE w = v
    <3>1. i - b < j - b /\ i - b \in 1 .. Len(log[v].events)
      BY <2>1, <2>3, <2>5 DEF b
    <3>2. InOrder(log[v].events)
      BY DEF LogInOrder, n
    <3>3. E[i] = log[v].events[i - b] /\ E[j] = log[v].events[j - b]
      BY <2>1, <2>2, <2>5 DEF b
    <3>4. QED
      BY <2>3, <3>1, <3>2, <3>3 DEF InOrder, c
  <2>6. CASE w # v
    <3>1. w < v
      BY <1>1, <2>4, <2>6
    <3>2. Precede(log[w].events, log[v].events)
      BY <3>1 DEF LogInOrder, n
    <3>3. QED
      BY <2>1, <2>2, <3>2 DEF Precede
  <2>7. QED
    BY <2>5, <2>6
<1>6. QED
  BY <1>1, <1>4, <1>5 DEF E, d

\* Stamps in order: the pause of an event runs from an edit no earlier than
\* the one before it on the record, and from that one where none is missing.
LEMMA StampsAreTimes ==
    ASSUME NEW evs \in Seq(Event), NEW n \in 0 .. MaxEdits, AllStamped(evs, n), InOrder(evs)
    PROVE  /\ \A i \in 1 .. Len(evs) : evs[i].at > Opened
           /\ \A i \in 1 .. Len(evs) : i # 1 => evs[i - 1].at + evs[i].since <= evs[i].at
           /\ (\A i \in 1 .. Len(evs) : evs[i].at = Time[i]) =>
                 \A i \in 1 .. Len(evs) :
                    i # 1 /\ ~evs[i].anew => evs[i - 1].at + evs[i].since = evs[i].at
<1> DEFINE L == Len(evs)
           T(k) == Time[k]
<1>1. L \in Nat /\ MaxEdits \in Nat /\ Opened \in Nat /\ n \in Nat /\ n <= MaxEdits
  BY RecordingAssumption, LenProperties
<1>2. /\ \A k \in 1 .. MaxEdits : T(k) \in Nat /\ T(k) > Opened
      /\ \A j, k \in 1 .. MaxEdits : j < k => T(j) < T(k)
  BY TimeGrows
<1> DEFINE before(k) == IF k = 1 THEN Opened ELSE T(k - 1)
<1>3. \A i \in 1 .. L : \E k \in 1 .. MaxEdits :
         /\ evs[i].at = T(k) /\ evs[i].since \in Nat /\ before(k) + evs[i].since <= T(k)
         /\ ~evs[i].anew => before(k) + evs[i].since = T(k)
  <2> TAKE i \in 1 .. L
  <2>1. PICK k \in 1 .. n : evs[i].at = T(k) /\ evs[i].since \in IF evs[i].anew THEN SinceSwitch[k] ELSE {Passed(k)}
    BY DEF AllStamped, Stamped
  <2>2. k \in 1 .. MaxEdits /\ Passed(k) = T(k) - before(k)
    BY <1>1 DEF Passed
  <2>3. before(k) \in Nat /\ T(k) \in Nat
    <3>1. k = 1 \/ k - 1 \in 1 .. MaxEdits
      BY <1>1, <2>2
    <3>2. QED
      BY <1>1, <1>2, <2>2, <3>1
  <2>4. \A p \in SinceSwitch[k] : p \in Nat /\ T(k) >= p + before(k)
    <3>1. SinceSwitch[k] \subseteq Nat
      BY <2>2, RecordingAssumption
    <3>2. QED
      BY <2>2, <3>1, RecordingAssumption
  <2>5. T(k) > before(k)
    <3>1. k = 1 \/ (k - 1 \in 1 .. MaxEdits /\ k - 1 < k)
      BY <1>1, <2>2
    <3>2. QED
      BY <1>2, <2>2, <3>1
  <2> HIDE DEF T, before
  <2>6. QED
    BY <2>1, <2>2, <2>3, <2>4, <2>5
<1>4. \A i, j \in 1 .. L : i < j => evs[i].at < evs[j].at
  BY DEF InOrder
<1> HIDE DEF T, L
<1>5. \A i \in 1 .. L : evs[i].at > Opened
  BY <1>2, <1>3
<1>6. ASSUME NEW i \in 1 .. L, i # 1, NEW j \in 1 .. MaxEdits, evs[i - 1].at = T(j)
      PROVE  \E k \in 1 .. MaxEdits :
                /\ j < k /\ evs[i].at = T(k) /\ T(k - 1) \in Nat /\ k - 1 \in 1 .. MaxEdits
                /\ evs[i].since \in Nat /\ T(k - 1) + evs[i].since <= T(k)
                /\ ~evs[i].anew => T(k - 1) + evs[i].since = T(k)
  <2>1. PICK k \in 1 .. MaxEdits :
           /\ evs[i].at = T(k) /\ evs[i].since \in Nat /\ before(k) + evs[i].since <= T(k)
           /\ ~evs[i].anew => before(k) + evs[i].since = T(k)
    BY <1>3
  <2>2. i - 1 \in 1 .. L /\ i - 1 < i
    BY <1>1, <1>6
  <2>3. T(j) < T(k)
    BY <1>4, <1>6, <2>1, <2>2
  <2>4. j < k
    <3>1. T(j) \in Nat /\ T(k) \in Nat
      BY <1>2, <1>6
    <3>2. ~(k < j) /\ k # j
      BY <1>2, <1>6, <2>3, <3>1
    <3>3. QED
      BY <1>6, <3>2
  <2>5. k # 1 /\ k - 1 \in 1 .. MaxEdits
    BY <1>1, <1>6, <2>4
  <2>6. QED
    BY <1>2, <2>1, <2>4, <2>5
<1>7. ASSUME NEW i \in 1 .. L, i # 1 PROVE evs[i - 1].at + evs[i].since <= evs[i].at
  <2>1. i - 1 \in 1 .. L
    BY <1>1, <1>7
  <2>2. PICK j \in 1 .. MaxEdits : evs[i - 1].at = T(j)
    BY <1>3, <2>1
  <2>3. PICK k \in 1 .. MaxEdits :
           /\ j < k /\ evs[i].at = T(k) /\ T(k - 1) \in Nat /\ k - 1 \in 1 .. MaxEdits
           /\ evs[i].since \in Nat /\ T(k - 1) + evs[i].since <= T(k)
    BY <1>6, <1>7, <2>2
  <2>4. T(j) <= T(k - 1)
    <3>1. j = k - 1 \/ j < k - 1
      BY <1>1, <2>2, <2>3
    <3>2. T(j) \in Nat
      BY <1>2
    <3>3. QED
      BY <1>2, <2>3, <3>1, <3>2
  <2>5. T(k) \in Nat /\ T(j) \in Nat
    BY <1>2
  <2>6. QED
    BY <2>2, <2>3, <2>4, <2>5
<1>8. ASSUME \A i \in 1 .. L : evs[i].at = T(i)
      PROVE  \A i \in 1 .. L : i # 1 /\ ~evs[i].anew => evs[i - 1].at + evs[i].since = evs[i].at
  <2> DEFINE S == {m \in Nat : m + 1 <= L => m + 1 <= MaxEdits}
  <2>1. 0 \in S
    <3>1. 1 <= L => 1 \in 1 .. L
      BY <1>1
    <3>2. QED
      BY <1>1, <1>3, <3>1
  <2>2. ASSUME NEW m \in S PROVE m + 1 \in S
    <3> SUFFICES ASSUME (m + 1) + 1 <= L PROVE (m + 1) + 1 <= MaxEdits
      OBVIOUS
    <3> DEFINE i == (m + 1) + 1
    <3>1. i \in 1 .. L /\ i # 1 /\ i - 1 = m + 1 /\ m + 1 \in 1 .. L /\ m + 1 \in 1 .. MaxEdits
      BY <1>1
    <3>2. evs[i - 1].at = T(m + 1)
      BY <1>8, <3>1
    <3> HIDE DEF i
    <3>3. PICK k \in 1 .. MaxEdits : m + 1 < k
      BY <1>6, <3>1, <3>2
    <3>4. QED
      BY <1>1, <3>3
  <2> HIDE DEF S
  <2>3. S = Nat
    <3>1. S \subseteq Nat
      BY DEF S
    <3>2. QED
      BY <2>1, <2>2, <3>1, NatInd
  <2>4. \A i \in 1 .. L : i \in 1 .. MaxEdits
    <3> TAKE i \in 1 .. L
    <3>1. i - 1 \in S /\ (i - 1) + 1 = i /\ i <= L
      BY <1>1, <2>3
    <3>2. QED
      BY <1>1, <3>1 DEF S
  <2> SUFFICES ASSUME NEW i \in 1 .. L, i # 1, ~evs[i].anew PROVE evs[i - 1].at + evs[i].since = evs[i].at
    OBVIOUS
  <2>5. i - 1 \in 1 .. L /\ evs[i - 1].at = T(i - 1) /\ evs[i].at = T(i)
    BY <1>1, <1>8
  <2>6. i - 1 \in 1 .. MaxEdits /\ i \in 1 .. MaxEdits
    BY <2>4, <2>5
  <2>7. PICK k \in 1 .. MaxEdits : evs[i].at = T(k) /\ T(k - 1) + evs[i].since = T(k)
    BY <1>6, <2>5, <2>6
  <2>8. k = i
    <3>1. ~(k < i) /\ ~(i < k)
      <4>1. T(k) = T(i) /\ T(i) \in Nat
        BY <1>2, <2>5, <2>6, <2>7
      <4>2. QED
        BY <1>2, <2>6, <4>1
    <3>2. QED
      BY <2>6, <3>1
  <2>9. T(i) \in Nat /\ T(i - 1) \in Nat
    BY <1>2, <2>6
  <2>10. QED
    BY <2>5, <2>7, <2>8, <2>9
<1>9. QED
  BY <1>5, <1>7, <1>8 DEF L, T

LEMMA RecordIsTimed ==
    ASSUME Clock, ~torn, log # <<>>
    PROVE  /\ IsTimed(ReplayData) /\ PastesAreWhole(ReplayData)
           /\ (\A i \in DOMAIN ReplayData.events : ReplayData.events[i].at = Time[i]) =>
                 IsWhole(ReplayData)
<1> DEFINE d == ReplayData
           E == d.events
<1>1. /\ RecordIsTyped /\ Stamps /\ LogInOrder(log, posts, page, buffer)
      /\ edits \in 0 .. MaxEdits
  BY DEF Clock, Stamps
<1>2. E \in Seq(Event) /\ AllStamped(E, edits) /\ InOrder(E) /\ d.openedAt = {Opened}
  BY <1>1, RecordInOrder DEF ReplayData
<1>3. E # <<>>
  <2>1. /\ Len(d.snaps) = Len(log)
        /\ \A w \in 1 .. Len(log) : \A k \in 1 .. Len(log[w].events) :
              E[EventsUpTo(d, w - 1) + k] = log[w].events[k]
    BY <1>1, RecordIsPayload
  <2>2. IsPayload(d, Task) /\ \A w \in 1 .. Len(log) : d.snaps[w].count = Len(log[w].events)
    BY <1>1, RecordIsPayload
  <2>3. Len(log) \in 1 .. Len(log) /\ log[Len(log)] \in Windows
    BY <1>1, LastSnapshots
  <2>4. Len(log[Len(log)].events) \in Nat \ {0}
    BY <2>3, WindowHas
  <2> DEFINE k == d.snaps[Len(log)].count
             from == EventsUpTo(d, Len(log) - 1)
  <2>5. k \in Nat /\ from + k \in 1 .. Len(E) /\ k # 0
    <3>1. Len(log) \in 1 .. Len(d.snaps) /\ k \in Nat \ {0}
      BY <2>1, <2>2, <2>3, <2>4
    <3>2. k \in 1 .. k
      BY <3>1
    <3> HIDE DEF d
    <3>3. from + k \in 1 .. Len(E)
      BY <2>1, <2>2, <3>1, <3>2, WindowEvents
    <3>4. QED
      BY <3>1, <3>3
  <2>6. Len(E) # 0
    BY <1>2, <2>5, LenProperties
  <2>7. QED
    BY <2>6
<1> HIDE DEF d
<1>4. DOMAIN E = 1 .. Len(E)
  BY <1>2, LenProperties
<1>5. IsTimed(d)
  BY <1>1, <1>2, <1>3, StampsAreTimes DEF IsTimed
<1>6. PastesAreWhole(d)
  BY <1>2 DEF PastesAreWhole, AllStamped, Stamped
<1>7. (\A i \in DOMAIN E : E[i].at = Time[i]) => IsWhole(d)
  BY <1>1, <1>2, <1>4, StampsAreTimes DEF IsWhole
<1>8. QED
  BY <1>5, <1>6, <1>7 DEF d

\* The events of a task keep their order, their times and what they did; the
\* pause before one runs from the task's event before it.
LEMMA KeptOnce ==
    ASSUME NEW evs \in Seq(Event), NEW t, NEW x \in 1 .. Rank(evs, t, Len(evs))
    PROVE  /\ KeptIn(evs, t)[x] \in 1 .. Len(evs) /\ evs[KeptIn(evs, t)[x]].task = t
           /\ Rank(evs, t, KeptIn(evs, t)[x]) = x
<1> DEFINE L == Len(evs)
           R(i) == Rank(evs, t, i)
           K == KeptIn(evs, t)
           S == {i \in Nat : i <= L /\ x <= R(i)}
<1>1. L \in Nat
  BY LenProperties
<1>2. /\ R(0) = 0 /\ \A k \in Nat : R(k) \in Nat
      /\ \A k \in Nat \ {0} : R(k) = R(k - 1) + (IF evs[k].task = t THEN 1 ELSE 0)
  BY RankSteps
<1>3. \A i \in 1 .. L : evs[i].task = t => K[R(i)] = i
  BY KeptPositions DEF IsKept
<1>4. x \in 1 .. R(L)
  OBVIOUS
<1> HIDE DEF L, R, K
<1>5. S \subseteq Nat /\ L \in S
  BY <1>1, <1>2, <1>4
<1> HIDE DEF S
<1>6. PICK i \in S : \A j \in S : i <= j
  BY <1>5, LeastNat
<1>7. i \in Nat /\ i <= L /\ x <= R(i)
  BY <1>6 DEF S
<1>8. i # 0
  BY <1>2, <1>4, <1>7
<1>9. i - 1 \in Nat /\ i - 1 <= L /\ i - 1 \notin S /\ i \in 1 .. L
  BY <1>1, <1>6, <1>7, <1>8
<1>10. ~(x <= R(i - 1)) /\ R(i - 1) \in Nat /\ R(i) = R(i - 1) + (IF evs[i].task = t THEN 1 ELSE 0)
  BY <1>2, <1>7, <1>8, <1>9 DEF S
<1>11. evs[i].task = t /\ R(i) = x
  <2>1. x \in Nat
    BY <1>2, <1>1, <1>4
  <2>2. QED
    BY <1>7, <1>10, <2>1
<1>12. K[x] = i
  BY <1>3, <1>9, <1>11
<1>13. QED
  BY <1>9, <1>11, <1>12 DEF L, R, K

LEMMA KeptOrder ==
    ASSUME NEW evs \in Seq(Event), NEW t,
           NEW x \in 1 .. Rank(evs, t, Len(evs)), NEW y \in 1 .. Rank(evs, t, Len(evs)), x < y
    PROVE  KeptIn(evs, t)[x] < KeptIn(evs, t)[y]
<1> DEFINE R(i) == Rank(evs, t, i)
           a == KeptIn(evs, t)[x]
           b == KeptIn(evs, t)[y]
<1>1. /\ a \in 1 .. Len(evs) /\ b \in 1 .. Len(evs) /\ R(a) = x /\ R(b) = y
  BY KeptOnce
<1>2. \A j, k \in Nat : j <= k => R(j) <= R(k)
  BY RankSteps
<1>3. x \in Nat /\ y \in Nat
  <2>1. Rank(evs, t, Len(evs)) \in Nat
    BY LenProperties, RankSteps
  <2>2. QED
    BY <2>1
<1> HIDE DEF R, a, b
<1>4. a \in Nat /\ b \in Nat
  BY <1>1, LenProperties
<1>5. ~(b <= a)
  BY <1>1, <1>2, <1>3, <1>4
<1>6. a < b
  BY <1>4, <1>5
<1>7. QED
  BY <1>6 DEF a, b

KeptAs(e, evs, kept, x) ==
    LET ev == evs[kept[x]]
    IN  /\ e.file = ev.file /\ e.action = ev.action /\ e.at = ev.at /\ e.anew = ev.anew
        /\ e.changes = ev.changes /\ e.after = ev.after
        /\ e.since = IF x = 1 \/ kept[x] = kept[x - 1] + 1 THEN ev.since
                     ELSE Max({evs[kept[x - 1]].at, ev.at}) - evs[kept[x - 1]].at

LEMMA KeptWhole ==
    ASSUME NEW d, d.events \in Seq(Event), NEW t,
           NEW x \in 1 .. Rank(d.events, t, Len(d.events))
    PROVE  KeptAs(KeptEvents(d, t)[x], d.events, KeptIn(d.events, t), x)
<1> DEFINE E == d.events
           L == Len(E)
           K == KeptIn(E, t)
           size == Rank(E, t, L)
           Since(y) == IF y = 1 \/ K[y] = K[y - 1] + 1
                         THEN E[K[y]].since
                         ELSE Max({E[K[y - 1]].at, E[K[y]].at}) - E[K[y - 1]].at
           At_(y) == [E[K[y]] EXCEPT !.since = Since(y)]
           kept == KeptEvents(d, t)
<1>1. \A i \in 1 .. L : E[i] \in Event
  BY LenProperties, ElementOfSeq
<1>2. kept = [y \in DOMAIN K |-> At_(y)]
  BY DEF KeptEvents
<1>3. DOMAIN K = 1 .. size
  <2>1. K \in Seq(Nat) /\ Len(K) = size
    BY KeptPositions DEF IsKept
  <2>2. QED
    BY <2>1, LenProperties
<1>4. \A y \in 1 .. size : K[y] \in 1 .. L /\ E[K[y]].task = t
  BY KeptOnce
<1> HIDE DEF K, size, E, L, Since, kept
<1>5. \A y \in 1 .. size : kept[y] = [E[K[y]] EXCEPT !.since = Since(y)] /\ E[K[y]] \in Event
  BY <1>1, <1>2, <1>3, <1>4
<1>6. LET ev == E[K[x]]
      IN  /\ kept[x].file = ev.file /\ kept[x].action = ev.action /\ kept[x].anew = ev.anew
          /\ kept[x].at = ev.at /\ kept[x].changes = ev.changes
          /\ kept[x].after = ev.after /\ kept[x].since = Since(x)
  <2> DEFINE ev == E[K[x]]
             s == Since(x)
  <2>1. kept[x] = [ev EXCEPT !.since = s] /\ ev \in Event
    BY <1>5 DEF size, E, L
  <2> HIDE DEF ev, s
  <2>2. /\ kept[x].file = ev.file /\ kept[x].action = ev.action /\ kept[x].anew = ev.anew
        /\ kept[x].at = ev.at /\ kept[x].changes = ev.changes
        /\ kept[x].after = ev.after /\ kept[x].since = s
    BY <2>1 DEF Event
  <2>3. QED
    BY <2>1, <2>2 DEF ev, s
<1>7. QED
  BY <1>6 DEF KeptAs, K, E, Since, kept

LEMMA TaskIsTimed ==
    ASSUME NEW d, NEW U, IsServed(d, U), IsTimed(d), NEW i0 \in 1 .. Len(d.events),
           NEW t \in U, d.events[i0].task = t
    PROVE  LET n == ReplayDataForTask(d, t)
           IN  /\ IsTimed(n) /\ (IsWhole(d) => IsWhole(n) /\ BridgesOthers(n, d))
               /\ PastesAreWhole(d) => PastesAreWhole(n)
<1> DEFINE n == ReplayDataForTask(d, t)
           E == d.events
           K == KeptIn(E, t)
           size == Rank(E, t, Len(E))
           P(x) == E[K[x]]
<1>1. n.events = KeptEvents(d, t) /\ E \in Seq(Event) /\ Len(E) \in Nat
  <2>1. n.events = KeptEvents(d, t)
    BY Narrowed
  <2>2. E \in Seq(Event)
    BY DEF IsTimed
  <2>3. QED
    BY <2>1, <2>2, LenProperties
<1>2. n.events \in Seq(Event) /\ Len(n.events) = size
  BY <1>1, EventsKept
<1>3. n.openedAt = {Opened}
  <2> DEFINE s == [w \in DOMAIN d.snaps |-> NarrowWindow(d, t, w)]
             e == KeptEvents(d, t)
  <2>1. d = [snaps |-> d.snaps, events |-> d.events, openedAt |-> d.openedAt]
    BY DEF IsServed
  <2>2. n = [d EXCEPT !.snaps = s, !.events = e]
    BY DEF ReplayDataForTask
  <2> HIDE DEF n, s, e
  <2>3. n.openedAt = d.openedAt
    BY <2>1, <2>2
  <2>4. QED
    BY <2>3 DEF IsTimed
<1>4. size \in Nat /\ Rank(E, t, i0) <= size /\ Rank(E, t, i0) # 0
  <2>1. i0 \in Nat /\ 0 < i0 /\ i0 <= Len(E)
    BY <1>1
  <2>2. /\ Rank(E, t, 0) = 0 /\ Rank(E, t, 0) < Rank(E, t, i0)
        /\ Rank(E, t, i0) <= size /\ size \in Nat /\ Rank(E, t, i0) \in Nat
    BY <1>1, <2>1, RankSteps
  <2> HIDE DEF size
  <2>3. QED
    BY <2>2
<1>5. \A x \in 1 .. size :
         /\ n.events[x].at = P(x).at /\ n.events[x].action = P(x).action /\ n.events[x].anew = P(x).anew
         /\ n.events[x].changes = P(x).changes /\ n.events[x].after = P(x).after
         /\ n.events[x].since = IF x = 1 \/ K[x] = K[x - 1] + 1 THEN P(x).since
                                ELSE Max({P(x - 1).at, P(x).at}) - P(x - 1).at
  <2> DEFINE kept == KeptEvents(d, t)
  <2>1. \A x \in 1 .. size :
           /\ kept[x].at = P(x).at /\ kept[x].action = P(x).action /\ kept[x].anew = P(x).anew
           /\ kept[x].changes = P(x).changes /\ kept[x].after = P(x).after
           /\ kept[x].since = IF x = 1 \/ K[x] = K[x - 1] + 1 THEN P(x).since
                              ELSE Max({P(x - 1).at, P(x).at}) - P(x - 1).at
    <3>1. \A x \in 1 .. size : KeptAs(kept[x], E, K, x)
      BY <1>1, KeptWhole
    <3> HIDE DEF kept, K, size, E
    <3>2. QED
      BY <3>1 DEF KeptAs
  <2>2. n.events = kept
    BY <1>1
  <2> HIDE DEF kept, K, size, E, n
  <2>3. QED
    BY <2>1, <2>2
<1>6. /\ \A x \in 1 .. size : K[x] \in 1 .. Len(E)
      /\ \A x, y \in 1 .. size : x < y => K[x] < K[y]
  BY <1>1, KeptOnce, KeptOrder
<1>7. /\ \A i \in 1 .. Len(E) : E[i].at > Opened /\ E[i].at \in Nat /\ E[i].since \in Nat
      /\ \A i, j \in 1 .. Len(E) : i < j => E[i].at < E[j].at
      /\ \A i \in 1 .. Len(E) : i # 1 => E[i - 1].at + E[i].since <= E[i].at
  <2>1. \A i \in 1 .. Len(E) : E[i] \in Event
    BY <1>1, ElementOfSeq
  <2>2. \A i \in 1 .. Len(E) : E[i].at \in Nat /\ E[i].since \in Nat
    BY <2>1 DEF Event
  <2>3. QED
    BY <2>2 DEF IsTimed, InOrder
<1> HIDE DEF n, E, K, size
<1>8. \A x \in 1 .. size : n.events[x].at > Opened
  BY <1>5, <1>6, <1>7
<1>9. InOrder(n.events)
  BY <1>2, <1>5, <1>6, <1>7 DEF InOrder
\* Two of the task's events are adjacent, or the pause runs from one to the other.
<1>10. ASSUME NEW x \in 1 .. size, x # 1
       PROVE  /\ n.events[x - 1].at + n.events[x].since <= n.events[x].at
              /\ (\A i \in 1 .. Len(E) : i # 1 /\ ~E[i].anew => E[i - 1].at + E[i].since = E[i].at)
                    /\ (~n.events[x].anew \/ K[x] # K[x - 1] + 1)
                    => n.events[x - 1].at + n.events[x].since = n.events[x].at
  <2>1. x - 1 \in 1 .. size /\ x - 1 < x
    BY <1>4, <1>10
  <2> DEFINE a == P(x - 1).at
             b == P(x).at
  <2>2. K[x] \in 1 .. Len(E) /\ K[x - 1] \in 1 .. Len(E) /\ K[x - 1] < K[x]
    BY <1>6, <2>1
  <2>3. a \in Nat /\ b \in Nat /\ a < b
    BY <1>7, <2>2
  <2>4. n.events[x - 1].at = a /\ n.events[x].at = b
    BY <1>5, <2>1
  <2>5. CASE K[x] = K[x - 1] + 1
    <3>1. n.events[x].since = P(x).since /\ n.events[x].anew = P(x).anew
      BY <1>5, <2>5
    <3>2. K[x] # 1 /\ K[x] - 1 = K[x - 1]
      BY <1>1, <2>2, <2>5
    <3>3. QED
      BY <1>7, <2>2, <2>4, <3>1, <3>2
  <2>6. CASE K[x] # K[x - 1] + 1
    <3>1. n.events[x].since = Max({a, b}) - a
      BY <1>5, <1>10, <2>6
    <3> HIDE DEF a, b
    <3>2. Max({a, b}) = b
      <4>1. \A m \in {a, b} : (\A y \in {a, b} : m >= y) => m = b
        BY <2>3
      <4>2. b \in {a, b} /\ \A y \in {a, b} : b >= y
        BY <2>3
      <4>3. QED
        BY <4>1, <4>2 DEF Max
    <3>3. QED
      BY <2>3, <2>4, <3>1, <3>2
  <2>7. QED
    BY <2>5, <2>6
<1>11. n.events # <<>>
  <2>1. Len(n.events) # 0
    <3>1. Rank(E, t, i0) \in Nat
      <4>1. i0 \in Nat
        BY <1>1 DEF E
      <4>2. QED
        BY <4>1, RankSteps
    <3>2. QED
      BY <1>2, <1>4, <3>1
  <2>2. QED
    BY <2>1, EmptySeq
<1>12. IsTimed(n)
  BY <1>2, <1>3, <1>8, <1>9, <1>10, <1>11 DEF IsTimed
<1>13. ASSUME IsWhole(d) PROVE IsWhole(n) /\ BridgesOthers(n, d)
  <2>1. \A i \in 1 .. Len(E) : i # 1 /\ ~E[i].anew => E[i - 1].at + E[i].since = E[i].at
    BY <1>13 DEF IsWhole, E
  <2>2. IsWhole(n)
    BY <1>2, <1>10, <2>1 DEF IsWhole
  <2>3. ASSUME NEW x \in 1 .. size, x # 1, Between(n, d, x) PROVE K[x] # K[x - 1] + 1
    <3>1. PICK j \in 1 .. Len(E) : n.events[x - 1].at < E[j].at /\ E[j].at < n.events[x].at
      BY <2>3 DEF Between, E
    <3>2. x - 1 \in 1 .. size
      BY <1>4, <2>3
    <3>3. /\ K[x] \in 1 .. Len(E) /\ K[x - 1] \in 1 .. Len(E)
          /\ n.events[x].at = E[K[x]].at /\ n.events[x - 1].at = E[K[x - 1]].at
      BY <1>5, <1>6, <3>2
    <3>4. ~(j <= K[x - 1])
      <4>1. j = K[x - 1] => E[j].at = E[K[x - 1]].at
        OBVIOUS
      <4>2. j < K[x - 1] => E[j].at < E[K[x - 1]].at
        BY <1>7, <3>3
      <4>3. E[j].at \in Nat /\ E[K[x - 1]].at \in Nat
        BY <1>7, <3>3
      <4>4. QED
        BY <1>1, <3>1, <3>3, <4>1, <4>2, <4>3
    <3>5. ~(K[x] <= j)
      <4>1. j = K[x] => E[j].at = E[K[x]].at
        OBVIOUS
      <4>2. K[x] < j => E[K[x]].at < E[j].at
        BY <1>7, <3>3
      <4>3. E[j].at \in Nat /\ E[K[x]].at \in Nat
        BY <1>7, <3>3
      <4>4. QED
        BY <1>1, <3>1, <3>3, <4>1, <4>2, <4>3
    <3>6. QED
      BY <3>3, <3>4, <3>5
  <2>4. BridgesOthers(n, d)
    BY <1>2, <1>10, <2>1, <2>3 DEF BridgesOthers
  <2>5. QED
    BY <2>2, <2>4
<1>14. PastesAreWhole(d) => PastesAreWhole(n)
  <2> SUFFICES ASSUME PastesAreWhole(d), NEW x \in 1 .. Len(n.events), n.events[x].action = "paste"
               PROVE  /\ Len(n.events[x].changes) = 1 /\ n.events[x].changes[1].o = 0
                      /\ n.events[x].after = n.events[x].changes[1].t
    BY DEF PastesAreWhole
  <2>1. x \in 1 .. size /\ K[x] \in 1 .. Len(d.events)
    BY <1>2, <1>6 DEF E
  <2> DEFINE ev == d.events[K[x]]
  <2>2. n.events[x].action = ev.action /\ n.events[x].changes = ev.changes /\ n.events[x].after = ev.after
    BY <1>5, <2>1 DEF E
  <2>3. ev.action = "paste" => Len(ev.changes) = 1 /\ ev.changes[1].o = 0 /\ ev.after = ev.changes[1].t
    BY <2>1 DEF PastesAreWhole
  <2> HIDE DEF ev
  <2>4. QED
    BY <2>2, <2>3
<1>15. QED
  BY <1>12, <1>13, <1>14 DEF n

\* The last frame of a window is how the window leaves its file.
LEMMA FrameEnds ==
    ASSUME NEW d, NEW U, IsPayload(d, U), NEW ends, NEW i \in 1 .. Len(d.events),
           NEW w \in 1 .. Len(d.snaps), EventsUpTo(d, w - 1) < i, i = EventsUpTo(d, w),
           Before(d, ends, w) \in [FilesSeen(d) -> Text]
    PROVE  FrameText(d, ends, i)
             = PlayedFrom(d, Before(d, ends, w), w)[FileOf(d.events[i], IsMultiTask(d))]
<1> DEFINE cur == Before(d, ends, w)
           c == d.snaps[w].count
           f == FileOf(d.events[i], IsMultiTask(d))
<1>1. /\ EventsUpTo(d, w - 1) \in Nat /\ c \in Nat
      /\ EventsUpTo(d, w) = EventsUpTo(d, w - 1) + c
  BY WindowEvents
<1>2. i - EventsUpTo(d, w - 1) = c /\ i <= EventsUpTo(d, w)
  BY <1>1
<1>3. PICK g \in [0 .. c -> [FilesSeen(d) -> Text]] :
         Plays(g, EventsOf(d, w), IsMultiTask(d), cur) /\ PlayedFrom(d, cur, w) = g[c]
  BY WindowPlays
<1>4. FrameText(d, ends, i) = g[i - EventsUpTo(d, w - 1)][f]
  BY <1>2, <1>3, FramePlays
<1>5. QED
  BY <1>2, <1>3, <1>4

\* At the end of a replay that healed nothing, the file edited last is as its
\* last frame shows it.
LEMMA LastFrameIsFinal ==
    ASSUME NEW d, NEW U, IsPayload(d, U), Pass(d).wrong = {}, d.events # <<>>
    PROVE  LET L == Len(d.events)
           IN  FinalFiles(d)[FileOf(d.events[L], IsMultiTask(d))] = FrameText(d, Pass(d).ends, L)
<1> DEFINE L == Len(d.events)
           N == Len(d.snaps)
           f == FileOf(d.events[L], IsMultiTask(d))
           F == FilesSeen(d)
           ends == Pass(d).ends
           C(v) == EventsUpTo(d, v)
           cnt(v) == d.snaps[v].count
           frame == FrameText(d, ends, L)
<1>1. /\ d.events \in Seq(Event) /\ L \in Nat \ {0} /\ N \in Nat \ {0} /\ C(N) = L
      /\ \A v \in 1 .. N : cnt(v) \in Nat
  BY LenProperties, EmptySeq DEF IsPayload, IsSnap
<1>2. /\ \A v \in 0 .. N : C(v) \in Nat
      /\ \A v \in 1 .. N : C(v) = C(v - 1) + cnt(v)
  BY <1>1, Cuts
<1>3. /\ ends \in Seq([F -> Text]) /\ Passes(d, ends, {}, N)
  BY PassEnds DEF PassRecord
<1>4. /\ Len(ends) = N /\ \A v \in 1 .. N : ends[v] \in [F -> Text]
  <2> HIDE DEF ends, F, N
  <2>1. Len(ends) = N
    BY <1>3 DEF Passes
  <2>2. QED
    BY <1>3, <2>1, ElementOfSeq
<1>5. \A v \in 1 .. N : Before(d, ends, v) \in [F -> Text]
  <2> TAKE v \in 1 .. N
  <2>1. CASE v = 1
    <3>1. <<>> \in Text
      BY EmptySeq DEF Text
    <3>2. QED
      BY <2>1, <3>1 DEF Before, BlankFiles
  <2>2. CASE v # 1
    <3>1. v - 1 \in 1 .. N
      BY <1>1, <2>2
    <3> HIDE DEF ends, F, N
    <3>2. QED
      BY <1>4, <2>2, <3>1 DEF Before
  <2>3. QED
    BY <2>1, <2>2
<1>6. \A v \in 1 .. N : ends[v] = PlayedFrom(d, Before(d, ends, v), v)
  <2> TAKE v \in 1 .. N
  <2> DEFINE cur == Before(d, ends, v)
             played == PlayedFrom(d, cur, v)
  <2>1. cur \in [F -> Text]
    BY <1>5
  <2>2. WrongFrom(d, cur, v) = {} /\ ends[v] = HealedFrom(d, cur, v)
    <3>1. v \notin {w \in 1 .. N : WrongFrom(d, Before(d, ends, w), w) # {}}
      BY <1>3 DEF Passes
    <3>2. QED
      BY <1>3, <3>1 DEF Passes
  <2> HIDE DEF cur
  <2>3. played \in [F -> Text]
    BY <2>1, WindowType
  <2>4. HealedFrom(d, cur, v) = [e \in DOMAIN played |-> played[e]]
    BY <2>2 DEF HealedFrom
  <2> HIDE DEF played
  <2>5. QED
    BY <2>2, <2>3, <2>4 DEF played, cur
<1>7. PICK w \in 1 .. N : C(w - 1) < L /\ L <= C(w)
  <2>1. L \in 1 .. Len(d.events)
    BY <1>1
  <2> HIDE DEF L
  <2>2. QED
    BY <2>1, EveryEventIn
<1> HIDE DEF C, F, ends, f
<1>8. \A v \in 1 .. N : \E g \in [0 .. cnt(v) -> [F -> Text]] :
         /\ Plays(g, EventsOf(d, v), IsMultiTask(d), Before(d, ends, v))
         /\ ends[v] = g[cnt(v)]
  <2>1. \A v \in 1 .. N : \E g \in [0 .. cnt(v) -> [F -> Text]] :
            /\ Plays(g, EventsOf(d, v), IsMultiTask(d), Before(d, ends, v))
            /\ PlayedFrom(d, Before(d, ends, v), v) = g[cnt(v)]
    BY <1>5, WindowPlays DEF F
  <2>2. QED
    BY <1>6, <2>1
<1>9. ends[w][f] = frame
  <2> DEFINE i == L
  <2>1. /\ EventsUpTo(d, w - 1) < i /\ i = EventsUpTo(d, w) /\ i \in 1 .. Len(d.events)
        /\ Before(d, ends, w) \in [FilesSeen(d) -> Text]
    <3>1. C(w) <= L /\ C(w) \in Nat
      BY <1>1, <1>2, WindowEvents DEF C
    <3>2. L = C(w)
      BY <1>1, <1>7, <3>1
    <3>3. QED
      BY <1>1, <1>5, <1>7, <3>2 DEF C, F
  <2> HIDE DEF i
  <2>2. FrameText(d, ends, i)
          = PlayedFrom(d, Before(d, ends, w), w)[FileOf(d.events[i], IsMultiTask(d))]
    BY <2>1, FrameEnds
  <2>3. QED
    BY <1>6, <2>2 DEF i, f
\* No window after that one has an event.
<1> HIDE DEF frame, cnt
<1> DEFINE S == {k \in Nat : w + k <= N => ends[w + k][f] = frame /\ C(w + k) >= L}
<1>10. 0 \in S
  <2>1. w + 0 = w /\ C(w) \in Nat
    BY <1>1, <1>2
  <2>2. QED
    BY <1>1, <1>7, <1>9, <2>1
<1>11. ASSUME NEW k \in S PROVE k + 1 \in S
  <2> SUFFICES ASSUME w + (k + 1) <= N
               PROVE  ends[w + (k + 1)][f] = frame /\ C(w + (k + 1)) >= L
    OBVIOUS
  <2> DEFINE v == w + (k + 1)
  <2>1. v \in 1 .. N /\ v - 1 = w + k /\ v - 1 \in 0 .. N /\ v # 1 /\ w + k <= N
    BY <1>1
  <2>2. ends[v - 1][f] = frame /\ C(v - 1) >= L
    BY <2>1
  <2> HIDE DEF v, S
  <2>3. C(v) = C(v - 1) + cnt(v) /\ C(v - 1) \in Nat /\ cnt(v) \in Nat
    BY <1>1, <1>2, <2>1 DEF cnt
  <2>4. C(v) <= L
    BY <2>1, WindowEvents DEF C
  <2>5. cnt(v) = 0 /\ C(v) >= L
    BY <1>1, <2>2, <2>3, <2>4
  <2>6. PICK g \in [0 .. cnt(v) -> [F -> Text]] :
           /\ Plays(g, EventsOf(d, v), IsMultiTask(d), Before(d, ends, v))
           /\ ends[v] = g[cnt(v)]
    BY <1>8, <2>1
  <2>7. ends[v] = Before(d, ends, v)
    BY <2>5, <2>6 DEF Plays
  <2>8. Before(d, ends, v) = ends[v - 1]
    BY <2>1 DEF Before
  <2>9. QED
    BY <2>2, <2>5, <2>7, <2>8 DEF v
<1> HIDE DEF S
<1>12. S = Nat
  <2>1. S \subseteq Nat
    BY DEF S
  <2>2. QED
    BY <1>10, <1>11, <2>1, NatInd
<1>13. ends[N][f] = frame
  <2>1. N - w \in S /\ w + (N - w) = N /\ N <= N
    BY <1>1, <1>12
  <2>2. QED
    BY <2>1 DEF S
<1>14. FinalFiles(d) = ends[N]
  <2>1. ends # <<>>
    BY <1>1, <1>4
  <2>2. QED
    BY <1>4, <2>1 DEF FinalFiles, EndOf, Last, ends
<1>15. QED
  BY <1>13, <1>14 DEF f, frame, ends

\* An event is shown at its own moment, and the moments grow.
LEMMA MomentsAre ==
    ASSUME NEW d, IsTimed(d)
    PROVE  LET L == Len(d.events)
               m == Moments(d)
           IN  /\ L \in Nat \ {0} /\ DOMAIN m = 1 .. L
               /\ \A i \in 1 .. L : /\ d.events[i].at \in Nat /\ d.events[i].since \in Nat
                                    /\ m[i] = d.events[i].at - Opened /\ m[i] \in Nat \ {0}
               /\ \A i, j \in 1 .. L : i < j => m[i] < m[j]
               /\ Origin(d) = Opened /\ Duration(d) = m[L]
<1> DEFINE L == Len(d.events)
           m == Moments(d)
           rel(i) == d.events[i].at - Opened
<1>1. /\ L \in Nat \ {0} /\ DOMAIN d.events = 1 .. L /\ Opened \in Nat
      /\ \A i \in 1 .. L : d.events[i] \in Event
  BY LenProperties, EmptySeq, ElementOfSeq, RecordingAssumption DEF IsTimed
<1>2. /\ \A i \in 1 .. L : d.events[i].at \in Nat /\ d.events[i].since \in Nat /\ d.events[i].at > Opened
      /\ \A i, j \in 1 .. L : i < j => d.events[i].at < d.events[j].at
  <2>1. \A ev \in Event : ev.at \in Nat /\ ev.since \in Nat
    BY DEF Event
  <2>2. QED
    BY <1>1, <2>1 DEF IsTimed, InOrder
<1>3. Origin(d) = Opened
  <2>1. 1 \in 1 .. L
    BY <1>1
  <2>2. d.events[1].at > Opened /\ d.events[1].at \in Nat
    BY <1>2, <2>1
  <2>3. d.openedAt = {Opened}
    BY DEF IsTimed
  <2>4. QED
    BY <1>1, <2>2, <2>3 DEF Origin
<1>4. m = [i \in 1 .. L |-> Max({0} \cup {rel(j) : j \in 1 .. i})]
  BY <1>1, <1>3 DEF Moments
<1>5. ASSUME NEW i \in 1 .. L PROVE Max({0} \cup {rel(j) : j \in 1 .. i}) = rel(i) /\ rel(i) \in Nat \ {0}
  <2> DEFINE X == {0} \cup {rel(j) : j \in 1 .. i}
  <2>1. \A j \in 1 .. i : j \in 1 .. L /\ rel(j) \in Nat /\ rel(j) <= rel(i)
    <3> TAKE j \in 1 .. i
    <3>1. j \in 1 .. L /\ (j = i \/ j < i)
      BY <1>1
    <3>2. QED
      BY <1>1, <1>2, <3>1
  <2>2. rel(i) \in Nat \ {0} /\ i \in 1 .. i
    BY <1>1, <1>2
  <2> HIDE DEF rel
  <2>3. rel(i) \in X /\ \A y \in X : rel(i) >= y /\ y \in Nat
    BY <2>1, <2>2
  <2> HIDE DEF X
  <2>4. \A x \in X : (\A y \in X : x >= y) => x = rel(i)
    BY <2>3
  <2>5. Max(X) = rel(i)
    BY <2>3, <2>4 DEF Max
  <2>6. QED
    BY <2>2, <2>5 DEF X
<1>6. DOMAIN m = 1 .. L /\ \A i \in 1 .. L : m[i] = rel(i) /\ m[i] \in Nat \ {0}
  <2> HIDE DEF rel, m
  <2>1. QED
    BY <1>4, <1>5
<1>7. \A i, j \in 1 .. L : i < j => m[i] < m[j]
  <2> TAKE i, j \in 1 .. L
  <2> HAVE i < j
  <2>1. d.events[i].at < d.events[j].at /\ d.events[i].at \in Nat /\ d.events[j].at \in Nat
    BY <1>2
  <2> HIDE DEF m
  <2>2. QED
    BY <1>1, <1>6, <2>1
<1>8. Duration(d) = m[L]
  <2> HIDE DEF m
  <2>1. m \in [1 .. L -> Nat]
    BY <1>4, <1>6
  <2>2. m \in Seq(Nat)
    <3> HIDE DEF L
    <3>1. QED
      BY <1>1, <2>1, SeqDef
  <2>3. Len(m) = L
    <3>1. DOMAIN m = 1 .. Len(m) /\ Len(m) \in Nat
      BY <2>2, LenProperties
    <3>2. QED
      BY <1>1, <1>6, <3>1
  <2>4. d.events # <<>>
    BY DEF IsTimed
  <2>5. QED
    BY <2>3, <2>4 DEF Duration, Last, m
<1> HIDE DEF m
<1>9. QED
  BY <1>1, <1>2, <1>3, <1>6, <1>7, <1>8 DEF m

LEMMA FrameIndexIs ==
    ASSUME NEW d, IsTimed(d), NEW rel \in Int, NEW k \in 0 .. Len(d.events),
           k = 0 \/ Moments(d)[k] <= rel,
           \A i \in 1 .. Len(d.events) : k < i => ~(Moments(d)[i] <= rel)
    PROVE  FrameIndexAt(d, rel) = k
<1> DEFINE m == Moments(d)
           L == Len(d.events)
           X == {0} \cup {i \in 1 .. L : m[i] <= rel}
<1>1. L \in Nat /\ DOMAIN m = 1 .. L
  BY MomentsAre
<1> HIDE DEF m, L
<1>2. k \in Nat /\ k \in X
  BY <1>1 DEF m, L
<1>3. \A y \in X : k >= y /\ y \in Nat
  <2> TAKE y \in X
  <2>1. y = 0 \/ (y \in 1 .. L /\ m[y] <= rel)
    OBVIOUS
  <2>2. y \in 1 .. L /\ m[y] <= rel => ~(k < y)
    BY DEF m, L
  <2>3. QED
    BY <1>1, <1>2, <2>1, <2>2
<1>4. \A x \in X : (\A y \in X : x >= y) => x = k
  BY <1>2, <1>3
<1> HIDE DEF X
<1>5. Max(X) = k
  BY <1>2, <1>3, <1>4 DEF Max
<1>6. QED
  BY <1>1, <1>5 DEF FrameIndexAt, X, m, L

-----------------------------------------------------------------------------
(***************************************************************************)
(* Marks.                                                                  *)
(***************************************************************************)
InsertedStep(g, cs) ==
    [s \in SUBSET DOMAIN cs |->
        IF s = {} THEN 0 ELSE g[s \ {Max(s)}] + Len(cs[Max(s)].t)]

\* One change inserts its text.
LEMMA OneInserted ==
    ASSUME NEW cs, DOMAIN cs = {1}, Len(cs[1].t) \in Nat
    PROVE  Inserted(cs) = Len(cs[1].t)
<1> DEFINE iter == CHOOSE g : g = InsertedStep(g, cs)
           c == Len(cs[1].t)
           h == [s \in SUBSET {1} |-> IF s = {} THEN 0 ELSE c]
<1>1. Inserted(cs) = iter[DOMAIN cs]
  BY DEF Inserted, FoldLeft, MapThenFoldSet, InsertedStep
<1>2. Max({1}) = 1
  BY DEF Max
<1>3. h = InsertedStep(h, cs)
  <2>1. \A s \in SUBSET {1} : s = {} \/ s = {1}
    OBVIOUS
  <2>2. h[{}] = 0 /\ {1} \ {Max({1})} = {}
    BY <1>2
  <2>3. \A s \in SUBSET {1} :
           h[s] = IF s = {} THEN 0 ELSE h[s \ {Max(s)}] + Len(cs[Max(s)].t)
    <3> TAKE s \in SUBSET {1}
    <3>1. CASE s = {}
      BY <3>1
    <3>2. CASE s = {1}
      <4>1. h[s] = c /\ s # {}
        BY <3>2
      <4> HIDE DEF h
      <4>2. h[s \ {Max(s)}] = 0 /\ Len(cs[Max(s)].t) = c
        BY <1>2, <2>2, <3>2
      <4> HIDE DEF c
      <4>3. c \in Nat
        BY DEF c
      <4> DEFINE a == h[s \ {Max(s)}]
                 b == Len(cs[Max(s)].t)
      <4>4. a = 0 /\ b = c
        BY <4>2
      <4> HIDE DEF a, b
      <4>5. a + b = c
        BY <4>3, <4>4
      <4>6. h[s] = a + b
        BY <4>1, <4>5
      <4>7. QED
        BY <4>1, <4>6 DEF a, b
    <3>3. QED
      BY <2>1, <3>1, <3>2
  <2>4. QED
    BY <2>3 DEF InsertedStep
<1> HIDE DEF h
<1>4. iter = InsertedStep(iter, cs)
  BY <1>3
<1> HIDE DEF iter
<1>5. iter[{}] = 0 /\ iter[{1}] = iter[{1} \ {Max({1})}] + Len(cs[Max({1})].t)
  BY <1>4 DEF InsertedStep
<1>6. iter[{1}] = 0 + c
  BY <1>2, <1>5
<1>7. QED
  BY <1>1, <1>6

\* At the moment of an event the player shows the file the event is in, as
\* the event's frame has it.
LEMMA ShownAt ==
    ASSUME NEW n, NEW U, IsPayload(n, U), Pass(n).wrong = {}, IsTimed(n),
           NEW i \in 1 .. Len(n.events)
    PROVE  StateAt(n, Moments(n)[i]) =
              [file |-> FileOf(n.events[i], IsMultiTask(n)), text |-> FrameText(n, Pass(n).ends, i)]
<1> DEFINE L == Len(n.events)
           m == Moments(n)
           multi == IsMultiTask(n)
           frame(k) == FrameText(n, Pass(n).ends, k)
           file(k) == FileOf(n.events[k], multi)
<1>1. /\ L \in Nat \ {0} /\ \A k \in 1 .. L : m[k] \in Nat \ {0}
      /\ \A j, k \in 1 .. L : j < k => m[j] < m[k]
      /\ Duration(n) = m[L]
  BY MomentsAre
<1>2. Last(n.events) = n.events[L]
  BY DEF Last
<1>3. n.events # <<>>
  BY DEF IsTimed
<1> HIDE DEF m, L
<1>4. i \in 1 .. L /\ L \in 1 .. L
  BY <1>1 DEF L
<1>5. CASE i = L
  <2>1. m[i] >= Duration(n)
    BY <1>1, <1>4, <1>5
  <2>2. FinalFiles(n)[file(L)] = frame(L)
    BY <1>3, LastFrameIsFinal DEF L
  <2>3. StateAt(n, m[i]) = [file |-> file(L), text |-> FinalFiles(n)[file(L)]]
    <3> DEFINE rel == m[i]
    <3>1. rel >= Duration(n) /\ ~(rel < Duration(n))
      BY <1>1, <1>4, <1>5
    <3> HIDE DEF rel
    <3>2. StateAt(n, rel) = [file |-> file(L), text |-> FinalFiles(n)[file(L)]]
      BY <1>2, <3>1 DEF StateAt
    <3>3. QED
      BY <3>2 DEF rel
  <2>4. QED
    BY <1>5, <2>2, <2>3 DEF m
<1>6. CASE i # L
  <2> DEFINE rel == m[i]
  <2>1. rel < Duration(n) /\ ~(rel >= Duration(n)) /\ rel \in Int
    <3>1. i < L
      BY <1>1, <1>4, <1>6
    <3>2. m[i] < m[L] /\ m[i] \in Nat /\ m[L] \in Nat
      BY <1>1, <1>4, <3>1
    <3>3. QED
      BY <1>1, <3>2
  <2>2. FrameIndexAt(n, rel) = i
    <3>1. i \in 0 .. Len(n.events) /\ m[i] <= rel
      BY <1>1, <1>4 DEF L
    <3>2. \A k \in 1 .. Len(n.events) : i < k => ~(m[k] <= rel)
      <4> TAKE k \in 1 .. Len(n.events)
      <4> HAVE i < k
      <4>1. k \in 1 .. L
        BY DEF L
      <4>2. m[i] < m[k] /\ m[i] \in Nat /\ m[k] \in Nat
        BY <1>1, <1>4, <4>1
      <4>3. QED
        BY <4>2
    <3> HIDE DEF rel
    <3>3. QED
      BY <2>1, <3>1, <3>2, FrameIndexIs DEF m
  <2>3. i > 0
    BY <1>1, <1>4
  <2> HIDE DEF rel
  <2>4. StateAt(n, rel) = [file |-> file(i), text |-> frame(i)]
    BY <2>1, <2>2, <2>3 DEF StateAt
  <2>5. QED
    BY <2>4 DEF rel, m
<1>7. QED
  BY <1>5, <1>6

\* A timeline that is shown as it was recorded.
IsShown(n) ==
    /\ \E U : IsPayload(n, U)
    /\ Pass(n).wrong = {} /\ IsTimed(n) /\ PastesAreWhole(n)
    /\ \A i \in 1 .. Len(n.events) : FrameText(n, Pass(n).ends, i) = n.events[i].after

LEMMA PasteIsMarked ==
    ASSUME NEW n, IsShown(n), NEW i \in 1 .. Len(n.events),
           n.events[i].action = "paste", Len(n.events[i].changes[1].t) >= PasteMin
    PROVE  \E k \in PasteMarks(n) :
              /\ k.t = Moments(n)[i]
              /\ k.file = StateAt(n, Moments(n)[i]).file
              /\ SubSeq(StateAt(n, Moments(n)[i]).text, k.start + 1, k.end)
                   = n.events[i].changes[1].t
<1> DEFINE ev == n.events[i]
           c == ev.changes[1]
           multi == IsMultiTask(n)
<1>1. PICK U : IsPayload(n, U)
  BY DEF IsShown
<1>2. StateAt(n, Moments(n)[i]) = [file |-> FileOf(ev, multi), text |-> ev.after]
  <2>1. FrameText(n, Pass(n).ends, i) = ev.after
    BY DEF IsShown
  <2>2. StateAt(n, Moments(n)[i]) = [file |-> FileOf(ev, multi), text |-> FrameText(n, Pass(n).ends, i)]
    BY <1>1, ShownAt DEF IsShown
  <2>3. QED
    BY <2>1, <2>2
<1>3. n.events \in Seq(Event) /\ DOMAIN n.events = 1 .. Len(n.events) /\ ev \in Event
  BY LenProperties, ElementOfSeq DEF IsShown, IsTimed
<1>4. ev.changes \in Seq(OneEdit) /\ Len(ev.changes) = 1 /\ c.o = 0 /\ ev.after = c.t
  BY <1>3 DEF Event, IsShown, PastesAreWhole
<1>5. DOMAIN ev.changes = {1} /\ ev.changes # <<>> /\ c \in OneEdit
  BY <1>4, LenProperties, ElementOfSeq, EmptySeq
<1>6. c.t \in Seq(Nat) /\ Len(c.t) \in Nat
  BY <1>5, LenProperties DEF OneEdit, Text
<1>7. IsMarked(ev)
  <2>1. Inserted(ev.changes) = Len(c.t)
    BY <1>5, <1>6, OneInserted
  <2>2. QED
    BY <1>5, <2>1 DEF IsMarked, InsertedChars
<1> DEFINE mark == [t |-> Moments(n)[i], file |-> FileOf(ev, multi),
                    start |-> c.o, end |-> c.o + Len(c.t)]
<1>8. mark \in PasteMarks(n)
  <2>1. i \in {j \in DOMAIN n.events : IsMarked(n.events[j])}
    BY <1>3, <1>7
  <2>2. QED
    BY <2>1 DEF PasteMarks
<1>9. mark.t = Moments(n)[i] /\ mark.file = FileOf(ev, multi) /\ mark.start + 1 = 1 /\ mark.end = Len(c.t)
  BY <1>4, <1>6
<1>10. SubSeq(c.t, 1, Len(c.t)) = c.t
  BY <1>6, SubSeqFull
<1> HIDE DEF mark, c
<1>11. SubSeq(ev.after, mark.start + 1, mark.end) = c.t
  BY <1>4, <1>9, <1>10
<1> HIDE DEF ev
<1>12. QED
  BY <1>2, <1>8, <1>9, <1>11 DEF ev, c

LEMMA SessionIsShown ==
    ASSUME Story, Clock, ~torn, log # <<>>
    PROVE  IsShown(ReplayData)
<1> DEFINE d == ReplayData
<1>1. RecordIsTyped
  BY DEF Story
<1>2. IsPayload(d, Task) /\ DOMAIN d.events = 1 .. Len(d.events)
  BY <1>1, RecordIsPayload, LenProperties DEF IsPayload
<1>3. Exact(d) /\ FrameTexts(d) = [i \in DOMAIN d.events |-> d.events[i].after]
  BY StoryIsExact DEF ReplayIsExact
<1>4. Pass(d).wrong = {}
  BY <1>3 DEF Exact
<1>5. IsTimed(d) /\ PastesAreWhole(d)
  BY RecordIsTimed
<1> HIDE DEF d
<1>6. \A i \in 1 .. Len(d.events) : FrameText(d, Pass(d).ends, i) = d.events[i].after
  <2> TAKE i \in 1 .. Len(d.events)
  <2>1. FrameTexts(d)[i] = FrameText(d, Pass(d).ends, i)
    BY <1>2 DEF FrameTexts
  <2>2. QED
    BY <1>2, <1>3, <2>1
<1>7. QED
  BY <1>2, <1>4, <1>5, <1>6 DEF IsShown, d

LEMMA TaskIsShown ==
    ASSUME NEW d, NEW U, IsServed(d, U), IsShown(d), NEW i0 \in 1 .. Len(d.events)
    PROVE  /\ IsShown(ReplayDataForTask(d, d.events[i0].task))
           /\ IsWhole(d) => /\ IsWhole(ReplayDataForTask(d, d.events[i0].task))
                            /\ BridgesOthers(ReplayDataForTask(d, d.events[i0].task), d)
<1> DEFINE t == d.events[i0].task
           n == ReplayDataForTask(d, t)
           K == KeptIn(d.events, t)
           size == Rank(d.events, t, Len(d.events))
<1>1. t \in U /\ d.events \in Seq(Event) /\ d.events[i0].task = t
  BY DEF IsServed, IsPayload
<1> HIDE DEF t
<1>2. IsTimed(d) /\ PastesAreWhole(d) /\ Pass(d).wrong = {}
  BY DEF IsShown
<1>3. IsTimed(n) /\ (IsWhole(d) => IsWhole(n) /\ BridgesOthers(n, d)) /\ PastesAreWhole(n)
  BY <1>1, <1>2, TaskIsTimed
<1>4. IsPayload(n, {t}) /\ n.events = KeptEvents(d, t)
  BY <1>1, Narrowed
<1>5. Pass(n).wrong = {}
  BY <1>1, <1>2, PassBeside
<1>6. Len(n.events) = size
  BY <1>1, <1>4, EventsKept
<1>7. ASSUME NEW x \in 1 .. Len(n.events)
      PROVE  FrameText(n, Pass(n).ends, x) = n.events[x].after
  <2> DEFINE i == K[x]
  <2>1. i \in 1 .. Len(d.events) /\ d.events[i].task = t /\ Rank(d.events, t, i) = x
    BY <1>1, <1>6, KeptOnce
  <2>2. n.events[x].after = d.events[i].after
    <3>1. KeptAs(KeptEvents(d, t)[x], d.events, K, x)
      BY <1>1, <1>6, KeptWhole
    <3>2. QED
      BY <1>4, <3>1 DEF KeptAs
  <2> HIDE DEF i, n
  <2>3. FrameText(n, Pass(n).ends, x) = FrameText(d, Pass(d).ends, i)
    BY <2>1, FrameBeside DEF n
  <2>4. FrameText(d, Pass(d).ends, i) = d.events[i].after
    BY <2>1 DEF IsShown
  <2>5. QED
    BY <2>2, <2>3, <2>4
<1> HIDE DEF n
<1>8. IsShown(n)
  BY <1>3, <1>4, <1>5, <1>7 DEF IsShown
<1>9. QED
  BY <1>3, <1>8 DEF n, t

\* Nothing happens between two events of the record.
LEMMA NothingBetween ==
    ASSUME NEW d, IsTimed(d), NEW i \in 1 .. Len(d.events), i # 1
    PROVE  ~Between(d, d, i)
<1> DEFINE E == d.events
<1>1. E \in Seq(Event) /\ Len(E) \in Nat
  BY LenProperties DEF IsTimed
<1>2. \A j, k \in 1 .. Len(E) : j < k => E[j].at < E[k].at
  BY DEF IsTimed, InOrder
<1>3. \A j \in 1 .. Len(E) : E[j].at \in Nat
  <2>1. \A j \in 1 .. Len(E) : E[j] \in Event
    BY <1>1, ElementOfSeq
  <2>2. QED
    BY <2>1 DEF Event
<1> SUFFICES ASSUME NEW j \in 1 .. Len(E), E[i - 1].at < E[j].at, E[j].at < E[i].at
             PROVE  FALSE
  BY DEF Between
<1> HIDE DEF E
<1>4. i \in 1 .. Len(E) /\ i - 1 \in 1 .. Len(E)
  BY <1>1 DEF E
<1>5. j < i - 1 \/ j = i - 1 \/ j = i \/ i < j
  BY <1>1, <1>4
<1>6. QED
  BY <1>2, <1>3, <1>4, <1>5

\* The replays an instructor may be shown.
Replays == {ReplayData} \cup
    {ReplayDataForTask(ReplayData, ReplayData.events[i].task) : i \in DOMAIN ReplayData.events}

LEMMA ReplaysAreShown ==
    ASSUME Story, Clock, ~torn, log # <<>>, NEW n \in Replays
    PROVE  /\ IsShown(n)
           /\ (\A i \in DOMAIN ReplayData.events : ReplayData.events[i].at = Time[i]) =>
                 IsWhole(n) /\ BridgesOthers(n, ReplayData)
<1> DEFINE d == ReplayData
<1>1. IsShown(d)
  BY SessionIsShown
<1>2. (\A i \in DOMAIN d.events : d.events[i].at = Time[i]) => IsWhole(d)
  BY RecordIsTimed
<1>3. IsServed(d, Task)
  BY RecordIsServed DEF Story
<1>4. DOMAIN d.events = 1 .. Len(d.events)
  BY <1>1, LenProperties DEF IsShown, IsTimed
<1>5. n = d \/ \E i \in DOMAIN d.events : n = ReplayDataForTask(d, d.events[i].task)
  BY DEF Replays
<1> HIDE DEF d
<1>6. CASE n = d
  <2>1. IsTimed(d)
    BY <1>1 DEF IsShown
  <2>2. BridgesOthers(d, d)
    BY <2>1, NothingBetween DEF BridgesOthers
  <2>3. QED
    BY <1>1, <1>2, <1>6, <2>2 DEF d
<1>7. ASSUME NEW i \in DOMAIN d.events, n = ReplayDataForTask(d, d.events[i].task)
      PROVE  IsShown(n) /\ (IsWhole(d) => IsWhole(n) /\ BridgesOthers(n, d))
  BY <1>1, <1>3, <1>4, <1>7, TaskIsShown
<1>8. QED
  BY <1>2, <1>5, <1>6, <1>7 DEF d

LEMMA PastesMarkedIn == Story /\ Clock => PastesAreMarked
<1> SUFFICES ASSUME Story, Clock, ~torn, log # <<>>, NEW n \in Replays,
                    NEW i \in DOMAIN n.events,
                    n.events[i].action = "paste", Len(n.events[i].changes[1].t) >= PasteMin
             PROVE  \E k \in PasteMarks(n) :
                       /\ k.t = Moments(n)[i]
                       /\ k.file = StateAt(n, Moments(n)[i]).file
                       /\ SubSeq(StateAt(n, Moments(n)[i]).text, k.start + 1, k.end)
                            = n.events[i].changes[1].t
  BY DEF PastesAreMarked, Replays
<1>1. IsShown(n)
  BY ReplaysAreShown
<1>2. i \in 1 .. Len(n.events)
  BY <1>1, LenProperties DEF IsShown, IsTimed
<1>3. QED
  BY <1>1, <1>2, PasteIsMarked

LEMMA ClockRuns == Spec => [](Story /\ Clock)
<1>1. Init => Story /\ Clock
  BY StoryStart, ClockStart
<1>2. Story /\ Clock /\ [Next]_vars => Story' /\ Clock'
  BY StoryStep, ClockStep
<1>3. QED
  BY <1>1, <1>2, PTL DEF Spec

\* Every edit recorded as a paste of PASTE_MARK_MIN_CHARS or more has a mark at
\* its moment, in the file the player shows then, over the pasted text: in the
\* replay of the session and in that of every task.
THEOREM PastesMarked == Spec => []PastesAreMarked
<1>1. Story /\ Clock => PastesAreMarked
  BY PastesMarkedIn
<1>2. QED
  BY <1>1, ClockRuns, PTL

-----------------------------------------------------------------------------
(***************************************************************************)
(* Idle time.                                                              *)
(***************************************************************************)
PauseBefore(d, i) == IF i = 1 THEN Moments(d)[1] ELSE d.events[i].since

\* The pause before an event begins no earlier than the event before it.
LEMMA PausesAre ==
    ASSUME NEW d, IsTimed(d)
    PROVE  /\ Gaps(d) = {[start |-> Moments(d)[i] - PauseBefore(d, i), end |-> Moments(d)[i]] :
                            i \in {j \in 1 .. Len(d.events) : PauseBefore(d, j) > IdleGap}}
           /\ \A i \in 1 .. Len(d.events) :
                 /\ PauseBefore(d, i) \in Nat /\ Moments(d)[i] - PauseBefore(d, i) >= 0
                 /\ i # 1 => /\ i - 1 \in 1 .. Len(d.events)
                             /\ Moments(d)[i - 1] <= Moments(d)[i] - PauseBefore(d, i)
<1> DEFINE m == Moments(d)
           L == Len(d.events)
           BeforeOf(i) == IF i = 1 THEN m[1] ELSE d.events[i].since
<1>1. /\ L \in Nat \ {0} /\ DOMAIN m = 1 .. L
      /\ \A i \in 1 .. L : /\ d.events[i].at \in Nat /\ d.events[i].since \in Nat
                           /\ m[i] = d.events[i].at - Opened /\ m[i] \in Nat \ {0}
      /\ Opened \in Nat
  BY MomentsAre, RecordingAssumption
<1>2. \A i \in 1 .. L : i # 1 => d.events[i - 1].at + d.events[i].since <= d.events[i].at
  BY DEF IsTimed
<1> HIDE DEF m, L
<1>3. Gaps(d) = {[start |-> m[i] - BeforeOf(i), end |-> m[i]] : i \in {j \in 1 .. L : BeforeOf(j) > IdleGap}}
  BY <1>1 DEF Gaps, m
<1>4. ASSUME NEW i \in 1 .. L
      PROVE  /\ BeforeOf(i) \in Nat /\ m[i] - BeforeOf(i) >= 0
             /\ i # 1 => i - 1 \in 1 .. L /\ m[i - 1] <= m[i] - BeforeOf(i)
  <2>1. CASE i = 1
    BY <1>1, <2>1
  <2>2. CASE i # 1
    <3>1. i - 1 \in 1 .. L
      BY <1>1, <2>2
    <3> DEFINE a == d.events[i - 1].at
               b == d.events[i].at
               s == d.events[i].since
    <3>2. a \in Nat /\ b \in Nat /\ s \in Nat /\ a + s <= b
      BY <1>1, <1>2, <2>2, <3>1
    <3>3. m[i - 1] = a - Opened /\ m[i] = b - Opened /\ m[i - 1] \in Nat /\ BeforeOf(i) = s
      BY <1>1, <2>2, <3>1
    <3> HIDE DEF a, b, s, BeforeOf
    <3>4. m[i - 1] <= m[i] - s /\ m[i] - s >= 0
      BY <1>1, <3>2, <3>3
    <3>5. QED
      BY <3>1, <3>2, <3>3, <3>4
  <2>3. QED
    BY <2>1, <2>2
<1>5. QED
  BY <1>3, <1>4 DEF PauseBefore, m, L

\* Fast-forwarding passes over no event.
LEMMA SkipKeepsFrame ==
    ASSUME NEW d, IsTimed(d), NEW next \in Int
    PROVE  FrameIndexAt(d, SkipIdle(d, next)) = FrameIndexAt(d, next)
<1> DEFINE m == Moments(d)
           L == Len(d.events)
           inside == {g \in Gaps(d) : next > g.start + SkipAfter /\ next < g.end - SkipBefore}
           gap == CHOOSE g \in inside : TRUE
<1>1. CASE inside = {}
  BY <1>1 DEF SkipIdle
<1>2. CASE inside # {}
  <2>1. gap \in Gaps(d) /\ next > gap.start + SkipAfter /\ next < gap.end - SkipBefore
    <3>1. gap \in inside
      BY <1>2
    <3> HIDE DEF gap
    <3>2. QED
      BY <3>1
  <2>2. SkipIdle(d, next) = gap.end - SkipTo
    BY <1>2 DEF SkipIdle
  <2> HIDE DEF gap, inside, m, L
  <2>3. PICK i \in 1 .. L : gap = [start |-> m[i] - PauseBefore(d, i), end |-> m[i]]
    BY <2>1, PausesAre DEF m, L
  <2>4. /\ L \in Nat /\ m[i] \in Nat
        /\ \A j \in 1 .. L : m[j] \in Nat
        /\ \A j, k \in 1 .. L : j < k => m[j] < m[k]
    BY MomentsAre DEF m, L
  <2> DEFINE pause == PauseBefore(d, i)
             to == m[i] - SkipTo
  <2>5. pause \in Nat /\ m[i] - pause >= 0 /\ (i # 1 => i - 1 \in 1 .. L /\ m[i - 1] <= m[i] - pause)
    BY PausesAre DEF m, L
  <2>6. gap.start = m[i] - pause /\ gap.end = m[i]
    BY <2>3
  <2>7. SkipAfter \in Nat /\ SkipBefore \in Nat /\ SkipTo \in Nat \ {0} /\ SkipTo < SkipBefore
    BY TimelineAssumption
  <2> HIDE DEF pause
  <2>8. next > m[i] - pause + SkipAfter /\ next < m[i] - SkipBefore
    BY <2>1, <2>6
  <2>9. to \in Int /\ next <= to /\ ~(m[i] <= to) /\ ~(m[i] <= next)
    BY <2>4, <2>7, <2>8
  <2>10. i - 1 = 0 \/ (m[i - 1] <= next /\ m[i - 1] <= to)
    <3>1. CASE i = 1
      BY <3>1
    <3>2. CASE i # 1
      <4>1. i - 1 \in 1 .. L /\ m[i - 1] <= m[i] - pause /\ m[i - 1] \in Nat
        BY <2>4, <2>5, <3>2
      <4>2. m[i - 1] <= next
        BY <2>4, <2>5, <2>7, <2>8, <4>1
      <4>3. QED
        BY <2>9, <4>1, <4>2
    <3>3. QED
      BY <3>1, <3>2
  <2> HIDE DEF to
  <2>11. \A j \in 1 .. L : i - 1 < j => ~(m[j] <= next) /\ ~(m[j] <= to)
    <3> TAKE j \in 1 .. L
    <3> HAVE i - 1 < j
    <3>1. m[i] <= m[j] /\ m[j] \in Nat
      <4>1. i = j \/ i < j
        BY <2>4
      <4>2. QED
        BY <2>4, <4>1
    <3>2. QED
      BY <2>4, <2>9, <3>1
  <2> DEFINE k == i - 1
  <2>12. k \in 0 .. L
    BY <2>4
  <2> HIDE DEF k
  <2>13. FrameIndexAt(d, next) = k
    BY <2>10, <2>11, <2>12, FrameIndexIs DEF k, m, L
  <2>14. FrameIndexAt(d, to) = k
    BY <2>9, <2>10, <2>11, <2>12, FrameIndexIs DEF k, m, L
  <2>15. QED
    BY <2>2, <2>6, <2>13, <2>14 DEF to
<1>3. QED
  BY <1>1, <1>2

\* A pause that runs from the event before is a gap when it is long.
LEMMA PausesAreGaps ==
    ASSUME NEW d, IsTimed(d), NEW i \in DOMAIN Moments(d) \ {1},
           d.events[i - 1].at + d.events[i].since = d.events[i].at,
           Moments(d)[i] - Moments(d)[i - 1] > IdleGap
    PROVE  [start |-> Moments(d)[i - 1], end |-> Moments(d)[i]] \in Gaps(d)
<1> DEFINE m == Moments(d)
           L == Len(d.events)
           s == d.events[i].since
<1>1. /\ L \in Nat \ {0} /\ DOMAIN m = 1 .. L
      /\ \A j \in 1 .. L : /\ d.events[j].at \in Nat /\ d.events[j].since \in Nat
                           /\ m[j] = d.events[j].at - Opened /\ m[j] \in Nat \ {0}
      /\ Opened \in Nat
  BY MomentsAre, RecordingAssumption
<1> HIDE DEF m, L
<1>2. i \in 1 .. L /\ i - 1 \in 1 .. L /\ i # 1
  BY <1>1 DEF m
<1>3. d.events[i - 1].at + s = d.events[i].at
  OBVIOUS
<1>4. m[i] - m[i - 1] = s /\ m[i] - s = m[i - 1]
  <2> DEFINE a == d.events[i - 1].at
             b == d.events[i].at
  <2>1. a \in Nat /\ b \in Nat /\ s \in Nat /\ m[i] = b - Opened /\ m[i - 1] = a - Opened
    BY <1>1, <1>2
  <2> HIDE DEF a, b, s
  <2>2. a + s = b
    BY <1>3 DEF a, b
  <2>3. QED
    BY <1>1, <2>1, <2>2
<1>5. PauseBefore(d, i) = s
  BY <1>2 DEF PauseBefore
<1>6. s > IdleGap
  BY <1>4 DEF m
<1> HIDE DEF s
<1>7. [start |-> m[i] - s, end |-> m[i]] \in Gaps(d)
  BY <1>2, <1>5, <1>6, PausesAre DEF m, L
<1>8. QED
  BY <1>4, <1>7 DEF m

\* The mark of a tab-out stands between the events it happened between.
TabOut(at) == [type |-> "TAB_OUT", at |-> at]

LEMMA LargerOfTwo ==
    ASSUME NEW a \in Int, NEW b \in Int
    PROVE  Max({a, b}) = IF a <= b THEN b ELSE a
<1> DEFINE m == IF a <= b THEN b ELSE a
<1>1. m \in {a, b} /\ \A y \in {a, b} : m >= y
  OBVIOUS
<1>2. \A x \in {a, b} : (\A y \in {a, b} : x >= y) => x = m
  OBVIOUS
<1> HIDE DEF m
<1>3. Max({a, b}) = m
  BY <1>1, <1>2 DEF Max
<1>4. QED
  BY <1>3 DEF m

LEMMA TabOutBetween ==
    ASSUME NEW n, IsTimed(n), NEW marks,
           NEW at \in {Opened, Last(n.events).at + 1} \cup {n.events[i].at : i \in DOMAIN Moments(n)}
    PROVE  \E k \in TickMarks(n, marks, {TabOut(at)}) :
              /\ k.kind = "tabout"
              /\ \A i \in DOMAIN Moments(n) : /\ n.events[i].at <= at => Moments(n)[i] <= k.t
                                              /\ n.events[i].at >= at => Moments(n)[i] >= k.t
<1> DEFINE m == Moments(n)
           L == Len(n.events)
           D == Duration(n)
           rel == at - Opened
           Clamp(t) == Max({0, Min({D, t})})
           mark == [kind |-> "tabout", t |-> Clamp(rel)]
<1>1. /\ L \in Nat \ {0} /\ DOMAIN m = 1 .. L
      /\ \A i \in 1 .. L : /\ n.events[i].at \in Nat
                           /\ m[i] = n.events[i].at - Opened /\ m[i] \in Nat \ {0}
      /\ \A i, j \in 1 .. L : i < j => m[i] < m[j]
      /\ Opened \in Nat /\ Origin(n) = Opened /\ D = m[L]
  BY MomentsAre, RecordingAssumption
<1> HIDE DEF m, D
<1>2. Last(n.events).at = n.events[L].at
  BY DEF Last
<1> HIDE DEF L
<1>3. L \in 1 .. L /\ D \in Nat \ {0} /\ \A i \in 1 .. L : m[i] <= D
  <2>1. L \in 1 .. L
    BY <1>1
  <2>2. D \in Nat \ {0}
    BY <1>1, <2>1
  <2>3. ASSUME NEW i \in 1 .. L PROVE m[i] <= D
    <3>1. CASE i = L
      BY <1>1, <2>2, <3>1
    <3>2. CASE i # L
      <4>1. i < L
        BY <1>1, <3>2
      <4>2. m[i] < m[L] /\ m[i] \in Nat /\ m[L] \in Nat
        BY <1>1, <2>1, <4>1
      <4>3. QED
        BY <1>1, <4>2
    <3>3. QED
      BY <3>1, <3>2
  <2>4. QED
    BY <2>1, <2>2, <2>3
<1>4. at \in Nat /\ rel \in Nat
  <2>1. CASE at = Opened
    BY <1>1, <2>1
  <2>2. CASE at = n.events[L].at + 1
    BY <1>1, <1>3, <2>2
  <2>3. ASSUME NEW i \in 1 .. L, at = n.events[i].at PROVE at \in Nat /\ rel \in Nat
    BY <1>1, <2>3
  <2>4. QED
    BY <1>1, <1>2, <2>1, <2>2, <2>3 DEF m
<1>5. Clamp(rel) = (IF D <= rel THEN D ELSE rel) /\ Clamp(rel) \in Nat
  <2> DEFINE least == Min({D, rel})
  <2>1. least = (IF D <= rel THEN D ELSE rel)
    BY <1>3, <1>4, MinOfTwo
  <2> HIDE DEF rel
  <2>2. least \in Nat
    BY <1>3, <1>4, <2>1
  <2> HIDE DEF least
  <2>3. Max({0, least}) = least
    BY <2>2, LargerOfTwo
  <2>4. QED
    BY <2>1, <2>2, <2>3 DEF least
<1>6. mark \in TickMarks(n, marks, {TabOut(at)})
  <2> DEFINE e == TabOut(at)
             shown == {a \in {e} : TickKind(a.type) # "none"}
  <2>1. e.type = "TAB_OUT" /\ e.at = at
    BY DEF TabOut
  <2>2. TickKind(e.type) = "tabout"
    BY <2>1 DEF TickKind
  <2> HIDE DEF e
  <2>3. e \in shown
    BY <2>2
  <2>4. mark = [kind |-> TickKind(e.type), t |-> Clamp(e.at - Origin(n))]
    BY <1>1, <2>1, <2>2
  <2> HIDE DEF mark
  <2>5. D # 0
    BY <1>3
  <2>6. TickMarks(n, marks, {e}) =
          {[kind |-> "paste", t |-> Clamp(a.t)] : a \in marks}
            \cup {[kind |-> TickKind(a.type), t |-> Clamp(a.at - Origin(n))] : a \in shown}
    BY <2>5 DEF TickMarks, D
  <2> HIDE DEF shown
  <2>7. QED
    BY <2>3, <2>4, <2>6 DEF e
<1> DEFINE t == Clamp(rel)
<1>7. mark.kind = "tabout" /\ mark.t = t
  OBVIOUS
<1> HIDE DEF mark, t
<1>8. ASSUME NEW i \in 1 .. L
      PROVE  /\ n.events[i].at <= at => m[i] <= t
             /\ n.events[i].at >= at => m[i] >= t
  <2> DEFINE b == n.events[i].at
  <2>1. b \in Nat /\ m[i] = b - Opened /\ m[i] <= D /\ m[i] \in Nat
    BY <1>1, <1>3
  <2>2. t = (IF D <= rel THEN D ELSE rel)
    BY <1>5 DEF t
  <2> HIDE DEF b
  <2>3. (b <= at => m[i] <= t) /\ (b >= at => m[i] >= t)
    BY <1>1, <1>3, <1>4, <2>1, <2>2
  <2>4. QED
    BY <2>3 DEF b
<1>9. QED
  BY <1>1, <1>6, <1>7, <1>8 DEF m

LEMMA TimeKeptIn == Story /\ Clock => TimelineKeepsTime
<1> SUFFICES ASSUME Story, Clock, ~torn, log # <<>>, NEW n \in Replays
             PROVE  LET d     == ReplayData
                        whole == \A i \in DOMAIN d.events : d.events[i].at = Time[i]
                        m     == Moments(n)
                        Elsewhere(i) == \E j \in DOMAIN d.events :
                            n.events[i - 1].at < d.events[j].at /\ d.events[j].at < n.events[i].at
                    IN  /\ \A g \in Gaps(n) :
                            \A next \in {g.start + SkipAfter + 1, g.end - SkipBefore - 1} :
                                FrameIndexAt(n, SkipIdle(n, next)) = FrameIndexAt(n, next)
                        /\ whole =>
                            \A i \in DOMAIN m \ {1} :
                                m[i] - m[i - 1] > IdleGap /\ (~n.events[i].anew \/ Elsewhere(i)) =>
                                    [start |-> m[i - 1], end |-> m[i]] \in Gaps(n)
                        /\ \A at \in {Opened, Last(n.events).at + 1} \cup {n.events[i].at : i \in DOMAIN m} :
                            LET tier1 == TierOneShown({[type |-> "TAB_OUT", at |-> at]}, n # d, FALSE)
                            IN  tier1 # {} => \E k \in TickMarks(n, PasteMarks(n), tier1) :
                                /\ k.kind = "tabout"
                                /\ \A i \in DOMAIN m : /\ n.events[i].at <= at => m[i] <= k.t
                                                      /\ n.events[i].at >= at => m[i] >= k.t
  BY DEF TimelineKeepsTime, Replays
<1> DEFINE d == ReplayData
           whole == \A i \in DOMAIN d.events : d.events[i].at = Time[i]
           m == Moments(n)
           Elsewhere(i) == \E j \in DOMAIN d.events :
               n.events[i - 1].at < d.events[j].at /\ d.events[j].at < n.events[i].at
<1>1. IsTimed(n) /\ (whole => IsWhole(n) /\ BridgesOthers(n, d))
  BY ReplaysAreShown DEF IsShown
<1>2. ASSUME NEW g \in Gaps(n), NEW next \in {g.start + SkipAfter + 1, g.end - SkipBefore - 1}
      PROVE  FrameIndexAt(n, SkipIdle(n, next)) = FrameIndexAt(n, next)
  <2>1. g.start \in Int /\ g.end \in Int
    <3>1. PICK i \in 1 .. Len(n.events) : g = [start |-> m[i] - PauseBefore(n, i), end |-> m[i]]
      BY <1>1, PausesAre
    <3> DEFINE a == m[i]
               b == PauseBefore(n, i)
    <3>2. a \in Nat /\ b \in Nat
      BY <1>1, PausesAre, MomentsAre
    <3>3. g.start = a - b /\ g.end = a
      BY <3>1
    <3> HIDE DEF a, b
    <3>4. QED
      BY <3>2, <3>3
  <2>2. next \in Int
    BY <2>1, TimelineAssumption
  <2>3. QED
    BY <1>1, <2>2, SkipKeepsFrame
<1>3. ASSUME whole, NEW i \in DOMAIN m \ {1}, m[i] - m[i - 1] > IdleGap,
             ~n.events[i].anew \/ Elsewhere(i)
      PROVE  [start |-> m[i - 1], end |-> m[i]] \in Gaps(n)
  <2>1. DOMAIN m = 1 .. Len(n.events)
    BY <1>1, MomentsAre
  <2>2. DOMAIN d.events = 1 .. Len(d.events)
    <3>1. RecordIsTyped
      BY DEF Story
    <3>2. QED
      BY <3>1, RecordIsPayload, LenProperties DEF IsPayload
  <2>3. Elsewhere(i) => Between(n, d, i)
    BY <2>2 DEF Between
  <2> HIDE DEF d, whole
  <2>4. n.events[i - 1].at + n.events[i].since = n.events[i].at
    BY <1>1, <1>3, <2>1, <2>3 DEF IsWhole, BridgesOthers
  <2>5. QED
    BY <1>1, <1>3, <2>4, PausesAreGaps
<1>4. ASSUME NEW at \in {Opened, Last(n.events).at + 1} \cup {n.events[i].at : i \in DOMAIN m},
             TierOneShown({TabOut(at)}, n # d, FALSE) # {}
      PROVE  \E k \in TickMarks(n, PasteMarks(n), TierOneShown({TabOut(at)}, n # d, FALSE)) :
                /\ k.kind = "tabout"
                /\ \A i \in DOMAIN m : /\ n.events[i].at <= at => m[i] <= k.t
                                      /\ n.events[i].at >= at => m[i] >= k.t
  <2>1. TierOneShown({TabOut(at)}, n # d, FALSE) = {TabOut(at)}
    BY <1>4 DEF TierOneShown
  <2>2. QED
    BY <1>1, <2>1, TabOutBetween
<1>5. QED
  BY <1>2, <1>3, <1>4 DEF TabOut

\* Playback that skips idle time shows every event; a long pause on a timeline
\* can be skipped as long as no edit was lost; and a tab-out is marked between
\* the events it happened between.
THEOREM TimelineTrue == Spec => []TimelineKeepsTime
<1>1. Story /\ Clock => TimelineKeepsTime
  BY TimeKeptIn
<1>2. QED
  BY <1>1, ClockRuns, PTL

-----------------------------------------------------------------------------
(***************************************************************************)
(* Events without edit lists: proportions.                                 *)
(***************************************************************************)
LEMMA MaxIn ==
    ASSUME NEW n \in Nat, NEW S, S \subseteq 0 .. n, S # {}
    PROVE  Max(S) \in S /\ \A y \in S : Max(S) >= y
<1> DEFINE T == {n - x : x \in S}
<1>1. \A x \in S : x \in 0 .. n /\ n - x \in Nat
  OBVIOUS
<1>2. T \subseteq Nat /\ T # {}
  BY <1>1
<1>3. PICK k \in T : \A m \in T : k <= m
  BY <1>2, LeastNat
<1>4. PICK x \in S : k = n - x
  OBVIOUS
<1>5. \A y \in S : x >= y
  <2> TAKE y \in S
  <2>1. k <= n - y
    BY <1>3
  <2>2. QED
    BY <1>1, <1>4, <2>1
<1>6. QED
  BY <1>5 DEF Max

\* A product grows with its factor, and a quotient with its dividend.
LEMMA TimesGrows ==
    ASSUME NEW a \in Nat, NEW b \in Nat, NEW c \in Nat, a <= b
    PROVE  a * c \in Nat /\ b * c \in Nat /\ a * c <= b * c
<1>1. b - a \in Nat
  OBVIOUS
<1>2. (b - a) * c \in Nat /\ a * c \in Nat /\ b * c \in Nat
  BY <1>1
<1>3. (b - a) * c = b * c - a * c
  OBVIOUS
<1>4. QED
  BY <1>2, <1>3

LEMMA RoundIs ==
    ASSUME NEW n \in Nat, NEW m \in Nat \ {0}
    PROVE  /\ Round(n, m) \in Nat
           /\ Round(n, m) * (2 * m) <= 2 * n + m
           /\ 2 * n + m < (Round(n, m) + 1) * (2 * m)
<1> DEFINE x == 2 * n + m
           y == 2 * m
<1>1. x \in Nat /\ y \in Nat \ {0}
  OBVIOUS
<1>2. Round(n, m) = x \div y
  BY DEF Round
<1> HIDE DEF x, y
<1>3. x \div y \in Nat /\ (x \div y) * y <= x /\ x < (x \div y + 1) * y
  BY <1>1
<1>4. QED
  BY <1>2, <1>3 DEF x, y

\* Of two quotients by the same divisor, rounding keeps the order.
LEMMA RoundGrows ==
    ASSUME NEW a \in Nat, NEW b \in Nat, NEW m \in Nat \ {0}, a <= b
    PROVE  Round(a, m) <= Round(b, m)
<1> DEFINE p == Round(a, m)
           q == Round(b, m)
           y == 2 * m
<1>1. /\ p \in Nat /\ q \in Nat /\ y \in Nat
      /\ p * y <= 2 * a + m /\ 2 * b + m < (q + 1) * y
  <2>1. p \in Nat /\ p * y <= 2 * a + m
    BY RoundIs
  <2>2. q \in Nat /\ 2 * b + m < (q + 1) * y
    BY RoundIs
  <2>3. QED
    BY <2>1, <2>2
<1> HIDE DEF p, q, y
<1>2. SUFFICES ASSUME q + 1 <= p PROVE FALSE
  BY <1>1 DEF p, q
<1>3. (q + 1) * y <= p * y /\ (q + 1) * y \in Nat /\ p * y \in Nat
  BY <1>1, <1>2, TimesGrows
<1>4. QED
  BY <1>1, <1>3

\* A part of an amount rounds to no more than the amount.
LEMMA RoundWithin ==
    ASSUME NEW n \in Nat, NEW m \in Nat \ {0}, NEW amount \in Nat, n <= amount * m
    PROVE  Round(n, m) <= amount
<1> DEFINE p == Round(n, m)
           y == 2 * m
           c == amount * m
<1>1. p \in Nat /\ y \in Nat /\ p * y <= 2 * n + m /\ c \in Nat
  BY RoundIs
<1>2. amount * y = 2 * c
  OBVIOUS
<1>3. (amount + 1) * y = 2 * c + 2 * m
  OBVIOUS
<1> HIDE DEF p
<1>4. SUFFICES ASSUME amount + 1 <= p PROVE FALSE
  BY <1>1 DEF p
<1>5. (amount + 1) * y <= p * y
  BY <1>1, <1>4, TimesGrows
<1> HIDE DEF y, c
<1>6. n <= c
  BY DEF c
<1> DEFINE u == p * y
           v == (amount + 1) * y
<1>7. u \in Nat /\ v \in Nat /\ v <= u /\ u <= 2 * n + m /\ v = 2 * c + 2 * m
  BY <1>1, <1>3, <1>5
<1> HIDE DEF u, v
<1>8. QED
  BY <1>1, <1>6, <1>7

\* The sizes up to a place, and what they make of an amount.
LEMMA Accumulates ==
    ASSUME NEW n \in Nat, NEW sizes \in [1 .. n -> Nat]
    PROVE  \E acc \in [0 .. n -> Nat] :
              /\ acc[0] = 0 /\ \A k \in 1 .. n : acc[k] = acc[k - 1] + sizes[k]
              /\ \A amount, k, otherwise :
                    Share(amount, sizes, k, otherwise) =
                       IF k = n THEN amount
                       ELSE IF acc[n] > 0 THEN Min({amount, Round(amount * acc[k], acc[n])})
                       ELSE otherwise
<1> DEFINE step == [p \in (1 .. n) \X Nat |-> p[2] + sizes[p[1]]]
           F(f) == [j \in 0 .. n |-> IF j = 0 THEN 0 ELSE f[j - 1] + sizes[j]]
           acc == CHOOSE f : f = F(f)
<1>1. sizes \in Seq(Nat) /\ Len(sizes) = n
  <2>1. sizes \in Seq(Nat)
    BY SeqDef
  <2>2. DOMAIN sizes = 1 .. Len(sizes) /\ Len(sizes) \in Nat
    BY <2>1, LenProperties
  <2>3. QED
    BY <2>1, <2>2
<1>2. step \in [(1 .. n) \X Nat -> Nat]
  OBVIOUS
<1>3. PICK g : Solves(g, n, Nat, 0, step)
  <2> HIDE DEF step
  <2>1. QED
    BY <1>2, Iterates
<1>4. g \in [0 .. n -> Nat] /\ g[0] = 0 /\ \A k \in 1 .. n : g[k] = g[k - 1] + sizes[k]
  <2>1. \A k \in 1 .. n : k - 1 \in 0 .. n
    OBVIOUS
  <2>2. QED
    BY <1>3, <2>1 DEF Solves
<1>5. g = F(g)
  <2>1. \A j \in 0 .. n : j = 0 \/ j \in 1 .. n
    OBVIOUS
  <2>2. \A j \in 0 .. n : g[j] = F(g)[j]
    BY <1>4, <2>1
  <2>3. QED
    BY <1>4, <2>2
<1>6. acc = F(acc)
  <2> HIDE DEF F
  <2>1. QED
    BY <1>5
<1>7. \A amount, k, otherwise :
         Share(amount, sizes, k, otherwise) =
            IF k = n THEN amount
            ELSE IF acc[n] > 0 THEN Min({amount, Round(amount * acc[k], acc[n])})
            ELSE otherwise
  <2> TAKE amount, k, otherwise
  <2>1. Share(amount, sizes, k, otherwise) =
          CASE k = n -> amount
            [] k # n /\ acc[n] > 0 -> Min({amount, Round(amount * acc[k], acc[n])})
            [] OTHER -> otherwise
    BY <1>1 DEF Share
  <2> HIDE DEF acc
  <2>2. QED
    BY <2>1
<1> HIDE DEF acc
<1>8. acc[0] = 0 /\ \A k \in 1 .. n : acc[k] = acc[k - 1] + sizes[k]
  BY <1>6
<1> HIDE DEF F
<1> DEFINE S == {k \in Nat : k <= n => acc[k] = g[k]}
<1>9. S = Nat
  <2>1. 0 \in S
    BY <1>4, <1>8
  <2>2. ASSUME NEW k \in S PROVE k + 1 \in S
    <3> SUFFICES ASSUME k + 1 <= n PROVE acc[k + 1] = g[k + 1]
      OBVIOUS
    <3>1. k + 1 \in 1 .. n /\ (k + 1) - 1 = k /\ acc[k] = g[k]
      OBVIOUS
    <3>2. QED
      BY <1>4, <1>8, <3>1
  <2> HIDE DEF S
  <2>3. S \subseteq Nat
    BY DEF S
  <2>4. QED
    BY <2>1, <2>2, <2>3, NatInd
<1>10. acc \in [0 .. n -> Nat]
  <2>1. \A k \in 0 .. n : acc[k] = g[k]
    BY <1>9
  <2>2. acc = [k \in 0 .. n |-> acc[k]]
    BY <1>6 DEF F
  <2>3. QED
    BY <1>4, <2>1, <2>2
<1>11. QED
  BY <1>7, <1>8, <1>10

\* What an amount comes to stays within it, and grows from place to place.
LEMMA SharesGrow ==
    ASSUME NEW amount \in Nat, NEW n \in Nat, NEW sizes \in [1 .. n -> Nat], NEW k \in 1 .. n,
           NEW now \in 0 .. amount, NEW then \in 0 .. amount, then <= now
    PROVE  LET s == Share(amount, sizes, k, now)
           IN  s \in 0 .. amount /\ (k # 1 => Share(amount, sizes, k - 1, then) <= s)
<1>1. PICK acc \in [0 .. n -> Nat] :
         /\ acc[0] = 0 /\ \A j \in 1 .. n : acc[j] = acc[j - 1] + sizes[j]
         /\ \A x, j, otherwise :
               Share(x, sizes, j, otherwise) =
                  IF j = n THEN x
                  ELSE IF acc[n] > 0 THEN Min({x, Round(x * acc[j], acc[n])})
                  ELSE otherwise
  BY Accumulates
<1> DEFINE part(j) == Round(amount * acc[j], acc[n])
<1>2. k \in 0 .. n /\ k - 1 \in 0 .. n /\ n \in 0 .. n /\ k - 1 # n
  OBVIOUS
<1>3. acc[k] \in Nat /\ acc[k - 1] \in Nat /\ acc[n] \in Nat /\ acc[k - 1] <= acc[k]
  BY <1>1, <1>2
<1>4. ASSUME acc[n] > 0
      PROVE  /\ part(k) \in Nat /\ part(k - 1) \in Nat /\ part(k - 1) <= part(k)
  <2> DEFINE a == amount * acc[k - 1]
             b == amount * acc[k]
  <2>1. a \in Nat /\ b \in Nat /\ a <= b
    <3>1. acc[k - 1] * amount \in Nat /\ acc[k] * amount \in Nat
          /\ acc[k - 1] * amount <= acc[k] * amount
      BY <1>3, TimesGrows
    <3>2. a = acc[k - 1] * amount /\ b = acc[k] * amount
      BY <1>3
    <3>3. QED
      BY <3>1, <3>2
  <2>2. acc[n] \in Nat \ {0}
    BY <1>3, <1>4
  <2> HIDE DEF a, b
  <2>3. Round(a, acc[n]) \in Nat /\ Round(b, acc[n]) \in Nat
    BY <2>1, <2>2, RoundIs
  <2>4. Round(a, acc[n]) <= Round(b, acc[n])
    BY <2>1, <2>2, RoundGrows
  <2>5. QED
    BY <2>3, <2>4 DEF a, b
<1> HIDE DEF part
<1>5. acc[n] > 0 => /\ Min({amount, part(k)}) = (IF amount <= part(k) THEN amount ELSE part(k))
                    /\ Min({amount, part(k - 1)})
                         = (IF amount <= part(k - 1) THEN amount ELSE part(k - 1))
  BY <1>4, MinOfTwo
<1>6. /\ Share(amount, sizes, k, now) =
            IF k = n THEN amount ELSE IF acc[n] > 0 THEN Min({amount, part(k)}) ELSE now
      /\ Share(amount, sizes, k - 1, then) =
            IF acc[n] > 0 THEN Min({amount, part(k - 1)}) ELSE then
  BY <1>1, <1>2 DEF part
<1> DEFINE s == Share(amount, sizes, k, now)
           r == Share(amount, sizes, k - 1, then)
<1>7. s = (IF k = n THEN amount
           ELSE IF acc[n] > 0 THEN (IF amount <= part(k) THEN amount ELSE part(k)) ELSE now)
  BY <1>5, <1>6
<1>8. r = (IF acc[n] > 0 THEN (IF amount <= part(k - 1) THEN amount ELSE part(k - 1)) ELSE then)
  BY <1>5, <1>6
<1> HIDE DEF s, r
<1>9. CASE acc[n] > 0
  <2> DEFINE p == part(k)
             q == part(k - 1)
  <2>1. p \in Nat /\ q \in Nat /\ q <= p
    BY <1>4, <1>9
  <2>2. s = (IF k = n THEN amount ELSE IF amount <= p THEN amount ELSE p)
    BY <1>7, <1>9
  <2>3. r = (IF amount <= q THEN amount ELSE q)
    BY <1>8, <1>9
  <2> HIDE DEF p, q
  <2>4. s \in 0 .. amount /\ r <= s
    BY <2>1, <2>2, <2>3
  <2>5. QED
    BY <2>4 DEF s, r
<1>10. CASE ~(acc[n] > 0)
  <2>1. s = (IF k = n THEN amount ELSE now) /\ r = then
    BY <1>7, <1>8, <1>10
  <2>2. s \in 0 .. amount /\ r <= s
    BY <2>1
  <2>3. QED
    BY <2>2 DEF s, r
<1>11. QED
  BY <1>9, <1>10
-----------------------------------------------------------------------------
(***************************************************************************)
(* What an event inserted and deleted.  A fold takes the last change first.*)
(***************************************************************************)
DrawStep(g, f, n) ==
    [s \in SUBSET (1 .. n) |-> IF s = {} THEN 0 ELSE g[s \ {Max(s)}] + f[Max(s)]]

LEMMA LastDrawn ==
    ASSUME NEW n \in Nat, NEW k \in 0 .. n, NEW s \in SUBSET (1 .. n), s # {}, s \subseteq 1 .. (k + 1)
    PROVE  Max(s) \in s /\ s \ {Max(s)} \in SUBSET (1 .. n) /\ s \ {Max(s)} \subseteq 1 .. k
<1>1. s \subseteq 0 .. n
  OBVIOUS
<1>2. Max(s) \in s /\ \A y \in s : Max(s) >= y
  BY <1>1, MaxIn
<1>3. \A y \in s \ {Max(s)} : y \in 1 .. k
  <2> DEFINE x == Max(s)
  <2>1. \A y \in s : y \in 1 .. (k + 1) /\ y <= x
    BY <1>2
  <2>2. x \in 1 .. (k + 1)
    BY <1>2, <2>1
  <2> HIDE DEF x
  <2>3. \A y \in s \ {x} : y \in 1 .. k
    BY <2>1, <2>2
  <2>4. QED
    BY <2>3 DEF x
<1>4. QED
  BY <1>2, <1>3

LEMMA DrawsExist ==
    ASSUME NEW n \in Nat, NEW f
    PROVE  \E g : g = DrawStep(g, f, n)
<1> DEFINE D == SUBSET (1 .. n)
           E(g, s) == IF s = {} THEN 0 ELSE g[s \ {Max(s)}] + f[Max(s)]
           Sol(g, k) == \A s \in D : s \subseteq 1 .. k => g[s] = E(g, s)
           N == {k \in Nat : k <= n => \E g : Sol(g, k)}
<1>1. 0 \in N
  <2> DEFINE z == [s \in D |-> 0]
  <2>1. Sol(z, 0)
    <3>1. \A s \in D : s \subseteq 1 .. 0 => s = {}
      OBVIOUS
    <3>2. QED
      BY <3>1
  <2> HIDE DEF Sol
  <2>2. QED
    BY <2>1
<1>2. ASSUME NEW k \in N PROVE k + 1 \in N
  <2> SUFFICES ASSUME k + 1 <= n PROVE \E g : Sol(g, k + 1)
    <3> HIDE DEF Sol
    <3>1. QED
      OBVIOUS
  <2>1. k \in Nat /\ k <= n
    OBVIOUS
  <2>2. PICK g : Sol(g, k)
    <3> HIDE DEF Sol
    <3>1. QED
      BY <2>1
  <2> DEFINE h == [s \in D |-> IF s \subseteq 1 .. k THEN g[s] ELSE E(g, s)]
  <2>3. ASSUME NEW s \in D, s \subseteq 1 .. (k + 1) PROVE h[s] = E(h, s)
    <3>1. h[s] = E(g, s)
      BY <2>2
    <3>2. CASE s = {}
      BY <3>1, <3>2
    <3>3. CASE s # {}
      <4> DEFINE r == s \ {Max(s)}
      <4>1. r \in D /\ r \subseteq 1 .. k
        BY <2>1, <2>3, <3>3, LastDrawn
      <4>2. h[r] = g[r]
        BY <4>1
      <4> HIDE DEF h
      <4>3. QED
        BY <3>1, <3>3, <4>2
    <3>4. QED
      BY <3>2, <3>3
  <2> HIDE DEF h, E
  <2>4. Sol(h, k + 1)
    BY <2>3
  <2> HIDE DEF Sol
  <2>5. QED
    BY <2>4
<1>3. N = Nat
  <2> HIDE DEF N
  <2>1. N \subseteq Nat
    BY DEF N
  <2>2. QED
    BY <1>1, <1>2, <2>1, NatInd
<1>4. PICK g : Sol(g, n)
  <2> HIDE DEF Sol
  <2>1. n \in {k \in Nat : k <= n => \E g : Sol(g, k)}
    BY <1>3
  <2>2. QED
    BY <2>1
<1> DEFINE h == [s \in D |-> g[s]]
<1>5. ASSUME NEW s \in D PROVE h[s] = E(h, s)
  <2>1. h[s] = E(g, s)
    BY <1>4
  <2>2. CASE s = {}
    BY <2>1, <2>2
  <2>3. CASE s # {}
    <3> DEFINE r == s \ {Max(s)}
    <3>1. r \in D
      OBVIOUS
    <3>2. h[r] = g[r]
      BY <3>1
    <3> HIDE DEF h
    <3>3. QED
      BY <2>1, <2>3, <3>2
  <2>4. QED
    BY <2>2, <2>3
<1>6. h = [s \in D |-> E(h, s)]
  <2> HIDE DEF E
  <2>1. QED
    BY <1>5
<1>7. h = DrawStep(h, f, n)
  BY <1>6 DEF DrawStep
<1> HIDE DEF h
<1>8. QED
  BY <1>7

LEMMA DrawsAreNat ==
    ASSUME NEW n \in Nat, NEW f, \A i \in 1 .. n : f[i] \in Nat, NEW g, g = DrawStep(g, f, n)
    PROVE  g[1 .. n] \in Nat
<1> DEFINE D == SUBSET (1 .. n)
           N == {k \in Nat : k <= n => \A s \in D : s \subseteq 1 .. k => g[s] \in Nat}
<1>1. \A s \in D : g[s] = IF s = {} THEN 0 ELSE g[s \ {Max(s)}] + f[Max(s)]
  BY DEF DrawStep
<1>2. 0 \in N
  <2>1. \A s \in D : s \subseteq 1 .. 0 => s = {}
    OBVIOUS
  <2>2. \A s \in D : s \subseteq 1 .. 0 => g[s] = 0
    BY <1>1, <2>1
  <2>3. QED
    BY <2>2
<1>3. ASSUME NEW k \in N PROVE k + 1 \in N
  <2> SUFFICES ASSUME k + 1 <= n, NEW s \in D, s \subseteq 1 .. (k + 1) PROVE g[s] \in Nat
    OBVIOUS
  <2>1. k \in 0 .. n /\ \A r \in D : r \subseteq 1 .. k => g[r] \in Nat
    OBVIOUS
  <2>2. CASE s = {}
    BY <1>1, <2>2
  <2>3. CASE s # {}
    <3> DEFINE r == s \ {Max(s)}
               x == Max(s)
    <3>1. x \in s /\ r \in D /\ r \subseteq 1 .. k
      BY <2>1, <2>3, LastDrawn
    <3>2. g[r] \in Nat /\ f[x] \in Nat
      BY <2>1, <3>1
    <3>3. g[s] = g[r] + f[x]
      BY <1>1, <2>3
    <3> HIDE DEF r, x
    <3>4. QED
      BY <3>2, <3>3
  <2>4. QED
    BY <2>2, <2>3
<1>4. N = Nat
  <2> HIDE DEF N
  <2>1. N \subseteq Nat
    BY DEF N
  <2>2. QED
    BY <1>2, <1>3, <2>1, NatInd
<1>5. \A s \in D : s \subseteq 1 .. n => g[s] \in Nat
  <2>1. n \in N
    <3> HIDE DEF N
    <3>1. QED
      BY <1>4
  <2>2. QED
    BY <2>1
<1>6. QED
  BY <1>5

LEMMA ChangesCount ==
    ASSUME NEW cs \in Seq(OneEdit)
    PROVE  Inserted(cs) \in Nat /\ Deleted(cs) \in Nat
<1> DEFINE n == Len(cs)
           D == SUBSET (1 .. n)
           typed == [i \in 1 .. n |-> Len(cs[i].t)]
           erased == [i \in 1 .. n |-> cs[i].d]
           Typed(g) == [s \in D |-> IF s = {} THEN 0 ELSE g[s \ {Max(s)}] + Len(cs[Max(s)].t)]
           Erased(g) == [s \in D |-> IF s = {} THEN 0 ELSE g[s \ {Max(s)}] + cs[Max(s)].d]
           ins == CHOOSE g : g = Typed(g)
           del == CHOOSE g : g = Erased(g)
<1>1. n \in Nat /\ DOMAIN cs = 1 .. n
  BY LenProperties
<1>2. Inserted(cs) = ins[1 .. n] /\ Deleted(cs) = del[1 .. n]
  <2>1. Inserted(cs) = ins[1 .. n]
    BY <1>1 DEF Inserted, FoldLeft, MapThenFoldSet
  <2>2. Deleted(cs) = del[1 .. n]
    BY <1>1 DEF Deleted, FoldLeft, MapThenFoldSet
  <2>3. QED
    BY <2>1, <2>2
<1>3. \A i \in 1 .. n : typed[i] \in Nat /\ erased[i] \in Nat
  <2> TAKE i \in 1 .. n
  <2>1. cs[i] \in OneEdit
    BY ElementOfSeq
  <2>2. cs[i].t \in Seq(Nat) /\ cs[i].d \in Nat
    BY <2>1 DEF OneEdit, Text
  <2>3. Len(cs[i].t) \in Nat
    BY <2>2, LenProperties
  <2>4. QED
    BY <2>2, <2>3
<1> HIDE DEF n
<1>4. \A s \in D : s # {} => Max(s) \in 1 .. n
  <2> TAKE s \in D
  <2> HAVE s # {}
  <2>1. s \subseteq 0 .. n
    OBVIOUS
  <2>2. QED
    BY <1>1, <2>1, MaxIn
<1>5. ASSUME NEW g PROVE Typed(g) = DrawStep(g, typed, n) /\ Erased(g) = DrawStep(g, erased, n)
  BY <1>4 DEF DrawStep
<1> HIDE DEF Typed, Erased, typed, erased
<1>6. ins = DrawStep(ins, typed, n)
  <2>1. \E g : g = Typed(g)
    BY <1>1, <1>5, DrawsExist
  <2>2. ins = Typed(ins)
    BY <2>1
  <2> HIDE DEF ins
  <2>3. QED
    BY <1>5, <2>2
<1>7. del = DrawStep(del, erased, n)
  <2>1. \E g : g = Erased(g)
    BY <1>1, <1>5, DrawsExist
  <2>2. del = Erased(del)
    BY <2>1
  <2> HIDE DEF del
  <2>3. QED
    BY <1>5, <2>2
<1> HIDE DEF ins, del
<1>8. ins[1 .. n] \in Nat
  BY <1>1, <1>3, <1>6, DrawsAreNat
<1>9. del[1 .. n] \in Nat
  BY <1>1, <1>3, <1>7, DrawsAreNat
<1>10. QED
  BY <1>2, <1>8, <1>9
-----------------------------------------------------------------------------
(***************************************************************************)
(* The difference of two texts.                                            *)
(***************************************************************************)
LEMMA PartOfText ==
    ASSUME NEW s \in Text, NEW m \in Nat \ {0}, NEW n \in Nat, n <= Len(s)
    PROVE  /\ SubSeq(s, m, n) \in Text
           /\ Len(SubSeq(s, m, n)) = IF m <= n THEN n - m + 1 ELSE 0
<1>1. s \in Seq(Nat) /\ Len(s) \in Nat
  BY LenProperties DEF Text
<1>2. \A i \in m .. n : s[i] \in Nat
  BY <1>1, ElementOfSeq
<1>3. QED
  BY <1>2, SubSeqProperties DEF Text

LEMMA Rejoins ==
    ASSUME NEW s \in Text, NEW p \in Nat, NEW q \in Nat, p <= q, q <= Len(s)
    PROVE  SubSeq(s, 1, p) \o SubSeq(s, p + 1, q) \o SubSeq(s, q + 1, Len(s)) = s
<1>1. s \in Seq(Nat) /\ Len(s) \in Nat
  BY LenProperties DEF Text
<1>2. SubSeq(s, 1, p) \o SubSeq(s, p + 1, q) = SubSeq(s, 1, q)
  <2>1. 1 \in 1 .. Len(s) + 1 /\ p \in 1 - 1 .. Len(s) /\ q \in p .. Len(s)
    BY <1>1
  <2>2. QED
    BY <1>1, <2>1, ConcatAdjacentSubSeq
<1>3. SubSeq(s, 1, q) \o SubSeq(s, q + 1, Len(s)) = SubSeq(s, 1, Len(s))
  <2> DEFINE n == Len(s)
  <2>1. 1 \in 1 .. Len(s) + 1 /\ q \in 1 - 1 .. Len(s) /\ n \in q .. Len(s)
    BY <1>1
  <2> HIDE DEF n
  <2>2. SubSeq(s, 1, q) \o SubSeq(s, q + 1, n) = SubSeq(s, 1, n)
    BY <1>1, <2>1, ConcatAdjacentSubSeq
  <2>3. QED
    BY <2>2 DEF n
<1>4. SubSeq(s, 1, Len(s)) = s
  BY <1>1, SubSeqFull
<1>5. QED
  BY <1>2, <1>3, <1>4

\* The new text is what both begin with, what was inserted, and what both
\* end with.
LEMMA DiffIs ==
    ASSUME NEW from \in Text, NEW to \in Text
    PROVE  LET r == DiffTexts(from, to)
           IN  /\ r.prefix \in Text /\ r.inserted \in Text
               /\ r.removed \in Text /\ r.suffix \in Text
               /\ r.prefix \o r.inserted \o r.suffix = to
<1> DEFINE a == Len(from)
           b == Len(to)
           m == Min({a, b})
           P == {n \in 0 .. m : Agree(from, to, n)}
           p == Max(P)
           S == {s \in 0 .. m - p : AgreeAtEnd(from, to, s)}
           s == Max(S)
           r == DiffTexts(from, to)
<1>1. a \in Nat /\ b \in Nat
  BY LenProperties DEF Text
<1>2. m \in Nat /\ m <= a /\ m <= b
  <2> HIDE DEF a, b
  <2>1. m = IF a <= b THEN a ELSE b
    BY <1>1, MinOfTwo
  <2>2. QED
    BY <1>1, <2>1
<1> HIDE DEF m
<1>3. p \in 0 .. m
  <2>1. 0 \in P
    <3>1. SubSeq(from, 1, 0) = <<>> /\ SubSeq(to, 1, 0) = <<>>
      BY SubSeqEmpty
    <3>2. QED
      BY <1>2, <3>1 DEF Agree
  <2>2. P \subseteq 0 .. m /\ P # {}
    BY <2>1
  <2> HIDE DEF P
  <2>3. p \in P
    BY <1>2, <2>2, MaxIn
  <2>4. QED
    BY <2>2, <2>3
<1> HIDE DEF p
<1>4. s \in 0 .. m - p
  <2>1. 0 \in S
    <3>1. SubSeq(from, a + 1, a) = <<>> /\ SubSeq(to, b + 1, b) = <<>>
      <4> HIDE DEF a, b
      <4>1. QED
        BY <1>1, SubSeqEmpty
    <3>2. a - 0 + 1 = a + 1 /\ b - 0 + 1 = b + 1
      BY <1>1
    <3>3. AgreeAtEnd(from, to, 0)
      BY <3>1, <3>2 DEF AgreeAtEnd
    <3>4. QED
      BY <1>2, <1>3, <3>3
  <2>2. S \subseteq 0 .. m - p /\ S # {} /\ m - p \in Nat
    BY <1>2, <1>3, <2>1
  <2> HIDE DEF S
  <2>3. s \in S
    BY <2>2, MaxIn
  <2>4. QED
    BY <2>2, <2>3
<1>5. r = Region(from, to, p, s)
  BY DEF DiffTexts, p, m
<1> HIDE DEF s, r
<1>6. /\ r.prefix = SubSeq(to, 1, p) /\ r.suffix = SubSeq(to, b - s + 1, b)
      /\ r.removed = SubSeq(from, p + 1, a - s) /\ r.inserted = SubSeq(to, p + 1, b - s)
  BY <1>5 DEF Region
<1> DEFINE q == b - s
           o == a - s
<1>7. /\ p \in Nat /\ q \in Nat /\ p <= q /\ q <= b /\ o \in Nat /\ o <= a /\ p <= b
      /\ p + 1 \in Nat \ {0} /\ q + 1 \in Nat \ {0}
  BY <1>1, <1>2, <1>3, <1>4
<1> HIDE DEF q, o
<1>8. SubSeq(to, 1, p) \in Text /\ SubSeq(to, p + 1, q) \in Text /\ SubSeq(to, q + 1, b) \in Text
  <2> DEFINE e == b
  <2>1. e \in Nat /\ e <= Len(to)
    BY <1>1
  <2> HIDE DEF e
  <2>2. SubSeq(to, q + 1, e) \in Text
    BY <1>7, <2>1, PartOfText
  <2>3. SubSeq(to, 1, p) \in Text /\ SubSeq(to, p + 1, q) \in Text
    BY <1>7, PartOfText
  <2>4. QED
    BY <2>2, <2>3 DEF e
<1>9. SubSeq(from, p + 1, o) \in Text
  BY <1>7, PartOfText
<1>10. SubSeq(to, 1, p) \o SubSeq(to, p + 1, q) \o SubSeq(to, q + 1, b) = to
  BY <1>7, Rejoins
<1>11. QED
  BY <1>6, <1>8, <1>9, <1>10 DEF q, o, r
-----------------------------------------------------------------------------
(***************************************************************************)
(* The replay of a record without edit lists.                              *)
(***************************************************************************)
IsLegacy(l) ==
    /\ Len(l.snaps) \in Nat \ {0}
    /\ \A w \in 1 .. Len(l.snaps) : l.snaps[w].count \in Nat
    /\ l.code \in [1 .. Len(l.snaps) -> Text]
    /\ DOMAIN l.events = 1 .. EventsUpTo(l, Len(l.snaps))
    /\ l.events = [i \in DOMAIN l.events |-> l.events[i]]
    /\ \A i \in DOMAIN l.events : l.events[i].at \in Nat /\ l.events[i].delta \in Int
    /\ l.openedAt = {}

LEMMA CutsGrow ==
    ASSUME NEW l, IsLegacy(l)
    PROVE  /\ \A w \in 0 .. Len(l.snaps) : EventsUpTo(l, w) \in Nat
           /\ \A w \in 1 .. Len(l.snaps) :
                 EventsUpTo(l, w) = EventsUpTo(l, w - 1) + l.snaps[w].count
           /\ \A u, v \in 0 .. Len(l.snaps) : u <= v => EventsUpTo(l, u) <= EventsUpTo(l, v)
<1> DEFINE N == Len(l.snaps)
           C(w) == EventsUpTo(l, w)
           cnt(w) == l.snaps[w].count
<1>1. N \in Nat /\ \A w \in 1 .. N : cnt(w) \in Nat
  BY DEF IsLegacy
<1>2. /\ \A w \in 0 .. N : C(w) \in Nat
      /\ \A w \in 1 .. N : C(w) = C(w - 1) + cnt(w)
  BY <1>1, Cuts
<1> HIDE DEF N, C, cnt
<1>3. ASSUME NEW u \in 0 .. N PROVE \A v \in 0 .. N : u <= v => C(u) <= C(v)
  <2> DEFINE S == {k \in Nat : u + k <= N => C(u) <= C(u + k)}
  <2>1. 0 \in S
    BY <1>1, <1>2
  <2>2. ASSUME NEW k \in S PROVE k + 1 \in S
    <3> SUFFICES ASSUME u + (k + 1) <= N PROVE C(u) <= C(u + (k + 1))
      OBVIOUS
    <3> DEFINE v == u + (k + 1)
    <3>1. v \in 1 .. N /\ v - 1 = u + k /\ v - 1 \in 0 .. N /\ u + k <= N
      BY <1>1
    <3>2. C(u) <= C(v - 1)
      BY <3>1
    <3> HIDE DEF v, S
    <3>3. C(v) = C(v - 1) + cnt(v) /\ C(v - 1) \in Nat /\ cnt(v) \in Nat /\ C(u) \in Nat
      BY <1>1, <1>2, <3>1
    <3>4. QED
      BY <3>2, <3>3 DEF v
  <2> HIDE DEF S
  <2>3. S = Nat
    <3>1. S \subseteq Nat
      BY DEF S
    <3>2. QED
      BY <2>1, <2>2, <3>1, NatInd
  <2> TAKE v \in 0 .. N
  <2> HAVE u <= v
  <2>4. v - u \in S /\ u + (v - u) = v /\ v <= N
    BY <1>1, <2>3
  <2>5. QED
    BY <2>4 DEF S
<1>4. QED
  BY <1>2, <1>3 DEF N, C, cnt

\* An event is in one segment, at one place of it.
LEMMA SegmentPlace ==
    ASSUME NEW l, IsLegacy(l), NEW w \in 1 .. Len(l.snaps), NEW i \in SegmentOf(l, w)
    PROVE  /\ i \in Nat /\ i \in DOMAIN l.events /\ l.snaps[w].count \in Nat /\ EventsUpTo(l, w - 1) \in Nat
           /\ i - EventsUpTo(l, w - 1) \in 1 .. l.snaps[w].count
           /\ i - EventsUpTo(l, w - 1) = l.snaps[w].count <=> i = EventsUpTo(l, w)
           /\ (CHOOSE v \in DOMAIN l.code : i \in SegmentOf(l, v)) = w
<1> DEFINE N == Len(l.snaps)
           C(v) == EventsUpTo(l, v)
           c == l.snaps[w].count
<1>1. /\ N \in Nat \ {0} /\ c \in Nat /\ DOMAIN l.code = 1 .. N
      /\ DOMAIN l.events = 1 .. C(N)
  BY DEF IsLegacy
<1>2. /\ \A v \in 0 .. N : C(v) \in Nat
      /\ C(w) = C(w - 1) + c
      /\ \A u, v \in 0 .. N : u <= v => C(u) <= C(v)
  BY CutsGrow
<1> HIDE DEF C, c, N
<1>3. \A v : i \in SegmentOf(l, v) <=> i \in DOMAIN l.events /\ C(v - 1) < i /\ i <= C(v)
  BY DEF SegmentOf, C
<1>4. w \in 1 .. N
  BY DEF N
<1>5. N \in 0 .. N /\ w \in 0 .. N /\ w - 1 \in 0 .. N
  BY <1>1, <1>4
<1>6. i \in Nat /\ i \in DOMAIN l.events /\ C(w - 1) < i /\ i <= C(w) /\ C(w - 1) \in Nat /\ C(N) \in Nat
  BY <1>1, <1>2, <1>3, <1>5
<1>7. i - C(w - 1) \in 1 .. c /\ (i - C(w - 1) = c <=> i = C(w))
  BY <1>1, <1>2, <1>6
<1>8. ASSUME NEW v \in 1 .. N, i \in SegmentOf(l, v) PROVE v = w
  <2>1. C(v - 1) < i /\ i <= C(v) /\ v \in 0 .. N /\ v - 1 \in 0 .. N
    BY <1>1, <1>3, <1>8
  <2>2. C(v) \in Nat /\ C(v - 1) \in Nat /\ C(w) \in Nat
    BY <1>2, <1>5, <2>1
  <2>3. ~(v <= w - 1)
    <3>1. v <= w - 1 => C(v) <= C(w - 1)
      BY <1>2, <1>5, <2>1
    <3>2. QED
      BY <1>6, <2>1, <2>2, <3>1
  <2>4. ~(w <= v - 1)
    <3>1. w <= v - 1 => C(w) <= C(v - 1)
      BY <1>2, <1>5, <2>1
    <3>2. QED
      BY <1>6, <2>1, <2>2, <3>1
  <2>5. QED
    BY <1>1, <1>4, <2>3, <2>4
<1>9. (CHOOSE v \in DOMAIN l.code : i \in SegmentOf(l, v)) = w
  BY <1>1, <1>4, <1>8
<1>10. QED
  BY <1>1, <1>6, <1>7, <1>9 DEF C, c

\* What the frame of an event is, once its segment is known.
ShareAt(l, i, w) ==
    LET from  == EventsUpTo(l, w - 1)
        count == l.snaps[w].count
    IN  [seg |-> w,
         ins |-> Share(Len(SegmentDiff(l, w).inserted),
                       [k \in 1 .. count |-> Max({0, l.events[from + k].delta})], i - from,
                       Round(Len(SegmentDiff(l, w).inserted) * (i - from), count)),
         del |-> Share(Len(SegmentDiff(l, w).removed),
                       [k \in 1 .. count |-> Max({0, -l.events[from + k].delta})], i - from, 0)]

LEMMA FrameIs ==
    ASSUME NEW l, NEW i, NEW w, w = CHOOSE v \in DOMAIN l.code : i \in SegmentOf(l, v)
    PROVE  LegacyFrame(l, i) = ShareAt(l, i, w)
<1> DEFINE u == CHOOSE v \in DOMAIN l.code : i \in SegmentOf(l, v)
<1>1. LegacyFrame(l, i) = ShareAt(l, i, u)
  BY DEF LegacyFrame, ShareAt
<1>2. QED
  BY <1>1

\* What is realized of the difference at an event: all of it at the last of
\* the segment, and never less than at the event before.
LEMMA FrameShares ==
    ASSUME NEW l, IsLegacy(l), NEW w \in 1 .. Len(l.snaps), NEW i \in SegmentOf(l, w)
    PROVE  LET f    == LegacyFrame(l, i)
               diff == SegmentDiff(l, w)
           IN  /\ f.seg = w /\ f.ins \in 0 .. Len(diff.inserted) /\ f.del \in 0 .. Len(diff.removed)
               /\ i = EventsUpTo(l, w) => f.ins = Len(diff.inserted) /\ f.del = Len(diff.removed)
               /\ i - 1 \in SegmentOf(l, w) => /\ LegacyFrame(l, i - 1).ins <= f.ins
                                              /\ LegacyFrame(l, i - 1).ins \in Nat
<1> DEFINE N == Len(l.snaps)
           from == EventsUpTo(l, w - 1)
           count == l.snaps[w].count
           diff == SegmentDiff(l, w)
           inserted == Len(diff.inserted)
           removed == Len(diff.removed)
           typed == [k \in 1 .. count |-> Max({0, l.events[from + k].delta})]
           erased == [k \in 1 .. count |-> Max({0, -l.events[from + k].delta})]
           even(k) == Round(inserted * k, count)
           Ins(k) == Share(inserted, typed, k, even(k))
           Del(k) == Share(removed, erased, k, 0)
<1>1. ASSUME NEW j \in SegmentOf(l, w)
      PROVE  /\ LegacyFrame(l, j) = [seg |-> w, ins |-> Ins(j - from), del |-> Del(j - from)]
             /\ j - from \in 1 .. count /\ (j - from = count <=> j = EventsUpTo(l, w)) /\ j \in Nat
  <2>1. (CHOOSE v \in DOMAIN l.code : j \in SegmentOf(l, v)) = w
    BY SegmentPlace
  <2>2. j - from \in 1 .. count /\ (j - from = count <=> j = EventsUpTo(l, w))
    BY SegmentPlace
  <2>3. j \in Nat
    BY SegmentPlace
  <2>4. LegacyFrame(l, j) = [seg |-> w, ins |-> Ins(j - from), del |-> Del(j - from)]
    <3>1. LegacyFrame(l, j) = ShareAt(l, j, w)
      BY <2>1, FrameIs
    <3>2. QED
      BY <3>1 DEF ShareAt
  <2>5. QED
    BY <2>2, <2>3, <2>4
<1>2. inserted \in Nat /\ removed \in Nat
  <2>1. /\ l.code[w] \in Text
        /\ w # 1 => l.code[w - 1] \in Text
        /\ <<>> \in Text
    <3>1. l.code \in [1 .. N -> Text] /\ N \in Nat
      BY DEF IsLegacy
    <3>2. <<>> \in Text
      BY EmptySeq DEF Text
    <3> HIDE DEF N
    <3>3. w \in 1 .. N /\ (w # 1 => w - 1 \in 1 .. N)
      BY <3>1 DEF N
    <3>4. QED
      BY <3>1, <3>2, <3>3
  <2>2. diff.inserted \in Text /\ diff.removed \in Text
    <3> DEFINE before == IF w = 1 THEN <<>> ELSE l.code[w - 1]
    <3>1. before \in Text /\ diff = DiffTexts(before, l.code[w])
      BY <2>1 DEF SegmentDiff
    <3> HIDE DEF before, diff
    <3>2. QED
      BY <2>1, <3>1, DiffIs
  <2>3. QED
    BY <2>2, LenProperties DEF Text
<1>3. count \in Nat /\ from \in Nat
  BY SegmentPlace
<1>4. typed \in [1 .. count -> Nat] /\ erased \in [1 .. count -> Nat]
  <2>1. ASSUME NEW k \in 1 .. count
        PROVE  /\ Max({0, l.events[from + k].delta}) \in Nat
               /\ Max({0, -l.events[from + k].delta}) \in Nat
    <3>1. from + k \in DOMAIN l.events
      <4>1. EventsUpTo(l, w) = from + count /\ EventsUpTo(l, w) \in Nat
            /\ EventsUpTo(l, w) <= EventsUpTo(l, N) /\ EventsUpTo(l, N) \in Nat
        <5>1. w \in 0 .. N /\ N \in 0 .. N /\ w <= N
          BY DEF IsLegacy
        <5>2. QED
          BY <5>1, CutsGrow
      <4>2. DOMAIN l.events = 1 .. EventsUpTo(l, N)
        BY DEF IsLegacy
      <4> DEFINE a == EventsUpTo(l, w)
                 b == EventsUpTo(l, N)
      <4> HIDE DEF a, b, from, count
      <4>3. from + k \in 1 .. b
        BY <1>3, <4>1 DEF a, b
      <4>4. QED
        BY <4>2, <4>3 DEF b
    <3> DEFINE x == l.events[from + k].delta
    <3>2. x \in Int
      BY <3>1 DEF IsLegacy
    <3> HIDE DEF x
    <3>3. -x \in Int /\ Max({0, x}) = (IF 0 <= x THEN x ELSE 0)
          /\ Max({0, -x}) = (IF 0 <= -x THEN -x ELSE 0)
      BY <3>2, LargerOfTwo
    <3>4. Max({0, x}) \in Nat /\ Max({0, -x}) \in Nat
      BY <3>2, <3>3
    <3>5. QED
      BY <3>4 DEF x
  <2>2. QED
    BY <2>1
<1> HIDE DEF typed, erased, inserted, removed, count, from, diff, even
<1>5. ASSUME NEW k \in 1 .. count
      PROVE  even(k) \in 0 .. inserted /\ even(k - 1) \in 0 .. inserted /\ even(k - 1) <= even(k)
  <2> DEFINE a == inserted * (k - 1)
             b == inserted * k
             c == inserted * count
  <2>1. a \in Nat /\ b \in Nat /\ c \in Nat /\ a <= b /\ b <= c /\ count \in Nat \ {0}
    <3>1. k \in Nat /\ k - 1 \in Nat /\ k - 1 <= k /\ k <= count /\ count \in Nat \ {0}
      BY <1>3
    <3>2. (k - 1) * inserted <= k * inserted /\ (k - 1) * inserted \in Nat /\ k * inserted \in Nat
      BY <1>2, <3>1, TimesGrows
    <3>3. k * inserted <= count * inserted /\ count * inserted \in Nat
      BY <1>2, <3>1, TimesGrows
    <3>4. a = (k - 1) * inserted /\ b = k * inserted /\ c = count * inserted
      BY <1>2, <3>1
    <3>5. QED
      BY <3>1, <3>2, <3>3, <3>4
  <2>2. even(k) = Round(b, count) /\ even(k - 1) = Round(a, count)
    BY DEF even
  <2>3. b <= inserted * count /\ a <= inserted * count
    BY <2>1
  <2> HIDE DEF a, b, c
  <2>4. Round(a, count) \in Nat /\ Round(b, count) \in Nat
    BY <2>1, RoundIs
  <2>5. Round(a, count) <= Round(b, count)
    BY <2>1, RoundGrows
  <2>6. Round(b, count) <= inserted
    BY <1>2, <2>1, <2>3, RoundWithin
  <2>7. Round(a, count) <= inserted
    BY <1>2, <2>1, <2>3, RoundWithin
  <2>8. QED
    BY <1>2, <2>2, <2>4, <2>5, <2>6, <2>7
<1>6. ASSUME NEW k \in 1 .. count
      PROVE  /\ Ins(k) \in 0 .. inserted /\ (k # 1 => Ins(k - 1) <= Ins(k))
             /\ Del(k) \in 0 .. removed
  <2> DEFINE now == even(k)
             then == even(k - 1)
  <2>1. now \in 0 .. inserted /\ then \in 0 .. inserted /\ then <= now
    BY <1>5
  <2> HIDE DEF now, then
  <2>2. LET s == Share(inserted, typed, k, now)
        IN  s \in 0 .. inserted /\ (k # 1 => Share(inserted, typed, k - 1, then) <= s)
    BY <1>2, <1>3, <1>4, <2>1, SharesGrow
  <2> DEFINE z == 0
  <2>3. z \in 0 .. removed /\ z <= z
    BY <1>2
  <2> HIDE DEF z
  <2>4. Share(removed, erased, k, z) \in 0 .. removed
    BY <1>2, <1>3, <1>4, <2>3, SharesGrow
  <2>5. QED
    BY <2>2, <2>4 DEF now, then, z
<1>7. Ins(count) = inserted /\ Del(count) = removed
  <2>1. ASSUME NEW sizes \in [1 .. count -> Nat], NEW amount, NEW otherwise
        PROVE  Share(amount, sizes, count, otherwise) = amount
    <3>1. PICK acc \in [0 .. count -> Nat] :
             /\ acc[0] = 0 /\ \A k \in 1 .. count : acc[k] = acc[k - 1] + sizes[k]
             /\ \A x, k, o : Share(x, sizes, k, o) =
                   IF k = count THEN x
                   ELSE IF acc[count] > 0 THEN Min({x, Round(x * acc[k], acc[count])})
                   ELSE o
      BY <1>3, Accumulates
    <3>2. QED
      BY <3>1
  <2>2. QED
    BY <1>4, <2>1
<1> HIDE DEF Ins, Del
<1>8. /\ LegacyFrame(l, i).seg = w
      /\ LegacyFrame(l, i).ins = Ins(i - from) /\ LegacyFrame(l, i).del = Del(i - from)
      /\ i - from \in 1 .. count /\ (i - from = count <=> i = EventsUpTo(l, w)) /\ i \in Nat
  BY <1>1
<1>9. ASSUME i - 1 \in SegmentOf(l, w)
      PROVE  LegacyFrame(l, i - 1).ins <= LegacyFrame(l, i).ins /\ LegacyFrame(l, i - 1).ins \in Nat
  <2> DEFINE k == i - from
  <2>1. LegacyFrame(l, i - 1).ins = Ins((i - 1) - from) /\ (i - 1) - from \in 1 .. count
    BY <1>1, <1>9
  <2>2. (i - 1) - from = k - 1 /\ k # 1 /\ k \in 1 .. count /\ k - 1 \in 1 .. count
    BY <1>3, <1>8, <2>1
  <2> HIDE DEF k
  <2>3. Ins(k - 1) <= Ins(k) /\ Ins(k - 1) \in 0 .. inserted
    BY <1>6, <2>2
  <2>4. Ins(k - 1) \in Nat
    BY <1>2, <2>3
  <2>5. QED
    BY <1>8, <2>1, <2>2, <2>3, <2>4 DEF k
<1>10. LegacyFrame(l, i).ins \in 0 .. inserted /\ LegacyFrame(l, i).del \in 0 .. removed
  BY <1>6, <1>8
<1>11. i = EventsUpTo(l, w) => LegacyFrame(l, i).ins = inserted /\ LegacyFrame(l, i).del = removed
  BY <1>7, <1>8
<1>12. QED
  BY <1>8, <1>9, <1>10, <1>11 DEF inserted, removed, diff
-----------------------------------------------------------------------------
(***************************************************************************)
(* What the replay of such a record shows.                                 *)
(***************************************************************************)
LEMMA SegmentFound ==
    ASSUME NEW l, IsLegacy(l), NEW i \in DOMAIN l.events
    PROVE  \E w \in 1 .. Len(l.snaps) : i \in SegmentOf(l, w)
<1> DEFINE N == Len(l.snaps)
           C(v) == EventsUpTo(l, v)
           S == {v \in Nat : v <= N /\ i <= C(v)}
<1>1. /\ N \in Nat \ {0} /\ DOMAIN l.events = 1 .. C(N)
      /\ \A v \in 1 .. N : l.snaps[v].count \in Nat
  BY DEF IsLegacy
<1>2. /\ \A v \in 0 .. N : C(v) \in Nat
      /\ C(0) = 0
  BY <1>1, Cuts
<1>3. \A v : i \in SegmentOf(l, v) <=> i \in DOMAIN l.events /\ C(v - 1) < i /\ i <= C(v)
  BY DEF SegmentOf
<1> HIDE DEF N, C
<1>4. N \in S /\ S \subseteq Nat
  <2>1. N \in 0 .. N
    BY <1>1
  <2>2. QED
    BY <1>1, <1>2, <2>1
<1>5. PICK w \in S : \A v \in S : w <= v
  <2> HIDE DEF S
  <2>1. QED
    BY <1>4, LeastNat
<1>6. w \in Nat /\ w <= N /\ i <= C(w) /\ i \in Nat \ {0}
  <2>1. N \in 0 .. N
    BY <1>1
  <2>2. C(N) \in Nat
    BY <1>2, <2>1
  <2>3. QED
    BY <1>1, <2>2
<1>7. w # 0
  BY <1>2, <1>6
<1>8. w \in 1 .. N /\ w - 1 \in 0 .. N /\ w - 1 \in Nat /\ w - 1 <= N /\ ~(w <= w - 1)
  BY <1>1, <1>6, <1>7
<1>9. w - 1 \notin S
  <2> HIDE DEF S
  <2>1. QED
    BY <1>5, <1>8
<1>10. C(w - 1) < i
  BY <1>2, <1>6, <1>8, <1>9
<1>11. QED
  BY <1>3, <1>6, <1>8, <1>10 DEF N

LEMMA SegmentEnd ==
    ASSUME NEW l, IsLegacy(l), NEW w \in 1 .. Len(l.snaps), SegmentOf(l, w) # {}
    PROVE  Max(SegmentOf(l, w)) = EventsUpTo(l, w) /\ EventsUpTo(l, w) \in SegmentOf(l, w)
<1> DEFINE N == Len(l.snaps)
           C(v) == EventsUpTo(l, v)
<1>1. /\ N \in Nat \ {0} /\ DOMAIN l.events = 1 .. C(N) /\ w \in 1 .. N
  BY DEF IsLegacy
<1>2. /\ \A v \in 0 .. N : C(v) \in Nat
      /\ \A u, v \in 0 .. N : u <= v => C(u) <= C(v)
  BY CutsGrow
<1>3. \A i : i \in SegmentOf(l, w) <=> i \in DOMAIN l.events /\ C(w - 1) < i /\ i <= C(w)
  BY DEF SegmentOf
<1> HIDE DEF N, C
<1>4. w \in 0 .. N /\ w - 1 \in 0 .. N /\ N \in 0 .. N /\ w <= N
  BY <1>1
<1>5. C(w) \in Nat /\ C(w - 1) \in Nat /\ C(N) \in Nat /\ C(w) <= C(N)
  BY <1>2, <1>4
<1>6. C(w) \in SegmentOf(l, w)
  BY <1>1, <1>3, <1>5
<1>7. SegmentOf(l, w) \subseteq 0 .. C(w)
  BY <1>1, <1>3, <1>5
<1> DEFINE S == SegmentOf(l, w)
           c == C(w)
<1> HIDE DEF S, c
<1>8. Max(S) \in S /\ \A y \in S : Max(S) >= y
  BY <1>5, <1>6, <1>7, MaxIn DEF S, c
<1> DEFINE x == Max(S)
<1>9. x \in 0 .. c /\ x >= c /\ c \in Nat
  BY <1>5, <1>6, <1>7, <1>8 DEF S, c
<1> HIDE DEF x
<1>10. x = c
  BY <1>9
<1>11. QED
  BY <1>6, <1>10 DEF x, S, c, C

LEMMA SegmentDiffIs ==
    ASSUME NEW l, IsLegacy(l), NEW w \in 1 .. Len(l.snaps)
    PROVE  LET r == SegmentDiff(l, w)
           IN  /\ r.prefix \in Text /\ r.inserted \in Text
               /\ r.removed \in Text /\ r.suffix \in Text
               /\ r.prefix \o r.inserted \o r.suffix = l.code[w]
<1>1. l.code[w] \in Text
  BY DEF IsLegacy
<1> DEFINE before == IF w = 1 THEN <<>> ELSE l.code[w - 1]
<1>2. before \in Text
  <2>1. w # 1 => w - 1 \in 1 .. Len(l.snaps)
    BY DEF IsLegacy
  <2>2. QED
    BY <2>1, EmptySeq DEF IsLegacy, Text
<1>3. SegmentDiff(l, w) = DiffTexts(before, l.code[w])
  BY DEF SegmentDiff
<1> HIDE DEF before
<1>4. QED
  BY <1>1, <1>2, <1>3, DiffIs

\* The text of a frame, and that of the last frame of a segment.
LEMMA FrameShows ==
    ASSUME NEW l, IsLegacy(l), NEW w \in 1 .. Len(l.snaps), NEW i \in SegmentOf(l, w)
    PROVE  /\ i = EventsUpTo(l, w) => LegacyText(l, i) = l.code[w]
           /\ LET before == IF i - 1 \in SegmentOf(l, w) THEN LegacyFrame(l, i - 1).ins ELSE 0
                  ins    == LegacyFrame(l, i).ins
                  start  == Len(SegmentDiff(l, w).prefix)
              IN  /\ LegacyFrame(l, i).seg = w
                  /\ start + before <= start + ins
                  /\ start + ins <= Len(LegacyText(l, i))
<1> DEFINE f == LegacyFrame(l, i)
           diff == SegmentDiff(l, w)
           shown == SubSeq(diff.inserted, 1, f.ins)
           kept == SubSeq(diff.removed, 1, Len(diff.removed) - f.del)
           before == IF i - 1 \in SegmentOf(l, w) THEN LegacyFrame(l, i - 1).ins ELSE 0
<1>1. /\ f.seg = w /\ f.ins \in 0 .. Len(diff.inserted) /\ f.del \in 0 .. Len(diff.removed)
      /\ i = EventsUpTo(l, w) => f.ins = Len(diff.inserted) /\ f.del = Len(diff.removed)
      /\ i - 1 \in SegmentOf(l, w) => /\ LegacyFrame(l, i - 1).ins <= f.ins
                                      /\ LegacyFrame(l, i - 1).ins \in Nat
  BY FrameShares
<1>2. /\ diff.prefix \in Text /\ diff.inserted \in Text /\ diff.removed \in Text /\ diff.suffix \in Text
      /\ diff.prefix \o diff.inserted \o diff.suffix = l.code[w]
  BY SegmentDiffIs
<1>3. LegacyText(l, i) = diff.prefix \o shown \o kept \o diff.suffix
  BY <1>1 DEF LegacyText
<1> HIDE DEF f, diff
<1>4. Len(diff.prefix) \in Nat /\ Len(diff.inserted) \in Nat /\ Len(diff.removed) \in Nat
      /\ Len(diff.suffix) \in Nat
  BY <1>2, LenProperties DEF Text
<1>5. shown \in Text /\ Len(shown) = f.ins
  <2>1. /\ f.ins \in Nat /\ f.ins <= Len(diff.inserted) /\ 1 \in Nat \ {0}
    BY <1>1, <1>4
  <2> DEFINE one == 1
             n == f.ins
  <2> HIDE DEF one, n
  <2>2. /\ SubSeq(diff.inserted, one, n) \in Text
        /\ Len(SubSeq(diff.inserted, one, n)) = IF one <= n THEN n - one + 1 ELSE 0
    BY <1>2, <2>1, PartOfText DEF one, n
  <2>3. QED
    BY <2>1, <2>2 DEF one, n
<1>6. kept \in Text
  <2> DEFINE one == 1
             n == Len(diff.removed) - f.del
  <2>1. n \in Nat /\ n <= Len(diff.removed) /\ one \in Nat \ {0}
    BY <1>1, <1>4
  <2> HIDE DEF one, n
  <2>2. SubSeq(diff.removed, one, n) \in Text
    BY <1>2, <2>1, PartOfText
  <2>3. QED
    BY <2>2 DEF one, n
<1>7. ASSUME i = EventsUpTo(l, w) PROVE LegacyText(l, i) = l.code[w]
  <2>1. f.ins = Len(diff.inserted) /\ f.del = Len(diff.removed)
    BY <1>1, <1>7
  <2>2. shown = diff.inserted
    BY <1>2, <2>1, SubSeqFull DEF Text
  <2>3. kept = <<>>
    <3>1. Len(diff.removed) - f.del = 0
      BY <1>4, <2>1
    <3>2. QED
      BY <3>1, SubSeqEmpty
  <2> HIDE DEF shown, kept
  <2>4. /\ diff.prefix \o shown \in Seq(Nat)
        /\ (diff.prefix \o shown) \o <<>> = diff.prefix \o shown
    BY <1>2, <1>5, ConcatProperties, ConcatEmptySeq DEF Text
  <2>5. QED
    BY <1>2, <1>3, <2>2, <2>3, <2>4
<1> HIDE DEF shown, kept
<1>8. Len(LegacyText(l, i)) = Len(diff.prefix) + Len(shown) + Len(kept) + Len(diff.suffix)
  <2>1. diff.prefix \o shown \in Seq(Nat) /\ Len(diff.prefix \o shown) = Len(diff.prefix) + Len(shown)
    BY <1>2, <1>5, ConcatProperties DEF Text
  <2>2. /\ diff.prefix \o shown \o kept \in Seq(Nat)
        /\ Len(diff.prefix \o shown \o kept) = Len(diff.prefix) + Len(shown) + Len(kept)
    BY <1>6, <2>1, ConcatProperties DEF Text
  <2>3. Len(diff.prefix \o shown \o kept \o diff.suffix)
          = Len(diff.prefix) + Len(shown) + Len(kept) + Len(diff.suffix)
    BY <1>2, <2>2, ConcatProperties DEF Text
  <2>4. QED
    BY <1>3, <2>3
<1>9. Len(kept) \in Nat
  BY <1>6, LenProperties DEF Text
<1>10. before \in Nat /\ before <= f.ins /\ f.ins \in Nat
  BY <1>1, <1>4
<1> HIDE DEF before
<1>11. /\ Len(diff.prefix) + before <= Len(diff.prefix) + f.ins
       /\ Len(diff.prefix) + f.ins <= Len(LegacyText(l, i))
  BY <1>4, <1>5, <1>8, <1>9, <1>10
<1>12. QED
  BY <1>1, <1>7, <1>11 DEF before, f, diff

\* The greatest of finitely many integers.
LEMMA MaxOfInts ==
    ASSUME NEW n \in Nat, NEW f, \A j \in 1 .. n : f[j] \in Int
    PROVE  Max({0} \cup {f[j] : j \in 1 .. n}) \in Int
<1> DEFINE V(k) == {0} \cup {f[j] : j \in 1 .. k}
           S == {k \in Nat : k <= n => \E x \in V(k) : \A y \in V(k) : x >= y}
<1>1. \A k \in Nat : k <= n => V(k) \subseteq Int
  OBVIOUS
<1>2. 0 \in S
  OBVIOUS
<1>3. ASSUME NEW k \in S PROVE k + 1 \in S
  <2> SUFFICES ASSUME k + 1 <= n
               PROVE  \E x \in V(k + 1) : \A y \in V(k + 1) : x >= y
    OBVIOUS
  <2>1. k \in Nat /\ k <= n /\ k + 1 \in Nat
    OBVIOUS
  <2>2. PICK x \in V(k) : \A y \in V(k) : x >= y
    BY <2>1
  <2>3. V(k + 1) = V(k) \cup {f[k + 1]}
    <3>1. 1 .. (k + 1) = (1 .. k) \cup {k + 1}
      BY <2>1
    <3>2. QED
      BY <3>1
  <2>4. f[k + 1] \in Int /\ V(k) \subseteq Int
    BY <1>1, <2>1
  <2> DEFINE z == f[k + 1]
             A == V(k)
             B == V(k + 1)
  <2> HIDE DEF z, A, B, V
  <2>5. B = A \cup {z} /\ z \in Int /\ A \subseteq Int /\ x \in A /\ \A y \in A : x >= y
    BY <2>2, <2>3, <2>4 DEF z, A, B
  <2>6. \E v \in B : \A y \in B : v >= y
    <3>1. CASE z >= x
      BY <2>5, <3>1
    <3>2. CASE ~(z >= x)
      BY <2>5, <3>2
    <3>3. QED
      BY <3>1, <3>2
  <2>7. QED
    BY <2>6 DEF B
<1>4. n \in S
  <2>1. S \subseteq Nat
    OBVIOUS
  <2> HIDE DEF S
  <2>2. QED
    BY <1>2, <1>3, <2>1, NatInd
<1>5. \E x \in V(n) : \A y \in V(n) : x >= y
  BY <1>4
<1>6. V(n) \subseteq Int
  BY <1>1
<1> HIDE DEF V
<1>7. Max(V(n)) \in V(n)
  BY <1>5 DEF Max
<1>8. QED
  BY <1>6, <1>7 DEF V

LEMMA LegacyEnd ==
    ASSUME NEW l, IsLegacy(l)
    PROVE  LegacyTextAt(l, Duration(l)) = Last(l.code)
<1> DEFINE N == Len(l.snaps)
           L == EventsUpTo(l, N)
           m == Moments(l)
<1>1. N \in Nat \ {0} /\ DOMAIN l.code = 1 .. N /\ DOMAIN l.events = 1 .. L
  BY DEF IsLegacy
<1>2. L \in Nat
  <2>1. N \in 0 .. N
    BY <1>1
  <2>2. QED
    BY <2>1, CutsGrow
<1>3. FinalText(l) = Last(l.code)
  <2>1. l.code # <<>>
    BY <1>1
  <2>2. QED
    BY <2>1 DEF FinalText
<1>4. CASE l.events = <<>>
  BY <1>3, <1>4 DEF LegacyTextAt
<1>5. CASE l.events # <<>>
  <2> HIDE DEF L
  <2>1. L # 0
    <3>1. ASSUME L = 0 PROVE FALSE
      <4>1. DOMAIN l.events = {}
        BY <1>1, <3>1
      <4>2. l.events = [j \in {} |-> l.events[j]]
        BY <4>1 DEF IsLegacy
      <4>3. l.events = <<>>
        BY <4>2
      <4>4. QED
        BY <1>5, <4>3
    <3>2. QED
      BY <3>1
  <2>2. L \in 1 .. L /\ 1 \in 1 .. L
    BY <1>2, <2>1
  <2>3. \A j \in 1 .. L : l.events[j].at \in Int
    <3>1. \A j \in DOMAIN l.events : l.events[j].at \in Nat
      BY DEF IsLegacy
    <3>2. QED
      BY <1>1, <3>1
  <2>4. Origin(l) = l.events[1].at - LeadIn
    BY DEF IsLegacy, Origin
  <2>5. Origin(l) \in Int
    BY <2>2, <2>3, <2>4, TimelineAssumption
  <2> DEFINE o == Origin(l)
             g == [j \in 1 .. L |-> l.events[j].at - o]
             V == {0} \cup {g[j] : j \in 1 .. L}
  <2>6. m[L] = Max(V)
    BY <1>1, <2>2 DEF Moments
  <2>7. Max(V) \in Int
    <3>1. \A j \in 1 .. L : g[j] \in Int
      BY <2>3, <2>5
    <3> HIDE DEF g
    <3>2. QED
      BY <1>2, <3>1, MaxOfInts
  <2>8. Len(m) = L
    <3>1. DOMAIN m = 1 .. L
      BY <1>1 DEF Moments
    <3>2. m = [k \in 1 .. L |-> m[k]]
      BY <3>1 DEF Moments
    <3>3. QED
      <4> DEFINE h == [k \in 1 .. L |-> m[k]]
      <4>1. h \in [1 .. L -> {m[k] : k \in 1 .. L}]
        OBVIOUS
      <4> HIDE DEF h
      <4>2. h \in Seq({m[k] : k \in 1 .. L})
        BY <1>2, <4>1, SeqDef
      <4>3. Len(h) = L
        <5>1. DOMAIN h = 1 .. L /\ DOMAIN h = 1 .. Len(h) /\ Len(h) \in Nat
          BY <4>1, <4>2, LenProperties
        <5>2. QED
          BY <1>2, <5>1
      <4>4. QED
        BY <3>2, <4>3 DEF h
  <2> HIDE DEF m, V
  <2>9. Duration(l) = Max(V)
    BY <1>5, <2>6, <2>8 DEF Duration, Last, m
  <2> DEFINE rel == Duration(l)
  <2>10. rel \in Int
    BY <2>7, <2>9
  <2> HIDE DEF rel
  <2>11. rel >= rel /\ ~(rel < rel)
    BY <2>10
  <2>12. LegacyTextAt(l, rel) = FinalText(l)
    BY <2>11 DEF LegacyTextAt, rel
  <2>13. QED
    BY <1>3, <2>12 DEF rel
<1>6. QED
  BY <1>4, <1>5
LEMMA LegacyShows ==
    ASSUME NEW l, IsLegacy(l)
    PROVE  /\ \A w \in DOMAIN l.code :
                 SegmentOf(l, w) # {} => LegacyText(l, Max(SegmentOf(l, w))) = l.code[w]
           /\ LegacyTextAt(l, Duration(l)) = Last(l.code)
           /\ \A m \in LegacyMarks(l) :
                 m.start <= m.end /\ m.end <= Len(LegacyText(l, m.i))
<1>1. ASSUME NEW w \in DOMAIN l.code, SegmentOf(l, w) # {}
      PROVE  LegacyText(l, Max(SegmentOf(l, w))) = l.code[w]
  <2>1. w \in 1 .. Len(l.snaps)
    BY DEF IsLegacy
  <2>2. Max(SegmentOf(l, w)) = EventsUpTo(l, w) /\ EventsUpTo(l, w) \in SegmentOf(l, w)
    BY <1>1, <2>1, SegmentEnd
  <2> DEFINE i == EventsUpTo(l, w)
  <2>3. i \in SegmentOf(l, w) /\ i = EventsUpTo(l, w)
    BY <2>2
  <2> HIDE DEF i
  <2>4. LegacyText(l, i) = l.code[w]
    BY <2>1, <2>3, FrameShows
  <2>5. QED
    BY <2>2, <2>3, <2>4
<1>2. ASSUME NEW m \in LegacyMarks(l)
      PROVE  m.start <= m.end /\ m.end <= Len(LegacyText(l, m.i))
  <2> DEFINE InsBefore(i, f) ==
               IF i - 1 \in SegmentOf(l, f.seg) THEN LegacyFrame(l, i - 1).ins ELSE 0
             Mark(i, f) == [i |-> i, t |-> Moments(l)[i],
                            start |-> Len(SegmentDiff(l, f.seg).prefix) + InsBefore(i, f),
                            end |-> Len(SegmentDiff(l, f.seg).prefix) + f.ins]
  <2>1. PICK i \in DOMAIN l.events : m = Mark(i, LegacyFrame(l, i))
    BY DEF LegacyMarks
  <2>2. PICK w \in 1 .. Len(l.snaps) : i \in SegmentOf(l, w)
    BY SegmentFound
  <2> DEFINE f == LegacyFrame(l, i)
             start == Len(SegmentDiff(l, w).prefix)
             before == IF i - 1 \in SegmentOf(l, w) THEN LegacyFrame(l, i - 1).ins ELSE 0
  <2>3. f.seg = w /\ start + before <= start + f.ins /\ start + f.ins <= Len(LegacyText(l, i))
    BY <2>2, FrameShows
  <2>4. m.i = i /\ m.start = start + before /\ m.end = start + f.ins
    BY <2>1, <2>3
  <2>5. QED
    BY <2>3, <2>4
<1>3. QED
  BY <1>1, <1>2, LegacyEnd

\* One task of the record is such a record, whatever happened to it.
LEMMA TaskIsLegacy ==
    ASSUME RecordIsTyped, log # <<>>, NEW t \in Task,
           \A w \in DOMAIN log : EntryFile \in DOMAIN log[w].snap[t]
    PROVE  IsLegacy(LegacyData(ReplayDataForTask(ReplayData, t), t))
<1> DEFINE d == ReplayData
           n == ReplayDataForTask(d, t)
           l == LegacyData(n, t)
           N == Len(n.snaps)
           L == Len(n.events)
<1>1. /\ IsServed(d, Task) /\ Len(d.snaps) = Len(log)
      /\ \A w \in 1 .. Len(log) : d.snaps[w].files = log[w].snap
  BY RecordIsServed, RecordIsPayload
<1>2. /\ IsPayload(n, {t}) /\ N = Len(d.snaps)
      /\ \A w \in 1 .. Len(d.snaps) : n.snaps[w].files[t] = d.snaps[w].files[t]
  <2> DEFINE U == Task
  <2> HIDE DEF d, U
  <2>1. IsServed(d, U) /\ t \in U
    BY <1>1 DEF U
  <2>2. IsPayload(n, {t}) /\ Len(n.snaps) = Len(d.snaps)
    BY <2>1, Narrowed
  <2>3. \A w \in 1 .. Len(d.snaps) : /\ n.snaps[w].files[t] = d.snaps[w].files[t]
                                     /\ n.snaps[w].open = d.snaps[w].open
    BY <2>1, Narrowed
  <2>4. QED
    BY <2>2, <2>3
<1>3. /\ N \in Nat \ {0} /\ DOMAIN n.snaps = 1 .. N
      /\ \A w \in 1 .. N : n.snaps[w].count \in Nat
      /\ n.events \in Seq(Event) /\ L \in Nat /\ DOMAIN n.events = 1 .. L
      /\ EventsUpTo(n, N) = L
  <2> HIDE DEF n
  <2>1. QED
    BY <1>2, LenProperties DEF IsPayload, IsSnap
<1>4. log \in Seq(Windows) /\ DOMAIN log = 1 .. Len(log)
  <2>1. log \in Seq(Windows)
    BY DEF RecordIsTyped
  <2>2. QED
    BY <2>1, LenProperties
<1>5. \A w \in 1 .. N : n.snaps[w].files[t][EntryFile] \in Text
  <2> TAKE w \in 1 .. N
  <2>1. w \in 1 .. Len(log) /\ n.snaps[w].files[t] = log[w].snap[t]
    BY <1>1, <1>2
  <2>2. log[w] \in Windows
    BY <1>4, <2>1, ElementOfSeq
  <2>3. log[w].snap \in Workspace(Task)
    BY <2>2, WindowHas
  <2> DEFINE ws == log[w].snap
             U == Task
  <2> HIDE DEF ws, U
  <2>4. \A m \in DOMAIN ws[t] : ws[t][m] \in Text
    BY <2>3, WorkspaceHas DEF ws, U
  <2>5. EntryFile \in DOMAIN ws[t]
    BY <1>4, <2>1 DEF ws
  <2>6. QED
    BY <2>1, <2>4, <2>5 DEF ws
<1>6. \A i \in 1 .. L : /\ n.events[i].at \in Nat
                        /\ Inserted(n.events[i].changes) - Deleted(n.events[i].changes) \in Int
  <2> TAKE i \in 1 .. L
  <2>1. n.events[i] \in Event
    BY <1>3, ElementOfSeq
  <2>2. n.events[i].at \in Nat /\ n.events[i].changes \in Seq(OneEdit)
    BY <2>1 DEF Event
  <2> DEFINE cs == n.events[i].changes
  <2>3. Inserted(cs) \in Nat /\ Deleted(cs) \in Nat
    BY <2>2, ChangesCount
  <2> HIDE DEF cs
  <2>4. Inserted(cs) - Deleted(cs) \in Int
    BY <2>3
  <2>5. QED
    BY <2>2, <2>4 DEF cs
<1> HIDE DEF n
<1>7. /\ l.snaps = n.snaps /\ l.openedAt = {}
      /\ l.code = [w \in DOMAIN n.snaps |-> n.snaps[w].files[t][EntryFile]]
  BY DEF LegacyData
<1>8. /\ DOMAIN l.events = DOMAIN n.events
      /\ l.events = [i \in DOMAIN l.events |-> l.events[i]]
      /\ \A i \in DOMAIN n.events :
            /\ l.events[i].at = n.events[i].at
            /\ l.events[i].delta = Inserted(n.events[i].changes) - Deleted(n.events[i].changes)
  BY DEF LegacyData
<1>9. EventsUpTo(l, N) = EventsUpTo(n, N)
  BY <1>7 DEF EventsUpTo
<1> HIDE DEF l, N, L
<1>10. l.code \in [1 .. N -> Text]
  BY <1>3, <1>5, <1>7
<1>11. \A i \in DOMAIN l.events : l.events[i].at \in Nat /\ l.events[i].delta \in Int
  BY <1>3, <1>6, <1>8
<1>12. Len(l.snaps) = N
  BY <1>7 DEF N
<1>13. DOMAIN l.events = 1 .. EventsUpTo(l, Len(l.snaps))
  BY <1>3, <1>8, <1>9, <1>12
<1>14. Len(l.snaps) \in Nat \ {0} /\ \A w \in 1 .. Len(l.snaps) : l.snaps[w].count \in Nat
  BY <1>3, <1>7, <1>12
<1>15. IsLegacy(l)
  BY <1>7, <1>8, <1>10, <1>11, <1>12, <1>13, <1>14 DEF IsLegacy
<1>16. QED
  BY <1>15 DEF l, n

LEMMA LegacyMeets == RecordIsTyped => LegacyMeetsSnapshots
<1> SUFFICES ASSUME RecordIsTyped,
                    NEW t \in UNION {{log[w].events[i].task : i \in DOMAIN log[w].events} :
                                        w \in DOMAIN log},
                    \A w \in DOMAIN log : EntryFile \in DOMAIN log[w].snap[t]
             PROVE  LET l == LegacyData(ReplayDataForTask(ReplayData, t), t)
                    IN  /\ \A w \in DOMAIN l.code :
                              SegmentOf(l, w) # {} =>
                                 LegacyText(l, Max(SegmentOf(l, w))) = l.code[w]
                        /\ LegacyTextAt(l, Duration(l)) = Last(l.code)
                        /\ \A m \in LegacyMarks(l) :
                              m.start <= m.end /\ m.end <= Len(LegacyText(l, m.i))
  BY DEF LegacyMeetsSnapshots
<1> DEFINE l == LegacyData(ReplayDataForTask(ReplayData, t), t)
<1>1. PICK w \in DOMAIN log : \E i \in DOMAIN log[w].events : t = log[w].events[i].task
  OBVIOUS
<1>2. log \in Seq(Windows) /\ w \in 1 .. Len(log) /\ log # <<>>
  <2>1. log \in Seq(Windows)
    BY DEF RecordIsTyped
  <2>2. QED
    BY <1>1, <2>1, LenProperties
<1>3. log[w].events \in Seq(Event)
  <2>1. log[w] \in Windows
    BY <1>2, ElementOfSeq
  <2>2. QED
    BY <2>1, WindowHas
<1>4. t \in Task
  <2>1. PICK i \in DOMAIN log[w].events : t = log[w].events[i].task
    BY <1>1
  <2>2. log[w].events[i] \in Event
    BY <1>3, <2>1, LenProperties, ElementOfSeq
  <2>3. QED
    BY <2>1, <2>2 DEF Event
<1>5. IsLegacy(l)
  BY <1>2, <1>4, TaskIsLegacy
<1> HIDE DEF l
<1>6. QED
  BY <1>5, LegacyShows DEF l

\* Without edit lists, and whatever was lost, repeated or reordered, the
\* approximate replay meets every flush's snapshot, ends on the last, and
\* marks for a paste a part of the text it shows.
THEOREM LegacyTrue == Spec => []LegacyMeetsSnapshots
<1>1. Init => RecordIsTyped
  BY RecordStart
<1>2. RecordIsTyped /\ [Next]_vars => RecordIsTyped'
  BY RecordStep
<1>3. RecordIsTyped => LegacyMeetsSnapshots
  BY LegacyMeets
<1>4. QED
  BY <1>1, <1>2, <1>3, PTL DEF Spec
=============================================================================
