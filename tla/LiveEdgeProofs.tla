--------------------------- MODULE LiveEdgeProofs ---------------------------
(***************************************************************************)
(* The live edge is true (EdgeIsTrue), for any number of keystrokes,       *)
(* reconnects, and lost, repeated or overtaken requests and answers.       *)
(*                                                                         *)
(* The invariant EdgeInv says what the pieces in flight are: the windows   *)
(* posted and logged and the keystrokes relayed are pieces of what was     *)
(* typed, and each keystroke's edits lead from the text before it to the   *)
(* text after it.  The rest is about one state: a record without a gap and *)
(* a tail that continues it make a payload whose windows end where the     *)
(* texts of the student do (IsTold), and on such a payload the checkpoint  *)
(* pass heals nothing and every frame is the student's text (ToldIsShown). *)
(***************************************************************************)
EXTENDS LiveEdge, FiniteSetTheorems, SequenceTheorems, WellFoundedInduction, TLAPS

(***************************************************************************)
(* Induction over the naturals, from the well-foundedness of their order,  *)
(* and recursion: two functions that take the same steps agree.            *)
(***************************************************************************)
LEMMA LeastNat ==
    ASSUME NEW T, T \subseteq Nat, T # {}
    PROVE  \E n \in T : \A m \in T : n <= m
<1>1. PICK n \in T : \A m \in T : <<m, n>> \notin OpToRel(<, Nat)
  BY NatLessThanWellFounded, WFMin
<1>2. \A m \in T : ~(m < n)
  <2> SUFFICES ASSUME NEW m \in T, m < n PROVE FALSE
    OBVIOUS
  <2>1. <<m, n>> \in OpToRel(<, Nat)
    BY DEF OpToRel
  <2>2. QED
    BY <1>1, <2>1
<1>3. QED
  BY <1>2

LEMMA NatInd ==
    ASSUME NEW S, S \subseteq Nat, 0 \in S, \A n \in S : n + 1 \in S
    PROVE  S = Nat
<1> DEFINE T == Nat \ S
<1>1. SUFFICES ASSUME T # {} PROVE FALSE
  OBVIOUS
<1>2. PICK n \in T : \A m \in T : n <= m
  BY <1>1, LeastNat
<1>3. n # 0 /\ n - 1 \in Nat /\ n - 1 \notin T
  BY <1>2
<1>4. QED
  BY <1>3

LEMMA Agree ==
    ASSUME NEW n \in Nat, NEW f, NEW h, f[0] = h[0],
           \A k \in 1 .. n : f[k - 1] = h[k - 1] => f[k] = h[k]
    PROVE  \A k \in 0 .. n : f[k] = h[k]
<1> DEFINE S == {k \in Nat : k <= n => f[k] = h[k]}
<1>1. 0 \in S
  OBVIOUS
<1>2. ASSUME NEW k \in S PROVE k + 1 \in S
  <2> SUFFICES ASSUME k + 1 <= n PROVE f[k + 1] = h[k + 1]
    OBVIOUS
  <2>1. k + 1 \in 1 .. n /\ (k + 1) - 1 = k /\ f[k] = h[k]
    OBVIOUS
  <2>2. QED
    BY <2>1
<1> HIDE DEF S
<1>3. S = Nat
  <2>1. S \subseteq Nat
    BY DEF S
  <2>2. QED
    BY <1>1, <1>2, <2>1, NatInd
<1>4. \A k \in 0 .. n : k \in S /\ k <= n
  BY <1>3
<1>5. QED
  BY <1>4 DEF S

\* Two intervals from 1 with the same members end alike.
LEMMA SameInterval ==
    ASSUME NEW a \in Nat, NEW b \in Nat, 1 .. a = 1 .. b
    PROVE  a = b
<1>1. a \in 1 .. a \/ a = 0
  OBVIOUS
<1>2. b \in 1 .. b \/ b = 0
  OBVIOUS
<1>3. (a \in 1 .. b \/ a = 0) /\ (b \in 1 .. a \/ b = 0)
  BY <1>1, <1>2
<1>4. a <= b /\ b <= a
  BY <1>3
<1>5. QED
  BY <1>4

\* Counting up to n one step at a time stays in 0 .. n.
LEMMA Steps ==
    ASSUME NEW n \in Nat
    PROVE  /\ \A k \in 1 .. n : k - 1 \in 0 .. n /\ k # 0 /\ k \in 0 .. n
           /\ \A k \in 0 .. n : k = 0 \/ k \in 1 .. n
           /\ 0 \in 0 .. n /\ n \in 0 .. n
  OBVIOUS

-----------------------------------------------------------------------------
(***************************************************************************)
(* Texts and keystrokes.                                                   *)
(***************************************************************************)
Str == Seq(Nat)

OneEdit == [o : Nat, d : Nat, t : Str]

Keystroke == [changes : Seq(OneEdit), after : Str]

LEMMA MinOfTwo ==
    ASSUME NEW a \in Nat, NEW b \in Nat
    PROVE  Min({a, b}) = IF a <= b THEN a ELSE b
<1> DEFINE m == IF a <= b THEN a ELSE b
<1>1. m \in {a, b} /\ \A y \in {a, b} : m <= y
  OBVIOUS
<1>2. \A x \in {a, b} : (\A y \in {a, b} : x <= y) => x = m
  OBVIOUS
<1> HIDE DEF m
<1>3. Min({a, b}) = m
  BY <1>1, <1>2 DEF Min
<1>4. QED
  BY <1>3 DEF m

LEMMA ApplyOne ==
    ASSUME NEW text, NEW c
    PROVE  ApplyChanges(text, <<c>>) = ApplyChange(text, c)
<1> DEFINE F(f) == [k \in 0 .. Len(<<c>>) |->
                      IF k = 0 THEN text ELSE ApplyChange(f[k - 1], <<c>>[k])]
           after == CHOOSE f : f = F(f)
           h == [k \in 0 .. 1 |-> IF k = 0 THEN text ELSE ApplyChange(text, c)]
<1>1. ApplyChanges(text, <<c>>) = after[Len(<<c>>)] /\ Len(<<c>>) = 1 /\ <<c>>[1] = c
  BY DEF ApplyChanges
<1>2. h = F(h)
  <2>1. \A k \in 0 .. 1 : k = 0 \/ k = 1
    OBVIOUS
  <2>2. h[0] = text /\ 1 - 1 = 0
    OBVIOUS
  <2>3. F(h) = [k \in 0 .. 1 |-> IF k = 0 THEN text ELSE ApplyChange(h[k - 1], <<c>>[k])]
    BY <1>1
  <2> HIDE DEF F
  <2>4. \A k \in 0 .. 1 : (IF k = 0 THEN text ELSE ApplyChange(h[k - 1], <<c>>[k])) = h[k]
    BY <1>1, <2>1, <2>2
  <2>5. QED
    BY <2>3, <2>4
<1>3. after = F(after)
  <2> HIDE DEF F, h
  <2>1. QED
    BY <1>2
<1> HIDE DEF after
<1>4. after = [k \in 0 .. 1 |-> IF k = 0 THEN text ELSE ApplyChange(after[k - 1], <<c>>[k])]
  BY <1>1, <1>3
<1>5. after[0] = text /\ after[1] = ApplyChange(after[1 - 1], <<c>>[1]) /\ 1 - 1 = 0
  <2> HIDE DEF F
  <2>1. 0 \in 0 .. 1 /\ 1 \in 0 .. 1
    OBVIOUS
  <2>2. QED
    BY <1>4, <2>1
<1>6. QED
  BY <1>1, <1>5

LEMMA ApplyAt ==
    ASSUME NEW text \in Str, NEW o \in Nat, NEW k \in Nat, NEW t \in Str, o <= Len(text)
    PROVE  ApplyChange(text, Change(o, k, t)) =
              SubSeq(text, 1, o) \o t \o SubSeq(text, o + k + 1, Len(text))
<1>1. Len(text) \in Nat
  BY LenProperties DEF Str
<1>2. Min({o, Len(text)}) = o
  BY <1>1, MinOfTwo
<1>3. QED
  BY <1>2 DEF ApplyChange, Change

\* A character typed at the end.
LEMMA ApplyAtEnd ==
    ASSUME NEW text \in Str, NEW x \in Nat
    PROVE  ApplyChange(text, Change(Len(text), 0, <<x>>)) = Append(text, x)
<1>1. Len(text) \in Nat /\ <<x>> \in Str
  BY LenProperties DEF Str
<1>2. SubSeq(text, 1, Len(text)) = text
  BY SubSeqFull DEF Str
<1>3. SubSeq(text, Len(text) + 0 + 1, Len(text)) = <<>>
  BY <1>1, SubSeqEmpty
<1>4. text \o <<x>> = Append(text, x) /\ Append(text, x) \in Str
  BY AppendIsConcat, AppendProperties DEF Str
<1>5. ApplyChange(text, Change(Len(text), 0, <<x>>)) = text \o <<x>> \o <<>>
  <2>1. 0 \in Nat /\ Len(text) <= Len(text)
    BY <1>1
  <2>2. ApplyChange(text, Change(Len(text), 0, <<x>>)) =
           SubSeq(text, 1, Len(text)) \o <<x>> \o SubSeq(text, Len(text) + 0 + 1, Len(text))
    BY <1>1, <2>1, ApplyAt
  <2>3. QED
    BY <1>2, <1>3, <2>2, Zenon
<1>6. Append(text, x) \o <<>> = Append(text, x)
  BY <1>4, ConcatEmptySeq DEF Str
<1>7. QED
  BY <1>4, <1>5, <1>6

\* A character taken back.
LEMMA ApplyBackspace ==
    ASSUME NEW text \in Str, text # <<>>
    PROVE  /\ ApplyChange(text, Change(Len(text) - 1, 1, <<>>)) = Front(text)
           /\ Front(text) \in Str
<1>1. Len(text) \in Nat \ {0} /\ Len(text) - 1 \in Nat /\ <<>> \in Str
  BY EmptySeq DEF Str
<1>2. Front(text) = SubSeq(text, 1, Len(text) - 1) /\ Front(text) \in Str
  <2>1. \A i \in 1 .. Len(text) - 1 : text[i] \in Nat
    <3>1. \A i \in 1 .. Len(text) - 1 : i \in 1 .. Len(text)
      BY <1>1
    <3>2. QED
      BY <3>1, ElementOfSeq DEF Str
  <2>2. SubSeq(text, 1, Len(text) - 1) \in Seq(Nat)
    BY <1>1, <2>1, SubSeqProperties
  <2>3. QED
    BY <2>2 DEF Front, Str
<1>3. SubSeq(text, (Len(text) - 1) + 1 + 1, Len(text)) = <<>>
  BY <1>1, SubSeqEmpty
<1>4. ApplyChange(text, Change(Len(text) - 1, 1, <<>>)) = Front(text) \o <<>> \o <<>>
  <2>1. 1 \in Nat /\ Len(text) - 1 <= Len(text)
    BY <1>1
  <2>2. ApplyChange(text, Change(Len(text) - 1, 1, <<>>)) =
           SubSeq(text, 1, Len(text) - 1) \o <<>>
               \o SubSeq(text, (Len(text) - 1) + 1 + 1, Len(text))
    BY <1>1, <2>1, ApplyAt
  <2>3. QED
    BY <1>2, <1>3, <2>2, Zenon
<1>5. Front(text) \o <<>> = Front(text)
  BY <1>2, ConcatEmptySeq DEF Str
<1>6. QED
  BY <1>2, <1>4, <1>5

LEMMA KeystrokeDoes ==
    ASSUME NEW s \in Str, NEW x \in Nat, NEW m \in Keystrokes(s, x)
    PROVE  m \in Keystroke /\ ApplyChanges(s, m.changes) = m.after
<1>1. \A c \in OneEdit : <<c>> \in Seq(OneEdit)
  OBVIOUS
<1>2. Len(s) \in Nat /\ <<x>> \in Str /\ <<>> \in Str
  BY LenProperties, EmptySeq DEF Str
<1>3. CASE m = [changes |-> <<Change(Len(s), 0, <<x>>)>>, after |-> Append(s, x)]
  <2>1. Change(Len(s), 0, <<x>>) \in OneEdit /\ Append(s, x) \in Str
    BY <1>2, AppendProperties DEF OneEdit, Change, Str
  <2>2. ApplyChanges(s, <<Change(Len(s), 0, <<x>>)>>) = Append(s, x)
    BY ApplyOne, ApplyAtEnd
  <2>3. QED
    BY <1>1, <1>3, <2>1, <2>2 DEF Keystroke
<1>4. CASE s # <<>> /\ m = [changes |-> <<Change(Len(s) - 1, 1, <<>>)>>, after |-> Front(s)]
  <2>1. Change(Len(s) - 1, 1, <<>>) \in OneEdit
    <3>1. Len(s) # 0
      BY <1>4, EmptySeq DEF Str
    <3>2. Len(s) - 1 \in Nat
      BY <1>2, <3>1
    <3>3. QED
      BY <1>2, <3>2 DEF OneEdit, Change
  <2>2. ApplyChanges(s, <<Change(Len(s) - 1, 1, <<>>)>>) = Front(s) /\ Front(s) \in Str
    BY <1>4, ApplyOne, ApplyBackspace
  <2>3. QED
    BY <1>1, <1>4, <2>1, <2>2 DEF Keystroke
<1>5. QED
  BY <1>3, <1>4 DEF Keystrokes

-----------------------------------------------------------------------------
(***************************************************************************)
(* The inductive invariant.                                                *)
(***************************************************************************)
Message == [kind : {"keystroke", "synced", "flushed"}, k : Nat]

IsWindow(p) == p.first \in Nat \ {0} /\ p.last \in Nat /\ p.first <= p.last /\ p.last <= Len(typed)

Relayed(ms) ==
    /\ ms \in Seq(Message)
    /\ \A i \in 1 .. Len(ms) : ms[i].kind = "keystroke" => ms[i].k \in 1 .. Len(typed)

\* The edits of every keystroke lead from the text before it to the one after.
TypedInv ==
    /\ typed \in Seq(Keystroke)
    /\ \A k \in 1 .. Len(typed) : ApplyChanges(Text(k - 1), typed[k].changes) = Text(k)

StudentInv ==
    /\ drained \in Nat /\ drained <= Len(typed)
    /\ ticked \in Nat /\ ticked <= Len(typed)
    /\ \A p \in posts : IsWindow(p) /\ p.at \in Nat

RecordInv ==
    /\ log \in Seq([first : Nat, last : Nat])
    /\ \A w \in 1 .. Len(log) : IsWindow(log[w])
    /\ data \in Nat /\ data <= Len(log)
    /\ asked \subseteq Nat

StreamInv ==
    /\ Relayed(chan)
    /\ live \in Seq(Nat)
    /\ \A i \in 1 .. Len(live) : live[i] \in 1 .. Len(typed)
    /\ syncedAt \in Nat

EdgeInv == TypedInv /\ StudentInv /\ RecordInv /\ StreamInv

LEMMA RelayedAppend ==
    ASSUME NEW ms, Relayed(ms), NEW m \in Message, m.kind = "keystroke" => m.k \in 1 .. Len(typed)
    PROVE  Relayed(Append(ms, m))
<1>1. ms \in Seq(Message) /\ Len(ms) \in Nat
  BY LenProperties DEF Relayed
<1>2. /\ Append(ms, m) \in Seq(Message) /\ Len(Append(ms, m)) = Len(ms) + 1
      /\ \A i \in 1 .. Len(ms) : Append(ms, m)[i] = ms[i]
      /\ Append(ms, m)[Len(ms) + 1] = m
  BY <1>1, AppendProperties
<1>3. \A i \in 1 .. Len(ms) + 1 : i \in 1 .. Len(ms) \/ i = Len(ms) + 1
  BY <1>1
<1>4. QED
  BY <1>2, <1>3 DEF Relayed

LEMMA RelayedAnnounce ==
    ASSUME NEW ms, Relayed(ms)
    PROVE  Relayed(Announce(ms))
<1>1. Flushed \in Message /\ Flushed.kind # "keystroke"
  BY DEF Flushed, Message
<1>2. QED
  BY <1>1, RelayedAppend DEF Announce

LEMMA RelayedTail ==
    ASSUME NEW ms, Relayed(ms), ms # <<>>
    PROVE  /\ Relayed(Tail(ms)) /\ Head(ms) \in Message
           /\ Head(ms).kind = "keystroke" => Head(ms).k \in 1 .. Len(typed)
<1>1. ms \in Seq(Message) /\ Len(ms) \in Nat \ {0}
  BY EmptySeq DEF Relayed
<1>2. /\ Tail(ms) \in Seq(Message) /\ Len(Tail(ms)) = Len(ms) - 1 /\ Head(ms) \in Message
      /\ \A i \in 1 .. Len(Tail(ms)) : Tail(ms)[i] = ms[i + 1]
  BY <1>1, HeadTailProperties
<1>3. \A i \in 1 .. Len(Tail(ms)) : i + 1 \in 1 .. Len(ms)
  BY <1>1, <1>2
<1>4. Head(ms) = ms[1] /\ 1 \in 1 .. Len(ms)
  BY <1>1
<1>5. QED
  BY <1>2, <1>3, <1>4 DEF Relayed

LEMMA RelayedEmpty == Relayed(<<>>)
<1>1. <<>> \in Seq(Message) /\ Len(<<>>) = 0
  BY EmptySeq
<1>2. QED
  BY <1>1 DEF Relayed

\* Nothing of the invariant moves with what it does not name.
LEMMA TypedKept ==
    ASSUME TypedInv, typed' = typed
    PROVE  TypedInv'
  BY DEF TypedInv, Text

LEMMA StudentKept ==
    ASSUME StudentInv, UNCHANGED <<student, posts>>
    PROVE  StudentInv'
  BY DEF StudentInv, student, IsWindow

LEMMA RecordKept ==
    ASSUME RecordInv, UNCHANGED <<typed, log, data, asked>>
    PROVE  RecordInv'
  BY DEF RecordInv, IsWindow

LEMMA StreamKept ==
    ASSUME StreamInv, UNCHANGED <<typed, chan, live, syncedAt>>
    PROVE  StreamInv'
  BY DEF StreamInv, Relayed

LEMMA ChanMoves ==
    ASSUME StreamInv, UNCHANGED <<typed, live, syncedAt>>, Relayed(chan')
    PROVE  StreamInv'
  BY DEF StreamInv, Relayed

LEMMA TextType ==
    ASSUME TypedInv, NEW k \in 0 .. Len(typed)
    PROVE  Text(k) \in Str
<1>1. typed \in Seq(Keystroke) /\ Len(typed) \in Nat
  BY LenProperties DEF TypedInv
<1>2. CASE k = 0
  BY <1>2, EmptySeq DEF Text, Str
<1>3. CASE k # 0
  <2>1. k \in 1 .. Len(typed)
    BY <1>1, <1>3
  <2>2. typed[k] \in Keystroke
    BY <1>1, <2>1, ElementOfSeq
  <2>3. QED
    BY <1>3, <2>2 DEF Text, Keystroke
<1>4. QED
  BY <1>2, <1>3

-----------------------------------------------------------------------------
(***************************************************************************)
(* Every step keeps it.                                                    *)
(***************************************************************************)
LEMMA EdgeInit == Init => EdgeInv
<1> SUFFICES ASSUME Init PROVE EdgeInv
  OBVIOUS
<1>1. /\ <<>> \in Seq(Keystroke) /\ <<>> \in Seq([first : Nat, last : Nat]) /\ <<>> \in Seq(Nat)
      /\ Len(<<>>) = 0 /\ 1 .. 0 = {}
  BY EmptySeq
<1>2. TypedInv
  BY <1>1 DEF Init, TypedInv
<1>3. StudentInv
  BY <1>1 DEF Init, StudentInv
<1>4. RecordInv
  BY <1>1 DEF Init, RecordInv
<1>5. StreamInv
  BY <1>1, RelayedEmpty DEF Init, StreamInv
<1>6. QED
  BY <1>2, <1>3, <1>4, <1>5 DEF EdgeInv

LEMMA EditKeeps ==
    ASSUME EdgeInv, Edit
    PROVE  EdgeInv'
<1> DEFINE n == Len(typed)
<1>1. typed \in Seq(Keystroke) /\ n \in Nat
  BY LenProperties DEF EdgeInv, TypedInv
<1>2. PICK m \in Keystrokes(CurrentText, n + 1) : typed' = Append(typed, m)
  BY DEF Edit
<1>3. CurrentText \in Str /\ CurrentText = Text(n)
  BY <1>1, TextType DEF EdgeInv, CurrentText
<1>4. m \in Keystroke /\ ApplyChanges(Text(n), m.changes) = m.after
  BY <1>1, <1>2, <1>3, KeystrokeDoes
<1>5. /\ typed' \in Seq(Keystroke) /\ Len(typed') = n + 1
      /\ typed'[n + 1] = m /\ \A k \in 1 .. n : typed'[k] = typed[k]
  BY <1>1, <1>2, <1>4, AppendProperties
<1> HIDE DEF n
<1>6. \A k \in 0 .. n : Text(k)' = Text(k)
  BY <1>1, <1>5 DEF Text
<1>7. TypedInv'
  <2>1. ASSUME NEW k \in 1 .. n + 1
        PROVE  ApplyChanges(Text(k - 1)', typed'[k].changes) = Text(k)'
    <3>1. k - 1 \in 0 .. n /\ Text(k - 1)' = Text(k - 1)
      BY <1>1, <1>6
    <3>2. CASE k = n + 1
      <4>1. Text(k)' = m.after /\ typed'[k] = m /\ k - 1 = n
        BY <1>1, <1>5, <3>2 DEF Text
      <4>2. QED
        BY <1>4, <3>1, <4>1
    <3>3. CASE k # n + 1
      <4>1. k \in 1 .. n /\ k \in 0 .. n
        BY <1>1, <3>3
      <4>2. ApplyChanges(Text(k - 1), typed[k].changes) = Text(k)
        BY <4>1 DEF EdgeInv, TypedInv, n
      <4>3. QED
        BY <1>5, <1>6, <3>1, <4>1, <4>2
    <3>4. QED
      BY <3>2, <3>3
  <2>2. QED
    BY <1>5, <2>1 DEF TypedInv
<1>8. \A k \in Nat : k <= n => k <= n + 1
  BY <1>1
<1>9. \A p : IsWindow(p) => IsWindow(p)'
  BY <1>5, <1>8 DEF IsWindow, n
<1>10. StudentInv'
  BY <1>5, <1>8, <1>9 DEF EdgeInv, StudentInv, Edit, n
<1>11. RecordInv'
  BY <1>9 DEF EdgeInv, RecordInv, Edit, player
<1>12. \A k \in 1 .. n : k \in 1 .. n + 1
  BY <1>1
<1>13. StreamInv'
  <2>1. \A ms : Relayed(ms) => Relayed(ms)'
    BY <1>5, <1>12 DEF Relayed, n
  <2>2. QED
    BY <1>5, <1>12, <2>1 DEF EdgeInv, StreamInv, Edit, player, n
<1>14. QED
  BY <1>7, <1>10, <1>11, <1>13 DEF EdgeInv

LEMMA EmitKeeps ==
    ASSUME EdgeInv, Emit
    PROVE  EdgeInv'
<1>1. typed \in Seq(Keystroke) /\ Len(typed) \in Nat /\ ticked \in Nat
  BY LenProperties DEF EdgeInv, TypedInv, StudentInv
<1>2. /\ ticked < Len(typed) /\ ticked' = ticked + 1
      /\ UNCHANGED <<typed, drained, posts, log, asked, data, live, syncedAt>>
  BY DEF Emit, player
<1>3. TypedInv'
  BY <1>2, TypedKept DEF EdgeInv
<1>4. StudentInv'
  <2>1. ticked' \in Nat /\ ticked' <= Len(typed)
    BY <1>1, <1>2
  <2>2. QED
    BY <1>2, <2>1 DEF EdgeInv, StudentInv, IsWindow
<1>5. RecordInv'
  BY <1>2, RecordKept DEF EdgeInv
<1>6. StreamInv'
  <2> DEFINE m == [kind |-> "keystroke", k |-> ticked + 1]
  <2>1. chan' = chan \/ chan' = Append(chan, m)
    BY DEF Emit, Relay
  <2>2. m \in Message /\ m.k \in 1 .. Len(typed)
    BY <1>1, <1>2 DEF Message
  <2> HIDE DEF m
  <2>3. Relayed(chan')
    BY <2>1, <2>2, RelayedAppend DEF EdgeInv, StreamInv
  <2>4. QED
    BY <1>2, <2>3, ChanMoves DEF EdgeInv
<1>7. QED
  BY <1>3, <1>4, <1>5, <1>6 DEF EdgeInv

LEMMA DrainKeeps ==
    ASSUME EdgeInv, Buffered, NEW at \in Nat, Drain(at), UNCHANGED <<typed, ticked>>
    PROVE  StudentInv'
<1>1. Len(typed) \in Nat /\ drained \in Nat /\ drained < Len(typed)
  BY LenProperties DEF EdgeInv, TypedInv, StudentInv, Buffered
<1>2. IsWindow(Window(at)) /\ Window(at).at = at
  BY <1>1 DEF IsWindow, Window
<1>3. posts' = posts \cup {Window(at)} /\ drained' = Len(typed)
  BY DEF Drain
<1>4. \A p \in posts' : IsWindow(p) /\ p.at \in Nat
  BY <1>2, <1>3 DEF EdgeInv, StudentInv
<1>5. \A p : IsWindow(p) => IsWindow(p)'
  BY DEF IsWindow
<1>6. QED
  BY <1>1, <1>3, <1>4, <1>5 DEF EdgeInv, StudentInv

LEMMA IntervalFlushKeeps ==
    ASSUME EdgeInv, IntervalFlush
    PROVE  EdgeInv'
<1>1. Buffered /\ Drain(0) /\ UNCHANGED <<typed, ticked, log, chan, asked, data, live, syncedAt>>
  BY DEF IntervalFlush, player
<1>2. 0 \in Nat
  OBVIOUS
<1>3. StudentInv'
  BY <1>1, <1>2, DrainKeeps
<1>4. QED
  BY <1>1, <1>3, TypedKept, RecordKept, StreamKept DEF EdgeInv

LEMMA SyncNowKeeps ==
    ASSUME EdgeInv, SyncNow \/ UNCHANGED <<posts, drained, chan>>,
           UNCHANGED <<typed, ticked, log, data, asked, live, syncedAt>>
    PROVE  EdgeInv'
<1>1. Len(typed) \in Nat
  BY LenProperties DEF EdgeInv, TypedInv
<1>2. TypedInv' /\ RecordInv'
  BY TypedKept, RecordKept DEF EdgeInv
<1>3. CASE UNCHANGED <<posts, drained, chan>>
  BY <1>2, <1>3, StudentKept, StreamKept DEF EdgeInv, student
<1>4. CASE SyncNow /\ ~UNCHANGED <<posts, drained, chan>>
  <2>1. PICK at \in {Len(typed), Len(typed) + 1} \ {0} :
           IF Buffered
             THEN Drain(at) /\ UNCHANGED <<synced, chan>>
             ELSE /\ synced' = TRUE
                  /\ chan' = Append(chan, [kind |-> "synced", k |-> at])
                  /\ UNCHANGED <<posts, drained>>
    BY <1>4 DEF SyncNow
  <2>2. at \in Nat
    BY <1>1
  <2>3. CASE Buffered
    <3>1. Drain(at) /\ chan' = chan
      BY <2>1, <2>3
    <3>2. StudentInv'
      BY <2>2, <2>3, <3>1, DrainKeeps
    <3>3. QED
      BY <1>2, <3>1, <3>2, StreamKept DEF EdgeInv
  <2>4. CASE ~Buffered
    <3> DEFINE m == [kind |-> "synced", k |-> at]
    <3>1. chan' = Append(chan, m) /\ UNCHANGED <<posts, drained>>
      BY <2>1, <2>4
    <3>2. m \in Message /\ m.kind # "keystroke"
      BY <2>2 DEF Message
    <3> HIDE DEF m
    <3>3. Relayed(chan')
      BY <3>1, <3>2, RelayedAppend DEF EdgeInv, StreamInv
    <3>4. StreamInv'
      BY <3>3, ChanMoves DEF EdgeInv
    <3>5. StudentInv'
      BY <3>1, StudentKept DEF EdgeInv, student
    <3>6. QED
      BY <1>2, <3>4, <3>5 DEF EdgeInv
  <2>5. QED
    BY <2>3, <2>4
<1>5. QED
  BY <1>3, <1>4

LEMMA SignalsKeep ==
    ASSUME EdgeInv, HearStart \/ HearStop \/ RetrySync \/ StudentReconnects
    PROVE  EdgeInv'
<1>1. UNCHANGED <<typed, ticked, log, data, asked, live, syncedAt>>
  BY DEF HearStart, HearStop, RetrySync, StudentReconnects, player, student
<1>2. SyncNow \/ UNCHANGED <<posts, drained, chan>>
  BY DEF HearStart, HearStop, RetrySync, StudentReconnects, student
<1>3. QED
  BY <1>1, <1>2, SyncNowKeeps

LEMMA LandKeeps ==
    ASSUME EdgeInv, NEW p \in posts, Land(p)
    PROVE  EdgeInv'
<1> DEFINE w == [first |-> p.first, last |-> p.last]
<1>1. /\ posts' = (posts \ {p}) \cup {[p EXCEPT !.landed = TRUE]}
      /\ log' = Append(log, w) /\ chan' = Announce(chan)
      /\ UNCHANGED <<typed, drained, ticked, asked, data, live, syncedAt>>
  BY DEF Land, student, player
<1>2. IsWindow(p) /\ p.at \in Nat
  BY DEF EdgeInv, StudentInv
<1>3. TypedInv'
  BY <1>1, TypedKept DEF EdgeInv
<1>4. StudentInv'
  <2> DEFINE q == [p EXCEPT !.landed = TRUE]
  <2>1. q.first = p.first /\ q.last = p.last /\ q.at = p.at
    OBVIOUS
  <2> HIDE DEF q
  <2>2. IsWindow(q) /\ q.at \in Nat
    BY <1>2, <2>1 DEF IsWindow
  <2>3. \A r \in posts' : IsWindow(r) /\ r.at \in Nat
    BY <1>1, <2>2 DEF EdgeInv, StudentInv, q
  <2>4. \A r : IsWindow(r) => IsWindow(r)'
    BY <1>1 DEF IsWindow
  <2>5. QED
    BY <1>1, <2>3, <2>4 DEF EdgeInv, StudentInv
<1>5. RecordInv'
  <2>1. w \in [first : Nat, last : Nat] /\ IsWindow(w)
    BY <1>2 DEF IsWindow
  <2>2. log \in Seq([first : Nat, last : Nat]) /\ Len(log) \in Nat
    BY LenProperties DEF EdgeInv, RecordInv
  <2> HIDE DEF w
  <2>3. /\ log' \in Seq([first : Nat, last : Nat]) /\ Len(log') = Len(log) + 1
        /\ \A i \in 1 .. Len(log) : log'[i] = log[i]
        /\ log'[Len(log) + 1] = w
    BY <1>1, <2>1, <2>2, AppendProperties
  <2>4. \A i \in 1 .. Len(log) + 1 : i \in 1 .. Len(log) \/ i = Len(log) + 1
    BY <2>2
  <2>5. \A i \in 1 .. Len(log') : IsWindow(log'[i])
    BY <2>1, <2>3, <2>4 DEF EdgeInv, RecordInv
  <2>6. \A r : IsWindow(r) => IsWindow(r)'
    BY <1>1 DEF IsWindow
  <2>7. data' \in Nat /\ data' <= Len(log')
    BY <1>1, <2>2, <2>3 DEF EdgeInv, RecordInv
  <2>8. QED
    BY <1>1, <2>3, <2>5, <2>6, <2>7 DEF EdgeInv, RecordInv
<1>6. StreamInv'
  BY <1>1, RelayedAnnounce, ChanMoves DEF EdgeInv, StreamInv
<1>7. QED
  BY <1>3, <1>4, <1>5, <1>6 DEF EdgeInv

LEMMA AnsweredKeeps ==
    ASSUME EdgeInv, NEW p \in posts, Answered(p)
    PROVE  EdgeInv'
<1> DEFINE told == IF watched THEN Announce(chan) ELSE chan
           m == [kind |-> "synced", k |-> p.at]
<1>1. /\ posts' \subseteq posts
      /\ chan' = told \o (IF p.at # 0 THEN <<m>> ELSE <<>>)
      /\ UNCHANGED <<typed, drained, ticked, log, asked, data, live, syncedAt>>
  BY DEF Answered, student, player
<1>2. m \in Message /\ m.kind # "keystroke"
  BY DEF EdgeInv, StudentInv, Message
<1>3. Relayed(told)
  BY RelayedAnnounce DEF EdgeInv, StreamInv
<1> HIDE DEF m, told
<1>4. Relayed(chan')
  <2>1. told \in Seq(Message)
    BY <1>3 DEF Relayed
  <2>2. told \o <<m>> = Append(told, m) /\ told \o <<>> = told
    BY <1>2, <2>1, AppendIsConcat, ConcatEmptySeq
  <2>3. Relayed(Append(told, m))
    BY <1>2, <1>3, RelayedAppend
  <2>4. QED
    BY <1>1, <1>3, <2>2, <2>3
<1>5. StreamInv'
  BY <1>1, <1>4, ChanMoves DEF EdgeInv
<1>6. StudentInv'
  BY <1>1 DEF EdgeInv, StudentInv, IsWindow
<1>7. QED
  BY <1>1, <1>5, <1>6, TypedKept, RecordKept DEF EdgeInv

LEMMA FailsKeeps ==
    ASSUME EdgeInv, NEW p \in posts, Fails(p)
    PROVE  EdgeInv'
<1>1. /\ posts' \subseteq posts
      /\ UNCHANGED <<typed, drained, ticked, log, chan, asked, data, live, syncedAt>>
  BY DEF Fails, student, player
<1>2. StudentInv'
  BY <1>1 DEF EdgeInv, StudentInv, IsWindow
<1>3. QED
  BY <1>1, <1>2, TypedKept, RecordKept, StreamKept DEF EdgeInv

LEMMA ReceiveKeeps ==
    ASSUME EdgeInv, Receive
    PROVE  EdgeInv'
<1> DEFINE m == Head(chan)
<1>1. /\ chan # <<>> /\ chan' = Tail(chan)
      /\ live' = IF m.kind = "keystroke" THEN Append(live, m.k) ELSE live
      /\ syncedAt' = IF m.kind = "synced" THEN m.k ELSE syncedAt
      /\ asked' = IF m.kind = "keystroke" THEN asked ELSE asked \cup {Len(log)}
      /\ UNCHANGED <<typed, drained, ticked, posts, log, data>>
  BY DEF Receive, student
<1>2. Relayed(Tail(chan)) /\ m \in Message /\ (m.kind = "keystroke" => m.k \in 1 .. Len(typed))
  BY <1>1, RelayedTail DEF EdgeInv, StreamInv
<1>3. m.k \in Nat
  BY <1>2 DEF Message
<1> HIDE DEF m
<1>4. TypedInv' /\ StudentInv'
  BY <1>1, TypedKept, StudentKept DEF EdgeInv, student
<1>5. RecordInv'
  <2>1. Len(log) \in Nat
    BY LenProperties DEF EdgeInv, RecordInv
  <2>2. asked' \subseteq Nat
    BY <1>1, <2>1 DEF EdgeInv, RecordInv
  <2>3. QED
    BY <1>1, <2>2 DEF EdgeInv, RecordInv, IsWindow
<1>6. live' \in Seq(Nat) /\ \A i \in 1 .. Len(live') : live'[i] \in 1 .. Len(typed)
  <2>1. /\ live \in Seq(Nat) /\ Len(live) \in Nat
        /\ \A i \in 1 .. Len(live) : live[i] \in 1 .. Len(typed)
    BY LenProperties DEF EdgeInv, StreamInv
  <2>2. CASE m.kind = "keystroke"
    <3>1. /\ live' \in Seq(Nat) /\ Len(live') = Len(live) + 1
          /\ \A i \in 1 .. Len(live) : live'[i] = live[i]
          /\ live'[Len(live) + 1] = m.k
      BY <1>1, <1>3, <2>1, <2>2, AppendProperties
    <3>2. \A i \in 1 .. Len(live) + 1 : i \in 1 .. Len(live) \/ i = Len(live) + 1
      BY <2>1
    <3>3. QED
      BY <1>2, <2>1, <2>2, <3>1, <3>2
  <2>3. CASE m.kind # "keystroke"
    BY <1>1, <2>1, <2>3
  <2>4. QED
    BY <2>2, <2>3
<1>7. StreamInv'
  BY <1>1, <1>2, <1>3, <1>6 DEF EdgeInv, StreamInv, Relayed
<1>8. QED
  BY <1>4, <1>5, <1>7 DEF EdgeInv

LEMMA PlayerReconnectsKeeps ==
    ASSUME EdgeInv, PlayerReconnects
    PROVE  EdgeInv'
<1>1. /\ chan' = <<>> /\ live' = <<>> /\ syncedAt' = 0
      /\ UNCHANGED <<typed, drained, ticked, posts, log, asked, data>>
  BY DEF PlayerReconnects, student
<1>2. Relayed(<<>>) /\ <<>> \in Seq(Nat) /\ Len(<<>>) = 0 /\ 1 .. 0 = {}
  BY RelayedEmpty, EmptySeq
<1>3. StreamInv'
  BY <1>1, <1>2 DEF StreamInv, Relayed
<1>4. QED
  BY <1>1, <1>3, TypedKept, StudentKept, RecordKept DEF EdgeInv, student

LEMMA ApplyReplayKeeps ==
    ASSUME EdgeInv, NEW n \in asked, ApplyReplay(n)
    PROVE  EdgeInv'
<1>1. /\ data' = Len(log) \/ (n < Len(log) /\ data' = n)
      /\ asked' = asked \ {n}
      /\ UNCHANGED <<typed, drained, ticked, posts, log, chan, live, syncedAt>>
  BY DEF ApplyReplay, student
<1>2. Len(log) \in Nat /\ n \in Nat
  BY LenProperties DEF EdgeInv, RecordInv
<1>3. data' \in Nat /\ data' <= Len(log)
  BY <1>1, <1>2
<1>4. RecordInv'
  BY <1>1, <1>3 DEF EdgeInv, RecordInv, IsWindow
<1>5. QED
  BY <1>1, <1>4, TypedKept, StudentKept, StreamKept DEF EdgeInv, student

LEMMA EdgeStep == EdgeInv /\ [Next]_vars => EdgeInv'
<1> SUFFICES ASSUME EdgeInv, [Next]_vars PROVE EdgeInv'
  OBVIOUS
<1>1. CASE UNCHANGED vars
  BY <1>1, TypedKept, StudentKept, RecordKept, StreamKept DEF EdgeInv, vars, student
<1>2. CASE Edit
  BY <1>2, EditKeeps
<1>3. CASE Emit
  BY <1>3, EmitKeeps
<1>4. CASE IntervalFlush
  BY <1>4, IntervalFlushKeeps
<1>5. CASE HearStart \/ HearStop \/ RetrySync \/ StudentReconnects
  BY <1>5, SignalsKeep
<1>6. CASE \E p \in posts : Land(p) \/ Answered(p) \/ Fails(p)
  BY <1>6, LandKeeps, AnsweredKeeps, FailsKeeps
<1>7. CASE Receive
  BY <1>7, ReceiveKeeps
<1>8. CASE PlayerReconnects
  BY <1>8, PlayerReconnectsKeeps
<1>9. CASE \E n \in asked : ApplyReplay(n)
  BY <1>9, ApplyReplayKeeps
<1>10. QED
  BY <1>1, <1>2, <1>3, <1>4, <1>5, <1>6, <1>7, <1>8, <1>9 DEF Next

-----------------------------------------------------------------------------
(***************************************************************************)
(* Sets of keystrokes in the order of their timestamps.                    *)
(***************************************************************************)
Increasing(s, S) ==
    s \in [1 .. Cardinality(S) -> S] /\ \A i, j \in DOMAIN s : i < j => s[i] < s[j]

LEMMA SomeIncreasing ==
    ASSUME NEW n \in Nat, NEW S, S \subseteq 1 .. n
    PROVE  \E s : Increasing(s, S)
<1> DEFINE T == {k \in Nat : \A R \in SUBSET (1 .. k) : \E s : Increasing(s, R)}
<1>1. 0 \in T
  <2> SUFFICES ASSUME NEW R \in SUBSET (1 .. 0) PROVE \E s : Increasing(s, R)
    OBVIOUS
  <2>1. R = {} /\ Cardinality(R) = 0
    <3>1. R = {}
      OBVIOUS
    <3>2. QED
      BY <3>1, FS_EmptySet
  <2>2. <<>> \in [1 .. Cardinality(R) -> R] /\ DOMAIN <<>> = {}
    BY <2>1
  <2>3. Increasing(<<>>, R)
    BY <2>2 DEF Increasing
  <2>4. QED
    BY <2>3
<1>2. ASSUME NEW k \in T PROVE k + 1 \in T
  <2> SUFFICES ASSUME NEW R \in SUBSET (1 .. (k + 1)) PROVE \E s : Increasing(s, R)
    OBVIOUS
  <2>1. k \in Nat /\ \A Q \in SUBSET (1 .. k) : \E s : Increasing(s, Q)
    OBVIOUS
  <2> HIDE DEF T
  <2>2. CASE k + 1 \notin R
    <3>1. R \in SUBSET (1 .. k)
      BY <2>1, <2>2
    <3>2. QED
      BY <2>1, <3>1
  <2>3. CASE k + 1 \in R
    <3> DEFINE Q == R \ {k + 1}
               c == Cardinality(Q)
    <3>1. Q \in SUBSET (1 .. k)
      BY <2>1
    <3>2. IsFiniteSet(1 .. (k + 1))
      BY <2>1, FS_Interval
    <3>3. IsFiniteSet(R)
      BY <3>2, FS_Subset
    <3>4. IsFiniteSet(Q) /\ c = Cardinality(R) - 1
      BY <2>3, <3>3, FS_RemoveElement
    <3>5. c \in Nat /\ Cardinality(R) \in Nat
      BY <3>3, <3>4, FS_CardinalityType
    <3>6. PICK s : Increasing(s, Q)
      BY <2>1, <3>1
    <3> DEFINE t == [i \in 1 .. c + 1 |-> IF i = c + 1 THEN k + 1 ELSE s[i]]
    <3>7. s \in [1 .. c -> Q] /\ \A i, j \in 1 .. c : i < j => s[i] < s[j]
      BY <3>6 DEF Increasing
    <3>8. \A q \in Q : q \in R /\ q < k + 1
      BY <2>1, <3>1
    <3> HIDE DEF Q, c
    <3>9. Cardinality(R) = c + 1 /\ \A i \in 1 .. c + 1 : i = c + 1 \/ i \in 1 .. c
      BY <3>4, <3>5
    <3>10. t \in [1 .. Cardinality(R) -> R] /\ DOMAIN t = 1 .. c + 1
      BY <2>3, <3>7, <3>8, <3>9
    <3>11. ASSUME NEW i \in 1 .. c + 1, NEW j \in 1 .. c + 1, i < j PROVE t[i] < t[j]
      <4>1. i \in 1 .. c /\ i # c + 1 /\ t[i] = s[i] /\ s[i] \in Q
        BY <3>5, <3>7, <3>9, <3>11
      <4>2. CASE j = c + 1
        BY <3>8, <4>1, <4>2
      <4>3. CASE j # c + 1
        <5>1. j \in 1 .. c /\ t[j] = s[j]
          BY <3>9, <4>3
        <5>2. QED
          BY <3>7, <3>11, <4>1, <5>1
      <4>4. QED
        BY <4>2, <4>3
    <3> HIDE DEF t
    <3>12. Increasing(t, R)
      BY <3>10, <3>11 DEF Increasing
    <3>13. QED
      BY <3>12
  <2>4. QED
    BY <2>2, <2>3
<1> HIDE DEF T
<1>3. T = Nat
  <2>1. T \subseteq Nat
    BY DEF T
  <2>2. QED
    BY <1>1, <1>2, <2>1, NatInd
<1>4. n \in T
  BY <1>3
<1>5. QED
  BY <1>4 DEF T

LEMMA AscendingDoes ==
    ASSUME NEW n \in Nat, NEW S, S \subseteq 1 .. n
    PROVE  /\ Cardinality(S) \in Nat /\ IsFiniteSet(S)
           /\ Increasing(Ascending(S), S)
           /\ Ascending(S) \in Seq(Nat) /\ Len(Ascending(S)) = Cardinality(S)
           /\ ToSet(Ascending(S)) = S
<1> DEFINE c == Cardinality(S)
           s == Ascending(S)
<1>1. IsFiniteSet(1 .. n)
  BY FS_Interval
<1>2. IsFiniteSet(S) /\ c \in Nat
  BY <1>1, FS_Subset, FS_CardinalityType
<1>3. Increasing(s, S)
  <2>1. \E r \in [1 .. Cardinality(S) -> S] : \A i, j \in DOMAIN r : i < j => r[i] < r[j]
    BY SomeIncreasing DEF Increasing
  <2>2. QED
    BY <2>1 DEF Ascending, Increasing
<1>4. s \in [1 .. c -> S] /\ \A i, j \in 1 .. c : i < j => s[i] < s[j]
  BY <1>3 DEF Increasing
<1> HIDE DEF s, c
<1>5. s \in Seq(Nat) /\ Len(s) = c
  <2>1. s \in [1 .. c -> Nat]
    <3>1. S \subseteq Nat
      OBVIOUS
    <3>2. QED
      BY <1>4, <3>1
  <2>2. s \in Seq(Nat)
    BY <1>2, <2>1, SeqDef
  <2>3. Len(s) \in Nat /\ DOMAIN s = 1 .. Len(s) /\ DOMAIN s = 1 .. c
    BY <2>1, <2>2, LenProperties
  <2>4. 1 .. Len(s) = 1 .. c /\ c \in Nat
    BY <1>2, <2>3
  <2>5. Len(s) = c
    BY <2>3, <2>4, SameInterval
  <2>6. QED
    BY <2>2, <2>5
<1>6. s \in Surjection(1 .. c, S)
  <2>1. \A i, j \in 1 .. c : s[i] = s[j] => i = j
    <3> SUFFICES ASSUME NEW i \in 1 .. c, NEW j \in 1 .. c, s[i] = s[j] PROVE i = j
      OBVIOUS
    <3>1. s[i] \in Nat /\ ~(s[i] < s[j]) /\ ~(s[j] < s[i])
      <4>1. S \subseteq Nat
        OBVIOUS
      <4>2. s[i] \in Nat
        BY <1>4, <4>1
      <4>3. QED
        BY <4>2
    <3>2. ~(i < j) /\ ~(j < i)
      BY <1>4, <3>1
    <3>3. i \in Int /\ j \in Int
      BY <1>2
    <3>4. QED
      BY <3>2, <3>3
  <2>2. s \in Injection(1 .. c, S)
    BY <1>4, <2>1 DEF Injection, IsInjective
  <2>3. Cardinality(1 .. c) = c
    <3>1. 1 \in Int /\ c \in Int
      BY <1>2
    <3>2. Cardinality(1 .. c) = IF 1 > c THEN 0 ELSE c - 1 + 1
      BY <3>1, FS_Interval
    <3>3. QED
      BY <1>2, <3>2
  <2>4. QED
    BY <1>2, <2>2, <2>3, FS_Injection DEF c
<1>7. ToSet(s) = S
  <2>1. DOMAIN s = 1 .. c /\ \A x \in S : \E i \in 1 .. c : s[i] = x
    BY <1>4, <1>6 DEF Surjection
  <2>2. QED
    BY <1>4, <2>1 DEF ToSet
<1>8. QED
  BY <1>2, <1>3, <1>5, <1>7 DEF s, c

\* The keystrokes after l in their order.
LEMMA AscendingInterval ==
    ASSUME NEW l \in Nat, NEW n \in Nat, l <= n
    PROVE  Ascending(l + 1 .. n) = [i \in 1 .. n - l |-> l + i]
<1> DEFINE S == l + 1 .. n
           s == Ascending(S)
           c == n - l
<1>1. Cardinality(S) = c /\ c \in Nat
  <2>1. l + 1 \in Int /\ n \in Int
    OBVIOUS
  <2>2. Cardinality(S) = IF l + 1 > n THEN 0 ELSE n - (l + 1) + 1
    BY <2>1, FS_Interval
  <2> HIDE DEF S
  <2>3. QED
    BY <2>2
<1>2. S \subseteq 1 .. n
  OBVIOUS
<1>3. s \in [1 .. c -> S] /\ \A i, j \in 1 .. c : i < j => s[i] < s[j]
  BY <1>1, <1>2, AscendingDoes DEF Increasing
<1>4. \A i \in 1 .. c : s[i] \in Nat /\ l + 1 <= s[i] /\ s[i] <= n
  BY <1>3
<1> HIDE DEF s
<1>5. \A i \in 1 .. c : l + i <= s[i]
  <2> DEFINE T == {k \in Nat : k + 1 <= c => l + (k + 1) <= s[k + 1]}
  <2>1. 0 \in T
    BY <1>1, <1>4
  <2>2. ASSUME NEW k \in T PROVE k + 1 \in T
    <3> SUFFICES ASSUME (k + 1) + 1 <= c PROVE l + ((k + 1) + 1) <= s[(k + 1) + 1]
      OBVIOUS
    <3>1. k + 1 \in 1 .. c /\ (k + 1) + 1 \in 1 .. c /\ k + 1 < (k + 1) + 1
      BY <1>1
    <3>2. s[k + 1] < s[(k + 1) + 1] /\ l + (k + 1) <= s[k + 1]
      BY <1>3, <3>1
    <3>3. s[k + 1] \in Nat /\ s[(k + 1) + 1] \in Nat
      BY <1>4, <3>1
    <3>4. QED
      BY <3>2, <3>3
  <2> HIDE DEF T
  <2>3. T = Nat
    <3>1. T \subseteq Nat
      BY DEF T
    <3>2. QED
      BY <2>1, <2>2, <3>1, NatInd
  <2>4. ASSUME NEW i \in 1 .. c PROVE l + i <= s[i]
    <3>1. i - 1 \in T /\ (i - 1) + 1 = i /\ i <= c
      BY <1>1, <2>3
    <3>2. QED
      BY <3>1 DEF T
  <2>5. QED
    BY <2>4
<1>6. \A i \in 1 .. c : s[i] <= l + i
  <2> DEFINE T == {k \in Nat : k + 1 <= c => s[c - k] <= l + (c - k)}
  <2>1. 0 \in T
    BY <1>1, <1>4
  <2>2. ASSUME NEW k \in T PROVE k + 1 \in T
    <3> SUFFICES ASSUME (k + 1) + 1 <= c PROVE s[c - (k + 1)] <= l + (c - (k + 1))
      OBVIOUS
    <3>1. c - k \in 1 .. c /\ c - (k + 1) \in 1 .. c /\ c - (k + 1) < c - k
      BY <1>1
    <3>2. s[c - (k + 1)] < s[c - k] /\ s[c - k] <= l + (c - k)
      BY <1>1, <1>3, <3>1
    <3>3. s[c - k] \in Nat /\ s[c - (k + 1)] \in Nat
      BY <1>4, <3>1
    <3>4. QED
      BY <1>1, <3>2, <3>3
  <2> HIDE DEF T
  <2>3. T = Nat
    <3>1. T \subseteq Nat
      BY DEF T
    <3>2. QED
      BY <2>1, <2>2, <3>1, NatInd
  <2>4. ASSUME NEW i \in 1 .. c PROVE s[i] <= l + i
    <3>1. c - i \in T /\ (c - i) + 1 <= c /\ c - (c - i) = i
      BY <1>1, <2>3
    <3>2. QED
      BY <3>1 DEF T
  <2>5. QED
    BY <2>4
<1>7. \A i \in 1 .. c : s[i] = l + i
  BY <1>4, <1>5, <1>6
<1>8. s = [i \in 1 .. c |-> l + i]
  BY <1>3, <1>7
<1>9. QED
  BY <1>8 DEF s, c

-----------------------------------------------------------------------------
(***************************************************************************)
(* A payload that tells the texts X[0], X[1], ..., X[n]: the k-th event    *)
(* leads from X[k - 1] to X[k], the w-th of its m windows ends with event  *)
(* E[w], and a window that is not open recorded the text at its end.       *)
(***************************************************************************)
Main == <<"main.cpp">>

One(x) == [f \in {Main} |-> x]

SnapTells(snap, x) ==
    \/ snap.open = FALSE /\ snap.files = [t \in {"task1"} |-> [f \in {"main.cpp"} |-> x]]
    \/ snap.open = TRUE /\ snap.files = <<>>

IsTold(d, n, m, X, E) ==
    /\ n \in Nat \ {0} /\ m \in Nat \ {0}
    /\ Len(d.events) = n /\ DOMAIN d.events = 1 .. n
    /\ X[0] = <<>>
    /\ \A k \in 1 .. n : /\ d.events[k].task = "task1" /\ d.events[k].file = "main.cpp"
                         /\ ApplyChanges(X[k - 1], d.events[k].changes) = X[k]
    /\ Len(d.snaps) = m /\ DOMAIN d.snaps = 1 .. m
    /\ E[0] = 0 /\ E[m] = n
    /\ \A w \in 1 .. m : /\ E[w - 1] \in Nat /\ E[w] \in Nat
                         /\ E[w - 1] <= E[w] /\ E[w] <= n
                         /\ d.snaps[w].count = E[w] - E[w - 1]
                         /\ SnapTells(d.snaps[w], X[E[w]])

LEMMA ToldCuts ==
    ASSUME NEW d, NEW n, NEW m, NEW X, NEW E, IsTold(d, n, m, X, E), NEW w \in 0 .. m
    PROVE  EventsUpTo(d, w) = E[w]
<1> DEFINE C(v) == d.snaps[v].count
           F(f) == [v \in 0 .. w |-> IF v = 0 THEN 0 ELSE f[v - 1] + C(v)]
           upTo == CHOOSE f : f = F(f)
           h == [v \in 0 .. w |-> E[v]]
<1>1. EventsUpTo(d, w) = upTo[w]
  BY DEF EventsUpTo
<1>2. m \in Nat /\ w \in Nat /\ E[0] = 0
  BY DEF IsTold
<1>3. \A v \in 1 .. w : E[v - 1] \in Nat /\ E[v] \in Nat /\ C(v) = E[v] - E[v - 1]
  <2>1. \A v \in 1 .. w : v \in 1 .. m
    BY <1>2
  <2>2. QED
    BY <2>1 DEF IsTold
<1> HIDE DEF C
<1>4. \A v \in 1 .. w : E[v] = E[v - 1] + C(v)
  BY <1>3
<1>5. /\ \A v \in 1 .. w : v - 1 \in 0 .. w /\ v # 0 /\ v \in 0 .. w
      /\ \A v \in 0 .. w : v = 0 \/ v \in 1 .. w
      /\ 0 \in 0 .. w /\ w \in 0 .. w
  BY <1>2
<1>6. h = F(h)
  <2>1. \A v \in 0 .. w : h[v] = IF v = 0 THEN 0 ELSE h[v - 1] + C(v)
    BY <1>2, <1>4, <1>5
  <2>2. QED
    BY <2>1
<1>7. upTo = F(upTo)
  <2> HIDE DEF F, h
  <2>1. QED
    BY <1>6
<1> HIDE DEF upTo
<1>8. upTo[0] = 0 /\ \A v \in 1 .. w : upTo[v] = upTo[v - 1] + C(v)
  BY <1>5, <1>7
<1> HIDE DEF F, h
<1>9. \A v \in 0 .. w : upTo[v] = E[v]
  <2>1. upTo[0] = E[0] /\ \A v \in 1 .. w : upTo[v - 1] = E[v - 1] => upTo[v] = E[v]
    BY <1>2, <1>4, <1>8
  <2>2. QED
    BY <1>2, <2>1, Agree
<1>10. QED
  BY <1>1, <1>5, <1>9

LEMMA ClosedSnapshot ==
    ASSUME NEW snap, NEW x, snap.files = [t \in {"task1"} |-> [f \in {"main.cpp"} |-> x]]
    PROVE  SnapshotFiles(snap, FALSE) = One(x)
<1> DEFINE ws == snap.files
           pairs == UNION {{t} \X DOMAIN ws[t] : t \in DOMAIN ws}
           Owners(key) == {o \in pairs : Qualify(o[1], o[2], FALSE) = key}
           keys == UNION {{Qualify(t, f, FALSE) : f \in DOMAIN ws[t]} : t \in DOMAIN ws}
           Owner(key) == CHOOSE o \in Owners(key) : TRUE
<1>1. SnapshotFiles(snap, FALSE) = [key \in keys |-> ws[Owner(key)[1]][Owner(key)[2]]]
  BY DEF SnapshotFiles
<1>2. DOMAIN ws = {"task1"} /\ DOMAIN ws["task1"] = {"main.cpp"} /\ ws["task1"]["main.cpp"] = x
  OBVIOUS
<1> HIDE DEF ws
<1>3. \A o : o \in pairs <=> o = <<"task1", "main.cpp">>
  BY <1>2
<1>4. keys = {Main}
  BY <1>2 DEF Qualify, Main
<1>5. Owner(Main) = <<"task1", "main.cpp">>
  <2>1. Qualify("task1", "main.cpp", FALSE) = Main
    BY DEF Qualify, Main
  <2> DEFINE p == <<"task1", "main.cpp">>
  <2>2. p[1] = "task1" /\ p[2] = "main.cpp"
    OBVIOUS
  <2> HIDE DEF pairs
  <2>3. p \in Owners(Main)
    BY <1>3, <2>1, <2>2
  <2>4. \A o \in Owners(Main) : o = p
    BY <1>3
  <2> HIDE DEF p, Owners
  <2>5. Owner(Main) = p
    BY <2>3, <2>4
  <2>6. QED
    BY <2>5 DEF p
<1> HIDE DEF Owner, keys
<1>6. ws[Owner(Main)[1]][Owner(Main)[2]] = x
  BY <1>2, <1>5
<1>7. QED
  BY <1>1, <1>4, <1>6 DEF One

LEMMA OpenSnapshot ==
    ASSUME NEW snap, snap.files = <<>>
    PROVE  DOMAIN SnapshotFiles(snap, FALSE) = {}
<1>1. DOMAIN snap.files = {}
  OBVIOUS
<1>2. UNION {{Qualify(t, f, FALSE) : f \in DOMAIN snap.files[t]} : t \in DOMAIN snap.files} = {}
  BY <1>1
<1>3. QED
  BY <1>2 DEF SnapshotFiles

LEMMA ToldNames ==
    ASSUME NEW d, NEW n, NEW m, NEW X, NEW E, IsTold(d, n, m, X, E)
    PROVE  /\ IsMultiTask(d) = FALSE /\ FilesSeen(d) = {Main}
           /\ \A k \in 1 .. n : FileOf(d.events[k], FALSE) = Main
<1>1. /\ n \in Nat \ {0} /\ 1 \in 1 .. n /\ DOMAIN d.events = 1 .. n /\ DOMAIN d.snaps = 1 .. m
      /\ \A k \in 1 .. n : d.events[k].task = "task1" /\ d.events[k].file = "main.cpp"
  BY DEF IsTold
<1>2. ASSUME NEW w \in 1 .. m
      PROVE  /\ DOMAIN d.snaps[w].files \subseteq {"task1"}
             /\ DOMAIN SnapshotFiles(d.snaps[w], FALSE) \subseteq {Main}
  <2> DEFINE snap == d.snaps[w]
  <2>1. SnapTells(snap, X[E[w]])
    BY DEF IsTold
  <2> HIDE DEF snap
  <2>2. CASE snap.files = <<>>
    <3>1. DOMAIN snap.files = {}
      BY <2>2
    <3>2. DOMAIN SnapshotFiles(snap, FALSE) = {}
      BY <2>2, OpenSnapshot
    <3>3. QED
      BY <3>1, <3>2 DEF snap
  <2>3. CASE snap.files = [t \in {"task1"} |-> [f \in {"main.cpp"} |-> X[E[w]]]]
    <3>1. DOMAIN snap.files = {"task1"}
      BY <2>3
    <3>2. SnapshotFiles(snap, FALSE) = One(X[E[w]])
      BY <2>3, ClosedSnapshot
    <3>3. DOMAIN SnapshotFiles(snap, FALSE) = {Main}
      BY <3>2 DEF One
    <3>4. QED
      BY <3>1, <3>3 DEF snap
  <2>4. QED
    BY <2>1, <2>2, <2>3 DEF SnapTells
<1>3. TaskIds(d) = {"task1"}
  <2>1. {d.events[i].task : i \in DOMAIN d.events} = {"task1"}
    BY <1>1
  <2>2. UNION {DOMAIN d.snaps[w].files : w \in DOMAIN d.snaps} \subseteq {"task1"}
    BY <1>1, <1>2
  <2>3. QED
    BY <2>1, <2>2 DEF TaskIds
<1>4. IsMultiTask(d) = FALSE
  <2>1. Cardinality({"task1"}) = 1
    BY FS_Singleton
  <2>2. QED
    BY <1>3, <2>1 DEF IsMultiTask
<1>5. \A k \in 1 .. n : FileOf(d.events[k], FALSE) = Main
  BY <1>1 DEF FileOf, Qualify, Main
<1>6. FilesSeen(d) = {Main}
  <2>1. {FileOf(d.events[i], FALSE) : i \in DOMAIN d.events} = {Main}
    BY <1>1, <1>5
  <2>2. UNION {DOMAIN SnapshotFiles(d.snaps[w], FALSE) : w \in DOMAIN d.snaps} \subseteq {Main}
    BY <1>1, <1>2
  <2>3. FilesSeen(d) = {FileOf(d.events[i], FALSE) : i \in DOMAIN d.events}
                         \cup UNION {DOMAIN SnapshotFiles(d.snaps[w], FALSE) : w \in DOMAIN d.snaps}
    BY <1>4 DEF FilesSeen
  <2>4. QED
    BY <2>1, <2>2, <2>3
<1>7. QED
  BY <1>4, <1>5, <1>6

\* A piece of the events from just after a cut.
LEMMA ToldPiece ==
    ASSUME NEW d, NEW n, NEW m, NEW X, NEW E, IsTold(d, n, m, X, E),
           NEW from \in Nat, NEW to \in Nat, from <= to, to <= n
    PROVE  LET evs == SubSeq(d.events, from + 1, to)
           IN  /\ Len(evs) = to - from
               /\ \A k \in 1 .. to - from : from + k \in 1 .. n /\ evs[k] = d.events[from + k]
<1> DEFINE S == {d.events[k] : k \in 1 .. n}
           evs == SubSeq(d.events, from + 1, to)
<1>1. n \in Nat
  BY DEF IsTold
<1>2. \A k \in from + 1 .. to : d.events[k] \in S
  BY <1>1
<1>3. /\ Len(evs) = IF from + 1 <= to THEN to - (from + 1) + 1 ELSE 0
      /\ \A k \in 1 .. to - (from + 1) + 1 : evs[k] = d.events[(from + 1) + k - 1]
  <2> HIDE DEF S
  <2>1. from + 1 \in Int /\ to \in Int
    OBVIOUS
  <2>2. QED
    BY <1>2, <2>1, SubSeqProperties
<1> HIDE DEF evs
<1>4. Len(evs) = to - from
  BY <1>3
<1>5. to - (from + 1) + 1 = to - from /\ \A k \in 1 .. to - from : (from + 1) + k - 1 = from + k
  OBVIOUS
<1>6. \A k \in 1 .. to - from : from + k \in 1 .. n /\ evs[k] = d.events[from + k]
  BY <1>1, <1>3, <1>5
<1>7. QED
  BY <1>4, <1>6 DEF evs

PlayedFrom(d, cur, w) == PlayWindow(d, FALSE, cur, w)

\* Playing a window from the text at its start gives the text at its end.
LEMMA ToldWindow ==
    ASSUME NEW d, NEW n, NEW m, NEW X, NEW E, IsTold(d, n, m, X, E), NEW w \in 1 .. m
    PROVE  PlayedFrom(d, One(X[E[w - 1]]), w) = One(X[E[w]])
<1> DEFINE from == E[w - 1]
           to == E[w]
           evs == EventsOf(d, w)
           cur == One(X[from])
           G(f) == [k \in 0 .. Len(evs) |->
                      IF k = 0 THEN cur
                      ELSE [f[k - 1] EXCEPT
                              ![FileOf(evs[k], FALSE)] = ApplyChanges(@, evs[k].changes)]]
           played == CHOOSE f : f = G(f)
           h == [k \in 0 .. to - from |-> One(X[from + k])]
<1>1. /\ m \in Nat \ {0} /\ n \in Nat /\ from \in Nat /\ to \in Nat /\ from <= to /\ to <= n
      /\ Len(d.snaps) = m /\ Len(d.events) = n /\ E[m] = n
  BY DEF IsTold
<1>2. evs = SubSeq(d.events, from + 1, to)
  <2>1. w \in 0 .. m /\ w - 1 \in 0 .. m
    BY <1>1
  <2>2. EventsUpTo(d, w) = to /\ EventsUpTo(d, w - 1) = from
    BY <2>1, ToldCuts
  <2>3. (IF w = Len(d.snaps) THEN Len(d.events) ELSE EventsUpTo(d, w)) = to
    BY <1>1, <2>2
  <2>4. QED
    BY <2>2, <2>3 DEF EventsOf
<1>3. PlayedFrom(d, cur, w) = played[Len(evs)]
  BY DEF PlayWindow, PlayedFrom
<1> HIDE DEF from, to, evs, cur
<1>4. /\ Len(evs) = to - from
      /\ \A k \in 1 .. to - from : from + k \in 1 .. n /\ evs[k] = d.events[from + k]
  BY <1>1, <1>2, ToldPiece
<1>5. \A k \in 1 .. to - from :
         /\ FileOf(evs[k], FALSE) = Main
         /\ ApplyChanges(X[from + (k - 1)], evs[k].changes) = X[from + k]
  <2>1. \A k \in 1 .. to - from : (from + k) - 1 = from + (k - 1)
    BY <1>1
  <2>2. \A i \in 1 .. n : ApplyChanges(X[i - 1], d.events[i].changes) = X[i]
    BY DEF IsTold
  <2>3. \A i \in 1 .. n : FileOf(d.events[i], FALSE) = Main
    BY ToldNames
  <2> SUFFICES ASSUME NEW k \in 1 .. to - from
               PROVE  /\ FileOf(evs[k], FALSE) = Main
                      /\ ApplyChanges(X[from + (k - 1)], evs[k].changes) = X[from + k]
    OBVIOUS
  <2> DEFINE i == from + k
  <2>4. i \in 1 .. n /\ evs[k] = d.events[i] /\ i - 1 = from + (k - 1)
    BY <1>4, <2>1
  <2>5. ApplyChanges(X[i - 1], d.events[i].changes) = X[i] /\ FileOf(d.events[i], FALSE) = Main
    <3> HIDE DEF i
    <3>1. QED
      BY <2>2, <2>3, <2>4
  <2>6. QED
    BY <2>4, <2>5
<1> DEFINE c == to - from
<1>6. /\ c \in Nat
      /\ \A k \in 1 .. c : k - 1 \in 0 .. c /\ k # 0 /\ k \in 0 .. c
      /\ \A k \in 0 .. c : k = 0 \/ k \in 1 .. c
      /\ 0 \in 0 .. c /\ c \in 0 .. c
  <2>1. c \in Nat
    BY <1>1
  <2> HIDE DEF c
  <2>2. QED
    BY <2>1, Steps
<1>7. \A x, y : One(x)[Main] = x /\ [One(x) EXCEPT ![Main] = y] = One(y)
  BY DEF One
<1>8. \A k \in 1 .. c : [One(X[from + (k - 1)]) EXCEPT ![FileOf(evs[k], FALSE)]
                            = ApplyChanges(@, evs[k].changes)] = One(X[from + k])
  <2> SUFFICES ASSUME NEW k \in 1 .. c
               PROVE  [One(X[from + (k - 1)]) EXCEPT ![FileOf(evs[k], FALSE)]
                         = ApplyChanges(@, evs[k].changes)] = One(X[from + k])
    OBVIOUS
  <2> DEFINE x == X[from + (k - 1)]
             y == X[from + k]
             cs == evs[k].changes
             f == FileOf(evs[k], FALSE)
  <2>1. f = Main /\ ApplyChanges(x, cs) = y
    BY <1>5
  <2>2. One(x)[Main] = x /\ [One(x) EXCEPT ![Main] = y] = One(y)
    BY <1>7
  <2> HIDE DEF x, y, cs, f
  <2>3. [One(x) EXCEPT ![f] = ApplyChanges(@, cs)] = One(y)
    BY <2>1, <2>2
  <2>4. QED
    BY <2>3 DEF x, y, cs, f
<1>9. cur = One(X[from + 0])
  BY <1>1 DEF cur
<1> HIDE DEF c
<1>10. h = G(h)
  <2>1. h = [k \in 0 .. c |-> One(X[from + k])]
    BY DEF c
  <2> HIDE DEF h
  <2>2. \A k \in 0 .. c : h[k] = One(X[from + k])
    BY <2>1
  <2>3. h[0] = cur
    BY <1>6, <1>9, <2>2
  <2>4. \A k \in 1 .. c :
           h[k] = [h[k - 1] EXCEPT ![FileOf(evs[k], FALSE)] = ApplyChanges(@, evs[k].changes)]
    BY <1>6, <1>8, <2>2
  <2>5. \A k \in 0 .. c : h[k] =
           IF k = 0 THEN cur
           ELSE [h[k - 1] EXCEPT ![FileOf(evs[k], FALSE)] = ApplyChanges(@, evs[k].changes)]
    BY <1>6, <2>3, <2>4
  <2>6. 0 .. Len(evs) = 0 .. c
    BY <1>4 DEF c
  <2>7. QED
    BY <2>1, <2>5, <2>6
<1>11. played = G(played)
  <2> HIDE DEF G, h
  <2>1. QED
    BY <1>10
<1> HIDE DEF played, h
<1>12. /\ played[0] = cur
       /\ \A k \in 1 .. c : played[k] =
             [played[k - 1] EXCEPT ![FileOf(evs[k], FALSE)] = ApplyChanges(@, evs[k].changes)]
  <2>1. 0 .. Len(evs) = 0 .. c
    BY <1>4 DEF c
  <2>2. QED
    BY <1>6, <1>11, <2>1
<1> HIDE DEF G
<1> DEFINE g == [k \in 0 .. c |-> One(X[from + k])]
<1>13. \A k \in 0 .. c : played[k] = g[k]
  <2>1. played[0] = g[0]
    BY <1>6, <1>9, <1>12
  <2>2. \A k \in 1 .. c : g[k] = One(X[from + k]) /\ g[k - 1] = One(X[from + (k - 1)])
    BY <1>6
  <2> HIDE DEF g
  <2>3. ASSUME NEW k \in 1 .. c, played[k - 1] = g[k - 1] PROVE played[k] = g[k]
    <3>1. played[k] = [played[k - 1] EXCEPT ![FileOf(evs[k], FALSE)]
                          = ApplyChanges(@, evs[k].changes)]
      BY <1>12
    <3>2. played[k - 1] = One(X[from + (k - 1)])
      BY <2>2, <2>3
    <3>3. [One(X[from + (k - 1)]) EXCEPT ![FileOf(evs[k], FALSE)]
             = ApplyChanges(@, evs[k].changes)] = One(X[from + k])
      BY <1>8
    <3> DEFINE a == played[k - 1]
               b == One(X[from + (k - 1)])
    <3> HIDE DEF a, b
    <3>4. played[k] = One(X[from + k])
      BY <3>1, <3>2, <3>3
    <3>5. QED
      BY <2>2, <3>4
  <2>4. QED
    BY <1>6, <2>1, <2>3, Agree
<1>14. from + c = to
  BY <1>1 DEF c
<1>15. played[c] = One(X[to])
  BY <1>6, <1>13, <1>14
<1>16. QED
  BY <1>3, <1>4, <1>15 DEF from, to, cur, c

-----------------------------------------------------------------------------
(***************************************************************************)
(* The checkpoint pass over such a payload heals nothing.                  *)
(***************************************************************************)
LEMMA Tabulated ==
    ASSUME NEW c \in Nat, NEW f, f = [i \in 1 .. c |-> f[i]], NEW x
    PROVE  /\ f \in Seq({f[i] : i \in 1 .. c}) /\ Len(f) = c
           /\ Append(f, x) = [i \in 1 .. c + 1 |-> IF i = c + 1 THEN x ELSE f[i]]
<1> DEFINE S == {f[i] : i \in 1 .. c}
           T == S \cup {x}
<1>1. f \in [1 .. c -> S]
  OBVIOUS
<1>2. f \in Seq(S)
  <2> HIDE DEF S
  <2>1. QED
    BY <1>1, SeqDef
<1>3. Len(f) = c
  <2>1. Len(f) \in Nat /\ DOMAIN f = 1 .. Len(f)
    BY <1>2, LenProperties
  <2>2. DOMAIN f = 1 .. c
    BY <1>1
  <2>3. QED
    BY <2>1, <2>2, SameInterval
<1>4. f \in Seq(T) /\ x \in T
  <2>1. S \subseteq T /\ x \in T
    OBVIOUS
  <2> HIDE DEF S, T
  <2>2. QED
    BY <1>2, <2>1, SeqMonotonic
<1> HIDE DEF S, T
<1>5. /\ Append(f, x) \in Seq(T) /\ Len(Append(f, x)) = c + 1
      /\ \A i \in 1 .. c : Append(f, x)[i] = f[i]
      /\ Append(f, x)[c + 1] = x
  BY <1>3, <1>4, AppendProperties
<1>6. Append(f, x) \in [1 .. c + 1 -> T]
  BY <1>5, LenProperties
<1>7. \A i \in 1 .. c + 1 : Append(f, x)[i] = IF i = c + 1 THEN x ELSE f[i]
  <2>1. \A i \in 1 .. c + 1 : i = c + 1 \/ i \in 1 .. c
    OBVIOUS
  <2>2. QED
    BY <1>5, <2>1
<1>8. QED
  BY <1>2, <1>3, <1>6, <1>7 DEF S

\* What the pass has found after w windows.
Found(X, E, w) == [ends |-> [v \in 1 .. w |-> One(X[E[v]])], wrong |-> {}]

LEMMA ToldEnd ==
    ASSUME NEW d, NEW n, NEW m, NEW X, NEW E, IsTold(d, n, m, X, E), NEW w \in 0 .. m
    PROVE  EndOf(d, Found(X, E, w)) = One(X[E[w]])
<1> DEFINE ends == [v \in 1 .. w |-> One(X[E[v]])]
<1>1. Found(X, E, w).ends = ends /\ w \in Nat
  BY DEF Found, IsTold
<1>2. Len(ends) = w
  <2>1. ends = [v \in 1 .. w |-> ends[v]]
    OBVIOUS
  <2> HIDE DEF ends
  <2>2. QED
    BY <1>1, <2>1, Tabulated
<1>3. CASE w = 0
  <2>1. ends = <<>>
    BY <1>3
  <2>2. EndOf(d, Found(X, E, w)) = BlankFiles(d)
    BY <1>1, <2>1 DEF EndOf
  <2>3. BlankFiles(d) = One(<<>>)
    BY ToldNames DEF BlankFiles, One
  <2>4. X[E[0]] = <<>>
    BY DEF IsTold
  <2>5. QED
    BY <1>3, <2>2, <2>3, <2>4
<1>4. CASE w # 0
  <2>1. w \in 1 .. w
    BY <1>1, <1>4
  <2>2. ends[w] = One(X[E[w]])
    BY <2>1
  <2>3. ends # <<>>
    <3>1. Len(<<>>) = 0
      BY EmptySeq
    <3> HIDE DEF ends
    <3>2. QED
      BY <1>2, <1>4, <3>1
  <2> HIDE DEF ends
  <2>4. EndOf(d, Found(X, E, w)) = ends[w]
    BY <1>1, <1>2, <2>3 DEF EndOf, Last
  <2>5. QED
    BY <2>2, <2>4
<1>5. QED
  BY <1>3, <1>4

OnePass(d, pass, w) ==
    Checked(pass, PlayedFrom(d, EndOf(d, pass), w), d.snaps[w], FALSE)

LEMMA ToldChecked ==
    ASSUME NEW d, NEW n, NEW m, NEW X, NEW E, IsTold(d, n, m, X, E), NEW w \in 1 .. m
    PROVE  OnePass(d, Found(X, E, w - 1), w) = Found(X, E, w)
<1> DEFINE x == X[E[w]]
           pass == Found(X, E, w - 1)
           played == PlayedFrom(d, EndOf(d, pass), w)
           snap == d.snaps[w]
           recorded == SnapshotFiles(snap, FALSE)
           wrong == IF snap.open THEN {} ELSE Differs(played, recorded)
           healed == [f \in DOMAIN played |-> IF f \in wrong THEN recorded[f] ELSE played[f]]
           ends == [v \in 1 .. w - 1 |-> One(X[E[v]])]
<1>1. played = One(x)
  <2>1. w - 1 \in 0 .. m
    BY DEF IsTold
  <2>2. EndOf(d, pass) = One(X[E[w - 1]])
    BY <2>1, ToldEnd
  <2>3. PlayedFrom(d, One(X[E[w - 1]]), w) = One(x)
    BY ToldWindow
  <2> HIDE DEF pass, x
  <2>4. QED
    BY <2>2, <2>3
<1>2. OnePass(d, pass, w) =
        [ends |-> Append(pass.ends, healed),
         wrong |-> pass.wrong \cup (IF wrong # {} THEN {Len(pass.ends) + 1} ELSE {})]
  BY DEF Checked, OnePass
<1>3. pass.ends = ends /\ pass.wrong = {}
  BY DEF Found
<1>4. wrong = {}
  <2>1. SnapTells(snap, x)
    BY DEF IsTold
  <2>2. CASE snap.open = TRUE
    BY <2>2
  <2>3. CASE snap.open = FALSE /\ snap.files = [t \in {"task1"} |-> [f \in {"main.cpp"} |-> x]]
    <3> HIDE DEF snap, x
    <3>1. recorded = One(x)
      BY <2>3, ClosedSnapshot
    <3> HIDE DEF played, recorded
    <3>2. Differs(played, recorded) = {}
      BY <1>1, <3>1 DEF Differs
    <3>3. QED
      BY <2>3, <3>2
  <2> HIDE DEF snap, x
  <2>4. QED
    BY <2>1, <2>2, <2>3 DEF SnapTells
<1>5. healed = One(x)
  <2> HIDE DEF wrong, played, x
  <2>1. DOMAIN One(x) = {Main} /\ \A f \in {Main} : One(x)[f] = x
    BY DEF One
  <2>2. healed = [f \in {Main} |-> x]
    BY <1>1, <1>4, <2>1
  <2>3. QED
    BY <2>2 DEF One
<1> HIDE DEF healed, wrong
<1>6. Append(ends, One(x)) = [v \in 1 .. w |-> One(X[E[v]])]
  <2>1. w \in Nat /\ w - 1 \in Nat /\ (w - 1) + 1 = w
    BY DEF IsTold
  <2>2. ends = [v \in 1 .. w - 1 |-> ends[v]]
    OBVIOUS
  <2>3. Append(ends, One(x)) =
          [v \in 1 .. (w - 1) + 1 |-> IF v = (w - 1) + 1 THEN One(x) ELSE ends[v]]
    <3> HIDE DEF ends, x
    <3>1. QED
      BY <2>1, <2>2, Tabulated
  <2>4. \A v \in 1 .. w : (IF v = w THEN One(x) ELSE ends[v]) = One(X[E[v]])
    <3>1. \A v \in 1 .. w : v = w \/ v \in 1 .. w - 1
      BY <2>1
    <3>2. QED
      BY <3>1
  <2> HIDE DEF ends, x
  <2>5. Append(ends, One(x)) = [v \in 1 .. w |-> IF v = w THEN One(x) ELSE ends[v]]
    BY <2>1, <2>3
  <2>6. QED
    BY <2>4, <2>5
<1> HIDE DEF ends, pass
<1>7. OnePass(d, pass, w) = [ends |-> [v \in 1 .. w |-> One(X[E[v]])], wrong |-> {}]
  BY <1>2, <1>3, <1>4, <1>5, <1>6
<1>8. QED
  BY <1>7 DEF Found, pass

LEMMA ToldPass ==
    ASSUME NEW d, NEW n, NEW m, NEW X, NEW E, IsTold(d, n, m, X, E)
    PROVE  Pass(d) = Found(X, E, m)
<1> DEFINE none == [ends |-> <<>>, wrong |-> {}]
           G(f) == [w \in 0 .. m |-> IF w = 0 THEN none ELSE OnePass(d, f[w - 1], w)]
           upTo == CHOOSE f : f = G(f)
           h == [w \in 0 .. m |-> Found(X, E, w)]
<1>1. m \in Nat /\ Len(d.snaps) = m /\ IsMultiTask(d) = FALSE
  <2>1. IsMultiTask(d) = FALSE
    BY ToldNames
  <2>2. QED
    BY <2>1 DEF IsTold
<1>2. Pass(d) = upTo[m]
  BY <1>1 DEF Pass, OnePass, PlayedFrom
<1>3. \A w \in 1 .. m : OnePass(d, Found(X, E, w - 1), w) = Found(X, E, w)
  BY ToldChecked
<1>4. none = Found(X, E, 0)
  BY DEF Found
<1> HIDE DEF none
<1>5. /\ \A w \in 1 .. m : w - 1 \in 0 .. m /\ w # 0 /\ w \in 0 .. m
      /\ \A w \in 0 .. m : w = 0 \/ w \in 1 .. m
      /\ 0 \in 0 .. m /\ m \in 0 .. m
  BY <1>1, Steps
<1>6. \A w \in 0 .. m : h[w] = Found(X, E, w)
  OBVIOUS
<1>7. h = G(h)
  <2>1. \A w \in 0 .. m : Found(X, E, w) = IF w = 0 THEN none ELSE OnePass(d, h[w - 1], w)
    <3> HIDE DEF h
    <3>1. QED
      BY <1>3, <1>4, <1>5, <1>6
  <2>2. QED
    BY <2>1
<1>8. upTo = G(upTo)
  <2> HIDE DEF G, h
  <2>1. QED
    BY <1>7
<1> HIDE DEF upTo
<1>9. upTo[0] = none /\ \A w \in 1 .. m : upTo[w] = OnePass(d, upTo[w - 1], w)
  BY <1>5, <1>8
<1> HIDE DEF G, h
<1>10. \A w \in 0 .. m : upTo[w] = h[w]
  <2>1. upTo[0] = h[0]
    BY <1>4, <1>5, <1>6, <1>9
  <2>2. \A w \in 1 .. m : upTo[w - 1] = h[w - 1] => upTo[w] = h[w]
    BY <1>3, <1>5, <1>6, <1>9
  <2>3. QED
    BY <1>1, <2>1, <2>2, Agree
<1>11. QED
  BY <1>2, <1>5, <1>6, <1>10

-----------------------------------------------------------------------------
(***************************************************************************)
(* Every frame is the text it is the frame of.                             *)
(***************************************************************************)
LEMMA ToldWindowOf ==
    ASSUME NEW d, NEW n, NEW m, NEW X, NEW E, IsTold(d, n, m, X, E), NEW i \in 1 .. n
    PROVE  LET w == WindowOf(d, i) IN w \in 1 .. m /\ E[w - 1] < i /\ i <= E[w]
<1> DEFINE T == {m} \cup {w \in 1 .. m : i <= EventsUpTo(d, w)}
           w == WindowOf(d, i)
<1>1. /\ m \in Nat \ {0} /\ n \in Nat /\ Len(d.snaps) = m
      /\ DOMAIN d.snaps = 1 .. m /\ E[0] = 0 /\ E[m] = n
  BY DEF IsTold
<1>2. w = Min(T)
  BY <1>1 DEF WindowOf
<1>3. \A v \in 1 .. m : v \in 0 .. m /\ EventsUpTo(d, v) = E[v]
  <2>1. \A v \in 1 .. m : v \in 0 .. m
    BY <1>1
  <2>2. QED
    BY <2>1, ToldCuts
<1>4. \A v : v \in T <=> v \in 1 .. m /\ i <= E[v]
  <2>1. m \in 1 .. m /\ i <= n
    BY <1>1
  <2>2. QED
    BY <1>1, <1>3, <2>1
<1> HIDE DEF T
<1>5. T \subseteq Nat /\ m \in T
  <2>1. \A v \in T : v \in Nat
    BY <1>1, <1>4
  <2>2. m \in 1 .. m /\ i <= n
    BY <1>1
  <2>3. QED
    BY <1>1, <1>4, <2>1, <2>2
<1>6. w \in T /\ \A v \in T : w <= v
  <2>1. \E x \in T : \A y \in T : x <= y
    BY <1>5, LeastNat
  <2> HIDE DEF w
  <2>2. w = CHOOSE x \in T : \A y \in T : x <= y
    BY <1>2 DEF Min
  <2>3. QED
    BY <2>1, <2>2
<1> HIDE DEF w
<1>7. w \in 1 .. m /\ i <= E[w]
  BY <1>4, <1>6
<1>8. E[w - 1] < i
  <2>1. CASE w = 1
    BY <1>1, <2>1
  <2>2. CASE w # 1
    <3>1. w - 1 \in 1 .. m /\ ~(w <= w - 1)
      BY <1>1, <1>7, <2>2
    <3>2. w - 1 \notin T
      BY <1>6, <3>1
    <3>3. ~(i <= E[w - 1])
      BY <1>4, <3>1, <3>2
    <3>4. E[w - 1] \in Nat
      BY <1>7 DEF IsTold
    <3>5. QED
      BY <3>3, <3>4
  <2>3. QED
    BY <2>1, <2>2
<1>9. QED
  BY <1>7, <1>8 DEF w

LEMMA ToldFrame ==
    ASSUME NEW d, NEW n, NEW m, NEW X, NEW E, IsTold(d, n, m, X, E), NEW i \in 1 .. n
    PROVE  FrameText(d, Found(X, E, m).ends, i) = X[i]
<1> DEFINE ends == Found(X, E, m).ends
           w == WindowOf(d, i)
           from == E[w - 1]
           c == i - from
           evs == SubSeq(d.events, EventsUpTo(d, w - 1) + 1, i)
           multi == IsMultiTask(d)
           file == FileOf(d.events[i], multi)
           base == IF w = 1 THEN <<>> ELSE ends[w - 1][file]
           G(f) == [k \in 0 .. Len(evs) |->
                      IF k = 0 THEN base
                      ELSE IF FileOf(evs[k], multi) # file THEN f[k - 1]
                      ELSE ApplyChanges(f[k - 1], evs[k].changes)]
           text == CHOOSE f : f = G(f)
           h == [k \in 0 .. c |-> X[from + k]]
<1>1. \A k \in 1 .. n : FileOf(d.events[k], multi) = Main
  <2>1. multi = FALSE
    BY ToldNames
  <2> HIDE DEF multi
  <2>2. QED
    BY <2>1, ToldNames, Zenon
<1>2. FrameText(d, ends, i) = text[Len(evs)]
  BY DEF FrameText
<1>3. w \in 1 .. m /\ from < i /\ i <= E[w]
  BY ToldWindowOf
<1>4. m \in Nat /\ n \in Nat /\ X[0] = <<>> /\ E[0] = 0
  BY DEF IsTold
<1>5. from \in Nat
  BY <1>3 DEF IsTold
<1>6. base = X[from]
  <2>1. CASE w = 1
    BY <1>4, <2>1
  <2>2. CASE w # 1
    <3>1. w - 1 \in 1 .. m
      BY <1>3, <1>4, <2>2
    <3>2. ends[w - 1] = One(X[from])
      BY <3>1 DEF Found
    <3>3. One(X[from])[Main] = X[from]
      BY DEF One
    <3> HIDE DEF ends, w
    <3>4. QED
      BY <1>1, <2>2, <3>2, <3>3
  <2>3. QED
    BY <2>1, <2>2
<1>7. evs = SubSeq(d.events, from + 1, i)
  <2>1. w - 1 \in 0 .. m
    BY <1>3, <1>4
  <2>2. EventsUpTo(d, w - 1) = from
    BY <2>1, ToldCuts
  <2>3. QED
    BY <2>2
<1> HIDE DEF evs, from, w, base, file, ends, multi
<1>8. /\ Len(evs) = c /\ c \in Nat
      /\ \A k \in 1 .. c : from + k \in 1 .. n /\ evs[k] = d.events[from + k]
  <2>1. i \in Nat /\ from <= i /\ i <= n
    BY <1>3, <1>4, <1>5
  <2>2. /\ Len(evs) = i - from
        /\ \A k \in 1 .. i - from : from + k \in 1 .. n /\ evs[k] = d.events[from + k]
    BY <1>5, <1>7, <2>1, ToldPiece
  <2>3. c \in Nat
    BY <1>5, <2>1
  <2>4. QED
    BY <2>2, <2>3
<1>9. ASSUME NEW k \in 1 .. c
      PROVE  /\ FileOf(evs[k], multi) = file
             /\ ApplyChanges(X[from + (k - 1)], evs[k].changes) = X[from + k]
  <2> DEFINE j == from + k
  <2>1. j \in 1 .. n /\ evs[k] = d.events[j] /\ j - 1 = from + (k - 1)
    BY <1>5, <1>8
  <2> HIDE DEF j
  <2>2. ApplyChanges(X[j - 1], d.events[j].changes) = X[j]
    BY <2>1 DEF IsTold
  <2>3. FileOf(d.events[j], multi) = Main /\ file = Main
    BY <1>1, <2>1 DEF file
  <2>4. QED
    BY <2>1, <2>2, <2>3 DEF j
<1>10. /\ \A k \in 1 .. c : k - 1 \in 0 .. c /\ k # 0 /\ k \in 0 .. c
       /\ \A k \in 0 .. c : k = 0 \/ k \in 1 .. c
       /\ 0 \in 0 .. c /\ c \in 0 .. c
  <2> HIDE DEF c
  <2>1. QED
    BY <1>8, Steps
<1>11. from + 0 = from /\ from + c = i
  BY <1>3, <1>5
<1> HIDE DEF c
<1>12. \A k \in 0 .. c : h[k] = X[from + k]
  OBVIOUS
<1>13. \A k \in 1 .. c : h[k] = ApplyChanges(h[k - 1], evs[k].changes)
  BY <1>9, <1>10, <1>12
<1>14. h = G(h)
  <2>1. h = [k \in 0 .. c |-> h[k]]
    OBVIOUS
  <2> HIDE DEF h
  <2>2. \A k \in 0 .. c : h[k] = IF k = 0 THEN base
                                 ELSE IF FileOf(evs[k], multi) # file THEN h[k - 1]
                                 ELSE ApplyChanges(h[k - 1], evs[k].changes)
    BY <1>6, <1>9, <1>10, <1>11, <1>12, <1>13
  <2>3. QED
    BY <1>8, <2>1, <2>2
<1>15. text = G(text)
  <2> HIDE DEF G, h
  <2>1. QED
    BY <1>14
<1> HIDE DEF text, h
<1>16. text[0] = base /\ \A k \in 1 .. c : text[k] = ApplyChanges(text[k - 1], evs[k].changes)
  BY <1>8, <1>9, <1>10, <1>15
<1> HIDE DEF G
<1>17. \A k \in 0 .. c : text[k] = h[k]
  <2>1. text[0] = h[0]
    BY <1>6, <1>10, <1>11, <1>12, <1>16
  <2>2. \A k \in 1 .. c : text[k - 1] = h[k - 1] => text[k] = h[k]
    BY <1>13, <1>16
  <2>3. c \in Nat
    BY <1>8
  <2>4. QED
    BY <2>1, <2>2, <2>3, Agree, Zenon
<1>18. text[c] = X[i]
  BY <1>10, <1>11, <1>12, <1>17
<1>19. QED
  BY <1>2, <1>8, <1>18 DEF ends

\* The live edge and every earlier moment of such a payload.
LEMMA ToldIsShown ==
    ASSUME NEW d, NEW n, NEW m, NEW X, NEW E, IsTold(d, n, m, X, E)
    PROVE  /\ FinalFiles(d)[Main] = X[n]
           /\ \A i \in 1 .. n : FrameTexts(d)[i] = X[i]
<1>1. Pass(d) = Found(X, E, m) /\ m \in 0 .. m /\ E[m] = n /\ DOMAIN d.events = 1 .. n
  <2>1. m \in Nat /\ E[m] = n /\ DOMAIN d.events = 1 .. n
    BY DEF IsTold
  <2>2. m \in 0 .. m
    BY <2>1
  <2>3. QED
    BY <2>1, <2>2, ToldPass
<1>2. FinalFiles(d) = One(X[n])
  BY <1>1, ToldEnd DEF FinalFiles
<1>3. One(X[n])[Main] = X[n]
  BY DEF One
<1>4. \A i \in 1 .. n : FrameTexts(d)[i] = FrameText(d, Found(X, E, m).ends, i)
  BY <1>1 DEF FrameTexts
<1>5. QED
  BY <1>2, <1>3, <1>4, ToldFrame

-----------------------------------------------------------------------------
(***************************************************************************)
(* What is on screen, when nothing is missing.                             *)
(***************************************************************************)
UpTo(n) == [i \in 1 .. n |-> i]

LEMMA UpToType ==
    ASSUME NEW n \in Nat
    PROVE  /\ UpTo(n) \in Seq(Nat) /\ Len(UpTo(n)) = n /\ DOMAIN UpTo(n) = 1 .. n
           /\ ToSet(UpTo(n)) = 1 .. n /\ \A i \in 1 .. n : UpTo(n)[i] = i
<1>1. UpTo(n) \in [1 .. n -> Nat] /\ DOMAIN UpTo(n) = 1 .. n /\ \A i \in 1 .. n : UpTo(n)[i] = i
  BY DEF UpTo
<1>2. UpTo(n) \in Seq(Nat)
  BY <1>1, SeqDef
<1>3. Len(UpTo(n)) = n
  <2>1. Len(UpTo(n)) \in Nat /\ DOMAIN UpTo(n) = 1 .. Len(UpTo(n))
    BY <1>2, LenProperties
  <2>2. QED
    BY <1>1, <2>1, SameInterval
<1>4. ToSet(UpTo(n)) = 1 .. n
  BY <1>1 DEF ToSet
<1>5. QED
  BY <1>1, <1>2, <1>3, <1>4

\* The keystrokes after the a-th, put behind the first a.
LEMMA UpToConcat ==
    ASSUME NEW a \in Nat, NEW b \in Nat, a <= b, NEW t, t = [i \in 1 .. b - a |-> a + i]
    PROVE  UpTo(a) \o t = UpTo(b) /\ t \in Seq(Nat) /\ Len(t) = b - a
<1> DEFINE c == b - a
<1>1. c \in Nat /\ t \in [1 .. c -> Nat] /\ \A i \in 1 .. c : t[i] = a + i
  OBVIOUS
<1>2. t \in Seq(Nat)
  <2> HIDE DEF c
  <2>1. QED
    BY <1>1, SeqDef
<1>3. Len(t) = c
  <2>1. Len(t) \in Nat /\ DOMAIN t = 1 .. Len(t)
    BY <1>2, LenProperties
  <2>2. DOMAIN t = 1 .. c
    BY <1>1
  <2> HIDE DEF c
  <2>3. QED
    BY <1>1, <2>1, <2>2, SameInterval
<1>4. UpTo(a) \in Seq(Nat) /\ Len(UpTo(a)) = a /\ \A i \in 1 .. a : UpTo(a)[i] = i
  BY UpToType
<1>5. UpTo(b) \in Seq(Nat) /\ Len(UpTo(b)) = b /\ \A i \in 1 .. b : UpTo(b)[i] = i
  BY UpToType
<1> DEFINE s == UpTo(a) \o t
<1>6. /\ s \in Seq(Nat) /\ Len(s) = a + c
      /\ \A i \in 1 .. a + c : s[i] = IF i <= a THEN UpTo(a)[i] ELSE t[i - a]
  <2> HIDE DEF c
  <2>1. QED
    BY <1>2, <1>3, <1>4, ConcatProperties
<1> HIDE DEF s
<1>7. a + c = b
  OBVIOUS
<1>8. \A i \in 1 .. b : s[i] = UpTo(b)[i]
  <2> SUFFICES ASSUME NEW i \in 1 .. b PROVE s[i] = i
    BY <1>5
  <2>1. s[i] = IF i <= a THEN UpTo(a)[i] ELSE t[i - a]
    BY <1>6, <1>7
  <2>2. CASE i <= a
    <3>1. i \in 1 .. a
      BY <2>2
    <3>2. QED
      BY <1>4, <2>1, <2>2, <3>1
  <2>3. CASE ~(i <= a)
    <3>1. i - a \in 1 .. c /\ a + (i - a) = i
      BY <2>3
    <3>2. QED
      BY <1>1, <2>1, <2>3, <3>1
  <2>4. QED
    BY <2>2, <2>3
<1>9. s = UpTo(b)
  <2>1. Len(s) = b /\ Len(UpTo(b)) = b /\ s \in Seq(Nat) /\ UpTo(b) \in Seq(Nat)
    BY <1>5, <1>6, <1>7
  <2>2. QED
    BY <1>8, <2>1, SeqEqual
<1>10. QED
  BY <1>2, <1>3, <1>9 DEF s, c

\* The last keystroke of the first w windows.
LastOf(w) == IF w = 0 THEN 0 ELSE log[w].last

LEMMA WindowsMeet ==
    ASSUME EdgeInv, WholeRecord
    PROVE  /\ data \in Nat /\ LastOf(0) = 0
           /\ \A w \in 0 .. data : LastOf(w) \in Nat /\ LastOf(w) <= Len(typed)
           /\ \A w \in 1 .. data : /\ log[w].first = LastOf(w - 1) + 1 /\ log[w].last = LastOf(w)
                                   /\ LastOf(w - 1) < LastOf(w)
<1>1. data \in Nat /\ data <= Len(log) /\ Len(log) \in Nat /\ Len(typed) \in Nat
  BY LenProperties DEF EdgeInv, RecordInv, TypedInv
<1>2. \A w \in 1 .. data : w \in 1 .. Len(log) /\ w # 0 /\ w \in Nat
  BY <1>1
<1>3. \A w \in 1 .. data : IsWindow(log[w])
  BY <1>2 DEF EdgeInv, RecordInv
<1>4. \A w \in 1 .. data : LastOf(w) = log[w].last
  BY <1>2 DEF LastOf
<1>5. LastOf(0) = 0
  BY DEF LastOf
<1>6. \A w \in 0 .. data : LastOf(w) \in Nat /\ LastOf(w) <= Len(typed)
  <2>1. \A w \in 0 .. data : w = 0 \/ w \in 1 .. data
    BY <1>1
  <2>2. QED
    BY <1>1, <1>3, <1>4, <1>5, <2>1 DEF IsWindow
<1>7. ASSUME NEW w \in 1 .. data
      PROVE  log[w].first = LastOf(w - 1) + 1 /\ LastOf(w - 1) < LastOf(w)
  <2>1. log[w].first = LastOf(w - 1) + 1
    BY <1>1 DEF WholeRecord, LastOf
  <2>2. w - 1 \in 0 .. data /\ w \in 0 .. data
    BY <1>1
  <2>3. LastOf(w - 1) \in Nat /\ LastOf(w) \in Nat /\ log[w].first <= log[w].last
    BY <1>3, <1>6, <2>2 DEF IsWindow
  <2>4. QED
    BY <1>4, <2>1, <2>3
<1>8. QED
  BY <1>1, <1>4, <1>5, <1>6, <1>7

LEMMA EndsRise ==
    ASSUME EdgeInv, WholeRecord, NEW w \in 1 .. data
    PROVE  LastOf(w) <= LastOf(data)
<1>1. /\ data \in Nat /\ \A v \in 0 .. data : LastOf(v) \in Nat
      /\ \A v \in 1 .. data : LastOf(v - 1) < LastOf(v)
  BY WindowsMeet
<1> DEFINE T == {k \in Nat : w + k <= data => LastOf(w) <= LastOf(w + k)}
<1>2. 0 \in T
  <2>1. w + 0 = w /\ LastOf(w) \in Nat
    BY <1>1
  <2>2. QED
    BY <2>1
<1>3. ASSUME NEW k \in T PROVE k + 1 \in T
  <2> SUFFICES ASSUME w + (k + 1) <= data PROVE LastOf(w) <= LastOf(w + (k + 1))
    OBVIOUS
  <2>1. /\ w + (k + 1) \in 1 .. data /\ (w + (k + 1)) - 1 = w + k /\ w + k <= data
        /\ w \in 0 .. data /\ w + k \in 0 .. data /\ w + (k + 1) \in 0 .. data
    BY <1>1
  <2>2. LastOf(w) <= LastOf(w + k) /\ LastOf(w + k) < LastOf(w + (k + 1))
    BY <1>1, <2>1
  <2>3. LastOf(w) \in Nat /\ LastOf(w + k) \in Nat /\ LastOf(w + (k + 1)) \in Nat
    BY <1>1, <2>1
  <2>4. QED
    BY <2>2, <2>3
<1> HIDE DEF T
<1>4. T = Nat
  <2>1. T \subseteq Nat
    BY DEF T
  <2>2. QED
    BY <1>2, <1>3, <2>1, NatInd
<1>5. data - w \in T /\ w + (data - w) = data
  BY <1>1, <1>4
<1>6. QED
  BY <1>1, <1>5 DEF T

\* A record without a gap holds the first keystrokes, each once, in order.
LEMMA RecordIsUpTo ==
    ASSUME EdgeInv, WholeRecord
    PROVE  RecordedEvents = UpTo(LastOf(data))
<1> DEFINE seqs == [w \in 1 .. data |-> EventsIn(log[w])]
           G(f) == [i \in 1 .. Len(seqs) |-> IF i = 1 THEN seqs[i] ELSE f[i - 1] \o seqs[i]]
           flatten == CHOOSE f : f = G(f)
           h == [w \in 1 .. data |-> UpTo(LastOf(w))]
<1>1. /\ data \in Nat /\ LastOf(0) = 0
      /\ \A w \in 0 .. data : LastOf(w) \in Nat
      /\ \A w \in 1 .. data : /\ log[w].first = LastOf(w - 1) + 1 /\ log[w].last = LastOf(w)
                              /\ LastOf(w - 1) < LastOf(w)
  BY WindowsMeet
<1>2. Len(seqs) = data
  <2>1. seqs = [w \in 1 .. data |-> seqs[w]]
    OBVIOUS
  <2> HIDE DEF seqs
  <2>2. QED
    BY <1>1, <2>1, Tabulated
<1>3. ASSUME NEW w \in 1 .. data
      PROVE  UpTo(LastOf(w - 1)) \o seqs[w] = UpTo(LastOf(w)) /\ seqs[w] \in Seq(Nat)
  <2> DEFINE a == LastOf(w - 1)
             b == LastOf(w)
  <2>1. a \in Nat /\ b \in Nat /\ a <= b
    <3>1. w - 1 \in 0 .. data /\ w \in 0 .. data
      BY <1>1
    <3>2. a \in Nat /\ b \in Nat /\ a < b
      BY <1>1, <3>1
    <3>3. QED
      BY <3>2
  <2>2. seqs[w] = [i \in 1 .. (b - (a + 1) + 1) |-> (a + 1) + i - 1]
    BY <1>1 DEF EventsIn
  <2> HIDE DEF a, b, seqs
  <2>3. b - (a + 1) + 1 = b - a /\ \A i \in 1 .. b - a : (a + 1) + i - 1 = a + i
    BY <2>1
  <2>4. seqs[w] = [i \in 1 .. b - a |-> a + i]
    BY <2>2, <2>3
  <2>5. QED
    BY <2>1, <2>4, UpToConcat DEF a, b
<1>4. CASE data = 0
  <2>1. FlattenSeq(seqs) = seqs
    BY <1>2, <1>4 DEF FlattenSeq
  <2>2. seqs = UpTo(0)
    BY <1>4 DEF UpTo
  <2>3. QED
    BY <1>1, <1>4, <2>1, <2>2 DEF RecordedEvents
<1>5. CASE data # 0
  <2>1. RecordedEvents = flatten[data]
    BY <1>2, <1>5 DEF RecordedEvents, FlattenSeq
  <2>2. /\ 1 \in 1 .. data /\ data \in 1 .. data
        /\ \A w \in 1 .. data : w # 1 => w - 1 \in 1 .. data
    BY <1>1, <1>5
  <2>3. UpTo(LastOf(0)) = <<>>
    BY <1>1 DEF UpTo
  <2>4. seqs[1] = UpTo(LastOf(1))
    <3>1. UpTo(LastOf(1 - 1)) \o seqs[1] = UpTo(LastOf(1)) /\ seqs[1] \in Seq(Nat) /\ 1 - 1 = 0
      BY <1>3, <2>2
    <3>2. <<>> \o seqs[1] = seqs[1]
      BY <3>1, ConcatEmptySeq
    <3>3. QED
      BY <2>3, <3>1, <3>2
  <2> HIDE DEF seqs
  <2>5. h = G(h)
    <3>1. \A w \in 1 .. data : h[w] = UpTo(LastOf(w))
      OBVIOUS
    <3>2. \A w \in 1 .. data : h[w] = IF w = 1 THEN seqs[w] ELSE h[w - 1] \o seqs[w]
      <4> HIDE DEF h
      <4>1. QED
        BY <1>3, <2>2, <2>4, <3>1
    <3>3. QED
      BY <1>2, <3>2
  <2>6. flatten = G(flatten)
    <3> HIDE DEF G, h
    <3>1. QED
      BY <2>5
  <2> HIDE DEF flatten, h
  <2>7. flatten[1] = seqs[1] /\ \A w \in 1 .. data : w # 1 => flatten[w] = flatten[w - 1] \o seqs[w]
    BY <1>2, <2>2, <2>6
  <2> HIDE DEF G
  <2> DEFINE c == data - 1
             f == [k \in 0 .. c |-> flatten[k + 1]]
             g == [k \in 0 .. c |-> UpTo(LastOf(k + 1))]
  <2>8. c \in Nat /\ c + 1 = data
    BY <1>1, <1>5
  <2>9. f[0] = g[0]
    <3>1. 0 \in 0 .. c /\ 0 + 1 = 1
      BY <2>8
    <3>2. f[0] = flatten[1] /\ g[0] = UpTo(LastOf(1))
      BY <3>1
    <3>3. QED
      BY <2>4, <2>7, <3>2
  <2>10. ASSUME NEW k \in 1 .. c, f[k - 1] = g[k - 1] PROVE f[k] = g[k]
    <3>1. /\ k \in 0 .. c /\ k - 1 \in 0 .. c /\ (k - 1) + 1 = k /\ (k + 1) - 1 = k
          /\ k + 1 \in 1 .. data /\ k + 1 # 1
      BY <2>8
    <3>2. f[k] = flatten[k + 1] /\ g[k] = UpTo(LastOf(k + 1))
      BY <3>1
    <3>3. flatten[k] = UpTo(LastOf(k))
      BY <2>10, <3>1
    <3>4. flatten[k + 1] = flatten[k] \o seqs[k + 1]
      BY <2>7, <3>1
    <3>5. UpTo(LastOf(k)) \o seqs[k + 1] = UpTo(LastOf(k + 1))
      BY <1>3, <3>1
    <3>6. QED
      BY <3>2, <3>3, <3>4, <3>5
  <2>11. \A k \in 0 .. c : f[k] = g[k]
    <3> HIDE DEF f, g, c
    <3>1. QED
      BY <2>8, <2>9, <2>10, Agree
  <2>12. c \in 0 .. c /\ f[c] = flatten[c + 1] /\ g[c] = UpTo(LastOf(c + 1))
    BY <2>8
  <2> HIDE DEF f, g, c
  <2>13. QED
    BY <2>1, <2>8, <2>11, <2>12
<1>6. QED
  BY <1>4, <1>5

LEMMA ToSetConcat ==
    ASSUME NEW s \in Seq(Nat), NEW t \in Seq(Nat)
    PROVE  ToSet(s \o t) = ToSet(s) \cup ToSet(t)
<1>1. /\ Len(s) \in Nat /\ DOMAIN s = 1 .. Len(s) /\ Len(t) \in Nat /\ DOMAIN t = 1 .. Len(t)
  BY LenProperties
<1> DEFINE u == s \o t
<1>2. /\ u \in Seq(Nat) /\ Len(u) = Len(s) + Len(t)
      /\ \A i \in 1 .. Len(s) + Len(t) : u[i] = IF i <= Len(s) THEN s[i] ELSE t[i - Len(s)]
  BY ConcatProperties
<1>3. DOMAIN u = 1 .. Len(s) + Len(t)
  BY <1>2, LenProperties
<1> HIDE DEF u
<1>4. \A i \in 1 .. Len(s) + Len(t) :
        i \in 1 .. Len(s) \/ (~(i <= Len(s)) /\ i - Len(s) \in 1 .. Len(t))
  BY <1>1
<1>5. \A i \in 1 .. Len(s) : i \in 1 .. Len(s) + Len(t) /\ u[i] = s[i]
  BY <1>1, <1>2
<1>6. \A i \in 1 .. Len(t) : Len(s) + i \in 1 .. Len(s) + Len(t) /\ u[Len(s) + i] = t[i]
  <2> SUFFICES ASSUME NEW i \in 1 .. Len(t)
               PROVE  Len(s) + i \in 1 .. Len(s) + Len(t) /\ u[Len(s) + i] = t[i]
    OBVIOUS
  <2>1. Len(s) + i \in 1 .. Len(s) + Len(t) /\ ~(Len(s) + i <= Len(s)) /\ (Len(s) + i) - Len(s) = i
    BY <1>1
  <2>2. QED
    BY <1>2, <2>1
<1>7. ToSet(u) \subseteq ToSet(s) \cup ToSet(t)
  BY <1>1, <1>2, <1>3, <1>4, <1>5 DEF ToSet
<1>8. ToSet(s) \cup ToSet(t) \subseteq ToSet(u)
  BY <1>1, <1>3, <1>5, <1>6 DEF ToSet
<1>9. QED
  BY <1>7, <1>8 DEF u

\* The tail continues the record.
LEMMA TailContinues ==
    ASSUME EdgeInv, WholeRecord, NoHole
    PROVE  LET n == Cardinality(OnScreen)
               l == LastOf(data)
           IN  /\ n \in Nat /\ l \in Nat /\ l <= n /\ n <= Len(typed) /\ OnScreen = 1 .. n
               /\ LiveTail = [i \in 1 .. n - l |-> l + i]
<1> DEFINE n == Cardinality(OnScreen)
           l == LastOf(data)
           top == Len(typed)
<1>1. RecordedEvents = UpTo(l) /\ l \in Nat /\ l <= top /\ top \in Nat
  <2>1. data \in 0 .. data
    BY WindowsMeet
  <2>2. l \in Nat /\ l <= top
    BY <2>1, WindowsMeet
  <2>3. QED
    BY <2>2, RecordIsUpTo, LenProperties DEF EdgeInv, TypedInv
<1> HIDE DEF l, top
<1>2. UpTo(l) \in Seq(Nat) /\ ToSet(UpTo(l)) = 1 .. l
  BY <1>1, UpToType
<1> DEFINE fresh == {k \in ToSet(live) : k >= syncedAt /\ k \notin 1 .. l}
           tail == IF syncedAt = 0 THEN {} ELSE fresh
<1>3. fresh \subseteq 1 .. top
  <2>1. DOMAIN live = 1 .. Len(live) /\ \A i \in 1 .. Len(live) : live[i] \in 1 .. top
    BY LenProperties DEF EdgeInv, StreamInv, top
  <2>2. QED
    BY <2>1 DEF ToSet
<1>4. tail \subseteq 1 .. top /\ tail \cap 1 .. l = {}
  BY <1>3
<1>5. /\ LiveTail \in Seq(Nat) /\ ToSet(LiveTail) = tail
      /\ syncedAt # 0 => LiveTail = Ascending(tail)
      /\ syncedAt = 0 => LiveTail = <<>>
  <2>1. CASE syncedAt = 0
    <3>1. LiveTail = <<>> /\ <<>> \in Seq(Nat) /\ ToSet(<<>>) = {}
      BY <2>1, EmptySeq DEF LiveTail, ToSet
    <3>2. QED
      BY <2>1, <3>1
  <2>2. CASE syncedAt # 0
    <3>1. LiveTail = Ascending(tail)
      BY <1>1, <1>2, <2>2 DEF LiveTail, DedupeLiveEvents
    <3> HIDE DEF tail
    <3>2. Ascending(tail) \in Seq(Nat) /\ ToSet(Ascending(tail)) = tail
      BY <1>1, <1>4, AscendingDoes
    <3>3. QED
      BY <2>2, <3>1, <3>2
  <2>3. QED
    BY <2>1, <2>2
<1>6. OnScreen = (1 .. l) \cup tail
  <2> HIDE DEF tail
  <2>1. ToSet(UpTo(l) \o LiveTail) = ToSet(UpTo(l)) \cup ToSet(LiveTail)
    BY <1>2, <1>5, ToSetConcat
  <2>2. QED
    BY <1>1, <1>2, <1>5, <2>1 DEF OnScreen
<1>7. OnScreen = 1 .. n
  BY DEF NoHole
<1>8. n \in Nat
  <2>1. IsFiniteSet(1 .. top)
    BY <1>1, FS_Interval
  <2>2. 1 .. l \subseteq 1 .. top
    BY <1>1
  <2> HIDE DEF tail
  <2>3. OnScreen \subseteq 1 .. top
    BY <1>4, <1>6, <2>2
  <2>4. IsFiniteSet(OnScreen)
    BY <2>1, <2>3, FS_Subset
  <2>5. QED
    BY <2>4, FS_CardinalityType
<1> HIDE DEF n, tail, fresh
<1>9. l <= n
  <2>1. 1 .. l \subseteq 1 .. n
    BY <1>6, <1>7
  <2>2. l = 0 \/ l \in 1 .. l
    BY <1>1
  <2>3. QED
    BY <1>1, <1>8, <2>1, <2>2
<1>10. n <= top
  <2>1. n = 0 \/ n \in 1 .. n
    BY <1>8
  <2>2. n \in 1 .. n => n \in 1 .. l \/ n \in 1 .. top
    BY <1>4, <1>6, <1>7
  <2>3. QED
    BY <1>1, <2>1, <2>2
<1>11. tail = l + 1 .. n
  <2>1. \A k : k \in tail <=> k \in 1 .. n /\ k \notin 1 .. l
    BY <1>4, <1>6, <1>7
  <2>2. \A k : k \in l + 1 .. n <=> k \in 1 .. n /\ k \notin 1 .. l
    BY <1>1, <1>8, <1>9
  <2>3. QED
    BY <2>1, <2>2
<1>12. LiveTail = [i \in 1 .. n - l |-> l + i]
  <2>1. CASE syncedAt = 0
    <3>1. tail = {}
      BY <2>1 DEF tail
    <3>2. n = l
      <4>1. ~(l < n)
        <5>1. l < n => l + 1 \in l + 1 .. n
          BY <1>1, <1>8
        <5>2. QED
          BY <1>11, <3>1, <5>1
      <4>2. QED
        BY <1>1, <1>8, <1>9, <4>1
    <3>3. [i \in 1 .. n - l |-> l + i] = <<>>
      BY <1>1, <3>2
    <3>4. QED
      BY <1>5, <2>1, <3>3
  <2>2. CASE syncedAt # 0
    BY <1>1, <1>5, <1>8, <1>9, <1>11, <2>2, AscendingInterval
  <2>3. QED
    BY <2>1, <2>2
<1>13. QED
  BY <1>1, <1>7, <1>8, <1>9, <1>10, <1>12 DEF n, l, top

-----------------------------------------------------------------------------
(***************************************************************************)
(* The stitched payload tells the student's texts.                         *)
(***************************************************************************)
TextsUpTo(n) == [k \in 0 .. n |-> Text(k)]

\* Where the windows end: those of the record, then the open one.
EndsOf(n, m) == [w \in 0 .. m |-> IF w <= data THEN LastOf(w) ELSE n]

LEMMA StitchedEvents ==
    ASSUME EdgeInv, WholeRecord, NoHole
    PROVE  StitchLive.events = [k \in 1 .. Cardinality(OnScreen) |-> Event(k)]
<1> DEFINE n == Cardinality(OnScreen)
           l == LastOf(data)
           ks == RecordedEvents \o LiveTail
<1>1. n \in Nat /\ l \in Nat /\ l <= n /\ LiveTail = [i \in 1 .. n - l |-> l + i]
  BY TailContinues
<1>2. StitchLive.events = [i \in DOMAIN ks |-> Event(ks[i])]
  BY DEF StitchLive
<1>3. RecordedEvents = UpTo(l)
  BY RecordIsUpTo
<1> HIDE DEF n, l
<1>4. ks = UpTo(n)
  BY <1>1, <1>3, UpToConcat
<1> HIDE DEF ks
<1>5. DOMAIN ks = 1 .. n /\ \A i \in 1 .. n : ks[i] = i
  BY <1>1, <1>4, UpToType
<1>6. StitchLive.events = [k \in 1 .. n |-> Event(k)]
  BY <1>2, <1>5
<1>7. QED
  BY <1>6 DEF n

\* Of its windows, those of the record come first; one more is open when the
\* tail is not empty.
LEMMA StitchedWindows ==
    ASSUME EdgeInv, WholeRecord, NoHole
    PROVE  LET n == Cardinality(OnScreen)
               l == LastOf(data)
               m == IF n = l THEN data ELSE data + 1
           IN  /\ m \in Nat /\ Len(StitchLive.snaps) = m /\ DOMAIN StitchLive.snaps = 1 .. m
               /\ \A w \in 1 .. data : StitchLive.snaps[w] = Recorded(log[w])
               /\ m # data => StitchLive.snaps[m] = OpenWindow(n - l)
<1> DEFINE n == Cardinality(OnScreen)
           l == LastOf(data)
           m == IF n = l THEN data ELSE data + 1
           closed == [w \in 1 .. data |-> Recorded(log[w])]
           snaps == StitchLive.snaps
<1>1. n \in Nat /\ l \in Nat /\ l <= n /\ LiveTail = [i \in 1 .. n - l |-> l + i]
  BY TailContinues
<1>2. data \in Nat
  BY WindowsMeet
<1>3. Len(LiveTail) = n - l
  <2> HIDE DEF n, l
  <2>1. QED
    BY <1>1, UpToConcat
<1>4. LiveTail = <<>> <=> n = l
  <2> HIDE DEF n, l
  <2>1. Len(<<>>) = 0
    BY EmptySeq
  <2>2. LiveTail = <<>> => n = l
    BY <1>1, <1>3, <2>1
  <2>3. n = l => LiveTail = <<>>
    BY <1>1
  <2>4. QED
    BY <2>2, <2>3
<1>5. snaps = closed \o (IF LiveTail = <<>> THEN <<>> ELSE <<OpenWindow(Len(LiveTail))>>)
  BY DEF StitchLive
<1>6. closed = [w \in 1 .. data |-> closed[w]]
  OBVIOUS
<1>7. \A w \in 1 .. data : closed[w] = Recorded(log[w])
  OBVIOUS
<1> DEFINE open == OpenWindow(n - l)
<1> HIDE DEF closed, n, l, snaps, open
<1>8. /\ closed \in Seq({closed[w] : w \in 1 .. data}) /\ Len(closed) = data
      /\ Append(closed, open) = [w \in 1 .. data + 1 |-> IF w = data + 1 THEN open ELSE closed[w]]
  BY <1>2, <1>6, Tabulated
<1>9. CASE n = l
  <2>1. snaps = closed
    <3>1. snaps = closed \o <<>>
      BY <1>4, <1>5, <1>9
    <3>2. QED
      BY <1>8, <3>1, ConcatEmptySeq
  <2>2. DOMAIN closed = 1 .. data
    BY <1>6
  <2>3. QED
    BY <1>2, <1>7, <1>8, <1>9, <2>1, <2>2 DEF snaps, n, l
<1>10. CASE n # l
  <2> DEFINE S == {closed[w] : w \in 1 .. data}
             T == S \cup {open}
  <2>1. snaps = closed \o <<open>>
    BY <1>3, <1>4, <1>5, <1>10 DEF open
  <2>2. closed \in Seq(T) /\ open \in T
    <3>1. S \subseteq T /\ open \in T
      OBVIOUS
    <3>2. closed \in Seq(S)
      BY <1>8
    <3> HIDE DEF S, T
    <3>3. QED
      BY <3>1, <3>2, SeqMonotonic
  <2> HIDE DEF T
  <2>3. snaps = Append(closed, open)
    BY <2>1, <2>2, AppendIsConcat
  <2>4. snaps = [w \in 1 .. data + 1 |-> IF w = data + 1 THEN open ELSE closed[w]]
    BY <1>8, <2>3
  <2>5. Len(snaps) = data + 1
    BY <1>8, <2>2, <2>3, AppendProperties
  <2>6. \A w \in 1 .. data : w \in 1 .. data + 1 /\ w # data + 1
    BY <1>2
  <2>7. data + 1 \in 1 .. data + 1 /\ data + 1 \in Nat
    BY <1>2
  <2>8. DOMAIN snaps = 1 .. data + 1 /\ snaps[data + 1] = open
        /\ \A w \in 1 .. data : snaps[w] = Recorded(log[w])
    BY <1>7, <2>4, <2>6, <2>7
  <2>9. QED
    BY <1>10, <2>5, <2>7, <2>8 DEF snaps, n, l, open
<1>11. QED
  BY <1>9, <1>10

LEMMA StitchedIsTold ==
    ASSUME EdgeInv, WholeRecord, NoHole, StitchLive.snaps # <<>>
    PROVE  LET n == Cardinality(OnScreen)
               m == Len(StitchLive.snaps)
           IN  IsTold(StitchLive, n, m, TextsUpTo(n), EndsOf(n, m))
<1> DEFINE d == StitchLive
           n == Cardinality(OnScreen)
           l == LastOf(data)
           m == Len(d.snaps)
           X == TextsUpTo(n)
           E == EndsOf(n, m)
<1>1. /\ n \in Nat /\ l \in Nat /\ l <= n /\ n <= Len(typed)
  BY TailContinues
<1>2. /\ m \in Nat /\ m = (IF n = l THEN data ELSE data + 1) /\ DOMAIN d.snaps = 1 .. m
      /\ \A w \in 1 .. data : d.snaps[w] = Recorded(log[w])
      /\ m # data => d.snaps[m] = OpenWindow(n - l)
  BY StitchedWindows
<1>3. d.events = [k \in 1 .. n |-> Event(k)]
  BY StitchedEvents
<1>4. /\ data \in Nat /\ LastOf(0) = 0
      /\ \A w \in 0 .. data : LastOf(w) \in Nat
      /\ \A w \in 1 .. data : /\ log[w].first = LastOf(w - 1) + 1 /\ log[w].last = LastOf(w)
                              /\ LastOf(w - 1) < LastOf(w)
  BY WindowsMeet
<1>5. m # 0
  <2>1. m = 0 => d.snaps = <<>>
    <3>1. d.snaps = [w \in 1 .. data |-> Recorded(log[w])]
                      \o (IF LiveTail = <<>> THEN <<>> ELSE <<OpenWindow(Len(LiveTail))>>)
      BY DEF StitchLive
    <3>2. m = 0 => data = 0 /\ n = l
      BY <1>2, <1>4
    <3>3. n = l => LiveTail = <<>>
      <4>1. LiveTail = [i \in 1 .. n - l |-> l + i]
        BY TailContinues
      <4> HIDE DEF n, l
      <4>2. QED
        BY <1>1, <4>1
    <3>4. data = 0 => [w \in 1 .. data |-> Recorded(log[w])] = <<>>
      OBVIOUS
    <3>5. <<>> \o <<>> = <<>>
      OBVIOUS
    <3> HIDE DEF m, n, l
    <3>6. QED
      BY <3>1, <3>2, <3>3, <3>4, <3>5
  <2>2. QED
    BY <2>1
<1> HIDE DEF d, n, l, m
<1>6. \A w \in 0 .. m : E[w] = IF w <= data THEN LastOf(w) ELSE n
  BY DEF EndsOf
<1>7. \A k \in 0 .. n : X[k] = Text(k)
  BY DEF TextsUpTo
<1> HIDE DEF X, E
<1>8. n # 0
  <2>1. CASE data = 0
    <3>1. l = 0
      BY <1>4, <2>1 DEF l
    <3>2. n # l
      BY <1>2, <1>5, <2>1
    <3>3. QED
      BY <3>1, <3>2
  <2>2. CASE data # 0
    <3>1. data \in 1 .. data /\ data - 1 \in 0 .. data
      BY <1>4, <2>2
    <3>2. LastOf(data - 1) < l /\ LastOf(data - 1) \in Nat
      BY <1>4, <3>1 DEF l
    <3>3. QED
      BY <1>1, <3>2
  <2>3. QED
    BY <2>1, <2>2
<1>9. Len(d.events) = n /\ DOMAIN d.events = 1 .. n
  <2>1. d.events = [k \in 1 .. n |-> d.events[k]] /\ DOMAIN d.events = 1 .. n
    BY <1>3
  <2>2. QED
    BY <1>1, <2>1, Tabulated
<1>10. X[0] = <<>>
  <2>1. 0 \in 0 .. n
    BY <1>1
  <2>2. QED
    BY <1>7, <2>1 DEF Text
<1>11. ASSUME NEW k \in 1 .. n
       PROVE  /\ d.events[k].task = "task1" /\ d.events[k].file = "main.cpp"
              /\ ApplyChanges(X[k - 1], d.events[k].changes) = X[k]
  <2>1. d.events[k] = Event(k)
    BY <1>3
  <2>2. k \in 1 .. Len(typed) /\ k \in 0 .. n /\ k - 1 \in 0 .. n
    <3>1. Len(typed) \in Nat
      BY LenProperties DEF EdgeInv, TypedInv
    <3>2. QED
      BY <1>1, <3>1
  <2>3. ApplyChanges(Text(k - 1), typed[k].changes) = Text(k)
    BY <2>2 DEF EdgeInv, TypedInv
  <2>4. X[k] = Text(k) /\ X[k - 1] = Text(k - 1)
    BY <1>7, <2>2
  <2>5. QED
    BY <2>1, <2>3, <2>4 DEF Event
<1>12. E[0] = 0
  <2>1. 0 \in 0 .. m /\ 0 <= data
    BY <1>2, <1>4
  <2>2. QED
    BY <1>4, <1>6, <2>1
<1>13. E[m] = n
  <2>1. m \in 0 .. m
    BY <1>2
  <2>2. CASE n = l
    <3>1. m = data /\ m <= data
      BY <1>2, <1>4, <2>2
    <3>2. QED
      BY <1>6, <2>1, <2>2, <3>1 DEF l
  <2>3. CASE n # l
    <3>1. ~(m <= data)
      BY <1>2, <1>4, <2>3
    <3>2. QED
      BY <1>6, <2>1, <3>1
  <2>4. QED
    BY <2>2, <2>3
<1>14. ASSUME NEW w \in 1 .. m
       PROVE  /\ E[w - 1] \in Nat /\ E[w] \in Nat
              /\ E[w - 1] <= E[w] /\ E[w] <= n
              /\ d.snaps[w].count = E[w] - E[w - 1]
              /\ SnapTells(d.snaps[w], X[E[w]])
  <2>1. w \in 0 .. m /\ w - 1 \in 0 .. m /\ w \in Nat
    BY <1>2
  <2>2. CASE w \in 1 .. data
    <3>1. w <= data /\ w - 1 <= data /\ w \in 0 .. data /\ w - 1 \in 0 .. data
      BY <1>4, <2>2
    <3>2. E[w] = LastOf(w) /\ E[w - 1] = LastOf(w - 1)
      BY <1>6, <2>1, <3>1
    <3>3. /\ LastOf(w) \in Nat /\ LastOf(w - 1) \in Nat /\ LastOf(w - 1) < LastOf(w)
          /\ log[w].first = LastOf(w - 1) + 1 /\ log[w].last = LastOf(w)
      BY <1>4, <2>2, <3>1
    <3>4. LastOf(w) <= l
      BY <2>2, EndsRise DEF l
    <3>5. d.snaps[w] = Recorded(log[w])
      BY <1>2, <2>2
    <3>6. d.snaps[w].count = LastOf(w) - LastOf(w - 1)
      BY <3>3, <3>5 DEF Recorded
    <3>7. LastOf(w) \in 0 .. n
      BY <1>1, <3>3, <3>4
    <3>8. X[E[w]] = Text(log[w].last)
      BY <1>7, <3>2, <3>3, <3>7
    <3>9. SnapTells(d.snaps[w], X[E[w]])
      BY <3>5, <3>8 DEF SnapTells, Recorded
    <3>10. QED
      BY <3>2, <3>3, <3>6, <3>7, <3>9
  <2>3. CASE w \notin 1 .. data
    <3>1. w = m /\ m # data /\ m = data + 1 /\ w - 1 = data /\ data <= data /\ ~(w <= data)
      BY <1>2, <1>4, <2>1, <2>3
    <3>2. E[w] = n /\ E[w - 1] = l
      BY <1>6, <2>1, <3>1 DEF l
    <3>3. d.snaps[w] = OpenWindow(n - l)
      BY <1>2, <3>1
    <3>4. d.snaps[w].count = n - l /\ SnapTells(d.snaps[w], X[E[w]])
      BY <3>3 DEF OpenWindow, SnapTells
    <3>5. QED
      BY <1>1, <3>2, <3>4
  <2>4. QED
    BY <2>2, <2>3
<1>15. IsTold(d, n, m, X, E)
  <2>1. n \in Nat \ {0} /\ m \in Nat \ {0}
    BY <1>1, <1>2, <1>5, <1>8
  <2>2. Len(d.snaps) = m /\ DOMAIN d.snaps = 1 .. m
    BY <1>2 DEF m
  <2>3. QED
    BY <1>9, <1>10, <1>11, <1>12, <1>13, <1>14, <2>1, <2>2 DEF IsTold
<1>16. QED
  BY <1>15 DEF d, n, m, X, E

LEMMA EdgeIsTrueNow ==
    ASSUME EdgeInv
    PROVE  EdgeIsTrue
<1> SUFFICES ASSUME WholeRecord, NoHole
             PROVE  /\ Shown = Text(Cardinality(OnScreen))
                    /\ \A k \in OnScreen : FrameTexts(StitchLive)[k] = Text(k)
  BY DEF EdgeIsTrue
<1> DEFINE n == Cardinality(OnScreen)
           m == Len(StitchLive.snaps)
<1>1. n \in Nat /\ OnScreen = 1 .. n
  BY TailContinues
<1>2. CASE StitchLive.snaps = <<>>
  <2>1. n = 0
    <3>1. Len(StitchLive.snaps) = 0
      BY <1>2, EmptySeq
    <3>2. Len(StitchLive.snaps) = (IF n = LastOf(data) THEN data ELSE data + 1)
      BY StitchedWindows
    <3>3. data \in Nat /\ LastOf(0) = 0
      BY WindowsMeet
    <3> HIDE DEF n
    <3>4. QED
      BY <3>1, <3>2, <3>3
  <2>2. Shown = <<>>
    BY <1>2 DEF Shown
  <2> HIDE DEF n
  <2>3. OnScreen = {} /\ Text(n) = <<>>
    BY <1>1, <2>1 DEF Text
  <2>4. QED
    BY <2>2, <2>3 DEF n
<1>3. CASE StitchLive.snaps # <<>>
  <2>1. IsTold(StitchLive, n, m, TextsUpTo(n), EndsOf(n, m))
    BY <1>3, StitchedIsTold
  <2>2. Shown = FinalFiles(StitchLive)[Main]
    BY <1>3 DEF Shown, Main
  <2> HIDE DEF n, m
  <2>3. /\ FinalFiles(StitchLive)[Main] = TextsUpTo(n)[n]
        /\ \A i \in 1 .. n : FrameTexts(StitchLive)[i] = TextsUpTo(n)[i]
    BY <2>1, ToldIsShown
  <2>4. n \in 0 .. n /\ \A i \in 1 .. n : i \in 0 .. n
    BY <1>1
  <2>5. \A i \in 0 .. n : TextsUpTo(n)[i] = Text(i)
    BY DEF TextsUpTo
  <2>6. Shown = Text(n) /\ \A i \in 1 .. n : FrameTexts(StitchLive)[i] = Text(i)
    BY <2>2, <2>3, <2>4, <2>5
  <2>7. QED
    BY <1>1, <2>6 DEF n
<1>4. QED
  BY <1>2, <1>3

\* Whatever is lost, repeated or overtaken, and however often either side
\* reconnects: if the player received a record and a tail without a hole, what
\* it shows and every moment it scrubs back to is a text the student had
\* (stitchLive, dedupeLiveEvents and the replay of DvrPlayer.jsx).
THEOREM EdgeTrue == Spec => []EdgeIsTrue
<1>1. Init => EdgeInv
  BY EdgeInit
<1>2. EdgeInv /\ [Next]_vars => EdgeInv'
  BY EdgeStep
<1>3. EdgeInv => EdgeIsTrue
  BY EdgeIsTrueNow
<1>4. QED
  BY <1>1, <1>2, <1>3, PTL DEF Spec

=============================================================================
