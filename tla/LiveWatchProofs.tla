-------------------------- MODULE LiveWatchProofs --------------------------
(***************************************************************************)
(* Proofs of SignalAgrees and SubscribedIsWatching for any number of       *)
(* players, sockets, mounts, flushes, faults and restarts.                 *)
(*                                                                         *)
(* SignalAgrees is not inductive: the registry's two maps must agree,      *)
(* because a disconnect finds the session through one and judges it by the *)
(* other; the page must be disarmed once the row is flipped, because       *)
(* announceSessionEnd sends live:stop whoever is registered; and a page    *)
(* outside the room must have heard everything and start over when it      *)
(* connects, because session:join tells it to start and never to stop.     *)
(*                                                                         *)
(* SubscribedIsWatching says something only of a quiet player.  WatchInv   *)
(* says what is true of every subscribed player that has a socket: what it *)
(* said last is its own watch:start, or, once all it said was heard, it is *)
(* registered, or its watch:start awaits the ownership query, or hearing   *)
(* what is on its way to it leaves it refused.                             *)
(*                                                                         *)
(* The last part proves the registry: its two maps agree, its signal is    *)
(* right, and it implements WatchRelation, by itself and inside the relay. *)
(***************************************************************************)
EXTENDS LiveWatch, SequenceTheorems, TLAPS

SignalTypes ==
    /\ toStudent \in Seq(Signal)
    /\ {joined, watched, stopped} \subseteq BOOLEAN
    /\ RegistryTypeOK

DisarmedBeforeEnd == session # "open" => stopped
JoinedIsLinked == joined => link
OutsideIsQuiet == ~joined => toStudent = <<>> /\ (link /\ ~stopped => ~watched)

SignalInv ==
    /\ SignalTypes /\ MapsAgree
    /\ DisarmedBeforeEnd /\ JoinedIsLinked /\ OutsideIsQuiet /\ SignalAgrees

signalVars ==
    <<link, joined, watched, stopped, toStudent, session, bySession, bySocket, streaming>>

-----------------------------------------------------------------------------
(* What a queue will have said last.                                       *)

Ending(q, b) == IF q # <<>> THEN q[Len(q)] = "start" ELSE b

LEMMA EndingAppend ==
    ASSUME NEW q \in Seq(Signal), NEW s \in Signal, NEW b
    PROVE  Append(q, s) \in Seq(Signal) /\ (Ending(Append(q, s), b) <=> s = "start")
  BY AppendProperties DEF Ending

LEMMA EndingTail ==
    ASSUME NEW q \in Seq(Signal), q # <<>>, NEW a \in BOOLEAN, NEW b \in BOOLEAN,
           a <=> Head(q) = "start"
    PROVE  Tail(q) \in Seq(Signal) /\ (Ending(Tail(q), a) <=> Ending(q, b))
<1>1. /\ Tail(q) \in Seq(Signal) /\ Len(Tail(q)) = Len(q) - 1
      /\ \A i \in 1..Len(Tail(q)) : Tail(q)[i] = q[i + 1]
      /\ Head(q) = q[1] /\ Len(q) \in Nat \ {0}
  BY HeadTailProperties, EmptySeq
<1>2. CASE Tail(q) = <<>>
  <2>0. Len(Tail(q)) = 0
    BY <1>2, EmptySeq
  <2>1. Len(q) = Len(Tail(q)) + 1
    BY <1>1
  <2>2. Len(q) = 1
    BY <2>0, <2>1
  <2>3. QED
    BY <1>1, <1>2, <2>2 DEF Ending
<1>3. CASE Tail(q) # <<>>
  <2>1. Len(Tail(q)) \in 1..Len(Tail(q)) /\ Len(Tail(q)) + 1 = Len(q)
    BY <1>1, <1>3, EmptySeq
  <2>2. Tail(q)[Len(Tail(q))] = q[Len(q)]
    BY <1>1, <2>1
  <2>3. QED
    BY <1>1, <1>3, <2>2 DEF Ending
<1>4. QED
  BY <1>2, <1>3

LEMMA SignalIsEnding == LastSignal = Ending(toStudent, watched)
  BY DEF LastSignal, Ending

-----------------------------------------------------------------------------
(* What the three registry operations do to the one session.               *)

LEMMA AddOne ==
    ASSUME NEW c \in Socket, RegistryTypeOK, MapsAgree, Add(Exam, c)
    PROVE  RegistryTypeOK' /\ MapsAgree' /\ Watchers' = Watchers \cup {c}
  BY ExamAssumption DEF RegistryTypeOK, MapsAgree, Add, Watchers

LEMMA RemoveOne ==
    ASSUME NEW c \in Socket, RegistryTypeOK, MapsAgree, Remove(Exam, c)
    PROVE  RegistryTypeOK' /\ MapsAgree' /\ Watchers' = Watchers \ {c}
  BY ExamAssumption DEF RegistryTypeOK, MapsAgree, Remove, Watchers

LEMMA RemoveSocketOne ==
    ASSUME NEW c \in Socket, RegistryTypeOK, MapsAgree, RemoveSocket(c)
    PROVE  RegistryTypeOK' /\ MapsAgree' /\ Watchers' = Watchers \ {c}
  BY ExamAssumption DEF RegistryTypeOK, MapsAgree, RemoveSocket, OrphanedBy,
         LastWatcher, Watchers

\* The stop is sent exactly when the watchers there were are gone.
LEMMA OrphanIsLast ==
    ASSUME NEW c \in Socket, RegistryTypeOK, MapsAgree
    PROVE  Exam \in OrphanedBy(c) <=> Watchers = {c}
  BY ExamAssumption DEF RegistryTypeOK, MapsAgree, OrphanedBy, LastWatcher, Watchers

-----------------------------------------------------------------------------
(* Steps, by what they do to the signal.                                   *)

LEMMA Undisturbed == SignalInv /\ UNCHANGED signalVars => SignalInv'
  BY DEF SignalInv, signalVars, SignalTypes, DisarmedBeforeEnd, JoinedIsLinked, OutsideIsQuiet,
         SignalAgrees, LastSignal, Watchers, RegistryTypeOK, MapsAgree

\* Nobody in the room, or a page that disarmed: there is nothing to agree on.
LEMMA NothingToAgree ==
    ASSUME SignalInv, SignalTypes', MapsAgree', DisarmedBeforeEnd', JoinedIsLinked',
           OutsideIsQuiet', ~joined' \/ stopped'
    PROVE  SignalInv'
  BY DEF SignalInv, SignalAgrees

\* A step of the server that tells the room what the registry now says.
LEMMA Told ==
    ASSUME SignalInv, NEW s \in Signal, Tell(s), UNCHANGED <<link, joined, watched, stopped>>,
           session' = session \/ stopped, RegistryTypeOK', MapsAgree',
           stopped \/ (s = "start" <=> Watchers' # {})
    PROVE  SignalInv'
<1>1. SignalTypes' /\ DisarmedBeforeEnd' /\ JoinedIsLinked' /\ OutsideIsQuiet'
  <2>1. toStudent' \in Seq(Signal)
    BY EndingAppend, AppendProperties DEF SignalInv, SignalTypes, Tell
  <2>2. OutsideIsQuiet'
    BY DEF SignalInv, OutsideIsQuiet, Tell
  <2>3. QED
    BY <2>1, <2>2 DEF SignalInv, SignalTypes, DisarmedBeforeEnd, JoinedIsLinked
<1>2. SignalAgrees'
  <2> SUFFICES ASSUME joined', ~stopped' PROVE LastSignal' <=> Watchers' # {}
    BY DEF SignalAgrees
  <2>1. toStudent' = Append(toStudent, s) /\ toStudent \in Seq(Signal)
    BY DEF Tell, SignalInv, SignalTypes
  <2>2. Ending(toStudent', watched') <=> s = "start"
    BY <2>1, EndingAppend
  <2>3. LastSignal' = Ending(toStudent', watched')
    BY DEF LastSignal, Ending
  <2>4. QED
    BY <2>2, <2>3
<1>3. QED
  BY <1>1, <1>2 DEF SignalInv

\* A step that changes who watches, but not whether anybody does.
LEMMA NotTold ==
    ASSUME SignalInv, UNCHANGED <<link, joined, watched, stopped, session, toStudent>>,
           RegistryTypeOK', MapsAgree', Watchers' # {} <=> Watchers # {}
    PROVE  SignalInv'
  BY DEF SignalInv, SignalTypes, DisarmedBeforeEnd, JoinedIsLinked, OutsideIsQuiet,
         SignalAgrees, LastSignal

\* A step that takes one watcher out, and tells the room if it was the last.
LEMMA ToldIfLast ==
    ASSUME SignalInv, NEW c \in Socket, UNCHANGED <<link, joined, watched, stopped, session>>,
           RegistryTypeOK', MapsAgree', Watchers' = Watchers \ {c},
           IF Watchers = {c} THEN Tell("stop") ELSE UNCHANGED toStudent
    PROVE  SignalInv'
<1>1. CASE Watchers = {c}
  <2>1. Watchers' = {} /\ Tell("stop")
    BY <1>1
  <2>2. QED
    BY <2>1, Told DEF Signal
<1>2. CASE Watchers # {c}
  BY <1>2, NotTold
<1>3. QED
  BY <1>1, <1>2

-----------------------------------------------------------------------------
(* The student's page.                                                     *)

\* The next signal is heard: what will have been said last stays the same.
LEMMA Heard ==
    ASSUME SignalInv, toStudent # <<>>, toStudent' = Tail(toStudent),
           UNCHANGED <<link, joined, stopped, session, bySession, bySocket, streaming>>,
           watched' \in BOOLEAN, stopped \/ (watched' <=> Head(toStudent) = "start")
    PROVE  SignalInv'
<1>1. toStudent \in Seq(Signal) /\ watched \in BOOLEAN
  BY DEF SignalInv, SignalTypes
<1>2. toStudent' \in Seq(Signal)
  BY <1>1, HeadTailProperties, EmptySeq
<1>3. /\ SignalTypes' /\ MapsAgree'
      /\ DisarmedBeforeEnd' /\ JoinedIsLinked' /\ OutsideIsQuiet'
  BY <1>2 DEF SignalInv, SignalTypes, DisarmedBeforeEnd, JoinedIsLinked, OutsideIsQuiet,
              RegistryTypeOK, MapsAgree
<1>4. SignalAgrees'
  <2> SUFFICES ASSUME joined, ~stopped PROVE LastSignal' <=> Watchers # {}
    BY DEF SignalAgrees, Watchers
  <2>1. Ending(Tail(toStudent), watched') <=> Ending(toStudent, watched)
    BY <1>1, EndingTail
  <2>2. LastSignal' = Ending(Tail(toStudent), watched')
    BY DEF LastSignal, Ending
  <2>3. LastSignal <=> Watchers # {}
    BY DEF SignalInv, SignalAgrees
  <2>4. QED
    BY <2>1, <2>2, <2>3, SignalIsEnding
<1>5. QED
  BY <1>3, <1>4 DEF SignalInv

LEMMA PageStep == SignalInv /\ StudentStep => SignalInv'
<1> SUFFICES ASSUME SignalInv PROVE StudentStep => SignalInv'
  OBVIOUS
<1>1. HearStart => SignalInv'
  <2> SUFFICES ASSUME HearStart PROVE SignalInv'
    OBVIOUS
  <2>1. watched' \in BOOLEAN /\ (stopped \/ watched' = TRUE)
    BY DEF HearStart, SignalInv, SignalTypes
  <2>2. QED
    BY <2>1, Heard DEF HearStart, regVars
<1>2. HearStop => SignalInv'
  BY Heard DEF HearStop, regVars
<1>3. SyncSucceeds \/ SyncFails \/ RetryFires => SignalInv'
  BY Undisturbed DEF SyncSucceeds, SyncFails, RetryFires, signalVars, regVars
<1>4. Disarm \/ StudentDrops \/ StudentReloads => SignalInv'
  <2> SUFFICES ASSUME Disarm \/ StudentDrops \/ StudentReloads PROVE SignalInv'
    OBVIOUS
  <2>1. /\ toStudent' \in {toStudent, <<>>} /\ {joined', watched', stopped'} \subseteq BOOLEAN
        /\ UNCHANGED <<session, bySession, bySocket, streaming>>
    BY DEF SignalInv, SignalTypes, Disarm, StudentDrops, StudentReloads, pageVars, regVars
  <2>2. SignalTypes' /\ MapsAgree'
    <3>1. toStudent' \in Seq(Signal)
      BY <2>1, EmptySeq DEF SignalInv, SignalTypes
    <3>2. RegistryTypeOK' /\ MapsAgree'
      BY <2>1 DEF SignalInv, SignalTypes, RegistryTypeOK, MapsAgree
    <3>3. QED
      BY <2>1, <3>1, <3>2 DEF SignalTypes
  <2>3. DisarmedBeforeEnd' /\ JoinedIsLinked'
    <3>1. CASE Disarm
      BY <3>1 DEF SignalInv, DisarmedBeforeEnd, JoinedIsLinked, Disarm
    <3>2. CASE StudentDrops
      BY <3>2 DEF SignalInv, DisarmedBeforeEnd, JoinedIsLinked, StudentDrops, pageVars
    <3>3. CASE StudentReloads
      <4>1. session' = session /\ joined' = FALSE /\ stopped' = (session # "open")
        BY <3>3 DEF StudentReloads
      <4>2. QED
        BY <4>1 DEF DisarmedBeforeEnd, JoinedIsLinked
    <3>4. QED
      BY <3>1, <3>2, <3>3
  <2>4. OutsideIsQuiet' /\ (~joined' \/ stopped')
    BY DEF SignalInv, OutsideIsQuiet, Disarm, StudentDrops, StudentReloads
  <2>5. QED
    BY <2>2, <2>3, <2>4, NothingToAgree
<1>5. StudentConnects => SignalInv'
  <2> SUFFICES ASSUME StudentConnects PROVE SignalInv'
    OBVIOUS
  <2>1. /\ UNCHANGED <<joined, stopped, toStudent, session, bySession, bySocket, streaming>>
        /\ watched' \in BOOLEAN /\ link' = TRUE
    BY DEF SignalInv, SignalTypes, StudentConnects, regVars
  <2>2. SignalTypes' /\ MapsAgree' /\ DisarmedBeforeEnd' /\ JoinedIsLinked'
    BY <2>1 DEF SignalInv, SignalTypes, DisarmedBeforeEnd, JoinedIsLinked, RegistryTypeOK,
                MapsAgree
  <2>3. ~joined' /\ OutsideIsQuiet'
    BY <2>1 DEF SignalInv, JoinedIsLinked, OutsideIsQuiet, StudentConnects
  <2>4. QED
    BY <2>2, <2>3, NothingToAgree
<1>6. QED
  BY <1>1, <1>2, <1>3, <1>4, <1>5 DEF StudentStep

-----------------------------------------------------------------------------
(* The server.                                                             *)

LEMMA JoinStep == SignalInv /\ ServerJoin => SignalInv'
<1> SUFFICES ASSUME SignalInv, ServerJoin PROVE SignalInv'
  OBVIOUS
<1>1. /\ UNCHANGED <<link, watched, stopped, session, bySession, bySocket, streaming>>
      /\ link /\ joined' = TRUE
      /\ toStudent' = IF Watchers # {} THEN Append(toStudent, "start") ELSE toStudent
  BY DEF ServerJoin, Join, FromStudent, pageVars, regVars
<1>2. /\ RegistryTypeOK' /\ MapsAgree' /\ Watchers' = Watchers
      /\ DisarmedBeforeEnd' /\ JoinedIsLinked' /\ OutsideIsQuiet'
  BY <1>1 DEF SignalInv, SignalTypes, RegistryTypeOK, MapsAgree, DisarmedBeforeEnd,
              JoinedIsLinked, OutsideIsQuiet, Watchers
<1>3. toStudent \in Seq(Signal)
  BY DEF SignalInv, SignalTypes
<1>4. toStudent' \in Seq(Signal)
  BY <1>1, <1>3, EndingAppend DEF Signal
<1>5. SignalTypes'
  BY <1>1, <1>2, <1>4 DEF SignalInv, SignalTypes
<1>6. SignalAgrees'
  <2> SUFFICES ASSUME ~stopped PROVE LastSignal' <=> Watchers # {}
    BY <1>1, <1>2 DEF SignalAgrees
  <2>1. CASE Watchers # {}
    <3>1. Ending(toStudent', watched)
      BY <1>1, <1>3, <2>1, EndingAppend DEF Signal
    <3>2. QED
      BY <1>1, <2>1, <3>1 DEF LastSignal, Ending
  <2>2. CASE Watchers = {}
    <3>1. toStudent' = toStudent /\ LastSignal' = LastSignal
      BY <1>1, <2>2 DEF LastSignal
    <3>2. CASE joined
      BY <3>1, <3>2 DEF SignalInv, SignalAgrees
    <3>3. CASE ~joined
      BY <1>1, <2>2, <3>1, <3>3 DEF SignalInv, OutsideIsQuiet, LastSignal
    <3>4. QED
      BY <3>2, <3>3
  <2>3. QED
    BY <2>1, <2>2
<1>7. QED
  BY <1>2, <1>5, <1>6 DEF SignalInv

LEMMA ServerStep ==
    ASSUME SignalInv, NEW c \in Socket, SocketStep(c) PROVE SignalInv'
<1>1. ServerWatch(c) => SignalInv'
  BY Undisturbed DEF ServerWatch, signalVars, studentVars, pageVars, regVars
<1>2. ASSUME NEW m \in Mount, Grant(c, m) PROVE SignalInv'
  <2>1. /\ RegistryTypeOK' /\ MapsAgree' /\ Watchers' = Watchers \cup {c}
        /\ UNCHANGED <<link, joined, watched, stopped, session>>
    BY <1>2, AddOne DEF Grant, SignalInv, SignalTypes, pageVars
  <2>2. CASE Watchers = {}
    <3>1. Tell("start")
      BY <1>2, <2>2 DEF Grant, FirstWatcher, IsWatched, Watchers
    <3>2. QED
      BY <2>1, <3>1, Told DEF Signal
  <2>3. CASE Watchers # {}
    <3>1. UNCHANGED toStudent
      BY <1>2, <2>3 DEF Grant, FirstWatcher, IsWatched, Watchers
    <3>2. QED
      BY <2>1, <2>3, <3>1, NotTold
  <2>4. QED
    BY <2>2, <2>3
<1>3. ASSUME NEW m \in Mount, Deny(c, m) PROVE SignalInv'
  BY <1>3, Undisturbed DEF Deny, signalVars, studentVars, pageVars, regVars
<1>4. ServerUnwatch(c) => SignalInv'
  <2> SUFFICES ASSUME ServerUnwatch(c) PROVE SignalInv'
    OBVIOUS
  <2>1. /\ RegistryTypeOK' /\ MapsAgree' /\ Watchers' = Watchers \ {c}
        /\ UNCHANGED <<link, joined, watched, stopped, session>>
    BY RemoveOne DEF ServerUnwatch, SignalInv, SignalTypes, pageVars
  <2>2. IF Watchers = {c} THEN Tell("stop") ELSE UNCHANGED toStudent
    BY DEF ServerUnwatch, StopIfLast, LastWatcher, Watchers
  <2>3. QED
    BY <2>1, <2>2, ToldIfLast
<1>5. ServerDisconnect(c) => SignalInv'
  <2> SUFFICES ASSUME ServerDisconnect(c) PROVE SignalInv'
    OBVIOUS
  <2>1. /\ RegistryTypeOK' /\ MapsAgree' /\ Watchers' = Watchers \ {c}
        /\ UNCHANGED <<link, joined, watched, stopped, session>>
    BY RemoveSocketOne DEF ServerDisconnect, DropSocket, SignalInv, SignalTypes, pageVars
  <2>2. IF Watchers = {c} THEN Tell("stop") ELSE UNCHANGED toStudent
    BY OrphanIsLast DEF ServerDisconnect, DropSocket, SignalInv, SignalTypes
  <2>3. QED
    BY <2>1, <2>2, ToldIfLast
<1>6. QED
  BY <1>1, <1>2, <1>3, <1>4, <1>5 DEF SocketStep

LEMMA OtherServerStep ==
    ASSUME SignalInv,
           \/ ServerSynced \/ AnnounceFlush \/ Flip
           \/ AnnounceEnd \/ EndUnannounced \/ ServerRestart
    PROVE  SignalInv'
<1>1. ServerSynced \/ AnnounceFlush => SignalInv'
  BY Undisturbed DEF ServerSynced, FromStudent, AnnounceFlush, signalVars, studentVars, pageVars,
                     regVars
<1>2. Flip \/ EndUnannounced => SignalInv'
  <2> SUFFICES ASSUME Flip \/ EndUnannounced PROVE SignalInv'
    OBVIOUS
  <2>1. stopped' /\ UNCHANGED <<link, joined, watched, stopped, toStudent, bySession, bySocket,
                                streaming>>
    BY DEF Flip, EndUnannounced, SignalInv, DisarmedBeforeEnd, studentVars, pageVars, regVars
  <2>2. QED
    BY <2>1, NothingToAgree DEF SignalInv, SignalTypes, DisarmedBeforeEnd, JoinedIsLinked,
                                OutsideIsQuiet, RegistryTypeOK, MapsAgree
<1>3. AnnounceEnd => SignalInv'
  <2> SUFFICES ASSUME AnnounceEnd PROVE SignalInv'
    OBVIOUS
  <2>1. stopped /\ Tell("stop")
        /\ UNCHANGED <<link, joined, watched, stopped, bySession, bySocket, streaming>>
    BY DEF AnnounceEnd, EndForAll, SignalInv, DisarmedBeforeEnd, pageVars, regVars
  <2>2. RegistryTypeOK' /\ MapsAgree'
    BY <2>1 DEF SignalInv, SignalTypes, RegistryTypeOK, MapsAgree
  <2>3. QED
    BY <2>1, <2>2, Told DEF Signal
<1>4. ServerRestart => SignalInv'
  <2> SUFFICES ASSUME ServerRestart PROVE SignalInv'
    OBVIOUS
  <2>1. RegistryTypeOK' /\ MapsAgree'
    BY DEF ServerRestart, RegistryTypeOK, MapsAgree
  <2>2. /\ UNCHANGED <<watched, stopped>> /\ toStudent' = <<>> /\ ~joined' /\ joined' = FALSE
        /\ session' # "open" => session # "open"
        /\ link' = FALSE
    BY DEF ServerRestart, pageVars
  <2>3. SignalTypes' /\ DisarmedBeforeEnd' /\ JoinedIsLinked' /\ OutsideIsQuiet'
    BY <2>1, <2>2, EmptySeq DEF SignalInv, SignalTypes, DisarmedBeforeEnd, JoinedIsLinked,
                                OutsideIsQuiet
  <2>4. QED
    BY <2>1, <2>2, <2>3, NothingToAgree
<1>5. QED
  BY <1>1, <1>2, <1>3, <1>4

LEMMA PlayerStep == ASSUME SignalInv, NEW d \in Dvr, DvrStep(d) PROVE SignalInv'
<1>1. UNCHANGED <<studentVars, session, regVars>>
  BY DEF DvrStep, Open, Close, ServeReplay, ReplayFails, Subscribe, Unsubscribe, Reconcile,
         Answered, HearVerdict, HearBroadcast, DvrDrops, DvrConnects
<1>2. QED
  BY <1>1, Undisturbed DEF signalVars, studentVars, pageVars, regVars

-----------------------------------------------------------------------------
LEMMA SignalInit == Init => SignalInv
<1> SUFFICES ASSUME Init PROVE SignalInv
  OBVIOUS
<1>1. RegistryTypeOK /\ MapsAgree
  BY DEF Init, RegistryInit, RegistryTypeOK, MapsAgree
<1>2. toStudent = <<>> /\ session = "open" /\ joined = FALSE /\ watched = FALSE /\ stopped = FALSE
  BY DEF Init
<1>3. toStudent \in Seq(Signal)
  BY <1>2, EmptySeq
<1>4. QED
  BY <1>1, <1>2, <1>3 DEF SignalInv, SignalTypes, DisarmedBeforeEnd, JoinedIsLinked,
     OutsideIsQuiet, SignalAgrees

LEMMA SignalStep == SignalInv /\ [Next]_vars => SignalInv'
<1> SUFFICES ASSUME SignalInv, [Next]_vars PROVE SignalInv'
  OBVIOUS
<1>1. CASE UNCHANGED vars
  BY <1>1, Undisturbed DEF vars, signalVars, studentVars, pageVars, regVars
<1>2. CASE Next
  BY <1>2, PageStep, JoinStep, ServerStep, OtherServerStep, PlayerStep DEF Next
<1>3. QED
  BY <1>1, <1>2

\* However watchers, drops, reloads, submits and restarts interleave, the student
\* in the room is never left streaming to nobody nor silent before a watcher.
THEOREM SignalKept == Spec => []SignalAgrees
<1>1. SignalInv => SignalAgrees
  BY DEF SignalInv
<1>2. QED
  BY <1>1, SignalInit, SignalStep, PTL DEF Spec

-----------------------------------------------------------------------------
(* A subscribed player is heard, registered or refused.                    *)

Message == Reply \cup Broadcast

PlayerTypes ==
    /\ connected \subseteq Socket
    /\ awaiting \in [Socket -> [Mount -> Nat]]
    /\ toDvr \in [Socket -> Seq(Message)]
    /\ fromDvr \in [Socket -> Seq(Request)]
    /\ sock \in [Dvr -> Socket \cup {None}]
    /\ held \in [Dvr -> Seq(Request)]
    /\ mount \in [Dvr -> Nat]
    /\ view \in [Dvr -> View]
    /\ subscribed \in [Dvr -> BOOLEAN]
    /\ asked \in [Dvr -> Nat]
    /\ answers \in [Dvr -> SUBSET BOOLEAN]

SocketIsConnected == \A d \in Dvr : sock[d] # None => sock[d] \in connected
OwnSocket == \A d, e \in Dvr : sock[d] = sock[e] /\ sock[d] # None => d = e
ClosedIsIdle ==
    \A d \in Dvr : view[d] = "closed" => answers[d] = {} /\ asked[d] = 0 /\ ~subscribed[d]
OpenHasMount == \A d \in Dvr : view[d] # "closed" => mount[d] \in Mount

Watch(m) == [kind |-> "watch", mount |-> m]
Denied(m) == [kind |-> "denied", mount |-> m]

\* Messages that leave a refused player refused.
Harmless(r, m) == r.kind \in {"flushed", "denied"} \/ (r.kind = "granted" /\ r.mount # m)

\* Once everything in q is heard, mount m is refused.
EndsDenied(q, denied, m) ==
    \/ denied /\ \A i \in 1..Len(q) : Harmless(q[i], m)
    \/ \E i \in 1..Len(q) : q[i] = Denied(m) /\ \A j \in i+1..Len(q) : Harmless(q[j], m)

Claim(c, m, denied) ==
    IF fromDvr[c] # <<>> THEN fromDvr[c][Len(fromDvr[c])] = Watch(m)
    ELSE c \in Watchers \/ awaiting[c][m] > 0 \/ EndsDenied(toDvr[c], denied, m)

Claims ==
    \A d \in Dvr :
        sock[d] # None /\ subscribed[d] => Claim(sock[d], mount[d], view[d] = "denied")

PlayerShape == PlayerTypes /\ SocketIsConnected /\ OwnSocket /\ ClosedIsIdle /\ OpenHasMount

WatchInv == SignalInv /\ PlayerShape /\ Claims

-----------------------------------------------------------------------------
LEMMA LastAppend ==
    ASSUME NEW S, NEW q \in Seq(S), NEW x \in S
    PROVE  /\ Append(q, x) \in Seq(S) /\ Append(q, x) # <<>>
           /\ Append(q, x)[Len(Append(q, x))] = x
  BY AppendProperties

LEMMA LastTail ==
    ASSUME NEW S, NEW q \in Seq(S), q # <<>>
    PROVE  /\ Tail(q) \in Seq(S)
           /\ IF Tail(q) = <<>> THEN Head(q) = q[Len(q)]
                                ELSE Tail(q)[Len(Tail(q))] = q[Len(q)]
<1>1. /\ Tail(q) \in Seq(S) /\ Len(Tail(q)) = Len(q) - 1
      /\ \A i \in 1..Len(Tail(q)) : Tail(q)[i] = q[i + 1]
      /\ Head(q) = q[1] /\ Len(q) \in Nat \ {0}
  BY HeadTailProperties, EmptySeq
<1>2. CASE Tail(q) = <<>>
  <2>1. Len(Tail(q)) = 0
    BY <1>2, EmptySeq
  <2>2. Len(q) = Len(Tail(q)) + 1
    BY <1>1
  <2>3. Len(q) = 1
    BY <2>1, <2>2
  <2>4. QED
    BY <1>1, <1>2, <2>3
<1>3. CASE Tail(q) # <<>>
  <2>1. Len(Tail(q)) \in 1..Len(Tail(q)) /\ Len(Tail(q)) + 1 = Len(q)
    BY <1>1, <1>3, EmptySeq
  <2>2. QED
    BY <1>1, <1>3, <2>1
<1>4. QED
  BY <1>2, <1>3

LEMMA LastConcat ==
    ASSUME NEW S, NEW q \in Seq(S), NEW x \in S
    PROVE  /\ q \o <<x>> \in Seq(S) /\ q \o <<x>> # <<>>
           /\ (q \o <<x>>)[Len(q \o <<x>>)] = x
<1>1. <<x>> \in Seq(S) /\ Len(<<x>>) = 1 /\ <<x>>[1] = x
  OBVIOUS
<1>2. q \o <<x>> \in Seq(S) /\ Len(q \o <<x>>) = Len(q) + 1
  BY <1>1, ConcatProperties
<1>3. (q \o <<x>>)[Len(q) + 1] = x
  BY <1>1, ConcatProperties
<1>4. QED
  BY <1>2, <1>3, EmptySeq

LEMMA DeniedAppendHarmless ==
    ASSUME NEW q \in Seq(Message), NEW r \in Message, NEW b, NEW m, Harmless(r, m),
           EndsDenied(q, b, m)
    PROVE  EndsDenied(Append(q, r), b, m)
<1>1. /\ Len(q) \in Nat /\ Len(Append(q, r)) = Len(q) + 1
      /\ \A i \in 1..Len(q) : Append(q, r)[i] = q[i]
      /\ Append(q, r)[Len(q) + 1] = r
  BY AppendProperties
<1>2. CASE b /\ \A i \in 1..Len(q) : Harmless(q[i], m)
  <2>1. \A i \in 1..Len(Append(q, r)) : Harmless(Append(q, r)[i], m)
    <3> TAKE i \in 1..Len(Append(q, r))
    <3>1. i \in 1..Len(q) \/ i = Len(q) + 1
      BY <1>1
    <3>2. QED
      BY <1>1, <1>2, <3>1
  <2>2. QED
    BY <1>2, <2>1 DEF EndsDenied
<1>3. ASSUME NEW k \in 1..Len(q), q[k] = Denied(m), \A j \in k+1..Len(q) : Harmless(q[j], m)
      PROVE  EndsDenied(Append(q, r), b, m)
  <2>1. k \in 1..Len(Append(q, r)) /\ Append(q, r)[k] = Denied(m)
    BY <1>1, <1>3
  <2>2. \A j \in k+1..Len(Append(q, r)) : Harmless(Append(q, r)[j], m)
    <3> TAKE j \in k+1..Len(Append(q, r))
    <3>1. j \in k+1..Len(q) \/ j = Len(q) + 1
      BY <1>1
    <3>2. QED
      BY <1>1, <1>3, <3>1
  <2>3. QED
    BY <2>1, <2>2 DEF EndsDenied
<1>4. QED
  BY <1>2, <1>3 DEF EndsDenied

LEMMA DeniedAppendDenied ==
    ASSUME NEW q \in Seq(Message), NEW m \in Mount, NEW b
    PROVE  Denied(m) \in Message /\ EndsDenied(Append(q, Denied(m)), b, m)
<1>0. Denied(m) \in Message
  BY DEF Message, Reply, Denied
<1>1. /\ Len(q) \in Nat /\ Len(Append(q, Denied(m))) = Len(q) + 1
      /\ Append(q, Denied(m))[Len(q) + 1] = Denied(m)
  BY <1>0, AppendProperties
<1>2. Len(q) + 1 \in 1..Len(Append(q, Denied(m)))
      /\ \A j \in (Len(q)+1)+1..Len(Append(q, Denied(m))) : Harmless(Append(q, Denied(m))[j], m)
  BY <1>1
<1>3. QED
  BY <1>0, <1>1, <1>2 DEF EndsDenied

\* The next message is heard: a harmless one changes nothing, the refusal refuses.
LEMMA DeniedTail ==
    ASSUME NEW q \in Seq(Message), q # <<>>, NEW b, NEW b2, NEW m,
           EndsDenied(q, b, m),
           Head(q) = Denied(m) => b2,
           Harmless(Head(q), m) /\ b => b2
    PROVE  EndsDenied(Tail(q), b2, m)
<1>1. /\ Len(Tail(q)) = Len(q) - 1
      /\ \A i \in 1..Len(Tail(q)) : Tail(q)[i] = q[i + 1]
      /\ Head(q) = q[1] /\ Len(q) \in Nat \ {0}
  BY HeadTailProperties, EmptySeq
<1>2. CASE b /\ \A i \in 1..Len(q) : Harmless(q[i], m)
  <2>1. Harmless(Head(q), m)
    BY <1>1, <1>2
  <2>2. \A i \in 1..Len(Tail(q)) : Harmless(Tail(q)[i], m)
    <3> TAKE i \in 1..Len(Tail(q))
    <3>1. i + 1 \in 1..Len(q)
      BY <1>1
    <3>2. QED
      BY <1>1, <1>2, <3>1
  <2>3. QED
    BY <1>2, <2>1, <2>2 DEF EndsDenied
<1>3. ASSUME NEW k \in 1..Len(q), q[k] = Denied(m), \A j \in k+1..Len(q) : Harmless(q[j], m)
      PROVE  EndsDenied(Tail(q), b2, m)
  <2>1. CASE k = 1
    <3>1. b2
      BY <1>1, <1>3, <2>1
    <3>2. \A i \in 1..Len(Tail(q)) : Harmless(Tail(q)[i], m)
      <4> TAKE i \in 1..Len(Tail(q))
      <4>1. i + 1 \in k+1..Len(q)
        BY <1>1, <2>1
      <4>2. QED
        BY <1>1, <1>3, <4>1
    <3>3. QED
      BY <3>1, <3>2 DEF EndsDenied
  <2>2. CASE k # 1
    <3>1. k - 1 \in 1..Len(Tail(q)) /\ (k - 1) + 1 = k
      BY <1>1, <2>2
    <3>2. Tail(q)[k - 1] = Denied(m)
      BY <1>1, <1>3, <3>1
    <3>3. \A j \in (k-1)+1..Len(Tail(q)) : Harmless(Tail(q)[j], m)
      <4> TAKE j \in (k-1)+1..Len(Tail(q))
      <4>1. j \in 1..Len(Tail(q)) /\ j + 1 \in k+1..Len(q)
        BY <1>1, <3>1
      <4>2. QED
        BY <1>1, <1>3, <4>1
    <3>4. QED
      BY <3>1, <3>2, <3>3 DEF EndsDenied
  <2>3. QED
    BY <2>1, <2>2
<1>4. QED
  BY <1>2, <1>3 DEF EndsDenied

-----------------------------------------------------------------------------
(* What steps have in common.                                              *)

playerVars ==
    <<connected, awaiting, toDvr, fromDvr, sock, held, mount, view, subscribed, asked, answers>>

LEMMA ClaimKept ==
    ASSUME NEW c \in Socket, NEW m, NEW b, NEW b2, Claim(c, m, b), b => b2,
           fromDvr'[c] = fromDvr[c], awaiting'[c] = awaiting[c], toDvr'[c] = toDvr[c],
           c \in Watchers => c \in Watchers'
    PROVE  Claim(c, m, b2)'
  BY DEF Claim, EndsDenied

LEMMA Aside ==
    ASSUME PlayerShape, Claims, UNCHANGED playerVars, UNCHANGED bySession
    PROVE  PlayerShape' /\ Claims'
  BY DEF PlayerShape, PlayerTypes, SocketIsConnected, OwnSocket, ClosedIsIdle, OpenHasMount,
         Claims, Claim, EndsDenied, Watchers, playerVars

LEMMA Delivered ==
    ASSUME toDvr \in [Socket -> Seq(Message)], NEW S, NEW r \in Message, Deliver(S, r)
    PROVE  /\ toDvr' \in [Socket -> Seq(Message)]
           /\ \A c \in Socket : c \notin S => toDvr'[c] = toDvr[c]
           /\ \A c \in S \cap Socket :
                (\E d \in Dvr : sock[d] = c) => toDvr'[c] = Append(toDvr[c], r)
<1>1. \A c \in Socket : toDvr[c] \in Seq(Message) /\ Append(toDvr[c], r) \in Seq(Message)
  BY AppendProperties
<1>2. QED
  BY <1>1 DEF Deliver

\* A broadcast goes to registered sockets, which need no other claim.
LEMMA ToldWatchers ==
    ASSUME PlayerShape, Claims, NEW r \in Message, Deliver(Watchers, r),
           UNCHANGED <<connected, awaiting, fromDvr, sock, held, mount, view, subscribed, asked,
                       answers, bySession>>
    PROVE  PlayerShape' /\ Claims'
<1>1. /\ toDvr' \in [Socket -> Seq(Message)]
      /\ \A c \in Socket : c \notin Watchers => toDvr'[c] = toDvr[c]
  BY Delivered DEF PlayerShape, PlayerTypes
<1>2. PlayerShape'
  BY <1>1 DEF PlayerShape, PlayerTypes, SocketIsConnected, OwnSocket, ClosedIsIdle, OpenHasMount
<1>3. Claims'
  <2> SUFFICES ASSUME NEW d \in Dvr, sock[d] # None, subscribed[d]
               PROVE  Claim(sock[d], mount[d], view[d] = "denied")'
    BY DEF Claims
  <2>1. sock[d] \in Socket /\ Claim(sock[d], mount[d], view[d] = "denied")
    BY DEF Claims, PlayerShape, PlayerTypes
  <2>2. CASE sock[d] \in Watchers
    BY <2>1, <2>2 DEF Claim, Watchers
  <2>3. CASE sock[d] \notin Watchers
    BY <1>1, <2>1, <2>3 DEF Claim, EndsDenied, Watchers
  <2>4. QED
    BY <2>2, <2>3
<1>4. QED
  BY <1>2, <1>3

-----------------------------------------------------------------------------
(* The server.                                                             *)

LEMMA BroadcastClaims ==
    ASSUME PlayerShape, Claims, ServerSynced \/ AnnounceFlush \/ AnnounceEnd
    PROVE  PlayerShape' /\ Claims'
<1>1. PICK r \in Broadcast : Deliver(Watchers, r)
  BY DEF ServerSynced, AnnounceFlush, AnnounceEnd, EndForAll, Broadcast
<1>2. r \in Message
  BY DEF Message
<1>3. UNCHANGED <<connected, awaiting, fromDvr, sock, held, mount, view, subscribed, asked,
                  answers, bySession>>
  BY DEF ServerSynced, AnnounceFlush, AnnounceEnd, serverVars, netVars, dvrVars, regVars
<1>4. QED
  BY <1>1, <1>2, <1>3, ToldWatchers

LEMMA RestartClaims ==
    ASSUME PlayerShape, Claims, ServerRestart PROVE PlayerShape' /\ Claims'
<1>1. \A d \in Dvr : sock'[d] = None
  BY DEF ServerRestart
<1>2. \A d \in Dvr : view'[d] = view[d] \/ (subscribed[d] /\ view'[d] = "lost")
  BY DEF ServerRestart
<1>3. /\ connected' = {} /\ awaiting' \in [Socket -> [Mount -> Nat]]
      /\ toDvr' \in [Socket -> Seq(Message)] /\ fromDvr' \in [Socket -> Seq(Request)]
      /\ sock' \in [Dvr -> Socket \cup {None}] /\ view' \in [Dvr -> View]
      /\ UNCHANGED <<held, mount, subscribed, asked, answers>>
  BY EmptySeq DEF ServerRestart, PlayerShape, PlayerTypes, View
<1>4. ClosedIsIdle' /\ OpenHasMount'
  BY <1>2, <1>3 DEF PlayerShape, ClosedIsIdle, OpenHasMount
<1>5. PlayerShape'
  BY <1>1, <1>3, <1>4 DEF PlayerShape, PlayerTypes, SocketIsConnected, OwnSocket
<1>6. QED
  BY <1>1, <1>5 DEF Claims

\* The server hears a player: what the player said last is still unheard, or heard.
LEMMA RequestHeard ==
    ASSUME PlayerShape, NEW c \in Socket, NEW kind, FromDvr(c, kind)
    PROVE  /\ fromDvr' \in [Socket -> Seq(Request)]
           /\ \A e \in Socket \ {c} : fromDvr'[e] = fromDvr[e]
           /\ fromDvr[c] # <<>> /\ Head(fromDvr[c]).kind = kind /\ fromDvr'[c] = Tail(fromDvr[c])
           /\ Head(fromDvr[c]) \in Request
           /\ IF fromDvr'[c] = <<>> THEN Head(fromDvr[c]) = fromDvr[c][Len(fromDvr[c])]
              ELSE fromDvr'[c][Len(fromDvr'[c])] = fromDvr[c][Len(fromDvr[c])]
<1>1. fromDvr[c] \in Seq(Request) /\ fromDvr[c] # <<>> /\ fromDvr \in [Socket -> Seq(Request)]
  BY DEF PlayerShape, PlayerTypes, FromDvr
<1>2. fromDvr' = [fromDvr EXCEPT ![c] = Tail(@)] /\ Head(fromDvr[c]).kind = kind
  BY DEF FromDvr
<1>3. Head(fromDvr[c]) \in Request
  BY <1>1, HeadTailProperties, EmptySeq
<1>4. fromDvr'[c] = Tail(fromDvr[c]) /\ Tail(fromDvr[c]) \in Seq(Request)
  BY <1>1, <1>2, LastTail
<1>5. IF fromDvr'[c] = <<>> THEN Head(fromDvr[c]) = fromDvr[c][Len(fromDvr[c])]
      ELSE fromDvr'[c][Len(fromDvr'[c])] = fromDvr[c][Len(fromDvr[c])]
  BY <1>1, <1>4, LastTail
<1>6. QED
  BY <1>1, <1>2, <1>3, <1>4, <1>5

LEMMA WatchHeardClaims ==
    ASSUME PlayerShape, Claims, NEW c \in Socket, ServerWatch(c)
    PROVE  PlayerShape' /\ Claims'
<1> DEFINE h == Head(fromDvr[c])
<1>1. /\ fromDvr' \in [Socket -> Seq(Request)]
      /\ \A e \in Socket \ {c} : fromDvr'[e] = fromDvr[e]
      /\ fromDvr[c] # <<>> /\ h.kind = "watch" /\ h \in Request
      /\ IF fromDvr'[c] = <<>> THEN h = fromDvr[c][Len(fromDvr[c])]
         ELSE fromDvr'[c][Len(fromDvr'[c])] = fromDvr[c][Len(fromDvr[c])]
  BY RequestHeard DEF ServerWatch
<1>2. h.mount \in Mount
  BY <1>1 DEF Request
<1> HIDE DEF h
<1>3. /\ awaiting' = [awaiting EXCEPT ![c][h.mount] = @ + 1]
      /\ UNCHANGED <<connected, toDvr, sock, held, mount, view, subscribed, asked, answers,
                     bySession>>
  BY DEF ServerWatch, h, netVars, dvrVars, regVars
<1>4. /\ awaiting' \in [Socket -> [Mount -> Nat]]
      /\ \A e \in Socket \ {c} : awaiting'[e] = awaiting[e]
      /\ awaiting'[c][h.mount] > 0
  BY <1>2, <1>3 DEF PlayerShape, PlayerTypes
<1>5. PlayerShape'
  BY <1>1, <1>3, <1>4 DEF PlayerShape, PlayerTypes, SocketIsConnected, OwnSocket, ClosedIsIdle,
                          OpenHasMount
<1>6. Claims'
  <2> SUFFICES ASSUME NEW d \in Dvr, sock[d] # None, subscribed[d]
               PROVE  Claim(sock[d], mount[d], view[d] = "denied")'
    BY <1>3 DEF Claims
  <2>1. sock[d] \in Socket /\ Claim(sock[d], mount[d], view[d] = "denied")
    BY DEF Claims, PlayerShape, PlayerTypes
  <2>2. CASE sock[d] # c
    BY <1>1, <1>3, <1>4, <2>1, <2>2 DEF Claim, EndsDenied, Watchers
  <2>3. CASE sock[d] = c
    <3>1. fromDvr[c][Len(fromDvr[c])] = Watch(mount[d])
      BY <1>1, <2>1, <2>3 DEF Claim
    <3>2. CASE fromDvr'[c] = <<>>
      BY <1>1, <1>3, <1>4, <2>3, <3>1, <3>2 DEF Claim, Watch
    <3>3. CASE fromDvr'[c] # <<>>
      BY <1>1, <1>3, <2>3, <3>1, <3>3 DEF Claim
    <3>4. QED
      BY <3>2, <3>3
  <2>4. QED
    BY <2>2, <2>3
<1>7. QED
  BY <1>5, <1>6

LEMMA UnwatchHeardClaims ==
    ASSUME SignalInv, PlayerShape, Claims, NEW c \in Socket, ServerUnwatch(c)
    PROVE  PlayerShape' /\ Claims'
<1> DEFINE h == Head(fromDvr[c])
<1>1. /\ fromDvr' \in [Socket -> Seq(Request)]
      /\ \A e \in Socket \ {c} : fromDvr'[e] = fromDvr[e]
      /\ fromDvr[c] # <<>> /\ h.kind = "unwatch" /\ h \in Request
      /\ IF fromDvr'[c] = <<>> THEN h = fromDvr[c][Len(fromDvr[c])]
         ELSE fromDvr'[c][Len(fromDvr'[c])] = fromDvr[c][Len(fromDvr[c])]
  BY RequestHeard DEF ServerUnwatch
<1> HIDE DEF h
<1>2. Watchers' = Watchers \ {c}
  BY RemoveOne DEF ServerUnwatch, SignalInv, SignalTypes
<1>3. UNCHANGED <<connected, awaiting, toDvr, sock, held, mount, view, subscribed, asked, answers>>
  BY DEF ServerUnwatch, serverVars, netVars, dvrVars
<1>4. PlayerShape'
  BY <1>1, <1>3 DEF PlayerShape, PlayerTypes, SocketIsConnected, OwnSocket, ClosedIsIdle,
                    OpenHasMount
<1>5. Claims'
  <2> SUFFICES ASSUME NEW d \in Dvr, sock[d] # None, subscribed[d]
               PROVE  Claim(sock[d], mount[d], view[d] = "denied")'
    BY <1>3 DEF Claims
  <2>1. sock[d] \in Socket /\ Claim(sock[d], mount[d], view[d] = "denied")
    BY DEF Claims, PlayerShape, PlayerTypes
  <2>2. CASE sock[d] # c
    BY <1>1, <1>2, <1>3, <2>1, <2>2 DEF Claim, EndsDenied
  <2>3. CASE sock[d] = c
    <3>1. fromDvr[c][Len(fromDvr[c])] = Watch(mount[d])
      BY <1>1, <2>1, <2>3 DEF Claim
    <3>2. fromDvr'[c] # <<>>
      BY <1>1, <3>1 DEF Watch
    <3>3. QED
      BY <1>1, <1>3, <2>3, <3>1, <3>2 DEF Claim
  <2>4. QED
    BY <2>2, <2>3
<1>6. QED
  BY <1>4, <1>5

LEMMA DisconnectClaims ==
    ASSUME SignalInv, PlayerShape, Claims, NEW c \in Socket, ServerDisconnect(c)
    PROVE  PlayerShape' /\ Claims'
<1>1. /\ \A d \in Dvr : sock[d] # c
      /\ connected' = connected \ {c} /\ fromDvr' = [fromDvr EXCEPT ![c] = <<>>]
      /\ UNCHANGED <<awaiting, toDvr, sock, held, mount, view, subscribed, asked, answers>>
  BY DEF ServerDisconnect, netVars, dvrVars
<1>2. Watchers' = Watchers \ {c}
  BY RemoveSocketOne DEF ServerDisconnect, DropSocket, SignalInv, SignalTypes
<1>3. PlayerShape'
  BY <1>1, EmptySeq DEF PlayerShape, PlayerTypes, SocketIsConnected, OwnSocket, ClosedIsIdle,
                        OpenHasMount
<1>4. Claims'
  <2> SUFFICES ASSUME NEW d \in Dvr, sock[d] # None, subscribed[d]
               PROVE  Claim(sock[d], mount[d], view[d] = "denied")'
    BY <1>1 DEF Claims
  <2>1. sock[d] \in Socket /\ sock[d] # c /\ Claim(sock[d], mount[d], view[d] = "denied")
    BY <1>1 DEF Claims, PlayerShape, PlayerTypes
  <2>2. fromDvr'[sock[d]] = fromDvr[sock[d]]
    BY <1>1, <2>1 DEF PlayerShape, PlayerTypes
  <2>3. QED
    BY <1>1, <1>2, <2>1, <2>2 DEF Claim, EndsDenied
<1>5. QED
  BY <1>3, <1>4

LEMMA GrantClaims ==
    ASSUME SignalInv, PlayerShape, Claims, NEW c \in Socket, NEW m \in Mount, Grant(c, m)
    PROVE  PlayerShape' /\ Claims'
<1> DEFINE r == [kind |-> "granted", mount |-> m]
<1>1. r \in Message
  BY DEF Message, Reply
<1> HIDE DEF r
<1>2. /\ awaiting[c][m] > 0 /\ awaiting' = [awaiting EXCEPT ![c][m] = @ - 1] /\ Deliver({c}, r)
      /\ UNCHANGED <<connected, fromDvr, sock, held, mount, view, subscribed, asked, answers>>
  BY DEF Grant, Resume, netVars, dvrVars, r
<1>3. Watchers' = Watchers \cup {c}
  BY AddOne DEF Grant, SignalInv, SignalTypes
<1>4. /\ toDvr' \in [Socket -> Seq(Message)]
      /\ \A e \in Socket \ {c} : toDvr'[e] = toDvr[e]
  BY <1>1, <1>2, Delivered DEF PlayerShape, PlayerTypes
<1>5. /\ awaiting' \in [Socket -> [Mount -> Nat]]
      /\ \A e \in Socket \ {c} : awaiting'[e] = awaiting[e]
  BY <1>2 DEF PlayerShape, PlayerTypes
<1>6. PlayerShape'
  BY <1>2, <1>4, <1>5 DEF PlayerShape, PlayerTypes, SocketIsConnected, OwnSocket, ClosedIsIdle,
                          OpenHasMount
<1>7. Claims'
  <2> SUFFICES ASSUME NEW d \in Dvr, sock[d] # None, subscribed[d]
               PROVE  Claim(sock[d], mount[d], view[d] = "denied")'
    BY <1>2 DEF Claims
  <2>1. sock[d] \in Socket /\ Claim(sock[d], mount[d], view[d] = "denied")
    BY DEF Claims, PlayerShape, PlayerTypes
  <2>2. CASE sock[d] # c
    BY <1>2, <1>3, <1>4, <1>5, <2>1, <2>2 DEF Claim, EndsDenied
  <2>3. CASE sock[d] = c
    BY <1>2, <1>3, <2>1, <2>3 DEF Claim
  <2>4. QED
    BY <2>2, <2>3
<1>8. QED
  BY <1>6, <1>7

LEMMA DenyClaims ==
    ASSUME PlayerShape, Claims, NEW c \in Socket, NEW m \in Mount, Deny(c, m)
    PROVE  PlayerShape' /\ Claims'
<1>1. Denied(m) \in Message
  BY DeniedAppendDenied, EmptySeq
<1>2. /\ awaiting[c][m] > 0 /\ awaiting' = [awaiting EXCEPT ![c][m] = @ - 1]
      /\ Deliver({c}, Denied(m))
      /\ UNCHANGED <<connected, fromDvr, sock, held, mount, view, subscribed, asked, answers,
                     bySession>>
  BY DEF Deny, Resume, netVars, dvrVars, regVars, Denied
<1>3. /\ toDvr' \in [Socket -> Seq(Message)]
      /\ \A e \in Socket \ {c} : toDvr'[e] = toDvr[e]
      /\ (\E d \in Dvr : sock[d] = c) => toDvr'[c] = Append(toDvr[c], Denied(m))
  <2>1. toDvr \in [Socket -> Seq(Message)] /\ Deliver({c}, Denied(m))
    BY <1>2 DEF PlayerShape, PlayerTypes
  <2> HIDE DEF Denied
  <2>2. /\ toDvr' \in [Socket -> Seq(Message)]
        /\ \A e \in Socket : e \notin {c} => toDvr'[e] = toDvr[e]
        /\ \A e \in {c} \cap Socket :
              (\E d \in Dvr : sock[d] = e) => toDvr'[e] = Append(toDvr[e], Denied(m))
    BY <1>1, <2>1, Delivered
  <2>3. QED
    BY <2>2
<1>4. /\ awaiting' \in [Socket -> [Mount -> Nat]]
      /\ \A e \in Socket \ {c} : awaiting'[e] = awaiting[e]
      /\ \A n \in Mount \ {m} : awaiting'[c][n] = awaiting[c][n]
  BY <1>2 DEF PlayerShape, PlayerTypes
<1>5. PlayerShape'
  BY <1>2, <1>3, <1>4 DEF PlayerShape, PlayerTypes, SocketIsConnected, OwnSocket, ClosedIsIdle,
                          OpenHasMount
<1>6. Claims'
  <2> SUFFICES ASSUME NEW d \in Dvr, sock[d] # None, subscribed[d]
               PROVE  Claim(sock[d], mount[d], view[d] = "denied")'
    BY <1>2 DEF Claims
  <2>1. /\ sock[d] \in Socket /\ Claim(sock[d], mount[d], view[d] = "denied")
        /\ mount[d] \in Mount
    BY DEF Claims, PlayerShape, PlayerTypes, ClosedIsIdle, OpenHasMount
  <2>2. CASE sock[d] # c
    BY <1>2, <1>3, <1>4, <2>1, <2>2 DEF Claim, EndsDenied, Watchers
  <2>3. CASE sock[d] = c
    <3>1. toDvr'[c] = Append(toDvr[c], Denied(m)) /\ toDvr[c] \in Seq(Message)
      BY <1>3, <2>3 DEF PlayerShape, PlayerTypes
    <3>2. CASE fromDvr[c] # <<>> \/ c \in Watchers
      BY <1>2, <2>1, <2>3, <3>2 DEF Claim, Watchers
    <3>3. CASE fromDvr[c] = <<>> /\ m = mount[d]
      <4>1. EndsDenied(Append(toDvr[c], Denied(m)), view[d] = "denied", mount[d])
        BY <3>1, <3>3, DeniedAppendDenied
      <4>2. EndsDenied(toDvr[c], view[d] = "denied", mount[d])'
        BY <1>2, <3>1, <4>1 DEF EndsDenied
      <4>3. QED
        BY <1>2, <2>3, <3>3, <4>2 DEF Claim
    <3>4. CASE fromDvr[c] = <<>> /\ c \notin Watchers /\ m # mount[d] /\ awaiting[c][mount[d]] > 0
      BY <1>2, <1>4, <2>1, <2>3, <3>4 DEF Claim
    <3>5. CASE /\ fromDvr[c] = <<>> /\ c \notin Watchers /\ m # mount[d]
               /\ EndsDenied(toDvr[c], view[d] = "denied", mount[d])
      <4>1. Harmless(Denied(m), mount[d])
        BY DEF Harmless, Denied
      <4>2. EndsDenied(Append(toDvr[c], Denied(m)), view[d] = "denied", mount[d])
        BY <1>1, <3>1, <3>5, <4>1, DeniedAppendHarmless
      <4>3. EndsDenied(toDvr[c], view[d] = "denied", mount[d])'
        BY <1>2, <3>1, <4>2 DEF EndsDenied
      <4>4. QED
        BY <1>2, <2>3, <3>5, <4>3 DEF Claim
    <3>6. QED
      BY <2>1, <2>3, <3>2, <3>3, <3>4, <3>5 DEF Claim
  <2>4. QED
    BY <2>2, <2>3
<1>7. QED
  BY <1>5, <1>6

-----------------------------------------------------------------------------
(* The player.                                                             *)

\* What a player says is what it said last: over its socket, or held back.
LEMMA Emitted ==
    ASSUME PlayerShape, NEW d \in Dvr, NEW r \in Request, Emit(d, r)
    PROVE  /\ fromDvr' \in [Socket -> Seq(Request)] /\ held' \in [Dvr -> Seq(Request)]
           /\ \A c \in Socket : c # sock[d] => fromDvr'[c] = fromDvr[c]
           /\ sock[d] # None => /\ fromDvr'[sock[d]] # <<>>
                                /\ fromDvr'[sock[d]][Len(fromDvr'[sock[d]])] = r
<1>1. /\ fromDvr \in [Socket -> Seq(Request)] /\ held \in [Dvr -> Seq(Request)]
      /\ sock[d] \in Socket \cup {None}
  BY DEF PlayerShape, PlayerTypes
<1>2. CASE sock[d] = None
  <2>1. UNCHANGED fromDvr /\ held' = [held EXCEPT ![d] = Append(@, r)]
    BY <1>2 DEF Emit
  <2>2. held[d] \in Seq(Request) /\ Append(held[d], r) \in Seq(Request)
    BY <1>1, AppendProperties
  <2>3. QED
    BY <1>1, <1>2, <2>1, <2>2
<1>3. CASE sock[d] # None
  <2> DEFINE c == sock[d]
  <2>1. UNCHANGED held /\ fromDvr' = [fromDvr EXCEPT ![c] = Append(@, r)] /\ c \in Socket
    BY <1>1, <1>3 DEF Emit
  <2>2. fromDvr[c] \in Seq(Request) /\ fromDvr'[c] = Append(fromDvr[c], r)
    BY <1>1, <2>1
  <2>3. /\ fromDvr'[c] \in Seq(Request) /\ fromDvr'[c] # <<>>
        /\ fromDvr'[c][Len(fromDvr'[c])] = r
    BY <2>2, LastAppend
  <2>4. QED
    BY <1>1, <1>3, <2>1, <2>2, <2>3
<1>4. QED
  BY <1>2, <1>3

\* Every other player keeps its claim when one player emits.
LEMMA OthersClaim ==
    ASSUME PlayerShape, Claims, NEW d \in Dvr, NEW e \in Dvr \ {d},
           \A c \in Socket : c # sock[d] => fromDvr'[c] = fromDvr[c] /\ toDvr'[c] = toDvr[c],
           UNCHANGED <<awaiting, bySession>>,
           sock'[e] = sock[e], subscribed'[e] = subscribed[e], mount'[e] = mount[e],
           view'[e] = view[e]
    PROVE  sock'[e] # None /\ subscribed'[e] => Claim(sock[e], mount[e], view[e] = "denied")'
<1> SUFFICES ASSUME sock[e] # None, subscribed[e]
             PROVE  Claim(sock[e], mount[e], view[e] = "denied")'
  OBVIOUS
<1>1. /\ sock[e] \in Socket /\ sock[e] # sock[d]
      /\ Claim(sock[e], mount[e], view[e] = "denied")
  BY DEF Claims, PlayerShape, PlayerTypes, OwnSocket
<1>2. QED
  BY <1>1 DEF Claim, EndsDenied, Watchers

LEMMA CloseClaims ==
    ASSUME PlayerShape, Claims, NEW d \in Dvr, Close(d) PROVE PlayerShape' /\ Claims'
<1>1. /\ view[d] # "closed" /\ view' = [view EXCEPT ![d] = "closed"]
      /\ asked' = [asked EXCEPT ![d] = 0] /\ answers' = [answers EXCEPT ![d] = {}]
      /\ subscribed' = [subscribed EXCEPT ![d] = FALSE]
      /\ UNCHANGED <<connected, awaiting, bySession, toDvr, sock, mount>>
  BY DEF Close, serverVars, regVars
<1>2. /\ fromDvr' \in [Socket -> Seq(Request)] /\ held' \in [Dvr -> Seq(Request)]
      /\ \A c \in Socket : c # sock[d] => fromDvr'[c] = fromDvr[c]
  <2>1. [kind |-> "unwatch"] \in Request
    BY DEF Request
  <2>2. CASE subscribed[d]
    BY <2>1, <2>2, Emitted DEF Close
  <2>3. CASE ~subscribed[d]
    BY <2>3 DEF Close, PlayerShape, PlayerTypes
  <2>4. QED
    BY <2>2, <2>3
<1>3. PlayerShape'
  BY <1>1, <1>2 DEF PlayerShape, PlayerTypes, SocketIsConnected, OwnSocket, ClosedIsIdle,
                    OpenHasMount, View
<1>4. Claims'
  <2> SUFFICES ASSUME NEW e \in Dvr, sock'[e] # None, subscribed'[e]
               PROVE  Claim(sock[e], mount[e], view[e] = "denied")'
    BY DEF Claims
  <2>1. e # d
    BY <1>1 DEF PlayerShape, PlayerTypes
  <2>2. subscribed'[e] = subscribed[e] /\ view'[e] = view[e]
    BY <1>1, <2>1 DEF PlayerShape, PlayerTypes
  <2>3. QED
    BY <1>1, <1>2, <2>1, <2>2, OthersClaim
<1>5. QED
  BY <1>3, <1>4

LEMMA AskingClaims ==
    ASSUME PlayerShape, Claims, NEW d \in Dvr,
           Open(d) \/ ServeReplay(d) \/ ReplayFails(d) \/ \E s \in BOOLEAN : Reconcile(d, s)
    PROVE  PlayerShape' /\ Claims'
<1>1. UNCHANGED <<connected, awaiting, bySession, toDvr, fromDvr, sock, held, subscribed>>
  BY DEF Open, ServeReplay, ReplayFails, Reconcile, Answered, serverVars, regVars, wireVars, netVars
<1>2. PlayerTypes'
  <2>1. CASE Open(d)
    <3>1. /\ mount' = [mount EXCEPT ![d] = @ + 1] /\ view' = [view EXCEPT ![d] = "connecting"]
          /\ asked' = [asked EXCEPT ![d] = IF @ < MaxReloads THEN @ + 1 ELSE @]
          /\ UNCHANGED answers
      BY <2>1 DEF Open, Ask
    <3>2. mount' \in [Dvr -> Nat] /\ view' \in [Dvr -> View]
      BY <3>1 DEF PlayerShape, PlayerTypes, View
    <3>3. asked' \in [Dvr -> Nat]
      BY <3>1 DEF PlayerShape, PlayerTypes
    <3>4. QED
      BY <1>1, <3>1, <3>2, <3>3 DEF PlayerShape, PlayerTypes
  <2>2. CASE ServeReplay(d) \/ ReplayFails(d)
    <3> DEFINE s == session # "open"
    <3>0. s \in BOOLEAN
      OBVIOUS
    <3>1. /\ asked[d] > 0 /\ asked' = [asked EXCEPT ![d] = @ - 1] /\ UNCHANGED <<mount, view>>
          /\ answers' = [answers EXCEPT ![d] = @ \cup {s}] \/ UNCHANGED answers
      BY <2>2 DEF ServeReplay, ReplayFails
    <3> HIDE DEF s
    <3>2. asked' \in [Dvr -> Nat]
      BY <3>1 DEF PlayerShape, PlayerTypes
    <3>3. answers' \in [Dvr -> SUBSET BOOLEAN]
      <4>1. answers \in [Dvr -> SUBSET BOOLEAN]
        BY DEF PlayerShape, PlayerTypes
      <4>2. answers[d] \cup {s} \in SUBSET BOOLEAN
        <5>1. answers[d] \subseteq BOOLEAN
          BY <4>1
        <5>2. QED
          BY <3>0, <5>1, Zenon
      <4>3. QED
        BY <3>1, <4>1, <4>2
    <3>4. QED
      BY <1>1, <3>1, <3>2, <3>3 DEF PlayerShape, PlayerTypes
  <2>3. ASSUME NEW s \in BOOLEAN, Reconcile(d, s) PROVE PlayerTypes'
    <3>1. answers' = [answers EXCEPT ![d] = @ \ {s}] /\ UNCHANGED <<mount, view, asked>>
      BY <2>3 DEF Reconcile, Answered
    <3>2. answers' \in [Dvr -> SUBSET BOOLEAN]
      BY <3>1 DEF PlayerShape, PlayerTypes
    <3>3. QED
      BY <1>1, <3>1, <3>2 DEF PlayerShape, PlayerTypes
  <2>4. QED
    BY <2>1, <2>2, <2>3
<1>3. SocketIsConnected' /\ OwnSocket'
  BY <1>1 DEF PlayerShape, SocketIsConnected, OwnSocket
<1>4. /\ \A e \in Dvr : subscribed[e] => mount'[e] = mount[e] /\ view'[e] = view[e]
      /\ ClosedIsIdle' /\ OpenHasMount'
  <2>1. CASE Open(d)
    <3>1. view[d] = "closed" /\ mount[d] < MaxOpens /\ ~subscribed[d] /\ mount[d] \in Nat
      BY <2>1 DEF Open, PlayerShape, PlayerTypes, ClosedIsIdle
    <3>2. /\ mount' = [mount EXCEPT ![d] = @ + 1] /\ view' = [view EXCEPT ![d] = "connecting"]
          /\ asked' = [asked EXCEPT ![d] = IF @ < MaxReloads THEN @ + 1 ELSE @]
          /\ UNCHANGED answers
      BY <2>1 DEF Open, Ask
    <3>3. mount'[d] \in Mount
      BY <3>1, <3>2, BoundsAssumption DEF PlayerShape, PlayerTypes, Mount
    <3>4. OpenHasMount'
      BY <3>2, <3>3 DEF PlayerShape, PlayerTypes, OpenHasMount
    <3>5. ClosedIsIdle'
      BY <1>1, <3>2 DEF PlayerShape, PlayerTypes, ClosedIsIdle
    <3>6. QED
      BY <3>1, <3>2, <3>4, <3>5 DEF PlayerShape, PlayerTypes
  <2>2. CASE ~Open(d)
    <3>1. UNCHANGED <<mount, view>>
      BY <2>2 DEF ServeReplay, ReplayFails, Reconcile, Answered
    <3>2. \A e \in Dvr : view[e] = "closed" => answers'[e] = {} /\ asked'[e] = 0
      BY <2>2 DEF ServeReplay, ReplayFails, Reconcile, Answered, PlayerShape, PlayerTypes,
                  ClosedIsIdle
    <3>3. QED
      BY <1>1, <3>1, <3>2 DEF PlayerShape, ClosedIsIdle, OpenHasMount
  <2>3. QED
    BY <2>1, <2>2
<1>5. Claims'
  <2> SUFFICES ASSUME NEW e \in Dvr, sock[e] # None, subscribed[e]
               PROVE  Claim(sock[e], mount[e], view[e] = "denied")'
    BY <1>1 DEF Claims
  <2>1. sock[e] \in Socket /\ Claim(sock[e], mount[e], view[e] = "denied")
    BY DEF Claims, PlayerShape, PlayerTypes
  <2>2. mount'[e] = mount[e] /\ view'[e] = view[e]
    BY <1>4
  <2>3. QED
    BY <1>1, <2>1, <2>2 DEF Claim, EndsDenied, Watchers
<1>6. QED
  BY <1>2, <1>3, <1>4, <1>5 DEF PlayerShape

\* The effect starts or cleans up, and says so.
LEMMA Spoken ==
    ASSUME PlayerShape, Claims, NEW d \in Dvr, NEW s \in BOOLEAN, NEW r \in Request,
           NEW on \in BOOLEAN, NEW v \in View \ {"closed"},
           Answered(d, s), Emit(d, r), on => r = Watch(mount[d]),
           subscribed' = [subscribed EXCEPT ![d] = on], view' = [view EXCEPT ![d] = v]
    PROVE  PlayerShape' /\ Claims'
<1>1. view[d] # "closed" /\ mount[d] \in Mount
  BY DEF Answered, PlayerShape, ClosedIsIdle, OpenHasMount
<1>2. /\ UNCHANGED <<connected, awaiting, bySession, toDvr, sock, mount, asked>>
      /\ answers' = [answers EXCEPT ![d] = @ \ {s}]
  BY DEF Answered, serverVars, regVars
<1>3. /\ fromDvr' \in [Socket -> Seq(Request)] /\ held' \in [Dvr -> Seq(Request)]
      /\ \A c \in Socket : c # sock[d] => fromDvr'[c] = fromDvr[c]
      /\ sock[d] # None => /\ fromDvr'[sock[d]] # <<>>
                           /\ fromDvr'[sock[d]][Len(fromDvr'[sock[d]])] = r
  BY Emitted
<1>4. /\ view'[d] # "closed" /\ subscribed'[d] = on
      /\ \A e \in Dvr \ {d} : view'[e] = view[e] /\ subscribed'[e] = subscribed[e]
      /\ \A e \in Dvr : answers'[e] \subseteq answers[e]
  BY <1>2 DEF PlayerShape, PlayerTypes
<1>5. PlayerTypes'
  <2>1. view' \in [Dvr -> View] /\ subscribed' \in [Dvr -> BOOLEAN]
    BY DEF PlayerShape, PlayerTypes
  <2>2. answers' \in [Dvr -> SUBSET BOOLEAN]
    BY <1>2 DEF PlayerShape, PlayerTypes
  <2>3. QED
    BY <1>2, <1>3, <2>1, <2>2 DEF PlayerShape, PlayerTypes
<1>6. PlayerShape'
  BY <1>1, <1>2, <1>4, <1>5
  DEF PlayerShape, SocketIsConnected, OwnSocket, ClosedIsIdle, OpenHasMount
<1>7. Claims'
  <2> SUFFICES ASSUME NEW e \in Dvr, sock'[e] # None, subscribed'[e]
               PROVE  Claim(sock[e], mount[e], view[e] = "denied")'
    BY DEF Claims
  <2>1. CASE e # d
    BY <1>2, <1>3, <1>4, <2>1, OthersClaim
  <2>2. CASE e = d
    BY <1>2, <1>3, <1>4, <2>2 DEF Claim
  <2>3. QED
    BY <2>1, <2>2
<1>8. QED
  BY <1>6, <1>7

LEMMA SubscribeClaims ==
    ASSUME PlayerShape, Claims, NEW d \in Dvr, Subscribe(d) \/ Unsubscribe(d)
    PROVE  PlayerShape' /\ Claims'
<1>0. view[d] # "closed" /\ mount[d] \in Mount /\ view[d] \in View
  BY DEF Subscribe, Unsubscribe, Answered, PlayerShape, PlayerTypes, ClosedIsIdle, OpenHasMount
<1>1. CASE Subscribe(d)
  <2>1. Watch(mount[d]) \in Request
    BY <1>0 DEF Request, Watch
  <2>2. /\ Answered(d, FALSE) /\ Emit(d, Watch(mount[d]))
        /\ subscribed' = [subscribed EXCEPT ![d] = TRUE]
        /\ view' = [view EXCEPT ![d] = "connecting"]
    BY <1>1 DEF Subscribe, Watch
  <2>3. "connecting" \in View \ {"closed"}
    BY DEF View
  <2>4. QED
    BY <2>1, <2>2, <2>3, Spoken
<1>2. CASE Unsubscribe(d)
  <2>1. [kind |-> "unwatch"] \in Request
    BY DEF Request
  <2>2. /\ Answered(d, TRUE) /\ Emit(d, [kind |-> "unwatch"])
        /\ subscribed' = [subscribed EXCEPT ![d] = FALSE] /\ view' = [view EXCEPT ![d] = view[d]]
    BY <1>2 DEF Unsubscribe, PlayerShape, PlayerTypes
  <2>3. QED
    BY <1>0, <2>1, <2>2, Spoken
<1>3. QED
  BY <1>1, <1>2

\* A player hears the next message.
LEMMA MessageHeard ==
    ASSUME PlayerShape, NEW d \in Dvr, NEW kind, ToDvr(d, kind)
    PROVE  /\ sock[d] \in Socket /\ sock[d] # None
           /\ toDvr[sock[d]] \in Seq(Message) /\ toDvr[sock[d]] # <<>>
           /\ Head(toDvr[sock[d]]) \in Message /\ Head(toDvr[sock[d]]).kind = kind
           /\ toDvr' \in [Socket -> Seq(Message)] /\ toDvr'[sock[d]] = Tail(toDvr[sock[d]])
           /\ \A c \in Socket : c # sock[d] => toDvr'[c] = toDvr[c]
<1> DEFINE c == sock[d]
<1>1. c \in Socket /\ c # None /\ toDvr[c] \in Seq(Message) /\ toDvr[c] # <<>>
  BY DEF ToDvr, PlayerShape, PlayerTypes
<1>2. toDvr' = [toDvr EXCEPT ![c] = Tail(@)] /\ Head(toDvr[c]).kind = kind
  BY DEF ToDvr
<1>3. Head(toDvr[c]) \in Message /\ Tail(toDvr[c]) \in Seq(Message)
  BY <1>1, HeadTailProperties, EmptySeq
<1>4. toDvr \in [Socket -> Seq(Message)]
  BY DEF PlayerShape, PlayerTypes
<1>5. QED
  BY <1>1, <1>2, <1>3, <1>4

\* What hearing a message does to the claims of all players, when the one that
\* hears it stays refused by a harmless message and is refused by its refusal.
LEMMA HearingClaims ==
    ASSUME PlayerShape, Claims, NEW d \in Dvr, NEW kind, ToDvr(d, kind),
           UNCHANGED <<connected, awaiting, bySession, fromDvr, sock, held, mount, subscribed,
                       answers>>,
           asked' \in [Dvr -> Nat], view' \in [Dvr -> View],
           subscribed[d] \/ asked' = asked,
           view'[d] = "closed" <=> view[d] = "closed",
           \A e \in Dvr \ {d} : view'[e] = view[e] /\ asked'[e] = asked[e],
           subscribed[d] /\ Head(toDvr[sock[d]]) = Denied(mount[d]) => view'[d] = "denied",
           subscribed[d] /\ Harmless(Head(toDvr[sock[d]]), mount[d]) /\ view[d] = "denied"
             => view'[d] = "denied"
    PROVE  PlayerShape' /\ Claims'
<1> DEFINE c == sock[d]
<1>1. /\ c \in Socket /\ c # None /\ toDvr[c] \in Seq(Message) /\ toDvr[c] # <<>>
      /\ toDvr' \in [Socket -> Seq(Message)] /\ toDvr'[c] = Tail(toDvr[c])
      /\ \A e \in Socket : e # sock[d] => toDvr'[e] = toDvr[e]
  BY MessageHeard
<1>2. PlayerTypes'
  BY <1>1 DEF PlayerShape, PlayerTypes
<1>3. PlayerShape'
  BY <1>2 DEF PlayerShape, SocketIsConnected, OwnSocket, ClosedIsIdle, OpenHasMount
<1>4. Claims'
  <2> SUFFICES ASSUME NEW e \in Dvr, sock[e] # None, subscribed[e]
               PROVE  Claim(sock[e], mount[e], view[e] = "denied")'
    BY DEF Claims
  <2>1. CASE e # d
    BY <1>1, <2>1, OthersClaim
  <2>2. CASE e = d
    <3>1. Claim(c, mount[d], view[d] = "denied")
      BY <1>1, <2>2 DEF Claims
    <3>2. CASE fromDvr[c] # <<>> \/ c \in Watchers \/ awaiting[c][mount[d]] > 0
      BY <2>2, <3>1, <3>2 DEF Claim, Watchers
    <3>3. CASE fromDvr[c] = <<>> /\ EndsDenied(toDvr[c], view[d] = "denied", mount[d])
      <4> DEFINE q == toDvr[c]
                 m == mount[d]
      <4>1. /\ EndsDenied(q, view[d] = "denied", m) /\ q \in Seq(Message) /\ q # <<>>
            /\ Head(q) = Denied(m) => view'[d] = "denied"
            /\ Harmless(Head(q), m) /\ view[d] = "denied" => view'[d] = "denied"
        BY <1>1, <2>2, <3>3
      <4> HIDE DEF q, m
      <4>2. EndsDenied(Tail(q), view'[d] = "denied", m)
        BY <4>1, DeniedTail
      <4>3. EndsDenied(toDvr[c], view[d] = "denied", mount[d])'
        BY <1>1, <4>2 DEF EndsDenied, q, m
      <4>4. QED
        BY <2>2, <3>3, <4>3 DEF Claim
    <3>4. QED
      BY <3>1, <3>2, <3>3 DEF Claim
  <2>3. QED
    BY <2>1, <2>2
<1>5. QED
  BY <1>3, <1>4

LEMMA VerdictClaims ==
    ASSUME PlayerShape, Claims, NEW d \in Dvr, NEW v \in {"granted", "denied"}, HearVerdict(d, v)
    PROVE  PlayerShape' /\ Claims'
<1> DEFINE h == Head(toDvr[sock[d]])
           mine == view[d] # "closed" /\ h.mount = mount[d]
<1>1. ToDvr(d, v) /\ h.kind = v
  BY DEF HearVerdict, ToDvr
<1>2. /\ UNCHANGED <<connected, awaiting, bySession, fromDvr, sock, held, mount, subscribed,
                     answers, asked>>
      /\ view' = [view EXCEPT ![d] = CASE ~mine -> @
                                       [] mine /\ v = "denied" -> "denied"
                                       [] OTHER -> IF @ = "ended" THEN @ ELSE "syncing"]
  BY DEF HearVerdict, serverVars, regVars, netVars
<1>3. asked' \in [Dvr -> Nat] /\ view \in [Dvr -> View] /\ mine \in BOOLEAN
  BY <1>2 DEF PlayerShape, PlayerTypes
<1>4. subscribed[d] => view[d] # "closed"
  BY DEF PlayerShape, ClosedIsIdle
<1> HIDE DEF h
<1>5. /\ view' \in [Dvr -> View] /\ \A e \in Dvr \ {d} : view'[e] = view[e]
      /\ view'[d] = "closed" <=> view[d] = "closed"
  BY <1>2, <1>3 DEF View
<1>6. subscribed[d] /\ h = Denied(mount[d]) => view'[d] = "denied"
  <2> SUFFICES ASSUME subscribed[d], h = Denied(mount[d]) PROVE view'[d] = "denied"
    OBVIOUS
  <2>1. mine /\ v = "denied"
    BY <1>1, <1>4 DEF Denied
  <2>2. QED
    BY <1>2, <1>3, <2>1
<1>7. subscribed[d] /\ Harmless(h, mount[d]) /\ view[d] = "denied" => view'[d] = "denied"
  <2> SUFFICES ASSUME Harmless(h, mount[d]), view[d] = "denied" PROVE view'[d] = "denied"
    OBVIOUS
  <2>1. v = "denied" \/ ~mine
    BY <1>1 DEF Harmless
  <2>2. QED
    BY <1>2, <1>3, <2>1
<1>8. QED
  BY <1>1, <1>2, <1>3, <1>5, <1>6, <1>7, HearingClaims DEF h

LEMMA BroadcastHeardClaims ==
    ASSUME PlayerShape, Claims, NEW d \in Dvr, NEW k \in {"synced", "flushed", "end"},
           HearBroadcast(d, k)
    PROVE  PlayerShape' /\ Claims'
<1> DEFINE h == Head(toDvr[sock[d]])
<1>1. ToDvr(d, k) /\ h.kind = k
  BY DEF HearBroadcast, ToDvr
<1>2. UNCHANGED <<connected, awaiting, bySession, fromDvr, sock, held, mount, subscribed, answers>>
  BY DEF HearBroadcast, serverVars, regVars, netVars
<1>3. /\ view \in [Dvr -> View] /\ asked \in [Dvr -> Nat]
      /\ subscribed[d] => view[d] # "closed"
  BY DEF PlayerShape, PlayerTypes, ClosedIsIdle
<1>4. /\ asked' \in [Dvr -> Nat] /\ \A e \in Dvr \ {d} : asked'[e] = asked[e]
      /\ subscribed[d] \/ asked' = asked
  <2>1. asked' = asked \/ asked' = [asked EXCEPT ![d] = IF @ < MaxReloads THEN @ + 1 ELSE @]
    BY DEF HearBroadcast, Ask
  <2>2. asked' \in [Dvr -> Nat]
    BY <1>3, <2>1
  <2>3. \A e \in Dvr \ {d} : asked'[e] = asked[e]
    BY <1>3, <2>1
  <2>4. subscribed[d] \/ asked' = asked
    BY DEF HearBroadcast
  <2>5. QED
    BY <2>2, <2>3, <2>4
<1>5. /\ view' \in [Dvr -> View] /\ \A e \in Dvr \ {d} : view'[e] = view[e]
      /\ view'[d] = "closed" <=> view[d] = "closed"
  <2>1. CASE view' = view
    BY <1>3, <2>1
  <2>2. CASE /\ subscribed[d]
             /\ \E w \in View \ {"closed"} : view' = [view EXCEPT ![d] = w]
    BY <1>3, <2>2
  <2>3. QED
    BY <1>3, <2>1, <2>2 DEF HearBroadcast, View
<1>6. ~(h = Denied(mount[d]))
  BY <1>1 DEF Denied
<1>7. subscribed[d] /\ Harmless(h, mount[d]) /\ view[d] = "denied" => view'[d] = "denied"
  <2> SUFFICES ASSUME Harmless(h, mount[d]), view[d] = "denied" PROVE view'[d] = "denied"
    OBVIOUS
  <2>1. k = "flushed"
    BY <1>1 DEF Harmless
  <2>2. UNCHANGED view
    BY <2>1 DEF HearBroadcast
  <2>3. QED
    BY <2>2
<1>8. QED
  BY <1>1, <1>2, <1>4, <1>5, <1>6, <1>7, HearingClaims

LEMMA DropClaims ==
    ASSUME PlayerShape, Claims, NEW d \in Dvr, DvrDrops(d) PROVE PlayerShape' /\ Claims'
<1>1. /\ sock[d] # None /\ sock' = [sock EXCEPT ![d] = None]
      /\ toDvr' = [toDvr EXCEPT ![sock[d]] = <<>>]
      /\ view' = [view EXCEPT ![d] = IF subscribed[d] THEN "lost" ELSE @]
      /\ UNCHANGED <<connected, awaiting, bySession, fromDvr, held, mount, subscribed, asked,
                     answers>>
  BY DEF DvrDrops, serverVars, regVars
<1>2. PlayerTypes'
  <2>1. toDvr' \in [Socket -> Seq(Message)]
    BY <1>1, EmptySeq DEF PlayerShape, PlayerTypes
  <2>2. sock' \in [Dvr -> Socket \cup {None}]
    BY <1>1 DEF PlayerShape, PlayerTypes
  <2>3. view' \in [Dvr -> View]
    BY <1>1 DEF PlayerShape, PlayerTypes, View
  <2>4. QED
    BY <1>1, <2>1, <2>2, <2>3 DEF PlayerShape, PlayerTypes
<1>3. /\ sock'[d] = None
      /\ \A e \in Dvr \ {d} : sock'[e] = sock[e] /\ view'[e] = view[e]
      /\ view'[d] = view[d] \/ (subscribed[d] /\ view'[d] = "lost")
      /\ \A c \in Socket : c # sock[d] => toDvr'[c] = toDvr[c]
  BY <1>1 DEF PlayerShape, PlayerTypes
<1>4. PlayerShape'
  <2>1. SocketIsConnected' /\ OwnSocket'
    BY <1>1, <1>3 DEF PlayerShape, SocketIsConnected, OwnSocket
  <2>2. ClosedIsIdle' /\ OpenHasMount'
    BY <1>1, <1>3 DEF PlayerShape, ClosedIsIdle, OpenHasMount
  <2>3. QED
    BY <1>2, <2>1, <2>2 DEF PlayerShape
<1>5. Claims'
  <2> SUFFICES ASSUME NEW e \in Dvr, sock'[e] # None, subscribed[e]
               PROVE  Claim(sock[e], mount[e], view[e] = "denied")'
    BY <1>1 DEF Claims
  <2>1. e # d
    BY <1>3
  <2>2. QED
    BY <1>1, <1>3, <2>1, OthersClaim
<1>6. QED
  BY <1>4, <1>5

LEMMA ConnectClaims ==
    ASSUME PlayerShape, Claims, NEW d \in Dvr, NEW c \in Socket, DvrConnects(d, c)
    PROVE  PlayerShape' /\ Claims'
<1>1. /\ sock[d] = None /\ c \notin connected
      /\ sock' = [sock EXCEPT ![d] = c] /\ connected' = connected \cup {c}
      /\ held' = [held EXCEPT ![d] = <<>>]
      /\ fromDvr' = [fromDvr EXCEPT ![c] = held[d] \o Rewatch(d)]
      /\ view' = [view EXCEPT ![d] = IF subscribed[d] THEN "connecting" ELSE @]
      /\ UNCHANGED <<awaiting, bySession, toDvr, mount, subscribed, asked, answers>>
  BY DEF DvrConnects, regVars
<1>2. /\ held[d] \o Rewatch(d) \in Seq(Request)
      /\ subscribed[d] => /\ held[d] \o Rewatch(d) # <<>>
                          /\ (held[d] \o Rewatch(d))[Len(held[d] \o Rewatch(d))] = Watch(mount[d])
  <2>1. held[d] \in Seq(Request)
    BY DEF PlayerShape, PlayerTypes
  <2>2. CASE subscribed[d]
    <3>1. mount[d] \in Mount
      BY <2>2 DEF PlayerShape, ClosedIsIdle, OpenHasMount
    <3>2. Watch(mount[d]) \in Request /\ Rewatch(d) = <<Watch(mount[d])>>
      BY <2>2, <3>1 DEF Request, Watch, Rewatch
    <3>3. QED
      BY <2>1, <3>2, LastConcat
  <2>3. CASE ~subscribed[d]
    <3>1. Rewatch(d) = <<>>
      BY <2>3 DEF Rewatch
    <3>2. QED
      BY <2>1, <2>3, <3>1, EmptySeq, ConcatProperties
  <2>4. QED
    BY <2>2, <2>3
<1>3. PlayerTypes'
  <2>1. fromDvr' \in [Socket -> Seq(Request)]
    BY <1>1, <1>2 DEF PlayerShape, PlayerTypes
  <2>2. held' \in [Dvr -> Seq(Request)]
    BY <1>1, EmptySeq DEF PlayerShape, PlayerTypes
  <2>3. sock' \in [Dvr -> Socket \cup {None}] /\ connected' \subseteq Socket
    BY <1>1 DEF PlayerShape, PlayerTypes
  <2>4. view' \in [Dvr -> View]
    BY <1>1 DEF PlayerShape, PlayerTypes, View
  <2>5. QED
    BY <1>1, <2>1, <2>2, <2>3, <2>4 DEF PlayerShape, PlayerTypes
<1>4. /\ sock'[d] = c /\ c # None
      /\ \A e \in Dvr \ {d} : sock'[e] = sock[e] /\ view'[e] = view[e] /\ sock[e] # c
      /\ view'[d] = view[d] \/ (subscribed[d] /\ view'[d] = "connecting")
      /\ fromDvr'[c] = held[d] \o Rewatch(d)
      /\ \A b \in Socket : b # c => fromDvr'[b] = fromDvr[b]
  BY <1>1, NoneAssumption DEF PlayerShape, PlayerTypes, SocketIsConnected
<1>5. PlayerShape'
  <2>1. SocketIsConnected' /\ OwnSocket'
    BY <1>1, <1>4 DEF PlayerShape, SocketIsConnected, OwnSocket
  <2>2. ClosedIsIdle' /\ OpenHasMount'
    BY <1>1, <1>4 DEF PlayerShape, ClosedIsIdle, OpenHasMount
  <2>3. QED
    BY <1>3, <2>1, <2>2 DEF PlayerShape
<1>6. Claims'
  <2> SUFFICES ASSUME NEW e \in Dvr, sock'[e] # None, subscribed[e]
               PROVE  Claim(sock[e], mount[e], view[e] = "denied")'
    BY <1>1 DEF Claims
  <2>1. CASE e # d
    <3>1. sock[e] # None /\ sock[e] # c
      BY <1>4, <2>1
    <3>2. sock[e] \in Socket /\ Claim(sock[e], mount[e], view[e] = "denied")
      BY <3>1 DEF Claims, PlayerShape, PlayerTypes
    <3>3. QED
      BY <1>1, <1>4, <2>1, <3>1, <3>2 DEF Claim, EndsDenied, Watchers
  <2>2. CASE e = d
    <3>1. fromDvr'[c] # <<>> /\ fromDvr'[c][Len(fromDvr'[c])] = Watch(mount[d])
      <4> DEFINE q == held[d] \o Rewatch(d)
      <4>1. fromDvr'[c] = q /\ q # <<>> /\ q[Len(q)] = Watch(mount[d])
        BY <1>2, <1>4, <2>2
      <4> HIDE DEF q
      <4>2. QED
        BY <4>1
    <3>2. QED
      BY <1>1, <1>4, <2>2, <3>1 DEF Claim
  <2>3. QED
    BY <2>1, <2>2
<1>7. QED
  BY <1>5, <1>6

-----------------------------------------------------------------------------
LEMMA WatchInit == Init => WatchInv
<1> SUFFICES ASSUME Init PROVE WatchInv
  OBVIOUS
<1>1. SignalInv
  BY SignalInit
<1>2. PlayerTypes
  <2>1. connected \subseteq Socket /\ sock \in [Dvr -> Socket \cup {None}]
    BY DEF Init
  <2>2. /\ toDvr \in [Socket -> Seq(Message)] /\ fromDvr \in [Socket -> Seq(Request)]
        /\ held \in [Dvr -> Seq(Request)]
    BY EmptySeq DEF Init
  <2>3. QED
    BY <2>1, <2>2 DEF Init, PlayerTypes, View
<1>3. SocketIsConnected /\ OwnSocket /\ ClosedIsIdle /\ OpenHasMount /\ Claims
  BY DEF Init, SocketIsConnected, OwnSocket, ClosedIsIdle, OpenHasMount, Claims
<1>4. QED
  BY <1>1, <1>2, <1>3 DEF WatchInv, PlayerShape

LEMMA WatchStep == WatchInv /\ [Next]_vars => WatchInv'
<1> SUFFICES ASSUME WatchInv, [Next]_vars PROVE WatchInv'
  OBVIOUS
<1> USE DEF WatchInv
<1>1. SignalInv'
  BY SignalStep
<1>2. CASE UNCHANGED vars \/ StudentStep \/ ServerJoin \/ Flip \/ EndUnannounced
  <2>1. UNCHANGED playerVars /\ UNCHANGED bySession
    BY <1>2 DEF vars, playerVars, serverVars, wireVars, netVars, dvrVars, regVars, ServerJoin, Flip,
                EndUnannounced, StudentStep, HearStart, HearStop, SyncSucceeds, SyncFails, RetryFires, Disarm,
                StudentDrops, StudentConnects, StudentReloads
  <2>2. QED
    BY <1>1, <2>1, Aside
<1>3. CASE ServerSynced \/ AnnounceFlush \/ AnnounceEnd \/ ServerRestart
  BY <1>1, <1>3, BroadcastClaims, RestartClaims
<1>4. ASSUME NEW c \in Socket, SocketStep(c) PROVE WatchInv'
  BY <1>1, <1>4, WatchHeardClaims, UnwatchHeardClaims, DisconnectClaims, GrantClaims, DenyClaims
     DEF SocketStep
<1>5. ASSUME NEW d \in Dvr, DvrStep(d) PROVE WatchInv'
  BY <1>1, <1>5, CloseClaims, AskingClaims, SubscribeClaims, VerdictClaims, BroadcastHeardClaims,
     DropClaims, ConnectClaims DEF DvrStep
<1>6. QED
  BY <1>2, <1>3, <1>4, <1>5 DEF Next

\* A player that subscribed and has nothing under way is registered or was
\* refused, however reconnects, restarts, stops and starts overtake each other.
THEOREM SubscribedKept == Spec => []SubscribedIsWatching
<1>1. WatchInv => SubscribedIsWatching
  <2> SUFFICES ASSUME WatchInv, NEW d \in Dvr, Quiet(d), subscribed[d]
               PROVE  sock[d] \in Watchers \/ view[d] = "denied"
    BY DEF SubscribedIsWatching
  <2>1. /\ sock[d] # None /\ fromDvr[sock[d]] = <<>> /\ toDvr[sock[d]] = <<>>
        /\ mount[d] \in Mount /\ awaiting[sock[d]][mount[d]] = 0
    BY DEF Quiet, WatchInv, PlayerShape, ClosedIsIdle, OpenHasMount
  <2>2. sock[d] \in Watchers \/ EndsDenied(toDvr[sock[d]], view[d] = "denied", mount[d])
    BY <2>1 DEF WatchInv, Claims, Claim
  <2>3. QED
    BY <2>1, <2>2, EmptySeq DEF EndsDenied
<1>2. QED
  BY <1>1, WatchInit, WatchStep, PTL DEF Spec
-----------------------------------------------------------------------------
(***************************************************************************)
(* The registry by itself, for every session and not just the one that     *)
(* LiveWatch follows: the two maps agree and the signal is right (one      *)
(* inductive invariant, since removeSocket finds the sessions through      *)
(* bySocket and judges them by bySession), and it implements WatchRelation.*)
(***************************************************************************)
RegistryInv == RegistryTypeOK /\ MapsAgree /\ ToldWhileWatched

LEMMA RegistryStart == RegistryInit => RegistryInv
  BY DEF RegistryInit, RegistryInv, RegistryTypeOK, MapsAgree, ToldWhileWatched,
         IsWatched

LEMMA RegistryMoves == RegistryInv /\ [RegistryNext]_regVars => RegistryInv'
<1> SUFFICES ASSUME RegistryInv, [RegistryNext]_regVars PROVE RegistryInv'
  OBVIOUS
<1> USE DEF RegistryInv, RegistryTypeOK, MapsAgree, ToldWhileWatched, IsWatched,
            FirstWatcher, LastWatcher
<1>1. ASSUME NEW s \in Session, NEW c \in Socket, Add(s, c) PROVE RegistryInv'
  BY <1>1 DEF Add
<1>2. ASSUME NEW s \in Session, NEW c \in Socket, Remove(s, c) PROVE RegistryInv'
  <2>1. RegistryTypeOK'
    BY <1>2 DEF Remove
  <2>2. MapsAgree'
    BY <1>2 DEF Remove
  <2>3. ToldWhileWatched'
    BY <1>2 DEF Remove
  <2>4. QED
    BY <2>1, <2>2, <2>3
<1>3. ASSUME NEW c \in Socket, RemoveSocket(c) PROVE RegistryInv'
  <2>1. RegistryTypeOK'
    BY <1>3 DEF RemoveSocket
  <2>2. MapsAgree'
    BY <1>3 DEF RemoveSocket
  <2>3. ASSUME NEW s \in Session PROVE s \in streaming' <=> bySession'[s] # {}
    <3>1. CASE c \in bySession[s]
      BY <1>3, <3>1 DEF RemoveSocket, OrphanedBy
    <3>2. CASE c \notin bySession[s]
      BY <1>3, <3>2 DEF RemoveSocket, OrphanedBy
    <3>3. QED
      BY <3>1, <3>2
  <2>4. QED
    BY <2>1, <2>2, <2>3
<1>4. CASE UNCHANGED regVars
  BY <1>4 DEF regVars
<1>5. QED
  BY <1>1, <1>2, <1>3, <1>4 DEF RegistryNext

\* Every map and signal keeps its type.
THEOREM RegistryTypes == RegistrySpec => []RegistryTypeOK
<1>1. RegistryInv => RegistryTypeOK
  BY DEF RegistryInv
<1>2. QED
  BY <1>1, RegistryStart, RegistryMoves, PTL DEF RegistrySpec

\* The two maps never disagree.
THEOREM RegistryMaps == RegistrySpec => []MapsAgree
<1>1. RegistryInv => MapsAgree
  BY DEF RegistryInv
<1>2. QED
  BY <1>1, RegistryStart, RegistryMoves, PTL DEF RegistrySpec

\* A student has been told to stream exactly while somebody watches.
THEOREM RegistrySignal == RegistrySpec => []ToldWhileWatched
<1>1. RegistryInv => ToldWhileWatched
  BY DEF RegistryInv
<1>2. QED
  BY <1>1, RegistryStart, RegistryMoves, PTL DEF RegistrySpec

-----------------------------------------------------------------------------
(* The registry implements WatchRelation.                                  *)

Pairs == {p \in Session \X Socket : p[2] \in bySession[p[1]]}

\* The signal follows the pairs, so a step of the relation only has to get the
\* pairs right.
LEMMA TellsPairs ==
    ASSUME RegistryInv'
    PROVE  streaming' = {s \in Session : \E c \in Socket : <<s, c>> \in Pairs'}
  BY DEF RegistryInv, RegistryTypeOK, ToldWhileWatched, IsWatched, Pairs

LEMMA RelationStep ==
    RegistryInv /\ RegistryInv' /\ [RegistryNext]_regVars
      => [Relation!Next]_(Relation!vars)
<1> SUFFICES ASSUME RegistryInv, RegistryInv', [RegistryNext]_regVars
             PROVE  [Relation!Next]_(Relation!vars)
  OBVIOUS
<1>1. ASSUME NEW s \in Session, NEW c \in Socket, Add(s, c) PROVE Relation!Next
  <2>1. Pairs' = Pairs \cup {<<s, c>>}
    BY <1>1 DEF Add, Pairs, RegistryInv, RegistryTypeOK
  <2>2. Relation!Becomes(Pairs \cup {<<s, c>>})
    BY <2>1, TellsPairs DEF Relation!Becomes, Pairs
  <2>3. QED
    BY <2>2 DEF Relation!Next, Pairs
<1>2. ASSUME NEW s \in Session, NEW c \in Socket, Remove(s, c) PROVE Relation!Next
  <2>1. Pairs' = Pairs \ {<<s, c>>}
    BY <1>2 DEF Remove, Pairs, RegistryInv, RegistryTypeOK
  <2>2. Relation!Becomes(Pairs \ {<<s, c>>})
    BY <2>1, TellsPairs DEF Relation!Becomes, Pairs
  <2>3. QED
    BY <2>2 DEF Relation!Next, Pairs
<1>3. ASSUME NEW c \in Socket, RemoveSocket(c) PROVE Relation!Next
  <2>1. Pairs' = {p \in Pairs : p[2] # c}
    BY <1>3 DEF RemoveSocket, Pairs, RegistryInv, RegistryTypeOK, MapsAgree
  <2>2. Relation!Becomes({p \in Pairs : p[2] # c})
    BY <2>1, TellsPairs DEF Relation!Becomes, Pairs
  <2>3. QED
    BY <2>2 DEF Relation!Next, Pairs
<1>4. CASE UNCHANGED regVars
  BY <1>4 DEF regVars, Relation!vars
<1>5. QED
  BY <1>1, <1>2, <1>3, <1>4 DEF RegistryNext

LEMMA RelationInit == RegistryInit => Relation!Init
  BY DEF RegistryInit, Relation!Init

\* The registry implements the relation it stands for.
THEOREM RegistryImplements == RegistrySpec => KeepsRelation
  BY RelationInit, RelationStep, RegistryStart, RegistryMoves, PTL
  DEF RegistrySpec, KeepsRelation, Relation!Spec

-----------------------------------------------------------------------------
(***************************************************************************)
(* The registry inside the relay: whatever awaits, drops and stops overtake*)
(* one another, a handler changes it by one of its three operations or     *)
(* leaves it alone, and a restart empties it.                              *)
(***************************************************************************)
LEMMA RelaySteps ==
    [Next]_vars => RegistryNext \/ ServerRestart \/ UNCHANGED regVars
<1> SUFFICES ASSUME [Next]_vars
             PROVE  RegistryNext \/ ServerRestart \/ UNCHANGED regVars
  OBVIOUS
<1>1. CASE UNCHANGED vars
  BY <1>1 DEF vars
<1>2. StudentStep => UNCHANGED regVars
  BY DEF StudentStep, HearStart, HearStop, SyncSucceeds, SyncFails, RetryFires, StudentDrops,
         StudentConnects, StudentReloads, Disarm
<1>3. ServerJoin \/ ServerSynced \/ AnnounceFlush \/ Flip \/ AnnounceEnd \/ EndUnannounced
        => UNCHANGED regVars
  BY DEF ServerJoin, ServerSynced, AnnounceFlush, Flip, AnnounceEnd, EndForAll, EndUnannounced
<1>4. ASSUME NEW c \in Socket, SocketStep(c) PROVE RegistryNext \/ UNCHANGED regVars
  <2>1. ASSUME NEW m \in Mount, Grant(c, m) PROVE RegistryNext
    BY <2>1, ExamAssumption DEF Grant, RegistryNext
  <2>2. ASSUME NEW m \in Mount, Deny(c, m) PROVE UNCHANGED regVars
    BY <2>2 DEF Deny
  <2>3. ServerWatch(c) => UNCHANGED regVars
    BY DEF ServerWatch
  <2>4. ServerUnwatch(c) => RegistryNext
    BY ExamAssumption DEF ServerUnwatch, RegistryNext
  <2>5. ServerDisconnect(c) => RegistryNext
    BY DEF ServerDisconnect, DropSocket, RegistryNext
  <2>6. QED
    BY <1>4, <2>1, <2>2, <2>3, <2>4, <2>5 DEF SocketStep
<1>5. ASSUME NEW d \in Dvr, DvrStep(d) PROVE UNCHANGED regVars
  BY <1>5 DEF DvrStep, Open, Close, ServeReplay, ReplayFails, Subscribe, Unsubscribe, Reconcile,
     Answered, HearVerdict, HearBroadcast, DvrDrops, DvrConnects
<1>6. QED
  BY <1>1, <1>2, <1>3, <1>4, <1>5 DEF Next

LEMMA RestartEmpties ==
    ServerRestart => RegistryInv' /\ Relation!Becomes({})
<1> SUFFICES ASSUME ServerRestart PROVE RegistryInv' /\ Relation!Becomes({})
  OBVIOUS
<1>1. RegistryInv'
  BY DEF ServerRestart, RegistryInv, RegistryTypeOK, MapsAgree, ToldWhileWatched, IsWatched
<1>2. Pairs' = {}
  BY DEF ServerRestart, Pairs
<1>3. QED
  BY <1>1, <1>2, TellsPairs DEF Relation!Becomes, Pairs

LEMMA RelayMoves == RegistryInv /\ [Next]_vars => RegistryInv'
  BY RelaySteps, RestartEmpties, RegistryMoves

Emptied == Relation!Becomes({})

\* In the relay the registry is still the relation, in which a restart leaves
\* no pair: no await, disconnect or overtaken stop makes its two maps part or
\* loses a first or a last watcher (liveRelay.ts).
THEOREM RelayKeepsRelation ==
    Spec => Relation!Init /\ [][Relation!Next \/ Emptied]_(Relation!vars)
<1>1. Init => RegistryInit
  BY DEF Init
<1>2. RegistryInv /\ RegistryInv' /\ [Next]_vars => [Relation!Next \/ Emptied]_(Relation!vars)
  BY RelaySteps, RestartEmpties, RelationStep DEF Emptied
<1>3. QED
  BY <1>1, <1>2, RegistryStart, RelayMoves, RelationInit, PTL DEF Spec
=============================================================================
