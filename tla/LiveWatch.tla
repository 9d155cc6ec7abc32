----------------------------- MODULE LiveWatch -----------------------------
(***************************************************************************)
(* The control plane of the live DVR for one session: who is told to       *)
(* stream, who is told the edge is live, and how everybody finds out that  *)
(* it is over.                                                             *)
(*                                                                         *)
(*   student page (lib/liveStream.js)  --join, synced-->  live/liveRelay.ts*)
(*                                     <--start, stop--                    *)
(*   DVR (components/DvrPlayer.jsx)    --watch, unwatch-> live/liveRelay.ts*)
(*                                     <--granted, denied, synced,         *)
(*                                        flushed, end--                   *)
(*                                                                         *)
(* watch:start is answered after an awaited ownership query, during which  *)
(* everything else goes on.  A socket that drops loses what it carried;    *)
(* the server notices later than the client; a client that reconnects gets *)
(* a new socket, sends what it had to hold back, and only then says hello. *)
(* The watch room of socket.io always has the members the registry has, so *)
(* it is not kept separately.  The registry's maps and their operations    *)
(* are WatchRegistry's.                                                    *)
(***************************************************************************)
EXTENDS Naturals, Sequences, WatchRegistry

CONSTANTS
    Dvr,           \* instructors' players
    Exam,          \* the session that is followed
    None,          \* no socket
    MaxOpens,      \* bound: how often each player is opened
    MaxReloads,    \* bound: replay requests of one player under way at once
    MaxFlushes,    \* bound: flushes announced
    StudentFaults, \* bound: drops and reloads of the student, failed flushes
    DvrFaults,     \* bound: drops of instructors, failed queries and reloads
    Restarts,      \* bound: server restarts
    First          \* bound: None, or the player that is opened first; then several
                   \* players, faults of the student and of a player exclude each other

ASSUME NoneAssumption == None \notin Socket
ASSUME ExamAssumption == Exam \in Session
ASSUME BoundsAssumption ==
    {MaxOpens, MaxReloads, MaxFlushes, StudentFaults, DvrFaults, Restarts} \subseteq Nat

VARIABLES
    link,        \* the student's socket is connected
    joined,      \* ... and in the session's room
    watched,     \* liveStream.js: the three flags,
    synced,
    stopped,
    syncs,       \* calls of syncNow awaiting their flush,
    retry,       \* and the retry timer
    toStudent,   \* live:start and live:stop on their way
    fromStudent, \* session:join and live:synced, sent or held back
    session,     \* "open", "flipped"; then "over", its end announced, or "silent"
    connected,   \* sockets the server takes for connected
    awaiting,    \* watch:start handlers awaiting canWatch, by socket and mount
    toDvr,       \* messages to each socket
    fromDvr,     \* messages from each socket
    sock,        \* the socket of each player's page
    held,        \* what the page wrote while it had none
    mount,       \* how often the player was opened
    view,        \* liveStatus; "closed" when there is no player
    subscribed,  \* the live subscription effect is active
    asked,       \* replay requests not yet served
    answers,     \* replay answers on their way: was the row SUBMITTED?
    flushes, studentFaults, dvrFaults, restarts

pageVars    == <<watched, synced, stopped, syncs, retry>>
studentVars == <<link, joined, pageVars, toStudent, fromStudent>>
serverVars  == <<connected, awaiting>>
wireVars    == <<toDvr, fromDvr>>
netVars     == <<sock, held>>
dvrVars     == <<mount, view, subscribed, asked, answers>>
bounds      == <<flushes, studentFaults, dvrFaults, restarts>>
vars == <<studentVars, session, regVars, serverVars, wireVars, netVars, dvrVars, bounds>>

Watchers == bySession[Exam]

Mount == 1..MaxOpens
Signal == {"start", "stop"}
Request == [kind : {"watch"}, mount : Mount] \cup [kind : {"unwatch"}]
Reply == [kind : {"granted", "denied"}, mount : Mount]
Broadcast == [kind : {"synced", "flushed", "end"}]
View == {"closed", "connecting", "syncing", "following", "ended", "lost", "denied"}

TypeOK ==
    /\ {link, joined, watched, synced, stopped, retry} \subseteq BOOLEAN
    /\ syncs \in Nat
    /\ toStudent \in Seq(Signal)
    /\ fromStudent \in Seq({"join", "synced"})
    /\ session \in {"open", "flipped", "over", "silent"}
    /\ RegistryTypeOK
    /\ connected \subseteq Socket
    /\ awaiting \in [Socket -> [Mount -> Nat]]
    /\ toDvr \in [Socket -> Seq(Reply \cup Broadcast)]
    /\ fromDvr \in [Socket -> Seq(Request)]
    /\ sock \in [Dvr -> Socket \cup {None}]
    /\ held \in [Dvr -> Seq(Request)]
    /\ mount \in [Dvr -> 0..MaxOpens]
    /\ view \in [Dvr -> View]
    /\ subscribed \in [Dvr -> BOOLEAN]
    /\ asked \in [Dvr -> 0..MaxReloads]
    /\ answers \in [Dvr -> SUBSET BOOLEAN]
    /\ flushes \in 0..MaxFlushes /\ studentFaults \in 0..StudentFaults
    /\ dvrFaults \in 0..DvrFaults /\ restarts \in 0..Restarts

\* The student's page is open and has just attached; no player is open yet.
Init ==
    /\ link \in BOOLEAN /\ joined = FALSE
    /\ watched = FALSE /\ synced = FALSE /\ stopped = FALSE
    /\ syncs = 0 /\ retry = FALSE
    /\ toStudent = <<>> /\ fromStudent = <<"join">>
    /\ session = "open"
    /\ RegistryInit
    /\ \E first \in [Dvr -> Socket \cup {None}] :
          /\ \A d, e \in Dvr : first[d] = first[e] /\ first[d] # None => d = e
          /\ sock = first
          /\ connected = {first[d] : d \in Dvr} \ {None}
    /\ awaiting = [c \in Socket |-> [m \in Mount |-> 0]]
    /\ toDvr = [c \in Socket |-> <<>>]
    /\ fromDvr = [c \in Socket |-> <<>>]
    /\ held = [d \in Dvr |-> <<>>]
    /\ mount = [d \in Dvr |-> 0]
    /\ view = [d \in Dvr |-> "closed"]
    /\ subscribed = [d \in Dvr |-> FALSE]
    /\ asked = [d \in Dvr |-> 0]
    /\ answers = [d \in Dvr |-> {}]
    /\ flushes = 0 /\ studentFaults = 0 /\ dvrFaults = 0 /\ restarts = 0

Several == \E d \in Dvr \ {First} : mount[d] > 0

StudentFault ==
    /\ First # None => ~Several /\ dvrFaults = 0
    /\ studentFaults < StudentFaults
    /\ studentFaults' = studentFaults + 1

DvrFault ==
    /\ First # None => ~Several /\ studentFaults = 0
    /\ dvrFaults < DvrFaults
    /\ dvrFaults' = dvrFaults + 1

Tell(signal) == toStudent' = IF joined THEN Append(toStudent, signal) ELSE toStudent

\* A message to a socket nobody is at any more is lost.
Deliver(S, m) ==
    toDvr' = [c \in Socket |-> IF c \in S /\ \E d \in Dvr : sock[d] = c
                               THEN Append(toDvr[c], m) ELSE toDvr[c]]

-----------------------------------------------------------------------------
(* The student's page: lib/liveStream.js.                                  *)

\* syncNow up to its await, called with watched and not stopped.
BeginSync == syncs' = IF synced THEN syncs ELSE syncs + 1

HearStart ==
    /\ toStudent # <<>> /\ Head(toStudent) = "start"
    /\ toStudent' = Tail(toStudent)
    /\ IF stopped \/ watched THEN UNCHANGED <<watched, syncs>>
                             ELSE watched' = TRUE /\ BeginSync
    /\ UNCHANGED <<link, joined, synced, stopped, retry, fromStudent, session, regVars,
                   serverVars, wireVars, netVars, dvrVars, bounds>>

HearStop ==
    /\ toStudent # <<>> /\ Head(toStudent) = "stop"
    /\ toStudent' = Tail(toStudent)
    /\ watched' = FALSE /\ synced' = FALSE /\ retry' = FALSE
    /\ UNCHANGED <<link, joined, stopped, syncs, fromStudent, session, regVars,
                   serverVars, wireVars, netVars, dvrVars, bounds>>

\* The awaited flush persisted, or there was nothing to flush.
SyncSucceeds ==
    /\ syncs > 0
    /\ syncs' = syncs - 1
    /\ synced' = TRUE
    /\ fromStudent' = Append(fromStudent, "synced")
    /\ UNCHANGED <<link, joined, watched, stopped, retry, toStudent, session, regVars,
                   serverVars, wireVars, netVars, dvrVars, bounds>>

SyncFails ==
    /\ syncs > 0
    /\ StudentFault
    /\ syncs' = syncs - 1
    /\ retry' = TRUE
    /\ UNCHANGED <<link, joined, watched, synced, stopped, toStudent, fromStudent, session,
                   regVars, serverVars, wireVars, netVars, dvrVars, flushes, dvrFaults, restarts>>

RetryFires ==
    /\ retry
    /\ retry' = FALSE
    /\ IF watched /\ ~stopped THEN BeginSync ELSE UNCHANGED syncs
    /\ UNCHANGED <<link, joined, watched, synced, stopped, toStudent, fromStudent, session,
                   regVars, serverVars, wireVars, netVars, dvrVars, bounds>>

\* The Immune Phase: handleSubmit disarms, then posts.
Disarm ==
    /\ ~stopped
    /\ stopped' = TRUE /\ watched' = FALSE /\ synced' = FALSE /\ retry' = FALSE
    /\ UNCHANGED <<link, joined, syncs, toStudent, fromStudent, session, regVars,
                   serverVars, wireVars, netVars, dvrVars, bounds>>

\* What was under way in either direction is lost with the socket.
StudentDrops ==
    /\ link
    /\ StudentFault
    /\ link' = FALSE /\ joined' = FALSE
    /\ toStudent' = <<>> /\ fromStudent' = <<>>
    /\ UNCHANGED <<pageVars, session, regVars, serverVars, wireVars, netVars, dvrVars,
                   flushes, dvrFaults, restarts>>

\* socket.io sends what was held back; then the connect listener starts over.
StudentConnects ==
    /\ ~link
    /\ link' = TRUE
    /\ IF stopped THEN UNCHANGED <<watched, synced, fromStudent>>
                  ELSE /\ watched' = FALSE /\ synced' = FALSE
                       /\ fromStudent' = Append(fromStudent, "join")
    /\ UNCHANGED <<joined, stopped, syncs, retry, toStudent, session, regVars,
                   serverVars, wireVars, netVars, dvrVars, bounds>>

\* A reload: a new page, which attaches unless the session is submitted.
StudentReloads ==
    /\ StudentFault
    /\ link' = FALSE /\ joined' = FALSE
    /\ watched' = FALSE /\ synced' = FALSE /\ syncs' = 0 /\ retry' = FALSE
    /\ stopped' = (session # "open")
    /\ toStudent' = <<>>
    /\ fromStudent' = IF session = "open" THEN <<"join">> ELSE <<>>
    /\ UNCHANGED <<session, regVars, serverVars, wireVars, netVars, dvrVars,
                   flushes, dvrFaults, restarts>>

-----------------------------------------------------------------------------
(* The server: live/liveRelay.ts.                                          *)

FromStudent(kind) ==
    /\ link
    /\ fromStudent # <<>> /\ Head(fromStudent) = kind
    /\ fromStudent' = Tail(fromStudent)

\* Variant: joining says nothing about who is watching.
JoinSilently == joined' = TRUE /\ UNCHANGED toStudent

\* session:join: into the room, and told at once if somebody is watching.
Join ==
    /\ joined' = TRUE
    /\ toStudent' = IF Watchers # {} THEN Append(toStudent, "start") ELSE toStudent

ServerJoin ==
    /\ FromStudent("join")
    /\ Join
    /\ UNCHANGED <<link, pageVars, session, regVars, serverVars, wireVars, netVars, dvrVars, bounds>>

\* live:synced goes to the watch room.
ServerSynced ==
    /\ FromStudent("synced")
    /\ Deliver(Watchers, [kind |-> "synced"])
    /\ UNCHANGED <<link, joined, pageVars, toStudent, session, regVars, serverVars,
                   fromDvr, netVars, dvrVars, bounds>>

\* announceFlush, and the student's own live:flushed.
AnnounceFlush ==
    /\ flushes < MaxFlushes
    /\ flushes' = flushes + 1
    /\ Deliver(Watchers, [kind |-> "flushed"])
    /\ UNCHANGED <<studentVars, session, regVars, serverVars, fromDvr, netVars, dvrVars,
                   studentFaults, dvrFaults, restarts>>

\* The submit request of the disarmed page flips the row ...
Flip ==
    /\ session = "open" /\ stopped
    /\ session' = "flipped"
    /\ UNCHANGED <<studentVars, regVars, serverVars, wireVars, netVars, dvrVars, bounds>>

\* Variant: only the student is told.
EndForStudent == Tell("stop") /\ UNCHANGED toDvr

\* announceSessionEnd.
EndForAll == Tell("stop") /\ Deliver(Watchers, [kind |-> "end"])

\* ... and announces the end once the job was added and the page answered.
AnnounceEnd ==
    /\ session = "flipped"
    /\ session' = "over"
    /\ EndForAll
    /\ UNCHANGED <<link, joined, pageVars, fromStudent, regVars, serverVars, fromDvr,
                   netVars, dvrVars, bounds>>

\* ... or never does: the job was not added, or the flip lost its
\* acknowledgement and the retry found the row SUBMITTED already.
EndUnannounced ==
    /\ session = "flipped"
    /\ session' = "silent"
    /\ UNCHANGED <<studentVars, regVars, serverVars, wireVars, netVars, dvrVars, bounds>>

FromDvr(c, kind) ==
    /\ c \in connected
    /\ fromDvr[c] # <<>> /\ Head(fromDvr[c]).kind = kind
    /\ fromDvr' = [fromDvr EXCEPT ![c] = Tail(@)]

\* watch:start as far as its await.
ServerWatch(c) ==
    /\ FromDvr(c, "watch")
    /\ awaiting' = [awaiting EXCEPT ![c][Head(fromDvr[c]).mount] = @ + 1]
    /\ UNCHANGED <<studentVars, session, regVars, connected, toDvr, netVars, dvrVars, bounds>>

Resume(c, m) ==
    /\ awaiting[c][m] > 0
    /\ awaiting' = [awaiting EXCEPT ![c][m] = @ - 1]

\* canWatch said yes.
Grant(c, m) ==
    /\ Resume(c, m)
    /\ Add(Exam, c)
    /\ IF FirstWatcher(Exam) THEN Tell("start") ELSE UNCHANGED toStudent
    /\ Deliver({c}, [kind |-> "granted", mount |-> m])
    /\ UNCHANGED <<link, joined, pageVars, fromStudent, session, connected, fromDvr,
                   netVars, dvrVars, bounds>>

\* canWatch said no or could not tell; an expired token is refused alike.
Deny(c, m) ==
    /\ Resume(c, m)
    /\ DvrFault
    /\ Deliver({c}, [kind |-> "denied", mount |-> m])
    /\ UNCHANGED <<studentVars, session, regVars, connected, fromDvr, netVars, dvrVars,
                   flushes, studentFaults, restarts>>

\* Variant: the registry is asked before the watcher is taken out of it.
StopTooEarly(c) == IF Watchers = {} THEN Tell("stop") ELSE UNCHANGED toStudent

\* live:stop, when remove reports the last watcher.
StopIfLast(c) == IF LastWatcher(Exam, c) THEN Tell("stop") ELSE UNCHANGED toStudent

\* watch:stop.
ServerUnwatch(c) ==
    /\ FromDvr(c, "unwatch")
    /\ Remove(Exam, c)
    /\ StopIfLast(c)
    /\ UNCHANGED <<link, joined, pageVars, fromStudent, session, serverVars, toDvr,
                   netVars, dvrVars, bounds>>

\* disconnect: registry.removeSocket, and live:stop for what it orphaned.
DropSocket(c) ==
    /\ RemoveSocket(c)
    /\ IF Exam \in OrphanedBy(c) THEN Tell("stop") ELSE UNCHANGED toStudent

\* The server notices that the other end of c is gone.
ServerDisconnect(c) ==
    /\ c \in connected
    /\ \A d \in Dvr : sock[d] # c
    /\ connected' = connected \ {c}
    /\ fromDvr' = [fromDvr EXCEPT ![c] = <<>>]
    /\ DropSocket(c)
    /\ UNCHANGED <<link, joined, pageVars, fromStudent, session, awaiting, toDvr, netVars,
                   dvrVars, bounds>>

\* The process restarts: the registry, every handler and every socket are gone,
\* and with them the announcement of an end that was not made yet.
ServerRestart ==
    /\ restarts < Restarts /\ restarts' = restarts + 1
    /\ bySession' = [s \in Session |-> {}]
    /\ bySocket' = [c \in Socket |-> {}]
    /\ streaming' = {}
    /\ connected' = {}
    /\ awaiting' = [c \in Socket |-> [m \in Mount |-> 0]]
    /\ toDvr' = [c \in Socket |-> <<>>]
    /\ fromDvr' = [c \in Socket |-> <<>>]
    /\ sock' = [d \in Dvr |-> None]
    /\ view' = [d \in Dvr |-> IF subscribed[d] /\ sock[d] # None THEN "lost" ELSE view[d]]
    /\ link' = FALSE /\ joined' = FALSE
    /\ toStudent' = <<>> /\ fromStudent' = IF link THEN <<>> ELSE fromStudent
    /\ session' = IF session = "flipped" THEN "silent" ELSE session
    /\ UNCHANGED <<pageVars, held, mount, subscribed, asked, answers, flushes,
                   studentFaults, dvrFaults>>

-----------------------------------------------------------------------------
(* The player: components/DvrPlayer.jsx.                                   *)

\* socket.emit: over the page's socket, or held back until there is one.
Emit(d, m) ==
    IF sock[d] = None
    THEN held' = [held EXCEPT ![d] = Append(@, m)] /\ UNCHANGED fromDvr
    ELSE fromDvr' = [fromDvr EXCEPT ![sock[d]] = Append(@, m)] /\ UNCHANGED held

Ask(d) == asked' = [asked EXCEPT ![d] = IF @ < MaxReloads THEN @ + 1 ELSE @]

\* The player mounts and loads the replay.
Open(d) ==
    /\ view[d] = "closed"
    /\ mount[d] < MaxOpens
    /\ First \notin {d, None} => mount[First] > 0 /\ studentFaults = 0 /\ dvrFaults = 0
    /\ mount' = [mount EXCEPT ![d] = @ + 1]
    /\ view' = [view EXCEPT ![d] = "connecting"]
    /\ Ask(d)
    /\ UNCHANGED <<studentVars, session, regVars, serverVars, wireVars, netVars,
                   subscribed, answers, bounds>>

\* It unmounts: answers under way find nobody, and the effect cleans up.
Close(d) ==
    /\ view[d] # "closed"
    /\ view' = [view EXCEPT ![d] = "closed"]
    /\ asked' = [asked EXCEPT ![d] = 0]
    /\ answers' = [answers EXCEPT ![d] = {}]
    /\ subscribed' = [subscribed EXCEPT ![d] = FALSE]
    /\ IF subscribed[d] THEN Emit(d, [kind |-> "unwatch"]) ELSE UNCHANGED <<held, fromDvr>>
    /\ UNCHANGED <<studentVars, session, regVars, serverVars, toDvr, sock, mount, bounds>>

\* GET replay reads the row; its answer may be overtaken.
ServeReplay(d) ==
    /\ asked[d] > 0
    /\ asked' = [asked EXCEPT ![d] = @ - 1]
    /\ answers' = [answers EXCEPT ![d] = @ \cup {session # "open"}]
    /\ UNCHANGED <<studentVars, session, regVars, serverVars, wireVars, netVars, mount, view,
                   subscribed, bounds>>

ReplayFails(d) ==
    /\ asked[d] > 0
    /\ DvrFault
    /\ asked' = [asked EXCEPT ![d] = @ - 1]
    /\ UNCHANGED <<studentVars, session, regVars, serverVars, wireVars, netVars, mount, view,
                   subscribed, answers, flushes, studentFaults, restarts>>

Answered(d, submitted) ==
    /\ submitted \in answers[d]
    /\ answers' = [answers EXCEPT ![d] = @ \ {submitted}]
    /\ UNCHANGED <<studentVars, session, regVars, serverVars, toDvr, sock, mount, asked, bounds>>

\* liveMode becomes true: the effect subscribes and starts watching.
Subscribe(d) ==
    /\ Answered(d, FALSE)
    /\ ~subscribed[d]
    /\ subscribed' = [subscribed EXCEPT ![d] = TRUE]
    /\ view' = [view EXCEPT ![d] = "connecting"]
    /\ Emit(d, [kind |-> "watch", mount |-> mount[d]])

\* liveMode becomes false: its clean-up.
Unsubscribe(d) ==
    /\ Answered(d, TRUE)
    /\ subscribed[d]
    /\ subscribed' = [subscribed EXCEPT ![d] = FALSE]
    /\ Emit(d, [kind |-> "unwatch"])
    /\ UNCHANGED view

\* liveMode stays what it is.
Reconcile(d, submitted) ==
    /\ Answered(d, submitted)
    /\ subscribed[d] = ~submitted
    /\ UNCHANGED <<held, fromDvr, view, subscribed>>

ToDvr(d, kind) ==
    LET c == sock[d] IN
    /\ c # None
    /\ toDvr[c] # <<>> /\ Head(toDvr[c]).kind = kind
    /\ toDvr' = [toDvr EXCEPT ![c] = Tail(@)]

\* The acknowledgement of watch:start reaches the mount that asked, if it is
\* still there.
HearVerdict(d, verdict) ==
    /\ ToDvr(d, verdict)
    /\ LET mine == view[d] # "closed" /\ Head(toDvr[sock[d]]).mount = mount[d] IN
       view' = [view EXCEPT ![d] = CASE ~mine -> @
                                     [] mine /\ verdict = "denied" -> "denied"
                                     [] OTHER -> IF @ = "ended" THEN @ ELSE "syncing"]
    /\ UNCHANGED <<studentVars, session, regVars, serverVars, fromDvr, netVars, mount,
                   subscribed, asked, answers, bounds>>

\* The subscription's listeners; none of them is there without it.
HearBroadcast(d, kind) ==
    /\ ToDvr(d, kind)
    /\ IF ~subscribed[d] THEN UNCHANGED <<view, asked>>
       ELSE /\ Ask(d)
            /\ \/ kind = "synced" /\ view' = [view EXCEPT ![d] = IF @ = "ended" THEN @ ELSE "following"]
               \/ kind = "flushed" /\ UNCHANGED view
               \/ kind = "end" /\ view' = [view EXCEPT ![d] = "ended"]
    /\ UNCHANGED <<studentVars, session, regVars, serverVars, fromDvr, netVars, mount,
                   subscribed, answers, bounds>>

DvrDrops(d) ==
    /\ sock[d] # None
    /\ DvrFault
    /\ sock' = [sock EXCEPT ![d] = None]
    /\ toDvr' = [toDvr EXCEPT ![sock[d]] = <<>>]
    /\ view' = [view EXCEPT ![d] = IF subscribed[d] THEN "lost" ELSE @]
    /\ UNCHANGED <<studentVars, session, regVars, serverVars, fromDvr, held, mount,
                   subscribed, asked, answers, flushes, studentFaults, restarts>>

\* Variant: a player that reconnects waits to be found again.
NoRewatch(d) == <<>>

\* onReconnect: the player starts watching again.
Rewatch(d) == IF subscribed[d] THEN <<[kind |-> "watch", mount |-> mount[d]]>> ELSE <<>>

\* A new socket: what was held back, then the connect listener.
DvrConnects(d, c) ==
    /\ sock[d] = None
    /\ c \notin connected /\ fromDvr[c] = <<>> /\ bySocket[c] = {}
    /\ \A m \in Mount : awaiting[c][m] = 0
    /\ sock' = [sock EXCEPT ![d] = c]
    /\ connected' = connected \cup {c}
    /\ held' = [held EXCEPT ![d] = <<>>]
    /\ fromDvr' = [fromDvr EXCEPT ![c] = held[d] \o Rewatch(d)]
    /\ view' = [view EXCEPT ![d] = IF subscribed[d] THEN "connecting" ELSE @]
    /\ UNCHANGED <<studentVars, session, regVars, awaiting, toDvr, mount, subscribed, asked,
                   answers, bounds>>

-----------------------------------------------------------------------------
StudentStep ==
    \/ HearStart \/ HearStop \/ SyncSucceeds \/ SyncFails \/ RetryFires \/ Disarm
    \/ StudentDrops \/ StudentConnects \/ StudentReloads

SocketStep(c) ==
    \/ ServerWatch(c) \/ ServerUnwatch(c) \/ ServerDisconnect(c)
    \/ \E m \in Mount : Grant(c, m) \/ Deny(c, m)

DvrStep(d) ==
    \/ Open(d) \/ Close(d) \/ ServeReplay(d) \/ ReplayFails(d)
    \/ Subscribe(d) \/ Unsubscribe(d) \/ \E s \in BOOLEAN : Reconcile(d, s)
    \/ \E v \in {"granted", "denied"} : HearVerdict(d, v)
    \/ \E k \in {"synced", "flushed", "end"} : HearBroadcast(d, k)
    \/ DvrDrops(d) \/ \E c \in Socket : DvrConnects(d, c)

Next ==
    \/ StudentStep
    \/ ServerJoin \/ ServerSynced \/ AnnounceFlush \/ Flip
    \/ AnnounceEnd \/ EndUnannounced \/ ServerRestart
    \/ \E c \in Socket : SocketStep(c)
    \/ \E d \in Dvr : DvrStep(d)

Spec == Init /\ [][Next]_vars

\* What is under way gets on: messages are heard, sockets come back, awaited
\* flushes, queries and requests settle, timers fire.  Nobody has to open,
\* close, type or submit, and nothing has to fail.
Fairness ==
    /\ WF_vars(HearStart \/ HearStop) /\ WF_vars(SyncSucceeds) /\ WF_vars(RetryFires)
    /\ WF_vars(StudentConnects) /\ WF_vars(ServerJoin \/ ServerSynced) /\ WF_vars(AnnounceEnd \/ EndUnannounced)
    /\ \A c \in Socket :
          /\ WF_vars(ServerWatch(c) \/ ServerUnwatch(c))
          /\ WF_vars(ServerDisconnect(c))
          /\ \A m \in Mount : WF_vars(Grant(c, m) \/ Deny(c, m))
    /\ \A d \in Dvr :
          /\ WF_vars(ServeReplay(d))
          /\ \A s \in BOOLEAN :
                WF_vars(s \in answers[d] /\ (Subscribe(d) \/ Unsubscribe(d) \/ Reconcile(d, s)))
          /\ WF_vars(\/ \E v \in {"granted", "denied"} : HearVerdict(d, v)
                     \/ \E k \in {"synced", "flushed", "end"} : HearBroadcast(d, k))
          /\ WF_vars(\E c \in Socket : DvrConnects(d, c))

FairSpec == Spec /\ Fairness

-----------------------------------------------------------------------------
(* Properties.                                                             *)

\* What the student will believe once everything sent to it is heard.
LastSignal == IF toStudent # <<>> THEN toStudent[Len(toStudent)] = "start" ELSE watched

\* However watchers, drops, reloads and restarts interleave, a student in the
\* room believes, or is about to be told, exactly what the registry says: it is
\* never left streaming to nobody, nor silent while somebody is registered.
SignalAgrees == joined /\ ~stopped => (LastSignal <=> Watchers # {})

\* Nothing between the player's socket and the relay is under way.
Quiet(d) ==
    /\ sock[d] # None
    /\ fromDvr[sock[d]] = <<>> /\ toDvr[sock[d]] = <<>>
    /\ \A m \in Mount : awaiting[sock[d]][m] = 0

\* A player that subscribed and has nothing under way is registered, or was
\* refused: neither a reconnect, nor a restart, nor a stop overtaken by the next
\* start leaves it waiting for a stream nobody will send it.
SubscribedIsWatching ==
    \A d \in Dvr : Quiet(d) /\ subscribed[d] => sock[d] \in Watchers \/ view[d] = "denied"

\* The stream stops when the last watcher is gone.
StreamStops == watched /\ Watchers = {} ~> ~watched \/ Watchers # {}

\* A player waits for its sync only while the page has synced for somebody else:
\* whoever waits when the page has not, because its stream is about to begin, its
\* flush failed, or it dropped, reloaded or has to start over, goes live, however
\* many players there are and however often they drop; unless the page disarms
\* or the player gives up.
GoesLive ==
    \A d \in Dvr : view[d] = "syncing" /\ subscribed[d] /\ ~synced
                      ~> view[d] # "syncing" \/ ~subscribed[d] \/ stopped

\* A player registered between the flip and the announcement, with no stop of
\* its own under way, finds out that the session ended, unless the announcement
\* is never made.
EndIsHeard ==
    \A d \in Dvr :
        session = "flipped" /\ subscribed[d] /\ sock[d] \in Watchers /\ fromDvr[sock[d]] = <<>>
          ~> view[d] \in {"ended", "closed", "lost"} \/ ~subscribed[d] \/ session = "silent"
=============================================================================
