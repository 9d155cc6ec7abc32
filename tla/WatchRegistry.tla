---------------------------- MODULE WatchRegistry ----------------------------
(***************************************************************************)
(* live/watchRegistry.ts: which instructor sockets watch which sessions,   *)
(* kept twice, by session and by socket, so that a disconnect is cheap.    *)
(* Its answers firstWatcher, lastWatcher and the list removeSocket returns *)
(* are what the relay turns into live:start and live:stop; `streaming` is  *)
(* the last of the two a session's student was sent.                       *)
(***************************************************************************)
CONSTANTS Session, Socket

VARIABLES bySession,  \* session -> sockets watching it; {} for no entry
          bySocket,   \* socket -> sessions it watches; {} for no entry
          streaming   \* the sessions whose student was last sent live:start

regVars == <<bySession, bySocket, streaming>>

RegistryTypeOK ==
    /\ bySession \in [Session -> SUBSET Socket]
    /\ bySocket \in [Socket -> SUBSET Session]
    /\ streaming \subseteq Session

RegistryInit ==
    /\ bySession = [s \in Session |-> {}]
    /\ bySocket = [c \in Socket |-> {}]
    /\ streaming = {}

IsWatched(s) == bySession[s] # {}
FirstWatcher(s) == ~IsWatched(s)
LastWatcher(s, c) == bySession[s] = {c}

\* The sessions that lose their last watcher when socket c goes.
OrphanedBy(c) == {s \in bySocket[c] : LastWatcher(s, c)}

\* add, and live:start for the first watcher.
Add(s, c) ==
    /\ streaming' = IF FirstWatcher(s) THEN streaming \cup {s} ELSE streaming
    /\ bySession' = [bySession EXCEPT ![s] = @ \cup {c}]
    /\ bySocket' = [bySocket EXCEPT ![c] = @ \cup {s}]

\* Variant: any stop that leaves nobody else behind counts as the last one.
RemoveAny(s, c) ==
    /\ streaming' = streaming \ {s}
    /\ bySession' = [bySession EXCEPT ![s] = @ \ {c}]
    /\ bySocket' = [bySocket EXCEPT ![c] = @ \ {s}]

\* remove, and live:stop for the last watcher; a stray stop changes nothing.
Remove(s, c) ==
    /\ streaming' = IF LastWatcher(s, c) THEN streaming \ {s} ELSE streaming
    /\ bySession' = [bySession EXCEPT ![s] = @ \ {c}]
    /\ bySocket' = [bySocket EXCEPT ![c] = @ \ {s}]

\* removeSocket, and live:stop for every session it orphans.
RemoveSocket(c) ==
    /\ streaming' = streaming \ OrphanedBy(c)
    /\ bySession' = [s \in Session |-> IF s \in bySocket[c] THEN bySession[s] \ {c}
                                                            ELSE bySession[s]]
    /\ bySocket' = [bySocket EXCEPT ![c] = {}]

\* Any calls in any order.
RegistryNext ==
    \E c \in Socket :
        \/ \E s \in Session : Add(s, c) \/ Remove(s, c)
        \/ RemoveSocket(c)

RegistrySpec == RegistryInit /\ [][RegistryNext]_regVars

-----------------------------------------------------------------------------
\* The two maps never disagree, so the sessions a disconnect looks at are all
\* the sessions the socket watches.
MapsAgree == \A s \in Session, c \in Socket : c \in bySession[s] <=> s \in bySocket[c]

\* A student has been told to stream exactly while somebody watches.
ToldWhileWatched == \A s \in Session : s \in streaming <=> IsWatched(s)

\* The registry is the relation of WatchRelation: duplicate starts, stray stops
\* and disconnects leave exactly the right pairs and the right signal.
Relation == INSTANCE WatchRelation WITH
    watching  <- {p \in Session \X Socket : p[2] \in bySession[p[1]]},
    streaming <- streaming

KeepsRelation == Relation!Spec
=============================================================================
