---------------------------- MODULE WatchRelation ----------------------------
(***************************************************************************)
(* What the watch registry promises: a set of (session, socket) pairs, and *)
(* a student who has been told to stream exactly when somebody watches,    *)
(* told once to start and once to stop however many watchers come and go.  *)
(***************************************************************************)
CONSTANTS Session, Socket

VARIABLES watching,   \* who watches whom
          streaming   \* the sessions whose student was last told to stream

vars == <<watching, streaming>>

Init == watching = {} /\ streaming = {}

Becomes(W) ==
    /\ watching' = W
    /\ streaming' = {s \in Session : \E c \in Socket : <<s, c>> \in W}

Next ==
    \E c \in Socket :
        \/ \E s \in Session : \/ Becomes(watching \cup {<<s, c>>})
                              \/ Becomes(watching \ {<<s, c>>})
        \/ Becomes({p \in watching : p[2] # c})

Spec == Init /\ [][Next]_vars
=============================================================================
