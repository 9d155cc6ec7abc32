---------------------------- MODULE MCLiveWatch ----------------------------
(***************************************************************************)
(* Small instances of LiveWatch: one or two players of one session.        *)
(***************************************************************************)
EXTENDS LiveWatch

\* The dashboards' sockets were there before the first player, one arrangement of
\* the interchangeable sockets standing for all of them.
OnlineInit ==
    /\ Init
    /\ sock = CHOOSE f \in [Dvr -> Socket] : \A d, e \in Dvr : f[d] = f[e] => d = e

OnlineSpec == OnlineInit /\ [][Next]_vars /\ Fairness
=============================================================================
