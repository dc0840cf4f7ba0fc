----------------------------- MODULE MCVoiceCall -----------------------------
(***************************************************************************)
(* Model values for VoiceCall.  The ids and workers of the connections are *)
(* chosen by Init, so two connections cover the same id on one worker, on  *)
(* two workers, and different ids competing for one session slot.          *)
(***************************************************************************)
EXTENDS VoiceCall, TLC

\* Connections, ids and workers are only told apart by equality (safety runs).
Symmetry == Permutations(Conns) \cup Permutations(Sids) \cup Permutations(Workers)

\* Bound: the connections share an id or a worker.  Those that share neither have
\* nothing in common but the number of restarts.
MeetingInit ==
    /\ Init
    /\ \E c, d \in Conns : c # d /\ (sid[c] = sid[d] \/ worker[c] = worker[d])
MeetingSafety == MeetingInit /\ [][Next]_vars
=============================================================================
