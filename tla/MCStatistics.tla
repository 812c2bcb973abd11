---------------------------- MODULE MCStatistics ----------------------------
(* Events and symmetry for the runs of Statistics.                         *)
EXTENDS Statistics, TLC

\* GET /play/{track_id}.
Starts == {[status |-> "started", track |-> t, listener |-> Nobody] : t \in Tracks}

\* POST /ping and /stop, and the timeouts.
Presence == [status : {"playing", "stopped"}, track : Tracks, listener : Listeners]

\* An empty user_session, a record that does not validate.
Skipped == [status : {"playing", "invalid"}, track : Tracks, listener : {Nobody}]

StartsAndPresence == Starts \cup Presence
AllEvents == StartsAndPresence \cup Skipped
AllFaults == StatisticsFaultKinds
Symmetry == Permutations(Tracks) \cup Permutations(Listeners) \cup Permutations(Partitions)

=============================================================================
