-------------------------- MODULE MCTrackPipeline --------------------------
(* Instances of TrackPipeline for TLC. *)
EXTENDS TrackPipeline, TLC

AllFaults == FaultKinds

\* Uploads, workers and HLS files are interchangeable: no action and no
\* property names or orders them.
Symmetry == Permutations(Tracks) \cup Permutations(Workers) \cup Permutations(HlsFiles)
=============================================================================
