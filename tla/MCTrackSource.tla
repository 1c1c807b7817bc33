---------------------------- MODULE MCTrackSource ----------------------------
(* Instances of TrackSource for TLC.                                         *)
EXTENDS TrackSource

CONSTANT fine

\* The API reports a high rate and no valid depth.
OddFormats == [t \in Tracks |-> [rate |-> 96, depth |-> 32]]

Rates == {44, 48, 96}
TwoPlayers == {{}, {48, 88}}
=============================================================================
