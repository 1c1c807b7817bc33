-------------------------- MODULE MCTrackCompletion --------------------------
(* Instances of TrackCompletion for TLC.                                     *)
EXTENDS TrackCompletion

CONSTANTS stream1, player

\* The stream completes its tracks, the player sends commands.
StreamAndPlayer == [c \in Callers |-> IF c = stream1 THEN {"end"} ELSE {"next", "previous"}]

TwoTracks == [size |-> 2, current |-> 1, radio |-> TRUE, shuffled |-> FALSE]
ShuffledTwo == [size |-> 2, current |-> 0, radio |-> TRUE, shuffled |-> TRUE]
Playlist == [size |-> 2, current |-> 0, radio |-> FALSE, shuffled |-> FALSE]

RadioStarts == {TwoTracks}
AllStarts == {TwoTracks, ShuffledTwo, Playlist}
=============================================================================
