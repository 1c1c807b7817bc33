---------------------------- MODULE MCAudioStream ----------------------------
(* Instances of AudioStream for TLC.                                         *)
EXTENDS AudioStream, TLC

CONSTANTS A, B

\* Two tracks, one of them in the queue twice.
ThreeItems == {[track |-> A, at |-> 0], [track |-> A, at |-> 1], [track |-> B, at |-> 2]}
FirstA == {[track |-> A, at |-> 0]}
TwoItems == {[track |-> A, at |-> 0], [track |-> B, at |-> 1]}

\* Sessions differ in nothing but their ids (for safety runs).
AnySession == Permutations(Sessions)
=============================================================================
