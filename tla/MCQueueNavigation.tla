-------------------------- MODULE MCQueueNavigation --------------------------
(* Instances of QueueNavigation for TLC.                                     *)
EXTENDS QueueNavigation, TLC

List(items, current, radio) ==
    [items |-> items, current |-> current, shuffled |-> FALSE, order |-> <<>>,
     repeat |-> "NONE", radio |-> radio]

\* The same track twice in a row: a move that neither the track nor an edit shows.
OneQueue == {List(<<"a", "a">>, 0, FALSE)}
TwoQueues == OneQueue \union {List(<<"b", "a">>, 0, FALSE)}

\* A RADIO queue that the next append trims.
RadioQueue == {List(<<"a", "b", "a">>, 1, TRUE)}

AllQueues == TwoQueues \union RadioQueue

\* A RADIO queue that an append after a Next trims.
ShortRadio == {List(<<"a", "b">>, 0, TRUE)}

CONSTANTS c1, c2
NextAndRepeat == c1 :> {"next"} @@ c2 :> {"repeat"}
NextRepeatAndEnd == c1 :> {"next"} @@ c2 :> {"repeat", "end"}
PauseAndRepeat == c1 :> {"next"} @@ c2 :> {"pause", "repeat"}
AllButPause == c1 :> {"next", "append"} @@ c2 :> {"repeat", "shuffle", "end", "previous"}
AppendAndPrevious == c1 :> {"append"} @@ c2 :> {"end", "previous"}
=============================================================================
