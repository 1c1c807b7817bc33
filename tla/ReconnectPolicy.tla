--------------------------- MODULE ReconnectPolicy ---------------------------
(***************************************************************************)
(* provider/reconnect_policy.py: how long to wait before each attempt to   *)
(* reach Ynison.  The policy object is the variable policy, each of its    *)
(* methods an action on it.  Seconds are integers; a directive that does   *)
(* not parse to a positive finite number is written as -1.                 *)
(***************************************************************************)
EXTENDS Integers, Sequences, FiniteSets

CONSTANTS DefaultLadder,    \* RECONNECT_DELAYS
          IdleDelay         \* RECONNECT_IDLE_DELAY

Ascends(ladder) == \A i, j \in 1 .. Len(ladder) : i < j => ladder[i] < ladder[j]

ASSUME LadderAssumption == DefaultLadder \in Seq(Nat) /\ Ascends(DefaultLadder)
ASSUME IdleAssumption == IdleDelay \in Nat \ {0}

VARIABLE policy     \* ladder, index, key, goAway, retryable

NoKey == <<"none", "">>
TransportKey == <<"transport", "">>
RetryableCodes == {8, 10, 14}
NoCode == -1

\* Faulty variant of ParseSeconds: a directive that is no positive number is taken.
ParseSecondsUnchecked(value) == value

\* parse_seconds: a directive that is no positive finite number asks for nothing.
ParseSeconds(value) == IF value > 0 THEN value ELSE 0

\* parse_backoff_ladder of the parts of a directive: the numbers, each once, ascending.
ParseLadder(parts) ==
    LET rungs == {rung \in parts : rung >= 0}
    IN [i \in 1 .. Cardinality(rungs) |->
          CHOOSE rung \in rungs : Cardinality({r \in rungs : r < rung}) = i - 1]

Fresh == [ladder |-> <<>>, index |-> 0, key |-> NoKey, goAway |-> 0, retryable |-> TRUE]

\* Faulty variant of Adopt: every failure restarts the ladder.
AdoptAfresh(key) == 0

\* _adopt: the ladder restarts when the error kind changes.
Adopt(key) == IF key = policy.key THEN policy.index ELSE 0

OnServerError(code, grpc, goAway, parts) ==
    LET key == <<IF goAway > 0 THEN "go_away" ELSE "basic", code>>
    IN policy' = [ladder |-> ParseLadder(parts), index |-> Adopt(key), key |-> key,
                  goAway |-> goAway,
                  retryable |-> goAway > 0 \/ grpc \in RetryableCodes \union {NoCode}]

OnTransportFailure ==
    policy' = [policy EXCEPT !.ladder = <<>>, !.index = Adopt(TransportKey),
                             !.key = TransportKey, !.retryable = TRUE]

OnHealthy == policy' = Fresh

\* Faulty variant of GoAwayPending: a go-away read during a wait is overlooked.
GoAwayNeverPending == FALSE

\* go_away_pending
GoAwayPending == policy.goAway > 0

\* next_delay: the wait, and what taking it leaves.
Ladder == IF policy.ladder = <<>> THEN DefaultLadder ELSE policy.ladder
Climbs == policy.retryable /\ policy.index < Len(Ladder)

Delay ==
    IF GoAwayPending THEN policy.goAway
    ELSE IF Climbs THEN Ladder[policy.index + 1] ELSE IdleDelay

TakeDelay ==
    policy' = IF GoAwayPending THEN [policy EXCEPT !.goAway = 0, !.index = 0]
              ELSE IF Climbs THEN [policy EXCEPT !.index = @ + 1] ELSE policy
=============================================================================
