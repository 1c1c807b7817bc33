----------------------------- MODULE QueueModel -----------------------------
(***************************************************************************)
(* The pure queue rules of provider/queue_model.py: how a Ynison player    *)
(* queue is read (logical order, next, previous) and how a player state is *)
(* edited before it is published (move, append, trim, repeat, shuffle).    *)
(*                                                                         *)
(* A queue is a record                                                     *)
(*   items    playable_list, a sequence of playables                       *)
(*   current  current_playable_index, counted from 0; -1 when there is none*)
(*   shuffled whether shuffle_optional holds a playable_indices list       *)
(*   order    that list (<<>> without one), of original-list indices       *)
(*   repeat   options.repeat_mode                                          *)
(*   radio    entity_type is one of RADIO_ENTITY_TYPES                     *)
(* and a player state ("ps") is a record [queue, status].  A status is     *)
(* [progress, paused, version]; duration_ms only ever follows the item and *)
(* is left out.  Records may carry more fields: edits leave them alone.    *)
(***************************************************************************)
EXTENDS Integers, Sequences

CONSTANTS Window,       \* QUEUE_WINDOW: most items an unshuffled append keeps
          End           \* the progress of an item that played to its end

ASSUME WindowAssumption == Window \in Nat \ {0}
ASSUME EndAssumption == End \in Nat \ {0}

RepeatModes == {"NONE", "ONE", "ALL"}

Least(a, b) == IF a <= b THEN a ELSE b
Most(a, b) == IF a >= b THEN a ELSE b

-----------------------------------------------------------------------------
(* YnisonQueueView: the logical order and the neighbours of the current item *)

Size(q) == Len(q.items)
Positions(q) == 0 .. Size(q) - 1
Sequential(n) == [i \in 1 .. n |-> i - 1]

\* A shuffle list counts only when it is a permutation of all positions.
IsPermutation(order, n) ==
    /\ Len(order) = n
    /\ {order[i] : i \in 1 .. Len(order)} = 0 .. n - 1

\* Faulty variant of Order: the shuffle list is ignored.
OrderOfList(q) == Sequential(Size(q))

\* The logical order: the shuffle list, or the list itself.
Order(q) == IF q.shuffled /\ IsPermutation(q.order, Size(q))
            THEN q.order
            ELSE Sequential(Size(q))

\* The index `offset` items away in logical order, as a set: empty for None.
Relative(q, offset, wrap) ==
    LET order == Order(q)
        n == Len(order)
        target(i) == IF wrap THEN ((i - 1 + offset) % n) + 1 ELSE i + offset
    IN {order[target(i)] :
          i \in {j \in 1 .. n : order[j] = q.current /\ target(j) \in 1 .. n}}

NextIndex(q, wrap) == Relative(q, 1, wrap)

\* previous_index
PreviousIndex(q) == Relative(q, -1, FALSE)

-----------------------------------------------------------------------------
(* plan_navigation and set_index: edits that move or restart the item        *)

PlannedIndex(q, natural) ==
    IF natural /\ q.repeat = "ONE"
    THEN {q.current}
    ELSE NextIndex(q, q.repeat = "ALL" /\ ~q.radio)

Outcome(q, natural) ==
    CASE PlannedIndex(q, natural) = {} /\ q.radio      -> "radio"
      [] PlannedIndex(q, natural) = {} /\ ~q.radio     -> "stop"
      [] PlannedIndex(q, natural) = {q.current}        -> "restart"
      [] OTHER                                         -> "change"

Beginning(version) == [progress |-> 0, paused |-> FALSE, version |-> version]
Finished(version) == [progress |-> End, paused |-> TRUE, version |-> version]

\* The player state plan_navigation leaves; unchanged on a "radio" outcome.
Navigate(ps, natural, version) ==
    CASE Outcome(ps.queue, natural) = "radio" -> ps
      [] Outcome(ps.queue, natural) = "stop" ->
           [ps EXCEPT !.status = Finished(version)]
      [] OTHER ->
           [ps EXCEPT !.queue.current = CHOOSE i \in PlannedIndex(ps.queue, natural) : TRUE,
                      !.status = Beginning(version)]

-----------------------------------------------------------------------------
(* replace_items: append to the list, keep the shuffle a permutation, and    *)
(* trim an unshuffled list from the front without losing the current item    *)

\* Faulty variant of InsertShuffleIndices: new items are numbered one too high.
InsertAfterGap(order, position, count) ==
    [i \in 1 .. Len(order) |->
        IF order[i] >= position THEN order[i] + count ELSE order[i]]
      \o [i \in 1 .. count |-> position + i]

\* insert_shuffle_indices without after_current: the only form the program calls.
InsertShuffleIndices(order, position, count) ==
    [i \in 1 .. Len(order) |->
        IF order[i] >= position THEN order[i] + count ELSE order[i]]
      \o [i \in 1 .. count |-> position + i - 1]

\* Faulty variant of Dropped: the trim does not stop at the current item.
DroppedPastCurrent(q, items) == IF q.shuffled THEN 0 ELSE Most(0, Len(items) - Window)

\* How many items a replacement list loses in front: what exceeds the window, but
\* nothing from the current item on, and nothing of a shuffled list.
Dropped(q, items) ==
    IF q.shuffled
    THEN 0
    ELSE Least(Most(0, Len(items) - Window), Most(0, q.current))

\* Faulty variant of ReplaceItems: the index is not moved with the trim.
ReplaceKeepingIndex(ps, items) ==
    LET dropped == Dropped(ps.queue, items)
    IN IF ps.queue.shuffled
       THEN [ps EXCEPT !.queue.items = items,
                       !.queue.order = InsertShuffleIndices(@, Size(ps.queue),
                                                            Len(items) - Size(ps.queue))]
       ELSE [ps EXCEPT !.queue.items = SubSeq(items, dropped + 1, Len(items))]

\* replace_items
ReplaceItems(ps, items) ==
    LET q == ps.queue
        dropped == Dropped(q, items)
    IN IF q.shuffled
       THEN [ps EXCEPT !.queue.items = items,
                       !.queue.order = InsertShuffleIndices(q.order, Size(q),
                                                            Len(items) - Size(q))]
       ELSE [ps EXCEPT !.queue.items = SubSeq(items, dropped + 1, Len(items)),
                       !.queue.current = q.current - dropped]

\* set_index without and with a replacement list.
SetIndex(ps, index, version) ==
    [ps EXCEPT !.queue.current = index, !.status = Beginning(version)]

\* Faulty variant of SetIndexIn: the index is not moved with the trim.
SetIndexUntrimmed(ps, index, items, version) ==
    SetIndex(ReplaceItems(ps, items), index, version)

\* ... the index counts in the untrimmed list.
SetIndexIn(ps, index, items, version) ==
    SetIndex(ReplaceItems(ps, items), index - Dropped(ps.queue, items), version)

-----------------------------------------------------------------------------
(* set_repeat and set_shuffle: option edits                                  *)

SetRepeat(ps, mode) == [ps EXCEPT !.queue.repeat = mode]

\* Every order that starts at the current item and samples the others.
ShuffleOrders(q) ==
    LET others == [1 .. Size(q) - 1 -> Positions(q) \ {q.current}]
    IN {<<q.current>> \o sample :
          sample \in {s \in others : \A i, j \in DOMAIN s : s[i] = s[j] => i = j}}

ShuffleOn(ps, order) ==
    [ps EXCEPT !.queue.shuffled = TRUE, !.queue.order = order]

ShuffleOff(ps) ==
    [ps EXCEPT !.queue.shuffled = FALSE, !.queue.order = <<>>]

\* The results set_shuffle may leave, one for each sample.
SetShuffle(ps, enabled) ==
    IF enabled /\ ps.queue.current \in Positions(ps.queue)
    THEN {ShuffleOn(ps, order) : order \in ShuffleOrders(ps.queue)}
    ELSE {ShuffleOff(ps)}

-----------------------------------------------------------------------------
\* _current_playable_id: the current playable as a set, empty for None.
CurrentPlayable(q) ==
    IF q.current \in Positions(q) THEN {q.items[q.current + 1]} ELSE {}
=============================================================================
