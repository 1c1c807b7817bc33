---------------------------- MODULE QueueEditing ----------------------------
(***************************************************************************)
(* One player state edited by any sequence of the calls of                 *)
(* provider/queue_model.py, the way the client and the provider make them: *)
(* Next and natural ends through plan_navigation, Previous and a RADIO     *)
(* advance through set_index, appends through replace_items, and the two   *)
(* option edits.  Playables are serial numbers, so that an item of the     *)
(* list is told apart from another copy of the same track.                 *)
(*                                                                         *)
(* heard is a history variable: the items played, each once per start,     *)
(* since shuffle last changed or a wrap, Previous or restart broke the     *)
(* pass.                                                                   *)
(***************************************************************************)
EXTENDS QueueModel, FiniteSets

CONSTANTS MaxSerial,    \* bound: number of items ever published
          Batch         \* items a RADIO append adds at a time

VARIABLES ps,           \* the player state
          serial,       \* serial number of the newest item
          outcome,      \* result of the last call
          heard

vars == <<ps, serial, outcome, heard>>

ASSUME BoundAssumption == MaxSerial \in Nat \ {0} /\ Batch \in Nat \ {0}

Ours == "self"

\* Every edit of queue_model.py leaves a queue of published items, an index that the
\* trim has not pushed below -1, and one of the statuses the calls write.
TypeOK ==
    /\ ps.queue.items \in Seq(1 .. MaxSerial)
    /\ ps.queue.current \in -1 .. MaxSerial
    /\ ps.queue.repeat \in RepeatModes
    /\ ps.queue.radio \in BOOLEAN
    /\ ps.status.progress \in {0, End} /\ ps.status.paused \in BOOLEAN
    /\ serial \in 0 .. MaxSerial
    /\ outcome \in {"none", "change", "restart", "stop", "radio"}
    /\ heard \in Seq(1 .. MaxSerial)

\* A peer starts a queue of n items at one of them.
Init ==
    \E n \in 1 .. MaxSerial - Batch, radio \in BOOLEAN :
      \E current \in 0 .. n - 1 :
        /\ ps = [queue |-> [items |-> [i \in 1 .. n |-> i], current |-> current,
                            shuffled |-> FALSE, order |-> <<>>,
                            repeat |-> "NONE", radio |-> radio],
                 status |-> Beginning("peer")]
        /\ serial = n
        /\ outcome = "none"
        /\ heard = <<current + 1>>

Playing(s) == CHOOSE item \in CurrentPlayable(s.queue) : TRUE

\* advance_queue: the current item ended (natural) or Next was pressed.
Advance(natural) ==
    /\ ps' = Navigate(ps, natural, Ours)
    /\ outcome' = Outcome(ps.queue, natural)
    /\ heard' = CASE outcome' = "change" /\ NextIndex(ps.queue, FALSE) # {} ->
                       Append(heard, Playing(ps'))
                  [] outcome' \in {"stop", "radio"} -> heard
                  [] OTHER -> <<Playing(ps')>>
    /\ UNCHANGED serial

\* _on_previous: go_to_index of the previous item, when there is one.
Previous ==
    \E index \in PreviousIndex(ps.queue) :
        /\ ps' = SetIndex(ps, index, Ours)
        /\ outcome' = "change"
        /\ heard' = <<Playing(ps')>>
        /\ UNCHANGED serial

NewItems == ps.queue.items \o [i \in 1 .. Batch |-> serial + i]

\* _update_queue_list: publish_items of an expanded RADIO list.
Prefetch ==
    /\ ps.queue.radio
    /\ serial + Batch <= MaxSerial
    /\ ps' = ReplaceItems(ps, NewItems)
    /\ serial' = serial + Batch
    /\ outcome' = "none"
    /\ UNCHANGED heard

\* _complete_track at the end of a RADIO list: go_to_index of the first new item.
AdvanceIntoBatch ==
    /\ outcome = "radio"
    /\ serial + Batch <= MaxSerial
    /\ ps' = SetIndexIn(ps, Size(ps.queue), NewItems, Ours)
    /\ serial' = serial + Batch
    /\ outcome' = "change"
    /\ heard' = Append(heard, Playing(ps'))

Repeat(mode) ==
    /\ ps' = SetRepeat(ps, mode)
    /\ outcome' = "none"
    /\ UNCHANGED <<serial, heard>>

Shuffle(enabled) ==
    /\ ps' \in SetShuffle(ps, enabled)
    /\ outcome' = "none"
    /\ heard' = <<Playing(ps)>>
    /\ UNCHANGED serial

Next ==
    \/ \E natural \in BOOLEAN : Advance(natural)
    \/ Previous
    \/ Prefetch
    \/ AdvanceIntoBatch
    \/ \E mode \in RepeatModes : Repeat(mode)
    \/ \E enabled \in BOOLEAN : Shuffle(enabled)

Spec == Init /\ [][Next]_vars

-----------------------------------------------------------------------------
(* Properties                                                                *)

\* An append (with its trim) and an option edit never change which occurrence
\* is playing: the index may shift, the item may not.
EditsKeepTheItem ==
    [][outcome' = "none" => CurrentPlayable(ps'.queue) = CurrentPlayable(ps.queue)]_vars

\* A pass through the list plays no item twice until it is broken by a wrap,
\* Previous, a restart or a new shuffle, appends and trims notwithstanding.
NoItemHeardTwice ==
    \A i, j \in 1 .. Len(heard) : heard[i] = heard[j] => i = j

\* A shuffled queue stops only after every item of the list had its turn since
\* shuffle started, when the pass was never broken.
ShuffleSkipsNothing ==
    outcome = "stop" /\ ps.queue.shuffled /\ heard[1] = ps.queue.items[ps.queue.order[1] + 1]
        => {heard[i] : i \in 1 .. Len(heard)}
              = {ps.queue.items[i] : i \in 1 .. Size(ps.queue)}

\* A RADIO advance lands on the first item of the new batch, whatever the trim
\* in front of it did to the indices.
RadioAdvanceIsContiguous ==
    [][outcome' = "change" /\ serial' # serial => Playing(ps') = serial + 1]_vars

\* An append leaves a RADIO list no longer than the window, or with nothing left
\* in front of the current item to drop (README.md: "RADIO queues keep at most 200
\* items around the current track").
WindowKept ==
    [][serial' # serial => Size(ps'.queue) <= Window \/ ps'.queue.current = 0]_vars
=============================================================================
