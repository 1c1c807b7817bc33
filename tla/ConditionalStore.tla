-------------------------- MODULE ConditionalStore --------------------------
(***************************************************************************)
(* What the queue edits of YnisonClient promise to their callers, without  *)
(* versions, generations, baselines, echoes or frames: the queue is a      *)
(* store with reservations.  A caller reserves when it decides what to     *)
(* write, and its write is accepted only while nothing has broken that     *)
(* reservation.  One write is on its way at a time.  A broken reservation  *)
(* is never mended, with one exception: a write that fails has broken      *)
(* nothing.                                                                *)
(***************************************************************************)
CONSTANTS
    Writers,        \* those who write to the store
    Nobody          \* no writer

VARIABLES
    reserved,       \* the writers with a reservation
    broken,         \* broken[w]: by what w's reservation is broken: "others", a write
                    \* of ours that was "accepted", or one that is "under way"
    writing         \* the writer whose write is under way, or Nobody

vars == <<reserved, broken, writing>>

Causes == {"others", "accepted", "under way"}

Init ==
    /\ reserved = {}
    /\ broken = [w \in Writers |-> {}]
    /\ writing = Nobody

Reserve(w) ==
    /\ w \notin reserved /\ writing # w
    /\ reserved' = reserved \union {w}
    /\ UNCHANGED <<broken, writing>>

\* A reservation is given up, not while its write is under way.
Abandon(w) ==
    /\ w \in reserved /\ writing # w
    /\ reserved' = reserved \ {w}
    /\ broken' = [broken EXCEPT ![w] = {}]
    /\ UNCHANGED writing

\* Other devices, or a new connection, break any reservations they like.
Disturb ==
    /\ \E breaks \in SUBSET reserved :
         broken' = [w \in Writers |-> IF w \in breaks THEN broken[w] \union {"others"}
                                      ELSE broken[w]]
    /\ UNCHANGED <<reserved, writing>>

\* A write starts under an unbroken reservation; it may break those of others.
Commit(w) ==
    /\ writing = Nobody
    /\ w \in reserved /\ broken[w] = {}
    /\ writing' = w
    /\ \E breaks \in SUBSET (reserved \ {w}) :
         broken' = [v \in Writers |-> IF v \in breaks THEN broken[v] \union {"under way"}
                                      ELSE broken[v]]
    /\ UNCHANGED reserved

\* A write that needs no reservation.
Overwrite(w) ==
    /\ writing = Nobody /\ w \notin reserved
    /\ writing' = w
    /\ UNCHANGED <<reserved, broken>>

\* The write is accepted, and what it broke stays broken.
Succeed(w) ==
    /\ writing = w
    /\ writing' = Nobody
    /\ reserved' = reserved \ {w}
    /\ broken' = [v \in Writers |->
         IF v = w THEN {}
         ELSE IF "under way" \in broken[v] THEN (broken[v] \ {"under way"}) \union {"accepted"}
         ELSE broken[v]]

\* The write fails and has broken nothing.  Its writer may keep the reservation, as
\* broken as others have left it.
Fail(w) ==
    /\ writing = w
    /\ writing' = Nobody
    /\ \/ /\ reserved' = reserved
          /\ broken' = [v \in Writers |-> broken[v] \ {"under way"}]
       \/ /\ reserved' = reserved \ {w}
          /\ broken' = [v \in Writers |->
               IF v = w THEN {} ELSE broken[v] \ {"under way"}]

Next ==
    \/ \E w \in Writers :
         Reserve(w) \/ Abandon(w) \/ Commit(w) \/ Overwrite(w) \/ Succeed(w) \/ Fail(w)
    \/ Disturb

Spec == Init /\ [][Next]_vars
=============================================================================
