------------------------- MODULE QueueEditingProofs -------------------------
(***************************************************************************)
(* Proofs about QueueEditing, for every window, batch and number of items: *)
(* whatever sequence of edits is made, no item is heard twice in a pass,   *)
(* none of a shuffled queue is skipped, and appends, trims and options     *)
(* keep the item that plays.                                               *)
(*                                                                         *)
(* The argument: a list always holds the newest items in order, a shuffle  *)
(* list always visits each position once, and what was heard in a pass is  *)
(* a run that ends with the current item.                                  *)
(***************************************************************************)
EXTENDS QueueEditing, FiniteSetTheorems, SequenceTheorems, TLAPS

\* The fields of a player state.
IsQueue(q) ==
    q = [items |-> q.items, current |-> q.current, shuffled |-> q.shuffled, order |-> q.order,
         repeat |-> q.repeat, radio |-> q.radio]
IsStatus(s) == s = [progress |-> s.progress, paused |-> s.paused, version |-> s.version]
IsState(s) ==
    s = [queue |-> s.queue, status |-> s.status] /\ IsQueue(s.queue) /\ IsStatus(s.status)

Shape ==
    /\ IsState(ps)
    /\ ps.queue.repeat \in RepeatModes /\ ps.queue.radio \in BOOLEAN
    /\ ps.queue.shuffled \in BOOLEAN
    /\ ps.status.progress \in {0, End} /\ ps.status.paused \in BOOLEAN
    /\ outcome \in {"none", "change", "restart", "stop", "radio"}

\* A sequence of n places that visits each position of a list of n items once.
Arrangement(order, n) ==
    /\ order \in Seq(0 .. n - 1) /\ Len(order) = n
    /\ \A i, j \in 1 .. n : order[i] = order[j] => i = j
    /\ \A k \in 0 .. n - 1 : \E i \in 1 .. n : order[i] = k

\* The list holds the newest items, in the order they were published: a trim takes the
\* oldest ones and an append adds the next ones.
Newest(items, newest) ==
    /\ items \in Seq(Nat) /\ Len(items) \in 1 .. newest
    /\ \A i \in 1 .. Len(items) : items[i] = newest - Len(items) + i

Listed ==
    /\ serial \in 0 .. MaxSerial
    /\ Newest(ps.queue.items, serial)
    /\ ps.queue.current \in Positions(ps.queue)
    /\ ps.queue.shuffled => Arrangement(ps.queue.order, Size(ps.queue))

\* The item at a place of the logical order.
ItemAt(q, p) == q.items[Order(q)[p] + 1]

\* What was heard since the pass began is a run that ends with the current item: of the
\* logical order or, when a trim may have dropped its beginning, of the numbers.
Pass ==
    /\ heard \in Seq(1 .. serial) /\ Len(heard) \in Nat \ {0}
    /\ IF ps.queue.shuffled
       THEN \E p \in Len(heard) .. Size(ps.queue) :
              /\ Order(ps.queue)[p] = ps.queue.current
              /\ \A i \in 1 .. Len(heard) : heard[i] = ItemAt(ps.queue, p - Len(heard) + i)
       ELSE \A i \in 1 .. Len(heard) :
              heard[i] = ps.queue.items[ps.queue.current + 1] - Len(heard) + i

\* An advance found the end of the queue where it was.
Ended ==
    outcome \in {"stop", "radio"} => Order(ps.queue)[Size(ps.queue)] = ps.queue.current

EInv == Shape /\ Listed /\ Pass /\ Ended

-----------------------------------------------------------------------------
(* Arrangements                                                              *)

\* The list itself is an arrangement of its positions.
LEMMA SequentialArranged ==
  ASSUME NEW n \in Nat PROVE Arrangement(Sequential(n), n)
<1>1. /\ Sequential(n) \in Seq(0 .. n - 1) /\ Len(Sequential(n)) = n
      /\ \A i \in 1 .. n : Sequential(n)[i] = i - 1
  BY DEF Sequential
<1>2. ASSUME NEW k \in 0 .. n - 1 PROVE \E i \in 1 .. n : Sequential(n)[i] = k
  <2>1. k + 1 \in 1 .. n /\ (k + 1) - 1 = k
    OBVIOUS
  <2>2. Sequential(n)[k + 1] = k
    BY <1>1, <2>1
  <2> QED
    BY <2>1, <2>2
<1> QED
  BY <1>1, <1>2 DEF Arrangement

\* An arrangement of the indices is what a shuffle accepts as a permutation.
LEMMA ArrangedIsPermutation ==
  ASSUME NEW n \in Nat, NEW order, Arrangement(order, n) PROVE IsPermutation(order, n)
<1>1. \A i \in 1 .. n : order[i] \in 0 .. n - 1
  BY DEF Arrangement
<1>2. {order[i] : i \in 1 .. n} = 0 .. n - 1
  BY <1>1 DEF Arrangement
<1> QED
  BY <1>2 DEF Arrangement, IsPermutation

\* The logical order is an arrangement: the shuffle list of a shuffled queue, the list itself
\* otherwise.
LEMMA OrderArranged ==
  ASSUME NEW q, Size(q) \in Nat, q.shuffled \in BOOLEAN,
         q.shuffled => Arrangement(q.order, Size(q))
  PROVE  /\ Arrangement(Order(q), Size(q))
         /\ q.shuffled => Order(q) = q.order
         /\ ~q.shuffled => Order(q) = Sequential(Size(q))
  BY SequentialArranged, ArrangedIsPermutation DEF Order

\* The neighbours of the item at place p.
LEMMA RelativeIs ==
  ASSUME NEW q, NEW n \in Nat, Arrangement(Order(q), n), NEW p \in 1 .. n,
         Order(q)[p] = q.current, NEW offset \in {-1, 1}
  PROVE  /\ Relative(q, offset, FALSE)
              = IF p + offset \in 1 .. n THEN {Order(q)[p + offset]} ELSE {}
         /\ Relative(q, 1, TRUE) = {Order(q)[IF p < n THEN p + 1 ELSE 1]}
<1>1. Len(Order(q)) = n /\ \A j \in 1 .. n : Order(q)[j] = q.current <=> j = p
  BY DEF Arrangement
<1>2. Relative(q, offset, FALSE)
        = {Order(q)[i + offset] :
             i \in {j \in 1 .. n : Order(q)[j] = q.current /\ j + offset \in 1 .. n}}
  BY <1>1 DEF Relative
<1>3. {j \in 1 .. n : Order(q)[j] = q.current /\ j + offset \in 1 .. n}
        = IF p + offset \in 1 .. n THEN {p} ELSE {}
  BY <1>1
<1>4. Relative(q, 1, TRUE)
        = {Order(q)[((i - 1 + 1) % n) + 1] :
             i \in {j \in 1 .. n : Order(q)[j] = q.current
                                  /\ ((j - 1 + 1) % n) + 1 \in 1 .. n}}
  BY <1>1 DEF Relative
<1>5. \A j \in 1 .. n : ((j - 1 + 1) % n) + 1 = IF j < n THEN j + 1 ELSE 1
  OBVIOUS
<1>6. {j \in 1 .. n : Order(q)[j] = q.current /\ ((j - 1 + 1) % n) + 1 \in 1 .. n} = {p}
  BY <1>1, <1>5
<1>7. Relative(q, offset, FALSE) = IF p + offset \in 1 .. n THEN {Order(q)[p + offset]} ELSE {}
  <2>1. CASE p + offset \in 1 .. n
    BY <1>2, <1>3, <2>1
  <2>2. CASE p + offset \notin 1 .. n
    BY <1>2, <1>3, <2>2
  <2> QED
    BY <2>1, <2>2
<1>8. Relative(q, 1, TRUE) = {Order(q)[IF p < n THEN p + 1 ELSE 1]}
  <2>1. Relative(q, 1, TRUE) = {Order(q)[((p - 1 + 1) % n) + 1]}
    BY <1>4, <1>6
  <2> QED
    BY <1>5, <2>1
<1> QED
  BY <1>7, <1>8

\* next_index, without and with the wrap of a repeated list.
LEMMA NextIs ==
  ASSUME NEW q, NEW n \in Nat, Arrangement(Order(q), n), NEW p \in 1 .. n,
         Order(q)[p] = q.current
  PROVE  /\ NextIndex(q, FALSE) = IF p < n THEN {Order(q)[p + 1]} ELSE {}
         /\ NextIndex(q, TRUE) = {Order(q)[IF p < n THEN p + 1 ELSE 1]}
<1>1. /\ Relative(q, 1, FALSE) = IF p + 1 \in 1 .. n THEN {Order(q)[p + 1]} ELSE {}
      /\ Relative(q, 1, TRUE) = {Order(q)[IF p < n THEN p + 1 ELSE 1]}
  BY RelativeIs
<1>2. p + 1 \in 1 .. n <=> p < n
  OBVIOUS
<1> QED
  BY <1>1, <1>2 DEF NextIndex

\* previous_index is the place before the current one, if there is one.
LEMMA PreviousIs ==
  ASSUME NEW q, NEW n \in Nat, Arrangement(Order(q), n), NEW p \in 1 .. n,
         Order(q)[p] = q.current
  PROVE  PreviousIndex(q) = IF 1 < p THEN {Order(q)[p - 1]} ELSE {}
<1>1. Relative(q, -1, FALSE) = IF p - 1 \in 1 .. n THEN {Order(q)[p - 1]} ELSE {}
  BY RelativeIs
<1>2. p - 1 \in 1 .. n <=> 1 < p
  OBVIOUS
<1> QED
  BY <1>1, <1>2 DEF PreviousIndex

-----------------------------------------------------------------------------
(* The list                                                                  *)

\* The list is not empty, its logical order visits each position once, and the current item
\* has a place in it.
LEMMA ListIs ==
  ASSUME Shape, Listed
  PROVE  /\ Size(ps.queue) \in Nat \ {0} /\ Size(ps.queue) = Len(ps.queue.items)
         /\ Arrangement(Order(ps.queue), Size(ps.queue))
         /\ ps.queue.shuffled => Order(ps.queue) = ps.queue.order
         /\ ~ps.queue.shuffled => Order(ps.queue) = Sequential(Size(ps.queue))
         /\ ps.queue.current \in 0 .. Size(ps.queue) - 1
         /\ \E p \in 1 .. Size(ps.queue) : Order(ps.queue)[p] = ps.queue.current
<1>1. Size(ps.queue) \in Nat \ {0} /\ serial \in Nat
  BY DEF Listed, Newest, Size
<1>2. /\ Arrangement(Order(ps.queue), Size(ps.queue))
      /\ ps.queue.shuffled => Order(ps.queue) = ps.queue.order
      /\ ~ps.queue.shuffled => Order(ps.queue) = Sequential(Size(ps.queue))
  BY <1>1, OrderArranged DEF Shape, Listed
<1> QED
  BY <1>1, <1>2 DEF Listed, Positions, Arrangement, Size

\* A list of m items that are the newest.
LEMMA NewestIs ==
  ASSUME NEW items \in Seq(Nat), NEW newest \in Nat, NEW m \in 1 .. newest, Len(items) = m,
         \A i \in 1 .. m : items[i] = newest - m + i
  PROVE  Newest(items, newest)
  BY DEF Newest

\* The items at two places differ.
LEMMA ItemsDiffer ==
  ASSUME Shape, Listed
  PROVE  /\ \A i \in 1 .. Size(ps.queue) : ItemAt(ps.queue, i) \in 1 .. serial
         /\ \A i, j \in 1 .. Size(ps.queue) :
              ItemAt(ps.queue, i) = ItemAt(ps.queue, j) => i = j
<1>1. /\ Size(ps.queue) \in Nat \ {0} /\ Size(ps.queue) = Len(ps.queue.items)
      /\ Arrangement(Order(ps.queue), Size(ps.queue))
  BY ListIs
<1>2. \A i \in 1 .. Size(ps.queue) : Order(ps.queue)[i] \in 0 .. Size(ps.queue) - 1
  BY <1>1 DEF Arrangement
<1>3. serial \in Nat /\ Size(ps.queue) <= serial
  BY <1>1 DEF Listed, Newest
<1>4. ASSUME NEW i \in 1 .. Size(ps.queue)
      PROVE  /\ ItemAt(ps.queue, i) = serial - Size(ps.queue) + Order(ps.queue)[i] + 1
             /\ ItemAt(ps.queue, i) \in 1 .. serial
  <2>1. PICK k \in 0 .. Size(ps.queue) - 1 : k = Order(ps.queue)[i]
    BY <1>2
  <2>2. k + 1 \in 1 .. Size(ps.queue)
    BY <1>1, <2>1
  <2>3. ItemAt(ps.queue, i) = serial - Size(ps.queue) + (k + 1)
    BY <1>1, <2>1, <2>2 DEF ItemAt, Listed, Newest
  <2>4. serial - Size(ps.queue) + (k + 1) = serial - Size(ps.queue) + k + 1
    BY <1>1, <1>3
  <2>5. serial - Size(ps.queue) + (k + 1) \in 1 .. serial
    BY <1>1, <1>3
  <2> QED
    BY <2>1, <2>3, <2>4, <2>5
<1>5. ASSUME NEW i \in 1 .. Size(ps.queue), NEW j \in 1 .. Size(ps.queue),
             ItemAt(ps.queue, i) = ItemAt(ps.queue, j)
      PROVE  i = j
  <2>1. PICK k \in 0 .. Size(ps.queue) - 1 : k = Order(ps.queue)[i]
    BY <1>2
  <2>2. PICK l \in 0 .. Size(ps.queue) - 1 : l = Order(ps.queue)[j]
    BY <1>2
  <2>3. serial - Size(ps.queue) + k + 1 = serial - Size(ps.queue) + l + 1
    BY <1>4, <1>5, <2>1, <2>2
  <2>4. k = l
    BY <1>1, <1>3, <2>3
  <2> QED
    BY <1>1, <2>1, <2>2, <2>4 DEF Arrangement
<1> QED
  BY <1>4, <1>5

\* The item that plays is the one at the current index.
LEMMA PlayingIs ==
  ASSUME NEW s, s.queue.current \in Positions(s.queue)
  PROVE  /\ CurrentPlayable(s.queue) = {s.queue.items[s.queue.current + 1]}
         /\ Playing(s) = s.queue.items[s.queue.current + 1]
  BY DEF CurrentPlayable, Playing

-----------------------------------------------------------------------------
(* What the edits leave                                                      *)

\* set_index changes the index and begins the item; nothing else of the queue.
LEMMA SetIndexIs ==
  ASSUME NEW s, IsState(s), NEW i, NEW v, NEW t, t = SetIndex(s, i, v)
  PROVE  /\ IsState(t) /\ t.status = Beginning(v)
         /\ t.queue = [s.queue EXCEPT !.current = i] /\ t.queue.current = i
         /\ t.queue.items = s.queue.items /\ t.queue.order = s.queue.order
         /\ t.queue.shuffled = s.queue.shuffled /\ t.queue.repeat = s.queue.repeat
         /\ t.queue.radio = s.queue.radio
  BY DEF SetIndex, IsState, IsQueue, IsStatus, Beginning

\* set_repeat changes the mode alone.
LEMMA SetRepeatIs ==
  ASSUME NEW s, IsState(s), NEW mode, NEW t, t = SetRepeat(s, mode)
  PROVE  /\ IsState(t) /\ t.status = s.status /\ t.queue.repeat = mode
         /\ t.queue.items = s.queue.items /\ t.queue.current = s.queue.current
         /\ t.queue.shuffled = s.queue.shuffled /\ t.queue.order = s.queue.order
         /\ t.queue.radio = s.queue.radio
  BY DEF SetRepeat, IsState, IsQueue, IsStatus

\* Shuffling, or unshuffling, changes the order alone.
LEMMA ShuffleIs ==
  ASSUME NEW s, IsState(s), NEW order, NEW t, t = ShuffleOn(s, order) \/ t = ShuffleOff(s)
  PROVE  /\ IsState(t) /\ t.status = s.status /\ t.queue.repeat = s.queue.repeat
         /\ t.queue.items = s.queue.items /\ t.queue.current = s.queue.current
         /\ t.queue.radio = s.queue.radio /\ t.queue.shuffled \in BOOLEAN
         /\ t.queue.shuffled => t.queue.order = order /\ t = ShuffleOn(s, order)
<1>1. CASE t = ShuffleOn(s, order)
  BY <1>1 DEF ShuffleOn, IsState, IsQueue, IsStatus
<1>2. CASE t = ShuffleOff(s)
  <2>1. t.queue.shuffled = FALSE
    BY <1>2 DEF ShuffleOff, IsState, IsQueue
  <2> QED
    BY <1>2, <2>1 DEF ShuffleOff, IsState, IsQueue, IsStatus
<1> QED
  BY <1>1, <1>2

\* The list that is appended to holds the next numbers.
LEMMA NewItemsAre ==
  ASSUME Shape, Listed
  PROVE  /\ NewItems \in Seq(Nat) /\ Len(NewItems) = Size(ps.queue) + Batch
         /\ \A i \in 1 .. Size(ps.queue) + Batch : NewItems[i] = serial - Size(ps.queue) + i
         /\ \A i \in 1 .. Size(ps.queue) : NewItems[i] = ps.queue.items[i]
<1> DEFINE more == [i \in 1 .. Batch |-> serial + i]
<1>1. /\ Size(ps.queue) \in Nat \ {0} /\ Size(ps.queue) = Len(ps.queue.items)
      /\ serial \in Nat /\ Size(ps.queue) <= serial /\ ps.queue.items \in Seq(Nat)
      /\ \A i \in 1 .. Size(ps.queue) : ps.queue.items[i] = serial - Size(ps.queue) + i
  BY DEF Listed, Newest, Size
<1>2. more \in Seq(Nat) /\ Len(more) = Batch /\ \A i \in 1 .. Batch : more[i] = serial + i
  BY <1>1, BoundAssumption
<1> HIDE DEF more
<1>3. /\ NewItems = ps.queue.items \o more
      /\ Size(ps.queue) + Batch = Len(ps.queue.items) + Len(more)
  BY <1>1, <1>2 DEF NewItems, more
<1>4. /\ NewItems \in Seq(Nat) /\ Len(NewItems) = Len(ps.queue.items) + Len(more)
      /\ \A i \in 1 .. Len(ps.queue.items) + Len(more) :
           NewItems[i] = IF i <= Len(ps.queue.items) THEN ps.queue.items[i]
                         ELSE more[i - Len(ps.queue.items)]
  <2>1. ps.queue.items \in Seq(Nat) /\ more \in Seq(Nat)
    BY <1>1, <1>2
  <2> QED
    BY <1>3, <2>1, ConcatProperties
<1>5. Batch \in Nat
  BY BoundAssumption
<1> DEFINE n == Size(ps.queue)
<1>6. ASSUME NEW i \in 1 .. n + Batch
      PROVE  NewItems[i] = serial - n + i /\ (i <= n => NewItems[i] = ps.queue.items[i])
  <2>1. NewItems[i] = IF i <= n THEN ps.queue.items[i] ELSE more[i - n]
    BY <1>1, <1>2, <1>4
  <2>2. CASE i <= n
    <3>1. i \in 1 .. n
      BY <1>1, <1>5, <2>2
    <3>2. ps.queue.items[i] = serial - n + i
      BY <1>1, <3>1
    <3> QED
      BY <2>1, <2>2, <3>2
  <2>3. CASE i > n
    <3>1. i - n \in 1 .. Batch /\ ~(i <= n)
      BY <1>1, <1>5, <2>3
    <3>2. more[i - n] = serial + (i - n)
      BY <1>2, <3>1
    <3>3. serial + (i - n) = serial - n + i
      BY <1>1, <1>5
    <3> QED
      BY <2>1, <3>1, <3>2, <3>3
  <2>4. i <= n \/ i > n
    BY <1>1, <1>5
  <2> QED
    BY <2>2, <2>3, <2>4
<1>7. \A i \in 1 .. n : i \in 1 .. n + Batch /\ i <= n
  BY <1>1, <1>5
<1> QED
  BY <1>1, <1>2, <1>4, <1>6, <1>7

\* The trim stops at the current item.
LEMMA DroppedIs ==
  ASSUME Shape, Listed, NEW items, Len(items) \in Nat
  PROVE  Dropped(ps.queue, items) \in 0 .. ps.queue.current
<1>1. ps.queue.current \in Nat
  BY ListIs
<1> QED
  BY <1>1, WindowAssumption DEF Dropped, Least, Most

\* Indices that are appended to a shuffle list leave it an arrangement; the old places stay.
LEMMA InsertedArranged ==
  ASSUME NEW n \in Nat, NEW m \in Nat, NEW order, Arrangement(order, n)
  PROVE  /\ Arrangement(InsertShuffleIndices(order, n, m), n + m)
         /\ \A p \in 1 .. n : InsertShuffleIndices(order, n, m)[p] = order[p]
         /\ \A p \in n + 1 .. n + m : InsertShuffleIndices(order, n, m)[p] = p - 1
<1>o. PICK o : o = InsertShuffleIndices(order, n, m)
  OBVIOUS
<1> DEFINE old == [i \in 1 .. Len(order) |-> IF order[i] >= n THEN order[i] + m ELSE order[i]]
           new == [i \in 1 .. m |-> n + i - 1]
<1>1. /\ order \in Seq(0 .. n - 1) /\ Len(order) = n
      /\ \A i \in 1 .. n : order[i] \in 0 .. n - 1
  BY DEF Arrangement
<1>2. old \in Seq(Nat) /\ Len(old) = n /\ \A i \in 1 .. n : old[i] = order[i]
  <2>1. ASSUME NEW i \in 1 .. n PROVE old[i] = order[i] /\ old[i] \in Nat
    <3>1. PICK k \in 0 .. n - 1 : k = order[i]
      BY <1>1
    <3>2. ~(k >= n)
      OBVIOUS
    <3> QED
      BY <1>1, <3>1, <3>2
  <2>2. old = [i \in 1 .. n |-> old[i]]
    BY <1>1
  <2> HIDE DEF old
  <2>3. old \in [1 .. n -> Nat]
    BY <2>1, <2>2
  <2> QED
    BY <2>1, <2>3
<1>3. new \in Seq(Nat) /\ Len(new) = m /\ \A i \in 1 .. m : new[i] = n + i - 1
  OBVIOUS
<1>4. o = old \o new
  BY <1>o DEF InsertShuffleIndices
<1> HIDE DEF old, new
<1>5. /\ o \in Seq(Nat) /\ Len(o) = n + m
      /\ \A p \in 1 .. n + m : o[p] = IF p <= n THEN old[p] ELSE new[p - n]
  <2>1. /\ o \in Seq(Nat) /\ Len(o) = Len(old) + Len(new)
        /\ \A p \in 1 .. Len(old) + Len(new) :
             o[p] = IF p <= Len(old) THEN old[p] ELSE new[p - Len(old)]
    <3>1. old \in Seq(Nat) /\ new \in Seq(Nat)
      BY <1>2, <1>3
    <3> QED
      BY <1>4, <3>1, ConcatProperties
  <2> QED
    BY <1>2, <1>3, <2>1
<1>6. ASSUME NEW p \in 1 .. n PROVE o[p] = order[p] /\ o[p] \in 0 .. n - 1
  BY <1>1, <1>2, <1>5
<1>7. ASSUME NEW p \in n + 1 .. n + m PROVE o[p] = p - 1
  <2>1. p - n \in 1 .. m /\ p \in 1 .. n + m /\ ~(p <= n) /\ n + (p - n) - 1 = p - 1
    OBVIOUS
  <2> QED
    BY <1>3, <1>5, <2>1
<1>8. \A p \in 1 .. n + m : p \in 1 .. n \/ p \in n + 1 .. n + m
  OBVIOUS
<1>9. ASSUME NEW p \in 1 .. n + m PROVE o[p] \in 0 .. n + m - 1
  BY <1>6, <1>7, <1>8
<1>10. ASSUME NEW i \in 1 .. n + m, NEW j \in 1 .. n + m, o[i] = o[j] PROVE i = j
  <2>1. CASE i \in 1 .. n /\ j \in 1 .. n
    BY <1>6, <1>10, <2>1 DEF Arrangement
  <2>2. CASE i \in n + 1 .. n + m /\ j \in n + 1 .. n + m
    BY <1>7, <1>10, <2>2
  <2>3. CASE i \in 1 .. n /\ j \in n + 1 .. n + m
    BY <1>6, <1>7, <1>10, <2>3
  <2>4. CASE i \in n + 1 .. n + m /\ j \in 1 .. n
    BY <1>6, <1>7, <1>10, <2>4
  <2> QED
    BY <1>8, <2>1, <2>2, <2>3, <2>4
<1>11. ASSUME NEW k \in 0 .. n + m - 1 PROVE \E i \in 1 .. n + m : o[i] = k
  <2>1. CASE k < n
    <3>1. k \in 0 .. n - 1
      BY <2>1
    <3>2. PICK i \in 1 .. n : order[i] = k
      BY <3>1 DEF Arrangement
    <3> QED
      BY <1>6, <3>2
  <2>2. CASE k >= n
    <3>1. k + 1 \in n + 1 .. n + m /\ k + 1 \in 1 .. n + m /\ (k + 1) - 1 = k
      BY <2>2
    <3>2. o[k + 1] = k
      BY <1>7, <3>1
    <3> QED
      BY <3>1, <3>2
  <2> QED
    BY <2>1, <2>2
<1>12. o \in Seq(0 .. n + m - 1)
  <2>1. o = [i \in 1 .. n + m |-> o[i]]
    BY <1>5
  <2> QED
    BY <1>9, <2>1, SMTT(30)
<1> QED
  BY <1>o, <1>5, <1>6, <1>7, <1>10, <1>11, <1>12 DEF Arrangement

\* A sample of all other positions behind the current one is an arrangement.
LEMMA SampledArranged ==
  ASSUME NEW q, NEW n \in Nat \ {0}, n = Size(q), q.current \in Positions(q),
         NEW order \in ShuffleOrders(q)
  PROVE  Arrangement(order, n) /\ order[1] = q.current
<1> DEFINE others == (0 .. n - 1) \ {q.current}
<1>1. PICK sample \in [1 .. n - 1 -> others] :
        /\ \A i, j \in 1 .. n - 1 : sample[i] = sample[j] => i = j
        /\ order = <<q.current>> \o sample
  BY DEF ShuffleOrders, Positions
<1>2. q.current \in 0 .. n - 1
  BY DEF Positions
<1>3. sample \in Surjection(1 .. n - 1, others)
  <2>1. IsFiniteSet(0 .. n - 1) /\ Cardinality(0 .. n - 1) = n
    BY FS_Interval
  <2>2. IsFiniteSet(others) /\ Cardinality(others) = n - 1
    <3>1. /\ IsFiniteSet((0 .. n - 1) \ {q.current})
          /\ Cardinality((0 .. n - 1) \ {q.current})
               = IF q.current \in 0 .. n - 1 THEN Cardinality(0 .. n - 1) - 1
                 ELSE Cardinality(0 .. n - 1)
      BY <2>1, FS_RemoveElement
    <3> QED
      BY <1>2, <2>1, <3>1
  <2>3. Cardinality(1 .. n - 1) = n - 1
    <3>1. PICK m \in Nat : m = n - 1
      OBVIOUS
    <3>2. Cardinality(1 .. m) = IF 1 > m THEN 0 ELSE m - 1 + 1
      BY FS_Interval
    <3> QED
      BY <3>1, <3>2
  <2>4. sample \in Injection(1 .. n - 1, others)
    BY <1>1 DEF Injection, IsInjective
  <2> HIDE DEF others
  <2> QED
    BY <2>2, <2>3, <2>4, FS_Injection
<1>4. \A k \in others : \E i \in 1 .. n - 1 : sample[i] = k
  BY <1>3 DEF Surjection
<1>5. /\ order \in Seq(0 .. n - 1) /\ Len(order) = n /\ order[1] = q.current
      /\ \A i \in 2 .. n : order[i] = sample[i - 1]
  <2>1. <<q.current>> \in Seq(0 .. n - 1) /\ Len(<<q.current>>) = 1
    BY <1>2
  <2>2. sample \in Seq(0 .. n - 1) /\ Len(sample) = n - 1
    <3>1. sample \in [1 .. n - 1 -> 0 .. n - 1] /\ n - 1 \in Nat
      BY <1>1
    <3> QED
      BY <3>1
  <2>3. /\ order \in Seq(0 .. n - 1) /\ Len(order) = Len(<<q.current>>) + Len(sample)
        /\ \A i \in 1 .. Len(<<q.current>>) + Len(sample) :
             order[i] = IF i <= Len(<<q.current>>) THEN <<q.current>>[i]
                        ELSE sample[i - Len(<<q.current>>)]
    BY <1>1, <2>1, <2>2, ConcatProperties
  <2> QED
    BY <2>1, <2>2, <2>3
<1>6. \A i \in 1 .. n : i = 1 \/ (i \in 2 .. n /\ i - 1 \in 1 .. n - 1)
  OBVIOUS
<1>7. ASSUME NEW i \in 2 .. n PROVE order[i] \in others
  <2>1. i - 1 \in 1 .. n - 1
    OBVIOUS
  <2>2. sample[i - 1] \in others
    BY <1>1, <2>1
  <2> QED
    BY <1>5, <2>2
<1>8. ASSUME NEW i \in 1 .. n, NEW j \in 1 .. n, order[i] = order[j] PROVE i = j
  BY <1>1, <1>5, <1>6, <1>7, <1>8
<1>9. ASSUME NEW k \in 0 .. n - 1 PROVE \E i \in 1 .. n : order[i] = k
  <2>1. CASE k = q.current
    BY <1>5, <2>1
  <2>2. CASE k # q.current
    <3>1. PICK i \in 1 .. n - 1 : sample[i] = k
      BY <1>4, <2>2
    <3>2. i + 1 \in 2 .. n /\ i + 1 \in 1 .. n /\ (i + 1) - 1 = i
      BY <3>1
    <3>3. order[i + 1] = k
      BY <1>5, <3>1, <3>2
    <3> QED
      BY <3>2, <3>3
  <2> QED
    BY <2>1, <2>2
<1> QED
  BY <1>5, <1>8, <1>9 DEF Arrangement

\* An append, with the trim in front of an unshuffled list, keeps the item that plays; the
\* first new item is where the size of the old list points, less what was trimmed.
LEMMA AppendedIs ==
  ASSUME Shape, Listed, NEW t, t = ReplaceItems(ps, NewItems)
  PROVE  /\ IsState(t) /\ t.status = ps.status
         /\ t.queue.shuffled = ps.queue.shuffled /\ t.queue.repeat = ps.queue.repeat
         /\ t.queue.radio = ps.queue.radio
         /\ Newest(t.queue.items, serial + Batch)
         /\ t.queue.current \in Positions(t.queue)
         /\ t.queue.shuffled => Arrangement(t.queue.order, Size(t.queue))
         /\ t.queue.items[t.queue.current + 1] = ps.queue.items[ps.queue.current + 1]
         /\ Size(ps.queue) - Dropped(ps.queue, NewItems) \in Positions(t.queue)
         /\ t.queue.items[Size(ps.queue) - Dropped(ps.queue, NewItems) + 1] = serial + 1
         /\ ps.queue.shuffled =>
              /\ Dropped(ps.queue, NewItems) = 0 /\ t.queue.current = ps.queue.current
              /\ Size(t.queue) = Size(ps.queue) + Batch
              /\ Order(t.queue)[Size(ps.queue) + 1] = Size(ps.queue)
              /\ \A k \in 1 .. Size(ps.queue) :
                   /\ Order(t.queue)[k] = Order(ps.queue)[k]
                   /\ ItemAt(t.queue, k) = ItemAt(ps.queue, k)
<1>1. PICK n \in Nat \ {0} : n = Size(ps.queue)
  BY ListIs
<1>2. PICK c \in 0 .. n - 1 : c = ps.queue.current
  BY <1>1, ListIs
<1>3. /\ NewItems \in Seq(Nat) /\ Len(NewItems) = n + Batch
      /\ \A i \in 1 .. n + Batch : NewItems[i] = serial - n + i
      /\ \A i \in 1 .. n : NewItems[i] = ps.queue.items[i]
  BY <1>1, NewItemsAre
<1>4. /\ Batch \in Nat \ {0} /\ serial \in Nat /\ n <= serial
  BY <1>1, BoundAssumption DEF Listed, Newest, Size
<1>5. PICK d \in 0 .. c : d = Dropped(ps.queue, NewItems)
  BY <1>2, <1>3, <1>4, DroppedIs
<1>6. /\ IsState(t) /\ t.status = ps.status
      /\ t.queue.shuffled = ps.queue.shuffled /\ t.queue.repeat = ps.queue.repeat
      /\ t.queue.radio = ps.queue.radio
      /\ ps.queue.shuffled =>
           /\ t.queue.items = NewItems /\ t.queue.current = c
           /\ t.queue.order = InsertShuffleIndices(ps.queue.order, n, Len(NewItems) - n)
      /\ ~ps.queue.shuffled =>
           t.queue.items = SubSeq(NewItems, d + 1, Len(NewItems)) /\ t.queue.current = c - d
  <2>1. IsState(ps) /\ ps.queue.shuffled \in BOOLEAN
    BY DEF Shape
  <2>2. /\ IsState(t) /\ t.status = ps.status
        /\ t.queue.shuffled = ps.queue.shuffled /\ t.queue.repeat = ps.queue.repeat
        /\ t.queue.radio = ps.queue.radio
        /\ ps.queue.shuffled =>
             /\ t.queue.items = NewItems /\ t.queue.current = ps.queue.current
             /\ t.queue.order = InsertShuffleIndices(ps.queue.order, Size(ps.queue),
                                                     Len(NewItems) - Size(ps.queue))
        /\ ~ps.queue.shuffled =>
             /\ t.queue.items = SubSeq(NewItems, Dropped(ps.queue, NewItems) + 1, Len(NewItems))
             /\ t.queue.current = ps.queue.current - Dropped(ps.queue, NewItems)
    BY <2>1 DEF ReplaceItems, IsState, IsQueue, IsStatus
  <2> QED
    BY <1>1, <1>2, <1>5, <2>2
<1>7. /\ c + 1 \in 1 .. n /\ c + 1 \in 1 .. n + Batch
      /\ n + 1 \in 1 .. n + Batch /\ serial - n + (n + 1) = serial + 1
      /\ \A k \in 1 .. n : k \in 1 .. n + Batch
  BY <1>4
<1>8. NewItems[c + 1] = ps.queue.items[c + 1] /\ NewItems[n + 1] = serial + 1
  BY <1>3, <1>7
<1>9. CASE ps.queue.shuffled
  <2>1. t.queue.items = NewItems /\ t.queue.current = c /\ Size(t.queue) = n + Batch
    BY <1>3, <1>6, <1>9 DEF Size
  <2>2. d = 0
    BY <1>5, <1>9 DEF Dropped
  <2>3. Newest(t.queue.items, serial + Batch)
    <3>1. n + Batch \in 1 .. serial + Batch
      BY <1>4
    <3>2. \A i \in 1 .. n + Batch : serial - n + i = serial + Batch - (n + Batch) + i
      BY <1>4
    <3>3. \A i \in 1 .. n + Batch : NewItems[i] = serial + Batch - (n + Batch) + i
      BY <1>3, <3>2
    <3>4. Newest(NewItems, serial + Batch)
      BY <1>3, <1>4, <3>1, <3>3, NewestIs
    <3> QED
      BY <2>1, <3>4
  <2>4. c \in Positions(t.queue) /\ n - d \in Positions(t.queue)
    BY <1>4, <2>1, <2>2 DEF Positions
  <2>5. Len(NewItems) - n = Batch /\ n - d + 1 = n + 1
    BY <1>3, <1>4, <2>2
  <2>6. /\ Arrangement(t.queue.order, n + Batch)
        /\ \A p \in 1 .. n : t.queue.order[p] = ps.queue.order[p]
        /\ \A p \in n + 1 .. n + Batch : t.queue.order[p] = p - 1
    <3>1. Arrangement(ps.queue.order, n) /\ Batch \in Nat
      BY <1>1, <1>4, <1>9 DEF Listed
    <3>2. t.queue.order = InsertShuffleIndices(ps.queue.order, n, Batch)
      BY <1>6, <1>9, <2>5
    <3> QED
      BY <1>4, <3>1, <3>2, InsertedArranged
  <2>7. t.queue.order[n + 1] = n
    <3>1. n + 1 \in n + 1 .. n + Batch /\ (n + 1) - 1 = n
      BY <1>4
    <3> QED
      BY <2>6, <3>1
  <2>8. Order(t.queue) = t.queue.order /\ Order(ps.queue) = ps.queue.order
    <3>1. n + Batch \in Nat
      BY <1>4
    <3> QED
      BY <1>6, <1>9, <2>1, <2>6, <3>1, OrderArranged, ListIs DEF Shape
  <2>9. ASSUME NEW k \in 1 .. n
        PROVE  /\ Order(t.queue)[k] = Order(ps.queue)[k]
               /\ ItemAt(t.queue, k) = ItemAt(ps.queue, k)
    <3>1. PICK order : order = ps.queue.order /\ Arrangement(order, n)
      BY <1>1, <1>9 DEF Listed
    <3>2. order \in Seq(0 .. n - 1) /\ Len(order) = n
      BY <3>1 DEF Arrangement
    <3>3. PICK x \in 0 .. n - 1 : x = order[k]
      BY <3>2
    <3>4. x + 1 \in 1 .. n
      BY <3>3
    <3> QED
      BY <1>3, <2>1, <2>6, <2>8, <3>1, <3>3, <3>4 DEF ItemAt
  <2> QED
    BY <1>1, <1>2, <1>5, <1>6, <1>8, <1>9, <2>1, <2>2, <2>3, <2>4, <2>5, <2>6, <2>7, <2>8, <2>9
<1>10. CASE ~ps.queue.shuffled
  <2> DEFINE m == n + Batch - d
  <2>1. /\ m \in Nat \ {0} /\ d + 1 \in Int /\ n + Batch \in Int
        /\ \A i \in d + 1 .. n + Batch : i \in 1 .. n + Batch
        /\ d + 1 <= n + Batch /\ (n + Batch) - (d + 1) + 1 = m
        /\ m <= serial + Batch /\ c - d + 1 <= m /\ n - d + 1 <= m
        /\ c - d + 1 \in 1 .. m /\ n - d + 1 \in 1 .. m
        /\ (d + 1) + (c - d + 1) - 1 = c + 1 /\ (d + 1) + (n - d + 1) - 1 = n + 1
    BY <1>4
  <2>2. /\ t.queue.items \in Seq(Nat) /\ Len(t.queue.items) = m
        /\ \A i \in 1 .. m : t.queue.items[i] = NewItems[(d + 1) + i - 1]
    <3>1. \A i \in d + 1 .. n + Batch : NewItems[i] \in Nat
      BY <1>3, <2>1, SMTT(30)
    <3>2. t.queue.items = SubSeq(NewItems, d + 1, n + Batch)
      BY <1>3, <1>6, <1>10
    <3> HIDE DEF m
    <3>3. PICK from \in Int, to \in Int : from = d + 1 /\ to = n + Batch
      BY <2>1
    <3>4. from <= to /\ to - from + 1 = m /\ \A i \in from .. to : NewItems[i] \in Nat
      BY <2>1, <3>1, <3>3
    <3>5. /\ SubSeq(NewItems, from, to) \in Seq(Nat)
          /\ Len(SubSeq(NewItems, from, to)) = m
          /\ \A i \in 1 .. m : SubSeq(NewItems, from, to)[i] = NewItems[from + i - 1]
      BY <3>4, SubSeqProperties
    <3> QED
      BY <3>2, <3>3, <3>5
  <2>3. Newest(t.queue.items, serial + Batch)
    <3>1. ASSUME NEW i \in 1 .. m
          PROVE  /\ (d + 1) + i - 1 \in 1 .. n + Batch
                 /\ serial - n + ((d + 1) + i - 1) = serial + Batch - m + i
      BY <1>4
    <3>2. m \in 1 .. serial + Batch
      BY <1>4
    <3> HIDE DEF m
    <3>3. ASSUME NEW i \in 1 .. m PROVE t.queue.items[i] = serial + Batch - m + i
      <4>1. t.queue.items[i] = NewItems[(d + 1) + i - 1]
        BY <2>2
      <4>2. NewItems[(d + 1) + i - 1] = serial - n + ((d + 1) + i - 1)
        BY <1>3, <3>1
      <4> QED
        BY <3>1, <4>1, <4>2
    <3> QED
      <4>1. t.queue.items \in Seq(Nat) /\ Len(t.queue.items) = m /\ serial + Batch \in Nat
        BY <1>4, <2>2
      <4>2. PICK newest \in Nat : newest = serial + Batch
        BY <4>1
      <4>3. m \in 1 .. newest
        BY <3>2, <4>2
      <4>4. ASSUME NEW i \in 1 .. m PROVE t.queue.items[i] = newest - m + i
        BY <1>4, <3>3, <4>2, <4>3
      <4>5. Newest(t.queue.items, newest)
        BY <4>1, <4>3, <4>4, NewestIs
      <4> QED
        BY <4>2, <4>5
  <2>4. c - d \in 0 .. m - 1 /\ n - d \in 0 .. m - 1
    BY <1>4
  <2>5. t.queue.items[c - d + 1] = NewItems[c + 1] /\ t.queue.items[n - d + 1] = NewItems[n + 1]
    <3> HIDE DEF m
    <3> QED
      BY <2>1, <2>2
  <2> HIDE DEF m
  <2> QED
    BY <1>1, <1>2, <1>5, <1>6, <1>8, <1>10, <2>2, <2>3, <2>4, <2>5 DEF Positions, Size
<1> QED
  BY <1>9, <1>10 DEF Shape

-----------------------------------------------------------------------------
(* The steps                                                                 *)

\* A pass may begin at any item.
LEMMA Alone == Shape /\ Listed /\ heard = <<Playing(ps)>> => Pass
<1> SUFFICES ASSUME Shape, Listed, heard = <<Playing(ps)>> PROVE Pass
  OBVIOUS
<1>1. PICK n \in Nat \ {0} : n = Size(ps.queue)
  BY ListIs
<1>2. PICK p \in 1 .. n : Order(ps.queue)[p] = ps.queue.current
  BY <1>1, ListIs
<1>3. PICK item : item = Playing(ps)
  OBVIOUS
<1>4. item = ps.queue.items[ps.queue.current + 1] /\ item = ItemAt(ps.queue, p)
  BY <1>2, <1>3, PlayingIs DEF Listed, ItemAt
<1>5. item \in 1 .. serial
  BY <1>1, <1>4, ItemsDiffer
<1>6. heard \in Seq(1 .. serial) /\ Len(heard) = 1 /\ heard[1] = item
  BY <1>3, <1>5
<1>7. p - 1 + 1 = p /\ item - 1 + 1 = item /\ \A i \in 1 .. 1 : i = 1
  BY <1>5 DEF Listed
<1>8. \A i \in 1 .. Len(heard) : heard[i] = ItemAt(ps.queue, p - Len(heard) + i)
  BY <1>4, <1>6, <1>7
<1>9. \A i \in 1 .. Len(heard) : heard[i] = item - Len(heard) + i
  BY <1>6, <1>7
<1>10. p \in Len(heard) .. Size(ps.queue)
  BY <1>1, <1>6
<1> QED
  BY <1>2, <1>4, <1>6, <1>8, <1>9, <1>10 DEF Pass

\* A pass that has heard the current item alone is a pass.
LEMMA AloneThen == (Shape /\ Listed /\ heard = <<Playing(ps)>> => Pass)'
  BY Alone, PTL

\* A move inside the list.
LEMMA MovesInside ==
  ASSUME Shape, Listed, NEW i \in 0 .. Size(ps.queue) - 1,
         ps'.queue = [ps.queue EXCEPT !.current = i], serial' = serial
  PROVE  /\ Listed' /\ ps'.queue.current = i
         /\ ps'.queue.items = ps.queue.items /\ ps'.queue.shuffled = ps.queue.shuffled
         /\ ps'.queue.repeat = ps.queue.repeat /\ ps'.queue.radio = ps.queue.radio
         /\ Order(ps'.queue) = Order(ps.queue) /\ Size(ps'.queue) = Size(ps.queue)
         /\ \A k : ItemAt(ps'.queue, k) = ItemAt(ps.queue, k)
         /\ Playing(ps') = ps.queue.items[i + 1]
<1>1. /\ ps'.queue.current = i /\ ps'.queue.items = ps.queue.items
      /\ ps'.queue.shuffled = ps.queue.shuffled /\ ps'.queue.order = ps.queue.order
      /\ ps'.queue.repeat = ps.queue.repeat /\ ps'.queue.radio = ps.queue.radio
  BY DEF Shape, IsState, IsQueue
<1>2. Order(ps'.queue) = Order(ps.queue) /\ Size(ps'.queue) = Size(ps.queue)
  BY <1>1 DEF Order, Size
<1>3. Listed' /\ i \in Positions(ps'.queue)
  <2>1. i \in Positions(ps'.queue)
    BY <1>2 DEF Positions
  <2>2. serial' \in 0 .. MaxSerial /\ Newest(ps'.queue.items, serial')
    BY <1>1 DEF Listed
  <2>3. ps'.queue.shuffled => Arrangement(ps'.queue.order, Size(ps'.queue))
    BY <1>1, <1>2 DEF Listed
  <2> QED
    BY <1>1, <2>1, <2>2, <2>3 DEF Listed
<1>4. \A k : ItemAt(ps'.queue, k) = ItemAt(ps.queue, k)
  BY <1>1, <1>2 DEF ItemAt
<1>5. Playing(ps') = ps.queue.items[i + 1]
  BY <1>1, <1>3, PlayingIs
<1> QED
  BY <1>1, <1>2, <1>3, <1>4, <1>5

\* The next item of the logical order is heard next.
LEMMA PassGrows ==
  ASSUME Shape, Listed, Pass, NEW p \in 1 .. Size(ps.queue), p < Size(ps.queue),
         Order(ps.queue)[p] = ps.queue.current,
         ps'.queue = [ps.queue EXCEPT !.current = Order(ps.queue)[p + 1]],
         heard' = Append(heard, Playing(ps')), serial' = serial
  PROVE  Pass'
<1>1. PICK n \in Nat \ {0} : n = Size(ps.queue) /\ Arrangement(Order(ps.queue), n)
  BY ListIs
<1>2. PICK i \in 0 .. n - 1 : i = Order(ps.queue)[p + 1]
  BY <1>1 DEF Arrangement
<1>3. /\ ps'.queue.current = i /\ ps'.queue.items = ps.queue.items
      /\ ps'.queue.shuffled = ps.queue.shuffled
      /\ Order(ps'.queue) = Order(ps.queue) /\ Size(ps'.queue) = n
      /\ \A k : ItemAt(ps'.queue, k) = ItemAt(ps.queue, k)
      /\ Playing(ps') = ps.queue.items[i + 1]
  BY <1>1, <1>2, MovesInside
<1>4. PICK item \in 1 .. serial : item = Playing(ps') /\ item = ItemAt(ps.queue, p + 1)
  <2>1. p + 1 \in 1 .. Size(ps.queue)
    BY <1>1
  <2> QED
    BY <1>2, <1>3, <2>1, ItemsDiffer DEF ItemAt
<1>5. PICK l \in Nat \ {0} : l = Len(heard)
  BY DEF Pass
<1>6. /\ heard' \in Seq(1 .. serial) /\ Len(heard') = l + 1 /\ heard'[l + 1] = item
      /\ \A k \in 1 .. l : heard'[k] = heard[k]
  BY <1>4, <1>5 DEF Pass
<1>7. ASSUME NEW k \in 1 .. l + 1 PROVE k = l + 1 \/ k \in 1 .. l
  OBVIOUS
<1>8. CASE ps.queue.shuffled
  <2>1. PICK r \in l .. n : /\ Order(ps.queue)[r] = ps.queue.current
                            /\ \A k \in 1 .. l : heard[k] = ItemAt(ps.queue, r - l + k)
    BY <1>1, <1>5, <1>8 DEF Pass
  <2>2. r \in 1 .. n
    BY <2>1
  <2>3. r = p
    BY <1>1, <2>1, <2>2 DEF Arrangement
  <2>4. ASSUME NEW k \in 1 .. l + 1
        PROVE  heard'[k] = ItemAt(ps.queue, (p + 1) - (l + 1) + k)
    <3>1. CASE k = l + 1
      <4>1. (p + 1) - (l + 1) + k = p + 1
        BY <1>1, <3>1
      <4> QED
        BY <1>4, <1>6, <3>1, <4>1
    <3>2. CASE k \in 1 .. l
      <4>1. (p + 1) - (l + 1) + k = r - l + k
        BY <1>1, <2>3
      <4> QED
        BY <1>6, <2>1, <3>2, <4>1
    <3> QED
      BY <1>7, <3>1, <3>2
  <2>5. p + 1 \in l + 1 .. n /\ Order(ps'.queue)[p + 1] = ps'.queue.current
    BY <1>1, <1>2, <1>3, <2>1, <2>3
  <2>6. \A k \in 1 .. Len(heard') : heard'[k] = ItemAt(ps'.queue, (p + 1) - Len(heard') + k)
    BY <1>3, <1>6, <2>4
  <2>7. p + 1 \in Len(heard') .. Size(ps'.queue) /\ Len(heard') \in Nat \ {0}
    BY <1>3, <1>6, <2>5
  <2>8. \E place \in Len(heard') .. Size(ps'.queue) :
          /\ Order(ps'.queue)[place] = ps'.queue.current
          /\ \A k \in 1 .. Len(heard') : heard'[k] = ItemAt(ps'.queue, place - Len(heard') + k)
    <3>1. p + 1 \in Len(heard') .. Size(ps'.queue)
      BY <2>7
    <3> WITNESS p + 1 \in Len(heard') .. Size(ps'.queue)
    <3> QED
      BY <2>5, <2>6
  <2> QED
    BY <1>3, <1>6, <1>8, <2>7, <2>8 DEF Pass
<1>9. CASE ~ps.queue.shuffled
  <2>1. Order(ps.queue) = Sequential(n)
    BY <1>1, <1>9, ListIs
  <2>2. p + 1 \in 1 .. n
    BY <1>1
  <2>3. PICK c \in 0 .. n - 1 : c = ps.queue.current /\ c = p - 1 /\ i = p
    BY <1>1, <1>2, <2>1, <2>2, ListIs DEF Sequential
  <2>4. /\ ps.queue.items[c + 1] = serial - n + (c + 1)
        /\ ps.queue.items[i + 1] = serial - n + (i + 1)
    <3>1. c + 1 \in 1 .. n /\ i + 1 \in 1 .. n
      BY <1>2, <2>3
    <3> QED
      BY <1>1, <3>1 DEF Listed, Newest, Size
  <2>5. ps.queue.items[c + 1] = item - 1 /\ serial \in Nat
    <3>1. serial \in Nat
      BY BoundAssumption DEF Listed
    <3>2. item = serial - n + (p + 1)
      BY <1>3, <1>4, <2>3, <2>4
    <3>3. ps.queue.items[c + 1] = serial - n + (p - 1 + 1)
      BY <2>3, <2>4
    <3>4. serial - n + (p - 1 + 1) = serial - n + (p + 1) - 1
      BY <1>1, <3>1
    <3> QED
      BY <3>1, <3>2, <3>3, <3>4
  <2>6. ASSUME NEW k \in 1 .. l PROVE heard[k] = item - 1 - l + k
    BY <1>5, <1>9, <2>3, <2>5 DEF Pass
  <2>7. ASSUME NEW k \in 1 .. l + 1 PROVE heard'[k] = item - (l + 1) + k
    <3>1. CASE k = l + 1
      BY <1>6, <2>5, <3>1
    <3>2. CASE k \in 1 .. l
      BY <1>6, <2>5, <2>6, <3>2, SMTT(30)
    <3> QED
      BY <1>7, <3>1, <3>2
  <2>8. ps'.queue.items[ps'.queue.current + 1] = item
    BY <1>3, <1>4
  <2>9. \A k \in 1 .. Len(heard') :
          heard'[k] = ps'.queue.items[ps'.queue.current + 1] - Len(heard') + k
    BY <1>6, <2>7, <2>8
  <2> QED
    BY <1>3, <1>6, <1>9, <2>9, SMTT(30) DEF Pass
<1> QED
  BY <1>8, <1>9 DEF Shape

\* What plan_navigation decides for the item at place p.
LEMMA PlanIs ==
  ASSUME Shape, Listed, NEW natural \in BOOLEAN, NEW p \in 1 .. Size(ps.queue),
         Order(ps.queue)[p] = ps.queue.current
  PROVE  LET q == ps.queue
             o == Outcome(q, natural)
         IN /\ \/ o \in {"stop", "radio"} /\ p = Size(q) /\ PlannedIndex(q, natural) = {}
               \/ o = "restart" /\ PlannedIndex(q, natural) = {q.current}
               \/ /\ o = "change" /\ p < Size(q)
                  /\ PlannedIndex(q, natural) = {Order(q)[p + 1]}
               \/ /\ o = "change" /\ p = Size(q)
                  /\ PlannedIndex(q, natural) = {Order(q)[1]}
            /\ NextIndex(q, FALSE) # {} <=> p < Size(q)
<1>1. PICK n \in Nat \ {0} : n = Size(ps.queue) /\ Arrangement(Order(ps.queue), n)
  BY ListIs
<1>2. PICK q : q = ps.queue
  OBVIOUS
<1>3. /\ NextIndex(q, FALSE) = IF p < n THEN {Order(q)[p + 1]} ELSE {}
      /\ NextIndex(q, TRUE) = {Order(q)[IF p < n THEN p + 1 ELSE 1]}
  BY <1>1, <1>2, NextIs
<1>4. \/ PlannedIndex(q, natural) = {q.current}
      \/ PlannedIndex(q, natural) = NextIndex(q, FALSE)
      \/ PlannedIndex(q, natural) = NextIndex(q, TRUE)
  BY DEF PlannedIndex
<1>5. p < n \/ p = n
  BY <1>1
<1>6. p < n => Order(q)[p + 1] # q.current
  <2>1. p < n => p + 1 \in 1 .. n /\ p + 1 # p
    BY <1>1
  <2> QED
    BY <1>1, <1>2, <2>1 DEF Arrangement
<1>7. \/ PlannedIndex(q, natural) = {q.current}
      \/ PlannedIndex(q, natural) = {} /\ p = n
      \/ PlannedIndex(q, natural) = {Order(q)[p + 1]} /\ p < n
      \/ PlannedIndex(q, natural) = {Order(q)[1]} /\ p = n
  BY <1>3, <1>4, <1>5
<1>8. CASE PlannedIndex(q, natural) = {q.current}
  BY <1>1, <1>2, <1>3, <1>5, <1>8 DEF Outcome
<1>9. CASE PlannedIndex(q, natural) = {} /\ p = n
  BY <1>1, <1>2, <1>3, <1>9 DEF Outcome, Shape
<1>10. CASE PlannedIndex(q, natural) = {Order(q)[p + 1]} /\ p < n
  BY <1>1, <1>2, <1>3, <1>6, <1>10 DEF Outcome
<1>11. CASE PlannedIndex(q, natural) = {Order(q)[1]} /\ p = n /\ Order(q)[1] # q.current
  BY <1>1, <1>2, <1>3, <1>11 DEF Outcome
<1> QED
  BY <1>7, <1>8, <1>9, <1>10, <1>11

\* A move to an item of the list, or an advance that leaves the queue alone.
LEMMA AdvanceIs ==
  ASSUME Shape, Listed, NEW natural \in BOOLEAN, Advance(natural),
         NEW p \in 1 .. Size(ps.queue), Order(ps.queue)[p] = ps.queue.current
  PROVE  /\ Shape' /\ serial' = serial
         /\ \/ /\ outcome' \in {"stop", "radio"} /\ p = Size(ps.queue)
               /\ ps'.queue = ps.queue /\ heard' = heard
            \/ /\ outcome' \in {"restart", "change"} /\ heard' = <<Playing(ps')>>
               /\ \E i \in 0 .. Size(ps.queue) - 1 :
                    ps'.queue = [ps.queue EXCEPT !.current = i]
            \/ /\ outcome' = "change" /\ p < Size(ps.queue)
               /\ ps'.queue = [ps.queue EXCEPT !.current = Order(ps.queue)[p + 1]]
               /\ heard' = Append(heard, Playing(ps'))
<1>1. PICK n \in Nat \ {0} : n = Size(ps.queue) /\ Arrangement(Order(ps.queue), n)
  BY ListIs
<1>2. /\ ps' = Navigate(ps, natural, Ours) /\ outcome' = Outcome(ps.queue, natural)
      /\ serial' = serial
      /\ heard' = CASE outcome' = "change" /\ NextIndex(ps.queue, FALSE) # {} ->
                         Append(heard, Playing(ps'))
                    [] outcome' \in {"stop", "radio"} -> heard
                    [] OTHER -> <<Playing(ps')>>
  BY DEF Advance
<1>3. \A i : i \in {1, n} => Order(ps.queue)[i] \in 0 .. n - 1
  BY <1>1 DEF Arrangement
<1>4. CASE /\ Outcome(ps.queue, natural) \in {"stop", "radio"} /\ p = n
           /\ PlannedIndex(ps.queue, natural) = {}
  <2>1. /\ ps'.queue = ps.queue /\ IsState(ps')
        /\ ps'.status \in {ps.status, Finished(Ours)}
    BY <1>2, <1>4 DEF Navigate, Shape, IsState, IsQueue, IsStatus, Finished
  <2>3. ps'.status.progress \in {0, End} /\ ps'.status.paused \in BOOLEAN
    <3>1. Finished(Ours).progress = End /\ Finished(Ours).paused = TRUE
      BY DEF Finished
    <3> QED
      BY <2>1, <3>1 DEF Shape
  <2>4. outcome' \in {"none", "change", "restart", "stop", "radio"}
    BY <1>2, <1>4
  <2>2. Shape'
    BY <2>1, <2>3, <2>4 DEF Shape, IsState, IsQueue, IsStatus
  <2> QED
    BY <1>1, <1>2, <1>4, <2>1, <2>2
<1>5. ASSUME NEW i \in 0 .. n - 1, Outcome(ps.queue, natural) \in {"restart", "change"},
             PlannedIndex(ps.queue, natural) = {i}
      PROVE  ps'.queue = [ps.queue EXCEPT !.current = i] /\ Shape'
  <2>1. (CHOOSE k \in PlannedIndex(ps.queue, natural) : TRUE) = i
    BY <1>5
  <2>2. ps' = SetIndex(ps, i, Ours)
    BY <1>2, <1>5, <2>1 DEF Navigate, SetIndex
  <2>3. ps'.queue = [ps.queue EXCEPT !.current = i] /\ ps'.status = Beginning(Ours) /\ IsState(ps')
    BY <2>2 DEF SetIndex, Shape, IsState, IsQueue, IsStatus, Beginning
  <2> QED
    BY <1>2, <1>5, <2>3 DEF Shape, IsState, IsQueue, IsStatus, Beginning
<1>6. NextIndex(ps.queue, FALSE) # {} <=> p < n
  BY <1>1, PlanIs
<1>7. CASE /\ Outcome(ps.queue, natural) = "restart"
           /\ PlannedIndex(ps.queue, natural) = {ps.queue.current}
  <2>1. ps.queue.current \in 0 .. n - 1
    BY <1>1, ListIs
  <2> QED
    BY <1>1, <1>2, <1>5, <1>7, <2>1
<1>8. CASE /\ Outcome(ps.queue, natural) = "change" /\ p < n
           /\ PlannedIndex(ps.queue, natural) = {Order(ps.queue)[p + 1]}
  <2>1. p + 1 \in 1 .. n
    BY <1>1, <1>8
  <2>2. Order(ps.queue)[p + 1] \in 0 .. n - 1
    BY <1>1, <2>1 DEF Arrangement
  <2> QED
    BY <1>1, <1>2, <1>5, <1>6, <1>8, <2>2
<1>9. CASE /\ Outcome(ps.queue, natural) = "change" /\ p = n
           /\ PlannedIndex(ps.queue, natural) = {Order(ps.queue)[1]}
  <2>1. ~(p < n) /\ Order(ps.queue)[1] \in 0 .. n - 1
    BY <1>1, <1>3, <1>9
  <2> QED
    BY <1>1, <1>2, <1>5, <1>6, <1>9, <2>1
<1> QED
  BY <1>1, <1>4, <1>7, <1>8, <1>9, PlanIs

\* Steps that break no pass: the same queue, or one whose order and items start the same.
LEMMA AdvanceKeeps ==
  ASSUME EInv, NEW natural \in BOOLEAN, Advance(natural) PROVE EInv'
<1> USE DEF EInv
<1>1. PICK p \in 1 .. Size(ps.queue) : Order(ps.queue)[p] = ps.queue.current
  BY ListIs
<1>2. /\ Shape' /\ serial' = serial
      /\ \/ /\ outcome' \in {"stop", "radio"} /\ p = Size(ps.queue)
            /\ ps'.queue = ps.queue /\ heard' = heard
         \/ /\ outcome' \in {"restart", "change"} /\ heard' = <<Playing(ps')>>
            /\ \E i \in 0 .. Size(ps.queue) - 1 :
                 ps'.queue = [ps.queue EXCEPT !.current = i]
         \/ /\ outcome' = "change" /\ p < Size(ps.queue)
            /\ ps'.queue = [ps.queue EXCEPT !.current = Order(ps.queue)[p + 1]]
            /\ heard' = Append(heard, Playing(ps'))
  BY <1>1, AdvanceIs
<1>3. CASE /\ outcome' \in {"stop", "radio"} /\ p = Size(ps.queue)
           /\ ps'.queue = ps.queue /\ heard' = heard
  <2>1. Listed'
    BY <1>2, <1>3 DEF Listed
  <2>2. Pass'
    BY <1>2, <1>3 DEF Pass
  <2>3. Ended'
    BY <1>1, <1>3 DEF Ended
  <2> QED
    BY <1>2, <2>1, <2>2, <2>3
<1>4. CASE /\ outcome' \in {"restart", "change"} /\ heard' = <<Playing(ps')>>
           /\ \E i \in 0 .. Size(ps.queue) - 1 : ps'.queue = [ps.queue EXCEPT !.current = i]
  <2>1. Listed'
    BY <1>2, <1>4, MovesInside
  <2>2. Pass'
    BY <1>2, <1>4, <2>1, AloneThen
  <2>3. Ended'
    BY <1>4 DEF Ended
  <2> QED
    BY <1>2, <2>1, <2>2, <2>3
<1>5. CASE /\ outcome' = "change" /\ p < Size(ps.queue)
           /\ ps'.queue = [ps.queue EXCEPT !.current = Order(ps.queue)[p + 1]]
           /\ heard' = Append(heard, Playing(ps'))
  <2>1. Order(ps.queue)[p + 1] \in 0 .. Size(ps.queue) - 1
    <3>1. p + 1 \in 1 .. Size(ps.queue)
      BY <1>5, ListIs
    <3>2. Arrangement(Order(ps.queue), Size(ps.queue))
      BY ListIs
    <3> QED
      BY <3>1, <3>2 DEF Arrangement
  <2>2. Listed'
    BY <1>2, <1>5, <2>1, MovesInside
  <2>3. Pass'
    BY <1>1, <1>2, <1>5, PassGrows
  <2>4. Ended'
    BY <1>5 DEF Ended
  <2> QED
    BY <1>2, <2>2, <2>3, <2>4
<1> QED
  BY <1>2, <1>3, <1>4, <1>5

\* EInv through Previous.
LEMMA PreviousKeeps ==
  ASSUME EInv, Previous PROVE EInv'
<1> USE DEF EInv
<1>1. PICK i \in PreviousIndex(ps.queue) :
        /\ ps' = SetIndex(ps, i, Ours) /\ outcome' = "change" /\ heard' = <<Playing(ps')>>
        /\ serial' = serial
  BY DEF Previous
<1>2. i \in 0 .. Size(ps.queue) - 1
  <2>1. PICK p \in 1 .. Size(ps.queue) : Order(ps.queue)[p] = ps.queue.current
    BY ListIs
  <2>2. 1 < p /\ i = Order(ps.queue)[p - 1]
    BY <1>1, <2>1, ListIs, PreviousIs
  <2>3. p - 1 \in 1 .. Size(ps.queue)
    BY <2>2, ListIs
  <2>4. Arrangement(Order(ps.queue), Size(ps.queue))
    BY ListIs
  <2> QED
    BY <2>2, <2>3, <2>4 DEF Arrangement
<1>3. ps'.queue = [ps.queue EXCEPT !.current = i] /\ ps'.status = Beginning(Ours) /\ IsState(ps')
  BY <1>1 DEF SetIndex, Shape, IsState, IsQueue, IsStatus, Beginning
<1>4. Shape'
  BY <1>1, <1>3 DEF Shape, IsState, IsQueue, IsStatus, Beginning
<1>5. Listed'
  BY <1>1, <1>2, <1>3, MovesInside
<1>6. Pass'
  BY <1>1, <1>4, <1>5, AloneThen
<1>7. Ended'
  BY <1>1 DEF Ended
<1> QED
  BY <1>4, <1>5, <1>6, <1>7

\* An append breaks no pass.
LEMMA PrefetchKeeps ==
  ASSUME EInv, Prefetch PROVE EInv' /\ Playing(ps') = Playing(ps)
<1> USE DEF EInv
<1>1. /\ ps' = ReplaceItems(ps, NewItems) /\ outcome' = "none" /\ heard' = heard
      /\ serial' = serial + Batch /\ serial + Batch <= MaxSerial
  BY DEF Prefetch
<1>2. /\ IsState(ps') /\ ps'.status = ps.status
      /\ ps'.queue.shuffled = ps.queue.shuffled /\ ps'.queue.repeat = ps.queue.repeat
      /\ ps'.queue.radio = ps.queue.radio
      /\ Newest(ps'.queue.items, serial + Batch)
      /\ ps'.queue.current \in Positions(ps'.queue)
      /\ ps'.queue.shuffled => Arrangement(ps'.queue.order, Size(ps'.queue))
      /\ ps'.queue.items[ps'.queue.current + 1] = ps.queue.items[ps.queue.current + 1]
      /\ ps.queue.shuffled =>
           /\ ps'.queue.current = ps.queue.current
           /\ Size(ps'.queue) = Size(ps.queue) + Batch
           /\ \A k \in 1 .. Size(ps.queue) :
                /\ Order(ps'.queue)[k] = Order(ps.queue)[k]
                /\ ItemAt(ps'.queue, k) = ItemAt(ps.queue, k)
  BY <1>1, AppendedIs
<1>3. Shape'
  BY <1>1, <1>2 DEF Shape
<1>4. serial \in Nat /\ serial' \in 0 .. MaxSerial /\ Batch \in Nat \ {0} /\ serial <= serial'
  BY <1>1, BoundAssumption DEF Listed
<1>5. Listed'
  BY <1>1, <1>2, <1>4 DEF Listed
<1>6. heard' \in Seq(1 .. serial') /\ Len(heard') \in Nat \ {0}
  <2>1. 1 .. serial \subseteq 1 .. serial'
    BY <1>4
  <2>2. heard \in Seq(1 .. serial')
    BY <2>1, SeqMonotonic DEF Pass
  <2> QED
    BY <1>1, <2>2 DEF Pass
<1>7. CASE ps.queue.shuffled
  <2>1. PICK n \in Nat \ {0} : n = Size(ps.queue)
    BY ListIs
  <2>2. PICK l \in Nat \ {0} : l = Len(heard)
    BY DEF Pass
  <2>3. PICK r \in l .. n : /\ Order(ps.queue)[r] = ps.queue.current
                            /\ \A k \in 1 .. l : heard[k] = ItemAt(ps.queue, r - l + k)
    BY <1>7, <2>1, <2>2 DEF Pass
  <2>4. r \in 1 .. n /\ r \in l .. Size(ps'.queue) /\ \A k \in 1 .. l : r - l + k \in 1 .. n
    BY <1>2, <1>4, <1>7, <2>1, <2>3
  <2>5. /\ Order(ps'.queue)[r] = ps'.queue.current
        /\ \A k \in 1 .. l : heard[k] = ItemAt(ps'.queue, r - l + k)
    BY <1>2, <1>7, <2>1, <2>3, <2>4
  <2>6. \E s \in Len(heard') .. Size(ps'.queue) :
          /\ Order(ps'.queue)[s] = ps'.queue.current
          /\ \A k \in 1 .. Len(heard') : heard'[k] = ItemAt(ps'.queue, s - Len(heard') + k)
    BY <1>1, <2>2, <2>4, <2>5
  <2>7. Pass'
    BY <1>2, <1>6, <1>7, <2>6 DEF Pass
  <2> QED
    BY <1>1, <1>2, <1>3, <1>5, <2>7, PlayingIs DEF Ended, Listed
<1>8. CASE ~ps.queue.shuffled
  <2>1. \A k \in 1 .. Len(heard') :
          heard'[k] = ps'.queue.items[ps'.queue.current + 1] - Len(heard') + k
    BY <1>1, <1>2, <1>8 DEF Pass
  <2>2. Pass'
    BY <1>2, <1>6, <1>8, <2>1 DEF Pass
  <2> QED
    BY <1>1, <1>2, <1>3, <1>5, <2>2, PlayingIs DEF Ended, Listed
<1> QED
  BY <1>7, <1>8 DEF Shape

\* A RADIO advance goes on with the first new item, which follows the one that ended.
LEMMA IntoBatchKeeps ==
  ASSUME EInv, AdvanceIntoBatch PROVE EInv' /\ Playing(ps') = serial + 1
<1> USE DEF EInv
<1>1. PICK t : t = ReplaceItems(ps, NewItems)
  OBVIOUS
<1>2. PICK n \in Nat \ {0} : n = Size(ps.queue)
  BY ListIs
<1>3. PICK d : d = Dropped(ps.queue, NewItems)
  OBVIOUS
<1>4. /\ outcome = "radio" /\ outcome' = "change"
      /\ ps' = SetIndex(t, n - d, Ours)
      /\ heard' = Append(heard, Playing(ps'))
      /\ serial' = serial + Batch /\ serial + Batch <= MaxSerial
  BY <1>1, <1>2, <1>3 DEF AdvanceIntoBatch, SetIndexIn
<1>5. /\ IsState(t) /\ t.status = ps.status
      /\ t.queue.shuffled = ps.queue.shuffled /\ t.queue.repeat = ps.queue.repeat
      /\ t.queue.radio = ps.queue.radio
      /\ Newest(t.queue.items, serial + Batch)
      /\ t.queue.shuffled => Arrangement(t.queue.order, Size(t.queue))
      /\ n - d \in Positions(t.queue)
      /\ t.queue.items[n - d + 1] = serial + 1
      /\ ps.queue.shuffled =>
           /\ d = 0 /\ Size(t.queue) = n + Batch
           /\ Order(t.queue)[n + 1] = n
           /\ \A k \in 1 .. n : ItemAt(t.queue, k) = ItemAt(ps.queue, k)
  BY <1>1, <1>2, <1>3, AppendedIs
<1>6. /\ IsState(ps') /\ ps'.status = Beginning(Ours)
      /\ ps'.queue.current = n - d /\ ps'.queue.items = t.queue.items
      /\ ps'.queue.shuffled = t.queue.shuffled /\ ps'.queue.order = t.queue.order
      /\ ps'.queue.repeat = t.queue.repeat /\ ps'.queue.radio = t.queue.radio
  BY <1>4, <1>5 DEF SetIndex, IsState, IsQueue, IsStatus, Beginning
<1>7. /\ Order(ps'.queue) = Order(t.queue) /\ Size(ps'.queue) = Size(t.queue)
      /\ Positions(ps'.queue) = Positions(t.queue)
  BY <1>6 DEF Order, Size, Positions
<1>8. \A k : ItemAt(ps'.queue, k) = ItemAt(t.queue, k)
  BY <1>6, <1>7 DEF ItemAt
<1>9. Playing(ps') = serial + 1 /\ ps'.queue.items[ps'.queue.current + 1] = serial + 1
  BY <1>5, <1>6, <1>7, PlayingIs
<1>10. /\ serial \in Nat /\ serial' \in 0 .. MaxSerial /\ Batch \in Nat \ {0}
       /\ serial <= serial' /\ serial + 1 \in 1 .. serial'
  BY <1>4, BoundAssumption DEF Listed
<1>11. Shape'
  <2>1. ps'.status.progress = 0 /\ ps'.status.paused = FALSE
    BY <1>6 DEF Beginning
  <2> QED
    BY <1>4, <1>5, <1>6, <2>1 DEF Shape
<1>12. Listed'
  BY <1>4, <1>5, <1>6, <1>7, <1>10 DEF Listed
<1>13. Ended'
  BY <1>4 DEF Ended
<1>14. PICK l \in Nat \ {0} : l = Len(heard)
  BY DEF Pass
<1>15. /\ heard' \in Seq(1 .. serial') /\ Len(heard') = l + 1 /\ heard'[l + 1] = serial + 1
       /\ \A k \in 1 .. l : heard'[k] = heard[k]
  <2>1. 1 .. serial \subseteq 1 .. serial'
    BY <1>10
  <2>2. heard \in Seq(1 .. serial')
    BY <2>1, SeqMonotonic DEF Pass
  <2> QED
    BY <1>4, <1>9, <1>10, <1>14, <2>2
<1>16. ASSUME NEW k \in 1 .. l + 1 PROVE k = l + 1 \/ k \in 1 .. l
  OBVIOUS
<1>17. Order(ps.queue)[n] = ps.queue.current
  BY <1>2, <1>4 DEF Ended
<1>18. CASE ps.queue.shuffled
  <2>1. PICK r \in l .. n : /\ Order(ps.queue)[r] = ps.queue.current
                            /\ \A k \in 1 .. l : heard[k] = ItemAt(ps.queue, r - l + k)
    BY <1>2, <1>14, <1>18 DEF Pass
  <2>2. r = n
    <3>1. r \in 1 .. n /\ n \in 1 .. n
      BY <2>1
    <3>2. Arrangement(Order(ps.queue), n)
      BY <1>2, ListIs
    <3> QED
      BY <1>17, <2>1, <3>1, <3>2 DEF Arrangement
  <2>3. n + 1 \in l + 1 .. Size(ps'.queue)
    BY <1>5, <1>7, <1>10, <1>18, <2>1
  <2>4. Order(ps'.queue)[n + 1] = ps'.queue.current
    BY <1>5, <1>6, <1>7, <1>18
  <2>5. ItemAt(ps'.queue, n + 1) = serial + 1
    BY <1>9, <2>4 DEF ItemAt
  <2>6. ASSUME NEW k \in 1 .. l + 1
        PROVE  heard'[k] = ItemAt(ps'.queue, (n + 1) - (l + 1) + k)
    <3>1. CASE k = l + 1
      <4>1. (n + 1) - (l + 1) + k = n + 1
        BY <3>1
      <4> QED
        BY <1>15, <2>5, <3>1, <4>1
    <3>2. CASE k \in 1 .. l
      <4>1. (n + 1) - (l + 1) + k = n - l + k /\ n - l + k \in 1 .. n
        BY <2>1, <3>2
      <4> QED
        BY <1>5, <1>8, <1>15, <1>18, <2>1, <2>2, <3>2, <4>1
    <3> QED
      BY <1>16, <3>1, <3>2
  <2>7. \E s \in Len(heard') .. Size(ps'.queue) :
          /\ Order(ps'.queue)[s] = ps'.queue.current
          /\ \A k \in 1 .. Len(heard') : heard'[k] = ItemAt(ps'.queue, s - Len(heard') + k)
    <3>1. n + 1 \in Len(heard') .. Size(ps'.queue)
      BY <1>15, <2>3
    <3>2. \A k \in 1 .. Len(heard') : heard'[k] = ItemAt(ps'.queue, (n + 1) - Len(heard') + k)
      BY <1>15, <2>6
    <3> WITNESS n + 1 \in Len(heard') .. Size(ps'.queue)
    <3> QED
      BY <2>4, <3>2
  <2>8. Len(heard') \in Nat \ {0}
    BY <1>15
  <2>9. Pass'
    BY <1>5, <1>6, <1>15, <1>18, <2>7, <2>8 DEF Pass
  <2> QED
    BY <1>9, <1>11, <1>12, <1>13, <2>9
<1>19. CASE ~ps.queue.shuffled
  <2>1. ps.queue.items[ps.queue.current + 1] = serial
    <3>1. Order(ps.queue) = Sequential(n)
      BY <1>2, <1>19, ListIs
    <3>2. ps.queue.current = n - 1 /\ n \in 1 .. n /\ n - 1 + 1 = n
      BY <1>17, <3>1 DEF Sequential
    <3>3. ps.queue.items[n] = serial - n + n
      BY <1>2, <3>2 DEF Listed, Newest, Size
    <3> QED
      BY <1>10, <3>2, <3>3
  <2>2. \A k \in 1 .. l : heard[k] = serial - l + k
    BY <1>14, <1>19, <2>1 DEF Pass
  <2>3. ASSUME NEW k \in 1 .. l + 1 PROVE heard'[k] = (serial + 1) - (l + 1) + k
    <3>1. CASE k = l + 1
      BY <1>10, <1>15, <3>1
    <3>2. CASE k \in 1 .. l
      BY <1>10, <1>15, <2>2, <3>2
    <3> QED
      BY <1>16, <3>1, <3>2
  <2>4. \A k \in 1 .. Len(heard') :
          heard'[k] = ps'.queue.items[ps'.queue.current + 1] - Len(heard') + k
    BY <1>9, <1>15, <2>3
  <2>5. Len(heard') \in Nat \ {0}
    BY <1>15
  <2>6. Pass'
    BY <1>5, <1>6, <1>15, <1>19, <2>4, <2>5 DEF Pass
  <2> QED
    BY <1>9, <1>11, <1>12, <1>13, <2>6
<1> QED
  BY <1>18, <1>19 DEF Shape

\* Repeat leaves a pass alone; shuffle begins one at the current item.
LEMMA OptionKeeps ==
  ASSUME EInv,
         (\E mode \in RepeatModes : Repeat(mode)) \/ \E enabled \in BOOLEAN : Shuffle(enabled)
  PROVE  EInv' /\ CurrentPlayable(ps'.queue) = CurrentPlayable(ps.queue)
<1> USE DEF EInv
<1>1. ASSUME NEW mode \in RepeatModes, Repeat(mode)
      PROVE  EInv' /\ CurrentPlayable(ps'.queue) = CurrentPlayable(ps.queue)
  <2>1. ps' = SetRepeat(ps, mode) /\ outcome' = "none" /\ serial' = serial /\ heard' = heard
    BY <1>1 DEF Repeat
  <2>2. /\ IsState(ps') /\ ps'.status = ps.status /\ ps'.queue.repeat = mode
        /\ ps'.queue.items = ps.queue.items /\ ps'.queue.current = ps.queue.current
        /\ ps'.queue.shuffled = ps.queue.shuffled /\ ps'.queue.order = ps.queue.order
        /\ ps'.queue.radio = ps.queue.radio
    BY <2>1 DEF SetRepeat, Shape, IsState, IsQueue, IsStatus
  <2>3. /\ Order(ps'.queue) = Order(ps.queue) /\ Size(ps'.queue) = Size(ps.queue)
        /\ Positions(ps'.queue) = Positions(ps.queue)
        /\ \A k : ItemAt(ps'.queue, k) = ItemAt(ps.queue, k)
    BY <2>2 DEF Order, Size, Positions, ItemAt
  <2>4. Shape'
    BY <2>1, <2>2 DEF Shape
  <2>5. Listed'
    BY <2>1, <2>2, <2>3 DEF Listed
  <2>6. Pass'
    BY <2>1, <2>2, <2>3 DEF Pass
  <2> QED
    BY <2>1, <2>2, <2>3, <2>4, <2>5, <2>6 DEF Ended, CurrentPlayable
<1>2. ASSUME NEW enabled \in BOOLEAN, Shuffle(enabled)
      PROVE  EInv' /\ CurrentPlayable(ps'.queue) = CurrentPlayable(ps.queue)
  <2>1. /\ ps' \in SetShuffle(ps, enabled) /\ outcome' = "none" /\ serial' = serial
        /\ heard' = <<Playing(ps)>>
    BY <1>2 DEF Shuffle
  <2>2. PICK order : \/ ps' = ShuffleOff(ps)
                     \/ ps' = ShuffleOn(ps, order) /\ order \in ShuffleOrders(ps.queue)
    BY <2>1 DEF SetShuffle
  <2>3. /\ IsState(ps') /\ ps'.status = ps.status /\ ps'.queue.repeat = ps.queue.repeat
        /\ ps'.queue.items = ps.queue.items /\ ps'.queue.current = ps.queue.current
        /\ ps'.queue.radio = ps.queue.radio /\ ps'.queue.shuffled \in BOOLEAN
        /\ ps'.queue.shuffled => ps'.queue.order = order /\ ps' = ShuffleOn(ps, order)
    BY <2>2, ShuffleIs DEF Shape
  <2>4. Size(ps'.queue) = Size(ps.queue) /\ Positions(ps'.queue) = Positions(ps.queue)
    BY <2>3 DEF Size, Positions
  <2>5. ps'.queue.shuffled => Arrangement(ps'.queue.order, Size(ps'.queue))
    <3>1. ASSUME ps'.queue.shuffled PROVE order \in ShuffleOrders(ps.queue)
      <4>1. ShuffleOff(ps).queue.shuffled = FALSE
        BY DEF ShuffleOff, Shape, IsState, IsQueue
      <4> QED
        BY <2>2, <3>1, <4>1
    <3> QED
      BY <2>3, <2>4, <3>1, ListIs, SampledArranged DEF Listed
  <2>6. Shape'
    BY <2>1, <2>3 DEF Shape
  <2>7. Listed'
    BY <2>1, <2>3, <2>4, <2>5 DEF Listed
  <2>8. CurrentPlayable(ps'.queue) = CurrentPlayable(ps.queue) /\ Playing(ps') = Playing(ps)
    BY <2>3, <2>4 DEF CurrentPlayable, Playing
  <2>9. Pass'
    BY <2>1, <2>6, <2>7, <2>8, AloneThen
  <2> QED
    BY <2>1, <2>6, <2>7, <2>8, <2>9 DEF Ended
<1> QED
  BY <1>1, <1>2

-----------------------------------------------------------------------------
(* The theorems                                                              *)

\* The initial states satisfy EInv.
LEMMA InitEInv == Init => EInv
<1> SUFFICES ASSUME Init PROVE EInv
  OBVIOUS
<1>0. PICK n \in 1 .. MaxSerial - Batch, radio \in BOOLEAN : \E current \in 0 .. n - 1 :
        /\ ps = [queue |-> [items |-> [i \in 1 .. n |-> i], current |-> current,
                            shuffled |-> FALSE, order |-> <<>>,
                            repeat |-> "NONE", radio |-> radio],
                 status |-> Beginning("peer")]
        /\ serial = n /\ outcome = "none" /\ heard = <<current + 1>>
  BY DEF Init
<1>1. PICK current \in 0 .. n - 1 :
        /\ ps = [queue |-> [items |-> [i \in 1 .. n |-> i], current |-> current,
                            shuffled |-> FALSE, order |-> <<>>,
                            repeat |-> "NONE", radio |-> radio],
                 status |-> Beginning("peer")]
        /\ serial = n /\ outcome = "none" /\ heard = <<current + 1>>
  BY <1>0
<1>2. n \in Nat \ {0} /\ n \in 0 .. MaxSerial /\ current + 1 \in 1 .. n
  BY BoundAssumption
<1>3. PICK items : items = [i \in 1 .. n |-> i]
  OBVIOUS
<1>4. items \in Seq(Nat) /\ Len(items) = n /\ \A i \in 1 .. n : items[i] = i
  BY <1>2, <1>3
<1>5. /\ ps.queue.items = items /\ ps.queue.current = current /\ ps.queue.shuffled = FALSE
      /\ ps.queue.repeat = "NONE" /\ ps.queue.radio = radio
      /\ IsState(ps) /\ ps.status.progress = 0 /\ ps.status.paused = FALSE
  BY <1>1, <1>3 DEF Beginning, IsState, IsQueue, IsStatus
<1>6. Shape
  BY <1>1, <1>5 DEF Shape, RepeatModes
<1>7. Listed
  <2>1. \A i \in 1 .. n : items[i] = n - n + i
    BY <1>2, <1>4
  <2>2. Newest(items, n)
    BY <1>2, <1>4, <2>1, NewestIs
  <2> QED
    BY <1>1, <1>2, <1>4, <1>5, <2>2 DEF Listed, Positions, Size
<1>8. Playing(ps) = current + 1
  BY <1>2, <1>4, <1>5, <1>7, PlayingIs DEF Listed
<1> QED
  BY <1>1, <1>6, <1>7, <1>8, Alone DEF EInv, Ended

\* EInv through every step.
LEMMA NextEInv == EInv /\ [Next]_vars => EInv'
<1> SUFFICES ASSUME EInv, [Next]_vars PROVE EInv'
  OBVIOUS
<1>1. CASE \E natural \in BOOLEAN : Advance(natural)
  BY <1>1, AdvanceKeeps
<1>2. CASE Previous
  BY <1>2, PreviousKeeps
<1>3. CASE Prefetch
  BY <1>3, PrefetchKeeps
<1>4. CASE AdvanceIntoBatch
  BY <1>4, IntoBatchKeeps
<1>5. CASE (\E mode \in RepeatModes : Repeat(mode)) \/ \E enabled \in BOOLEAN : Shuffle(enabled)
  BY <1>5, OptionKeeps
<1>6. CASE UNCHANGED vars
  BY <1>6 DEF vars, EInv, Shape, Listed, Pass, Ended
<1> QED
  BY <1>1, <1>2, <1>3, <1>4, <1>5, <1>6 DEF Next

\* Every reachable player state holds the newest items, keeps its shuffle a permutation, and
\* what was heard is a run that ends with the current item.
LEMMA Invariance == Spec => []EInv
<1> QED
  BY InitEInv, NextEInv, PTL DEF Spec

\* The edits leave a list of published items with an index inside it (TypeOK).
THEOREM TypeCorrect == Spec => []TypeOK
<1>1. EInv => TypeOK
  <2> SUFFICES ASSUME EInv PROVE TypeOK
    OBVIOUS
  <2>1. PICK n \in Nat \ {0} : n = Size(ps.queue) /\ n = Len(ps.queue.items)
    BY ListIs DEF EInv
  <2>2. /\ serial \in Nat /\ serial \in 0 .. MaxSerial /\ n <= serial /\ MaxSerial \in Nat
        /\ ps.queue.items \in Seq(Nat)
        /\ \A i \in 1 .. n : ps.queue.items[i] = serial - n + i
    <3>1. serial \in Nat /\ serial \in 0 .. MaxSerial /\ MaxSerial \in Nat
      BY BoundAssumption DEF EInv, Listed
    <3>2. Newest(ps.queue.items, serial)
      BY DEF EInv, Listed
    <3>3. /\ ps.queue.items \in Seq(Nat) /\ n \in 1 .. serial
          /\ \A i \in 1 .. n : ps.queue.items[i] = serial - n + i
      BY <2>1, <3>2 DEF Newest
    <3>4. n <= serial
      BY <3>1, <3>3
    <3> QED
      BY <3>1, <3>3, <3>4
  <2>3. ps.queue.items \in Seq(1 .. MaxSerial)
    <3>1. \A i \in 1 .. n : ps.queue.items[i] \in 1 .. MaxSerial
      BY <2>2
    <3>2. ps.queue.items = [i \in 1 .. n |-> ps.queue.items[i]]
      BY <2>1, <2>2
    <3> QED
      BY <3>1, <3>2
  <2>4. ps.queue.current \in -1 .. MaxSerial
    BY <2>1, <2>2 DEF EInv, Listed, Positions
  <2>5. heard \in Seq(1 .. MaxSerial)
    <3>1. 1 .. serial \subseteq 1 .. MaxSerial
      BY <2>2
    <3> QED
      BY <3>1, SeqMonotonic DEF EInv, Pass
  <2> QED
    BY <2>2, <2>3, <2>4, <2>5 DEF EInv, Shape, TypeOK
<1> QED
  BY <1>1, Invariance, PTL

\* No item is heard twice in a pass (NoItemHeardTwice), over any sequence of appends, trims,
\* shuffles and moves.
THEOREM EachItemOnce == Spec => []NoItemHeardTwice
<1>1. EInv => NoItemHeardTwice
  <2> SUFFICES ASSUME EInv, NEW i \in 1 .. Len(heard), NEW j \in 1 .. Len(heard),
                      heard[i] = heard[j]
               PROVE  i = j
    BY DEF NoItemHeardTwice
  <2>1. PICK l \in Nat \ {0} : l = Len(heard) /\ i \in 1 .. l /\ j \in 1 .. l
    BY DEF EInv, Pass
  <2>2. PICK n \in Nat \ {0} : n = Size(ps.queue)
    BY ListIs DEF EInv
  <2>3. CASE ps.queue.shuffled
    <3>1. PICK r \in l .. n : \A k \in 1 .. l : heard[k] = ItemAt(ps.queue, r - l + k)
      BY <2>1, <2>2, <2>3 DEF EInv, Pass
    <3>2. r - l + i \in 1 .. n /\ r - l + j \in 1 .. n
      BY <2>1, <3>1
    <3>3. r - l + i = r - l + j
      BY <2>1, <2>2, <3>1, <3>2, ItemsDiffer DEF EInv
    <3> QED
      BY <2>1, <3>1, <3>3
  <2>4. CASE ~ps.queue.shuffled
    <3>1. PICK item : item = ps.queue.items[ps.queue.current + 1]
      OBVIOUS
    <3>2. item \in Nat
      <4>1. ps.queue.current + 1 \in 1 .. Len(ps.queue.items) /\ ps.queue.items \in Seq(Nat)
        <5>1. ps.queue.current \in 0 .. n - 1 /\ Len(ps.queue.items) = n
          BY <2>2, ListIs DEF EInv
        <5>2. ps.queue.items \in Seq(Nat)
          BY DEF EInv, Listed, Newest
        <5> QED
          BY <5>1, <5>2
      <4> QED
        BY <3>1, <4>1, ElementOfSeq
    <3>3. item - l + i = item - l + j
      BY <2>1, <2>4, <3>1 DEF EInv, Pass
    <3> QED
      BY <2>1, <3>2, <3>3
  <2> QED
    BY <2>3, <2>4
<1> QED
  BY <1>1, Invariance, PTL

\* A shuffled queue stops only when every item of the list was heard, unless the pass was
\* broken (ShuffleSkipsNothing).
THEOREM ShuffleIsComplete == Spec => []ShuffleSkipsNothing
<1>1. EInv => ShuffleSkipsNothing
  <2> SUFFICES ASSUME EInv, outcome = "stop", ps.queue.shuffled,
                      heard[1] = ps.queue.items[ps.queue.order[1] + 1]
               PROVE  {heard[i] : i \in 1 .. Len(heard)}
                        = {ps.queue.items[i] : i \in 1 .. Size(ps.queue)}
    BY DEF ShuffleSkipsNothing
  <2>1. PICK n \in Nat \ {0} : /\ n = Size(ps.queue) /\ Arrangement(Order(ps.queue), n)
                               /\ Order(ps.queue) = ps.queue.order
    BY ListIs DEF EInv
  <2>2. PICK l \in Nat \ {0} : l = Len(heard)
    BY DEF EInv, Pass
  <2>3. PICK r \in l .. n : /\ Order(ps.queue)[r] = ps.queue.current
                            /\ \A k \in 1 .. l : heard[k] = ItemAt(ps.queue, r - l + k)
    BY <2>1, <2>2 DEF EInv, Pass
  <2>4. r = n
    <3>1. Order(ps.queue)[n] = ps.queue.current /\ r \in 1 .. n /\ n \in 1 .. n
      BY <2>1, <2>3 DEF EInv, Ended
    <3> QED
      BY <2>1, <2>3, <3>1 DEF Arrangement
  <2>5. l = n
    <3>1. 1 \in 1 .. l /\ 1 \in 1 .. n /\ n - l + 1 \in 1 .. n
      BY <2>3
    <3>2. ItemAt(ps.queue, n - l + 1) = ItemAt(ps.queue, 1)
      BY <2>1, <2>3, <2>4, <3>1 DEF ItemAt
    <3>3. n - l + 1 = 1
      BY <2>1, <3>1, <3>2, ItemsDiffer DEF EInv
    <3> QED
      BY <3>3
  <2>6. ASSUME NEW k \in 1 .. n
        PROVE  heard[k] = ps.queue.items[Order(ps.queue)[k] + 1]
    <3>1. n - n + k = k
      OBVIOUS
    <3> QED
      BY <2>3, <2>4, <2>5, <3>1 DEF ItemAt
  <2>7. ASSUME NEW k \in 1 .. n
        PROVE  /\ \E i \in 1 .. n : heard[k] = ps.queue.items[i]
               /\ \E i \in 1 .. n : heard[i] = ps.queue.items[k]
    <3>1. Order(ps.queue)[k] \in 0 .. n - 1
      <4>1. Order(ps.queue) \in Seq(0 .. n - 1) /\ Len(Order(ps.queue)) = n
        BY <2>1 DEF Arrangement
      <4> QED
        BY <4>1, ElementOfSeq
    <3>2. PICK x \in 0 .. n - 1 : x = Order(ps.queue)[k]
      BY <3>1
    <3>3. x + 1 \in 1 .. n /\ heard[k] = ps.queue.items[x + 1]
      BY <2>6, <3>2
    <3>4. k - 1 \in 0 .. n - 1 /\ (k - 1) + 1 = k
      OBVIOUS
    <3>5. PICK i \in 1 .. n : Order(ps.queue)[i] = k - 1
      BY <2>1, <3>4 DEF Arrangement
    <3>6. heard[i] = ps.queue.items[k]
      BY <2>6, <3>4, <3>5
    <3> QED
      BY <3>3, <3>6
  <2>8. {heard[i] : i \in 1 .. n} = {ps.queue.items[i] : i \in 1 .. n}
    <3>1. ASSUME NEW x \in {heard[i] : i \in 1 .. n}
          PROVE  x \in {ps.queue.items[i] : i \in 1 .. n}
      BY <2>7, <3>1, SMTT(30)
    <3>2. ASSUME NEW x \in {ps.queue.items[i] : i \in 1 .. n}
          PROVE  x \in {heard[i] : i \in 1 .. n}
      BY <2>7, <3>2
    <3> QED
      BY <3>1, <3>2
  <2> QED
    BY <2>1, <2>2, <2>5, <2>8
<1> QED
  BY <1>1, Invariance, PTL

\* Neither an append with its trim nor an option edit changes which item plays
\* (EditsKeepTheItem).
THEOREM EditsKeepPlaying == Spec => EditsKeepTheItem
<1>1. EInv /\ [Next]_vars
        => [outcome' = "none" => CurrentPlayable(ps'.queue) = CurrentPlayable(ps.queue)]_vars
  <2> SUFFICES ASSUME EInv, Next, outcome' = "none"
               PROVE  CurrentPlayable(ps'.queue) = CurrentPlayable(ps.queue)
    OBVIOUS
  <2>1. CASE \E natural \in BOOLEAN : Advance(natural)
    BY <2>1 DEF Advance, Outcome
  <2>2. CASE Previous \/ AdvanceIntoBatch
    BY <2>2 DEF Previous, AdvanceIntoBatch
  <2>3. CASE Prefetch
    <3>1. EInv' /\ Playing(ps') = Playing(ps)
      BY <2>3, PrefetchKeeps
    <3>2. /\ ps'.queue.current \in Positions(ps'.queue)
          /\ ps.queue.current \in Positions(ps.queue)
      BY <3>1 DEF EInv, Listed
    <3> QED
      BY <3>1, <3>2, PlayingIs
  <2>4. CASE (\E mode \in RepeatModes : Repeat(mode)) \/ \E enabled \in BOOLEAN : Shuffle(enabled)
    BY <2>4, OptionKeeps
  <2> QED
    BY <2>1, <2>2, <2>3, <2>4 DEF Next
<1> QED
  BY <1>1, Invariance, PTL DEF Spec, EditsKeepTheItem

\* A RADIO advance lands on the first new item, whatever was trimmed in front of it
\* (RadioAdvanceIsContiguous).
THEOREM RadioGoesOn == Spec => RadioAdvanceIsContiguous
<1>1. EInv /\ [Next]_vars
        => [outcome' = "change" /\ serial' # serial => Playing(ps') = serial + 1]_vars
  <2> SUFFICES ASSUME EInv, Next, outcome' = "change", serial' # serial
               PROVE  Playing(ps') = serial + 1
    OBVIOUS
  <2>1. AdvanceIntoBatch
    BY DEF Next, Advance, Previous, Prefetch, Repeat, Shuffle
  <2> QED
    BY <2>1, IntoBatchKeeps
<1> QED
  BY <1>1, Invariance, PTL DEF Spec, RadioAdvanceIsContiguous
=============================================================================
