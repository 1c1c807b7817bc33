----------------------- MODULE QueueReservationProofs -----------------------
(***************************************************************************)
(* QueueNavigation implements ConditionalStore, for every value of its     *)
(* constants.  Each step of the client, the server or another device is a  *)
(* step of the store or leaves it alone.  What carries the argument: the   *)
(* counters only grow, so a decision that something overtook stays         *)
(* overtaken, and the checks under the lock see exactly that.              *)
(***************************************************************************)
EXTENDS QueueNavigationProofs

\* A call remembers a generation that may only have grown since; one that sends holds
\* the lock, and only a send lets peers act meanwhile.
Reserving(c) ==
    /\ caller[c].epoch \in Nat /\ caller[c].epoch <= epoch
    /\ caller[c].pc = "sending" => holder = c
    /\ caller[c].pc # "sending" => caller[c].meanwhile = {}

RInv == \A c \in Callers : Reserving(c)

Holds(r) == r.pc # "idle" /\ r.op # "pause"
BrokenOf == [c \in Callers |-> Broken(c)]

-----------------------------------------------------------------------------
(* Steps as the store sees them                                              *)

\* A caller without a change of its own, of the generation and of the move in flight
\* keeps its reservation as it is.
LEMMA Untouched ==
  ASSUME NEW d \in Callers, caller'[d] = caller[d], epoch' = epoch,
         InFlightMove' = InFlightMove
  PROVE  Broken(d)' = Broken(d) /\ (d \in Reserved' <=> d \in Reserved)
  BY DEF Broken, Reserved, OthersBroke, Superseded

\* One call is replaced, and it is not the one that sends.
LEMMA OneCall ==
  ASSUME IInv, NEW c \in Callers, NEW call, caller' = [caller EXCEPT ![c] = call],
         holder' = holder, holder # c, epoch' = epoch, holder \in Callers \union {None}
  PROVE  /\ caller'[c] = call /\ InFlightMove' = InFlightMove
         /\ \A d \in Callers \ {c} : caller'[d] = caller[d] /\ Broken(d)' = Broken(d)
         /\ Reserved' \ {c} = Reserved \ {c}
         /\ c \in Reserved' <=> Holds(call)
         /\ c \in Reserved <=> Holds(caller[c])
<1>1. caller'[c] = call /\ \A d \in Callers \ {c} : caller'[d] = caller[d]
  BY DEF IInv, Shape
<1>2. InFlightMove' = InFlightMove
  <2>1. CASE holder = None
    BY <2>1 DEF InFlightMove
  <2>2. CASE holder # None
    <3>1. caller'[holder] = caller[holder]
      BY <1>1, <2>2
    <3> QED
      BY <3>1 DEF InFlightMove
  <2> QED
    BY <2>1, <2>2
<1>3. \A d \in Callers \ {c} : Broken(d)' = Broken(d) /\ (d \in Reserved' <=> d \in Reserved)
  BY <1>1, <1>2, Untouched
<1>4. Reserved' \subseteq Callers /\ Reserved \subseteq Callers
  BY DEF Reserved
<1>5. (c \in Reserved' <=> Holds(call)) /\ (c \in Reserved <=> Holds(caller[c]))
  BY <1>1 DEF Reserved, Holds
<1> QED
  BY <1>1, <1>2, <1>3, <1>4, <1>5

\* ... and keeps or never had its reservation.
LEMMA SameStore ==
  ASSUME NEW c \in Callers, Reserved' \ {c} = Reserved \ {c}, holder' = holder,
         c \in Reserved' <=> c \in Reserved,
         \A d \in Callers : Broken(d)' = Broken(d)
  PROVE  UNCHANGED Store!vars
<1>1. Reserved' = Reserved
  OBVIOUS
<1>2. BrokenOf' = BrokenOf
  BY DEF BrokenOf
<1> QED
  BY <1>1, <1>2 DEF Store!vars, BrokenOf

\* ... or loses it.
LEMMA Abandons ==
  ASSUME IInv, NEW c \in Callers, caller' = [caller EXCEPT ![c] = Idle],
         holder' = holder, holder # c, epoch' = epoch, holder \in Callers \union {None}
  PROVE  Store!Abandon(c) \/ UNCHANGED Store!vars
<1>1. /\ InFlightMove' = InFlightMove /\ c \notin Reserved'
      /\ \A d \in Callers \ {c} : Broken(d)' = Broken(d)
      /\ Reserved' \ {c} = Reserved \ {c}
  BY OneCall DEF Holds, Idle
<1>2. Broken(c)' = {}
  BY <1>1 DEF Broken
<1>3. CASE c \in Reserved
  <2>1. Reserved' = Reserved \ {c}
    BY <1>1
  <2>2. BrokenOf' = [BrokenOf EXCEPT ![c] = {}]
    BY <1>1, <1>2 DEF BrokenOf
  <2> QED
    BY <1>3, <2>1, <2>2 DEF Store!Abandon, BrokenOf
<1>4. CASE c \notin Reserved
  <2>1. Broken(c) = {}
    BY <1>4 DEF Broken
  <2> QED
    BY <1>1, <1>2, <1>4, <2>1, SameStore
<1> QED
  BY <1>3, <1>4

\* Calls keep what they decided, and others may have acted: the generation, or what a
\* call knows of them, only grows.
LEMMA Disturbs ==
  ASSUME RInv, holder' = holder, epoch \in Nat, epoch' \in Nat, epoch <= epoch',
         \A c \in Callers :
            /\ caller'[c].pc = caller[c].pc /\ caller'[c].op = caller[c].op
            /\ caller'[c].epoch = caller[c].epoch /\ caller'[c].sent = caller[c].sent
            /\ caller'[c].previous = caller[c].previous
            /\ caller'[c].passed = caller[c].passed
            /\ caller[c].overtaken \subseteq caller'[c].overtaken
            /\ caller[c].meanwhile \subseteq caller'[c].meanwhile,
         holder \in Callers \union {None}
  PROVE  Store!Disturb
<1>1. InFlightMove' = InFlightMove
  BY DEF InFlightMove
<1>2. Reserved' = Reserved
  BY DEF Reserved
<1>3. ASSUME NEW c \in Callers, OthersBroke(c) PROVE OthersBroke(c)'
  <2>1. Superseded(c) => Superseded(c)'
    BY DEF Superseded, RInv, Reserving
  <2> QED
    BY <1>3, <2>1 DEF OthersBroke
<1> DEFINE breaks == {c \in Reserved : OthersBroke(c)'}
<1>4. ASSUME NEW c \in Callers
      PROVE  Broken(c)' = IF c \in breaks THEN Broken(c) \union {"others"} ELSE Broken(c)
  <2>1. CASE c \notin Reserved
    BY <1>2, <2>1 DEF Broken
  <2>2. CASE c \in Reserved
    BY <1>1, <1>2, <1>3, <2>2 DEF Broken
  <2> QED
    BY <2>1, <2>2
<1>5. breaks \in SUBSET Reserved
  OBVIOUS
<1> HIDE DEF breaks
<1>6. BrokenOf' = [c \in Callers |-> IF c \in breaks THEN BrokenOf[c] \union {"others"}
                                     ELSE BrokenOf[c]]
  BY <1>4 DEF BrokenOf
<1> QED
  BY <1>2, <1>5, <1>6 DEF Store!Disturb, BrokenOf

\* Only one call is replaced, by one that does not send.
LEMMA Unsent ==
  ASSUME IInv, RInv, NEW c \in Callers, NEW call, caller' = [caller EXCEPT ![c] = call],
         holder' = holder, holder # c, epoch' = epoch,
         call.epoch \in Nat, call.epoch <= epoch, call.pc # "sending", call.meanwhile = {}
  PROVE  RInv'
<1>1. caller'[c] = call /\ \A d \in Callers \ {c} : caller'[d] = caller[d]
  BY DEF IInv, Shape
<1> QED
  BY <1>1 DEF RInv, Reserving

\* No call changes but for what peers do to it while it is sent.
LEMMA Grown ==
  ASSUME RInv, holder' = holder, epoch \in Nat, epoch' \in Nat, epoch <= epoch',
         \A c \in Callers :
            /\ caller'[c].pc = caller[c].pc /\ caller'[c].epoch = caller[c].epoch
            /\ caller[c].pc # "sending" => caller'[c].meanwhile = caller[c].meanwhile
  PROVE  RInv'
  BY DEF RInv, Reserving

-----------------------------------------------------------------------------
(* One lemma per action: its step of the store, and what it keeps            *)

Simulates == [Store!Next]_(Store!vars) /\ RInv'
Holding == holder \in Callers \union {None}
Good == IInv /\ TInv /\ RInv

\* What of the invariants the mapping of the lock rests on.
LEMMA GoodHolding == Good => Holding /\ epoch \in Nat
  BY DEF Good, IInv, Counters, TInv, LockTyped, Holding

\* Steps that touch no call: the server, the other devices, time and a lost connection.
LEMMA CalmSimulates ==
  ASSUME Good, UNCHANGED <<caller, holder, epoch>>
  PROVE  Simulates
<1>1. epoch \in Nat
  BY GoodHolding
<1>2. RInv'
  BY <1>1, Grown DEF Good
<1>3. UNCHANGED Store!vars
  BY DEF Store!vars, Reserved, Broken, OthersBroke, Superseded, InFlightMove
<1> QED
  BY <1>2, <1>3 DEF Simulates

\* A new connection breaks the reservations of the generation before it.
LEMMA ReconnectsSimulates == ASSUME Good, Reconnects PROVE Simulates
<1>1. /\ caller' = caller /\ holder' = holder /\ epoch' = epoch + 1
      /\ epoch \in Nat /\ holder \in Callers \union {None}
  BY GoodHolding DEF Reconnects, ResetPendingQueue, sendVars, Holding
<1>2. Store!Disturb
  BY <1>1, Disturbs DEF Good
<1>3. RInv'
  BY <1>1, Grown DEF Good
<1> QED
  BY <1>2, <1>3 DEF Simulates, Store!Next

\* So does a frame, and what it tells of peers.
LEMMA DeliverSimulates == ASSUME Good, Deliver PROVE Simulates
<1>1. /\ holder' = holder /\ epoch \in Nat /\ holder \in Callers \union {None}
      /\ epoch' \in Nat /\ epoch <= epoch'
  BY GoodHolding DEF Deliver, ParseQueue, Holding
<1>2. PICK what : caller' = [c \in Callers |-> Followed(c, what)]
  BY DEF Deliver
<1>3. ASSUME NEW c \in Callers
      PROVE  /\ caller'[c].pc = caller[c].pc /\ caller'[c].op = caller[c].op
             /\ caller'[c].epoch = caller[c].epoch /\ caller'[c].sent = caller[c].sent
             /\ caller'[c].previous = caller[c].previous
             /\ caller'[c].passed = caller[c].passed
             /\ caller[c].overtaken \subseteq caller'[c].overtaken
             /\ caller[c].meanwhile \subseteq caller'[c].meanwhile
             /\ caller[c].pc # "sending" => caller'[c].meanwhile = caller[c].meanwhile
  <2>1. caller'[c] = Followed(c, what)
    BY <1>2
  <2>2. IsCall(caller[c])
    BY DEF Good, IInv, Shape
  <2> QED
    BY <2>1, <2>2 DEF Followed, IsCall
<1>4. Store!Disturb
  BY <1>1, <1>3, Disturbs DEF Good
<1>5. RInv'
  BY <1>1, <1>3, Grown DEF Good
<1> QED
  BY <1>4, <1>5 DEF Simulates, Store!Next

\* A decision, or a call that asks for the lock at once, is a reservation.
LEMMA RequestSimulates ==
  ASSUME Good, NEW c \in Callers, caller[c].pc = "idle", NEW pc \in {"decided", "waiting"},
         NEW op, NEW baseline, NEW items, NEW index,
         caller' = [caller EXCEPT ![c] = Request(pc, op, baseline, items, index)],
         holder' = holder, epoch' = epoch
  PROVE  Simulates
<1> DEFINE call == Request(pc, op, baseline, items, index)
<1>1. /\ call.pc = pc /\ call.op = op /\ call.epoch = epoch /\ call.meanwhile = {}
      /\ call.overtaken = {} /\ call.passed = {}
      /\ caller' = [caller EXCEPT ![c] = call]
  BY DEF Request
<1>2. holder # c /\ Holding /\ epoch \in Nat
  BY GoodHolding, NotHolder DEF Good
<1> HIDE DEF call
<1>3. RInv'
  <2>1. call.epoch \in Nat /\ call.epoch <= epoch /\ call.pc # "sending"
    BY <1>1, <1>2
  <2> QED
    BY <1>1, <1>2, <2>1, Unsent DEF Good
<1>4. /\ caller'[c] = call /\ InFlightMove' = InFlightMove
      /\ \A d \in Callers \ {c} : Broken(d)' = Broken(d)
      /\ Reserved' \ {c} = Reserved \ {c}
      /\ c \in Reserved' <=> Holds(call)
      /\ c \notin Reserved
  BY <1>1, <1>2, OneCall DEF Good, Holding, Holds
<1>5. Broken(c) = {}
  BY <1>4 DEF Broken
<1>6. Broken(c)' = {}
  BY <1>1, <1>4 DEF Broken, OthersBroke, Superseded
<1>7. BrokenOf' = BrokenOf
  BY <1>4, <1>5, <1>6 DEF BrokenOf
<1>8. CASE Holds(call)
  <2>1. Reserved' = Reserved \union {c}
    BY <1>4, <1>8
  <2>2. Store!Reserve(c)
    BY <1>2, <1>4, <1>7, <2>1 DEF Store!Reserve, BrokenOf
  <2> QED
    BY <1>3, <2>2 DEF Simulates, Store!Next
<1>9. CASE ~Holds(call)
  <2>1. UNCHANGED Store!vars
    BY <1>4, <1>5, <1>6, <1>9, SameStore
  <2> QED
    BY <1>3, <2>1 DEF Simulates
<1> QED
  BY <1>8, <1>9

\* A call that goes on without sending, and is broken by neither more nor less.
LEMMA GoesOnSimulates ==
  ASSUME Good, NEW c \in Callers, NEW call, caller' = [caller EXCEPT ![c] = call],
         holder' = holder, holder # c, epoch' = epoch,
         call.epoch \in Nat, call.epoch <= epoch, call.pc # "sending", call.meanwhile = {},
         Holds(call), Holds(caller[c]), call.op = caller[c].op,
         call.overtaken = caller[c].overtaken \union caller[c].meanwhile,
         call.passed = caller[c].passed,
         call.op \in Advances => /\ call.pc = "waiting" => call.epoch = epoch
                                 /\ caller[c].pc = "waiting" => caller[c].epoch = epoch,
         call.op \notin Advances => call.epoch = caller[c].epoch
  PROVE  Simulates
<1>1. /\ caller'[c] = call /\ InFlightMove' = InFlightMove
      /\ \A d \in Callers \ {c} : Broken(d)' = Broken(d)
      /\ Reserved' \ {c} = Reserved \ {c}
      /\ c \in Reserved' /\ c \in Reserved
  BY GoodHolding, OneCall DEF Good, Holding
<1>2. OthersBroke(c)' <=> OthersBroke(c)
  BY <1>1 DEF OthersBroke, Superseded
<1>3. Broken(c)' = Broken(c)
  BY <1>1, <1>2 DEF Broken
<1>4. UNCHANGED Store!vars
  BY <1>1, <1>3, SameStore
<1>5. RInv'
  BY Unsent DEF Good
<1> QED
  BY <1>4, <1>5 DEF Simulates

\* A call that ends without sending gives up its reservation.
LEMMA EndsSimulates ==
  ASSUME Good, NEW c \in Callers, caller' = [caller EXCEPT ![c] = Idle],
         holder' = holder, holder # c, epoch' = epoch
  PROVE  Simulates
<1>1. Store!Abandon(c) \/ UNCHANGED Store!vars
  BY GoodHolding, Abandons DEF Good, Holding
<1>2. RInv'
  <2>1. Idle.epoch = 0 /\ Idle.pc = "idle" /\ Idle.meanwhile = {} /\ epoch \in Nat
    BY GoodHolding DEF Idle
  <2>2. Idle.epoch \in Nat /\ Idle.epoch <= epoch /\ Idle.pc # "sending"
    BY <2>1
  <2> QED
    BY <2>1, <2>2, Unsent DEF Good
<1> QED
  BY <1>1, <1>2 DEF Simulates, Store!Next

\* A decided call queues for the lock under the reservation it has.
LEMMA CallSimulates == ASSUME Good, NEW c \in Callers, Call(c) PROVE Simulates
<1>1. /\ caller[c].pc = "decided" /\ holder' = holder /\ holder # c /\ epoch' = epoch
      /\ epoch \in Nat /\ IsCall(caller[c]) /\ caller[c].meanwhile = {}
      /\ caller[c].epoch \in Nat /\ caller[c].epoch <= epoch
  BY NotHolder, GoodHolding
  DEF Call, Good, IInv, Shape, RInv, Reserving, queueVars
<1>2. CASE caller[c].op = "append" /\ active # Self
  BY <1>1, <1>2, EndsSimulates DEF Call
<1>3. CASE ~(caller[c].op = "append" /\ active # Self)
  <2> DEFINE call == [caller[c] EXCEPT !.pc = "waiting",
                                       !.epoch = IF caller[c].op \in Advances THEN epoch ELSE @]
  <2>1. caller' = [caller EXCEPT ![c] = call]
    BY <1>3 DEF Call, Good, IInv, Shape
  <2>2. /\ call.pc = "waiting" /\ call.op = caller[c].op /\ call.meanwhile = {}
        /\ call.overtaken = caller[c].overtaken \union caller[c].meanwhile
        /\ call.passed = caller[c].passed
        /\ call.epoch = IF caller[c].op \in Advances THEN epoch ELSE caller[c].epoch
    BY <1>1 DEF IsCall
  <2>3. CASE caller[c].op = "pause"
    <3>1. ~Holds(call) /\ ~Holds(caller[c])
      BY <2>2, <2>3 DEF Holds
    <3> HIDE DEF call
    <3>2. /\ InFlightMove' = InFlightMove /\ c \notin Reserved' /\ c \notin Reserved
          /\ \A d \in Callers \ {c} : Broken(d)' = Broken(d)
          /\ Reserved' \ {c} = Reserved \ {c}
      BY <1>1, <2>1, <3>1, GoodHolding, OneCall DEF Good, Holding
    <3>3. Broken(c)' = Broken(c)
      BY <3>2 DEF Broken
    <3>4. UNCHANGED Store!vars
      BY <1>1, <3>2, <3>3, SameStore
    <3>5. RInv'
      <4>1. call.epoch \in Nat /\ call.epoch <= epoch /\ call.pc # "sending"
        BY <1>1, <2>2
      <4> QED
        BY <1>1, <2>1, <2>2, <4>1, Unsent DEF Good
    <3> QED
      BY <3>4, <3>5 DEF Simulates
  <2>4. CASE caller[c].op # "pause"
    <3> HIDE DEF call
    <3>1. Holds(call) /\ Holds(caller[c])
      BY <1>1, <2>2, <2>4 DEF Holds
    <3>2. /\ call.epoch \in Nat /\ call.epoch <= epoch /\ call.pc # "sending"
          /\ call.op \in Advances => (call.pc = "waiting" => call.epoch = epoch)
          /\ caller[c].pc # "waiting"
          /\ call.op \notin Advances => call.epoch = caller[c].epoch
      BY <1>1, <2>2
    <3> QED
      BY <1>1, <2>1, <2>2, <3>1, <3>2, GoesOnSimulates
  <2> QED
    BY <2>3, <2>4
<1> QED
  BY <1>2, <1>3

\* A call is made again under the reservation it has, or ends.
LEMMA AgainIs ==
  ASSUME NEW r
  PROVE  /\ Again(r).pc = "decided" /\ Again(r).op = r.op /\ Again(r).epoch = epoch
         /\ Again(r).meanwhile = {} /\ Again(r).passed = r.passed
         /\ Again(r).overtaken = r.overtaken \union r.meanwhile
         /\ Again(r).previous = None
  BY DEF Again, Request

\* A caller whose send failed gives up or, if it advances, tries again.
LEMMA AfterFailureIs ==
  ASSUME NEW c \in Callers
  PROVE  \/ AfterFailure(c) = Idle
         \/ AfterFailure(c) = Again(caller[c]) /\ caller[c].op \in Advances
  BY DEF AfterFailure

\* A caller at the lock gives up, or tries once more.
LEMMA GiveUpSimulates == ASSUME Good, NEW c \in Callers, GiveUp(c) PROVE Simulates
<1>1. /\ caller[c].pc = "waiting" /\ holder' = holder /\ holder # c /\ epoch' = epoch
      /\ epoch \in Nat /\ caller[c].meanwhile = {}
  BY NotHolder, GoodHolding DEF GiveUp, AtLock, Good, RInv, Reserving, queueVars
<1>2. CASE caller' = [caller EXCEPT ![c] = Idle]
  BY <1>1, <1>2, EndsSimulates
<1>3. CASE /\ link # "up" /\ caller' = [caller EXCEPT ![c] = AfterFailure(c)]
           /\ caller[c].op = "pause" \/ ~(Refused(c) \/ NothingToPublish(c))
  <2>1. CASE AfterFailure(c) = Idle
    BY <1>1, <1>3, <2>1, EndsSimulates
  <2>2. CASE AfterFailure(c) = Again(caller[c]) /\ caller[c].op \in Advances
    <3> DEFINE call == Again(caller[c])
    <3>1. caller' = [caller EXCEPT ![c] = call]
      BY <1>3, <2>2
    <3>2. /\ call.pc = "decided" /\ call.op = caller[c].op /\ call.epoch = epoch
          /\ call.meanwhile = {} /\ call.passed = caller[c].passed
          /\ call.overtaken = caller[c].overtaken \union caller[c].meanwhile
      BY AgainIs
    <3>3. caller[c].op # "pause" /\ caller[c].epoch = epoch
      BY <1>3, <2>2 DEF Refused, Superseded, Advances
    <3> HIDE DEF call
    <3>4. Holds(call) /\ Holds(caller[c])
      BY <1>1, <3>2, <3>3 DEF Holds
    <3>5. /\ call.epoch \in Nat /\ call.epoch <= epoch /\ call.pc # "sending"
          /\ call.pc # "waiting" /\ call.op \in Advances
      BY <1>1, <2>2, <3>2
    <3> QED
      BY <1>1, <3>1, <3>2, <3>3, <3>4, <3>5, GoesOnSimulates
  <2> QED
    BY <2>1, <2>2, AfterFailureIs
<1> QED
  BY <1>2, <1>3 DEF GiveUp

\* While nobody holds the lock nobody sends.
LEMMA Unheld == ASSUME Good, holder = None, NEW c \in Callers PROVE caller[c].pc # "sending"
  BY CallersAssumption DEF Good, RInv, Reserving

\* A queue edit is published under an unbroken reservation.  It breaks those of the
\* advances that were decided before it, when it moves the current item.
LEMMA PublishSimulates == ASSUME Good, NEW c \in Callers, Publish(c) PROVE Simulates
<1>1. /\ caller[c].pc = "waiting" /\ caller[c].op # "pause" /\ holder = None /\ holder' = c
      /\ epoch' = epoch /\ epoch \in Nat /\ ~Superseded(c) /\ clock' = clock + 1
      /\ c # None
  BY GoodHolding, CallersAssumption DEF Publish, AtLock, queueVars, Refused
<1>2. PICK ps \in Edited(c, Version(Self, clock')) :
        LET sent == [queue |-> Versioned(ps.queue, Version(Self, clock')), status |-> ps.status]
            previous == IF Moves(c)
                        THEN [navVersion |-> navVersion, unadopted |-> unadopted,
                              navStatus |-> navStatus]
                        ELSE None
        IN caller' = [d \in Callers |->
                IF d = c
                THEN [caller[c] EXCEPT !.pc = "sending", !.sent = sent, !.epoch = epoch,
                                       !.previous = previous]
                ELSE IF previous # None /\ caller[d].pc \in {"decided", "waiting"}
                THEN [caller[d] EXCEPT !.passed = @ \union {clock'}]
                ELSE caller[d]]
  BY DEF Publish
<1> DEFINE sent == [queue |-> Versioned(ps.queue, Version(Self, clock')), status |-> ps.status]
           previous == IF Moves(c)
                       THEN [navVersion |-> navVersion, unadopted |-> unadopted,
                             navStatus |-> navStatus]
                       ELSE None
           passing == IF previous # None THEN {clock'} ELSE {}
<1>3. sent.queue.version.number = clock'
  BY DEF Versioned, Version
<1>4. /\ caller'[c] = [caller[c] EXCEPT !.pc = "sending", !.sent = sent, !.epoch = epoch,
                                        !.previous = previous]
      /\ \A d \in Callers \ {c} :
            caller'[d] = IF previous # None /\ caller[d].pc \in {"decided", "waiting"}
                         THEN [caller[d] EXCEPT !.passed = @ \union {clock'}] ELSE caller[d]
  BY <1>2
<1> HIDE DEF sent, previous
<1>5. /\ caller'[c].pc = "sending" /\ caller'[c].op = caller[c].op
      /\ caller'[c].epoch = epoch /\ Number(c)' = clock' /\ caller'[c].previous = previous
      /\ caller'[c].overtaken = caller[c].overtaken /\ caller'[c].passed = caller[c].passed
      /\ caller'[c].meanwhile = {}
  <2>1. IsCall(caller[c]) /\ caller[c].meanwhile = {}
    BY <1>1 DEF Good, IInv, Shape, RInv, Reserving
  <2> QED
    BY <1>3, <1>4, <2>1 DEF IsCall, Number
<1>6. ASSUME NEW d \in Callers \ {c}
      PROVE  /\ caller'[d].pc = caller[d].pc /\ caller'[d].op = caller[d].op
             /\ caller'[d].epoch = caller[d].epoch
             /\ caller'[d].overtaken = caller[d].overtaken
             /\ caller'[d].meanwhile = caller[d].meanwhile
             /\ caller'[d].passed = IF caller[d].pc # "idle" THEN caller[d].passed \union passing
                                    ELSE caller[d].passed
  <2>1. IsCall(caller[d])
    BY DEF Good, IInv, Shape
  <2>2. caller[d].pc \in {"idle", "decided", "waiting"}
    BY <1>1, Unheld DEF Good, TInv, CallsTyped, CallTyped
  <2> QED
    BY <1>4, <2>1, <2>2 DEF IsCall
<1>7. InFlightMove = {} /\ InFlightMove' = passing
  BY <1>1, <1>5 DEF InFlightMove, Number
<1>8. RInv'
  <2>1. Reserving(c)'
    BY <1>1, <1>5 DEF Reserving
  <2>2. \A d \in Callers \ {c} : Reserving(d)'
    BY <1>1, <1>6, Unheld DEF Good, RInv, Reserving
  <2> QED
    BY <2>1, <2>2 DEF RInv
<1>9. Reserved' = Reserved /\ c \in Reserved
  BY <1>1, <1>5, <1>6 DEF Reserved
<1>10. Broken(c) = {} /\ Broken(c)' = {}
  <2>1. caller[c].op \in Advances =>
          caller[c].overtaken \subseteq {"device"} /\ caller[c].passed = {}
    <3>1. Published(c)'
      BY PublishStep DEF Good, IInv, PerCaller
    <3> QED
      BY <1>5, <3>1 DEF Published, Publishes
  <2>2. caller[c].meanwhile = {}
    BY <1>1 DEF Good, RInv, Reserving
  <2>3. ~OthersBroke(c) /\ ~OthersBroke(c)'
    BY <1>1, <1>5, <2>1, <2>2 DEF OthersBroke, Superseded
  <2> QED
    BY <1>5, <2>1, <2>3 DEF Broken
<1> DEFINE breaks == {d \in Reserved \ {c} : previous # None /\ caller[d].op \in Advances}
<1>11. ASSUME NEW d \in Callers \ {c}
       PROVE  Broken(d)' = IF d \in breaks THEN Broken(d) \union {"under way"} ELSE Broken(d)
  <2>1. OthersBroke(d)' <=> OthersBroke(d)
    BY <1>1, <1>6 DEF OthersBroke, Superseded
  <2>2. CASE d \notin Reserved
    BY <1>9, <2>2 DEF Broken
  <2>3. CASE d \in Reserved /\ caller[d].op \notin Advances
    BY <1>6, <1>9, <2>1, <2>3 DEF Broken
  <2>4. CASE d \in Reserved /\ caller[d].op \in Advances
    <3>1. caller[d].pc \in {"decided", "waiting"}
      BY <1>1, <2>4, Unheld DEF Good, TInv, CallsTyped, CallTyped, Reserved
    <3>2. clock' \notin caller[d].passed
      BY <1>1, <2>4, <3>1 DEF Good, IInv, PerCaller, Decided, Undecided, Deciding, Counters
    <3>3. /\ caller'[d].passed \ InFlightMove' = caller[d].passed
          /\ caller'[d].passed \intersect InFlightMove' = passing
      BY <1>6, <1>7, <3>1, <3>2
    <3> QED
      BY <1>6, <1>7, <1>9, <2>1, <2>4, <3>3, ZenonT(30) DEF Broken
  <2> QED
    BY <2>2, <2>3, <2>4
<1>12. breaks \in SUBSET (Reserved \ {c})
  OBVIOUS
<1>13. c \notin breaks
  OBVIOUS
<1> HIDE DEF breaks
<1>14. BrokenOf' = [d \in Callers |-> IF d \in breaks THEN BrokenOf[d] \union {"under way"}
                                      ELSE BrokenOf[d]]
  BY <1>10, <1>11, <1>13 DEF BrokenOf
<1>15. Store!Commit(c)
  BY <1>1, <1>9, <1>10, <1>12, <1>14 DEF Store!Commit, BrokenOf
<1> QED
  BY <1>8, <1>15 DEF Simulates, Store!Next

\* A pause is reported without a reservation.
LEMMA ReportSimulates == ASSUME Good, NEW c \in Callers, Report(c) PROVE Simulates
<1>1. /\ caller[c].pc = "waiting" /\ caller[c].op = "pause" /\ holder = None /\ holder' = c
      /\ epoch' = epoch /\ epoch \in Nat /\ c # None
  BY GoodHolding, CallersAssumption DEF Report, AtLock, queueVars
<1>2. PICK sent : caller' = [caller EXCEPT ![c].pc = "sending", ![c].sent = sent]
  BY DEF Report
<1>3. /\ \A d \in Callers \ {c} : caller'[d] = caller[d]
      /\ caller'[c].pc = "sending" /\ caller'[c].op = "pause"
      /\ caller'[c].epoch = caller[c].epoch /\ caller'[c].previous = None
  BY <1>1, <1>2 DEF Good, IInv, Shape, IsCall, PerCaller, NotSending
<1>4. RInv'
  BY <1>1, <1>3, Unheld DEF Good, RInv, Reserving
<1>5. InFlightMove = {} /\ InFlightMove' = {}
  BY <1>1, <1>3 DEF InFlightMove
<1>6. \A d \in Callers \ {c} : Broken(d)' = Broken(d) /\ (d \in Reserved' <=> d \in Reserved)
  BY <1>1, <1>3, <1>5, Untouched
<1>7. c \notin Reserved /\ c \notin Reserved' /\ Broken(c)' = Broken(c)
  BY <1>1, <1>3 DEF Reserved, Broken
<1>8. Reserved' = Reserved
  BY <1>6, <1>7 DEF Reserved
<1>9. BrokenOf' = BrokenOf
  BY <1>6, <1>7 DEF BrokenOf
<1>10. Store!Overwrite(c)
  BY <1>1, <1>7, <1>8, <1>9 DEF Store!Overwrite, BrokenOf
<1> QED
  BY <1>4, <1>10 DEF Simulates, Store!Next

\* The send returned and its caller is done: what its move broke stays broken.
LEMMA FreeSimulates ==
  ASSUME Good, NEW c \in Callers, holder = c, Free(c), epoch' = epoch PROVE Simulates
<1>1. /\ caller'[c] = Idle /\ \A d \in Callers \ {c} : caller'[d] = caller[d]
      /\ holder' = None /\ c # None /\ Idle.pc = "idle" /\ Idle.epoch = 0 /\ Idle.meanwhile = {}
      /\ epoch \in Nat
  BY CallersAssumption, GoodHolding DEF Free, Good, IInv, Shape, Idle
<1>2. RInv'
  <2>1. Reserving(c)'
    BY <1>1 DEF Reserving
  <2>2. \A d \in Callers \ {c} : Reserving(d)'
    BY <1>1 DEF Good, RInv, Reserving
  <2> QED
    BY <2>1, <2>2 DEF RInv
<1>3. InFlightMove' = {}
  BY <1>1 DEF InFlightMove
<1>4. Reserved' = Reserved \ {c} /\ Broken(c)' = {}
  BY <1>1 DEF Reserved, Broken
<1>5. ASSUME NEW d \in Callers \ {c}
      PROVE  Broken(d)' = IF "under way" \in Broken(d)
                          THEN (Broken(d) \ {"under way"}) \union {"accepted"} ELSE Broken(d)
  <2>1. OthersBroke(d)' <=> OthersBroke(d)
    BY <1>1 DEF OthersBroke, Superseded
  <2>2. CASE d \notin Reserved
    BY <1>4, <2>2 DEF Broken
  <2>3. CASE d \in Reserved
    BY <1>1, <1>3, <1>4, <2>1, <2>3 DEF Broken
  <2> QED
    BY <2>2, <2>3
<1>6. BrokenOf' = [d \in Callers |->
         IF d = c THEN {}
         ELSE IF "under way" \in BrokenOf[d] THEN (BrokenOf[d] \ {"under way"}) \union {"accepted"}
         ELSE BrokenOf[d]]
  BY <1>4, <1>5 DEF BrokenOf
<1>7. Store!Succeed(c)
  BY <1>1, <1>4, <1>6 DEF Store!Succeed, BrokenOf
<1> QED
  BY <1>2, <1>7 DEF Simulates, Store!Next

\* The send failed: what its move broke is whole again, and an advance keeps its own
\* reservation for one more attempt.
LEMMA SendFailsSimulates == ASSUME Good, NEW c \in Callers, SendFails(c) PROVE Simulates
<1> DEFINE call == AfterFailure(c)
<1>1. /\ holder = c /\ holder' = None /\ c # None /\ epoch' = epoch /\ epoch \in Nat
      /\ caller[c].pc = "sending"
      /\ caller' = [d \in Callers |->
            IF d = c THEN call
            ELSE IF caller[c].previous # None
            THEN [caller[d] EXCEPT !.passed = @ \ {caller[c].sent.queue.version.number}]
            ELSE caller[d]]
  BY CallersAssumption, GoodHolding
  DEF SendFails, queueVars, Good, IInv, PerCaller, InFlight
<1>2. \/ call = Idle
      \/ /\ call.pc = "decided" /\ call.op = caller[c].op /\ call.epoch = epoch
         /\ call.meanwhile = {} /\ call.passed = caller[c].passed
         /\ call.overtaken = caller[c].overtaken \union caller[c].meanwhile
         /\ caller[c].op \in Advances
  BY AfterFailureIs, AgainIs
<1> HIDE DEF call
<1>3. Idle.pc = "idle" /\ Idle.epoch = 0 /\ Idle.meanwhile = {}
  BY DEF Idle
<1>4. caller'[c] = call
  BY <1>1
<1>5. ASSUME NEW d \in Callers \ {c}
      PROVE  /\ caller'[d].pc = caller[d].pc /\ caller'[d].op = caller[d].op
             /\ caller'[d].epoch = caller[d].epoch
             /\ caller'[d].overtaken = caller[d].overtaken
             /\ caller'[d].meanwhile = caller[d].meanwhile
             /\ caller'[d].passed = caller[d].passed \ InFlightMove
  <2>1. IsCall(caller[d])
    BY DEF Good, IInv, Shape
  <2>2. InFlightMove = IF caller[c].previous # None
                       THEN {caller[c].sent.queue.version.number} ELSE {}
    BY <1>1 DEF InFlightMove
  <2> QED
    BY <1>1, <2>1, <2>2 DEF IsCall
<1>6. RInv'
  <2>1. Reserving(c)'
    BY <1>1, <1>2, <1>3, <1>4 DEF Reserving
  <2>2. \A d \in Callers \ {c} : Reserving(d)'
    BY <1>1, <1>5 DEF Good, RInv, Reserving
  <2> QED
    BY <2>1, <2>2 DEF RInv
<1>7. InFlightMove' = {}
  BY <1>1 DEF InFlightMove
<1>8. \A d \in Callers \ {c} : d \in Reserved' <=> d \in Reserved
  BY <1>5 DEF Reserved
<1>9. ASSUME NEW d \in Callers \ {c} PROVE Broken(d)' = Broken(d) \ {"under way"}
  <2>1. OthersBroke(d)' <=> OthersBroke(d)
    BY <1>1, <1>5 DEF OthersBroke, Superseded
  <2>2. CASE d \notin Reserved
    BY <1>8, <2>2 DEF Broken
  <2>3. CASE d \in Reserved
    BY <1>5, <1>7, <1>8, <2>1, <2>3 DEF Broken
  <2> QED
    BY <2>2, <2>3
<1>10. Reserved' \subseteq Callers /\ Reserved \subseteq Callers
  BY DEF Reserved
<1>11. CASE call = Idle
  <2>1. c \notin Reserved' /\ Broken(c)' = {}
    BY <1>3, <1>4, <1>11 DEF Reserved, Broken
  <2>2. Reserved' = Reserved \ {c}
    BY <1>8, <1>10, <2>1
  <2>3. BrokenOf' = [d \in Callers |-> IF d = c THEN {} ELSE BrokenOf[d] \ {"under way"}]
    BY <1>9, <2>1 DEF BrokenOf
  <2>4. Store!Fail(c)
    BY <1>1, <2>2, <2>3 DEF Store!Fail, BrokenOf
  <2> QED
    BY <1>6, <2>4 DEF Simulates, Store!Next
<1>12. CASE call # Idle
  <2>1. c \in Reserved' /\ c \in Reserved
    BY <1>1, <1>2, <1>4, <1>12 DEF Reserved, Advances
  <2>2. Reserved' = Reserved
    BY <1>8, <1>10, <2>1
  <2>3. caller[c].passed = {}
    BY <1>1, <1>2, <1>12 DEF Good, IInv, PerCaller, Published, Publishes
  <2>4. OthersBroke(c)' <=> OthersBroke(c)
    BY <1>1, <1>2, <1>4, <1>12 DEF OthersBroke, Superseded
  <2>5. Broken(c)' = Broken(c) \ {"under way"}
    BY <1>2, <1>4, <1>12, <2>1, <2>3, <2>4 DEF Broken
  <2>6. BrokenOf' = [d \in Callers |-> BrokenOf[d] \ {"under way"}]
    BY <1>9, <2>5 DEF BrokenOf
  <2>7. Store!Fail(c)
    BY <1>1, <2>2, <2>6 DEF Store!Fail, BrokenOf
  <2> QED
    BY <1>6, <2>7 DEF Simulates, Store!Next
<1> QED
  BY <1>11, <1>12

-----------------------------------------------------------------------------
(* The implementation                                                        *)

\* An initial state is an initial state of the store.
LEMMA InitStore == Init => Store!Init /\ RInv
<1> SUFFICES ASSUME Init PROVE Store!Init /\ RInv
  OBVIOUS
<1>1. holder = None /\ epoch = 3
      /\ \A c \in Callers : caller[c] = Idle
  BY DEF Init
<1>2. Idle.pc = "idle" /\ Idle.epoch = 0 /\ Idle.meanwhile = {}
  BY DEF Idle
<1>3. Reserved = {}
  BY <1>1, <1>2 DEF Reserved
<1>4. BrokenOf = [c \in Callers |-> {}]
  BY <1>3 DEF BrokenOf, Broken
<1>5. RInv
  BY <1>1, <1>2 DEF RInv, Reserving
<1> QED
  BY <1>1, <1>3, <1>4, <1>5 DEF Store!Init, BrokenOf

\* Every step is a step of the store or a stutter.
LEMMA NextStore == Good /\ [Next]_vars => Simulates
<1> SUFFICES ASSUME Good, [Next]_vars PROVE Simulates
  OBVIOUS
<1>1. ASSUME NEW c \in Callers, Caller(c) PROVE Simulates
  <2>1. ASSUME NEW op \in Ops[c], Decide(c, op) PROVE Simulates
    <3>1. PICK baseline, items, index :
            caller' = [caller EXCEPT ![c] = Request("decided", op, baseline, items, index)]
      BY <2>1 DEF Decide
    <3> QED
      BY <2>1, <3>1, RequestSimulates DEF Decide, queueVars
  <2>2. ASSUME NEW op \in Ops[c], CallNow(c, op) PROVE Simulates
    BY <2>2, RequestSimulates DEF CallNow, queueVars
  <2>3. CASE Call(c) \/ GiveUp(c) \/ Publish(c) \/ Report(c)
    BY <2>3, CallSimulates, GiveUpSimulates, PublishSimulates, ReportSimulates
  <2>4. CASE Sent(c)
    BY <2>4, FreeSimulates DEF Sent
  <2>5. CASE Reported(c)
    BY <2>5, FreeSimulates DEF Reported, queueVars
  <2>6. CASE SendFails(c)
    BY <2>6, SendFailsSimulates
  <2> QED
    BY <1>1, <2>1, <2>2, <2>3, <2>4, <2>5, <2>6 DEF Caller
<1>2. CASE Environment
  <2>1. UNCHANGED <<caller, holder, epoch>>
    BY <1>2 DEF Environment, ServerTakes, PeerPlays, PeerEditsOptions, PeerCommands,
                PeerTakesOver, PeerHandsBack, Relay, Foreign, queueVars, sendVars
  <2> QED
    BY <2>1, CalmSimulates
<1>3. CASE PendingExpires \/ MarkExpires \/ Loses \/ UNCHANGED vars
  <2>1. UNCHANGED <<caller, holder, epoch>>
    BY <1>3 DEF PendingExpires, MarkExpires, Loses, vars, queueVars, sendVars
  <2> QED
    BY <2>1, CalmSimulates
<1>4. CASE Deliver
  BY <1>4, DeliverSimulates
<1>5. CASE Reconnects
  BY <1>5, ReconnectsSimulates
<1> QED
  BY <1>1, <1>2, <1>3, <1>4, <1>5 DEF Next

\* The queue edits of the client implement the conditional store: whatever the callers,
\* the peers, the server and the connection do, every write that is published has a
\* reservation that nothing broke, one is under way at a time, and a failed one breaks
\* nothing.
THEOREM Implementation == Spec => EditsAreConditional
<1>1. Spec => []TInv
  BY InitTInv, NextTInv, Invariance, PTL DEF Spec
<1>2. Good /\ [Next]_vars => RInv' /\ [Store!Next]_(Store!vars)
  BY NextStore DEF Simulates
<1>3. IInv /\ TInv /\ RInv /\ [Next]_vars => RInv'
  BY <1>2 DEF Good
<1>4. Spec => []RInv
  BY <1>1, <1>3, Invariance, InitStore, PTL DEF Spec
<1>5. IInv /\ TInv /\ RInv /\ [Next]_vars => [Store!Next]_(Store!vars)
  BY <1>2 DEF Good
<1> QED
  BY <1>1, <1>4, <1>5, Invariance, InitStore, PTL DEF Spec, EditsAreConditional, Store!Spec
=============================================================================
