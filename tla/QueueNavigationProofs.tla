------------------------ MODULE QueueNavigationProofs ------------------------
(***************************************************************************)
(* Proofs about QueueNavigation, for every value of its constants: a       *)
(* decision taken on a playback is published only while that playback      *)
(* stands, nothing of an older generation survives a reset, and the fields *)
(* hold what the code can put there.                                       *)
(*                                                                         *)
(* The argument rests on four counters that only grow (lineage, revision,  *)
(* epoch, clock) and on what a caller recorded of them when it decided.    *)
(* The types come after it: what the client holds comes from frames, and   *)
(* frames from what the client or a peer sent, so the types of messages,   *)
(* frames and calls go with those of the fields.                           *)
(***************************************************************************)
EXTENDS QueueNavigation, TLAPS, FiniteSetTheorems

\* A call that stands for a decision to advance; a sent one may be tried again.
Deciding(r) == r.pc \in {"decided", "waiting", "sending"} /\ r.op \in Advances
Undecided(c) == ~Deciding(caller[c])
Followers(r) == r.overtaken \union r.meanwhile

\* The fields that records keep through EXCEPT.
IsCall(r) ==
    r = [pc |-> r.pc, op |-> r.op, baseline |-> r.baseline, epoch |-> r.epoch,
         items |-> r.items, index |-> r.index, sent |-> r.sent, previous |-> r.previous,
         retried |-> r.retried, overtaken |-> r.overtaken, meanwhile |-> r.meanwhile,
         passed |-> r.passed]

Shape ==
    /\ caller = [c \in Callers |-> caller[c]]
    /\ \A c \in Callers : IsCall(caller[c])
    /\ history = [born |-> history.born, owed |-> history.owed, mine |-> history.mine,
                  following |-> history.following, seen |-> history.seen,
                  latest |-> history.latest, target |-> history.target, ours |-> history.ours]
    /\ history.born = [v \in 1 .. MaxVersion |-> history.born[v]]

Counters ==
    /\ lineage \in Nat /\ revision \in Nat /\ epoch \in Nat
    /\ clock \in 0 .. MaxVersion
    /\ navVersion \in 0 .. clock

\* A decision remembers counters that may only have grown since, and that did
\* grow when something overtook it.
Decided(c) ==
    Undecided(c) \/
    /\ caller[c].baseline.lineage \in Nat /\ caller[c].baseline.lineage <= lineage
    /\ caller[c].baseline.revision \in Nat /\ caller[c].baseline.revision <= revision
    /\ caller[c].baseline.navigation \in 0 .. clock
    /\ Followers(caller[c]) \subseteq {"queue", "command", "device"}
    /\ "queue" \in Followers(caller[c]) => caller[c].baseline.lineage < lineage
    /\ "command" \in Followers(caller[c]) => caller[c].baseline.revision < revision
    /\ \A v \in caller[c].passed :
          v \in 1 .. clock /\ caller[c].baseline.navigation < v /\ v <= navVersion

Number(c) == caller[c].sent.queue.version.number

\* What a send in flight registered, and what it takes back when it fails.
InFlight(c) ==
    holder = c =>
      /\ caller[c].pc = "sending"
      /\ caller[c].op # "pause" =>
           Number(c) \in 1 .. clock /\ history.born[Number(c)] = caller[c].epoch
      /\ caller[c].previous # None =>
           /\ caller[c].op # "pause"
           /\ caller[c].previous.navVersion \in 0 .. clock
           /\ \A d \in Callers : Undecided(d) \/
                \A v \in caller[d].passed : v = Number(c) \/ v <= caller[c].previous.navVersion

NotSending(c) == caller[c].pc # "sending" => caller[c].previous = None

Published(c) ==
    Publishes(c) => caller[c].overtaken \subseteq {"device"} /\ caller[c].passed = {}

Born(v) == v \in 1 .. clock /\ history.born[v] = epoch

Current ==
    link = "up" =>
        /\ pending # None => Born(pending.version.number)
        /\ lastVersion # 0 => Born(lastVersion)
        /\ unadopted # 0 => Born(unadopted)

PerCaller(c) == Decided(c) /\ InFlight(c) /\ NotSending(c) /\ Published(c)

IInv ==
    /\ Shape
    /\ Counters
    /\ \A c \in Callers : PerCaller(c)
    /\ Current

-----------------------------------------------------------------------------
\* The initial states satisfy the invariant.
LEMMA InitIInv == Init => IInv
<1> SUFFICES ASSUME Init PROVE IInv
  OBVIOUS
<1>1. caller = [c \in Callers |-> Idle] /\ holder = None
  BY DEF Init
<1>2. \A c \in Callers : caller[c] = Idle
  BY <1>1
<1>3. Shape
  <2>1. \A c \in Callers : IsCall(caller[c])
    BY <1>2 DEF IsCall, Idle
  <2>2. history.born = [v \in 1 .. MaxVersion |-> history.born[v]]
    BY DEF Init
  <2> QED
    BY <1>1, <2>1, <2>2 DEF Init, Shape
<1>4. Counters
  BY BoundsAssumption DEF Init, Counters
<1>5. ASSUME NEW c \in Callers PROVE PerCaller(c)
  <2>1. caller[c].pc = "idle" /\ caller[c].previous = None
    BY <1>2 DEF Idle
  <2>2. holder # c
    BY <1>1, CallersAssumption
  <2> QED
    BY <2>1, <2>2 DEF PerCaller, Decided, Undecided, Deciding, InFlight, NotSending, Published,
                      Publishes
<1>6. Current
  BY DEF Init, Current
<1> QED
  BY <1>3, <1>4, <1>5, <1>6 DEF IInv

-----------------------------------------------------------------------------
\* Steps that leave the calls, the counters and the pending edits alone.
LEMMA QuietStep ==
  ASSUME IInv,
         UNCHANGED <<caller, holder, lineage, revision, epoch, clock, navVersion>>,
         UNCHANGED <<pending, lastVersion, unadopted, link>>,
         history' = [history EXCEPT !.target = history'.target]
  PROVE  IInv'
<1>1. Shape'
  BY DEF IInv, Shape, IsCall
<1>2. history'.born = history.born
  BY DEF IInv, Shape
<1> QED
  BY <1>1, <1>2, SMTT(30)
  DEF IInv, Counters, PerCaller, Decided, Undecided, Deciding, InFlight, Number, NotSending,
      Published,
      Publishes, Current, Born

\* The server, the other devices and time.
LEMMA EnvironmentStep ==
  ASSUME IInv, Environment \/ MarkExpires \/ PendingExpires
  PROVE  IInv'
<1>1. history' = [history EXCEPT !.target = history'.target]
  <2>1. CASE PendingExpires
    BY <2>1 DEF PendingExpires, IInv, Shape
  <2>2. CASE ~PendingExpires
    <3>1. UNCHANGED history
      BY <2>2 DEF Environment, MarkExpires, ServerTakes, PeerPlays, PeerEditsOptions, PeerCommands,
                  PeerTakesOver, PeerHandsBack, Relay, Foreign
    <3> QED
      BY <3>1 DEF IInv, Shape
  <2> QED
    BY <2>1, <2>2
<1>2. UNCHANGED <<caller, holder, lineage, revision, epoch, clock, navVersion>>
  BY DEF Environment, MarkExpires, PendingExpires, ServerTakes, PeerPlays, PeerEditsOptions,
         PeerCommands, PeerTakesOver, PeerHandsBack, Relay, Foreign, stateVars, queueVars, navVars,
         sendVars
<1>3. UNCHANGED <<pending, lastVersion, unadopted, link>>
  BY DEF Environment, MarkExpires, PendingExpires, ServerTakes, PeerPlays, PeerEditsOptions,
         PeerCommands, PeerTakesOver, PeerHandsBack, Relay, Foreign, queueVars, navVars, netVars
<1> QED
  BY <1>1, <1>2, <1>3, QuietStep

\* The channel breaks: the pending edits are not looked at until it is back.
LEMMA LosesStep == ASSUME IInv, Loses PROVE IInv'
<1>1. link' # "up" /\ UNCHANGED <<caller, holder, history>>
  BY DEF Loses, sendVars
<1>2. UNCHANGED <<lineage, revision, epoch, clock, navVersion>>
  BY DEF Loses, stateVars, queueVars, navVars, sendVars
<1> QED
  BY <1>1, <1>2, ZenonT(30)
  DEF IInv, Shape, IsCall, Counters, PerCaller, Decided, Undecided, Deciding, InFlight, Number,
      NotSending,
      Published, Publishes, Current

\* A new connection forgets the pending edits before the channel is up.
LEMMA ReconnectsStep == ASSUME IInv, Reconnects PROVE IInv'
<1>1. UNCHANGED <<caller, holder, lineage, revision, clock, navVersion>>
  BY DEF Reconnects, stateVars, navVars, sendVars
<1>2. pending' = None /\ lastVersion' = 0 /\ unadopted' = 0 /\ epoch' = epoch + 1
  BY DEF Reconnects, ResetPendingQueue
<1>3. history' = [history EXCEPT !.following = None, !.mine = 0]
  BY DEF Reconnects
<1>4. Shape' /\ history'.born = history.born
  BY <1>1, <1>3 DEF IInv, Shape, IsCall
<1>5. Counters'
  BY <1>1, <1>2 DEF IInv, Counters
<1>6. \A c \in Callers : PerCaller(c)'
  BY <1>1, <1>4
  DEF IInv, PerCaller, Decided, Undecided, Deciding, InFlight, Number, NotSending, Published,
      Publishes
<1> QED
  BY <1>2, <1>4, <1>5, <1>6 DEF IInv, Current

-----------------------------------------------------------------------------
\* Calls: a decision starts level with the counters and overtaken by nothing.
LEMMA DecideStep ==
  ASSUME IInv, NEW c \in Callers, NEW op, Decide(c, op) PROVE IInv'
<1>1. /\ caller[c].pc = "idle"
      /\ UNCHANGED <<holder, lineage, revision, epoch, clock, navVersion, history>>
      /\ UNCHANGED <<pending, lastVersion, unadopted, link>>
  BY DEF Decide, stateVars, queueVars, navVars, netVars
<1>2. \E index, items :
        caller' = [caller EXCEPT ![c] =
          Request("decided", op, IF op \in Moving THEN Baseline ELSE None, items, index)]
  BY DEF Decide
<1>3. /\ caller'[c].pc = "decided" /\ caller'[c].op = op /\ caller'[c].previous = None
      /\ Followers(caller'[c]) = {} /\ caller'[c].passed = {}
      /\ op \in Advances => caller'[c].baseline = Baseline
      /\ IsCall(caller'[c])
  <2>1. PICK index, items :
          caller' = [caller EXCEPT ![c] =
            Request("decided", op, IF op \in Moving THEN Baseline ELSE None, items, index)]
    BY <1>2
  <2>2. caller'[c] = Request("decided", op, IF op \in Moving THEN Baseline ELSE None, items, index)
    BY <2>1 DEF IInv, Shape
  <2>3. op \in Advances => op \in Moving
    BY DEF Moving
  <2>4. IsCall(caller'[c])
    BY <2>2 DEF Request, IsCall
  <2> QED
    BY <2>2, <2>3, <2>4 DEF Request, Followers
<1>4. \A d \in Callers \ {c} : caller'[d] = caller[d]
  BY <1>2 DEF IInv, Shape
<1>5. Shape'
  BY <1>1, <1>2, <1>3, <1>4 DEF IInv, Shape, IsCall
<1>6. Counters' /\ Current'
  BY <1>1 DEF IInv, Counters, Current, Born
<1>7. PerCaller(c)'
  <2>1. holder # c
    BY <1>1 DEF IInv, PerCaller, InFlight
  <2> QED
    BY <1>1, <1>3, <2>1
    DEF IInv, Counters, Baseline, PerCaller, Decided, Undecided, Deciding, InFlight, NotSending,
        Published,
        Publishes
<1>8. ASSUME NEW d \in Callers \ {c} PROVE PerCaller(d)'
  <2>1. PerCaller(d)
    BY DEF IInv
  <2> QED
    BY <1>1, <1>3, <1>4, <2>1, SMTT(30)
    DEF IInv, PerCaller, Decided, Undecided, Deciding, InFlight, Number, NotSending, Published,
        Publishes
<1> QED
  BY <1>5, <1>6, <1>7, <1>8 DEF IInv

\* A call that does not send: it asks for nothing (any more), decides nothing, or
\* stands for the decision it stood for before.
Continues(call, c) ==
    Deciding(call) =>
      /\ Deciding(caller[c])
      /\ call.baseline = caller[c].baseline /\ call.passed = caller[c].passed
      /\ Followers(call) = Followers(caller[c])

\* A step in which a call ends or continues without sending keeps the invariant.
LEMMA ReleaseStep ==
  ASSUME IInv, NEW c \in Callers, NEW call, IsCall(call),
         call.pc # "sending", call.previous = None, Continues(call, c),
         caller' = [caller EXCEPT ![c] = call],
         holder' \in {holder, None}, holder' # c,
         UNCHANGED <<lineage, revision, epoch, clock, navVersion>>, Shape',
         history'.born = history.born, Current'
  PROVE  IInv'
<1>1. caller'[c] = call /\ \A d \in Callers \ {c} : caller'[d] = caller[d]
  BY DEF IInv, Shape
<1>2. Counters'
  BY DEF IInv, Counters
<1>3. PerCaller(c)'
  <2>1. Decided(c)
    BY DEF IInv, PerCaller
  <2>2. Decided(c)'
    BY <1>1, <2>1 DEF Decided, Undecided, Continues
  <2> QED
    BY <1>1, <2>2 DEF PerCaller, InFlight, NotSending, Published, Publishes
<1>4. ASSUME NEW d \in Callers \ {c} PROVE PerCaller(d)'
  <2>1. PerCaller(d)
    BY DEF IInv
  <2>2. holder' = d => holder = d
    BY CallersAssumption
  <2> QED
    BY <1>1, <2>1, <2>2, SMTT(30)
    DEF Continues, IInv, PerCaller, Decided, Undecided, Deciding, InFlight, Number, NotSending,
        Published, Publishes
<1> QED
  BY <1>2, <1>3, <1>4 DEF IInv

\* An idle call holds nothing and stands for no decision.
LEMMA IdleIsReleased ==
  ASSUME NEW c PROVE IsCall(Idle) /\ Idle.pc = "idle" /\ Idle.previous = None /\ Continues(Idle, c)
  BY DEF Idle, IsCall, Continues, Deciding

\* Replacing one call by another keeps the records whole.
LEMMA ShapeKept ==
  ASSUME IInv, NEW c \in Callers, NEW call, IsCall(call),
         caller' = [caller EXCEPT ![c] = call], UNCHANGED history
  PROVE  Shape'
<1>1. \A d \in Callers : caller'[d] = IF d = c THEN call ELSE caller[d]
  BY DEF IInv, Shape
<1>2. \A d \in Callers : IsCall(caller'[d])
  BY <1>1 DEF IInv, Shape
<1> QED
  BY <1>2 DEF IInv, Shape, IsCall

\* A caller that is not sending does not hold the lock.
LEMMA NotHolder == ASSUME IInv, NEW c \in Callers, caller[c].pc # "sending" PROVE holder # c
  BY DEF IInv, PerCaller, InFlight

\* An option edit or a pause joins the queue for the lock; it decides nothing.
LEMMA CallNowStep == ASSUME IInv, NEW c \in Callers, NEW op, CallNow(c, op) PROVE IInv'
<1> DEFINE call == Request("waiting", op, None, <<>>, 0)
<1>1. /\ caller' = [caller EXCEPT ![c] = call] /\ holder # c
      /\ UNCHANGED <<holder, lineage, revision, epoch, clock, navVersion, history>>
      /\ UNCHANGED <<pending, lastVersion, unadopted, link>>
  BY NotHolder DEF CallNow, stateVars, queueVars, navVars, netVars
<1>2. IsCall(call) /\ call.pc = "waiting" /\ call.previous = None /\ call.op = op
  BY DEF Request, IsCall
<1>3. op \notin Advances
  BY DEF CallNow, Deferred, Moving
<1>4. Shape'
  BY <1>1, <1>2, ShapeKept
<1>5. Current'
  BY <1>1 DEF IInv, Current, Born
<1> HIDE DEF call
<1>6. Continues(call, c)
  BY <1>2, <1>3 DEF Continues, Deciding
<1> QED
  BY <1>1, <1>2, <1>4, <1>5, <1>6, ReleaseStep

\* A decided call joins the queue for the lock, or an append is dropped.
LEMMA CallStep == ASSUME IInv, NEW c \in Callers, Call(c) PROVE IInv'
<1>1. /\ caller[c].pc = "decided" /\ holder # c
      /\ UNCHANGED <<holder, lineage, revision, epoch, clock, navVersion, history>>
      /\ UNCHANGED <<pending, lastVersion, unadopted, link>>
  BY NotHolder DEF Call, stateVars, queueVars, navVars, netVars
<1>2. Current' /\ Counters'
  BY <1>1 DEF IInv, Current, Counters, Born
<1>3. CASE caller[c].op = "append" /\ active # Self
  <2>1. caller' = [caller EXCEPT ![c] = Idle]
    BY <1>3 DEF Call
  <2>2. Shape'
    BY <1>1, <2>1, IdleIsReleased, ShapeKept
  <2> QED
    BY <1>1, <1>2, <2>1, <2>2, IdleIsReleased, ReleaseStep
<1>4. CASE ~(caller[c].op = "append" /\ active # Self)
  <2>1. PICK generation :
          caller' = [caller EXCEPT ![c] = [caller[c] EXCEPT !.pc = "waiting", !.epoch = generation]]
    <3>1. caller' = [caller EXCEPT ![c].pc = "waiting",
                       ![c].epoch = IF caller[c].op \in Advances THEN epoch ELSE @]
      BY <1>4 DEF Call
    <3> QED
      BY <3>1 DEF IInv, Shape, IsCall
  <2>2. caller'[c] = [caller[c] EXCEPT !.pc = "waiting", !.epoch = generation]
    BY <2>1 DEF IInv, Shape
  <2>3. IsCall(caller[c])
    BY DEF IInv, Shape
  <2> DEFINE call == caller'[c]
  <2>4. /\ IsCall(call) /\ call.pc = "waiting" /\ call.previous = None /\ Continues(call, c)
    <3>1. PerCaller(c)
      BY DEF IInv
    <3> QED
      BY <1>1, <2>2, <2>3, <3>1
      DEF IsCall, PerCaller, NotSending, Continues, Deciding, Followers
  <2>5. caller' = [caller EXCEPT ![c] = call]
    BY <2>1, <2>2
  <2> HIDE DEF call
  <2>6. Shape'
    BY <1>1, <2>4, <2>5, ShapeKept
  <2> QED
    BY <1>1, <1>2, <2>4, <2>5, <2>6, ReleaseStep
<1> QED
  BY <1>3, <1>4

\* A failed attempt leaves nothing behind but, maybe, the decision it stood for.
LEMMA FailureIsReleased ==
  ASSUME IInv, NEW c \in Callers, caller[c].pc \in {"waiting", "sending"}
  PROVE  LET call == AfterFailure(c)
         IN IsCall(call) /\ call.pc # "sending" /\ call.previous = None /\ Continues(call, c)
<1>1. CASE caller[c].op \in Advances /\ ~caller[c].retried
  <2>1. ASSUME NEW r, IsCall(r)
        PROVE  /\ IsCall(Again(r)) /\ Again(r).pc = "decided" /\ Again(r).previous = None
               /\ Again(r).op = r.op /\ Again(r).baseline = r.baseline
               /\ Again(r).passed = r.passed /\ Again(r).meanwhile = {}
               /\ Again(r).overtaken = r.overtaken \union r.meanwhile
    <3>1. /\ \A x, y : IsCall(x) => IsCall([x EXCEPT !.retried = y])
          /\ \A x, y : IsCall(x) => IsCall([x EXCEPT !.overtaken = y])
          /\ \A x, y : IsCall(x) => IsCall([x EXCEPT !.passed = y])
      BY DEF IsCall
    <3>2. IsCall(Request("decided", r.op, r.baseline, r.items, r.index))
      BY DEF IsCall, Request
    <3>3. IsCall(Again(r))
      BY <3>1, <3>2 DEF Again
    <3> QED
      BY <2>1, <3>3 DEF IsCall, Again, Request
  <2>2. AfterFailure(c) = Again(caller[c])
    BY <1>1 DEF AfterFailure
  <2>3. IsCall(caller[c])
    BY DEF IInv, Shape
  <2>4. Continues(Again(caller[c]), c)
    BY <1>1, <2>1, <2>3 DEF Continues, Deciding, Followers
  <2> QED
    BY <2>1, <2>2, <2>3, <2>4
<1>2. CASE ~(caller[c].op \in Advances /\ ~caller[c].retried)
  BY <1>2, IdleIsReleased DEF AfterFailure
<1> QED
  BY <1>1, <1>2

\* The call ends without a send, or is to be tried again.
LEMMA GiveUpStep == ASSUME IInv, NEW c \in Callers, GiveUp(c) PROVE IInv'
<1>1. PICK call \in {Idle, AfterFailure(c)} : caller' = [caller EXCEPT ![c] = call]
  BY DEF GiveUp
<1>2. /\ caller[c].pc = "waiting" /\ holder # c
      /\ UNCHANGED <<holder, lineage, revision, epoch, clock, navVersion, history>>
      /\ UNCHANGED <<pending, lastVersion, unadopted, link>>
  BY NotHolder DEF GiveUp, AtLock, stateVars, queueVars, navVars, netVars
<1>3. IsCall(call) /\ call.pc # "sending" /\ call.previous = None /\ Continues(call, c)
  <2>1. CASE call = Idle
    BY <2>1, IdleIsReleased
  <2>2. CASE call = AfterFailure(c)
    BY <1>2, <2>2, FailureIsReleased
  <2> QED
    BY <2>1, <2>2
<1>4. Shape'
  BY <1>1, <1>2, <1>3, ShapeKept
<1>5. Current'
  BY <1>2 DEF IInv, Current, Born
<1> QED
  BY <1>1, <1>2, <1>3, <1>4, <1>5, ReleaseStep

\* A pause is reported.
LEMMA ReportStep == ASSUME IInv, NEW c \in Callers, Report(c) PROVE IInv'
<1>1. /\ caller[c].pc = "waiting" /\ caller[c].op = "pause"
      /\ UNCHANGED <<lineage, revision, epoch, clock, navVersion>>
      /\ UNCHANGED <<pending, lastVersion, unadopted, link>>
      /\ holder = None /\ holder' = c
  BY DEF Report, AtLock, stateVars, queueVars, navVars
<1>2. PICK sent, latest :
        /\ caller' = [caller EXCEPT ![c].pc = "sending", ![c].sent = sent]
        /\ history' = [history EXCEPT !.latest = latest]
  BY DEF Report
<1>3. IsCall(caller[c]) /\ PerCaller(c)
  BY DEF IInv, Shape
<1>4. caller'[c] = [caller[c] EXCEPT !.pc = "sending", !.sent = sent]
  BY <1>2, <1>3 DEF IInv, Shape, IsCall
<1>5. /\ IsCall(caller'[c]) /\ caller'[c].pc = "sending" /\ caller'[c].op = "pause"
      /\ caller'[c].previous = None
  BY <1>1, <1>3, <1>4 DEF IsCall, PerCaller, NotSending
<1>6. \A d \in Callers \ {c} : caller'[d] = caller[d]
  BY <1>2 DEF IInv, Shape
<1>7. history'.born = history.born
  BY <1>2 DEF IInv, Shape
<1>8. Shape'
  BY <1>2, <1>5, <1>6, <1>7 DEF IInv, Shape, IsCall
<1>9. Counters' /\ Current'
  BY <1>1, <1>7 DEF IInv, Counters, Current, Born
<1>10. PerCaller(c)'
  BY <1>5, <1>1 DEF PerCaller, Decided, Undecided, Deciding, InFlight, NotSending, Published,
                    Publishes, Advances
<1>11. ASSUME NEW d \in Callers \ {c} PROVE PerCaller(d)'
  <2>1. PerCaller(d)
    BY DEF IInv
  <2> QED
    BY <1>1, <1>5, <1>6, <2>1
    DEF IInv, PerCaller, Decided, Undecided, Deciding, InFlight, Number, NotSending, Published,
        Publishes
<1> QED
  BY <1>8, <1>9, <1>10, <1>11 DEF IInv

\* A send returned: the edit becomes the pending base of its own generation.
LEMMA SentStep == ASSUME IInv, NEW c \in Callers, Sent(c) PROVE IInv'
<1>1. /\ caller' = [caller EXCEPT ![c] = Idle] /\ holder = c /\ holder' = None
      /\ caller[c].op # "pause" /\ holder' # c
      /\ UNCHANGED <<lineage, revision, epoch, clock, navVersion, unadopted, link>>
  BY CallersAssumption DEF Sent, Free, stateVars, navVars, netVars
<1>2. PICK mine, following :
        history' = [history EXCEPT !.mine = mine, !.following = following]
  <2>1. CASE Superseded(c)
    <3>1. history' = [history EXCEPT !.mine = history.mine, !.following = history.following]
      BY <2>1 DEF Sent, IInv, Shape
    <3> QED
      BY <3>1
  <2>2. CASE ~Superseded(c)
    BY <2>2 DEF Sent
  <2> QED
    BY <2>1, <2>2
<1>3. history'.born = history.born
  BY <1>2 DEF IInv, Shape
<1>4. Shape'
  <2>1. \A d \in Callers : caller'[d] = IF d = c THEN Idle ELSE caller[d]
    BY <1>1 DEF IInv, Shape
  <2>2. \A d \in Callers : IsCall(caller'[d])
    BY <2>1, IdleIsReleased DEF IInv, Shape
  <2> QED
    BY <1>1, <1>2, <1>3, <2>2 DEF IInv, Shape
<1>5. Current'
  <2>1. CASE Superseded(c)
    BY <1>1, <1>3, <2>1 DEF Sent, IInv, Current, Born
  <2>2. CASE ~Superseded(c)
    <3>1. Born(Number(c))
      BY <1>1, <2>2 DEF IInv, PerCaller, InFlight, Superseded, Born
    <3>2. pending' = caller[c].sent.queue /\ lastVersion' = Number(c)
      BY <2>2 DEF Sent, Number
    <3> QED
      BY <1>1, <1>3, <3>1, <3>2 DEF IInv, Current, Born, Number
  <2> QED
    BY <2>1, <2>2
<1> QED
  BY <1>1, <1>3, <1>4, <1>5, IdleIsReleased, ReleaseStep

\* A pause was reported.
LEMMA ReportedStep == ASSUME IInv, NEW c \in Callers, Reported(c) PROVE IInv'
<1>1. /\ caller' = [caller EXCEPT ![c] = Idle] /\ holder' = None /\ holder' # c
      /\ UNCHANGED <<lineage, revision, epoch, clock, navVersion, history>>
      /\ UNCHANGED <<pending, lastVersion, unadopted, link>>
  BY CallersAssumption DEF Reported, Free, queueVars, netVars
<1>2. Shape'
  BY <1>1, IdleIsReleased, ShapeKept
<1>3. Current'
  BY <1>1 DEF IInv, Current, Born
<1> QED
  BY <1>1, <1>2, <1>3, IdleIsReleased, ReleaseStep

\* A send failed: its navigation is forgotten, by the calls it passed as well.
LEMMA SendFailsStep == ASSUME IInv, NEW c \in Callers, SendFails(c) PROVE IInv'
<1>1. /\ holder = c /\ holder' = None /\ link' # "up"
      /\ UNCHANGED <<lineage, revision, epoch, clock>>
  BY DEF SendFails, stateVars, queueVars
<1>2. PICK owed, target : history' = [history EXCEPT !.owed = owed, !.target = target]
  BY DEF SendFails
<1>3. caller' = [d \in Callers |->
         IF d = c THEN AfterFailure(c)
         ELSE IF caller[c].previous # None
         THEN [caller[d] EXCEPT !.passed = @ \ {Number(c)}]
         ELSE caller[d]]
  BY DEF SendFails, Number
<1>4. LET call == caller'[c]
      IN IsCall(call) /\ call.pc # "sending" /\ call.previous = None /\ Continues(call, c)
  <2>1. caller'[c] = AfterFailure(c) /\ caller[c].pc = "sending"
    BY <1>1, <1>3 DEF IInv, PerCaller, InFlight
  <2> QED
    BY <2>1, FailureIsReleased
<1>5. ASSUME NEW d \in Callers \ {c}
      PROVE  /\ IsCall(caller'[d]) /\ caller'[d].pc = caller[d].pc
             /\ caller'[d].op = caller[d].op /\ caller'[d].baseline = caller[d].baseline
             /\ caller'[d].previous = caller[d].previous
             /\ caller'[d].overtaken = caller[d].overtaken
             /\ caller'[d].meanwhile = caller[d].meanwhile
             /\ caller'[d].passed \subseteq caller[d].passed
             /\ caller[c].previous # None => Number(c) \notin caller'[d].passed
  <2>1. IsCall(caller[d])
    BY DEF IInv, Shape
  <2>2. CASE caller[c].previous # None
    <3>1. caller'[d] = [caller[d] EXCEPT !.passed = @ \ {Number(c)}]
      BY <1>3, <2>2
    <3> QED
      BY <2>1, <3>1 DEF IsCall
  <2>3. CASE caller[c].previous = None
    BY <1>3, <2>1, <2>3
  <2> QED
    BY <2>2, <2>3
<1>6. history'.born = history.born
  BY <1>2 DEF IInv, Shape
<1>7. Shape'
  <2>1. \A d \in Callers : IsCall(caller'[d])
    BY <1>4, <1>5
  <2> QED
    BY <1>2, <1>3, <1>6, <2>1 DEF IInv, Shape
<1>8. navVersion' = IF caller[c].previous # None THEN caller[c].previous.navVersion ELSE navVersion
  BY DEF SendFails, navVars
<1>9. Counters'
  BY <1>1, <1>8 DEF IInv, Counters, PerCaller, InFlight
<1>10. PerCaller(c)'
  <2>1. PerCaller(c) /\ caller[c].pc = "sending" /\ holder' # c
    BY <1>1, CallersAssumption DEF IInv, PerCaller, InFlight
  <2>2. Decided(c)'
    <3>1. CASE Undecided(c)'
      BY <3>1 DEF Decided
    <3>2. CASE ~Undecided(c)'
      <4>1. Deciding(caller[c]) /\ caller'[c].passed = caller[c].passed
        BY <1>4, <3>2 DEF Undecided, Continues
      <4>2. caller'[c].passed = {}
        BY <2>1, <4>1 DEF PerCaller, Published, Publishes, Deciding
      <4> QED
        BY <1>1, <1>4, <2>1, <3>2, <4>1, <4>2
        DEF PerCaller, Decided, Undecided, Continues
    <3> QED
      BY <3>1, <3>2
  <2> QED
    BY <1>4, <2>1, <2>2 DEF PerCaller, InFlight, NotSending, Published, Publishes
<1>11. ASSUME NEW d \in Callers \ {c} PROVE PerCaller(d)'
  <2>1. PerCaller(d) /\ InFlight(c) /\ holder' # d
    BY <1>1, CallersAssumption DEF IInv, PerCaller
  <2>2. Decided(d)'
    <3>1. CASE Undecided(d)
      BY <1>5, <3>1 DEF Decided, Undecided, Deciding, Followers
    <3>2. CASE ~Undecided(d)
      <4>1. \A v \in caller'[d].passed : v <= navVersion'
        BY <1>1, <1>5, <1>8, <2>1, <3>2 DEF PerCaller, Decided, InFlight
      <4> QED
        BY <1>1, <1>5, <2>1, <3>2, <4>1 DEF PerCaller, Decided, Undecided, Deciding, Followers
    <3> QED
      BY <3>1, <3>2
  <2> QED
    BY <1>5, <2>1, <2>2 DEF PerCaller, InFlight, NotSending, Published, Publishes
<1>12. Current'
  BY <1>1 DEF Current
<1> QED
  BY <1>7, <1>9, <1>10, <1>11, <1>12 DEF IInv

\* An edit is published: what its caller decided on still stands, and the calls
\* decided before a navigation have been passed by it.
LEMMA PublishStep == ASSUME IInv, NEW c \in Callers, Publish(c) PROVE IInv'
<1>1. /\ caller[c].pc = "waiting" /\ caller[c].op # "pause"
      /\ holder = None /\ holder' = c /\ link = "up" /\ clock < MaxVersion /\ clock' = clock + 1
      /\ UNCHANGED <<lineage, revision, epoch, pending, lastVersion, link>>
  BY DEF Publish, AtLock, stateVars, queueVars
<1>2. caller[c].op \in Advances => MatchesBaseline(caller[c].baseline, Snapshot)
  BY DEF Publish, Refused
<1>3. PICK ps \in Edited(c, Version(Self, clock')) :
        LET sent == [queue |-> Versioned(ps.queue, Version(Self, clock')), status |-> ps.status]
            previous == IF Moves(c)
                        THEN [navVersion |-> navVersion, unadopted |-> unadopted,
                              navStatus |-> navStatus]
                        ELSE None
        IN /\ caller' = [d \in Callers |->
                IF d = c
                THEN [caller[c] EXCEPT !.pc = "sending", !.sent = sent, !.epoch = epoch,
                                       !.previous = previous]
                ELSE IF previous # None /\ caller[d].pc \in {"decided", "waiting"}
                THEN [caller[d] EXCEPT !.passed = @ \union {clock'}]
                ELSE caller[d]]
           /\ IF Moves(c)
              THEN navVersion' = clock' /\ unadopted' = clock'
              ELSE navVersion' = navVersion /\ unadopted' = unadopted
  BY DEF Publish, navVars
<1>4. /\ IsCall(caller'[c]) /\ caller'[c].pc = "sending" /\ caller'[c].op = caller[c].op
      /\ caller'[c].epoch = epoch /\ Number(c)' = clock'
      /\ caller'[c].overtaken = caller[c].overtaken /\ caller'[c].passed = caller[c].passed
      /\ caller'[c].meanwhile = caller[c].meanwhile
      /\ caller'[c].baseline = caller[c].baseline
      /\ caller'[c].previous # None => caller'[c].previous.navVersion = navVersion
  <2> DEFINE sent == [queue |-> Versioned(ps.queue, Version(Self, clock')), status |-> ps.status]
             previous == IF Moves(c)
                         THEN [navVersion |-> navVersion, unadopted |-> unadopted,
                               navStatus |-> navStatus]
                         ELSE None
  <2>1. caller'[c] = [caller[c] EXCEPT !.pc = "sending", !.sent = sent, !.epoch = epoch,
                                       !.previous = previous]
    BY <1>3
  <2>2. sent.queue.version.number = clock'
    BY DEF Versioned, Version
  <2>3. previous # None => previous.navVersion = navVersion
    OBVIOUS
  <2>4. IsCall(caller[c])
    BY DEF IInv, Shape
  <2> HIDE DEF sent, previous
  <2> QED
    BY <2>1, <2>2, <2>3, <2>4 DEF IsCall, Number
<1>5. ASSUME NEW d \in Callers \ {c}
      PROVE  /\ IsCall(caller'[d]) /\ caller'[d].pc = caller[d].pc /\ caller'[d].op = caller[d].op
             /\ caller'[d].baseline = caller[d].baseline
             /\ caller'[d].previous = caller[d].previous
             /\ caller'[d].overtaken = caller[d].overtaken
             /\ caller'[d].meanwhile = caller[d].meanwhile
             /\ \/ caller'[d].passed = caller[d].passed
                \/ /\ caller'[d].passed = caller[d].passed \union {clock'}
                   /\ Moves(c) /\ caller[d].pc # "sending"
  <2>1. IsCall(caller[d])
    BY DEF IInv, Shape
  <2>2. \/ caller'[d] = caller[d]
        \/ /\ Moves(c) /\ caller[d].pc \in {"decided", "waiting"}
           /\ caller'[d] = [caller[d] EXCEPT !.passed = @ \union {clock'}]
    BY <1>3
  <2> QED
    BY <2>1, <2>2 DEF IsCall
<1>6. /\ history'.born = [history.born EXCEPT ![clock'] = epoch]
      /\ history' = [born |-> history'.born, owed |-> history'.owed, mine |-> history'.mine,
                     following |-> history'.following, seen |-> history'.seen,
                     latest |-> history'.latest, target |-> history'.target, ours |-> history'.ours]
  <2>1. PICK owed, latest, target, ours :
          history' = [history EXCEPT !.born[clock'] = epoch, !.owed = owed, !.latest = latest,
                                     !.target = target, !.ours = ours]
    BY DEF Publish
  <2> QED
    BY <2>1 DEF IInv, Shape
<1>7. clock' \in 1 .. MaxVersion /\ clock \in 0 .. MaxVersion
  BY <1>1, BoundsAssumption DEF IInv, Counters
<1>8. /\ history'.born[clock'] = epoch
      /\ \A v \in 1 .. clock : history'.born[v] = history.born[v]
  BY <1>1, <1>6, <1>7, BoundsAssumption DEF IInv, Shape
<1>9. Shape'
  <2>1. \A d \in Callers : IsCall(caller'[d])
    BY <1>4, <1>5
  <2>2. caller' = [d \in Callers |-> caller'[d]]
    BY <1>3
  <2>3. history'.born = [v \in 1 .. MaxVersion |-> history'.born[v]]
    BY <1>6 DEF IInv, Shape
  <2> QED
    BY <1>6, <2>1, <2>2, <2>3 DEF Shape
<1>10. navVersion' = (IF Moves(c) THEN clock' ELSE navVersion)
       /\ unadopted' = (IF Moves(c) THEN clock' ELSE unadopted)
  BY <1>3
<1>11. Counters' /\ navVersion <= navVersion'
  BY <1>1, <1>7, <1>10 DEF IInv, Counters
<1>12. ASSUME NEW d \in Callers
       PROVE  /\ caller'[d].op = caller[d].op /\ caller'[d].baseline = caller[d].baseline
              /\ Followers(caller'[d]) = Followers(caller[d])
              /\ Undecided(d)' => Undecided(d)
              /\ Undecided(d) => Undecided(d)'
              /\ caller'[d].passed \subseteq caller[d].passed \union {clock'}
              /\ clock' \in caller'[d].passed => clock' \in caller[d].passed \/ Moves(c)
  <2>1. CASE d = c
    BY <1>1, <1>4, <2>1 DEF Undecided, Deciding, Followers
  <2>2. CASE d # c
    BY <1>5, <2>2 DEF Undecided, Deciding, Followers
  <2> QED
    BY <2>1, <2>2
<1>13. ASSUME NEW d \in Callers PROVE Decided(d)'
  <2>1. CASE Undecided(d)
    BY <1>12, <2>1 DEF Decided
  <2>2. CASE ~Undecided(d)
    <3>1. Decided(d)
      BY DEF IInv, PerCaller
    <3>2. \A v \in caller[d].passed :
             v \in 1 .. clock' /\ caller[d].baseline.navigation < v /\ v <= navVersion'
      BY <1>1, <1>7, <1>11, <2>2, <3>1 DEF Decided, Counters, IInv
    <3>3. Moves(c) => navVersion' = clock' /\ caller[d].baseline.navigation < clock'
      BY <1>1, <1>7, <1>10, <2>2, <3>1 DEF Decided
    <3>4. \A v \in caller'[d].passed :
             v \in 1 .. clock' /\ caller[d].baseline.navigation < v /\ v <= navVersion'
      BY <1>7, <1>12, <3>2, <3>3
    <3> QED
      BY <1>1, <1>7, <1>12, <2>2, <3>1, <3>4 DEF Decided
  <2> QED
    BY <2>1, <2>2
<1>14. InFlight(c)'
  <2>1. ASSUME NEW d \in Callers, ~Undecided(d)', NEW v \in caller'[d].passed
        PROVE  v = clock' \/ v <= navVersion
    <3>1. Decided(d) /\ ~Undecided(d)
      BY <1>12, <2>1 DEF IInv, PerCaller
    <3> QED
      BY <1>12, <2>1, <3>1 DEF Decided
  <2>2. caller'[c].previous # None =>
          /\ caller'[c].previous.navVersion \in 0 .. clock'
          /\ \A d \in Callers : Undecided(d)' \/
               \A v \in caller'[d].passed :
                  v = Number(c)' \/ v <= caller'[c].previous.navVersion
    BY <1>1, <1>4, <1>7, <2>1 DEF IInv, Counters
  <2> QED
    BY <1>1, <1>4, <1>7, <1>8, <2>2 DEF InFlight
<1>15. Published(c)'
  <2>1. SUFFICES ASSUME caller[c].op \in Advances
                 PROVE  caller[c].overtaken \subseteq {"device"} /\ caller[c].passed = {}
    BY <1>4 DEF Published, Publishes
  <2>2. Decided(c) /\ ~Undecided(c)
    BY <1>1, <2>1 DEF IInv, PerCaller, Undecided, Deciding
  <2>3. /\ lineage = caller[c].baseline.lineage /\ revision = caller[c].baseline.revision
        /\ navVersion = caller[c].baseline.navigation
    BY <1>2, <2>1 DEF MatchesBaseline
  <2> QED
    BY <2>2, <2>3 DEF Decided, Followers, IInv, Counters
<1>16. ASSUME NEW d \in Callers PROVE PerCaller(d)'
  <2>1. CASE d = c
    BY <1>4, <1>13, <1>14, <1>15, <2>1 DEF PerCaller, NotSending
  <2>2. CASE d # c
    <3>1. PerCaller(d) /\ holder' # d
      BY <1>1, <2>2 DEF IInv
    <3>2. Published(d)'
      BY <1>5, <2>2, <3>1 DEF PerCaller, Published, Publishes
    <3> QED
      BY <1>5, <1>13, <2>2, <3>1, <3>2 DEF PerCaller, InFlight, NotSending
  <2> QED
    BY <2>1, <2>2
<1>17. Current'
  BY <1>1, <1>7, <1>8, <1>10 DEF IInv, Current, Born
<1> QED
  BY <1>9, <1>11, <1>16, <1>17 DEF IInv

\* A frame is parsed: what overtakes a decision moves a counter the decision
\* remembers, and a reset leaves no pending edit behind.
LEMMA DeliverStep == ASSUME IInv, Deliver PROVE IInv'
<1> DEFINE f == Head(inbox)
<1>1. ParseQueue(f) /\ ParseStatus(f) /\ UNCHANGED <<holder, clock, navVersion, link>>
  BY DEF Deliver, ParseQueue
<1>2. /\ caller' = [c \in Callers |-> Followed(c, Overtakes(f))]
      /\ \E owed, mine, ours, seen, latest :
           history' = [history EXCEPT !.owed = owed, !.mine = mine, !.ours = ours,
                                      !.seen = seen, !.latest = latest]
  BY DEF Deliver
<1>3. ASSUME NEW c \in Callers
      PROVE  /\ IsCall(caller'[c]) /\ caller'[c].pc = caller[c].pc /\ caller'[c].op = caller[c].op
             /\ caller'[c].baseline = caller[c].baseline
             /\ caller'[c].previous = caller[c].previous
             /\ caller'[c].epoch = caller[c].epoch
             /\ caller'[c].passed = caller[c].passed /\ caller'[c].sent = caller[c].sent
             /\ caller[c].pc = "sending" => caller'[c].overtaken = caller[c].overtaken
             /\ Followers(caller'[c]) \in {Followers(caller[c]),
                                           Followers(caller[c]) \union Overtakes(f)}
  <2>1. IsCall(caller[c])
    BY DEF IInv, Shape
  <2>2. caller'[c] = Followed(c, Overtakes(f))
    BY <1>2
  <2> HIDE DEF f
  <2> DEFINE early(r, what) == [r EXCEPT !.overtaken = @ \union what]
             late(r, what) == [r EXCEPT !.meanwhile = @ \union what]
  <2>3. \/ caller'[c] = caller[c]
        \/ caller'[c] = early(caller[c], Overtakes(f)) /\ caller[c].pc # "sending"
        \/ caller'[c] = late(caller[c], Overtakes(f))
    BY <2>2 DEF Followed
  <2>4. ASSUME NEW r, NEW what, IsCall(r)
        PROVE  /\ IsCall(early(r, what)) /\ IsCall(late(r, what))
               /\ early(r, what) = [r EXCEPT !.overtaken = early(r, what).overtaken]
               /\ early(r, what).overtaken = r.overtaken \union what
               /\ late(r, what) = [r EXCEPT !.meanwhile = late(r, what).meanwhile]
               /\ late(r, what).meanwhile = r.meanwhile \union what
    BY <2>4 DEF IsCall
  <2> HIDE DEF early, late
  <2>5. CASE caller'[c] = caller[c]
    BY <2>1, <2>5
  <2>6. CASE caller'[c] = early(caller[c], Overtakes(f)) /\ caller[c].pc # "sending"
    BY <2>1, <2>4, <2>6 DEF IsCall, Followers
  <2>7. CASE caller'[c] = late(caller[c], Overtakes(f))
    BY <2>1, <2>4, <2>7 DEF IsCall, Followers
  <2> QED
    BY <2>3, <2>5, <2>6, <2>7
<1>4. /\ history'.born = history.born
      /\ history' = [born |-> history'.born, owed |-> history'.owed, mine |-> history'.mine,
                     following |-> history'.following, seen |-> history'.seen,
                     latest |-> history'.latest, target |-> history'.target, ours |-> history'.ours]
  <2>1. PICK owed, mine, ours, seen, latest :
          history' = [history EXCEPT !.owed = owed, !.mine = mine, !.ours = ours,
                                     !.seen = seen, !.latest = latest]
    BY <1>2
  <2> QED
    BY <2>1 DEF IInv, Shape
<1>5. Shape'
  BY <1>2, <1>3, <1>4 DEF IInv, Shape
<1> HIDE DEF f
<1>6. lineage' = IF Replaces(f) THEN lineage + 1 ELSE lineage
  BY <1>1 DEF ParseQueue
<1>7. revision' = IF NewStatus(f) /\ PeerCommand(f) THEN revision + 1 ELSE revision
  BY <1>1 DEF ParseStatus
<1>8. epoch' = epoch + (IF Replaces(f) THEN 1 ELSE 0) + (IF ActiveAfter(f) # active THEN 1 ELSE 0)
  BY <1>1 DEF ParseQueue
<1>9. Counters'
  BY <1>1, <1>6, <1>7, <1>8 DEF IInv, Counters
<1>10. /\ "queue" \in Overtakes(f) => lineage < lineage'
       /\ "command" \in Overtakes(f) => revision < revision'
       /\ Overtakes(f) \subseteq {"queue", "command", "device"}
       /\ lineage <= lineage' /\ revision <= revision'
  BY <1>6, <1>7 DEF Overtakes, IInv, Counters
<1>11. ASSUME NEW c \in Callers PROVE PerCaller(c)'
  <2>1. PerCaller(c)
    BY DEF IInv
  <2>2. Decided(c)'
    <3>1. CASE Undecided(c)
      BY <1>3, <3>1 DEF Decided, Undecided, Deciding
    <3>2. CASE ~Undecided(c)
      <4>1. /\ "queue" \in Followers(caller'[c]) => caller[c].baseline.lineage < lineage'
            /\ "command" \in Followers(caller'[c]) => caller[c].baseline.revision < revision'
            /\ Followers(caller'[c]) \subseteq {"queue", "command", "device"}
        BY <1>3, <1>9, <1>10, <2>1, <3>2 DEF PerCaller, Decided, IInv, Counters
      <4> QED
        BY <1>1, <1>3, <1>9, <1>10, <2>1, <3>2, <4>1
        DEF PerCaller, Decided, Undecided, Deciding, IInv, Counters
    <3> QED
      BY <3>1, <3>2
  <2>3. InFlight(c)'
    BY <1>1, <1>3, <1>4, <2>1 DEF PerCaller, InFlight, Undecided, Deciding, Number
  <2> QED
    BY <1>3, <2>1, <2>2, <2>3 DEF PerCaller, NotSending, Published, Publishes
<1>12. Current'
  <2>1. CASE Replaces(f) \/ ActiveAfter(f) # active
    <3>1. pending' = None /\ lastVersion' = 0 /\ unadopted' = 0
      BY <1>1, <2>1 DEF ParseQueue
    <3> QED
      BY <3>1 DEF Current
  <2>2. CASE ~(Replaces(f) \/ ActiveAfter(f) # active)
    <3>1. epoch' = epoch
      BY <1>8, <2>2 DEF IInv, Counters
    <3>2. /\ pending' \in {pending, None} /\ lastVersion' = lastVersion
          /\ unadopted' \in {unadopted, 0}
      BY <1>1, <2>2 DEF ParseQueue
    <3> QED
      BY <1>1, <1>4, <3>1, <3>2 DEF IInv, Current, Born
  <2> QED
    BY <2>1, <2>2
<1> QED
  BY <1>5, <1>9, <1>11, <1>12 DEF IInv

-----------------------------------------------------------------------------
\* Every step keeps the invariant.
LEMMA NextIInv == IInv /\ [Next]_vars => IInv'
<1> SUFFICES ASSUME IInv, [Next]_vars PROVE IInv'
  OBVIOUS
<1>1. ASSUME NEW c \in Callers, Caller(c) PROVE IInv'
  <2>1. CASE \E op \in Ops[c] : Decide(c, op) \/ CallNow(c, op)
    BY <2>1, DecideStep, CallNowStep
  <2>2. CASE Call(c) \/ GiveUp(c) \/ Publish(c) \/ Report(c)
    BY <2>2, CallStep, GiveUpStep, PublishStep, ReportStep
  <2>3. CASE Sent(c) \/ Reported(c) \/ SendFails(c)
    BY <2>3, SentStep, ReportedStep, SendFailsStep
  <2> QED
    BY <1>1, <2>1, <2>2, <2>3 DEF Caller
<1>2. CASE Deliver
  BY <1>2, DeliverStep
<1>3. CASE Environment \/ MarkExpires \/ PendingExpires
  BY <1>3, EnvironmentStep
<1>4. CASE Loses
  BY <1>4, LosesStep
<1>5. CASE Reconnects
  BY <1>5, ReconnectsStep
<1>6. CASE UNCHANGED vars
  <2>1. history' = [history EXCEPT !.target = history'.target]
    BY <1>6 DEF vars, IInv, Shape
  <2> QED
    BY <1>6, <2>1, QuietStep DEF vars, stateVars, queueVars, navVars, sendVars, netVars
<1> QED
  BY <1>1, <1>2, <1>3, <1>4, <1>5, <1>6 DEF Next

\* Every reachable state satisfies the inductive invariant: what each caller recorded
\* when it decided, what a send in flight may take back, and the generation of each
\* pending edit.
THEOREM Invariance == Spec => []IInv
<1> QED
  BY InitIInv, NextIInv, PTL DEF Spec

\* However the frames of other devices interleave with it, a skip or a natural
\* end is published only over the playback it was decided for.
THEOREM AdvanceIsNotOvertaken == Spec => []NoOvertakenAdvance
<1>1. IInv => NoOvertakenAdvance
  BY DEF IInv, PerCaller, Published, NoOvertakenAdvance
<1> QED
  BY <1>1, Invariance, PTL

\* ... and never after another navigation of ours that it did not see.
THEOREM OneAdvancePerEnd == Spec => []NoDoubleSkip
<1>1. IInv => NoDoubleSkip
  BY DEF IInv, PerCaller, Published, NoDoubleSkip
<1> QED
  BY <1>1, Invariance, PTL

\* No pending edit outlives the generation it was published in.
THEOREM PendingEditsAreCurrent == Spec => []GenerationsAgree
<1>1. IInv => GenerationsAgree
  BY DEF IInv, Current, Born, GenerationsAgree
<1> QED
  BY <1>1, Invariance, PTL

-----------------------------------------------------------------------------
(* The type invariant                                                        *)

\* A queue whose version, when it is ours, was handed out.
IsQueue(q) == q \in Queues /\ (q.version.by = Self => q.version.number \in 0 .. MaxVersion)
IsOwn(q) == IsQueue(q) /\ q.version.by = Self

IsMessage(m) == (m.queue # None => IsOwn(m.queue)) /\ m.status \in Statuses

IsFrame(f) ==
    /\ f.queue # Absent => IsQueue(f.queue)
    /\ f.status # Absent => f.status \in Statuses
    /\ f.active \in {Self, Peer, None, Absent}

Messages(s) == \E S : s \in Seq(S) /\ \A m \in S : IsMessage(m)
Frames(s) == \E S : s \in Seq(S) /\ \A f \in S : IsFrame(f)

IsPrevious(p) ==
    /\ p.navVersion \in 0 .. MaxVersion /\ p.unadopted \in 0 .. MaxVersion
    /\ p.navStatus \in Statuses \union {None}

CallTyped(r) ==
    /\ r.pc \in {"idle", "decided", "waiting", "sending"}
    /\ r.pc # "idle" => r.op \in Operations
    /\ r.pc = "sending" => /\ r.sent.status \in Statuses
                           /\ r.op # "pause" => IsOwn(r.sent.queue)
    /\ r.previous # None => IsPrevious(r.previous)
    /\ r.items \in Seq(Playables) /\ r.index \in Int

StateTyped ==
    /\ IsQueue(queue) /\ status \in Statuses /\ active \in {Self, Peer, None}
    /\ flags \in [navigated : BOOLEAN, kept : BOOLEAN, relay : BOOLEAN, echo : BOOLEAN]

PendingTyped ==
    /\ pending # None => IsQueue(pending)
    /\ fresh \in BOOLEAN
    /\ lastVersion \in 0 .. MaxVersion /\ confirmed \in 0 .. MaxVersion
    /\ unadopted \in 0 .. MaxVersion
    /\ navStatus \in Statuses \union {None}

CallsTyped == \A c \in Callers : CallTyped(caller[c])

LockTyped == waiters \in Seq(Callers) /\ holder \in Callers \union {None}

NetTyped ==
    /\ link \in {"up", "broken"} /\ foreign \in Nat
    /\ Messages(wire) /\ Frames(inbox)
    /\ server = [queue |-> server.queue, status |-> server.status, active |-> server.active]
    /\ IsQueue(server.queue) /\ server.status \in Statuses
    /\ server.active \in {Self, Peer, None}

TInv == StateTyped /\ PendingTyped /\ CallsTyped /\ LockTyped /\ NetTyped

-----------------------------------------------------------------------------
(* Sequences of things of a kind                                             *)

\* A sequence over a set is one over every larger set.
LEMMA SeqGrows == ASSUME NEW S, NEW T, S \subseteq T, NEW s \in Seq(S) PROVE s \in Seq(T)
<1>1. s \in [1 .. Len(s) -> T] /\ Len(s) \in Nat
  OBVIOUS
<1> QED
  BY <1>1

\* One more message is sent ...
LEMMA MessagesAppend ==
  ASSUME NEW s, NEW m, Messages(s), IsMessage(m) PROVE Messages(Append(s, m))
<1>1. PICK S : s \in Seq(S) /\ \A x \in S : IsMessage(x)
  BY DEF Messages
<1>2. s \in Seq(S \union {m})
  BY <1>1, SeqGrows
<1>3. Append(s, m) \in Seq(S \union {m}) /\ \A x \in S \union {m} : IsMessage(x)
  BY <1>1, <1>2
<1> QED
  BY <1>3 DEF Messages

\* ... and the oldest is taken.
LEMMA MessagesTail ==
  ASSUME NEW s, Messages(s), s # <<>> PROVE Messages(Tail(s)) /\ IsMessage(Head(s))
<1>1. PICK S : s \in Seq(S) /\ \A x \in S : IsMessage(x)
  BY DEF Messages
<1>2. Tail(s) \in Seq(S) /\ Head(s) \in S
  BY <1>1
<1> QED
  BY <1>1, <1>2 DEF Messages

\* The oldest frame is taken.
LEMMA FramesTail ==
  ASSUME NEW s, Frames(s), s # <<>> PROVE Frames(Tail(s)) /\ IsFrame(Head(s))
<1>1. PICK S : s \in Seq(S) /\ \A x \in S : IsFrame(x)
  BY DEF Frames
<1>2. Tail(s) \in Seq(S) /\ Head(s) \in S
  BY <1>1
<1> QED
  BY <1>1, <1>2 DEF Frames

\* The empty sequence holds nothing wrong.
LEMMA NothingSent == Messages(<<>>) /\ Frames(<<>>)
<1> DEFINE none == <<>>
           S == {}
<1>1. none \in Seq(S) /\ \A x \in S : IsMessage(x) /\ IsFrame(x)
  OBVIOUS
<1> HIDE DEF none, S
<1>2. Messages(none) /\ Frames(none)
  BY <1>1 DEF Messages, Frames
<1> QED
  BY <1>2 DEF none

\* A single frame arrives ...
LEMMA OneFrame == ASSUME NEW f, IsFrame(f) PROVE Frames(<<f>>)
<1> DEFINE one == <<f>>
           S == {f}
<1>1. one \in Seq(S) /\ \A x \in S : IsFrame(x)
  OBVIOUS
<1> HIDE DEF one, S
<1>2. Frames(one)
  BY <1>1 DEF Frames
<1> QED
  BY <1>2 DEF one

\* ... after those that are already on their way.
LEMMA FramesJoin == ASSUME NEW s, NEW t, Frames(s), Frames(t) PROVE Frames(s \o t)
<1>1. PICK S : s \in Seq(S) /\ \A x \in S : IsFrame(x)
  BY DEF Frames
<1>2. PICK T : t \in Seq(T) /\ \A x \in T : IsFrame(x)
  BY DEF Frames
<1>3. s \in Seq(S \union T) /\ t \in Seq(S \union T)
  BY <1>1, <1>2, SeqGrows
<1>4. s \o t \in Seq(S \union T)
  BY <1>3
<1> QED
  BY <1>1, <1>2, <1>4 DEF Frames

-----------------------------------------------------------------------------
(* What an edit leaves is a queue                                            *)

\* The positions that the logical order names are integers.
LEMMA OrderTyped == ASSUME NEW q \in Queues PROVE Order(q) \in Seq(Int)
<1>1. q.items \in Seq(Playables) /\ q.order \in Seq(Int)
  BY DEF Queues
<1>2. Size(q) \in Nat
  BY <1>1 DEF Size
<1>3. Sequential(Size(q)) \in Seq(Int)
  BY <1>2 DEF Sequential
<1> QED
  BY <1>1, <1>3 DEF Order

\* So are the neighbours of the current item.
LEMMA RelativeTyped ==
  ASSUME NEW q \in Queues, NEW offset, NEW wrap, NEW x \in Relative(q, offset, wrap)
  PROVE  x \in Int
<1>1. Order(q) \in Seq(Int)
  BY OrderTyped
<1>2. PICK t : t \in 1 .. Len(Order(q)) /\ x = Order(q)[t]
  BY DEF Relative
<1> QED
  BY <1>1, <1>2

\* And the index a navigation goes to.
LEMMA PlannedTyped ==
  ASSUME NEW q \in Queues, NEW natural, NEW x \in PlannedIndex(q, natural)
  PROVE  x \in Int
<1>1. q.current \in Int
  BY DEF Queues
<1> QED
  BY <1>1, RelativeTyped DEF PlannedIndex, NextIndex

\* A state whose queue is edited.
IsBase(b) == b = [queue |-> b.queue, status |-> b.status] /\ b.queue \in Queues

\* A move, to an index or to a neighbour, leaves a queue.
LEMMA MovedTyped ==
  ASSUME NEW b, IsBase(b), NEW index \in Int, NEW s
  PROVE  [b EXCEPT !.queue.current = index, !.status = s].queue \in Queues
<1>1. PICK q \in Queues : q = b.queue
  BY DEF IsBase
<1>2. [b EXCEPT !.queue.current = index, !.status = s].queue = [q EXCEPT !.current = index]
  BY <1>1 DEF IsBase
<1>3. [q EXCEPT !.current = index] \in Queues
  BY DEF Queues
<1> QED
  BY <1>2, <1>3

\* A navigation yields a queue.
LEMMA NavigateTyped ==
  ASSUME NEW b, IsBase(b), NEW natural, NEW v
  PROVE  Navigate(b, natural, v).queue \in Queues
<1>1. CASE Outcome(b.queue, natural) = "radio"
  BY <1>1 DEF Navigate, IsBase
<1>2. CASE Outcome(b.queue, natural) = "stop"
  <2>1. Navigate(b, natural, v) = [b EXCEPT !.status = Finished(v)]
    BY <1>2 DEF Navigate
  <2> QED
    BY <2>1 DEF IsBase
<1>3. CASE Outcome(b.queue, natural) \notin {"radio", "stop"}
  <2> DEFINE index == CHOOSE i \in PlannedIndex(b.queue, natural) : TRUE
  <2>1. PlannedIndex(b.queue, natural) # {}
    BY <1>3 DEF Outcome
  <2>2. index \in PlannedIndex(b.queue, natural)
    BY <2>1
  <2>3. index \in Int
    BY <2>2, PlannedTyped DEF IsBase
  <2>4. Navigate(b, natural, v) = [b EXCEPT !.queue.current = index, !.status = Beginning(v)]
    BY <1>3 DEF Navigate
  <2> HIDE DEF index
  <2> QED
    BY <2>3, <2>4, MovedTyped
<1> QED
  BY <1>1, <1>2, <1>3

\* So does an append, with the trim in front and the shuffle list that grows.
LEMMA ReplaceTyped ==
  ASSUME NEW b, IsBase(b), NEW items \in Seq(Playables)
  PROVE  ReplaceItems(b, items).queue \in Queues
<1>1. PICK q \in Queues : q = b.queue
  BY DEF IsBase
<1>2. /\ q.items \in Seq(Playables) /\ q.order \in Seq(Int) /\ q.current \in Int
      /\ q.shuffled \in BOOLEAN
  BY DEF Queues
<1>3. CASE q.shuffled
  <2> DEFINE order == InsertShuffleIndices(q.order, Size(q), Len(items) - Size(q))
  <2>1. PICK n \in Nat, m \in Nat : n = Size(q) /\ m = Len(items)
    BY <1>2 DEF Size
  <2>2. order = [i \in 1 .. Len(q.order) |->
                   IF q.order[i] >= n THEN q.order[i] + (m - n) ELSE q.order[i]]
                \o [i \in 1 .. (m - n) |-> n + i - 1]
    BY <2>1 DEF InsertShuffleIndices
  <2>3. [i \in 1 .. Len(q.order) |->
           IF q.order[i] >= n THEN q.order[i] + (m - n) ELSE q.order[i]] \in Seq(Int)
    BY <1>2
  <2>4. [i \in 1 .. (m - n) |-> n + i - 1] \in Seq(Int)
    <3>1. CASE m - n \in Nat
      BY <3>1
    <3>2. CASE m - n \notin Nat
      <4>1. 1 .. (m - n) = 1 .. 0
        BY <3>2
      <4>2. [i \in 1 .. 0 |-> n + i - 1] \in Seq(Int)
        OBVIOUS
      <4> QED
        BY <4>1, <4>2
    <3> QED
      BY <3>1, <3>2
  <2>5. order \in Seq(Int)
    <3>1. ASSUME NEW s \in Seq(Int), NEW t \in Seq(Int) PROVE s \o t \in Seq(Int)
      OBVIOUS
    <3> HIDE DEF order
    <3> QED
      BY <2>2, <2>3, <2>4, <3>1
  <2>6. ReplaceItems(b, items) = [b EXCEPT !.queue.items = items, !.queue.order = order]
    BY <1>1, <1>3 DEF ReplaceItems
  <2> HIDE DEF order
  <2>7. [b EXCEPT !.queue.items = items, !.queue.order = order].queue
          = [q EXCEPT !.items = items, !.order = order]
    BY <1>1 DEF IsBase
  <2>8. [q EXCEPT !.items = items, !.order = order] \in Queues
    BY <2>5 DEF Queues
  <2> QED
    BY <2>6, <2>7, <2>8
<1>4. CASE ~q.shuffled
  <2>1. PICK m \in Nat : m = Len(items)
    OBVIOUS
  <2>2. PICK d \in Nat : d = Dropped(q, items)
    BY <1>2, <2>1, WindowAssumption DEF Dropped, Least, Most
  <2>3. SubSeq(items, d + 1, m) \in Seq(Playables)
    BY <2>1
  <2>4. ReplaceItems(b, items) = [b EXCEPT !.queue.items = SubSeq(items, d + 1, m),
                                           !.queue.current = q.current - d]
    BY <1>1, <1>4, <2>1, <2>2 DEF ReplaceItems
  <2>5. [b EXCEPT !.queue.items = SubSeq(items, d + 1, m),
                  !.queue.current = q.current - d].queue
          = [q EXCEPT !.items = SubSeq(items, d + 1, m), !.current = q.current - d]
    BY <1>1 DEF IsBase
  <2>6. [q EXCEPT !.items = SubSeq(items, d + 1, m), !.current = q.current - d] \in Queues
    <3>1. PICK list \in Seq(Playables) : list = SubSeq(items, d + 1, m)
      BY <2>3
    <3>2. PICK i \in Int : i = q.current - d
      BY <1>2
    <3>3. [q EXCEPT !.items = list, !.current = i] \in Queues
      BY DEF Queues
    <3> QED
      BY <3>1, <3>2, <3>3
  <2> QED
    BY <2>4, <2>5, <2>6
<1> QED
  BY <1>2, <1>3, <1>4

\* And a change of an option.
LEMMA OptionTyped ==
  ASSUME NEW b, IsBase(b)
  PROVE  /\ \A mode \in RepeatModes : SetRepeat(b, mode).queue \in Queues
         /\ \A enabled : \A ps \in SetShuffle(b, enabled) : ps.queue \in Queues
<1>1. PICK q \in Queues : q = b.queue
  BY DEF IsBase
<1>2. ASSUME NEW mode \in RepeatModes PROVE SetRepeat(b, mode).queue \in Queues
  <2>1. SetRepeat(b, mode).queue = [q EXCEPT !.repeat = mode]
    BY <1>1 DEF SetRepeat, IsBase
  <2>2. [q EXCEPT !.repeat = mode] \in Queues
    BY DEF Queues
  <2> QED
    BY <2>1, <2>2
<1>3. ASSUME NEW enabled, NEW ps \in SetShuffle(b, enabled) PROVE ps.queue \in Queues
  <2>1. ASSUME NEW order \in Seq(Int) PROVE ShuffleOn(b, order).queue \in Queues
    <3>1. ShuffleOn(b, order).queue = [q EXCEPT !.shuffled = TRUE, !.order = order]
      BY <1>1 DEF ShuffleOn, IsBase
    <3>2. [q EXCEPT !.shuffled = TRUE, !.order = order] \in Queues
      BY DEF Queues
    <3> QED
      BY <3>1, <3>2
  <2>2. ShuffleOff(b).queue \in Queues
    <3>1. ShuffleOff(b).queue = [q EXCEPT !.shuffled = FALSE, !.order = <<>>]
      BY <1>1 DEF ShuffleOff, IsBase
    <3>2. PICK none \in Seq(Int) : none = <<>>
      <4>1. <<>> \in Seq(Int)
        OBVIOUS
      <4> QED
        BY <4>1, Zenon
    <3>3. [q EXCEPT !.shuffled = FALSE, !.order = none] \in Queues
      BY DEF Queues
    <3> QED
      BY <3>1, <3>2, <3>3
  <2>3. ASSUME NEW order \in ShuffleOrders(q) PROVE order \in Seq(Int)
    <3>1. q.current \in Int /\ Size(q) \in Nat /\ Positions(q) \subseteq Int
      BY DEF Queues, Size, Positions
    <3>2. PICK sample \in [1 .. Size(q) - 1 -> Positions(q) \ {q.current}] :
            order = <<q.current>> \o sample
      BY DEF ShuffleOrders
    <3>3. sample \in Seq(Int)
      <4>1. CASE Size(q) = 0
        <5>1. 1 .. Size(q) - 1 = 1 .. 0
          BY <4>1
        <5>2. sample \in [1 .. 0 -> Int]
          BY <3>1, <3>2, <5>1
        <5> QED
          BY <5>2
      <4>2. CASE Size(q) # 0
        <5>1. Size(q) - 1 \in Nat /\ sample \in [1 .. Size(q) - 1 -> Int]
          BY <3>1, <3>2, <4>2
        <5> QED
          BY <5>1
      <4> QED
        BY <4>1, <4>2
    <3>4. <<q.current>> \in Seq(Int)
      BY <3>1
    <3> QED
      BY <3>2, <3>3, <3>4
  <2>4. ps = ShuffleOff(b) \/ \E order \in ShuffleOrders(q) : ps = ShuffleOn(b, order)
    BY <1>1, <1>3 DEF SetShuffle
  <2> QED
    BY <2>1, <2>2, <2>3, <2>4
<1> QED
  BY <1>2, <1>3

-----------------------------------------------------------------------------
(* What a step leaves alone keeps its type                                   *)

\* The state last parsed is left alone.
LEMMA SameState == ASSUME StateTyped, UNCHANGED stateVars PROVE StateTyped'
  BY DEF StateTyped, stateVars, IsQueue

\* The pending edits and navigations are left alone.
LEMMA SamePending ==
  ASSUME PendingTyped, UNCHANGED queueVars, UNCHANGED navVars PROVE PendingTyped'
  BY DEF PendingTyped, queueVars, navVars, IsQueue

\* The network is left alone.
LEMMA SameNet == ASSUME NetTyped, UNCHANGED netVars PROVE NetTyped'
<1>1. UNCHANGED <<link, foreign, wire, inbox, server>>
  BY DEF netVars
<1> QED
  BY <1>1 DEF NetTyped

\* One call is replaced by another that is typed.
LEMMA CallReplaced ==
  ASSUME Shape, CallsTyped, NEW c \in Callers, NEW call, CallTyped(call),
         caller' = [caller EXCEPT ![c] = call]
  PROVE  CallsTyped'
<1>1. \A d \in Callers : caller'[d] = IF d = c THEN call ELSE caller[d]
  BY DEF Shape
<1> QED
  BY <1>1 DEF CallsTyped

\* A call that has sent nothing yet is typed.
LEMMA NewCallTyped ==
  /\ CallTyped(Idle)
  /\ \A pc \in {"decided", "waiting"}, op \in Operations, items \in Seq(Playables),
        index \in Int : \A baseline : CallTyped(Request(pc, op, baseline, items, index))
<1>1. <<>> \in Seq(Playables)
  OBVIOUS
<1>2. CallTyped(Idle)
  BY <1>1 DEF CallTyped, Idle
<1>3. ASSUME NEW pc \in {"decided", "waiting"}, NEW op \in Operations,
             NEW items \in Seq(Playables), NEW index \in Int, NEW baseline
      PROVE  CallTyped(Request(pc, op, baseline, items, index))
  BY <1>3 DEF CallTyped, Request
<1> QED
  BY <1>2, <1>3

\* So is what a failed send leaves.
LEMMA FailureTyped == ASSUME NEW c \in Callers, CallsTyped PROVE CallTyped(AfterFailure(c))
<1>1. ASSUME NEW r PROVE /\ Again(r).pc = "decided" /\ Again(r).previous = None
                        /\ Again(r).op = r.op /\ Again(r).items = r.items
                        /\ Again(r).index = r.index
  BY DEF Again, Request
<1>2. caller[c].op \in Advances => CallTyped(Again(caller[c]))
  BY <1>1 DEF CallTyped, CallsTyped, Operations, Advances
<1> QED
  BY <1>2, NewCallTyped DEF AfterFailure

-----------------------------------------------------------------------------
(* The initial states and the steps of a caller                              *)

\* The initial states satisfy the type invariant.
LEMMA InitTInv == Init => TInv
<1> SUFFICES ASSUME Init PROVE TInv
  OBVIOUS
<1>1. IsQueue(queue)
  <2>1. queue \in Queues
    BY QueuesAssumption DEF Init
  <2>2. queue.version.number = 0
    BY DEF Init, Versioned, Version
  <2> QED
    BY <2>1, <2>2, BoundsAssumption DEF IsQueue
<1>2. status \in Statuses
  BY EndAssumption DEF Init, Statuses, Version
<1>3. StateTyped
  BY <1>1, <1>2 DEF Init, StateTyped
<1>4. PendingTyped
  <2>1. pending = None /\ navStatus = None /\ lastVersion = 0 /\ confirmed = 0 /\ unadopted = 0
    BY DEF Init
  <2>2. fresh \in BOOLEAN
    BY DEF Init
  <2> QED
    BY <2>1, <2>2, BoundsAssumption DEF PendingTyped
<1>5. CallsTyped
  BY NewCallTyped DEF Init, CallsTyped
<1>6. LockTyped
  BY DEF Init, LockTyped
<1>7. NetTyped
  BY <1>1, <1>2, NothingSent DEF Init, NetTyped
<1> QED
  BY <1>3, <1>4, <1>5, <1>6, <1>7 DEF TInv

\* Steps that only move a caller: deciding, calling and giving up.
LEMMA CallerMovesTInv ==
  ASSUME TInv, Shape, NEW c \in Callers, NEW op \in Operations,
         Decide(c, op) \/ CallNow(c, op) \/ Call(c) \/ GiveUp(c)
  PROVE  TInv'
<1>1. UNCHANGED <<stateVars, queueVars, navVars, netVars, holder>>
  BY DEF Decide, CallNow, Call, GiveUp
<1>2. StateTyped' /\ PendingTyped' /\ NetTyped'
  BY <1>1, SameState, SamePending, SameNet DEF TInv
<1>3. PICK call : CallTyped(call) /\ caller' = [caller EXCEPT ![c] = call]
  <2>1. CASE Decide(c, op)
    <3> DEFINE items == IF op = "append" THEN Append(Snapshot.items, NewItem) ELSE <<>>
               index == IF op = "previous"
                        THEN CHOOSE i \in PreviousIndex(Snapshot) : TRUE ELSE 0
    <3>1. Snapshot \in Queues
      BY DEF Snapshot, TInv, StateTyped, PendingTyped, IsQueue
    <3>2. items \in Seq(Playables)
      <4>1. Snapshot.items \in Seq(Playables) /\ NewItem \in Playables
        BY <3>1 DEF Queues, Playables
      <4>2. <<>> \in Seq(Playables)
        OBVIOUS
      <4> QED
        BY <4>1, <4>2
    <3>3. index \in Int
      <4>1. op = "previous" => PreviousIndex(Snapshot) # {}
        BY <2>1 DEF Decide
      <4>2. \A x \in PreviousIndex(Snapshot) : x \in Int
        BY <3>1, RelativeTyped DEF PreviousIndex
      <4> QED
        BY <4>1, <4>2
    <3>4. caller' = [caller EXCEPT ![c] =
                       Request("decided", op, IF op \in Moving THEN Baseline ELSE None,
                               items, index)]
      BY <2>1 DEF Decide
    <3> HIDE DEF items, index
    <3> QED
      BY <3>2, <3>3, <3>4, NewCallTyped
  <2>2. CASE CallNow(c, op)
    <3>1. <<>> \in Seq(Playables) /\ 0 \in Int
      OBVIOUS
    <3> QED
      BY <2>2, <3>1, NewCallTyped DEF CallNow
  <2>3. CASE Call(c)
    <3>1. CASE caller[c].op = "append" /\ active # Self
      BY <2>3, <3>1, NewCallTyped DEF Call
    <3>2. CASE ~(caller[c].op = "append" /\ active # Self)
      <4>1. PICK generation :
              caller' = [caller EXCEPT ![c] =
                [caller[c] EXCEPT !.pc = "waiting", !.epoch = generation]]
        <5>1. caller' = [caller EXCEPT ![c].pc = "waiting",
                           ![c].epoch = IF caller[c].op \in Advances THEN epoch ELSE @]
          BY <2>3, <3>2 DEF Call
        <5> QED
          BY <5>1 DEF Shape, IsCall
      <4>2. CallTyped([caller[c] EXCEPT !.pc = "waiting", !.epoch = generation])
        BY <2>3 DEF Call, TInv, CallsTyped, CallTyped, Shape, IsCall
      <4> QED
        BY <4>1, <4>2
    <3> QED
      BY <3>1, <3>2
  <2>4. CASE GiveUp(c)
    BY <2>4, NewCallTyped, FailureTyped DEF GiveUp, TInv
  <2> QED
    BY <2>1, <2>2, <2>3, <2>4
<1>4. CallsTyped'
  BY <1>3, CallReplaced DEF TInv
<1>5. LockTyped'
  <2>1. waiters \in Seq(Callers) /\ holder' \in Callers \union {None}
    BY <1>1 DEF TInv, LockTyped
  <2>2. CASE Decide(c, op)
    BY <2>1, <2>2 DEF Decide, LockTyped
  <2>3. CASE CallNow(c, op) \/ Call(c)
    <3>1. waiters' = Append(waiters, c) \/ waiters' = waiters
      BY <2>3 DEF CallNow, Call
    <3> QED
      BY <2>1, <3>1 DEF LockTyped
  <2>4. CASE GiveUp(c)
    <3>1. waiters # <<>> /\ waiters' = Tail(waiters)
      BY <2>4 DEF GiveUp, AtLock
    <3> QED
      BY <2>1, <3>1 DEF LockTyped
  <2> QED
    BY <2>2, <2>3, <2>4
<1> QED
  BY <1>2, <1>4, <1>5 DEF TInv

-----------------------------------------------------------------------------
(* Sends                                                                     *)

\* Every edit leaves a status of the kind it started from, or a new one of ours.
LEMMA EditedStatus ==
  ASSUME TInv, NEW c \in Callers, caller[c].op \in Operations \ {"pause"}, NEW n \in Nat,
         NEW ps \in Edited(c, Version(Self, n))
  PROVE  ps.status \in Statuses
<1>1. PICK b, q, s : b = [queue |-> q, status |-> s] /\ s \in Statuses /\ b = Base
  <2>1. Base.status \in Statuses
    BY DEF Base, TInv, StateTyped, PendingTyped
  <2> QED
    BY <2>1 DEF Base
<1>2. /\ Beginning(Version(Self, n)) \in Statuses
      /\ Finished(Version(Self, n)) \in Statuses
  BY EndAssumption DEF Beginning, Finished, Version, Statuses
<1>3. ASSUME NEW natural PROVE Navigate(b, natural, Version(Self, n)).status \in Statuses
  BY <1>1, <1>2 DEF Navigate
<1>4. ASSUME NEW index PROVE SetIndex(b, index, Version(Self, n)).status \in Statuses
  BY <1>1, <1>2 DEF SetIndex
<1>5. ASSUME NEW items PROVE ReplaceItems(b, items).status \in Statuses
  BY <1>1 DEF ReplaceItems
<1>6. ASSUME NEW mode PROVE SetRepeat(b, mode).status \in Statuses
  BY <1>1 DEF SetRepeat
<1>7. ASSUME NEW enabled, NEW x \in SetShuffle(b, enabled) PROVE x.status \in Statuses
  <2>1. ASSUME NEW order PROVE ShuffleOn(b, order).status = s
    BY <1>1 DEF ShuffleOn
  <2>2. ShuffleOff(b).status = s
    BY <1>1 DEF ShuffleOff
  <2>3. x = ShuffleOff(b) \/ \E order : x = ShuffleOn(b, order)
    BY <1>7 DEF SetShuffle
  <2> QED
    BY <1>1, <2>1, <2>2, <2>3
<1>8. CASE caller[c].op \in Advances
  <2>1. Edited(c, Version(Self, n)) = {Navigate(Base, caller[c].op = "end", Version(Self, n))}
    <3>1. caller[c].op \notin {"previous", "append", "repeat", "shuffle"}
      BY <1>8 DEF Advances
    <3> QED
      BY <1>8, <3>1, Zenon DEF Edited
  <2> QED
    BY <1>1, <1>3, <2>1, Zenon
<1>9. CASE caller[c].op = "previous"
  BY <1>1, <1>4, <1>9 DEF Edited, Advances
<1>10. CASE caller[c].op = "append"
  BY <1>1, <1>5, <1>10 DEF Edited, Advances
<1>11. CASE caller[c].op = "repeat"
  BY <1>1, <1>6, <1>11 DEF Edited, Advances
<1>12. CASE caller[c].op = "shuffle"
  BY <1>1, <1>7, <1>12 DEF Edited, Advances
<1> QED
  BY <1>8, <1>9, <1>10, <1>11, <1>12 DEF Operations, Advances

\* And a queue.
LEMMA EditedQueue ==
  ASSUME TInv, NEW c \in Callers, caller[c].op \in Operations \ {"pause"},
         caller[c].pc = "waiting", NEW n \in Nat, NEW ps \in Edited(c, Version(Self, n))
  PROVE  ps.queue \in Queues
<1>1. PICK b : b = Base /\ IsBase(b)
  <2>1. Base.queue \in Queues
    BY DEF Base, Snapshot, TInv, StateTyped, PendingTyped, IsQueue
  <2> QED
    BY <2>1 DEF Base, IsBase
<1>2. caller[c].items \in Seq(Playables) /\ caller[c].index \in Int
  BY DEF TInv, CallsTyped, CallTyped
<1>3. CASE caller[c].op \in Advances
  <2>1. Edited(c, Version(Self, n)) = {Navigate(Base, caller[c].op = "end", Version(Self, n))}
    <3>1. caller[c].op \notin {"previous", "append", "repeat", "shuffle"}
      BY <1>3 DEF Advances
    <3> QED
      BY <1>3, <3>1, Zenon DEF Edited
  <2> QED
    BY <1>1, <2>1, NavigateTyped
<1>4. CASE caller[c].op = "previous"
  <2>1. Edited(c, Version(Self, n)) = {SetIndex(Base, caller[c].index, Version(Self, n))}
    BY <1>4 DEF Edited, Advances
  <2> QED
    BY <1>1, <1>2, <2>1, MovedTyped DEF SetIndex
<1>5. CASE caller[c].op = "append"
  BY <1>1, <1>2, <1>5, ReplaceTyped DEF Edited, Advances
<1>6. CASE caller[c].op = "repeat"
  <2>1. Edited(c, Version(Self, n)) = {SetRepeat(Base, m) : m \in Modes \ {Snapshot.repeat}}
    BY <1>6 DEF Edited, Advances
  <2> QED
    BY <1>1, <2>1, OptionTyped, ModesAssumption
<1>7. CASE caller[c].op = "shuffle"
  <2>1. Edited(c, Version(Self, n)) = SetShuffle(Base, ~Snapshot.shuffled)
    BY <1>7 DEF Edited, Advances
  <2> QED
    BY <1>1, <2>1, OptionTyped
<1> QED
  BY <1>3, <1>4, <1>5, <1>6, <1>7 DEF Operations, Advances

\* A queue under a version that was handed out is one of ours.
LEMMA OwnVersion ==
  ASSUME NEW q \in Queues, NEW n \in 0 .. MaxVersion
  PROVE  IsOwn(Versioned(q, Version(Self, n)))
<1>1. PICK v : v = Version(Self, n)
  OBVIOUS
<1>2. v \in [by : {Self, Peer}, number : Nat] /\ v.by = Self /\ v.number = n
  BY <1>1, BoundsAssumption DEF Version
<1>3. PICK r : r = Versioned(q, v)
  OBVIOUS
<1>4. r \in Queues /\ r.version = v
  BY <1>2, <1>3 DEF Versioned, Queues
<1> QED
  BY <1>1, <1>2, <1>3, <1>4 DEF IsOwn, IsQueue

\* An edit is published.
LEMMA PublishTInv == ASSUME TInv, IInv, NEW c \in Callers, Publish(c) PROVE TInv'
<1>1. /\ caller[c].pc = "waiting" /\ caller[c].op # "pause" /\ waiters # <<>>
      /\ clock' = clock + 1 /\ clock < MaxVersion /\ clock \in Nat
      /\ UNCHANGED <<stateVars, queueVars, link, inbox, server, foreign>>
      /\ waiters' = Tail(waiters) /\ holder' = c
  BY BoundsAssumption DEF Publish, AtLock, IInv, Counters
<1>2. clock' \in 0 .. MaxVersion /\ caller[c].op \in Operations \ {"pause"}
  BY <1>1, BoundsAssumption DEF TInv, CallsTyped, CallTyped
<1>3. PICK ps \in Edited(c, Version(Self, clock')) :
        LET sent == [queue |-> Versioned(ps.queue, Version(Self, clock')), status |-> ps.status]
            previous == IF Moves(c)
                        THEN [navVersion |-> navVersion, unadopted |-> unadopted,
                              navStatus |-> navStatus]
                        ELSE None
        IN /\ caller' = [d \in Callers |->
                IF d = c
                THEN [caller[c] EXCEPT !.pc = "sending", !.sent = sent, !.epoch = epoch,
                                       !.previous = previous]
                ELSE IF previous # None /\ caller[d].pc \in {"decided", "waiting"}
                THEN [caller[d] EXCEPT !.passed = @ \union {clock'}]
                ELSE caller[d]]
           /\ wire' = Append(wire, sent)
           /\ unadopted' \in {clock', unadopted}
           /\ navStatus' \in {sent.status, navStatus}
  BY DEF Publish, navVars
<1> DEFINE sent == [queue |-> Versioned(ps.queue, Version(Self, clock')), status |-> ps.status]
           previous == IF Moves(c)
                       THEN [navVersion |-> navVersion, unadopted |-> unadopted,
                             navStatus |-> navStatus]
                       ELSE None
<1>4. ps.status \in Statuses /\ IsOwn(Versioned(ps.queue, Version(Self, clock')))
  <2>1. clock' \in Nat
    BY <1>1
  <2> QED
    BY <1>1, <1>2, <1>3, <2>1, EditedStatus, EditedQueue, OwnVersion
<1>5. IsMessage(sent) /\ IsOwn(sent.queue) /\ sent.status \in Statuses
  BY <1>4 DEF IsMessage
<1>6. previous # None => IsPrevious(previous)
  BY BoundsAssumption DEF IsPrevious, IInv, Counters, TInv, PendingTyped
<1>7. /\ caller'[c] = [caller[c] EXCEPT !.pc = "sending", !.sent = sent, !.epoch = epoch,
                                        !.previous = previous]
      /\ \A d \in Callers \ {c} : caller'[d] \in {caller[d],
              [caller[d] EXCEPT !.passed = @ \union {clock'}]}
      /\ wire' = Append(wire, sent)
      /\ navStatus' \in {sent.status, navStatus}
  BY <1>3
<1> HIDE DEF sent, previous
<1>8. CallTyped(caller'[c])
  <2>1. IsCall(caller[c])
    BY DEF IInv, Shape
  <2> QED
    <3>1. caller[c].items \in Seq(Playables) /\ caller[c].index \in Int
      BY DEF TInv, CallsTyped, CallTyped
    <3>2. PICK r : r = [caller[c] EXCEPT !.pc = "sending", !.sent = sent, !.epoch = epoch,
                                         !.previous = previous]
      OBVIOUS
    <3>3. /\ r.pc = "sending" /\ r.op = caller[c].op /\ r.sent = sent /\ r.previous = previous
          /\ r.items = caller[c].items /\ r.index = caller[c].index
      BY <2>1, <3>2 DEF IsCall
    <3>4. CallTyped(r)
      BY <1>2, <1>5, <1>6, <3>1, <3>3 DEF CallTyped
    <3> QED
      BY <1>7, <3>2, <3>4
<1>9. ASSUME NEW d \in Callers \ {c} PROVE CallTyped(caller'[d])
  <2>1. IsCall(caller[d]) /\ CallTyped(caller[d])
    BY DEF IInv, Shape, TInv, CallsTyped
  <2>2. CASE caller'[d] = caller[d]
    BY <2>1, <2>2
  <2>3. CASE caller'[d] = [caller[d] EXCEPT !.passed = @ \union {clock'}]
    BY <2>1, <2>3 DEF CallTyped, IsCall
  <2> QED
    BY <1>7, <2>2, <2>3
<1>10. CallsTyped'
  BY <1>8, <1>9 DEF CallsTyped
<1>11. PendingTyped'
  <2>1. UNCHANGED <<pending, fresh, lastVersion, confirmed>>
    BY <1>1 DEF queueVars
  <2>2. unadopted' \in 0 .. MaxVersion /\ navStatus' \in Statuses \union {None}
    BY <1>2, <1>3, <1>5, <1>7 DEF TInv, PendingTyped
  <2> QED
    BY <2>1, <2>2 DEF TInv, PendingTyped
<1>12. Messages(wire')
  BY <1>5, <1>7, MessagesAppend DEF TInv, NetTyped
<1>13. NetTyped'
  BY <1>1, <1>12 DEF TInv, NetTyped
<1>14. StateTyped' /\ LockTyped'
  BY <1>1, SameState DEF TInv, LockTyped
<1> QED
  BY <1>10, <1>11, <1>13, <1>14 DEF TInv

\* A pause is reported.
LEMMA ReportTInv == ASSUME TInv, IInv, NEW c \in Callers, Report(c) PROVE TInv'
<1>1. /\ caller[c].pc = "waiting" /\ caller[c].op = "pause" /\ waiters # <<>>
      /\ UNCHANGED <<stateVars, queueVars, navVars, link, inbox, server, foreign>>
      /\ waiters' = Tail(waiters) /\ holder' = c
  BY DEF Report, AtLock
<1> DEFINE sent == [queue |-> None, status |-> [progress |-> status.progress, paused |-> TRUE,
                                                version |-> Normalised]]
<1>2. caller' = [caller EXCEPT ![c].pc = "sending", ![c].sent = sent] /\ wire' = Append(wire, sent)
  BY DEF Report
<1>3. sent.status \in Statuses /\ sent.queue = None
  BY DEF TInv, StateTyped, Statuses, Normalised, Version
<1> HIDE DEF sent
<1>4. IsMessage(sent)
  BY <1>3 DEF IsMessage
<1>5. \A d \in Callers : caller'[d] =
          IF d = c THEN [caller[c] EXCEPT !.pc = "sending", !.sent = sent] ELSE caller[d]
  BY <1>2 DEF IInv, Shape, IsCall
<1>6. CallTyped(caller'[c])
  <2>1. IsCall(caller[c]) /\ CallTyped(caller[c])
    BY DEF IInv, Shape, TInv, CallsTyped
  <2> QED
    BY <1>1, <1>3, <1>5, <2>1 DEF CallTyped, IsCall
<1>7. CallsTyped'
  BY <1>5, <1>6 DEF TInv, CallsTyped
<1>8. Messages(wire')
  BY <1>2, <1>4, MessagesAppend DEF TInv, NetTyped
<1>9. NetTyped'
  BY <1>1, <1>8 DEF TInv, NetTyped
<1>10. StateTyped' /\ PendingTyped' /\ LockTyped'
  BY <1>1, SameState, SamePending DEF TInv, LockTyped
<1> QED
  BY <1>7, <1>9, <1>10 DEF TInv

-----------------------------------------------------------------------------
(* The send returns                                                          *)

\* The lock is released and the call is over.
LEMMA FreeTyped ==
  ASSUME TInv, IInv, NEW c \in Callers, Free(c), UNCHANGED waiters PROVE CallsTyped' /\ LockTyped'
<1>1. CallsTyped'
  BY NewCallTyped, CallReplaced DEF Free, TInv, IInv
<1> QED
  BY <1>1 DEF Free, TInv, LockTyped

\* The edit becomes the pending base.
LEMMA SentTInv == ASSUME TInv, IInv, NEW c \in Callers, Sent(c) PROVE TInv'
<1>1. /\ holder = c /\ Free(c) /\ caller[c].op # "pause"
      /\ UNCHANGED <<stateVars, confirmed, navVars, waiters, netVars>>
  BY DEF Sent
<1>2. CallsTyped' /\ LockTyped'
  BY <1>1, FreeTyped
<1>3. IsOwn(caller[c].sent.queue) /\ caller[c].sent.queue.version.number \in 0 .. MaxVersion
  BY <1>1 DEF IInv, PerCaller, InFlight, TInv, CallsTyped, CallTyped, IsOwn, IsQueue
<1>4. /\ pending' \in {pending, caller[c].sent.queue}
      /\ fresh' = fresh \/ fresh' = TRUE
      /\ lastVersion' \in {lastVersion, caller[c].sent.queue.version.number}
  BY DEF Sent
<1>5. PendingTyped'
  <2>1. pending' # None => IsQueue(pending')
    BY <1>3, <1>4 DEF IsOwn, TInv, PendingTyped
  <2>2. fresh' \in BOOLEAN
    BY <1>4 DEF TInv, PendingTyped
  <2>3. lastVersion' \in 0 .. MaxVersion
    BY <1>3, <1>4 DEF TInv, PendingTyped
  <2>4. UNCHANGED <<confirmed, unadopted, navStatus>>
    BY <1>1 DEF navVars
  <2> QED
    BY <2>1, <2>2, <2>3, <2>4 DEF TInv, PendingTyped
<1>6. StateTyped' /\ NetTyped'
  BY <1>1, SameState, SameNet DEF TInv
<1> QED
  BY <1>2, <1>5, <1>6 DEF TInv

\* The position and pause of a report replace those of the navigation.
LEMMA ReportedTInv == ASSUME TInv, IInv, NEW c \in Callers, Reported(c) PROVE TInv'
<1>1. /\ holder = c /\ Free(c) /\ caller[c].op = "pause"
      /\ UNCHANGED <<queue, status, active, flags, queueVars, unadopted, waiters, netVars>>
  BY DEF Reported
<1>2. CallsTyped' /\ LockTyped'
  BY <1>1, FreeTyped
<1>3. caller[c].sent.status \in Statuses
  BY <1>1 DEF IInv, PerCaller, InFlight, TInv, CallsTyped, CallTyped
<1>4. navStatus' \in Statuses \union {None}
  <2>1. navStatus \in Statuses \union {None}
    BY DEF TInv, PendingTyped
  <2>2. navStatus' = navStatus \/
          /\ navStatus # None
          /\ navStatus' = [navStatus EXCEPT !.progress = caller[c].sent.status.progress,
                                            !.paused = caller[c].sent.status.paused]
    BY DEF Reported
  <2> QED
    BY <1>3, <2>1, <2>2 DEF Statuses
<1>5. StateTyped' /\ NetTyped'
  BY <1>1, SameNet DEF TInv, StateTyped, IsQueue
<1>6. PendingTyped'
  BY <1>1, <1>4 DEF TInv, PendingTyped, queueVars, IsQueue
<1> QED
  BY <1>2, <1>5, <1>6 DEF TInv

\* What the edit registered is put back, and the wire is cut.
LEMMA SendFailsTInv == ASSUME TInv, IInv, NEW c \in Callers, SendFails(c) PROVE TInv'
<1>1. /\ holder = c /\ holder' = None /\ link' = "broken" /\ wire' = <<>>
      /\ UNCHANGED <<stateVars, queueVars, waiters, inbox, server, foreign>>
  BY DEF SendFails
<1>2. /\ caller'[c] = AfterFailure(c)
      /\ \A d \in Callers \ {c} :
            \/ caller'[d] = caller[d]
            \/ caller'[d] = [caller[d] EXCEPT !.passed = @ \ {Number(c)}]
  BY DEF SendFails, Number
<1>3. CallTyped(caller'[c])
  BY <1>2, FailureTyped DEF TInv
<1>4. ASSUME NEW d \in Callers \ {c} PROVE CallTyped(caller'[d])
  <2>1. IsCall(caller[d]) /\ CallTyped(caller[d])
    BY DEF IInv, Shape, TInv, CallsTyped
  <2>2. CASE caller'[d] = [caller[d] EXCEPT !.passed = @ \ {Number(c)}]
    BY <2>1, <2>2 DEF CallTyped, IsCall
  <2> QED
    BY <1>2, <2>1, <2>2
<1>5. CallsTyped'
  BY <1>3, <1>4 DEF CallsTyped
<1>6. PendingTyped'
  <2>1. caller[c].previous # None => IsPrevious(caller[c].previous)
    BY DEF TInv, CallsTyped, CallTyped
  <2>2. unadopted' \in 0 .. MaxVersion /\ navStatus' \in Statuses \union {None}
    BY <2>1 DEF SendFails, navVars, IsPrevious, TInv, PendingTyped
  <2> QED
    BY <1>1, <2>2 DEF TInv, PendingTyped, queueVars, IsQueue
<1>7. NetTyped'
  <2>1. Messages(wire')
    BY <1>1, NothingSent
  <2> QED
    BY <1>1, <2>1 DEF TInv, NetTyped
<1>8. StateTyped' /\ LockTyped'
  BY <1>1, SameState DEF TInv, LockTyped
<1> QED
  BY <1>5, <1>6, <1>7, <1>8 DEF TInv

-----------------------------------------------------------------------------
(* Time and the connection                                                   *)

\* An edit or a mark grows old.
LEMMA TimeTInv == ASSUME TInv, PendingExpires \/ MarkExpires PROVE TInv'
<1>1. /\ UNCHANGED <<stateVars, netVars, navVars, caller, waiters, holder>>
      /\ UNCHANGED <<pending, lastVersion, confirmed>>
  BY DEF PendingExpires, MarkExpires, sendVars, queueVars
<1>2. fresh' = FALSE \/ fresh' = fresh
  BY DEF PendingExpires, MarkExpires, queueVars
<1>3. fresh' \in BOOLEAN
  BY <1>2 DEF TInv, PendingTyped
<1>4. PendingTyped'
  BY <1>1, <1>3 DEF TInv, PendingTyped, navVars, IsQueue
<1> QED
  BY <1>1, <1>4, SameState, SameNet DEF TInv, CallsTyped, CallTyped, LockTyped

\* The connection is lost, with what was on the wire.
LEMMA LosesTInv == ASSUME TInv, Loses PROVE TInv'
<1>1. /\ UNCHANGED <<stateVars, queueVars, navVars, caller, waiters, holder>>
      /\ UNCHANGED <<inbox, server, foreign>>
      /\ link' = "broken" /\ wire' = <<>>
  BY DEF Loses, sendVars
<1>2. Messages(wire')
  BY <1>1, NothingSent
<1>3. NetTyped'
  BY <1>1, <1>2 DEF TInv, NetTyped
<1> QED
  BY <1>1, <1>3, SameState, SamePending DEF TInv, CallsTyped, CallTyped, LockTyped

\* The state the server keeps makes a typed frame.
LEMMA ServerFrame ==
  ASSUME TInv
  PROVE  IsFrame(Frame(server.queue, server.status, server.active))
  BY DEF TInv, NetTyped, IsFrame, Frame

\* A new connection starts from the state the server kept.
LEMMA ReconnectsTInv == ASSUME TInv, Reconnects PROVE TInv'
<1>1. /\ UNCHANGED <<stateVars, confirmed, navStatus, caller, waiters, holder>>
      /\ UNCHANGED <<wire, server, foreign>>
      /\ link' = "up" /\ inbox' = <<Frame(server.queue, server.status, server.active)>>
      /\ pending' = None /\ lastVersion' = 0 /\ unadopted' = 0
  BY DEF Reconnects, ResetPendingQueue, sendVars
<1>2. fresh' \in BOOLEAN
  BY DEF Reconnects, ResetPendingQueue
<1>3. Frames(inbox')
  BY <1>1, ServerFrame, OneFrame
<1>4. NetTyped'
  BY <1>1, <1>3 DEF TInv, NetTyped
<1>5. PendingTyped'
  BY <1>1, <1>2, BoundsAssumption DEF TInv, PendingTyped
<1> QED
  BY <1>1, <1>4, <1>5, SameState DEF TInv, CallsTyped, CallTyped, LockTyped

-----------------------------------------------------------------------------
(* A frame is parsed                                                         *)

\* What the client takes from a frame, or keeps in spite of it, is typed.
LEMMA DeliverTInv == ASSUME TInv, IInv, Deliver PROVE TInv'
<1>1. PICK f : f = Head(inbox)
  OBVIOUS
<1>2. /\ ParseQueue(f) /\ ParseStatus(f)
      /\ caller' = [c \in Callers |-> Followed(c, Overtakes(f))]
      /\ inbox # <<>> /\ inbox' = Tail(inbox)
      /\ UNCHANGED <<waiters, holder, link, wire, server, foreign>>
  BY <1>1 DEF Deliver
<1>3. IsFrame(f) /\ Frames(inbox')
  BY <1>1, <1>2, FramesTail DEF TInv, NetTyped
<1>4. IsQueue(queue')
  <2>1. queue' = queue \/ (HasQueue(f) /\ queue' = f.queue)
    BY <1>2 DEF ParseQueue
  <2> QED
    BY <1>3, <2>1 DEF TInv, StateTyped, IsFrame, HasQueue, IsQueue
<1>5. status' \in Statuses /\ navStatus' \in Statuses \union {None}
  <2>1. /\ status \in Statuses /\ navStatus \in Statuses \union {None}
        /\ TakesStatus(f) => f.status \in Statuses
    BY <1>3 DEF TInv, StateTyped, PendingTyped, IsFrame, TakesStatus
  <2>2. \/ TakesStatus(f) /\ status' = f.status
        \/ navStatus # None /\ status' = navStatus
        \/ status' = status
    BY <1>2 DEF ParseStatus, TakesStatus
  <2>3. navStatus' \in {None, navStatus}
    BY <1>2 DEF ParseStatus
  <2> QED
    BY <2>1, <2>2, <2>3
<1>6. active' \in {Self, Peer, None}
  BY <1>2, <1>3 DEF ParseStatus, ActiveAfter, IsFrame, TInv, StateTyped
<1>7. flags' \in [navigated : BOOLEAN, kept : BOOLEAN, relay : BOOLEAN, echo : BOOLEAN]
  <2>1. PICK navigated \in BOOLEAN, kept \in BOOLEAN, relay \in BOOLEAN, echo \in BOOLEAN :
          flags' = [navigated |-> navigated, kept |-> kept, relay |-> relay, echo |-> echo]
    <3>1. Navigated(f) \in BOOLEAN /\ Kept(f) \in BOOLEAN /\ Relays(f) \in BOOLEAN
      BY DEF Navigated, Kept, Relays
    <3>2. (FullyOurs(f) \/ HeartbeatEcho(f)) \in BOOLEAN
      OBVIOUS
    <3>3. flags' = [navigated |-> Navigated(f), kept |-> Kept(f), relay |-> Relays(f),
                    echo |-> FullyOurs(f) \/ HeartbeatEcho(f)]
      BY <1>2 DEF ParseStatus
    <3> QED
      BY <3>1, <3>2, <3>3, Zenon
  <2> QED
    BY <2>1
<1>8. StateTyped'
  BY <1>4, <1>5, <1>6, <1>7 DEF StateTyped
<1>9. confirmed' \in 0 .. MaxVersion
  <2>1. Adopts(f) => f.queue.version.number \in 0 .. MaxVersion
    BY <1>3 DEF Adopts, OwnQueue, HasQueue, IsFrame, IsQueue
  <2> QED
    BY <1>2, <2>1 DEF ParseQueue, Most, TInv, PendingTyped
<1>10. fresh' \in BOOLEAN
  BY <1>2 DEF ParseQueue, TInv, PendingTyped
<1>11. PendingTyped'
  <2>1. /\ pending' \in {pending, None} /\ lastVersion' \in {lastVersion, 0}
        /\ unadopted' \in {unadopted, 0}
    BY <1>2 DEF ParseQueue
  <2> QED
    BY <1>5, <1>9, <1>10, <2>1, BoundsAssumption DEF TInv, PendingTyped, IsQueue
<1>12. ASSUME NEW c \in Callers PROVE CallTyped(caller'[c])
  <2>1. IsCall(caller[c]) /\ CallTyped(caller[c]) /\ caller'[c] = Followed(c, Overtakes(f))
    BY <1>2 DEF IInv, Shape, TInv, CallsTyped
  <2>2. PICK what : \/ caller'[c] = caller[c]
                    \/ caller'[c] = [caller[c] EXCEPT !.overtaken = @ \union what]
                    \/ caller'[c] = [caller[c] EXCEPT !.meanwhile = @ \union what]
    BY <2>1 DEF Followed
  <2>3. CASE caller'[c] = caller[c]
    BY <2>1, <2>3
  <2>4. CASE caller'[c] = [caller[c] EXCEPT !.overtaken = @ \union what]
    BY <2>1, <2>4 DEF CallTyped, IsCall
  <2>5. CASE caller'[c] = [caller[c] EXCEPT !.meanwhile = @ \union what]
    BY <2>1, <2>5 DEF CallTyped, IsCall
  <2> QED
    BY <2>2, <2>3, <2>4, <2>5
<1>13. CallsTyped'
  BY <1>12 DEF CallsTyped
<1>14. LockTyped' /\ NetTyped'
  BY <1>2, <1>3 DEF TInv, LockTyped, NetTyped
<1> QED
  BY <1>8, <1>11, <1>13, <1>14 DEF TInv

-----------------------------------------------------------------------------
(* The server and the other devices                                          *)

\* A peer's version is not taken for ours: the device ids are distinct.
LEMMA PeerIsAnother == Self # Peer
<1> SUFFICES ASSUME Self = Peer PROVE FALSE
  OBVIOUS
<1> DEFINE Four == {} \union {Nobody} \union {Sentinel} \union {None} \union {Absent}
<1>1. IsFiniteSet({}) /\ Cardinality({}) = 0
  BY FS_EmptySet
<1>2. IsFiniteSet({} \union {Nobody}) /\ Cardinality({} \union {Nobody}) = 1
  BY <1>1, FS_AddElement
<1>3. /\ IsFiniteSet({} \union {Nobody} \union {Sentinel})
      /\ Cardinality({} \union {Nobody} \union {Sentinel}) \in {1, 2}
  BY <1>2, FS_AddElement
<1>4. /\ IsFiniteSet({} \union {Nobody} \union {Sentinel} \union {None})
      /\ Cardinality({} \union {Nobody} \union {Sentinel} \union {None}) \in {1, 2, 3}
  BY <1>3, FS_AddElement
<1>5. IsFiniteSet(Four) /\ Cardinality(Four) \in {1, 2, 3, 4}
  BY <1>4, FS_AddElement
<1> HIDE DEF Four
<1>6. Cardinality(Four \union {Peer}) \in {1, 2, 3, 4, 5}
  BY <1>5, FS_AddElement
<1>7. {Self, Peer, Nobody, Sentinel, None, Absent} = Four \union {Peer}
  BY DEF Four
<1> QED
  BY <1>6, <1>7, DistinctAssumption

\* What the server and the other devices do to this client: frames arrive, and the
\* state they come from is of the kind the server keeps.
LEMMA ArrivalTInv ==
  ASSUME TInv, NEW frames, Frames(frames), Broadcast(frames),
         UNCHANGED <<stateVars, queueVars, navVars, sendVars, link>>,
         foreign' \in Nat, Messages(wire'),
         server' = [queue |-> server'.queue, status |-> server'.status,
                    active |-> server'.active],
         IsQueue(server'.queue), server'.status \in Statuses,
         server'.active \in {Self, Peer, None}
  PROVE  TInv'
<1>1. Frames(inbox')
  BY FramesJoin DEF Broadcast, TInv, NetTyped
<1>2. NetTyped'
  BY <1>1 DEF TInv, NetTyped, IsQueue
<1>3. CallsTyped' /\ LockTyped'
  BY DEF sendVars, TInv, CallsTyped, CallTyped, LockTyped
<1> QED
  BY <1>2, <1>3, SameState, SamePending DEF TInv

\* A message becomes the state of the server and its echo a frame.
LEMMA ServerTakesTInv == ASSUME TInv, ServerTakes PROVE TInv'
<1>1. PICK m : m = Head(wire)
  OBVIOUS
<1>2. /\ wire # <<>> /\ wire' = Tail(wire)
      /\ UNCHANGED <<stateVars, queueVars, navVars, sendVars, link, foreign>>
  BY DEF ServerTakes
<1>3. Messages(wire') /\ IsMessage(m)
  BY <1>1, <1>2, MessagesTail DEF TInv, NetTyped
<1>4. m.status \in Statuses /\ (m.queue # None => IsQueue(m.queue))
  BY <1>3 DEF IsMessage, IsOwn
<1>5. /\ server = [queue |-> server.queue, status |-> server.status, active |-> server.active]
      /\ IsQueue(server.queue) /\ server.active \in {Self, Peer, None} /\ foreign \in Nat
  BY DEF TInv, NetTyped
<1>6. PICK q \in {server.queue, m.queue} :
        /\ server' = [queue |-> q, status |-> m.status, active |-> server.active]
        /\ q = m.queue => m.queue # None \/ q = server.queue
  <2>1. server' = [server EXCEPT !.queue = IF m.queue = None THEN @ ELSE m.queue,
                                 !.status = m.status]
    BY <1>1 DEF ServerTakes
  <2> QED
    BY <1>5, <2>1
<1>7. IsQueue(server'.queue)
  BY <1>4, <1>5, <1>6
<1>8. PICK frames : Broadcast(frames) /\ Frames(frames)
  <2>1. PICK frames :
          /\ Broadcast(frames)
          /\ \/ frames = <<Frame(Absent, m.status, Absent)>>
             \/ frames = <<Frame(server.queue, m.status, server.active)>>
             \/ m.queue # None /\ frames = <<Frame(m.queue, m.status, server.active)>>
             \/ m.queue # None /\ frames = <<Frame(m.queue, Absent, Absent)>>
             \/ frames = <<>>
    BY <1>1 DEF ServerTakes
  <2>2. /\ IsFrame(Frame(Absent, m.status, Absent))
        /\ IsFrame(Frame(server.queue, m.status, server.active))
        /\ m.queue # None => /\ IsFrame(Frame(m.queue, m.status, server.active))
                             /\ IsFrame(Frame(m.queue, Absent, Absent))
    BY <1>4, <1>5 DEF IsFrame, Frame
  <2> QED
    BY <2>1, <2>2, OneFrame, NothingSent
<1> QED
  BY <1>2, <1>3, <1>4, <1>5, <1>6, <1>7, <1>8, ArrivalTInv

\* A peer acts: one frame arrives.
LEMMA ForeignTInv ==
  ASSUME TInv, NEW act, Foreign(act), NEW frame, IsFrame(frame), Broadcast(<<frame>>),
         server' = [queue |-> server'.queue, status |-> server'.status,
                    active |-> server'.active],
         IsQueue(server'.queue), server'.status \in Statuses,
         server'.active \in {Self, Peer, None}
  PROVE  TInv'
<1>1. /\ UNCHANGED <<stateVars, queueVars, navVars, sendVars, link, wire>>
      /\ foreign' = foreign + 1
  BY DEF Foreign
<1>2. foreign' \in Nat /\ Messages(wire')
  BY <1>1 DEF TInv, NetTyped
<1>3. Frames(<<frame>>)
  BY OneFrame
<1> QED
  BY <1>1, <1>2, <1>3, ArrivalTInv

\* What a peer writes: a queue, a status, or both, under its own version.
LEMMA PeerWrites ==
  ASSUME TInv, NEW act, Foreign(act)
  PROVE  LET version == Version(Peer, foreign')
         IN /\ \A q \in PeerQueues : IsQueue(Versioned(q, version))
            /\ \A m \in RepeatModes :
                  IsQueue([server.queue EXCEPT !.repeat = m, !.version = version])
            /\ IsQueue([server.queue EXCEPT !.version = version])
            /\ Beginning(version) \in Statuses
            /\ \A progress \in {0, 1}, paused \in BOOLEAN :
                  [progress |-> progress, paused |-> paused, version |-> version] \in Statuses
            /\ [server.status EXCEPT !.paused = TRUE,
                                     !.version = Version(Sentinel, foreign')] \in Statuses
<1>1. foreign' \in Nat /\ IsQueue(server.queue) /\ server.status \in Statuses
  BY DEF Foreign, TInv, NetTyped
<1> DEFINE version == Version(Peer, foreign')
<1>2. version.by = Peer /\ version.by # Self /\ version.number \in Nat /\ 0 \in 0 .. End
      /\ version \in [by : {Self, Peer, Nobody, Sentinel}, number : Nat]
  BY <1>1, PeerIsAnother, EndAssumption DEF Version
<1> HIDE DEF version
<1>3. ASSUME NEW q \in PeerQueues PROVE IsQueue(Versioned(q, version))
  <2>1. PICK p \in Queues : p = Versioned(q, Version(Peer, 0))
    BY QueuesAssumption
  <2>2. Versioned(q, version) = [p EXCEPT !.version = version]
    BY <2>1 DEF Versioned
  <2>3. [p EXCEPT !.version = version] \in Queues
    BY <1>2 DEF Queues
  <2> QED
    BY <1>2, <2>2, <2>3 DEF IsQueue, Queues
<1>4. ASSUME NEW m \in RepeatModes
      PROVE  IsQueue([server.queue EXCEPT !.repeat = m, !.version = version])
  <2>1. PICK q \in Queues : q = server.queue
    BY <1>1 DEF IsQueue
  <2>2. PICK r : r = [q EXCEPT !.repeat = m, !.version = version]
    OBVIOUS
  <2>3. r \in Queues /\ r.version = version
    BY <1>2, <2>2 DEF Queues
  <2> QED
    BY <1>2, <2>1, <2>2, <2>3 DEF IsQueue
<1>5. IsQueue([server.queue EXCEPT !.version = version])
  <2>1. PICK q \in Queues : q = server.queue
    BY <1>1 DEF IsQueue
  <2>2. PICK r : r = [q EXCEPT !.version = version]
    OBVIOUS
  <2>3. r \in Queues /\ r.version = version
    BY <1>2, <2>2 DEF Queues
  <2> QED
    BY <1>2, <2>1, <2>2, <2>3 DEF IsQueue
<1>6. Beginning(version) \in Statuses
  BY <1>2 DEF Beginning, Statuses
<1>7. ASSUME NEW progress \in {0, 1}, NEW paused \in BOOLEAN
      PROVE  [progress |-> progress, paused |-> paused, version |-> version] \in Statuses
  <2>1. progress \in 0 .. End
    BY EndAssumption
  <2> QED
    BY <1>2, <2>1 DEF Statuses
<1>8. [server.status EXCEPT !.paused = TRUE, !.version = Version(Sentinel, foreign')] \in Statuses
  BY <1>1 DEF Statuses, Version
<1> QED
  BY <1>3, <1>4, <1>5, <1>6, <1>7, <1>8 DEF version

\* Each act of a peer writes a typed state and a typed frame.
LEMMA PeerTInv ==
  ASSUME TInv,
         PeerPlays \/ PeerEditsOptions \/ PeerCommands \/ PeerTakesOver \/ PeerHandsBack \/ Relay
  PROVE  TInv'
<1>1. /\ server = [queue |-> server.queue, status |-> server.status, active |-> server.active]
      /\ IsQueue(server.queue) /\ server.status \in Statuses
      /\ server.active \in {Self, Peer, None}
  BY DEF TInv, NetTyped
<1>2. PICK act : Foreign(act)
  BY DEF PeerPlays, PeerEditsOptions, PeerCommands, PeerTakesOver, PeerHandsBack, Relay
<1> SUFFICES \E frame :
       /\ IsFrame(frame) /\ Broadcast(<<frame>>)
       /\ server' = [queue |-> server'.queue, status |-> server'.status,
                     active |-> server'.active]
       /\ IsQueue(server'.queue) /\ server'.status \in Statuses
       /\ server'.active \in {Self, Peer, None}
  BY <1>2, ForeignTInv
<1> DEFINE version == Version(Peer, foreign')
<1>3. CASE PeerPlays
  <2>1. PICK q \in PeerQueues :
                 /\ server' = [server EXCEPT !.queue = Versioned(q, version),
                                             !.status = Beginning(version)]
                 /\ Broadcast(<<Frame(Versioned(q, version), Beginning(version), server.active)>>)
    BY <1>3 DEF PeerPlays
  <2>2. IsQueue(Versioned(q, version)) /\ Beginning(version) \in Statuses
    BY <1>2, PeerWrites
  <2> HIDE DEF version
  <2>3. IsFrame(Frame(Versioned(q, version), Beginning(version), server.active))
    BY <1>1, <2>2 DEF IsFrame, Frame
  <2> QED
    BY <1>1, <2>1, <2>2, <2>3
<1>4. CASE PeerEditsOptions
  <2>1. PICK new, s :
          /\ IsQueue(new) /\ s \in {Absent, server.status}
          /\ server' = [server EXCEPT !.queue = new]
          /\ Broadcast(<<Frame(new, s, server.active)>>)
    <3>1. PICK m \in RepeatModes, s \in {Absent, server.status} :
            LET new == [server.queue EXCEPT !.repeat = m, !.version = version]
            IN /\ server' = [server EXCEPT !.queue = new]
               /\ Broadcast(<<Frame(new, s, server.active)>>)
      BY <1>4, ModesAssumption DEF PeerEditsOptions
    <3>2. IsQueue([server.queue EXCEPT !.repeat = m, !.version = version])
      BY <1>2, PeerWrites
    <3> HIDE DEF version
    <3> QED
      BY <3>1, <3>2
  <2>2. IsFrame(Frame(new, s, server.active))
    BY <1>1, <2>1 DEF IsFrame, Frame
  <2> QED
    BY <1>1, <2>1, <2>2
<1>5. CASE PeerCommands
  <2>1. PICK new \in Statuses, q \in {Absent, server.queue} :
          /\ server' = [server EXCEPT !.status = new]
          /\ Broadcast(<<Frame(q, new, server.active)>>)
    BY <1>2, <1>5, PeerWrites DEF PeerCommands
  <2>2. IsFrame(Frame(q, new, server.active))
    BY <1>1, <2>1 DEF IsFrame, Frame
  <2> QED
    BY <1>1, <2>1, <2>2
<1>6. CASE PeerTakesOver
  <2>1. PICK paused \in Statuses :
          \/ /\ server' = [server EXCEPT !.active = None, !.status = paused]
             /\ Broadcast(<<Frame(Absent, paused, Absent)>>)
          \/ /\ server' = [server EXCEPT !.active = Peer]
             /\ Broadcast(<<Frame(Absent, Absent, Peer)>>)
    BY <1>2, <1>6, PeerWrites DEF PeerTakesOver
  <2>2. IsFrame(Frame(Absent, paused, Absent)) /\ IsFrame(Frame(Absent, Absent, Peer))
    BY DEF IsFrame, Frame
  <2> QED
    BY <1>1, <2>1, <2>2
<1>7. CASE PeerHandsBack
  <2>1. PICK new, s :
          /\ IsQueue(new) /\ s \in Statuses
          /\ server' = [queue |-> new, status |-> s, active |-> Self]
          /\ Broadcast(<<Frame(new, s, Self)>>)
    <3>1. LET new == [server.queue EXCEPT !.version = version]
          IN /\ server' = [queue |-> new, status |-> Beginning(version), active |-> Self]
             /\ Broadcast(<<Frame(new, Beginning(version), Self)>>)
      BY <1>7 DEF PeerHandsBack
    <3>2. /\ IsQueue([server.queue EXCEPT !.version = version])
          /\ Beginning(version) \in Statuses
      BY <1>2, PeerWrites
    <3> HIDE DEF version
    <3> QED
      BY <3>1, <3>2
  <2>2. IsFrame(Frame(new, s, Self))
    BY <2>1 DEF IsFrame, Frame
  <2> QED
    BY <2>1, <2>2
<1>8. CASE Relay
  BY <1>1, <1>8, ServerFrame DEF Relay
<1> QED
  BY <1>3, <1>4, <1>5, <1>6, <1>7, <1>8

-----------------------------------------------------------------------------
\* Every step keeps the type invariant.
LEMMA NextTInv == TInv /\ IInv /\ [Next]_vars => TInv'
<1> SUFFICES ASSUME TInv, IInv, [Next]_vars PROVE TInv'
  OBVIOUS
<1>1. ASSUME NEW c \in Callers, Caller(c) PROVE TInv'
  <2>1. CASE \E op \in Ops[c] : Decide(c, op) \/ CallNow(c, op)
    <3>1. PICK op \in Operations : Decide(c, op) \/ CallNow(c, op)
      BY <2>1, OpsAssumption
    <3> QED
      BY <3>1, CallerMovesTInv DEF IInv
  <2>2. CASE Call(c) \/ GiveUp(c)
    <3>1. "next" \in Operations
      BY DEF Operations
    <3> QED
      BY <2>2, <3>1, CallerMovesTInv DEF IInv
  <2>3. CASE Publish(c) \/ Report(c)
    BY <2>3, PublishTInv, ReportTInv
  <2>4. CASE Sent(c) \/ Reported(c) \/ SendFails(c)
    BY <2>4, SentTInv, ReportedTInv, SendFailsTInv
  <2> QED
    BY <1>1, <2>1, <2>2, <2>3, <2>4 DEF Caller
<1>2. CASE Deliver
  BY <1>2, DeliverTInv
<1>3. CASE PendingExpires \/ MarkExpires
  BY <1>3, TimeTInv
<1>4. CASE Loses \/ Reconnects
  BY <1>4, LosesTInv, ReconnectsTInv
<1>5. CASE Environment
  BY <1>5, ServerTakesTInv, PeerTInv DEF Environment
<1>6. CASE UNCHANGED vars
  <2>1. /\ UNCHANGED <<stateVars, queueVars, navVars, netVars>>
        /\ UNCHANGED <<caller, waiters, holder>>
    BY <1>6 DEF vars, sendVars
  <2> QED
    BY <2>1, SameState, SamePending, SameNet DEF TInv, CallsTyped, CallTyped, LockTyped
<1> QED
  BY <1>1, <1>2, <1>3, <1>4, <1>5, <1>6 DEF Next

\* Whatever the frames, the calls and the losses, the client's fields hold what the
\* code can put there: no version it did not hand out is taken for its own, no device
\* but a real one for the active one, and no status is built of parts of two kinds.
THEOREM TypeCorrect == Spec => []TypeOK
<1>1. TInv /\ IInv => TypeOK
  <2> SUFFICES ASSUME TInv, IInv PROVE TypeOK
    OBVIOUS
  <2>1. {lastVersion, confirmed, navVersion, unadopted, clock} \subseteq 0 .. MaxVersion
    BY BoundsAssumption DEF TInv, PendingTyped, IInv, Counters
  <2>2. epoch \in Nat /\ lineage \in Nat /\ revision \in Nat
    BY DEF IInv, Counters
  <2>3. \A c \in Callers : caller[c].pc \in {"idle", "decided", "waiting", "sending"}
    BY DEF TInv, CallsTyped, CallTyped
  <2>4. fresh \in BOOLEAN
    BY DEF TInv, PendingTyped
  <2>5. /\ queue.version.by \in {Self, Peer} /\ status \in Statuses
        /\ active \in {Self, Peer, None} /\ navStatus \in Statuses \union {None}
        /\ waiters \in Seq(Callers) /\ holder \in Callers \union {None}
        /\ link \in {"up", "broken"}
        /\ flags \in [navigated : BOOLEAN, kept : BOOLEAN, relay : BOOLEAN, echo : BOOLEAN]
    BY DEF TInv, StateTyped, PendingTyped, LockTyped, NetTyped, IsQueue, Queues
  <2> QED
    BY <2>1, <2>2, <2>3, <2>4, <2>5, Zenon DEF TypeOK
<1>2. Spec => []TInv
  BY InitTInv, NextTInv, Invariance, PTL DEF Spec
<1> QED
  BY <1>1, <1>2, Invariance, PTL
=============================================================================
