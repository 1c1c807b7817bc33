--------------------------- MODULE QueueEchoProofs ---------------------------
(***************************************************************************)
(* What echoes settle, for every value of the constants: the queue adopted *)
(* here becomes the one the server keeps, a navigation that a stream waits *)
(* for is confirmed, and each navigation is announced at most once.        *)
(*                                                                         *)
(* The argument rests on the order of our own versions: they grow with the *)
(* edits, messages and frames keep their order, and what is read or stored *)
(* is older than what is still on its way.                                 *)
(***************************************************************************)
EXTENDS QueueNavigationProofs

\* The elements of a sequence.
Elems(s) == {s[i] : i \in 1 .. Len(s)}
IsSeq(s) == \E S : s \in Seq(S)

Wrote(m) == m.queue # None
Num(m) == m.queue.version.number
Below(q, n) == q.version.by = Self => q.version.number < n

\* Edits are sent in the order of their numbers.
InOrder(s) ==
    \A i, j \in 1 .. Len(s) :
       i < j /\ Wrote(s[i]) /\ Wrote(s[j]) => Num(s[i]) < Num(s[j])

\* What is stored or shown of our edits is older than what is on the wire; if an edit is
\* on the wire, the newest one is.
Ordered ==
    /\ history.owed \subseteq 1 .. clock
    /\ Below(server.queue, clock + 1)
    /\ \A f \in Elems(inbox) : HasQueue(f) => Below(f.queue, clock + 1)
    /\ \A m \in Elems(wire) : Wrote(m) =>
         /\ Num(m) <= clock /\ Below(server.queue, Num(m))
         /\ \A f \in Elems(inbox) : HasQueue(f) => Below(f.queue, Num(m))
    /\ InOrder(wire)
    /\ (\E m \in Elems(wire) : Wrote(m)) => \E m \in Elems(wire) : Wrote(m) /\ Num(m) = clock

OnWire(n) == \E m \in Elems(wire) : Wrote(m) /\ n <= Num(m)

\* The server has own edit n, a later one, or another device's; or it is still to come.
Stored(n) ==
    server.queue.version.by # Self \/ n <= server.queue.version.number \/ OnWire(n)

\* This client knows, will read, or will be sent, that n was taken.
Answered(n) ==
    \/ n <= confirmed
    \/ \E f \in Elems(inbox) : OwnQueue(f) /\ n <= f.queue.version.number
    \/ OnWire(n)

Holds(c) == holder = c /\ caller[c].op # "pause"

Reaches == link = "up" =>
    /\ Stored(lastVersion) /\ Answered(lastVersion)
    /\ \A c \in Callers : Holds(c) => Stored(Number(c)) /\ Answered(Number(c))

\* What is read last is what the server keeps.
Converging == link = "up" /\ (\A m \in Elems(wire) : ~Wrote(m)) =>
    /\ \A k \in 1 .. Len(inbox) :
         HasQueue(inbox[k]) /\ (\A j \in k + 1 .. Len(inbox) : ~HasQueue(inbox[j]))
           => inbox[k].queue = server.queue
    /\ (\A f \in Elems(inbox) : ~HasQueue(f)) => queue = server.queue

\* A navigation remembers an older one, and replaces it while it is sent.
Registered == \A c \in Callers :
    /\ caller[c].pc # "idle" /\ caller[c].op \in Moving =>
         caller[c].baseline.navigation \in 0 .. clock
    /\ holder = c /\ caller[c].previous # None =>
         /\ caller[c].op \in Moving
         /\ navVersion = Number(c) /\ caller[c].baseline.navigation < Number(c)
         /\ caller[c].previous.unadopted < Number(c)

\* What a stream waits for is behind the navigation that will be confirmed.
Awaiting == link = "up" /\ history.following # None =>
    /\ history.following.navigation \in Nat /\ history.following.navigation < navVersion
    /\ Answered(navVersion)

\* A navigation that waits for its echo was not announced; nor was the one before it, as
\* long as the send can fail.
Owed ==
    /\ unadopted # 0 => unadopted \in history.owed
    /\ \A c \in Callers :
         holder = c /\ caller[c].previous # None /\ caller[c].sent \in Elems(wire) =>
           /\ unadopted \in {0, Number(c)}
           /\ caller[c].previous.unadopted # 0 => caller[c].previous.unadopted \in history.owed

EchoInv == Ordered /\ Reaches /\ Converging /\ Registered /\ Awaiting /\ Owed

\* What the other invariants say of every state.
Sound == TInv /\ IInv

-----------------------------------------------------------------------------
(* Sequences and their elements                                              *)

\* One element is added at the end ...
LEMMA ElemsAppend ==
  ASSUME NEW s, IsSeq(s), NEW x
  PROVE  /\ IsSeq(Append(s, x)) /\ Elems(Append(s, x)) = Elems(s) \union {x}
         /\ Len(s) \in Nat /\ Len(Append(s, x)) = Len(s) + 1
         /\ Append(s, x)[Len(s) + 1] = x
         /\ \A i \in 1 .. Len(s) : Append(s, x)[i] = s[i]
<1>1. PICK S : s \in Seq(S)
  BY DEF IsSeq
<1>2. s \in Seq(S \union {x})
  BY <1>1, SeqGrows
<1>3. /\ Append(s, x) \in Seq(S \union {x})
      /\ Len(s) \in Nat /\ Len(Append(s, x)) = Len(s) + 1
      /\ Append(s, x)[Len(s) + 1] = x
      /\ \A i \in 1 .. Len(s) : Append(s, x)[i] = s[i]
  BY <1>2
<1>4. Elems(Append(s, x)) = Elems(s) \union {x}
  BY <1>3 DEF Elems
<1> QED
  BY <1>3, <1>4 DEF IsSeq

\* ... or taken from the front.
LEMMA ElemsTail ==
  ASSUME NEW s, IsSeq(s), s # <<>>
  PROVE  /\ IsSeq(Tail(s)) /\ Elems(s) = Elems(Tail(s)) \union {Head(s)}
         /\ Len(s) \in Nat \ {0} /\ Len(Tail(s)) = Len(s) - 1 /\ Head(s) = s[1]
         /\ \A i \in 1 .. Len(s) - 1 : Tail(s)[i] = s[i + 1]
<1>1. PICK S : s \in Seq(S)
  BY DEF IsSeq
<1>2. /\ Tail(s) \in Seq(S) /\ Len(s) \in Nat \ {0} /\ Len(Tail(s)) = Len(s) - 1
      /\ Head(s) = s[1] /\ \A i \in 1 .. Len(s) - 1 : Tail(s)[i] = s[i + 1]
  BY <1>1
<1>3. ASSUME NEW x \in Elems(s) PROVE x \in Elems(Tail(s)) \union {Head(s)}
  <2>1. PICK i \in 1 .. Len(s) : x = s[i]
    BY DEF Elems
  <2>2. CASE i = 1
    BY <1>2, <2>1, <2>2
  <2>3. CASE i # 1
    <3>1. i - 1 \in 1 .. Len(s) - 1 /\ (i - 1) + 1 = i
      BY <1>2, <2>3
    <3>2. Tail(s)[i - 1] = x
      BY <1>2, <2>1, <3>1
    <3> QED
      BY <1>2, <3>1, <3>2 DEF Elems
  <2> QED
    BY <2>2, <2>3
<1>4. ASSUME NEW x \in Elems(Tail(s)) \union {Head(s)} PROVE x \in Elems(s)
  <2>1. CASE x = Head(s)
    BY <1>2, <2>1 DEF Elems
  <2>2. CASE x \in Elems(Tail(s))
    <3>1. PICK i \in 1 .. Len(s) - 1 : x = Tail(s)[i]
      BY <1>2, <2>2 DEF Elems
    <3>2. i + 1 \in 1 .. Len(s) /\ x = s[i + 1]
      BY <1>2, <3>1
    <3> QED
      BY <3>2 DEF Elems
  <2> QED
    BY <1>4, <2>1, <2>2
<1> QED
  BY <1>2, <1>3, <1>4 DEF IsSeq

\* Nothing is an element of the empty sequence ...
LEMMA ElemsNone == IsSeq(<<>>) /\ Elems(<<>>) = {} /\ Len(<<>>) = 0
<1>1. <<>> \in Seq({}) /\ Len(<<>>) = 0
  OBVIOUS
<1>2. Elems(<<>>) = {}
  BY <1>1 DEF Elems
<1> QED
  BY <1>1, <1>2 DEF IsSeq

\* ... and one thing of a sequence of one.
LEMMA ElemsOne ==
  ASSUME NEW x
  PROVE  IsSeq(<<x>>) /\ Elems(<<x>>) = {x} /\ Len(<<x>>) = 1 /\ <<x>>[1] = x
<1>1. <<x>> \in Seq({x}) /\ Len(<<x>>) = 1 /\ <<x>>[1] = x
  OBVIOUS
<1>2. Elems(<<x>>) = {x}
  BY <1>1 DEF Elems
<1> QED
  BY <1>1, <1>2 DEF IsSeq

-----------------------------------------------------------------------------
(* What the types say of messages and frames                                 *)

\* A queue is neither None nor a missing key, and its version a number.
LEMMA QueuesAre ==
  ASSUME NEW q, IsQueue(q)
  PROVE  q # None /\ q # Absent /\ q.version.number \in Nat /\ q.version.by \in {Self, Peer}
  BY QueuesAssumption DEF IsQueue, Queues

\* Messages, frames and edits in flight carry queues of that kind.
LEMMA Kinds ==
  ASSUME Sound
  PROVE  /\ IsSeq(wire) /\ IsSeq(inbox)
         /\ \A m \in Elems(wire) : Wrote(m) => IsQueue(m.queue) /\ Num(m) \in Nat
                                                /\ m.queue.version.by = Self
         /\ \A f \in Elems(inbox) : HasQueue(f) => IsQueue(f.queue)
                                                    /\ f.queue.version.number \in Nat
         /\ IsQueue(server.queue) /\ server.queue.version.number \in Nat
         /\ clock \in Nat /\ confirmed \in Nat /\ lastVersion \in Nat /\ unadopted \in Nat
         /\ navVersion \in Nat
         /\ \A c \in Callers : Holds(c) => IsQueue(caller[c].sent.queue)
                                            /\ Number(c) \in 1 .. clock
<1>1. PICK S : wire \in Seq(S) /\ \A m \in S : IsMessage(m)
  BY DEF Sound, TInv, NetTyped, Messages
<1>2. PICK T : inbox \in Seq(T) /\ \A f \in T : IsFrame(f)
  BY DEF Sound, TInv, NetTyped, Frames
<1>3. Elems(wire) \subseteq S /\ Elems(inbox) \subseteq T
  BY <1>1, <1>2 DEF Elems
<1>4. \A m \in Elems(wire) : Wrote(m) => IsQueue(m.queue) /\ Num(m) \in Nat
                                          /\ m.queue.version.by = Self
  BY <1>1, <1>3, QueuesAre DEF IsMessage, IsOwn, Wrote, Num
<1>5. \A f \in Elems(inbox) : HasQueue(f) => IsQueue(f.queue) /\ f.queue.version.number \in Nat
  BY <1>2, <1>3, QueuesAre DEF IsFrame, HasQueue
<1>6. IsQueue(server.queue) /\ server.queue.version.number \in Nat
  BY QueuesAre DEF Sound, TInv, NetTyped
<1>7. /\ clock \in Nat /\ confirmed \in Nat /\ lastVersion \in Nat /\ unadopted \in Nat
      /\ navVersion \in Nat
  BY BoundsAssumption DEF Sound, TInv, PendingTyped, IInv, Counters
<1>8. ASSUME NEW c \in Callers, Holds(c)
      PROVE  IsQueue(caller[c].sent.queue) /\ Number(c) \in 1 .. clock
  BY <1>8 DEF Sound, TInv, CallsTyped, CallTyped, IsOwn, IInv, PerCaller, InFlight, Holds
<1> QED
  BY <1>1, <1>2, <1>4, <1>5, <1>6, <1>7, <1>8 DEF IsSeq

\* The last version is one that was handed out.
LEMMA LastHandedOut ==
  ASSUME Sound, link = "up" PROVE lastVersion \in 0 .. clock
  BY Kinds DEF Sound, IInv, Current, Born

-----------------------------------------------------------------------------
(* Frames arrive                                                             *)

\* A frame arrives, unless the connection is lost.
LEMMA OneArrives ==
  ASSUME IsSeq(inbox), NEW f, Broadcast(<<f>>)
  PROVE  inbox' = Append(inbox, f) \/ (link # "up" /\ inbox' = inbox)
<1>1. PICK S : inbox \in Seq(S)
  BY DEF IsSeq
<1>2. inbox \in Seq(S \union {f})
  BY <1>1, SeqGrows
<1>3. inbox \o <<f>> = Append(inbox, f)
  BY <1>2
<1> QED
  BY <1>3 DEF Broadcast

\* Some steps leave alone what this client holds and what it waits for.
Apart ==
    UNCHANGED <<queue, lastVersion, confirmed, navVersion, unadopted, caller, holder, clock,
                link, history>>

\* A frame that shows nothing older than what the server keeps, or the state of another
\* device; no edit is lost from the wire.
LEMMA FrameEcho ==
  ASSUME Sound, EchoInv, Apart, NEW f,
         inbox' = Append(inbox, f) \/ (link # "up" /\ inbox' = inbox),
         \/ server'.queue = server.queue /\ f.queue \in {Absent, server.queue}
         \/ server'.queue.version.by = Peer /\ f.queue = server'.queue /\ HasQueue(f),
         Elems(wire') \subseteq Elems(wire),
         \A m \in Elems(wire) : Wrote(m) => m \in Elems(wire'),
         InOrder(wire')
  PROVE  EchoInv'
<1>1. /\ IsSeq(inbox) /\ Elems(inbox') \subseteq Elems(inbox) \union {f}
      /\ Elems(inbox) \subseteq Elems(inbox')
  <2>1. IsSeq(inbox)
    BY Kinds
  <2>2. Elems(Append(inbox, f)) = Elems(inbox) \union {f}
    BY <2>1, ElemsAppend
  <2> QED
    BY <2>1, <2>2
<1>2. UNCHANGED <<queue, lastVersion, confirmed, navVersion, unadopted, caller, holder, clock,
                  link, history>>
  BY DEF Apart
<1>3. ASSUME NEW n, \/ n \in Nat /\ n = clock + 1
                    \/ \E m \in Elems(wire) : Wrote(m) /\ n = Num(m)
      PROVE  /\ Below(server'.queue, n)
             /\ \A g \in Elems(inbox') : HasQueue(g) => Below(g.queue, n)
  <2>1. /\ Below(server.queue, n)
        /\ \A g \in Elems(inbox) : HasQueue(g) => Below(g.queue, n)
    BY <1>3 DEF EchoInv, Ordered
  <2>2. \/ server'.queue = server.queue /\ f.queue \in {Absent, server.queue}
        \/ server'.queue.version.by = Peer /\ f.queue = server'.queue
    OBVIOUS
  <2>3. server'.queue.version.by = Peer => Below(server'.queue, n)
    BY PeerIsAnother DEF Below
  <2>4. Below(server'.queue, n) /\ (HasQueue(f) => Below(f.queue, n))
    BY <2>1, <2>2, <2>3 DEF HasQueue
  <2> QED
    BY <1>1, <2>1, <2>4
<1>4. Ordered'
  <2>1. history.owed' \subseteq 1 .. clock'
    BY <1>2 DEF EchoInv, Ordered
  <2>2. clock + 1 \in Nat
    BY Kinds
  <2>3. /\ Below(server'.queue, clock' + 1)
        /\ \A g \in Elems(inbox') : HasQueue(g) => Below(g.queue, clock' + 1)
    BY <1>2, <1>3, <2>2
  <2>4. \A m \in Elems(wire') : Wrote(m) =>
          /\ Num(m) <= clock' /\ Below(server'.queue, Num(m))
          /\ \A g \in Elems(inbox') : HasQueue(g) => Below(g.queue, Num(m))
    BY <1>2, <1>3 DEF EchoInv, Ordered
  <2>5. (\E m \in Elems(wire') : Wrote(m)) => \E m \in Elems(wire') : Wrote(m) /\ Num(m) = clock'
    BY <1>2 DEF EchoInv, Ordered
  <2> QED
    BY <2>1, <2>3, <2>4, <2>5 DEF Ordered
<1>5. ASSUME NEW n \in Nat, Stored(n) PROVE Stored(n)'
  <2>1. OnWire(n) => OnWire(n)'
    BY DEF OnWire
  <2> QED
    BY <1>5, <2>1, PeerIsAnother DEF Stored
<1>6. ASSUME NEW n \in Nat, Answered(n) PROVE Answered(n)'
  <2>1. OnWire(n) => OnWire(n)'
    BY DEF OnWire
  <2> QED
    BY <1>1, <1>2, <1>6, <2>1 DEF Answered, OwnQueue, HasQueue
<1>7. Reaches'
  <2> SUFFICES ASSUME link = "up"
               PROVE  /\ Stored(lastVersion)' /\ Answered(lastVersion)'
                      /\ \A c \in Callers : Holds(c)' => Stored(Number(c))' /\ Answered(Number(c))'
    BY <1>2 DEF Reaches
  <2>1. PICK n \in Nat : n = lastVersion
    BY Kinds
  <2>2. Stored(n)' /\ Answered(n)'
    BY <1>5, <1>6, <2>1 DEF EchoInv, Reaches
  <2>3. Stored(lastVersion)' /\ Answered(lastVersion)'
    BY <1>2, <2>1, <2>2 DEF Stored, Answered, OnWire
  <2>4. ASSUME NEW c \in Callers, Holds(c)' PROVE Stored(Number(c))' /\ Answered(Number(c))'
    <3>1. Holds(c)
      BY <1>2, <2>4 DEF Holds
    <3>2. PICK k \in Nat : k = Number(c)
      BY <3>1, Kinds
    <3>3. Stored(k)' /\ Answered(k)'
      BY <1>5, <1>6, <3>1, <3>2 DEF EchoInv, Reaches
    <3> QED
      BY <1>2, <3>2, <3>3 DEF Stored, Answered, OnWire, Number
  <2> QED
    BY <2>3, <2>4
<1>8. Converging'
  <2> SUFFICES ASSUME link = "up", \A m \in Elems(wire') : ~Wrote(m)
               PROVE  /\ \A k \in 1 .. Len(inbox') :
                           HasQueue(inbox'[k])
                             /\ (\A j \in k + 1 .. Len(inbox') : ~HasQueue(inbox'[j]))
                           => inbox'[k].queue = server'.queue
                      /\ (\A g \in Elems(inbox') : ~HasQueue(g)) => queue' = server'.queue
    BY <1>2 DEF Converging
  <2>1. \A m \in Elems(wire) : ~Wrote(m)
    OBVIOUS
  <2>2. /\ \A k \in 1 .. Len(inbox) :
             HasQueue(inbox[k]) /\ (\A j \in k + 1 .. Len(inbox) : ~HasQueue(inbox[j]))
               => inbox[k].queue = server.queue
        /\ (\A g \in Elems(inbox) : ~HasQueue(g)) => queue = server.queue
    BY <2>1 DEF EchoInv, Converging
  <2>3. /\ inbox' = Append(inbox, f) /\ Len(inbox) \in Nat /\ Len(inbox') = Len(inbox) + 1
        /\ inbox'[Len(inbox) + 1] = f /\ \A i \in 1 .. Len(inbox) : inbox'[i] = inbox[i]
        /\ f \in Elems(inbox')
    <3>1. inbox' = Append(inbox, f)
      OBVIOUS
    <3>2. /\ Len(inbox) \in Nat /\ Len(Append(inbox, f)) = Len(inbox) + 1
          /\ Append(inbox, f)[Len(inbox) + 1] = f
          /\ \A i \in 1 .. Len(inbox) : Append(inbox, f)[i] = inbox[i]
          /\ f \in Elems(Append(inbox, f))
      BY <1>1, ElemsAppend
    <3> QED
      BY <3>1, <3>2
  <2>4. ASSUME NEW k \in 1 .. Len(inbox'), HasQueue(inbox'[k]),
               \A j \in k + 1 .. Len(inbox') : ~HasQueue(inbox'[j])
        PROVE  inbox'[k].queue = server'.queue
    <3>1. CASE k = Len(inbox) + 1
      BY <2>3, <2>4, <3>1 DEF HasQueue
    <3>2. CASE k # Len(inbox) + 1
      <4>1. k \in 1 .. Len(inbox) /\ Len(inbox) + 1 \in k + 1 .. Len(inbox')
        BY <2>3, <3>2
      <4>2. ~HasQueue(f)
        BY <2>3, <2>4, <4>1
      <4>3. \A j \in k + 1 .. Len(inbox) : j \in k + 1 .. Len(inbox') /\ j \in 1 .. Len(inbox)
        BY <2>3, <4>1
      <4>4. \A j \in k + 1 .. Len(inbox) : ~HasQueue(inbox[j])
        BY <2>3, <2>4, <4>3
      <4>5. inbox[k].queue = server.queue /\ inbox'[k] = inbox[k]
        BY <2>2, <2>3, <2>4, <4>1, <4>4
      <4> QED
        BY <4>2, <4>5
    <3> QED
      BY <3>1, <3>2
  <2>5. ASSUME \A g \in Elems(inbox') : ~HasQueue(g) PROVE queue' = server'.queue
    <3>1. ~HasQueue(f) /\ queue = server.queue
      BY <1>1, <2>2, <2>3, <2>5
    <3> QED
      BY <1>2, <3>1
  <2> QED
    BY <2>4, <2>5
<1>9. Registered'
  BY <1>2 DEF EchoInv, Registered, Number
<1>10. Awaiting'
  <2> SUFFICES ASSUME link = "up", history.following # None
               PROVE  /\ history.following.navigation \in Nat
                      /\ history.following.navigation < navVersion
                      /\ Answered(navVersion)'
    BY <1>2 DEF Awaiting
  <2>1. PICK n \in Nat : n = navVersion
    BY Kinds
  <2>2. Answered(n)'
    BY <1>6, <2>1 DEF EchoInv, Awaiting
  <2>3. Answered(navVersion)'
    BY <1>2, <2>1, <2>2 DEF Answered, OnWire
  <2> QED
    BY <2>3 DEF EchoInv, Awaiting
<1>11. Owed'
  BY <1>2 DEF EchoInv, Owed, Number
<1> QED
  BY <1>4, <1>7, <1>8, <1>9, <1>10, <1>11 DEF EchoInv

\* Another device acts: what its frame shows is what the server keeps, or is about no queue.
LEMMA PeerEcho ==
  ASSUME Sound, EchoInv,
         PeerPlays \/ PeerEditsOptions \/ PeerCommands \/ PeerTakesOver \/ PeerHandsBack \/ Relay
  PROVE  EchoInv'
<1>1. /\ server = [queue |-> server.queue, status |-> server.status, active |-> server.active]
      /\ IsQueue(server.queue)
  BY DEF Sound, TInv, NetTyped
<1>2. PICK act : Foreign(act)
  BY DEF PeerPlays, PeerEditsOptions, PeerCommands, PeerTakesOver, PeerHandsBack, Relay
<1>3. wire' = wire /\ Apart
  BY <1>2 DEF Foreign, Apart, stateVars, queueVars, navVars, sendVars
<1> SUFFICES \E f :
       /\ Broadcast(<<f>>)
       /\ \/ server'.queue = server.queue /\ f.queue \in {Absent, server.queue}
          \/ server'.queue.version.by = Peer /\ f.queue = server'.queue /\ HasQueue(f)
  <2>1. PICK f :
       /\ Broadcast(<<f>>)
       /\ \/ server'.queue = server.queue /\ f.queue \in {Absent, server.queue}
          \/ server'.queue.version.by = Peer /\ f.queue = server'.queue /\ HasQueue(f)
    OBVIOUS
  <2>2. inbox' = Append(inbox, f) \/ (link # "up" /\ inbox' = inbox)
    BY <2>1, Kinds, OneArrives
  <2>3. InOrder(wire')
    BY <1>3 DEF EchoInv, Ordered
  <2> QED
    BY <1>3, <2>1, <2>2, <2>3, FrameEcho
<1> DEFINE version == Version(Peer, foreign')
<1>4. version.by = Peer
  BY DEF Version
<1>5. ASSUME NEW new, NEW s, NEW device, IsQueue(new), new.version = version,
             server'.queue = new, Broadcast(<<Frame(new, s, device)>>)
      PROVE  \E f :
       /\ Broadcast(<<f>>)
       /\ \/ server'.queue = server.queue /\ f.queue \in {Absent, server.queue}
          \/ server'.queue.version.by = Peer /\ f.queue = server'.queue /\ HasQueue(f)
  <2>1. Frame(new, s, device).queue = new /\ new # Absent
    BY <1>5, QueuesAre DEF Frame
  <2>2. server'.queue.version.by = Peer /\ HasQueue(Frame(new, s, device))
    BY <1>4, <1>5, <2>1 DEF HasQueue
  <2> QED
    BY <1>5, <2>1, <2>2
<1>6. ASSUME NEW q \in {Absent, server.queue}, NEW s, NEW device,
             server'.queue = server.queue, Broadcast(<<Frame(q, s, device)>>)
      PROVE  \E f :
       /\ Broadcast(<<f>>)
       /\ \/ server'.queue = server.queue /\ f.queue \in {Absent, server.queue}
          \/ server'.queue.version.by = Peer /\ f.queue = server'.queue /\ HasQueue(f)
  <2>1. Frame(q, s, device).queue = q
    BY DEF Frame
  <2> QED
    BY <1>6, <2>1
<1>7. CASE PeerPlays
  <2>1. PICK q \in PeerQueues :
          /\ server' = [server EXCEPT !.queue = Versioned(q, version),
                                      !.status = Beginning(version)]
          /\ Broadcast(<<Frame(Versioned(q, version), Beginning(version), server.active)>>)
    BY <1>7 DEF PeerPlays
  <2>2. IsQueue(Versioned(q, version)) /\ Versioned(q, version).version = version
    <3>1. IsQueue(Versioned(q, version))
      BY <1>2, PeerWrites DEF Sound
    <3> QED
      BY <3>1 DEF Versioned
  <2> HIDE DEF version
  <2>3. server'.queue = Versioned(q, version)
    BY <1>1, <2>1
  <2> QED
    BY <1>5, <2>1, <2>2, <2>3
<1>8. CASE PeerEditsOptions
  <2>1. PICK m \in RepeatModes, s \in {Absent, server.status} :
          LET new == [server.queue EXCEPT !.repeat = m, !.version = version]
          IN /\ server' = [server EXCEPT !.queue = new]
             /\ Broadcast(<<Frame(new, s, server.active)>>)
    BY <1>8, ModesAssumption DEF PeerEditsOptions
  <2>2. PICK new : new = [server.queue EXCEPT !.repeat = m, !.version = version]
    OBVIOUS
  <2>3. IsQueue(new)
    BY <1>2, <2>2, PeerWrites DEF Sound
  <2>4. new.version = version
    BY <1>1, <2>2 DEF IsQueue, Queues
  <2> HIDE DEF version
  <2>5. server'.queue = new /\ Broadcast(<<Frame(new, s, server.active)>>)
    BY <1>1, <2>1, <2>2
  <2> QED
    BY <1>5, <2>3, <2>4, <2>5
<1>9. CASE PeerCommands
  <2>1. PICK new : /\ server' = [server EXCEPT !.status = new]
                   /\ \E q \in {Absent, server.queue} :
                         Broadcast(<<Frame(q, new, server.active)>>)
    <3>1. PICK progress \in {0, 1}, paused \in BOOLEAN :
            LET new == [progress |-> progress, paused |-> paused, version |-> version]
            IN /\ server' = [server EXCEPT !.status = new]
               /\ \E q \in {Absent, server.queue} : Broadcast(<<Frame(q, new, server.active)>>)
      BY <1>9 DEF PeerCommands
    <3> HIDE DEF version
    <3> QED
      BY <3>1
  <2>2. PICK q \in {Absent, server.queue} : Broadcast(<<Frame(q, new, server.active)>>)
    BY <2>1
  <2>3. server'.queue = server.queue
    BY <1>1, <2>1
  <2> QED
    BY <1>6, <2>2, <2>3
<1>10. CASE PeerTakesOver
  <2>1. PICK s, device :
          /\ server' = [server EXCEPT !.active = server'.active, !.status = server'.status]
          /\ Broadcast(<<Frame(Absent, s, device)>>)
    BY <1>1, <1>10 DEF PeerTakesOver
  <2>2. server'.queue = server.queue
    BY <1>1, <2>1
  <2> QED
    BY <1>6, <2>1, <2>2
<1>11. CASE PeerHandsBack
  <2>1. LET new == [server.queue EXCEPT !.version = version]
        IN /\ server' = [queue |-> new, status |-> Beginning(version), active |-> Self]
           /\ Broadcast(<<Frame(new, Beginning(version), Self)>>)
    BY <1>11 DEF PeerHandsBack
  <2>2. PICK new : new = [server.queue EXCEPT !.version = version]
    OBVIOUS
  <2>3. IsQueue(new)
    BY <1>2, <2>2, PeerWrites DEF Sound
  <2>4. new.version = version
    BY <1>1, <2>2 DEF IsQueue, Queues
  <2> HIDE DEF version
  <2>5. server'.queue = new /\ Broadcast(<<Frame(new, Beginning(version), Self)>>)
    BY <2>1, <2>2
  <2> QED
    BY <1>5, <2>3, <2>4, <2>5
<1>12. CASE Relay
  BY <1>6, <1>12 DEF Relay
<1> QED
  BY <1>7, <1>8, <1>9, <1>10, <1>11, <1>12

-----------------------------------------------------------------------------
(* The server takes a message                                                *)

\* An edit that the server takes is older than those behind it on the wire.
LEMMA TakenInOrder ==
  ASSUME Sound, EchoInv, wire # <<>>
  PROVE  /\ Elems(wire) = Elems(Tail(wire)) \union {Head(wire)}
         /\ InOrder(Tail(wire))
         /\ Wrote(Head(wire)) =>
              \A m \in Elems(Tail(wire)) : Wrote(m) => Num(Head(wire)) < Num(m)
<1>1. /\ IsSeq(Tail(wire)) /\ Elems(wire) = Elems(Tail(wire)) \union {Head(wire)}
      /\ Len(wire) \in Nat \ {0} /\ Len(Tail(wire)) = Len(wire) - 1 /\ Head(wire) = wire[1]
      /\ \A i \in 1 .. Len(wire) - 1 : Tail(wire)[i] = wire[i + 1]
  BY Kinds, ElemsTail
<1>2. \A i, j \in 1 .. Len(wire) :
         i < j /\ Wrote(wire[i]) /\ Wrote(wire[j]) => Num(wire[i]) < Num(wire[j])
  BY DEF EchoInv, Ordered, InOrder
<1>3. InOrder(Tail(wire))
  <2> SUFFICES ASSUME NEW i \in 1 .. Len(Tail(wire)), NEW j \in 1 .. Len(Tail(wire)),
                      i < j, Wrote(Tail(wire)[i]), Wrote(Tail(wire)[j])
               PROVE  Num(Tail(wire)[i]) < Num(Tail(wire)[j])
    BY DEF InOrder
  <2>1. /\ i + 1 \in 1 .. Len(wire) /\ j + 1 \in 1 .. Len(wire) /\ i + 1 < j + 1
        /\ i \in 1 .. Len(wire) - 1 /\ j \in 1 .. Len(wire) - 1
    BY <1>1
  <2>2. Tail(wire)[i] = wire[i + 1] /\ Tail(wire)[j] = wire[j + 1]
    BY <1>1, <2>1
  <2> QED
    BY <1>2, <2>1, <2>2
<1>4. ASSUME Wrote(Head(wire)), NEW m \in Elems(Tail(wire)), Wrote(m)
      PROVE  Num(Head(wire)) < Num(m)
  <2>1. PICK i \in 1 .. Len(Tail(wire)) : m = Tail(wire)[i]
    BY <1>4 DEF Elems
  <2>2. /\ 1 \in 1 .. Len(wire) /\ i + 1 \in 1 .. Len(wire) /\ 1 < i + 1
        /\ i \in 1 .. Len(wire) - 1
    BY <1>1
  <2>3. m = wire[i + 1] /\ Head(wire) = wire[1]
    BY <1>1, <2>1, <2>2
  <2> QED
    BY <1>2, <1>4, <2>2, <2>3
<1> QED
  BY <1>1, <1>3, <1>4

\* A report of a status: its frame may carry the queue that the server keeps.
LEMMA ReportTaken ==
  ASSUME Sound, EchoInv, ServerTakes, ~Wrote(Head(wire)) PROVE EchoInv'
<1>1. /\ wire # <<>> /\ wire' = Tail(wire) /\ Apart
      /\ server = [queue |-> server.queue, status |-> server.status, active |-> server.active]
  BY DEF ServerTakes, Apart, stateVars, queueVars, navVars, sendVars, Sound, TInv, NetTyped
<1>2. PICK m : m = Head(wire) /\ m.queue = None
  BY DEF Wrote
<1>3. PICK f : /\ Broadcast(<<f>>)
               /\ \/ f = Frame(Absent, m.status, Absent)
                  \/ f = Frame(server.queue, m.status, server.active)
  BY <1>2 DEF ServerTakes
<1>4. f.queue \in {Absent, server.queue}
  BY <1>3 DEF Frame
<1>5. server'.queue = server.queue
  <2>1. server' = [server EXCEPT !.queue = IF m.queue = None THEN @ ELSE m.queue,
                                 !.status = m.status]
    BY <1>2 DEF ServerTakes
  <2> QED
    BY <1>1, <1>2, <2>1
<1>6. inbox' = Append(inbox, f) \/ (link # "up" /\ inbox' = inbox)
  BY <1>3, Kinds, OneArrives
<1>7. /\ Elems(wire') \subseteq Elems(wire) /\ InOrder(wire')
      /\ \A x \in Elems(wire) : Wrote(x) => x \in Elems(wire')
  BY <1>1, TakenInOrder
<1> QED
  BY <1>1, <1>4, <1>5, <1>6, <1>7, FrameEcho

\* An edit becomes the state: if it is the last one on its way, its echo is not skipped,
\* and it is the newest.
LEMMA EditTaken ==
  ASSUME Sound, EchoInv, ServerTakes, Wrote(Head(wire)) PROVE EchoInv'
<1>1. /\ wire # <<>> /\ wire' = Tail(wire)
      /\ server = [queue |-> server.queue, status |-> server.status, active |-> server.active]
      /\ UNCHANGED <<queue, lastVersion, confirmed, navVersion, unadopted, caller, holder,
                     clock, link, history>>
  BY DEF ServerTakes, stateVars, queueVars, navVars, sendVars, Sound, TInv, NetTyped
<1>2. PICK m : m = Head(wire)
  OBVIOUS
<1>3. /\ m \in Elems(wire) /\ Wrote(m) /\ IsQueue(m.queue) /\ Num(m) \in Nat
      /\ m.queue.version.by = Self /\ Num(m) <= clock /\ clock \in Nat
  BY <1>1, <1>2, TakenInOrder, Kinds DEF EchoInv, Ordered
<1>4. server'.queue = m.queue
  <2>1. server' = [server EXCEPT !.queue = IF m.queue = None THEN @ ELSE m.queue,
                                 !.status = m.status]
    BY <1>2 DEF ServerTakes
  <2>2. m.queue # None
    BY <1>3 DEF Wrote
  <2> QED
    BY <1>1, <2>1, <2>2
<1>5. /\ Elems(wire) = Elems(wire') \union {m} /\ InOrder(wire')
      /\ \A x \in Elems(wire') : Wrote(x) => Num(m) < Num(x) /\ Num(x) <= clock /\ Num(x) \in Nat
  BY <1>1, <1>2, <1>3, TakenInOrder, Kinds DEF EchoInv, Ordered
<1> DEFINE More == \E x \in Elems(wire') : Wrote(x)
<1>6. PICK frames :
        /\ Broadcast(frames)
        /\ \/ frames = <<Frame(m.queue, m.status, server.active)>>
           \/ frames = <<Frame(m.queue, Absent, Absent)>>
           \/ frames = <<>> /\ More
  <2>1. PICK frames :
        /\ Broadcast(frames)
        /\ \/ frames = <<Frame(m.queue, m.status, server.active)>>
           \/ frames = <<Frame(m.queue, Absent, Absent)>>
           \/ frames = <<>> /\ \E i \in 2 .. Len(wire) : wire[i].queue # None
    BY <1>2, <1>3 DEF ServerTakes, Wrote
  <2>2. (\E i \in 2 .. Len(wire) : wire[i].queue # None) => More
    <3> SUFFICES ASSUME NEW i \in 2 .. Len(wire), wire[i].queue # None PROVE More
      OBVIOUS
    <3>1. /\ Len(wire) \in Nat \ {0} /\ Len(wire') = Len(wire) - 1
          /\ \A k \in 1 .. Len(wire) - 1 : wire'[k] = wire[k + 1]
      BY <1>1, Kinds, ElemsTail
    <3>2. i - 1 \in 1 .. Len(wire') /\ (i - 1) + 1 = i /\ i - 1 \in 1 .. Len(wire) - 1
      BY <3>1
    <3>3. wire'[i - 1] = wire[i]
      BY <3>1, <3>2
    <3>4. wire[i] \in Elems(wire')
      BY <3>2, <3>3 DEF Elems
    <3> QED
      BY <3>4 DEF Wrote
  <2> QED
    BY <2>1, <2>2
<1> HIDE DEF More
<1>7. \/ inbox' = inbox /\ (link # "up" \/ More)
      \/ \E f : inbox' = Append(inbox, f) /\ f.queue = m.queue
  <2>1. CASE frames = <<>> /\ More
    <3>1. PICK S : inbox \in Seq(S)
      BY Kinds DEF IsSeq
    <3>2. inbox \o <<>> = inbox
      BY <3>1
    <3> QED
      BY <1>6, <2>1, <3>2 DEF Broadcast
  <2>2. CASE \E f : frames = <<f>> /\ f.queue = m.queue
    <3>1. PICK f : frames = <<f>> /\ f.queue = m.queue
      BY <2>2
    <3>2. inbox' = Append(inbox, f) \/ (link # "up" /\ inbox' = inbox)
      BY <1>6, <3>1, Kinds, OneArrives
    <3> QED
      BY <3>1, <3>2
  <2>3. Frame(m.queue, m.status, server.active).queue = m.queue
    BY DEF Frame
  <2>4. Frame(m.queue, Absent, Absent).queue = m.queue
    BY DEF Frame
  <2> QED
    BY <1>6, <2>1, <2>2, <2>3, <2>4
<1>8. /\ Elems(inbox) \subseteq Elems(inbox')
      /\ \A g \in Elems(inbox') : g \in Elems(inbox) \/ g.queue = m.queue
      /\ link = "up" /\ ~More => \E f \in Elems(inbox') : f.queue = m.queue
  <2>1. CASE inbox' = inbox /\ (link # "up" \/ More)
    BY <2>1
  <2>2. CASE \E f : inbox' = Append(inbox, f) /\ f.queue = m.queue
    <3>1. PICK f : inbox' = Append(inbox, f) /\ f.queue = m.queue
      BY <2>2
    <3>2. Elems(Append(inbox, f)) = Elems(inbox) \union {f}
      BY Kinds, ElemsAppend
    <3> QED
      BY <3>1, <3>2
  <2> QED
    BY <1>7, <2>1, <2>2
<1>9. (More => \E x \in Elems(wire') : Wrote(x) /\ Num(x) = clock) /\ (~More => Num(m) = clock)
  <2>1. PICK x \in Elems(wire) : Wrote(x) /\ Num(x) = clock
    BY <1>3 DEF EchoInv, Ordered
  <2>2. CASE x = m
    <3>1. ASSUME NEW y \in Elems(wire'), Wrote(y) PROVE FALSE
      <4>1. Num(m) = clock
        BY <2>1, <2>2
      <4>2. Num(m) < Num(y) /\ Num(y) <= clock /\ Num(y) \in Nat
        BY <1>5, <3>1
      <4> QED
        BY <1>3, <4>1, <4>2
    <3> QED
      BY <2>1, <2>2, <3>1 DEF More
  <2>3. CASE x # m
    <3>1. x \in Elems(wire')
      BY <1>5, <2>3
    <3> QED
      BY <2>1, <3>1 DEF More
  <2> QED
    BY <2>2, <2>3
<1>10. Ordered'
  <2>1. ASSUME NEW n \in Nat, Num(m) < n,
               \A g \in Elems(inbox) : HasQueue(g) => Below(g.queue, n)
        PROVE  /\ Below(server'.queue, n)
               /\ \A g \in Elems(inbox') : HasQueue(g) => Below(g.queue, n)
    <3>1. Below(m.queue, n)
      BY <2>1 DEF Below, Num
    <3> QED
      BY <1>4, <1>8, <2>1, <3>1
  <2>2. /\ Below(server'.queue, clock' + 1)
        /\ \A g \in Elems(inbox') : HasQueue(g) => Below(g.queue, clock' + 1)
    <3>1. PICK n \in Nat : n = clock + 1
      BY <1>3
    <3>2. Num(m) < n /\ \A g \in Elems(inbox) : HasQueue(g) => Below(g.queue, n)
      BY <1>3, <3>1 DEF EchoInv, Ordered
    <3> QED
      BY <1>1, <2>1, <3>1, <3>2
  <2>3. ASSUME NEW x \in Elems(wire'), Wrote(x)
        PROVE  /\ Num(x) <= clock' /\ Below(server'.queue, Num(x))
               /\ \A g \in Elems(inbox') : HasQueue(g) => Below(g.queue, Num(x))
    <3>1. PICK n \in Nat : n = Num(x)
      BY <1>5, <2>3
    <3>2. x \in Elems(wire) /\ Num(m) < n /\ n <= clock
      BY <1>5, <2>3, <3>1
    <3>3. \A g \in Elems(inbox) : HasQueue(g) => Below(g.queue, n)
      BY <2>3, <3>1, <3>2 DEF EchoInv, Ordered
    <3> QED
      BY <1>1, <2>1, <3>1, <3>2, <3>3
  <2>4. More => \E x \in Elems(wire') : Wrote(x) /\ Num(x) = clock'
    BY <1>1, <1>9
  <2>5. history.owed' \subseteq 1 .. clock'
    BY <1>1 DEF EchoInv, Ordered
  <2> QED
    BY <1>5, <2>2, <2>3, <2>4, <2>5 DEF Ordered, More
<1>11. ASSUME NEW n \in Nat, n <= clock
       PROVE  Stored(n)' /\ (link = "up" => Answered(n)')
  <2>1. CASE More
    <3>1. OnWire(n)'
      BY <1>9, <1>11, <2>1 DEF OnWire
    <3> QED
      BY <3>1 DEF Stored, Answered
  <2>2. CASE ~More
    <3>1. n <= m.queue.version.number
      BY <1>9, <1>11, <2>2 DEF Num
    <3>2. Stored(n)'
      BY <1>4, <3>1 DEF Stored
    <3>3. ASSUME link = "up" PROVE Answered(n)'
      <4>1. PICK f \in Elems(inbox') : f.queue = m.queue
        BY <1>8, <2>2, <3>3
      <4>2. OwnQueue(f)
        BY <1>3, <4>1, QueuesAre DEF OwnQueue, HasQueue
      <4> QED
        BY <3>1, <4>1, <4>2 DEF Answered
    <3> QED
      BY <3>2, <3>3
  <2> QED
    BY <2>1, <2>2
<1>12. Reaches'
  <2> SUFFICES ASSUME link = "up"
               PROVE  /\ Stored(lastVersion)' /\ Answered(lastVersion)'
                      /\ \A c \in Callers : Holds(c)' => Stored(Number(c))' /\ Answered(Number(c))'
    BY <1>1 DEF Reaches
  <2>1. Stored(lastVersion)' /\ Answered(lastVersion)'
    <3>1. PICK n \in Nat : n = lastVersion
      BY Kinds
    <3>2. Stored(n)' /\ Answered(n)'
      BY <1>3, <1>11, <3>1, LastHandedOut
    <3> QED
      BY <1>1, <3>1, <3>2 DEF Stored, Answered, OnWire
  <2>2. ASSUME NEW c \in Callers, Holds(c)' PROVE Stored(Number(c))' /\ Answered(Number(c))'
    <3>1. Holds(c)
      BY <1>1, <2>2 DEF Holds
    <3>2. PICK n \in Nat : n = Number(c) /\ n <= clock
      BY <1>3, <3>1, Kinds
    <3>3. Stored(n)' /\ Answered(n)'
      BY <1>11, <3>2
    <3> QED
      BY <1>1, <3>2, <3>3 DEF Stored, Answered, OnWire, Number
  <2> QED
    BY <2>1, <2>2
<1>13. Converging'
  <2> SUFFICES ASSUME link = "up", ~More
               PROVE  /\ \A k \in 1 .. Len(inbox') :
                           HasQueue(inbox'[k])
                             /\ (\A j \in k + 1 .. Len(inbox') : ~HasQueue(inbox'[j]))
                           => inbox'[k].queue = server'.queue
                      /\ ~(\A g \in Elems(inbox') : ~HasQueue(g))
    BY <1>1 DEF Converging, More
  <2>1. PICK f : inbox' = Append(inbox, f) /\ f.queue = m.queue
    BY <1>7
  <2>2. /\ Len(inbox) \in Nat /\ Len(inbox') = Len(inbox) + 1 /\ inbox'[Len(inbox) + 1] = f
        /\ f \in Elems(inbox')
    <3>1. /\ Len(inbox) \in Nat /\ Len(Append(inbox, f)) = Len(inbox) + 1
          /\ Append(inbox, f)[Len(inbox) + 1] = f
          /\ f \in Elems(Append(inbox, f))
      BY Kinds, ElemsAppend
    <3> QED
      BY <2>1, <3>1
  <2>3. HasQueue(f)
    BY <1>3, <2>1, QueuesAre DEF HasQueue
  <2>4. ASSUME NEW k \in 1 .. Len(inbox'),
               \A j \in k + 1 .. Len(inbox') : ~HasQueue(inbox'[j])
        PROVE  inbox'[k].queue = server'.queue
    <3>1. CASE k = Len(inbox) + 1
      BY <1>4, <2>1, <2>2, <3>1
    <3>2. CASE k # Len(inbox) + 1
      <4>1. Len(inbox) + 1 \in k + 1 .. Len(inbox')
        BY <2>2, <3>2
      <4> QED
        BY <2>2, <2>3, <2>4, <4>1
    <3> QED
      BY <3>1, <3>2
  <2> QED
    BY <2>2, <2>3, <2>4
<1>14. Registered'
  BY <1>1 DEF EchoInv, Registered, Number
<1>15. Awaiting'
  <2> SUFFICES ASSUME link = "up", history.following # None
               PROVE  /\ history.following.navigation \in Nat
                      /\ history.following.navigation < navVersion
                      /\ Answered(navVersion)'
    BY <1>1 DEF Awaiting
  <2>1. PICK n \in Nat : n = navVersion /\ n <= clock
    BY <1>3, Kinds DEF Sound, IInv, Counters
  <2>2. Answered(n)'
    BY <1>11, <2>1
  <2>3. Answered(navVersion)'
    BY <1>1, <2>1, <2>2 DEF Answered, OnWire
  <2> QED
    BY <2>3 DEF EchoInv, Awaiting
<1>16. Owed'
  BY <1>1, <1>5 DEF EchoInv, Owed, Number
<1> QED
  BY <1>10, <1>12, <1>13, <1>14, <1>15, <1>16 DEF EchoInv

-----------------------------------------------------------------------------
(* Callers                                                                   *)

\* The fields of a call that the invariant reads.
SameCall(c) ==
    /\ caller'[c].sent = caller[c].sent /\ caller'[c].previous = caller[c].previous
    /\ caller'[c].op = caller[c].op /\ caller'[c].baseline = caller[c].baseline

\* A decision that is kept, or a new one, remembers a navigation that was made.
Remembers(c) ==
    caller'[c].pc # "idle" /\ caller'[c].op \in Moving =>
        caller'[c].baseline.navigation \in 0 .. clock

\* Steps that send nothing and read nothing.
LEMMA CallsEcho ==
  ASSUME Sound, EchoInv,
         UNCHANGED <<queue, lastVersion, confirmed, navVersion, unadopted, clock, link, wire,
                     inbox, server>>,
         history'.owed = history.owed, history'.following = history.following,
         holder' \in {holder, None},
         \A c \in Callers : holder' = c => SameCall(c),
         \A c \in Callers : Remembers(c)
  PROVE  EchoInv'
<1>1. Ordered' /\ Converging'
  BY DEF EchoInv, Ordered, Converging
<1>2. (\A c \in Callers : Holds(c)' => Holds(c) /\ Number(c)' = Number(c))
  BY CallersAssumption DEF Holds, Number, SameCall
<1>3. Reaches'
  BY <1>2 DEF EchoInv, Reaches, Stored, Answered, OnWire
<1>4. Registered'
  BY CallersAssumption DEF EchoInv, Registered, Remembers, SameCall, Number
<1>5. Awaiting'
  BY DEF EchoInv, Awaiting, Answered, OnWire
<1>6. Owed'
  BY CallersAssumption DEF EchoInv, Owed, SameCall, Number
<1> QED
  BY <1>1, <1>3, <1>4, <1>5, <1>6 DEF EchoInv

\* A step that replaces one call by another which asks for nothing, or stands for a
\* navigation decided before.
LEMMA OneCallEcho ==
  ASSUME Sound, EchoInv, NEW c \in Callers, NEW call,
         UNCHANGED <<queue, lastVersion, confirmed, navVersion, unadopted, clock, link, wire,
                     inbox, server>>,
         history'.owed = history.owed, history'.following = history.following,
         holder' \in {holder, None}, holder' # c,
         caller' = [caller EXCEPT ![c] = call],
         call.pc # "idle" /\ call.op \in Moving => call.baseline.navigation \in 0 .. clock
  PROVE  EchoInv'
<1>1. caller'[c] = call /\ \A d \in Callers \ {c} : caller'[d] = caller[d]
  BY DEF Sound, IInv, Shape
<1>2. \A d \in Callers : holder' = d => SameCall(d)
  BY <1>1 DEF SameCall
<1>3. ASSUME NEW d \in Callers PROVE Remembers(d)
  BY <1>1 DEF Remembers, EchoInv, Registered
<1> QED
  BY <1>2, <1>3, CallsEcho

\* What a failed send leaves stands for the navigation it stood for.
LEMMA FailureRemembers ==
  ASSUME Sound, EchoInv, NEW c \in Callers, caller[c].pc # "idle"
  PROVE  AfterFailure(c).pc # "idle" /\ AfterFailure(c).op \in Moving =>
           AfterFailure(c).baseline.navigation \in 0 .. clock
<1>1. \/ AfterFailure(c) = Idle
      \/ AfterFailure(c) = Again(caller[c]) /\ caller[c].op \in Advances
  BY DEF AfterFailure
<1>2. Idle.pc = "idle"
  BY DEF Idle
<1>3. /\ Again(caller[c]).op = caller[c].op /\ Again(caller[c]).baseline = caller[c].baseline
  BY DEF Again, Request
<1> QED
  BY <1>1, <1>2, <1>3 DEF EchoInv, Registered

\* A call is decided, made or given up.
LEMMA MovesEcho ==
  ASSUME Sound, EchoInv, NEW c \in Callers, NEW op \in Operations,
         Decide(c, op) \/ CallNow(c, op) \/ Call(c) \/ GiveUp(c)
  PROVE  EchoInv'
<1>1. /\ UNCHANGED <<queue, lastVersion, confirmed, navVersion, unadopted, clock, link, wire,
                     inbox, server>>
      /\ history'.owed = history.owed /\ history'.following = history.following
      /\ holder' = holder
  BY DEF Decide, CallNow, Call, GiveUp, stateVars, queueVars, navVars, netVars
<1>2. caller[c].pc # "sending"
  BY DEF Decide, CallNow, Call, GiveUp, AtLock
<1>3. holder # c
  BY <1>2 DEF Sound, IInv, PerCaller, InFlight
<1>4. navVersion \in 0 .. clock
  BY DEF Sound, IInv, Counters
<1>5. CASE Decide(c, op)
  <2>1. PICK items, index :
          caller' = [caller EXCEPT ![c] =
            Request("decided", op, IF op \in Moving THEN Baseline ELSE None, items, index)]
    BY <1>5 DEF Decide
  <2>2. PICK call :
          call = Request("decided", op, IF op \in Moving THEN Baseline ELSE None, items, index)
    OBVIOUS
  <2>3. call.op \in Moving => call.baseline.navigation \in 0 .. clock
    BY <1>4, <2>2 DEF Request, Baseline
  <2> QED
    BY <1>1, <1>3, <2>1, <2>2, <2>3, OneCallEcho
<1>6. CASE CallNow(c, op)
  <2>1. PICK call : call = Request("waiting", op, None, <<>>, 0)
    OBVIOUS
  <2>2. call.op \notin Moving
    BY <1>6, <2>1 DEF CallNow, Request, Deferred
  <2>3. caller' = [caller EXCEPT ![c] = call]
    BY <1>6, <2>1 DEF CallNow
  <2> QED
    BY <1>1, <1>3, <2>2, <2>3, OneCallEcho
<1>7. CASE Call(c)
  <2>1. CASE caller[c].op = "append" /\ active # Self
    <3>1. caller' = [caller EXCEPT ![c] = Idle] /\ Idle.pc = "idle"
      BY <1>7, <2>1 DEF Call, Idle
    <3> QED
      BY <1>1, <1>3, <3>1, OneCallEcho
  <2>2. CASE ~(caller[c].op = "append" /\ active # Self)
    <3>1. caller' = [caller EXCEPT ![c].pc = "waiting",
                           ![c].epoch = IF caller[c].op \in Advances THEN epoch ELSE @]
      BY <1>7, <2>2 DEF Call
    <3>2. IsCall(caller[c]) /\ caller[c].pc = "decided"
      BY <1>7 DEF Call, Sound, IInv, Shape
    <3>3. PICK call : call = [caller[c] EXCEPT !.pc = "waiting",
                                !.epoch = IF caller[c].op \in Advances THEN epoch ELSE @]
      OBVIOUS
    <3>4. call.op = caller[c].op /\ call.baseline = caller[c].baseline
      BY <3>2, <3>3 DEF IsCall
    <3>5. caller' = [caller EXCEPT ![c] = call]
      BY <3>1, <3>2, <3>3 DEF IsCall, Sound, IInv, Shape
    <3>6. call.op \in Moving => call.baseline.navigation \in 0 .. clock
      BY <3>2, <3>4 DEF EchoInv, Registered
    <3> QED
      BY <1>1, <1>3, <3>5, <3>6, OneCallEcho
  <2> QED
    BY <2>1, <2>2
<1>8. CASE GiveUp(c)
  <2>1. PICK call : /\ caller' = [caller EXCEPT ![c] = call]
                    /\ call = Idle \/ call = AfterFailure(c)
    BY <1>8 DEF GiveUp
  <2>2. caller[c].pc # "idle" /\ Idle.pc = "idle"
    BY <1>8 DEF GiveUp, AtLock, Idle
  <2>3. call.pc # "idle" /\ call.op \in Moving => call.baseline.navigation \in 0 .. clock
    BY <2>1, <2>2, FailureRemembers
  <2> QED
    BY <1>1, <1>3, <2>1, <2>3, OneCallEcho
<1> QED
  BY <1>5, <1>6, <1>7, <1>8

\* A call that waits for the lock does not hold it, and nobody else does.
LEMMA LockIsFree ==
  ASSUME Sound, NEW c \in Callers, AtLock(c)
  PROVE  holder = None /\ caller[c].pc = "waiting" /\ caller[c].previous = None
  BY DEF AtLock, Sound, IInv, PerCaller, NotSending

\* A pause is reported: no edit is added to the wire.
LEMMA ReportEcho ==
  ASSUME Sound, EchoInv, NEW c \in Callers, Report(c) PROVE EchoInv'
<1>1. /\ AtLock(c) /\ caller[c].op = "pause" /\ holder' = c
      /\ UNCHANGED <<queue, lastVersion, confirmed, navVersion, unadopted, clock, link, inbox,
                     server>>
  BY DEF Report, stateVars, queueVars, navVars
<1>2. PICK sent : /\ sent.queue = None
                  /\ caller' = [caller EXCEPT ![c].pc = "sending", ![c].sent = sent]
                  /\ wire' = Append(wire, sent)
                  /\ history' = [history EXCEPT !.latest = Position(sent.status)]
  BY DEF Report
<1>3. history'.owed = history.owed /\ history'.following = history.following
  BY <1>2 DEF Sound, IInv, Shape
<1>4. /\ caller'[c].op = caller[c].op /\ caller'[c].baseline = caller[c].baseline
      /\ caller'[c].previous = None
      /\ \A d \in Callers \ {c} : caller'[d] = caller[d]
  <2>1. IsCall(caller[c]) /\ caller[c].previous = None
    BY <1>1, LockIsFree DEF Sound, IInv, Shape
  <2>2. caller'[c] = [caller[c] EXCEPT !.pc = "sending", !.sent = sent]
    BY <1>2, <2>1 DEF Sound, IInv, Shape, IsCall
  <2>3. \A d \in Callers \ {c} : caller'[d] = caller[d]
    BY <1>2 DEF Sound, IInv, Shape
  <2> QED
    BY <2>1, <2>2, <2>3 DEF IsCall
<1>5. Elems(wire') = Elems(wire) \union {sent} /\ ~Wrote(sent)
  BY <1>2, Kinds, ElemsAppend DEF Wrote
<1>6. InOrder(wire')
  <2>1. /\ Len(wire) \in Nat /\ Len(Append(wire, sent)) = Len(wire) + 1
        /\ Append(wire, sent)[Len(wire) + 1] = sent
        /\ \A i \in 1 .. Len(wire) : Append(wire, sent)[i] = wire[i]
    BY Kinds, ElemsAppend
  <2> SUFFICES ASSUME NEW i \in 1 .. Len(wire'), NEW j \in 1 .. Len(wire'),
                      i < j, Wrote(wire'[i]), Wrote(wire'[j])
               PROVE  Num(wire'[i]) < Num(wire'[j])
    BY DEF InOrder
  <2>2. i # Len(wire) + 1 /\ j # Len(wire) + 1
    BY <1>2, <1>5, <2>1
  <2>3. i \in 1 .. Len(wire) /\ j \in 1 .. Len(wire)
    BY <1>2, <2>1, <2>2
  <2>4. wire'[i] = wire[i] /\ wire'[j] = wire[j]
    BY <1>2, <2>1, <2>3
  <2> QED
    BY <2>3, <2>4 DEF EchoInv, Ordered, InOrder
<1>7. Ordered'
  BY <1>1, <1>3, <1>5, <1>6 DEF EchoInv, Ordered
<1>8. \A n : OnWire(n) => OnWire(n)'
  BY <1>5 DEF OnWire
<1>9. \A d \in Callers : ~Holds(d)'
  BY <1>1, <1>4 DEF Holds
<1>10. Reaches'
  BY <1>1, <1>8, <1>9 DEF EchoInv, Reaches, Stored, Answered
<1>11. Converging'
  BY <1>1, <1>5 DEF EchoInv, Converging
<1>12. Registered'
  <2>1. caller[c].pc # "idle"
    BY <1>1 DEF AtLock
  <2> QED
    BY <1>1, <1>4, <2>1 DEF EchoInv, Registered
<1>13. Awaiting'
  BY <1>1, <1>3, <1>8 DEF EchoInv, Awaiting, Answered
<1>14. Owed'
  BY <1>1, <1>3, <1>4 DEF EchoInv, Owed
<1> QED
  BY <1>7, <1>10, <1>11, <1>12, <1>13, <1>14 DEF EchoInv

\* What is true of the wire stays true when the next edit is put on it.
LEMMA WireGrows ==
  ASSUME IsSeq(wire), InOrder(wire), NEW sent, wire' = Append(wire, sent),
         \A m \in Elems(wire) : Wrote(m) => Num(m) < Num(sent)
  PROVE  InOrder(wire')
<1>1. /\ Len(wire) \in Nat /\ Len(wire') = Len(wire) + 1 /\ wire'[Len(wire) + 1] = sent
      /\ \A i \in 1 .. Len(wire) : wire'[i] = wire[i]
  <2>1. /\ Len(wire) \in Nat /\ Len(Append(wire, sent)) = Len(wire) + 1
        /\ Append(wire, sent)[Len(wire) + 1] = sent
        /\ \A i \in 1 .. Len(wire) : Append(wire, sent)[i] = wire[i]
    BY ElemsAppend
  <2> QED
    BY <2>1
<1> SUFFICES ASSUME NEW i \in 1 .. Len(wire'), NEW j \in 1 .. Len(wire'),
                    i < j, Wrote(wire'[i]), Wrote(wire'[j])
             PROVE  Num(wire'[i]) < Num(wire'[j])
  BY DEF InOrder
<1>2. i \in 1 .. Len(wire) /\ wire'[i] = wire[i]
  BY <1>1
<1>3. CASE j = Len(wire) + 1
  <2>1. wire[i] \in Elems(wire)
    BY <1>2 DEF Elems
  <2> QED
    BY <1>1, <1>2, <1>3, <2>1
<1>4. CASE j # Len(wire) + 1
  <2>1. j \in 1 .. Len(wire) /\ wire'[j] = wire[j]
    BY <1>1, <1>4
  <2> QED
    BY <1>2, <2>1 DEF InOrder
<1> QED
  BY <1>3, <1>4

\* An edit is published: it is the newest.
LEMMA PublishEcho ==
  ASSUME Sound, EchoInv, NEW c \in Callers, Publish(c) PROVE EchoInv'
<1>1. /\ AtLock(c) /\ caller[c].op # "pause" /\ holder' = c /\ clock' = clock + 1
      /\ clock < MaxVersion /\ link = "up"
      /\ UNCHANGED <<queue, lastVersion, confirmed, link, inbox, server>>
  BY DEF Publish, stateVars, queueVars
<1>2. clock \in Nat /\ clock' \in Nat /\ clock' \in 0 .. MaxVersion
  BY <1>1, Kinds, BoundsAssumption
<1>3. /\ holder = None /\ caller[c].pc = "waiting" /\ caller[c].op \in Operations \ {"pause"}
      /\ IsCall(caller[c])
  BY <1>1, LockIsFree DEF Sound, TInv, CallsTyped, CallTyped, IInv, Shape
<1>4. PICK ps \in Edited(c, Version(Self, clock')) :
        LET sent == [queue |-> Versioned(ps.queue, Version(Self, clock')), status |-> ps.status]
            previous == IF Moves(c)
                        THEN [navVersion |-> navVersion, unadopted |-> unadopted,
                              navStatus |-> navStatus]
                        ELSE None
        IN /\ caller' = [d \in Callers |->
                IF d = c
                THEN [caller[c] EXCEPT !.pc = "sending", !.sent = sent, !.epoch = epoch,
                                       !.previous = previous]
                ELSE IF previous # None /\ caller[d].pc \in {"decided", "waiting"}
                THEN [caller[d] EXCEPT !.passed = @ \union {clock'}]
                ELSE caller[d]]
           /\ wire' = Append(wire, sent)
           /\ IF Moves(c) THEN navVersion' = clock' /\ unadopted' = clock'
              ELSE navVersion' = navVersion /\ unadopted' = unadopted
  BY DEF Publish, navVars
<1>5. PICK sent : sent = [queue |-> Versioned(ps.queue, Version(Self, clock')),
                          status |-> ps.status]
  OBVIOUS
<1>6. PICK previous : previous = IF Moves(c)
                       THEN [navVersion |-> navVersion, unadopted |-> unadopted,
                             navStatus |-> navStatus]
                       ELSE None
  OBVIOUS
<1>7. Wrote(sent) /\ Num(sent) = clock'
  <2>1. ps.queue \in Queues
    BY <1>2, <1>3, EditedQueue DEF Sound
  <2>2. IsOwn(sent.queue)
    BY <1>2, <1>5, <2>1, OwnVersion
  <2>3. sent.queue # None
    BY <2>2, QueuesAre DEF IsOwn
  <2>4. sent.queue.version.number = clock'
    BY <1>5 DEF Versioned, Version
  <2> QED
    BY <2>3, <2>4 DEF Wrote, Num
<1>8. /\ caller'[c] = [caller[c] EXCEPT !.pc = "sending", !.sent = sent, !.epoch = epoch,
                                        !.previous = previous]
      /\ \A d \in Callers \ {c} :
           \/ caller'[d] = caller[d]
           \/ caller'[d] = [caller[d] EXCEPT !.passed = @ \union {clock'}]
      /\ wire' = Append(wire, sent)
  BY <1>4, <1>5, <1>6
<1>9. /\ caller'[c].op = caller[c].op /\ caller'[c].baseline = caller[c].baseline
      /\ caller'[c].sent = sent /\ caller'[c].previous = previous
  BY <1>3, <1>8 DEF IsCall
<1>10. ASSUME NEW d \in Callers \ {c}
       PROVE  /\ caller'[d].op = caller[d].op /\ caller'[d].baseline = caller[d].baseline
              /\ caller'[d].pc = caller[d].pc
  <2>1. IsCall(caller[d])
    BY DEF Sound, IInv, Shape
  <2> QED
    BY <1>8, <2>1 DEF IsCall
<1>11. /\ previous # None => caller[c].op \in Moving /\ navVersion' = clock' /\ unadopted' = clock'
                              /\ previous.unadopted = unadopted
       /\ \/ navVersion' = clock' /\ unadopted' = clock' /\ Moves(c)
          \/ navVersion' = navVersion /\ unadopted' = unadopted
  <2>1. Moves(c) => caller[c].op \in Moving
    BY DEF Moves, Moving
  <2> QED
    BY <1>4, <1>6, <2>1
<1>12. /\ history'.owed = (IF Moves(c) THEN history.owed \union {clock'} ELSE history.owed)
       /\ history'.following = history.following
  <2>1. PICK latest, target, ours :
          history' = [history EXCEPT !.born[clock'] = epoch,
                        !.owed = IF Moves(c) THEN @ \union {clock'} ELSE @,
                        !.latest = latest, !.target = target, !.ours = ours]
    BY DEF Publish
  <2> QED
    BY <2>1 DEF Sound, IInv, Shape
<1>13. Elems(wire') = Elems(wire) \union {sent}
  BY <1>8, Kinds, ElemsAppend
<1>14. \A m \in Elems(wire) : Wrote(m) => Num(m) \in Nat /\ Num(m) <= clock /\ Num(m) < Num(sent)
  BY <1>1, <1>2, <1>7, Kinds DEF EchoInv, Ordered
<1>15. InOrder(wire')
  BY <1>8, <1>14, Kinds, WireGrows DEF EchoInv, Ordered
<1>16. Ordered'
  <2>1. history'.owed \subseteq 1 .. clock'
    BY <1>1, <1>2, <1>12 DEF EchoInv, Ordered
  <2>2. ASSUME NEW q, Below(q, clock + 1), q.version.by = Self => q.version.number \in Nat
        PROVE  Below(q, clock') /\ Below(q, clock' + 1)
    BY <1>1, <1>2, <2>2 DEF Below
  <2>3. /\ Below(server.queue, clock') /\ Below(server.queue, clock' + 1)
        /\ \A f \in Elems(inbox) : HasQueue(f) =>
             Below(f.queue, clock') /\ Below(f.queue, clock' + 1)
    BY <2>2, Kinds DEF EchoInv, Ordered
  <2>4. ASSUME NEW m \in Elems(wire'), Wrote(m)
        PROVE  /\ Num(m) <= clock' /\ Below(server'.queue, Num(m))
               /\ \A f \in Elems(inbox') : HasQueue(f) => Below(f.queue, Num(m))
    <3>1. CASE m = sent
      BY <1>1, <1>2, <1>7, <2>3, <3>1
    <3>2. CASE m \in Elems(wire)
      BY <1>1, <1>2, <1>14, <2>4, <3>2 DEF EchoInv, Ordered
    <3> QED
      BY <1>13, <2>4, <3>1, <3>2
  <2>5. sent \in Elems(wire') /\ Wrote(sent) /\ Num(sent) = clock'
    BY <1>7, <1>13
  <2> QED
    BY <1>1, <1>15, <2>1, <2>3, <2>4, <2>5 DEF Ordered
<1>17. ASSUME NEW n \in Nat PROVE /\ OnWire(n) => OnWire(n)'
                                  /\ n <= clock' => OnWire(n)'
  BY <1>7, <1>13 DEF OnWire
<1>18. Reaches'
  <2>1. PICK n \in Nat : n = lastVersion
    BY Kinds
  <2>2. Stored(n)' /\ Answered(n)'
    BY <1>1, <1>17, <2>1 DEF EchoInv, Reaches, Stored, Answered
  <2>3. Stored(lastVersion)' /\ Answered(lastVersion)'
    BY <1>1, <2>1, <2>2 DEF Stored, Answered, OnWire
  <2>4. ASSUME NEW d \in Callers, Holds(d)' PROVE Stored(Number(d))' /\ Answered(Number(d))'
    <3>1. d = c
      BY <1>1, <2>4 DEF Holds
    <3>2. Number(c)' = clock'
      BY <1>7, <1>9 DEF Number, Num
    <3>3. PICK k \in Nat : k = clock' /\ OnWire(k)'
      BY <1>2, <1>17
    <3>4. OnWire(Number(c))'
      BY <3>2, <3>3 DEF OnWire
    <3> QED
      BY <3>1, <3>4 DEF Stored, Answered
  <2> QED
    BY <2>3, <2>4 DEF Reaches
<1>19. Converging'
  BY <1>7, <1>13 DEF Converging
<1>20. Registered'
  <2>1. ASSUME NEW d \in Callers, caller'[d].pc # "idle", caller'[d].op \in Moving
        PROVE  caller'[d].baseline.navigation \in 0 .. clock'
    <3>1. /\ caller[d].pc # "idle" /\ caller[d].op \in Moving
          /\ caller'[d].baseline = caller[d].baseline
      BY <1>3, <1>9, <1>10, <2>1
    <3>2. caller[d].baseline.navigation \in 0 .. clock
      BY <3>1 DEF EchoInv, Registered
    <3> QED
      BY <1>1, <1>2, <3>1, <3>2
  <2>2. ASSUME NEW d \in Callers, holder' = d, caller'[d].previous # None
        PROVE  /\ caller'[d].op \in Moving
               /\ navVersion' = Number(d)' /\ caller'[d].baseline.navigation < Number(d)'
               /\ caller'[d].previous.unadopted < Number(d)'
    <3>1. d = c /\ previous # None
      BY <1>1, <1>9, <2>2
    <3>2. Number(c)' = clock'
      BY <1>7, <1>9 DEF Number, Num
    <3>3. caller[c].baseline.navigation \in 0 .. clock
      BY <1>3, <1>11, <3>1 DEF EchoInv, Registered
    <3>4. unadopted \in 0 .. clock
      BY <1>2, Kinds DEF EchoInv, Owed, Ordered
    <3> QED
      BY <1>1, <1>2, <1>9, <1>11, <3>1, <3>2, <3>3, <3>4
  <2> QED
    BY <2>1, <2>2 DEF Registered
<1>21. Awaiting'
  <2> SUFFICES ASSUME history.following # None
               PROVE  /\ history.following.navigation \in Nat
                      /\ history.following.navigation < navVersion'
                      /\ Answered(navVersion)'
    BY <1>12 DEF Awaiting
  <2>1. /\ history.following.navigation \in Nat /\ history.following.navigation < navVersion
        /\ Answered(navVersion) /\ navVersion \in Nat /\ navVersion <= clock
    BY <1>1, Kinds DEF EchoInv, Awaiting, Sound, IInv, Counters
  <2>2. CASE navVersion' = clock'
    <3>1. PICK k \in Nat : k = clock' /\ OnWire(k)'
      BY <1>2, <1>17
    <3>2. OnWire(navVersion)'
      BY <2>2, <3>1 DEF OnWire
    <3> QED
      BY <1>1, <1>2, <2>1, <2>2, <3>2 DEF Answered
  <2>3. CASE navVersion' = navVersion
    <3>1. PICK n \in Nat : n = navVersion
      BY <2>1
    <3>2. Answered(n)'
      BY <1>1, <1>17, <2>1, <3>1 DEF Answered
    <3>3. Answered(navVersion)'
      BY <2>3, <3>1, <3>2 DEF Answered, OnWire
    <3> QED
      BY <2>1, <2>3, <3>3
  <2> QED
    BY <1>11, <2>2, <2>3
<1>22. Owed'
  <2>1. unadopted' # 0 => unadopted' \in history'.owed
    BY <1>11, <1>12 DEF EchoInv, Owed
  <2>2. ASSUME NEW d \in Callers, holder' = d, caller'[d].previous # None
        PROVE  /\ unadopted' \in {0, Number(d)'}
               /\ caller'[d].previous.unadopted # 0 =>
                    caller'[d].previous.unadopted \in history'.owed
    <3>1. d = c /\ previous # None
      BY <1>1, <1>9, <2>2
    <3>2. Number(c)' = clock'
      BY <1>7, <1>9 DEF Number, Num
    <3>3. unadopted # 0 => unadopted \in history.owed
      BY DEF EchoInv, Owed
    <3> QED
      BY <1>9, <1>11, <1>12, <3>1, <3>2, <3>3
  <2> QED
    BY <2>1, <2>2 DEF Owed
<1> QED
  BY <1>16, <1>18, <1>19, <1>20, <1>21, <1>22 DEF EchoInv

-----------------------------------------------------------------------------
(* The send returns, or the connection is lost                               *)

\* The send of an edit returns: its version is the last one.
LEMMA SentEcho ==
  ASSUME Sound, EchoInv, NEW c \in Callers, Sent(c) PROVE EchoInv'
<1>1. /\ holder = c /\ caller[c].op # "pause" /\ holder' = None /\ holder' # c
      /\ caller' = [caller EXCEPT ![c] = Idle] /\ Idle.pc = "idle" /\ Holds(c)
      /\ UNCHANGED <<queue, confirmed, navVersion, unadopted, clock, link, wire, inbox, server>>
  BY CallersAssumption DEF Sent, Free, Idle, Holds, stateVars, navVars, netVars
<1>2. CASE Superseded(c)
  <2>1. UNCHANGED <<lastVersion, history>>
    BY <1>2 DEF Sent
  <2> QED
    BY <1>1, <2>1, OneCallEcho
<1>3. CASE ~Superseded(c)
  <2>1. /\ lastVersion' = Number(c)
        /\ history'.owed = history.owed
        /\ history'.following = (IF caller[c].previous # None THEN caller[c].baseline
                                 ELSE history.following)
    BY <1>3 DEF Sent, Number, Sound, IInv, Shape
  <2>2. \A d \in Callers \ {c} : caller'[d] = caller[d]
    BY <1>1 DEF Sound, IInv, Shape
  <2>3. caller'[c].pc = "idle"
    BY <1>1 DEF Sound, IInv, Shape
  <2>4. \A d \in Callers : holder' # d
    BY <1>1, CallersAssumption
  <2>5. Ordered' /\ Converging'
    BY <1>1, <2>1 DEF EchoInv, Ordered, Converging
  <2>6. Reaches'
    <3>1. link = "up" => Stored(Number(c)) /\ Answered(Number(c))
      BY <1>1 DEF EchoInv, Reaches
    <3> QED
      BY <1>1, <2>1, <2>4, <3>1 DEF Reaches, Holds, Stored, Answered, OnWire
  <2>7. Registered'
    BY <1>1, <2>2, <2>3, <2>4 DEF EchoInv, Registered
  <2>8. Awaiting'
    <3> SUFFICES ASSUME link = "up", history'.following # None
                 PROVE  /\ history'.following.navigation \in Nat
                        /\ history'.following.navigation < navVersion
                        /\ Answered(navVersion)
      BY <1>1 DEF Awaiting, Answered, OnWire
    <3>1. CASE caller[c].previous # None
      <4>1. /\ caller[c].op \in Moving /\ navVersion = Number(c)
            /\ caller[c].baseline.navigation < Number(c)
        BY <1>1, <3>1 DEF EchoInv, Registered
      <4>2. caller[c].pc # "idle"
        BY <1>1 DEF Sound, IInv, PerCaller, InFlight
      <4>3. caller[c].baseline.navigation \in Nat
        BY <4>1, <4>2, Kinds DEF EchoInv, Registered
      <4>4. Answered(Number(c))
        BY <1>1 DEF EchoInv, Reaches
      <4> QED
        BY <2>1, <3>1, <4>1, <4>3, <4>4
    <3>2. CASE caller[c].previous = None
      BY <2>1, <3>2 DEF EchoInv, Awaiting
    <3> QED
      BY <3>1, <3>2
  <2>9. Owed'
    BY <1>1, <2>1, <2>4 DEF EchoInv, Owed
  <2> QED
    BY <2>5, <2>6, <2>7, <2>8, <2>9 DEF EchoInv
<1> QED
  BY <1>2, <1>3

\* The report of a pause returns.
LEMMA ReportedEcho ==
  ASSUME Sound, EchoInv, NEW c \in Callers, Reported(c) PROVE EchoInv'
<1>1. /\ holder' = None /\ holder' # c
      /\ caller' = [caller EXCEPT ![c] = Idle] /\ Idle.pc = "idle"
      /\ UNCHANGED <<queue, lastVersion, confirmed, navVersion, unadopted, clock, link, wire,
                     inbox, server, history>>
  BY CallersAssumption DEF Reported, Free, Idle, queueVars, netVars
<1> QED
  BY <1>1, OneCallEcho

\* A connection that is down owes nothing.
LEMMA DownEcho ==
  ASSUME Sound, EchoInv, link' = "broken", wire' = <<>>,
         UNCHANGED <<inbox, server, clock>>, history'.owed \subseteq history.owed,
         Registered', unadopted' # 0 => unadopted' \in history'.owed
  PROVE  EchoInv'
<1>1. Elems(wire') = {} /\ Len(wire') = 0
  BY ElemsNone
<1>2. InOrder(wire')
  BY <1>1 DEF InOrder
<1>3. Ordered'
  BY <1>1, <1>2 DEF EchoInv, Ordered
<1>4. Reaches' /\ Converging' /\ Awaiting'
  BY DEF Reaches, Converging, Awaiting
<1>5. Owed'
  BY <1>1 DEF Owed
<1> QED
  BY <1>3, <1>4, <1>5 DEF EchoInv

\* The connection is lost between two sends.
LEMMA LosesEcho == ASSUME Sound, EchoInv, Loses PROVE EchoInv'
<1>1. /\ link' = "broken" /\ wire' = <<>>
      /\ UNCHANGED <<inbox, server, clock, history, caller, holder, navVersion, unadopted>>
  BY DEF Loses, sendVars, navVars
<1>2. Registered'
  BY <1>1 DEF EchoInv, Registered, Number
<1> QED
  BY <1>1, <1>2, DownEcho DEF EchoInv, Owed

\* A send fails: the navigation that is taken back was not announced, and the one before
\* it waits again.
LEMMA SendFailsEcho ==
  ASSUME Sound, EchoInv, NEW c \in Callers, SendFails(c) PROVE EchoInv'
<1>1. /\ holder = c /\ holder' = None /\ link' = "broken" /\ wire' = <<>>
      /\ UNCHANGED <<inbox, server, clock>>
      /\ \E i \in 1 .. Len(wire) : wire[i] = caller[c].sent
      /\ caller' = [d \in Callers |->
           IF d = c THEN AfterFailure(c)
           ELSE IF caller[c].previous # None
           THEN [caller[d] EXCEPT !.passed = @ \ {Number(c)}]
           ELSE caller[d]]
  BY DEF SendFails, Number
<1>2. caller[c].sent \in Elems(wire) /\ caller[c].pc # "idle"
  BY <1>1 DEF Elems, Sound, IInv, PerCaller, InFlight
<1>3. ASSUME NEW d \in Callers, caller'[d].pc # "idle", caller'[d].op \in Moving
      PROVE  caller'[d].baseline.navigation \in 0 .. clock
  <2>1. CASE d = c
    BY <1>1, <1>2, <1>3, <2>1, FailureRemembers
  <2>2. CASE d # c
    <3>1. IsCall(caller[d])
      BY DEF Sound, IInv, Shape
    <3>2. caller'[d] = caller[d] \/ caller'[d] = [caller[d] EXCEPT !.passed = @ \ {Number(c)}]
      BY <1>1, <2>2
    <3>3. /\ caller'[d].pc = caller[d].pc /\ caller'[d].op = caller[d].op
          /\ caller'[d].baseline = caller[d].baseline
      BY <3>1, <3>2 DEF IsCall
    <3> QED
      BY <1>3, <3>3 DEF EchoInv, Registered
  <2> QED
    BY <2>1, <2>2
<1>4. \A d \in Callers : holder' # d
  BY <1>1, CallersAssumption
<1>5. Registered'
  BY <1>1, <1>3, <1>4 DEF Registered
<1>6. CASE caller[c].previous # None
  <2>1. unadopted' = caller[c].previous.unadopted /\ history'.owed = history.owed \ {Number(c)}
    <3>1. PICK target : history' = [history EXCEPT !.owed = @ \ {Number(c)}, !.target = target]
      BY <1>6 DEF SendFails, Number
    <3>2. history'.owed = history.owed \ {Number(c)}
      BY <3>1 DEF Sound, IInv, Shape
    <3> QED
      BY <1>6, <3>2 DEF SendFails
  <2>2. caller[c].previous.unadopted < Number(c)
    BY <1>1, <1>6 DEF EchoInv, Registered
  <2>3. caller[c].previous.unadopted # 0 => caller[c].previous.unadopted \in history.owed
    BY <1>1, <1>2, <1>6 DEF EchoInv, Owed
  <2>4. caller[c].previous.unadopted # Number(c)
    <3>1. caller[c].previous.unadopted \in Nat
      BY <1>6, BoundsAssumption DEF Sound, TInv, CallsTyped, CallTyped, IsPrevious
    <3> QED
      BY <2>2, <3>1
  <2> QED
    BY <1>1, <1>5, <2>1, <2>3, <2>4, DownEcho
<1>7. CASE caller[c].previous = None
  <2>1. unadopted' = unadopted /\ history'.owed = history.owed
    BY <1>7 DEF SendFails, navVars, Sound, IInv, Shape
  <2> QED
    BY <1>1, <1>5, <2>1, DownEcho DEF EchoInv, Owed
<1> QED
  BY <1>6, <1>7

\* A new connection starts from the state the server kept, and owes nothing.
LEMMA ReconnectsEcho == ASSUME Sound, EchoInv, Reconnects PROVE EchoInv'
<1>1. /\ holder = None /\ link = "broken" /\ link' = "up"
      /\ UNCHANGED <<confirmed, navVersion, caller, holder, clock, wire, server, queue>>
      /\ lastVersion' = 0 /\ unadopted' = 0
  BY DEF Reconnects, ResetPendingQueue, sendVars, stateVars
<1>2. history'.owed = history.owed /\ history'.following = None
  BY DEF Reconnects, Sound, IInv, Shape
<1>3. PICK f : inbox' = <<f>> /\ f.queue = server.queue
  <2>1. Frame(server.queue, server.status, server.active).queue = server.queue
    BY DEF Frame
  <2> QED
    BY <2>1 DEF Reconnects
<1>4. Elems(inbox') = {f} /\ Len(inbox') = 1 /\ inbox'[1] = f
  BY <1>3, ElemsOne
<1>5. Ordered'
  BY <1>1, <1>2, <1>3, <1>4 DEF EchoInv, Ordered
<1>6. \A c \in Callers : holder' # c
  BY <1>1, CallersAssumption
<1>7. Reaches'
  <2>1. server.queue.version.number \in Nat /\ confirmed \in Nat
    BY Kinds
  <2>2. 0 <= server'.queue.version.number /\ 0 <= confirmed'
    BY <1>1, <2>1
  <2>3. Stored(lastVersion)' /\ Answered(lastVersion)'
    BY <1>1, <2>2 DEF Stored, Answered
  <2> QED
    BY <1>6, <2>3 DEF Reaches, Holds
<1>8. Converging'
  <2>1. HasQueue(f)
    <3>1. server.queue # Absent
      BY Kinds, QueuesAre
    <3> QED
      BY <1>3, <3>1 DEF HasQueue
  <2>2. \A k \in 1 .. Len(inbox') : inbox'[k].queue = server'.queue
    BY <1>1, <1>3, <1>4
  <2> QED
    BY <1>4, <2>1, <2>2 DEF Converging
<1>9. Registered'
  BY <1>1, <1>6 DEF EchoInv, Registered
<1>10. Awaiting' /\ Owed'
  BY <1>1, <1>2, <1>6 DEF Awaiting, Owed
<1> QED
  BY <1>5, <1>7, <1>8, <1>9, <1>10 DEF EchoInv

-----------------------------------------------------------------------------
(* A frame is read                                                           *)

\* What reading a frame leaves alone of the calls.
LEMMA ReadCalls ==
  ASSUME Sound, Deliver, NEW c \in Callers
  PROVE  SameCall(c) /\ caller'[c].pc = caller[c].pc
<1>1. IsCall(caller[c]) /\ caller'[c] = Followed(c, Overtakes(Head(inbox)))
  BY DEF Deliver, Sound, IInv, Shape
<1>2. PICK what : \/ caller'[c] = caller[c]
                  \/ caller'[c] = [caller[c] EXCEPT !.overtaken = @ \union what]
                  \/ caller'[c] = [caller[c] EXCEPT !.meanwhile = @ \union what]
  BY <1>1 DEF Followed
<1> QED
  BY <1>1, <1>2 DEF IsCall, SameCall

\* An announced navigation was owed, and nothing of ours that is newer is on the wire.
LEMMA Announced ==
  ASSUME Sound, EchoInv, NEW f \in Elems(inbox), Navigated(f)
  PROVE  /\ unadopted \in history.owed /\ unadopted <= f.queue.version.number
         /\ \A m \in Elems(wire) : Wrote(m) => f.queue.version.number < Num(m)
<1>1. HasQueue(f) /\ f.queue.version.by = Self /\ unadopted # 0
      /\ unadopted <= f.queue.version.number
  BY Kinds DEF Navigated, Adopts, OwnQueue
<1>2. unadopted \in history.owed
  BY <1>1 DEF EchoInv, Owed
<1>3. \A m \in Elems(wire) : Wrote(m) => f.queue.version.number < Num(m)
  BY <1>1 DEF EchoInv, Ordered, Below
<1> QED
  BY <1>1, <1>2, <1>3

\* An obsolete frame is answered for by a newer one; any other is adopted.
LEMMA DeliverEcho == ASSUME Sound, EchoInv, Deliver PROVE EchoInv'
<1>1. PICK f : f = Head(inbox)
  OBVIOUS
<1>2. /\ inbox # <<>> /\ inbox' = Tail(inbox) /\ ParseQueue(f)
      /\ UNCHANGED <<holder, clock, link, wire, server, navVersion>>
  BY <1>1 DEF Deliver, ParseQueue
<1>3. /\ Elems(inbox) = Elems(inbox') \union {f}
      /\ Len(inbox) \in Nat \ {0} /\ Len(inbox') = Len(inbox) - 1 /\ f = inbox[1]
      /\ \A i \in 1 .. Len(inbox) - 1 : inbox'[i] = inbox[i + 1]
  BY <1>1, <1>2, Kinds, ElemsTail
<1>4. /\ history'.owed = (IF Navigated(f) THEN {v \in history.owed : v > f.queue.version.number}
                          ELSE history.owed)
      /\ history'.following = history.following
  BY <1>1 DEF Deliver, Sound, IInv, Shape
<1>5. /\ queue' = (IF HasQueue(f) /\ ~Obsolete(f) THEN f.queue ELSE queue)
      /\ lastVersion' \in {lastVersion, 0}
      /\ unadopted' \in {unadopted, 0} /\ (Navigated(f) => unadopted' = 0)
      /\ confirmed' = IF Adopts(f) THEN Most(confirmed, f.queue.version.number) ELSE confirmed
  BY <1>2 DEF ParseQueue
<1>6. Ordered'
  <2>1. history'.owed \subseteq history.owed
    BY <1>4
  <2> QED
    BY <1>2, <1>3, <2>1 DEF EchoInv, Ordered
<1>7. ASSUME NEW n, Stored(n) PROVE Stored(n)'
  BY <1>2, <1>7 DEF Stored, OnWire
<1>8. confirmed \in Nat /\ confirmed' \in Nat /\ confirmed <= confirmed'
      /\ (Adopts(f) => f.queue.version.number <= confirmed')
  <2>1. Adopts(f) => f.queue.version.number \in Nat
    BY <1>3, Kinds DEF Adopts, OwnQueue
  <2> QED
    BY <1>5, <2>1, Kinds DEF Most
<1>9. ASSUME NEW n \in Nat, Answered(n), link = "up" PROVE Answered(n)'
  <2>1. OnWire(n) => OnWire(n)'
    BY <1>2 DEF OnWire
  <2>2. CASE n <= confirmed
    BY <1>8, <2>2 DEF Answered
  <2>3. CASE OnWire(n)
    BY <2>1, <2>3 DEF Answered
  <2>4. CASE \E g \in Elems(inbox) : OwnQueue(g) /\ n <= g.queue.version.number
    <3>1. PICK g \in Elems(inbox) : OwnQueue(g) /\ n <= g.queue.version.number
      BY <2>4
    <3>2. CASE g \in Elems(inbox')
      BY <3>1, <3>2 DEF Answered, OwnQueue, HasQueue
    <3>3. CASE g \notin Elems(inbox') /\ Adopts(f)
      <4>1. g = f /\ f.queue.version.number \in Nat
        BY <1>3, <3>1, <3>3, Kinds DEF OwnQueue
      <4> QED
        BY <1>8, <3>1, <3>3, <4>1 DEF Answered
    <3>4. CASE g \notin Elems(inbox') /\ ~Adopts(f)
      <4>1. g = f /\ f.queue.version.number \in Nat /\ Obsolete(f)
        BY <1>3, <3>1, <3>4, Kinds DEF OwnQueue, Adopts
      <4>2. f.queue.version.number < lastVersion /\ lastVersion \in Nat
        BY <4>1, Kinds DEF Obsolete
      <4>3. Answered(lastVersion)
        BY <1>9 DEF EchoInv, Reaches
      <4>4. CASE lastVersion <= confirmed
        BY <1>8, <3>1, <4>1, <4>2, <4>4 DEF Answered
      <4>5. CASE OnWire(lastVersion)
        <5>1. PICK m \in Elems(wire) : Wrote(m) /\ lastVersion <= Num(m) /\ Num(m) \in Nat
          BY <4>5, Kinds DEF OnWire
        <5>2. n <= Num(m)
          BY <3>1, <4>1, <4>2, <5>1
        <5> QED
          BY <2>1, <5>1, <5>2 DEF OnWire, Answered
      <4>6. CASE \E h \in Elems(inbox) : OwnQueue(h) /\ lastVersion <= h.queue.version.number
        <5>1. PICK h \in Elems(inbox) : OwnQueue(h) /\ lastVersion <= h.queue.version.number
                                        /\ h.queue.version.number \in Nat
          BY <4>6, Kinds DEF OwnQueue
        <5>2. h # f /\ n <= h.queue.version.number
          BY <3>1, <4>1, <4>2, <5>1
        <5>3. h \in Elems(inbox')
          BY <1>3, <5>2
        <5> QED
          BY <5>1, <5>2, <5>3 DEF Answered, OwnQueue, HasQueue
      <4> QED
        BY <4>3, <4>4, <4>5, <4>6 DEF Answered
    <3> QED
      BY <3>2, <3>3, <3>4
  <2> QED
    BY <1>9, <2>2, <2>3, <2>4 DEF Answered
<1>10. Reaches'
  <2> SUFFICES ASSUME link = "up"
               PROVE  /\ Stored(lastVersion)' /\ Answered(lastVersion)'
                      /\ \A c \in Callers : Holds(c)' => Stored(Number(c))' /\ Answered(Number(c))'
    BY <1>2 DEF Reaches
  <2>1. Stored(0) /\ Answered(0)
    BY Kinds DEF Stored, Answered
  <2>2. PICK n \in Nat : n = lastVersion' /\ Stored(n) /\ Answered(n)
    BY <1>5, <2>1, Kinds DEF EchoInv, Reaches
  <2>3. Stored(n)' /\ Answered(n)'
    BY <1>7, <1>9, <2>2
  <2>4. Stored(lastVersion)' /\ Answered(lastVersion)'
    BY <2>2, <2>3 DEF Stored, Answered, OnWire
  <2>5. ASSUME NEW c \in Callers, Holds(c)' PROVE Stored(Number(c))' /\ Answered(Number(c))'
    <3>1. Holds(c) /\ Number(c)' = Number(c)
      BY <1>2, <2>5, ReadCalls DEF Holds, SameCall, Number
    <3>2. PICK k \in Nat : k = Number(c)
      BY <3>1, Kinds
    <3>3. Stored(k)' /\ Answered(k)'
      BY <1>7, <1>9, <3>1, <3>2 DEF EchoInv, Reaches
    <3>4. Number(c)' = k
      BY <3>1, <3>2
    <3> QED
      BY <3>3, <3>4 DEF Stored, Answered, OnWire
  <2> QED
    BY <2>4, <2>5
<1>11. Converging'
  <2> SUFFICES ASSUME link = "up", \A m \in Elems(wire) : ~Wrote(m)
               PROVE  /\ \A k \in 1 .. Len(inbox') :
                           HasQueue(inbox'[k])
                             /\ (\A j \in k + 1 .. Len(inbox') : ~HasQueue(inbox'[j]))
                           => inbox'[k].queue = server.queue
                      /\ (\A g \in Elems(inbox') : ~HasQueue(g)) => queue' = server.queue
    BY <1>2 DEF Converging
  <2>1. /\ \A k \in 1 .. Len(inbox) :
             HasQueue(inbox[k]) /\ (\A j \in k + 1 .. Len(inbox) : ~HasQueue(inbox[j]))
               => inbox[k].queue = server.queue
        /\ (\A g \in Elems(inbox) : ~HasQueue(g)) => queue = server.queue
    BY DEF EchoInv, Converging
  <2>2. ASSUME NEW k \in 1 .. Len(inbox'), HasQueue(inbox'[k]),
               \A j \in k + 1 .. Len(inbox') : ~HasQueue(inbox'[j])
        PROVE  inbox'[k].queue = server.queue
    <3>1. k + 1 \in 1 .. Len(inbox) /\ inbox'[k] = inbox[k + 1]
      BY <1>3
    <3>2. ASSUME NEW j \in (k + 1) + 1 .. Len(inbox) PROVE ~HasQueue(inbox[j])
      <4>1. j - 1 \in k + 1 .. Len(inbox') /\ j - 1 \in 1 .. Len(inbox) - 1 /\ (j - 1) + 1 = j
        BY <1>3, <3>1
      <4>2. inbox'[j - 1] = inbox[j]
        BY <1>3, <4>1
      <4> QED
        BY <2>2, <4>1, <4>2
    <3>3. HasQueue(inbox[k + 1])
      BY <2>2, <3>1
    <3>4. inbox[k + 1].queue = server.queue
      BY <2>1, <3>1, <3>2, <3>3
    <3> QED
      BY <3>1, <3>4
  <2>3. ASSUME \A g \in Elems(inbox') : ~HasQueue(g) PROVE queue' = server.queue
    <3>1. CASE ~HasQueue(f)
      BY <1>3, <1>5, <2>1, <2>3, <3>1
    <3>2. CASE HasQueue(f)
      <4>1. ASSUME NEW j \in 1 + 1 .. Len(inbox) PROVE ~HasQueue(inbox[j])
        <5>1. j - 1 \in 1 .. Len(inbox') /\ j - 1 \in 1 .. Len(inbox) - 1 /\ (j - 1) + 1 = j
          BY <1>3
        <5>2. inbox'[j - 1] = inbox[j]
          BY <1>3, <5>1
        <5>3. inbox'[j - 1] \in Elems(inbox')
          BY <5>1 DEF Elems
        <5> QED
          BY <2>3, <5>2, <5>3
      <4>2. f.queue = server.queue
        <5>1. 1 \in 1 .. Len(inbox) /\ inbox[1] = f
          BY <1>3
        <5> QED
          BY <2>1, <3>2, <4>1, <5>1
      <4>3. ~Obsolete(f)
        <5> SUFFICES ASSUME Obsolete(f) PROVE FALSE
          OBVIOUS
        <5>1. /\ server.queue.version.by = Self /\ server.queue.version.number < lastVersion
              /\ server.queue.version.number \in Nat /\ lastVersion \in Nat
          BY <4>2, Kinds DEF Obsolete, OwnQueue
        <5>2. Stored(lastVersion) /\ ~OnWire(lastVersion)
          BY DEF EchoInv, Reaches, OnWire
        <5> QED
          BY <5>1, <5>2 DEF Stored
      <4> QED
        BY <1>5, <3>2, <4>2, <4>3
    <3> QED
      BY <3>1, <3>2
  <2> QED
    BY <2>2, <2>3
<1>12. Registered'
  BY <1>2, ReadCalls DEF EchoInv, Registered, SameCall, Number
<1>13. Awaiting'
  <2> SUFFICES ASSUME link = "up", history.following # None
               PROVE  /\ history.following.navigation \in Nat
                      /\ history.following.navigation < navVersion
                      /\ Answered(navVersion)'
    BY <1>2, <1>4 DEF Awaiting
  <2>1. PICK n \in Nat : n = navVersion
    BY Kinds
  <2>2. Answered(n)'
    BY <1>9, <2>1 DEF EchoInv, Awaiting
  <2>3. Answered(navVersion)'
    BY <1>2, <2>1, <2>2 DEF Answered, OnWire
  <2> QED
    BY <2>3 DEF EchoInv, Awaiting
<1>14. Owed'
  <2>1. unadopted' # 0 => unadopted' \in history'.owed
    BY <1>4, <1>5 DEF EchoInv, Owed
  <2>2. ASSUME NEW c \in Callers, holder' = c, caller'[c].previous # None,
               caller'[c].sent \in Elems(wire')
        PROVE  /\ unadopted' \in {0, Number(c)'}
               /\ caller'[c].previous.unadopted # 0 =>
                    caller'[c].previous.unadopted \in history'.owed
    <3>1. /\ holder = c /\ caller[c].previous # None /\ caller[c].sent \in Elems(wire)
          /\ Number(c)' = Number(c) /\ caller'[c].previous = caller[c].previous
      BY <1>2, <2>2, ReadCalls DEF SameCall, Number
    <3>2. /\ unadopted \in {0, Number(c)}
          /\ caller[c].previous.unadopted # 0 => caller[c].previous.unadopted \in history.owed
      BY <3>1 DEF EchoInv, Owed
    <3>3. ~Navigated(f)
      <4> SUFFICES ASSUME Navigated(f) PROVE FALSE
        OBVIOUS
      <4>1. /\ unadopted <= f.queue.version.number
            /\ \A m \in Elems(wire) : Wrote(m) => f.queue.version.number < Num(m)
        BY <1>3, Announced
      <4>2. Holds(c)
        BY <3>1 DEF EchoInv, Registered, Holds, Moving, Advances
      <4>3. Wrote(caller[c].sent) /\ Num(caller[c].sent) = Number(c) /\ Number(c) \in Nat
        BY <4>2, Kinds, QueuesAre DEF Wrote, Num, Number
      <4>4. unadopted # 0 /\ f.queue.version.number \in Nat
        BY <1>3, Kinds DEF Navigated, Adopts, OwnQueue
      <4> QED
        BY <3>1, <3>2, <4>1, <4>3, <4>4
    <3> QED
      BY <1>4, <1>5, <3>1, <3>2, <3>3
  <2> QED
    BY <2>1, <2>2 DEF Owed
<1> QED
  BY <1>6, <1>10, <1>11, <1>12, <1>13, <1>14 DEF EchoInv

-----------------------------------------------------------------------------
(* The invariant and what follows from it                                    *)

\* The initial states satisfy the invariant: nothing of ours is anywhere.
LEMMA InitEcho == Init => EchoInv
<1> SUFFICES ASSUME Init PROVE EchoInv
  OBVIOUS
<1>1. /\ wire = <<>> /\ inbox = <<>> /\ clock = 0 /\ lastVersion = 0 /\ confirmed = 0
      /\ unadopted = 0 /\ navVersion = 0 /\ holder = None /\ server.queue = queue
      /\ history.owed = {} /\ history.following = None
  BY DEF Init
<1>2. queue.version.by # Self
  BY PeerIsAnother DEF Init, Versioned, Version
<1>3. Elems(wire) = {} /\ Elems(inbox) = {} /\ Len(wire) = 0 /\ Len(inbox) = 0
  BY <1>1, ElemsNone
<1>4. \A c \in Callers : holder # c /\ caller[c].pc = "idle"
  BY <1>1, CallersAssumption DEF Init, Idle
<1>5. Ordered
  BY <1>1, <1>2, <1>3 DEF Ordered, InOrder, Below
<1>6. Reaches
  BY <1>1, <1>2, <1>4 DEF Reaches, Holds, Stored, Answered
<1>7. Converging
  BY <1>1, <1>3 DEF Converging
<1>8. Registered /\ Awaiting /\ Owed
  BY <1>1, <1>4 DEF Registered, Awaiting, Owed
<1> QED
  BY <1>5, <1>6, <1>7, <1>8 DEF EchoInv

\* Time, and steps of nobody.
LEMMA TimeEcho ==
  ASSUME Sound, EchoInv, PendingExpires \/ MarkExpires \/ UNCHANGED vars PROVE EchoInv'
<1>1. /\ UNCHANGED <<queue, lastVersion, confirmed, navVersion, unadopted, clock, link, wire,
                     inbox, server, caller, holder>>
      /\ history'.owed = history.owed /\ history'.following = history.following
  <2>1. CASE PendingExpires
    BY <2>1 DEF PendingExpires, stateVars, navVars, sendVars, netVars, Sound, IInv, Shape
  <2>2. CASE MarkExpires
    BY <2>2 DEF MarkExpires, stateVars, queueVars, navVars, netVars
  <2>3. CASE UNCHANGED vars
    BY <2>3 DEF vars, stateVars, queueVars, navVars, sendVars, netVars
  <2> QED
    BY <2>1, <2>2, <2>3
<1>2. \A c \in Callers : SameCall(c) /\ Remembers(c)
  BY <1>1 DEF SameCall, Remembers, EchoInv, Registered
<1> QED
  BY <1>1, <1>2, CallsEcho

\* Every step keeps the invariant.
LEMMA NextEcho == Sound /\ EchoInv /\ [Next]_vars => EchoInv'
<1> SUFFICES ASSUME Sound, EchoInv, [Next]_vars PROVE EchoInv'
  OBVIOUS
<1>1. ASSUME NEW c \in Callers, Caller(c) PROVE EchoInv'
  <2>1. CASE \E op \in Ops[c] : Decide(c, op) \/ CallNow(c, op)
    <3>1. PICK op \in Operations : Decide(c, op) \/ CallNow(c, op)
      BY <2>1, OpsAssumption
    <3> QED
      BY <3>1, MovesEcho
  <2>2. CASE Call(c) \/ GiveUp(c)
    <3>1. "next" \in Operations
      BY DEF Operations
    <3> QED
      BY <2>2, <3>1, MovesEcho
  <2>3. CASE Publish(c) \/ Report(c)
    BY <2>3, PublishEcho, ReportEcho
  <2>4. CASE Sent(c) \/ Reported(c) \/ SendFails(c)
    BY <2>4, SentEcho, ReportedEcho, SendFailsEcho
  <2> QED
    BY <1>1, <2>1, <2>2, <2>3, <2>4 DEF Caller
<1>2. CASE Deliver
  BY <1>2, DeliverEcho
<1>3. CASE Loses \/ Reconnects
  BY <1>3, LosesEcho, ReconnectsEcho
<1>4. CASE Environment
  <2>1. CASE ServerTakes
    BY <2>1, ReportTaken, EditTaken
  <2> QED
    BY <1>4, <2>1, PeerEcho DEF Environment
<1>5. CASE PendingExpires \/ MarkExpires \/ UNCHANGED vars
  BY <1>5, TimeEcho
<1> QED
  BY <1>1, <1>2, <1>3, <1>4, <1>5 DEF Next

\* Every reachable state satisfies what the types say, the counters, and the order of our
\* versions between the client, the wire, the server and the frames.
THEOREM EchoInvariance == Spec => []Sound /\ []EchoInv
<1>1. Spec => []TInv
  BY InitTInv, NextTInv, Invariance, PTL DEF Spec
<1>2. TInv /\ IInv => Sound
  BY DEF Sound
<1>3. Spec => []Sound
  BY <1>1, <1>2, Invariance, PTL
<1> QED
  BY <1>3, InitEcho, NextEcho, PTL DEF Spec

\* When everything sent has been answered, the queue adopted here is the one the server
\* keeps: no echo was wrongly dropped as obsolete, none wrongly kept.
THEOREM QueuesConverge == Spec => []AdoptedConverges
<1>1. EchoInv => AdoptedConverges
  <2> SUFFICES ASSUME EchoInv, Quiet PROVE queue = server.queue
    BY DEF AdoptedConverges
  <2>1. link = "up" /\ Elems(wire) = {} /\ Elems(inbox) = {}
    BY ElemsNone DEF Quiet
  <2> QED
    BY <2>1 DEF EchoInv, Converging
<1> QED
  BY <1>1, EchoInvariance, PTL

\* The navigation that a stream waits for has settled by then: its answer was not misread.
THEOREM WaitingSettles == Spec => []NobodyLeftWaiting
<1>1. Sound /\ EchoInv => NobodyLeftWaiting
  <2> SUFFICES ASSUME Sound, EchoInv, Quiet, history.following # None
               PROVE  NavigationConfirmed(history.following)
    BY DEF NobodyLeftWaiting
  <2>1. link = "up" /\ Elems(wire) = {} /\ Elems(inbox) = {}
    BY ElemsNone DEF Quiet
  <2>2. /\ history.following.navigation \in Nat /\ history.following.navigation < navVersion
        /\ navVersion <= confirmed
    BY <2>1 DEF EchoInv, Awaiting, Answered, OnWire
  <2>3. navVersion \in Nat /\ confirmed \in Nat
    BY Kinds
  <2> QED
    BY <2>2, <2>3 DEF NavigationConfirmed
<1> QED
  BY <1>1, EchoInvariance, PTL

\* A frame that announces a navigation announces one that was published and not announced
\* before, nor taken back by a failed send.
THEOREM OneAnnouncement == Spec => AnnouncedOnce
<1> DEFINE Step == inbox # <<>> /\ inbox' = Tail(inbox) /\ link' = link /\ flags'.navigated
                     => \E v \in history.owed : v <= queue'.version.number
<1>1. Sound /\ EchoInv /\ [Next]_vars => [Step]_vars
  <2> SUFFICES ASSUME Sound, EchoInv, Next, inbox # <<>>, inbox' = Tail(inbox), link' = link,
                      flags'.navigated
               PROVE  \E v \in history.owed : v <= queue'.version.number
    OBVIOUS
  <2>1. /\ IsSeq(inbox) /\ Len(inbox) \in Nat \ {0} /\ Len(inbox') = Len(inbox) - 1
        /\ Elems(inbox) = Elems(Tail(inbox)) \union {Head(inbox)}
    BY Kinds, ElemsTail
  <2>2. Deliver
    <3>1. inbox' # inbox
      <4>1. PICK n \in Nat \ {0} : n = Len(inbox) /\ Len(inbox') = n - 1
        BY <2>1
      <4>2. Len(inbox') # Len(inbox)
        BY <4>1
      <4> QED
        BY <4>2
    <3>2. ASSUME NEW c \in Callers PROVE ~Caller(c)
      BY <3>1 DEF Caller, Decide, CallNow, Call, GiveUp, Publish, Report, Sent, Reported,
                  SendFails, netVars
    <3>3. ~PendingExpires /\ ~MarkExpires /\ ~Loses
      BY <3>1 DEF PendingExpires, MarkExpires, Loses, netVars
    <3>4. ~Reconnects
      BY DEF Reconnects
    <3>5. ~Environment
      <4>1. ASSUME NEW frame, Broadcast(<<frame>>) PROVE FALSE
        <5>1. inbox' = Append(inbox, frame)
          BY <2>1, <3>1, <4>1, OneArrives
        <5>2. PICK n \in Nat \ {0} : n = Len(inbox) /\ Len(inbox') = n - 1
          BY <2>1
        <5>3. Len(Append(inbox, frame)) = n + 1
          BY <2>1, <5>2, ElemsAppend
        <5>4. Len(Append(inbox, frame)) = n - 1
          BY <5>1, <5>2
        <5> QED
          BY <5>3, <5>4
      <4>2. ~Broadcast(<<>>)
        <5>1. PICK S : inbox \in Seq(S)
          BY <2>1 DEF IsSeq
        <5>2. inbox \o <<>> = inbox
          BY <5>1
        <5> QED
          BY <3>1, <5>2 DEF Broadcast
      <4>3. ~ServerTakes
        BY <4>1, <4>2 DEF ServerTakes
      <4> QED
        BY <4>1, <4>3 DEF Environment, PeerPlays, PeerEditsOptions, PeerCommands, PeerTakesOver,
                          PeerHandsBack, Relay
    <3> QED
      BY <3>2, <3>3, <3>4, <3>5 DEF Next
  <2>3. PICK f \in Elems(inbox) : f = Head(inbox) /\ Navigated(f)
    BY <2>1, <2>2 DEF Deliver, ParseStatus
  <2>4. unadopted \in history.owed /\ unadopted <= f.queue.version.number
    BY <2>3, Announced
  <2>5. queue' = f.queue
    BY <2>2, <2>3 DEF Deliver, ParseQueue, Navigated, Adopts, OwnQueue
  <2> QED
    BY <2>4, <2>5
<1> QED
  BY <1>1, EchoInvariance, PTL DEF Spec, AnnouncedOnce

-----------------------------------------------------------------------------
(* Own edits compose                                                         *)

\* While the newest own edit is young and no other device has edited the queue since, it
\* is the pending one, or an echo of it or of a later one was adopted.
Composed ==
    history.mine # 0 /\ fresh =>
        /\ lastVersion = history.mine
        /\ pending # None => pending.version.by = Self /\ pending.version.number = history.mine
        /\ pending = None => queue.version.by = Self /\ history.mine <= queue.version.number

\* Steps that neither forget the edit nor touch the queue.
LEMMA ComposedApart ==
  ASSUME Composed, UNCHANGED <<queue, pending, lastVersion>>, history'.mine = history.mine,
         fresh' => fresh
  PROVE  Composed'
  BY DEF Composed

\* The send of an edit returns: it is the pending one.
LEMMA SentComposed ==
  ASSUME Sound, Composed, NEW c \in Callers, Sent(c) PROVE Composed'
<1>1. holder = c /\ caller[c].op # "pause" /\ queue' = queue
  BY DEF Sent, stateVars
<1>2. CASE Superseded(c)
  BY <1>1, <1>2, ComposedApart DEF Sent
<1>3. CASE ~Superseded(c)
  <2>1. /\ pending' = caller[c].sent.queue /\ lastVersion' = caller[c].sent.queue.version.number
        /\ history'.mine = caller[c].sent.queue.version.number
    BY <1>3 DEF Sent, Sound, IInv, Shape
  <2>2. IsOwn(caller[c].sent.queue)
    BY <1>1 DEF Sound, TInv, CallsTyped, CallTyped, IInv, PerCaller, InFlight
  <2>3. caller[c].sent.queue # None /\ caller[c].sent.queue.version.by = Self
    BY <2>2, QueuesAre DEF IsOwn
  <2> QED
    BY <2>1, <2>3 DEF Composed
<1> QED
  BY <1>2, <1>3

\* A frame is read: an echo that is adopted is not older than the edit; what is not an
\* echo is an edit of another device or changes nothing.
LEMMA DeliverComposed ==
  ASSUME Sound, Composed, Deliver PROVE Composed'
<1> DEFINE f == Head(inbox)
<1>1. /\ ParseQueue(f)
      /\ history'.mine = IF ForeignEdit(f) THEN 0 ELSE history.mine
  BY DEF Deliver, Sound, IInv, Shape
<1>2. HasQueue(f) => f.queue.version.number \in Nat
  <2>1. f \in Elems(inbox)
    BY Kinds, ElemsTail DEF Deliver
  <2> QED
    BY <2>1, Kinds
<1> HIDE DEF f
<1> SUFFICES ASSUME history'.mine # 0, fresh'
             PROVE  /\ lastVersion' = history'.mine
                    /\ pending' # None =>
                         pending'.version.by = Self /\ pending'.version.number = history'.mine
                    /\ pending' = None =>
                         queue'.version.by = Self /\ history'.mine <= queue'.version.number
  BY DEF Composed
<1>3. ~ForeignEdit(f) /\ history'.mine = history.mine /\ ~Replaces(f) /\ ~ReOptions(f)
  BY <1>1 DEF Replaces, ReOptions
<1>4. /\ ~(ActiveAfter(f) # active) /\ fresh /\ lastVersion' = lastVersion
      /\ pending' = IF Adopts(f) /\ lastVersion # 0 THEN None ELSE pending
      /\ queue' = IF HasQueue(f) /\ ~Obsolete(f) THEN f.queue ELSE queue
  BY <1>1, <1>3 DEF ParseQueue
<1>5. /\ lastVersion = history.mine /\ lastVersion # 0 /\ lastVersion \in Nat
      /\ pending # None => pending.version.by = Self /\ pending.version.number = history.mine
      /\ pending = None => queue.version.by = Self /\ history.mine <= queue.version.number
  BY <1>3, <1>4, Kinds DEF Composed
<1>6. CASE Adopts(f)
  <2>1. f.queue.version.by = Self /\ lastVersion <= f.queue.version.number /\ HasQueue(f)
    BY <1>2, <1>5, <1>6 DEF Adopts, OwnQueue, Obsolete
  <2> QED
    BY <1>3, <1>4, <1>5, <1>6, <2>1 DEF Adopts
<1>7. CASE ~Adopts(f)
  <2>1. queue' = queue /\ pending' = pending
    BY <1>3, <1>4, <1>7 DEF Adopts, ForeignEdit, Obsolete
  <2> QED
    BY <1>3, <1>4, <1>5, <2>1
<1> QED
  BY <1>6, <1>7

\* Every step.
LEMMA NextComposed == Sound /\ Composed /\ [Next]_vars => Composed'
<1> SUFFICES ASSUME Sound, Composed, [Next]_vars PROVE Composed'
  OBVIOUS
<1>1. ASSUME NEW c \in Callers, Caller(c), ~Sent(c) PROVE Composed'
  <2>1. UNCHANGED <<queue, pending, lastVersion, fresh>> /\ history'.mine = history.mine
    <3>1. CASE \E op \in Ops[c] : Decide(c, op) \/ CallNow(c, op)
      BY <3>1 DEF Decide, CallNow, stateVars, queueVars
    <3>2. CASE Call(c) \/ GiveUp(c)
      BY <3>2 DEF Call, GiveUp, stateVars, queueVars
    <3>3. CASE Publish(c) \/ Report(c)
      BY <3>3 DEF Publish, Report, stateVars, queueVars, Sound, IInv, Shape
    <3>4. CASE Reported(c) \/ SendFails(c)
      BY <3>4 DEF Reported, SendFails, stateVars, queueVars, Sound, IInv, Shape
    <3> QED
      BY <1>1, <3>1, <3>2, <3>3, <3>4 DEF Caller
  <2> QED
    BY <2>1, ComposedApart
<1>2. ASSUME NEW c \in Callers, Sent(c) PROVE Composed'
  BY <1>2, SentComposed
<1>3. CASE Deliver
  BY <1>3, DeliverComposed
<1>4. CASE PendingExpires
  BY <1>4 DEF PendingExpires, Composed
<1>5. CASE Reconnects
  <2>1. ~fresh'
    BY <1>5 DEF Reconnects, ResetPendingQueue
  <2> QED
    BY <2>1 DEF Composed
<1>6. CASE MarkExpires \/ Loses \/ Environment \/ UNCHANGED vars
  <2>1. UNCHANGED <<queue, pending, lastVersion, fresh>> /\ history'.mine = history.mine
    <3>1. CASE MarkExpires
      BY <3>1 DEF MarkExpires, stateVars, queueVars
    <3>2. CASE Loses
      BY <3>2 DEF Loses, stateVars, queueVars
    <3>3. CASE ServerTakes
      BY <3>3 DEF ServerTakes, stateVars, queueVars
    <3>4. CASE \E act : Foreign(act)
      BY <3>4 DEF Foreign, stateVars, queueVars
    <3>5. CASE UNCHANGED vars
      BY <3>5 DEF vars, stateVars, queueVars
    <3> QED
      BY <1>6, <3>1, <3>2, <3>3, <3>4, <3>5 DEF Environment, PeerPlays, PeerEditsOptions,
         PeerCommands, PeerTakesOver, PeerHandsBack, Relay
  <2> QED
    BY <2>1, ComposedApart
<1> QED
  BY <1>1, <1>2, <1>3, <1>4, <1>5, <1>6 DEF Next

\* Own edits compose, however many of them are unconfirmed and however late, or overtaken,
\* their echoes are: the next edit starts from the newest one until another device edits.
THEOREM EditsCompose == Spec => []OwnEditsCompose
<1>1. Init => Composed
  BY DEF Init, Composed
<1>2. Sound /\ Composed => OwnEditsCompose
  <2> SUFFICES ASSUME Sound, Composed, history.mine # 0, fresh
               PROVE  Snapshot.version.by = Self /\ Snapshot.version.number >= history.mine
    BY DEF OwnEditsCompose
  <2>1. lastVersion = history.mine /\ lastVersion \in Nat
    BY Kinds DEF Composed
  <2>2. CASE pending # None
    BY <2>1, <2>2 DEF Composed, Snapshot
  <2>3. CASE pending = None
    <3>1. Snapshot = queue /\ queue.version.by = Self /\ history.mine <= queue.version.number
      BY <2>3 DEF Composed, Snapshot
    <3>2. queue.version.number \in Nat
      BY QueuesAre DEF Sound, TInv, StateTyped
    <3> QED
      BY <2>1, <3>1, <3>2
  <2> QED
    BY <2>2, <2>3
<1> QED
  BY <1>1, <1>2, NextComposed, EchoInvariance, PTL DEF Spec

-----------------------------------------------------------------------------
(* An edit stays on the item a navigation went to                            *)

Turning == \E c \in Callers : holder = c /\ caller[c].previous # None

\* While a navigation waits for its echo, and our own edits alone built the queue since, the
\* pending queue is at the item it went to, and so is an edit that is being sent.
Aimed == unadopted # 0 /\ history.target \notin {None, {}} /\ history.ours =>
    /\ ~Turning => /\ fresh /\ pending # None /\ unadopted <= lastVersion
                   /\ CurrentPlayable(pending) = history.target
    /\ \A c \in Callers : Holds(c) =>
         /\ CurrentPlayable(caller[c].sent.queue) = history.target
         /\ unadopted <= Number(c) /\ caller[c].epoch = epoch

\* What a publication leaves: the edit on its way, of the current generation, and where it
\* went if it navigates.
LEMMA Publishing ==
  ASSUME Sound, NEW c \in Callers, Publish(c)
  PROVE  \E ps \in Edited(c, Version(Self, clock')) :
           /\ caller'[c].sent.queue = Versioned(ps.queue, Version(Self, clock'))
           /\ caller'[c].epoch = epoch /\ (caller'[c].previous = None <=> ~Moves(c))
           /\ \A d \in Callers : caller'[d].op = caller[d].op
                                  /\ (caller'[d].pc = caller[d].pc \/ d = c)
           /\ unadopted' = IF Moves(c) THEN clock' ELSE unadopted
           /\ history'.target = IF Moves(c) THEN CurrentPlayable(caller'[c].sent.queue)
                                ELSE history.target
           /\ history'.ours = (Moves(c) \/ (history.ours /\ UpToDate(c)))
<1>1. PICK ps \in Edited(c, Version(Self, clock')) :
        LET sent == [queue |-> Versioned(ps.queue, Version(Self, clock')), status |-> ps.status]
            previous == IF Moves(c)
                        THEN [navVersion |-> navVersion, unadopted |-> unadopted,
                              navStatus |-> navStatus]
                        ELSE None
        IN /\ caller' = [d \in Callers |->
                IF d = c
                THEN [caller[c] EXCEPT !.pc = "sending", !.sent = sent, !.epoch = epoch,
                                       !.previous = previous]
                ELSE IF previous # None /\ caller[d].pc \in {"decided", "waiting"}
                THEN [caller[d] EXCEPT !.passed = @ \union {clock'}]
                ELSE caller[d]]
           /\ IF Moves(c) THEN navVersion' = clock' /\ unadopted' = clock'
              ELSE navVersion' = navVersion /\ unadopted' = unadopted
  BY DEF Publish, navVars
<1>2. PICK sent : sent = [queue |-> Versioned(ps.queue, Version(Self, clock')),
                          status |-> ps.status]
  OBVIOUS
<1>3. PICK previous : previous = IF Moves(c)
                       THEN [navVersion |-> navVersion, unadopted |-> unadopted,
                             navStatus |-> navStatus]
                       ELSE None
  OBVIOUS
<1>4. /\ caller'[c] = [caller[c] EXCEPT !.pc = "sending", !.sent = sent, !.epoch = epoch,
                                        !.previous = previous]
      /\ \A d \in Callers \ {c} :
           \/ caller'[d] = caller[d]
           \/ caller'[d] = [caller[d] EXCEPT !.passed = @ \union {clock'}]
  BY <1>1, <1>2, <1>3
<1>5. /\ caller'[c].op = caller[c].op /\ caller'[c].sent = sent
      /\ caller'[c].previous = previous /\ caller'[c].epoch = epoch
  BY <1>4 DEF Sound, IInv, Shape, IsCall
<1>6. ASSUME NEW d \in Callers \ {c}
      PROVE  caller'[d].op = caller[d].op /\ caller'[d].pc = caller[d].pc
  <2>1. IsCall(caller[d])
    BY DEF Sound, IInv, Shape
  <2>2. \/ caller'[d] = caller[d]
        \/ caller'[d] = [caller[d] EXCEPT !.passed = @ \union {clock'}]
    BY <1>4
  <2> QED
    BY <2>1, <2>2 DEF IsCall
<1>7. previous = None <=> ~Moves(c)
  <2>1. /\ navVersion \in Nat /\ unadopted \in Nat
        /\ navStatus \in Statuses \union {None}
    BY Kinds DEF Sound, TInv, PendingTyped
  <2>2. previous \in [navVersion : Nat, unadopted : Nat, navStatus : Statuses \union {None}]
          \/ ~Moves(c)
    BY <1>3, <2>1
  <2>3. previous = None <=> ~Moves(c)
    BY <1>3, <2>2, RegistrationAssumption
  <2> QED
    BY <2>3
<1>8. /\ history'.target = IF Moves(c) THEN CurrentPlayable(caller'[c].sent.queue)
                           ELSE history.target
      /\ history'.ours = (Moves(c) \/ (history.ours /\ UpToDate(c)))
  <2>1. PICK born, owed, latest :
          history' = [history EXCEPT !.born = born, !.owed = owed, !.latest = latest,
                        !.target = IF Moves(c) THEN CurrentPlayable(caller'[c].sent.queue)
                                   ELSE @,
                        !.ours = Moves(c) \/ (@ /\ UpToDate(c))]
    BY DEF Publish
  <2> QED
    BY <2>1 DEF Sound, IInv, Shape
<1>9. sent.queue = Versioned(ps.queue, Version(Self, clock'))
  BY <1>2
<1>10. unadopted' = IF Moves(c) THEN clock' ELSE unadopted
  BY <1>1
<1> QED
  BY <1>5, <1>6, <1>7, <1>8, <1>9, <1>10

\* An append that extends the list it finds stays on the current item, if there is one,
\* also when the list is trimmed in front of it.
LEMMA AppendStays ==
  ASSUME Sound, CurrentPlayable(Snapshot) # {},
         NEW ps, ps = ReplaceItems(Base, Append(Snapshot.items, NewItem))
  PROVE  CurrentPlayable(Versioned(ps.queue, Version(Self, clock'))) = CurrentPlayable(Snapshot)
<1>1. /\ Base = [queue |-> Base.queue, status |-> Base.status] /\ Base.queue = Snapshot
  BY DEF Base
<1>2. IsQueue(Snapshot) /\ Snapshot.items \in Seq(Playables)
  BY DEF Sound, TInv, StateTyped, PendingTyped, Snapshot, IsQueue, Queues
<1>3. PICK n \in Nat : n = Len(Snapshot.items)
  BY <1>2
<1>4. PICK i \in 0 .. n - 1 : i = Snapshot.current
  BY <1>3 DEF CurrentPlayable, Positions, Size
<1>5. PICK items : items = Append(Snapshot.items, NewItem)
  OBVIOUS
<1>6. /\ items \in Seq(Playables) /\ Len(items) = n + 1
      /\ items[i + 1] = Snapshot.items[i + 1]
  BY <1>2, <1>3, <1>4, <1>5 DEF Playables
<1>7. PICK d \in 0 .. i : d = Dropped(Snapshot, items)
  BY <1>4, <1>6, WindowAssumption DEF Dropped, Least, Most
<1>8. CurrentPlayable(Snapshot) = {Snapshot.items[i + 1]}
  BY <1>3, <1>4 DEF CurrentPlayable, Positions, Size
<1>9. CASE Snapshot.shuffled
  <2>1. ps.queue.items = items /\ ps.queue.current = i
    BY <1>1, <1>2, <1>4, <1>5, <1>9 DEF ReplaceItems, IsQueue, Queues
  <2>2. ps.queue.current \in Positions(ps.queue)
    BY <1>6, <2>1 DEF Positions, Size
  <2>3. ps.queue.items[ps.queue.current + 1] = Snapshot.items[i + 1]
    BY <1>6, <2>1
  <2> QED
    BY <1>8, <2>2, <2>3 DEF CurrentPlayable, Versioned, Positions, Size
<1>10. CASE ~Snapshot.shuffled
  <2>1. ps.queue.items = SubSeq(items, d + 1, Len(items)) /\ ps.queue.current = i - d
    BY <1>1, <1>2, <1>4, <1>5, <1>7, <1>10 DEF ReplaceItems, IsQueue, Queues
  <2>2. /\ Len(ps.queue.items) = n + 1 - d
        /\ ps.queue.items[i - d + 1] = items[i + 1]
    BY <1>6, <2>1
  <2>3. i - d \in 0 .. Len(ps.queue.items) - 1
    BY <2>2
  <2>4. ps.queue.current \in Positions(ps.queue)
    BY <2>1, <2>3 DEF Positions, Size
  <2>5. ps.queue.items[ps.queue.current + 1] = Snapshot.items[i + 1]
    BY <1>6, <2>1, <2>2
  <2> QED
    BY <1>8, <2>4, <2>5 DEF CurrentPlayable, Versioned, Positions, Size
<1> QED
  BY <1>9, <1>10

\* An edit of the options, or an advance with nowhere to go, stays on the item it finds,
\* and so does an append that extends the list it finds.
LEMMA EditStays ==
  ASSUME Sound, NEW c \in Callers, Publish(c), ~Moves(c), UpToDate(c),
         CurrentPlayable(Snapshot) # {}, NEW version, NEW ps \in Edited(c, version)
  PROVE  CurrentPlayable(Versioned(ps.queue, Version(Self, clock'))) = CurrentPlayable(Snapshot)
<1>0. CASE caller[c].op = "append"
  <2>1. ps = ReplaceItems(Base, Append(Snapshot.items, NewItem))
    BY <1>0 DEF Edited, Advances, UpToDate
  <2> QED
    BY <2>1, AppendStays
<1> SUFFICES ASSUME caller[c].op # "append"
             PROVE  CurrentPlayable(Versioned(ps.queue, Version(Self, clock')))
                      = CurrentPlayable(Snapshot)
  BY <1>0
<1>1. /\ Base = [queue |-> Base.queue, status |-> Base.status] /\ Base.queue = Snapshot
      /\ Snapshot.items = Base.queue.items
  BY DEF Base
<1>2. IsQueue(Snapshot)
  BY DEF Sound, TInv, StateTyped, PendingTyped, Snapshot
<1>3. ps.queue.items = Snapshot.items /\ ps.queue.current = Snapshot.current
  <2>1. CASE caller[c].op \in Advances
    <3>1. PICK natural \in BOOLEAN : natural = (caller[c].op = "end")
      OBVIOUS
    <3>2. ps = Navigate(Base, natural, version)
      BY <2>1, <3>1 DEF Edited, Advances
    <3>3. Outcome(Snapshot, natural) \notin {"change", "radio"}
      BY <2>1, <3>1 DEF Moves, NothingToPublish, Publish
    <3>4. CASE Outcome(Snapshot, natural) = "stop"
      <4>1. ps = [Base EXCEPT !.status = Finished(version)]
        BY <1>1, <3>2, <3>4 DEF Navigate
      <4> QED
        BY <1>1, <4>1
    <3>5. CASE Outcome(Snapshot, natural) # "stop"
      <4>1. PlannedIndex(Snapshot, natural) = {Snapshot.current}
        BY <3>3, <3>5 DEF Outcome
      <4>2. PICK i : i = CHOOSE j \in PlannedIndex(Snapshot, natural) : TRUE
        OBVIOUS
      <4>3. i = Snapshot.current
        BY <4>1, <4>2
      <4>4. ps = [Base EXCEPT !.queue.current = i, !.status = Beginning(version)]
        BY <1>1, <3>2, <3>3, <3>5, <4>2 DEF Navigate
      <4> QED
        BY <1>1, <1>2, <4>3, <4>4 DEF IsQueue, Queues
    <3> QED
      BY <3>4, <3>5
  <2>2. CASE caller[c].op = "repeat"
    <3>1. PICK m : ps = [Base EXCEPT !.queue.repeat = m]
      BY <2>2 DEF Edited, SetRepeat, Advances
    <3> QED
      BY <1>1, <1>2, <3>1 DEF IsQueue, Queues
  <2>3. CASE caller[c].op = "shuffle"
    <3>1. ps \in SetShuffle(Base, ~Snapshot.shuffled)
      BY <2>3 DEF Edited, Advances
    <3>2. PICK shuffled, order :
            ps = [Base EXCEPT !.queue.shuffled = shuffled, !.queue.order = order]
      BY <3>1 DEF SetShuffle, ShuffleOn, ShuffleOff
    <3> QED
      BY <1>1, <1>2, <3>2 DEF IsQueue, Queues
  <2>4. caller[c].op \in Operations
    BY DEF Sound, TInv, CallsTyped, CallTyped, Publish, AtLock
  <2> QED
    BY <2>1, <2>2, <2>3, <2>4 DEF Operations, Publish, Moves, Advances
<1> QED
  BY <1>3 DEF CurrentPlayable, Versioned, Positions, Size

\* The edit that is published goes, or stays, where the navigation went.
LEMMA PublishAimed ==
  ASSUME Sound, Aimed, NEW c \in Callers, Publish(c) PROVE Aimed'
<1>1. PICK ps \in Edited(c, Version(Self, clock')) :
        /\ caller'[c].sent.queue = Versioned(ps.queue, Version(Self, clock'))
        /\ caller'[c].epoch = epoch /\ (caller'[c].previous = None <=> ~Moves(c))
        /\ \A d \in Callers : caller'[d].op = caller[d].op
        /\ unadopted' = IF Moves(c) THEN clock' ELSE unadopted
        /\ history'.target = IF Moves(c) THEN CurrentPlayable(caller'[c].sent.queue)
                             ELSE history.target
        /\ history'.ours = (Moves(c) \/ (history.ours /\ UpToDate(c)))
  BY Publishing
<1>2. /\ holder' = c /\ holder = None /\ clock' = clock + 1 /\ link = "up"
      /\ UNCHANGED <<pending, fresh, lastVersion, epoch>>
      /\ caller[c].pc # "idle"
  BY DEF Publish, AtLock, queueVars
<1>3. Number(c)' = clock'
  BY <1>1 DEF Number, Versioned, Version
<1>4. \A d \in Callers : Holds(d)' => d = c
  BY <1>2 DEF Holds
<1>5. clock \in Nat /\ unadopted \in Nat /\ lastVersion \in 0 .. clock
  BY <1>2, Kinds, LastHandedOut
<1>6. CASE Moves(c)
  <2>1. Turning'
    BY <1>1, <1>2, <1>6 DEF Turning
  <2>2. unadopted' <= Number(c)' /\ caller'[c].epoch = epoch'
    BY <1>1, <1>2, <1>3, <1>5, <1>6
  <2> QED
    BY <1>1, <1>4, <1>6, <2>1, <2>2 DEF Aimed
<1>7. CASE ~Moves(c)
  <2> SUFFICES ASSUME unadopted # 0, history.target \notin {None, {}}, history.ours, UpToDate(c)
               PROVE  Aimed'
    BY <1>1, <1>7 DEF Aimed
  <2>1. ~Turning
    BY <1>2, CallersAssumption DEF Turning
  <2>2. /\ fresh /\ pending # None /\ unadopted <= lastVersion
        /\ CurrentPlayable(pending) = history.target
    BY <2>1 DEF Aimed
  <2>3. Snapshot = pending
    BY <2>2 DEF Snapshot
  <2>4. CurrentPlayable(caller'[c].sent.queue) = history.target
    BY <1>1, <1>7, <2>2, <2>3, EditStays
  <2>5. unadopted <= Number(c)'
    BY <1>2, <1>3, <1>5, <2>2
  <2>6. history'.target = history.target /\ unadopted' = unadopted
    BY <1>1, <1>7
  <2> QED
    BY <1>1, <1>2, <1>4, <2>2, <2>4, <2>5, <2>6 DEF Aimed
<1> QED
  BY <1>6, <1>7

\* Steps that leave the navigation, the pending queue and what is being sent alone.
LEMMA AimedApart ==
  ASSUME Aimed, UNCHANGED <<unadopted, pending, fresh, lastVersion, epoch>>,
         history'.target = history.target, history'.ours = history.ours,
         holder' = holder \/ holder' = None,
         Turning => Turning',
         \A c \in Callers : Holds(c)' =>
            Holds(c) /\ caller'[c].sent = caller[c].sent /\ caller'[c].epoch = caller[c].epoch
  PROVE  Aimed'
  BY DEF Aimed, Number

\* A frame is read: an echo that is adopted ends the navigation, or is older than the
\* pending queue and not adopted.
LEMMA DeliverAimed == ASSUME Sound, Aimed, Deliver PROVE Aimed'
<1> DEFINE f == Head(inbox)
<1>0. /\ ParseQueue(f) /\ holder' = holder
      /\ history'.target = history.target
      /\ history'.ours = (history.ours /\ ~ForeignEdit(f))
  BY DEF Deliver, Sound, IInv, Shape
<1>2. HasQueue(f) => f.queue.version.number \in Nat
  <2>1. f \in Elems(inbox)
    BY Kinds, ElemsTail DEF Deliver
  <2> QED
    BY <2>1, Kinds
<1> HIDE DEF f
<1> SUFFICES ASSUME unadopted' # 0, history'.target \notin {None, {}}, history'.ours
             PROVE  Aimed'
  BY DEF Aimed
<1>1. /\ ParseQueue(f) /\ ~ForeignEdit(f) /\ holder' = holder
      /\ history'.target = history.target /\ history.ours
  BY <1>0
<1>3. /\ ~Replaces(f) /\ ~ReOptions(f) /\ ActiveAfter(f) = active /\ ~Navigated(f)
      /\ unadopted' = unadopted /\ fresh' = fresh /\ lastVersion' = lastVersion
      /\ epoch' = epoch
      /\ pending' = IF Adopts(f) /\ lastVersion # 0 THEN None ELSE pending
  <2>1. ~Replaces(f) /\ ~ReOptions(f)
    BY <1>1 DEF Replaces, ReOptions
  <2>2. ActiveAfter(f) = active /\ ~Navigated(f)
    BY <1>1 DEF ParseQueue
  <2>3. epoch \in Nat
    BY DEF Sound, IInv, Counters
  <2> QED
    BY <1>1, <2>1, <2>2, <2>3 DEF ParseQueue
<1>4. \A c \in Callers : SameCall(c) /\ caller'[c].epoch = caller[c].epoch
  <2> SUFFICES ASSUME NEW c \in Callers PROVE caller'[c].epoch = caller[c].epoch
    BY ReadCalls
  <2>1. IsCall(caller[c]) /\ caller'[c] = Followed(c, Overtakes(Head(inbox)))
    BY DEF Deliver, Sound, IInv, Shape
  <2>2. PICK what : \/ caller'[c] = caller[c]
                    \/ caller'[c] = [caller[c] EXCEPT !.overtaken = @ \union what]
                    \/ caller'[c] = [caller[c] EXCEPT !.meanwhile = @ \union what]
    BY <2>1 DEF Followed
  <2> QED
    BY <2>1, <2>2 DEF IsCall
<1>5. Turning <=> Turning'
  BY <1>1, <1>4 DEF Turning, SameCall
<1>6. \A c \in Callers : Holds(c)' => Holds(c) /\ Number(c)' = Number(c)
  BY <1>1, <1>4 DEF Holds, SameCall, Number
<1>7. ASSUME NEW c \in Callers, Holds(c)'
      PROVE  /\ CurrentPlayable(caller'[c].sent.queue) = history'.target
             /\ unadopted' <= Number(c)' /\ caller'[c].epoch = epoch'
  BY <1>1, <1>3, <1>4, <1>6, <1>7 DEF Aimed, SameCall
<1>8. ASSUME ~Turning'
      PROVE  /\ fresh' /\ pending' # None /\ unadopted' <= lastVersion'
             /\ CurrentPlayable(pending') = history'.target
  <2>1. /\ fresh /\ pending # None /\ unadopted <= lastVersion
        /\ CurrentPlayable(pending) = history.target
    BY <1>1, <1>3, <1>5, <1>8 DEF Aimed
  <2>2. ~Adopts(f)
    <3> SUFFICES ASSUME Adopts(f) PROVE FALSE
      OBVIOUS
    <3>1. f.queue.version.number \in Nat /\ lastVersion \in Nat /\ unadopted \in Nat
      BY <1>2, Kinds DEF Adopts, OwnQueue
    <3>2. lastVersion # 0 /\ lastVersion <= f.queue.version.number
      BY <1>3, <2>1, <3>1 DEF Adopts, Obsolete
    <3> QED
      BY <1>3, <2>1, <3>1, <3>2 DEF Navigated
  <2> QED
    BY <1>1, <1>3, <2>1, <2>2
<1> QED
  BY <1>7, <1>8 DEF Aimed

\* The send of an edit returns: it is the pending one, and where the navigation went.
LEMMA SentAimed == ASSUME Sound, Aimed, NEW c \in Callers, Sent(c) PROVE Aimed'
<1>1. /\ Holds(c) /\ holder' = None /\ UNCHANGED <<unadopted, epoch>>
      /\ history'.target = history.target /\ history'.ours = history.ours
  BY DEF Sent, Holds, Free, navVars, Sound, IInv, Shape
<1>2. \A d \in Callers : ~Holds(d)'
  BY <1>1, CallersAssumption DEF Holds
<1> SUFFICES ASSUME unadopted # 0, history.target \notin {None, {}}, history.ours PROVE Aimed'
  BY <1>1 DEF Aimed
<1>3. /\ CurrentPlayable(caller[c].sent.queue) = history.target
      /\ unadopted <= Number(c) /\ ~Superseded(c)
  BY <1>1 DEF Aimed, Superseded
<1>4. /\ pending' = caller[c].sent.queue /\ fresh' /\ lastVersion' = Number(c)
      /\ pending' # None
  <2>1. caller[c].sent.queue # None
    BY <1>1, Kinds, QueuesAre
  <2> QED
    BY <1>3, <2>1 DEF Sent, Number
<1> QED
  BY <1>1, <1>2, <1>3, <1>4 DEF Aimed

\* A send fails, and with it the navigation if it was one.
LEMMA SendFailsAimed == ASSUME Sound, Aimed, NEW c \in Callers, SendFails(c) PROVE Aimed'
<1>1. /\ holder = c /\ holder' = None /\ UNCHANGED <<pending, fresh, lastVersion, epoch>>
  BY DEF SendFails, queueVars
<1>2. CASE caller[c].previous # None
  <2>1. history'.target = None
    BY <1>2 DEF SendFails, Sound, IInv, Shape
  <2> QED
    BY <2>1 DEF Aimed
<1>3. CASE caller[c].previous = None
  <2>1. unadopted' = unadopted /\ history'.target = history.target
        /\ history'.ours = history.ours
    BY <1>3 DEF SendFails, navVars, Sound, IInv, Shape
  <2>2. ~Turning
    BY <1>1, <1>3 DEF Turning
  <2>3. \A d \in Callers : ~Holds(d)'
    BY <1>1, CallersAssumption DEF Holds
  <2> QED
    BY <1>1, <2>1, <2>2, <2>3, AimedApart
<1> QED
  BY <1>2, <1>3

\* A call of somebody who is not sending changes nothing that is sent.
LEMMA CallsAimed ==
  ASSUME Sound, Aimed, NEW c \in Callers, NEW op,
         Decide(c, op) \/ CallNow(c, op) \/ Call(c) \/ GiveUp(c)
  PROVE  Aimed'
<1>1. /\ UNCHANGED <<unadopted, pending, fresh, lastVersion, epoch, holder, history>>
      /\ caller[c].pc # "sending"
  BY DEF Decide, CallNow, Call, GiveUp, AtLock, queueVars, navVars
<1>2. holder # c
  BY <1>1 DEF Sound, IInv, PerCaller, InFlight
<1>3. ASSUME NEW d \in Callers \ {c} PROVE caller'[d] = caller[d]
  <2>1. caller = [e \in Callers |-> caller[e]]
    BY DEF Sound, IInv, Shape
  <2>2. CASE GiveUp(c)
    <3>1. PICK call : caller' = [caller EXCEPT ![c] = call]
      BY <2>2 DEF GiveUp
    <3> QED
      BY <2>1, <3>1
  <2>3. CASE Decide(c, op) \/ CallNow(c, op)
    <3>1. PICK call : caller' = [caller EXCEPT ![c] = call]
      BY <2>3 DEF Decide, CallNow
    <3> QED
      BY <2>1, <3>1
  <2>4. CASE Call(c)
    BY <2>1, <2>4 DEF Call
  <2> QED
    BY <2>2, <2>3, <2>4
<1>4. \A d \in Callers : holder = d => caller'[d] = caller[d]
  BY <1>2, <1>3
<1> QED
  BY <1>1, <1>4, AimedApart DEF Turning, Holds

\* Every step.
LEMMA NextAimed ==
  ASSUME Sound, EchoInv, Aimed, [Next]_vars PROVE Aimed'
<1>1. ASSUME NEW c \in Callers, Caller(c) PROVE Aimed'
  <2>1. CASE \E op \in Ops[c] : Decide(c, op) \/ CallNow(c, op)
    BY <2>1, CallsAimed
  <2>2. CASE Call(c) \/ GiveUp(c)
    BY <2>2, CallsAimed
  <2>3. CASE Publish(c)
    BY <2>3, PublishAimed
  <2>4. CASE Report(c)
    <3>1. /\ holder = None /\ holder' = c /\ caller[c].op = "pause"
          /\ UNCHANGED <<unadopted, pending, fresh, lastVersion, epoch>>
          /\ history'.target = history.target /\ history'.ours = history.ours
      BY <2>4 DEF Report, AtLock, queueVars, navVars, Sound, IInv, Shape
    <3>2. caller'[c].op = "pause"
      <4>1. PICK sent : caller' = [caller EXCEPT ![c].pc = "sending", ![c].sent = sent]
        BY <2>4 DEF Report
      <4> QED
        BY <3>1, <4>1 DEF Sound, IInv, Shape, IsCall
    <3>3. ~Turning /\ \A d \in Callers : ~Holds(d)'
      BY <3>1, <3>2, CallersAssumption DEF Turning, Holds
    <3> QED
      BY <3>1, <3>3 DEF Aimed
  <2>5. CASE Sent(c)
    BY <2>5, SentAimed
  <2>6. CASE Reported(c)
    <3>1. /\ holder = c /\ holder' = None /\ caller[c].op = "pause"
          /\ UNCHANGED <<unadopted, pending, fresh, lastVersion, epoch, history>>
      BY <2>6 DEF Reported, Free, queueVars
    <3>2. ~Turning
      BY <3>1 DEF Turning, Sound, IInv, PerCaller, InFlight
    <3>3. \A d \in Callers : ~Holds(d)'
      BY <3>1, CallersAssumption DEF Holds
    <3> QED
      BY <3>1, <3>2, <3>3, AimedApart
  <2>7. CASE SendFails(c)
    BY <2>7, SendFailsAimed
  <2> QED
    BY <1>1, <2>1, <2>2, <2>3, <2>4, <2>5, <2>6, <2>7 DEF Caller
<1>2. CASE Deliver
  BY <1>2, DeliverAimed
<1>3. CASE PendingExpires
  <2>1. history'.target = None
    BY <1>3 DEF PendingExpires, Sound, IInv, Shape
  <2> QED
    BY <2>1 DEF Aimed
<1>4. CASE Reconnects
  <2>1. unadopted' = 0
    BY <1>4 DEF Reconnects, ResetPendingQueue
  <2> QED
    BY <2>1 DEF Aimed
<1>5. CASE MarkExpires \/ Loses \/ Environment \/ UNCHANGED vars
  <2>1. UNCHANGED <<unadopted, pending, fresh, lastVersion, epoch, holder, history, caller>>
    BY <1>5 DEF MarkExpires, Loses, Environment, ServerTakes, PeerPlays, PeerEditsOptions,
       PeerCommands, PeerTakesOver, PeerHandsBack, Relay, Foreign, vars, queueVars, navVars,
       sendVars
  <2> QED
    BY <2>1, AimedApart DEF Turning, Holds
<1> QED
  BY <1>1, <1>2, <1>3, <1>4, <1>5 DEF Next

\* What starts to be sent by an edit of the queue is published.
LEMMA SendingStarts ==
  ASSUME Sound, Next, NEW c \in Callers, caller[c].op # "pause",
         caller[c].pc = "waiting", caller'[c].pc = "sending"
  PROVE  Publish(c)
<1>1. /\ caller = [d \in Callers |-> caller[d]] /\ \A d \in Callers : IsCall(caller[d])
      /\ \A d \in Callers : AfterFailure(d).pc # "sending"
  BY DEF Sound, IInv, Shape, AfterFailure, Again, Request, Idle
<1>2. ASSUME NEW d \in Callers, Caller(d) PROVE Publish(c)
  <2>1. CASE Publish(d)
    BY <2>1, Publishing
  <2>2. CASE (\E op \in Ops[d] : Decide(d, op) \/ CallNow(d, op)) \/ GiveUp(d)
               \/ Sent(d) \/ Reported(d)
    <3>1. PICK call : caller' = [caller EXCEPT ![d] = call] /\ call.pc # "sending"
      BY <1>1, <2>2 DEF Decide, CallNow, GiveUp, Sent, Reported, Free, Request, Idle
    <3>2. caller'[c] = IF c = d THEN call ELSE caller[c]
      BY <1>1, <3>1
    <3> QED
      BY <3>1, <3>2
  <2>3. CASE Call(d)
    <3>1. caller'[c].pc # "sending" \/ caller'[c] = caller[c]
      BY <1>1, <2>3 DEF Call, Idle, IsCall
    <3> QED
      BY <3>1
  <2>4. CASE Report(d)
    <3>1. PICK sent : caller' = [caller EXCEPT ![d].pc = "sending", ![d].sent = sent]
      BY <2>4 DEF Report
    <3>2. c # d
      BY <2>4 DEF Report
    <3> QED
      BY <1>1, <3>1, <3>2
  <2>5. CASE SendFails(d)
    <3>1. PICK v : \/ caller'[c] = AfterFailure(c)
                   \/ caller'[c] = [caller[c] EXCEPT !.passed = @ \ {v}]
                   \/ caller'[c] = caller[c]
      <4>1. PICK v :
              caller' = [e \in Callers |->
                IF e = d THEN AfterFailure(d)
                ELSE IF caller[d].previous # None
                THEN [caller[e] EXCEPT !.passed = @ \ {v}]
                ELSE caller[e]]
        BY <2>5 DEF SendFails
      <4> QED
        BY <4>1
    <3>2. caller'[c].pc = caller[c].pc \/ caller'[c].pc # "sending"
      BY <1>1, <3>1 DEF IsCall
    <3> QED
      BY <3>2
  <2> QED
    BY <1>2, <2>1, <2>2, <2>3, <2>4, <2>5 DEF Caller
<1>3. CASE Deliver
  BY <1>3, ReadCalls
<1>4. CASE PendingExpires \/ MarkExpires \/ Loses \/ Reconnects \/ Environment
  <2>1. UNCHANGED caller
    BY <1>4 DEF PendingExpires, MarkExpires, Loses, Reconnects, Environment, ServerTakes,
       PeerPlays, PeerEditsOptions, PeerCommands, PeerTakesOver, PeerHandsBack, Relay, Foreign,
       sendVars
  <2> QED
    BY <2>1
<1> QED
  BY <1>2, <1>3, <1>4 DEF Next

\* An edit behind a skip, also one that waited for the lock while it was sent, stays on the
\* item that skip went to until its echo arrives or thirty seconds pass, as long as our own
\* edits alone built the queue since, each append for the list it extended: late echoes,
\* seeks, pauses, hand-overs, lost connections, failed sends and trims do not matter.
THEOREM SkipsAreKept == Spec => SkipNotUndone
<1> DEFINE Step == \A c \in Callers : EditsBehindSkip(c) /\ history'.ours => Stays(c)
<1>1. Init => Aimed
  BY DEF Init, Aimed
<1>2. Sound /\ EchoInv /\ Aimed /\ [Next]_vars => Aimed'
  BY NextAimed
<1>3. Sound /\ EchoInv /\ Aimed /\ [Next]_vars => [Step]_vars
  <2> SUFFICES ASSUME Sound, EchoInv, Aimed, Next, NEW c \in Callers,
                      EditsBehindSkip(c), history'.ours
               PROVE  Stays(c)
    OBVIOUS
  <2>1. Publish(c)
    BY SendingStarts DEF EditsBehindSkip, OptionEdits
  <2>2. PICK ps \in Edited(c, Version(Self, clock')) :
          /\ caller'[c].sent.queue = Versioned(ps.queue, Version(Self, clock'))
          /\ history'.ours = (Moves(c) \/ (history.ours /\ UpToDate(c)))
    BY <2>1, Publishing
  <2>3. ~Moves(c) /\ ~Turning
    BY <2>1, CallersAssumption DEF EditsBehindSkip, Moves, OptionEdits, Advances, Turning,
       Publish, AtLock
  <2>4. history.ours /\ UpToDate(c)
    BY <2>2, <2>3
  <2>5. /\ fresh /\ pending # None /\ CurrentPlayable(pending) = history.target
        /\ CurrentPlayable(pending) # {}
    BY <2>3, <2>4 DEF Aimed, EditsBehindSkip
  <2>6. Snapshot = pending
    BY <2>5 DEF Snapshot
  <2> QED
    BY <2>1, <2>2, <2>3, <2>4, <2>5, <2>6, EditStays DEF Stays
<1> HIDE DEF Step
<1>4. Spec => [][Step]_vars
  BY <1>1, <1>2, <1>3, EchoInvariance, PTL DEF Spec
<1> QED
  BY <1>4 DEF SkipNotUndone, Step
=============================================================================
