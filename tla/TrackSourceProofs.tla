-------------------------- MODULE TrackSourceProofs --------------------------
(***************************************************************************)
(* Proofs about TrackSource, for every number of provider objects, tracks, *)
(* formats and attempts: what the stream yields comes from the provider    *)
(* that is linked and belongs to its account.                              *)
(***************************************************************************)
EXTENDS TrackSource, NaturalsInduction, WellFoundedInduction, TLAPS

\* The fields that records keep through EXCEPT.
IsFetch(r) ==
    r = [pc |-> r.pc, track |-> r.track, object |-> r.object, attempt |-> r.attempt,
         details |-> r.details]
IsStream(r) == r = [pc |-> r.pc, track |-> r.track, object |-> r.object, details |-> r.details]

Shape ==
    /\ fetch = [w \in Workers |-> fetch[w]] /\ \A w \in Workers : IsFetch(fetch[w])
    /\ IsStream(stream)

\* Details that are about to be cached, or that a track is streamed with, belong to the
\* account: those of another one got no further than the check that found them.
Cleared(r) == r.pc = "caching" => r.details.account = "own"
Opened(s) == s.pc \in {"reporting", "queued", "playing"} => s.details.account = "own"

\* A chunk is remembered while its track plays.
Yielded ==
    chunk # None =>
      /\ stream.pc = "playing"
      /\ chunk.account = "own" /\ chunk.object = chunk.linked

SInv ==
    /\ Shape
    /\ \A w \in Workers : Cleared(fetch[w])
    /\ Opened(stream)
    /\ Yielded

\* What an operation does to the stream: nothing, or it enters a state without a chunk
\* of its track yet.
Enters ==
    \/ stream' = stream /\ chunk' = chunk
    \/ IsStream(stream') /\ Opened(stream') /\ chunk' = None

-----------------------------------------------------------------------------
\* The initial states satisfy SInv.
LEMMA InitSInv == Init => SInv
  BY DEF Init, SInv, Shape, IsFetch, IsStream, Cleared, Opened, Yielded, NoFetch, Off

\* Steps that leave the workers and the stream alone.
LEMMA Apart ==
  ASSUME SInv, UNCHANGED <<fetch, stream, chunk>> PROVE SInv'
  BY DEF SInv, Shape, IsFetch, IsStream, Cleared, Opened, Yielded

\* One worker goes on, and the stream goes on, stops or does nothing.
LEMMA OneFetch ==
  ASSUME SInv, NEW w \in Workers, NEW r, fetch' = [fetch EXCEPT ![w] = r],
         IsFetch(r), Cleared(r), Enters
  PROVE  SInv'
<1>1. fetch' = [v \in Workers |-> fetch'[v]]
      /\ \A v \in Workers : fetch'[v] = IF v = w THEN r ELSE fetch[v]
  BY DEF SInv, Shape
<1>2. \A v \in Workers : IsFetch(fetch'[v]) /\ Cleared(fetch'[v])
  BY <1>1 DEF SInv, Shape
<1>3. IsStream(stream') /\ Opened(stream') /\ Yielded'
  BY DEF Enters, SInv, Shape, Yielded
<1> QED
  BY <1>1, <1>2, <1>3 DEF SInv, Shape, IsFetch, IsStream, Cleared, Opened

\* SInv through a step of the stream that leaves the lookups alone.
LEMMA OnlyStream == ASSUME SInv, fetch' = fetch, Enters PROVE SInv'
<1>1. IsStream(stream') /\ Opened(stream') /\ Yielded'
  BY DEF Enters, SInv, Shape, Yielded
<1> QED
  BY <1>1 DEF SInv, Shape, IsFetch, IsStream, Cleared, Opened

\* A lookup that is dropped holds nothing.
LEMMA Dropped ==
  ASSUME NEW w \in Workers
  PROVE  Drop(w) = [fetch EXCEPT ![w] = NoFetch] /\ IsFetch(NoFetch) /\ Cleared(NoFetch)
  BY DEF Drop, NoFetch, IsFetch, Cleared

\* A stream that ends yields nothing more.
LEMMA Stops == ASSUME StopStream PROVE Enters
<1>1. stream' = [Off EXCEPT !.pc = "ended"] /\ chunk' = None
  BY DEF StopStream, Streaming
<1>2. IsStream([Off EXCEPT !.pc = "ended"]) /\ Opened([Off EXCEPT !.pc = "ended"])
  BY DEF Off, IsStream, Opened
<1> QED
  BY <1>1, <1>2 DEF Enters

\* Details of the account that are got, for the prefetch or for the stream.
LEMMA GotKeeps ==
  ASSUME SInv, NEW w \in Workers, NEW details, details.account = "own", Got(w, details)
  PROVE  SInv'
<1>1. fetch' = Drop(w)
  BY DEF Got
<1>2. Enters
  <2>1. CASE w = "prefetch"
    BY <2>1 DEF Got, Spawn, streamVars, Enters
  <2>2. CASE w # "prefetch" /\ ~Current(fetch[w].object)
    BY <2>2, Stops DEF Got
  <2>3. CASE w # "prefetch" /\ Current(fetch[w].object)
    <3>1. /\ stream' = [stream EXCEPT !.pc = "reporting", !.object = fetch[w].object,
                                       !.details = details]
          /\ chunk' = None
      BY <2>3 DEF Got, Streaming
    <3>2. IsStream(stream)
      BY DEF SInv, Shape
    <3>3. stream' = [pc |-> "reporting", track |-> stream.track, object |-> fetch[w].object,
                     details |-> details]
      BY <3>1, <3>2 DEF IsStream
    <3>4. IsStream(stream') /\ Opened(stream')
      BY <3>3 DEF IsStream, Opened
    <3> QED
      BY <3>1, <3>4 DEF Enters
  <2> QED
    BY <2>1, <2>2, <2>3
<1> QED
  BY <1>1, <1>2, Dropped, OneFetch

\* SInv through a lookup that ends without details.
LEMMA GoneKeeps == ASSUME SInv, NEW w \in Workers, Gone(w) PROVE SInv'
<1>1. fetch' = Drop(w)
  BY DEF Gone
<1>2. Enters
  <2>1. CASE w = "prefetch"
    BY <2>1 DEF Gone, Spawn, streamVars, Enters
  <2>2. CASE w # "prefetch"
    BY <2>2, Stops DEF Gone
  <2> QED
    BY <2>1, <2>2
<1> QED
  BY <1>1, <1>2, Dropped, OneFetch

\* SInv through a lookup that goes on.
LEMMA WorkingKeeps ==
  ASSUME SInv, NEW w \in Workers, NEW pc \in {"evicting", "calling", "backing off"},
         Working(w, pc)
  PROVE  SInv'
<1>1. PICK r : r = [fetch[w] EXCEPT !.pc = pc]
  OBVIOUS
<1>2. fetch' = [fetch EXCEPT ![w] = r] /\ Enters
  BY <1>1 DEF Working, streamVars, Enters, SInv, Shape
<1>3. IsFetch(r) /\ Cleared(r)
  <2>1. IsFetch(fetch[w])
    BY DEF SInv, Shape
  <2> QED
    BY <1>1, <2>1 DEF IsFetch, Cleared
<1> QED
  BY <1>2, <1>3, OneFetch

-----------------------------------------------------------------------------
\* SInv through each step of a lookup.
LEMMA FetchKeeps == ASSUME SInv, NEW w \in Workers, Fetch(w) PROVE SInv'
<1>1. CASE LooksUp(w)
  <2>1. PICK cached : \/ cached.account = "own" /\ Got(w, cached)
                      \/ Working(w, "evicting") \/ Working(w, "calling")
    BY <1>1 DEF LooksUp
  <2> QED
    BY <2>1, GotKeeps, WorkingKeeps
<1>2. CASE Evicts(w)
  BY <1>2, WorkingKeeps DEF Evicts
<1>3. CASE Answers(w)
  <2>1. PICK account \in Accounts :
          LET details == [account |-> account, format |-> Format[fetch[w].track]]
          IN \/ account # "own" /\ Gone(w)
             \/ account = "own" /\ Got(w, details)
             \/ /\ account = "own"
                /\ fetch' = [fetch EXCEPT ![w].pc = "caching", ![w].details = details]
                /\ UNCHANGED <<formatVars, plays, streamVars>>
    BY <1>3 DEF Answers
  <2> DEFINE details == [account |-> account, format |-> Format[fetch[w].track]]
  <2>2. CASE Gone(w)
    BY <2>2, GoneKeeps
  <2>3. CASE account = "own" /\ Got(w, details)
    <3>1. details.account = "own"
      BY <2>3
    <3> QED
      BY <2>3, <3>1, GotKeeps
  <2>4. CASE /\ account = "own"
             /\ fetch' = [fetch EXCEPT ![w].pc = "caching", ![w].details = details]
             /\ UNCHANGED <<formatVars, plays, streamVars>>
    <3>1. PICK r : r = [fetch[w] EXCEPT !.pc = "caching", !.details = details]
      OBVIOUS
    <3>2. fetch' = [fetch EXCEPT ![w] = r] /\ Enters
      BY <2>4, <3>1 DEF streamVars, Enters, SInv, Shape
    <3>3. details.account = "own"
      BY <2>4
    <3> HIDE DEF details
    <3>4. IsFetch(r) /\ Cleared(r)
      <4>1. IsFetch(fetch[w])
        BY DEF SInv, Shape
      <4> QED
        BY <3>1, <3>3, <4>1 DEF IsFetch, Cleared
    <3> QED
      BY <3>2, <3>4, OneFetch
  <2> QED
    BY <2>1, <2>2, <2>3, <2>4
<1>4. CASE Refuses(w)
  BY <1>4, GoneKeeps, WorkingKeeps DEF Refuses
<1>5. CASE Retries(w)
  <2>1. PICK r : r = [fetch[w] EXCEPT !.pc = "calling", !.attempt = @ + 1]
    OBVIOUS
  <2>2. fetch' = [fetch EXCEPT ![w] = r] /\ Enters
    BY <1>5, <2>1 DEF Retries, streamVars, Enters, SInv, Shape
  <2>3. IsFetch(r) /\ Cleared(r)
    <3>1. IsFetch(fetch[w])
      BY DEF SInv, Shape
    <3> QED
      BY <2>1, <3>1 DEF IsFetch, Cleared
  <2> QED
    BY <2>2, <2>3, OneFetch
<1>6. CASE Caches(w)
  <2>1. fetch[w].details.account = "own" /\ Got(w, fetch[w].details)
    BY <1>6 DEF Caches, SInv, Cleared
  <2> QED
    BY <2>1, GotKeeps
<1> QED
  BY <1>1, <1>2, <1>3, <1>4, <1>5, <1>6 DEF Fetch

\* A worker starts to look a track up.
LEMMA LookupIs ==
  ASSUME NEW w \in Workers, NEW t, Lookup(w, t)
  PROVE  \E r : fetch' = [fetch EXCEPT ![w] = r] /\ IsFetch(r) /\ Cleared(r)
<1>1. PICK r : r = [NoFetch EXCEPT !.pc = "looking", !.track = t, !.object = linked]
  OBVIOUS
<1>2. fetch' = [fetch EXCEPT ![w] = r]
  BY <1>1 DEF Lookup
<1>3. IsFetch(r) /\ Cleared(r)
  BY <1>1 DEF NoFetch, IsFetch, Cleared
<1> QED
  BY <1>2, <1>3

\* SInv through each step of the stream.
LEMMA StreamKeeps == ASSUME SInv, Stream PROVE SInv'
<1>1. CASE Begins
  <2> DEFINE s == [Off EXCEPT !.pc = "choosing"]
  <2>1. stream' = s /\ chunk' = chunk /\ fetch' = fetch /\ chunk = None
    BY <1>1 DEF Begins, SInv, Yielded
  <2>2. IsStream(s) /\ Opened(s)
    BY DEF Off, IsStream, Opened
  <2> QED
    BY <2>1, <2>2 DEF SInv, Shape, IsFetch, IsStream, Cleared, Opened, Yielded
<1>2. CASE Chooses
  <2>1. CASE StopStream /\ UNCHANGED fetch
    BY <2>1, Stops, OnlyStream
  <2>2. CASE ~(StopStream /\ UNCHANGED fetch)
    <3>1. PICK t \in Tracks :
            Lookup("stream", t) /\ Streaming([Off EXCEPT !.pc = "fetching", !.track = t])
      BY <1>2, <2>2 DEF Chooses
    <3>2. stream' = [Off EXCEPT !.pc = "fetching", !.track = t]
          /\ chunk' = None
      BY <3>1 DEF Streaming
    <3>3. stream' = [pc |-> "fetching", track |-> t, object |-> 0, details |-> None]
      BY <3>2 DEF Off
    <3>4. IsStream(stream') /\ Opened(stream')
      BY <3>3 DEF IsStream, Opened
    <3>5. Enters
      BY <3>2, <3>4 DEF Enters
    <3>6. "stream" \in Workers
      BY DEF Workers
    <3>7. PICK r : fetch' = [fetch EXCEPT !["stream"] = r] /\ IsFetch(r) /\ Cleared(r)
      BY <3>1, <3>6, LookupIs
    <3> QED
      BY <3>5, <3>6, <3>7, OneFetch
  <2> QED
    BY <2>1, <2>2
<1>3. ASSUME NEW pc \in {"queued", "playing"}, stream.pc \in {"reporting", "queued"},
             Streaming([stream EXCEPT !.pc = pc]), fetch' = fetch
      PROVE  SInv'
  <2> DEFINE s == [stream EXCEPT !.pc = pc]
  <2>1. stream' = s /\ chunk' = None
    BY <1>3 DEF Streaming
  <2>2. IsStream(s) /\ Opened(s)
    BY <1>3 DEF SInv, Shape, IsStream, Opened
  <2>3. Enters
    BY <2>1, <2>2 DEF Enters
  <2> QED
    BY <1>3, <2>3, OnlyStream
<1>4. ASSUME NEW pc \in {"choosing", "ended"}, Streaming([Off EXCEPT !.pc = pc]), fetch' = fetch
      PROVE  SInv'
  <2> DEFINE s == [Off EXCEPT !.pc = pc]
  <2>1. stream' = s /\ chunk' = None
    BY <1>4 DEF Streaming
  <2>2. IsStream(s) /\ Opened(s)
    BY DEF Off, IsStream, Opened
  <2>3. Enters
    BY <2>1, <2>2 DEF Enters
  <2> QED
    BY <1>4, <2>3, OnlyStream
<1>5. CASE Reports \/ Admitted
  BY <1>3, <1>5, Stops, OnlyStream DEF Reports, Admitted
<1>6. CASE NotAdmitted \/ TrackEnds
  BY <1>4, <1>6 DEF NotAdmitted, TrackEnds
<1>7. CASE Chunk
  <2>1. CASE StopStream
    BY <1>7, <2>1, Stops, OnlyStream DEF Chunk
  <2>2. CASE ~StopStream
    <3>1. /\ stream.pc = "playing" /\ Current(stream.object)
          /\ chunk' = [object |-> stream.object, linked |-> linked,
                       account |-> stream.details.account]
          /\ UNCHANGED <<stream, fetch>>
      BY <1>7, <2>2 DEF Chunk
    <3>2. /\ chunk'.object = chunk'.linked /\ chunk'.account = "own"
      BY <3>1 DEF SInv, Opened, Current
    <3> QED
      BY <3>1, <3>2 DEF SInv, Shape, IsFetch, IsStream, Cleared, Opened, Yielded
  <2> QED
    BY <2>1, <2>2
<1> QED
  BY <1>1, <1>2, <1>5, <1>6, <1>7 DEF Stream

\* SInv through what happens outside.
LEMMA OutsideKeeps == ASSUME SInv, Outside PROVE SInv'
<1>1. CASE Loads \/ Unloads \/ Announced \/ PlayerChanges \/ Expires
  BY <1>1, Apart DEF Loads, Unloads, Announced, PlayerChanges, Expires, streamVars
<1>2. CASE Activates
  <2>1. Enters
    BY <1>2 DEF Activates, Spawn, streamVars, Enters
  <2>2. CASE UNCHANGED fetch
    BY <2>1, <2>2, OnlyStream
  <2>3. CASE ~UNCHANGED fetch
    <3>1. PICK t \in Tracks : Lookup("prefetch", t)
      BY <1>2, <2>3 DEF Activates
    <3>2. "prefetch" \in Workers
      BY DEF Workers
    <3>3. PICK r : fetch' = [fetch EXCEPT !["prefetch"] = r] /\ IsFetch(r) /\ Cleared(r)
      BY <3>1, <3>2, LookupIs
    <3> QED
      BY <2>1, <3>2, <3>3, OneFetch
  <2> QED
    BY <2>2, <2>3
<1>3. CASE Declares
  <2> DEFINE s == [Off EXCEPT !.pc = "declared"]
  <2>1. stream' = s /\ UNCHANGED <<fetch, chunk>> /\ chunk = None
    BY <1>3 DEF Declares, SInv, Yielded
  <2>2. IsStream(s) /\ Opened(s)
    BY DEF Off, IsStream, Opened
  <2>3. Enters
    BY <2>1, <2>2 DEF Enters
  <2> QED
    BY <2>1, <2>3, OnlyStream
<1> QED
  BY <1>1, <1>2, <1>3 DEF Outside

\* SInv through every step.
LEMMA NextSInv == SInv /\ [Next]_vars => SInv'
<1> SUFFICES ASSUME SInv, [Next]_vars PROVE SInv'
  OBVIOUS
<1>1. CASE PrefetchTimesOut
  <2>1. "prefetch" \in Workers
    BY DEF Workers
  <2> QED
    BY <1>1, <2>1, GoneKeeps DEF PrefetchTimesOut
<1>2. CASE Check
  BY <1>2, Apart DEF Check, streamVars
<1>3. CASE Closes
  <2>1. /\ stream' = Off /\ chunk' = None /\ fetch' = [fetch EXCEPT !["stream"] = NoFetch]
    BY <1>3 DEF Closes, Drop
  <2>2. IsFetch(NoFetch) /\ Cleared(NoFetch) /\ IsStream(Off) /\ Opened(Off)
    BY DEF NoFetch, Off, IsFetch, IsStream, Cleared, Opened
  <2>3. fetch' = [v \in Workers |-> fetch'[v]]
        /\ \A v \in Workers : fetch'[v] = IF v = "stream" THEN NoFetch ELSE fetch[v]
    BY <2>1 DEF SInv, Shape
  <2>4. \A v \in Workers : IsFetch(fetch'[v]) /\ Cleared(fetch'[v])
    BY <2>2, <2>3 DEF SInv, Shape
  <2> QED
    BY <2>1, <2>2, <2>3, <2>4 DEF SInv, Shape, IsFetch, IsStream, Cleared, Opened, Yielded
<1>4. CASE UNCHANGED vars
  BY <1>4, Apart DEF vars, streamVars
<1> QED
  BY <1>1, <1>2, <1>3, <1>4, FetchKeeps, StreamKeeps, OutsideKeeps DEF Next

\* Every reachable state satisfies the invariant: details of another account never get
\* past the lookup.
THEOREM Invariance == Spec => []SInv
<1> QED
  BY InitSInv, NextSInv, PTL DEF Spec

\* Whatever is cached, reloaded or unlinked meanwhile, no audio is yielded but that of the
\* linked account, from the provider that is linked.
THEOREM OnlyOwnAudio == Spec => []LinkedAccountOnly
<1>1. SInv => LinkedAccountOnly
  BY DEF SInv, Yielded, LinkedAccountOnly
<1> QED
  BY <1>1, Invariance, PTL

-----------------------------------------------------------------------------
\* No worker starts to play a track: the stream that got its details has to report them
\* and to wait for its slot first.
LEMMA FetchOpensNothing ==
  ASSUME SInv, NEW w \in Workers, Fetch(w), stream.pc # "playing" PROVE stream'.pc # "playing"
<1>1. StopStream => stream'.pc = "ended"
  BY DEF StopStream, Streaming, Off
<1>2. ASSUME NEW details, Got(w, details) PROVE stream'.pc # "playing"
  <2>1. CASE w = "prefetch"
    BY <1>2, <2>1 DEF Got, Spawn, streamVars
  <2>2. CASE w # "prefetch" /\ ~Current(fetch[w].object)
    BY <1>1, <1>2, <2>2 DEF Got
  <2>3. CASE w # "prefetch" /\ Current(fetch[w].object)
    <3>1. stream' = [stream EXCEPT !.pc = "reporting", !.object = fetch[w].object,
                                   !.details = details]
      BY <1>2, <2>3 DEF Got, Streaming
    <3>2. IsStream(stream)
      BY DEF SInv, Shape
    <3> QED
      BY <3>1, <3>2 DEF IsStream
  <2> QED
    BY <2>1, <2>2, <2>3
<1>3. ASSUME Gone(w) PROVE stream'.pc # "playing"
  BY <1>1, <1>3 DEF Gone, Spawn, streamVars
<1>4. ASSUME NEW pc, Working(w, pc) PROVE stream'.pc # "playing"
  BY <1>4 DEF Working, streamVars
<1>5. CASE LooksUp(w) \/ Evicts(w) \/ Caches(w)
  BY <1>2, <1>4, <1>5 DEF LooksUp, Evicts, Caches
<1>6. CASE Answers(w)
  <2>1. CASE UNCHANGED streamVars
    BY <2>1 DEF streamVars
  <2>2. CASE ~UNCHANGED streamVars
    <3>1. Gone(w) \/ \E details : Got(w, details)
      BY <1>6, <2>2 DEF Answers
    <3> QED
      BY <1>2, <1>3, <3>1
  <2> QED
    BY <2>1, <2>2
<1>7. CASE Refuses(w) \/ Retries(w)
  BY <1>3, <1>4, <1>7 DEF Refuses, Retries, streamVars
<1> QED
  BY <1>5, <1>6, <1>7 DEF Fetch

\* However long a track waits for its slot, the provider it is opened on is the one that is
\* linked then.
THEOREM OpenedOnLinked == Spec => OpensOnLinked
<1> DEFINE Opens == stream.pc # "playing" /\ stream'.pc = "playing" => Current(stream.object)
<1>1. SInv /\ [Next]_vars => Opens
  <2> SUFFICES ASSUME SInv, [Next]_vars, stream.pc # "playing", stream'.pc = "playing"
               PROVE  Current(stream.object)
    OBVIOUS
  <2>1. StopStream => stream'.pc = "ended"
    BY DEF StopStream, Streaming, Off
  <2>2. ASSUME UNCHANGED stream PROVE FALSE
    BY <2>2
  <2>3. CASE \E w \in Workers : Fetch(w)
    BY <2>3, FetchOpensNothing
  <2>4. CASE PrefetchTimesOut
    BY <2>2, <2>4 DEF PrefetchTimesOut, Gone, Spawn, streamVars
  <2>5. CASE Check
    BY <2>2, <2>5 DEF Check, streamVars
  <2>6. CASE Closes
    BY <2>6 DEF Closes, Off
  <2>7. CASE Outside
    <3>1. CASE Declares
      BY <3>1 DEF Declares, Off
    <3>2. CASE ~Declares
      BY <2>2, <2>7, <3>2
      DEF Outside, Loads, Unloads, Announced, PlayerChanges, Expires, Activates, Spawn, streamVars
    <3> QED
      BY <3>1, <3>2
  <2>8. CASE Begins \/ Chooses \/ NotAdmitted \/ TrackEnds
    BY <2>1, <2>8 DEF Begins, Chooses, NotAdmitted, TrackEnds, Streaming, Off
  <2>9. CASE Reports
    <3>1. stream'.pc \in {"queued", "ended"}
      BY <2>1, <2>9 DEF Reports, Streaming, SInv, Shape, IsStream
    <3> QED
      BY <3>1
  <2>10. CASE Admitted
    BY <2>1, <2>10 DEF Admitted
  <2>11. CASE Chunk
    BY <2>11 DEF Chunk
  <2>12. CASE UNCHANGED vars
    BY <2>2, <2>12 DEF vars, streamVars
  <2> QED
    BY <2>3, <2>4, <2>5, <2>6, <2>7, <2>8, <2>9, <2>10, <2>11, <2>12 DEF Next, Stream
<1>2. Spec => [][Opens]_vars
  BY <1>1, Invariance, PTL DEF Spec
<1> QED
  BY <1>2 DEF OpensOnLinked
-----------------------------------------------------------------------------
(* Types                                                                     *)

\* A set of numbers that is not empty has a least one.
LEMMA LeastOf ==
  ASSUME NEW T, T \subseteq Nat, T # {}
  PROVE  \E x \in T : \A y \in T : x <= y
<1>1. PICK R : R = OpToRel(<, Nat)
  OBVIOUS
<1>2. IsWellFoundedOn(R, Nat)
  BY <1>1, NatLessThanWellFounded
<1>3. PICK x \in T : \A y \in T : ~(<<y, x>> \in R)
  BY <1>2, WFMin
<1>4. ASSUME NEW a \in Nat, NEW b \in Nat
      PROVE  <<a, b>> \in R <=> a < b
  BY <1>1 DEF OpToRel
<1>5. ASSUME NEW y \in T
      PROVE  x <= y
  <2>1. x \in Nat /\ y \in Nat
    BY <1>5
  <2>2. ~(<<y, x>> \in R)
    BY <1>3, <1>5
  <2>3. ~(y < x)
    BY <1>4, <2>1, <2>2
  <2> QED
    BY <2>1, <2>3
<1> QED
  BY <1>5

\* A rate is snapped to itself or to one that the player supports.
LEMMA SnappedIs ==
  ASSUME rates \in Players, NEW rate \in Nat PROVE Snapped(rate) \in rates \union {rate}
<1>1. PICK below : below = {r \in rates : r <= rate}
  OBVIOUS
<1>2. rates \subseteq Nat /\ below \subseteq rates
  BY <1>1, RateAssumption
<1>3. CASE rates = {} \/ rate \in rates
  <2>1. Snapped(rate) = rate
    BY <1>3 DEF Snapped
  <2> QED
    BY <2>1
<1>4. CASE ~(rates = {} \/ rate \in rates) /\ below # {}
  <2>1. PICK gaps : gaps = {rate - r : r \in below}
    OBVIOUS
  <2>2. gaps \subseteq Nat /\ gaps # {}
    <3>1. \A r \in below : r \in Nat /\ r <= rate
      BY <1>1, <1>2
    <3>2. \A r \in below : rate - r \in Nat
      BY <3>1
    <3> QED
      BY <1>4, <2>1, <3>2
  <2>3. PICK gap \in gaps : \A g \in gaps : gap <= g
    BY <2>2, LeastOf
  <2>4. PICK x \in below : gap = rate - x
    BY <2>1
  <2>5. ASSUME NEW y \in below PROVE x >= y
    <3>1. rate - y \in gaps /\ x \in Nat /\ y \in Nat
      BY <1>2, <2>1
    <3>2. rate - x <= rate - y
      BY <2>3, <2>4, <3>1
    <3> QED
      BY <3>1, <3>2
  <2>6. Max(below) \in below
    BY <2>5 DEF Max
  <2>7. Snapped(rate) = Max(below)
    BY <1>1, <1>4 DEF Snapped
  <2> QED
    BY <1>2, <2>6, <2>7
<1>5. CASE ~(rates = {} \/ rate \in rates) /\ below = {}
  <2>1. \E x \in rates : \A y \in rates : x <= y
    BY <1>2, <1>5, LeastOf
  <2>2. Min(rates) \in rates
    BY <2>1 DEF Min
  <2>3. Snapped(rate) = Min(rates)
    BY <1>1, <1>5 DEF Snapped
  <2> QED
    BY <2>2, <2>3
<1> QED
  BY <1>3, <1>4, <1>5

\* The formats audio may be normalised to.
Allowed(format) ==
    /\ format.rate \in Valid \union (UNION Players) \union {configured}
    /\ format.depth \in Depths

\* The normalised format is one the player may be given.
LEMMA NormalizedIs ==
  ASSUME rates \in Players, NEW object, NEW hint PROVE Allowed(Normalized(object, hint))
<1>1. PICK base : base = IF hint # None /\ hint.rate \in Valid THEN hint.rate ELSE Floor
  OBVIOUS
<1>2. base \in Valid /\ base \in Nat
  BY <1>1, RateAssumption
<1>3. Snapped(base) \in Valid \union (UNION Players)
  BY <1>2, SnappedIs
<1>4. Normalized(object, hint)
        = [rate |-> IF configured # None THEN configured ELSE Snapped(base),
           depth |-> IF hint # None /\ hint.depth \in Depths THEN hint.depth
                     ELSE IF object \in Lossless THEN 24 ELSE 16]
  BY <1>1 DEF Normalized
<1>5. Normalized(object, hint).rate \in {configured, Snapped(base)}
  BY <1>4
<1>6. Normalized(object, hint).depth \in Depths
  <2>1. Normalized(object, hint).depth
          = IF hint # None /\ hint.depth \in Depths THEN hint.depth
            ELSE IF object \in Lossless THEN 24 ELSE 16
    BY <1>4
  <2>2. CASE hint # None /\ hint.depth \in Depths
    BY <2>1, <2>2
  <2>3. CASE ~(hint # None /\ hint.depth \in Depths)
    BY <2>1, <2>3 DEF Depths
  <2> QED
    BY <2>2, <2>3
<1>7. Normalized(object, hint).rate \in Valid \union (UNION Players) \union {configured}
  BY <1>3, <1>5
<1> QED
  BY <1>6, <1>7 DEF Allowed

LinkTypes ==
    /\ loads \in Nat /\ loaded \in 0 .. loads /\ linked \in Nat /\ checks \in Nat
    /\ available \subseteq 1 .. loads

FormatTypes == rates \in Players /\ Allowed(params)

CacheTypes == cache \in [Tracks -> Details \union {None}]

\* A worker that is busy has a track and a provider, and details when it caches them; a
\* retry that is due is one that is left.
RequestTypes(r) ==
    /\ r.pc \in {"idle", "looking", "evicting", "calling", "backing off", "caching"}
    /\ r.attempt \in 0 .. MaxAttempts - 1
    /\ r.pc # "idle" => r.track \in Tracks /\ r.object # 0
    /\ r.pc = "backing off" => r.attempt + 1 < MaxAttempts
    /\ r.pc = "caching" => r.details \in Details

StreamTypes ==
    /\ Fetching("stream") <=> stream.pc = "fetching"
    /\ stream.pc \in {"reporting", "queued", "playing"} => stream.details \in Details

WorkTypes == (\A w \in Workers : RequestTypes(fetch[w])) /\ StreamTypes

Types == LinkTypes /\ FormatTypes /\ CacheTypes /\ WorkTypes

\* The initial states have the types.
LEMMA InitTypes == Init => Types
<1> SUFFICES ASSUME Init PROVE Types
  OBVIOUS
<1>1. LinkTypes
  BY DEF Init, LinkTypes
<1>2. FormatTypes
  BY RateAssumption DEF Init, FormatTypes, Allowed, Depths
<1>3. CacheTypes
  <2>1. [rate |-> Floor, depth |-> 16] \in Formats
    BY RateAssumption DEF Formats
  <2> QED
    BY <2>1 DEF Init, CacheTypes, Details, Accounts
<1>4. WorkTypes
  <2>1. RequestTypes(NoFetch)
    BY BoundAssumption DEF RequestTypes, NoFetch
  <2>2. \A w \in Workers : fetch[w] = NoFetch
    BY DEF Init
  <2>3. StreamTypes
    BY <2>2 DEF Init, StreamTypes, Fetching, NoFetch, Off, Workers
  <2> QED
    BY <2>1, <2>2, <2>3 DEF WorkTypes
<1> QED
  BY <1>1, <1>2, <1>3, <1>4 DEF Types

\* The types of the linked provider through every step.
LEMMA LinkKeeps == ASSUME LinkTypes, [Next]_vars PROVE LinkTypes'
<1>1. CASE UNCHANGED linkVars
  BY <1>1 DEF LinkTypes, linkVars
<1>2. CASE Loads
  <2>1. /\ loads' = loads + 1 /\ loaded' = loads' /\ linked' = linked /\ checks' = checks + 1
        /\ available' \subseteq available \union {loaded'}
    BY <1>2 DEF Loads, Signals
  <2>2. 1 .. loads \subseteq 1 .. loads' /\ loaded' \in 1 .. loads'
    BY <2>1 DEF LinkTypes
  <2> QED
    BY <2>1, <2>2 DEF LinkTypes
<1>7. CASE Unloads \/ Announced
  <2>1. /\ UNCHANGED <<loads, linked>> /\ checks' = checks + 1 /\ loaded' \in {0, loaded}
        /\ available' \subseteq available \union {loaded} /\ 0 \notin available'
    BY <1>7 DEF Unloads, Announced, Signals, LinkTypes
  <2>2. \A n \in available' : n \in 1 .. loads
    BY <2>1 DEF LinkTypes
  <2> QED
    BY <2>1, <2>2 DEF LinkTypes
<1>3. CASE Check
  BY <1>3 DEF LinkTypes, Check
<1>4. CASE Stream \/ Closes
  BY <1>1, <1>4
     DEF Stream, Begins, Chooses, Reports, Admitted, NotAdmitted, Chunk, TrackEnds, Closes, NoFormat
<1>5. CASE \E w \in Workers : Fetch(w)
  BY <1>1, <1>5 DEF Fetch, LooksUp, Evicts, Answers, Refuses, Retries, Caches
<1>6. CASE PrefetchTimesOut \/ PlayerChanges \/ Expires \/ Activates \/ Declares
  BY <1>1, <1>6 DEF PrefetchTimesOut, PlayerChanges, Expires, Activates, Declares
<1> QED
  BY <1>1, <1>2, <1>3, <1>4, <1>5, <1>6, <1>7 DEF Next, Outside, vars

\* The types of the formats through every step.
LEMMA FormatKeeps == ASSUME FormatTypes, [Next]_vars PROVE FormatTypes'
<1>1. CASE UNCHANGED formatVars
  BY <1>1 DEF FormatTypes, formatVars, Allowed
<1>2. ASSUME NEW format, Allowed(format), Spawn(format) PROVE FormatTypes'
  BY <1>2 DEF FormatTypes, Spawn, Allowed
<1>3. ASSUME NEW w \in Workers, Gone(w) \/ \E details : Got(w, details) PROVE FormatTypes'
  <2>1. CASE UNCHANGED formatVars
    BY <1>1, <2>1
  <2>2. CASE ~UNCHANGED formatVars
    <3>1. Spawn(params) \/ \E details : Spawn(Normalized(linked, details.format))
      BY <1>3, <2>2 DEF Gone, Got
    <3> QED
      BY <1>2, <3>1, NormalizedIs DEF FormatTypes
  <2> QED
    BY <2>1, <2>2
<1>4. CASE Check
  <2>1. /\ params' = params \/ params' = Normalized(loaded, None)
        /\ UNCHANGED <<rates, configured>>
    BY <1>4 DEF Check
  <2>2. Allowed(params')
    BY <2>1, NormalizedIs DEF FormatTypes
  <2> QED
    BY <2>1, <2>2 DEF FormatTypes, Allowed
<1>5. CASE PlayerChanges
  BY <1>5 DEF PlayerChanges, FormatTypes, Allowed
<1>6. CASE Stream \/ Closes
  BY <1>1, <1>6
     DEF Stream, Begins, Chooses, Reports, Admitted, NotAdmitted, Chunk, TrackEnds, Closes, NoFormat
<1>7. CASE \E w \in Workers : Fetch(w)
  <2>1. PICK w \in Workers : Fetch(w)
    BY <1>7
  <2>2. UNCHANGED formatVars \/ Gone(w) \/ \E details : Got(w, details)
    BY <2>1 DEF Fetch, LooksUp, Evicts, Answers, Refuses, Retries, Caches, Working
  <2> QED
    BY <1>1, <1>3, <2>2
<1>8. CASE PrefetchTimesOut
  BY <1>3, <1>8 DEF PrefetchTimesOut, Workers
<1>9. CASE Activates
  BY <1>1, <1>2, <1>9 DEF Activates, FormatTypes
<1>10. CASE Loads \/ Unloads \/ Announced \/ Expires \/ Declares
  BY <1>1, <1>10 DEF Loads, Unloads, Announced, Expires, Declares
<1> QED
  BY <1>1, <1>4, <1>5, <1>6, <1>7, <1>8, <1>9, <1>10 DEF Next, Outside, vars

\* The types of the cache through every step.
LEMMA CacheKeeps == ASSUME CacheTypes, WorkTypes, [Next]_vars PROVE CacheTypes'
<1>1. CASE UNCHANGED cache
  BY <1>1 DEF CacheTypes
<1>2. ASSUME NEW t \in Tracks, NEW entry \in Details \union {None},
             cache' = [cache EXCEPT ![t] = entry]
      PROVE  CacheTypes'
  BY <1>2 DEF CacheTypes
<1>3. CASE \E w \in Workers : Fetch(w)
  <2>1. PICK w \in Workers : Fetch(w)
    BY <1>3
  <2>2. RequestTypes(fetch[w])
    BY DEF WorkTypes
  <2>3. CASE Evicts(w)
    <3>1. fetch[w].track \in Tracks /\ cache' = [cache EXCEPT ![fetch[w].track] = None]
      BY <2>2, <2>3 DEF Evicts, RequestTypes
    <3> QED
      BY <1>2, <3>1
  <2>4. CASE Caches(w)
    <3>1. /\ fetch[w].track \in Tracks /\ fetch[w].details \in Details
          /\ cache' = [cache EXCEPT ![fetch[w].track] = fetch[w].details]
      BY <2>2, <2>4 DEF Caches, RequestTypes
    <3> QED
      BY <1>2, <3>1
  <2> QED
    BY <1>1, <2>1, <2>3, <2>4 DEF Fetch, LooksUp, Answers, Refuses, Retries
<1>4. CASE Expires
  BY <1>2, <1>4 DEF Expires
<1>5. CASE Stream \/ Closes
  BY <1>1, <1>5
     DEF Stream, Begins, Chooses, Reports, Admitted, NotAdmitted, Chunk, TrackEnds, Closes, NoFormat
<1>6. CASE PrefetchTimesOut \/ Check \/ Loads \/ Unloads \/ Announced \/ PlayerChanges
             \/ Activates \/ Declares
  BY <1>1, <1>6
     DEF PrefetchTimesOut, Check, Loads, Unloads, Announced, PlayerChanges, Activates, Declares
<1> QED
  BY <1>1, <1>3, <1>4, <1>5, <1>6 DEF Next, Outside, vars

\* One worker goes on, with or without the stream.
LEMMA OneWorker ==
  ASSUME SInv, WorkTypes, NEW w \in Workers, NEW r, fetch' = [fetch EXCEPT ![w] = r],
         RequestTypes(r), StreamTypes'
  PROVE  WorkTypes'
<1>1. \A v \in Workers : fetch'[v] \in {r, fetch[v]}
  BY DEF SInv, Shape
<1> QED
  BY <1>1 DEF WorkTypes, RequestTypes

\* The stream goes on without a worker.
LEMMA OnlyTheStream ==
  ASSUME WorkTypes, fetch' = fetch, stream.pc # "fetching", stream'.pc # "fetching",
         \/ stream'.pc \notin {"reporting", "queued", "playing"}
         \/ /\ stream'.details = stream.details
            /\ stream.pc \in {"reporting", "queued", "playing"}
  PROVE  WorkTypes'
  BY DEF WorkTypes, RequestTypes, StreamTypes, Fetching

\* A lookup that does not run is typed.
LEMMA Resting == RequestTypes(NoFetch) /\ NoFetch.pc = "idle"
  BY BoundAssumption DEF RequestTypes, NoFetch

\* A stream that stops has ended.
LEMMA StopIs == ASSUME StopStream PROVE stream'.pc = "ended"
  BY DEF StopStream, Streaming, Off

\* A worker is done, and the stream of the other one is left alone.
LEMMA PrefetchDone ==
  ASSUME SInv, WorkTypes, fetch' = Drop("prefetch"), UNCHANGED stream PROVE WorkTypes'
<1>1. "prefetch" \in Workers /\ fetch' = [fetch EXCEPT !["prefetch"] = NoFetch]
  BY DEF Workers, Drop
<1>2. fetch'["stream"] = fetch["stream"]
  BY <1>1 DEF SInv, Shape, Workers
<1>3. StreamTypes'
  BY <1>2 DEF WorkTypes, StreamTypes, Fetching
<1> QED
  BY <1>1, <1>3, Resting, OneWorker

\* The types of the work through the end of the stream's lookup.
LEMMA StreamDone ==
  ASSUME SInv, WorkTypes, fetch' = Drop("stream"), stream'.pc # "fetching",
         stream'.pc \in {"reporting", "queued", "playing"} => stream'.details \in Details
  PROVE  WorkTypes'
<1>1. "stream" \in Workers /\ fetch' = [fetch EXCEPT !["stream"] = NoFetch]
  BY DEF Workers, Drop
<1>2. fetch'["stream"] = NoFetch
  BY <1>1 DEF SInv, Shape, Workers
<1>3. StreamTypes'
  BY <1>2, Resting DEF StreamTypes, Fetching
<1> QED
  BY <1>1, <1>3, Resting, OneWorker

\* The types of the work through a lookup that has its details.
LEMMA GotTypes ==
  ASSUME SInv, WorkTypes, NEW w \in Workers, NEW details \in Details, Got(w, details)
  PROVE  WorkTypes'
<1>1. CASE w = "prefetch"
  BY <1>1, PrefetchDone DEF Got, Spawn, streamVars
<1>2. CASE w # "prefetch"
  <2>1. w = "stream" /\ fetch' = Drop("stream")
    BY <1>2 DEF Workers, Got
  <2>2. CASE StopStream
    BY <2>1, <2>2, StopIs, StreamDone
  <2>3. CASE ~StopStream
    <3>1. stream' = [stream EXCEPT !.pc = "reporting", !.object = fetch[w].object,
                                   !.details = details]
      BY <1>2, <2>3 DEF Got, Streaming
    <3>2. stream'.pc = "reporting" /\ stream'.details = details
      BY <3>1 DEF SInv, Shape, IsStream
    <3> QED
      BY <2>1, <3>2, StreamDone
  <2> QED
    BY <2>2, <2>3
<1> QED
  BY <1>1, <1>2

\* The types of the work through a lookup that ends without details.
LEMMA GoneTypes == ASSUME SInv, WorkTypes, NEW w \in Workers, Gone(w) PROVE WorkTypes'
<1>1. CASE w = "prefetch"
  BY <1>1, PrefetchDone DEF Gone, Spawn, streamVars
<1>2. CASE w # "prefetch"
  <2>1. w = "stream" /\ fetch' = Drop("stream") /\ StopStream
    BY <1>2 DEF Workers, Gone
  <2> QED
    BY <2>1, StopIs, StreamDone
<1> QED
  BY <1>1, <1>2

\* A busy worker takes its next step and stays busy.
LEMMA StaysBusy ==
  ASSUME SInv, WorkTypes, NEW w \in Workers, NEW r, fetch' = [fetch EXCEPT ![w] = r],
         RequestTypes(r), r.pc # "idle", Fetching(w), UNCHANGED stream
  PROVE  WorkTypes'
<1>1. \A v \in Workers : fetch'[v] = IF v = w THEN r ELSE fetch[v]
  BY DEF SInv, Shape
<1>2. "stream" \in Workers
  BY DEF Workers
<1>3. StreamTypes'
  BY <1>1, <1>2 DEF WorkTypes, StreamTypes, Fetching
<1> QED
  BY <1>3, OneWorker

\* The types of the work through a lookup that goes on.
LEMMA WorkingTypes ==
  ASSUME SInv, WorkTypes, NEW w \in Workers, Fetching(w),
         NEW pc \in {"evicting", "calling", "backing off"}, Working(w, pc),
         pc = "backing off" => fetch[w].attempt + 1 < MaxAttempts
  PROVE  WorkTypes'
<1>1. PICK r : r = [fetch[w] EXCEPT !.pc = pc]
  OBVIOUS
<1>2. IsFetch(fetch[w]) /\ RequestTypes(fetch[w])
  BY DEF SInv, Shape, WorkTypes
<1>3. /\ r.pc = pc /\ r.track = fetch[w].track /\ r.object = fetch[w].object
      /\ r.attempt = fetch[w].attempt
  BY <1>1, <1>2 DEF IsFetch
<1>4. RequestTypes(r)
  BY <1>2, <1>3 DEF RequestTypes, Fetching
<1>5. fetch' = [fetch EXCEPT ![w] = r] /\ UNCHANGED stream
  BY <1>1 DEF Working, streamVars
<1> QED
  BY <1>3, <1>4, <1>5, StaysBusy

\* The types of the work through each step of a lookup.
LEMMA FetchTypes ==
  ASSUME SInv, Types, NEW w \in Workers, Fetch(w) PROVE WorkTypes'
<1>1. WorkTypes /\ IsFetch(fetch[w]) /\ RequestTypes(fetch[w])
  BY DEF SInv, Shape, Types, WorkTypes
<1>2. Fetching(w) /\ fetch[w].track \in Tracks
  BY <1>1
     DEF RequestTypes, Fetch, LooksUp, Evicts, Answers, Refuses, Retries, Caches, Fetching
<1>3. CASE LooksUp(w)
  <2>1. cache[fetch[w].track] \in Details \union {None}
    BY <1>2 DEF Types, CacheTypes
  <2>2. \/ \E cached \in Details : Got(w, cached)
        \/ Working(w, "evicting") \/ Working(w, "calling")
    BY <1>3, <2>1 DEF LooksUp
  <2> QED
    BY <1>1, <1>2, <2>2, GotTypes, WorkingTypes
<1>4. CASE Evicts(w)
  BY <1>1, <1>2, <1>4, WorkingTypes DEF Evicts
<1>5. CASE Answers(w)
  <2>1. PICK details :
          /\ \E account \in Accounts :
                details = [account |-> account, format |-> Format[fetch[w].track]]
          /\ \/ Gone(w)
             \/ Got(w, details)
             \/ /\ fetch' = [fetch EXCEPT ![w].pc = "caching", ![w].details = details]
                /\ UNCHANGED <<formatVars, plays, streamVars>>
    BY <1>5 DEF Answers
  <2>2. details \in Details
    <3>1. Format[fetch[w].track] \in Formats
      BY <1>2, FormatAssumption
    <3> QED
      BY <2>1, <3>1 DEF Details
  <2>3. CASE Gone(w) \/ Got(w, details)
    BY <1>1, <2>2, <2>3, GoneTypes, GotTypes
  <2>4. CASE /\ fetch' = [fetch EXCEPT ![w].pc = "caching", ![w].details = details]
             /\ UNCHANGED <<formatVars, plays, streamVars>>
    <3>1. PICK r : r = [fetch[w] EXCEPT !.pc = "caching", !.details = details]
      OBVIOUS
    <3>2. /\ r.pc = "caching" /\ r.track = fetch[w].track /\ r.object = fetch[w].object
          /\ r.attempt = fetch[w].attempt /\ r.details = details
      BY <1>1, <3>1 DEF IsFetch
    <3>3. RequestTypes(r)
      BY <1>1, <1>2, <2>2, <3>2 DEF RequestTypes, Fetching
    <3>4. fetch' = [fetch EXCEPT ![w] = r] /\ UNCHANGED stream
      BY <2>4, <3>1 DEF streamVars, SInv, Shape
    <3> QED
      BY <1>1, <1>2, <3>2, <3>3, <3>4, StaysBusy
  <2> QED
    BY <2>1, <2>3, <2>4
<1>6. CASE Refuses(w)
  BY <1>1, <1>2, <1>6, GoneTypes, WorkingTypes DEF Refuses
<1>7. CASE Retries(w)
  <2>1. PICK r : r = [fetch[w] EXCEPT !.pc = "calling", !.attempt = @ + 1]
    OBVIOUS
  <2>2. /\ r.pc = "calling" /\ r.track = fetch[w].track /\ r.object = fetch[w].object
        /\ r.attempt = fetch[w].attempt + 1
    BY <1>1, <2>1 DEF IsFetch
  <2>3. r.attempt \in 0 .. MaxAttempts - 1
    <3>1. PICK attempt \in Nat : attempt = fetch[w].attempt /\ attempt + 1 < MaxAttempts
      <4>1. fetch[w].pc = "backing off" /\ fetch[w].attempt \in 0 .. MaxAttempts - 1
        BY <1>1, <1>7 DEF RequestTypes, Retries
      <4>2. fetch[w].attempt + 1 < MaxAttempts
        BY <1>1, <4>1 DEF RequestTypes
      <4>3. fetch[w].attempt \in Nat
        <5>1. PICK top \in Int : top = MaxAttempts - 1
          BY BoundAssumption
        <5>2. fetch[w].attempt \in 0 .. top
          BY <4>1, <5>1
        <5> QED
          BY <5>2
      <4> QED
        BY <4>2, <4>3
    <3>2. r.attempt = attempt + 1 /\ MaxAttempts \in Nat
      BY <2>2, <3>1, BoundAssumption
    <3> QED
      BY <3>1, <3>2
  <2>4. RequestTypes(r)
    BY <1>1, <1>2, <2>2, <2>3 DEF RequestTypes, Fetching
  <2>5. fetch' = [fetch EXCEPT ![w] = r] /\ UNCHANGED stream
    BY <1>7, <2>1 DEF Retries, streamVars, SInv, Shape
  <2> QED
    BY <1>1, <1>2, <2>2, <2>4, <2>5, StaysBusy
<1>8. CASE Caches(w)
  BY <1>1, <1>8, GotTypes DEF Caches, RequestTypes
<1> QED
  BY <1>3, <1>4, <1>5, <1>6, <1>7, <1>8 DEF Fetch

\* The types of the work through each step of the stream.
LEMMA StreamStepTypes == ASSUME SInv, Types, Stream \/ Closes PROVE WorkTypes'
<1>1. WorkTypes /\ IsStream(stream)
  BY DEF SInv, Shape, Types
<1>2. CASE Begins
  BY <1>1, <1>2, OnlyTheStream DEF Begins, Off
<1>3. CASE Chooses
  <2>1. CASE StopStream /\ UNCHANGED fetch
    <3>1. stream.pc # "fetching"
      BY <1>3 DEF Chooses
    <3> QED
      BY <1>1, <2>1, <3>1, StopIs, OnlyTheStream
  <2>2. CASE ~(StopStream /\ UNCHANGED fetch)
    <3>1. PICK t \in Tracks :
            /\ Lookup("stream", t) /\ Streaming([Off EXCEPT !.pc = "fetching", !.track = t])
            /\ linked # 0
      BY <1>3, <2>2 DEF Chooses
    <3>2. PICK r : r = [NoFetch EXCEPT !.pc = "looking", !.track = t, !.object = linked]
      OBVIOUS
    <3>3. RequestTypes(r) /\ r.pc = "looking"
      BY <3>1, <3>2, BoundAssumption DEF RequestTypes, NoFetch
    <3>4. fetch' = [fetch EXCEPT !["stream"] = r] /\ stream'.pc = "fetching"
      BY <3>1, <3>2 DEF Lookup, Streaming, Off
    <3>5. "stream" \in Workers /\ fetch'["stream"] = r
      BY <3>4 DEF Workers, SInv, Shape
    <3>6. StreamTypes'
      BY <3>3, <3>4, <3>5 DEF StreamTypes, Fetching
    <3> QED
      BY <1>1, <3>3, <3>4, <3>5, <3>6, OneWorker
  <2> QED
    BY <2>1, <2>2
<1>4. CASE Reports
  <2>1. stream.pc = "reporting" /\ fetch' = fetch
    BY <1>4 DEF Reports
  <2>2. \/ StopStream
        \/ stream'.pc = "queued" /\ stream'.details = stream.details
    BY <1>1, <1>4 DEF Reports, Streaming, IsStream
  <2> QED
    BY <1>1, <2>1, <2>2, StopIs, OnlyTheStream
<1>5. CASE Admitted
  <2>1. stream.pc = "queued" /\ fetch' = fetch
    BY <1>5 DEF Admitted
  <2>2. \/ StopStream
        \/ stream'.pc = "playing" /\ stream'.details = stream.details
    BY <1>1, <1>5 DEF Admitted, Streaming, IsStream
  <2> QED
    BY <1>1, <2>1, <2>2, StopIs, OnlyTheStream
<1>6. CASE NotAdmitted
  BY <1>1, <1>6, OnlyTheStream DEF NotAdmitted, Streaming, Off
<1>7. CASE TrackEnds
  BY <1>1, <1>7, OnlyTheStream DEF TrackEnds, Streaming, Off
<1>8. CASE Chunk
  <2>1. stream.pc = "playing" /\ fetch' = fetch /\ (StopStream \/ stream' = stream)
    BY <1>8 DEF Chunk
  <2> QED
    BY <1>1, <2>1, StopIs, OnlyTheStream
<1>9. CASE Closes
  BY <1>1, <1>9, StreamDone DEF Closes, Off
<1> QED
  BY <1>2, <1>3, <1>4, <1>5, <1>6, <1>7, <1>8, <1>9 DEF Stream

\* The types of the work through what happens outside.
LEMMA OutsideTypes ==
  ASSUME SInv, Types, Outside \/ PrefetchTimesOut \/ Check PROVE WorkTypes'
<1>1. WorkTypes
  BY DEF Types
<1>2. CASE UNCHANGED <<fetch, stream>>
  BY <1>1, <1>2 DEF WorkTypes, RequestTypes, StreamTypes, Fetching
<1>3. CASE Loads \/ Unloads \/ Announced \/ PlayerChanges \/ Expires \/ Check
  BY <1>2, <1>3 DEF Loads, Unloads, Announced, PlayerChanges, Expires, Check, streamVars
<1>4. CASE Activates
  <2>1. CASE UNCHANGED fetch
    BY <1>2, <1>4, <2>1 DEF Activates, Spawn, streamVars
  <2>2. CASE ~UNCHANGED fetch
    <3>1. PICK t \in Tracks :
            Lookup("prefetch", t) /\ linked # 0 /\ UNCHANGED stream
      BY <1>4, <2>2 DEF Activates, streamVars
    <3>2. PICK r : r = [NoFetch EXCEPT !.pc = "looking", !.track = t, !.object = linked]
      OBVIOUS
    <3>3. RequestTypes(r)
      BY <3>1, <3>2, BoundAssumption DEF RequestTypes, NoFetch
    <3>4. "prefetch" \in Workers /\ fetch' = [fetch EXCEPT !["prefetch"] = r]
      BY <3>1, <3>2 DEF Lookup, Workers
    <3>5. fetch'["stream"] = fetch["stream"]
      BY <3>4 DEF SInv, Shape, Workers
    <3>6. StreamTypes'
      BY <1>1, <3>1, <3>5 DEF WorkTypes, StreamTypes, Fetching
    <3> QED
      BY <1>1, <3>3, <3>4, <3>6, OneWorker
  <2> QED
    BY <2>1, <2>2
<1>5. CASE Declares
  BY <1>1, <1>5, OnlyTheStream DEF Declares, Off
<1>6. CASE PrefetchTimesOut
  BY <1>1, <1>6, GoneTypes DEF PrefetchTimesOut, Workers
<1> QED
  BY <1>3, <1>4, <1>5, <1>6 DEF Outside

\* The types through every step.
LEMMA NextTypes == SInv /\ Types /\ [Next]_vars => Types'
<1> SUFFICES ASSUME SInv, Types, [Next]_vars PROVE Types'
  OBVIOUS
<1>1. LinkTypes' /\ FormatTypes' /\ CacheTypes'
  BY LinkKeeps, FormatKeeps, CacheKeeps DEF Types
<1>2. ASSUME UNCHANGED vars PROVE WorkTypes'
  <2>1. fetch' = fetch /\ stream' = stream /\ WorkTypes
    BY <1>2 DEF Types, vars, streamVars
  <2> QED
    BY <2>1 DEF WorkTypes, RequestTypes, StreamTypes, Fetching
<1>3. WorkTypes'
  BY <1>2, FetchTypes, StreamStepTypes, OutsideTypes DEF Next, Types
<1> QED
  BY <1>1, <1>3 DEF Types

\* The variables hold what the code can put there, and the normalised format is one that is
\* configured, valid or supported by a player, whatever formats the provider reports (TypeOK).
THEOREM TypeCorrect == Spec => []TypeOK
<1>1. Types => TypeOK
  <2> SUFFICES ASSUME Types PROVE TypeOK
    OBVIOUS
  <2>1. {loaded, linked, checks} \subseteq Nat /\ available \subseteq 1 .. loads
    BY DEF Types, LinkTypes
  <2>2. /\ params.rate \in Valid \union (UNION Players) \union {configured}
        /\ params.depth \in Depths
    BY DEF Types, FormatTypes, Allowed
  <2>3. \A t \in Tracks : cache[t] \in Details \union {None}
    BY DEF Types, CacheTypes
  <2>4. \A w \in Workers : RequestTypes(fetch[w])
    BY DEF Types, WorkTypes
  <2>5. StreamTypes
    BY DEF Types, WorkTypes
  <2> QED
    BY <2>1, <2>2, <2>3, <2>4, <2>5 DEF TypeOK, RequestTypes, StreamTypes, Fetching
<1>2. Spec => []Types
  BY InitTypes, NextTypes, Invariance, PTL DEF Spec
<1> QED
  BY <1>1, <1>2, PTL
=============================================================================
