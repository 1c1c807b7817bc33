-------------------------- MODULE AudioStreamProofs --------------------------
(***************************************************************************)
(* Proofs about AudioStream, for every number of sessions and items.       *)
(***************************************************************************)
EXTENDS AudioStream, TLAPS

Position == Items \union {None}
Tokens == [owner : Owners, session : Sessions \union {None}]
Kinds == {"same", "navigated", "replaced", "kept", "seek"}
Frames == [kind : Kinds, item : Position, paused : BOOLEAN, ours : BOOLEAN]

SessionStates ==
    [owner : Owners \union {None}, consumer : Players \union {None},
     session : Sessions \union {None}, cursor : Position, stop : StopReasons \union {None},
     paused : BOOLEAN, restart : BOOLEAN, reason : RestartReasons \union {None}]
StreamStates ==
    [pc : {"none", "waiting", "halting", "opening", "playing", "ended", "completing",
           "replenishing", "following", "dozing"},
     item : Position, token : Tokens \union {None},
     news : SUBSET {"navigated", "replaced", "command", "device"}]
RequestStates ==
    [phase : {"free", "chosen", "selecting", "selected", "closing", "closed"},
     owner : Owners \union {None}, player : Players \union {None}, begun : BOOLEAN]
HandlerStates ==
    [pc : {"idle", "muting", "formatting", "stopping", "stopped"},
     frame : Frames \union {None}, target : Players \union {None}, reselect : BOOLEAN]
HistoryStates == [asked : BOOLEAN, skipped : BOOLEAN, current : Sessions \union {None}]

\* A stream that runs has begun, for a request that MA made.
Attended ==
    \A g \in Sessions :
        /\ Live(g) => ma[g].begun
        /\ ma[g].begun => ma[g].phase # "free"
        /\ ma[g].phase # "free" => ma[g].owner # None /\ ma[g].player # None

\* What the callback is about to do has its arguments.
Pending ==
    /\ handler.pc \in {"muting", "formatting"} => handler.frame \in Frames
    /\ handler.pc \in {"formatting", "stopping", "stopped"} => handler.target # None

\* The types of all variables together.
Types ==
    /\ playback \in SessionStates
    /\ stream \in [Sessions -> StreamStates]
    /\ ma \in [Sessions -> RequestStates]
    /\ handler \in HandlerStates
    /\ ynison \in [item : Position, paused : BOOLEAN, ours : BOOLEAN]
    /\ plays \in Seq(Players) /\ settle \in BOOLEAN
    /\ history \in HistoryStates
    /\ Attended /\ Pending

Own(g) == [owner |-> ma[g].owner, session |-> g]

\* What a claim, a request and a stream know of each other.
Claimed ==
    /\ playback.session = None => playback.owner = None
    /\ \A g \in Sessions :
         /\ playback.session = g => /\ playback.owner \in {None, ma[g].owner}
                                    /\ ma[g].phase \in {"selected", "closing"}
         /\ ma[g].phase \in {"free", "chosen", "selecting"} => ~ma[g].begun
         /\ ma[g].phase = "selected" /\ ~ma[g].begun
              => playback.session = g /\ playback.owner = ma[g].owner
         /\ Live(g) => stream[g].token = Own(g)

\* A stream that is open, or opening, and whose claim stands.
Sounds(g) == stream[g].pc \in {"opening", "playing"} /\ ~Lost(playback, stream[g].token)

Handling ==
    /\ handler.pc = "muting" => ~ynison.ours /\ ~handler.frame.ours
    /\ handler.pc = "formatting" =>
         /\ ynison.ours /\ ~ynison.paused
         /\ handler.frame.item = ynison.item /\ ynison.item # None
    /\ handler.pc \in {"stopping", "stopped"} => ynison.ours /\ ynison.paused

Silenced ==
    ~history.skipped /\ ynison.ours /\ ynison.paused
      => \A g \in Sessions : Sounds(g) => playback.stop # None

CursorKnown ==
    ~playback.restart =>
        \A g \in Sessions :
            Sounds(g) => playback.cursor = None \/ Track(playback.cursor) = Track(stream[g].item)

Following ==
    ~history.skipped /\ ynison.ours /\ ynison.item # None /\ handler.pc # "formatting"
         /\ playback.stop = None /\ ~playback.restart
      => \A g \in Sessions : Sounds(g) => Track(stream[g].item) = Track(ynison.item)

AInv == Claimed /\ ClaimHeld /\ Handling /\ Silenced /\ CursorKnown /\ Following

\* Two states of a stream between which nothing but its waiting differs.
Alike(s, t) ==
    /\ t.item = s.item /\ t.token = s.token
    /\ t.pc # "none" <=> s.pc # "none"
    /\ t.pc \in {"opening", "playing"} <=> s.pc \in {"opening", "playing"}
    /\ t.pc = "halting" => s.pc = "halting"

-----------------------------------------------------------------------------
(* Types                                                                     *)

\* None names no owner, player, session, token, item or reason.
LEMMA Distinct ==
  /\ None \notin Owners /\ None \notin Players /\ None \notin Sessions /\ Owners \subseteq Players
  /\ None \notin Tokens /\ None \notin Items /\ None \notin StopReasons
  /\ None \notin RestartReasons
  BY PlayersAssumption, SessionsAssumption, ItemsAssumption, ReasonsAssumption
     DEF Owners, Players, Tokens

\* A woken stream waits no longer, and nothing else.
LEMMA WokenAre ==
  ASSUME NEW s \in [Sessions -> StreamStates]
  PROVE  /\ Woken(s) \in [Sessions -> StreamStates]
         /\ \A g \in Sessions : Alike(s[g], Woken(s)[g])
<1>1. ASSUME NEW g \in Sessions
      PROVE  /\ (IF s[g].pc = "dozing" THEN [s[g] EXCEPT !.pc = "following"] ELSE s[g])
                   \in StreamStates
             /\ Alike(s[g], IF s[g].pc = "dozing" THEN [s[g] EXCEPT !.pc = "following"]
                            ELSE s[g])
  BY DEF StreamStates, Alike
<1> QED
  BY <1>1 DEF Woken

\* Tearing down a player moves open requests to "closing" and changes nothing else of them.
LEMMA TornDownAre ==
  ASSUME ma \in [Sessions -> RequestStates], NEW player, NEW but
  PROVE  /\ TornDown(player, but) \in [Sessions -> RequestStates]
         /\ \A g \in Sessions :
              LET m == TornDown(player, but)[g]
              IN /\ m.owner = ma[g].owner /\ m.player = ma[g].player /\ m.begun = ma[g].begun
                 /\ \/ m.phase = ma[g].phase
                    \/ /\ m.phase = "closing" /\ g # but
                       /\ ma[g].phase \in {"chosen", "selecting", "selected"}
<1> DEFINE M(g) ==
      IF g # but /\ ma[g].phase \in {"chosen", "selecting", "selected"}
           /\ player \in {ma[g].owner, ma[g].player}
      THEN [ma[g] EXCEPT !.phase = "closing"] ELSE ma[g]
<1>1. ASSUME NEW g \in Sessions
      PROVE  /\ M(g) \in RequestStates
             /\ M(g).owner = ma[g].owner /\ M(g).player = ma[g].player
             /\ M(g).begun = ma[g].begun
             /\ \/ M(g).phase = ma[g].phase
                \/ /\ M(g).phase = "closing" /\ g # but
                   /\ ma[g].phase \in {"chosen", "selecting", "selected"}
  BY DEF RequestStates
<1>2. TornDown(player, but) = [g \in Sessions |-> M(g)]
  BY DEF TornDown
<1> HIDE DEF M
<1> QED
  BY <1>1, <1>2

\* The methods of the session, by the fields they leave and set.
LEMMA Methods ==
  ASSUME NEW p \in SessionStates
  PROVE  /\ BeginStream(p) \in SessionStates /\ SeedStart(p) \in SessionStates
         /\ ConsumeRestart(p) \in SessionStates /\ TakeStart(p) \in SessionStates
         /\ Resume(p) \in SessionStates /\ Reset(p) \in SessionStates
         /\ \A r \in RestartReasons : RequestRestart(p, r) \in SessionStates
         /\ \A r \in StopReasons : RequestStop(p, r) \in SessionStates
         /\ \A o \in Players : PauseExternally(p, o) \in SessionStates
         /\ \A o : \A g : Release(p, o, g) \in SessionStates
         /\ \A t : ReleaseIfCurrent(p, t) \in SessionStates
         /\ \A i \in Position : [p EXCEPT !.cursor = i] \in SessionStates
         /\ \A o \in Owners, c \in Players, g \in Sessions : Claim(p, o, c, g) \in SessionStates
         /\ Capture(p) \in Tokens \union {None}
<1> USE DEF SessionStates
<1>1. BeginStream(p) \in SessionStates /\ SeedStart(p) \in SessionStates
  BY DEF BeginStream, SeedStart, RestartReasons
<1>2. ConsumeRestart(p) \in SessionStates /\ TakeStart(p) \in SessionStates
  BY DEF ConsumeRestart, TakeStart
<1>3. Resume(p) \in SessionStates /\ Reset(p) \in SessionStates
  BY DEF Resume, Reset, StopReasons
<1>4. \A r \in RestartReasons : RequestRestart(p, r) \in SessionStates
  BY DEF RequestRestart
<1>5. \A r \in StopReasons : RequestStop(p, r) \in SessionStates
  BY DEF RequestStop
<1>6. \A o \in Players : PauseExternally(p, o) \in SessionStates
  BY DEF PauseExternally
<1>7. \A o : \A g : Release(p, o, g) \in SessionStates
  BY DEF Release
<1>8. \A t : ReleaseIfCurrent(p, t) \in SessionStates
  BY DEF ReleaseIfCurrent
<1>9. \A i \in Position : [p EXCEPT !.cursor = i] \in SessionStates
  OBVIOUS
<1>10. \A o \in Owners, c \in Players, g \in Sessions : Claim(p, o, c, g) \in SessionStates
  BY DEF Claim
<1>11. Capture(p) \in Tokens \union {None}
  BY DEF Capture, Tokens
<1> HIDE DEF SessionStates
<1> QED
  BY <1>1, <1>2, <1>3, <1>4, <1>5, <1>6, <1>7, <1>8, <1>9, <1>10, <1>11

\* What the streams are after a step of g: no other one begins.
StreamsAfter(s, g, t) ==
    /\ t \in [Sessions -> StreamStates]
    /\ \A h \in Sessions : h # g => Alike(s[h], t[h])

\* Setting one stream leaves each other stream alike, whether or not waiters were woken.
LEMMA SettingAStream ==
  ASSUME NEW s \in [Sessions -> StreamStates], NEW g \in Sessions, NEW r \in StreamStates
  PROVE  /\ StreamsAfter(s, g, [s EXCEPT ![g] = r])
         /\ StreamsAfter(s, g, [Woken(s) EXCEPT ![g] = r])
<1>1. \A h \in Sessions : Alike(s[h], s[h])
  BY DEF Alike
<1> QED
  BY <1>1, WokenAre DEF StreamsAfter

\* A generator that exits clears the cursor and releases the claim only if it still holds it.
LEMMA Exiting ==
  ASSUME NEW p \in SessionStates, NEW s \in [Sessions -> StreamStates], NEW g \in Sessions,
         Exits(g, p, s)
  PROVE  /\ playback' \in SessionStates /\ StreamsAfter(s, g, stream')
         /\ playback'.session = p.session /\ playback'.cursor = None
         /\ playback'.stop = p.stop /\ playback'.restart = p.restart
         /\ playback'.owner = IF s[g].token = None \/ Lost(p, s[g].token) THEN p.owner ELSE None
         /\ stream'[g] = Silent
<1>1. Silent \in StreamStates
  BY DEF Silent, StreamStates, Position
<1>2. PICK q : q = ReleaseIfCurrent(p, s[g].token)
  OBVIOUS
<1>3. q \in SessionStates
  BY <1>2, Methods
<1>8. /\ q.session = p.session /\ q.stop = p.stop /\ q.restart = p.restart
      /\ q.owner = IF s[g].token = None \/ Lost(p, s[g].token) THEN p.owner ELSE None
  BY <1>2 DEF ReleaseIfCurrent, SessionStates
<1>4. playback' = [q EXCEPT !.cursor = None]
  BY <1>2 DEF Exits, Ended
<1>5. playback' \in SessionStates
  BY <1>3, <1>4, Methods DEF Position
<1>6. /\ playback'.session = q.session /\ playback'.cursor = None
      /\ playback'.stop = q.stop /\ playback'.restart = q.restart /\ playback'.owner = q.owner
  BY <1>3, <1>4 DEF SessionStates
<1>7. stream' = [s EXCEPT ![g] = Silent]
  BY DEF Exits
<1> QED
  BY <1>1, <1>3, <1>5, <1>6, <1>7, <1>8, SettingAStream

\* The outcomes of the head of the loop: the stream is not to go on, it ends because of a
\* pause, it waits for an item or halts without a provider, or it opens a track.
LoopStops(g, p, t) ==
    /\ ~GoesOn(p, t) /\ playback'.restart = p.restart
    /\ playback'.stop = p.stop /\ playback'.cursor = None
    /\ stream'[g] = Silent
    /\ playback'.owner = IF t = None \/ Lost(p, t) THEN p.owner ELSE None
LoopPauses(g, p, t) ==
    /\ GoesOn(p, t) /\ playback'.restart = FALSE
    /\ stream'[g] = Silent /\ playback'.cursor = None
    /\ playback'.owner = IF t = None THEN p.owner ELSE None
    /\ playback'.stop = p.stop
LoopWaits(g, p, t) ==
    /\ GoesOn(p, t) /\ playback'.restart = FALSE
    /\ playback'.owner = p.owner /\ stream'[g].token = t
    /\ stream'[g].pc \in {"waiting", "halting"}
LoopStarts(g, p, t) ==
    /\ GoesOn(p, t) /\ playback'.restart = FALSE
    /\ playback'.owner = p.owner /\ stream'[g].token = t
    /\ ynison.item # None /\ ~ynison.paused
    /\ stream'[g].pc = "opening" /\ stream'[g].item = ynison.item
    /\ playback'.cursor = ynison.item /\ playback'.stop = p.stop

\* A generator back at the top of its loop adds at most the loss of its provider to the stop.
LEMMA Looping ==
  ASSUME NEW p \in SessionStates, NEW s \in [Sessions -> StreamStates], NEW g \in Sessions,
         Loop(g, p, s), ynison \in [item : Position, paused : BOOLEAN, ours : BOOLEAN],
         history \in HistoryStates
  PROVE  /\ playback' \in SessionStates /\ StreamsAfter(s, g, stream')
         /\ playback'.session = p.session
         /\ playback'.stop \in {p.stop, "provider_lost"}
         /\ history' \in HistoryStates
         /\ history'.skipped = history.skipped /\ history'.current = history.current
         /\ \/ LoopStops(g, p, s[g].token) \/ LoopPauses(g, p, s[g].token)
            \/ LoopWaits(g, p, s[g].token) \/ LoopStarts(g, p, s[g].token)
<1> DEFINE q0 == ConsumeRestart(p)
           q == [q0 EXCEPT !.cursor = ynison.item]
<1>1. /\ q0 \in SessionStates /\ q0.restart = FALSE /\ q0.owner = p.owner
      /\ q0.session = p.session /\ q0.stop = p.stop
  BY Methods DEF ConsumeRestart, SessionStates
<1>2. /\ q \in SessionStates /\ q.restart = FALSE /\ q.owner = p.owner
      /\ q.session = p.session /\ q.stop = p.stop /\ q.cursor = ynison.item
  BY <1>1, Methods, ZenonT(30) DEF SessionStates
<1>3. \A t : Lost(q, t) = Lost(p, t)
  BY <1>2 DEF Lost
<1> HIDE DEF q0, q
<1>4. CASE ~GoesOn(p, s[g].token) /\ Exits(g, p, s) /\ UNCHANGED history
  BY <1>4, Exiting DEF LoopStops
<1>5. CASE GoesOn(p, s[g].token) /\ Exits(g, q, s) /\ UNCHANGED history
  <2>1. ~Lost(q, s[g].token)
    BY <1>3, <1>5 DEF GoesOn
  <2> QED
    BY <1>2, <1>5, <2>1, Exiting DEF Silent, LoopPauses
<1>6. CASE /\ GoesOn(p, s[g].token) /\ playback' = q0
           /\ stream' = [s EXCEPT ![g].pc = "waiting"] /\ UNCHANGED history
  <2>1. PICK r : r = [s[g] EXCEPT !.pc = "waiting"]
    OBVIOUS
  <2>2. r \in StreamStates /\ r.token = s[g].token /\ r.pc = "waiting"
    BY <2>1 DEF StreamStates
  <2>3. stream' = [s EXCEPT ![g] = r]
    BY <1>6, <2>1
  <2>4. StreamsAfter(s, g, stream') /\ stream'[g] = r
    BY <2>2, <2>3, SettingAStream
  <2> QED
    BY <1>1, <1>6, <2>2, <2>4 DEF LoopWaits
<1>7. CASE /\ GoesOn(p, s[g].token) /\ playback' = RequestStop(q, "provider_lost")
           /\ stream' = [Woken(s) EXCEPT ![g].pc = "halting"] /\ history' = GivesUp
  <2>1. PICK r : r = [Woken(s)[g] EXCEPT !.pc = "halting"]
    OBVIOUS
  <2>2. r \in StreamStates /\ r.token = s[g].token /\ r.pc = "halting"
    BY <2>1, WokenAre DEF StreamStates, Alike
  <2>3. stream' = [Woken(s) EXCEPT ![g] = r] /\ Woken(s) \in [Sessions -> StreamStates]
    BY <1>7, <2>1, WokenAre
  <2>4. StreamsAfter(s, g, stream') /\ stream'[g] = r
    BY <2>2, <2>3, SettingAStream
  <2>5. playback' \in SessionStates
    BY <1>2, <1>7, Methods DEF StopReasons
  <2>6. /\ playback'.owner = q.owner /\ playback'.session = q.session
        /\ playback'.stop = "provider_lost" /\ playback'.restart = q.restart
    BY <1>2, <1>7 DEF RequestStop, SessionStates
  <2>7. /\ history' \in HistoryStates
        /\ history'.skipped = history.skipped /\ history'.current = history.current
    BY <1>7 DEF GivesUp, HistoryStates
  <2> QED
    BY <1>2, <1>7, <2>2, <2>4, <2>5, <2>6, <2>7 DEF LoopWaits
<1>8. CASE /\ GoesOn(p, s[g].token) /\ ynison.item # None /\ ~ynison.paused
           /\ playback' = TakeStart(q) /\ UNCHANGED history
           /\ stream' = [s EXCEPT ![g].pc = "opening", ![g].item = ynison.item, ![g].news = {}]
  <2>1. PICK r : r = [s[g] EXCEPT !.pc = "opening", !.item = ynison.item, !.news = {}]
    OBVIOUS
  <2>2. /\ r \in StreamStates /\ r.token = s[g].token /\ r.pc = "opening"
        /\ r.item = ynison.item
    BY <2>1 DEF StreamStates
  <2>3. stream' = [s EXCEPT ![g] = r]
    BY <1>8, <2>1
  <2>4. StreamsAfter(s, g, stream') /\ stream'[g] = r
    BY <2>2, <2>3, SettingAStream
  <2>5. playback' \in SessionStates
    BY <1>2, <1>8, Methods
  <2>6. /\ playback'.owner = q.owner /\ playback'.session = q.session
        /\ playback'.stop = q.stop /\ playback'.restart = q.restart
        /\ playback'.cursor = q.cursor
    BY <1>2, <1>8 DEF TakeStart, SessionStates
  <2> QED
    BY <1>2, <1>8, <2>2, <2>4, <2>5, <2>6 DEF LoopStarts
<1> QED
  BY <1>4, <1>5, <1>6, <1>7, <1>8 DEF Loop, q, q0

\* What a step of a stream that has begun does.  One whose claim is lost leaves the
\* restart requests and the claim alone; it may stop the playback.
Advances(g) ==
    /\ playback' \in SessionStates /\ StreamsAfter(stream, g, stream')
    /\ playback'.session = playback.session
    /\ playback'.stop = playback.stop \/ playback'.stop # None
    /\ Lost(playback, stream[g].token) =>
         /\ playback'.restart = playback.restart \/ playback'.restart
         /\ playback'.cursor = playback.cursor \/ playback'.cursor = None
    /\ \/ /\ stream'[g] = Silent
          /\ playback'.owner = IF stream[g].token = None \/ Lost(playback, stream[g].token)
                               THEN playback.owner ELSE None
       \/ /\ stream'[g].token = stream[g].token /\ playback'.owner = playback.owner
          /\ stream'[g].pc \notin {"opening", "playing"}
       \/ /\ stream[g].pc = "opening" /\ stream'[g].pc = "playing" /\ UNCHANGED playback
          /\ stream'[g].token = stream[g].token /\ stream'[g].item = stream[g].item
       \/ /\ ~Lost(playback, stream[g].token) /\ stream'[g].token = stream[g].token
          /\ playback'.owner = playback.owner /\ playback'.restart = FALSE
          /\ stream'[g].item = ynison.item /\ playback'.cursor = ynison.item
          /\ ynison.item # None /\ ~ynison.paused

Remembers ==
    /\ history' \in HistoryStates
    /\ history'.skipped = history.skipped /\ history'.current = history.current

\* The same for a loop that starts over, from a session that was reset a little.
LEMMA LoopAdvances ==
  ASSUME Types, NEW g \in Sessions, NEW p \in SessionStates,
         NEW s \in [Sessions -> StreamStates], Loop(g, p, s),
         \A h \in Sessions : Alike(stream[h], s[h]),
         p.owner = playback.owner, p.session = playback.session, p.stop = playback.stop,
         p.restart = playback.restart \/ p.restart,
         p.cursor = playback.cursor \/ p.cursor = None
  PROVE  Advances(g) /\ Remembers
<1>1. s[g].token = stream[g].token
  BY DEF Alike
<1>2. \A t : Lost(p, t) = Lost(playback, t)
  BY DEF Lost
<1>3. StreamsAfter(s, g, stream') => StreamsAfter(stream, g, stream')
  BY DEF StreamsAfter, Alike
<1>4. GoesOn(p, stream[g].token) => ~Lost(playback, stream[g].token)
  BY <1>2 DEF GoesOn
<1>5. /\ playback' \in SessionStates /\ StreamsAfter(stream, g, stream')
      /\ playback'.session = playback.session
      /\ playback'.stop \in {playback.stop, "provider_lost"}
      /\ Remembers
      /\ \/ LoopStops(g, p, s[g].token) \/ LoopPauses(g, p, s[g].token)
         \/ LoopWaits(g, p, s[g].token) \/ LoopStarts(g, p, s[g].token)
  BY <1>3, Looping DEF Types, Remembers
<1>6. playback'.stop = playback.stop \/ playback'.stop # None
  BY <1>5, Distinct DEF StopReasons
<1>7. CASE LoopStops(g, p, s[g].token)
  BY <1>1, <1>2, <1>5, <1>6, <1>7 DEF Advances, LoopStops
<1>8. CASE LoopPauses(g, p, s[g].token)
  BY <1>1, <1>2, <1>4, <1>5, <1>6, <1>8 DEF Advances, LoopPauses
<1>9. CASE LoopWaits(g, p, s[g].token)
  BY <1>1, <1>4, <1>5, <1>6, <1>9 DEF Advances, LoopWaits
<1>10. CASE LoopStarts(g, p, s[g].token)
  BY <1>1, <1>4, <1>5, <1>6, <1>10 DEF Advances, LoopStarts
<1> QED
  BY <1>5, <1>7, <1>8, <1>9, <1>10

\* A step that only moves the stream on, waking the waiters or not.
LEMMA MovingOn ==
  ASSUME Types, NEW g \in Sessions, NEW r, NEW s, s \in {stream, Woken(stream)},
         stream' = [s EXCEPT ![g] = r], r \in StreamStates, r.token = s[g].token,
         r.pc \notin {"opening", "playing"},
         \/ UNCHANGED playback
         \/ \E reason \in StopReasons : playback' = RequestStop(playback, reason)
  PROVE  Advances(g)
<1>1. stream \in [Sessions -> StreamStates] /\ playback \in SessionStates
  BY DEF Types
<1>2. StreamsAfter(stream, g, stream') /\ stream'[g] = r /\ r.token = stream[g].token
  BY <1>1, SettingAStream, WokenAre DEF StreamsAfter, Alike
<1>3. /\ playback' \in SessionStates
      /\ playback'.owner = playback.owner /\ playback'.session = playback.session
      /\ playback'.cursor = playback.cursor /\ playback'.restart = playback.restart
      /\ playback'.stop = playback.stop \/ playback'.stop # None
  <2>1. CASE UNCHANGED playback
    BY <1>1, <2>1
  <2>2. ASSUME NEW reason \in StopReasons, playback' = RequestStop(playback, reason)
        PROVE  <1>3!:
    <3>1. playback' \in SessionStates
      BY <1>1, <2>2, Methods
    <3> QED
      BY <1>1, <2>2, <3>1, Distinct DEF RequestStop, SessionStates
  <2> QED
    BY <2>1, <2>2
<1> QED
  BY <1>2, <1>3 DEF Advances

\* A step that ends the generator.
LEMMA Ending ==
  ASSUME Types, NEW g \in Sessions, NEW p \in SessionStates, NEW s, s \in {stream, Woken(stream)},
         Exits(g, p, s), p.owner = playback.owner, p.session = playback.session,
         p.restart = playback.restart, p.stop = playback.stop \/ p.stop # None
  PROVE  Advances(g)
<1>1. stream \in [Sessions -> StreamStates]
  BY DEF Types
<1>2. s \in [Sessions -> StreamStates] /\ \A h \in Sessions : Alike(stream[h], s[h])
  BY <1>1, WokenAre DEF Alike
<1>3. StreamsAfter(s, g, stream') => StreamsAfter(stream, g, stream')
  BY <1>2 DEF StreamsAfter, Alike
<1>4. s[g].token = stream[g].token
  BY <1>2 DEF Alike
<1>5. \A t : Lost(p, t) = Lost(playback, t)
  BY DEF Lost
<1> QED
  BY <1>2, <1>3, <1>4, <1>5, Exiting DEF Advances

\* The end of a queue is an advance of the stream, of which the history keeps a record.
LEMMA QueueEnding ==
  ASSUME Types, NEW g \in Sessions, QueueEnds(g)
  PROVE  Advances(g) /\ Remembers
<1>1. PICK p : p = RequestStop(playback, "queue_end")
  OBVIOUS
<1>2. playback \in SessionStates /\ p \in SessionStates
  BY <1>1, Methods DEF Types, StopReasons
<1>3. /\ p.owner = playback.owner /\ p.session = playback.session
      /\ p.restart = playback.restart /\ p.stop # None
  BY <1>1, <1>2, Distinct DEF RequestStop, SessionStates, StopReasons
<1>4. Exits(g, p, Woken(stream))
  BY <1>1 DEF QueueEnds
<1>5. Remembers
  BY DEF QueueEnds, Remembers, GivesUp, Types, HistoryStates
<1> QED
  BY <1>2, <1>3, <1>4, <1>5, Ending

\* The head of the loop after a track: the cursor is forgotten, and perhaps a restart
\* asked for.
LEMMA LoopingAgain ==
  ASSUME Types, NEW g \in Sessions, NEW p, NEW s, s \in {stream, Woken(stream)},
         \/ p = playback
         \/ \E reason \in RestartReasons : p = RequestRestart(playback, reason),
         Loop(g, p, s) \/ Loop(g, [p EXCEPT !.cursor = None], s)
  PROVE  Advances(g) /\ Remembers
<1>1. /\ p \in SessionStates /\ p.owner = playback.owner /\ p.session = playback.session
      /\ p.stop = playback.stop /\ p.cursor = playback.cursor
      /\ p.restart = playback.restart \/ p.restart
  <2>1. playback \in SessionStates
    BY DEF Types
  <2>2. CASE p = playback
    BY <2>1, <2>2
  <2>3. ASSUME NEW reason \in RestartReasons, p = RequestRestart(playback, reason)
        PROVE  <1>1!:
    <3>1. p \in SessionStates
      BY <2>1, <2>3, Methods
    <3> QED
      BY <2>1, <2>3, <3>1 DEF RequestRestart, SessionStates
  <2> QED
    BY <2>2, <2>3
<1>2. PICK q : q = [p EXCEPT !.cursor = None]
  OBVIOUS
<1>3. /\ q \in SessionStates /\ q.owner = playback.owner /\ q.session = playback.session
      /\ q.stop = playback.stop /\ q.cursor = None
      /\ q.restart = playback.restart \/ q.restart
  BY <1>1, <1>2 DEF SessionStates, Position
<1>4. stream \in [Sessions -> StreamStates]
  BY DEF Types
<1>5. s \in [Sessions -> StreamStates] /\ \A h \in Sessions : Alike(stream[h], s[h])
  BY <1>4, WokenAre DEF Alike
<1>6. CASE Loop(g, p, s)
  BY <1>1, <1>5, <1>6, LoopAdvances
<1>7. CASE Loop(g, q, s)
  BY <1>3, <1>5, <1>7, LoopAdvances
<1> QED
  BY <1>2, <1>6, <1>7

\* Every step of a generator after its first one.
Continues(g) ==
    \/ WaitEnds(g) \/ Halts(g) \/ Opens(g) \/ LosesProvider(g) \/ FailsToOpen(g)
    \/ NotAdmitted(g) \/ TrackEnds(g) \/ AfterTrack(g) \/ Completes(g) \/ Replenished(g)
    \/ Follows(g) \/ TimesOut(g)

\* A generator that goes on leaves the handler alone and makes no other stream live.
LEMMA Continuing ==
  ASSUME Types, NEW g \in Sessions, Continues(g)
  PROVE  /\ Advances(g) /\ Remembers /\ UNCHANGED <<ynison, handler, plays, settle>>
         /\ Live(g) /\ (UNCHANGED ma \/ \E player : ma' = TornDown(player, None))
<1> DEFINE s == stream[g]
           At(pc) == [s EXCEPT !.pc = pc]
           Fresh(pc) == [s EXCEPT !.pc = pc, !.news = {}]
<1>1. /\ stream \in [Sessions -> StreamStates] /\ playback \in SessionStates
      /\ history \in HistoryStates /\ s \in StreamStates
  BY DEF Types
<1>2. ASSUME NEW pc \in {"waiting", "halting", "ended", "completing", "replenishing",
                         "following", "dozing"}
      PROVE  /\ At(pc) \in StreamStates /\ Fresh(pc) \in StreamStates
             /\ At(pc).token = s.token /\ Fresh(pc).token = s.token
             /\ At(pc).pc = pc /\ Fresh(pc).pc = pc
  BY <1>1 DEF StreamStates
<1>3. UNCHANGED history => Remembers
  BY <1>1 DEF Remembers
<1>4. history' = GivesUp => Remembers
  BY <1>1 DEF Remembers, GivesUp, HistoryStates
<1>5. /\ UNCHANGED <<ynison, handler, plays, settle>> /\ Live(g)
      /\ UNCHANGED ma \/ \E player : ma' = TornDown(player, None)
  BY DEF Continues, WaitEnds, Halts, Opens, LosesProvider, FailsToOpen, NotAdmitted, TrackEnds,
         AfterTrack, Completes, Replenished, Follows, TimesOut, StopsTrack, Live, outside,
         conditions
<1>6. ASSUME NEW pc \in {"waiting", "halting", "ended", "completing", "replenishing",
                         "following", "dozing"},
             UNCHANGED playback,
             stream' = [stream EXCEPT ![g] = At(pc)] \/ stream' = [stream EXCEPT ![g] = Fresh(pc)]
      PROVE  Advances(g)
  <2>1. PICK r \in {At(pc), Fresh(pc)} : stream' = [stream EXCEPT ![g] = r]
    BY <1>6
  <2>2. r \in StreamStates /\ r.token = stream[g].token /\ r.pc = pc
    <3> HIDE DEF At, Fresh
    <3>1. CASE r = At(pc)
      BY <1>2, <3>1
    <3>2. CASE r = Fresh(pc)
      BY <1>2, <3>2
    <3> QED
      BY <2>1, <3>1, <3>2
  <2>3. pc \notin {"opening", "playing"}
    BY <1>6
  <2> HIDE DEF s, At, Fresh
  <2> QED
    BY <1>6, <2>1, <2>2, <2>3, MovingOn
<1>7. Exits(g, playback, stream) => Advances(g)
  BY <1>1, Ending
<1> HIDE DEF s
<1>8. CASE WaitEnds(g)
  BY <1>8, LoopingAgain, <1>5 DEF WaitEnds
<1>9. CASE Halts(g)
  BY <1>3, <1>5, <1>7, <1>9 DEF Halts
<1>10. CASE Opens(g)
  <2>1. PICK r : r = [stream[g] EXCEPT !.pc = "playing"]
    OBVIOUS
  <2>2. /\ r \in StreamStates /\ r.pc = "playing" /\ r.token = stream[g].token
        /\ r.item = stream[g].item
    BY <1>1, <2>1 DEF StreamStates, s
  <2>3. stream' = [stream EXCEPT ![g] = r] /\ UNCHANGED <<playback, history>>
    BY <1>10, <2>1 DEF Opens
  <2>4. StreamsAfter(stream, g, stream') /\ stream'[g] = r
    BY <1>1, <2>2, <2>3, SettingAStream
  <2>5. Advances(g)
    BY <1>1, <1>10, <2>2, <2>3, <2>4 DEF Advances, Opens
  <2> QED
    BY <1>3, <1>5, <2>3, <2>5
<1>11. CASE LosesProvider(g) \/ FailsToOpen(g)
  <2>1. PICK reason \in StopReasons : StopsTrack(g, reason)
    BY <1>11 DEF LosesProvider, FailsToOpen, StopReasons
  <2>2. PICK r : r = [Woken(stream)[g] EXCEPT !.pc = "ended"]
    OBVIOUS
  <2>3. r \in StreamStates /\ r.token = Woken(stream)[g].token /\ r.pc = "ended"
    BY <1>1, <2>2, WokenAre DEF StreamStates
  <2>4. /\ stream' = [Woken(stream) EXCEPT ![g] = r] /\ history' = GivesUp
        /\ playback' = RequestStop(playback, reason)
    BY <2>1, <2>2 DEF StopsTrack
  <2>5. Advances(g)
    BY <2>3, <2>4, MovingOn
  <2> QED
    BY <1>4, <1>5, <2>4, <2>5
<1>12. CASE NotAdmitted(g)
  BY <1>3, <1>5, <1>7, <1>12 DEF NotAdmitted
<1>13. CASE TrackEnds(g)
  BY <1>3, <1>5, <1>6, <1>13 DEF TrackEnds, s
<1>14. CASE AfterTrack(g)
  <2>1. CASE Exits(g, playback, stream) /\ UNCHANGED history
    BY <1>3, <1>5, <1>7, <2>1
  <2>2. CASE Loop(g, [playback EXCEPT !.cursor = None], stream)
    BY <1>5, <2>2, LoopingAgain
  <2>3. CASE /\ \/ stream' = [stream EXCEPT ![g] = Fresh("completing")]
                \/ stream' = [stream EXCEPT ![g] = Fresh("following")]
             /\ UNCHANGED <<playback, history>>
    BY <1>3, <1>5, <1>6, <2>3
  <2> QED
    BY <1>14, <2>1, <2>2, <2>3 DEF AfterTrack, s
<1>15. CASE Completes(g)
  <2>1. CASE Loop(g, [playback EXCEPT !.cursor = None], stream)
    BY <1>5, <2>1, LoopingAgain
  <2>2. CASE /\ \/ stream' = [stream EXCEPT ![g] = At("following")]
                \/ stream' = [stream EXCEPT ![g] = At("replenishing")]
             /\ UNCHANGED <<playback, history>>
    BY <1>3, <1>5, <1>6, <2>2
  <2>3. CASE Loop(g, [RequestRestart(playback, "repeat") EXCEPT !.cursor = None], Woken(stream))
    BY <1>5, <2>3, LoopingAgain DEF RestartReasons
  <2>4. CASE QueueEnds(g)
    BY <1>5, <2>4, QueueEnding
  <2> QED
    BY <1>15, <2>1, <2>2, <2>3, <2>4 DEF Completes, s
<1>16. CASE Replenished(g)
  <2>1. CASE stream' = [stream EXCEPT ![g] = At("following")] /\ UNCHANGED <<playback, history>>
    BY <1>3, <1>5, <1>6, <2>1
  <2>2. CASE QueueEnds(g)
    BY <1>5, <2>2, QueueEnding
  <2> QED
    BY <1>16, <2>1, <2>2 DEF Replenished, s
<1>17. CASE Follows(g)
  <2>1. CASE QueueEnds(g)
    BY <1>5, <2>1, QueueEnding
  <2>2. CASE stream' = [stream EXCEPT ![g] = At("dozing")] /\ UNCHANGED <<playback, history>>
    BY <1>3, <1>5, <1>6, <2>2
  <2>3. ASSUME NEW p \in {playback, RequestRestart(playback, "track_change")},
               Loop(g, [p EXCEPT !.cursor = None], IF p = playback THEN stream ELSE Woken(stream))
        PROVE  Advances(g) /\ Remembers
    BY <2>3, LoopingAgain DEF RestartReasons
  <2> QED
    BY <1>5, <1>17, <2>1, <2>2, <2>3 DEF Follows, s
<1>18. CASE TimesOut(g)
  BY <1>5, <1>18, QueueEnding DEF TimesOut
<1> QED
  BY <1>8, <1>9, <1>10, <1>11, <1>12, <1>13, <1>14, <1>15, <1>16, <1>17, <1>18 DEF Continues

\* The first step of a stream: it takes the claim that stands, and no stop is left.
LEMMA Beginning ==
  ASSUME Types, NEW g \in Sessions, Begins(g)
  PROVE  /\ playback' \in SessionStates /\ StreamsAfter(stream, g, stream') /\ Remembers
         /\ playback'.session = playback.session /\ playback'.restart = FALSE
         /\ UNCHANGED <<ynison, handler, plays, settle>>
         /\ ~ma[g].begun /\ ma[g].phase \in {"chosen", "selecting", "selected"}
         /\ "preload" \notin Acts => ma[g].phase = "selected"
         /\ ma' = [ma EXCEPT ![g].begun = TRUE]
         /\ \/ stream'[g] = Silent /\ playback'.owner = None
            \/ /\ stream'[g].token = Capture(playback) /\ playback'.owner = playback.owner
               /\ stream'[g].pc \in {"waiting", "halting"}
            \/ /\ stream'[g].token = Capture(playback) /\ playback'.owner = playback.owner
               /\ stream'[g].pc = "opening" /\ stream'[g].item = ynison.item
               /\ ynison.item # None /\ ~ynison.paused /\ playback'.cursor = ynison.item
<1>1. PICK t : t = Capture(playback)
  OBVIOUS
<1>2. PICK r : r = [Silent EXCEPT !.token = t]
  OBVIOUS
<1>3. PICK p : p = BeginStream(playback)
  OBVIOUS
<1>5. PICK s : s = [stream EXCEPT ![g] = r]
  OBVIOUS
<1>4. PICK q \in {p, SeedStart(p)} : Loop(g, q, s)
  BY <1>1, <1>2, <1>3, <1>5 DEF Begins
<1>6. playback \in SessionStates /\ stream \in [Sessions -> StreamStates]
  BY DEF Types
<1>7. p \in SessionStates /\ q \in SessionStates
  BY <1>3, <1>4, <1>6, Methods
<1>8. /\ p.stop = None /\ p.owner = playback.owner /\ p.session = playback.session
      /\ p.restart = playback.restart
  BY <1>3, <1>6 DEF BeginStream, SessionStates
<1>9. /\ q.stop = None /\ q.owner = playback.owner /\ q.session = playback.session
      /\ q.restart = playback.restart
  BY <1>4, <1>7, <1>8 DEF SeedStart, SessionStates
<1>10. r \in StreamStates /\ r.token = t
  BY <1>1, <1>2, <1>6, Methods DEF Silent, StreamStates, Position
<1>11. s \in [Sessions -> StreamStates] /\ s[g].token = t /\ StreamsAfter(stream, g, s)
  BY <1>5, <1>6, <1>10, SettingAStream
<1>12. StreamsAfter(s, g, stream') => StreamsAfter(stream, g, stream')
  BY <1>11 DEF StreamsAfter, Alike
<1>13. GoesOn(q, t)
  BY <1>1, <1>9 DEF GoesOn, Lost, Capture
<1>14. t = None => playback.owner = None
  BY <1>1, Distinct, <1>6 DEF Capture, Tokens, SessionStates
<1>15. /\ playback' \in SessionStates /\ StreamsAfter(stream, g, stream') /\ Remembers
       /\ playback'.session = playback.session /\ playback'.restart = FALSE
       /\ \/ stream'[g] = Silent /\ playback'.owner = None
          \/ /\ stream'[g].token = t /\ playback'.owner = playback.owner
             /\ stream'[g].pc \in {"waiting", "halting"}
          \/ /\ stream'[g].token = t /\ playback'.owner = playback.owner
             /\ stream'[g].pc = "opening" /\ stream'[g].item = ynison.item
             /\ ynison.item # None /\ ~ynison.paused /\ playback'.cursor = ynison.item
  <2>1. /\ ynison \in [item : Position, paused : BOOLEAN, ours : BOOLEAN]
        /\ history \in HistoryStates
    BY DEF Types
  <2>2. Loop(g, q, s) /\ q \in SessionStates /\ s \in [Sessions -> StreamStates]
    BY <1>4, <1>7, <1>11
  <2>3. t = s[g].token /\ GoesOn(q, s[g].token)
    BY <1>11, <1>13
  <2>4. /\ playback' \in SessionStates /\ StreamsAfter(s, g, stream')
        /\ playback'.session = q.session
        /\ history' \in HistoryStates
        /\ history'.skipped = history.skipped /\ history'.current = history.current
    BY <2>1, <2>2, Looping
  <2>5. /\ playback'.restart = FALSE
        /\ \/ /\ stream'[g] = Silent
              /\ playback'.owner = IF s[g].token = None THEN q.owner ELSE None
           \/ /\ stream'[g].token = s[g].token /\ playback'.owner = q.owner
              /\ stream'[g].pc \in {"waiting", "halting"}
           \/ /\ stream'[g].token = s[g].token /\ playback'.owner = q.owner
              /\ stream'[g].pc = "opening" /\ stream'[g].item = ynison.item
              /\ ynison.item # None /\ ~ynison.paused
              /\ playback'.cursor = ynison.item
    <3>1. \/ LoopStops(g, q, s[g].token) \/ LoopPauses(g, q, s[g].token)
          \/ LoopWaits(g, q, s[g].token) \/ LoopStarts(g, q, s[g].token)
      BY <2>1, <2>2, Looping
    <3> QED
      BY <2>3, <3>1 DEF LoopStops, LoopPauses, LoopWaits, LoopStarts
  <2> QED
    BY <1>9, <1>12, <1>14, <2>3, <2>4, <2>5 DEF Remembers
<1>16. /\ UNCHANGED <<ynison, handler, plays, settle>>
       /\ ~ma[g].begun /\ ma[g].phase \in {"chosen", "selecting", "selected"}
       /\ "preload" \notin Acts => ma[g].phase = "selected"
       /\ ma' = [ma EXCEPT ![g].begun = TRUE]
  BY DEF Begins, outside, conditions
<1> QED
  BY <1>1, <1>15, <1>16

-----------------------------------------------------------------------------
(* The state callback                                                        *)

\* Only the absent item has no track.
LEMMA TrackOf ==
  ASSUME NEW i \in Position
  PROVE  Track(i) = None <=> i = None
  BY ItemsAssumption DEF Track, Position

\* A frame restarts the stream, or leaves the cursor on its item.
LEMMA Tracking ==
  ASSUME NEW p \in SessionStates, NEW f \in Frames, NEW reselect \in BOOLEAN,
         NEW s \in [Sessions -> StreamStates], TracksOn(p, f, reselect, s)
  PROVE  /\ playback' \in SessionStates /\ stream' \in [Sessions -> StreamStates]
         /\ \A g \in Sessions : Alike(s[g], stream'[g])
         /\ playback'.owner = p.owner /\ playback'.session = p.session
         /\ playback'.stop = p.stop
         /\ \/ playback'.restart
            \/ /\ playback'.restart = p.restart
               /\ f.item = None \/ playback'.cursor = f.item
               /\ Track(playback'.cursor) = Track(p.cursor)
<1> DEFINE i == Cursor(p, f)
           q == [p EXCEPT !.cursor = i]
           m == [q EXCEPT !.cursor = f.item]
<1>1. i \in Position /\ Track(i) = Track(p.cursor) /\ f.item \in Position
  BY DEF Cursor, SessionStates, Frames
<1>2. /\ q \in SessionStates /\ q.owner = p.owner /\ q.session = p.session
      /\ q.stop = p.stop /\ q.restart = p.restart /\ q.cursor = i
  BY <1>1 DEF SessionStates
<1>3. /\ m \in SessionStates /\ m.owner = p.owner /\ m.session = p.session
      /\ m.stop = p.stop
  BY <1>1, <1>2 DEF SessionStates
<1>4. \A g \in Sessions : Alike(s[g], s[g])
  BY DEF Alike
<1> HIDE DEF i, q, m
<1>5. ASSUME NEW u \in SessionStates, NEW r \in RestartReasons, playback' = RequestRestart(u, r)
      PROVE  /\ playback' \in SessionStates /\ playback'.owner = u.owner
             /\ playback'.session = u.session /\ playback'.stop = u.stop /\ playback'.restart
  <2>1. playback' \in SessionStates
    BY <1>5, Methods
  <2> QED
    BY <2>1, <1>5 DEF RequestRestart, SessionStates
<1>6. CASE playback' = RequestRestart(m, "track_change") /\ stream' = Woken(s)
  BY <1>3, <1>5, <1>6, WokenAre DEF RestartReasons
<1>7. CASE /\ playback' = RequestRestart(q, IF reselect THEN "resume" ELSE "seek")
           /\ stream' = Woken(s)
  BY <1>2, <1>5, <1>7, WokenAre DEF RestartReasons
<1>8. CASE playback' = q /\ stream' = s /\ (f.item = None \/ i = f.item)
  BY <1>1, <1>2, <1>4, <1>8
<1> QED
  BY <1>6, <1>7, <1>8 DEF TracksOn, i, q, m

\* Another device took over: our claim is gone.
Cleared ==
    /\ playback'.owner = None /\ playback'.session = None
    /\ playback'.stop = "cleared"
    /\ playback'.cursor = playback.cursor /\ playback'.restart = playback.restart
    /\ \A g \in Sessions :
         /\ ma'[g].owner = ma[g].owner /\ ma'[g].player = ma[g].player
         /\ ma'[g].begun = ma[g].begun
         /\ \/ ma'[g].phase = ma[g].phase /\ ~(ma[g].phase = "selected" /\ g = playback.session)
            \/ ma'[g].phase = "closing" /\ ma[g].phase = "selected" /\ g = playback.session

\* What the callback makes of a frame.
Outcome(f) ==
    \/ UNCHANGED <<playback, ma>> /\ settle /\ handler'.pc = "idle"
    \/ /\ ~settle /\ f.ours /\ ~f.paused /\ UNCHANGED ma
       /\ playback'.owner = playback.owner /\ playback'.session = playback.session
       /\ \/ /\ handler'.pc = "formatting" /\ handler'.frame = f /\ f.item # None
             /\ playback'.restart = playback.restart /\ playback'.cursor = playback.cursor
          \/ handler'.pc = "idle" /\ playback'.restart
          \/ /\ handler'.pc = "idle" /\ playback'.restart = playback.restart
             /\ f.item = None \/ playback'.cursor = f.item
             /\ Track(playback'.cursor) = Track(playback.cursor)
    \/ /\ ~settle /\ f.ours /\ f.paused /\ UNCHANGED ma
       /\ playback'.owner = playback.owner /\ playback'.session = playback.session
       /\ playback'.restart = playback.restart /\ playback'.cursor = playback.cursor
       /\ \/ playback.owner = None /\ UNCHANGED playback /\ handler'.pc = "idle"
          \/ playback.owner # None /\ playback'.stop = "pause" /\ handler'.pc = "stopping"
    \/ /\ ~settle /\ ~f.ours /\ handler'.pc = "idle"
       /\ \/ playback.owner = None /\ UNCHANGED <<playback, ma>>
          \/ playback.owner # None /\ Cleared

\* _activate_playback keeps the types, and its outcome is a look-up, a request or nothing.
LEMMA Activating ==
  ASSUME Types, NEW f \in Frames, NEW s \in [Sessions -> StreamStates], Activate(f, s),
         ~settle, f.ours, ~f.paused
  PROVE  /\ playback' \in SessionStates /\ stream' \in [Sessions -> StreamStates]
         /\ \A g \in Sessions : Alike(s[g], stream'[g])
         /\ handler' \in HandlerStates /\ plays' \in Seq(Players)
         /\ handler'.pc = "formatting" => handler'.frame \in Frames /\ handler'.target \in Players
         /\ Outcome(f)
<1> DEFINE c == [playback EXCEPT !.consumer = Target]
           p == Resume(c)
           reselect == NeedsReselect(playback)
<1>1. Target \in Players /\ playback \in SessionStates
  BY DEF Types, Target, SessionStates, Players
<1>2. c \in SessionStates
  BY <1>1 DEF SessionStates
<1>3. p \in SessionStates
  BY <1>2, Methods
<1>4. /\ p.owner = playback.owner /\ p.session = playback.session
      /\ p.restart = playback.restart /\ p.cursor = playback.cursor
  BY <1>1, <1>2 DEF Resume, SessionStates
<1>5. reselect \in BOOLEAN
  BY <1>1 DEF NeedsReselect, SessionStates
<1>6. Resting \in HandlerStates /\ Resting.pc = "idle"
  BY DEF Resting, HandlerStates
<1>7. \A g \in Sessions : Alike(s[g], s[g])
  BY DEF Alike
<1>8. plays \in Seq(Players) /\ Append(plays, Target) \in Seq(Players)
  BY <1>1 DEF Types
<1> HIDE DEF c, p, reselect
<1>9. CASE /\ f.item # None /\ playback' = p /\ stream' = s
           /\ handler' = [pc |-> "formatting", frame |-> f, target |-> Target,
                          reselect |-> reselect]
           /\ UNCHANGED <<plays, ma>>
  <2>1. /\ handler' \in HandlerStates /\ handler'.pc = "formatting" /\ handler'.frame = f
        /\ handler'.target = Target
    BY <1>1, <1>5, <1>9 DEF HandlerStates
  <2> QED
    BY <1>1, <1>3, <1>4, <1>7, <1>8, <1>9, <2>1 DEF Outcome
<1>10. CASE /\ handler' = Resting /\ TracksOn(p, f, reselect, s)
            /\ plays' \in {plays, Append(plays, Target)} /\ UNCHANGED ma
  BY <1>3, <1>4, <1>5, <1>6, <1>8, <1>10, Tracking DEF Outcome
<1> QED
  BY <1>9, <1>10 DEF Activate, c, p, reselect

\* _pause_playback keeps the types; it stops a player or is done.
LEMMA Pausing ==
  ASSUME Types, NEW f \in Frames, NEW s \in [Sessions -> StreamStates], Pause(f, s),
         ~settle, f.ours, f.paused
  PROVE  /\ playback' \in SessionStates /\ stream' \in [Sessions -> StreamStates]
         /\ \A g \in Sessions : Alike(s[g], stream'[g])
         /\ handler' \in HandlerStates
         /\ handler'.pc = "idle" \/ (handler'.pc = "stopping" /\ handler'.target # None)
         /\ Outcome(f)
<1>1. playback \in SessionStates
  BY DEF Types
<1>2. Resting \in HandlerStates /\ Resting.pc = "idle"
  BY DEF Resting, HandlerStates
<1>3. \A g \in Sessions : Alike(s[g], s[g])
  BY DEF Alike
<1>4. CASE playback.owner = None
  <2>1. handler' = Resting /\ stream' = s /\ playback' = playback /\ ma' = ma
    BY <1>4 DEF Pause
  <2>2. Outcome(f)
    BY <1>2, <1>4, <2>1 DEF Outcome
  <2> QED
    BY <1>1, <1>2, <1>3, <2>1, <2>2
<1>5. CASE playback.owner # None
  <2>1. PICK h : h = [Resting EXCEPT !.pc = "stopping", !.target = playback.owner]
    OBVIOUS
  <2>2. h \in HandlerStates /\ h.pc = "stopping" /\ h.target = playback.owner
    BY <1>1, <2>1, <1>2, Distinct DEF HandlerStates, SessionStates
  <2>3. playback' = RequestStop(playback, "pause") /\ stream' = Woken(s) /\ handler' = h
    BY <1>5, <2>1 DEF Pause
  <2>4. playback' \in SessionStates
    BY <1>1, <2>3, Methods DEF StopReasons
  <2>5. /\ playback'.owner = playback.owner /\ playback'.session = playback.session
        /\ playback'.restart = playback.restart /\ playback'.cursor = playback.cursor
        /\ playback'.stop = "pause"
    BY <1>1, <2>3 DEF RequestStop, SessionStates
  <2> QED
    BY <1>5, <2>2, <2>3, <2>4, <2>5, WokenAre DEF Pause, Outcome
<1> QED
  BY <1>4, <1>5

\* Clearing the stream of a passive device keeps the types and leaves the streams alone.
LEMMA Clearing ==
  ASSUME Types, NEW f \in Frames, NEW s \in [Sessions -> StreamStates], Clear(f, s),
         ~settle, ~f.ours
  PROVE  /\ playback' \in SessionStates /\ stream' = s
         /\ handler' \in HandlerStates /\ handler'.pc = "idle"
         /\ ma' \in [Sessions -> RequestStates]
         /\ Outcome(f)
<1>1. playback \in SessionStates /\ ma \in [Sessions -> RequestStates]
  BY DEF Types
<1>2. Resting \in HandlerStates /\ Resting.pc = "idle"
  BY DEF Resting, HandlerStates
<1>3. CASE playback.owner = None
  BY <1>1, <1>2, <1>3 DEF Clear, Outcome
<1>4. CASE playback.owner # None
  <2> DEFINE M(g) == IF g = playback.session /\ ma[g].phase = "selected"
                     THEN [ma[g] EXCEPT !.phase = "closing"] ELSE ma[g]
  <2>1. ma' = [g \in Sessions |-> M(g)]
    BY <1>4 DEF Clear
  <2>2. ASSUME NEW g \in Sessions
        PROVE  /\ M(g) \in RequestStates
               /\ M(g).owner = ma[g].owner /\ M(g).player = ma[g].player
               /\ M(g).begun = ma[g].begun
               /\ \/ M(g).phase = ma[g].phase /\ ~(ma[g].phase = "selected" /\ g = playback.session)
                  \/ /\ M(g).phase = "closing" /\ ma[g].phase = "selected"
                     /\ g = playback.session
    BY <1>1 DEF RequestStates
  <2> HIDE DEF M
  <2>3. playback' = Reset(playback)
    BY <1>4 DEF Clear
  <2>4. playback' \in SessionStates
    BY <1>1, <2>3, Methods
  <2>5. /\ playback'.owner = None /\ playback'.session = None /\ playback'.stop = "cleared"
        /\ playback'.cursor = playback.cursor /\ playback'.restart = playback.restart
    BY <1>1, <2>3 DEF Reset, SessionStates
  <2>6. Cleared
    BY <2>1, <2>2, <2>5 DEF Cleared
  <2> QED
    BY <1>2, <1>4, <2>1, <2>2, <2>4, <2>6 DEF Clear, Outcome
<1> QED
  BY <1>3, <1>4

\* Whatever a frame says, handling it keeps the types of all it touches.
LEMMA HandlingAFrame ==
  ASSUME Types, NEW f \in Frames, NEW s \in [Sessions -> StreamStates], Handle(f, s)
  PROVE  /\ playback' \in SessionStates /\ stream' \in [Sessions -> StreamStates]
         /\ \A g \in Sessions : Alike(s[g], stream'[g])
         /\ ma' \in [Sessions -> RequestStates] /\ plays' \in Seq(Players)
         /\ handler' \in HandlerStates
         /\ \/ handler'.pc = "idle"
            \/ /\ handler'.pc = "formatting" /\ handler'.frame \in Frames
               /\ handler'.target # None
            \/ handler'.pc = "stopping" /\ handler'.target # None
         /\ Outcome(f)
<1>1. \A g \in Sessions : Alike(s[g], Woken(s)[g])
  BY WokenAre
<1>2. Woken(s) \in [Sessions -> StreamStates]
  BY WokenAre
<1>3. \A g \in Sessions : Alike(Woken(s)[g], stream'[g]) => Alike(s[g], stream'[g])
  BY <1>1 DEF Alike
<1>4. Resting \in HandlerStates /\ Resting.pc = "idle"
  BY DEF Resting, HandlerStates
<1>5. /\ playback \in SessionStates /\ ma \in [Sessions -> RequestStates]
      /\ plays \in Seq(Players)
  BY DEF Types
<1>6. CASE settle
  BY <1>1, <1>2, <1>4, <1>5, <1>6 DEF Handle, Outcome
<1>7. CASE ~settle /\ f.ours /\ ~f.paused /\ Activate(f, Woken(s))
  <2>1. UNCHANGED ma
    BY <1>7 DEF Activate
  <2>2. handler'.pc \in {"idle", "formatting"}
    BY <1>7, Activating, <1>2 DEF Outcome
  <2> QED
    BY <1>2, <1>3, <1>5, <1>7, <2>1, <2>2, Activating, Distinct
<1>8. CASE ~settle /\ f.ours /\ f.paused /\ Pause(f, Woken(s))
  <2>1. UNCHANGED <<ma, plays>>
    BY <1>8 DEF Pause
  <2> QED
    BY <1>2, <1>3, <1>5, <1>8, <2>1, Pausing
<1>9. CASE ~settle /\ ~f.ours /\ Clear(f, Woken(s))
  <2>1. UNCHANGED plays
    BY <1>9 DEF Clear
  <2> QED
    BY <1>1, <1>2, <1>5, <1>9, <2>1, Clearing
<1> QED
  BY <1>6, <1>7, <1>8, <1>9 DEF Handle

\* A frame leaves the streams as they were, but for what they learn from it.
LEMMA Informing ==
  ASSUME Types, NEW f \in Frames
  PROVE  /\ Informed(f) \in [Sessions -> StreamStates]
         /\ \A g \in Sessions : Alike(stream[g], Informed(f)[g])
<1> DEFINE S(g) == IF stream[g].pc \in {"completing", "replenishing", "following", "dozing"}
                   THEN [stream[g] EXCEPT !.news = @ \union News(f)] ELSE stream[g]
<1>1. News(f) \in SUBSET {"navigated", "replaced", "command", "device"}
  BY DEF News
<1>2. ASSUME NEW g \in Sessions
      PROVE  S(g) \in StreamStates /\ Alike(stream[g], S(g))
  BY <1>1 DEF Types, StreamStates, Alike
<1>3. Informed(f) = [g \in Sessions |-> S(g)]
  BY DEF Informed
<1> HIDE DEF S
<1> QED
  BY <1>2, <1>3

Incoming(f) ==
    /\ handler.pc = "idle"
    /\ ynison' = [item |-> f.item, paused |-> f.paused, ours |-> f.ours]
    /\ \/ /\ ynison.ours /\ ~f.ours /\ UNCHANGED <<playback, plays, ma>>
          /\ handler'.pc = "muting" /\ handler'.frame = f
          /\ history' = GivesUp
       \/ /\ ~(ynison.ours /\ ~f.ours) /\ Outcome(f)
          /\ handler'.pc \in {"idle", "formatting", "stopping"}
          /\ history'.skipped = Handled(f).skipped /\ history'.current = Handled(f).current

\* A frame arrives, whatever it says.
LEMMA Arriving ==
  ASSUME Types, NEW f \in Frames, Arrives(f)
  PROVE  /\ playback' \in SessionStates /\ stream' \in [Sessions -> StreamStates]
         /\ \A g \in Sessions : Alike(stream[g], stream'[g])
         /\ ma' \in [Sessions -> RequestStates] /\ plays' \in Seq(Players)
         /\ handler' \in HandlerStates
         /\ handler'.pc \in {"muting", "formatting"} => handler'.frame \in Frames
         /\ handler'.pc \in {"formatting", "stopping", "stopped"} => handler'.target # None
         /\ ynison' \in [item : Position, paused : BOOLEAN, ours : BOOLEAN]
         /\ history' \in HistoryStates /\ UNCHANGED settle
         /\ Incoming(f)
<1>1. handler.pc = "idle" /\ ynison' = [item |-> f.item, paused |-> f.paused, ours |-> f.ours]
      /\ UNCHANGED settle
  BY DEF Arrives, conditions
<1>2. ynison' \in [item : Position, paused : BOOLEAN, ours : BOOLEAN]
  BY <1>1 DEF Frames
<1>3. CASE /\ ynison.ours /\ ~f.ours /\ UNCHANGED <<playback, plays, ma>>
           /\ handler' = [Resting EXCEPT !.pc = "muting", !.frame = f]
           /\ stream' = Informed(f) /\ history' = GivesUp
  <2>1. handler' \in HandlerStates /\ handler'.pc = "muting" /\ handler'.frame = f
    BY <1>3 DEF Resting, HandlerStates
  <2>2. history' \in HistoryStates
    BY <1>3 DEF GivesUp, HistoryStates, Types
  <2> QED
    BY <1>1, <1>2, <1>3, <2>1, <2>2, Informing DEF Types, Incoming
<1>4. CASE /\ ~(ynison.ours /\ ~f.ours) /\ Handle(f, Informed(f))
           /\ history' = [Handled(f) EXCEPT
                !.asked = \/ ~settle /\ ~(ynison.ours /\ ~ynison.paused) /\ f.ours /\ ~f.paused
                          \/ @ /\ f.ours /\ ~f.paused]
  <2>1. Informed(f) \in [Sessions -> StreamStates]
    BY Informing
  <2>2. /\ playback' \in SessionStates /\ stream' \in [Sessions -> StreamStates]
        /\ \A g \in Sessions : Alike(Informed(f)[g], stream'[g])
        /\ ma' \in [Sessions -> RequestStates] /\ plays' \in Seq(Players)
        /\ handler' \in HandlerStates
        /\ \/ handler'.pc = "idle"
           \/ /\ handler'.pc = "formatting" /\ handler'.frame \in Frames
              /\ handler'.target # None
           \/ handler'.pc = "stopping" /\ handler'.target # None
        /\ Outcome(f)
    BY <1>4, <2>1, HandlingAFrame
  <2>3. \A g \in Sessions : Alike(stream[g], stream'[g])
    BY <2>2, Informing DEF Alike
  <2>4. PICK h : h = Handled(f)
    OBVIOUS
  <2>5. h \in HistoryStates
    BY <2>4 DEF Handled, HistoryStates, Types
  <2>6. /\ history' \in HistoryStates
        /\ history'.skipped = h.skipped /\ history'.current = h.current
    BY <1>4, <2>4, <2>5 DEF HistoryStates
  <2>7. Incoming(f)
    BY <1>1, <1>4, <2>2, <2>4, <2>6 DEF Incoming
  <2> QED
    BY <1>1, <1>2, <2>2, <2>3, <2>6, <2>7
<1> QED
  BY <1>1, <1>3, <1>4 DEF Arrives

-----------------------------------------------------------------------------
(* Every step keeps the types                                                *)

\* No request claims, begins or is forgotten: one waits for its claim, or some are torn
\* down.
NobodyClaims ==
    /\ ma' \in [Sessions -> RequestStates]
    /\ \A g \in Sessions :
         /\ ma'[g].owner = ma[g].owner /\ ma'[g].player = ma[g].player
         /\ ma'[g].begun = ma[g].begun
         /\ \/ ma'[g].phase = ma[g].phase
            \/ ma'[g].phase = "closing" /\ ma[g].phase \in {"chosen", "selecting", "selected"}
            \/ ma'[g].phase = "selecting" /\ ma[g].phase = "chosen"

\* No request becomes a claim when requests are closed or cleared.
LEMMA TearingDown ==
  ASSUME Types, UNCHANGED ma \/ (\E player : ma' = TornDown(player, None)) \/ Cleared,
         ma' \in [Sessions -> RequestStates]
  PROVE  NobodyClaims
  BY TornDownAre DEF Types, NobodyClaims, Cleared

\* Live streams stay attended when none becomes live and no request claims anew.
LEMMA StayAttended ==
  ASSUME Types, NobodyClaims, \A g \in Sessions : Live(g)' => Live(g)
  PROVE  Attended'
  BY DEF Types, Attended, NobodyClaims

\* Types through each step of a generator.
LEMMA GeneratorTypes ==
  ASSUME Types, NEW g \in Sessions, Generator(g)
  PROVE  Types'
<1>1. ASSUME StreamsAfter(stream, g, stream')
      PROVE  \A h \in Sessions : h # g => (Live(h)' <=> Live(h))
  BY <1>1 DEF StreamsAfter, Alike, Live
<1>2. CASE Continues(g)
  <2>1. /\ Advances(g) /\ Remembers /\ UNCHANGED <<ynison, handler, plays, settle>>
        /\ Live(g) /\ (UNCHANGED ma \/ \E player : ma' = TornDown(player, None))
    BY <1>2, Continuing
  <2>2. ma' \in [Sessions -> RequestStates]
    BY <2>1, TornDownAre DEF Types
  <2>3. Attended'
    BY <1>1, <2>1, <2>2, TearingDown, StayAttended DEF Advances
  <2>4. Pending'
    BY <2>1 DEF Types, Pending
  <2> QED
    BY <2>1, <2>2, <2>3, <2>4 DEF Types, Advances, StreamsAfter, Remembers
<1>3. CASE Begins(g)
  <2>1. /\ playback' \in SessionStates /\ StreamsAfter(stream, g, stream') /\ Remembers
        /\ UNCHANGED <<ynison, handler, plays, settle>>
        /\ ma[g].phase \in {"chosen", "selecting", "selected"}
        /\ ma' = [ma EXCEPT ![g].begun = TRUE]
    BY <1>3, Beginning
  <2>2. PICK r : r = [ma[g] EXCEPT !.begun = TRUE]
    OBVIOUS
  <2>3. /\ r \in RequestStates /\ r.begun /\ r.phase = ma[g].phase
        /\ r.owner = ma[g].owner /\ r.player = ma[g].player
    BY <2>2 DEF Types, RequestStates
  <2>4. ma' = [ma EXCEPT ![g] = r] /\ ma \in [Sessions -> RequestStates]
    BY <2>1, <2>2 DEF Types
  <2>5. ma' \in [Sessions -> RequestStates]
    BY <2>3, <2>4
  <2>6. Attended'
    BY <1>1, <2>1, <2>3, <2>4 DEF Types, Attended
  <2>7. Pending'
    BY <2>1 DEF Types, Pending
  <2> QED
    BY <2>1, <2>5, <2>6, <2>7 DEF Types, StreamsAfter, Remembers
<1> QED
  BY <1>2, <1>3 DEF Generator, Continues

\* What a frame does to the requests.
LEMMA OutcomeTearsDown ==
  ASSUME Types, NEW f, Outcome(f), ma' \in [Sessions -> RequestStates]
  PROVE  NobodyClaims
  BY TearingDown DEF Outcome

\* Types through the arrival of a frame.
LEMMA FrameTypes ==
  ASSUME Types, NEW f \in Frames, Arrives(f)
  PROVE  Types'
<1>1. /\ playback' \in SessionStates /\ stream' \in [Sessions -> StreamStates]
      /\ \A g \in Sessions : Alike(stream[g], stream'[g])
      /\ ma' \in [Sessions -> RequestStates] /\ plays' \in Seq(Players)
      /\ handler' \in HandlerStates
      /\ handler'.pc \in {"muting", "formatting"} => handler'.frame \in Frames
      /\ handler'.pc \in {"formatting", "stopping", "stopped"} => handler'.target # None
      /\ ynison' \in [item : Position, paused : BOOLEAN, ours : BOOLEAN]
      /\ history' \in HistoryStates /\ UNCHANGED settle
      /\ Incoming(f)
  BY Arriving
<1>2. NobodyClaims
  BY <1>1, TearingDown, OutcomeTearsDown DEF Incoming
<1>3. Attended'
  BY <1>1, <1>2, StayAttended DEF Alike, Live
<1>4. Pending'
  BY <1>1 DEF Pending
<1> QED
  BY <1>1, <1>3, <1>4 DEF Types

\* Types through the rest of the state callback, after each of its awaits.
LEMMA CallbackTypes ==
  ASSUME Types, Callback
  PROVE  Types'
<1>1. Resting \in HandlerStates /\ Resting.pc = "idle"
  BY DEF Resting, HandlerStates
<1>2. /\ playback \in SessionStates /\ stream \in [Sessions -> StreamStates]
      /\ ma \in [Sessions -> RequestStates] /\ handler \in HandlerStates
      /\ ynison \in [item : Position, paused : BOOLEAN, ours : BOOLEAN]
      /\ plays \in Seq(Players) /\ settle \in BOOLEAN /\ history \in HistoryStates
  BY DEF Types
<1>3. CASE Muted
  <2>1. PICK f \in Frames : f = handler.frame
    BY <1>3 DEF Muted, Types, Pending
  <2>2. Handle(f, stream) /\ history' = Handled(f) /\ UNCHANGED <<ynison, settle>>
    BY <1>3, <2>1 DEF Muted, outside, conditions
  <2>3. /\ playback' \in SessionStates /\ stream' \in [Sessions -> StreamStates]
        /\ \A g \in Sessions : Alike(stream[g], stream'[g])
        /\ ma' \in [Sessions -> RequestStates] /\ plays' \in Seq(Players)
        /\ handler' \in HandlerStates
        /\ \/ handler'.pc = "idle"
           \/ /\ handler'.pc = "formatting" /\ handler'.frame \in Frames
              /\ handler'.target # None
           \/ handler'.pc = "stopping" /\ handler'.target # None
        /\ Outcome(f)
    BY <1>2, <2>2, HandlingAFrame
  <2>4. history' \in HistoryStates
    BY <1>2, <2>2 DEF Handled, HistoryStates
  <2>5. Attended'
    BY <2>3, OutcomeTearsDown, StayAttended DEF Alike, Live
  <2>6. Pending'
    BY <2>3 DEF Pending
  <2> QED
    BY <1>2, <2>2, <2>3, <2>4, <2>5, <2>6 DEF Types
<1>4. CASE Formatted
  <2>1. PICK f \in Frames : f = handler.frame
    BY <1>4 DEF Formatted, Types, Pending
  <2>2. /\ TracksOn(playback, f, handler.reselect, stream) /\ handler' = Resting
        /\ plays' = Append(plays, handler.target)
        /\ UNCHANGED <<ynison, ma, settle, history>>
    BY <1>4, <2>1 DEF Formatted, outside, conditions
  <2>3. handler.reselect \in BOOLEAN /\ handler.target \in Players
    BY <1>2, <1>4 DEF HandlerStates, Formatted, Types, Pending
  <2>4. /\ playback' \in SessionStates /\ stream' \in [Sessions -> StreamStates]
        /\ \A g \in Sessions : Alike(stream[g], stream'[g])
    BY <1>2, <2>2, <2>3, Tracking
  <2>5. plays' \in Seq(Players)
    BY <1>2, <2>2, <2>3
  <2>6. Attended'
    BY <1>2, <2>2, <2>4, TearingDown, StayAttended DEF Alike, Live
  <2>7. Pending'
    BY <1>1, <2>2 DEF Pending
  <2> QED
    BY <1>1, <1>2, <2>2, <2>4, <2>5, <2>6, <2>7 DEF Types
<1>5. CASE PlayerStops
  <2>1. UNCHANGED <<playback, ynison, plays, stream, history, settle>>
    BY <1>5 DEF PlayerStops, conditions
  <2>2. /\ ma' \in [Sessions -> RequestStates]
        /\ UNCHANGED ma \/ \E player : ma' = TornDown(player, None)
    <3>1. CASE ma' = TornDown(handler.target, None)
      BY <1>2, <3>1, TornDownAre
    <3>2. CASE UNCHANGED ma
      BY <1>2, <3>2
    <3> QED
      BY <1>5, <3>1, <3>2 DEF PlayerStops
  <2>3. Attended'
    BY <2>1, <2>2, TearingDown, StayAttended DEF Live
  <2>4. handler' \in HandlerStates /\ Pending'
    <3>1. CASE handler' = Resting
      BY <1>1, <3>1 DEF Pending
    <3>2. CASE handler' = [handler EXCEPT !.pc = "stopped"] /\ handler.pc = "stopping"
      BY <1>2, <3>2 DEF HandlerStates, Types, Pending
    <3> QED
      BY <1>5, <3>1, <3>2 DEF PlayerStops
  <2> QED
    BY <1>2, <2>1, <2>2, <2>3, <2>4 DEF Types
<1>6. CASE Paused
  <2>1. /\ handler' = Resting /\ playback' = PauseExternally(playback, handler.target)
        /\ UNCHANGED <<ynison, plays, stream, ma, settle, history>>
    BY <1>6 DEF Paused, outside, conditions
  <2>2. handler.target \in Players
    BY <1>2, <1>6 DEF HandlerStates, Paused, Types, Pending
  <2>3. playback' \in SessionStates
    BY <1>2, <2>1, <2>2, Methods
  <2>4. Attended'
    BY <1>2, <2>1, TearingDown, StayAttended DEF Live
  <2>5. Pending'
    BY <1>1, <2>1 DEF Pending
  <2> QED
    BY <1>1, <1>2, <2>1, <2>3, <2>4, <2>5 DEF Types
<1> QED
  BY <1>3, <1>4, <1>5, <1>6 DEF Callback

\* A new request, and the teardown of the one before it.
Chosen(g) ==
    /\ Unclaimed(g)
    /\ ma' \in [Sessions -> RequestStates]
    /\ ma'[g].phase = "chosen" /\ ~ma'[g].begun /\ ma'[g].owner # None /\ ma'[g].player # None
    /\ \A h \in Sessions \ {g} :
         /\ ma'[h].owner = ma[h].owner /\ ma'[h].player = ma[h].player
         /\ ma'[h].begun = ma[h].begun
         /\ \/ ma'[h].phase = ma[h].phase
            \/ ma'[h].phase = "closing" /\ ma[h].phase \in {"chosen", "selecting", "selected"}

\* Whoever requests the source, a session that was unused is chosen.
LEMMA Choosing ==
  ASSUME Types, NEW owner \in Owners, Chooses(owner)
  PROVE  \E g \in Sessions : Chosen(g)
<1>1. PICK g \in Sessions, player \in {owner, Bridge} :
        /\ Unclaimed(g)
        /\ ma' = [TornDown(owner, g) EXCEPT
                    ![g] = [phase |-> "chosen", owner |-> owner, player |-> player,
                            begun |-> FALSE]]
  BY DEF Chooses
<1>2. PICK r : r = [phase |-> "chosen", owner |-> owner, player |-> player, begun |-> FALSE]
  OBVIOUS
<1>3. /\ r \in RequestStates /\ r.phase = "chosen" /\ ~r.begun
      /\ r.owner # None /\ r.player # None
  BY <1>1, <1>2, Distinct DEF RequestStates, Players, Owners
<1>4. ma' = [TornDown(owner, g) EXCEPT ![g] = r]
  BY <1>1, <1>2
<1>5. ma \in [Sessions -> RequestStates]
  BY DEF Types
<1>6. PICK T : T = TornDown(owner, g)
  OBVIOUS
<1>7. /\ T \in [Sessions -> RequestStates]
      /\ \A h \in Sessions :
           /\ T[h].owner = ma[h].owner /\ T[h].player = ma[h].player /\ T[h].begun = ma[h].begun
           /\ \/ T[h].phase = ma[h].phase
              \/ T[h].phase = "closing" /\ ma[h].phase \in {"chosen", "selecting", "selected"}
  BY <1>5, <1>6, TornDownAre
<1>8. ma' = [T EXCEPT ![g] = r]
  BY <1>4, <1>6
<1>9. Chosen(g)
  BY <1>1, <1>3, <1>7, <1>8, ZenonT(30) DEF Chosen
<1> QED
  BY <1>9

\* A session that is chosen has no live stream yet.
LEMMA ChosenTypes ==
  ASSUME Types, NEW g \in Sessions, Chosen(g), UNCHANGED stream
  PROVE  Attended'
  BY DEF Types, Attended, Chosen, Unclaimed, Live

\* A request moves on by one phase; others may be torn down.
PhaseIs(g, phase) ==
    /\ ma' \in [Sessions -> RequestStates]
    /\ ma'[g].phase = phase
    /\ ma'[g].owner = ma[g].owner /\ ma'[g].player = ma[g].player /\ ma'[g].begun = ma[g].begun
    /\ \A h \in Sessions \ {g} : ma'[h] = ma[h]

\* What a change of phase does to the requests.
LEMMA MovingPhase ==
  ASSUME Types, NEW g \in Sessions,
         NEW phase \in {"chosen", "selecting", "selected", "closing", "closed"},
         ma' = [ma EXCEPT ![g].phase = phase]
  PROVE  PhaseIs(g, phase)
<1>1. ma \in [Sessions -> RequestStates]
  BY DEF Types
<1>2. PICK r : r = [ma[g] EXCEPT !.phase = phase]
  OBVIOUS
<1>3. /\ r \in RequestStates /\ r.phase = phase /\ r.owner = ma[g].owner
      /\ r.player = ma[g].player /\ r.begun = ma[g].begun
  BY <1>1, <1>2 DEF RequestStates
<1>4. ma' = [ma EXCEPT ![g] = r]
  BY <1>2
<1> QED
  BY <1>1, <1>3, <1>4 DEF PhaseIs

\* The claim of a request.
TakesClaim(g) ==
    /\ ma[g].phase \in {"chosen", "selecting"}
    /\ \A h \in Sessions : ma[h].phase = "selected" => ma[h].begun
    /\ playback' = Claim(playback, ma[g].owner, ma[g].player, g)
    /\ history' = [history EXCEPT !.current = g]
    /\ PhaseIs(g, "selected") /\ UNCHANGED stream

\* The end of a request.
GivesClaimUp(g) ==
    /\ ma[g].phase = "closing"
    /\ playback' = Release(playback, ma[g].owner, g)
    /\ history' = [history EXCEPT !.current = IF @ = g THEN None ELSE @]
    /\ PhaseIs(g, "closed") /\ UNCHANGED stream

\* The end of a stream that Music Assistant closes.
IsClosed(g) ==
    /\ ma[g].phase \in {"closing", "closed"} /\ Live(g)
    /\ Exits(g, playback, stream) /\ UNCHANGED <<ma, history>>

\* What the steps of Music Assistant do to the claim.
LEMMA Managing ==
  ASSUME Types, NEW g \in Sessions, MusicAssistant(g)
  PROVE  /\ UNCHANGED <<ynison, handler, settle>> /\ plays' \in Seq(Players)
         /\ \/ NobodyClaims /\ UNCHANGED <<playback, stream>> /\ Remembers
            \/ TakesClaim(g) \/ GivesClaimUp(g) \/ IsClosed(g)
<1>1. /\ ma \in [Sessions -> RequestStates] /\ plays \in Seq(Players)
      /\ history \in HistoryStates
  BY DEF Types
<1>2. /\ UNCHANGED <<ynison, handler, settle>> /\ plays' \in Seq(Players)
  <2>1. Append(plays, Home) \in Seq(Players)
    BY <1>1 DEF Players
  <2> QED
    BY <1>1, <2>1 DEF MusicAssistant, Selects, Selected, Finishes, Closes, Unselects, outside,
                      conditions
<1>3. UNCHANGED history \/ history' = GivesUp => Remembers
  BY <1>1 DEF Remembers, GivesUp, HistoryStates
<1>4. ASSUME ma' = [ma EXCEPT ![g].phase = "closing"],
             ma[g].phase \in {"chosen", "selecting", "selected"}
      PROVE  NobodyClaims
  BY <1>1, <1>4, MovingPhase DEF NobodyClaims, PhaseIs
<1>5. CASE Selects(g)
  <2>1. CASE ma' = [ma EXCEPT ![g].phase = "closing"] /\ UNCHANGED <<playback, history>>
    BY <1>2, <1>3, <1>4, <1>5, <2>1 DEF Selects
  <2>2. CASE Claims(g) /\ ma' = [ma EXCEPT ![g].phase = "selected"]
    BY <1>2, <1>5, <2>2, MovingPhase DEF Selects, Claims, TakesClaim
  <2>3. ASSUME NEW others \in {TornDown(playback.consumer, g), ma},
               ma' = [others EXCEPT ![g].phase = "selecting"], UNCHANGED <<playback, history>>
        PROVE  NobodyClaims /\ UNCHANGED <<playback, stream>> /\ Remembers
    <3>1. ma[g].phase = "chosen" /\ UNCHANGED stream
      BY <1>5 DEF Selects
    <3>2. /\ others \in [Sessions -> RequestStates]
          /\ \A h \in Sessions :
               /\ others[h].owner = ma[h].owner /\ others[h].player = ma[h].player
               /\ others[h].begun = ma[h].begun
               /\ \/ others[h].phase = ma[h].phase
                  \/ /\ others[h].phase = "closing"
                     /\ ma[h].phase \in {"chosen", "selecting", "selected"}
      <4>1. CASE others = ma
        BY <1>1, <4>1
      <4>2. CASE others = TornDown(playback.consumer, g)
        BY <1>1, <4>2, TornDownAre
      <4> QED
        BY <2>3, <4>1, <4>2
    <3>3. PICK r : r = [others[g] EXCEPT !.phase = "selecting"]
      OBVIOUS
    <3>4. /\ r \in RequestStates /\ r.phase = "selecting" /\ r.owner = others[g].owner
          /\ r.player = others[g].player /\ r.begun = others[g].begun
      BY <3>2, <3>3 DEF RequestStates
    <3>5. ma' = [others EXCEPT ![g] = r]
      BY <2>3, <3>3
    <3>6. NobodyClaims
      BY <3>1, <3>2, <3>4, <3>5 DEF NobodyClaims
    <3> QED
      BY <1>3, <2>3, <3>1, <3>6
  <2> QED
    BY <1>2, <1>5, <2>1, <2>2, <2>3 DEF Selects
<1>6. CASE Selected(g)
  BY <1>2, <1>6, MovingPhase DEF Selected, Claims, TakesClaim
<1>7. CASE Finishes(g)
  BY <1>2, <1>3, <1>4, <1>7 DEF Finishes
<1>8. CASE Closes(g)
  BY <1>2, <1>8 DEF Closes, IsClosed
<1>9. CASE Unselects(g)
  BY <1>2, <1>9, MovingPhase DEF Unselects, GivesClaimUp
<1> QED
  BY <1>2, <1>5, <1>6, <1>7, <1>8, <1>9 DEF MusicAssistant

\* Types through what Music Assistant does to a request.
LEMMA MusicAssistantTypes ==
  ASSUME Types, NEW g \in Sessions, MusicAssistant(g)
  PROVE  Types'
<1>1. /\ UNCHANGED <<ynison, handler, settle>> /\ plays' \in Seq(Players)
      /\ \/ NobodyClaims /\ UNCHANGED <<playback, stream>> /\ Remembers
         \/ TakesClaim(g) \/ GivesClaimUp(g) \/ IsClosed(g)
  BY Managing
<1>2. Pending'
  BY <1>1 DEF Types, Pending
<1>3. /\ playback \in SessionStates /\ stream \in [Sessions -> StreamStates]
      /\ ma \in [Sessions -> RequestStates] /\ history \in HistoryStates
  BY DEF Types
<1>4. CASE NobodyClaims /\ UNCHANGED <<playback, stream>> /\ Remembers
  BY <1>1, <1>2, <1>3, <1>4, StayAttended DEF Types, Live, NobodyClaims, Remembers
<1>5. CASE TakesClaim(g)
  <2>1. ma[g].owner \in Owners /\ ma[g].player \in Players
    BY <1>3, <1>5 DEF Types, Attended, TakesClaim, RequestStates
  <2>2. playback' \in SessionStates
    BY <1>3, <1>5, <2>1, Methods DEF TakesClaim
  <2>3. history' \in HistoryStates
    BY <1>3, <1>5 DEF TakesClaim, HistoryStates
  <2>4. Attended'
    BY <1>5 DEF Types, Attended, TakesClaim, PhaseIs, Live
  <2> QED
    BY <1>1, <1>2, <1>3, <1>5, <2>2, <2>3, <2>4 DEF Types, TakesClaim, PhaseIs
<1>6. CASE GivesClaimUp(g)
  <2>1. playback' \in SessionStates
    BY <1>3, <1>6, Methods DEF GivesClaimUp
  <2>2. history' \in HistoryStates
    BY <1>3, <1>6 DEF GivesClaimUp, HistoryStates
  <2>3. Attended'
    BY <1>6 DEF Types, Attended, GivesClaimUp, PhaseIs, Live
  <2> QED
    BY <1>1, <1>2, <1>3, <1>6, <2>1, <2>2, <2>3 DEF Types, GivesClaimUp, PhaseIs
<1>7. CASE IsClosed(g)
  <2>1. playback' \in SessionStates /\ StreamsAfter(stream, g, stream')
    BY <1>3, <1>7, Exiting DEF IsClosed
  <2>2. \A h \in Sessions : Live(h)' => Live(h)
    BY <1>7, <2>1 DEF StreamsAfter, Alike, Live, IsClosed
  <2>3. Attended'
    BY <1>3, <1>7, <2>2, TearingDown, StayAttended DEF IsClosed
  <2> QED
    BY <1>1, <1>2, <1>3, <1>7, <2>1, <2>3 DEF Types, IsClosed, StreamsAfter
<1> QED
  BY <1>1, <1>4, <1>5, <1>6, <1>7

\* A frame of Ynison or of a peer, as one of its actions sends it.
LEMMA FramesArrive ==
  ASSUME Types,
         Heartbeat \/ ItemMoves \/ ItemKept \/ PeerSeeks \/ PausesOrResumes \/ DeviceChanges
           \/ QueueEmpties
  PROVE  \E f \in Frames :
           /\ Arrives(f)
           /\ f.item # ynison.item => f.kind \in {"navigated", "replaced", "kept"}
           /\ f.kind = "kept" => Track(f.item) = Track(ynison.item)
           /\ f.paused = ynison.paused \/ "pause" \in Acts
<1>1. ynison.item \in Position /\ ynison.paused \in BOOLEAN /\ ynison.ours \in BOOLEAN
  BY DEF Types
<1>2. \A k \in Kinds : /\ NowAs(k) \in Frames /\ NowAs(k).item = ynison.item
                        /\ NowAs(k).kind = k /\ NowAs(k).paused = ynison.paused
  BY <1>1 DEF NowAs, Frame, Frames
<1>3. ASSUME NEW k \in Kinds, NEW i \in Position
      PROVE  /\ [NowAs(k) EXCEPT !.item = i] \in Frames
             /\ [NowAs(k) EXCEPT !.item = i].item = i
             /\ [NowAs(k) EXCEPT !.item = i].kind = k
             /\ [NowAs(k) EXCEPT !.item = i].paused = ynison.paused
  BY <1>2 DEF Frames
<1>4. /\ [NowAs("same") EXCEPT !.paused = ~@] \in Frames
      /\ [NowAs("same") EXCEPT !.paused = ~@].item = ynison.item
      /\ [NowAs("same") EXCEPT !.paused = ~@].kind = "same"
  BY <1>1 DEF NowAs, Frame, Frames, Kinds
<1>5. /\ [NowAs("same") EXCEPT !.ours = ~@] \in Frames
      /\ [NowAs("same") EXCEPT !.ours = ~@].item = ynison.item
      /\ [NowAs("same") EXCEPT !.ours = ~@].kind = "same"
      /\ [NowAs("same") EXCEPT !.ours = ~@].paused = ynison.paused
  BY <1>1 DEF NowAs, Frame, Frames, Kinds
<1>6. CASE Heartbeat \/ PeerSeeks
  BY <1>2, <1>6 DEF Heartbeat, PeerSeeks, Kinds
<1>7. CASE ItemMoves
  <2>1. PICK i \in Items, k \in {"navigated", "replaced"} :
          Arrives([NowAs(k) EXCEPT !.item = i])
    BY <1>7 DEF ItemMoves
  <2>2. i \in Position /\ k \in Kinds
    BY DEF Kinds, Position
  <2>3. PICK f : f = [NowAs(k) EXCEPT !.item = i]
    OBVIOUS
  <2>4. f \in Frames /\ f.kind \in {"navigated", "replaced"} /\ f.paused = ynison.paused
    BY <1>3, <2>1, <2>2, <2>3
  <2> QED
    BY <2>1, <2>3, <2>4
<1>8. CASE ItemKept
  <2>1. PICK i \in Items :
          Track(i) = Track(ynison.item) /\ Arrives([NowAs("kept") EXCEPT !.item = i])
    BY <1>8 DEF ItemKept
  <2>2. i \in Position /\ "kept" \in Kinds
    BY DEF Kinds, Position
  <2>3. PICK f : f = [NowAs("kept") EXCEPT !.item = i]
    OBVIOUS
  <2>4. f \in Frames /\ f.item = i /\ f.kind = "kept" /\ f.paused = ynison.paused
    BY <1>3, <2>2, <2>3
  <2> QED
    BY <2>1, <2>3, <2>4
<1>9. CASE PausesOrResumes
  BY <1>4, <1>9 DEF PausesOrResumes, Act
<1>10. CASE DeviceChanges
  BY <1>5, <1>10 DEF DeviceChanges
<1>11. CASE QueueEmpties
  <2>1. Arrives([NowAs("replaced") EXCEPT !.item = None])
    BY <1>11 DEF QueueEmpties
  <2>2. PICK f : f = [NowAs("replaced") EXCEPT !.item = None]
    OBVIOUS
  <2>3. None \in Position /\ "replaced" \in Kinds
    BY DEF Kinds, Position
  <2>4. f \in Frames /\ f.kind = "replaced" /\ f.paused = ynison.paused
    BY <1>3, <2>2, <2>3
  <2> QED
    BY <2>1, <2>2, <2>4
<1> QED
  BY <1>6, <1>7, <1>8, <1>9, <1>10, <1>11

\* The requests of users, and what changes beside the session.
LEMMA OthersTypes ==
  ASSUME Types, Others
  PROVE  Types'
<1>1. /\ playback \in SessionStates /\ stream \in [Sessions -> StreamStates]
      /\ ma \in [Sessions -> RequestStates] /\ history \in HistoryStates
      /\ plays \in Seq(Players)
  BY DEF Types
<1>2. UNCHANGED handler => Pending'
  BY DEF Types, Pending
<1>3. UNCHANGED <<stream, ma>> => Attended'
  BY <1>1, TearingDown, StayAttended DEF Live
<1>4. ASSUME NEW owner \in Owners, Chooses(owner), UNCHANGED stream
      PROVE  Attended' /\ ma' \in [Sessions -> RequestStates]
  BY <1>4, Choosing, ChosenTypes DEF Chosen
<1>5. CASE PlayMedia
  <2>1. plays' \in Seq(Players)
    BY <1>1, <1>5 DEF PlayMedia
  <2>2. Attended' /\ ma' \in [Sessions -> RequestStates]
    <3>1. CASE UNCHANGED ma
      BY <1>1, <1>3, <1>5, <3>1 DEF PlayMedia
    <3>2. CASE Head(plays) \in Owners /\ Chooses(Head(plays))
      BY <1>4, <1>5, <3>2 DEF PlayMedia
    <3> QED
      BY <1>5, <3>1, <3>2 DEF PlayMedia
  <2> QED
    BY <1>2, <1>5, <2>1, <2>2 DEF Types, PlayMedia, outside, conditions
<1>6. CASE UserSelects
  <2>1. Attended' /\ ma' \in [Sessions -> RequestStates]
    BY <1>4, <1>6 DEF UserSelects
  <2> QED
    BY <1>2, <1>6, <2>1 DEF Types, UserSelects, conditions
<1>7. CASE OwnSeek
  <2>1. playback' \in SessionStates
    BY <1>1, <1>7, Methods DEF OwnSeek, RestartReasons
  <2>2. /\ stream' \in [Sessions -> StreamStates]
        /\ \A g \in Sessions : Alike(stream[g], stream'[g])
    BY <1>1, <1>7, WokenAre DEF OwnSeek
  <2>3. Attended'
    BY <1>1, <1>7, <2>2, TearingDown, StayAttended DEF OwnSeek, Alike, Live
  <2> QED
    BY <1>1, <1>2, <1>7, <2>1, <2>2, <2>3 DEF Types, OwnSeek, conditions
<1>8. CASE SettleBegins \/ SettleEnds \/ LinkChanges
  BY <1>1, <1>2, <1>3, <1>8 DEF Types, SettleBegins, SettleEnds, LinkChanges
<1> QED
  BY <1>5, <1>6, <1>7, <1>8, FramesArrive, FrameTypes DEF Others

\* The initial states have the types.
LEMMA InitTypes ==
  ASSUME Init
  PROVE  Types
<1>1. NoSession \in SessionStates
  BY DEF NoSession, SessionStates, Position
<1>2. Silent \in StreamStates /\ Silent.pc = "none"
  BY DEF Silent, StreamStates, Position
<1>3. Free \in RequestStates /\ Free.phase = "free" /\ ~Free.begun
  BY DEF Free, RequestStates
<1>4. Resting \in HandlerStates /\ Resting.pc = "idle"
  BY DEF Resting, HandlerStates
<1>5. stream \in [Sessions -> StreamStates] /\ ma \in [Sessions -> RequestStates]
  BY <1>2, <1>3 DEF Init
<1>6. Attended
  BY <1>2, <1>3 DEF Init, Attended, Live
<1>7. Pending
  BY <1>4 DEF Init, Pending
<1>8. ynison \in [item : Position, paused : BOOLEAN, ours : BOOLEAN]
  BY ItemsAssumption DEF Init, Position
<1>9. history \in HistoryStates
  BY DEF Init, HistoryStates
<1>10. playback \in SessionStates /\ handler \in HandlerStates /\ settle \in BOOLEAN
  BY <1>1, <1>4 DEF Init
<1>11. plays \in Seq(Players)
  BY DEF Init
<1> QED
  BY <1>5, <1>6, <1>7, <1>8, <1>9, <1>10, <1>11 DEF Types

\* Types through every step.
LEMMA NextTypes ==
  ASSUME Types, [Next]_vars
  PROVE  Types'
<1>1. CASE UNCHANGED vars
  BY <1>1 DEF Types, Attended, Pending, Live, vars
<1>2. CASE Next
  BY <1>2, GeneratorTypes, MusicAssistantTypes, CallbackTypes, OthersTypes DEF Next
<1> QED
  BY <1>1, <1>2

\* The fields of the session hold what the code can put there, every play_media names a
\* player, and no stream runs that MA did not open (TypeOK), for any number of sessions
\* and items, and whatever others do.
THEOREM TypeCorrect == Spec => []TypeOK
<1>1. Init => Types
  BY InitTypes
<1>2. Types /\ [Next]_vars => Types'
  BY NextTypes
<1>3. Types => TypeOK
  BY DEF Types, Attended, TypeOK, SessionStates, HandlerStates, Position
<1> QED
  BY <1>1, <1>2, <1>3, PTL DEF Spec

-----------------------------------------------------------------------------
(* The invariant                                                             *)

\* A stream that sounds is the one that the claim is for.
LEMMA SoundsByClaim ==
  ASSUME Types, Claimed, NEW g \in Sessions, Live(g)
  PROVE  /\ ma[g].begun /\ ma[g].owner # None
         /\ stream[g].token = Own(g) /\ stream[g].token # None
         /\ Lost(playback, stream[g].token)
              <=> ~(playback.owner = ma[g].owner /\ playback.session = g)
<1>1. ma[g].begun /\ ma[g].owner # None /\ stream[g].token = Own(g)
  BY DEF Types, Attended, Claimed
<1>2. ma[g].owner \in Owners
  BY <1>1 DEF Types, RequestStates
<1>3. Own(g) \in Tokens /\ Own(g).owner = ma[g].owner /\ Own(g).session = g
  BY <1>2 DEF Own, Tokens
<1> QED
  BY <1>1, <1>3, Distinct DEF Lost

SoundsAlone ==
    \A g \in Sessions : Sounds(g) <=> /\ stream[g].pc \in {"opening", "playing"}
                                     /\ playback.owner = ma[g].owner /\ playback.session = g

\* When at most one stream can hold the claim, at most one can sound.
LEMMA Sounding == Types /\ Claimed => SoundsAlone
<1> SUFFICES ASSUME Types, Claimed, NEW g \in Sessions
             PROVE  Sounds(g) <=> /\ stream[g].pc \in {"opening", "playing"}
                                  /\ playback.owner = ma[g].owner /\ playback.session = g
  BY DEF SoundsAlone
<1>1. stream[g].pc \in {"opening", "playing"} => Live(g)
  BY DEF Live
<1> QED
  BY <1>1, SoundsByClaim DEF Sounds

\* The same in the next state.
LEMMA SoundingThen == Types' /\ Claimed' => SoundsAlone'
  BY Sounding, PTL

\* Steps that neither claim nor release, nor begin or end a stream.
ClaimStays ==
    /\ NobodyClaims
    /\ playback'.owner = playback.owner /\ playback'.session = playback.session
    /\ history'.current = history.current
    /\ \A g \in Sessions : Alike(stream[g], stream'[g])

\* Claimed and ClaimHeld through a step that leaves requests and claim alone.
LEMMA KeepsClaimed ==
  ASSUME Types, Claimed, ClaimHeld, ClaimStays
  PROVE  Claimed' /\ ClaimHeld'
<1>1. \A g \in Sessions : /\ Live(g)' <=> Live(g)
                          /\ stream'[g].token = stream[g].token
                          /\ Own(g)' = Own(g)
  BY DEF ClaimStays, Alike, Live, Own, NobodyClaims
<1>2. Claimed'
  BY <1>1 DEF Claimed, ClaimStays, NobodyClaims
<1>3. ClaimHeld'
  BY <1>1 DEF ClaimHeld, ClaimStays, NobodyClaims, Own
<1> QED
  BY <1>2, <1>3

\* The streams that sound, and what they play, through such a step.
LEMMA KeepsSounding ==
  ASSUME ClaimStays
  PROVE  \A g \in Sessions : (Sounds(g)' <=> Sounds(g)) /\ stream'[g].item = stream[g].item
  BY DEF ClaimStays, Alike, Sounds, Lost

\* Steps that leave the session alone but for its consumer.
LEMMA Quietly ==
  ASSUME Types, AInv, ClaimStays, Handling', UNCHANGED ynison,
         history'.skipped = history.skipped,
         playback'.stop = playback.stop, playback'.cursor = playback.cursor,
         playback'.restart = playback.restart \/ playback'.restart,
         handler.pc = "formatting" => handler'.pc = "formatting"
  PROVE  AInv'
<1>1. Claimed' /\ ClaimHeld'
  BY KeepsClaimed DEF AInv
<1>2. Silenced' /\ CursorKnown' /\ Following'
  BY KeepsSounding DEF AInv, Silenced, CursorKnown, Following
<1> QED
  BY <1>1, <1>2 DEF AInv

\* The claim that a stream held is given up, or another one's stands.
LEMMA GeneratorAdvances ==
  ASSUME Types, Types', AInv, NEW g \in Sessions, Live(g), Advances(g), Remembers,
         UNCHANGED <<ynison, handler>>, NobodyClaims
  PROVE  AInv'
<1>1. /\ stream[g].token # None /\ ma[g].begun
      /\ Lost(playback, stream[g].token)
           <=> ~(playback.owner = ma[g].owner /\ playback.session = g)
  BY SoundsByClaim DEF AInv
<1>2. \A h \in Sessions : Own(h)' = Own(h)
  BY DEF Own, NobodyClaims
<1>3. \/ playback'.owner = playback.owner
      \/ /\ playback'.owner = None /\ stream'[g] = Silent
         /\ playback.owner = ma[g].owner /\ playback.session = g
  BY <1>1 DEF Advances
<1>4. /\ stream'[g] = Silent \/ stream'[g].token = stream[g].token
      /\ playback'.session = playback.session
      /\ \A h \in Sessions : h # g => Alike(stream[h], stream'[h])
  BY DEF Advances, StreamsAfter
<1>5. \A h \in Sessions : Live(h)' => Live(h) /\ stream'[h].token = stream[h].token
  BY <1>4 DEF Live, Alike, Silent
<1>6. Claimed'
  <2>1. playback'.session = None => playback'.owner = None
    BY <1>3, <1>4 DEF AInv, Claimed
  <2>2. ASSUME NEW h \in Sessions
        PROVE  /\ playback'.session = h => /\ playback'.owner \in {None, ma'[h].owner}
                                            /\ ma'[h].phase \in {"selected", "closing"}
               /\ ma'[h].phase \in {"free", "chosen", "selecting"} => ~ma'[h].begun
    BY <1>3, <1>4 DEF AInv, Claimed, NobodyClaims
  <2>3. ASSUME NEW h \in Sessions, ma'[h].phase = "selected", ~ma'[h].begun
        PROVE  playback'.session = h /\ playback'.owner = ma'[h].owner
    BY <1>1, <1>3, <1>4, <2>3 DEF AInv, Claimed, NobodyClaims
  <2>4. ASSUME NEW h \in Sessions, Live(h)'
        PROVE  stream'[h].token = Own(h)'
    BY <1>2, <1>5, <2>4 DEF AInv, Claimed
  <2> QED
    BY <2>1, <2>2, <2>3, <2>4 DEF Claimed
<1>7. ClaimHeld'
  <2>1. ASSUME NEW h \in Sessions, Live(h)', history'.current = h, ma'[h].phase = "selected",
               stream'[h].token = [owner |-> ma'[h].owner, session |-> h]
        PROVE  playback'.owner = ma'[h].owner /\ playback'.session = h
    <3>1. playback.owner = ma[h].owner /\ playback.session = h
      BY <1>5, <2>1 DEF AInv, ClaimHeld, NobodyClaims, Remembers
    <3>2. stream'[g] = Silent => h # g
      BY <2>1 DEF Live, Silent
    <3> QED
      BY <1>3, <1>4, <3>1, <3>2 DEF NobodyClaims
  <2> QED
    BY <2>1 DEF ClaimHeld
<1>8. ASSUME NEW h \in Sessions, Sounds(h)'
      PROVE  \/ /\ h # g /\ Sounds(h) /\ Lost(playback, stream[g].token)
                /\ stream'[h].item = stream[h].item
             \/ /\ h = g /\ Sounds(g) /\ UNCHANGED playback
                /\ stream'[g].item = stream[g].item
             \/ /\ h = g /\ playback'.cursor = ynison.item /\ ~ynison.paused
                /\ stream'[g].item = ynison.item
  <2>1. /\ stream'[h].pc \in {"opening", "playing"}
        /\ playback'.owner = ma'[h].owner /\ playback'.session = h
    BY <1>6, <1>8, SoundingThen DEF SoundsAlone
  <2>2. ma'[h].owner = ma[h].owner /\ ma[h].owner # None
    <3>1. Live(h)
      BY <1>5, <2>1 DEF Live
    <3> QED
      BY <3>1, SoundsByClaim DEF NobodyClaims, AInv
  <2>3. playback'.owner = playback.owner /\ playback.session = h
    BY <1>3, <1>4, <2>1, <2>2
  <2>4. CASE h # g
    <3>1. stream[h].pc \in {"opening", "playing"} /\ stream'[h].item = stream[h].item
      BY <1>4, <2>1, <2>4 DEF Alike
    <3> QED
      BY <1>1, <2>1, <2>2, <2>3, <2>4, <3>1, Sounding DEF SoundsAlone, AInv
  <2>5. CASE h = g
    <3>1. CASE stream[g].pc = "opening" /\ UNCHANGED playback
               /\ stream'[g].item = stream[g].item
      BY <2>1, <2>2, <2>3, <2>5, <3>1, Sounding DEF SoundsAlone, AInv
    <3>2. CASE stream'[g].item = ynison.item /\ playback'.cursor = ynison.item
               /\ ~ynison.paused
      BY <2>5, <3>2
    <3> QED
      BY <2>1, <2>5, <3>1, <3>2 DEF Advances, Silent
  <2> QED
    BY <2>4, <2>5
<1>9. playback'.stop = None => playback.stop = None
  BY DEF Advances
<1>10. Lost(playback, stream[g].token) =>
         /\ ~playback'.restart => ~playback.restart
         /\ playback'.cursor = playback.cursor \/ playback'.cursor = None
  BY DEF Advances
<1>11. Handling'
  BY DEF AInv, Handling
<1>12. Silenced'
  BY <1>8, <1>9 DEF AInv, Silenced, Remembers
<1>13. CursorKnown'
  BY <1>8, <1>10 DEF AInv, CursorKnown, Track
<1>14. Following'
  BY <1>8, <1>9, <1>10 DEF AInv, Following, Remembers
<1> QED
  BY <1>6, <1>7, <1>11, <1>12, <1>13, <1>14 DEF AInv

\* Without preloading, a stream begins once its request has been selected: its token is
\* the claim of that request, and every other stream is superseded.
LEMMA BeginsInv ==
  ASSUME Types, Types', AInv, "preload" \notin Acts, NEW g \in Sessions, Begins(g)
  PROVE  AInv'
<1>1. /\ StreamsAfter(stream, g, stream') /\ Remembers
      /\ playback'.session = playback.session /\ playback'.restart = FALSE
      /\ UNCHANGED <<ynison, handler>>
      /\ ~ma[g].begun /\ ma[g].phase = "selected"
      /\ ma' = [ma EXCEPT ![g].begun = TRUE]
  BY Beginning
<1>2. playback.session = g /\ playback.owner = ma[g].owner /\ ma[g].owner # None
  BY <1>1 DEF AInv, Claimed, Types, Attended
<1>3. Capture(playback) = Own(g)
  BY <1>2 DEF Capture, Own
<1>4. \/ stream'[g] = Silent /\ playback'.owner = None
      \/ /\ stream'[g].token = Own(g) /\ playback'.owner = playback.owner
         /\ stream'[g].pc \in {"waiting", "halting"}
      \/ /\ stream'[g].token = Own(g) /\ playback'.owner = playback.owner
         /\ stream'[g].pc = "opening" /\ stream'[g].item = ynison.item
         /\ ynison.item # None /\ ~ynison.paused /\ playback'.cursor = ynison.item
  BY <1>3, Beginning
<1>5. /\ ma \in [Sessions -> RequestStates]
      /\ \A h \in Sessions : /\ ma'[h].owner = ma[h].owner /\ ma'[h].phase = ma[h].phase
                             /\ h # g => ma'[h].begun = ma[h].begun
      /\ ma'[g].begun
  BY <1>1, ZenonT(30) DEF Types, RequestStates
<1>6. \A h \in Sessions : /\ Own(h)' = Own(h)
                          /\ h # g => /\ Live(h)' <=> Live(h)
                                      /\ stream'[h].token = stream[h].token
  BY <1>1, <1>5 DEF Own, StreamsAfter, Alike, Live
<1>7. Claimed'
  <2>1. playback'.session # None
    BY <1>1, <1>2, Distinct
  <2>2. ASSUME NEW h \in Sessions
        PROVE  /\ playback'.session = h => /\ playback'.owner \in {None, ma'[h].owner}
                                            /\ ma'[h].phase \in {"selected", "closing"}
               /\ ma'[h].phase \in {"free", "chosen", "selecting"} => ~ma'[h].begun
               /\ ~(ma'[h].phase = "selected" /\ ~ma'[h].begun)
    BY <1>1, <1>2, <1>4, <1>5 DEF AInv, Claimed
  <2>3. ASSUME NEW h \in Sessions, Live(h)'
        PROVE  stream'[h].token = Own(h)'
    BY <1>4, <1>6, <2>3 DEF AInv, Claimed, Live, Silent
  <2> QED
    BY <2>1, <2>2, <2>3 DEF Claimed
<1>8. ASSUME NEW h \in Sessions, Live(h)', history'.current = h, ma'[h].phase = "selected",
             stream'[h].token = [owner |-> ma'[h].owner, session |-> h]
      PROVE  playback'.owner = ma'[h].owner /\ playback'.session = h
  <2>1. CASE h = g
    BY <1>1, <1>2, <1>4, <1>5, <1>8, <2>1 DEF Live, Silent
  <2>2. CASE h # g
    <3>1. playback.session = h
      BY <1>1, <1>5, <1>6, <1>8, <2>2 DEF AInv, ClaimHeld, Remembers
    <3> QED
      BY <1>2, <2>2, <3>1
  <2> QED
    BY <2>1, <2>2
<1>9. ASSUME NEW h \in Sessions, Sounds(h)'
      PROVE  /\ h = g /\ stream'[g].item = ynison.item /\ ~ynison.paused
             /\ playback'.cursor = ynison.item
  BY <1>1, <1>2, <1>4, <1>7, <1>9, SoundingThen DEF SoundsAlone, Silent
<1>10. Handling'
  BY <1>1 DEF AInv, Handling
<1>11. Silenced' /\ CursorKnown' /\ Following'
  BY <1>1, <1>9 DEF Silenced, CursorKnown, Following
<1> QED
  BY <1>7, <1>8, <1>10, <1>11 DEF AInv, ClaimHeld

\* AInv through each step of a generator: only a preloaded one begins without its claim.
LEMMA GeneratorInv ==
  ASSUME Types, Types', AInv, "preload" \notin Acts, NEW g \in Sessions, Generator(g)
  PROVE  AInv'
<1>1. CASE Begins(g)
  BY <1>1, BeginsInv
<1>2. CASE Continues(g)
  <2>1. /\ Advances(g) /\ Remembers /\ UNCHANGED <<ynison, handler>> /\ Live(g)
        /\ (UNCHANGED ma \/ \E player : ma' = TornDown(player, None))
    BY <1>2, Continuing
  <2>2. NobodyClaims
    BY <2>1, TearingDown DEF Types
  <2> QED
    BY <2>1, <2>2, GeneratorAdvances
<1> QED
  BY <1>1, <1>2 DEF Generator, Continues

\* AInv through what Music Assistant does to a request.
LEMMA MusicAssistantInv ==
  ASSUME Types, Types', AInv, NEW g \in Sessions, MusicAssistant(g)
  PROVE  AInv'
<1>1. /\ UNCHANGED <<ynison, handler>>
      /\ \/ NobodyClaims /\ UNCHANGED <<playback, stream>> /\ Remembers
         \/ TakesClaim(g) \/ GivesClaimUp(g) \/ IsClosed(g)
  BY Managing
<1>2. Handling'
  BY <1>1 DEF AInv, Handling
<1>3. /\ playback \in SessionStates /\ history \in HistoryStates
      /\ stream \in [Sessions -> StreamStates] /\ ma \in [Sessions -> RequestStates]
  BY DEF Types
<1>4. CASE NobodyClaims /\ UNCHANGED <<playback, stream>> /\ Remembers
  <2>1. ClaimStays
    BY <1>4 DEF ClaimStays, Alike, Remembers
  <2> QED
    BY <1>1, <1>2, <1>4, <2>1, Quietly DEF Remembers
<1>5. CASE TakesClaim(g)
  <2>1. /\ playback'.owner = ma[g].owner /\ playback'.session = g
        /\ history'.current = g /\ history'.skipped = history.skipped
    BY <1>3, <1>5 DEF TakesClaim, Claim, SessionStates, HistoryStates
  <2>2. /\ ma'[g].phase = "selected" /\ ma'[g].owner = ma[g].owner /\ ~ma[g].begun
        /\ ma'[g].begun = ma[g].begun /\ \A h \in Sessions \ {g} : ma'[h] = ma[h]
        /\ UNCHANGED stream
        /\ \A h \in Sessions : ma[h].phase = "selected" => ma[h].begun
    BY <1>5 DEF TakesClaim, PhaseIs, AInv, Claimed
  <2>3. ~Live(g)
    BY <2>2 DEF Types, Attended
  <2>4. Claimed'
    BY <2>1, <2>2, <2>3, Distinct DEF AInv, Claimed, Live, Own
  <2>5. ClaimHeld'
    BY <2>1, <2>2, <2>3 DEF ClaimHeld, Live
  <2>6. ASSUME NEW h \in Sessions
        PROVE  ~Sounds(h)'
    BY <2>1, <2>2, <2>3, <2>4, SoundingThen DEF SoundsAlone, Live
  <2> QED
    BY <1>2, <2>4, <2>5, <2>6 DEF AInv, Silenced, CursorKnown, Following
<1>6. CASE GivesClaimUp(g)
  <2>1. /\ history'.current = IF history.current = g THEN None ELSE history.current
        /\ history'.skipped = history.skipped
    BY <1>3, <1>6 DEF GivesClaimUp, HistoryStates
  <2>2. /\ ma[g].phase = "closing"
        /\ ma'[g].phase = "closed" /\ ma'[g].owner = ma[g].owner
        /\ ma'[g].begun = ma[g].begun /\ \A h \in Sessions \ {g} : ma'[h] = ma[h]
        /\ UNCHANGED stream
    BY <1>6 DEF GivesClaimUp, PhaseIs
  <2>3. \/ playback.session # g /\ UNCHANGED playback
        \/ /\ playback.session = g /\ playback'.session = None /\ playback'.owner = None
           /\ playback'.stop = playback.stop /\ playback'.cursor = playback.cursor
           /\ playback'.restart = playback.restart
    <3>1. playback' = Release(playback, ma[g].owner, g)
      BY <1>6 DEF GivesClaimUp
    <3>2. CASE playback.session # g
      BY <3>1, <3>2 DEF Release
    <3>3. CASE playback.session = g
      <4>1. playback.owner \in {None, ma[g].owner}
        BY <3>3 DEF AInv, Claimed
      <4> QED
        BY <1>3, <3>1, <3>3, <4>1 DEF Release, SessionStates
    <3> QED
      BY <3>2, <3>3
  <2>4. Claimed'
    BY <2>2, <2>3, Distinct DEF AInv, Claimed, Live, Own
  <2>5. ClaimHeld'
    BY <2>1, <2>2, <2>3, Distinct DEF AInv, ClaimHeld, Live
  <2>6. ASSUME NEW h \in Sessions, Sounds(h)'
        PROVE  Sounds(h) /\ UNCHANGED playback
    <3>1. playback'.session = h
      BY <2>4, <2>6, SoundingThen DEF SoundsAlone
    <3>2. UNCHANGED playback
      BY <2>3, <3>1, Distinct
    <3> QED
      BY <2>2, <2>6, <3>2 DEF Sounds
  <2> QED
    BY <1>1, <1>2, <2>1, <2>2, <2>4, <2>5, <2>6 DEF AInv, Silenced, CursorKnown, Following
<1>7. CASE IsClosed(g)
  <2>1. Advances(g)
    BY <1>3, <1>7, Ending DEF IsClosed
  <2>2. Remembers /\ Live(g) /\ NobodyClaims
    BY <1>3, <1>7, TearingDown DEF IsClosed, Remembers
  <2> QED
    BY <1>1, <2>1, <2>2, GeneratorAdvances
<1> QED
  BY <1>1, <1>4, <1>5, <1>6, <1>7

\* A frame that restarts nothing left the cursor on its item, and the cursor is of the
\* track that sounds.
LEMMA KeepsTrack ==
  ASSUME Types, Types', CursorKnown, ClaimStays,
         \/ playback'.restart
         \/ /\ playback'.restart = playback.restart
            /\ ynison'.item = None \/ playback'.cursor = ynison'.item
            /\ Track(playback'.cursor) = Track(playback.cursor)
  PROVE  CursorKnown' /\ Following'
<1>1. \A g \in Sessions : (Sounds(g)' <=> Sounds(g)) /\ stream'[g].item = stream[g].item
  BY KeepsSounding
<1>2. CASE playback'.restart
  BY <1>2 DEF CursorKnown, Following
<1>3. CASE /\ playback'.restart = playback.restart
           /\ ynison'.item = None \/ playback'.cursor = ynison'.item
           /\ Track(playback'.cursor) = Track(playback.cursor)
  <2>1. playback.cursor \in Position /\ playback'.cursor \in Position
    BY DEF Types, SessionStates
  <2>2. playback.cursor = None => playback'.cursor = None
    BY <1>3, <2>1, TrackOf
  <2>3. CursorKnown'
    BY <1>1, <1>3, <2>2 DEF CursorKnown, Track
  <2>4. Following'
    BY <1>3, <2>3 DEF Following, CursorKnown, Track
  <2> QED
    BY <2>3, <2>4
<1> QED
  BY <1>2, <1>3

\* What the callback makes of a frame keeps the invariant, whatever it was before.
LEMMA OutcomeInv ==
  ASSUME Types, Types', Claimed, ClaimHeld, CursorKnown, NEW f \in Frames, Outcome(f),
         \A g \in Sessions : Alike(stream[g], stream'[g]),
         ma' \in [Sessions -> RequestStates],
         history'.skipped = settle,
         history'.current = IF ~settle /\ ~f.ours /\ playback.owner # None THEN None
                            ELSE history.current,
         ynison'.ours = f.ours,
         f.ours => ynison'.item = f.item /\ ynison'.paused = f.paused
  PROVE  AInv'
<1>1. NobodyClaims
  BY OutcomeTearsDown
<1>2. CASE UNCHANGED <<playback, ma>> /\ settle /\ handler'.pc = "idle"
  <2>1. ClaimStays
    BY <1>1, <1>2 DEF ClaimStays
  <2>2. Claimed' /\ ClaimHeld' /\ CursorKnown'
    BY <1>2, <2>1, KeepsClaimed, KeepsSounding DEF CursorKnown
  <2> QED
    BY <1>2, <2>2 DEF AInv, Handling, Silenced, Following
<1>3. CASE /\ ~settle /\ f.ours /\ ~f.paused /\ UNCHANGED ma
           /\ playback'.owner = playback.owner /\ playback'.session = playback.session
           /\ \/ /\ handler'.pc = "formatting" /\ handler'.frame = f /\ f.item # None
                 /\ playback'.restart = playback.restart /\ playback'.cursor = playback.cursor
              \/ handler'.pc = "idle" /\ playback'.restart
              \/ /\ handler'.pc = "idle" /\ playback'.restart = playback.restart
                 /\ f.item = None \/ playback'.cursor = f.item
                 /\ Track(playback'.cursor) = Track(playback.cursor)
  <2>1. ClaimStays
    BY <1>1, <1>3 DEF ClaimStays
  <2>2. Claimed' /\ ClaimHeld'
    BY <2>1, KeepsClaimed
  <2>3. ynison'.ours /\ ~ynison'.paused /\ ynison'.item = f.item
    BY <1>3
  <2>4. Handling' /\ Silenced'
    BY <1>3, <2>3 DEF Handling, Silenced
  <2>5. CursorKnown' /\ Following'
    <3>1. CASE handler'.pc = "formatting" /\ playback'.restart = playback.restart
               /\ playback'.cursor = playback.cursor
      BY <2>1, <3>1, KeepsSounding DEF CursorKnown, Following
    <3>2. CASE playback'.restart
      BY <2>1, <3>2, KeepsTrack
    <3>3. CASE /\ playback'.restart = playback.restart
               /\ f.item = None \/ playback'.cursor = f.item
               /\ Track(playback'.cursor) = Track(playback.cursor)
      BY <2>1, <2>3, <3>3, KeepsTrack
    <3> QED
      BY <1>3, <3>1, <3>2, <3>3
  <2> QED
    BY <2>2, <2>4, <2>5 DEF AInv
<1>4. CASE /\ ~settle /\ f.ours /\ f.paused /\ UNCHANGED ma
           /\ playback'.owner = playback.owner /\ playback'.session = playback.session
           /\ playback'.restart = playback.restart /\ playback'.cursor = playback.cursor
           /\ \/ playback.owner = None /\ UNCHANGED playback /\ handler'.pc = "idle"
              \/ /\ playback.owner # None /\ playback'.stop = "pause"
                 /\ handler'.pc = "stopping"
  <2>1. ClaimStays
    BY <1>1, <1>4 DEF ClaimStays
  <2>2. Claimed' /\ ClaimHeld' /\ CursorKnown'
    BY <1>4, <2>1, KeepsClaimed, KeepsSounding DEF CursorKnown
  <2>3. Handling'
    BY <1>4 DEF Handling
  <2>4. playback'.stop # None \/ playback.owner = None
    BY <1>4, Distinct DEF StopReasons
  <2>5. playback.owner = None => \A g \in Sessions : ~Sounds(g)'
    <3> SUFFICES ASSUME playback.owner = None, NEW g \in Sessions, Sounds(g)'
                 PROVE  FALSE
      OBVIOUS
    <3>1. playback.owner = ma[g].owner /\ Live(g)
      BY <2>1, KeepsSounding, Sounding DEF SoundsAlone, Live
    <3> QED
      BY <3>1, SoundsByClaim
  <2>6. Silenced' /\ Following'
    BY <2>4, <2>5 DEF Silenced, Following
  <2> QED
    BY <2>2, <2>3, <2>6 DEF AInv
<1>5. CASE ~settle /\ ~f.ours /\ handler'.pc = "idle" /\ playback.owner = None
           /\ UNCHANGED <<playback, ma>>
  <2>1. ClaimStays
    BY <1>1, <1>5 DEF ClaimStays
  <2>2. Claimed' /\ ClaimHeld' /\ CursorKnown'
    BY <1>5, <2>1, KeepsClaimed, KeepsSounding DEF CursorKnown
  <2> QED
    BY <1>5, <2>2 DEF AInv, Handling, Silenced, Following
<1>6. CASE ~settle /\ ~f.ours /\ handler'.pc = "idle" /\ playback.owner # None /\ Cleared
  <2>1. \A g \in Sessions : /\ Own(g)' = Own(g) /\ (Live(g)' <=> Live(g))
                            /\ stream'[g].token = stream[g].token
    BY <1>1 DEF NobodyClaims, Own, Alike, Live
  <2>2. Claimed'
    BY <1>6, <2>1, Distinct DEF Claimed, Cleared
  <2>3. ClaimHeld'
    BY <1>6, Distinct DEF ClaimHeld
  <2>4. ASSUME NEW g \in Sessions
        PROVE  ~Sounds(g)'
    BY <1>6, <2>2, <2>4, SoundingThen, Distinct DEF SoundsAlone, Cleared
  <2> QED
    BY <1>6, <2>2, <2>3, <2>4 DEF AInv, Handling, Silenced, CursorKnown, Following
<1> QED
  BY <1>2, <1>3, <1>4, <1>5, <1>6 DEF Outcome

\* AInv through the arrival of a frame.
LEMMA FrameInv ==
  ASSUME Types, Types', AInv, NEW f \in Frames, Arrives(f)
  PROVE  AInv'
<1>1. /\ \A g \in Sessions : Alike(stream[g], stream'[g])
      /\ ma' \in [Sessions -> RequestStates] /\ Incoming(f)
  BY Arriving
<1>2. ynison'.ours = f.ours /\ ynison'.item = f.item /\ ynison'.paused = f.paused
  BY <1>1 DEF Incoming
<1>3. CASE /\ ynison.ours /\ ~f.ours /\ UNCHANGED <<playback, plays, ma>>
           /\ handler'.pc = "muting" /\ handler'.frame = f
           /\ history' = GivesUp
  <2>1. history'.current = history.current
    BY <1>3 DEF GivesUp, Types, HistoryStates
  <2>2. ClaimStays
    BY <1>1, <1>3, <2>1, TearingDown DEF ClaimStays
  <2>3. Claimed' /\ ClaimHeld' /\ CursorKnown'
    BY <1>3, <2>2, KeepsClaimed, KeepsSounding DEF CursorKnown, AInv
  <2> QED
    BY <1>2, <1>3, <2>3 DEF AInv, Handling, Silenced, Following
<1>4. CASE /\ Outcome(f)
           /\ history'.skipped = Handled(f).skipped /\ history'.current = Handled(f).current
  <2>1. PICK h : h = Handled(f)
    OBVIOUS
  <2>2. /\ h.skipped = settle
        /\ h.current = IF ~settle /\ ~f.ours /\ playback.owner # None THEN None
                       ELSE history.current
    BY <2>1 DEF Handled, Types, HistoryStates
  <2> QED
    BY <1>1, <1>2, <1>4, <2>1, <2>2, OutcomeInv DEF AInv
<1> QED
  BY <1>1, <1>3, <1>4 DEF Incoming

\* AInv through the rest of the state callback.
LEMMA CallbackInv ==
  ASSUME Types, Types', AInv, Callback
  PROVE  AInv'
<1>1. Resting.pc = "idle"
  BY DEF Resting
<1>2. /\ playback \in SessionStates /\ stream \in [Sessions -> StreamStates]
      /\ ma \in [Sessions -> RequestStates] /\ handler \in HandlerStates
      /\ history \in HistoryStates
  BY DEF Types
<1>3. \A g \in Sessions : Alike(stream[g], stream[g])
  BY DEF Alike
<1>4. CASE Muted
  <2>1. PICK f \in Frames : f = handler.frame
    BY <1>4 DEF Muted, Types, Pending
  <2>2. Handle(f, stream) /\ history' = Handled(f) /\ UNCHANGED ynison
    BY <1>4, <2>1 DEF Muted
  <2>3. /\ \A g \in Sessions : Alike(stream[g], stream'[g])
        /\ ma' \in [Sessions -> RequestStates] /\ Outcome(f)
    BY <1>2, <2>2, HandlingAFrame
  <2>4. ~ynison.ours /\ ~f.ours
    BY <1>4, <2>1 DEF AInv, Handling, Muted
  <2>5. PICK h : h = Handled(f)
    OBVIOUS
  <2>6. /\ h.skipped = settle
        /\ h.current = IF ~settle /\ ~f.ours /\ playback.owner # None THEN None
                       ELSE history.current
    BY <1>2, <2>5 DEF Handled, HistoryStates
  <2>7. ynison'.ours \in BOOLEAN /\ ynison'.ours = ynison.ours /\ f.ours \in BOOLEAN
    BY <2>2 DEF Types, Frames
  <2> QED
    BY <2>2, <2>3, <2>4, <2>5, <2>6, <2>7, OutcomeInv DEF AInv
<1>5. CASE Formatted
  <2>1. PICK f \in Frames : f = handler.frame
    BY <1>5 DEF Formatted, Types, Pending
  <2>2. /\ TracksOn(playback, f, handler.reselect, stream) /\ handler' = Resting
        /\ UNCHANGED <<ynison, ma, history>>
    BY <1>5, <2>1 DEF Formatted
  <2>3. handler.reselect \in BOOLEAN
    BY <1>2 DEF HandlerStates
  <2>4. /\ \A g \in Sessions : Alike(stream[g], stream'[g])
        /\ playback'.owner = playback.owner /\ playback'.session = playback.session
        /\ playback'.stop = playback.stop
        /\ \/ playback'.restart
           \/ /\ playback'.restart = playback.restart
              /\ f.item = None \/ playback'.cursor = f.item
              /\ Track(playback'.cursor) = Track(playback.cursor)
    BY <1>2, <2>2, <2>3, Tracking
  <2>5. ClaimStays
    BY <1>2, <2>2, <2>4, TearingDown DEF ClaimStays
  <2>6. f.item = ynison'.item /\ ~ynison'.paused
    BY <1>5, <2>1, <2>2 DEF AInv, Handling, Formatted
  <2>7. CursorKnown' /\ Following'
    BY <2>4, <2>5, <2>6, KeepsTrack DEF AInv
  <2>8. Claimed' /\ ClaimHeld'
    BY <2>5, KeepsClaimed DEF AInv
  <2>9. Handling' /\ Silenced'
    BY <1>1, <2>2, <2>6 DEF Handling, Silenced
  <2> QED
    BY <2>7, <2>8, <2>9 DEF AInv
<1>6. CASE PlayerStops
  <2>1. UNCHANGED <<playback, ynison, stream, history>> /\ handler.pc = "stopping"
    BY <1>6 DEF PlayerStops
  <2>2. /\ ma' \in [Sessions -> RequestStates]
        /\ UNCHANGED ma \/ \E player : ma' = TornDown(player, None)
    <3>1. CASE ma' = TornDown(handler.target, None)
      BY <1>2, <3>1, TornDownAre
    <3>2. CASE UNCHANGED ma
      BY <1>2, <3>2
    <3> QED
      BY <1>6, <3>1, <3>2 DEF PlayerStops
  <2>3. ClaimStays
    BY <1>3, <2>1, <2>2, TearingDown DEF ClaimStays
  <2>4. handler'.pc \in {"idle", "stopped"}
    BY <1>1, <1>2, <1>6 DEF PlayerStops, HandlerStates
  <2>5. Handling'
    BY <2>1, <2>4 DEF AInv, Handling
  <2> QED
    BY <2>1, <2>3, <2>5, Quietly
<1>7. CASE Paused
  <2>1. /\ handler' = Resting /\ playback' = PauseExternally(playback, handler.target)
        /\ UNCHANGED <<ynison, stream, ma, history>> /\ handler.pc = "stopped"
    BY <1>7 DEF Paused
  <2>2. /\ playback'.owner = playback.owner /\ playback'.session = playback.session
        /\ playback'.stop = playback.stop /\ playback'.cursor = playback.cursor
        /\ playback'.restart = playback.restart
    BY <1>2, <2>1 DEF PauseExternally, SessionStates
  <2>3. ClaimStays
    BY <1>2, <1>3, <2>1, <2>2, TearingDown DEF ClaimStays
  <2>4. Handling'
    BY <1>1, <2>1 DEF Handling
  <2> QED
    BY <2>1, <2>2, <2>3, <2>4, Quietly
<1> QED
  BY <1>4, <1>5, <1>6, <1>7 DEF Callback

\* AInv through the choice of a session.
LEMMA ChosenInv ==
  ASSUME Types, Types', AInv, NEW g \in Sessions, Chosen(g),
         UNCHANGED <<playback, ynison, stream, history, handler>>
  PROVE  AInv'
<1>1. ~Live(g) /\ playback.session # g
  BY DEF Chosen, Unclaimed
<1>2. Claimed'
  BY <1>1 DEF AInv, Claimed, Chosen, Live, Own
<1>3. ClaimHeld'
  BY <1>1 DEF AInv, ClaimHeld, Chosen, Live
<1>4. \A h \in Sessions : Sounds(h)' <=> Sounds(h)
  BY DEF Sounds
<1> QED
  BY <1>2, <1>3, <1>4 DEF AInv, Handling, Silenced, CursorKnown, Following

\* AInv through what a listener or another device does.
LEMMA OthersInv ==
  ASSUME Types, Types', AInv, Others
  PROVE  AInv'
<1>1. /\ playback \in SessionStates /\ stream \in [Sessions -> StreamStates]
      /\ ma \in [Sessions -> RequestStates]
  BY DEF Types
<1>2. \A g \in Sessions : Alike(stream[g], stream[g])
  BY DEF Alike
<1>3. CASE UNCHANGED <<playback, ynison, stream, history, handler, ma>>
  <2>1. ClaimStays
    BY <1>1, <1>2, <1>3, TearingDown DEF ClaimStays
  <2>2. Handling'
    BY <1>3 DEF AInv, Handling
  <2> QED
    BY <1>3, <2>1, <2>2, Quietly
<1>4. CASE PlayMedia
  <2>1. UNCHANGED <<playback, ynison, stream, history, handler>>
    BY <1>4 DEF PlayMedia
  <2>2. CASE UNCHANGED ma
    BY <1>3, <2>1, <2>2
  <2>3. CASE Head(plays) \in Owners /\ Chooses(Head(plays))
    BY <2>1, <2>3, Choosing, ChosenInv
  <2> QED
    BY <1>4, <2>2, <2>3 DEF PlayMedia
<1>5. CASE UserSelects
  BY <1>5, Choosing, ChosenInv DEF UserSelects
<1>6. CASE OwnSeek
  <2>1. UNCHANGED <<ynison, handler, ma, history>> /\ stream' = Woken(stream)
    BY <1>6 DEF OwnSeek
  <2>2. /\ playback'.owner = playback.owner /\ playback'.session = playback.session
        /\ playback'.stop = playback.stop /\ playback'.cursor = playback.cursor
        /\ playback'.restart
    BY <1>1, <1>6 DEF OwnSeek, RequestRestart, SessionStates
  <2>3. ClaimStays
    BY <1>1, <2>1, <2>2, WokenAre, TearingDown DEF ClaimStays
  <2>4. Handling'
    BY <2>1 DEF AInv, Handling
  <2> QED
    BY <2>1, <2>2, <2>3, <2>4, Quietly
<1>7. CASE SettleBegins \/ SettleEnds \/ LinkChanges
  BY <1>3, <1>7 DEF SettleBegins, SettleEnds, LinkChanges
<1> QED
  BY <1>4, <1>5, <1>6, <1>7, FramesArrive, FrameInv DEF Others

\* The initial states satisfy AInv.
LEMMA InitInv ==
  ASSUME Init
  PROVE  AInv
<1>1. \A g \in Sessions : stream[g].pc = "none" /\ ma[g].phase = "free" /\ ~ma[g].begun
  BY DEF Init, Silent, Free
<1>2. playback.session = None /\ playback.owner = None /\ handler.pc = "idle"
  BY DEF Init, NoSession, Resting
<1>3. \A g \in Sessions : ~Live(g) /\ ~Sounds(g) /\ g # None
  BY <1>1, Distinct DEF Live, Sounds
<1> QED
  BY <1>1, <1>2, <1>3 DEF AInv, Claimed, ClaimHeld, Handling, Silenced, CursorKnown, Following

\* AInv through every step.
LEMMA NextInv ==
  ASSUME Types, Types', AInv, "preload" \notin Acts, [Next]_vars
  PROVE  AInv'
<1>1. CASE UNCHANGED vars
  BY <1>1 DEF vars, AInv, Claimed, ClaimHeld, Handling, Silenced, CursorKnown, Following, Sounds,
              Live, Own
<1>2. CASE Next
  BY <1>2, GeneratorInv, MusicAssistantInv, CallbackInv, OthersInv DEF Next
<1> QED
  BY <1>1, <1>2

\* Without preloading, the types and AInv always hold.
LEMMA Invariance ==
  ASSUME "preload" \notin Acts
  PROVE  Spec => [](Types /\ AInv)
<1>1. Init => Types /\ AInv
  BY InitTypes, InitInv
<1>2. Types /\ AInv /\ [Next]_vars => (Types /\ AInv)'
  BY NextTypes, NextInv
<1> QED
  BY <1>1, <1>2, PTL DEF Spec

-----------------------------------------------------------------------------
(* The theorems                                                              *)

\* The claim of the newest request stands until that request is torn down, cleared or
\* its own stream ends (ClaimHeld): neither a late teardown nor a superseded stream
\* releases it, in whatever order MA closes what it has opened.
THEOREM HoldsTheClaim ==
  ASSUME "preload" \notin Acts
  PROVE  Spec => []ClaimHeld
<1>1. AInv => ClaimHeld
  BY DEF AInv
<1> QED
  BY <1>1, Invariance, PTL

\* Once a pause has been handled, no stream goes on playing (PausedIsSilent), even if the
\* player refused to stop.
THEOREM SilentWhenPaused ==
  ASSUME "preload" \notin Acts
  PROVE  Spec => []PausedIsSilent
<1>1. AInv => PausedIsSilent
  BY DEF AInv, Silenced, Sounds, PausedIsSilent, Undisturbed
<1> QED
  BY <1>1, Invariance, PTL

\* No track change is missed (FollowsYnison): whatever the generator was doing when it
\* came, a stream that nothing asks to restart or end plays the current track.
THEOREM FollowsTheQueue ==
  ASSUME "preload" \notin Acts
  PROVE  Spec => []FollowsYnison
<1>1. AInv => FollowsYnison
  BY DEF AInv, Following, Sounds, FollowsYnison, Undisturbed
<1> QED
  BY <1>1, Invariance, PTL

-----------------------------------------------------------------------------
(* What Ynison asked for                                                     *)

\* Nobody does what the code forgets a request to play for: pauses and stops by hand, a
\* linked provider that is unloaded or has no slot, streams that are preloaded or bridged.
Unhindered == Acts \intersect {"pause", "stop", "slot", "unlink", "preload", "bridge"} = {}

\* An owner that may have the source.
Admissible(owner) == owner \in Owners /\ (allowSwitch \/ owner = Home)

Plain ==
    /\ ~ynison.paused /\ linked /\ ~playback.paused
    /\ handler.pc \in {"idle", "muting", "formatting"}
    /\ \A g \in Sessions : stream[g].pc # "halting"

\* Only owners that may have the source are played on and selected.
Named ==
    /\ playback.consumer = None \/ Admissible(playback.consumer)
    /\ handler.pc = "formatting" => Admissible(handler.target)
    /\ \A i \in DOMAIN plays : Admissible(plays[i])
    /\ \A g \in Sessions :
         /\ ma[g].phase # "free" => ma[g].player = ma[g].owner
         /\ ma[g].phase \in {"selecting", "selected"} => Admissible(ma[g].owner)

\* A request that will have the claim, or a stream that has it.
OnItsWay(g) ==
    \/ ma[g].phase = "chosen" /\ Admissible(ma[g].owner)
    \/ ma[g].phase = "selecting"
    \/ ma[g].phase = "selected" /\ ~ma[g].begun
    \/ ma[g].phase = "selected" /\ Live(g) /\ ~Lost(playback, stream[g].token)

Coming == plays # <<>> \/ handler.pc = "formatting" \/ \E g \in Sessions : OnItsWay(g)

\* A consumer that nothing was asked to stop: something plays for it or is on its way.
Engaged == playback.consumer # None /\ playback.stop = None => Coming

\* A request to play that still stands has a consumer, and no stop came after it.
Standing == history.asked => ynison.ours /\ playback.stop = None /\ playback.consumer # None

PInv == Plain /\ Named /\ Engaged /\ Standing

\* The switch of players is a setting, and nobody unloads the provider.
LEMMA Configured ==
  ASSUME Unhindered, [Next]_vars
  PROVE  UNCHANGED <<allowSwitch, linked>>
<1>1. CASE UNCHANGED vars
  BY <1>1 DEF vars, conditions
<1>2. ASSUME NEW g \in Sessions, Generator(g)
      PROVE  UNCHANGED <<allowSwitch, linked>>
  BY <1>2 DEF Generator, Begins, WaitEnds, Halts, Opens, LosesProvider, FailsToOpen, StopsTrack,
              NotAdmitted, TrackEnds, AfterTrack, Completes, Replenished, Follows, TimesOut,
              outside, conditions
<1>3. ASSUME NEW g \in Sessions, MusicAssistant(g)
      PROVE  UNCHANGED <<allowSwitch, linked>>
  BY <1>3 DEF MusicAssistant, Selects, Selected, Finishes, Closes, Unselects, outside, conditions
<1>4. CASE Callback
  BY <1>4 DEF Callback, Muted, Formatted, PlayerStops, Paused, outside, conditions
<1>5. CASE Others
  BY <1>5 DEF Others, PlayMedia, UserSelects, OwnSeek, Heartbeat, ItemMoves, ItemKept, PeerSeeks,
              PausesOrResumes, DeviceChanges, QueueEmpties, SettleBegins, SettleEnds, LinkChanges,
              Arrives, Act, Unhindered, outside, conditions
<1> QED
  BY <1>1, <1>2, <1>3, <1>4, <1>5 DEF Next

\* A generator that ends leaves the consumer.
LEMMA ExitsSustain ==
  ASSUME NEW p \in SessionStates, NEW s, NEW g \in Sessions, Exits(g, p, s)
  PROVE  playback'.consumer = p.consumer /\ playback'.paused = p.paused
<1>1. PICK q : q = ReleaseIfCurrent(p, s[g].token)
  OBVIOUS
<1>2. q \in SessionStates
  BY <1>1, Methods
<1>3. q.consumer = p.consumer /\ q.paused = p.paused
  BY <1>1 DEF ReleaseIfCurrent, SessionStates
<1>4. playback' = [q EXCEPT !.cursor = None]
  BY <1>1 DEF Exits, Ended
<1> QED
  BY <1>2, <1>3, <1>4 DEF SessionStates

\* As long as the provider is linked and nothing is paused, a loop that is to go on does.
LEMMA LoopSustains ==
  ASSUME linked, ~ynison.paused, NEW g \in Sessions, NEW p \in SessionStates,
         NEW s \in [Sessions -> StreamStates], Loop(g, p, s),
         ynison.item \in Position
  PROVE  /\ playback'.consumer = p.consumer /\ playback'.paused = p.paused
         /\ playback'.stop = p.stop /\ UNCHANGED history
         /\ stream'[g].pc # "halting" /\ (GoesOn(p, s[g].token) => Live(g)')
<1>1. PICK q0 : q0 = ConsumeRestart(p)
  OBVIOUS
<1>2. /\ q0 \in SessionStates /\ q0.consumer = p.consumer /\ q0.paused = p.paused
      /\ q0.stop = p.stop
  BY <1>1, Methods DEF ConsumeRestart, SessionStates
<1>3. PICK q : q = [q0 EXCEPT !.cursor = ynison.item]
  OBVIOUS
<1>4. /\ q \in SessionStates /\ q.consumer = p.consumer /\ q.paused = p.paused
      /\ q.stop = p.stop
  BY <1>2, <1>3 DEF SessionStates
<1>5. CASE ~GoesOn(p, s[g].token) /\ Exits(g, p, s) /\ UNCHANGED history
  BY <1>5, Exiting, ExitsSustain DEF Silent
<1>6. CASE playback' = q0 /\ stream' = [s EXCEPT ![g].pc = "waiting"] /\ UNCHANGED history
  <2>1. stream'[g].pc = "waiting"
    BY <1>6 DEF StreamStates
  <2> QED
    BY <1>2, <1>6, <2>1 DEF Live
<1>7. CASE /\ playback' = TakeStart(q) /\ UNCHANGED history
           /\ stream' = [s EXCEPT ![g].pc = "opening", ![g].item = ynison.item, ![g].news = {}]
  <2>1. stream'[g].pc = "opening"
    BY <1>7 DEF StreamStates
  <2>2. /\ playback'.consumer = q.consumer /\ playback'.paused = q.paused
        /\ playback'.stop = q.stop
    BY <1>4, <1>7 DEF TakeStart, SessionStates
  <2> QED
    BY <1>4, <1>7, <2>1, <2>2 DEF Live
<1> QED
  BY <1>1, <1>3, <1>5, <1>6, <1>7 DEF Loop

\* What a step of a generator does not take from a request: its stream lives on, unless it
\* has lost the claim, a stop is asked for, or its request is over.
Sustains(g) ==
    /\ playback'.consumer = playback.consumer /\ playback'.paused = playback.paused
    /\ stream'[g].pc # "halting"
    /\ \/ playback'.stop # None \/ Lost(playback, stream[g].token) \/ Live(g)'
       \/ ma[g].phase # "selected"
    /\ \/ history' = GivesUp
       \/ UNCHANGED history /\ playback'.stop = playback.stop

\* A loop after a track sustains the request.
LEMMA LoopingSustains ==
  ASSUME Types, linked, ~ynison.paused, NEW g \in Sessions, NEW p, NEW s,
         s \in {stream, Woken(stream)},
         \/ p = playback
         \/ \E reason \in RestartReasons : p = RequestRestart(playback, reason),
         Loop(g, p, s) \/ Loop(g, [p EXCEPT !.cursor = None], s)
  PROVE  Sustains(g)
<1>1. playback \in SessionStates /\ stream \in [Sessions -> StreamStates]
      /\ ynison.item \in Position
  BY DEF Types
<1>2. /\ p \in SessionStates /\ p.owner = playback.owner /\ p.session = playback.session
      /\ p.stop = playback.stop /\ p.consumer = playback.consumer /\ p.paused = playback.paused
  <2>1. CASE p = playback
    BY <1>1, <2>1
  <2>2. ASSUME NEW reason \in RestartReasons, p = RequestRestart(playback, reason)
        PROVE  <1>2!:
    <3>1. p \in SessionStates
      BY <1>1, <2>2, Methods
    <3> QED
      BY <1>1, <2>2, <3>1 DEF RequestRestart, SessionStates
  <2> QED
    BY <2>1, <2>2
<1>3. PICK q : q = [p EXCEPT !.cursor = None]
  OBVIOUS
<1>4. /\ q \in SessionStates /\ q.owner = playback.owner /\ q.session = playback.session
      /\ q.stop = playback.stop /\ q.consumer = playback.consumer /\ q.paused = playback.paused
  BY <1>2, <1>3 DEF SessionStates, Position
<1>5. s \in [Sessions -> StreamStates] /\ s[g].token = stream[g].token
  BY <1>1, WokenAre DEF Alike
<1>6. ASSUME NEW r \in {p, q}, Loop(g, r, s)
      PROVE  Sustains(g)
  <2>1. /\ r \in SessionStates /\ r.owner = playback.owner /\ r.session = playback.session
        /\ r.stop = playback.stop /\ r.consumer = playback.consumer
        /\ r.paused = playback.paused
    BY <1>2, <1>4, <1>6
  <2>2. GoesOn(r, s[g].token) <=> playback.stop = None /\ ~Lost(playback, stream[g].token)
    BY <1>5, <2>1 DEF GoesOn, Lost
  <2>3. /\ playback'.consumer = r.consumer /\ playback'.paused = r.paused
        /\ playback'.stop = r.stop /\ UNCHANGED history
        /\ stream'[g].pc # "halting" /\ (GoesOn(r, s[g].token) => Live(g)')
    BY <1>1, <1>5, <1>6, <2>1, LoopSustains
  <2> QED
    BY <2>1, <2>2, <2>3 DEF Sustains
<1> QED
  BY <1>3, <1>6

\* The end of a queue asks for a stop, and ends what Ynison asked for.
LEMMA QueueEndSustains ==
  ASSUME Types, NEW g \in Sessions, QueueEnds(g)
  PROVE  Sustains(g)
<1>1. PICK p : p = RequestStop(playback, "queue_end")
  OBVIOUS
<1>2. playback \in SessionStates /\ p \in SessionStates
      /\ Woken(stream) \in [Sessions -> StreamStates]
  BY <1>1, Methods, WokenAre DEF Types, StopReasons
<1>3. /\ p.consumer = playback.consumer /\ p.paused = playback.paused /\ p.stop = "queue_end"
  BY <1>1, <1>2 DEF RequestStop, SessionStates
<1>4. Exits(g, p, Woken(stream)) /\ history' = GivesUp
  BY <1>1 DEF QueueEnds
<1>5. playback'.stop = p.stop /\ stream'[g] = Silent
  BY <1>2, <1>4, Exiting
<1> QED
  BY <1>2, <1>3, <1>4, <1>5, ExitsSustain, Distinct DEF Sustains, Silent, StopReasons

\* A generator sustains its request at each step after the first one.
LEMMA GeneratorSustains ==
  ASSUME Types, Unhindered, Plain, NEW g \in Sessions, Continues(g)
  PROVE  Sustains(g) /\ UNCHANGED ma
<1> DEFINE s == stream[g]
           At(pc) == [s EXCEPT !.pc = pc]
           Fresh(pc) == [s EXCEPT !.pc = pc, !.news = {}]
<1>1. /\ playback \in SessionStates /\ stream \in [Sessions -> StreamStates]
      /\ linked /\ ~ynison.paused /\ stream[g].pc # "halting" /\ s \in StreamStates
  BY DEF Types, Plain
<1>2. UNCHANGED ma
  BY <1>1 DEF Continues, WaitEnds, Halts, Opens, LosesProvider, FailsToOpen, NotAdmitted,
         TrackEnds, AfterTrack, Completes, Replenished, Follows, TimesOut, StopsTrack, outside,
         conditions
<1> SUFFICES Sustains(g)
  BY <1>2
<1>3. ASSUME NEW pc \in {"playing", "ended", "completing", "replenishing", "following",
                         "dozing"},
             UNCHANGED <<playback, history>>,
             stream' = [stream EXCEPT ![g] = At(pc)] \/ stream' = [stream EXCEPT ![g] = Fresh(pc)]
      PROVE  Sustains(g)
  <2>1. At(pc).pc = pc /\ Fresh(pc).pc = pc
    BY <1>1 DEF StreamStates
  <2>2. stream'[g].pc = pc
    <3> HIDE DEF s, At, Fresh
    <3> QED
      BY <1>1, <1>3, <2>1
  <2> QED
    BY <1>3, <2>2 DEF Sustains, Live
<1> HIDE DEF s
<1>4. CASE WaitEnds(g)
  BY <1>1, <1>4, LoopingSustains DEF WaitEnds
<1>5. CASE Opens(g)
  BY <1>3, <1>5 DEF Opens, s
<1>6. CASE FailsToOpen(g)
  <2>1. StopsTrack(g, "stream_error")
    BY <1>6 DEF FailsToOpen
  <2>2. /\ playback' = RequestStop(playback, "stream_error") /\ history' = GivesUp
        /\ stream' = [Woken(stream) EXCEPT ![g].pc = "ended"]
    BY <2>1 DEF StopsTrack
  <2>3. /\ playback'.consumer = playback.consumer /\ playback'.paused = playback.paused
        /\ playback'.stop = "stream_error"
    BY <1>1, <2>2 DEF RequestStop, SessionStates
  <2>4. Woken(stream) \in [Sessions -> StreamStates]
    BY <1>1, WokenAre
  <2>5. stream'[g].pc = "ended"
    BY <2>2, <2>4 DEF StreamStates
  <2> QED
    BY <2>2, <2>3, <2>5, Distinct DEF Sustains, StopReasons
<1>7. CASE TrackEnds(g)
  BY <1>3, <1>7 DEF TrackEnds, s
<1>8. CASE AfterTrack(g)
  <2>1. CASE playback.stop # None /\ Exits(g, playback, stream) /\ UNCHANGED history
    BY <1>1, <2>1, Exiting, ExitsSustain DEF Sustains, Silent
  <2>2. CASE Loop(g, [playback EXCEPT !.cursor = None], stream)
    BY <1>1, <2>2, LoopingSustains
  <2>3. CASE /\ \/ stream' = [stream EXCEPT ![g] = Fresh("completing")]
                \/ stream' = [stream EXCEPT ![g] = Fresh("following")]
             /\ UNCHANGED <<playback, history>>
    BY <1>3, <2>3
  <2> QED
    BY <1>8, <2>1, <2>2, <2>3 DEF AfterTrack, s
<1>9. CASE Completes(g)
  <2>1. CASE Loop(g, [playback EXCEPT !.cursor = None], stream)
    BY <1>1, <2>1, LoopingSustains
  <2>2. CASE /\ \/ stream' = [stream EXCEPT ![g] = At("following")]
                \/ stream' = [stream EXCEPT ![g] = At("replenishing")]
             /\ UNCHANGED <<playback, history>>
    BY <1>3, <2>2
  <2>3. CASE Loop(g, [RequestRestart(playback, "repeat") EXCEPT !.cursor = None], Woken(stream))
    BY <1>1, <2>3, LoopingSustains DEF RestartReasons
  <2>4. CASE QueueEnds(g)
    BY <2>4, QueueEndSustains
  <2> QED
    BY <1>9, <2>1, <2>2, <2>3, <2>4 DEF Completes, s
<1>10. CASE Replenished(g)
  <2>1. CASE stream' = [stream EXCEPT ![g] = At("following")] /\ UNCHANGED <<playback, history>>
    BY <1>3, <2>1
  <2>2. CASE QueueEnds(g)
    BY <2>2, QueueEndSustains
  <2> QED
    BY <1>10, <2>1, <2>2 DEF Replenished, s
<1>11. CASE Follows(g)
  <2>1. CASE QueueEnds(g)
    BY <2>1, QueueEndSustains
  <2>2. CASE stream' = [stream EXCEPT ![g] = At("dozing")] /\ UNCHANGED <<playback, history>>
    BY <1>3, <2>2
  <2>3. ASSUME NEW p \in {playback, RequestRestart(playback, "track_change")},
               Loop(g, [p EXCEPT !.cursor = None], IF p = playback THEN stream ELSE Woken(stream))
        PROVE  Sustains(g)
    BY <1>1, <2>3, LoopingSustains DEF RestartReasons
  <2> QED
    BY <1>11, <2>1, <2>2, <2>3 DEF Follows, s
<1>12. CASE TimesOut(g)
  BY <1>12, QueueEndSustains DEF TimesOut
<1>13. ~Halts(g) /\ ~LosesProvider(g) /\ ~NotAdmitted(g)
  BY <1>1 DEF Halts, LosesProvider, NotAdmitted, Act, Unhindered
<1> QED
  BY <1>4, <1>5, <1>6, <1>7, <1>8, <1>9, <1>10, <1>11, <1>12, <1>13 DEF Continues

\* Whoever is on its way stays on it when one stream advances or is closed.
LEMMA AdvancesKeepPInv ==
  ASSUME Types, Types', AInv, PInv, NEW g \in Sessions, Live(g), Advances(g), Sustains(g),
         UNCHANGED <<ynison, handler, plays, ma, allowSwitch, linked>>
  PROVE  PInv'
<1>1. /\ \A h \in Sessions : h # g => Alike(stream[h], stream'[h])
      /\ playback'.session = playback.session
      /\ playback'.stop = playback.stop \/ playback'.stop # None
  BY DEF Advances, StreamsAfter
<1>2. /\ Lost(playback, stream[g].token)
           <=> ~(playback.owner = ma[g].owner /\ playback.session = g)
      /\ stream[g].token = Own(g) /\ stream[g].token # None
  BY SoundsByClaim DEF AInv
<1>3. \/ playback'.owner = playback.owner /\ (Live(g)' => stream'[g].token = stream[g].token)
      \/ playback.session = g /\ ~Live(g)'
  BY <1>2 DEF Advances, Live, Silent
<1>4. Plain'
  BY <1>1 DEF PInv, Plain, Alike, Sustains
<1>5. Named'
  BY DEF PInv, Named, Admissible, Sustains
<1>6. ASSUME NEW h \in Sessions, OnItsWay(h), playback'.stop = None
      PROVE  OnItsWay(h)'
  <2>1. CASE ma[h].phase = "selected" /\ Live(h) /\ ~Lost(playback, stream[h].token)
    <3>1. playback.owner = ma[h].owner /\ playback.session = h /\ stream[h].token # None
          /\ stream[h].token = Own(h)
      BY <2>1, SoundsByClaim DEF AInv
    <3>2. CASE h # g
      <4>1. playback'.owner = playback.owner
        BY <1>3, <3>1, <3>2
      <4>2. Live(h)' /\ stream'[h].token = stream[h].token
        BY <1>1, <2>1, <3>2 DEF Alike, Live
      <4> QED
        BY <1>1, <2>1, <4>1, <4>2 DEF OnItsWay, Lost
    <3>3. CASE h = g
      <4>1. Live(g)'
        BY <1>6, <2>1, <3>3 DEF Sustains
      <4>2. playback'.owner = playback.owner /\ stream'[g].token = stream[g].token
        BY <1>3, <4>1
      <4> QED
        BY <1>1, <2>1, <3>3, <4>1, <4>2 DEF OnItsWay, Lost
    <3> QED
      BY <3>2, <3>3
  <2>2. CASE \/ ma[h].phase = "chosen" /\ Admissible(ma[h].owner)
             \/ ma[h].phase = "selecting"
             \/ ma[h].phase = "selected" /\ ~ma[h].begun
    BY <2>2 DEF OnItsWay, Admissible
  <2> QED
    BY <1>6, <2>1, <2>2 DEF OnItsWay
<1>7. Engaged'
  BY <1>1, <1>6 DEF PInv, Engaged, Coming, Sustains
<1>8. Standing'
  <2>1. CASE history' = GivesUp
    <3>1. ~history'.asked
      BY <2>1 DEF GivesUp, Types, HistoryStates
    <3> QED
      BY <3>1 DEF Standing
  <2>2. CASE UNCHANGED history /\ playback'.stop = playback.stop
    BY <2>2 DEF PInv, Standing, Sustains
  <2> QED
    BY <2>1, <2>2 DEF Sustains
<1> QED
  BY <1>4, <1>5, <1>7, <1>8 DEF PInv

\* A stream that begins has the claim of its request: that one is served.
LEMMA BeginsPInv ==
  ASSUME Types, Types', AInv, AInv', PInv, Unhindered, NEW g \in Sessions, Begins(g),
         UNCHANGED <<allowSwitch, linked>>
  PROVE  PInv'
<1>1. /\ playback \in SessionStates /\ stream \in [Sessions -> StreamStates]
      /\ ma \in [Sessions -> RequestStates] /\ ynison.item \in Position
      /\ linked /\ ~ynison.paused
  BY DEF Types, PInv, Plain
<1>2. /\ StreamsAfter(stream, g, stream') /\ playback'.session = playback.session
      /\ UNCHANGED <<ynison, handler, plays>>
      /\ ~ma[g].begun /\ ma[g].phase = "selected"
      /\ ma' = [ma EXCEPT ![g].begun = TRUE]
      /\ \/ stream'[g] = Silent /\ playback'.owner = None
         \/ stream'[g].token = Capture(playback) /\ playback'.owner = playback.owner
  BY Beginning DEF Unhindered
<1>3. PICK t : t = Capture(playback)
  OBVIOUS
<1>4. PICK r : r = [Silent EXCEPT !.token = t]
  OBVIOUS
<1>5. PICK p : p = BeginStream(playback)
  OBVIOUS
<1>6. PICK s : s = [stream EXCEPT ![g] = r]
  OBVIOUS
<1>7. PICK q \in {p, SeedStart(p)} : Loop(g, q, s)
  BY <1>3, <1>4, <1>5, <1>6 DEF Begins
<1>8. p \in SessionStates /\ q \in SessionStates
  BY <1>1, <1>5, <1>7, Methods
<1>9. /\ p.stop = None /\ p.owner = playback.owner /\ p.session = playback.session
      /\ p.consumer = playback.consumer /\ p.paused = playback.paused
  BY <1>1, <1>5 DEF BeginStream, SessionStates
<1>10. /\ q.stop = None /\ q.owner = playback.owner /\ q.session = playback.session
       /\ q.consumer = playback.consumer /\ q.paused = playback.paused
  BY <1>7, <1>8, <1>9 DEF SeedStart, SessionStates
<1>11. r \in StreamStates /\ r.token = t
  BY <1>1, <1>3, <1>4, Methods DEF Silent, StreamStates, Position
<1>12. s \in [Sessions -> StreamStates] /\ s[g].token = t
  BY <1>1, <1>6, <1>11
<1>13. GoesOn(q, t)
  BY <1>3, <1>10 DEF GoesOn, Lost, Capture
<1>14. /\ playback'.consumer = playback.consumer /\ playback'.paused = playback.paused
       /\ playback'.stop = None /\ UNCHANGED history
       /\ stream'[g].pc # "halting" /\ Live(g)'
  BY <1>1, <1>7, <1>8, <1>10, <1>12, <1>13, LoopSustains
<1>15. /\ playback'.owner = playback.owner
       /\ playback.session = g /\ playback.owner = ma[g].owner
  BY <1>2, <1>14 DEF Live, Silent, AInv, Claimed
<1>16. /\ \A h \in Sessions : /\ ma'[h].owner = ma[h].owner /\ ma'[h].phase = ma[h].phase
                              /\ ma'[h].player = ma[h].player
  BY <1>1, <1>2, ZenonT(30) DEF RequestStates
<1>17. Plain'
  BY <1>2, <1>14 DEF PInv, Plain, StreamsAfter, Alike
<1>18. Named'
  BY <1>2, <1>14, <1>16 DEF PInv, Named, Admissible
<1>19. OnItsWay(g)'
  <2>1. ~Lost(playback, stream[g].token)'
    BY <1>2, <1>14, <1>15 DEF Live, Silent, Lost, Capture
  <2> QED
    BY <1>2, <1>14, <1>16, <2>1 DEF OnItsWay
<1>20. Engaged'
  BY <1>19 DEF Engaged, Coming
<1>21. Standing'
  BY <1>2, <1>14 DEF PInv, Standing
<1> QED
  BY <1>17, <1>18, <1>20, <1>21 DEF PInv

\* PInv through each step of a generator.
LEMMA GeneratorPInv ==
  ASSUME Types, Types', AInv, AInv', PInv, Unhindered, NEW g \in Sessions, Generator(g),
         UNCHANGED <<allowSwitch, linked>>
  PROVE  PInv'
<1>1. CASE Begins(g)
  BY <1>1, BeginsPInv
<1>2. CASE Continues(g)
  BY <1>2, Continuing, GeneratorSustains, AdvancesKeepPInv DEF PInv
<1> QED
  BY <1>1, <1>2 DEF Generator, Continues

\* One more call on its way.
LEMMA PlayingMore ==
  ASSUME Types, PInv, NEW o, Admissible(o), UNCHANGED allowSwitch, plays' = Append(plays, o)
  PROVE  plays' # <<>> /\ \A i \in DOMAIN plays' : Admissible(plays[i])'
<1>1. plays \in Seq(Players) /\ o \in Players
  BY Distinct DEF Types, Admissible
<1>2. /\ Len(plays') = Len(plays) + 1 /\ DOMAIN plays' = 1..Len(plays')
      /\ DOMAIN plays = 1..Len(plays) /\ Len(plays) \in Nat
      /\ plays'[Len(plays) + 1] = o /\ \A i \in 1..Len(plays) : plays'[i] = plays[i]
  BY <1>1
<1>3. plays' # <<>>
  BY <1>2
<1>4. ASSUME NEW i \in DOMAIN plays'
      PROVE  Admissible(plays[i])'
  <2>1. i \in 1..Len(plays) \/ i = Len(plays) + 1
    BY <1>2, <1>4
  <2>2. plays'[i] = o \/ (i \in DOMAIN plays /\ plays'[i] = plays[i])
    BY <1>2, <2>1
  <2> QED
    BY <2>2 DEF PInv, Named, Admissible
<1> QED
  BY <1>3, <1>4

\* Requests on their way stay on it when another one is refused, closed or forgotten.
LEMMA RequestEnds ==
  ASSUME Types, AInv, PInv, NEW g \in Sessions, PhaseIs(g, "closing") \/ PhaseIs(g, "closed"),
         ma[g].phase # "free", ~OnItsWay(g),
         UNCHANGED <<stream, handler, ynison, allowSwitch, linked>>,
         UNCHANGED playback \/ playback.session = g,
         playback'.consumer = playback.consumer, playback'.stop = playback.stop,
         playback'.paused = playback.paused,
         UNCHANGED plays \/ plays' = Append(plays, Home), history'.asked = history.asked
  PROVE  PInv'
<1>1. /\ \A h \in Sessions \ {g} : ma'[h] = ma[h]
      /\ ma'[g].phase \in {"closing", "closed"}
      /\ ma'[g].owner = ma[g].owner /\ ma'[g].player = ma[g].player
  BY DEF PhaseIs
<1>2. Plain'
  BY DEF PInv, Plain
<1>3. Admissible(Home)
  BY DEF Admissible, Owners
<1>4. (plays # <<>> => plays' # <<>>) /\ \A i \in DOMAIN plays' : Admissible(plays[i])'
  <2>1. CASE UNCHANGED plays
    BY <2>1 DEF PInv, Named, Admissible
  <2>2. CASE plays' = Append(plays, Home)
    BY <1>3, <2>2, PlayingMore
  <2> QED
    BY <2>1, <2>2
<1>5. \A h \in Sessions : /\ ma'[h].phase # "free" => ma'[h].player = ma'[h].owner
                          /\ ma'[h].phase \in {"selecting", "selected"} => Admissible(ma[h].owner)'
  BY <1>1 DEF PInv, Named, Admissible
<1>6. Named'
  BY <1>4, <1>5 DEF PInv, Named, Admissible
<1>7. ASSUME NEW h \in Sessions, OnItsWay(h)
      PROVE  OnItsWay(h)'
  <2>1. h # g /\ ma'[h] = ma[h]
    BY <1>1, <1>7
  <2>2. CASE Live(h) /\ ~Lost(playback, stream[h].token) /\ ma[h].phase = "selected"
    <3>1. UNCHANGED playback
      BY <2>1, <2>2, SoundsByClaim DEF AInv
    <3> QED
      BY <2>1, <2>2, <3>1 DEF OnItsWay, Live
  <2> QED
    BY <1>7, <2>1, <2>2 DEF OnItsWay, Admissible
<1>8. Engaged'
  BY <1>4, <1>7 DEF PInv, Engaged, Coming
<1>9. Standing'
  BY DEF PInv, Standing
<1> QED
  BY <1>2, <1>6, <1>8, <1>9 DEF PInv

\* A request that gets the claim, or waits for it, is on its way.
LEMMA RequestAdvances ==
  ASSUME Types, AInv, PInv, NEW g \in Sessions,
         ma[g].phase \in {"chosen", "selecting"}, Admissible(ma[g].owner),
         ma' \in [Sessions -> RequestStates], ma'[g].phase \in {"selecting", "selected"},
         \A h \in Sessions : /\ ma'[h].owner = ma[h].owner /\ ma'[h].player = ma[h].player
                             /\ ma'[h].begun = ma[h].begun
                             /\ h # g => ma'[h].phase \in {ma[h].phase, "closing"}
                             /\ ma[h].phase = "free" => ma'[h].phase = "free",
         UNCHANGED <<stream, handler, ynison, plays, allowSwitch, linked>>,
         playback'.consumer \in {playback.consumer, ma[g].player},
         playback'.stop = playback.stop, playback'.paused = playback.paused,
         history'.asked = history.asked
  PROVE  PInv'
<1>1. ma[g].player = ma[g].owner /\ ~ma[g].begun
  BY DEF PInv, Named, AInv, Claimed
<1>2. Plain'
  BY DEF PInv, Plain
<1>3. \A h \in Sessions : /\ ma'[h].phase # "free" => ma'[h].player = ma'[h].owner
                          /\ ma'[h].phase \in {"selecting", "selected"} => Admissible(ma[h].owner)'
  BY DEF PInv, Named, Admissible
<1>4. Named'
  BY <1>1, <1>3 DEF PInv, Named, Admissible
<1>5. Engaged'
  BY <1>1 DEF Engaged, Coming, OnItsWay
<1>6. Standing'
  BY <1>1, Distinct DEF PInv, Standing, Admissible
<1> QED
  BY <1>2, <1>4, <1>5, <1>6 DEF PInv

\* PInv through what Music Assistant does to a request.
LEMMA MusicAssistantPInv ==
  ASSUME Types, Types', AInv, PInv, Unhindered, NEW g \in Sessions, MusicAssistant(g),
         UNCHANGED <<allowSwitch, linked>>
  PROVE  PInv'
<1>1. /\ playback \in SessionStates /\ stream \in [Sessions -> StreamStates]
      /\ ma \in [Sessions -> RequestStates] /\ history \in HistoryStates
  BY DEF Types
<1>2. UNCHANGED <<handler, ynison>>
  BY Managing
<1>3. ASSUME Claims(g), ma' = [ma EXCEPT ![g].phase = "selected"], Admissible(ma[g].owner),
             ma[g].phase \in {"chosen", "selecting"}, UNCHANGED <<stream, plays>>
      PROVE  PInv'
  <2>1. /\ playback'.consumer = ma[g].player /\ playback'.stop = playback.stop
        /\ playback'.paused = playback.paused /\ history'.asked = history.asked
    BY <1>1, <1>3 DEF Claims, Claim, SessionStates, HistoryStates
  <2>2. PhaseIs(g, "selected")
    BY <1>3, MovingPhase
  <2>3. /\ ma' \in [Sessions -> RequestStates] /\ ma'[g].phase = "selected"
        /\ \A h \in Sessions : /\ ma'[h].owner = ma[h].owner /\ ma'[h].player = ma[h].player
                               /\ ma'[h].begun = ma[h].begun
                               /\ h # g => ma'[h].phase \in {ma[h].phase, "closing"}
                               /\ ma[h].phase = "free" => ma'[h].phase = "free"
    BY <1>3, <2>2 DEF PhaseIs
  <2> QED
    BY <1>2, <1>3, <2>1, <2>3, RequestAdvances
<1>4. CASE Selects(g)
  <2>1. CASE /\ ~allowSwitch /\ ma[g].owner # Home
             /\ ma' = [ma EXCEPT ![g].phase = "closing"]
             /\ plays' \in {plays, Append(plays, Home)}
             /\ UNCHANGED <<playback, history>>
    <3>1. PhaseIs(g, "closing") /\ ma[g].phase = "chosen" /\ UNCHANGED stream
      BY <1>4, <2>1, MovingPhase DEF Selects
    <3>2. ~OnItsWay(g)
      BY <2>1, <3>1 DEF OnItsWay, Admissible
    <3> QED
      BY <1>2, <2>1, <3>1, <3>2, RequestEnds
  <2>2. CASE /\ allowSwitch \/ ma[g].owner = Home
             /\ UNCHANGED plays
             /\ \/ Claims(g) /\ ma' = [ma EXCEPT ![g].phase = "selected"]
                \/ /\ \E others \in {TornDown(playback.consumer, g), ma} :
                        ma' = [others EXCEPT ![g].phase = "selecting"]
                   /\ UNCHANGED <<playback, history>>
    <3>1. ma[g].phase = "chosen" /\ UNCHANGED stream
      BY <1>4 DEF Selects
    <3>2. Admissible(ma[g].owner)
      <4>1. ma[g].owner \in Owners
        BY <1>1, <3>1 DEF Types, Attended, RequestStates
      <4> QED
        BY <2>2, <4>1 DEF Admissible
    <3>3. ASSUME NEW others \in {TornDown(playback.consumer, g), ma},
                 ma' = [others EXCEPT ![g].phase = "selecting"], UNCHANGED <<playback, history>>
          PROVE  PInv'
      <4>1. /\ others \in [Sessions -> RequestStates]
            /\ \A h \in Sessions :
                 /\ others[h].owner = ma[h].owner /\ others[h].player = ma[h].player
                 /\ others[h].begun = ma[h].begun
                 /\ \/ others[h].phase = ma[h].phase
                    \/ others[h].phase = "closing" /\ ma[h].phase # "free"
        <5>1. CASE others = ma
          BY <1>1, <5>1
        <5>2. CASE others = TornDown(playback.consumer, g)
          BY <1>1, <5>2, TornDownAre
        <5> QED
          BY <3>3, <5>1, <5>2
      <4>2. PICK r : r = [others[g] EXCEPT !.phase = "selecting"]
        OBVIOUS
      <4>3. /\ r \in RequestStates /\ r.phase = "selecting" /\ r.owner = others[g].owner
            /\ r.player = others[g].player /\ r.begun = others[g].begun
        BY <4>1, <4>2 DEF RequestStates
      <4>4. ma' = [others EXCEPT ![g] = r]
        BY <3>3, <4>2
      <4>5. /\ ma' \in [Sessions -> RequestStates] /\ ma'[g].phase = "selecting"
            /\ \A h \in Sessions : /\ ma'[h].owner = ma[h].owner
                                   /\ ma'[h].player = ma[h].player
                                   /\ ma'[h].begun = ma[h].begun
                                   /\ h # g => ma'[h].phase \in {ma[h].phase, "closing"}
                                   /\ ma[h].phase = "free" => ma'[h].phase = "free"
        BY <3>1, <4>1, <4>3, <4>4
      <4> QED
        BY <1>2, <2>2, <3>1, <3>2, <3>3, <4>5, RequestAdvances
    <3> QED
      BY <1>3, <2>2, <3>1, <3>2, <3>3
  <2> QED
    BY <1>4, <2>1, <2>2 DEF Selects
<1>5. CASE Selected(g)
  BY <1>3, <1>5 DEF Selected, PInv, Named
<1>6. CASE Finishes(g)
  <2>1. /\ ma[g].phase = "selected" /\ ma[g].begun /\ ~Live(g)
        /\ ma' = [ma EXCEPT ![g].phase = "closing"]
        /\ UNCHANGED <<playback, plays, stream, history>>
    BY <1>6 DEF Finishes, Act, Unhindered
  <2>2. PhaseIs(g, "closing")
    BY <2>1, MovingPhase
  <2>3. ~OnItsWay(g)
    BY <2>1 DEF OnItsWay
  <2> QED
    BY <1>2, <2>1, <2>2, <2>3, RequestEnds
<1>7. CASE Closes(g)
  <2>1. /\ ma[g].phase \in {"closing", "closed"} /\ Live(g) /\ Exits(g, playback, stream)
        /\ UNCHANGED <<plays, ma, history>>
    BY <1>7 DEF Closes
  <2>2. Advances(g)
    BY <1>1, <2>1, Ending
  <2>3. /\ playback'.consumer = playback.consumer /\ playback'.paused = playback.paused
        /\ playback'.stop = playback.stop /\ stream'[g].pc = "none"
    BY <1>1, <2>1, Exiting, ExitsSustain DEF Silent
  <2>4. Sustains(g)
    BY <2>1, <2>3 DEF Sustains
  <2> QED
    BY <1>2, <2>1, <2>2, <2>4, AdvancesKeepPInv
<1>8. CASE Unselects(g)
  <2>1. /\ ma[g].phase = "closing" /\ playback' = Release(playback, ma[g].owner, g)
        /\ ma' = [ma EXCEPT ![g].phase = "closed"]
        /\ history' = [history EXCEPT !.current = IF @ = g THEN None ELSE @]
        /\ UNCHANGED <<plays, stream>>
    BY <1>8 DEF Unselects
  <2>2. PhaseIs(g, "closed")
    BY <2>1, MovingPhase
  <2>3. ~OnItsWay(g)
    BY <2>1 DEF OnItsWay
  <2>4. history'.asked = history.asked
    BY <1>1, <2>1 DEF HistoryStates
  <2>5. /\ UNCHANGED playback \/ playback.session = g
        /\ playback'.consumer = playback.consumer /\ playback'.stop = playback.stop
        /\ playback'.paused = playback.paused
    BY <1>1, <2>1 DEF Release, SessionStates
  <2> QED
    BY <1>2, <2>1, <2>2, <2>3, <2>4, <2>5, RequestEnds
<1> QED
  BY <1>4, <1>5, <1>6, <1>7, <1>8 DEF MusicAssistant

\* A frame that restarts the stream or not leaves its consumer.
LEMMA TracksSustain ==
  ASSUME NEW p \in SessionStates, NEW f \in Frames, NEW reselect \in BOOLEAN, NEW s,
         TracksOn(p, f, reselect, s)
  PROVE  playback'.consumer = p.consumer /\ playback'.paused = p.paused
<1>1. PICK i : i = Cursor(p, f)
  OBVIOUS
<1>2. i \in Position
  BY <1>1 DEF Cursor, Frames, SessionStates
<1>3. PICK q : q = [p EXCEPT !.cursor = i]
  OBVIOUS
<1>4. PICK r : r = [q EXCEPT !.cursor = f.item]
  OBVIOUS
<1>5. /\ q \in SessionStates /\ r \in SessionStates
      /\ q.consumer = p.consumer /\ q.paused = p.paused
      /\ r.consumer = p.consumer /\ r.paused = p.paused
  BY <1>2, <1>3, <1>4 DEF SessionStates, Frames
<1>6. \/ playback' = q
      \/ \E reason : playback' = RequestRestart(q, reason)
      \/ \E reason : playback' = RequestRestart(r, reason)
  BY <1>1, <1>3, <1>4 DEF TracksOn
<1> QED
  BY <1>5, <1>6 DEF RequestRestart, SessionStates

\* What the callback does about a frame: nothing, or it plays or goes on playing for a
\* consumer, or it forgets the consumer.
Reply(f) ==
    \/ /\ UNCHANGED <<playback, plays, ma>> /\ handler'.pc \in {"idle", "muting"}
       /\ settle \/ ~f.ours
    \/ /\ f.ours /\ UNCHANGED ma
       /\ playback'.consumer = Target /\ playback'.stop = None /\ ~playback'.paused
       /\ playback'.owner = playback.owner /\ playback'.session = playback.session
       /\ \/ handler'.pc = "formatting" /\ handler'.target = Target /\ UNCHANGED plays
          \/ handler'.pc = "idle" /\ plays' = Append(plays, Target)
          \/ /\ handler'.pc = "idle" /\ UNCHANGED plays
             /\ playback.consumer # None /\ playback.stop = None
    \/ /\ ~f.ours /\ playback'.consumer = None /\ ~playback'.paused
       /\ handler'.pc = "idle" /\ UNCHANGED plays /\ Cleared

\* The reply to a frame that pauses nothing.
LEMMA Replying ==
  ASSUME Types, PInv, NEW f \in Frames, f.ours => ~f.paused,
         NEW s \in [Sessions -> StreamStates], Handle(f, s)
  PROVE  Reply(f)
<1>1. playback \in SessionStates /\ ~playback.paused
  BY DEF Types, PInv, Plain
<1>2. Resting.pc = "idle"
  BY DEF Resting
<1>3. CASE settle
  BY <1>2, <1>3 DEF Handle, Reply
<1>4. CASE ~settle /\ f.ours /\ Activate(f, Woken(s))
  <2>1. PICK c : c = [playback EXCEPT !.consumer = Target]
    OBVIOUS
  <2>2. PICK p : p = Resume(c)
    OBVIOUS
  <2>3. PICK reselect : reselect = NeedsReselect(playback)
    OBVIOUS
  <2>4. Target \in Players
    BY <1>1 DEF Target, SessionStates, Players
  <2>5. c \in SessionStates /\ c.consumer = Target
        /\ c.owner = playback.owner /\ c.session = playback.session
    BY <1>1, <2>1, <2>4 DEF SessionStates
  <2>6. p \in SessionStates
    BY <2>2, <2>5, Methods
  <2>7. /\ p.consumer = Target /\ p.stop = None /\ ~p.paused
        /\ p.owner = playback.owner /\ p.session = playback.session
    BY <2>2, <2>5 DEF Resume, SessionStates
  <2>8. reselect \in BOOLEAN /\ (~reselect => playback.stop = None)
    BY <1>1, <2>3 DEF NeedsReselect, SessionStates
  <2>9. playback.consumer = Target => playback.consumer # None
    BY <2>4, Distinct
  <2>10. UNCHANGED ma
    BY <1>4 DEF Activate
  <2>11. ASSUME TracksOn(p, f, reselect, Woken(s))
         PROVE  /\ playback'.consumer = Target /\ playback'.stop = None /\ ~playback'.paused
                /\ playback'.owner = playback.owner /\ playback'.session = playback.session
    <3>1. Woken(s) \in [Sessions -> StreamStates]
      BY WokenAre
    <3>2. /\ playback'.owner = p.owner /\ playback'.session = p.session
          /\ playback'.stop = p.stop
      BY <2>6, <2>8, <2>11, <3>1, Tracking
    <3>3. playback'.consumer = p.consumer /\ playback'.paused = p.paused
      BY <2>6, <2>8, <2>11, TracksSustain
    <3> QED
      BY <2>7, <3>2, <3>3
  <2>12. CASE /\ handler' = [pc |-> "formatting", frame |-> f, target |-> Target,
                             reselect |-> reselect]
              /\ playback' = p /\ UNCHANGED plays
    BY <1>4, <2>7, <2>10, <2>12 DEF Reply
  <2>13. CASE /\ handler' = Resting /\ plays' = Append(plays, Target)
              /\ TracksOn(p, f, reselect, Woken(s))
    BY <1>2, <1>4, <2>10, <2>11, <2>13 DEF Reply
  <2>14. CASE /\ playback.consumer = Target /\ ~reselect
              /\ handler' = Resting /\ UNCHANGED plays /\ TracksOn(p, f, reselect, Woken(s))
    BY <1>2, <1>4, <2>8, <2>9, <2>10, <2>11, <2>14 DEF Reply
  <2> QED
    BY <1>4, <2>1, <2>2, <2>3, <2>12, <2>13, <2>14 DEF Activate
<1>5. CASE ~settle /\ ~f.ours /\ Clear(f, Woken(s))
  <2>1. handler'.pc = "idle" /\ UNCHANGED plays
    BY <1>2, <1>5 DEF Clear
  <2>2. CASE playback.owner = None
    BY <1>5, <2>1, <2>2 DEF Clear, Reply
  <2>3. CASE playback.owner # None
    <3>1. playback' = Reset(playback)
      BY <1>5, <2>3 DEF Clear
    <3>2. playback'.consumer = None /\ ~playback'.paused
      BY <1>1, <3>1 DEF Reset, SessionStates
    <3>3. Cleared
      <4>1. Woken(s) \in [Sessions -> StreamStates]
        BY WokenAre
      <4> QED
        BY <1>5, <2>3, <4>1, Clearing DEF Outcome
    <3> QED
      BY <1>5, <2>1, <3>2, <3>3 DEF Reply
  <2> QED
    BY <2>2, <2>3
<1> QED
  BY <1>3, <1>4, <1>5 DEF Handle

\* PInv through whatever the callback replies to a frame.
LEMMA ReplyKeepsPInv ==
  ASSUME Types, Types', AInv, PInv, NEW f \in Frames, Reply(f),
         handler.pc \in {"idle", "muting"}, ~ynison'.paused,
         \A g \in Sessions : Alike(stream[g], stream'[g]),
         history'.asked => ynison'.ours /\ f.ours /\ (settle => history.asked),
         UNCHANGED <<allowSwitch, linked>>
  PROVE  PInv'
<1>1. Admissible(Target)
  BY DEF PInv, Named, Target, Admissible, Owners
<1>2. \A h \in Sessions : (Live(h)' <=> Live(h)) /\ stream'[h].token = stream[h].token
  BY DEF Alike, Live
<1>3. CASE /\ UNCHANGED <<playback, plays, ma>> /\ handler'.pc \in {"idle", "muting"}
           /\ settle \/ ~f.ours
  <2>1. Plain'
    BY <1>3 DEF PInv, Plain, Alike
  <2>2. Named'
    BY <1>3 DEF PInv, Named, Admissible
  <2>3. \A h \in Sessions : OnItsWay(h) => OnItsWay(h)'
    BY <1>2, <1>3 DEF OnItsWay, Admissible
  <2>4. Engaged'
    BY <1>3, <2>3 DEF PInv, Engaged, Coming
  <2>5. Standing'
    BY <1>3 DEF PInv, Standing
  <2> QED
    BY <2>1, <2>2, <2>4, <2>5 DEF PInv
<1>4. CASE /\ f.ours /\ UNCHANGED ma
           /\ playback'.consumer = Target /\ playback'.stop = None /\ ~playback'.paused
           /\ playback'.owner = playback.owner /\ playback'.session = playback.session
           /\ \/ handler'.pc = "formatting" /\ handler'.target = Target /\ UNCHANGED plays
              \/ handler'.pc = "idle" /\ plays' = Append(plays, Target)
              \/ /\ handler'.pc = "idle" /\ UNCHANGED plays
                 /\ playback.consumer # None /\ playback.stop = None
  <2>1. Plain'
    BY <1>4 DEF PInv, Plain, Alike
  <2>2. \A i \in DOMAIN plays' : Admissible(plays[i])'
    <3>1. CASE UNCHANGED plays
      BY <3>1 DEF PInv, Named, Admissible
    <3>2. CASE plays' = Append(plays, Target)
      BY <1>1, <3>2, PlayingMore
    <3> QED
      BY <1>4, <3>1, <3>2
  <2>3. /\ Admissible(playback.consumer)'
        /\ handler'.pc = "formatting" => Admissible(handler.target)'
    BY <1>1, <1>4 DEF Admissible
  <2>4. Named'
    BY <1>4, <2>2, <2>3 DEF PInv, Named, Admissible
  <2>5. Engaged'
    <3>1. CASE handler'.pc = "formatting"
      BY <3>1 DEF Engaged, Coming
    <3>2. CASE plays' = Append(plays, Target)
      BY <1>1, <3>2, PlayingMore DEF Engaged, Coming
    <3>3. CASE UNCHANGED plays /\ playback.consumer # None /\ playback.stop = None
      <4>1. \A h \in Sessions : OnItsWay(h) => OnItsWay(h)'
        BY <1>2, <1>4 DEF OnItsWay, Admissible, Lost
      <4> QED
        BY <3>3, <4>1 DEF PInv, Engaged, Coming
    <3> QED
      BY <1>4, <3>1, <3>2, <3>3
  <2>6. Standing'
    BY <1>1, <1>4, Distinct DEF Standing, Admissible
  <2> QED
    BY <2>1, <2>4, <2>5, <2>6 DEF PInv
<1>5. CASE /\ ~f.ours /\ playback'.consumer = None /\ ~playback'.paused
           /\ handler'.pc = "idle" /\ UNCHANGED plays /\ Cleared
  <2>1. Plain'
    BY <1>5 DEF PInv, Plain, Alike
  <2>2. \A h \in Sessions :
          /\ ma'[h].phase # "free" => ma'[h].player = ma'[h].owner
          /\ ma'[h].phase \in {"selecting", "selected"} => Admissible(ma[h].owner)'
    BY <1>5 DEF PInv, Named, Admissible, Cleared
  <2>3. Named'
    BY <1>5, <2>2 DEF PInv, Named, Admissible
  <2>4. Engaged' /\ Standing'
    BY <1>5 DEF Engaged, Standing
  <2> QED
    BY <2>1, <2>3, <2>4 DEF PInv
<1> QED
  BY <1>3, <1>4, <1>5 DEF Reply

\* PInv through the arrival of a frame.
LEMMA FramePInv ==
  ASSUME Types, Types', AInv, PInv, NEW f \in Frames, ~f.paused, Arrives(f),
         UNCHANGED <<allowSwitch, linked>>
  PROVE  PInv'
<1>1. /\ handler.pc = "idle"
      /\ ynison' = [item |-> f.item, paused |-> f.paused, ours |-> f.ours]
      /\ \A g \in Sessions : Alike(stream[g], stream'[g])
  BY Arriving DEF Arrives
<1>2. history \in HistoryStates /\ ~ynison'.paused /\ ynison'.ours = f.ours
  BY <1>1 DEF Types
<1>3. Reply(f) /\ (history'.asked => f.ours /\ (settle => history.asked))
  <2>1. CASE /\ ynison.ours /\ ~f.ours /\ UNCHANGED <<playback, plays, ma>>
             /\ handler' = [Resting EXCEPT !.pc = "muting", !.frame = f]
             /\ history' = GivesUp
    <3>1. handler'.pc = "muting" /\ ~history'.asked
      BY <1>2, <2>1 DEF Resting, GivesUp, HistoryStates
    <3> QED
      BY <2>1, <3>1 DEF Reply
  <2>2. CASE /\ Handle(f, Informed(f))
             /\ history' = [Handled(f) EXCEPT
                  !.asked = \/ ~settle /\ ~(ynison.ours /\ ~ynison.paused) /\ f.ours /\ ~f.paused
                            \/ @ /\ f.ours /\ ~f.paused]
    <3>1. Reply(f)
      BY <2>2, Informing, Replying
    <3>2. PICK h : h = Handled(f)
      OBVIOUS
    <3>3. h \in HistoryStates /\ h.asked = history.asked
      BY <3>2 DEF Handled, HistoryStates, Types
    <3>4. history'.asked => f.ours /\ (settle => history.asked)
      BY <2>2, <3>2, <3>3 DEF HistoryStates
    <3> QED
      BY <3>1, <3>4
  <2> QED
    BY <2>1, <2>2 DEF Arrives
<1> QED
  BY <1>1, <1>2, <1>3, ReplyKeepsPInv

\* PInv through the rest of the state callback.
LEMMA CallbackPInv ==
  ASSUME Types, Types', AInv, PInv, Callback, UNCHANGED <<allowSwitch, linked>>
  PROVE  PInv'
<1>1. /\ playback \in SessionStates /\ stream \in [Sessions -> StreamStates]
      /\ history \in HistoryStates /\ handler \in HandlerStates
  BY DEF Types
<1>2. ~PlayerStops /\ ~Paused
  BY DEF PInv, Plain, PlayerStops, Paused
<1>3. CASE Muted
  <2>1. PICK f \in Frames : f = handler.frame
    BY <1>3 DEF Muted, Types, Pending
  <2>2. /\ Handle(f, stream) /\ history' = Handled(f) /\ UNCHANGED <<ynison, settle>>
        /\ handler.pc = "muting"
    BY <1>3, <2>1 DEF Muted, outside, conditions
  <2>3. ~ynison.ours /\ ~f.ours
    BY <2>1, <2>2 DEF AInv, Handling
  <2>4. \A g \in Sessions : Alike(stream[g], stream'[g])
    BY <1>1, <2>2, HandlingAFrame
  <2>5. history'.asked = history.asked
    BY <1>1, <2>2 DEF Handled, HistoryStates
  <2>6. ~history.asked
    BY <2>3 DEF PInv, Standing
  <2>7. Reply(f)
    BY <1>1, <2>2, <2>3, Replying
  <2> QED
    BY <2>2, <2>4, <2>5, <2>6, <2>7, ReplyKeepsPInv DEF PInv, Plain
<1>4. CASE Formatted
  <2>1. PICK f \in Frames : f = handler.frame
    BY <1>4 DEF Formatted, Types, Pending
  <2>2. /\ TracksOn(playback, f, handler.reselect, stream) /\ handler' = Resting
        /\ plays' = Append(plays, handler.target) /\ handler.pc = "formatting"
        /\ UNCHANGED <<ynison, ma, history>>
    BY <1>4, <2>1 DEF Formatted, outside, conditions
  <2>3. handler.reselect \in BOOLEAN /\ Admissible(handler.target)
    BY <1>1, <2>2 DEF HandlerStates, PInv, Named
  <2>4. /\ \A g \in Sessions : Alike(stream[g], stream'[g])
        /\ playback'.stop = playback.stop
    BY <1>1, <2>2, <2>3, Tracking
  <2>5. playback'.consumer = playback.consumer /\ playback'.paused = playback.paused
    BY <1>1, <2>2, <2>3, TracksSustain
  <2>6. plays' # <<>> /\ \A i \in DOMAIN plays' : Admissible(plays[i])'
    BY <2>2, <2>3, PlayingMore
  <2>7. handler'.pc = "idle"
    BY <2>2 DEF Resting
  <2>8. Plain'
    BY <2>2, <2>4, <2>5, <2>7 DEF PInv, Plain, Alike
  <2>9. Named'
    BY <2>2, <2>5, <2>6, <2>7 DEF PInv, Named, Admissible
  <2>10. Engaged' /\ Standing'
    BY <2>2, <2>4, <2>5, <2>6 DEF PInv, Engaged, Coming, Standing
  <2> QED
    BY <2>8, <2>9, <2>10 DEF PInv
<1> QED
  BY <1>2, <1>3, <1>4 DEF Callback

\* PInv through a request for the source, by play_media or by hand: whoever may have the
\* source is on its way, and whoever may not disturbs nobody who may.
LEMMA ChoosesPInv ==
  ASSUME Types, AInv, PInv, Unhindered, NEW owner \in Owners, Chooses(owner),
         UNCHANGED <<playback, ynison, handler, stream, history, allowSwitch, linked>>,
         UNCHANGED plays \/ Admissible(owner),
         \A i \in DOMAIN plays' : Admissible(plays[i])'
  PROVE  PInv'
<1>1. PICK g \in Sessions :
        /\ Unclaimed(g)
        /\ ma' = [TornDown(owner, g) EXCEPT
                    ![g] = [phase |-> "chosen", owner |-> owner, player |-> owner,
                            begun |-> FALSE]]
  BY DEF Chooses, Unhindered
<1>2. PICK r : r = [phase |-> "chosen", owner |-> owner, player |-> owner, begun |-> FALSE]
  OBVIOUS
<1>3. PICK T : T = TornDown(owner, g)
  OBVIOUS
<1>4. /\ T \in [Sessions -> RequestStates]
      /\ \A h \in Sessions :
           /\ T[h].owner = ma[h].owner /\ T[h].player = ma[h].player /\ T[h].begun = ma[h].begun
           /\ T[h].phase = ma[h].phase \/ (T[h].phase = "closing" /\ ma[h].phase # "free")
  BY <1>3, TornDownAre DEF Types
<1>5. ma' = [T EXCEPT ![g] = r]
  BY <1>1, <1>2, <1>3
<1>6. ma'[g] = r /\ \A h \in Sessions \ {g} : ma'[h] = T[h]
  BY <1>4, <1>5
<1>7. /\ r.phase = "chosen" /\ r.owner = owner /\ r.player = owner
  BY <1>2
<1>8. Plain'
  BY DEF PInv, Plain
<1>9. \A h \in Sessions : /\ ma'[h].phase # "free" => ma'[h].player = ma'[h].owner
                          /\ ma'[h].phase \in {"selecting", "selected"} => Admissible(ma[h].owner)'
  BY <1>4, <1>6, <1>7 DEF PInv, Named, Admissible
<1>10. Named'
  BY <1>9 DEF PInv, Named, Admissible
<1>11. ASSUME Admissible(owner)
       PROVE  Engaged'
  <2>1. OnItsWay(g)'
    BY <1>6, <1>7, <1>11 DEF OnItsWay, Admissible
  <2> QED
    BY <2>1 DEF Engaged, Coming
<1>12. ASSUME ~Admissible(owner)
       PROVE  Engaged'
  <2>1. UNCHANGED plays
    BY <1>12
  <2>2. ASSUME NEW h \in Sessions, OnItsWay(h)
        PROVE  OnItsWay(h)'
    <3>1. h # g
      BY <1>1, <2>2 DEF OnItsWay, Unclaimed
    <3>2. Admissible(ma[h].owner) /\ ma[h].player = ma[h].owner
      BY <2>2 DEF PInv, Named, OnItsWay
    <3>3. owner \notin {ma[h].owner, ma[h].player}
      BY <1>12, <3>2
    <3>4. T[h] = ma[h]
      BY <1>3, <3>3 DEF TornDown
    <3>5. ma'[h] = ma[h]
      BY <1>6, <3>1, <3>4
    <3> QED
      BY <2>2, <3>5 DEF OnItsWay, Admissible, Live
  <2> QED
    BY <2>1, <2>2 DEF PInv, Engaged, Coming
<1>13. Standing'
  BY DEF PInv, Standing
<1> QED
  BY <1>8, <1>10, <1>11, <1>12, <1>13 DEF PInv

\* PInv through what a listener or another device does.
LEMMA OthersPInv ==
  ASSUME Types, Types', AInv, PInv, Unhindered, Others, UNCHANGED <<allowSwitch, linked>>
  PROVE  PInv'
<1>1. playback \in SessionStates /\ stream \in [Sessions -> StreamStates] /\ plays \in Seq(Players)
  BY DEF Types
<1>2. CASE PlayMedia
  <2>1. /\ plays # <<>> /\ plays' = Tail(plays)
        /\ UNCHANGED <<playback, ynison, handler, stream, history>>
    BY <1>2 DEF PlayMedia
  <2>2. PICK n \in Nat : Len(plays) = n + 1
    BY <1>1, <2>1
  <2>3. /\ Head(plays) = plays[1] /\ DOMAIN plays = 1..(n + 1) /\ DOMAIN plays' = 1..n
        /\ \A i \in 1..n : plays'[i] = plays[i + 1]
    BY <1>1, <2>1, <2>2
  <2>4. Admissible(Head(plays))
    BY <2>3 DEF PInv, Named
  <2>5. ASSUME NEW i \in DOMAIN plays'
        PROVE  Admissible(plays[i])'
    <3>1. i + 1 \in DOMAIN plays /\ plays'[i] = plays[i + 1]
      BY <2>3, <2>5
    <3> QED
      BY <3>1 DEF PInv, Named, Admissible
  <2>6. Head(plays) \in Owners /\ Chooses(Head(plays))
    BY <1>2, <2>4 DEF PlayMedia, Admissible
  <2> QED
    BY <2>1, <2>4, <2>5, <2>6, ChoosesPInv
<1>3. CASE UserSelects
  <2>1. \A i \in DOMAIN plays' : Admissible(plays[i])'
    BY <1>3 DEF UserSelects, PInv, Named, Admissible
  <2> QED
    BY <1>3, <2>1, ChoosesPInv DEF UserSelects
<1>4. CASE OwnSeek
  <2>1. UNCHANGED <<ynison, handler, plays, ma, history>> /\ stream' = Woken(stream)
    BY <1>4 DEF OwnSeek
  <2>2. /\ playback'.owner = playback.owner /\ playback'.session = playback.session
        /\ playback'.stop = playback.stop /\ playback'.consumer = playback.consumer
        /\ playback'.paused = playback.paused
    BY <1>1, <1>4 DEF OwnSeek, RequestRestart, SessionStates
  <2>3. \A g \in Sessions : Alike(stream[g], stream'[g])
    BY <1>1, <2>1, WokenAre
  <2>4. \A h \in Sessions : OnItsWay(h) => OnItsWay(h)'
    BY <2>1, <2>2, <2>3 DEF OnItsWay, Admissible, Lost, Alike, Live
  <2>5. Plain' /\ Named'
    BY <2>1, <2>2, <2>3 DEF PInv, Plain, Named, Admissible, Alike
  <2>6. Engaged' /\ Standing'
    BY <2>1, <2>2, <2>4 DEF PInv, Engaged, Coming, Standing
  <2> QED
    BY <2>5, <2>6 DEF PInv
<1>5. CASE SettleBegins \/ SettleEnds \/ LinkChanges
  <2>1. UNCHANGED <<playback, ynison, handler, plays, stream, ma, history>>
    BY <1>5 DEF SettleBegins, SettleEnds, LinkChanges
  <2> QED
    BY <2>1 DEF PInv, Plain, Named, Engaged, Coming, OnItsWay, Standing, Admissible, Live
<1>6. CASE Heartbeat \/ ItemMoves \/ ItemKept \/ PeerSeeks \/ PausesOrResumes \/ DeviceChanges
             \/ QueueEmpties
  <2>1. PICK f \in Frames : Arrives(f) /\ (f.paused = ynison.paused \/ "pause" \in Acts)
    BY <1>6, FramesArrive
  <2>2. ~f.paused
    BY <2>1 DEF PInv, Plain, Unhindered
  <2> QED
    BY <2>1, <2>2, FramePInv
<1> QED
  BY <1>2, <1>3, <1>4, <1>5, <1>6 DEF Others

\* PInv through every step.
LEMMA NextPInv ==
  ASSUME Types, Types', AInv, AInv', PInv, Unhindered, [Next]_vars
  PROVE  PInv'
<1>1. UNCHANGED <<allowSwitch, linked>>
  BY Configured
<1>2. CASE UNCHANGED vars
  BY <1>2 DEF vars, conditions, PInv, Plain, Named, Engaged, Coming, OnItsWay, Standing,
              Admissible, Live
<1>3. CASE Next
  BY <1>1, <1>3, GeneratorPInv, MusicAssistantPInv, CallbackPInv, OthersPInv DEF Next
<1> QED
  BY <1>2, <1>3

\* When Ynison asked to play here and nothing ended that since, a stream plays or is on its
\* way (PlaysWhenAsked): whatever is torn down, superseded, refused or restarted meanwhile,
\* and in whatever order, unless somebody does what the code forgets a request for.
THEOREM PlaysOnRequest ==
  ASSUME Acts \intersect {"pause", "stop", "slot", "unlink", "preload", "bridge"} = {}
  PROVE  Spec => []PlaysWhenAsked
<1>1. Unhindered /\ "preload" \notin Acts
  BY DEF Unhindered
<1>2. Init => PInv
  <2> SUFFICES ASSUME Init PROVE PInv
    OBVIOUS
  <2>1. /\ playback.consumer = None /\ ~playback.paused /\ ~ynison.paused /\ linked
        /\ handler.pc = "idle" /\ plays = <<>> /\ ~history.asked
        /\ \A g \in Sessions : stream[g].pc = "none" /\ ma[g].phase = "free"
    BY DEF Init, NoSession, Resting, Silent, Free
  <2> QED
    BY <2>1 DEF PInv, Plain, Named, Engaged, Standing
<1>3. Types /\ AInv /\ PInv => PlaysWhenAsked
  <2> SUFFICES ASSUME Types, AInv, PInv, Quiet, history.asked
               PROVE  \E g \in Sessions : Live(g) /\ ~Lost(playback, stream[g].token)
    BY DEF PlaysWhenAsked
  <2>1. PICK g \in Sessions : OnItsWay(g)
    BY DEF PInv, Standing, Engaged, Coming, Quiet
  <2>2. ma[g].phase = "selected" /\ Live(g)
    BY <2>1 DEF Quiet, OnItsWay
  <2> QED
    BY <2>1, <2>2 DEF OnItsWay, Types, Attended
<1>4. Types /\ AInv /\ Types' /\ AInv' /\ PInv /\ [Next]_vars => PInv'
  BY <1>1, NextPInv
<1>5. Spec => [](Types /\ AInv)
  BY <1>1, Invariance
<1> QED
  BY <1>2, <1>3, <1>4, <1>5, PTL DEF Spec
=============================================================================
