----------------------------- MODULE AudioStream -----------------------------
(***************************************************************************)
(* How the provider plays what Ynison says (provider/provider.py): the     *)
(* state callback of the client, the audio generators (get_audio_stream),  *)
(* and the callbacks of Music Assistant's player and streams controllers,  *)
(* all on one PlaybackSession.  A step is what runs between two awaits; a  *)
(* generator also stops at each yield.                                     *)
(*                                                                         *)
(* Ynison and Music Assistant (MA) are external.  MA gives each request    *)
(* for the source a session, drives one generator for it, and tears it     *)
(* down in two calls that may come late and in any order: it closes the    *)
(* generator, and calls on_source_unselected.  A request for an owner      *)
(* supersedes the one before it.  An assumption on its timing: once a      *)
(* request is selected, its generator starts before another is selected.   *)
(* What the queue does at the end of a track is the subject of             *)
(* QueueNavigation; here it is one of the outcomes that module leaves      *)
(* possible.                                                               *)
(***************************************************************************)
EXTENDS PlaybackSession, Sequences, FiniteSets, Naturals

CONSTANTS
    Sessions,       \* stream session ids, each with its generator
    Home, Other,    \* owners: the configured player and another one
    Bridge,         \* protocol bridge that consumes Home's stream
    Items,          \* occurrences in the queue: [track, at]
    FirstItems,     \* the ones that may be current at first
    Acts,           \* what others may do
    MaxActs         \* bound: how many of them in one behaviour

Owners == {Home, Other}
Players == {Home, Other, Bridge}
Track(item) == IF item = None THEN None ELSE item.track

ASSUME PlayersAssumption == Home # Other /\ Bridge \notin Owners /\ None \notin Players
ASSUME SessionsAssumption ==
    None \notin Sessions /\ None \notin [owner : Owners, session : Sessions \union {None}]
ASSUME ItemsAssumption ==
    FirstItems \subseteq Items /\ \A i \in Items : i # None /\ i.track # None
ASSUME ActsAssumption ==
    /\ Acts \subseteq {"item", "kept", "seek", "pause", "device", "empty", "settle", "select",
                  "stop", "own seek", "unlink", "error", "failed stop", "preload", "bridge",
                  "radio", "next", "slot"}
    /\ MaxActs \in Nat

VARIABLES
    playback,   \* PlaybackSession
    ynison,     \* client.state: item, paused, and whether our device is active
    settle,     \* in_post_reconnect_settle
    handler,    \* _handle_ynison_state: idle, muting, formatting, stopping, stopped
    plays,      \* play_media calls on their way to MA
    linked,     \* whether the linked Yandex Music provider is loaded
    stream,     \* generator of each session: pc, item, token, and news of Ynison since
                \* its track ended
    ma,         \* MA's side of each session: phase, owner, player, begun
    allowSwitch,    \* _allow_player_switch, as configured
    used,       \* counter for the bound
    history     \* history variable, read by the properties alone:
                \*   asked    Ynison asked to play here, and nothing ended that since
                \*   skipped  the last frame fell into the settle window
                \*   current  the session that claimed last, until it is torn down

vars == <<playback, ynison, settle, handler, plays, linked, stream, ma, allowSwitch, used,
          history>>
conditions == <<settle, linked, allowSwitch>>
outside == <<conditions, used>>

Silent == [pc |-> "none", item |-> None, token |-> None, news |-> {}]
Resting == [pc |-> "idle", frame |-> None, target |-> None, reselect |-> FALSE]
Free == [phase |-> "free", owner |-> None, player |-> None, begun |-> FALSE]

\* Another device is active and nothing plays here.
Init ==
    /\ playback = NoSession
    /\ ynison \in [item : FirstItems, paused : {FALSE}, ours : {FALSE}]
    /\ settle = FALSE /\ handler = Resting /\ plays = <<>> /\ linked = TRUE
    /\ stream = [g \in Sessions |-> Silent]
    /\ ma = [g \in Sessions |-> Free]
    /\ allowSwitch \in BOOLEAN /\ used = 0
    /\ history = [asked |-> FALSE, skipped |-> FALSE, current |-> None]

Act(a) == a \in Acts /\ used < MaxActs /\ used' = used + 1

Live(g) == stream[g].pc # "none"

\* Every waiter of the update event, in the given streams, wakes.
Woken(s) ==
    [g \in Sessions |-> IF s[g].pc = "dozing" THEN [s[g] EXCEPT !.pc = "following"] ELSE s[g]]

\* MA tears down the selected sessions of an owner or player, but for one.
TornDown(player, but) ==
    [g \in Sessions |-> IF g # but /\ ma[g].phase \in {"chosen", "selecting", "selected"}
                           /\ player \in {ma[g].owner, ma[g].player}
                        THEN [ma[g] EXCEPT !.phase = "closing"] ELSE ma[g]]

GivesUp == [history EXCEPT !.asked = FALSE]

-----------------------------------------------------------------------------
(* The generator of a session: get_audio_stream                              *)

\* The finally of a generator.
Ended(p, token) == [ReleaseIfCurrent(p, token) EXCEPT !.cursor = None]

Exits(g, p, s) ==
    /\ playback' = Ended(p, s[g].token)
    /\ stream' = [s EXCEPT ![g] = Silent]

\* Faulty variant of GoesOn: a superseded stream plays on.
GoesOnUnlessStopped(p, token) == p.stop = None

GoesOn(p, token) == p.stop = None /\ ~Lost(p, token)

\* The head of the loop, up to the next await, from playback p and streams s.
Loop(g, p, s) ==
    LET q == [ConsumeRestart(p) EXCEPT !.cursor = ynison.item]
    IN \/ /\ ~GoesOn(p, s[g].token)
          /\ Exits(g, p, s)
          /\ UNCHANGED history
       \/ /\ GoesOn(p, s[g].token)
          /\ \/ /\ ynison.item = None
                /\ playback' = ConsumeRestart(p)
                /\ stream' = [s EXCEPT ![g].pc = "waiting"]
                /\ UNCHANGED history
             \/ /\ ynison.item # None /\ ynison.paused
                /\ Exits(g, q, s)
                /\ UNCHANGED history
             \/ /\ ynison.item # None /\ ~ynison.paused /\ ~linked
                /\ playback' = RequestStop(q, "provider_lost")
                /\ stream' = [Woken(s) EXCEPT ![g].pc = "halting"]
                /\ history' = GivesUp
             \/ /\ ynison.item # None /\ ~ynison.paused /\ linked
                /\ playback' = TakeStart(q)
                /\ stream' = [s EXCEPT ![g].pc = "opening", ![g].item = ynison.item,
                                       ![g].news = {}]
                /\ UNCHANGED history

\* The first step of a generator; MA may pass a position of its own.
Begins(g) ==
    /\ ~ma[g].begun
    /\ ma[g].phase = "selected" \/ ("preload" \in Acts /\ ma[g].phase \in {"chosen", "selecting"})
    /\ ma' = [ma EXCEPT ![g].begun = TRUE]
    /\ LET p == BeginStream(playback)
       IN \E q \in {p, SeedStart(p)} :
            Loop(g, q, [stream EXCEPT ![g] = [Silent EXCEPT !.token = Capture(playback)]])
    /\ UNCHANGED <<ynison, handler, plays, outside>>

\* A restart, or thirty seconds without one.
WaitEnds(g) ==
    /\ stream[g].pc = "waiting"
    /\ Loop(g, playback, stream)
    /\ UNCHANGED <<ynison, handler, plays, ma, outside>>

\* Without a linked provider the player is stopped, if the claim still stands.
Halts(g) ==
    /\ stream[g].pc = "halting"
    /\ ma' = IF stream[g].token # None /\ playback.owner = stream[g].token.owner
             THEN TornDown(playback.owner, None) ELSE ma
    /\ Exits(g, playback, stream)
    /\ UNCHANGED <<ynison, handler, plays, outside, history>>

\* Faulty variant of Opens: a wake-up that came meanwhile is acknowledged unread.
OpensAcknowledging(g) ==
    /\ stream[g].pc = "opening" /\ linked
    /\ stream' = [stream EXCEPT ![g].pc = "playing"]
    /\ playback' = ConsumeRestart(playback)
    /\ UNCHANGED <<ynison, handler, plays, ma, outside, history>>

\* _stream_track up to its first chunk.
Opens(g) ==
    /\ stream[g].pc = "opening" /\ linked
    /\ stream' = [stream EXCEPT ![g].pc = "playing"]
    /\ UNCHANGED <<playback, ynison, handler, plays, ma, outside, history>>

StopsTrack(g, reason) ==
    /\ playback' = RequestStop(playback, reason)
    /\ stream' = [Woken(stream) EXCEPT ![g].pc = "ended"]
    /\ history' = GivesUp
    /\ UNCHANGED <<ynison, handler, plays, ma, conditions>>

\* The linked provider goes away while a track is prepared or streamed.
LosesProvider(g) ==
    /\ stream[g].pc \in {"opening", "playing"} /\ ~linked
    /\ StopsTrack(g, "provider_lost")
    /\ UNCHANGED used

\* There are no stream details for the track.
FailsToOpen(g) ==
    /\ stream[g].pc = "opening" /\ Act("error")
    /\ StopsTrack(g, "stream_error")

\* The linked provider has no slot for the track in time: the error leaves the
\* generator, which nobody asked to stop.
NotAdmitted(g) ==
    /\ stream[g].pc = "opening" /\ Act("slot")
    /\ Exits(g, playback, stream)
    /\ UNCHANGED <<ynison, handler, plays, ma, conditions, history>>

\* A track is over: it played to its end, or was interrupted after a chunk.
TrackEnds(g) ==
    /\ stream[g].pc = "playing"
    /\ stream' = [stream EXCEPT ![g].pc = "ended", ![g].news = {}]
    /\ UNCHANGED <<playback, ynison, handler, plays, ma, outside, history>>

Interrupted(g) ==
    \/ playback.restart \/ Lost(playback, stream[g].token) \/ ynison.paused
    \/ Track(ynison.item) # Track(stream[g].item)

\* The track stream is closed.  Its natural end is signalled, or our own Next that
\* left the item before its end is followed.
AfterTrack(g) ==
    /\ stream[g].pc = "ended"
    /\ \/ /\ playback.stop # None
          /\ Exits(g, playback, stream)
          /\ UNCHANGED <<used, history>>
       \/ /\ playback.stop = None /\ Interrupted(g)
          /\ Loop(g, [playback EXCEPT !.cursor = None], stream)
          /\ UNCHANGED used
       \/ /\ playback.stop = None /\ ~Interrupted(g)
          /\ \/ stream' = [stream EXCEPT ![g].pc = "completing", ![g].news = {}]
                /\ UNCHANGED used
             \/ stream' = [stream EXCEPT ![g].pc = "following", ![g].news = {}] /\ Act("next")
          /\ UNCHANGED <<playback, history>>
    /\ UNCHANGED <<ynison, handler, plays, ma, conditions>>

QueueEnds(g) ==
    /\ Exits(g, RequestStop(playback, "queue_end"), Woken(stream))
    /\ history' = GivesUp

Epoch == {"replaced", "device"}
Settling == Epoch \union {"navigated"}

\* _signal_track_completion, until it needs more RADIO items or is over.
Completes(g) ==
    /\ stream[g].pc = "completing"
    /\ \/ /\ stream[g].news # {}        \* superseded
          /\ Loop(g, [playback EXCEPT !.cursor = None], stream)
       \/ /\ stream[g].news = {}        \* change
          /\ stream' = [stream EXCEPT ![g].pc = "following"]
          /\ UNCHANGED <<playback, history>>
       \/ /\ stream[g].news = {}        \* restart
          /\ Loop(g, [RequestRestart(playback, "repeat") EXCEPT !.cursor = None], Woken(stream))
       \/ /\ stream[g].news = {} \/ playback.stop # None     \* stop, failed
          /\ QueueEnds(g)
       \/ /\ "radio" \in Acts /\ stream[g].news \intersect Epoch = {}
          /\ stream' = [stream EXCEPT ![g].pc = "replenishing"]
          /\ UNCHANGED <<playback, history>>
    /\ UNCHANGED <<ynison, handler, plays, ma, outside>>

\* _advance_queue_index refuses the new list when the generation is over by now.
Replenished(g) ==
    /\ stream[g].pc = "replenishing"
    /\ \/ /\ stream[g].news \intersect Epoch # {} \/ playback.stop # None
          /\ QueueEnds(g)
       \/ /\ stream[g].news \intersect Epoch = {} /\ playback.stop = None
          /\ stream' = [stream EXCEPT ![g].pc = "following"]
          /\ UNCHANGED <<playback, history>>
    /\ UNCHANGED <<ynison, handler, plays, ma, outside>>

Followed(g) ==
    \/ ynison.item # None /\ Track(ynison.item) # Track(stream[g].item)
    \/ stream[g].news \intersect Settling # {}

\* _wait_for_track_change: the state is checked before the wait.
Follows(g) ==
    /\ stream[g].pc = "following"
    /\ \/ /\ playback.stop # None
          /\ QueueEnds(g)
       \/ /\ playback.stop = None /\ Followed(g)
          /\ LET other == ynison.item # None /\ Track(ynison.item) # Track(stream[g].item)
                 p == IF other \/ playback.reason # None THEN playback
                      ELSE RequestRestart(playback, "track_change")
             IN Loop(g, [p EXCEPT !.cursor = None], IF p = playback THEN stream ELSE Woken(stream))
       \/ /\ playback.stop = None /\ ~Followed(g)
          /\ stream' = [stream EXCEPT ![g].pc = "dozing"]
          /\ UNCHANGED <<playback, history>>
    /\ UNCHANGED <<ynison, handler, plays, ma, outside>>

\* Thirty seconds since the wait began, however often it was woken.
TimesOut(g) ==
    /\ stream[g].pc = "dozing"
    /\ QueueEnds(g)
    /\ UNCHANGED <<ynison, handler, plays, ma, outside>>

-----------------------------------------------------------------------------
(* The state callback: _handle_ynison_state                                  *)

\* The cursor that _activate_playback compares with: our own trim moved it.
Cursor(p, f) == IF f.kind = "kept" /\ Track(f.item) = Track(p.cursor) THEN f.item ELSE p.cursor

\* The second half of _activate_playback: a frame may restart the stream.
TracksOn(p, f, reselect, s) ==
    LET q == [p EXCEPT !.cursor = Cursor(p, f)]
        moves == f.item # None /\ (f.kind = "navigated" \/ Cursor(p, f) # f.item)
    IN \/ /\ moves
          /\ playback' = RequestRestart([q EXCEPT !.cursor = f.item], "track_change")
          /\ stream' = Woken(s)
       \/ /\ ~moves /\ f.item # None /\ (reselect \/ f.kind = "seek")
          /\ playback' = RequestRestart(q, IF reselect THEN "resume" ELSE "seek")
          /\ stream' = Woken(s)
       \/ /\ ~moves /\ (f.item = None \/ ~(reselect \/ f.kind = "seek"))
          /\ playback' = q
          /\ stream' = s

\* _get_target_player_id
Target == IF playback.consumer = None THEN Home ELSE playback.consumer

\* _activate_playback, up to the format lookup it may await.
Activate(f, s) ==
    LET reselect == NeedsReselect(playback)
        switching == playback.consumer # Target
        p == Resume([playback EXCEPT !.consumer = Target])
    IN /\ IF switching \/ reselect
          THEN IF f.item # None /\ (switching \/ Track(f.item) # Track(playback.cursor))
               THEN /\ handler' = [pc |-> "formatting", frame |-> f, target |-> Target,
                                   reselect |-> reselect]
                    /\ playback' = p /\ stream' = s
                    /\ UNCHANGED plays
               ELSE /\ handler' = Resting
                    /\ plays' = Append(plays, Target)
                    /\ TracksOn(p, f, reselect, s)
          ELSE /\ handler' = Resting
               /\ TracksOn(p, f, reselect, s)
               /\ UNCHANGED plays
       /\ UNCHANGED ma

\* Faulty variant of Pause: the player is stopped, the stream is not told.
PausePlayerOnly(f, s) ==
    /\ handler' = [Resting EXCEPT !.pc = "stopping", !.target = playback.owner]
    /\ stream' = s
    /\ UNCHANGED <<playback, plays, ma>>

\* _pause_playback, up to cmd_stop.
Pause(f, s) ==
    /\ IF playback.owner = None
       THEN /\ handler' = Resting /\ stream' = s
            /\ UNCHANGED playback
       ELSE /\ handler' = [Resting EXCEPT !.pc = "stopping", !.target = playback.owner]
            /\ playback' = RequestStop(playback, "pause")
            /\ stream' = Woken(s)
    /\ UNCHANGED <<plays, ma>>

\* _clear_active_player; the release of the source is handed to MA.
Clear(f, s) ==
    /\ handler' = Resting
    /\ IF playback.owner = None THEN playback' = playback /\ ma' = ma
       ELSE /\ playback' = Reset(playback)
            /\ ma' = [g \in Sessions |->
                        IF g = playback.session /\ ma[g].phase = "selected"
                        THEN [ma[g] EXCEPT !.phase = "closing"] ELSE ma[g]]
    /\ stream' = s
    /\ UNCHANGED plays

Handle(f, s) ==
    IF settle
    THEN /\ handler' = Resting /\ stream' = Woken(s)
         /\ UNCHANGED <<playback, plays, ma>>
    ELSE \/ f.ours /\ ~f.paused /\ Activate(f, Woken(s))
         \/ f.ours /\ f.paused /\ Pause(f, Woken(s))
         \/ ~f.ours /\ Clear(f, Woken(s))

Handled(f) ==
    [history EXCEPT !.skipped = settle,
                    !.current = IF ~settle /\ ~f.ours /\ playback.owner # None THEN None ELSE @]

\* What a stream whose track has ended learns from a frame.
News(f) ==
    (IF f.kind \in {"navigated", "replaced"} THEN {f.kind} ELSE {})
      \union (IF f.kind = "seek" \/ f.paused # ynison.paused THEN {"command"} ELSE {})
      \union (IF f.ours # ynison.ours THEN {"device"} ELSE {})

Informed(f) ==
    [g \in Sessions |->
        IF stream[g].pc \in {"completing", "replenishing", "following", "dozing"}
        THEN [stream[g] EXCEPT !.news = @ \union News(f)] ELSE stream[g]]

\* _dispatch_state: a frame is parsed and handed to the callback, at once unless our
\* device became passive (the client then sends its session parameters first).
Arrives(f) ==
    /\ handler.pc = "idle"
    /\ ynison' = [item |-> f.item, paused |-> f.paused, ours |-> f.ours]
    /\ IF ynison.ours /\ ~f.ours
       THEN /\ handler' = [Resting EXCEPT !.pc = "muting", !.frame = f]
            /\ stream' = Informed(f)
            /\ history' = GivesUp
            /\ UNCHANGED <<playback, plays, ma>>
       ELSE /\ Handle(f, Informed(f))
            /\ history' = [Handled(f) EXCEPT
                 !.asked = \/ ~settle /\ ~(ynison.ours /\ ~ynison.paused) /\ f.ours /\ ~f.paused
                           \/ @ /\ f.ours /\ ~f.paused]
    /\ UNCHANGED conditions

Muted ==
    /\ handler.pc = "muting"
    /\ Handle(handler.frame, stream)
    /\ history' = Handled(handler.frame)
    /\ UNCHANGED <<ynison, outside>>

Formatted ==
    /\ handler.pc = "formatting"
    /\ plays' = Append(plays, handler.target)
    /\ TracksOn(playback, handler.frame, handler.reselect, stream)
    /\ handler' = Resting
    /\ UNCHANGED <<ynison, ma, outside, history>>

\* cmd_stop is carried out, or fails.
PlayerStops ==
    /\ handler.pc = "stopping"
    /\ \/ /\ ma' = TornDown(handler.target, None)
          /\ handler' = [handler EXCEPT !.pc = "stopped"]
          /\ UNCHANGED used
       \/ /\ Act("failed stop")
          /\ handler' = Resting
          /\ UNCHANGED ma
    /\ UNCHANGED <<playback, ynison, conditions, plays, stream, history>>

Paused ==
    /\ handler.pc = "stopped"
    /\ playback' = PauseExternally(playback, handler.target)
    /\ handler' = Resting
    /\ UNCHANGED <<ynison, plays, stream, ma, outside, history>>

-----------------------------------------------------------------------------
(* Callbacks and requests of Music Assistant                                 *)

Unclaimed(g) ==
    /\ ma[g].phase \in {"free", "closed"} /\ ~Live(g)
    /\ playback.session # g
    /\ \A h \in Sessions : stream[h].token # None => stream[h].token.session # g

\* A new request for the source supersedes the one its owner had.
Chooses(owner) ==
    \E g \in Sessions, player \in {owner} \union (IF owner = Home /\ "bridge" \in Acts
                                                  THEN {Bridge} ELSE {}) :
        /\ Unclaimed(g)
        /\ ma' = [TornDown(owner, g) EXCEPT
                    ![g] = [phase |-> "chosen", owner |-> owner, player |-> player,
                            begun |-> FALSE]]

\* play_media runs; a protocol bridge has no queue to play on.
PlayMedia ==
    /\ plays # <<>>
    /\ plays' = Tail(plays)
    /\ IF Head(plays) \in Owners THEN Chooses(Head(plays)) ELSE UNCHANGED ma
    /\ UNCHANGED <<playback, ynison, handler, stream, outside, history>>

\* The user selects the source, or a player opens its stream again.
UserSelects ==
    /\ Act("select")
    /\ \E owner \in Owners : Chooses(owner)
    /\ UNCHANGED <<playback, ynison, conditions, handler, plays, stream, history>>

Claims(g) ==
    /\ \A h \in Sessions : ma[h].phase = "selected" => ma[h].begun
    /\ playback' = Claim(playback, ma[g].owner, ma[g].player, g)
    /\ history' = [history EXCEPT !.current = g]

\* on_source_selected: refused, or the previous consumer is stopped first, or claimed.
Selects(g) ==
    /\ ma[g].phase = "chosen"
    /\ \/ /\ ~allowSwitch /\ ma[g].owner # Home
          /\ ma' = [ma EXCEPT ![g].phase = "closing"]
          /\ plays' \in {plays, Append(plays, Home)}     \* once per idempotency window
          /\ UNCHANGED <<playback, history>>
       \/ /\ allowSwitch \/ ma[g].owner = Home
          /\ UNCHANGED plays
          /\ IF playback.consumer \in {None, ma[g].player, ma[g].owner}
             THEN /\ Claims(g)
                  /\ ma' = [ma EXCEPT ![g].phase = "selected"]
             ELSE /\ \E others \in {TornDown(playback.consumer, g), ma} :
                       ma' = [others EXCEPT ![g].phase = "selecting"]
                  /\ UNCHANGED <<playback, history>>
    /\ UNCHANGED <<ynison, handler, stream, outside>>

Selected(g) ==
    /\ ma[g].phase = "selecting"
    /\ Claims(g)
    /\ ma' = [ma EXCEPT ![g].phase = "selected"]
    /\ UNCHANGED <<ynison, handler, plays, stream, outside>>

\* MA notices the end of a generator, or the user stops the player.
Finishes(g) ==
    /\ ma[g].phase = "selected"
    /\ \/ /\ ma[g].begun /\ ~Live(g)
          /\ UNCHANGED <<used, history>>
       \/ /\ Act("stop")
          /\ history' = GivesUp
    /\ ma' = [ma EXCEPT ![g].phase = "closing"]
    /\ UNCHANGED <<playback, ynison, conditions, handler, plays, stream>>

\* The generator is closed, wherever it waits.
Closes(g) ==
    /\ ma[g].phase \in {"closing", "closed"} /\ Live(g)
    /\ Exits(g, playback, stream)
    /\ UNCHANGED <<ynison, handler, plays, ma, outside, history>>

\* on_source_unselected
Unselects(g) ==
    /\ ma[g].phase = "closing"
    /\ playback' = Release(playback, ma[g].owner, g)
    /\ ma' = [ma EXCEPT ![g].phase = "closed"]
    /\ history' = [history EXCEPT !.current = IF @ = g THEN None ELSE @]
    /\ UNCHANGED <<ynison, handler, plays, stream, outside>>

\* A seek from MA restarts the stream once it is sent.
OwnSeek ==
    /\ Act("own seek")
    /\ playback' = RequestRestart(playback, "seek")
    /\ stream' = Woken(stream)
    /\ UNCHANGED <<ynison, conditions, handler, plays, ma, history>>

-----------------------------------------------------------------------------
(* Ynison and the linked provider (external)                                 *)

Frame(kind, item, paused, ours) == [kind |-> kind, item |-> item, paused |-> paused, ours |-> ours]
NowAs(kind) == Frame(kind, ynison.item, ynison.paused, ynison.ours)

\* The state again: an echo, a heartbeat of a peer, a device list.
Heartbeat == Arrives(NowAs("same")) /\ UNCHANGED used

ItemMoves ==
    /\ Act("item")
    /\ \E i \in Items, kind \in {"navigated", "replaced"} :
         Arrives([NowAs(kind) EXCEPT !.item = i])

\* Our own trim re-indexes the playing item.
ItemKept ==
    /\ Act("kept")
    /\ \E i \in Items : Track(i) = Track(ynison.item) /\ Arrives([NowAs("kept") EXCEPT !.item = i])

PeerSeeks == Act("seek") /\ Arrives(NowAs("seek"))

PausesOrResumes == Act("pause") /\ Arrives([NowAs("same") EXCEPT !.paused = ~@])

\* The app selects this device, or another one.
DeviceChanges == Act("device") /\ Arrives([NowAs("same") EXCEPT !.ours = ~@])

QueueEmpties == Act("empty") /\ Arrives([NowAs("replaced") EXCEPT !.item = None])

SettleBegins ==
    /\ Act("settle") /\ settle' = TRUE
    /\ UNCHANGED <<playback, ynison, handler, plays, linked, allowSwitch, stream, ma, history>>

SettleEnds ==
    /\ settle /\ settle' = FALSE
    /\ UNCHANGED <<playback, ynison, handler, plays, linked, allowSwitch, used, stream, ma,
                   history>>

LinkChanges ==
    /\ Act("unlink") /\ linked' = ~linked
    /\ UNCHANGED <<playback, ynison, settle, allowSwitch, handler, plays, stream, ma, history>>

-----------------------------------------------------------------------------

Generator(g) ==
    \/ Begins(g) \/ WaitEnds(g) \/ Halts(g) \/ Opens(g) \/ LosesProvider(g) \/ FailsToOpen(g)
    \/ NotAdmitted(g) \/ TrackEnds(g) \/ AfterTrack(g) \/ Completes(g) \/ Replenished(g)
    \/ Follows(g) \/ TimesOut(g)

MusicAssistant(g) == Selects(g) \/ Selected(g) \/ Finishes(g) \/ Closes(g) \/ Unselects(g)

Callback == Muted \/ Formatted \/ PlayerStops \/ Paused

Others ==
    \/ PlayMedia \/ UserSelects \/ OwnSeek
    \/ Heartbeat \/ ItemMoves \/ ItemKept \/ PeerSeeks \/ PausesOrResumes \/ DeviceChanges
    \/ QueueEmpties \/ SettleBegins \/ SettleEnds \/ LinkChanges

Next ==
    \/ \E g \in Sessions : Generator(g) \/ MusicAssistant(g)
    \/ Callback \/ Others

Spec == Init /\ [][Next]_vars

\* MA drives each generator, and the event loop resumes it; nothing is asked of MA's
\* teardowns.  The deadline of _wait_for_track_change is absolute: a waiter that is woken
\* again and again still times out, hence strong fairness.
FairSpec ==
    Spec /\ \A g \in Sessions : WF_vars(Generator(g)) /\ SF_vars(TimesOut(g))

-----------------------------------------------------------------------------
(* Properties                                                                *)

\* The fields hold what the code can put there; no stream outlives the session MA
\* opened for it.
TypeOK ==
    /\ playback.owner \in Owners \union {None} /\ playback.consumer \in Players \union {None}
    /\ playback.session \in Sessions \union {None}
    /\ playback.cursor \in Items \union {None}
    /\ playback.stop \in StopReasons \union {None}
    /\ playback.reason \in RestartReasons \union {None}
    /\ playback.paused \in BOOLEAN /\ playback.restart \in BOOLEAN
    /\ plays \in Seq(Players)
    /\ \A g \in Sessions : Live(g) => ma[g].begun /\ ma[g].phase # "free"
    /\ handler.pc \in {"idle", "muting", "formatting", "stopping", "stopped"}

\* A stream that is to go on playing: nothing asks it to restart or end.
Undisturbed(g) ==
    /\ stream[g].pc = "playing" /\ stream[g].token # None
    /\ ~Lost(playback, stream[g].token) /\ playback.stop = None /\ ~playback.restart

\* No track change is missed, whatever the generator was doing when it came: a stream
\* that goes on playing plays the current track (get_audio_stream: "Consume the
\* wake-up before reading state so any later update requests a new restart instead
\* of being silently dropped").
FollowsYnison ==
    handler.pc = "idle" /\ ~history.skipped /\ ynison.ours /\ ynison.item # None
      => \A g \in Sessions : Undisturbed(g) => Track(stream[g].item) = Track(ynison.item)

\* Once a pause has been handled, no stream goes on playing.
PausedIsSilent ==
    handler.pc = "idle" /\ ~history.skipped /\ ynison.ours /\ ynison.paused
      => \A g \in Sessions : ~Undisturbed(g)

\* The claim of the newest request stands until that request is torn down, cleared or
\* its own stream ends: no late teardown and no superseded stream releases it.
ClaimHeld ==
    \A g \in Sessions :
        /\ Live(g) /\ history.current = g /\ ma[g].phase = "selected"
        /\ stream[g].token = [owner |-> ma[g].owner, session |-> g]
      => playback.owner = ma[g].owner /\ playback.session = g

\* A frame that only repeats the state does not restart a stream that plays it
\* (CHANGELOG.md 3.0.0: "same-queue reconnects no longer race the previous stream's
\* teardown").
HeartbeatHarmless ==
    [][handler.pc = "idle" /\ ynison' = ynison /\ playback'.restart /\ ~playback.restart
         /\ playback'.reason = "track_change" /\ stream' = stream
       => \A g \in Sessions : ~(Undisturbed(g) /\ stream[g].item = ynison.item)]_vars

\* play_media names a player that has a queue: "queues live on the bare UUID"
\* (_pause_playback).
SelectsAQueue == \A i \in DOMAIN plays : plays[i] \in Owners

\* A stream started for a request is not ended by that very request's selection
\* ("such a stream is never bound to a claim", get_audio_stream).
PreloadSurvives ==
    [][\A g \in Sessions :
          Live(g) /\ ma[g].phase # "selected" /\ ma'[g].phase = "selected"
          => ~Lost(playback', stream[g].token)]_vars

\* A natural end advances the queue of this device alone: "a replacement queue or
\* another device's playback is never advanced"
\* (docs/research/pr-5589-replies-v4.3.7.json).
NeverAdvancesOthers ==
    [][\A g \in Sessions :
          stream[g].pc = "completing" /\ stream'[g].pc = "following" => ynison.ours]_vars

\* When another device replaces the queue while a track is finishing, playback
\* continues with the new queue instead of stopping (CHANGELOG.md 4.4.4).
PeerQueueContinues ==
    [][\A g \in Sessions :
          /\ stream[g].pc \in {"completing", "replenishing", "following"}
          /\ playback.stop = None /\ playback'.stop = "queue_end" /\ stream'[g].pc = "none"
          => "replaced" \notin stream[g].news]_vars

Quiet ==
    /\ handler.pc = "idle" /\ plays = <<>>
    /\ \A g \in Sessions :
         \/ ma[g].phase \in {"free", "closed"} /\ ~Live(g)
         \/ ma[g].phase = "selected" /\ Live(g)

\* When Ynison asked to play here, and nothing ended that since, then a stream plays
\* or is on its way ("Resume after pause / fresh start: either signal triggers
\* play_media below", _activate_playback).
PlaysWhenAsked ==
    Quiet /\ history.asked /\ ynison.item # None
      => \E g \in Sessions : Live(g) /\ ~Lost(playback, stream[g].token)

\* A superseded stream ends by itself, wherever it was: it never holds a stream slot of
\* the linked account for good.
SupersededEnds ==
    \A g \in Sessions :
        Live(g) /\ Lost(playback, stream[g].token) ~> ~Live(g)
=============================================================================
