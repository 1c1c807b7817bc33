--------------------------- MODULE QueueNavigation ---------------------------
(***************************************************************************)
(* The queue half of YnisonClient (provider/ynison_client.py): this device *)
(* edits a queue that other devices edit too.  A local edit is computed    *)
(* against the newest known queue, published under the send lock, kept as  *)
(* a pending base until its echo arrives, and, when it moves the current   *)
(* item, tracked until that move is adopted.  Frames of the server are     *)
(* delivered in order by the message loop and may be parsed while a send   *)
(* is still in flight.                                                     *)
(*                                                                         *)
(* The Ynison server and the other devices are external: the server keeps  *)
(* the last state written, echoes own writes with their version block,     *)
(* normalises playing-status reports to an empty version and may skip the  *)
(* echo of a queue write that another one follows.                         *)
(***************************************************************************)
EXTENDS QueueModel, FiniteSets

CONSTANTS
    Self, Peer,     \* device ids
    Nobody,         \* author of a server-normalised status: the empty device id
    Sentinel,       \* YNISON_DEVICE_SERVER_DISCONNECT
    None,           \* Python's None
    Absent,         \* a key that a frame does not carry
    Callers,        \* coroutines that use the client
    Ops,            \* Ops[c]: the calls caller c may make.  _queue_navigation_lock
                    \* keeps Next and Previous apart; a natural end decides outside it
    PeerQueues,     \* queues (without version) other devices start
    NewItem,        \* the playable a RADIO append adds
    Modes,          \* repeat modes that are switched between
    Acts,           \* bound: what other devices may do
    MaxVersion,     \* bound: own queue edits
    MaxReports,     \* bound: own status reports
    MaxForeign,     \* bound: actions of other devices
    MaxDrops,       \* bound: lost connections
    MaxEvents,      \* bound: all four together
    MaxInbox        \* bound: frames on their way to the client

Operations == {"next", "end", "previous", "append", "repeat", "shuffle", "pause"}
Advances == {"next", "end"}
Moving == Advances \union {"previous"}
Deferred == Moving \union {"append"}
OptionEdits == {"repeat", "shuffle"}
ForeignActs == {"play", "options", "command", "take over", "hand back", "relay"}

ASSUME OpsAssumption == Ops \in [Callers -> SUBSET Operations]
ASSUME BoundsAssumption ==
    MaxVersion \in Nat /\ MaxReports \in Nat /\ MaxForeign \in Nat /\ MaxDrops \in Nat
      /\ MaxEvents \in Nat /\ MaxInbox \in Nat
ASSUME CallersAssumption == None \notin Callers
ASSUME DistinctAssumption == Cardinality({Self, Peer, Nobody, Sentinel, None, Absent}) = 6
ASSUME ModesAssumption == Modes \subseteq RepeatModes
ASSUME ActsAssumption == Acts \subseteq ForeignActs

VARIABLES
    queue, status,  \* state.player_state: player_queue and status
    active,         \* state.active_device_id
    flags,          \* state.current_item_navigated, current_item_kept,
                    \* status_is_relay and last_update_is_echo of the last frame
    pending, fresh, \* _pending_queue, and whether _pending_queue_until is ahead
    lastVersion,    \* _last_queue_version, 0 for None
    confirmed,      \* _confirmed_queue_version, 0 for None
    epoch,          \* _queue_epoch
    lineage,        \* _queue_lineage
    navVersion,     \* _navigation_version, 0 for None
    unadopted,      \* _unadopted_navigation, 0 for None
    navStatus,      \* _navigation_status
    revision,       \* _peer_status_revision
    known,          \* _status_baseline: progress, paused, version (None when ours)
    marks,          \* _status_watermarks younger than two seconds, oldest first
    caller,         \* what each coroutine is doing; overtaken, meanwhile and passed are
                    \* history: what peers did since it decided, or while it sends, and
                    \* our own navigations since it decided
    waiters,        \* FIFO of the send lock
    holder,         \* holder of the send lock
    clock,          \* newest own version (time_ns) handed out
    link,           \* "up", or "broken" until the reconnect task dials again
    wire,           \* messages on their way to the server
    inbox,          \* frames on their way to the client
    server,         \* the state Ynison keeps: queue, status, active
    foreign, reports, drops,    \* counters for the bounds
    history         \* history variable, read by the properties alone:
                    \*   born[v]    epoch in which own edit v was published
                    \*   owed       navigations published and not yet announced
                    \*   mine       newest own edit sent since a foreign one, or 0
                    \*   following  baseline of the last navigation sent, or None
                    \*   seen       newest version of a peer's status delivered
                    \*   latest     newest status, sent or received
                    \*   target     where the newest navigation sent goes; None once
                    \*              thirty seconds passed without its echo
                    \*   ours       whether our own edits alone built the queue since:
                    \*              each append extended the list that stood then, and
                    \*              no queue edit of another device was read

stateVars == <<queue, status, active, flags, known, revision>>
queueVars == <<pending, fresh, lastVersion, confirmed, epoch, lineage>>
navVars == <<navVersion, unadopted, navStatus>>
sendVars == <<caller, waiters, holder, clock, marks, reports>>
netVars == <<link, wire, inbox, server, foreign, drops>>
vars == <<stateVars, queueVars, navVars, sendVars, netVars, history>>

Version(device, number) == [by |-> device, number |-> number]
Normalised == Version(Nobody, 0)
Versioned(q, version) ==
    [items |-> q.items, current |-> q.current, shuffled |-> q.shuffled, order |-> q.order,
     repeat |-> q.repeat, radio |-> q.radio, version |-> version]
Position(s) == [progress |-> s.progress, paused |-> s.paused]
Frame(q, s, device) == [queue |-> q, status |-> s, active |-> device]

\* A queue with its version block; neither None nor a missing key is taken for one.
Playables == {NewItem} \union UNION {{q.items[i] : i \in 1 .. Len(q.items)} : q \in PeerQueues}
Queues == [items : Seq(Playables), current : Int, shuffled : BOOLEAN, order : Seq(Int),
           repeat : RepeatModes, radio : BOOLEAN,
           version : [by : {Self, Peer}, number : Nat]]

ASSUME QueuesAssumption ==
    /\ \A q \in PeerQueues : Versioned(q, Version(Peer, 0)) \in Queues
    /\ None \notin Queues /\ Absent \notin Queues

Statuses == [progress : 0 .. End, paused : BOOLEAN, version : [by : {Self, Peer, Nobody, Sentinel},
                                                              number : Nat]]

\* What a navigation replaced, kept while its send is in flight, is not taken for None.
ASSUME RegistrationAssumption ==
    None \notin [navVersion : Nat, unadopted : Nat, navStatus : Statuses \union {None}]

\* Whether the bounds leave room for another edit, report, peer action or loss.
Room == clock + reports + foreign + drops < MaxEvents

-----------------------------------------------------------------------------
(* Reading the newest known playback                                         *)

\* Faulty variant of Snapshot: our unconfirmed edit is forgotten.
SnapshotOfServer == queue

\* queue_snapshot: our unconfirmed edit while it is young, else the server's queue.
Snapshot == IF pending # None /\ fresh THEN pending ELSE queue

\* navigation_baseline, for the playback seen now.
Baseline ==
    [lineage |-> lineage, playable |-> CurrentPlayable(Snapshot), active |-> active,
     paused |-> status.paused, navigation |-> navVersion, revision |-> revision]

\* Faulty variant of MatchesBaseline: a peer's seek or pause that was undone is not noticed.
MatchesWithoutRevision(b, q) ==
    /\ lineage = b.lineage /\ active = b.active /\ status.paused = b.paused
    /\ CurrentPlayable(q) = b.playable /\ navVersion = b.navigation

\* Faulty variant of MatchesBaseline: our own navigation is not noticed.
MatchesWithoutNavigation(b, q) ==
    /\ lineage = b.lineage /\ active = b.active /\ status.paused = b.paused
    /\ CurrentPlayable(q) = b.playable /\ revision = b.revision

\* _matches_baseline
MatchesBaseline(b, q) ==
    /\ lineage = b.lineage
    /\ active = b.active
    /\ status.paused = b.paused
    /\ CurrentPlayable(q) = b.playable
    /\ navVersion = b.navigation
    /\ revision = b.revision

\* Faulty variant of NavigationConfirmed: only the echo of that very edit settles it.
ConfirmedByOwnEcho(b) ==
    \/ lineage # b.lineage
    \/ active # b.active
    \/ navVersion # 0 /\ navVersion # b.navigation /\ confirmed = navVersion

\* navigation_confirmed
NavigationConfirmed(b) ==
    \/ lineage # b.lineage
    \/ active # b.active
    \/ /\ navVersion # 0
       /\ navVersion # b.navigation
       /\ confirmed # 0
       /\ confirmed >= navVersion

-----------------------------------------------------------------------------
(* Initial state: the first frame of a session has been adopted              *)

Idle == [pc |-> "idle", op |-> None, baseline |-> None, epoch |-> 0, items |-> <<>>,
         index |-> 0, sent |-> None, previous |-> None, retried |-> FALSE,
         overtaken |-> {}, meanwhile |-> {}, passed |-> {}]

Init ==
    /\ queue \in {Versioned(q, Version(Peer, 0)) : q \in PeerQueues}
    /\ status = [progress |-> 0, paused |-> FALSE, version |-> Version(Peer, 0)]
    /\ active = Self
    /\ flags = [navigated |-> FALSE, kept |-> FALSE, relay |-> FALSE, echo |-> FALSE]
    /\ known = status
    /\ pending = None /\ fresh = FALSE
    /\ lastVersion = 0 /\ confirmed = 0
    \* one reset by the connect, one by the peer queue, one by the active device
    /\ epoch = 3 /\ lineage = 1 /\ revision = 0
    /\ navVersion = 0 /\ unadopted = 0 /\ navStatus = None
    /\ marks = <<>>
    /\ caller = [c \in Callers |-> Idle]
    /\ waiters = <<>> /\ holder = None
    /\ clock = 0
    /\ link = "up" /\ wire = <<>> /\ inbox = <<>>
    /\ server = [queue |-> queue, status |-> status, active |-> active]
    /\ foreign = 0 /\ reports = 0 /\ drops = 0
    /\ history = [born |-> [v \in 1 .. MaxVersion |-> 0], owed |-> {}, mine |-> 0,
                  following |-> None, seen |-> 0, latest |-> Position(status),
                  target |-> None, ours |-> TRUE]

-----------------------------------------------------------------------------
(* A call: decided on what the caller sees, made later, queued on the lock   *)

Request(pc, op, baseline, items, index) ==
    [pc |-> pc, op |-> op, baseline |-> baseline, epoch |-> epoch, items |-> items,
     index |-> index, sent |-> None, previous |-> None, retried |-> FALSE,
     overtaken |-> {}, meanwhile |-> {}, passed |-> {}]

\* The caller looks at the playback and decides what to ask for.  A natural end
\* and Next capture a baseline here (provider.py get_audio_stream, _complete_track),
\* Previous its index and generation, a RADIO fetch its list and generation.  A
\* natural end asks for nothing while our own navigation is awaited
\* (pending_navigation_baseline).
Decide(c, op) ==
    /\ caller[c].pc = "idle"
    /\ op \in Deferred
    /\ op = "end" => unadopted = 0 \/ ~fresh
    /\ op = "previous" => PreviousIndex(Snapshot) # {}
    /\ op = "append" => Snapshot.radio
    /\ caller' = [caller EXCEPT ![c] =
         Request("decided", op,
                 IF op \in Moving THEN Baseline ELSE None,
                 IF op = "append" THEN Append(Snapshot.items, NewItem) ELSE <<>>,
                 IF op = "previous" THEN CHOOSE i \in PreviousIndex(Snapshot) : TRUE ELSE 0)]
    /\ UNCHANGED <<stateVars, queueVars, navVars, waiters, holder, clock, marks, reports,
                   netVars, history>>

\* Faulty variant of Call: an advance is made for whatever plays by then.
CallAfresh(c) ==
    /\ caller[c].pc = "decided"
    /\ caller' = [caller EXCEPT ![c].pc = "waiting", ![c].epoch = epoch, ![c].baseline = Baseline]
    /\ waiters' = Append(waiters, c)
    /\ UNCHANGED <<stateVars, queueVars, navVars, holder, clock, marks, reports, netVars,
                   history>>

\* A decided call is made once the provider's own waits are over.  advance_queue
\* takes the current generation (mutate_player_state), the others bring theirs;
\* publish_items does nothing while another device is active.
Call(c) ==
    /\ caller[c].pc = "decided"
    /\ IF caller[c].op = "append" /\ active # Self
       THEN /\ caller' = [caller EXCEPT ![c] = Idle]
            /\ UNCHANGED waiters
       ELSE /\ caller' = [caller EXCEPT ![c].pc = "waiting",
                  ![c].epoch = IF caller[c].op \in Advances THEN epoch ELSE @]
            /\ waiters' = Append(waiters, c)
    /\ UNCHANGED <<stateVars, queueVars, navVars, holder, clock, marks, reports, netVars,
                   history>>

\* An option edit or a pause asks for the lock at once, with the generation it sees.
CallNow(c, op) ==
    /\ caller[c].pc = "idle"
    /\ op \notin Deferred
    /\ caller' = [caller EXCEPT ![c] = Request("waiting", op, None, <<>>, 0)]
    /\ waiters' = Append(waiters, c)
    /\ UNCHANGED <<stateVars, queueVars, navVars, holder, clock, marks, reports, netVars,
                   history>>

\* The base mutate_player_state edits: until our navigation is adopted, its
\* status is the newest one we sent.
Base ==
    [queue |-> Snapshot,
     status |-> IF unadopted # 0 /\ navStatus # None THEN navStatus ELSE status]

\* The player states an operation may leave when it edits Base now.
Edited(c, version) ==
    LET call == caller[c]
    IN CASE call.op \in Advances -> {Navigate(Base, call.op = "end", version)}
         [] call.op = "previous" -> {SetIndex(Base, call.index, version)}
         [] call.op = "append"   -> {ReplaceItems(Base, call.items)}
         [] call.op = "repeat"   -> {SetRepeat(Base, m) : m \in Modes \ {Snapshot.repeat}}
         [] call.op = "shuffle"  -> SetShuffle(Base, ~Snapshot.shuffled)

Moves(c) ==
    \/ caller[c].op = "previous"
    \/ caller[c].op \in Advances /\ Outcome(Snapshot, caller[c].op = "end") = "change"

\* The generation a call was made or sent for is over.
Superseded(c) == caller[c].epoch # epoch

Refused(c) ==
    \/ Superseded(c)
    \/ caller[c].op \in Advances /\ ~MatchesBaseline(caller[c].baseline, Snapshot)

\* A list that was computed for the queue that stands.
UpToDate(c) == caller[c].op = "append" => caller[c].items = Append(Snapshot.items, NewItem)

NothingToPublish(c) ==
    caller[c].op \in Advances /\ Outcome(Snapshot, caller[c].op = "end") = "radio"

AtLock(c) ==
    caller[c].pc = "waiting" /\ holder = None /\ waiters # <<>> /\ Head(waiters) = c

\* A call is decided again, for the same playback; what peers did while it was being
\* sent has now overtaken it.
Again(r) ==
    [Request("decided", r.op, r.baseline, r.items, r.index) EXCEPT
        !.retried = TRUE, !.overtaken = r.overtaken \union r.meanwhile, !.passed = r.passed]

\* YnisonSendError: an advance is tried once more, for the playback it was decided
\* for (_advance_queue_navigation); any other call ends.
AfterFailure(c) ==
    IF caller[c].op \in Advances /\ ~caller[c].retried THEN Again(caller[c]) ELSE Idle

\* The lock is taken and released without a send: the queue changed, a RADIO queue
\* needs items first, or the socket is known to be gone (the registration that this
\* very step made is restored).
GiveUp(c) ==
    /\ AtLock(c)
    /\ \/ /\ caller[c].op # "pause" /\ (Refused(c) \/ NothingToPublish(c))
          /\ caller' = [caller EXCEPT ![c] = Idle]
       \/ /\ link # "up"
          /\ caller[c].op = "pause" \/ ~(Refused(c) \/ NothingToPublish(c))
          /\ caller' = [caller EXCEPT ![c] = AfterFailure(c)]
    /\ waiters' = Tail(waiters)
    /\ UNCHANGED <<stateVars, queueVars, navVars, holder, clock, marks, reports, netVars,
                   history>>

\* mutate_player_state up to its send: edit, version, register, write.
Publish(c) ==
    /\ AtLock(c)
    /\ caller[c].op # "pause"
    /\ link = "up"
    /\ ~Refused(c) /\ ~NothingToPublish(c)
    /\ clock < MaxVersion /\ Room
    /\ clock' = clock + 1
    /\ \E ps \in Edited(c, Version(Self, clock')) :
         LET sent == [queue |-> Versioned(ps.queue, Version(Self, clock')),
                      status |-> ps.status]
             previous == IF Moves(c)
                         THEN [navVersion |-> navVersion, unadopted |-> unadopted,
                               navStatus |-> navStatus]
                         ELSE None
         IN /\ caller' = [d \in Callers |->
                 IF d = c
                 THEN [caller[c] EXCEPT !.pc = "sending", !.sent = sent, !.epoch = epoch,
                                        !.previous = previous]
                 ELSE IF previous # None /\ caller[d].pc \in {"decided", "waiting"}
                 THEN [caller[d] EXCEPT !.passed = @ \union {clock'}]
                 ELSE caller[d]]
            /\ wire' = Append(wire, sent)
            /\ IF Moves(c)
               THEN /\ navVersion' = clock' /\ unadopted' = clock'
                    /\ navStatus' = sent.status
               ELSE UNCHANGED navVars
    /\ history' = [history EXCEPT !.born[clock'] = epoch,
                                  !.owed = IF Moves(c) THEN @ \union {clock'} ELSE @,
                                  !.latest = IF Moves(c) THEN Position(caller'[c].sent.status)
                                             ELSE @,
                                  !.target = IF Moves(c)
                                             THEN CurrentPlayable(caller'[c].sent.queue)
                                             ELSE @,
                                  !.ours = Moves(c) \/ (@ /\ UpToDate(c))]
    /\ waiters' = Tail(waiters)
    /\ holder' = c
    /\ UNCHANGED <<stateVars, queueVars, marks, reports, link, inbox, server, foreign, drops>>

\* update_playing_status: _on_pause reports the current position, paused.
Report(c) ==
    /\ AtLock(c)
    /\ caller[c].op = "pause"
    /\ link = "up"
    /\ reports < MaxReports /\ Room
    /\ reports' = reports + 1
    /\ LET sent == [queue |-> None,
                    status |-> [progress |-> status.progress, paused |-> TRUE,
                                version |-> Normalised]]
       IN /\ caller' = [caller EXCEPT ![c].pc = "sending", ![c].sent = sent]
          /\ wire' = Append(wire, sent)
          /\ history' = [history EXCEPT !.latest = Position(sent.status)]
    /\ waiters' = Tail(waiters)
    /\ holder' = c
    /\ UNCHANGED <<stateVars, queueVars, navVars, clock, marks, link, inbox, server,
                   foreign, drops>>

-----------------------------------------------------------------------------
(* The send returns                                                          *)

Free(c) == caller' = [caller EXCEPT ![c] = Idle] /\ holder' = None

\* mutate_player_state after its send: the edit becomes the pending base, unless
\* the queue changed meanwhile (ResourceTemporarilyUnavailable to the caller).
Sent(c) ==
    /\ holder = c /\ caller[c].op # "pause"
    /\ Free(c)
    /\ IF Superseded(c)
       THEN UNCHANGED <<pending, fresh, lastVersion, history>>
       ELSE /\ pending' = caller[c].sent.queue
            /\ fresh' = TRUE
            /\ lastVersion' = caller[c].sent.queue.version.number
            /\ history' = [history EXCEPT
                 !.mine = caller[c].sent.queue.version.number,
                 !.following = IF caller[c].previous # None THEN caller[c].baseline ELSE @]
    /\ UNCHANGED <<stateVars, confirmed, epoch, lineage, navVars, waiters, clock, marks,
                   reports, netVars>>

\* update_playing_status after its send.
Reported(c) ==
    /\ holder = c /\ caller[c].op = "pause"
    /\ Free(c)
    /\ LET sent == caller[c].sent.status
       IN /\ known' = [sent EXCEPT !.version = None]
          /\ navStatus' = IF unadopted # 0 /\ navStatus # None
                          THEN [navStatus EXCEPT !.progress = sent.progress,
                                                 !.paused = sent.paused]
                          ELSE navStatus
          /\ marks' = IF CurrentPlayable(queue) = {} THEN marks
                      ELSE Append(marks, [track |-> CurrentPlayable(queue),
                                          progress |-> sent.progress, paused |-> sent.paused])
    /\ UNCHANGED <<queue, status, active, flags, revision, queueVars, navVersion, unadopted,
                   waiters, clock, reports, netVars, history>>

\* send_str raises: the socket is dead, what it had not delivered is lost (the end
\* of this message at least), and a registered navigation is taken back.
SendFails(c) ==
    /\ holder = c
    /\ drops < MaxDrops /\ Room
    /\ \E i \in 1 .. Len(wire) : wire[i] = caller[c].sent
    /\ drops' = drops + 1
    /\ link' = "broken" /\ wire' = <<>>
    /\ holder' = None
    /\ caller' = [d \in Callers |->
         IF d = c THEN AfterFailure(c)
         ELSE IF caller[c].previous # None
         THEN [caller[d] EXCEPT !.passed = @ \ {caller[c].sent.queue.version.number}]
         ELSE caller[d]]
    /\ IF caller[c].previous # None
       THEN /\ navVersion' = caller[c].previous.navVersion
            /\ unadopted' = caller[c].previous.unadopted
            /\ navStatus' = caller[c].previous.navStatus
       ELSE UNCHANGED navVars
    /\ history' = [history EXCEPT
         !.owed = IF caller[c].previous # None THEN @ \ {caller[c].sent.queue.version.number}
                  ELSE @,
         !.target = IF caller[c].previous # None THEN None ELSE @]
    /\ UNCHANGED <<stateVars, queueVars, waiters, clock, marks, reports, inbox, server, foreign>>

\* Time: thirty seconds after the edit it is no longer the base; two seconds
\* after a report its echo is no longer recognised by its values.
PendingExpires ==
    /\ fresh
    /\ fresh' = FALSE
    /\ history' = [history EXCEPT !.target = None]
    /\ UNCHANGED <<stateVars, pending, lastVersion, confirmed, epoch, lineage, navVars,
                   sendVars, netVars>>

MarkExpires ==
    /\ marks # <<>>
    /\ marks' = Tail(marks)
    /\ UNCHANGED <<stateVars, queueVars, navVars, caller, waiters, holder, clock, reports,
                   netVars, history>>

-----------------------------------------------------------------------------
(* A frame is parsed: _parse_state, _apply_player_state, _accept_queue       *)

Author(s) == IF s = Absent THEN Absent ELSE s.version.by

SamePlayback(q, r) ==
    q.items = r.items /\ q.current = r.current /\ q.radio = r.radio

HasQueue(f) == f.queue # Absent
OwnQueue(f) == HasQueue(f) /\ f.queue.version.by = Self
ForeignEdit(f) == HasQueue(f) /\ ~OwnQueue(f) /\ f.queue # queue

\* Faulty variant of Obsolete: the echo of the newest send is dropped too.
ObsoleteByOne(f) == OwnQueue(f) /\ lastVersion # 0 /\ f.queue.version.number <= lastVersion

\* An echo of our own queue older than our newest send.
Obsolete(f) ==
    OwnQueue(f) /\ lastVersion # 0 /\ f.queue.version.number < lastVersion
\* Another device replaced the playback / changed nothing but its options.
Replaces(f) == ForeignEdit(f) /\ ~SamePlayback(f.queue, queue)
ReOptions(f) == ForeignEdit(f) /\ SamePlayback(f.queue, queue)
\* Our own queue is adopted.
Adopts(f) == OwnQueue(f) /\ ~Obsolete(f)
\* Faulty variant of Navigated: the echo of an edit before the navigation announces it.
NavigatedByAnyEcho(f) == Adopts(f) /\ unadopted # 0

\* An adopted echo carries our navigation, its own or a later edit's echo.
Navigated(f) == Adopts(f) /\ unadopted # 0 /\ f.queue.version.number >= unadopted
Kept(f) ==
    Adopts(f) /\ ~Navigated(f) /\ CurrentPlayable(f.queue) = CurrentPlayable(queue)

\* _classify_state_as_echo: fully ours, or the echo of a recent report.
FullyOurs(f) == OwnQueue(f) /\ Author(f.status) = Self
HeartbeatEcho(f) ==
    /\ ~FullyOurs(f)
    /\ HasQueue(f) => f.queue = queue
    /\ f.status # Absent /\ f.status.version = Normalised
    /\ \E i \in 1 .. Len(marks) :
          marks[i] = [track |-> CurrentPlayable(queue), progress |-> f.status.progress,
                      paused |-> f.status.paused]

\* is_repeated_by: the newest known status again, not a fresh command of a peer.
IsKnown(s) ==
    /\ known # None
    /\ s.version.by \in {Nobody, Self} \/ s.version = known.version
    /\ s.progress = known.progress /\ s.paused = known.paused

\* Our status in an obsolete echo is as old as its queue.
StatusObsolete(f) == Obsolete(f) /\ Author(f.status) = Self
Relays(f) == f.status = Absent \/ StatusObsolete(f) \/ IsKnown(f.status)
TakesStatus(f) == f.status # Absent /\ ~StatusObsolete(f) /\ ~HeartbeatEcho(f)
NewStatus(f) == TakesStatus(f) /\ ~Relays(f)
PeerCommand(f) ==
    /\ HasQueue(f) => f.queue = queue
    /\ Author(f.status) \notin {Absent, Nobody, Self}
    /\ f.status.version # status.version

\* Faulty variant of ActiveAfter: the author of a status without a device is the active one.
ActiveIsAuthor(f) == IF f.active # Absent THEN f.active ELSE Author(f.status)

\* The active device a frame leaves: its own, none after a disconnect sentinel.
ActiveAfter(f) ==
    IF f.active # Absent THEN f.active
    ELSE IF Author(f.status) = Sentinel THEN None ELSE active

ItemChanged(f, q) ==
    \/ Navigated(f)
    \/ ~Kept(f) /\ (CurrentPlayable(q) # CurrentPlayable(queue) \/ q.current # queue.current)

ParseQueue(f) ==
    LET taken == HasQueue(f) /\ ~Obsolete(f)
        moved == ActiveAfter(f) # active
        resets == Replaces(f) \/ moved
    IN /\ queue' = IF taken THEN f.queue ELSE queue
       /\ lineage' = IF Replaces(f) THEN lineage + 1 ELSE lineage
       /\ epoch' = epoch + (IF Replaces(f) THEN 1 ELSE 0) + (IF moved THEN 1 ELSE 0)
       /\ pending' = IF resets \/ ReOptions(f) \/ (Adopts(f) /\ lastVersion # 0)
                     THEN None ELSE pending
       /\ fresh' = IF resets THEN FALSE ELSE fresh
       /\ lastVersion' = IF resets THEN 0 ELSE lastVersion
       /\ unadopted' = IF resets \/ Navigated(f) THEN 0 ELSE unadopted
       /\ confirmed' = IF Adopts(f) THEN Most(confirmed, f.queue.version.number) ELSE confirmed
       /\ UNCHANGED navVersion

ParseStatus(f) ==
    /\ status' = CASE TakesStatus(f) -> f.status
                   [] f.status = Absent /\ Navigated(f) /\ navStatus # None -> navStatus
                   [] OTHER -> status
    /\ known' = CASE NewStatus(f) -> f.status
                  [] f.status = Absent /\ ItemChanged(f, queue') -> None
                  [] OTHER -> known
    /\ navStatus' = IF NewStatus(f) THEN None ELSE navStatus
    /\ revision' = IF NewStatus(f) /\ PeerCommand(f) THEN revision + 1 ELSE revision
    /\ flags' = [navigated |-> Navigated(f), kept |-> Kept(f), relay |-> Relays(f),
                 echo |-> FullyOurs(f) \/ HeartbeatEcho(f)]
    /\ active' = ActiveAfter(f)

\* What another device did to the playback, as this client can tell.
Overtakes(f) ==
    {what \in {"queue", "command", "device"} :
        \/ what = "queue" /\ Replaces(f)
        \/ what = "command" /\ NewStatus(f) /\ PeerCommand(f)
        \/ what = "device" /\ ActiveAfter(f) # active}

NewsFromPeer(f) ==
    Author(f.status) \in {Peer, Sentinel} /\ f.status.version.number > history.seen

\* History: a call not yet published, or published once and to be tried again, was
\* decided for an older playback.
Followed(c, what) ==
    IF caller[c].op \notin Advances THEN caller[c]
    ELSE IF caller[c].pc = "sending" THEN [caller[c] EXCEPT !.meanwhile = @ \union what]
    ELSE [caller[c] EXCEPT !.overtaken = @ \union what]

Deliver ==
    /\ inbox # <<>>
    /\ inbox' = Tail(inbox)
    /\ LET f == Head(inbox)
       IN /\ ParseQueue(f)
          /\ ParseStatus(f)
          /\ caller' = [c \in Callers |-> Followed(c, Overtakes(f))]
          /\ history' = [history EXCEPT
               !.owed = IF Navigated(f) THEN {v \in @ : v > f.queue.version.number} ELSE @,
               !.mine = IF ForeignEdit(f) THEN 0 ELSE @,
               !.ours = @ /\ ~ForeignEdit(f),
               !.seen = IF NewsFromPeer(f) THEN f.status.version.number ELSE @,
               !.latest = IF NewsFromPeer(f) THEN Position(f.status) ELSE @]
    /\ UNCHANGED <<waiters, holder, clock, marks, reports, link, wire, server, foreign, drops>>

-----------------------------------------------------------------------------
(* The connection: lost at any time, dialled again by the reconnect task     *)

Loses ==
    /\ link = "up" /\ drops < MaxDrops /\ Room
    /\ drops' = drops + 1
    /\ link' = "broken" /\ wire' = <<>>
    /\ UNCHANGED <<stateVars, queueVars, navVars, sendVars, inbox, server, foreign, history>>

\* Faulty variant of ResetPendingQueue: the version of the last send survives.
ResetButVersion ==
    /\ pending' = None /\ fresh' = FALSE /\ unadopted' = 0 /\ lastVersion' = lastVersion
    /\ epoch' = epoch + 1

\* _reset_pending_queue, for a new connection.
ResetPendingQueue ==
    /\ pending' = None /\ fresh' = FALSE /\ unadopted' = 0 /\ lastVersion' = 0
    /\ epoch' = epoch + 1

\* _connect_state resets the pending edits; the server sends the state it kept.
\* A send on the dead socket has returned by then. The server keeps its state when the
\* client announces itself with an empty one (send_full_state in _connect_state).
Reconnects ==
    /\ link = "broken" /\ holder = None
    /\ link' = "up"
    /\ ResetPendingQueue
    /\ inbox' = <<Frame(server.queue, server.status, server.active)>>
    /\ history' = [history EXCEPT !.following = None, !.mine = 0]
    /\ UNCHANGED <<stateVars, confirmed, lineage, navVersion, navStatus, sendVars, wire,
                   server, foreign, drops>>

-----------------------------------------------------------------------------
(* The server and the other devices (external)                               *)

\* A client whose connection is lost receives nothing until it dials again.
Broadcast(frames) == inbox' = IF link = "up" THEN inbox \o frames ELSE inbox

\* A queue write becomes the state; its echo carries the queue, maybe the
\* status, and may be skipped when a later queue write follows it.
ServerTakes ==
    /\ wire # <<>> /\ Len(inbox) < MaxInbox
    /\ wire' = Tail(wire)
    /\ LET m == Head(wire)
           echoes == IF m.queue = None
                     THEN {<<Frame(Absent, m.status, Absent)>>,
                           <<Frame(server.queue, m.status, server.active)>>}
                     ELSE {<<Frame(m.queue, m.status, server.active)>>,
                           <<Frame(m.queue, Absent, Absent)>>}
                       \union (IF \E i \in 2 .. Len(wire) : wire[i].queue # None
                               THEN {<<>>} ELSE {})
       IN /\ server' = [server EXCEPT !.queue = IF m.queue = None THEN @ ELSE m.queue,
                                      !.status = m.status]
          /\ \E frames \in echoes : Broadcast(frames)
    /\ UNCHANGED <<stateVars, queueVars, navVars, sendVars, link, foreign, drops,
                   history>>

Foreign(act) ==
    /\ act \in Acts
    /\ foreign < MaxForeign /\ Room /\ Len(inbox) < MaxInbox
    /\ foreign' = foreign + 1
    /\ UNCHANGED <<stateVars, queueVars, navVars, sendVars, link, wire, drops, history>>

\* Another device starts a queue on the active device.
PeerPlays ==
    /\ Foreign("play")
    /\ \E q \in PeerQueues :
         LET version == Version(Peer, foreign')
             new == Versioned(q, version)
         IN /\ server' = [server EXCEPT !.queue = new, !.status = Beginning(version)]
            /\ Broadcast(<<Frame(new, Beginning(version), server.active)>>)

\* Another device changes the repeat mode; the status is the retained one.
PeerEditsOptions ==
    /\ Foreign("options")
    /\ \E m \in Modes \ {server.queue.repeat} :
         LET new == [server.queue EXCEPT !.repeat = m, !.version = Version(Peer, foreign')]
         IN /\ server' = [server EXCEPT !.queue = new]
            /\ \E s \in {Absent, server.status} : Broadcast(<<Frame(new, s, server.active)>>)

\* Another device seeks, pauses or resumes.
PeerCommands ==
    /\ Foreign("command")
    /\ \E progress \in {0, 1}, paused \in BOOLEAN :
         LET new == [progress |-> progress, paused |-> paused,
                     version |-> Version(Peer, foreign')]
         IN /\ server' = [server EXCEPT !.status = new]
            /\ \E q \in {Absent, server.queue} : Broadcast(<<Frame(q, new, server.active)>>)

\* Another device takes playback over: a disconnect sentinel, or an explicit owner.
PeerTakesOver ==
    /\ Foreign("take over")
    /\ server.active = Self
    /\ LET paused == [server.status EXCEPT !.paused = TRUE, !.version = Version(Sentinel, foreign')]
       IN \/ /\ server' = [server EXCEPT !.active = None, !.status = paused]
             /\ Broadcast(<<Frame(Absent, paused, Absent)>>)
          \/ /\ server' = [server EXCEPT !.active = Peer]
             /\ Broadcast(<<Frame(Absent, Absent, Peer)>>)

\* Playback is handed back, with the state of the device that had it.
PeerHandsBack ==
    /\ Foreign("hand back")
    /\ server.active # Self
    /\ LET version == Version(Peer, foreign')
           new == [server.queue EXCEPT !.version = version]
       IN /\ server' = [queue |-> new, status |-> Beginning(version), active |-> Self]
          /\ Broadcast(<<Frame(new, Beginning(version), Self)>>)

\* The retained state is broadcast again.
Relay ==
    /\ Foreign("relay")
    /\ Broadcast(<<Frame(server.queue, server.status, server.active)>>)
    /\ UNCHANGED server

-----------------------------------------------------------------------------

Caller(c) ==
    \/ \E op \in Ops[c] : Decide(c, op) \/ CallNow(c, op)
    \/ Call(c) \/ GiveUp(c) \/ Publish(c) \/ Report(c)
    \/ Sent(c) \/ Reported(c) \/ SendFails(c)

Environment ==
    \/ ServerTakes \/ PeerPlays \/ PeerEditsOptions \/ PeerCommands
    \/ PeerTakesOver \/ PeerHandsBack \/ Relay

Next ==
    \/ \E c \in Callers : Caller(c)
    \/ Deliver \/ PendingExpires \/ MarkExpires
    \/ Loses \/ Reconnects
    \/ Environment

Spec == Init /\ [][Next]_vars
-----------------------------------------------------------------------------
(* Properties                                                                *)

\* The fields hold what the code can put there: no device but a real one is ever
\* taken for active, no version is used that was not handed out.
TypeOK ==
    /\ queue.version.by \in {Self, Peer} /\ status \in Statuses
    /\ active \in {Self, Peer, None}
    /\ flags \in [navigated : BOOLEAN, kept : BOOLEAN, relay : BOOLEAN, echo : BOOLEAN]
    /\ fresh \in BOOLEAN
    /\ {lastVersion, confirmed, navVersion, unadopted, clock} \subseteq 0 .. MaxVersion
    /\ epoch \in Nat /\ lineage \in Nat /\ revision \in Nat
    /\ navStatus \in Statuses \union {None}
    /\ \A c \in Callers : caller[c].pc \in {"idle", "decided", "waiting", "sending"}
    /\ waiters \in Seq(Callers) /\ holder \in Callers \union {None}
    /\ link \in {"up", "broken"}

Publishes(c) == caller[c].pc = "sending" /\ caller[c].op \in Advances

\* An advance is never published over playback that another device changed after
\* the advance was decided, by replacing the queue or by a seek, pause or resume,
\* even when the change was undone again (_matches_baseline), and neither is its
\* second attempt after a lost connection (CHANGELOG.md 4.3.7: "retries a failed
\* queue update without advancing a replacement queue").
NoOvertakenAdvance ==
    \A c \in Callers : Publishes(c) => caller[c].overtaken \subseteq {"device"}

\* ... nor after playback went to another device and came back
\* ("an active-device change or a pause change do not", is_current_playback).
NoAdvanceAfterHandover ==
    \A c \in Callers : Publishes(c) => "device" \notin caller[c].overtaken

\* One end, one advance: a natural end or a skip decided before our own
\* navigation was published never moves past the item that one chose.
NoDoubleSkip == \A c \in Callers : Publishes(c) => caller[c].passed = {}

\* The pending base, its version and the navigation waiting for its echo all
\* belong to the current generation while the channel is up: nothing of an
\* older playback survives a reset, whichever send was in flight when it came.
GenerationsAgree ==
    link = "up" =>
        /\ pending # None => history.born[pending.version.number] = epoch
        /\ lastVersion # 0 => history.born[lastVersion] = epoch
        /\ unadopted # 0 => history.born[unadopted] = epoch

\* Each navigation is announced (current_item_navigated) at most once, and a
\* navigation whose send failed is not announced by the next own edit.
AnnouncedOnce ==
    [][inbox # <<>> /\ inbox' = Tail(inbox) /\ link' = link /\ flags'.navigated
          => \E v \in history.owed : v <= queue'.version.number]_vars

\* Own edits compose: until another device edits the queue, the base of the next
\* edit is the newest own edit, also when echoes of older ones arrive late.
OwnEditsCompose ==
    holder = None /\ history.mine # 0 /\ fresh
        => Snapshot.version.by = Self /\ Snapshot.version.number >= history.mine

\* While a navigation waits for its echo, an edit that does not move the item
\* publishes the newest position and pause sent or received, never older ones.
PauseNotUndone ==
    [][\A c \in Callers :
          /\ caller[c].pc = "waiting" /\ caller'[c].pc = "sending"
          /\ caller[c].op \in OptionEdits \union {"append"} /\ unadopted # 0
          => Position(caller'[c].sent.status) = history.latest]_vars

Stays(c) == CurrentPlayable(caller'[c].sent.queue) = history.target

EditsBehindSkip(c) ==
    /\ caller[c].pc = "waiting" /\ caller'[c].pc = "sending"
    /\ caller[c].op \in OptionEdits \union {"append"}
    /\ unadopted # 0 /\ history.target \notin {None, {}}

\* ... and it stays on the item of that navigation, as long as what was published since
\* is our own and each list was computed for the queue it extended: late echoes, lost
\* connections, failed sends, seeks and hand-overs take no skip back.
SkipNotUndone ==
    [][\A c \in Callers : EditsBehindSkip(c) /\ history'.ours => Stays(c)]_vars

\* "Serialize a queue change against the latest successfully sent queue"
\* (mutate_player_state): no queue edit takes a skip back.
SkipAlwaysStands == [][\A c \in Callers : EditsBehindSkip(c) => Stays(c)]_vars

\* Previous goes to the item before the one that is current when it is published
\* (docs/research/2026-10-02-pr-5589-resolution.md: navigation derives its target
\* from the pending queue inside the serialized mutation).
PreviousMeansPrevious ==
    [][\A c \in Callers :
          /\ caller[c].pc = "waiting" /\ caller'[c].pc = "sending"
          /\ caller[c].op = "previous"
          => caller'[c].sent.queue.current \in PreviousIndex(Snapshot)]_vars

Quiet == link = "up" /\ wire = <<>> /\ inbox = <<>> /\ holder = None

\* When everything sent has been answered, the queue adopted here is the queue
\* the server keeps: no echo was wrongly dropped as obsolete, none wrongly kept.
AdoptedConverges == Quiet => queue = server.queue

\* ... and so is the base of the next edit: a peer's option edit replaces our
\* queue base (the comment in _accept_queue).
BaseConverges == Quiet => Snapshot = server.queue

\* ... and the navigation a stream waits for has settled: it never sits out its
\* timeout because the answer was misread.
NobodyLeftWaiting ==
    Quiet /\ history.following # None => NavigationConfirmed(history.following)

-----------------------------------------------------------------------------
(* The abstract specification that the queue edits implement                 *)

Reserved == {c \in Callers : caller[c].pc # "idle" /\ caller[c].op # "pause"}

\* What other devices, or a new connection, did against the decision of a caller: for
\* an advance a new queue or a command, and a new generation once it queues for the
\* lock; for the other edits any new generation.
OthersBroke(c) ==
    IF caller[c].op \in Advances
    THEN \/ {"queue", "command"} \intersect (caller[c].overtaken \union caller[c].meanwhile) # {}
         \/ caller[c].pc = "waiting" /\ Superseded(c)
    ELSE Superseded(c)

\* The navigation whose send is in flight, if one is.
InFlightMove ==
    IF holder # None /\ caller[holder].previous # None
    THEN {caller[holder].sent.queue.version.number}
    ELSE {}

Broken(c) ==
    IF c \notin Reserved THEN {}
    ELSE {cause \in {"others", "accepted", "under way"} :
            \/ cause = "others" /\ OthersBroke(c)
            \/ /\ caller[c].op \in Advances
               /\ \/ cause = "accepted" /\ caller[c].passed \ InFlightMove # {}
                  \/ cause = "under way" /\ caller[c].passed \intersect InFlightMove # {}}

Store == INSTANCE ConditionalStore
    WITH Writers <- Callers, Nobody <- None, reserved <- Reserved,
         broken <- [c \in Callers |-> Broken(c)], writing <- holder

\* The edits are conditional stores: what is published was decided for the playback
\* that stands, one send at a time, and a failed send that is tried again
\* (_advance_queue_navigation) comes back under the very reservation it had.
EditsAreConditional == Store!Spec
=============================================================================
