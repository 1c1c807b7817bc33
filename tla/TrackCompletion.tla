--------------------------- MODULE TrackCompletion ---------------------------
(***************************************************************************)
(* How the provider leaves a track (provider/provider.py): a natural end,  *)
(* Next and Previous queue on _queue_navigation_lock; at the end of a      *)
(* RADIO queue more tracks are fetched, unless a prefetch that a state     *)
(* frame started near the tail has them already or is still running.       *)
(*                                                                         *)
(* YnisonClient is reduced to what these coroutines see of it: the queue   *)
(* last adopted, the own edit that awaits its echo, generation, lineage    *)
(* and navigation version.  An edit is checked and sent in one step;       *)
(* QueueNavigation has the send lock.  Positions and pauses are left out.  *)
(* The rotor API, Ynison and the other devices are external.               *)
(***************************************************************************)
EXTENDS QueueModel, FiniteSets

CONSTANTS
    None,           \* Python's None
    Callers,        \* coroutines that leave a track
    Ops,            \* Ops[c]: "end" for the stream, "next" or "previous" for commands
    Starts,         \* queues that are started: [size, current, radio, shuffled]
    BatchSizes,     \* tracks the rotor API may return at once
    MaxFetched,     \* bound: tracks the API hands out before it runs dry
    MaxCalls,       \* bound: tracks that are left
    MaxPeers,       \* bound: actions of other devices
    MaxDrops,       \* bound: lost connections
    MaxRelays,      \* bound: frames that repeat the state of the server
    MaxEvents,      \* bound: the last three together
    MaxInbox        \* bound: frames on their way to the client

Kinds == {"end", "next", "previous"}

ASSUME OpsAssumption == Ops \in [Callers -> SUBSET Kinds]
ASSUME NoneAssumption == None \notin Callers
ASSUME BatchAssumption == BatchSizes \subseteq Nat \ {0}
ASSUME LimitsAssumption ==
    /\ MaxFetched \in Nat /\ MaxCalls \in Nat /\ MaxPeers \in Nat
    /\ MaxDrops \in Nat /\ MaxRelays \in Nat /\ MaxEvents \in Nat /\ MaxInbox \in Nat
ASSUME StartsAssumption ==
    Starts \subseteq [size : Nat, current : Nat, radio : BOOLEAN, shuffled : BOOLEAN]

VARIABLES
    queue,          \* state.player_state.player_queue, with its own version or 0
    active,         \* whether state.active_device_id is this device
    pending,        \* the own edit that awaits its echo (_pending_queue), or None
    lastVersion,    \* _last_queue_version, 0 for None
    navigation,     \* _navigation_version
    unadopted,      \* _unadopted_navigation, 0 for None
    generation,     \* _queue_epoch
    lineage,        \* _queue_lineage
    link,           \* "down", "settling" after a reconnect, or "up"
    inbox,          \* frames on their way to the client
    server,         \* the queue and the active flag Ynison keeps
    stream,         \* "on", "ending" while its end is completed, or "off"
    stopped,        \* _playback.stop_requested()
    lock,           \* _queue_navigation_lock: its holder, then those who wait for it
    call,           \* what each caller is doing
    prefetched,     \* _prefetched_list with its generation, or None
    task,           \* _prefetch_task
    edits,          \* own edits so far: the newest version handed out
    calls, fetched, peers, drops, relays,   \* counters for the bounds
    failure         \* history: why the newest call FAILED, None when it did not

clientVars == <<queue, active, pending, lastVersion, navigation, unadopted, generation, lineage>>
callVars == <<stream, stopped, lock, call, failure>>
radioVars == <<prefetched, task>>
netVars == <<link, inbox, server>>
bounds == <<edits, calls, fetched, peers, drops, relays>>
vars == <<clientVars, callVars, radioVars, netVars, bounds>>

\* Whether the bounds leave room for another loss, peer action or repeated frame.
Room == peers + drops + relays < MaxEvents

Snapshot == IF pending # None THEN pending ELSE queue

\* navigation_baseline
Baseline ==
    [lineage |-> lineage, playable |-> CurrentPlayable(Snapshot), active |-> active,
     navigation |-> navigation]

\* Tracks of a station: the n-th one handed out, or one of the initial queue.
Track(station, n) == [station |-> station, n |-> n]
Started(s, station) ==
    [items |-> [i \in 1 .. s.size |-> Track(station, i - s.size)], current |-> s.current,
     shuffled |-> s.shuffled,
     order |-> IF s.shuffled THEN [i \in 1 .. s.size |-> s.size - i] ELSE <<>>,
     repeat |-> "NONE", radio |-> s.radio, station |-> station, version |-> 0]

Nothing == [pc |-> "idle", op |-> None, baseline |-> None, generation |-> 0, lineage |-> 0,
            station |-> 0, items |-> <<>>, index |-> 0, retried |-> FALSE, excuse |-> {}]
NoTask == [pc |-> "idle", generation |-> 0, lineage |-> 0, station |-> 0, items |-> <<>>]

\* The second-to-last or the last item in logical order is the current one.
AtTail(q) ==
    IF q.current \in Positions(q)
    THEN \E i \in 1 .. Size(q) : Order(q)[i] = q.current /\ i >= Size(q) - 1
    ELSE Size(q) = 1

\* A prefetch for a queue, its generation and its lineage.
Fetch(q, g, l) ==
    [pc |-> "fetching", generation |-> g, lineage |-> l, station |-> q.station,
     items |-> q.items]

\* The first frame of a session has been adopted and acted upon.
Init ==
    /\ \E s \in Starts : queue = Started(s, 1)
    /\ active = TRUE /\ pending = None /\ lastVersion = 0
    /\ navigation = 0 /\ unadopted = 0
    /\ generation = 3 /\ lineage = 1
    /\ link = "up" /\ inbox = <<>>
    /\ server = [queue |-> queue, active |-> TRUE]
    /\ stream = "on" /\ stopped = FALSE
    /\ lock = <<>> /\ call = [c \in Callers |-> Nothing]
    /\ prefetched = None
    /\ task = IF queue.radio /\ AtTail(queue) THEN Fetch(queue, generation, lineage) ELSE NoTask
    /\ edits = 0 /\ calls = 0 /\ fetched = 0 /\ peers = 0 /\ drops = 0 /\ relays = 0
    /\ failure = None

AtWork(c) == call[c].pc # "idle"

-----------------------------------------------------------------------------
(* mutate_player_state, checked and sent                                     *)

Commit(ps, moves, more) ==
    LET sent == [ps.queue EXCEPT !.version = edits + 1]
    IN /\ Len(inbox) < MaxInbox
       /\ edits' = edits + 1
       /\ pending' = sent /\ lastVersion' = edits'
       /\ IF moves THEN navigation' = edits' /\ unadopted' = edits'
                   ELSE UNCHANGED <<navigation, unadopted>>
       /\ server' = [server EXCEPT !.queue = sent]
       /\ inbox' = Append(inbox, server')
       /\ fetched' = fetched + more
       /\ UNCHANGED <<queue, active, generation, lineage, link, calls, peers, drops, relays>>

\* The message and every frame on its way are lost with the connection.
Breaks ==
    /\ drops < MaxDrops /\ Room
    /\ drops' = drops + 1
    /\ link' = "down" /\ inbox' = <<>>
    /\ UNCHANGED <<server, edits, calls, peers>>

\* The player state that is edited; statuses are left out.
Base == [queue |-> Snapshot, status |-> None]

-----------------------------------------------------------------------------
(* Leaving a track                                                           *)

\* The stream's current track plays to its end (get_audio_stream) and no navigation
\* of ours is awaited, or a command arrives (_on_next, _on_previous).
Begin(c, op) ==
    /\ ~AtWork(c) /\ op \in Ops[c]
    /\ calls < MaxCalls
    /\ calls' = calls + 1
    /\ IF op = "end"
       THEN stream = "on" /\ ~stopped /\ unadopted = 0 /\ CurrentPlayable(queue) # {}
       ELSE op = "next" => link # "down"
    /\ call' = [call EXCEPT ![c] =
         [Nothing EXCEPT !.pc = "queued", !.op = op,
                         !.baseline = IF op = "end" THEN Baseline ELSE None]]
    /\ lock' = Append(lock, c)
    /\ stream' = IF op = "end" THEN "ending" ELSE stream
    /\ UNCHANGED <<clientVars, stopped, failure, radioVars, netVars, edits, fetched, peers,
                   drops, relays>>

Working(c) == UNCHANGED <<stream, stopped, lock, failure>>

\* Faulty variant of Done: the lock is not released when the caller is cancelled.
DoneHolding(c, outcome, why) ==
    LET ends == call[c].op = "end" /\ outcome \in {"failed", "stop"}
    IN /\ lock' = IF outcome = "cancelled" THEN lock ELSE Tail(lock)
       /\ call' = [call EXCEPT ![c] = Nothing]
       /\ failure' = IF outcome = "failed" THEN call[c].excuse \union why ELSE None
       /\ stopped' = (stopped \/ ends)
       /\ stream' = IF call[c].op # "end" THEN stream
                    ELSE IF stopped' \/ outcome = "cancelled" THEN "off" ELSE "on"

\* The caller is done.  After a natural end, the stream goes on, or ends: also without a
\* stop, when it is the generator that is cancelled.
Done(c, outcome, why) ==
    LET ends == call[c].op = "end" /\ outcome \in {"failed", "stop"}
    IN /\ lock' = Tail(lock)
       /\ call' = [call EXCEPT ![c] = Nothing]
       /\ failure' = IF outcome = "failed" THEN call[c].excuse \union why ELSE None
       /\ stopped' = (stopped \/ ends)
       /\ stream' = IF call[c].op # "end" THEN stream
                    ELSE IF stopped' \/ outcome = "cancelled" THEN "off" ELSE "on"

Holds(c, pcs) == lock # <<>> /\ Head(lock) = c /\ call[c].pc \in pcs

\* The lock is acquired.  Previous computes its index at once, when there is a connection
\* (_on_previous).
Acquire(c) ==
    /\ Holds(c, {"queued"})
    /\ IF call[c].op # "previous"
       THEN /\ call' = [call EXCEPT ![c].pc = "checking",
                          ![c].baseline = IF @ = None THEN Baseline ELSE @]
            /\ Working(c)
       ELSE IF link = "down"
       THEN Done(c, "failed", {"lost"})
       ELSE IF PreviousIndex(Snapshot) = {}
       THEN Done(c, "nothing", {})
       ELSE /\ call' = [call EXCEPT ![c].pc = "moving",
                          ![c].generation = generation, ![c].lineage = lineage,
                          ![c].index = CHOOSE i \in PreviousIndex(Snapshot) : TRUE]
            /\ Working(c)
    /\ UNCHANGED <<clientVars, radioVars, netVars, bounds>>

\* Faulty variant of GiveUp: whether the stream was stopped is not looked at.
GiveUpWhenLost(c) ==
    /\ Holds(c, {"checking", "advancing", "moving"})
    /\ link # "up"
    /\ prefetched' = IF call[c].pc = "advancing" THEN None ELSE prefetched
    /\ Done(c, "failed", {"lost"})
    /\ UNCHANGED <<clientVars, task, netVars, bounds>>

\* _wait_for_ynison_connection gives up: ten seconds without a settled connection,
\* or the stream was stopped.  A prefetched list goes with the outcome of
\* _advance_queue_navigation.
GiveUp(c) ==
    /\ Holds(c, {"checking", "advancing", "moving"})
    /\ link # "up" \/ stopped
    /\ prefetched' = IF call[c].pc = "advancing" THEN None ELSE prefetched
    /\ Done(c, "failed", {IF stopped THEN "stopped" ELSE "lost"})
    /\ UNCHANGED <<clientVars, task, netVars, bounds>>

Connected(c, pcs) == Holds(c, pcs) /\ link = "up" /\ ~stopped

\* _complete_track up to its report that the track is over: Ynison repeats its
\* state with it, or not, or the report is lost with the connection.
Check(c) ==
    /\ Connected(c, {"checking"})
    /\ IF call[c].baseline # Baseline
       THEN Done(c, "superseded", {}) /\ UNCHANGED <<netVars, bounds>>
       ELSE /\ Working(c)
            /\ \/ /\ call' = [call EXCEPT ![c].pc = "advancing"]
                  /\ UNCHANGED <<netVars, bounds>>
               \/ /\ call' = [call EXCEPT ![c].pc = "advancing"]
                  /\ relays < MaxRelays /\ Room /\ Len(inbox) < MaxInbox
                  /\ relays' = relays + 1
                  /\ inbox' = Append(inbox, server)
                  /\ UNCHANGED <<link, server, edits, calls, fetched, peers, drops>>
               \/ /\ call' = [call EXCEPT ![c].pc = "advancing"]
                  /\ Breaks
                  /\ UNCHANGED <<fetched, relays>>
    /\ UNCHANGED <<clientVars, radioVars>>

Running == task.pc # "idle"
OfThisGeneration(list) == list # None /\ list.generation = generation

\* Faulty variant of Expand: a list that is not longer is not fetched once more.
ExpandOnce(c, request, items) ==
    IF Len(items) > request.index
    THEN /\ call' = [call EXCEPT ![c] = [request EXCEPT !.pc = "moving", !.items = items]]
         /\ Working(c)
    ELSE Done(c, "failed", {})

\* A longer list is moved into; any other is taken as the base of another fetch.
Expand(c, request, items) ==
    /\ call' = [call EXCEPT ![c] =
         [request EXCEPT !.pc = IF Len(items) > request.index THEN "moving" ELSE "refetching",
                         !.items = items]]
    /\ Working(c)

\* _complete_track at the end of a RADIO queue: take the prefetched list, wait for
\* the prefetch that is running, or fetch.
Replenish(c) ==
    LET request == [call[c] EXCEPT !.generation = generation, !.lineage = lineage,
                       !.station = Snapshot.station, !.items = Snapshot.items,
                       !.index = Size(Snapshot)]
        behind == Running /\ task.generation # generation
    IN /\ prefetched' = None
       /\ IF OfThisGeneration(prefetched)
          THEN Expand(c, request, prefetched.items)
          ELSE /\ call' = [call EXCEPT ![c] =
                    [request EXCEPT !.pc = IF Running THEN "awaiting" ELSE "fetching",
                                    !.excuse = @ \union (IF behind THEN {"behind"} ELSE {})]]
               /\ Working(c)
       /\ UNCHANGED <<clientVars, netVars, bounds>>

\* advance_queue: the edit is planned and sent; only a RADIO queue that is at its end
\* is left as it is.
Advance(c) ==
    /\ Connected(c, {"advancing"})
    /\ LET outcome == Outcome(Snapshot, call[c].op = "end")
           planned == Navigate([queue |-> Snapshot, status |-> None], call[c].op = "end", None)
       IN IF call[c].baseline = Baseline /\ outcome = "radio"
          THEN Replenish(c)
          ELSE /\ prefetched' = None
               /\ IF call[c].baseline # Baseline
                  THEN Done(c, "superseded", {}) /\ UNCHANGED <<clientVars, netVars, bounds>>
                  ELSE Commit(planned, outcome = "change", 0) /\ Done(c, outcome, {})
    /\ UNCHANGED task

\* The edit cannot be sent; it is tried once more.
AdvanceFails(c) ==
    /\ Connected(c, {"advancing"})
    /\ call[c].baseline = Baseline
    /\ Outcome(Snapshot, call[c].op = "end") # "radio"
    /\ Breaks
    /\ IF call[c].retried
       THEN Done(c, "failed", {"lost"}) /\ prefetched' = None
       ELSE /\ call' = [call EXCEPT ![c].retried = TRUE]
            /\ Working(c)
            /\ UNCHANGED prefetched
    /\ UNCHANGED <<clientVars, task, fetched, relays>>

-----------------------------------------------------------------------------
(* Replenishing a RADIO queue                                                *)

\* The tracks of one answer of the rotor API, appended to a list of a station.
Batches(station, items) ==
    {items \o [i \in 1 .. n |-> Track(station, fetched + i)] :
       n \in {m \in BatchSizes : fetched + m <= MaxFetched}}

\* The awaited prefetch has ended, with a list or without one.
Awaited(c) ==
    /\ Holds(c, {"awaiting"})
    /\ ~Running
    /\ prefetched' = None
    /\ IF generation # call[c].generation
       THEN Done(c, "superseded", {})
       ELSE IF prefetched = None
       THEN Done(c, "failed", {})
       ELSE Expand(c, call[c], prefetched.items)
    /\ UNCHANGED <<clientVars, task, netVars, bounds>>

\* _clear_active_player cancelled the prefetch: its await raises CancelledError.
Cancelled(c) ==
    /\ Holds(c, {"cancelled"})
    /\ Done(c, "cancelled", {})
    /\ UNCHANGED <<clientVars, radioVars, netVars, bounds>>

\* The base of another fetch may be a prefetch of a queue some edits ago, too short for it.
TooShort(r) == IF Len(r.items) < r.index THEN {"short"} ELSE {}

\* _replenish_radio_queue returns a list ...
Fetched(c) ==
    /\ Holds(c, {"fetching", "refetching"})
    /\ \E items \in Batches(call[c].station, call[c].items) :
         /\ fetched' = fetched + Len(items) - Len(call[c].items)
         /\ IF generation # call[c].generation
            THEN Done(c, IF call[c].pc = "fetching" THEN "superseded" ELSE "failed", {"replaced"})
            ELSE IF call[c].pc = "refetching" /\ Len(items) <= call[c].index
            THEN Done(c, "failed", TooShort(call[c]))
            ELSE Expand(c, call[c], items)
    /\ UNCHANGED <<clientVars, radioVars, netVars, edits, calls, peers, drops, relays>>

\* ... or nothing: the API fails or has no tracks.
FetchedNothing(c) ==
    /\ Holds(c, {"fetching", "refetching"})
    /\ Done(c, IF call[c].pc = "fetching" /\ generation # call[c].generation
               THEN "superseded" ELSE "failed", {"api"})
    /\ UNCHANGED <<clientVars, radioVars, netVars, bounds>>

\* Faulty variant of Moved: the index is not moved with the trim.
MovedUntrimmed(c) ==
    IF call[c].items = <<>> THEN SetIndex(Base, call[c].index, None)
    ELSE SetIndexUntrimmed(Base, call[c].index, call[c].items, None)

\* The edit of _advance_queue_index: an index, in a longer list when one was fetched.
Moved(c) ==
    IF call[c].items = <<>> THEN SetIndex(Base, call[c].index, None)
    ELSE SetIndexIn(Base, call[c].index, call[c].items, None)

\* Faulty variant of Move: the generation is not checked.
MoveAnyway(c) ==
    /\ Connected(c, {"moving"})
    /\ Commit(Moved(c), TRUE, 0) /\ Done(c, "change", {})
    /\ UNCHANGED radioVars

\* go_to_index for the generation the index belongs to.
Move(c) ==
    /\ Connected(c, {"moving"})
    /\ IF generation # call[c].generation
       THEN Done(c, "failed", {"replaced"}) /\ UNCHANGED <<clientVars, netVars, bounds>>
       ELSE Commit(Moved(c), TRUE, 0) /\ Done(c, "change", {})
    /\ UNCHANGED radioVars

MoveFails(c) ==
    /\ Connected(c, {"moving"})
    /\ Breaks
    /\ Done(c, "failed", {"lost"})
    /\ UNCHANGED <<clientVars, radioVars, fetched, relays>>

-----------------------------------------------------------------------------
(* The prefetch task                                                         *)

\* _maybe_prefetch for a queue that the state callback sees.
MaybePrefetch(q, newGeneration, newLineage) ==
    LET known == IF prefetched # None /\ prefetched.generation = newGeneration
                 THEN prefetched ELSE None
    IN IF q.radio /\ AtTail(q)
       THEN /\ prefetched' = known
            /\ task' = IF known # None \/ Running THEN task
                       ELSE Fetch(q, newGeneration, newLineage)
       ELSE UNCHANGED radioVars

\* The tracks arrive while their queue is played: they are kept.
Keep(items) == prefetched' = [items |-> items, generation |-> generation]

\* Faulty variant of PrefetchArrives: the generation is not checked.
PrefetchArrivesAnyway ==
    /\ Running
    /\ link # "down" /\ active
    /\ task' = NoTask
    /\ \E items \in Batches(task.station, task.items) :
         /\ Keep(items)
         /\ Commit(ReplaceItems(Base, items), FALSE, Len(items) - Len(task.items))
    /\ UNCHANGED callVars

\* The fetch of the prefetch returns (_do_prefetch).  Its list is kept and published
\* at once, while there is a connection and the device is active; a batch for an
\* older generation is discarded.
PrefetchArrives ==
    /\ Running
    /\ task' = NoTask
    /\ \E items \in Batches(task.station, task.items) :
         LET more == Len(items) - Len(task.items)
         IN IF generation = task.generation /\ link # "down" /\ active
            THEN Keep(items) /\ Commit(ReplaceItems(Base, items), FALSE, more)
            ELSE /\ IF generation = task.generation THEN Keep(items) ELSE UNCHANGED prefetched
                 /\ fetched' = fetched + more
                 /\ UNCHANGED <<clientVars, netVars, edits, calls, peers, drops, relays>>
    /\ UNCHANGED callVars

\* The list is kept but its publication is lost with the connection.
PrefetchDropped ==
    /\ Running /\ link # "down"
    /\ generation = task.generation
    /\ task' = NoTask
    /\ \E items \in Batches(task.station, task.items) :
         /\ Keep(items)
         /\ fetched' = fetched + Len(items) - Len(task.items)
    /\ Breaks
    /\ UNCHANGED <<clientVars, callVars, relays>>

\* The API fails or has no tracks.
PrefetchFails ==
    /\ Running
    /\ task' = NoTask
    /\ call' = [c \in Callers |-> IF call[c].pc = "awaiting"
                                 THEN [call[c] EXCEPT !.excuse = @ \union {"api"}] ELSE call[c]]
    /\ UNCHANGED <<clientVars, stream, stopped, lock, failure, prefetched, netVars, bounds>>

-----------------------------------------------------------------------------
(* The message loop: a frame is parsed and handed to _handle_ynison_state    *)

Own(q) == q.version # 0
Stale(q) == Own(q) /\ lastVersion # 0 /\ q.version < lastVersion
ReplacedBy(q) == ~Own(q) /\ q # queue

\* _clear_active_player cancels the prefetch, and with it who awaits it.
Cleared ==
    [c \in Callers |-> IF call[c].pc = "awaiting" /\ Running
                       THEN [call[c] EXCEPT !.pc = "cancelled"] ELSE call[c]]

Parse(f) ==
    LET settled == Own(f.queue) /\ ~Stale(f.queue)
        handed == f.active # active
        reset == ReplacedBy(f.queue) \/ handed
    IN /\ queue' = IF Stale(f.queue) THEN queue ELSE f.queue
       /\ active' = f.active
       /\ pending' = IF reset \/ settled THEN None ELSE pending
       /\ lastVersion' = IF reset THEN 0 ELSE lastVersion
       /\ unadopted' = IF reset \/ (settled /\ f.queue.version >= unadopted)
                       THEN 0 ELSE unadopted
       /\ generation' = generation + (IF ReplacedBy(f.queue) THEN 1 ELSE 0)
                                   + (IF handed THEN 1 ELSE 0)
       /\ lineage' = lineage + (IF ReplacedBy(f.queue) THEN 1 ELSE 0)
       /\ UNCHANGED navigation

\* A frame is not acted upon while a new connection settles.
HandleFrame ==
    /\ inbox # <<>> /\ link # "down"
    /\ inbox' = Tail(inbox)
    /\ Parse(Head(inbox))
    /\ CASE link = "up" /\ active' ->
              /\ MaybePrefetch(queue', generation', lineage')
              /\ stopped' = FALSE
              /\ stream' = IF stream = "off" THEN "on" ELSE stream
              /\ UNCHANGED call
         [] link = "up" /\ ~active' /\ stream # "off" ->
              /\ prefetched' = None /\ task' = NoTask
              /\ stopped' = TRUE
              /\ stream' = IF stream = "on" THEN "off" ELSE stream
              /\ call' = Cleared
         [] OTHER -> UNCHANGED <<radioVars, stream, stopped, call>>
    /\ UNCHANGED <<lock, failure, link, server, bounds>>

-----------------------------------------------------------------------------
(* The connection, Ynison and the other devices (external)                   *)

Loses ==
    /\ link # "down"
    /\ Breaks
    /\ UNCHANGED <<clientVars, callVars, radioVars, fetched, relays>>

\* A new connection resets the own edits; Ynison answers with its state.
Reconnects ==
    /\ link = "down"
    /\ link' = "settling"
    /\ pending' = None /\ lastVersion' = 0 /\ unadopted' = 0
    /\ generation' = generation + 1
    /\ inbox' = <<server>>
    /\ UNCHANGED <<queue, active, navigation, lineage, callVars, radioVars, server, bounds>>

Settles ==
    /\ link = "settling"
    /\ link' = "up"
    /\ UNCHANGED <<clientVars, callVars, radioVars, inbox, server, bounds>>

PeerAct ==
    /\ peers < MaxPeers /\ Room /\ link # "down" /\ Len(inbox) < MaxInbox
    /\ peers' = peers + 1
    /\ inbox' = Append(inbox, server')
    /\ UNCHANGED <<clientVars, callVars, radioVars, link, edits, calls, fetched, drops, relays>>

\* Another device starts a queue on the active device, a station of its own.
PeerPlays ==
    /\ \E s \in Starts : server' = [server EXCEPT !.queue = Started(s, peers + 2)]
    /\ PeerAct

\* Another device takes playback over, or hands it back.
PeerSwitches ==
    /\ server' = [server EXCEPT !.active = ~@]
    /\ PeerAct

\* Ynison repeats its state.
Relay ==
    /\ relays < MaxRelays /\ Room /\ link # "down" /\ Len(inbox) < MaxInbox
    /\ relays' = relays + 1
    /\ inbox' = Append(inbox, server)
    /\ UNCHANGED <<clientVars, callVars, radioVars, link, server, edits, calls, fetched, peers,
                   drops>>

-----------------------------------------------------------------------------

Step(c) ==
    \/ Acquire(c) \/ GiveUp(c) \/ Check(c) \/ Advance(c) \/ AdvanceFails(c)
    \/ Awaited(c) \/ Cancelled(c) \/ Fetched(c) \/ FetchedNothing(c) \/ Move(c) \/ MoveFails(c)
Prefetch == PrefetchArrives \/ PrefetchDropped \/ PrefetchFails
Environment == Loses \/ Reconnects \/ Settles \/ PeerPlays \/ PeerSwitches \/ Relay

Next ==
    \/ \E c \in Callers : Step(c) \/ \E op \in Kinds : Begin(c, op)
    \/ Prefetch \/ HandleFrame \/ Environment

Spec == Init /\ [][Next]_vars

\* Coroutines run, API calls answer or time out, delivered frames are read.
FairSpec ==
    /\ Spec
    /\ \A c \in Callers : WF_vars(Step(c))
    /\ WF_vars(Prefetch) /\ WF_vars(HandleFrame)

-----------------------------------------------------------------------------
(* Properties                                                                *)

Lists == Seq([station : Nat, n : Int])
Queues == [items : Lists, current : Int, shuffled : BOOLEAN, order : Seq(Int),
           repeat : RepeatModes, radio : BOOLEAN, station : Nat, version : Nat]
Excuses == {"api", "lost", "stopped", "replaced", "behind", "short"}

\* None is neither a list that was prefetched nor an empty set of reasons.
ASSUME HistoryAssumption ==
    None \notin [items : Lists, generation : Nat] /\ None # {}

\* Types of the variables, and a lock that is held or awaited by exactly the callers at work.
TypeOK ==
    /\ queue \in Queues /\ server \in [queue : Queues, active : BOOLEAN]
    /\ inbox \in Seq([queue : Queues, active : BOOLEAN])
    /\ pending \in Queues \union {None}
    /\ active \in BOOLEAN /\ stopped \in BOOLEAN
    /\ {lastVersion, navigation, unadopted, generation, lineage, edits, calls, fetched, peers,
        drops, relays} \subseteq Nat
    /\ link \in {"down", "settling", "up"} /\ stream \in {"on", "ending", "off"}
    /\ \A c \in Callers :
         /\ call[c].pc \in {"idle", "queued", "checking", "advancing", "awaiting", "cancelled",
                            "fetching", "refetching", "moving"}
         /\ call[c].items \in Lists /\ call[c].excuse \subseteq Excuses
    /\ lock \in Seq(Callers)
    /\ \A c \in Callers : Cardinality({i \in DOMAIN lock : lock[i] = c})
                            = IF AtWork(c) THEN 1 ELSE 0
    /\ prefetched # None => prefetched.items \in Lists
    /\ task.pc \in {"idle", "fetching"} /\ task.items \in Lists
    /\ failure # None => failure \subseteq Excuses

Moves(c) == call[c].pc = "moving" /\ call'[c].pc = "idle" /\ edits' # edits
Publishes == Running /\ task' = NoTask /\ edits' # edits

\* Neither a batch nor an index is published into a queue that another device has put in
\* the place of the one it was computed for, however long it was fetched and waited for.
NoObsoleteBatch ==
    [][/\ \A c \in Callers : Moves(c) => call[c].lineage = lineage
       /\ Publishes => task.lineage = lineage]_vars

\* At the end of a RADIO queue playback moves to the first track after the list it ended,
\* whatever has extended and trimmed that queue meanwhile: a list that is longer by no more
\* than the window (set_index in queue_model.py) is never trimmed beyond that track.
SeamLandsOnNext ==
    [][\A c \in Callers :
         Moves(c) /\ call[c].items # <<>> /\ Len(call[c].items) <= call[c].index + Window =>
           CurrentPlayable(pending') = {call[c].items[call[c].index + 1]}]_vars

\* A track that cannot be left has a reason: a lost connection, a stopped stream, no tracks
\* from the API, a change by another device, or a prefetch that is behind.  One that is awaited
\* and gets its tracks leaves a list, unless it was left over from before such a change; and
\* one more fetch makes a list long enough, unless a prefetch of a shorter queue is its base.
FailsForAReason == failure # {}

\* Every end, Next and Previous is answered: nothing waits forever for the navigation
\* lock, a prefetch or the connection.
CompletionAnswers == \A c \in Callers : AtWork(c) ~> ~AtWork(c)

\* publish_items: "Publish an appended playable list without moving".
AppendsWithoutMoving ==
    [][Publishes => CurrentPlayable(pending') = CurrentPlayable(Snapshot)]_vars

\* A RADIO queue goes on as long as there are tracks, a connection and the same queue.
RadioContinues == failure \notin {{"behind"}, {"short"}}

\* No queue mixes the tracks of two stations.
OneStation == \A i \in DOMAIN server.queue.items :
                server.queue.items[i].station = server.queue.station
=============================================================================
