# Verification of ma-provider-yandex-ynison

TLA+ models, model-checking runs and machine-checked proofs for the Ynison provider of
Music Assistant (`src/provider/`). The provider makes one Music Assistant (MA) player
appear as a device of the Yandex Music apps. It keeps a WebSocket to Ynison, the server
that shares one playback state among all devices of an account, edits that state, and
streams whatever the state says is playing.

All of this runs in one asyncio event loop. Nothing is preempted, but every `await` and
every `yield` lets another coroutine, an inbound frame or a callback of MA run. So a
**step of every model is what a coroutine does between two awaits**, and most of the
properties are about what happens in between.

## 1. Inventory

The implementation is the Python code under `src/provider/`. The status of each part is in
`PROJECT.json` too.

| Part | State it keeps | Operations | What makes it correct | Status |
|---|---|---|---|---|
| Reconnect policy (`reconnect_policy.py`) | retry directive, go-away deadline, attempt | parse an error response, adopt a directive, next delay | a ladder is climbed, a go-away window is waited for | modelled |
| Client: transport (`ynison_client.py`) | socket, `_connected`, message task, reconnect task, stop event | connect, redirect, state socket, message loop, error frames, reconnect, token refresh, disconnect | one socket; somebody recovers; unload leaves nothing behind | partly |
| Client: queue and navigation (`ynison_client.py`) | last state, pending and adopted queue, versions, epoch, lineage, navigation baselines, status baseline | advance, previous, append, repeat, shuffle, report status; frames | no advance over playback that changed; own edits compose; an echo is never misread | partly |
| Queue model (`queue_model.py`) | none (pure functions on a player state) | order, next/previous, plan navigation, replace items, set index, repeat, shuffle | no item is heard twice or skipped; a trim keeps the playing item | modelled |
| Playback session (`playback_session.py`) | owner, consumer, session, cursor, restart and stop requests | claim, release, capture, lost, request/consume restart, stop, resume, reset | only a request's own teardown releases its claim | partly |
| Audio stream and state callback (`provider.py`) | the session above, `play_media` calls, one generator per request | `_handle_ynison_state`, `get_audio_stream`, `on_source_selected`, `on_source_unselected` | no track change missed; a pause is silent; a resume plays; superseded streams end | partly |
| Track completion and RADIO (`provider.py`) | navigation lock, prefetched list and its generation, prefetch task | complete, Next, Previous, retry, replenish, prefetch | every completion is answered, into the queue it was meant for, at the track after its end | modelled |
| Playback controls (`provider.py`) | none of their own | play, pause, next, previous, seek, repeat, shuffle | a command applies to the playback it was given for | partly |
| Token cache (`provider.py`, `auth.py`, `credential_source.py`) | LRU cache with expiry, refresh lock | resolve, refresh, invalidate | never the rejected token again | left out: its callers are sequential (section 5) |
| Stream details (`provider.py`) | cached details, the two lookups under way | look up, evict, fetch with three tries, cache; the prefetch with its timeout | only the linked account is heard; the state callback is not held up | modelled |
| Format normalisation (`streaming.py`, `provider.py`) | normalised format, session format | normalise, snap to the player, freeze | the format told is the one delivered (broken, `format`), and one the player supports | partly |
| Progress, metadata, options (`provider.py`) | last progress, published options | sync, publish | deduplicated, not echoed | left out |
| Lifecycle (`provider.py`) | tasks, linked provider | init, unload, match | a track is streamed by the provider that is linked | match and disconnect modelled, the grace of unload left out |
| Setup flow, protocols, tooling | - | - | - | left out |

How they interact. The client's message loop parses a frame, then awaits the provider's
state callback; the callback changes the playback session and may call MA
(`play_media`, `cmd_stop`, `deselect_source`). MA selects the source, drives one
generator per request, and tears it down in two calls that may come late. The generator
reads the client's state at every track boundary, follows the session's restart and stop
requests, and at a natural end asks the client to advance the queue, which sends an edit
under the send lock. Sends, failures of sends, error frames and `unload` all meet in the
reconnect task.

What is hard: peers edit the same queue (interleaving, ABA); echoes come late, out of
step with the send, or not at all; a send fails after it was registered; the connection
is lost between any two steps; several tasks may close or dial; wake-ups are events that
can be consumed too early; teardowns of an older request arrive after the newer one.
The full list, each at its line, is `hazards` in `PROJECT.json`, with the properties that
cover it.

## 2. Modules

| Module | Models | Interacts by |
|---|---|---|
| `QueueModel` | `queue_model.py` as operators on a player state | extended by the next two |
| `QueueEditing` | one player state under any sequence of those calls | stands alone, to find the wrong arithmetic |
| `QueueEditingProofs` | a pass plays each item once, an edit keeps the item that plays | extends `QueueEditing`, `FiniteSetTheorems` |
| `QueueNavigation` | the queue half of `YnisonClient`, Ynison, other devices, the network | extends `QueueModel` |
| `ConditionalStore` | abstract specification: a store whose edits are reserved and conditional | instantiated by `QueueNavigation`, which implements it |
| `QueueNavigationProofs` | theorems about its decisions, generations and types | extends `QueueNavigation`, `FiniteSetTheorems` |
| `QueueReservationProofs` | the proof that `QueueNavigation` implements `ConditionalStore` | extends `QueueNavigationProofs` |
| `QueueEchoProofs` | what echoes settle: the adopted queue, waiting streams, announcements; which edit the next one starts from | extends `QueueNavigationProofs` |
| `TrackCompletion` | how the provider leaves a track, with the navigation lock and the prefetch task | extends `QueueModel`; reduces `YnisonClient` to what it sees |
| `TrackCompletionProofs` | nothing obsolete is published, why a track cannot be left; its types | extends `TrackCompletion`, `FiniteSetTheorems` |
| `TrackSource` | stream details, their cache and retries, the linked provider, the format | stands beside `AudioStream`, which has the claim and the cursor |
| `TrackSourceProofs` | only the own account, opened on the linked provider; its types | extends `TrackSource`, `TLAPS` |
| `ReconnectPolicy` | `reconnect_policy.py` as operators on a record `policy` | extended by the transport |
| `YnisonTransport` | the connection half of `YnisonClient` and unload | extends `ReconnectPolicy` |
| `YnisonTransportProofs` | one socket, a clean unload, go-away windows, waits that grow, somebody recovers; its types | extends `YnisonTransport`, `FiniteSetTheorems` |
| `PlaybackSession` | `playback_session.py` as operators on a record | extended by the stream |
| `AudioStream` | the provider's state callback, generators and MA callbacks | extends `PlaybackSession` |
| `AudioStreamProofs` | a stream holds its claim, is silent when paused, follows the queue; its types | extends `AudioStream`, `TLAPS` |
| `MC...` | instances for TLC: small queues, ladders and sets of items | |

No module declares a RECURSIVE operator, so each can be proved about. Operators named
after a fault and commented "Faulty variant of X" are plausible bugs; the runs' mutants
put them in the place of X to see the property fail.

### QueueNavigation

`queue`, `status`, `active` and `flags` are `client.state`; `pending`, `fresh`,
`lastVersion`, `confirmed`, `epoch`, `lineage`, `navVersion`, `unadopted`, `navStatus`,
`revision`, `known` and `marks` are the client's underscored fields (the declaration
names each). `caller[c]` is a coroutine inside a call: it decides (takes a baseline),
waits for the send lock in FIFO order, computes the edit against `Snapshot`, sends, and
comes back with success or failure. The server keeps the last writer's state, echoes it
with its version block, and may skip the echo of a write that another follows. Frames are
parsed in order, possibly while a send is in flight. A lost connection drops what is on
the wire; reconnecting resets the pending queue (`ResetPendingQueue`).

Versions are 1, 2, 3... in place of `time_ns`: only their order is used. The item at the
end of a queue ends the track at `End`, and positions are `0` or `End`.

### ConditionalStore, and how QueueNavigation implements it

What the serialized edits promise can be said without versions, epochs, baselines or
echoes. A writer *reserves* when it decides, others *break* reservations, and a write is
accepted only under an unbroken one; a broken reservation is never mended, except that a
write which fails has broken nothing. The mapping (`Store` in `QueueNavigation`):

| Abstract | In `QueueNavigation` |
|---|---|
| `reserved` | the callers inside an edit, from the decision to the result |
| `writing` | the holder of the send lock |
| `broken[c]` by `"others"` | for an advance a peer's queue or command, or a new generation while it waits for the lock; for any other edit a new generation |
| ... by `"accepted"` | for an advance, a navigation of ours that was sent after the decision |
| ... by `"under way"` | ... one whose send has not returned yet |

`EditsAreConditional == Store!Spec` is a property of `losses`, where sends fail, are
retried, and the connection comes back with another queue; and it is proved (section 4).
What the mapping leaves out is what the code leaves out: a device that becomes active and
passive again breaks nothing (`MCHandover`).

### TrackCompletion

`call[c]` is a coroutine that leaves a track: the stream at a natural end, or a command.
`lock` is `_queue_navigation_lock` with those who wait for it, `task` the prefetch task,
`prefetched` the list it left with its generation. A caller checks its baseline and
reports the end (`Check`), advances (`Advance`), and at the end of a RADIO queue takes the
prefetched list, awaits the task or fetches (`Replenish`), before it moves (`Move`). Each
of these may wait for the connection and give up. `HandleFrame` is the message loop: it
adopts a frame and, once the connection has settled, starts a prefetch near the tail or
clears a stream whose device became passive, which cancels the prefetch and whoever
awaits it. `generation` and `lineage` are `_queue_epoch` and `_queue_lineage`: the code
compares the first, the properties speak of the second. An edit is checked and sent in
one step, since `QueueNavigation` has the send lock; positions and pauses are left out.

### TrackSource

A provider object is a number, so that a reload is another object of the same account.
`fetch[w]` is a lookup of stream details, for the stream or for the format prefetch of the
state callback. `params` is the normalised format, `outer` the one Music Assistant was
told, `session` the one the generator froze. `chunk` records where the newest chunk came
from. The cache may hold details of another account, as an older version wrote them.

### YnisonTransport

`loop[s]` is the message loop of socket `s`, `conn` is `connect()`, `recon` the reconnect
task, `stopping` the `disconnect()` called by unload. Each dial is two steps (redirector,
then the state socket and its greeting), each close one step in which others run. The
environment commits `MaxFaults` faults from `Faults`: a lost socket, a refused or
malformed answer, a redirector reply without ticket, an error response, a crash of the
callback, a rejected or temporarily unavailable refresh.

### AudioStream

`handler` is the message loop inside the state callback: it stops at the session
parameters a device sends when it becomes passive (`muting`), at the format lookup of
`_activate_playback` (`formatting`), and at `cmd_stop` (`stopping`, `stopped`). `stream[g]`
is the generator of session `g`, at one of the awaits and yields of `get_audio_stream`:
waiting for a first track, opening, playing, its track ended, completing, replenishing,
following (about to check for a new track) and dozing (waiting for an update). `ma[g]` is
MA's side of the session: chosen (request made), selecting (the previous consumer is being
stopped), selected, closing, closed. `Acts` says what others may do and `MaxActs` how
often in all; `allowSwitch` is the configuration entry, chosen at setup and then fixed.

Positions, and so the echo grace window, are abstracted; a seek arrives already
classified. Items are occurrences: two of the three instance items are the same track, so
a move that changes the index alone can be told apart.

### Assumptions about the outside

* MA gives every request a fresh session id, supersedes the previous request of an
  owner, and once a request is selected starts its generator before it selects another
  (`Claims`). It closes a generator and calls `on_source_unselected` in either order.
* `play_media` for a protocol bridge finds no queue and does nothing.
* Players do not vanish, so `_get_target_player_id` always has a target.
* A send that was writing to a socket has returned before the next socket is open, and
  `connect()` starts its loop before the shortest reconnect wait (1 s) is over.
* The clock that versions edits grows.
* After every dial the client announces itself with an empty state (`send_full_state` in
  `_connect_state`). Ynison is assumed to keep the state it has and to answer with it, so
  `Reconnects` sends nothing. What an empty state would do to a server that adopted it is
  outside these models.
* The rotor API and the linked provider may answer, fail or answer late; nothing else is
  assumed of them. Their answers carry new tracks.

## 3. Runs

Passing runs, and what each shows:

| Run | Question | Bounds |
|---|---|---|
| `queue_editing` | do the queue functions keep shuffle, order, playing item and window consistent over any sequence of edits? | 5 items ever, window 3, batches of 2: lists are shorter, equal and longer than the window |
| `peers` | can two actions of other devices hide from the baseline, make an answer misread, or leave the adopted queue wrong? | 2 callers (Next, repeat), 3 events of which at most 2 own edits and 2 peer actions of any of six kinds, 2 frames in flight |
| `losses` | does anything of an old session survive a reconnect, and are all edits conditional stores, retries included? | 3 events of 2 own edits, a pause report, a peer's queue and 2 lost connections, so the retry may fail too; one list, whose two items are the same track |
| `own_edits` | do own edits compose while echoes are late or skipped, and does an edit behind a skip stay on its item as long as our own edits alone built the queue? | 2 own edits of any of six kinds and an option edit of a peer; a RADIO list of two items that an append trims (window 2), 3 frames in flight |
| `directives` | one socket, ladders, go-away windows, clean unload, under any faults | 2 sockets, ladder of 2 rungs, 3 faults, 1 expiry |
| `recovery` | does the client come back? does unload end? | the same, with fairness |
| `completion` | is every end, Next and Previous answered, with a reason when it fails, and does nothing obsolete reach the queue? | 2 callers, 2 completions, 2 tracks from the API one at a time, 2 events of a peer's queue or handover, a lost connection and a repeated frame; window 2, so an append trims |
| `tracks` | is only the linked account heard, opened on the linked provider, and is nothing held up? | 2 loads of the provider, a player with one other rate, 2 tries, a format the code does not allow, a cache of another account |
| `streaming` | is a track change missed, a pause played over, or a claim released by an old teardown? | 2 sessions, 2 owners, a bridge, 3 items, 3 acts of any of seventeen kinds; the sessions are interchangeable (`AnySession`) |
| `reselecting` | does a stream play whenever playback is here, and does a superseded one end? | 3 acts: the device changes up to three times (here, away, here), requests by hand, queue changes; with fairness of the generator alone |

The bounds are the smallest at which the competing events fit: two edits are needed for
an edit on top of an unconfirmed one, two peer actions for an ABA, three frames for an
echo that is overtaken, two sessions for a reconnect, three device changes for playback
that comes back. The calls that publish nothing are not bounded: a caller may decide, be
refused and decide again for ever. `MaxEvents` and `MaxActs` bound the sum of the events
rather than each kind, so that each combination of that many is explored.

An instance with three edits, by Next, a natural end and changes of repeat
(`MCThreeEdits.cfg`), passes as well; it is no run of its own.

`SkipNotUndone` has a premise on the behaviour, not on the bounds: `history.ours`. It is
lost when an edit of a peer is read and when an append is published whose list was not
computed for the queue it extends (`UpToDate`), until the next navigation of ours. Without
it the claim (`SkipAlwaysStands`) is false of the code, in the first case (`MCSkipUndone`)
as in the second (`MCSkipAppended`). The first is within the bounds of `own_edits`, so the
run meets it; the theorem has the same premise and no bound.

In `completion` and `tracks` the adversary is bounded in number and not in time: a fetch may stay under way
across any of the events. `streaming` has neither
`preload` nor fairness; `reselecting` leaves out pauses and stops by hand, because after
those the code does not keep `PlaysWhenAsked` (below).

Each property of a passing run has a mutant: a definition replaced by its faulty variant,
under which TLC finds the property violated.

### Disagreements between the code and its documents

Two are runs of one property that TLC refutes; `findings` in `PROJECT.json` quotes the
document.

| Run | What happens |
|---|---|
| `gives_up` | A redirector reply that does not parse ends the reconnect task for good, although `_reconnect` says the plugin never permanently gives up. |
| `format` | `get_stream_details` declares the format of that moment, the generator freezes that of a later one; a provider check in between makes the audio differ from what MA was told, although `get_audio_stream` says they match. |

The others met while modelling are kept as properties with a configuration each, to be
run by hand (`tlc -config MCResume.cfg MCAudioStream`): TLC refutes each of them.

| Configuration | Property | What happens |
|---|---|---|
| `MCHandover` | `NoAdvanceAfterHandover` | The active device leaves and comes back between decision and send: the advance is published, although `is_current_playback` says that an active-device change invalidates it. |
| `MCRadioSuperseded` | `PeerQueueContinues` | A peer's queue that arrives while RADIO items are published stops playback, although `CHANGELOG.md:84-85` says it continues with the new queue. |
| `MCAppend` | `AppendsWithoutMoving` | A repeated frame with the shorter list starts a prefetch from it although a longer list was just published and moved into; its answer replaces the appended tracks, and the current item changes (`publish_items`: "without moving"). |
| `MCRadioContinues` | `RadioContinues` | At the end of a new RADIO queue the completion awaits a prefetch that belongs to the old one, gets nothing, and the stream ends although the API would have had tracks (`CHANGELOG.md:1241`). |
| `MCShortPrefetch` | `RadioContinues` | A prefetch starts from the queue a frame brought, which lacks what was appended since; the end takes its list, fetches once more, and the list is still too short: the stream ends although the API answered every time (`CHANGELOG.md:1241`). |
| `MCStations` | `OneStation` | The late echo of our own edit is adopted after a peer's queue without a new generation; tracks of one station are appended to the queue of another (`CHANGELOG.md:257-258`). |
| `MCSlot` | `PlaysWhenAsked` | No slot of the linked provider is free: the stream ends, nobody asked it to, so its consumer stays and selecting the device again starts nothing. |
| `MCEarlyEcho` | `BaseConverges` | The echo of an edit and a peer's option edit are read before the send returns; the edit is then remembered as pending and hides the peer's for thirty seconds (`mutate_player_state`; the comment in `_accept_queue`). |
| `MCPauseUndone` | `PauseNotUndone` | The late echo of an older edit drops the status of the newer navigation; the next edit publishes the position from before a pause (`CHANGELOG.md:35-36`). |
| `MCSkipUndone` | `SkipAlwaysStands` | A peer's option edit from before our Next clears the pending base; the next edit takes the Next back, although `mutate_player_state` promises to serialize a change "against the latest successfully sent queue". One of the two cases that `SkipNotUndone` leaves out. |
| `MCSkipAppended` | `SkipAlwaysStands` | An append computes its list from our pending edit, which expires unanswered before a Next from the older queue; the append then puts another item under the current index. It takes three edits and thirty seconds. The other case left out. |
| `MCPrevious` | `PreviousMeansPrevious` | Previous computes its index outside the serialized edit; a trim moves it. |
| `MCShuffledRadio` | `WindowKept` | A shuffled RADIO queue is never trimmed (`README.md:127-128`). |
| `MCExpiresTwice` | `Recovers` | The token is refreshed once per run of the reconnect task: a deliberate bound, but not what the docstring says. A redirector reply without host or ticket is taken for a rejected token too (`ynison_client.py:1156-1157`) and uses up the refresh: with `"ticketless"` among the faults of `MCRecovery` one expiry is enough. So `recovery` leaves such replies out, as it does malformed ones; `directives` has both. |
| `MCOrphan` | `NoCallbackLeft` | A callback outlives its message task and unload. |
| `MCResume` | `PlaysWhenAsked` | A pause while `play_media` is outstanding leaves no mark, and the resume starts nothing. |
| `MCStoppedByHand` | `PlaysWhenAsked` | After a stop in MA, selecting the device in the app starts nothing. |
| `MCTeardownRace` | `HeartbeatHarmless` | The end of a superseded stream clears its successor's cursor; the next heartbeat restarts the track. |
| `MCBridge` | `SelectsAQueue` | After a queue ended on a bridge, `play_media` names the bridge. |
| `MCPreload` | `PreloadSurvives` | A preloaded stream binds itself to the claim of an older request and is lost when its own is selected. |
| `MCOthersQueue` | `NeverAdvancesOthers` | A natural end just after another device became active advances that device's queue. |

### Fairness

Safety runs assume none. `YnisonTransport`: the event loop resumes every coroutine (weak
fairness on `Connect`, `Recon`, each `Loop`, and the steps of unload); a socket that keeps
failing is noticed although frames keep coming (strong fairness on `LoopBreaks`). Faults
are never fair: they are bounded, so that "eventually connected" is asked of the time
after the last one. `AudioStream` (`FairSpec`): MA keeps driving a generator and the event
loop resumes it (weak), and a waiter whose deadline is absolute times out however often a
state frame wakes it (strong, on `TimesOut`). Nothing is assumed of MA's teardowns there,
so `SupersededEnds` says that a superseded stream ends by itself. `TrackCompletion`
(`FairSpec`): coroutines run on once what they wait for is there, an API call returns or
times out, a delivered frame is read; the connection need never come back, since the wait
for it is bounded by ten seconds. `TrackSource` (`FairSpec`): the timeout of the prefetch
fires, a provider check that is due runs, and a stream that plays gets a chunk, ends or
fails; neither the cache nor the provider has to answer.

`CHECK_DEADLOCK FALSE` is set where the bounds stop the system: the last edit, act or
fault is used up, or the provider is unloaded.

## 4. Proofs

`QueueNavigationProofs` proves, for all callers, operations, peer queues and bounds:

* `AdvanceIsNotOvertaken`: `NoOvertakenAdvance`. An advance is published only if nothing
  overtook the decision except a change of the active device (which the code compares by
  value; `MCHandover` shows that this one can be hidden).
* `OneAdvancePerEnd`: `NoDoubleSkip`. No navigation of ours passed a natural end that is
  published.
* `PendingEditsAreCurrent`: `GenerationsAgree`. A pending queue, the newest own version
  and an unadopted navigation belong to the current epoch while the connection is up.

None of the three is inductive: they speak about what the history says at the moment of
publication, and a step must be ruled out in which the comparison of a baseline succeeds
although something happened. The invariant `IInv` records why it cannot: `lineage`,
`revision`, `epoch` and `clock` only grow, each decision keeps their values from when it
was taken (`Decided`), and what overtook it made one of them strictly greater. For a send
in flight `InFlight` records what its failure restores, so that putting back `previous`
never steps below a counter that a decision relies on; `Current` says that everything
pending was born in this epoch. `InitIInv`, one lemma per action of `Next`, and
`Invariance` carry it.

The same module proves `TypeCorrect`: `TypeOK`. It cannot be proved from the
client's fields alone: what they hold comes from frames, a frame from what the server
keeps, and that from a message of ours or an act of a peer. `TInv` types all of them
together (queues by the fields that edits keep and their version block, sequences of
messages and frames, what a call in flight sent and what its failure restores), and it
holds on top of `IInv`, which knows that the holder of the lock is sending. That no own
version beyond those handed out is ever taken for confirmed rests on `Self # Peer`.

The proofs use the named assumptions of `QueueNavigation` and `QueueModel` (device ids
are distinct, `None` is no caller, callers make known operations, a peer's queues are
queues and none is `None` or `Absent`, nor is what a navigation replaced taken for `None`,
bounds are natural numbers, a track has a positive length), and nothing about the sizes of the sets.

`QueueEchoProofs` proves what happens when frames are late, skipped or behind each other:
`QueuesConverge` (`AdoptedConverges`: once the wire is empty and every frame is read, the
adopted queue is what Ynison keeps), `WaitingSettles` (`NobodyLeftWaiting`) and
`OneAnnouncement` (the action property `AnnouncedOnce`). Four steps deliver or drop an echo
and none of them knows what the others did, so `EchoInv` follows one of our versions on
its whole way. `Ordered`: the versions of our edits grow along the wire and along the
inbox, and what is stored or was read is older than what is on the wire. `Reaches`: the
newest version, and that of the edit being sent, is on its way or was overtaken by one
that is. `Converging`: what is read last is what the server keeps. `Registered`: a
navigation remembers an older one. `Awaiting`: what a stream waits for is not behind the
navigation whose echo is awaited. `Owed`: that navigation was not announced, nor was the
one its failure would put back. An echo the server skips is answered for by the one of the
write that followed it; that is where the order is needed. TLC checked `EchoInv` on the
instances of `peers`, `losses` and `own_edits` before it was proved.

Two theorems of that module say what the next edit starts from. `EditsCompose`
(`OwnEditsCompose`) follows from `Composed`: while the newest own edit is younger than
thirty seconds and no other device edited the queue since, `lastVersion` is its version,
and it is either pending or an echo of it, or of a later one, was adopted. `SkipsAreKept`
proves `SkipNotUndone` for every set of callers, operations and queues and for every act of
the other devices; the premise is in the property, step by step. `Aimed` is the invariant:
while a navigation waits for its echo and `history.ours` holds, the pending queue is at the
item it went to, and so is the edit being sent; an echo that would clear the pending queue
is at least as new as `lastVersion`, hence as the navigation, and ends the wait.
`EditStays` says that an option edit stays on the item, `AppendStays` that an append does
which extends the list it finds, also where the trim moves the index.

`QueueReservationProofs` proves `Implementation`: `Spec => EditsAreConditional`. Each step
of `QueueNavigation` is a step of `ConditionalStore` or leaves its variables alone. Most of
the work is in two steps: a navigation that is published (`Commit` breaks the reservations
of the advances that have `passed` it from now on) and the end of its send, where
`InFlightMove` becomes empty, so that what was `"under way"` is `"accepted"` or, when the
send failed, never was. It rests on `IInv` and `TInv`: that versions are new tells the
navigation in flight from all earlier ones.

`TrackCompletionProofs` proves `OnlyCurrentBatches`: `NoObsoleteBatch`. The code compares
generations and the property speaks of lineages; `CInv` closes the gap: what a caller or
the prefetch task took down of a generation that is still current belongs to the current
lineage, because a frame begins a new lineage only together with a new generation
(`ParseAdvances`). `TypeCorrect` proves `TypeOK` from `TInv`, of which `Turns` is the part
that matters: each coroutine at work has exactly one place in the line for the lock, and
whoever is past the wait is at its head. `ReasonsForFailure` proves
`FailsForAReason`. `WInv` follows a prefetch that is awaited: only the head of the line is
past the wait (`Leading`), the task and the list it left, when they are of the current
generation, are of an active device, since a handover begins a generation (`Live`,
`Kept`), and whoever awaits the task has a reason, the running task, or the list it left
(`Expecting`). TLC checked `WInv` before it was proved. That a list is long enough after
one more fetch (`LongEnough`) is true of every list but one: a prefetch that started from
a queue shorter than the one that ended leaves a list that may lack more than the batch
brings. The reason `"short"` names it, and `MCShortPrefetch` shows it. An earlier
`FailsForAReason` had no such reason and held within the bounds of `completion`; the proof
did not go through there, and TLC found the behaviour with wider ones.

`SeamIsTheNextTrack` proves `SeamLandsOnNext` from `SInv`: the list an end is about to
move into has an item at the index it moves to (`Ahead`), and `TrimKeepsTheSeam` says that
`set_index` drops no more than what is before it, so the item is found as many places
nearer to the front. The premise of the property, a list that is longer than that index by
no more than the window, is needed: a longer list is trimmed up to the current item of the
queue the edit is made to, and when several unadopted edits have moved that item beyond
the index, the index that is published is negative. It takes a list of more than
`QUEUE_WINDOW` = 200 tracks (`queue_model.py:15`) after the end. Nothing is claimed of it.

`HistoryAssumption` says that `None` is neither a record nor a set.

`QueueEditingProofs` proves, for every queue size, window and permutation that a shuffle
may draw, `TypeCorrect` (`TypeOK`), `EachItemOnce` (`NoItemHeardTwice`),
`ShuffleIsComplete` (`ShuffleSkipsNothing`), `EditsKeepPlaying` (`EditsKeepTheItem`) and
`RadioGoesOn` (`RadioAdvanceIsContiguous`). `EInv` has four parts. `Shape`: the indices are
inside the list. `Listed`: the list is the newest items in the order they came, whatever
was trimmed, and a shuffled order is an arrangement of its indices. `Pass`: what was heard
in this pass is a run of the order that ends with the current item. `Ended`: at the end of
a pass that run starts at the first place. That a drawn permutation misses no index is a
pigeonhole argument (`FS_Injection`): it is stated as a sample without repetition, as
`random.sample` is.

`TrackSourceProofs` proves `OnlyOwnAudio` (`LinkedAccountOnly`) and `OpenedOnLinked`
(`OpensOnLinked`) from `SInv`: whatever details a lookup, the cache's writer or the stream
holds are those of the own account, and a stream that has begun has a session format.
`TypeCorrect`
(`TypeOK`) needs what the lookups and the cache hold beside it, and that a snapped rate is
the rate itself or one the player supports: the largest and the smallest supported rate
exist because every nonempty set of numbers has a least element.

`YnisonTransportProofs` proves `HoldsOneSocket` (`OneSocket`), `ConnectedClientsAreRead`
(`ConnectedIsRead`), `UnloadLeavesNothing` (`NothingLeftBehind`) and `WindowsAreKept`
(`DialsOutsideWindow`), for any error responses, ladders and faults, from `TInv`. Nothing in
the code says that `connect()` and the reconnect task exclude each other; `Turns` states
why they do: the task is only scheduled by something that happens after `connect()` opened
or failed, and from there on it closes what it finds before it dials. While either dials
nothing is open, so no frame is read that could ask for another window, and what was asked
is what the policy holds (`Window`). `Offline` is what `ConnectedIsRead` needs: whoever
schedules a reconnect has marked the client as disconnected first. It rests on the two
assumptions on timing that the module's head names. `SomebodyAlwaysRecovers` proves
`SomebodyRecovers` when no reply is malformed; the run `gives_up` violates it with one.
`TypeCorrect` (`TypeOK`) types whatever a server sends in an error, and `WaitsGrow`
(`BacksOff`) says that the waits of one series of failures never shrink: the built-in
ladder rises (`LadderAssumption`, true of `RECONNECT_DELAYS`), a ladder of the server is
sorted when it is parsed, the index only climbs until a healthy connection, and a
directive that would change the ladder in mid-series changes the key of the series too.

`AudioStreamProofs` proves `TypeCorrect` (`TypeOK`) for every set of acts, and under
`"preload" \notin Acts` the three properties of a stream that sends: `HoldsTheClaim`
(`ClaimHeld`), `SilentWhenPaused` (`PausedIsSilent`) and `FollowsTheQueue`
(`FollowsYnison`). The hypothesis is the one the runs `streaming` and `reselecting` make,
and cannot be dropped: a stream that is preloaded begins before its request is selected, with
no claim or with that of another request, and `MCPreload` shows what follows. Without it
a stream begins only once its request is selected, so the token it keeps is the claim of
its own request, and when a later request is selected its claim is another. `AInv` draws
the conclusions: at most one stream can sound (`Claimed`), a superseded one neither
releases the claim (`ClaimHeld`) nor takes a restart or a stop that was meant for its
successor; a pause that the handler has carried out (`Handling`) is in the session's
request or the stream has ended (`Silenced`); and as long as the stream plays another
item than the cursor's, the request to change is still there (`CursorKnown`, `Following`).

`PlaysOnRequest` proves `PlaysWhenAsked`, provided that nobody does one of six things. For
four of them a configuration shows that the code forgets what Ynison asked for (pause,
`MCResume`; stop, `MCStoppedByHand`; slot, `MCSlot`; bridge: a `play_media` that names the
bridge starts nothing, `MCBridge`). A preloaded stream may have no claim (above), and TLC
finds that an unloaded provider breaks it too: a generator that halts stops the player, and
with it a request that was chosen meanwhile. `PInv` says why nothing else does. `Standing`:
what was asked has a consumer, and no stop came after it, since every stop that a stream
asks for, and the change of the active device, ends what was asked. `Engaged`: a consumer
that nothing was asked to stop is served, by a `play_media` that is under way, by a request
that will have the claim, or by a live stream that has it. `Named`: only requests that may
have the source count, so that a refused one, or the teardown it causes, takes nothing from
the others. `Claimed` ties the two together: a stream whose claim stands is of the session
that claimed, so whatever closes, ends or is forgotten is another one. TLC checked `PInv`
before it was proved, with all the acts the theorem allows.

Facts about all numbers, where the library's induction cannot be used because it takes an
operator, are proved from the least number that would violate them (`WFMin` with
`NatLessThanWellFounded`): the order of a ladder, the extreme elements of a set.

Only model-checked: every liveness property, since liveness under fairness and ENABLED are
outside the prover's reach. Every safety property of a passing run has a theorem.

## 5. Not modelled

* Positions and time: drift classification, the grace window, status watermarks, the
  two-second deduplication, estimated progress, the PCM padding of an interrupted track.
* The token cache. `_resolve_token` runs once at start and `_refresh_ynison_token` only
  inside the one reconnect task, and each refresh invalidates the entry it looks up. So no
  two callers meet, and the second look under the lock, the reuse of a cached token and
  the LRU bound are never reached together with another caller. `YnisonTransport` has the
  three outcomes of a refresh.
* The configured bit depth and invalid configured values, the throttler, the backoff.
* Progress sync, metadata, source options, config entries and the setup flow.
* The restart after a Next on a repeated track (`_on_next`), and the grace of unload.

Hazards no property covers are listed in `PROJECT.json` with the reason.

## 6. Plan

Modelled first, because a wrong advance is the fault a listener notices most: the queue
model, navigation with its proofs, the transport, the audio stream; then the completion
of a track, the source of its audio, and the refinement. What would come next:

1. `StatusReports`: watermarks, relay detection and deduplication, with a small clock; own
   seeks and pauses.
2. A sender process in `YnisonTransport`, and muted events in `AudioStream`.
3. Proofs: `BaseConverges` for senders that return before their echo is read.
