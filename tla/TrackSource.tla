----------------------------- MODULE TrackSource -----------------------------
(***************************************************************************)
(* Where the audio of a track comes from, and in which format it leaves    *)
(* (provider/provider.py): the linked Yandex Music provider comes, goes    *)
(* and is reloaded while stream details are looked up in the cache or      *)
(* fetched with retries, by the stream and by the format prefetch of the   *)
(* state callback; the stream waits for a slot of the provider and yields  *)
(* its audio as PCM in the format that was normalised for the session.     *)
(*                                                                         *)
(* A provider object is a number: a reload makes a new one of the same     *)
(* account.  One stream at a time; which track plays, restarts and claims  *)
(* are in AudioStream.  Music Assistant, its cache, the linked provider    *)
(* and the player are external.                                            *)
(***************************************************************************)
EXTENDS Integers, FiniteSets, FiniteSetsExt

CONSTANTS
    None,           \* Python's None
    Tracks,
    Format,         \* Format[t]: the source format of track t, [rate, depth]
    Players,        \* sets of sample rates the target player may support
    Valid,          \* _VALID_SAMPLE_RATES
    Floor,          \* the rate without a hint, 44.1 kHz
    ConfiguredRates,\* output_sample_rate: a rate, or None for "auto"
    MaxAttempts,    \* _API_MAX_RETRIES
    MaxLoads,       \* bound: provider objects that are loaded
    Lossless,       \* those of them that have a lossless quality tier
    MaxChecks       \* bound: provider checks that are due at a time

Depths == {16, 24}
Formats == [rate : Nat, depth : Nat]

ASSUME FormatAssumption == Format \in [Tracks -> Formats]
ASSUME RateAssumption ==
    /\ Floor \in Valid /\ Valid \subseteq Nat /\ IsFiniteSet(Valid)
    /\ \A rates \in Players : rates \subseteq Nat /\ IsFiniteSet(rates)
    /\ ConfiguredRates \subseteq Nat \union {None} /\ None \notin Nat
ASSUME BoundAssumption == MaxAttempts \in Nat \ {0} /\ MaxLoads \in Nat /\ MaxChecks \in Nat

VARIABLES
    loaded,     \* the provider object Music Assistant has, 0 without one
    loads,      \* how many there were
    available,  \* the objects that are available
    checks,     \* _check_yandex_provider_match tasks that are due
    linked,     \* _yandex_provider, 0 for None
    params,     \* _normalized_params
    rates,      \* the sample rates of the target player, {} when not known
    configured, \* the configured rate, None for "auto"
    cache,      \* cached stream details of each track, or None
    fetch,      \* the fetches of the two workers
    plays,      \* play_media has been spawned
    outer,      \* the format Music Assistant was told (get_stream_details), until it streams
    session,    \* the format of the streaming session, None without one
    stream,     \* what the stream is doing
    chunk       \* history: where the newest chunk of the track came from, or None

linkVars == <<loaded, loads, available, checks, linked>>
formatVars == <<params, rates, configured>>
streamVars == <<outer, session, stream, chunk>>
vars == <<linkVars, formatVars, cache, fetch, plays, streamVars>>

Workers == {"prefetch", "stream"}
Accounts == {"own", "other"}
Details == [account : Accounts, format : Formats]
NoFetch == [pc |-> "idle", track |-> None, object |-> 0, attempt |-> 0, details |-> None]
Off == [pc |-> "off", track |-> None, object |-> 0, details |-> None]

-----------------------------------------------------------------------------
(* The normalised format                                                     *)

\* _snap_rate_to_player
Snapped(rate) ==
    LET below == {r \in rates : r <= rate}
    IN IF rates = {} \/ rate \in rates THEN rate
       ELSE IF below # {} THEN Max(below)
       ELSE Min(rates)

\* Faulty variant of Normalized: the hint is taken as it is.
NormalizedUnchecked(provider, hint) ==
    IF hint # None
    THEN [rate |-> IF configured # None THEN configured ELSE Snapped(hint.rate),
          depth |-> hint.depth]
    ELSE [rate |-> IF configured # None THEN configured ELSE Snapped(Floor),
          depth |-> IF provider \in Lossless THEN 24 ELSE 16]

\* _update_normalized_format, with the provider that is linked by then; the hint is a
\* format or None.
Normalized(provider, hint) ==
    LET depth == IF provider \in Lossless THEN 24 ELSE 16
        base == IF hint # None /\ hint.rate \in Valid THEN hint.rate ELSE Floor
    IN [rate |-> IF configured # None THEN configured ELSE Snapped(base),
        depth |-> IF hint # None /\ hint.depth \in Depths THEN hint.depth ELSE depth]

Init ==
    /\ loaded \in {0, 1} /\ loads = loaded
    /\ available = 1 .. loaded
    /\ checks = 1 /\ linked = 0
    /\ rates \in Players /\ configured \in ConfiguredRates
    /\ params = [rate |-> Floor, depth |-> 16]
    \* An older version may have cached details of another account.
    /\ cache \in [Tracks -> {None} \union [account : {"other"}, format : {[rate |-> Floor,
                                                                         depth |-> 16]}]]
    /\ fetch = [w \in Workers |-> NoFetch]
    /\ plays = FALSE
    /\ outer = None /\ session = None /\ stream = Off /\ chunk = None

-----------------------------------------------------------------------------
(* The linked provider (external) and the check for it                       *)

Signals == checks < MaxChecks /\ checks' = checks + 1

\* A provider is loaded or reloaded; unloading one may leave it available.  Each is
\* announced.
Loads ==
    /\ loads < MaxLoads /\ Signals
    /\ loads' = loads + 1 /\ loaded' = loads'
    /\ available' \in {available \union {loaded'}, (available \ {loaded}) \union {loaded'}}
    /\ UNCHANGED <<linked, formatVars, cache, fetch, plays, streamVars>>

Unloads ==
    /\ loaded # 0 /\ Signals
    /\ loaded' = 0
    /\ available' \in {available, available \ {loaded}}
    /\ UNCHANGED <<loads, linked, formatVars, cache, fetch, plays, streamVars>>

\* The provider loses or regains its account; or any other provider changes.
Announced ==
    /\ Signals
    /\ available' \in {available, available \union {loaded}, available \ {loaded}} \ {{0}}
    /\ 0 \notin available'
    /\ UNCHANGED <<loaded, loads, linked, formatVars, cache, fetch, plays, streamVars>>

\* _check_yandex_provider_match: the format is set anew, without a hint.
Check ==
    /\ checks > 0
    /\ checks' = checks - 1
    /\ linked' = loaded
    /\ params' = IF loaded # 0 THEN Normalized(loaded, None) ELSE params
    /\ UNCHANGED <<loaded, loads, available, rates, configured, cache, fetch, plays,
                   streamVars>>

\* Another player becomes the target.
PlayerChanges ==
    /\ rates' \in Players
    /\ UNCHANGED <<linkVars, params, configured, cache, fetch, plays, streamVars>>

\* _linked_provider_is_current
Current(object) == object # 0 /\ linked = object /\ object \in available

-----------------------------------------------------------------------------
(* _get_stream_details_with_retry, for the stream and for the prefetch       *)

Lookup(w, t) ==
    fetch' = [fetch EXCEPT ![w] = [NoFetch EXCEPT !.pc = "looking", !.track = t,
                                                  !.object = linked]]

Fetching(w) == fetch[w].pc # "idle"
Drop(w) == [fetch EXCEPT ![w] = NoFetch]

Streaming(s) ==
    /\ stream' = s /\ chunk' = None
    /\ UNCHANGED <<outer, session>>

\* playback.request_stop: the generator ends.
StopStream == Streaming([Off EXCEPT !.pc = "ended"])

\* The prefetch is over; the player is asked to play.
Spawn(format) ==
    /\ params' = format
    /\ plays' = TRUE
    /\ UNCHANGED <<rates, configured, streamVars>>

\* Details for the prefetch adapt the format; the stream first looks whether its
\* provider is still linked.
Got(w, details) ==
    /\ fetch' = Drop(w)
    /\ IF w = "prefetch"
       THEN Spawn(Normalized(linked, details.format))
       ELSE /\ IF Current(fetch[w].object)
               THEN Streaming([stream EXCEPT !.pc = "reporting", !.object = fetch[w].object,
                                             !.details = details])
               ELSE StopStream
            /\ UNCHANGED <<formatVars, plays>>

\* No details.
Gone(w) ==
    /\ fetch' = Drop(w)
    /\ IF w = "prefetch" THEN Spawn(params)
       ELSE StopStream /\ UNCHANGED <<formatVars, plays>>

Working(w, pc) ==
    /\ fetch' = [fetch EXCEPT ![w].pc = pc]
    /\ UNCHANGED <<formatVars, plays, streamVars>>

\* Faulty variant of LooksUp: a cached entry is taken whoever owns it.
LooksUpAny(w) ==
    /\ fetch[w].pc = "looking"
    /\ IF cache[fetch[w].track] # None
       THEN Got(w, cache[fetch[w].track])
       ELSE Working(w, "calling")
    /\ UNCHANGED <<linkVars, cache>>

\* The cache answers; details of another account are discarded.
LooksUp(w) ==
    /\ fetch[w].pc = "looking"
    /\ LET cached == cache[fetch[w].track]
       IN \/ cached # None /\ cached.account = "own" /\ Got(w, cached)
          \/ cached # None /\ cached.account # "own" /\ Working(w, "evicting")
          \/ cached = None /\ Working(w, "calling")
    /\ UNCHANGED <<linkVars, cache>>

Evicts(w) ==
    /\ fetch[w].pc = "evicting"
    /\ cache' = [cache EXCEPT ![fetch[w].track] = None]
    /\ Working(w, "calling")
    /\ UNCHANGED linkVars

\* The provider answers: with details that are cached unless they expire at once, or
\* that belong to another account.
Answers(w) ==
    /\ fetch[w].pc = "calling"
    /\ \E account \in Accounts :
         LET details == [account |-> account, format |-> Format[fetch[w].track]]
         IN \/ account # "own" /\ Gone(w)
            \/ account = "own" /\ Got(w, details)
            \/ /\ account = "own"
               /\ fetch' = [fetch EXCEPT ![w].pc = "caching", ![w].details = details]
               /\ UNCHANGED <<formatVars, plays, streamVars>>
    /\ UNCHANGED <<linkVars, cache>>

\* It fails, for good or for now.
Refuses(w) ==
    /\ fetch[w].pc = "calling"
    /\ \/ Gone(w)
       \/ /\ fetch[w].attempt + 1 < MaxAttempts
          /\ Working(w, "backing off")
    /\ UNCHANGED <<linkVars, cache>>

Retries(w) ==
    /\ fetch[w].pc = "backing off"
    /\ fetch' = [fetch EXCEPT ![w].pc = "calling", ![w].attempt = @ + 1]
    /\ UNCHANGED <<linkVars, formatVars, cache, plays, streamVars>>

Caches(w) ==
    /\ fetch[w].pc = "caching"
    /\ cache' = [cache EXCEPT ![fetch[w].track] = fetch[w].details]
    /\ Got(w, fetch[w].details)
    /\ UNCHANGED linkVars

\* An entry expires (external).
Expires ==
    /\ \E t \in Tracks : cache[t] # None /\ cache' = [cache EXCEPT ![t] = None]
    /\ UNCHANGED <<linkVars, formatVars, fetch, plays, streamVars>>

-----------------------------------------------------------------------------
(* _prefetch_format_for_track, before play_media                             *)

\* The state callback activates playback: of the track it had, or of another one, whose
\* format is looked up first when there is a provider.
Activates ==
    /\ ~Fetching("prefetch") /\ ~plays
    /\ \/ Spawn(params) /\ UNCHANGED fetch
       \/ /\ linked # 0
          /\ \E t \in Tracks : Lookup("prefetch", t)
          /\ UNCHANGED <<formatVars, plays, streamVars>>
    /\ UNCHANGED <<linkVars, cache>>

\* Faulty variant of PrefetchTimesOut: only the call of the provider is timed.
CallTimesOut ==
    /\ fetch["prefetch"].pc = "calling"
    /\ Gone("prefetch")
    /\ UNCHANGED <<linkVars, cache>>

\* _PREFETCH_FORMAT_TIMEOUT cancels the fetch, wherever it is.
PrefetchTimesOut ==
    /\ Fetching("prefetch")
    /\ Gone("prefetch")
    /\ UNCHANGED <<linkVars, cache>>

-----------------------------------------------------------------------------
(* The stream: get_audio_stream and _stream_track                            *)

NoFormat == UNCHANGED <<linkVars, formatVars, cache, plays>>

\* get_stream_details for a new request, which play_media or the user made.
Declares ==
    /\ stream.pc = "off"
    /\ outer' = params
    /\ stream' = [Off EXCEPT !.pc = "declared"]
    /\ plays' = FALSE
    /\ UNCHANGED <<linkVars, formatVars, cache, fetch, session, chunk>>

\* The generator starts: the format is frozen.
Begins ==
    /\ stream.pc = "declared"
    /\ session' = params /\ outer' = None
    /\ stream' = [Off EXCEPT !.pc = "choosing"]
    /\ UNCHANGED <<fetch, chunk>> /\ NoFormat

\* The next track, if the provider is there to stream it.
Chooses ==
    /\ stream.pc = "choosing"
    /\ \E t \in Tracks :
         IF linked = 0
         THEN StopStream /\ UNCHANGED fetch
         ELSE /\ Lookup("stream", t)
              /\ Streaming([Off EXCEPT !.pc = "fetching", !.track = t])
    /\ NoFormat

\* The report of the duration is sent (_update_metadata_from_stream).
Reports ==
    /\ stream.pc = "reporting"
    /\ IF Current(stream.object)
       THEN Streaming([stream EXCEPT !.pc = "queued"])
       ELSE StopStream
    /\ UNCHANGED fetch /\ NoFormat

\* Faulty variant of Admitted: the provider is not looked at again after the wait.
AdmittedAnyway ==
    /\ stream.pc = "queued"
    /\ Streaming([stream EXCEPT !.pc = "playing"])
    /\ UNCHANGED fetch /\ NoFormat

\* The slot of the provider is free.
Admitted ==
    /\ stream.pc = "queued"
    /\ IF Current(stream.object)
       THEN Streaming([stream EXCEPT !.pc = "playing"])
       ELSE StopStream
    /\ UNCHANGED fetch /\ NoFormat

\* It is not free in time: the error leaves the generator, which nobody asked to stop.
NotAdmitted ==
    /\ stream.pc = "queued"
    /\ Streaming([Off EXCEPT !.pc = "ended"])
    /\ UNCHANGED fetch /\ NoFormat

\* Faulty variant of Chunk: it is not looked whether the provider is still linked.
ChunkAnyway ==
    /\ stream.pc = "playing"
    /\ chunk' = [object |-> stream.object, linked |-> linked, account |-> stream.details.account]
    /\ UNCHANGED <<outer, session, stream>>
    /\ UNCHANGED fetch /\ NoFormat

\* A chunk comes; it is yielded while its provider is linked.
Chunk ==
    /\ stream.pc = "playing"
    /\ IF Current(stream.object)
       THEN /\ chunk' = [object |-> stream.object, linked |-> linked,
                         account |-> stream.details.account]
            /\ UNCHANGED <<outer, session, stream>>
       ELSE StopStream
    /\ UNCHANGED fetch /\ NoFormat

\* The track is over: it ended or was interrupted.
TrackEnds ==
    /\ stream.pc = "playing"
    /\ Streaming([Off EXCEPT !.pc = "choosing"])
    /\ UNCHANGED fetch /\ NoFormat

\* The generator ends, or is closed wherever it waits.
Closes ==
    /\ stream.pc \notin {"off", "declared"}
    /\ stream' = Off /\ session' = None /\ chunk' = None
    /\ fetch' = Drop("stream")
    /\ UNCHANGED outer
    /\ NoFormat

-----------------------------------------------------------------------------

Fetch(w) == LooksUp(w) \/ Evicts(w) \/ Answers(w) \/ Refuses(w) \/ Retries(w) \/ Caches(w)
Stream == Begins \/ Chooses \/ Reports \/ Admitted \/ NotAdmitted \/ Chunk \/ TrackEnds
Outside == Loads \/ Unloads \/ Announced \/ PlayerChanges \/ Expires \/ Activates \/ Declares

Next ==
    \/ \E w \in Workers : Fetch(w)
    \/ PrefetchTimesOut \/ Check \/ Stream \/ Closes \/ Outside

Spec == Init /\ [][Next]_vars

\* The timeout fires, due tasks run, and a stream that plays gets a chunk, ends or fails.
\* Neither the cache nor the provider has to answer.
FairSpec == Spec /\ WF_vars(PrefetchTimesOut) /\ WF_vars(Check) /\ WF_vars(Chunk)

-----------------------------------------------------------------------------
(* Properties                                                                *)

\* The variables hold what the code can put there, and the normalised format is one that
\* the configuration allows or the player supports, whatever format the provider reports.
TypeOK ==
    /\ {loaded, linked, checks} \subseteq Nat /\ available \subseteq 1 .. loads
    /\ params.rate \in Valid \union (UNION Players) \union {configured} /\ params.depth \in Depths
    /\ \A t \in Tracks : cache[t] \in Details \union {None}
    /\ \A w \in Workers :
         /\ fetch[w].pc \in {"idle", "looking", "evicting", "calling", "backing off", "caching"}
         /\ fetch[w].attempt \in 0 .. MaxAttempts - 1
         /\ Fetching(w) => fetch[w].track \in Tracks /\ fetch[w].object # 0
    /\ Fetching("stream") <=> stream.pc = "fetching"
    /\ stream.pc \in {"reporting", "queued", "playing"} => stream.details \in Details

\* Audio is that of the account that is linked, from the provider that is linked when the
\* chunk is yielded: details of another account are neither streamed nor kept.
LinkedAccountOnly ==
    chunk # None => chunk.account = "own" /\ chunk.object = chunk.linked

\* A track is opened on a provider that is linked, however long it waited for its slot.
OpensOnLinked ==
    [][stream.pc # "playing" /\ stream'.pc = "playing" => Current(stream.object)]_vars

\* A track whose provider is replaced or unlinked lets go of the slot of that provider.
ReleasesTheSlot ==
    stream.pc = "playing" /\ stream.object # linked ~> stream.pc # "playing"

\* The state callback, and with it the connection, is never held up by the lookup of a
\* format, even when neither the cache nor the provider answers.
ActivationNotStalled == Fetching("prefetch") ~> ~Fetching("prefetch")

\* "The PCM format is frozen at session start to match what the outer ffmpeg captured"
\* (get_audio_stream): the audio has the format that Music Assistant was told.
DeliversWhatIsDeclared ==
    [][stream.pc = "declared" /\ stream'.pc = "choosing" => session' = outer]_vars
=============================================================================
