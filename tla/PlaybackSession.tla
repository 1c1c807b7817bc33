--------------------------- MODULE PlaybackSession ---------------------------
(***************************************************************************)
(* PlaybackSession (provider/playback_session.py): the claim on the audio  *)
(* source, the cursor of the stream, and its restart and stop requests.    *)
(* Each operator is a method; the session is a record.  Positions and the  *)
(* echo grace window are left out: a restart is known by its reason.       *)
(***************************************************************************)
CONSTANT None       \* Python's None

RestartReasons == {"track_change", "seek", "resume", "repeat"}
StopReasons == {"pause", "provider_lost", "stream_error", "queue_end", "cleared"}

ASSUME ReasonsAssumption == None \notin RestartReasons \union StopReasons

NoSession ==
    [owner |-> None, consumer |-> None, session |-> None, cursor |-> None, stop |-> None,
     paused |-> FALSE, restart |-> FALSE, reason |-> None]

-----------------------------------------------------------------------------
(* The claim                                                                 *)

\* Faulty variant of Claim: the identifiers are swapped.
ClaimSwapped(p, owner, consumer, session) ==
    [p EXCEPT !.owner = session, !.consumer = consumer, !.session = owner]

Claim(p, owner, consumer, session) ==
    [p EXCEPT !.owner = owner, !.consumer = consumer, !.session = session]

Release(p, owner, session) ==
    IF session # p.session THEN p
    ELSE [p EXCEPT !.session = None, !.owner = IF @ = owner THEN None ELSE @]

Capture(p) == IF p.owner = None THEN None ELSE [owner |-> p.owner, session |-> p.session]

Lost(p, token) ==
    token # None /\ (p.owner # token.owner \/ p.session # token.session)

\* Faulty variant of ReleaseIfCurrent: a superseded stream releases its successor's claim.
ReleaseAnyway(p, token) == IF token = None THEN p ELSE [p EXCEPT !.owner = None]

ReleaseIfCurrent(p, token) ==
    IF token = None \/ Lost(p, token) THEN p ELSE [p EXCEPT !.owner = None]

-----------------------------------------------------------------------------
(* Restart and stop requests                                                 *)

RequestRestart(p, reason) == [p EXCEPT !.restart = TRUE, !.reason = reason]

SeedStart(p) == IF p.reason = None THEN [p EXCEPT !.reason = "resume"] ELSE p

ConsumeRestart(p) == [p EXCEPT !.restart = FALSE]

TakeStart(p) == [p EXCEPT !.reason = None]

RequestStop(p, reason) == [p EXCEPT !.stop = reason]

BeginStream(p) == [p EXCEPT !.stop = None]

\* Whether the source must be selected again, and the session after resume().
NeedsReselect(p) == p.stop # None \/ p.paused
Resume(p) == [p EXCEPT !.stop = None, !.paused = FALSE]

PauseExternally(p, owner) == [p EXCEPT !.consumer = owner, !.paused = TRUE]

\* Faulty variant of Reset: the streams are not told to end, nor the consumer forgotten.
ResetOwner(p) == [p EXCEPT !.owner = None, !.session = None]

Reset(p) ==
    [p EXCEPT !.owner = None, !.consumer = None, !.session = None, !.paused = FALSE,
              !.stop = "cleared"]
=============================================================================
