--------------------------- MODULE YnisonTransport ---------------------------
(***************************************************************************)
(* The connection half of YnisonClient (provider/ynison_client.py): the    *)
(* coroutines that dial, read and close the state WebSocket.  A step of    *)
(* the model is what a coroutine does between two awaits.                  *)
(*   connect()        dials once, then leaves recovery to the others       *)
(*   _message_loop()  one task per socket: reads frames until it breaks    *)
(*   _reconnect()     at most one task: waits, closes, dials, refreshes    *)
(*   disconnect()     called by the provider's unload                      *)
(* The server, the network and the token are external: each fault they     *)
(* commit is one of Faults and is counted.  Two assumptions on timing: a   *)
(* send that was writing to a socket has returned before the next socket   *)
(* is open; and what connect() does once its socket is open, up to the     *)
(* start of the loop, is over before the shortest reconnect wait (1 s) is. *)
(***************************************************************************)
EXTENDS ReconnectPolicy

CONSTANTS
    Sockets,        \* identities of WebSockets, used again once closed
    None,
    Errors,         \* error responses: code, grpc, goAway, parts
    ReconnectCodes, \* YNISON_RECONNECT_ERROR_CODES
    Faults,         \* what may go wrong
    MaxFaults,      \* bound: how often something goes wrong
    MaxExpired      \* bound: how often the token expires

ASSUME ErrorsAssumption ==
    \A e \in Errors : e.goAway \in Int /\ e.parts \subseteq Int /\ IsFiniteSet(e.parts)
ASSUME SocketsAssumption == None \notin Sockets /\ IsFiniteSet(Sockets)
ASSUME FaultsAssumption ==
    /\ Faults \subseteq {"lost", "refused", "ticketless", "malformed", "error", "crash",
                    "temporary", "rejected"}
    /\ MaxFaults \in Nat /\ MaxExpired \in Nat

VARIABLES
    stop,           \* _stop_event
    connected,      \* _connected
    ws,             \* _ws
    sock,           \* open, lost (not noticed yet), closing or closed
    loop,           \* message loop of a socket: none, new, reading, handling, closing
    directive,      \* server_directive of that loop
    cancelled,      \* cancelled of that loop
    reader,         \* socket of _message_task, None before the first
    conn,           \* connect(): redirect, state, hello, done
    recon,          \* _reconnect(): pc, wait and refreshed
    stopping,       \* unload: no, reader, socket, cancelled, done
    awaited,        \* the message task disconnect() waits for
    token,          \* whether the server accepts the token
    faults, expired,    \* counters for the bounds
    asked,          \* history: go-away window asked for and not waited yet
    last            \* history: the last rung waited for this kind of failure

taskVars == <<loop, directive, cancelled, reader, conn, recon>>
stopVars == <<stop, stopping, awaited>>
socketVars == <<connected, ws, sock>>
serverVars == <<token, faults, expired>>
historyVars == <<asked, last>>
vars == <<policy, taskVars, stopVars, socketVars, serverVars, historyVars>>

NoRun == [pc |-> "none", wait |-> 0, refreshed |-> FALSE]

Init ==
    /\ policy = Fresh
    /\ stop = FALSE /\ connected = FALSE /\ ws = None
    /\ sock = [s \in Sockets |-> "closed"]
    /\ loop = [s \in Sockets |-> "none"]
    /\ directive = [s \in Sockets |-> FALSE] /\ cancelled = [s \in Sockets |-> FALSE]
    /\ reader = None /\ conn = "redirect" /\ recon = NoRun
    /\ stopping = "no" /\ awaited = None
    /\ token = "good" /\ faults = 0 /\ expired = 0
    /\ asked = 0 /\ last = None

-----------------------------------------------------------------------------
(* Shared steps                                                              *)

Fault(kind) == kind \in Faults /\ faults < MaxFaults /\ faults' = faults + 1

\* Faulty variant of ScheduleReconnect: disconnect does not prevent a new task.
ScheduleRegardless == recon' = IF recon.pc # "none" THEN recon ELSE [NoRun EXCEPT !.pc = "start"]

\* _schedule_reconnect: one task at a time, none after disconnect.
ScheduleReconnect ==
    recon' = IF stop \/ recon.pc # "none" THEN recon ELSE [NoRun EXCEPT !.pc = "start"]

\* A dial opens a socket that nothing uses any more.
Unused == {s \in Sockets : sock[s] = "closed" /\ loop[s] = "none" /\ ws # s /\ awaited # s}

Opens(s) ==
    /\ s \in Unused
    /\ sock' = [sock EXCEPT ![s] = "open"]
    /\ ws' = s
    /\ connected' = TRUE

\* The greeting is sent (send_full_state, update_session_params) and the loop created.
Greets ==
    /\ connected' = (connected /\ sock[ws] = "open")
    /\ reader' = ws
    /\ loop' = [loop EXCEPT ![ws] = "new"]
    /\ directive' = [directive EXCEPT ![ws] = FALSE]
    /\ cancelled' = [cancelled EXCEPT ![ws] = FALSE]

\* History: another kind of failure starts another climb.
Remember ==
    last' = IF policy'.key = policy.key /\ policy'.ladder = policy.ladder THEN last ELSE None

-----------------------------------------------------------------------------
(* connect()                                                                 *)

ConnectRedirected ==
    /\ conn = "redirect" /\ token = "good"
    /\ conn' = "state"
    /\ UNCHANGED <<policy, loop, directive, cancelled, reader, recon, stopVars, socketVars,
                   serverVars, historyVars>>

\* An authentication failure with a refresh callback, or a transient error.
ConnectFails ==
    /\ conn \in {"redirect", "state"}
    /\ \/ token = "bad" /\ UNCHANGED faults
       \/ Fault("refused")
       \/ conn = "redirect" /\ Fault("ticketless")
    /\ connected' = FALSE
    /\ conn' = "done"
    /\ ScheduleReconnect
    /\ UNCHANGED <<policy, loop, directive, cancelled, reader, stopVars, ws, sock, token,
                   expired, historyVars>>

\* Any other exception disconnects for good.
ConnectCrashes ==
    /\ conn = "redirect" /\ Fault("malformed")
    /\ conn' = "done"
    /\ stop' = TRUE /\ connected' = FALSE
    /\ UNCHANGED <<policy, loop, directive, cancelled, reader, recon, stopping, awaited, ws,
                   sock, token, expired, historyVars>>

ConnectOpens ==
    /\ conn = "state" /\ token = "good"
    /\ \E s \in Sockets : Opens(s)
    /\ conn' = "hello"
    /\ UNCHANGED <<policy, loop, directive, cancelled, reader, recon, stopVars, serverVars,
                   historyVars>>

ConnectGreets ==
    /\ conn = "hello" /\ ws # None
    /\ Greets
    /\ IF sock[ws] = "lost" THEN ScheduleReconnect ELSE UNCHANGED recon
    /\ conn' = "done"
    /\ UNCHANGED <<policy, stopVars, ws, sock, serverVars, historyVars>>

-----------------------------------------------------------------------------
(* _reconnect()                                                              *)

ReconOnly(next) ==
    /\ recon' = next
    /\ UNCHANGED <<loop, directive, cancelled, reader, conn, stopVars>>

Leaves == ReconOnly(NoRun)

\* Top of the loop: take the next delay and sleep.
ReconSleeps ==
    /\ recon.pc = "start" /\ ~stop
    /\ TakeDelay
    /\ ReconOnly([recon EXCEPT !.pc = "sleep", !.wait = Delay])
    /\ asked' = IF asked = Delay THEN 0 ELSE asked
    /\ last' = IF Climbs /\ ~GoAwayPending THEN Delay ELSE None
    /\ UNCHANGED <<socketVars, serverVars>>

ReconStops ==
    /\ recon.pc \in {"start", "sleep"} /\ stop
    /\ Leaves
    /\ UNCHANGED <<policy, socketVars, serverVars, historyVars>>

\* The wait is over: begin to close the old socket, unless told to stay away meanwhile.
ReconWakes ==
    /\ recon.pc = "sleep" /\ ~stop
    /\ conn # "hello" /\ \A s \in Sockets : loop[s] # "new"
    /\ IF GoAwayPending
       THEN ReconOnly([recon EXCEPT !.pc = "start"]) /\ UNCHANGED sock
       ELSE /\ ReconOnly([recon EXCEPT !.pc = "close"])
            /\ sock' = IF ws # None /\ sock[ws] # "closed"
                       THEN [sock EXCEPT ![ws] = "closing"] ELSE sock
    /\ UNCHANGED <<policy, connected, ws, serverVars, historyVars>>

\* Faulty variant of ReconCloses: the old socket is forgotten but not closed.
ReconForgets ==
    /\ recon.pc = "close"
    /\ ws' = None
    /\ ReconOnly([recon EXCEPT !.pc = "redirect"])
    /\ UNCHANGED <<policy, connected, sock, serverVars, historyVars>>

\* _close_socket returns.
ReconCloses ==
    /\ recon.pc = "close"
    /\ sock' = IF ws # None THEN [sock EXCEPT ![ws] = "closed"] ELSE sock
    /\ ws' = None
    /\ ReconOnly([recon EXCEPT !.pc = "redirect"])
    /\ UNCHANGED <<policy, connected, serverVars, historyVars>>

ReconRedirected ==
    /\ recon.pc = "redirect" /\ token = "good"
    /\ ReconOnly([recon EXCEPT !.pc = "state"])
    /\ UNCHANGED <<policy, socketVars, serverVars, historyVars>>

\* A transient failure: back to the policy's schedule.
ReconFails ==
    /\ recon.pc \in {"redirect", "state"} /\ Fault("refused")
    /\ OnTransportFailure /\ Remember
    /\ ReconOnly([recon EXCEPT !.pc = "start"])
    /\ UNCHANGED <<socketVars, token, expired, asked>>

\* LoginFailed: the token is rejected, or the redirector names no host or ticket.
LoginFails ==
    \/ recon.pc \in {"redirect", "state"} /\ token = "bad" /\ UNCHANGED faults
    \/ recon.pc = "redirect" /\ token = "good" /\ Fault("ticketless")

\* Faulty variant of ReconRejected: a rejected token is not refreshed.
ReconRejectedAgain ==
    /\ LoginFails
    /\ OnTransportFailure /\ Remember
    /\ ReconOnly([recon EXCEPT !.pc = "start"])
    /\ UNCHANGED <<socketVars, token, expired, asked>>

\* An authentication failure: refresh the token, once in a run.
ReconRejected ==
    /\ LoginFails
    /\ OnTransportFailure /\ Remember
    /\ ReconOnly([recon EXCEPT !.pc = IF recon.refreshed THEN "start" ELSE "refresh"])
    /\ UNCHANGED <<socketVars, token, expired, asked>>

\* A reply that is no JSON object of the expected kind: the task ends with the error.
ReconCrashes ==
    /\ recon.pc = "redirect" /\ Fault("malformed")
    /\ Leaves
    /\ UNCHANGED <<policy, socketVars, token, expired, historyVars>>

Refreshed ==
    /\ recon.pc = "refresh"
    /\ token' = "good"
    /\ ReconOnly([recon EXCEPT !.pc = "start", !.refreshed = TRUE])
    /\ UNCHANGED <<policy, socketVars, faults, expired, historyVars>>

\* The x-token is rejected: no further attempt to refresh in this run.
RefreshRejected ==
    /\ recon.pc = "refresh" /\ Fault("rejected")
    /\ ReconOnly([recon EXCEPT !.pc = "start", !.refreshed = TRUE])
    /\ UNCHANGED <<policy, socketVars, token, expired, historyVars>>

RefreshUnavailable ==
    /\ recon.pc = "refresh" /\ Fault("temporary")
    /\ ReconOnly([recon EXCEPT !.pc = "start"])
    /\ UNCHANGED <<policy, socketVars, token, expired, historyVars>>

ReconOpens ==
    /\ recon.pc = "state" /\ token = "good"
    /\ \E s \in Sockets : Opens(s)
    /\ ReconOnly([recon EXCEPT !.pc = "hello"])
    /\ UNCHANGED <<policy, serverVars, historyVars>>

\* A failed greeting schedules nothing (this task still runs); the loop will notice.
ReconGreets ==
    /\ recon.pc = "hello" /\ ws # None
    /\ Greets
    /\ recon' = NoRun
    /\ UNCHANGED <<policy, conn, stopVars, ws, sock, serverVars, historyVars>>

-----------------------------------------------------------------------------
(* _message_loop()                                                           *)

\* The finally block after the socket is closed.
Finish(s) ==
    /\ loop' = [loop EXCEPT ![s] = "none"]
    /\ IF ws = s /\ ~stop /\ ~cancelled[s]
       THEN /\ IF directive[s] THEN UNCHANGED policy ELSE OnTransportFailure
            /\ ScheduleReconnect
       ELSE UNCHANGED <<policy, recon>>
    /\ Remember

\* Faulty variant of Break: the client still counts as connected.
BreakUnnoticed(s) ==
    /\ UNCHANGED connected
    /\ IF sock[s] = "closed"
       THEN Finish(s)
       ELSE loop' = [loop EXCEPT ![s] = "closing"] /\ UNCHANGED <<policy, recon, last>>

\* The loop is left: this socket is no longer the connection.
Break(s) ==
    /\ connected' = (connected /\ ws # s)
    /\ IF sock[s] = "closed"
       THEN Finish(s)
       ELSE loop' = [loop EXCEPT ![s] = "closing"] /\ UNCHANGED <<policy, recon, last>>

LoopStarts(s) ==
    /\ loop[s] = "new"
    /\ loop' = [loop EXCEPT ![s] = IF ws = s THEN "reading" ELSE "none"]
    /\ UNCHANGED <<policy, directive, cancelled, reader, conn, recon, stopVars, socketVars,
                   serverVars, historyVars>>

\* Frames received before are still read when the socket is lost.  Once another task
\* closes it, aiohttp ends the reader: a frame that is not read by then is dropped.
Readable(s) == loop[s] = "reading" /\ sock[s] \in {"open", "lost"}

LoopReadsState(s) ==
    /\ Readable(s) /\ ~stop
    /\ OnHealthy
    /\ loop' = [loop EXCEPT ![s] = "handling"]
    /\ asked' = 0 /\ last' = None
    /\ UNCHANGED <<directive, cancelled, reader, conn, recon, stopVars, socketVars, serverVars>>

\* _apply_error_frame; a go-away or a re-balance ends the session.
Ends(e) == ParseSeconds(e.goAway) > 0 \/ e.code \in ReconnectCodes

LoopReadsError(s) ==
    /\ Readable(s) /\ ~stop /\ Fault("error")
    /\ \E e \in Errors :
         /\ OnServerError(e.code, e.grpc, ParseSeconds(e.goAway), e.parts)
         /\ asked' = ParseSeconds(e.goAway)
         /\ directive' = [directive EXCEPT ![s] = TRUE]
         /\ IF Ends(e)
            THEN /\ connected' = (connected /\ ws # s)
                 /\ loop' = [loop EXCEPT ![s] = "closing"]
            ELSE UNCHANGED <<connected, loop>>
    /\ Remember
    /\ UNCHANGED <<cancelled, reader, conn, recon, stopVars, ws, sock, token, expired>>

\* An "error" that is no object raises out of the loop, after the frame counted as a
\* directive.
LoopReadsGarbage(s) ==
    /\ Readable(s) /\ ~stop /\ Fault("malformed")
    /\ directive' = [directive EXCEPT ![s] = TRUE]
    /\ Break(s)
    /\ UNCHANGED <<cancelled, reader, conn, stopVars, ws, sock, token, expired, asked>>

\* The socket is gone, or another task closes it.
LoopBreaks(s) ==
    /\ loop[s] = "reading"
    /\ sock[s] # "open"
    /\ Break(s)
    /\ UNCHANGED <<directive, cancelled, reader, conn, stopVars, ws, sock, serverVars, asked>>

\* A frame that arrives after disconnect() was called is not looked at.
LoopStops(s) ==
    /\ Readable(s) /\ stop
    /\ Break(s)
    /\ UNCHANGED <<directive, cancelled, reader, conn, stopVars, ws, sock, serverVars, asked>>

LoopHandled(s) ==
    /\ loop[s] = "handling"
    /\ loop' = [loop EXCEPT ![s] = "reading"]
    /\ UNCHANGED <<policy, directive, cancelled, reader, conn, recon, stopVars, socketVars,
                   serverVars, historyVars>>

\* The state callback raised something unexpected.
LoopCrashes(s) ==
    /\ loop[s] = "handling" /\ Fault("crash")
    /\ Break(s)
    /\ UNCHANGED <<directive, cancelled, reader, conn, stopVars, ws, sock, token, expired, asked>>

LoopCloses(s) ==
    /\ loop[s] = "closing"
    /\ sock' = [sock EXCEPT ![s] = "closed"]
    /\ Finish(s)
    /\ UNCHANGED <<directive, cancelled, reader, conn, stopVars, connected, ws, serverVars,
                   asked>>

-----------------------------------------------------------------------------
(* Sends, the network and the token                                          *)

\* _send_locked on a socket that is gone.
SendFails ==
    /\ ws # None /\ sock[ws] = "lost"
    /\ connected' = FALSE
    /\ ScheduleReconnect
    /\ UNCHANGED <<policy, loop, directive, cancelled, reader, conn, stopVars, ws, sock,
                   serverVars, historyVars>>

SocketLost(s) ==
    /\ sock[s] = "open" /\ Fault("lost")
    /\ sock' = [sock EXCEPT ![s] = "lost"]
    /\ UNCHANGED <<policy, taskVars, stopVars, connected, ws, token, expired, historyVars>>

TokenExpires ==
    /\ token = "good" /\ expired < MaxExpired
    /\ token' = "bad" /\ expired' = expired + 1
    /\ UNCHANGED <<policy, taskVars, stopVars, socketVars, faults, historyVars>>

-----------------------------------------------------------------------------
(* disconnect(), from the provider's unload                                  *)

\* Faulty variant of StopReader: the message task is awaited but not cancelled.
StopReaderPolitely ==
    /\ stopping \in {"no", "cancelled"}
    /\ stop' = TRUE /\ connected' = FALSE
    /\ awaited' = IF reader # None /\ loop[reader] # "none" THEN reader ELSE None
    /\ stopping' = "reader"
    /\ UNCHANGED <<policy, loop, directive, cancelled, reader, conn, recon, ws, sock, serverVars,
                   historyVars>>

\* Up to the first await: the message task is cancelled at whatever it awaits.
StopReader ==
    /\ stopping \in {"no", "cancelled"}
    /\ stop' = TRUE /\ connected' = FALSE
    /\ stopping' = "reader"
    /\ IF reader # None /\ loop[reader] \in {"reading", "handling"}
       THEN /\ cancelled' = [cancelled EXCEPT ![reader] = TRUE]
            /\ loop' = [loop EXCEPT ![reader] =
                          IF sock[reader] = "closed" THEN "none" ELSE "closing"]
       ELSE /\ loop' = IF reader # None THEN [loop EXCEPT ![reader] = "none"] ELSE loop
            /\ UNCHANGED cancelled
    /\ awaited' = IF reader # None /\ loop'[reader] # "none" THEN reader ELSE None
    /\ UNCHANGED <<policy, directive, reader, conn, recon, ws, sock, serverVars, historyVars>>

\* The message task is over: the reconnect task is cancelled, the socket closed.
StopDialer ==
    /\ stopping = "reader" /\ (awaited # None => loop[awaited] = "none")
    /\ stopping' = "socket"
    /\ awaited' = None
    /\ recon' = NoRun
    /\ sock' = IF ws # None /\ sock[ws] # "closed" THEN [sock EXCEPT ![ws] = "closing"] ELSE sock
    /\ UNCHANGED <<policy, loop, directive, cancelled, reader, conn, stop, connected, ws,
                   serverVars, historyVars>>

\* unload then cancels a connect() that still runs, which disconnects once more.
StopSocket ==
    /\ stopping = "socket"
    /\ sock' = IF ws # None THEN [sock EXCEPT ![ws] = "closed"] ELSE sock
    /\ ws' = None
    /\ stopping' = IF conn = "done" THEN "done" ELSE "cancelled"
    /\ conn' = "done"
    /\ UNCHANGED <<policy, loop, directive, cancelled, reader, recon, stop, awaited, connected,
                   serverVars, historyVars>>

-----------------------------------------------------------------------------

Connect == ConnectRedirected \/ ConnectFails \/ ConnectCrashes \/ ConnectOpens \/ ConnectGreets

Recon ==
    \/ ReconSleeps \/ ReconStops \/ ReconWakes \/ ReconCloses \/ ReconRedirected \/ ReconFails
    \/ ReconRejected \/ ReconCrashes \/ Refreshed \/ RefreshRejected \/ RefreshUnavailable
    \/ ReconOpens \/ ReconGreets

Reads(s) == LoopReadsState(s) \/ LoopReadsError(s) \/ LoopReadsGarbage(s) \/ LoopStops(s)

Loop(s) ==
    LoopStarts(s) \/ LoopBreaks(s) \/ LoopHandled(s) \/ LoopCrashes(s) \/ LoopCloses(s)

Unload == StopReader \/ StopDialer \/ StopSocket

Next ==
    \/ Connect \/ Recon \/ Unload
    \/ \E s \in Sockets : Reads(s) \/ Loop(s) \/ SocketLost(s)
    \/ SendFails \/ TokenExpires

\* Coroutines that can run do run: the event loop is fair to them, a sleep and a
\* close end, and every request is answered or times out (WS_CONNECT_TIMEOUT).  A
\* lost socket is noticed by the heartbeat, once the finitely many frames it received
\* before are read.  Frames, failed sends, faults and the unload itself may never come.
Fairness ==
    /\ WF_vars(Connect) /\ WF_vars(Recon)
    /\ \A s \in Sockets : WF_vars(Loop(s)) /\ SF_vars(LoopBreaks(s))
    /\ WF_vars(StopDialer) /\ WF_vars(StopSocket) /\ WF_vars(stopping = "cancelled" /\ StopReader)

Spec == Init /\ [][Next]_vars /\ Fairness

-----------------------------------------------------------------------------
(* Properties                                                                *)

\* The fields hold what the code can put there.
TypeOK ==
    /\ policy.index \in Nat /\ policy.goAway \in Nat /\ policy.ladder \in Seq(Nat)
    /\ stop \in BOOLEAN /\ connected \in BOOLEAN
    /\ ws \in Sockets \union {None} /\ reader \in Sockets \union {None}
    /\ sock \in [Sockets -> {"open", "lost", "closing", "closed"}]
    /\ loop \in [Sockets -> {"none", "new", "reading", "handling", "closing"}]
    /\ conn \in {"redirect", "state", "hello", "done"}
    /\ recon.pc \in {"none", "start", "sleep", "close", "redirect", "state", "refresh", "hello"}
    /\ stopping \in {"no", "reader", "socket", "cancelled", "done"}

\* Every dial comes after the previous socket was closed: whatever the message loop,
\* a failed send and the reconnect task do at once, the device holds one connection,
\* and no loop still reads from a socket that was given up.
OneSocket ==
    /\ Cardinality({s \in Sockets : sock[s] # "closed"}) <= 1
    /\ \A s \in Sockets : sock[s] # "closed" => ws = s

\* A client that says it is connected, and so makes strict senders write, has a task
\* that will read the answers: the loop of this socket, or the greeting that starts it.
ConnectedIsRead ==
    connected /\ ~stop =>
        ws # None /\ (loop[ws] \in {"new", "reading", "handling"} \/ "hello" \in {conn, recon.pc})

\* Someone always brings the connection back: until unload, a client that finished
\* connect() has a reconnect task, or a message loop whose end will start one.
SomebodyRecovers ==
    conn = "done" /\ ~stop => recon.pc # "none" \/ (ws # None /\ loop[ws] # "none")

\* No dial is made while a go-away that was read has not been waited for: also when
\* it was read during the wait for an earlier failure, or attempts failed in between.
DialsOutsideWindow == [][recon.pc = "state" /\ recon'.pc = "hello" => asked = 0]_vars

\* Within one kind of failure, on one ladder, each rung waited is longer than the
\* one before, over however many sockets, scheduled reconnects and repeated errors.
BacksOff == 
    [][recon.pc = "start" /\ recon'.pc = "sleep" /\ last # None /\ last' # None
          => last' > last]_vars

\* unload leaves nothing behind: no reconnect task, no open socket, and no task
\* that could open one, also when connect() was still dialing.
NothingLeftBehind ==
    stopping = "done" =>
        /\ recon.pc = "none" /\ conn = "done"
        /\ \A s \in Sockets : sock[s] = "closed"

\* ... nor a state callback that goes on acting on the player, of a socket that was
\* replaced while its frame was handled (tests/test_provider.py: "Background work
\* started by the provider does not outlive unload").
NoCallbackLeft == stopping = "done" => \A s \in Sockets : loop[s] # "handling"

\* unload ends: the tasks it waits for end.
UnloadEnds == stopping = "reader" ~> stopping = "done"

\* The plugin never gives up: faults cease, and then it is connected for good, or
\* it was told to stop.
Recovers == <>stop \/ <>[]connected
=============================================================================
