------------------------ MODULE YnisonTransportProofs ------------------------
(***************************************************************************)
(* Proofs about YnisonTransport, for every number of sockets, error        *)
(* response, ladder and fault: one socket at a time, nothing left after    *)
(* unload, a connected client is read, and no dial inside a go-away        *)
(* window.                                                                 *)
(*                                                                         *)
(* The argument: connect() and the reconnect task take turns, and while    *)
(* either dials nothing is open; so nothing is read that could set a new   *)
(* go-away, and whoever opens a socket is the only one to do so.           *)
(***************************************************************************)
EXTENDS YnisonTransport, FiniteSetTheorems, WellFoundedInduction, TLAPS

IsRun(r) == r = [pc |-> r.pc, wait |-> r.wait, refreshed |-> r.refreshed]
IsPolicy(p) == p = [ladder |-> p.ladder, index |-> p.index, key |-> p.key,
                    goAway |-> p.goAway, retryable |-> p.retryable]

Dialing == {"redirect", "state", "refresh"}

Shape ==
    /\ ws \in Sockets \union {None} /\ stop \in BOOLEAN /\ connected \in BOOLEAN
    /\ sock \in [Sockets -> {"open", "lost", "closing", "closed"}]
    /\ loop \in [Sockets -> {"none", "new", "reading", "handling", "closing"}]
    /\ conn \in {"redirect", "state", "hello", "done"}
    /\ recon.pc \in {"none", "start", "sleep", "close", "hello"} \union Dialing
    /\ stopping \in {"no", "reader", "socket", "cancelled", "done"}
    /\ IsRun(recon) /\ IsPolicy(policy)

AllClosed == \A s \in Sockets : sock[s] = "closed"

\* Only the client's own socket is not closed.
Owned == \A s \in Sockets : sock[s] # "closed" => ws = s

\* connect() and the reconnect task take turns, and dial when everything is closed.
Turns ==
    /\ conn \in {"redirect", "state"} => AllClosed /\ recon.pc = "none" /\ ws = None
    /\ conn = "hello" => recon.pc \in {"none", "start", "sleep"}
    /\ recon.pc \in Dialing => AllClosed /\ ws = None
    /\ recon.pc = "close" /\ ws # None => sock[ws] \in {"closing", "closed"}

\* How far unload has come.
Unloads ==
    /\ stopping # "no" => stop
    /\ stopping \in {"socket", "cancelled", "done"} => recon.pc = "none"
    /\ stopping = "done" => AllClosed /\ conn = "done"

\* A client that is being reconnected, or whose loop ends, is not connected.
Offline ==
    /\ recon.pc \notin {"none", "hello"} => ~connected
    /\ ws # None => (loop[ws] = "closing" => ~connected)

\* The window that was asked for and not waited is the one the policy keeps.
Window ==
    /\ asked = policy.goAway /\ (asked = 0 \/ asked > 0)
    /\ recon.pc \in Dialing \union {"close"} => asked = 0

TInv == Shape /\ Owned /\ Turns /\ Unloads /\ Offline /\ Window /\ ConnectedIsRead

-----------------------------------------------------------------------------
(* Records                                                                   *)

\* A run that is moved to another place is a run.
LEMMA Runs ==
  ASSUME NEW r, IsRun(r), NEW pc
  PROVE  IsRun([r EXCEPT !.pc = pc]) /\ [r EXCEPT !.pc = pc].pc = pc
<1>1. PICK a : a = [r EXCEPT !.pc = pc]
  OBVIOUS
<1>2. IsRun(a) /\ a.pc = pc
  BY <1>1 DEF IsRun
<1> QED
  BY <1>1, <1>2

\* No run is a run at no place.
LEMMA NoRunIs == IsRun(NoRun) /\ NoRun.pc = "none"
  BY DEF NoRun, IsRun

\* What _schedule_reconnect leaves.
LEMMA Scheduled ==
  ASSUME IsRun(recon), ScheduleReconnect
  PROVE  /\ IsRun(recon')
         /\ recon'.pc = IF stop \/ recon.pc # "none" THEN recon.pc ELSE "start"
  BY NoRunIs, Runs DEF ScheduleReconnect

\* A transport failure leaves the window.
LEMMA FailureKeepsWindow ==
  ASSUME IsPolicy(policy), OnTransportFailure
  PROVE  IsPolicy(policy') /\ policy'.goAway = policy.goAway
<1>1. PICK p : p = [policy EXCEPT !.ladder = <<>>, !.index = Adopt(TransportKey),
                             !.key = TransportKey, !.retryable = TRUE]
  OBVIOUS
<1>2. IsPolicy(p) /\ p.goAway = policy.goAway
  BY <1>1 DEF IsPolicy
<1> QED
  BY <1>1, <1>2 DEF OnTransportFailure

\* A healthy connection ends the go-away window.
LEMMA HealthyEndsWindow ==
  ASSUME OnHealthy
  PROVE  IsPolicy(policy') /\ policy'.goAway = 0
  BY DEF OnHealthy, Fresh, IsPolicy

\* An error response sets the window it names.
LEMMA ErrorSetsWindow ==
  ASSUME NEW code, NEW grpc, NEW goAway, NEW parts, OnServerError(code, grpc, goAway, parts)
  PROVE  IsPolicy(policy') /\ policy'.goAway = goAway
<1>1. policy' = [ladder |-> policy'.ladder, index |-> policy'.index, key |-> policy'.key,
                 goAway |-> goAway, retryable |-> policy'.retryable]
  BY DEF OnServerError
<1> QED
  BY <1>1 DEF IsPolicy

\* A wait that takes the window leaves none.
LEMMA DelayTakesWindow ==
  ASSUME IsPolicy(policy), TakeDelay
  PROVE  /\ IsPolicy(policy')
         /\ policy'.goAway = IF GoAwayPending THEN 0 ELSE policy.goAway
<1>1. PICK p : p = [policy EXCEPT !.goAway = 0, !.index = 0]
  OBVIOUS
<1>2. PICK q : q = [policy EXCEPT !.index = @ + 1]
  OBVIOUS
<1>3. IsPolicy(p) /\ p.goAway = 0
  BY <1>1 DEF IsPolicy
<1>4. IsPolicy(q) /\ q.goAway = policy.goAway
  BY <1>2 DEF IsPolicy
<1> QED
  BY <1>1, <1>2, <1>3, <1>4 DEF TakeDelay

-----------------------------------------------------------------------------
\* The initial states satisfy TInv.
LEMMA InitTInv == Init => TInv
<1> SUFFICES ASSUME Init PROVE TInv
  OBVIOUS
<1>1. IsRun(recon) /\ recon.pc = "none"
  BY NoRunIs DEF Init
<1>2. IsPolicy(policy) /\ policy.goAway = 0
  BY DEF Init, Fresh, IsPolicy
<1> QED
  BY <1>1, <1>2
     DEF Init, TInv, Shape, AllClosed, Owned, Turns, Unloads, Offline, Window, ConnectedIsRead,
         Dialing

-----------------------------------------------------------------------------
(* connect()                                                                 *)

\* TInv through the steps of connect().
LEMMA ConnectKeeps ==
  ASSUME TInv, Connect
  PROVE  TInv'
<1>0. IsRun(recon) /\ IsPolicy(policy) /\ None \notin Sockets
  BY SocketsAssumption DEF TInv, Shape
<1> USE DEF TInv, Shape, AllClosed, Owned, Turns, Unloads, Offline,
          Window, ConnectedIsRead, Dialing,
          taskVars, stopVars, socketVars, serverVars, historyVars
<1>1. CASE ConnectRedirected
  BY <1>0, <1>1 DEF ConnectRedirected
<1>2. CASE ConnectFails
  BY <1>0, <1>2, Scheduled DEF ConnectFails, Fault
<1>3. CASE ConnectCrashes
  BY <1>0, <1>3 DEF ConnectCrashes, Fault
<1>4. CASE ConnectOpens
  BY <1>0, <1>4 DEF ConnectOpens, Opens, Unused
<1>5. CASE ConnectGreets
  BY <1>0, <1>5, Scheduled DEF ConnectGreets, Greets
<1> QED
  BY <1>1, <1>2, <1>3, <1>4, <1>5 DEF Connect

-----------------------------------------------------------------------------
(* _reconnect()                                                              *)

\* The reconnect task goes on to pc, and nothing else is touched by its own step.
Moved(pc) ==
    /\ IsRun(recon') /\ recon'.pc = pc
    /\ UNCHANGED <<loop, directive, cancelled, reader, conn, stopVars>>

\* What moving the reconnect task to another place changes.
LEMMA Moves ==
  ASSUME IsRun(recon), NEW pc, NEW wait, NEW refreshed,
         \/ ReconOnly([recon EXCEPT !.pc = pc])
         \/ ReconOnly([recon EXCEPT !.pc = pc, !.wait = wait])
         \/ ReconOnly([recon EXCEPT !.pc = pc, !.refreshed = refreshed])
         \/ pc = "none" /\ Leaves
  PROVE  Moved(pc)
<1>1. CASE ReconOnly([recon EXCEPT !.pc = pc])
  <2>1. IsRun(recon') /\ recon'.pc = pc
    BY <1>1, Runs DEF ReconOnly
  <2> QED
    BY <1>1, <2>1 DEF ReconOnly, Moved
<1>2. CASE ReconOnly([recon EXCEPT !.pc = pc, !.wait = wait])
  <2>1. PICK r : r = [recon EXCEPT !.pc = pc, !.wait = wait]
    OBVIOUS
  <2>2. IsRun(r) /\ r.pc = pc
    BY <2>1 DEF IsRun
  <2> QED
    BY <1>2, <2>1, <2>2 DEF ReconOnly, Moved
<1>3. CASE ReconOnly([recon EXCEPT !.pc = pc, !.refreshed = refreshed])
  <2>1. PICK r : r = [recon EXCEPT !.pc = pc, !.refreshed = refreshed]
    OBVIOUS
  <2>2. IsRun(r) /\ r.pc = pc
    BY <2>1 DEF IsRun
  <2> QED
    BY <1>3, <2>1, <2>2 DEF ReconOnly, Moved
<1>4. CASE pc = "none" /\ Leaves
  BY <1>4, NoRunIs DEF ReconOnly, Leaves, Moved
<1> QED
  BY <1>1, <1>2, <1>3, <1>4

\* TInv through the steps of the reconnect task.
LEMMA ReconKeeps ==
  ASSUME TInv, Recon
  PROVE  TInv'
<1>0. IsRun(recon) /\ IsPolicy(policy) /\ None \notin Sockets
  BY SocketsAssumption DEF TInv, Shape
<1> USE DEF TInv, Shape, AllClosed, Owned, Turns, Unloads, Offline,
          Window, ConnectedIsRead, Dialing,
          taskVars, stopVars, socketVars, serverVars, historyVars
<1>1. CASE ReconSleeps
  <2>1. Moved("sleep")
    BY <1>0, <1>1, Moves DEF ReconSleeps
  <2> QED
    BY <1>0, <1>1, <2>1, DelayTakesWindow DEF Moved, ReconSleeps, Delay, GoAwayPending
<1>2. CASE ReconStops
  <2>1. Moved("none")
    BY <1>0, <1>2, Moves DEF ReconStops
  <2> QED
    BY <1>0, <1>2, <2>1 DEF Moved, ReconStops
<1>3. CASE ReconWakes
  <2>1. Moved(IF GoAwayPending THEN "start" ELSE "close")
    BY <1>0, <1>3, Moves DEF ReconWakes
  <2> QED
    BY <1>0, <1>3, <2>1 DEF Moved, ReconWakes, GoAwayPending
<1>4. CASE ReconCloses
  <2>1. Moved("redirect")
    BY <1>0, <1>4, Moves DEF ReconCloses
  <2> QED
    BY <1>0, <1>4, <2>1 DEF Moved, ReconCloses
<1>5. CASE ReconRedirected
  <2>1. Moved("state")
    BY <1>0, <1>5, Moves DEF ReconRedirected
  <2> QED
    BY <1>0, <1>5, <2>1 DEF Moved, ReconRedirected
<1>6. CASE ReconFails
  <2>1. Moved("start")
    BY <1>0, <1>6, Moves DEF ReconFails
  <2> QED
    BY <1>0, <1>6, <2>1, FailureKeepsWindow DEF Moved, ReconFails, Fault
<1>7. CASE ReconRejected
  <2>1. Moved(IF recon.refreshed THEN "start" ELSE "refresh")
    BY <1>0, <1>7, Moves DEF ReconRejected
  <2> QED
    BY <1>0, <1>7, <2>1, FailureKeepsWindow DEF Moved, ReconRejected, LoginFails, Fault
<1>8. CASE ReconCrashes
  <2>1. Moved("none")
    BY <1>0, <1>8, Moves DEF ReconCrashes
  <2> QED
    BY <1>0, <1>8, <2>1 DEF Moved, ReconCrashes, Fault
<1>9. CASE Refreshed
  <2>1. Moved("start")
    BY <1>0, <1>9, Moves DEF Refreshed
  <2> QED
    BY <1>0, <1>9, <2>1 DEF Moved, Refreshed
<1>10. CASE RefreshRejected
  <2>1. Moved("start")
    BY <1>0, <1>10, Moves DEF RefreshRejected
  <2> QED
    BY <1>0, <1>10, <2>1 DEF Moved, RefreshRejected, Fault
<1>11. CASE RefreshUnavailable
  <2>1. Moved("start")
    BY <1>0, <1>11, Moves DEF RefreshUnavailable
  <2> QED
    BY <1>0, <1>11, <2>1 DEF Moved, RefreshUnavailable, Fault
<1>12. CASE ReconOpens
  <2>1. Moved("hello")
    BY <1>0, <1>12, Moves DEF ReconOpens
  <2> QED
    BY <1>0, <1>12, <2>1 DEF Moved, ReconOpens, Opens, Unused
<1>13. CASE ReconGreets
  BY <1>0, <1>13, NoRunIs DEF ReconGreets, Greets
<1> QED
  BY <1>1, <1>2, <1>3, <1>4, <1>5, <1>6, <1>7, <1>8, <1>9, <1>10, <1>11, <1>12, <1>13 DEF Recon

-----------------------------------------------------------------------------
(* What a loop reads                                                         *)

\* TInv through what a message loop reads.
LEMMA ReadsKeep ==
  ASSUME TInv, NEW s \in Sockets, Reads(s)
  PROVE  TInv'
<1>0. IsRun(recon) /\ IsPolicy(policy) /\ None \notin Sockets
  BY SocketsAssumption DEF TInv, Shape
<1> USE DEF TInv, Shape, AllClosed, Owned, Turns, Unloads, Offline,
          Window, ConnectedIsRead, Dialing,
          taskVars, stopVars, socketVars, serverVars, historyVars
<1>1. CASE LoopReadsState(s)
  BY <1>0, <1>1, HealthyEndsWindow DEF LoopReadsState, Readable
<1>2. CASE LoopReadsError(s)
  BY <1>0, <1>2, ErrorSetsWindow DEF LoopReadsError, Readable, Fault, ParseSeconds
<1>3. CASE LoopReadsGarbage(s)
  BY <1>0, <1>3, Scheduled, FailureKeepsWindow DEF LoopReadsGarbage, Readable, Fault, Break, Finish
<1>4. CASE LoopStops(s)
  BY <1>0, <1>4, Scheduled, FailureKeepsWindow DEF LoopStops, Readable, Break, Finish
<1> QED
  BY <1>1, <1>2, <1>3, <1>4 DEF Reads

-----------------------------------------------------------------------------
(* The rest of a loop                                                        *)

\* TInv through the steps of a message loop.
LEMMA LoopKeeps ==
  ASSUME TInv, NEW s \in Sockets, Loop(s)
  PROVE  TInv'
<1>0. IsRun(recon) /\ IsPolicy(policy) /\ None \notin Sockets
  BY SocketsAssumption DEF TInv, Shape
<1> USE DEF TInv, Shape, AllClosed, Owned, Turns, Unloads, Offline,
          Window, ConnectedIsRead, Dialing,
          taskVars, stopVars, socketVars, serverVars, historyVars
<1>1. CASE LoopStarts(s)
  BY <1>0, <1>1 DEF LoopStarts
<1>2. CASE LoopBreaks(s)
  <2>0. (IsPolicy(policy') /\ policy'.goAway = policy.goAway) /\ IsRun(recon')
    BY <1>0, <1>2, Scheduled, FailureKeepsWindow DEF LoopBreaks, Break, Finish
  <2>1. CASE sock[s] = "closed"
    BY <1>0, <1>2, <2>0, <2>1, Scheduled DEF LoopBreaks, Break, Finish
  <2>2. CASE sock[s] # "closed"
    BY <1>0, <1>2, <2>0, <2>2 DEF LoopBreaks, Break
  <2> QED
    BY <2>1, <2>2
<1>3. CASE LoopHandled(s)
  BY <1>0, <1>3 DEF LoopHandled
<1>4. CASE LoopCrashes(s)
  <2>0. (IsPolicy(policy') /\ policy'.goAway = policy.goAway) /\ IsRun(recon')
    BY <1>0, <1>4, Scheduled, FailureKeepsWindow DEF LoopCrashes, Break, Finish
  <2>1. CASE sock[s] = "closed"
    BY <1>0, <1>4, <2>0, <2>1, Scheduled DEF LoopCrashes, Break, Finish, Fault
  <2>2. CASE sock[s] # "closed"
    BY <1>0, <1>4, <2>0, <2>2 DEF LoopCrashes, Break, Fault
  <2> QED
    BY <2>1, <2>2
<1>5. CASE LoopCloses(s)
  BY <1>0, <1>5, Scheduled, FailureKeepsWindow DEF LoopCloses, Finish
<1> QED
  BY <1>1, <1>2, <1>3, <1>4, <1>5 DEF Loop

-----------------------------------------------------------------------------
(* disconnect()                                                              *)

\* TInv through unload.
LEMMA UnloadKeeps ==
  ASSUME TInv, Unload
  PROVE  TInv'
<1>0. IsRun(recon) /\ IsPolicy(policy) /\ None \notin Sockets
  BY SocketsAssumption DEF TInv, Shape
<1> USE DEF TInv, Shape, AllClosed, Owned, Turns, Unloads, Offline,
          Window, ConnectedIsRead, Dialing,
          taskVars, stopVars, socketVars, serverVars, historyVars
<1>1. CASE StopReader
  BY <1>0, <1>1 DEF StopReader
<1>2. CASE StopDialer
  BY <1>0, <1>2, NoRunIs DEF StopDialer
<1>3. CASE StopSocket
  BY <1>0, <1>3 DEF StopSocket
<1> QED
  BY <1>1, <1>2, <1>3 DEF Unload

-----------------------------------------------------------------------------
(* The network                                                               *)

\* TInv through the loss of a socket.
LEMMA LossKeeps ==
  ASSUME TInv, NEW s \in Sockets, SocketLost(s)
  PROVE  TInv'
<1>0. IsRun(recon) /\ IsPolicy(policy) /\ None \notin Sockets
  BY SocketsAssumption DEF TInv, Shape
<1> USE DEF TInv, Shape, AllClosed, Owned, Turns, Unloads, Offline,
          Window, ConnectedIsRead, Dialing,
          taskVars, stopVars, socketVars, serverVars, historyVars
<1> QED
  BY <1>0 DEF SocketLost, Fault

-----------------------------------------------------------------------------
(* Sends and the token                                                       *)

\* TInv through a failing send and the expiry of the token.
LEMMA RestKeeps ==
  ASSUME TInv, SendFails \/ TokenExpires
  PROVE  TInv'
<1>0. IsRun(recon) /\ IsPolicy(policy) /\ None \notin Sockets
  BY SocketsAssumption DEF TInv, Shape
<1> USE DEF TInv, Shape, AllClosed, Owned, Turns, Unloads, Offline,
          Window, ConnectedIsRead, Dialing,
          taskVars, stopVars, socketVars, serverVars, historyVars
<1>1. CASE SendFails
  BY <1>0, <1>1, Scheduled DEF SendFails
<1>2. CASE TokenExpires
  BY <1>0, <1>2 DEF TokenExpires
<1> QED
  BY <1>1, <1>2

-----------------------------------------------------------------------------
(* Every step                                                                *)

\* TInv through every step.
LEMMA StepKeeps ==
  ASSUME TInv, [Next]_vars
  PROVE  TInv'
<1>1. CASE Connect
  BY <1>1, ConnectKeeps
<1>2. CASE Recon
  BY <1>2, ReconKeeps
<1>3. CASE Unload
  BY <1>3, UnloadKeeps
<1>4. CASE \E s \in Sockets : Reads(s) \/ Loop(s) \/ SocketLost(s)
  BY <1>4, ReadsKeep, LoopKeeps, LossKeeps
<1>5. CASE SendFails \/ TokenExpires
  BY <1>5, RestKeeps
<1>6. CASE UNCHANGED vars
  BY <1>6
     DEF TInv, Shape, AllClosed, Owned, Turns, Unloads, Offline, Window, ConnectedIsRead,
         Dialing, vars, taskVars, stopVars, socketVars, serverVars, historyVars
<1> QED
  BY <1>1, <1>2, <1>3, <1>4, <1>5, <1>6 DEF Next

\* The invariant of the transport: connect() and the reconnect task dial in turn and only
\* while everything is closed, at whatever await the loops and unload interrupt them.
THEOREM Invariance == Spec => []TInv
<1>1. Init => TInv
  BY InitTInv
<1>2. TInv /\ [Next]_vars => TInv'
  BY StepKeeps
<1> QED
  BY <1>1, <1>2, PTL DEF Spec

\* The device holds one connection: however many sockets, failures and reconnects there
\* are, a dial only follows the close of the socket before.
THEOREM HoldsOneSocket == Spec => []OneSocket
<1>1. TInv => OneSocket
  <2> SUFFICES ASSUME TInv PROVE OneSocket
    OBVIOUS
  <2> DEFINE held == {s \in Sockets : sock[s] # "closed"}
  <2>1. held \subseteq {ws} /\ \A s \in Sockets : sock[s] # "closed" => ws = s
    BY DEF TInv, Owned
  <2>2. IsFiniteSet({ws}) /\ Cardinality({ws}) = 1
    BY FS_Singleton
  <2>3. Cardinality(held) <= Cardinality({ws})
    BY <2>1, <2>2, FS_Subset
  <2> QED
    BY <2>1, <2>2, <2>3 DEF OneSocket
<1> QED
  BY <1>1, Invariance, PTL

\* A client that says it is connected has a task that reads the answers to what the
\* strict senders write, whichever task connected it and whatever fails next.
THEOREM ConnectedClientsAreRead == Spec => []ConnectedIsRead
<1>1. TInv => ConnectedIsRead
  BY DEF TInv
<1> QED
  BY <1>1, Invariance, PTL

\* After unload no reconnect task, no dialing connect() and no open socket is left,
\* whatever was under way when it began.
THEOREM UnloadLeavesNothing == Spec => []NothingLeftBehind
<1>1. TInv => NothingLeftBehind
  BY DEF TInv, Unloads, AllClosed, NothingLeftBehind
<1> QED
  BY <1>1, Invariance, PTL

\* No connection is opened inside a window the server asked to stay away for, also when
\* it asked during the wait for an earlier failure.
THEOREM WindowsAreKept == Spec => DialsOutsideWindow
<1>1. TInv /\ [Next]_vars => [recon.pc = "state" /\ recon'.pc = "hello" => asked = 0]_vars
  BY DEF TInv, Window, Dialing
<1> QED
  BY <1>1, Invariance, PTL DEF Spec, DialsOutsideWindow

-----------------------------------------------------------------------------
(* Somebody recovers                                                         *)

\* A loop is cancelled only by an unload, so the loop of a running client schedules.
RInv ==
    /\ SomebodyRecovers
    /\ cancelled \in [Sockets -> BOOLEAN] /\ \A s \in Sockets : cancelled[s] => stop

\* RInv through every step, as long as every reply can be read.
LEMMA RecoveryKeeps ==
  ASSUME TInv, RInv, [Next]_vars, "malformed" \notin Faults
  PROVE  RInv'
<1>0. IsRun(recon) /\ None \notin Sockets
  BY SocketsAssumption DEF TInv, Shape
<1> USE DEF TInv, Shape, Turns, RInv, SomebodyRecovers, Dialing,
            taskVars, stopVars, socketVars, serverVars, historyVars
<1>1. CASE ConnectRedirected
  BY <1>0, <1>1 DEF ConnectRedirected
<1>2. CASE ConnectFails
  BY <1>0, <1>2, Scheduled DEF ConnectFails, Fault
<1>3. CASE ConnectCrashes
  BY <1>0, <1>3 DEF ConnectCrashes, Fault
<1>4. CASE ConnectOpens
  BY <1>0, <1>4 DEF ConnectOpens, Opens, Unused
<1>5. CASE ConnectGreets
  BY <1>0, <1>5, Scheduled DEF ConnectGreets, Greets
<1>6. CASE ReconSleeps
  <2>1. Moved("sleep")
    BY <1>0, <1>6, Moves DEF ReconSleeps
  <2> QED
    BY <1>0, <1>6, <2>1 DEF Moved, ReconSleeps
<1>7. CASE ReconStops
  <2>1. Moved("none")
    BY <1>0, <1>7, Moves DEF ReconStops
  <2> QED
    BY <1>0, <1>7, <2>1 DEF Moved, ReconStops
<1>8. CASE ReconWakes
  <2>1. Moved(IF GoAwayPending THEN "start" ELSE "close")
    BY <1>0, <1>8, Moves DEF ReconWakes
  <2> QED
    BY <1>0, <1>8, <2>1 DEF Moved, ReconWakes
<1>9. CASE ReconCloses
  <2>1. Moved("redirect")
    BY <1>0, <1>9, Moves DEF ReconCloses
  <2> QED
    BY <1>0, <1>9, <2>1 DEF Moved, ReconCloses
<1>10. CASE ReconRedirected
  <2>1. Moved("state")
    BY <1>0, <1>10, Moves DEF ReconRedirected
  <2> QED
    BY <1>0, <1>10, <2>1 DEF Moved, ReconRedirected
<1>11. CASE ReconFails
  <2>1. Moved("start")
    BY <1>0, <1>11, Moves DEF ReconFails
  <2> QED
    BY <1>0, <1>11, <2>1 DEF Moved, ReconFails
<1>12. CASE ReconRejected
  <2>1. Moved(IF recon.refreshed THEN "start" ELSE "refresh")
    BY <1>0, <1>12, Moves DEF ReconRejected
  <2> QED
    BY <1>0, <1>12, <2>1 DEF Moved, ReconRejected
<1>13. CASE ReconCrashes
  BY <1>13 DEF ReconCrashes, Fault
<1>14. CASE Refreshed
  <2>1. Moved("start")
    BY <1>0, <1>14, Moves DEF Refreshed
  <2> QED
    BY <1>0, <1>14, <2>1 DEF Moved, Refreshed
<1>15. CASE RefreshRejected
  <2>1. Moved("start")
    BY <1>0, <1>15, Moves DEF RefreshRejected
  <2> QED
    BY <1>0, <1>15, <2>1 DEF Moved, RefreshRejected
<1>16. CASE RefreshUnavailable
  <2>1. Moved("start")
    BY <1>0, <1>16, Moves DEF RefreshUnavailable
  <2> QED
    BY <1>0, <1>16, <2>1 DEF Moved, RefreshUnavailable
<1>17. CASE ReconOpens
  <2>1. Moved("hello")
    BY <1>0, <1>17, Moves DEF ReconOpens
  <2> QED
    BY <1>0, <1>17, <2>1 DEF Moved, ReconOpens, Opens, Unused
<1>18. CASE ReconGreets
  BY <1>0, <1>18, NoRunIs DEF ReconGreets, Greets
<1>19. CASE StopReader
  BY <1>0, <1>19 DEF StopReader, Unloads
<1>20. CASE StopDialer
  BY <1>0, <1>20, NoRunIs DEF StopDialer, Unloads
<1>21. CASE StopSocket
  BY <1>0, <1>21 DEF StopSocket, Unloads
<1>22. CASE \E s \in Sockets : Reads(s) \/ Loop(s) \/ SocketLost(s)
  <2> SUFFICES ASSUME NEW s \in Sockets, Reads(s) \/ Loop(s) \/ SocketLost(s)
               PROVE  RInv'
    BY <1>22
  <2>1. CASE LoopReadsState(s) \/ LoopReadsError(s) \/ SocketLost(s)
    BY <1>0, <2>1 DEF LoopReadsState, LoopReadsError, SocketLost, Readable, Fault
  <2>2. CASE LoopReadsGarbage(s)
    BY <2>2 DEF LoopReadsGarbage, Fault
  <2>3. CASE LoopStops(s)
    BY <1>0, <2>3, Scheduled DEF LoopStops, Readable, Break, Finish
  <2>4. CASE LoopStarts(s) \/ LoopHandled(s)
    BY <1>0, <2>4 DEF LoopStarts, LoopHandled
  <2>5. CASE LoopBreaks(s)
    BY <1>0, <2>5, Scheduled DEF LoopBreaks, Break, Finish
  <2>6. CASE LoopCrashes(s)
    BY <1>0, <2>6, Scheduled DEF LoopCrashes, Fault, Break, Finish
  <2>7. CASE LoopCloses(s)
    BY <1>0, <2>7, Scheduled DEF LoopCloses, Finish
  <2> QED
    BY <2>1, <2>2, <2>3, <2>4, <2>5, <2>6, <2>7 DEF Reads, Loop
<1>23. CASE SendFails
  BY <1>0, <1>23, Scheduled DEF SendFails
<1>24. CASE TokenExpires
  BY <1>24 DEF TokenExpires
<1>25. CASE UNCHANGED vars
  BY <1>25 DEF vars
<1> QED
  BY <1>1, <1>2, <1>3, <1>4, <1>5, <1>6, <1>7, <1>8, <1>9, <1>10, <1>11, <1>12, <1>13, <1>14,
     <1>15, <1>16, <1>17, <1>18, <1>19, <1>20, <1>21, <1>22, <1>23, <1>24, <1>25
     DEF Next, Connect, Recon, Unload

\* While every reply can be read, a client that finished connect() has a reconnect task
\* or a message loop whose end starts one: no order of failures, cancelled loops and
\* failed sends leaves nobody to bring the connection back.
THEOREM SomebodyAlwaysRecovers ==
  ASSUME "malformed" \notin Faults
  PROVE  Spec => []SomebodyRecovers
<1>1. Init => RInv
  BY DEF Init, RInv, SomebodyRecovers
<1>2. TInv /\ RInv /\ [Next]_vars => RInv'
  BY RecoveryKeeps
<1>3. RInv => SomebodyRecovers
  BY DEF RInv
<1> QED
  BY <1>1, <1>2, <1>3, Invariance, PTL DEF Spec

-----------------------------------------------------------------------------
(* Ranks in a finite set of numbers                                          *)

\* Every nonempty set of numbers has a least element.
LEMMA LeastOf ==
  ASSUME NEW T, T \subseteq Nat, T # {}
  PROVE  \E x \in T : \A y \in T : x <= y
<1>1. PICK R : R = OpToRel(<, Nat)
  OBVIOUS
<1>2. IsWellFoundedOn(R, Nat)
  BY <1>1, NatLessThanWellFounded
<1>3. PICK x \in T : \A y \in T : ~(<<y, x>> \in R)
  BY <1>2, WFMin
<1>4. ASSUME NEW a \in Nat, NEW b \in Nat
      PROVE  <<a, b>> \in R <=> a < b
  BY <1>1 DEF OpToRel
<1>5. ASSUME NEW y \in T
      PROVE  x <= y
  <2>1. x \in Nat /\ y \in Nat
    BY <1>5
  <2>2. ~(<<y, x>> \in R)
    BY <1>3, <1>5
  <2>3. ~(y < x)
    BY <1>4, <2>1, <2>2
  <2> QED
    BY <2>1, <2>3
<1> QED
  BY <1>5

\* By induction on the size of the set: a smallest counterexample has a smaller one.
LEMMA GreatestOf ==
  ASSUME NEW S, S \subseteq Nat, IsFiniteSet(S), S # {}
  PROVE  \E x \in S : \A y \in S : y <= x
<1> DEFINE Greatest(T) == \E x \in T : \A y \in T : y <= x
           Bad == {n \in Nat : \E T \in SUBSET Nat :
                     IsFiniteSet(T) /\ Cardinality(T) = n + 1 /\ ~Greatest(T)}
<1>1. SUFFICES ASSUME ~Greatest(S) PROVE FALSE
  OBVIOUS
<1>2. Cardinality(S) \in Nat /\ Cardinality(S) # 0
  BY FS_CardinalityType, FS_EmptySet
<1>3. Cardinality(S) - 1 \in Bad
  BY <1>1, <1>2
<1>4. PICK n \in Bad : \A m \in Bad : n <= m
  BY <1>3, LeastOf
<1>5. PICK T \in SUBSET Nat : IsFiniteSet(T) /\ Cardinality(T) = n + 1 /\ ~Greatest(T)
  BY <1>4
<1>6. T # {}
  BY <1>5, FS_EmptySet
<1>7. PICK x \in T : TRUE
  BY <1>6
<1>8. IsFiniteSet(T \ {x}) /\ Cardinality(T \ {x}) = n
  <2>1. n \in Nat
    BY <1>4
  <2>2. /\ IsFiniteSet(T \ {x})
        /\ Cardinality(T \ {x}) = IF x \in T THEN Cardinality(T) - 1 ELSE Cardinality(T)
    BY <1>5, FS_RemoveElement
  <2> QED
    BY <1>5, <1>7, <2>1, <2>2
<1>9. CASE n = 0
  <2>1. T = {x}
    BY <1>7, <1>8, <1>9, FS_EmptySet
  <2> QED
    BY <1>5, <2>1
<1>10. CASE n # 0
  <2>1. n - 1 \in Nat /\ n - 1 \notin Bad
    BY <1>4, <1>10
  <2>2. Greatest(T \ {x})
    BY <1>8, <2>1
  <2>3. PICK m \in T \ {x} : \A y \in T \ {x} : y <= m
    BY <2>2
  <2>4. m \in Nat /\ x \in Nat
    OBVIOUS
  <2>5. CASE x <= m
    BY <1>5, <2>3, <2>4, <2>5
  <2>6. CASE m <= x
    BY <1>5, <1>7, <2>3, <2>4, <2>6
  <2> QED
    BY <2>4, <2>5, <2>6
<1> QED
  BY <1>9, <1>10

\* Every rank below the size of the set is taken, and a larger number has a larger rank.
LEMMA Ranks ==
  ASSUME NEW S, S \subseteq Nat, IsFiniteSet(S)
  PROVE  /\ \A i \in 0 .. Cardinality(S) - 1 :
              \E x \in S : Cardinality({r \in S : r < x}) = i
         /\ \A x, y \in S :
              x <= y => Cardinality({r \in S : r < x}) <= Cardinality({r \in S : r < y})
<1> DEFINE Below(x) == {r \in S : r < x}
           Rank(x) == Cardinality(Below(x))
<1>1. ASSUME NEW x \in S
      PROVE  IsFiniteSet(Below(x)) /\ Rank(x) \in Nat
  <2>1. IsFiniteSet(Below(x))
    BY FS_Subset
  <2> QED
    BY <2>1, FS_CardinalityType
<1>2. ASSUME NEW x \in S, NEW y \in S, x <= y
      PROVE  Rank(x) <= Rank(y)
  <2>1. Below(x) \subseteq Below(y)
    <3> SUFFICES ASSUME NEW r \in S, r < x PROVE r < y
      OBVIOUS
    <3> QED
      BY <1>2
  <2> QED
    BY <1>1, <2>1, FS_Subset
<1>3. ASSUME NEW i \in 0 .. Cardinality(S) - 1
      PROVE  \E x \in S : Rank(x) = i
  <2> DEFINE Ranked == {x \in S : Rank(x) >= i}
  <2>1. Cardinality(S) \in Nat
    BY FS_CardinalityType
  <2>2. S # {}
    BY <1>3, FS_EmptySet
  <2>3. PICK m \in S : \A y \in S : y <= m
    BY <2>2, GreatestOf
  <2>4. Below(m) = S \ {m}
    <3>1. ASSUME NEW r \in S
          PROVE  r < m <=> r # m
      <4>1. r \in Nat /\ m \in Nat /\ r <= m
        BY <2>3
      <4> QED
        BY <4>1
    <3> QED
      BY <3>1
  <2>5. Rank(m) = Cardinality(S) - 1
    BY <2>4, FS_RemoveElement
  <2>6. m \in Ranked
    BY <1>3, <2>1, <2>5
  <2>7. PICK x \in Ranked : \A y \in Ranked : x <= y
    BY <2>6, LeastOf
  <2>8. CASE Rank(x) > i
    <3>1. Below(x) # {}
      BY <2>8, <1>3, FS_EmptySet
    <3>2. Below(x) \subseteq Nat /\ IsFiniteSet(Below(x)) /\ x \in S
      BY <1>1, <2>7
    <3>3. PICK q \in Below(x) : \A y \in Below(x) : y <= q
      BY <3>1, <3>2, GreatestOf
    <3>4. Below(q) = Below(x) \ {q}
      <4>1. ASSUME NEW r \in S
            PROVE  r < q <=> r < x /\ r # q
        <5>1. r \in Nat /\ q \in Nat /\ x \in Nat /\ q < x
          BY <2>7, <3>3
        <5>2. r < x => r <= q
          BY <3>3
        <5> QED
          BY <5>1, <5>2
      <4> QED
        BY <4>1
    <3>5. Rank(q) = Rank(x) - 1
      BY <3>2, <3>3, <3>4, FS_RemoveElement
    <3>6. q \in Ranked
      BY <1>1, <1>3, <2>7, <2>8, <3>3, <3>5
    <3> QED
      BY <2>7, <3>3, <3>6
  <2>9. CASE Rank(x) = i
    BY <2>7, <2>9
  <2> QED
    BY <1>1, <1>3, <2>7, <2>8, <2>9
<1> QED
  BY <1>2, <1>3

\* parse_backoff_ladder: the rungs ascend, whatever the server sent.
LEMMA LadderOf ==
  ASSUME NEW parts, parts \subseteq Int, IsFiniteSet(parts)
  PROVE  ParseLadder(parts) \in Seq(Nat) /\ Ascends(ParseLadder(parts))
<1> DEFINE rungs == {rung \in parts : rung >= 0}
           Rank(x) == Cardinality({r \in rungs : r < x})
           n == Cardinality(rungs)
           rung(i) == CHOOSE x \in rungs : Rank(x) = i - 1
<1>1. rungs \subseteq Nat /\ IsFiniteSet(rungs)
  <2>1. \A x \in parts : x >= 0 => x \in Nat
    OBVIOUS
  <2>2. rungs \in SUBSET parts /\ rungs \subseteq Nat
    BY <2>1
  <2> QED
    BY <2>2, FS_Subset
<1>2. n \in Nat
  BY <1>1, FS_CardinalityType
<1>3. ASSUME NEW i \in 1 .. n
      PROVE  rung(i) \in rungs /\ rung(i) \in Nat /\ Rank(rung(i)) = i - 1
  <2>1. i - 1 \in 0 .. n - 1
    BY <1>2
  <2>2. \E x \in rungs : Rank(x) = i - 1
    BY <1>1, <2>1, Ranks
  <2> QED
    BY <1>1, <2>2
<1>4. ParseLadder(parts) = [i \in 1 .. n |-> rung(i)]
  BY DEF ParseLadder
<1>5. \A x, y \in rungs : x <= y => Rank(x) <= Rank(y)
  BY <1>1, Ranks
<1> HIDE DEF rungs, Rank, n, rung
<1>6. ParseLadder(parts) \in Seq(Nat) /\ Len(ParseLadder(parts)) = n
  BY <1>2, <1>3, <1>4
<1>7. ASSUME NEW i \in 1 .. n, NEW j \in 1 .. n, i < j
      PROVE  ParseLadder(parts)[i] < ParseLadder(parts)[j]
  <2>1. ~(rung(j) <= rung(i))
    BY <1>2, <1>3, <1>5, <1>7
  <2> QED
    BY <1>3, <1>4, <2>1
<1> QED
  BY <1>6, <1>7 DEF Ascends

-----------------------------------------------------------------------------
(* The ladder                                                                *)

\* The last rung waited is the one the index has passed, on a ladder that ascends.
Rungs ==
    /\ policy.ladder \in Seq(Nat) /\ Ascends(policy.ladder)
    /\ policy.index \in Nat /\ policy.goAway \in Nat
    /\ reader \in Sockets \union {None}
    /\ last # None => policy.index \in 1 .. Len(Ladder) /\ last = Ladder[policy.index]

\* What a step does to the policy.
Waits ==
    /\ recon.pc = "start" /\ recon'.pc = "sleep" /\ TakeDelay
    /\ last' = IF Climbs /\ ~GoAwayPending THEN Delay ELSE None

Learns ==
    \/ UNCHANGED policy /\ UNCHANGED last
    \/ OnTransportFailure /\ Remember
    \/ OnHealthy /\ last' = None
    \/ /\ \E e \in Errors : OnServerError(e.code, e.grpc, ParseSeconds(e.goAway), e.parts)
       /\ Remember

\* The reader is a socket once there is one.
Reader == reader' = reader \/ reader' \in Sockets

\* A step waits, or it learns something and no wait begins.
LEMMA PolicyStep ==
  ASSUME Shape, [Next]_vars
  PROVE  Reader /\ (Waits \/ (Learns /\ ~(recon.pc = "start" /\ recon'.pc = "sleep")))
<1> USE DEF taskVars, stopVars, socketVars, serverVars, historyVars
<1>1. /\ IsRun(recon) /\ ws \in Sockets \union {None}
      /\ UNCHANGED policy /\ Remember => UNCHANGED last
  BY DEF Shape, Remember
<1>2. ScheduleReconnect => ~(recon.pc = "start" /\ recon'.pc = "sleep")
  BY <1>1, Scheduled
<1>3. ASSUME NEW s \in Sockets, Break(s) \/ Finish(s)
      PROVE  Learns /\ ~(recon.pc = "start" /\ recon'.pc = "sleep")
  BY <1>1, <1>2, <1>3 DEF Break, Finish, Learns
<1>4. CASE Connect
  BY <1>1, <1>2, <1>4
     DEF Connect, ConnectRedirected, ConnectFails, ConnectCrashes, ConnectOpens, ConnectGreets,
         Greets, Learns, Reader
<1>5. CASE ReconSleeps
  <2>1. recon'.pc = "sleep" /\ UNCHANGED reader
    BY <1>1, <1>5, Moves DEF ReconSleeps, Moved
  <2> QED
    BY <1>5, <2>1 DEF ReconSleeps, Waits, Reader
<1>6. CASE ReconStops \/ ReconCrashes
  <2>1. recon'.pc = "none" /\ UNCHANGED reader
    BY <1>1, <1>6, Moves DEF ReconStops, ReconCrashes, Moved
  <2> QED
    BY <1>6, <2>1 DEF ReconStops, ReconCrashes, Learns, Reader
<1>7. CASE ReconWakes
  BY <1>7 DEF ReconWakes, ReconOnly, Learns, Reader
<1>8. CASE ReconCloses \/ ReconRedirected \/ ReconOpens
  BY <1>8 DEF ReconCloses, ReconRedirected, ReconOpens, ReconOnly, Learns, Reader
<1>9. CASE ReconFails \/ ReconRejected
  BY <1>9 DEF ReconFails, ReconRejected, LoginFails, Fault, ReconOnly, Learns, Reader
<1>10. CASE Refreshed \/ RefreshRejected \/ RefreshUnavailable
  BY <1>10 DEF Refreshed, RefreshRejected, RefreshUnavailable, ReconOnly, Learns, Reader
<1>11. CASE ReconGreets
  BY <1>1, <1>11 DEF ReconGreets, Greets, Learns, Reader
<1>12. ASSUME NEW s \in Sockets, Reads(s) \/ Loop(s) \/ SocketLost(s)
       PROVE  Reader /\ Learns /\ ~(recon.pc = "start" /\ recon'.pc = "sleep")
  <2>1. CASE LoopReadsState(s) \/ LoopStarts(s) \/ LoopHandled(s) \/ SocketLost(s)
    BY <2>1 DEF LoopReadsState, LoopStarts, LoopHandled, SocketLost, Learns, Reader
  <2>2. CASE LoopReadsError(s)
    BY <2>2 DEF LoopReadsError, Learns, Reader
  <2>3. CASE LoopReadsGarbage(s) \/ LoopStops(s) \/ LoopBreaks(s) \/ LoopCrashes(s)
             \/ LoopCloses(s)
    BY <1>3, <2>3 DEF LoopReadsGarbage, LoopStops, LoopBreaks, LoopCrashes, LoopCloses, Reader
  <2> QED
    BY <1>12, <2>1, <2>2, <2>3 DEF Reads, Loop
<1>13. CASE Unload
  BY <1>1, <1>13, NoRunIs DEF Unload, StopReader, StopDialer, StopSocket, Learns, Reader
<1>14. CASE SendFails \/ TokenExpires
  BY <1>2, <1>14 DEF SendFails, TokenExpires, Learns, Reader
<1>15. CASE UNCHANGED vars
  BY <1>15 DEF vars, Learns, Reader
<1> QED
  BY <1>4, <1>5, <1>6, <1>7, <1>8, <1>9, <1>10, <1>11, <1>12, <1>13, <1>14, <1>15
     DEF Next, Recon

\* The rungs keep their order, and a wait in one series is longer than the last.
LEMMA RungsKept ==
  ASSUME Shape, Rungs, [Next]_vars
  PROVE  Rungs' /\ (Waits /\ last # None /\ last' # None => last' > last)
<1>1. IsPolicy(policy) /\ Reader /\ Rungs
  BY PolicyStep DEF Shape
<1>2. reader' \in Sockets \union {None}
  BY <1>1 DEF Rungs, Reader
<1>3. Ladder \in Seq(Nat) /\ Ascends(Ladder)
  BY <1>1, LadderAssumption DEF Rungs, Ladder
<1>4. <<>> \in Seq(Nat) /\ Ascends(<<>>)
  BY DEF Ascends
<1>5. ASSUME NEW p, IsPolicy(p), policy' = p,
             p.ladder \in Seq(Nat), Ascends(p.ladder), p.goAway \in Nat,
             p.index = Adopt(p.key), Remember
      PROVE  Rungs'
  <2>1. p.index \in Nat
    BY <1>1, <1>5 DEF Adopt, Rungs
  <2>2. last' # None => policy'.index = policy.index /\ Ladder' = Ladder /\ last' = last
    BY <1>5 DEF Remember, Adopt, Ladder
  <2> QED
    BY <1>1, <1>2, <1>5, <2>1, <2>2 DEF Rungs
<1>6. ASSUME UNCHANGED <<policy, last>>
      PROVE  Rungs'
  BY <1>1, <1>2, <1>6 DEF Rungs, Ladder
<1>7. ASSUME OnTransportFailure, Remember
      PROVE  Rungs'
  <2>1. PICK p : p = [policy EXCEPT !.ladder = <<>>, !.index = Adopt(TransportKey),
                                    !.key = TransportKey, !.retryable = TRUE]
    OBVIOUS
  <2>2. /\ IsPolicy(p) /\ p.ladder = <<>> /\ p.index = Adopt(p.key)
        /\ p.goAway = policy.goAway
    BY <1>1, <2>1 DEF IsPolicy
  <2> QED
    BY <1>1, <1>4, <1>5, <1>7, <2>1, <2>2 DEF OnTransportFailure, Rungs
<1>8. ASSUME OnHealthy, last' = None
      PROVE  Rungs'
  BY <1>2, <1>4, <1>8 DEF OnHealthy, Fresh, Rungs
<1>9. ASSUME NEW e \in Errors, Remember,
             OnServerError(e.code, e.grpc, ParseSeconds(e.goAway), e.parts)
      PROVE  Rungs'
  <2>1. PICK p : p = policy'
    OBVIOUS
  <2>2. /\ IsPolicy(p) /\ p.ladder = ParseLadder(e.parts) /\ p.index = Adopt(p.key)
        /\ p.goAway = ParseSeconds(e.goAway)
    BY <1>9, <2>1 DEF OnServerError, IsPolicy
  <2>3. p.goAway \in Nat
    BY <2>2, ErrorsAssumption DEF ParseSeconds
  <2>4. p.ladder \in Seq(Nat) /\ Ascends(p.ladder)
    BY <2>2, ErrorsAssumption, LadderOf
  <2> QED
    BY <1>5, <1>9, <2>1, <2>2, <2>3, <2>4
<1>10. CASE Waits
  <2>1. PICK p : p = [policy EXCEPT !.goAway = 0, !.index = 0]
    OBVIOUS
  <2>2. PICK q : q = [policy EXCEPT !.index = @ + 1]
    OBVIOUS
  <2>3. p.ladder = policy.ladder /\ p.goAway = 0 /\ p.index = 0
    BY <1>1, <2>1 DEF IsPolicy
  <2>4. q.ladder = policy.ladder /\ q.goAway = policy.goAway /\ q.index = policy.index + 1
    BY <1>1, <2>2 DEF IsPolicy
  <2>5. CASE GoAwayPending
    BY <1>1, <1>2, <1>10, <2>1, <2>3, <2>5 DEF Waits, TakeDelay, Rungs
  <2>6. CASE ~GoAwayPending /\ ~Climbs
    BY <1>1, <1>2, <1>10, <2>6 DEF Waits, TakeDelay, Rungs
  <2>7. CASE ~GoAwayPending /\ Climbs
    <3>1. /\ policy' = q /\ last' = Ladder[policy.index + 1]
          /\ policy.index + 1 \in 1 .. Len(Ladder)
      BY <1>1, <1>3, <1>10, <2>2, <2>7 DEF Waits, TakeDelay, Climbs, Delay, Rungs
    <3>2. Ladder' = Ladder
      BY <2>4, <3>1 DEF Ladder
    <3>3. Rungs'
      BY <1>1, <1>2, <2>4, <3>1, <3>2 DEF Rungs
    <3>4. last # None => last' > last
      <4>1. last # None => policy.index \in 1 .. Len(Ladder) /\ last = Ladder[policy.index]
        BY <1>1 DEF Rungs
      <4>2. policy.index \in Nat /\ Len(Ladder) \in Nat
        BY <1>1, <1>3 DEF Rungs
      <4>3. last # None => Ladder[policy.index] < Ladder[policy.index + 1]
        BY <1>3, <3>1, <4>1, <4>2 DEF Ascends
      <4> QED
        BY <1>3, <3>1, <4>1, <4>2, <4>3
    <3> QED
      BY <3>3, <3>4
  <2> QED
    BY <2>5, <2>6, <2>7
<1>11. Learns => Rungs'
  BY <1>6, <1>7, <1>8, <1>9 DEF Learns
<1>12. Waits \/ (Learns /\ ~(recon.pc = "start" /\ recon'.pc = "sleep"))
  BY PolicyStep
<1>13. Waits => recon.pc = "start" /\ recon'.pc = "sleep"
  BY DEF Waits
<1> QED
  BY <1>10, <1>11, <1>12, <1>13

\* The order of the rungs always holds.
LEMMA Climbing == Spec => [](TInv /\ Rungs)
<1>1. Init => Rungs
  BY DEF Init, Fresh, Rungs, Ascends
<1>2. TInv /\ Rungs /\ [Next]_vars => Rungs'
  BY RungsKept DEF TInv
<1> QED
  BY <1>1, <1>2, Invariance, PTL DEF Spec

\* The fields of the client and of its policy hold what the code can put there (TypeOK),
\* whatever ladder the server sends.
THEOREM TypeCorrect == Spec => []TypeOK
<1>1. TInv /\ Rungs => TypeOK
  BY DEF TInv, Shape, Rungs, TypeOK, Dialing
<1> QED
  BY <1>1, Climbing, PTL

\* Within one kind of failure the waits grow (BacksOff): over however many sockets, failed
\* attempts and repeated errors, a later rung is longer than the one before.
THEOREM WaitsGrow == Spec => BacksOff
<1>1. TInv /\ Rungs /\ [Next]_vars
        => [recon.pc = "start" /\ recon'.pc = "sleep" /\ last # None /\ last' # None
              => last' > last]_vars
  BY RungsKept, PolicyStep DEF TInv
<1> QED
  BY <1>1, Climbing, PTL DEF Spec, BacksOff
=============================================================================
