-------------------------- MODULE MCYnisonTransport --------------------------
(* A short ladder, and the error responses whose treatment differs. *)
EXTENDS YnisonTransport

MCLadder == <<1, 5>>
MCCodes == {"not served"}

Response(code, grpc, goAway, parts) ==
    [code |-> code, grpc |-> grpc, goAway |-> goAway, parts |-> parts]

GoAway == Response("throttled", 8, 30, {})
NotServed == Response("not served", 14, 0, {})
Busy == Response("busy", 14, 0, {7, 2, -1})
Refused == Response("refused", 3, -1, {})

AllErrors == {GoAway, NotServed, Busy, Refused}
Endings == {GoAway, NotServed}
=============================================================================
