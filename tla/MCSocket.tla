------------------------------- MODULE MCSocket -------------------------------
(***************************************************************************)
(* A connection with two goroutines of the client and one of the server.   *)
(***************************************************************************)
EXTENDS RealtimeSocket, TLC

CONSTANTS a, h, s   \* an application's goroutine, the heartbeat, a poll of the server

MCRequester == {a, h, s}
MCEndOf == a :> <<1, "client">> @@ h :> <<1, "client">> @@ s :> <<1, "server">>
===============================================================================
