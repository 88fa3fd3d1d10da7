------------------------------- MODULE MCClient -------------------------------
(***************************************************************************)
(* A client that reconnects once, with one goroutine of the application,   *)
(* and a poll of the server on the first connection.                       *)
(***************************************************************************)
EXTENDS ClientHandle, TLC

CONSTANTS a, h1, h2, s   \* the application's goroutine, the heartbeats, the poll

MCRequester == ({a, h1, h2} \X {1, 2}) \cup {s}
MCEndOf == [g \in MCRequester |-> IF g = s THEN <<1, "server">> ELSE <<g[2], "client">>]
===============================================================================
