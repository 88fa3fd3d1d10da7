----------------------------- MODULE MCDataCenter -----------------------------
(***************************************************************************)
(* A small running program: one HTTP request, one client with one          *)
(* connection and one registration.                                        *)
(***************************************************************************)
EXTENDS DataCenter

CONSTANTS w, h, q, v   \* an HTTP goroutine, the reader goroutine, a poll; a visitor

MCWord == {"b", "o"}
MCNumeral == {}
MCCanon == <<>>
MCPrecedes == {}

Str(val) == <<>> :> [type |-> "string", val |-> val]
Object == <<>> :> [type |-> "object"]
At(p, doc) == [x \in {p \o y : y \in DOMAIN doc} |-> doc[SubSeq(x, Len(p) + 1, Len(x))]]

MCTemplate == Object @@ At(<<"o">>, Object @@ At(<<"b">>, Str("x")))

MCCaller == {w, h, q}
MCOperation == [c \in MCCaller |-> {}]
MCNameOf == [c \in MCCaller |-> {}]
MCCalls == w :> 1 @@ h :> 0 @@ q :> 0

\* One HTTP request and one request of the client, about one member: the HTTP
\* request reads, waits for no time at all (wait=x) or writes.
ServerRoad == {<<"o", "b">>}
ServerData == {Str("y")}
ServerWait == {<<>>, <<Nil>>}
===============================================================================
