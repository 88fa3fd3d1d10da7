-------------------------- MODULE MCVisitorsControl --------------------------
(***************************************************************************)
(* A small data center: the document {"o": {"b": "x"}}, one producer, and  *)
(* listeners and readers on the object o and on its member.                *)
(***************************************************************************)
EXTENDS VisitorsControl

CONSTANTS w, r, g, v, u   \* goroutines and visitor names

MCWord == {"a", "b", "o"}
MCNumeral == {}
MCCanon == <<>>
MCPrecedes == {}

Str(val) == <<>> :> [type |-> "string", val |-> val]
Object == <<>> :> [type |-> "object"]
At(p, doc) == [x \in {p \o y : y \in DOMAIN doc} |-> doc[SubSeq(x, Len(p) + 1, Len(x))]]

MCTemplate == Object @@ At(<<"o">>, Object @@ At(<<"b">>, Str("x")))

MCRoad == {<<"o">>, <<"o", "b">>}
MCData == {Str("y"), Object, Object @@ At(<<"b">>, Str("y"))}

-----------------------------------------------------------------------------
\* Listening: a producer, and one reader that polls its listeners again and again.
ListenCaller == {w, r}
ListenVisitor == {w, v}
ListenName == w :> {w} @@ r :> {v}
ListenOperation == w :> {"Write"} @@ r :> {"ReadBuffer"}
ListenCalls == w :> 2 @@ r :> 3

\* Serving: a producer, and two goroutines that register, read and wait, each
\* under a name of its own.
ServeCaller == {w, r, g}
ServeVisitor == {w, v, u}
ServeName == w :> {w} @@ r :> {v} @@ g :> {u}
ServeOperation == w :> {"Write"} @@ r :> {"ReadWithTime"} @@ g :> {"Register", "Read"}
ServeCalls == w :> 1 @@ r :> 1 @@ g :> 2

\* A path that does not exist, and a null that no member accepts.
ServeRoad == {<<"a">>, <<"o">>, <<"o", "b">>}
ServeData == {Str("y"), <<>> :> [type |-> "null"]}

\* Liveness: one call of every kind, and a second write to fill a buffer.
LiveName == w :> {w} @@ r :> {v} @@ g :> {u}
LiveOperation == w :> {"Write"} @@ r :> {"ReadWithTime"} @@ g :> {"Register", "Read"}
LiveCalls == w :> 2 @@ r :> 1 @@ g :> 1
LiveData == {Str("y")}
LiveRoad == {<<"o", "b">>}

\* Sharing: two goroutines of one visitor, say two HTTP requests, wait on one path.
SharedName == w :> {w} @@ r :> {v} @@ g :> {v}
SharedOperation == w :> {"Write"} @@ r :> {"ReadBuffer"} @@ g :> {"ReadBuffer"}
SharedCalls == w :> 1 @@ r :> 1 @@ g :> 1

Buffers == Permutations(Buffer)
=============================================================================
