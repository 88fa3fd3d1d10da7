---------------------------- MODULE MCJsonStore ----------------------------
(***************************************************************************)
(* A small template for JsonStore: a scalar, an object and an array below  *)
(* the root, a key whose text begins another key, and an array number      *)
(* spelled in two ways.                                                    *)
(***************************************************************************)
EXTENDS JsonStore, TLC

MCWord == {"a", "ab", "b"}
MCNumeral == {"0", "00", "1"}
MCCanon == "0" :> "0" @@ "00" :> "0" @@ "1" :> "1"
MCPrecedes == {<<"a", "ab">>, <<"0", "00">>}

Str(v) == <<>> :> [type |-> "string", val |-> v]
Num(v) == <<>> :> [type |-> "float64", val |-> v]
Null == <<>> :> [type |-> "null"]
Object == <<>> :> [type |-> "object"]
Array == <<>> :> [type |-> "array"]
At(p, doc) == [x \in {p \o y : y \in DOMAIN doc} |-> doc[SubSeq(x, Len(p) + 1, Len(x))]]

\* {"a": "x", "ab": {"b": "x"}, "b": ["x", {"a": "x"}]}
MCTemplate ==
  Object
  @@ At(<<"a">>, Str("x"))
  @@ At(<<"ab">>, Object @@ At(<<"b">>, Str("x")))
  @@ At(<<"b">>, Array @@ At(<<"0">>, Str("x"))
                       @@ At(<<"1">>, Object @@ At(<<"a">>, Str("x"))))

MCData == {Str("y"), Null, Object @@ At(<<"b">>, Str("y")), Array @@ At(<<"0">>, Str("y"))}

MCRoad == {<<"">>, <<"a">>, <<"", "ab", "">>, <<"ab", "b">>, <<"a", "b">>, <<"b">>,
           <<"b", "0">>, <<"b", "00">>, <<"b", "1", "a">>, <<"0">>}

-----------------------------------------------------------------------------
\* The characters of the segments.
Digits == "0" :> 0 @@ "1" :> 1
Spelling == "a" :> <<"a">> @@ "ab" :> <<"a", "b">> @@ "b" :> <<"b">>
            @@ "0" :> <<"0">> @@ "00" :> <<"0", "0">> @@ "1" :> <<"1">> @@ "" :> <<>>
Texts(road) == [i \in DOMAIN road |-> Spelling[road[i]]]

Text == INSTANCE PathText WITH Digit <- Digits

\* The bytes of a road, slashes between the pieces and none left out.
RECURSIVE Joined(_)
Joined(road) == IF road = <<>> THEN <<>>
                ELSE IF Len(road) = 1 THEN Spelling[road[1]]
                ELSE Spelling[road[1]] \o <<"/">> \o Joined(Tail(road))

\* Whatever is written, the byte-wise WhetherContain on the printed paths tells
\* the same listeners apart as the segment-wise one (affectboundary.go).
TextsAgree ==
  \A road \in Road :
    LET p == last.path
        q == InputFromString(road)
    IN  WhetherContain(p, q)
          <=> Text!WhetherContain(Text!Output2String(Texts(p)), Text!Output2String(Texts(q)))

\* Splitting a printed path gives the path back, and numerals are the texts
\* that read as the number their canonical spelling reads as (path.go).
TextsRoundTrip ==
  /\ \A road \in Road :
       Text!InputFromString(Joined(road)) = Texts(InputFromString(road))
  /\ Text!InputFromString(Text!Output2String(Texts(last.path))) = Texts(last.path)
  /\ \A s \in Segment :
       /\ IsNumber(s) <=> Text!whetherNumberString(Spelling[s])
       /\ \A t \in Numeral : IsNumber(s) =>
            (Text!Atoi(Spelling[s]) = Text!Atoi(Spelling[t]) <=> Canonical(s) = Canonical(t))
=============================================================================
