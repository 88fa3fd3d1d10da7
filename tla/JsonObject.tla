----------------------------- MODULE JsonObject -----------------------------
(***************************************************************************)
(* The JSON document of component/component.go and its operations Find,    *)
(* Read and Write, as operators.                                           *)
(*                                                                         *)
(* A document is a function from places to nodes.  A place is the sequence *)
(* of object keys and array numbers on the way from the root, array        *)
(* numbers spelled as canonical numerals; the root is <<>>.  A node has    *)
(* the Go dynamic type of its value; a scalar also has the value.          *)
(* Go's nil is Nil.                                                        *)
(***************************************************************************)
EXTENDS Path

CONSTANTS ScalarType,  \* the scalar types a document may hold: string, float64, bool
          Scalar,      \* scalar values
          Nil          \* Go's nil and, as a read result, the empty string

ContainerType == {"object", "array"}

ASSUME JsonAssumption ==
  /\ ScalarType \cap {"object", "array", "null"} = {}
  /\ Nil \notin Seq(Segment)

Node ==
  [type : ContainerType \cup {"null"}] \cup [type : ScalarType, val : Scalar]

IsContainer(node) == node.type \in ContainerType

\* Everything above place x is there and a container; array elements are numbered.
Rooted(doc, x) ==
  \A k \in 0 .. Len(x) - 1 :
    /\ SubSeq(x, 1, k) \in DOMAIN doc
    /\ IsContainer(doc[SubSeq(x, 1, k)])
    /\ doc[SubSeq(x, 1, k)].type = "array"
         => x[k + 1] \in Numeral /\ Canon[x[k + 1]] = x[k + 1]

IsDocument(doc) ==
  /\ doc = [x \in DOMAIN doc |-> doc[x]]
  /\ DOMAIN doc \subseteq Seq(Segment)
  /\ <<>> \in DOMAIN doc
  /\ \A x \in DOMAIN doc : doc[x] \in Node /\ Rooted(doc, x)

Suffix(x, p) == SubSeq(x, Len(p) + 1, Len(x))

\* The value stored at place p, as a document of its own.
SubDocument(doc, p) ==
  [y \in {Suffix(x, p) : x \in {x \in DOMAIN doc : IsPrefix(p, x)}} |-> doc[p \o y]]

\* doc with the value at place p replaced by the document data.
Graft(doc, p, data) ==
  LET kept == {x \in DOMAIN doc : ~IsPrefix(p, x)}
      put  == {p \o y : y \in DOMAIN data}
  IN  [x \in kept \cup put |-> IF x \in kept THEN doc[x] ELSE data[Suffix(x, p)]]

-----------------------------------------------------------------------------
\* One step of Find: a word enters an object, a numeral enters an array.
Enters(doc, x, s) ==
  /\ x \in DOMAIN doc
  /\ doc[x].type = (IF IsNumber(s) THEN "array" ELSE "object")
  /\ Append(x, Canonical(s)) \in DOMAIN doc

\* Find walks the first k segments of path without stopping.
Walks(doc, path, k) ==
  \A i \in 1 .. k : Enters(doc, Place(SubSeq(path, 1, i - 1)), path[i])

\* Find stops with its pointer still on a leaf: the next segment is a word.
StopsAtLeaf(doc, path, k) ==
  /\ Walks(doc, path, k)
  /\ ~IsContainer(doc[Place(SubSeq(path, 1, k))])
  /\ ~IsNumber(path[k + 1])

NotNull(doc, x) == IF doc[x].type = "null" THEN Nil ELSE x

\* The lengths at which Find stops on a leaf: at most one.
Stops(doc, path) == {k \in 0 .. Len(path) - 1 : StopsAtLeaf(doc, path, k)}

\* The place whose value Find returns, Nil when it returns nil.
Find(doc, path) ==
  IF Walks(doc, path, Len(path)) THEN NotNull(doc, Place(path))
  ELSE IF Stops(doc, path) # {}
       THEN NotNull(doc, Place(SubSeq(path, 1, CHOOSE k \in Stops(doc, path) : TRUE)))
       ELSE Nil

Read(doc, path) ==
  IF Find(doc, path) = Nil THEN Nil ELSE SubDocument(doc, Find(doc, path))

-----------------------------------------------------------------------------
(***************************************************************************)
(* Write: the father of the written node is looked up with Find, then the  *)
(* type of the father decides.  Object members keep their Go type; array   *)
(* elements take any value.  Comparing types prints them, and printing the *)
(* type of nil panics.  With the empty path the father is the root itself, *)
(* the written key is "", and only the local variable ptr is assigned.     *)
(***************************************************************************)
\* Mutant: the element is looked up by its spelling, not by its number.
TargetSpelled(doc, path) == Append(Find(doc, Father(path)), LastNode(path))

Target(doc, path) == Append(Find(doc, Father(path)), Canonical(LastNode(path)))

\* Mutant: object members are not protected by their type.
AnyType(doc, path, data) == "ok"

MemberOutcome(doc, path, data) ==
  LET old == doc[Target(doc, path)].type
      new == data[<<>>].type
  IN  CASE old = new -> "ok"
        [] old # new /\ "null" \in {old, new} -> "panic"
        [] OTHER -> "error"

WriteOutcome(doc, path, data) ==
  LET at == Find(doc, Father(path))
  IN  CASE at = Nil -> "error"
        [] at # Nil /\ path = <<>> -> IF doc[at].type = "object" THEN "ok" ELSE "error"
        [] at # Nil /\ path # <<>> ->
             IF ~Enters(doc, at, LastNode(path)) THEN "error"
             ELSE IF IsNumber(LastNode(path)) THEN "ok"
             ELSE MemberOutcome(doc, path, data)

\* Mutant: the written value keeps the members it does not mention.
Merged(doc, path, data) ==
  LET p == Target(doc, path)
      put == {p \o y : y \in DOMAIN data}
  IN  IF WriteOutcome(doc, path, data) = "ok" /\ path # <<>>
      THEN [x \in DOMAIN doc \cup put |->
              IF x \in put THEN data[Suffix(x, p)] ELSE doc[x]]
      ELSE doc

Write(doc, path, data) ==
  IF WriteOutcome(doc, path, data) = "ok" /\ path # <<>>
  THEN Graft(doc, Target(doc, path), data)
  ELSE doc
=============================================================================
