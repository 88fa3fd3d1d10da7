-------------------------------- MODULE Path --------------------------------
(***************************************************************************)
(* Paths of the data tree (component/path.go) and the test that decides    *)
(* which listeners a write concerns (component/affectboundary.go).         *)
(*                                                                         *)
(* A path is a sequence of segments, the non-empty texts between slashes.  *)
(* A segment made of decimal digits only is a numeral and addresses an     *)
(* array element; every other segment is a word and addresses an object    *)
(* member.  The number strconv.Atoi reads from a numeral is represented by *)
(* the numeral that spells it without leading zeros: Canon["01"] = "1".    *)
(* Precedes holds the pairs <<s, t>> in which the text of s is a proper    *)
(* prefix of the text of t, which is all WhetherContain sees of the bytes. *)
(***************************************************************************)
EXTENDS Naturals, Sequences, SequencesExt

CONSTANTS Word,      \* segments that are not decimal numbers
          Numeral,   \* segments that are decimal numbers
          Canon,     \* the numeral without leading zeros
          Precedes   \* pairs of segments, the first a proper text prefix of the second

Segment == Word \cup Numeral

ASSUME PathAssumption ==
  /\ Word \cap Numeral = {}
  /\ Canon \in [Numeral -> Numeral]
  /\ \A n \in Numeral : Canon[Canon[n]] = Canon[n]
  /\ Precedes \subseteq Segment \X Segment
  /\ "" \notin Segment

IsNumber(s) == s \in Numeral

Canonical(s) == IF IsNumber(s) THEN Canon[s] ELSE s

\* The place a path addresses once its numerals are read as numbers.
Place(path) == [i \in DOMAIN path |-> Canonical(path[i])]

\* No numeral of the path has leading zeros.
CanonicalPath(path) == \A i \in DOMAIN path : Canonical(path[i]) = path[i]

\* strings.Split(name, "/") without the empty pieces: "/a//b/" and "a/b" are one path.
InputFromString(road) == SelectSeq(road, LAMBDA s : s # "")

Father(path) == IF Len(path) > 1 THEN Front(path) ELSE <<>>

LastNode(path) == Last(path)

-----------------------------------------------------------------------------
(***************************************************************************)
(* WhetherContain compares two path texts over the length of the shorter   *)
(* one.  The texts agree there exactly when one path is a prefix of the    *)
(* other or, at the first segment in which they differ, one path ends in a *)
(* segment whose text is a prefix of the other's segment (a/b and a/bc).   *)
(***************************************************************************)
EndsInside(p, q) ==
  /\ p # <<>>
  /\ Len(p) <= Len(q)
  /\ IsPrefix(Front(p), q)
  /\ <<Last(p), q[Len(p)]>> \in Precedes

\* Mutant: a listener deeper than the written node is taken as not concerned.
OnlyAncestors(p, q) == IsPrefix(q, p) \/ EndsInside(q, p)

\* Mutant: the texts are compared whole, so a/b no longer matches a/bc.
WholeSegments(p, q) == IsPrefix(p, q) \/ IsPrefix(q, p)

WhetherContain(p, q) ==
  \/ IsPrefix(p, q)
  \/ IsPrefix(q, p)
  \/ EndsInside(p, q)
  \/ EndsInside(q, p)
=============================================================================
