------------------------------ MODULE PathText ------------------------------
(***************************************************************************)
(* The texts behind Path: how a path is written, split and compared byte   *)
(* by byte.  A text is a sequence of characters.  MCJsonStore checks the   *)
(* segment-level definitions of Path against these.                        *)
(***************************************************************************)
EXTENDS Naturals, Sequences, SequencesExt

CONSTANT Digit   \* the digit characters, as a function from character to 0..9

Slash == "/"

\* whetherNumberString: not empty and made of digits only.
whetherNumberString(text) ==
  text # <<>> /\ \A i \in DOMAIN text : text[i] \in DOMAIN Digit

\* strconv.Atoi on a text of digits, the number it returns.
Atoi(text) == FoldLeft(LAMBDA number, c : 10 * number + Digit[c], 0, text)

\* Output2String: the names joined by slashes, none in front.
Output2String(texts) ==
  FoldLeft(LAMBDA all, name : IF all = <<>> THEN name ELSE all \o <<Slash>> \o name,
           <<>>, texts)

\* Mutant: the pieces between two slashes are kept.
KeepsEmpty(text) ==
  LET step(acc, c) == IF c = Slash THEN Append(acc, <<>>)
                      ELSE Front(acc) \o <<Append(Last(acc), c)>>
  IN  FoldLeft(step, << <<>> >>, text)

\* InputFromString: cut at the slashes, keep the pieces that are not empty.
InputFromString(text) ==
  LET step(acc, c) == IF c = Slash THEN Append(acc, <<>>)
                      ELSE Front(acc) \o <<Append(Last(acc), c)>>
  IN  SelectSeq(FoldLeft(step, << <<>> >>, text), LAMBDA piece : piece # <<>>)

\* Mutant: the comparison stops one byte early.
ContainsButLast(a, b) ==
  LET length == IF Len(a) > Len(b) THEN Len(b) ELSE Len(a)
  IN  \A i \in 1 .. length - 1 : a[i] = b[i]

WhetherContain(a, b) ==
  LET length == IF Len(a) > Len(b) THEN Len(b) ELSE Len(a)
  IN  \A i \in 1 .. length : a[i] = b[i]
=============================================================================
